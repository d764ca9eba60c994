------------------------------- MODULE Setup -------------------------------
(* `agentnoise setup`, the setup part of `agentnoise up`, and `agentnoise     *)
(* identity`: commands that several terminals and services may run at once.   *)
(* They share config.toml, the two places a secret key may be kept, and the   *)
(* White Noise daemon; none of them takes a lock. Each command works on a     *)
(* copy of config.toml that it loads at its start and writes back at its      *)
(* saves. Sources: setup.rs, identity.rs, secrets.rs, whitenoise_cli.rs,      *)
(* config.rs and the identity and up commands of main.rs.                     *)
EXTENDS Integers, FiniteSets

CONSTANTS
    Process,    \* the commands that may run at the same time
    Request,    \* what each of them may be asked: a set of Requests
    Key,        \* the identities Keys::generate may draw
    Group,      \* White Noise groups
    None,       \* the absence of an identity or of a group
    MaxStarts,  \* bound: commands started
    MaxFaults   \* bound: failures, kills, deaths of the daemon, changes of a key by hand

Stores == {"keychain", "burner"}
Modes == Stores \cup {"unset"}

(* A request: the command, --force-identity, --dev-burner-nsec, --phone,      *)
(* whether the daemon is to be started, a launcher flag (its only effect here *)
(* is one more save), whether a profile name is given and up's --group. For a *)
(* rename, "daemon" stands for the absence of --no-publish.                   *)
Requests == [kind : {"setup", "up", "rename"}, force : BOOLEAN, burner : BOOLEAN,
             phone : BOOLEAN, daemon : BOOLEAN, launcher : BOOLEAN,
             named : BOOLEAN, group : Group \cup {None}]

NoRequest == [kind |-> "setup", force |-> FALSE, burner |-> FALSE, phone |-> FALSE,
              daemon |-> FALSE, launcher |-> FALSE, named |-> FALSE, group |-> None]

ASSUME NoneAssumption == None \notin Key \cup Group
ASSUME RequestAssumption == Request \in [Process -> SUBSET Requests]
ASSUME BoundAssumption == MaxStarts \in Nat /\ MaxFaults \in Nat

VARIABLES
    file,       \* config.toml: [present, account, mode, groups]
    key,        \* the secret key each store holds
    drawn,      \* the identities generated so far
    daemon,     \* wnd: "down", "up" or "wedged" (accepts calls, answers none)
    loggedIn,   \* accounts the daemon holds
    published,  \* what is published of each account
    visible,    \* groups `wn groups list` shows
    pc,         \* where each command is
    ask,        \* its request
    mine,       \* its copy of the configuration
    warned,     \* the warnings it has collected
    starts,     \* commands started so far
    faults,     \* failures so far
    stale,      \* ghost: commands whose copy is older than config.toml
    excuse      \* ghost: why the account may have lost its key

daemonVars == <<daemon, loggedIn, published, visible>>
storeVars == <<key, drawn>>
localVars == <<pc, ask, mine, warned>>
ghostVars == <<stale, excuse>>
setupVars == <<file, storeVars, daemonVars, localVars, starts, faults, ghostVars>>

ConfigType == [present : BOOLEAN, account : Key \cup {None}, mode : Modes,
               groups : SUBSET Group]
(* What setup publishes, in this order: the relay entries of the account, its *)
(* profile, a key package.                                                    *)
Parts == {"relays", "profile", "package"}
Steps == {"idle", "load", "template", "identity", "check", "store", "account",
          "daemon", "login", "relays", "profile", "package", "group",
          "groupSave", "reported", "addGroup", "discover", "adoptGroups",
          "name", "adopt"}

SetupSteps == {"load", "template", "identity", "check", "store", "account", "daemon",
               "login", "group", "groupSave"} \cup Parts

(* config.toml before the first run: Config::template_for_path.               *)
Template == [present |-> FALSE, account |-> None, mode |-> "unset",
             groups |-> {}]

SetupInit ==
    /\ file = Template
    /\ key = [s \in Stores |-> None]
    /\ drawn = {}
    /\ daemon = "down"
    /\ loggedIn = {} /\ visible = {}
    /\ published = [k \in Key |-> {}]
    /\ pc = [p \in Process |-> "idle"]
    /\ ask = [p \in Process |-> NoRequest]
    /\ mine = [p \in Process |-> Template]
    /\ warned = [p \in Process |-> {}]
    /\ starts = 0 /\ faults = 0
    /\ stale = {} /\ excuse = {}

(*----------------------------- Shared helpers -----------------------------*)

(* A command holds a copy of config.toml that it may still act on.            *)
Ended(p) == pc[p] = "idle" \/ (pc[p] = "reported" /\ ask[p].kind # "up")
Holds(p) == pc[p] \notin {"idle", "load", "reported"}
Others(p) == {q \in Process \ {p} : Holds(q)}

Go(p, step) == pc' = [pc EXCEPT ![p] = step]
Leave(p) ==                                     \* the command's process ends
    /\ Go(p, "idle")
    /\ ask' = [ask EXCEPT ![p] = NoRequest]
    /\ mine' = [mine EXCEPT ![p] = Template]
    /\ warned' = [warned EXCEPT ![p] = {}]
    /\ stale' = stale \ {p}
Continue(p, step) ==
    /\ Go(p, step)
    /\ UNCHANGED <<ask, mine, warned, stale>>
Fault == faults < MaxFaults /\ faults' = faults + 1
(* Mutant of Warn: a warning is only printed.                                 *)
WarnUnkept(p, what) == UNCHANGED warned
Warn(p, what) == warned' = [warned EXCEPT ![p] = @ \cup {what}]

(* Config::save writes the whole file: what others wrote since the copy was   *)
(* loaded is gone.                                                            *)
SaveCopy(p, copy) ==
    /\ file' = [copy EXCEPT !.present = TRUE]
    /\ mine' = [mine EXCEPT ![p] = [copy EXCEPT !.present = TRUE]]
    /\ stale' = (stale \ {p}) \cup Others(p)

StoreOf(config) == IF config.mode = "burner" THEN "burner" ELSE "keychain"
KeyOf(config) == key[StoreOf(config)]
(* A command's last save.                                                     *)
SaveLast(p, copy) ==
    /\ file' = [copy EXCEPT !.present = TRUE]
    /\ Go(p, "idle")
    /\ ask' = [ask EXCEPT ![p] = NoRequest]
    /\ mine' = [mine EXCEPT ![p] = Template]
    /\ warned' = [warned EXCEPT ![p] = {}]
    /\ stale' = (stale \ {p}) \cup Others(p)

HasKey(config) == KeyOf(config) = config.account

(* The excuses end when an account is saved with its key in the store and no  *)
(* other command can still write an older copy.                               *)
ExcuseAfter(p, copy) == IF HasKey(copy) /\ Others(p) = {} THEN {} ELSE excuse

(*------------------------- Starting and loading ---------------------------*)

(* main: a command is started.                                                *)
Begin(p, r) ==
    /\ Ended(p) /\ starts < MaxStarts
    /\ starts' = starts + 1
    /\ Go(p, "load")
    /\ ask' = [ask EXCEPT ![p] = r]
    /\ warned' = [warned EXCEPT ![p] = {}]
    /\ stale' = stale \ {p}
    /\ UNCHANGED <<file, storeVars, daemonVars, mine, faults, excuse>>

(* Mutant of Configured: the next run without the flag goes back.             *)
ConfiguredAnew(config, r) ==
    [config EXCEPT !.mode = IF r.burner THEN "burner" ELSE "keychain"]

(* The flags setup applies to the copy it loads: --dev-burner-nsec moves the  *)
(* identity to a file, and stays in force for later runs.                     *)
Configured(config, r) ==
    [config EXCEPT !.mode = IF r.burner \/ @ = "burner" THEN "burner" ELSE "keychain"]

(* Mutant of LoadConfig: a forced setup starts from nothing.                  *)
LoadAnew(p) ==
    LET r == ask[p] IN
    /\ pc[p] = "load" /\ r.kind # "rename"
    /\ mine' = [mine EXCEPT ![p] = Configured(IF r.force THEN Template ELSE file, r)]
    /\ Go(p, "template")
    /\ UNCHANGED <<file, storeVars, daemonVars, ask, warned, faults, ghostVars>>

LoadConfig(p) ==
    LET r == ask[p] IN
    /\ pc[p] = "load" /\ r.kind # "rename"
    /\ mine' = [mine EXCEPT ![p] = Configured(file, r)]
    /\ excuse' = IF r.burner /\ file.mode # "burner" /\ file.account # None
                 THEN excuse \cup {"switched"} ELSE excuse
    /\ Go(p, IF r.launcher \/ ~file.present THEN "template" ELSE "identity")
    /\ UNCHANGED <<file, storeVars, daemonVars, ask, warned, faults, stale>>

SaveTemplate(p) ==
    /\ pc[p] = "template"
    /\ SaveCopy(p, mine[p])
    /\ Go(p, "identity")
    /\ UNCHANGED <<storeVars, daemonVars, ask, warned, faults, excuse>>

(*----------------------------- The identity -------------------------------*)

(* Mutant of FindIdentity: a key without an account is not taken up.          *)
FindAccount(p) ==
    /\ pc[p] = "identity"
    /\ Go(p, IF ask[p].force THEN "store" ELSE IF mine[p].account # None THEN "account" ELSE "check")
    /\ UNCHANGED <<file, storeVars, daemonVars, ask, mine, warned, faults, ghostVars>>

(* load_or_create_identity: forced creation asks nothing; a configured npub   *)
(* is taken without a look at its key; otherwise the key store decides.       *)
FindIdentity(p) ==
    LET stored == KeyOf(mine[p])
    IN  /\ pc[p] = "identity"
        /\ \/ ask[p].force /\ Go(p, "store") /\ UNCHANGED mine
           \/ ~ask[p].force /\ mine[p].account # None /\ Go(p, "account") /\ UNCHANGED mine
           \/ /\ ~ask[p].force /\ mine[p].account = None /\ stored # None
              /\ mine' = [mine EXCEPT ![p].account = stored]
              /\ Go(p, "account")
           \/ /\ ~ask[p].force /\ mine[p].account = None /\ stored = None
              /\ Go(p, "check") /\ UNCHANGED mine
        /\ UNCHANGED <<file, storeVars, daemonVars, ask, warned, faults, ghostVars>>

(* create_identity without force looks again, and refuses to replace a key.   *)
CheckAbsent(p) ==
    /\ pc[p] = "check"
    /\ IF KeyOf(mine[p]) = None THEN Continue(p, "store") ELSE Leave(p)
    /\ UNCHANGED <<file, storeVars, daemonVars, faults, excuse>>

(* The new key replaces whatever the store holds by now.                      *)
StoreKey(p) ==
    /\ pc[p] = "store"
    /\ \E k \in Key \ drawn :
        /\ key' = [key EXCEPT ![StoreOf(mine[p])] = k]
        /\ drawn' = drawn \cup {k}
        /\ mine' = [mine EXCEPT ![p].account = k]
    /\ excuse' = excuse \cup (IF ask[p].force THEN {"forced"} ELSE {})
                        \cup (IF Others(p) # {} THEN {"raced"} ELSE {})
    /\ Go(p, "account")
    /\ UNCHANGED <<file, daemonVars, ask, warned, faults, stale>>

SaveAccount(p) ==
    /\ pc[p] = "account"
    /\ SaveCopy(p, mine[p])
    /\ excuse' = ExcuseAfter(p, mine[p])
    /\ Go(p, IF ask[p].daemon THEN "daemon" ELSE "login")
    /\ UNCHANGED <<storeVars, daemonVars, ask, warned, faults>>

(*------------------------------- The daemon -------------------------------*)

(* ensure_daemon: a daemon that answers is used, one that is down is started; *)
(* a status call that times out counts as "not running", and the start that   *)
(* follows never sees a wedged daemon become ready: the command fails.        *)
EnsureDaemon(p) ==
    /\ pc[p] = "daemon"
    /\ \/ /\ daemon \in {"up", "down"}
          /\ daemon' = "up"
          /\ Continue(p, "login")
          /\ UNCHANGED faults
       \/ daemon = "wedged" /\ Leave(p) /\ UNCHANGED <<daemon, faults>>
       \/ daemon = "down" /\ Fault /\ Leave(p) /\ UNCHANGED daemon
    /\ UNCHANGED <<file, storeVars, loggedIn, published, visible, excuse>>

(* The calls of wn that have no timeout: a wedged daemon holds the command.   *)
Answers == daemon # "wedged"
Serves(config) ==
    daemon = "up" /\ IF config.account = None THEN loggedIn # {} ELSE config.account \in loggedIn

AfterLogin(p) == IF ask[p].kind = "rename" THEN "profile" ELSE "relays"

(* ensure_login_from_configured_nsec: `whoami`, and a login with the key of   *)
(* the configured store when the account is missing. Without a key, or when   *)
(* the login fails, the command ends.                                         *)
EnsureLogin(p) ==
    LET nsec == KeyOf(mine[p])
        missing == ~Serves(mine[p]) /\ mine[p].mode # "unset"
    IN  /\ pc[p] = "login" /\ Answers
        /\ \/ ~missing /\ Continue(p, AfterLogin(p)) /\ UNCHANGED <<loggedIn, faults>>
           \/ /\ missing /\ daemon = "up" /\ nsec # None
              /\ loggedIn' = loggedIn \cup {nsec}
              /\ Continue(p, AfterLogin(p)) /\ UNCHANGED faults
           \/ /\ missing /\ (daemon = "down" \/ nsec = None)
              /\ Leave(p) /\ UNCHANGED <<loggedIn, faults>>
           \/ Fault /\ Leave(p) /\ UNCHANGED loggedIn
        /\ UNCHANGED <<file, storeVars, daemon, published, visible, excuse>>

(* ensure_message_relays adds the missing entries, update_profile publishes   *)
(* the name, publish_key_package makes three attempts. What fails becomes a   *)
(* warning, though it may have done its work; and for the key package, one    *)
(* that `wn keys list` shows, whoever published it, counts as published.      *)
AfterPart(p) ==
    CASE pc[p] = "relays" -> "profile"
      [] pc[p] = "profile" -> "package"
      [] OTHER -> IF ask[p].phone THEN "group" ELSE "reported"

Publish(p) ==
    LET part == pc[p]
        a == mine[p].account
        done == [published EXCEPT ![a] = @ \cup {part}]
    IN  /\ part \in Parts /\ Answers /\ ask[p].kind # "rename"
        /\ \/ Serves(mine[p]) /\ published' = done /\ UNCHANGED <<warned, faults>>
           \/ /\ Serves(mine[p]) /\ Fault
              /\ published' \in {published, done}
              /\ \/ Warn(p, part)
                 \/ part = "package" /\ part \in published'[a] /\ UNCHANGED warned
           \/ ~Serves(mine[p]) /\ Warn(p, part) /\ UNCHANGED <<published, faults>>
        /\ Go(p, AfterPart(p))
        /\ UNCHANGED <<file, storeVars, daemon, loggedIn, visible, ask, mine, ghostVars>>

(* --phone: create_group; its output may hold no id that is recognised.       *)
CreateGroup(p) ==
    /\ pc[p] = "group" /\ Answers
    /\ \/ /\ Serves(mine[p])
          /\ \E g \in Group :
                /\ visible' = visible \cup {g}
                /\ mine' = [mine EXCEPT ![p].groups = @ \cup {g}]
          /\ Go(p, "groupSave")
          /\ UNCHANGED <<ask, warned, stale, faults>>
       \/ /\ Serves(mine[p]) /\ Fault
          /\ \E g \in Group : visible' = visible \cup {g}
          /\ Continue(p, "reported")
       \/ ~Serves(mine[p]) /\ Leave(p) /\ UNCHANGED <<visible, faults>>
       \/ Fault /\ Leave(p) /\ UNCHANGED visible
    /\ UNCHANGED <<file, storeVars, daemon, loggedIn, published, excuse>>

(* setup's last save writes the copy it loaded before all those calls.        *)
SaveGroup(p) ==
    /\ pc[p] = "groupSave"
    /\ SaveCopy(p, mine[p])
    /\ Go(p, "reported")
    /\ UNCHANGED <<storeVars, daemonVars, ask, warned, faults, excuse>>

(*----------------------- What `up` does after setup -----------------------*)

(* up loads config.toml again and adds --group, if given.                     *)
Reload(p) ==
    LET loaded == [file EXCEPT !.groups =
                       IF ask[p].group = None THEN @ ELSE @ \cup {ask[p].group}]
        next == IF ask[p].group # None THEN "addGroup" ELSE "discover"
    IN  /\ pc[p] = "reported" /\ ask[p].kind = "up"
        /\ IF loaded.groups # {} /\ next = "discover"
           THEN Leave(p)
           ELSE /\ mine' = [mine EXCEPT ![p] = loaded]
                /\ stale' = stale \ {p}
                /\ Go(p, next)
                /\ UNCHANGED <<ask, warned>>
        /\ UNCHANGED <<file, storeVars, daemonVars, faults, excuse>>

(* up goes on to its listener, which has a model of its own.                  *)
AddGroup(p) ==
    /\ pc[p] = "addGroup"
    /\ SaveLast(p, mine[p])
    /\ UNCHANGED <<storeVars, daemonVars, faults, excuse>>

(* discover_group: without a control group every listed group becomes one.    *)
DiscoverGroups(p) ==
    /\ pc[p] = "discover" /\ Answers
    /\ \/ /\ Serves(mine[p]) /\ visible # {}
          /\ mine' = [mine EXCEPT ![p].groups = visible]
          /\ Go(p, "adoptGroups")
          /\ UNCHANGED <<ask, warned, stale, faults>>
       \/ (~Serves(mine[p]) \/ visible = {}) /\ Leave(p) /\ UNCHANGED faults
       \/ Fault /\ Leave(p)                            \* the list or an accept fails
    /\ UNCHANGED <<file, storeVars, daemonVars, excuse>>

SaveDiscovered(p) ==
    /\ pc[p] = "adoptGroups"
    /\ SaveLast(p, mine[p])
    /\ UNCHANGED <<storeVars, daemonVars, faults, excuse>>

(*---------------------------- identity rename -----------------------------*)

LoadForRename(p) ==
    /\ pc[p] = "load" /\ ask[p].kind = "rename"
    /\ IF ~ask[p].named THEN Leave(p)
       ELSE /\ mine' = [mine EXCEPT ![p] = file]
            /\ Go(p, "name")
            /\ UNCHANGED <<ask, warned, stale>>
    /\ UNCHANGED <<file, storeVars, daemonVars, faults, excuse>>

SaveName(p) ==
    /\ pc[p] = "name"
    /\ IF ~ask[p].daemon THEN SaveLast(p, mine[p])
       ELSE /\ SaveCopy(p, mine[p])
            /\ Go(p, IF mine[p].account = None THEN "adopt" ELSE "daemon")
            /\ UNCHANGED <<ask, warned>>
    /\ UNCHANGED <<storeVars, daemonVars, faults, excuse>>

(* Without an account, rename adopts the key that is in the store.            *)
AdoptAccount(p) ==
    LET copy == [mine[p] EXCEPT !.account = KeyOf(mine[p])]
    IN  /\ pc[p] = "adopt"
        /\ IF copy.account = None THEN UNCHANGED <<file, mine, stale>> ELSE SaveCopy(p, copy)
        /\ Go(p, "daemon")
        /\ UNCHANGED <<storeVars, daemonVars, ask, warned, faults, excuse>>

(* publish_configured_profile; without an account the daemon takes its own.   *)
PublishName(p) ==
    /\ pc[p] = "profile" /\ Answers /\ ask[p].kind = "rename"
    /\ \/ /\ Serves(mine[p])
          /\ \E a \in IF mine[p].account = None THEN loggedIn ELSE {mine[p].account} :
                published' = [published EXCEPT ![a] = @ \cup {"profile"}]
          /\ UNCHANGED faults
       \/ Serves(mine[p]) /\ Fault /\ UNCHANGED published
       \/ ~Serves(mine[p]) /\ UNCHANGED <<published, faults>>
    /\ Leave(p)
    /\ UNCHANGED <<file, storeVars, daemon, loggedIn, visible, excuse>>

(*------------------------ Around the commands -----------------------------*)

(* The listener pairs a phone or opens a chat: it loads config.toml, adds the *)
(* group and saves.                                                           *)
ListenerAddsGroup(g) ==
    /\ file.present /\ g \notin file.groups
    /\ file' = [file EXCEPT !.groups = @ \cup {g}]
    /\ visible' = visible \cup {g}
    /\ stale' = stale \cup {q \in Process : Holds(q)}
    /\ UNCHANGED <<storeVars, daemon, loggedIn, published, localVars,
                   faults, excuse>>

(* identity create: refuses to replace a key, unless forced.                  *)
CreateByHand(force) ==
    /\ force \/ KeyOf(file) = None
    /\ Fault
    /\ \E k \in Key \ drawn :
        /\ key' = [key EXCEPT ![StoreOf(file)] = k]
        /\ drawn' = drawn \cup {k}
    /\ excuse' = excuse \cup {"by hand"}
    /\ UNCHANGED <<file, daemonVars, localVars, stale>>

(* identity delete and keychain delete-nsec.                                  *)
DeleteKey(s) ==
    /\ key[s] # None /\ Fault
    /\ key' = [key EXCEPT ![s] = None]
    /\ excuse' = excuse \cup {"by hand"}
    /\ UNCHANGED <<file, drawn, daemonVars, localVars, stale>>

Kill(p) ==
    /\ ~Ended(p) /\ Fault
    /\ Leave(p)
    /\ UNCHANGED <<file, storeVars, daemonVars, excuse>>

DaemonFails ==
    /\ daemon = "up" /\ Fault
    /\ daemon' \in {"down", "wedged"}
    /\ UNCHANGED <<file, storeVars, loggedIn, published, visible,
                   localVars, ghostVars>>

DaemonIsKilled ==
    /\ daemon = "wedged"
    /\ daemon' = "down"
    /\ UNCHANGED <<file, storeVars, loggedIn, published, visible,
                   localVars, faults, ghostVars>>

(*----------------------------- Specification ------------------------------*)

Step(p) ==
    \/ LoadConfig(p) \/ SaveTemplate(p)
    \/ FindIdentity(p) \/ CheckAbsent(p) \/ StoreKey(p) \/ SaveAccount(p)
    \/ EnsureDaemon(p) \/ EnsureLogin(p)
    \/ Publish(p) \/ CreateGroup(p) \/ SaveGroup(p)
    \/ Reload(p) \/ AddGroup(p) \/ DiscoverGroups(p) \/ SaveDiscovered(p)
    \/ LoadForRename(p) \/ SaveName(p) \/ AdoptAccount(p) \/ PublishName(p)

Around ==
    \/ \E g \in Group : ListenerAddsGroup(g)
    \/ \E force \in BOOLEAN : CreateByHand(force)
    \/ \E s \in Stores : DeleteKey(s)
    \/ DaemonFails \/ DaemonIsKilled

SetupNext ==
    \/ \E p \in Process : \E r \in Request[p] : Begin(p, r)
    \/ (\E p \in Process : Step(p) \/ Kill(p)) /\ UNCHANGED starts
    \/ Around /\ UNCHANGED starts

SetupSpec == SetupInit /\ [][SetupNext]_setupVars

(*------------------------------- Properties -------------------------------*)

SetupTypeOK ==
    /\ file \in ConfigType /\ mine \in [Process -> ConfigType]
    /\ key \in [Stores -> Key \cup {None}] /\ drawn \subseteq Key
    /\ daemon \in {"down", "up", "wedged"}
    /\ loggedIn \subseteq Key /\ visible \subseteq Group
    /\ published \in [Key -> SUBSET Parts]
    /\ pc \in [Process -> Steps] /\ ask \in [Process -> Requests]
    /\ warned \in [Process -> SUBSET Parts]
    /\ starts \in 0..MaxStarts /\ faults \in 0..MaxFaults
    /\ stale \subseteq Process
    /\ excuse \subseteq {"switched", "forced", "raced", "by hand"}

(* The account config.toml names has its secret key in the store config.toml  *)
(* names, whatever commands were killed or failed half way, unless the key    *)
(* was changed by hand, replaced by a forced setup that has not saved its     *)
(* account yet, left behind by --dev-burner-nsec, or two first setups raced;  *)
(* and the next setup that saves an account whose key is there ends that.     *)
AccountHasKey == file.account # None /\ excuse = {} => HasKey(file)

(* What backs it: a command's copy is as good as the file,                    *)
CopiesHaveKey ==
    \A p \in Process : Holds(p) /\ mine[p].account # None /\ excuse = {} => HasKey(mine[p])

(* and a key that is stored unforced replaces none.                           *)
StoresIntoEmpty ==
    \A p \in Process : pc[p] \in {"check", "store"} =>
        /\ pc[p] = "check" => ~ask[p].force
        /\ ~ask[p].force => mine[p].account = None /\ (excuse = {} => KeyOf(mine[p]) = None)

(* Setup says where the key is kept; from its first save on it has an         *)
(* account, and once past the login the daemon holds it. A rename takes its   *)
(* own steps.                                                                 *)
AfterIdentity == {"account", "daemon", "login", "group", "groupSave", "reported"} \cup Parts
AfterLoginSteps == {"group", "groupSave"} \cup Parts
RenameSteps == {"idle", "load", "name", "adopt", "daemon", "login", "profile"}
AccountKnown ==
    \A p \in Process :
        IF ask[p].kind = "rename" THEN pc[p] \in RenameSteps
        ELSE /\ pc[p] \notin {"name", "adopt"}
             /\ pc[p] \in SetupSteps \ {"load"} => mine[p].mode # "unset"
             /\ pc[p] \in AfterIdentity => mine[p].account # None
             /\ pc[p] \in AfterLoginSteps /\ excuse = {} => mine[p].account \in loggedIn

(* A part that setup has passed without a warning is done.                    *)
After(part) == CASE part = "relays"  -> {"profile", "package", "group", "groupSave", "reported"}
                 [] part = "profile" -> {"package", "group", "groupSave", "reported"}
                 [] OTHER            -> {"group", "groupSave", "reported"}
DoneOrWarned ==
    \A p \in Process : ask[p].kind # "rename" /\ warned[p] = {} =>
        \A part \in Parts : pc[p] \in After(part) =>
            /\ mine[p].account \in loggedIn
            /\ part \in published[mine[p].account]

(* A copy that is not stale has the control groups of the file.               *)
CopiesCoverGroups ==
    \A p \in Process :
        /\ Holds(p) /\ p \notin stale => file.groups \subseteq mine[p].groups
        /\ pc[p] = "discover" => mine[p].groups = {}

SetupIInv == /\ SetupTypeOK /\ AccountHasKey /\ CopiesHaveKey /\ StoresIntoEmpty
             /\ AccountKnown /\ DoneOrWarned /\ CopiesCoverGroups

Ready(account) == account \in loggedIn /\ published[account] = Parts

(* A setup that reports no warning left the account logged in, with all its   *)
(* relay entries, a profile and a key package.                                *)
ReportIsTrue ==
    \A p \in Process :
        pc[p] = "reported" /\ warned[p] = {} => Ready(mine[p].account)

(* A control group leaves config.toml only when a command writes back a copy  *)
(* that someone else's save has made stale in the meantime.                   *)
GroupsStay ==
    [][file.groups \subseteq file'.groups \/ \E p \in stale : p \notin stale']_setupVars

(* Whatever was interrupted before, a setup gives up only when it meets a     *)
(* fault itself, or finds no working daemon where it needs one, or the        *)
(* account has lost its key: no earlier crash or failure leaves something     *)
(* that only a repair by hand gets past. With ReportIsTrue: repeating setup   *)
(* makes the account usable.                                                  *)
GivesUp(p) == ask[p].kind # "rename" /\ pc[p] \in SetupSteps /\ pc'[p] = "idle"
SetupHeals ==
    [][\A p \in Process : GivesUp(p) =>
          \/ faults' # faults \/ excuse # {}
          \/ daemon # "up" /\ pc[p] \in {"daemon", "login", "group"}]_setupVars
=============================================================================
