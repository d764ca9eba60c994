---------------------------- MODULE MachinesProofs ----------------------------
(* Proofs about the machines that share no state: worktrees, the session      *)
(* watcher and setup, each for any values of its constants and any number of  *)
(* failures.                                                                  *)
EXTENDS Setup, Worktrees, Watcher, FiniteSetTheorems, SequenceTheorems, TLAPS

(*-------------------------------- Worktrees --------------------------------*)

(* The listener's records that the file lacks are those a failed save or an   *)
(* old list written back put at risk; what a chat was told is in both, or at  *)
(* risk, also while it is being removed.                                      *)
TreesCovered ==
    /\ Places(trees) \subseteq Places(treeFile) \cup unsafe
    /\ told \subseteq unsafe \cup (Places(trees) \cap Places(treeFile))

LEMMA SwitchingKeeps ==
    ASSUME TreesCovered, NEW desk \in Desk, NEW tree \in trees,
           Switches(desk, tree), UNCHANGED <<trees, treeFile, unsafe>>
    PROVE  TreesCovered'
BY DEF TreesCovered, Switches, Places

(* A saved list that has every place a chat was told of, or that was lost     *)
(* before, keeps what is told.                                                *)
LEMMA SavingKeeps ==
    ASSUME TreesCovered, NEW now, trees' = now,
           TreesSaved(now) \/ TreesNotSaved(now),
           told' \subseteq told, told' \cap Places(trees) \subseteq Places(now)
    PROVE  TreesCovered'
<1>1. CASE TreesSaved(now)
  BY <1>1 DEF TreesCovered, TreesSaved, Places
<1>2. CASE TreesNotSaved(now)
  BY <1>2 DEF TreesCovered, TreesNotSaved, Places
<1> QED BY <1>1, <1>2

LEMMA TreeStep == TreesCovered /\ [TreeNext]_treeVars => TreesCovered'
<1> SUFFICES ASSUME TreesCovered, [TreeNext]_treeVars
             PROVE  TreesCovered'
  OBVIOUS
<1>1. ASSUME NEW desk \in Desk, NEW place \in Place, TakesExisting(desk, place)
      PROVE  TreesCovered'
  <2>1. PICK tree \in At(place) : Switches(desk, tree)
    BY <1>1 DEF TakesExisting
  <2> QED BY <1>1, <2>1, SwitchingKeeps DEF TakesExisting, At
<1>2. ASSUME NEW desk \in Desk, NEW place \in Place, AddsTree(desk, place)
      PROVE  TreesCovered'
  BY <1>2 DEF AddsTree, TreesCovered, Places
<1>3. ASSUME NEW desk \in Desk, NEW place \in Place, UsesTree(desk, place)
      PROVE  TreesCovered'
  <2>1. PICK tree \in At(place) : Switches(desk, tree)
    BY <1>3 DEF UsesTree
  <2> QED BY <1>3, <2>1, SwitchingKeeps DEF UsesTree, At
<1>4. ASSUME NEW desk \in Desk, NEW place \in Place, RemovesTree(desk, place)
      PROVE  TreesCovered'
  BY <1>4 DEF RemovesTree, TreesCovered, Places
<1>5. CASE RecordsTree
  <2> DEFINE now == (trees \ At(doing.tree.place)) \cup {doing.tree}
  <2>1. Places(trees) \subseteq Places(now)
    BY DEF Places, At
  <2>2. CASE TreesSaved(trees') /\ Switches(doing.desk, doing.tree)
    <3>1. /\ Places(treeFile') = Places(trees') /\ unsafe' = unsafe \ Places(trees')
          /\ told' \subseteq told \cup {doing.tree.place}
      BY <2>2 DEF TreesSaved, Switches
    <3>2. trees' = now /\ doing.tree.place \in Places(trees')
      BY <1>5 DEF RecordsTree, Places
    <3> QED BY <2>1, <3>1, <3>2 DEF TreesCovered
  <2>3. CASE TreesNotSaved(trees') /\ UNCHANGED told
    BY <1>5, <2>1, <2>3, SavingKeeps DEF RecordsTree
  <2> QED BY <1>5, <2>2, <2>3 DEF RecordsTree
<1>6. CASE ForgetsTree
  <2>1. /\ trees' = trees \ {doing.tree} /\ told' = told \ {doing.tree.place}
        /\ TreesSaved(trees') \/ TreesNotSaved(trees')
    BY <1>6 DEF ForgetsTree
  <2>2. told' \cap Places(trees) \subseteq Places(trees')
    BY <2>1 DEF Places
  <2> QED BY <2>1, <2>2, SavingKeeps
<1>7. CASE ListenerRestarts
  BY <1>7 DEF ListenerRestarts, TreesCovered, Places
<1>8. CASE OpenerReadsTrees
  BY <1>8 DEF OpenerReadsTrees, TreesCovered, Places
<1>9. CASE OpenerWritesTrees
  BY <1>9 DEF OpenerWritesTrees, TreesCovered, Places
<1>10. ASSUME NEW place \in Place, DirectoryRemoved(place) \/ GitPrunes(place)
       PROVE  TreesCovered'
  BY <1>10 DEF DirectoryRemoved, GitPrunes, TreesCovered, Places
<1>11. CASE UNCHANGED treeVars
  BY <1>11 DEF treeVars, TreesCovered, Places
<1> QED
  BY <1>1, <1>2, <1>3, <1>4, <1>5, <1>6, <1>7, <1>8, <1>9, <1>10, <1>11 DEF TreeNext

(* A worktree a chat was told it works in can be found again, in the          *)
(* listener and after a restart, until it is removed or a failed save or a    *)
(* list written back puts it at risk (worktree_text, WorktreeStore).          *)
THEOREM TreesStayFound == TreeSpec => []ToldIsKept
<1>1. TreeInit => TreesCovered
  BY DEF TreeInit, TreesCovered, Places
<1>2. TreesCovered => ToldIsKept
  BY DEF TreesCovered, ToldIsKept
<1> QED BY <1>1, <1>2, TreeStep, PTL DEF TreeSpec

(*--------------------------------- Watcher ---------------------------------*)

(* What a short id stands for is the session it was shown for, if that is     *)
(* still listed, or it stands for none.                                       *)
LEMMA ShortIdsAreOwn ==
    ASSUME IsFiniteSet(Local), NEW s \in There, NEW target \in {s, ShortOf[s]},
           NEW got \in Resolves(target)
    PROVE  got = s
<1> DEFINE fits == {t \in There : ShortOf[t] = target}
<1>1. CASE target \in There
  <2>1. target \in Local
    BY <1>1 DEF There
  <2>2. target = s
    BY <2>1, ShortAssumption DEF There
  <2> QED BY <1>1, <2>2 DEF Resolves
<1>2. CASE target \notin There
  <2>1. s \in fits
    BY <1>2
  <2>2. Cardinality(fits) = 1 /\ got \in fits
    BY <1>2, <2>1 DEF Resolves
  <2>3. IsFiniteSet(fits)
    BY FS_Subset DEF There
  <2>4. PICK x : fits = {x}
    BY <2>2, <2>3, FS_Singleton
  <2> QED BY <2>1, <2>2, <2>4
<1> QED BY <1>1, <1>2

(* However the list of sessions changes between the notice and the answer,    *)
(* a resume command reaches the session it was shown for while that is        *)
(* listed, or is refused (resolve_session_id).                                *)
THEOREM ShownSessionIsResumed == IsFiniteSet(Local) => (WatchSpec => []ShownIsResumed)
<1> SUFFICES ASSUME IsFiniteSet(Local)
             PROVE  WatchSpec => []ShownIsResumed
  OBVIOUS
<1>1. WatchInit => ShownIsResumed
  BY DEF WatchInit, ShownIsResumed
<1>2. ShownIsResumed /\ [WatchNext]_watchVars => ShownIsResumed'
  <2> SUFFICES ASSUME ShownIsResumed, [WatchNext]_watchVars
               PROVE  ShownIsResumed'
    OBVIOUS
  <2>1. ASSUME NEW s \in Local, NEW target \in {s, ShortOf[s]}, Resumes(s, target)
        PROVE  ShownIsResumed'
    <3>1. \A got \in Resolves(target) : s \in There => got = s
      BY ShortIdsAreOwn
    <3>2. resumed' \subseteq resumed \cup {[meant |-> s, got |-> got, gone |-> s \notin There] :
                                             got \in Resolves(target)}
      BY <2>1 DEF Resumes
    <3>3. \A r \in resumed' : r.gone \/ r.got = r.meant
      <4> TAKE r \in resumed'
      <4>1. CASE r \in resumed
        BY <4>1 DEF ShownIsResumed
      <4>2. ASSUME NEW got \in Resolves(target),
                   r = [meant |-> s, got |-> got, gone |-> s \notin There]
            PROVE  r.gone \/ r.got = r.meant
        BY <4>2, <3>1
      <4> QED BY <3>2, <4>1, <4>2
    <3> QED BY <3>3 DEF ShownIsResumed
  <2>2. UNCHANGED resumed => ShownIsResumed'
    BY DEF ShownIsResumed
  <2>3. CASE Baseline \/ Scan \/ ScanFails \/ NoticeHandled \/ PairingChanges \/ WatcherRestarts
    BY <2>2, <2>3 DEF Baseline, Scan, ScanFails, NoticeHandled, PairingChanges, WatcherRestarts
  <2>4. ASSUME NEW s \in Local, Appears(s) \/ Vanishes(s)
        PROVE  ShownIsResumed'
    BY <2>2, <2>4 DEF Appears, Vanishes
  <2> QED BY <2>1, <2>2, <2>3, <2>4 DEF WatchNext, watchVars
<1> QED BY <1>1, <1>2, PTL DEF WatchSpec

(*------------------------------ Setup: types ------------------------------*)

(* What every command has to itself.                                          *)
LocalTypeOK ==
    /\ mine \in [Process -> ConfigType] /\ pc \in [Process -> Steps]
    /\ ask \in [Process -> Requests] /\ warned \in [Process -> SUBSET Parts]
    /\ stale \subseteq Process

LEMMA SomeConfigs ==
    /\ Template \in ConfigType /\ NoRequest \in Requests
    /\ \A c \in ConfigType :
          /\ [c EXCEPT !.present = TRUE] \in ConfigType
          /\ \A a \in Key \cup {None} : [c EXCEPT !.account = a] \in ConfigType
          /\ \A g \in SUBSET Group : [c EXCEPT !.groups = g] \in ConfigType
          /\ \A m \in Modes : [c EXCEPT !.mode = m] \in ConfigType
BY DEF Template, NoRequest, Requests, ConfigType, Modes, Stores

LEMMA LeaveTypes ==
    ASSUME LocalTypeOK, NEW p \in Process, Leave(p)
    PROVE  LocalTypeOK'
BY SomeConfigs DEF LocalTypeOK, Leave, Go, Steps

LEMMA ContinueTypes ==
    ASSUME LocalTypeOK, NEW p \in Process, NEW step \in Steps, Continue(p, step)
    PROVE  LocalTypeOK'
BY DEF LocalTypeOK, Continue, Go

LEMMA SaveTypes ==
    ASSUME LocalTypeOK, NEW p \in Process, NEW copy \in ConfigType, NEW step \in Steps,
           SaveCopy(p, copy), Go(p, step), UNCHANGED <<ask, warned>>
    PROVE  LocalTypeOK' /\ file' \in ConfigType
BY SomeConfigs DEF LocalTypeOK, SaveCopy, Go, Others

LEMMA SaveLastTypes ==
    ASSUME LocalTypeOK, NEW p \in Process, NEW copy \in ConfigType, SaveLast(p, copy)
    PROVE  LocalTypeOK' /\ file' \in ConfigType
BY SomeConfigs DEF LocalTypeOK, SaveLast, Go, Others, Steps

LEMMA ChangeTypes ==
    ASSUME LocalTypeOK, NEW p \in Process, NEW copy \in ConfigType, NEW step \in Steps,
           mine' = [mine EXCEPT ![p] = copy], Go(p, step), 
           stale' \subseteq stale, UNCHANGED <<ask, warned>>
    PROVE  LocalTypeOK'
BY DEF LocalTypeOK, Go

RestTypeOK ==
    /\ file \in ConfigType
    /\ key \in [Stores -> Key \cup {None}] /\ drawn \subseteq Key
    /\ daemon \in {"down", "up", "wedged"}
    /\ loggedIn \subseteq Key /\ visible \subseteq Group
    /\ published \in [Key -> SUBSET Parts]
    /\ starts \in 0..MaxStarts /\ faults \in 0..MaxFaults
    /\ excuse \subseteq {"switched", "forced", "raced", "by hand"}

TypesOK == LocalTypeOK /\ RestTypeOK

LEMMA KeysAreKeys ==
    ASSUME RestTypeOK, NEW c \in ConfigType
    PROVE  KeyOf(c) \in Key \cup {None} /\ StoreOf(c) \in Stores
BY DEF RestTypeOK, KeyOf, StoreOf, ConfigType, Stores

LEMMA FaultTypes ==
    ASSUME faults \in 0..MaxFaults, Fault
    PROVE  faults' \in 0..MaxFaults
BY BoundAssumption DEF Fault

LEMMA StepTypes ==
    ASSUME TypesOK, NEW p \in Process, Step(p) \/ Kill(p), UNCHANGED starts
    PROVE  TypesOK'
<1> USE DEF TypesOK
<1> DEFINE copy == mine[p]
<1>0. /\ copy \in ConfigType /\ file \in ConfigType /\ ask[p] \in Requests /\ pc[p] \in Steps
      /\ KeyOf(copy) \in Key \cup {None} /\ StoreOf(copy) \in Stores
  BY KeysAreKeys DEF LocalTypeOK, RestTypeOK
<1>1. CASE LoadConfig(p)
  <2>1. Configured(file, ask[p]) \in ConfigType
    BY <1>0, SomeConfigs DEF Configured, Modes, Stores
  <2>2. LocalTypeOK'
    BY <1>1, <2>1, ChangeTypes DEF LoadConfig, Steps
  <2> QED BY <1>1, <2>2 DEF LoadConfig, RestTypeOK, storeVars, daemonVars
<1>2. CASE SaveTemplate(p)
  BY <1>0, <1>2, SaveTypes DEF SaveTemplate, RestTypeOK, storeVars, daemonVars, Steps
<1>3. CASE FindIdentity(p)
  <2>1. LocalTypeOK'
    <3>1. [copy EXCEPT !.account = KeyOf(copy)] \in ConfigType
      BY <1>0, SomeConfigs
    <3>2. \/ mine' = [mine EXCEPT ![p] = [copy EXCEPT !.account = KeyOf(copy)]]
          \/ mine' = [mine EXCEPT ![p] = copy]
      BY <1>3 DEF FindIdentity, LocalTypeOK
    <3> QED BY <1>0, <1>3, <3>1, <3>2, ChangeTypes DEF FindIdentity, Steps, ghostVars
  <2> QED BY <1>3, <2>1 DEF FindIdentity, RestTypeOK, storeVars, daemonVars, ghostVars
<1>4. CASE CheckAbsent(p)
  BY <1>4, LeaveTypes, ContinueTypes DEF CheckAbsent, RestTypeOK, storeVars, daemonVars, Steps
<1>5. CASE StoreKey(p)
  <2>1. PICK k \in Key \ drawn :
            /\ key' = [key EXCEPT ![StoreOf(copy)] = k]
            /\ drawn' = drawn \cup {k}
            /\ mine' = [mine EXCEPT ![p].account = k]
    BY <1>5 DEF StoreKey
  <2>2. [copy EXCEPT !.account = k] \in ConfigType /\ mine' = [mine EXCEPT ![p] = [copy EXCEPT !.account = k]]
    BY <1>0, <2>1, SomeConfigs
  <2>3. LocalTypeOK'
    BY <1>5, <2>2, ChangeTypes DEF StoreKey, Steps
  <2> QED BY <1>0, <1>5, <2>1, <2>3 DEF StoreKey, RestTypeOK, daemonVars
<1>6. CASE SaveAccount(p)
  <2>1. LocalTypeOK' /\ file' \in ConfigType
    BY <1>0, <1>6, SaveTypes DEF SaveAccount, Steps
  <2> QED BY <1>6, <2>1 DEF SaveAccount, ExcuseAfter, RestTypeOK, storeVars, daemonVars
<1>7. CASE EnsureDaemon(p)
  <2>1. LocalTypeOK'
    BY <1>7, LeaveTypes, ContinueTypes DEF EnsureDaemon, Steps
  <2> QED BY <1>7, <2>1, FaultTypes DEF EnsureDaemon, RestTypeOK, storeVars
<1>8. CASE EnsureLogin(p)
  <2>1. LocalTypeOK'
    BY <1>8, LeaveTypes, ContinueTypes DEF EnsureLogin, AfterLogin, Steps
  <2> QED BY <1>0, <1>8, <2>1, FaultTypes DEF EnsureLogin, RestTypeOK, storeVars
<1>9. CASE Publish(p)
  <2>1. /\ AfterPart(p) \in Steps /\ pc[p] \in Parts
        /\ warned' \in [Process -> SUBSET Parts]
    BY <1>9 DEF Publish, AfterPart, Steps, Warn, LocalTypeOK
  <2>2. LocalTypeOK'
    BY <1>9, <2>1 DEF Publish, LocalTypeOK, Go, ghostVars
  <2>3. /\ published' \in [Key -> SUBSET Parts] /\ faults' \in 0..MaxFaults
    <3>1. [published EXCEPT ![copy.account] = @ \cup {pc[p]}] \in [Key -> SUBSET Parts]
      BY <2>1 DEF RestTypeOK
    <3>2. \/ published' = published
          \/ published' = [published EXCEPT ![copy.account] = @ \cup {pc[p]}]
      BY <1>9 DEF Publish
    <3>3. Fault \/ UNCHANGED faults
      BY <1>9 DEF Publish
    <3> QED BY <3>1, <3>2, <3>3, FaultTypes DEF RestTypeOK
  <2> QED BY <1>9, <2>2, <2>3 DEF Publish, RestTypeOK, storeVars, ghostVars
<1>10. CASE CreateGroup(p)
  <2>1. LocalTypeOK' /\ visible' \subseteq Group
    <3>1. CASE \E g \in Group :
                  /\ mine' = [mine EXCEPT ![p].groups = @ \cup {g}]
                  /\ Go(p, "groupSave") /\ UNCHANGED <<ask, warned, stale>>
      <4>1. PICK g \in Group : mine' = [mine EXCEPT ![p] = [copy EXCEPT !.groups = copy.groups \cup {g}]]
        BY <3>1
      <4>2. [copy EXCEPT !.groups = copy.groups \cup {g}] \in ConfigType
        BY <1>0, SomeConfigs DEF ConfigType
      <4> QED BY <1>10, <3>1, <4>1, <4>2, ChangeTypes DEF CreateGroup, RestTypeOK, Steps
    <3>2. CASE Continue(p, "reported") \/ Leave(p)
      BY <1>10, <3>2, LeaveTypes, ContinueTypes DEF CreateGroup, RestTypeOK, Steps
    <3> QED BY <1>10, <3>1, <3>2 DEF CreateGroup
  <2> QED BY <1>10, <2>1, FaultTypes DEF CreateGroup, RestTypeOK, storeVars
<1>11. CASE SaveGroup(p)
  BY <1>0, <1>11, SaveTypes DEF SaveGroup, RestTypeOK, storeVars, daemonVars, Steps
<1>12. CASE Reload(p)
  <2>1. LocalTypeOK'
    <3>1. [file EXCEPT !.groups = IF ask[p].group = None THEN @ ELSE @ \cup {ask[p].group}] \in ConfigType
      BY <1>0, SomeConfigs DEF ConfigType, Requests
    <3> QED BY <1>12, <3>1, LeaveTypes, ChangeTypes DEF Reload, Steps
  <2> QED BY <1>12, <2>1 DEF Reload, RestTypeOK, storeVars, daemonVars
<1>13. CASE AddGroup(p)
  BY <1>0, <1>13, SaveLastTypes DEF AddGroup, RestTypeOK, storeVars, daemonVars
<1>14. CASE DiscoverGroups(p)
  <2>1. LocalTypeOK'
    <3>1. [copy EXCEPT !.groups = visible] \in ConfigType
      BY <1>0, SomeConfigs DEF RestTypeOK
    <3> QED BY <1>14, <3>1, LeaveTypes, ChangeTypes DEF DiscoverGroups, Steps
  <2> QED BY <1>14, <2>1, FaultTypes DEF DiscoverGroups, RestTypeOK, storeVars, daemonVars
<1>15. CASE SaveDiscovered(p)
  BY <1>0, <1>15, SaveLastTypes DEF SaveDiscovered, RestTypeOK, storeVars, daemonVars
<1>16. CASE LoadForRename(p)
  <2>1. LocalTypeOK'
    BY <1>0, <1>16, LeaveTypes, ChangeTypes DEF LoadForRename, Steps
  <2> QED BY <1>16, <2>1 DEF LoadForRename, RestTypeOK, storeVars, daemonVars
<1>17. CASE SaveName(p)
  <2>1. LocalTypeOK' /\ file' \in ConfigType
    BY <1>0, <1>17, SaveTypes, SaveLastTypes DEF SaveName, Steps
  <2> QED BY <1>17, <2>1 DEF SaveName, RestTypeOK, storeVars, daemonVars
<1>18. CASE AdoptAccount(p)
  <2>1. [copy EXCEPT !.account = KeyOf(copy)] \in ConfigType
    BY <1>0, SomeConfigs
  <2>2. LocalTypeOK' /\ file' \in ConfigType
    <3>1. CASE UNCHANGED <<file, mine, stale>>
      BY <1>0, <1>18, <3>1, ChangeTypes DEF AdoptAccount, Steps, LocalTypeOK, Go
    <3>2. CASE SaveCopy(p, [copy EXCEPT !.account = KeyOf(copy)])
      BY <1>18, <2>1, <3>2, SaveTypes DEF AdoptAccount, Steps
    <3> QED BY <1>18, <3>1, <3>2 DEF AdoptAccount
  <2> QED BY <1>18, <2>2 DEF AdoptAccount, RestTypeOK, storeVars, daemonVars
<1>19. CASE PublishName(p)
  <2>1. LocalTypeOK'
    BY <1>19, LeaveTypes DEF PublishName
  <2>2. published' \in [Key -> SUBSET Parts] /\ faults' \in 0..MaxFaults
    <3>1. PICK a : published' = [published EXCEPT ![a] = @ \cup {"profile"}] \/ UNCHANGED published
      BY <1>19 DEF PublishName
    <3> QED BY <1>19, <3>1, FaultTypes DEF PublishName, RestTypeOK, Parts
  <2> QED BY <1>19, <2>1, <2>2 DEF PublishName, RestTypeOK, storeVars
<1>20. CASE Kill(p)
  <2>1. LocalTypeOK'
    BY <1>20, LeaveTypes DEF Kill
  <2> QED BY <1>20, <2>1, FaultTypes DEF Kill, RestTypeOK, storeVars, daemonVars
<1> QED BY <1>1, <1>2, <1>3, <1>4, <1>5, <1>6, <1>7, <1>8, <1>9, <1>10, <1>11, <1>12, <1>13,
           <1>14, <1>15, <1>16, <1>17, <1>18, <1>19, <1>20 DEF Step

(* The type invariant, for any commands, keys and groups.                     *)
THEOREM SetupTypes == SetupSpec => []SetupTypeOK
<1> USE DEF TypesOK
<1>1. SetupInit => TypesOK
  BY SomeConfigs, BoundAssumption DEF SetupInit, LocalTypeOK, RestTypeOK, Steps
<1>2. TypesOK /\ [SetupNext]_setupVars => TypesOK'
  <2> SUFFICES ASSUME TypesOK, [SetupNext]_setupVars PROVE TypesOK'
    OBVIOUS
  <2>1. ASSUME NEW p \in Process, NEW r \in Request[p], Begin(p, r) PROVE TypesOK'
    <3>1. r \in Requests
      BY RequestAssumption
    <3>2. LocalTypeOK'
      BY <2>1, <3>1 DEF Begin, LocalTypeOK, Go, Steps
    <3>3. starts' \in 0..MaxStarts
      <4>1. starts \in 0..MaxStarts /\ starts < MaxStarts /\ starts' = starts + 1
        BY <2>1 DEF Begin, RestTypeOK
      <4> QED BY <4>1, BoundAssumption
    <3> QED BY <2>1, <3>2, <3>3 DEF Begin, RestTypeOK, storeVars, daemonVars
  <2>2. ASSUME NEW g \in Group, ListenerAddsGroup(g), UNCHANGED starts PROVE TypesOK'
    <3>1. file' \in ConfigType
      BY <2>2 DEF ListenerAddsGroup, RestTypeOK, ConfigType
    <3>2. LocalTypeOK'
      BY <2>2 DEF ListenerAddsGroup, LocalTypeOK, localVars
    <3> QED BY <2>2, <3>1, <3>2 DEF ListenerAddsGroup, RestTypeOK, storeVars
  <2>3. ASSUME NEW force \in BOOLEAN, CreateByHand(force), UNCHANGED starts PROVE TypesOK'
    BY <2>3, FaultTypes, KeysAreKeys DEF CreateByHand, RestTypeOK, LocalTypeOK, daemonVars, localVars
  <2>4. ASSUME NEW s \in Stores, DeleteKey(s), UNCHANGED starts PROVE TypesOK'
    BY <2>4, FaultTypes DEF DeleteKey, RestTypeOK, LocalTypeOK, daemonVars, localVars
  <2>5. ASSUME DaemonFails \/ DaemonIsKilled, UNCHANGED starts PROVE TypesOK'
    BY <2>5, FaultTypes DEF DaemonFails, DaemonIsKilled, RestTypeOK, LocalTypeOK, storeVars, localVars, ghostVars
  <2>6. CASE UNCHANGED setupVars
    BY <2>6 DEF setupVars, storeVars, daemonVars, localVars, ghostVars, RestTypeOK, LocalTypeOK
  <2> QED BY <2>1, <2>2, <2>3, <2>4, <2>5, <2>6, StepTypes DEF SetupNext, Around
<1>3. TypesOK => SetupTypeOK
  BY DEF LocalTypeOK, RestTypeOK, SetupTypeOK
<1> QED BY <1>1, <1>2, <1>3, PTL DEF SetupSpec

(*------------------------- Setup: control groups ---------------------------*)

CoversAt(p) ==
    /\ Holds(p) /\ p \notin stale => file.groups \subseteq mine[p].groups
    /\ pc[p] = "discover" => mine[p].groups = {}
NoneLost == file.groups \subseteq file'.groups \/ \E p \in stale : p \notin stale'

(* A step that leaves the file alone disturbs at most the command that takes  *)
(* it.                                                                        *)
LEMMA OneMoves ==
    ASSUME LocalTypeOK, CopiesCoverGroups, NEW p \in Process, CoversAt(p)',
           UNCHANGED file, stale \subseteq stale' \cup {p},
           \A q \in Process \ {p} : pc'[q] = pc[q] /\ mine'[q] = mine[q]
    PROVE  CopiesCoverGroups' /\ NoneLost
BY DEF CopiesCoverGroups, CoversAt, NoneLost, Holds

LEMMA LeavingCovers ==
    ASSUME LocalTypeOK, CopiesCoverGroups, NEW p \in Process, Leave(p), UNCHANGED file
    PROVE  CopiesCoverGroups' /\ NoneLost
<1>1. CoversAt(p)'
  BY DEF CoversAt, Leave, Go, Holds, LocalTypeOK
<1> QED BY <1>1, OneMoves DEF Leave, Go, LocalTypeOK

LEMMA ChangingCovers ==
    ASSUME LocalTypeOK, CopiesCoverGroups, NEW p \in Process, NEW copy, NEW step,
           Go(p, step), mine' = [mine EXCEPT ![p] = copy], UNCHANGED <<file, stale>>,
           p \notin stale => file.groups \subseteq copy.groups,
           step # "discover"
    PROVE  CopiesCoverGroups' /\ NoneLost
<1>1. CoversAt(p)'
  BY DEF CoversAt, Go, Holds, LocalTypeOK
<1> QED BY <1>1, OneMoves DEF Go, LocalTypeOK

LEMMA MovingCovers ==
    ASSUME LocalTypeOK, CopiesCoverGroups, NEW p \in Process, NEW step, Holds(p),
           Go(p, step), UNCHANGED <<file, mine, stale>>, step # "discover"
    PROVE  CopiesCoverGroups' /\ NoneLost
<1>1. CoversAt(p)'
  BY DEF CoversAt, Go, Holds, LocalTypeOK, CopiesCoverGroups
<1> QED BY <1>1, OneMoves DEF Go, LocalTypeOK

(* A save makes every other copy stale; it loses groups only from a copy that *)
(* was stale before.                                                          *)
LEMMA SavesCover ==
    ASSUME LocalTypeOK, CopiesCoverGroups, NEW p \in Process, NEW copy \in ConfigType, NEW step,
           SaveCopy(p, copy), Go(p, step), Holds(p), mine[p].groups \subseteq copy.groups,
           step # "discover"
    PROVE  CopiesCoverGroups' /\ NoneLost
<1>1. /\ file'.groups = copy.groups /\ mine'[p].groups = copy.groups
      /\ \A q \in Process \ {p} : pc'[q] = pc[q] /\ mine'[q] = mine[q]
      /\ pc'[p] = step
  BY DEF SaveCopy, Go, LocalTypeOK, ConfigType
<1>2. p \notin stale => file.groups \subseteq copy.groups
  BY DEF CopiesCoverGroups
<1>3. p \notin stale' /\ \A q \in Process \ {p} : Holds(q) => q \in stale'
  BY DEF SaveCopy, Others
<1> QED BY <1>1, <1>2, <1>3 DEF CopiesCoverGroups, NoneLost, Holds

LEMMA LastSavesCover ==
    ASSUME LocalTypeOK, CopiesCoverGroups, NEW p \in Process, SaveLast(p, mine[p]), Holds(p)
    PROVE  CopiesCoverGroups' /\ NoneLost
<1>1. /\ file'.groups = mine[p].groups /\ pc'[p] = "idle"
      /\ \A q \in Process \ {p} : pc'[q] = pc[q] /\ mine'[q] = mine[q]
  BY DEF SaveLast, Go, LocalTypeOK, ConfigType
<1>2. p \notin stale => file.groups \subseteq mine[p].groups
  BY DEF CopiesCoverGroups
<1>3. p \notin stale' /\ \A q \in Process \ {p} : Holds(q) => q \in stale'
  BY DEF SaveLast, Others
<1> QED BY <1>1, <1>2, <1>3 DEF CopiesCoverGroups, NoneLost, Holds

LEMMA StepCovers ==
    ASSUME TypesOK, CopiesCoverGroups, NEW p \in Process, Step(p) \/ Kill(p)
    PROVE  CopiesCoverGroups' /\ NoneLost
<1> DEFINE copy == mine[p]
<1>0. /\ LocalTypeOK /\ copy \in ConfigType /\ file \in ConfigType
      /\ KeyOf(copy) \in Key \cup {None}
  BY KeysAreKeys DEF TypesOK, LocalTypeOK, RestTypeOK
<1>1. CASE LoadConfig(p)
  <2>1. Configured(file, ask[p]).groups = file.groups
    BY <1>0 DEF Configured, ConfigType
  <2> QED BY <1>0, <1>1, <2>1, ChangingCovers DEF LoadConfig
<1>2. CASE SaveTemplate(p)
  BY <1>0, <1>2, SavesCover DEF SaveTemplate, Holds
<1>3. CASE FindIdentity(p)
  <2>1. CASE UNCHANGED mine
    BY <1>0, <1>3, <2>1, MovingCovers DEF FindIdentity, Holds, ghostVars
  <2>2. CASE mine' = [mine EXCEPT ![p].account = KeyOf(copy)]
    <3>1. [copy EXCEPT !.account = KeyOf(copy)].groups = copy.groups
      BY <1>0 DEF ConfigType
    <3>2. p \notin stale => file.groups \subseteq copy.groups
      BY <1>3 DEF FindIdentity, CopiesCoverGroups, Holds
    <3>3. mine' = [mine EXCEPT ![p] = [copy EXCEPT !.account = KeyOf(copy)]]
      BY <2>2
    <3>4. Go(p, "account") \/ Go(p, "store") \/ Go(p, "check")
      BY <1>3 DEF FindIdentity
    <3> QED BY <1>0, <1>3, <3>1, <3>2, <3>3, <3>4, ChangingCovers DEF FindIdentity, ghostVars
  <2> QED BY <1>3, <2>1, <2>2 DEF FindIdentity
<1>4. CASE CheckAbsent(p)
  BY <1>0, <1>4, LeavingCovers, MovingCovers DEF CheckAbsent, Continue, Holds
<1>5. CASE StoreKey(p)
  <2>1. PICK k \in Key \ drawn : mine' = [mine EXCEPT ![p] = [copy EXCEPT !.account = k]]
    BY <1>5 DEF StoreKey
  <2>2. [copy EXCEPT !.account = k].groups = copy.groups
    BY <1>0 DEF ConfigType
  <2>3. p \notin stale => file.groups \subseteq copy.groups
    BY <1>5 DEF StoreKey, CopiesCoverGroups, Holds
  <2> QED BY <1>0, <1>5, <2>1, <2>2, <2>3, ChangingCovers DEF StoreKey
<1>6. CASE SaveAccount(p)
  BY <1>0, <1>6, SavesCover DEF SaveAccount, Holds
<1>7. CASE EnsureDaemon(p)
  BY <1>0, <1>7, LeavingCovers, MovingCovers DEF EnsureDaemon, Continue, Holds
<1>8. CASE EnsureLogin(p)
  <2>1. AfterLogin(p) # "discover"
    BY DEF AfterLogin
  <2> QED BY <1>0, <1>8, <2>1, LeavingCovers, MovingCovers DEF EnsureLogin, Continue, Holds
<1>9. CASE Publish(p)
  <2>1. AfterPart(p) # "discover" /\ Holds(p)
    BY <1>9 DEF AfterPart, Publish, Parts, Holds
  <2> QED BY <1>0, <1>9, <2>1, MovingCovers DEF Publish, ghostVars
<1>10. CASE CreateGroup(p)
  <2>1. CASE \E g \in Group :
                /\ mine' = [mine EXCEPT ![p].groups = @ \cup {g}]
                /\ Go(p, "groupSave") /\ UNCHANGED stale
    <3>1. PICK g \in Group : mine' = [mine EXCEPT ![p] = [copy EXCEPT !.groups = copy.groups \cup {g}]]
      BY <2>1
    <3>2. [copy EXCEPT !.groups = copy.groups \cup {g}].groups = copy.groups \cup {g}
      BY <1>0 DEF ConfigType
    <3>3. p \notin stale => file.groups \subseteq copy.groups
      BY <1>10 DEF CreateGroup, CopiesCoverGroups, Holds
    <3> QED BY <1>0, <1>10, <2>1, <3>1, <3>2, <3>3, ChangingCovers DEF CreateGroup
  <2>2. CASE Continue(p, "reported")
    BY <1>0, <1>10, <2>2, MovingCovers DEF CreateGroup, Continue, Holds
  <2>3. CASE Leave(p)
    BY <1>0, <1>10, <2>3, LeavingCovers DEF CreateGroup
  <2> QED BY <1>10, <2>1, <2>2, <2>3 DEF CreateGroup
<1>11. CASE SaveGroup(p)
  BY <1>0, <1>11, SavesCover DEF SaveGroup, Holds
<1>12. CASE Reload(p)
  <2> DEFINE loaded == [file EXCEPT !.groups = IF ask[p].group = None THEN @ ELSE @ \cup {ask[p].group}]
             next == IF ask[p].group # None THEN "addGroup" ELSE "discover"
  <2>1. file.groups \subseteq loaded.groups
    BY <1>0 DEF ConfigType
  <2>2. CASE Leave(p)
    BY <1>0, <1>12, <2>2, LeavingCovers DEF Reload
  <2>3. CASE /\ ~(loaded.groups # {} /\ next = "discover")
             /\ mine' = [mine EXCEPT ![p] = loaded]
             /\ stale' = stale \ {p} /\ Go(p, next)
    <3> HIDE DEF loaded, next
    <3>1. CoversAt(p)'
      BY <1>0, <1>12, <2>1, <2>3 DEF CoversAt, Reload, Go, LocalTypeOK
    <3> QED BY <1>0, <1>12, <2>3, <3>1, OneMoves DEF Reload, Go, LocalTypeOK
  <2> QED BY <1>12, <2>2, <2>3 DEF Reload
<1>13. CASE AddGroup(p)
  BY <1>0, <1>13, LastSavesCover DEF AddGroup, Holds
<1>14. CASE DiscoverGroups(p)
  <2>1. CASE mine' = [mine EXCEPT ![p].groups = visible] /\ Go(p, "adoptGroups") /\ UNCHANGED stale
    <3>1. [copy EXCEPT !.groups = visible].groups = visible
      BY <1>0 DEF ConfigType
    <3>2. mine' = [mine EXCEPT ![p] = [copy EXCEPT !.groups = visible]]
      BY <2>1
    <3>3. p \notin stale => file.groups = {}
      BY <1>14 DEF DiscoverGroups, CopiesCoverGroups, Holds
    <3> QED BY <1>0, <1>14, <2>1, <3>1, <3>2, <3>3, ChangingCovers DEF DiscoverGroups
  <2>2. CASE Leave(p)
    BY <1>0, <1>14, <2>2, LeavingCovers DEF DiscoverGroups
  <2> QED BY <1>14, <2>1, <2>2 DEF DiscoverGroups
<1>15. CASE SaveDiscovered(p)
  BY <1>0, <1>15, LastSavesCover DEF SaveDiscovered, Holds
<1>16. CASE LoadForRename(p)
  BY <1>0, <1>16, LeavingCovers, ChangingCovers DEF LoadForRename
<1>17. CASE SaveName(p)
  BY <1>0, <1>17, SavesCover, LastSavesCover DEF SaveName, Holds
<1>18. CASE AdoptAccount(p)
  <2>1. /\ [copy EXCEPT !.account = KeyOf(copy)] \in ConfigType
        /\ [copy EXCEPT !.account = KeyOf(copy)].groups = copy.groups
    BY <1>0, SomeConfigs DEF ConfigType
  <2>2. CASE UNCHANGED <<file, mine, stale>>
    BY <1>0, <1>18, <2>2, MovingCovers DEF AdoptAccount, Holds
  <2>3. CASE SaveCopy(p, [copy EXCEPT !.account = KeyOf(copy)])
    BY <1>0, <1>18, <2>1, <2>3, SavesCover DEF AdoptAccount, Holds
  <2> QED BY <1>18, <2>2, <2>3 DEF AdoptAccount
<1>19. CASE PublishName(p)
  BY <1>0, <1>19, LeavingCovers DEF PublishName
<1>20. CASE Kill(p)
  BY <1>0, <1>20, LeavingCovers DEF Kill
<1> QED BY <1>1, <1>2, <1>3, <1>4, <1>5, <1>6, <1>7, <1>8, <1>9, <1>10, <1>11, <1>12, <1>13,
           <1>14, <1>15, <1>16, <1>17, <1>18, <1>19, <1>20 DEF Step

LEMMA NextCovers ==
    ASSUME TypesOK, CopiesCoverGroups, [SetupNext]_setupVars
    PROVE  CopiesCoverGroups' /\ NoneLost
<1>1. ASSUME NEW p \in Process, NEW r \in Request[p], Begin(p, r)
      PROVE  CopiesCoverGroups' /\ NoneLost
  <2>1. CoversAt(p)'
    BY <1>1 DEF CoversAt, Begin, Go, Holds, TypesOK, LocalTypeOK
  <2> QED BY <1>1, <2>1, OneMoves DEF Begin, Go, TypesOK, LocalTypeOK
<1>2. ASSUME NEW g \in Group, ListenerAddsGroup(g)
      PROVE  CopiesCoverGroups' /\ NoneLost
  BY <1>2 DEF ListenerAddsGroup, CopiesCoverGroups, NoneLost, Holds, localVars,
              TypesOK, RestTypeOK, ConfigType
<1>3. CASE UNCHANGED <<file, pc, mine, stale>>
  BY <1>3 DEF CopiesCoverGroups, NoneLost, Holds
<1>4. CASE \/ \E force \in BOOLEAN : CreateByHand(force)
           \/ \E s \in Stores : DeleteKey(s)
           \/ DaemonFails \/ DaemonIsKilled \/ UNCHANGED setupVars
  BY <1>3, <1>4 DEF CreateByHand, DeleteKey, DaemonFails, DaemonIsKilled, setupVars,
                    localVars, ghostVars
<1> QED BY <1>1, <1>2, <1>4, StepCovers DEF SetupNext, Around

(* GroupsStay, for any number of commands, groups and failures.               *)
THEOREM ControlGroupsStay == SetupSpec => GroupsStay
<1>1. SetupInit => CopiesCoverGroups
  BY DEF SetupInit, CopiesCoverGroups, Holds
<1>2. SetupTypeOK => TypesOK
  BY DEF SetupTypeOK, TypesOK, LocalTypeOK, RestTypeOK
<1>3. TypesOK /\ CopiesCoverGroups /\ [SetupNext]_setupVars => CopiesCoverGroups' /\ NoneLost
  BY NextCovers
<1>4. NoneLost => [file.groups \subseteq file'.groups \/ \E p \in stale : p \notin stale']_setupVars
  BY DEF NoneLost
<1> QED BY <1>1, <1>2, <1>3, <1>4, SetupTypes, PTL DEF SetupSpec, GroupsStay

(*--------------------- Setup: the account and its key ----------------------*)

Keyed(config) == config.account # None /\ excuse = {} => HasKey(config)
StoresAt(p) ==
    pc[p] \in {"check", "store"} =>
        /\ pc[p] = "check" => ~ask[p].force
        /\ ~ask[p].force => mine[p].account = None /\ (excuse = {} => KeyOf(mine[p]) = None)
(* The file and every copy that may be written to it are keyed, and what is   *)
(* about to store a key finds an empty store.                                 *)
KeysKept == AccountHasKey /\ CopiesHaveKey /\ StoresIntoEmpty

LEMMA OneCopyMoves ==
    ASSUME KeysKept, NEW p \in Process, UNCHANGED <<file, key>>, excuse' = {} => excuse = {},
           \A q \in Process \ {p} : pc'[q] = pc[q] /\ mine'[q] = mine[q] /\ ask'[q] = ask[q],
           (Holds(p) => Keyed(mine[p]))', StoresAt(p)'
    PROVE  KeysKept'
BY DEF KeysKept, AccountHasKey, CopiesHaveKey, StoresIntoEmpty, Keyed, StoresAt, Holds,
       HasKey, KeyOf

LEMMA LeavingKeeps ==
    ASSUME LocalTypeOK, KeysKept, NEW p \in Process, Leave(p), UNCHANGED <<file, key, excuse>>
    PROVE  KeysKept'
<1>1. ~Holds(p)' /\ StoresAt(p)'
  BY DEF Leave, Go, Holds, LocalTypeOK, StoresAt
<1> QED BY <1>1, OneCopyMoves DEF Leave, Go, LocalTypeOK

LEMMA MovingKeeps ==
    ASSUME LocalTypeOK, KeysKept, NEW p \in Process, NEW step, Holds(p), Go(p, step),
           UNCHANGED <<file, key, excuse, mine, ask>>, step \notin {"check", "store"}
    PROVE  KeysKept'
<1>1. (Holds(p) => Keyed(mine[p]))'
  BY DEF Keyed, HasKey, KeyOf, KeysKept, CopiesHaveKey
<1>2. StoresAt(p)'
  BY DEF StoresAt, Go, LocalTypeOK
<1> QED BY <1>1, <1>2, OneCopyMoves DEF Go, LocalTypeOK

LEMMA ChangingKeeps ==
    ASSUME LocalTypeOK, KeysKept, NEW p \in Process, NEW copy, NEW step, Go(p, step),
           mine' = [mine EXCEPT ![p] = copy], UNCHANGED <<file, key, ask>>,
           excuse' = {} => excuse = {}, step \notin {"check", "store"},
           copy.account # None /\ excuse' = {} => key[StoreOf(copy)] = copy.account
    PROVE  KeysKept'
<1>1. (Holds(p) => Keyed(mine[p]))'
  <2>1. mine'[p] = copy
    BY DEF LocalTypeOK
  <2>2. copy.account # None /\ excuse' = {} => key'[StoreOf(copy)] = copy.account
    OBVIOUS
  <2> QED BY <2>1, <2>2 DEF Keyed, HasKey, KeyOf, StoreOf
<1>2. StoresAt(p)'
  BY DEF StoresAt, Go, LocalTypeOK
<1> QED BY <1>1, <1>2, OneCopyMoves DEF Go, LocalTypeOK

(* A save of a keyed copy; it ends the excuses only when nobody else holds a  *)
(* copy.                                                                      *)
LEMMA SavesKeep ==
    ASSUME LocalTypeOK, KeysKept, NEW p \in Process, NEW copy \in ConfigType, NEW step,
           SaveCopy(p, copy) \/ (SaveLast(p, copy) /\ step = "idle"),
           Go(p, step), step \notin {"check", "store"},
           ask' = ask \/ SaveLast(p, copy), UNCHANGED key,
           \/ UNCHANGED excuse /\ Keyed(copy)
           \/ HasKey(copy) /\ Others(p) = {}
    PROVE  KeysKept'
<1>1. /\ file'.account = copy.account /\ file'.mode = copy.mode
      /\ step = "idle" \/ (mine'[p].account = copy.account /\ mine'[p].mode = copy.mode)
      /\ \A q \in Process \ {p} : pc'[q] = pc[q] /\ mine'[q] = mine[q] 
      /\ pc'[p] = step
  BY DEF SaveCopy, SaveLast, Go, LocalTypeOK, ConfigType
<1>2. \A q \in Process \ {p} : ask'[q] = ask[q]
  BY DEF SaveCopy, SaveLast, LocalTypeOK
<1>3. (Keyed(file))' /\ (Holds(p) => Keyed(mine[p]))'
  BY <1>1 DEF Keyed, HasKey, KeyOf, StoreOf, Holds
<1>4. \A q \in Process \ {p} : Holds(q) => UNCHANGED excuse
  BY DEF Others
<1>5. \A q \in Process \ {p} : (Holds(q) => Keyed(mine[q]))'
  BY <1>1, <1>4 DEF KeysKept, CopiesHaveKey, Keyed, HasKey, KeyOf, StoreOf, Holds
<1>6. \A q \in Process : StoresAt(q)'
  BY <1>1, <1>2, <1>4 DEF KeysKept, StoresIntoEmpty, StoresAt, KeyOf, StoreOf, Holds
<1> QED BY <1>3, <1>5, <1>6
        DEF KeysKept, AccountHasKey, CopiesHaveKey, StoresIntoEmpty, Keyed, StoresAt

LEMMA CopySavesKeep ==
    ASSUME LocalTypeOK, KeysKept, NEW p \in Process, NEW copy \in ConfigType, NEW step,
           SaveCopy(p, copy), Go(p, step), step \notin {"check", "store"},
           Keyed(copy), UNCHANGED <<ask, key, excuse>>
    PROVE  KeysKept'
BY SavesKeep

(* A new key goes into an empty store, unless excused: the account's key, in  *)
(* the other store, stays.                                                    *)
LEMMA StoringKeeps ==
    ASSUME TypesOK, KeysKept, NEW p \in Process, StoreKey(p)
    PROVE  KeysKept'
<1> DEFINE copy == mine[p]
<1>1. /\ LocalTypeOK /\ copy \in ConfigType /\ file \in ConfigType
      /\ StoreOf(copy) \in Stores /\ key \in [Stores -> Key \cup {None}]
  BY KeysAreKeys DEF TypesOK, LocalTypeOK, RestTypeOK
<1>2. PICK k \in Key : /\ key' = [key EXCEPT ![StoreOf(copy)] = k]
                       /\ mine' = [mine EXCEPT ![p] = [copy EXCEPT !.account = k]]
  BY DEF StoreKey
<1>3. /\ [copy EXCEPT !.account = k].account = k
      /\ [copy EXCEPT !.account = k].mode = copy.mode
  BY <1>1 DEF ConfigType
<1>4. /\ mine'[p].account = k /\ mine'[p].mode = copy.mode /\ pc'[p] = "account"
      /\ \A q \in Process \ {p} : pc'[q] = pc[q] /\ mine'[q] = mine[q] /\ ask'[q] = ask[q]
  BY <1>1, <1>2, <1>3 DEF StoreKey, Go, LocalTypeOK
<1>5. excuse' = {} => excuse = {} /\ ~ask[p].force /\ Others(p) = {}
  BY DEF StoreKey
<1>6. excuse' = {} => key[StoreOf(copy)] = None
  BY <1>5 DEF KeysKept, StoresIntoEmpty, StoreKey, KeyOf
<1>7. AccountHasKey'
  <2> SUFFICES ASSUME file.account # None, excuse' = {}
               PROVE  key'[StoreOf(file)] = file.account
    BY DEF AccountHasKey, HasKey, KeyOf, StoreOf, StoreKey
  <2>1. key[StoreOf(file)] = file.account
    BY <1>5 DEF KeysKept, AccountHasKey, HasKey, KeyOf
  <2>2. StoreOf(file) # StoreOf(copy)
    BY <2>1, <1>6
  <2> QED BY <1>1, <1>2, <2>1, <2>2 DEF StoreOf, Stores
<1>8. CopiesHaveKey'
  <2>1. (Keyed(mine[p]))'
    BY <1>1, <1>2, <1>4 DEF Keyed, HasKey, KeyOf, StoreOf
  <2>2. \A q \in Process \ {p} : excuse' = {} => ~Holds(q)'
    BY <1>4, <1>5 DEF Others, Holds
  <2> QED BY <2>1, <2>2 DEF CopiesHaveKey, Keyed
<1>9. StoresIntoEmpty'
  <2>1. \A q \in Process \ {p} : excuse' = {} => pc'[q] \notin {"check", "store"}
    BY <1>4, <1>5 DEF Others, Holds
  <2> QED BY <1>4, <2>1 DEF KeysKept, StoresIntoEmpty
<1> QED BY <1>7, <1>8, <1>9 DEF KeysKept

LEMMA StepKeeps ==
    ASSUME TypesOK, KeysKept, NEW p \in Process, Step(p) \/ Kill(p)
    PROVE  KeysKept'
<1> DEFINE copy == mine[p]
<1>0. /\ LocalTypeOK /\ copy \in ConfigType /\ file \in ConfigType
      /\ KeyOf(copy) \in Key \cup {None}
  BY KeysAreKeys DEF TypesOK, LocalTypeOK, RestTypeOK
<1>a. Keyed(file) /\ (Holds(p) => Keyed(copy))
  BY DEF KeysKept, AccountHasKey, CopiesHaveKey, Keyed
<1>1. CASE LoadConfig(p)
  <2> DEFINE loaded == Configured(file, ask[p])
  <2>1. /\ loaded.account = file.account
        /\ loaded.mode = IF ask[p].burner \/ file.mode = "burner" THEN "burner" ELSE "keychain"
    BY <1>0 DEF Configured, ConfigType
  <2>2. excuse' = {} => /\ excuse = {}
                        /\ file.mode = "burner" \/ file.account = None \/ ~ask[p].burner
    BY <1>1 DEF LoadConfig
  <2>3. loaded.account # None /\ excuse' = {} => key[StoreOf(loaded)] = loaded.account
    <3> HIDE DEF loaded
    <3> QED BY <1>a, <2>1, <2>2 DEF Keyed, HasKey, KeyOf, StoreOf
  <2>4. PICK step \in {"template", "identity"} : Go(p, step)
    BY <1>1 DEF LoadConfig
  <2>5. mine' = [mine EXCEPT ![p] = loaded] /\ UNCHANGED <<file, key, ask>>
    BY <1>1 DEF LoadConfig, storeVars
  <2> HIDE DEF loaded
  <2> QED BY <1>0, <2>2, <2>3, <2>4, <2>5, ChangingKeeps
<1>2. CASE SaveTemplate(p)
  BY <1>0, <1>a, <1>2, CopySavesKeep DEF SaveTemplate, Holds, storeVars
<1>3. CASE FindIdentity(p)
  <2>0. UNCHANGED <<file, key, ask, excuse>> /\ Holds(p)
    BY <1>3 DEF FindIdentity, storeVars, ghostVars, Holds
  <2>1. CASE Go(p, "store") /\ ask[p].force /\ UNCHANGED mine
    <3>1. StoresAt(p)'
      BY <1>0, <2>0, <2>1 DEF StoresAt, Go, LocalTypeOK
    <3>2. (Holds(p) => Keyed(mine[p]))'
      BY <1>a, <2>0, <2>1 DEF Keyed, HasKey, KeyOf
    <3> QED BY <1>0, <2>0, <2>1, <3>1, <3>2, OneCopyMoves DEF Go, LocalTypeOK
  <2>2. CASE Go(p, "account") /\ UNCHANGED mine
    BY <1>0, <2>0, <2>2, MovingKeeps
  <2>3. CASE Go(p, "account") /\ mine' = [mine EXCEPT ![p].account = KeyOf(copy)]
    <3>1. /\ [copy EXCEPT !.account = KeyOf(copy)].account = KeyOf(copy)
          /\ [copy EXCEPT !.account = KeyOf(copy)].mode = copy.mode
      BY <1>0 DEF ConfigType
    <3>2. mine' = [mine EXCEPT ![p] = [copy EXCEPT !.account = KeyOf(copy)]]
      BY <2>3
    <3>3. key[StoreOf([copy EXCEPT !.account = KeyOf(copy)])] = KeyOf(copy)
      BY <3>1 DEF StoreOf, KeyOf
    <3> QED BY <1>0, <2>0, <2>3, <3>1, <3>2, <3>3, ChangingKeeps
  <2>4. CASE /\ Go(p, "check") /\ UNCHANGED mine
             /\ ~ask[p].force /\ copy.account = None /\ KeyOf(copy) = None
    <3>1. StoresAt(p)'
      BY <1>0, <2>0, <2>4 DEF StoresAt, Go, LocalTypeOK, KeyOf
    <3>2. (Holds(p) => Keyed(mine[p]))'
      BY <1>a, <2>0, <2>4 DEF Keyed, HasKey, KeyOf
    <3> QED BY <1>0, <2>0, <2>4, <3>1, <3>2, OneCopyMoves DEF Go, LocalTypeOK
  <2> QED BY <1>3, <2>1, <2>2, <2>3, <2>4 DEF FindIdentity
<1>4. CASE CheckAbsent(p)
  <2>1. UNCHANGED <<file, key, excuse>> /\ Holds(p)
    BY <1>4 DEF CheckAbsent, storeVars, Holds
  <2>2. CASE KeyOf(copy) = None /\ Continue(p, "store")
    <3>1. StoresAt(p)'
      BY <1>0, <1>4, <2>1, <2>2
      DEF StoresAt, Continue, Go, LocalTypeOK, KeyOf, KeysKept, StoresIntoEmpty, CheckAbsent
    <3>2. (Holds(p) => Keyed(mine[p]))'
      BY <1>a, <2>1, <2>2 DEF Keyed, HasKey, KeyOf, Continue
    <3> QED BY <1>0, <2>1, <2>2, <3>1, <3>2, OneCopyMoves DEF Continue, Go, LocalTypeOK
  <2>3. CASE Leave(p)
    BY <1>0, <2>1, <2>3, LeavingKeeps
  <2> QED BY <1>4, <2>2, <2>3 DEF CheckAbsent
<1>5. CASE StoreKey(p)
  BY <1>5, StoringKeeps
<1>6. CASE SaveAccount(p)
  <2>1. \/ UNCHANGED excuse
        \/ HasKey(copy) /\ Others(p) = {}
    BY <1>6 DEF SaveAccount, ExcuseAfter
  <2>2. PICK step \in {"daemon", "login"} : Go(p, step)
    BY <1>6 DEF SaveAccount
  <2>3. Keyed(copy) /\ SaveCopy(p, copy) /\ UNCHANGED <<ask, key>>
    BY <1>a, <1>6 DEF SaveAccount, Holds, storeVars
  <2> QED BY <1>0, <2>1, <2>2, <2>3, SavesKeep
<1>7. CASE EnsureDaemon(p)
  BY <1>0, <1>7, LeavingKeeps, MovingKeeps DEF EnsureDaemon, Continue, Holds, storeVars
<1>8. CASE EnsureLogin(p)
  <2>1. AfterLogin(p) \notin {"check", "store"}
    BY DEF AfterLogin
  <2> QED BY <1>0, <1>8, <2>1, LeavingKeeps, MovingKeeps
          DEF EnsureLogin, Continue, Holds, storeVars
<1>9. CASE Publish(p)
  <2>1. AfterPart(p) \notin {"check", "store"} /\ Holds(p)
    BY <1>9 DEF AfterPart, Publish, Parts, Holds
  <2> QED BY <1>0, <1>9, <2>1, MovingKeeps DEF Publish, ghostVars, storeVars
<1>10. CASE CreateGroup(p)
  <2>0. UNCHANGED <<file, key, excuse>> /\ Holds(p)
    BY <1>10 DEF CreateGroup, storeVars, Holds
  <2>1. CASE /\ \E g \in Group : mine' = [mine EXCEPT ![p].groups = @ \cup {g}]
             /\ Go(p, "groupSave") /\ UNCHANGED ask
    <3>1. PICK g \in Group : mine' = [mine EXCEPT ![p] = [copy EXCEPT !.groups = copy.groups \cup {g}]]
      BY <2>1
    <3>2. /\ [copy EXCEPT !.groups = copy.groups \cup {g}].account = copy.account
          /\ [copy EXCEPT !.groups = copy.groups \cup {g}].mode = copy.mode
      BY <1>0 DEF ConfigType
    <3> QED BY <1>0, <1>a, <2>0, <2>1, <3>1, <3>2, ChangingKeeps
            DEF Keyed, HasKey, KeyOf, StoreOf
  <2>2. CASE Continue(p, "reported")
    BY <1>0, <2>0, <2>2, MovingKeeps DEF Continue
  <2>3. CASE Leave(p)
    BY <1>0, <2>0, <2>3, LeavingKeeps
  <2> QED BY <1>10, <2>1, <2>2, <2>3 DEF CreateGroup
<1>11. CASE SaveGroup(p)
  BY <1>0, <1>a, <1>11, CopySavesKeep DEF SaveGroup, Holds, storeVars
<1>12. CASE Reload(p)
  <2>1. CASE Leave(p)
    BY <1>0, <1>12, <2>1, LeavingKeeps DEF Reload, storeVars
  <2>2. CASE ~Leave(p)
    <3> DEFINE loaded == [file EXCEPT !.groups = IF ask[p].group = None THEN @ ELSE @ \cup {ask[p].group}]
    <3>1. loaded.account = file.account /\ loaded.mode = file.mode
      BY <1>0 DEF ConfigType
    <3>2. PICK step \in {"addGroup", "discover"} : Go(p, step)
      BY <1>12, <2>2 DEF Reload
    <3>3. mine' = [mine EXCEPT ![p] = loaded] /\ UNCHANGED <<file, key, ask, excuse>>
      BY <1>12, <2>2 DEF Reload, storeVars
    <3>4. loaded.account # None /\ excuse' = {} => key[StoreOf(loaded)] = loaded.account
      <4> HIDE DEF loaded
      <4> QED BY <1>a, <3>1, <3>3 DEF Keyed, HasKey, KeyOf, StoreOf
    <3> HIDE DEF loaded
    <3> QED BY <1>0, <3>2, <3>3, <3>4, ChangingKeeps
  <2> QED BY <2>1, <2>2
<1>13. CASE AddGroup(p)
  BY <1>0, <1>a, <1>13, SavesKeep DEF AddGroup, SaveLast, Holds, storeVars
<1>14. CASE DiscoverGroups(p)
  <2>0. UNCHANGED <<file, key, excuse>> /\ Holds(p)
    BY <1>14 DEF DiscoverGroups, storeVars, Holds
  <2>1. CASE mine' = [mine EXCEPT ![p].groups = visible] /\ Go(p, "adoptGroups") /\ UNCHANGED ask
    <3>1. mine' = [mine EXCEPT ![p] = [copy EXCEPT !.groups = visible]]
      BY <2>1
    <3>2. /\ [copy EXCEPT !.groups = visible].account = copy.account
          /\ [copy EXCEPT !.groups = visible].mode = copy.mode
      BY <1>0 DEF ConfigType
    <3> QED BY <1>0, <1>a, <2>0, <2>1, <3>1, <3>2, ChangingKeeps
            DEF Keyed, HasKey, KeyOf, StoreOf
  <2>2. CASE Leave(p)
    BY <1>0, <2>0, <2>2, LeavingKeeps
  <2> QED BY <1>14, <2>1, <2>2 DEF DiscoverGroups
<1>15. CASE SaveDiscovered(p)
  BY <1>0, <1>a, <1>15, SavesKeep DEF SaveDiscovered, SaveLast, Holds, storeVars
<1>16. CASE LoadForRename(p)
  <2>1. CASE Leave(p)
    BY <1>0, <1>16, <2>1, LeavingKeeps DEF LoadForRename, storeVars
  <2>2. CASE mine' = [mine EXCEPT ![p] = file] /\ Go(p, "name") /\ UNCHANGED ask
    BY <1>0, <1>a, <1>16, <2>2, ChangingKeeps
    DEF LoadForRename, storeVars, Keyed, HasKey, KeyOf
  <2> QED BY <1>16, <2>1, <2>2 DEF LoadForRename
<1>17. CASE SaveName(p)
  <2>1. CASE ~ask[p].daemon
    BY <1>0, <1>a, <1>17, <2>1, SavesKeep DEF SaveName, SaveLast, Holds, storeVars
  <2>2. CASE ask[p].daemon
    <3>1. Keyed(copy) /\ SaveCopy(p, copy) /\ UNCHANGED <<ask, key, excuse>>
      BY <1>a, <1>17, <2>2 DEF SaveName, Holds, storeVars
    <3>2. PICK step \in {"adopt", "daemon"} : Go(p, step)
      BY <1>17, <2>2 DEF SaveName
    <3> QED BY <1>0, <3>1, <3>2, CopySavesKeep
  <2> QED BY <1>17, <2>1, <2>2 DEF SaveName
<1>18. CASE AdoptAccount(p)
  <2> DEFINE new == [copy EXCEPT !.account = KeyOf(copy)]
  <2>1. new \in ConfigType /\ new.account = KeyOf(copy) /\ new.mode = copy.mode
    BY <1>0, SomeConfigs DEF ConfigType
  <2>2. CASE UNCHANGED <<file, mine, stale>>
    BY <1>0, <1>18, <2>2, MovingKeeps DEF AdoptAccount, Holds, storeVars
  <2>3. CASE SaveCopy(p, new)
    <3>1. HasKey(new)
      BY <2>1 DEF HasKey, KeyOf, StoreOf
    <3> QED BY <1>0, <1>18, <2>1, <2>3, <3>1, CopySavesKeep DEF AdoptAccount, Keyed, storeVars
  <2> QED BY <1>18, <2>2, <2>3 DEF AdoptAccount
<1>19. CASE PublishName(p)
  BY <1>0, <1>19, LeavingKeeps DEF PublishName, storeVars
<1>20. CASE Kill(p)
  BY <1>0, <1>20, LeavingKeeps DEF Kill, storeVars
<1> QED BY <1>1, <1>2, <1>3, <1>4, <1>5, <1>6, <1>7, <1>8, <1>9, <1>10, <1>11, <1>12, <1>13,
           <1>14, <1>15, <1>16, <1>17, <1>18, <1>19, <1>20 DEF Step

LEMMA NextKeepsKeys ==
    ASSUME TypesOK, KeysKept, [SetupNext]_setupVars
    PROVE  KeysKept'
<1>1. ASSUME NEW p \in Process, NEW r \in Request[p], Begin(p, r)
      PROVE  KeysKept'
  <2>1. ~Holds(p)' /\ StoresAt(p)'
    BY <1>1 DEF StoresAt, Begin, Go, Holds, TypesOK, LocalTypeOK
  <2> QED BY <1>1, <2>1, OneCopyMoves DEF Begin, Go, TypesOK, LocalTypeOK, storeVars
<1>2. ASSUME NEW g \in Group, ListenerAddsGroup(g)
      PROVE  KeysKept'
  <2>1. file'.account = file.account /\ file'.mode = file.mode
    BY <1>2 DEF ListenerAddsGroup, TypesOK, RestTypeOK, ConfigType
  <2> QED BY <1>2, <2>1
          DEF ListenerAddsGroup, KeysKept, AccountHasKey, CopiesHaveKey, StoresIntoEmpty,
              Holds, HasKey, KeyOf, StoreOf, localVars, storeVars
<1>3. CASE (\E force \in BOOLEAN : CreateByHand(force)) \/ (\E s \in Stores : DeleteKey(s))
  <2>1. excuse' # {} /\ UNCHANGED <<file, localVars>>
    BY <1>3 DEF CreateByHand, DeleteKey
  <2> QED BY <2>1
          DEF KeysKept, AccountHasKey, CopiesHaveKey, StoresIntoEmpty, Holds, localVars
<1>4. CASE DaemonFails \/ DaemonIsKilled \/ UNCHANGED setupVars
  <2>1. UNCHANGED <<file, key, excuse, localVars>>
    BY <1>4 DEF DaemonFails, DaemonIsKilled, setupVars, storeVars, ghostVars
  <2> QED BY <2>1
          DEF KeysKept, AccountHasKey, CopiesHaveKey, StoresIntoEmpty, Holds, HasKey, KeyOf,
              localVars
<1> QED BY <1>1, <1>2, <1>3, <1>4, StepKeeps DEF SetupNext, Around

(* AccountHasKey, for any number of commands, keys, kills and failures.       *)
THEOREM AccountKeepsKey == SetupSpec => []AccountHasKey
<1>1. SetupInit => KeysKept
  BY DEF SetupInit, KeysKept, AccountHasKey, CopiesHaveKey, StoresIntoEmpty, Holds, Template
<1>2. SetupTypeOK => TypesOK
  BY DEF SetupTypeOK, TypesOK, LocalTypeOK, RestTypeOK
<1>3. TypesOK /\ KeysKept /\ [SetupNext]_setupVars => KeysKept'
  BY NextKeepsKeys
<1>4. KeysKept => AccountHasKey
  BY DEF KeysKept
<1> QED BY <1>1, <1>2, <1>3, <1>4, SetupTypes, PTL DEF SetupSpec

(*--------------------- Setup: reports and giving up ------------------------*)

KnownAt(p) ==
    IF ask[p].kind = "rename" THEN pc[p] \in RenameSteps
    ELSE /\ pc[p] \notin {"name", "adopt"}
         /\ pc[p] \in SetupSteps \ {"load"} => mine[p].mode # "unset"
         /\ pc[p] \in AfterIdentity => mine[p].account # None
         /\ pc[p] \in AfterLoginSteps /\ excuse = {} => mine[p].account \in loggedIn
DoneAt(p) ==
    ask[p].kind # "rename" /\ warned[p] = {} =>
        \A part \in Parts : pc[p] \in After(part) =>
            /\ mine[p].account \in loggedIn
            /\ part \in published[mine[p].account]
Known == AccountKnown /\ DoneOrWarned

LEMMA KnownParts == Known <=> \A p \in Process : KnownAt(p) /\ DoneAt(p)
BY DEF Known, AccountKnown, DoneOrWarned, KnownAt, DoneAt

(* What the daemon holds and what is published only grows.                    *)
Grows == /\ loggedIn \subseteq loggedIn'
         /\ \A a \in Key : published[a] \subseteq published'[a]

LEMMA OneAdvances ==
    ASSUME TypesOK, Known, NEW p \in Process, Grows,
           excuse' = {} => excuse = {} \/ Others(p) = {},
           \A q \in Process \ {p} : /\ pc'[q] = pc[q] /\ mine'[q] = mine[q]
                                    /\ ask'[q] = ask[q] /\ warned'[q] = warned[q],
           KnownAt(p)', DoneAt(p)'
    PROVE  Known'
<1>1. ASSUME NEW q \in Process \ {p} PROVE KnownAt(q)' /\ DoneAt(q)'
  <2>1. KnownAt(q) /\ DoneAt(q) /\ loggedIn \subseteq Key
    BY KnownParts DEF TypesOK, RestTypeOK
  <2>2. Others(p) = {} => pc[q] \notin AfterLoginSteps
    BY DEF Others, Holds, AfterLoginSteps, Parts
  <2>3. KnownAt(q)'
    BY <2>1, <2>2 DEF KnownAt, Grows
  <2>4. DoneAt(q)'
    BY <2>1 DEF DoneAt, Grows
  <2> QED BY <2>3, <2>4
<1> QED BY <1>1 DEF Known, AccountKnown, DoneOrWarned, KnownAt, DoneAt

LEMMA EndingKnows ==
    ASSUME TypesOK, Known, NEW p \in Process, Leave(p) \/ SaveLast(p, mine[p]), Grows,
           UNCHANGED excuse
    PROVE  Known'
<1>1. /\ pc'[p] = "idle" /\ ask'[p] = NoRequest
      /\ \A q \in Process \ {p} : /\ pc'[q] = pc[q] /\ mine'[q] = mine[q]
                                  /\ ask'[q] = ask[q] /\ warned'[q] = warned[q]
  BY DEF Leave, SaveLast, Go, TypesOK, LocalTypeOK
<1>2. KnownAt(p)' /\ DoneAt(p)'
  BY <1>1 DEF KnownAt, DoneAt, NoRequest, SetupSteps, AfterIdentity, AfterLoginSteps, Parts, After
<1> QED BY <1>1, <1>2, OneAdvances

(* A step before the login is over: only the copy matters.                    *)
LEMMA EarlyKnows ==
    ASSUME TypesOK, Known, NEW p \in Process, NEW copy, NEW step, Go(p, step),
           mine' = [mine EXCEPT ![p] = copy], UNCHANGED <<ask, warned, loggedIn, published>>,
           excuse' = {} => excuse = {} \/ Others(p) = {},
           step \notin AfterLoginSteps \cup {"reported"},
           ask[p].kind = "rename" => step \in RenameSteps,
           ask[p].kind # "rename" => /\ step \notin {"name", "adopt"}
                                     /\ step \in SetupSteps \ {"load"} => copy.mode # "unset"
                                     /\ step \in AfterIdentity => copy.account # None
    PROVE  Known'
<1>1. /\ pc'[p] = step /\ mine'[p] = copy /\ ask'[p] = ask[p]
      /\ \A q \in Process \ {p} : /\ pc'[q] = pc[q] /\ mine'[q] = mine[q]
                                  /\ ask'[q] = ask[q] /\ warned'[q] = warned[q]
  BY DEF Go, TypesOK, LocalTypeOK
<1>2. KnownAt(p)'
  BY <1>1 DEF KnownAt
<1>3. DoneAt(p)'
  BY <1>1 DEF DoneAt, After, AfterLoginSteps, Parts
<1> QED BY <1>1, <1>2, <1>3, OneAdvances DEF Grows

LEMMA StoredKnows ==
    ASSUME TypesOK, Known, NEW p \in Process, NEW copy \in ConfigType, NEW step, Go(p, step),
           SaveCopy(p, copy), UNCHANGED <<ask, warned, loggedIn, published>>,
           excuse' = {} => excuse = {} \/ Others(p) = {},
           step \notin AfterLoginSteps \cup {"reported"},
           ask[p].kind = "rename" => step \in RenameSteps,
           ask[p].kind # "rename" => /\ step \notin {"name", "adopt"}
                                     /\ step \in SetupSteps \ {"load"} => copy.mode # "unset"
                                     /\ step \in AfterIdentity => copy.account # None
    PROVE  Known'
<1>1. /\ [copy EXCEPT !.present = TRUE].mode = copy.mode
      /\ [copy EXCEPT !.present = TRUE].account = copy.account
  BY DEF ConfigType
<1> QED BY <1>1, EarlyKnows DEF SaveCopy

LEMMA LoginKnows ==
    ASSUME TypesOK, Known, CopiesHaveKey, NEW p \in Process, EnsureLogin(p)
    PROVE  Known'
<1> DEFINE copy == mine[p]
<1>1. KnownAt(p) /\ Holds(p) /\ copy \in ConfigType
  BY KnownParts DEF EnsureLogin, Holds, TypesOK, LocalTypeOK
<1>2. Grows /\ UNCHANGED excuse
  BY DEF EnsureLogin, Grows
<1>3. CASE Leave(p)
  BY <1>2, <1>3, EndingKnows
<1>4. CASE Continue(p, AfterLogin(p))
  <2>1. /\ pc'[p] = AfterLogin(p)
        /\ mine'[p] = copy /\ ask'[p] = ask[p]
        /\ \A q \in Process \ {p} : /\ pc'[q] = pc[q] /\ mine'[q] = mine[q]
                                    /\ ask'[q] = ask[q] /\ warned'[q] = warned[q]
    BY <1>4 DEF Continue, Go, TypesOK, LocalTypeOK
  <2>2. CASE ask[p].kind = "rename"
    <3>1. KnownAt(p)' /\ DoneAt(p)'
      BY <2>1, <2>2 DEF KnownAt, DoneAt, AfterLogin, RenameSteps
    <3> QED BY <1>2, <2>1, <3>1, OneAdvances
  <2>3. CASE ask[p].kind # "rename"
    <3>1. copy.mode # "unset" /\ copy.account # None
      BY <1>1, <2>3 DEF KnownAt, EnsureLogin, SetupSteps, AfterIdentity
    <3>2. Serves(copy) \/ KeyOf(copy) \in loggedIn' \/ Leave(p)
      BY <3>1 DEF EnsureLogin
    <3>3. Serves(copy) => copy.account \in loggedIn
      BY <3>1 DEF Serves
    <3>4. excuse = {} => KeyOf(copy) = copy.account
      BY <1>1, <3>1 DEF CopiesHaveKey, HasKey
    <3>5. CASE Leave(p)
      BY <1>2, <3>5, EndingKnows
    <3>6. CASE ~Leave(p)
      <4>1. excuse' = {} => copy.account \in loggedIn'
        BY <1>2, <3>2, <3>3, <3>4, <3>6 DEF Grows
      <4>2. KnownAt(p)'
        BY <2>1, <2>3, <3>1, <4>1 DEF KnownAt, AfterLogin
      <4>3. DoneAt(p)'
        BY <2>1, <2>3 DEF DoneAt, AfterLogin, After, Parts
      <4> QED BY <1>2, <2>1, <4>2, <4>3, OneAdvances
    <3> QED BY <3>5, <3>6
  <2> QED BY <2>2, <2>3
<1> QED BY <1>3, <1>4 DEF EnsureLogin

(* A part that is passed without a warning is published for an account that   *)
(* the daemon holds.                                                          *)
LEMMA PublishKnows ==
    ASSUME TypesOK, Known, NEW p \in Process, Publish(p)
    PROVE  Known'
<1> DEFINE copy == mine[p]
           part == pc[p]
           a == copy.account
<1>1. /\ KnownAt(p) /\ DoneAt(p) /\ copy \in ConfigType /\ part \in Parts
      /\ ask[p].kind # "rename" /\ warned \in [Process -> SUBSET Parts]
      /\ published \in [Key -> SUBSET Parts] /\ loggedIn \subseteq Key
  BY KnownParts DEF Publish, TypesOK, LocalTypeOK, RestTypeOK
<1>2. a # None /\ copy.mode # "unset"
  BY <1>1 DEF KnownAt, AfterIdentity, SetupSteps, Parts
<1>3. /\ pc'[p] = AfterPart(p) /\ mine'[p] = copy /\ ask'[p] = ask[p]
      /\ UNCHANGED <<loggedIn, excuse>>
      /\ \A q \in Process \ {p} : pc'[q] = pc[q] /\ mine'[q] = mine[q] /\ ask'[q] = ask[q]
  BY DEF Publish, Go, TypesOK, LocalTypeOK, ghostVars
<1>4. \/ published' = published
      \/ published' = [published EXCEPT ![a] = @ \cup {part}]
  BY DEF Publish
<1>5. Grows
  BY <1>1, <1>3, <1>4 DEF Grows
<1>6. \/ warned' = warned /\ a \in loggedIn /\ part \in published'[a]
      \/ warned' = [warned EXCEPT ![p] = @ \cup {part}]
  <2>1. Serves(copy) => a \in loggedIn
    BY <1>2 DEF Serves
  <2>2. a \in loggedIn => part \in [published EXCEPT ![a] = @ \cup {part}][a]
    BY <1>1
  <2> QED BY <2>1, <2>2 DEF Publish, Warn
<1>7. \A q \in Process \ {p} : warned'[q] = warned[q]
  BY <1>1, <1>6
<1>8. KnownAt(p)'
  <2>1. AfterPart(p) \notin {"name", "adopt"}
    BY DEF AfterPart
  <2>2. part \in AfterLoginSteps
    BY <1>1 DEF AfterLoginSteps
  <2> QED BY <1>1, <1>2, <1>3, <2>1, <2>2 DEF KnownAt
<1>9. DoneAt(p)'
  <2>1. CASE warned' = [warned EXCEPT ![p] = @ \cup {part}]
    <3>1. warned'[p] # {}
      BY <1>1, <2>1
    <3> QED BY <3>1 DEF DoneAt
  <2>2. CASE warned' = warned /\ a \in loggedIn /\ part \in published'[a]
    <3>1. \A x \in Parts : AfterPart(p) \in After(x) => x = part \/ part \in After(x)
      BY <1>1 DEF AfterPart, After, Parts
    <3>2. \A x \in Parts : warned[p] = {} /\ part \in After(x) => x \in published'[a]
      BY <1>1, <1>5, <2>2 DEF DoneAt, Grows
    <3> QED BY <1>3, <2>2, <3>1, <3>2 DEF DoneAt
  <2> QED BY <1>6, <2>1, <2>2
<1> QED BY <1>3, <1>5, <1>7, <1>8, <1>9, OneAdvances

(* A later step of setup that keeps the account and its warnings.             *)
LEMMA LateKnows ==
    ASSUME TypesOK, Known, NEW p \in Process, NEW step \in {"groupSave", "reported"},
           pc[p] \in {"group", "groupSave"}, Go(p, step),
           mine'[p].account = mine[p].account, mine'[p].mode = mine[p].mode,
           \A q \in Process \ {p} : mine'[q] = mine[q],
           UNCHANGED <<ask, warned, loggedIn, published, excuse>>
    PROVE  Known'
<1>1. KnownAt(p) /\ DoneAt(p)
  BY KnownParts
<1>2. pc'[p] = step /\ \A q \in Process \ {p} : pc'[q] = pc[q]
  BY DEF Go, TypesOK, LocalTypeOK
<1>3. KnownAt(p)'
  BY <1>1, <1>2 DEF KnownAt, RenameSteps, SetupSteps, AfterIdentity, AfterLoginSteps, Parts
<1>4. DoneAt(p)'
  BY <1>1, <1>2 DEF DoneAt, After, Parts
<1> QED BY <1>2, <1>3, <1>4, OneAdvances DEF Grows

LEMMA StepKnows ==
    ASSUME TypesOK, Known, CopiesHaveKey, NEW p \in Process, Step(p) \/ Kill(p)
    PROVE  Known'
<1> DEFINE copy == mine[p]
<1>0. /\ copy \in ConfigType /\ file \in ConfigType /\ mine = [mine EXCEPT ![p] = copy]
      /\ KeyOf(copy) \in Key \cup {None} /\ None \notin Key
  BY KeysAreKeys, NoneAssumption DEF TypesOK, LocalTypeOK, RestTypeOK
<1>a. KnownAt(p)
  BY KnownParts
<1> USE DEF AfterLoginSteps, AfterIdentity, SetupSteps, RenameSteps, Parts
<1>1. CASE LoadConfig(p)
  <2>1. Configured(file, ask[p]).mode # "unset"
    BY <1>0 DEF Configured, ConfigType
  <2>2. PICK step \in {"template", "identity"} : Go(p, step)
    BY <1>1 DEF LoadConfig
  <2>3. /\ mine' = [mine EXCEPT ![p] = Configured(file, ask[p])] /\ ask[p].kind # "rename"
        /\ UNCHANGED <<ask, warned, loggedIn, published>> /\ (excuse' = {} => excuse = {})
    BY <1>1 DEF LoadConfig, daemonVars
  <2> QED BY <2>1, <2>2, <2>3, EarlyKnows
<1>2. CASE SaveTemplate(p)
  BY <1>0, <1>a, <1>2, StoredKnows DEF SaveTemplate, KnownAt, daemonVars
<1>3. CASE FindIdentity(p)
  <2>0. /\ UNCHANGED <<ask, warned, loggedIn, published, excuse>>
        /\ ask[p].kind # "rename" /\ copy.mode # "unset"
    BY <1>a, <1>3 DEF FindIdentity, KnownAt, daemonVars, ghostVars
  <2>1. CASE mine' = mine /\ (Go(p, "store") \/ Go(p, "check"))
    <3>1. PICK step \in {"store", "check"} : Go(p, step)
      BY <2>1
    <3> QED BY <1>0, <2>0, <2>1, <3>1, EarlyKnows
  <2>2. CASE mine' = mine /\ Go(p, "account") /\ copy.account # None
    BY <1>0, <2>0, <2>2, EarlyKnows
  <2>3. CASE /\ mine' = [mine EXCEPT ![p].account = KeyOf(copy)] /\ KeyOf(copy) # None
             /\ Go(p, "account")
    <3> DEFINE new == [copy EXCEPT !.account = KeyOf(copy)]
    <3>1. new.account # None /\ new.mode # "unset"
      BY <1>0, <2>0, <2>3 DEF ConfigType
    <3>2. mine' = [mine EXCEPT ![p] = new]
      BY <2>3
    <3> HIDE DEF new
    <3> QED BY <2>0, <2>3, <3>1, <3>2, EarlyKnows
  <2> QED BY <1>3, <2>1, <2>2, <2>3 DEF FindIdentity
<1>4. CASE CheckAbsent(p)
  <2>0. UNCHANGED <<loggedIn, published, excuse>> /\ ask[p].kind # "rename" /\ copy.mode # "unset"
    BY <1>a, <1>4 DEF CheckAbsent, KnownAt, daemonVars
  <2>1. CASE Leave(p)
    BY <2>0, <2>1, EndingKnows DEF Grows
  <2>2. CASE Continue(p, "store")
    BY <1>0, <2>0, <2>2, EarlyKnows DEF Continue
  <2> QED BY <1>4, <2>1, <2>2 DEF CheckAbsent
<1>5. CASE StoreKey(p)
  <2>1. PICK k \in Key : mine' = [mine EXCEPT ![p] = [copy EXCEPT !.account = k]]
    BY <1>5 DEF StoreKey
  <2> DEFINE new == [copy EXCEPT !.account = k]
  <2>2. new.account # None /\ new.mode = copy.mode
    BY <1>0 DEF ConfigType
  <2>3. /\ UNCHANGED <<ask, warned, loggedIn, published>> /\ (excuse' = {} => excuse = {})
        /\ ask[p].kind # "rename" /\ copy.mode # "unset" /\ Go(p, "account")
    BY <1>a, <1>5 DEF StoreKey, KnownAt, daemonVars
  <2>4. mine' = [mine EXCEPT ![p] = new]
    BY <2>1
  <2> HIDE DEF new
  <2> QED BY <2>2, <2>3, <2>4, EarlyKnows
<1>6. CASE SaveAccount(p)
  <2>1. PICK step \in {"daemon", "login"} : Go(p, step)
    BY <1>6 DEF SaveAccount
  <2>2. /\ UNCHANGED <<ask, warned, loggedIn, published>> /\ SaveCopy(p, copy)
        /\ ask[p].kind # "rename" /\ copy.mode # "unset" /\ copy.account # None
    BY <1>a, <1>6 DEF SaveAccount, KnownAt, daemonVars
  <2>3. excuse' = {} => excuse = {} \/ Others(p) = {}
    BY <1>6 DEF SaveAccount, ExcuseAfter
  <2> QED BY <1>0, <2>1, <2>2, <2>3, StoredKnows
<1>7. CASE EnsureDaemon(p)
  <2>0. UNCHANGED <<loggedIn, published, excuse>>
    BY <1>7 DEF EnsureDaemon
  <2>1. CASE Leave(p)
    BY <2>0, <2>1, EndingKnows DEF Grows
  <2>2. CASE Continue(p, "login")
    BY <1>0, <1>a, <1>7, <2>0, <2>2, EarlyKnows DEF Continue, EnsureDaemon, KnownAt
  <2> QED BY <1>7, <2>1, <2>2 DEF EnsureDaemon
<1>8. CASE EnsureLogin(p)
  BY <1>8, LoginKnows
<1>9. CASE Publish(p)
  BY <1>9, PublishKnows
<1>10. CASE CreateGroup(p)
  <2>0. UNCHANGED <<loggedIn, published, excuse>> /\ pc[p] = "group"
    BY <1>10 DEF CreateGroup
  <2>1. CASE Leave(p)
    BY <2>0, <2>1, EndingKnows DEF Grows
  <2>2. CASE Continue(p, "reported")
    BY <2>0, <2>2, LateKnows DEF Continue
  <2>3. CASE /\ \E g \in Group : mine' = [mine EXCEPT ![p].groups = @ \cup {g}]
             /\ Go(p, "groupSave") /\ UNCHANGED <<ask, warned>>
    <3>1. PICK g \in Group : mine' = [mine EXCEPT ![p].groups = @ \cup {g}]
      BY <2>3
    <3>2. /\ mine'[p].account = copy.account /\ mine'[p].mode = copy.mode
          /\ \A q \in Process \ {p} : mine'[q] = mine[q]
      BY <1>0, <3>1 DEF TypesOK, LocalTypeOK, ConfigType
    <3> QED BY <2>0, <2>3, <3>2, LateKnows
  <2> QED BY <1>10, <2>1, <2>2, <2>3 DEF CreateGroup
<1>11. CASE SaveGroup(p)
  <2>1. /\ mine'[p].account = copy.account /\ mine'[p].mode = copy.mode
        /\ \A q \in Process \ {p} : mine'[q] = mine[q]
    BY <1>0, <1>11 DEF SaveGroup, SaveCopy, TypesOK, LocalTypeOK, ConfigType
  <2> QED BY <1>11, <2>1, LateKnows DEF SaveGroup, daemonVars
<1>12. CASE Reload(p)
  <2>0. UNCHANGED <<loggedIn, published, excuse>> /\ ask[p].kind # "rename"
    BY <1>12 DEF Reload, daemonVars
  <2>1. CASE Leave(p)
    BY <2>0, <2>1, EndingKnows DEF Grows
  <2>2. CASE ~Leave(p)
    <3> DEFINE loaded == [file EXCEPT !.groups = IF ask[p].group = None THEN @ ELSE @ \cup {ask[p].group}]
    <3>1. PICK step \in {"addGroup", "discover"} : Go(p, step)
      BY <1>12, <2>2 DEF Reload
    <3>2. mine' = [mine EXCEPT ![p] = loaded] /\ UNCHANGED <<ask, warned>>
      BY <1>12, <2>2 DEF Reload
    <3> HIDE DEF loaded
    <3> QED BY <2>0, <3>1, <3>2, EarlyKnows
  <2> QED BY <2>1, <2>2
<1>13. CASE AddGroup(p)
  BY <1>13, EndingKnows DEF AddGroup, Grows, daemonVars
<1>14. CASE DiscoverGroups(p)
  <2>0. UNCHANGED <<loggedIn, published, excuse>> /\ ask[p].kind # "rename"
    BY <1>a, <1>14 DEF DiscoverGroups, KnownAt, daemonVars
  <2>1. CASE Leave(p)
    BY <2>0, <2>1, EndingKnows DEF Grows
  <2>2. CASE /\ mine' = [mine EXCEPT ![p] = [copy EXCEPT !.groups = visible]]
             /\ Go(p, "adoptGroups") /\ UNCHANGED <<ask, warned>>
    <3> DEFINE new == [copy EXCEPT !.groups = visible]
    <3>1. mine' = [mine EXCEPT ![p] = new]
      BY <2>2
    <3> HIDE DEF new
    <3> QED BY <2>0, <2>2, <3>1, EarlyKnows
  <2> QED BY <1>14, <2>1, <2>2 DEF DiscoverGroups
<1>15. CASE SaveDiscovered(p)
  BY <1>15, EndingKnows DEF SaveDiscovered, Grows, daemonVars
<1>16. CASE LoadForRename(p)
  <2>0. UNCHANGED <<loggedIn, published, excuse>> /\ ask[p].kind = "rename"
    BY <1>16 DEF LoadForRename, daemonVars
  <2>1. CASE Leave(p)
    BY <2>0, <2>1, EndingKnows DEF Grows
  <2>2. CASE mine' = [mine EXCEPT ![p] = file] /\ Go(p, "name") /\ UNCHANGED <<ask, warned>>
    BY <2>0, <2>2, EarlyKnows
  <2> QED BY <1>16, <2>1, <2>2 DEF LoadForRename
<1>17. CASE SaveName(p)
  <2>0. UNCHANGED <<loggedIn, published, excuse>> /\ ask[p].kind = "rename"
    BY <1>a, <1>17 DEF SaveName, KnownAt, daemonVars
  <2>1. CASE ~ask[p].daemon
    BY <1>17, <2>0, <2>1, EndingKnows DEF SaveName, Grows
  <2>2. CASE ask[p].daemon
    <3>1. SaveCopy(p, copy) /\ UNCHANGED <<ask, warned>>
      BY <1>17, <2>2 DEF SaveName
    <3>2. PICK step \in {"adopt", "daemon"} : Go(p, step)
      BY <1>17, <2>2 DEF SaveName
    <3> QED BY <1>0, <2>0, <3>1, <3>2, StoredKnows
  <2> QED BY <2>1, <2>2
<1>18. CASE AdoptAccount(p)
  <2> DEFINE new == [copy EXCEPT !.account = KeyOf(copy)]
  <2>0. /\ UNCHANGED <<ask, warned, loggedIn, published, excuse>> /\ ask[p].kind = "rename"
        /\ Go(p, "daemon") /\ new \in ConfigType
    BY <1>0, <1>a, <1>18, SomeConfigs DEF AdoptAccount, KnownAt, daemonVars
  <2>1. CASE UNCHANGED <<file, mine, stale>>
    BY <1>0, <2>0, <2>1, EarlyKnows
  <2>2. CASE SaveCopy(p, new)
    <3> HIDE DEF new
    <3> QED BY <2>0, <2>2, StoredKnows
  <2> QED BY <1>18, <2>1, <2>2 DEF AdoptAccount
<1>19. CASE PublishName(p)
  <2>1. PICK a : published' = [published EXCEPT ![a] = @ \cup {"profile"}] \/ UNCHANGED published
    BY <1>19 DEF PublishName
  <2>2. Grows
    <3>1. published \in [Key -> SUBSET Parts] /\ loggedIn' = loggedIn
      BY <1>19 DEF PublishName, TypesOK, RestTypeOK
    <3>2. \A b \in Key : published[b] \subseteq published'[b]
      BY <2>1, <3>1
    <3> QED BY <3>1, <3>2 DEF Grows
  <2> QED BY <1>19, <2>2, EndingKnows DEF PublishName
<1>20. CASE Kill(p)
  BY <1>20, EndingKnows DEF Kill, Grows, daemonVars
<1> QED BY <1>1, <1>2, <1>3, <1>4, <1>5, <1>6, <1>7, <1>8, <1>9, <1>10, <1>11, <1>12, <1>13,
           <1>14, <1>15, <1>16, <1>17, <1>18, <1>19, <1>20 DEF Step

LEMMA NextKnows ==
    ASSUME TypesOK, KeysKept, Known, [SetupNext]_setupVars
    PROVE  Known'
<1>1. ASSUME NEW p \in Process, NEW r \in Request[p], Begin(p, r)
      PROVE  Known'
  <2>1. /\ pc'[p] = "load"
        /\ \A q \in Process \ {p} : /\ pc'[q] = pc[q] /\ mine'[q] = mine[q]
                                    /\ ask'[q] = ask[q] /\ warned'[q] = warned[q]
    BY <1>1 DEF Begin, Go, TypesOK, LocalTypeOK
  <2>2. KnownAt(p)' /\ DoneAt(p)'
    BY <2>1 DEF KnownAt, DoneAt, RenameSteps, AfterIdentity, AfterLoginSteps, After, Parts
  <2> QED BY <1>1, <2>1, <2>2, OneAdvances DEF Begin, Grows, daemonVars
<1>2. CASE /\ UNCHANGED <<localVars, loggedIn, published>>
           /\ excuse' = {} => excuse = {}
  BY <1>2 DEF Known, AccountKnown, DoneOrWarned, localVars
<1>3. CASE Around \/ UNCHANGED setupVars
  BY <1>2, <1>3 DEF Around, ListenerAddsGroup, CreateByHand, DeleteKey, DaemonFails, DaemonIsKilled,
                    setupVars, daemonVars, ghostVars
<1> QED BY <1>1, <1>3, StepKnows DEF SetupNext, KeysKept

(* The parts hold together: what AccountHasKey, ReportIsTrue and SetupHeals   *)
(* rest on.                                                                   *)
THEOREM SetupInvariant == SetupSpec => []SetupIInv
<1>1. SetupInit => TypesOK /\ CopiesCoverGroups /\ KeysKept /\ Known
  <2>1. SetupInit => TypesOK
    BY SomeConfigs, BoundAssumption DEF SetupInit, TypesOK, LocalTypeOK, RestTypeOK, Steps
  <2>2. SetupInit => CopiesCoverGroups /\ KeysKept
    BY DEF SetupInit, CopiesCoverGroups, KeysKept, AccountHasKey, CopiesHaveKey, StoresIntoEmpty,
           Holds, Template
  <2>3. SetupInit => Known
    BY DEF SetupInit, Known, AccountKnown, DoneOrWarned, NoRequest, SetupSteps, AfterIdentity,
           AfterLoginSteps, After, Parts
  <2> QED BY <2>1, <2>2, <2>3
<1>2. SetupTypeOK => TypesOK
  BY DEF SetupTypeOK, TypesOK, LocalTypeOK, RestTypeOK
<1>3. TypesOK /\ CopiesCoverGroups /\ KeysKept /\ Known /\ [SetupNext]_setupVars
          => CopiesCoverGroups' /\ KeysKept' /\ Known'
  BY NextCovers, NextKeepsKeys, NextKnows
<1>4. SetupTypeOK /\ CopiesCoverGroups /\ KeysKept /\ Known => SetupIInv
  BY DEF KeysKept, Known, SetupIInv
<1> QED BY <1>1, <1>2, <1>3, <1>4, SetupTypes, PTL DEF SetupSpec

(* ReportIsTrue, for any number of commands, kills and failures.              *)
THEOREM ReportsAreTrue == SetupSpec => []ReportIsTrue
<1>1. SetupIInv => ReportIsTrue
  <2> SUFFICES ASSUME SetupIInv, NEW p \in Process, pc[p] = "reported", warned[p] = {}
               PROVE  Ready(mine[p].account)
    BY DEF ReportIsTrue
  <2>1. ask[p].kind # "rename"
    BY DEF SetupIInv, AccountKnown, RenameSteps
  <2>2. \A part \in Parts : /\ mine[p].account \in loggedIn
                            /\ part \in published[mine[p].account]
    BY <2>1 DEF SetupIInv, DoneOrWarned, After
  <2>3. mine[p].account \in loggedIn /\ mine[p].account \in Key
    BY <2>2 DEF SetupIInv, SetupTypeOK, Parts
  <2>4. published[mine[p].account] \subseteq Parts
    BY <2>3 DEF SetupIInv, SetupTypeOK
  <2> QED BY <2>2, <2>3, <2>4 DEF Ready
<1> QED BY <1>1, SetupInvariant, PTL

(* A command that ends before it has reported met a fault, or a daemon that   *)
(* does not work, or an account without its key.                              *)
Excused(p) ==
    \/ faults' # faults \/ excuse # {}
    \/ daemon # "up" /\ pc[p] \in {"daemon", "login", "group"}

LEMMA EndsExcused ==
    ASSUME SetupIInv, NEW p \in Process, Step(p) \/ Kill(p), GivesUp(p)
    PROVE  Excused(p)
<1> SUFFICES ASSUME excuse = {} PROVE Excused(p)
  BY DEF Excused
<1> DEFINE copy == mine[p]
<1>0. /\ ask[p].kind # "rename" /\ pc[p] \in SetupSteps /\ pc'[p] = "idle"
      /\ pc \in [Process -> Steps] /\ faults \in Int
  BY DEF GivesUp, SetupIInv, SetupTypeOK
<1>a. Fault => Excused(p)
  BY <1>0 DEF Fault, Excused
<1>b. ASSUME NEW step, Go(p, step) PROVE step = "idle"
  BY <1>0, <1>b DEF Go
<1>1. CASE CheckAbsent(p)
  BY <1>1, <1>b DEF CheckAbsent, Continue, SetupIInv, StoresIntoEmpty
<1>2. CASE EnsureDaemon(p)
  BY <1>2, <1>a, <1>b DEF EnsureDaemon, Continue, Excused
<1>3. CASE EnsureLogin(p)
  <2>1. copy.account # None
    BY <1>0, <1>3 DEF EnsureLogin, SetupIInv, AccountKnown, AfterIdentity
  <2>2. KeyOf(copy) # None
    BY <1>3, <2>1 DEF EnsureLogin, SetupIInv, CopiesHaveKey, HasKey, Holds
  <2>3. AfterLogin(p) # "idle"
    BY DEF AfterLogin
  <2> QED BY <1>3, <1>a, <1>b, <2>2, <2>3 DEF EnsureLogin, Continue, Excused
<1>4. CASE CreateGroup(p)
  <2>1. copy.account # None /\ copy.account \in loggedIn
    BY <1>0, <1>4
    DEF CreateGroup, SetupIInv, AccountKnown, AfterIdentity, AfterLoginSteps, Parts
  <2>2. daemon # "up" \/ Serves(copy)
    BY <2>1 DEF Serves
  <2> QED BY <1>4, <1>a, <1>b, <2>2 DEF CreateGroup, Continue, Excused
<1>5. CASE Kill(p)
  BY <1>5, <1>a DEF Kill
<1>6. CASE Publish(p)
  BY <1>6, <1>b DEF Publish, AfterPart
<1>7. CASE Reload(p) \/ AddGroup(p) \/ DiscoverGroups(p) \/ SaveDiscovered(p) \/ SaveName(p)
           \/ LoadForRename(p) \/ PublishName(p) \/ AdoptAccount(p)
  BY <1>0, <1>7 DEF Reload, AddGroup, DiscoverGroups, SaveDiscovered, SaveName, LoadForRename,
                    PublishName, AdoptAccount, SetupSteps, Parts
<1>8. CASE LoadConfig(p) \/ SaveTemplate(p) \/ FindIdentity(p) \/ StoreKey(p) \/ SaveAccount(p)
           \/ SaveGroup(p)
  BY <1>8, <1>b DEF LoadConfig, SaveTemplate, FindIdentity, StoreKey, SaveAccount, SaveGroup
<1> QED BY <1>1, <1>2, <1>3, <1>4, <1>5, <1>6, <1>7, <1>8 DEF Step

(* SetupHeals, for any number of commands, kills and failures.                *)
THEOREM SetupRepeats == SetupSpec => SetupHeals
<1> DEFINE Heals == \A p \in Process : GivesUp(p) => Excused(p)
<1>1. SetupIInv /\ [SetupNext]_setupVars => Heals
  <2> SUFFICES ASSUME SetupIInv, [SetupNext]_setupVars, NEW p \in Process, GivesUp(p)
               PROVE  Excused(p)
    OBVIOUS
  <2>0. pc[p] # "idle" /\ pc'[p] = "idle" /\ pc \in [Process -> Steps]
    BY DEF GivesUp, SetupSteps, Parts, SetupIInv, SetupTypeOK
  <2>1. ASSUME NEW q \in Process \ {p}, Step(q) \/ Kill(q) PROVE pc'[p] = pc[p]
    <3>1. ASSUME NEW step, Go(q, step) PROVE pc'[p] = pc[p]
      BY <2>0, <3>1 DEF Go
    <3> QED BY <2>1, <3>1
            DEF Step, Kill, LoadConfig, SaveTemplate, FindIdentity, CheckAbsent, StoreKey, SaveAccount,
                EnsureDaemon, EnsureLogin, Publish, CreateGroup, SaveGroup, Reload, AddGroup,
                DiscoverGroups, SaveDiscovered, LoadForRename, SaveName, AdoptAccount, PublishName,
                Leave, Continue, SaveLast
  <2>2. ASSUME NEW q \in Process, NEW r \in Request[q], Begin(q, r) PROVE pc'[p] # "idle"
    BY <2>0, <2>2 DEF Begin, Go
  <2>3. CASE Around \/ UNCHANGED setupVars
    BY <2>0, <2>3 DEF Around, ListenerAddsGroup, CreateByHand, DeleteKey, DaemonFails, DaemonIsKilled,
                      setupVars, localVars
  <2> QED BY <2>0, <2>1, <2>2, <2>3, EndsExcused DEF SetupNext
<1>2. Heals => [\A p \in Process : GivesUp(p) =>
          \/ faults' # faults \/ excuse # {}
          \/ daemon # "up" /\ pc[p] \in {"daemon", "login", "group"}]_setupVars
  BY DEF Excused
<1> HIDE DEF Heals
<1> QED BY <1>1, <1>2, SetupInvariant, PTL DEF SetupSpec, SetupHeals
==============================================================================
