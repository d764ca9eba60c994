------------------------------ MODULE Watcher ------------------------------
(* The local sessions of an agent: the thread that looks for new ones and     *)
(* tells the phone, and the resume command the phone sends back with the      *)
(* short id it was shown (local_sessions.rs, the watcher in main.rs and       *)
(* prepare_request in app.rs). The agent writes its sessions while both read. *)
EXTENDS Naturals, FiniteSets, Sequences

CONSTANTS
    Local,        \* the agent's sessions
    Short,        \* the short ids
    ShortOf,      \* short_ref: the first characters of a session's id
    NotifyLimit,  \* how many sessions a notice shows, 1 to 20 in the code
    MaxScans,     \* bound: scans
    MaxHiccups    \* bound: failures, restarts and configurations changed

ASSUME ShortAssumption == ShortOf \in [Local -> Short] /\ Short \cap Local = {}
ASSUME WatchAssumption == NotifyLimit \in Nat \ {0} /\ MaxScans \in Nat /\ MaxHiccups \in Nat

VARIABLES
    listed,     \* how often each session is listed: a renamed one has two lines
    based,      \* the watcher has its baseline
    known,      \* the sessions it has seen
    complained, \* the last scan failed
    inbox,      \* what it has sent to the listener: notices (sets), or "error"
    paired,     \* config.toml has a primary chat and an allowed sender
    shown,      \* sessions the phone was shown, with their resume command
    resumed,    \* history: [meant, got] of each resume command sent
    scans, hiccups

watchVars == <<listed, based, known, complained, inbox, paired, shown, resumed, scans, hiccups>>

WatchInit ==
    /\ listed = [s \in Local |-> 0]
    /\ based = FALSE /\ known = {} /\ complained = FALSE /\ inbox = <<>>
    /\ paired \in BOOLEAN
    /\ shown = {} /\ resumed = {} /\ scans = 0 /\ hiccups = 0

Hiccup == hiccups < MaxHiccups /\ hiccups' = hiccups + 1
There == {s \in Local : listed[s] > 0}
ScanStarts == scans < MaxScans /\ scans' = scans + 1

(*------------------------------- The watcher ------------------------------*)

(* The first scan that succeeds is the baseline.                              *)
Baseline ==
    /\ ScanStarts /\ ~based
    /\ based' = TRUE /\ known' = There /\ complained' = FALSE
    /\ UNCHANGED <<listed, inbox, paired, shown, resumed, hiccups>>

(* Every new session counts as seen, also those the limit cuts off.           *)
Scan ==
    LET new == There \ known
        least == IF Cardinality(new) < NotifyLimit THEN Cardinality(new) ELSE NotifyLimit
    IN  /\ ScanStarts /\ based
        /\ known' = known \cup new /\ complained' = FALSE
        /\ IF new = {} THEN UNCHANGED inbox
           ELSE \E top \in SUBSET new :
                    Cardinality(top) = least /\ inbox' = Append(inbox, top)
        /\ UNCHANGED <<listed, based, paired, shown, resumed, hiccups>>

(* An error is told once, until a scan succeeds.                              *)
ScanFails ==
    /\ ScanStarts /\ Hiccup
    /\ complained' = TRUE
    /\ inbox' = IF complained THEN inbox ELSE Append(inbox, {})
    /\ UNCHANGED <<listed, based, known, paired, shown, resumed>>

(*------------------------------- The listener -----------------------------*)

(* LocalSessionsChanged: the configuration is read again; without a primary   *)
(* chat, or when the reply cannot be sent, the notice is lost.                *)
NoticeHandled ==
    /\ inbox # <<>> /\ inbox' = Tail(inbox)
    /\ \/ shown' = (IF paired THEN shown \cup Head(inbox) ELSE shown) /\ UNCHANGED hiccups
       \/ Hiccup /\ UNCHANGED shown
    /\ UNCHANGED <<listed, based, known, complained, paired, resumed, scans>>

(* resolve_session_id: the whole id, or the one listed session that begins    *)
(* with it. Several lines refuse the command, one session's own included; an  *)
(* id nothing begins with goes to the agent as it is.                         *)
Lines(s, target) == IF s = target \/ ShortOf[s] = target THEN listed[s] ELSE 0

(* Mutant of Resolves: the first one that fits is taken.                      *)
ResolvesFirst(target) ==
    LET fits == {s \in There : ShortOf[s] = target}
    IN  IF target \in There THEN {target} ELSE IF fits = {} THEN {target} ELSE fits

Resolves(target) ==
    LET fits == {s \in There : ShortOf[s] = target}
    IN  CASE target \in There -> {target}
          [] target \notin There /\ fits = {} -> {target}
          [] target \notin There /\ Cardinality(fits) = 1
             /\ (\A s \in fits : Lines(s, target) = 1) -> fits
          [] OTHER -> {}                                        \* refused

(* The phone sends the command it was shown, or one with the whole id; the    *)
(* listing may fail, which is a reply.                                        *)
Resumes(s, target) ==
    /\ s \in shown /\ target \in {s, ShortOf[s]}
    /\ \/ /\ resumed' = resumed \cup {[meant |-> s, got |-> got, gone |-> s \notin There] :
                                         got \in Resolves(target)}
          /\ UNCHANGED hiccups
       \/ Hiccup /\ UNCHANGED resumed
    /\ UNCHANGED <<listed, based, known, complained, inbox, paired, shown, scans>>

(*----------------------- The agent, config.toml, restarts ------------------*)

(* A session appears, or gets a second line when it is renamed.               *)
Appears(s) ==
    /\ listed[s] < 2 /\ listed' = [listed EXCEPT ![s] = @ + 1]
    /\ UNCHANGED <<based, known, complained, inbox, paired, shown, resumed, scans, hiccups>>

Vanishes(s) ==
    /\ listed[s] > 0 /\ Hiccup /\ listed' = [listed EXCEPT ![s] = 0]
    /\ UNCHANGED <<based, known, complained, inbox, paired, shown, resumed, scans>>

PairingChanges ==
    /\ Hiccup /\ paired' = ~paired
    /\ UNCHANGED <<listed, based, known, complained, inbox, shown, resumed, scans>>

WatcherRestarts ==
    /\ Hiccup
    /\ based' = FALSE /\ known' = {} /\ complained' = FALSE /\ inbox' = <<>>
    /\ UNCHANGED <<listed, paired, shown, resumed, scans>>

WatchNext ==
    \/ Baseline \/ Scan \/ ScanFails \/ NoticeHandled
    \/ \E s \in Local : \E target \in {s, ShortOf[s]} : Resumes(s, target)
    \/ \E s \in Local : Appears(s) \/ Vanishes(s)
    \/ PairingChanges \/ WatcherRestarts

WatchSpec == WatchInit /\ [][WatchNext]_watchVars

(*-------------------------------- Properties ------------------------------*)

(* A resume command sent as it was shown reaches the session it was shown for *)
(* or is refused, whatever sessions came, were renamed or were read badly in  *)
(* the meantime; only when that session is gone may another one answer to it. *)
ShownIsResumed ==
    \A r \in resumed : r.gone \/ r.got = r.meant
=============================================================================
