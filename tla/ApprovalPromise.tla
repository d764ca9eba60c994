---- MODULE ApprovalPromise ----
(***************************************************************************)
(* What the approvals promise a chat, without listener, memory, files or   *)
(* restarts.  A request is on record from the moment it is asked for, and  *)
(* decided once.  Only a decision taken in time counts: a request that is  *)
(* approved then is granted, and a granted one runs at most once; one that *)
(* is refused then has been denied.  A decision that was answered with an  *)
(* error may still get on record, but nothing runs for it.  The promise    *)
(* ends when another program puts an older state back.                     *)
(***************************************************************************)
EXTENDS Naturals

CONSTANT Ask

VARIABLES standing,  \* what is on record of each request
          late,      \* the requests whose time is over
          granted,   \* approved in time, and neither run nor dropped yet
          ran,       \* how often each was handed to the queue
          refused,   \* the requests whose denial was acknowledged
          undone     \* an older state was put back

pvars == <<standing, late, granted, ran, refused, undone>>

Verdict == {"approved", "denied"}
Standing == {"none", "open"} \cup Verdict

Init == /\ standing = [a \in Ask |-> "none"]
        /\ late = {} /\ granted = {} /\ refused = {}
        /\ ran = [a \in Ask |-> 0]
        /\ undone = FALSE

Moves(before, after) == \/ before = after
                        \/ before = "none" /\ after = "open"
                        \/ before = "open" /\ after \in Verdict

\* One save may put several changes on record: a decision whose own save
\* failed comes with a later one.
Recorded == /\ standing' \in [Ask -> Standing]
            /\ \A a \in Ask : Moves(standing[a], standing'[a])
            /\ UNCHANGED <<late, ran, undone>>

Save == Recorded /\ UNCHANGED <<granted, refused>>

InTime(a) == standing[a] = "open" /\ a \notin late

Grant(a) == /\ InTime(a) /\ Recorded /\ standing'[a] = "approved"
            /\ granted' = granted \cup {a}
            /\ UNCHANGED refused

Refuse(a) == /\ InTime(a) /\ Recorded /\ standing'[a] = "denied"
             /\ refused' = refused \cup {a}
             /\ UNCHANGED granted

Run(a) == /\ a \in granted
          /\ granted' = granted \ {a}
          /\ ran' = [ran EXCEPT ![a] = @ + 1]
          /\ UNCHANGED <<standing, late, refused, undone>>

\* The listener is killed, or the job cannot be queued.
Drop == /\ granted' = {}
        /\ UNCHANGED <<standing, late, ran, refused, undone>>

Expire(a) == /\ late' = late \cup {a}
             /\ UNCHANGED <<standing, granted, ran, refused, undone>>

Undo == undone' = TRUE

Next == \/ Save \/ Drop \/ Undo
        \/ \E a \in Ask : Grant(a) \/ Refuse(a) \/ Run(a) \/ Expire(a)

Spec == Init /\ [][Next]_pvars

====
