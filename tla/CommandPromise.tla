--------------------------- MODULE CommandPromise ---------------------------
(***************************************************************************)
(* What the command pipeline promises the phone, without listener, queue   *)
(* or workers: a message is accepted once if it has an id, its job is      *)
(* started at most once, settled once, and only then reported, with the    *)
(* verdict it was settled with.                                            *)
(***************************************************************************)
EXTENDS Naturals, Sequences

CONSTANTS Message, Anonymous

VARIABLES ledger,    \* the jobs in the order they were accepted
          reported   \* what was reported about them

pvars == <<ledger, reported>>

Verdict == {"succeeded", "failed"}

Init == ledger = <<>> /\ reported = {}

Accept(m) ==
    /\ m \in Anonymous \/ \A j \in DOMAIN ledger : ledger[j].event # m
    /\ ledger' = Append(ledger, [event |-> m, phase |-> "accepted"])
    /\ UNCHANGED reported

Begin(j) == /\ ledger[j].phase = "accepted"
            /\ ledger' = [ledger EXCEPT ![j].phase = "started"]
            /\ UNCHANGED reported

\* Only a started job succeeds; one that cannot be started fails.
Settle(j, verdict) ==
    /\ \/ ledger[j].phase = "started"
       \/ ledger[j].phase = "accepted" /\ verdict = "failed"
    /\ ledger' = [ledger EXCEPT ![j].phase = verdict]
    /\ UNCHANGED reported

Report(j) ==
    /\ ledger[j].phase \in Verdict
    /\ reported' = reported \union {[job |-> j, verdict |-> ledger[j].phase]}
    /\ UNCHANGED ledger

Next == \/ \E m \in Message : Accept(m)
        \/ \E j \in DOMAIN ledger :
               \/ Begin(j) \/ Report(j)
               \/ \E verdict \in Verdict : Settle(j, verdict)

Spec == Init /\ [][Next]_pvars
=============================================================================
