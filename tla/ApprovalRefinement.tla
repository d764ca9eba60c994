---- MODULE ApprovalRefinement ----
(***************************************************************************)
(* FrontDesk implements ApprovalPromise: on record is what approvals.json   *)
(* has, whatever the listener's memory holds; granted is what the listener *)
(* has in hand.  An expiry is a matter of the clock: the file may forget   *)
(* that it noted one, when the memory that had not is saved over it.       *)
(***************************************************************************)
EXTENDS FrontDesk

OnRecord == [a \in Ask |-> IF approvalsFile[a] \in {"pending", "expired"}
                           THEN "open" ELSE approvalsFile[a]]

Promise == INSTANCE ApprovalPromise
             WITH standing <- OnRecord, late <- due, granted <- {hand.ask} \ {None},
                  undone <- reverted

\* Whatever writes fail and whenever the listener dies, a decision on file is
\* final, only what was approved in time runs, and once, and a denial that was
\* acknowledged was taken in time and is on file (ApprovalStore: create,
\* transition and expire_pending, with the run that follows /approve).
KeepsDecisions == Promise!Spec

====
