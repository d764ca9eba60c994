---- MODULE MCFrontDesk ----
(* FrontDesk and its refinement for TLC: the senders are alike. *)
EXTENDS ApprovalRefinement, TLC

AlikeSenders == Permutations(Sender)

====
