----------------------------- MODULE MCAgentRuns -----------------------------
(* Deployments of the runner for TLC: all in one process, or a transport *)
(* and a worker. *)
EXTENDS AgentRuns

CONSTANTS Worker

InlineOwner == [j \in Job |-> Front]
SplitOwner  == [j \in Job |-> Worker]
=============================================================================
