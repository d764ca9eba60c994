------------------------- MODULE PipelineRefinement -------------------------
(***************************************************************************)
(* CommandPipeline implements CommandPromise: the ledger is the queue      *)
(* table, a row being accepted until mark_running, and what is reported is *)
(* what stands in the chats.                                               *)
(***************************************************************************)
EXTENDS CommandPipeline

PhaseOf(status) == CASE status \in {"queued", "claimed"} -> "accepted"
                     [] status = "running" -> "started"
                     [] OTHER -> status

Ledger == [j \in DOMAIN jobs |-> [event |-> jobs[j].event,
                                  phase |-> PhaseOf(jobs[j].status)]]

Reported == {[job |-> r.job, verdict |-> r.verdict] : r \in results}

Promise == INSTANCE CommandPromise WITH ledger <- Ledger, reported <- Reported

\* Whatever faults strike, the pipeline keeps the promise of CommandPromise:
\* no job is started twice, reported before it is settled, or reported
\* otherwise than it was settled.
KeepsPromise == Promise!Spec
=============================================================================
