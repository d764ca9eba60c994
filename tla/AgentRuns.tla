------------------------------ MODULE AgentRuns ------------------------------
(***************************************************************************)
(* Running an agent and keeping its record: AgentRunner::run_blocking and  *)
(* cancel (src/src/runner.rs) over JobStore (src/src/jobs.rs).  Every      *)
(* process has a JobStore of its own, filled from jobs.json when it opens  *)
(* and written back whole by every operation; inline ("up") one process    *)
(* listens and runs the jobs, split deployments have a transport that      *)
(* listens (Front) and a worker that runs them.  A pid is the number of    *)
(* the launch attempt that got it.                                         *)
(***************************************************************************)
EXTENDS Naturals

CONSTANTS Process,
          Front,        \* the process that gets the phone's commands
          Job,
          Owner,        \* the process that runs each job
          MaxAttempts,  \* startup_retry_attempts + 1
          NoJob,
          Faults

ASSUME RunsAssumption ==
    /\ Front \in Process /\ Owner \in [Job -> Process]
    /\ MaxAttempts \in Nat \ {0} /\ NoJob \notin Job
    /\ Faults \subseteq {"save",    \* jobs.json cannot be written
                         "spawn",   \* the agent cannot be started
                         "io",      \* a log, poll or thread error ends a run
                         "heirs",   \* an agent leaves a process of its own
                                    \* behind that has its output open
                         "kill"}    \* a process dies; its children do not

VARIABLES up,       \* what each process has done to start
          store,    \* each process's job records
          disk,     \* jobs.json
          run,      \* run_blocking_inner of each job
          child,    \* the agent process of the job's latest attempt
          cancel,   \* AgentRunner::cancel between its two steps
          acked,    \* the attempt whose cancel was answered "cancel requested"
          unknown   \* jobs whose cancel was answered "no such job" while
                    \* their agent ran

vars == <<up, store, disk, run, child, cancel, acked, unknown>>

ActiveStatus   == {"pending", "running", "cancel-requested"}
TerminalStatus == {"succeeded", "failed", "cancelled", "interrupted"}

Record == [status: ActiveStatus \union TerminalStatus \union {"none"},
           pid: 0..MaxAttempts]
NoRecord == [status |-> "none", pid |-> 0]

\* again: the attempt is being ended for startup silence, with one left.
Run == {r \in [at: {"idle", "spawn", "mark", "wait", "term", "join", "finish",
                    "done", "lost"},
               attempt: 0..MaxAttempts, again: BOOLEAN] :
            r.again => r.attempt < MaxAttempts}

\* The process launched; one that exited and left heirs; either.
Running == {"alive", "termed"}
Alive == Running \union {"left"}
Child == {"none", "ok", "bad"} \union Alive

NoCancel == [job |-> NoJob, pid |-> 0]

Init == /\ up = [p \in Process |-> "down"]
        /\ store = [p \in Process |-> [j \in Job |-> NoRecord]]
        /\ disk = [j \in Job |-> NoRecord]
        /\ run = [j \in Job |-> [at |-> "idle", attempt |-> 0, again |-> FALSE]]
        /\ child = [j \in Job |-> "none"]
        /\ cancel = NoCancel
        /\ acked = [j \in Job |-> 0] /\ unknown = {}

RecordOf(j) == store[Owner[j]][j]

-----------------------------------------------------------------------------
(* JobStore. *)

\* with_jobs: memory changes, then the file is replaced or that fails.
Writes(p, records, saved) ==
    /\ ~saved => "save" \in Faults
    /\ store' = [store EXCEPT ![p] = records]
    /\ disk' = IF saved THEN records ELSE disk

\* update of the job's own record by its runner.
Updates(j, record, saved) ==
    Writes(Owner[j], [store[Owner[j]] EXCEPT ![j] = record], saved)

\* JobStore::open reads the file, then writes it back.
Load(p) == /\ up[p] = "down"
           /\ store' = [store EXCEPT ![p] = disk]
           /\ up' = [up EXCEPT ![p] = "loaded"]
           /\ UNCHANGED <<disk, run, child, cancel, acked, unknown>>

Open(p) == /\ up[p] = "loaded"
           /\ \E saved \in BOOLEAN :
                  /\ Writes(p, store[p], saved)
                  /\ up' = [up EXCEPT ![p] = IF ~saved THEN "down"
                                   ELSE IF p = Front THEN "opened" ELSE "up"]
           /\ UNCHANGED <<run, child, cancel, acked, unknown>>

Interrupted == [status |-> "interrupted", pid |-> 0]

\* Mutant: every record of a job that is not finished well is interrupted.
RecoverFailed == /\ up[Front] = "opened"
                 /\ Writes(Front,
                           [j \in Job |->
                               IF store[Front][j].status
                                      \in ActiveStatus \union {"failed"}
                               THEN Interrupted ELSE store[Front][j]], TRUE)
                 /\ up' = [up EXCEPT ![Front] = "up"]
                 /\ UNCHANGED <<run, child, cancel, acked, unknown>>

\* recover_interrupted_jobs, on the way to the listener; an error ends it.
Recover ==
    /\ up[Front] = "opened"
    /\ \E saved \in BOOLEAN :
           /\ Writes(Front,
                     [j \in Job |-> IF store[Front][j].status \in ActiveStatus
                                    THEN Interrupted ELSE store[Front][j]],
                     saved)
           /\ up' = [up EXCEPT ![Front] = IF saved THEN "up" ELSE "down"]
    /\ UNCHANGED <<run, child, cancel, acked, unknown>>

-----------------------------------------------------------------------------
(* run_blocking_inner. *)

Going(j, at) == [at |-> at, attempt |-> run[j].attempt, again |-> FALSE]
At(j, at) == run' = [run EXCEPT ![j] = Going(j, at)]

Create(j) == /\ run[j].at = "idle" /\ up[Owner[j]] = "up"
             /\ \E saved \in BOOLEAN :
                    /\ Updates(j, [status |-> "pending", pid |-> 0], saved)
                    /\ run' = [run EXCEPT ![j] =
                                   [at |-> IF saved THEN "spawn" ELSE "done",
                                    attempt |-> 1, again |-> FALSE]]
             /\ UNCHANGED <<up, child, cancel, acked, unknown>>

Spawn(j) == /\ run[j].at = "spawn"
            /\ child' = [child EXCEPT ![j] = "alive"]
            /\ At(j, "mark")
            /\ UNCHANGED <<up, store, disk, cancel, acked, unknown>>

SpawnFails(j) == /\ run[j].at = "spawn" /\ "spawn" \in Faults
                 /\ \E saved \in BOOLEAN :
                        Updates(j, [status |-> "failed", pid |-> 0], saved)
                 /\ At(j, "done")
                 /\ UNCHANGED <<up, child, cancel, acked, unknown>>

\* mark_running, whatever the status was.  On an error the agent runs on.
MarkRunning(j) ==
    /\ run[j].at = "mark"
    /\ \E saved \in BOOLEAN :
           /\ Updates(j, [status |-> "running", pid |-> run[j].attempt], saved)
           /\ At(j, IF saved THEN "wait" ELSE "done")
    /\ UNCHANGED <<up, child, cancel, acked, unknown>>

\* try_wait has the exit status.
Exits(j) == /\ run[j].at = "wait" /\ child[j] \notin Running
            /\ At(j, "join")
            /\ UNCHANGED <<up, store, disk, child, cancel, acked, unknown>>

\* job_timeout_seconds or startup_silence_timeout_seconds ran out: TERM, to
\* a child that may have exited since it was polled.
TimesOut(j, again) ==
    /\ run[j].at = "wait"
    /\ again => run[j].attempt < MaxAttempts
    /\ run' = [run EXCEPT ![j] = [at |-> "term", attempt |-> run[j].attempt,
                                  again |-> again]]
    /\ child' = [child EXCEPT ![j] = IF @ \in Running THEN "termed" ELSE @]
    /\ UNCHANGED <<up, store, disk, cancel, acked, unknown>>

\* After terminate_child, with what TimesOut was for.
Joining(j) == [at |-> "join", attempt |-> run[j].attempt,
               again |-> run[j].again]

\* Mutant: the TERM is all there is.
LeavesTermed(j) == /\ run[j].at = "term"
                   /\ run' = [run EXCEPT ![j] = Joining(j)]
                   /\ UNCHANGED <<up, store, disk, child, cancel, acked, unknown>>

\* Two seconds after the TERM: KILL what is left, and wait for it.
Reaps(j) == /\ run[j].at = "term"
            /\ \/ /\ child[j] \in Running
                  /\ child' = [child EXCEPT ![j] = "bad"]
               \/ /\ child[j] \in Running /\ "heirs" \in Faults
                  /\ child' = [child EXCEPT ![j] = "left"]
               \/ child[j] \notin Running /\ UNCHANGED child
            /\ run' = [run EXCEPT ![j] = Joining(j)]
            /\ UNCHANGED <<up, store, disk, cancel, acked, unknown>>

\* Where the run goes with an attempt that was ended.
AfterEnd(j) == IF run[j].again
              THEN [at |-> "spawn", attempt |-> run[j].attempt + 1,
                    again |-> FALSE]
              ELSE Going(j, "finish")

\* Mutant: the log threads are left to themselves.
JoinsNothing(j) == /\ run[j].at = "join"
                   /\ run' = [run EXCEPT ![j] = AfterEnd(j)]
                   /\ UNCHANGED <<up, store, disk, child, cancel, acked, unknown>>

\* The log threads read until every holder of the agent's output is gone.
Joins(j) == /\ run[j].at = "join" /\ child[j] \notin Alive
            /\ run' = [run EXCEPT ![j] = AfterEnd(j)]
            /\ UNCHANGED <<up, store, disk, child, cancel, acked, unknown>>

\* Mutant: a cancelled job is recorded by its exit code.
FinishByCode(j) ==
    /\ run[j].at = "finish"
    /\ \E saved \in BOOLEAN :
           Updates(j, [status |-> IF child[j] = "ok" THEN "succeeded"
                                                     ELSE "failed",
                       pid |-> 0], saved)
    /\ At(j, "done")
    /\ UNCHANGED <<up, child, cancel, acked, unknown>>

Finish(j) ==
    /\ run[j].at = "finish"
    /\ \E saved \in BOOLEAN :
           Updates(j, [status |-> IF RecordOf(j).status = "cancel-requested"
                                  THEN "cancelled"
                                  ELSE IF child[j] = "ok" THEN "succeeded"
                                                          ELSE "failed",
                       pid |-> 0], saved)
    /\ At(j, "done")
    /\ UNCHANGED <<up, child, cancel, acked, unknown>>

\* A "?" on a log note, a poll or a joined thread: the record stays.
RunErrs(j) == /\ "io" \in Faults
              /\ run[j].at \in {"spawn", "wait", "term", "join", "finish"}
              /\ At(j, "done")
              /\ UNCHANGED <<up, store, disk, child, cancel, acked, unknown>>

-----------------------------------------------------------------------------
(* The agent, the phone's /cancel, and death. *)

AgentExits(j, code) == /\ child[j] \in Running
                       /\ code = "left" => "heirs" \in Faults
                       /\ child' = [child EXCEPT ![j] = code]
                       /\ UNCHANGED <<up, store, disk, run, cancel, acked,
                                      unknown>>

\* The exit code of one that left heirs is fixed here.
HeirsExit(j) == /\ child[j] = "left"
                /\ \E code \in {"ok", "bad"} :
                       child' = [child EXCEPT ![j] = code]
                /\ UNCHANGED <<up, store, disk, run, cancel, acked, unknown>>

\* request_cancel.  The file is written also when the job is not found.
RequestCancel(j) ==
    /\ up[Front] = "up" /\ cancel = NoCancel /\ run[j].at # "idle"
    /\ LET mine == store[Front][j]
       IN  \E saved \in BOOLEAN :
           /\ IF mine.status \in ActiveStatus
              THEN Writes(Front, [store[Front] EXCEPT ![j] =
                              [status |-> "cancel-requested",
                               pid |-> mine.pid]], saved)
              ELSE Writes(Front, store[Front], saved)
           /\ cancel' = IF /\ mine.status \in ActiveStatus
                           /\ mine.pid # 0 /\ saved
                        THEN [job |-> j, pid |-> mine.pid] ELSE NoCancel
           /\ unknown' = IF mine = NoRecord /\ saved /\ run[j].at = "wait"
                         THEN unknown \union {j} ELSE unknown
    /\ UNCHANGED <<up, run, child, acked>>

\* kill -TERM to the process group of that pid.  It reaches the attempt's
\* child; of one that exited, what is left of its group or, on some systems,
\* the child itself until it is waited for.
SignalCancel ==
    LET j == cancel.job
        there == cancel # NoCancel /\ run[j].attempt = cancel.pid
    IN  /\ cancel # NoCancel
        /\ \/ /\ there /\ child[j] \in Running
              /\ child' = [child EXCEPT ![j] = "termed"]
              /\ acked' = [acked EXCEPT ![j] = cancel.pid]
           \/ /\ there /\ child[j] \notin Running
              /\ child[j] = "left" \/ run[j].at \in {"wait", "term"}
              /\ acked' = [acked EXCEPT ![j] = cancel.pid]
              /\ UNCHANGED child
           \/ /\ ~(there /\ child[j] \in Running)
              /\ UNCHANGED <<child, acked>>
        /\ cancel' = NoCancel
        /\ UNCHANGED <<up, store, disk, run, unknown>>

\* The process dies or is stopped: its threads and memory go.
Kill(p) ==
    /\ "kill" \in Faults /\ up[p] # "down"
    /\ up' = [up EXCEPT ![p] = "down"]
    /\ store' = [store EXCEPT ![p] = [j \in Job |-> NoRecord]]
    /\ run' = [j \in Job |->
                  IF Owner[j] = p /\ run[j].at \notin {"idle", "done"}
                  THEN Going(j, "lost") ELSE run[j]]
    /\ cancel' = IF p = Front THEN NoCancel ELSE cancel
    /\ UNCHANGED <<disk, child, acked, unknown>>

RunStep(j) == \/ Spawn(j) \/ SpawnFails(j) \/ MarkRunning(j) \/ Exits(j)
              \/ \E again \in BOOLEAN : TimesOut(j, again)
              \/ Reaps(j) \/ Joins(j) \/ Finish(j)

Next == \/ \E p \in Process : Load(p) \/ Open(p) \/ Kill(p)
        \/ Recover \/ SignalCancel
        \/ \E j \in Job : \/ Create(j) \/ RunStep(j) \/ RunErrs(j)
                          \/ RequestCancel(j) \/ HeirsExit(j)
                          \/ \E code \in {"ok", "bad", "left"} :
                                 AgentExits(j, code)

Spec == Init /\ [][Next]_vars

\* A run's thread goes on, and its timeout strikes (job_timeout_seconds is
\* not 0); neither the agent nor its heirs need ever exit.
FairSpec == Spec /\ \A j \in Job : WF_vars(RunStep(j))

-----------------------------------------------------------------------------
(* Properties. *)

TypeOK == /\ up \in [Process -> {"down", "loaded", "opened", "up"}]
          /\ store \in [Process -> [Job -> Record]]
          /\ disk \in [Job -> Record]
          /\ run \in [Job -> Run]
          /\ child \in [Job -> Child]
          /\ cancel \in [job: Job \union {NoJob}, pid: 0..MaxAttempts]
          /\ acked \in [Job -> 0..MaxAttempts]
          /\ unknown \subseteq Job

\* The next attempt of a job is not launched while the process of an earlier
\* one, or an heir that has its output, is alive: two agents never work on a
\* job at a time.
OneAgentPerJob == \A j \in Job : run[j].at = "spawn" => child[j] \notin Alive

\* A record that says how the agent ended is written when it has ended
\* ("interrupted" says nothing of the agent), also in the file.
FinishedMeansGone ==
    \A j \in Job :
        /\ RecordOf(j).status \in {"succeeded", "failed", "cancelled"}
           \/ disk[j].status \in {"succeeded", "failed", "cancelled"}
        => child[j] \notin Alive

\* Once the phone was told "cancel requested", that attempt is not recorded
\* as anything but cancelled or interrupted (only a relaunch after startup
\* silence forgets the request).
CancelSticks ==
    \A j \in Job :
        acked[j] # 0 /\ acked[j] = run[j].attempt =>
            disk[j].status \in {"cancel-requested", "cancelled", "interrupted"}

\* jobs.json never loses a record or changes how a job ended, as long as one
\* process owns it.
RecordsKept ==
    [][\A j \in Job :
           /\ disk[j] # NoRecord => disk'[j] # NoRecord
           /\ disk[j].status \in TerminalStatus => disk'[j] = disk[j]]_vars

\* Every run ends, though the agent hangs (wait_for_child, terminate_child),
\* or its heirs keep it from ending.
RunsEnd == \A j \in Job :
               run[j].at # "idle" ~> \/ run[j].at \in {"done", "lost"}
                                    \/ child[j] = "left"

\* What docs/configuration.md promises of job_timeout_seconds: it "keeps
\* phone-triggered jobs from staying `running` forever if a launcher or agent
\* process wedges before returning output".
NoneRunsForever ==
    \A j \in Job : run[j].at # "idle" ~> run[j].at \in {"done", "lost"}

\* The phone can stop a job that was announced to it: /cancel finds it
\* (README: "so a phone user can inspect or stop the job").
CancelFindsJob == unknown = {}

-----------------------------------------------------------------------------
(* The inductive invariants behind the safety properties. *)

Ended == {"succeeded", "failed", "cancelled"}

Reported(j) == \/ disk[j].status \in Ended
               \/ \E p \in Process : store[p][j].status \in Ended
Over(j) == run[j].at \in {"done", "lost"} /\ child[j] \notin Alive

\* A copy of a job's record, in a process or in the file, says that the agent
\* ended only when the run is over and the agent has ended.
EndedIsOver ==
    \A j \in Job :
        /\ run[j].at \in {"idle", "spawn", "finish"} => child[j] \notin Alive
        /\ Reported(j) => Over(j)

IInv == TypeOK /\ EndedIsOver

UnderWay == {"spawn", "mark", "wait", "term", "join", "finish"}

\* One process: its memory is never behind the file, and what is going on is
\* not recorded as over.
MemoryLeads(j) ==
    LET mine == store[Front][j]
    IN  /\ run[j].at \in UnderWay =>
               up[Front] = "up" /\ mine.status \in ActiveStatus
        /\ run[j].at = "idle" => mine = NoRecord /\ disk[j] = NoRecord
        /\ up[Front] # "down" =>
               /\ disk[j] # NoRecord => mine # NoRecord
               /\ disk[j].status \in TerminalStatus => mine = disk[j]

\* One process: a pid, on record, in a cancel under way or acknowledged, is
\* that of an attempt already launched.
PidsPast(j) ==
    /\ run[j].at = "idle" => run[j].attempt = 0
    /\ store[Front][j].pid <= run[j].attempt
    /\ disk[j].pid <= run[j].attempt
    /\ acked[j] <= run[j].attempt
    /\ cancel.job = j => cancel.pid \in 1..run[j].attempt
    /\ run[j].at \in {"spawn", "mark"} =>
           store[Front][j].pid < run[j].attempt

Sticky == {"cancel-requested", "cancelled", "interrupted"}

\* The present attempt is being cancelled, or was.
CancelledNow(j) == \/ cancel.job = j /\ cancel.pid = run[j].attempt
                   \/ acked[j] # 0 /\ acked[j] = run[j].attempt

\* One process: such a cancel is in the file and, while the process lives, in
\* its memory.
CancelRecorded(j) ==
    CancelledNow(j) =>
       /\ run[j].at \notin {"idle", "spawn", "mark"}
       /\ disk[j].status \in Sticky
       /\ up[Front] # "down" => store[Front][j].status \in Sticky

SoleInv == \A j \in Job : MemoryLeads(j) /\ PidsPast(j) /\ CancelRecorded(j)

\* The records when one process both listens and runs the jobs.
SoleOwner == Process = {Front} => IInv /\ SoleInv
=============================================================================
