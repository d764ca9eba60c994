--------------------------- MODULE AgentRunsProofs ---------------------------
(***************************************************************************)
(* Proofs about agent runs and their records, for any jobs, processes and  *)
(* number of launch attempts.                                              *)
(***************************************************************************)
EXTENDS AgentRuns, TLAPS

\* What with_jobs leaves in memory and in the file.
LEMMA Written ==
    ASSUME TypeOK, NEW p \in Process, NEW records \in [Job -> Record],
           NEW saved \in BOOLEAN, Writes(p, records, saved)
    PROVE  /\ store' \in [Process -> [Job -> Record]]
           /\ store'[p] = records
           /\ \A q \in Process \ {p} : store'[q] = store[q]
           /\ disk' \in [Job -> Record]
           /\ disk' = records \/ disk' = disk
           /\ saved => disk' = records
  BY DEF TypeOK, Writes

LEMMA Updated ==
    ASSUME TypeOK, NEW j \in Job, NEW record \in Record,
           NEW saved \in BOOLEAN, Updates(j, record, saved)
    PROVE  /\ store' \in [Process -> [Job -> Record]]
           /\ disk' \in [Job -> Record]
           /\ \A p \in Process, i \in Job :
                  store'[p][i] = IF p = Owner[j] /\ i = j THEN record
                                                          ELSE store[p][i]
           /\ disk'[j] \in {record, disk[j]}
           /\ saved => disk'[j] = record
           /\ \A i \in Job \ {j} : disk'[i] \in {store[Owner[j]][i], disk[i]}
<1>. DEFINE recs == [store[Owner[j]] EXCEPT ![j] = record]
<1>1. Owner[j] \in Process
  BY RunsAssumption DEF RunsAssumption
<1>2. /\ recs \in [Job -> Record] /\ recs[j] = record
      /\ \A i \in Job \ {j} : recs[i] = store[Owner[j]][i]
  BY <1>1 DEF TypeOK
<1>3. Writes(Owner[j], recs, saved)
  BY DEF Updates
<1>. HIDE DEF recs
<1>. QED  BY <1>1, <1>2, <1>3, Written

\* A run that moves, and nothing else about runs.
LEMMA Moved ==
    ASSUME TypeOK, NEW j \in Job, NEW r \in Run, run' = [run EXCEPT ![j] = r]
    PROVE  /\ run' \in [Job -> Run] /\ run'[j] = r
           /\ \A i \in Job \ {j} : run'[i] = run[i]
  BY DEF TypeOK

LEMMA GoingIsRun ==
    ASSUME TypeOK, NEW j \in Job,
           NEW at \in {"idle", "spawn", "mark", "wait", "term", "join",
                       "finish", "done", "lost"}
    PROVE  /\ Going(j, at) \in Run /\ Going(j, at).at = at
           /\ Going(j, at).attempt = run[j].attempt
  BY DEF TypeOK, Going, Run

\* The shape of every step: no new report of a job that is not over, and what
\* is over stays over.
LEMMA Preserves ==
    ASSUME IInv, TypeOK',
           \A j \in Job :
               /\ (run[j].at \in {"idle", "spawn", "finish"} => child[j] \notin Alive)'
               /\ Reported(j)' => Reported(j) \/ Over(j)'
               /\ Over(j) => Over(j)'
    PROVE  IInv'
  BY DEF IInv, EndedIsOver

\* Runs and agents stay as they are: reports need only not appear.
LEMMA RecordsOnly ==
    ASSUME IInv, TypeOK', UNCHANGED <<run, child>>,
           \A j \in Job : Reported(j)' => Reported(j)
    PROVE  IInv'
<1>1. \A j \in Job : /\ (run[j].at \in {"idle", "spawn", "finish"}
                            => child[j] \notin Alive)'
                     /\ Over(j) => Over(j)'
  BY DEF IInv, EndedIsOver, Over
<1>. QED  BY <1>1, Preserves

\* Records stay as they are.
LEMMA RunsOnly ==
    ASSUME IInv, TypeOK', UNCHANGED <<store, disk>>,
           \A j \in Job :
               /\ (run[j].at \in {"idle", "spawn", "finish"} => child[j] \notin Alive)'
               /\ Over(j) => Over(j)'
    PROVE  IInv'
<1>1. \A j \in Job : Reported(j)' => Reported(j)
  BY DEF Reported
<1>. QED  BY <1>1, Preserves

-----------------------------------------------------------------------------
LEMMA InitIInv == Init => IInv
<1>. SUFFICES ASSUME Init PROVE IInv
  OBVIOUS
<1>1. NoRecord \in Record /\ NoRecord.status = "none"
  BY RunsAssumption DEF NoRecord, Record, RunsAssumption
<1>2. TypeOK
  <2>1. run \in [Job -> Run]
    BY RunsAssumption DEF Init, Run, RunsAssumption
  <2>2. cancel \in [job: Job \union {NoJob}, pid: 0..MaxAttempts]
    BY RunsAssumption DEF Init, NoCancel, RunsAssumption
  <2>3. acked \in [Job -> 0..MaxAttempts]
    BY RunsAssumption DEF Init, RunsAssumption
  <2>. QED  BY <1>1, <2>1, <2>2, <2>3 DEF Init, TypeOK, Child
<1>3. EndedIsOver
  <2>1. \A j \in Job : child[j] \notin Alive
    BY DEF Init, Alive, Running
  <2>2. \A j \in Job : ~Reported(j)
    BY <1>1 DEF Init, Reported, Ended
  <2>. QED  BY <2>1, <2>2 DEF EndedIsOver
<1>. QED  BY <1>2, <1>3 DEF IInv

\* JobStore::open and recovery only copy records or mark them interrupted.
LEMMA StartIInv ==
    ASSUME IInv, NEW p \in Process, Load(p) \/ Open(p) \/ Recover
    PROVE  IInv'
<1>0. RunsAssumption /\ TypeOK /\ UNCHANGED <<run, child, cancel, acked, unknown>>
  BY RunsAssumption DEF IInv, Load, Open, Recover
<1>1. CASE Load(p)
  <2>1. /\ store' \in [Process -> [Job -> Record]] /\ store'[p] = disk
        /\ \A q \in Process \ {p} : store'[q] = store[q]
        /\ disk' = disk
    BY <1>0, <1>1 DEF Load, TypeOK
  <2>2. TypeOK'
    BY <1>0, <1>1, <2>1 DEF Load, TypeOK
  <2>3. \A j \in Job : Reported(j)' => Reported(j)
    BY <2>1 DEF Reported
  <2>. QED  BY <1>0, <2>2, <2>3, RecordsOnly
<1>2. CASE Open(p)
  <2>1. PICK saved \in BOOLEAN : Writes(p, store[p], saved)
    BY <1>2 DEF Open
  <2>2. store[p] \in [Job -> Record]
    BY <1>0 DEF TypeOK
  <2>3. /\ store' \in [Process -> [Job -> Record]] /\ store'[p] = store[p]
        /\ \A q \in Process \ {p} : store'[q] = store[q]
        /\ disk' \in [Job -> Record]
        /\ disk' = store[p] \/ disk' = disk
    BY <1>0, <2>1, <2>2, Written
  <2>4. TypeOK'
    BY <1>0, <1>2, <2>3 DEF Open, TypeOK
  <2>5. \A j \in Job : Reported(j)' => Reported(j)
    BY <2>3 DEF Reported
  <2>. QED  BY <1>0, <2>4, <2>5, RecordsOnly
<1>3. CASE Recover
  <2>. DEFINE recs == [j \in Job |-> IF store[Front][j].status \in ActiveStatus
                                     THEN Interrupted ELSE store[Front][j]]
  <2>0. Front \in Process /\ Interrupted \in Record
        /\ Interrupted.status = "interrupted"
    BY <1>0 DEF RunsAssumption, Interrupted, Record, TerminalStatus
  <2>1. PICK saved \in BOOLEAN : Writes(Front, recs, saved)
    BY <1>3 DEF Recover
  <2>2. recs \in [Job -> Record]
    BY <1>0, <2>0 DEF TypeOK
  <2>3. \A j \in Job : recs[j].status \in Ended
                           => recs[j] = store[Front][j]
    BY <2>0 DEF Ended
  <2>. HIDE DEF recs
  <2>4. /\ store' \in [Process -> [Job -> Record]] /\ store'[Front] = recs
        /\ \A q \in Process \ {Front} : store'[q] = store[q]
        /\ disk' \in [Job -> Record]
        /\ disk' = recs \/ disk' = disk
    BY <1>0, <2>0, <2>1, <2>2, Written
  <2>5. TypeOK'
    BY <1>0, <1>3, <2>4 DEF Recover, TypeOK
  <2>6. \A j \in Job : Reported(j)' => Reported(j)
    BY <2>0, <2>3, <2>4 DEF Reported
  <2>. QED  BY <1>0, <2>5, <2>6, RecordsOnly
<1>. QED  BY <1>1, <1>2, <1>3

-----------------------------------------------------------------------------
(* run_blocking_inner. *)

\* A record that does not say how the agent ended reports nothing new, and
\* one that does reports its own job only.
LEMMA UpdateReports ==
    ASSUME TypeOK, NEW j \in Job, NEW record \in Record,
           NEW saved \in BOOLEAN, Updates(j, record, saved)
    PROVE  \A i \in Job : Reported(i)' =>
               Reported(i) \/ (i = j /\ record.status \in Ended)
<1>1. /\ \A p \in Process, i \in Job :
             store'[p][i] = IF p = Owner[j] /\ i = j THEN record
                                                     ELSE store[p][i]
      /\ disk'[j] \in {record, disk[j]}
      /\ \A i \in Job \ {j} : disk'[i] \in {store[Owner[j]][i], disk[i]}
  BY Updated
<1>2. Owner[j] \in Process
  BY RunsAssumption DEF RunsAssumption
<1>3. ASSUME NEW i \in Job, i # j, Reported(i)' PROVE Reported(i)
  <2>1. /\ \A p \in Process : store'[p][i] = store[p][i]
        /\ disk'[i] \in {store[Owner[j]][i], disk[i]}
    BY <1>1, <1>3
  <2>. QED  BY <2>1, <1>2, <1>3 DEF Reported
<1>4. Reported(j)' => Reported(j) \/ record.status \in Ended
  <2>1. /\ \A p \in Process : store'[p][j] \in {record, store[p][j]}
        /\ disk'[j] \in {record, disk[j]}
    BY <1>1
  <2>. QED  BY <2>1 DEF Reported
<1>. QED  BY <1>3, <1>4

\* A run step that writes a record and leaves the agents alone.
LEMMA UpdateStep ==
    ASSUME IInv, NEW j \in Job, NEW record \in Record,
           NEW saved \in BOOLEAN, Updates(j, record, saved),
           NEW r \in Run, run' = [run EXCEPT ![j] = r],
           UNCHANGED <<up, child, cancel, acked, unknown>>,
           ~Over(j), r.at \notin {"idle", "finish"},
           r.at = "spawn" => child[j] \notin Alive,
           record.status \in Ended => r.at = "done" /\ child[j] \notin Alive
    PROVE  IInv'
<1>1. TypeOK
  BY DEF IInv
<1>2. /\ run' \in [Job -> Run] /\ run'[j] = r
      /\ \A i \in Job \ {j} : run'[i] = run[i]
  BY <1>1, Moved
<1>3. store' \in [Process -> [Job -> Record]] /\ disk' \in [Job -> Record]
  BY <1>1, Updated
<1>4. TypeOK'
  BY <1>1, <1>2, <1>3 DEF TypeOK
<1>5. ASSUME NEW i \in Job
      PROVE  /\ (run[i].at \in {"idle", "spawn", "finish"} => child[i] \notin Alive)'
             /\ Reported(i)' => Reported(i) \/ Over(i)'
             /\ Over(i) => Over(i)'
  <2>1. Reported(i)' => Reported(i) \/ (i = j /\ record.status \in Ended)
    BY <1>1, UpdateReports
  <2>2. CASE i = j
    BY <1>2, <2>1, <2>2 DEF Over
  <2>3. CASE i # j
    BY <1>2, <2>1, <2>3 DEF Over, IInv, EndedIsOver
  <2>. QED  BY <2>2, <2>3
<1>. QED  BY <1>4, <1>5, Preserves

\* A run step that writes no record.
LEMMA MoveStep ==
    ASSUME IInv, NEW j \in Job, NEW r \in Run, run' = [run EXCEPT ![j] = r],
           NEW c \in Child, child' = [child EXCEPT ![j] = c],
           UNCHANGED <<up, store, disk, cancel, acked, unknown>>,
           ~Over(j), r.at \in {"idle", "spawn", "finish"} => c \notin Alive
    PROVE  IInv'
<1>1. TypeOK
  BY DEF IInv
<1>2. /\ run' \in [Job -> Run] /\ run'[j] = r
      /\ \A i \in Job \ {j} : run'[i] = run[i]
  BY <1>1, Moved
<1>3. /\ child' \in [Job -> Child] /\ child'[j] = c
      /\ \A i \in Job \ {j} : child'[i] = child[i]
  BY <1>1 DEF TypeOK
<1>4. TypeOK'
  BY <1>1, <1>2, <1>3 DEF TypeOK
<1>5. ASSUME NEW i \in Job
      PROVE  /\ (run[i].at \in {"idle", "spawn", "finish"} => child[i] \notin Alive)'
             /\ Over(i) => Over(i)'
  <2>1. CASE i = j
    BY <1>2, <1>3, <2>1
  <2>2. CASE i # j
    BY <1>2, <1>3, <2>2 DEF Over, IInv, EndedIsOver
  <2>. QED  BY <2>1, <2>2
<1>. QED  BY <1>4, <1>5, RunsOnly

LEMMA RunRecords ==
    ASSUME NEW at \in {"idle", "spawn", "mark", "wait", "term", "join",
                       "finish", "done", "lost"},
           NEW n \in 0..MaxAttempts
    PROVE  LET r == [at |-> at, attempt |-> n, again |-> FALSE]
           IN  r \in Run /\ r.at = at
  BY DEF Run

LEMMA Records ==
    ASSUME NEW s \in ActiveStatus \union TerminalStatus,
           NEW n \in 0..MaxAttempts
    PROVE  LET r == [status |-> s, pid |-> n]
           IN  r \in Record /\ r.status = s
  BY DEF Record

LEMMA CreateIInv ==
    ASSUME IInv, NEW j \in Job, Create(j)
    PROVE  IInv'
<1>. DEFINE rec == [status |-> "pending", pid |-> 0]
            r(at) == [at |-> at, attempt |-> 1, again |-> FALSE]
<1>1. PICK saved \in BOOLEAN :
          /\ Updates(j, rec, saved)
          /\ run' = [run EXCEPT ![j] = [at |-> IF saved THEN "spawn" ELSE "done",
                                       attempt |-> 1, again |-> FALSE]]
  BY Zenon DEF Create
<1>2. PICK at \in {"spawn", "done"} : run' = [run EXCEPT ![j] = r(at)]
  BY <1>1
<1>3. rec \in Record /\ rec.status = "pending"
  BY RunsAssumption DEF Record, ActiveStatus, RunsAssumption
<1>4. r(at) \in Run /\ r(at).at \in {"spawn", "done"}
  BY RunsAssumption DEF Run, RunsAssumption
<1>5. child[j] \notin Alive /\ ~Over(j)
  BY DEF Create, IInv, EndedIsOver, Over
<1>6. UNCHANGED <<up, child, cancel, acked, unknown>>
  BY DEF Create
<1>7. /\ rec.status \notin Ended
      /\ Updates(j, rec, saved) /\ run' = [run EXCEPT ![j] = r(at)]
  BY <1>1, <1>2, <1>3 DEF Ended
<1>. HIDE DEF rec, r
<1>. QED  BY <1>3, <1>4, <1>5, <1>6, <1>7, UpdateStep

LEMMA SpawnIInv ==
    ASSUME IInv, NEW j \in Job, Spawn(j) \/ Exits(j)
    PROVE  IInv'
<1>0. TypeOK
  BY DEF IInv
<1>1. CASE Spawn(j)
  <2>1. Going(j, "mark") \in Run /\ Going(j, "mark").at = "mark"
    BY <1>0, GoingIsRun
  <2>. QED  BY <1>1, <2>1, MoveStep
            DEF Spawn, At, Over, Child, Alive, Running
<1>2. CASE Exits(j)
  <2>1. Going(j, "join") \in Run /\ Going(j, "join").at = "join"
    BY <1>0, GoingIsRun
  <2>2. child' = [child EXCEPT ![j] = child[j]] /\ child[j] \in Child
    BY <1>0, <1>2 DEF Exits, TypeOK
  <2>. QED  BY <1>2, <2>1, <2>2, MoveStep DEF Exits, At, Over
<1>. QED  BY <1>1, <1>2

LEMMA SpawnFailsIInv ==
    ASSUME IInv, NEW j \in Job, SpawnFails(j)
    PROVE  IInv'
<1>. DEFINE rec == [status |-> "failed", pid |-> 0]
<1>1. PICK saved \in BOOLEAN : Updates(j, rec, saved)
  BY DEF SpawnFails
<1>2. rec \in Record /\ rec.status = "failed"
  BY RunsAssumption DEF Record, TerminalStatus, RunsAssumption
<1>3. Going(j, "done") \in Run /\ Going(j, "done").at = "done"
  BY GoingIsRun DEF IInv
<1>4. child[j] \notin Alive /\ ~Over(j)
  BY DEF SpawnFails, IInv, EndedIsOver, Over
<1>. HIDE DEF rec
<1>. QED  BY <1>1, <1>2, <1>3, <1>4, UpdateStep DEF SpawnFails, At

LEMMA MarkRunningIInv ==
    ASSUME IInv, NEW j \in Job, MarkRunning(j)
    PROVE  IInv'
<1>. DEFINE rec == [status |-> "running", pid |-> run[j].attempt]
            at(saved) == IF saved THEN "wait" ELSE "done"
<1>1. PICK saved \in BOOLEAN : /\ Updates(j, rec, saved)
                               /\ At(j, at(saved))
  BY DEF MarkRunning
<1>2. rec \in Record /\ rec.status = "running"
  BY DEF IInv, TypeOK, Run, Record, ActiveStatus
<1>3. /\ Going(j, at(saved)) \in Run
      /\ Going(j, at(saved)).at \in {"wait", "done"}
  BY GoingIsRun DEF IInv
<1>4. ~Over(j)
  BY DEF MarkRunning, Over
<1>. HIDE DEF rec, at
<1>. QED  BY <1>1, <1>2, <1>3, <1>4, UpdateStep DEF MarkRunning, At, Ended

LEMMA JoiningIsRun ==
    ASSUME TypeOK, NEW j \in Job
    PROVE  /\ Joining(j) \in Run /\ Joining(j).at = "join"
           /\ Joining(j).attempt = run[j].attempt
  BY DEF TypeOK, Joining, Run

\* The next attempt, or the end of the run.
LEMMA AfterEndIsRun ==
    ASSUME TypeOK, NEW j \in Job
    PROVE  /\ AfterEnd(j) \in Run
           /\ \/ /\ AfterEnd(j).at = "spawn"
                 /\ AfterEnd(j).attempt = run[j].attempt + 1
              \/ /\ AfterEnd(j).at = "finish"
                 /\ AfterEnd(j).attempt = run[j].attempt
<1>1. /\ run[j].attempt \in 0..MaxAttempts
      /\ run[j].again => run[j].attempt < MaxAttempts
  BY DEF TypeOK, Run
<1>2. CASE run[j].again
  <2>. DEFINE r == [at |-> "spawn", attempt |-> run[j].attempt + 1,
                    again |-> FALSE]
  <2>1. run[j].attempt + 1 \in 0..MaxAttempts
    BY <1>1, <1>2, RunsAssumption DEF RunsAssumption
  <2>2. r \in Run /\ r.at = "spawn" /\ r.attempt = run[j].attempt + 1
    BY <2>1 DEF Run
  <2>3. AfterEnd(j) = r
    BY <1>2 DEF AfterEnd
  <2>. QED  BY <2>2, <2>3
<1>3. CASE ~run[j].again
  <2>1. AfterEnd(j) = Going(j, "finish")
    BY <1>3 DEF AfterEnd
  <2>. QED  BY <2>1, GoingIsRun
<1>. QED  BY <1>2, <1>3

LEMMA EndAttemptIInv ==
    ASSUME IInv, NEW j \in Job,
           \/ \E again \in BOOLEAN : TimesOut(j, again)
           \/ Reaps(j) \/ Joins(j)
    PROVE  IInv'
<1>0. TypeOK
  BY DEF IInv
<1>1. ASSUME NEW again \in BOOLEAN, TimesOut(j, again)
      PROVE  IInv'
  <2>. DEFINE r == [at |-> "term", attempt |-> run[j].attempt,
                    again |-> again]
              c == IF child[j] \in Running THEN "termed" ELSE child[j]
  <2>1. r \in Run /\ r.at = "term"
    BY <1>0, <1>1 DEF TimesOut, TypeOK, Run
  <2>2. c \in Child /\ child' = [child EXCEPT ![j] = c]
    BY <1>0, <1>1 DEF TimesOut, TypeOK, Child, Alive, Running
  <2>3. ~Over(j) /\ run' = [run EXCEPT ![j] = r]
        /\ UNCHANGED <<up, store, disk, cancel, acked, unknown>>
    BY <1>1 DEF TimesOut, Over
  <2>. HIDE DEF r, c
  <2>. QED  BY <2>1, <2>2, <2>3, MoveStep
<1>2. CASE Reaps(j)
  <2>1. Joining(j) \in Run /\ Joining(j).at = "join"
    BY <1>0, JoiningIsRun
  <2>2. PICK c \in Child : child' = [child EXCEPT ![j] = c]
    BY <1>0, <1>2 DEF Reaps, TypeOK, Child, Alive
  <2>3. ~Over(j) /\ run' = [run EXCEPT ![j] = Joining(j)]
        /\ UNCHANGED <<up, store, disk, cancel, acked, unknown>>
    BY <1>2 DEF Reaps, Over
  <2>. QED  BY <2>1, <2>2, <2>3, MoveStep
<1>3. CASE Joins(j)
  <2>1. child' = [child EXCEPT ![j] = child[j]] /\ child[j] \in Child
        /\ child[j] \notin Alive
    BY <1>0, <1>3 DEF Joins, TypeOK
  <2>2. ~Over(j) /\ run' = [run EXCEPT ![j] = AfterEnd(j)]
        /\ UNCHANGED <<up, store, disk, cancel, acked, unknown>>
    BY <1>3 DEF Joins, Over
  <2>. QED  BY <1>0, <2>1, <2>2, AfterEndIsRun, MoveStep
<1>. QED  BY <1>1, <1>2, <1>3

LEMMA FinishIInv ==
    ASSUME IInv, NEW j \in Job, Finish(j)
    PROVE  IInv'
<1>. DEFINE s == IF RecordOf(j).status = "cancel-requested" THEN "cancelled"
                 ELSE IF child[j] = "ok" THEN "succeeded" ELSE "failed"
            rec == [status |-> s, pid |-> 0]
<1>1. PICK saved \in BOOLEAN : Updates(j, rec, saved)
  BY DEF Finish
<1>2. rec \in Record
  BY RunsAssumption DEF Record, TerminalStatus, RunsAssumption
<1>3. Going(j, "done") \in Run /\ Going(j, "done").at = "done"
  BY GoingIsRun DEF IInv
<1>4. child[j] \notin Alive /\ ~Over(j)
  BY DEF Finish, IInv, EndedIsOver, Over
<1>. HIDE DEF rec
<1>. QED  BY <1>1, <1>2, <1>3, <1>4, UpdateStep DEF Finish, At

LEMMA RunErrsIInv ==
    ASSUME IInv, NEW j \in Job, RunErrs(j)
    PROVE  IInv'
<1>1. Going(j, "done") \in Run /\ Going(j, "done").at = "done"
  BY GoingIsRun DEF IInv
<1>2. child' = [child EXCEPT ![j] = child[j]] /\ child[j] \in Child
  BY DEF RunErrs, IInv, TypeOK
<1>3. ~Over(j)
  BY DEF RunErrs, Over
<1>. QED  BY <1>1, <1>2, <1>3, MoveStep DEF RunErrs, At

-----------------------------------------------------------------------------
(* The agent, cancelling and death. *)

\* An agent or heirs that change keep what is over over.
LEMMA AgentStep ==
    ASSUME IInv, NEW j \in Job, NEW c \in Child, child[j] \in Alive,
           child' = [child EXCEPT ![j] = c],
           UNCHANGED <<up, store, disk, run, unknown>>,
           cancel' \in [job: Job \union {NoJob}, pid: 0..MaxAttempts],
           acked' \in [Job -> 0..MaxAttempts]
    PROVE  IInv'
<1>1. /\ child' \in [Job -> Child]
      /\ \A i \in Job \ {j} : child'[i] = child[i]
  BY DEF IInv, TypeOK
<1>2. TypeOK'
  BY <1>1 DEF IInv, TypeOK
<1>3. ASSUME NEW i \in Job
      PROVE  /\ (run[i].at \in {"idle", "spawn", "finish"} => child[i] \notin Alive)'
             /\ Over(i) => Over(i)'
  <2>1. CASE i = j
    BY <2>1 DEF IInv, EndedIsOver, Over
  <2>2. CASE i # j
    BY <1>1, <2>2 DEF IInv, EndedIsOver, Over
  <2>. QED  BY <2>1, <2>2
<1>. QED  BY <1>2, <1>3, RunsOnly

LEMMA AgentExitsIInv ==
    ASSUME IInv, NEW j \in Job, NEW code \in {"ok", "bad", "left"},
           AgentExits(j, code)
    PROVE  IInv'
<1>1. code \in Child
  BY DEF Child, Alive
<1>. QED  BY <1>1, AgentStep DEF AgentExits, IInv, TypeOK, Alive

LEMMA HeirsExitIInv ==
    ASSUME IInv, NEW j \in Job, HeirsExit(j)
    PROVE  IInv'
<1>1. PICK code \in {"ok", "bad"} : child' = [child EXCEPT ![j] = code]
  BY DEF HeirsExit
<1>2. code \in Child
  BY DEF Child
<1>3. child[j] \in Alive
  BY DEF HeirsExit, Alive
<1>. QED  BY <1>1, <1>2, <1>3, AgentStep DEF HeirsExit, IInv, TypeOK

\* request_cancel never makes a record say that the agent ended.
LEMMA RequestCancelIInv ==
    ASSUME IInv, NEW j \in Job, RequestCancel(j)
    PROVE  IInv'
<1>. DEFINE mine == store[Front][j]
            rec == [status |-> "cancel-requested", pid |-> mine.pid]
            recs == IF mine.status \in ActiveStatus
                    THEN [store[Front] EXCEPT ![j] = rec] ELSE store[Front]
<1>0. TypeOK /\ Front \in Process
  BY RunsAssumption DEF IInv, RunsAssumption
<1>1. mine \in Record /\ store[Front] \in [Job -> Record]
  BY <1>0 DEF TypeOK
<1>2. rec \in Record /\ rec.status \notin Ended
  BY <1>1 DEF Record, ActiveStatus, Ended
<1>3. /\ recs \in [Job -> Record]
      /\ \A i \in Job : recs[i].status \in Ended => recs[i] = store[Front][i]
  BY <1>1, <1>2
<1>4. PICK saved \in BOOLEAN :
          /\ Writes(Front, recs, saved)
          /\ cancel' \in {[job |-> j, pid |-> mine.pid], NoCancel}
  BY DEF RequestCancel
<1>5. unknown' \subseteq Job /\ UNCHANGED <<up, run, child, acked>>
  BY <1>0 DEF RequestCancel, TypeOK
<1>6. cancel' \in [job: Job \union {NoJob}, pid: 0..MaxAttempts]
  <2>1. mine.pid \in 0..MaxAttempts
    BY <1>1 DEF Record
  <2>. QED  BY <1>4, <2>1, RunsAssumption DEF NoCancel, RunsAssumption
<1>. HIDE DEF recs
<1>7. /\ store' \in [Process -> [Job -> Record]] /\ store'[Front] = recs
      /\ \A q \in Process \ {Front} : store'[q] = store[q]
      /\ disk' \in [Job -> Record]
      /\ disk' = recs \/ disk' = disk
  BY <1>0, <1>3, <1>4, Written
<1>8. TypeOK'
  BY <1>0, <1>5, <1>6, <1>7 DEF TypeOK
<1>9. \A i \in Job : Reported(i)' => Reported(i)
  BY <1>0, <1>3, <1>7 DEF Reported
<1>. QED  BY <1>5, <1>8, <1>9, RecordsOnly

LEMMA SignalCancelIInv ==
    ASSUME IInv, SignalCancel
    PROVE  IInv'
<1>. DEFINE j == cancel.job
<1>0. TypeOK
  BY DEF IInv
<1>1. /\ cancel' = NoCancel
      /\ cancel' \in [job: Job \union {NoJob}, pid: 0..MaxAttempts]
  BY RunsAssumption DEF SignalCancel, NoCancel, RunsAssumption
<1>2. UNCHANGED <<up, store, disk, run, unknown>>
  BY DEF SignalCancel
<1>3. cancel.pid \in 0..MaxAttempts /\ acked' \in [Job -> 0..MaxAttempts]
  <2>1. cancel.pid \in 0..MaxAttempts
    BY <1>0 DEF TypeOK
  <2>2. acked' = acked \/ acked' = [acked EXCEPT ![j] = cancel.pid]
    BY DEF SignalCancel
  <2>. QED  BY <1>0, <2>1, <2>2 DEF TypeOK
<1>4. CASE child[j] \in Running /\ child' = [child EXCEPT ![j] = "termed"]
           /\ j \in Job
  <2>1. "termed" \in Child /\ child[j] \in Alive
    BY <1>4 DEF Child, Alive, Running
  <2>. QED  BY <1>1, <1>2, <1>3, <1>4, <2>1, AgentStep
<1>5. CASE child' = child
  <2>1. TypeOK'
    BY <1>0, <1>1, <1>2, <1>3, <1>5 DEF TypeOK
  <2>2. \A i \in Job : Reported(i)' => Reported(i)
    BY <1>2 DEF Reported
  <2>. QED  BY <1>2, <1>5, <2>1, <2>2, RecordsOnly
<1>6. CASE j \notin Job /\ child' # child
  <2>1. child' = [child EXCEPT ![j] = "termed"]
    BY <1>6 DEF SignalCancel
  <2>2. child' = child
    BY <1>0, <1>6, <2>1 DEF TypeOK
  <2>. QED  BY <1>6, <2>2
<1>. QED  BY <1>4, <1>5, <1>6 DEF SignalCancel

LEMMA KillIInv ==
    ASSUME IInv, NEW p \in Process, Kill(p)
    PROVE  IInv'
<1>0. TypeOK
  BY DEF IInv
<1>1. /\ UNCHANGED <<disk, child, acked, unknown>>
      /\ store' = [store EXCEPT ![p] = [j \in Job |-> NoRecord]]
      /\ run' = [j \in Job |->
                    IF Owner[j] = p /\ run[j].at \notin {"idle", "done"}
                    THEN Going(j, "lost") ELSE run[j]]
  BY DEF Kill
<1>2. NoRecord \in Record /\ NoRecord.status = "none"
  BY RunsAssumption DEF NoRecord, Record, RunsAssumption
<1>3. \A j \in Job : Going(j, "lost") \in Run /\ Going(j, "lost").at = "lost"
  BY <1>0, GoingIsRun
<1>4. TypeOK'
  <2>1. store' \in [Process -> [Job -> Record]]
    BY <1>0, <1>1, <1>2 DEF TypeOK
  <2>2. run' \in [Job -> Run]
    BY <1>0, <1>1, <1>3 DEF TypeOK
  <2>3. cancel' \in [job: Job \union {NoJob}, pid: 0..MaxAttempts]
    BY <1>0, RunsAssumption DEF Kill, NoCancel, TypeOK, RunsAssumption
  <2>. QED  BY <1>0, <1>1, <2>1, <2>2, <2>3 DEF TypeOK, Kill
<1>5. ASSUME NEW j \in Job
      PROVE  /\ (run[j].at \in {"idle", "spawn", "finish"} => child[j] \notin Alive)'
             /\ Reported(j)' => Reported(j) \/ Over(j)'
             /\ Over(j) => Over(j)'
  <2>1. Reported(j)' => Reported(j)
    <3>1. \A q \in Process : store'[q][j] \in {store[q][j], NoRecord}
      BY <1>0, <1>1 DEF TypeOK
    <3>. QED  BY <1>1, <1>2, <3>1 DEF Reported, Ended
  <2>2. run'[j] = run[j] \/ run'[j].at = "lost"
    BY <1>1, <1>3
  <2>. QED  BY <1>1, <2>1, <2>2 DEF IInv, EndedIsOver, Over
<1>. QED  BY <1>4, <1>5, Preserves

-----------------------------------------------------------------------------
LEMMA StepIInv == IInv /\ [Next]_vars => IInv'
<1>. SUFFICES ASSUME IInv, [Next]_vars PROVE IInv'
  OBVIOUS
<1>1. ASSUME NEW p \in Process, Load(p) \/ Open(p) \/ Kill(p) PROVE IInv'
  BY <1>1, StartIInv, KillIInv
<1>2. CASE Recover \/ SignalCancel
  BY <1>2, RunsAssumption, StartIInv, SignalCancelIInv DEF RunsAssumption
<1>3. ASSUME NEW j \in Job, Create(j) \/ RunErrs(j) \/ RequestCancel(j)
      PROVE  IInv'
  BY <1>3, CreateIInv, RunErrsIInv, RequestCancelIInv
<1>4. ASSUME NEW j \in Job, RunStep(j) PROVE IInv'
  BY <1>4, SpawnIInv, SpawnFailsIInv, MarkRunningIInv, EndAttemptIInv,
     FinishIInv DEF RunStep
<1>5. ASSUME NEW j \in Job, NEW code \in {"ok", "bad", "left"},
             AgentExits(j, code) \/ HeirsExit(j)
      PROVE  IInv'
  BY <1>5, AgentExitsIInv, HeirsExitIInv
<1>6. CASE UNCHANGED vars
  <2>1. TypeOK' /\ UNCHANGED <<run, child, store, disk>>
    BY <1>6 DEF vars, IInv, TypeOK
  <2>2. \A j \in Job : Reported(j)' => Reported(j)
    BY <2>1 DEF Reported
  <2>. QED  BY <2>1, <2>2, RecordsOnly
<1>. QED  BY <1>1, <1>2, <1>3, <1>4, <1>5, <1>6 DEF Next

\* The inductive invariant: a copy of a record says that the agent ended only
\* when the run is over and the agent has ended (runner.rs, jobs.rs), in any
\* deployment and with every fault.
THEOREM AgentInvariant == Spec => []IInv
  BY InitIInv, StepIInv, PTL DEF Spec

\* The next attempt of a job is launched only when no agent of an earlier one
\* is alive (terminate_child waits for the child it kills).
THEOREM OneAgent == Spec => []OneAgentPerJob
<1>1. IInv => OneAgentPerJob
  BY DEF IInv, EndedIsOver, OneAgentPerJob
<1>. QED  BY <1>1, AgentInvariant, PTL

\* A record, in memory or in jobs.json, that says how the agent ended is of an
\* agent that has ended (finish and mark_failed come after the wait).
THEOREM RecordsTellTruth == Spec => []FinishedMeansGone
<1>1. ASSUME IInv PROVE FinishedMeansGone
  <2>1. \A j \in Job : Owner[j] \in Process
    BY RunsAssumption DEF RunsAssumption
  <2>2. ASSUME NEW j \in Job, \/ RecordOf(j).status \in Ended
                              \/ disk[j].status \in Ended
        PROVE  child[j] \notin Alive
    <3>1. Reported(j)
      BY <2>1, <2>2 DEF Reported, RecordOf
    <3>. QED  BY <3>1, <1>1 DEF IInv, EndedIsOver, Over
  <2>. QED  BY <2>2 DEF FinishedMeansGone, Ended
<1>. QED  BY <1>1, AgentInvariant, PTL

-----------------------------------------------------------------------------
(* One process listens and runs the jobs: cancels stick, records are kept. *)

Settled(j) == MemoryLeads(j) /\ PidsPast(j) /\ CancelRecorded(j)

LEMMA Numbers ==
    ASSUME TypeOK, NEW j \in Job
    PROVE  /\ run[j].attempt \in Nat /\ acked[j] \in Nat /\ cancel.pid \in Nat
           /\ disk[j].pid \in Nat /\ store[Front][j].pid \in Nat
<1>1. (0..MaxAttempts) \subseteq Nat /\ Front \in Process
  BY RunsAssumption DEF RunsAssumption
<1>. QED  BY <1>1 DEF TypeOK, Run, Record

\* A job that a step leaves alone, but for the copy of its record in the file.
LEMMA LeftAlone ==
    ASSUME NEW j \in Job, Settled(j),
           run'[j] = run[j], up' = up, acked'[j] = acked[j],
           cancel' = cancel \/ cancel'.job # j,
           store'[Front][j] = store[Front][j],
           \/ disk'[j] = disk[j]
           \/ up[Front] # "down" /\ disk'[j] = store[Front][j]
    PROVE  Settled(j)'
<1>1. MemoryLeads(j)'
  BY DEF Settled, MemoryLeads
<1>2. PidsPast(j)'
  BY DEF Settled, PidsPast
<1>3. CancelRecorded(j)'
  BY DEF Settled, CancelRecorded, CancelledNow
<1>. QED  BY <1>1, <1>2, <1>3 DEF Settled

\* What RecordsKept asks of a step for one job.
Kept(j) == /\ disk[j] # NoRecord => disk'[j] # NoRecord
           /\ disk[j].status \in TerminalStatus => disk'[j] = disk[j]

LEMMA KeptByCopy ==
    ASSUME NEW j \in Job, Settled(j),
           \/ disk'[j] = disk[j]
           \/ up[Front] # "down" /\ disk'[j] = store[Front][j]
    PROVE  Kept(j)
  BY DEF Settled, MemoryLeads, Kept

\* A runner that moves, perhaps with a new record, settles its own job.
LEMMA RunnerSettles ==
    ASSUME IInv, NEW j \in Job, Settled(j),
           run[j].at \in UnderWay \union {"idle"}, up[Front] = "up",
           NEW record \in Record, record.status # "none",
           store'[Front][j] = record, disk'[j] \in {record, disk[j]},
           NEW r \in Run, run'[j] = r,
           UNCHANGED <<up, cancel, acked>>,
           r.at # "idle",
           r.at \in UnderWay => record.status \in ActiveStatus,
           record.pid <= r.attempt,
           r.at \in {"spawn", "mark"} => record.pid < r.attempt,
           \/ run[j].attempt < r.attempt
           \/ /\ run[j].attempt = r.attempt
              /\ CancelledNow(j) => /\ record.status \in Sticky
                                    /\ r.at \notin {"spawn", "mark"}
    PROVE  Settled(j)' /\ Kept(j)
<1>0. TypeOK
  BY DEF IInv
<1>1. /\ run[j].attempt \in Nat /\ acked[j] \in Nat /\ cancel.pid \in Nat
      /\ disk[j].pid \in Nat /\ record.pid \in Nat /\ r.attempt \in Nat
  <2>1. record.pid \in 0..MaxAttempts /\ r.attempt \in 0..MaxAttempts
    BY DEF Record, Run
  <2>. QED  BY <1>0, <2>1, Numbers, RunsAssumption DEF RunsAssumption
<1>2. record # NoRecord
  BY DEF NoRecord
<1>3. disk[j].status \notin TerminalStatus
  <2>1. run[j].at = "idle" => disk[j] = NoRecord
    BY DEF Settled, MemoryLeads
  <2>2. NoRecord.status \notin TerminalStatus
    BY DEF NoRecord, TerminalStatus
  <2>3. run[j].at \in UnderWay => store[Front][j].status \notin TerminalStatus
    BY DEF Settled, MemoryLeads, ActiveStatus, TerminalStatus
  <2>. QED  BY <2>1, <2>2, <2>3 DEF Settled, MemoryLeads
<1>4. Kept(j)
  BY <1>2, <1>3 DEF Kept
<1>5. MemoryLeads(j)'
  BY <1>2, <1>3 DEF MemoryLeads
<1>6. PidsPast(j)'
  <2>1. /\ run[j].attempt <= r.attempt
        /\ disk[j].pid <= run[j].attempt /\ acked[j] <= run[j].attempt
        /\ cancel.job = j => cancel.pid >= 1 /\ cancel.pid <= run[j].attempt
    BY <1>1 DEF Settled, PidsPast
  <2>2. /\ disk[j].pid <= r.attempt /\ acked[j] <= r.attempt
        /\ cancel.job = j => cancel.pid \in 1..r.attempt
    BY <1>1, <2>1
  <2>. QED  BY <2>2 DEF PidsPast
<1>7. CancelRecorded(j)'
  <2>1. CASE run[j].attempt < r.attempt
    <3>1. /\ acked[j] <= run[j].attempt
          /\ cancel.job = j => cancel.pid <= run[j].attempt
      BY <1>1 DEF Settled, PidsPast
    <3>2. acked[j] # r.attempt /\ (cancel.job = j => cancel.pid # r.attempt)
      BY <1>1, <2>1, <3>1
    <3>. QED  BY <3>2 DEF CancelRecorded, CancelledNow
  <2>2. CASE /\ run[j].attempt = r.attempt
             /\ CancelledNow(j) => /\ record.status \in Sticky
                                   /\ r.at \notin {"spawn", "mark"}
    <3>1. CancelledNow(j)' => CancelledNow(j)
      BY <2>2 DEF CancelledNow
    <3>2. CancelledNow(j) => disk[j].status \in Sticky
      BY DEF Settled, CancelRecorded
    <3>. QED  BY <2>2, <3>1, <3>2 DEF CancelRecorded
  <2>. QED  BY <2>1, <2>2
<1>. QED  BY <1>4, <1>5, <1>6, <1>7 DEF Settled

\* The other jobs when a runner moves without a record.
LEMMA OthersAlone ==
    ASSUME TypeOK, SoleInv, NEW j \in Job,
           NEW r \in Run, run' = [run EXCEPT ![j] = r],
           UNCHANGED <<up, store, disk, cancel, acked>>
    PROVE  /\ run'[j] = r
           /\ \A i \in Job \ {j} : Settled(i)' /\ Kept(i)
<1>1. run'[j] = r /\ \A i \in Job \ {j} : run'[i] = run[i]
  BY Moved
<1>2. \A i \in Job : Settled(i)
  BY DEF SoleInv, Settled
<1>. QED  BY <1>1, <1>2, LeftAlone, KeptByCopy

\* What every step of the sole process does.
Settling == \A i \in Job : Settled(i)' /\ Kept(i)

\* A step of the runner of job j that writes its record.
LEMMA WriteSettles ==
    ASSUME Process = {Front}, IInv, SoleInv, NEW j \in Job,
           run[j].at \in UnderWay \union {"idle"}, up[Front] = "up",
           NEW record \in Record, NEW saved \in BOOLEAN,
           Updates(j, record, saved), record.status # "none",
           NEW r \in Run, run' = [run EXCEPT ![j] = r],
           UNCHANGED <<up, child, cancel, acked, unknown>>,
           r.at # "idle",
           r.at \in UnderWay => record.status \in ActiveStatus,
           record.pid <= r.attempt,
           r.at \in {"spawn", "mark"} => record.pid < r.attempt,
           \/ run[j].attempt < r.attempt
           \/ /\ run[j].attempt = r.attempt
              /\ CancelledNow(j) => /\ record.status \in Sticky
                                    /\ r.at \notin {"spawn", "mark"}
    PROVE  Settling
<1>0. TypeOK /\ Front \in Process /\ Owner[j] = Front
  BY RunsAssumption DEF IInv, RunsAssumption
<1>1. \A i \in Job : Settled(i)
  BY DEF SoleInv, Settled
<1>2. /\ \A p \in Process, i \in Job :
             store'[p][i] = IF p = Owner[j] /\ i = j THEN record
                                                     ELSE store[p][i]
      /\ disk'[j] \in {record, disk[j]}
      /\ \A i \in Job \ {j} : disk'[i] \in {store[Owner[j]][i], disk[i]}
  BY <1>0, Updated
<1>3. run'[j] = r /\ \A i \in Job \ {j} : run'[i] = run[i]
  BY <1>0, Moved
<1>4. Settled(j)' /\ Kept(j)
  <2>1. store'[Front][j] = record
    BY <1>0, <1>2
  <2>. QED  BY <1>1, <1>2, <1>3, <2>1, RunnerSettles
<1>5. ASSUME NEW i \in Job \ {j} PROVE Settled(i)' /\ Kept(i)
  <2>1. store'[Front][i] = store[Front][i]
    BY <1>0, <1>2
  <2>2. disk'[i] \in {store[Front][i], disk[i]} /\ run'[i] = run[i]
    BY <1>0, <1>2, <1>3
  <2>. QED  BY <1>1, <2>1, <2>2, LeftAlone, KeptByCopy
<1>. QED  BY <1>4, <1>5 DEF Settling

\* A step of the runner of job j that writes no record.
LEMMA MoveSettles ==
    ASSUME Process = {Front}, IInv, SoleInv, NEW j \in Job,
           run[j].at \in UnderWay,
           NEW r \in Run, run' = [run EXCEPT ![j] = r],
           UNCHANGED <<up, store, disk, cancel, acked, unknown>>,
           r.at \in UnderWay \union {"done"},
           \/ /\ run[j].attempt = r.attempt
              /\ r.at \in {"spawn", "mark"} => run[j].at \in {"spawn", "mark"}
           \/ run[j].attempt < r.attempt
    PROVE  Settling
<1>. DEFINE record == store[Front][j]
<1>0. TypeOK /\ Front \in Process
  BY RunsAssumption DEF IInv, RunsAssumption
<1>1. Settled(j)
  BY DEF SoleInv, Settled
<1>2. /\ record \in Record /\ record.status \in ActiveStatus
      /\ up[Front] = "up" /\ record.status # "none"
  BY <1>0, <1>1 DEF Settled, MemoryLeads, TypeOK, ActiveStatus
<1>3. /\ record.pid <= run[j].attempt
      /\ run[j].at \in {"spawn", "mark"} => record.pid < run[j].attempt
      /\ run[j].attempt \in Nat /\ record.pid \in Nat /\ r.attempt \in Nat
  <2>1. r.attempt \in Nat
    BY RunsAssumption DEF Run, RunsAssumption
  <2>. QED  BY <1>0, <1>1, <2>1, Numbers DEF Settled, PidsPast
<1>4. /\ record.pid <= r.attempt
      /\ r.at \in {"spawn", "mark"} => record.pid < r.attempt
  BY <1>3
<1>5. CancelledNow(j) => record.status \in Sticky /\ run[j].at \notin {"spawn", "mark"}
  BY <1>1, <1>2 DEF Settled, CancelRecorded
<1>6. run'[j] = r /\ \A i \in Job \ {j} : Settled(i)' /\ Kept(i)
  BY <1>0, OthersAlone
<1>7. r.at # "idle" /\ store'[Front][j] = record /\ disk'[j] = disk[j]
  BY DEF UnderWay
<1>. HIDE DEF record
<1>8. Settled(j)' /\ Kept(j)
  BY <1>1, <1>2, <1>4, <1>5, <1>6, <1>7, RunnerSettles
<1>. QED  BY <1>6, <1>8 DEF Settling

LEMMA CreateSettles ==
    ASSUME Process = {Front}, IInv, SoleInv, NEW j \in Job, Create(j)
    PROVE  Settling
<1>. DEFINE rec == [status |-> "pending", pid |-> 0]
            r(at) == [at |-> at, attempt |-> 1, again |-> FALSE]
<1>1. PICK saved \in BOOLEAN :
          /\ Updates(j, rec, saved)
          /\ run' = [run EXCEPT ![j] = [at |-> IF saved THEN "spawn" ELSE "done",
                                       attempt |-> 1, again |-> FALSE]]
  BY Zenon DEF Create
<1>2. PICK at \in {"spawn", "done"} : run' = [run EXCEPT ![j] = r(at)]
  BY <1>1
<1>3. rec \in Record /\ rec.status = "pending" /\ rec.pid = 0
  BY RunsAssumption DEF Record, ActiveStatus, RunsAssumption
<1>4. /\ r(at) \in Run /\ r(at).at \in {"spawn", "done"}
      /\ r(at).attempt = 1
  BY RunsAssumption DEF Run, RunsAssumption
<1>5. /\ run[j].at = "idle" /\ up[Front] = "up"
      /\ UNCHANGED <<up, child, cancel, acked, unknown>>
  BY RunsAssumption DEF Create, RunsAssumption
<1>6. run[j].attempt = 0
  BY <1>5 DEF SoleInv, PidsPast
<1>. HIDE DEF rec, r
<1>7. /\ rec.status \in ActiveStatus /\ rec.status # "none"
      /\ rec.pid < r(at).attempt /\ rec.pid <= r(at).attempt
      /\ run[j].attempt < r(at).attempt /\ r(at).at # "idle"
      /\ run[j].at \in UnderWay \union {"idle"} /\ Updates(j, rec, saved)
  BY <1>1, <1>3, <1>4, <1>5, <1>6 DEF ActiveStatus
<1>. QED  BY <1>2, <1>3, <1>4, <1>5, <1>7, WriteSettles

\* The parts of a run under way that every step of it needs.
LEMMA UnderWayFacts ==
    ASSUME Process = {Front}, IInv, SoleInv, NEW j \in Job,
           run[j].at \in UnderWay
    PROVE  /\ up[Front] = "up" /\ RecordOf(j) = store[Front][j]
           /\ store[Front][j].status \in ActiveStatus
           /\ run[j].attempt \in Nat /\ run[j].attempt \in 0..MaxAttempts
           /\ CancelledNow(j) => /\ store[Front][j].status \in Sticky
                                 /\ run[j].at \notin {"spawn", "mark"}
<1>1. TypeOK /\ Owner[j] = Front
  BY RunsAssumption DEF IInv, RunsAssumption
<1>2. run[j].attempt \in Nat /\ run[j].attempt \in 0..MaxAttempts
  BY <1>1, Numbers DEF TypeOK, Run
<1>3. up[Front] = "up" /\ store[Front][j].status \in ActiveStatus
  BY DEF SoleInv, MemoryLeads
<1>. QED  BY <1>1, <1>2, <1>3 DEF RecordOf, SoleInv, CancelRecorded

LEMMA RunMovesSettle ==
    ASSUME Process = {Front}, IInv, SoleInv, NEW j \in Job,
           Spawn(j) \/ Exits(j) \/ RunErrs(j)
    PROVE  Settling
<1>1. PICK at \in {"mark", "join", "done"} :
          /\ run' = [run EXCEPT ![j] = Going(j, at)]
          /\ at = "mark" => run[j].at = "spawn"
  BY DEF Spawn, Exits, RunErrs, At
<1>2. run[j].at \in UnderWay /\ UNCHANGED <<up, store, disk, cancel, acked, unknown>>
  BY DEF Spawn, Exits, RunErrs, UnderWay
<1>3. /\ Going(j, at) \in Run /\ Going(j, at).at = at
      /\ Going(j, at).attempt = run[j].attempt
  BY GoingIsRun DEF IInv
<1>. QED  BY <1>1, <1>2, <1>3, MoveSettles DEF UnderWay

LEMMA EndAttemptSettles ==
    ASSUME Process = {Front}, IInv, SoleInv, NEW j \in Job,
           \/ \E again \in BOOLEAN : TimesOut(j, again)
           \/ Reaps(j) \/ Joins(j)
    PROVE  Settling
<1>1. /\ TypeOK /\ run[j].at \in UnderWay
      /\ UNCHANGED <<up, store, disk, cancel, acked, unknown>>
  BY DEF IInv, TimesOut, Reaps, Joins, UnderWay
<1>2. /\ run[j].attempt \in Nat /\ run[j].attempt \in 0..MaxAttempts
  BY <1>1, UnderWayFacts
<1>3. ASSUME NEW again \in BOOLEAN, TimesOut(j, again) PROVE Settling
  <2>. DEFINE r == [at |-> "term", attempt |-> run[j].attempt,
                    again |-> again]
  <2>1. r \in Run /\ r.at = "term" /\ r.attempt = run[j].attempt
    BY <1>2, <1>3 DEF TimesOut, Run
  <2>2. run' = [run EXCEPT ![j] = r]
    BY <1>3 DEF TimesOut
  <2>. HIDE DEF r
  <2>. QED  BY <1>1, <2>1, <2>2, MoveSettles DEF UnderWay
<1>4. CASE Reaps(j)
  <2>1. run' = [run EXCEPT ![j] = Joining(j)]
    BY <1>4 DEF Reaps
  <2>. QED  BY <1>1, <2>1, JoiningIsRun, MoveSettles DEF UnderWay
<1>5. CASE Joins(j)
  <2>1. run' = [run EXCEPT ![j] = AfterEnd(j)]
    BY <1>5 DEF Joins
  <2>2. /\ AfterEnd(j) \in Run /\ AfterEnd(j).at \in UnderWay
        /\ \/ run[j].attempt < AfterEnd(j).attempt
           \/ /\ AfterEnd(j).attempt = run[j].attempt
              /\ AfterEnd(j).at = "finish"
    BY <1>1, <1>2, AfterEndIsRun DEF UnderWay
  <2>. QED  BY <1>1, <2>1, <2>2, MoveSettles
<1>. QED  BY <1>3, <1>4, <1>5

LEMMA RunWritesSettle ==
    ASSUME Process = {Front}, IInv, SoleInv, NEW j \in Job,
           SpawnFails(j) \/ MarkRunning(j) \/ Finish(j)
    PROVE  Settling
<1>0. run[j].at \in UnderWay /\ UNCHANGED <<up, child, cancel, acked, unknown>>
  BY DEF SpawnFails, MarkRunning, Finish, UnderWay
<1>1. /\ up[Front] = "up" /\ RecordOf(j) = store[Front][j]
      /\ store[Front][j].status \in ActiveStatus
      /\ run[j].attempt \in Nat /\ run[j].attempt \in 0..MaxAttempts
      /\ CancelledNow(j) => /\ store[Front][j].status \in Sticky
                            /\ run[j].at \notin {"spawn", "mark"}
  BY <1>0, UnderWayFacts
<1>2. \A at \in {"wait", "done"} :
          /\ Going(j, at) \in Run /\ Going(j, at).at = at
          /\ Going(j, at).attempt = run[j].attempt
  BY GoingIsRun DEF IInv
<1>3. CASE SpawnFails(j)
  <2>. DEFINE rec == [status |-> "failed", pid |-> 0]
  <2>1. PICK saved \in BOOLEAN : Updates(j, rec, saved)
    BY <1>3 DEF SpawnFails
  <2>2. rec \in Record /\ rec.status = "failed" /\ rec.pid = 0
    BY RunsAssumption DEF Record, TerminalStatus, RunsAssumption
  <2>3. ~CancelledNow(j) /\ run' = [run EXCEPT ![j] = Going(j, "done")]
    BY <1>1, <1>3 DEF SpawnFails, At
  <2>. HIDE DEF rec
  <2>4. /\ rec.pid <= Going(j, "done").attempt /\ rec.status # "none"
        /\ Going(j, "done") \in Run
        /\ Going(j, "done").at \notin UnderWay \union {"idle"}
        /\ run[j].attempt = Going(j, "done").attempt
    BY <1>1, <1>2, <2>2 DEF UnderWay
  <2>5. Going(j, "done").at \notin {"spawn", "mark"}
        /\ Going(j, "done").at # "idle"
    BY <1>2
  <2>. QED  BY <1>0, <1>1, <2>1, <2>2, <2>3, <2>4, <2>5, WriteSettles
<1>4. CASE MarkRunning(j)
  <2>. DEFINE rec == [status |-> "running", pid |-> run[j].attempt]
              at(saved) == IF saved THEN "wait" ELSE "done"
  <2>1. PICK saved \in BOOLEAN : Updates(j, rec, saved) /\ At(j, at(saved))
    BY <1>4 DEF MarkRunning
  <2>2. /\ rec \in Record /\ rec.status = "running"
        /\ rec.status \in ActiveStatus /\ rec.pid = run[j].attempt
    BY <1>1 DEF Record, ActiveStatus
  <2>3. at(saved) \in {"wait", "done"}
    OBVIOUS
  <2>4. ~CancelledNow(j) /\ run' = [run EXCEPT ![j] = Going(j, at(saved))]
    BY <1>1, <1>4, <2>1 DEF MarkRunning, At
  <2>. HIDE DEF rec, at
  <2>5. Updates(j, rec, saved)
    BY <2>1
  <2>6. rec.pid <= run[j].attempt
    BY <1>1, <2>2
  <2>. QED  BY <1>0, <1>1, <1>2, <2>2, <2>3, <2>4, <2>5, <2>6, WriteSettles
            DEF UnderWay
<1>5. CASE Finish(j)
  <2>. DEFINE st == IF RecordOf(j).status = "cancel-requested" THEN "cancelled"
                    ELSE IF child[j] = "ok" THEN "succeeded" ELSE "failed"
              rec == [status |-> st, pid |-> 0]
  <2>1. PICK saved \in BOOLEAN : Updates(j, rec, saved)
    BY <1>5 DEF Finish
  <2>2. rec \in Record /\ rec.status = st /\ rec.pid = 0 /\ st # "none"
    BY RunsAssumption DEF Record, TerminalStatus, RunsAssumption
  <2>3. CancelledNow(j) => st \in Sticky
    BY <1>1 DEF ActiveStatus, Sticky
  <2>4. run' = [run EXCEPT ![j] = Going(j, "done")]
    BY <1>5 DEF Finish, At
  <2>. HIDE DEF rec, st
  <2>5. /\ rec.pid <= Going(j, "done").attempt /\ rec.status # "none"
        /\ CancelledNow(j) => rec.status \in Sticky
        /\ Going(j, "done") \in Run
        /\ Going(j, "done").at \notin UnderWay \union {"idle"}
        /\ run[j].attempt = Going(j, "done").attempt
    BY <1>1, <1>2, <2>2, <2>3 DEF UnderWay
  <2>6. Going(j, "done").at \notin {"spawn", "mark"}
        /\ Going(j, "done").at # "idle"
    BY <1>2
  <2>. QED  BY <1>0, <1>1, <2>1, <2>2, <2>4, <2>5, <2>6, WriteSettles
<1>. QED  BY <1>3, <1>4, <1>5

\* Start-up: nothing is under way.
LEMMA LoadSettles ==
    ASSUME Process = {Front}, IInv, SoleInv, Load(Front)
    PROVE  Settling
<1>1. /\ up[Front] = "down" /\ up'[Front] = "loaded"
      /\ store'[Front] = disk
      /\ UNCHANGED <<disk, run, child, cancel, acked, unknown>>
  BY RunsAssumption DEF Load, IInv, TypeOK, RunsAssumption
<1>2. ASSUME NEW i \in Job PROVE Settled(i)'
  <2>1. MemoryLeads(i) /\ PidsPast(i) /\ CancelRecorded(i)
    BY DEF SoleInv
  <2>2. run[i].at \notin UnderWay
    BY <1>1, <2>1 DEF MemoryLeads
  <2>3. MemoryLeads(i)'
    BY <1>1, <2>1, <2>2 DEF MemoryLeads
  <2>4. PidsPast(i)'
    BY <1>1, <2>1, <2>2 DEF PidsPast, UnderWay
  <2>5. CancelRecorded(i)'
    BY <1>1, <2>1 DEF CancelRecorded, CancelledNow
  <2>. QED  BY <2>3, <2>4, <2>5 DEF Settled
<1>. QED  BY <1>1, <1>2 DEF Settling, Kept

LEMMA OpenSettles ==
    ASSUME Process = {Front}, IInv, SoleInv, Open(Front)
    PROVE  Settling
<1>0. TypeOK /\ Front \in Process /\ store[Front] \in [Job -> Record]
  BY RunsAssumption DEF IInv, TypeOK, RunsAssumption
<1>1. PICK saved \in BOOLEAN : Writes(Front, store[Front], saved)
  BY DEF Open
<1>2. store'[Front] = store[Front] /\ (disk' = store[Front] \/ disk' = disk)
  BY <1>0, <1>1, Written
<1>3. up[Front] = "loaded" /\ UNCHANGED <<run, child, cancel, acked, unknown>>
  BY DEF Open
<1>4. ASSUME NEW i \in Job PROVE Settled(i)' /\ Kept(i)
  <2>1. Settled(i) /\ MemoryLeads(i) /\ PidsPast(i) /\ CancelRecorded(i)
    BY DEF SoleInv, Settled
  <2>2. run[i].at \notin UnderWay
    BY <1>3, <2>1 DEF MemoryLeads
  <2>3. disk'[i] = disk[i] \/ disk'[i] = store[Front][i]
    BY <1>2
  <2>4. MemoryLeads(i)'
    BY <1>2, <1>3, <2>1, <2>2, <2>3 DEF MemoryLeads
  <2>5. PidsPast(i)'
    BY <1>2, <1>3, <2>1, <2>3 DEF PidsPast
  <2>6. CancelRecorded(i)'
    BY <1>2, <1>3, <2>1, <2>3 DEF CancelRecorded, CancelledNow
  <2>7. Kept(i)
    BY <1>3, <2>1, <2>3, KeptByCopy
  <2>. QED  BY <2>4, <2>5, <2>6, <2>7 DEF Settled
<1>. QED  BY <1>4 DEF Settling

LEMMA RecoverSettles ==
    ASSUME Process = {Front}, IInv, SoleInv, Recover
    PROVE  Settling
<1>. DEFINE recs == [j \in Job |-> IF store[Front][j].status \in ActiveStatus
                                   THEN Interrupted ELSE store[Front][j]]
<1>0. TypeOK /\ Front \in Process
  BY RunsAssumption DEF IInv, TypeOK, RunsAssumption
<1>1. /\ Interrupted \in Record /\ Interrupted.status = "interrupted"
      /\ Interrupted.pid = 0 /\ Interrupted # NoRecord
  BY RunsAssumption
     DEF Interrupted, NoRecord, Record, TerminalStatus, RunsAssumption
<1>2. PICK saved \in BOOLEAN :
          /\ Writes(Front, recs, saved)
          /\ up' = [up EXCEPT ![Front] = IF saved THEN "up" ELSE "down"]
  BY DEF Recover
<1>3. recs \in [Job -> Record]
  BY <1>0, <1>1 DEF TypeOK
<1>4. \A j \in Job : recs[j] = IF store[Front][j].status \in ActiveStatus
                               THEN Interrupted ELSE store[Front][j]
  OBVIOUS
<1>. HIDE DEF recs
<1>5. /\ store'[Front] = recs /\ (disk' = recs \/ disk' = disk)
      /\ saved => disk' = recs
  BY <1>0, <1>2, <1>3, Written
<1>6. /\ up[Front] = "opened" /\ (up'[Front] = "down" \/ disk' = recs)
      /\ UNCHANGED <<run, child, cancel, acked, unknown>>
  <2>1. up'[Front] = IF saved THEN "up" ELSE "down"
    BY <1>0, <1>2 DEF TypeOK
  <2>. QED  BY <1>5, <2>1 DEF Recover
<1>7. ASSUME NEW i \in Job PROVE Settled(i)' /\ Kept(i)
  <2>1. MemoryLeads(i) /\ PidsPast(i) /\ CancelRecorded(i)
    BY DEF SoleInv
  <2>2. run[i].at \notin UnderWay
    BY <1>6, <2>1 DEF MemoryLeads
  <2>3. disk'[i] = disk[i] \/ disk'[i] = recs[i]
    BY <1>5
  <2>4. /\ NoRecord.status \notin ActiveStatus
        /\ ActiveStatus \cap TerminalStatus = {}
    BY DEF NoRecord, ActiveStatus, TerminalStatus
  <2>5. /\ store[Front][i] # NoRecord => recs[i] # NoRecord
        /\ store[Front][i].status \in TerminalStatus => recs[i] = store[Front][i]
        /\ store[Front][i] = NoRecord => recs[i] = NoRecord
        /\ store[Front][i].status \in Sticky => recs[i].status \in Sticky
    BY <1>1, <1>4, <2>4 DEF Sticky
  <2>6. Kept(i)
    BY <1>6, <2>1, <2>3, <2>5 DEF Kept, MemoryLeads
  <2>7. MemoryLeads(i)'
    <3>1. up'[Front] # "down" => disk'[i] = recs[i]
      BY <1>6
    <3>. QED  BY <1>5, <1>6, <2>1, <2>2, <2>3, <2>5, <3>1 DEF MemoryLeads
  <2>8. PidsPast(i)'
    <3>1. run[i].attempt \in Nat /\ store[Front][i].pid <= run[i].attempt
      BY <1>0, <2>1, Numbers DEF PidsPast
    <3>2. recs[i].pid <= run[i].attempt
      BY <1>1, <1>4, <3>1
    <3>. QED  BY <1>5, <1>6, <2>1, <2>2, <2>3, <3>2 DEF PidsPast, UnderWay
  <2>9. CancelRecorded(i)'
    BY <1>5, <1>6, <2>1, <2>3, <2>5 DEF CancelRecorded, CancelledNow
  <2>. QED  BY <2>6, <2>7, <2>8, <2>9 DEF Settled
<1>. QED  BY <1>7 DEF Settling

LEMMA KillSettles ==
    ASSUME Process = {Front}, IInv, SoleInv, Kill(Front)
    PROVE  Settling
<1>0. TypeOK /\ Front \in Process /\ NoJob \notin Job
  BY RunsAssumption DEF IInv, RunsAssumption
<1>1. /\ up'[Front] = "down" /\ UNCHANGED <<disk, child, acked, unknown>>
      /\ store'[Front] = [j \in Job |-> NoRecord]
      /\ cancel' = NoCancel
      /\ run' = [j \in Job |->
                    IF Owner[j] = Front /\ run[j].at \notin {"idle", "done"}
                    THEN Going(j, "lost") ELSE run[j]]
  BY <1>0 DEF Kill, TypeOK
<1>2. ASSUME NEW i \in Job PROVE Settled(i)' /\ Kept(i)
  <2>1. MemoryLeads(i) /\ PidsPast(i) /\ CancelRecorded(i)
    BY DEF SoleInv
  <2>2. /\ run'[i].attempt = run[i].attempt
        /\ \/ run'[i].at = run[i].at /\ run[i].at \in {"idle", "done"}
           \/ run'[i].at = "lost" /\ run[i].at # "idle"
    <3>1. Owner[i] = Front
      BY RunsAssumption DEF RunsAssumption
    <3>2. /\ Going(i, "lost").at = "lost"
          /\ Going(i, "lost").attempt = run[i].attempt
      BY <1>0, GoingIsRun
    <3>. QED  BY <1>1, <3>1, <3>2
  <2>3. store'[Front][i] = NoRecord /\ cancel'.job # i
    BY <1>0, <1>1 DEF NoCancel
  <2>4. MemoryLeads(i)'
    BY <1>1, <2>1, <2>2, <2>3 DEF MemoryLeads, UnderWay
  <2>5. PidsPast(i)'
    <3>1. NoRecord.pid = 0 /\ run[i].attempt \in Nat
      BY <1>0, Numbers DEF NoRecord
    <3>. QED  BY <1>1, <2>1, <2>2, <2>3, <3>1 DEF PidsPast
  <2>6. CancelRecorded(i)'
    BY <1>1, <2>1, <2>2, <2>3 DEF CancelRecorded, CancelledNow
  <2>. QED  BY <1>1, <2>4, <2>5, <2>6 DEF Settled, Kept
<1>. QED  BY <1>2 DEF Settling

LEMMA RequestCancelSettles ==
    ASSUME Process = {Front}, IInv, SoleInv, NEW j \in Job, RequestCancel(j)
    PROVE  Settling
<1>. DEFINE mine == store[Front][j]
            rec == [status |-> "cancel-requested", pid |-> mine.pid]
            asked == [store[Front] EXCEPT ![j] = rec]
<1>0. TypeOK /\ Front \in Process /\ NoJob \notin Job
  BY RunsAssumption DEF IInv, RunsAssumption
<1>1. /\ mine \in Record /\ store[Front] \in [Job -> Record]
      /\ up[Front] = "up" /\ run[j].at # "idle" /\ cancel = NoCancel
      /\ UNCHANGED <<up, run, child, acked>>
  BY <1>0 DEF TypeOK, RequestCancel
<1>2. \A i \in Job : /\ MemoryLeads(i) /\ PidsPast(i) /\ CancelRecorded(i)
                     /\ Settled(i)
  BY DEF SoleInv, Settled
<1>3. CASE mine.status \notin ActiveStatus
  <2>1. PICK saved \in BOOLEAN : Writes(Front, store[Front], saved)
    BY <1>3 DEF RequestCancel
  <2>2. /\ store'[Front] = store[Front]
        /\ (disk' = store[Front] \/ disk' = disk)
        /\ cancel' = NoCancel
    BY <1>0, <1>1, <1>3, <2>1, Written DEF RequestCancel
  <2>3. \A i \in Job : \/ disk'[i] = disk[i]
                       \/ up[Front] # "down" /\ disk'[i] = store[Front][i]
    BY <1>1, <2>2
  <2>4. cancel' = cancel /\ \A i \in Job : store'[Front][i] = store[Front][i]
    BY <1>1, <2>2
  <2>. QED  BY <1>1, <1>2, <2>3, <2>4, LeftAlone, KeptByCopy DEF Settling
<1>4. CASE mine.status \in ActiveStatus
  <2>1. PICK saved \in BOOLEAN :
            /\ Writes(Front, asked, saved)
            /\ cancel' = IF mine.pid # 0 /\ saved
                         THEN [job |-> j, pid |-> mine.pid] ELSE NoCancel
    BY <1>4 DEF RequestCancel
  <2>2. /\ rec \in Record /\ rec.status = "cancel-requested"
        /\ rec.pid = mine.pid /\ rec # NoRecord
    BY <1>1 DEF Record, ActiveStatus, NoRecord
  <2>3. /\ asked \in [Job -> Record] /\ asked[j] = rec
        /\ \A i \in Job \ {j} : asked[i] = store[Front][i]
    BY <1>1, <2>2
  <2>. HIDE DEF asked
  <2>4. /\ store'[Front] = asked /\ (disk' = asked \/ disk' = disk)
        /\ cancel'.job \in {j, NoJob}
        /\ cancel'.job = j => /\ cancel'.pid = mine.pid /\ mine.pid # 0
                              /\ disk' = asked
    <3>1. /\ store'[Front] = asked /\ (disk' = asked \/ disk' = disk)
          /\ saved => disk' = asked
      BY <1>0, <2>1, <2>3, Written
    <3>. QED  BY <1>0, <2>1, <3>1 DEF NoCancel
  <2>5. ASSUME NEW i \in Job, i # j PROVE Settled(i)' /\ Kept(i)
    <3>1. /\ store'[Front][i] = store[Front][i] /\ cancel'.job # i
          /\ run'[i] = run[i] /\ acked'[i] = acked[i] /\ up' = up
          /\ \/ disk'[i] = disk[i]
             \/ up[Front] # "down" /\ disk'[i] = store[Front][i]
      BY <1>0, <1>1, <2>3, <2>4, <2>5
    <3>. QED  BY <1>2, <3>1, LeftAlone, KeptByCopy
  <2>6. /\ store'[Front][j] = rec /\ disk'[j] \in {rec, disk[j]}
        /\ cancel'.job = j => disk'[j] = rec
    BY <2>3, <2>4
  <2>7. disk[j].status \notin TerminalStatus
    BY <1>1, <1>2, <1>4 DEF MemoryLeads, ActiveStatus, TerminalStatus
  <2>8. Kept(j)
    BY <2>2, <2>6, <2>7 DEF Kept
  <2>9. MemoryLeads(j)'
    BY <1>1, <1>2, <2>2, <2>6, <2>7 DEF MemoryLeads, ActiveStatus
  <2>10. PidsPast(j)'
    <3>1. /\ mine.pid \in Nat /\ run[j].attempt \in Nat
          /\ mine.pid <= run[j].attempt
      BY <1>0, <1>2, Numbers DEF PidsPast
    <3>2. cancel'.job = j => cancel'.pid \in 1..run[j].attempt
      BY <2>4, <3>1
    <3>. QED  BY <1>1, <1>2, <2>2, <2>6, <3>1, <3>2 DEF PidsPast
  <2>11. CancelRecorded(j)'
    <3>1. /\ mine.pid \in Nat /\ run[j].attempt \in Nat
      BY <1>0, Numbers
    <3>2. rec.status \in Sticky
      BY <2>2 DEF Sticky
    <3>3. CASE cancel'.job = j /\ cancel'.pid = run[j].attempt
      <4>1. run[j].at \notin {"spawn", "mark"} /\ disk'[j] = rec
        BY <1>2, <2>4, <2>6, <3>1, <3>3 DEF PidsPast
      <4>. QED  BY <1>1, <2>6, <3>2, <4>1 DEF CancelRecorded
    <3>4. CASE ~(cancel'.job = j /\ cancel'.pid = run[j].attempt)
      BY <1>1, <1>2, <2>6, <3>2, <3>4 DEF CancelRecorded, CancelledNow
    <3>. QED  BY <3>3, <3>4
  <2>12. Settled(j)'
    BY <2>9, <2>10, <2>11 DEF Settled
  <2>. QED  BY <2>5, <2>8, <2>12 DEF Settling
<1>. QED  BY <1>3, <1>4

LEMMA SignalCancelSettles ==
    ASSUME Process = {Front}, IInv, SoleInv, SignalCancel
    PROVE  Settling
<1>0. TypeOK /\ NoJob \notin Job
  BY RunsAssumption DEF IInv, RunsAssumption
<1>1. /\ cancel' = NoCancel /\ UNCHANGED <<up, store, disk, run, unknown>>
      /\ \/ acked' = acked
         \/ /\ acked' = [acked EXCEPT ![cancel.job] = cancel.pid]
            /\ run[cancel.job].attempt = cancel.pid
  BY DEF SignalCancel
<1>2. ASSUME NEW i \in Job PROVE Settled(i)' /\ Kept(i)
  <2>1. MemoryLeads(i) /\ PidsPast(i) /\ CancelRecorded(i) /\ Settled(i)
    BY DEF SoleInv, Settled
  <2>2. cancel'.job # i
    BY <1>0, <1>1 DEF NoCancel
  <2>3. \/ acked'[i] = acked[i]
        \/ /\ cancel.job = i /\ acked'[i] = cancel.pid
           /\ run[i].attempt = cancel.pid
    BY <1>0, <1>1 DEF TypeOK
  <2>4. MemoryLeads(i)' /\ Kept(i)
    BY <1>1, <2>1 DEF MemoryLeads, Kept
  <2>5. PidsPast(i)'
    <3>1. run[i].attempt \in Nat
      BY <1>0, Numbers
    <3>2. acked'[i] <= run[i].attempt
      BY <2>1, <2>3, <3>1 DEF PidsPast
    <3>. QED  BY <1>1, <2>1, <2>2, <3>2 DEF PidsPast
  <2>6. CancelRecorded(i)'
    <3>1. CancelledNow(i)' => CancelledNow(i)
      BY <1>1, <2>2, <2>3 DEF CancelledNow
    <3>. QED  BY <1>1, <2>1, <3>1 DEF CancelRecorded
  <2>. QED  BY <2>4, <2>5, <2>6 DEF Settled
<1>. QED  BY <1>2 DEF Settling

LEMMA AgentExitsSettles ==
    ASSUME IInv, SoleInv, UNCHANGED <<up, store, disk, run, cancel, acked>>
    PROVE  Settling
<1>1. \A i \in Job : Settled(i)
  BY DEF SoleInv, Settled
<1>. QED  BY <1>1, LeftAlone, KeptByCopy DEF Settling

LEMMA SoleStep ==
    ASSUME Process = {Front}, IInv, SoleInv, [Next]_vars
    PROVE  Settling
<1>1. ASSUME NEW p \in Process, Load(p) \/ Open(p) \/ Kill(p) PROVE Settling
  <2>1. p = Front
    OBVIOUS
  <2>. QED  BY <1>1, <2>1, LoadSettles, OpenSettles, KillSettles
<1>2. CASE Recover \/ SignalCancel
  BY <1>2, RecoverSettles, SignalCancelSettles
<1>3. ASSUME NEW j \in Job, Create(j) \/ RunErrs(j) \/ RequestCancel(j)
      PROVE  Settling
  BY <1>3, CreateSettles, RunMovesSettle, RequestCancelSettles
<1>4. ASSUME NEW j \in Job, RunStep(j) PROVE Settling
  BY <1>4, RunMovesSettle, RunWritesSettle, EndAttemptSettles DEF RunStep
<1>5. ASSUME NEW j \in Job, NEW code \in {"ok", "bad", "left"},
             AgentExits(j, code) \/ HeirsExit(j)
      PROVE  Settling
  BY <1>5, AgentExitsSettles DEF AgentExits, HeirsExit
<1>6. CASE UNCHANGED vars
  BY <1>6, AgentExitsSettles DEF vars
<1>. QED  BY <1>1, <1>2, <1>3, <1>4, <1>5, <1>6 DEF Next

\* One process: its memory leads the file, and the cancel of the present
\* attempt is recorded in both.
LEMMA SoleInvariant ==
    ASSUME Process = {Front}
    PROVE  Spec => [](IInv /\ SoleInv)
<1>1. ASSUME Init PROVE SoleInv
  <2>1. NoRecord.pid = 0 /\ NoRecord.status = "none" /\ NoCancel.job = NoJob
    BY DEF NoRecord, NoCancel
  <2>2. ASSUME NEW i \in Job
        PROVE  MemoryLeads(i) /\ PidsPast(i) /\ CancelRecorded(i)
    <3>1. /\ run[i].at = "idle" /\ run[i].attempt = 0 /\ acked[i] = 0
          /\ store[Front][i] = NoRecord /\ disk[i] = NoRecord
          /\ cancel.job # i
      BY <1>1, <2>1, RunsAssumption DEF Init, RunsAssumption
    <3>2. MemoryLeads(i)
      BY <3>1 DEF MemoryLeads, UnderWay, NoRecord, TerminalStatus
    <3>3. PidsPast(i)
      BY <2>1, <3>1 DEF PidsPast
    <3>4. CancelRecorded(i)
      BY <3>1 DEF CancelRecorded, CancelledNow
    <3>. QED  BY <3>2, <3>3, <3>4
  <2>. QED  BY <2>2 DEF SoleInv
<1>2. IInv /\ SoleInv /\ [Next]_vars => (IInv /\ SoleInv)'
  BY StepIInv, SoleStep DEF Settling, Settled, SoleInv
<1>. QED  BY <1>1, <1>2, InitIInv, PTL DEF Spec

\* Inline, what the phone was told stays true: an attempt whose cancel was
\* answered "cancel requested" is recorded as cancelled or interrupted
\* (finish keeps the request, jobs.rs).
THEOREM CancelsStick ==
    ASSUME Process = {Front}
    PROVE  Spec => []CancelSticks
<1>1. SoleInv => CancelSticks
  BY DEF SoleInv, CancelSticks, CancelRecorded, CancelledNow, Sticky
<1>. QED  BY <1>1, SoleInvariant, PTL

\* Inline, jobs.json never loses a record and never changes how a job ended,
\* though every operation replaces the whole file from memory (with_jobs).
THEOREM RecordsAreKept ==
    ASSUME Process = {Front}
    PROVE  Spec => RecordsKept
<1>1. IInv /\ SoleInv /\ [Next]_vars =>
          [\A j \in Job :
               /\ disk[j] # NoRecord => disk'[j] # NoRecord
               /\ disk[j].status \in TerminalStatus => disk'[j] = disk[j]]_vars
  BY SoleStep DEF Settling, Kept
<1>. QED  BY <1>1, SoleInvariant, PTL DEF Spec, RecordsKept
=============================================================================
