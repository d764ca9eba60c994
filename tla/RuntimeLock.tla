----------------------------- MODULE RuntimeLock -----------------------------
(***************************************************************************)
(* The lock file that keeps one engine, transport or worker process alive  *)
(* at a time (src/src/runtime.rs).  One file, of one role: acquire_engine  *)
(* and acquire_role, *_is_running and both guards share the code.  Every   *)
(* system call is a step of its own, so processes interleave between them. *)
(* A Process that was killed never returns; one that ended may start again *)
(* and is then another process that happens to have the old one's pid.     *)
(***************************************************************************)
CONSTANTS Process, Modes, Faults, Nobody

ASSUME LockAssumption ==
    /\ Modes \subseteq {"try", "wait", "ask"}   \* ask: role_is_running
    /\ Faults \subseteq {"kill", "disk"}        \* disk: a write fails
    /\ Nobody \notin Process

VARIABLES lock,       \* the file at the lock's path, or NoFile
          status,     \* the process the status file names
          proc,       \* what each process is doing
          overlapped, \* history: two processes have contended at a time
          stolen      \* history: a live owner's lock file was removed

vars == <<lock, status, proc, overlapped, stolen>>

\* creator is the file's identity (its inode); fresh: younger than 10 s.
NoFile == [creator |-> Nobody, pid |-> Nobody, fresh |-> FALSE]

\* Between create_new and the return to the caller, or removing a stale file
Contending == {"exists", "create", "stat", "read", "probe", "remove",
               "write", "status"}
Owning     == {"write", "status", "held", "drop", "unlock"}
Gone       == {"out", "killed"}

\* pid and fresh are what it has read of the lock file.
Proc == [at: Contending \union Owning \union Gone,
         mode: {"try", "wait", "ask"},
         pid: Process \union {Nobody}, fresh: BOOLEAN]

Init == /\ lock = NoFile /\ status = Nobody
        /\ proc = [p \in Process |-> [at |-> "out", mode |-> "try",
                                      pid |-> Nobody, fresh |-> FALSE]]
        /\ overlapped = FALSE /\ stolen = FALSE

Goes(p, at) == proc' = [proc EXCEPT ![p] =
                            [at |-> at, mode |-> proc[p].mode,
                             pid |-> Nobody, fresh |-> FALSE]]

\* The file leaves the path, whoever's it is.
RemovesLock(p) ==
    /\ lock' = NoFile
    /\ stolen' = \/ stolen
                 \/ /\ lock.creator \notin {p, Nobody}
                    /\ proc[lock.creator].at \in Owning

Start(p, mode) ==
    /\ proc[p].at = "out"
    /\ proc' = [proc EXCEPT ![p] =
                    [at |-> IF mode = "ask" THEN "exists" ELSE "create",
                     mode |-> mode, pid |-> Nobody, fresh |-> FALSE]]
    /\ overlapped' = \/ overlapped
                     \/ \E q \in Process : proc[q].at \in Contending
    /\ UNCHANGED <<lock, status, stolen>>

\* role_is_running: no lock file, no process.
Exists(p) == /\ proc[p].at = "exists"
             /\ Goes(p, IF lock = NoFile THEN "out" ELSE "stat")
             /\ UNCHANGED <<lock, status, overlapped, stolen>>

\* Mutant: open without create_new.
CreateOver(p) ==
    /\ proc[p].at = "create"
    /\ lock' = [creator |-> p, pid |-> Nobody, fresh |-> TRUE]
    /\ Goes(p, "write")
    /\ UNCHANGED <<status, overlapped, stolen>>

Create(p) ==
    /\ proc[p].at = "create"
    /\ IF lock = NoFile
       THEN /\ lock' = [creator |-> p, pid |-> Nobody, fresh |-> TRUE]
            /\ Goes(p, "write")
       ELSE Goes(p, "stat") /\ UNCHANGED lock
    /\ UNCHANGED <<status, overlapped, stolen>>

\* fs::metadata: an error when the file has gone in the meantime.
Stat(p) == /\ proc[p].at = "stat"
           /\ IF lock = NoFile
              THEN Goes(p, "out")
              ELSE proc' = [proc EXCEPT ![p] =
                                [@ EXCEPT !.at = "read", !.fresh = lock.fresh]]
           /\ UNCHANGED <<lock, status, overlapped, stolen>>

\* What the caller does with "active": up to acquire_role's mode.
Answered(p) == IF proc[p].mode = "wait" THEN "create" ELSE "out"

\* Mutant: a file without a pid counts as active however old it is.
ReadPatiently(p) ==
    /\ proc[p].at = "read"
    /\ IF lock.pid = Nobody
       THEN Goes(p, Answered(p))
       ELSE proc' = [proc EXCEPT ![p] = [@ EXCEPT !.at = "probe",
                                                  !.pid = lock.pid]]
    /\ UNCHANGED <<lock, status, overlapped, stolen>>

\* A file that names no pid (or has gone) is active while it is fresh.
Read(p) ==
    /\ proc[p].at = "read"
    /\ IF lock.pid = Nobody
       THEN Goes(p, IF proc[p].fresh THEN Answered(p) ELSE "remove")
       ELSE proc' = [proc EXCEPT ![p] = [@ EXCEPT !.at = "probe",
                                                  !.pid = lock.pid]]
    /\ UNCHANGED <<lock, status, overlapped, stolen>>

\* Mutant: only the own pid counts as alive.
ProbeOwn(p) ==
    /\ proc[p].at = "probe"
    /\ Goes(p, IF proc[p].pid = p THEN Answered(p) ELSE "remove")
    /\ UNCHANGED <<lock, status, overlapped, stolen>>

\* kill -0
Probe(p) ==
    /\ proc[p].at = "probe"
    /\ Goes(p, IF proc[proc[p].pid].at \notin Gone THEN Answered(p)
                                                   ELSE "remove")
    /\ UNCHANGED <<lock, status, overlapped, stolen>>

Remove(p) == /\ proc[p].at = "remove"
             /\ RemovesLock(p)
             /\ Goes(p, IF proc[p].mode = "ask" THEN "out" ELSE "create")
             /\ UNCHANGED <<status, overlapped>>

\* Mutant: the pid is written to the path.
WriteByPath(p) == /\ proc[p].at = "write"
                  /\ lock' = [lock EXCEPT !.pid = p, !.fresh = TRUE]
                  /\ Goes(p, "status")
                  /\ UNCHANGED <<status, overlapped, stolen>>

\* The pid goes into the file that was created, wherever that is by now.
Write(p) == /\ proc[p].at = "write"
            /\ lock' = IF lock.creator = p
                       THEN [lock EXCEPT !.pid = p, !.fresh = TRUE]
                       ELSE lock
            /\ Goes(p, "status")
            /\ UNCHANGED <<status, overlapped, stolen>>

WriteStatus(p) == /\ proc[p].at = "status"
                  /\ status' = p
                  /\ Goes(p, "held")
                  /\ UNCHANGED <<lock, overlapped, stolen>>

\* The guard exists only once the pid is written: before that an error
\* leaves the file behind, after it the guard is dropped.
WriteFails(p) == /\ "disk" \in Faults
                 /\ \/ proc[p].at = "write" /\ Goes(p, "out")
                    \/ proc[p].at = "status" /\ Goes(p, "drop")
                 /\ UNCHANGED <<lock, status, overlapped, stolen>>

DropStatus(p) == /\ proc[p].at \in {"held", "drop"}
                 /\ status' = Nobody
                 /\ Goes(p, "unlock")
                 /\ UNCHANGED <<lock, overlapped, stolen>>

Unlock(p) == /\ proc[p].at = "unlock"
             /\ RemovesLock(p)
             /\ Goes(p, "out")
             /\ UNCHANGED <<status, overlapped>>

Kill(p) == /\ "kill" \in Faults /\ proc[p].at \notin Gone
           /\ proc' = [proc EXCEPT ![p] = [at |-> "killed", mode |-> "try",
                                           pid |-> Nobody, fresh |-> FALSE]]
           /\ UNCHANGED <<lock, status, overlapped, stolen>>

\* Ten seconds pass after the last write to the file.
Age == /\ lock.fresh
       /\ lock' = [lock EXCEPT !.fresh = FALSE]
       /\ UNCHANGED <<status, proc, overlapped, stolen>>

Acquiring(p) == \/ Exists(p) \/ Create(p) \/ Stat(p) \/ Read(p) \/ Probe(p)
                \/ Remove(p) \/ Write(p) \/ WriteStatus(p) \/ WriteFails(p)

Next == \/ Age
        \/ \E p \in Process : \/ \E mode \in Modes : Start(p, mode)
                              \/ Acquiring(p) \/ DropStatus(p) \/ Unlock(p)
                              \/ Kill(p)

Spec == Init /\ [][Next]_vars

\* A process in these functions goes on, and a service that ended is started
\* again (KeepAlive, Restart=always, the tmux loop).  Writes that fail do not
\* fail for ever.
Fairness == /\ WF_vars(Age)
            /\ \A p \in Process : /\ WF_vars(Acquiring(p)) /\ WF_vars(Unlock(p))
                                  /\ WF_vars(Start(p, "wait"))
                                  /\ SF_vars(Write(p)) /\ SF_vars(WriteStatus(p))
                                  /\ WF_vars(proc[p].at = "drop" /\ DropStatus(p))

FairSpec == Spec /\ Fairness

-----------------------------------------------------------------------------
TypeOK == /\ lock \in [creator: Process \union {Nobody},
                       pid: Process \union {Nobody}, fresh: BOOLEAN]
          /\ status \in Process \union {Nobody}
          /\ proc \in [Process -> Proc]
          /\ overlapped \in BOOLEAN /\ stolen \in BOOLEAN

\* The lock is exclusive (runtime.rs test engine_lock_is_exclusive).
OneHolder == \A p, q \in Process :
                 proc[p].at = "held" /\ proc[q].at = "held" => p = q

\* Whatever processes interleave or die, exclusion is lost in one way only:
\* somebody removed the lock file of a process that owns it (create_new is
\* atomic; remove_file does not look at what it removes).
ExclusiveUntilStolen == stolen \/ OneHolder

\* When processes never contend two at a time (one supervisor starting one
\* process, nobody asking meanwhile), the lock is exclusive and names its
\* holder, whatever dies and whatever is left behind.
SerialStartsSafe ==
    \/ overlapped
    \/ /\ OneHolder
       /\ \A p \in Process : proc[p].at = "held" =>
              lock.creator = p /\ lock.pid = p /\ status = p

\* A process that waits for the lock holds it at last when all others have
\* gone, however they went (docs/services.md: "lets a service take over").
Alone(p) == /\ proc[p].mode = "wait" /\ proc[p].at # "killed"
            /\ \A q \in Process \ {p} : proc[q].at \in Gone

WaiterTakesOver ==
    \A p \in Process : <>[]Alone(p) => []<>(proc[p].at = "held")

-----------------------------------------------------------------------------
(* The inductive invariant behind the two safety properties. *)

Owns(p)     == proc[p].at \in Owning
Contends(p) == proc[p].at \in Contending

\* A file names its creator or, before the pid is written, nobody.
FileText == /\ lock.pid \in {Nobody, lock.creator}
            /\ lock.creator = Nobody => lock = NoFile

\* Unless a lock was stolen, an owner's file is there and says what the
\* owner wrote, and the status file is the holder's.
OwnersKeepLock ==
    ~stolen => \A p \in Process :
                   /\ Owns(p) =>
                          /\ lock.creator = p
                          /\ lock.pid = IF proc[p].at = "write" THEN Nobody
                                                                ELSE p
                   /\ proc[p].at = "held" => status = p

\* A lone contender acts on what is still true: the file it probes is there
\* unchanged or gone, and the file it removes has no owner.
LoneContender ==
    ~overlapped =>
        /\ ~stolen
        /\ \A p, q \in Process : Contends(p) /\ Contends(q) => p = q
        /\ \A p \in Process :
               /\ proc[p].at = "probe" =>
                      proc[p].pid \in Process /\ lock.pid \in {Nobody, proc[p].pid}
               /\ proc[p].at = "remove" => \A q \in Process : ~Owns(q)

IInv == TypeOK /\ FileText /\ OwnersKeepLock /\ LoneContender
=============================================================================
