-------------------------- MODULE RuntimeLockProofs --------------------------
(***************************************************************************)
(* Proofs about the lock file for any set of processes: one step per       *)
(* action keeps IInv, which implies both safety properties.                *)
(***************************************************************************)
EXTENDS RuntimeLock, TLAPS

LEMMA InitIInv == Init => IInv
<1>. SUFFICES ASSUME Init PROVE IInv
  OBVIOUS
<1>1. \A p \in Process : proc[p] = [at |-> "out", mode |-> "try",
                                    pid |-> Nobody, fresh |-> FALSE]
  BY DEF Init
<1>2. TypeOK
  BY DEF Init, TypeOK, NoFile, Proc, Contending, Owning, Gone
<1>3. FileText /\ OwnersKeepLock /\ LoneContender
  BY <1>1 DEF Init, FileText, OwnersKeepLock, LoneContender, NoFile, Owns,
              Contends, Owning, Contending
<1>. QED  BY <1>2, <1>3 DEF IInv

\* A process that only changes its own record, between states in which it
\* owns nothing, disturbs nobody.
LEMMA Steps ==
    ASSUME TypeOK, NEW p \in Process,
           NEW s \in Proc, proc' = [proc EXCEPT ![p] = s]
    PROVE  /\ proc' \in [Process -> Proc]
           /\ proc'[p] = s
           /\ \A q \in Process \ {p} : proc'[q] = proc[q]
  BY DEF TypeOK

LEMMA GoesTo ==
    ASSUME TypeOK, NEW p \in Process,
           NEW at \in Contending \union Owning \union Gone, Goes(p, at)
    PROVE  \E s \in Proc : /\ s = [at |-> at, mode |-> proc[p].mode,
                                   pid |-> Nobody, fresh |-> FALSE]
                           /\ proc' = [proc EXCEPT ![p] = s]
<1>. DEFINE s == [at |-> at, mode |-> proc[p].mode, pid |-> Nobody,
                  fresh |-> FALSE]
<1>2. s \in Proc
  <2>1. proc[p].mode \in {"try", "wait", "ask"}
    BY DEF TypeOK, Proc
  <2>. QED  BY <2>1 DEF Proc
<1>3. proc' = [proc EXCEPT ![p] = s]
  BY DEF Goes
<1>. QED  BY <1>2, <1>3

-----------------------------------------------------------------------------
LEMMA StartIInv ==
    ASSUME IInv, NEW p \in Process, NEW mode \in Modes, Start(p, mode)
    PROVE  IInv'
<1>. DEFINE s == [at |-> IF mode = "ask" THEN "exists" ELSE "create",
                  mode |-> mode, pid |-> Nobody, fresh |-> FALSE]
<1>1. /\ s \in Proc /\ s.at \in {"exists", "create"}
      /\ proc' = [proc EXCEPT ![p] = s]
  BY LockAssumption DEF Start, Proc, Contending, LockAssumption
<1>. HIDE DEF s
<1>2. /\ proc' \in [Process -> Proc] /\ proc'[p] = s
      /\ \A q \in Process \ {p} : proc'[q] = proc[q]
  BY <1>1, Steps DEF IInv
<1>3. TypeOK'
  BY <1>2 DEF IInv, TypeOK, Start
<1>4. FileText' /\ OwnersKeepLock'
  BY <1>1, <1>2 DEF IInv, FileText, OwnersKeepLock, Start, Owns, Owning, NoFile
<1>5. LoneContender'
  <2>. SUFFICES ASSUME ~overlapped' PROVE LoneContender'
    BY DEF LoneContender
  <2>1. ~overlapped /\ \A q \in Process : proc[q].at \notin Contending
    BY DEF Start, IInv, TypeOK
  <2>. QED
    BY <1>1, <1>2, <2>1
    DEF IInv, LoneContender, Start, Owns, Contends, Owning, Contending
<1>. QED  BY <1>3, <1>4, <1>5 DEF IInv

\* A contender that neither owns the lock nor is about to.
LEMMA ContenderIInv ==
    ASSUME IInv, NEW p \in Process,
           NEW s \in Proc, proc' = [proc EXCEPT ![p] = s],
           Contends(p), ~Owns(p),
           s.at \in (Contending \union Gone) \ {"write", "status"},
           UNCHANGED <<lock, status, overlapped, stolen>>,
           s.at = "probe" => s.pid \in Process /\ lock.pid \in {Nobody, s.pid},
           s.at = "remove" /\ ~overlapped => \A q \in Process : ~Owns(q)
    PROVE  IInv'
<1>1. /\ proc' \in [Process -> Proc] /\ proc'[p] = s
      /\ \A q \in Process \ {p} : proc'[q] = proc[q]
  BY Steps DEF IInv
<1>2. TypeOK' /\ FileText'
  BY <1>1 DEF IInv, TypeOK, FileText, NoFile
<1>3. s.at \notin Owning
  BY DEF Owning, Contending, Gone
<1>4. OwnersKeepLock'
  BY <1>1, <1>3 DEF IInv, OwnersKeepLock, Owns, Owning
<1>5. LoneContender'
  BY <1>1, <1>3 DEF IInv, LoneContender, Owns, Contends, Contending, Gone
<1>. QED  BY <1>2, <1>4, <1>5 DEF IInv

LEMMA QuietIInv ==
    ASSUME IInv, NEW p \in Process,
           Exists(p) \/ Stat(p) \/ Read(p) \/ Probe(p)
    PROVE  IInv'
<1>0. /\ Contends(p) /\ ~Owns(p)
      /\ UNCHANGED <<lock, status, overlapped, stolen>>
  BY DEF Exists, Stat, Read, Probe, Contends, Owns, Contending, Owning
<1>1. Answered(p) \in {"create", "out"}
  BY DEF Answered
<1>2. CASE Exists(p)
  <2>. PICK at \in {"out", "stat"} : Goes(p, at)
    BY <1>2 DEF Exists
  <2>1. PICK s \in Proc : s.at = at /\ proc' = [proc EXCEPT ![p] = s]
    BY GoesTo DEF IInv, Contending, Gone
  <2>. QED  BY <1>0, <2>1, ContenderIInv DEF Contending, Gone
<1>3. CASE Stat(p)
  <2>1. CASE lock = NoFile
    <3>1. PICK s \in Proc : s.at = "out" /\ proc' = [proc EXCEPT ![p] = s]
      BY <1>3, <2>1, GoesTo DEF Stat, IInv, Gone
    <3>. QED  BY <1>0, <3>1, ContenderIInv DEF Contending, Gone
  <2>2. CASE lock # NoFile
    <3>. DEFINE t == [proc[p] EXCEPT !.at = "read", !.fresh = lock.fresh]
    <3>1. proc' = [proc EXCEPT ![p] = t]
      BY <1>3, <2>2 DEF Stat
    <3>2. t \in Proc /\ t.at = "read"
      BY DEF IInv, TypeOK, Proc, Contending
    <3>. HIDE DEF t
    <3>. QED  BY <1>0, <3>1, <3>2, ContenderIInv DEF Contending, Gone
  <2>. QED  BY <2>1, <2>2
<1>4. CASE Read(p)
  <2>1. CASE lock.pid = Nobody
    <3>. PICK at \in {"create", "out", "remove"} : Goes(p, at)
      BY <1>1, <1>4, <2>1 DEF Read
    <3>1. PICK s \in Proc : s.at = at /\ proc' = [proc EXCEPT ![p] = s]
      BY GoesTo DEF IInv, Contending, Gone
    <3>2. ~overlapped => \A q \in Process : ~Owns(q)
      <4>. SUFFICES ASSUME ~overlapped, NEW q \in Process, Owns(q)
                    PROVE  FALSE
        OBVIOUS
      <4>1. q # p /\ ~Contends(q)
        BY <1>0 DEF IInv, LoneContender
      <4>2. lock.pid = q
        BY <4>1 DEF IInv, LoneContender, OwnersKeepLock, Contends, Contending
      <4>. QED  BY <2>1, <4>2, LockAssumption DEF LockAssumption
    <3>. QED  BY <1>0, <3>1, <3>2, ContenderIInv DEF Contending, Gone
  <2>2. CASE lock.pid # Nobody
    <3>. DEFINE t == [proc[p] EXCEPT !.at = "probe", !.pid = lock.pid]
    <3>1. proc' = [proc EXCEPT ![p] = t]
      BY <1>4, <2>2 DEF Read
    <3>2. t \in Proc /\ t.at = "probe" /\ t.pid = lock.pid /\ t.pid \in Process
      BY <2>2 DEF IInv, TypeOK, Proc, Contending
    <3>. HIDE DEF t
    <3>. QED  BY <1>0, <3>1, <3>2, ContenderIInv DEF Contending, Gone
  <2>. QED  BY <2>1, <2>2
<1>5. CASE Probe(p)
  <2>. PICK at \in {"create", "out", "remove"} :
           /\ Goes(p, at)
           /\ at = "remove" => proc[proc[p].pid].at \in Gone
    BY <1>1, <1>5 DEF Probe
  <2>1. PICK s \in Proc : s.at = at /\ proc' = [proc EXCEPT ![p] = s]
    BY GoesTo DEF IInv, Contending, Gone
  <2>2. at = "remove" /\ ~overlapped => \A q \in Process : ~Owns(q)
    <3>. SUFFICES ASSUME at = "remove", ~overlapped,
                         NEW q \in Process, Owns(q)
                  PROVE  FALSE
      OBVIOUS
    <3>1. q # p /\ ~Contends(q)
      BY <1>0 DEF IInv, LoneContender
    <3>2. lock.pid = q
      BY <3>1 DEF IInv, LoneContender, OwnersKeepLock, Contends, Contending
    <3>3. proc[p].pid = q
      <4>1. lock.pid \in {Nobody, proc[p].pid}
        BY <1>5 DEF IInv, LoneContender, Probe
      <4>. QED  BY <3>2, <4>1, LockAssumption DEF LockAssumption
    <3>. QED  BY <3>3 DEF Owns, Owning, Gone
  <2>. QED  BY <1>0, <2>1, <2>2, ContenderIInv DEF Contending, Gone
<1>. QED  BY <1>2, <1>3, <1>4, <1>5

\* create_new: the new file is the creator's, or it looks at the old one.
LEMMA CreateIInv ==
    ASSUME IInv, NEW p \in Process, Create(p)
    PROVE  IInv'
<1>0. /\ Contends(p) /\ ~Owns(p) /\ p # Nobody
      /\ UNCHANGED <<status, overlapped, stolen>>
  BY LockAssumption DEF Create, Contends, Owns, Contending, Owning,
                        LockAssumption
<1>1. CASE lock # NoFile
  <2>1. Goes(p, "stat") /\ UNCHANGED lock
    BY <1>1 DEF Create
  <2>2. PICK s \in Proc : s.at = "stat" /\ proc' = [proc EXCEPT ![p] = s]
    BY <2>1, GoesTo DEF IInv, Contending
  <2>. QED  BY <1>0, <2>1, <2>2, ContenderIInv DEF Contending
<1>2. CASE lock = NoFile
  <2>1. /\ lock' = [creator |-> p, pid |-> Nobody, fresh |-> TRUE]
        /\ Goes(p, "write")
    BY <1>2 DEF Create
  <2>2. PICK s \in Proc : s.at = "write" /\ proc' = [proc EXCEPT ![p] = s]
    BY <2>1, GoesTo DEF IInv, Contending
  <2>3. /\ proc' \in [Process -> Proc] /\ proc'[p] = s
        /\ \A q \in Process \ {p} : proc'[q] = proc[q]
    BY <2>2, Steps DEF IInv
  <2>4. TypeOK' /\ FileText'
    BY <1>0, <2>1, <2>3 DEF IInv, TypeOK, FileText, NoFile
  <2>5. ~stolen => \A q \in Process : ~Owns(q)
    <3>1. \A q \in Process : q # Nobody
      BY LockAssumption DEF LockAssumption
    <3>2. lock.creator = Nobody
      BY <1>2 DEF NoFile
    <3>. QED  BY <3>1, <3>2 DEF IInv, OwnersKeepLock
  <2>6. OwnersKeepLock'
    BY <1>0, <2>1, <2>2, <2>3, <2>5 DEF OwnersKeepLock, Owns, Owning
  <2>7. LoneContender'
    <3>. SUFFICES ASSUME ~overlapped' PROVE LoneContender'
      BY DEF LoneContender
    <3>1. ~overlapped /\ \A q \in Process \ {p} : ~Contends(q)
      BY <1>0 DEF IInv, LoneContender
    <3>. QED  BY <1>0, <2>2, <2>3, <3>1
              DEF IInv, LoneContender, Owns, Contends, Contending
  <2>. QED  BY <2>4, <2>6, <2>7 DEF IInv
<1>. QED  BY <1>1, <1>2

LEMMA RemovesIInv ==
    ASSUME IInv, NEW p \in Process, Remove(p) \/ Unlock(p)
    PROVE  IInv'
<1>1. PICK at \in {"out", "create"} : Goes(p, at)
  BY DEF Remove, Unlock
<1>2. PICK s \in Proc : s.at = at /\ proc' = [proc EXCEPT ![p] = s]
  BY <1>1, GoesTo DEF IInv, Contending, Gone
<1>3. /\ proc' \in [Process -> Proc] /\ proc'[p] = s
      /\ \A q \in Process \ {p} : proc'[q] = proc[q]
  BY <1>2, Steps DEF IInv
<1>4. /\ lock' = NoFile /\ UNCHANGED <<status, overlapped>>
      /\ stolen' \in BOOLEAN
      /\ stolen => stolen'
      /\ ~stolen' => lock.creator \in {p, Nobody}
                     \/ proc[lock.creator].at \notin Owning
  BY DEF Remove, Unlock, RemovesLock, IInv, TypeOK
<1>5. TypeOK' /\ FileText'
  BY <1>3, <1>4 DEF IInv, TypeOK, FileText, NoFile
<1>6. ~Owns(p)' /\ s.at \notin {"held", "write", "status", "probe", "remove"}
  BY <1>2, <1>3 DEF Owns, Owning
<1>7. ~stolen' => \A q \in Process \ {p} : ~Owns(q)
  <2>1. \A q \in Process : q # Nobody
    BY LockAssumption DEF LockAssumption
  <2>2. ~stolen => \A q \in Process : Owns(q) => lock.creator = q
    BY DEF IInv, OwnersKeepLock
  <2>. QED  BY <1>4, <2>1, <2>2 DEF Owns
<1>8. OwnersKeepLock'
  <2>1. ~stolen' => \A q \in Process : ~Owns(q)'
    BY <1>3, <1>6, <1>7 DEF Owns
  <2>. QED  BY <2>1 DEF OwnersKeepLock, Owns, Owning
<1>9. LoneContender'
  <2>. SUFFICES ASSUME ~overlapped' PROVE LoneContender'
    BY DEF LoneContender
  <2>1. ~overlapped /\ ~stolen
    BY <1>4 DEF IInv, LoneContender
  <2>2. ~stolen'
    <3>1. \A q \in Process : q # Nobody
      BY LockAssumption DEF LockAssumption
    <3>2. CASE Remove(p)
      <4>1. \A q \in Process : ~Owns(q)
        BY <2>1, <3>2 DEF IInv, LoneContender, Remove
      <4>. QED  BY <2>1, <3>2, <4>1
                DEF Remove, RemovesLock, Owns, IInv, TypeOK
    <3>3. CASE Unlock(p)
      <4>1. lock.creator = p
        BY <2>1, <3>3 DEF IInv, OwnersKeepLock, Owns, Owning, Unlock
      <4>. QED  BY <2>1, <3>3, <4>1 DEF Unlock, RemovesLock
    <3>. QED  BY <3>2, <3>3
  <2>3. \A q, r \in Process : Contends(q)' /\ Contends(r)' => q = r
    <3>1. CASE Remove(p)
      <4>1. Contends(p)
        BY <3>1 DEF Remove, Contends, Contending
      <4>2. \A q \in Process \ {p} : ~Contends(q)
        BY <2>1, <4>1 DEF IInv, LoneContender
      <4>. QED  BY <1>3, <4>2 DEF Contends
    <3>2. CASE Unlock(p)
      <4>1. s.at = "out"
        BY <3>2, <1>3 DEF Unlock, Goes, IInv, TypeOK
      <4>. QED  BY <1>3, <2>1, <4>1
                DEF IInv, LoneContender, Contends, Contending
    <3>. QED  BY <3>1, <3>2
  <2>4. \A q \in Process : proc'[q].at = "probe" =>
            proc'[q].pid \in Process /\ lock'.pid \in {Nobody, proc'[q].pid}
    BY <1>3, <1>4, <1>6, <2>1 DEF IInv, LoneContender, NoFile
  <2>5. \A q \in Process : proc'[q].at = "remove" =>
            \A r \in Process : ~Owns(r)'
    BY <1>3, <1>6, <1>7, <2>2 DEF Owns
  <2>. QED  BY <2>2, <2>3, <2>4, <2>5 DEF LoneContender
<1>. QED  BY <1>5, <1>8, <1>9 DEF IInv

\* An owner writes its pid into its file.
LEMMA WriteIInv ==
    ASSUME IInv, NEW p \in Process, Write(p)
    PROVE  IInv'
<1>1. Goes(p, "status") /\ UNCHANGED <<status, overlapped, stolen>>
  BY DEF Write
<1>2. PICK s \in Proc : s.at = "status" /\ proc' = [proc EXCEPT ![p] = s]
  BY <1>1, GoesTo DEF IInv, Contending
<1>3. /\ proc' \in [Process -> Proc] /\ proc'[p] = s
      /\ \A q \in Process \ {p} : proc'[q] = proc[q]
  BY <1>2, Steps DEF IInv
<1>4. \/ /\ lock.creator = p /\ lock'.creator = p /\ lock'.pid = p
         /\ lock' \in [creator: Process \union {Nobody},
                       pid: Process \union {Nobody}, fresh: BOOLEAN]
      \/ lock.creator # p /\ lock' = lock
  BY DEF Write, IInv, TypeOK
<1>5. p # Nobody /\ Owns(p) /\ Contends(p)
  BY LockAssumption
  DEF LockAssumption, Write, Owns, Owning, Contends, Contending
<1>6. TypeOK' /\ FileText'
  BY <1>1, <1>3, <1>4, <1>5 DEF IInv, TypeOK, FileText, NoFile
<1>7. OwnersKeepLock'
  <2>. SUFFICES ASSUME ~stolen PROVE OwnersKeepLock'
    BY <1>1 DEF OwnersKeepLock
  <2>1. lock.creator = p /\ \A q \in Process \ {p} : ~Owns(q)
    BY <1>5 DEF IInv, OwnersKeepLock
  <2>. QED  BY <1>1, <1>2, <1>3, <1>4, <2>1 DEF OwnersKeepLock, Owns, Owning
<1>8. LoneContender'
  <2>. SUFFICES ASSUME ~overlapped PROVE LoneContender'
    BY <1>1 DEF LoneContender
  <2>1. \A q \in Process \ {p} : ~Contends(q)
    BY <1>5 DEF IInv, LoneContender
  <2>. QED  BY <1>1, <1>2, <1>3, <2>1
            DEF IInv, LoneContender, Owns, Contends, Contending
<1>. QED  BY <1>6, <1>7, <1>8 DEF IInv

\* Steps that neither write nor remove the lock file.
LEMMA OwnerIInv ==
    ASSUME IInv, NEW p \in Process,
           WriteStatus(p) \/ WriteFails(p) \/ DropStatus(p)
    PROVE  IInv'
<1>1. /\ UNCHANGED <<lock, overlapped, stolen>> /\ Owns(p)
      /\ status' \in Process \union {Nobody}
  BY DEF WriteStatus, WriteFails, DropStatus, Owns, Owning, IInv, TypeOK
<1>2. PICK at \in {"held", "drop", "unlock", "out"} :
          /\ Goes(p, at)
          /\ at # "out" => proc[p].at # "write"
          /\ at = "held" => status' = p
  BY DEF WriteStatus, WriteFails, DropStatus
<1>3. PICK s \in Proc : s.at = at /\ proc' = [proc EXCEPT ![p] = s]
  BY <1>2, GoesTo DEF IInv, Owning, Gone
<1>4. /\ proc' \in [Process -> Proc] /\ proc'[p] = s
      /\ \A q \in Process \ {p} : proc'[q] = proc[q]
  BY <1>3, Steps DEF IInv
<1>5. TypeOK' /\ FileText'
  BY <1>1, <1>4 DEF IInv, TypeOK, FileText, NoFile
<1>6. OwnersKeepLock'
  <2>. SUFFICES ASSUME ~stolen PROVE OwnersKeepLock'
    BY <1>1 DEF OwnersKeepLock
  <2>1. lock.creator = p /\ \A q \in Process \ {p} : ~Owns(q)
    BY <1>1 DEF IInv, OwnersKeepLock
  <2>2. at # "out" => lock.pid = p
    BY <1>1, <1>2 DEF IInv, OwnersKeepLock
  <2>. QED  BY <1>1, <1>2, <1>3, <1>4, <2>1, <2>2
            DEF OwnersKeepLock, Owns, Owning
<1>7. LoneContender'
  BY <1>1, <1>3, <1>4
  DEF IInv, LoneContender, Owns, Owning, Contends, Contending
<1>. QED  BY <1>5, <1>6, <1>7 DEF IInv

LEMMA KillIInv ==
    ASSUME IInv, NEW p \in Process, Kill(p)
    PROVE  IInv'
<1>. DEFINE s == [at |-> "killed", mode |-> "try", pid |-> Nobody,
                  fresh |-> FALSE]
<1>1. /\ s \in Proc /\ s.at = "killed" /\ proc' = [proc EXCEPT ![p] = s]
      /\ UNCHANGED <<lock, status, overlapped, stolen>>
  BY DEF Kill, Proc, Gone
<1>. HIDE DEF s
<1>2. /\ proc' \in [Process -> Proc] /\ proc'[p] = s
      /\ \A q \in Process \ {p} : proc'[q] = proc[q]
  BY <1>1, Steps DEF IInv
<1>3. TypeOK' /\ FileText'
  BY <1>1, <1>2 DEF IInv, TypeOK, FileText, NoFile
<1>4. OwnersKeepLock'
  BY <1>1, <1>2 DEF IInv, OwnersKeepLock, Owns, Owning
<1>5. LoneContender'
  BY <1>1, <1>2 DEF IInv, LoneContender, Owns, Owning, Contends, Contending
<1>. QED  BY <1>3, <1>4, <1>5 DEF IInv

LEMMA AgeIInv ==
    ASSUME IInv, Age
    PROVE  IInv'
<1>1. /\ lock' = [lock EXCEPT !.fresh = FALSE] /\ lock # NoFile
      /\ UNCHANGED <<status, proc, overlapped, stolen>>
  BY DEF Age, NoFile
<1>2. /\ lock'.creator = lock.creator /\ lock'.pid = lock.pid
      /\ lock' \in [creator: Process \union {Nobody},
                    pid: Process \union {Nobody}, fresh: BOOLEAN]
  BY <1>1 DEF IInv, TypeOK
<1>3. TypeOK' /\ FileText'
  BY <1>1, <1>2 DEF IInv, TypeOK, FileText
<1>4. OwnersKeepLock' /\ LoneContender'
  BY <1>1, <1>2 DEF IInv, OwnersKeepLock, LoneContender, Owns, Contends
<1>. QED  BY <1>3, <1>4 DEF IInv

LEMMA NextIInv == IInv /\ [Next]_vars => IInv'
<1>. SUFFICES ASSUME IInv, [Next]_vars PROVE IInv'
  OBVIOUS
<1>1. CASE UNCHANGED vars
  BY <1>1 DEF vars, IInv, TypeOK, FileText, OwnersKeepLock, LoneContender,
              NoFile, Owns, Contends
<1>2. CASE Age
  BY <1>2, AgeIInv
<1>3. ASSUME NEW p \in Process, NEW mode \in Modes, Start(p, mode)
      PROVE  IInv'
  BY <1>3, StartIInv
<1>4. ASSUME NEW p \in Process, Acquiring(p)
      PROVE  IInv'
  BY <1>4, QuietIInv, CreateIInv, RemovesIInv, WriteIInv, OwnerIInv
  DEF Acquiring
<1>5. ASSUME NEW p \in Process, DropStatus(p) \/ Unlock(p) \/ Kill(p)
      PROVE  IInv'
  BY <1>5, OwnerIInv, RemovesIInv, KillIInv
<1>. QED  BY <1>1, <1>2, <1>3, <1>4, <1>5 DEF Next

-----------------------------------------------------------------------------
\* IInv is an invariant for any processes, whatever they do and whichever die.
THEOREM LockInvariant == Spec => []IInv
<1>. QED  BY InitIInv, NextIInv, PTL DEF Spec

\* The lock is exclusive for as long as no live owner's file was removed.
THEOREM Exclusive == Spec => []ExclusiveUntilStolen
<1>1. IInv => ExclusiveUntilStolen
  BY DEF IInv, OwnersKeepLock, ExclusiveUntilStolen, OneHolder, Owns, Owning
<1>. QED  BY <1>1, LockInvariant, PTL

\* Starts that never overlap keep the lock exclusive and its files truthful.
THEOREM SerialStarts == Spec => []SerialStartsSafe
<1>1. IInv => SerialStartsSafe
  BY DEF IInv, LoneContender, OwnersKeepLock, SerialStartsSafe, OneHolder,
         Owns, Owning
<1>. QED  BY <1>1, LockInvariant, PTL
=============================================================================
