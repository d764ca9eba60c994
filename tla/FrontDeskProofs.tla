---- MODULE FrontDeskProofs ----
(***************************************************************************)
(* Proofs about FrontDesk, for any senders, chats, requests and processes. *)
(* IInv is inductive: each action has a lemma, with one step per part of   *)
(* the invariant.  The parts about approvals and sessions hold while no    *)
(* old copy was written back, those about the allowlist while no old copy  *)
(* of it was put to use; both ghosts only ever become true.                *)
(***************************************************************************)
EXTENDS ApprovalRefinement, TLAPS

-----------------------------------------------------------------------------
(* Operators. *)

LEMMA NothingRecorded == NoRecords \in Records
BY DEF NoRecords, Records, Status

LEMMA IdleTyped == Idle \in Hand
BY DEF Idle, Hand, Steps

LEMMA StepTyped ==
  ASSUME NEW step \in Steps, NEW c \in Chat \cup {None}, hand \in Hand
  PROVE  StepOn(step, c) \in Hand /\ Fallback \in Hand
BY IdleTyped DEF StepOn, Fallback, Hand, Steps

LEMMA GroupAdded ==
  ASSUME NEW groups \in Seq(Chat), NEW c \in Chat
  PROVE  WithGroup(groups, c) \in Seq(Chat)
BY DEF WithGroup

LEMMA Expiry ==
  ASSUME NEW records \in Records, NEW d
  PROVE  /\ ExpirePending(records, d) \in Records
         /\ \A a \in Ask : /\ records[a] # "pending" => ExpirePending(records, d)[a] = records[a]
                           /\ records[a] = "pending"
                              => ExpirePending(records, d)[a] \in {"pending", "expired"}
BY DEF ExpirePending, Records, Status

LEMMA Deciding ==
  ASSUME NEW records \in Records, NEW a \in Ask, NEW status \in Status
  PROVE  /\ Decided(records, a, status) \in Records
         /\ Decided(records, a, status)[a] = status
         /\ \A b \in Ask \ {a} : Decided(records, a, status)[b] = records[b]
BY DEF Decided, Records

LEMMA Creation ==
  ASSUME NEW records \in Records, NEW a \in Ask
  PROVE  /\ Created(records, a) \in Records
         /\ Created(records, a)[a] = "pending"
         /\ \A b \in Ask \ {a} : Created(records, a)[b] = records[b]
BY DEF Created, Records, Status

-----------------------------------------------------------------------------
(* Steps. *)

\* What the file has decided, expiring the memory does not change; what is
\* still pending then has neither run nor been refused.
LEMMA ExpiryKeepsDecisions ==
  ASSUME IInv, ~reverted, listener # None
  PROVE  /\ ExpirePending(approvals, due) \in Records
         /\ \A b \in Ask : /\ approvalsFile[b] \in {"approved", "denied"}
                              => ExpirePending(approvals, due)[b] = approvalsFile[b]
                           /\ origin[b] = None => ExpirePending(approvals, due)[b] = "none"
                           /\ ExpirePending(approvals, due)[b] = "pending"
                              => ran[b] = 0 /\ b \notin refused
<1>1. approvals \in Records /\ DecisionsKnown /\ NewIsBlank /\ RanWasApproved /\ RefusedIsDenied
  BY DEF IInv, TypeOK
<1>2. \A b \in Ask : approvalsFile[b] \in {"approved", "denied"} => approvals[b] = approvalsFile[b]
  BY <1>1 DEF DecisionsKnown
<1>3. \A b \in Ask : ExpirePending(approvals, due)[b] = "pending" => approvals[b] = "pending"
  BY <1>1, Expiry
<1>. QED
  BY <1>1, <1>2, <1>3, Expiry DEF NewIsBlank, RanWasApproved, RefusedIsDenied

LEMMA OpensHomeKeeps ==
  ASSUME NEW c \in Chat,
         IInv, OpensHome(c)
  PROVE  IInv'
<1>1. TypeOK'
  BY DEF IInv, TypeOK, Config, Records, Status, Steps, Hand, Opened, OpensHome, memory, outside, rivals, histories
<1>2. DeskIsEmpty'
  BY DEF IInv, DeskIsEmpty, Idle, OpensHome, memory, outside, rivals, histories
<1>7. HandIsAboutChats'
  BY <1>1 DEF IInv, TypeOK, Hand, HandIsAboutChats, Idle, OpensHome, memory, outside, rivals, histories
<1>3. ~reverted' => (DecisionsKnown /\ NewIsBlank /\ RanWasApproved)'
  BY <1>1 DEF IInv, TypeOK, Hand, Records, Status, DecisionsKnown, NewIsBlank, RanWasApproved, InHandIsFresh,
     RefusedIsDenied, DeskIsEmpty, OpensHome, memory, outside, rivals, histories
<1>4. ~reverted' => (InHandIsFresh /\ RefusedIsDenied)'
  BY <1>1 DEF IInv, TypeOK, Hand, Records, Status, DecisionsKnown, NewIsBlank, RanWasApproved, InHandIsFresh,
     RefusedIsDenied, DeskIsEmpty, OpensHome, memory, outside, rivals, histories
<1>5. ~reverted' => JobsHaveAgents'
  BY DEF IInv, TypeOK, Steps, Hand, JobsHaveAgents, DeskIsEmpty, OpensHome, memory, outside, rivals, histories
<1>6. ~outdated' => AllowlistsAgree'
  BY DEF IInv, TypeOK, Config, AllowlistsAgree, DeskIsEmpty, OpensHome, memory, outside, rivals, histories
<1>. QED
  BY <1>1, <1>2, <1>3, <1>4, <1>5, <1>6, <1>7 DEF IInv

LEMMA LoadsKeeps ==
  ASSUME NEW p \in Process,
         IInv, Loads(p)
  PROVE  IInv'
<1>1. TypeOK'
  BY DEF IInv, TypeOK, Config, Records, Status, Steps, Hand, Opened, Loads, memory, files, outside, rivals, histories, NoCopy
<1>2. DeskIsEmpty'
  BY DEF IInv, DeskIsEmpty, Idle, Loads, memory, files, outside, rivals, histories, NoCopy
<1>7. HandIsAboutChats'
  BY <1>1 DEF IInv, TypeOK, Hand, HandIsAboutChats, Idle, Loads, memory, files, outside, rivals, histories, NoCopy
<1>3. ~reverted' => (DecisionsKnown /\ NewIsBlank /\ RanWasApproved)'
  BY <1>1 DEF IInv, TypeOK, Hand, Records, Status, DecisionsKnown, NewIsBlank, RanWasApproved, InHandIsFresh,
     RefusedIsDenied, DeskIsEmpty, Loads, memory, files, outside, rivals, histories, NoCopy
<1>4. ~reverted' => (InHandIsFresh /\ RefusedIsDenied)'
  BY <1>1 DEF IInv, TypeOK, Hand, Records, Status, DecisionsKnown, NewIsBlank, RanWasApproved, InHandIsFresh,
     RefusedIsDenied, DeskIsEmpty, Loads, memory, files, outside, rivals, histories, NoCopy
<1>5. ~reverted' => JobsHaveAgents'
  BY DEF IInv, TypeOK, Steps, Hand, JobsHaveAgents, DeskIsEmpty, Loads, memory, files, outside, rivals, histories, NoCopy
<1>6. ~outdated' => AllowlistsAgree'
  BY DEF IInv, TypeOK, Config, AllowlistsAgree, DeskIsEmpty, Loads, memory, files, outside, rivals, histories, NoCopy
<1>. QED
  BY <1>1, <1>2, <1>3, <1>4, <1>5, <1>6, <1>7 DEF IInv

LEMMA ServesKeeps ==
  ASSUME NEW p \in Process,
         IInv, Serves(p)
  PROVE  IInv'
<1>1. TypeOK'
  <2>1. chats' \in Seq(Chat) /\ config' \in Config
    BY GroupAdded DEF IInv, HandIsAboutChats, TypeOK, Config, Hand, Serves, Reconciles, Relisted, SavedRelisted, Strikes, rivals
  <2>2. copy' \in [Process -> Config \cup {NoCopy}] /\ listener' \in Process \cup {None}
    BY DEF IInv, TypeOK, Config, Serves, Reconciles, Relisted, SavedRelisted, Strikes, rivals
  <2>3. allowed' \subseteq Sender /\ gate' \in BOOLEAN /\ edited' \in Config \cup {NoCopy}
    BY DEF IInv, TypeOK, Config, Serves, Reconciles, Relisted, SavedRelisted, Strikes, rivals
  <2>4. approvals' \in Records /\ approvalsFile' \in Records /\ opened' \in Opened \cup {None}
    BY NothingRecorded, Expiry, Deciding, Creation DEF IInv, TypeOK, Status, Serves, Reconciles, Relisted, SavedRelisted, Strikes, rivals
  <2>5. origin' \in [Ask -> Chat \cup {None}] /\ due' \subseteq Ask
    BY DEF IInv, TypeOK, Serves, Reconciles, Relisted, SavedRelisted, Strikes, rivals
  <2>6. sessions' \subseteq Chat /\ sessionsFile' \subseteq Chat
    BY DEF IInv, TypeOK, Hand, HandIsAboutChats, Serves, Reconciles, Relisted, SavedRelisted, Strikes, rivals
  <2>7. hand' \in Hand
    BY IdleTyped, StepTyped DEF IInv, HandIsAboutChats, TypeOK, Hand, Steps, Serves, Reconciles, Relisted, SavedRelisted, Strikes, rivals
  <2>8. strikes' \in Nat /\ told' \subseteq Sender /\ refused' \subseteq Ask /\ ready' \subseteq Chat
    BY DEF IInv, TypeOK, Hand, HandIsAboutChats, Serves, Reconciles, Relisted, SavedRelisted, Strikes, rivals
  <2>9. ran' \in [Ask -> Nat] /\ outdated' \in BOOLEAN /\ reverted' \in BOOLEAN
    BY DEF IInv, TypeOK, Serves, Reconciles, Relisted, SavedRelisted, Strikes, rivals
  <2>. QED
    BY <2>1, <2>2, <2>3, <2>4, <2>5, <2>6, <2>7, <2>8, <2>9 DEF TypeOK
<1>2. DeskIsEmpty'
  BY FrontDeskAssumption DEF FrontDeskAssumption, DeskIsEmpty, Serves
<1>7. HandIsAboutChats'
  BY <1>1 DEF IInv, TypeOK, Hand, HandIsAboutChats, Idle, Serves, Reconciles, Relisted, SavedRelisted, Strikes, ExpirePending, rivals, NoCopy
<1>3. ~reverted' => (DecisionsKnown /\ NewIsBlank /\ RanWasApproved)'
  BY <1>1 DEF IInv, TypeOK, Hand, Records, Status, DecisionsKnown, NewIsBlank, RanWasApproved, InHandIsFresh,
     RefusedIsDenied, DeskIsEmpty, Serves, Reconciles, Relisted, SavedRelisted, Strikes, ExpirePending, rivals, NoCopy
<1>4. ~reverted' => (InHandIsFresh /\ RefusedIsDenied)'
  BY <1>1 DEF IInv, TypeOK, Hand, Records, Status, DecisionsKnown, NewIsBlank, RanWasApproved, InHandIsFresh,
     RefusedIsDenied, DeskIsEmpty, Serves, Reconciles, Relisted, SavedRelisted, Strikes, ExpirePending, rivals, NoCopy
<1>5. ~reverted' => JobsHaveAgents'
  BY DEF IInv, TypeOK, Steps, Hand, JobsHaveAgents, DeskIsEmpty, Serves, Reconciles, Relisted, SavedRelisted, Strikes, ExpirePending, rivals, NoCopy
<1>6. ~outdated' => AllowlistsAgree'
  <2>. SUFFICES ASSUME ~outdated' PROVE AllowlistsAgree'
    OBVIOUS
  <2>1. ~outdated /\ copy[p].allowed = config.allowed /\ AllowlistsAgree
    BY DEF IInv, Serves
  <2>2. told' = told /\ allowed' = config.allowed
    BY <2>1 DEF Serves
  <2>3. SavedRelisted(p).allowed = config.allowed
    BY <2>1 DEF Relisted, SavedRelisted
  <2>4. config'.allowed = config.allowed
    BY <2>3 DEF Serves, Reconciles
  <2>. QED
    BY <2>1, <2>2, <2>4 DEF AllowlistsAgree
<1>. QED
  BY <1>1, <1>2, <1>3, <1>4, <1>5, <1>6, <1>7 DEF IInv

LEMMA FailsToServeKeeps ==
  ASSUME NEW p \in Process,
         IInv, FailsToServe(p)
  PROVE  IInv'
<1>1. TypeOK'
  BY DEF IInv, TypeOK, Config, Records, Status, Steps, Hand, Opened, FailsToServe, SavedRelisted, Relisted, Strikes, memory, rivals, NoCopy
<1>2. DeskIsEmpty'
  BY DEF IInv, DeskIsEmpty, Idle, FailsToServe, SavedRelisted, Relisted, Strikes, memory, rivals, NoCopy
<1>7. HandIsAboutChats'
  BY <1>1 DEF IInv, TypeOK, Hand, HandIsAboutChats, Idle, FailsToServe, SavedRelisted, Relisted, Strikes, memory, rivals, NoCopy
<1>3. ~reverted' => (DecisionsKnown /\ NewIsBlank /\ RanWasApproved)'
  BY <1>1 DEF IInv, TypeOK, Hand, Records, Status, DecisionsKnown, NewIsBlank, RanWasApproved, InHandIsFresh,
     RefusedIsDenied, DeskIsEmpty, FailsToServe, SavedRelisted, Relisted, Strikes, memory, rivals, NoCopy
<1>4. ~reverted' => (InHandIsFresh /\ RefusedIsDenied)'
  BY <1>1 DEF IInv, TypeOK, Hand, Records, Status, DecisionsKnown, NewIsBlank, RanWasApproved, InHandIsFresh,
     RefusedIsDenied, DeskIsEmpty, FailsToServe, SavedRelisted, Relisted, Strikes, memory, rivals, NoCopy
<1>5. ~reverted' => JobsHaveAgents'
  BY DEF IInv, TypeOK, Steps, Hand, JobsHaveAgents, DeskIsEmpty, FailsToServe, SavedRelisted, Relisted, Strikes, memory, rivals, NoCopy
<1>6. ~outdated' => AllowlistsAgree'
  BY DEF IInv, TypeOK, Config, AllowlistsAgree, DeskIsEmpty, FailsToServe, SavedRelisted, Relisted, Strikes, memory, rivals, NoCopy
<1>. QED
  BY <1>1, <1>2, <1>3, <1>4, <1>5, <1>6, <1>7 DEF IInv

LEMMA KilledKeeps ==
  ASSUME IInv, Killed
  PROVE  IInv'
<1>1. TypeOK'
  <2>1. chats' \in Seq(Chat) /\ config' \in Config
    BY GroupAdded DEF IInv, HandIsAboutChats, TypeOK, Config, Hand, Killed, Ends, Strikes, files, rivals, histories
  <2>2. copy' \in [Process -> Config \cup {NoCopy}] /\ listener' \in Process \cup {None}
    BY DEF IInv, TypeOK, Config, Killed, Ends, Strikes, files, rivals, histories
  <2>3. allowed' \subseteq Sender /\ gate' \in BOOLEAN /\ edited' \in Config \cup {NoCopy}
    BY DEF IInv, TypeOK, Config, Killed, Ends, Strikes, files, rivals, histories
  <2>4. approvals' \in Records /\ approvalsFile' \in Records /\ opened' \in Opened \cup {None}
    BY NothingRecorded, Expiry, Deciding, Creation DEF IInv, TypeOK, Status, Killed, Ends, Strikes, files, rivals, histories
  <2>5. origin' \in [Ask -> Chat \cup {None}] /\ due' \subseteq Ask
    BY DEF IInv, TypeOK, Killed, Ends, Strikes, files, rivals, histories
  <2>6. sessions' \subseteq Chat /\ sessionsFile' \subseteq Chat
    BY DEF IInv, TypeOK, Hand, HandIsAboutChats, Killed, Ends, Strikes, files, rivals, histories
  <2>7. hand' \in Hand
    BY IdleTyped, StepTyped DEF IInv, HandIsAboutChats, TypeOK, Hand, Steps, Killed, Ends, Strikes, files, rivals, histories
  <2>8. strikes' \in Nat /\ told' \subseteq Sender /\ refused' \subseteq Ask /\ ready' \subseteq Chat
    BY DEF IInv, TypeOK, Hand, HandIsAboutChats, Killed, Ends, Strikes, files, rivals, histories
  <2>9. ran' \in [Ask -> Nat] /\ outdated' \in BOOLEAN /\ reverted' \in BOOLEAN
    BY DEF IInv, TypeOK, Killed, Ends, Strikes, files, rivals, histories
  <2>. QED
    BY <2>1, <2>2, <2>3, <2>4, <2>5, <2>6, <2>7, <2>8, <2>9 DEF TypeOK
<1>2. DeskIsEmpty'
  BY DEF IInv, DeskIsEmpty, Idle, Killed, Ends, NoCopy, NoRecords, Strikes, files, rivals, histories
<1>7. HandIsAboutChats'
  BY <1>1 DEF IInv, TypeOK, Hand, HandIsAboutChats, Idle, Killed, Ends, NoCopy, NoRecords, Strikes, files, rivals, histories
<1>3. ~reverted' => (DecisionsKnown /\ NewIsBlank /\ RanWasApproved)'
  BY <1>1 DEF IInv, TypeOK, Hand, Records, Status, DecisionsKnown, NewIsBlank, RanWasApproved, InHandIsFresh,
     RefusedIsDenied, DeskIsEmpty, Killed, Ends, Idle, NoCopy, NoRecords, Strikes, files, rivals, histories
<1>4. ~reverted' => (InHandIsFresh /\ RefusedIsDenied)'
  BY <1>1 DEF IInv, TypeOK, Hand, Records, Status, DecisionsKnown, NewIsBlank, RanWasApproved, InHandIsFresh,
     RefusedIsDenied, DeskIsEmpty, Killed, Ends, Idle, NoCopy, NoRecords, Strikes, files, rivals, histories
<1>5. ~reverted' => JobsHaveAgents'
  BY DEF IInv, TypeOK, Steps, Hand, JobsHaveAgents, DeskIsEmpty, Killed, Ends, Idle, NoCopy, NoRecords, Strikes, files, rivals, histories
<1>6. ~outdated' => AllowlistsAgree'
  BY DEF IInv, TypeOK, Config, AllowlistsAgree, DeskIsEmpty, Killed, Ends, Idle, NoCopy, NoRecords, Strikes, files, rivals, histories
<1>. QED
  BY <1>1, <1>2, <1>3, <1>4, <1>5, <1>6, <1>7 DEF IInv

LEMMA PairsKeeps ==
  ASSUME NEW s \in Sender,
         IInv, Pairs(s)
  PROVE  IInv'
<1>1. TypeOK'
  <2>1. chats' \in Seq(Chat) /\ config' \in Config
    BY GroupAdded DEF IInv, HandIsAboutChats, TypeOK, Config, Hand, Pairs, AtDesk, outside, rivals
  <2>2. copy' \in [Process -> Config \cup {NoCopy}] /\ listener' \in Process \cup {None}
    BY DEF IInv, TypeOK, Config, Pairs, AtDesk, outside, rivals
  <2>3. allowed' \subseteq Sender /\ gate' \in BOOLEAN /\ edited' \in Config \cup {NoCopy}
    BY DEF IInv, TypeOK, Config, Pairs, AtDesk, outside, rivals
  <2>4. approvals' \in Records /\ approvalsFile' \in Records /\ opened' \in Opened \cup {None}
    BY NothingRecorded, Expiry, Deciding, Creation DEF IInv, TypeOK, Status, Pairs, AtDesk, outside, rivals
  <2>5. origin' \in [Ask -> Chat \cup {None}] /\ due' \subseteq Ask
    BY DEF IInv, TypeOK, Pairs, AtDesk, outside, rivals
  <2>6. sessions' \subseteq Chat /\ sessionsFile' \subseteq Chat
    BY DEF IInv, TypeOK, Hand, HandIsAboutChats, Pairs, AtDesk, outside, rivals
  <2>7. hand' \in Hand
    BY IdleTyped, StepTyped DEF IInv, HandIsAboutChats, TypeOK, Hand, Steps, Pairs, AtDesk, outside, rivals
  <2>8. strikes' \in Nat /\ told' \subseteq Sender /\ refused' \subseteq Ask /\ ready' \subseteq Chat
    BY DEF IInv, TypeOK, Hand, HandIsAboutChats, Pairs, AtDesk, outside, rivals
  <2>9. ran' \in [Ask -> Nat] /\ outdated' \in BOOLEAN /\ reverted' \in BOOLEAN
    BY DEF IInv, TypeOK, Pairs, AtDesk, outside, rivals
  <2>. QED
    BY <2>1, <2>2, <2>3, <2>4, <2>5, <2>6, <2>7, <2>8, <2>9 DEF TypeOK
<1>2. DeskIsEmpty'
  BY DEF IInv, DeskIsEmpty, Idle, Pairs, AtDesk, outside, rivals
<1>7. HandIsAboutChats'
  BY <1>1 DEF IInv, TypeOK, Hand, HandIsAboutChats, Idle, Pairs, AtDesk, outside, rivals
<1>3. ~reverted' => (DecisionsKnown /\ NewIsBlank /\ RanWasApproved)'
  BY <1>1 DEF IInv, TypeOK, Hand, Records, Status, DecisionsKnown, NewIsBlank, RanWasApproved, InHandIsFresh,
     RefusedIsDenied, DeskIsEmpty, Pairs, AtDesk, Idle, outside, rivals
<1>4. ~reverted' => (InHandIsFresh /\ RefusedIsDenied)'
  BY <1>1 DEF IInv, TypeOK, Hand, Records, Status, DecisionsKnown, NewIsBlank, RanWasApproved, InHandIsFresh,
     RefusedIsDenied, DeskIsEmpty, Pairs, AtDesk, Idle, outside, rivals
<1>5. ~reverted' => JobsHaveAgents'
  BY DEF IInv, TypeOK, Steps, Hand, JobsHaveAgents, DeskIsEmpty, Pairs, AtDesk, Idle, outside, rivals
<1>6. ~outdated' => AllowlistsAgree'
  BY DEF IInv, TypeOK, Config, AllowlistsAgree, DeskIsEmpty, Pairs, AtDesk, Idle, outside, rivals
<1>. QED
  BY <1>1, <1>2, <1>3, <1>4, <1>5, <1>6, <1>7 DEF IInv

LEMMA PairingFailsKeeps ==
  ASSUME NEW s \in Sender,
         IInv, PairingFails(s)
  PROVE  IInv'
<1>1. TypeOK'
  <2>1. chats' \in Seq(Chat) /\ config' \in Config
    BY GroupAdded DEF IInv, HandIsAboutChats, TypeOK, Config, Hand, PairingFails, Ends, AtDesk, Strikes, files, rivals, histories
  <2>2. copy' \in [Process -> Config \cup {NoCopy}] /\ listener' \in Process \cup {None}
    BY DEF IInv, TypeOK, Config, PairingFails, Ends, AtDesk, Strikes, files, rivals, histories
  <2>3. allowed' \subseteq Sender /\ gate' \in BOOLEAN /\ edited' \in Config \cup {NoCopy}
    BY DEF IInv, TypeOK, Config, PairingFails, Ends, AtDesk, Strikes, files, rivals, histories
  <2>4. approvals' \in Records /\ approvalsFile' \in Records /\ opened' \in Opened \cup {None}
    BY NothingRecorded, Expiry, Deciding, Creation DEF IInv, TypeOK, Status, PairingFails, Ends, AtDesk, Strikes, files, rivals, histories
  <2>5. origin' \in [Ask -> Chat \cup {None}] /\ due' \subseteq Ask
    BY DEF IInv, TypeOK, PairingFails, Ends, AtDesk, Strikes, files, rivals, histories
  <2>6. sessions' \subseteq Chat /\ sessionsFile' \subseteq Chat
    BY DEF IInv, TypeOK, Hand, HandIsAboutChats, PairingFails, Ends, AtDesk, Strikes, files, rivals, histories
  <2>7. hand' \in Hand
    BY IdleTyped, StepTyped DEF IInv, HandIsAboutChats, TypeOK, Hand, Steps, PairingFails, Ends, AtDesk, Strikes, files, rivals, histories
  <2>8. strikes' \in Nat /\ told' \subseteq Sender /\ refused' \subseteq Ask /\ ready' \subseteq Chat
    BY DEF IInv, TypeOK, Hand, HandIsAboutChats, PairingFails, Ends, AtDesk, Strikes, files, rivals, histories
  <2>9. ran' \in [Ask -> Nat] /\ outdated' \in BOOLEAN /\ reverted' \in BOOLEAN
    BY DEF IInv, TypeOK, PairingFails, Ends, AtDesk, Strikes, files, rivals, histories
  <2>. QED
    BY <2>1, <2>2, <2>3, <2>4, <2>5, <2>6, <2>7, <2>8, <2>9 DEF TypeOK
<1>2. DeskIsEmpty'
  BY DEF IInv, DeskIsEmpty, Idle, PairingFails, Ends, NoCopy, NoRecords, AtDesk, Strikes, files, rivals, histories
<1>7. HandIsAboutChats'
  BY <1>1 DEF IInv, TypeOK, Hand, HandIsAboutChats, Idle, PairingFails, Ends, NoCopy, NoRecords, AtDesk, Strikes, files, rivals, histories
<1>3. ~reverted' => (DecisionsKnown /\ NewIsBlank /\ RanWasApproved)'
  BY <1>1 DEF IInv, TypeOK, Hand, Records, Status, DecisionsKnown, NewIsBlank, RanWasApproved, InHandIsFresh,
     RefusedIsDenied, DeskIsEmpty, PairingFails, Ends, Idle, NoCopy, NoRecords, AtDesk, Strikes, files, rivals, histories
<1>4. ~reverted' => (InHandIsFresh /\ RefusedIsDenied)'
  BY <1>1 DEF IInv, TypeOK, Hand, Records, Status, DecisionsKnown, NewIsBlank, RanWasApproved, InHandIsFresh,
     RefusedIsDenied, DeskIsEmpty, PairingFails, Ends, Idle, NoCopy, NoRecords, AtDesk, Strikes, files, rivals, histories
<1>5. ~reverted' => JobsHaveAgents'
  BY DEF IInv, TypeOK, Steps, Hand, JobsHaveAgents, DeskIsEmpty, PairingFails, Ends, Idle, NoCopy, NoRecords, AtDesk, Strikes, files, rivals, histories
<1>6. ~outdated' => AllowlistsAgree'
  BY DEF IInv, TypeOK, Config, AllowlistsAgree, DeskIsEmpty, PairingFails, Ends, Idle, NoCopy, NoRecords, AtDesk, Strikes, files, rivals, histories
<1>. QED
  BY <1>1, <1>2, <1>3, <1>4, <1>5, <1>6, <1>7 DEF IInv

LEMMA RunsAgentKeeps ==
  ASSUME NEW s \in Sender,
         NEW c \in Chat,
         IInv, RunsAgent(s, c)
  PROVE  IInv'
<1>1. TypeOK'
  BY DEF IInv, TypeOK, Config, Records, Status, Steps, Hand, Opened, RunsAgent, LetIn, AtDesk, Idle, Carries, Primary, Remembers, outside, rivals, histories
<1>2. DeskIsEmpty'
  BY DEF IInv, DeskIsEmpty, Idle, RunsAgent, LetIn, AtDesk, Carries, Primary, Remembers, outside, rivals, histories
<1>7. HandIsAboutChats'
  BY <1>1 DEF IInv, TypeOK, Hand, HandIsAboutChats, Idle, RunsAgent, LetIn, AtDesk, Carries, Primary, Remembers, outside, rivals, histories
<1>3. ~reverted' => (DecisionsKnown /\ NewIsBlank /\ RanWasApproved)'
  BY <1>1 DEF IInv, TypeOK, Hand, Records, Status, DecisionsKnown, NewIsBlank, RanWasApproved, InHandIsFresh,
     RefusedIsDenied, DeskIsEmpty, RunsAgent, LetIn, AtDesk, Idle, Carries, Primary, Remembers, outside, rivals, histories
<1>4. ~reverted' => (InHandIsFresh /\ RefusedIsDenied)'
  BY <1>1 DEF IInv, TypeOK, Hand, Records, Status, DecisionsKnown, NewIsBlank, RanWasApproved, InHandIsFresh,
     RefusedIsDenied, DeskIsEmpty, RunsAgent, LetIn, AtDesk, Idle, Carries, Primary, Remembers, outside, rivals, histories
<1>5. ~reverted' => JobsHaveAgents'
  BY DEF IInv, TypeOK, Steps, Hand, JobsHaveAgents, DeskIsEmpty, RunsAgent, LetIn, AtDesk, Idle, Carries, Primary, Remembers, outside, rivals, histories
<1>6. ~outdated' => AllowlistsAgree'
  BY DEF IInv, TypeOK, Config, AllowlistsAgree, DeskIsEmpty, RunsAgent, LetIn, AtDesk, Idle, Carries, Primary, Remembers, outside, rivals, histories
<1>. QED
  BY <1>1, <1>2, <1>3, <1>4, <1>5, <1>6, <1>7 DEF IInv

LEMMA NeedsApprovalKeeps ==
  ASSUME NEW s \in Sender,
         NEW c \in Chat,
         NEW a \in Ask,
         IInv, NeedsApproval(s, c, a)
  PROVE  IInv'
<1>1. TypeOK'
  BY DEF IInv, TypeOK, Config, Records, Status, Steps, Hand, Opened, NeedsApproval, LetIn, AtDesk, Idle, Remembers, Primary, Created, outside, rivals, histories
<1>2. DeskIsEmpty'
  BY DEF IInv, DeskIsEmpty, Idle, NeedsApproval, LetIn, AtDesk, Remembers, Primary, Created, outside, rivals, histories
<1>7. HandIsAboutChats'
  BY <1>1 DEF IInv, TypeOK, Hand, HandIsAboutChats, Idle, NeedsApproval, LetIn, AtDesk, Remembers, Primary, Created, outside, rivals, histories
<1>3. ~reverted' => (DecisionsKnown /\ NewIsBlank /\ RanWasApproved)'
  <2>. SUFFICES ASSUME ~reverted' PROVE (DecisionsKnown /\ NewIsBlank /\ RanWasApproved)'
    OBVIOUS
  <2>1. ~reverted /\ listener # None /\ DecisionsKnown /\ NewIsBlank /\ RanWasApproved
    BY DEF IInv, NeedsApproval, AtDesk, outside, rivals, histories
  <2>2. ran[a] = 0 /\ origin \in [Ask -> Chat \cup {None}] /\ approvals \in Records
    BY <2>1 DEF NeedsApproval, NewIsBlank, RanWasApproved, IInv, TypeOK
  <2>3. approvalsFile' = approvals' /\ ran' = ran
    BY DEF NeedsApproval, histories
  <2>4. /\ origin'[a] # None
        /\ \A b \in Ask \ {a} : origin'[b] = origin[b]
    BY <2>2, FrontDeskAssumption DEF NeedsApproval, AtDesk, FrontDeskAssumption
  <2>5. \A b \in Ask \ {a} : approvals'[b] = approvals[b]
    BY <2>2, Creation DEF NeedsApproval
  <2>. QED
    BY <2>1, <2>2, <2>3, <2>4, <2>5 DEF DecisionsKnown, NewIsBlank, RanWasApproved
<1>4. ~reverted' => (InHandIsFresh /\ RefusedIsDenied)'
  BY <1>1 DEF IInv, TypeOK, Hand, Records, Status, DecisionsKnown, NewIsBlank, RanWasApproved, InHandIsFresh,
     RefusedIsDenied, DeskIsEmpty, NeedsApproval, LetIn, AtDesk, Idle, Remembers, Primary, Created, outside, rivals, histories
<1>5. ~reverted' => JobsHaveAgents'
  BY DEF IInv, TypeOK, Steps, Hand, JobsHaveAgents, DeskIsEmpty, NeedsApproval, LetIn, AtDesk, Idle, Remembers, Primary, Created, outside, rivals, histories
<1>6. ~outdated' => AllowlistsAgree'
  BY DEF IInv, TypeOK, Config, AllowlistsAgree, DeskIsEmpty, NeedsApproval, LetIn, AtDesk, Idle, Remembers, Primary, Created, outside, rivals, histories
<1>. QED
  BY <1>1, <1>2, <1>3, <1>4, <1>5, <1>6, <1>7 DEF IInv

LEMMA AskFailsKeeps ==
  ASSUME NEW s \in Sender,
         NEW c \in Chat,
         IInv, AskFails(s, c)
  PROVE  IInv'
<1>1. TypeOK'
  <2>1. chats' \in Seq(Chat) /\ config' \in Config
    BY GroupAdded DEF IInv, HandIsAboutChats, TypeOK, Config, Hand, AskFails, Ends, LetIn, AtDesk, Primary, Strikes, rivals, histories
  <2>2. copy' \in [Process -> Config \cup {NoCopy}] /\ listener' \in Process \cup {None}
    BY DEF IInv, TypeOK, Config, AskFails, Ends, LetIn, AtDesk, Primary, Strikes, rivals, histories
  <2>3. allowed' \subseteq Sender /\ gate' \in BOOLEAN /\ edited' \in Config \cup {NoCopy}
    BY DEF IInv, TypeOK, Config, AskFails, Ends, LetIn, AtDesk, Primary, Strikes, rivals, histories
  <2>4. approvals' \in Records /\ approvalsFile' \in Records /\ opened' \in Opened \cup {None}
    BY NothingRecorded, Expiry, Deciding, Creation DEF IInv, TypeOK, Status, AskFails, Ends, LetIn, AtDesk, Primary, Strikes, rivals, histories
  <2>5. origin' \in [Ask -> Chat \cup {None}] /\ due' \subseteq Ask
    BY DEF IInv, TypeOK, AskFails, Ends, LetIn, AtDesk, Primary, Strikes, rivals, histories
  <2>6. sessions' \subseteq Chat /\ sessionsFile' \subseteq Chat
    BY DEF IInv, TypeOK, Hand, HandIsAboutChats, AskFails, Ends, LetIn, AtDesk, Primary, Strikes, rivals, histories
  <2>7. hand' \in Hand
    BY IdleTyped, StepTyped DEF IInv, HandIsAboutChats, TypeOK, Hand, Steps, AskFails, Ends, LetIn, AtDesk, Primary, Strikes, rivals, histories
  <2>8. strikes' \in Nat /\ told' \subseteq Sender /\ refused' \subseteq Ask /\ ready' \subseteq Chat
    BY DEF IInv, TypeOK, Hand, HandIsAboutChats, AskFails, Ends, LetIn, AtDesk, Primary, Strikes, rivals, histories
  <2>9. ran' \in [Ask -> Nat] /\ outdated' \in BOOLEAN /\ reverted' \in BOOLEAN
    BY DEF IInv, TypeOK, AskFails, Ends, LetIn, AtDesk, Primary, Strikes, rivals, histories
  <2>. QED
    BY <2>1, <2>2, <2>3, <2>4, <2>5, <2>6, <2>7, <2>8, <2>9 DEF TypeOK
<1>2. DeskIsEmpty'
  BY DEF IInv, DeskIsEmpty, Idle, AskFails, Ends, NoCopy, NoRecords, LetIn, AtDesk, Primary, Strikes, rivals, histories
<1>7. HandIsAboutChats'
  BY <1>1 DEF IInv, TypeOK, Hand, HandIsAboutChats, Idle, AskFails, Ends, NoCopy, NoRecords, LetIn, AtDesk, Primary, Strikes, rivals, histories
<1>3. ~reverted' => (DecisionsKnown /\ NewIsBlank /\ RanWasApproved)'
  BY <1>1 DEF IInv, TypeOK, Hand, Records, Status, DecisionsKnown, NewIsBlank, RanWasApproved, InHandIsFresh,
     RefusedIsDenied, DeskIsEmpty, AskFails, Ends, Idle, NoCopy, NoRecords, LetIn, AtDesk, Primary, Strikes, rivals, histories
<1>4. ~reverted' => (InHandIsFresh /\ RefusedIsDenied)'
  BY <1>1 DEF IInv, TypeOK, Hand, Records, Status, DecisionsKnown, NewIsBlank, RanWasApproved, InHandIsFresh,
     RefusedIsDenied, DeskIsEmpty, AskFails, Ends, Idle, NoCopy, NoRecords, LetIn, AtDesk, Primary, Strikes, rivals, histories
<1>5. ~reverted' => JobsHaveAgents'
  BY DEF IInv, TypeOK, Steps, Hand, JobsHaveAgents, DeskIsEmpty, AskFails, Ends, Idle, NoCopy, NoRecords, LetIn, AtDesk, Primary, Strikes, rivals, histories
<1>6. ~outdated' => AllowlistsAgree'
  BY DEF IInv, TypeOK, Config, AllowlistsAgree, DeskIsEmpty, AskFails, Ends, Idle, NoCopy, NoRecords, LetIn, AtDesk, Primary, Strikes, rivals, histories
<1>. QED
  BY <1>1, <1>2, <1>3, <1>4, <1>5, <1>6, <1>7 DEF IInv

LEMMA ApprovesKeeps ==
  ASSUME NEW s \in Sender,
         NEW c \in Chat,
         NEW a \in Ask,
         IInv, Approves(s, c, a)
  PROVE  IInv'
<1>1. TypeOK'
  BY DEF IInv, TypeOK, Config, Records, Status, Steps, Hand, Opened, Approves, LetIn, AtDesk, Idle, Carries, Primary, ExpirePending, Decided, Decidable, outside, rivals, histories
<1>2. DeskIsEmpty'
  BY DEF IInv, DeskIsEmpty, Idle, Approves, LetIn, AtDesk, Carries, Primary, ExpirePending, Decided, Decidable, outside, rivals, histories
<1>7. HandIsAboutChats'
  BY <1>1 DEF IInv, TypeOK, Hand, HandIsAboutChats, Idle, Approves, LetIn, AtDesk, Carries, Primary, ExpirePending, Decided, Decidable, outside, rivals, histories
<1>3. ~reverted' => (DecisionsKnown /\ NewIsBlank /\ RanWasApproved)'
  <2>. SUFFICES ASSUME ~reverted' PROVE (DecisionsKnown /\ NewIsBlank /\ RanWasApproved)'
    OBVIOUS
  <2>1. ~reverted /\ listener # None /\ NewIsBlank /\ RanWasApproved /\ origin[a] # None
    BY FrontDeskAssumption DEF FrontDeskAssumption, IInv, Approves, AtDesk, Decidable, outside, rivals, histories
  <2>2. ran[a] = 0 /\ a \notin refused
    BY <2>1, ExpiryKeepsDecisions DEF Approves, Decidable
  <2>3. approvalsFile' = approvals' /\ origin' = origin /\ ran' = ran
    BY DEF Approves, histories
  <2>4. \A b \in Ask \ {a} : approvals'[b] = ExpirePending(approvals, due)[b]
    <3>1. "approved" \in Status
      BY DEF Status
    <3>2. ExpirePending(approvals, due) \in Records
      BY <2>1, ExpiryKeepsDecisions
    <3>3. approvals' = Decided(ExpirePending(approvals, due), a, "approved") /\ approvalsFile' = approvals'
      BY DEF Approves
    <3>. QED
      BY <3>1, <3>2, <3>3, Deciding
  <2>. QED
    BY <2>1, <2>2, <2>3, <2>4, ExpiryKeepsDecisions DEF DecisionsKnown, NewIsBlank, RanWasApproved
<1>4. ~reverted' => (InHandIsFresh /\ RefusedIsDenied)'
  <2>. SUFFICES ASSUME ~reverted' PROVE (InHandIsFresh /\ RefusedIsDenied)'
    OBVIOUS
  <2>1. ~reverted /\ listener # None /\ RefusedIsDenied
    BY DEF IInv, Approves, AtDesk, outside, rivals, histories
  <2>2. ran[a] = 0 /\ a \notin refused
    BY <2>1, ExpiryKeepsDecisions DEF Approves, Decidable
  <2>3. /\ approvalsFile'[a] = "approved"
        /\ \A b \in Ask \ {a} : approvalsFile'[b] = ExpirePending(approvals, due)[b]
    <3>1. "approved" \in Status
      BY DEF Status
    <3>2. ExpirePending(approvals, due) \in Records
      BY <2>1, ExpiryKeepsDecisions
    <3>3. approvals' = Decided(ExpirePending(approvals, due), a, "approved") /\ approvalsFile' = approvals'
      BY DEF Approves
    <3>. QED
      BY <3>1, <3>2, <3>3, Deciding
  <2>4. \A b \in refused : approvalsFile'[b] = "denied"
    BY <2>1, <2>2, <2>3, ExpiryKeepsDecisions DEF RefusedIsDenied, IInv, TypeOK
  <2>5. hand'.ask = a /\ ran' = ran /\ refused' = refused
    BY DEF Approves, Carries, histories
  <2>. QED
    BY <2>2, <2>3, <2>4, <2>5 DEF InHandIsFresh, RefusedIsDenied
<1>5. ~reverted' => JobsHaveAgents'
  BY DEF IInv, TypeOK, Steps, Hand, JobsHaveAgents, DeskIsEmpty, Approves, LetIn, AtDesk, Idle, Carries, Primary, ExpirePending, Decided, Decidable, outside, rivals, histories
<1>6. ~outdated' => AllowlistsAgree'
  BY DEF IInv, TypeOK, Config, AllowlistsAgree, DeskIsEmpty, Approves, LetIn, AtDesk, Idle, Carries, Primary, ExpirePending, Decided, Decidable, outside, rivals, histories
<1>. QED
  BY <1>1, <1>2, <1>3, <1>4, <1>5, <1>6, <1>7 DEF IInv

LEMMA DeniesKeeps ==
  ASSUME NEW s \in Sender,
         NEW c \in Chat,
         NEW a \in Ask,
         IInv, Denies(s, c, a)
  PROVE  IInv'
<1>1. TypeOK'
  BY DEF IInv, TypeOK, Config, Records, Status, Steps, Hand, Opened, Denies, LetIn, AtDesk, Idle, ExpirePending, Decided, Decidable, outside, rivals
<1>2. DeskIsEmpty'
  BY DEF IInv, DeskIsEmpty, Idle, Denies, LetIn, AtDesk, ExpirePending, Decided, Decidable, outside, rivals
<1>7. HandIsAboutChats'
  BY <1>1 DEF IInv, TypeOK, Hand, HandIsAboutChats, Idle, Denies, LetIn, AtDesk, ExpirePending, Decided, Decidable, outside, rivals
<1>3. ~reverted' => (DecisionsKnown /\ NewIsBlank /\ RanWasApproved)'
  <2>. SUFFICES ASSUME ~reverted' PROVE (DecisionsKnown /\ NewIsBlank /\ RanWasApproved)'
    OBVIOUS
  <2>1. ~reverted /\ listener # None /\ NewIsBlank /\ RanWasApproved /\ origin[a] # None
    BY FrontDeskAssumption DEF FrontDeskAssumption, IInv, Denies, AtDesk, Decidable, outside, rivals, histories
  <2>2. ran[a] = 0 /\ a \notin refused
    BY <2>1, ExpiryKeepsDecisions DEF Denies, Decidable
  <2>3. approvalsFile' = approvals' /\ origin' = origin /\ ran' = ran
    BY DEF Denies, histories
  <2>4. \A b \in Ask \ {a} : approvals'[b] = ExpirePending(approvals, due)[b]
    <3>1. "denied" \in Status
      BY DEF Status
    <3>2. ExpirePending(approvals, due) \in Records
      BY <2>1, ExpiryKeepsDecisions
    <3>3. approvals' = Decided(ExpirePending(approvals, due), a, "denied") /\ approvalsFile' = approvals'
      BY DEF Denies
    <3>. QED
      BY <3>1, <3>2, <3>3, Deciding
  <2>. QED
    BY <2>1, <2>2, <2>3, <2>4, ExpiryKeepsDecisions DEF DecisionsKnown, NewIsBlank, RanWasApproved
<1>4. ~reverted' => (InHandIsFresh /\ RefusedIsDenied)'
  <2>. SUFFICES ASSUME ~reverted' PROVE (InHandIsFresh /\ RefusedIsDenied)'
    OBVIOUS
  <2>1. ~reverted /\ listener # None /\ RefusedIsDenied
    BY DEF IInv, Denies, AtDesk, outside, rivals, histories
  <2>2. ran[a] = 0 /\ a \notin refused
    BY <2>1, ExpiryKeepsDecisions DEF Denies, Decidable
  <2>3. /\ approvalsFile'[a] = "denied"
        /\ \A b \in Ask \ {a} : approvalsFile'[b] = ExpirePending(approvals, due)[b]
    <3>1. "denied" \in Status
      BY DEF Status
    <3>2. ExpirePending(approvals, due) \in Records
      BY <2>1, ExpiryKeepsDecisions
    <3>3. approvals' = Decided(ExpirePending(approvals, due), a, "denied") /\ approvalsFile' = approvals'
      BY DEF Denies
    <3>. QED
      BY <3>1, <3>2, <3>3, Deciding
  <2>4. \A b \in refused : approvalsFile'[b] = "denied"
    BY <2>1, <2>2, <2>3, ExpiryKeepsDecisions DEF RefusedIsDenied, IInv, TypeOK
  <2>5. hand'.ask = None /\ ran' = ran /\ refused' = refused \cup {a}
    BY DEF Denies, AtDesk, Idle
  <2>. QED
    BY <2>2, <2>3, <2>4, <2>5 DEF InHandIsFresh, RefusedIsDenied
<1>5. ~reverted' => JobsHaveAgents'
  BY DEF IInv, TypeOK, Steps, Hand, JobsHaveAgents, DeskIsEmpty, Denies, LetIn, AtDesk, Idle, ExpirePending, Decided, Decidable, outside, rivals
<1>6. ~outdated' => AllowlistsAgree'
  BY DEF IInv, TypeOK, Config, AllowlistsAgree, DeskIsEmpty, Denies, LetIn, AtDesk, Idle, ExpirePending, Decided, Decidable, outside, rivals
<1>. QED
  BY <1>1, <1>2, <1>3, <1>4, <1>5, <1>6, <1>7 DEF IInv

LEMMA ExpiryFailsKeeps ==
  ASSUME NEW s \in Sender,
         NEW c \in Chat,
         IInv, ExpiryFails(s, c)
  PROVE  IInv'
<1>1. TypeOK'
  <2>1. chats' \in Seq(Chat) /\ config' \in Config
    BY GroupAdded DEF IInv, HandIsAboutChats, TypeOK, Config, Hand, ExpiryFails, LetIn, AtDesk, Strikes, files, rivals, histories
  <2>2. copy' \in [Process -> Config \cup {NoCopy}] /\ listener' \in Process \cup {None}
    BY DEF IInv, TypeOK, Config, ExpiryFails, LetIn, AtDesk, Strikes, files, rivals, histories
  <2>3. allowed' \subseteq Sender /\ gate' \in BOOLEAN /\ edited' \in Config \cup {NoCopy}
    BY DEF IInv, TypeOK, Config, ExpiryFails, LetIn, AtDesk, Strikes, files, rivals, histories
  <2>4. approvals' \in Records /\ approvalsFile' \in Records /\ opened' \in Opened \cup {None}
    BY NothingRecorded, Expiry, Deciding, Creation DEF IInv, TypeOK, Status, ExpiryFails, LetIn, AtDesk, Strikes, files, rivals, histories
  <2>5. origin' \in [Ask -> Chat \cup {None}] /\ due' \subseteq Ask
    BY DEF IInv, TypeOK, ExpiryFails, LetIn, AtDesk, Strikes, files, rivals, histories
  <2>6. sessions' \subseteq Chat /\ sessionsFile' \subseteq Chat
    BY DEF IInv, TypeOK, Hand, HandIsAboutChats, ExpiryFails, LetIn, AtDesk, Strikes, files, rivals, histories
  <2>7. hand' \in Hand
    BY IdleTyped, StepTyped DEF IInv, HandIsAboutChats, TypeOK, Hand, Steps, ExpiryFails, LetIn, AtDesk, Strikes, files, rivals, histories
  <2>8. strikes' \in Nat /\ told' \subseteq Sender /\ refused' \subseteq Ask /\ ready' \subseteq Chat
    BY DEF IInv, TypeOK, Hand, HandIsAboutChats, ExpiryFails, LetIn, AtDesk, Strikes, files, rivals, histories
  <2>9. ran' \in [Ask -> Nat] /\ outdated' \in BOOLEAN /\ reverted' \in BOOLEAN
    BY DEF IInv, TypeOK, ExpiryFails, LetIn, AtDesk, Strikes, files, rivals, histories
  <2>. QED
    BY <2>1, <2>2, <2>3, <2>4, <2>5, <2>6, <2>7, <2>8, <2>9 DEF TypeOK
<1>2. DeskIsEmpty'
  BY DEF IInv, DeskIsEmpty, Idle, ExpiryFails, LetIn, AtDesk, ExpirePending, Strikes, files, rivals, histories
<1>7. HandIsAboutChats'
  BY <1>1 DEF IInv, TypeOK, Hand, HandIsAboutChats, Idle, ExpiryFails, LetIn, AtDesk, ExpirePending, Strikes, files, rivals, histories
<1>3. ~reverted' => (DecisionsKnown /\ NewIsBlank /\ RanWasApproved)'
  BY <1>1 DEF IInv, TypeOK, Hand, Records, Status, DecisionsKnown, NewIsBlank, RanWasApproved, InHandIsFresh,
     RefusedIsDenied, DeskIsEmpty, ExpiryFails, LetIn, AtDesk, Idle, ExpirePending, Strikes, files, rivals, histories
<1>4. ~reverted' => (InHandIsFresh /\ RefusedIsDenied)'
  BY <1>1 DEF IInv, TypeOK, Hand, Records, Status, DecisionsKnown, NewIsBlank, RanWasApproved, InHandIsFresh,
     RefusedIsDenied, DeskIsEmpty, ExpiryFails, LetIn, AtDesk, Idle, ExpirePending, Strikes, files, rivals, histories
<1>5. ~reverted' => JobsHaveAgents'
  BY DEF IInv, TypeOK, Steps, Hand, JobsHaveAgents, DeskIsEmpty, ExpiryFails, LetIn, AtDesk, Idle, ExpirePending, Strikes, files, rivals, histories
<1>6. ~outdated' => AllowlistsAgree'
  BY DEF IInv, TypeOK, Config, AllowlistsAgree, DeskIsEmpty, ExpiryFails, LetIn, AtDesk, Idle, ExpirePending, Strikes, files, rivals, histories
<1>. QED
  BY <1>1, <1>2, <1>3, <1>4, <1>5, <1>6, <1>7 DEF IInv

LEMMA TurnsDownKeeps ==
  ASSUME NEW s \in Sender,
         NEW c \in Chat,
         NEW a \in Ask,
         IInv, TurnsDown(s, c, a)
  PROVE  IInv'
<1>1. TypeOK'
  <2>1. chats' \in Seq(Chat) /\ config' \in Config
    BY GroupAdded DEF IInv, HandIsAboutChats, TypeOK, Config, Hand, TurnsDown, LetIn, AtDesk, Decidable, outside, rivals, histories
  <2>2. copy' \in [Process -> Config \cup {NoCopy}] /\ listener' \in Process \cup {None}
    BY DEF IInv, TypeOK, Config, TurnsDown, LetIn, AtDesk, Decidable, outside, rivals, histories
  <2>3. allowed' \subseteq Sender /\ gate' \in BOOLEAN /\ edited' \in Config \cup {NoCopy}
    BY DEF IInv, TypeOK, Config, TurnsDown, LetIn, AtDesk, Decidable, outside, rivals, histories
  <2>4. approvals' \in Records /\ approvalsFile' \in Records /\ opened' \in Opened \cup {None}
    BY NothingRecorded, Expiry, Deciding, Creation DEF IInv, TypeOK, Status, TurnsDown, LetIn, AtDesk, Decidable, outside, rivals, histories
  <2>5. origin' \in [Ask -> Chat \cup {None}] /\ due' \subseteq Ask
    BY DEF IInv, TypeOK, TurnsDown, LetIn, AtDesk, Decidable, outside, rivals, histories
  <2>6. sessions' \subseteq Chat /\ sessionsFile' \subseteq Chat
    BY DEF IInv, TypeOK, Hand, HandIsAboutChats, TurnsDown, LetIn, AtDesk, Decidable, outside, rivals, histories
  <2>7. hand' \in Hand
    BY IdleTyped, StepTyped DEF IInv, HandIsAboutChats, TypeOK, Hand, Steps, TurnsDown, LetIn, AtDesk, Decidable, outside, rivals, histories
  <2>8. strikes' \in Nat /\ told' \subseteq Sender /\ refused' \subseteq Ask /\ ready' \subseteq Chat
    BY DEF IInv, TypeOK, Hand, HandIsAboutChats, TurnsDown, LetIn, AtDesk, Decidable, outside, rivals, histories
  <2>9. ran' \in [Ask -> Nat] /\ outdated' \in BOOLEAN /\ reverted' \in BOOLEAN
    BY DEF IInv, TypeOK, TurnsDown, LetIn, AtDesk, Decidable, outside, rivals, histories
  <2>. QED
    BY <2>1, <2>2, <2>3, <2>4, <2>5, <2>6, <2>7, <2>8, <2>9 DEF TypeOK
<1>2. DeskIsEmpty'
  BY DEF IInv, DeskIsEmpty, Idle, TurnsDown, LetIn, AtDesk, ExpirePending, Decidable, outside, rivals, histories
<1>7. HandIsAboutChats'
  BY <1>1 DEF IInv, TypeOK, Hand, HandIsAboutChats, Idle, TurnsDown, LetIn, AtDesk, ExpirePending, Decidable, outside, rivals, histories
<1>3. ~reverted' => (DecisionsKnown /\ NewIsBlank /\ RanWasApproved)'
  <2>. SUFFICES ASSUME ~reverted' PROVE (DecisionsKnown /\ NewIsBlank /\ RanWasApproved)'
    OBVIOUS
  <2>1. ~reverted /\ listener # None /\ NewIsBlank /\ RanWasApproved /\ DecisionsKnown
    BY DEF IInv, TurnsDown, AtDesk, outside, rivals, histories
  <2>2. approvals' = ExpirePending(approvals, due) /\ origin' = origin /\ ran' = ran
    BY DEF TurnsDown, histories
  <2>3. approvalsFile' = approvals' \/ approvalsFile' = approvalsFile
    BY DEF TurnsDown
  <2>. QED
    BY <2>1, <2>2, <2>3, ExpiryKeepsDecisions DEF DecisionsKnown, NewIsBlank, RanWasApproved
<1>4. ~reverted' => (InHandIsFresh /\ RefusedIsDenied)'
  BY <1>1 DEF IInv, TypeOK, Hand, Records, Status, DecisionsKnown, NewIsBlank, RanWasApproved, InHandIsFresh,
     RefusedIsDenied, DeskIsEmpty, TurnsDown, LetIn, AtDesk, Idle, ExpirePending, Decidable, outside, rivals, histories
<1>5. ~reverted' => JobsHaveAgents'
  BY DEF IInv, TypeOK, Steps, Hand, JobsHaveAgents, DeskIsEmpty, TurnsDown, LetIn, AtDesk, Idle, ExpirePending, Decidable, outside, rivals, histories
<1>6. ~outdated' => AllowlistsAgree'
  BY DEF IInv, TypeOK, Config, AllowlistsAgree, DeskIsEmpty, TurnsDown, LetIn, AtDesk, Idle, ExpirePending, Decidable, outside, rivals, histories
<1>. QED
  BY <1>1, <1>2, <1>3, <1>4, <1>5, <1>6, <1>7 DEF IInv

LEMMA DecisionFailsKeeps ==
  ASSUME NEW s \in Sender,
         NEW c \in Chat,
         NEW a \in Ask,
         IInv, DecisionFails(s, c, a)
  PROVE  IInv'
<1>1. TypeOK'
  <2>1. chats' \in Seq(Chat) /\ config' \in Config
    BY GroupAdded DEF IInv, HandIsAboutChats, TypeOK, Config, Hand, DecisionFails, LetIn, AtDesk, Decidable, Strikes, rivals, histories
  <2>2. copy' \in [Process -> Config \cup {NoCopy}] /\ listener' \in Process \cup {None}
    BY DEF IInv, TypeOK, Config, DecisionFails, LetIn, AtDesk, Decidable, Strikes, rivals, histories
  <2>3. allowed' \subseteq Sender /\ gate' \in BOOLEAN /\ edited' \in Config \cup {NoCopy}
    BY DEF IInv, TypeOK, Config, DecisionFails, LetIn, AtDesk, Decidable, Strikes, rivals, histories
  <2>4. approvals' \in Records /\ approvalsFile' \in Records /\ opened' \in Opened \cup {None}
    <3>1. approvals \in Records /\ approvalsFile \in Records /\ opened \in Opened \cup {None}
      BY DEF IInv, TypeOK
    <3>2. PICK status \in {"approved", "denied"} :
            approvals' = Decided(ExpirePending(approvals, due), a, status)
      BY DEF DecisionFails
    <3>3. approvalsFile' = ExpirePending(approvals, due) \/ approvalsFile' = approvalsFile
      BY DEF DecisionFails
    <3>4. opened' = opened
      BY DEF DecisionFails, rivals
    <3>5. status \in Status /\ ExpirePending(approvals, due) \in Records
      BY <3>1, Expiry DEF Status
    <3>. QED
      BY <3>1, <3>2, <3>3, <3>4, <3>5, Deciding
  <2>5. origin' \in [Ask -> Chat \cup {None}] /\ due' \subseteq Ask
    BY DEF IInv, TypeOK, DecisionFails, LetIn, AtDesk, Decidable, Strikes, rivals, histories
  <2>6. sessions' \subseteq Chat /\ sessionsFile' \subseteq Chat
    BY DEF IInv, TypeOK, Hand, HandIsAboutChats, DecisionFails, LetIn, AtDesk, Decidable, Strikes, rivals, histories
  <2>7. hand' \in Hand
    BY IdleTyped, StepTyped DEF IInv, HandIsAboutChats, TypeOK, Hand, Steps, DecisionFails, LetIn, AtDesk, Decidable, Strikes, rivals, histories
  <2>8. strikes' \in Nat /\ told' \subseteq Sender /\ refused' \subseteq Ask /\ ready' \subseteq Chat
    BY DEF IInv, TypeOK, Hand, HandIsAboutChats, DecisionFails, LetIn, AtDesk, Decidable, Strikes, rivals, histories
  <2>9. ran' \in [Ask -> Nat] /\ outdated' \in BOOLEAN /\ reverted' \in BOOLEAN
    BY DEF IInv, TypeOK, DecisionFails, LetIn, AtDesk, Decidable, Strikes, rivals, histories
  <2>. QED
    BY <2>1, <2>2, <2>3, <2>4, <2>5, <2>6, <2>7, <2>8, <2>9 DEF TypeOK
<1>2. DeskIsEmpty'
  BY DEF IInv, DeskIsEmpty, Idle, DecisionFails, LetIn, AtDesk, ExpirePending, Decided, Decidable, Strikes, rivals, histories
<1>7. HandIsAboutChats'
  BY <1>1 DEF IInv, TypeOK, Hand, HandIsAboutChats, Idle, DecisionFails, LetIn, AtDesk, ExpirePending, Decided, Decidable, Strikes, rivals, histories
<1>3. ~reverted' => (DecisionsKnown /\ NewIsBlank /\ RanWasApproved)'
  <2>. SUFFICES ASSUME ~reverted' PROVE (DecisionsKnown /\ NewIsBlank /\ RanWasApproved)'
    OBVIOUS
  <2>1. ~reverted /\ listener # None /\ NewIsBlank /\ RanWasApproved /\ DecisionsKnown /\ origin[a] # None
    BY FrontDeskAssumption DEF FrontDeskAssumption, IInv, DecisionFails, AtDesk, Decidable, rivals, histories
  <2>2. PICK status \in {"approved", "denied"} :
          approvals' = Decided(ExpirePending(approvals, due), a, status)
    BY DEF DecisionFails
  <2>3. approvalsFile' = ExpirePending(approvals, due) \/ approvalsFile' = approvalsFile
    BY DEF DecisionFails
  <2>4. ExpirePending(approvals, due)[a] = "pending" /\ origin' = origin /\ ran' = ran
    BY DEF DecisionFails, Decidable, histories
  <2>5. \A b \in Ask \ {a} : approvals'[b] = ExpirePending(approvals, due)[b]
    <3>1. status \in Status /\ ExpirePending(approvals, due) \in Records
      BY <2>1, ExpiryKeepsDecisions DEF Status
    <3>. QED
      BY <2>2, <3>1, Deciding
  <2>6. approvalsFile'[a] \notin {"approved", "denied"}
    BY <2>1, <2>3, <2>4, ExpiryKeepsDecisions
  <2>. QED
    BY <2>1, <2>3, <2>4, <2>5, <2>6, ExpiryKeepsDecisions DEF DecisionsKnown, NewIsBlank, RanWasApproved
<1>4. ~reverted' => (InHandIsFresh /\ RefusedIsDenied)'
  BY <1>1 DEF IInv, TypeOK, Hand, Records, Status, DecisionsKnown, NewIsBlank, RanWasApproved, InHandIsFresh,
     RefusedIsDenied, DeskIsEmpty, DecisionFails, LetIn, AtDesk, Idle, ExpirePending, Decided, Decidable, Strikes, rivals, histories
<1>5. ~reverted' => JobsHaveAgents'
  BY DEF IInv, TypeOK, Steps, Hand, JobsHaveAgents, DeskIsEmpty, DecisionFails, LetIn, AtDesk, Idle, ExpirePending, Decided, Decidable, Strikes, rivals, histories
<1>6. ~outdated' => AllowlistsAgree'
  BY DEF IInv, TypeOK, Config, AllowlistsAgree, DeskIsEmpty, DecisionFails, LetIn, AtDesk, Idle, ExpirePending, Decided, Decidable, Strikes, rivals, histories
<1>. QED
  BY <1>1, <1>2, <1>3, <1>4, <1>5, <1>6, <1>7 DEF IInv

LEMMA EditsSessionKeeps ==
  ASSUME NEW s \in Sender,
         NEW c \in Chat,
         IInv, EditsSession(s, c)
  PROVE  IInv'
<1>1. TypeOK'
  BY DEF IInv, TypeOK, Config, Records, Status, Steps, Hand, Opened, EditsSession, LetIn, AtDesk, Idle, memory, outside, rivals, histories
<1>2. DeskIsEmpty'
  BY DEF IInv, DeskIsEmpty, Idle, EditsSession, LetIn, AtDesk, memory, outside, rivals, histories
<1>7. HandIsAboutChats'
  BY <1>1 DEF IInv, TypeOK, Hand, HandIsAboutChats, Idle, EditsSession, LetIn, AtDesk, memory, outside, rivals, histories
<1>3. ~reverted' => (DecisionsKnown /\ NewIsBlank /\ RanWasApproved)'
  BY <1>1 DEF IInv, TypeOK, Hand, Records, Status, DecisionsKnown, NewIsBlank, RanWasApproved, InHandIsFresh,
     RefusedIsDenied, DeskIsEmpty, EditsSession, LetIn, AtDesk, Idle, memory, outside, rivals, histories
<1>4. ~reverted' => (InHandIsFresh /\ RefusedIsDenied)'
  BY <1>1 DEF IInv, TypeOK, Hand, Records, Status, DecisionsKnown, NewIsBlank, RanWasApproved, InHandIsFresh,
     RefusedIsDenied, DeskIsEmpty, EditsSession, LetIn, AtDesk, Idle, memory, outside, rivals, histories
<1>5. ~reverted' => JobsHaveAgents'
  BY DEF IInv, TypeOK, Steps, Hand, JobsHaveAgents, DeskIsEmpty, EditsSession, LetIn, AtDesk, Idle, memory, outside, rivals, histories
<1>6. ~outdated' => AllowlistsAgree'
  BY DEF IInv, TypeOK, Config, AllowlistsAgree, DeskIsEmpty, EditsSession, LetIn, AtDesk, Idle, memory, outside, rivals, histories
<1>. QED
  BY <1>1, <1>2, <1>3, <1>4, <1>5, <1>6, <1>7 DEF IInv

LEMMA ResumesKeeps ==
  ASSUME NEW s \in Sender,
         NEW c \in Chat,
         IInv, Resumes(s, c)
  PROVE  IInv'
<1>1. TypeOK'
  BY DEF IInv, TypeOK, Config, Records, Status, Steps, Hand, Opened, Resumes, LetIn, AtDesk, Idle, WithGroup, memory, outside, rivals, histories
<1>2. DeskIsEmpty'
  BY DEF IInv, DeskIsEmpty, Idle, Resumes, LetIn, AtDesk, WithGroup, memory, outside, rivals, histories
<1>7. HandIsAboutChats'
  BY <1>1 DEF IInv, TypeOK, Hand, HandIsAboutChats, Idle, Resumes, LetIn, AtDesk, WithGroup, memory, outside, rivals, histories
<1>3. ~reverted' => (DecisionsKnown /\ NewIsBlank /\ RanWasApproved)'
  BY <1>1 DEF IInv, TypeOK, Hand, Records, Status, DecisionsKnown, NewIsBlank, RanWasApproved, InHandIsFresh,
     RefusedIsDenied, DeskIsEmpty, Resumes, LetIn, AtDesk, Idle, WithGroup, memory, outside, rivals, histories
<1>4. ~reverted' => (InHandIsFresh /\ RefusedIsDenied)'
  BY <1>1 DEF IInv, TypeOK, Hand, Records, Status, DecisionsKnown, NewIsBlank, RanWasApproved, InHandIsFresh,
     RefusedIsDenied, DeskIsEmpty, Resumes, LetIn, AtDesk, Idle, WithGroup, memory, outside, rivals, histories
<1>5. ~reverted' => JobsHaveAgents'
  BY DEF IInv, TypeOK, Steps, Hand, JobsHaveAgents, DeskIsEmpty, Resumes, LetIn, AtDesk, Idle, WithGroup, memory, outside, rivals, histories
<1>6. ~outdated' => AllowlistsAgree'
  BY DEF IInv, TypeOK, Config, AllowlistsAgree, DeskIsEmpty, Resumes, LetIn, AtDesk, Idle, WithGroup, memory, outside, rivals, histories
<1>. QED
  BY <1>1, <1>2, <1>3, <1>4, <1>5, <1>6, <1>7 DEF IInv

LEMMA AsksForChatKeeps ==
  ASSUME NEW s \in Sender,
         NEW c \in Chat,
         IInv, AsksForChat(s, c)
  PROVE  IInv'
<1>1. TypeOK'
  BY DEF IInv, TypeOK, Config, Records, Status, Steps, Hand, Opened, AsksForChat, LetIn, AtDesk, Idle, memory, files, outside, rivals, histories
<1>2. DeskIsEmpty'
  BY DEF IInv, DeskIsEmpty, Idle, AsksForChat, LetIn, AtDesk, memory, files, outside, rivals, histories
<1>7. HandIsAboutChats'
  BY <1>1 DEF IInv, TypeOK, Hand, HandIsAboutChats, Idle, AsksForChat, LetIn, AtDesk, memory, files, outside, rivals, histories
<1>3. ~reverted' => (DecisionsKnown /\ NewIsBlank /\ RanWasApproved)'
  BY <1>1 DEF IInv, TypeOK, Hand, Records, Status, DecisionsKnown, NewIsBlank, RanWasApproved, InHandIsFresh,
     RefusedIsDenied, DeskIsEmpty, AsksForChat, LetIn, AtDesk, Idle, memory, files, outside, rivals, histories
<1>4. ~reverted' => (InHandIsFresh /\ RefusedIsDenied)'
  BY <1>1 DEF IInv, TypeOK, Hand, Records, Status, DecisionsKnown, NewIsBlank, RanWasApproved, InHandIsFresh,
     RefusedIsDenied, DeskIsEmpty, AsksForChat, LetIn, AtDesk, Idle, memory, files, outside, rivals, histories
<1>5. ~reverted' => JobsHaveAgents'
  BY DEF IInv, TypeOK, Steps, Hand, JobsHaveAgents, DeskIsEmpty, AsksForChat, LetIn, AtDesk, Idle, memory, files, outside, rivals, histories
<1>6. ~outdated' => AllowlistsAgree'
  BY DEF IInv, TypeOK, Config, AllowlistsAgree, DeskIsEmpty, AsksForChat, LetIn, AtDesk, Idle, memory, files, outside, rivals, histories
<1>. QED
  BY <1>1, <1>2, <1>3, <1>4, <1>5, <1>6, <1>7 DEF IInv

LEMMA OpensChatKeeps ==
  ASSUME NEW w \in Chat,
         IInv, OpensChat(w)
  PROVE  IInv'
<1>1. TypeOK'
  BY DEF IInv, TypeOK, Config, Records, Status, Steps, Hand, Opened, OpensChat, StepOn, memory, files, outside, rivals, histories
<1>2. DeskIsEmpty'
  BY DEF IInv, DeskIsEmpty, Idle, OpensChat, StepOn, memory, files, outside, rivals, histories
<1>7. HandIsAboutChats'
  BY <1>1 DEF IInv, TypeOK, Hand, HandIsAboutChats, Idle, OpensChat, StepOn, memory, files, outside, rivals, histories
<1>3. ~reverted' => (DecisionsKnown /\ NewIsBlank /\ RanWasApproved)'
  BY <1>1 DEF IInv, TypeOK, Hand, Records, Status, DecisionsKnown, NewIsBlank, RanWasApproved, InHandIsFresh,
     RefusedIsDenied, DeskIsEmpty, OpensChat, StepOn, memory, files, outside, rivals, histories
<1>4. ~reverted' => (InHandIsFresh /\ RefusedIsDenied)'
  BY <1>1 DEF IInv, TypeOK, Hand, Records, Status, DecisionsKnown, NewIsBlank, RanWasApproved, InHandIsFresh,
     RefusedIsDenied, DeskIsEmpty, OpensChat, StepOn, memory, files, outside, rivals, histories
<1>5. ~reverted' => JobsHaveAgents'
  BY DEF IInv, TypeOK, Steps, Hand, JobsHaveAgents, DeskIsEmpty, OpensChat, StepOn, memory, files, outside, rivals, histories
<1>6. ~outdated' => AllowlistsAgree'
  BY DEF IInv, TypeOK, Config, AllowlistsAgree, DeskIsEmpty, OpensChat, StepOn, memory, files, outside, rivals, histories
<1>. QED
  BY <1>1, <1>2, <1>3, <1>4, <1>5, <1>6, <1>7 DEF IInv

LEMMA OpensNoChatKeeps ==
  ASSUME IInv, OpensNoChat
  PROVE  IInv'
<1>1. TypeOK'
  BY DEF IInv, TypeOK, Config, Records, Status, Steps, Hand, Opened, OpensNoChat, Fallback, StepOn, Idle, Strikes, memory, files, rivals, histories
<1>2. DeskIsEmpty'
  BY DEF IInv, DeskIsEmpty, Idle, OpensNoChat, Fallback, StepOn, Strikes, memory, files, rivals, histories
<1>7. HandIsAboutChats'
  BY <1>1 DEF IInv, TypeOK, Hand, HandIsAboutChats, Idle, OpensNoChat, Fallback, StepOn, Strikes, memory, files, rivals, histories
<1>3. ~reverted' => (DecisionsKnown /\ NewIsBlank /\ RanWasApproved)'
  BY <1>1 DEF IInv, TypeOK, Hand, Records, Status, DecisionsKnown, NewIsBlank, RanWasApproved, InHandIsFresh,
     RefusedIsDenied, DeskIsEmpty, OpensNoChat, Fallback, StepOn, Idle, Strikes, memory, files, rivals, histories
<1>4. ~reverted' => (InHandIsFresh /\ RefusedIsDenied)'
  BY <1>1 DEF IInv, TypeOK, Hand, Records, Status, DecisionsKnown, NewIsBlank, RanWasApproved, InHandIsFresh,
     RefusedIsDenied, DeskIsEmpty, OpensNoChat, Fallback, StepOn, Idle, Strikes, memory, files, rivals, histories
<1>5. ~reverted' => JobsHaveAgents'
  BY DEF IInv, TypeOK, Steps, Hand, JobsHaveAgents, DeskIsEmpty, OpensNoChat, Fallback, StepOn, Idle, Strikes, memory, files, rivals, histories
<1>6. ~outdated' => AllowlistsAgree'
  BY DEF IInv, TypeOK, Config, AllowlistsAgree, DeskIsEmpty, OpensNoChat, Fallback, StepOn, Idle, Strikes, memory, files, rivals, histories
<1>. QED
  BY <1>1, <1>2, <1>3, <1>4, <1>5, <1>6, <1>7 DEF IInv

LEMMA SavesChatKeeps ==
  ASSUME IInv, SavesChat
  PROVE  IInv'
<1>1. TypeOK'
  <2>1. chats' \in Seq(Chat) /\ config' \in Config
    BY GroupAdded DEF IInv, HandIsAboutChats, TypeOK, Config, Hand, SavesChat, outside, rivals, histories
  <2>2. copy' \in [Process -> Config \cup {NoCopy}] /\ listener' \in Process \cup {None}
    BY DEF IInv, TypeOK, Config, SavesChat, outside, rivals, histories
  <2>3. allowed' \subseteq Sender /\ gate' \in BOOLEAN /\ edited' \in Config \cup {NoCopy}
    BY DEF IInv, TypeOK, Config, SavesChat, outside, rivals, histories
  <2>4. approvals' \in Records /\ approvalsFile' \in Records /\ opened' \in Opened \cup {None}
    BY NothingRecorded, Expiry, Deciding, Creation DEF IInv, TypeOK, Status, SavesChat, outside, rivals, histories
  <2>5. origin' \in [Ask -> Chat \cup {None}] /\ due' \subseteq Ask
    BY DEF IInv, TypeOK, SavesChat, outside, rivals, histories
  <2>6. sessions' \subseteq Chat /\ sessionsFile' \subseteq Chat
    BY DEF IInv, TypeOK, Hand, HandIsAboutChats, SavesChat, outside, rivals, histories
  <2>7. hand' \in Hand
    BY IdleTyped, StepTyped DEF IInv, HandIsAboutChats, TypeOK, Hand, Steps, SavesChat, outside, rivals, histories
  <2>8. strikes' \in Nat /\ told' \subseteq Sender /\ refused' \subseteq Ask /\ ready' \subseteq Chat
    BY DEF IInv, TypeOK, Hand, HandIsAboutChats, SavesChat, outside, rivals, histories
  <2>9. ran' \in [Ask -> Nat] /\ outdated' \in BOOLEAN /\ reverted' \in BOOLEAN
    BY DEF IInv, TypeOK, SavesChat, outside, rivals, histories
  <2>. QED
    BY <2>1, <2>2, <2>3, <2>4, <2>5, <2>6, <2>7, <2>8, <2>9 DEF TypeOK
<1>2. DeskIsEmpty'
  BY DEF IInv, DeskIsEmpty, Idle, SavesChat, StepOn, WithGroup, outside, rivals, histories
<1>7. HandIsAboutChats'
  BY <1>1 DEF IInv, TypeOK, Hand, HandIsAboutChats, Idle, SavesChat, StepOn, WithGroup, outside, rivals, histories
<1>3. ~reverted' => (DecisionsKnown /\ NewIsBlank /\ RanWasApproved)'
  BY <1>1 DEF IInv, TypeOK, Hand, Records, Status, DecisionsKnown, NewIsBlank, RanWasApproved, InHandIsFresh,
     RefusedIsDenied, DeskIsEmpty, SavesChat, StepOn, WithGroup, outside, rivals, histories
<1>4. ~reverted' => (InHandIsFresh /\ RefusedIsDenied)'
  BY <1>1 DEF IInv, TypeOK, Hand, Records, Status, DecisionsKnown, NewIsBlank, RanWasApproved, InHandIsFresh,
     RefusedIsDenied, DeskIsEmpty, SavesChat, StepOn, WithGroup, outside, rivals, histories
<1>5. ~reverted' => JobsHaveAgents'
  <2>. SUFFICES ASSUME ~reverted' PROVE JobsHaveAgents'
    OBVIOUS
  <2>1. JobsHaveAgents /\ listener # None /\ hand.to \in Chat
    BY DEF IInv, DeskIsEmpty, HandIsAboutChats, Idle, SavesChat, outside, histories
  <2>2. /\ sessionsFile' = sessions' /\ sessions \subseteq sessions'
        /\ hand.agent => hand.to \in sessions'
        /\ listener' = listener /\ ready' = ready
    BY DEF SavesChat, histories
  <2>3. hand'.job = hand.job /\ hand'.agent = hand.agent /\ hand'.to = hand.to
    BY DEF SavesChat, StepOn
  <2>. QED
    BY <2>1, <2>2, <2>3 DEF JobsHaveAgents
<1>6. ~outdated' => AllowlistsAgree'
  BY DEF IInv, TypeOK, Config, AllowlistsAgree, DeskIsEmpty, SavesChat, StepOn, WithGroup, outside, rivals, histories
<1>. QED
  BY <1>1, <1>2, <1>3, <1>4, <1>5, <1>6, <1>7 DEF IInv

LEMMA SaveFailsKeeps ==
  ASSUME IInv, SaveFails
  PROVE  IInv'
<1>1. TypeOK'
  <2>1. chats' \in Seq(Chat) /\ config' \in Config
    <3>1. config \in Config /\ hand.to \in Chat /\ chats' = chats
      BY DEF IInv, TypeOK, HandIsAboutChats, SaveFails
    <3>2. [allowed |-> config.allowed, groups |-> WithGroup(config.groups, hand.to)] \in Config
      BY <3>1, GroupAdded DEF Config
    <3>. QED
      BY <3>1, <3>2 DEF SaveFails, IInv, TypeOK
  <2>2. copy' \in [Process -> Config \cup {NoCopy}] /\ listener' \in Process \cup {None}
    BY DEF IInv, TypeOK, Config, SaveFails, Strikes, rivals, histories
  <2>3. allowed' \subseteq Sender /\ gate' \in BOOLEAN /\ edited' \in Config \cup {NoCopy}
    BY DEF IInv, TypeOK, Config, SaveFails, Strikes, rivals, histories
  <2>4. approvals' \in Records /\ approvalsFile' \in Records /\ opened' \in Opened \cup {None}
    BY NothingRecorded, Expiry, Deciding, Creation DEF IInv, TypeOK, Status, SaveFails, Strikes, rivals, histories
  <2>5. origin' \in [Ask -> Chat \cup {None}] /\ due' \subseteq Ask
    BY DEF IInv, TypeOK, SaveFails, Strikes, rivals, histories
  <2>6. sessions' \subseteq Chat /\ sessionsFile' \subseteq Chat
    BY DEF IInv, TypeOK, Hand, HandIsAboutChats, SaveFails, Strikes, rivals, histories
  <2>7. hand' \in Hand
    BY IdleTyped, StepTyped DEF IInv, HandIsAboutChats, TypeOK, Hand, Steps, SaveFails, Strikes, rivals, histories
  <2>8. strikes' \in Nat /\ told' \subseteq Sender /\ refused' \subseteq Ask /\ ready' \subseteq Chat
    BY DEF IInv, TypeOK, Hand, HandIsAboutChats, SaveFails, Strikes, rivals, histories
  <2>9. ran' \in [Ask -> Nat] /\ outdated' \in BOOLEAN /\ reverted' \in BOOLEAN
    BY DEF IInv, TypeOK, SaveFails, Strikes, rivals, histories
  <2>. QED
    BY <2>1, <2>2, <2>3, <2>4, <2>5, <2>6, <2>7, <2>8, <2>9 DEF TypeOK
<1>2. DeskIsEmpty'
  BY DEF IInv, DeskIsEmpty, Idle, SaveFails, Fallback, StepOn, WithGroup, Strikes, rivals, histories
<1>7. HandIsAboutChats'
  BY <1>1 DEF IInv, TypeOK, Hand, HandIsAboutChats, Idle, SaveFails, Fallback, StepOn, WithGroup, Strikes, rivals, histories
<1>3. ~reverted' => (DecisionsKnown /\ NewIsBlank /\ RanWasApproved)'
  BY <1>1 DEF IInv, TypeOK, Hand, Records, Status, DecisionsKnown, NewIsBlank, RanWasApproved, InHandIsFresh,
     RefusedIsDenied, DeskIsEmpty, SaveFails, Fallback, StepOn, Idle, WithGroup, Strikes, rivals, histories
<1>4. ~reverted' => (InHandIsFresh /\ RefusedIsDenied)'
  BY <1>1 DEF IInv, TypeOK, Hand, Records, Status, DecisionsKnown, NewIsBlank, RanWasApproved, InHandIsFresh,
     RefusedIsDenied, DeskIsEmpty, SaveFails, Fallback, StepOn, Idle, WithGroup, Strikes, rivals, histories
<1>5. ~reverted' => JobsHaveAgents'
  BY DEF IInv, TypeOK, Steps, Hand, JobsHaveAgents, DeskIsEmpty, SaveFails, Fallback, StepOn, Idle, WithGroup, Strikes, rivals, histories
<1>6. ~outdated' => AllowlistsAgree'
  BY DEF IInv, TypeOK, Config, AllowlistsAgree, DeskIsEmpty, SaveFails, Fallback, StepOn, Idle, WithGroup, Strikes, rivals, histories
<1>. QED
  BY <1>1, <1>2, <1>3, <1>4, <1>5, <1>6, <1>7 DEF IInv

LEMMA AnnouncesKeeps ==
  ASSUME IInv, Announces
  PROVE  IInv'
<1>1. TypeOK'
  <2>1. chats' \in Seq(Chat) /\ config' \in Config
    BY GroupAdded DEF IInv, HandIsAboutChats, TypeOK, Config, Hand, Announces, memory, files, outside, rivals
  <2>2. copy' \in [Process -> Config \cup {NoCopy}] /\ listener' \in Process \cup {None}
    BY DEF IInv, TypeOK, Config, Announces, memory, files, outside, rivals
  <2>3. allowed' \subseteq Sender /\ gate' \in BOOLEAN /\ edited' \in Config \cup {NoCopy}
    BY DEF IInv, TypeOK, Config, Announces, memory, files, outside, rivals
  <2>4. approvals' \in Records /\ approvalsFile' \in Records /\ opened' \in Opened \cup {None}
    BY NothingRecorded, Expiry, Deciding, Creation DEF IInv, TypeOK, Status, Announces, memory, files, outside, rivals
  <2>5. origin' \in [Ask -> Chat \cup {None}] /\ due' \subseteq Ask
    BY DEF IInv, TypeOK, Announces, memory, files, outside, rivals
  <2>6. sessions' \subseteq Chat /\ sessionsFile' \subseteq Chat
    BY DEF IInv, TypeOK, Hand, HandIsAboutChats, Announces, memory, files, outside, rivals
  <2>7. hand' \in Hand
    BY IdleTyped, StepTyped DEF IInv, HandIsAboutChats, TypeOK, Hand, Steps, Announces, memory, files, outside, rivals
  <2>8. strikes' \in Nat /\ told' \subseteq Sender /\ refused' \subseteq Ask /\ ready' \subseteq Chat
    BY DEF IInv, TypeOK, Hand, HandIsAboutChats, Announces, memory, files, outside, rivals
  <2>9. ran' \in [Ask -> Nat] /\ outdated' \in BOOLEAN /\ reverted' \in BOOLEAN
    BY DEF IInv, TypeOK, Announces, memory, files, outside, rivals
  <2>. QED
    BY <2>1, <2>2, <2>3, <2>4, <2>5, <2>6, <2>7, <2>8, <2>9 DEF TypeOK
<1>2. DeskIsEmpty'
  BY DEF IInv, DeskIsEmpty, Idle, Announces, StepOn, memory, files, outside, rivals
<1>7. HandIsAboutChats'
  BY <1>1 DEF IInv, TypeOK, Hand, HandIsAboutChats, Idle, Announces, StepOn, memory, files, outside, rivals
<1>3. ~reverted' => (DecisionsKnown /\ NewIsBlank /\ RanWasApproved)'
  BY <1>1 DEF IInv, TypeOK, Hand, Records, Status, DecisionsKnown, NewIsBlank, RanWasApproved, InHandIsFresh,
     RefusedIsDenied, DeskIsEmpty, Announces, StepOn, Idle, memory, files, outside, rivals
<1>4. ~reverted' => (InHandIsFresh /\ RefusedIsDenied)'
  BY <1>1 DEF IInv, TypeOK, Hand, Records, Status, DecisionsKnown, NewIsBlank, RanWasApproved, InHandIsFresh,
     RefusedIsDenied, DeskIsEmpty, Announces, StepOn, Idle, memory, files, outside, rivals
<1>5. ~reverted' => JobsHaveAgents'
  BY DEF IInv, TypeOK, Steps, Hand, JobsHaveAgents, DeskIsEmpty, Announces, StepOn, Idle, memory, files, outside, rivals
<1>6. ~outdated' => AllowlistsAgree'
  BY DEF IInv, TypeOK, Config, AllowlistsAgree, DeskIsEmpty, Announces, StepOn, Idle, memory, files, outside, rivals
<1>. QED
  BY <1>1, <1>2, <1>3, <1>4, <1>5, <1>6, <1>7 DEF IInv

LEMMA AnnounceFailsKeeps ==
  ASSUME IInv, AnnounceFails
  PROVE  IInv'
<1>1. TypeOK'
  <2>1. chats' \in Seq(Chat) /\ config' \in Config
    BY GroupAdded DEF IInv, HandIsAboutChats, TypeOK, Config, Hand, AnnounceFails, Strikes, memory, files, rivals, histories
  <2>2. copy' \in [Process -> Config \cup {NoCopy}] /\ listener' \in Process \cup {None}
    BY DEF IInv, TypeOK, Config, AnnounceFails, Strikes, memory, files, rivals, histories
  <2>3. allowed' \subseteq Sender /\ gate' \in BOOLEAN /\ edited' \in Config \cup {NoCopy}
    BY DEF IInv, TypeOK, Config, AnnounceFails, Strikes, memory, files, rivals, histories
  <2>4. approvals' \in Records /\ approvalsFile' \in Records /\ opened' \in Opened \cup {None}
    BY NothingRecorded, Expiry, Deciding, Creation DEF IInv, TypeOK, Status, AnnounceFails, Strikes, memory, files, rivals, histories
  <2>5. origin' \in [Ask -> Chat \cup {None}] /\ due' \subseteq Ask
    BY DEF IInv, TypeOK, AnnounceFails, Strikes, memory, files, rivals, histories
  <2>6. sessions' \subseteq Chat /\ sessionsFile' \subseteq Chat
    BY DEF IInv, TypeOK, Hand, HandIsAboutChats, AnnounceFails, Strikes, memory, files, rivals, histories
  <2>7. hand' \in Hand
    BY IdleTyped, StepTyped DEF IInv, HandIsAboutChats, TypeOK, Hand, Steps, AnnounceFails, Strikes, memory, files, rivals, histories
  <2>8. strikes' \in Nat /\ told' \subseteq Sender /\ refused' \subseteq Ask /\ ready' \subseteq Chat
    BY DEF IInv, TypeOK, Hand, HandIsAboutChats, AnnounceFails, Strikes, memory, files, rivals, histories
  <2>9. ran' \in [Ask -> Nat] /\ outdated' \in BOOLEAN /\ reverted' \in BOOLEAN
    BY DEF IInv, TypeOK, AnnounceFails, Strikes, memory, files, rivals, histories
  <2>. QED
    BY <2>1, <2>2, <2>3, <2>4, <2>5, <2>6, <2>7, <2>8, <2>9 DEF TypeOK
<1>2. DeskIsEmpty'
  BY DEF IInv, DeskIsEmpty, Idle, AnnounceFails, Fallback, StepOn, Strikes, memory, files, rivals, histories
<1>7. HandIsAboutChats'
  BY <1>1 DEF IInv, TypeOK, Hand, HandIsAboutChats, Idle, AnnounceFails, Fallback, StepOn, Strikes, memory, files, rivals, histories
<1>3. ~reverted' => (DecisionsKnown /\ NewIsBlank /\ RanWasApproved)'
  BY <1>1 DEF IInv, TypeOK, Hand, Records, Status, DecisionsKnown, NewIsBlank, RanWasApproved, InHandIsFresh,
     RefusedIsDenied, DeskIsEmpty, AnnounceFails, Fallback, StepOn, Idle, Strikes, memory, files, rivals, histories
<1>4. ~reverted' => (InHandIsFresh /\ RefusedIsDenied)'
  BY <1>1 DEF IInv, TypeOK, Hand, Records, Status, DecisionsKnown, NewIsBlank, RanWasApproved, InHandIsFresh,
     RefusedIsDenied, DeskIsEmpty, AnnounceFails, Fallback, StepOn, Idle, Strikes, memory, files, rivals, histories
<1>5. ~reverted' => JobsHaveAgents'
  BY DEF IInv, TypeOK, Steps, Hand, JobsHaveAgents, DeskIsEmpty, AnnounceFails, Fallback, StepOn, Idle, Strikes, memory, files, rivals, histories
<1>6. ~outdated' => AllowlistsAgree'
  BY DEF IInv, TypeOK, Config, AllowlistsAgree, DeskIsEmpty, AnnounceFails, Fallback, StepOn, Idle, Strikes, memory, files, rivals, histories
<1>. QED
  BY <1>1, <1>2, <1>3, <1>4, <1>5, <1>6, <1>7 DEF IInv

LEMMA DispatchesKeeps ==
  ASSUME IInv, Dispatches
  PROVE  IInv'
<1>1. TypeOK'
  <2>1. ran' \in [Ask -> Nat] /\ strikes' \in Nat
    <3>1. ran \in [Ask -> Nat] /\ strikes \in Nat /\ hand.ask \in Ask \cup {None}
      BY DEF IInv, TypeOK, Hand
    <3>2. \/ ran' = ran
          \/ ran' = [ran EXCEPT ![hand.ask] = @ + 1] /\ hand.ask \in Ask
      <4>1. CASE hand.ask = None
        BY <4>1 DEF Dispatches
      <4>2. CASE hand.ask # None
        BY <3>1, <4>2 DEF Dispatches
      <4>. QED
        BY <4>1, <4>2
    <3>3. strikes' = strikes \/ strikes' = strikes + 1
      BY DEF Dispatches, Strikes
    <3>. QED
      BY <3>1, <3>2, <3>3
  <2>2. hand' \in Hand
    BY IdleTyped DEF Dispatches
  <2>. QED
    BY <2>1, <2>2 DEF IInv, TypeOK, Dispatches, memory, files, rivals
<1>2. DeskIsEmpty'
  BY DEF IInv, DeskIsEmpty, Idle, Dispatches, Strikes, memory, files, rivals
<1>7. HandIsAboutChats'
  BY <1>1 DEF IInv, TypeOK, Hand, HandIsAboutChats, Idle, Dispatches, Strikes, memory, files, rivals
<1>3. ~reverted' => (DecisionsKnown /\ NewIsBlank /\ RanWasApproved)'
  BY <1>1 DEF IInv, TypeOK, Hand, Records, Status, DecisionsKnown, NewIsBlank, RanWasApproved, InHandIsFresh,
     RefusedIsDenied, DeskIsEmpty, Dispatches, Strikes, Idle, memory, files, rivals
<1>4. ~reverted' => (InHandIsFresh /\ RefusedIsDenied)'
  BY <1>1 DEF IInv, TypeOK, Hand, Records, Status, DecisionsKnown, NewIsBlank, RanWasApproved, InHandIsFresh,
     RefusedIsDenied, DeskIsEmpty, Dispatches, Strikes, Idle, memory, files, rivals
<1>5. ~reverted' => JobsHaveAgents'
  BY DEF IInv, TypeOK, Steps, Hand, JobsHaveAgents, DeskIsEmpty, Dispatches, Strikes, Idle, memory, files, rivals
<1>6. ~outdated' => AllowlistsAgree'
  BY DEF IInv, TypeOK, Config, AllowlistsAgree, DeskIsEmpty, Dispatches, Strikes, Idle, memory, files, rivals
<1>. QED
  BY <1>1, <1>2, <1>3, <1>4, <1>5, <1>6, <1>7 DEF IInv

LEMMA ExpiresKeeps ==
  ASSUME NEW a \in Ask,
         IInv, Expires(a)
  PROVE  IInv'
<1>1. TypeOK'
  BY DEF IInv, TypeOK, Config, Records, Status, Steps, Hand, Opened, Expires, memory, files, outside, rivals, histories
<1>2. DeskIsEmpty'
  BY DEF IInv, DeskIsEmpty, Idle, Expires, memory, files, outside, rivals, histories
<1>7. HandIsAboutChats'
  BY <1>1 DEF IInv, TypeOK, Hand, HandIsAboutChats, Idle, Expires, memory, files, outside, rivals, histories
<1>3. ~reverted' => (DecisionsKnown /\ NewIsBlank /\ RanWasApproved)'
  BY <1>1 DEF IInv, TypeOK, Hand, Records, Status, DecisionsKnown, NewIsBlank, RanWasApproved, InHandIsFresh,
     RefusedIsDenied, DeskIsEmpty, Expires, memory, files, outside, rivals, histories
<1>4. ~reverted' => (InHandIsFresh /\ RefusedIsDenied)'
  BY <1>1 DEF IInv, TypeOK, Hand, Records, Status, DecisionsKnown, NewIsBlank, RanWasApproved, InHandIsFresh,
     RefusedIsDenied, DeskIsEmpty, Expires, memory, files, outside, rivals, histories
<1>5. ~reverted' => JobsHaveAgents'
  BY DEF IInv, TypeOK, Steps, Hand, JobsHaveAgents, DeskIsEmpty, Expires, memory, files, outside, rivals, histories
<1>6. ~outdated' => AllowlistsAgree'
  BY DEF IInv, TypeOK, Config, AllowlistsAgree, DeskIsEmpty, Expires, memory, files, outside, rivals, histories
<1>. QED
  BY <1>1, <1>2, <1>3, <1>4, <1>5, <1>6, <1>7 DEF IInv

LEMMA OpenerReadsKeeps ==
  ASSUME IInv, OpenerReads
  PROVE  IInv'
<1>1. TypeOK'
  BY DEF IInv, TypeOK, Config, Records, Status, Steps, Hand, Opened, OpenerReads, Strikes, memory, files, histories, NoRecords
<1>2. DeskIsEmpty'
  BY DEF IInv, DeskIsEmpty, Idle, OpenerReads, Strikes, memory, files, histories, NoRecords
<1>7. HandIsAboutChats'
  BY <1>1 DEF IInv, TypeOK, Hand, HandIsAboutChats, Idle, OpenerReads, Strikes, memory, files, histories, NoRecords
<1>3. ~reverted' => (DecisionsKnown /\ NewIsBlank /\ RanWasApproved)'
  BY <1>1 DEF IInv, TypeOK, Hand, Records, Status, DecisionsKnown, NewIsBlank, RanWasApproved, InHandIsFresh,
     RefusedIsDenied, DeskIsEmpty, OpenerReads, Strikes, memory, files, histories, NoRecords
<1>4. ~reverted' => (InHandIsFresh /\ RefusedIsDenied)'
  BY <1>1 DEF IInv, TypeOK, Hand, Records, Status, DecisionsKnown, NewIsBlank, RanWasApproved, InHandIsFresh,
     RefusedIsDenied, DeskIsEmpty, OpenerReads, Strikes, memory, files, histories, NoRecords
<1>5. ~reverted' => JobsHaveAgents'
  BY DEF IInv, TypeOK, Steps, Hand, JobsHaveAgents, DeskIsEmpty, OpenerReads, Strikes, memory, files, histories, NoRecords
<1>6. ~outdated' => AllowlistsAgree'
  BY DEF IInv, TypeOK, Config, AllowlistsAgree, DeskIsEmpty, OpenerReads, Strikes, memory, files, histories, NoRecords
<1>. QED
  BY <1>1, <1>2, <1>3, <1>4, <1>5, <1>6, <1>7 DEF IInv

LEMMA OpenerWritesKeeps ==
  ASSUME IInv, OpenerWrites
  PROVE  IInv'
<1>1. TypeOK'
  BY DEF IInv, TypeOK, Config, Records, Status, Steps, Hand, Opened, OpenerWrites, ExpirePending, memory
<1>2. DeskIsEmpty'
  BY DEF IInv, DeskIsEmpty, Idle, OpenerWrites, ExpirePending, memory
<1>7. HandIsAboutChats'
  BY <1>1 DEF IInv, TypeOK, Hand, HandIsAboutChats, Idle, OpenerWrites, ExpirePending, memory
<1>3. ~reverted' => (DecisionsKnown /\ NewIsBlank /\ RanWasApproved)'
  BY <1>1 DEF IInv, TypeOK, Hand, Records, Status, DecisionsKnown, NewIsBlank, RanWasApproved, InHandIsFresh,
     RefusedIsDenied, DeskIsEmpty, OpenerWrites, ExpirePending, memory
<1>4. ~reverted' => (InHandIsFresh /\ RefusedIsDenied)'
  BY <1>1 DEF IInv, TypeOK, Hand, Records, Status, DecisionsKnown, NewIsBlank, RanWasApproved, InHandIsFresh,
     RefusedIsDenied, DeskIsEmpty, OpenerWrites, ExpirePending, memory
<1>5. ~reverted' => JobsHaveAgents'
  BY DEF IInv, TypeOK, Steps, Hand, JobsHaveAgents, DeskIsEmpty, OpenerWrites, ExpirePending, memory
<1>6. ~outdated' => AllowlistsAgree'
  BY DEF IInv, TypeOK, Config, AllowlistsAgree, DeskIsEmpty, OpenerWrites, ExpirePending, memory
<1>. QED
  BY <1>1, <1>2, <1>3, <1>4, <1>5, <1>6, <1>7 DEF IInv

LEMMA OperatorReadsKeeps ==
  ASSUME IInv, OperatorReads
  PROVE  IInv'
<1>1. TypeOK'
  BY DEF IInv, TypeOK, Config, Records, Status, Steps, Hand, Opened, OperatorReads, Strikes, memory, files, histories, NoCopy
<1>2. DeskIsEmpty'
  BY DEF IInv, DeskIsEmpty, Idle, OperatorReads, Strikes, memory, files, histories, NoCopy
<1>7. HandIsAboutChats'
  BY <1>1 DEF IInv, TypeOK, Hand, HandIsAboutChats, Idle, OperatorReads, Strikes, memory, files, histories, NoCopy
<1>3. ~reverted' => (DecisionsKnown /\ NewIsBlank /\ RanWasApproved)'
  BY <1>1 DEF IInv, TypeOK, Hand, Records, Status, DecisionsKnown, NewIsBlank, RanWasApproved, InHandIsFresh,
     RefusedIsDenied, DeskIsEmpty, OperatorReads, Strikes, memory, files, histories, NoCopy
<1>4. ~reverted' => (InHandIsFresh /\ RefusedIsDenied)'
  BY <1>1 DEF IInv, TypeOK, Hand, Records, Status, DecisionsKnown, NewIsBlank, RanWasApproved, InHandIsFresh,
     RefusedIsDenied, DeskIsEmpty, OperatorReads, Strikes, memory, files, histories, NoCopy
<1>5. ~reverted' => JobsHaveAgents'
  BY DEF IInv, TypeOK, Steps, Hand, JobsHaveAgents, DeskIsEmpty, OperatorReads, Strikes, memory, files, histories, NoCopy
<1>6. ~outdated' => AllowlistsAgree'
  BY DEF IInv, TypeOK, Config, AllowlistsAgree, DeskIsEmpty, OperatorReads, Strikes, memory, files, histories, NoCopy
<1>. QED
  BY <1>1, <1>2, <1>3, <1>4, <1>5, <1>6, <1>7 DEF IInv

LEMMA OperatorWritesKeeps ==
  ASSUME IInv, OperatorWrites
  PROVE  IInv'
<1>1. TypeOK'
  BY DEF IInv, TypeOK, Config, Records, Status, Steps, Hand, Opened, OperatorWrites, memory, NoCopy
<1>2. DeskIsEmpty'
  BY DEF IInv, DeskIsEmpty, Idle, OperatorWrites, memory, NoCopy
<1>7. HandIsAboutChats'
  BY <1>1 DEF IInv, TypeOK, Hand, HandIsAboutChats, Idle, OperatorWrites, memory, NoCopy
<1>3. ~reverted' => (DecisionsKnown /\ NewIsBlank /\ RanWasApproved)'
  BY <1>1 DEF IInv, TypeOK, Hand, Records, Status, DecisionsKnown, NewIsBlank, RanWasApproved, InHandIsFresh,
     RefusedIsDenied, DeskIsEmpty, OperatorWrites, memory, NoCopy
<1>4. ~reverted' => (InHandIsFresh /\ RefusedIsDenied)'
  BY <1>1 DEF IInv, TypeOK, Hand, Records, Status, DecisionsKnown, NewIsBlank, RanWasApproved, InHandIsFresh,
     RefusedIsDenied, DeskIsEmpty, OperatorWrites, memory, NoCopy
<1>5. ~reverted' => JobsHaveAgents'
  BY DEF IInv, TypeOK, Steps, Hand, JobsHaveAgents, DeskIsEmpty, OperatorWrites, memory, NoCopy
<1>6. ~outdated' => AllowlistsAgree'
  BY DEF IInv, TypeOK, Config, AllowlistsAgree, DeskIsEmpty, OperatorWrites, memory, NoCopy
<1>. QED
  BY <1>1, <1>2, <1>3, <1>4, <1>5, <1>6, <1>7 DEF IInv

LEMMA InitKeeps ==
  ASSUME Init
  PROVE  IInv
<1>1. TypeOK
  <2>1. chats \in Seq(Chat) /\ config \in Config /\ edited \in Config \cup {NoCopy}
    BY DEF Init, Config
  <2>2. copy \in [Process -> Config \cup {NoCopy}] /\ origin \in [Ask -> Chat \cup {None}]
    BY DEF Init
  <2>3. approvals \in Records /\ approvalsFile \in Records /\ hand \in Hand
    BY NothingRecorded, IdleTyped DEF Init
  <2>4. ran \in [Ask -> Nat] /\ strikes \in Nat
    BY DEF Init
  <2>. QED
    BY <2>1, <2>2, <2>3, <2>4 DEF Init, TypeOK
<1>. QED
  BY <1>1 DEF Init, IInv, DeskIsEmpty, HandIsAboutChats, Idle, DecisionsKnown, NewIsBlank,
     RanWasApproved, InHandIsFresh, RefusedIsDenied, JobsHaveAgents, AllowlistsAgree, NoRecords

LEMMA StutterKeeps ==
  ASSUME IInv, UNCHANGED vars
  PROVE  IInv'
<1>1. TypeOK'
  BY DEF IInv, TypeOK, vars, memory, files, outside, rivals, histories
<1>2. DeskIsEmpty' /\ HandIsAboutChats' /\ (~outdated' => AllowlistsAgree')
  BY DEF IInv, DeskIsEmpty, HandIsAboutChats, AllowlistsAgree, vars, memory, files, outside,
     rivals, histories
<1>3. ~reverted' => (DecisionsKnown /\ NewIsBlank /\ RanWasApproved /\ InHandIsFresh
                       /\ RefusedIsDenied /\ JobsHaveAgents)'
  BY DEF IInv, DecisionsKnown, NewIsBlank, RanWasApproved, InHandIsFresh, RefusedIsDenied,
     JobsHaveAgents, vars, memory, files, outside, rivals, histories
<1>. QED
  BY <1>1, <1>2, <1>3 DEF IInv

LEMMA MessageKeeps ==
  ASSUME NEW s \in Sender, NEW c \in Chat, IInv, Message(s, c)
  PROVE  IInv'
<1>1. CASE \E a \in Ask : \/ NeedsApproval(s, c, a) \/ Approves(s, c, a)
                         \/ Denies(s, c, a) \/ DecisionFails(s, c, a)
                         \/ TurnsDown(s, c, a)
  BY <1>1, NeedsApprovalKeeps, ApprovesKeeps, DeniesKeeps, DecisionFailsKeeps, TurnsDownKeeps
<1>2. CASE RunsAgent(s, c) \/ AskFails(s, c) \/ ExpiryFails(s, c)
  BY <1>2, RunsAgentKeeps, AskFailsKeeps, ExpiryFailsKeeps
<1>3. CASE EditsSession(s, c) \/ Resumes(s, c) \/ AsksForChat(s, c)
  BY <1>3, EditsSessionKeeps, ResumesKeeps, AsksForChatKeeps
<1>. QED
  BY <1>1, <1>2, <1>3 DEF Message

LEMMA NextKeeps ==
  ASSUME IInv, [Next]_vars
  PROVE  IInv'
<1>1. CASE \E c \in Chat : OpensHome(c)
  BY <1>1, OpensHomeKeeps
<1>2. CASE \E p \in Process : ProcessStep(p)
  BY <1>2, LoadsKeeps, ServesKeeps, FailsToServeKeeps DEF ProcessStep
<1>3. CASE Killed
  BY <1>3, KilledKeeps
<1>4. CASE \E s \in Sender : Pairs(s) \/ PairingFails(s)
  BY <1>4, PairsKeeps, PairingFailsKeeps
<1>5. CASE \E s \in Sender, c \in Chat : Message(s, c)
  BY <1>5, MessageKeeps
<1>6. CASE CarriesOut
  BY <1>6, OpensChatKeeps, OpensNoChatKeeps, SavesChatKeeps, SaveFailsKeeps, AnnouncesKeeps,
     AnnounceFailsKeeps, DispatchesKeeps DEF CarriesOut
<1>7. CASE \E a \in Ask : Expires(a)
  BY <1>7, ExpiresKeeps
<1>8. CASE Rivalry
  BY <1>8, OpenerReadsKeeps, OpenerWritesKeeps, OperatorReadsKeeps, OperatorWritesKeeps DEF Rivalry
<1>9. CASE UNCHANGED vars
  BY <1>9, StutterKeeps
<1>. QED
  BY <1>1, <1>2, <1>3, <1>4, <1>5, <1>6, <1>7, <1>8, <1>9 DEF Next

-----------------------------------------------------------------------------
(* Theorems. *)

\* Memory, files and what is in hand keep the relations of IInv in every
\* behaviour of the listener, the operator and the opening programs.
THEOREM FrontDeskInvariant == Spec => []IInv
<1>1. Init => IInv
  BY InitKeeps
<1>2. IInv /\ [Next]_vars => IInv'
  BY NextKeeps
<1>. QED
  BY <1>1, <1>2, PTL DEF Spec

\* An approved request is handed to the queue at most once.
THEOREM ApprovedRunsOnce == Spec => []RunsOnce
<1>1. ASSUME IInv, ~reverted, NEW a \in Ask PROVE ran[a] <= 1
  <2>1. ran[a] = 0 \/ ran[a] = 1
    BY <1>1 DEF IInv, RanWasApproved
  <2>. QED
    BY <2>1
<1>2. IInv => RunsOnce
  BY <1>1 DEF RunsOnce
<1>. QED
  BY <1>2, FrontDeskInvariant, PTL

\* A denial that was acknowledged is never followed by the run it denied.
THEOREM DenialsAreFinal == Spec => []DenialsHold
<1>1. IInv => DenialsHold
  BY FrontDeskAssumption DEF IInv, DenialsHold, RefusedIsDenied, RanWasApproved, InHandIsFresh,
     TypeOK, FrontDeskAssumption
<1>. QED
  BY <1>1, FrontDeskInvariant, PTL

\* The PIN lets one sender in.
THEOREM OneSenderPairs == Spec => []OnePairing
<1>1. IInv => OnePairing
  <2>. SUFFICES ASSUME IInv, ~outdated PROVE OnePairing
    BY DEF OnePairing
  <2>1. AllowlistsAgree
    BY DEF IInv
  <2>2. allowed \subseteq config.allowed
    BY <2>1 DEF AllowlistsAgree, IInv, DeskIsEmpty
  <2>. QED
    BY <2>1, <2>2 DEF OnePairing, AllowlistsAgree
<1>. QED
  BY <1>1, FrontDeskInvariant, PTL

\* Who was told "paired" is let in by every later listener.
THEOREM PairedStays == Spec => []StaysPaired
<1>1. IInv => StaysPaired
  BY DEF IInv, StaysPaired, AllowlistsAgree
<1>. QED
  BY <1>1, FrontDeskInvariant, PTL

\* An announced job chat has its agent, in memory and in the file.
THEOREM JobChatsHaveAgents == Spec => []JobChatsAnswer
<1>1. IInv => JobChatsAnswer
  BY DEF IInv, JobChatsAnswer, JobsHaveAgents
<1>. QED
  BY <1>1, FrontDeskInvariant, PTL

-----------------------------------------------------------------------------
(* FrontDesk implements ApprovalPromise. *)

\* The file and the memory that is saved over it have the same records.
SameRecords ==
  ~reverted /\ listener # None =>
    \A a \in Ask : approvals[a] = "none" <=> approvalsFile[a] = "none"

\* What a file puts on record.
Put(file) == [a \in Ask |-> IF file[a] \in {"pending", "expired"} THEN "open" ELSE file[a]]

LEMMA OnRecordIs == OnRecord = Put(approvalsFile) /\ OnRecord' = Put(approvalsFile')
BY DEF OnRecord, Put

\* A memory that only added records and decided what it had open goes on record.
Follows(m, records) ==
  \A a \in Ask : /\ records[a] = "none" => m[a] \in {"none", "pending"}
                 /\ records[a] # "none" => m[a] # "none"
                 /\ records[a] \in {"approved", "denied"} => m[a] = records[a]

LEMMA Saving ==
  ASSUME NEW file \in Records, NEW records \in Records, NEW m \in Records,
         \A a \in Ask : records[a] = "none" <=> file[a] = "none",
         \A a \in Ask : file[a] \in {"approved", "denied"} => records[a] = file[a],
         Follows(m, records)
  PROVE  /\ Put(m) \in [Ask -> Promise!Standing]
         /\ \A a \in Ask : Promise!Moves(Put(file)[a], Put(m)[a])
<1>1. \A a \in Ask : m[a] \in Status /\ file[a] \in Status
  BY DEF Records
<1>2. \A a \in Ask : Put(m)[a] \in Promise!Standing
  BY <1>1 DEF Put, Promise!Standing, Promise!Verdict, Status
<1>3. Put(m) \in [Ask -> Promise!Standing]
  BY <1>2 DEF Put
<1>4. ASSUME NEW a \in Ask PROVE Promise!Moves(Put(file)[a], Put(m)[a])
  <2>1. Put(file)[a] = IF file[a] \in {"pending", "expired"} THEN "open" ELSE file[a]
    BY DEF Put
  <2>2. Put(m)[a] = IF m[a] \in {"pending", "expired"} THEN "open" ELSE m[a]
    BY DEF Put
  <2>3. CASE file[a] = "none"
    <3>1. m[a] \in {"none", "pending"}
      BY <2>3 DEF Follows
    <3>. QED
      BY <2>1, <2>2, <2>3, <3>1 DEF Promise!Moves
  <2>4. CASE file[a] \in {"pending", "expired"}
    <3>1. m[a] \in {"pending", "expired", "approved", "denied"}
      BY <1>1, <2>4 DEF Follows, Status
    <3>. QED
      BY <2>1, <2>2, <2>4, <3>1 DEF Promise!Moves, Promise!Verdict
  <2>5. CASE file[a] \in {"approved", "denied"}
    <3>1. m[a] = file[a]
      BY <2>5 DEF Follows
    <3>. QED
      BY <2>1, <2>2, <3>1 DEF Promise!Moves
  <2>. QED
    BY <1>1, <2>3, <2>4, <2>5 DEF Status
<1>. QED
  BY <1>3, <1>4

\* The expiry that a memory is brought up to date with, and a decision after it.
LEMMA ExpiryFollows ==
  ASSUME NEW records \in Records, NEW d
  PROVE  /\ Follows(ExpirePending(records, d), records)
         /\ \A a \in Ask, status \in {"approved", "denied"} :
              ExpirePending(records, d)[a] = "pending" =>
                /\ records[a] = "pending" /\ a \notin d
                /\ Follows(Decided(ExpirePending(records, d), a, status), records)
<1> DEFINE current == ExpirePending(records, d)
<1>1. current \in Records
  BY Expiry
<1>2. \A a \in Ask : current[a] = IF records[a] = "pending" /\ a \in d THEN "expired" ELSE records[a]
  BY DEF ExpirePending
<1>. HIDE DEF current
<1>3. Follows(current, records)
  BY <1>2 DEF Follows
<1>4. ASSUME NEW a \in Ask, NEW status \in {"approved", "denied"}, current[a] = "pending"
      PROVE  /\ records[a] = "pending" /\ a \notin d
             /\ Follows(Decided(current, a, status), records)
  <2>1. records[a] = "pending" /\ a \notin d
    BY <1>2, <1>4
  <2>2. status \in Status
    BY DEF Status
  <2>3. /\ Decided(current, a, status)[a] = status
        /\ \A b \in Ask \ {a} : Decided(current, a, status)[b] = current[b]
    BY <1>1, <2>2, Deciding
  <2>. QED
    BY <1>3, <2>1, <2>3 DEF Follows
<1>. QED
  BY <1>3, <1>4 DEF current

\* Memory and file as the invariants have them, for Saving.
LEMMA Agreement ==
  ASSUME IInv, SameRecords, ~reverted, listener # None
  PROVE  /\ approvals \in Records /\ approvalsFile \in Records
         /\ \A a \in Ask : approvals[a] = "none" <=> approvalsFile[a] = "none"
         /\ \A a \in Ask : approvalsFile[a] \in {"approved", "denied"}
                             => approvals[a] = approvalsFile[a]
BY DEF IInv, TypeOK, SameRecords, DecisionsKnown

\* Records that are saved from memory, or kept there after a save that failed.
LEMMA SavedKeeps ==
  ASSUME IInv, SameRecords, ~reverted, listener # None,
         NEW m \in Records, Follows(m, approvals), approvalsFile' = m,
         UNCHANGED <<due, ran, reverted>>
  PROVE  Promise!Recorded
<1>1. /\ Put(m) \in [Ask -> Promise!Standing]
      /\ \A a \in Ask : Promise!Moves(Put(approvalsFile)[a], Put(m)[a])
  BY Agreement, Saving
<1>. QED
  BY <1>1, OnRecordIs DEF Promise!Recorded

\* What the listener has in hand is all that is granted.
LEMMA InHandOnly ==
  ASSUME IInv
  PROVE  /\ hand.ask \in Ask \cup {None} /\ None \notin Ask
         /\ AtDesk => hand.ask = None
         /\ hand' = Idle => hand'.ask = None
BY FrontDeskAssumption DEF FrontDeskAssumption, IInv, TypeOK, Hand, AtDesk, Idle

Same == UNCHANGED <<approvalsFile, due, ran, refused, reverted>>

LEMMA QuietMaps ==
  ASSUME Same, hand'.ask \in {hand.ask, None}
  PROVE  [Promise!Next]_(Promise!pvars)
<1>1. OnRecord' = OnRecord
  BY OnRecordIs DEF Same
<1>2. CASE hand'.ask = hand.ask
  BY <1>1, <1>2 DEF Same, Promise!pvars
<1>3. CASE hand'.ask = None
  <2>1. Promise!Drop
    BY <1>1, <1>3 DEF Same, Promise!Drop
  <2>. QED
    BY <2>1 DEF Promise!Next
<1>. QED
  BY <1>2, <1>3

\* Steps that leave the records alone, and grant nothing.
LEMMA QuietSteps ==
  ASSUME IInv,
         \/ \E c \in Chat : OpensHome(c)
         \/ \E p \in Process : Loads(p) \/ FailsToServe(p)
         \/ \E s \in Sender : Pairs(s)
         \/ \E s \in Sender, c \in Chat :
              RunsAgent(s, c) \/ EditsSession(s, c) \/ Resumes(s, c) \/ AsksForChat(s, c)
         \/ \E w \in Chat : OpensChat(w)
         \/ OpensNoChat \/ SavesChat \/ SaveFails \/ Announces \/ AnnounceFails
         \/ OpenerReads \/ OperatorReads \/ OperatorWrites
         \/ UNCHANGED vars
  PROVE  /\ Same /\ UNCHANGED <<approvals, listener>>
         /\ hand'.ask \in {hand.ask, None}
<1>1. /\ Idle.ask = None /\ Fallback.ask \in {hand.ask, None}
      /\ \A step, c : StepOn(step, c).ask = hand.ask
      /\ \A c : Carries(None, c).ask = None
  BY DEF Idle, Fallback, StepOn, Carries
<1>2. CASE \/ \E c \in Chat : OpensHome(c)
           \/ \E p \in Process : Loads(p) \/ FailsToServe(p)
           \/ \E s \in Sender : Pairs(s)
           \/ \E s \in Sender, c \in Chat : EditsSession(s, c) \/ Resumes(s, c)
           \/ OpenerReads \/ OperatorReads \/ OperatorWrites
           \/ UNCHANGED vars
  BY <1>2 DEF OpensHome, Loads, FailsToServe, Pairs, EditsSession, Resumes, OpenerReads,
     OperatorReads, OperatorWrites, vars, Same, memory, files, histories, outside, rivals
<1>3. CASE \E s \in Sender, c \in Chat : RunsAgent(s, c) \/ AsksForChat(s, c)
  BY <1>1, <1>3 DEF RunsAgent, AsksForChat, Same, memory, files, histories, outside, rivals
<1>4. CASE (\E w \in Chat : OpensChat(w)) \/ OpensNoChat
  BY <1>1, <1>4 DEF OpensChat, OpensNoChat, Same, memory, files, histories, outside, rivals
<1>5. CASE SavesChat \/ SaveFails
  BY <1>1, <1>5 DEF SavesChat, SaveFails, Same, memory, files, histories, outside, rivals
<1>6. CASE Announces \/ AnnounceFails
  BY <1>1, <1>6 DEF Announces, AnnounceFails, Same, memory, files, histories, outside, rivals
<1>. QED
  BY <1>2, <1>3, <1>4, <1>5, <1>6

\* Steps that end the process.
LEMMA EndingSteps ==
  ASSUME IInv, Killed \/ (\E s \in Sender : PairingFails(s))
                      \/ (\E s \in Sender, c \in Chat : AskFails(s, c))
  PROVE  Same /\ listener' = None /\ hand'.ask = None
<1>1. Ends => listener' = None /\ hand'.ask = None
  BY DEF Ends, Idle
<1>. QED
  BY <1>1 DEF Killed, PairingFails, AskFails, Same, files, histories

LEMMA ServesMaps ==
  ASSUME IInv, NEW p \in Process, Serves(p)
  PROVE  SameRecords' /\ [Promise!Next]_(Promise!pvars)
<1>1. /\ approvals' = ExpirePending(approvalsFile, due) /\ approvalsFile' = approvals'
      /\ UNCHANGED <<due, hand, ran, refused, reverted>>
  BY DEF Serves
<1>2. OnRecord' = OnRecord
  BY <1>1, OnRecordIs DEF Put, ExpirePending
<1>. QED
  BY <1>1, <1>2 DEF SameRecords, Promise!pvars

LEMMA OpenerWritesMaps ==
  ASSUME IInv, SameRecords, OpenerWrites
  PROVE  SameRecords' /\ [Promise!Next]_(Promise!pvars)
<1>1. CASE reverted'
  <2>1. reverted' = TRUE
    BY <1>1 DEF OpenerWrites, IInv, TypeOK
  <2>2. Promise!Undo
    BY <2>1 DEF Promise!Undo
  <2>. QED
    BY <1>1, <2>2 DEF SameRecords, Promise!Next
<1>2. CASE ~reverted'
  <2>1. /\ approvalsFile' = approvalsFile \/ approvalsFile' = ExpirePending(approvalsFile, due)
        /\ UNCHANGED <<approvals, listener, due, hand, ran, refused>>
        /\ ~reverted
    BY <1>2 DEF OpenerWrites, memory
  <2>2. reverted' = reverted
    BY <1>2, <2>1 DEF OpenerWrites, IInv, TypeOK
  <2>3. OnRecord' = OnRecord
    BY <2>1, OnRecordIs DEF Put, ExpirePending
  <2>4. \A a \in Ask : approvalsFile'[a] = "none" <=> approvalsFile[a] = "none"
    BY <2>1 DEF ExpirePending
  <2>. QED
    BY <2>1, <2>2, <2>3, <2>4 DEF SameRecords, Promise!pvars
<1>. QED
  BY <1>1, <1>2

\* A request that may be decided is open, in time, and nobody is served yet.
LEMMA DecidableIsOpen ==
  ASSUME IInv, SameRecords, ~reverted, AtDesk, NEW a \in Ask, NEW c,
         Decidable(ExpirePending(approvals, due), origin, a, c)
  PROVE  /\ Promise!InTime(a)
         /\ \A status \in {"approved", "denied"} :
              Follows(Decided(ExpirePending(approvals, due), a, status), approvals)
<1>1. listener # None
  BY DEF AtDesk
<1>2. ExpirePending(approvals, due)[a] = "pending"
  BY DEF Decidable
<1>3. approvals[a] = "pending" /\ a \notin due
  BY <1>1, <1>2, Agreement, ExpiryFollows
<1>4. approvalsFile[a] \in {"pending", "expired"}
  <2>1. approvalsFile[a] \in Status
    BY <1>1, Agreement DEF Records
  <2>. QED
    BY <1>1, <1>3, <2>1, Agreement DEF Status
<1>5. OnRecord[a] = "open"
  BY <1>4 DEF OnRecord
<1>. QED
  BY <1>1, <1>2, <1>3, <1>5, Agreement, ExpiryFollows DEF Promise!InTime

LEMMA ApprovesMaps ==
  ASSUME IInv, SameRecords, ~reverted, NEW s \in Sender, NEW c \in Chat, NEW a \in Ask,
         Approves(s, c, a)
  PROVE  SameRecords' /\ Promise!Grant(a)
<1> DEFINE m == Decided(ExpirePending(approvals, due), a, "approved")
<1>1. /\ AtDesk /\ listener # None
      /\ Decidable(ExpirePending(approvals, due), origin, a, c)
      /\ approvals' = m /\ approvalsFile' = m /\ hand' = Carries(a, c)
      /\ UNCHANGED <<due, ran, refused, reverted, listener>>
  BY DEF Approves, AtDesk, outside, histories
<1>2. Promise!InTime(a) /\ Follows(m, approvals)
  BY <1>1, DecidableIsOpen
<1>3. m \in Records /\ m[a] = "approved"
  BY <1>1, Agreement, Expiry, Deciding DEF Status
<1>. HIDE DEF m
<1>4. Promise!Recorded
  BY <1>1, <1>2, <1>3, SavedKeeps
<1>5. OnRecord'[a] = "approved"
  BY <1>1, <1>3, OnRecordIs DEF Put
<1>6. hand.ask = None /\ hand'.ask = a /\ a # None
  BY <1>1, InHandOnly DEF Carries
<1>. QED
  BY <1>1, <1>2, <1>4, <1>5, <1>6 DEF Promise!Grant, SameRecords

LEMMA DeniesMaps ==
  ASSUME IInv, SameRecords, ~reverted, NEW s \in Sender, NEW c \in Chat, NEW a \in Ask,
         Denies(s, c, a)
  PROVE  SameRecords' /\ Promise!Refuse(a)
<1> DEFINE m == Decided(ExpirePending(approvals, due), a, "denied")
<1>1. /\ AtDesk /\ listener # None
      /\ Decidable(ExpirePending(approvals, due), origin, a, c)
      /\ approvals' = m /\ approvalsFile' = m /\ refused' = refused \cup {a}
      /\ UNCHANGED <<due, ran, hand, reverted, listener>>
  BY DEF Denies, AtDesk, outside
<1>2. Promise!InTime(a) /\ Follows(m, approvals)
  BY <1>1, DecidableIsOpen
<1>3. m \in Records /\ m[a] = "denied"
  BY <1>1, Agreement, Expiry, Deciding DEF Status
<1>. HIDE DEF m
<1>4. Promise!Recorded
  BY <1>1, <1>2, <1>3, SavedKeeps
<1>5. OnRecord'[a] = "denied"
  BY <1>1, <1>3, OnRecordIs DEF Put
<1>. QED
  BY <1>1, <1>2, <1>4, <1>5 DEF Promise!Refuse, SameRecords

\* A new record, an expiry that is noted, and decisions that stay in memory.
LEMMA SavingSteps ==
  ASSUME IInv, SameRecords, ~reverted, NEW s \in Sender, NEW c \in Chat,
         \/ \E a \in Ask : NeedsApproval(s, c, a) \/ TurnsDown(s, c, a) \/ DecisionFails(s, c, a)
         \/ ExpiryFails(s, c)
  PROVE  SameRecords' /\ [Promise!Next]_(Promise!pvars)
<1> DEFINE current == ExpirePending(approvals, due)
<1>1. AtDesk /\ listener # None
  BY DEF NeedsApproval, TurnsDown, DecisionFails, ExpiryFails, AtDesk
<1>2. /\ approvals \in Records /\ approvalsFile \in Records
      /\ \A a \in Ask : approvals[a] = "none" <=> approvalsFile[a] = "none"
  BY <1>1, Agreement
<1>3. /\ current \in Records /\ Follows(current, approvals)
      /\ \A a \in Ask : approvals[a] = "none" <=> current[a] = "none"
  <2>1. current \in Records /\ Follows(current, approvals)
    BY <1>2, Expiry, ExpiryFollows
  <2>2. \A a \in Ask : approvals[a] = "none" <=> current[a] = "none"
    BY DEF ExpirePending
  <2>. QED
    BY <2>1, <2>2
<1>4. UNCHANGED <<listener, hand, due, ran, refused, reverted>>
  BY DEF NeedsApproval, TurnsDown, DecisionFails, ExpiryFails, outside, histories
<1>. HIDE DEF current
<1>5. ASSUME NEW m \in Records, Follows(m, approvals), approvalsFile' = m
      PROVE  [Promise!Next]_(Promise!pvars)
  <2>1. Promise!Recorded
    BY <1>1, <1>4, <1>5, SavedKeeps
  <2>2. Promise!Save
    BY <1>4, <2>1 DEF Promise!Save
  <2>. QED
    BY <2>2 DEF Promise!Next
<1>6. ASSUME approvalsFile' = approvalsFile
      PROVE  [Promise!Next]_(Promise!pvars)
  BY <1>4, <1>6, QuietMaps DEF Same
<1>7. ASSUME NEW a \in Ask, NeedsApproval(s, c, a)
      PROVE  SameRecords' /\ [Promise!Next]_(Promise!pvars)
  <2>1. approvals' = Created(approvals, a) /\ approvalsFile' = approvals' /\ origin[a] = None
    BY <1>7 DEF NeedsApproval
  <2>2. approvals[a] = "none"
    BY <2>1 DEF IInv, NewIsBlank
  <2>3. approvals' \in Records /\ Follows(approvals', approvals)
    <3>1. /\ Created(approvals, a) \in Records /\ Created(approvals, a)[a] = "pending"
          /\ \A b \in Ask \ {a} : Created(approvals, a)[b] = approvals[b]
      BY <1>2, Creation
    <3>2. \A b \in Ask : b = a \/ b \in Ask \ {a}
      OBVIOUS
    <3>3. Follows(Created(approvals, a), approvals)
      BY <2>2, <3>1, <3>2 DEF Follows
    <3>. QED
      BY <2>1, <3>1, <3>3
  <2>4. [Promise!Next]_(Promise!pvars)
    BY <1>5, <2>1, <2>3
  <2>. QED
    BY <2>1, <2>4 DEF SameRecords
<1>8. ASSUME NEW a \in Ask, TurnsDown(s, c, a)
      PROVE  SameRecords' /\ [Promise!Next]_(Promise!pvars)
  <2>1. /\ approvals' = current
        /\ approvalsFile' = current \/ approvalsFile' = approvalsFile
    BY <1>8 DEF TurnsDown, current
  <2>2. \A b \in Ask : approvals'[b] = "none" <=> approvalsFile'[b] = "none"
    BY <1>2, <1>3, <2>1
  <2>. QED
    BY <1>3, <1>5, <1>6, <2>1, <2>2 DEF SameRecords
<1>9. ASSUME NEW a \in Ask, DecisionFails(s, c, a)
      PROVE  SameRecords' /\ [Promise!Next]_(Promise!pvars)
  <2>1. /\ current[a] = "pending"
        /\ \E status \in {"approved", "denied"} : approvals' = Decided(current, a, status)
        /\ approvalsFile' = current \/ approvalsFile' = approvalsFile
    BY <1>9 DEF DecisionFails, Decidable, current
  <2>2. \A b \in Ask : approvals'[b] = "none" <=> current[b] = "none"
    <3>1. PICK status \in {"approved", "denied"} : approvals' = Decided(current, a, status)
      BY <2>1
    <3>2. approvals'[a] = status /\ \A b \in Ask \ {a} : approvals'[b] = current[b]
      <4>1. status \in Status
        BY DEF Status
      <4>2. /\ Decided(current, a, status)[a] = status
            /\ \A b \in Ask \ {a} : Decided(current, a, status)[b] = current[b]
        BY <1>3, <4>1, Deciding
      <4>. QED
        BY <3>1, <4>2
    <3>3. \A b \in Ask : b = a \/ b \in Ask \ {a}
      OBVIOUS
    <3>. QED
      BY <2>1, <3>2, <3>3
  <2>3. \A b \in Ask : approvals'[b] = "none" <=> approvalsFile'[b] = "none"
    BY <1>2, <1>3, <2>1, <2>2
  <2>. QED
    BY <1>3, <1>5, <1>6, <2>1, <2>3 DEF SameRecords
<1>10. CASE ExpiryFails(s, c)
  <2>1. approvals' = current /\ approvalsFile' = approvalsFile
    BY <1>10 DEF ExpiryFails, files, current
  <2>. QED
    BY <1>2, <1>3, <1>6, <2>1 DEF SameRecords
<1>. QED
  BY <1>7, <1>8, <1>9, <1>10

LEMMA DispatchesMaps ==
  ASSUME IInv, SameRecords, Dispatches
  PROVE  SameRecords' /\ [Promise!Next]_(Promise!pvars)
<1>1. /\ UNCHANGED <<approvals, approvalsFile, listener, due, refused, reverted>>
      /\ hand' = Idle /\ hand'.ask = None
      /\ ran' = ran \/ (hand.ask # None /\ ran' = [ran EXCEPT ![hand.ask] = @ + 1])
  BY DEF Dispatches, memory, files, Idle
<1>2. SameRecords'
  BY <1>1 DEF SameRecords
<1>3. CASE ran' = ran
  BY <1>1, <1>2, <1>3, QuietMaps DEF Same
<1>4. CASE hand.ask # None /\ ran' = [ran EXCEPT ![hand.ask] = @ + 1]
  <2> DEFINE a == hand.ask
  <2>1. a \in Ask
    BY <1>4, InHandOnly
  <2>2. OnRecord' = OnRecord
    BY <1>1, OnRecordIs
  <2>3. Promise!Run(a)
    BY <1>1, <1>4, <2>2 DEF Promise!Run
  <2>. QED
    BY <1>2, <2>1, <2>3 DEF Promise!Next
<1>. QED
  BY <1>1, <1>3, <1>4

LEMMA ExpiresMaps ==
  ASSUME SameRecords, NEW a \in Ask, Expires(a)
  PROVE  SameRecords' /\ [Promise!Next]_(Promise!pvars)
<1>1. /\ due' = due \cup {a}
      /\ UNCHANGED <<approvals, approvalsFile, listener, hand, ran, refused, reverted>>
  BY DEF Expires, memory, files, outside, histories
<1>2. OnRecord' = OnRecord
  BY <1>1, OnRecordIs
<1>3. Promise!Expire(a)
  BY <1>1, <1>2 DEF Promise!Expire
<1>. QED
  BY <1>1, <1>3 DEF SameRecords, Promise!Next

\* Once an older state was put back, nothing is promised.
LEMMA UndoneMaps ==
  ASSUME IInv, reverted, [Next]_vars
  PROVE  SameRecords' /\ [Promise!Next]_(Promise!pvars)
<1>1. reverted' = TRUE
  <2>1. reverted = TRUE
    BY DEF IInv, TypeOK
  <2>2. IInv'
    BY NextKeeps
  <2>3. reverted' \in BOOLEAN
    BY <2>2 DEF IInv, TypeOK
  <2>4. reverted' = reverted \/ OpenerWrites
    <3>1. CASE \E c \in Chat : OpensHome(c)
      BY <3>1 DEF OpensHome, histories
    <3>2. CASE \E p \in Process : ProcessStep(p)
      BY <3>2 DEF ProcessStep, Loads, Serves, FailsToServe, histories
    <3>3. CASE Killed
      BY <3>3 DEF Killed, histories
    <3>8. CASE \E s \in Sender : Pairs(s) \/ PairingFails(s)
      BY <3>8 DEF Pairs, PairingFails, histories
    <3>4. CASE \E s \in Sender, c \in Chat : Message(s, c)
      <4>1. PICK s \in Sender, c \in Chat : Message(s, c)
        BY <3>4
      <4>2. CASE RunsAgent(s, c) \/ AskFails(s, c) \/ ExpiryFails(s, c)
        BY <4>2 DEF RunsAgent, AskFails, ExpiryFails, histories
      <4>3. CASE EditsSession(s, c) \/ Resumes(s, c) \/ AsksForChat(s, c)
        BY <4>3 DEF EditsSession, Resumes, AsksForChat, histories
      <4>4. ASSUME NEW a \in Ask, NeedsApproval(s, c, a) \/ Approves(s, c, a) \/ Denies(s, c, a)
            PROVE  reverted' = reverted
        BY <4>4 DEF NeedsApproval, Approves, Denies, histories
      <4>5. ASSUME NEW a \in Ask, DecisionFails(s, c, a) \/ TurnsDown(s, c, a)
            PROVE  reverted' = reverted
        BY <4>5 DEF DecisionFails, TurnsDown, histories
      <4>. QED
        BY <4>1, <4>2, <4>3, <4>4, <4>5 DEF Message
    <3>5. CASE CarriesOut
      BY <3>5 DEF CarriesOut, OpensChat, OpensNoChat, SavesChat, SaveFails, Announces,
         AnnounceFails, Dispatches, histories
    <3>6. CASE (\E a \in Ask : Expires(a)) \/ Rivalry
      BY <3>6 DEF Expires, Rivalry, OpenerReads, OperatorReads, OperatorWrites, histories
    <3>7. CASE UNCHANGED vars
      BY <3>7 DEF vars, histories
    <3>. QED
      BY <3>1, <3>2, <3>3, <3>4, <3>5, <3>6, <3>7, <3>8 DEF Next
  <2>5. OpenerWrites => reverted'
    BY <2>1 DEF OpenerWrites
  <2>. QED
    BY <2>1, <2>3, <2>4, <2>5
<1>2. Promise!Undo
  BY <1>1 DEF Promise!Undo
<1>. QED
  BY <1>1, <1>2 DEF SameRecords, Promise!Next

LEMMA StepMaps ==
  ASSUME IInv, SameRecords, [Next]_vars
  PROVE  SameRecords' /\ [Promise!Next]_(Promise!pvars)
<1>1. CASE reverted
  BY <1>1, UndoneMaps
<1>2. ASSUME ~reverted,
             \/ \E c \in Chat : OpensHome(c)
             \/ \E p \in Process : Loads(p) \/ FailsToServe(p)
             \/ \E s \in Sender : Pairs(s)
             \/ \E s \in Sender, c \in Chat :
                  RunsAgent(s, c) \/ EditsSession(s, c) \/ Resumes(s, c) \/ AsksForChat(s, c)
             \/ \E w \in Chat : OpensChat(w)
             \/ OpensNoChat \/ SavesChat \/ SaveFails \/ Announces \/ AnnounceFails
             \/ OpenerReads \/ OperatorReads \/ OperatorWrites
             \/ UNCHANGED vars
      PROVE  SameRecords' /\ [Promise!Next]_(Promise!pvars)
  <2>1. /\ Same /\ UNCHANGED <<approvals, listener>>
        /\ hand'.ask \in {hand.ask, None}
    BY <1>2, QuietSteps
  <2>. QED
    BY <2>1, QuietMaps DEF Same, SameRecords
<1>3. ASSUME Killed \/ (\E s \in Sender : PairingFails(s))
                    \/ (\E s \in Sender, c \in Chat : AskFails(s, c))
      PROVE  SameRecords' /\ [Promise!Next]_(Promise!pvars)
  <2>1. Same /\ listener' = None /\ hand'.ask = None
    BY <1>3, EndingSteps
  <2>. QED
    BY <2>1, QuietMaps DEF SameRecords
<1>4. ASSUME \E p \in Process : Serves(p)
      PROVE  SameRecords' /\ [Promise!Next]_(Promise!pvars)
  BY <1>4, ServesMaps
<1>5. ASSUME ~reverted, NEW s \in Sender, NEW c \in Chat,
             \/ \E a \in Ask : \/ NeedsApproval(s, c, a) \/ TurnsDown(s, c, a)
                               \/ DecisionFails(s, c, a)
             \/ ExpiryFails(s, c)
      PROVE  SameRecords' /\ [Promise!Next]_(Promise!pvars)
  BY <1>5, SavingSteps
<1>6. ASSUME ~reverted, NEW s \in Sender, NEW c \in Chat, NEW a \in Ask,
             Approves(s, c, a) \/ Denies(s, c, a)
      PROVE  SameRecords' /\ [Promise!Next]_(Promise!pvars)
  BY <1>6, ApprovesMaps, DeniesMaps DEF Promise!Next
<1>7. CASE Dispatches \/ OpenerWrites
  BY <1>7, DispatchesMaps, OpenerWritesMaps
<1>8. ASSUME NEW a \in Ask, Expires(a)
      PROVE  SameRecords' /\ [Promise!Next]_(Promise!pvars)
  BY <1>8, ExpiresMaps
<1>. QED
  BY <1>1, <1>2, <1>3, <1>4, <1>5, <1>6, <1>7, <1>8
     DEF Next, ProcessStep, Message, CarriesOut, Rivalry

\* The approvals keep ApprovalPromise: a decision on file is final, only what
\* was approved in time runs, and once.
THEOREM ApprovalsImplement == Spec => KeepsDecisions
<1>1. Init => SameRecords /\ Promise!Init
  BY DEF Init, NoRecords, Idle, OnRecord, SameRecords, Promise!Init
<1>2. IInv /\ SameRecords /\ [Next]_vars => SameRecords'
  BY StepMaps
<1>3. IInv /\ SameRecords /\ [Next]_vars => [Promise!Next]_(Promise!pvars)
  BY StepMaps
<1>. QED
  BY <1>1, <1>2, <1>3, FrontDeskInvariant, PTL DEF Spec, KeepsDecisions, Promise!Spec

====
