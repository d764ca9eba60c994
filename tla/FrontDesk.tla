---- MODULE FrontDesk ----
(***************************************************************************)
(* What the listener decides about a message before any agent runs: who is *)
(* let in (pairing), what needs an approval, and which chat a job goes to  *)
(* (app.rs, auth.rs, approvals.rs, session.rs and the routing of main.rs). *)
(*                                                                         *)
(* All of this is kept twice, in the memory of the one process that        *)
(* listens and in files: config.toml, approvals.json, chat-state.json.  The  *)
(* files are written whole.  Processes that wait for the listener's lock   *)
(* hold a copy of the configuration that they read before they waited; the *)
(* operator's commands read the configuration and write it back; and a     *)
(* worker that starts opens the two stores, which writes them back.        *)
(*                                                                         *)
(* The lock itself is RuntimeLock's; here one process listens at a time.   *)
(***************************************************************************)
EXTENDS Approvals, Functions, Sequences

CONSTANTS
  Sender,        \* White Noise identities
  Process,       \* processes that may listen: service, foreground
  None,          \* no process, no request, no copy
  PinRequired,   \* require_pairing_pin
  Faults,        \* what may go wrong: see Fault
  MaxStrikes     \* bound: how many things go wrong

\* "approvals", "sessions", "config": a write of that file fails.  "group": White
\* Noise lists or makes no group, or does not take the first message.
\* "queue": the job cannot be queued.  "kill": the listener is killed.
\* "opener": another program opens the stores (worker start, run, handle).
\* "operator": a command loads the configuration, changes it and saves it.
Fault == {"approvals", "sessions", "config", "group", "queue", "kill", "opener", "operator"}

ASSUME FrontDeskAssumption ==
  /\ Faults \subseteq Fault
  /\ MaxStrikes \in Nat
  /\ PinRequired \in BOOLEAN
  /\ None \notin Process \cup Ask \cup Chat

VARIABLES
  chats,       \* the White Noise groups, as listed: in the order they were made
  config,      \* the file: allowed senders, control groups (the first is primary)
  copy,        \* per process: the configuration it has read, None when it is down
  listener,    \* the process that listens, or None
  allowed,     \* its AuthState: allowed_senders
  gate,        \* and whether it has a PairingGate
  approvals,   \* its ApprovalStore
  approvalsFile, \* approvals.json
  origin,      \* sender_key of each record: the chat that asked
  due,         \* requests past their expires_at
  sessions,    \* its ChatStateStore: the chats that have a default agent
  sessionsFile, \* chat-state.json
  hand,        \* the action it is carrying out
  opened,      \* the copy that an opening program has read and will write back
  edited,      \* the copy that an operator's command has read and will save
  strikes,     \* how many things went wrong so far
  \* histories
  told,        \* senders who were told that they are paired
  refused,     \* requests whose denial was acknowledged
  ran,         \* how often each request was handed to the queue
  ready,       \* job chats that were announced to the sender
  outdated,    \* an old copy of the allowlist was put to use or saved
  reverted     \* an old copy of approvals or sessions was written back

memory == <<allowed, gate, approvals, sessions>>
files  == <<config, approvalsFile, sessionsFile>>
rivals == <<opened, edited>>
outside == <<rivals, strikes>>
histories == <<told, refused, ran, ready, outdated, reverted>>
vars == <<chats, copy, listener, origin, due, hand, memory, files, outside, histories>>

NoCopy == None
Config == [allowed : SUBSET Sender, groups : Seq(Chat)]

\* Nothing to carry out.
Idle == [at |-> "idle", ask |-> None, job |-> FALSE, agent |-> FALSE,
         from |-> None, to |-> None]

\* add_control_group_id
WithGroup(groups, c) == IF c \in Range(groups) THEN groups ELSE Append(groups, c)

\* is_primary_group: the first control group of the configuration in memory.
Primary(c) == /\ copy[listener].groups # << >>
              /\ Head(copy[listener].groups) = c

Init ==
  /\ chats = << >>
  /\ config = [allowed |-> {}, groups |-> << >>]
  /\ copy = [p \in Process |-> NoCopy]
  /\ listener = None
  /\ allowed = {} /\ gate = FALSE
  /\ approvals = NoRecords /\ approvalsFile = NoRecords
  /\ origin = [a \in Ask |-> None] /\ due = {}
  /\ sessions = {} /\ sessionsFile = {}
  /\ hand = Idle
  /\ opened = None /\ edited = NoCopy
  /\ strikes = 0
  /\ told = {} /\ refused = {} /\ ready = {}
  /\ ran = [a \in Ask |-> 0]
  /\ outdated = FALSE /\ reverted = FALSE

Strikes(fault) == /\ fault \in Faults
                  /\ strikes < MaxStrikes
                  /\ strikes' = strikes + 1

-----------------------------------------------------------------------------
(* Processes: reading the configuration, waiting, listening, ending. *)

\* The phone makes the control chat.
OpensHome(c) ==
  /\ chats = << >>
  /\ chats' = <<c>>
  /\ UNCHANGED <<config, copy, listener, memory, approvalsFile, sessionsFile, origin,
                 due, hand, outside, histories>>

\* transport_run, start_listener: the configuration is read before the wait.
Loads(p) ==
  /\ copy[p] = NoCopy
  /\ copy' = [copy EXCEPT ![p] = config]
  /\ UNCHANGED <<chats, listener, memory, files, origin, due, hand, outside, histories>>

\* The process that listened is gone and its memory with it.
Ends ==
  /\ listener' = None
  /\ copy' = [copy EXCEPT ![listener] = NoCopy]
  /\ allowed' = {} /\ gate' = FALSE
  /\ approvals' = NoRecords
  /\ sessions' = {}
  /\ hand' = Idle

\* reconcile_discovered_groups: the groups of White Noise replace those of the
\* process's copy, which is saved whole when that changes it.
Relisted(p) == [allowed |-> copy[p].allowed,
                groups |-> IF chats = << >> THEN copy[p].groups ELSE chats]
SavedRelisted(p) == IF Relisted(p) = copy[p] THEN config ELSE Relisted(p)

\* run_listener goes on when listing or saving fails.
Reconciles(p) ==
  \/ /\ copy' = [copy EXCEPT ![p] = Relisted(p)]
     /\ config' = SavedRelisted(p)
     /\ UNCHANGED strikes
  \/ /\ Strikes("config")
     /\ copy' = [copy EXCEPT ![p] = Relisted(p)]
     /\ UNCHANGED config
  \/ Strikes("group") /\ UNCHANGED <<copy, config>>

\* The lock is free: pairing_for_listener, the groups, and the stores, whose
\* open() expires what is due and writes the file back.
Serves(p) ==
  /\ listener = None
  /\ copy[p] # NoCopy
  /\ listener' = p
  /\ Reconciles(p)
  /\ allowed' = copy[p].allowed
  /\ gate' = (PinRequired /\ copy[p].allowed = {})
  /\ approvals' = ExpirePending(approvalsFile, due)
  /\ approvalsFile' = ExpirePending(approvalsFile, due)
  /\ sessions' = sessionsFile
  /\ outdated' = (outdated \/ copy[p].allowed # config.allowed)
  /\ UNCHANGED <<chats, sessionsFile, origin, due, hand, rivals,
                 told, refused, ran, ready, reverted>>

\* A store cannot be written back: the process ends before it listens, after
\* the groups.
FailsToServe(p) ==
  /\ listener = None
  /\ copy[p] # NoCopy
  /\ Strikes("approvals") \/ Strikes("sessions")
  /\ config' = SavedRelisted(p)
  /\ copy' = [copy EXCEPT ![p] = NoCopy]
  /\ outdated' = (outdated \/ copy[p].allowed # config.allowed)
  /\ UNCHANGED <<chats, listener, memory, approvalsFile, sessionsFile, origin, due, hand,
                 rivals, told, refused, ran, ready, reverted>>

\* The listener is killed between any two of its steps.
Killed ==
  /\ listener # None
  /\ Strikes("kill")
  /\ Ends
  /\ UNCHANGED <<chats, files, origin, due, rivals, histories>>

-----------------------------------------------------------------------------
(* Messages.  One is handled at a time: the listener is at its channel. *)

AtDesk == listener # None /\ hand = Idle

\* should_ignore_sender
LetIn(s) == IF allowed = {} THEN ~gate ELSE s \in allowed

\* Mutant of Pairs: the PIN is accepted while its gate exists.
PairsAnyone(s) ==
  /\ AtDesk /\ chats # << >>
  /\ gate
  /\ allowed' = allowed \cup {s}
  /\ config' = [allowed |-> config.allowed \cup {s}, groups |-> config.groups]
  /\ told' = told \cup {s}
  /\ UNCHANGED <<copy, listener, gate, approvals, sessions, hand, chats, approvalsFile,
                 sessionsFile, origin, due, outside, refused, ran, ready, outdated, reverted>>

\* try_pair_sender with the current PIN.  The sender is allowed in memory, then
\* in a fresh copy of the file; an error of the file leaves listen() and ends the
\* process, so that it is forgotten.
Pairs(s) ==
  /\ AtDesk /\ chats # << >>
  /\ gate /\ allowed = {}
  /\ allowed' = {s}
  /\ config' = [allowed |-> config.allowed \cup {s}, groups |-> config.groups]
  /\ told' = told \cup {s}
  /\ UNCHANGED <<chats, copy, listener, gate, approvals, approvalsFile, sessions,
                 sessionsFile, hand, origin, due, outside, refused, ran, ready,
                 outdated, reverted>>

PairingFails(s) ==
  /\ AtDesk /\ chats # << >>
  /\ gate /\ allowed = {}
  /\ s \notin config.allowed
  /\ Strikes("config")
  /\ Ends
  /\ UNCHANGED <<chats, files, origin, due, rivals, histories>>

\* What the listener has to do for a request it may run: a job chat for a
\* request of the primary chat (job_session_request), then the queue.
Carries(a, c) ==
  [at |-> IF Primary(c) THEN "open" ELSE "run", ask |-> a, job |-> TRUE,
   agent |-> TRUE, from |-> c, to |-> c]

\* prepare_request, route_run_request: outside the primary chat the agent
\* becomes the chat's default.
Remembers(c) ==
  IF Primary(c) THEN sessions' = sessions /\ sessionsFile' = sessionsFile
                ELSE sessions' = sessions \cup {c} /\ sessionsFile' = sessions'

\* A command for an agent, or plain text in a chat that has a default agent
\* (route_bare_text), which approval_reason finds harmless.
RunsAgent(s, c) ==
  /\ AtDesk /\ c \in Range(chats) /\ LetIn(s)
  /\ Remembers(c)
  /\ hand' = Carries(None, c)
  /\ UNCHANGED <<chats, config, copy, listener, allowed, gate, approvals, approvalsFile,
                 origin, due, outside, histories>>

\* The same, for a request that needs an approval.  The id is a new one.
NeedsApproval(s, c, a) ==
  /\ AtDesk /\ c \in Range(chats) /\ LetIn(s)
  /\ origin[a] = None
  /\ Remembers(c)
  /\ approvals' = Created(approvals, a)
  /\ approvalsFile' = approvals'
  /\ origin' = [origin EXCEPT ![a] = c]
  /\ UNCHANGED <<chats, config, copy, listener, allowed, gate, due, hand,
                 outside, histories>>

\* Either write may fail: the error leaves listen() and ends the process.
AskFails(s, c) ==
  /\ AtDesk /\ c \in Range(chats) /\ LetIn(s)
  /\ \/ /\ Strikes("sessions") /\ ~Primary(c)
        /\ UNCHANGED sessionsFile
     \/ /\ Strikes("approvals")
        /\ sessionsFile' = IF Primary(c) THEN sessionsFile ELSE sessions \cup {c}
  /\ Ends
  /\ UNCHANGED <<chats, config, approvalsFile, origin, due, rivals, histories>>

\* Mutant of Approves: the decision is not saved.
ApprovesInMemory(s, c, a) ==
  /\ AtDesk /\ c \in Range(chats) /\ LetIn(s)
  /\ LET current == ExpirePending(approvals, due)
     IN /\ Decidable(current, origin, a, c)
        /\ approvals' = Decided(current, a, "approved")
  /\ hand' = Carries(a, c)
  /\ UNCHANGED <<chats, files, copy, listener, allowed, gate, sessions,
                 origin, due, outside, histories>>

\* Mutant of Approves: what is due is not expired before the decision.
ApprovesLate(s, c, a) ==
  /\ AtDesk /\ c \in Range(chats) /\ LetIn(s)
  /\ Decidable(approvals, origin, a, c)
  /\ approvals' = Decided(approvals, a, "approved")
  /\ approvalsFile' = approvals'
  /\ hand' = Carries(a, c)
  /\ UNCHANGED <<chats, config, copy, listener, allowed, gate, sessions, sessionsFile,
                 origin, due, outside, histories>>

\* transition, after expire_pending has made `current` of the memory: the
\* record is decided in memory, then the file is written.
Approves(s, c, a) ==
  /\ AtDesk /\ c \in Range(chats) /\ LetIn(s)
  /\ LET current == ExpirePending(approvals, due)
     IN /\ Decidable(current, origin, a, c)
        /\ approvals' = Decided(current, a, "approved")
  /\ approvalsFile' = approvals'
  /\ hand' = Carries(a, c)
  /\ UNCHANGED <<chats, config, copy, listener, allowed, gate, sessions, sessionsFile,
                 origin, due, outside, histories>>

Denies(s, c, a) ==
  /\ AtDesk /\ c \in Range(chats) /\ LetIn(s)
  /\ LET current == ExpirePending(approvals, due)
     IN /\ Decidable(current, origin, a, c)
        /\ approvals' = Decided(current, a, "denied")
  /\ approvalsFile' = approvals'
  /\ refused' = refused \cup {a}
  /\ UNCHANGED <<chats, config, copy, listener, allowed, gate, sessions, sessionsFile,
                 origin, due, hand, outside, told, ran, ready, outdated, reverted>>

\* expire_pending cannot be saved: nothing is decided, and the error is the
\* answer.  The memory keeps what it did.
ExpiryFails(s, c) ==
  /\ AtDesk /\ c \in Range(chats) /\ LetIn(s)
  /\ ExpirePending(approvals, due) # approvals
  /\ Strikes("approvals")
  /\ approvals' = ExpirePending(approvals, due)
  /\ UNCHANGED <<chats, files, copy, listener, allowed, gate, sessions, origin, due,
                 hand, rivals, histories>>

\* Nothing may be decided, or /approvals: what is due is expired, and saved.
TurnsDown(s, c, a) ==
  /\ AtDesk /\ c \in Range(chats) /\ LetIn(s)
  /\ LET current == ExpirePending(approvals, due)
     IN /\ ~Decidable(current, origin, a, c)
        /\ approvals' = current
        /\ approvalsFile' = IF current # approvals THEN current ELSE approvalsFile
  /\ UNCHANGED <<chats, config, copy, listener, allowed, gate, sessions, sessionsFile,
                 origin, due, hand, outside, histories>>

\* The decision cannot be saved: the error is the answer, the memory keeps it.
DecisionFails(s, c, a) ==
  /\ AtDesk /\ c \in Range(chats) /\ LetIn(s)
  /\ Strikes("approvals")
  /\ LET current == ExpirePending(approvals, due)
     IN /\ Decidable(current, origin, a, c)
        /\ \E status \in {"approved", "denied"} :
             approvals' = Decided(current, a, status)
        /\ approvalsFile' = IF current # approvals THEN current ELSE approvalsFile
  /\ UNCHANGED <<chats, config, copy, listener, allowed, gate, sessions, sessionsFile,
                 origin, due, hand, rivals, histories>>

\* /rename, /close, /use, /cd, /worktree: other fields of the chat's session;
\* the store is written whole.
EditsSession(s, c) ==
  /\ AtDesk /\ c \in Range(chats) /\ LetIn(s)
  /\ sessionsFile' = sessions
  /\ UNCHANGED <<chats, config, copy, listener, memory, approvalsFile, origin, due,
                 hand, outside, histories>>

\* Mutant of Resumes: the configuration in memory is saved, not a fresh copy.
ResumesWithOldCopy(s, c) ==
  /\ AtDesk /\ c \in Range(chats) /\ LetIn(s)
  /\ sessionsFile' = sessions
  /\ config' = [allowed |-> copy[listener].allowed,
                groups |-> WithGroup(copy[listener].groups, c)]
  /\ UNCHANGED <<chats, copy, listener, memory, approvalsFile, origin, due, hand,
                 outside, histories>>

\* /jump: the chat is a control group again (resume_parallel_session).
Resumes(s, c) ==
  /\ AtDesk /\ c \in Range(chats) /\ LetIn(s)
  /\ sessionsFile' = sessions
  /\ config' = [allowed |-> config.allowed, groups |-> WithGroup(config.groups, c)]
  /\ UNCHANGED <<chats, copy, listener, memory, approvalsFile, origin, due, hand,
                 outside, histories>>

\* /new: a chat with the session of this one.
AsksForChat(s, c) ==
  /\ AtDesk /\ c \in Range(chats) /\ LetIn(s)
  /\ hand' = [at |-> "open", ask |-> None, job |-> FALSE, agent |-> c \in sessions,
              from |-> c, to |-> c]
  /\ UNCHANGED <<chats, copy, listener, memory, files, origin, due, outside, histories>>

-----------------------------------------------------------------------------
(* Carrying out: create_parallel_session, then dispatch_agent_request. *)

\* The next step for what is in hand, about chat c; and what is left when there is
\* no new chat: a job runs where it was asked for,
\* and /new is answered with an error.
StepOn(step, c) == [at |-> step, ask |-> hand.ask, job |-> hand.job, agent |-> hand.agent,
                    from |-> hand.from, to |-> c]
Fallback == IF hand.job THEN StepOn("run", hand.from) ELSE Idle

OpensChat(w) ==
  /\ hand.at = "open"
  /\ w \notin Range(chats)
  /\ chats' = Append(chats, w)
  /\ hand' = StepOn("record", w)
  /\ UNCHANGED <<copy, listener, memory, files, origin, due, outside, histories>>

\* Chat is a bound: the model makes no more groups than it has names for.
OpensNoChat ==
  /\ \/ Strikes("group")
     \/ Range(chats) = Chat /\ UNCHANGED strikes
  /\ hand.at = "open"
  /\ hand' = Fallback
  /\ UNCHANGED <<chats, copy, listener, memory, files, origin, due, rivals, histories>>

\* create_session_record, persist_control_group_id, subscribe_group_if_needed
SavesChat ==
  /\ hand.at = "record"
  /\ sessions' = IF hand.agent THEN sessions \cup {hand.to} ELSE sessions
  /\ sessionsFile' = sessions'
  /\ config' = [allowed |-> config.allowed, groups |-> WithGroup(config.groups, hand.to)]
  /\ hand' = StepOn("announce", hand.to)
  /\ UNCHANGED <<chats, copy, listener, allowed, gate, approvals, approvalsFile, origin,
                 due, outside, histories>>

\* Mutant of SaveFails: the chat is announced all the same.
SaveFailsQuietly ==
  /\ hand.at = "record"
  /\ sessions' = IF hand.agent THEN sessions \cup {hand.to} ELSE sessions
  /\ \/ Strikes("sessions") /\ UNCHANGED <<sessionsFile, config>>
     \/ Strikes("config") /\ sessionsFile' = sessions' /\ UNCHANGED config
     \/ /\ Strikes("group") /\ sessionsFile' = sessions'
        /\ config' = [allowed |-> config.allowed, groups |-> WithGroup(config.groups, hand.to)]
  /\ hand' = StepOn("announce", hand.to)
  /\ UNCHANGED <<chats, copy, listener, allowed, gate, approvals, approvalsFile,
                 origin, due, rivals, histories>>

SaveFails ==
  /\ hand.at = "record"
  /\ sessions' = IF hand.agent THEN sessions \cup {hand.to} ELSE sessions
  /\ \/ Strikes("sessions") /\ UNCHANGED <<sessionsFile, config>>
     \/ Strikes("config") /\ sessionsFile' = sessions' /\ UNCHANGED config
     \/ /\ Strikes("group") /\ sessionsFile' = sessions'
        /\ config' = [allowed |-> config.allowed, groups |-> WithGroup(config.groups, hand.to)]
  /\ hand' = Fallback
  /\ UNCHANGED <<chats, copy, listener, allowed, gate, approvals, approvalsFile,
                 origin, due, rivals, histories>>

\* The first message of the new chat.  The job runs there once it is sent.
Announces ==
  /\ hand.at = "announce"
  /\ hand' = IF hand.job THEN StepOn("run", hand.to) ELSE Idle
  /\ ready' = IF hand.job THEN ready \cup {hand.to} ELSE ready
  /\ UNCHANGED <<chats, copy, listener, memory, files, origin, due, outside,
                 told, refused, ran, outdated, reverted>>

AnnounceFails ==
  /\ hand.at = "announce"
  /\ Strikes("group")
  /\ hand' = Fallback
  /\ UNCHANGED <<chats, copy, listener, memory, files, origin, due, rivals, histories>>

\* dispatch_agent_request, which may fail to queue the job.
Dispatches ==
  /\ hand.at = "run"
  /\ \/ /\ ran' = IF hand.ask = None THEN ran ELSE [ran EXCEPT ![hand.ask] = @ + 1]
        /\ UNCHANGED strikes
     \/ Strikes("queue") /\ UNCHANGED ran
  /\ hand' = Idle
  /\ UNCHANGED <<chats, copy, listener, memory, files, origin, due, rivals,
                 told, refused, ready, outdated, reverted>>

-----------------------------------------------------------------------------
(* Time and the other programs. *)

Expires(a) ==
  /\ origin[a] # None /\ a \notin due
  /\ due' = due \cup {a}
  /\ UNCHANGED <<chats, copy, listener, memory, files, origin, hand, outside, histories>>

\* ApprovalStore::open and ChatStateStore::open in another program: read ...
OpenerReads ==
  /\ Strikes("opener")
  /\ opened = None
  /\ \/ opened' = [store |-> "approvals", approvals |-> approvalsFile, sessions |-> {}]
     \/ opened' = [store |-> "sessions", approvals |-> NoRecords, sessions |-> sessionsFile]
  /\ UNCHANGED <<chats, copy, listener, memory, files, origin, due, hand, edited, histories>>

\* ... and write back.
OpenerWrites ==
  /\ opened # None
  /\ approvalsFile' = IF opened.store = "approvals" THEN ExpirePending(opened.approvals, due) ELSE approvalsFile
  /\ sessionsFile' = IF opened.store = "sessions" THEN opened.sessions ELSE sessionsFile
  /\ reverted' = \/ reverted
                 \/ opened.store = "approvals" /\ opened.approvals # approvalsFile
                 \/ opened.store = "sessions" /\ opened.sessions # sessionsFile
  /\ opened' = None
  /\ UNCHANGED <<chats, config, copy, listener, memory, origin, due, hand, edited, strikes,
                 told, refused, ran, ready, outdated>>

\* An operator's command loads the configuration ...
OperatorReads ==
  /\ Strikes("operator")
  /\ edited = NoCopy
  /\ edited' = config
  /\ UNCHANGED <<chats, copy, listener, memory, files, origin, due, hand, opened, histories>>

\* ... and saves it, with a change in some other field.
OperatorWrites ==
  /\ edited # NoCopy
  /\ config' = edited
  /\ outdated' = (outdated \/ edited.allowed # config.allowed)
  /\ edited' = NoCopy
  /\ UNCHANGED <<chats, copy, listener, memory, approvalsFile, sessionsFile, origin, due,
                 hand, opened, strikes, told, refused, ran, ready, reverted>>

-----------------------------------------------------------------------------

ProcessStep(p) == Loads(p) \/ Serves(p) \/ FailsToServe(p)

Message(s, c) ==
  \/ RunsAgent(s, c) \/ AskFails(s, c)
  \/ \E a \in Ask : \/ NeedsApproval(s, c, a) \/ Approves(s, c, a)
                    \/ Denies(s, c, a) \/ DecisionFails(s, c, a)
                    \/ TurnsDown(s, c, a)
  \/ ExpiryFails(s, c)
  \/ EditsSession(s, c) \/ Resumes(s, c) \/ AsksForChat(s, c)

CarriesOut == \/ \E w \in Chat : OpensChat(w)
              \/ OpensNoChat \/ SavesChat \/ SaveFails \/ Announces \/ AnnounceFails \/ Dispatches

Rivalry == OpenerReads \/ OpenerWrites \/ OperatorReads \/ OperatorWrites

Next == \/ \E c \in Chat : OpensHome(c)
        \/ \E p \in Process : ProcessStep(p)
        \/ Killed
        \/ \E s \in Sender : Pairs(s) \/ PairingFails(s)
        \/ \E s \in Sender, c \in Chat : Message(s, c)
        \/ CarriesOut
        \/ \E a \in Ask : Expires(a)
        \/ Rivalry

Spec == Init /\ [][Next]_vars

-----------------------------------------------------------------------------
(* Properties. *)

Steps == {"idle", "open", "record", "announce", "run"}
Hand == [at : Steps, ask : Ask \cup {None}, job : BOOLEAN, agent : BOOLEAN,
         from : Chat \cup {None}, to : Chat \cup {None}]
Opened == [store : {"approvals", "sessions"}, approvals : Records, sessions : SUBSET Chat]

TypeOK ==
  /\ chats \in Seq(Chat)
  /\ config \in Config
  /\ copy \in [Process -> Config \cup {NoCopy}]
  /\ listener \in Process \cup {None}
  /\ allowed \subseteq Sender /\ gate \in BOOLEAN
  /\ approvals \in Records /\ approvalsFile \in Records
  /\ origin \in [Ask -> Chat \cup {None}] /\ due \subseteq Ask
  /\ sessions \subseteq Chat /\ sessionsFile \subseteq Chat
  /\ hand \in Hand
  /\ opened \in Opened \cup {None}
  /\ edited \in Config \cup {NoCopy}
  /\ strikes \in Nat
  /\ told \subseteq Sender /\ refused \subseteq Ask /\ ready \subseteq Chat
  /\ ran \in [Ask -> Nat]
  /\ outdated \in BOOLEAN /\ reverted \in BOOLEAN

\* Nobody listens: nothing is in hand, nobody is let in.  What is in hand is
\* about chats.
DeskIsEmpty == listener = None => hand = Idle /\ allowed = {}
HandIsAboutChats == hand.at # "idle" => hand.from \in Chat /\ hand.to \in Chat

\* While no old copy was written back: the memory knows every decision of the
\* file, a record is only made for a new id, what ran was approved in the file,
\* what is about to run was too and has not run, and what was refused is denied.
DecisionsKnown ==
  listener # None => \A a \in Ask : approvalsFile[a] \in {"approved", "denied"}
                                      => approvals[a] = approvalsFile[a]
NewIsBlank == \A a \in Ask :
  origin[a] = None => approvals[a] = "none" /\ approvalsFile[a] = "none"
RanWasApproved == \A a \in Ask : ran[a] # 0 => ran[a] = 1 /\ approvalsFile[a] = "approved"
InHandIsFresh == hand.ask # None => approvalsFile[hand.ask] = "approved" /\ ran[hand.ask] = 0
RefusedIsDenied == \A a \in refused : approvalsFile[a] = "denied"

\* While no old copy of the allowlist was used: memory and file agree on who is
\* let in, who was told is among them, and they are one.
AllowlistsAgree == /\ listener # None => allowed = config.allowed
                   /\ told \subseteq config.allowed
                   /\ \A s, t \in config.allowed : s = t

\* The sessions of the chats in use are in memory and in the file.
JobsHaveAgents == /\ hand.job => hand.agent
                  /\ listener # None => sessionsFile \subseteq sessions
                  /\ hand.at = "announce" /\ hand.job => hand.to \in sessionsFile
                  /\ ready \subseteq sessionsFile

IInv == /\ TypeOK
        /\ DeskIsEmpty /\ HandIsAboutChats
        /\ ~reverted => /\ DecisionsKnown /\ NewIsBlank /\ RanWasApproved
                        /\ InHandIsFresh /\ RefusedIsDenied /\ JobsHaveAgents
        /\ ~outdated => AllowlistsAgree

\* A request that was approved once is handed to the queue once, however often
\* it is approved again, whichever writes fail and whenever the listener dies:
\* transition() is the only way to run it, and it is saved before the run.  It
\* takes another program's write-back of an old approvals.json to undo that.
RunsOnce == ~reverted => \A a \in Ask : ran[a] <= 1

\* A denial that was acknowledged is final: the request has not run and will
\* not, though failed writes leave memory and file apart and restarts forget the
\* memory (deny of ApprovalStore).
DenialsHold == ~reverted => \A a \in refused : ran[a] = 0 /\ hand.ask # a

\* The PIN pairs one sender: once somebody is in the allowlist, of the file or
\* of the memory, nobody else gets in by PIN (accepts_pairing_pin,
\* try_pair_sender), unless an old allowlist was put to use.
OnePairing == ~outdated => \A s, t \in config.allowed \cup allowed \cup told : s = t

\* Who was told "paired" stays paired over restarts, failed writes and the
\* saves that chat creation and group reconciliation make of the same file.
StaysPaired == ~outdated => /\ told \subseteq config.allowed
                            /\ listener # None => told \subseteq allowed

\* docs/remote-ssh.md: once pairing completes, stop the foreground process; the
\* service "keeps transport alive".  No listener turns a paired sender away.
PairedForGood == listener # None => told \subseteq allowed

\* A job chat that was announced has its agent, in memory and after a restart:
\* plain text sent there runs it (create_session_record comes before the first
\* message of create_parallel_session's chat, and its failure is not ignored).
JobChatsAnswer == ~reverted => /\ ready \subseteq sessionsFile
                               /\ listener # None => ready \subseteq sessions

====
