-------------------------- MODULE CommandPipeline --------------------------
(***************************************************************************)
(* The path of a phone command through agentnoise in its split deployment: *)
(* the transport's listener takes events from White Noise, journals them,  *)
(* routes them and writes jobs into the queue; worker processes claim the  *)
(* jobs, run the agent, and post the result (src/src/main.rs listen,       *)
(* dispatch_agent_request, worker_start, run_queued_job; events.rs).       *)
(*                                                                         *)
(* A message here is one that routes to an agent run; what it says is only *)
(* whether it is bare text or a slash command, and whether it resumes a    *)
(* known agent session.  Faults names what may go wrong in an instance.    *)
(***************************************************************************)
EXTENDS JobQueue

CONSTANTS Home,       \* whitenoise.group_id, the primary chat
          NoChat,     \* no chat: the message was not sent
          Nothing,    \* the listener holds no message
          Bare,       \* messages that are plain text, not slash commands
          Resuming,   \* messages whose request names an agent session
          Faults,     \* the faults that may strike, a subset of FaultKind
          MaxJobs     \* bound: rows, when messages without id are redelivered

FaultKind ==
    {"append",       \* the journal file cannot be written
     "lookup",       \* active_for_reply_group fails
     "enqueue",      \* enqueue fails, before or after it inserted the row
     "claim",        \* claim_next fails
     "session",      \* the work chat cannot be set up
     "send",         \* a reply is lost, or posted and reported lost
     "mark",         \* mark_running, mark_succeeded or mark_failed fails
     "abandon",      \* the mark_failed of the worker's error path fails
     "exit",         \* the worker leaves its loop between two jobs (--once)
     "kill",         \* a worker process dies at any moment
     "listenerKill", \* the transport dies at any moment
     "lock"}         \* the worker lock lets several workers run

ASSUME PipelineAssumption ==
    /\ Home \in Chat /\ NoChat \notin Chat /\ Nothing \notin Message
    /\ Bare \subseteq Message /\ Resuming \subseteq Message
    /\ Faults \subseteq FaultKind /\ MaxJobs \in Nat

VARIABLES mail,      \* the chat each message was sent in, or NoChat
          chats,     \* the chats that exist
          seen,      \* EventJournal.seen_ids, in the transport's memory
          journal,   \* the inbound ids in the journal file
          listener,  \* what the transport's event loop is doing
          worker,    \* what each worker process is doing
          notices,   \* notices the listener posted about each message
          results,   \* job results posted into chats
          starts     \* history: the jobs in the order agents were started

listenerVars == <<chats, seen, journal, listener, notices>>
workerVars   == <<worker, results, starts>>
vars == <<jobs, mail, chats, seen, journal, listener, notices,
          worker, results, starts>>

Notice  == {"history", "working", "duplicate", "refused"}

Listener == [at: {"down", "idle"}, msg: {Nothing}, reply: {NoChat}]
            \union [at: {"history", "route", "session", "dispatch"},
                    msg: Message, reply: Chat]

WorkerState ==
    [at: {"down", "idle", "claimed", "running", "outcome", "reply", "mirror",
          "abandon"},
     job: Nat, verdict: Terminal, delivered: BOOLEAN]

\* how "result" is the reply in the job's chat; "mirrored" and "moved" are
\* the two texts the source chat gets (mirrored_job_reply_text).
Result == [job: Nat, chat: Chat, verdict: Terminal,
           how: {"result", "mirrored", "moved"}]

DownListener == [at |-> "down", msg |-> Nothing, reply |-> NoChat]
IdleListener == [at |-> "idle", msg |-> Nothing, reply |-> NoChat]
DownWorker   == [at |-> "down", job |-> 0, verdict |-> "failed",
                 delivered |-> FALSE]
IdleWorker   == [DownWorker EXCEPT !.at = "idle"]

Init == /\ jobs = <<>>
        /\ mail = [m \in Message |-> NoChat]
        /\ chats = {Home}
        /\ seen = {} /\ journal = {}
        /\ listener = IdleListener
        /\ worker = [w \in Worker |-> DownWorker]
        /\ notices = [m \in Message |-> {}]
        /\ results = {}
        /\ starts = <<>>

-----------------------------------------------------------------------------
(* The phone. *)

\* The user sends a message in a chat that exists.  Bare text runs an agent
\* only in a work chat: in the primary chat it gets a help reply.
Send(m, g) == /\ mail[m] = NoChat /\ g \in chats
              /\ m \in Bare => g # Home
              /\ mail' = [mail EXCEPT ![m] = g]
              /\ UNCHANGED <<jobs, listenerVars, workerVars>>

-----------------------------------------------------------------------------
(* The transport's listener. *)

Msg == listener.msg

\* A notice is sent with try_send_reply_recorded: a failure is only logged.
Notify(kind) == \/ notices' = [notices EXCEPT ![Msg] = @ \union {kind}]
                \/ "send" \in Faults /\ UNCHANGED notices

\* is_bare_work_chat_followup
FollowUp(m) == m \in Bare /\ mail[m] # Home

\* job_session_request: a fresh run asked for in the primary chat
OpensWorkChat(m) == m \notin Resuming /\ mail[m] = Home

\* White Noise delivers an event, on the stream or by reconciliation, any
\* number of times; initial marks the history replayed to a subscription.
\* An event seen before is skipped; a new one is journaled, memory first.
Deliver(m, initial) ==
    /\ listener.at = "idle" /\ mail[m] # NoChat
    /\ m \notin seen
    /\ m \in Anonymous => Len(jobs) < MaxJobs
    /\ seen' = seen \union ({m} \ Anonymous)
    /\ \/ journal' = journal \union ({m} \ Anonymous)
       \/ "append" \in Faults /\ UNCHANGED journal
    /\ listener' = [at |-> IF initial THEN "history" ELSE "route",
                    msg |-> m, reply |-> mail[m]]
    /\ UNCHANGED <<jobs, mail, chats, notices, workerVars>>

\* Mutant: a replayed command is dropped without a word.
HistoryIgnored == /\ listener.at = "history"
                  /\ listener' = IdleListener
                  /\ UNCHANGED <<jobs, mail, chats, seen, journal, notices,
                                 workerVars>>

\* A replayed command is not run: its sender is told so.
AnswerHistory == /\ listener.at = "history"
                 /\ Notify("history")
                 /\ listener' = IdleListener
                 /\ UNCHANGED <<jobs, mail, chats, seen, journal, workerVars>>

\* A bare follow-up in a work chat whose job is not finished is turned away.
TurnAway == /\ listener.at = "route"
            /\ FollowUp(Msg) /\ ActiveForReplyGroup(mail[Msg]) # {}
            /\ Notify("working")
            /\ listener' = IdleListener
            /\ UNCHANGED <<jobs, mail, chats, seen, journal, workerVars>>

\* Anything else goes on, also when the queue cannot be asked.
Admit == /\ listener.at = "route"
         /\ \/ ~FollowUp(Msg)
            \/ ActiveForReplyGroup(mail[Msg]) = {}
            \/ "lookup" \in Faults
         /\ listener' = [listener EXCEPT !.at =
                IF OpensWorkChat(Msg) THEN "session" ELSE "dispatch"]
         /\ UNCHANGED <<jobs, mail, chats, seen, journal, notices, workerVars>>

\* create_parallel_session and the first message in the new chat.  When a
\* step after create_group fails, the chat stays and the job runs at home.
OpenWorkChat(c) ==
    /\ listener.at = "session" /\ c \in Chat \ chats
    /\ chats' = chats \union {c}
    /\ \/ listener' = [listener EXCEPT !.at = "dispatch", !.reply = c]
       \/ /\ "session" \in Faults
          /\ listener' = [listener EXCEPT !.at = "dispatch"]
    /\ UNCHANGED <<jobs, mail, seen, journal, notices, workerVars>>

\* create_group fails (always, once every chat of the instance is taken).
NoWorkChat == /\ listener.at = "session"
              /\ "session" \in Faults \/ chats = Chat
              /\ listener' = [listener EXCEPT !.at = "dispatch"]
              /\ UNCHANGED <<jobs, mail, chats, seen, journal, notices,
                             workerVars>>

\* That a worker is offline is also said when the row is new (not modelled).
\* enqueue reads the row's id back: when that fails, the sender is told that
\* the job was not queued.  The wall clock may show anything.
Dispatch == /\ listener.at = "dispatch"
            /\ \E now \in Instant : Enqueue(Msg, mail[Msg], listener.reply, now)
            /\ \/ IF AlreadyQueued(Msg) THEN Notify("duplicate")
                                        ELSE UNCHANGED notices
               \/ "enqueue" \in Faults /\ Notify("refused")
            /\ listener' = IdleListener
            /\ UNCHANGED <<mail, chats, seen, journal, workerVars>>

\* Mutant: the error is only logged.
DispatchFailsSilently ==
    /\ listener.at = "dispatch" /\ "enqueue" \in Faults
    /\ listener' = IdleListener
    /\ UNCHANGED <<jobs, mail, chats, seen, journal, notices, workerVars>>

DispatchFails == /\ listener.at = "dispatch" /\ "enqueue" \in Faults
                 /\ Notify("refused")
                 /\ listener' = IdleListener
                 /\ UNCHANGED <<jobs, mail, chats, seen, journal, workerVars>>

\* The process dies, or an error leaves the loop: memory is gone.
ListenerKill == /\ "listenerKill" \in Faults /\ listener.at # "down"
                /\ listener' = DownListener
                /\ seen' = {}
                /\ UNCHANGED <<jobs, mail, chats, journal, notices, workerVars>>

\* EventJournal::open reads the ids back from the file.
ListenerStart == /\ listener.at = "down"
                 /\ listener' = IdleListener
                 /\ seen' = journal
                 /\ UNCHANGED <<jobs, mail, chats, journal, notices,
                                workerVars>>

ListenerStep == \/ AnswerHistory \/ TurnAway \/ Admit
                \/ \E c \in Chat : OpenWorkChat(c)
                \/ NoWorkChat \/ Dispatch \/ DispatchFails

-----------------------------------------------------------------------------
(* The worker's loop. *)

Moves(w, to) == worker' = [worker EXCEPT ![w] = to]

\* After a job: back to claim_next, or out of the loop (--once).
Rests(w) == \/ Moves(w, IdleWorker)
            \/ "exit" \in Faults /\ Moves(w, DownWorker)

WorkerStart(w) ==
    /\ worker[w].at = "down"
    /\ "lock" \in Faults \/ \A v \in Worker : worker[v].at = "down"
    /\ Moves(w, IdleWorker)
    /\ UNCHANGED <<jobs, mail, listenerVars, results, starts>>

Claim(w) == /\ worker[w].at = "idle"
            /\ \E j \in DOMAIN jobs :
                   /\ ClaimNext(w, j)
                   /\ Moves(w, [IdleWorker EXCEPT !.at = "claimed", !.job = j])
            /\ UNCHANGED <<mail, listenerVars, results, starts>>

\* No job to claim, or claim_next failed: --once leaves, else it sleeps.
LeavesIdle(w) == /\ worker[w].at = "idle" /\ "exit" \in Faults
                 /\ \/ \A j \in DOMAIN jobs : jobs[j].status # "queued"
                    \/ "claim" \in Faults
                 /\ Moves(w, DownWorker)
                 /\ UNCHANGED <<jobs, mail, listenerVars, results, starts>>

StartRun(w) ==
    /\ worker[w].at = "claimed"
    /\ \/ /\ MarkRunning(worker[w].job)
          /\ starts' = Append(starts, worker[w].job)
          /\ Moves(w, [worker[w] EXCEPT !.at = "running"])
       \/ /\ "mark" \in Faults
          /\ Moves(w, [worker[w] EXCEPT !.at = "abandon"])
          /\ UNCHANGED <<jobs, starts>>
    /\ UNCHANGED <<mail, listenerVars, results>>

\* The runner is done with the agent: its record succeeded, or it did not,
\* or the agent could not be started.
AgentReturns(w, verdict) ==
    /\ worker[w].at = "running"
    /\ Moves(w, [worker[w] EXCEPT !.at = "outcome", !.verdict = verdict])
    /\ UNCHANGED <<jobs, mail, listenerVars, results, starts>>

\* Mutants: the reply goes out although the outcome was not recorded; only
\* success is recorded.
ReplyUnrecorded(w) ==
    /\ worker[w].at = "outcome"
    /\ \/ MarkFinished(worker[w].job, worker[w].verdict)
       \/ "mark" \in Faults /\ UNCHANGED jobs
    /\ Moves(w, [worker[w] EXCEPT !.at = "reply"])
    /\ UNCHANGED <<mail, listenerVars, results, starts>>

RecordSuccessOnly(w) ==
    /\ worker[w].at = "outcome"
    /\ IF worker[w].verdict = "succeeded"
       THEN MarkFinished(worker[w].job, "succeeded")
       ELSE UNCHANGED jobs
    /\ Moves(w, [worker[w] EXCEPT !.at = "reply"])
    /\ UNCHANGED <<mail, listenerVars, results, starts>>

RecordOutcome(w) ==
    /\ worker[w].at = "outcome"
    /\ \/ /\ MarkFinished(worker[w].job, worker[w].verdict)
          /\ Moves(w, [worker[w] EXCEPT !.at = "reply"])
       \/ /\ "mark" \in Faults
          /\ Moves(w, [worker[w] EXCEPT !.at = "abandon"])
          /\ UNCHANGED jobs
    /\ UNCHANGED <<mail, listenerVars, results, starts>>

\* A send that succeeds posts the text; one that fails may have posted it.
Post(w, chat, how, delivered) ==
    LET text == [job |-> worker[w].job, chat |-> chat,
                 verdict |-> worker[w].verdict, how |-> how]
    IN  /\ ~delivered => "send" \in Faults
        /\ \/ results' = results \union {text}
           \/ ~delivered /\ UNCHANGED results

\* Mutants: a failed send is an error of the job (as it was before 0.1.39);
\* every send is taken for delivered.
ReplyFailureAbandons(w) ==
    /\ worker[w].at = "reply"
    /\ \E delivered \in BOOLEAN :
           /\ Post(w, jobs[worker[w].job].reply, "result", delivered)
           /\ IF delivered
              THEN Rests(w)
              ELSE Moves(w, [worker[w] EXCEPT !.at = "abandon"])
    /\ UNCHANGED <<jobs, mail, listenerVars, starts>>

ReplyTakenForSent(w) ==
    /\ worker[w].at = "reply"
    /\ \E delivered \in BOOLEAN :
           Post(w, jobs[worker[w].job].reply, "result", delivered)
    /\ Moves(w, [worker[w] EXCEPT !.at = "mirror", !.delivered = TRUE])
    /\ UNCHANGED <<jobs, mail, listenerVars, starts>>

Reply(w) ==
    /\ worker[w].at = "reply"
    /\ LET row == jobs[worker[w].job]
       IN  \E delivered \in BOOLEAN :
               /\ Post(w, row.reply, "result", delivered)
               /\ IF row.source # row.reply
                  THEN Moves(w, [worker[w] EXCEPT !.at = "mirror",
                                                  !.delivered = delivered])
                  ELSE Rests(w)
    /\ UNCHANGED <<jobs, mail, listenerVars, starts>>

Mirror(w) ==
    /\ worker[w].at = "mirror"
    /\ \E delivered \in BOOLEAN :
           Post(w, jobs[worker[w].job].source,
                IF worker[w].delivered THEN "mirrored" ELSE "moved", delivered)
    /\ Rests(w)
    /\ UNCHANGED <<jobs, mail, listenerVars, starts>>

\* run_queued_job returned an error: the loop marks the job failed.
Abandon(w) == /\ worker[w].at = "abandon"
              /\ \/ MarkFinished(worker[w].job, "failed")
                 \/ "abandon" \in Faults /\ UNCHANGED jobs
              /\ Rests(w)
              /\ UNCHANGED <<mail, listenerVars, results, starts>>

WorkerKill(w) == /\ "kill" \in Faults /\ worker[w].at # "down"
                 /\ Moves(w, DownWorker)
                 /\ UNCHANGED <<jobs, mail, listenerVars, results, starts>>

WorkerStep(w) == \/ Claim(w) \/ StartRun(w)
                 \/ \E verdict \in Terminal : AgentReturns(w, verdict)
                 \/ RecordOutcome(w) \/ Reply(w) \/ Mirror(w) \/ Abandon(w)

-----------------------------------------------------------------------------
Next == \/ \E m \in Message, g \in Chat : Send(m, g)
        \/ \E m \in Message, initial \in BOOLEAN : Deliver(m, initial)
        \/ ListenerStep \/ ListenerKill \/ ListenerStart
        \/ \E w \in Worker : \/ WorkerStart(w) \/ WorkerStep(w)
                             \/ LeavesIdle(w) \/ WorkerKill(w)

Spec == Init /\ [][Next]_vars

\* The supervisor restarts a worker that left, the service manager restarts
\* the transport, and each loop goes on (runs end by the runner's timeouts).
Fairness ==
    /\ \A m \in Message : WF_vars(\E initial \in BOOLEAN : Deliver(m, initial))
    /\ WF_vars(ListenerStep) /\ WF_vars(ListenerStart)
    /\ WF_vars(\E w \in Worker : WorkerStart(w))
    /\ \A w \in Worker : WF_vars(WorkerStep(w))

FairSpec == Spec /\ Fairness

-----------------------------------------------------------------------------
(* Properties. *)

TypeOK == /\ jobs \in Seq(Row)
          /\ mail \in [Message -> Chat \union {NoChat}]
          /\ chats \subseteq Chat
          /\ seen \subseteq Message /\ journal \subseteq Message
          /\ listener \in Listener
          /\ worker \in [Worker -> WorkerState]
          /\ notices \in [Message -> SUBSET Notice]
          /\ results \subseteq Result
          /\ starts \in Seq(Nat)

\* An agent is started at most once for a message that has an id, however
\* often it is delivered, whichever processes die and restart (the journal,
\* the UNIQUE source_event_id and the claim transaction together).
ExecutedOnce ==
    \A i, k \in DOMAIN starts :
        /\ jobs[starts[i]].event = jobs[starts[k]].event
        /\ jobs[starts[i]].event \notin Anonymous
        => i = k

\* In time, a missing digit is a zero.
DigitOrZero(digits, n) == IF n \in DOMAIN digits THEN digits[n] ELSE 0

Earlier(a, b) ==
    \/ a.second < b.second
    \/ /\ a.second = b.second
       /\ \E n \in DOMAIN b.digits :
              /\ DigitOrZero(a.digits, n) < DigitOrZero(b.digits, n)
              /\ \A i \in 1..(n - 1) :
                     DigitOrZero(a.digits, i) = DigitOrZero(b.digits, i)

\* The texts of two jobs, the first queued before the second, fail to say so:
\* the clock went back between them, or within one second the digits of the
\* first begin those of the second ("5Z" and "52Z", or the same text twice).
OutOfStep(first, second) ==
    \/ Earlier(second, first)
    \/ /\ first.second = second.second
       /\ \A n \in DOMAIN first.digits :
              /\ n \in DOMAIN second.digits
              /\ first.digits[n] = second.digits[n]

\* While the worker lock works, an agent is started before that of a job that
\* was queued earlier only when the texts of the two rows are out of step
\* (claim_next: ORDER BY created_at, over the texts of now_rfc3339), however
\* their claims, deaths and failed marks fall.
RunsInOrder ==
    \A i, k \in DOMAIN starts :
        i < k => \/ starts[i] < starts[k]
                 \/ OutOfStep(jobs[starts[k]].created, jobs[starts[i]].created)

\* What one would expect instead, and what does not hold.
RunsInQueueOrder == \A i, k \in DOMAIN starts : i < k => starts[i] < starts[k]

\* Two worker processes never have the same job in hand, even when the
\* worker lock fails and several run (claim_next's UPDATE ... AND status).
NoJobInTwoHands ==
    \A v, w \in Worker :
        /\ v # w
        /\ worker[v].at \notin {"down", "idle"}
        /\ worker[w].at \notin {"down", "idle"}
        => worker[v].job # worker[w].job

\* A bare follow-up is queued only when every earlier job of its work chat
\* is finished, and the check holds until the row is written
\* (should_intercept_active_followup, then dispatch_agent_request).
FollowUpWaits ==
    \A i, k \in DOMAIN jobs :
        /\ i < k /\ FollowUp(jobs[k].event) /\ jobs[i].reply = jobs[k].reply
        => jobs[i].status \in Terminal

\* A result in a chat is the one the queue recorded, and was recorded before
\* it was posted (run_queued_job marks, then sends).
ResultMatchesQueue ==
    \A r \in results : jobs[r.job].status = r.verdict

\* "Done in work chat" in the source chat means the result is in that chat.
MirrorTellsTruth ==
    \A r \in results :
        r.how = "mirrored" =>
            \E q \in results : /\ q.job = r.job /\ q.how = "result"
                               /\ q.chat = jobs[r.job].reply

\* While the transport lives and its replies get through, no message it has
\* journaled drops out: it is being handled, is queued, or was answered.
JournaledIsHandled ==
    \A m \in seen : \/ listener.at \notin {"idle", "down"} /\ Msg = m
                    \/ AlreadyQueued(m)
                    \/ notices[m] # {}

\* A finished row is never written again: mark_running and mark_finished
\* have no status guard, so this rests on the worker's loop.
FinishedStays ==
    [][\A j \in DOMAIN jobs :
           jobs[j].status \in Terminal => jobs'[j] = jobs[j]]_vars

\* Every queued job is finished, when workers only leave between jobs.
JobsFinish ==
    \A j \in 1..MaxJobs :
        (j \in DOMAIN jobs) ~> (j \in DOMAIN jobs /\ jobs[j].status \in Terminal)

\* A worker process that dies strands no job, provided that one stays up in
\* the end (docs/services.md: "so transient worker exits do not leave queued
\* jobs stranded").
ExitsStrandNothing ==
    <>[](\E w \in Worker : worker[w].at # "down") => JobsFinish

\* Every message sent gets a result or a notice in return (run_ack_text:
\* "I'll post the answer here.").
CommandsAnswered ==
    \A m \in Message :
        (mail[m] # NoChat) ~> \/ notices[m] # {}
                              \/ \E r \in results : jobs[r.job].event = m

-----------------------------------------------------------------------------
(* The inductive invariant behind the safety properties. *)

\* What a worker has in hand is its own row, in the state its step implies.
HandsMatchQueue ==
    \A w \in Worker :
        LET s == worker[w]
            row == jobs[s.job]
        IN  s.at \notin {"down", "idle"} =>
                /\ s.job \in DOMAIN jobs
                /\ row.claimedBy = w
                /\ s.at = "claimed" => row.status = "claimed"
                /\ s.at \in {"running", "outcome"} => row.status = "running"
                /\ s.at = "abandon" => row.status \in {"claimed", "running"}
                /\ s.at \in {"reply", "mirror"} => row.status = s.verdict

ResultsRecorded ==
    \A r \in results : r.job \in DOMAIN jobs /\ jobs[r.job].status = r.verdict

StartedRows ==
    /\ \A i \in DOMAIN starts :
           /\ starts[i] \in DOMAIN jobs
           /\ jobs[starts[i]].status \notin {"queued", "claimed"}
    /\ \A i, k \in DOMAIN starts : starts[i] = starts[k] => i = k

OneRowPerMessage ==
    \A i, k \in DOMAIN jobs :
        /\ jobs[i].event = jobs[k].event /\ jobs[i].event \notin Anonymous
        => i = k

EventsWereSent ==
    /\ listener.at \notin {"idle", "down"} => mail[Msg] # NoChat
    /\ \A j \in DOMAIN jobs : mail[jobs[j].event] # NoChat

\* The invariant that is inductive: it implies ExecutedOnce, NoJobInTwoHands
\* and ResultMatchesQueue, and each step under it keeps FinishedStays.
IInv == TypeOK /\ HandsMatchQueue /\ ResultsRecorded /\ StartedRows
               /\ OneRowPerMessage /\ EventsWereSent
=============================================================================
