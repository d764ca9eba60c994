----------------------- MODULE CommandPipelineProofs -----------------------
(* TLAPS proofs about CommandPipeline, for every value of its constants: its  *)
(* invariants, what holds while particular faults do not strike, and that it  *)
(* implements CommandPromise.                                                 *)
EXTENDS PipelineRefinement, FoldTheorems, SequenceTheorems, TLAPS

-----------------------------------------------------------------------------
(* The queue's operations. *)

\* A new row enters at the end, queued; the rows before it stay as they are.
LEMMA EnqueueRows ==
    ASSUME jobs \in Seq(Row),
           NEW m \in Message, NEW source \in Chat, NEW reply \in Chat,
           NEW now \in Instant,
           Enqueue(m, source, reply, now)
    PROVE  /\ jobs' \in Seq(Row)
           /\ DOMAIN jobs \subseteq DOMAIN jobs'
           /\ \A j \in DOMAIN jobs : jobs'[j] = jobs[j]
           /\ \A j \in DOMAIN jobs' \ DOMAIN jobs :
                  /\ ~AlreadyQueued(m)
                  /\ j = Len(jobs) + 1
                  /\ jobs'[j] = NewRow(m, source, reply, now)
           /\ \E j \in DOMAIN jobs' : m \in Anonymous \/ jobs'[j].event = m
<1>1. NewRow(m, source, reply, now) \in Row
  BY DEF NewRow, Row, Active
<1>2. CASE AlreadyQueued(m)
  BY <1>2 DEF Enqueue, AlreadyQueued
<1>3. CASE ~AlreadyQueued(m)
  <2>1. jobs' = Append(jobs, NewRow(m, source, reply, now))
    BY <1>3 DEF Enqueue
  <2>2. jobs' \in Seq(Row) /\ Len(jobs') = Len(jobs) + 1
    BY <1>1, <2>1
  <2>3. /\ \A j \in 1..Len(jobs) : jobs'[j] = jobs[j]
        /\ jobs'[Len(jobs) + 1] = NewRow(m, source, reply, now)
    BY <1>1, <2>1
  <2>4. /\ DOMAIN jobs = 1..Len(jobs) /\ Len(jobs) \in Nat
        /\ DOMAIN jobs' = 1..(Len(jobs) + 1)
    BY <2>2
  <2>5. NewRow(m, source, reply, now).event = m
    BY DEF NewRow
  <2>. QED BY <1>3, <2>2, <2>3, <2>4, <2>5
<1>. QED BY <1>2, <1>3

\* Writing one row changes no other.
LEMMA ReplaceRow ==
    ASSUME jobs \in Seq(Row), NEW j \in DOMAIN jobs, NEW r \in Row,
           jobs' = [jobs EXCEPT ![j] = r]
    PROVE  /\ jobs' \in Seq(Row)
           /\ DOMAIN jobs' = DOMAIN jobs
           /\ \A i \in DOMAIN jobs : jobs'[i] = IF i = j THEN r ELSE jobs[i]
OBVIOUS

\* A change of status, and of owner, touches no other row or field.
LEMMA ClaimRow ==
    ASSUME jobs \in Seq(Row), NEW w \in Worker, NEW j \in DOMAIN jobs,
           ClaimNext(w, j)
    PROVE  /\ jobs' \in Seq(Row)
           /\ DOMAIN jobs' = DOMAIN jobs
           /\ \A i \in DOMAIN jobs :
                  /\ i # j => jobs'[i] = jobs[i]
                  /\ jobs'[i].event = jobs[i].event
                  /\ jobs'[i].source = jobs[i].source
                  /\ jobs'[i].reply = jobs[i].reply
                  /\ jobs'[i].created = jobs[i].created
           /\ jobs'[j].status = "claimed" /\ jobs'[j].claimedBy = w
<1> DEFINE r == [jobs[j] EXCEPT !.status = "claimed", !.claimedBy = w]
<1>1. jobs[j] \in Row
  OBVIOUS
<1>2. /\ r \in Row /\ r.status = "claimed" /\ r.claimedBy = w
      /\ r.event = jobs[j].event /\ r.source = jobs[j].source
      /\ r.reply = jobs[j].reply /\ r.created = jobs[j].created
  BY <1>1 DEF Row, Active
<1>3. jobs' = [jobs EXCEPT ![j] = r]
  BY DEF ClaimNext
<1> HIDE DEF r
<1>. QED BY <1>2, <1>3, ReplaceRow

LEMMA UpdateStatus ==
    ASSUME jobs \in Seq(Row), NEW j \in DOMAIN jobs,
           NEW status \in Active \union Terminal,
           jobs' = [jobs EXCEPT ![j].status = status]
    PROVE  /\ jobs' \in Seq(Row)
           /\ DOMAIN jobs' = DOMAIN jobs
           /\ \A i \in DOMAIN jobs :
                  /\ i # j => jobs'[i] = jobs[i]
                  /\ jobs'[i].event = jobs[i].event
                  /\ jobs'[i].source = jobs[i].source
                  /\ jobs'[i].reply = jobs[i].reply
                  /\ jobs'[i].created = jobs[i].created
                  /\ jobs'[i].claimedBy = jobs[i].claimedBy
           /\ jobs'[j].status = status
<1> DEFINE r == [jobs[j] EXCEPT !.status = status]
<1>1. jobs[j] \in Row
  OBVIOUS
<1>2. /\ r \in Row /\ r.status = status /\ r.claimedBy = jobs[j].claimedBy
      /\ r.event = jobs[j].event /\ r.source = jobs[j].source
      /\ r.reply = jobs[j].reply /\ r.created = jobs[j].created
  BY <1>1 DEF Row
<1>3. jobs' = [jobs EXCEPT ![j] = r]
  OBVIOUS
<1> HIDE DEF r
<1>. QED BY <1>2, <1>3, ReplaceRow

-----------------------------------------------------------------------------
(* The inductive invariant. *)

LEMMA InitIInv == Init => IInv
<1> SUFFICES ASSUME Init PROVE IInv
  OBVIOUS
<1> USE DEF Init
<1>1. TypeOK
  <2>1. listener \in Listener
    BY DEF IdleListener, Listener
  <2>2. worker \in [Worker -> WorkerState]
    BY DEF DownWorker, WorkerState, Terminal
  <2>3. jobs \in Seq(Row) /\ starts \in Seq(Nat)
    OBVIOUS
  <2>. QED BY <2>1, <2>2, <2>3, PipelineAssumption DEF TypeOK
<1>2. HandsMatchQueue
  BY DEF HandsMatchQueue, DownWorker
<1>3. ResultsRecorded /\ StartedRows /\ OneRowPerMessage
  BY DEF ResultsRecorded, StartedRows, OneRowPerMessage
<1>4. EventsWereSent
  BY DEF EventsWereSent, IdleListener
<1>. QED BY <1>1, <1>2, <1>3, <1>4 DEF IInv


\* A step of the phone or the listener that leaves the queue alone keeps all
\* but the types and what the listener has in hand.
LEMMA QueueUntouched ==
    ASSUME IInv, TypeOK', EventsWereSent',
           UNCHANGED <<jobs, worker, results, starts>>
    PROVE  IInv'
BY DEF IInv, HandsMatchQueue, ResultsRecorded, StartedRows, OneRowPerMessage

LEMMA PhoneIInv ==
    ASSUME IInv, NEW m \in Message, NEW g \in Chat, Send(m, g)
    PROVE  IInv'
<1> USE DEF listenerVars, workerVars, Msg
<1>1. TypeOK'
  BY DEF IInv, TypeOK, Send
<1>2. EventsWereSent'
  BY PipelineAssumption DEF IInv, TypeOK, Row, Listener, EventsWereSent, Send
<1>. QED BY <1>1, <1>2, QueueUntouched DEF Send

LEMMA DeliverIInv ==
    ASSUME IInv, NEW m \in Message, NEW initial \in BOOLEAN,
           Deliver(m, initial)
    PROVE  IInv'
<1> USE DEF listenerVars, workerVars, Msg
<1>1. listener' \in Listener
  BY DEF IInv, TypeOK, Deliver, Listener
<1>2. TypeOK'
  BY <1>1 DEF IInv, TypeOK, Deliver
<1>3. EventsWereSent'
  BY DEF IInv, EventsWereSent, Deliver
<1>. QED BY <1>2, <1>3, QueueUntouched DEF Deliver

\* Dispatch: the new row is queued, so nobody holds or has started it.
LEMMA DispatchIInv ==
    ASSUME IInv, Dispatch
    PROVE  IInv'
<1> USE DEF listenerVars, workerVars, Msg
<1>1. /\ Msg \in Message /\ listener.reply \in Chat
      /\ mail[Msg] \in Chat
  BY DEF IInv, TypeOK, EventsWereSent, Dispatch, Listener
<1>2. PICK now \in Instant : Enqueue(Msg, mail[Msg], listener.reply, now)
  BY DEF Dispatch
<1>3. /\ jobs' \in Seq(Row)
      /\ DOMAIN jobs \subseteq DOMAIN jobs'
      /\ \A j \in DOMAIN jobs : jobs'[j] = jobs[j]
      /\ \A j \in DOMAIN jobs' \ DOMAIN jobs :
             /\ ~AlreadyQueued(Msg)
             /\ j = Len(jobs) + 1
             /\ jobs'[j] = NewRow(Msg, mail[Msg], listener.reply, now)
  <2>1. jobs \in Seq(Row)
    BY DEF IInv, TypeOK
  <2>. QED BY <1>1, <1>2, <2>1, EnqueueRows
<1>4. TypeOK'
  <2>1. notices' \in [Message -> SUBSET Notice]
    BY <1>1 DEF IInv, TypeOK, Dispatch, Notify, Notice
  <2>2. listener' \in Listener
    BY DEF Dispatch, IdleListener, Listener
  <2>. QED BY <1>3, <2>1, <2>2 DEF IInv, TypeOK, Dispatch
<1>5. HandsMatchQueue'
  BY <1>3 DEF IInv, HandsMatchQueue, Dispatch
<1>6. ResultsRecorded' /\ StartedRows'
  BY <1>3 DEF IInv, ResultsRecorded, StartedRows, Dispatch
<1>7. OneRowPerMessage'
  BY <1>3 DEF IInv, OneRowPerMessage, AlreadyQueued, NewRow
<1>8. EventsWereSent'
  BY <1>1, <1>3, PipelineAssumption
     DEF IInv, EventsWereSent, Dispatch, IdleListener, NewRow
<1>. QED BY <1>4, <1>5, <1>6, <1>7, <1>8 DEF IInv

\* The other steps of the listener.
LEMMA ListenerIInv ==
    ASSUME IInv, ListenerStep \/ ListenerKill \/ ListenerStart
    PROVE  IInv'
<1> USE DEF listenerVars, workerVars, Msg
<1>1. IdleListener \in Listener /\ DownListener \in Listener
  BY DEF IdleListener, DownListener, Listener
<1>2. /\ IdleListener.at = "idle" /\ DownListener.at = "down"
  BY DEF IdleListener, DownListener
<1>3. CASE AnswerHistory \/ TurnAway \/ DispatchFails
  <2>1. Msg \in Message
    BY <1>3 DEF IInv, TypeOK, Listener, AnswerHistory, TurnAway, DispatchFails
  <2>2. notices' \in [Message -> SUBSET Notice]
    BY <1>3, <2>1 DEF IInv, TypeOK, AnswerHistory, TurnAway, DispatchFails,
                      Notify, Notice
  <2>3. listener' = IdleListener
        /\ UNCHANGED <<jobs, mail, chats, seen, journal, workerVars>>
    BY <1>3 DEF AnswerHistory, TurnAway, DispatchFails
  <2>4. TypeOK'
    BY <1>1, <2>2, <2>3 DEF IInv, TypeOK
  <2>5. EventsWereSent'
    BY <1>2, <2>3 DEF IInv, EventsWereSent
  <2>. QED BY <2>3, <2>4, <2>5, QueueUntouched
<1>4. CASE Admit \/ NoWorkChat \/ \E c \in Chat : OpenWorkChat(c)
  <2>1. /\ listener.at \in {"route", "session"}
        /\ listener'.at \in {"session", "dispatch"}
        /\ listener'.msg = listener.msg
        /\ listener' \in Listener
    BY <1>4 DEF IInv, TypeOK, Listener, Admit, NoWorkChat, OpenWorkChat
  <2>2. /\ UNCHANGED <<jobs, mail, seen, journal, notices, workerVars>>
        /\ chats' \subseteq Chat
    BY <1>4 DEF IInv, TypeOK, Admit, NoWorkChat, OpenWorkChat
  <2>3. TypeOK'
    BY <2>1, <2>2 DEF IInv, TypeOK
  <2>4. EventsWereSent'
    BY <2>1, <2>2 DEF IInv, EventsWereSent
  <2>. QED BY <2>2, <2>3, <2>4, QueueUntouched
<1>5. CASE ListenerKill \/ ListenerStart
  <2>1. TypeOK'
    BY <1>1, <1>5 DEF IInv, TypeOK, ListenerKill, ListenerStart
  <2>2. EventsWereSent'
    BY <1>2, <1>5 DEF IInv, EventsWereSent, ListenerKill, ListenerStart
  <2>. QED BY <1>5, <2>1, <2>2, QueueUntouched DEF ListenerKill, ListenerStart
<1>. QED BY <1>3, <1>4, <1>5, DispatchIInv DEF ListenerStep

-----------------------------------------------------------------------------
(* The steps of a worker w: only the row in its hand changes. *)

\* Putting w into a well-formed state leaves the other workers as they are.
LEMMA MovesTo ==
    ASSUME IInv, NEW w \in Worker, NEW to \in WorkerState, Moves(w, to)
    PROVE  /\ worker' \in [Worker -> WorkerState]
           /\ worker'[w] = to
           /\ \A v \in Worker : v # w => worker'[v] = worker[v]
BY DEF IInv, TypeOK, Moves

LEMMA RestStates ==
    /\ IdleWorker \in WorkerState /\ DownWorker \in WorkerState
    /\ IdleWorker.at = "idle" /\ DownWorker.at = "down"
BY DEF IdleWorker, DownWorker, WorkerState, Terminal

\* A worker that lets go of its job, or takes up work without one.
LEMMA LetsGo ==
    ASSUME IInv, NEW w \in Worker, Rests(w) \/ Moves(w, IdleWorker)
                                            \/ Moves(w, DownWorker)
    PROVE  /\ worker' \in [Worker -> WorkerState]
           /\ worker'[w].at \in {"idle", "down"}
           /\ \A v \in Worker : v # w => worker'[v] = worker[v]
BY MovesTo, RestStates DEF Rests

\* Rows other than j keep the events, so all that is said about events stays.
LEMMA EventsStay ==
    ASSUME IInv, UNCHANGED <<mail, listenerVars>>,
           DOMAIN jobs' = DOMAIN jobs,
           \A i \in DOMAIN jobs : jobs'[i].event = jobs[i].event
    PROVE  OneRowPerMessage' /\ EventsWereSent'
BY DEF IInv, OneRowPerMessage, EventsWereSent, listenerVars, Msg

LEMMA ClaimIInv ==
    ASSUME IInv, NEW w \in Worker, Claim(w)
    PROVE  IInv'
<1> USE DEF IInv
<1>1. PICK j \in DOMAIN jobs :
          /\ ClaimNext(w, j)
          /\ Moves(w, [IdleWorker EXCEPT !.at = "claimed", !.job = j])
  BY DEF Claim
<1> DEFINE to == [IdleWorker EXCEPT !.at = "claimed", !.job = j]
<1>2. to \in WorkerState /\ to.at = "claimed" /\ to.job = j
  <2>1. j \in Nat
    BY DEF TypeOK
  <2>. QED BY <2>1, RestStates DEF WorkerState
<1> HIDE DEF to
<1>3. /\ worker' \in [Worker -> WorkerState]
      /\ worker'[w] = to
      /\ \A v \in Worker : v # w => worker'[v] = worker[v]
  BY <1>1, <1>2, MovesTo DEF to
<1>4. /\ jobs' \in Seq(Row) /\ DOMAIN jobs' = DOMAIN jobs
      /\ \A i \in DOMAIN jobs : /\ i # j => jobs'[i] = jobs[i]
                                /\ jobs'[i].event = jobs[i].event
      /\ jobs'[j].status = "claimed" /\ jobs'[j].claimedBy = w
  BY <1>1, ClaimRow DEF TypeOK
<1>5. jobs[j].status = "queued"
  BY <1>1 DEF ClaimNext, OldestQueued
<1>6. UNCHANGED <<mail, listenerVars, results, starts>>
  BY DEF Claim
<1>7. TypeOK'
  BY <1>3, <1>4, <1>6 DEF TypeOK, listenerVars
<1>8. HandsMatchQueue'
  <2>1. ASSUME NEW v \in Worker, worker[v].at \notin {"down", "idle"}
        PROVE  worker[v].job # j
    <3>1. /\ worker[v].at \in {"claimed", "running", "outcome", "reply",
                               "mirror", "abandon"}
          /\ worker[v].verdict \in Terminal
      BY <2>1 DEF TypeOK, WorkerState
    <3>. QED BY <1>5, <2>1, <3>1 DEF HandsMatchQueue, Terminal
  <2>. QED BY <1>2, <1>3, <1>4, <2>1 DEF HandsMatchQueue
<1>9. ResultsRecorded' /\ StartedRows'
  BY <1>4, <1>5, <1>6 DEF ResultsRecorded, StartedRows, TypeOK, Result, Terminal
<1>. QED BY <1>4, <1>6, <1>7, <1>8, <1>9, EventsStay

LEMMA StartRunIInv ==
    ASSUME IInv, NEW w \in Worker, StartRun(w)
    PROVE  IInv'
<1> USE DEF IInv
<1> DEFINE j == worker[w].job
<1>1. /\ worker[w] \in WorkerState
      /\ j \in DOMAIN jobs /\ jobs[j].status = "claimed"
      /\ jobs[j].claimedBy = w
  BY DEF TypeOK, HandsMatchQueue, StartRun
<1>2. UNCHANGED <<mail, listenerVars, results>>
  BY DEF StartRun
<1> DEFINE running == [worker[w] EXCEPT !.at = "running"]
           abandon == [worker[w] EXCEPT !.at = "abandon"]
<1>3. /\ running \in WorkerState /\ abandon \in WorkerState
      /\ running.at = "running" /\ running.job = j
      /\ abandon.at = "abandon" /\ abandon.job = j
  BY <1>1 DEF WorkerState
<1>4. CASE MarkRunning(j) /\ starts' = Append(starts, j) /\ Moves(w, running)
  <2> HIDE DEF running, abandon, j
  <2>1. /\ worker' \in [Worker -> WorkerState] /\ worker'[w] = running
        /\ \A v \in Worker : v # w => worker'[v] = worker[v]
    BY <1>3, <1>4, MovesTo
  <2>2. /\ jobs' \in Seq(Row) /\ DOMAIN jobs' = DOMAIN jobs
        /\ \A i \in DOMAIN jobs : /\ i # j => jobs'[i] = jobs[i]
                                  /\ jobs'[i].event = jobs[i].event
                                  /\ jobs'[i].claimedBy = jobs[i].claimedBy
        /\ jobs'[j].status = "running"
    BY <1>1, <1>4, UpdateStatus DEF TypeOK, MarkRunning, Active
  <2>3. /\ starts' \in Seq(Nat)
        /\ \A i \in DOMAIN starts' :
               starts'[i] = IF i \in DOMAIN starts THEN starts[i] ELSE j
        /\ \A i, k \in DOMAIN starts' \ DOMAIN starts : i = k
    BY <1>1, <1>4 DEF TypeOK
  <2>4. TypeOK'
    BY <1>2, <2>1, <2>2, <2>3 DEF TypeOK, listenerVars
  <2>5. HandsMatchQueue'
    BY <1>1, <1>3, <2>1, <2>2 DEF HandsMatchQueue
  <2>6. ResultsRecorded'
    BY <1>1, <1>2, <2>2 DEF ResultsRecorded, TypeOK, Result, Terminal
  <2>7. StartedRows'
    BY <1>1, <2>2, <2>3 DEF StartedRows
  <2>. QED BY <1>2, <2>2, <2>4, <2>5, <2>6, <2>7, EventsStay
<1>5. CASE Moves(w, abandon) /\ UNCHANGED <<jobs, starts>>
  <2> HIDE DEF running, abandon, j
  <2>1. /\ worker' \in [Worker -> WorkerState] /\ worker'[w] = abandon
        /\ \A v \in Worker : v # w => worker'[v] = worker[v]
    BY <1>3, <1>5, MovesTo
  <2>2. TypeOK'
    BY <1>2, <1>5, <2>1 DEF TypeOK, listenerVars
  <2>3. HandsMatchQueue'
    BY <1>1, <1>3, <1>5, <2>1 DEF HandsMatchQueue
  <2>4. ResultsRecorded' /\ StartedRows'
    BY <1>2, <1>5 DEF ResultsRecorded, StartedRows
  <2>. QED BY <1>2, <1>5, <2>2, <2>3, <2>4, EventsStay
<1>. QED BY <1>4, <1>5 DEF StartRun

\* A worker that moves without writing the queue.
LEMMA QuietIInv ==
    ASSUME IInv, NEW w \in Worker, TypeOK',
           \A v \in Worker : v # w => worker'[v] = worker[v],
           worker'[w].at \in {"idle", "down"} \/
               /\ worker[w].at \notin {"idle", "down"}
               /\ worker'[w].job = worker[w].job
               /\ \/ worker[w].at \in {"running", "outcome"}
                     /\ worker'[w].at \in {"outcome", "abandon"}
                  \/ /\ worker[w].at \in {"reply", "mirror"}
                     /\ worker'[w].at = "mirror"
                     /\ worker'[w].verdict = worker[w].verdict,
           UNCHANGED <<jobs, mail, listenerVars, starts>>,
           ResultsRecorded'
    PROVE  IInv'
<1>1. HandsMatchQueue'
  BY DEF IInv, HandsMatchQueue
<1>2. StartedRows'
  BY DEF IInv, StartedRows
<1>. QED BY <1>1, <1>2, EventsStay DEF IInv

LEMMA AgentReturnsIInv ==
    ASSUME IInv, NEW w \in Worker, NEW verdict \in Terminal,
           AgentReturns(w, verdict)
    PROVE  IInv'
<1> DEFINE to == [worker[w] EXCEPT !.at = "outcome", !.verdict = verdict]
<1>1. to \in WorkerState /\ to.at = "outcome" /\ to.job = worker[w].job
  BY DEF IInv, TypeOK, WorkerState
<1>2. Moves(w, to) /\ worker[w].at = "running"
      /\ UNCHANGED <<jobs, mail, listenerVars, results, starts>>
  BY DEF AgentReturns
<1> HIDE DEF to
<1>3. /\ worker' \in [Worker -> WorkerState] /\ worker'[w] = to
      /\ \A v \in Worker : v # w => worker'[v] = worker[v]
  BY <1>1, <1>2, MovesTo
<1>4. TypeOK' /\ ResultsRecorded'
  BY <1>2, <1>3 DEF IInv, TypeOK, ResultsRecorded, listenerVars
<1>. QED BY <1>1, <1>2, <1>3, <1>4, QuietIInv

LEMMA ReplyIInv ==
    ASSUME IInv, NEW w \in Worker, Reply(w) \/ Mirror(w)
    PROVE  IInv'
<1> DEFINE j == worker[w].job
<1>1. /\ worker[w] \in WorkerState /\ worker[w].at \in {"reply", "mirror"}
      /\ j \in DOMAIN jobs /\ jobs[j].status = worker[w].verdict
      /\ j \in Nat /\ jobs[j] \in Row
  <2>1. worker[w] \in WorkerState /\ jobs \in Seq(Row)
    BY DEF IInv, TypeOK
  <2>2. worker[w].at \in {"reply", "mirror"}
    BY DEF Reply, Mirror
  <2>3. j \in DOMAIN jobs /\ jobs[j].status = worker[w].verdict
    BY <2>2 DEF IInv, HandsMatchQueue
  <2>. QED BY <2>1, <2>2, <2>3
<1>2. UNCHANGED <<jobs, mail, listenerVars, starts>>
  BY DEF Reply, Mirror
<1>3. \E chat \in Chat, how \in {"result", "mirrored", "moved"},
         delivered \in BOOLEAN : Post(w, chat, how, delivered)
  BY <1>1 DEF Reply, Mirror, Row
<1>4. results' \subseteq Result /\ ResultsRecorded'
  BY <1>1, <1>2, <1>3
     DEF IInv, TypeOK, ResultsRecorded, Post, Result, WorkerState
<1>5. Rests(w) \/ \E delivered \in BOOLEAN :
          Moves(w, [worker[w] EXCEPT !.at = "mirror", !.delivered = delivered])
  BY DEF Reply, Mirror
<1>6. CASE Rests(w)
  <2>1. TypeOK'
    BY <1>2, <1>4, <1>6, LetsGo DEF IInv, TypeOK, listenerVars
  <2>. QED BY <1>2, <1>4, <1>6, <2>1, LetsGo, QuietIInv
<1>7. ASSUME NEW delivered \in BOOLEAN,
             Moves(w, [worker[w] EXCEPT !.at = "mirror",
                                        !.delivered = delivered])
      PROVE  IInv'
  <2> DEFINE to == [worker[w] EXCEPT !.at = "mirror", !.delivered = delivered]
  <2>1. /\ to \in WorkerState /\ to.at = "mirror" /\ to.job = j
        /\ to.verdict = worker[w].verdict
    BY <1>1 DEF WorkerState
  <2>2. Moves(w, to)
    BY <1>7
  <2> HIDE DEF to
  <2>3. /\ worker' \in [Worker -> WorkerState] /\ worker'[w] = to
        /\ \A v \in Worker : v # w => worker'[v] = worker[v]
    BY <2>1, <2>2, MovesTo
  <2>4. TypeOK'
    BY <1>2, <1>4, <2>3 DEF IInv, TypeOK, listenerVars
  <2>. QED BY <1>1, <1>2, <1>4, <2>1, <2>3, <2>4, QuietIInv
<1>. QED BY <1>5, <1>6, <1>7

LEMMA RestingIInv ==
    ASSUME IInv, NEW w \in Worker,
           WorkerStart(w) \/ LeavesIdle(w) \/ WorkerKill(w)
    PROVE  IInv'
<1>1. Moves(w, IdleWorker) \/ Moves(w, DownWorker)
  BY DEF WorkerStart, LeavesIdle, WorkerKill
<1>2. UNCHANGED <<jobs, mail, listenerVars, results, starts>>
  BY DEF WorkerStart, LeavesIdle, WorkerKill
<1>3. TypeOK' /\ ResultsRecorded'
  BY <1>1, <1>2, LetsGo DEF IInv, TypeOK, ResultsRecorded, listenerVars
<1>. QED BY <1>1, <1>2, <1>3, LetsGo, QuietIInv

\* Writing the end of a job: its row was active, so no result of it stands
\* in a chat, and w lets go of it or holds it as finished.
LEMMA FinishIInv ==
    ASSUME IInv, NEW w \in Worker, NEW status \in Terminal,
           worker[w].at \in {"outcome", "abandon"},
           MarkFinished(worker[w].job, status),
           worker' \in [Worker -> WorkerState],
           \A v \in Worker : v # w => worker'[v] = worker[v],
           worker'[w].at \in {"idle", "down"} \/
               /\ worker'[w].at = "reply"
               /\ worker'[w].job = worker[w].job
               /\ worker'[w].verdict = status,
           UNCHANGED <<mail, listenerVars, results, starts>>
    PROVE  IInv'
<1> DEFINE j == worker[w].job
<1>1. /\ j \in DOMAIN jobs /\ jobs[j].status \in {"claimed", "running"}
      /\ jobs[j].claimedBy = w
  BY DEF IInv, HandsMatchQueue
<1>2. /\ jobs' \in Seq(Row) /\ DOMAIN jobs' = DOMAIN jobs
      /\ \A i \in DOMAIN jobs : /\ i # j => jobs'[i] = jobs[i]
                                /\ jobs'[i].event = jobs[i].event
                                /\ jobs'[i].claimedBy = jobs[i].claimedBy
      /\ jobs'[j].status = status
  BY <1>1, UpdateStatus DEF IInv, TypeOK, MarkFinished
<1>3. TypeOK'
  BY <1>2 DEF IInv, TypeOK, listenerVars
<1>4. HandsMatchQueue'
  BY <1>1, <1>2 DEF IInv, HandsMatchQueue
<1>5. ResultsRecorded'
  BY <1>1, <1>2 DEF IInv, TypeOK, ResultsRecorded, Result, Terminal
<1>6. StartedRows'
  BY <1>1, <1>2 DEF IInv, StartedRows, Terminal
<1>. QED BY <1>2, <1>3, <1>4, <1>5, <1>6, EventsStay DEF IInv

LEMMA RecordOutcomeIInv ==
    ASSUME IInv, NEW w \in Worker, RecordOutcome(w)
    PROVE  IInv'
<1> DEFINE reply == [worker[w] EXCEPT !.at = "reply"]
           abandon == [worker[w] EXCEPT !.at = "abandon"]
<1>1. /\ worker[w] \in WorkerState /\ worker[w].at = "outcome"
      /\ worker[w].verdict \in Terminal
  BY DEF IInv, TypeOK, RecordOutcome, WorkerState
<1>2. /\ reply \in WorkerState /\ reply.at = "reply"
      /\ reply.job = worker[w].job /\ reply.verdict = worker[w].verdict
      /\ abandon \in WorkerState /\ abandon.at = "abandon"
      /\ abandon.job = worker[w].job
  BY <1>1 DEF WorkerState
<1>3. UNCHANGED <<mail, listenerVars, results, starts>>
  BY DEF RecordOutcome
<1>4. CASE /\ MarkFinished(worker[w].job, worker[w].verdict)
           /\ Moves(w, reply)
  <2> HIDE DEF reply, abandon
  <2>. QED BY <1>1, <1>2, <1>3, <1>4, MovesTo, FinishIInv
<1>5. CASE Moves(w, abandon) /\ UNCHANGED jobs
  <2> HIDE DEF reply, abandon
  <2>1. /\ worker' \in [Worker -> WorkerState] /\ worker'[w] = abandon
        /\ \A v \in Worker : v # w => worker'[v] = worker[v]
    BY <1>2, <1>5, MovesTo
  <2>2. TypeOK' /\ ResultsRecorded'
    BY <1>3, <1>5, <2>1 DEF IInv, TypeOK, ResultsRecorded, listenerVars
  <2>. QED BY <1>1, <1>2, <1>3, <1>5, <2>1, <2>2, QuietIInv
<1>. QED BY <1>4, <1>5 DEF RecordOutcome

LEMMA AbandonIInv ==
    ASSUME IInv, NEW w \in Worker, Abandon(w)
    PROVE  IInv'
<1>1. /\ worker[w].at = "abandon" /\ Rests(w)
      /\ UNCHANGED <<mail, listenerVars, results, starts>>
  BY DEF Abandon
<1>2. CASE MarkFinished(worker[w].job, "failed")
  BY <1>1, <1>2, LetsGo, FinishIInv DEF Terminal
<1>3. CASE UNCHANGED jobs
  <2>1. TypeOK' /\ ResultsRecorded'
    BY <1>1, <1>3, LetsGo DEF IInv, TypeOK, ResultsRecorded, listenerVars
  <2>. QED BY <1>1, <1>3, <2>1, LetsGo, QuietIInv
<1>. QED BY <1>2, <1>3 DEF Abandon

LEMMA NextIInv == IInv /\ [Next]_vars => IInv'
<1> SUFFICES ASSUME IInv, [Next]_vars PROVE IInv'
  OBVIOUS
<1>1. CASE \E m \in Message, g \in Chat : Send(m, g)
  BY <1>1, PhoneIInv
<1>2. CASE \E m \in Message, initial \in BOOLEAN : Deliver(m, initial)
  BY <1>2, DeliverIInv
<1>3. CASE ListenerStep \/ ListenerKill \/ ListenerStart
  BY <1>3, ListenerIInv
<1>4. ASSUME NEW w \in Worker,
             WorkerStart(w) \/ WorkerStep(w) \/ LeavesIdle(w) \/ WorkerKill(w)
      PROVE  IInv'
  BY <1>4, RestingIInv, ClaimIInv, StartRunIInv, AgentReturnsIInv,
     RecordOutcomeIInv, ReplyIInv, AbandonIInv DEF WorkerStep
<1>5. CASE UNCHANGED vars
  BY <1>5 DEF vars, IInv, TypeOK, HandsMatchQueue, ResultsRecorded,
              StartedRows, OneRowPerMessage, EventsWereSent, Msg
<1>. QED BY <1>1, <1>2, <1>3, <1>4, <1>5 DEF Next

-----------------------------------------------------------------------------
(* The life of a row, whoever takes the step. *)

Progress(before, after) ==
    \/ before = "queued" /\ after = "claimed"
    \/ before = "claimed" /\ after = "running"
    \/ before \in {"claimed", "running"} /\ after \in Terminal

LEMMA RowLife ==
    ASSUME IInv, [Next]_vars
    PROVE  /\ DOMAIN jobs \subseteq DOMAIN jobs'
           /\ \A j \in DOMAIN jobs :
                  /\ jobs'[j] = jobs[j]
                     \/ Progress(jobs[j].status, jobs'[j].status)
                  /\ jobs'[j].event = jobs[j].event
                  /\ jobs'[j].source = jobs[j].source
                  /\ jobs'[j].reply = jobs[j].reply
                  /\ jobs'[j].created = jobs[j].created
           /\ \A j \in DOMAIN jobs' \ DOMAIN jobs :
                  /\ Dispatch /\ j = Len(jobs) + 1
                  /\ \E now \in Instant :
                         jobs'[j] = NewRow(Msg, mail[Msg], listener.reply, now)
<1> DEFINE Life == /\ DOMAIN jobs \subseteq DOMAIN jobs'
                   /\ \A j \in DOMAIN jobs :
                          /\ jobs'[j] = jobs[j]
                             \/ Progress(jobs[j].status, jobs'[j].status)
                          /\ jobs'[j].event = jobs[j].event
                          /\ jobs'[j].source = jobs[j].source
                          /\ jobs'[j].reply = jobs[j].reply
                          /\ jobs'[j].created = jobs[j].created
                   /\ \A j \in DOMAIN jobs' \ DOMAIN jobs :
                          /\ Dispatch /\ j = Len(jobs) + 1
                          /\ \E now \in Instant :
                                 jobs'[j] = NewRow(Msg, mail[Msg], listener.reply, now)
<1> SUFFICES Life
  OBVIOUS
<1>1. CASE UNCHANGED jobs
  BY <1>1
<1>2. CASE Dispatch
  <2>1. /\ Msg \in Message /\ listener.reply \in Chat /\ mail[Msg] \in Chat
        /\ jobs \in Seq(Row)
    BY <1>2 DEF IInv, TypeOK, EventsWereSent, Dispatch, Listener, Msg
  <2>2. PICK now \in Instant : Enqueue(Msg, mail[Msg], listener.reply, now)
    BY <1>2 DEF Dispatch
  <2>. QED BY <1>2, <2>1, <2>2, EnqueueRows
<1>3. ASSUME NEW w \in Worker, Claim(w) PROVE Life
  <2>1. PICK j \in DOMAIN jobs : ClaimNext(w, j)
    BY <1>3 DEF Claim
  <2>2. jobs[j].status = "queued" /\ jobs \in Seq(Row)
    BY <2>1 DEF ClaimNext, OldestQueued, IInv, TypeOK
  <2>. QED BY <2>1, <2>2, ClaimRow DEF Progress
<1>4. ASSUME NEW w \in Worker, worker[w].at = "claimed",
             MarkRunning(worker[w].job)
      PROVE  Life
  <2>1. /\ worker[w].job \in DOMAIN jobs
        /\ jobs[worker[w].job].status = "claimed"
        /\ jobs \in Seq(Row)
    BY <1>4 DEF IInv, TypeOK, HandsMatchQueue
  <2>. QED BY <1>4, <2>1, UpdateStatus DEF MarkRunning, Progress, Active
<1>5. ASSUME NEW w \in Worker, NEW status \in Terminal,
             worker[w].at \in {"outcome", "abandon"},
             MarkFinished(worker[w].job, status)
      PROVE  Life
  <2>1. /\ worker[w].job \in DOMAIN jobs
        /\ jobs[worker[w].job].status \in {"claimed", "running"}
        /\ jobs \in Seq(Row)
    BY <1>5 DEF IInv, TypeOK, HandsMatchQueue
  <2>. QED BY <1>5, <2>1, UpdateStatus DEF MarkFinished, Progress
<1>6. ASSUME NEW w \in Worker, StartRun(w) PROVE Life
  BY <1>1, <1>4, <1>6 DEF StartRun
<1>7. ASSUME NEW w \in Worker, RecordOutcome(w) \/ Abandon(w) PROVE Life
  <2>1. worker[w].verdict \in Terminal /\ "failed" \in Terminal
    BY DEF IInv, TypeOK, WorkerState, Terminal
  <2>2. \/ UNCHANGED jobs
        \/ /\ worker[w].at \in {"outcome", "abandon"}
           /\ \E status \in Terminal : MarkFinished(worker[w].job, status)
    BY <1>7, <2>1 DEF RecordOutcome, Abandon
  <2>. QED BY <1>1, <1>5, <2>2
<1>8. ASSUME NEW m \in Message, NEW g \in Chat, Send(m, g)
      PROVE  UNCHANGED jobs
  BY <1>8 DEF Send
<1>9. ASSUME NEW m \in Message, NEW initial \in BOOLEAN, Deliver(m, initial)
      PROVE  UNCHANGED jobs
  BY <1>9 DEF Deliver
<1>10. CASE ListenerStep \/ ListenerKill \/ ListenerStart
  BY <1>1, <1>2, <1>10
     DEF ListenerStep, ListenerKill, ListenerStart, AnswerHistory, TurnAway,
         Admit, OpenWorkChat, NoWorkChat, DispatchFails
<1>11. ASSUME NEW w \in Worker,
              WorkerStart(w) \/ WorkerStep(w) \/ LeavesIdle(w)
                             \/ WorkerKill(w)
       PROVE  Life
  <2>1. CASE Claim(w) \/ StartRun(w) \/ RecordOutcome(w) \/ Abandon(w)
    BY <1>3, <1>6, <1>7, <2>1
  <2>2. CASE \/ WorkerStart(w) \/ LeavesIdle(w) \/ WorkerKill(w)
             \/ Reply(w) \/ Mirror(w)
             \/ \E verdict \in Terminal : AgentReturns(w, verdict)
    BY <1>1, <2>2 DEF WorkerStart, LeavesIdle, WorkerKill, Reply, Mirror,
                      AgentReturns
  <2>. QED BY <1>11, <2>1, <2>2 DEF WorkerStep
<1> HIDE DEF Life
<1>12. CASE Next
  BY <1>1, <1>8, <1>9, <1>10, <1>11, <1>12 DEF Next
<1>13. CASE UNCHANGED vars
  BY <1>1, <1>13 DEF vars
<1>. QED BY <1>12, <1>13

\* No row leaves a terminal state, and none enters the queue but at its end.
LEMMA FinishedRows ==
    ASSUME IInv, [Next]_vars, NEW j \in DOMAIN jobs,
           jobs[j].status \in Terminal
    PROVE  jobs'[j] = jobs[j]
BY RowLife DEF Progress, Terminal

-----------------------------------------------------------------------------
(* The theorems. *)

\* The inductive invariant holds in every reachable state.
THEOREM Invariant == Spec => []IInv
BY InitIInv, NextIInv, PTL DEF Spec

\* Every variable keeps its type.
THEOREM TypeCorrect == Spec => []TypeOK
<1>1. IInv => TypeOK
  BY DEF IInv
<1>. QED BY <1>1, Invariant, PTL

\* Whichever processes die and whatever is redelivered, an agent is started
\* at most once for a message with an id: the rows of a message coincide,
\* and no row is started twice.
THEOREM StartedOnce == Spec => []ExecutedOnce
<1>1. IInv => ExecutedOnce
  BY DEF IInv, StartedRows, OneRowPerMessage, ExecutedOnce
<1>. QED BY <1>1, Invariant, PTL

\* No two workers, however many run, ever work on the same row.
THEOREM OneHand == Spec => []NoJobInTwoHands
<1>1. IInv => NoJobInTwoHands
  BY DEF IInv, HandsMatchQueue, NoJobInTwoHands
<1>. QED BY <1>1, Invariant, PTL

\* Every result in a chat agrees with what the queue holds, at all times.
THEOREM ResultsAgree == Spec => []ResultMatchesQueue
<1>1. IInv => ResultMatchesQueue
  BY DEF IInv, ResultsRecorded, ResultMatchesQueue
<1>. QED BY <1>1, Invariant, PTL

\* The statements that write a status have no guard, and yet no finished row
\* is ever written again.
THEOREM FinishedForGood == Spec => FinishedStays
<1>1. IInv /\ [Next]_vars =>
          [\A j \in DOMAIN jobs :
               jobs[j].status \in Terminal => jobs'[j] = jobs[j]]_vars
  BY FinishedRows
<1>. QED BY <1>1, Invariant, PTL DEF Spec, FinishedStays

-----------------------------------------------------------------------------
(* MirrorTellsTruth. *)

\* A worker that believes its result was delivered has posted it.
ResultStands(j) == \E q \in results : /\ q.job = j /\ q.how = "result"
                                      /\ q.chat = jobs[j].reply

DeliveredStands ==
    \A w \in Worker : worker[w].at = "mirror" /\ worker[w].delivered =>
                          ResultStands(worker[w].job)

\* Results stay, and so do the chats of their rows.
LEMMA ResultsStay ==
    ASSUME IInv, [Next]_vars, results \subseteq results',
           NEW j \in DOMAIN jobs, ResultStands(j)
    PROVE  ResultStands(j)'
BY RowLife DEF ResultStands

LEMMA TruthKept ==
    ASSUME IInv, DeliveredStands, MirrorTellsTruth, [Next]_vars,
           UNCHANGED results,
           \A w \in Worker : worker'[w].at = "mirror" => worker'[w] = worker[w]
    PROVE  (DeliveredStands /\ MirrorTellsTruth)'
<1>1. DeliveredStands'
  <2> SUFFICES ASSUME NEW w \in Worker, worker'[w].at = "mirror",
                      worker'[w].delivered
               PROVE  ResultStands(worker[w].job)'
    BY DEF DeliveredStands
  <2>1. PICK j \in DOMAIN jobs : j = worker[w].job /\ j = worker'[w].job
    BY DEF IInv, HandsMatchQueue
  <2>. QED BY <2>1, ResultsStay DEF DeliveredStands
<1>2. MirrorTellsTruth'
  <2> SUFFICES ASSUME NEW r \in results, r.how = "mirrored"
               PROVE  ResultStands(r.job)'
    BY DEF MirrorTellsTruth, ResultStands
  <2>1. r.job \in DOMAIN jobs /\ ResultStands(r.job)
    BY DEF MirrorTellsTruth, ResultStands, IInv, ResultsRecorded
  <2>. QED BY <2>1, ResultsStay
<1>. QED BY <1>1, <1>2

LEMMA TruthPosted ==
    ASSUME IInv, DeliveredStands, MirrorTellsTruth,
           NEW w \in Worker, Reply(w) \/ Mirror(w)
    PROVE  (DeliveredStands /\ MirrorTellsTruth)'
<1> DEFINE j == worker[w].job
<1>1. /\ UNCHANGED jobs
      /\ worker[w] \in WorkerState /\ worker \in [Worker -> WorkerState]
  BY DEF Reply, Mirror, IInv, TypeOK
<1> DEFINE text(chat, how) == [job |-> j, chat |-> chat,
                              verdict |-> worker[w].verdict, how |-> how]
<1>3. ASSUME results \subseteq results',
             \A r \in results' \ results :
                 r.how = "mirrored" => ResultStands(r.job)
      PROVE  MirrorTellsTruth'
  BY <1>1, <1>3 DEF MirrorTellsTruth, ResultStands
<1>4. ASSUME results \subseteq results',
             \A v \in Worker : v # w => worker'[v] = worker[v],
             worker'[w].at = "mirror" /\ worker'[w].delivered =>
                 ResultStands(worker[w].job)' /\ worker'[w].job = worker[w].job
      PROVE  DeliveredStands'
  <2> SUFFICES ASSUME NEW v \in Worker, worker'[v].at = "mirror",
                      worker'[v].delivered
               PROVE  ResultStands(worker[v].job)'
    BY DEF DeliveredStands
  <2>1. CASE v = w
    BY <1>1, <1>4, <2>1 DEF ResultStands
  <2>2. CASE v # w
    BY <1>1, <1>4, <2>2 DEF DeliveredStands, ResultStands
  <2>. QED BY <2>1, <2>2
<1>5. ASSUME Rests(w)
      PROVE  /\ worker'[w].at \in {"idle", "down"}
             /\ \A v \in Worker : v # w => worker'[v] = worker[v]
  BY <1>5, LetsGo
<1>6. CASE Reply(w)
  <2>1. PICK delivered \in BOOLEAN :
            /\ Post(w, jobs[j].reply, "result", delivered)
            /\ \/ Moves(w, [worker[w] EXCEPT !.at = "mirror",
                                             !.delivered = delivered])
               \/ Rests(w)
    BY <1>6 DEF Reply
  <2> DEFINE result == text(jobs[j].reply, "result")
  <2>0. \/ results' = results \union {result}
        \/ delivered = FALSE /\ UNCHANGED results
    BY <2>1 DEF Post
  <2>2. MirrorTellsTruth' /\ results \subseteq results'
    <3>1. result.how = "result"
      OBVIOUS
    <3> HIDE DEF result
    <3>. QED BY <1>3, <2>0, <3>1
  <2>3. CASE Rests(w)
    BY <1>4, <1>5, <2>2, <2>3
  <2>4. CASE Moves(w, [worker[w] EXCEPT !.at = "mirror",
                                        !.delivered = delivered])
    <3> DEFINE to == [worker[w] EXCEPT !.at = "mirror",
                                       !.delivered = delivered]
    <3>1. to.job = j /\ to.delivered = delivered
      BY <1>1 DEF WorkerState
    <3>2. Moves(w, to)
      BY <2>4
    <3> HIDE DEF to
    <3>3. worker'[w] = to /\ \A v \in Worker : v # w => worker'[v] = worker[v]
      BY <1>1, <3>2 DEF Moves
    <3>4. \/ delivered = FALSE
          \/ \E r \in results' : /\ r.job = j /\ r.how = "result"
                                 /\ r.chat = jobs[j].reply
      <4>1. /\ result.job = j /\ result.how = "result"
            /\ result.chat = jobs[j].reply
        OBVIOUS
      <4> HIDE DEF result
      <4>. QED BY <2>0, <4>1
    <3>5. delivered = FALSE \/ ResultStands(worker[w].job)'
      BY <1>1, <3>1, <3>3, <3>4 DEF ResultStands
    <3>. QED BY <1>4, <2>2, <3>1, <3>3, <3>5
  <2>. QED BY <2>1, <2>2, <2>3, <2>4
<1>7. CASE Mirror(w)
  <2>1. PICK delivered \in BOOLEAN :
            Post(w, jobs[j].source,
                 IF worker[w].delivered THEN "mirrored" ELSE "moved", delivered)
    BY <1>7 DEF Mirror
  <2> DEFINE how == IF worker[w].delivered THEN "mirrored" ELSE "moved"
             mirror == text(jobs[j].source, how)
  <2>0. results' = results \union {mirror} \/ UNCHANGED results
    BY <2>1 DEF Post
  <2>2. /\ results \subseteq results'
        /\ \A r \in results' \ results :
               r.job = j /\ (r.how = "mirrored" => worker[w].delivered)
    <3>1. mirror.job = j /\ (mirror.how = "mirrored" => worker[w].delivered)
      OBVIOUS
    <3> HIDE DEF mirror
    <3>. QED BY <2>0, <3>1
  <2>3. worker[w].at = "mirror" /\ Rests(w)
    BY <1>7 DEF Mirror
  <2>4. MirrorTellsTruth'
    BY <1>3, <2>2, <2>3 DEF DeliveredStands
  <2>. QED BY <1>4, <1>5, <2>2, <2>3, <2>4
<1>. QED BY <1>6, <1>7

\* The steps of a worker but Reply and Mirror take it elsewhere.
LEMMA LeavesMirror ==
    ASSUME IInv, NEW w \in Worker,
           \/ Claim(w) \/ StartRun(w) \/ RecordOutcome(w) \/ Abandon(w)
           \/ \E verdict \in Terminal : AgentReturns(w, verdict)
           \/ WorkerStart(w) \/ LeavesIdle(w) \/ WorkerKill(w)
    PROVE  \E to : Moves(w, to) /\ to.at # "mirror"
<1>1. worker[w] \in WorkerState
  BY DEF IInv, TypeOK
<1>2. CASE WorkerStart(w) \/ LeavesIdle(w) \/ WorkerKill(w) \/ Abandon(w)
  BY <1>2, RestStates DEF WorkerStart, LeavesIdle, WorkerKill, Abandon, Rests
<1>3. CASE StartRun(w) \/ RecordOutcome(w)
  <2> DEFINE to(at) == [worker[w] EXCEPT !.at = at]
  <2>1. \A at \in {"running", "reply", "abandon"} : to(at).at = at
    BY <1>1 DEF WorkerState
  <2>2. Moves(w, to("running")) \/ Moves(w, to("reply"))
                                \/ Moves(w, to("abandon"))
    BY <1>3 DEF StartRun, RecordOutcome
  <2> HIDE DEF to
  <2>. QED BY <2>1, <2>2
<1>4. ASSUME NEW verdict \in Terminal, AgentReturns(w, verdict)
      PROVE  \E to : Moves(w, to) /\ to.at # "mirror"
  <2> DEFINE to == [worker[w] EXCEPT !.at = "outcome", !.verdict = verdict]
  <2>1. to.at = "outcome"
    BY <1>1 DEF WorkerState
  <2>2. Moves(w, to)
    BY <1>4 DEF AgentReturns
  <2> HIDE DEF to
  <2>. QED BY <2>1, <2>2
<1>5. CASE Claim(w)
  <2>1. PICK j : Moves(w, [IdleWorker EXCEPT !.at = "claimed", !.job = j])
    BY <1>5 DEF Claim
  <2> DEFINE to == [IdleWorker EXCEPT !.at = "claimed", !.job = j]
  <2>2. to.at = "claimed"
    BY RestStates DEF WorkerState
  <2>3. Moves(w, to)
    BY <2>1
  <2> HIDE DEF to
  <2>. QED BY <2>2, <2>3
<1>. QED BY <1>2, <1>3, <1>4, <1>5

\* "Done in work chat" in the source chat is true: the result of the job is
\* in its work chat by then, whatever sends fail.
THEOREM MirrorIsTrue == Spec => []MirrorTellsTruth
<1>1. Init => DeliveredStands /\ MirrorTellsTruth
  BY DEF Init, DownWorker, DeliveredStands, MirrorTellsTruth
<1>2. IInv /\ DeliveredStands /\ MirrorTellsTruth /\ [Next]_vars
          => (DeliveredStands /\ MirrorTellsTruth)'
  <2> SUFFICES ASSUME IInv, DeliveredStands, MirrorTellsTruth, [Next]_vars
               PROVE  (DeliveredStands /\ MirrorTellsTruth)'
    OBVIOUS
  <2>1. ASSUME NEW w \in Worker, Reply(w) \/ Mirror(w)
        PROVE  (DeliveredStands /\ MirrorTellsTruth)'
    BY <2>1, TruthPosted
  <2>2. ASSUME NEW w \in Worker,
               \/ Claim(w) \/ StartRun(w) \/ RecordOutcome(w) \/ Abandon(w)
               \/ \E verdict \in Terminal : AgentReturns(w, verdict)
               \/ WorkerStart(w) \/ LeavesIdle(w) \/ WorkerKill(w)
        PROVE  (DeliveredStands /\ MirrorTellsTruth)'
    <3>1. UNCHANGED results
      BY <2>2 DEF Claim, StartRun, RecordOutcome, Abandon, AgentReturns,
                  WorkerStart, LeavesIdle, WorkerKill
    <3>2. \E to : Moves(w, to) /\ to.at # "mirror"
      BY <2>2, LeavesMirror
    <3>3. \A v \in Worker :
              worker'[v].at = "mirror" => worker'[v] = worker[v]
      BY <3>2 DEF Moves, IInv, TypeOK
    <3>. QED BY <3>1, <3>3, TruthKept
  <2>3. CASE UNCHANGED <<results, worker>>
    BY <2>3, TruthKept
  <2>4. ASSUME NEW m \in Message, NEW g \in Chat, Send(m, g)
        PROVE  UNCHANGED <<results, worker>>
    BY <2>4 DEF Send, workerVars
  <2>5. ASSUME NEW m \in Message, NEW initial \in BOOLEAN, Deliver(m, initial)
        PROVE  UNCHANGED <<results, worker>>
    BY <2>5 DEF Deliver, workerVars
  <2>6. CASE ListenerStep \/ ListenerKill \/ ListenerStart
    BY <2>3, <2>6
       DEF ListenerStep, ListenerKill, ListenerStart, AnswerHistory, TurnAway,
           Admit, OpenWorkChat, NoWorkChat, DispatchFails, Dispatch, workerVars
  <2>7. CASE UNCHANGED vars
    BY <2>3, <2>7 DEF vars
  <2>. QED BY <2>1, <2>2, <2>3, <2>4, <2>5, <2>6, <2>7 DEF Next, WorkerStep
<1>. QED BY <1>1, <1>2, Invariant, PTL DEF Spec

-----------------------------------------------------------------------------
(* FollowUpWaits, when the lookup of active jobs works. *)

\* What the listener found at "route" is still so when it writes the row: no
\* other process queues a job, and no row becomes active again.
FollowUpGate ==
    /\ listener.at = "route" => listener.reply = mail[Msg]
    /\ listener.at = "session" => OpensWorkChat(Msg)
    /\ listener.at = "dispatch" /\ FollowUp(Msg) =>
           /\ listener.reply = mail[Msg]
           /\ ActiveForReplyGroup(mail[Msg]) = {}

\* No step of the phone or of a worker moves the listener.
LEMMA ListenerAlone ==
    ASSUME [Next]_vars
    PROVE  \/ \E m \in Message, initial \in BOOLEAN : Deliver(m, initial)
           \/ ListenerStep \/ ListenerKill \/ ListenerStart
           \/ UNCHANGED <<listener, seen>>
<1>1. ASSUME NEW m \in Message, NEW g \in Chat, Send(m, g)
      PROVE  UNCHANGED <<listener, seen>>
  BY <1>1 DEF Send, listenerVars
<1>2. ASSUME NEW w \in Worker,
             WorkerStart(w) \/ WorkerStep(w) \/ LeavesIdle(w) \/ WorkerKill(w)
      PROVE  UNCHANGED <<listener, seen>>
  BY <1>2 DEF WorkerStart, WorkerStep, LeavesIdle, WorkerKill, Claim,
              StartRun, AgentReturns, RecordOutcome, Reply, Mirror, Abandon,
              listenerVars
<1>3. CASE UNCHANGED vars
  BY <1>3 DEF vars
<1>. QED BY <1>1, <1>2, <1>3 DEF Next

\* The chat of a message that was sent does not change.
LEMMA MailStays ==
    ASSUME IInv, [Next]_vars
    PROVE  \A m \in Message : mail[m] # NoChat => mail'[m] = mail[m]
<1>1. ASSUME NEW m \in Message, NEW g \in Chat, Send(m, g)
      PROVE  \A n \in Message : mail[n] # NoChat => mail'[n] = mail[n]
  BY <1>1 DEF IInv, TypeOK, Send
<1>2. ASSUME NEW m \in Message, NEW initial \in BOOLEAN, Deliver(m, initial)
      PROVE  UNCHANGED mail
  BY <1>2 DEF Deliver
<1>3. CASE ListenerStep \/ ListenerKill \/ ListenerStart
  BY <1>3 DEF ListenerStep, ListenerKill, ListenerStart, AnswerHistory,
              TurnAway, Admit, OpenWorkChat, NoWorkChat, DispatchFails, Dispatch
<1>4. ASSUME NEW w \in Worker,
             WorkerStart(w) \/ WorkerStep(w) \/ LeavesIdle(w) \/ WorkerKill(w)
      PROVE  UNCHANGED mail
  BY <1>4 DEF WorkerStart, WorkerStep, LeavesIdle, WorkerKill, Claim,
              StartRun, AgentReturns, RecordOutcome, Reply, Mirror, Abandon
<1>5. CASE UNCHANGED vars
  BY <1>5 DEF vars
<1>. QED BY <1>1, <1>2, <1>3, <1>4, <1>5 DEF Next

\* A chat without active jobs stays so unless Dispatch queues one for it.
LEMMA StaysQuiet ==
    ASSUME IInv, [Next]_vars, ~Dispatch,
           NEW g, ActiveForReplyGroup(g) = {}
    PROVE  ActiveForReplyGroup(g)' = {}
<1>1. ASSUME NEW j \in DOMAIN jobs', jobs'[j].reply = g,
             jobs'[j].status \in Active
      PROVE  FALSE
  <2>1. j \in DOMAIN jobs /\ jobs[j].reply = g
    BY <1>1, RowLife
  <2>2. jobs[j] \in Row
    BY <2>1 DEF IInv, TypeOK
  <2>3. jobs[j].status \in Terminal
    BY <2>1, <2>2 DEF ActiveForReplyGroup, Row
  <2>. QED BY <1>1, <2>1, <2>3, FinishedRows DEF Active, Terminal
<1>. QED BY <1>1 DEF ActiveForReplyGroup

LEMMA GateNext ==
    ASSUME IInv, FollowUpGate, [Next]_vars, "lookup" \notin Faults
    PROVE  FollowUpGate'
<1> USE DEF Msg
<1>1. ASSUME NEW m \in Message, NEW initial \in BOOLEAN, Deliver(m, initial)
      PROVE  FollowUpGate'
  BY <1>1 DEF Deliver, FollowUpGate
<1>2. CASE \/ AnswerHistory \/ TurnAway \/ Dispatch \/ DispatchFails
           \/ ListenerKill \/ ListenerStart
  <2>1. listener' = IdleListener \/ listener' = DownListener
    BY <1>2 DEF AnswerHistory, TurnAway, Dispatch, DispatchFails, ListenerKill,
                ListenerStart
  <2>2. listener'.at \in {"idle", "down"}
    BY <2>1 DEF IdleListener, DownListener
  <2>. QED BY <2>2 DEF FollowUpGate
<1>3. CASE Admit
  <2>1. /\ listener.at = "route" /\ listener \in Listener
        /\ UNCHANGED <<jobs, mail>>
    BY <1>3 DEF Admit, IInv, TypeOK
  <2>2. /\ listener'.msg = listener.msg /\ listener'.reply = listener.reply
        /\ listener'.at = IF OpensWorkChat(listener.msg) THEN "session"
                                                        ELSE "dispatch"
    BY <1>3, <2>1 DEF Admit, Listener
  <2>3. FollowUp(listener.msg) => ActiveForReplyGroup(mail[listener.msg]) = {}
    BY <1>3 DEF Admit
  <2>4. OpensWorkChat(listener.msg)' = OpensWorkChat(listener.msg)
        /\ FollowUp(listener.msg)' = FollowUp(listener.msg)
        /\ ActiveForReplyGroup(mail[listener.msg])'
               = ActiveForReplyGroup(mail[listener.msg])
    BY <2>1, <2>2 DEF OpensWorkChat, FollowUp, ActiveForReplyGroup
  <2>. QED BY <2>1, <2>2, <2>3, <2>4 DEF FollowUpGate
<1>4. CASE NoWorkChat \/ \E c \in Chat : OpenWorkChat(c)
  <2>1. /\ listener.at = "session" /\ listener'.at = "dispatch"
        /\ listener'.msg = listener.msg /\ UNCHANGED mail
    BY <1>4 DEF NoWorkChat, OpenWorkChat, IInv, TypeOK, Listener
  <2>2. ~FollowUp(Msg)'
    BY <2>1 DEF FollowUpGate, FollowUp, OpensWorkChat
  <2>. QED BY <2>1, <2>2 DEF FollowUpGate
<1>5. CASE UNCHANGED listener /\ ~Dispatch
  <2>1. CASE listener.at \in {"route", "session", "dispatch"}
    <3>1. mail'[Msg] = mail[Msg]
      BY <2>1, MailStays DEF IInv, TypeOK, EventsWereSent, Listener
    <3>2. FollowUp(Msg)' = FollowUp(Msg)
          /\ OpensWorkChat(Msg)' = OpensWorkChat(Msg)
      BY <1>5, <3>1 DEF FollowUp, OpensWorkChat
    <3>3. ActiveForReplyGroup(mail[Msg]) = {}
              => ActiveForReplyGroup(mail[Msg])' = {}
      <4>1. ActiveForReplyGroup(mail[Msg])'
                = {j \in DOMAIN jobs' : /\ jobs'[j].reply = mail[Msg]
                                        /\ jobs'[j].status \in Active}
        BY <1>5, <3>1 DEF ActiveForReplyGroup
      <4>. QED BY <1>5, <4>1, StaysQuiet DEF ActiveForReplyGroup
    <3>. QED BY <1>5, <3>1, <3>2, <3>3 DEF FollowUpGate
  <2>. QED BY <1>5, <2>1 DEF FollowUpGate
<1>. QED BY <1>1, <1>2, <1>3, <1>4, <1>5, ListenerAlone DEF ListenerStep

LEMMA WaitsNext ==
    ASSUME IInv, FollowUpGate, FollowUpWaits, [Next]_vars
    PROVE  FollowUpWaits'
<1> SUFFICES ASSUME NEW i \in DOMAIN jobs', NEW k \in DOMAIN jobs',
                    i < k, FollowUp(jobs[k].event)',
                    jobs'[i].reply = jobs'[k].reply
             PROVE  jobs'[i].status \in Terminal
  BY DEF FollowUpWaits
<1>1. i \in DOMAIN jobs
  <2>1. /\ \A n \in DOMAIN jobs' \ DOMAIN jobs : n = Len(jobs) + 1
        /\ DOMAIN jobs = 1..Len(jobs) /\ Len(jobs) \in Nat
    BY RowLife DEF IInv, TypeOK
  <2>. QED BY <2>1
<1>2. CASE k \in DOMAIN jobs
  <2>1. /\ jobs'[k].event = jobs[k].event /\ jobs'[k].reply = jobs[k].reply
        /\ jobs'[i].reply = jobs[i].reply
    BY <1>1, <1>2, RowLife
  <2>2. jobs[k].event \in Message /\ mail[jobs[k].event] # NoChat
    <3>1. jobs[k] \in Row
      BY <1>2 DEF IInv, TypeOK
    <3>. QED BY <1>2, <3>1 DEF IInv, EventsWereSent, Row
  <2>3. mail'[jobs[k].event] = mail[jobs[k].event]
    BY <2>2, MailStays
  <2>4. FollowUp(jobs[k].event)
    BY <2>1, <2>3 DEF FollowUp
  <2>5. jobs[i].status \in Terminal
    BY <1>1, <1>2, <2>1, <2>4 DEF FollowUpWaits
  <2>. QED BY <1>1, <2>5, FinishedRows
<1>3. CASE k \notin DOMAIN jobs
  <2>1. /\ Dispatch
        /\ \E now \in Instant :
               jobs'[k] = NewRow(Msg, mail[Msg], listener.reply, now)
    BY <1>3, RowLife
  <2>2. /\ jobs'[k].event = Msg /\ jobs'[k].reply = listener.reply
    BY <2>1 DEF NewRow
  <2>3. listener.at = "dispatch" /\ UNCHANGED mail
    BY <2>1 DEF Dispatch
  <2>4. FollowUp(Msg)
    BY <2>2, <2>3 DEF FollowUp
  <2>5. ActiveForReplyGroup(listener.reply) = {}
    BY <2>3, <2>4 DEF FollowUpGate
  <2>6. jobs[i].reply = listener.reply
    BY <1>1, <2>2, RowLife
  <2>7. jobs[i].status \in Terminal
    <3>1. jobs[i] \in Row
      BY <1>1 DEF IInv, TypeOK
    <3>. QED BY <1>1, <2>5, <2>6, <3>1 DEF ActiveForReplyGroup, Row
  <2>. QED BY <1>1, <2>7, FinishedRows
<1>. QED BY <1>2, <1>3

\* A bare follow-up is queued behind finished jobs only, as long as the queue
\* answers the lookup: nothing is queued between the check and the row.
THEOREM FollowUpsWait ==
    ASSUME "lookup" \notin Faults
    PROVE  Spec => []FollowUpWaits
<1>1. Init => FollowUpGate /\ FollowUpWaits
  BY DEF Init, IdleListener, FollowUpGate, FollowUpWaits
<1>2. IInv /\ FollowUpGate /\ FollowUpWaits /\ [Next]_vars
          => (FollowUpGate /\ FollowUpWaits)'
  BY GateNext, WaitsNext
<1>. QED BY <1>1, <1>2, Invariant, PTL DEF Spec

-----------------------------------------------------------------------------
(* RunsInOrder, when the worker lock works. *)

OneWorkerUp ==
    \A v, w \in Worker : worker[v].at # "down" /\ worker[w].at # "down" => v = w

InOrder(s, q) == s < q \/ OutOfStep(jobs[q].created, jobs[s].created)

\* What was started may come before what is claimed, and that before what is
\* in the queue.
StartOrder ==
    /\ RunsInOrder
    /\ \A j \in DOMAIN jobs : jobs[j].status = "queued" =>
           /\ \A i \in DOMAIN starts : InOrder(starts[i], j)
           /\ \A w \in Worker : worker[w].at = "claimed" =>
                  InOrder(worker[w].job, j)
    /\ \A w \in Worker : worker[w].at = "claimed" =>
           \A i \in DOMAIN starts : InOrder(starts[i], worker[w].job)

\* Two texts either sort as the clock was read, or are out of step.
LEMMA TextOrder ==
    ASSUME NEW first \in Instant, NEW second \in Instant,
           ~SortsBefore(first, second)
    PROVE  OutOfStep(first, second)
<1> DEFINE a == first.digits
           b == second.digits
<1>1. /\ a \in Seq(0..9) /\ b \in Seq(0..9)
      /\ first.second \in Nat /\ second.second \in Nat
  BY QueueAssumption
<1>2. CASE first.second # second.second
  BY <1>1, <1>2 DEF SortsBefore, OutOfStep, Earlier
<1>3. CASE first.second = second.second
  <2> DEFINE Apart == {n \in DOMAIN a : ~(n \in DOMAIN b /\ a[n] = b[n])}
  <2>1. CASE Apart = {}
    BY <1>3, <2>1 DEF OutOfStep
  <2>2. CASE Apart # {}
    <3>1. Apart \subseteq Nat
      BY <1>1
    <3>2. PICK n \in Apart : \A i \in Apart : <<i, n>> \notin Below
      <4> HIDE DEF Apart
      <4>. QED BY <2>2, <3>1, BelowIsWellFounded, WFMin
    <3>3. n \in DOMAIN a /\ n \in Nat /\ ~(n \in DOMAIN b /\ a[n] = b[n])
      BY <3>1
    <3>4. \A i \in 1..(n - 1) : i \in DOMAIN a /\ i \in DOMAIN b /\ a[i] = b[i]
      <4>1. \A i \in 1..(n - 1) : i \in DOMAIN a /\ <<i, n>> \in Below
        BY <1>1, <3>3 DEF Below
      <4>. QED BY <3>2, <4>1
    <3>5. a[n] \in 0..9 /\ (n \in DOMAIN b => b[n] \in 0..9)
      BY <1>1, <3>3
    <3>6. ~(DigitOrZ(a, n) < DigitOrZ(b, n))
      BY <1>3, <3>3, <3>4 DEF SortsBefore, DigitOrZ
    <3>7. n \in DOMAIN b /\ b[n] < a[n]
      BY <3>3, <3>5, <3>6 DEF DigitOrZ
    <3>8. Earlier(second, first)
      BY <1>3, <3>3, <3>4, <3>7 DEF Earlier, DigitOrZero
    <3>. QED BY <3>8 DEF OutOfStep
  <2>. QED BY <2>1, <2>2
<1>. QED BY <1>2, <1>3

\* What is written of the time a job was queued stays.
LEMMA InOrderStays ==
    ASSUME IInv, [Next]_vars, NEW s \in DOMAIN jobs, NEW q \in DOMAIN jobs,
           InOrder(s, q)
    PROVE  InOrder(s, q)'
<1>1. jobs'[s].created = jobs[s].created /\ jobs'[q].created = jobs[q].created
  BY RowLife
<1>. QED BY <1>1 DEF InOrder

LEMMA OneUpNext ==
    ASSUME IInv, OneWorkerUp, [Next]_vars, "lock" \notin Faults
    PROVE  OneWorkerUp'
<1>1. CASE UNCHANGED worker
  BY <1>1 DEF OneWorkerUp
<1>2. ASSUME NEW w \in Worker, WorkerStart(w)
      PROVE  OneWorkerUp'
  <2>1. \A v \in Worker : worker[v].at = "down"
    BY <1>2 DEF WorkerStart
  <2>2. \A v \in Worker : v # w => worker'[v] = worker[v]
    BY <1>2 DEF WorkerStart, Moves, IInv, TypeOK
  <2>. QED BY <2>1, <2>2 DEF OneWorkerUp
<1>3. ASSUME NEW w \in Worker, WorkerStep(w) \/ LeavesIdle(w) \/ WorkerKill(w)
      PROVE  OneWorkerUp'
  <2>1. worker[w].at # "down"
    BY <1>3 DEF WorkerStep, LeavesIdle, WorkerKill, Claim, StartRun,
                AgentReturns, RecordOutcome, Reply, Mirror, Abandon
  <2>2. \A v \in Worker : v # w => worker'[v] = worker[v]
    BY <1>3 DEF WorkerStep, LeavesIdle, WorkerKill, Claim, StartRun,
                AgentReturns, RecordOutcome, Reply, Mirror, Abandon, Rests,
                Moves, IInv, TypeOK
  <2>. QED BY <2>1, <2>2 DEF OneWorkerUp
<1>4. ASSUME NEW m \in Message, NEW g \in Chat, Send(m, g)
      PROVE  UNCHANGED worker
  BY <1>4 DEF Send, workerVars
<1>5. ASSUME NEW m \in Message, NEW initial \in BOOLEAN, Deliver(m, initial)
      PROVE  UNCHANGED worker
  BY <1>5 DEF Deliver, workerVars
<1>6. CASE ListenerStep \/ ListenerKill \/ ListenerStart
  BY <1>1, <1>6
     DEF ListenerStep, ListenerKill, ListenerStart, AnswerHistory, TurnAway,
         Admit, OpenWorkChat, NoWorkChat, DispatchFails, Dispatch, workerVars
<1>7. CASE UNCHANGED vars
  BY <1>1, <1>7 DEF vars
<1>. QED BY <1>1, <1>2, <1>3, <1>4, <1>5, <1>6, <1>7 DEF Next

\* Steps that start nothing and claim nothing: rows may only leave the queue
\* or enter it at its end.
LEMMA OrderKept ==
    ASSUME IInv, StartOrder, [Next]_vars, UNCHANGED starts,
           \A w \in Worker : worker'[w].at = "claimed" => worker'[w] = worker[w]
    PROVE  StartOrder'
<1>1. /\ \A i \in DOMAIN starts : starts[i] \in DOMAIN jobs
      /\ \A w \in Worker : worker[w].at = "claimed" =>
             worker[w].job \in DOMAIN jobs
      /\ DOMAIN jobs = 1..Len(jobs) /\ Len(jobs) \in Nat
  BY DEF IInv, TypeOK, StartedRows, HandsMatchQueue
<1>2. \A j \in DOMAIN jobs' : jobs'[j].status = "queued" =>
          \/ j \in DOMAIN jobs /\ jobs[j].status = "queued"
          \/ j = Len(jobs) + 1
  BY RowLife DEF Progress, Terminal
<1>3. RunsInOrder'
  BY <1>1, InOrderStays DEF StartOrder, RunsInOrder, InOrder
<1>4. ASSUME NEW w \in Worker, worker'[w].at = "claimed", NEW i \in DOMAIN starts
      PROVE  InOrder(starts[i], worker[w].job)'
  <2>1. worker'[w] = worker[w] /\ worker[w].at = "claimed"
    BY <1>4
  <2>2. PICK s \in DOMAIN jobs, q \in DOMAIN jobs :
            s = starts[i] /\ q = worker[w].job
    BY <1>1, <1>4, <2>1
  <2>3. InOrder(s, q)'
    BY <1>4, <2>1, <2>2, InOrderStays DEF StartOrder
  <2>. QED BY <2>1, <2>2, <2>3 DEF InOrder
<1>5. ASSUME NEW j \in DOMAIN jobs', jobs'[j].status = "queued",
             NEW s \in DOMAIN jobs,
             (j \in DOMAIN jobs /\ jobs[j].status = "queued") => InOrder(s, j)
      PROVE  InOrder(s, j)'
  BY <1>1, <1>2, <1>5, InOrderStays DEF InOrder
<1>6. ASSUME NEW j \in DOMAIN jobs', jobs'[j].status = "queued"
      PROVE  /\ \A i \in DOMAIN starts : InOrder(starts[i], j)'
             /\ \A w \in Worker : worker'[w].at = "claimed" =>
                    InOrder(worker[w].job, j)'
  <2>1. ASSUME NEW i \in DOMAIN starts PROVE InOrder(starts[i], j)'
    <3>1. PICK s \in DOMAIN jobs : s = starts[i]
      BY <1>1
    <3>2. InOrder(s, j)'
      BY <1>5, <1>6, <3>1 DEF StartOrder
    <3>. QED BY <3>1, <3>2 DEF InOrder
  <2>2. ASSUME NEW w \in Worker, worker'[w].at = "claimed"
        PROVE  InOrder(worker[w].job, j)'
    <3>1. worker'[w] = worker[w] /\ worker[w].at = "claimed"
      BY <2>2
    <3>2. PICK s \in DOMAIN jobs : s = worker[w].job
      BY <1>1, <3>1
    <3>3. InOrder(s, j)'
      BY <1>5, <1>6, <3>1, <3>2 DEF StartOrder
    <3>. QED BY <3>1, <3>2, <3>3 DEF InOrder
  <2>. QED BY <2>1, <2>2
<1>. QED BY <1>3, <1>4, <1>6 DEF StartOrder

LEMMA OrderNext ==
    ASSUME IInv, OneWorkerUp, StartOrder, [Next]_vars
    PROVE  StartOrder'
<1>1. ASSUME NEW w \in Worker, Claim(w)
      PROVE  StartOrder'
  <2>1. PICK j \in DOMAIN jobs :
            /\ ClaimNext(w, j)
            /\ Moves(w, [IdleWorker EXCEPT !.at = "claimed", !.job = j])
    BY <1>1 DEF Claim
  <2> DEFINE to == [IdleWorker EXCEPT !.at = "claimed", !.job = j]
  <2>2. to.at = "claimed" /\ to.job = j
    BY RestStates DEF WorkerState
  <2> HIDE DEF to
  <2>3. worker'[w] = to /\ \A v \in Worker : v # w => worker'[v] = worker[v]
    BY <2>1 DEF to, Moves, IInv, TypeOK
  <2>4. UNCHANGED starts
    BY <1>1 DEF Claim
  <2>5. /\ jobs[j].status = "queued"
        /\ \A i \in DOMAIN jobs : jobs[i].status = "queued" =>
               ~SortsBefore(jobs[i].created, jobs[j].created)
        /\ jobs \in Seq(Row)
    BY <2>1 DEF ClaimNext, OldestQueued, IInv, TypeOK
  <2>6. /\ DOMAIN jobs' = DOMAIN jobs /\ jobs'[j].status = "claimed"
        /\ \A i \in DOMAIN jobs : i # j => jobs'[i] = jobs[i]
    BY <2>1, <2>5, ClaimRow
  <2>7. \A v \in Worker : v # w => worker[v].at = "down"
    BY <1>1 DEF OneWorkerUp, Claim
  <2>8. \A i \in DOMAIN starts : starts[i] \in DOMAIN jobs
    BY DEF IInv, StartedRows
  <2>9. ASSUME NEW i \in DOMAIN starts, NEW q \in DOMAIN jobs,
               jobs[q].status = "queued"
        PROVE  InOrder(starts[i], q)'
    <3>1. PICK s \in DOMAIN jobs : s = starts[i]
      BY <2>8
    <3>2. InOrder(s, q)'
      BY <2>9, <3>1, InOrderStays DEF StartOrder
    <3>. QED BY <2>4, <3>1, <3>2 DEF InOrder
  <2>10. \A i \in DOMAIN jobs' : jobs'[i].status = "queued" =>
             /\ i \in DOMAIN jobs /\ jobs[i].status = "queued"
             /\ InOrder(j, i)'
    <3>1. \A i \in DOMAIN jobs : jobs[i].created \in Instant
      <4>1. \A row \in Row : row.created \in Instant
        BY DEF Row
      <4>2. \A i \in DOMAIN jobs : jobs[i] \in Row
        BY <2>5
      <4>. QED BY <4>1, <4>2
    <3>2. \A i \in DOMAIN jobs : jobs[i].status = "queued" => InOrder(j, i)
      BY <2>5, <3>1, TextOrder DEF InOrder
    <3>. QED BY <2>6, <3>2, InOrderStays
  <2>11. \A i \in DOMAIN jobs' : jobs'[i].status = "queued" =>
             \A k \in DOMAIN starts : InOrder(starts[k], i)'
    BY <2>9, <2>10
  <2>12. RunsInOrder'
    BY <2>4, <2>8, InOrderStays DEF StartOrder, RunsInOrder, InOrder
  <2>13. /\ \A k \in DOMAIN starts : InOrder(starts[k], worker[w].job)'
         /\ \A i \in DOMAIN jobs' : jobs'[i].status = "queued" =>
                InOrder(worker[w].job, i)'
    BY <2>2, <2>3, <2>5, <2>9, <2>10 DEF InOrder
  <2>. QED BY <2>2, <2>3, <2>4, <2>7, <2>11, <2>12, <2>13 DEF StartOrder
<1>2. ASSUME NEW w \in Worker, StartRun(w)
      PROVE  StartOrder'
  <2>0. PICK j \in DOMAIN jobs : j = worker[w].job
    BY <1>2 DEF StartRun, IInv, HandsMatchQueue
  <2>1. /\ worker[w].at = "claimed" /\ worker[w] \in WorkerState
        /\ jobs[j].status = "claimed"
        /\ \A v \in Worker : v # w => worker[v].at = "down"
    BY <1>2, <2>0 DEF StartRun, OneWorkerUp, IInv, TypeOK, HandsMatchQueue
  <2>2. /\ worker'[w].at # "claimed"
        /\ \A v \in Worker : v # w => worker'[v] = worker[v]
    BY <1>2, <2>1 DEF StartRun, Moves, IInv, TypeOK, WorkerState
  <2>3. CASE UNCHANGED starts
    BY <2>1, <2>2, <2>3, OrderKept
  <2>4. CASE starts' = Append(starts, j)
    <3>1. /\ starts \in Seq(Nat) /\ j \in Nat
      BY <2>1 DEF IInv, TypeOK
    <3>2. /\ \A i \in DOMAIN starts' :
                 starts'[i] = IF i \in DOMAIN starts THEN starts[i] ELSE j
          /\ \A i, k \in DOMAIN starts' : i < k => i \in DOMAIN starts
      BY <2>4, <3>1
    <3>3. \A i \in DOMAIN starts : starts[i] \in DOMAIN jobs
      BY DEF IInv, StartedRows
    <3>4. RunsInOrder'
      <4>1. ASSUME NEW i \in DOMAIN starts', NEW k \in DOMAIN starts', i < k
            PROVE  \E s, q \in DOMAIN jobs : /\ s = starts'[i] /\ q = starts'[k]
                                             /\ InOrder(s, q)
        BY <2>0, <2>1, <3>2, <3>3, <4>1 DEF StartOrder, RunsInOrder, InOrder
      <4>2. ASSUME NEW i \in DOMAIN starts', NEW k \in DOMAIN starts', i < k
            PROVE  \E s, q \in DOMAIN jobs : /\ s = starts'[i] /\ q = starts'[k]
                                             /\ InOrder(s, q)'
        BY <4>1, <4>2, InOrderStays
      <4>. QED BY <4>2 DEF RunsInOrder, InOrder
    <3>5. \A i \in DOMAIN jobs' : jobs'[i].status = "queued" =>
              i \in DOMAIN jobs /\ jobs[i].status = "queued"
      <4>1. ~Dispatch
        BY <1>2, <2>1, <2>2 DEF Dispatch, workerVars
      <4>. QED BY <4>1, RowLife DEF Progress, Terminal
    <3>6. ASSUME NEW q \in DOMAIN jobs', jobs'[q].status = "queued",
                 NEW k \in DOMAIN starts'
          PROVE  InOrder(starts[k], q)'
      <4>1. PICK s \in DOMAIN jobs : s = starts'[k] /\ InOrder(s, q)
        BY <2>0, <2>1, <3>2, <3>3, <3>5, <3>6 DEF StartOrder
      <4>2. InOrder(s, q)'
        BY <3>5, <3>6, <4>1, InOrderStays
      <4>. QED BY <4>1, <4>2 DEF InOrder
    <3>. QED BY <2>1, <2>2, <3>4, <3>6 DEF StartOrder
  <2>. QED BY <1>2, <2>0, <2>3, <2>4 DEF StartRun
<1>3. ASSUME NEW m \in Message, NEW g \in Chat, Send(m, g)
      PROVE  UNCHANGED <<worker, starts>>
  BY <1>3 DEF Send, workerVars
<1>4. ASSUME NEW m \in Message, NEW initial \in BOOLEAN, Deliver(m, initial)
      PROVE  UNCHANGED <<worker, starts>>
  BY <1>4 DEF Deliver, workerVars
<1>5. CASE ListenerStep \/ ListenerKill \/ ListenerStart
  <2>1. UNCHANGED <<worker, starts>>
    BY <1>5
       DEF ListenerStep, ListenerKill, ListenerStart, AnswerHistory, TurnAway,
           Admit, OpenWorkChat, NoWorkChat, DispatchFails, Dispatch, workerVars
  <2>. QED BY <2>1, OrderKept
<1>6. ASSUME NEW w \in Worker,
             \/ WorkerStart(w) \/ LeavesIdle(w) \/ WorkerKill(w)
             \/ \E verdict \in Terminal : AgentReturns(w, verdict)
             \/ RecordOutcome(w) \/ Reply(w) \/ Mirror(w) \/ Abandon(w)
      PROVE  StartOrder'
  <2>1. UNCHANGED starts
    BY <1>6 DEF WorkerStart, LeavesIdle, WorkerKill, AgentReturns,
                RecordOutcome, Reply, Mirror, Abandon
  <2>2. \E to : Moves(w, to) /\ to.at # "claimed"
    <3>1. CASE WorkerStart(w) \/ LeavesIdle(w) \/ WorkerKill(w) \/ Abandon(w)
      BY <3>1, RestStates DEF WorkerStart, LeavesIdle, WorkerKill, Abandon,
                              Rests
    <3>2. ASSUME NEW verdict \in Terminal, AgentReturns(w, verdict)
          PROVE  \E to : Moves(w, to) /\ to.at # "claimed"
      <4> DEFINE to == [worker[w] EXCEPT !.at = "outcome", !.verdict = verdict]
      <4>1. to.at = "outcome"
        BY DEF IInv, TypeOK, WorkerState
      <4>2. Moves(w, to)
        BY <3>2 DEF AgentReturns
      <4> HIDE DEF to
      <4>. QED BY <4>1, <4>2
    <3>3. CASE RecordOutcome(w)
      <4> DEFINE to(at) == [worker[w] EXCEPT !.at = at]
      <4>1. to("reply").at = "reply" /\ to("abandon").at = "abandon"
        BY DEF IInv, TypeOK, WorkerState
      <4>2. Moves(w, to("reply")) \/ Moves(w, to("abandon"))
        BY <3>3 DEF RecordOutcome
      <4> HIDE DEF to
      <4>. QED BY <4>1, <4>2
    <3>4. CASE Reply(w) \/ Mirror(w)
      <4>1. Rests(w) \/ \E delivered \in BOOLEAN :
                Moves(w, [worker[w] EXCEPT !.at = "mirror",
                                           !.delivered = delivered])
        BY <3>4 DEF Reply, Mirror
      <4>2. CASE Rests(w)
        BY <4>2, RestStates DEF Rests
      <4>3. ASSUME NEW delivered \in BOOLEAN,
                   Moves(w, [worker[w] EXCEPT !.at = "mirror",
                                              !.delivered = delivered])
            PROVE  \E to : Moves(w, to) /\ to.at # "claimed"
        <5> DEFINE to == [worker[w] EXCEPT !.at = "mirror",
                                           !.delivered = delivered]
        <5>1. to.at = "mirror"
          BY DEF IInv, TypeOK, WorkerState
        <5>2. Moves(w, to)
          BY <4>3
        <5> HIDE DEF to
        <5>. QED BY <5>1, <5>2
      <4>. QED BY <4>1, <4>2, <4>3
    <3>. QED BY <1>6, <3>1, <3>2, <3>3, <3>4
  <2>3. /\ worker'[w].at # "claimed"
        /\ \A v \in Worker : v # w => worker'[v] = worker[v]
    BY <2>2 DEF Moves, IInv, TypeOK
  <2>. QED BY <2>1, <2>3, OrderKept
<1>7. CASE UNCHANGED vars
  BY <1>7, OrderKept DEF vars
<1>. QED BY <1>1, <1>2, <1>3, <1>4, <1>5, <1>6, <1>7, OrderKept
         DEF Next, WorkerStep

\* With a lock that admits one worker, an agent is started before that of a
\* job queued earlier only when the texts of their created_at are out of step:
\* the clock went back, or one text of a second begins the other.
THEOREM StartedInOrder ==
    ASSUME "lock" \notin Faults
    PROVE  Spec => []RunsInOrder
<1>1. Init => OneWorkerUp /\ StartOrder
  BY DEF Init, DownWorker, OneWorkerUp, StartOrder, RunsInOrder
<1>2. IInv /\ OneWorkerUp /\ StartOrder /\ [Next]_vars
          => (OneWorkerUp /\ StartOrder)'
  BY OneUpNext, OrderNext
<1>3. StartOrder => RunsInOrder
  BY DEF StartOrder
<1>. QED BY <1>1, <1>2, <1>3, Invariant, PTL DEF Spec

-----------------------------------------------------------------------------
(* JournaledIsHandled, when the transport lives and its replies get out. *)

NothingDropped == /\ listener.at # "down"
                  /\ seen \intersect Anonymous = {}
                  /\ JournaledIsHandled

\* What was handled stays handled: notices and rows are never taken back.
LEMMA HandledStays ==
    ASSUME IInv, [Next]_vars, NEW m \in Message,
           AlreadyQueued(m) \/ notices[m] # {}
    PROVE  AlreadyQueued(m)' \/ notices'[m] # {}
<1>1. AlreadyQueued(m) => AlreadyQueued(m)'
  BY RowLife DEF AlreadyQueued
<1>2. ASSUME notices[m] # {} PROVE notices'[m] # {}
  <2>1. CASE UNCHANGED notices
    BY <1>2, <2>1
  <2>2. ASSUME NEW kind, Notify(kind) PROVE notices'[m] # {}
    BY <1>2, <2>2 DEF Notify, IInv, TypeOK
  <2>3. ASSUME NEW n \in Message, NEW g \in Chat, Send(n, g)
        PROVE  UNCHANGED notices
    BY <2>3 DEF Send, listenerVars
  <2>4. ASSUME NEW n \in Message, NEW initial \in BOOLEAN, Deliver(n, initial)
        PROVE  UNCHANGED notices
    BY <2>4 DEF Deliver
  <2>5. CASE ListenerStep \/ ListenerKill \/ ListenerStart
    BY <2>1, <2>2, <2>5
       DEF ListenerStep, ListenerKill, ListenerStart, AnswerHistory, TurnAway,
           Admit, OpenWorkChat, NoWorkChat, DispatchFails, Dispatch
  <2>6. ASSUME NEW w \in Worker,
               \/ WorkerStart(w) \/ WorkerStep(w) \/ LeavesIdle(w)
               \/ WorkerKill(w)
        PROVE  UNCHANGED notices
    BY <2>6 DEF WorkerStart, WorkerStep, LeavesIdle, WorkerKill, Claim,
                StartRun, AgentReturns, RecordOutcome, Reply, Mirror, Abandon,
                listenerVars
  <2>7. CASE UNCHANGED vars
    BY <2>1, <2>7 DEF vars
  <2>. QED BY <2>1, <2>3, <2>4, <2>5, <2>6, <2>7 DEF Next
<1>. QED BY <1>1, <1>2

LEMMA DroppedNext ==
    ASSUME IInv, NothingDropped, [Next]_vars,
           {"send", "listenerKill"} \intersect Faults = {}
    PROVE  NothingDropped'
<1> USE DEF Msg
<1>1. seen \subseteq Message
  BY DEF IInv, TypeOK
\* The step leaves message m handled; the others stay as they are.
<1>2. ASSUME NEW m, listener.at \notin {"idle", "down"} => Msg = m,
             UNCHANGED seen, listener'.at # "down",
             \/ listener'.at \notin {"idle", "down"} /\ Msg' = m
             \/ m \notin seen \/ AlreadyQueued(m)' \/ notices'[m] # {}
      PROVE  NothingDropped'
  BY <1>1, <1>2, HandledStays DEF NothingDropped, JournaledIsHandled
<1>3. ASSUME NEW m \in Message, NEW initial \in BOOLEAN, Deliver(m, initial)
      PROVE  NothingDropped'
  <2>1. /\ listener.at = "idle"
        /\ listener'.at \notin {"idle", "down"} /\ Msg' = m
        /\ seen' = seen \union ({m} \ Anonymous)
    BY <1>3 DEF Deliver
  <2>. QED BY <1>1, <2>1, HandledStays DEF NothingDropped, JournaledIsHandled
<1>4. CASE AnswerHistory \/ TurnAway \/ DispatchFails
  <2>1. /\ listener.at \notin {"idle", "down"} /\ Msg \in Message
        /\ listener' = IdleListener /\ UNCHANGED seen
    BY <1>4 DEF AnswerHistory, TurnAway, DispatchFails, IInv, TypeOK, Listener
  <2>2. notices'[Msg] # {}
    BY <1>4, <2>1 DEF AnswerHistory, TurnAway, DispatchFails, Notify, IInv,
                      TypeOK
  <2>. QED BY <1>2, <2>1, <2>2 DEF IdleListener
<1>5. CASE Dispatch
  <2>1. /\ Msg \in Message /\ listener.reply \in Chat /\ mail[Msg] \in Chat
        /\ jobs \in Seq(Row) /\ listener.at = "dispatch"
    BY <1>5 DEF IInv, TypeOK, EventsWereSent, Dispatch, Listener
  <2>2. PICK m \in Message : m = Msg
    BY <2>1
  <2>3. PICK now \in Instant : Enqueue(m, mail[m], listener.reply, now)
    BY <1>5, <2>2 DEF Dispatch
  <2>4. m \in Anonymous \/ \E j \in DOMAIN jobs' : jobs'[j].event = m
    BY <2>1, <2>2, <2>3, EnqueueRows
  <2>5. m \notin seen \/ AlreadyQueued(m)'
    BY <2>4 DEF AlreadyQueued, NothingDropped
  <2>6. /\ listener'.at # "down" /\ UNCHANGED seen
    BY <1>5 DEF Dispatch, IdleListener
  <2>. QED BY <1>2, <2>1, <2>2, <2>5, <2>6
<1>6. CASE Admit \/ NoWorkChat \/ \E c \in Chat : OpenWorkChat(c)
  <2>1. /\ listener'.at \notin {"idle", "down"}
        /\ listener.at \notin {"idle", "down"}
        /\ listener'.msg = listener.msg /\ UNCHANGED seen
    BY <1>6 DEF Admit, NoWorkChat, OpenWorkChat, IInv, TypeOK, Listener
  <2>. QED BY <1>2, <2>1
<1>7. ~ListenerKill /\ ~ListenerStart
  BY DEF ListenerKill, ListenerStart, NothingDropped
<1>8. CASE UNCHANGED <<listener, seen>>
  BY <1>1, <1>8, HandledStays DEF NothingDropped, JournaledIsHandled
<1>. QED BY <1>3, <1>4, <1>5, <1>6, <1>7, <1>8, ListenerAlone DEF ListenerStep

\* A journaled command is never lost inside a living transport: journaling
\* it commits the listener to queue it or to answer.
THEOREM NothingJournaledIsLost ==
    ASSUME {"send", "listenerKill"} \intersect Faults = {}
    PROVE  Spec => []JournaledIsHandled
<1>1. Init => NothingDropped
  BY DEF Init, IdleListener, NothingDropped, JournaledIsHandled
<1>2. IInv /\ NothingDropped /\ [Next]_vars => NothingDropped'
  BY DroppedNext
<1>3. NothingDropped => JournaledIsHandled
  BY DEF NothingDropped
<1>. QED BY <1>1, <1>2, <1>3, Invariant, PTL DEF Spec

-----------------------------------------------------------------------------
(* The pipeline implements CommandPromise, for every set of faults: the       *)
(* initial state maps to an initial state and every step to a step of the     *)
(* promise or to none.                                                        *)

LEMMA Phases ==
    /\ PhaseOf("queued") = "accepted" /\ PhaseOf("claimed") = "accepted"
    /\ PhaseOf("running") = "started"
    /\ PhaseOf("succeeded") = "succeeded" /\ PhaseOf("failed") = "failed"
BY DEF PhaseOf

LEMMA InitMaps == Init => Promise!Init
<1> SUFFICES ASSUME Init PROVE Ledger = <<>> /\ Reported = {}
  BY DEF Promise!Init
<1>1. Reported = {}
  BY DEF Init, Reported
<1>2. DOMAIN jobs = {}
  BY DEF Init
<1>3. Ledger = <<>>
  BY <1>2 DEF Ledger
<1>. QED BY <1>1, <1>3

\* The ledger's entry of a row.
Entry(row) == [event |-> row.event, phase |-> PhaseOf(row.status)]

LEMMA LedgerEntries ==
    ASSUME IInv
    PROVE  /\ DOMAIN Ledger = DOMAIN jobs
           /\ \A j \in DOMAIN jobs : /\ Ledger[j] = Entry(jobs[j])
                                     /\ Ledger[j].event = jobs[j].event
                                     /\ Ledger[j].phase = PhaseOf(jobs[j].status)
BY DEF Ledger, Entry

\* A queue whose rows map to the same entries is the same ledger.
LEMMA SameLedger ==
    ASSUME DOMAIN jobs' = DOMAIN jobs,
           \A j \in DOMAIN jobs :
               /\ jobs'[j].event = jobs[j].event
               /\ PhaseOf(jobs'[j].status) = PhaseOf(jobs[j].status)
    PROVE  UNCHANGED Ledger
BY DEF Ledger

\* Writing the status of row j writes the phase of its entry.
LEMMA WritesPhase ==
    ASSUME IInv, NEW j \in DOMAIN jobs, NEW status \in Active \union Terminal,
           jobs' = [jobs EXCEPT ![j].status = status]
    PROVE  Ledger' = [Ledger EXCEPT ![j].phase = PhaseOf(status)]
<1>1. /\ DOMAIN jobs' = DOMAIN jobs
      /\ \A i \in DOMAIN jobs : /\ i # j => jobs'[i] = jobs[i]
                                /\ jobs'[i].event = jobs[i].event
      /\ jobs'[j].status = status
  BY UpdateStatus DEF IInv, TypeOK
<1> DEFINE e == [Entry(jobs[j]) EXCEPT !.phase = PhaseOf(status)]
<1>2. e = [event |-> jobs[j].event, phase |-> PhaseOf(status)]
  BY DEF Entry
<1>3. Ledger[j] = Entry(jobs[j]) /\ DOMAIN Ledger = DOMAIN jobs
  BY LedgerEntries
<1>4. [Ledger EXCEPT ![j].phase = PhaseOf(status)] = [Ledger EXCEPT ![j] = e]
  BY <1>3
<1> HIDE DEF e
<1>5. Ledger' = [i \in DOMAIN jobs |-> IF i = j THEN e ELSE Ledger[i]]
  BY <1>1, <1>2, LedgerEntries DEF Ledger
<1>6. [Ledger EXCEPT ![j] = e]
          = [i \in DOMAIN jobs |-> IF i = j THEN e ELSE Ledger[i]]
  BY <1>3
<1>. QED BY <1>4, <1>5, <1>6

LEMMA AppendAsFunction ==
    ASSUME NEW S, NEW s \in Seq(S), NEW e \in S
    PROVE  Append(s, e) = [j \in 1..(Len(s) + 1) |->
                               IF j = Len(s) + 1 THEN e ELSE s[j]]
<1>1. /\ Append(s, e) \in Seq(S) /\ Len(Append(s, e)) = Len(s) + 1
      /\ \A j \in 1..Len(s) : Append(s, e)[j] = s[j]
      /\ Append(s, e)[Len(s) + 1] = e
  OBVIOUS
<1>2. /\ Append(s, e) = [j \in 1..(Len(s) + 1) |-> Append(s, e)[j]]
      /\ Len(s) \in Nat
  BY <1>1, LenProperties
<1>3. \A j \in 1..(Len(s) + 1) :
          Append(s, e)[j] = IF j = Len(s) + 1 THEN e ELSE s[j]
  BY <1>1, <1>2
<1>. QED BY <1>2, <1>3

LEMMA DispatchMaps ==
    ASSUME IInv, Dispatch
    PROVE  Promise!Next \/ UNCHANGED <<Ledger, Reported>>
<1>1. /\ Msg \in Message /\ listener.reply \in Chat /\ mail[Msg] \in Chat
      /\ jobs \in Seq(Row) /\ UNCHANGED results
  BY DEF IInv, TypeOK, EventsWereSent, Dispatch, Listener, Msg, workerVars
<1>2. PICK m \in Message : m = Msg
  BY <1>1
<1>4. PICK now \in Instant : Enqueue(m, mail[m], listener.reply, now)
  BY <1>2 DEF Dispatch
<1> DEFINE row == NewRow(m, mail[m], listener.reply, now)
<1>3. row \in Row /\ Entry(row) = [event |-> m, phase |-> "accepted"]
  BY <1>1, <1>2, Phases DEF NewRow, Row, Active, Entry
<1>5. UNCHANGED Reported
  BY <1>1 DEF Reported
<1>6. CASE UNCHANGED jobs
  BY <1>5, <1>6, SameLedger
<1>7. CASE ~AlreadyQueued(m) /\ jobs' = Append(jobs, row)
  <2> HIDE DEF row
  <2>1. /\ DOMAIN jobs = 1..Len(jobs) /\ Len(jobs) \in Nat
        /\ DOMAIN jobs' = 1..(Len(jobs) + 1)
        /\ \A j \in 1..Len(jobs) : jobs'[j] = jobs[j]
        /\ jobs'[Len(jobs) + 1] = row
    BY <1>1, <1>3, <1>7
  <2>2. /\ DOMAIN Ledger = 1..Len(jobs)
        /\ Ledger = [j \in 1..Len(jobs) |-> Entry(jobs[j])]
    BY <2>1 DEF Ledger, Entry
  <2>3. Ledger' = [j \in 1..(Len(jobs) + 1) |-> Entry(jobs'[j])]
    BY <2>1 DEF Ledger, Entry
  <2>4. Ledger' = [j \in 1..(Len(jobs) + 1) |->
                       IF j = Len(jobs) + 1 THEN Entry(row) ELSE Ledger[j]]
    BY <2>1, <2>2, <2>3
  <2> DEFINE Es == {Entry(jobs[j]) : j \in DOMAIN jobs} \union {Entry(row)}
  <2>5. Ledger \in Seq(Es) /\ Len(Ledger) = Len(jobs) /\ Entry(row) \in Es
    BY <2>1, <2>2
  <2> HIDE DEF Es
  <2>6. Append(Ledger, Entry(row))
            = [j \in 1..(Len(jobs) + 1) |->
                   IF j = Len(jobs) + 1 THEN Entry(row) ELSE Ledger[j]]
    BY <2>5, AppendAsFunction
  <2>7. m \in Anonymous \/ \A j \in DOMAIN Ledger : Ledger[j].event # m
    BY <1>7, LedgerEntries DEF AlreadyQueued
  <2>8. Promise!Accept(m)
    BY <1>3, <1>5, <2>4, <2>6, <2>7 DEF Promise!Accept
  <2>. QED BY <2>8 DEF Promise!Next
<1>. QED BY <1>4, <1>6, <1>7 DEF Enqueue

\* Writing the end of a job that is claimed or running settles its entry.
LEMMA FinishMaps ==
    ASSUME IInv, NEW w \in Worker, NEW verdict \in Terminal,
           \/ worker[w].at = "outcome"
           \/ worker[w].at = "abandon" /\ verdict = "failed",
           MarkFinished(worker[w].job, verdict), UNCHANGED results
    PROVE  Promise!Next
<1>1. PICK j \in DOMAIN jobs : j = worker[w].job
  BY DEF IInv, HandsMatchQueue
<1>2. \/ jobs[j].status = "running"
      \/ jobs[j].status = "claimed" /\ verdict = "failed"
  BY <1>1 DEF IInv, HandsMatchQueue
<1>3. Ledger' = [Ledger EXCEPT ![j].phase = verdict] /\ UNCHANGED Reported
  <2>1. jobs' = [jobs EXCEPT ![j].status = verdict]
    BY <1>1 DEF MarkFinished
  <2>2. PhaseOf(verdict) = verdict
    BY Phases DEF Terminal
  <2>. QED BY <2>1, <2>2, WritesPhase DEF Reported
<1>4. j \in DOMAIN Ledger /\ Ledger[j].phase = PhaseOf(jobs[j].status)
  BY LedgerEntries
<1>5. Promise!Settle(j, verdict)
  BY <1>2, <1>3, <1>4, Phases DEF Promise!Settle
<1>. QED BY <1>4, <1>5 DEF Promise!Next, Promise!Verdict, Terminal

LEMMA PostMaps ==
    ASSUME IInv, NEW w \in Worker, Reply(w) \/ Mirror(w)
    PROVE  Promise!Next \/ UNCHANGED <<Ledger, Reported>>
<1>1. PICK j \in DOMAIN jobs : j = worker[w].job
  <2>1. worker[w].at \in {"reply", "mirror"}
    BY DEF Reply, Mirror
  <2>. QED BY <2>1 DEF IInv, HandsMatchQueue
<1>2. jobs[j].status = worker[w].verdict /\ worker[w].verdict \in Terminal
  <2>1. worker[w].at \in {"reply", "mirror"}
    BY DEF Reply, Mirror
  <2>2. worker[w] \in WorkerState
    BY DEF IInv, TypeOK
  <2>. QED BY <1>1, <2>1, <2>2 DEF IInv, HandsMatchQueue, WorkerState
<1>3. UNCHANGED jobs
  BY DEF Reply, Mirror
<1>4. UNCHANGED Ledger
  BY <1>3, SameLedger
<1>5. UNCHANGED results
      \/ \E chat, how : results' = results \union
             {[job |-> j, chat |-> chat, verdict |-> worker[w].verdict,
               how |-> how]}
  BY <1>1 DEF Reply, Mirror, Post
<1>6. CASE UNCHANGED results
  BY <1>4, <1>6 DEF Reported
<1>7. ASSUME NEW chat, NEW how,
             results' = results \union
                 {[job |-> j, chat |-> chat, verdict |-> worker[w].verdict,
                   how |-> how]}
      PROVE  Promise!Next
  <2> DEFINE r == [job |-> j, chat |-> chat, verdict |-> worker[w].verdict,
                   how |-> how]
  <2>1. r.job = j /\ r.verdict = worker[w].verdict
    OBVIOUS
  <2>2. results' = results \union {r}
    BY <1>7
  <2> HIDE DEF r
  <2>3. Reported' = Reported \union
                        {[job |-> j, verdict |-> worker[w].verdict]}
    BY <2>1, <2>2 DEF Reported
  <2>4. /\ j \in DOMAIN Ledger /\ Ledger[j].phase = worker[w].verdict
        /\ worker[w].verdict \in Promise!Verdict
    BY <1>2, LedgerEntries, Phases DEF Terminal, Promise!Verdict
  <2>5. Promise!Report(j)
    BY <1>4, <2>3, <2>4 DEF Promise!Report
  <2>. QED BY <2>4, <2>5 DEF Promise!Next
<1>. QED BY <1>5, <1>6, <1>7

LEMMA StepMaps ==
    ASSUME IInv, [Next]_vars
    PROVE  Promise!Next \/ UNCHANGED <<Ledger, Reported>>
<1>1. CASE UNCHANGED <<jobs, results>>
  BY <1>1, SameLedger DEF Reported
<1>2. ASSUME NEW w \in Worker, Claim(w)
      PROVE  UNCHANGED <<Ledger, Reported>>
  <2>1. PICK j \in DOMAIN jobs : ClaimNext(w, j)
    BY <1>2 DEF Claim
  <2>2. jobs[j].status = "queued" /\ jobs \in Seq(Row)
    BY <2>1 DEF ClaimNext, OldestQueued, IInv, TypeOK
  <2>3. /\ DOMAIN jobs' = DOMAIN jobs /\ jobs'[j].status = "claimed"
        /\ \A i \in DOMAIN jobs : /\ i # j => jobs'[i] = jobs[i]
                                  /\ jobs'[i].event = jobs[i].event
    BY <2>1, <2>2, ClaimRow
  <2>4. UNCHANGED Ledger
    BY <2>2, <2>3, SameLedger, Phases
  <2>. QED BY <1>2, <2>4 DEF Claim, Reported
<1>3. ASSUME NEW w \in Worker, StartRun(w), jobs' # jobs
      PROVE  Promise!Next
  <2>1. /\ MarkRunning(worker[w].job) /\ UNCHANGED results
        /\ worker[w].at = "claimed"
    BY <1>3 DEF StartRun
  <2>2. PICK j \in DOMAIN jobs : j = worker[w].job
    BY <2>1 DEF IInv, HandsMatchQueue
  <2>3. jobs[j].status = "claimed"
    BY <2>1, <2>2 DEF IInv, HandsMatchQueue
  <2>4. Ledger' = [Ledger EXCEPT ![j].phase = "started"] /\ UNCHANGED Reported
    <3>1. jobs' = [jobs EXCEPT ![j].status = "running"]
      BY <2>1, <2>2 DEF MarkRunning
    <3>2. "running" \in Active \union Terminal
      BY DEF Active
    <3>. QED BY <2>1, <3>1, <3>2, WritesPhase, Phases DEF Reported
  <2>5. j \in DOMAIN Ledger /\ Ledger[j].phase = "accepted"
    BY <2>3, LedgerEntries, Phases
  <2>6. Promise!Begin(j)
    BY <2>4, <2>5 DEF Promise!Begin
  <2>. QED BY <2>5, <2>6 DEF Promise!Next
<1>4. ASSUME NEW w \in Worker, RecordOutcome(w) \/ Abandon(w), jobs' # jobs
      PROVE  Promise!Next
  <2>1. worker[w].verdict \in Terminal /\ "failed" \in Terminal
    BY DEF IInv, TypeOK, WorkerState, Terminal
  <2>2. CASE RecordOutcome(w)
    BY <1>4, <2>1, <2>2, FinishMaps DEF RecordOutcome
  <2>3. CASE Abandon(w)
    BY <1>4, <2>1, <2>3, FinishMaps DEF Abandon
  <2>. QED BY <1>4, <2>2, <2>3
<1>5. ASSUME NEW w \in Worker,
             WorkerStart(w) \/ WorkerStep(w) \/ LeavesIdle(w) \/ WorkerKill(w)
      PROVE  Promise!Next \/ UNCHANGED <<Ledger, Reported>>
  <2>1. CASE \/ WorkerStart(w) \/ LeavesIdle(w) \/ WorkerKill(w)
             \/ \E verdict \in Terminal : AgentReturns(w, verdict)
    BY <1>1, <2>1 DEF WorkerStart, LeavesIdle, WorkerKill, AgentReturns
  <2>2. CASE StartRun(w) \/ RecordOutcome(w) \/ Abandon(w)
    <3>1. UNCHANGED results
      BY <2>2 DEF StartRun, RecordOutcome, Abandon
    <3>. QED BY <1>1, <1>3, <1>4, <2>2, <3>1
  <2>. QED BY <1>2, <1>5, <2>1, <2>2, PostMaps DEF WorkerStep
<1>6. ASSUME NEW m \in Message, NEW g \in Chat, Send(m, g)
      PROVE  UNCHANGED <<jobs, results>>
  BY <1>6 DEF Send, workerVars
<1>7. ASSUME NEW m \in Message, NEW initial \in BOOLEAN, Deliver(m, initial)
      PROVE  UNCHANGED <<jobs, results>>
  BY <1>7 DEF Deliver, workerVars
<1>8. CASE ListenerStep \/ ListenerKill \/ ListenerStart
  <2>1. Dispatch \/ UNCHANGED <<jobs, results>>
    BY <1>8
       DEF ListenerStep, ListenerKill, ListenerStart, AnswerHistory, TurnAway,
           Admit, OpenWorkChat, NoWorkChat, DispatchFails, workerVars
  <2>. QED BY <1>1, <2>1, DispatchMaps
<1>9. CASE UNCHANGED vars
  BY <1>1, <1>9 DEF vars
<1>. QED BY <1>1, <1>5, <1>6, <1>7, <1>8, <1>9 DEF Next

\* The detailed pipeline implements the promise to the phone: accepted once,
\* started at most once, settled once, and reported as it was settled.
THEOREM Implements == Spec => KeepsPromise
<1>1. Init => Promise!Init
  BY InitMaps
<1>2. IInv /\ [Next]_vars => [Promise!Next]_(Promise!pvars)
  BY StepMaps DEF Promise!pvars
<1>. QED BY <1>1, <1>2, Invariant, PTL DEF Spec, KeepsPromise, Promise!Spec
=============================================================================
