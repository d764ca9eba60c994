------------------------------ MODULE Replies ------------------------------
(* How a job talks to the phone: progress events of its agent, cut down by    *)
(* the display mode and the rate limiter, then the answer, its mirror in the  *)
(* chat that asked, and the media the answer names. Three threads send: the   *)
(* job's own, the reader of the agent's output and the silence heartbeat.     *)
(* Each reply is cut into parts, and a part that fails starts the reply again *)
(* (progress.rs, wn.rs, and the sending functions of main.rs, app.rs and      *)
(* runner.rs).                                                                *)
EXTENDS Integers, SequencesExt

CONSTANTS
    Text,         \* answers, formatted: sequences of line lengths
    CharLimit,    \* max_message_chars, at least 200 in the code
    DisplayMode,  \* progress_mode: a subset of DisplayModes
    Tries,        \* ATTEMPTS: how often a reply is sent
    Launches,     \* startup_retry_attempts + 1
    Media,        \* files an answer may name, at most 4 in the code
    MaxEvents,    \* bound: events of the agent
    MaxSlips      \* bound: failures

DisplayModes == {"quiet", "normal", "verbose"}
Chats == {"source", "work"}
Threads == {"job", "reader", "heartbeat"}
ReaderEvents == {"tool", "approval", "step", "milestone", "error"}
Events == ReaderEvents \cup {"started", "still running", "retrying", "spawn failed"}

ASSUME ReplyAssumption ==
    /\ Text \subseteq Seq(Nat) \ {<<>>} /\ CharLimit \in Nat \ {0}
    /\ DisplayMode \subseteq DisplayModes
    /\ Tries \in Nat \ {0} /\ Launches \in Nat \ {0} /\ Media \in Nat
    /\ MaxEvents \in Nat /\ MaxSlips \in Nat

(*--------------------------------- Parts -----------------------------------*)

Total(lengths) == FoldLeft(LAMBDA sum, n : sum + n, 0, lengths)
(* Characters of a text: its lines and the line ends between them.            *)
Size(text) == Total(text) + Len(text) - 1

(* chunk_text, on line lengths: a line that does not fit starts a new part, a *)
(* line longer than a part fills parts of its own; every line keeps its line  *)
(* end. A part so may hold one character more than the limit.                 *)
WithLine(cut, line) ==
    LET flushed == IF cut.current > 0 /\ cut.current + line + 1 > CharLimit
                   THEN [parts |-> Append(cut.parts, cut.current), current |-> 0]
                   ELSE cut
        full == IF line > CharLimit THEN (line - 1) \div CharLimit ELSE 0
    IN  [parts |-> flushed.parts \o [i \in 1..full |-> CharLimit],
         current |-> flushed.current + line - full * CharLimit + 1]

Cut(text) ==
    IF Size(text) <= CharLimit THEN <<Size(text)>>
    ELSE LET cut == FoldLeft(WithLine, [parts |-> <<>>, current |-> 0], text)
         IN  Append(cut.parts, cut.current - 1)         \* the last line end is trimmed

Digits(n) == 1 + Cardinality({k \in 1..9 : 10^k <= n})    \* of n < 10^10
(* What send_reply_to posts of the k-th part: each of several parts begins    *)
(* with "Part k/n" and an empty line.                                         *)
Posted(parts, k) ==
    parts[k] + IF Len(parts) = 1 THEN 0 ELSE 8 + Digits(k) + Digits(Len(parts))

(*--------------------------- What is worth a reply -------------------------*)

(* should_render_progress                                                     *)
Rendered(mode, event) ==
    \/ event \in {"approval", "error", "spawn failed", "still running", "retrying"}
    \/ mode = "normal" /\ event \in {"started", "milestone"}
    \/ mode = "verbose"

(* ProgressRateLimiter::should_send, when "due" tells that the interval since *)
(* the last progress reply has passed.                                        *)
Passes(event, due) == event \in {"started", "error", "spawn failed"} \/ due

(*---------------------------------- State ----------------------------------*)

VARIABLES
    mode,       \* progress_mode
    stage,      \* where the job's thread is
    launch,     \* launch attempts made
    medium,       \* media files looked at
    succeeded,  \* the job succeeded
    readerOn,   \* the reader thread is on
    beating,    \* the heartbeat thread is on
    intervalPassed,
    lock,       \* who holds the progress callback's mutex
    replies,    \* every reply: [of, chat, parts, outcome]
    sending,    \* what each thread sends: [reply, try, part], reply 0 for none
    posts,      \* what the chats show: replies and their parts, in order
    wire,       \* the daemon: "up" or "broken"
    events,     \* events so far
    slips,      \* failures so far
    dropped,    \* history: rendered events the limiter took out
    pollFailed  \* history: waiting for the agent failed

jobVars == <<mode, stage, launch, medium, succeeded>>
progressVars == <<readerOn, beating, intervalPassed, lock, dropped>>
sendVars == <<replies, sending, posts, wire>>
replyVars == <<jobVars, progressVars, sendVars, events, slips, pollFailed>>

Nothing == [reply |-> 0, try |-> 0, part |-> 0]
ReplyInit ==
    /\ mode \in DisplayMode
    /\ stage = "start" /\ launch = 0 /\ medium = 0 /\ succeeded = FALSE
    /\ readerOn = FALSE /\ beating = FALSE /\ intervalPassed = TRUE
    /\ lock = "free" /\ dropped = {} /\ pollFailed = FALSE
    /\ replies = <<>> /\ sending = [t \in Threads |-> Nothing]
    /\ posts = [c \in Chats |-> <<>>] /\ wire = "up"
    /\ events = 0 /\ slips = 0

Free(t) == sending[t].reply = 0
Slip == slips < MaxSlips /\ slips' = slips + 1
MoveOn(to) == stage' = to

(*-------------------------------- Sending ----------------------------------*)

(* send_reply_recorded journals the reply as queued and begins.               *)
StartsReply(t, of, chat, text) ==
    /\ replies' = Append(replies, [of |-> of, chat |-> chat, text |-> text,
                                   parts |-> Cut(text), outcome |-> "queued"])
    /\ sending' = [sending EXCEPT ![t] = [reply |-> Len(replies) + 1, try |-> 1, part |-> 1]]
    /\ UNCHANGED <<posts, wire>>

Shown(t) ==
    LET s == sending[t]
        r == replies[s.reply]
    IN  [posts EXCEPT ![r.chat] = Append(@,
            [reply |-> s.reply, part |-> s.part,
             size |-> Posted(r.parts, s.part)])]

(* The reply is over: a progress reply gives the callback's mutex back.       *)
EndsReply(t, outcome) ==
    /\ replies' = [replies EXCEPT ![sending[t].reply].outcome = outcome]
    /\ sending' = [sending EXCEPT ![t] = Nothing]
    /\ lock' = IF lock = t THEN "free" ELSE lock

PartSent(t) ==
    /\ ~Free(t) /\ wire = "up"
    /\ posts' = Shown(t)
    /\ IF sending[t].part = Len(replies[sending[t].reply].parts)
       THEN EndsReply(t, "sent")
       ELSE /\ sending' = [sending EXCEPT ![t].part = @ + 1]
            /\ UNCHANGED <<replies, lock>>
    /\ UNCHANGED <<jobVars, readerOn, beating, intervalPassed, dropped, wire, events,
                   slips, pollFailed>>

(* Mutant of TriesAgain: it goes on with the part that failed.                *)
TriesRest(t) ==
    /\ sending' = [sending EXCEPT ![t].try = @ + 1]
    /\ UNCHANGED <<replies, lock>>

(* The next attempt begins with the first part.                               *)
TriesAgain(t) ==
    /\ sending' = [sending EXCEPT ![t].try = @ + 1, ![t].part = 1]
    /\ UNCHANGED <<replies, lock>>

(* A part fails, though the chat may show it. Behind a broken connection it   *)
(* is not posted, and send_to restarts the daemon, which may fail.            *)
PartFails(t) ==
    /\ ~Free(t)
    /\ \/ wire = "up" /\ Slip /\ posts' \in {posts, Shown(t)} /\ UNCHANGED wire
       \/ wire = "broken" /\ wire' = "up" /\ UNCHANGED <<posts, slips>>
       \/ wire = "broken" /\ Slip /\ UNCHANGED <<posts, wire>>
    /\ IF sending[t].try < Tries THEN TriesAgain(t) ELSE EndsReply(t, "failed")
    /\ UNCHANGED <<jobVars, readerOn, beating, intervalPassed, dropped, events, pollFailed>>

(*------------------------------- Progress ----------------------------------*)

(* The progress callback: one event at a time, the mutex held while the reply *)
(* is sent. An Error, Started or final event always passes.                   *)
Emits(t, event) ==
    /\ lock = "free"
    /\ IF Rendered(mode, event) /\ Passes(event, intervalPassed)
       THEN /\ StartsReply(t, event, "work", <<1>>)
            /\ lock' = t /\ intervalPassed' = FALSE
            /\ UNCHANGED dropped
       ELSE /\ dropped' = IF Rendered(mode, event) THEN dropped \cup {event} ELSE dropped
            /\ UNCHANGED <<lock, intervalPassed, sendVars>>

(* The reader parses a line of the agent's output into an event.              *)
ReaderEvent(event) ==
    /\ readerOn /\ Free("reader") /\ events < MaxEvents
    /\ events' = events + 1
    /\ Emits("reader", event)
    /\ UNCHANGED <<jobVars, readerOn, beating, slips, pollFailed>>

Heartbeat ==
    /\ beating /\ Free("heartbeat") /\ events < MaxEvents
    /\ events' = events + 1
    /\ Emits("heartbeat", "still running")
    /\ UNCHANGED <<jobVars, readerOn, beating, slips, pollFailed>>

IntervalPasses ==
    /\ ~intervalPassed /\ intervalPassed' = TRUE
    /\ UNCHANGED <<jobVars, readerOn, beating, lock, dropped, sendVars, events, slips, pollFailed>>

(*--------------------------- The thread of the job -------------------------*)

JobThread == Free("job") /\ UNCHANGED <<mode, events>>

Starts ==
    /\ JobThread /\ stage = "start"
    /\ Emits("job", "started") /\ MoveOn("spawn")
    /\ UNCHANGED <<launch, medium, succeeded, readerOn, beating, slips, pollFailed>>

Spawns ==
    /\ JobThread /\ stage = "spawn"
    /\ launch' = launch + 1 /\ readerOn' = TRUE /\ beating' = TRUE
    /\ MoveOn("running")
    /\ UNCHANGED <<medium, succeeded, intervalPassed, lock, dropped, sendVars, slips, pollFailed>>

SpawnFails ==
    /\ JobThread /\ stage = "spawn" /\ Slip
    /\ Emits("job", "spawn failed") /\ MoveOn("answer")
    /\ succeeded' = FALSE
    /\ UNCHANGED <<launch, medium, readerOn, beating, pollFailed>>

(* The agent exits or is ended for its silence; then the heartbeat is stopped *)
(* and joined.                                                                *)
AgentEnds ==
    /\ JobThread /\ stage = "running"
    /\ MoveOn("heartbeat")
    /\ UNCHANGED <<launch, medium, succeeded, progressVars, sendVars, slips, pollFailed>>

(* Polling the agent fails: the heartbeat is joined, the reader is not, and   *)
(* the agent goes on.                                                         *)
PollFails ==
    /\ JobThread /\ stage = "running" /\ Slip
    /\ MoveOn("heartbeat") /\ pollFailed' = TRUE
    /\ UNCHANGED <<launch, medium, succeeded, progressVars, sendVars>>

HeartbeatJoined ==
    /\ JobThread /\ stage = "heartbeat" /\ Free("heartbeat")
    /\ beating' = FALSE
    /\ MoveOn(IF pollFailed THEN "answer" ELSE "reader")
    /\ UNCHANGED <<launch, medium, succeeded, readerOn, intervalPassed, lock, dropped,
                   sendVars, slips, pollFailed>>

(* A launch that stayed silent is tried again, and the phone is told.         *)
Retries ==
    /\ stage = "reader" /\ launch < Launches
    /\ Emits("job", "retrying") /\ MoveOn("spawn")
    /\ UNCHANGED <<launch, medium, succeeded, beating, slips, pollFailed>>

Finishes(success) ==
    /\ stage = "reader" /\ MoveOn("answer")
    /\ succeeded' = success
    /\ UNCHANGED <<launch, medium, beating, intervalPassed, lock, dropped, sendVars, slips,
                   pollFailed>>

(* Mutant of ReaderJoined: the reader is left to itself.                      *)
ReaderLeft ==
    /\ JobThread /\ readerOn' \in {readerOn, FALSE}
    /\ Retries \/ \E success \in BOOLEAN : Finishes(success)

(* join_log_thread: the output is read to its end, and every event of it was  *)
(* handled.                                                                   *)
ReaderJoined ==
    /\ JobThread /\ Free("reader")
    /\ readerOn' = FALSE
    /\ Retries \/ \E success \in BOOLEAN : Finishes(success)

AnswerSent == \E i \in DOMAIN replies : replies[i].of = "answer" /\ replies[i].outcome = "sent"

(* run_inline_job: the answer to the work chat, then, when another chat asked,*)
(* a copy to that one, whose heading tells whether the answer arrived.        *)
SendsAnswer(text) ==
    /\ JobThread /\ stage = "answer"
    /\ StartsReply("job", "answer", "work", text) /\ MoveOn("mirror")
    /\ UNCHANGED <<launch, medium, succeeded, progressVars, slips, pollFailed>>

Mirrors(elsewhere) ==
    LET answer == replies[CHOOSE i \in DOMAIN replies : replies[i].of = "answer"]
        heading == IF AnswerSent THEN "mirror of sent" ELSE "mirror of failed"
    IN  /\ JobThread /\ stage = "mirror"
        /\ IF elsewhere THEN StartsReply("job", heading, "source", <<1, 0>> \o answer.text)
           ELSE UNCHANGED sendVars
        /\ MoveOn(IF succeeded THEN "media" ELSE "done")
        /\ UNCHANGED <<launch, medium, succeeded, progressVars, slips, pollFailed>>

(* upload_referenced_job_media: a file that cannot be sent becomes a warning. *)
Uploads ==
    /\ JobThread /\ stage = "media"
    /\ \/ medium < Media /\ medium' = medium + 1 /\ UNCHANGED <<stage, sendVars, slips>>
       \/ /\ medium < Media /\ Slip /\ medium' = medium + 1
          /\ StartsReply("job", "warning", "work", <<1>>) /\ UNCHANGED stage
       \/ MoveOn("done") /\ UNCHANGED <<medium, sendVars, slips>>
    /\ UNCHANGED <<launch, succeeded, progressVars, pollFailed>>

WireBreaks ==
    /\ wire = "up" /\ Slip /\ wire' = "broken"
    /\ UNCHANGED <<jobVars, progressVars, replies, sending, posts, events, pollFailed>>

ReplyNext ==
    \/ \E t \in Threads : PartSent(t) \/ PartFails(t)
    \/ \E event \in ReaderEvents : ReaderEvent(event)
    \/ Heartbeat \/ IntervalPasses
    \/ Starts \/ Spawns \/ SpawnFails \/ AgentEnds \/ PollFails
    \/ HeartbeatJoined \/ ReaderJoined
    \/ (\E text \in Text : SendsAnswer(text))
    \/ (\E elsewhere \in BOOLEAN : Mirrors(elsewhere))
    \/ Uploads
    \/ WireBreaks

ReplySpec == ReplyInit /\ [][ReplyNext]_replyVars

(*------------------------------- Properties --------------------------------*)

(* From the f-th post of its chat on, exactly the first n parts of a reply    *)
(* are shown of it: each once, in their order, under its heading and whole.   *)
StandsFrom(i, n, f) ==
    LET shown == posts[replies[i].chat]
        its == {k \in DOMAIN shown : k >= f /\ shown[k].reply = i}
    IN  /\ {shown[k].part : k \in its} = 1..n
        /\ \A j, k \in its : j < k => shown[j].part < shown[k].part
        /\ \A k \in its : shown[k].size = Posted(replies[i].parts, shown[k].part)

(* A reply the journal calls sent stands in its chat whole: whatever failed   *)
(* and was sent again before, the last that is shown of it is all of its      *)
(* parts in order, each under its heading; they add up to its text, and none  *)
(* is longer than a message and the line end it may close with. (What is      *)
(* shown of one of several parts is longer: the heading comes on top.)        *)
SentIsWhole ==
    \A i \in DOMAIN replies : replies[i].outcome = "sent" =>
        LET r == replies[i]
        IN  /\ \E f \in DOMAIN posts[r.chat] : StandsFrom(i, Len(r.parts), f)
            /\ Total(r.parts) = Size(r.text)
            /\ \A k \in DOMAIN r.parts : r.parts[k] <= CharLimit + 1

(* The answer ends the job's progress: no progress reply is shown after it,   *)
(* whatever thread sent it and however often it was tried, unless waiting for *)
(* the agent failed.                                                          *)
AnswerComesLast ==
    pollFailed \/ \A a, b \in DOMAIN posts["work"] :
        LET kind(k) == replies[posts["work"][k].reply].of
        IN  kind(a) = "answer" /\ kind(b) \in Events => b < a

(* Quiet mode still sends approvals, retry notices and quiet-job pings.       *)
ApprovalsAreSent == dropped \cap {"approval", "retrying"} = {}
=============================================================================
