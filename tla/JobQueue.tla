------------------------------ MODULE JobQueue ------------------------------
(***************************************************************************)
(* The SQLite job queue between the transport and the worker               *)
(* (src/src/queue.rs).  The table is a sequence of rows in the order they  *)
(* were inserted: row number j stands for the "q-..." id of the job.       *)
(* Every operation is one SQLite statement or one transaction, so each is  *)
(* a single step; that a statement may fail is decided by the callers.     *)
(***************************************************************************)
EXTENDS Naturals, Sequences

CONSTANTS Message,     \* phone messages that route to an agent run
          Anonymous,   \* those that reach the listener without a message id
          Chat,        \* White Noise groups
          Worker,      \* worker processes
          NoOne,       \* claimed_by IS NULL
          Instant      \* readings of the wall clock

ASSUME QueueAssumption ==
    /\ Anonymous \subseteq Message
    /\ NoOne \notin Worker
    /\ Instant \subseteq [second: Nat, digits: Seq(0..9)]

VARIABLE jobs

Active   == {"queued", "claimed", "running"}
Terminal == {"succeeded", "failed"}

Row == [event: Message, source: Chat, reply: Chat,
        status: Active \union Terminal,
        claimedBy: Worker \union {NoOne},
        created: Instant]

NewRow(m, source, reply, now) ==
    [event |-> m, source |-> source, reply |-> reply,
     status |-> "queued", claimedBy |-> NoOne, created |-> now]

\* created_at is RFC 3339 text, "...:05.25Z": the fraction of the second
\* without its closing zeros, and no point when it is zero.  As text, "Z"
\* comes after the point and after every digit.
DigitOrZ(digits, n) == IF n \in DOMAIN digits THEN digits[n] ELSE 10

SortsBefore(a, b) ==
    \/ a.second < b.second
    \/ /\ a.second = b.second
       /\ \E n \in DOMAIN a.digits :
              /\ DigitOrZ(a.digits, n) < DigitOrZ(b.digits, n)
              /\ \A i \in 1..(n - 1) :
                     DigitOrZ(a.digits, i) = DigitOrZ(b.digits, i)

\* The UNIQUE source_event_id: "<group>:<message id>", or a fresh random
\* text for a message without an id, which therefore never collides.
AlreadyQueued(m) == /\ m \notin Anonymous
                    /\ \E j \in DOMAIN jobs : jobs[j].event = m

\* Mutant: a plain INSERT, without OR IGNORE and UNIQUE.
EnqueueAlways(m, source, reply, now) ==
    jobs' = Append(jobs, NewRow(m, source, reply, now))

Enqueue(m, source, reply, now) ==
    jobs' = IF AlreadyQueued(m) THEN jobs
                                ELSE Append(jobs, NewRow(m, source, reply, now))

\* Mutants: the newest job first; a job already claimed taken again.
NewestQueued(j) ==
    /\ jobs[j].status = "queued"
    /\ \A i \in DOMAIN jobs : jobs[i].status = "queued" =>
           ~SortsBefore(jobs[j].created, jobs[i].created)

OldestUnstarted(j) ==
    /\ jobs[j].status \in {"queued", "claimed"}
    /\ \A i \in DOMAIN jobs : jobs[i].status \in {"queued", "claimed"} =>
           ~SortsBefore(jobs[i].created, jobs[j].created)

\* SELECT ... WHERE status = 'queued' ORDER BY created_at ASC LIMIT 1: any of
\* those with the least text.
OldestQueued(j) ==
    /\ jobs[j].status = "queued"
    /\ \A i \in DOMAIN jobs : jobs[i].status = "queued" =>
           ~SortsBefore(jobs[i].created, jobs[j].created)

ClaimNext(w, j) ==
    /\ OldestQueued(j)
    /\ jobs' = [jobs EXCEPT ![j] =
                    [@ EXCEPT !.status = "claimed", !.claimedBy = w]]

\* No guard on the status or on claimed_by: WHERE id = ?
MarkRunning(j) == jobs' = [jobs EXCEPT ![j].status = "running"]

MarkFinished(j, status) == jobs' = [jobs EXCEPT ![j].status = status]

\* Mutant: only what a worker has begun counts.
RunningForReplyGroup(g) ==
    {j \in DOMAIN jobs : jobs[j].reply = g /\ jobs[j].status = "running"}

ActiveForReplyGroup(g) ==
    {j \in DOMAIN jobs : jobs[j].reply = g /\ jobs[j].status \in Active}
=============================================================================
