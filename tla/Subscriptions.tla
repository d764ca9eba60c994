---------------------------- MODULE Subscriptions ----------------------------
(***************************************************************************)
(* How messages reach the listener: one `wn messages subscribe` process    *)
(* per chat, the registry of their states (src/src/subscriptions.rs), the  *)
(* watchdog's polls that reconcile what the streams missed, restarts, and  *)
(* the White Noise daemon behind them all (src/src/main.rs listen,         *)
(* spawn_group_subscription, spawn_group_reconciliation,                   *)
(* restart_wn_daemon_rate_limited).  Every thread talks to the listener by *)
(* one channel.  What the listener does with a message it has journaled is *)
(* CommandPipeline's Deliver; the messages of a chat are numbered here.    *)
(***************************************************************************)
EXTENDS Naturals, Sequences

CONSTANTS Chat,
          NoChat,
          PollLimit,     \* SUBSCRIPTION_RECONCILE_LIMIT
          ReplayLimit,   \* subscribe_limit: messages a new stream repeats
          Faults,        \* what may go wrong in an instance
          MaxMessages,   \* bound: messages sent in each chat
          MaxFaults,     \* bound: faults that strike
          Room,          \* bound: polls of a chat at which the watchdog pauses
          RepeatedExits  \* restart_count at which exits restart the daemon: 3

ASSUME SubscriptionsAssumption ==
    /\ NoChat \notin Chat
    /\ PollLimit \in Nat \ {0} /\ ReplayLimit \in Nat
    /\ MaxMessages \in Nat /\ MaxFaults \in Nat /\ Room \in Nat
    /\ RepeatedExits \in Nat
    /\ Faults \subseteq {"exit",   \* a stream's process ends
                         "deaf",   \* a stream lives on without output
                         "error",  \* a stream reports an error
                         "wait",   \* waiting for a process fails
                         "spawn",  \* wn cannot be started
                         "poll",   \* a poll fails
                         "daemon"} \* the daemon dies, or does not restart

VARIABLES sent,     \* how many messages each chat has
          procs,    \* its subscription processes, oldest first
          rec,      \* the registry
          polls,    \* polls under way, each with what was sent at its start
          timers,   \* restarts scheduled for each chat
          chan,     \* the items of the listener's channel
          seen,     \* the messages journaled
          daemon,   \* the daemon runs
          cooled,   \* its last restart is 30 s ago
          faults,   \* history: how many faults have struck
          base,     \* history: the last message of the first poll with any
          unwatched \* history: waiting for a process of the chat failed

vars == <<sent, procs, rec, polls, timers, chan, seen, daemon,
          cooled, faults, base, unwatched>>

Number == 0..MaxMessages

\* next: the message a live process would print next.
Process == [at: {"live", "deaf", "dead"}, next: 1..MaxMessages + 1]

\* exits is restart_count, not counted past RepeatedExits; 0 is no message.
\* How long ago things happened (mark_json, last_poll_at) is left open: any
\* time may pass between two steps.
Record == [state: {"running", "exited", "restarting", "failed"},
           exits: 0..RepeatedExits, polling: BOOLEAN, missed: BOOLEAN,
           stale: BOOLEAN,
           polled: Number, streamed: Number, journaled: Number]

\* n: a message's number; bad: an exit that failed, or an error text that
\* tells of a wedged daemon (is_recoverable_wn_daemon_failure).
Item == [kind: {"event", "recovered", "error", "reconcile", "polled",
                "pollError", "restart", "exited"},
         chat: Chat, n: Number, bad: BOOLEAN]
        \union [kind: {"discovered", "discoveryError"},
                chat: {NoChat}, n: Number, bad: BOOLEAN]

ItemOf(kind, c, n, bad) == [kind |-> kind, chat |-> c, n |-> n, bad |-> bad]
Discovered == ItemOf("discovered", NoChat, 0, FALSE)

NewRecord == [state |-> "restarting", exits |-> 0, polling |-> FALSE,
              missed |-> FALSE, stale |-> FALSE,
              polled |-> 0, streamed |-> 0, journaled |-> 0]

Init == /\ sent = [c \in Chat |-> 0]
        /\ procs = [c \in Chat |-> <<>>]
        /\ rec = [c \in Chat |-> NewRecord]
        /\ polls = [c \in Chat |-> <<>>]
        /\ timers = [c \in Chat |-> 0]
        /\ chan = <<Discovered>>
        /\ seen = [c \in Chat |-> {}]
        /\ daemon = TRUE /\ cooled = TRUE
        /\ faults = 0
        /\ base = [c \in Chat |-> 0] /\ unwatched = [c \in Chat |-> FALSE]

\* A fault strikes, while the bound allows.
Strikes(kind) == /\ kind \in Faults /\ faults < MaxFaults
                 /\ faults' = faults + 1

InChan(c, kinds) ==
    \E i \in DOMAIN chan : chan[i].kind \in kinds /\ chan[i].chat = c

Tells(item) == chan' = Append(chan, item)

-----------------------------------------------------------------------------
(* The stream of a chat: a process and the thread that reads it. *)

Send(c) == /\ sent[c] < MaxMessages
           /\ sent' = [sent EXCEPT ![c] = @ + 1]
           /\ UNCHANGED <<procs, rec, polls, timers, chan, seen,
                          daemon, cooled, faults, base, unwatched>>

Emit(c, i) ==
    /\ procs[c][i].at = "live" /\ procs[c][i].next <= sent[c]
    /\ Tells(ItemOf("event", c, procs[c][i].next, FALSE))
    /\ procs' = [procs EXCEPT ![c][i].next = @ + 1]
    /\ UNCHANGED <<sent, rec, polls, timers, seen, daemon, cooled,
                   faults, base, unwatched>>

\* JSON that does not parse ends the reading, not the process; a process may
\* also hang, and then nothing is told.
GoesDeaf(c, i, told) ==
    /\ procs[c][i].at = "live" /\ Strikes("deaf")
    /\ procs' = [procs EXCEPT ![c][i].at = "deaf"]
    /\ IF told THEN Tells(ItemOf("error", c, 0, FALSE)) ELSE UNCHANGED chan
    /\ UNCHANGED <<sent, rec, polls, timers, seen, daemon, cooled,
                   base, unwatched>>

ReportsError(c, i, bad) ==
    /\ procs[c][i].at = "live" /\ Strikes("error")
    /\ Tells(ItemOf("error", c, 0, bad))
    /\ UNCHANGED <<sent, procs, rec, polls, timers, seen, daemon,
                   cooled, base, unwatched>>

Exits(c, i) ==
    /\ procs[c][i].at # "dead" /\ Strikes("exit")
    /\ procs' = [procs EXCEPT ![c][i].at = "dead"]
    /\ UNCHANGED <<sent, rec, polls, timers, chan, seen, daemon,
                   cooled, base, unwatched>>

Without(s, i) == SubSeq(s, 1, i - 1) \o SubSeq(s, i + 1, Len(s))

\* The thread has read to the end and waits for the process.
Reap(c, i, bad) ==
    /\ procs[c][i].at = "dead"
    /\ procs' = [procs EXCEPT ![c] = Without(@, i)]
    /\ \/ /\ Tells(ItemOf("exited", c, 0, bad))
          /\ UNCHANGED <<faults, unwatched>>
       \/ /\ Strikes("wait")
          /\ Tells(ItemOf("error", c, 0, FALSE))
          /\ unwatched' = [unwatched EXCEPT ![c] = TRUE]
    /\ UNCHANGED <<sent, rec, polls, timers, seen, daemon, cooled,
                   base>>

AllDead == [c \in Chat |-> [i \in DOMAIN procs[c] |->
               [at |-> "dead", next |-> procs[c][i].next]]]

\* The daemon's streams end when it does.
DaemonDies == /\ daemon /\ Strikes("daemon")
              /\ daemon' = FALSE /\ procs' = AllDead
              /\ UNCHANGED <<sent, rec, polls, timers, chan, seen,
                             cooled, base, unwatched>>

-----------------------------------------------------------------------------
(* The threads that come back: watchdog, polls, discovery, timers.  The
   watchdog and discovery pause while their last item waits. *)

\* spawn_subscription_watchdog sends due_for_reconciliation.
Watchdog(c) ==
    /\ rec[c].state = "running" /\ ~rec[c].polling
    /\ Len(polls[c]) < Room /\ ~InChan(c, {"reconcile"})
    /\ Tells(ItemOf("reconcile", c, 0, FALSE))
    /\ UNCHANGED <<sent, procs, rec, polls, timers, seen, daemon, cooled,
                   faults, base, unwatched>>

\* list_group_messages has read at some moment since the poll began.
PollReturns(c, i, n) ==
    /\ daemon /\ n \in polls[c][i]..sent[c]
    /\ polls' = [polls EXCEPT ![c] = Without(@, i)]
    /\ Tells(ItemOf("polled", c, n, FALSE))
    /\ UNCHANGED <<sent, procs, rec, timers, seen, daemon, cooled, faults,
                   base, unwatched>>

\* Mutant: a poll that fails is only logged by its thread.
PollFailsSilently(c, i, bad) ==
    /\ IF daemon THEN Strikes("poll") ELSE bad /\ UNCHANGED faults
    /\ polls' = [polls EXCEPT ![c] = Without(@, i)]
    /\ UNCHANGED <<sent, procs, rec, timers, chan, seen, daemon, cooled, base,
                   unwatched>>

PollFails(c, i, bad) ==
    /\ IF daemon THEN Strikes("poll") ELSE bad /\ UNCHANGED faults
    /\ polls' = [polls EXCEPT ![c] = Without(@, i)]
    /\ Tells(ItemOf("pollError", c, 0, bad))
    /\ UNCHANGED <<sent, procs, rec, timers, seen, daemon, cooled, base,
                   unwatched>>

Discover ==
    /\ ~InChan(NoChat, {"discovered", "discoveryError"})
    /\ IF daemon THEN Tells(Discovered)
                 ELSE Tells(ItemOf("discoveryError", NoChat, 0, TRUE))
    /\ UNCHANGED <<sent, procs, rec, polls, timers, seen, daemon,
                   cooled, faults, base, unwatched>>

RestartDue(c) ==
    /\ timers[c] > 0
    /\ timers' = [timers EXCEPT ![c] = @ - 1]
    /\ Tells(ItemOf("restart", c, 0, FALSE))
    /\ UNCHANGED <<sent, procs, rec, polls, seen, daemon, cooled,
                   faults, base, unwatched>>

\* 30 s after the last restart of the daemon.
CoolsDown == /\ ~cooled /\ cooled' = TRUE
             /\ UNCHANGED <<sent, procs, rec, polls, timers, chan,
                            seen, daemon, faults, base, unwatched>>

-----------------------------------------------------------------------------
(* The listener: one item at a time. *)

Takes(kind) == chan # <<>> /\ Head(chan).kind = kind

\* restart_wn_daemon_rate_limited, when wanted.  The daemon comes back, or it
\* does not, or it could not be stopped in the first place.
RestartsDaemon(wanted) ==
    IF ~wanted \/ ~cooled THEN UNCHANGED <<procs, daemon, cooled, faults>>
    ELSE /\ cooled' = FALSE
         /\ \/ daemon' = TRUE /\ procs' = AllDead /\ UNCHANGED faults
            \/ Strikes("daemon") /\ daemon' = FALSE /\ procs' = AllDead
            \/ Strikes("daemon") /\ UNCHANGED <<daemon, procs>>

\* Mutant: subscribe without looking whether a stream runs.
WantedAnyway(chats) == chats

\* subscribe_group_if_needed: the chats among these that get a new process.
Wanted(chats) == {c \in chats : rec[c].state # "running"}

Started(c) ==
    [rec[c] EXCEPT !.state = "running", !.polling = FALSE, !.missed = FALSE,
                   !.stale = FALSE]

\* The process of a daemon that is down ends at once.
NewProcess(c) ==
    [at |-> IF daemon THEN "live" ELSE "dead",
     next |-> IF sent[c] > ReplayLimit THEN sent[c] - ReplayLimit + 1 ELSE 1]

\* mark_starting, spawn, mark_started; failed is what becomes of the record
\* when the spawn fails.
Subscribes(chats, spawns, failed) ==
    LET new == Wanted(chats)
    IN  /\ \/ (\A c \in new : spawns[c]) /\ UNCHANGED faults
           \/ (\E c \in new : ~spawns[c]) /\ Strikes("spawn")
        /\ procs' = [c \in Chat |->
                        IF c \in new /\ spawns[c]
                        THEN Append(procs[c], NewProcess(c)) ELSE procs[c]]
        /\ rec' = [c \in Chat |-> IF c \notin new THEN rec[c]
                                  ELSE IF spawns[c] THEN Started(c)
                                  ELSE failed[c]]

HandleDiscovered ==
    /\ Takes("discovered")
    /\ \E spawns \in [Chat -> BOOLEAN] :
           Subscribes(Chat, spawns,
                      [c \in Chat |-> [rec[c] EXCEPT !.state = "restarting",
                                                     !.stale = FALSE]])
    /\ chan' = Tail(chan)
    /\ UNCHANGED <<sent, polls, timers, seen, daemon, cooled, base,
                   unwatched>>

HandleDiscoveryError ==
    /\ Takes("discoveryError")
    /\ RestartsDaemon(TRUE)
    /\ chan' = Tail(chan)
    /\ UNCHANGED <<sent, rec, polls, timers, seen, base, unwatched>>

HandleStreamError ==
    /\ Takes("error")
    /\ RestartsDaemon(Head(chan).bad)
    /\ chan' = Tail(chan)
    /\ UNCHANGED <<sent, rec, polls, timers, seen, base, unwatched>>

\* mark_poll_start
HandleReconcile ==
    /\ Takes("reconcile")
    /\ LET c == Head(chan).chat
       IN  IF rec[c].state # "running" \/ rec[c].polling
           THEN UNCHANGED <<rec, polls>>
           ELSE /\ rec' = [rec EXCEPT ![c].polling = TRUE]
                /\ polls' = [polls EXCEPT ![c] = Append(@, sent[c])]
    /\ chan' = Tail(chan)
    /\ UNCHANGED <<sent, procs, timers, seen, daemon, cooled, faults,
                   base, unwatched>>

\* list_group_messages: the oldest it lists of a chat that has n.
Oldest(n) == IF n > PollLimit THEN n - PollLimit + 1 ELSE 1

\* Mutant: nothing is recovered when the message of the last poll is gone.
RecoversListed(n, previous) ==
    IF previous \in Oldest(n)..n THEN previous + 1 ELSE n + 1

\* reconciled_events_after: the first message it returns, n + 1 for none.
RecoversFrom(n, previous) ==
    IF previous = 0 THEN n + 1
    ELSE IF previous \in Oldest(n)..n THEN previous + 1 ELSE Oldest(n)

\* mark_poll and mark_recovered
Polled(r, n, unseen) ==
    [r EXCEPT !.polling = FALSE,
              !.polled = IF n = 0 THEN @ ELSE n,
              !.missed = @ \/ unseen # {},
              !.stale = @ /\ unseen = {}]

\* stale_running_groups, of chats whose stream printed nothing for 90 s.
Stale(r) == /\ r.state = "running" /\ ~r.stale /\ r.missed
            /\ r.polled \notin {0, r.streamed, r.journaled}

\* kill(pid): the newest process of the chat, if it is still there.
Killed(ps) == [i \in DOMAIN ps |->
                  IF i = Len(ps) /\ ps[i].at # "dead"
                  THEN [ps[i] EXCEPT !.at = "dead"] ELSE ps[i]]

HandlePolled(idle) ==
    /\ Takes("polled")
    /\ LET c == Head(chan).chat
           n == Head(chan).n
           first == RecoversFrom(n, rec[c].polled)
           marked == [rec EXCEPT ![c] = Polled(@, n, (first..n) \ seen[c])]
           stale == {d \in idle : Stale(marked[d])}
       IN  /\ rec' = [d \in Chat |-> [marked[d] EXCEPT !.stale = @ \/ d \in stale]]
           /\ procs' = [d \in Chat |-> IF d \in stale THEN Killed(procs[d])
                                                      ELSE procs[d]]
           /\ chan' = Tail(chan)
                      \o [i \in 1..(n + 1 - first) |->
                             ItemOf("recovered", c, first + i - 1, FALSE)]
           /\ base' = [base EXCEPT ![c] = IF @ = 0 THEN n ELSE @]
    /\ UNCHANGED <<sent, polls, timers, seen, daemon, cooled, faults, unwatched>>

HandlePollError ==
    /\ Takes("pollError")
    /\ rec' = [rec EXCEPT ![Head(chan).chat].polling = FALSE]
    /\ RestartsDaemon(Head(chan).bad)
    /\ chan' = Tail(chan)
    /\ UNCHANGED <<sent, polls, timers, seen, base, unwatched>>

\* The text of a failed spawn may itself tell of a wedged daemon, which is
\* then restarted, with or without success.
HandleRestart ==
    /\ Takes("restart")
    /\ LET c == Head(chan).chat
       IN  \/ /\ Subscribes({c}, [d \in Chat |-> TRUE], rec)
              /\ UNCHANGED <<timers, daemon, cooled>>
           \/ /\ rec[c].state # "running" /\ Strikes("spawn")
              /\ rec' = [rec EXCEPT ![c].state = "failed", ![c].stale = FALSE,
                                    ![c].polling = FALSE]
              /\ timers' = [timers EXCEPT ![c] = @ + 1]
              /\ \/ UNCHANGED <<procs, daemon, cooled>>
                 \/ /\ cooled /\ cooled' = FALSE
                    /\ procs' = AllDead /\ daemon' \in BOOLEAN
    /\ chan' = Tail(chan)
    /\ UNCHANGED <<sent, polls, seen, base, unwatched>>

\* Mutant: mark_exit that forgets to change the state.
ExitedKeepsState(r) ==
    [r EXCEPT !.polling = FALSE,
              !.exits = IF @ < RepeatedExits THEN @ + 1 ELSE @]

\* mark_exit
Exited(r) ==
    [r EXCEPT !.state = "exited", !.polling = FALSE,
              !.exits = IF @ < RepeatedExits THEN @ + 1 ELSE @]

\* maybe_restart_daemon_after_repeated_subscription_exit; restart_count is
\* never reset.
HandleExited ==
    /\ Takes("exited")
    /\ LET c == Head(chan).chat
       IN  /\ rec' = [rec EXCEPT ![c] = Exited(@)]
           /\ RestartsDaemon(/\ Head(chan).bad
                             /\ rec'[c].exits = RepeatedExits)
           /\ timers' = [timers EXCEPT ![c] = @ + 1]
    /\ chan' = Tail(chan)
    /\ UNCHANGED <<sent, polls, seen, base, unwatched>>

\* mark_event for a stream's event, then the journal and mark_journaled.
HandleEvent ==
    /\ Takes("event") \/ Takes("recovered")
    /\ LET c == Head(chan).chat
           n == Head(chan).n
           marked == IF Head(chan).kind = "recovered" THEN rec[c]
                     ELSE [rec[c] EXCEPT !.streamed = n, !.missed = FALSE,
                                         !.stale = FALSE]
       IN  IF n \in seen[c]
           THEN rec' = [rec EXCEPT ![c] = marked] /\ UNCHANGED seen
           ELSE /\ rec' = [rec EXCEPT ![c] = [marked EXCEPT !.journaled = n]]
                /\ seen' = [seen EXCEPT ![c] = @ \union {n}]
    /\ chan' = Tail(chan)
    /\ UNCHANGED <<sent, procs, polls, timers, daemon, cooled,
                   faults, base, unwatched>>

Handle == \/ HandleDiscovered \/ HandleDiscoveryError
          \/ HandleStreamError \/ HandleReconcile
          \/ (\E idle \in SUBSET Chat : HandlePolled(idle))
          \/ HandlePollError \/ HandleRestart \/ HandleExited \/ HandleEvent

-----------------------------------------------------------------------------
Next ==
    \/ Handle \/ DaemonDies \/ Discover \/ CoolsDown
    \/ \E c \in Chat :
           \/ Send(c) \/ Watchdog(c) \/ RestartDue(c)
           \/ \E i \in DOMAIN polls[c] :
                  \/ \E n \in Number : PollReturns(c, i, n)
                  \/ \E bad \in BOOLEAN : PollFails(c, i, bad)
           \/ \E i \in DOMAIN procs[c] :
                  \/ Emit(c, i) \/ Exits(c, i)
                  \/ \E b \in BOOLEAN :
                         GoesDeaf(c, i, b) \/ ReportsError(c, i, b) \/ Reap(c, i, b)

Spec == Init /\ [][Next]_vars

\* Every thread goes on, timers run down, calls of wn return.
Fairness ==
    /\ WF_vars(Handle) /\ WF_vars(Discover) /\ WF_vars(CoolsDown)
    /\ \A c \in Chat :
           /\ WF_vars(\E i \in DOMAIN procs[c] : Emit(c, i))
           /\ WF_vars(\E i \in DOMAIN procs[c], bad \in BOOLEAN : Reap(c, i, bad))
           /\ WF_vars(Watchdog(c)) /\ WF_vars(RestartDue(c))
           /\ WF_vars(\E i \in DOMAIN polls[c] :
                          \/ \E n \in Number : PollReturns(c, i, n)
                          \/ \E bad \in BOOLEAN : PollFails(c, i, bad))

FairSpec == Spec /\ Fairness

-----------------------------------------------------------------------------
(* What the listener owes its chats. *)

TypeOK == /\ sent \in [Chat -> Number]
          /\ procs \in [Chat -> Seq(Process)]
          /\ rec \in [Chat -> Record]
          /\ polls \in [Chat -> Seq(Number)]
          /\ timers \in [Chat -> Nat]
          /\ chan \in Seq(Item)
          /\ seen \in [Chat -> SUBSET Number]
          /\ daemon \in BOOLEAN /\ cooled \in BOOLEAN
          /\ faults \in 0..MaxFaults
          /\ base \in [Chat -> Number] /\ unwatched \in [Chat -> BOOLEAN]

\* A chat never has two subscription processes, whatever restarts, discovery,
\* failed spawns and daemon restarts pile up (subscribe_group_if_needed).
OneStreamPerChat == \A c \in Chat : Len(procs[c]) <= 1

\* While a chat's poll_in_progress is set a poll of it will report and clear
\* it: nothing, a stream that ends meanwhile included, shuts polling off.
PollFlagHonest ==
    \A c \in Chat : rec[c].polling =>
        polls[c] # <<>> \/ InChan(c, {"polled", "pollError"})

\* Every message that reconciliation can know of is journaled in the end,
\* whatever became of its stream: those after the first poll that listed
\* anything, unless SUBSCRIPTION_RECONCILE_LIMIT newer ones came.
MissedAreSeen ==
    \A c \in Chat : \A k \in 1..MaxMessages :
        sent[c] >= k ~> \/ k \in seen[c]
                        \/ 0 < base[c] /\ k <= base[c]
                        \/ sent[c] >= k + PollLimit

\* A chat whose stream has ended gets a new one, again and again, unless the
\* thread that waits for the process failed to.
StreamsComeBack ==
    \A c \in Chat : []<>(\/ unwatched[c]
                         \/ \E i \in DOMAIN procs[c] : procs[c][i].at # "dead")

\* Every message that a chat's stream has still to print is journaled in the
\* end (release-notes.md: "recovers missed inbound messages").
AllAreSeen ==
    \A c \in Chat : \A k \in 1..MaxMessages :
        procs[c] # <<>> /\ k \in procs[c][1].next..sent[c]
            ~> k \in seen[c] \/ sent[c] >= k + PollLimit

(* The inductive invariant behind the two safety properties. *)

\* A process or the item of its end: a chat has one of the two at most, and
\* its record says running until the item is handled.
StreamsAccounted ==
    \A c \in Chat :
        /\ Len(procs[c]) <= 1
        /\ procs[c] # <<>> \/ InChan(c, {"exited"}) => rec[c].state = "running"
        /\ procs[c] # <<>> => ~InChan(c, {"exited"})
        /\ \A i, k \in DOMAIN chan :
               /\ chan[i].kind = "exited" /\ chan[i].chat = c
               /\ chan[k].kind = "exited" /\ chan[k].chat = c
               => i = k

IInv == TypeOK /\ StreamsAccounted /\ PollFlagHonest
=============================================================================
