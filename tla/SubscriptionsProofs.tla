------------------------ MODULE SubscriptionsProofs ------------------------
(***************************************************************************)
(* Proofs about Subscriptions, for any chats, faults and bounds: a chat    *)
(* has one stream at most, and polling of a chat is never shut off.        *)
(***************************************************************************)
EXTENDS Subscriptions, TLAPS

PollKinds == {"polled", "pollError"}

\* The end of a chat's stream is told once.
ExitedOnce(c) == \A i, k \in DOMAIN chan :
                     /\ chan[i].kind = "exited" /\ chan[i].chat = c
                     /\ chan[k].kind = "exited" /\ chan[k].chat = c
                     => i = k

\* A step of the channel that tells of no further end of a stream.
NoNewExit == \A c \in Chat : /\ InChan(c, {"exited"})' => InChan(c, {"exited"})
                             /\ ExitedOnce(c) => ExitedOnce(c)'

-----------------------------------------------------------------------------
(* Steps of the channel. *)

\* What an item appended to the channel changes.
LEMMA AppendItem ==
    ASSUME chan \in Seq(Item), NEW STATE item, item \in Item, chan' = Append(chan, item)
    PROVE  /\ chan' \in Seq(Item)
           /\ \A c, kinds : InChan(c, kinds)' <=> \/ InChan(c, kinds)
                                                  \/ item.kind \in kinds /\ item.chat = c
           /\ item.kind # "exited" => NoNewExit
  <1> DEFINE n == Len(chan) + 1
  <1>1. /\ chan' \in Seq(Item) /\ DOMAIN chan' = 1..n /\ n \in Nat
        /\ DOMAIN chan = 1..(n - 1)
        /\ \A i \in 1..(n - 1) : chan'[i] = chan[i]
        /\ chan'[n] = item
      OBVIOUS
  <1> HIDE DEF n
  <1>2. \A c, kinds : InChan(c, kinds)' <=> \/ InChan(c, kinds)
                                            \/ item.kind \in kinds /\ item.chat = c
    <2> TAKE c, kinds
    <2>1. InChan(c, kinds)' => InChan(c, kinds) \/ (item.kind \in kinds /\ item.chat = c)
        BY <1>1 DEF InChan
    <2>2. InChan(c, kinds) => InChan(c, kinds)'
        BY <1>1 DEF InChan
    <2>3. item.kind \in kinds /\ item.chat = c => InChan(c, kinds)'
        BY <1>1 DEF InChan
    <2> QED BY <2>1, <2>2, <2>3
  <1>3. item.kind # "exited" => \A c \in Chat : ExitedOnce(c) => ExitedOnce(c)'
      BY <1>1 DEF ExitedOnce
  <1> QED BY <1>1, <1>2, <1>3 DEF NoNewExit

\* What taking the first item changes.
LEMMA TakeItem ==
    ASSUME chan \in Seq(Item), chan # <<>>, chan' = Tail(chan)
    PROVE  /\ chan' \in Seq(Item)
           /\ Head(chan) \in Item
           /\ \A c, kinds : InChan(c, kinds) <=> \/ InChan(c, kinds)'
                                                 \/ Head(chan).kind \in kinds /\ Head(chan).chat = c
           /\ NoNewExit
  <1> DEFINE n == Len(chan)
  <1>1. /\ chan' \in Seq(Item) /\ DOMAIN chan' = 1..(n - 1) /\ n \in Nat /\ n > 0
        /\ DOMAIN chan = 1..n
        /\ \A i \in 1..(n - 1) : chan'[i] = chan[i + 1]
        /\ Head(chan) = chan[1] /\ Head(chan) \in Item
      OBVIOUS
  <1> HIDE DEF n
  <1>2. \A c, kinds : InChan(c, kinds) <=> \/ InChan(c, kinds)'
                                           \/ Head(chan).kind \in kinds /\ Head(chan).chat = c
    <2> TAKE c, kinds
    <2>1. ASSUME InChan(c, kinds)
          PROVE  InChan(c, kinds)' \/ (Head(chan).kind \in kinds /\ Head(chan).chat = c)
      <3>1. PICK i \in DOMAIN chan : chan[i].kind \in kinds /\ chan[i].chat = c
          BY <2>1 DEF InChan
      <3>2. CASE i = 1
          BY <3>1, <3>2, <1>1
      <3>3. CASE i # 1
        <4>1. i - 1 \in DOMAIN chan' /\ chan'[i - 1] = chan[i]
            BY <3>1, <3>3, <1>1
        <4> QED BY <4>1, <3>1 DEF InChan
      <3> QED BY <3>2, <3>3
    <2>2. InChan(c, kinds)' => InChan(c, kinds)
      <3>1. \A i \in DOMAIN chan' : i + 1 \in DOMAIN chan /\ chan[i + 1] = chan'[i]
          BY <1>1
      <3> QED BY <3>1 DEF InChan
    <2>3. Head(chan).kind \in kinds /\ Head(chan).chat = c => InChan(c, kinds)
        BY <1>1 DEF InChan
    <2> QED BY <2>1, <2>2, <2>3
  <1>3. \A c \in Chat : ExitedOnce(c) => ExitedOnce(c)'
    <2>1. \A i \in DOMAIN chan' : i \in Nat /\ i + 1 \in DOMAIN chan /\ chan[i + 1] = chan'[i]
        BY <1>1
    <2> QED BY <2>1 DEF ExitedOnce
  <1> QED BY <1>1, <1>2, <1>3 DEF NoNewExit

\* Items appended behind the rest, none of them the end of a stream.
LEMMA AddRecovered ==
    ASSUME chan \in Seq(Item), chan # <<>>, NEW STATE more, more \in Seq(Item),
           \A i \in DOMAIN more : more[i].kind = "recovered",
           chan' = Tail(chan) \o more
    PROVE  /\ chan' \in Seq(Item)
           /\ Head(chan) \in Item
           /\ \A c : InChan(c, PollKinds) => \/ InChan(c, PollKinds)'
                                             \/ Head(chan).chat = c
           /\ NoNewExit
  <1> DEFINE n == Len(chan) - 1
             k == Len(more)
  <1>1. /\ chan' \in Seq(Item) /\ DOMAIN chan' = 1..(n + k) /\ n \in Nat /\ k \in Nat
        /\ DOMAIN chan = 1..(n + 1) /\ DOMAIN more = 1..k
        /\ \A i \in 1..n : chan'[i] = chan[i + 1]
        /\ \A i \in (n + 1)..(n + k) : chan'[i] = more[i - n]
        /\ Head(chan) = chan[1] /\ Head(chan) \in Item
      OBVIOUS
  <1> HIDE DEF n, k
  <1>2. \A i \in DOMAIN chan' : \/ i \in 1..n /\ i + 1 \in DOMAIN chan /\ chan'[i] = chan[i + 1]
                                \/ chan'[i].kind = "recovered"
      BY <1>1
  <1>3. \A c : InChan(c, {"exited"})' => InChan(c, {"exited"})
      BY <1>2 DEF InChan
  <1>4. \A c \in Chat : ExitedOnce(c) => ExitedOnce(c)'
    <2> SUFFICES ASSUME NEW c \in Chat, ExitedOnce(c), NEW i \in DOMAIN chan', NEW j \in DOMAIN chan',
                        chan'[i].kind = "exited", chan'[i].chat = c,
                        chan'[j].kind = "exited", chan'[j].chat = c
                 PROVE  i = j
        BY DEF ExitedOnce
    <2>1. /\ i \in 1..n /\ i + 1 \in DOMAIN chan /\ chan'[i] = chan[i + 1]
          /\ j \in 1..n /\ j + 1 \in DOMAIN chan /\ chan'[j] = chan[j + 1]
        BY <1>2
    <2>2. i + 1 = j + 1
        BY <2>1 DEF ExitedOnce
    <2> QED BY <2>1, <2>2, <1>1
  <1>5. ASSUME NEW c, InChan(c, PollKinds)
        PROVE  InChan(c, PollKinds)' \/ Head(chan).chat = c
    <2>1. PICK i \in DOMAIN chan : chan[i].kind \in PollKinds /\ chan[i].chat = c
        BY <1>5 DEF InChan
    <2>2. CASE i = 1
        BY <2>1, <2>2, <1>1
    <2>3. CASE i # 1
      <3>1. i - 1 \in DOMAIN chan' /\ chan'[i - 1] = chan[i]
          BY <2>1, <2>3, <1>1
      <3> QED BY <3>1, <2>1 DEF InChan
    <2> QED BY <2>2, <2>3
  <1> QED BY <1>1, <1>3, <1>4, <1>5 DEF NoNewExit

\* A channel that nobody touches.
LEMMA SameChan ==
    ASSUME UNCHANGED chan
    PROVE  /\ \A c, kinds : InChan(c, kinds)' <=> InChan(c, kinds)
           /\ NoNewExit
    BY DEF InChan, ExitedOnce, NoNewExit

-----------------------------------------------------------------------------
(* Steps of the processes and the records. *)

SameStreams == /\ procs' \in [Chat -> Seq(Process)]
               /\ \A c \in Chat : Len(procs'[c]) = Len(procs[c])

SameStates == \A c \in Chat : rec'[c].state = rec[c].state

LEMMA MarksProcess ==
    ASSUME TypeOK, NEW c \in Chat, NEW i \in DOMAIN procs[c],
           NEW at \in {"live", "deaf", "dead"},
           procs' = [procs EXCEPT ![c][i].at = at]
    PROVE  SameStreams
  <1>1. procs[c] \in Seq(Process) /\ procs[c][i] \in Process
      BY DEF TypeOK
  <1>2. [procs[c][i] EXCEPT !.at = at] \in Process
      BY <1>1 DEF Process
  <1>3. [procs[c] EXCEPT ![i].at = at] \in Seq(Process)
      BY <1>1, <1>2
  <1> QED BY <1>1, <1>3 DEF TypeOK, SameStreams

LEMMA AllDie ==
    ASSUME TypeOK, procs' = AllDead
    PROVE  SameStreams
  <1>1. ASSUME NEW c \in Chat
        PROVE  procs'[c] \in Seq(Process) /\ Len(procs'[c]) = Len(procs[c])
    <2>1. procs[c] \in Seq(Process)
        BY DEF TypeOK
    <2> DEFINE f == [i \in 1..Len(procs[c]) |-> [at |-> "dead", next |-> procs[c][i].next]]
    <2>2. ASSUME NEW i \in 1..Len(procs[c])
          PROVE  [at |-> "dead", next |-> procs[c][i].next] \in Process
      <3>1. procs[c][i] \in Process
          BY <2>1
      <3> QED BY <3>1 DEF Process
    <2>3. procs'[c] = f
        BY <2>1 DEF AllDead
    <2>4. f \in [1..Len(procs[c]) -> Process]
        BY <2>2
    <2> HIDE DEF f
    <2>5. f \in Seq(Process) /\ Len(f) = Len(procs[c])
        BY <2>1, <2>4
    <2> QED BY <2>3, <2>5
  <1> QED BY <1>1 DEF AllDead, SameStreams

LEMMA DaemonRestart ==
    ASSUME TypeOK, NEW wanted \in BOOLEAN, RestartsDaemon(wanted)
    PROVE  /\ SameStreams
           /\ daemon' \in BOOLEAN /\ cooled' \in BOOLEAN /\ faults' \in 0..MaxFaults
  <1>1. UNCHANGED procs => SameStreams
      BY DEF TypeOK, SameStreams
  <1>2. procs' = AllDead \/ UNCHANGED procs
      BY DEF RestartsDaemon
  <1>3. faults' = faults \/ Strikes("daemon")
      BY DEF RestartsDaemon
  <1>4. faults' \in 0..MaxFaults
      BY <1>3, SubscriptionsAssumption DEF TypeOK, Strikes, SubscriptionsAssumption
  <1>5. (daemon' = daemon \/ daemon' \in BOOLEAN) /\ (cooled' = cooled \/ cooled' \in BOOLEAN)
      BY Zenon DEF RestartsDaemon
  <1>6. daemon' \in BOOLEAN /\ cooled' \in BOOLEAN
      BY <1>5, Zenon DEF TypeOK
  <1> QED BY <1>1, <1>2, <1>4, <1>6, AllDie

LEMMA StrikesType ==
    ASSUME TypeOK, UNCHANGED faults \/ (faults < MaxFaults /\ faults' = faults + 1)
    PROVE  faults' \in 0..MaxFaults
    BY SubscriptionsAssumption DEF TypeOK, SubscriptionsAssumption

\* A step that starts streams only where none runs, and keeps records of
\* running streams.
LEMMA StreamStep ==
    ASSUME IInv, NoNewExit,
           \A c \in Chat :
               /\ Len(procs'[c]) <= 1
               /\ procs'[c] # <<>> => /\ rec'[c].state = "running"
                                      /\ procs[c] # <<>> \/ rec[c].state # "running"
               /\ rec[c].state = "running" => rec'[c].state = "running"
    PROVE  StreamsAccounted'
  <1> SUFFICES ASSUME NEW c \in Chat
               PROVE  /\ procs'[c] # <<>> \/ InChan(c, {"exited"})' => rec'[c].state = "running"
                      /\ procs'[c] # <<>> => ~InChan(c, {"exited"})'
                      /\ ExitedOnce(c)'
      BY DEF StreamsAccounted, ExitedOnce
  <1>1. ExitedOnce(c)
      BY DEF IInv, StreamsAccounted, ExitedOnce
  <1>2. ExitedOnce(c)'
      BY <1>1 DEF NoNewExit
  <1>3. InChan(c, {"exited"})' => rec[c].state = "running" /\ procs[c] = <<>>
      BY DEF IInv, StreamsAccounted, NoNewExit
  <1> QED BY <1>2, <1>3

LEMMA QuietStep ==
    ASSUME IInv, NoNewExit, SameStreams, SameStates
    PROVE  StreamsAccounted'
  <1>1. ASSUME NEW c \in Chat
        PROVE  /\ Len(procs'[c]) <= 1
               /\ procs'[c] # <<>> => procs[c] # <<>> /\ rec'[c].state = "running"
    <2>1. procs[c] \in Seq(Process) /\ procs'[c] \in Seq(Process)
          /\ Len(procs'[c]) = Len(procs[c]) /\ Len(procs[c]) <= 1
        BY DEF IInv, TypeOK, SameStreams, StreamsAccounted
    <2>2. procs'[c] # <<>> => procs[c] # <<>>
        BY <2>1
    <2> QED BY <2>1, <2>2 DEF IInv, StreamsAccounted, SameStates
  <1> QED BY <1>1, StreamStep DEF SameStates

LEMMA WithoutSeq ==
    ASSUME NEW S, NEW s \in Seq(S), NEW i \in DOMAIN s
    PROVE  Without(s, i) \in Seq(S) /\ Len(Without(s, i)) = Len(s) - 1
  <1>1. i \in 1..Len(s) /\ Len(s) \in Nat
      OBVIOUS
  <1>2. SubSeq(s, 1, i - 1) \in Seq(S) /\ Len(SubSeq(s, 1, i - 1)) = i - 1
      BY <1>1
  <1>3. SubSeq(s, i + 1, Len(s)) \in Seq(S) /\ Len(SubSeq(s, i + 1, Len(s))) = Len(s) - i
      BY <1>1
  <1> DEFINE a == SubSeq(s, 1, i - 1)
             b == SubSeq(s, i + 1, Len(s))
  <1>4. /\ a \in Seq(S) /\ Len(a) = i - 1
        /\ b \in Seq(S) /\ Len(b) = Len(s) - i
      BY <1>2, <1>3, Zenon DEF a, b
  <1> HIDE DEF a, b
  <1>5. a \o b \in Seq(S) /\ Len(a \o b) = Len(s) - 1
      BY <1>1, <1>4
  <1> QED BY <1>5, Zenon DEF Without, a, b

LEMMA ItemType ==
    ASSUME NEW kind \in {"event", "recovered", "error", "reconcile", "polled",
                         "pollError", "restart", "exited"},
           NEW c \in Chat, NEW n \in Number, NEW bad \in BOOLEAN
    PROVE  /\ ItemOf(kind, c, n, bad) \in Item
           /\ ItemOf(kind, c, n, bad).kind = kind
           /\ ItemOf(kind, c, n, bad).chat = c
    BY DEF ItemOf, Item

LEMMA DiscoveryItem ==
    ASSUME NEW kind \in {"discovered", "discoveryError"}, NEW n \in Number,
           NEW bad \in BOOLEAN
    PROVE  /\ ItemOf(kind, NoChat, n, bad) \in Item
           /\ ItemOf(kind, NoChat, n, bad).kind = kind
    BY DEF ItemOf, Item

-----------------------------------------------------------------------------
(* The steps of streams, polls and timers. *)

\* A step that raises no polling flag and loses no poll whose flag is up.
LEMMA PollStep ==
    ASSUME IInv,
           \A c \in Chat :
               /\ rec'[c].polling => rec[c].polling
               /\ polls[c] # <<>> => polls'[c] # <<>> \/ InChan(c, PollKinds)'
               /\ InChan(c, PollKinds) => InChan(c, PollKinds)' \/ ~rec'[c].polling
    PROVE  PollFlagHonest'
    BY DEF IInv, PollFlagHonest, PollKinds

LEMMA TimesAndSends ==
    ASSUME IInv, NEW c, CoolsDown \/ (c \in Chat /\ Send(c))
    PROVE  IInv'
  <1>1. sent' \in [Chat -> Number] /\ cooled' \in BOOLEAN
    <2>1. CASE c \in Chat /\ Send(c)
      <3>1. sent[c] + 1 \in Number
          BY <2>1, SubscriptionsAssumption
          DEF Send, IInv, TypeOK, Number, SubscriptionsAssumption
      <3>2. sent' \in [Chat -> Number]
          BY <2>1, <3>1 DEF Send, IInv, TypeOK
      <3> QED BY <2>1, <3>2 DEF Send, IInv, TypeOK
    <2>2. CASE CoolsDown
        BY <2>2 DEF CoolsDown, IInv, TypeOK
    <2> QED BY <2>1, <2>2
  <1>2. UNCHANGED <<procs, rec, polls, timers, chan, seen, daemon, faults, base, unwatched>>
      BY DEF Send, CoolsDown
  <1>3. TypeOK'
      BY <1>1, <1>2 DEF IInv, TypeOK
  <1>4. NoNewExit /\ \A d, kinds : InChan(d, kinds)' <=> InChan(d, kinds)
      BY <1>2, SameChan
  <1>5. StreamsAccounted'
      BY <1>2, <1>3, <1>4, QuietStep DEF SameStreams, SameStates, TypeOK
  <1>6. PollFlagHonest'
      BY <1>2, <1>4, PollStep
  <1> QED BY <1>3, <1>5, <1>6 DEF IInv

\* A stream that prints, goes deaf, reports an error or ends.
LEMMA StreamActs ==
    ASSUME IInv, NEW c \in Chat, NEW i \in DOMAIN procs[c], NEW told \in BOOLEAN,
           \/ Emit(c, i) \/ Exits(c, i)
           \/ GoesDeaf(c, i, told) \/ ReportsError(c, i, told)
    PROVE  IInv'
  <1>1. UNCHANGED <<sent, rec, polls, timers, seen, daemon, cooled, base, unwatched>>
      BY DEF Emit, Exits, GoesDeaf, ReportsError
  <1>2. faults' \in 0..MaxFaults
    <2>1. UNCHANGED faults \/ (faults < MaxFaults /\ faults' = faults + 1)
        BY DEF Emit, Exits, GoesDeaf, ReportsError, Strikes
    <2> QED BY <2>1, StrikesType DEF IInv, TypeOK
  <1>3. SameStreams
    <2>1. CASE Emit(c, i)
      <3>1. procs[c] \in Seq(Process) /\ procs[c][i] \in Process
          BY DEF IInv, TypeOK
      <3>2. procs[c][i].next + 1 \in 1..MaxMessages + 1
        <4>1. sent[c] \in 0..MaxMessages /\ procs[c][i].next \in 1..MaxMessages + 1
            BY <3>1 DEF IInv, TypeOK, Number, Process
        <4>2. procs[c][i].next <= sent[c]
            BY <2>1 DEF Emit
        <4> QED BY <4>1, <4>2, SubscriptionsAssumption DEF SubscriptionsAssumption
      <3>3. [procs[c][i] EXCEPT !.next = @ + 1] \in Process
          BY <3>1, <3>2 DEF Process
      <3>4. [procs[c] EXCEPT ![i].next = @ + 1] \in Seq(Process)
          BY <3>1, <3>3
      <3>5. procs' = [procs EXCEPT ![c][i].next = @ + 1]
          BY <2>1 DEF Emit
      <3> QED BY <3>1, <3>4, <3>5 DEF SameStreams, IInv, TypeOK
    <2>2. CASE Exits(c, i)
        BY <2>2, MarksProcess DEF Exits, IInv
    <2>3. CASE GoesDeaf(c, i, told)
        BY <2>3, MarksProcess DEF GoesDeaf, IInv
    <2>4. CASE ReportsError(c, i, told)
        BY <2>4 DEF ReportsError, SameStreams, IInv, TypeOK
    <2> QED BY <2>1, <2>2, <2>3, <2>4
  <1>4. \/ UNCHANGED chan
        \/ \E item \in Item : item.kind \in {"event", "error"} /\ chan' = Append(chan, item)
    <2>1. CASE Emit(c, i)
      <3>1. procs[c] \in Seq(Process) /\ procs[c][i] \in Process
          BY DEF IInv, TypeOK
      <3>2. procs[c][i].next \in Number
          BY <2>1, <3>1, SubscriptionsAssumption
          DEF Emit, IInv, TypeOK, Number, Process, SubscriptionsAssumption
      <3>3. \A bad \in BOOLEAN : /\ ItemOf("event", c, procs[c][i].next, bad) \in Item
                                 /\ ItemOf("event", c, procs[c][i].next, bad).kind = "event"
          BY <3>2, ItemType
      <3> QED BY <2>1, <3>3 DEF Emit, Tells
    <2>2. CASE Exits(c, i)
        BY <2>2 DEF Exits
    <2>3. CASE GoesDeaf(c, i, told) \/ ReportsError(c, i, told)
      <3>1. 0 \in Number
          BY SubscriptionsAssumption DEF Number, SubscriptionsAssumption
      <3>2. \A bad \in BOOLEAN : /\ ItemOf("error", c, 0, bad) \in Item
                                 /\ ItemOf("error", c, 0, bad).kind = "error"
          BY <3>1, ItemType
      <3>3. UNCHANGED chan \/ \E bad \in BOOLEAN : chan' = Append(chan, ItemOf("error", c, 0, bad))
          BY <2>3, Zenon DEF GoesDeaf, ReportsError, Tells
      <3> QED BY <3>2, <3>3
    <2> QED BY <2>1, <2>2, <2>3
  <1>5. chan' \in Seq(Item) /\ NoNewExit /\ \A d : InChan(d, PollKinds) => InChan(d, PollKinds)'
    <2>1. chan \in Seq(Item)
        BY DEF IInv, TypeOK
    <2>2. CASE UNCHANGED chan
        BY <2>1, <2>2, SameChan
    <2>3. CASE \E item \in Item : item.kind \in {"event", "error"} /\ chan' = Append(chan, item)
      <3>1. PICK item \in Item : item.kind \in {"event", "error"} /\ chan' = Append(chan, item)
          BY <2>3
      <3> QED BY <2>1, <3>1, AppendItem
    <2> QED BY <1>4, <2>2, <2>3
  <1>6. TypeOK'
      BY <1>1, <1>2, <1>3, <1>5 DEF IInv, TypeOK, SameStreams
  <1>7. StreamsAccounted'
      BY <1>1, <1>3, <1>5, QuietStep DEF SameStates
  <1>8. PollFlagHonest'
      BY <1>1, <1>5, PollStep
  <1> QED BY <1>6, <1>7, <1>8 DEF IInv

\* The threads that put an item in the channel and touch no record.
LEMMA ThreadTells ==
    ASSUME IInv, NEW c, Discover \/ (c \in Chat /\ (Watchdog(c) \/ RestartDue(c)))
    PROVE  IInv'
  <1>1. UNCHANGED <<sent, procs, rec, polls, seen, daemon, cooled, faults, base, unwatched>>
      BY DEF Watchdog, Discover, RestartDue
  <1>2. timers' \in [Chat -> Nat]
    <2>1. CASE c \in Chat /\ RestartDue(c)
      <3>1. timers[c] \in Nat /\ timers[c] > 0 /\ timers' = [timers EXCEPT ![c] = timers[c] - 1]
          BY <2>1 DEF RestartDue, IInv, TypeOK
      <3>2. timers[c] - 1 \in Nat
          BY <3>1
      <3> QED BY <3>1, <3>2 DEF IInv, TypeOK
    <2>2. CASE (c \in Chat /\ Watchdog(c)) \/ Discover
        BY <2>2 DEF Watchdog, Discover, IInv, TypeOK
    <2> QED BY <2>1, <2>2
  <1>3. \E item \in Item : item.kind # "exited" /\ chan' = Append(chan, item)
    <2>1. 0 \in Number
        BY SubscriptionsAssumption DEF Number, SubscriptionsAssumption
    <2>2. c \in Chat => \A bad \in BOOLEAN :
              /\ ItemOf("reconcile", c, 0, bad) \in Item
              /\ ItemOf("reconcile", c, 0, bad).kind = "reconcile"
              /\ ItemOf("restart", c, 0, bad) \in Item
              /\ ItemOf("restart", c, 0, bad).kind = "restart"
        BY <2>1, ItemType
    <2>3. \A bad \in BOOLEAN :
              /\ ItemOf("discovered", NoChat, 0, bad) \in Item
              /\ ItemOf("discovered", NoChat, 0, bad).kind = "discovered"
              /\ ItemOf("discoveryError", NoChat, 0, bad) \in Item
              /\ ItemOf("discoveryError", NoChat, 0, bad).kind = "discoveryError"
        BY <2>1, DiscoveryItem
    <2>4. CASE c \in Chat /\ Watchdog(c)
        BY <2>2, <2>4 DEF Watchdog, Tells
    <2>5. CASE c \in Chat /\ RestartDue(c)
        BY <2>2, <2>5 DEF RestartDue, Tells
    <2>6. CASE Discover
        BY <2>3, <2>6 DEF Discover, Discovered, Tells
    <2> QED BY <2>4, <2>5, <2>6
  <1>4. chan' \in Seq(Item) /\ NoNewExit /\ \A d : InChan(d, PollKinds) => InChan(d, PollKinds)'
    <2>1. PICK item \in Item : item.kind # "exited" /\ chan' = Append(chan, item)
        BY <1>3
    <2> QED BY <2>1, AppendItem DEF IInv, TypeOK
  <1>5. TypeOK'
      BY <1>1, <1>2, <1>4 DEF IInv, TypeOK
  <1>6. StreamsAccounted'
      BY <1>1, <1>4, <1>5, QuietStep DEF SameStreams, SameStates, TypeOK
  <1>7. PollFlagHonest'
      BY <1>1, <1>4, PollStep
  <1> QED BY <1>5, <1>6, <1>7 DEF IInv

\* A poll that ends, well or not, tells so.
LEMMA PollEnds ==
    ASSUME IInv, NEW c \in Chat, NEW i \in DOMAIN polls[c], NEW n \in Number,
           NEW bad \in BOOLEAN, PollReturns(c, i, n) \/ PollFails(c, i, bad)
    PROVE  IInv'
  <1>1. UNCHANGED <<sent, procs, rec, timers, seen, daemon, cooled, base, unwatched>>
      BY DEF PollReturns, PollFails
  <1>2. faults' \in 0..MaxFaults
    <2>1. UNCHANGED faults \/ (faults < MaxFaults /\ faults' = faults + 1)
        BY DEF PollReturns, PollFails, Strikes
    <2> QED BY <2>1, StrikesType DEF IInv
  <1>3. polls' = [polls EXCEPT ![c] = Without(polls[c], i)]
      BY DEF PollReturns, PollFails
  <1>4. polls' \in [Chat -> Seq(Number)]
    <2>1. polls[c] \in Seq(Number)
        BY DEF IInv, TypeOK
    <2>2. Without(polls[c], i) \in Seq(Number)
        BY <2>1, WithoutSeq
    <2> QED BY <1>3, <2>2 DEF IInv, TypeOK
  <1>5. \E item \in Item : /\ item.kind \in PollKinds /\ item.chat = c
                           /\ chan' = Append(chan, item)
    <2>1. 0 \in Number
        BY SubscriptionsAssumption DEF Number, SubscriptionsAssumption
    <2>2. \A b \in BOOLEAN :
              /\ ItemOf("polled", c, n, b) \in Item
              /\ ItemOf("polled", c, n, b).kind = "polled"
              /\ ItemOf("polled", c, n, b).chat = c
              /\ ItemOf("pollError", c, 0, b) \in Item
              /\ ItemOf("pollError", c, 0, b).kind = "pollError"
              /\ ItemOf("pollError", c, 0, b).chat = c
        BY <2>1, ItemType
    <2>3. \E b \in BOOLEAN : \/ chan' = Append(chan, ItemOf("polled", c, n, b))
                             \/ chan' = Append(chan, ItemOf("pollError", c, 0, b))
        BY Zenon DEF PollReturns, PollFails, Tells
    <2> QED BY <2>2, <2>3 DEF PollKinds
  <1>6. PICK item \in Item : /\ item.kind \in PollKinds /\ item.chat = c
                             /\ chan' = Append(chan, item)
      BY <1>5
  <1>7. /\ chan' \in Seq(Item) /\ NoNewExit
        /\ \A d : InChan(d, PollKinds) => InChan(d, PollKinds)'
        /\ InChan(c, PollKinds)'
      BY <1>6, AppendItem DEF IInv, TypeOK, PollKinds
  <1>8. TypeOK'
      BY <1>1, <1>2, <1>4, <1>7 DEF IInv, TypeOK
  <1>9. StreamsAccounted'
      BY <1>1, <1>7, <1>8, QuietStep DEF SameStreams, SameStates, TypeOK
  <1>10. \A d \in Chat : polls[d] # <<>> => polls'[d] # <<>> \/ InChan(d, PollKinds)'
      BY <1>3, <1>7 DEF IInv, TypeOK
  <1>11. PollFlagHonest'
      BY <1>1, <1>7, <1>10, PollStep
  <1> QED BY <1>8, <1>9, <1>11 DEF IInv

LEMMA DaemonEnds ==
    ASSUME IInv, DaemonDies
    PROVE  IInv'
  <1>1. UNCHANGED <<sent, rec, polls, timers, chan, seen, cooled, base, unwatched>>
        /\ daemon' = FALSE /\ procs' = AllDead
      BY DEF DaemonDies
  <1>2. faults' \in 0..MaxFaults
      BY StrikesType DEF IInv, DaemonDies, Strikes
  <1>3. SameStreams
      BY <1>1, AllDie DEF IInv
  <1>4. NoNewExit /\ \A d : InChan(d, PollKinds)' <=> InChan(d, PollKinds)
      BY <1>1, SameChan
  <1>5. daemon' \in BOOLEAN
      BY <1>1, Zenon
  <1>6. TypeOK'
      BY <1>1, <1>2, <1>3, <1>5 DEF IInv, TypeOK, SameStreams
  <1>7. StreamsAccounted'
      BY <1>1, <1>3, <1>4, QuietStep DEF SameStates
  <1>8. PollFlagHonest'
      BY <1>1, <1>4, PollStep
  <1> QED BY <1>6, <1>7, <1>8 DEF IInv

\* The end of a stream is told, or its thread fails to wait for it.
LEMMA ReapStep ==
    ASSUME IInv, NEW c \in Chat, NEW i \in DOMAIN procs[c], NEW bad \in BOOLEAN,
           Reap(c, i, bad)
    PROVE  IInv'
  <1>1. UNCHANGED <<sent, rec, polls, timers, seen, daemon, cooled, base>>
      BY DEF Reap
  <1>2. /\ procs[c] \in Seq(Process) /\ Len(procs[c]) = 1 /\ procs[c] # <<>>
        /\ rec[c].state = "running" /\ ~InChan(c, {"exited"})
    <2>1. procs[c] \in Seq(Process) /\ Len(procs[c]) <= 1
        BY DEF IInv, TypeOK, StreamsAccounted
    <2>2. i \in 1..Len(procs[c]) /\ Len(procs[c]) \in Nat
        BY <2>1
    <2>3. Len(procs[c]) = 1
      <3>1. \A n \in Nat : n <= 1 /\ i \in 1..n => n = 1
          OBVIOUS
      <3> QED BY <3>1, <2>1, <2>2
    <2>4. procs[c] # <<>>
        BY <2>1, <2>3
    <2> QED BY <2>1, <2>3, <2>4 DEF IInv, StreamsAccounted
  <1>3. procs' = [procs EXCEPT ![c] = Without(procs[c], i)]
      BY DEF Reap
  <1>4. Without(procs[c], i) \in Seq(Process) /\ Without(procs[c], i) = <<>>
    <2>1. Without(procs[c], i) \in Seq(Process) /\ Len(Without(procs[c], i)) = 0
        BY <1>2, WithoutSeq
    <2> QED BY <2>1
  <1>5. procs' \in [Chat -> Seq(Process)] /\ procs'[c] = <<>>
      BY <1>3, <1>4 DEF IInv, TypeOK
  <1>6. faults' \in 0..MaxFaults
    <2>1. UNCHANGED faults \/ (faults < MaxFaults /\ faults' = faults + 1)
        BY DEF Reap, Strikes
    <2> QED BY <2>1, StrikesType DEF IInv
  <1>7. unwatched' \in [Chat -> BOOLEAN]
    <2>1. unwatched' = unwatched \/ unwatched' = [unwatched EXCEPT ![c] = TRUE]
        BY Zenon DEF Reap
    <2>2. unwatched \in [Chat -> BOOLEAN]
        BY DEF IInv, TypeOK
    <2> QED BY <2>1, <2>2, Zenon
  <1>8. \E item \in Item : /\ item.kind \in {"exited", "error"} /\ item.chat = c
                           /\ chan' = Append(chan, item)
    <2>1. 0 \in Number
        BY SubscriptionsAssumption DEF Number, SubscriptionsAssumption
    <2>2. \A b \in BOOLEAN :
              /\ ItemOf("exited", c, 0, b) \in Item
              /\ ItemOf("exited", c, 0, b).kind = "exited"
              /\ ItemOf("exited", c, 0, b).chat = c
              /\ ItemOf("error", c, 0, b) \in Item
              /\ ItemOf("error", c, 0, b).kind = "error"
              /\ ItemOf("error", c, 0, b).chat = c
        BY <2>1, ItemType
    <2>3. \E b \in BOOLEAN : \/ chan' = Append(chan, ItemOf("exited", c, 0, b))
                             \/ chan' = Append(chan, ItemOf("error", c, 0, b))
        BY Zenon DEF Reap, Tells
    <2> QED BY <2>2, <2>3
  <1>9. PICK item \in Item : /\ item.kind \in {"exited", "error"} /\ item.chat = c
                             /\ chan' = Append(chan, item)
      BY <1>8
  <1>10. chan \in Seq(Item)
      BY DEF IInv, TypeOK
  <1>11. /\ chan' \in Seq(Item)
         /\ \A d, kinds : InChan(d, kinds)' <=> \/ InChan(d, kinds)
                                                \/ item.kind \in kinds /\ d = c
      BY <1>9, <1>10, AppendItem
  <1>12. TypeOK'
      BY <1>1, <1>5, <1>6, <1>7, <1>11 DEF IInv, TypeOK
  <1>13. ASSUME NEW d \in Chat
         PROVE  /\ Len(procs'[d]) <= 1
                /\ procs'[d] # <<>> \/ InChan(d, {"exited"})' => rec'[d].state = "running"
                /\ procs'[d] # <<>> => ~InChan(d, {"exited"})'
                /\ ExitedOnce(d)'
    <2>1. \A j, k \in DOMAIN chan' : 
              /\ chan'[j].kind = "exited" /\ chan'[j].chat = d
              /\ chan'[k].kind = "exited" /\ chan'[k].chat = d
              => j = k
      <3>1. /\ DOMAIN chan' = 1..(Len(chan) + 1) /\ Len(chan) \in Nat
            /\ DOMAIN chan = 1..Len(chan)
            /\ chan'[Len(chan) + 1] = item
            /\ \A j \in 1..Len(chan) : chan'[j] = chan[j]
          BY <1>9, <1>10
      <3>2. d = c => \A j \in 1..Len(chan) : ~(chan[j].kind = "exited" /\ chan[j].chat = d)
          BY <1>2, <3>1 DEF InChan
      <3>3. \A j, k \in 1..Len(chan) : 
              /\ chan[j].kind = "exited" /\ chan[j].chat = d
              /\ chan[k].kind = "exited" /\ chan[k].chat = d
              => j = k
          BY <3>1 DEF IInv, StreamsAccounted
      <3> QED BY <1>9, <3>1, <3>2, <3>3
    <2>2. CASE d = c
        BY <2>1, <2>2, <1>1, <1>2, <1>5 DEF ExitedOnce
    <2>3. CASE d # c
      <3>1. procs'[d] = procs[d] /\ (InChan(d, {"exited"})' <=> InChan(d, {"exited"}))
          BY <2>3, <1>3, <1>11 DEF IInv, TypeOK
      <3> QED BY <2>1, <3>1, <1>1 DEF IInv, StreamsAccounted, ExitedOnce
    <2> QED BY <2>2, <2>3
  <1>14. StreamsAccounted'
      BY <1>13 DEF StreamsAccounted, ExitedOnce
  <1>15. PollFlagHonest'
      BY <1>1, <1>11, PollStep
  <1> QED BY <1>12, <1>14, <1>15 DEF IInv

-----------------------------------------------------------------------------
(* The listener's steps. *)

\* What taking an item of a kind means.
LEMMA Taken ==
    ASSUME TypeOK, NEW kinds, \E kind \in kinds : Takes(kind), chan' = Tail(chan)
    PROVE  /\ chan' \in Seq(Item) /\ NoNewExit
           /\ Head(chan) \in Item /\ Head(chan).kind \in kinds
           /\ \A c, ks : InChan(c, ks) => \/ InChan(c, ks)'
                                          \/ Head(chan).kind \in ks /\ Head(chan).chat = c
  <1>1. chan # <<>> /\ Head(chan).kind \in kinds /\ chan \in Seq(Item)
      BY DEF Takes, TypeOK
  <1> QED BY <1>1, TakeItem

LEMMA ErrorSteps ==
    ASSUME IInv, HandleDiscoveryError \/ HandleStreamError
    PROVE  IInv'
  <1>1. /\ UNCHANGED <<sent, rec, polls, timers, seen, base, unwatched>>
        /\ chan' = Tail(chan)
        /\ \E kind \in {"discoveryError", "error"} : Takes(kind)
      BY DEF HandleDiscoveryError, HandleStreamError
  <1>2. /\ chan' \in Seq(Item) /\ NoNewExit /\ Head(chan) \in Item
        /\ Head(chan).kind \in {"discoveryError", "error"}
        /\ \A c, ks : InChan(c, ks) => \/ InChan(c, ks)'
                                       \/ Head(chan).kind \in ks /\ Head(chan).chat = c
      BY <1>1, Taken DEF IInv
  <1>3. \E wanted \in BOOLEAN : RestartsDaemon(wanted)
    <2>1. Head(chan).bad \in BOOLEAN
        BY <1>2 DEF Item
    <2> QED BY <2>1, Zenon DEF HandleDiscoveryError, HandleStreamError
  <1>4. SameStreams /\ daemon' \in BOOLEAN /\ cooled' \in BOOLEAN /\ faults' \in 0..MaxFaults
      BY <1>3, DaemonRestart DEF IInv
  <1>5. TypeOK'
      BY <1>1, <1>2, <1>4 DEF IInv, TypeOK, SameStreams
  <1>6. StreamsAccounted'
      BY <1>1, <1>2, <1>4, QuietStep DEF SameStates
  <1>7. \A c \in Chat : InChan(c, PollKinds) => InChan(c, PollKinds)'
      BY <1>2 DEF PollKinds
  <1>8. PollFlagHonest'
      BY <1>1, <1>7, PollStep
  <1> QED BY <1>5, <1>6, <1>8 DEF IInv

\* The processes a subscribing step starts.
LEMMA NewProcessType ==
    ASSUME TypeOK, NEW c \in Chat
    PROVE  NewProcess(c) \in Process
  <1>1. sent[c] \in Nat /\ sent[c] <= MaxMessages
      BY SubscriptionsAssumption DEF TypeOK, Number, SubscriptionsAssumption
  <1> DEFINE n == IF sent[c] > ReplayLimit THEN sent[c] - ReplayLimit + 1 ELSE 1
  <1>2. n \in 1..MaxMessages + 1
      BY <1>1, SubscriptionsAssumption DEF SubscriptionsAssumption
  <1> DEFINE at == IF daemon THEN "live" ELSE "dead"
  <1>3. at \in {"live", "deaf", "dead"}
      OBVIOUS
  <1>4. NewProcess(c) = [at |-> at, next |-> n]
      BY DEF NewProcess
  <1> HIDE DEF n, at
  <1>5. [at |-> at, next |-> n] \in Process
      BY <1>2, <1>3 DEF Process
  <1> QED BY <1>4, <1>5

\* Subscribing: a stream is started only where none runs.
LEMMA SubscribeStep ==
    ASSUME IInv, NEW chats \in SUBSET Chat, NEW spawns \in [Chat -> BOOLEAN],
           NEW failed, Subscribes(chats, spawns, failed), NoNewExit,
           \A c \in Chat : /\ failed[c] \in Record
                           /\ failed[c].polling = rec[c].polling
    PROVE  /\ procs' \in [Chat -> Seq(Process)] /\ rec' \in [Chat -> Record]
           /\ faults' \in 0..MaxFaults
           /\ StreamsAccounted'
           /\ \A c \in Chat : rec'[c].polling => rec[c].polling
  <1>1. faults' \in 0..MaxFaults
    <2>1. UNCHANGED faults \/ (faults < MaxFaults /\ faults' = faults + 1)
        BY DEF Subscribes, Strikes
    <2> QED BY <2>1, StrikesType DEF IInv
  <1> DEFINE new == Wanted(chats)
  <1>2. /\ procs' = [c \in Chat |-> IF c \in new /\ spawns[c]
                                    THEN Append(procs[c], NewProcess(c)) ELSE procs[c]]
        /\ rec' = [c \in Chat |-> IF c \notin new THEN rec[c]
                                  ELSE IF spawns[c] THEN Started(c) ELSE failed[c]]
      BY DEF Subscribes
  <1>3. ASSUME NEW c \in Chat
        PROVE  /\ procs'[c] \in Seq(Process) /\ rec'[c] \in Record
               /\ rec'[c].polling => rec[c].polling
               /\ Len(procs'[c]) <= 1
               /\ procs'[c] # <<>> => /\ rec'[c].state = "running"
                                      /\ procs[c] # <<>> \/ rec[c].state # "running"
               /\ rec[c].state = "running" => rec'[c].state = "running"
    <2>1. /\ procs[c] \in Seq(Process) /\ Len(procs[c]) <= 1 /\ rec[c] \in Record
          /\ procs[c] # <<>> => rec[c].state = "running"
        BY DEF IInv, TypeOK, StreamsAccounted
    <2>2. CASE c \notin new
        BY <1>2, <2>1, <2>2
    <2>3. CASE c \in new /\ spawns[c]
      <3>1. rec[c].state # "running" /\ procs[c] = <<>>
          BY <2>1, <2>3 DEF Wanted
      <3>2. procs'[c] = Append(procs[c], NewProcess(c)) /\ rec'[c] = Started(c)
          BY <1>2, <2>3, Zenon
      <3>3. procs'[c] \in Seq(Process) /\ Len(procs'[c]) = 1
          BY <2>1, <3>1, <3>2, NewProcessType DEF IInv
      <3>4. Started(c) \in Record /\ Started(c).state = "running" /\ Started(c).polling = FALSE
          BY <2>1 DEF Started, Record
      <3> QED BY <3>1, <3>2, <3>3, <3>4
    <2>4. CASE c \in new /\ ~spawns[c]
      <3>1. rec[c].state # "running" /\ procs[c] = <<>>
          BY <2>1, <2>4 DEF Wanted
      <3>2. procs'[c] = procs[c] /\ rec'[c] = failed[c]
          BY <1>2, <2>4, Zenon
      <3> QED BY <2>1, <3>1, <3>2
    <2> QED BY <2>2, <2>3, <2>4
  <1> HIDE DEF new
  <1>4. procs' \in [Chat -> Seq(Process)] /\ rec' \in [Chat -> Record]
      BY <1>2, <1>3
  <1>5. StreamsAccounted'
      BY <1>3, StreamStep
  <1> QED BY <1>1, <1>3, <1>4, <1>5

LEMMA DiscoveredStep ==
    ASSUME IInv, HandleDiscovered
    PROVE  IInv'
  <1>1. /\ UNCHANGED <<sent, polls, timers, seen, daemon, cooled, base, unwatched>>
        /\ chan' = Tail(chan)
        /\ \E kind \in {"discovered"} : Takes(kind)
      BY DEF HandleDiscovered
  <1>2. /\ chan' \in Seq(Item) /\ NoNewExit /\ Head(chan) \in Item
        /\ Head(chan).kind \in {"discovered"}
        /\ \A c, ks : InChan(c, ks) => \/ InChan(c, ks)'
                                       \/ Head(chan).kind \in ks /\ Head(chan).chat = c
      BY <1>1, Taken DEF IInv
  <1> DEFINE failed == [c \in Chat |-> [rec[c] EXCEPT !.state = "restarting", !.stale = FALSE]]
  <1>3. \E spawns \in [Chat -> BOOLEAN] : Subscribes(Chat, spawns, failed)
      BY DEF HandleDiscovered
  <1>4. ASSUME NEW c \in Chat
        PROVE  failed[c] \in Record /\ failed[c].polling = rec[c].polling
    <2>1. rec[c] \in Record
        BY DEF IInv, TypeOK
    <2>2. failed[c] = [rec[c] EXCEPT !.state = "restarting", !.stale = FALSE]
        OBVIOUS
    <2> HIDE DEF failed
    <2> QED BY <2>1, <2>2 DEF Record
  <1> HIDE DEF failed
  <1>5. /\ procs' \in [Chat -> Seq(Process)] /\ rec' \in [Chat -> Record]
        /\ faults' \in 0..MaxFaults
        /\ StreamsAccounted'
        /\ \A c \in Chat : rec'[c].polling => rec[c].polling
      BY <1>2, <1>3, <1>4, SubscribeStep
  <1>6. TypeOK'
      BY <1>1, <1>2, <1>5 DEF IInv, TypeOK
  <1>7. \A c \in Chat : InChan(c, PollKinds) => InChan(c, PollKinds)'
      BY <1>2 DEF PollKinds
  <1>8. PollFlagHonest'
      BY <1>1, <1>5, <1>7, PollStep
  <1> QED BY <1>5, <1>6, <1>8 DEF IInv

\* mark_poll_start raises the flag with the poll it starts.
LEMMA ReconcileStep ==
    ASSUME IInv, HandleReconcile
    PROVE  IInv'
  <1>1. /\ UNCHANGED <<sent, procs, timers, seen, daemon, cooled, faults, base, unwatched>>
        /\ chan' = Tail(chan)
        /\ \E kind \in {"reconcile"} : Takes(kind)
      BY DEF HandleReconcile
  <1>2. /\ chan' \in Seq(Item) /\ NoNewExit /\ Head(chan) \in Item
        /\ Head(chan).kind \in {"reconcile"}
        /\ \A c, ks : InChan(c, ks) => \/ InChan(c, ks)'
                                       \/ Head(chan).kind \in ks /\ Head(chan).chat = c
      BY <1>1, Taken DEF IInv
  <1> DEFINE c == Head(chan).chat
  <1>3. c \in Chat /\ rec[c] \in Record /\ sent[c] \in Number /\ polls[c] \in Seq(Number)
      BY <1>2 DEF Item, IInv, TypeOK
  <1>4. \/ UNCHANGED <<rec, polls>>
        \/ /\ rec' = [rec EXCEPT ![c].polling = TRUE]
           /\ polls' = [polls EXCEPT ![c] = Append(polls[c], sent[c])]
      BY DEF HandleReconcile
  <1> HIDE DEF c
  <1>5. [rec[c] EXCEPT !.polling = TRUE] \in Record
        /\ [rec[c] EXCEPT !.polling = TRUE].state = rec[c].state
      BY <1>3 DEF Record
  <1>6. Append(polls[c], sent[c]) \in Seq(Number) /\ Append(polls[c], sent[c]) # <<>>
      BY <1>3
  <1>7. rec' \in [Chat -> Record] /\ polls' \in [Chat -> Seq(Number)] /\ SameStates
    <2>1. CASE UNCHANGED <<rec, polls>>
        BY <2>1 DEF IInv, TypeOK, SameStates
    <2>2. CASE /\ rec' = [rec EXCEPT ![c].polling = TRUE]
               /\ polls' = [polls EXCEPT ![c] = Append(polls[c], sent[c])]
        BY <2>2, <1>3, <1>5, <1>6 DEF IInv, TypeOK, SameStates
    <2> QED BY <1>4, <2>1, <2>2
  <1>8. TypeOK'
      BY <1>1, <1>2, <1>7 DEF IInv, TypeOK
  <1>9. StreamsAccounted'
      BY <1>1, <1>2, <1>7, QuietStep DEF SameStreams, IInv, TypeOK
  <1>10. \A d \in Chat : InChan(d, PollKinds) => InChan(d, PollKinds)'
      BY <1>2 DEF PollKinds
  <1>11. PollFlagHonest'
    <2>1. CASE UNCHANGED <<rec, polls>>
        BY <2>1, <1>10, PollStep
    <2>2. CASE /\ rec' = [rec EXCEPT ![c].polling = TRUE]
               /\ polls' = [polls EXCEPT ![c] = Append(polls[c], sent[c])]
      <3>1. polls'[c] # <<>>
          BY <2>2, <1>3, <1>6 DEF IInv, TypeOK
      <3>2. \A d \in Chat \ {c} : rec'[d] = rec[d] /\ polls'[d] = polls[d]
          BY <2>2 DEF IInv, TypeOK
      <3> QED BY <3>1, <3>2, <1>10 DEF IInv, PollFlagHonest, PollKinds
    <2> QED BY <1>4, <2>1, <2>2
  <1> QED BY <1>8, <1>9, <1>11 DEF IInv

LEMMA KilledSeq ==
    ASSUME NEW ps \in Seq(Process)
    PROVE  Killed(ps) \in Seq(Process) /\ Len(Killed(ps)) = Len(ps)
  <1>1. \A i \in DOMAIN ps : [ps[i] EXCEPT !.at = "dead"] \in Process
    <2> TAKE i \in DOMAIN ps
    <2>1. ps[i] \in Process
        OBVIOUS
    <2> QED BY <2>1 DEF Process
  <1>2. Killed(ps) \in [1..Len(ps) -> Process] /\ Len(ps) \in Nat
      BY <1>1 DEF Killed
  <1> QED BY <1>2

LEMMA PolledType ==
    ASSUME NEW r \in Record, NEW n \in Number, NEW unseen
    PROVE  /\ Polled(r, n, unseen) \in Record
           /\ Polled(r, n, unseen).polling = FALSE
           /\ Polled(r, n, unseen).state = r.state
  <1> DEFINE m == r.missed \/ unseen # {}
             st == r.stale /\ unseen = {}
             p == IF n = 0 THEN r.polled ELSE n
  <1>1. m \in BOOLEAN /\ st \in BOOLEAN
      BY Zenon
  <1>2. p \in Number
      BY DEF Record
  <1>3. Polled(r, n, unseen) = [r EXCEPT !.polling = FALSE, !.polled = p,
                                         !.missed = m, !.stale = st]
      BY DEF Polled
  <1> HIDE DEF m, st, p
  <1> QED BY <1>1, <1>2, <1>3 DEF Record

\* A poll's result lowers the flag; a stale stream is ended.
LEMMA PolledStep ==
    ASSUME IInv, NEW idle \in SUBSET Chat, HandlePolled(idle)
    PROVE  IInv'
  <1>1. /\ UNCHANGED <<sent, polls, timers, seen, daemon, cooled, faults, unwatched>>
        /\ \E kind \in {"polled"} : Takes(kind)
      BY DEF HandlePolled
  <1>2. chan \in Seq(Item) /\ chan # <<>> /\ Head(chan) \in Item /\ Head(chan).kind = "polled"
      BY <1>1, TakeItem DEF Takes, IInv, TypeOK
  <1> DEFINE c == Head(chan).chat
             n == Head(chan).n
             first == RecoversFrom(n, rec[c].polled)
             unseen == (first..n) \ seen[c]
             r == Polled(rec[c], n, unseen)
             marked == [rec EXCEPT ![c] = r]
             stale == {d \in idle : Stale(marked[d])}
             more == [i \in 1..(n + 1 - first) |-> ItemOf("recovered", c, first + i - 1, FALSE)]
  <1>3. c \in Chat /\ n \in Number /\ rec[c] \in Record
      BY <1>2 DEF Item, IInv, TypeOK
  <1>4. /\ rec' = [d \in Chat |-> [marked[d] EXCEPT !.stale = marked[d].stale \/ d \in stale]]
        /\ procs' = [d \in Chat |-> IF d \in stale THEN Killed(procs[d]) ELSE procs[d]]
        /\ chan' = Tail(chan) \o more
        /\ base' = [base EXCEPT ![c] = IF base[c] = 0 THEN n ELSE base[c]]
      BY DEF HandlePolled
  <1>5. more \in Seq(Item) /\ \A i \in DOMAIN more : more[i].kind = "recovered"
    <2>1. first \in 1..n + 1 /\ n \in Nat /\ n <= MaxMessages
        BY <1>3, SubscriptionsAssumption
        DEF RecoversFrom, Oldest, Record, Number, SubscriptionsAssumption
    <2> HIDE DEF first
    <2>2. ASSUME NEW i \in 1..(n + 1 - first)
          PROVE  /\ ItemOf("recovered", c, first + i - 1, FALSE) \in Item
                 /\ ItemOf("recovered", c, first + i - 1, FALSE).kind = "recovered"
      <3>1. first + i - 1 \in Number
          BY <2>1, SubscriptionsAssumption DEF Number, SubscriptionsAssumption
      <3>2. \A bad \in BOOLEAN :
                /\ ItemOf("recovered", c, first + i - 1, bad) \in Item
                /\ ItemOf("recovered", c, first + i - 1, bad).kind = "recovered"
          BY <3>1, <1>3, ItemType
      <3> QED BY <3>2
    <2>3. n + 1 - first \in Nat
        BY <2>1
    <2>4. more \in [1..(n + 1 - first) -> Item]
        BY <2>2, Zenon
    <2>5. \A i \in 1..(n + 1 - first) : more[i].kind = "recovered"
        BY <2>2, Zenon
    <2> HIDE DEF more
    <2>6. more \in Seq(Item) /\ DOMAIN more = 1..(n + 1 - first)
        BY <2>3, <2>4
    <2> QED BY <2>5, <2>6
  <1> HIDE DEF c, n, first, unseen, more
  <1>6. r \in Record /\ r.polling = FALSE /\ r.state = rec[c].state
      BY <1>3, PolledType
  <1> HIDE DEF r
  <1>7. marked \in [Chat -> Record]
        /\ \A d \in Chat : marked[d].state = rec[d].state /\ (d # c => marked[d] = rec[d])
        /\ marked[c].polling = FALSE
      BY <1>3, <1>6 DEF IInv, TypeOK
  <1> HIDE DEF marked, stale
  <1>8. ASSUME NEW d \in Chat
        PROVE  /\ rec'[d] \in Record /\ rec'[d].state = rec[d].state
               /\ rec'[d].polling = marked[d].polling
    <2>1. rec'[d] = [marked[d] EXCEPT !.stale = marked[d].stale \/ d \in stale]
        BY <1>4
    <2>2. marked[d] \in Record /\ marked[d].state = rec[d].state
        BY <1>7
    <2> QED BY <2>1, <2>2 DEF Record
  <1>9. rec' \in [Chat -> Record] /\ SameStates
      BY <1>4, <1>8 DEF SameStates
  <1>10. SameStreams
    <2>1. ASSUME NEW d \in Chat
          PROVE  procs'[d] \in Seq(Process) /\ Len(procs'[d]) = Len(procs[d])
      <3>1. procs[d] \in Seq(Process)
          BY DEF IInv, TypeOK
      <3>2. Killed(procs[d]) \in Seq(Process) /\ Len(Killed(procs[d])) = Len(procs[d])
          BY <3>1, KilledSeq
      <3> QED BY <1>4, <3>1, <3>2
    <2> QED BY <1>4, <2>1 DEF SameStreams
  <1>11. /\ chan' \in Seq(Item) /\ NoNewExit
         /\ \A d : InChan(d, PollKinds) => InChan(d, PollKinds)' \/ d = c
      BY <1>2, <1>4, <1>5, AddRecovered DEF c
  <1>12. base' \in [Chat -> Number]
      BY <1>3, <1>4 DEF IInv, TypeOK
  <1>13. TypeOK'
      BY <1>1, <1>9, <1>10, <1>11, <1>12 DEF IInv, TypeOK, SameStreams
  <1>14. StreamsAccounted'
      BY <1>9, <1>10, <1>11, QuietStep
  <1>15. PollFlagHonest'
    <2>1. \A d \in Chat : rec'[d].polling => rec[d].polling
        BY <1>7, <1>8
    <2>2. ~rec'[c].polling
        BY <1>3, <1>7, <1>8
    <2> QED BY <1>1, <1>11, <2>1, <2>2, PollStep
  <1> QED BY <1>13, <1>14, <1>15 DEF IInv

LEMMA PollErrorStep ==
    ASSUME IInv, HandlePollError
    PROVE  IInv'
  <1>1. /\ UNCHANGED <<sent, polls, timers, seen, base, unwatched>>
        /\ chan' = Tail(chan)
        /\ \E kind \in {"pollError"} : Takes(kind)
      BY DEF HandlePollError
  <1>2. /\ chan' \in Seq(Item) /\ NoNewExit /\ Head(chan) \in Item
        /\ Head(chan).kind \in {"pollError"}
        /\ \A d, ks : InChan(d, ks) => \/ InChan(d, ks)'
                                       \/ Head(chan).kind \in ks /\ Head(chan).chat = d
      BY <1>1, Taken DEF IInv
  <1> DEFINE c == Head(chan).chat
  <1>3. c \in Chat /\ rec[c] \in Record /\ Head(chan).bad \in BOOLEAN
      BY <1>2 DEF Item, IInv, TypeOK
  <1>4. rec' = [rec EXCEPT ![c].polling = FALSE] /\ \E wanted \in BOOLEAN : RestartsDaemon(wanted)
      BY <1>3, Zenon DEF HandlePollError
  <1>5. SameStreams /\ daemon' \in BOOLEAN /\ cooled' \in BOOLEAN /\ faults' \in 0..MaxFaults
      BY <1>4, DaemonRestart DEF IInv
  <1>6. \A d \in Chat : InChan(d, PollKinds) => InChan(d, PollKinds)' \/ d = c
      BY <1>2
  <1> HIDE DEF c
  <1>7. /\ [rec[c] EXCEPT !.polling = FALSE] \in Record
        /\ [rec[c] EXCEPT !.polling = FALSE].state = rec[c].state
        /\ [rec[c] EXCEPT !.polling = FALSE].polling = FALSE
      BY <1>3 DEF Record
  <1>8. rec' \in [Chat -> Record] /\ SameStates /\ ~rec'[c].polling
        /\ \A d \in Chat : rec'[d].polling => rec[d].polling
      BY <1>3, <1>4, <1>7 DEF IInv, TypeOK, SameStates
  <1>9. TypeOK'
      BY <1>1, <1>2, <1>5, <1>8 DEF IInv, TypeOK, SameStreams
  <1>10. StreamsAccounted'
      BY <1>2, <1>5, <1>8, QuietStep
  <1>11. PollFlagHonest'
      BY <1>1, <1>6, <1>8, PollStep
  <1> QED BY <1>9, <1>10, <1>11 DEF IInv

\* A message handled: the record of its chat and the journal change.
LEMMA EventStep ==
    ASSUME IInv, HandleEvent
    PROVE  IInv'
  <1>1. /\ UNCHANGED <<sent, procs, polls, timers, daemon, cooled, faults, base, unwatched>>
        /\ chan' = Tail(chan)
        /\ \E kind \in {"event", "recovered"} : Takes(kind)
      BY DEF HandleEvent
  <1>2. /\ chan' \in Seq(Item) /\ NoNewExit /\ Head(chan) \in Item
        /\ Head(chan).kind \in {"event", "recovered"}
        /\ \A d, ks : InChan(d, ks) => \/ InChan(d, ks)'
                                       \/ Head(chan).kind \in ks /\ Head(chan).chat = d
      BY <1>1, Taken DEF IInv
  <1> DEFINE c == Head(chan).chat
             n == Head(chan).n
             marked == IF Head(chan).kind = "recovered" THEN rec[c]
                       ELSE [rec[c] EXCEPT !.streamed = n, !.missed = FALSE, !.stale = FALSE]
  <1>3. c \in Chat /\ rec[c] \in Record /\ n \in Number
      BY <1>2 DEF Item, IInv, TypeOK
  <1>4. \/ rec' = [rec EXCEPT ![c] = marked] /\ UNCHANGED seen
        \/ /\ rec' = [rec EXCEPT ![c] = [marked EXCEPT !.journaled = n]]
           /\ seen' = [seen EXCEPT ![c] = seen[c] \union {n}]
      BY DEF HandleEvent
  <1>5. marked \in Record /\ marked.state = rec[c].state /\ marked.polling = rec[c].polling
      BY <1>3 DEF Record
  <1>6. \A d \in Chat : InChan(d, PollKinds) => InChan(d, PollKinds)'
      BY <1>2 DEF PollKinds
  <1> HIDE DEF c, n, marked
  <1>7. [marked EXCEPT !.journaled = n] \in Record
        /\ [marked EXCEPT !.journaled = n].state = rec[c].state
        /\ [marked EXCEPT !.journaled = n].polling = rec[c].polling
      BY <1>3, <1>5 DEF Record
  <1>8. rec' \in [Chat -> Record]
        /\ \A d \in Chat : rec'[d].state = rec[d].state /\ rec'[d].polling = rec[d].polling
      BY <1>3, <1>4, <1>5, <1>7 DEF IInv, TypeOK
  <1>9. seen' \in [Chat -> SUBSET Number]
    <2>1. seen \in [Chat -> SUBSET Number] /\ seen[c] \union {n} \in SUBSET Number
        BY <1>3 DEF IInv, TypeOK
    <2>2. UNCHANGED seen \/ seen' = [seen EXCEPT ![c] = seen[c] \union {n}]
        BY <1>4
    <2> QED BY <2>1, <2>2
  <1>10. TypeOK'
      BY <1>1, <1>2, <1>8, <1>9 DEF IInv, TypeOK
  <1>11. StreamsAccounted'
      BY <1>1, <1>2, <1>8, QuietStep DEF SameStreams, SameStates, IInv, TypeOK
  <1>12. PollFlagHonest'
      BY <1>1, <1>6, <1>8, PollStep
  <1> QED BY <1>10, <1>11, <1>12 DEF IInv

\* A scheduled restart: a new stream, or a record that failed and a timer.
LEMMA RestartStep ==
    ASSUME IInv, HandleRestart
    PROVE  IInv'
  <1>1. /\ UNCHANGED <<sent, polls, seen, base, unwatched>>
        /\ chan' = Tail(chan)
        /\ \E kind \in {"restart"} : Takes(kind)
      BY DEF HandleRestart
  <1>2. /\ chan' \in Seq(Item) /\ NoNewExit /\ Head(chan) \in Item
        /\ Head(chan).kind \in {"restart"}
        /\ \A d, ks : InChan(d, ks) => \/ InChan(d, ks)'
                                       \/ Head(chan).kind \in ks /\ Head(chan).chat = d
      BY <1>1, Taken DEF IInv
  <1> DEFINE c == Head(chan).chat
             ended == [rec[c] EXCEPT !.state = "failed", !.stale = FALSE, !.polling = FALSE]
  <1>3. c \in Chat /\ rec[c] \in Record
      BY <1>2 DEF Item, IInv, TypeOK
  <1>4. \A d \in Chat : InChan(d, PollKinds) => InChan(d, PollKinds)'
      BY <1>2 DEF PollKinds
  <1>5. CASE Subscribes({c}, [d \in Chat |-> TRUE], rec) /\ UNCHANGED <<timers, daemon, cooled>>
    <2>1. {c} \in SUBSET Chat /\ [d \in Chat |-> TRUE] \in [Chat -> BOOLEAN]
        BY <1>3, Zenon
    <2>2. \A d \in Chat : rec[d] \in Record /\ rec[d].polling = rec[d].polling
        BY DEF IInv, TypeOK
    <2>3. /\ procs' \in [Chat -> Seq(Process)] /\ rec' \in [Chat -> Record]
          /\ faults' \in 0..MaxFaults
          /\ StreamsAccounted'
          /\ \A d \in Chat : rec'[d].polling => rec[d].polling
        BY <1>2, <1>5, <2>1, <2>2, SubscribeStep
    <2>4. TypeOK'
        BY <1>1, <1>2, <1>5, <2>3 DEF IInv, TypeOK
    <2>5. PollFlagHonest'
        BY <1>1, <1>4, <2>3, PollStep
    <2> QED BY <2>3, <2>4, <2>5 DEF IInv
  <1>6. CASE /\ rec[c].state # "running" /\ Strikes("spawn")
             /\ rec' = [rec EXCEPT ![c] = ended]
             /\ timers' = [timers EXCEPT ![c] = timers[c] + 1]
             /\ \/ UNCHANGED <<procs, daemon, cooled>>
                \/ /\ cooled /\ cooled' = FALSE
                   /\ procs' = AllDead /\ daemon' \in BOOLEAN
    <2>1. SameStreams
      <3>1. UNCHANGED procs => SameStreams
          BY DEF SameStreams, IInv, TypeOK
      <3> QED BY <1>6, <3>1, AllDie DEF IInv
    <2>2. cooled' \in BOOLEAN /\ daemon' \in BOOLEAN
      <3>1. cooled \in BOOLEAN /\ daemon \in BOOLEAN
          BY DEF IInv, TypeOK
      <3>2. CASE UNCHANGED <<procs, daemon, cooled>>
          BY <3>1, <3>2, Zenon
      <3>3. CASE cooled' = FALSE /\ daemon' \in BOOLEAN
          BY <3>3, Zenon
      <3> QED BY <1>6, <3>2, <3>3
    <2>3. faults' \in 0..MaxFaults
        BY <1>6, StrikesType DEF IInv, Strikes
    <2>4. timers' \in [Chat -> Nat]
        BY <1>3, <1>6 DEF IInv, TypeOK
    <2>5. ended \in Record /\ ended.polling = FALSE
        BY <1>3 DEF Record
    <2> HIDE DEF c, ended
    <2>6. rec' \in [Chat -> Record] /\ rec'[c] = ended /\ \A d \in Chat \ {c} : rec'[d] = rec[d]
        BY <1>3, <1>6, <2>5 DEF IInv, TypeOK
    <2>7. TypeOK'
        BY <1>1, <1>2, <2>1, <2>2, <2>3, <2>4, <2>6 DEF IInv, TypeOK, SameStreams
    <2>8. StreamsAccounted'
      <3>1. ASSUME NEW d \in Chat
            PROVE  /\ Len(procs'[d]) <= 1
                   /\ procs'[d] # <<>> => procs[d] # <<>> /\ rec[d].state = "running" /\ d # c
        <4>1. procs[d] \in Seq(Process) /\ procs'[d] \in Seq(Process)
              /\ Len(procs'[d]) = Len(procs[d]) /\ Len(procs[d]) <= 1
            BY <2>1 DEF IInv, TypeOK, SameStreams, StreamsAccounted
        <4>2. procs'[d] # <<>> => procs[d] # <<>>
            BY <4>1
        <4> QED BY <1>6, <4>1, <4>2 DEF IInv, StreamsAccounted
      <3>2. \A d \in Chat : rec[d].state = "running" => rec'[d].state = "running"
          BY <1>6, <2>6
      <3> QED BY <1>2, <3>1, <3>2, StreamStep
    <2>9. PollFlagHonest'
      <3>1. \A d \in Chat : rec'[d].polling => rec[d].polling
          BY <1>3, <2>5, <2>6
      <3> QED BY <1>1, <1>4, <3>1, PollStep
    <2> QED BY <2>7, <2>8, <2>9 DEF IInv
  <1> QED BY <1>5, <1>6 DEF HandleRestart

\* mark_exit: the chat has neither a process nor another such item.
LEMMA ExitedStep ==
    ASSUME IInv, HandleExited
    PROVE  IInv'
  <1>1. /\ UNCHANGED <<sent, polls, seen, base, unwatched>>
        /\ chan' = Tail(chan)
        /\ \E kind \in {"exited"} : Takes(kind)
      BY DEF HandleExited
  <1>2. /\ chan' \in Seq(Item) /\ NoNewExit /\ Head(chan) \in Item
        /\ Head(chan).kind \in {"exited"}
        /\ \A d, ks : InChan(d, ks) => \/ InChan(d, ks)'
                                       \/ Head(chan).kind \in ks /\ Head(chan).chat = d
      BY <1>1, Taken DEF IInv
  <1>0. PICK c : c = Head(chan).chat
      OBVIOUS
  <1>3. c \in Chat /\ rec[c] \in Record /\ Head(chan).bad \in BOOLEAN
      BY <1>0, <1>2 DEF Item, IInv, TypeOK
  <1>4. /\ rec' = [rec EXCEPT ![c] = Exited(rec[c])]
        /\ timers' = [timers EXCEPT ![c] = timers[c] + 1]
      BY <1>0 DEF HandleExited
  <1>5. \E wanted \in BOOLEAN : RestartsDaemon(wanted)
    <2>1. RestartsDaemon(/\ Head(chan).bad
                         /\ rec'[c].exits = RepeatedExits)
        BY <1>0 DEF HandleExited
    <2>2. (/\ Head(chan).bad
           /\ rec'[c].exits = RepeatedExits) \in BOOLEAN
        BY Zenon
    <2> QED BY <2>1, <2>2, Zenon
  <1>6. SameStreams /\ daemon' \in BOOLEAN /\ cooled' \in BOOLEAN /\ faults' \in 0..MaxFaults
      BY <1>5, DaemonRestart DEF IInv
  <1>7. \A d \in Chat : InChan(d, PollKinds) => InChan(d, PollKinds)'
      BY <1>2 DEF PollKinds
  <1>8. InChan(c, {"exited"}) /\ ~InChan(c, {"exited"})'
    <2>1. /\ chan \in Seq(Item) /\ chan # <<>>
          /\ \A i, k \in DOMAIN chan :
                 /\ chan[i].kind = "exited" /\ chan[i].chat = c
                 /\ chan[k].kind = "exited" /\ chan[k].chat = c
                 => i = k
        BY <1>1, <1>3 DEF Takes, IInv, TypeOK, StreamsAccounted
    <2>2. 1 \in DOMAIN chan /\ chan[1] = Head(chan)
        BY <2>1
    <2>3. \A i \in DOMAIN chan' : i \in Nat \ {0} /\ i + 1 \in DOMAIN chan /\ chan'[i] = chan[i + 1]
        BY <1>1, <2>1
    <2>4. \A i \in DOMAIN chan' : i + 1 # 1
        BY <2>3
    <2>5. chan[1].kind = "exited" /\ chan[1].chat = c
        BY <1>0, <1>2, <2>2
    <2>6. \A i \in DOMAIN chan' : ~(chan'[i].kind = "exited" /\ chan'[i].chat = c)
        BY <2>1, <2>2, <2>3, <2>4, <2>5
    <2> QED BY <2>2, <2>5, <2>6 DEF InChan
  <1>9. Exited(rec[c]) \in Record /\ Exited(rec[c]).polling = FALSE
    <2>1. (IF rec[c].exits < RepeatedExits THEN rec[c].exits + 1 ELSE rec[c].exits)
              \in 0..RepeatedExits
        BY <1>3, SubscriptionsAssumption DEF Record, SubscriptionsAssumption
    <2> QED BY <1>3, <2>1 DEF Exited, Record
  <1>10. /\ rec' \in [Chat -> Record] /\ rec'[c] = Exited(rec[c])
         /\ \A d \in Chat \ {c} : rec'[d] = rec[d]
      BY <1>3, <1>4, <1>9 DEF IInv, TypeOK
  <1>11. timers' \in [Chat -> Nat]
      BY <1>3, <1>4 DEF IInv, TypeOK
  <1>12. TypeOK'
      BY <1>1, <1>2, <1>6, <1>10, <1>11 DEF IInv, TypeOK, SameStreams
  <1>13. ASSUME NEW d \in Chat
         PROVE  /\ Len(procs'[d]) <= 1
                /\ procs'[d] # <<>> \/ InChan(d, {"exited"})' => rec'[d].state = "running"
                /\ procs'[d] # <<>> => ~InChan(d, {"exited"})'
                /\ ExitedOnce(d)'
    <2>1. procs[d] \in Seq(Process) /\ procs'[d] \in Seq(Process)
          /\ Len(procs'[d]) = Len(procs[d]) /\ Len(procs[d]) <= 1
        BY <1>6 DEF IInv, TypeOK, SameStreams, StreamsAccounted
    <2>2. procs'[d] # <<>> => procs[d] # <<>>
        BY <2>1
    <2>3. ExitedOnce(d)'
        BY <1>2 DEF NoNewExit, IInv, StreamsAccounted, ExitedOnce
    <2>4. d = c => procs[d] = <<>>
        BY <1>3, <1>8 DEF IInv, StreamsAccounted
    <2>5. InChan(d, {"exited"})' => InChan(d, {"exited"})
        BY <1>2 DEF NoNewExit
    <2>6. d = c => ~InChan(d, {"exited"})'
        BY <1>8
    <2> QED BY <1>10, <2>1, <2>2, <2>3, <2>4, <2>5, <2>6 DEF IInv, StreamsAccounted
  <1>14. StreamsAccounted'
      BY <1>13 DEF StreamsAccounted, ExitedOnce
  <1>15. PollFlagHonest'
    <2>1. \A d \in Chat : rec'[d].polling => rec[d].polling
        BY <1>3, <1>9, <1>10
    <2> QED BY <1>1, <1>7, <2>1, PollStep
  <1> QED BY <1>12, <1>14, <1>15 DEF IInv

-----------------------------------------------------------------------------
LEMMA InitHolds == Init => IInv
  <1> SUFFICES ASSUME Init PROVE IInv
      OBVIOUS
  <1>1. 0 \in Number /\ 0 \in 0..RepeatedExits /\ 0 \in 0..MaxFaults
      BY SubscriptionsAssumption DEF Number, SubscriptionsAssumption
  <1>2. NewRecord \in Record /\ NewRecord.polling = FALSE
      BY <1>1 DEF NewRecord, Record
  <1>3. Discovered \in Item /\ Discovered.kind = "discovered"
      BY <1>1 DEF Discovered, ItemOf, Item
  <1>4. chan = <<Discovered>>
      BY DEF Init
  <1>5. TypeOK
      BY <1>1, <1>2, <1>3 DEF Init, TypeOK
  <1>6. \A c \in Chat : procs[c] = <<>> /\ Len(procs[c]) <= 1 /\ ~rec[c].polling
    <2>1. Len(<<>>) <= 1
        OBVIOUS
    <2> QED BY <2>1, <1>2 DEF Init
  <1>7. DOMAIN chan = {1} /\ chan[1].kind # "exited"
      BY <1>3, <1>4
  <1>8. \A c \in Chat : ~InChan(c, {"exited"})
      BY <1>7 DEF InChan
  <1>9. StreamsAccounted
    <2>1. \A i, k \in DOMAIN chan : i = k
        BY <1>7
    <2> QED BY <1>6, <1>8, <2>1, Zenon DEF StreamsAccounted
  <1> QED BY <1>5, <1>6, <1>9 DEF IInv, PollFlagHonest

LEMMA HandlerKeeps ==
    ASSUME IInv, Handle
    PROVE  IInv'
    BY DiscoveredStep, ErrorSteps, ReconcileStep, PolledStep, PollErrorStep,
       RestartStep, ExitedStep, EventStep DEF Handle

LEMMA IdleKeeps == IInv /\ UNCHANGED vars => IInv'
  <1> SUFFICES ASSUME IInv, UNCHANGED vars PROVE IInv'
      OBVIOUS
  <1>1. UNCHANGED <<sent, procs, rec, polls, timers, chan, seen, daemon,
                    cooled, faults, base, unwatched>>
      BY DEF vars
  <1> QED BY <1>1 DEF IInv, TypeOK, StreamsAccounted, PollFlagHonest, InChan

\* IInv holds in every behaviour, for any chats, bounds and faults.
THEOREM SubscriptionInvariant == Spec => []IInv
  <1>1. Init => IInv
      BY InitHolds
  <1>2. IInv /\ [Next]_vars => IInv'
    <2> SUFFICES ASSUME IInv, [Next]_vars PROVE IInv'
        OBVIOUS
    <2>1. CASE Handle
        BY <2>1, HandlerKeeps
    <2>2. CASE DaemonDies
        BY <2>2, DaemonEnds
    <2>3. ASSUME NEW c, Discover \/ (c \in Chat /\ (Watchdog(c) \/ RestartDue(c))) PROVE IInv'
        BY <2>3, ThreadTells
    <2>4. ASSUME NEW c, CoolsDown \/ (c \in Chat /\ Send(c)) PROVE IInv'
        BY <2>4, TimesAndSends
    <2>5. ASSUME NEW c \in Chat, NEW i \in DOMAIN polls[c],
                 \/ \E n \in Number : PollReturns(c, i, n)
                 \/ \E bad \in BOOLEAN : PollFails(c, i, bad)
          PROVE  IInv'
      <3>1. 0 \in Number
          BY SubscriptionsAssumption DEF Number, SubscriptionsAssumption
      <3> QED BY <2>5, <3>1, PollEnds
    <2>6. ASSUME NEW c \in Chat, NEW i \in DOMAIN procs[c],
                 \/ Emit(c, i) \/ Exits(c, i)
                 \/ \E b \in BOOLEAN :
                        GoesDeaf(c, i, b) \/ ReportsError(c, i, b) \/ Reap(c, i, b)
          PROVE  IInv'
        BY <2>6, StreamActs, ReapStep
    <2>7. CASE UNCHANGED vars
        BY <2>7, IdleKeeps
    <2> QED BY <2>1, <2>2, <2>3, <2>4, <2>5, <2>6, <2>7 DEF Next
  <1> QED BY <1>1, <1>2, PTL DEF Spec

\* A chat never has two subscription processes.
THEOREM OneStream == Spec => []OneStreamPerChat
  <1>1. IInv => OneStreamPerChat
      BY DEF IInv, StreamsAccounted, OneStreamPerChat
  <1> QED BY <1>1, SubscriptionInvariant, PTL

\* While poll_in_progress is set, a poll is on its way that will clear it.
THEOREM PollingGoesOn == Spec => []PollFlagHonest
  <1>1. IInv => PollFlagHonest
      BY DEF IInv
  <1> QED BY <1>1, SubscriptionInvariant, PTL
=============================================================================
