------------------------------ MODULE LogRing -------------------------------
(***************************************************************************)
(* Package internal/obs, the ring buffer behind the process logger, and    *)
(* the SSE handler that tails it.  The critical sections of Ring.mu are    *)
(* single steps; what Write does after it has unlocked is not.             *)
(*                                                                         *)
(* Lines are numbered in the order in which they enter the buffer.  A      *)
(* stream is one run of handleLogStream, and its channel.  slog's handler  *)
(* holds its own mutex around Write, so one Write runs at a time; it       *)
(* releases that mutex with defer, so a panic in Write does not keep it.   *)
(***************************************************************************)
EXTENDS Integers, Sequences

CONSTANTS Size,      \* LOG_RING_SIZE
          Cap,       \* capacity of a subscriber's channel
          History,   \* lines replayed to a new viewer
          Recent, MaxRecent,  \* lines of /logs/recent: by default, at most
          Streams,   \* runs of handleLogStream
          MaxLines   \* bound: lines written in a behaviour

ASSUME RingAssumption ==
    /\ Size \in Int
    /\ Cap \in Nat \ {0}
    /\ History \in Nat
    /\ Recent \in Nat /\ MaxRecent \in Nat
    /\ MaxLines \in Nat

\* Lines the ring retains.
Slots == IF Size <= 0 THEN 1 ELSE Size

VARIABLES buf, next, count,  \* the ring
          subs,              \* channels in Ring.subs
          queue, closed,     \* contents of the channels; the closed ones
          written,           \* lines that have entered the ring
          line, pending,     \* Write in progress: its line, channels still to serve
          panicked,          \* a Write has panicked
          at, seen,          \* the viewers: where they are, what they were sent
          joined, dropped    \* history: written when a stream subscribed; the
                             \* lines its channel was too full to take

ring == <<buf, next, count, written>>
vars == <<buf, next, count, subs, queue, closed, written, line, pending,
          panicked, at, seen, joined, dropped>>

Init ==
    /\ buf = [i \in 0..Slots - 1 |-> 0]
    /\ next = 0
    /\ count = 0
    /\ subs = {}
    /\ queue = [s \in Streams |-> <<>>]
    /\ closed = {}
    /\ written = 0
    /\ line = 0
    /\ pending = {}
    /\ panicked = FALSE
    /\ at = [s \in Streams |-> "new"]
    /\ seen = [s \in Streams |-> <<>>]
    /\ joined = [s \in Streams |-> 0]
    /\ dropped = [s \in Streams |-> {}]

-----------------------------------------------------------------------------

\* Go's % truncates towards zero.
Rem(a, b) == IF a >= 0 THEN a % b ELSE 0 - ((0 - a) % b)

\* Faulty variant of Start: the oldest line is taken to be at the write head.
StartAtHead(n) == next

\* The slot of the oldest of the n most recent lines.
Start(n) == Rem(Rem(next - n, Slots) + Slots, Slots)

Snapshot(n) ==
    LET m == IF n <= 0 \/ n > count THEN count ELSE n
    IN  [i \in 1..m |-> buf[Rem(Start(m) + i - 1, Slots)]]

\* handleLogsRecent, for the query n=q.
LogsRecent(q) == Snapshot(IF q > 0 /\ q <= MaxRecent THEN q ELSE Recent)

\* Faulty variant of Advance: the write head does not wrap around.
AdvanceNoWrap(i) == i + 1

Advance(i) == Rem(i + 1, Slots)

\* Write, up to the unlock: the line is stored and the subscribers are copied.
WriteLine ==
    /\ line = 0
    /\ written < MaxLines
    /\ buf' = [buf EXCEPT ![next] = written + 1]
    /\ next' = Advance(next)
    /\ count' = IF count < Slots THEN count + 1 ELSE count
    /\ written' = written + 1
    /\ pending' = subs
    /\ line' = IF subs = {} THEN 0 ELSE written + 1
    /\ UNCHANGED <<subs, queue, closed, panicked, at, seen, joined, dropped>>

\* Faulty variant of Send: the send waits for room in the channel.
SendBlocking(s) ==
    /\ s \in pending
    /\ s \in closed \/ Len(queue[s]) < Cap
    /\ IF s \in closed
       THEN panicked' = TRUE /\ pending' = {} /\ line' = 0 /\ UNCHANGED queue
       ELSE /\ queue' = [queue EXCEPT ![s] = Append(@, line)]
            /\ pending' = pending \ {s}
            /\ line' = IF pending = {s} THEN 0 ELSE line
            /\ UNCHANGED panicked
    /\ UNCHANGED <<ring, subs, closed, at, seen, joined, dropped>>

\* Faulty variant of Send: a full channel ends the loop.
SendGivesUp(s) ==
    /\ s \in pending
    /\ panicked' = (panicked \/ s \in closed)
    /\ IF s \notin closed /\ Len(queue[s]) < Cap
       THEN /\ queue' = [queue EXCEPT ![s] = Append(@, line)]
            /\ pending' = pending \ {s}
            /\ line' = IF pending = {s} THEN 0 ELSE line
            /\ UNCHANGED dropped
       ELSE /\ dropped' = [dropped EXCEPT ![s] = @ \cup {line}]
            /\ pending' = {}
            /\ line' = 0
            /\ UNCHANGED queue
    /\ UNCHANGED <<ring, subs, closed, at, seen, joined>>

\* Write, after the unlock: one channel of the copy, in any order.  A full
\* channel is skipped; a send on a closed one panics and ends the Write.
Send(s) ==
    /\ s \in pending
    /\ \/ /\ s \in closed
          /\ panicked' = TRUE
          /\ pending' = {}
          /\ line' = 0
          /\ UNCHANGED <<queue, dropped>>
       \/ /\ s \notin closed
          /\ \/ /\ Len(queue[s]) < Cap
                /\ queue' = [queue EXCEPT ![s] = Append(@, line)]
                /\ UNCHANGED dropped
             \/ /\ Len(queue[s]) = Cap
                /\ dropped' = [dropped EXCEPT ![s] = @ \cup {line}]
                /\ UNCHANGED queue
          /\ pending' = pending \ {s}
          /\ line' = IF pending = {s} THEN 0 ELSE line
          /\ UNCHANGED panicked
    /\ UNCHANGED <<ring, subs, closed, at, seen, joined>>

-----------------------------------------------------------------------------

\* handleLogStream: recent history first.
Replay(s) ==
    /\ at[s] = "new"
    /\ seen' = [seen EXCEPT ![s] = Snapshot(History)]
    /\ at' = [at EXCEPT ![s] = "replayed"]
    /\ UNCHANGED <<ring, subs, queue, closed, line, pending, panicked, joined, dropped>>

\* Faulty variant of Subscribe: the history is sent again once the tail is live.
SubscribeThenReplay(s) ==
    /\ at[s] = "replayed"
    /\ subs' = subs \cup {s}
    /\ at' = [at EXCEPT ![s] = "live"]
    /\ joined' = [joined EXCEPT ![s] = written]
    /\ seen' = [seen EXCEPT ![s] = @ \o Snapshot(History)]
    /\ UNCHANGED <<ring, queue, closed, line, pending, panicked, dropped>>

Subscribe(s) ==
    /\ at[s] = "replayed"
    /\ subs' = subs \cup {s}
    /\ at' = [at EXCEPT ![s] = "live"]
    /\ joined' = [joined EXCEPT ![s] = written]
    /\ UNCHANGED <<ring, queue, closed, line, pending, panicked, seen, dropped>>

Receive(s) ==
    /\ at[s] = "live"
    /\ queue[s] # <<>>
    /\ seen' = [seen EXCEPT ![s] = Append(@, Head(queue[s]))]
    /\ queue' = [queue EXCEPT ![s] = Tail(@)]
    /\ UNCHANGED <<ring, subs, closed, line, pending, panicked, at, joined, dropped>>

\* The viewer has gone: cancel() unregisters the channel and closes it.
Cancel(s) ==
    /\ at[s] = "live"
    /\ subs' = subs \ {s}
    /\ closed' = closed \cup {s}
    /\ at' = [at EXCEPT ![s] = "gone"]
    /\ UNCHANGED <<ring, queue, line, pending, panicked, seen, joined, dropped>>

Tailer(s) == Replay(s) \/ Subscribe(s) \/ Receive(s) \/ Cancel(s)

\* The bound on lines is reached and every viewer has gone.
Quiescent ==
    /\ written = MaxLines /\ line = 0
    /\ \A s \in Streams : at[s] = "gone"
    /\ UNCHANGED vars

Next == WriteLine \/ (\E s \in Streams : Send(s) \/ Tailer(s)) \/ Quiescent

Spec == Init /\ [][Next]_vars

\* A goroutine inside Write keeps running; viewers may be as slow as they like.
FairSpec == Spec /\ WF_vars(\E s \in Streams : Send(s))

-----------------------------------------------------------------------------

\* Types; a channel never holds more than its capacity.
TypeOK ==
    /\ buf \in [0..Slots - 1 -> 0..MaxLines]
    /\ next \in 0..Slots - 1 /\ count \in 0..Slots
    /\ written \in 0..MaxLines /\ line \in 0..MaxLines
    /\ subs \subseteq Streams /\ closed \subseteq Streams /\ pending \subseteq Streams
    /\ at \in [Streams -> {"new", "replayed", "live", "gone"}]
    /\ \A s \in Streams : Len(queue[s]) <= Cap
    /\ panicked \in BOOLEAN

\* /logs/recent?n=q answers with exactly the most recent lines, oldest first, as
\* many as were asked for and are kept: however often the ring has wrapped around,
\* and for every q, with the default for one that makes no sense.
SnapshotIsRecent ==
    \A q \in -1..MaxRecent + 1 :
        LET asked == IF q < 1 \/ q > MaxRecent THEN Recent ELSE q
            kept == IF written < Slots THEN written ELSE Slots
            m == IF asked = 0 \/ asked > kept THEN kept ELSE asked
        IN  LogsRecent(q) = [i \in 1..m |-> written - m + i]

\* A viewer is sent every line at most once and in the order of the log, over
\* the change from history to live tail and whatever is dropped.
InOrder ==
    \A s \in Streams :
        LET all == seen[s] \o queue[s]
        IN  \A i \in 1..Len(all) - 1 : all[i] < all[i + 1]

\* A connected viewer gets every line written since it subscribed, except the
\* ones its own channel was too full to take: another viewer that is behind, or
\* leaves, costs it nothing, unless a Write has panicked half way.
OnlyOwnBacklogDrops ==
    ~panicked => \A s \in Streams : at[s] = "live" =>
        \A l \in joined[s] + 1..written :
            \/ l \in dropped[s]
            \/ l = line /\ s \in pending
            \/ \E i \in 1..Len(seen[s]) : seen[s][i] = l
            \/ \E i \in 1..Len(queue[s]) : queue[s][i] = l

\* "logging must never block ... the money path": a Write always finishes, even
\* if no viewer ever reads.
WriteFinishes == line # 0 ~> line = 0

\* Logging does no harm to the goroutine that logs: no Write ever panics.
NeverPanics == ~panicked
=============================================================================
