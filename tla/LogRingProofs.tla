--------------------------- MODULE LogRingProofs ----------------------------
(***************************************************************************)
(* The log ring and its viewers, for every size of the ring and of the     *)
(* channels, any number of viewers and any number of lines.                *)
(***************************************************************************)
EXTENDS LogRing, SequenceTheorems, TLAPS

\* Where the line written k lines ago is, counting from the newest.
SlotOf(k) == IF k <= next THEN next - k ELSE next - k + Slots

\* The ring holds the newest lines, each in the slot its age says.
RingInv ==
    /\ count = IF written < Slots THEN written ELSE Slots
    /\ \A k \in 1..count : buf[SlotOf(k)] = written - k + 1

\* A Write in progress works on the newest line.
WriteInv == IF pending = {} THEN line = 0 ELSE line = written /\ written > 0

\* Registered channels belong to connected viewers, closed ones to those gone.
\* Nobody is served before having subscribed.
ViewerInv ==
    /\ \A s \in Streams : s \in subs <=> at[s] = "live"
    /\ \A s \in Streams : s \in closed <=> at[s] = "gone"
    /\ \A s \in Streams : at[s] \in {"new", "replayed"} => queue[s] = <<>> /\ s \notin pending

Rising(q) == \A i, j \in 1..Len(q) : i < j => q[i] < q[j]
AllBelow(q, l) == \A i \in 1..Len(q) : q[i] < l

\* Sent lines come before waiting ones, both in order, and both before a line
\* still to be sent.
OrderOf(s) ==
    /\ Rising(seen[s]) /\ Rising(queue[s])
    /\ \A j \in 1..Len(queue[s]) : AllBelow(seen[s], queue[s][j])
    /\ AllBelow(seen[s], written + 1) /\ AllBelow(queue[s], written + 1)
    /\ s \in pending => AllBelow(seen[s], line) /\ AllBelow(queue[s], line)

OrderInv == \A s \in Streams : OrderOf(s)

SeqTypes ==
    /\ queue \in [Streams -> Seq(Nat)]
    /\ seen \in [Streams -> Seq(Nat)]
    /\ joined \in [Streams -> Nat]
    /\ dropped \in [Streams -> SUBSET Nat]

\* The inductive invariant of the ring and its viewers.
LogInv ==
    /\ TypeOK /\ SeqTypes /\ RingInv /\ WriteInv /\ ViewerInv /\ OrderInv
    /\ OnlyOwnBacklogDrops

-----------------------------------------------------------------------------
(* Arithmetic of the ring.                                                 *)

\* NewRing has room for a line, whatever size it is asked for.
LEMMA SlotsType == Slots \in Nat /\ Slots >= 1
BY RingAssumption DEF Slots

\* One turn around the ring at most is ever taken.
LEMMA Turn ==
    ASSUME NEW S \in Nat, S >= 1, NEW x \in 0..2 * S - 1
    PROVE  x % S = IF x < S THEN x ELSE x - S
OBVIOUS

\* Go's remainder within one turn, on both sides of zero.
LEMMA RemTurn ==
    ASSUME NEW x \in (0 - Slots)..2 * Slots - 1
    PROVE  Rem(x, Slots) = IF x = 0 - Slots THEN 0
                           ELSE IF x < Slots THEN x ELSE x - Slots
<1>1. Slots \in Nat /\ Slots >= 1
  BY SlotsType
<1>2. CASE x >= 0
  <2>1. x \in 0..2 * Slots - 1
    BY <1>1, <1>2
  <2>2. x % Slots = IF x < Slots THEN x ELSE x - Slots
    BY <1>1, <2>1, Turn
  <2> QED BY <1>1, <1>2, <2>2 DEF Rem
<1>3. CASE ~(x >= 0)
  <2>1. 0 - x \in 0..2 * Slots - 1
    BY <1>1, <1>3
  <2>2. (0 - x) % Slots = IF 0 - x < Slots THEN 0 - x ELSE 0 - x - Slots
    BY <1>1, <2>1, Turn
  <2> HIDE DEF Slots
  <2> QED BY <1>1, <1>3, <2>2 DEF Rem
<1> QED BY <1>2, <1>3

\* Snapshot(n) is the newest lines, oldest first: n of them if n are kept, all
\* that are kept if n is zero or more.
LEMMA SnapshotValue ==
    ASSUME LogInv, NEW n \in Nat
    PROVE  LET m == IF n = 0 \/ n > count THEN count ELSE n
           IN  /\ m \in 0..count
               /\ Snapshot(n) = [i \in 1..m |-> written - m + i]
<1> DEFINE m == IF n <= 0 \/ n > count THEN count ELSE n
<1>1. Slots \in Nat /\ Slots >= 1
  BY SlotsType
<1>2. next \in 0..Slots - 1 /\ count \in 0..Slots /\ written \in Nat
  BY DEF LogInv, TypeOK
<1>3. m \in 0..count
  BY <1>1, <1>2
<1>4. Snapshot(n) = [i \in 1..m |-> buf[Rem(Start(m) + i - 1, Slots)]]
  BY DEF Snapshot
<1>5. ASSUME NEW i \in 1..m PROVE buf[Rem(Start(m) + i - 1, Slots)] = written - m + i
  <2> HIDE DEF m
  <2>1. Rem(next - m, Slots) = IF next - m = 0 - Slots THEN 0 ELSE next - m
    BY <1>1, <1>2, <1>3, <1>5, RemTurn
  <2>2. Start(m) = IF m <= next THEN next - m ELSE IF next - m = 0 - Slots THEN 0
                                                  ELSE next - m + Slots
    <3>1. Rem(next - m, Slots) + Slots \in (0 - Slots)..2 * Slots - 1
      BY <1>1, <1>2, <1>3, <2>1
    <3> QED BY <1>1, <1>2, <1>3, <2>1, <3>1, RemTurn DEF Start
  <2>3. Start(m) + i - 1 \in (0 - Slots)..2 * Slots - 1
    BY <1>1, <1>2, <1>3, <1>5, <2>2
  <2> DEFINE k == m - i + 1
  <2>4. Rem(Start(m) + i - 1, Slots) = SlotOf(k)
    BY <1>1, <1>2, <1>3, <1>5, <2>2, <2>3, RemTurn DEF SlotOf
  <2>5. k \in 1..count
    BY <1>2, <1>3, <1>5
  <2>6. buf[SlotOf(k)] = written - k + 1
    <3> HIDE DEF k
    <3> QED BY <2>5 DEF LogInv, RingInv
  <2> QED BY <1>2, <1>3, <1>5, <2>4, <2>6
<1>6. m = IF n = 0 \/ n > count THEN count ELSE n
  OBVIOUS
<1> HIDE DEF m
<1> QED BY <1>3, <1>4, <1>5, <1>6

-----------------------------------------------------------------------------
(* The actions.                                                            *)

\* The invariant holds initially.
LEMMA LogInit == Init => LogInv
<1> SUFFICES ASSUME Init PROVE LogInv
  OBVIOUS
<1>1. Slots \in Nat /\ Slots >= 1
  BY SlotsType
<1>2. TypeOK /\ SeqTypes
  <2>1. SeqTypes
    BY DEF Init, SeqTypes
  <2>2. \A s \in Streams : Len(queue[s]) <= Cap
    BY RingAssumption DEF Init
  <2>3. buf \in [0..Slots - 1 -> 0..MaxLines]
    <3>1. 0 \in 0..MaxLines
      BY RingAssumption
    <3> QED BY <3>1 DEF Init
  <2>4. next \in 0..Slots - 1 /\ count \in 0..Slots /\ written \in 0..MaxLines /\ line \in 0..MaxLines
    BY <1>1, RingAssumption DEF Init
  <2> QED BY <2>1, <2>2, <2>3, <2>4 DEF Init, TypeOK
<1>3. RingInv /\ WriteInv /\ ViewerInv
  BY <1>1 DEF Init, RingInv, WriteInv, ViewerInv
<1>4. OrderInv
  BY DEF Init, OrderInv, OrderOf, Rising, AllBelow
<1>5. OnlyOwnBacklogDrops
  BY DEF Init, OnlyOwnBacklogDrops
<1> QED BY <1>2, <1>3, <1>4, <1>5 DEF LogInv

\* A line enters the ring in place of the oldest.
LEMMA WriteLineStep == ASSUME LogInv, WriteLine PROVE LogInv'
<1>0. Slots \in Nat /\ Slots >= 1 /\ MaxLines \in Nat
  BY SlotsType, RingAssumption
<1>1. /\ next \in 0..Slots - 1 /\ count \in 0..Slots /\ written \in 0..MaxLines
      /\ buf \in [0..Slots - 1 -> 0..MaxLines] /\ pending = {} /\ written < MaxLines
  BY DEF LogInv, TypeOK, WriteInv, WriteLine
<1>2. next' = IF next + 1 = Slots THEN 0 ELSE next + 1
  <2>1. next + 1 \in (0 - Slots)..2 * Slots - 1
    BY <1>0, <1>1
  <2> HIDE DEF Slots
  <2> QED BY <1>0, <1>1, <2>1, RemTurn DEF WriteLine, Advance
<1>3. TypeOK' /\ SeqTypes'
  BY <1>0, <1>1, <1>2 DEF LogInv, TypeOK, SeqTypes, WriteLine
<1>4. RingInv'
  <2>1. count' = IF count < Slots THEN count + 1 ELSE count
    BY DEF WriteLine
  <2>2. count' = IF written' < Slots THEN written' ELSE Slots
    BY <1>0, <1>1, <2>1 DEF LogInv, RingInv, WriteLine
  <2>3. ASSUME NEW k \in 1..count' PROVE buf'[SlotOf(k)'] = written' - k + 1
    <3>1. written' = written + 1 /\ buf' = [buf EXCEPT ![next] = written + 1]
      BY DEF WriteLine
    <3>2. CASE k = 1
      <4>1. SlotOf(k)' = next
        BY <1>0, <1>1, <1>2, <3>2 DEF SlotOf
      <4> QED BY <1>1, <3>1, <3>2, <4>1
    <3>3. CASE k # 1
      <4>1. k - 1 \in 1..count /\ k \in Int
        BY <1>0, <1>1, <2>1, <2>3, <3>3
      <4>2. SlotOf(k)' = SlotOf(k - 1) /\ SlotOf(k - 1) # next
        BY <1>0, <1>1, <1>2, <2>1, <2>3, <4>1 DEF SlotOf
      <4>3. buf[SlotOf(k - 1)] = written - (k - 1) + 1
        BY <4>1 DEF LogInv, RingInv
      <4>4. SlotOf(k - 1) \in 0..Slots - 1
        BY <1>0, <1>1, <4>1 DEF SlotOf
      <4> QED BY <1>1, <3>1, <4>1, <4>2, <4>3, <4>4
    <3> QED BY <3>2, <3>3
  <2> QED BY <2>2, <2>3 DEF RingInv
<1>5. WriteInv' /\ ViewerInv'
  BY <1>1 DEF LogInv, WriteInv, ViewerInv, WriteLine
<1>6. OrderInv'
  <2> SUFFICES ASSUME NEW s \in Streams PROVE OrderOf(s)'
    BY DEF OrderInv
  <2>1. OrderOf(s) /\ seen[s] \in Seq(Nat) /\ queue[s] \in Seq(Nat)
    BY DEF LogInv, OrderInv, SeqTypes
  <2>2. UNCHANGED <<seen, queue>> /\ written' = written + 1
    BY DEF WriteLine
  <2>3. AllBelow(seen[s], written + 1 + 1) /\ AllBelow(queue[s], written + 1 + 1)
    <3>1. \A i \in 1..Len(seen[s]) : seen[s][i] \in Nat /\ seen[s][i] < written + 1
      BY <2>1 DEF OrderOf, AllBelow
    <3>2. \A i \in 1..Len(queue[s]) : queue[s][i] \in Nat /\ queue[s][i] < written + 1
      BY <2>1 DEF OrderOf, AllBelow
    <3> QED BY <1>1, <3>1, <3>2 DEF AllBelow
  <2>4. s \in pending' => line' = written + 1
    BY DEF WriteLine
  <2> QED BY <2>1, <2>2, <2>3, <2>4 DEF OrderOf, Rising, AllBelow
<1>7. OnlyOwnBacklogDrops'
  <2> SUFFICES ASSUME ~panicked', NEW s \in Streams, at'[s] = "live",
                      NEW l \in joined'[s] + 1..written'
               PROVE  \/ l \in dropped'[s]
                      \/ l = line' /\ s \in pending'
                      \/ \E i \in 1..Len(seen'[s]) : seen'[s][i] = l
                      \/ \E i \in 1..Len(queue'[s]) : queue'[s][i] = l
    BY DEF OnlyOwnBacklogDrops
  <2>1. /\ ~panicked /\ at[s] = "live" /\ joined[s] \in Nat /\ s \in subs
        /\ UNCHANGED <<seen, queue, joined, dropped>> /\ written' = written + 1
    BY DEF WriteLine, LogInv, SeqTypes, ViewerInv
  <2>2. CASE l = written + 1
    BY <2>1, <2>2 DEF WriteLine
  <2>3. CASE l # written + 1
    <3>1. l \in joined[s] + 1..written
      BY <1>1, <2>1, <2>3
    <3> QED BY <1>1, <2>1, <3>1 DEF LogInv, OnlyOwnBacklogDrops
  <2> QED BY <2>2, <2>3
<1> QED BY <1>3, <1>4, <1>5, <1>6, <1>7 DEF LogInv

\* Every line written since s subscribed has been dropped by s, is about to be
\* sent to s, or has been.
Served(s) ==
    \A l \in joined[s] + 1..written :
        \/ l \in dropped[s]
        \/ l = line /\ s \in pending
        \/ \E i \in 1..Len(seen[s]) : seen[s][i] = l
        \/ \E i \in 1..Len(queue[s]) : queue[s][i] = l

\* OnlyOwnBacklogDrops, viewer by viewer.
LEMMA ServedDef ==
    OnlyOwnBacklogDrops <=> (~panicked => \A s \in Streams : at[s] = "live" => Served(s))
BY DEF OnlyOwnBacklogDrops, Served

\* What a channel send and a channel receive do to the sequence of lines.
LEMMA AppendFacts ==
    ASSUME NEW q \in Seq(Nat), NEW l \in Nat
    PROVE  /\ Append(q, l) \in Seq(Nat) /\ Len(Append(q, l)) = Len(q) + 1
           /\ \A i \in 1..Len(q) : Append(q, l)[i] = q[i]
           /\ Append(q, l)[Len(q) + 1] = l
           /\ Len(q) \in Nat
OBVIOUS

\* A receive takes the oldest line.
LEMMA TailFacts ==
    ASSUME NEW q \in Seq(Nat), q # <<>>
    PROVE  /\ Tail(q) \in Seq(Nat) /\ Len(Tail(q)) = Len(q) - 1
           /\ \A i \in 1..Len(q) - 1 : Tail(q)[i] = q[i + 1]
           /\ Head(q) = q[1] /\ q[1] \in Nat /\ Len(q) \in Nat /\ Len(q) >= 1
OBVIOUS

\* A newer line at the end of a channel keeps it in order.
LEMMA AppendRising ==
    ASSUME NEW q \in Seq(Nat), NEW l \in Nat, Rising(q), AllBelow(q, l)
    PROVE  Rising(Append(q, l))
<1>1. ASSUME NEW i \in 1..Len(q) + 1, NEW j \in 1..Len(q) + 1, i < j
      PROVE  Append(q, l)[i] < Append(q, l)[j]
  <2>1. i \in 1..Len(q) /\ Append(q, l)[i] = q[i]
    BY <1>1, AppendFacts
  <2>2. CASE j = Len(q) + 1
    BY <2>1, <2>2, AppendFacts DEF AllBelow
  <2>3. CASE j # Len(q) + 1
    <3>1. j \in 1..Len(q) /\ Append(q, l)[j] = q[j]
      BY <1>1, <2>3, AppendFacts
    <3> QED BY <1>1, <2>1, <3>1 DEF Rising
  <2> QED BY <2>2, <2>3
<1> QED BY <1>1, AppendFacts DEF Rising

\* A line below the bound keeps a channel below the bound.
LEMMA AppendBelow ==
    ASSUME NEW q \in Seq(Nat), NEW l \in Nat, NEW b, AllBelow(q, b), l < b
    PROVE  AllBelow(Append(q, l), b)
<1>1. ASSUME NEW i \in 1..Len(q) + 1 PROVE Append(q, l)[i] < b
  <2>1. CASE i = Len(q) + 1
    BY <2>1, AppendFacts
  <2>2. CASE i # Len(q) + 1
    <3>1. i \in 1..Len(q)
      BY <1>1, <2>2, AppendFacts
    <3> QED BY <3>1, AppendFacts DEF AllBelow
  <2> QED BY <2>1, <2>2
<1> QED BY <1>1, AppendFacts DEF AllBelow

\* Two rising sequences, one below the other, rise as one.
LEMMA ConcatRises ==
    ASSUME NEW v \in Seq(Nat), NEW q \in Seq(Nat), Rising(v), Rising(q),
           \A j \in 1..Len(q) : AllBelow(v, q[j]), NEW i \in 1..Len(v \o q) - 1
    PROVE  (v \o q)[i] < (v \o q)[i + 1]
<1>1. /\ Len(v \o q) = Len(v) + Len(q) /\ Len(v) \in Nat /\ Len(q) \in Nat
      /\ \A k \in 1..Len(v) + Len(q) :
            (v \o q)[k] = IF k <= Len(v) THEN v[k] ELSE q[k - Len(v)]
  BY ConcatProperties
<1>2. i \in 1..Len(v) + Len(q) /\ i + 1 \in 1..Len(v) + Len(q) /\ i \in Nat
  BY <1>1
<1>3. CASE i + 1 <= Len(v)
  <2>1. (v \o q)[i] = v[i] /\ (v \o q)[i + 1] = v[i + 1]
    BY <1>1, <1>2, <1>3
  <2>2. i \in 1..Len(v) /\ i + 1 \in 1..Len(v) /\ i < i + 1
    BY <1>1, <1>2, <1>3
  <2> QED BY <2>1, <2>2 DEF Rising
<1>4. CASE i = Len(v)
  <2>1. (v \o q)[i] = v[i] /\ (v \o q)[i + 1] = q[1]
    BY <1>1, <1>2, <1>4
  <2>2. i \in 1..Len(v) /\ 1 \in 1..Len(q)
    BY <1>1, <1>2, <1>4
  <2> QED BY <2>1, <2>2 DEF AllBelow
<1>5. CASE i > Len(v)
  <2>1. (v \o q)[i] = q[i - Len(v)] /\ (v \o q)[i + 1] = q[i + 1 - Len(v)]
    BY <1>1, <1>2, <1>5
  <2>2. /\ i - Len(v) \in 1..Len(q) /\ i + 1 - Len(v) \in 1..Len(q)
        /\ i - Len(v) < i + 1 - Len(v)
    BY <1>1, <1>2, <1>5
  <2> QED BY <2>1, <2>2 DEF Rising
<1> QED BY <1>1, <1>2, <1>3, <1>4, <1>5

\* A stream whose channel and viewer are left alone stays in order.
LEMMA OrderFrame ==
    ASSUME NEW d \in Streams, OrderOf(d), UNCHANGED written,
           seen'[d] = seen[d], queue'[d] = queue[d],
           d \in pending' => d \in pending /\ line' = line
    PROVE  OrderOf(d)'
BY DEF OrderOf, Rising, AllBelow

\* A viewer whose channel and history are left alone stays served.
LEMMA ServedFrame ==
    ASSUME NEW d \in Streams, Served(d), UNCHANGED written,
           seen'[d] = seen[d], queue'[d] = queue[d], joined'[d] = joined[d],
           dropped'[d] = dropped[d], d \in pending => d \in pending' /\ line' = line
    PROVE  Served(d)'
BY DEF Served

\* The ring itself is only changed by a new line.
LEMMA RingFrame == ASSUME RingInv, UNCHANGED ring PROVE RingInv'
BY DEF RingInv, SlotOf, ring

\* A send to a channel of the copy: the line goes behind all others, is dropped
\* if the channel is full, or panics if the viewer has gone in the meantime.
LEMMA SendStep == ASSUME LogInv, NEW s \in Streams, Send(s) PROVE LogInv'
<1>0. /\ TypeOK /\ SeqTypes /\ RingInv /\ WriteInv /\ ViewerInv /\ OrderInv
      /\ OnlyOwnBacklogDrops
  BY DEF LogInv
<1>1. /\ s \in pending /\ line = written /\ written > 0 /\ written \in Nat
      /\ queue[s] \in Seq(Nat) /\ seen[s] \in Seq(Nat) /\ Cap \in Nat
  BY <1>0, RingAssumption DEF Send, WriteInv, TypeOK, SeqTypes
<1>2. RingInv' /\ UNCHANGED <<ring, subs, closed, at, seen, joined>> /\ written' = written
  BY <1>0, RingFrame DEF Send, ring
<1>3. pending' \subseteq pending \ {s}
  BY DEF Send
<1>4. WriteInv'
  BY <1>0, <1>1, <1>2 DEF Send, WriteInv
<1>5. \A d \in Streams \ {s} : queue'[d] = queue[d] /\ dropped'[d] = dropped[d]
  BY <1>0 DEF Send, SeqTypes
<1>6. \/ queue'[s] = queue[s]
      \/ queue'[s] = Append(queue[s], line) /\ Len(queue[s]) < Cap
  BY <1>0 DEF Send, SeqTypes
<1>7. SeqTypes'
  <2>1. queue' \in [Streams -> Seq(Nat)]
    <3>1. Append(queue[s], line) \in Seq(Nat)
      BY <1>1, AppendFacts
    <3>2. queue' = queue \/ queue' = [queue EXCEPT ![s] = Append(queue[s], line)]
      BY DEF Send
    <3> QED BY <1>0, <3>1, <3>2 DEF SeqTypes
  <2>2. dropped' \in [Streams -> SUBSET Nat]
    <3>1. dropped' = dropped \/ dropped' = [dropped EXCEPT ![s] = dropped[s] \cup {line}]
      BY DEF Send
    <3>2. dropped[s] \cup {line} \in SUBSET Nat
      BY <1>0, <1>1 DEF SeqTypes
    <3> QED BY <1>0, <3>1, <3>2 DEF SeqTypes
  <2> QED BY <1>0, <1>2, <2>1, <2>2 DEF SeqTypes
<1>8. TypeOK'
  <2>1. \A d \in Streams : Len(queue'[d]) <= Cap
    <3>1. Len(queue'[s]) <= Cap
      BY <1>0, <1>1, <1>6, AppendFacts DEF TypeOK
    <3> QED BY <1>0, <1>5, <3>1 DEF TypeOK
  <2>2. line' \in 0..MaxLines /\ pending' \subseteq Streams
    <3>1. line' = 0 \/ line' = line
      BY DEF Send
    <3> QED BY <1>0, <1>3, <3>1, RingAssumption DEF TypeOK
  <2>3. panicked' \in BOOLEAN
    <3>1. panicked' = TRUE \/ panicked' = panicked
      BY DEF Send
    <3> QED BY <1>0, <3>1 DEF TypeOK
  <2> QED BY <1>0, <1>2, <2>1, <2>2, <2>3 DEF TypeOK, ring
<1>9. ViewerInv'
  BY <1>0, <1>1, <1>2, <1>3, <1>5 DEF ViewerInv
<1>10. ASSUME NEW d \in Streams \ {s} PROVE OrderOf(d)'
  <2>1. d \in pending' => d \in pending /\ line' = line
    BY DEF Send
  <2> QED BY <1>0, <1>2, <1>5, <1>10, <2>1, OrderFrame DEF OrderInv
<1>11. OrderOf(s)'
  <2>0. OrderOf(s) /\ s \notin pending' /\ seen'[s] = seen[s]
    BY <1>0, <1>2, <1>3 DEF OrderInv
  <2>1. CASE queue'[s] = queue[s]
    BY <1>2, <2>0, <2>1, OrderFrame
  <2>2. CASE queue'[s] = Append(queue[s], line)
    <3>1. Rising(queue'[s])
      BY <1>1, <2>0, <2>2, AppendRising DEF OrderOf
    <3>2. AllBelow(queue'[s], written + 1)
      BY <1>1, <2>0, <2>2, AppendBelow DEF OrderOf
    <3>3. ASSUME NEW j \in 1..Len(queue'[s]) PROVE AllBelow(seen[s], queue'[s][j])
      <4>1. CASE j = Len(queue[s]) + 1
        BY <1>1, <2>0, <2>2, <4>1, AppendFacts DEF OrderOf
      <4>2. CASE j # Len(queue[s]) + 1
        <5>1. j \in 1..Len(queue[s]) /\ queue'[s][j] = queue[s][j]
          BY <1>1, <2>2, <3>3, <4>2, AppendFacts
        <5> QED BY <2>0, <5>1 DEF OrderOf
      <4> QED BY <4>1, <4>2
    <3> QED BY <1>2, <2>0, <3>1, <3>2, <3>3 DEF OrderOf
  <2> QED BY <1>6, <2>1, <2>2
<1>12. OnlyOwnBacklogDrops'
  <2> SUFFICES ASSUME ~panicked', NEW d \in Streams, at'[d] = "live" PROVE Served(d)'
    BY ServedDef DEF OnlyOwnBacklogDrops, Served
  <2>1. ~panicked /\ Served(d) /\ pending' = pending \ {s}
    BY <1>0, <1>2, ServedDef DEF Send
  <2>2. CASE d # s
    <3>1. d \in pending => d \in pending' /\ line' = line
      BY <2>1, <2>2 DEF Send
    <3> QED BY <1>2, <1>5, <2>1, <2>2, <3>1, ServedFrame
  <2>3. CASE d = s
    <3>1. \/ queue'[s] = Append(queue[s], line) /\ dropped'[s] = dropped[s]
          \/ queue'[s] = queue[s] /\ dropped'[s] = dropped[s] \cup {line}
      BY <1>0, <2>1 DEF Send, SeqTypes
    <3>2. CASE queue'[s] = Append(queue[s], line) /\ dropped'[s] = dropped[s]
      <4>1. \A i \in 1..Len(queue[s]) : i \in 1..Len(queue'[s]) /\ queue'[s][i] = queue[s][i]
        BY <1>1, <3>2, AppendFacts
      <4>2. \E i \in 1..Len(queue'[s]) : queue'[s][i] = line
        <5>1. Len(queue[s]) + 1 \in 1..Len(queue'[s]) /\ queue'[s][Len(queue[s]) + 1] = line
          BY <1>1, <3>2, AppendFacts
        <5> QED BY <5>1
      <4> QED BY <1>2, <2>1, <2>3, <3>2, <4>1, <4>2 DEF Served
    <3>3. CASE queue'[s] = queue[s] /\ dropped'[s] = dropped[s] \cup {line}
      BY <1>2, <2>1, <2>3, <3>3 DEF Served
    <3> QED BY <3>1, <3>2, <3>3
  <2> QED BY <2>2, <2>3
<1> QED BY <1>2, <1>4, <1>7, <1>8, <1>9, <1>10, <1>11, <1>12 DEF LogInv, OrderInv

\* A step of viewer s: what is left to show is about s alone.
LEMMA TailerFrame ==
    ASSUME LogInv, NEW s \in Streams, UNCHANGED <<ring, line, pending, panicked, dropped>>,
           \A d \in Streams \ {s} : /\ seen'[d] = seen[d] /\ queue'[d] = queue[d]
                                     /\ joined'[d] = joined[d] /\ at'[d] = at[d],
           TypeOK', SeqTypes', ViewerInv', OrderOf(s)',
           ~panicked /\ at'[s] = "live" => Served(s)'
    PROVE  LogInv'
<1>0. /\ RingInv /\ WriteInv /\ OrderInv /\ OnlyOwnBacklogDrops /\ UNCHANGED written
  BY DEF LogInv, ring
<1>1. RingInv' /\ WriteInv'
  BY <1>0, RingFrame DEF WriteInv
<1>2. ASSUME NEW d \in Streams \ {s} PROVE OrderOf(d)'
  BY <1>0, <1>2, OrderFrame DEF OrderInv
<1>3. ASSUME NEW d \in Streams \ {s}, ~panicked, at[d] = "live" PROVE Served(d)'
  BY <1>0, <1>3, ServedDef, ServedFrame
<1>4. OnlyOwnBacklogDrops'
  <2> SUFFICES ASSUME ~panicked', NEW d \in Streams, at'[d] = "live" PROVE Served(d)'
    BY DEF OnlyOwnBacklogDrops, Served
  <2> QED BY <1>3
<1> QED BY <1>1, <1>2, <1>4 DEF LogInv, OrderInv

\* A new viewer is sent the newest lines, in order.
LEMMA ReplayStep == ASSUME LogInv, NEW s \in Streams, Replay(s) PROVE LogInv'
<1>0. TypeOK /\ SeqTypes /\ ViewerInv /\ written \in Nat /\ count \in Nat /\ count <= written
  BY SlotsType DEF LogInv, TypeOK, RingInv
<1>1. PICK m \in 0..count : Snapshot(History) = [i \in 1..m |-> written - m + i]
  BY SnapshotValue, RingAssumption
<1> DEFINE q == [i \in 1..m |-> written - m + i]
<1>2. q \in Seq(Nat) /\ Len(q) = m /\ \A i \in 1..m : q[i] = written - m + i
  BY <1>0
<1>3. seen' = [seen EXCEPT ![s] = q] /\ at' = [at EXCEPT ![s] = "replayed"] /\ at[s] = "new"
  BY <1>1 DEF Replay
<1>4. UNCHANGED <<ring, subs, queue, closed, line, pending, panicked, joined, dropped>>
  BY DEF Replay
<1> HIDE DEF q
<1>5. SeqTypes' /\ seen'[s] = q
  BY <1>0, <1>2, <1>3, <1>4 DEF SeqTypes
<1>6. TypeOK'
  BY <1>0, <1>3, <1>4 DEF TypeOK, ring
<1>7. ViewerInv'
  BY <1>0, <1>3, <1>4 DEF ViewerInv, TypeOK
<1>8. OrderOf(s)'
  <2>1. queue'[s] = <<>> /\ s \notin pending'
    BY <1>0, <1>3, <1>4 DEF ViewerInv
  <2>2. Rising(q) /\ AllBelow(q, written + 1)
    BY <1>0, <1>2 DEF Rising, AllBelow
  <2>3. Rising(queue'[s]) /\ \A l : AllBelow(queue'[s], l)
    BY <2>1 DEF Rising, AllBelow
  <2> QED BY <1>4, <1>5, <2>1, <2>2, <2>3 DEF OrderOf, ring
<1>9. at'[s] # "live"
  BY <1>0, <1>3 DEF TypeOK
<1> QED BY <1>0, <1>3, <1>4, <1>5, <1>6, <1>7, <1>8, <1>9, TailerFrame DEF SeqTypes, TypeOK

\* A viewer is registered: from now on every line is meant for it.
LEMMA SubscribeStep == ASSUME LogInv, NEW s \in Streams, Subscribe(s) PROVE LogInv'
<1>0. TypeOK /\ SeqTypes /\ ViewerInv /\ OrderOf(s) /\ written \in Nat
  BY DEF LogInv, TypeOK, OrderInv
<1>1. /\ at[s] = "replayed" /\ subs' = subs \cup {s} /\ at' = [at EXCEPT ![s] = "live"]
      /\ joined' = [joined EXCEPT ![s] = written]
      /\ UNCHANGED <<ring, queue, closed, line, pending, panicked, seen, dropped>>
  BY DEF Subscribe
<1>2. TypeOK' /\ SeqTypes'
  BY <1>0, <1>1 DEF TypeOK, SeqTypes, ring
<1>3. ViewerInv'
  BY <1>0, <1>1 DEF ViewerInv, TypeOK
<1>4. OrderOf(s)'
  BY <1>0, <1>1, OrderFrame DEF ring
<1>5. Served(s)'
  BY <1>0, <1>1 DEF Served, SeqTypes, ring
<1> QED BY <1>0, <1>1, <1>2, <1>3, <1>4, <1>5, TailerFrame DEF SeqTypes, TypeOK

\* A viewer leaves: its channel is unregistered and closed.
LEMMA CancelStep == ASSUME LogInv, NEW s \in Streams, Cancel(s) PROVE LogInv'
<1>0. TypeOK /\ SeqTypes /\ ViewerInv /\ OrderOf(s)
  BY DEF LogInv, TypeOK, OrderInv
<1>1. /\ at[s] = "live" /\ subs' = subs \ {s} /\ at' = [at EXCEPT ![s] = "gone"]
      /\ closed' = closed \cup {s}
      /\ UNCHANGED <<ring, queue, line, pending, panicked, seen, joined, dropped>>
  BY DEF Cancel
<1>2. TypeOK' /\ SeqTypes'
  BY <1>0, <1>1 DEF TypeOK, SeqTypes, ring
<1>3. ViewerInv'
  BY <1>0, <1>1 DEF ViewerInv, TypeOK
<1>4. OrderOf(s)'
  BY <1>0, <1>1, OrderFrame DEF ring
<1>5. at'[s] = "gone"
  BY <1>0, <1>1 DEF TypeOK
<1> QED BY <1>0, <1>1, <1>2, <1>3, <1>4, <1>5, TailerFrame DEF SeqTypes, TypeOK

\* The oldest waiting line is sent to the viewer.
LEMMA ReceiveStep == ASSUME LogInv, NEW s \in Streams, Receive(s) PROVE LogInv'
<1> DEFINE q == queue[s]
           v == seen[s]
           h == q[1]
<1>0. TypeOK /\ SeqTypes /\ ViewerInv /\ OrderOf(s) /\ written \in Nat
  BY DEF LogInv, TypeOK, OrderInv
<1>1. q \in Seq(Nat) /\ v \in Seq(Nat) /\ q # <<>> /\ at[s] = "live" /\ s \in subs
  BY <1>0 DEF Receive, SeqTypes, ViewerInv
<1>2. /\ Tail(q) \in Seq(Nat) /\ Len(Tail(q)) = Len(q) - 1
      /\ \A i \in 1..Len(q) - 1 : Tail(q)[i] = q[i + 1]
      /\ Head(q) = h /\ h \in Nat /\ Len(q) \in Nat /\ Len(q) >= 1
  BY <1>1, TailFacts
<1>3. seen' = [seen EXCEPT ![s] = Append(v, h)] /\ queue' = [queue EXCEPT ![s] = Tail(q)]
  BY <1>2 DEF Receive
<1>4. UNCHANGED <<ring, subs, closed, line, pending, panicked, at, joined, dropped>>
  BY DEF Receive
<1>5. seen'[s] = Append(v, h) /\ queue'[s] = Tail(q) /\ Append(v, h) \in Seq(Nat)
  BY <1>0, <1>1, <1>2, <1>3, AppendFacts DEF SeqTypes
<1>6. SeqTypes'
  BY <1>0, <1>2, <1>3, <1>4, <1>5 DEF SeqTypes
<1>7. \A d \in Streams \ {s} : seen'[d] = seen[d] /\ queue'[d] = queue[d]
  BY <1>0, <1>3 DEF SeqTypes
<1>8. TypeOK'
  <2>1. Len(q) <= Cap
    BY <1>0 DEF TypeOK
  <2>2. Len(queue'[s]) <= Cap
    BY <1>2, <1>5, <2>1, RingAssumption
  <2>3. \A d \in Streams : Len(queue'[d]) <= Cap
    BY <1>0, <1>7, <2>2 DEF TypeOK
  <2> QED BY <1>0, <1>4, <2>3 DEF TypeOK, ring
<1>9. ViewerInv'
  BY <1>0, <1>1, <1>4, <1>7 DEF ViewerInv
<1>10. OrderOf(s)'
  <2>0. /\ Rising(v) /\ Rising(q) /\ \A j \in 1..Len(q) : AllBelow(v, q[j])
        /\ AllBelow(v, written + 1) /\ AllBelow(q, written + 1)
        /\ s \in pending => AllBelow(v, line) /\ AllBelow(q, line)
    BY <1>0 DEF OrderOf
  <2> HIDE DEF q, v, h
  <2>a. 1 \in 1..Len(q)
    BY <1>2
  <2>b. h = q[1]
    BY DEF h
  <2>1. Rising(Append(v, h))
    BY <1>1, <1>2, <2>0, <2>a, <2>b, AppendRising
  <2>2. AllBelow(Append(v, h), written + 1) /\ (s \in pending => AllBelow(Append(v, h), line))
    BY <1>1, <1>2, <2>0, <2>a, <2>b, AppendBelow DEF AllBelow
  <2>3. ASSUME NEW j \in 1..Len(Tail(q))
        PROVE  j + 1 \in 1..Len(q) /\ Tail(q)[j] = q[j + 1] /\ 1 < j + 1
    BY <1>2, <2>3
  <2>4. Rising(Tail(q))
    <3> SUFFICES ASSUME NEW i \in 1..Len(Tail(q)), NEW j \in 1..Len(Tail(q)), i < j
                 PROVE  Tail(q)[i] < Tail(q)[j]
      BY DEF Rising
    <3>1. i + 1 < j + 1
      BY <1>2
    <3> QED BY <2>0, <2>3, <3>1 DEF Rising
  <2>5. AllBelow(Tail(q), written + 1) /\ (s \in pending => AllBelow(Tail(q), line))
    BY <2>0, <2>3 DEF AllBelow
  <2>6. ASSUME NEW j \in 1..Len(Tail(q)) PROVE AllBelow(Append(v, h), Tail(q)[j])
    <3>1. AllBelow(v, q[j + 1]) /\ h < q[j + 1]
      BY <2>0, <2>3, <2>a, <2>b DEF Rising
    <3> QED BY <1>1, <1>2, <2>3, <3>1, AppendBelow
  <2> QED BY <1>4, <1>5, <2>1, <2>2, <2>4, <2>5, <2>6 DEF OrderOf, ring
<1>11. ASSUME ~panicked PROVE Served(s)'
  <2>1. Served(s)
    BY <1>1, <1>11, ServedDef DEF LogInv
  <2>2. \A i \in 1..Len(v) : i \in 1..Len(Append(v, h)) /\ Append(v, h)[i] = v[i]
    BY <1>1, <1>2, AppendFacts
  <2>3. Len(v) + 1 \in 1..Len(Append(v, h)) /\ Append(v, h)[Len(v) + 1] = h
    BY <1>1, <1>2, AppendFacts
  <2>4. ASSUME NEW i \in 1..Len(q), i # 1
        PROVE  i - 1 \in 1..Len(Tail(q)) /\ Tail(q)[i - 1] = q[i]
    BY <1>2, <2>4
  <2>5. ASSUME NEW i \in 1..Len(q)
        PROVE  \/ \E j \in 1..Len(seen'[s]) : seen'[s][j] = q[i]
               \/ \E j \in 1..Len(queue'[s]) : queue'[s][j] = q[i]
    <3>1. CASE i = 1
      BY <1>5, <2>3, <3>1
    <3>2. CASE i # 1
      BY <1>5, <2>4, <2>5, <3>2
    <3> QED BY <3>1, <3>2
  <2>6. ASSUME NEW i \in 1..Len(v) PROVE \E j \in 1..Len(seen'[s]) : seen'[s][j] = v[i]
    BY <1>5, <2>2, <2>6
  <2>7. UNCHANGED <<joined, dropped, line, pending, written>>
    BY <1>4 DEF ring
  <2> SUFFICES ASSUME NEW l \in joined[s] + 1..written
               PROVE  \/ l \in dropped[s]
                      \/ l = line /\ s \in pending
                      \/ \E j \in 1..Len(seen'[s]) : seen'[s][j] = l
                      \/ \E j \in 1..Len(queue'[s]) : queue'[s][j] = l
    BY <2>7 DEF Served
  <2>8. \/ l \in dropped[s]
        \/ l = line /\ s \in pending
        \/ \E i \in 1..Len(v) : v[i] = l
        \/ \E i \in 1..Len(q) : q[i] = l
    BY <2>1 DEF Served
  <2> HIDE DEF h, q, v
  <2> QED BY <2>5, <2>6, <2>8
<1> QED BY <1>4, <1>6, <1>7, <1>8, <1>9, <1>10, <1>11, TailerFrame

-----------------------------------------------------------------------------
(* What follows.                                                           *)

\* The invariant is inductive.
LEMMA LogNext == LogInv /\ [Next]_vars => LogInv'
<1> SUFFICES ASSUME LogInv, [Next]_vars PROVE LogInv'
  OBVIOUS
<1>1. ASSUME UNCHANGED vars PROVE LogInv'
  <2>1. TypeOK' /\ SeqTypes' /\ WriteInv' /\ ViewerInv'
    BY <1>1 DEF LogInv, TypeOK, SeqTypes, WriteInv, ViewerInv, vars
  <2>2. RingInv' /\ OrderInv'
    BY <1>1, RingFrame, OrderFrame DEF LogInv, OrderInv, vars, ring
  <2>3. OnlyOwnBacklogDrops'
    BY <1>1 DEF LogInv, OnlyOwnBacklogDrops, vars
  <2> QED BY <2>1, <2>2, <2>3 DEF LogInv
<1> QED BY <1>1, WriteLineStep, SendStep, ReplayStep, SubscribeStep, ReceiveStep, CancelStep
        DEF Next, Tailer, Quiescent

\* The ring, the Write in progress and the viewers agree in every reachable state.
THEOREM LogInvariance == Spec => []LogInv
BY LogInit, LogNext, PTL DEF Spec

\* Types; no channel holds more lines than its capacity.
THEOREM LogTypes == Spec => []TypeOK
<1>1. LogInv => TypeOK
  BY DEF LogInv
<1> QED BY <1>1, LogInvariance, PTL

\* GET /logs/recent answers with the newest lines, oldest first, for every size of
\* the ring, however often it has wrapped around, and every query.
THEOREM RecentLines == Spec => []SnapshotIsRecent
<1>1. LogInv => SnapshotIsRecent
  <2> SUFFICES ASSUME LogInv, NEW q \in -1..MaxRecent + 1
               PROVE  LET asked == IF q < 1 \/ q > MaxRecent THEN Recent ELSE q
                          kept == IF written < Slots THEN written ELSE Slots
                          m == IF asked = 0 \/ asked > kept THEN kept ELSE asked
                      IN  LogsRecent(q) = [i \in 1..m |-> written - m + i]
    BY DEF SnapshotIsRecent
  <2> DEFINE asked == IF q < 1 \/ q > MaxRecent THEN Recent ELSE q
  <2>1. asked \in Nat /\ LogsRecent(q) = Snapshot(asked)
    BY RingAssumption DEF LogsRecent
  <2>2. count = IF written < Slots THEN written ELSE Slots
    BY DEF LogInv, RingInv
  <2> HIDE DEF asked
  <2>3. LogsRecent(q) = LET m == IF asked = 0 \/ asked > count THEN count ELSE asked
                        IN  [i \in 1..m |-> written - m + i]
    BY <2>1, SnapshotValue
  <2> QED BY <2>2, <2>3 DEF asked
<1> QED BY <1>1, LogInvariance, PTL

\* A viewer gets no line twice and none out of order, history and live tail
\* together.
THEOREM LinesInOrder == Spec => []InOrder
<1>1. LogInv => InOrder
  <2> SUFFICES ASSUME LogInv, NEW s \in Streams,
                      NEW i \in 1..Len(seen[s] \o queue[s]) - 1
               PROVE  (seen[s] \o queue[s])[i] < (seen[s] \o queue[s])[i + 1]
    BY DEF InOrder
  <2> QED BY ConcatRises DEF LogInv, SeqTypes, OrderInv, OrderOf
<1> QED BY <1>1, LogInvariance, PTL

\* A connected viewer misses a line only if its own channel was full, or if a
\* Write panicked half way.
THEOREM NobodyElseDrops == Spec => []OnlyOwnBacklogDrops
<1>1. LogInv => OnlyOwnBacklogDrops
  BY DEF LogInv
<1> QED BY <1>1, LogInvariance, PTL
=============================================================================
