--------------------------- MODULE Structures_proofs ---------------------------
(***************************************************************************)
(* A ringbuffer is a window on the sequence of everything ever added, for  *)
(* every capacity.                                                         *)
(***************************************************************************)
EXTENDS Structures, SequenceTheorems, TLAPS

Rings(V) == [items : Seq(V), head : Nat, tail : Int]

\* The items are those numbered head to tail, no more than the capacity.
Window(c) == /\ Len(c.items) = c.tail - c.head + 1
             /\ Len(c.items) <= RingCap

LEMMA ReadInWindow ==
    ASSUME NEW c, NEW n \in c.head .. c.tail, NEW i, n - c.head + 1 = i
    PROVE  RingRead(c, n) = Data(c.items[i])
  BY DEF RingRead

\* Adding to a ringbuffer keeps it a window of at most its capacity, the item is read
\* back under the number the add answered, and every number that is still in the
\* window reads what it read before: nothing shifts when the oldest item goes
\* (rb_add and rb_read_one).
THEOREM RingIsWindow ==
    ASSUME NEW V, NEW c \in Rings(V), Window(c), NEW v \in V
    PROVE  LET d == RingAdd(c, v)
           IN  /\ d \in Rings(V) /\ Window(d)
               /\ RingRead(d, c.tail + 1) = Data(v)
               /\ \A n \in d.head .. c.tail : RingRead(d, n) = RingRead(c, n)
               /\ d.head > c.head => Len(d.items) = RingCap
<1> DEFINE old == c.items
           items == Append(old, v)
           full == Len(items) > RingCap
           d == RingAdd(c, v)
<1>1. /\ old \in Seq(V) /\ c.head \in Nat /\ c.tail \in Int /\ RingCap \in Nat \ {0}
      /\ Len(old) = c.tail - c.head + 1 /\ Len(old) <= RingCap /\ Len(old) \in Nat
  BY RingCapAssumption DEF Rings, Window
<1> HIDE DEF old
<1>2. /\ items \in Seq(V) /\ Len(items) = Len(old) + 1 /\ items # <<>>
      /\ \A i \in 1 .. Len(old) : items[i] = old[i]
      /\ items[Len(old) + 1] = v
  BY <1>1, AppendProperties
<1> HIDE DEF items
<1>3. CASE ~full
  <2>1. d.items = items /\ d.head = c.head /\ d.tail = c.tail + 1 /\ d \in Rings(V)
    BY <1>1, <1>2, <1>3 DEF RingAdd, items, old, Rings
  <2> HIDE DEF d
  <2>2. Window(d)
    BY <1>1, <1>2, <1>3, <2>1 DEF Window
  <2>3. RingRead(d, c.tail + 1) = Data(v)
    <3>1. c.tail + 1 \in d.head .. d.tail /\ c.tail + 1 - d.head + 1 = Len(old) + 1
      BY <1>1, <2>1
    <3> DEFINE t == c.tail + 1
               k == Len(old) + 1
    <3>2. t \in d.head .. d.tail /\ t - d.head + 1 = k
      BY <1>1, <2>1, <3>1
    <3> HIDE DEF t, k
    <3>3. RingRead(d, t) = Data(d.items[k])
      BY <3>2, ReadInWindow
    <3> QED
      BY <1>2, <2>1, <3>3 DEF t, k
  <2>4. ASSUME NEW n \in d.head .. c.tail PROVE RingRead(d, n) = RingRead(c, n)
    <3>1. /\ n \in d.head .. d.tail /\ n \in c.head .. c.tail
          /\ n - d.head + 1 = n - c.head + 1 /\ n - c.head + 1 \in 1 .. Len(old)
      BY <1>1, <2>1
    <3>2. RingRead(d, n) = Data(d.items[n - c.head + 1]) /\ RingRead(c, n) = Data(old[n - c.head + 1])
      BY <3>1 DEF RingRead, old
    <3> QED
      BY <1>2, <2>1, <3>1, <3>2
  <2>5. ~(d.head > c.head)
    BY <1>1, <2>1
  <2> QED
    BY <2>1, <2>2, <2>3, <2>4, <2>5 DEF d
<1>4. CASE full
  <2>1. d.items = Tail(items) /\ d.head = c.head + 1 /\ d.tail = c.tail + 1
    BY <1>4 DEF RingAdd, items, old
  <2>2. /\ Tail(items) \in Seq(V) /\ Len(Tail(items)) = Len(old)
        /\ \A i \in 1 .. Len(old) : Tail(items)[i] = items[i + 1]
    BY <1>1, <1>2, HeadTailProperties
  <2>3. d \in Rings(V)
    BY <1>1, <1>4, <2>2 DEF RingAdd, items, old, Rings
  <2> HIDE DEF d
  <2>4. Window(d) /\ Len(d.items) = RingCap
    BY <1>1, <1>2, <1>4, <2>1, <2>2 DEF Window
  <2>5. RingRead(d, c.tail + 1) = Data(v)
    <3> DEFINE t == c.tail + 1
               k == Len(old)
    <3>1. k \in 1 .. k /\ k \in Int /\ t \in Int /\ k = t - c.head /\ k >= 1
      BY <1>1, <1>2, <1>4
    <3>2. d.head = c.head + 1 /\ d.tail = t /\ c.head \in Int
      BY <1>1, <2>1
    <3>3. items[k + 1] = v /\ Tail(items)[k] = items[k + 1]
      BY <1>2, <2>2, <3>1
    <3> HIDE DEF t, k
    <3>4. t \in d.head .. d.tail /\ t - d.head + 1 = k
      BY <3>1, <3>2
    <3>5. RingRead(d, t) = Data(d.items[k])
      BY <3>4, ReadInWindow
    <3> QED
      BY <2>1, <3>3, <3>5 DEF t
  <2>6. ASSUME NEW n \in d.head .. c.tail PROVE RingRead(d, n) = RingRead(c, n)
    <3> DEFINE i == n - d.head + 1
    <3>0. n \in c.head + 1 .. c.tail /\ d.head = c.head + 1 /\ d.tail = c.tail + 1
      BY <2>1
    <3>1. /\ n \in d.head .. d.tail /\ n \in c.head .. c.tail
          /\ i \in 1 .. Len(old) /\ n - c.head + 1 = i + 1 /\ i + 1 \in 1 .. Len(old)
      <4>1. n \in Int /\ c.head + 1 <= n /\ n <= c.tail
        BY <1>1, <3>0
      <4>2. i = n - c.head
        BY <1>1, <3>0, <4>1
      <4> HIDE DEF i
      <4>3. n \in d.head .. d.tail
        BY <1>1, <3>0, <4>1
      <4>4. n \in c.head .. c.tail /\ n - c.head + 1 = i + 1
        BY <1>1, <4>1, <4>2
      <4>5. i \in 1 .. Len(old) /\ i + 1 \in 1 .. Len(old)
        <5> DEFINE len == Len(old)
        <5>1. len \in Int /\ c.head \in Int /\ c.tail \in Int /\ len = c.tail - c.head + 1
          BY <1>1
        <5> HIDE DEF len
        <5>2. i \in 1 .. len /\ i + 1 \in 1 .. len
          BY <4>1, <4>2, <5>1
        <5> QED
          BY <5>2 DEF len
      <4> QED
        BY <4>3, <4>4, <4>5
    <3>2. RingRead(d, n) = Data(d.items[i]) /\ RingRead(c, n) = Data(old[i + 1])
      BY <3>1 DEF RingRead, old
    <3> HIDE DEF i
    <3> QED
      BY <1>2, <2>1, <2>2, <3>1, <3>2
  <2> QED
    BY <2>3, <2>4, <2>5, <2>6 DEF d
<1> QED
  BY <1>3, <1>4
=============================================================================
