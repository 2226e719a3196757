---------------------------- MODULE Spsc_proofs ----------------------------
(***************************************************************************)
(* With one producer the ring never touches a slot the other side owns and *)
(* leaks nothing, whatever the capacity and the counter width, and however *)
(* old the counter a side last loaded.                                     *)
(***************************************************************************)
EXTENDS Spsc, SequenceTheorems, TLAPS

-----------------------------------------------------------------------------
\* Arithmetic of slot numbers.

LEMMA DivMod ==
    ASSUME NEW c \in Nat \ {0}, NEW a \in Nat
    PROVE  /\ a % c \in 0 .. c - 1
           /\ a \div c \in Nat
           /\ a = c * (a \div c) + (a % c)
OBVIOUS

LEMMA Remainder ==
    ASSUME NEW c \in Nat \ {0}, NEW q1 \in Int, NEW q2 \in Int,
           NEW r1 \in 0 .. c - 1, NEW r2 \in 0 .. c - 1,
           c * q1 + r1 = c * q2 + r2
    PROVE  r1 = r2
<1>1. c * (q1 - q2) = r2 - r1
  OBVIOUS
<1>2. CASE q1 - q2 >= 1
  <2>1. c * (q1 - q2) >= c
    BY <1>2
  <2>2. QED
    BY <1>1, <2>1
<1>3. CASE q1 - q2 <= -1
  <2>1. c * (q1 - q2) <= -c
    BY <1>3
  <2>2. QED
    BY <1>1, <2>1
<1>4. CASE q1 = q2
  BY <1>1, <1>4
<1>5. QED
  BY <1>2, <1>3, <1>4

\* Adding a multiple of the capacity changes no slot number.
LEMMA ModShift ==
    ASSUME NEW c \in Nat \ {0}, NEW a \in Nat, NEW k \in Nat
    PROVE  (a + c * k) % c = a % c
<1>0. c * k \in Nat /\ a + c * k \in Nat
  OBVIOUS
<1> DEFINE b == a + c * k
<1>1. a % c \in 0 .. c - 1 /\ a \div c \in Nat /\ a = c * (a \div c) + (a % c)
  BY DivMod
<1>2. b % c \in 0 .. c - 1 /\ b \div c \in Nat /\ b = c * (b \div c) + (b % c)
  BY <1>0, DivMod
<1>3. c * (b \div c) + (b % c) = c * ((a \div c) + k) + (a % c)
  <2>1. c * ((a \div c) + k) = c * (a \div c) + c * k
    BY <1>1
  <2>2. b = a + c * k
    OBVIOUS
  <2> HIDE DEF b
  <2>3. QED
    BY <1>0, <1>1, <1>2, <2>1, <2>2
<1> HIDE DEF b
<1>4. b % c = a % c
  <2>1. b \div c \in Int /\ (a \div c) + k \in Int
    BY <1>1, <1>2
  <2>2. QED
    BY <1>1, <1>2, <1>3, <2>1, Remainder
<1>5. QED
  BY <1>4 DEF b

\* Cap consecutive counters have distinct slots.
LEMMA ModInjective ==
    ASSUME NEW c \in Nat \ {0}, NEW a \in Nat,
           NEW d1 \in 0 .. c - 1, NEW d2 \in 0 .. c - 1,
           (a + d1) % c = (a + d2) % c
    PROVE  d1 = d2
<1>1. a + d1 \in Nat /\ a + d2 \in Nat
  OBVIOUS
<1> DEFINE q1 == (a + d1) \div c
           q2 == (a + d2) \div c
<1>2. q1 \in Nat /\ a + d1 = c * q1 + ((a + d1) % c)
  BY <1>1, DivMod
<1>3. q2 \in Nat /\ a + d2 = c * q2 + ((a + d2) % c)
  BY <1>1, DivMod
<1> HIDE DEF q1, q2
<1>4. d1 - d2 = c * (q1 - q2)
  BY <1>1, <1>2, <1>3
<1>5. CASE q1 - q2 >= 1
  <2>1. c * (q1 - q2) >= c
    BY <1>2, <1>3, <1>5
  <2>2. QED
    BY <1>4, <2>1
<1>6. CASE q1 - q2 <= -1
  <2>1. c * (q1 - q2) <= -c
    BY <1>2, <1>3, <1>6
  <2>2. QED
    BY <1>4, <2>1
<1>7. CASE q1 = q2
  BY <1>2, <1>3, <1>4, <1>7
<1>8. QED
  BY <1>2, <1>3, <1>5, <1>6, <1>7

\* Every slot is one of the Cap slots that start at a counter.
LEMMA ModSurjective ==
    ASSUME NEW c \in Nat \ {0}, NEW a \in Nat, NEW s \in 0 .. c - 1
    PROVE  \E d \in 0 .. c - 1 : (a + d) % c = s
<1>1. a % c \in 0 .. c - 1 /\ a \div c \in Nat /\ a = c * (a \div c) + (a % c)
  BY DivMod
<1>2. CASE s >= a % c
  <2>1. s - (a % c) \in 0 .. c - 1 /\ a + (s - (a % c)) = s + c * (a \div c)
    BY <1>1, <1>2
  <2>2. (s + c * (a \div c)) % c = s % c
    BY <1>1, ModShift
  <2>3. s % c = s
    OBVIOUS
  <2>4. QED
    BY <2>1, <2>2, <2>3
<1>3. CASE s < a % c
  <2>1. s - (a % c) + c \in 0 .. c - 1
    BY <1>1, <1>3
  <2>2. a + (s - (a % c) + c) = s + c * ((a \div c) + 1)
    <3>1. c * ((a \div c) + 1) = c * (a \div c) + c
      BY <1>1
    <3>2. QED
      BY <1>1, <3>1
  <2>3. (s + c * ((a \div c) + 1)) % c = s % c
    <3>1. (a \div c) + 1 \in Nat /\ s \in Nat
      BY <1>1
    <3> DEFINE k == (a \div c) + 1
    <3> HIDE DEF k
    <3>2. (s + c * k) % c = s % c
      BY <3>1, ModShift DEF k
    <3>3. QED
      BY <3>2 DEF k
  <2>4. s % c = s
    OBVIOUS
  <2>5. QED
    BY <2>1, <2>2, <2>3, <2>4
<1>4. QED
  BY <1>1, <1>2, <1>3

\* Size is a multiple of Cap, so a counter that wraps keeps naming the next slot.
LEMMA Wraps == \E k \in Nat : Size = Cap * k
<1>1. Cap \in Nat \ {0} /\ Size \in Nat /\ Size % Cap = 0
  BY RingAssumption
<1>2. Size \div Cap \in Nat /\ Size = Cap * (Size \div Cap) + (Size % Cap)
  BY <1>1, DivMod
<1> DEFINE k == Size \div Cap
<1>3. k \in Nat /\ Size = Cap * k + 0
  BY <1>1, <1>2
<1> HIDE DEF k
<1>4. Size = Cap * k
  BY <1>1, <1>3
<1>5. QED
  BY <1>3, <1>4

LEMMA SlotUnwrapped ==
    ASSUME NEW a \in Nat, a >= Size
    PROVE  a % Cap = (a - Size) % Cap
<1>1. PICK k \in Nat : Size = Cap * k
  BY Wraps
<1>2. Cap \in Nat \ {0} /\ Size \in Nat
  BY RingAssumption
<1> DEFINE b == a - Size
<1>3. b \in Nat /\ a = b + Cap * k
  BY <1>1, <1>2
<1> HIDE DEF b
<1>4. (b + Cap * k) % Cap = b % Cap
  BY <1>2, <1>3, ModShift
<1>5. a % Cap = b % Cap
  BY <1>3, <1>4
<1>6. QED
  BY <1>5 DEF b

\* The slot of j counted from the slot of i.
LEMMA SlotByDistance ==
    ASSUME NEW i \in Index, NEW j \in Index
    PROVE  Dist(i, j) \in Index /\ Slot(j) = (i + Dist(i, j)) % Cap
<1>1. CASE j >= i
  BY <1>1, RingAssumption DEF Dist, Slot, Index
<1>2. CASE j < i
  <2>1. i + Dist(i, j) = j + Size /\ i + Dist(i, j) \in Nat /\ i + Dist(i, j) >= Size
    BY <1>2, RingAssumption DEF Dist, Index
  <2>2. (j + Size) % Cap = ((j + Size) - Size) % Cap
    BY <2>1, SlotUnwrapped, RingAssumption
  <2>3. (j + Size) - Size = j
    BY RingAssumption DEF Index
  <2>4. QED
    BY <1>2, <2>1, <2>2, <2>3, RingAssumption DEF Slot, Dist, Index
<1>3. QED
  BY <1>1, <1>2, RingAssumption DEF Index

\* Counting from the next counter.
LEMMA SlotFromInc ==
    ASSUME NEW i \in Index, NEW d \in Nat
    PROVE  Inc(i) \in Index /\ (Inc(i) + d) % Cap = (i + (d + 1)) % Cap
<1>1. CASE i # Size - 1
  <2>1. Inc(i) \in Index /\ Inc(i) + d = i + (d + 1)
    BY <1>1, RingAssumption DEF Inc, Index
  <2>2. QED
    BY <2>1
<1>2. CASE i = Size - 1
  <2>1. i + (d + 1) \in Nat /\ i + (d + 1) >= Size /\ (i + (d + 1)) - Size = d
    BY <1>2, RingAssumption DEF Index
  <2>2. (i + (d + 1)) % Cap = ((i + (d + 1)) - Size) % Cap
    BY <2>1, SlotUnwrapped
  <2>3. Inc(i) = 0 /\ Inc(i) + d = d /\ Inc(i) \in Index
    BY <1>2, RingAssumption DEF Inc, Index
  <2>4. QED
    BY <2>1, <2>2, <2>3
<1>3. QED
  BY <1>1, <1>2

\* A counter loaded between an older load and the current value keeps the order.
LEMMA LoadBetween ==
    ASSUME NEW seen \in Index, NEW h \in Index, NEW hd \in Index, NEW tl \in Index,
           Dist(seen, hd) + Dist(hd, tl) = Dist(seen, tl),
           Dist(seen, h) <= Dist(seen, hd)
    PROVE  /\ Dist(h, hd) + Dist(hd, tl) = Dist(h, tl)
           /\ Dist(h, tl) <= Dist(seen, tl)
           /\ Dist(h, tl) \in Nat
BY RingAssumption DEF Index, Dist

\* Advancing one counter away from, or towards, another.
LEMMA DistInc ==
    ASSUME NEW i \in Index, NEW j \in Index
    PROVE  /\ Dist(i, j) \in Index
           /\ Dist(i, j) = 0 <=> i = j
           /\ Dist(i, j) # Size - 1 => Dist(i, Inc(j)) = Dist(i, j) + 1
           /\ i # j => Dist(Inc(i), j) = Dist(i, j) - 1
BY RingAssumption DEF Index, Dist, Inc

-----------------------------------------------------------------------------
\* The slot d past head holds a value: published and not yet taken by a pop in
\* progress, or written by a push in progress.
Filled(d) ==
    \/ d < Dist(head, tail) /\ ~(d = 0 /\ pop.pc = "publish")
    \/ d = Dist(head, tail) /\ \E p \in Producer : push[p].pc = "publish"

\* The counters a producer and the consumer last loaded lie behind the current
\* ones, never more than the capacity apart.
CountersOrdered ==
    /\ \A p \in Producer :
          /\ Dist(push[p].head, head) + Dist(head, tail) = Dist(push[p].head, tail)
          /\ Dist(push[p].head, tail) <= Cap
          /\ push[p].pc # "idle" =>
                push[p].tail = tail /\ Dist(push[p].head, tail) < Cap
    /\ Dist(head, pop.tail) <= Dist(head, tail)
    /\ pop.pc # "idle" => pop.tail # head

SlotsExact == \A d \in 0 .. Cap - 1 : slots[(head + d) % Cap] # Uninit <=> Filled(d)

Dropped ==
    /\ pop.pc = "idle"
    /\ \A p \in Producer : push[p].pc = "idle"
    /\ \A i \in 0 .. Cap - 1 : slots[i] = Uninit

\* The inductive invariant.
RingInv ==
    /\ TypeOK
    /\ CountersOrdered
    /\ IF live THEN SlotsExact ELSE Dropped

-----------------------------------------------------------------------------
LEMMA RingInit == Init => RingInv
<1> SUFFICES ASSUME Init PROVE RingInv
  OBVIOUS
<1>0. 0 \in Index /\ Cap \in Nat \ {0} /\ Size \in Nat \ {0} /\ Dist(0, 0) = 0
  BY RingAssumption DEF Index, Dist
<1>1. TypeOK
  BY <1>0 DEF Init, TypeOK
<1>2. CountersOrdered
  BY <1>0 DEF Init, CountersOrdered
<1>3. SlotsExact
  <2> SUFFICES ASSUME NEW d \in 0 .. Cap - 1
               PROVE  slots[(head + d) % Cap] = Uninit /\ ~Filled(d)
    BY DEF SlotsExact
  <2>1. (head + d) % Cap \in 0 .. Cap - 1
    BY <1>0, DivMod DEF Init
  <2>2. ~Filled(d)
    BY <1>0 DEF Init, Filled
  <2>3. QED
    BY <2>1, <2>2 DEF Init
<1>4. QED
  BY <1>1, <1>2, <1>3 DEF RingInv, Init

\* Every slot number names a slot.
LEMMA SlotInRange ==
    ASSUME NEW i \in Nat
    PROVE  i % Cap \in 0 .. Cap - 1
<1>1. Cap \in Nat \ {0}
  BY RingAssumption
<1>2. QED
  BY <1>1, DivMod

\* Where the two counters point, counted from head.
LEMMA SlotOfTail ==
    ASSUME TypeOK
    PROVE  /\ Dist(head, tail) \in Nat
           /\ Slot(tail) = (head + Dist(head, tail)) % Cap
           /\ Slot(head) = (head + 0) % Cap
<1>1. head \in Index /\ tail \in Index
  BY DEF TypeOK
<1>2. head + 0 = head /\ Index \subseteq Nat
  BY <1>1, RingAssumption DEF Index
<1>3. QED
  BY <1>1, <1>2, SlotByDistance DEF Slot

LEMMA PushLoadStep ==
    ASSUME NEW p, Producer = {p}, RingInv, PushLoad(p)
    PROVE  RingInv'
<1> USE DEF PushLoad
<1>0. TypeOK /\ CountersOrdered /\ SlotsExact /\ live
  BY DEF RingInv
<1>a. Cap \in Nat /\ Cap >= 2 /\ Size \in Nat /\ Size > Cap /\ Index = 0 .. Size - 1
  BY RingAssumption DEF Index
<1>1. PICK h \in Loads(push[p].head, head), v \in Value :
         push' = [push EXCEPT ![p] =
                    [pc   |-> IF Dist(h, tail) = Cap THEN "idle" ELSE "write",
                     item |-> v, tail |-> tail, head |-> h]]
  OBVIOUS
<1>2. h \in Index /\ Dist(push[p].head, h) <= Dist(push[p].head, head)
  BY <1>1 DEF Loads
<1>3. push'[p] = [pc   |-> IF Dist(h, tail) = Cap THEN "idle" ELSE "write",
                  item |-> v, tail |-> tail, head |-> h]
  BY <1>0, <1>1 DEF TypeOK
<1>4. TypeOK'
  BY <1>0, <1>1, <1>2 DEF TypeOK
<1>5. CountersOrdered'
  <2>1. /\ Dist(push[p].head, head) + Dist(head, tail) = Dist(push[p].head, tail)
        /\ Dist(push[p].head, tail) <= Cap
    BY <1>0 DEF CountersOrdered
  <2>2. push[p].head \in Index /\ head \in Index /\ tail \in Index
    BY <1>0 DEF TypeOK
  <2>3. /\ Dist(h, head) + Dist(head, tail) = Dist(h, tail)
        /\ Dist(h, tail) <= Dist(push[p].head, tail)
        /\ Dist(h, tail) \in Nat /\ Dist(push[p].head, tail) \in Nat
    <3>1. Dist(push[p].head, tail) \in Index
      BY <2>2, DistInc
    <3>2. QED
      BY <1>2, <1>a, <2>1, <2>2, <3>1, LoadBetween
  <2>4. Dist(h, tail) <= Cap /\ (Dist(h, tail) # Cap => Dist(h, tail) < Cap)
    BY <1>a, <2>1, <2>3
  <2>5. QED
    BY <1>0, <1>3, <2>3, <2>4 DEF CountersOrdered
<1>6. SlotsExact'
  <2>1. push[p].pc # "publish" /\ push'[p].pc # "publish"
    BY <1>3
  <2>2. ASSUME NEW d PROVE Filled(d)' <=> Filled(d)
    BY <2>1 DEF Filled
  <2>3. QED
    BY <1>0, <2>2 DEF SlotsExact
<1>7. QED
  BY <1>0, <1>4, <1>5, <1>6 DEF RingInv

\* A push in progress finds room: the slot at tail is one of the Cap from head.
LEMMA RoomAtTail ==
    ASSUME NEW p \in Producer, TypeOK, CountersOrdered, push[p].pc # "idle"
    PROVE  /\ push[p].tail = tail
           /\ Dist(head, tail) \in 0 .. Cap - 1
<1>1. /\ Dist(push[p].head, head) + Dist(head, tail) = Dist(push[p].head, tail)
      /\ push[p].tail = tail
      /\ Dist(push[p].head, tail) < Cap
  BY DEF CountersOrdered
<1>2. push[p].head \in Index /\ head \in Index /\ tail \in Index
  BY DEF TypeOK
<1>3. /\ Dist(push[p].head, head) \in Index /\ Dist(head, tail) \in Index
      /\ Dist(push[p].head, tail) \in Index
  BY <1>2, DistInc
<1>4. QED
  BY <1>1, <1>3, RingAssumption DEF Index

LEMMA PushWriteStep ==
    ASSUME NEW p, Producer = {p}, RingInv, PushWrite(p)
    PROVE  RingInv'
<1> USE DEF PushWrite
<1>0. TypeOK /\ CountersOrdered /\ SlotsExact /\ live
  BY DEF RingInv, Dropped
<1> DEFINE D == Dist(head, tail)
<1>1. push[p].tail = tail /\ D \in 0 .. Cap - 1
  BY <1>0, RoomAtTail
<1>2. Slot(tail) = (head + D) % Cap /\ Slot(tail) \in 0 .. Cap - 1 /\ head \in Nat
  <2>1. head \in Nat /\ tail \in Nat
    BY <1>0, RingAssumption DEF TypeOK, Index
  <2>2. QED
    BY <1>0, <2>1, SlotOfTail, SlotInRange DEF Slot
<1>3. push'[p] = [push[p] EXCEPT !.pc = "publish"] /\ push[p].item \in Value
  BY <1>0 DEF TypeOK
<1>4. TypeOK'
  BY <1>0, <1>1, <1>2, <1>3 DEF TypeOK
<1>5. CountersOrdered'
  BY <1>0, <1>3 DEF CountersOrdered
<1>6. SlotsExact'
  <2> SUFFICES ASSUME NEW d \in 0 .. Cap - 1
               PROVE  slots'[(head + d) % Cap] # Uninit <=> Filled(d)'
    BY DEF SlotsExact
  <2>0. (head + d) % Cap \in 0 .. Cap - 1 /\ Cap \in Nat \ {0}
    BY <1>2, SlotInRange, RingAssumption
  <2>1. Filled(d)' <=> Filled(d) \/ d = D
    BY <1>0, <1>3, RingAssumption DEF Filled, TypeOK
  <2>2. CASE d = D
    <3>1. slots'[(head + d) % Cap] = push[p].item
      BY <1>0, <1>1, <1>2, <2>2 DEF TypeOK
    <3>2. QED
      BY <1>3, <2>1, <2>2, <3>1, RingAssumption
  <2>3. CASE d # D
    <3>1. (head + d) % Cap # Slot(tail)
      BY <1>1, <1>2, <2>0, <2>3, ModInjective
    <3>2. slots'[(head + d) % Cap] = slots[(head + d) % Cap]
      BY <1>0, <1>1, <2>0, <3>1 DEF TypeOK
    <3>3. QED
      BY <1>0, <2>1, <2>3, <3>2 DEF SlotsExact
  <2>4. QED
    BY <2>2, <2>3
<1>7. QED
  BY <1>0, <1>4, <1>5, <1>6 DEF RingInv

LEMMA PushPublishStep ==
    ASSUME NEW p, Producer = {p}, RingInv, PushPublish(p)
    PROVE  RingInv'
<1> USE DEF PushPublish
<1>0. TypeOK /\ CountersOrdered /\ SlotsExact /\ live
  BY DEF RingInv, Dropped
<1>1. push[p].tail = tail /\ Dist(head, tail) \in 0 .. Cap - 1
  BY <1>0, RoomAtTail
<1>2. push'[p].pc = "idle" /\ push'[p].head = push[p].head /\ tail' = Inc(tail)
  BY <1>0, <1>1 DEF TypeOK
<1>3. /\ head \in Index /\ tail \in Index /\ push[p].head \in Index /\ pop.tail \in Index
      /\ Inc(tail) \in Index
  BY <1>0, RingAssumption DEF TypeOK, Inc, Index
<1>4. TypeOK'
  BY <1>0, <1>2, <1>3 DEF TypeOK
<1>5. /\ Dist(head, Inc(tail)) = Dist(head, tail) + 1
      /\ Dist(push[p].head, Inc(tail)) = Dist(push[p].head, tail) + 1
      /\ Dist(push[p].head, tail) \in 0 .. Cap - 1
      /\ Dist(push[p].head, head) \in Nat /\ Dist(head, pop.tail) \in Nat
  <2>1. Dist(push[p].head, tail) < Cap
    BY <1>0 DEF CountersOrdered
  <2>2. /\ Dist(push[p].head, tail) \in Index /\ Dist(push[p].head, head) \in Index
        /\ Dist(head, pop.tail) \in Index
    BY <1>3, DistInc
  <2>3. /\ Dist(push[p].head, tail) \in 0 .. Cap - 1
        /\ Dist(push[p].head, tail) # Size - 1 /\ Dist(head, tail) # Size - 1
        /\ Dist(push[p].head, head) \in Nat /\ Dist(head, pop.tail) \in Nat
    BY <1>1, <2>1, <2>2, RingAssumption DEF Index
  <2>4. QED
    BY <1>3, <2>3, DistInc
<1>6. CountersOrdered'
  <2>1. Dist(push[p].head, head) + Dist(head, tail) = Dist(push[p].head, tail)
        /\ Dist(head, pop.tail) <= Dist(head, tail)
        /\ (pop.pc # "idle" => pop.tail # head)
    BY <1>0 DEF CountersOrdered
  <2>2. /\ Dist(push[p].head, head) + (Dist(head, tail) + 1) = Dist(push[p].head, tail) + 1
        /\ Dist(push[p].head, tail) + 1 <= Cap
        /\ Dist(head, pop.tail) <= Dist(head, tail) + 1
    BY <1>1, <1>5, <2>1, RingAssumption
  <2>3. QED
    BY <1>2, <1>5, <2>1, <2>2 DEF CountersOrdered
<1>7. SlotsExact'
  <2> SUFFICES ASSUME NEW d \in 0 .. Cap - 1 PROVE Filled(d)' <=> Filled(d)
    BY <1>0 DEF SlotsExact
  <2>1. Dist(head', tail') = Dist(head, tail) + 1
    BY <1>2, <1>5
  <2>2. Dist(head, tail) = 0 => pop.pc # "publish"
    <3>1. pop.pc # "idle" => pop.tail # head /\ Dist(head, pop.tail) <= Dist(head, tail)
      BY <1>0 DEF CountersOrdered
    <3>2. Dist(head, pop.tail) = 0 <=> head = pop.tail
      BY <1>3, DistInc
    <3>3. QED
      BY <1>1, <1>5, <3>1, <3>2
  <2>3. push[p].pc = "publish" /\ push'[p].pc # "publish" /\ pop' = pop
    BY <1>2
  <2>4. QED
    BY <1>1, <2>1, <2>2, <2>3, RingAssumption DEF Filled
<1>8. QED
  BY <1>0, <1>4, <1>6, <1>7 DEF RingInv

\* A pop in progress has something to take: head is behind tail.
LEMMA PopHasValue ==
    ASSUME TypeOK, CountersOrdered, pop.pc # "idle"
    PROVE  head # tail /\ Dist(head, tail) \in Nat \ {0}
<1>1. head \in Index /\ tail \in Index /\ pop.tail \in Index
  BY DEF TypeOK
<1>2. pop.tail # head /\ Dist(head, pop.tail) <= Dist(head, tail)
  BY DEF CountersOrdered
<1>3. /\ Dist(head, pop.tail) \in Index /\ Dist(head, tail) \in Index
      /\ (Dist(head, pop.tail) = 0 <=> head = pop.tail)
      /\ (Dist(head, tail) = 0 <=> head = tail)
  BY <1>1, DistInc
<1>4. QED
  BY <1>2, <1>3, RingAssumption DEF Index

LEMMA PopLoadStep ==
    ASSUME NEW p, Producer = {p}, RingInv, PopLoad
    PROVE  RingInv'
<1> USE DEF PopLoad
<1>0. TypeOK /\ CountersOrdered /\ SlotsExact /\ live
  BY DEF RingInv
<1>1. PICK t \in Loads(pop.tail, tail) :
         pop' = [pop EXCEPT !.pc = IF t = head THEN "idle" ELSE "read", !.tail = t]
  OBVIOUS
<1>2. t \in Index /\ Dist(pop.tail, t) <= Dist(pop.tail, tail)
  BY <1>1 DEF Loads
<1>3. pop'.pc \in {"idle", "read"} /\ pop'.tail = t /\ (pop'.pc # "idle" => t # head)
  BY <1>0, <1>1 DEF TypeOK
<1>4. TypeOK'
  BY <1>0, <1>1, <1>2 DEF TypeOK
<1>5. CountersOrdered'
  <2>1. head \in Index /\ tail \in Index /\ pop.tail \in Index
    BY <1>0 DEF TypeOK
  <2>2. Dist(head, pop.tail) <= Dist(head, tail)
    BY <1>0 DEF CountersOrdered
  <2>3. Dist(head, t) <= Dist(head, tail)
    BY <1>2, <2>1, <2>2, RingAssumption DEF Dist, Index
  <2>4. QED
    BY <1>0, <1>3, <2>3 DEF CountersOrdered
<1>6. SlotsExact'
  <2>1. pop.pc # "publish" /\ pop'.pc # "publish"
    BY <1>3
  <2>2. ASSUME NEW d PROVE Filled(d)' <=> Filled(d)
    BY <2>1 DEF Filled
  <2>3. QED
    BY <1>0, <2>2 DEF SlotsExact
<1>7. QED
  BY <1>0, <1>4, <1>5, <1>6 DEF RingInv

LEMMA PopReadStep ==
    ASSUME NEW p, Producer = {p}, RingInv, PopRead
    PROVE  RingInv'
<1> USE DEF PopRead
<1>0. TypeOK /\ CountersOrdered /\ SlotsExact /\ live
  BY DEF RingInv, Dropped
<1>1. Dist(head, tail) \in Nat \ {0} /\ head \in Nat
  BY <1>0, PopHasValue, RingAssumption DEF TypeOK, Index
<1>2. Slot(head) = (head + 0) % Cap /\ Slot(head) \in 0 .. Cap - 1
  BY <1>0, <1>1, SlotOfTail, SlotInRange DEF Slot
<1>3. pop'.pc = "publish" /\ pop'.tail = pop.tail
  BY <1>0 DEF TypeOK
<1>4. TypeOK'
  BY <1>0, <1>2 DEF TypeOK
<1>5. CountersOrdered'
  BY <1>0, <1>3 DEF CountersOrdered
<1>6. SlotsExact'
  <2> SUFFICES ASSUME NEW d \in 0 .. Cap - 1
               PROVE  slots'[(head + d) % Cap] # Uninit <=> Filled(d)'
    BY DEF SlotsExact
  <2>0. (head + d) % Cap \in 0 .. Cap - 1 /\ Cap \in Nat \ {0} /\ 0 \in 0 .. Cap - 1
    BY <1>1, SlotInRange, RingAssumption
  <2>1. Filled(d)' <=> Filled(d) /\ d # 0
    BY <1>1, <1>3 DEF Filled
  <2>2. CASE d = 0
    <3>1. slots'[(head + d) % Cap] = Uninit
      BY <1>0, <1>2, <2>2 DEF TypeOK
    <3>2. QED
      BY <2>1, <2>2, <3>1
  <2>3. CASE d # 0
    <3>1. (head + d) % Cap # Slot(head)
      BY <1>1, <1>2, <2>0, <2>3, ModInjective
    <3>2. slots'[(head + d) % Cap] = slots[(head + d) % Cap]
      BY <1>0, <2>0, <3>1 DEF TypeOK
    <3>3. QED
      BY <1>0, <2>1, <2>3, <3>2 DEF SlotsExact
  <2>4. QED
    BY <2>2, <2>3
<1>7. QED
  BY <1>0, <1>4, <1>5, <1>6 DEF RingInv

LEMMA AtMostCap ==
    ASSUME NEW p \in Producer, TypeOK, CountersOrdered
    PROVE  Dist(head, tail) \in 0 .. Cap
<1>1. /\ Dist(push[p].head, head) + Dist(head, tail) = Dist(push[p].head, tail)
      /\ Dist(push[p].head, tail) <= Cap
  BY DEF CountersOrdered
<1>2. push[p].head \in Index /\ head \in Index /\ tail \in Index
  BY DEF TypeOK
<1>3. /\ Dist(push[p].head, head) \in Index /\ Dist(head, tail) \in Index
      /\ Dist(push[p].head, tail) \in Index
  BY <1>2, DistInc
<1>4. QED
  BY <1>1, <1>3, RingAssumption DEF Index

LEMMA PopPublishStep ==
    ASSUME NEW p, Producer = {p}, RingInv, PopPublish
    PROVE  RingInv'
<1> USE DEF PopPublish
<1>0. TypeOK /\ CountersOrdered /\ SlotsExact /\ live
  BY DEF RingInv, Dropped
<1>1. /\ head \in Index /\ tail \in Index /\ push[p].head \in Index /\ pop.tail \in Index
      /\ Inc(head) \in Index /\ head \in Nat
  <2>1. head \in Index /\ tail \in Index /\ push[p].head \in Index /\ pop.tail \in Index
    BY <1>0 DEF TypeOK
  <2>2. QED
    BY <2>1, RingAssumption DEF Inc, Index
<1>2. pop'.pc = "idle" /\ pop'.tail = pop.tail
  BY <1>0 DEF TypeOK
<1>3. TypeOK'
  BY <1>0, <1>1 DEF TypeOK
<1>4. /\ head # tail /\ Dist(head, tail) \in 1 .. Cap /\ pop.tail # head
      /\ Dist(head, pop.tail) <= Dist(head, tail)
  BY <1>0, PopHasValue, AtMostCap, RingAssumption DEF CountersOrdered
<1>5. /\ Dist(Inc(head), tail) = Dist(head, tail) - 1
      /\ Dist(Inc(head), pop.tail) = Dist(head, pop.tail) - 1
      /\ Dist(head, pop.tail) \in Nat
  <2>1. Dist(head, pop.tail) \in Nat
    BY <1>1, DistInc, RingAssumption DEF Index
  <2>2. QED
    BY <1>1, <1>4, <2>1, DistInc
<1>6. CountersOrdered'
  <2>1. /\ Dist(push[p].head, head) + Dist(head, tail) = Dist(push[p].head, tail)
        /\ Dist(push[p].head, tail) <= Cap
        /\ (push[p].pc # "idle" => push[p].tail = tail /\ Dist(push[p].head, tail) < Cap)
    BY <1>0 DEF CountersOrdered
  <2>2. /\ Dist(push[p].head, head) \in Index /\ Dist(push[p].head, tail) \in Index
        /\ (Dist(push[p].head, head) # Size - 1
              => Dist(push[p].head, Inc(head)) = Dist(push[p].head, head) + 1)
    BY <1>1, DistInc
  <2>3. Dist(push[p].head, Inc(head)) + Dist(Inc(head), tail) = Dist(push[p].head, tail)
    BY <1>4, <1>5, <2>1, <2>2, RingAssumption DEF Index
  <2>4. Dist(Inc(head), pop.tail) <= Dist(Inc(head), tail)
    BY <1>4, <1>5
  <2>5. QED
    BY <1>2, <2>1, <2>3, <2>4 DEF CountersOrdered
<1>7. SlotsExact'
  <2> SUFFICES ASSUME NEW d \in 0 .. Cap - 1
               PROVE  slots[(Inc(head) + d) % Cap] # Uninit <=> Filled(d)'
    BY DEF SlotsExact
  <2>1. (Inc(head) + d) % Cap = (head + (d + 1)) % Cap
    BY <1>1, SlotFromInc, RingAssumption
  <2>2. Filled(d)' <=> \/ d < Dist(head, tail) - 1
                       \/ d = Dist(head, tail) - 1 /\ push[p].pc = "publish"
    BY <1>2, <1>5 DEF Filled
  <2>3. CASE d + 1 \in 0 .. Cap - 1
    <3>1. slots[(head + (d + 1)) % Cap] # Uninit <=> Filled(d + 1)
      BY <1>0, <2>3 DEF SlotsExact
    <3>2. Filled(d + 1) <=> Filled(d)'
      BY <1>4, <2>2, RingAssumption DEF Filled
    <3>3. QED
      BY <2>1, <3>1, <3>2
  <2>4. CASE d + 1 = Cap
    <3>1. (head + (d + 1)) % Cap = (head + 0) % Cap
      <4>1. Cap \in Nat \ {0}
        BY RingAssumption
      <4>2. head + (d + 1) = head + Cap * 1 /\ head + 0 = head
        BY <1>1, <2>4, <4>1
      <4>3. (head + Cap * 1) % Cap = head % Cap
        BY <1>1, <4>1, ModShift
      <4>4. QED
        BY <4>2, <4>3
    <3>2. slots[(head + 0) % Cap] = Uninit
      <4>1. ~Filled(0)
        BY <1>4 DEF Filled
      <4>2. 0 \in 0 .. Cap - 1
        BY RingAssumption
      <4>3. QED
        BY <1>0, <4>1, <4>2 DEF SlotsExact
    <3>3. push[p].pc = "publish" => Dist(head, tail) # Cap
      BY <1>0, RoomAtTail, RingAssumption
    <3>4. ~Filled(d)'
      BY <1>4, <2>2, <2>4, <3>3, RingAssumption
    <3>5. QED
      BY <2>1, <3>1, <3>2, <3>4
  <2>5. QED
    BY <2>3, <2>4, RingAssumption
<1>8. QED
  BY <1>0, <1>3, <1>6, <1>7 DEF RingInv

LEMMA DropStep ==
    ASSUME NEW p, Producer = {p}, RingInv, Drop
    PROVE  RingInv'
<1> USE DEF Drop
<1>0. TypeOK /\ CountersOrdered /\ SlotsExact
  BY DEF RingInv
<1>1. TypeOK'
  BY <1>0 DEF TypeOK
<1>2. CountersOrdered'
  BY <1>0 DEF CountersOrdered
<1>3. ASSUME NEW i \in 0 .. Cap - 1, i \notin Occupied PROVE slots[i] = Uninit
  <2>0. head \in Index /\ tail \in Index /\ head \in Nat /\ Cap \in Nat \ {0}
    BY <1>0, RingAssumption DEF TypeOK, Index
  <2>1. PICK d \in 0 .. Cap - 1 : (head + d) % Cap = i
    BY <2>0, ModSurjective
  <2>2. ~(d < Dist(head, tail))
    <3>1. SUFFICES ASSUME d < Dist(head, tail) PROVE i \in Occupied
      BY <1>3
    <3> DEFINE j == IF head + d < Size THEN head + d ELSE head + d - Size
    <3>2. j \in Index /\ Dist(head, j) = d
      BY <2>0, RingAssumption DEF Index, Dist
    <3>3. Slot(j) = i
      BY <2>0, <2>1, <3>2, SlotByDistance
    <3>4. QED
      BY <3>1, <3>2, <3>3 DEF Occupied
  <2>3. ~Filled(d)
    BY <2>2 DEF Filled
  <2>4. QED
    BY <1>0, <2>1, <2>3 DEF SlotsExact
<1>4. Dropped'
  BY <1>3 DEF Dropped
<1>5. QED
  BY <1>1, <1>2, <1>4 DEF RingInv

LEMMA RingStep ==
    ASSUME NEW p, Producer = {p}, RingInv, [Next]_vars
    PROVE  RingInv'
<1>1. CASE PushLoad(p)
  BY <1>1, PushLoadStep
<1>2. CASE PushWrite(p)
  BY <1>2, PushWriteStep
<1>3. CASE PushPublish(p)
  BY <1>3, PushPublishStep
<1>4. CASE PopLoad
  BY <1>4, PopLoadStep
<1>5. CASE PopRead
  BY <1>5, PopReadStep
<1>6. CASE PopPublish
  BY <1>6, PopPublishStep
<1>7. CASE Drop
  BY <1>7, DropStep
<1>8. CASE UNCHANGED vars
  <2>1. TypeOK' /\ CountersOrdered' /\ live' = live
    BY <1>8 DEF RingInv, vars, TypeOK, CountersOrdered
  <2>2. SlotsExact => SlotsExact'
    BY <1>8 DEF vars, SlotsExact, Filled
  <2>3. Dropped => Dropped'
    BY <1>8 DEF vars, Dropped
  <2>4. QED
    BY <2>1, <2>2, <2>3 DEF RingInv
<1>9. QED
  BY <1>1, <1>2, <1>3, <1>4, <1>5, <1>6, <1>7, <1>8 DEF Next

LEMMA RingOwnership ==
    ASSUME NEW p, Producer = {p}, RingInv
    PROVE  SlotOwnership
<1>1. CASE ~live
  BY <1>1 DEF RingInv, Dropped, SlotOwnership
<1>2. CASE live
  <2>0. TypeOK /\ CountersOrdered /\ SlotsExact
    BY <1>2 DEF RingInv
  <2>1. ASSUME push[p].pc = "write" PROVE slots[Slot(push[p].tail)] = Uninit
    <3>1. push[p].tail = tail /\ Dist(head, tail) \in 0 .. Cap - 1
      BY <2>0, <2>1, RoomAtTail
    <3>2. Slot(tail) = (head + Dist(head, tail)) % Cap
      BY <2>0, SlotOfTail
    <3>3. ~Filled(Dist(head, tail))
      BY <2>1, <3>1, RingAssumption DEF Filled
    <3>4. QED
      BY <2>0, <3>1, <3>2, <3>3 DEF SlotsExact
  <2>2. ASSUME pop.pc = "read" PROVE slots[Slot(head)] # Uninit
    <3>1. Dist(head, tail) \in Nat \ {0}
      BY <2>0, <2>2, PopHasValue
    <3>2. Slot(head) = (head + 0) % Cap
      BY <2>0, SlotOfTail
    <3>3. Filled(0) /\ 0 \in 0 .. Cap - 1
      BY <2>2, <3>1, RingAssumption DEF Filled
    <3>4. QED
      BY <2>0, <3>2, <3>3 DEF SlotsExact
  <2>3. QED
    BY <2>1, <2>2 DEF SlotOwnership
<1>3. QED
  BY <1>1, <1>2

\* With one producer, push never overwrites a slot that is still occupied and pop
\* never reads one that was not written, for every capacity and counter width.
THEOREM SpscOwnership ==
    ASSUME NEW p, Producer = {p}
    PROVE  Spec => [](TypeOK /\ SlotOwnership)
<1>1. RingInv /\ [Next]_vars => RingInv'
  BY RingStep
<1>2. RingInv => TypeOK /\ SlotOwnership
  BY RingOwnership DEF RingInv
<1>3. QED
  BY RingInit, <1>1, <1>2, PTL DEF Spec

\* With one producer, Ring::drop releases every value left in the ring.
THEOREM SpscNoLeak ==
    ASSUME NEW p, Producer = {p}
    PROVE  Spec => []NothingLeaks
<1>1. RingInv /\ [Next]_vars => RingInv'
  BY RingStep
<1>2. RingInv => NothingLeaks
  BY DEF RingInv, Dropped, NothingLeaks
<1>3. QED
  BY RingInit, <1>1, <1>2, PTL DEF Spec

-----------------------------------------------------------------------------
\* The ring implements the abstract queue.

Item == Value \cup {Uninit}

\* What the k-th published slot stands for.
Shown(k) == IF k = 1 /\ pop.pc = "publish" THEN pop.item ELSE slots[(head + k - 1) % Cap]

\* A push that has written its item has written it at tail.
WrittenAtTail ==
    \A p \in Producer : push[p].pc = "publish" => slots[Slot(tail)] = push[p].item

LEMMA IsAppend ==
    ASSUME NEW S, NEW s \in Seq(S), NEW t \in Seq(S), NEW e \in S,
           Len(t) = Len(s) + 1, \A k \in 1 .. Len(s) : t[k] = s[k], t[Len(s) + 1] = e
    PROVE  t = Append(s, e)
<1>1. /\ Append(s, e) \in Seq(S) /\ Len(Append(s, e)) = Len(s) + 1
      /\ \A k \in 1 .. Len(s) : Append(s, e)[k] = s[k]
      /\ Append(s, e)[Len(s) + 1] = e
  BY AppendProperties
<1>2. Len(s) \in Nat
  BY LenProperties
<1>3. \A k \in 1 .. Len(t) : t[k] = Append(s, e)[k]
  BY <1>1, <1>2
<1>4. QED
  BY <1>1, <1>3, SeqEqual

LEMMA IsTail ==
    ASSUME NEW S, NEW s \in Seq(S), NEW t \in Seq(S), s # <<>>,
           Len(t) = Len(s) - 1, \A k \in 1 .. Len(t) : t[k] = s[k + 1]
    PROVE  t = Tail(s) /\ Head(s) = s[1]
<1>1. /\ Tail(s) \in Seq(S) /\ Len(Tail(s)) = Len(s) - 1 /\ Head(s) = s[1]
      /\ \A k \in 1 .. Len(Tail(s)) : Tail(s)[k] = s[k + 1]
  BY HeadTailProperties
<1>2. QED
  BY <1>1, SeqEqual

ShowsSlots ==
    /\ Contents \in Seq(Item)
    /\ Len(Contents) = Dist(head, tail)
    /\ \A k \in 1 .. Dist(head, tail) : Contents[k] = Shown(k)

LEMMA ContentsShape == Producer # {} /\ TypeOK /\ CountersOrdered => ShowsSlots
<1> SUFFICES ASSUME NEW p \in Producer, TypeOK, CountersOrdered PROVE ShowsSlots
  OBVIOUS
<1>1. Dist(head, tail) \in Nat /\ head \in Nat
  BY AtMostCap, RingAssumption DEF TypeOK, Index
<1>2. \A k \in 1 .. Dist(head, tail) : Shown(k) \in Item
  <2> TAKE k \in 1 .. Dist(head, tail)
  <2>1. head + k - 1 \in Nat
    BY <1>1
  <2>2. (head + k - 1) % Cap \in 0 .. Cap - 1
    BY <2>1, SlotInRange
  <2>3. QED
    BY <2>2 DEF TypeOK, Shown, Item
<1>3. Contents = [k \in 1 .. Dist(head, tail) |-> Shown(k)]
  BY DEF Contents, Shown
<1>4. Contents \in [1 .. Dist(head, tail) -> Item]
  BY <1>2, <1>3
<1>5. QED
  BY <1>1, <1>3, <1>4, SeqDef, LenProperties DEF ShowsSlots

\* The consumer's slot is not the one a push in progress works on.
LEMMA SlotsApart ==
    ASSUME NEW p, Producer = {p}, TypeOK, CountersOrdered,
           push[p].pc # "idle", NEW d \in 0 .. Dist(head, tail) - 1
    PROVE  (head + d) % Cap # Slot(tail)
<1>1. Dist(head, tail) \in 0 .. Cap - 1 /\ head \in Nat /\ Cap \in Nat \ {0}
  BY RoomAtTail, RingAssumption DEF TypeOK, Index
<1>2. Slot(tail) = (head + Dist(head, tail)) % Cap
  BY SlotOfTail
<1>3. d \in 0 .. Cap - 1 /\ d # Dist(head, tail)
  BY <1>1
<1>4. QED
  BY <1>1, <1>2, <1>3, ModInjective

LEMMA WrittenStep ==
    ASSUME NEW p, Producer = {p}, RingInv, WrittenAtTail, [Next]_vars
    PROVE  WrittenAtTail'
<1>0. TypeOK /\ CountersOrdered
  BY DEF RingInv
<1>1. CASE PushLoad(p)
  BY <1>0, <1>1 DEF PushLoad, WrittenAtTail, TypeOK
<1>2. CASE PushWrite(p)
  <2>1. push[p].tail = tail /\ tail \in Nat
    BY <1>0, <1>2, RoomAtTail, RingAssumption DEF PushWrite, TypeOK, Index
  <2>2. Slot(tail) \in 0 .. Cap - 1
    BY <2>1, SlotInRange DEF Slot
  <2>3. slots'[Slot(tail)] = push[p].item /\ push'[p].item = push[p].item
    BY <1>0, <1>2, <2>1, <2>2 DEF PushWrite, TypeOK
  <2>4. QED
    BY <1>2, <2>3 DEF WrittenAtTail, PushWrite, Slot
<1>3. CASE PushPublish(p)
  BY <1>0, <1>3 DEF PushPublish, WrittenAtTail, TypeOK
<1>4. CASE PopLoad \/ PopPublish
  BY <1>4 DEF PopLoad, PopPublish, WrittenAtTail, Slot
<1>5. CASE PopRead
  <2> SUFFICES ASSUME push[p].pc = "publish"
               PROVE  slots'[Slot(tail)] = slots[Slot(tail)]
    BY <1>5 DEF PopRead, WrittenAtTail, Slot
  <2>1. Dist(head, tail) \in Nat \ {0}
    BY <1>0, <1>5, PopHasValue DEF PopRead
  <2>2. Slot(head) # Slot(tail)
    <3>1. 0 \in 0 .. Dist(head, tail) - 1
      BY <2>1
    <3>2. (head + 0) % Cap # Slot(tail)
      BY <1>0, <3>1, SlotsApart
    <3>3. QED
      BY <1>0, <3>2, SlotOfTail
  <2>3. QED
    BY <1>0, <1>5, <2>2 DEF PopRead, TypeOK
<1>6. CASE Drop
  BY <1>6 DEF Drop, WrittenAtTail
<1>7. CASE UNCHANGED vars
  BY <1>7 DEF vars, WrittenAtTail, Slot
<1>8. QED
  BY <1>1, <1>2, <1>3, <1>4, <1>5, <1>6, <1>7 DEF Next

\* A step that moves neither counter and leaves what each published slot shows
\* leaves the queue alone.
LEMMA SameContents ==
    ASSUME head' = head, tail' = tail,
           \A k \in 1 .. Dist(head, tail) : Shown(k)' = Shown(k)
    PROVE  Contents' = Contents
BY DEF Contents, Shown, Dist

LEMMA PushWriteRefines ==
    ASSUME NEW p, Producer = {p}, TypeOK, CountersOrdered, PushWrite(p)
    PROVE  Contents' = Contents
<1>1. push[p].tail = tail /\ Dist(head, tail) \in 0 .. Cap - 1 /\ head \in Nat
  BY RoomAtTail, RingAssumption DEF PushWrite, TypeOK, Index
<1>2. ASSUME NEW k \in 1 .. Dist(head, tail) PROVE Shown(k)' = Shown(k)
  <2>1. k - 1 \in 0 .. Dist(head, tail) - 1 /\ head + k - 1 = head + (k - 1)
    BY <1>1
  <2>2. (head + (k - 1)) % Cap # Slot(tail)
    BY <2>1, SlotsApart DEF PushWrite
  <2>3. (head + k - 1) % Cap # Slot(push[p].tail)
    BY <1>1, <2>1, <2>2
  <2>4. slots'[(head + k - 1) % Cap] = slots[(head + k - 1) % Cap]
    BY <2>3 DEF PushWrite, TypeOK
  <2>5. QED
    BY <2>4 DEF Shown, PushWrite
<1>3. QED
  BY <1>2, SameContents DEF PushWrite

LEMMA PopReadRefines ==
    ASSUME NEW p, Producer = {p}, TypeOK, CountersOrdered, PopRead
    PROVE  Contents' = Contents
<1>1. Dist(head, tail) \in 1 .. Cap /\ head \in Nat /\ Cap \in Nat \ {0}
  BY PopHasValue, AtMostCap, RingAssumption DEF PopRead, TypeOK, Index
<1>2. Slot(head) = (head + 0) % Cap
  BY SlotOfTail
<1>3. pop'.pc = "publish" /\ pop'.item = slots[Slot(head)]
  BY DEF PopRead, TypeOK
<1>4. ASSUME NEW k \in 1 .. Dist(head, tail) PROVE Shown(k)' = Shown(k)
  <2>1. k - 1 \in 0 .. Cap - 1 /\ head + k - 1 = head + (k - 1)
    BY <1>1
  <2>2. CASE k = 1
    <3>1. head + k - 1 = head + 0
      BY <1>1, <2>2
    <3>2. QED
      BY <1>2, <1>3, <2>2, <3>1 DEF Shown, PopRead
  <2>3. CASE k # 1
    <3>1. (head + (k - 1)) % Cap # (head + 0) % Cap
      <4>1. 0 \in 0 .. Cap - 1 /\ k - 1 # 0
        BY <1>1, <2>3
      <4>2. QED
        BY <1>1, <2>1, <4>1, ModInjective
    <3>2. slots'[(head + k - 1) % Cap] = slots[(head + k - 1) % Cap]
      BY <1>2, <2>1, <3>1 DEF PopRead, TypeOK
    <3>3. QED
      BY <2>3, <3>2 DEF Shown, PopRead
  <2>4. QED
    BY <2>2, <2>3
<1>5. QED
  BY <1>4, SameContents DEF PopRead

LEMMA PushPublishRefines ==
    ASSUME NEW p, Producer = {p}, RingInv, RingInv', WrittenAtTail, PushPublish(p)
    PROVE  /\ Len(Contents) < Cap
           /\ push[p].item \in Value
           /\ Contents' = Append(Contents, push[p].item)
<1>0. TypeOK /\ CountersOrdered /\ TypeOK' /\ CountersOrdered'
  BY DEF RingInv
<1> DEFINE n == Dist(head, tail)
<1>1. push[p].tail = tail /\ n \in 0 .. Cap - 1 /\ head \in Nat /\ head \in Index
      /\ tail \in Index
  BY <1>0, RoomAtTail, RingAssumption DEF PushPublish, TypeOK, Index
<1>2. push[p].item \in Value /\ slots[Slot(tail)] = push[p].item
  BY <1>0 DEF PushPublish, TypeOK, WrittenAtTail
<1>3. Contents \in Seq(Item) /\ Len(Contents) = n
      /\ \A k \in 1 .. n : Contents[k] = Shown(k)
  BY <1>0, ContentsShape DEF ShowsSlots
<1>4. Dist(head, tail)' = n + 1
  BY <1>1, DistInc, RingAssumption DEF PushPublish
<1>5. Contents' \in Seq(Item) /\ Len(Contents') = n + 1
      /\ \A k \in 1 .. n + 1 : Contents'[k] = Shown(k)'
  <2>1. (Producer # {} /\ TypeOK /\ CountersOrdered)'
    BY <1>0
  <2>2. ShowsSlots'
    BY <2>1, ContentsShape, PTL
  <2>3. QED
    BY <1>4, <2>2 DEF ShowsSlots, Item
<1>6. ASSUME NEW k \in 1 .. n + 1 PROVE Shown(k)' = Shown(k)
  BY DEF Shown, PushPublish
<1>7. Shown(n + 1) = push[p].item
  <2>1. Slot(tail) = (head + n) % Cap /\ head + (n + 1) - 1 = head + n
    BY <1>0, <1>1, SlotOfTail
  <2>2. ~(n + 1 = 1 /\ pop.pc = "publish")
    BY <1>0, <1>1, PopHasValue
  <2>3. QED
    BY <1>2, <2>1, <2>2 DEF Shown
<1> HIDE DEF n
<1>8. /\ \A k \in 1 .. n : Contents'[k] = Contents[k]
      /\ Contents'[n + 1] = push[p].item
  BY <1>1, <1>3, <1>5, <1>6, <1>7
<1>9. Contents' = Append(Contents, push[p].item)
  <2>1. push[p].item \in Item
    BY <1>2 DEF Item
  <2>2. QED
    BY <1>3, <1>5, <1>8, <2>1, IsAppend
<1>10. QED
  BY <1>1, <1>2, <1>3, <1>9, RingAssumption

LEMMA PopPublishRefines ==
    ASSUME NEW p, Producer = {p}, RingInv, RingInv', PopPublish
    PROVE  /\ Contents # <<>>
           /\ got' = Head(Contents)
           /\ Contents' = Tail(Contents)
<1>0. TypeOK /\ CountersOrdered /\ TypeOK' /\ CountersOrdered'
  BY DEF RingInv
<1> DEFINE n == Dist(head, tail)
<1>1. n \in Nat \ {0} /\ head # tail /\ head \in Nat /\ head \in Index /\ tail \in Index
  BY <1>0, PopHasValue, RingAssumption DEF PopPublish, TypeOK, Index
<1>3. Contents \in Seq(Item) /\ Len(Contents) = n
      /\ \A k \in 1 .. n : Contents[k] = Shown(k)
  BY <1>0, ContentsShape DEF ShowsSlots
<1>4. Dist(head, tail)' = n - 1 /\ pop'.pc = "idle"
  BY <1>0, <1>1, DistInc, RingAssumption DEF PopPublish, TypeOK
<1>5. Contents' \in Seq(Item) /\ Len(Contents') = n - 1
      /\ \A k \in 1 .. n - 1 : Contents'[k] = Shown(k)'
  <2>1. (Producer # {} /\ TypeOK /\ CountersOrdered)'
    BY <1>0
  <2>2. ShowsSlots'
    BY <2>1, ContentsShape, PTL
  <2>3. QED
    BY <1>4, <2>2 DEF ShowsSlots, Item
<1>6. ASSUME NEW k \in 1 .. n - 1 PROVE Shown(k)' = Shown(k + 1)
  <2>1. Shown(k)' = slots[(Inc(head) + k - 1) % Cap]
    BY <1>4 DEF Shown, PopPublish
  <2>2. k - 1 \in Nat /\ (Inc(head) + (k - 1)) % Cap = (head + ((k - 1) + 1)) % Cap
        /\ Inc(head) \in Int
    BY <1>1, SlotFromInc, RingAssumption DEF Index
  <2>3. Inc(head) + k - 1 = Inc(head) + (k - 1)
        /\ head + ((k - 1) + 1) = head + (k + 1) - 1 /\ k + 1 # 1
    BY <1>1, <2>2
  <2>4. QED
    BY <2>1, <2>2, <2>3 DEF Shown
<1>7. Shown(1) = pop.item
  BY DEF Shown, PopPublish
<1> HIDE DEF n
<1>8. Contents # <<>>
  BY <1>1, <1>3, EmptySeq
<1>9. \A k \in 1 .. Len(Contents') : Contents'[k] = Contents[k + 1]
  <2> TAKE k \in 1 .. Len(Contents')
  <2>1. k \in 1 .. n - 1 /\ k + 1 \in 1 .. n
    BY <1>1, <1>5
  <2>2. QED
    BY <1>3, <1>5, <1>6, <2>1
<1>10. Contents' = Tail(Contents) /\ Head(Contents) = Contents[1]
  BY <1>3, <1>5, <1>8, <1>9, IsTail
<1>11. Contents[1] = pop.item
  BY <1>1, <1>3, <1>7
<1>12. QED
  BY <1>8, <1>10, <1>11 DEF PopPublish

LEMMA FifoStep ==
    ASSUME NEW p, Producer = {p}, RingInv, RingInv', WrittenAtTail, [Next]_vars
    PROVE  [Fifo!Next]_Fifo!fifoVars
<1>0. TypeOK /\ CountersOrdered
  BY DEF RingInv
<1> USE DEF Fifo!Next, Fifo!Push, Fifo!Pop, Fifo!Drop, Fifo!fifoVars
<1>1. CASE PushLoad(p)
  BY <1>1 DEF PushLoad, Contents, Dist
<1>2. CASE PushWrite(p)
  <2>1. Contents' = Contents
    BY <1>0, <1>2, PushWriteRefines
  <2>2. QED
    BY <1>2, <2>1 DEF PushWrite
<1>3. CASE PushPublish(p)
  <2>1. live /\ live' = live /\ got' = got
    BY <1>3 DEF PushPublish, RingInv, Dropped
  <2>2. /\ Len(Contents) < Cap
        /\ push[p].item \in Value
        /\ Contents' = Append(Contents, push[p].item)
    BY <1>3, PushPublishRefines
  <2>3. Fifo!Push
    BY <2>1, <2>2
  <2>4. QED
    BY <2>3
<1>4. CASE PopLoad
  <2>1. pop.pc # "publish" /\ pop'.pc # "publish"
    BY <1>0, <1>4 DEF PopLoad, TypeOK
  <2>2. Contents' = Contents
    BY <1>4, <2>1, SameContents DEF PopLoad, Shown
  <2>3. QED
    BY <1>4, <2>2 DEF PopLoad
<1>5. CASE PopRead
  <2>1. Contents' = Contents
    BY <1>0, <1>5, PopReadRefines
  <2>2. QED
    BY <1>5, <2>1 DEF PopRead
<1>6. CASE PopPublish
  <2>1. live /\ live' = live
    BY <1>6 DEF PopPublish, RingInv, Dropped
  <2>2. /\ Contents # <<>>
        /\ got' = Head(Contents)
        /\ Contents' = Tail(Contents)
    BY <1>6, PopPublishRefines
  <2>3. Fifo!Pop
    BY <2>1, <2>2
  <2>4. QED
    BY <2>3
<1>7. CASE Drop
  BY <1>7 DEF Drop
<1>8. CASE UNCHANGED vars
  BY <1>8 DEF vars, Contents, Dist
<1>9. QED
  BY <1>1, <1>2, <1>3, <1>4, <1>5, <1>6, <1>7, <1>8 DEF Next

LEMMA FifoInit == Init => Fifo!Init
<1> SUFFICES ASSUME Init PROVE Fifo!Init
  OBVIOUS
<1>1. Dist(head, tail) = 0
  BY RingAssumption DEF Init, Dist
<1>2. Contents = <<>>
  BY <1>1 DEF Contents
<1>3. QED
  BY <1>2 DEF Init, Fifo!Init

\* With one producer the ring is a bounded FIFO queue: the code's lock-free loads
\* and stores implement Push, Pop and Drop of BoundedFifo.
THEOREM SpscRefinesFifo ==
    ASSUME NEW p, Producer = {p}
    PROVE  Spec => ImplementsFifo
<1>1. RingInv /\ [Next]_vars => RingInv'
  BY RingStep
<1>2. Init => WrittenAtTail
  BY DEF Init, WrittenAtTail
<1>3. RingInv /\ WrittenAtTail /\ [Next]_vars => WrittenAtTail'
  BY WrittenStep
<1>4. RingInv /\ RingInv' /\ WrittenAtTail /\ [Next]_vars => [Fifo!Next]_Fifo!fifoVars
  BY FifoStep
<1>5. QED
  BY RingInit, FifoInit, <1>1, <1>2, <1>3, <1>4, PTL DEF Spec, ImplementsFifo, Fifo!Spec
=============================================================================
