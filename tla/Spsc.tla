------------------------------- MODULE Spsc -------------------------------
(***************************************************************************)
(* The lock-free ring of crates/spsc/src/lib.rs, one action per memory     *)
(* access.  head and tail are usize counters that wrap at Size; a slot is  *)
(* counter & mask.  An Acquire load of the other side's counter may return *)
(* an old value, but never one older than this thread has seen.            *)
(*                                                                         *)
(* Producer is the set of threads that call push on the one Producer       *)
(* handle: push takes &self and the handle is Sync, so the type system     *)
(* allows several.                                                         *)
(***************************************************************************)
EXTENDS Integers, Sequences

CONSTANTS
    Producer,
    Value,
    Uninit,    \* an uninitialised slot
    Cap,       \* buf.len(), a power of two
    Size       \* usize::MAX + 1, a multiple of Cap

ASSUME RingAssumption ==
    /\ Cap \in Nat /\ Cap >= 2
    /\ Size \in Nat /\ Size > Cap /\ Size % Cap = 0
    /\ Uninit \notin Value /\ Value # {}

Index == 0 .. Size - 1

VARIABLES
    head, tail,     \* the published counters
    slots,          \* buf
    push,           \* per producer: pc and locals of push()
    pop,            \* pc and locals of pop()
    got,            \* the value last returned by pop()
    live            \* Ring::drop has not run

vars == <<head, tail, slots, push, pop, got, live>>

\* usize::wrapping_add(1) and wrapping_sub
Inc(i) == IF i = Size - 1 THEN 0 ELSE i + 1

Dist(from, to) == IF to >= from THEN to - from ELSE to - from + Size

Slot(i) == i % Cap

\* Values a load may return: from the one last seen up to the current one.
Loads(seen, current) == {i \in Index : Dist(seen, i) <= Dist(seen, current)}

Init ==
    /\ head = 0 /\ tail = 0
    /\ slots = [i \in 0 .. Cap - 1 |-> Uninit]
    /\ \E v \in Value :
          /\ push = [p \in Producer |-> [pc |-> "idle", item |-> v, tail |-> 0, head |-> 0]]
          /\ pop = [pc |-> "idle", item |-> v, tail |-> 0]
          /\ got = v
    /\ live = TRUE

\* Mutant of PushLoad: the ring is taken to be full one slot too late.
PushLoadOverfull(p) ==
    /\ live /\ push[p].pc = "idle"
    /\ \E h \in Loads(push[p].head, head), v \in Value :
          push' = [push EXCEPT ![p] =
                     [pc   |-> IF Dist(h, tail) > Cap THEN "idle" ELSE "write",
                      item |-> v, tail |-> tail, head |-> h]]
    /\ UNCHANGED <<head, tail, slots, pop, got, live>>

\* Both loads of push(); a full ring returns the item to the caller.
PushLoad(p) ==
    /\ live /\ push[p].pc = "idle"
    /\ \E h \in Loads(push[p].head, head), v \in Value :
          push' = [push EXCEPT ![p] =
                     [pc   |-> IF Dist(h, tail) = Cap THEN "idle" ELSE "write",
                      item |-> v, tail |-> tail, head |-> h]]
    /\ UNCHANGED <<head, tail, slots, pop, got, live>>

PushWrite(p) ==
    /\ push[p].pc = "write"
    /\ slots' = [slots EXCEPT ![Slot(push[p].tail)] = push[p].item]
    /\ push' = [push EXCEPT ![p].pc = "publish"]
    /\ UNCHANGED <<head, tail, pop, got, live>>

PushPublish(p) ==
    /\ push[p].pc = "publish"
    /\ tail' = Inc(push[p].tail)
    /\ push' = [push EXCEPT ![p].pc = "idle"]
    /\ UNCHANGED <<head, slots, pop, got, live>>

PopLoad ==
    /\ live /\ pop.pc = "idle"
    /\ \E t \in Loads(pop.tail, tail) :
          pop' = [pop EXCEPT !.pc = IF t = head THEN "idle" ELSE "read", !.tail = t]
    /\ UNCHANGED <<head, tail, slots, push, got, live>>

\* Mutant of PopRead: the slot after head is read.
PopReadNext ==
    /\ pop.pc = "read"
    /\ pop' = [pop EXCEPT !.pc = "publish", !.item = slots[Slot(Inc(head))]]
    /\ slots' = [slots EXCEPT ![Slot(head)] = Uninit]
    /\ UNCHANGED <<head, tail, push, got, live>>

\* assume_init_read moves the value out of the slot.
PopRead ==
    /\ pop.pc = "read"
    /\ pop' = [pop EXCEPT !.pc = "publish", !.item = slots[Slot(head)]]
    /\ slots' = [slots EXCEPT ![Slot(head)] = Uninit]
    /\ UNCHANGED <<head, tail, push, got, live>>

PopPublish ==
    /\ pop.pc = "publish"
    /\ head' = Inc(head)
    /\ got' = pop.item
    /\ pop' = [pop EXCEPT !.pc = "idle"]
    /\ UNCHANGED <<tail, slots, push, live>>

\* Mutant of Occupied: the last slot is missed.
OccupiedButLast == {Slot(i) : i \in {j \in Index : Dist(head, j) + 1 < Dist(head, tail)}}

\* The slots Ring::drop releases: those from head up to tail.
Occupied == {Slot(i) : i \in {j \in Index : Dist(head, j) < Dist(head, tail)}}

\* Both handles are gone, so neither side is inside a call.
Drop ==
    /\ live /\ pop.pc = "idle" /\ \A p \in Producer : push[p].pc = "idle"
    /\ live' = FALSE
    /\ slots' = [i \in 0 .. Cap - 1 |-> IF i \in Occupied THEN Uninit ELSE slots[i]]
    /\ UNCHANGED <<head, tail, push, pop, got>>

Next ==
    \/ \E p \in Producer : PushLoad(p) \/ PushWrite(p) \/ PushPublish(p)
    \/ PopLoad \/ PopRead \/ PopPublish
    \/ Drop

Spec == Init /\ [][Next]_vars

-----------------------------------------------------------------------------
\* Counters stay below Size, locals and slots are well formed.
TypeOK ==
    /\ head \in Index /\ tail \in Index
    /\ slots \in [0 .. Cap - 1 -> Value \cup {Uninit}]
    /\ push \in [Producer -> [pc : {"idle", "write", "publish"}, item : Value,
                              tail : Index, head : Index]]
    /\ pop \in [pc : {"idle", "read", "publish"}, item : Value \cup {Uninit}, tail : Index]
    /\ got \in Value \cup {Uninit}
    /\ live \in BOOLEAN

\* The SAFETY comments of push and pop: a producer about to write "owns this slot
\* until tail is published" (it holds nothing and nobody reads it), and a consumer
\* about to read finds a slot that was written and published.
SlotOwnership ==
    /\ \A p \in Producer : push[p].pc = "write" => slots[Slot(push[p].tail)] = Uninit
    /\ pop.pc = "read" => slots[Slot(head)] # Uninit

\* Ring::drop releases every value that was pushed and not popped: none leaks.
NothingLeaks == ~live => \A i \in 0 .. Cap - 1 : slots[i] = Uninit

\* The queue the ring stands for: the published slots, in order; the first one is
\* in the consumer's hands once it has been read.
Contents ==
    [k \in 1 .. Dist(head, tail) |->
        IF k = 1 /\ pop.pc = "publish" THEN pop.item
        ELSE slots[(head + k - 1) % Cap]]

Fifo == INSTANCE BoundedFifo WITH q <- IF live THEN Contents ELSE <<>>

\* The ring implements a bounded FIFO: nothing is lost, duplicated or reordered,
\* although either side may act on an old counter of the other.
ImplementsFifo == Fifo!Spec
=============================================================================
