------------------------------ MODULE Structures ------------------------------
(***************************************************************************)
(* The non-map structures of store/src/lib.rs (queue, list, set, multimap, *)
(* ringbuffer, PN counter, cardinality estimator, flake id generator) and  *)
(* the per-key locks, as functions from a state and a request to the new   *)
(* state, the reply and whether the operation emits a record of the new    *)
(* state to the durability sink (emit_aux).                                *)
(*                                                                         *)
(* A structure is its contents c; a name absent from its hash map reads as *)
(* the empty contents, from which it is created, and is not told apart.    *)
(***************************************************************************)
EXTENDS Integers, Sequences, SequencesExt, FiniteSets

CONSTANT RingCap  \* the capacity of a ringbuffer (10000 in the source)

ASSUME RingCapAssumption == RingCap \in Nat \ {0}

Kinds == {"queue", "list", "set", "multimap", "ring", "pn", "hll", "flake"}

Empty(kind) == CASE kind \in {"queue", "list"} -> <<>>
                 [] kind = "set" -> {}
                 [] kind = "multimap" -> [k \in {} |-> <<>>]
                 [] kind = "ring" -> [items |-> <<>>, head |-> 0, tail |-> -1]
                 [] kind = "hll" -> [b \in {0, 1} |-> 0]
                 [] kind = "flake" -> 1
                 [] OTHER -> 0

Data(x) == [data |-> x]
Bool(b) == [bool |-> b]
Num(n) == [num |-> n]
Void == [void |-> 0]
NoData == [data |-> 0]  \* no value is 0

Logged(c, reply) == [c |-> c, reply |-> reply, log |-> TRUE]
Quiet(c, reply) == [c |-> c, reply |-> reply, log |-> FALSE]

(* queue_remove and list_remove: the first occurrence; a record only when  *)
(* something was removed.                                                  *)
RemoveValue(c, x) == IF x \in ToSet(c) THEN Logged(RemoveFirst(c, x), Bool(TRUE))
                     ELSE Quiet(c, Bool(FALSE))

(* *_clear: the record is emitted even if there was nothing to clear.      *)
ClearAll(kind) == Logged(Empty(kind), Void)

QueueOp(c, q) ==
    CASE q.op = "offer" -> Logged(Append(c, q.v), Bool(TRUE))
      [] q.op = "poll" -> IF c = <<>> THEN Quiet(c, NoData) ELSE Logged(Tail(c), Data(Head(c)))
      [] q.op = "peek" -> Quiet(c, IF c = <<>> THEN NoData ELSE Data(Head(c)))
      [] q.op = "remove" -> RemoveValue(c, q.v)
      [] q.op = "contains" -> Quiet(c, Bool(q.v \in ToSet(c)))
      [] q.op = "size" -> Quiet(c, Num(Len(c)))
      [] q.op = "clear" -> ClearAll("queue")

ListOp(c, q) ==
    CASE q.op = "add" -> Logged(Append(c, q.v), Bool(TRUE))
      [] q.op = "get" -> Quiet(c, IF q.v + 1 \in DOMAIN c THEN Data(c[q.v + 1]) ELSE NoData)
      [] q.op = "remove" -> RemoveValue(c, q.v)
      [] q.op = "contains" -> Quiet(c, Bool(q.v \in ToSet(c)))
      [] q.op = "size" -> Quiet(c, Num(Len(c)))
      [] q.op = "getAll" -> Quiet(c, Data(c))
      [] q.op = "clear" -> ClearAll("list")

(* set_add emits a record even when the value was there.                   *)
SetOp(c, q) ==
    CASE q.op = "add" -> Logged(c \cup {q.v}, Bool(q.v \notin c))
      [] q.op = "remove" -> IF q.v \in c THEN Logged(c \ {q.v}, Bool(TRUE))
                            ELSE Quiet(c, Bool(FALSE))
      [] q.op = "contains" -> Quiet(c, Bool(q.v \in c))
      [] q.op = "size" -> Quiet(c, Num(Cardinality(c)))
      [] q.op = "getAll" -> Quiet(c, Data(c))
      [] q.op = "clear" -> ClearAll("set")

ValuesOf(c, k) == IF k \in DOMAIN c THEN c[k] ELSE <<>>

(* mm_put, mm_get, mm_remove, mm_value_count, mm_size: set semantics per   *)
(* key; the removal of an absent key is logged too.                        *)
MultimapOp(c, q) ==
    LET vs == ValuesOf(c, q.k)
        new == IF q.v \in ToSet(vs) THEN vs ELSE Append(vs, q.v)
        keys == DOMAIN c
    IN CASE q.op = "put" ->
               Logged([k \in keys \cup {q.k} |-> IF k = q.k THEN new ELSE c[k]],
                      Bool(q.v \notin ToSet(vs)))
         [] q.op = "get" -> Quiet(c, Data(vs))
         [] q.op = "remove" -> Logged([k \in keys \ {q.k} |-> c[k]], Data(vs))
         [] q.op = "valueCount" -> Quiet(c, Num(Len(vs)))
         [] q.op = "size" -> Quiet(c, Num(FoldSet(LAMBDA k, n : n + Len(c[k]), 0, keys)))

(* rb_add: past the capacity the head goes.                                *)
RingAdd(c, v) ==
    LET items == Append(c.items, v)
        full == Len(items) > RingCap
    IN [items |-> IF full THEN Tail(items) ELSE items,
        head |-> IF full THEN c.head + 1 ELSE c.head,
        tail |-> c.tail + 1]

RingRead(c, n) == IF n \in c.head .. c.tail THEN Data(c.items[n - c.head + 1]) ELSE NoData

(* The reply to an add is the sequence number of the item.                 *)
RingOp(c, q) ==
    CASE q.op = "add" -> Logged(RingAdd(c, q.v), Num(c.tail + 1))
      [] q.op = "readOne" -> Quiet(c, RingRead(c, q.v))
      [] q.op = "size" -> Quiet(c, Num(Len(c.items)))
      [] q.op = "capacity" -> Quiet(c, Num(RingCap))
      [] q.op = "tail" -> Quiet(c, Num(c.tail))
      [] q.op = "head" -> Quiet(c, Num(c.head))

(* pn_get, pn_add: the reply is the value before or after the addition.    *)
PnOp(c, q) ==
    CASE q.op = "get" -> Quiet(c, Num(c))
      [] q.op = "getAndAdd" -> Logged(c + q.v, Num(c))
      [] q.op = "addAndGet" -> Logged(c + q.v, Num(c + q.v))

(* Hll::add: a hash is a register and a rank; the register keeps the       *)
(* highest rank.                                                           *)
HllAdd(regs, reg, rank) == [regs EXCEPT ![reg] = IF rank > @ THEN rank ELSE @]

(* The estimate is a function of the registers: it stands for itself.      *)
HllOp(c, q) ==
    CASE q.op = "add" -> Logged(HllAdd(c, q.k, q.v), Void)
      [] q.op = "estimate" -> Quiet(c, Data(c))

(* flake_batch: at least one id, the next base is not logged.              *)
FlakeBatch(c, q) == Quiet(c + (IF q.v > 1 THEN q.v ELSE 1), Num(c))

StructureOp(c, q) == CASE q.kind = "queue" -> QueueOp(c, q)
                       [] q.kind = "list" -> ListOp(c, q)
                       [] q.kind = "set" -> SetOp(c, q)
                       [] q.kind = "multimap" -> MultimapOp(c, q)
                       [] q.kind = "ring" -> RingOp(c, q)
                       [] q.kind = "pn" -> PnOp(c, q)
                       [] q.kind = "hll" -> HllOp(c, q)
                       [] q.kind = "flake" -> FlakeBatch(c, q)

-----------------------------------------------------------------------------
(* Locks: no thread has id 0; a lock absent from the table has owner 0.    *)
FreeLock == [owner |-> 0, count |-> 0, waiters |-> <<>>]

NoWaiter == [conn |-> 0, corr |-> 0]

Take(l, tid) == IF l.owner = 0 THEN [FreeLock EXCEPT !.owner = tid, !.count = 1]
                ELSE [l EXCEPT !.count = @ + 1]

TryLock(l, tid) == IF l.owner \in {0, tid} THEN [lock |-> Take(l, tid), granted |-> TRUE]
                   ELSE [lock |-> l, granted |-> FALSE]

LockOrWait(l, tid, conn, corr) ==
    IF l.owner \in {0, tid} THEN [lock |-> Take(l, tid), granted |-> TRUE]
    ELSE [lock |-> [l EXCEPT !.waiters = Append(@, [conn |-> conn, corr |-> corr, tid |-> tid])],
          granted |-> FALSE]

(* The first waiter becomes the owner, or the lock leaves the table.       *)
PassOn(l) ==
    IF l.waiters = <<>> THEN [lock |-> FreeLock, wake |-> NoWaiter]
    ELSE LET w == Head(l.waiters)
         IN [lock |-> [owner |-> w.tid, count |-> 1, waiters |-> Tail(l.waiters)],
             wake |-> [conn |-> w.conn, corr |-> w.corr]]


Unlock(l, tid) ==
    IF l.owner # tid THEN [lock |-> l, wake |-> NoWaiter]
    ELSE IF l.count > 1 THEN [lock |-> [l EXCEPT !.count = @ - 1], wake |-> NoWaiter]
    ELSE PassOn(l)

ForceUnlock(l) == IF l.owner = 0 THEN [lock |-> l, wake |-> NoWaiter] ELSE PassOn(l)
=============================================================================
