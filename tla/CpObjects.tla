----------------------------- MODULE CpObjects -----------------------------
(***************************************************************************)
(* The CP data structures behind one CP group (crates/raft/src):           *)
(* AtomicLong, AtomicReference, CountDownLatch, Semaphore, CPMap, fenced   *)
(* locks and sessions, as deterministic functions from an object's value   *)
(* and a committed command to its next value and a CpReply.  A command     *)
(* names an object type, an object and an operation with its arguments;    *)
(* the byte encodings (encode/decode of each file) are the records of the  *)
(* Command sets.                                                           *)
(***************************************************************************)
EXTENDS Integers, FiniteSets

CONSTANTS
    Name,         \* object names
    Key, Value,   \* CPMap keys; the opaque Data of CPMap and AtomicReference
    Arg,          \* integer arguments a client may send
    Session, Thread,   \* ids a client may name
    Width,        \* bits of the counters (i64 and i32 in the code)
    Null          \* None: the null reference, a vacant semaphore, no argument

ASSUME ObjectsAssumption == Width \in Nat \ {0}

\* Two's complement: what += does on overflow in a release build.
Wrap(x) == ((x + 2 ^ (Width - 1)) % 2 ^ Width) - 2 ^ (Width - 1)

AtLeast0(n) == IF n < 0 THEN 0 ELSE n

Long(v) == [shape |-> "Long", val |-> v]
Bool(b) == [shape |-> "Bool", val |-> b]
Data(d) == [shape |-> "Data", val |-> d]
NilReply == [shape |-> "Nil", val |-> Null]

Result(v, r) == [value |-> v, reply |-> r]

Command(obj, ops, A, B) == [obj : {obj}, name : Name, op : ops, a : A, b : B]

AlCommand ==
    Command("AtomicLong", {"Get"}, {Null}, {Null})
        \cup Command("AtomicLong", {"Set", "GetAndSet", "AddAndGet", "GetAndAdd"}, Arg, {Null})
        \cup Command("AtomicLong", {"CompareAndSet"}, Arg, Arg)

AlApply(v, c) ==
    CASE c.op = "Get" -> Result(v, Long(v))
      [] c.op = "Set" -> Result(c.a, NilReply)
      [] c.op = "GetAndSet" -> Result(c.a, Long(v))
      [] c.op = "AddAndGet" -> Result(Wrap(v + c.a), Long(Wrap(v + c.a)))
      [] c.op = "GetAndAdd" -> Result(Wrap(v + c.a), Long(v))
      [] c.op = "CompareAndSet" -> Result(IF v = c.a THEN c.b ELSE v, Bool(v = c.a))

MaybeNull == Value \cup {Null}

ArCommand ==
    Command("AtomicReference", {"Get", "IsNull", "Clear"}, {Null}, {Null})
        \cup Command("AtomicReference", {"Set", "GetAndSet", "Contains"}, MaybeNull, {Null})
        \cup Command("AtomicReference", {"CompareAndSet"}, MaybeNull, MaybeNull)

ArApply(v, c) ==
    CASE c.op = "Get" -> Result(v, Data(v))
      [] c.op = "Set" -> Result(c.a, NilReply)
      [] c.op = "GetAndSet" -> Result(c.a, Data(v))
      [] c.op = "CompareAndSet" -> Result(IF v = c.a THEN c.b ELSE v, Bool(v = c.a))
      [] c.op = "Contains" -> Result(v, Bool(v = c.a))
      [] c.op = "IsNull" -> Result(v, Bool(v = Null))
      [] c.op = "Clear" -> Result(Null, NilReply)

CdlCommand ==
    Command("CountDownLatch", {"GetCount", "CountDown"}, {Null}, {Null})
        \cup Command("CountDownLatch", {"TrySetCount"}, Arg, {Null})

CdlApply(v, c) ==
    CASE c.op = "GetCount" -> Result(v, Long(v))
      [] c.op = "CountDown" -> Result(AtLeast0(v - 1), NilReply)
      [] c.op = "TrySetCount" -> Result(IF v = 0 THEN AtLeast0(c.a) ELSE v, Bool(v = 0))

SemCommand ==
    Command("Semaphore", {"Init", "Acquire", "Release"}, Arg, {Null})
        \cup Command("Semaphore", {"Drain", "AvailablePermits"}, {Null}, {Null})

Permits(v) == IF v = Null THEN 0 ELSE v


\* acquire, release and drain create the entry (or_insert(0)), which a later Init
\* finds occupied.
SemApply(v, c) ==
    LET p == Permits(v) IN
    CASE c.op = "Init" -> Result(IF v = Null THEN AtLeast0(c.a) ELSE v, Bool(v = Null))
      [] c.op = "Acquire" ->
            IF c.a >= 0 /\ p >= c.a THEN Result(p - c.a, Bool(TRUE)) ELSE Result(p, Bool(FALSE))
      [] c.op = "Release" -> Result(Wrap(p + AtLeast0(c.a)), Bool(TRUE))
      [] c.op = "Drain" -> Result(0, Long(p))
      [] c.op = "AvailablePermits" -> Result(v, Long(p))

CmCommand ==
    LET C(ops, K, A, B) == [obj : {"CPMap"}, name : Name, op : ops, key : K, a : A, b : B]
    IN  C({"Get", "Remove", "ContainsKey"}, Key, {Null}, {Null})
            \cup C({"Put", "Set", "PutIfAbsent", "RemoveIfEquals", "Replace"}, Key, Value, {Null})
            \cup C({"CompareAndSet"}, Key, Value, Value)
            \cup C({"Size", "Clear"}, {Null}, {Null}, {Null})

\* m: Key -> Value or Null (absent).
CmApply(m, c) ==
    LET old == m[c.key]
        To(v) == [m EXCEPT ![c.key] = v]
    IN  CASE c.op = "Get" -> Result(m, Data(old))
          [] c.op = "Put" -> Result(To(c.a), Data(old))
          [] c.op = "Set" -> Result(To(c.a), NilReply)
          [] c.op = "PutIfAbsent" -> Result(IF old = Null THEN To(c.a) ELSE m, Data(old))
          [] c.op = "Remove" -> Result(To(Null), Data(old))
          [] c.op = "RemoveIfEquals" -> Result(IF old = c.a THEN To(Null) ELSE m, Bool(old = c.a))
          [] c.op = "Replace" -> Result(IF old = Null THEN m ELSE To(c.a), Data(old))
          [] c.op = "CompareAndSet" -> Result(IF old = c.a THEN To(c.b) ELSE m, Bool(old = c.a))
          [] c.op = "ContainsKey" -> Result(m, Bool(old # Null))
          [] c.op = "Size" -> Result(m, Long(Cardinality({k \in Key : m[k] # Null})))
          [] c.op = "Clear" -> Result([k \in Key |-> Null], NilReply)

FlCommand == Command("FencedLock", {"Lock", "TryLock", "Unlock"}, Session, Thread)

\* fl: the group-wide fence source and, per lock, its hold or Null.
FlApply(fl, c) ==
    LET hold == fl.locks[c.name]
        To(h) == [fl.locks EXCEPT ![c.name] = h]
        mine == hold # Null /\ hold.session = c.a /\ hold.thread = c.b
    IN  CASE c.op = "Unlock" ->
               Result([fl EXCEPT !.locks = IF ~mine THEN @
                                           ELSE IF hold.count = 1 THEN To(Null)
                                           ELSE To([hold EXCEPT !.count = @ - 1])], Bool(mine))
          [] c.op # "Unlock" /\ mine ->
               Result([fl EXCEPT !.locks = To([hold EXCEPT !.count = @ + 1])], Long(hold.fence))
          [] c.op # "Unlock" /\ hold = Null ->
               Result([next |-> fl.next + 1,
                       locks |-> To([fence |-> fl.next + 1, session |-> c.a, thread |-> c.b,
                                     count |-> 1])], Long(fl.next + 1))
          [] OTHER -> Result(fl, Long(0))

SessCommand ==
    Command("Session", {"Create", "GenerateThreadId"}, {Null}, {Null})
        \cup Command("Session", {"Heartbeat", "Close"}, Session, {Null})

\* ss: the id sources and the active sessions (leases and their expiry: module CpSm).
SessApply(ss, c) ==
    CASE c.op = "Create" -> Result([ss EXCEPT !.next = @ + 1, !.active = @ \cup {ss.next + 1}],
                                   Long(ss.next + 1))
      [] c.op = "GenerateThreadId" -> Result([ss EXCEPT !.threads = @ + 1], Long(ss.threads + 1))
      [] c.op = "Heartbeat" -> Result(ss, NilReply)
      [] c.op = "Close" -> Result([ss EXCEPT !.active = @ \ {c.a}], Bool(c.a \in ss.active))

EmptySm ==
    [AtomicLong |-> [n \in Name |-> 0], AtomicReference |-> [n \in Name |-> Null],
     CountDownLatch |-> [n \in Name |-> 0], Semaphore |-> [n \in Name |-> Null],
     CPMap |-> [n \in Name |-> [k \in Key |-> Null]],
     FencedLock |-> [next |-> 0, locks |-> [n \in Name |-> Null]],
     Session |-> [next |-> 0, threads |-> 0, active |-> {}]]

ApplyTo(v, c) ==
    CASE c.obj = "AtomicLong" -> AlApply(v, c)
      [] c.obj = "AtomicReference" -> ArApply(v, c)
      [] c.obj = "CountDownLatch" -> CdlApply(v, c)
      [] c.obj = "Semaphore" -> SemApply(v, c)
      [] c.obj = "CPMap" -> CmApply(v, c)

\* CpSm::apply_session: a closed session gives up its locks.
ApplySession(sm, c) ==
    LET r == SessApply(sm.Session, c)
        ended == IF c.op = "Close" THEN {c.a} ELSE {}
    IN  [sm |-> [sm EXCEPT !.Session = r.value,
                           !.FencedLock.locks =
                              [n \in Name |-> IF @[n] # Null /\ @[n].session \in ended
                                              THEN Null ELSE @[n]]],
         reply |-> r.reply]

\* CpSm::apply: the object's tag selects the machine, its name the object.
Apply(sm, c) ==
    CASE c.obj = "Session" -> ApplySession(sm, c)
      [] c.obj = "FencedLock" ->
            LET r == FlApply(sm.FencedLock, c)
            IN  [sm |-> [sm EXCEPT !.FencedLock = r.value], reply |-> r.reply]
      [] OTHER ->
            LET r == ApplyTo(sm[c.obj][c.name], c)
            IN  [sm |-> [sm EXCEPT ![c.obj][c.name] = r.value], reply |-> r.reply]
=============================================================================
