---------------------------- MODULE Hlc_proofs -----------------------------
(***************************************************************************)
(* The stamp clock never repeats a stamp and never falls behind what its   *)
(* store knows, for any number of stores and threads, any wall clocks and  *)
(* any delivery of records.                                                *)
(***************************************************************************)
EXTENDS Hlc, TLAPS

\* What a thread is about to publish carries the id of its own store.
OwnStamps == \A t \in Thread : th[t].pc \in {"apply", "emit"} => th[t].stamp.id = Home[t]

\* The clock of a store covers everything the store knows or is about to know and
\* is only ever raised to what a record carries, a write in progress began with no more than is known now, and every stamp issued
\* is known to its store and carries its id.
ClockCovers ==
    /\ \A m \in Member : \A s \in known[m] : s.clock <= seq[m]
    /\ \A t \in Thread : th[t].pc = "merge" => th[t].rec.stamp.clock <= seq[Home[t]]
    /\ \A t \in Thread : th[t].pc = "advance" => th[t].prev < th[t].rec.stamp.clock
    /\ \A t \in Thread : th[t].pc \in {"load", "cas"} => th[t].before \subseteq known[Home[t]]
    /\ \A i \in issued : i.stamp.id = Home[i.thread] /\ i.stamp \in known[Home[i.thread]]

-----------------------------------------------------------------------------
\* NewClock gives a clock later than the last one (the max in next_stamp_at).
LEMMA NewClockLater ==
    ASSUME NEW prev \in Nat, NEW now \in Nat
    PROVE  NewClock(prev, now) \in Nat /\ NewClock(prev, now) > prev
BY DEF NewClock

\* The wall clock in counter steps is a number (phys_ms << STAMP_COUNTER_BITS).
LEMMA WallClock ==
    ASSUME NEW ms \in Nat, NEW n \in Nat
    PROVE  ms * n \in Nat
OBVIOUS

\* What the state of a thread holds at each program point of next_stamp_at, put,
\* remove and apply_wan.
LEMMA ThreadFields ==
    ASSUME NEW x \in ThreadState
    PROVE  /\ x.pc = "load" => x = [pc |-> "load", op |-> x.op, now |-> x.now, before |-> x.before]
           /\ x.pc \in {"load", "cas"} =>
                  x.op \in {"put", "remove"} /\ x.now \in Nat /\ x.before \in SUBSET Stamp
           /\ x.pc = "cas" => x.prev \in Nat
           /\ x.pc \in {"apply", "emit"} => x.op \in {"put", "remove"} /\ x.stamp \in Stamp
           /\ x.pc \in {"observe", "merge", "advance"} => x.rec \in Record
           /\ x.pc = "advance" => x.prev \in Nat
BY DEF ThreadState

\* The thread states the actions build are thread states.
LEMMA ThreadStates ==
    /\ Idle \in ThreadState
    /\ \A op \in {"put", "remove"}, now \in Nat, before \in SUBSET Stamp :
          [pc |-> "load", op |-> op, now |-> now, before |-> before] \in ThreadState
    /\ \A op \in {"put", "remove"}, now \in Nat, before \in SUBSET Stamp, prev \in Nat :
          [pc |-> "cas", op |-> op, now |-> now, before |-> before, prev |-> prev] \in ThreadState
    /\ \A pc \in {"apply", "emit"}, op \in {"put", "remove"}, s \in Stamp :
          [pc |-> pc, op |-> op, stamp |-> s] \in ThreadState
    /\ \A pc \in {"observe", "merge"}, r \in Record :
          [pc |-> pc, rec |-> r] \in ThreadState
    /\ \A r \in Record, prev \in Nat :
          [pc |-> "advance", rec |-> r, prev |-> prev] \in ThreadState
BY DEF ThreadState, Idle

-----------------------------------------------------------------------------
\* A step of any thread keeps the types, and the ids of what it will publish.
LEMMA TypeStep ==
    ASSUME TypeOK, OwnStamps, NEW t \in Thread, Write(t) \/ Inbound(t)
    PROVE  TypeOK' /\ OwnStamps'
<1> USE HlcAssumption
<1>0. Home[t] \in Member /\ th[t] \in ThreadState
  BY DEF TypeOK
<1>1. CASE PutBegin(t) \/ RemoveBegin(t)
  <2>1. PICK op \in {"put", "remove"}, ms \in 0 .. MaxMs :
            th' = [th EXCEPT ![t] = [pc |-> "load", op |-> op, now |-> ms * Ticks,
                                     before |-> known[Home[t]]]]
    BY <1>1 DEF PutBegin, RemoveBegin, Begin
  <2>2. ms * Ticks \in Nat /\ known[Home[t]] \in SUBSET Stamp
    <3>1. ms \in Nat /\ Ticks \in Nat
      OBVIOUS
    <3>2. ms * Ticks \in Nat
      BY <3>1, WallClock
    <3>3. QED
      BY <1>0, <3>2 DEF TypeOK
  <2>3. th' \in [Thread -> ThreadState]
    BY <2>1, <2>2, ThreadStates DEF TypeOK
  <2>4. OwnStamps'
    BY <2>1 DEF OwnStamps, TypeOK
  <2>5. entry' \in [Member -> Stamp \cup {None}] /\ writes' \in Nat
    BY <1>0, <1>1 DEF PutBegin, RemoveBegin, Begin, TypeOK
  <2>6. QED
    BY <1>1, <2>3, <2>4, <2>5 DEF PutBegin, RemoveBegin, TypeOK
<1>2. CASE StampLoad(t)
  <2>1. th' \in [Thread -> ThreadState]
    BY <1>0, <1>2, ThreadFields, ThreadStates DEF StampLoad, TypeOK
  <2>2. QED
    BY <1>2, <2>1 DEF StampLoad, TypeOK, OwnStamps
<1>3. CASE StampCas(t)
  <2> DEFINE s == [clock |-> NewClock(th[t].prev, th[t].now), id |-> Home[t]]
  <2>1. s \in Stamp
    BY <1>0, <1>3, ThreadFields, NewClockLater DEF StampCas, Stamp
  <2>2. th' = [th EXCEPT ![t] = [pc |-> IF th[t].op = "put" THEN "apply" ELSE "emit",
                                 op |-> th[t].op, stamp |-> s]]
    BY <1>3 DEF StampCas
  <2>3. th' \in [Thread -> ThreadState]
    BY <1>0, <1>3, <2>1, <2>2, ThreadFields, ThreadStates DEF StampCas, TypeOK
  <2>4. s.id = Home[t] /\ s.clock \in Nat
    BY <2>1 DEF Stamp
  <2>5. /\ seq' = [seq EXCEPT ![Home[t]] = s.clock]
        /\ issued' = issued \cup {[stamp |-> s, thread |-> t, before |-> th[t].before]}
        /\ known' = [known EXCEPT ![Home[t]] = @ \cup {s}]
        /\ th[t].before \in SUBSET Stamp
    BY <1>0, <1>3, ThreadFields DEF StampCas
  <2> HIDE DEF s
  <2>6. OwnStamps'
    BY <2>2, <2>4 DEF OwnStamps, TypeOK
  <2>7. seq' \in [Member -> Nat] /\ known' \in [Member -> SUBSET Stamp]
    BY <1>0, <2>1, <2>4, <2>5 DEF TypeOK
  <2>8. issued' \subseteq [stamp : Stamp, thread : Thread, before : SUBSET Stamp]
    BY <2>1, <2>5 DEF TypeOK
  <2>9. QED
    BY <1>3, <2>3, <2>6, <2>7, <2>8 DEF StampCas, TypeOK
<1>4. CASE StampRetry(t)
  <2>1. th' \in [Thread -> ThreadState]
    BY <1>0, <1>4, ThreadFields, ThreadStates DEF StampRetry, TypeOK
  <2>2. QED
    BY <1>4, <2>1 DEF StampRetry, TypeOK, OwnStamps
<1>5. CASE PutApply(t)
  <2>1. th' \in [Thread -> ThreadState] /\ entry' \in [Member -> Stamp \cup {None}]
    BY <1>0, <1>5, ThreadFields, ThreadStates DEF PutApply, TypeOK
  <2>2. OwnStamps'
    BY <1>5 DEF PutApply, TypeOK, OwnStamps
  <2>3. overtaken' \in BOOLEAN
    BY <1>5, Zenon DEF PutApply, TypeOK, Later
  <2>4. QED
    BY <1>5, <2>1, <2>2, <2>3 DEF PutApply, TypeOK
<1>6. CASE Emit(t)
  <2>1. th' \in [Thread -> ThreadState]
    BY <1>6, ThreadStates DEF Emit, TypeOK
  <2>2. th[t].stamp \in Stamp /\ th[t].op \in {"put", "remove"} /\ th[t].stamp.id = Home[t]
    BY <1>0, <1>6, ThreadFields DEF Emit, OwnStamps
  <2>3. wire' \subseteq Record
    BY <1>6, <2>2 DEF Emit, TypeOK, Record
  <2>4. \A r \in wire' : r.to # r.stamp.id
    BY <1>6, <2>2 DEF Emit, TypeOK
  <2>5. OwnStamps'
    BY <1>6 DEF Emit, TypeOK, OwnStamps, Idle
  <2>6. QED
    BY <1>6, <2>1, <2>3, <2>4, <2>5 DEF Emit, TypeOK
<1>7. CASE \E r \in wire, again \in BOOLEAN : ApplyBegin(t, r, again)
  <2>1. PICK r \in wire, again \in BOOLEAN : ApplyBegin(t, r, again)
    BY <1>7
  <2>2. th' \in [Thread -> ThreadState]
    BY <2>1, ThreadStates DEF ApplyBegin, TypeOK
  <2>3. wire' \subseteq wire
    BY <2>1 DEF ApplyBegin
  <2>4. QED
    BY <2>1, <2>2, <2>3 DEF ApplyBegin, TypeOK, OwnStamps
<1>8. CASE ObserveLoad(t)
  <2>1. th' \in [Thread -> ThreadState]
    BY <1>0, <1>8, ThreadFields, ThreadStates DEF ObserveLoad, TypeOK
  <2>2. QED
    BY <1>8, <2>1 DEF ObserveLoad, TypeOK, OwnStamps
<1>9. CASE ObserveCas(t)
  <2>1. th' \in [Thread -> ThreadState]
    BY <1>0, <1>9, ThreadFields, ThreadStates DEF ObserveCas, TypeOK
  <2>2. seq' \in [Member -> Nat]
    BY <1>0, <1>9, ThreadFields DEF ObserveCas, TypeOK, Record, Stamp
  <2>3. QED
    BY <1>9, <2>1, <2>2 DEF ObserveCas, TypeOK, OwnStamps
<1>10. CASE ObserveRetry(t)
  <2>1. th' \in [Thread -> ThreadState]
    BY <1>0, <1>10, ThreadFields, ThreadStates DEF ObserveRetry, TypeOK
  <2>2. QED
    BY <1>10, <2>1 DEF ObserveRetry, TypeOK, OwnStamps
<1>11. CASE ApplyMerge(t)
  <2>1. th' \in [Thread -> ThreadState] /\ th[t].rec \in Record
    BY <1>0, <1>11, ThreadFields, ThreadStates DEF ApplyMerge, TypeOK
  <2>2. entry' \in [Member -> Stamp \cup {None}] /\ known' \in [Member -> SUBSET Stamp]
    BY <1>0, <1>11, <2>1 DEF ApplyMerge, TypeOK, Merged, Record
  <2>3. OwnStamps'
    BY <1>11 DEF ApplyMerge, TypeOK, OwnStamps, Idle
  <2>4. QED
    BY <1>11, <2>1, <2>2, <2>3 DEF ApplyMerge, TypeOK
<1>12. QED
  BY <1>1, <1>2, <1>3, <1>4, <1>5, <1>6, <1>7, <1>8, <1>9, <1>10, <1>11 DEF Write, Inbound

\* The initial state is well typed.
LEMMA TypeInit ==
    Init => TypeOK /\ OwnStamps
<1> SUFFICES ASSUME Init PROVE TypeOK /\ OwnStamps
  OBVIOUS
<1>1. th \in [Thread -> ThreadState]
  BY ThreadStates DEF Init
<1>2. OwnStamps
  BY DEF Init, OwnStamps, Idle
<1>3. removed \in BOOLEAN /\ overtaken \in BOOLEAN
  BY DEF Init
<1>4. QED
  BY <1>1, <1>2, <1>3, HlcAssumption DEF Init, TypeOK

\* Every reachable state is well typed, and no record is addressed to the store
\* that stamped it (put, remove, apply_wan, next_stamp_at, observe_stamp).
THEOREM HlcTypes == Spec => []TypeOK
<1>1. TypeOK /\ OwnStamps /\ [Next]_vars => (TypeOK /\ OwnStamps)'
  <2> SUFFICES ASSUME TypeOK, OwnStamps, [Next]_vars
               PROVE  (TypeOK /\ OwnStamps)'
    OBVIOUS
  <2>1. CASE Next
    BY <2>1, TypeStep DEF Next
  <2>2. CASE UNCHANGED vars
    BY <2>2 DEF vars, TypeOK, OwnStamps
  <2>3. QED
    BY <2>1, <2>2
<1>2. QED
  BY <1>1, TypeInit, PTL DEF Spec

-----------------------------------------------------------------------------
\* The inductive invariant of the stamp clock.
HlcInv ==
    TypeOK /\ OwnStamps /\ ClockCovers /\ StampsUnique /\ StampsFollowKnowledge

\* Issuing a stamp: the new clock exceeds everything the store knows.
LEMMA CasStep ==
    ASSUME HlcInv, NEW t \in Thread, StampCas(t)
    PROVE  ClockCovers' /\ StampsUnique' /\ StampsFollowKnowledge'
<1> USE HlcAssumption
<1> DEFINE m == Home[t]
           s == [clock |-> NewClock(th[t].prev, th[t].now), id |-> m]
           i0 == [stamp |-> s, thread |-> t, before |-> th[t].before]
<1>0. m \in Member /\ th[t] \in ThreadState /\ th[t].pc = "cas"
  BY DEF HlcInv, TypeOK, StampCas
<1>1. th[t].prev \in Nat /\ th[t].now \in Nat /\ th[t].prev = seq[m]
  BY <1>0, ThreadFields DEF StampCas
<1>2. s.clock \in Nat /\ s.clock > seq[m] /\ s.id = m
  BY <1>1, NewClockLater
<1>3. /\ seq' = [seq EXCEPT ![m] = s.clock]
      /\ th' = [th EXCEPT ![t] = [pc |-> IF th[t].op = "put" THEN "apply" ELSE "emit",
                                  op |-> th[t].op, stamp |-> s]]
      /\ issued' = issued \cup {i0}
      /\ known' = [known EXCEPT ![m] = @ \cup {s}]
  BY DEF StampCas
<1>4. i0.stamp = s /\ i0.thread = t /\ i0.before = th[t].before
  OBVIOUS
<1>5. th[t].before \subseteq known[m]
  BY <1>0 DEF HlcInv, ClockCovers
<1>6. seq \in [Member -> Nat] /\ known \in [Member -> SUBSET Stamp] /\ th \in [Thread -> ThreadState]
  BY DEF HlcInv, TypeOK
<1> HIDE DEF m, s, i0
<1>7. \A n \in Member : known[n] \subseteq known'[n] /\ seq'[n] >= seq[n]
  BY <1>0, <1>2, <1>3, <1>6
<1>8. \A x \in known[m] : x.clock \in Nat /\ x.clock <= seq[m]
  <2>1. \A x \in known[m] : x.clock <= seq[m]
    BY <1>0 DEF HlcInv, ClockCovers
  <2>2. \A x \in known[m] : x \in Stamp
    BY <1>0, <1>6
  <2>3. QED
    BY <2>1, <2>2 DEF Stamp
<1>9. \A j \in issued : j.stamp # s
  <2> SUFFICES ASSUME NEW j \in issued, j.stamp = s PROVE FALSE
    OBVIOUS
  <2>1. j.stamp \in known[Home[j.thread]] /\ j.stamp.id = Home[j.thread]
    BY DEF HlcInv, ClockCovers
  <2>2. s \in known[m]
    BY <1>2, <2>1
  <2>3. QED
    BY <1>0, <1>2, <1>6, <1>8, <2>2
<1>10. ClockCovers'
  <2>1. \A n \in Member : \A x \in known'[n] : x.clock <= seq'[n]
    <3> SUFFICES ASSUME NEW n \in Member, NEW x \in known'[n]
                 PROVE  x.clock <= seq'[n]
      OBVIOUS
    <3>1. CASE n = m /\ x = s
      BY <1>0, <1>2, <1>3, <1>6, <3>1
    <3>2. CASE n = m /\ x # s
      <4>1. x \in known[m]
        BY <1>0, <1>3, <1>6, <3>2
      <4>2. QED
        BY <1>0, <1>2, <1>3, <1>6, <1>8, <3>2, <4>1
    <3>3. CASE n # m
      BY <1>3, <1>6, <3>3 DEF HlcInv, ClockCovers
    <3>4. QED
      BY <3>1, <3>2, <3>3
  <2>2. \A u \in Thread : th'[u].pc = "merge" => th'[u].rec.stamp.clock <= seq'[Home[u]]
    <3> SUFFICES ASSUME NEW u \in Thread, th'[u].pc = "merge"
                 PROVE  th'[u].rec.stamp.clock <= seq'[Home[u]]
      OBVIOUS
    <3>1. u # t
      BY <1>3, <1>6
    <3>2. th'[u] = th[u] /\ th[u] \in ThreadState /\ Home[u] \in Member
      BY <1>3, <1>6, <3>1
    <3>3. th[u].rec.stamp.clock \in Nat /\ th[u].rec.stamp.clock <= seq[Home[u]]
      <4>1. th[u].pc = "merge"
        BY <3>2
      <4>2. th[u].rec \in Record
        BY <3>2, <4>1, ThreadFields
      <4>3. QED
        BY <4>1, <4>2 DEF HlcInv, ClockCovers, Record, Stamp
    <3>4. seq[Home[u]] \in Nat /\ seq'[Home[u]] \in Nat
      BY <1>0, <1>2, <1>3, <1>6, <3>2
    <3>5. seq'[Home[u]] >= seq[Home[u]]
      BY <1>7, <3>2
    <3>6. th[u].rec.stamp.clock <= seq'[Home[u]]
      BY <3>3, <3>4, <3>5
    <3>7. QED
      BY <3>2, <3>6
  <2>3. \A u \in Thread : th'[u].pc \in {"load", "cas"} => th'[u].before \subseteq known'[Home[u]]
    <3> SUFFICES ASSUME NEW u \in Thread, th'[u].pc \in {"load", "cas"}
                 PROVE  th'[u].before \subseteq known'[Home[u]]
      OBVIOUS
    <3>1. u # t
      BY <1>3, <1>6
    <3>2. th'[u] = th[u] /\ Home[u] \in Member
      BY <1>3, <1>6, <3>1
    <3>3. QED
      BY <1>7, <3>2 DEF HlcInv, ClockCovers
  <2>4. \A i \in issued' : i.stamp.id = Home[i.thread] /\ i.stamp \in known'[Home[i.thread]]
    <3>1. s.id = Home[t] /\ s \in known'[Home[t]]
      BY <1>0, <1>2, <1>3, <1>6 DEF m
    <3>2. \A i \in issued : Home[i.thread] \in Member
      BY DEF HlcInv, TypeOK
    <3>3. QED
      BY <1>3, <1>4, <1>7, <3>1, <3>2 DEF HlcInv, ClockCovers
  <2>5. \A u \in Thread : th'[u].pc = "advance" => th'[u].prev < th'[u].rec.stamp.clock
    BY <1>3, <1>6 DEF HlcInv, ClockCovers
  <2>6. QED
    BY <2>1, <2>2, <2>3, <2>4, <2>5 DEF ClockCovers
<1>11. StampsUnique'
  BY <1>3, <1>4, <1>9 DEF HlcInv, StampsUnique
<1>12. StampsFollowKnowledge'
  <2>1. \A x \in th[t].before : Later(s, x)
    BY <1>0, <1>2, <1>5, <1>6, <1>8 DEF Later
  <2>2. QED
    BY <1>3, <1>4, <2>1 DEF HlcInv, StampsFollowKnowledge
<1>13. QED
  BY <1>10, <1>11, <1>12

\* A step that issues nothing keeps the invariant when clocks do not go back, the
\* store forgets nothing, and the thread's own new state agrees with its store.
LEMMA FrameStep ==
    ASSUME HlcInv, NEW t \in Thread, NEW x, th' = [th EXCEPT ![t] = x],
           issued' = issued,
           \A n \in Member : seq'[n] \in Nat /\ seq'[n] >= seq[n] /\ known[n] \subseteq known'[n],
           \A n \in Member : \A s \in known'[n] : s.clock <= seq'[n],
           x.pc = "merge" => x.rec.stamp.clock <= seq'[Home[t]],
           x.pc = "advance" => x.prev < x.rec.stamp.clock,
           x.pc \in {"load", "cas"} => x.before \subseteq known'[Home[t]]
    PROVE  ClockCovers' /\ StampsUnique' /\ StampsFollowKnowledge'
<1> USE HlcAssumption
<1>1. th \in [Thread -> ThreadState] /\ seq \in [Member -> Nat] /\ Home \in [Thread -> Member]
  BY DEF HlcInv, TypeOK
<1>2. \A u \in Thread : th'[u].pc = "merge" => th'[u].rec.stamp.clock <= seq'[Home[u]]
  <2> SUFFICES ASSUME NEW u \in Thread, th'[u].pc = "merge"
               PROVE  th'[u].rec.stamp.clock <= seq'[Home[u]]
    OBVIOUS
  <2>1. CASE u = t
    BY <1>1, <2>1
  <2>2. CASE u # t
    <3>1. th'[u] = th[u] /\ th[u] \in ThreadState /\ Home[u] \in Member
      BY <1>1, <2>2
    <3>2. th[u].pc = "merge"
      BY <3>1
    <3>3. th[u].rec \in Record
      BY <3>1, <3>2, ThreadFields
    <3>4. th[u].rec.stamp.clock \in Nat /\ th[u].rec.stamp.clock <= seq[Home[u]]
      BY <3>2, <3>3 DEF HlcInv, ClockCovers, Record, Stamp
    <3>5. seq[Home[u]] \in Nat /\ seq'[Home[u]] \in Nat /\ seq'[Home[u]] >= seq[Home[u]]
      BY <1>1, <3>1
    <3>6. th[u].rec.stamp.clock <= seq'[Home[u]]
      BY <3>4, <3>5
    <3>7. QED
      BY <3>1, <3>6
  <2>3. QED
    BY <2>1, <2>2
<1>3. \A u \in Thread : th'[u].pc \in {"load", "cas"} => th'[u].before \subseteq known'[Home[u]]
  <2> SUFFICES ASSUME NEW u \in Thread, th'[u].pc \in {"load", "cas"}
               PROVE  th'[u].before \subseteq known'[Home[u]]
    OBVIOUS
  <2>1. CASE u = t
    BY <1>1, <2>1
  <2>2. CASE u # t
    BY <1>1, <2>2 DEF HlcInv, ClockCovers
  <2>3. QED
    BY <2>1, <2>2
<1>4. \A i \in issued' : i.stamp.id = Home[i.thread] /\ i.stamp \in known'[Home[i.thread]]
  <2>1. \A i \in issued : Home[i.thread] \in Member
    BY <1>1 DEF HlcInv, TypeOK
  <2>2. QED
    BY <2>1 DEF HlcInv, ClockCovers
<1>5. \A u \in Thread : th'[u].pc = "advance" => th'[u].prev < th'[u].rec.stamp.clock
  BY <1>1 DEF HlcInv, ClockCovers
<1>6. ClockCovers'
  BY <1>2, <1>3, <1>4, <1>5 DEF ClockCovers
<1>7. QED
  BY <1>6 DEF HlcInv, StampsUnique, StampsFollowKnowledge

\* A step of any thread keeps the invariant.
LEMMA InvStep ==
    ASSUME HlcInv, NEW t \in Thread, Write(t) \/ Inbound(t)
    PROVE  ClockCovers' /\ StampsUnique' /\ StampsFollowKnowledge'
<1> USE HlcAssumption
<1>0. /\ Home[t] \in Member /\ th[t] \in ThreadState /\ th \in [Thread -> ThreadState]
      /\ seq \in [Member -> Nat] /\ known \in [Member -> SUBSET Stamp]
      /\ \A n \in Member : \A s \in known[n] : s.clock <= seq[n]
  BY DEF HlcInv, TypeOK, ClockCovers
<1>1. ASSUME seq' = seq, known' = known
      PROVE  /\ \A n \in Member : /\ seq'[n] \in Nat /\ seq'[n] >= seq[n]
                                  /\ known[n] \subseteq known'[n]
             /\ \A n \in Member : \A s \in known'[n] : s.clock <= seq'[n]
  BY <1>0, <1>1
<1>2. CASE PutBegin(t) \/ RemoveBegin(t)
  <2>1. PICK op \in {"put", "remove"}, ms \in 0 .. MaxMs :
            th' = [th EXCEPT ![t] = [pc |-> "load", op |-> op, now |-> ms * Ticks,
                                     before |-> known[Home[t]]]]
    BY <1>2 DEF PutBegin, RemoveBegin, Begin
  <2> DEFINE x == [pc |-> "load", op |-> op, now |-> ms * Ticks, before |-> known[Home[t]]]
  <2>2. seq' = seq /\ known' = known /\ issued' = issued
    BY <1>2 DEF PutBegin, RemoveBegin
  <2>3. th' = [th EXCEPT ![t] = x] /\ x.pc = "load" /\ x.before \subseteq known'[Home[t]]
    BY <2>1, <2>2
  <2> HIDE DEF x
  <2>4. QED
    BY <1>1, <2>2, <2>3, FrameStep
<1>3. CASE StampLoad(t)
  <2> DEFINE x == [pc |-> "cas", op |-> th[t].op, now |-> th[t].now,
                   before |-> th[t].before, prev |-> seq[Home[t]]]
  <2>1. seq' = seq /\ known' = known /\ issued' = issued /\ th' = [th EXCEPT ![t] = x]
    BY <1>3 DEF StampLoad
  <2>2. x.pc = "cas" /\ x.before \subseteq known'[Home[t]]
    BY <1>3, <2>1 DEF StampLoad, HlcInv, ClockCovers
  <2> HIDE DEF x
  <2>3. QED
    BY <1>1, <2>1, <2>2, FrameStep
<1>4. CASE StampCas(t)
  BY <1>4, CasStep
<1>5. CASE StampRetry(t)
  <2> DEFINE x == [pc |-> "load", op |-> th[t].op, now |-> th[t].now, before |-> th[t].before]
  <2>1. seq' = seq /\ known' = known /\ issued' = issued /\ th' = [th EXCEPT ![t] = x]
    BY <1>5 DEF StampRetry
  <2>2. x.pc = "load" /\ x.before \subseteq known'[Home[t]]
    BY <1>5, <2>1 DEF StampRetry, HlcInv, ClockCovers
  <2> HIDE DEF x
  <2>3. QED
    BY <1>1, <2>1, <2>2, FrameStep
<1>6. CASE PutApply(t)
  <2> DEFINE x == [pc |-> "emit", op |-> th[t].op, stamp |-> th[t].stamp]
  <2>1. seq' = seq /\ known' = known /\ issued' = issued /\ th' = [th EXCEPT ![t] = x]
    BY <1>6 DEF PutApply
  <2>2. x.pc = "emit"
    OBVIOUS
  <2> HIDE DEF x
  <2>3. QED
    BY <1>1, <2>1, <2>2, FrameStep
<1>7. CASE Emit(t)
  <2>1. seq' = seq /\ known' = known /\ issued' = issued /\ th' = [th EXCEPT ![t] = Idle]
    BY <1>7 DEF Emit
  <2>2. Idle.pc = "idle"
    BY DEF Idle
  <2>3. QED
    BY <1>1, <2>1, <2>2, FrameStep
<1>8. CASE \E r \in wire, again \in BOOLEAN : ApplyBegin(t, r, again)
  <2>1. PICK r \in wire, again \in BOOLEAN : ApplyBegin(t, r, again)
    BY <1>8
  <2> DEFINE x == [pc |-> "observe", rec |-> r]
  <2>2. seq' = seq /\ known' = known /\ issued' = issued /\ th' = [th EXCEPT ![t] = x]
    BY <2>1 DEF ApplyBegin
  <2>3. x.pc = "observe"
    OBVIOUS
  <2> HIDE DEF x
  <2>4. QED
    BY <1>1, <2>2, <2>3, FrameStep
<1>9. CASE ObserveLoad(t)
  <2> DEFINE r == th[t].rec
             y == [pc |-> "merge", rec |-> r]
             z == [pc |-> "advance", rec |-> r, prev |-> seq[Home[t]]]
  <2>1. /\ seq' = seq /\ known' = known /\ issued' = issued
        /\ th' = [th EXCEPT ![t] = IF seq[Home[t]] >= r.stamp.clock THEN y ELSE z]
    BY <1>9 DEF ObserveLoad
  <2>2. y.pc = "merge" /\ y.rec = r /\ z.pc = "advance" /\ z.rec = r /\ z.prev = seq[Home[t]]
    OBVIOUS
  <2>3. r.stamp.clock \in Nat
    BY <1>0, <1>9, ThreadFields DEF ObserveLoad, Record, Stamp
  <2> HIDE DEF r, y, z
  <2>4. CASE seq[Home[t]] >= r.stamp.clock
    <3>1. th' = [th EXCEPT ![t] = y]
      BY <2>1, <2>4
    <3>2. y.rec.stamp.clock <= seq'[Home[t]]
      BY <1>0, <2>1, <2>2, <2>3, <2>4
    <3>3. QED
      BY <1>1, <2>1, <2>2, <3>1, <3>2, FrameStep
  <2>5. CASE ~(seq[Home[t]] >= r.stamp.clock)
    <3>1. th' = [th EXCEPT ![t] = z]
      BY <2>1, <2>5
    <3>2. z.prev < z.rec.stamp.clock
      <4>1. seq[Home[t]] \in Nat
        BY <1>0
      <4>2. seq[Home[t]] < r.stamp.clock
        BY <2>3, <2>5, <4>1
      <4>3. QED
        BY <2>2, <4>2
    <3>3. QED
      BY <1>1, <2>1, <2>2, <3>1, <3>2, FrameStep
  <2>6. QED
    BY <2>4, <2>5
<1>10. CASE ObserveRetry(t)
  <2> DEFINE x == [pc |-> "observe", rec |-> th[t].rec]
  <2>1. seq' = seq /\ known' = known /\ issued' = issued /\ th' = [th EXCEPT ![t] = x]
    BY <1>10 DEF ObserveRetry
  <2>2. x.pc = "observe"
    OBVIOUS
  <2> HIDE DEF x
  <2>3. QED
    BY <1>1, <2>1, <2>2, FrameStep
<1>11. CASE ObserveCas(t)
  <2> DEFINE r == th[t].rec
             x == [pc |-> "merge", rec |-> r]
  <2>1. /\ seq' = [seq EXCEPT ![Home[t]] = r.stamp.clock] /\ known' = known
        /\ issued' = issued /\ th' = [th EXCEPT ![t] = x]
    BY <1>11 DEF ObserveCas
  <2>2. x.pc = "merge" /\ x.rec = r
    OBVIOUS
  <2>3. r.stamp.clock \in Nat /\ th[t].prev \in Nat
    BY <1>0, <1>11, ThreadFields DEF ObserveCas, Record, Stamp
  <2>4. th[t].prev = seq[Home[t]] /\ th[t].prev < r.stamp.clock
    BY <1>11 DEF ObserveCas, HlcInv, ClockCovers
  <2> HIDE DEF r, x
  <2>5. \A n \in Member : seq'[n] \in Nat /\ seq'[n] >= seq[n] /\ known[n] \subseteq known'[n]
    BY <1>0, <2>1, <2>3, <2>4
  <2>6. \A n \in Member : \A s \in known'[n] : s.clock <= seq'[n]
    <3> SUFFICES ASSUME NEW n \in Member, NEW s \in known[n] PROVE s.clock <= seq'[n]
      BY <2>1
    <3>1. s.clock \in Nat /\ s.clock <= seq[n] /\ seq[n] \in Nat
      <4>1. s \in Stamp
        BY <1>0
      <4>2. QED
        BY <1>0, <4>1 DEF Stamp
    <3>2. QED
      BY <2>5, <3>1
  <2>7. x.rec.stamp.clock <= seq'[Home[t]]
    BY <1>0, <2>1, <2>2, <2>3
  <2>8. QED
    BY <2>1, <2>2, <2>5, <2>6, <2>7, FrameStep
<1>12. CASE ApplyMerge(t)
  <2> DEFINE r == th[t].rec
  <2>1. /\ seq' = seq /\ known' = [known EXCEPT ![Home[t]] = @ \cup {r.stamp}]
        /\ issued' = issued /\ th' = [th EXCEPT ![t] = Idle]
    BY <1>12 DEF ApplyMerge
  <2>2. r.stamp.clock <= seq[Home[t]]
    BY <1>12 DEF ApplyMerge, HlcInv, ClockCovers
  <2>3. Idle.pc = "idle"
    BY DEF Idle
  <2> HIDE DEF r
  <2>4. \A n \in Member : seq'[n] \in Nat /\ seq'[n] >= seq[n] /\ known[n] \subseteq known'[n]
    BY <1>0, <2>1
  <2>5. \A n \in Member : \A s \in known'[n] : s.clock <= seq'[n]
    BY <1>0, <2>1, <2>2
  <2>6. QED
    BY <2>1, <2>3, <2>4, <2>5, FrameStep
<1>13. QED
  BY <1>2, <1>3, <1>4, <1>5, <1>6, <1>7, <1>8, <1>9, <1>10, <1>11, <1>12 DEF Write, Inbound

-----------------------------------------------------------------------------
\* The invariant holds of every reachable state.
LEMMA HlcInvariant == Spec => []HlcInv
<1>1. Init => HlcInv
  <2> SUFFICES ASSUME Init PROVE HlcInv
    OBVIOUS
  <2>1. ClockCovers
    BY HlcAssumption DEF Init, ClockCovers, Idle
  <2>2. StampsUnique /\ StampsFollowKnowledge
    BY DEF Init, StampsUnique, StampsFollowKnowledge
  <2>3. QED
    BY <2>1, <2>2, TypeInit DEF HlcInv
<1>2. HlcInv /\ [Next]_vars => HlcInv'
  <2> SUFFICES ASSUME HlcInv, [Next]_vars PROVE HlcInv'
    OBVIOUS
  <2>1. CASE Next
    <3>1. PICK t \in Thread : Write(t) \/ Inbound(t)
      BY <2>1 DEF Next
    <3>2. TypeOK' /\ OwnStamps'
      BY <3>1, TypeStep DEF HlcInv
    <3>3. ClockCovers' /\ StampsUnique' /\ StampsFollowKnowledge'
      BY <3>1, InvStep
    <3>4. QED
      BY <3>2, <3>3 DEF HlcInv
  <2>2. CASE UNCHANGED vars
    BY <2>2 DEF vars, HlcInv, TypeOK, OwnStamps, ClockCovers, StampsUnique,
                StampsFollowKnowledge
  <2>3. QED
    BY <2>1, <2>2
<1>3. QED
  BY <1>1, <1>2, PTL DEF Spec

\* next_stamp_at never issues a stamp twice: not to two threads of a store racing
\* on stamp_seq, not in two stores, whatever the wall clocks show.
THEOREM HlcStampsUnique == Spec => []StampsUnique
<1>1. HlcInv => StampsUnique
  BY DEF HlcInv
<1>2. QED
  BY <1>1, HlcInvariant, PTL

\* A write is stamped later than everything its store had issued or observed before
\* the write began, however far its wall clock lags (next_stamp_at, observe_stamp).
THEOREM HlcStampsFollowKnowledge == Spec => []StampsFollowKnowledge
<1>1. HlcInv => StampsFollowKnowledge
  BY DEF HlcInv
<1>2. QED
  BY <1>1, HlcInvariant, PTL
=============================================================================
