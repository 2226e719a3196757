-------------------------------- MODULE Hlc --------------------------------
(***************************************************************************)
(* Update stamps and the merge they decide (Store in crates/store): the    *)
(* lock-free hybrid clock next_stamp_at / observe_stamp, local put and     *)
(* remove of one key, and apply_wan for what other stores publish.  Every  *)
(* load, compare-exchange and shard-lock section is a step of its own, and *)
(* several threads share a store.                                          *)
(*                                                                         *)
(* A stamp packs clock and member id, clock high: [clock, id] here, in     *)
(* lexicographic order.  The clock packs milliseconds and a counter of     *)
(* Ticks values, as numbers.  The 41 bits of milliseconds never run out.   *)
(***************************************************************************)
EXTENDS Integers, FiniteSets

CONSTANTS
    Member,      \* stores: member ids, numbers below 128
    Thread,
    Home,        \* Home[t]: the store thread t works on
    None,        \* no entry
    Ticks,       \* counter values in a millisecond, 2^STAMP_COUNTER_BITS
    MaxMs,       \* bound: wall clocks show 0 .. MaxMs, in no order
    MaxWrites    \* bound: local writes

ASSUME HlcAssumption ==
    /\ Member \subseteq Nat
    /\ Home \in [Thread -> Member]
    /\ Ticks \in Nat \ {0} /\ MaxMs \in Nat /\ MaxWrites \in Nat

Stamp == [clock : Nat, id : Member]

ASSUME NoneAssumption == None \notin Stamp

VARIABLES
    seq,       \* the clock part of stamp_seq of each store
    th,        \* what each thread is doing
    entry,     \* the stamp of the key's entry in each store, or None
    wire,      \* records published and not yet applied by their destination
    known,     \* history: stamps each store has issued or finished observing
    issued,    \* history: every stamp issued, and what its store knew when the
               \* write began
    removed,   \* history: some key was removed
    overtaken, \* history: a put was applied over a later stamp of its own store
    writes     \* number of local writes begun

vars == <<seq, th, entry, wire, known, issued, removed, overtaken, writes>>

Later(a, b) == a.clock > b.clock \/ (a.clock = b.clock /\ a.id > b.id)

Idle == [pc |-> "idle"]

Init ==
    /\ seq = [m \in Member |-> 0]
    /\ th = [t \in Thread |-> Idle]
    /\ entry = [m \in Member |-> None]
    /\ wire = {}
    /\ known = [m \in Member |-> {}]
    /\ issued = {}
    /\ removed = FALSE /\ overtaken = FALSE
    /\ writes = 0

\* A local write begins; the wall clock is read before the loop of next_stamp_at.
Begin(t, op) ==
    /\ th[t].pc = "idle"
    /\ writes < MaxWrites
    /\ writes' = writes + 1
    /\ \E ms \in 0 .. MaxMs :
          th' = [th EXCEPT ![t] = [pc |-> "load", op |-> op, now |-> ms * Ticks,
                                   before |-> known[Home[t]]]]

\* Store::put: the stamp comes first, the entry after.
PutBegin(t) ==
    /\ Begin(t, "put")
    /\ UNCHANGED <<seq, entry, wire, known, issued, removed, overtaken>>

\* Store::remove: the entry goes first, the stamp after.
RemoveBegin(t) ==
    /\ Begin(t, "remove")
    /\ entry' = [entry EXCEPT ![Home[t]] = None]
    /\ removed' = TRUE
    /\ UNCHANGED <<seq, wire, known, issued, overtaken>>

StampLoad(t) ==
    /\ th[t].pc = "load"
    /\ th' = [th EXCEPT ![t] = [pc |-> "cas", op |-> @.op, now |-> @.now,
                                before |-> @.before, prev |-> seq[Home[t]]]]
    /\ UNCHANGED <<seq, entry, wire, known, issued, removed, overtaken, writes>>

NewClock(prev, now) == IF prev + 1 >= now THEN prev + 1 ELSE now

\* Mutant of StampCas: the clock is stored without comparing.
StampStore(t) ==
    LET m == Home[t]
        s == [clock |-> NewClock(th[t].prev, th[t].now), id |-> m]
    IN  /\ th[t].pc = "cas"
        /\ seq' = [seq EXCEPT ![m] = s.clock]
        /\ th' = [th EXCEPT ![t] = [pc |-> IF @.op = "put" THEN "apply" ELSE "emit",
                                    op |-> @.op, stamp |-> s]]
        /\ issued' = issued \cup {[stamp |-> s, thread |-> t, before |-> th[t].before]}
        /\ known' = [known EXCEPT ![m] = @ \cup {s}]
        /\ UNCHANGED <<entry, wire, removed, overtaken, writes>>

\* The compare-exchange succeeds: the stamp is issued.
StampCas(t) ==
    LET m == Home[t]
        s == [clock |-> NewClock(th[t].prev, th[t].now), id |-> m]
    IN  /\ th[t].pc = "cas" /\ seq[m] = th[t].prev
        /\ seq' = [seq EXCEPT ![m] = s.clock]
        /\ th' = [th EXCEPT ![t] = [pc |-> IF @.op = "put" THEN "apply" ELSE "emit",
                                    op |-> @.op, stamp |-> s]]
        /\ issued' = issued \cup {[stamp |-> s, thread |-> t, before |-> th[t].before]}
        /\ known' = [known EXCEPT ![m] = @ \cup {s}]
        /\ UNCHANGED <<entry, wire, removed, overtaken, writes>>

\* ... or fails (a weak exchange may also fail for no reason) and the loop repeats.
StampRetry(t) ==
    /\ th[t].pc = "cas"
    /\ th' = [th EXCEPT ![t] = [pc |-> "load", op |-> @.op, now |-> @.now,
                                before |-> @.before]]
    /\ UNCHANGED <<seq, entry, wire, known, issued, removed, overtaken, writes>>

\* Inner::put under the shard lock: whatever entry is there is replaced.
PutApply(t) ==
    LET m == Home[t]
    IN  /\ th[t].pc = "apply"
        /\ entry' = [entry EXCEPT ![m] = th[t].stamp]
        /\ overtaken' = (overtaken \/ (entry[m] # None /\ Later(entry[m], th[t].stamp)))
        /\ th' = [th EXCEPT ![t] = [pc |-> "emit", op |-> @.op, stamp |-> @.stamp]]
        /\ UNCHANGED <<seq, wire, known, issued, removed, writes>>

\* Mutant of Emit: the store publishes to itself as well.
EmitToAll(t) ==
    /\ th[t].pc = "emit"
    /\ wire' = wire \cup {[to |-> m, op |-> th[t].op, stamp |-> th[t].stamp] : m \in Member}
    /\ th' = [th EXCEPT ![t] = Idle]
    /\ UNCHANGED <<seq, entry, known, issued, removed, overtaken, writes>>

\* The WAN sink gets the record after the entry is in place.
Emit(t) ==
    /\ th[t].pc = "emit"
    /\ wire' = wire \cup {[to |-> m, op |-> th[t].op, stamp |-> th[t].stamp] :
                             m \in Member \ {Home[t]}}
    /\ th' = [th EXCEPT ![t] = Idle]
    /\ UNCHANGED <<seq, entry, known, issued, removed, overtaken, writes>>

\* apply_wan begins with observe_stamp; a record may be delivered more than once.
ApplyBegin(t, r, again) ==
    /\ th[t].pc = "idle" /\ r.to = Home[t]
    /\ th' = [th EXCEPT ![t] = [pc |-> "observe", rec |-> r]]
    /\ wire' = IF again THEN wire ELSE wire \ {r}
    /\ UNCHANGED <<seq, entry, known, issued, removed, overtaken, writes>>

ObserveLoad(t) ==
    /\ th[t].pc = "observe"
    /\ th' = [th EXCEPT ![t] =
                IF seq[Home[t]] >= @.rec.stamp.clock THEN [pc |-> "merge", rec |-> @.rec]
                ELSE [pc |-> "advance", rec |-> @.rec, prev |-> seq[Home[t]]]]
    /\ UNCHANGED <<seq, entry, wire, known, issued, removed, overtaken, writes>>

\* Mutant of ObserveCas: the observed clock is not absorbed.
ObserveIgnored(t) ==
    /\ th[t].pc = "advance" /\ seq[Home[t]] = th[t].prev
    /\ th' = [th EXCEPT ![t] = [pc |-> "merge", rec |-> @.rec]]
    /\ UNCHANGED <<seq, entry, wire, known, issued, removed, overtaken, writes>>

ObserveCas(t) ==
    /\ th[t].pc = "advance" /\ seq[Home[t]] = th[t].prev
    /\ seq' = [seq EXCEPT ![Home[t]] = th[t].rec.stamp.clock]
    /\ th' = [th EXCEPT ![t] = [pc |-> "merge", rec |-> @.rec]]
    /\ UNCHANGED <<entry, wire, known, issued, removed, overtaken, writes>>

ObserveRetry(t) ==
    /\ th[t].pc = "advance"
    /\ th' = [th EXCEPT ![t] = [pc |-> "observe", rec |-> @.rec]]
    /\ UNCHANGED <<seq, entry, wire, known, issued, removed, overtaken, writes>>


\* Inner::put_merge with LatestUpdate, or Inner::remove.
Merged(old, r) ==
    IF r.op = "remove" THEN None
    ELSE IF old = None THEN r.stamp
    ELSE IF Later(r.stamp, old) THEN r.stamp ELSE old

ApplyMerge(t) ==
    LET m == Home[t]
    IN  /\ th[t].pc = "merge"
        /\ entry' = [entry EXCEPT ![m] = Merged(@, th[t].rec)]
        /\ known' = [known EXCEPT ![m] = @ \cup {th[t].rec.stamp}]
        /\ th' = [th EXCEPT ![t] = Idle]
        /\ UNCHANGED <<seq, wire, issued, removed, overtaken, writes>>

Write(t) ==
    \/ PutBegin(t) \/ RemoveBegin(t)
    \/ StampLoad(t) \/ StampCas(t) \/ StampRetry(t)
    \/ PutApply(t) \/ Emit(t)

Inbound(t) ==
    \/ \E r \in wire, again \in BOOLEAN : ApplyBegin(t, r, again)
    \/ ObserveLoad(t) \/ ObserveCas(t) \/ ObserveRetry(t)
    \/ ApplyMerge(t)

Next == \E t \in Thread : Write(t) \/ Inbound(t)

Spec == Init /\ [][Next]_vars

-----------------------------------------------------------------------------
Record == [to : Member, op : {"put", "remove"}, stamp : Stamp]

ThreadState ==
    [pc : {"idle"}]
      \cup [pc : {"load"}, op : {"put", "remove"}, now : Nat, before : SUBSET Stamp]
      \cup [pc : {"cas"}, op : {"put", "remove"}, now : Nat, before : SUBSET Stamp, prev : Nat]
      \cup [pc : {"apply", "emit"}, op : {"put", "remove"}, stamp : Stamp]
      \cup [pc : {"observe", "merge"}, rec : Record]
      \cup [pc : {"advance"}, rec : Record, prev : Nat]

\* Clocks, threads, entries and records are well formed, and no record is addressed
\* to the store that stamped it.
TypeOK ==
    /\ seq \in [Member -> Nat]
    /\ th \in [Thread -> ThreadState]
    /\ entry \in [Member -> Stamp \cup {None}]
    /\ wire \subseteq Record /\ \A r \in wire : r.to # r.stamp.id
    /\ known \in [Member -> SUBSET Stamp]
    /\ issued \subseteq [stamp : Stamp, thread : Thread, before : SUBSET Stamp]
    /\ removed \in BOOLEAN /\ overtaken \in BOOLEAN /\ writes \in Nat

\* No stamp is issued twice, by any thread of any store, whatever the wall clocks
\* show: the retry loop of next_stamp_at loses no update and the member bits
\* separate the stores.
StampsUnique == \A i, j \in issued : i.stamp = j.stamp => i = j

\* A write is stamped later than everything its store had issued or observed when
\* the write began ("strictly greater than the previous one on this member, and
\* ... than any peer stamp seen"), also when the wall clock lags or steps back.
StampsFollowKnowledge == \A i \in issued : \A s \in i.before : Later(i.stamp, s)

Quiet == wire = {} /\ \A t \in Thread : th[t].pc = "idle"

=============================================================================
