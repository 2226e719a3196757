----------------------------- MODULE StoreShard -----------------------------
(***************************************************************************)
(* One shard of the in-memory store (Inner in crates/store/src/lib.rs):    *)
(* an open-addressing table with tombstones whose entries point into a     *)
(* size-classed slab (slab.rs), per-map counts, lazy expiry, eviction and  *)
(* the secondary indexes.  Every operation runs under the shard's mutex    *)
(* and is one action.  Update stamps are the subject of module Hlc.        *)
(***************************************************************************)
EXTENDS Query, TLC

CONSTANTS
    Pair,      \* <<map, key>> of this shard
    Hash,      \* Pair -> Nat
    Value,
    Row,       \* Value -> [column -> field value]
    ClassOf,   \* Value -> slab size class, or "Overflow"
    Ttl,       \* times to live a writer may ask for; 0 is none
    Config,    \* a MapConfig for every map (size, policy, idle) and what the callers of
               \* a behaviour use: pairs, values, times to live, types of index on "a";
               \* clock bounds the time that passes
    Pred,      \* predicates of queries
    Sql,       \* aggregate queries over column "a", grouped by "b"
    Absent,
    Cap0,      \* initial capacity (1024 in the code), a power of two
    MaxCap     \* bound: capacity the table may grow to

ASSUME ShardAssumption == Cap0 > 1 /\ \A p \in Pair : Hash[p] \in Nat

VARIABLES
    sh,      \* the shard
    config, now,
    call, reply   \* the last operation and its result

vars == <<sh, config, now, call, reply>>

Empty == [st |-> "Empty"]
Tombstone == [st |-> "Tombstone"]

Occupied(e) == e.st = "Occupied"

Maps == {p[1] : p \in Pair}

\* Inner::new and Slab::new: classes start empty; map_ids, counts and index
\* configurations appear with the first use of a map.
NewShard ==
    [table |-> [i \in 1 .. Cap0 |-> Empty], len |-> 0, tombstones |-> 0,
     slab |-> [c \in {ClassOf[v] : v \in Value} |-> [mem |-> <<>>, free |-> <<>>]],
     counts |-> [m \in Maps |-> 0],
     configs |-> [m \in Maps |-> <<>>], indexes |-> [m \in Maps |-> <<>>]]

Set(f, x, y) == (x :> y) @@ f

-----------------------------------------------------------------------------
\* Slab: a slot of a class holds the bytes of one key and value.

\* put_two: the most recently freed slot of the class, or a fresh one.
SlabPut(s, p, v) ==
    LET c == s[ClassOf[v]]
        slot == IF c.free = <<>> THEN Len(c.mem) + 1 ELSE Last(c.free)
    IN  [slab |-> [s EXCEPT ![ClassOf[v]] =
                      [mem |-> Set(c.mem, slot, <<p, v>>),
                       free |-> IF c.free = <<>> THEN <<>> ELSE Front(c.free)]],
         slot |-> slot]

\* free: an overflow vector is dropped; the bytes a class slot keeps are no longer
\* those of any key.
SlabFree(s, e) ==
    [s EXCEPT ![e.class] = [mem |-> [@.mem EXCEPT ![e.slot] = <<Absent, Absent>>],
                            free |-> Append(@.free, e.slot)]]

\* key_bytes and val_bytes
KeyBytes(h, e) == h.slab[e.class].mem[e.slot][1]
ValBytes(h, e) == h.slab[e.class].mem[e.slot][2]

-----------------------------------------------------------------------------
\* Probing: the slot visited after j steps, and the first EMPTY one.
At(t, p, j) == ((Hash[p] + j) % Len(t)) + 1

Stop(t, p) == Min({j \in 0 .. Len(t) - 1 : t[At(t, p, j)] = Empty})

\* The slot that holds p, if any, on the way to the first EMPTY one.
Matches(h, p) ==
    {i \in {At(h.table, p, j) : j \in 0 .. Stop(h.table, p)} :
        Occupied(h.table[i]) /\ KeyBytes(h, h.table[i]) = p}

\* Where a new entry for p goes: the first tombstone on the way, else the EMPTY slot.
FreeSlot(t, p) == At(t, p, Min({j \in 0 .. Stop(t, p) : ~Occupied(t[At(t, p, j)])}))

Rehash(t, e, p) ==
    LET j == Min({k \in 0 .. Len(t) - 1 : ~Occupied(t[At(t, p, k)])})
    IN  [t EXCEPT ![At(t, p, j)] = e]

\* maybe_grow: at 7/8 of live and deleted slots the table doubles and drops the
\* tombstones.
Full(h) == (h.len + h.tombstones + 1) * 8 >= Len(h.table) * 7

\* Mutant of MaybeGrow: tombstones do not count.
GrowOnLiveOnly(h) ==
    IF (h.len + 1) * 8 < Len(h.table) * 7 THEN h
    ELSE [h EXCEPT !.tombstones = 0,
                   !.table = FoldLeft(LAMBDA t, e : Rehash(t, e, KeyBytes(h, e)),
                                      [i \in 1 .. 2 * Len(h.table) |-> Empty],
                                      SelectSeq(h.table, Occupied))]

MaybeGrow(h) ==
    IF ~Full(h) THEN h
    ELSE [h EXCEPT !.tombstones = 0,
                   !.table = FoldLeft(LAMBDA t, e : Rehash(t, e, KeyBytes(h, e)),
                                      [i \in 1 .. 2 * Len(h.table) |-> Empty],
                                      SelectSeq(h.table, Occupied))]

Expired(e) ==
    \/ e.expire # 0 /\ now >= e.expire
    \/ config.idle > 0 /\ now - e.access > config.idle

-----------------------------------------------------------------------------
\* update_indexes: every configured column, an index object made on first use.
IndexOf(h, m, col) ==
    IF col \in DOMAIN h.indexes[m] THEN h.indexes[m][col] ELSE NewIndex(h.configs[m][col])

Moved(ix, k, col, old, new) ==
    LET out == IF old = Absent \/ Row[old][col] = Null THEN ix ELSE IndexRemove(ix, Row[old][col], k)
    IN  IF new = Absent \/ Row[new][col] = Null THEN out ELSE IndexInsert(out, Row[new][col], k)


UpdateIndexes(h, p, old, new) ==
    LET m == p[1]
    IN  [h EXCEPT !.indexes[m] =
            [col \in DOMAIN h.configs[m] |-> Moved(IndexOf(h, m, col), p[2], col, old, new)]]

\* A slot becomes a tombstone and its bytes are freed.
Bury(h, i) ==
    [h EXCEPT !.slab = SlabFree(@, h.table[i]), !.table[i] = Tombstone,
              !.len = @ - 1, !.tombstones = @ + 1, !.counts[KeyBytes(h, h.table[i])[1]] = @ - 1]

Entries(h, m) == {i \in DOMAIN h.table : Occupied(h.table[i]) /\ KeyBytes(h, h.table[i])[1] = m}

\* evict_one: the sampling policies pick some entry of the map, the one just written
\* included.
EvictOne(h, m) ==
    {Bury(UpdateIndexes(h, KeyBytes(h, h.table[i]), ValBytes(h, h.table[i]), Absent), i) :
        i \in Entries(h, m)}

Slot(class, slot, ttl) ==
    [st |-> "Occupied", class |-> class, slot |-> slot,
     expire |-> IF ttl = 0 THEN 0 ELSE now + ttl, access |-> now]

\* put of an absent pair
Insert(h, p, v, ttl) ==
    LET i == FreeSlot(h.table, p)
        s == SlabPut(h.slab, p, v)
    IN  UpdateIndexes([h EXCEPT !.table[i] = Slot(ClassOf[v], s.slot, ttl), !.slab = s.slab,
                                !.len = @ + 1, !.counts[p[1]] = @ + 1,
                                !.tombstones = IF h.table[i] = Tombstone THEN @ - 1 ELSE @],
                      p, Absent, v)

\* put over an existing entry; an expired one counts as none, also for the indexes
Overwrite(h, i, p, v, ttl, old) ==
    LET s == SlabPut(SlabFree(h.slab, h.table[i]), p, v)
    IN  UpdateIndexes([h EXCEPT !.table[i] = Slot(ClassOf[v], s.slot, ttl), !.slab = s.slab],
                      p, old, v)

\* Inner::put: the possible shards after it, each with the value returned.
PutOutcomes(h0, p, v, ttl) ==
    LET h == MaybeGrow(h0)
        found == Matches(h, p)
        i == CHOOSE x \in found : TRUE
        old == IF Expired(h.table[i]) THEN Absent ELSE ValBytes(h, h.table[i])
        put == Insert(h, p, v, ttl)
        over == config.size > 0 /\ put.counts[p[1]] > config.size /\ config.policy # "None"
    IN  IF found # {} THEN {[sh |-> Overwrite(h, i, p, v, ttl, old), old |-> old]}
        ELSE {[sh |-> x, old |-> Absent] : x \in IF over THEN EvictOne(put, p[1]) ELSE {put}}

\* find: the slot of a live entry, marked used, or an expired one reaped.
FindSlot(h, p) ==
    LET found == Matches(h, p)
        i == CHOOSE x \in found : TRUE
    IN  IF found = {} THEN [sh |-> h, at |-> 0]
        ELSE IF Expired(h.table[i]) THEN [sh |-> Bury(h, i), at |-> 0]
        ELSE [sh |-> [h EXCEPT !.table[i].access = now], at |-> i]

ValueFound(f) == IF f.at = 0 THEN Absent ELSE ValBytes(f.sh, f.sh.table[f.at])

-----------------------------------------------------------------------------
Init == sh = NewShard /\ config \in Config /\ now = 0 /\ call = <<>> /\ reply = [value |-> Absent]

Room == Len(sh.table) < MaxCap \/ ~Full(sh)

Put(p, v, ttl) ==
    /\ Room /\ call' = <<"put", p, v, ttl>>
    /\ \E r \in PutOutcomes(sh, p, v, ttl) : sh' = r.sh /\ reply' = [value |-> r.old]
    /\ UNCHANGED <<config, now>>

\* get, contains_key
Get(p) ==
    LET f == FindSlot(sh, p)
    IN  call' = <<"get", p>> /\ sh' = f.sh /\ reply' = [value |-> ValueFound(f)] /\ UNCHANGED <<config, now>>

RemoveKey(p) ==
    LET f == FindSlot(sh, p)
    IN  /\ call' = <<"remove", p>>
        /\ sh' = IF f.at = 0 THEN f.sh ELSE Bury(UpdateIndexes(f.sh, p, ValueFound(f), Absent), f.at)
        /\ reply' = [value |-> ValueFound(f)] /\ UNCHANGED <<config, now>>

PutIfAbsent(p, v, ttl) ==
    LET f == FindSlot(sh, p)
    IN  /\ Room /\ call' = <<"putIfAbsent", p, v, ttl>>
        /\ \E r \in IF f.at = 0 THEN PutOutcomes(f.sh, p, v, ttl)
                    ELSE {[sh |-> f.sh, old |-> ValueFound(f)]} : sh' = r.sh /\ reply' = [value |-> r.old]
        /\ UNCHANGED <<config, now>>

\* replace keeps the entry's expiry.
Replace(p, v) ==
    LET f == FindSlot(sh, p)
        s == SlabPut(SlabFree(f.sh.slab, f.sh.table[f.at]), p, v)
        h == UpdateIndexes(f.sh, p, ValueFound(f), v)
    IN  /\ call' = <<"replace", p, v>>
        /\ sh' = IF f.at = 0 THEN f.sh
                 ELSE [h EXCEPT !.slab = s.slab, !.table[f.at].class = ClassOf[v],
                                !.table[f.at].slot = s.slot]
        /\ reply' = [value |-> ValueFound(f)] /\ UNCHANGED <<config, now>>

\* clear leaves the indexes as they are.
Clear(m) ==
    LET dead == Entries(sh, m)
        Free(s, i) == SlabFree(s, sh.table[i])
    IN  /\ call' = <<"clear", m>>
        /\ sh' = [sh EXCEPT !.table = [i \in DOMAIN @ |-> IF i \in dead THEN Tombstone ELSE @[i]],
                            !.slab = FoldLeft(Free, @, SetToSortSeq(dead, <)),
                            !.len = @ - Cardinality(dead), !.tombstones = @ + Cardinality(dead),
                            !.counts[m] = 0]
        /\ UNCHANGED <<config, now, reply>>

Size(m) == call' = <<"size", m>> /\ reply' = [size |-> sh.counts[m]] /\ UNCHANGED <<sh, config, now>>

\* add_index: a second index on the same columns is ignored; the live entries are
\* entered, those without the column create no index object.
AddIndex(m, ty) ==
    LET live == {i \in Entries(sh, m) : ~Expired(sh.table[i])}
        pairs == {<<Row[ValBytes(sh, sh.table[i])]["a"], KeyBytes(sh, sh.table[i])[2]>> : i \in live}
        known == {x \in pairs : x[1] # Null}
    IN  /\ "a" \notin DOMAIN sh.configs[m]
        /\ sh' = [sh EXCEPT !.configs[m] = ("a" :> ty) @@ @,
                            !.indexes[m] = IF known = {} THEN @
                                           ELSE ("a" :> [NewIndex(ty) EXCEPT !.pairs = known]) @@ @]
        /\ UNCHANGED <<config, now, call, reply>>

\* Inner::query: with a usable index its keys are looked up one by one, in the order
\* of a hash set, and rechecked; otherwise the table is scanned.
LiveEntries(h, m) ==
    {<<KeyBytes(h, h.table[i])[2], Row[ValBytes(h, h.table[i])]>> :
        i \in {x \in Entries(h, m) : ~Expired(h.table[x])}}

IndexedEntries(h, m, p, keys) == {e \in LiveEntries(h, m) : e[1] \in keys /\ Eval(p, e[2])}

LookUpAll(h, m, keys) == FoldLeft(LAMBDA x, k : FindSlot(x, <<m, k>>).sh, h, keys)

\* Store::query of a paging or partition predicate queries the inner one first.
Inner(p) ==
    CASE p.is = "Paging" -> p.inner
      [] p.is = "Partition" -> p.target
      [] OTHER -> p

Select(p, matched) ==
    CASE p.is = "Paging" -> {e : e \in ToSet(Page(matched, p.page, p.size))}
      [] p.is = "Partition" -> {e \in matched : e[1] \in p.keys}
      [] OTHER -> matched

QueryMap(m, p) ==
    LET plan == PlanAndResolve(Inner(p), sh.indexes[m])
    IN  /\ call' = <<"query", m, p>>
        /\ IF ~plan.usable
           THEN sh' = sh /\ reply' = [rows |-> Select(p, Matching(Inner(p), LiveEntries(sh, m)))]
           ELSE /\ \E keys \in SetToSeqs(plan.keys) : sh' = LookUpAll(sh, m, keys)
                /\ reply' = [rows |-> Select(p, IndexedEntries(sh, m, Inner(p), plan.keys))]
        /\ UNCHANGED <<config, now>>

Tick == now < config.clock /\ now' = now + 1 /\ UNCHANGED <<sh, config, call, reply>>

Next ==
    \/ \E p \in config.pairs : Get(p) \/ RemoveKey(p)
    \/ \E p \in config.pairs, v \in config.values : Replace(p, v)
    \/ \E p \in config.pairs, v \in config.values, ttl \in config.ttls :
          Put(p, v, ttl) \/ PutIfAbsent(p, v, ttl)
    \/ \E m \in Maps : Clear(m) \/ Size(m)
    \/ \E m \in Maps, ty \in config.index : AddIndex(m, ty)
    \/ \E m \in Maps, p \in Pred : QueryMap(m, p)
    \/ Tick

Spec == Init /\ [][Next]_vars

-----------------------------------------------------------------------------
Content(p) ==
    LET found == Matches(sh, p)
        e == sh.table[CHOOSE i \in found : TRUE]
    IN  IF found = {} THEN Absent ELSE [val |-> ValBytes(sh, e), expire |-> e.expire, access |-> e.access]

SelectRows(p, entries) == Select(p, Matching(Inner(p), {<<e[1], Row[e[2]]>> : e \in entries}))

Abstract == INSTANCE MapSpec WITH
    entries <- [p \in Pair |-> Content(p)], Select <- SelectRows


\* The table's counters are exact; an EMPTY slot is left, so every probe ends;
\* every occupied slot is the one its key's probe finds; no two entries share a
\* slab slot and none points to a free one.
TableSound ==
    LET occ == {i \in DOMAIN sh.table : Occupied(sh.table[i])}
        Handle(i) == <<sh.table[i].class, sh.table[i].slot>>
    IN  /\ sh.len = Cardinality(occ)
        /\ sh.tombstones = Cardinality({i \in DOMAIN sh.table : sh.table[i] = Tombstone})
        /\ \E i \in DOMAIN sh.table : sh.table[i] = Empty
        /\ \A m \in Maps : sh.counts[m] = Cardinality(Entries(sh, m))
        /\ \A i \in occ : Matches(sh, KeyBytes(sh, sh.table[i])) = {i}
        /\ \A i, j \in occ : Handle(i) = Handle(j) => i = j
        /\ \A i \in occ : sh.table[i].slot \notin ToSet(sh.slab[sh.table[i].class].free)

=============================================================================
