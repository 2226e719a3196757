------------------------------ MODULE MapSpec ------------------------------
(***************************************************************************)
(* What the maps of a store promise their callers, without the hash table, *)
(* the slab and the indexes: every (map, key) pair has at most one entry;  *)
(* an entry past its time to live or idle for too long is not seen again,  *)
(* although it takes part in the size until an operation meets it.         *)
(***************************************************************************)
EXTENDS Integers, FiniteSets

CONSTANTS Pair, Value, Ttl, Config, Pred, Absent, Select(_, _)

VARIABLES entries, config, now, call, reply

vars == <<entries, config, now, call, reply>>

Init ==
    /\ entries = [p \in Pair |-> Absent]
    /\ config \in Config
    /\ now = 0 /\ call = <<>> /\ reply = [value |-> Absent]

Maps == {p[1] : p \in Pair}

Present(m) == {p \in Pair : p[1] = m /\ entries[p] # Absent}

Expired(e) ==
    \/ e.expire # 0 /\ now >= e.expire
    \/ config.idle > 0 /\ now - e.access > config.idle

Live(p) == entries[p] # Absent /\ ~Expired(entries[p])

ValueAt(p) == IF Live(p) THEN entries[p].val ELSE Absent

New(v, ttl) == [val |-> v, expire |-> IF ttl = 0 THEN 0 ELSE now + ttl, access |-> now]

Updated(p, e) == [x \in Pair |-> IF x = p THEN e ELSE entries[x]]

\* A new entry that exceeds the map's size may push out one entry, itself included.
Insert(p, v, ttl) ==
    LET others == Present(p[1]) \ {p}
    IN  IF config.size > 0 /\ Cardinality(others) + 1 > config.size /\ config.policy # "None"
        THEN \E q \in others \cup {p} :
                entries' = [x \in Pair |-> IF x = q THEN Absent ELSE Updated(p, New(v, ttl))[x]]
        ELSE entries' = Updated(p, New(v, ttl))

Put(p, v, ttl) ==
    /\ call' = <<"put", p, v, ttl>>
    /\ IF entries[p] = Absent THEN Insert(p, v, ttl) ELSE entries' = Updated(p, New(v, ttl))
    /\ reply' = [value |-> ValueAt(p)] /\ UNCHANGED <<config, now>>

\* Looking an entry up drops it if it expired and marks it used otherwise.
Touched(p) == Updated(p, IF Live(p) THEN [entries[p] EXCEPT !.access = now] ELSE Absent)

Lookup(p) == entries' = Touched(p) /\ reply' = [value |-> ValueAt(p)] /\ UNCHANGED <<config, now>>

Get(p) == call' = <<"get", p>> /\ Lookup(p)

Remove(p) ==
    /\ call' = <<"remove", p>>
    /\ entries' = Updated(p, Absent)
    /\ reply' = [value |-> ValueAt(p)] /\ UNCHANGED <<config, now>>

PutIfAbsent(p, v, ttl) ==
    /\ call' = <<"putIfAbsent", p, v, ttl>>
    /\ \/ Live(p) /\ Lookup(p)
       \/ ~Live(p) /\ Insert(p, v, ttl) /\ reply' = [value |-> Absent] /\ UNCHANGED <<config, now>>

Replace(p, v) ==
    /\ call' = <<"replace", p, v>>
    /\ entries' = Updated(p, IF Live(p) THEN [entries[p] EXCEPT !.val = v, !.access = now] ELSE Absent)
    /\ reply' = [value |-> ValueAt(p)] /\ UNCHANGED <<config, now>>

Clear(m) ==
    /\ call' = <<"clear", m>>
    /\ entries' = [p \in Pair |-> IF p[1] = m THEN Absent ELSE entries[p]]
    /\ UNCHANGED <<config, now, reply>>

Size(m) ==
    /\ call' = <<"size", m>>
    /\ reply' = [size |-> Cardinality(Present(m))] /\ UNCHANGED <<entries, config, now>>

\* A query may mark the entries it looks up as used, and drop the expired ones.
QueryMap(m, p) ==
    /\ call' = <<"query", m, p>>
    /\ \E used \in SUBSET Present(m) :
         entries' = [x \in Pair |-> IF x \in used THEN Touched(x)[x] ELSE entries[x]]
    /\ reply' = [rows |-> Select(p, {<<x[2], entries[x].val>> : x \in {y \in Present(m) : Live(y)}})]
    /\ UNCHANGED <<config, now>>

Tick == now' = now + 1 /\ UNCHANGED <<entries, config, call, reply>>

Next ==
    \/ \E p \in Pair : Get(p) \/ Remove(p)
    \/ \E p \in Pair, v \in Value : Replace(p, v)
    \/ \E p \in Pair, v \in Value, ttl \in Ttl : Put(p, v, ttl) \/ PutIfAbsent(p, v, ttl)
    \/ \E m \in Maps : Clear(m) \/ Size(m)
    \/ \E m \in Maps, p \in Pred : QueryMap(m, p)
    \/ Tick

Spec == Init /\ [][Next]_vars
=============================================================================
