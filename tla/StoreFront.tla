------------------------------ MODULE StoreFront ------------------------------
(***************************************************************************)
(* The store of one member as its callers see it (store/src/lib.rs, Store):*)
(* map entries with their update stamps and the named structures, and for  *)
(* every operation the records it emits to the durability sink, in order,  *)
(* after it has changed the memory. The shards behind the map operations   *)
(* are the business of StoreShard.                                         *)
(*                                                                         *)
(* An item is a map entry <<map, key>> or a structure <<kind, 0>>; its     *)
(* content is a value, NoValue when a map has no entry for the key. Maps:  *)
(* "m" an IMap, "repl" a ReplicatedMap, "memcache" and "redis" those of    *)
(* the text protocols.                                                     *)
(***************************************************************************)
EXTENDS Structures

CONSTANT MapItem  \* the map entries there can be

NoBlob == [d |-> 0, cas |-> 0, w |-> 0]

(* Memcached values carry their cas token; w numbers the writes.           *)
NoValue(i) == IF i[1] = "memcache" THEN NoBlob ELSE 0

Items == MapItem \cup {<<kind, 0>> : kind \in Kinds}

Nothing(i) == IF i \in MapItem THEN NoValue(i) ELSE Empty(i[1])

KeysOf(map) == {i \in MapItem : i[1] = map}

Holds(m, i) == m.val[i] # NoValue(i)

NewStore == [val |-> [i \in Items |-> Nothing(i)], at |-> [i \in MapItem |-> 0], clock |-> 0]

(* The records of the durability sink; n is for the history of a run.      *)
PutRecord(i, v, s) == [i |-> i, kind |-> "put", v |-> v, s |-> s, n |-> 0]
RemoveRecord(i, s) == [i |-> i, kind |-> "remove", v |-> NoValue(i), s |-> s, n |-> 0]
AuxRecord(i, v) == [i |-> i, kind |-> "aux", v |-> v, s |-> 0, n |-> 0]

Done(m, log) == [m |-> m, log |-> log]

(* The next stamp is one past the last (Hlc has the rest of the clock).    *)
Entry(m, i, v, s) == [m EXCEPT !.val[i] = v, !.at[i] = s]

StorePut(m, i, v) ==
    LET s == m.clock + 1
    IN Done(Entry([m EXCEPT !.clock = s], i, v, s), <<PutRecord(i, v, s)>>)

(* The record of a removal is emitted whether or not there was an entry.   *)
StoreRemove(m, i) ==
    LET s == m.clock + 1
    IN Done(Entry([m EXCEPT !.clock = s], i, NoValue(i), 0), <<RemoveRecord(i, s)>>)

(* put_if_absent, replace, clear and mc_update reach no sink; replace      *)
(* keeps the stamp of the entry, the others draw one.                      *)
StorePutIfAbsent(m, i, v) ==
    LET s == m.clock + 1
    IN Done(IF Holds(m, i) THEN [m EXCEPT !.clock = s] ELSE Entry([m EXCEPT !.clock = s], i, v, s), <<>>)

StoreReplace(m, i, v) == Done(IF Holds(m, i) THEN [m EXCEPT !.val[i] = v] ELSE m, <<>>)

StoreClear(m, map) ==
    Done([m EXCEPT !.val = [i \in Items |-> IF i \in KeysOf(map) THEN NoValue(i) ELSE @[i]],
                   !.at = [i \in MapItem |-> IF i \in KeysOf(map) THEN 0 ELSE @[i]]], <<>>)

(* The three actions of mc_update.                                         *)
McStore(m, i, v) == LET s == m.clock + 1 IN Done(Entry([m EXCEPT !.clock = s], i, v, s), <<>>)
McRemove(m, i) == Done(Entry([m EXCEPT !.clock = @ + 1], i, NoValue(i), 0), <<>>)
McKeep(m) == Done([m EXCEPT !.clock = @ + 1], <<>>)

(* A structure operation, and emit_aux when the operation calls it.        *)
StoreAux(m, q) ==
    LET i == <<q.kind, 0>>
        r == StructureOp(m.val[i], q)
    IN [m |-> [m EXCEPT !.val[i] = r.c],
        log |-> IF r.log THEN <<AuxRecord(i, r.c)>> ELSE <<>>,
        reply |-> r.reply]

(* put_merge under LatestUpdate: only a newer stamp replaces an entry; the *)
(* clock has seen the stamp either way.                                    *)
Wins(m, i, s) == Holds(m, i) => s > m.at[i]

PutMerge(m, i, v, s) ==
    LET seen == [m EXCEPT !.clock = IF s > @ THEN s ELSE @]
    IN IF Wins(m, i, s) THEN Entry(seen, i, v, s) ELSE seen

InstallAux(m, i, v) == [m EXCEPT !.val[i] = v]
=============================================================================
