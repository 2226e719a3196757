------------------------------- MODULE Handlers -------------------------------
(***************************************************************************)
(* The request handlers of a member (server/src/handlers.rs: dispatch and  *)
(* what it calls) for one map "m", one ReplicatedMap, one structure of     *)
(* every kind, one lock and one topic, on a member that has no backups to  *)
(* wait for (Cluster has those, CpService the CP operations).              *)
(*                                                                         *)
(* The memory m of the member: the store st, the lock, the broker, the     *)
(* open transactions with their buffered puts, whether the SQL mapping     *)
(* exists, how many tasks the executor keeps, whether the member list has  *)
(* the quorum, the memcached token counter. A request q has its kind, its  *)
(* operation op, a key k, a value v, a variant x and the correlation id.   *)
(* A handler gives the memory, the replies to its connection, and what is  *)
(* left to do before the reply is written: the records to push to the      *)
(* durability sink and, when it makes several puts, the puts to come.      *)
(***************************************************************************)
EXTENDS TextProtocols, Broker

CONSTANT Value  \* the values of entries, none of them 0

NewMemory == [st |-> NewStore, lock |-> FreeLock, broker |-> NewBroker, txns |-> <<>>,
              mapped |-> FALSE, tasks |-> 0, quorum |-> TRUE, cas |-> 0]

Reply(q, r) == [t |-> "reply", corr |-> q.corr, op |-> q.op, k |-> q.k, r |-> r]

Push(r) == [act |-> "push", r |-> r]
Put(i, v) == [act |-> "put", i |-> i, v |-> v]
Pushes(log) == [n \in DOMAIN log |-> Push(log[n])]

Handled(m, out, todo) == [m |-> m, out |-> out, todo |-> todo]

Stored(m, d, reply) == Handled([m EXCEPT !.st = d.m], <<reply>>, Pushes(d.log))

Unchanged(m, reply) == Handled(m, <<reply>>, <<>>)

Registered(m, b, q) == Handled([m EXCEPT !.broker = b], <<Reply(q, Void)>>, <<>>)

(* is_quorum_gated_write.                                                  *)
Gated(q) ==
    \/ q.kind = "m" /\ q.op \in {"put", "set", "remove", "delete", "putAll", "executeOnKey"}
    \/ q.kind \in {"list", "set"} /\ q.op \in {"add", "remove", "clear"}
    \/ q.kind = "queue" /\ q.op \in {"offer", "poll", "remove", "clear"}
    \/ q.kind = "multimap" /\ q.op \in {"put", "remove"}
    \/ q.kind \in {"ring", "hll"} /\ q.op = "add"
    \/ q.kind = "pn" /\ q.op \in {"getAndAdd", "addAndGet"}

(* Listeners hear of a change, near caches that the key is stale.          *)
Tell(b, type, k, new, old) ==
    LET p == IF HasListeners(b) THEN Publish(b, type, k, new, old) ELSE b
    IN IF HasNearCache(p) THEN Invalidate(p, k) ELSE p

Changed(m, k, new, d, reply) ==
    LET old == m.st.val[<<"m", k>>]
        type == IF new = 0 THEN "removed" ELSE IF old = 0 THEN "added" ELSE "updated"
    IN Handled([m EXCEPT !.st = d.m, !.broker = Tell(@, type, k, new, old)], <<reply>>, Pushes(d.log))

(* A mutant: like a removal, a put invalidates only what was there.        *)
MapPutQuietWhenNew(m, q) ==
    LET i == <<"m", q.k>>
        d == StorePut(m.st, i, q.v)
        reply == Reply(q, IF q.op = "set" THEN Void ELSE Data(m.st.val[i]))
    IN IF Holds(m.st, i) THEN Changed(m, q.k, q.v, d, reply) ELSE Stored(m, d, reply)

MapPut(m, q) ==
    LET i == <<"m", q.k>>
    IN Changed(m, q.k, q.v, StorePut(m.st, i, q.v),
               Reply(q, IF q.op = "set" THEN Void ELSE Data(m.st.val[i])))

MapRemove(m, q) ==
    LET i == <<"m", q.k>>
        d == StoreRemove(m.st, i)
        reply == Reply(q, Data(m.st.val[i]))
    IN IF Holds(m.st, i) THEN Changed(m, q.k, 0, d, reply) ELSE Stored(m, d, reply)

MapDelete(m, q) ==
    LET i == <<"m", q.k>>
        d == StoreRemove(m.st, i)
    IN IF Holds(m.st, i) THEN Changed(m, q.k, 0, d, Reply(q, Void)) ELSE Stored(m, d, Reply(q, Void))

(* The entry processor gives a new value or none; one that cannot be       *)
(* parsed or fails answers null and changes nothing.                       *)
ExecuteOnKey(m, q) ==
    IF q.x = "fails" THEN Unchanged(m, Reply(q, NoData))
    ELSE IF q.v = 0 THEN Unchanged(m, Reply(q, Data(m.st.val[<<"m", q.k>>])))
    ELSE Changed(m, q.k, q.v, StorePut(m.st, <<"m", q.k>>, q.v), Reply(q, Data(q.v)))

MapGet(m, q) == Unchanged(m, Reply(q, Data(m.st.val[<<"m", q.k>>])))

Live(m, map) == {i \in KeysOf(map) : Holds(m.st, i)}

(* containsKey, containsValue, size, isEmpty.                              *)
MapAsk(m, q) ==
    LET live == Live(m, q.kind)
    IN Unchanged(m, Reply(q, CASE q.op = "containsKey" -> Bool(Holds(m.st, <<q.kind, q.k>>))
                               [] q.op = "containsValue" -> Bool(\E i \in live : m.st.val[i] = q.v)
                               [] q.op = "size" -> Num(Cardinality(live))
                               [] q.op = "isEmpty" -> Bool(live = {})))

(* keySet, values, entrySet.                                               *)
MapScan(m, q) ==
    LET live == Live(m, q.kind)
    IN Unchanged(m, Reply(q, CASE q.op = "keySet" -> [keys |-> {i[2] : i \in live}]
                               [] q.op = "values" -> [values |-> {m.st.val[i] : i \in live}]
                               [] q.op = "entrySet" -> [entries |-> {<<i[2], m.st.val[i]>> : i \in live}]))

(* The keys asked for are 1 .. q.k.                                        *)
MapGetAll(m, q) ==
    Unchanged(m, Reply(q, [entries |-> {<<i[2], m.st.val[i]>> : i \in {j \in Live(m, "m") : j[2] <= q.k}}]))

(* The predicate queries, projections and aggregations on one value: the   *)
(* entries that match (Query has the predicates and the aggregates).       *)
MapQuery(m, q) ==
    Unchanged(m, Reply(q, [entries |-> {<<i[2], m.st.val[i]>> : i \in {j \in Live(m, "m") : m.st.val[j] = q.v}}]))

MapPutIfAbsent(m, q) ==
    LET i == <<"m", q.k>> IN Stored(m, StorePutIfAbsent(m.st, i, q.v), Reply(q, Data(m.st.val[i])))

MapReplace(m, q) ==
    LET i == <<"m", q.k>> IN Stored(m, StoreReplace(m.st, i, q.v), Reply(q, Data(m.st.val[i])))

MapClear(m, q) == Stored(m, StoreClear(m.st, "m"), Reply(q, Void))

(* store.put_all: every key of the request gets its value.                 *)
MapPutAll(m, q) == Handled(m, <<Reply(q, Void)>>, [k \in 1 .. q.k |-> Put(<<"m", k>>, q.v)])

-----------------------------------------------------------------------------
Woken(m, u, q) ==
    LET b == IF u.wake = NoWaiter THEN m.broker
             ELSE Enqueue(m.broker, u.wake.conn,
                          [t |-> "reply", corr |-> u.wake.corr, op |-> "lock", k |-> q.k, r |-> Void])
    IN Handled([m EXCEPT !.lock = u.lock, !.broker = b], <<Reply(q, Void)>>, <<>>)

(* A blocking lock that is not granted gets its reply from an unlock.      *)
MapLock(m, c, q) ==
    LET l == LockOrWait(m.lock, q.v, c, q.corr)
    IN Handled([m EXCEPT !.lock = l.lock], IF l.granted THEN <<Reply(q, Void)>> ELSE <<>>, <<>>)

MapTryLock(m, q) ==
    LET l == TryLock(m.lock, q.v)
    IN Handled([m EXCEPT !.lock = l.lock], <<Reply(q, Bool(l.granted))>>, <<>>)

MapUnlock(m, q) == Woken(m, Unlock(m.lock, q.v), q)

MapForceUnlock(m, q) == Woken(m, ForceUnlock(m.lock), q)

MapIsLocked(m, q) == Unchanged(m, Reply(q, Bool(m.lock.owner # 0)))

-----------------------------------------------------------------------------
(* The transactions in the order of their ids; a closed one has no entry.  *)
Begin(m, q) ==
    Handled([m EXCEPT !.txns = Append(@, [open |-> TRUE, puts |-> <<>>])],
            <<Reply(q, Num(Len(m.txns) + 1))>>, <<>>)

IsOpen(m, id) == id \in DOMAIN m.txns /\ m.txns[id].open

Closed(m, id) == IF IsOpen(m, id) THEN [m EXCEPT !.txns[id] = [open |-> FALSE, puts |-> <<>>]] ELSE m

(* buffer_put; the reply is the committed value. q.token is the id of the  *)
(* transaction.                                                            *)
TxnPut(m, q) ==
    LET i == <<"m", q.k>>
    IN Handled(IF IsOpen(m, q.token) THEN [m EXCEPT !.txns[q.token].puts = Append(@, Put(i, q.v))] ELSE m,
               <<Reply(q, Data(m.st.val[i]))>>, <<>>)

(* Acknowledged whether or not the transaction was known.                  *)
Commit(m, q) ==
    Handled(Closed(m, q.token), <<Reply(q, Void)>>, IF IsOpen(m, q.token) THEN m.txns[q.token].puts ELSE <<>>)

Rollback(m, q) == Handled(Closed(m, q.token), <<Reply(q, Void)>>, <<>>)

-----------------------------------------------------------------------------
CachePut(m, q) ==
    LET i == <<"m", q.k>>
    IN Stored(m, StorePut(m.st, i, q.v), Reply(q, IF q.x = "get" THEN Data(m.st.val[i]) ELSE NoData))

CacheRemove(m, q) ==
    LET i == <<"m", q.k>>
        match == q.v = 0 \/ m.st.val[i] = q.v
    IN IF match THEN Stored(m, StoreRemove(m.st, i), Reply(q, Bool(Holds(m.st, i))))
       ELSE Unchanged(m, Reply(q, Bool(FALSE)))

(* INSERT without the mapping is acknowledged too.                         *)
SqlInsert(m, q) ==
    Handled(m, <<Reply(q, Void)>>, IF m.mapped THEN <<Put(<<"m", q.k>>, q.v)>> ELSE <<>>)

Sql(m, q) == CASE q.op = "insert" -> SqlInsert(m, q)
               [] q.op = "createMapping" -> Handled([m EXCEPT !.mapped = TRUE], <<Reply(q, Void)>>, <<>>)
               [] q.op = "select" -> MapScan(m, [q EXCEPT !.kind = "m", !.op = "entrySet"])

Submit(m, q) == Handled([m EXCEPT !.tasks = @ + 1], <<Reply(q, NoData)>>, <<>>)

(* aux_reply and mm_reply when nobody holds a backup: the reply now.       *)
Structure(m, q) ==
    LET a == StoreAux(m.st, q)
    IN Handled([m EXCEPT !.st = a.m], <<Reply(q, a.reply)>>, Pushes(a.log))

Replicated(m, q) ==
    LET i == <<"repl", q.k>>
        old == Reply(q, Data(m.st.val[i]))
    IN CASE q.op = "put" -> Stored(m, StorePut(m.st, i, q.v), old)
         [] q.op = "get" -> Unchanged(m, old)
         [] q.op = "remove" -> Stored(m, StoreRemove(m.st, i), old)
         [] q.op = "clear" -> Stored(m, StoreClear(m.st, "repl"), Reply(q, Void))
         [] q.op \in {"keySet", "values", "entrySet"} -> MapScan(m, q)
         [] OTHER -> MapAsk(m, q)

(* register_near_cache, register, register_with_predicate, register_topic, *)
(* register_cluster_view (with the view at once).                          *)
Listen(m, c, q) ==
    LET b == m.broker
        all == {"added", "updated", "removed"}
    IN CASE q.op = "nearCache" -> Registered(m, RegisterNearCache(b, c), q)
         [] q.op = "entries" -> Registered(m, RegisterListener(b, c, all, Value), q)
         [] q.op = "matching" -> Registered(m, RegisterListener(b, c, all, {q.v}), q)
         [] q.op = "topic" -> Registered(m, RegisterTopic(b, c), q)
         [] q.op = "views" ->
               Handled([m EXCEPT !.broker = RegisterClusterView(@, c)],
                       <<Reply(q, Void), [t |-> "members"], [t |-> "partitions"]>>, <<>>)

TopicPublish(m, q) == Registered(m, PublishTopic(m.broker, q.v), q)

MapOp(m, c, q) == CASE q.op \in {"put", "set"} -> MapPut(m, q)
                    [] q.op = "get" -> MapGet(m, q)
                    [] q.op = "remove" -> MapRemove(m, q)
                    [] q.op = "delete" -> MapDelete(m, q)
                    [] q.op = "executeOnKey" -> ExecuteOnKey(m, q)
                    [] q.op = "putIfAbsent" -> MapPutIfAbsent(m, q)
                    [] q.op = "replace" -> MapReplace(m, q)
                    [] q.op = "clear" -> MapClear(m, q)
                    [] q.op = "putAll" -> MapPutAll(m, q)
                    [] q.op \in {"keySet", "values", "entrySet"} -> MapScan(m, q)
                    [] q.op = "getAll" -> MapGetAll(m, q)
                    [] q.op = "query" -> MapQuery(m, q)
                    [] OTHER -> MapAsk(m, q)

LockOp(m, c, q) == CASE q.op = "lock" -> MapLock(m, c, q)
                     [] q.op = "tryLock" -> MapTryLock(m, q)
                     [] q.op = "unlock" -> MapUnlock(m, q)
                     [] q.op = "forceUnlock" -> MapForceUnlock(m, q)
                     [] q.op = "isLocked" -> MapIsLocked(m, q)

TxnOp(m, q) == CASE q.op = "begin" -> Begin(m, q)
                 [] q.op = "txnPut" -> TxnPut(m, q)
                 [] q.op = "commit" -> Commit(m, q)
                 [] q.op = "rollback" -> Rollback(m, q)

CacheOp(m, q) == CASE q.op = "cacheGet" -> MapGet(m, q)
                   [] q.op = "cachePut" -> CachePut(m, q)
                   [] q.op = "cacheRemove" -> CacheRemove(m, q)

Dispatch(m, c, q) ==
    IF Gated(q) /\ ~m.quorum THEN Unchanged(m, Reply(q, [error |-> "SplitBrainProtection"]))
    ELSE CASE q.kind = "m" -> MapOp(m, c, q)
           [] q.kind = "lock" -> LockOp(m, c, q)
           [] q.kind = "txn" -> TxnOp(m, q)
           [] q.kind = "cache" -> CacheOp(m, q)
           [] q.kind = "sql" -> Sql(m, q)
           [] q.kind = "executor" -> Submit(m, q)
           [] q.kind = "repl" -> Replicated(m, q)
           [] q.kind = "listen" -> Listen(m, c, q)
           [] q.kind = "publish" -> TopicPublish(m, q)
           [] q.kind \in Kinds -> Structure(m, q)
           [] OTHER -> Unchanged(m, Reply(q, Void))
=============================================================================
