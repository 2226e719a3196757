---------------------------- MODULE TextProtocols ----------------------------
(***************************************************************************)
(* The two text protocols of the client port: memcached ASCII              *)
(* (server/src/memcache.rs) and RESP2 (server/src/resp.rs).                *)
(*                                                                         *)
(* A request q has the verb q.op, a key q.k and a value q.v; q.x is what   *)
(* its options come to: "never" or "past" for an exptime, "nx" or "xx" for *)
(* a conditional SET. On the wire it is q.parts pieces, a command line and *)
(* a data block or a header and its arguments; acc is the sequence of      *)
(* pieces received. A memcached value is the data d with its cas token;    *)
(* w tells the writes apart and is not in the program.                     *)
(*                                                                         *)
(* Every command gives the store, the records for the durability sink, the *)
(* reply (the empty sequence for noreply), the cas counter and whether the *)
(* connection closes.                                                      *)
(***************************************************************************)
EXTENDS StoreFront

Storage == {"set", "add", "replace", "cas"}

(* frame: how many pieces are the next command, 0 if it is not all there.  *)
McFrame(acc) ==
    IF acc = <<>> THEN 0
    ELSE LET n == IF Head(acc).q.op \in Storage THEN 2 ELSE 1
         IN IF Len(acc) >= n THEN n ELSE 0

RespFrame(acc) ==
    IF acc # <<>> /\ Len(acc) >= Head(acc).q.parts THEN Head(acc).q.parts ELSE 0

Answer(d, reply, cas, close) == [st |-> d.m, log |-> d.log, reply |-> reply, cas |-> cas, close |-> close]

Same(st) == Done(st, <<>>)

Says(q, text) == IF q.x = "noreply" THEN <<>> ELSE <<[text |-> text]>>

(* pack: the value with the next token.                                    *)
Pack(q, cas) == [d |-> q.v, cas |-> cas + 1, w |-> q.w]

McSet(st, q, cas) ==
    LET i == <<"memcache", q.k>>
    IN IF q.x = "past" THEN Answer(StoreRemove(st, i), Says(q, "STORED"), cas, FALSE)
       ELSE Answer(StorePut(st, i, Pack(q, cas)), Says(q, "STORED"), cas + 1, FALSE)

(* The conditional commands, under one hold of the shard lock.             *)
McWhen(st, q, cas, holds, otherwise) ==
    LET i == <<"memcache", q.k>>
    IN IF ~holds THEN Answer(McKeep(st), Says(q, otherwise), cas, FALSE)
       ELSE IF q.x = "past" THEN Answer(McRemove(st, i), Says(q, "STORED"), cas, FALSE)
       ELSE Answer(McStore(st, i, Pack(q, cas)), Says(q, "STORED"), cas + 1, FALSE)

McAdd(st, q, cas) == McWhen(st, q, cas, ~Holds(st, <<"memcache", q.k>>), "NOT_STORED")

(* A mutant: a value replaced in place keeps its token.                    *)
McReplaceInPlace(st, q, cas) ==
    LET i == <<"memcache", q.k>>
        kept == [d |-> q.v, cas |-> st.val[i].cas, w |-> q.w]
    IN IF Holds(st, i) THEN Answer(McStore(st, i, kept), Says(q, "STORED"), cas, FALSE)
       ELSE Answer(McKeep(st), Says(q, "NOT_STORED"), cas, FALSE)

McReplace(st, q, cas) == McWhen(st, q, cas, Holds(st, <<"memcache", q.k>>), "NOT_STORED")

McCas(st, q, cas) ==
    LET i == <<"memcache", q.k>>
    IN McWhen(st, q, cas, Holds(st, i) /\ st.val[i].cas = q.token,
              IF Holds(st, i) THEN "EXISTS" ELSE "NOT_FOUND")

McDelete(st, q, cas) ==
    LET i == <<"memcache", q.k>>
    IN Answer(StoreRemove(st, i), Says(q, IF Holds(st, i) THEN "DELETED" ELSE "NOT_FOUND"), cas, FALSE)

(* touch stores the value again as it is, token included.                  *)
McTouch(st, q, cas) ==
    LET i == <<"memcache", q.k>>
    IN IF ~Holds(st, i) THEN Answer(McKeep(st), Says(q, "NOT_FOUND"), cas, FALSE)
       ELSE Answer(IF q.x = "past" THEN McRemove(st, i) ELSE McStore(st, i, st.val[i]),
                   Says(q, "TOUCHED"), cas, FALSE)

Memcache(st, q, cas) ==
    LET i == <<"memcache", q.k>>
    IN CASE q.op = "get" -> Answer(Same(st), <<[blob |-> st.val[i]]>>, cas, FALSE)
         [] q.op = "set" -> McSet(st, q, cas)
         [] q.op = "add" -> McAdd(st, q, cas)
         [] q.op = "replace" -> McReplace(st, q, cas)
         [] q.op = "cas" -> McCas(st, q, cas)
         [] q.op = "delete" -> McDelete(st, q, cas)
         [] q.op = "touch" -> McTouch(st, q, cas)
         [] q.op = "flush_all" -> Answer(StoreClear(st, "memcache"), Says(q, "OK"), cas, FALSE)
         [] q.op = "quit" -> Answer(Same(st), <<>>, cas, TRUE)
         [] OTHER -> Answer(Same(st), Says(q, "ERROR"), cas, FALSE)

-----------------------------------------------------------------------------
RespSet(st, q) ==
    LET i == <<"redis", q.k>>
        refused == (q.x = "nx" /\ Holds(st, i)) \/ (q.x = "xx" /\ ~Holds(st, i))
    IN IF q.x \notin {"nx", "xx"} THEN Answer(StorePut(st, i, q.v), <<[text |-> "OK"]>>, 0, FALSE)
       ELSE IF refused THEN Answer(McKeep(st), <<[text |-> "nil"]>>, 0, FALSE)
       ELSE Answer(McStore(st, i, q.v), <<[text |-> "OK"]>>, 0, FALSE)

Resp(st, q) ==
    LET i == <<"redis", q.k>>
        here == IF Holds(st, i) THEN 1 ELSE 0
    IN CASE q.op = "get" -> Answer(Same(st), <<[bulk |-> st.val[i]]>>, 0, FALSE)
         [] q.op = "set" -> RespSet(st, q)
         [] q.op = "del" -> Answer(StoreRemove(st, i), <<[int |-> here]>>, 0, FALSE)
         [] q.op = "exists" -> Answer(Same(st), <<[int |-> here]>>, 0, FALSE)
         [] q.op = "dbsize" -> Answer(Same(st), <<[int |-> Cardinality({j \in KeysOf("redis") : Holds(st, j)})]>>, 0, FALSE)
         [] q.op = "flushdb" -> Answer(StoreClear(st, "redis"), <<[text |-> "OK"]>>, 0, FALSE)
         [] q.op = "quit" -> Answer(Same(st), <<[text |-> "OK"]>>, 0, TRUE)
         [] OTHER -> Answer(Same(st), <<[text |-> q.op]>>, 0, FALSE)
=============================================================================
