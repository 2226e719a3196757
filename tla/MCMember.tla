------------------------------ MODULE MCMember ------------------------------
(***************************************************************************)
(* Workloads for Member, one family per question: what survives a crash,   *)
(* locks, views of the map, memcached tokens, the byte streams, and the    *)
(* rest of the requests.                                                   *)
(***************************************************************************)
EXTENDS Member

R(kind, op, k, v) ==
    [kind |-> kind, op |-> op, k |-> k, v |-> v, x |-> "", parts |-> 1, corr |-> 0, token |-> 0,
     seen |-> 0, w |-> 0]

With(r, x) == [r EXCEPT !.x = x]
InTxn(r, id) == [r EXCEPT !.token = id]
InParts(r) == [r EXCEPT !.parts = 2]

MCConn == {1, 2, 3}
MCMapItem == {<<"m", 1>>, <<"m", 2>>, <<"repl", 1>>, <<"memcache", 1>>, <<"redis", 1>>}

Load(a, b, c) ==
    [script |-> <<a, b, c>>, batch |-> 1, wait |-> FALSE, partial |-> FALSE, closes |-> {}, views |-> 0,
     persist |-> FALSE, crash |-> FALSE, full |-> FALSE]

Batch(s) == [Load(s, <<>>, <<>>) EXCEPT !.batch = Len(s), !.persist = TRUE]
Crashing(l) == [l EXCEPT !.crash = TRUE]

Put1 == R("m", "put", 1, 1)
Put2 == R("m", "put", 1, 2)
Remove1 == R("m", "remove", 1, 0)

Replace1 == R("m", "replace", 1, 2)
Clear == R("m", "clear", 0, 0)

MapWrites ==
    {<<a, b, c>> : a \in {Put1, Remove1}, b \in {Put2, Remove1, Replace1, Clear}, c \in {Put1, Remove1}}
    \cup {<<R("m", "putIfAbsent", 1, 2), Put1, Remove1>>, <<R("m", "putAll", 2, 1), Remove1>>,
          <<R("repl", "put", 1, 1), R("repl", "remove", 1, 0), R("repl", "put", 1, 2)>>}

StructureWrites ==
    {<<R("queue", "offer", 0, 1), R("queue", "offer", 0, 2), R("queue", "poll", 0, 0)>>,
     <<R("list", "add", 0, 1), R("list", "remove", 0, 1), R("list", "add", 0, 2)>>,
     <<R("set", "add", 0, 1), R("set", "add", 0, 1), R("set", "clear", 0, 0)>>,
     <<R("multimap", "put", 1, 1), R("multimap", "put", 1, 2), R("multimap", "remove", 1, 0)>>,
     <<R("ring", "add", 0, 1), R("ring", "add", 0, 2), R("ring", "add", 0, 1)>>,
     <<R("pn", "addAndGet", 0, 2), R("pn", "getAndAdd", 0, 1), Put1>>,
     <<R("hll", "add", 0, 2), R("hll", "add", 1, 1), R("flake", "next", 0, 2)>>}

Txn == <<R("txn", "begin", 0, 0), InTxn(R("txn", "txnPut", 1, 1), 1), InTxn(R("txn", "txnPut", 2, 2), 1),
         InTxn(R("txn", "commit", 0, 0), 1)>>

Persistence ==
    {Crashing(Batch(s)) : s \in MapWrites \cup StructureWrites \cup {Txn}}
    \cup {[Batch(<<Put1, Put2, Remove1>>) EXCEPT !.full = TRUE]}
    \cup {Crashing([Batch(<<Put1, Remove1>>) EXCEPT !.script[2] = <<Put2>>])}

Lock(c) == R("lock", "lock", 1, c)
Unlock1(c) == R("lock", "unlock", 1, c)
Waiting(l) == [l EXCEPT !.wait = TRUE]

Locks ==
    {Waiting(Load(<<Lock(1), Lock(1), Unlock1(1), Unlock1(1)>>, <<Lock(2), Unlock1(2)>>,
                  <<R("lock", "tryLock", 1, 3), Unlock1(3)>>)),
     [Waiting(Load(<<Lock(1), Unlock1(1)>>, <<Lock(2), Unlock1(2)>>, <<Lock(3), R("lock", "isLocked", 1, 3)>>))
        EXCEPT !.closes = {2}],
     Waiting(Load(<<Lock(1), Lock(1)>>, <<Lock(2)>>, <<R("lock", "forceUnlock", 1, 3)>>))}

Near == R("listen", "nearCache", 0, 0)
Get1 == R("m", "get", 1, 0)
Entries == R("listen", "entries", 0, 0)

Changes == {<<Put1, Remove1>>, <<R("m", "set", 1, 2), R("m", "delete", 1, 0)>>,
            <<R("m", "executeOnKey", 1, 1), Remove1>>, <<R("m", "putIfAbsent", 1, 1), Put2>>,
            <<R("sql", "createMapping", 0, 0), R("sql", "insert", 1, 1), Put2>>,
            <<R("cache", "cachePut", 1, 1), Remove1>>}

Views ==
    {Load(<<Near, Get1, Get1>>, <<>>, s) : s \in Changes}
    \cup {Load(<<>>, <<Entries>>, s) : s \in Changes}
    \cup {[Load(<<Near, Get1>>, <<Entries, Put2>>, <<Put1>>) EXCEPT !.closes = {1}],
          [Load(<<Entries>>, <<R("listen", "matching", 0, 2)>>, <<Put2>>) EXCEPT !.closes = {2}]}

Mc(op, v) == R("memcache", op, 1, v)
McS(op, v) == InParts(Mc(op, v))

Tokens ==
    {[Waiting(Load(<<McS("set", 1), Mc("get", 0), McS("cas", 2)>>, s, <<>>)) EXCEPT !.batch = 2] :
        s \in {<<McS("set", 2)>>, <<McS("replace", 2)>>, <<Mc("touch", 0), Mc("delete", 0), McS("add", 2)>>,
               <<Mc("flush_all", 0), McS("add", 1), Mc("quit", 0)>>}}
    \cup {[Waiting(Load(<<McS("set", 1), Mc("get", 0), With(McS("cas", 2), "past")>>,
                        <<With(McS("set", 2), "past"), With(McS("replace", 2), "past"),
                          With(Mc("delete", 0), "noreply"), Mc("version", 0)>>, <<>>)) EXCEPT !.batch = 4]}

Rs(op, v, x) == InParts(With(R("redis", op, 1, v), x))

Texts ==
    {[Load(<<Rs("set", 1, ""), Rs("set", 2, "nx"), Rs("set", 2, "xx"), Rs("get", 0, "")>>, <<>>, <<>>)
        EXCEPT !.batch = 3],
     [Load(<<Rs("set", 1, "xx"), Rs("flushdb", 0, ""), Rs("PING", 0, ""), Rs("quit", 0, "")>>,
           <<>>, <<R("http", "health", 0, 0)>>) EXCEPT !.batch = 8, !.partial = TRUE],
     [Load(<<Rs("del", 0, ""), Rs("exists", 0, ""), Rs("dbsize", 0, "")>>,
           <<Rs("set", 1, "")>>, <<>>) EXCEPT !.batch = 2]}

Streams ==
    {[Load(<<R("listen", "topic", 0, 0), Get1>>, <<R("publish", "publish", 0, 1), R("publish", "publish", 0, 2)>>,
           <<Get1>>) EXCEPT !.partial = TRUE, !.closes = {1}],
     [Load(<<R("listen", "views", 0, 0), InParts(Put1), Get1>>, <<InParts(Put2)>>, <<>>)
        EXCEPT !.batch = 2, !.partial = TRUE, !.views = 1]}

Reads ==
    {[Load(s, <<>>, <<>>) EXCEPT !.batch = Len(s)] : s \in
       {<<Put1, R("m", "containsKey", 1, 0), R("m", "containsValue", 0, 1), R("m", "size", 0, 0),
          R("m", "isEmpty", 0, 0), R("m", "keySet", 0, 0), R("m", "values", 0, 0), R("m", "entrySet", 0, 0),
          R("m", "query", 0, 1), R("m", "getAll", 2, 0), R("sql", "select", 0, 0)>>,
        <<R("cache", "cachePut", 1, 1), R("cache", "cacheGet", 1, 0), R("cache", "cacheRemove", 1, 2),
          R("cache", "cacheRemove", 1, 1), R("executor", "submit", 0, 0), R("proxy", "create", 0, 0)>>,
        <<R("txn", "begin", 0, 0), InTxn(R("txn", "txnPut", 1, 1), 1), InTxn(R("txn", "rollback", 0, 0), 1),
          InTxn(R("txn", "commit", 0, 0), 1), With(R("m", "executeOnKey", 1, 1), "fails")>>}}

MCWorkload == Persistence \cup Locks \cup Views \cup Tokens \cup Texts \cup Streams \cup Reads
=============================================================================
