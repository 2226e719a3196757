------------------------------ MODULE MCStore ------------------------------
(* Instance of StoreShard: three pairs of two maps whose probes collide and wrap. *)
EXTENDS StoreShard

\* No action reads call and reply: they only label steps.
ShardView == <<sh, config, now>>

MCPair == {<<"m", 1>>, <<"m", 2>>, <<"n", 1>>}

MCHash == [p \in MCPair |-> IF p = <<"n", 1>> THEN 0 ELSE 3]

MCRow ==
    [v1 |-> [a |-> I32(1), b |-> Str(1)], v2 |-> [a |-> I64(-2), b |-> Str(2)],
     v3 |-> [a |-> Null, b |-> Str(1)]]

MCClassOf == [v1 |-> "32", v2 |-> "32", v3 |-> "Overflow"]

Plain == [size |-> 0, policy |-> "None", idle |-> 0, pairs |-> MCPair, values |-> {"v1"},
          ttls |-> {0}, index |-> {}, clock |-> 0]

OneMap == [Plain EXCEPT !.pairs = {<<"m", 1>>, <<"m", 2>>}]

MCConfig ==
    {Plain, [OneMap EXCEPT !.values = {"v1", "v3"}],
     [OneMap EXCEPT !.ttls = {0, 1}, !.clock = 1], [OneMap EXCEPT !.idle = 1, !.clock = 2],
     [Plain EXCEPT !.size = 1, !.policy = "Lru"],
     [OneMap EXCEPT !.values = {"v1", "v2"}, !.index = {"Sorted", "Hash"}],
     [OneMap EXCEPT !.ttls = {0, 1}, !.clock = 1, !.index = {"Sorted"}]}

Less == [is |-> "Compare", op |-> GreaterLess(TRUE, TRUE), field |-> "a", c |-> I64(0)]
Is1 == [is |-> "Compare", op |-> "Eq", field |-> "a", c |-> I32(1)]

MCPred ==
    {Less, [is |-> "And", preds |-> <<[is |-> "Not", pred |-> Less], Is1>>],
     [is |-> "Paging", inner |-> [is |-> "True"], page |-> 1, size |-> 1]}

Cols == <<[fn |-> "Col", col |-> "b"], [fn |-> "Count", col |-> "a"], [fn |-> "Avg", col |-> "a"],
          [fn |-> "Min", col |-> "a"], [fn |-> "Max", col |-> "a"]>>

MCSql ==
    {[cols |-> Cols, filter |-> [is |-> "True"], groupBy |-> <<"b">>, window |-> w] :
        w \in {NoWindow, [ts |-> "a", size |-> 4, slide |-> 2]}}
=============================================================================
