SPECIFICATION Spec
CONSTANTS
    Pair <- MCPair
    Hash <- MCHash
    Value = {"v1", "v2", "v3"}
    Row <- MCRow
    ClassOf <- MCClassOf
    Ttl = {0, 1}
    Config <- MCConfig
    Pred <- MCPred
    Sql <- MCSql
    Absent = Absent
    Cap0 = 2
    MaxCap = 8
VIEW ShardView
INVARIANTS TableSound 
 
CHECK_DEADLOCK FALSE
