CONSTANTS
    n1 = n1
    k1 = k1
    v1 = v1
    c1 = c1
    c2 = c2
    Null = Null
    Name = {n1}
    Key = {k1}
    Value = {v1}
    Arg <- MCArg
    Width = 3
    Conn = {c1, c2}
    Group = {"default", "g"}
    Family <- MCFamily
    Session = {1}
    Thread = {7, 8}
    MaxOps <- MCMaxOps
SPECIFICATION Spec
SYMMETRY Symmetry
CHECK_DEADLOCK FALSE
INVARIANTS
    ResponseCarriesReply
    
