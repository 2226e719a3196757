--------------------------- MODULE MCRaftCluster ---------------------------
(***************************************************************************)
(* RaftCluster for TLC, with two more initial states in the middle of a    *)
(* run.  Every field is what the actions of RaftCluster leave behind on    *)
(* that path, the bound on elections counting from there.                  *)
(*                                                                         *)
(* InitDivergent: `a' led term 1 and appended c, `z' then led term 2 with  *)
(* the votes of `b' and itself and appended d; neither entry left its      *)
(* leader.  `a' heard of term 2, timed out and asks for votes in term 3;   *)
(* all other messages are lost.  One more election then suffices for an    *)
(* entry of an old term to be on a majority and still be overwritten.      *)
(*                                                                         *)
(* InitBehind: `a' led term 1 and appended c, which `b' never got before   *)
(* it stood for term 2 and was refused.                                    *)
(***************************************************************************)
EXTENDS RaftCluster, TLC

Led(n, term, votes, command) ==
    Propose([NewNode(EmptyLog, term, n) EXCEPT
                !.role = "Leader", !.leader = n, !.votes = votes], n, command)

InitDivergent ==
    \E a, b, z \in Node, c, d \in Command :
        /\ Cardinality({a, b, z}) = 3 /\ Node = {a, b, z} /\ c # d
        /\ \E m \in StartElection(NewNode(EmptyLog, 1, a), z).out :
              LET asks == StartElection(Step(Led(a, 1, {a, b}, c), a, m).st, a)
              IN  /\ m.to = a
                  /\ node = (a :> asks.st) @@ (b :> NewNode(EmptyLog, 2, z))
                              @@ (z :> Led(z, 2, {b, z}, d))
                  /\ msgs = asks.out
        /\ sm = [n \in Node |-> <<>>]
        /\ proposed = {c, d}
        /\ ballots = {[voter |-> v, term |-> 1, candidate |-> a] : v \in Node}
                       \cup {[voter |-> v, term |-> 2, candidate |-> z] : v \in {b, z}}
                       \cup {[voter |-> a, term |-> 3, candidate |-> a]}
        /\ elections = 1
        /\ restarts = 0

InitBehind ==
    \E a, b \in Node, c \in Command :
        LET asks == StartElection(NewNode(EmptyLog, 1, a), b)
        IN  /\ a # b /\ Node = {a, b}
            /\ \E m \in asks.out :
                  node = (a :> Step(Led(a, 1, {a, b}, c), a, m).st) @@ (b :> asks.st)
            /\ msgs = {}
            /\ sm = [n \in Node |-> <<>>]
            /\ proposed = {c}
            /\ ballots = {[voter |-> v, term |-> 1, candidate |-> a] : v \in Node}
                           \cup {[voter |-> b, term |-> 2, candidate |-> b]}
            /\ elections = 0
            /\ restarts = 0

SpecEither == (Init \/ InitDivergent) /\ [][Next]_vars

FairSpecEither == (Init \/ InitBehind) /\ [][Next]_vars /\ Fairness

Symmetry == Permutations(Node) \cup Permutations(Command)

\* The body of the loop of on_append for one received entry.
LoopBody(log, e) ==
    IF e.index <= log.snapIndex THEN log
    ELSE IF TermAt(log, e.index) = e.term /\ LastIndex(log) >= e.index THEN log
    ELSE AppendEntry(TruncateFrom(log, e.index), e)

=============================================================================
