------------------------- MODULE RaftCluster_proofs -------------------------
(***************************************************************************)
(* Type correctness of the Raft group, and at most one leader per term     *)
(* when the log is durable, for every set of nodes and commands, however   *)
(* many elections, restarts and messages there are.                        *)
(***************************************************************************)
EXTENDS RaftCluster, RaftNode_proofs

Typed == TypeOK /\ \A n \in Node : SoundNode(node[n])

LEMMA InitTyped == Init => Typed
<1> SUFFICES ASSUME Init PROVE Typed
  OBVIOUS
<1>1. EmptyLog \in LogType
  BY EmptySeq DEF EmptyLog, LogType
<1>2. SoundNode(NewNode(EmptyLog, 0, None))
  BY <1>1 DEF NewNode, SoundNode, NodeType, Role
<1>3. NewNode(EmptyLog, 0, None) \in NodeType
  BY <1>2 DEF SoundNode
<1>4. <<>> \in Seq([index : Nat, command : Command])
  BY EmptySeq
<1>5. node \in [Node -> NodeType]
  BY <1>3 DEF Init
<1>6. \A n \in Node : SoundNode(node[n])
  BY <1>2 DEF Init
<1>7. QED
  BY <1>4, <1>5, <1>6 DEF Init, Typed, TypeOK

LEMMA QuietComposes ==
    ASSUME NEW n, NEW s, NEW t, NEW u, NEW out, NEW V,
           ElectionStep(n, s, t, out, V), Quiet(t, u)
    PROVE  ElectionStep(n, s, u, out, V)
BY DEF ElectionStep, Quiet

LEMMA QuietIsStep ==
    ASSUME NEW n, NEW s, SoundNode(s), NEW t, Quiet(s, t)
    PROVE  ElectionStep(n, s, t, {}, {})
<1>1. s.term \in Nat
  BY DEF SoundNode, NodeType
<1>2. QED
  BY <1>1 DEF ElectionStep, Quiet

LEMMA EndTickQuiet ==
    ASSUME NEW s, SoundNode(s)
    PROVE  Quiet(s, EndTick(s))
<1>1. Quiet(s, TakeCommitted(s))
  BY TakeCommittedQuiet
<1>2. Quiet(TakeCommitted(s), MaybeCompact(TakeCommitted(s), Keep))
  BY <1>1, MaybeCompactQuiet DEF Quiet
<1>3. QED
  BY <1>1, <1>2 DEF EndTick, Quiet

\* One call of node n: its record moves from s = node[n] to t, sending `out' and
\* counting the votes V.
NodeMoves(n, t, out, V) ==
    /\ ElectionStep(n, node[n], t, out, V)
    /\ node' = [node EXCEPT ![n] = t]
    /\ msgs' \subseteq msgs \cup out

\* The ballot node n has on record when its state is s.
BallotOf(n, s) ==
    IF s.vote = None THEN {} ELSE {[voter |-> n, term |-> s.term, candidate |-> s.vote]}

\* Votes a step counts were announced by a message in flight.
Counted(n, t, V) ==
    \A v \in V : \E m \in msgs :
        /\ m.type = "RequestVoteResp" /\ m.granted /\ m.term = t.term
        /\ m.from = v /\ m.to = n

\* Every step that touches a node is such a call; ballots are recorded, or the
\* node's vote and term did not change.
NodeStep ==
    \E n \in Node, V \in SUBSET Node, out \in SUBSET MsgType : \E t \in NodeType :
        /\ NodeMoves(n, t, out, V)
        /\ Counted(n, t, V)
        /\ \/ ballots' = ballots \cup BallotOf(n, t)
           \/ ballots' = ballots /\ t.vote = node[n].vote /\ t.term = node[n].term

RestTyped ==
    /\ sm' \in [Node -> Seq([index : Nat, command : Command])]
    /\ proposed' \subseteq Command /\ elections' \in Nat /\ restarts' \in Nat

LEMMA ApplyType ==
    ASSUME Typed, NEW n \in Node, NEW s, SoundNode(s), Apply(n, s)
    PROVE  sm' \in [Node -> Seq([index : Nat, command : Command])]
<1>1. Committed(s) \in Seq([index : Nat, command : Command])
  BY CommittedType
<1>2. sm[n] \o Committed(s) \in Seq([index : Nat, command : Command])
  BY <1>1, ConcatProperties DEF Typed, TypeOK
<1>3. QED
  BY <1>2 DEF Apply, Typed, TypeOK

LEMMA LeaderTickMoves ==
    ASSUME Typed, NEW n \in Node, LeaderTick(n)
    PROVE  NodeStep /\ RestTyped
<1> DEFINE s == node[n]
           t == EndTick(s)
           out == BroadcastAppend(s, n)
<1>1. SoundNode(s) /\ s.role = "Leader"
  BY DEF Typed, LeaderTick
<1>2. Quiet(s, t)
  BY <1>1, EndTickQuiet
<1>3. \A m \in out : /\ m \in MsgType /\ m.type = "AppendEntries"
                     /\ m.from = n /\ m.term = s.term
  BY <1>1, SendAppendFacts DEF BroadcastAppend
<1>4. sm' \in [Node -> Seq([index : Nat, command : Command])]
  BY <1>1, ApplyType DEF LeaderTick
<1>5. node' = [node EXCEPT ![n] = t] /\ msgs' \subseteq msgs \cup out /\ ballots' = ballots
  BY DEF LeaderTick, Transmit
<1>6. RestTyped
  BY <1>4 DEF RestTyped, LeaderTick, Typed, TypeOK
<1> HIDE DEF s, t, out
<1>7. ElectionStep(n, s, t, out, {})
  <2>1. s.term \in Nat
    BY <1>1 DEF SoundNode, NodeType
  <2>2. QED
    BY <1>1, <1>2, <1>3, <2>1 DEF ElectionStep, Quiet
<1>8. NodeMoves(n, t, out, {})
  BY <1>5, <1>7 DEF NodeMoves, s
<1>9. t \in NodeType /\ out \in SUBSET MsgType /\ {} \in SUBSET Node /\ Counted(n, t, {})
  BY <1>2, <1>3 DEF Quiet, SoundNode, Counted
<1>10. t.vote = node[n].vote /\ t.term = node[n].term
  BY <1>2 DEF Quiet, s
<1>11. NodeStep
  BY <1>5, <1>8, <1>9, <1>10 DEF NodeStep
<1>12. QED
  BY <1>6, <1>11

LEMMA ElectionTickMoves ==
    ASSUME Typed, NEW n \in Node, ElectionTick(n)
    PROVE  NodeStep /\ RestTyped
<1> DEFINE r == StartElection(node[n], n)
           t == EndTick(r.st)
<1>1. SoundNode(node[n])
  BY DEF Typed
<1>2. ElectionStep(n, node[n], r.st, r.out, {})
  BY <1>1, StartElectionStep
<1>3. SoundNode(r.st) /\ r.out \subseteq MsgType
  BY <1>2 DEF ElectionStep
<1>4. Quiet(r.st, t)
  BY <1>3, EndTickQuiet
<1>5. /\ node' = [node EXCEPT ![n] = t] /\ msgs' \subseteq msgs \cup r.out
      /\ ballots' = ballots \cup BallotOf(n, r.st)
  BY DEF ElectionTick, Transmit, Persisted, BallotOf
<1>6. RestTyped
  <2>1. sm' \in [Node -> Seq([index : Nat, command : Command])]
    BY <1>3, ApplyType DEF ElectionTick
  <2>2. elections' = elections + 1 /\ UNCHANGED <<proposed, restarts>>
    BY DEF ElectionTick
  <2>3. elections \in Nat /\ restarts \in Nat /\ proposed \subseteq Command
    BY DEF Typed, TypeOK
  <2>4. elections' \in Nat
    BY <2>2, <2>3
  <2>5. QED
    BY <2>1, <2>2, <2>3, <2>4 DEF RestTyped
<1> HIDE DEF r, t
<1>7. NodeMoves(n, t, r.out, {})
  BY <1>2, <1>4, <1>5, QuietComposes DEF NodeMoves
<1>8. BallotOf(n, r.st) = BallotOf(n, t)
  BY <1>4 DEF Quiet, BallotOf
<1>9. t \in NodeType /\ {} \in SUBSET Node /\ Counted(n, t, {})
  BY <1>4 DEF Quiet, SoundNode, Counted
<1>10. NodeStep
  BY <1>3, <1>5, <1>7, <1>8, <1>9 DEF NodeStep
<1>11. QED
  BY <1>6, <1>10

\* A call that is quiet and sends nothing.
LEMMA QuietMoves ==
    ASSUME Typed, NEW n \in Node, NEW t, Quiet(node[n], t),
           node' = [node EXCEPT ![n] = t], msgs' = msgs, ballots' = ballots
    PROVE  NodeStep
<1>1. ElectionStep(n, node[n], t, {}, {})
  BY QuietIsStep DEF Typed
<1>2. NodeMoves(n, t, {}, {})
  BY <1>1 DEF NodeMoves
<1>3. t \in NodeType /\ {} \in SUBSET Node /\ {} \in SUBSET MsgType /\ Counted(n, t, {})
  BY DEF Quiet, SoundNode, Counted
<1>4. t.vote = node[n].vote /\ t.term = node[n].term
  BY DEF Quiet
<1>5. QED
  BY <1>2, <1>3, <1>4 DEF NodeStep

LEMMA IdleTickMoves ==
    ASSUME Typed, NEW n \in Node, IdleTick(n)
    PROVE  NodeStep /\ RestTyped
<1>1. SoundNode(node[n])
  BY DEF Typed
<1>2. Quiet(node[n], EndTick(node[n]))
  BY <1>1, EndTickQuiet
<1>3. NodeStep
  BY <1>2, QuietMoves DEF IdleTick
<1>4. sm' \in [Node -> Seq([index : Nat, command : Command])]
  BY <1>1, ApplyType DEF IdleTick
<1>5. QED
  BY <1>3, <1>4 DEF RestTyped, IdleTick, Typed, TypeOK

LEMMA ClientProposeMoves ==
    ASSUME Typed, NEW n \in Node, NEW c \in Command, ClientPropose(n, c)
    PROVE  NodeStep /\ RestTyped
<1>1. Quiet(node[n], Propose(node[n], n, c))
  BY ProposeQuiet DEF Typed
<1>2. NodeStep
  BY <1>1, QuietMoves DEF ClientPropose
<1>3. QED
  BY <1>2 DEF RestTyped, ClientPropose, Typed, TypeOK

LEMMA DeliverMoves ==
    ASSUME Typed, NEW m \in msgs, Deliver(m)
    PROVE  NodeStep /\ RestTyped
<1> DEFINE n == m.to
           r == Step(node[n], n, m)
           t == TakeCommitted(r.st)
           V == IF m.term = r.st.term THEN Brings(m) ELSE {}
<1>1. m \in MsgType /\ n \in Node /\ m.from \in Node
  BY DEF Typed, TypeOK, MsgType
<1>2. SoundNode(node[n])
  BY <1>1 DEF Typed
<1>3. ElectionStep(n, node[n], r.st, r.out, V)
  BY <1>1, <1>2, StepElection
<1>4. SoundNode(r.st) /\ r.out \subseteq MsgType
  BY <1>3 DEF ElectionStep
<1>5. Quiet(r.st, t)
  BY <1>4, TakeCommittedQuiet
<1>6. /\ node' = [node EXCEPT ![n] = t] /\ msgs' \subseteq msgs \cup r.out
      /\ ballots' = ballots \cup BallotOf(n, r.st)
  BY DEF Deliver, Transmit, Persisted, BallotOf
<1>7. RestTyped
  <2>1. sm' \in [Node -> Seq([index : Nat, command : Command])]
    BY <1>1, <1>4, ApplyType DEF Deliver
  <2>2. QED
    BY <2>1 DEF RestTyped, Deliver, Typed, TypeOK
<1>8. V \in SUBSET Node /\ \A v \in V : /\ m.type = "RequestVoteResp" /\ m.granted
                                        /\ m.term = r.st.term /\ v = m.from /\ m.to = n
  BY <1>1 DEF Brings
<1> HIDE DEF r, t, V
<1>9. NodeMoves(n, t, r.out, V)
  BY <1>3, <1>5, <1>6, QuietComposes DEF NodeMoves
<1>10. BallotOf(n, r.st) = BallotOf(n, t)
  BY <1>5 DEF Quiet, BallotOf
<1>11. t \in NodeType /\ Counted(n, t, V)
  BY <1>5, <1>8 DEF Quiet, SoundNode, Counted
<1>12. NodeStep
  BY <1>1, <1>4, <1>6, <1>8, <1>9, <1>10, <1>11 DEF NodeStep
<1>13. QED
  BY <1>7, <1>12

\* A restart keeps term and vote when the log is durable.
LEMMA RestartMoves ==
    ASSUME Typed, NEW n \in Node, Restart(n)
    PROVE  /\ RestTyped
           /\ node' \in [Node -> NodeType] /\ \A p \in Node : SoundNode(node'[p])
           /\ Durable => NodeStep
<1> DEFINE s == node[n]
           back == NewNode(s.log, s.term, s.vote)
           fresh == NewNode(EmptyLog, 0, None)
<1>1. SoundNode(s) /\ s \in NodeType
  BY DEF Typed, SoundNode
<1>2. /\ SoundNode(back) /\ back.term = s.term /\ back.vote = s.vote
      /\ back.role = "Follower"
  BY <1>1 DEF NewNode, SoundNode, NodeType, Role
<1>3. SoundNode(fresh)
  <2>1. EmptyLog \in LogType
    BY EmptySeq DEF EmptyLog, LogType
  <2>2. QED
    BY <2>1 DEF NewNode, SoundNode, NodeType, Role
<1>4. /\ node' = [node EXCEPT ![n] = IF Durable THEN back ELSE fresh]
      /\ msgs' = msgs /\ ballots' = ballots
  BY DEF Restart
<1>5. RestTyped
  <2>1. <<>> \in Seq([index : Nat, command : Command])
    BY EmptySeq
  <2>2. sm' \in [Node -> Seq([index : Nat, command : Command])]
    BY <2>1 DEF Restart, Typed, TypeOK
  <2>3. restarts' = restarts + 1 /\ UNCHANGED <<proposed, elections>>
    BY DEF Restart
  <2>4. elections \in Nat /\ restarts \in Nat /\ proposed \subseteq Command
    BY DEF Typed, TypeOK
  <2>5. restarts' \in Nat
    BY <2>3, <2>4
  <2>6. QED
    BY <2>2, <2>3, <2>4, <2>5 DEF RestTyped
<1> HIDE DEF back, fresh
<1>6. node' \in [Node -> NodeType] /\ \A p \in Node : SoundNode(node'[p])
  BY <1>2, <1>3, <1>4 DEF Typed, TypeOK, SoundNode
<1>7. ASSUME Durable PROVE NodeStep
  <2>1. ElectionStep(n, node[n], back, {}, {})
    <3>1. s.term \in Nat
      BY <1>1 DEF NodeType
    <3>2. QED
      BY <1>2, <3>1 DEF ElectionStep
  <2>2. NodeMoves(n, back, {}, {})
    BY <1>4, <1>7, <2>1 DEF NodeMoves
  <2>3. back \in NodeType /\ Counted(n, back, {})
    BY <1>2 DEF SoundNode, Counted
  <2>4. QED
    BY <1>2, <1>4, <2>2, <2>3 DEF NodeStep
<1>8. QED
  BY <1>5, <1>6, <1>7

-----------------------------------------------------------------------------
\* Type correctness.

LEMMA NodeStepTyped ==
    ASSUME Typed, NodeStep
    PROVE  /\ node' \in [Node -> NodeType] /\ \A p \in Node : SoundNode(node'[p])
           /\ msgs' \subseteq MsgType
           /\ ballots' \subseteq [voter : Node, term : Nat, candidate : Node]
<1>1. PICK n \in Node, V \in SUBSET Node, out \in SUBSET MsgType : \E t \in NodeType :
         /\ NodeMoves(n, t, out, V)
         /\ Counted(n, t, V)
         /\ \/ ballots' = ballots \cup BallotOf(n, t)
            \/ ballots' = ballots /\ t.vote = node[n].vote /\ t.term = node[n].term
  BY DEF NodeStep
<1>2. PICK t \in NodeType :
         /\ NodeMoves(n, t, out, V)
         /\ ballots' \subseteq ballots \cup BallotOf(n, t)
  BY <1>1
<1>3. SoundNode(t) /\ node' = [node EXCEPT ![n] = t] /\ msgs' \subseteq msgs \cup out
  BY <1>2 DEF NodeMoves, ElectionStep
<1>4. BallotOf(n, t) \subseteq [voter : Node, term : Nat, candidate : Node]
  BY <1>2 DEF BallotOf, NodeType
<1>5. node' \in [Node -> NodeType] /\ \A p \in Node : SoundNode(node'[p])
  BY <1>3 DEF Typed, TypeOK
<1>6. QED
  BY <1>2, <1>3, <1>4, <1>5 DEF Typed, TypeOK

\* What any step is, as far as types and elections go.
LEMMA StepCases ==
    ASSUME Typed, [Next]_vars
    PROVE  /\ RestTyped
           /\ \/ NodeStep
              \/ msgs' \subseteq msgs /\ UNCHANGED <<node, ballots>>
              \/ ~Durable /\ \E n \in Node : Restart(n)
<1>1. ASSUME NEW n \in Node, LeaderTick(n) PROVE NodeStep /\ RestTyped
  BY <1>1, LeaderTickMoves
<1>2. ASSUME NEW n \in Node, ElectionTick(n) PROVE NodeStep /\ RestTyped
  BY <1>2, ElectionTickMoves
<1>3. ASSUME NEW n \in Node, IdleTick(n) PROVE NodeStep /\ RestTyped
  BY <1>3, IdleTickMoves
<1>4. ASSUME NEW n \in Node, NEW c \in Command, ClientPropose(n, c)
      PROVE  NodeStep /\ RestTyped
  BY <1>4, ClientProposeMoves
<1>5. ASSUME NEW n \in Node, Restart(n)
      PROVE  RestTyped /\ (NodeStep \/ (~Durable /\ \E p \in Node : Restart(p)))
  BY <1>5, RestartMoves
<1>6. ASSUME NEW m \in msgs, Deliver(m) PROVE NodeStep /\ RestTyped
  BY <1>6, DeliverMoves
<1>7. ASSUME NEW m \in msgs, Lose(m)
      PROVE  RestTyped /\ msgs' \subseteq msgs /\ UNCHANGED <<node, ballots>>
  BY <1>7 DEF Lose, Transmit, RestTyped, Typed, TypeOK
<1>8. CASE UNCHANGED vars
  BY <1>8 DEF vars, RestTyped, Typed, TypeOK
<1>9. QED
  BY <1>1, <1>2, <1>3, <1>4, <1>5, <1>6, <1>7, <1>8 DEF Next

LEMMA TypedStep ==
    ASSUME Typed, [Next]_vars
    PROVE  Typed'
<1>1. RestTyped
  BY StepCases
<1>2. CASE NodeStep
  BY <1>1, <1>2, NodeStepTyped DEF RestTyped, Typed, TypeOK
<1>3. CASE msgs' \subseteq msgs /\ UNCHANGED <<node, ballots>>
  BY <1>1, <1>3 DEF RestTyped, Typed, TypeOK
<1>4. CASE \E n \in Node : Restart(n)
  <2>1. node' \in [Node -> NodeType] /\ \A p \in Node : SoundNode(node'[p])
    BY <1>4, RestartMoves
  <2>2. msgs' = msgs /\ ballots' = ballots
    BY <1>4 DEF Restart
  <2>3. QED
    BY <1>1, <2>1, <2>2 DEF RestTyped, Typed, TypeOK
<1>5. QED
  BY <1>2, <1>3, <1>4, StepCases

\* Records and messages stay well formed; in particular prev_log_index, computed
\* as next_index - 1, never underflows.
THEOREM RaftTypes == Spec => []TypeOK
<1>1. Typed /\ [Next]_vars => Typed'
  BY TypedStep
<1>2. Typed => TypeOK
  BY DEF Typed
<1>3. QED
  BY InitTyped, <1>1, <1>2, PTL DEF Spec

-----------------------------------------------------------------------------
\* Election safety.

Ballot(v, t, c) == [voter |-> v, term |-> t, candidate |-> c]

\* A majority is on record for c in term t.
Elected(c, t) ==
    \E Q \in SUBSET Node : Cardinality(Q) >= Majority /\ \A v \in Q : Ballot(v, t, c) \in ballots

\* A persisted vote binds its voter: a later state of the voter has a higher term
\* or the same vote.
BallotsBind ==
    \A v, c \in Node, t \in Nat : Ballot(v, t, c) \in ballots =>
        /\ t <= node[v].term
        /\ t = node[v].term => node[v].vote = c

\* Whatever rests on a vote rests on a persisted one: the vote a node holds, the
\* votes a candidate or leader has counted, and a granted answer in flight.
VotesOnRecord ==
    /\ \A n \in Node : node[n].vote # None =>
          Ballot(n, node[n].term, node[n].vote) \in ballots
    /\ \A n \in Node : node[n].role # "Follower" =>
          \A v \in node[n].votes : Ballot(v, node[n].term, n) \in ballots
    /\ \A m \in msgs : m.type = "RequestVoteResp" => (m.granted =>
          Ballot(m.from, m.term, m.to) \in ballots)

OneBallotPerTerm ==
    \A v, c, d \in Node, t \in Nat :
        Ballot(v, t, c) \in ballots /\ Ballot(v, t, d) \in ballots => c = d

LeadersElected ==
    /\ \A n \in Node : node[n].role = "Leader" => Cardinality(node[n].votes) >= Majority
    /\ \A m \in msgs : m.type = "AppendEntries" => Elected(m.from, m.term)

ElectInv == BallotsBind /\ VotesOnRecord /\ OneBallotPerTerm /\ LeadersElected

LEMMA InitElect == Init => ElectInv
BY DEF Init, NewNode, ElectInv, BallotsBind, VotesOnRecord, OneBallotPerTerm, LeadersElected

\* A leader's term has a majority on record.
LEMMA LeaderElected ==
    ASSUME Typed, ElectInv, NEW n \in Node, node[n].role = "Leader"
    PROVE  Elected(n, node[n].term)
<1>1. node[n].votes \in SUBSET Node
  BY DEF Typed, TypeOK, NodeType
<1>2. QED
  BY <1>1 DEF ElectInv, VotesOnRecord, LeadersElected, Elected

LEMMA NodeStepElect ==
    ASSUME Typed, Typed', ElectInv, NodeStep
    PROVE  ElectInv'
<1>1. PICK n \in Node, V \in SUBSET Node, out \in SUBSET MsgType : \E t \in NodeType :
         /\ NodeMoves(n, t, out, V)
         /\ Counted(n, t, V)
         /\ \/ ballots' = ballots \cup BallotOf(n, t)
            \/ ballots' = ballots /\ t.vote = node[n].vote /\ t.term = node[n].term
  BY DEF NodeStep
<1>2. PICK t \in NodeType :
         /\ NodeMoves(n, t, out, V)
         /\ Counted(n, t, V)
         /\ \/ ballots' = ballots \cup BallotOf(n, t)
            \/ ballots' = ballots /\ t.vote = node[n].vote /\ t.term = node[n].term
  BY <1>1
<1> DEFINE s == node[n]
<1>3. /\ node' = [node EXCEPT ![n] = t]
      /\ msgs' \subseteq msgs \cup out
      /\ ElectionStep(n, s, t, out, V)
  BY <1>2 DEF NodeMoves
<1>4. /\ node'[n] = t
      /\ \A p \in Node : p # n => node'[p] = node[p]
      /\ s \in NodeType /\ s.term \in Nat /\ t.term \in Nat /\ t.votes \subseteq Node
  BY <1>2, <1>3 DEF Typed, TypeOK, NodeType
<1>5. /\ ballots \subseteq ballots'
      /\ ballots' \subseteq ballots \cup BallotOf(n, t)
  BY <1>2
<1>6. t.vote # None => Ballot(n, t.term, t.vote) \in ballots'
  BY <1>2, <1>4 DEF BallotOf, Ballot, ElectInv, VotesOnRecord
<1>7. /\ t.term >= s.term
      /\ t.term = s.term /\ s.vote # None => t.vote = s.vote
  BY <1>3 DEF ElectionStep
<1>8. \A p \in Node : node[p].vote # None \/ node[p].vote = None
  OBVIOUS
<1>9. \A v, c \in Node, u \in Nat : Ballot(v, u, c) \in ballots' =>
         \/ Ballot(v, u, c) \in ballots
         \/ v = n /\ u = t.term /\ c = t.vote
  BY <1>5 DEF BallotOf, Ballot
<1>10. \A c \in Node, u \in Nat : Ballot(n, u, c) \in ballots =>
          u <= s.term /\ (u = s.term => s.vote = c)
  BY DEF ElectInv, BallotsBind
<1>11. \A c \in Node, u \in Nat : Ballot(n, u, c) \in ballots =>
          u <= t.term /\ (u = t.term => t.vote = c)
  BY <1>4, <1>7, <1>10, NodeAssumption
<1>12. BallotsBind'
  <2>1. SUFFICES ASSUME NEW v \in Node, NEW c \in Node, NEW u \in Nat,
                        Ballot(v, u, c) \in ballots'
                 PROVE  u <= node'[v].term /\ (u = node'[v].term => node'[v].vote = c)
    BY DEF BallotsBind, Ballot
  <2>2. CASE v = n
    BY <1>4, <1>9, <1>11, <2>1, <2>2
  <2>3. CASE v # n
    BY <1>4, <1>9, <2>1, <2>3 DEF ElectInv, BallotsBind
  <2>4. QED
    BY <2>2, <2>3
<1>13. OneBallotPerTerm'
  <2>1. SUFFICES ASSUME NEW v \in Node, NEW c \in Node, NEW d \in Node, NEW u \in Nat,
                        Ballot(v, u, c) \in ballots', Ballot(v, u, d) \in ballots'
                 PROVE  c = d
    BY DEF OneBallotPerTerm, Ballot
  <2>2. CASE Ballot(v, u, c) \in ballots /\ Ballot(v, u, d) \in ballots
    BY <2>2 DEF ElectInv, OneBallotPerTerm
  <2>3. CASE v = n /\ u = t.term
    BY <1>9, <1>11, <2>1, <2>3
  <2>4. QED
    BY <1>9, <2>1, <2>2, <2>3
<1>14. VotesOnRecord'
  <2>1. ASSUME NEW p \in Node, node'[p].vote # None
        PROVE  Ballot(p, node'[p].term, node'[p].vote) \in ballots'
    BY <1>4, <1>5, <1>6, <2>1 DEF ElectInv, VotesOnRecord
  <2>2. ASSUME NEW p \in Node, node'[p].role # "Follower", NEW v \in node'[p].votes
        PROVE  Ballot(v, node'[p].term, p) \in ballots'
    <3>1. CASE p # n
      BY <1>4, <1>5, <2>2, <3>1 DEF ElectInv, VotesOnRecord
    <3>2. CASE p = n
      <4>1. t.role # "Follower" /\ v \in t.votes
        BY <1>4, <2>2, <3>2
      <4>2. \/ t.term = s.term /\ s.role # "Follower" /\ t.votes \subseteq s.votes \cup V
            \/ t.votes = {n} /\ t.vote = n
        BY <1>3, <4>1 DEF ElectionStep
      <4>3. CASE t.votes = {n} /\ t.vote = n
        BY <1>4, <1>6, <3>2, <4>1, <4>3, NodeAssumption
      <4>4. CASE t.term = s.term /\ s.role # "Follower" /\ v \in s.votes
        BY <1>4, <1>5, <3>2, <4>4 DEF ElectInv, VotesOnRecord
      <4>5. CASE v \in V
        <5>1. Ballot(v, t.term, n) \in ballots
          BY <1>2, <4>5 DEF Counted, ElectInv, VotesOnRecord
        <5>2. QED
          BY <1>4, <1>5, <3>2, <5>1
      <4>6. QED
        BY <4>1, <4>2, <4>3, <4>4, <4>5
    <3>3. QED
      BY <3>1, <3>2
  <2>3. ASSUME NEW m \in msgs', m.type = "RequestVoteResp", m.granted
        PROVE  Ballot(m.from, m.term, m.to) \in ballots'
    <3>1. CASE m \in msgs
      BY <1>5, <2>3, <3>1 DEF ElectInv, VotesOnRecord
    <3>2. CASE m \in out
      <4>1. m.from = n /\ m.term = t.term /\ t.vote = m.to
        BY <1>3, <2>3, <3>2 DEF ElectionStep
      <4>2. m \in MsgType
        BY <3>2
      <4>3. m.to \in Node
        BY <2>3, <4>2 DEF MsgType
      <4>4. QED
        BY <1>6, <4>1, <4>3, NodeAssumption
    <3>3. QED
      BY <1>3, <3>1, <3>2
  <2>4. QED
    BY <2>1, <2>2, <2>3 DEF VotesOnRecord, Ballot
<1>15. LeadersElected'
  <2>1. ASSUME NEW p \in Node, node'[p].role = "Leader"
        PROVE  Cardinality(node'[p].votes) >= Majority
    <3>1. CASE p # n
      BY <1>4, <2>1, <3>1 DEF ElectInv, LeadersElected
    <3>2. CASE p = n
      BY <1>3, <1>4, <2>1, <3>2 DEF ElectionStep, ElectInv, LeadersElected
    <3>3. QED
      BY <3>1, <3>2
  <2>2. ASSUME NEW m \in msgs', m.type = "AppendEntries"
        PROVE  Elected(m.from, m.term)'
    <3>1. CASE m \in msgs
      <4>1. PICK Q \in SUBSET Node : /\ Cardinality(Q) >= Majority
                                     /\ \A v \in Q : Ballot(v, m.term, m.from) \in ballots
        BY <2>2, <3>1 DEF ElectInv, LeadersElected, Elected
      <4>2. \A v \in Q : Ballot(v, m.term, m.from) \in ballots'
        BY <1>5, <4>1
      <4>3. QED
        BY <4>1, <4>2 DEF Elected, Ballot
    <3>2. CASE m \in out
      <4>1. m.from = n /\ m.term = t.term /\ t.role = "Leader"
        BY <1>3, <2>2, <3>2 DEF ElectionStep
      <4>2. Cardinality(t.votes) >= Majority
        BY <1>4, <2>1, <4>1
      <4>3. \A v \in t.votes : Ballot(v, t.term, n) \in ballots'
        BY <1>4, <1>14, <4>1 DEF VotesOnRecord, Ballot
      <4>4. QED
        BY <1>4, <4>1, <4>2, <4>3 DEF Elected, Ballot
    <3>3. QED
      BY <1>3, <3>1, <3>2
  <2>3. QED
    BY <2>1, <2>2 DEF LeadersElected
<1>16. QED
  BY <1>12, <1>13, <1>14, <1>15 DEF ElectInv

\* Two majorities share a voter, and a voter has one ballot per term.
LEMMA OneElected ==
    ASSUME ElectInv, NEW c \in Node, NEW d \in Node, NEW t \in Nat,
           Elected(c, t), Elected(d, t)
    PROVE  c = d
<1>1. PICK P \in SUBSET Node : Cardinality(P) >= Majority /\ \A v \in P : Ballot(v, t, c) \in ballots
  BY DEF Elected
<1>2. PICK Q \in SUBSET Node : Cardinality(Q) >= Majority /\ \A v \in Q : Ballot(v, t, d) \in ballots
  BY DEF Elected
<1>3. IsFiniteSet(P) /\ IsFiniteSet(Q) /\ IsFiniteSet(Node)
  BY NodeAssumption, FS_Subset
<1>4. Cardinality(P) \in Nat /\ Cardinality(Q) \in Nat /\ Cardinality(Node) \in Nat
  BY <1>3, FS_CardinalityType
<1>5. Cardinality(P) + Cardinality(Q) > Cardinality(Node)
  BY <1>1, <1>2, <1>4, MajorityNat
<1>6. P \cap Q # {}
  BY <1>3, <1>5, FS_MajoritiesIntersect
<1>7. QED
  BY <1>1, <1>2, <1>6 DEF ElectInv, OneBallotPerTerm

LEMMA ElectInvSafe ==
    ASSUME Typed, ElectInv
    PROVE  ElectionSafety
<1>1. ASSUME NEW n1 \in Node, NEW n2 \in Node,
             node[n1].role = "Leader", node[n2].role = "Leader", node[n1].term = node[n2].term
      PROVE  n1 = n2
  <2>1. node[n1].term \in Nat
    BY DEF Typed, TypeOK, NodeType
  <2>2. Elected(n1, node[n1].term) /\ Elected(n2, node[n1].term)
    BY <1>1, LeaderElected
  <2>3. QED
    BY <2>1, <2>2, OneElected
<1>2. ASSUME NEW m1 \in msgs, NEW m2 \in msgs,
             m1.type = "AppendEntries", m2.type = "AppendEntries", m1.term = m2.term
      PROVE  m1.from = m2.from
  <2>1. m1 \in MsgType /\ m2 \in MsgType
    BY DEF Typed, TypeOK
  <2>2. m1.from \in Node /\ m2.from \in Node /\ m1.term \in Nat
    BY <1>2, <2>1 DEF MsgType
  <2>3. Elected(m1.from, m1.term) /\ Elected(m2.from, m1.term)
    BY <1>2 DEF ElectInv, LeadersElected
  <2>4. QED
    BY <2>2, <2>3, OneElected
<1>3. QED
  BY <1>1, <1>2 DEF ElectionSafety

\* At most one leader per term, whatever is lost, delayed or restarted, when
\* every vote is on disk before it is answered (RaftLog::open_durable).
THEOREM RaftElectionSafety ==
    ASSUME Durable = TRUE
    PROVE  Spec => []ElectionSafety
<1>1. ASSUME Typed, ElectInv, [Next]_vars
      PROVE  Typed' /\ ElectInv'
  <2> USE <1>1
  <2>1. Typed'
    BY TypedStep
  <2>2. CASE NodeStep
    BY <2>1, <2>2, NodeStepElect
  <2>3. CASE msgs' \subseteq msgs /\ UNCHANGED <<node, ballots>>
    BY <2>1, <2>3 DEF ElectInv, BallotsBind, VotesOnRecord, OneBallotPerTerm, LeadersElected,
                     Elected, Ballot
  <2>4. QED
    BY <2>1, <2>2, <2>3, StepCases
<1>2. Typed /\ ElectInv => ElectionSafety
  BY ElectInvSafe
<1>3. QED
  BY InitTyped, InitElect, <1>1, <1>2, PTL DEF Spec
=============================================================================
