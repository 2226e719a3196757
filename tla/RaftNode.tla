------------------------------ MODULE RaftNode ------------------------------
(***************************************************************************)
(* One Raft node, crates/raft/src/lib.rs.  The node is a record; each      *)
(* method is an operator from the record (and its argument) to the next    *)
(* record and the messages it pushes to `out'.  The tick timers (elapsed,  *)
(* election_timeout, the read lease) are abstracted: a cluster that uses   *)
(* this module lets any tick of a leader be a heartbeat and any tick of    *)
(* another node an election.  RaftLease models the timers themselves.      *)
(***************************************************************************)
EXTENDS RaftLog, FiniteSets

CONSTANTS Node, None

ASSUME NodeAssumption == IsFiniteSet(Node) /\ Node # {} /\ None \notin Node

Role == {"Follower", "Candidate", "Leader"}

NodeType ==
    [role : Role, term : Nat, vote : Node \cup {None}, log : LogType,
     commit : Nat, applied : Nat, leader : Node \cup {None},
     votes : SUBSET Node, next : [Node -> Nat], match : [Node -> Nat]]

MsgType ==
    [type : {"RequestVote"}, from : Node, to : Node, term : Nat,
       lastLogIndex : Nat, lastLogTerm : Nat]
    \cup
    [type : {"RequestVoteResp"}, from : Node, to : Node, term : Nat, granted : BOOLEAN]
    \cup
    [type : {"AppendEntries"}, from : Node, to : Node, term : Nat, prevLogIndex : Nat,
       prevLogTerm : Nat, entries : Seq(Entry), leaderCommit : Nat]
    \cup
    [type : {"AppendEntriesResp"}, from : Node, to : Node, term : Nat,
       success : BOOLEAN, matchIndex : Nat]

\* RaftNode::new over a log opened with its persisted term and vote.
NewNode(log, term, vote) ==
    [role |-> "Follower", term |-> term, vote |-> vote, log |-> log,
     commit |-> 0, applied |-> 0, leader |-> None, votes |-> {},
     next |-> [p \in Node |-> 1], match |-> [p \in Node |-> 0]]

Majority == Cardinality(Node) \div 2 + 1

BecomeFollower(s, term) ==
    [s EXCEPT !.term = term, !.vote = None, !.role = "Follower", !.leader = None]

SendAppend(s, n, peer) ==
    [type |-> "AppendEntries", from |-> n, to |-> peer, term |-> s.term,
     prevLogIndex |-> s.next[peer] - 1,
     prevLogTerm  |-> TermAt(s.log, s.next[peer] - 1),
     entries      |-> EntriesFrom(s.log, s.next[peer]),
     leaderCommit |-> s.commit]

BroadcastAppend(s, n) == {SendAppend(s, n, p) : p \in Node \ {n}}

\* Mutant of Committable: entries of earlier terms commit by counting replicas.
CommittableAnyTerm(s) ==
    {i \in s.commit + 1 .. LastIndex(s.log) :
        Cardinality({p \in Node : s.match[p] >= i}) >= Majority}

\* Indices the leader may commit: current-term entries on a majority.
Committable(s) ==
    {i \in s.commit + 1 .. LastIndex(s.log) :
        /\ TermAt(s.log, i) = s.term
        /\ Cardinality({p \in Node : s.match[p] >= i}) >= Majority}

AdvanceCommit(s) ==
    IF Committable(s) = {} THEN s
    ELSE [s EXCEPT !.commit =
            CHOOSE i \in Committable(s) : \A j \in Committable(s) : j <= i]

Propose(s, n, command) ==
    LET index == LastIndex(s.log) + 1
    IN  AdvanceCommit(
          [s EXCEPT !.log = AppendEntry(@, [term |-> s.term, index |-> index,
                                            command |-> command]),
                    !.match[n] = index])

MaybeBecomeLeader(s, n) ==
    IF s.role = "Candidate" /\ Cardinality(s.votes) >= Majority
    THEN LET last == LastIndex(s.log)
             lead == [s EXCEPT !.role = "Leader", !.leader = n,
                               !.next = [p \in Node |-> last + 1],
                               !.match = [p \in Node |-> IF p = n THEN last ELSE 0]]
         IN  [st |-> lead, out |-> BroadcastAppend(lead, n)]
    ELSE [st |-> s, out |-> {}]

RequestVotes(s, n) ==
    {[type |-> "RequestVote", from |-> n, to |-> p, term |-> s.term,
      lastLogIndex |-> LastIndex(s.log), lastLogTerm |-> LastTerm(s.log)]
        : p \in Node \ {n}}

StartElection(s, n) ==
    LET cand == [s EXCEPT !.term = @ + 1, !.role = "Candidate", !.vote = n,
                          !.leader = None, !.votes = {n}]
        led == MaybeBecomeLeader(cand, n)
    IN  [st |-> led.st, out |-> RequestVotes(cand, n) \cup led.out]

\* Mutant of CanVote: an earlier vote of the term is forgotten.
CanVoteTwice(s, candidate) == TRUE

CanVote(s, candidate) == s.vote = None \/ s.vote = candidate

\* Mutant of UpToDate: a candidate's log is not compared with the voter's.
AnyLogWillDo(s, m) == TRUE

UpToDate(s, m) ==
    \/ m.lastLogTerm > LastTerm(s.log)
    \/ m.lastLogTerm = LastTerm(s.log) /\ m.lastLogIndex >= LastIndex(s.log)

OnRequestVote(s, n, m) ==
    LET granted == m.term >= s.term /\ CanVote(s, m.from) /\ UpToDate(s, m)
    IN  [st  |-> IF granted THEN [s EXCEPT !.vote = m.from] ELSE s,
         out |-> {[type |-> "RequestVoteResp", from |-> n, to |-> m.from,
                   term |-> s.term, granted |-> granted]}]

OnVoteResp(s, n, m) ==
    IF s.role = "Candidate" /\ m.term = s.term /\ m.granted
    THEN MaybeBecomeLeader([s EXCEPT !.votes = @ \cup {m.from}], n)
    ELSE [st |-> s, out |-> {}]

\* Mutant of PrevMatches: the preceding entry is not compared.
PrevUnchecked(s, m) == TRUE

PrevMatches(s, m) ==
    \/ m.prevLogIndex = 0
    \/ m.prevLogIndex <= s.log.snapIndex
    \/ TermAt(s.log, m.prevLogIndex) = m.prevLogTerm


\* commit_index after a successful append: the log's own last index caps it.
FollowerCommit(s, m, log) ==
    IF m.leaderCommit > s.commit THEN Least(m.leaderCommit, LastIndex(log)) ELSE s.commit

OnAppend(s, n, m) ==
    LET Resp(success, matchIndex) ==
            {[type |-> "AppendEntriesResp", from |-> n, to |-> m.from, term |-> s.term,
              success |-> success, matchIndex |-> matchIndex]}
        heard == [s EXCEPT !.role = "Follower", !.leader = m.from]
        log == MergeEntries(s.log, m.entries)
        lastNew == IF m.entries = <<>> THEN m.prevLogIndex
                   ELSE m.entries[Len(m.entries)].index
    IN  IF m.term < s.term THEN [st |-> s, out |-> Resp(FALSE, 0)]
        ELSE IF ~PrevMatches(s, m) THEN [st |-> heard, out |-> Resp(FALSE, 0)]
        ELSE [st  |-> [heard EXCEPT !.log = log, !.commit = FollowerCommit(s, m, log)],
              out |-> Resp(TRUE, Greatest(lastNew, m.prevLogIndex))]

\* Mutant of OnAppendResp: a refusal is retried from the same index.
RetrySameIndex(s, n, m) ==
    LET acked == Greatest(s.match[m.from], m.matchIndex)
    IN  IF s.role # "Leader" \/ m.term # s.term THEN [st |-> s, out |-> {}]
        ELSE IF m.success
        THEN [st  |-> AdvanceCommit([s EXCEPT !.match[m.from] = acked,
                                              !.next[m.from] = acked + 1]),
              out |-> {}]
        ELSE [st |-> s, out |-> {SendAppend(s, n, m.from)}]

OnAppendResp(s, n, m) ==
    LET acked == Greatest(s.match[m.from], m.matchIndex)
        behind == [s EXCEPT !.next[m.from] = Greatest(Monus(@, 1), 1)]
    IN  IF s.role # "Leader" \/ m.term # s.term THEN [st |-> s, out |-> {}]
        ELSE IF m.success
        THEN [st  |-> AdvanceCommit([s EXCEPT !.match[m.from] = acked,
                                              !.next[m.from] = acked + 1]),
              out |-> {}]
        ELSE [st |-> behind, out |-> {SendAppend(behind, n, m.from)}]

\* RaftNode::step
Step(s, n, m) ==
    LET s1 == IF m.term > s.term THEN BecomeFollower(s, m.term) ELSE s
    IN  CASE m.type = "RequestVote"       -> OnRequestVote(s1, n, m)
          [] m.type = "RequestVoteResp"   -> OnVoteResp(s1, n, m)
          [] m.type = "AppendEntries"     -> OnAppend(s1, n, m)
          [] m.type = "AppendEntriesResp" -> OnAppendResp(s1, n, m)

\* take_committed: the commands handed to the state machine, in index order; an
\* index that is not a live entry is passed over without a command.
Committed(s) ==
    LET first == Greatest(s.applied, s.log.snapIndex) + 1
        last == Least(s.commit, s.log.snapIndex + Len(s.log.entries))
    IN  [k \in 1 .. Monus(last + 1, first) |->
            [index   |-> first + (k - 1),
             command |-> s.log.entries[first + (k - 1) - s.log.snapIndex].command]]

TakeCommitted(s) == [s EXCEPT !.applied = Greatest(@, s.commit)]

SafeCompactIndex(s) ==
    IF s.role = "Leader"
    THEN LET floors == {s.match[p] : p \in Node}
         IN  Least(CHOOSE f \in floors : \A g \in floors : f <= g, s.applied)
    ELSE s.applied

MaybeCompact(s, keep) ==
    IF Len(s.log.entries) <= keep THEN s
    ELSE [s EXCEPT !.log = Compact(@, SafeCompactIndex(s))]
=============================================================================
