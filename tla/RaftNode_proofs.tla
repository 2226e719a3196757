-------------------------- MODULE RaftNode_proofs --------------------------
(***************************************************************************)
(* Facts about the operators of RaftLog and RaftNode: they keep records    *)
(* and messages well formed, and what each does to a node's term, vote,    *)
(* role and set of votes.                                                  *)
(***************************************************************************)
EXTENDS RaftNode, SequenceTheorems, FiniteSetTheorems, WellFoundedInduction, TLAPS

-----------------------------------------------------------------------------
\* Extremal elements, for the CHOOSEs of the model.

LEMMA LeastElement ==
    ASSUME NEW T, T \subseteq Nat, T # {}
    PROVE  \E x \in T : \A y \in T : x <= y
<1>1. PICK x \in T : \A y \in T : ~(<<y, x>> \in OpToRel(<, Nat))
  BY NatLessThanWellFounded, WFMin
<1>2. ASSUME NEW y \in T PROVE x <= y
  <2>1. ~(y < x)
    BY <1>1 DEF OpToRel
  <2>2. QED
    BY <2>1
<1>3. QED
  BY <1>2

LEMMA GreatestElement ==
    ASSUME NEW b \in Nat, NEW T, T \subseteq 0 .. b, T # {}
    PROVE  \E x \in T : \A y \in T : y <= x
<1> DEFINE U == {b - x : x \in T}
<1>1. U \subseteq Nat /\ U # {}
  OBVIOUS
<1>2. PICK u \in U : \A v \in U : u <= v
  <2> HIDE DEF U
  <2>1. QED
    BY <1>1, LeastElement
<1>3. PICK x \in T : u = b - x
  BY <1>2
<1>4. ASSUME NEW y \in T PROVE y <= x
  <2>1. u <= b - y
    BY <1>2
  <2>2. QED
    BY <1>3, <2>1
<1>5. QED
  BY <1>4

-----------------------------------------------------------------------------
\* The log.

LEMMA LogFacts ==
    ASSUME NEW l \in LogType
    PROVE  /\ LastIndex(l) \in Nat /\ LastTerm(l) \in Nat
           /\ \A i \in Nat : TermAt(l, i) \in Nat
           /\ Len(l.entries) \in Nat
<1>1. /\ l.entries \in Seq(Entry) /\ Len(l.entries) \in Nat
      /\ l.snapIndex \in Nat /\ l.snapTerm \in Nat
  BY LenProperties DEF LogType
<1>2. \A k \in 1 .. Len(l.entries) : l.entries[k] \in Entry
  BY <1>1, ElementOfSeq
<1>3. l.entries # <<>> => l.entries[Len(l.entries)] \in Entry
  BY <1>1, <1>2, EmptySeq
<1>4. LastIndex(l) \in Nat /\ LastTerm(l) \in Nat
  BY <1>1, <1>3 DEF LastIndex, LastTerm, Entry
<1>5. \A i \in Nat : TermAt(l, i) \in Nat
  BY <1>1, <1>2 DEF TermAt, Pos, Entry
<1>6. QED
  BY <1>1, <1>4, <1>5

LEMMA SuffixType ==
    ASSUME NEW S, NEW s \in Seq(S), NEW m \in Nat \ {0}, NEW n \in Nat, n <= Len(s)
    PROVE  SubSeq(s, m, n) \in Seq(S)
<1>1. \A i \in m .. n : s[i] \in S
  BY ElementOfSeq, LenProperties
<1>2. QED
  BY <1>1, SubSeqProperties

LEMMA EntriesFromType ==
    ASSUME NEW l \in LogType, NEW from \in Nat
    PROVE  EntriesFrom(l, from) \in Seq(Entry)
<1>1. l.entries \in Seq(Entry) /\ Len(l.entries) \in Nat /\ l.snapIndex \in Nat
  BY LenProperties DEF LogType
<1>2. Monus(from, l.snapIndex + 1) + 1 \in Nat \ {0}
  BY <1>1 DEF Monus
<1>3. QED
  BY <1>1, <1>2, SuffixType DEF EntriesFrom

LEMMA AppendEntryType ==
    ASSUME NEW l \in LogType, NEW e \in Entry
    PROVE  AppendEntry(l, e) \in LogType
<1>1. Append(l.entries, e) \in Seq(Entry)
  BY AppendProperties DEF LogType
<1>2. QED
  BY <1>1 DEF AppendEntry, LogType

LEMMA CompactType ==
    ASSUME NEW l \in LogType, NEW upTo \in Nat
    PROVE  Compact(l, upTo) \in LogType
<1>1. l.entries \in Seq(Entry) /\ Len(l.entries) \in Nat /\ l.snapIndex \in Nat
  BY LenProperties DEF LogType
<1>2. CASE upTo <= l.snapIndex \/ upTo > LastIndex(l)
  BY <1>2 DEF Compact
<1>3. CASE ~(upTo <= l.snapIndex \/ upTo > LastIndex(l))
  <2>1. 1 + Least(upTo - l.snapIndex, Len(l.entries)) \in Nat \ {0}
    BY <1>1, <1>3 DEF Least
  <2>2. SubSeq(l.entries, 1 + Least(upTo - l.snapIndex, Len(l.entries)), Len(l.entries))
          \in Seq(Entry)
    BY <1>1, <2>1, SuffixType
  <2>3. TermAt(l, upTo) \in Nat
    BY LogFacts
  <2>4. QED
    BY <1>3, <2>2, <2>3 DEF Compact, LogType
<1>4. QED
  BY <1>2, <1>3

LEMMA MergeEntriesType ==
    ASSUME NEW l \in LogType, NEW es \in Seq(Entry)
    PROVE  MergeEntries(l, es) \in LogType
<1> DEFINE missing == {k \in 1 .. Len(es) : ~Holds(l, es[k])}
           first == CHOOSE k \in missing : \A j \in missing : k <= j
<1>1. /\ l.entries \in Seq(Entry) /\ Len(l.entries) \in Nat /\ l.snapIndex \in Nat
      /\ Len(es) \in Nat /\ \A k \in 1 .. Len(es) : es[k] \in Entry
  BY LenProperties, ElementOfSeq DEF LogType
<1>2. CASE missing = {}
  BY <1>2 DEF MergeEntries
<1>3. CASE missing # {}
  <2>1. missing \subseteq Nat
    BY <1>1
  <2>2. first \in missing
    <3> HIDE DEF missing
    <3>1. QED
      BY <1>3, <2>1, LeastElement
  <2> HIDE DEF first
  <2>3. first \in Nat \ {0} /\ es[first] \in Entry
    BY <1>1, <2>2
  <2> HIDE DEF missing
  <2>4. SubSeq(es, first, Len(es)) \in Seq(Entry)
    BY <1>1, <2>3, SuffixType
  <2>5. TruncateFrom(l, es[first].index).entries \in Seq(Entry)
    <3>1. Least(Monus(es[first].index, l.snapIndex + 1), Len(l.entries)) \in Nat
      BY <1>1, <2>3 DEF Least, Monus, Entry
    <3>2. SubSeq(l.entries, 1, Least(Monus(es[first].index, l.snapIndex + 1), Len(l.entries)))
            \in Seq(Entry)
      BY <1>1, <3>1, SuffixType DEF Least
    <3>3. QED
      BY <3>2 DEF TruncateFrom, LogType
  <2>6. TruncateFrom(l, es[first].index).entries \o SubSeq(es, first, Len(es)) \in Seq(Entry)
    BY <2>4, <2>5, ConcatProperties
  <2>7. MergeEntries(l, es) =
          [l EXCEPT !.entries = TruncateFrom(l, es[first].index).entries
                                  \o SubSeq(es, first, Len(es))]
    BY <1>3 DEF MergeEntries, missing, first
  <2>8. QED
    BY <2>6, <2>7 DEF LogType
<1>4. QED
  BY <1>2, <1>3

-----------------------------------------------------------------------------
\* The node.

\* next_index starts at 1 and is clamped there, so prev_log_index never underflows.
SoundNode(s) == s \in NodeType /\ \A p \in Node : s.next[p] >= 1

\* What one method call of node n, from record s to record t, may do to the
\* election state, `out' being what it sends and V the votes it counts.
ElectionStep(n, s, t, out, V) ==
    /\ SoundNode(t)
    /\ out \subseteq MsgType
    /\ t.term >= s.term
    /\ t.term = s.term /\ s.vote # None => t.vote = s.vote
    /\ t.role # "Follower" =>
          \/ t.term = s.term /\ s.role # "Follower" /\ t.votes \subseteq s.votes \cup V
          \/ t.votes = {n} /\ t.vote = n
    /\ t.role = "Leader" =>
          \/ Cardinality(t.votes) >= Majority
          \/ s.role = "Leader" /\ t.term = s.term /\ t.votes = s.votes
    /\ \A m \in out :
          /\ m.from = n /\ m.term = t.term
          /\ m.type = "RequestVoteResp" => (m.granted => t.vote = m.to)
          /\ m.type = "AppendEntries" => t.role = "Leader"

LEMMA MajorityNat == Majority \in Nat \ {0} /\ 2 * Majority > Cardinality(Node)
<1>1. Cardinality(Node) \in Nat
  BY NodeAssumption, FS_CardinalityType
<1>2. QED
  BY <1>1 DEF Majority

LEMMA SendAppendFacts ==
    ASSUME NEW s, SoundNode(s), NEW n \in Node, NEW p \in Node
    PROVE  /\ SendAppend(s, n, p) \in MsgType
           /\ SendAppend(s, n, p).type = "AppendEntries"
           /\ SendAppend(s, n, p).from = n
           /\ SendAppend(s, n, p).term = s.term
<1>1. s.log \in LogType /\ s.next[p] - 1 \in Nat /\ s.next[p] \in Nat
      /\ s.term \in Nat /\ s.commit \in Nat
  BY DEF SoundNode, NodeType
<1>2. TermAt(s.log, s.next[p] - 1) \in Nat /\ EntriesFrom(s.log, s.next[p]) \in Seq(Entry)
  BY <1>1, LogFacts, EntriesFromType
<1>3. QED
  BY <1>1, <1>2 DEF SendAppend, MsgType

LEMMA AdvanceCommitFacts ==
    ASSUME NEW s, SoundNode(s)
    PROVE  /\ SoundNode(AdvanceCommit(s))
           /\ \E c \in Nat : AdvanceCommit(s) = [s EXCEPT !.commit = c]
<1>1. s.log \in LogType /\ s.commit \in Nat /\ LastIndex(s.log) \in Nat
  BY LogFacts DEF SoundNode, NodeType
<1>2. CASE Committable(s) = {}
  <2>1. AdvanceCommit(s) = [s EXCEPT !.commit = s.commit]
    BY <1>2 DEF AdvanceCommit, SoundNode, NodeType
  <2>2. QED
    BY <1>1, <1>2, <2>1 DEF AdvanceCommit
<1>3. CASE Committable(s) # {}
  <2>1. Committable(s) \subseteq 0 .. LastIndex(s.log)
    BY <1>1 DEF Committable
  <2>2. \E i \in Committable(s) : \A j \in Committable(s) : j <= i
    BY <1>1, <1>3, <2>1, GreatestElement
  <2> DEFINE c == CHOOSE i \in Committable(s) : \A j \in Committable(s) : j <= i
  <2>3. c \in Nat
    BY <1>1, <2>1, <2>2
  <2>4. AdvanceCommit(s) = [s EXCEPT !.commit = c]
    BY <1>3 DEF AdvanceCommit
  <2> HIDE DEF c
  <2>5. QED
    BY <2>3, <2>4 DEF SoundNode, NodeType
<1>4. QED
  BY <1>2, <1>3

\* Winning changes neither term, vote nor votes; only a winner sends.
WinFacts(s, n, t, out) ==
    /\ SoundNode(t)
    /\ out \subseteq MsgType
    /\ t.term = s.term /\ t.vote = s.vote /\ t.votes = s.votes
    /\ \/ t.role = s.role /\ out = {}
       \/ /\ s.role = "Candidate" /\ t.role = "Leader"
          /\ Cardinality(s.votes) >= Majority
          /\ \A m \in out : m.type = "AppendEntries" /\ m.from = n /\ m.term = s.term

LEMMA MaybeBecomeLeaderFacts ==
    ASSUME NEW s, SoundNode(s), NEW n \in Node
    PROVE  WinFacts(s, n, MaybeBecomeLeader(s, n).st, MaybeBecomeLeader(s, n).out)
<1> USE DEF WinFacts
<1>1. CASE ~(s.role = "Candidate" /\ Cardinality(s.votes) >= Majority)
  BY <1>1 DEF MaybeBecomeLeader
<1>2. CASE s.role = "Candidate" /\ Cardinality(s.votes) >= Majority
  <2> DEFINE last == LastIndex(s.log)
             nx == [p \in Node |-> last + 1]
             mt == [p \in Node |-> IF p = n THEN last ELSE 0]
             lead == [s EXCEPT !.role = "Leader", !.leader = n, !.next = nx, !.match = mt]
  <2>1. last \in Nat
    BY LogFacts DEF SoundNode, NodeType
  <2>2. MaybeBecomeLeader(s, n) = [st |-> lead, out |-> BroadcastAppend(lead, n)]
    BY <1>2 DEF MaybeBecomeLeader
  <2>3. nx \in [Node -> Nat] /\ mt \in [Node -> Nat] /\ \A p \in Node : nx[p] >= 1
    <3> HIDE DEF last
    <3>1. QED
      BY <2>1
  <2> HIDE DEF nx, mt
  <2>3b. SoundNode(lead)
    BY <2>3 DEF SoundNode, NodeType, Role
  <2>4. /\ lead.term = s.term /\ lead.vote = s.vote /\ lead.votes = s.votes
        /\ lead.role = "Leader"
    BY DEF SoundNode, NodeType
  <2> HIDE DEF lead
  <2>5. \A m \in BroadcastAppend(lead, n) :
           /\ m \in MsgType
           /\ m.type = "AppendEntries" /\ m.from = n /\ m.term = s.term
    BY <2>3b, <2>4, SendAppendFacts DEF BroadcastAppend
  <2>6. QED
    BY <1>2, <2>2, <2>3b, <2>4, <2>5
<1>3. QED
  BY <1>1, <1>2

LEMMA StartElectionStep ==
    ASSUME NEW s, SoundNode(s), NEW n \in Node
    PROVE  /\ ElectionStep(n, s, StartElection(s, n).st, StartElection(s, n).out, {})
           /\ StartElection(s, n).st.vote = n
           /\ StartElection(s, n).st.term = s.term + 1
<1> DEFINE cand == [s EXCEPT !.term = @ + 1, !.role = "Candidate", !.vote = n,
                             !.leader = None, !.votes = {n}]
           t == MaybeBecomeLeader(cand, n).st
           won == MaybeBecomeLeader(cand, n).out
<1>0. s.term \in Nat /\ s.term + 1 \in Nat /\ {n} \in SUBSET Node /\ n \in Node \cup {None}
  BY DEF SoundNode, NodeType
<1>1. SoundNode(cand)
  BY <1>0 DEF SoundNode, NodeType, Role
<1>2. /\ cand.term = s.term + 1 /\ cand.vote = n /\ cand.votes = {n}
      /\ cand.role = "Candidate"
  BY DEF SoundNode, NodeType
<1>3. StartElection(s, n).st = t /\ StartElection(s, n).out = RequestVotes(cand, n) \cup won
  BY DEF StartElection
<1> HIDE DEF cand
<1>4. \A m \in RequestVotes(cand, n) :
         /\ m \in MsgType /\ m.type = "RequestVote" /\ m.from = n /\ m.term = s.term + 1
  <2>1. LastIndex(cand.log) \in Nat /\ LastTerm(cand.log) \in Nat /\ cand.term \in Nat
    BY <1>1, LogFacts DEF SoundNode, NodeType
  <2>2. QED
    BY <1>2, <2>1 DEF RequestVotes, MsgType
<1>5. WinFacts(cand, n, t, won)
  BY <1>1, MaybeBecomeLeaderFacts
<1> HIDE DEF t, won
<1>6. /\ SoundNode(t) /\ won \subseteq MsgType
      /\ t.term = s.term + 1 /\ t.vote = n /\ t.votes = {n}
      /\ (t.role = "Leader" => Cardinality(t.votes) >= Majority)
      /\ \A m \in won : /\ m.type = "AppendEntries" /\ m.from = n /\ m.term = t.term
                        /\ t.role = "Leader"
  BY <1>2, <1>5 DEF WinFacts
<1>7. /\ RequestVotes(cand, n) \cup won \subseteq MsgType
      /\ \A m \in RequestVotes(cand, n) \cup won :
            /\ m.from = n /\ m.term = t.term /\ m.type # "RequestVoteResp"
            /\ m.type = "AppendEntries" => t.role = "Leader"
  BY <1>4, <1>6
<1>8. QED
  BY <1>0, <1>3, <1>6, <1>7 DEF ElectionStep

LEMMA OnRequestVoteStep ==
    ASSUME NEW s, SoundNode(s), NEW n \in Node, NEW m \in MsgType,
           m.type = "RequestVote", m.term <= s.term
    PROVE  ElectionStep(n, s, OnRequestVote(s, n, m).st, OnRequestVote(s, n, m).out, {})
<1> DEFINE granted == m.term >= s.term /\ CanVote(s, m.from) /\ UpToDate(s, m)
           t == IF granted THEN [s EXCEPT !.vote = m.from] ELSE s
           resp == [type |-> "RequestVoteResp", from |-> n, to |-> m.from,
                    term |-> s.term, granted |-> granted]
<1>1. OnRequestVote(s, n, m) = [st |-> t, out |-> {resp}]
  BY DEF OnRequestVote
<1>2. m.from \in Node /\ s.term \in Nat
  BY DEF MsgType, SoundNode, NodeType
<1>3. granted \in BOOLEAN
  BY DEF CanVote, UpToDate
<1>4. granted => s.vote = None \/ s.vote = m.from
  BY DEF CanVote
<1> HIDE DEF granted
<1>5. resp \in MsgType
  BY <1>2, <1>3 DEF MsgType
<1>6. /\ SoundNode(t) /\ t.term = s.term /\ t.role = s.role /\ t.votes = s.votes
      /\ t.vote = IF granted THEN m.from ELSE s.vote
  BY <1>2 DEF SoundNode, NodeType
<1>7. /\ resp.type = "RequestVoteResp" /\ resp.from = n /\ resp.to = m.from
      /\ resp.term = s.term /\ resp.granted = granted
  OBVIOUS
<1> HIDE DEF t, resp
<1>8. QED
  BY <1>1, <1>2, <1>4, <1>5, <1>6, <1>7 DEF ElectionStep

\* The votes a message brings.
Brings(m) == IF m.type = "RequestVoteResp" /\ m.granted THEN {m.from} ELSE {}

LEMMA OnVoteRespStep ==
    ASSUME NEW s, SoundNode(s), NEW n \in Node, NEW m \in MsgType,
           m.type = "RequestVoteResp", m.term <= s.term
    PROVE  ElectionStep(n, s, OnVoteResp(s, n, m).st, OnVoteResp(s, n, m).out,
                        IF m.term = s.term THEN Brings(m) ELSE {})
<1>1. CASE ~(s.role = "Candidate" /\ m.term = s.term /\ m.granted)
  BY <1>1 DEF OnVoteResp, ElectionStep, SoundNode, NodeType
<1>2. CASE s.role = "Candidate" /\ m.term = s.term /\ m.granted
  <2> DEFINE c == [s EXCEPT !.votes = @ \cup {m.from}]
             t == MaybeBecomeLeader(c, n).st
             won == MaybeBecomeLeader(c, n).out
  <2>1. OnVoteResp(s, n, m).st = t /\ OnVoteResp(s, n, m).out = won
    BY <1>2 DEF OnVoteResp
  <2>2. m.from \in Node /\ s.term \in Nat
    BY DEF MsgType, SoundNode, NodeType
  <2>3. /\ SoundNode(c) /\ c.term = s.term /\ c.vote = s.vote /\ c.role = s.role
        /\ c.votes = s.votes \cup {m.from}
    BY <2>2 DEF SoundNode, NodeType
  <2> HIDE DEF c
  <2>4. WinFacts(c, n, t, won)
    BY <2>3, MaybeBecomeLeaderFacts
  <2> HIDE DEF t, won
  <2>5. QED
    BY <1>2, <2>1, <2>2, <2>3, <2>4 DEF WinFacts, ElectionStep, Brings
<1>3. QED
  BY <1>1, <1>2

\* A handler that only answers, at most stepping down.
LEMMA AnswerOnly ==
    ASSUME NEW n, NEW s, SoundNode(s), NEW t, SoundNode(t), NEW r \in MsgType,
           t.term = s.term, t.vote = s.vote, t.role = "Follower" \/ t = s,
           r.from = n, r.term = s.term, r.type = "AppendEntriesResp"
    PROVE  ElectionStep(n, s, t, {r}, {})
<1>1. s.term \in Nat
  BY DEF SoundNode, NodeType
<1>2. QED
  BY <1>1 DEF ElectionStep

LEMMA OnAppendStep ==
    ASSUME NEW s, SoundNode(s), NEW n \in Node, NEW m \in MsgType,
           m.type = "AppendEntries", m.term <= s.term
    PROVE  ElectionStep(n, s, OnAppend(s, n, m).st, OnAppend(s, n, m).out, {})
<1> DEFINE Resp(success, matchIndex) ==
              [type |-> "AppendEntriesResp", from |-> n, to |-> m.from, term |-> s.term,
               success |-> success, matchIndex |-> matchIndex]
           hd == [s EXCEPT !.role = "Follower", !.leader = m.from]
           log == MergeEntries(s.log, m.entries)
           lastNew == IF m.entries = <<>> THEN m.prevLogIndex
                      ELSE m.entries[Len(m.entries)].index
           done == [hd EXCEPT !.log = log, !.commit = FollowerCommit(s, m, log)]
<1>1. /\ m.from \in Node /\ m.term \in Nat /\ m.prevLogIndex \in Nat
      /\ m.entries \in Seq(Entry) /\ m.leaderCommit \in Nat /\ s.term \in Nat
      /\ s.log \in LogType /\ s.commit \in Nat
  BY DEF MsgType, SoundNode, NodeType
<1>2. log \in LogType /\ LastIndex(log) \in Nat
  BY <1>1, MergeEntriesType, LogFacts
<1>3. FollowerCommit(s, m, log) \in Nat
  BY <1>1, <1>2 DEF FollowerCommit, Least
<1>4. lastNew \in Nat /\ Greatest(lastNew, m.prevLogIndex) \in Nat
  <2>1. m.entries # <<>> => m.entries[Len(m.entries)] \in Entry
    BY <1>1, EmptySeq, LenProperties, ElementOfSeq
  <2>2. lastNew \in Nat
    BY <1>1, <2>1 DEF Entry
  <2> HIDE DEF lastNew
  <2>3. QED
    BY <1>1, <2>2 DEF Greatest
<1>5. ASSUME NEW ok \in BOOLEAN, NEW i \in Nat
      PROVE  /\ Resp(ok, i) \in MsgType /\ Resp(ok, i).from = n
             /\ Resp(ok, i).term = s.term /\ Resp(ok, i).type = "AppendEntriesResp"
  BY <1>1 DEF MsgType
<1>6. /\ SoundNode(hd) /\ hd.term = s.term /\ hd.vote = s.vote
      /\ hd.role = "Follower"
  BY <1>1 DEF SoundNode, NodeType, Role
<1> HIDE DEF hd, log, lastNew
<1>7. /\ SoundNode(done) /\ done.term = s.term /\ done.vote = s.vote
      /\ done.role = "Follower"
  BY <1>2, <1>3, <1>6 DEF SoundNode, NodeType
<1> DEFINE r == OnAppend(s, n, m)
<1>8. \/ r.st = s /\ r.out = {Resp(FALSE, 0)}
      \/ r.st = hd /\ r.out = {Resp(FALSE, 0)}
      \/ r.st = done /\ r.out = {Resp(TRUE, Greatest(lastNew, m.prevLogIndex))}
  BY DEF OnAppend, hd, log, lastNew
<1> HIDE DEF Resp, done
<1>9. ElectionStep(n, s, s, {Resp(FALSE, 0)}, {})
  BY <1>5, AnswerOnly
<1>10. ElectionStep(n, s, hd, {Resp(FALSE, 0)}, {})
  BY <1>5, <1>6, AnswerOnly
<1>11. ElectionStep(n, s, done, {Resp(TRUE, Greatest(lastNew, m.prevLogIndex))}, {})
  BY <1>4, <1>5, <1>7, AnswerOnly
<1>12. QED
  BY <1>8, <1>9, <1>10, <1>11

LEMMA OnAppendRespStep ==
    ASSUME NEW s, SoundNode(s), NEW n \in Node, NEW m \in MsgType,
           m.type = "AppendEntriesResp", m.term <= s.term
    PROVE  ElectionStep(n, s, OnAppendResp(s, n, m).st, OnAppendResp(s, n, m).out, {})
<1> DEFINE acked == Greatest(s.match[m.from], m.matchIndex)
           more == [s EXCEPT !.match[m.from] = acked, !.next[m.from] = acked + 1]
           behind == [s EXCEPT !.next[m.from] = Greatest(Monus(@, 1), 1)]
<1>1. /\ m.from \in Node /\ m.matchIndex \in Nat /\ s.term \in Nat
      /\ s.match \in [Node -> Nat] /\ s.next \in [Node -> Nat]
  BY DEF MsgType, SoundNode, NodeType
<1>2. CASE s.role # "Leader" \/ m.term # s.term
  BY <1>1, <1>2 DEF OnAppendResp, ElectionStep
<1>3. CASE s.role = "Leader" /\ m.term = s.term /\ m.success
  <2>1. acked \in Nat
    BY <1>1 DEF Greatest
  <2>2. /\ SoundNode(more) /\ more.term = s.term /\ more.vote = s.vote
        /\ more.role = s.role /\ more.votes = s.votes
    <3> HIDE DEF acked
    <3>1. /\ [s.match EXCEPT ![m.from] = acked] \in [Node -> Nat]
          /\ [s.next EXCEPT ![m.from] = acked + 1] \in [Node -> Nat]
          /\ \A p \in Node : [s.next EXCEPT ![m.from] = acked + 1][p] >= 1
      BY <1>1, <2>1 DEF SoundNode
    <3>2. QED
      BY <3>1 DEF SoundNode, NodeType
  <2>3. OnAppendResp(s, n, m) = [st |-> AdvanceCommit(more), out |-> {}]
    BY <1>3 DEF OnAppendResp
  <2> HIDE DEF more
  <2>4. PICK c \in Nat : AdvanceCommit(more) = [more EXCEPT !.commit = c]
    BY <2>2, AdvanceCommitFacts
  <2>5. /\ SoundNode(AdvanceCommit(more)) /\ AdvanceCommit(more).term = s.term
        /\ AdvanceCommit(more).vote = s.vote
        /\ AdvanceCommit(more).role = s.role /\ AdvanceCommit(more).votes = s.votes
    BY <2>2, <2>4 DEF SoundNode, NodeType
  <2>6. QED
    BY <1>1, <2>3, <2>5 DEF ElectionStep
<1>4. CASE s.role = "Leader" /\ m.term = s.term /\ ~m.success
  <2>1. Greatest(Monus(s.next[m.from], 1), 1) \in Nat \ {0}
    BY <1>1 DEF Greatest, Monus
  <2>2. /\ SoundNode(behind) /\ behind.term = s.term /\ behind.vote = s.vote
        /\ behind.role = s.role /\ behind.votes = s.votes
    <3>1. /\ [s.next EXCEPT ![m.from] = Greatest(Monus(@, 1), 1)] \in [Node -> Nat]
          /\ \A p \in Node : [s.next EXCEPT ![m.from] = Greatest(Monus(@, 1), 1)][p] >= 1
      BY <1>1, <2>1 DEF SoundNode
    <3>2. QED
      BY <3>1 DEF SoundNode, NodeType
  <2>3. OnAppendResp(s, n, m) = [st |-> behind, out |-> {SendAppend(behind, n, m.from)}]
    BY <1>4 DEF OnAppendResp
  <2> HIDE DEF behind
  <2>4. /\ SendAppend(behind, n, m.from) \in MsgType
        /\ SendAppend(behind, n, m.from).type = "AppendEntries"
        /\ SendAppend(behind, n, m.from).from = n
        /\ SendAppend(behind, n, m.from).term = s.term
    BY <1>1, <2>2, SendAppendFacts
  <2>5. QED
    BY <1>1, <1>4, <2>2, <2>3, <2>4 DEF ElectionStep
<1>5. QED
  BY <1>2, <1>3, <1>4

\* What RaftNode::step may do to the election state.
LEMMA StepElection ==
    ASSUME NEW s, SoundNode(s), NEW n \in Node, NEW m \in MsgType
    PROVE  ElectionStep(n, s, Step(s, n, m).st, Step(s, n, m).out,
                        IF m.term = Step(s, n, m).st.term THEN Brings(m) ELSE {})
<1> DEFINE s1 == IF m.term > s.term THEN BecomeFollower(s, m.term) ELSE s
           t == Step(s, n, m).st
           out == Step(s, n, m).out
           V == IF m.term = s1.term THEN Brings(m) ELSE {}
<1>1. m.term \in Nat /\ s.term \in Nat
  BY DEF MsgType, SoundNode, NodeType
<1>2. /\ SoundNode(s1) /\ m.term <= s1.term /\ s1.term \in Nat
      /\ \/ s1 = s
         \/ s1.term > s.term /\ s1.role = "Follower"
  <2>1. CASE m.term > s.term
    <3>1. s1 = [s EXCEPT !.term = m.term, !.vote = None, !.role = "Follower",
                         !.leader = None]
      BY <2>1 DEF BecomeFollower
    <3>2. SoundNode(s1) /\ s1.term = m.term /\ s1.role = "Follower"
      BY <1>1, <3>1 DEF SoundNode, NodeType, Role
    <3>3. QED
      BY <1>1, <2>1, <3>2
  <2>2. CASE ~(m.term > s.term)
    BY <1>1, <2>2
  <2>3. QED
    BY <2>1, <2>2
<1>3. \/ m.type = "RequestVote" /\ Step(s, n, m) = OnRequestVote(s1, n, m)
      \/ m.type = "RequestVoteResp" /\ Step(s, n, m) = OnVoteResp(s1, n, m)
      \/ m.type = "AppendEntries" /\ Step(s, n, m) = OnAppend(s1, n, m)
      \/ m.type = "AppendEntriesResp" /\ Step(s, n, m) = OnAppendResp(s1, n, m)
  <2>1. m.type \in {"RequestVote", "RequestVoteResp", "AppendEntries", "AppendEntriesResp"}
    BY DEF MsgType
  <2>2. QED
    BY <2>1 DEF Step
<1> HIDE DEF s1
<1>4. m.type # "RequestVoteResp" => V = {}
  BY DEF Brings
<1>5. ElectionStep(n, s1, t, out, V)
  BY <1>2, <1>3, <1>4, OnRequestVoteStep, OnVoteRespStep, OnAppendStep, OnAppendRespStep
<1>6. t.term \in Nat
  BY <1>5 DEF ElectionStep, SoundNode, NodeType
<1> HIDE DEF t, out
<1>7. ElectionStep(n, s, t, out, IF m.term = t.term THEN Brings(m) ELSE {})
  <2>1. CASE s1 = s
    BY <1>5, <2>1 DEF ElectionStep
  <2>2. CASE s1.term > s.term /\ s1.role = "Follower"
    BY <1>1, <1>2, <1>5, <1>6, <2>2 DEF ElectionStep
  <2>3. QED
    BY <1>2, <2>1, <2>2
<1>8. QED
  BY <1>7 DEF t, out

\* The remaining operations leave the election state alone.
Quiet(s, t) ==
    /\ SoundNode(t)
    /\ t.term = s.term /\ t.vote = s.vote /\ t.role = s.role /\ t.votes = s.votes

LEMMA ProposeQuiet ==
    ASSUME NEW s, SoundNode(s), NEW n \in Node, NEW command \in Command
    PROVE  Quiet(s, Propose(s, n, command))
<1> DEFINE index == LastIndex(s.log) + 1
           e == [term |-> s.term, index |-> index, command |-> command]
           a == [s EXCEPT !.log = AppendEntry(@, e), !.match[n] = index]
<1>0. s.log \in LogType /\ s.match \in [Node -> Nat] /\ s.term \in Nat
  BY DEF SoundNode, NodeType
<1>1. s.log \in LogType /\ index \in Nat /\ s.match \in [Node -> Nat] /\ s.term \in Nat
  <2>1. LastIndex(s.log) \in Nat
    BY <1>0, LogFacts
  <2>2. QED
    BY <1>0, <2>1
<1>2. e \in Entry
  <2> HIDE DEF index
  <2>1. QED
    BY <1>1 DEF Entry
<1>3. Propose(s, n, command) = AdvanceCommit(a)
  BY DEF Propose
<1> HIDE DEF index, e
<1>4. AppendEntry(s.log, e) \in LogType /\ [s.match EXCEPT ![n] = index] \in [Node -> Nat]
  BY <1>1, <1>2, AppendEntryType
<1>5. Quiet(s, a)
  BY <1>4 DEF Quiet, SoundNode, NodeType
<1> HIDE DEF a
<1>6. PICK c \in Nat : AdvanceCommit(a) = [a EXCEPT !.commit = c]
  BY <1>5, AdvanceCommitFacts DEF Quiet
<1>7. QED
  BY <1>3, <1>5, <1>6 DEF Quiet, SoundNode, NodeType

LEMMA TakeCommittedQuiet ==
    ASSUME NEW s, SoundNode(s)
    PROVE  Quiet(s, TakeCommitted(s))
<1>1. Greatest(s.applied, s.commit) \in Nat
  BY DEF Greatest, SoundNode, NodeType
<1>2. QED
  BY <1>1 DEF TakeCommitted, Quiet, SoundNode, NodeType

LEMMA MaybeCompactQuiet ==
    ASSUME NEW s, SoundNode(s), NEW keep
    PROVE  Quiet(s, MaybeCompact(s, keep))
<1>1. SafeCompactIndex(s) \in Nat
  <2> DEFINE floors == {s.match[p] : p \in Node}
             f == CHOOSE x \in floors : \A y \in floors : x <= y
  <2>1. s.applied \in Nat /\ floors \subseteq Nat /\ floors # {}
    BY NodeAssumption DEF SoundNode, NodeType
  <2>2. f \in Nat
    <3> HIDE DEF floors
    <3>1. QED
      BY <2>1, LeastElement
  <2>3. SafeCompactIndex(s) = IF s.role = "Leader" THEN Least(f, s.applied) ELSE s.applied
    BY DEF SafeCompactIndex
  <2> HIDE DEF f
  <2>4. QED
    BY <2>1, <2>2, <2>3 DEF Least
<1>2. Compact(s.log, SafeCompactIndex(s)) \in LogType
  BY <1>1, CompactType DEF SoundNode, NodeType
<1>3. QED
  BY <1>2 DEF MaybeCompact, Quiet, SoundNode, NodeType

\* A function on 1 .. n is a sequence.
LEMMA FunctionIsSeq ==
    ASSUME NEW S, NEW n \in Nat, NEW f \in [1 .. n -> S]
    PROVE  f \in Seq(S)
BY SeqDef

\* What take_committed hands out is a sequence of indices and commands.
LEMMA CommittedType ==
    ASSUME NEW s, SoundNode(s)
    PROVE  Committed(s) \in Seq([index : Nat, command : Command])
<1> DEFINE S == [index : Nat, command : Command]
           first == Greatest(s.applied, s.log.snapIndex) + 1
           last == Least(s.commit, s.log.snapIndex + Len(s.log.entries))
           len == Monus(last + 1, first)
           c(k) == [index   |-> first + (k - 1),
                    command |-> s.log.entries[first + (k - 1) - s.log.snapIndex].command]
<1>1. /\ s.log.entries \in Seq(Entry) /\ Len(s.log.entries) \in Nat
      /\ s.log.snapIndex \in Nat /\ s.applied \in Nat /\ s.commit \in Nat
  BY LenProperties DEF SoundNode, NodeType, LogType
<1>2. /\ first \in Nat /\ last \in Nat
      /\ first > s.log.snapIndex /\ last <= s.log.snapIndex + Len(s.log.entries)
  <2>1. \A a, b \in Nat : /\ Greatest(a, b) \in Nat /\ Greatest(a, b) >= b
                          /\ Least(a, b) \in Nat /\ Least(a, b) <= b
    BY DEF Greatest, Least
  <2>2. s.log.snapIndex + Len(s.log.entries) \in Nat
    BY <1>1
  <2>3. last \in Nat /\ last <= s.log.snapIndex + Len(s.log.entries)
    BY <1>1, <2>1, <2>2
  <2>4. first \in Nat /\ first > s.log.snapIndex
    <3> DEFINE g == Greatest(s.applied, s.log.snapIndex)
    <3>1. g \in Nat /\ g >= s.log.snapIndex
      BY <1>1, <2>1
    <3> HIDE DEF g
    <3>2. g + 1 \in Nat /\ g + 1 > s.log.snapIndex
      BY <1>1, <3>1
    <3>3. QED
      BY <3>2 DEF g
  <2>5. QED
    BY <2>3, <2>4
<1>3. Committed(s) = [k \in 1 .. len |-> c(k)]
  BY DEF Committed
<1> HIDE DEF first, last
<1>4. len \in Nat /\ \A k \in 1 .. len : first + (k - 1) <= last
  BY <1>2 DEF Monus
<1> HIDE DEF len
<1>5. ASSUME NEW k \in 1 .. len PROVE c(k) \in S
  <2>1. first + (k - 1) \in Nat
        /\ first + (k - 1) - s.log.snapIndex \in 1 .. Len(s.log.entries)
    <3>1. k \in Nat /\ k >= 1 /\ first + (k - 1) <= last
      BY <1>4
    <3> DEFINE sn == s.log.snapIndex
               ln == Len(s.log.entries)
    <3>2. sn \in Nat /\ ln \in Nat /\ first \in Nat /\ last \in Nat
          /\ first > sn /\ last <= sn + ln
      BY <1>1, <1>2
    <3> HIDE DEF sn, ln
    <3>3. first + (k - 1) \in Nat /\ first + (k - 1) - sn \in 1 .. ln
      BY <3>1, <3>2
    <3>4. QED
      BY <3>3 DEF sn, ln
  <2>2. s.log.entries[first + (k - 1) - s.log.snapIndex] \in Entry
    BY <1>1, <2>1, ElementOfSeq
  <2>3. QED
    BY <2>1, <2>2 DEF Entry
<1> HIDE DEF c
<1>6. Committed(s) \in [1 .. len -> S]
  BY <1>3, <1>5
<1> HIDE DEF S
<1>7. Committed(s) \in Seq(S)
  BY <1>6, <1>4, FunctionIsSeq
<1>8. QED
  BY <1>7 DEF S
=============================================================================
