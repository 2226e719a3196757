---------------------------- MODULE RaftCluster ----------------------------
(***************************************************************************)
(* A group of Raft nodes exchanging messages, each driven as CpGroup       *)
(* (crates/raft/src/cp.rs) drives its RaftNode: every step() and tick() is *)
(* followed by take_committed(), tick() also by maybe_compact().           *)
(*                                                                         *)
(* `msgs' is the set of messages in flight.  Any of them may be delivered  *)
(* next (late, out of order) or lost: the member transport drops messages  *)
(* to unreachable peers and reconnects.                                    *)
(***************************************************************************)
EXTENDS RaftNode

CONSTANTS
    Keep,          \* COMPACT_KEEP: live entries retained before compaction
    Durable,       \* the log is RaftLog::open_durable (TRUE) or ::new (FALSE)
    MaxElections,  \* bound: elections started in the whole group
    MaxLog,        \* bound: last index a leader appends at
    MaxRestarts,   \* bound: process restarts in the whole group
    MaxInFlight,   \* bound: messages in flight
    MaxEvents      \* bound: elections, restarts and commands together

ASSUME ClusterAssumption ==
    /\ Keep \in Nat /\ MaxElections \in Nat /\ MaxLog \in Nat /\ MaxRestarts \in Nat
    /\ MaxInFlight \in Nat /\ MaxEvents \in Nat
    /\ Durable \in BOOLEAN

VARIABLES
    node,      \* the RaftNode record of each member
    msgs,      \* the messages in flight
    sm,        \* the commands each member has handed to its state machine
    proposed,  \* the commands clients have proposed (each is distinct)
    ballots,   \* history: every vote ever persisted
    elections, \* number of elections started so far
    restarts   \* number of restarts so far

vars == <<node, msgs, sm, proposed, ballots, elections, restarts>>

Init ==
    /\ node = [n \in Node |-> NewNode(EmptyLog, 0, None)]
    /\ msgs = {}
    /\ sm = [n \in Node |-> <<>>]
    /\ proposed = {}
    /\ ballots = {}
    /\ elections = 0
    /\ restarts = 0

EventLeft == elections + restarts + Cardinality(proposed) < MaxEvents

\* apply_committed: the state machine of n receives what s has newly committed.
Apply(n, s) == sm' = [sm EXCEPT ![n] = @ \o Committed(s)]

\* persist_term_vote: the vote member n holds in its new state is on record.
Persisted(n, s) ==
    ballots' = ballots \cup
        (IF s.vote = None THEN {}
         ELSE {[voter |-> n, term |-> s.term, candidate |-> s.vote]})

\* The messages `out' leave, `gone' have arrived or are lost.
Transmit(out, gone) ==
    /\ msgs' = (msgs \ gone) \cup out
    /\ Cardinality(msgs') <= MaxInFlight

\* The end of CpGroup::tick; compact() leaves a durable log alone.
EndTick(s) ==
    IF Durable THEN TakeCommitted(s) ELSE MaybeCompact(TakeCommitted(s), Keep)

\* A leader's tick that finds the heartbeat period elapsed.
LeaderTick(n) ==
    /\ node[n].role = "Leader"
    /\ node' = [node EXCEPT ![n] = EndTick(@)]
    /\ Apply(n, node[n])
    /\ Transmit(BroadcastAppend(node[n], n), {})
    /\ UNCHANGED <<proposed, ballots, elections, restarts>>

\* A follower's or candidate's tick that finds the election timeout elapsed.
ElectionTick(n) ==
    LET r == StartElection(node[n], n)
    IN  /\ node[n].role # "Leader"
        /\ elections < MaxElections /\ EventLeft
        /\ elections' = elections + 1
        /\ node' = [node EXCEPT ![n] = EndTick(r.st)]
        /\ Apply(n, r.st)
        /\ Persisted(n, r.st)
        /\ Transmit(r.out, {})
        /\ UNCHANGED <<proposed, restarts>>

\* A follower's or candidate's tick before its timeout: only housekeeping is left.
IdleTick(n) ==
    /\ node[n].role # "Leader"
    /\ node' = [node EXCEPT ![n] = EndTick(@)]
    /\ node' # node
    /\ Apply(n, node[n])
    /\ UNCHANGED <<msgs, proposed, ballots, elections, restarts>>

\* A client command reaches the leader.
ClientPropose(n, command) ==
    /\ node[n].role = "Leader"
    /\ LastIndex(node[n].log) < MaxLog /\ EventLeft
    /\ command \notin proposed
    /\ proposed' = proposed \cup {command}
    /\ node' = [node EXCEPT ![n] = Propose(@, n, command)]
    /\ UNCHANGED <<msgs, sm, ballots, elections, restarts>>

Deliver(m) ==
    LET r == Step(node[m.to], m.to, m)
    IN  /\ node' = [node EXCEPT ![m.to] = TakeCommitted(r.st)]
        /\ Apply(m.to, r.st)
        /\ Persisted(m.to, r.st)
        /\ Transmit(r.out, {m})
        /\ UNCHANGED <<proposed, elections, restarts>>

Lose(m) ==
    /\ Transmit({}, {m})
    /\ UNCHANGED <<node, sm, proposed, ballots, elections, restarts>>

\* Mutant of Restart: the vote is not restored.
RestartForgetsVote(n) ==
    /\ restarts < MaxRestarts /\ EventLeft
    /\ restarts' = restarts + 1
    /\ node' = [node EXCEPT ![n] = NewNode(@.log, @.term, None)]
    /\ sm' = [sm EXCEPT ![n] = <<>>]
    /\ UNCHANGED <<msgs, proposed, ballots, elections>>

\* The process dies and comes back.  A durable log restores term, vote and
\* entries (each was fsynced before the handler answered); a memory log is lost,
\* and with it everything.  The state machine is rebuilt from the log.
Restart(n) ==
    /\ restarts < MaxRestarts /\ EventLeft
    /\ restarts' = restarts + 1
    /\ node' = [node EXCEPT ![n] = IF Durable THEN NewNode(@.log, @.term, @.vote)
                                              ELSE NewNode(EmptyLog, 0, None)]
    /\ sm' = [sm EXCEPT ![n] = <<>>]
    /\ UNCHANGED <<msgs, proposed, ballots, elections>>

Next ==
    \/ \E n \in Node : \/ LeaderTick(n)
                       \/ ElectionTick(n)
                       \/ IdleTick(n)
                       \/ \E c \in Command : ClientPropose(n, c)
                       \/ Restart(n)
    \/ \E m \in msgs : Deliver(m) \/ Lose(m)

Spec == Init /\ [][Next]_vars

\* Ticks keep coming (the member thread's timer), and a link on which messages
\* are sent again and again delivers again and again: strong fairness, with the
\* enabling conditions written out (only the bound on msgs ever disables a tick).
TickDue(n) ==
    /\ node[n].role = "Leader"
    /\ ~(BroadcastAppend(node[n], n) \subseteq msgs)
    /\ Cardinality(msgs \cup BroadcastAppend(node[n], n)) <= MaxInFlight

InFlight(from, to) == \E m \in msgs : m.from = from /\ m.to = to

Fairness ==
    /\ \A n \in Node : <>[]~TickDue(n) \/ []<><<LeaderTick(n)>>_vars
    /\ \A from, to \in Node :
          <>[]~InFlight(from, to)
            \/ []<><<\E m \in msgs : m.from = from /\ m.to = to /\ Deliver(m)>>_vars

FairSpec == Spec /\ Fairness

-----------------------------------------------------------------------------
\* Every node record and message is well formed.
TypeOK ==
    /\ node \in [Node -> NodeType]
    /\ msgs \subseteq MsgType
    /\ sm \in [Node -> Seq([index : Nat, command : Command])]
    /\ proposed \subseteq Command
    /\ ballots \subseteq [voter : Node, term : Nat, candidate : Node]
    /\ elections \in Nat
    /\ restarts \in Nat

\* At most one leader per term, now or ever: two nodes lead the same term never,
\* and no AppendEntries of a term was sent by anybody but the node leading it.
\* Rests on votes being persisted before they are answered (on_request_vote) and
\* counted only in their own term (on_vote_resp).
ElectionSafety ==
    /\ \A n1, n2 \in Node :
          node[n1].role = "Leader" /\ node[n2].role = "Leader"
             /\ node[n1].term = node[n2].term => n1 = n2
    /\ \A m1, m2 \in msgs :
          m1.type = "AppendEntries" /\ m2.type = "AppendEntries"
             /\ m1.term = m2.term => m1.from = m2.from

EntryAt(n, i) == node[n].log.entries[Pos(node[n].log, i)]

\* Two live logs that agree on the term of an index agree on the entry there and
\* on every earlier live entry (the prev_log check and conflict truncation of
\* on_append).
LogMatching ==
    \A n1, n2 \in Node :
        \A i \in 1 .. Least(LastIndex(node[n1].log), LastIndex(node[n2].log)) :
            (/\ Pos(node[n1].log, i) # 0 /\ Pos(node[n2].log, i) # 0
             /\ TermAt(node[n1].log, i) = TermAt(node[n2].log, i))
            => \A j \in 1 .. i :
                  Pos(node[n1].log, j) # 0 /\ Pos(node[n2].log, j) # 0
                     => EntryAt(n1, j) = EntryAt(n2, j)

\* The state machines never diverge: what two members have applied is a common
\* sequence of (index, command), one possibly shorter.  This is what the commit
\* rule of advance_commit and the cap in on_append must guarantee together.
StateMachineSafety ==
    \A n1, n2 \in Node :
        \A k \in 1 .. Least(Len(sm[n1]), Len(sm[n2])) : sm[n1][k] = sm[n2][k]

\* A leader's log holds every entry any member has applied (the election
\* restriction of on_request_vote), unless a newer leader has replaced it.
LeaderCompleteness ==
    \A l, n \in Node :
        (node[l].role = "Leader" /\ \A p \in Node : node[p].term <= node[l].term)
        => \A k \in 1 .. Len(sm[n]) :
              LET i == sm[n][k].index
              IN  \/ i <= node[l].log.snapIndex
                  \/ Pos(node[l].log, i) # 0 /\ EntryAt(l, i).command = sm[n][k].command

\* The entries of a live log carry consecutive indices from the snapshot on, as
\* the debug assertion of RaftLog::append demands ("log append must be
\* contiguous"): term_at, truncate_from and command_at all compute positions from it.
LogContiguous ==
    \A n \in Node : \A k \in 1 .. Len(node[n].log.entries) :
        node[n].log.entries[k].index = node[n].log.snapIndex + k


\* Once elections stop, a leader of the newest term whose last entry is from that
\* term gets its whole log applied by every member: next_index backs off to where
\* a follower's log agrees, and heartbeats repeat what was lost.  (Without an
\* entry of its own term a leader commits nothing: advance_commit.)
EventuallyApplied ==
    \A n \in Node :
        (/\ elections = MaxElections
         /\ node[n].role = "Leader"
         /\ \A p \in Node : node[p].term <= node[n].term
         /\ LastIndex(node[n].log) > 0
         /\ LastTerm(node[n].log) = node[n].term)
        ~> \A p \in Node : node[p].applied >= LastIndex(node[n].log)
=============================================================================
