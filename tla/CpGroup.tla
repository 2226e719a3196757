------------------------------ MODULE CpGroup ------------------------------
(***************************************************************************)
(* The CP group driver of crates/raft/src/cp.rs: client commands routed to *)
(* the Raft leader, and the replies routed back.  Each client submits one  *)
(* command, named after the client; applying a command returns its name,   *)
(* so a reply tells whose command produced it.                             *)
(***************************************************************************)
EXTENDS RaftNode, Bags

CONSTANTS
    Client,        \* each submits one command
    SessionTick,   \* the leader's periodic session command
    Keep,          \* COMPACT_KEEP
    Lossy,         \* the transport may lose messages
    MaxElections, MaxLog, MaxInFlight,  \* bounds, as in RaftCluster
    MaxSessionTicks                     \* bound: session commands in a log

ASSUME GroupAssumption == Command = Client \cup {SessionTick} /\ SessionTick \notin Client

VARIABLES
    group,      \* CpGroup of each member: raft, sm (commands applied), pending, waiting
    msgs,       \* CpMsgs in flight
    submitted,  \* clients that have submitted
    answers,    \* the bag of completions delivered to clients
    elections   \* number of elections started so far

vars == <<group, msgs, submitted, answers, elections>>

RaftOut(out) == {[cp |-> "Raft", to |-> m.to, msg |-> m] : m \in out}

\* Mutant of Route: the operation waits for the index before its own.
RouteIndexBefore(g, n, client, origin) ==
    LET raft == Propose(g.raft, n, client)
        index == LastIndex(g.raft.log)
    IN  IF g.raft.role = "Leader"
        THEN [g   |-> [g EXCEPT !.raft = raft,
                        !.pending = {p \in @ : p.index # index}
                           \cup {[index |-> index, client |-> client, origin |-> origin]}],
              out |-> {}]
        ELSE IF g.raft.leader # None
        THEN [g   |-> g,
              out |-> {[cp |-> "Forward", to |-> g.raft.leader,
                        client |-> client, origin |-> origin]}]
        ELSE [g   |-> IF origin = n THEN [g EXCEPT !.waiting = Append(@, client)] ELSE g,
              out |-> {}]

\* CpGroup::route on member n; pending is a map, so an insert replaces what the
\* index held.
Route(g, n, client, origin) ==
    LET raft == Propose(g.raft, n, client)
        index == LastIndex(raft.log)
    IN  IF g.raft.role = "Leader"
        THEN [g   |-> [g EXCEPT !.raft = raft,
                        !.pending = {p \in @ : p.index # index}
                           \cup {[index |-> index, client |-> client, origin |-> origin]}],
              out |-> {}]
        ELSE IF g.raft.leader # None
        THEN [g   |-> g,
              out |-> {[cp |-> "Forward", to |-> g.raft.leader,
                        client |-> client, origin |-> origin]}]
        ELSE [g   |-> IF origin = n THEN [g EXCEPT !.waiting = Append(@, client)] ELSE g,
              out |-> {}]

\* Mutant of FlushWaiting: the buffer is not emptied.
FlushKeepsWaiting(g, n) ==
    LET Flush[k \in 0 .. Len(g.waiting)] ==
            IF k = 0 THEN [g |-> g, out |-> {}]
            ELSE LET r == Route(Flush[k - 1].g, n, g.waiting[k], n)
                 IN  [g |-> r.g, out |-> Flush[k - 1].out \cup r.out]
    IN  IF g.raft.leader = None THEN [g |-> g, out |-> {}] ELSE Flush[Len(g.waiting)]

\* Mutant of FlushWaiting: the buffer is emptied and nothing is routed.
FlushForgets(g, n) ==
    [g |-> IF g.raft.leader = None THEN g ELSE [g EXCEPT !.waiting = <<>>], out |-> {}]

\* The loop of tick over the buffered commands, once a leader is known.
FlushWaiting(g, n) ==
    LET taken == [g EXCEPT !.waiting = <<>>]
        Flush[k \in 0 .. Len(g.waiting)] ==
            IF k = 0 THEN [g |-> taken, out |-> {}]
            ELSE LET r == Route(Flush[k - 1].g, n, g.waiting[k], n)
                 IN  [g |-> r.g, out |-> Flush[k - 1].out \cup r.out]
    IN  IF g.raft.leader = None THEN [g |-> g, out |-> {}] ELSE Flush[Len(g.waiting)]

\* The pending operations whose index is among the commands just committed.
Answered(g) ==
    {[p |-> p, reply |-> Committed(g.raft)[k].command] :
        <<p, k>> \in {pk \in g.pending \X (1 .. Len(Committed(g.raft))) :
                        pk[1].index = Committed(g.raft)[pk[2]].index}}

\* Mutant of ApplyCommitted: the client of another member is answered here as well.
ApplyAnswersAll(g, n) ==
    [g    |-> [g EXCEPT !.raft = TakeCommitted(@),
                        !.sm = @ \o [k \in 1 .. Len(Committed(g.raft)) |->
                                        Committed(g.raft)[k].command],
                        !.pending = @ \ {a.p : a \in Answered(g)}],
     out  |-> {[cp |-> "Reply", to |-> a.p.origin, client |-> a.p.client, reply |-> a.reply] :
                 a \in {b \in Answered(g) : b.p.origin # n}},
     done |-> {[client |-> a.p.client, reply |-> a.reply] : a \in Answered(g)}]

\* CpGroup::apply_committed: apply, answer local clients, reply to other members.
ApplyCommitted(g, n) ==
    [g    |-> [g EXCEPT !.raft = TakeCommitted(@),
                        !.sm = @ \o [k \in 1 .. Len(Committed(g.raft)) |->
                                        Committed(g.raft)[k].command],
                        !.pending = @ \ {a.p : a \in Answered(g)}],
     out  |-> {[cp |-> "Reply", to |-> a.p.origin, client |-> a.p.client, reply |-> a.reply] :
                 a \in {b \in Answered(g) : b.p.origin # n}},
     done |-> {[client |-> a.p.client, reply |-> a.reply] :
                 a \in {b \in Answered(g) : b.p.origin = n}}]

Compacted(g) == [g EXCEPT !.raft = MaybeCompact(@, Keep)]

\* Every handler ends by applying, and a tick by compacting; `out' and `done' are
\* what the handler produced before, `gone' the message it consumed.
Finish(n, g, out, done, gone, isTick) ==
    \E f \in {ApplyCommitted(g, n)} :
        /\ msgs' = (msgs \ gone) \cup out \cup f.out
        /\ Cardinality(msgs') <= MaxInFlight
        /\ group' = [group EXCEPT ![n] = IF isTick THEN Compacted(f.g) ELSE f.g]
        /\ answers' = answers (+) SetToBag(done) (+) SetToBag(f.done)

Init ==
    /\ group = [n \in Node |-> [raft |-> NewNode(EmptyLog, 0, None), sm |-> <<>>,
                                pending |-> {}, waiting |-> <<>>]]
    /\ msgs = {}
    /\ submitted = {}
    /\ answers = EmptyBag
    /\ elections = 0

\* A client of member n submits; nothing is applied before the next step or tick.
Submit(n, c) ==
    LET r == Route(group[n], n, c, n)
    IN  /\ c \notin submitted
        /\ LastIndex(r.g.raft.log) <= MaxLog
        /\ submitted' = submitted \cup {c}
        /\ group' = [group EXCEPT ![n] = r.g]
        /\ msgs' = msgs \cup r.out
        /\ Cardinality(msgs') <= MaxInFlight
        /\ UNCHANGED <<answers, elections>>

SessionTicks(g) == Cardinality({k \in 1 .. Len(g.raft.log.entries) :
                                    g.raft.log.entries[k].command = SessionTick})

\* tick: `r' is what RaftNode::tick did; `clock' says whether the session
\* interval has elapsed on a leader.
EndTick(n, r, clock) ==
    /\ \E f \in {FlushWaiting([group[n] EXCEPT !.raft = r.st], n)} :
       \E g \in {IF clock THEN [f.g EXCEPT !.raft = Propose(@, n, SessionTick)] ELSE f.g} :
          /\ clock => f.g.raft.role = "Leader" /\ SessionTicks(f.g) < MaxSessionTicks
          /\ LastIndex(g.raft.log) <= MaxLog
          /\ Finish(n, g, RaftOut(r.out) \cup f.out, {}, {}, TRUE)
    /\ UNCHANGED submitted

LeaderTick(n) ==
    LET s == group[n].raft
    IN  /\ s.role = "Leader"
        /\ \E clock \in BOOLEAN : EndTick(n, [st |-> s, out |-> BroadcastAppend(s, n)], clock)
        /\ UNCHANGED elections

ElectionTick(n) ==
    /\ group[n].raft.role # "Leader"
    /\ elections < MaxElections
    /\ elections' = elections + 1
    /\ \E clock \in BOOLEAN, r \in {StartElection(group[n].raft, n)} : EndTick(n, r, clock)

\* No timer is due; with no command buffered, nothing to apply and nothing to
\* compact, such a tick changes nothing.
IdleTick(n) ==
    /\ group[n].raft.role # "Leader"
    /\ \/ group[n].waiting # <<>>
       \/ group[n].raft.applied < group[n].raft.commit
       \/ Compacted(group[n]) # group[n]
    /\ EndTick(n, [st |-> group[n].raft, out |-> {}], FALSE)
    /\ UNCHANGED elections

\* CpGroup::step
DeliverRaft(m) ==
    /\ m.cp = "Raft"
    /\ \E r \in {Step(group[m.to].raft, m.to, m.msg)} :
          Finish(m.to, [group[m.to] EXCEPT !.raft = r.st], RaftOut(r.out), {}, {m}, FALSE)
    /\ UNCHANGED <<submitted, elections>>

DeliverForward(m) ==
    /\ m.cp = "Forward"
    /\ \E r \in {Route(group[m.to], m.to, m.client, m.origin)} :
           /\ LastIndex(r.g.raft.log) <= MaxLog
           /\ Finish(m.to, r.g, r.out, {}, {m}, FALSE)
    /\ UNCHANGED <<submitted, elections>>

DeliverReply(m) ==
    /\ m.cp = "Reply"
    /\ Finish(m.to, group[m.to], {}, {[client |-> m.client, reply |-> m.reply]}, {m}, FALSE)
    /\ UNCHANGED <<submitted, elections>>

Deliver(m) == DeliverRaft(m) \/ DeliverForward(m) \/ DeliverReply(m)

Lose(m) ==
    /\ Lossy
    /\ msgs' = msgs \ {m}
    /\ UNCHANGED <<group, submitted, answers, elections>>

Next ==
    \/ \E n \in Node : \/ LeaderTick(n) \/ ElectionTick(n) \/ IdleTick(n)
                       \/ \E c \in Client : Submit(n, c)
    \/ \E m \in msgs : Deliver(m) \/ Lose(m)

Spec == Init /\ [][Next]_vars

\* The member thread keeps ticking every group, and a connected transport
\* delivers what it is given: strong fairness, with the enabling conditions written
\* out (strong for the ticks too: only the bound on msgs ever disables one).
HeartbeatDue(n) ==
    LET sent == RaftOut(BroadcastAppend(group[n].raft, n))
    IN  /\ group[n].raft.role = "Leader"
        /\ ~(sent \subseteq msgs) /\ Cardinality(msgs \cup sent) <= MaxInFlight

ElectionDue(n) ==
    /\ group[n].raft.role # "Leader" /\ elections < MaxElections
    /\ Cardinality(msgs) + Cardinality(Node) + Len(group[n].waiting) <= MaxInFlight

FlushDue(n) ==
    /\ group[n].raft.role # "Leader" /\ group[n].raft.leader # None
    /\ group[n].waiting # <<>>
    /\ Cardinality(msgs) + Len(group[n].waiting) <= MaxInFlight

InFlight(n, kinds) == \E m \in msgs : m.to = n /\ m.cp \in kinds

FairSpec ==
    /\ Spec
    /\ \A n \in Node :
          /\ <>[]~HeartbeatDue(n) \/ []<><<LeaderTick(n)>>_vars
          /\ <>[]~ElectionDue(n) \/ []<><<ElectionTick(n)>>_vars
          /\ <>[]~FlushDue(n) \/ []<><<IdleTick(n)>>_vars
          /\ <>[]~InFlight(n, {"Raft"})
               \/ []<><<\E m \in msgs : m.to = n /\ DeliverRaft(m)>>_vars
          /\ <>[]~InFlight(n, {"Forward", "Reply"})
               \/ []<><<\E m \in msgs : m.to = n /\ m.cp # "Raft" /\ Deliver(m)>>_vars

-----------------------------------------------------------------------------
\* A client is answered with the result of its own command: "when that index
\* commits and applies, the reply is delivered to the member the client is on"
\* (the header of cp.rs).  `pending' is keyed by log index alone.
AnswerIsOwn == \A a \in BagToSet(answers) : a.reply = a.client

\* As long as one member is the only one ever to have stood for election, every
\* answer is the client's own, whatever is lost or late: no index is used twice.
StableLeaderAnswersOwn == elections <= 1 => AnswerIsOwn

\* A command is applied at most once, however often it was forwarded and
\* re-routed while leadership moved.
AppliedOnce ==
    \A n \in Node : \A j, k \in 1 .. Len(group[n].sm) :
        j # k /\ group[n].sm[j] \in Client => group[n].sm[j] # group[n].sm[k]

\* No client gets two answers, and nobody who did not submit gets one.
AnsweredOnce ==
    \A a, b \in BagToSet(answers) :
        /\ a.client \in submitted /\ CopiesIn(a, answers) = 1
        /\ a.client = b.client => a = b

\* With a transport that loses nothing and one election, every submitted command
\* is answered: buffered until a leader is known, forwarded, committed, replied.
EventuallyAnswered ==
    \A c \in Client : c \in submitted ~> \E a \in BagToSet(answers) : a.client = c
=============================================================================
