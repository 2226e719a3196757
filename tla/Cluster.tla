------------------------------- MODULE Cluster -------------------------------
(***************************************************************************)
(* The member threads of a cluster: replicated writes with synchronous     *)
(* backups (member_thread.rs, crates/member/src/replication.rs), the       *)
(* coordinator that admits and removes members (cluster_coordinator.rs),   *)
(* partition migration and distributed SQL, over TCP links that keep       *)
(* order but can break, with members that crash.                           *)
(*                                                                         *)
(* A member's process number is its uuid and its self_index.  A key is its *)
(* own partition.  A heartbeat only renews last_seen, so silence longer    *)
(* than the timeout is a choice of OnTick, for members heard from before.  *)
(***************************************************************************)
EXTENDS Membership, SequencesExt

CONSTANTS
    Node,      \* 1 .. n
    MapKey,    \* keys of maps, merged by stamp when migrated
    AuxKey,    \* names of queues, lists, multimap keys..., whose state is installed
    Workload   \* what happens in a behaviour: bootstrap, backups, bounds on writes,
               \* queries, crashes, lost connections and promotions, and the slow
               \* members, whose heartbeats may come too late

Key == MapKey \cup AuxKey

VARIABLES
    load,    \* the workload of this behaviour
    up,      \* running members
    node,    \* per member: its threads' state
    links,   \* links[a][b]: bytes under way from a to b, as messages
    clock,   \* the stamps drawn so far
    ops,     \* history: writes in the order the owners' stores took them
    sqls,    \* history: distributed queries
    faults   \* history: crashes, breaks, lost migrations, promotions, contended writes

vars == <<load, up, node, links, clock, ops, sqls, faults>>

NoEntry == [val |-> 0, stamp |-> 0]

\* Coordinator::new, MemberHandler::new; a member beyond the bootstrap set starts with
\* itself in its list and asks to be admitted.
NewNode(n) ==
    LET size == IF n > load.bootstrap THEN n ELSE load.bootstrap
        backups == IF load.backups < size THEN load.backups ELSE size - 1
        c == NewCluster([i \in 1 .. size |-> i], backups, DefaultQuorum(size))
    IN  [view |-> c, rview |-> c, heard |-> IF n > load.bootstrap THEN {} ELSE 1 .. size,
         joined |-> n <= load.bootstrap, jobs |-> <<>>, pending |-> {}, gathers |-> {},
         store |-> [k \in Key |-> NoEntry]]

Init ==
    /\ load \in Workload
    /\ up = Node
    /\ node = [n \in Node |-> NewNode(n)]
    /\ links = [a \in Node |-> [b \in Node |-> <<>>]]
    /\ clock = 0 /\ ops = <<>> /\ sqls = <<>>
    /\ faults = [crashes |-> 0, breaks |-> 0, joins |-> 0, promotions |-> 0, lost |-> FALSE, overlap |-> FALSE]

World == [node |-> node, links |-> links, clock |-> clock, ops |-> ops, sqls |-> sqls]

Become(w) ==
    node' = w.node /\ links' = w.links /\ clock' = w.clock /\ ops' = w.ops /\ sqls' = w.sqls

-----------------------------------------------------------------------------
\* Transport: deliver opens a connection to the member with that index; without one
\* the message is dropped.
Send(w, n, dest, m) ==
    LET u == w.node[n].view.members[dest].uuid
    IN  IF dest \in DOMAIN w.node[n].view.members /\ u \in up
        THEN [w EXCEPT !.links[n][u] = Append(@, m)] ELSE w

SendAll(w, n, dests, m) == FoldSet(LAMBDA d, x : Send(x, n, d, m), w, dests)

Answer(w, op, how) == [w EXCEPT !.ops[op].outcome = how]

AnswerSql(w, req, how) == [w EXCEPT !.sqls[req].outcome = how]

-----------------------------------------------------------------------------
\* Store::put and remove of a write at its owner or at a backup: a fresh stamp.
Write(w, n, op) ==
    LET k == w.ops[op].key
        e == IF w.ops[op].val = 0 THEN NoEntry ELSE [val |-> w.ops[op].val, stamp |-> w.clock + 1]
    IN  [w EXCEPT !.node[n].store[k] = e, !.clock = @ + 1]

\* MigrateChunk entries are merged by stamp, MigrateAux and MigrateMm installed.
Installed(store, es) ==
    [k \in Key |->
        IF k \notin DOMAIN es \/ es[k] = NoEntry THEN store[k]
        ELSE IF k \in AuxKey \/ es[k].stamp > store[k].stamp THEN es[k] ELSE store[k]]

\* History: another member takes itself for k's owner, or k is being migrated.
Contended(n, k) ==
    \/ \E m \in up \ {n} : node[m].joined /\ node[m].rview.members[Owner(node[m].rview, k)].uuid = m
    \/ \E a, b \in Node : \E i \in DOMAIN links[a][b] :
          links[a][b][i].is = "migrate" /\ k \in DOMAIN links[a][b][i].entries

\* The reactor's Replicator: without backups the reply is not deferred.
\* With the job ring full the reply goes out at once and the write stays unreplicated.
ClientWrite(n, k, v) ==
    LET c == node[n].rview
        op == [key |-> k, val |-> v, targets |-> {}, applied |-> {n}, raced |-> FALSE,
               outcome |-> IF ~HasQuorum(c) THEN "refused" ELSE IF c.backups = 0 THEN "acked"
                           ELSE IF Len(node[n].jobs) >= load.ring THEN "unreplicated" ELSE "none"]
        w == [World EXCEPT !.ops = Append(@, op)]
        i == Len(ops) + 1
        x == Write(w, n, i)
    IN  /\ n \in up /\ node[n].joined /\ Len(ops) < load.writes
        /\ k \in load.keys /\ (v = 0 => k \in MapKey)
        /\ c.members[Owner(c, k)].uuid = n
        /\ Become(CASE op.outcome = "refused" -> w
                    [] op.outcome = "none" ->
                         [x EXCEPT !.node[n].jobs = Append(@, [is |-> "replicate", op |-> i])]
                    [] OTHER -> x)
        /\ faults' = [faults EXCEPT !.overlap = @ \/ Contended(n, k)]
        /\ UNCHANGED <<load, up>>

\* Without room in the ring the query is dropped, and its client never answered.
ClientSql(n) ==
    LET room == Len(node[n].jobs) < load.ring
        q == [asked |-> {}, parts |-> <<>>, outcome |-> "none"]
        job == [is |-> "sql", req |-> Len(sqls) + 1]
    IN  /\ n \in up /\ Len(sqls) < load.queries
        /\ Become([World EXCEPT !.sqls = Append(@, q),
                                !.node[n].jobs = IF room THEN Append(@, job) ELSE @])
        /\ UNCHANGED <<load, up, faults>>

\* /cluster/promote: the operator has the reactor mark a member dead, and the
\* reactor's view replaces the member thread's if it gets through.
PromoteDead(n, u) ==
    LET c == RemoveMember(node[n].rview, u)
        job == [is |-> "membership", view |-> c]
    IN  /\ n \in up /\ u # n /\ faults.promotions < load.promotions
        /\ node' = [node EXCEPT ![n].rview = c,
                                ![n].jobs = IF c.backups > 0 /\ Len(@) < load.ring THEN Append(@, job) ELSE @]
        /\ faults' = [faults EXCEPT !.promotions = @ + 1]
        /\ UNCHANGED <<load, up, links, clock, ops, sqls>>

\* on_cluster: the reactor takes the views the member thread emitted.
OnCluster(n) ==
    /\ n \in up /\ node[n].view.gen > node[n].rview.gen
    /\ node' = [node EXCEPT ![n].rview = SetView(@, node[n].view)]
    /\ UNCHANGED <<load, up, links, clock, ops, sqls, faults>>

-----------------------------------------------------------------------------
\* apply_change: stream every partition this member must send.
ApplyChange(w, n, old) ==
    LET new == w.node[n].view
        Stream(k, x) == Send(x, n, k[2], [is |-> "migrate", entries |->
                                            [j \in {k[1]} |-> x.node[n].store[j]]])
    IN  FoldSet(Stream, w, Plan(old, new, Key, n))

Broadcast(w, n) ==
    LET c == w.node[n].view
    IN  SendAll(w, n, {i \in Alive(c) : c.members[i].uuid # n}, [is |-> "view", view |-> c])

OnView(w, n, v) ==
    LET old == w.node[n].view
        new == SetView(old, v)
        uuids == {new.members[i].uuid : i \in DOMAIN new.members}
    IN  IF new = old THEN w
        ELSE ApplyChange([w EXCEPT !.node[n].view = new, !.node[n].heard = @ \cup uuids,
                                   !.node[n].joined = @ \/ n \in uuids], n, old)

OnJoin(w, n, u) ==
    LET old == w.node[n].view
        x == Broadcast([w EXCEPT !.node[n].view = AddMember(old, u)], n)
    IN  IF ~IsMaster(old, n) THEN w
        ELSE IF IsAlive(old, u) THEN x ELSE ApplyChange(x, n, old)

\* Mutant of OnAck: the first ack releases the reply.
OnFirstAck(w, n, op) ==
    LET mine == {p \in w.node[n].pending : p.op = op}
    IN  IF mine = {} THEN w
        ELSE Answer([w EXCEPT !.node[n].pending = @ \ mine], op, "acked")

\* Pending::ack
OnAck(w, n, op) ==
    LET mine == {p \in w.node[n].pending : p.op = op}
        p == CHOOSE x \in mine : TRUE
        rest == w.node[n].pending \ mine
    IN  IF mine = {} THEN w
        ELSE IF p.left = 1 THEN Answer([w EXCEPT !.node[n].pending = rest], op, "acked")
        ELSE [w EXCEPT !.node[n].pending = rest \cup {[p EXCEPT !.left = @ - 1]}]

\* Mutant of OnPartial: a gather is complete one member early.
OnPartialEarly(w, n, req, from) ==
    LET mine == {g \in w.node[n].gathers : g.req = req}
        g == CHOOSE x \in mine : TRUE
        x == [w EXCEPT !.sqls[req].parts = Append(@, from)]
    IN  IF mine = {} THEN w
        ELSE IF Len(x.sqls[req].parts) + 1 >= g.expected
        THEN AnswerSql([x EXCEPT !.node[n].gathers = @ \ mine], req, "complete") ELSE x

OnPartial(w, n, req, from) ==
    LET mine == {g \in w.node[n].gathers : g.req = req}
        g == CHOOSE x \in mine : TRUE
        x == [w EXCEPT !.sqls[req].parts = Append(@, from)]
    IN  IF mine = {} THEN w
        ELSE IF Len(x.sqls[req].parts) >= g.expected
        THEN AnswerSql([x EXCEPT !.node[n].gathers = @ \ mine], req, "complete") ELSE x

\* MemberHandler::on_msg at b of the next message from a.
OnMsg(a, b) ==
    LET m == Head(links[a][b])
        w == [World EXCEPT !.links[a][b] = Tail(@)]
    IN  /\ b \in up /\ links[a][b] # <<>>
        /\ Become(CASE m.is = "backup" ->
                         Send([Write(w, b, m.op) EXCEPT
                                 !.ops[m.op].applied = @ \cup {b},
                                 !.ops[m.op].raced = @ \/ Owner(node[b].view, ops[m.op].key) # a],
                              b, a, [is |-> "ack", op |-> m.op])
                    [] m.is = "ack" -> OnAck(w, b, m.op)
                    [] m.is = "view" -> OnView(w, b, m.view)
                    [] m.is = "join" -> OnJoin(w, b, a)
                    [] m.is = "migrate" -> [w EXCEPT !.node[b].store = Installed(@, m.entries)]
                    [] m.is = "sql" -> Send(w, b, a, [is |-> "partial", req |-> m.req])
                    [] m.is = "partial" -> OnPartial(w, b, m.req, a))
        /\ UNCHANGED <<load, up, faults>>

\* on_heartbeat from a member not heard from before; it only matters to suspicion, so
\* it is left out where nobody crashes.
OnHeartbeat(a, b) ==
    /\ load.crashes > 0 /\ {a, b} \subseteq up /\ a # b /\ a \notin node[b].heard /\ IsAlive(node[a].view, b)
    /\ node' = [node EXCEPT ![b].heard = @ \cup {a}]
    /\ UNCHANGED <<load, up, links, clock, ops, sqls, faults>>

-----------------------------------------------------------------------------
Register(w, n, op, left) ==
    [w EXCEPT !.node[n].pending = @ \cup {[op |-> op, left |-> left]}]

\* on_tick, one job of the ring
Replicate(w, n, op) ==
    LET c == w.node[n].view
        b == BackupsOf(c, w.ops[op].key)
    IN  IF b = <<>> THEN Answer(w, op, "acked")
        ELSE SendAll([Register(w, n, op, Len(b)) EXCEPT
                               !.ops[op].raced = Owner(c, w.ops[op].key) # IndexOf(c, n),
                               !.ops[op].targets = {c.members[i].uuid : i \in ToSet(b)}],
                     n, ToSet(b), [is |-> "backup", op |-> op])

\* sql_peers: every other index, dead or alive.
Scatter(w, n, req) ==
    LET peers == DOMAIN w.node[n].view.members \ {n}
        x == [w EXCEPT !.sqls[req].asked = peers \cup {n}, !.sqls[req].parts = <<n>>]
    IN  IF peers = {} THEN AnswerSql(x, req, "complete")
        ELSE SendAll([x EXCEPT !.node[n].gathers = @ \cup {[req |-> req, expected |-> Cardinality(peers) + 1]}],
                     n, peers, [is |-> "sql", req |-> req])

DoJob(w, n, job) ==
    CASE job.is = "replicate" -> Replicate(w, n, job.op)
      [] job.is = "sql" -> Scatter(w, n, job.req)
      [] job.is = "membership" -> [w EXCEPT !.node[n].view = job.view]

\* Coordinator::on_tick: members silent for too long are removed by the one that is
\* master without them.
RemoveSuspects(w, n, suspects) ==
    LET old == w.node[n].view
        rest == {i \in Alive(old) : old.members[i].uuid \notin suspects}
        new == FoldSet(LAMBDA u, c : RemoveMember(c, u), old, suspects)
    IN  IF suspects = {} \/ rest = {} \/ ~IsMaster([old EXCEPT !.alive = [i \in DOMAIN @ |-> i \in rest]], n)
        THEN w
        ELSE ApplyChange(Broadcast([w EXCEPT !.node[n].view = new], n), n, old)

FinalizeLate(w, n, late) ==
    FoldSet(LAMBDA g, x : AnswerSql([x EXCEPT !.node[n].gathers = @ \ {g}], g.req, "partial"), w, late)

SweepExpired(w, n, expired) ==
    FoldSet(LAMBDA p, x : Answer([x EXCEPT !.node[n].pending = @ \ {p}], p.op, "timeout"), w, expired)

\* MemberHandler::on_tick: all queued jobs, then the gathers and writes that waited
\* too long, then the coordinator.  Nothing registered in this tick is old enough.
OnTick(n, late, expired, suspects) ==
    LET w1 == [FoldLeft(LAMBDA x, j : DoJob(x, n, j), World, node[n].jobs) EXCEPT !.node[n].jobs = <<>>]
        w2 == SweepExpired(FinalizeLate(w1, n, late), n, expired)
    IN  /\ n \in up
        /\ node[n].jobs # <<>> \/ late # {} \/ expired # {} \/ suspects # {}
        /\ Become(RemoveSuspects(w2, n, suspects))
        /\ UNCHANGED <<load, up, faults>>

\* on_tick of a joiner: it asks the master until a view names it.
AskToJoin(n) ==
    LET c == node[n].view
        m == c.members[Master(c)].uuid
    IN  /\ n \in up /\ ~node[n].joined /\ links[n][m] = <<>> /\ faults.joins < load.joins
        /\ Become(Send(World, n, Master(c), [is |-> "join"]))
        /\ faults' = [faults EXCEPT !.joins = @ + 1]
        /\ UNCHANGED <<load, up>>

\* Heartbeats stop when their sender dies, and come late from a slow one or over a
\* slow link.
Silent(n) ==
    {u \in node[n].heard \ {n} : IsAlive(node[n].view, u) /\ (u \notin up \/ u \in load.slow)}

-----------------------------------------------------------------------------
\* A process dies; what it sent may still arrive.
Crash(n) ==
    /\ n \in up /\ faults.crashes < load.crashes
    /\ up' = up \ {n}
    /\ links' = [a \in Node |-> [links[a] EXCEPT ![n] = <<>>]]
    /\ faults' = [faults EXCEPT !.crashes = @ + 1,
                                !.lost = @ \/ \E a \in Node : \E i \in DOMAIN links[n][a] : links[n][a][i].is = "migrate"]
    /\ UNCHANGED <<load, node, clock, ops, sqls>>

\* A connection breaks with everything queued on it.
Break(a, b) ==
    /\ links[a][b] # <<>> /\ faults.breaks < load.breaks
    /\ links' = [links EXCEPT ![a][b] = <<>>]
    /\ faults' = [faults EXCEPT !.breaks = @ + 1,
                                !.lost = @ \/ \E i \in DOMAIN links[a][b] : links[a][b][i].is = "migrate"]
    /\ UNCHANGED <<load, up, node, clock, ops, sqls>>

Next ==
    \/ \E n \in Node, k \in Key, v \in {0, Len(ops) + 1} : ClientWrite(n, k, v)
    \/ \E n \in Node : ClientSql(n) \/ OnCluster(n) \/ AskToJoin(n) \/ Crash(n)
    \/ \E n, u \in Node : PromoteDead(n, u)
    \/ \E a, b \in Node : OnMsg(a, b) \/ OnHeartbeat(a, b) \/ Break(a, b)
    \/ \E n \in Node : \E late \in SUBSET node[n].gathers, expired \in SUBSET node[n].pending :
          \E suspects \in SUBSET Silent(n) : OnTick(n, late, expired, suspects)

Spec == Init /\ [][Next]_vars

-----------------------------------------------------------------------------
\* A write answered because its backups acknowledged it, not because the wait ran
\* out, was applied by every backup it was sent to: late, lost and foreign acks never
\* make up the count.
AckMeansReplicated ==
    \A i \in DOMAIN ops : ops[i].outcome = "acked" => ops[i].targets \subseteq ops[i].applied

Settled ==
    /\ \A a, b \in up : links[a][b] = <<>>
    /\ \A n \in up : node[n].jobs = <<>> /\ node[n].joined
    /\ \A n, m \in up : node[n].view = node[m].view /\ node[n].rview = node[n].view
    /\ \A n \in up : \A i \in DOMAIN node[n].view.members :
          node[n].view.alive[i] <=> node[n].view.members[i].uuid \in up

\* Once views and links have settled after crashes and joins, every member the view
\* makes a holder of a key has its last acknowledged write, or a later one: the plans
\* each member makes for itself add up to the data arriving everywhere it is needed.
\* (Provided no more members crashed than there are backups, no migration was lost,
\* nobody was promoted by hand, no key was written while it was being migrated or while
\* two members took themselves for its owner, no owner lost the key to a newer view
\* between taking a write and replicating it, and no backup of a write arrived where
\* its sender was no longer seen as the owner: the code guards against none of these.)
HoldersHaveAcked ==
    Settled /\ faults.crashes <= load.backups /\ ~faults.lost /\ ~faults.overlap /\ faults.promotions = 0
    /\ (\A i \in DOMAIN ops : ~ops[i].raced) =>
        \A k \in Key, n \in up :
            LET done == {i \in DOMAIN ops : ops[i].key = k /\ ops[i].outcome # "refused"}
                acked == {i \in done : ops[i].outcome = "acked"}
            IN  acked # {} /\ n \in HolderSet(node[n].view, k) =>
                    node[n].store[k].val \in {ops[i].val : i \in {j \in done : j >= Max(acked)}}

\* A distributed query answered as complete has exactly one part of every member it
\* asked.
GatherExact ==
    \A r \in DOMAIN sqls :
        sqls[r].outcome = "complete" =>
            /\ ToSet(sqls[r].parts) = sqls[r].asked
            /\ Len(sqls[r].parts) = Cardinality(sqls[r].asked)
=============================================================================
