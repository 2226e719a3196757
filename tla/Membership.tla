----------------------------- MODULE Membership -----------------------------
(***************************************************************************)
(* A member's picture of the cluster (crates/server/src/membership.rs) and *)
(* the migrations a change of it calls for (migration.rs).  Members are    *)
(* kept in join order; the dead stay in the list so that the ring of       *)
(* owners does not shift when a member dies.                               *)
(***************************************************************************)
EXTENDS Integers, FiniteSets, Sequences, FiniteSetsExt

\* Cluster::new over the bootstrap members; uuids are the members' identities.
NewCluster(uuids, backups, quorum) ==
    [members |-> [i \in DOMAIN uuids |-> [uuid |-> uuids[i], join |-> i - 1]],
     alive |-> [i \in DOMAIN uuids |-> TRUE],
     backups |-> backups, quorum |-> IF quorum = 0 THEN 1 ELSE quorum, gen |-> 1]

Alive(c) == {i \in DOMAIN c.members : c.alive[i]}

HasQuorum(c) == Cardinality(Alive(c)) >= c.quorum

\* A strict majority of the size the cluster starts with.
DefaultQuorum(n) == (n \div 2) + 1

\* master: the alive member that joined first.
Master(c) ==
    CHOOSE i \in Alive(c) : \A j \in Alive(c) : c.members[i].join <= c.members[j].join

Indices(c, u) == {i \in DOMAIN c.members : c.members[i].uuid = u}

IndexOf(c, u) == CHOOSE i \in Indices(c, u) : TRUE

IsAlive(c, u) == \E i \in Alive(c) : c.members[i].uuid = u

IsMaster(c, u) == Alive(c) # {} /\ c.members[Master(c)].uuid = u

\* The member j places after index i on the ring.
Ring(c, i, j) == ((i - 1 + j) % Len(c.members)) + 1

Owner(c, p) ==
    LET n == Len(c.members)
        home == (p % n) + 1
        steps == {j \in 0 .. n - 1 : c.alive[Ring(c, home, j)]}
    IN  IF steps = {} THEN home ELSE Ring(c, home, Min(steps))

BackupsOf(c, p) ==
    LET o == Owner(c, p)
        after == [j \in 1 .. Len(c.members) - 1 |-> Ring(c, o, j)]
        alive == SelectSeq(after, LAMBDA i : c.alive[i])
    IN  SubSeq(alive, 1, IF c.backups < Len(alive) THEN c.backups ELSE Len(alive))

RemoveMember(c, u) ==
    IF IsAlive(c, u)
    THEN [c EXCEPT !.alive[IndexOf(c, u)] = FALSE, !.gen = @ + 1]
    ELSE c

\* add_member: a dead member is revived in place, a new one appended with the next
\* join id; an alive one changes nothing.
AddMember(c, u) ==
    IF IsAlive(c, u) THEN c
    ELSE IF Indices(c, u) # {} THEN [c EXCEPT !.alive[IndexOf(c, u)] = TRUE, !.gen = @ + 1]
    ELSE [c EXCEPT !.members = Append(@, [uuid |-> u, join |-> 1 + Max({m.join : m \in {@[i] : i \in DOMAIN @}})]),
                   !.alive = Append(@, TRUE), !.gen = @ + 1]

\* set_view: members and liveness of a newer view; the rest is this member's own.
SetView(c, v) ==
    IF v.gen <= c.gen THEN c
    ELSE [c EXCEPT !.members = v.members, !.alive = v.alive, !.gen = v.gen]

-----------------------------------------------------------------------------
\* holder_uuids: the owner, then the backups.
Holders(c, p) ==
    LET ix == <<Owner(c, p)>> \o BackupsOf(c, p)
    IN  [i \in DOMAIN ix |-> c.members[ix[i]].uuid]

HolderSet(c, p) == {Holders(c, p)[i] : i \in DOMAIN Holders(c, p)}

\* The first old holder that is alive in the new view sends.
Senders(old, new, p) ==
    LET ok == {i \in DOMAIN Holders(old, p) : IsAlive(new, Holders(old, p)[i])}
    IN  IF ok = {} THEN {} ELSE {Holders(old, p)[Min(ok)]}

\* Mutant of Plan: only the new owner gets the data.
PlanOwnerOnly(old, new, parts, self) ==
    {<<p, Owner(new, p)>> : p \in {q \in parts :
        /\ self \in Senders(old, new, q)
        /\ new.members[Owner(new, q)].uuid \notin HolderSet(old, q)}}

\* plan: what self streams after a change, as pairs of partition and destination.
Plan(old, new, parts, self) ==
    {x \in parts \X DOMAIN new.members :
        LET w == new.members[x[2]].uuid
        IN  /\ self \in Senders(old, new, x[1])
            /\ w \in HolderSet(new, x[1]) /\ w # self /\ w \notin HolderSet(old, x[1])}
=============================================================================
