------------------------------ MODULE RaftLog ------------------------------
(***************************************************************************)
(* The in-memory Raft log of crates/raft/src/log.rs as operators on a      *)
(* record [entries, snapIndex, snapTerm].  Entries carry their own index   *)
(* because the code trusts that field, and the position in `entries', to   *)
(* agree: term_at and truncate_from compute a position from the index,     *)
(* last_index reads the field.                                             *)
(***************************************************************************)
EXTENDS Integers, Sequences

CONSTANT Command

Entry == [term : Nat, index : Nat, command : Command]

LogType == [entries : Seq(Entry), snapIndex : Nat, snapTerm : Nat]

EmptyLog == [entries |-> <<>>, snapIndex |-> 0, snapTerm |-> 0]

\* u64::saturating_sub
Monus(a, b) == IF a >= b THEN a - b ELSE 0

Least(a, b) == IF a <= b THEN a ELSE b

Greatest(a, b) == IF a >= b THEN a ELSE b

\* Position of a live index in `entries', 0 when the index is not live.
Pos(l, index) ==
    IF index > l.snapIndex /\ index - l.snapIndex <= Len(l.entries)
    THEN index - l.snapIndex
    ELSE 0

LastIndex(l) ==
    IF l.entries = <<>> THEN l.snapIndex ELSE l.entries[Len(l.entries)].index

LastTerm(l) ==
    IF l.entries = <<>> THEN l.snapTerm ELSE l.entries[Len(l.entries)].term

TermAt(l, index) ==
    IF index = 0 THEN 0
    ELSE IF index = l.snapIndex THEN l.snapTerm
    ELSE IF Pos(l, index) = 0 THEN 0 ELSE l.entries[Pos(l, index)].term

EntriesFrom(l, from) ==
    SubSeq(l.entries, Monus(from, l.snapIndex + 1) + 1, Len(l.entries))

\* The memory log only: a durable log ignores compact().
Compact(l, upTo) ==
    IF upTo <= l.snapIndex \/ upTo > LastIndex(l) THEN l
    ELSE [entries   |-> SubSeq(l.entries, 1 + Least(upTo - l.snapIndex, Len(l.entries)),
                               Len(l.entries)),
          snapIndex |-> upTo,
          snapTerm  |-> TermAt(l, upTo)]

AppendEntry(l, e) == [l EXCEPT !.entries = Append(@, e)]

TruncateFrom(l, index) ==
    [l EXCEPT !.entries =
        SubSeq(@, 1, Least(Monus(index, l.snapIndex + 1), Len(@)))]

\* The entry is folded into the snapshot, or held with the same term.
Holds(l, e) ==
    \/ e.index <= l.snapIndex
    \/ TermAt(l, e.index) = e.term /\ LastIndex(l) >= e.index


\* The loop of on_append over the received entries: everything up to the first
\* entry not held is skipped; that one truncates the log, and it and all that
\* follow are appended (their indices only grow, so none of them is held).
MergeEntries(l, es) ==
    LET missing == {k \in 1 .. Len(es) : ~Holds(l, es[k])}
    IN  IF missing = {} THEN l
        ELSE LET first == CHOOSE k \in missing : \A j \in missing : k <= j
             IN  [l EXCEPT !.entries = TruncateFrom(l, es[first].index).entries
                                         \o SubSeq(es, first, Len(es))]
=============================================================================
