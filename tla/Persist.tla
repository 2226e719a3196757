-------------------------------- MODULE Persist --------------------------------
(***************************************************************************)
(* Local durability: the write-ahead log, its segments, the snapshots, and *)
(* recovery (crates/persistence and server/src/persist_thread.rs).         *)
(*                                                                         *)
(* The disk is the sequence of segments in generation order, each with its *)
(* records and how many of them an fsync has covered, and the snapshots    *)
(* that have their final name. pc and part are the persistence thread's    *)
(* place in its loop and the half-collected snapshot.                      *)
(***************************************************************************)
EXTENDS StoreFront

CONSTANTS SnapshotLen,  \* records in a segment that start a snapshot
          WalRing       \* capacity of the ring to the persistence thread

ASSUME PersistAssumption == SnapshotLen \in Nat \ {0} /\ WalRing \in Nat \ {0}

Segment(g) == [gen |-> g, recs |-> <<>>, synced |-> 0]

NewDisk == [segs |-> <<Segment(1)>>, snaps |-> <<>>, dirty |-> FALSE, pc |-> "drain",
            part |-> [val |-> <<>>, at |-> <<>>]]

(* Persister: a full ring drops the record.                                *)
PushRecord(ring, r) == IF Len(ring) < WalRing THEN Append(ring, r) ELSE ring

Current(d) == d.segs[Len(d.segs)]

WithCurrent(d, seg) == [d EXCEPT !.segs = [@ EXCEPT ![Len(@)] = seg]]

AppendRecord(d, r) ==
    [WithCurrent(d, [Current(d) EXCEPT !.recs = Append(@, r)]) EXCEPT !.dirty = TRUE]

Fsync(d) ==
    [WithCurrent(d, [Current(d) EXCEPT !.synced = Len(Current(d).recs)]) EXCEPT !.dirty = FALSE]

LongEnough(d) == Len(Current(d).recs) >= SnapshotLen

(* Once the ring is empty: an fsync if it is due, then the size check.     *)
Flush(d, due) == [(IF due THEN Fsync(d) ELSE d) EXCEPT !.pc = IF LongEnough(d) THEN "roll" ELSE "drain"]

Roll(d) ==
    LET s == Fsync(d)
    IN [s EXCEPT !.segs = Append(@, Segment(Current(d).gen + 1)), !.pc = "entries"]

(* write_snapshot reads the map entries first, then every structure but    *)
(* the cardinality estimators and the id generators.                       *)
CollectEntries(d, m) ==
    [d EXCEPT !.part = [val |-> [i \in MapItem |-> m.val[i]], at |-> m.at], !.pc = "aux"]

InSnapshots(i) == i[1] \notin {"hll", "flake"}

(* The rename that gives the snapshot its name, or an error of the write,  *)
(* which is ignored.                                                       *)
WriteSnapshot(d, m, ok) ==
    LET snap == [gen |-> Current(d).gen, at |-> d.part.at,
                 val |-> [i \in Items |-> IF i \in MapItem THEN d.part.val[i]
                                          ELSE IF InSnapshots(i) THEN m.val[i] ELSE Nothing(i)]]
    IN [d EXCEPT !.snaps = IF ok THEN Append(@, snap) ELSE @,
                 !.part = [val |-> <<>>, at |-> <<>>], !.pc = "prune"]

(* remove_file(old) and prune_below: everything below this generation.     *)
Prune(d) ==
    [d EXCEPT !.segs = SelectSeq(@, LAMBDA s : s.gen >= Current(d).gen),
              !.snaps = SelectSeq(@, LAMBDA s : s.gen >= Current(d).gen),
              !.dirty = FALSE, !.pc = "drain"]

MaxLen(d) == Max({Len(d.segs[n].recs) : n \in DOMAIN d.segs})

(* What a loss of power can leave: of every segment a prefix that holds    *)
(* what an fsync covered. A torn record ends a segment (read_segment).     *)
Cuts(d) ==
    {[d EXCEPT !.segs = [n \in DOMAIN @ |-> [@[n] EXCEPT !.recs = SubSeq(@, 1, len[n]), !.synced = len[n]]]] :
        len \in {f \in [DOMAIN d.segs -> 0 .. MaxLen(d)] :
                   \A n \in DOMAIN f : f[n] \in d.segs[n].synced .. Len(d.segs[n].recs)}}

-----------------------------------------------------------------------------
SnapshotGen(d) == IF d.snaps = <<>> THEN 0 ELSE d.snaps[Len(d.snaps)].gen

(* load_snapshot: entries merge into the empty store, structures are       *)
(* installed.                                                              *)
LoadSnapshot(d) ==
    IF d.snaps = <<>> THEN NewStore
    ELSE LET s == d.snaps[Len(d.snaps)]
         IN [val |-> s.val, at |-> s.at, clock |-> Max({s.at[i] : i \in MapItem})]

Replay(m, r) == CASE r.kind = "put" -> PutMerge(m, r.i, r.v, r.s)
                  [] r.kind = "remove" -> StoreRemove(m, r.i).m
                  [] r.kind = "aux" -> InstallAux(m, r.i, r.v)


Replayed(d) == SelectSeq(d.segs, LAMBDA s : s.gen >= SnapshotGen(d))

Recover(d) ==
    FoldLeft(LAMBDA m, s : FoldLeft(LAMBDA n, r : Replay(n, r), m, s.recs), LoadSnapshot(d), Replayed(d))

(* The persistence thread of the next process starts above all it found.   *)
Reopen(d) ==
    LET top == IF Current(d).gen > SnapshotGen(d) THEN Current(d).gen ELSE SnapshotGen(d)
    IN [NewDisk EXCEPT !.segs = Append(d.segs, Segment(top + 1)), !.snaps = d.snaps]
=============================================================================
