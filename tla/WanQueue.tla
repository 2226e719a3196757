----------------------------- MODULE WanQueue -----------------------------
(***************************************************************************)
(* The outbound half of WAN replication: the loop of the WAN thread        *)
(* (crates/server/src/wan_thread.rs) over the durable queue                *)
(* (crates/wan/src/queue.rs).  Captured mutations are numbered in the      *)
(* order they are captured, and a number stands for the record; every      *)
(* record takes one byte of the queue's bound.                             *)
(*                                                                         *)
(* The process may die between any two writes to the disk, and in the      *)
(* middle of an append, which leaves a torn record at the end of the file. *)
(***************************************************************************)
EXTENDS Integers, Sequences, FiniteSets, SequencesExt, FiniteSetsExt

CONSTANTS
    Target,        \* cfg.targets: the remote clusters
    Default,       \* DEFAULT_TARGET, the cursor "" that no remote cluster has
    Torn,          \* a partly written record
    RingSize,      \* capacity of the capture ring
    Batch,         \* cfg.batch
    QueueBytes,    \* cfg.queue_bytes
    MaxRecords,    \* bound: mutations captured
    MaxCrashes,    \* bound: times the process dies
    MaxLate        \* bound: batches on their way after their ack timed out

ASSUME QueueAssumption ==
    /\ Default \notin Target /\ Target # {}
    /\ RingSize \in Nat \ {0} /\ Batch \in Nat \ {0} /\ QueueBytes \in Nat \ {0}
    /\ MaxRecords \in Nat /\ MaxCrashes \in Nat /\ MaxLate \in Nat

VARIABLES
    policy,     \* cfg.backpressure
    ring,       \* records the publisher pushed and the thread has not popped
    q,          \* WanQueue in memory: records, base, next, cursors, bytes
    disk,       \* its files: log (records.log), base, cursors
    pc,         \* "drain", "ship", "reclaim", "base" (inside reclaim) or "down"
    todo,       \* targets still to be served in this round of shipping
    late,       \* batches whose ack timed out, still on their way
    got,        \* got[t]: the records remote cluster t has applied
    captured,   \* number of mutations captured
    appended,   \* history: the records appended, in order; the index is the seq
    damaged,    \* history: a crash hit one of the two windows named at Crash
    crashes     \* number of crashes so far

vars == <<policy, ring, q, disk, pc, todo, late, got, captured, appended, damaged, crashes>>

\* The records of the file up to the first torn one, which is all that open reads.
Readable(log) ==
    LET torn == {k \in 1 .. Len(log) : log[k] = Torn}
    IN  IF torn = {} THEN log ELSE SubSeq(log, 1, Min(torn) - 1)

\* WanQueue::open, then set_targets.
Opened(d) ==
    LET recs == Readable(d.log)
    IN  [records |-> [k \in 1 .. Len(recs) |-> [seq |-> d.base + k, rec |-> recs[k]]],
         base    |-> d.base,
         next    |-> d.base + Len(recs) + 1,
         cursors |-> [t \in DOMAIN d.cursors \cup Target |->
                        IF t \in DOMAIN d.cursors THEN d.cursors[t] ELSE 0],
         bytes   |-> Len(recs)]

Fresh == [log |-> <<>>, base |-> 0, cursors |-> <<>>]

Init ==
    /\ policy \in {"Throw", "DropOldest"}
    /\ ring = <<>>
    /\ disk = Fresh
    /\ q = Opened(Fresh)
    /\ pc = "drain"
    /\ todo = {} /\ late = {}
    /\ got = [t \in Target |-> {}]
    /\ captured = 0 /\ appended = <<>>
    /\ damaged = FALSE /\ crashes = 0

\* WanPublisher: a mutation is pushed, or dropped when the ring is full.
Capture ==
    /\ pc # "down"
    /\ captured < MaxRecords
    /\ captured' = captured + 1
    /\ ring' = IF Len(ring) < RingSize THEN Append(ring, captured + 1) ELSE ring
    /\ UNCHANGED <<policy, q, disk, pc, todo, late, got, appended, damaged, crashes>>

WouldExceed == q.bytes >= QueueBytes

\* WanQueue::append
Appended(queue, r) ==
    [queue EXCEPT !.bytes = @ + 1, !.next = @ + 1,
                  !.records = Append(@, [seq |-> queue.next, rec |-> r])]

TargetAcked(queue, t) == IF t \in DOMAIN queue.cursors THEN queue.cursors[t] ELSE 0

\* WanQueue::ack_target; the cursors are written out whenever one advances.
AckTarget(queue, t, upTo) ==
    LET capped == Min({upTo, queue.next - 1})
    IN  [queue EXCEPT !.cursors = [x \in DOMAIN @ \cup {t} |->
            IF x = t THEN Max({TargetAcked(queue, t), capped}) ELSE @[x]]]

PersistedCursors(old, new) ==
    IF \E t \in DOMAIN new.cursors : new.cursors[t] > TargetAcked(old, t)
    THEN new.cursors ELSE disk.cursors


\* Room, or what DropOldest does to make room.
RoomMade == IF WouldExceed THEN AckTarget(q, Default, TargetAcked(q, Default) + 1) ELSE q

\* One turn of the drain loop, that appends.
DrainAppend ==
    /\ pc = "drain" /\ ring # <<>>
    /\ WouldExceed => policy = "DropOldest"
    /\ q' = Appended(RoomMade, Head(ring))
    /\ disk' = [disk EXCEPT !.log = Append(@, Head(ring)),
                            !.cursors = PersistedCursors(q, RoomMade)]
    /\ appended' = Append(appended, Head(ring))
    /\ ring' = Tail(ring)
    /\ UNCHANGED <<policy, pc, todo, late, got, captured, damaged, crashes>>

\* ... no room under Throw: the loop ends, and the record just popped is gone.
DrainThrow ==
    /\ pc = "drain" /\ ring # <<>>
    /\ WouldExceed /\ policy = "Throw"
    /\ ring' = Tail(ring)
    /\ pc' = "ship" /\ todo' = Target
    /\ UNCHANGED <<policy, q, disk, late, got, captured, appended, damaged, crashes>>

DrainDone ==
    /\ pc = "drain" /\ ring = <<>>
    /\ pc' = "ship" /\ todo' = Target
    /\ UNCHANGED <<policy, ring, q, disk, late, got, captured, appended, damaged, crashes>>

\* Mutant of UnackedFor: the record right after the cursor is skipped.
UnackedFromNext(t) == SelectSeq(q.records, LAMBDA r : r.seq > TargetAcked(q, t) + 1)

UnackedFor(t) == SelectSeq(q.records, LAMBDA r : r.seq > TargetAcked(q, t))

\* The next chunk for target t; the cursor moves only with it, so the chunks of
\* one round are the first chunks of what is unacked at each turn.
Chunk(t) == SubSeq(UnackedFor(t), 1, Min({Batch, Len(UnackedFor(t))}))

Records(chunk) == {chunk[k].rec : k \in 1 .. Len(chunk)}

\* ship_batch succeeds: the remote cluster applied the batch and its ack arrived.
ShipOk(t) ==
    /\ pc = "ship" /\ t \in todo /\ UnackedFor(t) # <<>>
    /\ got' = [got EXCEPT ![t] = @ \cup Records(Chunk(t))]
    /\ \E acked \in {AckTarget(q, t, Last(Chunk(t)).seq)} :
          /\ q' = acked
          /\ disk' = [disk EXCEPT !.cursors = PersistedCursors(q, acked)]
    /\ UNCHANGED <<policy, ring, pc, todo, late, captured, appended, damaged, crashes>>

\* ... the connection fails: this target waits for the next round.
ShipFails(t) ==
    /\ pc = "ship" /\ t \in todo /\ UnackedFor(t) # <<>>
    /\ todo' = todo \ {t}
    /\ UNCHANGED <<policy, ring, q, disk, pc, late, got, captured, appended, damaged, crashes>>

\* ... or the ack does not come in time: the batch may be applied at any later time.
ShipTimesOut(t) ==
    /\ pc = "ship" /\ t \in todo /\ UnackedFor(t) # <<>>
    /\ Cardinality(late) < MaxLate
    /\ todo' = todo \ {t}
    /\ late' = late \cup {[to |-> t, recs |-> Records(Chunk(t))]}
    /\ UNCHANGED <<policy, ring, q, disk, pc, got, captured, appended, damaged, crashes>>

\* handle_inbound at the remote cluster, for a batch nobody waits for.
ArriveLate(b) ==
    /\ got' = [got EXCEPT ![b.to] = @ \cup b.recs]
    /\ late' = late \ {b}
    /\ UNCHANGED <<policy, ring, q, disk, pc, todo, captured, appended, damaged, crashes>>

ShipNext(t) ==
    /\ pc = "ship" /\ t \in todo /\ UnackedFor(t) = <<>>
    /\ todo' = todo \ {t}
    /\ UNCHANGED <<policy, ring, q, disk, pc, late, got, captured, appended, damaged, crashes>>

ShipDone ==
    /\ pc = "ship" /\ todo = {}
    /\ pc' = "reclaim"
    /\ UNCHANGED <<policy, ring, q, disk, todo, late, got, captured, appended, damaged, crashes>>

\* Mutant of MinAcked: reclaim trusts the fastest target.
MaxAcked == Max({q.cursors[t] : t \in DOMAIN q.cursors})

MinAcked == Min({q.cursors[t] : t \in DOMAIN q.cursors})

\* Mutant of ReclaimNothing: with nothing to reclaim the loop does not go on.
ReclaimEndsLoop == FALSE

ReclaimNothing ==
    /\ pc = "reclaim" /\ MinAcked <= q.base
    /\ pc' = "drain"
    /\ UNCHANGED <<policy, ring, q, disk, todo, late, got, captured, appended, damaged, crashes>>

\* reclaim: the log is replaced by one without the confirmed records ...
ReclaimRename ==
    LET kept == SelectSeq(q.records, LAMBDA r : r.seq > MinAcked)
    IN  /\ pc = "reclaim" /\ MinAcked > q.base
        /\ q' = [q EXCEPT !.records = kept, !.base = MinAcked, !.bytes = Len(kept)]
        /\ disk' = [disk EXCEPT !.log = [k \in 1 .. Len(kept) |-> kept[k].rec]]
        /\ pc' = "base"
        /\ UNCHANGED <<policy, ring, todo, late, got, captured, appended, damaged, crashes>>

\* Mutant of ReclaimBase: the base stays in memory only.
ReclaimBaseUnwritten ==
    /\ pc = "base"
    /\ pc' = "drain"
    /\ UNCHANGED <<policy, ring, q, disk, todo, late, got, captured, appended, damaged, crashes>>

\* ... and then the base is.
ReclaimBase ==
    /\ pc = "base"
    /\ disk' = [disk EXCEPT !.base = q.base]
    /\ pc' = "drain"
    /\ UNCHANGED <<policy, ring, q, todo, late, got, captured, appended, damaged, crashes>>

\* The process dies: memory and ring are gone, and `files' is what is left.  Two windows are noted: between the rename and the new base, and with
\* records behind a torn one, where open does not see them.
Crash(files) ==
    /\ crashes < MaxCrashes
    /\ crashes' = crashes + 1
    /\ damaged' = (damaged \/ pc = "base" \/ Len(Readable(disk.log)) + 1 < Len(disk.log))
    /\ disk' = files
    /\ pc' = "down"
    /\ ring' = <<>> /\ todo' = {}
    /\ UNCHANGED <<policy, q, late, got, captured, appended>>

CrashBetween == pc # "down" /\ Crash(disk)

\* In a turn of the drain loop: the cursor is written, the record not or not whole.
CrashInDrain ==
    /\ pc = "drain" /\ ring # <<>> /\ (WouldExceed => policy = "DropOldest")
    /\ \E tail \in {<<>>, <<Torn>>} :
          Crash([disk EXCEPT !.log = @ \o tail, !.cursors = PersistedCursors(q, RoomMade)])

Restart ==
    /\ pc = "down"
    /\ q' = Opened(disk)
    /\ pc' = "drain"
    /\ UNCHANGED <<policy, ring, disk, todo, late, got, captured, appended, damaged, crashes>>

Drain == DrainAppend \/ DrainThrow \/ DrainDone

Reclaim == ReclaimNothing \/ ReclaimRename \/ ReclaimBase

Next ==
    \/ Capture
    \/ Drain
    \/ \E t \in Target : ShipOk(t) \/ ShipFails(t) \/ ShipTimesOut(t) \/ ShipNext(t)
    \/ \E b \in late : ArriveLate(b)
    \/ ShipDone \/ Reclaim
    \/ CrashBetween \/ CrashInDrain \/ Restart

Spec == Init /\ [][Next]_vars

\* The thread loops for ever, the operator restarts a dead process, and a remote
\* cluster that is tried again and again answers again and again.
FairSpec ==
    /\ Spec
    /\ WF_vars(Drain \/ ShipDone \/ Reclaim)
    /\ WF_vars(\E t \in Target : ShipFails(t) \/ ShipTimesOut(t) \/ ShipNext(t))
    /\ WF_vars(Restart)
    /\ \A t \in Target : SF_vars(ShipOk(t))

-----------------------------------------------------------------------------
\* A seq names the same record for ever, across compaction and reopening (the
\* header of queue.rs: the base "keeps absolute seqs - and thus the cursors -
\* stable across compaction and reopen"), unless a crash hit one of the windows.
SeqsStable ==
    damaged \/ pc = "down" \/
        \A k \in 1 .. Len(q.records) :
            /\ q.records[k].seq \in 1 .. Len(appended)
            /\ q.records[k].rec = appended[q.records[k].seq]

\* A remote cluster gets the records without a hole, and its cursor, in memory and
\* on disk, covers only records it has applied: what is acked needs no second look.
AckedWasApplied ==
    damaged \/
        \A t \in Target :
            \E n \in 0 .. Len(appended) :
                /\ got[t] = {appended[s] : s \in 1 .. n}
                /\ pc # "down" => TargetAcked(q, t) <= n
                /\ t \in DOMAIN disk.cursors => disk.cursors[t] <= n

\* No record is dropped from the disk before every remote cluster has it: a crash
\* at any other moment costs no record that was appended.
RetainedUntilApplied ==
    damaged \/
        \A s \in 1 .. Len(appended) :
            (\E t \in Target : appended[s] \notin got[t]) =>
                appended[s] \in Range(IF pc = "down" THEN Readable(disk.log) ELSE disk.log)


\* Every appended record reaches every remote cluster that is up now and then,
\* through timeouts, crashes and restarts.
EventuallyDelivered ==
    \A s \in 1 .. MaxRecords : \A t \in Target :
        Len(appended) >= s ~> damaged \/ (Len(appended) >= s /\ appended[s] \in got[t])
=============================================================================
