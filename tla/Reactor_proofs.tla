--------------------------- MODULE Reactor_proofs ---------------------------
(***************************************************************************)
(* The two buffers of a connection keep its output stream, whatever prefix *)
(* each send takes.                                                        *)
(***************************************************************************)
EXTENDS Reactor, SequenceTheorems, TLAPS

Status == {"none", "open", "closing", "closed"}

\* A connection over a set M that has the pieces, messages and ids that occur.
ConnOf(M) ==
    [st : Status, slot : Nat, mode : STRING, acc : Seq(M), frag : SUBSET M, out : Seq(M),
     sendbuf : Seq(M), inflight : Nat, flushClose : BOOLEAN, recv : BOOLEAN, gone : BOOLEAN]

\* What the connection has still to send, in order.
Stream(c) == c.sendbuf \o c.out

\* A send in flight covers exactly the buffer that stays in place for it.
SendCovers(c) == c.inflight \in {0, Len(c.sendbuf)}

LEMMA SetSendbuf ==
    ASSUME NEW M, NEW c \in ConnOf(M), NEW buf \in Seq(M)
    PROVE  LET a == [c EXCEPT !.sendbuf = buf]
           IN  /\ a \in ConnOf(M) /\ a.sendbuf = buf /\ a.out = c.out
               /\ a.inflight = c.inflight /\ a.st = c.st /\ a.flushClose = c.flushClose
  BY DEF ConnOf

LEMMA SetOut ==
    ASSUME NEW M, NEW c \in ConnOf(M), NEW rest \in Seq(M)
    PROVE  LET a == [c EXCEPT !.out = rest]
           IN  /\ a \in ConnOf(M) /\ a.sendbuf = c.sendbuf /\ a.out = rest
               /\ a.inflight = c.inflight /\ a.st = c.st /\ a.flushClose = c.flushClose
  BY DEF ConnOf

LEMMA SetInflight ==
    ASSUME NEW M, NEW c \in ConnOf(M), NEW n \in Nat
    PROVE  LET a == [c EXCEPT !.inflight = n]
           IN  /\ a \in ConnOf(M) /\ a.sendbuf = c.sendbuf /\ a.out = c.out
               /\ a.inflight = n /\ a.st = c.st /\ a.flushClose = c.flushClose
  BY DEF ConnOf

LEMMA SetStatus ==
    ASSUME NEW M, NEW c \in ConnOf(M), NEW s \in Status
    PROVE  LET a == [c EXCEPT !.st = s]
           IN  /\ a \in ConnOf(M) /\ a.sendbuf = c.sendbuf /\ a.out = c.out
               /\ a.inflight = c.inflight /\ a.st = s /\ a.flushClose = c.flushClose
  BY DEF ConnOf

\* maybe_arm_send loses, repeats and reorders nothing, arms no send over another,
\* and leaves no output without a send in flight.
THEOREM ArmingKeepsStream ==
    ASSUME NEW M, NEW c \in ConnOf(M), SendCovers(c)
    PROVE  LET r == MaybeArmSend(c)
           IN  /\ r.c \in ConnOf(M) /\ SendCovers(r.c)
               /\ Stream(r.c) = Stream(c)
               /\ r.send # <<>> => c.inflight = 0 /\ r.send = r.c.sendbuf
               /\ Stream(c) # <<>> => r.c.inflight > 0
<1> DEFINE buf == IF c.sendbuf = <<>> THEN c.out ELSE c.sendbuf
           rest == IF c.sendbuf = <<>> THEN <<>> ELSE c.out
           a1 == [c EXCEPT !.sendbuf = buf]
           a2 == [a1 EXCEPT !.out = rest]
           a3 == [a2 EXCEPT !.inflight = Len(buf)]
<1>1. /\ c.sendbuf \in Seq(M) /\ c.out \in Seq(M) /\ c.inflight \in Nat
      /\ buf \in Seq(M) /\ rest \in Seq(M) /\ Len(buf) \in Nat
  BY DEF ConnOf
<1>2. CASE c.inflight > 0 \/ buf = <<>>
  <2>1. MaybeArmSend(c) = [c |-> c, send |-> <<>>]
    BY <1>2 DEF MaybeArmSend
  <2>2. Stream(c) # <<>> => c.inflight > 0
    BY <1>1, <1>2 DEF Stream
  <2> QED
    BY <2>1, <2>2
<1>3. CASE ~(c.inflight > 0 \/ buf = <<>>)
  <2>1. MaybeArmSend(c) = [c |-> a3, send |-> buf]
    BY <1>3, Zenon DEF MaybeArmSend
  <2>2. a1 \in ConnOf(M) /\ a1.sendbuf = buf
    BY <1>1, SetSendbuf
  <2> HIDE DEF a1
  <2>3. a2 \in ConnOf(M) /\ a2.sendbuf = buf /\ a2.out = rest
    BY <1>1, <2>2, SetOut
  <2> HIDE DEF a2
  <2>4. a3 \in ConnOf(M) /\ a3.sendbuf = buf /\ a3.out = rest /\ a3.inflight = Len(buf)
    BY <1>1, <2>3, SetInflight
  <2> HIDE DEF a3
  <2>5. buf \o rest = c.sendbuf \o c.out
    <3>1. CASE c.sendbuf = <<>>
      BY <1>1, <3>1, ConcatEmptySeq, Zenon
    <3>2. CASE c.sendbuf # <<>>
      BY <3>2
    <3> QED
      BY <3>1, <3>2
  <2>6. Len(buf) > 0 /\ c.inflight = 0
    BY <1>1, <1>3
  <2>7. Stream(a3) = Stream(c) /\ SendCovers(a3) /\ a3.inflight > 0
    BY <1>1, <2>4, <2>5, <2>6 DEF Stream, SendCovers
  <2>8. MaybeArmSend(c).c = a3 /\ MaybeArmSend(c).send = buf
    BY <2>1
  <2> HIDE DEF buf
  <2> QED
    BY <2>4, <2>6, <2>7, <2>8
<1> QED
  BY <1>2, <1>3

\* A completed send takes its prefix off the stream and nothing else: what went out
\* followed by what is left is what there was, and what is left is in flight unless
\* it is nothing, in which case a connection that is to close closes.
THEOREM CompletionTakesPrefix ==
    ASSUME NEW M, NEW c \in ConnOf(M), SendCovers(c), NEW k \in 1 .. Len(c.sendbuf)
    PROVE  LET r == OnSend(c, k)
           IN  /\ r.c \in ConnOf(M) /\ SendCovers(r.c)
               /\ Stream(c) = SubSeq(c.sendbuf, 1, k) \o Stream(r.c)
               /\ Stream(r.c) # <<>> => r.c.inflight > 0
               /\ Stream(r.c) = <<>> /\ c.flushClose => r.c.st = "closing"
<1> DEFINE left == SubSeq(c.sendbuf, k + 1, Len(c.sendbuf))
           gone == SubSeq(c.sendbuf, 1, k)
           r1 == [c EXCEPT !.sendbuf = left]
           rest == [r1 EXCEPT !.inflight = 0]
<1>1. /\ c.sendbuf \in Seq(M) /\ c.out \in Seq(M) /\ c.inflight \in Nat
      /\ k \in Nat /\ Len(c.sendbuf) \in Nat
  BY DEF ConnOf
<1>2. left \in Seq(M) /\ gone \in Seq(M)
  BY <1>1, ElementOfSeq, SubSeqProperties
<1>3. c.sendbuf = gone \o left
  <2>1. SubSeq(c.sendbuf, 1, Len(c.sendbuf)) = c.sendbuf
    BY <1>1, SubSeqFull
  <2>2. SubSeq(c.sendbuf, 1, k) \o SubSeq(c.sendbuf, k + 1, Len(c.sendbuf))
           = SubSeq(c.sendbuf, 1, Len(c.sendbuf))
    BY <1>1, ConcatAdjacentSubSeq
  <2> QED
    BY <2>1, <2>2
<1> HIDE DEF left, gone
<1>4. r1 \in ConnOf(M) /\ r1.sendbuf = left /\ r1.out = c.out /\ r1.flushClose = c.flushClose
  BY <1>2, SetSendbuf
<1> HIDE DEF r1
<1>5. /\ rest \in ConnOf(M) /\ rest.sendbuf = left /\ rest.out = c.out /\ rest.inflight = 0
      /\ rest.flushClose = c.flushClose
  BY <1>4, SetInflight
<1>6. OnSend(c, k) = IF rest.sendbuf = <<>> /\ rest.out = <<>> /\ rest.flushClose
                     THEN [c |-> [rest EXCEPT !.st = "closing"], send |-> <<>>]
                     ELSE MaybeArmSend(rest)
  BY Zenon DEF OnSend, rest, r1, left
<1> HIDE DEF rest
<1>7. Stream(c) = gone \o Stream(rest) /\ SendCovers(rest)
  <2> DEFINE out == c.out
  <2> HIDE DEF out
  <2>0. out \in Seq(M)
    BY <1>1 DEF out
  <2>1. (gone \o left) \o out = gone \o (left \o out)
    BY <1>2, <2>0, ConcatAssociative
  <2> QED
    BY <1>3, <1>5, <2>1 DEF Stream, SendCovers, out
<1>8. CASE rest.sendbuf = <<>> /\ rest.out = <<>> /\ rest.flushClose
  <2> DEFINE closing == "closing"
             shut == [rest EXCEPT !.st = closing]
  <2>0. closing \in Status
    BY DEF Status
  <2> HIDE DEF closing
  <2>1. /\ shut \in ConnOf(M) /\ shut.sendbuf = rest.sendbuf /\ shut.out = rest.out
        /\ shut.inflight = rest.inflight /\ shut.st = closing
    BY <1>5, <2>0, SetStatus
  <2>2. OnSend(c, k).c = shut
    BY <1>6, <1>8 DEF closing
  <2> HIDE DEF shut
  <2>3. Stream(shut) = Stream(rest) /\ SendCovers(shut) /\ Stream(shut) = <<>>
    BY <1>5, <1>8, <2>1, ConcatEmptySeq DEF Stream, SendCovers
  <2> QED
    BY <1>7, <2>1, <2>2, <2>3 DEF gone, closing
<1>9. CASE ~(rest.sendbuf = <<>> /\ rest.out = <<>> /\ rest.flushClose)
  <2>1. OnSend(c, k) = MaybeArmSend(rest)
    BY <1>6, <1>9
  <2> DEFINE a == MaybeArmSend(rest)
  <2>2. /\ a.c \in ConnOf(M) /\ SendCovers(a.c) /\ Stream(a.c) = Stream(rest)
        /\ Stream(rest) # <<>> => a.c.inflight > 0
    BY <1>5, <1>7, ArmingKeepsStream
  <2>3. Stream(rest) = <<>> => rest.sendbuf = <<>> /\ rest.out = <<>>
    BY <1>1, <1>2, <1>5, ConcatEqualIffEmpty DEF Stream
  <2> HIDE DEF a
  <2>4. OnSend(c, k) = a
    BY <2>1 DEF a
  <2> QED
    BY <1>5, <1>7, <1>9, <2>2, <2>3, <2>4 DEF gone
<1> QED
  BY <1>8, <1>9
=============================================================================
