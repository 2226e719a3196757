-------------------------------- MODULE Reactor --------------------------------
(***************************************************************************)
(* A connection of the io_uring reactor (server/src/reactor.rs): what its  *)
(* receive and send completions do to it. Requests arrive in pieces, a     *)
(* piece never being shorter than the three bytes that tell the protocols  *)
(* apart; replies and events leave as a stream of messages, of which a     *)
(* send may take any prefix.                                               *)
(***************************************************************************)
EXTENDS Naturals, Sequences

NewConn(slot) ==
    [st |-> "open", slot |-> slot, mode |-> "unknown", acc |-> <<>>, frag |-> {}, out |-> <<>>,
     sendbuf |-> <<>>, inflight |-> 0, flushClose |-> FALSE, recv |-> TRUE, gone |-> FALSE]

NoConn == [NewConn(0) EXCEPT !.st = "none"]

(* "CP2", "*", an upper case letter, anything else.                        *)
ModeOf(q) == CASE q.kind = "redis" -> "resp"
               [] q.kind = "http" -> "http"
               [] q.kind = "memcache" -> "memcache"
               [] OTHER -> "binary"

(* A receive completed with n > 0; the next is not armed yet.              *)
Ingest(c, pieces) ==
    [c EXCEPT !.acc = @ \o pieces, !.recv = FALSE,
              !.mode = IF @ = "unknown" THEN ModeOf(Head(pieces).q) ELSE @]

(* Reassembler::push: fragments wait under the id of their message until   *)
(* the last one, which makes it whole.                                     *)
Completes(p) == p.part = p.q.parts

Reassemble(c, p) == [c EXCEPT !.frag = @ \cup {p.q.corr}]

(* A mutant: a send is armed over one that is in flight.                   *)
MaybeArmSendAgain(c) ==
    LET buf == IF c.sendbuf = <<>> THEN c.out ELSE c.sendbuf
    IN IF buf = <<>> THEN [c |-> c, send |-> <<>>]
       ELSE [c |-> [c EXCEPT !.sendbuf = buf, !.out = IF c.sendbuf = <<>> THEN <<>> ELSE @,
                             !.inflight = Len(buf)],
             send |-> buf]

(* The buffer that is being sent is apart from the one that takes appends; *)
(* they are swapped when it is empty.                                      *)
MaybeArmSend(c) ==
    LET buf == IF c.sendbuf = <<>> THEN c.out ELSE c.sendbuf
    IN IF c.inflight > 0 \/ buf = <<>> THEN [c |-> c, send |-> <<>>]
       ELSE [c |-> [c EXCEPT !.sendbuf = buf, !.out = IF c.sendbuf = <<>> THEN <<>> ELSE @,
                             !.inflight = Len(buf)],
             send |-> buf]

(* A send completed with k bytes: consume them, close if that was all and  *)
(* the connection is to close, else arm the next.                          *)
OnSend(c, k) ==
    LET rest == [c EXCEPT !.sendbuf = SubSeq(@, k + 1, Len(@)), !.inflight = 0]
    IN IF rest.sendbuf = <<>> /\ rest.out = <<>> /\ rest.flushClose
       THEN [c |-> [rest EXCEPT !.st = "closing"], send |-> <<>>]
       ELSE MaybeArmSend(rest)

(* drain(0..sent) panics past the end of the buffer.                       *)
Panics(c, k) == k > Len(c.sendbuf)
=============================================================================
