---------------------------- MODULE BoundedFifo ----------------------------
(***************************************************************************)
(* What a bounded single-consumer queue promises: values come out in the   *)
(* order they went in, each once, at most Cap inside at a time.            *)
(***************************************************************************)
EXTENDS Integers, Sequences

CONSTANTS Value, Cap

VARIABLES
    q,      \* the values inside
    got,    \* the value last handed to the consumer
    live    \* the queue has not been dropped

fifoVars == <<q, got, live>>

Init == q = <<>> /\ got \in Value /\ live = TRUE

Push == /\ live /\ Len(q) < Cap
        /\ \E v \in Value : q' = Append(q, v)
        /\ UNCHANGED <<got, live>>

Pop == /\ live /\ q # <<>>
       /\ got' = Head(q)
       /\ q' = Tail(q)
       /\ UNCHANGED live

Drop == live /\ live' = FALSE /\ q' = <<>> /\ UNCHANGED got

Next == Push \/ Pop \/ Drop

Spec == Init /\ [][Next]_fifoVars
=============================================================================
