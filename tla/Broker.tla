-------------------------------- MODULE Broker --------------------------------
(***************************************************************************)
(* The event broker of server/src/events.rs: who listens to what, and for  *)
(* every connection the event messages that wait for the reactor to drain  *)
(* them. There is one map and one topic.                                   *)
(***************************************************************************)
EXTENDS Naturals, Sequences, SequencesExt

CONSTANT Conn

NewBroker == [listeners |-> <<>>, near |-> <<>>, topics |-> <<>>, views |-> {},
              seq |-> 1, queue |-> [c \in Conn |-> <<>>]]

RegisterNearCache(b, c) == [b EXCEPT !.near = Append(@, c)]

(* flags is the set of event types asked for; matches the set of values    *)
(* that satisfy the listener's predicate (every value without one).        *)
RegisterListener(b, c, flags, matches) ==
    [b EXCEPT !.listeners = Append(@, [conn |-> c, flags |-> flags, matches |-> matches])]

RegisterTopic(b, c) == [b EXCEPT !.topics = Append(@, c)]

RegisterClusterView(b, c) == [b EXCEPT !.views = @ \cup {c}]

HasListeners(b) == b.listeners # <<>>

HasNearCache(b) == b.near # <<>>

Enqueue(b, c, m) == [b EXCEPT !.queue[c] = Append(@, m)]

(* One message to every subscription in a sequence of connections.         *)
EnqueueEach(b, cs, m) ==
    [b EXCEPT !.queue = [c \in Conn |->
        @[c] \o [i \in 1 .. Len(SelectSeq(cs, LAMBDA x : x = c)) |-> m]]]

Invalidate(b, k) ==
    EnqueueEach([b EXCEPT !.seq = @ + 1], b.near, [t |-> "invalidate", k |-> k, seq |-> b.seq])

(* The predicate looks at the new value, at the old one of a removal.      *)
Interested(l, type, new, old) ==
    /\ type \in l.flags
    /\ (IF type = "removed" THEN old ELSE new) \in l.matches

Publish(b, type, k, new, old) ==
    LET told == SelectSeq(b.listeners, LAMBDA l : Interested(l, type, new, old))
    IN EnqueueEach(b, [i \in DOMAIN told |-> told[i].conn],
                   [t |-> "event", type |-> type, k |-> k, v |-> new])

PublishTopic(b, item) == EnqueueEach(b, b.topics, [t |-> "topic", v |-> item])

(* on_cluster: a new view goes to every cluster-view listener.             *)
PushView(b) ==
    [b EXCEPT !.queue = [c \in Conn |->
        IF c \in b.views THEN @[c] \o <<[t |-> "members"], [t |-> "partitions"]>> ELSE @[c]]]

Drained(b, c) == [b EXCEPT !.queue[c] = <<>>]

DropConn(b, c) ==
    [b EXCEPT !.queue[c] = <<>>,
              !.listeners = SelectSeq(@, LAMBDA l : l.conn # c),
              !.topics = SelectSeq(@, LAMBDA x : x # c),
              !.near = SelectSeq(@, LAMBDA x : x # c),
              !.views = @ \ {c}]
=============================================================================
