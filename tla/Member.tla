-------------------------------- MODULE Member --------------------------------
(***************************************************************************)
(* One member: its reactor thread, its persistence thread and the kernel   *)
(* between them and the clients, with the loss of power or of the process. *)
(* There is one reactor, as in a member of a cluster (main.rs,             *)
(* run_multi_node), and no traffic from other members.                     *)
(*                                                                         *)
(* A behaviour runs one workload `load', chosen at the start: a script of  *)
(* requests per connection and what else may happen.                       *)
(*   load.script   connection -> sequence of requests                      *)
(*   load.batch    pieces one receive may bring                            *)
(*   load.wait     clients wait for each reply before they go on           *)
(*   load.partial  sends may be cut short                                  *)
(*   load.closes   the connections whose clients may go away               *)
(*   load.views    membership changes that are pushed to clients           *)
(*   load.persist  persistence is configured                               *)
(*   load.crash    the process or the power may fail, once                 *)
(*   load.full     the disk may refuse a snapshot                          *)
(***************************************************************************)
EXTENDS Handlers, Persist, Reactor

CONSTANT Workload

VARIABLES
    load,
    mem,    \* the memory of the process
    conn,   \* connection -> its record in the reactor
    slots,  \* the reactor's table: slot -> connection, 0 when empty
    free,   \* the free slots, taken from the end
    sends,  \* sends in the kernel: the slot of the completion, the connection, the bytes
    strays, \* slots of receives armed for connections that were closed since
    busy,   \* the connection whose receive is being handled, 0 if none
    todo,   \* what its current request has left to do
    wal,    \* the ring to the persistence thread
    disk,
    up,     \* whether the process runs
    sent,   \* connection -> pieces its client has sent
    got,    \* connection -> messages its client has received
    g       \* history: see NewHistory

vars == <<load, mem, conn, slots, free, sends, strays, busy, todo, wal, disk, up, sent, got, g>>

io == <<conn, slots, free, sends, strays>>

(* hist: the contents an item has had, and durable the index of the last   *)
(* one an fsync covered; produced: what was written for a connection;      *)
(* silent: items last changed by a request that tells nobody; base: the    *)
(* map when a connection's listener was registered; swaps: for a cas that  *)
(* was STORED, the write its client had seen and the one it replaced.      *)
NewHistory ==
    [hist |-> [i \in Items |-> <<Nothing(i)>>], durable |-> [i \in Items |-> 1],
     produced |-> [c \in Conn |-> <<>>], silent |-> {}, base |-> [c \in Conn |-> <<>>],
     swaps |-> {}, writes |-> 0, stale |-> {}, lost |-> FALSE, forced |-> FALSE,
     restarted |-> FALSE, views |-> 0]

Init ==
    /\ load \in Workload
    /\ mem = NewMemory
    /\ conn = [c \in Conn |-> NoConn]
    /\ slots = <<>> /\ free = <<>> /\ sends = <<>> /\ strays = {}
    /\ busy = 0 /\ todo = <<>>
    /\ wal = <<>> /\ disk = NewDisk /\ up = TRUE
    /\ sent = [c \in Conn |-> 0]
    /\ got = [c \in Conn |-> <<>>]
    /\ g = NewHistory

-----------------------------------------------------------------------------
(* The clients.                                                            *)

PiecesOf(q) == [n \in 1 .. q.parts |-> [q |-> q, part |-> n]]

Pieces(c) ==
    FlattenSeq([n \in DOMAIN load.script[c] |-> PiecesOf([load.script[c][n] EXCEPT !.corr = n])])

IsReply(x) == x.t = "reply"

Replies(c) == SelectSeq(got[c], IsReply)

IsGrant(x) == IsReply(x) /\ (x.op = "lock" \/ (x.op = "tryLock" /\ x.r = Bool(TRUE)))

Count(s, Test(_)) == Len(SelectSeq(s, Test))

Unlocks(ps) == Count(ps, LAMBDA p : p.q.op = "unlock")

Held(c) == Count(got[c], IsGrant) - Unlocks(SubSeq(Pieces(c), 1, sent[c]))

(* What a client sends next: a cas carries the token of the last value it  *)
(* got, an unlock waits for the lock.                                      *)
Filled(c, p) ==
    LET seen == SelectSeq(got[c], LAMBDA x : IsReply(x) /\ x.op = "get")
    IN IF p.q.kind = "memcache" /\ p.q.op = "cas"
       THEN [p EXCEPT !.q.token = Last(seen).r.blob.cas, !.q.seen = Last(seen).r.blob.w]
       ELSE p

MaySend(c, p) ==
    /\ load.wait /\ p.part = 1 => Len(Replies(c)) >= p.q.corr - 1
    /\ p.q.op = "unlock" => Held(c) > 0

-----------------------------------------------------------------------------
(* The reactor.                                                            *)

Idle == up /\ busy = 0

(* A slot from the end of the free list, or a new one.                     *)
Accept(c) ==
    /\ Idle /\ conn[c].st = "none" /\ load.script[c] # <<>>
    /\ LET id == IF free = <<>> THEN Len(slots) + 1 ELSE Last(free)
       IN /\ conn' = [conn EXCEPT ![c] = NewConn(id)]
          /\ slots' = IF free = <<>> THEN Append(slots, c) ELSE [slots EXCEPT ![id] = c]
          /\ free' = IF free = <<>> THEN free ELSE Front(free)
    /\ UNCHANGED <<load, mem, sends, strays, busy, todo, wal, disk, up, sent, got, g>>

OnRecv(c, n) ==
    LET ps == SubSeq(Pieces(c), sent[c] + 1, sent[c] + n)
    IN /\ Idle /\ conn[c].st = "open" /\ conn[c].recv
       /\ sent[c] + n <= Len(Pieces(c))
       /\ \A j \in DOMAIN ps : MaySend(c, ps[j])
       /\ conn' = [conn EXCEPT ![c] = Ingest(@, [j \in DOMAIN ps |-> Filled(c, ps[j])])]
       /\ busy' = c
       /\ sent' = [sent EXCEPT ![c] = @ + n]
       /\ UNCHANGED <<load, mem, slots, free, sends, strays, todo, wal, disk, up, got, g>>

(* on_close and the slot; a receive that is still armed stays in the       *)
(* kernel under the slot's number.                                         *)
CloseConn(c) ==
    /\ conn' = [conn EXCEPT ![c] = [NoConn EXCEPT !.st = "closed"]]
    /\ slots' = [slots EXCEPT ![conn[c].slot] = 0]
    /\ free' = Append(free, conn[c].slot)
    /\ mem' = [mem EXCEPT !.broker = DropConn(@, c)]

OnRecvEnd(c) ==
    /\ Idle /\ conn[c].st = "open" /\ conn[c].recv /\ conn[c].gone
    /\ CloseConn(c)
    /\ UNCHANGED <<load, sends, strays, busy, todo, wal, disk, up, sent, got, g>>

(* The receive of a closed connection ends; the completion is taken for    *)
(* one of the connection that has the slot now.                            *)
OnStrayRecv(s) ==
    /\ Idle /\ s \in strays
    /\ strays' = strays \ {s}
    /\ IF slots[s] = 0 THEN UNCHANGED <<conn, slots, free, mem, g>>
       ELSE CloseConn(slots[s]) /\ g' = [g EXCEPT !.stale = @ \cup {slots[s]}]
    /\ UNCHANGED <<load, sends, busy, todo, wal, disk, up, sent, got>>

Hangup(c) ==
    /\ c \in load.closes /\ conn[c].st = "open" /\ ~conn[c].gone
    /\ conn' = [conn EXCEPT ![c].gone = TRUE]
    /\ UNCHANGED <<load, mem, slots, free, sends, strays, busy, todo, wal, disk, up, sent, got, g>>

-----------------------------------------------------------------------------
(* The items a request changes or logs get a new entry of their history.   *)
Touched(st, new, log) == {i \in Items : st.val[i] # new.val[i]} \cup {log[n].r.i : n \in DOMAIN log}

Grown(h, st, new, log) ==
    [i \in Items |-> IF i \in Touched(st, new, log) THEN Append(h[i], new.val[i]) ELSE h[i]]

(* Requests that change the map and tell neither listeners nor near        *)
(* caches.                                                                 *)
TellsNobody(q) ==
    \/ q.kind = "m" /\ q.op \in {"putIfAbsent", "replace", "clear"}
    \/ q.kind = "cache"

(* Without persistence there is no sink to push to.                        *)
ToPush(todos) == IF load.persist THEN todos ELSE SelectSeq(todos, LAMBDA x : x.act # "push")

Numbered(todos, hist) ==
    [n \in DOMAIN todos |-> IF todos[n].act = "push"
                            THEN [todos[n] EXCEPT !.r.n = Len(hist[todos[n].r.i])] ELSE todos[n]]

IsPush(x) == x.act = "push"

(* What follows from a handler's result h for request q of connection c,   *)
(* which has used n pieces.                                                *)
Apply(c, n, q, h, close) ==
    LET new == h.m.st
        hist == Grown(g.hist, mem.st, new, SelectSeq(h.todo, IsPush))
        changed == {i \in Items : mem.st.val[i] # new.val[i]}
    IN /\ mem' = h.m
       /\ conn' = [conn EXCEPT ![c] = [@ EXCEPT !.acc = SubSeq(@, n + 1, Len(@)), !.out = @ \o h.out,
                                                !.frag = @ \ {q.corr},
                                                !.flushClose = @ \/ close]]
       /\ todo' = Numbered(ToPush(h.todo), hist)
       /\ g' = [g EXCEPT !.hist = hist,
                         !.produced[c] = @ \o h.out,
                         !.silent = IF TellsNobody(q) THEN @ \cup changed ELSE @ \ changed,
                         !.forced = @ \/ q.op = "forceUnlock",
                         !.base[c] = IF q.kind = "listen" /\ q.op = "entries" THEN mem.st.val ELSE @,
                         !.writes = IF q.kind = "memcache" THEN @ + 1 ELSE @,
                         !.swaps = IF q.op = "cas" /\ h.out # <<>> /\ h.out[1].r = [text |-> "STORED"]
                                   THEN @ \cup {<<q.seen, mem.st.val[<<"memcache", q.k>>].w>>} ELSE @]
       /\ UNCHANGED <<load, slots, free, sends, strays, busy, wal, disk, up, sent, got>>

Serving(c, mode) ==
    /\ up /\ busy = c /\ todo = <<>>
    /\ conn[c].mode = mode /\ conn[c].acc # <<>> /\ ~conn[c].flushClose

(* One complete message of the binary protocol, or the last fragment.      *)
ServeBinary(c) ==
    LET p == Head(conn[c].acc)
    IN /\ Serving(c, "binary") /\ Completes(p)
       /\ Apply(c, 1, p.q, Dispatch(mem, c, p.q), FALSE)

TakeFragment(c) ==
    LET p == Head(conn[c].acc)
    IN /\ Serving(c, "binary") /\ ~Completes(p)
       /\ conn' = [conn EXCEPT ![c] = [Reassemble(@, p) EXCEPT !.acc = Tail(@)]]
       /\ UNCHANGED <<load, mem, slots, free, sends, strays, busy, todo, wal, disk, up, sent, got, g>>

(* What a text command gives, as the result of a handler.                  *)
AsHandled(q, a) ==
    [m |-> [mem EXCEPT !.st = a.st, !.cas = IF q.kind = "memcache" THEN a.cas ELSE @],
     out |-> [n \in DOMAIN a.reply |-> Reply(q, a.reply[n])], todo |-> Pushes(a.log)]

ServeMemcache(c) ==
    LET n == McFrame(conn[c].acc)
        q == [Head(conn[c].acc).q EXCEPT !.w = g.writes + 1]
        a == Memcache(mem.st, q, mem.cas)
    IN Serving(c, "memcache") /\ n > 0 /\ Apply(c, n, q, AsHandled(q, a), a.close)

ServeResp(c) ==
    LET n == RespFrame(conn[c].acc)
        q == Head(conn[c].acc).q
        a == Resp(mem.st, q)
    IN Serving(c, "resp") /\ n > 0 /\ Apply(c, n, q, AsHandled(q, a), a.close)

(* One request per connection; whatever else came with it is dropped.      *)
ServeHttp(c) ==
    LET q == Head(conn[c].acc).q
    IN Serving(c, "http") /\ Apply(c, Len(conn[c].acc), q, Unchanged(mem, Reply(q, Void)), TRUE)

(* Store::put and its callers: the memory first, the record after it.      *)
Work ==
    LET x == Head(todo)
        d == StorePut(mem.st, x.i, x.v)
        hist == Grown(g.hist, mem.st, d.m, Pushes(d.log))
    IN /\ up /\ todo # <<>>
       /\ IF IsPush(x)
          THEN wal' = PushRecord(wal, x.r) /\ todo' = Tail(todo) /\ UNCHANGED <<mem, g>>
          ELSE /\ mem' = [mem EXCEPT !.st = d.m]
               /\ todo' = Numbered(ToPush(Pushes(d.log)), hist) \o Tail(todo)
               /\ g' = [g EXCEPT !.hist = hist, !.silent = @ \cup {x.i}]
               /\ UNCHANGED wal
       /\ UNCHANGED <<load, io, busy, disk, up, sent, got>>

-----------------------------------------------------------------------------
(* The kernel's queue of sends after arming one for a connection.          *)
WithSend(q, c, a) == IF a.send = <<>> THEN q ELSE Append(q, [slot |-> a.c.slot, conn |-> c, data |-> a.send])

FrameReady(k) == CASE k.flushClose -> FALSE
                   [] k.mode = "memcache" -> McFrame(k.acc) > 0
                   [] k.mode = "resp" -> RespFrame(k.acc) > 0
                   [] OTHER -> k.acc # <<>>

(* The end of on_recv: a binary connection gets its queued events; the     *)
(* next receive is armed unless the connection is to close.                *)
Finish(c) ==
    LET evs == IF conn[c].mode = "binary" THEN mem.broker.queue[c] ELSE <<>>
        a == MaybeArmSend([conn[c] EXCEPT !.out = @ \o evs])
    IN /\ up /\ busy = c /\ todo = <<>> /\ ~FrameReady(conn[c])
       /\ conn' = [conn EXCEPT ![c] = [a.c EXCEPT !.recv = ~a.c.flushClose]]
       /\ sends' = WithSend(sends, c, a)
       /\ mem' = [mem EXCEPT !.broker = IF evs = <<>> THEN @ ELSE Drained(@, c)]
       /\ g' = [g EXCEPT !.produced[c] = @ \o evs]
       /\ busy' = 0
       /\ UNCHANGED <<load, slots, free, strays, todo, wal, disk, up, sent, got>>

(* A send completes with k messages, perhaps short; the completion goes to *)
(* whoever has the slot.                                                   *)
Sent(j, k) ==
    LET op == sends[j]
        to == slots[op.slot]
        rest == RemoveAt(sends, j)
    IN /\ Idle /\ (k < Len(op.data) => load.partial)
       /\ got' = [got EXCEPT ![op.conn] = @ \o SubSeq(op.data, 1, k)]
       /\ IF to = 0 THEN sends' = rest /\ UNCHANGED <<conn, slots, free, mem, up, g>>
          ELSE /\ g' = IF to = op.conn THEN g ELSE [g EXCEPT !.stale = @ \cup {to}]
               /\ IF Panics(conn[to], k)
                  THEN up' = FALSE /\ sends' = rest /\ UNCHANGED <<conn, slots, free, mem>>
                  ELSE LET a == OnSend(conn[to], k)
                       IN /\ sends' = WithSend(rest, to, a)
                          /\ IF a.c.st = "closing" THEN CloseConn(to)
                             ELSE conn' = [conn EXCEPT ![to] = a.c] /\ UNCHANGED <<slots, free, mem>>
                          /\ UNCHANGED up
       /\ UNCHANGED <<load, strays, busy, todo, wal, disk, sent>>

(* A send fails: its client is gone.                                       *)
SendFailed(j) ==
    LET op == sends[j]
        to == slots[op.slot]
    IN /\ Idle /\ (conn[op.conn].gone \/ conn[op.conn].st = "closed")
       /\ sends' = RemoveAt(sends, j)
       /\ IF to = 0 THEN UNCHANGED <<conn, slots, free, strays, mem, g>>
          ELSE /\ CloseConn(to)
               /\ strays' = IF conn[to].recv THEN strays \cup {op.slot} ELSE strays
               /\ g' = IF to = op.conn THEN g ELSE [g EXCEPT !.stale = @ \cup {to}]
       /\ UNCHANGED <<load, busy, todo, wal, disk, up, sent, got>>

(* The timer: a new member list first, if there is one, then the queued    *)
(* events of every binary connection.                                      *)
Tick ==
    LET Flushed(b) == {c \in Conn : conn[c].st = "open" /\ conn[c].mode = "binary" /\ b.queue[c] # <<>>}
    IN /\ Idle
       /\ \E quorum \in BOOLEAN :
            /\ quorum # mem.quorum => g.views < load.views
            /\ LET b == IF quorum # mem.quorum THEN PushView(mem.broker) ELSE mem.broker
                   told == Flushed(b)
                   a == [c \in told |-> MaybeArmSend([conn[c] EXCEPT !.out = @ \o b.queue[c]])]
               IN /\ told # {} \/ quorum # mem.quorum
                  /\ conn' = [c \in Conn |-> IF c \in told THEN a[c].c ELSE conn[c]]
                  /\ sends' = FoldLeft(LAMBDA q, c : WithSend(q, c, a[c]), sends,
                                       SelectSeq(slots, LAMBDA c : c \in told))
                  /\ mem' = [mem EXCEPT !.quorum = quorum,
                                        !.broker = [b EXCEPT !.queue = [c \in Conn |-> IF c \in told THEN <<>> ELSE @[c]]]]
                  /\ g' = [g EXCEPT !.views = IF quorum # mem.quorum THEN @ + 1 ELSE @,
                                    !.produced = [c \in Conn |-> IF c \in told THEN @[c] \o b.queue[c] ELSE @[c]]]
       /\ UNCHANGED <<load, slots, free, strays, busy, todo, wal, disk, up, sent, got>>

-----------------------------------------------------------------------------
(* The persistence thread.                                                 *)

Persisting(pc) == up /\ load.persist /\ disk.pc = pc

OfThread == <<load, mem, io, busy, todo, up, sent, got>>

PDrain ==
    /\ Persisting("drain") /\ wal # <<>>
    /\ disk' = AppendRecord(disk, Head(wal))
    /\ wal' = Tail(wal)
    /\ UNCHANGED <<OfThread, g>>

(* What an fsync of the current segment makes durable.                     *)
Durable(d) ==
    [i \in Items |-> Max({g.durable[i]} \cup
        {Current(d).recs[n].n : n \in {j \in DOMAIN Current(d).recs : Current(d).recs[j].i = i}})]

PFlush(due) ==
    /\ Persisting("drain") /\ wal = <<>>
    /\ due => disk.dirty
    /\ disk' = Flush(disk, due) /\ disk' # disk
    /\ g' = IF due THEN [g EXCEPT !.durable = Durable(disk)] ELSE g
    /\ UNCHANGED <<OfThread, wal>>

PRoll ==
    /\ Persisting("roll")
    /\ disk' = Roll(disk)
    /\ g' = [g EXCEPT !.durable = Durable(disk)]
    /\ UNCHANGED <<OfThread, wal>>

PEntries == Persisting("entries") /\ disk' = CollectEntries(disk, mem.st) /\ UNCHANGED <<OfThread, wal, g>>

PSnapshot(ok) ==
    /\ Persisting("aux") /\ (ok \/ load.full)
    /\ disk' = WriteSnapshot(disk, mem.st, ok)
    /\ g' = [g EXCEPT !.lost = @ \/ ~ok]
    /\ UNCHANGED <<OfThread, wal>>

PPrune == Persisting("prune") /\ disk' = Prune(disk) /\ UNCHANGED <<OfThread, wal, g>>

(* The process ends, or the power fails and the disk is cut.               *)
Crash ==
    /\ up /\ load.crash /\ ~g.restarted
    /\ up' = FALSE
    /\ \/ UNCHANGED <<disk, g>>
       \/ /\ disk' \in Cuts(disk)
          /\ g' = [g EXCEPT !.durable = [i \in Items |-> Len(g.hist[i]) + 1]]
    /\ UNCHANGED <<load, mem, io, busy, todo, wal, sent, got>>

(* setup_persistence: recovery before anything is served.                  *)
Restart ==
    LET st == IF load.persist THEN Recover(disk) ELSE NewStore
    IN /\ ~up
       /\ up' = TRUE
       /\ mem' = [NewMemory EXCEPT !.st = st]
       /\ disk' = IF load.persist THEN Reopen(disk) ELSE disk
       /\ conn' = [c \in Conn |-> IF conn[c].st = "none" THEN NoConn ELSE [NoConn EXCEPT !.st = "closed"]]
       /\ slots' = <<>> /\ free' = <<>> /\ sends' = <<>> /\ strays' = {}
       /\ busy' = 0 /\ todo' = <<>> /\ wal' = <<>>
       /\ g' = [g EXCEPT !.restarted = TRUE, !.silent = {},
                         !.hist = [i \in Items |-> Append(@[i], st.val[i])]]
       /\ UNCHANGED <<load, sent, got>>

Next ==
    \/ \E c \in Conn :
          \/ Accept(c) \/ OnRecvEnd(c) \/ Hangup(c)
          \/ ServeBinary(c) \/ TakeFragment(c) \/ ServeMemcache(c) \/ ServeResp(c) \/ ServeHttp(c)
          \/ Finish(c)
          \/ \E n \in 1 .. load.batch : OnRecv(c, n)
    \/ \E s \in strays : OnStrayRecv(s)
    \/ Work \/ Tick
    \/ \E j \in DOMAIN sends : SendFailed(j) \/ \E k \in 1 .. Len(sends[j].data) : Sent(j, k)
    \/ PDrain \/ PRoll \/ PEntries \/ PPrune
    \/ \E b \in BOOLEAN : PFlush(b) \/ PSnapshot(b)
    \/ Crash \/ Restart

Spec == Init /\ [][Next]_vars
-----------------------------------------------------------------------------

(* What a client has received, will receive, and has queued for it.        *)
Written(c) == g.produced[c] \o mem.broker.queue[c]

Served(c) == SubSeq(Pieces(c), 1, sent[c] - Len(conn[c].acc))


(* A client reads the bytes written for it, each once and in order,        *)
(* however its sends are cut (maybe_arm_send, on_send). Left out:          *)
(* connections that took a completion of an earlier one in their slot.     *)
StreamIntact ==
    \A c \in Conn \ g.stale :
        IF up /\ conn[c].st = "open"
        THEN got[c] \o conn[c].sendbuf \o conn[c].out = g.produced[c]
        ELSE IsPrefix(got[c], g.produced[c])

Unknown == 9

(* A near cache: what a get returned, until the key is invalidated.        *)
NearCache(c) ==
    FoldLeft(LAMBDA n, x : IF IsReply(x) /\ x.op = "get" THEN [n EXCEPT ![x.k] = x.r.data]
                           ELSE IF x.t = "invalidate" THEN [n EXCEPT ![x.k] = Unknown] ELSE n,
             [k \in {i[2] : i \in KeysOf("m")} |-> Unknown], Written(c))

(* A copy of the map kept by a listener's events.                          *)
Mirror(c) ==
    FoldLeft(LAMBDA n, x : IF x.t = "event" THEN [n EXCEPT ![<<"m", x.k>>] = x.v] ELSE n,
             g.base[c], Written(c))

(* Near caches and copies kept from events agree with the map once their   *)
(* clients have read all that is on its way, but for keys last changed by  *)
(* an operation that tells nobody (putIfAbsent, replace, clear, putAll,    *)
(* transactions, the cache, SQL).                                          *)
ViewsConverge ==
    up => \A i \in KeysOf("m") \ g.silent, c \in Conn :
        conn[c].st = "open" =>
            /\ c \in ToSet(mem.broker.near) => NearCache(c)[i[2]] \in {Unknown, mem.st.val[i]}
            /\ g.base[c] # <<>> => Mirror(c)[i] = mem.st.val[i]

(* A memcached cas replaces the very write its client had seen, as long as *)
(* the process lives (the token counter starts over with it).              *)
CasHonest == ~g.restarted => \A s \in g.swaps : s[1] = s[2]
=============================================================================
