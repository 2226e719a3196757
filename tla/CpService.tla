----------------------------- MODULE CpService -----------------------------
(***************************************************************************)
(* How a member serves CP requests: the cp_* handlers of                   *)
(* crates/server/src/handlers.rs turn a client's request into a command    *)
(* and a reply kind, CpState of member_thread.rs gives it a client id, the *)
(* named group (its own replicated log, created on first use) commits the  *)
(* commands in one order, and the completions are turned into responses    *)
(* for the connections that asked.                                         *)
(***************************************************************************)
EXTENDS CpObjects, Sequences, FiniteSetsExt, TLC

CONSTANTS
    Conn,      \* client connections
    Group,     \* CP group names; "default" is one of them
    Family,    \* sets of object types, one of which the clients of a behaviour use
    MaxOps     \* bound: requests in one behaviour, for each object type

VARIABLES
    enabled,       \* the member has a CP subsystem (a replicator)
    family,        \* the object types in use
    groups,        \* CpState.groups: created group -> state machine
    pending,       \* CpState.pending: client id -> [conn, corr, kind]
    nextClient,
    submitted,     \* commands handed to a group and not yet committed
    completions,   \* per group, completions not yet drained
    answers,       \* responses handed to the broker
    log,           \* history: per group, the committed commands and their replies
    issued         \* history: every request

vars == <<enabled, family, groups, pending, nextClient, submitted, completions, answers, log,
          issued>>

ReqSet(cmds, kind) == {[cmd |-> c, kind |-> kind] : c \in cmds}

Ops(cmds, ops) == {c \in cmds : c.op \in ops}

AlRequest ==
    ReqSet(Ops(AlCommand, {"Get", "GetAndSet", "AddAndGet", "GetAndAdd"}), "Long")
        \cup ReqSet(Ops(AlCommand, {"Set"}), "Void")
        \cup ReqSet(Ops(AlCommand, {"CompareAndSet"}), "Bool")

\* set with return_old is GetAndSet; without, Set answered as a null Data.
ArRequest ==
    ReqSet(Ops(ArCommand, {"Get", "GetAndSet", "Set"}), "Data")
        \cup ReqSet(Ops(ArCommand, {"CompareAndSet", "Contains"}), "Bool")

\* delete is Remove with its old value discarded.
CmRequest ==
    ReqSet(Ops(CmCommand, {"Get", "Put", "Remove", "PutIfAbsent"}), "Data")
        \cup ReqSet(Ops(CmCommand, {"Set", "Remove"}), "Void")
        \cup ReqSet(Ops(CmCommand, {"CompareAndSet"}), "Bool")

CountRequest ==
    ReqSet(Ops(CdlCommand, {"GetCount"}) \cup Ops(SemCommand, {"Drain", "AvailablePermits"}), "Int")
        \cup ReqSet(Ops(CdlCommand, {"CountDown"}), "Void")
        \cup ReqSet(Ops(CdlCommand, {"TrySetCount"}), "Bool")
        \cup ReqSet(Ops(SemCommand, {"Init", "Acquire", "Release"}), "Bool")

FlRequest == ReqSet(Ops(FlCommand, {"Lock", "TryLock"}), "Long") \cup ReqSet(Ops(FlCommand, {"Unlock"}), "Bool")

SessRequest ==
    ReqSet(Ops(SessCommand, {"Create"}), "Session") \cup ReqSet(Ops(SessCommand, {"Close"}), "Bool")
        \cup ReqSet(Ops(SessCommand, {"Heartbeat"}), "Void")
        \cup ReqSet(Ops(SessCommand, {"GenerateThreadId"}), "Long")

Request == AlRequest \cup ArRequest \cup CmRequest \cup CountRequest \cup FlRequest \cup SessRequest

\* build_response: the shape the client expects, a default when the reply has another.
BuildResponse(kind, reply) ==
    CASE kind = "Void" -> Null
      [] kind = "Data" -> IF reply.shape = "Data" THEN reply.val ELSE Null
      [] kind = "Bool" -> reply = Bool(TRUE)
      [] kind \in {"Long", "Int", "Session"} -> IF reply.shape = "Long" THEN reply.val ELSE 0

Init ==
    /\ enabled \in BOOLEAN /\ family \in Family
    /\ groups = "default" :> EmptySm
    /\ pending = <<>> /\ nextClient = 1
    /\ submitted = {} /\ completions = [g \in Group |-> <<>>] /\ answers = {}
    /\ log = [g \in Group |-> <<>>] /\ issued = {}

Corr(c) == 1 + Cardinality({i \in issued : i.conn = c})

\* CpState::group_mut: an unknown group is created from the template.
WithGroup(g) == IF g \in DOMAIN groups THEN groups ELSE (g :> EmptySm) @@ groups

\* A cp_* handler, then CpState::submit_to on the member thread.
Submit(c, g, req) ==
    /\ enabled /\ Cardinality(issued) < MaxOps[family]
    /\ issued' = issued \cup {[conn |-> c, corr |-> Corr(c), group |-> g, req |-> req]}
    /\ nextClient' = nextClient + 1
    /\ pending' = (nextClient :> [conn |-> c, corr |-> Corr(c), kind |-> req.kind]) @@ pending
    /\ groups' = WithGroup(g)
    /\ submitted' = submitted \cup {[group |-> g, client |-> nextClient, cmd |-> req.cmd,
                                     who |-> <<c, Corr(c)>>]}
    /\ UNCHANGED <<enabled, family, completions, answers, log>>

\* Without a CP subsystem the handler answers with an error at once.
Refuse(c, g, req) ==
    /\ ~enabled /\ Cardinality(issued) < MaxOps[family]
    /\ issued' = issued \cup {[conn |-> c, corr |-> Corr(c), group |-> g, req |-> req]}
    /\ answers' = answers \cup {[conn |-> c, corr |-> Corr(c), body |-> "CPSubsystemException"]}
    /\ UNCHANGED <<enabled, family, groups, pending, nextClient, submitted, completions, log>>

\* The group commits one of the submitted commands and applies it.
Commit(s) ==
    /\ submitted' = submitted \ {s}
    /\ LET r == Apply(groups[s.group], s.cmd) IN
       /\ groups' = [groups EXCEPT ![s.group] = r.sm]
       /\ completions' = [completions EXCEPT ![s.group] =
                              Append(@, [client |-> s.client, reply |-> r.reply])]
       /\ log' = [log EXCEPT ![s.group] = Append(@, [cmd |-> s.cmd, reply |-> r.reply,
                                                     who |-> s.who])]
    /\ UNCHANGED <<enabled, family, pending, nextClient, answers, issued>>

\* Mutant of Drain: completions are matched by their position, not their client id.
DrainByPosition ==
    LET done == UNION {{[client |-> i, reply |-> completions[g][i].reply] :
                          i \in DOMAIN completions[g] \cap DOMAIN pending} : g \in Group}
    IN  /\ done # {}
        /\ answers' = answers \cup {[conn |-> pending[d.client].conn, corr |-> pending[d.client].corr,
                                     body |-> BuildResponse(pending[d.client].kind, d.reply)] :
                                        d \in done}
        /\ pending' = [k \in DOMAIN pending \ {d.client : d \in done} |-> pending[k]]
        /\ completions' = [g \in Group |-> <<>>]
        /\ UNCHANGED <<enabled, family, groups, nextClient, submitted, log, issued>>

\* CpState::drain_deliveries, on every tick and after every CP message.
Drain ==
    LET done == UNION {{completions[g][i] : i \in DOMAIN completions[g]} : g \in Group}
    IN  /\ done # {}
        /\ answers' = answers \cup {[conn |-> pending[d.client].conn, corr |-> pending[d.client].corr,
                                     body |-> BuildResponse(pending[d.client].kind, d.reply)] :
                                        d \in done}
        /\ pending' = [k \in DOMAIN pending \ {d.client : d \in done} |-> pending[k]]
        /\ completions' = [g \in Group |-> <<>>]
        /\ UNCHANGED <<enabled, family, groups, nextClient, submitted, log, issued>>

Next ==
    \/ \E c \in Conn, g \in Group, req \in {r \in Request : r.cmd.obj \in family} :
          Submit(c, g, req) \/ Refuse(c, g, req)
    \/ \E s \in submitted : Commit(s)
    \/ Drain

Spec == Init /\ [][Next]_vars

-----------------------------------------------------------------------------
\* A response reaches the connection and correlation id that asked, at most once,
\* and carries the result the group's state machine gave that very request, except
\* where the operation has none (void kinds, AtomicReference.set without its old
\* value): the reply kind a handler picks fits the reply of the command it builds
\* (handlers.rs cp_*, member_thread.rs build_response, the apply functions).
ResponseCarriesReply ==
    \A a, b \in answers :
        /\ a.conn = b.conn /\ a.corr = b.corr => a = b
        /\ enabled =>
             \E i \in issued :
                /\ i.conn = a.conn /\ i.corr = a.corr
                /\ \E k \in DOMAIN log[i.group] :
                      /\ log[i.group][k].who = <<a.conn, a.corr>>
                      /\ \/ a.body = log[i.group][k].reply.val
                         \/ a.body = Null /\ (i.req.kind = "Void" \/ i.req.cmd.op = "Set")

\* Indices of the commands on object n of group g that satisfy the given operation set.
At(g, n, ops) == {k \in DOMAIN log[g] : log[g][k].cmd.name = n /\ log[g][k].cmd.op \in ops}

Sum(g, I) == MapThenSumSet(LAMBDA k : AtLeast0(log[g][k].cmd.a), I)

=============================================================================
