------------------------------- MODULE CpSm -------------------------------
(***************************************************************************)
(* The replicated CP state machine (CpSm in crates/raft/src/cp.rs) over    *)
(* its session registry (session.rs) and fenced locks (fencedlock.rs).     *)
(* Each action applies one committed command; the commands of different    *)
(* clients commit in any order.                                            *)
(***************************************************************************)
EXTENDS Integers, FiniteSets

CONSTANTS
    Lock, Thread,
    TTL,           \* TTL_TICKS
    MaxSession,    \* bound: sessions created
    MaxClock,      \* bound: Tick commands
    MaxFence,      \* bound: lock acquisitions
    MaxHold        \* bound: reentrant holds

ASSUME SmAssumption == TTL \in Nat \ {0}

VARIABLES
    sessions,   \* SessionSm: active session id -> deadline
    clock, nextId,
    locks,      \* FencedLockSm: held lock -> [fence, session, thread, count]
    nextFence,
    grants      \* history: every (lock, owner, fence) a client was told it holds,
                \* and whether the session was alive when it was told

vars == <<sessions, clock, nextId, locks, nextFence, grants>>

sessionVars == <<sessions, clock, nextId>>
lockVars == <<locks, nextFence, grants>>

Remove(f, S) == [x \in DOMAIN f \ S |-> f[x]]

Set(f, x, v) == [y \in DOMAIN f \cup {x} |-> IF y = x THEN v ELSE f[y]]

Init ==
    /\ sessions = <<>> /\ clock = 0 /\ nextId = 0
    /\ locks = <<>> /\ nextFence = 0
    /\ grants = {}

\* FencedLockSm::release_session for every session in S.
ReleaseSessions(S) == Remove(locks, {l \in DOMAIN locks : locks[l].session \in S})

CreateSession ==
    /\ nextId < MaxSession
    /\ nextId' = nextId + 1
    /\ sessions' = Set(sessions, nextId + 1, clock + TTL)
    /\ UNCHANGED <<clock, lockVars>>

Heartbeat(id) ==
    /\ sessions' = IF id \in DOMAIN sessions THEN Set(sessions, id, clock + TTL) ELSE sessions
    /\ UNCHANGED <<clock, nextId, lockVars>>

\* Mutant of CloseSession: the locks of the session stay.
CloseKeepsLocks(id) ==
    /\ sessions' = Remove(sessions, {id})
    /\ UNCHANGED <<clock, nextId, lockVars>>

CloseSession(id) ==
    /\ sessions' = Remove(sessions, {id})
    /\ locks' = ReleaseSessions({id})
    /\ UNCHANGED <<clock, nextId, nextFence, grants>>

\* Mutant of Expired: a session outlives its deadline by a tick.
ExpiredLate(now) == {id \in DOMAIN sessions : sessions[id] < now}

Expired(now) == {id \in DOMAIN sessions : sessions[id] <= now}

Tick ==
    /\ clock < MaxClock
    /\ clock' = clock + 1
    /\ sessions' = Remove(sessions, Expired(clock + 1))
    /\ locks' = ReleaseSessions(Expired(clock + 1))
    /\ UNCHANGED <<nextId, nextFence, grants>>

Grant(l, id, t, fence) ==
    grants' = grants \cup {[lock |-> l, session |-> id, thread |-> t, fence |-> fence,
                            alive |-> id \in DOMAIN sessions]}

\* Mutant of AcquireFree: every lock starts its fences anew.
AcquireFirstFence(l, id, t) ==
    /\ l \notin DOMAIN locks
    /\ nextFence < MaxFence
    /\ nextFence' = nextFence + 1
    /\ locks' = Set(locks, l, [fence |-> 1, session |-> id, thread |-> t, count |-> 1])
    /\ Grant(l, id, t, 1)
    /\ UNCHANGED sessionVars

\* FencedLockSm::acquire: the lock is free
AcquireFree(l, id, t) ==
    /\ l \notin DOMAIN locks
    /\ nextFence < MaxFence
    /\ nextFence' = nextFence + 1
    /\ locks' = Set(locks, l, [fence |-> nextFence + 1, session |-> id, thread |-> t,
                               count |-> 1])
    /\ Grant(l, id, t, nextFence + 1)
    /\ UNCHANGED sessionVars

Owns(l, id, t) == l \in DOMAIN locks /\ locks[l].session = id /\ locks[l].thread = t

\* ... the owner reenters; anybody else is told 0 and nothing changes.
AcquireAgain(l, id, t) ==
    /\ Owns(l, id, t)
    /\ locks[l].count < MaxHold
    /\ locks' = [locks EXCEPT ![l].count = @ + 1]
    /\ Grant(l, id, t, locks[l].fence)
    /\ UNCHANGED <<sessionVars, nextFence>>

Unlock(l, id, t) ==
    /\ Owns(l, id, t)
    /\ locks' = IF locks[l].count = 1 THEN Remove(locks, {l})
                ELSE [locks EXCEPT ![l].count = @ - 1]
    /\ UNCHANGED <<sessionVars, nextFence, grants>>

\* A client names only a session it was given, which may have ended since.
LockCommand ==
    \E id \in 1 .. nextId :
        \/ Heartbeat(id)
        \/ CloseSession(id)
        \/ \E l \in Lock, t \in Thread :
              AcquireFree(l, id, t) \/ AcquireAgain(l, id, t) \/ Unlock(l, id, t)

Next == CreateSession \/ Tick \/ LockCommand

Spec == Init /\ [][Next]_vars

-----------------------------------------------------------------------------
\* A fencing token names one tenure of one lock: no two owners are ever told the
\* same token, and the current holder of a lock has the largest token ever told
\* for that lock, so every earlier holder can be fenced off (fencedlock.rs).
FenceIdentifiesTenure ==
    /\ \A g, h \in grants : g.fence = h.fence => g = h
    /\ \A l \in DOMAIN locks : \A g \in grants : g.lock = l => g.fence <= locks[l].fence

\* A session stays exactly as long as its lease: the registry never keeps one past
\* its deadline, and never drops one before it unless the client closed it.
LeaseKept ==
    [][/\ \A id \in DOMAIN sessions' : sessions'[id] > clock'
       /\ \A id \in DOMAIN sessions \ DOMAIN sessions' :
             clock' = clock \/ sessions[id] <= clock']_vars

\* The promise of session.rs, that when a session expires "the resources it held
\* ... are auto-released", as far as the code keeps it: a lock held for a session
\* that has ended was acquired after that end (acquire does not consult the
\* registry), never left over from before it.
EndReleases ==
    \A l \in DOMAIN locks :
        locks[l].session \notin DOMAIN sessions =>
            \A g \in grants : g.fence = locks[l].fence => ~g.alive
=============================================================================
