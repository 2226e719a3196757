--------------------------- MODULE CpSm_proofs ---------------------------
(***************************************************************************)
(* Sessions and fenced locks keep their promises for every number of locks,*)
(* threads, sessions and holds, and every lease length.                    *)
(***************************************************************************)
EXTENDS CpSm, TLAPS

SessionTypes ==
    /\ clock \in Nat /\ nextId \in Nat
    /\ DOMAIN sessions \subseteq 1 .. nextId
    /\ \A id \in DOMAIN sessions : sessions[id] \in Int

Hold == [fence : 1 .. nextFence, session : 1 .. nextId, thread : Thread, count : Int]

Told == [lock : Lock, session : 1 .. nextId, thread : Thread, fence : 1 .. nextFence,
         alive : BOOLEAN]

LockTypes ==
    /\ nextFence \in Nat
    /\ DOMAIN locks \subseteq Lock
    /\ \A l \in DOMAIN locks : locks[l] \in Hold
    /\ grants \subseteq Told

\* No session in the registry is past its deadline.
NoneOverdue == \A id \in DOMAIN sessions : sessions[id] > clock

\* What the holder of a lock was told, with its session's fate at that time: the
\* same as now, since an ended session keeps no lock and never comes back.
HolderTold ==
    \A l \in DOMAIN locks : \E g \in grants :
        /\ g.lock = l /\ g.session = locks[l].session /\ g.thread = locks[l].thread
        /\ g.fence = locks[l].fence
        /\ g.alive <=> locks[l].session \in DOMAIN sessions

IInv == SessionTypes /\ LockTypes /\ NoneOverdue /\ HolderTold /\ FenceIdentifiesTenure

LEMMA InitIInv == Init => IInv
<1>1. DOMAIN <<>> = {}
  OBVIOUS
<1> QED
  BY <1>1 DEF Init, IInv, SessionTypes, LockTypes, NoneOverdue, HolderTold, FenceIdentifiesTenure

\* What every step does to the registry: ids only grow, and an id that was given out
\* and is gone stays gone.
Registry ==
    /\ SessionTypes' /\ NoneOverdue'
    /\ nextId <= nextId'
    /\ DOMAIN sessions' \cap (1 .. nextId) \subseteq DOMAIN sessions

LEMMA CreateRegistry == IInv /\ CreateSession => Registry
  BY SmAssumption DEF IInv, SessionTypes, NoneOverdue, CreateSession, Registry, Set

LEMMA HeartbeatRegistry ==
    ASSUME IInv, NEW id \in 1 .. nextId, Heartbeat(id)
    PROVE  Registry
  BY SmAssumption DEF IInv, SessionTypes, NoneOverdue, Heartbeat, Registry, Set

LEMMA CloseRegistry ==
    ASSUME IInv, NEW id \in 1 .. nextId, CloseSession(id)
    PROVE  Registry
  BY DEF IInv, SessionTypes, NoneOverdue, CloseSession, Registry, Remove

LEMMA TickRegistry == IInv /\ Tick => Registry
  BY DEF IInv, SessionTypes, NoneOverdue, Tick, Registry, Remove, Expired

\* A step that grants nothing keeps the invariant when every lock it leaves held is
\* held as before, for a session whose fate it does not change.
LEMMA GrantsNothing ==
    ASSUME IInv, Registry, UNCHANGED <<nextFence, grants>>,
           DOMAIN locks' \subseteq DOMAIN locks,
           \A l \in DOMAIN locks' :
              /\ locks'[l] \in Hold'
              /\ locks'[l].fence = locks[l].fence
              /\ locks'[l].session = locks[l].session
              /\ locks'[l].thread = locks[l].thread
              /\ locks[l].session \in DOMAIN sessions' <=> locks[l].session \in DOMAIN sessions
    PROVE  IInv'
<1>1. Told \subseteq Told'
  BY DEF Told, Registry, IInv, SessionTypes
<1>2. LockTypes'
  BY <1>1 DEF IInv, LockTypes
<1>3. HolderTold'
  <2> SUFFICES ASSUME NEW l \in DOMAIN locks'
               PROVE  \E g \in grants' :
                         /\ g.lock = l /\ g.session = locks'[l].session
                         /\ g.thread = locks'[l].thread /\ g.fence = locks'[l].fence
                         /\ g.alive <=> locks'[l].session \in DOMAIN sessions'
    BY DEF HolderTold
  <2>1. PICK g \in grants : /\ g.lock = l /\ g.session = locks[l].session
                            /\ g.thread = locks[l].thread /\ g.fence = locks[l].fence
                            /\ g.alive <=> locks[l].session \in DOMAIN sessions
    BY DEF IInv, HolderTold
  <2> QED
    BY <2>1
<1>4. FenceIdentifiesTenure'
  BY DEF IInv, FenceIdentifiesTenure
<1> QED
  BY <1>2, <1>3, <1>4 DEF IInv, Registry

LEMMA HoldsSameSession ==
    ASSUME IInv, Registry, UNCHANGED <<locks, nextFence, grants>>,
           DOMAIN sessions \subseteq DOMAIN sessions'
    PROVE  IInv'
<1>1. \A l \in DOMAIN locks :
          /\ locks[l] \in Hold'
          /\ locks[l].session \in DOMAIN sessions' <=> locks[l].session \in DOMAIN sessions
  BY DEF IInv, LockTypes, Hold, Registry, SessionTypes
<1> QED
  BY <1>1, GrantsNothing

\* Ending the sessions of S with their locks, and no others.
LEMMA EndsSessions ==
    ASSUME IInv, Registry, NEW S, UNCHANGED <<nextId, nextFence, grants>>,
           locks' = ReleaseSessions(S), DOMAIN sessions' = DOMAIN sessions \ S
    PROVE  IInv'
<1>1. DOMAIN locks' = {l \in DOMAIN locks : locks[l].session \notin S}
  BY DEF ReleaseSessions, Remove
<1>2. \A l \in DOMAIN locks' : locks'[l] = locks[l] /\ locks[l].session \notin S
  BY <1>1 DEF ReleaseSessions, Remove
<1>3. Hold' = Hold
  BY DEF Hold
<1>4. \A l \in DOMAIN locks' : locks[l] \in Hold
  BY <1>1 DEF IInv, LockTypes
<1> QED
  BY <1>1, <1>2, <1>3, <1>4, GrantsNothing

LEMMA UnlockIInv ==
    ASSUME IInv, NEW l \in Lock, NEW id \in 1 .. nextId, NEW t \in Thread, Unlock(l, id, t)
    PROVE  IInv'
<1>1. Registry
  BY DEF Unlock, sessionVars, Registry, IInv, SessionTypes, NoneOverdue
<1>2. DOMAIN locks' \subseteq DOMAIN locks
  BY DEF Unlock, Remove
<1>3. ASSUME NEW m \in DOMAIN locks'
      PROVE  /\ locks'[m] \in Hold
             /\ locks'[m].fence = locks[m].fence
             /\ locks'[m].session = locks[m].session
             /\ locks'[m].thread = locks[m].thread
  <2>1. locks[m] \in Hold
    BY <1>2, <1>3 DEF IInv, LockTypes
  <2>2. CASE locks'[m] = locks[m]
    BY <2>1, <2>2
  <2>3. CASE locks'[m] = [locks[m] EXCEPT !.count = @ - 1]
    BY <2>1, <2>3 DEF Hold
  <2> QED
    BY <1>2, <1>3, <2>2, <2>3 DEF Unlock, Remove, Owns
<1>4. Hold' = Hold /\ DOMAIN sessions' = DOMAIN sessions
  BY DEF Hold, Unlock, sessionVars
<1>5. UNCHANGED <<nextFence, grants>>
  BY DEF Unlock
<1> QED
  BY <1>1, <1>2, <1>3, <1>4, <1>5, GrantsNothing

\* The grant an acquisition adds.
NewGrant(l, id, t, fence, alive) ==
    [lock |-> l, session |-> id, thread |-> t, fence |-> fence, alive |-> alive]

LEMMA NewGrantFields ==
    ASSUME NEW l, NEW id, NEW t, NEW f, NEW b \in BOOLEAN
    PROVE  /\ NewGrant(l, id, t, f, b).lock = l
           /\ NewGrant(l, id, t, f, b).session = id
           /\ NewGrant(l, id, t, f, b).thread = t
           /\ NewGrant(l, id, t, f, b).fence = f
           /\ NewGrant(l, id, t, f, b).alive = b
  BY Zenon DEF NewGrant

LEMMA NewGrantTold ==
    ASSUME NEW l \in Lock, NEW id \in 1 .. nextId, NEW t \in Thread, NEW f \in 1 .. nextFence,
           NEW b \in BOOLEAN
    PROVE  NewGrant(l, id, t, f, b) \in Told
  BY Zenon DEF NewGrant, Told

LEMMA SameGrant ==
    ASSUME NEW g \in Told, NEW l, NEW id, NEW t, NEW f, NEW b \in BOOLEAN,
           g.lock = l, g.session = id, g.thread = t, g.fence = f, g.alive = b
    PROVE  g = NewGrant(l, id, t, f, b)
  BY SMT DEF NewGrant, Told

\* An acquisition leaves the registry alone, so it is enough to follow the locks.
LEMMA SameRegistry ==
    ASSUME IInv, UNCHANGED sessionVars
    PROVE  SessionTypes' /\ NoneOverdue' /\ nextId' = nextId /\ DOMAIN sessions' = DOMAIN sessions
  BY DEF IInv, SessionTypes, NoneOverdue, sessionVars

LEMMA AcquireFreeIInv ==
    ASSUME IInv, NEW l \in Lock, NEW id \in 1 .. nextId, NEW t \in Thread, AcquireFree(l, id, t)
    PROVE  IInv'
<1> DEFINE b == id \in DOMAIN sessions
           n == NewGrant(l, id, t, nextFence + 1, b)
           h == [fence |-> nextFence + 1, session |-> id, thread |-> t, count |-> 1]
<1>1. b \in BOOLEAN
  OBVIOUS
<1>2. grants' = grants \cup {n}
  BY DEF AcquireFree, Grant, NewGrant
<1>3. /\ nextFence \in Nat /\ nextFence' = nextFence + 1 /\ l \notin DOMAIN locks
      /\ UNCHANGED sessionVars
  BY DEF AcquireFree, IInv, LockTypes
<1>4. DOMAIN locks' = DOMAIN locks \cup {l} /\ locks'[l] = h
  BY DEF AcquireFree, Set
<1>5. \A m \in DOMAIN locks : locks'[m] = locks[m] /\ m # l
  BY <1>3 DEF AcquireFree, Set
<1>6. /\ SessionTypes' /\ NoneOverdue' /\ nextId' = nextId
      /\ DOMAIN sessions' = DOMAIN sessions
  BY <1>3, SameRegistry
<1>7. nextFence + 1 \in 1 .. nextFence'
  BY <1>3
<1> HIDE DEF b
<1>8. /\ n.lock = l /\ n.session = id /\ n.thread = t /\ n.fence = nextFence + 1
      /\ n.alive = b
  BY <1>1, NewGrantFields
<1>9. \A g \in grants : g.fence \in 1 .. nextFence
  BY DEF IInv, LockTypes, Told
<1> HIDE DEF n
<1>10. LockTypes'
  <2>1. n \in Told'
    BY <1>1, <1>3, <1>6, <1>7, NewGrantTold DEF n, NewGrant, Told
  <2>2. Told \subseteq Told' /\ Hold \subseteq Hold'
    BY <1>3, <1>6 DEF Told, Hold
  <2>3. h \in Hold'
    BY <1>6, <1>7 DEF Hold
  <2> QED
    BY <1>2, <1>3, <1>4, <1>5, <2>1, <2>2, <2>3 DEF IInv, LockTypes
<1>11. HolderTold'
  <2> SUFFICES ASSUME NEW m \in DOMAIN locks'
               PROVE  \E g \in grants' :
                         /\ g.lock = m /\ g.session = locks'[m].session
                         /\ g.thread = locks'[m].thread /\ g.fence = locks'[m].fence
                         /\ g.alive <=> locks'[m].session \in DOMAIN sessions'
    BY DEF HolderTold
  <2>1. CASE m = l
    <3>1. h.session = id /\ h.thread = t /\ h.fence = nextFence + 1
      OBVIOUS
    <3>2. n.alive <=> id \in DOMAIN sessions'
      BY <1>6, <1>8 DEF b
    <3> QED
      BY <1>2, <1>4, <1>8, <2>1, <3>1, <3>2
  <2>2. CASE m \in DOMAIN locks
    <3>1. PICK g \in grants : /\ g.lock = m /\ g.session = locks[m].session
                              /\ g.thread = locks[m].thread /\ g.fence = locks[m].fence
                              /\ g.alive <=> locks[m].session \in DOMAIN sessions
      BY <2>2 DEF IInv, HolderTold
    <3> QED
      BY <1>2, <1>5, <1>6, <2>2, <3>1
  <2> QED
    BY <1>4, <2>1, <2>2
<1>12. FenceIdentifiesTenure'
  <2>1. \A g, k \in grants' : g.fence = k.fence => g = k
    BY <1>2, <1>3, <1>8, <1>9 DEF IInv, FenceIdentifiesTenure
  <2>2. ASSUME NEW m \in DOMAIN locks', NEW g \in grants', g.lock = m
        PROVE  g.fence <= locks'[m].fence
    <3>1. CASE m = l
      <4>1. h.fence = nextFence + 1
        OBVIOUS
      <4> QED
        BY <1>2, <1>3, <1>4, <1>8, <1>9, <3>1, <4>1
    <3>2. CASE m \in DOMAIN locks
      BY <1>2, <1>5, <1>8, <2>2, <3>2 DEF IInv, FenceIdentifiesTenure
    <3> QED
      BY <1>4, <3>1, <3>2
  <2> QED
    BY <2>1, <2>2 DEF FenceIdentifiesTenure
<1> QED
  BY <1>6, <1>10, <1>11, <1>12 DEF IInv

LEMMA AcquireAgainIInv ==
    ASSUME IInv, NEW l \in Lock, NEW id \in 1 .. nextId, NEW t \in Thread, AcquireAgain(l, id, t)
    PROVE  IInv'
<1> DEFINE b == id \in DOMAIN sessions
           n == NewGrant(l, id, t, locks[l].fence, b)
<1>1. b \in BOOLEAN
  OBVIOUS
<1>2. grants' = grants \cup {n}
  BY DEF AcquireAgain, Grant, NewGrant
<1>3. /\ l \in DOMAIN locks /\ locks[l].session = id /\ locks[l].thread = t
      /\ UNCHANGED <<sessionVars, nextFence>>
  BY DEF AcquireAgain, Owns
<1> HIDE DEF b
<1>4. n \in grants
  <2>1. PICK g \in grants : /\ g.lock = l /\ g.session = locks[l].session
                            /\ g.thread = locks[l].thread /\ g.fence = locks[l].fence
                            /\ g.alive <=> locks[l].session \in DOMAIN sessions
    BY <1>3 DEF IInv, HolderTold
  <2>2. g \in Told /\ g.alive \in BOOLEAN
    BY DEF IInv, LockTypes, Told
  <2>3. g.alive = b
    BY <1>1, <1>3, <2>1, <2>2 DEF b
  <2> QED
    BY <1>1, <1>3, <2>1, <2>2, <2>3, SameGrant
<1>5. grants' = grants
  BY <1>2, <1>4
<1>6. Registry
  BY <1>3 DEF sessionVars, Registry, IInv, SessionTypes, NoneOverdue
<1>7. DOMAIN locks' = DOMAIN locks
  BY DEF AcquireAgain
<1>8. ASSUME NEW m \in DOMAIN locks'
      PROVE  /\ locks'[m] \in Hold
             /\ locks'[m].fence = locks[m].fence
             /\ locks'[m].session = locks[m].session
             /\ locks'[m].thread = locks[m].thread
  <2>1. locks[m] \in Hold
    BY <1>7, <1>8 DEF IInv, LockTypes
  <2>2. CASE locks'[m] = locks[m]
    BY <2>1, <2>2
  <2>3. CASE locks'[m] = [locks[m] EXCEPT !.count = @ + 1]
    BY <2>1, <2>3 DEF Hold
  <2> QED
    BY <1>7, <1>8, <2>2, <2>3 DEF AcquireAgain
<1>9. Hold' = Hold /\ DOMAIN sessions' = DOMAIN sessions
  BY <1>3 DEF Hold, sessionVars
<1> QED
  BY <1>3, <1>5, <1>6, <1>7, <1>8, <1>9, GrantsNothing

LEMMA NextIInv == IInv /\ [Next]_vars => IInv'
<1> SUFFICES ASSUME IInv, [Next]_vars PROVE IInv'
  OBVIOUS
<1>1. CASE CreateSession
  <2>1. DOMAIN sessions \subseteq DOMAIN sessions'
    BY <1>1 DEF CreateSession, Set
  <2> QED
    BY <1>1, <2>1, CreateRegistry, HoldsSameSession DEF CreateSession, lockVars
<1>2. CASE Tick
  <2>1. DOMAIN sessions' = DOMAIN sessions \ Expired(clock + 1)
    BY <1>2 DEF Tick, Remove
  <2> QED
    BY <1>2, <2>1, TickRegistry, EndsSessions DEF Tick
<1>3. ASSUME NEW id \in 1 .. nextId, Heartbeat(id) PROVE IInv'
  <2>1. DOMAIN sessions \subseteq DOMAIN sessions'
    BY <1>3 DEF Heartbeat, Set
  <2> QED
    BY <1>3, <2>1, HeartbeatRegistry, HoldsSameSession DEF Heartbeat, lockVars
<1>4. ASSUME NEW id \in 1 .. nextId, CloseSession(id) PROVE IInv'
  <2>1. DOMAIN sessions' = DOMAIN sessions \ {id}
    BY <1>4 DEF CloseSession, Remove
  <2> QED
    BY <1>4, <2>1, CloseRegistry, EndsSessions DEF CloseSession
<1>5. CASE UNCHANGED vars
  BY <1>5 DEF vars, IInv, SessionTypes, LockTypes, NoneOverdue, HolderTold,
              FenceIdentifiesTenure, Hold, Told
<1> QED
  BY <1>1, <1>2, <1>3, <1>4, <1>5, AcquireFreeIInv, AcquireAgainIInv, UnlockIInv
     DEF Next, LockCommand

LEMMA IInvHolds == Spec => []IInv
  BY InitIInv, NextIInv, PTL DEF Spec

\* A fencing token names one tenure of one lock, and the current holder has the
\* largest token ever told for its lock, however many clients contend and however
\* often their sessions end (FencedLockSm::acquire, one fence source per group).
THEOREM FencesIdentifyTenures == Spec => []FenceIdentifiesTenure
<1>1. IInv => FenceIdentifiesTenure
  BY DEF IInv
<1> QED
  BY <1>1, IInvHolds, PTL

\* No lock outlives the session it was acquired for: one held for an ended session
\* was acquired after that end (CpSm::apply_session and tick release the locks of
\* the sessions they end in the same step).
THEOREM EndedSessionsReleased == Spec => []EndReleases
<1>1. IInv => EndReleases
  <2> SUFFICES ASSUME IInv, NEW l \in DOMAIN locks, locks[l].session \notin DOMAIN sessions,
                      NEW g \in grants, g.fence = locks[l].fence
               PROVE  ~g.alive
    BY DEF EndReleases
  <2>1. PICK k \in grants : k.fence = locks[l].fence /\ ~k.alive
    BY DEF IInv, HolderTold
  <2>2. k = g
    BY <2>1 DEF IInv, FenceIdentifiesTenure
  <2> QED
    BY <2>1, <2>2
<1> QED
  BY <1>1, IInvHolds, PTL

\* Every lease is kept to the tick: a session is dropped when its deadline comes, or
\* when its client closes it, and at no other time (SessionSm::tick, heartbeat).
THEOREM LeasesKept == Spec => LeaseKept
<1> DEFINE A == /\ \A id \in DOMAIN sessions' : sessions'[id] > clock'
                /\ \A id \in DOMAIN sessions \ DOMAIN sessions' :
                      clock' = clock \/ sessions[id] <= clock'
<1>1. IInv /\ [Next]_vars => [A]_vars
  <2> SUFFICES ASSUME IInv, Next PROVE A
    OBVIOUS
  <2>1. \A id \in DOMAIN sessions' : sessions'[id] > clock'
    BY NextIInv DEF IInv, NoneOverdue
  <2>2. CASE Tick
    BY <2>1, <2>2 DEF Tick, Remove, Expired, IInv, SessionTypes
  <2>3. CASE clock' = clock
    BY <2>1, <2>3
  <2> QED
    BY <2>2, <2>3 DEF Next, CreateSession, LockCommand, Heartbeat, CloseSession, AcquireFree,
                      AcquireAgain, Unlock, sessionVars
<1> QED
  BY <1>1, IInvHolds, PTL DEF Spec, LeaseKept
=============================================================================
