-------------------------- MODULE Membership_proofs --------------------------
(***************************************************************************)
(* What a member's picture of the cluster promises whatever the number of  *)
(* members: at most one side of a partition has a quorum, and a partition  *)
(* moves only when its owner dies, to the member next on the ring.         *)
(***************************************************************************)
EXTENDS Membership, FiniteSetTheorems, WellFoundedInduction, TLAPS

LEMMA SmallMod ==
    ASSUME NEW n \in Nat \ {0}, NEW x \in 0 .. 2 * n - 1
    PROVE  x % n = IF x < n THEN x ELSE x - n
  BY SMTT(60)

LEMMA ModRange ==
    ASSUME NEW n \in Nat \ {0}, NEW x \in Nat
    PROVE  x % n \in 0 .. n - 1
  OBVIOUS

LEMMA Minimum ==
    ASSUME NEW S \in SUBSET Nat, S # {}
    PROVE  Min(S) \in S /\ \A y \in S : Min(S) <= y
<1>1. PICK x \in S : \A y \in S : <<y, x>> \notin OpToRel(<, Nat)
  BY NatLessThanWellFounded, WFMin
<1>2. \A y \in S : ~(y < x)
  BY <1>1 DEF OpToRel
<1>3. \A y \in S : x <= y
  BY <1>2
<1> QED
  BY <1>3 DEF Min

LEMMA MinimumUnique ==
    ASSUME NEW S \in SUBSET Nat, NEW x \in S, \A y \in S : x <= y
    PROVE  Min(S) = x
<1> DEFINE m == Min(S)
<1>1. m \in S /\ \A y \in S : m <= y
  BY Minimum
<1> HIDE DEF m
<1>2. m = x
  BY <1>1
<1> QED
  BY <1>2 DEF m

\* A picture of n members.
Picture(c, n) == /\ n \in Nat \ {0} /\ Len(c.members) = n
                 /\ DOMAIN c.members = 1 .. n /\ c.alive \in [1 .. n -> BOOLEAN]

LEMMA RingIs ==
    ASSUME NEW c, NEW n, Picture(c, n), NEW i \in 1 .. n, NEW j \in 0 .. n
    PROVE  Ring(c, i, j) = IF i + j <= n THEN i + j ELSE i + j - n
<1> DEFINE x == i - 1 + j
<1>1. x \in 0 .. 2 * n - 1 /\ n \in Nat \ {0}
  BY DEF Picture
<1> HIDE DEF x
<1>2. x % n = IF x < n THEN x ELSE x - n
  BY <1>1, SmallMod
<1>3. Ring(c, i, j) = (x % n) + 1
  BY DEF Ring, Picture, x
<1> QED
  BY <1>1, <1>2, <1>3 DEF x

Home(n, p) == (p % n) + 1

\* How many places after the home of p there is a member alive.
Steps(c, n, p) == {j \in 0 .. n - 1 : c.alive[Ring(c, Home(n, p), j)]}

LEMMA HomeIs ==
    ASSUME NEW n \in Nat \ {0}, NEW p \in Nat
    PROVE  Home(n, p) \in 1 .. n
  BY ModRange DEF Home

LEMMA OwnerIs ==
    ASSUME NEW c, NEW n, Picture(c, n), NEW p \in Nat, Steps(c, n, p) # {}
    PROVE  LET m == Min(Steps(c, n, p))
           IN  /\ m \in 0 .. n - 1 /\ c.alive[Ring(c, Home(n, p), m)]
               /\ \A j \in Steps(c, n, p) : m <= j
               /\ Owner(c, p) = Ring(c, Home(n, p), m)
<1>1. Owner(c, p) = Ring(c, Home(n, p), Min(Steps(c, n, p)))
  BY DEF Owner, Steps, Home, Picture
<1>2. Steps(c, n, p) \in SUBSET Nat
  BY DEF Steps, Picture
<1>3. Min(Steps(c, n, p)) \in Steps(c, n, p) /\ \A j \in Steps(c, n, p) : Min(Steps(c, n, p)) <= j
  BY <1>2, Minimum
<1> QED
  BY <1>1, <1>3 DEF Steps

\* The ring reaches every member.
LEMMA RingReaches ==
    ASSUME NEW c, NEW n, Picture(c, n), NEW p \in Nat, NEW i \in 1 .. n
    PROVE  \E j \in 0 .. n - 1 : Ring(c, Home(n, p), j) = i
<1> DEFINE h == Home(n, p)
<1>1. h \in 1 .. n /\ n \in Nat
  BY HomeIs DEF Picture
<1> HIDE DEF h
<1>2. CASE h <= i
  <2>1. i - h \in 0 .. n - 1 /\ Ring(c, h, i - h) = i
    BY <1>1, <1>2, RingIs
  <2> QED
    BY <2>1 DEF h
<1>3. CASE i < h
  <2> DEFINE k == i - h + n
  <2>1. k \in 0 .. n - 1 /\ k \in 0 .. n /\ h + k = i + n
    BY <1>1, <1>3
  <2> HIDE DEF k
  <2>2. Ring(c, h, k) = i
    <3>1. Ring(c, h, k) = IF h + k <= n THEN h + k ELSE h + k - n
      BY <1>1, <2>1, RingIs
    <3> QED
      BY <1>1, <2>1, <3>1
  <2> QED
    BY <2>1, <2>2 DEF h
<1> QED
  BY <1>1, <1>2, <1>3

LEMMA StepsIfAlive ==
    ASSUME NEW c, NEW n, Picture(c, n), NEW p \in Nat, Alive(c) # {}
    PROVE  Steps(c, n, p) # {}
<1>1. PICK i \in 1 .. n : c.alive[i]
  BY DEF Alive, Picture
<1>2. PICK j \in 0 .. n - 1 : Ring(c, Home(n, p), j) = i
  BY RingReaches
<1> QED
  BY <1>1, <1>2 DEF Steps

\* While anybody is alive, every partition has an owner that is (Cluster::owner).
THEOREM OwnerAlive ==
    ASSUME NEW c, NEW n, Picture(c, n), NEW p \in Nat, Alive(c) # {}
    PROVE  Owner(c, p) \in Alive(c)
<1> DEFINE m == Min(Steps(c, n, p))
<1>1. m \in 0 .. n - 1 /\ c.alive[Ring(c, Home(n, p), m)] /\ Owner(c, p) = Ring(c, Home(n, p), m)
  BY OwnerIs, StepsIfAlive
<1> HIDE DEF m
<1>2. Ring(c, Home(n, p), m) \in 1 .. n
  <2> DEFINE h == Home(n, p)
  <2>1. h \in 1 .. n /\ n \in Nat /\ m \in 0 .. n
    BY <1>1, HomeIs DEF Picture
  <2> HIDE DEF h
  <2>2. Ring(c, h, m) \in 1 .. n
    BY <2>1, RingIs
  <2> QED
    BY <2>2 DEF h
<1> QED
  BY <1>1, <1>2 DEF Alive, Picture

\* d is what c becomes when the member at x dies.
Dies(c, d, n, x) ==
    /\ Picture(c, n) /\ Picture(d, n) /\ x \in Alive(c)
    /\ \A i \in 1 .. n : d.alive[i] <=> c.alive[i] /\ i # x

ClusterOf(U) == [members : Seq([uuid : U, join : Nat]), alive : Seq(BOOLEAN),
                 backups : Nat, quorum : Nat, gen : Nat]

\* RemoveMember is such a death.
LEMMA RemoveMemberKills ==
    ASSUME NEW U, NEW c \in ClusterOf(U), NEW n, Picture(c, n), NEW u, IsAlive(c, u),
           \A i, j \in 1 .. n : c.members[i].uuid = c.members[j].uuid => i = j
    PROVE  Dies(c, RemoveMember(c, u), n, IndexOf(c, u))
<1> DEFINE x == IndexOf(c, u)
           now == [c.alive EXCEPT ![x] = FALSE]
           d == [c EXCEPT !.alive = now, !.gen = @ + 1]
<1>1. x \in 1 .. n /\ c.alive[x]
  <2>1. PICK i \in 1 .. n : c.alive[i] /\ c.members[i].uuid = u
    BY DEF IsAlive, Alive, Picture
  <2>2. IndexOf(c, u) = i
    BY <2>1 DEF IndexOf, Indices, Picture
  <2> QED
    BY <2>1, <2>2
<1>2. RemoveMember(c, u) = d
  BY Zenon DEF RemoveMember
<1>3. DOMAIN c = {"members", "alive", "backups", "quorum", "gen"}
  BY DEF ClusterOf
<1> HIDE DEF now, x
<1>4. d.members = c.members /\ d.alive = now
  BY <1>3, Zenon
<1>5. now \in [1 .. n -> BOOLEAN] /\ \A i \in 1 .. n : now[i] <=> c.alive[i] /\ i # x
  BY <1>1 DEF now, Picture
<1> HIDE DEF d
<1>6. Picture(d, n)
  BY <1>4, <1>5 DEF Picture
<1>7. x \in Alive(c)
  BY <1>1 DEF Alive, Picture
<1> QED
  BY <1>2, <1>4, <1>5, <1>6, <1>7 DEF Dies, x

LEMMA SameRing ==
    ASSUME NEW c, NEW d, NEW n, Picture(c, n), Picture(d, n), NEW i, NEW j
    PROVE  Ring(d, i, j) = Ring(c, i, j)
  BY DEF Ring, Picture

\* A death moves no partition but those of the member that died: the ring keeps the
\* places of the dead (Cluster::remove_member_by_uuid leaves a tombstone).
THEOREM DeathMovesOnlyItsPartitions ==
    ASSUME NEW c, NEW d, NEW n, NEW x, Dies(c, d, n, x), NEW p \in Nat, Owner(c, p) # x
    PROVE  Owner(d, p) = Owner(c, p)
<1> DEFINE h == Home(n, p)
           m == Min(Steps(c, n, p))
<1>1. Picture(c, n) /\ Picture(d, n) /\ n \in Nat \ {0} /\ h \in 1 .. n
  BY HomeIs DEF Dies, Picture
<1>2. Steps(c, n, p) # {}
  BY <1>1, StepsIfAlive DEF Dies
<1>3. /\ m \in 0 .. n - 1 /\ c.alive[Ring(c, h, m)] /\ Owner(c, p) = Ring(c, h, m)
      /\ \A j \in Steps(c, n, p) : m <= j
  BY <1>1, <1>2, OwnerIs
<1> HIDE DEF m, h
<1>4. \A j \in 0 .. n - 1 : Ring(c, h, j) \in 1 .. n
  BY <1>1, RingIs
<1>5. Steps(d, n, p) = {j \in Steps(c, n, p) : Ring(c, h, j) # x}
  BY <1>1, <1>4, SameRing DEF Steps, Dies, h
<1>6. m \in Steps(d, n, p)
  BY <1>3, <1>5 DEF Steps, h
<1>7. Min(Steps(d, n, p)) = m
  BY <1>3, <1>5, <1>6, MinimumUnique DEF Steps
<1>8. Owner(d, p) = Ring(d, h, m)
  BY <1>1, <1>6, <1>7, OwnerIs DEF h
<1> QED
  BY <1>1, <1>3, <1>8, SameRing

\* The members after the one at x that are alive, by their distance: backups_of takes
\* the nearest of them, in order.
After(c, n, x) == {j \in 1 .. n - 1 : c.alive[Ring(c, x, j)]}

\* When the owner of a partition dies, the partition goes to the member that was its
\* first backup: the owner walk of the new view stops where the backup walk of the
\* old one started (Cluster::owner and Cluster::backups_of).
THEOREM FirstBackupTakesOver ==
    ASSUME NEW c, NEW d, NEW n, NEW x, Dies(c, d, n, x), NEW p \in Nat, Owner(c, p) = x,
           Alive(d) # {}
    PROVE  /\ After(c, n, x) # {}
           /\ Owner(d, p) = Ring(c, x, Min(After(c, n, x)))
<1> DEFINE h == Home(n, p)
           m == Min(Steps(c, n, p))
           q == Min(Steps(d, n, p))
<1>1. Picture(c, n) /\ Picture(d, n) /\ n \in Nat \ {0} /\ h \in 1 .. n
  BY HomeIs DEF Dies, Picture
<1>2. Steps(c, n, p) # {} /\ Steps(d, n, p) # {}
  BY <1>1, StepsIfAlive DEF Dies
<1>3. /\ m \in 0 .. n - 1 /\ x = Ring(c, h, m)
      /\ \A j \in Steps(c, n, p) : m <= j
  BY <1>1, <1>2, OwnerIs
<1>4. /\ q \in 0 .. n - 1 /\ d.alive[Ring(d, h, q)] /\ Owner(d, p) = Ring(d, h, q)
      /\ \A j \in Steps(d, n, p) : q <= j
  BY <1>1, <1>2, OwnerIs
<1> HIDE DEF m, q, h
\* Distances on the ring, without the remainders.
<1>5. \A j \in 0 .. n - 1 : Ring(c, h, j) = IF h + j <= n THEN h + j ELSE h + j - n
  BY <1>1, RingIs
<1>6. x = (IF h + m <= n THEN h + m ELSE h + m - n) /\ x \in 1 .. n
  BY <1>1, <1>3, <1>5
<1>7. \A j \in 1 .. n - 1 : Ring(c, x, j) = IF x + j <= n THEN x + j ELSE x + j - n
  BY <1>1, <1>6, RingIs
<1>8. \A j \in 0 .. n - 1 : Ring(c, h, j) \in 1 .. n
  BY <1>1, <1>5
<1>9. \A j \in 0 .. n - 1 : Ring(c, h, j) = x => j = m
  BY <1>1, <1>3, <1>5, <1>6
<1>10. Steps(d, n, p) = Steps(c, n, p) \ {m}
  <2>1. ASSUME NEW j \in 0 .. n - 1
        PROVE  d.alive[Ring(d, h, j)] <=> c.alive[Ring(c, h, j)] /\ j # m
    BY <1>1, <1>3, <1>8, <1>9, SameRing DEF Dies
  <2> QED
    BY <2>1 DEF Steps, h
<1>11. m < q
  <2>1. q \in Steps(d, n, p)
    BY <1>4 DEF Steps, h
  <2> QED
    BY <1>3, <1>4, <1>10, <2>1
<1>12. q - m \in 1 .. n - 1 /\ Ring(c, x, q - m) = Ring(c, h, q)
  <2>1. q - m \in 1 .. n - 1
    BY <1>1, <1>3, <1>4, <1>11
  <2>2. x + (q - m) = IF h + m <= n THEN h + q ELSE h + q - n
    BY <1>1, <1>3, <1>4, <1>6
  <2>3. Ring(c, x, q - m) = IF x + (q - m) <= n THEN x + (q - m) ELSE x + (q - m) - n
    BY <1>7, <2>1
  <2>4. Ring(c, h, q) = IF h + q <= n THEN h + q ELSE h + q - n
    BY <1>4, <1>5
  <2>5. CASE h + m <= n
    <3>1. x + (q - m) = h + q
      BY <2>2, <2>5
    <3>2. Ring(c, x, q - m) = IF h + q <= n THEN h + q ELSE h + q - n
      BY <1>1, <1>3, <1>4, <1>6, <2>3, <3>1
    <3> QED
      BY <2>1, <2>4, <3>2
  <2>6. CASE ~(h + m <= n)
    <3>1. ~(h + q <= n) /\ h + q - n <= n
      BY <1>1, <1>3, <1>4, <1>11, <2>6
    <3> QED
      BY <2>1, <2>2, <2>3, <2>4, <2>6, <3>1
  <2> QED
    BY <2>5, <2>6
<1>13. q - m \in After(c, n, x)
  <2>1. c.alive[Ring(c, h, q)]
    BY <1>1, <1>4, <1>8, SameRing DEF Dies
  <2> QED
    BY <1>12, <2>1 DEF After
<1>14. ASSUME NEW j \in After(c, n, x) PROVE q - m <= j
  <2>1. j \in 1 .. n - 1 /\ c.alive[Ring(c, x, j)]
    BY DEF After
  <2>2. CASE m + j <= n - 1
    <3>1. m + j \in 0 .. n - 1 /\ m + j # m
      BY <1>1, <1>3, <2>1, <2>2
    <3>2. Ring(c, h, m + j) = Ring(c, x, j)
      BY <1>1, <1>3, <1>5, <1>6, <1>7, <2>1, <3>1
    <3>3. m + j \in Steps(d, n, p)
      BY <1>10, <2>1, <3>1, <3>2 DEF Steps, h
    <3> QED
      BY <1>1, <1>3, <1>4, <2>1, <3>3
  <2>3. CASE m + j > n - 1
    <3> DEFINE k == m + j - n
    <3>1. k \in 0 .. n - 1 /\ k < m /\ m + j = k + n
      BY <1>1, <1>3, <2>1, <2>3
    <3> HIDE DEF k
    <3>2. Ring(c, h, k) = Ring(c, x, j)
      BY <1>1, <1>3, <1>5, <1>6, <1>7, <2>1, <3>1
    <3>3. k \in Steps(c, n, p)
      BY <2>1, <3>1, <3>2 DEF Steps, h
    <3> QED
      BY <1>3, <3>1, <3>3
  <2> QED
    BY <1>1, <1>3, <2>1, <2>2, <2>3
<1>15. Min(After(c, n, x)) = q - m
  <2>1. After(c, n, x) \in SUBSET Nat
    BY <1>1 DEF After
  <2> QED
    BY <1>13, <1>14, <2>1, MinimumUnique
<1> QED
  BY <1>1, <1>4, <1>12, <1>13, <1>15, SameRing

\* Two members that count disjoint sets of members alive never both have a quorum,
\* when the quorum is the default one of the cluster they list: the promise of
\* default_quorum, that "at most one side of any network partition can retain quorum".
\* It is about members whose lists have the size the quorum was computed for: the
\* quorum is fixed when a member starts, while the list grows with joins.
THEOREM QuorumExclusive ==
    ASSUME NEW c, NEW d, NEW n, Picture(c, n), Picture(d, n),
           c.quorum = DefaultQuorum(n), d.quorum = DefaultQuorum(n),
           Alive(c) \cap Alive(d) = {}
    PROVE  ~(HasQuorum(c) /\ HasQuorum(d))
<1>1. n \in Nat /\ IsFiniteSet(1 .. n) /\ Cardinality(1 .. n) = n
  BY FS_Interval DEF Picture
<1>2. Alive(c) \in SUBSET (1 .. n) /\ Alive(d) \in SUBSET (1 .. n)
  BY DEF Alive, Picture
<1>3. /\ IsFiniteSet(Alive(c)) /\ IsFiniteSet(Alive(d))
      /\ Cardinality(Alive(c)) \in Nat /\ Cardinality(Alive(d)) \in Nat
  BY <1>1, <1>2, FS_Subset, FS_CardinalityType
<1>4. Cardinality(Alive(c) \cup Alive(d)) = Cardinality(Alive(c)) + Cardinality(Alive(d))
  <2> DEFINE A == Alive(c)
             B == Alive(d)
  <2>1. Cardinality(A \cap B) = 0
    BY FS_EmptySet
  <2>2. IsFiniteSet(A) /\ IsFiniteSet(B) /\ Cardinality(A) \in Nat /\ Cardinality(B) \in Nat
    BY <1>3
  <2> HIDE DEF A, B
  <2>3. Cardinality(A \cup B) = Cardinality(A) + Cardinality(B) - Cardinality(A \cap B)
    BY <2>2, FS_Union
  <2>4. Cardinality(A \cup B) = Cardinality(A) + Cardinality(B)
    BY <2>1, <2>2, <2>3
  <2> QED
    BY <2>4 DEF A, B
<1>5. Cardinality(Alive(c) \cup Alive(d)) <= n
  BY <1>1, <1>2, FS_Subset
<1> QED
  BY <1>1, <1>3, <1>4, <1>5 DEF HasQuorum, DefaultQuorum
=============================================================================
