------------------------------ MODULE QueryProofs ------------------------------
(***************************************************************************)
(* Theorems about the queries, for any number of databases, any entries,   *)
(* any levels and conditions, and any limits of a page: the pages of a     *)
(* reader go one way, and pass over no entry.                              *)
(***************************************************************************)
EXTENDS Query, FiniteSetTheorems, SequenceTheorems, WellFoundedInduction, TLAPS

Sorted(s) == \A i, j \in DOMAIN s : i < j => Ahead(s[i], s[j])

QueryTypes ==
    /\ store \in [Dbs -> SUBSET Keys]
    /\ ends \in [Dbs -> Nat]
    /\ known \in BOOLEAN
    /\ req \in [before : BOOLEAN, page : PageSizes, levels : LevelSets,
                expr : Exprs, from : Froms, keys : SUBSET Keys]
    /\ got \in Seq(Keys) /\ list \in Seq(Keys)
    /\ dbs \in Seq(Dbs)
    /\ pc \in {"idle", "visit", "wait", "end"}
    /\ asked \in Nat

\* A database holds what is of its time, and no key that the property is about
\* leaves its database.
InPlace ==
    /\ \A d \in Dbs : \A k \in store[d] : InTime(k, d)
    /\ \A k \in req.keys : \E d \in Dbs : k \in store[d]

\* A database that is left out ends before the entries that it holds, unless
\* its end was not known and something earlier was flushed to it.
EndsCoverKeys ==
    \A d \in Dbs : \A k \in store[d] :
        \/ ends[d] = 0
        \/ ends[d] >= Epoch(k)
        \/ /\ d = Live /\ ~known
           /\ \E l \in store[Live] \ req.keys : Epoch(l) < Epoch(k)

\* The end of a database is zero for an unknown one and an empty one only.
KnownIsKnown ==
    known => \A d \in Dbs : \A k \in store[d] : ends[d] >= Epoch(k)

\* An entry that the reader shall get.
Due(k) == k \in req.keys /\ Wanted(k) /\ ~Hidden(k)

\* What has been got is in order, and complete as far as it goes.
GotAll ==
    /\ Sorted(got)
    /\ \A k \in ToSet(got) : Ahead(req.from, k)
    /\ \A k \in req.keys :
          Due(k) /\ Ahead(req.from, k) /\ ~Ahead(Cursor, k) => k \in ToSet(got)

\* The page so far is in order, and has all that the databases do not have that
\* are still to visit.
Visiting ==
    pc = "visit" =>
        /\ asked = Cursor
        /\ Len(list) < req.page
        /\ Sorted(list)
        /\ \A k \in ToSet(list) : Ahead(asked, k)
        /\ Sorted(dbs)
        /\ \A k \in ToSet(list), e \in ToSet(dbs) :
              \E d \in Dbs : k \in store[d] /\ Ahead(d, e)
        /\ \A k \in req.keys :
              Due(k) /\ Ahead(asked, k) =>
                  k \in ToSet(list) \/ \E e \in ToSet(dbs) : k \in store[e]

\* What the databases before that of the task have has been got, and no more.
Waiting ==
    pc = "wait" =>
        /\ task \in Dbs
        /\ \/ Cursor = asked
           \/ /\ Ahead(asked, Cursor)
              /\ \E d \in Dbs : Cursor \in store[d] /\ Ahead(d, task)
        /\ \A k \in req.keys, d \in Dbs :
              Due(k) /\ Ahead(asked, k) /\ k \in store[d] /\ Ahead(d, task) =>
                  k \in ToSet(got)

AtEnd == pc = "end" => \A k \in req.keys : Due(k) => ~Ahead(Cursor, k)

QueryInv ==
    /\ QueryTypes
    /\ InPlace
    /\ EndsCoverKeys
    /\ KnownIsKnown
    /\ GotAll
    /\ Visiting
    /\ Waiting
    /\ AtEnd

----------------------------------------------------------------------------
(* A set in turn: Ahead is a strict order, so the elements have different  *)
(* numbers ahead of them, and there are as many numbers as elements.       *)

LEMMA AheadIsAnOrder ==
    ASSUME NEW a \in Int, NEW b \in Int, NEW c \in Int
    PROVE  /\ ~Ahead(a, a)
           /\ Ahead(a, b) /\ Ahead(b, c) => Ahead(a, c)
           /\ Ahead(a, b) \/ Ahead(b, a) \/ a = b
           /\ Ahead(a, b) => ~Ahead(b, a)
  BY DEF Ahead

\* How many are ahead of a.
Place(a, S) == Cardinality({b \in S : Ahead(b, a)})

LEMMA InTurnSorts ==
    ASSUME NEW S \in SUBSET Int, IsFiniteSet(S)
    PROVE  /\ Cardinality(S) \in Nat
           /\ InTurn(S) \in [1..Cardinality(S) -> S]
           /\ \A a \in S : \E i \in 1..Cardinality(S) : InTurn(S)[i] = a
           /\ \A i, j \in 1..Cardinality(S) :
                 i < j => Ahead(InTurn(S)[i], InTurn(S)[j])
<1> DEFINE before(a) == {b \in S : Ahead(b, a)}
           n == Cardinality(S)
           r == [a \in S |-> Place(a, S) + 1]
<1>1. n \in Nat
  BY FS_CardinalityType
<1>2. ASSUME NEW a \in S
      PROVE  /\ before(a) \in SUBSET S /\ a \notin before(a)
             /\ IsFiniteSet(before(a))
             /\ Place(a, S) \in Nat /\ Place(a, S) = Cardinality(before(a))
  <2>1. before(a) \in SUBSET S
    OBVIOUS
  <2>2. a \notin before(a)
    BY AheadIsAnOrder
  <2>3. IsFiniteSet(before(a))
    BY <2>1, FS_Subset
  <2> QED
    BY <2>1, <2>2, <2>3, FS_CardinalityType DEF Place
<1>0. \A a \in S : Place(a, S) \in Nat
  BY <1>2
<1>3. ASSUME NEW a \in S PROVE Place(a, S) + 1 \in 1..n
  <2>1. before(a) # S
    BY <1>2
  <2>2. Cardinality(before(a)) <= n /\ Cardinality(before(a)) # n
    <3>1. before(a) \in SUBSET S
      BY <1>2
    <3> HIDE DEF before
    <3> QED
      BY ONLY <2>1, <3>1, IsFiniteSet(S), FS_Subset DEF n
  <2>3. Place(a, S) \in Nat
    BY <1>0
  <2>4. Place(a, S) <= n /\ Place(a, S) # n
    <3>1. Place(a, S) = Cardinality(before(a))
      BY <1>2
    <3> QED
      BY ONLY <2>2, <3>1
  <2> HIDE DEF n
  <2> QED
    BY ONLY <1>1, <2>3, <2>4
<1>4. ASSUME NEW a \in S, NEW b \in S, Ahead(a, b) PROVE Place(a, S) < Place(b, S)
  <2>1. before(a) \in SUBSET before(b)
    BY <1>4, AheadIsAnOrder
  <2>2. before(a) # before(b)
    BY <1>2, <1>4
  <2>3. Place(a, S) <= Place(b, S) /\ Place(a, S) # Place(b, S)
    BY <1>2, <2>1, <2>2, FS_Subset
  <2> QED
    BY ONLY <1>0, <2>3
<1>5. \A k \in 1..n : \E a \in S : Place(a, S) = k - 1
  <2>1. r \in [S -> 1..n]
    BY <1>3
  <2>2. \A a, b \in S : Place(a, S) = Place(b, S) => a = b
    <3>1. ASSUME NEW a \in S, NEW b \in S, a # b PROVE Place(a, S) # Place(b, S)
      <4>1. Ahead(a, b) \/ Ahead(b, a)
        BY <3>1, AheadIsAnOrder
      <4>2. Place(a, S) < Place(b, S) \/ Place(b, S) < Place(a, S)
        BY <1>4, <4>1
      <4> QED
        BY ONLY <1>0, <4>2
    <3> QED
      BY <3>1
  <2>3. r \in Injection(S, 1..n)
    <3>1. \A a \in S : r[a] = Place(a, S) + 1 /\ Place(a, S) \in Nat
      BY <1>2
    <3> HIDE DEF r, n
    <3>2. \A a, b \in S : r[a] = r[b] => a = b
      BY <2>2, <3>1
    <3> QED
      BY <2>1, <3>2 DEF Injection, IsInjective
  <2>4. IsFiniteSet(1..n) /\ Cardinality(1..n) = n
    BY <1>1, FS_Interval
  <2>5. r \in Surjection(S, 1..n)
    BY <2>3, <2>4, FS_Injection
  <2>6. \A k \in 1..n : \E a \in S : r[a] = k
    BY <2>5 DEF Surjection
  <2>7. \A a \in S : r[a] = Place(a, S) + 1
    OBVIOUS
  <2> HIDE DEF r, n
  <2>8. ASSUME NEW k \in 1..n PROVE \E a \in S : Place(a, S) = k - 1
    <3>1. PICK a \in S : r[a] = k
      BY <2>6
    <3>2. Place(a, S) + 1 = k /\ Place(a, S) \in Nat
      BY ONLY <1>0, <2>7, <3>1
    <3> QED
      BY <3>2
  <2> QED
    BY ONLY <2>8
<1>6. ASSUME NEW k \in 1..n PROVE InTurn(S)[k] \in S /\ Place(InTurn(S)[k], S) = k - 1
  BY <1>5 DEF InTurn, Place
<1>7. InTurn(S) \in [1..n -> S]
  BY <1>6 DEF InTurn
<1>8. ASSUME NEW a \in S PROVE \E i \in 1..n : InTurn(S)[i] = a
  <2>1. PICK i \in 1..n : i = Place(a, S) + 1
    BY <1>3
  <2>2. InTurn(S)[i] \in S /\ Place(InTurn(S)[i], S) = i - 1
    BY <1>6
  <2>3. Place(InTurn(S)[i], S) = Place(a, S)
    BY ONLY <1>0, <1>1, <2>1, <2>2
  <2>4. InTurn(S)[i] = a
    <3>1. ASSUME InTurn(S)[i] # a PROVE FALSE
      <4> DEFINE b == InTurn(S)[i]
      <4>1. b \in S
        BY <2>2
      <4> HIDE DEF b
      <4>2. Ahead(a, b) \/ Ahead(b, a)
        BY <3>1, <4>1, AheadIsAnOrder DEF b
      <4>3. Place(a, S) < Place(b, S) \/ Place(b, S) < Place(a, S)
        BY <1>4, <4>1, <4>2
      <4>4. Place(a, S) = Place(b, S)
        BY <2>3 DEF b
      <4>5. Place(a, S) \in Nat /\ Place(b, S) \in Nat
        BY <1>2, <4>1
      <4> QED
        BY <4>3, <4>4, <4>5
    <3> QED
      BY <3>1
  <2> QED
    BY <2>4
<1>9. ASSUME NEW i \in 1..n, NEW j \in 1..n, i < j
      PROVE  Ahead(InTurn(S)[i], InTurn(S)[j])
  <2> DEFINE a == InTurn(S)[i]
             b == InTurn(S)[j]
  <2>1. a \in S /\ b \in S /\ Place(a, S) = i - 1 /\ Place(b, S) = j - 1
    BY <1>6
  <2> HIDE DEF a, b
  <2>2. Place(a, S) < Place(b, S)
    <3> HIDE DEF n
    <3> QED
      BY <1>1, <1>9, <2>1
  <2>3. ~(Place(b, S) < Place(a, S)) /\ Place(a, S) # Place(b, S)
    <3>1. Place(a, S) \in Nat /\ Place(b, S) \in Nat
      BY <1>2, <2>1
    <3> QED
      BY <2>2, <3>1
  <2>4. ~Ahead(b, a) /\ a # b
    BY <1>4, <2>1, <2>3
  <2> QED
    BY <2>1, <2>4, AheadIsAnOrder DEF a, b
<1> QED
  BY <1>1, <1>7, <1>8, <1>9

----------------------------------------------------------------------------
(* Sequences in order.                                                     *)

LEMMA Elements ==
    ASSUME NEW T, NEW s \in Seq(T)
    PROVE  /\ ToSet(s) \subseteq T
           /\ s # <<>> => Last(s) \in ToSet(s)
           /\ s = <<>> => ToSet(s) = {}
<1>1. Len(s) \in Nat /\ DOMAIN s = 1..Len(s) /\ \A i \in 1..Len(s) : s[i] \in T
  BY LenProperties
<1>2. s # <<>> => Len(s) \in 1..Len(s)
  BY <1>1, EmptySeq
<1>3. s = <<>> => Len(s) = 0
  BY EmptySeq
<1> QED
  BY <1>1, <1>2, <1>3 DEF ToSet, Last

LEMMA LastIsLast ==
    ASSUME NEW s \in Seq(Int), Sorted(s), s # <<>>, NEW k \in ToSet(s)
    PROVE  k = Last(s) \/ Ahead(k, Last(s))
<1>1. PICK z \in Nat : z = Len(s) /\ DOMAIN s = 1..z
  BY LenProperties
<1>2. PICK i \in 1..z : k = s[i]
  BY <1>1 DEF ToSet
<1>3. z \in 1..z /\ (i = z \/ i < z)
  BY <1>1, <1>2
<1> QED
  BY <1>1, <1>2, <1>3 DEF Sorted, Last

LEMMA Joined ==
    ASSUME NEW T \in SUBSET Int, NEW s \in Seq(T), NEW t \in Seq(T)
    PROVE  /\ s \o t \in Seq(T)
           /\ Len(s \o t) = Len(s) + Len(t)
           /\ ToSet(s \o t) = ToSet(s) \cup ToSet(t)
           /\ t # <<>> => s \o t # <<>> /\ Last(s \o t) = Last(t)
           /\ t = <<>> => s \o t = s
           /\ Sorted(s) /\ Sorted(t) /\ (\A a \in ToSet(s), b \in ToSet(t) : Ahead(a, b))
                 => Sorted(s \o t)
<1> DEFINE u == s \o t
<1>1. PICK m \in Nat : m = Len(s) /\ DOMAIN s = 1..m
  BY LenProperties
<1>2. PICK n \in Nat : n = Len(t) /\ DOMAIN t = 1..n
  BY LenProperties
<1>3. u \in Seq(T) /\ Len(u) = m + n /\ DOMAIN u = 1..(m + n)
  BY <1>1, <1>2, ConcatProperties, LenProperties
<1>4. \A i \in 1..(m + n) : u[i] = IF i <= m THEN s[i] ELSE t[i - m]
  BY <1>1, <1>2, ConcatProperties
<1> HIDE DEF u
<1>5. ToSet(u) = ToSet(s) \cup ToSet(t)
  <2>1. ASSUME NEW i \in 1..(m + n) PROVE u[i] \in ToSet(s) \cup ToSet(t)
    <3>1. i <= m => i \in 1..m
      OBVIOUS
    <3>2. ~(i <= m) => i - m \in 1..n
      OBVIOUS
    <3> QED
      BY <1>1, <1>2, <1>4, <3>1, <3>2 DEF ToSet
  <2>2. ASSUME NEW i \in 1..m PROVE s[i] \in ToSet(u)
    <3>1. i \in 1..(m + n) /\ i <= m
      OBVIOUS
    <3> QED
      BY <1>3, <1>4, <3>1 DEF ToSet
  <2>3. ASSUME NEW i \in 1..n PROVE t[i] \in ToSet(u)
    <3>1. m + i \in 1..(m + n) /\ ~(m + i <= m) /\ (m + i) - m = i
      OBVIOUS
    <3>2. u[m + i] = t[i]
      BY <1>4, <3>1
    <3> QED
      BY <1>3, <3>1, <3>2 DEF ToSet
  <2> QED
    BY <1>1, <1>2, <1>3, <2>1, <2>2, <2>3 DEF ToSet
<1>6. t # <<>> => u # <<>> /\ Last(u) = Last(t)
  <2>1. SUFFICES ASSUME t # <<>> PROVE u # <<>> /\ Last(u) = Last(t)
    OBVIOUS
  <2>2. n \in 1..n
    BY <1>2, <2>1, EmptySeq
  <2>3. m + n \in 1..(m + n) /\ ~(m + n <= m) /\ (m + n) - m = n
    BY <2>2
  <2>4. u[m + n] = t[n]
    BY <1>4, <2>3
  <2>5. u # <<>>
    BY <1>3, <2>3, EmptySeq
  <2> QED
    BY <1>2, <1>3, <2>4, <2>5 DEF Last
<1>7. t = <<>> => u = s
  BY ConcatEmptySeq DEF u
<1>8. ASSUME Sorted(s), Sorted(t), \A a \in ToSet(s), b \in ToSet(t) : Ahead(a, b),
             NEW i \in 1..(m + n), NEW j \in 1..(m + n), i < j
      PROVE  Ahead(u[i], u[j])
  <2>1. CASE j <= m
    <3>1. i \in 1..m /\ j \in 1..m /\ i <= m
      BY <1>8, <2>1
    <3> QED
      BY <1>1, <1>4, <1>8, <2>1, <3>1 DEF Sorted
  <2>2. CASE i <= m /\ ~(j <= m)
    <3>1. i \in 1..m /\ j - m \in 1..n
      BY <2>2
    <3>2. u[i] \in ToSet(s) /\ u[j] \in ToSet(t)
      BY <1>1, <1>2, <1>4, <2>2, <3>1 DEF ToSet
    <3> QED
      BY <1>8, <3>2
  <2>3. CASE ~(i <= m)
    <3>1. i - m \in 1..n /\ j - m \in 1..n /\ i - m < j - m /\ ~(j <= m)
      BY <1>8, <2>3
    <3> QED
      BY <1>2, <1>4, <1>8, <2>3, <3>1 DEF Sorted
  <2>4. i <= m \/ ~(i <= m)
    OBVIOUS
  <2> QED
    BY <2>1, <2>2, <2>3, <2>4
<1>9. Sorted(s) /\ Sorted(t) /\ (\A a \in ToSet(s), b \in ToSet(t) : Ahead(a, b))
         => Sorted(u)
  BY <1>3, <1>8 DEF Sorted
<1> QED
  BY <1>1, <1>2, <1>3, <1>5, <1>6, <1>7, <1>9 DEF u

----------------------------------------------------------------------------
(* Databases and pages.                                                    *)

LEMMA Numbers ==
    /\ Live \in Nat /\ Live >= 1 /\ Dbs = 1..Live /\ Live \in Dbs
    /\ \A d \in Dbs : Starts[d] \in Nat
    /\ Keys \subseteq Nat /\ IsFiniteSet(Keys)
    /\ \A k \in Keys : Epoch(k) \in Nat
    /\ \A j, k \in Keys : j <= k => Epoch(j) <= Epoch(k)
<1>1. Live \in Nat /\ Live >= 1 /\ Dbs = 1..Live /\ \A d \in Dbs : Starts[d] \in Nat
  BY QueryAssumption, LenProperties, EmptySeq DEF Live, Dbs
<1>2. IsFiniteSet(Keys)
  BY QueryAssumption, FS_Interval DEF Keys
<1>3. Keys \subseteq Nat
  BY QueryAssumption DEF Keys
<1>4. \A j, k \in Nat : Epoch(k) \in Nat /\ (j <= k => Epoch(j) <= Epoch(k))
  BY DEF Epoch
<1> QED
  BY <1>1, <1>2, <1>3, <1>4

\* The entries of one database are before all of the next.
LEMMA PlacesInOrder ==
    ASSUME NEW d \in Dbs, NEW e \in Dbs, NEW j \in Keys, NEW k \in Keys,
           InTime(j, d), InTime(k, e)
    PROVE  /\ d < e => j < k
           /\ Ahead(d, e) => Ahead(j, k)
<1>1. ASSUME NEW a \in Dbs, NEW b \in Dbs, NEW x \in Keys, NEW y \in Keys,
             InTime(x, a), InTime(y, b), a < b
      PROVE  x < y
  <2>1. a < Live /\ a + 1 \in Dbs /\ (a + 1 = b \/ a + 1 < b)
    BY <1>1, Numbers
  <2>2. Starts[a + 1] <= Starts[b]
    <3>1. \A f, g \in Dbs : f < g => Starts[f] < Starts[g]
      BY QueryAssumption
    <3>2. Starts[a + 1] \in Nat /\ Starts[b] \in Nat
      BY <2>1, Numbers
    <3>3. a + 1 = b \/ Starts[a + 1] < Starts[b]
      BY <2>1, <3>1
    <3> QED
      BY <3>2, <3>3
  <2>3. Epoch(x) < Starts[a + 1] /\ Starts[b] <= Epoch(y)
    BY <1>1, <2>1 DEF InTime
  <2>4. Epoch(x) < Epoch(y)
    BY <2>1, <2>2, <2>3, Numbers
  <2>5. ~(y <= x)
    BY <2>4, Numbers
  <2> QED
    BY <2>5, Numbers
<1>2. d < e => j < k
  BY <1>1
<1>3. e < d => k < j
  BY <1>1
<1> QED
  BY <1>2, <1>3 DEF Ahead

LEMMA GreatestOf ==
    ASSUME NEW S \in SUBSET Keys, S # {}
    PROVE  Max(S) \in S /\ \A k \in S : k <= Max(S)
<1>1. PICK b \in Nat : \A k \in S : k \in Nat /\ k <= b
  <2>1. MaxKey \in Nat
    BY QueryAssumption
  <2>2. \A k \in S : k \in Nat /\ k <= MaxKey
    BY <2>1 DEF Keys
  <2> QED
    BY <2>1, <2>2
<1> DEFINE Less == OpToRel(<, Nat)
           D == {n \in Nat : \E k \in S : n = b - k}
<1>2. \A x, y \in Nat : x < y => <<x, y>> \in Less
  BY DEF OpToRel
<1>3. IsWellFoundedOn(Less, Nat)
  BY NatLessThanWellFounded
<1> HIDE DEF Less
<1>4. D \subseteq Nat /\ D # {}
  <2>1. PICK k \in S : TRUE
    OBVIOUS
  <2>2. b - k \in Nat
    BY <1>1
  <2> QED
    BY <2>2
<1>5. PICK n \in D : \A m \in D : ~(<<m, n>> \in Less)
  BY <1>3, <1>4, WFMin
<1>6. PICK x \in S : n = b - x
  OBVIOUS
<1>7. ASSUME NEW k \in S PROVE k <= x
  <2>1. b - k \in D /\ b - k \in Nat /\ n \in Nat
    BY <1>1
  <2>2. ~(b - k < n)
    BY <1>2, <1>5, <2>1
  <2>3. x \in Nat /\ k \in Nat
    BY <1>1
  <2> QED
    BY ONLY <1>1, <1>6, <2>2, <2>3
<1> QED
  BY <1>7 DEF Max

LEMMA Extremes ==
    ASSUME NEW a \in Nat, NEW b \in Nat
    PROVE  /\ Max({a, b}) = IF a >= b THEN a ELSE b
           /\ Min({a, b}) = IF a <= b THEN a ELSE b
  BY DEF Max, Min

\* LIMIT is no less than a page.
LEMMA LimitFits ==
    ASSUME QueryTypes
    PROVE  /\ Limit \in Nat /\ req.page \in Nat /\ req.page >= 1
           /\ req.page <= Limit
<1>1. req.page \in Nat /\ req.page >= 1 /\ req.page <= MaxPage
  <2>1. req.page \in PageSizes
    BY DEF QueryTypes
  <2>2. req.page \in 1..MaxPage /\ MaxPage \in Nat
    BY <2>1, QueryAssumption
  <2> QED
    BY <2>2
<1>2. PICK m \in Nat : m = Max({req.page, MinPage})
  BY <1>1, Extremes, QueryAssumption
<1>3. m >= req.page
  BY <1>1, <1>2, Extremes, QueryAssumption
<1>4. Limit = IF m <= MaxPage THEN m ELSE MaxPage
  BY <1>2, Extremes, QueryAssumption DEF Limit
<1> QED
  BY <1>1, <1>3, <1>4, QueryAssumption

\* A page of a database is in order, and what it leaves out comes after it.
LEMMA PageHolds ==
    ASSUME QueryTypes, NEW d \in Dbs
    PROVE  /\ Page(d) \in Seq(Keys)
           /\ Sorted(Page(d))
           /\ ToSet(Page(d)) \subseteq Matches(d)
           /\ \A k \in Matches(d) :
                 \/ k \in ToSet(Page(d))
                 \/ /\ Len(Page(d)) = Limit
                    /\ \A a \in ToSet(Page(d)) : Ahead(a, k)
<1> DEFINE M == Matches(d)
           n == Cardinality(M)
           f == InTurn(M)
           z == Min({Limit, n})
           p == Page(d)
<1>1. M \in SUBSET Keys /\ M \in SUBSET Int /\ IsFiniteSet(M)
  <2>1. M \in SUBSET Keys
    BY DEF Matches, QueryTypes
  <2>2. Keys \subseteq Int /\ IsFiniteSet(Keys)
    BY Numbers
  <2> HIDE DEF M
  <2>3. IsFiniteSet(M)
    BY <2>1, <2>2, FS_Subset
  <2> QED
    BY <2>1, <2>2, <2>3
<1>2. p = SubSeq(f, 1, z)
  BY DEF Page
<1> HIDE DEF M, p
<1>3. /\ n \in Nat /\ f \in [1..n -> M]
      /\ \A a \in M : \E i \in 1..n : f[i] = a
      /\ \A i, j \in 1..n : i < j => Ahead(f[i], f[j])
  BY <1>1, InTurnSorts
<1> HIDE DEF n, f
<1>4. z \in Nat /\ z <= n /\ (z < n => z = Limit)
  <2>1. PICK l \in Nat : l = Limit
    BY LimitFits
  <2>2. Min({l, n}) = IF l <= n THEN l ELSE n
    BY <1>3, Extremes
  <2> QED
    BY <1>3, <2>1, <2>2
<1> HIDE DEF z
<1>5. p \in Seq(M) /\ Len(p) = z /\ \A i \in 1..z : p[i] = f[i]
  <2>1. \A i \in 1..z : f[i] \in M
    BY <1>3, <1>4
  <2>2. p \in Seq(M) /\ Len(p) = (IF 1 <= z THEN z - 1 + 1 ELSE 0)
        /\ \A i \in 1..(z - 1 + 1) : p[i] = f[1 + i - 1]
    BY <1>2, <1>4, <2>1, SubSeqProperties
  <2>3. \A i \in 1..z : i \in 1..(z - 1 + 1) /\ 1 + i - 1 = i
    BY <1>4
  <2> QED
    BY <1>4, <2>2, <2>3
<1>6. DOMAIN p = 1..z
  BY <1>5, LenProperties
<1>7. p \in Seq(Keys)
  BY <1>1, <1>5, SeqMonotonic
<1>8. Sorted(p)
  BY <1>3, <1>4, <1>5, <1>6 DEF Sorted
<1>9. ToSet(p) \subseteq M
  BY <1>5, Elements
<1>10. ASSUME NEW k \in M, k \notin ToSet(p)
       PROVE  z = Limit /\ \A a \in ToSet(p) : Ahead(a, k)
  <2>1. PICK i \in 1..n : f[i] = k
    BY <1>3
  <2>2. ~(i <= z)
    <3>1. i <= z => i \in 1..z
      BY <1>4
    <3> QED
      BY <1>5, <1>6, <1>10, <2>1, <3>1 DEF ToSet
  <2>3. z < n
    BY <1>3, <1>4, <2>2
  <2>4. ASSUME NEW a \in ToSet(p) PROVE Ahead(a, k)
    <3>1. PICK j \in 1..z : a = p[j]
      BY <1>6 DEF ToSet
    <3>2. j \in 1..n /\ j < i /\ a = f[j]
      BY <1>3, <1>4, <1>5, <2>2, <3>1
    <3> QED
      BY <1>3, <2>1, <3>2
  <2> QED
    BY <1>4, <2>3, <2>4
<1> QED
  BY <1>5, <1>7, <1>8, <1>9, <1>10 DEF M, p

LEMMA FourLevels == Cardinality(Levels) = 4
<1>1. IsFiniteSet({}) /\ Cardinality({}) = 0
  BY FS_EmptySet
<1>2. IsFiniteSet({"error"}) /\ Cardinality({"error"}) = 1
  BY FS_Singleton
<1>3. IsFiniteSet({"error"} \cup {"warn"}) /\ Cardinality({"error"} \cup {"warn"}) = 2
  BY <1>2, FS_AddElement
<1> DEFINE three == ({"error"} \cup {"warn"}) \cup {"info"}
<1>4. IsFiniteSet(three) /\ Cardinality(three) = 3
  BY <1>3, FS_AddElement
<1>5. "debug" \notin three /\ Levels = three \cup {"debug"}
  BY DEF Levels
<1> HIDE DEF three
<1> QED
  BY <1>4, <1>5, FS_AddElement

LEMMA ClassInRanges ==
    ASSUME NEW levels \in SUBSET Levels, Cardinality(levels) # 4,
           NEW n \in Int, ClassOf(n) \in levels
    PROVE  InRanges(levels, n)
<1>1. CASE n >= 8
  <2>1. "error" \in levels
    BY <1>1 DEF ClassOf
  <2> QED
    BY <1>1, <2>1 DEF InRanges
<1>2. CASE 4 <= n /\ n <= 7
  <2>1. "warn" \in levels
    BY <1>2 DEF ClassOf
  <2> QED
    BY <1>2, <2>1 DEF InRanges
<1>3. CASE 0 <= n /\ n <= 3
  <2>1. "info" \in levels
    BY <1>3 DEF ClassOf
  <2> QED
    BY <1>3, <2>1 DEF InRanges
<1>4. CASE n < 0
  <2>1. "debug" \in levels
    BY <1>4 DEF ClassOf
  <2>2. ~({"error", "warn", "info"} \subseteq levels)
    BY <2>1, FourLevels DEF Levels
  <2> QED
    BY <1>4, <2>1, <2>2 DEF InRanges
<1> QED
  BY <1>1, <1>2, <1>3, <1>4

\* The clauses of levels and the expression let through what is wanted.
LEMMA WantedFits ==
    ASSUME QueryTypes, NEW k \in Keys, Wanted(k)
    PROVE  EntryFits(k)
<1>1. LevelOf[k] \in Int
  BY QueryAssumption
<1>2. HasClause => ClassOf(LevelOf[k]) \in req.levels
  BY DEF Wanted, HasClause
<1>3. LevelFits(k)
  <2>1. req.levels \in SUBSET Levels
    BY QueryAssumption DEF QueryTypes
  <2> QED
    BY <1>1, <1>2, <2>1, ClassInRanges DEF LevelFits, HasClause
<1> QED
  BY <1>3 DEF Wanted, EntryFits

LEMMA CursorType ==
    ASSUME QueryTypes
    PROVE  /\ req.from \in Nat
           /\ Cursor \in Nat
           /\ got = <<>> => Cursor = req.from
           /\ got # <<>> => Cursor \in ToSet(got) /\ Cursor = Last(got)
<1>1. req.from \in Nat
  BY QueryAssumption DEF QueryTypes
<1>2. ToSet(got) \subseteq Keys /\ (got # <<>> => Last(got) \in ToSet(got))
  BY Elements DEF QueryTypes
<1> QED
  BY <1>1, <1>2, Numbers DEF Cursor

----------------------------------------------------------------------------
(* The beginning, and the server.                                          *)

LEMMA QueryInit == Init => QueryInv
<1> SUFFICES ASSUME Init PROVE QueryInv
  OBVIOUS
<1>1. PICK keys \in Stored : store = [d \in Dbs |-> {k \in keys : InTime(k, d)}]
  BY DEF Init
<1>2. keys \in SUBSET Keys
  BY QueryAssumption
<1>3. store \in [Dbs -> SUBSET Keys]
  BY <1>1, <1>2
<1>4. ASSUME NEW d \in Dbs
      PROVE  /\ LastEpoch(store[d]) \in Nat
             /\ \A k \in store[d] : LastEpoch(store[d]) >= Epoch(k)
  <2>1. store[d] \in SUBSET Keys /\ IsFiniteSet(store[d])
    BY <1>3, Numbers, FS_Subset
  <2>2. CASE store[d] = {}
    BY <2>2 DEF LastEpoch
  <2>3. CASE store[d] # {}
    <3>1. Max(store[d]) \in store[d] /\ \A k \in store[d] : k <= Max(store[d])
      BY <2>1, <2>3, GreatestOf, Numbers
    <3> QED
      BY <2>1, <2>3, <3>1, Numbers DEF LastEpoch
  <2> QED
    BY <2>2, <2>3
<1>5. ends \in [Dbs -> Nat] /\ known \in BOOLEAN
  BY <1>4 DEF Init
<1>6. req \in [before : BOOLEAN, page : PageSizes, levels : LevelSets,
                expr : Exprs, from : Froms, keys : SUBSET Keys]
      /\ req.keys = UNION {store[d] : d \in Dbs}
  <2>1. UNION {store[d] : d \in Dbs} \in SUBSET Keys
    BY <1>3
  <2> QED
    BY <2>1 DEF Init
<1>7. QueryTypes
  <2>1. asked \in Nat
    BY <1>6, QueryAssumption DEF Init
  <2> QED
    BY <1>3, <1>5, <1>6, <2>1 DEF Init, QueryTypes
<1>8. InPlace
  BY <1>1, <1>3, <1>6 DEF InPlace
<1>9. EndsCoverKeys /\ KnownIsKnown
  BY <1>4 DEF EndsCoverKeys, KnownIsKnown, Init
<1>10. GotAll
  <2>1. got = <<>> /\ Cursor = req.from
    BY DEF Init, Cursor
  <2>2. ToSet(got) = {}
    BY <2>1, <1>7, Elements DEF QueryTypes
  <2>3. Sorted(got)
    BY <2>1 DEF Sorted
  <2> QED
    BY <2>1, <2>2, <2>3 DEF GotAll
<1>11. Visiting /\ Waiting /\ AtEnd
  BY DEF Init, Visiting, Waiting, AtEnd
<1> QED
  BY <1>7, <1>8, <1>9, <1>10, <1>11 DEF QueryInv

Serving == \/ \E k \in Keys : Flush(k)
           \/ \E d \in Dbs \ {Live} : Open(d) \/ Close(d)

\* No step changes what was asked for, and entries stay.
LEMMA StepKeeps ==
    ASSUME QueryTypes, [Next]_vars
    PROVE  /\ req' = req /\ known' = known
           /\ store' \in [Dbs -> SUBSET Keys] /\ ends' \in [Dbs -> Nat]
           /\ \A d \in Dbs : store[d] \subseteq store'[d]
           /\ Serving \/ UNCHANGED <<store, ends>>
<1>1. req' = req /\ known' = known
  BY DEF Next, Ask, VisitOpen, VisitClosed, VisitEnd, Return, Answer, Flush, Open,
         Close, vars
<1>2. CASE UNCHANGED <<store, ends>>
  BY <1>1, <1>2 DEF QueryTypes
<1>3. CASE \E k \in Keys : Flush(k)
  <2>1. PICK k \in Keys : Flush(k)
    BY <1>3
  <2>2. store' = [store EXCEPT ![Live] = @ \cup {k}]
    BY <2>1 DEF Flush
  <2>3. Max({ends[Live], Epoch(k)}) \in Nat
    <3>1. ends[Live] \in Nat /\ Epoch(k) \in Nat
      BY Numbers DEF QueryTypes
    <3> QED
      BY ONLY <3>1, Extremes
  <2>4. ends' \in [Dbs -> Nat]
    BY <2>1, <2>3 DEF Flush, QueryTypes
  <2>5. /\ store' \in [Dbs -> SUBSET Keys]
        /\ \A d \in Dbs : store[d] \subseteq store'[d]
    BY <2>2, Numbers DEF QueryTypes
  <2>6. Serving
    BY <1>3 DEF Serving
  <2> QED
    BY <1>1, <2>4, <2>5, <2>6
<1>4. CASE ~\E k \in Keys : Flush(k)
  <2>1. UNCHANGED <<store, ends>>
    BY <1>4 DEF Next, Ask, VisitOpen, VisitClosed, VisitEnd, Return, Answer, Open,
                Close, vars, serverVars
  <2> QED
    BY <1>2, <2>1
<1> QED
  BY <1>3, <1>4

LEMMA NextServer ==
    ASSUME QueryTypes, InPlace, EndsCoverKeys, KnownIsKnown, [Next]_vars
    PROVE  InPlace' /\ EndsCoverKeys' /\ KnownIsKnown'
<1>1. CASE UNCHANGED <<store, ends>>
  BY <1>1, StepKeeps DEF InPlace, EndsCoverKeys, KnownIsKnown
<1>2. ASSUME NEW f \in Keys, Flush(f)
      PROVE  InPlace' /\ EndsCoverKeys' /\ KnownIsKnown'
  <2>1. /\ req' = req /\ known' = known
        /\ \A d \in Dbs : store'[d] = IF d = Live THEN store[d] \cup {f} ELSE store[d]
        /\ \A d \in Dbs : ends'[d] = IF d = Live THEN Max({ends[d], Epoch(f)})
                                   ELSE ends[d]
    BY <1>2, StepKeeps, Numbers DEF Flush, QueryTypes
  <2>2. Live \in Dbs /\ ends[Live] \in Nat /\ Epoch(f) \in Nat
    BY Numbers DEF QueryTypes
  <2>3. ends'[Live] \in Nat /\ ends'[Live] >= ends[Live] /\ ends'[Live] >= Epoch(f)
    <3>1. ends'[Live] = Max({ends[Live], Epoch(f)})
      BY <2>1, <2>2
    <3>2. Max({ends[Live], Epoch(f)}) = IF ends[Live] >= Epoch(f) THEN ends[Live]
                                       ELSE Epoch(f)
      BY <2>2, Extremes
    <3> QED
      BY ONLY <2>2, <3>1, <3>2
  <2>4. InTime(f, Live)
    BY <1>2, <2>2, Numbers DEF Flush, InTime
  <2>5. InPlace'
    BY <2>1, <2>4 DEF InPlace
  <2>6. f \notin req.keys
    <3>1. ASSUME f \in req.keys PROVE FALSE
      <4>1. PICK d \in Dbs : f \in store[d]
        BY <3>1 DEF InPlace
      <4>2. d # Live /\ InTime(f, d)
        BY <1>2, <4>1 DEF Flush, InPlace
      <4>3. d < Live
        BY <4>2, Numbers
      <4> QED
        BY <2>2, <2>4, <4>2, <4>3, PlacesInOrder, Numbers
    <3> QED
      BY <3>1
  <2>7. ASSUME NEW d \in Dbs, NEW k \in store'[d]
        PROVE  \/ ends'[d] = 0
               \/ ends'[d] >= Epoch(k)
               \/ /\ d = Live /\ ~known
                  /\ \E l \in store'[Live] \ req.keys : Epoch(l) < Epoch(k)
    <3>1. CASE d # Live
      BY <2>1, <2>7, <3>1 DEF EndsCoverKeys
    <3>2. CASE d = Live /\ k = f
      BY <2>3, <3>2
    <3>3. CASE d = Live /\ k # f
      <4>1. k \in store[Live] /\ k \in Keys /\ Epoch(k) \in Nat
        BY <2>1, <2>7, <3>3, Numbers DEF QueryTypes
      <4>2. CASE ends[Live] >= Epoch(k)
        BY <2>2, <2>3, <3>3, <4>1, <4>2
      <4>3. CASE \E l \in store[Live] \ req.keys : Epoch(l) < Epoch(k) /\ ~known
        BY <2>1, <2>2, <3>3, <4>3
      <4>4. CASE ends[Live] = 0 /\ Epoch(k) > Epoch(f) /\ ~known
        <5>1. f \in store'[Live] \ req.keys
          BY <2>1, <2>2, <2>6
        <5> QED
          BY <2>2, <3>3, <4>1, <4>4, <5>1
      <4>5. CASE ends[Live] = 0 /\ Epoch(k) <= Epoch(f)
        BY <2>2, <2>3, <3>3, <4>1, <4>5
      <4>6. CASE known
        BY <2>2, <4>1, <4>2, <4>6 DEF KnownIsKnown
      <4> QED
        BY <2>2, <4>1, <4>2, <4>3, <4>4, <4>5, <4>6 DEF EndsCoverKeys
    <3> QED
      BY <3>1, <3>2, <3>3
  <2>8. EndsCoverKeys'
    BY <2>1, <2>7 DEF EndsCoverKeys
  <2>9. ASSUME known, NEW d \in Dbs, NEW k \in store'[d] PROVE ends'[d] >= Epoch(k)
    <3>1. CASE d # Live
      BY <2>1, <2>9, <3>1 DEF KnownIsKnown
    <3>2. CASE d = Live
      <4>1. k = f \/ k \in store[Live]
        BY <2>1, <2>9, <3>2
      <4>2. k \in store[Live] => ends[Live] >= Epoch(k) /\ Epoch(k) \in Nat
        BY <2>2, <2>9, Numbers DEF KnownIsKnown, QueryTypes
      <4> QED
        BY <2>2, <2>3, <3>2, <4>1, <4>2
    <3> QED
      BY <3>1, <3>2
  <2>10. KnownIsKnown'
    BY <2>1, <2>9 DEF KnownIsKnown
  <2> QED
    BY <2>5, <2>8, <2>10
<1>3. ASSUME NEW d \in Dbs, Open(d) \/ Close(d) PROVE UNCHANGED <<store, ends>>
  BY <1>3 DEF Open, Close
<1> QED
  BY <1>1, <1>2, <1>3, StepKeeps DEF Serving

\* What is due stays due or is hidden.
LEMMA DueStays ==
    ASSUME QueryTypes, [Next]_vars
    PROVE  /\ \A k : Due(k)' => Due(k)
           /\ UNCHANGED store => \A k : Due(k)' <=> Due(k)
           /\ \A a, b : Ahead(a, b)' <=> Ahead(a, b)
<1>1. req' = req /\ known' = known /\ store[Live] \subseteq store'[Live]
  BY StepKeeps, Numbers
<1>2. \A k : Wanted(k)' <=> Wanted(k)
  BY <1>1 DEF Wanted, ExprFits
<1>3. \A k : Hidden(k) => Hidden(k)'
  BY <1>1 DEF Hidden
<1>4. UNCHANGED store => \A k : Hidden(k) <=> Hidden(k)'
  BY <1>1 DEF Hidden
<1> QED
  BY <1>1, <1>2, <1>3, <1>4 DEF Due, Ahead

\* The server does not disturb the reader.
LEMMA ServerSteps ==
    ASSUME QueryInv, [Next]_vars, Serving \/ UNCHANGED vars
    PROVE  /\ UNCHANGED readerVars
           /\ GotAll' /\ Visiting' /\ Waiting' /\ AtEnd'
<1>1. UNCHANGED readerVars
  BY DEF Serving, Flush, Open, Close, vars
<1>2. /\ got' = got /\ pc' = pc /\ asked' = asked /\ dbs' = dbs /\ list' = list
      /\ task' = task /\ req' = req
      /\ \A d \in Dbs : store[d] \subseteq store'[d]
      /\ \A k : Due(k)' => Due(k)
      /\ \A a, b : Ahead(a, b)' <=> Ahead(a, b)
  BY <1>1, StepKeeps, DueStays DEF readerVars, QueryInv
<1>3. Cursor' = Cursor
  BY <1>2 DEF Cursor
<1>4. GotAll'
  BY <1>2, <1>3 DEF QueryInv, GotAll, Sorted
<1>5. Visiting'
  <2>1. SUFFICES ASSUME pc' = "visit" PROVE Visiting'
    BY DEF Visiting
  <2>2. ToSet(dbs) \subseteq Dbs
    BY Elements DEF QueryInv, QueryTypes
  <2>3. Sorted(list)' /\ Sorted(dbs)'
    BY <1>2, <2>1 DEF QueryInv, Visiting, Sorted
  <2> QED
    BY <1>2, <1>3, <2>1, <2>2, <2>3 DEF QueryInv, Visiting
<1>6. Waiting'
  <2>1. SUFFICES ASSUME pc' = "wait" PROVE Waiting'
    BY DEF Waiting
  <2>2. task \in Dbs
    BY <1>2, <2>1 DEF QueryInv, Waiting
  <2>3. \/ Cursor = asked
        \/ /\ Ahead(asked, Cursor)
           /\ \E d \in Dbs : Cursor \in store'[d] /\ Ahead(d, task)
    BY <1>2, <2>1 DEF QueryInv, Waiting
  <2>4. ASSUME NEW k \in req.keys, NEW d \in Dbs, Due(k), Ahead(asked, k),
               k \in store'[d], Ahead(d, task)
        PROVE  k \in ToSet(got)
    <3>1. PICK e \in Dbs : k \in store[e] /\ InTime(k, e) /\ k \in Keys
      BY DEF QueryInv, InPlace, QueryTypes
    <3>2. InTime(k, d)
      BY NextServer, <2>4 DEF QueryInv, InPlace
    <3>3. e = d
      <4>1. ~(e < d) /\ ~(d < e) /\ e \in Nat /\ d \in Nat
        BY <3>1, <3>2, PlacesInOrder, Numbers
      <4> QED
        BY <4>1
    <3> QED
      BY <1>2, <2>1, <2>4, <3>1, <3>3 DEF QueryInv, Waiting
  <2> QED
    BY <1>2, <1>3, <2>2, <2>3, <2>4 DEF Waiting
<1>7. AtEnd'
  BY <1>2, <1>3 DEF QueryInv, AtEnd
<1> QED
  BY <1>1, <1>4, <1>5, <1>6, <1>7

----------------------------------------------------------------------------
(* The reader.                                                             *)

\* In a step of the reader the server, and what is due, is as it was.
Reading == [Next]_vars /\ UNCHANGED <<store, ends, req, known>>

LEMMA ReadingKeeps ==
    ASSUME QueryTypes, Reading
    PROVE  /\ req' = req /\ store' = store /\ ends' = ends
           /\ \A k : Due(k)' <=> Due(k)
           /\ \A a, b : Ahead(a, b)' <=> Ahead(a, b)
  BY DueStays DEF Reading

\* Got grows by a page that is beyond the cursor and leaves nothing out.
LEMMA GotGrows ==
    ASSUME QueryInv, Reading,
           NEW p \in Seq(Keys), Sorted(p), got' = got \o p,
           \A k \in ToSet(p) : Ahead(Cursor, k),
           p # <<>> => \A k \in req.keys :
              Due(k) /\ Ahead(Cursor, k) /\ ~Ahead(Last(p), k)
                 => k \in ToSet(p) \cup ToSet(got)
    PROVE  /\ got' \in Seq(Keys)
           /\ Cursor' = IF p = <<>> THEN Cursor ELSE Last(p)
           /\ ToSet(got') = ToSet(got) \cup ToSet(p)
           /\ GotAll'
<1>1. got \in Seq(Keys) /\ Keys \in SUBSET Int /\ got \in Seq(Int)
  <2>1. got \in Seq(Keys)
    BY DEF QueryInv, QueryTypes
  <2>2. Keys \in SUBSET Int
    BY Numbers
  <2> QED
    BY <2>1, <2>2, SeqMonotonic
<1>2. /\ req' = req
      /\ \A k : Due(k)' <=> Due(k)
      /\ \A a, b : Ahead(a, b)' <=> Ahead(a, b)
  BY ReadingKeeps DEF QueryInv
<1>3. /\ ToSet(got) \subseteq Keys /\ ToSet(p) \subseteq Keys
      /\ req.keys \subseteq Keys /\ Keys \subseteq Int
      /\ req.from \in Int /\ Cursor \in Int
  <2>1. ToSet(got) \subseteq Keys /\ ToSet(p) \subseteq Keys
    BY <1>1, Elements
  <2>2. req.keys \subseteq Keys
    BY DEF QueryInv, QueryTypes
  <2>3. Cursor \in Nat /\ req.from \in Nat
    BY CursorType DEF QueryInv
  <2> QED
    BY <1>1, <2>1, <2>2, <2>3
<1>4. ASSUME NEW k \in ToSet(got) PROVE k = Cursor \/ Ahead(k, Cursor)
  <2>1. got # <<>>
    BY <1>1, Elements
  <2> QED
    BY <1>1, <2>1, LastIsLast, CursorType DEF QueryInv, GotAll
<1>5. Cursor = req.from \/ Ahead(req.from, Cursor)
  <2>1. got # <<>> => Cursor \in ToSet(got)
    BY CursorType DEF QueryInv
  <2> QED
    BY <2>1, CursorType DEF QueryInv, GotAll
<1>6. \A a \in ToSet(got), b \in ToSet(p) : Ahead(a, b)
  BY <1>3, <1>4, AheadIsAnOrder
<1>7. got' \in Seq(Keys) /\ ToSet(got') = ToSet(got) \cup ToSet(p) /\ Sorted(got \o p)
  BY <1>1, <1>6, Joined DEF QueryInv, GotAll
<1>8. Cursor' = IF p = <<>> THEN Cursor ELSE Last(p)
  <2>1. CASE p = <<>>
    <3>1. got' = got
      BY <1>1, <2>1, Joined
    <3> QED
      BY <1>2, <2>1, <3>1 DEF Cursor
  <2>2. CASE p # <<>>
    <3>1. got' # <<>> /\ Last(got') = Last(p)
      BY <1>1, <2>2, Joined
    <3> QED
      BY <2>2, <3>1 DEF Cursor
  <2> QED
    BY <2>1, <2>2
<1>9. Sorted(got)'
  BY <1>2, <1>7 DEF Sorted
<1>10. \A k \in ToSet(got') : Ahead(req.from, k)
  <2>1. ASSUME NEW k \in ToSet(p) PROVE Ahead(req.from, k)
    BY <1>3, <1>5, AheadIsAnOrder
  <2> QED
    BY <1>7, <2>1 DEF QueryInv, GotAll
<1>11. ASSUME NEW k \in req.keys, Due(k), Ahead(req.from, k), ~Ahead(Cursor', k)
       PROVE  k \in ToSet(got')
  <2>1. CASE ~Ahead(Cursor, k)
    BY <1>7, <1>11, <2>1 DEF QueryInv, GotAll
  <2>2. CASE Ahead(Cursor, k)
    BY <1>7, <1>8, <1>11, <2>2
  <2> QED
    BY <2>1, <2>2
<1>12. GotAll'
  BY <1>2, <1>9, <1>10, <1>11 DEF GotAll
<1> QED
  BY <1>7, <1>8, <1>12

\* Of what is due, what is beyond the cursor is in a database that is selected.
LEMMA SelectedHasDue ==
    ASSUME QueryInv, NEW k \in req.keys, Due(k), Ahead(Cursor, k)
    PROVE  \E d \in Dbs : Selected(d) /\ k \in store[d]
<1>1. PICK d \in Dbs : k \in store[d]
  BY DEF QueryInv, InPlace
<1>2. InTime(k, d) /\ k \in Keys
  BY <1>1 DEF QueryInv, InPlace, QueryTypes
<1>3. Cursor \in Nat /\ k \in Nat /\ Epoch(k) \in Nat /\ Epoch(Cursor) \in Nat
      /\ ends[d] \in Nat /\ Starts[d] \in Nat
  <2>1. Cursor \in Nat
    BY CursorType DEF QueryInv
  <2>2. Epoch(Cursor) \in Nat
    BY <2>1 DEF Epoch
  <2> QED
    BY <1>2, <2>1, <2>2, Numbers DEF QueryInv, QueryTypes
<1>4. CASE req.before
  <2>1. k < Cursor
    BY <1>4 DEF Ahead
  <2>2. Epoch(k) <= Epoch(Cursor)
    BY <1>3, <2>1 DEF Epoch
  <2> QED
    BY <1>1, <1>2, <1>3, <1>4, <2>2 DEF Selected, InTime
<1>5. CASE ~req.before
  <2>1. Cursor < k
    BY <1>5 DEF Ahead
  <2>2. Epoch(Cursor) <= Epoch(k)
    BY <1>3, <2>1 DEF Epoch
  <2>3. ~(d = Live /\ ~known /\ \E l \in store[Live] \ req.keys : Epoch(l) < Epoch(k))
    BY <1>1, <1>5 DEF Due, Hidden
  <2>4. ends[d] = 0 \/ ends[d] >= Epoch(k)
    BY <1>1, <2>3 DEF QueryInv, EndsCoverKeys
  <2> QED
    BY <1>1, <1>3, <1>5, <2>2, <2>4 DEF Selected
<1> QED
  BY <1>4, <1>5

LEMMA AskStep ==
    ASSUME QueryInv, Reading, Ask
    PROVE  QueryTypes' /\ GotAll' /\ Visiting' /\ Waiting' /\ AtEnd'
<1>1. /\ req' = req /\ store' = store
      /\ \A k : Due(k)' <=> Due(k)
      /\ \A a, b : Ahead(a, b)' <=> Ahead(a, b)
  BY ReadingKeeps DEF QueryInv
<1>2. /\ got' = got /\ Cursor' = Cursor /\ asked' = Cursor /\ pc' = "visit"
      /\ list' = <<>>
  BY <1>1 DEF Ask, Cursor
<1> DEFINE D == {d \in Dbs : Selected(d)}
<1>3. D \in SUBSET Int /\ D \in SUBSET Dbs /\ IsFiniteSet(D)
  <2>1. D \in SUBSET Dbs /\ Dbs \in SUBSET Int /\ IsFiniteSet(Dbs)
    BY Numbers, FS_Interval
  <2> HIDE DEF D
  <2> QED
    BY <2>1, FS_Subset
<1>4. dbs' = InTurn(D)
  BY DEF Ask
<1> HIDE DEF D
<1>5. PICK n \in Nat :
         /\ InTurn(D) \in [1..n -> D]
         /\ \A a \in D : \E i \in 1..n : InTurn(D)[i] = a
         /\ \A i, j \in 1..n : i < j => Ahead(InTurn(D)[i], InTurn(D)[j])
  BY <1>3, InTurnSorts
<1>6. /\ dbs' \in Seq(Dbs) /\ ToSet(dbs') = D
      /\ \A i, j \in DOMAIN dbs' : i < j => Ahead(dbs'[i], dbs'[j])
  <2>1. dbs' \in [1..n -> Dbs] /\ DOMAIN dbs' = 1..n
    BY <1>3, <1>4, <1>5
  <2>2. ToSet(dbs') = D
    BY <1>4, <1>5, <2>1 DEF ToSet
  <2> QED
    BY <1>4, <1>5, <2>1, <2>2
<1>7. ToSet(<<>>) = {} /\ <<>> \in Seq(Keys) /\ Len(<<>>) = 0 /\ DOMAIN <<>> = {}
  <2>1. <<>> \in Seq(Keys)
    BY EmptySeq
  <2>2. ToSet(<<>>) = {}
    BY <2>1, Elements
  <2>3. Len(<<>>) = 0
    BY EmptySeq
  <2>4. DOMAIN <<>> = {}
    OBVIOUS
  <2> QED
    BY <2>1, <2>2, <2>3, <2>4
<1>8. QueryTypes'
  BY <1>1, <1>2, <1>6, <1>7, CursorType DEF QueryInv, QueryTypes, Reading, Ask
<1>9. GotAll'
  BY <1>1, <1>2 DEF QueryInv, GotAll, Sorted
<1>10. Visiting'
  <2>1. Sorted(list)' /\ Sorted(dbs)'
    BY <1>1, <1>2, <1>6, <1>7 DEF Sorted
  <2>2. Len(list') < req.page
    BY <1>2, <1>7, LimitFits DEF QueryInv
  <2>3. ASSUME NEW k \in req.keys, Due(k), Ahead(Cursor, k)
        PROVE  \E e \in ToSet(dbs') : k \in store[e]
    BY <1>6, <2>3, SelectedHasDue DEF D
  <2> QED
    BY <1>1, <1>2, <1>7, <2>1, <2>2, <2>3 DEF Visiting
<1>11. Waiting' /\ AtEnd'
  BY <1>2 DEF Waiting, AtEnd
<1> QED
  BY <1>8, <1>9, <1>10, <1>11

\* What is known in a visit: the page so far, the database, and its part.
LEMMA InVisit ==
    ASSUME QueryInv, pc = "visit", dbs # <<>>
    PROVE  /\ Head(dbs) \in Dbs /\ Head(dbs) \in ToSet(dbs)
           /\ Tail(dbs) \in Seq(Dbs)
           /\ ToSet(Tail(dbs)) \subseteq ToSet(dbs)
           /\ \A e \in ToSet(dbs) : e = Head(dbs) \/ (e \in ToSet(Tail(dbs)) /\ Ahead(Head(dbs), e))
           /\ \A e \in ToSet(Tail(dbs)) : Ahead(Head(dbs), e)
           /\ Sorted(Tail(dbs))
<1>1. dbs \in Seq(Dbs) /\ Sorted(dbs)
  BY DEF QueryInv, QueryTypes, Visiting
<1>2. PICK n \in Nat : n = Len(dbs) /\ DOMAIN dbs = 1..n /\ n >= 1
  BY <1>1, LenProperties, EmptySeq
<1>3. /\ Head(dbs) = dbs[1] /\ Head(dbs) \in Dbs
      /\ Tail(dbs) \in Seq(Dbs) /\ Len(Tail(dbs)) = n - 1
      /\ \A i \in 1..(n - 1) : Tail(dbs)[i] = dbs[i + 1]
  BY <1>1, <1>2, HeadTailProperties
<1>4. DOMAIN Tail(dbs) = 1..(n - 1)
  BY <1>3, LenProperties
<1>5. Head(dbs) \in ToSet(dbs)
  BY <1>2, <1>3 DEF ToSet
<1>6. ASSUME NEW i \in 1..(n - 1)
      PROVE  Tail(dbs)[i] \in ToSet(dbs) /\ Ahead(Head(dbs), Tail(dbs)[i])
  <2>1. i + 1 \in 1..n /\ 1 \in 1..n /\ 1 < i + 1
    BY <1>2
  <2> QED
    BY <1>1, <1>2, <1>3, <2>1 DEF Sorted, ToSet
<1>7. ToSet(Tail(dbs)) \subseteq ToSet(dbs) /\ \A e \in ToSet(Tail(dbs)) : Ahead(Head(dbs), e)
  BY <1>4, <1>6 DEF ToSet
<1>8. ASSUME NEW e \in ToSet(dbs), e # Head(dbs) PROVE e \in ToSet(Tail(dbs))
  <2>1. PICK j \in 1..n : e = dbs[j]
    BY <1>2 DEF ToSet
  <2>2. j - 1 \in 1..(n - 1) /\ (j - 1) + 1 = j
    BY <1>2, <1>3, <1>8, <2>1
  <2>3. e = Tail(dbs)[j - 1]
    BY <1>3, <2>1, <2>2
  <2> QED
    BY <1>4, <2>2, <2>3 DEF ToSet
<1>9. Sorted(Tail(dbs))
  <2>1. ASSUME NEW i \in 1..(n - 1), NEW j \in 1..(n - 1), i < j
        PROVE  Ahead(Tail(dbs)[i], Tail(dbs)[j])
    <3>1. i + 1 \in 1..n /\ j + 1 \in 1..n /\ i + 1 < j + 1
      BY <1>2, <2>1
    <3> QED
      BY <1>1, <1>2, <1>3, <3>1 DEF Sorted
  <2> QED
    BY <1>4, <2>1 DEF Sorted
<1> QED
  BY <1>3, <1>5, <1>7, <1>8, <1>9

\* The page when the first of the databases has put its part to it.
LEMMA PageGrows ==
    ASSUME QueryInv, pc = "visit", dbs # <<>>
    PROVE  LET d == Head(dbs)
               page == list \o Page(d)
           IN  /\ page \in Seq(Keys)
               /\ Len(page) = Len(list) + Len(Page(d))
               /\ Sorted(page)
               /\ ToSet(page) = ToSet(list) \cup ToSet(Page(d))
               /\ \A k \in ToSet(page) : Ahead(Cursor, k)
               /\ \A k \in ToSet(page), e \in ToSet(Tail(dbs)) :
                     \E c \in Dbs : k \in store[c] /\ Ahead(c, e)
               /\ \A k \in req.keys :
                     Due(k) /\ Ahead(Cursor, k) =>
                        \/ k \in ToSet(page)
                        \/ Len(Page(d)) = Limit /\ \A a \in ToSet(Page(d)) : Ahead(a, k)
                        \/ \E e \in ToSet(Tail(dbs)) : k \in store[e] /\ Ahead(d, e)
<1> DEFINE d == Head(dbs)
           p == Page(d)
           page == list \o p
<1>1. /\ d \in Dbs /\ d \in ToSet(dbs)
      /\ ToSet(Tail(dbs)) \subseteq ToSet(dbs)
      /\ \A e \in ToSet(dbs) : e = d \/ (e \in ToSet(Tail(dbs)) /\ Ahead(d, e))
      /\ \A e \in ToSet(Tail(dbs)) : Ahead(d, e)
  BY InVisit
<1> HIDE DEF d
<1>2. /\ p \in Seq(Keys) /\ Sorted(p)
      /\ ToSet(p) \subseteq Matches(d)
      /\ \A k \in Matches(d) :
            \/ k \in ToSet(p)
            \/ Len(p) = Limit /\ \A a \in ToSet(p) : Ahead(a, k)
  BY <1>1, PageHolds DEF QueryInv
<1> HIDE DEF p
<1>3. /\ list \in Seq(Keys) /\ Sorted(list) /\ asked = Cursor
      /\ \A k \in ToSet(list) : Ahead(asked, k)
      /\ \A k \in ToSet(list), e \in ToSet(dbs) : \E c \in Dbs : k \in store[c] /\ Ahead(c, e)
      /\ \A k \in req.keys :
            Due(k) /\ Ahead(asked, k) =>
               k \in ToSet(list) \/ \E e \in ToSet(dbs) : k \in store[e]
  BY DEF QueryInv, QueryTypes, Visiting
<1>4. Keys \in SUBSET Int /\ ToSet(list) \subseteq Keys /\ ToSet(p) \subseteq Keys
  <2>1. Keys \in SUBSET Int
    BY Numbers
  <2> QED
    BY <1>2, <1>3, <2>1, Elements
<1>5. \A k \in ToSet(p) : k \in store[d] /\ Ahead(asked, k)
  BY <1>2 DEF Matches, Beyond, Ahead
<1>6. ASSUME NEW a \in ToSet(list), NEW b \in ToSet(p) PROVE Ahead(a, b)
  <2>1. PICK c \in Dbs : a \in store[c] /\ Ahead(c, d)
    BY <1>1, <1>3
  <2>2. InTime(a, c) /\ InTime(b, d)
    BY <1>1, <1>5, <2>1 DEF QueryInv, InPlace
  <2> QED
    BY <1>1, <1>4, <2>1, <2>2, PlacesInOrder
<1>7. /\ page \in Seq(Keys) /\ Len(page) = Len(list) + Len(p)
      /\ ToSet(page) = ToSet(list) \cup ToSet(p) /\ Sorted(page)
  BY <1>2, <1>3, <1>4, <1>6, Joined
<1> HIDE DEF page
<1>8. \A k \in ToSet(page) : Ahead(Cursor, k)
  BY <1>3, <1>5, <1>7
<1>9. ASSUME NEW k \in ToSet(page), NEW e \in ToSet(Tail(dbs))
      PROVE  \E c \in Dbs : k \in store[c] /\ Ahead(c, e)
  BY <1>1, <1>3, <1>5, <1>7
<1>10. ASSUME NEW k \in req.keys, Due(k), Ahead(Cursor, k)
       PROVE  \/ k \in ToSet(page)
              \/ Len(p) = Limit /\ \A a \in ToSet(p) : Ahead(a, k)
              \/ \E e \in ToSet(Tail(dbs)) : k \in store[e] /\ Ahead(d, e)
  <2>1. CASE k \in ToSet(list)
    BY <1>7, <2>1
  <2>2. ASSUME NEW e \in ToSet(dbs), k \in store[e], e # d
        PROVE  \E c \in ToSet(Tail(dbs)) : k \in store[c] /\ Ahead(d, c)
    BY <1>1, <2>2
  <2>3. CASE k \in store[d]
    <3>1. EntryFits(k)
      BY <1>10, WantedFits DEF Due, QueryInv, QueryTypes
    <3>2. k \in Matches(d)
      BY <1>3, <1>10, <2>3, <3>1 DEF Matches, Beyond, Ahead
    <3> QED
      BY <1>2, <1>7, <3>2
  <2> QED
    BY <1>3, <1>10, <2>1, <2>2, <2>3
<1> QED
  BY <1>7, <1>8, <1>9, <1>10 DEF page, p, d

\* The keys of the databases ahead are ahead.
LEMMA AheadOfDatabase ==
    ASSUME QueryInv, NEW d \in Dbs, NEW e \in Dbs, Ahead(d, e),
           NEW j \in store[d], NEW k \in store[e]
    PROVE  Ahead(j, k) /\ ~Ahead(k, j)
<1>1. j \in Keys /\ k \in Keys /\ InTime(j, d) /\ InTime(k, e)
  BY DEF QueryInv, QueryTypes, InPlace
<1>2. Ahead(j, k)
  BY <1>1, PlacesInOrder
<1>3. j \in Int /\ k \in Int
  BY <1>1, Numbers
<1> QED
  BY <1>2, <1>3, AheadIsAnOrder

LEMMA VisitOpenStep ==
    ASSUME QueryInv, Reading, VisitOpen
    PROVE  QueryTypes' /\ GotAll' /\ Visiting' /\ Waiting' /\ AtEnd'
<1> DEFINE d == Head(dbs)
           p == Page(d)
           page == list \o p
<1>1. /\ req' = req /\ store' = store /\ ends' = ends
      /\ \A k : Due(k)' <=> Due(k)
      /\ \A a, b : Ahead(a, b)' <=> Ahead(a, b)
  BY ReadingKeeps DEF QueryInv
<1>2. pc = "visit" /\ dbs # <<>> /\ asked = Cursor /\ asked' = asked
  BY DEF VisitOpen, Return, QueryInv, Visiting
<1>3. /\ d \in Dbs /\ Tail(dbs) \in Seq(Dbs) /\ Sorted(Tail(dbs))
      /\ ToSet(Tail(dbs)) \subseteq Dbs
  BY <1>2, InVisit, Elements DEF QueryInv, QueryTypes
<1>4. p \in Seq(Keys) /\ Sorted(p) /\ ToSet(p) \subseteq store[d]
  BY <1>3, PageHolds DEF QueryInv, Matches
<1>5. /\ page \in Seq(Keys) /\ Len(page) = Len(list) + Len(p)
      /\ Sorted(page)
      /\ \A k \in ToSet(page) : Ahead(Cursor, k)
      /\ \A k \in ToSet(page), e \in ToSet(Tail(dbs)) :
            \E c \in Dbs : k \in store[c] /\ Ahead(c, e)
      /\ \A k \in req.keys :
            Due(k) /\ Ahead(Cursor, k) =>
               \/ k \in ToSet(page)
               \/ Len(p) = Limit /\ \A a \in ToSet(p) : Ahead(a, k)
               \/ \E e \in ToSet(Tail(dbs)) : k \in store[e] /\ Ahead(d, e)
  BY <1>2, PageGrows
<1>6. /\ Len(list) \in Nat /\ Len(p) \in Nat /\ Len(list) < req.page
      /\ req.page \in Nat /\ Limit \in Nat /\ req.page <= Limit /\ req.page >= 1
  <2>1. list \in Seq(Keys) /\ Len(list) < req.page
    BY <1>2 DEF QueryInv, QueryTypes, Visiting
  <2> QED
    BY <1>4, <2>1, LimitFits, LenProperties DEF QueryInv
<1>7. /\ Len(page) >= req.page => Return(page, 0)
      /\ ~(Len(page) >= req.page) =>
            /\ list' = page /\ dbs' = Tail(dbs)
            /\ UNCHANGED <<serverVars, known, req, got, pc, asked, task>>
  BY DEF VisitOpen
<1> HIDE DEF p, page, d
<1>8. CASE Len(page) >= req.page
  <2>1. /\ got' = got \o page /\ dbs' = <<>> /\ list' = <<>>
        /\ pc' = IF page = <<>> THEN "end" ELSE "idle"
    BY <1>7, <1>8 DEF Return
  <2>2. page # <<>> /\ p # <<>>
    BY <1>5, <1>6, <1>8, EmptySeq
  <2>3. Last(p) \in ToSet(p) /\ Last(page) = Last(p)
    <3>1. Keys \in SUBSET Int /\ list \in Seq(Keys)
      BY Numbers DEF QueryInv, QueryTypes
    <3> QED
      BY <1>4, <2>2, <3>1, Elements, Joined DEF page
  <2>4. ASSUME NEW k \in req.keys, Due(k), Ahead(Cursor, k), ~Ahead(Last(page), k)
        PROVE  k \in ToSet(page)
    <3>1. ASSUME NEW e \in ToSet(Tail(dbs)), k \in store[e], Ahead(d, e) PROVE FALSE
      <4>1. Ahead(Last(p), k)
        BY <1>3, <1>4, <2>3, <3>1, AheadOfDatabase
      <4> QED
        BY <2>3, <2>4, <4>1
    <3> QED
      BY <1>5, <2>3, <2>4, <3>1
  <2>5. got' \in Seq(Keys) /\ GotAll'
    BY <1>5, <2>1, <2>4, GotGrows
  <2>6. QueryTypes'
    BY <1>1, <1>2, <2>1, <2>2, <2>5, EmptySeq DEF QueryInv, QueryTypes, Reading
  <2> QED
    BY <2>1, <2>2, <2>5, <2>6 DEF Visiting, Waiting, AtEnd
<1>9. CASE ~(Len(page) >= req.page)
  <2>1. /\ got' = got /\ dbs' = Tail(dbs) /\ list' = page /\ pc' = "visit"
        /\ Cursor' = Cursor
    BY <1>1, <1>2, <1>7, <1>9 DEF Cursor
  <2>2. Len(page) < req.page /\ Len(p) # Limit
    BY <1>5, <1>6, <1>9
  <2>3. QueryTypes'
    BY <1>1, <1>2, <1>3, <1>5, <2>1 DEF QueryInv, QueryTypes, Reading
  <2>4. GotAll'
    BY <1>1, <2>1 DEF QueryInv, GotAll, Sorted
  <2>5. Sorted(list)' /\ Sorted(dbs)'
    BY <1>1, <1>3, <1>5, <2>1 DEF Sorted
  <2>6. Visiting'
    BY <1>1, <1>2, <1>5, <2>1, <2>2, <2>5 DEF Visiting
  <2> QED
    BY <2>1, <2>3, <2>4, <2>6 DEF Waiting, AtEnd
<1> QED
  BY <1>8, <1>9

\* A page ends before a database that is closed.
LEMMA VisitClosedStep ==
    ASSUME QueryInv, Reading, VisitClosed
    PROVE  QueryTypes' /\ GotAll' /\ Visiting' /\ Waiting' /\ AtEnd'
<1> DEFINE d == Head(dbs)
<1>1. /\ req' = req /\ store' = store /\ ends' = ends
      /\ \A k : Due(k)' <=> Due(k)
      /\ \A a, b : Ahead(a, b)' <=> Ahead(a, b)
  BY ReadingKeeps DEF QueryInv
<1>2. pc = "visit" /\ dbs # <<>> /\ asked = Cursor /\ asked' = asked
  BY DEF VisitClosed, Return, QueryInv, Visiting
<1>3. /\ d \in Dbs /\ d \in ToSet(dbs) /\ ToSet(dbs) \subseteq Dbs
      /\ \A e \in ToSet(dbs) : e = d \/ Ahead(d, e)
  BY <1>2, InVisit, Elements DEF QueryInv, QueryTypes
<1>4. /\ got' = got \o list /\ task' = d /\ dbs' = <<>> /\ list' = <<>>
      /\ pc' = "wait"
  BY <1>3, Numbers DEF VisitClosed, Return
<1> HIDE DEF d
<1>5. /\ list \in Seq(Keys) /\ Sorted(list)
      /\ \A k \in ToSet(list) : Ahead(Cursor, k)
      /\ \A k \in ToSet(list), e \in ToSet(dbs) : \E c \in Dbs : k \in store[c] /\ Ahead(c, e)
      /\ \A k \in req.keys :
            Due(k) /\ Ahead(Cursor, k) =>
               k \in ToSet(list) \/ \E e \in ToSet(dbs) : k \in store[e]
      /\ list # <<>> => Last(list) \in ToSet(list)
  BY <1>2, Elements DEF QueryInv, QueryTypes, Visiting
<1>6. ASSUME list # <<>>, NEW k \in req.keys, Due(k), Ahead(Cursor, k), ~Ahead(Last(list), k)
      PROVE  k \in ToSet(list)
  <2>1. ASSUME NEW e \in ToSet(dbs), k \in store[e] PROVE FALSE
    <3>1. PICK c \in Dbs : Last(list) \in store[c] /\ Ahead(c, e)
      BY <1>5, <1>6, <2>1
    <3> QED
      BY <1>3, <1>6, <2>1, <3>1, AheadOfDatabase
  <2> QED
    BY <1>5, <1>6, <2>1
<1>7. /\ got' \in Seq(Keys) /\ GotAll'
      /\ Cursor' = IF list = <<>> THEN Cursor ELSE Last(list)
      /\ ToSet(got') = ToSet(got) \cup ToSet(list)
  BY <1>4, <1>5, <1>6, GotGrows
<1>8. QueryTypes'
  BY <1>1, <1>2, <1>4, <1>7, EmptySeq DEF QueryInv, QueryTypes, Reading
<1>9. \/ Cursor' = asked
      \/ Ahead(asked, Cursor') /\ \E c \in Dbs : Cursor' \in store[c] /\ Ahead(c, d)
  <2>1. CASE list = <<>>
    BY <1>2, <1>7, <2>1
  <2>2. CASE list # <<>>
    BY <1>2, <1>3, <1>5, <1>7, <2>2
  <2> QED
    BY <2>1, <2>2
<1>10. ASSUME NEW k \in req.keys, NEW c \in Dbs, Due(k), Ahead(asked, k), k \in store[c],
              Ahead(c, d)
       PROVE  k \in ToSet(got')
  <2>1. ASSUME NEW e \in ToSet(dbs), k \in store[e] PROVE FALSE
    <3>1. c \in Int /\ d \in Int /\ e \in Int
      BY <1>3, Numbers
    <3>2. Ahead(c, e)
      BY <1>3, <1>10, <3>1, AheadIsAnOrder
    <3> QED
      BY <1>3, <1>10, <2>1, <3>2, AheadOfDatabase
  <2> QED
    BY <1>2, <1>5, <1>7, <1>10, <2>1
<1>11. Waiting'
  BY <1>1, <1>2, <1>3, <1>4, <1>9, <1>10 DEF Waiting
<1> QED
  BY <1>4, <1>7, <1>8, <1>11 DEF Visiting, AtEnd

LEMMA VisitEndStep ==
    ASSUME QueryInv, Reading, VisitEnd
    PROVE  QueryTypes' /\ GotAll' /\ Visiting' /\ Waiting' /\ AtEnd'
<1>1. /\ req' = req /\ store' = store /\ ends' = ends
      /\ \A k : Due(k)' <=> Due(k)
      /\ \A a, b : Ahead(a, b)' <=> Ahead(a, b)
  BY ReadingKeeps DEF QueryInv
<1>2. /\ pc = "visit" /\ dbs = <<>> /\ asked = Cursor /\ asked' = asked
      /\ got' = got \o list /\ dbs' = <<>> /\ list' = <<>>
      /\ pc' = IF list = <<>> THEN "end" ELSE "idle"
  BY DEF VisitEnd, Return, QueryInv, Visiting
<1>3. ToSet(dbs) = {}
  BY <1>2, Elements DEF QueryInv, QueryTypes
<1>4. /\ list \in Seq(Keys) /\ Sorted(list)
      /\ \A k \in ToSet(list) : Ahead(Cursor, k)
      /\ \A k \in req.keys : Due(k) /\ Ahead(Cursor, k) => k \in ToSet(list)
  BY <1>2, <1>3 DEF QueryInv, QueryTypes, Visiting
<1>5. /\ got' \in Seq(Keys) /\ GotAll'
      /\ Cursor' = IF list = <<>> THEN Cursor ELSE Last(list)
  BY <1>2, <1>4, GotGrows
<1>6. QueryTypes'
  BY <1>1, <1>2, <1>5, EmptySeq DEF QueryInv, QueryTypes, Reading
<1>7. AtEnd'
  <2>1. list = <<>> => ToSet(list) = {}
    BY <1>4, Elements
  <2> QED
    BY <1>1, <1>2, <1>4, <1>5, <2>1 DEF AtEnd
<1>8. pc' # "visit" /\ pc' # "wait"
  BY <1>2
<1> QED
  BY <1>5, <1>6, <1>7, <1>8 DEF Visiting, Waiting

\* The result of a task is what its database has beyond the page it ended.
LEMMA AnswerStep ==
    ASSUME QueryInv, Reading, Answer
    PROVE  QueryTypes' /\ GotAll' /\ Visiting' /\ Waiting' /\ AtEnd'
<1> DEFINE p == Page(task)
<1>1. /\ req' = req /\ store' = store /\ ends' = ends
      /\ \A k : Due(k)' <=> Due(k)
      /\ \A a, b : Ahead(a, b)' <=> Ahead(a, b)
  BY ReadingKeeps DEF QueryInv
<1>2. /\ got' = got \o p /\ pc' = "idle"
      /\ asked' = asked /\ dbs' = dbs /\ list' = list
  BY DEF Answer
<1>3. /\ task \in Dbs
      /\ \/ Cursor = asked
         \/ /\ Ahead(asked, Cursor)
            /\ \E d \in Dbs : Cursor \in store[d] /\ Ahead(d, task)
      /\ \A k \in req.keys, d \in Dbs :
            Due(k) /\ Ahead(asked, k) /\ k \in store[d] /\ Ahead(d, task) =>
                k \in ToSet(got)
  BY DEF QueryInv, Waiting, Answer
<1>4. /\ p \in Seq(Keys) /\ Sorted(p) /\ ToSet(p) \subseteq Matches(task)
      /\ \A k \in Matches(task) :
            \/ k \in ToSet(p)
            \/ Len(p) = Limit /\ \A a \in ToSet(p) : Ahead(a, k)
  BY <1>3, PageHolds DEF QueryInv
<1> HIDE DEF p
<1>5. p # <<>> => Last(p) \in ToSet(p)
  BY <1>4, Elements
<1>6. \A k \in ToSet(p) : k \in store[task] /\ Ahead(asked, k)
  BY <1>4 DEF Matches, Beyond, Ahead
<1>7. ASSUME NEW k \in ToSet(p) PROVE Ahead(Cursor, k)
  BY <1>3, <1>6, AheadOfDatabase
<1>8. ASSUME p # <<>>, NEW k \in req.keys, Due(k), Ahead(Cursor, k), ~Ahead(Last(p), k)
      PROVE  k \in ToSet(p) \cup ToSet(got)
  <2>1. PICK e \in Dbs : k \in store[e]
    BY DEF QueryInv, InPlace
  <2>2. k \in Keys /\ k \in Int /\ asked \in Int /\ Cursor \in Int
    <3>1. k \in Keys
      BY DEF QueryInv, QueryTypes
    <3> QED
      BY <3>1, Numbers, CursorType DEF QueryInv, QueryTypes
  <2>3. Ahead(asked, k)
    BY <1>3, <1>8, <2>2, AheadIsAnOrder
  <2>4. CASE e = task
    <3>1. EntryFits(k)
      BY <1>8, <2>2, WantedFits DEF Due, QueryInv
    <3>2. k \in Matches(task)
      BY <2>1, <2>3, <2>4, <3>1 DEF Matches, Beyond, Ahead
    <3> QED
      BY <1>4, <1>5, <1>8, <3>2
  <2>5. CASE Ahead(e, task)
    BY <1>3, <1>8, <2>1, <2>3, <2>5
  <2>6. CASE Ahead(task, e)
    BY <1>3, <1>5, <1>6, <1>8, <2>1, <2>6, AheadOfDatabase
  <2>7. e \in Int /\ task \in Int
    BY <1>3, Numbers
  <2> QED
    BY <2>4, <2>5, <2>6, <2>7, AheadIsAnOrder
<1>9. got' \in Seq(Keys) /\ GotAll'
  BY <1>2, <1>4, <1>7, <1>8, GotGrows
<1>10. QueryTypes'
  BY <1>1, <1>2, <1>9 DEF QueryInv, QueryTypes, Reading
<1> QED
  BY <1>2, <1>9, <1>10 DEF Visiting, Waiting, AtEnd

----------------------------------------------------------------------------
LEMMA QueryNext == QueryInv /\ [Next]_vars => QueryInv'
<1> SUFFICES ASSUME QueryInv, [Next]_vars PROVE QueryInv'
  OBVIOUS
<1>1. InPlace' /\ EndsCoverKeys' /\ KnownIsKnown'
  BY NextServer DEF QueryInv
<1>2. /\ req' = req /\ known' = known
      /\ store' \in [Dbs -> SUBSET Keys] /\ ends' \in [Dbs -> Nat]
      /\ Serving \/ UNCHANGED <<store, ends>>
  BY StepKeeps DEF QueryInv
<1>3. CASE Serving \/ UNCHANGED vars
  <2>1. GotAll' /\ Visiting' /\ Waiting' /\ AtEnd' /\ UNCHANGED readerVars
    BY <1>3, ServerSteps
  <2>2. QueryTypes'
    BY <1>2, <2>1 DEF QueryInv, QueryTypes, readerVars
  <2> QED
    BY <1>1, <2>1, <2>2 DEF QueryInv
<1>4. CASE Ask \/ VisitOpen \/ VisitClosed \/ VisitEnd \/ Answer
  <2>1. Reading
    BY <1>2, <1>4 DEF Reading, Ask, VisitOpen, VisitClosed, VisitEnd, Return, Answer, serverVars
  <2>2. QueryTypes' /\ GotAll' /\ Visiting' /\ Waiting' /\ AtEnd'
    BY <1>4, <2>1, AskStep, VisitOpenStep, VisitClosedStep, VisitEndStep, AnswerStep
  <2> QED
    BY <1>1, <2>2 DEF QueryInv
<1> QED
  BY <1>3, <1>4 DEF Next, Serving

\* What a reader has, and what the databases hold that is still to visit or the
\* task is for, is all that is due.
THEOREM QueryInvariant == Spec => []QueryInv
<1>1. Init => QueryInv
  BY QueryInit
<1>2. QueryInv /\ [Next]_vars => QueryInv'
  BY QueryNext
<1> QED
  BY <1>1, <1>2, PTL DEF Spec

\* The pages of Entries go one way, and no entry comes twice.
THEOREM QueryPagesInOrder == Spec => []PagesInOrder
<1>1. QueryInv => PagesInOrder
  BY DEF QueryInv, GotAll, Sorted, Ahead, PagesInOrder
<1> QED
  BY <1>1, QueryInvariant, PTL

\* Entries passes over no entry that was there before the reader, as far as the
\* reader has gone and at the end, but for what Hidden describes.
THEOREM QueryNothingSkipped == Spec => []NothingSkipped
<1>1. ASSUME QueryInv, NEW k \in req.keys, Wanted(k), ~Hidden(k)
      PROVE  /\ Between(req.from, k, Cursor) => k \in ToSet(got)
             /\ pc = "end" /\ Ahead(req.from, k) => k \in ToSet(got)
  <2>1. Due(k)
    BY <1>1 DEF Due
  <2>2. k \in Int /\ Cursor \in Int /\ req.from \in Int
    <3>1. k \in Keys
      BY <1>1 DEF QueryInv, QueryTypes
    <3> QED
      BY <1>1, <3>1, Numbers, CursorType DEF QueryInv
  <2>3. Between(req.from, k, Cursor) => Ahead(req.from, k) /\ ~Ahead(Cursor, k)
    BY <2>2 DEF Between, Ahead
  <2>4. pc = "end" => ~Ahead(Cursor, k)
    BY <1>1, <2>1 DEF QueryInv, AtEnd
  <2> QED
    BY <1>1, <2>1, <2>3, <2>4 DEF QueryInv, GotAll
<1>2. QueryInv => NothingSkipped
  <2>1. ASSUME NEW k, NEW b, Between(req.from, k, b) PROVE Ahead(req.from, k)
    BY <2>1 DEF Between, Ahead
  <2> QED
    BY <1>1, <2>1 DEF NothingSkipped
<1> QED
  BY <1>2, QueryInvariant, PTL

----------------------------------------------------------------------------
(* Ticks.                                                                  *)

LEMMA RangesAreClasses ==
    ASSUME NEW levels \in SUBSET Levels, Cardinality(levels) # 4, levels # {},
           NEW n \in Int, InRanges(levels, n)
    PROVE  ClassOf(n) \in levels
  BY DEF InRanges, ClassOf

\* Unless an OR stands beside levels, what a tick counts is what is wanted.
LEMMA TickFitsWanted ==
    ASSUME QueryTypes, HasClause => Len(req.expr) <= 1, NEW k \in Keys
    PROVE  TickFits(k) <=> Wanted(k)
<1>1. LevelOf[k] \in Int /\ req.levels \in SUBSET Levels /\ req.expr \in Seq(SUBSET Keys)
  BY QueryAssumption DEF QueryTypes
<1>2. HasClause => (LevelFits(k) <=> ClassOf(LevelOf[k]) \in req.levels)
  BY <1>1, ClassInRanges, RangesAreClasses DEF LevelFits, HasClause
<1>3. ~HasClause => LevelFits(k)
  BY DEF LevelFits
<1>4. ~HasClause => req.levels = {} \/ ClassOf(LevelOf[k]) \in req.levels
  <2>1. ClassOf(LevelOf[k]) \in Levels
    BY DEF ClassOf, Levels
  <2>2. IsFiniteSet(Levels)
    <3>1. Levels = (({"error"} \cup {"warn"}) \cup {"info"}) \cup {"debug"}
      BY DEF Levels
    <3>2. IsFiniteSet({"error"})
      BY FS_Singleton
    <3> QED
      BY <3>1, <3>2, FS_AddElement
  <2>3. Cardinality(req.levels) = 4 => req.levels = Levels
    BY <1>1, <2>2, FourLevels, FS_Subset
  <2> QED
    BY <2>1, <2>3 DEF HasClause
<1>5. LevelFits(k) <=> (req.levels # {} => ClassOf(LevelOf[k]) \in req.levels)
  BY <1>2, <1>3, <1>4 DEF HasClause
<1>6. PICK z \in Nat : z = Len(req.expr) /\ DOMAIN req.expr = 1..z
  BY <1>1, LenProperties
<1>7. CASE req.expr = <<>>
  BY <1>5, <1>7 DEF TickFits, Wanted, ExprFits
<1>8. CASE req.expr # <<>>
  <2>1. z >= 1
    BY <1>1, <1>6, <1>8, EmptySeq
  <2>2. CASE HasClause
    <3>1. z = 1
      <4>1. Len(req.expr) <= 1
        BY <2>2
      <4>2. z = Len(req.expr)
        BY <1>6
      <4>3. z <= 1
        BY ONLY <4>1, <4>2, Zenon
      <4>4. z \in Nat
        BY <1>6
      <4> QED
        BY ONLY <2>1, <4>3, <4>4
    <3>2. DOMAIN req.expr = {1} /\ 2..Len(req.expr) = {}
      BY <1>6, <3>1
    <3>3. ExprFits(k) <=> k \in req.expr[1]
      BY <1>8, <3>2 DEF ExprFits
    <3> QED
      BY <1>5, <1>8, <3>2, <3>3 DEF TickFits, Wanted
  <2>3. CASE ~HasClause
    <3>1. DOMAIN req.expr = {1} \cup 2..Len(req.expr)
      BY <1>6, <2>1
    <3>2. ExprFits(k) <=> k \in req.expr[1] \/ \E i \in 2..Len(req.expr) : k \in req.expr[i]
      BY <1>8, <3>1 DEF ExprFits
    <3> QED
      BY <1>3, <1>5, <1>8, <2>3, <3>2 DEF TickFits, Wanted
  <2> QED
    BY <2>2, <2>3
<1> QED
  BY <1>7, <1>8

LEMMA Products ==
    ASSUME NEW n \in Nat, NEW i \in 0..(n - 1), NEW length \in Nat
    PROVE  /\ (n - 1 - i) * length \in Nat
           /\ (n - 1 - i) * length + length <= length * n
<1>1. PICK m \in Nat : m = n - 1 - i
  OBVIOUS
<1>2. n = m + 1 + i /\ i \in Nat
  BY <1>1
<1>3. length * n = m * length + length + i * length
  BY <1>2
<1>4. m * length \in Nat /\ i * length \in Nat
  BY <1>2
<1> QED
  BY <1>1, <1>3, <1>4

\* A database with entries in an interval is asked for it.
LEMMA TickedHasAll ==
    ASSUME QueryInv, ends[Live] = 0 \/ ends[Live] >= LastEpoch(store[Live]),
           NEW end \in Int, NEW length \in Nat, NEW n \in Nat, NEW i \in 0..(n - 1),
           NEW d \in Dbs, NEW k \in store[d], Epoch(k) \in Interval(end, length, n, i)
    PROVE  Ticked(d, end, length, n)
<1>1. k \in Keys /\ Epoch(k) \in Nat /\ ends[d] \in Nat /\ Starts[d] \in Nat
      /\ Starts[d] <= Epoch(k)
  BY Numbers DEF QueryInv, QueryTypes, InPlace, InTime
<1>2. ends[d] = 0 \/ ends[d] >= Epoch(k)
  <2>1. CASE d # Live
    BY <2>1 DEF QueryInv, EndsCoverKeys
  <2>2. CASE d = Live
    <3>1. store[Live] \in SUBSET Keys /\ store[Live] # {}
      BY <2>2, Numbers DEF QueryInv, QueryTypes
    <3>2. Max(store[Live]) \in store[Live] /\ k <= Max(store[Live])
      BY <2>2, <3>1, GreatestOf
    <3>3. LastEpoch(store[Live]) >= Epoch(k) /\ LastEpoch(store[Live]) \in Nat
      BY <1>1, <3>1, <3>2, Numbers DEF LastEpoch
    <3> QED
      BY <1>1, <2>2, <3>3
  <2> QED
    BY <2>1, <2>2
<1>3. PICK b \in Nat : b = (n - 1 - i) * length /\ b + length <= length * n
  BY Products
<1>4. PICK c \in Int : c = length * n
  OBVIOUS
<1>5. end - b - length <= Epoch(k) /\ Epoch(k) <= end - b - 1
  BY <1>1, <1>3 DEF Interval
<1> QED
  BY <1>1, <1>2, <1>3, <1>4, <1>5 DEF Ticked

LEMMA TicksCount ==
    ASSUME QueryInv, HasClause => Len(req.expr) <= 1,
           ends[Live] = 0 \/ ends[Live] >= LastEpoch(store[Live]),
           NEW end \in Int, NEW length \in Nat, NEW n \in Nat, NEW i \in 0..(n - 1)
    PROVE  TickAddsUp(end, length, n, i)
<1> DEFINE I == Interval(end, length, n, i)
           K == {k \in UNION {store[d] : d \in Dbs} : Wanted(k) /\ Epoch(k) \in I}
           P == UNION {Counted(d, I) : d \in {e \in Dbs : Ticked(e, end, length, n)}}
           f == [x \in P |-> x[2]]
<1>1. \A d \in Dbs : store[d] \subseteq Keys /\ \A k \in store[d] : InTime(k, d)
  BY DEF QueryInv, QueryTypes, InPlace
<1>2. \A k \in Keys : TickFits(k) <=> Wanted(k)
  BY TickFitsWanted DEF QueryInv
<1>3. \A d \in Dbs : \A k \in store[d] : Epoch(k) \in I => Ticked(d, end, length, n)
  BY TickedHasAll
<1> HIDE DEF I
<1>4. ASSUME NEW x \in P
      PROVE  \E d \in Dbs, k \in K : k \in store[d] /\ x = <<d, k>>
  <2>1. PICK d \in Dbs : x \in Counted(d, I)
    OBVIOUS
  <2>2. PICK k \in store[d] : x = <<d, k>> /\ TickFits(k) /\ Epoch(k) \in I
    BY <2>1 DEF Counted
  <2> QED
    BY <1>1, <1>2, <2>2
<1>5. ASSUME NEW k \in K PROVE \E d \in Dbs : k \in store[d] /\ <<d, k>> \in P
  <2>1. PICK d \in Dbs : k \in store[d]
    OBVIOUS
  <2>2. TickFits(k) /\ Epoch(k) \in I /\ Ticked(d, end, length, n)
    BY <1>1, <1>2, <1>3, <2>1
  <2>3. <<d, k>> \in Counted(d, I)
    BY <2>1, <2>2 DEF Counted
  <2> QED
    BY <2>1, <2>2, <2>3
<1>6. IsFiniteSet(K)
  <2>1. K \in SUBSET Keys
    BY <1>1
  <2> HIDE DEF K
  <2> QED
    BY <2>1, Numbers, FS_Subset
<1> HIDE DEF K, P
<1>7. f \in [P -> K]
  BY <1>4
<1>8. ASSUME NEW x \in P, NEW y \in P, f[x] = f[y] PROVE x = y
  <2>1. PICK d \in Dbs, k \in K : k \in store[d] /\ x = <<d, k>>
    BY <1>4
  <2>2. PICK e \in Dbs, l \in K : l \in store[e] /\ y = <<e, l>>
    BY <1>4
  <2>3. k = l
    BY <1>8, <2>1, <2>2
  <2>4. k \in Keys /\ InTime(k, d) /\ InTime(k, e)
    BY <1>1, <2>1, <2>2, <2>3
  <2>5. ~(d < e) /\ ~(e < d) /\ d \in Nat /\ e \in Nat
    BY <2>4, PlacesInOrder, Numbers
  <2> QED
    BY <2>1, <2>2, <2>3, <2>5
<1>9. \A k \in K : \E x \in P : f[x] = k
  <2>1. ASSUME NEW k \in K PROVE \E x \in P : f[x] = k
    <3>1. PICK d \in Dbs : <<d, k>> \in P
      BY <1>5
    <3> QED
      BY <3>1
  <2> QED
    BY <2>1
<1> HIDE DEF f
<1>10. f \in Injection(P, K) /\ f \in Surjection(P, K)
  BY <1>7, <1>8, <1>9 DEF Injection, IsInjective, Surjection
<1>11. Cardinality(P) = Cardinality(K)
  BY <1>6, <1>10, FS_Injection
<1> QED
  BY <1>11 DEF TickAddsUp, Ticks, P, K, I

\* The ticks of the databases count each entry of an interval once, whatever the
\* interval; TicksAddUp says so of some.
THEOREM QueryTicksAddUp == Spec => []TicksAddUp
<1>1. QueryInv => TicksAddUp
  <2>1. \A end \in 2..(Epoch(MaxKey) + 1), length \in 1..2, n \in 1..2 :
           \A i \in 0..(n - 1) :
              end \in Int /\ length \in Nat /\ n \in Nat
    OBVIOUS
  <2> QED
    BY <2>1, TicksCount DEF TicksAddUp
<1> QED
  BY <1>1, QueryInvariant, PTL
=============================================================================
