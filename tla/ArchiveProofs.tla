---------------------------- MODULE ArchiveProofs ----------------------------
(***************************************************************************)
(* Theorems about the databases of the SQLite storage, for any files found *)
(* and any bounds: Flush finds an open database, the epochs of a database  *)
(* cover what it has, no two have the same file, what is saved stays where *)
(* the next start looks, and the size cap takes the oldest.                *)
(*                                                                         *)
(* They rest on the order in which a process numbers its databases: those  *)
(* it found, by their start, the one that New opened and flagged as live,  *)
(* and those that it made by rotation, each with a later start.            *)
(***************************************************************************)
EXTENDS Archive, FiniteSetTheorems, SequenceTheorems,
        WellFoundedInduction, TLAPS

DbRecord ==
    [path : Epochs, start : Epochs, newStart : {Elsewhere} \cup Epochs,
     end : 0..MaxTime, age : {0, MaxChunkAge}, named : BOOLEAN,
     live : BOOLEAN, size : Nat, status : {"closed", "open", "removing"}]

Span == [first : 1..MaxTime, last : 1..MaxTime]

TypesOK ==
    /\ now \in 1..MaxTime
    /\ DOMAIN disk \subseteq {Elsewhere} \cup Epochs
    /\ disk \in [DOMAIN disk -> SUBSET (1..Len(chunks))]
    /\ db \in Seq(DbRecord)
    /\ dbs \in Seq(Nat)
    /\ liveDbs \in Seq(Nat)
    /\ check \in {"wait", "rotate", "update", "cap"}
    /\ closed \in BOOLEAN
    /\ chunks \in Seq(Span)
    /\ saver \in Seq(Nat)
    /\ Len(saver) = Len(chunks)
    /\ restarts \in Nat

SizesOK == \A d \in 1..Len(db) : db[d].size <= Len(chunks)

\* The databases are numbered by their start, which names the file, and the
\* clock is behind the next one that rotation makes.
StartsAscend ==
    /\ \A d \in 1..Len(db) : /\ db[d].path = db[d].start
                             /\ db[d].start <= now + Ahead
                             /\ check = "rotate" => db[d].start < now + Ahead
    /\ \A d, e \in 1..Len(db) : d < e => db[d].start < db[e].start
    /\ \A f \in DOMAIN disk : f <= now + Ahead

\* Only a database with a directory and a prefix keeps the earliest time of
\* late entries, which names the file when it is closed.
RenamesBack ==
    \A d \in 1..Len(db) :
        /\ ~db[d].named => db[d].newStart = 0
        /\ db[d].named => 0 < db[d].newStart /\ db[d].newStart <= db[d].start

\* An open database has its file.
OpenHasFile == \A d \in 1..Len(db) : IsOpen(d) => db[d].path \in DOMAIN disk

\* L is the database that New opened.  Those before it were never flushed to,
\* those after it are live and open and in no other list.
LiveFrom(L) ==
    /\ L \in 1..Len(db)
    /\ \A d \in 1..Len(db) :
          /\ db[d].live <=> d = L
          /\ d < L => ~db[d].named /\ db[d].end = 0
          /\ d > L => db[d].named /\ IsOpen(d)
    /\ db[L].named => L = 1
    /\ ToSet(liveDbs) = L..Len(db)
    /\ L \in ToSet(dbs)
    /\ ToSet(dbs) \subseteq 1..L
    /\ closeLeft \subseteq 1..L
    /\ db[L].status # "removing"
    /\ ~closed => IsOpen(L) /\ closeLeft = {}
    /\ \A c \in 1..Len(saver) : saver[c] # 0 => saver[c] \in L..Len(db)

\* storage.dbs is in the order of the starts, unless L was flushed to and is
\* the first.
ListInOrder(L) ==
    \/ dbs[1] = L
    \/ \A i, j \in 1..Len(dbs) : i < j => dbs[i] < dbs[j]

ListsOK ==
    /\ IsInjective(dbs)
    /\ IsInjective(liveDbs)

\* A saved chunk is in the file of its database, or in the one that Close has
\* renamed it to.
Kept(L, c) ==
    LET d == saver[c] IN
    \/ db[d].path \in DOMAIN disk /\ c \in disk[db[d].path]
    \/ /\ d = L /\ closed /\ L \notin closeLeft
       /\ \E f \in DOMAIN disk : 0 < f /\ f < db[L].start /\ c \in disk[f]

SavedKept(L) ==
    \A c \in 1..Len(saver) :
        (saver[c] # 0 /\ (closed => db[saver[c]].named)) => Kept(L, c)

ArchiveInv ==
    /\ TypesOK
    /\ SizesOK
    /\ StartsAscend
    /\ RenamesBack
    /\ OpenHasFile
    /\ ListsOK
    /\ EpochsCover
    /\ \E L \in Nat : LiveFrom(L) /\ ListInOrder(L) /\ SavedKept(L)

----------------------------------------------------------------------------
(* The stable sort: ComesBefore is a strict order of the places, so the    *)
(* rank of a place is one more than the number of those before it, no two  *)
(* have the same rank, and every rank is taken.                            *)

LEMMA BeforeIsAnOrder ==
    ASSUME NEW seq, NEW n \in Nat, seq \in [1..n -> DbRecord],
           NEW i \in 1..n, NEW j \in 1..n, NEW k \in 1..n
    PROVE  /\ ~ComesBefore(seq, i, i)
           /\ ComesBefore(seq, i, j) /\ ComesBefore(seq, j, k) => ComesBefore(seq, i, k)
           /\ i # j => ComesBefore(seq, i, j) \/ ComesBefore(seq, j, i)
           /\ ComesFirst(seq[i], seq[j]) => ComesBefore(seq, i, j)
<1>1. \A d \in 1..n : seq[d].end \in Nat /\ seq[d].start \in Nat
  BY ArchiveAssumption DEF DbRecord, Epochs
<1> QED
  BY <1>1 DEF ComesBefore, ComesFirst

LEMMA RankGrows ==
    ASSUME NEW seq, NEW n \in Nat, seq \in [1..n -> DbRecord],
           NEW i \in 1..n
    PROVE  /\ Rank(seq, i) \in 1..n
           /\ \A j \in 1..n : ComesBefore(seq, i, j) => Rank(seq, i) < Rank(seq, j)
<1> DEFINE Pred(j) == {k \in 1..n : ComesBefore(seq, k, j)}
<1>1. DOMAIN seq = 1..n
  OBVIOUS
<1>2. \A j \in 1..n : Rank(seq, j) = Cardinality(Pred(j)) + 1
  BY ONLY <1>1 DEF Rank
<1>3. IsFiniteSet(1..n) /\ Cardinality(1..n) = n
  BY FS_Interval
<1>4. ASSUME NEW j \in 1..n
      PROVE  /\ Pred(j) \in SUBSET (1..n)
             /\ IsFiniteSet(Pred(j))
             /\ Cardinality(Pred(j)) \in Nat
             /\ j \notin Pred(j)
  BY <1>3, FS_Subset, FS_CardinalityType, BeforeIsAnOrder
<1>5. Rank(seq, i) \in 1..n
  <2>1. Pred(i) # 1..n
    BY <1>4
  <2>2. Cardinality(Pred(i)) <= n /\ Cardinality(Pred(i)) # n
    BY <1>3, <1>4, <2>1, FS_Subset
  <2>3. Cardinality(Pred(i)) \in Nat
    BY <1>4
  <2> HIDE DEF Pred
  <2> QED
    BY <1>2, <2>2, <2>3
<1>6. ASSUME NEW j \in 1..n, ComesBefore(seq, i, j)
      PROVE  Rank(seq, i) < Rank(seq, j)
  <2>1. Pred(i) \in SUBSET Pred(j)
    BY <1>6, BeforeIsAnOrder
  <2>2. i \in Pred(j) /\ i \notin Pred(i)
    BY <1>4, <1>6
  <2>3. Pred(i) # Pred(j)
    BY <2>2
  <2> HIDE DEF Pred
  <2>4. Cardinality(Pred(i)) <= Cardinality(Pred(j))
    BY <1>4, <2>1, FS_Subset
  <2>5. Cardinality(Pred(j)) # Cardinality(Pred(i))
    BY <1>4, <2>1, <2>3, FS_Subset
  <2>6. Cardinality(Pred(i)) \in Nat /\ Cardinality(Pred(j)) \in Nat
    BY <1>4
  <2> QED
    BY <1>2, <2>4, <2>5, <2>6
<1> QED
  BY <1>5, <1>6

\* An injection of 1..n into itself is onto.
LEMMA OntoByCount ==
    ASSUME NEW n \in Nat, NEW f \in [1..n -> 1..n], IsInjective(f)
    PROVE  \A k \in 1..n : \E i \in 1..n : f[i] = k
<1>1. IsFiniteSet(1..n)
  BY FS_Interval
<1>2. f \in Injection(1..n, 1..n)
  BY DEF Injection
<1>3. f \in Surjection(1..n, 1..n)
  BY <1>1, <1>2, FS_Injection
<1> QED
  BY <1>3 DEF Surjection

LEMMA OrderIsSorted ==
    ASSUME NEW seq, NEW n \in Nat, seq \in [1..n -> DbRecord]
    PROVE  /\ Order(seq) \in [1..n -> 1..n]
           /\ \A k, m \in 1..n : Order(seq)[k] = Order(seq)[m] => k = m
           /\ \A i \in 1..n : \E k \in 1..n : Order(seq)[k] = i
           /\ \A k, m \in 1..n :
                 k < m => ~ComesFirst(seq[Order(seq)[m]], seq[Order(seq)[k]])
<1> DEFINE r == [i \in 1..n |-> Rank(seq, i)]
           o == Order(seq)
<1>1. r \in [1..n -> 1..n]
  BY RankGrows
<1>2. \A i, j \in 1..n : Rank(seq, i) = Rank(seq, j) => i = j
  <2>1. ASSUME NEW i \in 1..n, NEW j \in 1..n, i # j PROVE Rank(seq, i) # Rank(seq, j)
    <3>1. Rank(seq, i) \in Nat /\ Rank(seq, j) \in Nat
      BY RankGrows
    <3>2. ComesBefore(seq, i, j) \/ ComesBefore(seq, j, i)
      BY <2>1, BeforeIsAnOrder
    <3>3. Rank(seq, i) < Rank(seq, j) \/ Rank(seq, j) < Rank(seq, i)
      BY <3>2, RankGrows
    <3> QED
      BY <3>1, <3>3
  <2> QED
    BY <2>1
<1>3. IsInjective(r)
  BY <1>2 DEF IsInjective
<1>4. ASSUME NEW k \in 1..n PROVE \E i \in 1..n : Rank(seq, i) = k
  <2> HIDE DEF r
  <2>1. PICK i \in 1..n : r[i] = k
    BY <1>1, <1>3, OntoByCount
  <2> QED
    BY <2>1 DEF r
<1>5. DOMAIN seq = 1..n
  OBVIOUS
<1>6. \A k \in 1..n : o[k] \in 1..n /\ Rank(seq, o[k]) = k
  BY <1>4, <1>5 DEF Order
<1>7. o \in [1..n -> 1..n]
  BY <1>5, <1>6 DEF Order
<1> HIDE DEF o, r
<1>8. \A k, m \in 1..n : o[k] = o[m] => k = m
  BY <1>6
<1>9. \A i \in 1..n : \E k \in 1..n : o[k] = i
  <2>1. IsInjective(o)
    BY <1>7, <1>8 DEF IsInjective
  <2> QED
    BY <1>7, <2>1, OntoByCount
<1>10. ASSUME NEW k \in 1..n, NEW m \in 1..n, k < m
       PROVE  ~ComesFirst(seq[o[m]], seq[o[k]])
  <2>1. ASSUME ComesFirst(seq[o[m]], seq[o[k]]) PROVE FALSE
    <3>1. ComesBefore(seq, o[m], o[k])
      BY <1>6, <2>1, BeforeIsAnOrder
    <3>2. Rank(seq, o[m]) < Rank(seq, o[k])
      BY <1>6, <3>1, RankGrows
    <3> QED
      BY <1>6, <1>10, <3>2
  <2> QED
    BY <2>1
<1> QED
  BY <1>7, <1>8, <1>9, <1>10 DEF o

\* A list of databases, sorted: the same databases, each once.
LEMMA SortDbsSorts ==
    ASSUME NEW n \in Nat, db \in [1..n -> DbRecord],
           NEW list \in Seq(Nat), ToSet(list) \subseteq 1..n, IsInjective(list)
    PROVE  /\ SortDbs(list) \in Seq(Nat)
           /\ Len(SortDbs(list)) = Len(list)
           /\ ToSet(SortDbs(list)) = ToSet(list)
           /\ IsInjective(SortDbs(list))
           /\ \A k, m \in 1..Len(list) :
                 k < m => ~ComesFirst(db[SortDbs(list)[m]], db[SortDbs(list)[k]])
<1> DEFINE z == Len(list)
           recs == [i \in 1..z |-> db[list[i]]]
           o == Order(recs)
           sorted == [k \in 1..z |-> list[o[k]]]
<1>1. z \in Nat /\ DOMAIN list = 1..z /\ list \in [1..z -> Nat]
  BY LenProperties
<1>2. \A i \in 1..z : list[i] \in 1..n
  BY <1>1 DEF ToSet
<1>3. recs \in [1..z -> DbRecord]
  BY <1>2
<1>4. SortDbs(list) = sorted
  BY <1>1 DEF SortDbs
<1> HIDE DEF z, recs
<1>5. /\ o \in [1..z -> 1..z]
      /\ \A k, m \in 1..z : o[k] = o[m] => k = m
      /\ \A i \in 1..z : \E k \in 1..z : o[k] = i
      /\ \A k, m \in 1..z : k < m => ~ComesFirst(recs[o[m]], recs[o[k]])
  BY <1>1, <1>3, OrderIsSorted
<1> HIDE DEF o
<1>6. sorted \in Seq(Nat) /\ Len(sorted) = z /\ DOMAIN sorted = 1..z
  <2>1. \A k \in 1..z : list[o[k]] \in Nat
    BY <1>1, <1>5
  <2> QED
    BY <1>1, <2>1
<1>7. \A k \in 1..z : sorted[k] = list[o[k]]
  OBVIOUS
<1> HIDE DEF sorted
<1>8. ToSet(sorted) = ToSet(list)
  <2>1. ASSUME NEW e \in ToSet(sorted) PROVE e \in ToSet(list)
    <3>1. PICK k \in 1..z : e = sorted[k]
      BY <1>6 DEF ToSet
    <3> QED
      BY <1>1, <1>5, <1>7, <3>1 DEF ToSet
  <2>2. ASSUME NEW e \in ToSet(list) PROVE e \in ToSet(sorted)
    <3>1. PICK i \in 1..z : e = list[i]
      BY <1>1 DEF ToSet
    <3>2. PICK k \in 1..z : o[k] = i
      BY <1>5
    <3> QED
      BY <1>6, <1>7, <3>1, <3>2 DEF ToSet
  <2> QED
    BY <2>1, <2>2
<1>9. IsInjective(sorted)
  <2>1. ASSUME NEW k \in 1..z, NEW m \in 1..z, sorted[k] = sorted[m] PROVE k = m
    <3>1. list[o[k]] = list[o[m]] /\ o[k] \in 1..z /\ o[m] \in 1..z
      BY <1>5, <1>7, <2>1
    <3>2. o[k] = o[m]
      BY <1>1, <3>1 DEF IsInjective
    <3> QED
      BY <1>5, <3>2
  <2> QED
    BY <1>6, <2>1 DEF IsInjective
<1>10. \A k, m \in 1..z : k < m => ~ComesFirst(db[sorted[m]], db[sorted[k]])
  <2>1. ASSUME NEW k \in 1..z, NEW m \in 1..z, k < m
        PROVE  ~ComesFirst(db[sorted[m]], db[sorted[k]])
    <3>1. o[k] \in 1..z /\ o[m] \in 1..z
      BY <1>5
    <3>2. recs[o[k]] = db[sorted[k]] /\ recs[o[m]] = db[sorted[m]]
      BY <1>7, <3>1 DEF recs
    <3> QED
      BY <1>5, <2>1, <3>2
  <2> QED
    BY <2>1
<1> QED
  BY <1>4, <1>6, <1>8, <1>9, <1>10 DEF z

----------------------------------------------------------------------------
(* What New makes of a directory.                                          *)

LEMMA SetToSeqLists ==
    ASSUME NEW S, IsFiniteSet(S)
    PROVE  /\ Cardinality(S) \in Nat
           /\ SetToSeq(S) \in [1..Cardinality(S) -> S]
           /\ IsInjective(SetToSeq(S))
<1>1. Cardinality(S) \in Nat /\ ExistsBijection(1..Cardinality(S), S)
  BY FS_CardinalityType
<1>2. \E f \in [1..Cardinality(S) -> S] : IsInjective(f)
  BY <1>1 DEF ExistsBijection, Bijection, Injection
<1> QED
  BY <1>1, <1>2 DEF SetToSeq

\* The databases of a start in the directory `files', for chunks 1..b.
StartsFrom(files, b, all, n) ==
    /\ all \in [1..n -> DbRecord]
    /\ \A d \in 1..n :
          /\ all[d].path = all[d].start
          /\ all[d].start \in DOMAIN files \/ all[d].start = now
          /\ all[d].end = 0
          /\ ~all[d].live
          /\ all[d].status = "closed"
          /\ all[d].size <= b
          /\ ~all[d].named => all[d].newStart = 0
          /\ all[d].named => all[d].newStart = all[d].start /\ n = 1
    /\ \A d, e \in 1..n : d < e => all[d].start < all[e].start

LEMMA ReloadedRecord ==
    ASSUME NEW name \in Epochs, NEW size \in Nat
    PROVE  /\ Reloaded(name, size) \in DbRecord
           /\ Reloaded(name, size).path = name
           /\ Reloaded(name, size).start = name
           /\ Reloaded(name, size).newStart = 0
           /\ Reloaded(name, size).end = 0
           /\ Reloaded(name, size).size = size
           /\ Reloaded(name, size).named = FALSE
           /\ Reloaded(name, size).live = FALSE
           /\ Reloaded(name, size).status = "closed"
BY ArchiveAssumption DEF Reloaded, DbRecord, Elsewhere

LEMMA NewDbRecord ==
    ASSUME NEW start \in Epochs
    PROVE  /\ NewDb(start) \in DbRecord
           /\ NewDb(start).path = start
           /\ NewDb(start).start = start
           /\ NewDb(start).newStart = start
           /\ NewDb(start).end = 0
           /\ NewDb(start).size = 0
           /\ NewDb(start).named = TRUE
           /\ NewDb(start).live = FALSE
           /\ NewDb(start).status = "closed"
BY ArchiveAssumption DEF NewDb, DbRecord, Elsewhere

LEMMA StartDbsAscend ==
    ASSUME now \in 1..MaxTime, NEW b \in Nat,
           NEW files, DOMAIN files \subseteq {Elsewhere} \cup Epochs,
           \A f \in DOMAIN files : files[f] \subseteq 1..b
    PROVE  \E n \in Nat \ {0} : StartsFrom(files, b, StartDbs(files), n)
<1> DEFINE names == DOMAIN files \ {Elsewhere}
           db0(name) == Reloaded(name, Cardinality(files[name]))
           found == {db0(name) : name \in names}
           list == SetToSeq(found)
           o == Order(list)
           n == Cardinality(found)
<1>1. CASE names = {}
  <2>1. now \in Epochs
    BY ArchiveAssumption DEF Epochs
  <2>2. StartDbs(files) = <<NewDb(now)>>
    BY <1>1 DEF StartDbs
  <2>3. StartsFrom(files, b, <<NewDb(now)>>, 1)
    <3> DEFINE x == NewDb(now)
    <3>1. /\ x \in DbRecord /\ x.path = now /\ x.start = now /\ x.newStart = now
          /\ x.end = 0 /\ x.size = 0 /\ x.named = TRUE /\ x.live = FALSE
          /\ x.status = "closed"
      BY <2>1, NewDbRecord
    <3> HIDE DEF x
    <3>2. <<x>> \in [1..1 -> DbRecord] /\ <<x>>[1] = x
      BY <3>1
    <3>3. \A d \in 1..1 : <<x>>[d] = x
      BY <3>2
    <3>4. \A d, e \in 1..1 : ~(d < e)
      OBVIOUS
    <3>5. StartsFrom(files, b, <<x>>, 1)
      BY ONLY <3>1, <3>2, <3>3, <3>4, b \in Nat DEF StartsFrom
    <3> QED
      BY <3>5 DEF x
  <2> QED
    BY <2>2, <2>3
<1>2. CASE names # {}
  <2>1. names \in SUBSET Epochs
    OBVIOUS
  <2>2. IsFiniteSet(names)
    <3>1. IsFiniteSet(Epochs)
      BY ArchiveAssumption, FS_Interval DEF Epochs
    <3> QED
      BY <2>1, <3>1, FS_Subset
  <2>3. ASSUME NEW name \in names
        PROVE  Cardinality(files[name]) \in Nat /\ Cardinality(files[name]) <= b
    <3>1. IsFiniteSet(1..b) /\ Cardinality(1..b) = b
      BY FS_Interval
    <3>2. files[name] \in SUBSET (1..b)
      OBVIOUS
    <3> QED
      BY <3>1, <3>2, FS_Subset, FS_CardinalityType
  <2>4. ASSUME NEW e \in found
        PROVE  /\ e \in DbRecord
               /\ e.start \in names /\ e = db0(e.start)
               /\ e.path = e.start /\ e.end = 0 /\ ~e.live /\ e.status = "closed"
               /\ e.size <= b /\ ~e.named /\ e.newStart = 0
    <3>1. PICK name \in names : e = db0(name)
      OBVIOUS
    <3>2. name \in Epochs /\ Cardinality(files[name]) \in Nat
      BY <2>1, <2>3
    <3>3. e = Reloaded(name, Cardinality(files[name]))
      BY <3>1
    <3>4. e.start = name
      BY ONLY <3>2, <3>3, ReloadedRecord
    <3>5. /\ e \in DbRecord
          /\ e.path = name /\ e.end = 0 /\ ~e.live /\ e.status = "closed"
          /\ e.size = Cardinality(files[name]) /\ ~e.named /\ e.newStart = 0
      <4>1. PICK size : size = Cardinality(files[name])
        OBVIOUS
      <4>2. PICK r : r = Reloaded(name, size)
        OBVIOUS
      <4>3. /\ r \in DbRecord
            /\ r.path = name /\ r.end = 0 /\ r.live = FALSE /\ r.status = "closed"
            /\ r.size = size /\ r.named = FALSE /\ r.newStart = 0
        BY ONLY <3>2, <4>1, <4>2, ReloadedRecord
      <4> QED
        BY ONLY <3>3, <4>1, <4>2, <4>3
    <3> QED
      BY ONLY <2>3, <3>1, <3>4, <3>5
  <2>5. IsFiniteSet(found)
    <3> DEFINE f == [name \in names |-> db0(name)]
    <3>1. f \in Surjection(names, found)
      BY DEF Surjection
    <3> QED
      BY <2>2, <3>1, FS_Surjection
  <2>6. found # {}
    BY <1>2
  <2> HIDE DEF found
  <2>7. n \in Nat /\ list \in [1..n -> found] /\ IsInjective(list)
    BY <2>5, SetToSeqLists
  <2>8. n # 0
    BY <2>5, <2>6, FS_EmptySet
  <2>9. list \in [1..n -> DbRecord]
    BY <2>4, <2>7
  <2> HIDE DEF list, n
  <2>10. /\ o \in [1..n -> 1..n]
         /\ \A k, m \in 1..n : o[k] = o[m] => k = m
         /\ \A k, m \in 1..n : k < m => ~ComesFirst(list[o[m]], list[o[k]])
    BY <2>7, <2>9, OrderIsSorted
  <2> DEFINE all == [k \in 1..n |-> list[o[k]]]
  <2>11. StartDbs(files) = all
    <3>1. DOMAIN list = 1..n
      BY <2>7
    <3> QED
      BY <1>2, <3>1 DEF StartDbs, list, found
  <2> HIDE DEF o
  <2>12. \A k \in 1..n : all[k] \in found /\ all[k] = list[o[k]]
    BY <2>7, <2>10
  <2>13. all \in [1..n -> DbRecord]
    BY <2>4, <2>12
  <2>14. ASSUME NEW k \in 1..n, NEW m \in 1..n, k < m
         PROVE  all[k].start < all[m].start
    <3>1. /\ all[k] \in found /\ all[k] = list[o[k]]
          /\ all[m] \in found /\ all[m] = list[o[m]]
          /\ o[k] \in 1..n /\ o[m] \in 1..n /\ o[k] # o[m]
      BY <2>10, <2>12, <2>14
    <3>2. all[k] # all[m]
      BY <2>7, <3>1 DEF IsInjective
    <3>3. all[k].start # all[m].start
      BY <2>4, <3>1, <3>2
    <3>4. ~ComesFirst(all[m], all[k])
      BY <2>10, <2>14, <3>1
    <3>5. all[k].start \in Nat /\ all[m].start \in Nat
      BY <2>1, <2>4, <3>1, ArchiveAssumption DEF Epochs
    <3>6. all[k].end = 0 /\ all[m].end = 0
      BY <2>4, <3>1
    <3> HIDE DEF all
    <3> QED
      BY <3>3, <3>4, <3>5, <3>6 DEF ComesFirst
  <2>15. StartsFrom(files, b, all, n)
    <3>1. ASSUME NEW d \in 1..n
          PROVE  /\ all[d].path = all[d].start
                 /\ all[d].start \in DOMAIN files \/ all[d].start = now
                 /\ all[d].end = 0
                 /\ ~all[d].live
                 /\ all[d].status = "closed"
                 /\ all[d].size <= b
                 /\ ~all[d].named => all[d].newStart = 0
                 /\ all[d].named => all[d].newStart = all[d].start /\ n = 1
      BY <2>4, <2>12
    <3> QED
      BY <2>13, <2>14, <3>1 DEF StartsFrom
  <2> QED
    BY <2>7, <2>8, <2>11, <2>15
<1> QED
  BY <1>1, <1>2

\* What New does of them: the last one is opened, and is the live one.
Started(files, b, D, n) ==
    /\ D \in Seq(DbRecord)
    /\ Len(D) = n
    /\ \A d \in 1..n :
          /\ D[d].path = D[d].start
          /\ D[d].start \in DOMAIN files \/ D[d].start = now
          /\ D[d].end = 0
          /\ D[d].live <=> d = n
          /\ D[d].status = IF d = n THEN "open" ELSE "closed"
          /\ D[d].size <= b
          /\ ~D[d].named => D[d].newStart = 0
          /\ D[d].named => D[d].newStart = D[d].start /\ n = 1
    /\ \A d, e \in 1..n : d < e => D[d].start < D[e].start

LEMMA StartedDbs ==
    ASSUME NEW files, NEW b \in Nat, NEW all, NEW n \in Nat \ {0},
           StartsFrom(files, b, all, n)
    PROVE  /\ Len(all) = n
           /\ Started(files, b, [all EXCEPT ![n].status = "open", ![n].live = TRUE], n)
           /\ [all EXCEPT ![n].status = "open", ![n].live = TRUE][n].path = all[n].path
<1> DEFINE D == [all EXCEPT ![n].status = "open", ![n].live = TRUE]
<1>1. all \in [1..n -> DbRecord]
  BY DEF StartsFrom
<1>2. all \in Seq(DbRecord) /\ Len(all) = n
  BY <1>1
<1>3. \A d \in 1..n : D[d] = IF d = n THEN [all[d] EXCEPT !.status = "open", !.live = TRUE]
                             ELSE all[d]
  BY <1>1
<1>4. D \in [1..n -> DbRecord]
  <2>1. DOMAIN D = 1..n /\ D = [d \in DOMAIN D |-> D[d]]
    BY <1>1
  <2>2. ASSUME NEW d \in 1..n PROVE D[d] \in DbRecord
    <3>1. all[d] \in DbRecord
      BY <1>1
    <3>2. [all[d] EXCEPT !.status = "open", !.live = TRUE] \in DbRecord
      BY <3>1 DEF DbRecord
    <3> HIDE DEF D
    <3> QED
      BY <1>3, <3>1, <3>2
  <2> HIDE DEF D
  <2> QED
    BY <2>1, <2>2
<1> HIDE DEF D
<1>5. D \in Seq(DbRecord) /\ Len(D) = n
  BY <1>4
<1>6. ASSUME NEW d \in 1..n
      PROVE  /\ D[d].path = all[d].path /\ D[d].start = all[d].start
             /\ D[d].end = all[d].end /\ D[d].size = all[d].size
             /\ D[d].named = all[d].named /\ D[d].newStart = all[d].newStart
             /\ D[d].live = IF d = n THEN TRUE ELSE all[d].live
             /\ D[d].status = IF d = n THEN "open" ELSE all[d].status
  <2>1. all[d] \in DbRecord
    BY <1>1
  <2> QED
    BY <1>3, <2>1 DEF DbRecord
<1>7. ASSUME NEW d \in 1..n
      PROVE  /\ D[d].path = D[d].start
             /\ D[d].start \in DOMAIN files \/ D[d].start = now
             /\ D[d].end = 0
             /\ D[d].live <=> d = n
             /\ D[d].status = IF d = n THEN "open" ELSE "closed"
             /\ D[d].size <= b
             /\ ~D[d].named => D[d].newStart = 0
             /\ D[d].named => D[d].newStart = D[d].start /\ n = 1
  <2>1. /\ all[d].path = all[d].start
        /\ all[d].start \in DOMAIN files \/ all[d].start = now
        /\ all[d].end = 0 /\ all[d].status = "closed" /\ all[d].size <= b
        /\ ~all[d].named => all[d].newStart = 0
        /\ all[d].named => all[d].newStart = all[d].start /\ n = 1
    BY DEF StartsFrom
  <2>2. all[d].live = FALSE
    <3>1. ~all[d].live
      BY DEF StartsFrom
    <3>2. all[d].live \in BOOLEAN
      BY <1>1 DEF DbRecord
    <3> QED
      BY <3>1, <3>2
  <2>3. D[d].live <=> d = n
    BY <1>6, <2>2
  <2> QED
    BY <1>6, <2>1, <2>3
<1>8. \A d, e \in 1..n : d < e => D[d].start < D[e].start
  BY <1>6 DEF StartsFrom
<1> QED
  <2>1. Started(files, b, D, n)
    BY <1>5, <1>7, <1>8 DEF Started
  <2> QED
    BY <1>2, <1>6, <2>1 DEF D

\* The lists of a start.
LEMMA StartedLists ==
    ASSUME NEW n \in Nat \ {0}
    PROVE  LET list == [i \in 1..n |-> i]
           IN  /\ list \in Seq(Nat) /\ Len(list) = n /\ list # <<>>
               /\ ToSet(list) = 1..n /\ IsInjective(list)
               /\ \A i, j \in 1..Len(list) : i < j => list[i] < list[j]
               /\ <<n>> \in Seq(Nat) /\ Len(<<n>>) = 1
               /\ ToSet(<<n>>) = n..n /\ IsInjective(<<n>>)
<1> DEFINE list == [i \in 1..n |-> i]
<1>1. list \in Seq(Nat) /\ Len(list) = n /\ DOMAIN list = 1..n
  OBVIOUS
<1>2. ToSet(list) = 1..n /\ IsInjective(list)
  BY <1>1 DEF ToSet, IsInjective
<1>3. <<n>> \in Seq(Nat) /\ Len(<<n>>) = 1 /\ DOMAIN <<n>> = {1} /\ <<n>>[1] = n
  OBVIOUS
<1>4. ToSet(<<n>>) = n..n
  <2>1. ToSet(<<n>>) = {n}
    BY <1>3 DEF ToSet
  <2>2. n..n = {n}
    OBVIOUS
  <2> QED
    BY <2>1, <2>2
<1>5. IsInjective(<<n>>)
  BY <1>3 DEF IsInjective
<1>6. list # <<>>
  BY <1>1
<1> QED
  BY <1>1, <1>2, <1>3, <1>4, <1>5, <1>6

LEMMA ConnectedFiles ==
    ASSUME NEW b \in Nat, NEW name, NEW files,
           files \in [DOMAIN files -> SUBSET (1..b)]
    PROVE  /\ DOMAIN Connected(files, name) = DOMAIN files \cup {name}
           /\ Connected(files, name) \in [DOMAIN files \cup {name} -> SUBSET (1..b)]
           /\ \A f \in DOMAIN files : Connected(files, name)[f] = files[f]
BY DEF Connected

----------------------------------------------------------------------------
(* The first start and a restart.                                          *)

LEMMA InitHolds == Init => ArchiveInv
<1> SUFFICES ASSUME Init PROVE ArchiveInv
  OBVIOUS
<1>1. /\ now = FilesFound + 1 /\ check = "wait" /\ closeLeft = {}
      /\ closed = FALSE /\ restarts = 0
  BY DEF Init
<1>2. now \in 1..MaxTime /\ MaxTime \in Nat /\ Ahead \in Nat /\ FilesFound \in Nat
  BY <1>1, ArchiveAssumption, ClockAssumption
<1>3. PICK found \in {{}, 1..FilesFound} :
        LET files == [f \in found |-> {f}]
            all   == StartDbs(files)
            last  == Len(all)
        IN  /\ db = [all EXCEPT ![last].status = "open", ![last].live = TRUE]
            /\ dbs = [i \in 1..last |-> i]
            /\ liveDbs = <<last>>
            /\ disk = Connected(files, all[last].path)
            /\ chunks = [c \in found |-> [first |-> c, last |-> c]]
            /\ saver = [c \in found |-> 0]
  BY DEF Init
<1> DEFINE files == [f \in found |-> {f}]
           all == StartDbs(files)
           b == Len(chunks)
<1>4. PICK k \in Nat : found = 1..k /\ k <= FilesFound
  <2>1. CASE found = {}
    <3>1. found = 1..0 /\ 0 \in Nat /\ 0 <= FilesFound
      BY <1>2, <2>1
    <3> QED
      BY ONLY <3>1
  <2>2. CASE found = 1..FilesFound
    <3>1. FilesFound \in Nat /\ FilesFound <= FilesFound
      BY <1>2
    <3> QED
      BY ONLY <2>2, <3>1
  <2>3. found = {} \/ found = 1..FilesFound
    BY <1>3
  <2> QED
    BY ONLY <2>1, <2>2, <2>3
<1>5. /\ chunks \in Seq(Span) /\ Len(chunks) = k
      /\ saver \in Seq(Nat) /\ Len(saver) = k
      /\ \A c \in 1..k : saver[c] = 0
  <2>1. k <= MaxTime
    BY <1>2, <1>4, ClockAssumption
  <2>2. ASSUME NEW c \in 1..k PROVE [first |-> c, last |-> c] \in Span
    BY <1>2, <2>1 DEF Span
  <2>3. chunks = [c \in 1..k |-> [first |-> c, last |-> c]]
    BY <1>3, <1>4
  <2>4. chunks \in [1..k -> Span]
    BY <2>2, <2>3
  <2>5. chunks \in Seq(Span) /\ Len(chunks) = k
    BY <2>4
  <2>6. saver = [c \in 1..k |-> 0]
    BY <1>3, <1>4
  <2> QED
    BY <2>5, <2>6
<1>6. /\ DOMAIN files = 1..k /\ DOMAIN files \subseteq Epochs
      /\ files \in [DOMAIN files -> SUBSET (1..k)]
      /\ \A f \in DOMAIN files : files[f] \subseteq 1..k
  BY <1>2, <1>4, ClockAssumption DEF Epochs
<1> HIDE DEF files
<1>7. PICK n \in Nat \ {0} : StartsFrom(files, k, all, n)
  <2>1. DOMAIN files \subseteq {Elsewhere} \cup Epochs
    BY <1>6
  <2> QED
    BY <1>2, <1>4, <1>6, <2>1, StartDbsAscend
<1> HIDE DEF all
<1>8. /\ Len(all) = n
      /\ db = [all EXCEPT ![n].status = "open", ![n].live = TRUE]
      /\ dbs = [i \in 1..n |-> i]
      /\ liveDbs = <<n>>
      /\ disk = Connected(files, all[n].path)
  <2>1. Len(all) = n
    BY <1>4, <1>7, StartedDbs
  <2> QED
    BY <1>3, <2>1 DEF files, all
<1>9. Started(files, k, db, n) /\ db[n].path = all[n].path
  <2> DEFINE D == [all EXCEPT ![n].status = "open", ![n].live = TRUE]
  <2>1. Started(files, k, D, n) /\ D[n].path = all[n].path
    BY <1>4, <1>7, StartedDbs
  <2>2. db = D
    BY <1>8
  <2> HIDE DEF D
  <2> QED
    BY ONLY <2>1, <2>2
<1>10. /\ dbs \in Seq(Nat) /\ Len(dbs) = n /\ ToSet(dbs) = 1..n /\ IsInjective(dbs)
       /\ \A i, j \in 1..Len(dbs) : i < j => dbs[i] < dbs[j]
       /\ liveDbs \in Seq(Nat) /\ ToSet(liveDbs) = n..n /\ IsInjective(liveDbs)
  BY <1>8, StartedLists
<1>11. /\ DOMAIN disk = DOMAIN files \cup {db[n].path}
       /\ disk \in [DOMAIN files \cup {db[n].path} -> SUBSET (1..k)]
  <2>1. disk = Connected(files, db[n].path)
    BY <1>8, <1>9
  <2> QED
    BY <1>4, <1>6, <2>1, ConnectedFiles
<1>12. \A d \in 1..n : /\ db[d] \in DbRecord
                       /\ db[d].path \in Epochs
                       /\ db[d].start \in Epochs
  <2>1. \A d \in 1..n : db[d] \in DbRecord
    BY <1>9 DEF Started
  <2> QED
    BY <2>1 DEF DbRecord
<1>13. TypesOK
  <2>1. DOMAIN disk \subseteq {Elsewhere} \cup Epochs
    BY <1>6, <1>11, <1>12
  <2>2. disk \in [DOMAIN disk -> SUBSET (1..Len(chunks))]
    BY <1>5, <1>11
  <2> QED
    BY <1>1, <1>2, <1>5, <1>9, <1>10, <2>1, <2>2 DEF TypesOK, Started
<1>14. SizesOK
  BY <1>5, <1>9 DEF SizesOK, Started
<1>15. StartsAscend
  <2>1. \A f \in DOMAIN files : f <= now + Ahead
    BY <1>1, <1>2, <1>4, <1>6
  <2>2. \A d \in 1..n : db[d].start <= now + Ahead
    BY <1>2, <1>9, <2>1 DEF Started
  <2> QED
    BY <1>1, <1>9, <1>11, <2>1, <2>2 DEF StartsAscend, Started
<1>16. RenamesBack
  <2>1. \A d \in 1..n : db[d].start \in Nat /\ 0 < db[d].start
    BY <1>2, <1>12 DEF Epochs
  <2> QED
    BY <1>9, <2>1 DEF RenamesBack, Started
<1>17. OpenHasFile
  BY <1>9, <1>11 DEF OpenHasFile, IsOpen, Started
<1>18. ListsOK
  BY <1>10 DEF ListsOK
<1>19. EpochsCover
  BY <1>5 DEF EpochsCover
<1>20. LiveFrom(n)
  BY <1>1, <1>5, <1>9, <1>10 DEF LiveFrom, IsOpen, Started
<1>21. ListInOrder(n) /\ SavedKept(n)
  BY <1>5, <1>10 DEF ListInOrder, SavedKept
<1> QED
  BY <1>13, <1>14, <1>15, <1>16, <1>17, <1>18, <1>19, <1>20, <1>21 DEF ArchiveInv

LEMMA ZerosAreASeq ==
    ASSUME NEW n \in Nat
    PROVE  [c \in 1..n |-> 0] \in Seq(Nat) /\ Len([c \in 1..n |-> 0]) = n
<1>1. [c \in 1..n |-> 0] \in Seq(Nat)
  BY IsASeq
<1>2. DOMAIN [c \in 1..n |-> 0] = 1..n
  OBVIOUS
<1> QED
  BY <1>1, <1>2, LenProperties

LEMMA RestartKeeps == ArchiveInv /\ Restart => ArchiveInv'
<1> SUFFICES ASSUME ArchiveInv, Restart PROVE ArchiveInv'
  OBVIOUS
<1> DEFINE all == StartDbs(disk)
           b == Len(chunks)
<1>1. TypesOK /\ StartsAscend
  BY DEF ArchiveInv
<1>2. /\ now \in 1..MaxTime /\ MaxTime \in Nat /\ Ahead \in Nat
      /\ DOMAIN disk \subseteq {Elsewhere} \cup Epochs
      /\ disk \in [DOMAIN disk -> SUBSET (1..b)]
      /\ chunks \in Seq(Span) /\ b \in Nat
      /\ saver \in Seq(Nat) /\ Len(saver) = b
      /\ restarts \in Nat
  BY <1>1, ArchiveAssumption DEF TypesOK
<1>3. /\ now' = now /\ chunks' = chunks /\ check' = "wait" /\ closeLeft' = {}
      /\ closed' = FALSE /\ restarts' = restarts + 1
      /\ saver' = [c \in DOMAIN saver |-> 0]
      /\ Len(chunks') = b
  BY DEF Restart
<1> HIDE DEF b
<1>4. PICK n \in Nat \ {0} : StartsFrom(disk, b, all, n)
  <2>1. \A f \in DOMAIN disk : disk[f] \subseteq 1..b
    BY <1>2
  <2> QED
    BY <1>2, <2>1, StartDbsAscend
<1> HIDE DEF all
<1>5. /\ Len(all) = n
      /\ Started(disk, b, [all EXCEPT ![n].status = "open", ![n].live = TRUE], n)
      /\ [all EXCEPT ![n].status = "open", ![n].live = TRUE][n].path = all[n].path
  BY <1>2, <1>4, StartedDbs
<1>6. /\ db' = [all EXCEPT ![n].status = "open", ![n].live = TRUE]
      /\ dbs' = [i \in 1..n |-> i]
      /\ liveDbs' = <<n>>
      /\ disk' = Connected(disk, all[n].path)
  BY <1>5 DEF Restart, all, b
<1>7. Started(disk, b, db', n) /\ db'[n].path = all[n].path
  BY ONLY <1>5, <1>6
<1>8. /\ saver' \in Seq(Nat) /\ Len(saver') = b
      /\ \A c \in 1..b : saver'[c] = 0
  <2>1. DOMAIN saver = 1..b
    BY <1>2
  <2>2. saver' = [c \in 1..b |-> 0]
    BY <1>3, <2>1
  <2>3. [c \in 1..b |-> 0] \in Seq(Nat) /\ Len([c \in 1..b |-> 0]) = b
    BY <1>2, ZerosAreASeq
  <2>4. \A c \in 1..b : saver'[c] = 0
    BY <2>2
  <2> QED
    BY <2>2, <2>3, <2>4
<1>9. /\ dbs' \in Seq(Nat) /\ Len(dbs') = n /\ ToSet(dbs)' = 1..n /\ IsInjective(dbs)'
      /\ \A i, j \in 1..Len(dbs') : i < j => dbs'[i] < dbs'[j]
      /\ liveDbs' \in Seq(Nat) /\ ToSet(liveDbs)' = n..n /\ IsInjective(liveDbs)'
  BY <1>6, StartedLists
<1>10. /\ DOMAIN disk' = DOMAIN disk \cup {db'[n].path}
       /\ disk' \in [DOMAIN disk \cup {db'[n].path} -> SUBSET (1..b)]
  <2>1. disk' = Connected(disk, db'[n].path)
    BY <1>6, <1>7
  <2>2. PICK p : p = db'[n].path
    OBVIOUS
  <2>3. disk' = Connected(disk, p)
    BY <2>1, <2>2
  <2>4. /\ DOMAIN Connected(disk, p) = DOMAIN disk \cup {p}
        /\ Connected(disk, p) \in [DOMAIN disk \cup {p} -> SUBSET (1..b)]
    BY <1>2, ConnectedFiles
  <2> QED
    BY <2>2, <2>3, <2>4
<1>11. \A d \in 1..n : /\ db'[d] \in DbRecord
                       /\ db'[d].path \in Epochs
                       /\ db'[d].start \in Epochs
  <2>1. \A d \in 1..n : db'[d] \in DbRecord
    BY <1>7 DEF Started
  <2> QED
    BY <2>1 DEF DbRecord
<1>12. TypesOK'
  <2>1. DOMAIN disk' \subseteq {Elsewhere} \cup Epochs
    BY <1>2, <1>10, <1>11
  <2>2. disk' \in [DOMAIN disk' -> SUBSET (1..Len(chunks'))]
    BY <1>3, <1>10
  <2>3. db' \in Seq(DbRecord)
    BY <1>7 DEF Started
  <2>4. /\ now' \in 1..MaxTime /\ chunks' \in Seq(Span) /\ restarts' \in Nat
        /\ Len(saver') = Len(chunks')
    BY <1>2, <1>3, <1>8
  <2> QED
    BY <1>3, <1>8, <1>9, <2>1, <2>2, <2>3, <2>4 DEF TypesOK
<1>13. SizesOK'
  BY <1>3, <1>7 DEF SizesOK, Started
<1>14. StartsAscend'
  <2>1. \A f \in DOMAIN disk : f <= now + Ahead
    BY <1>1 DEF StartsAscend
  <2>2. \A d \in 1..n : db'[d].start <= now + Ahead
    BY <1>2, <1>7, <2>1 DEF Started
  <2>3. \A f \in DOMAIN disk' : f <= now + Ahead
    BY <1>7, <1>10, <2>1, <2>2 DEF Started
  <2> QED
    BY <1>3, <1>7, <2>2, <2>3 DEF StartsAscend, Started
<1>15. RenamesBack'
  <2>1. \A d \in 1..n : db'[d].start \in Nat /\ 0 < db'[d].start
    BY <1>2, <1>11 DEF Epochs
  <2> QED
    BY <1>7, <2>1 DEF RenamesBack, Started
<1>16. OpenHasFile'
  BY <1>7, <1>10 DEF OpenHasFile, IsOpen, Started
<1>17. ListsOK'
  BY <1>9 DEF ListsOK
<1>18. EpochsCover'
  BY <1>2, <1>3, <1>8 DEF EpochsCover
<1>19. LiveFrom(n)'
  BY <1>3, <1>7, <1>8, <1>9 DEF LiveFrom, IsOpen, Started
<1>20. ListInOrder(n)' /\ SavedKept(n)'
  BY <1>8, <1>9 DEF ListInOrder, SavedKept
<1> QED
  BY <1>12, <1>13, <1>14, <1>15, <1>16, <1>17, <1>18, <1>19, <1>20 DEF ArchiveInv

----------------------------------------------------------------------------
(* What a state is made of, and what a step that makes no database and     *)
(* saves no chunk keeps of it.                                             *)

LEMMA StateTypes ==
    ASSUME TypesOK
    PROVE  /\ now \in 1..MaxTime /\ now \in Nat /\ Ahead \in Nat /\ MaxTime \in Nat
           /\ Len(db) \in Nat /\ DOMAIN db = 1..Len(db)
           /\ db \in [1..Len(db) -> DbRecord]
           /\ Len(chunks) \in Nat /\ DOMAIN chunks = 1..Len(chunks)
           /\ Len(saver) = Len(chunks) /\ DOMAIN saver = 1..Len(chunks)
           /\ Len(dbs) \in Nat /\ DOMAIN dbs = 1..Len(dbs)
           /\ Len(liveDbs) \in Nat /\ DOMAIN liveDbs = 1..Len(liveDbs)
BY ArchiveAssumption DEF TypesOK

LEMMA RecordTypes ==
    ASSUME TypesOK, NEW d \in 1..Len(db)
    PROVE  /\ db[d] \in DbRecord
           /\ db[d].path \in Epochs /\ db[d].path \in Nat /\ 0 < db[d].path
           /\ db[d].start \in Nat /\ 0 < db[d].start
           /\ db[d].newStart \in Nat
           /\ db[d].newStart \in {Elsewhere} \cup Epochs
           /\ db[d].end \in Nat /\ db[d].end <= MaxTime
           /\ db[d].size \in Nat
           /\ db[d].status \in {"closed", "open", "removing"}
<1>1. db[d] \in DbRecord
  BY StateTypes
<1>2. Epochs \subseteq Nat /\ (\A e \in Epochs : 0 < e) /\ MaxTime \in Nat
  BY ArchiveAssumption DEF Epochs
<1>3. /\ db[d].path \in Epochs /\ db[d].start \in Epochs
      /\ db[d].newStart \in {Elsewhere} \cup Epochs
      /\ db[d].end \in 0..MaxTime /\ db[d].size \in Nat
      /\ db[d].status \in {"closed", "open", "removing"}
  <2>1. \A r \in DbRecord :
           /\ r.path \in Epochs /\ r.start \in Epochs
           /\ r.newStart \in {Elsewhere} \cup Epochs
           /\ r.end \in 0..MaxTime /\ r.size \in Nat
           /\ r.status \in {"closed", "open", "removing"}
    BY ONLY DEF DbRecord
  <2> QED
    BY ONLY <1>1, <2>1
<1>4. db[d].newStart \in Nat
  <2>1. \A x \in {Elsewhere} \cup Epochs : x \in Nat
    BY ONLY <1>2 DEF Elsewhere
  <2> QED
    BY ONLY <1>3, <2>1
<1>5. db[d].end \in Nat /\ db[d].end <= MaxTime
  <2>1. \A e \in 0..MaxTime : e \in Nat /\ e <= MaxTime
    BY <1>2
  <2> QED
    BY <1>3, <2>1
<1>6. /\ db[d].path \in Nat /\ 0 < db[d].path
      /\ db[d].start \in Nat /\ 0 < db[d].start
  BY <1>2, <1>3
<1> QED
  BY <1>1, <1>3, <1>4, <1>5, <1>6

\* The databases are the same but for their status.
SameButStatus ==
    /\ db' \in Seq(DbRecord)
    /\ Len(db') = Len(db)
    /\ \A d \in 1..Len(db) :
          /\ db'[d].path = db[d].path
          /\ db'[d].start = db[d].start
          /\ db'[d].newStart = db[d].newStart
          /\ db'[d].end = db[d].end
          /\ db'[d].named = db[d].named
          /\ db'[d].live = db[d].live
          /\ db'[d].size = db[d].size

LEMMA UnchangedDbs == TypesOK /\ db' = db => SameButStatus
BY DEF TypesOK, SameButStatus

LEMMA StatusChanges ==
    ASSUME TypesOK, NEW d \in 1..Len(db), NEW s \in {"closed", "open", "removing"},
           db' = [db EXCEPT ![d].status = s]
    PROVE  /\ SameButStatus
           /\ \A e \in 1..Len(db) : db'[e].status = IF e = d THEN s ELSE db[e].status
<1>1. db \in [1..Len(db) -> DbRecord] /\ Len(db) \in Nat
  BY StateTypes
<1>2. PICK n \in Nat : n = Len(db)
  BY <1>1
<1>3. \A e \in 1..n : /\ db[e] \in DbRecord
                      /\ db'[e] = IF e = d THEN [db[e] EXCEPT !.status = s] ELSE db[e]
  BY <1>1, <1>2
<1>4. ASSUME NEW e \in 1..n
      PROVE  /\ db'[e] \in DbRecord
             /\ db'[e].path = db[e].path
             /\ db'[e].start = db[e].start
             /\ db'[e].newStart = db[e].newStart
             /\ db'[e].end = db[e].end
             /\ db'[e].named = db[e].named
             /\ db'[e].live = db[e].live
             /\ db'[e].size = db[e].size
             /\ db'[e].status = IF e = d THEN s ELSE db[e].status
  <2>1. CASE e = d
    <3>1. db[e] \in DbRecord /\ db'[e] = [db[e] EXCEPT !.status = s]
      BY ONLY <1>3, <1>4, <2>1
    <3> QED
      BY ONLY <2>1, <3>1, s \in {"closed", "open", "removing"} DEF DbRecord
  <2>2. CASE e # d
    <3>1. db[e] \in DbRecord /\ db'[e] = db[e]
      BY ONLY <1>3, <1>4, <2>2
    <3> QED
      BY ONLY <2>2, <3>1
  <2> QED
    BY ONLY <2>1, <2>2
<1>5. DOMAIN db' = 1..n /\ db' = [e \in DOMAIN db' |-> db'[e]]
  BY <1>1, <1>2
<1>6. db' \in [1..n -> DbRecord]
  BY <1>4, <1>5
<1>7. db' \in Seq(DbRecord) /\ Len(db') = n
  BY ONLY <1>2, <1>6
<1> QED
  BY <1>2, <1>4, <1>7 DEF SameButStatus

LEMMA FrameKeeps ==
    ASSUME ArchiveInv, SameButStatus, chunks' = chunks, saver' = saver, now' = now,
           check' = check \/ check' # "rotate",
           \A f \in DOMAIN disk' : f <= now + Ahead
    PROVE  SizesOK' /\ StartsAscend' /\ RenamesBack' /\ EpochsCover'
<1>1. /\ TypesOK /\ SizesOK /\ StartsAscend /\ RenamesBack /\ EpochsCover
      /\ \E L \in Nat : LiveFrom(L)
  BY DEF ArchiveInv
<1>2. SizesOK'
  BY <1>1 DEF SizesOK, SameButStatus
<1>3. StartsAscend'
  BY <1>1 DEF StartsAscend, SameButStatus
<1>4. RenamesBack'
  BY <1>1 DEF RenamesBack, SameButStatus
<1>5. ASSUME NEW c \in DOMAIN chunks', saver'[c] # 0
      PROVE  /\ chunks'[c].last <= db'[saver'[c]].end
             /\ \/ db'[saver'[c]].start <= chunks'[c].first
                \/ db'[saver'[c]].newStart <= chunks'[c].first
  <2>1. c \in 1..Len(saver) /\ c \in DOMAIN chunks
    BY <1>1, <1>5, StateTypes
  <2>2. saver[c] \in 1..Len(db)
    BY <1>1, <1>5, <2>1, StateTypes DEF LiveFrom
  <2>3. /\ chunks[c].last <= db[saver[c]].end
        /\ \/ db[saver[c]].start <= chunks[c].first
           \/ db[saver[c]].newStart <= chunks[c].first
    BY <1>1, <1>5, <2>1 DEF EpochsCover
  <2> QED
    BY <2>2, <2>3 DEF SameButStatus
<1>6. EpochsCover'
  BY <1>5 DEF EpochsCover
<1> QED
  BY <1>2, <1>3, <1>4, <1>6

\* The clock, a part of the size check that does nothing, and Close.
LEMMA QuietStepsKeep ==
    ASSUME ArchiveInv, Tick \/ RotateNot \/ CapKeep \/ Close \/ UNCHANGED vars
    PROVE  ArchiveInv'
<1>1. /\ TypesOK /\ SizesOK /\ StartsAscend /\ RenamesBack /\ OpenHasFile
      /\ ListsOK /\ EpochsCover
  BY DEF ArchiveInv
<1>2. PICK L \in Nat : LiveFrom(L) /\ ListInOrder(L) /\ SavedKept(L)
  BY DEF ArchiveInv
<1>3. /\ disk' = disk /\ db' = db /\ dbs' = dbs /\ liveDbs' = liveDbs
      /\ chunks' = chunks /\ saver' = saver /\ restarts' = restarts
  BY DEF Tick, RotateNot, CapKeep, Close, vars, fileVars, dbVars, history
<1>4. /\ now' \in 1..MaxTime /\ check' \in {"wait", "rotate", "update", "cap"}
      /\ closed' \in BOOLEAN
      /\ \/ now' = now /\ (check' = check \/ check' # "rotate")
         \/ now' = now + 1
  <2>1. /\ now \in 1..MaxTime /\ MaxTime \in Nat /\ closed \in BOOLEAN
        /\ check \in {"wait", "rotate", "update", "cap"}
    BY <1>1, StateTypes DEF TypesOK
  <2>2. CASE Tick
    BY <2>1, <2>2 DEF Tick
  <2>3. CASE RotateNot \/ CapKeep \/ Close \/ UNCHANGED vars
    BY <2>1, <2>3 DEF RotateNot, CapKeep, Close, vars
  <2> QED
    BY <2>2, <2>3
<1>5. TypesOK'
  BY <1>1, <1>3, <1>4 DEF TypesOK
<1>6. SizesOK' /\ RenamesBack' /\ OpenHasFile' /\ ListsOK' /\ EpochsCover'
  BY <1>1, <1>3 DEF SizesOK, RenamesBack, OpenHasFile, ListsOK, EpochsCover, IsOpen
<1>7. StartsAscend'
  <2>1. ASSUME NEW x \in Nat, x <= now + Ahead
        PROVE  x <= now' + Ahead /\ (now' = now + 1 => x < now' + Ahead)
    BY <1>1, <1>4, <2>1, StateTypes
  <2>2. \A d \in 1..Len(db) : db[d].start \in Nat
    BY <1>1, RecordTypes
  <2>3. \A f \in DOMAIN disk : f \in Nat
    <3>1. DOMAIN disk \subseteq {Elsewhere} \cup Epochs
      BY ONLY <1>1 DEF TypesOK
    <3>2. {Elsewhere} \cup Epochs \subseteq Nat
      BY ONLY ArchiveAssumption DEF Elsewhere, Epochs
    <3> QED
      BY ONLY <3>1, <3>2
  <2>4. /\ \A d \in 1..Len(db) : /\ db[d].path = db[d].start
                                 /\ db[d].start <= now + Ahead
                                 /\ check = "rotate" => db[d].start < now + Ahead
        /\ \A d, e \in 1..Len(db) : d < e => db[d].start < db[e].start
        /\ \A f \in DOMAIN disk : f <= now + Ahead
    BY ONLY <1>1 DEF StartsAscend
  <2>5. \A f \in DOMAIN disk : f <= now' + Ahead
    BY ONLY <2>1, <2>3, <2>4
  <2>6. ASSUME NEW d \in 1..Len(db)
        PROVE  /\ db[d].start <= now' + Ahead
               /\ check' = "rotate" => db[d].start < now' + Ahead
    <3>1. db[d].start \in Nat /\ db[d].start <= now + Ahead
      BY ONLY <2>2, <2>4, <2>6
    <3>2. CASE now' = now + 1
      BY ONLY <2>1, <3>1, <3>2
    <3>3. CASE now' = now /\ (check' = check \/ check' # "rotate")
      BY ONLY <2>4, <2>6, <3>1, <3>3
    <3> QED
      BY ONLY <1>4, <3>2, <3>3
  <2> QED
    BY ONLY <1>3, <2>4, <2>5, <2>6 DEF StartsAscend
<1>8. \/ closed' = closed /\ closeLeft' = closeLeft
      \/ ~closed /\ closed' /\ closeLeft' = ToSet(dbs)
  BY DEF Tick, RotateNot, CapKeep, Close, vars
<1>9. LiveFrom(L)'
  BY <1>2, <1>3, <1>8 DEF LiveFrom, IsOpen
<1>10. ListInOrder(L)'
  BY <1>2, <1>3 DEF ListInOrder
<1>11. SavedKept(L)'
  <2>1. CASE closed' = closed /\ closeLeft' = closeLeft
    BY <1>2, <1>3, <2>1 DEF SavedKept, Kept
  <2>2. CASE ~closed
    <3>1. \A c \in 1..Len(saver) : saver[c] # 0 =>
             db[saver[c]].path \in DOMAIN disk /\ c \in disk[db[saver[c]].path]
      BY <1>2, <2>2 DEF SavedKept, Kept
    <3> QED
      BY <1>3, <3>1 DEF SavedKept, Kept
  <2> QED
    BY <1>8, <2>1, <2>2
<1> QED
  BY <1>5, <1>6, <1>7, <1>9, <1>10, <1>11 DEF ArchiveInv

----------------------------------------------------------------------------
(* The files of databases that are opened and closed.                      *)

\* Two databases have two files.
LEMMA PathsDiffer ==
    ASSUME TypesOK, StartsAscend, NEW d \in 1..Len(db), NEW e \in 1..Len(db), d # e
    PROVE  db[d].path # db[e].path /\ (d < e => db[d].path < db[e].path)
<1>1. /\ db[d].start \in Nat /\ db[e].start \in Nat
      /\ db[d].path = db[d].start /\ db[e].path = db[e].start
  BY RecordTypes DEF StartsAscend
<1>2. d < e \/ e < d
  BY StateTypes
<1>3. /\ d < e => db[d].start < db[e].start
      /\ e < d => db[e].start < db[d].start
  BY DEF StartsAscend
<1> QED
  BY <1>1, <1>2, <1>3

\* What is left of the files when d is closed: the files of the others, and
\* that of d under its name or, for a database with a directory, under an
\* earlier one.
ClosedFiles(d, F) ==
    /\ DOMAIN F \subseteq {Elsewhere} \cup Epochs
    /\ F \in [DOMAIN F -> SUBSET (1..Len(chunks))]
    /\ \A f \in DOMAIN F : f <= now + Ahead
    /\ \A e \in 1..Len(db) : e # d /\ db[e].path \in DOMAIN disk =>
          db[e].path \in DOMAIN F /\ F[db[e].path] = disk[db[e].path]
    /\ db[d].named /\ db[d].path \in DOMAIN disk =>
          \/ db[d].path \in DOMAIN F /\ F[db[d].path] = disk[db[d].path]
          \/ \E f \in DOMAIN F : /\ 0 < f /\ f < db[d].start
                                 /\ F[f] = disk[db[d].path]
    /\ ~IsOpen(d) => F = disk

LEMMA AfterCloseFiles ==
    ASSUME ArchiveInv, NEW L \in Nat, LiveFrom(L), NEW d \in 1..L
    PROVE  ClosedFiles(d, AfterClose(d))
<1>1. /\ TypesOK /\ StartsAscend /\ RenamesBack /\ OpenHasFile
      /\ d \in 1..Len(db)
  <2>1. L \in 1..Len(db) /\ Len(db) \in Nat
    BY StateTypes DEF ArchiveInv, LiveFrom
  <2> QED
    BY <2>1 DEF ArchiveInv
<1>2. CASE AfterClose(d) = disk
  <2>1. /\ DOMAIN disk \subseteq {Elsewhere} \cup Epochs
        /\ disk \in [DOMAIN disk -> SUBSET (1..Len(chunks))]
        /\ \A f \in DOMAIN disk : f <= now + Ahead
    BY <1>1 DEF TypesOK, StartsAscend
  <2> QED
    BY <1>2, <2>1 DEF ClosedFiles
<1>3. CASE IsOpen(d) /\ db[d].newStart < db[d].start
  <2> DEFINE p == db[d].path
             q == IF db[d].named THEN db[d].newStart ELSE Elsewhere
             F == Renamed(disk, p, q)
  <2>1. AfterClose(d) = F
    BY <1>3 DEF AfterClose
  <2>2. p \in DOMAIN disk /\ p = db[d].start /\ p \in Nat /\ 0 < p
    BY <1>1, <1>3, RecordTypes DEF OpenHasFile, StartsAscend
  <2>3. q \in {Elsewhere} \cup Epochs /\ q \in Nat /\ q < p
    BY <1>1, <1>3, <2>2, RecordTypes DEF Elsewhere
  <2>4. db[d].named => 0 < q /\ d = L /\ L = 1
    <3>1. db[d].named => 0 < q
      BY <1>1 DEF RenamesBack
    <3>2. d < L => ~db[d].named
      BY <1>1 DEF LiveFrom
    <3>3. db[L].named => L = 1
      BY DEF LiveFrom
    <3> QED
      BY <3>1, <3>2, <3>3
  <2> HIDE DEF p, q
  <2>5. /\ DOMAIN F = (DOMAIN disk \ {p}) \cup {q}
        /\ F \in [DOMAIN F -> SUBSET (1..Len(chunks))]
        /\ F[q] = disk[p]
        /\ \A f \in DOMAIN disk \ {p, q} : F[f] = disk[f]
    <3>1. disk \in [DOMAIN disk -> SUBSET (1..Len(chunks))]
      BY <1>1 DEF TypesOK
    <3>2. p \in DOMAIN disk /\ F = Renamed(disk, p, q)
      BY <2>2
    <3>3. PICK b \in Nat : b = Len(chunks)
      BY <1>1, StateTypes
    <3> HIDE DEF F
    <3>4. /\ DOMAIN F = (DOMAIN disk \ {p}) \cup {q}
          /\ F \in [DOMAIN F -> SUBSET (1..b)]
          /\ F[q] = disk[p]
          /\ \A f \in DOMAIN disk \ {p, q} : F[f] = disk[f]
      <4>1. disk \in [DOMAIN disk -> SUBSET (1..b)]
        BY <3>1, <3>3
      <4> QED
        BY ONLY <3>2, <4>1, b \in Nat DEF Renamed
    <3> QED
      BY <3>3, <3>4
  <2> HIDE DEF F
  <2>6. DOMAIN F \subseteq {Elsewhere} \cup Epochs
    BY <1>1, <2>3, <2>5 DEF TypesOK
  <2>7. \A f \in DOMAIN F : f <= now + Ahead
    <3>1. p <= now + Ahead /\ now \in Nat /\ Ahead \in Nat
      BY <1>1, <2>2, StateTypes DEF StartsAscend
    <3>2. q <= now + Ahead
      BY <2>2, <2>3, <3>1
    <3> QED
      BY <1>1, <2>5, <3>2 DEF StartsAscend
  <2>8. ASSUME NEW e \in 1..Len(db), e # d, db[e].path \in DOMAIN disk
        PROVE  db[e].path \in DOMAIN F /\ F[db[e].path] = disk[db[e].path]
    <3>1. db[e].path # p
      BY <1>1, <2>8, PathsDiffer DEF p
    <3>2. db[e].path # q
      <4>1. CASE db[d].named
        <5>1. d < e
          BY <1>1, <2>4, <2>8, <4>1, StateTypes
        <5>2. p < db[e].path
          BY <1>1, <2>8, <5>1, PathsDiffer DEF p
        <5>3. db[e].path \in Nat
          BY <1>1, RecordTypes
        <5> QED
          BY <2>2, <2>3, <5>2, <5>3
      <4>2. CASE ~db[d].named
        <5>1. q = 0
          BY <4>2 DEF q, Elsewhere
        <5>2. 0 < db[e].path
          BY <1>1, RecordTypes
        <5> QED
          BY <5>1, <5>2
      <4> QED
        BY <4>1, <4>2
    <3> QED
      BY <2>5, <2>8, <3>1, <3>2
  <2>9. db[d].named =>
           \E f \in DOMAIN F : 0 < f /\ f < db[d].start /\ F[f] = disk[db[d].path]
    <3>1. q \in DOMAIN F
      BY <2>5
    <3> QED
      BY <2>2, <2>3, <2>4, <2>5, <3>1 DEF p
  <2>10. ClosedFiles(d, F)
    BY <1>3, <2>5, <2>6, <2>7, <2>8, <2>9 DEF ClosedFiles
  <2> QED
    BY <2>1, <2>10
<1>4. ~(IsOpen(d) /\ db[d].newStart < db[d].start) => AfterClose(d) = disk
  BY DEF AfterClose
<1> QED
  BY <1>2, <1>3, <1>4

\* Closing d loses nothing that is claimed of the saved chunks: before Close it
\* is not the live one, and in Close the live one is claimed for by its name.
LEMMA CloseKeepsSaved ==
    ASSUME ArchiveInv, NEW L \in Nat, LiveFrom(L), SavedKept(L),
           NEW d \in 1..L, ClosedFiles(d, disk'),
           d = L => closed /\ L \in closeLeft /\ L \notin closeLeft',
           SameButStatus, saver' = saver, closed' = closed
    PROVE  SavedKept(L)'
<1>1. TypesOK /\ StartsAscend /\ L \in 1..Len(db) /\ Len(db) \in Nat
  BY StateTypes DEF ArchiveInv, LiveFrom
<1>2. SUFFICES ASSUME NEW c \in 1..Len(saver), saver[c] # 0,
                      closed => db'[saver[c]].named
               PROVE  Kept(L, c)'
  BY DEF SavedKept
<1>3. PICK e \in L..Len(db) : saver[c] = e
  BY <1>2 DEF LiveFrom
<1>4. /\ e \in 1..Len(db)
      /\ db'[e].path = db[e].path /\ db'[e].named = db[e].named
      /\ db'[L].start = db[L].start
  BY <1>1, <1>3 DEF SameButStatus
<1>5. Kept(L, c)
  BY <1>2, <1>3, <1>4 DEF SavedKept
<1>6. CASE d # L
  <2>1. d < L /\ e # d
    BY <1>1, <1>3, <1>6
  <2>2. ~(e = L /\ closed)
    <3>1. SUFFICES ASSUME e = L, closed PROVE FALSE
      OBVIOUS
    <3>2. db[L].named
      BY <1>2, <1>3, <1>4, <3>1
    <3>3. L = 1
      BY <3>2 DEF LiveFrom
    <3> QED
      BY <2>1, <3>3
  <2>3. db[e].path \in DOMAIN disk /\ c \in disk[db[e].path]
    BY <1>3, <1>5, <2>2 DEF Kept
  <2>4. db[e].path \in DOMAIN disk' /\ c \in disk'[db[e].path]
    BY <1>4, <2>1, <2>3 DEF ClosedFiles
  <2> QED
    BY <1>3, <1>4, <2>4 DEF Kept
<1>7. CASE d = L
  <2>1. /\ closed /\ closed' /\ L \in closeLeft /\ L \notin closeLeft'
        /\ db[e].named
    BY <1>2, <1>3, <1>4, <1>7
  <2>2. db[e].path \in DOMAIN disk /\ c \in disk[db[e].path]
    BY <1>3, <1>5, <2>1 DEF Kept
  <2>3. CASE e # L
    <3>1. db[e].path \in DOMAIN disk' /\ c \in disk'[db[e].path]
      BY <1>4, <1>7, <2>2, <2>3 DEF ClosedFiles
    <3> QED
      BY <1>3, <1>4, <3>1 DEF Kept
  <2>4. CASE e = L
    <3>1. \/ db[L].path \in DOMAIN disk' /\ c \in disk'[db[L].path]
          \/ \E f \in DOMAIN disk' : 0 < f /\ f < db[L].start /\ c \in disk'[f]
      BY <1>7, <2>1, <2>2, <2>4 DEF ClosedFiles
    <3> QED
      BY <1>3, <1>4, <2>1, <2>4, <3>1 DEF Kept
  <2> QED
    BY <2>3, <2>4
<1> QED
  BY <1>6, <1>7

\* The scheduler opens a database; its file is there then.
LEMMA OpenForTaskKeeps ==
    ASSUME ArchiveInv, NEW d \in DOMAIN db, OpenForTask(d)
    PROVE  ArchiveInv'
<1>1. /\ TypesOK /\ SizesOK /\ StartsAscend /\ RenamesBack /\ OpenHasFile
      /\ ListsOK /\ EpochsCover
  BY DEF ArchiveInv
<1>2. PICK L \in Nat : LiveFrom(L) /\ ListInOrder(L) /\ SavedKept(L)
  BY DEF ArchiveInv
<1>3. /\ d \in ToSet(dbs) /\ d \in 1..Len(db) /\ db[d].status = "closed"
      /\ db' = [db EXCEPT ![d].status = "open"]
      /\ disk' = Connected(disk, db[d].path)
      /\ now' = now /\ dbs' = dbs /\ liveDbs' = liveDbs /\ check' = check
      /\ closeLeft' = closeLeft /\ closed' = closed /\ chunks' = chunks
      /\ saver' = saver /\ restarts' = restarts
  BY <1>1, StateTypes DEF OpenForTask, history
<1>4. /\ SameButStatus
      /\ \A e \in 1..Len(db) : db'[e].status = IF e = d THEN "open" ELSE db[e].status
  BY <1>1, <1>3, StatusChanges
<1>5. PICK b \in Nat : b = Len(chunks)
  BY <1>1, StateTypes
<1>6. PICK p : p = db[d].path
  OBVIOUS
<1>7. p \in Epochs /\ p <= now + Ahead
  BY <1>1, <1>3, <1>6, RecordTypes DEF StartsAscend
<1>8. /\ DOMAIN disk' = DOMAIN disk \cup {p}
      /\ disk' \in [DOMAIN disk \cup {p} -> SUBSET (1..b)]
      /\ \A f \in DOMAIN disk : disk'[f] = disk[f]
  <2>1. disk \in [DOMAIN disk -> SUBSET (1..b)] /\ disk' = Connected(disk, p)
    BY <1>1, <1>3, <1>5, <1>6 DEF TypesOK
  <2> QED
    BY ONLY <2>1, b \in Nat DEF Connected
<1>9. TypesOK'
  <2>1. DOMAIN disk' \subseteq {Elsewhere} \cup Epochs
    BY <1>1, <1>7, <1>8 DEF TypesOK
  <2>2. disk' \in [DOMAIN disk' -> SUBSET (1..Len(chunks'))]
    BY <1>3, <1>5, <1>8
  <2>3. db' \in Seq(DbRecord)
    BY <1>4 DEF SameButStatus
  <2> QED
    BY <1>1, <1>3, <2>1, <2>2, <2>3 DEF TypesOK
<1>10. SizesOK' /\ StartsAscend' /\ RenamesBack' /\ EpochsCover'
  <2>1. \A f \in DOMAIN disk' : f <= now + Ahead
    BY <1>1, <1>7, <1>8 DEF StartsAscend
  <2> QED
    BY <1>3, <1>4, <2>1, FrameKeeps
<1>11. OpenHasFile'
  BY <1>1, <1>4, <1>6, <1>8 DEF OpenHasFile, IsOpen, SameButStatus
<1>12. ListsOK' /\ ListInOrder(L)'
  BY <1>1, <1>2, <1>3 DEF ListsOK, ListInOrder
<1>13. LiveFrom(L)'
  BY <1>2, <1>3, <1>4 DEF LiveFrom, IsOpen, SameButStatus
<1>14. SavedKept(L)'
  <2>1. SUFFICES ASSUME NEW c \in 1..Len(saver), saver[c] # 0,
                        closed => db'[saver[c]].named
                 PROVE  Kept(L, c)'
    BY <1>3 DEF SavedKept
  <2>2. saver[c] \in 1..Len(db) /\ L \in 1..Len(db)
    BY <1>1, <1>2, <2>1, StateTypes DEF LiveFrom
  <2>3. Kept(L, c)
    BY <1>2, <1>4, <2>1, <2>2 DEF SavedKept, SameButStatus
  <2> QED
    BY <1>3, <1>4, <1>8, <2>2, <2>3 DEF Kept, SameButStatus
<1> QED
  BY <1>9, <1>10, <1>11, <1>12, <1>13, <1>14 DEF ArchiveInv

\* What closing or removing d leaves of the files, when it is not open after.
LEMMA CloseKeepsFiles ==
    ASSUME ArchiveInv, NEW L \in Nat, LiveFrom(L), NEW d \in 1..L,
           ClosedFiles(d, disk'), SameButStatus,
           NEW s \in {"closed", "open", "removing"},
           \A e \in 1..Len(db) : db'[e].status = IF e = d THEN s ELSE db[e].status,
           s # "open"
    PROVE  OpenHasFile'
<1>1. OpenHasFile
  BY DEF ArchiveInv
<1>2. ASSUME NEW e \in 1..Len(db), db'[e].status = "open"
      PROVE  db'[e].path \in DOMAIN disk'
  <2>1. e # d /\ db[e].status = "open"
    BY <1>2
  <2>2. db[e].path \in DOMAIN disk
    BY <1>1, <2>1 DEF OpenHasFile, IsOpen
  <2> QED
    BY <2>1, <2>2 DEF ClosedFiles, SameButStatus
<1> QED
  BY <1>2 DEF OpenHasFile, IsOpen, SameButStatus

\* The sorted list begins with the live database, if something was flushed to
\* it, or has the starts in order.
LEMMA SortedInOrder ==
    ASSUME ArchiveInv, NEW L \in Nat, LiveFrom(L), dbs' = SortDbs(dbs)
    PROVE  /\ dbs' \in Seq(Nat) /\ ToSet(dbs') = ToSet(dbs) /\ IsInjective(dbs')
           /\ ListInOrder(L)'
<1>1. TypesOK /\ ListsOK /\ StartsAscend
  BY DEF ArchiveInv
<1>2. PICK n \in Nat : n = Len(db)
  BY <1>1, StateTypes
<1>3. /\ db \in [1..n -> DbRecord] /\ dbs \in Seq(Nat) /\ IsInjective(dbs)
      /\ L \in 1..n /\ ToSet(dbs) \subseteq 1..L /\ L \in ToSet(dbs)
  BY <1>1, <1>2, StateTypes DEF TypesOK, ListsOK, LiveFrom
<1>4. ToSet(dbs) \subseteq 1..n
  BY <1>2, <1>3
<1>5. PICK z \in Nat : z = Len(dbs)
  BY <1>1, StateTypes
<1>6. /\ dbs' \in Seq(Nat) /\ Len(dbs') = z
      /\ ToSet(dbs') = ToSet(dbs) /\ IsInjective(dbs')
      /\ \A k, m \in 1..z : k < m => ~ComesFirst(db[dbs'[m]], db[dbs'[k]])
  BY ONLY <1>3, <1>4, <1>5, n \in Nat, dbs' = SortDbs(dbs), SortDbsSorts
<1>7. /\ DOMAIN dbs' = 1..z
      /\ \A k \in 1..z : dbs'[k] \in 1..L
      /\ \A k, m \in 1..z : dbs'[k] = dbs'[m] => k = m
      /\ \E k \in 1..z : dbs'[k] = L
  <2>1. DOMAIN dbs' = 1..z
    BY ONLY <1>6, LenProperties
  <2>2. \A k \in 1..z : dbs'[k] \in ToSet(dbs')
    BY ONLY <2>1 DEF ToSet
  <2>3. \E k \in 1..z : dbs'[k] = L
    BY ONLY <1>3, <1>6, <2>1 DEF ToSet
  <2>4. \A k, m \in 1..z : dbs'[k] = dbs'[m] => k = m
    BY ONLY <1>6, <2>1 DEF IsInjective
  <2> QED
    BY <1>3, <1>6, <2>1, <2>2, <2>3, <2>4
<1>8. ASSUME dbs'[1] # L, NEW i \in 1..z, NEW j \in 1..z, i < j
      PROVE  dbs'[i] < dbs'[j]
  <2>1. PICK k \in 1..z : dbs'[k] = L
    BY <1>7
  <2>2. 1 \in 1..z /\ 1 < k
    BY <1>5, <1>8, <2>1
  <2>3. \A m \in 1..z : m # k => db[dbs'[m]].end = 0
    <3>1. ASSUME NEW m \in 1..z, m # k PROVE db[dbs'[m]].end = 0
      <4>1. dbs'[m] # L
        BY <1>7, <2>1, <3>1
      <4>2. dbs'[m] \in 1..n /\ dbs'[m] < L
        BY <1>3, <1>7, <4>1
      <4> QED
        BY <1>2, <4>2 DEF LiveFrom
    <3> QED
      BY <3>1
  <2>4. ~ComesFirst(db[L], db[dbs'[1]])
    BY <1>6, <2>1, <2>2
  <2>5. db[dbs'[1]].end = 0
    BY <2>2, <2>3
  <2>6. db[L].end \in Nat
    BY <1>1, <1>2, <1>3, RecordTypes
  <2>7. db[L].end = 0
    BY <2>4, <2>5, <2>6 DEF ComesFirst
  <2>8. db[dbs'[i]].end = 0 /\ db[dbs'[j]].end = 0
    BY <2>1, <2>3, <2>7
  <2>9. ~ComesFirst(db[dbs'[j]], db[dbs'[i]])
    BY <1>6, <1>8
  <2>10. ~(db[dbs'[j]].start < db[dbs'[i]].start)
    BY <2>8, <2>9 DEF ComesFirst
  <2>11. dbs'[i] \in 1..n /\ dbs'[j] \in 1..n /\ dbs'[i] # dbs'[j]
    BY <1>3, <1>7, <1>8
  <2>12. ~(dbs'[j] < dbs'[i])
    BY <1>1, <1>2, <2>10, <2>11 DEF StartsAscend
  <2> QED
    BY <2>11, <2>12
<1>9. ListInOrder(L)'
  BY <1>6, <1>8 DEF ListInOrder
<1> QED
  BY <1>6, <1>9

LEMMA CloseIdleKeeps ==
    ASSUME ArchiveInv, NEW d \in DOMAIN db, CloseIdle(d)
    PROVE  ArchiveInv'
<1>1. /\ TypesOK /\ SizesOK /\ StartsAscend /\ RenamesBack /\ OpenHasFile
      /\ ListsOK /\ EpochsCover
  BY DEF ArchiveInv
<1>2. PICK L \in Nat : LiveFrom(L) /\ ListInOrder(L) /\ SavedKept(L)
  BY DEF ArchiveInv
<1>3. /\ d \in ToSet(dbs) /\ d \in 1..Len(db) /\ ~db[d].live
      /\ db' = [db EXCEPT ![d].status = "closed"]
      /\ disk' = AfterClose(d)
      /\ now' = now /\ dbs' = SortDbs(dbs) /\ liveDbs' = SortDbs(liveDbs)
      /\ check' = check /\ closeLeft' = closeLeft /\ closed' = closed
      /\ chunks' = chunks /\ saver' = saver /\ restarts' = restarts
  BY <1>1, StateTypes DEF CloseIdle, CloseAndSort, history
<1>4. /\ SameButStatus
      /\ \A e \in 1..Len(db) : db'[e].status = IF e = d THEN "closed" ELSE db[e].status
  BY <1>1, <1>3, StatusChanges
<1>5. /\ d \in 1..L /\ d # L /\ L \in 1..Len(db) /\ Len(db) \in Nat
  BY <1>1, <1>2, <1>3, StateTypes DEF LiveFrom
<1>6. ClosedFiles(d, disk')
  BY <1>2, <1>3, <1>5, AfterCloseFiles
<1>7. /\ dbs' \in Seq(Nat) /\ ToSet(dbs') = ToSet(dbs) /\ IsInjective(dbs')
      /\ ListInOrder(L)'
  BY <1>2, <1>3, SortedInOrder
<1>8. liveDbs' \in Seq(Nat) /\ ToSet(liveDbs') = ToSet(liveDbs) /\ IsInjective(liveDbs')
  <2>1. PICK n \in Nat : n = Len(db)
    BY <1>5
  <2>2. /\ db \in [1..n -> DbRecord] /\ liveDbs \in Seq(Nat) /\ IsInjective(liveDbs)
        /\ ToSet(liveDbs) \subseteq 1..n
    BY <1>1, <1>2, <1>5, <2>1, StateTypes DEF TypesOK, ListsOK, LiveFrom
  <2> QED
    BY ONLY <1>3, <2>2, n \in Nat, SortDbsSorts
<1>9. TypesOK'
  <2>1. /\ DOMAIN disk' \subseteq {Elsewhere} \cup Epochs
        /\ disk' \in [DOMAIN disk' -> SUBSET (1..Len(chunks'))]
    BY <1>3, <1>6 DEF ClosedFiles
  <2>2. db' \in Seq(DbRecord)
    BY <1>4 DEF SameButStatus
  <2> QED
    BY <1>1, <1>3, <1>7, <1>8, <2>1, <2>2 DEF TypesOK
<1>10. SizesOK' /\ StartsAscend' /\ RenamesBack' /\ EpochsCover'
  <2>1. \A f \in DOMAIN disk' : f <= now + Ahead
    BY <1>6 DEF ClosedFiles
  <2> QED
    BY <1>3, <1>4, <2>1, FrameKeeps
<1>11. OpenHasFile'
  BY <1>2, <1>4, <1>5, <1>6, CloseKeepsFiles
<1>12. ListsOK'
  BY <1>7, <1>8 DEF ListsOK
<1>13. LiveFrom(L)'
  <2>1. ToSet(liveDbs)' = ToSet(liveDbs) /\ ToSet(dbs)' = ToSet(dbs)
    BY <1>7, <1>8
  <2> QED
    BY <1>2, <1>3, <1>4, <1>5, <2>1 DEF LiveFrom, IsOpen, SameButStatus
<1>14. SavedKept(L)'
  BY <1>2, <1>3, <1>4, <1>5, <1>6, CloseKeepsSaved
<1> QED
  BY <1>7, <1>9, <1>10, <1>11, <1>12, <1>13, <1>14 DEF ArchiveInv

LEMMA CloseOneKeeps ==
    ASSUME ArchiveInv, NEW d \in DOMAIN db, CloseOne(d)
    PROVE  ArchiveInv'
<1>1. /\ TypesOK /\ SizesOK /\ StartsAscend /\ RenamesBack /\ OpenHasFile
      /\ ListsOK /\ EpochsCover
  BY DEF ArchiveInv
<1>2. PICK L \in Nat : LiveFrom(L) /\ ListInOrder(L) /\ SavedKept(L)
  BY DEF ArchiveInv
<1>3. /\ d \in closeLeft /\ closeLeft' = closeLeft \ {d}
      /\ d \in 1..Len(db)
      /\ db' = IF IsOpen(d) THEN [db EXCEPT ![d].status = "closed"] ELSE db
      /\ disk' = AfterClose(d)
      /\ now' = now /\ dbs' = dbs /\ liveDbs' = liveDbs
      /\ check' = check /\ closed' = closed
      /\ chunks' = chunks /\ saver' = saver /\ restarts' = restarts
  BY <1>1, StateTypes DEF CloseOne, history
<1>4. PICK s : s = IF IsOpen(d) THEN "closed" ELSE db[d].status
  OBVIOUS
<1>5. s \in {"closed", "open", "removing"} /\ s # "open"
  BY <1>1, <1>3, <1>4, RecordTypes DEF IsOpen
<1>6. /\ SameButStatus
      /\ \A e \in 1..Len(db) : db'[e].status = IF e = d THEN s ELSE db[e].status
  <2>1. CASE IsOpen(d)
    <3>1. s = "closed" /\ db' = [db EXCEPT ![d].status = "closed"]
      BY <1>3, <1>4, <2>1
    <3>2. "closed" \in {"closed", "open", "removing"}
      OBVIOUS
    <3>3. /\ SameButStatus
          /\ \A e \in 1..Len(db) :
                db'[e].status = IF e = d THEN "closed" ELSE db[e].status
      BY ONLY <1>1, <1>3, <3>1, <3>2, StatusChanges
    <3> QED
      BY ONLY <3>1, <3>3
  <2>2. CASE ~IsOpen(d)
    <3>1. db' = db /\ s = db[d].status
      BY <1>3, <1>4, <2>2
    <3>2. SameButStatus
      BY ONLY <1>1, <3>1, UnchangedDbs
    <3> QED
      BY ONLY <3>1, <3>2
  <2> QED
    BY <2>1, <2>2
<1>7. d \in 1..L /\ L \in 1..Len(db) /\ Len(db) \in Nat /\ closed
  BY <1>1, <1>2, <1>3, StateTypes DEF LiveFrom
<1>8. ClosedFiles(d, disk')
  BY <1>2, <1>3, <1>7, AfterCloseFiles
<1>9. TypesOK'
  <2>1. /\ DOMAIN disk' \subseteq {Elsewhere} \cup Epochs
        /\ disk' \in [DOMAIN disk' -> SUBSET (1..Len(chunks'))]
    BY <1>3, <1>8 DEF ClosedFiles
  <2>2. db' \in Seq(DbRecord)
    BY <1>6 DEF SameButStatus
  <2> QED
    BY <1>1, <1>3, <2>1, <2>2 DEF TypesOK
<1>10. SizesOK' /\ StartsAscend' /\ RenamesBack' /\ EpochsCover'
  <2>1. \A f \in DOMAIN disk' : f <= now + Ahead
    BY <1>8 DEF ClosedFiles
  <2> QED
    BY <1>3, <1>6, <2>1, FrameKeeps
<1>11. OpenHasFile'
  BY <1>2, <1>5, <1>6, <1>7, <1>8, CloseKeepsFiles
<1>12. ListsOK' /\ ListInOrder(L)'
  BY <1>1, <1>2, <1>3 DEF ListsOK, ListInOrder
<1>13. LiveFrom(L)'
  BY <1>2, <1>3, <1>5, <1>6, <1>7, <1>4 DEF LiveFrom, IsOpen, SameButStatus
<1>14. SavedKept(L)'
  BY <1>2, <1>3, <1>6, <1>7, <1>8, CloseKeepsSaved
<1> QED
  BY <1>9, <1>10, <1>11, <1>12, <1>13, <1>14 DEF ArchiveInv

\* The size cap takes the first of the list, which is not the live one.
LEMMA TailOfList ==
    ASSUME ArchiveInv, NEW L \in Nat, LiveFrom(L), ListInOrder(L), dbs[1] # L,
           dbs' = Tail(dbs)
    PROVE  /\ dbs[1] \in 1..L
           /\ dbs' \in Seq(Nat) /\ IsInjective(dbs')
           /\ L \in ToSet(dbs') /\ ToSet(dbs') \subseteq 1..L
           /\ ListInOrder(L)'
<1>1. TypesOK /\ ListsOK
  BY DEF ArchiveInv
<1>2. PICK z \in Nat : z = Len(dbs)
  BY <1>1, StateTypes
<1>3. /\ dbs \in Seq(Nat) /\ DOMAIN dbs = 1..z
      /\ \A k, m \in 1..z : dbs[k] = dbs[m] => k = m
      /\ \A k \in 1..z : dbs[k] \in 1..L
      /\ \E k \in 1..z : dbs[k] = L
  BY <1>1, <1>2, StateTypes DEF TypesOK, ListsOK, IsInjective, LiveFrom, ToSet
<1>4. dbs # <<>> /\ 1 \in 1..z
  BY <1>2, <1>3
<1>5. /\ dbs' \in Seq(Nat) /\ Len(dbs') = z - 1
      /\ \A k \in 1..(z - 1) : dbs'[k] = dbs[k + 1]
  BY ONLY <1>2, <1>3, <1>4, dbs' = Tail(dbs), HeadTailProperties
<1>6. /\ DOMAIN dbs' = 1..(z - 1)
      /\ \A k \in 1..(z - 1) : k + 1 \in 1..z
  BY <1>5, LenProperties
<1>7. IsInjective(dbs')
  <2>1. ASSUME NEW k \in 1..(z - 1), NEW m \in 1..(z - 1), dbs'[k] = dbs'[m]
        PROVE  k = m
    <3>1. k + 1 = m + 1
      BY <1>3, <1>5, <1>6, <2>1
    <3> QED
      BY <3>1
  <2> QED
    BY <1>6, <2>1 DEF IsInjective
<1>8. ToSet(dbs') \subseteq 1..L
  BY <1>3, <1>5, <1>6 DEF ToSet
<1>9. L \in ToSet(dbs')
  <2>1. PICK k \in 1..z : dbs[k] = L
    BY <1>3
  <2>2. k - 1 \in 1..(z - 1) /\ (k - 1) + 1 = k
    BY <2>1
  <2>3. dbs'[k - 1] = L
    BY <1>5, <2>1, <2>2
  <2> QED
    BY <1>6, <2>2, <2>3 DEF ToSet
<1>10. ASSUME NEW i \in 1..Len(dbs'), NEW j \in 1..Len(dbs'), i < j
       PROVE  dbs'[i] < dbs'[j]
  <2>1. \A k, m \in 1..z : k < m => dbs[k] < dbs[m]
    BY <1>2 DEF ListInOrder
  <2>2. i + 1 \in 1..z /\ j + 1 \in 1..z /\ i + 1 < j + 1
    BY <1>5, <1>6, <1>10
  <2>3. dbs[i + 1] < dbs[j + 1]
    BY <2>1, <2>2
  <2> QED
    BY <1>5, <1>10, <2>3
<1> QED
  BY <1>3, <1>4, <1>5, <1>7, <1>8, <1>9, <1>10 DEF ListInOrder

LEMMA CapForgetKeeps == ArchiveInv /\ CapForget => ArchiveInv'
<1> SUFFICES ASSUME ArchiveInv, CapForget PROVE ArchiveInv'
  OBVIOUS
<1>1. /\ TypesOK /\ SizesOK /\ StartsAscend /\ RenamesBack /\ OpenHasFile
      /\ ListsOK /\ EpochsCover
  BY DEF ArchiveInv
<1>2. PICK L \in Nat : LiveFrom(L) /\ ListInOrder(L) /\ SavedKept(L)
  BY DEF ArchiveInv
<1>3. /\ ~db[dbs[1]].live /\ dbs' = Tail(dbs) /\ check' = "wait"
      /\ disk' = disk /\ db' = db /\ liveDbs' = liveDbs /\ closeLeft' = closeLeft
      /\ closed' = closed /\ now' = now
      /\ chunks' = chunks /\ saver' = saver /\ restarts' = restarts
  BY DEF CapForget, TooMuch, fileVars, history
<1>4. dbs[1] # L
  BY <1>2, <1>3 DEF LiveFrom
<1>5. /\ dbs' \in Seq(Nat) /\ IsInjective(dbs')
      /\ L \in ToSet(dbs') /\ ToSet(dbs') \subseteq 1..L
      /\ ListInOrder(L)'
  BY <1>2, <1>3, <1>4, TailOfList
<1>6. TypesOK'
  BY <1>1, <1>3, <1>5 DEF TypesOK
<1>7. SizesOK' /\ StartsAscend' /\ RenamesBack' /\ EpochsCover' /\ OpenHasFile'
  BY <1>1, <1>3 DEF SizesOK, StartsAscend, RenamesBack, EpochsCover, OpenHasFile, IsOpen
<1>8. ListsOK' /\ LiveFrom(L)' /\ SavedKept(L)'
  BY <1>1, <1>2, <1>3, <1>5 DEF ListsOK, LiveFrom, IsOpen, SavedKept, Kept
<1> QED
  BY <1>5, <1>6, <1>7, <1>8 DEF ArchiveInv

LEMMA CapRemoveKeeps == ArchiveInv /\ CapRemove => ArchiveInv'
<1> SUFFICES ASSUME ArchiveInv, CapRemove PROVE ArchiveInv'
  OBVIOUS
<1>1. /\ TypesOK /\ SizesOK /\ StartsAscend /\ RenamesBack /\ OpenHasFile
      /\ ListsOK /\ EpochsCover
  BY DEF ArchiveInv
<1>2. PICK L \in Nat : LiveFrom(L) /\ ListInOrder(L) /\ SavedKept(L)
  BY DEF ArchiveInv
<1>3. PICK d : d = dbs[1]
  OBVIOUS
<1>4. /\ ~db[d].live /\ dbs' = Tail(dbs) /\ check' = "wait"
      /\ db' = [db EXCEPT ![d].status = "removing"]
      /\ liveDbs' = liveDbs /\ closeLeft' = closeLeft
      /\ closed' = closed /\ now' = now
      /\ chunks' = chunks /\ saver' = saver /\ restarts' = restarts
  BY <1>3 DEF CapRemove, TooMuch, history
<1>5. \/ disk' = AfterClose(d)
      \/ disk' = Without(AfterClose(d), db[d].path)
  BY <1>3 DEF CapRemove
<1>6. d # L /\ L \in 1..Len(db) /\ Len(db) \in Nat
  BY <1>1, <1>2, <1>4, StateTypes DEF LiveFrom
<1>7. /\ d \in 1..L
      /\ dbs' \in Seq(Nat) /\ IsInjective(dbs')
      /\ L \in ToSet(dbs') /\ ToSet(dbs') \subseteq 1..L
      /\ ListInOrder(L)'
  BY <1>2, <1>3, <1>4, <1>6, TailOfList
<1>8. d \in 1..Len(db) /\ d < L /\ ~db[d].named
  <2>1. d \in 1..Len(db) /\ d < L
    BY <1>6, <1>7
  <2> QED
    BY <1>2, <2>1 DEF LiveFrom
<1>9. /\ SameButStatus
      /\ \A e \in 1..Len(db) : db'[e].status = IF e = d THEN "removing" ELSE db[e].status
  BY <1>1, <1>4, <1>8, StatusChanges
<1>10. /\ DOMAIN disk' \subseteq {Elsewhere} \cup Epochs
       /\ disk' \in [DOMAIN disk' -> SUBSET (1..Len(chunks))]
       /\ \A f \in DOMAIN disk' : f <= now + Ahead
       /\ \A e \in 1..Len(db) : e # d /\ db[e].path \in DOMAIN disk =>
             db[e].path \in DOMAIN disk' /\ disk'[db[e].path] = disk[db[e].path]
  <2> DEFINE F == AfterClose(d)
             p == db[d].path
  <2>1. ClosedFiles(d, F)
    BY <1>2, <1>7, AfterCloseFiles
  <2>2. CASE disk' = F
    BY <2>1, <2>2 DEF ClosedFiles
  <2>3. CASE disk' = Without(F, p)
    <3> HIDE DEF F
    <3>1. /\ DOMAIN disk' = DOMAIN F \ {p}
          /\ \A f \in DOMAIN disk' : disk'[f] = F[f]
          /\ disk' = [f \in DOMAIN disk' |-> disk'[f]]
      BY <2>3 DEF Without
    <3>2. /\ DOMAIN F \subseteq {Elsewhere} \cup Epochs
          /\ F \in [DOMAIN F -> SUBSET (1..Len(chunks))]
          /\ \A f \in DOMAIN F : f <= now + Ahead
      BY <2>1 DEF ClosedFiles
    <3>3. disk' \in [DOMAIN disk' -> SUBSET (1..Len(chunks))]
      BY <3>1, <3>2
    <3>4. ASSUME NEW e \in 1..Len(db), e # d, db[e].path \in DOMAIN disk
          PROVE  db[e].path \in DOMAIN disk' /\ disk'[db[e].path] = disk[db[e].path]
      <4>1. db[e].path # p
        BY <1>1, <1>8, <3>4, PathsDiffer
      <4> QED
        BY <2>1, <3>1, <3>4, <4>1 DEF ClosedFiles
    <3> QED
      BY <3>1, <3>2, <3>3, <3>4
  <2> QED
    BY <1>5, <2>2, <2>3
<1>11. TypesOK'
  <2>1. db' \in Seq(DbRecord)
    BY <1>9 DEF SameButStatus
  <2> QED
    BY <1>1, <1>4, <1>7, <1>10, <2>1 DEF TypesOK
<1>12. SizesOK' /\ StartsAscend' /\ RenamesBack' /\ EpochsCover'
  BY <1>4, <1>9, <1>10, FrameKeeps
<1>13. OpenHasFile'
  <2>1. ASSUME NEW e \in 1..Len(db), db'[e].status = "open"
        PROVE  db'[e].path \in DOMAIN disk'
    <3>1. e # d /\ db[e].status = "open"
      BY <1>9, <2>1
    <3>2. db[e].path \in DOMAIN disk
      BY <1>1, <3>1 DEF OpenHasFile, IsOpen
    <3> QED
      BY <1>9, <1>10, <3>1, <3>2 DEF SameButStatus
  <2> QED
    BY <1>9, <2>1 DEF OpenHasFile, IsOpen, SameButStatus
<1>14. ListsOK'
  BY <1>1, <1>4, <1>7 DEF ListsOK
<1>15. LiveFrom(L)'
  BY <1>2, <1>4, <1>7, <1>8, <1>9, <1>6 DEF LiveFrom, IsOpen, SameButStatus
<1>16. SavedKept(L)'
  <2>1. SUFFICES ASSUME NEW c \in 1..Len(saver), saver[c] # 0,
                        closed => db'[saver[c]].named
                 PROVE  Kept(L, c)'
    BY <1>4 DEF SavedKept
  <2>2. PICK e \in L..Len(db) : saver[c] = e
    BY <1>2, <2>1 DEF LiveFrom
  <2>3. e \in 1..Len(db) /\ e # d /\ d < L
    BY <1>6, <1>8, <2>2
  <2>4. Kept(L, c)
    BY <1>2, <1>9, <2>1, <2>2, <2>3 DEF SavedKept, SameButStatus
  <2>5. ~(e = L /\ closed)
    <3>1. SUFFICES ASSUME e = L, closed PROVE FALSE
      OBVIOUS
    <3>2. db[L].named
      BY <1>6, <1>9, <2>1, <2>2, <3>1 DEF SameButStatus
    <3>3. L = 1
      BY <1>2, <3>2 DEF LiveFrom
    <3> QED
      BY <1>7, <2>3, <3>3
  <2>6. db[e].path \in DOMAIN disk /\ c \in disk[db[e].path]
    BY <2>2, <2>4, <2>5 DEF Kept
  <2>7. db[e].path \in DOMAIN disk' /\ c \in disk'[db[e].path]
    BY <1>10, <2>3, <2>6
  <2> QED
    BY <1>4, <1>9, <2>2, <2>3, <2>7 DEF Kept, SameButStatus
<1> QED
  BY <1>7, <1>11, <1>12, <1>13, <1>14, <1>15, <1>16 DEF ArchiveInv

----------------------------------------------------------------------------
(* The other two parts of the size check, and Flush.                       *)

LEMMA UpdateSizeKeeps == ArchiveInv /\ UpdateSize => ArchiveInv'
<1> SUFFICES ASSUME ArchiveInv, UpdateSize PROVE ArchiveInv'
  OBVIOUS
<1>1. /\ TypesOK /\ SizesOK /\ StartsAscend /\ RenamesBack /\ OpenHasFile
      /\ ListsOK /\ EpochsCover
  BY DEF ArchiveInv
<1>2. PICK L \in Nat : LiveFrom(L) /\ ListInOrder(L) /\ SavedKept(L)
  BY DEF ArchiveInv
<1>3. /\ db' = [d \in DOMAIN db |->
                  IF d \in ToSet(liveDbs) /\ IsOpen(d)
                    THEN [db[d] EXCEPT !.size = Cardinality(disk[db[d].path])]
                    ELSE db[d]]
      /\ check' = "cap"
      /\ disk' = disk /\ dbs' = dbs /\ liveDbs' = liveDbs /\ closeLeft' = closeLeft
      /\ closed' = closed /\ now' = now
      /\ chunks' = chunks /\ saver' = saver /\ restarts' = restarts
  BY DEF UpdateSize, fileVars, history
<1>4. PICK n \in Nat : n = Len(db)
  BY <1>1, StateTypes
<1>5. PICK b \in Nat : b = Len(chunks)
  BY <1>1, StateTypes
<1>6. ASSUME NEW d \in 1..n
      PROVE  /\ db'[d] \in DbRecord
             /\ db'[d].path = db[d].path
             /\ db'[d].start = db[d].start
             /\ db'[d].newStart = db[d].newStart
             /\ db'[d].end = db[d].end
             /\ db'[d].named = db[d].named
             /\ db'[d].live = db[d].live
             /\ db'[d].status = db[d].status
             /\ db'[d].size <= b
  <2>1. db[d] \in DbRecord /\ db[d].size <= b /\ d \in DOMAIN db
    BY <1>1, <1>4, <1>5, RecordTypes, StateTypes DEF SizesOK
  <2>2. CASE d \in ToSet(liveDbs) /\ IsOpen(d)
    <3>1. PICK z : z = Cardinality(disk[db[d].path])
      OBVIOUS
    <3>2. z \in Nat /\ z <= b
      <4>1. db[d].path \in DOMAIN disk
        BY <1>1, <1>4, <2>2 DEF OpenHasFile
      <4>2. disk[db[d].path] \in SUBSET (1..b)
        BY <1>1, <1>5, <4>1 DEF TypesOK
      <4>3. IsFiniteSet(1..b) /\ Cardinality(1..b) = b
        BY FS_Interval
      <4> QED
        BY <3>1, <4>2, <4>3, FS_Subset, FS_CardinalityType
    <3>3. db'[d] = [db[d] EXCEPT !.size = z]
      BY <1>3, <2>1, <2>2, <3>1
    <3> QED
      BY ONLY <2>1, <3>2, <3>3 DEF DbRecord
  <2>3. CASE ~(d \in ToSet(liveDbs) /\ IsOpen(d))
    <3>1. db'[d] = db[d]
      BY <1>3, <2>1, <2>3
    <3> QED
      BY ONLY <2>1, <3>1
  <2> QED
    BY <2>2, <2>3
<1>7. db' \in Seq(DbRecord) /\ Len(db') = n
  <2>1. DOMAIN db = 1..n
    BY <1>1, <1>4, StateTypes
  <2>2. DOMAIN db' = 1..n /\ db' = [d \in DOMAIN db' |-> db'[d]]
    BY ONLY <1>3, <2>1
  <2>3. db' \in [1..n -> DbRecord]
    BY ONLY <1>6, <2>2
  <2> QED
    BY ONLY <2>3, n \in Nat
<1>8. TypesOK'
  BY <1>1, <1>3, <1>7 DEF TypesOK
<1>9. SizesOK' /\ StartsAscend' /\ RenamesBack' /\ OpenHasFile'
  <2>1. SizesOK'
    BY ONLY <1>3, <1>5, <1>6, <1>7 DEF SizesOK
  <2>2. StartsAscend'
    BY ONLY <1>1, <1>3, <1>4, <1>6, <1>7 DEF StartsAscend
  <2>3. RenamesBack'
    BY ONLY <1>1, <1>4, <1>6, <1>7 DEF RenamesBack
  <2>4. OpenHasFile'
    BY ONLY <1>1, <1>3, <1>4, <1>6, <1>7 DEF OpenHasFile, IsOpen
  <2> QED
    BY ONLY <2>1, <2>2, <2>3, <2>4
<1>10. ASSUME NEW c \in 1..Len(saver), saver[c] # 0
       PROVE  saver[c] \in 1..n
  BY <1>1, <1>2, <1>4, <1>10, StateTypes DEF LiveFrom
<1>11. EpochsCover'
  <2>1. DOMAIN chunks = 1..Len(saver)
    BY <1>1, StateTypes
  <2>2. ASSUME NEW c \in DOMAIN chunks, saver[c] # 0
        PROVE  /\ chunks[c].last <= db'[saver[c]].end
               /\ \/ db'[saver[c]].start <= chunks[c].first
                  \/ db'[saver[c]].newStart <= chunks[c].first
    <3>1. saver[c] \in 1..n
      BY <1>10, <2>1, <2>2
    <3>2. /\ chunks[c].last <= db[saver[c]].end
          /\ \/ db[saver[c]].start <= chunks[c].first
             \/ db[saver[c]].newStart <= chunks[c].first
      BY <1>1, <2>2 DEF EpochsCover
    <3> QED
      BY <1>6, <3>1, <3>2
  <2> QED
    BY <1>3, <2>2 DEF EpochsCover
<1>12. ListsOK' /\ ListInOrder(L)'
  BY <1>1, <1>2, <1>3 DEF ListsOK, ListInOrder
<1>13. LiveFrom(L)'
  <2>1. L \in 1..n
    BY <1>2, <1>4 DEF LiveFrom
  <2>2. \A d \in 1..n :
           /\ db'[d].live <=> d = L
           /\ d < L => ~db'[d].named /\ db'[d].end = 0
           /\ d > L => db'[d].named /\ db'[d].status = "open"
    BY ONLY <1>2, <1>4, <1>6 DEF LiveFrom, IsOpen
  <2> QED
    BY ONLY <1>2, <1>3, <1>4, <1>6, <1>7, <2>1, <2>2 DEF LiveFrom, IsOpen
<1>14. SavedKept(L)'
  <2>1. SUFFICES ASSUME NEW c \in 1..Len(saver), saver[c] # 0,
                        closed => db'[saver[c]].named
                 PROVE  Kept(L, c)'
    BY <1>3 DEF SavedKept
  <2>2. saver[c] \in 1..n /\ L \in 1..n
    BY <1>2, <1>4, <1>10, <2>1 DEF LiveFrom
  <2>3. Kept(L, c)
    BY <1>2, <1>6, <2>1, <2>2 DEF SavedKept
  <2>4. db'[saver[c]].path = db[saver[c]].path /\ db'[L].start = db[L].start
    BY ONLY <1>6, <2>2
  <2> QED
    BY ONLY <1>3, <2>3, <2>4 DEF Kept
<1> QED
  BY <1>8, <1>9, <1>11, <1>12, <1>13, <1>14 DEF ArchiveInv

LEMMA AppendNew ==
    ASSUME NEW list \in Seq(Nat), NEW e \in Nat, e \notin ToSet(list),
           IsInjective(list)
    PROVE  /\ Append(list, e) \in Seq(Nat)
           /\ IsInjective(Append(list, e))
           /\ ToSet(Append(list, e)) = ToSet(list) \cup {e}
<1> DEFINE more == Append(list, e)
<1>1. PICK z \in Nat : z = Len(list) /\ DOMAIN list = 1..z
  BY LenProperties
<1>2. /\ more \in Seq(Nat) /\ Len(more) = z + 1
      /\ \A i \in 1..z : more[i] = list[i]
      /\ more[z + 1] = e
  BY <1>1, AppendProperties
<1> HIDE DEF more
<1>3. DOMAIN more = 1..(z + 1)
  BY <1>2, LenProperties
<1>4. \A i \in 1..(z + 1) : i \in 1..z \/ i = z + 1
  OBVIOUS
<1>5. ToSet(more) = ToSet(list) \cup {e}
  <2>1. \A i \in 1..z : i \in 1..(z + 1)
    OBVIOUS
  <2>2. z + 1 \in 1..(z + 1)
    OBVIOUS
  <2> QED
    BY ONLY <1>1, <1>2, <1>3, <1>4, <2>1, <2>2 DEF ToSet
<1>6. \A i \in 1..z : list[i] # e
  BY <1>1 DEF ToSet
<1>7. \A i, j \in 1..z : list[i] = list[j] => i = j
  BY <1>1 DEF IsInjective
<1>8. \A i, j \in 1..(z + 1) : more[i] = more[j] => i = j
  BY ONLY <1>2, <1>4, <1>6, <1>7
<1> QED
  BY <1>2, <1>3, <1>5, <1>8 DEF IsInjective, more

LEMMA RotateKeeps == ArchiveInv /\ Rotate => ArchiveInv'
<1> SUFFICES ASSUME ArchiveInv, Rotate PROVE ArchiveInv'
  OBVIOUS
<1>1. /\ TypesOK /\ SizesOK /\ StartsAscend /\ RenamesBack /\ OpenHasFile
      /\ ListsOK /\ EpochsCover
  BY DEF ArchiveInv
<1>2. PICK L \in Nat : LiveFrom(L) /\ ListInOrder(L) /\ SavedKept(L)
  BY DEF ArchiveInv
<1>3. PICK p : p = now + Ahead
  OBVIOUS
<1>4. PICK new : new = [NewDb(p) EXCEPT !.status = "open"]
  OBVIOUS
<1>5. /\ check = "rotate" /\ check' = "update"
      /\ db' = Append(db, new)
      /\ liveDbs' = Append(liveDbs, Len(db) + 1)
      /\ disk' = Connected(disk, p)
      /\ now' = now /\ dbs' = dbs /\ closeLeft' = closeLeft /\ closed' = closed
      /\ chunks' = chunks /\ saver' = saver /\ restarts' = restarts
  BY <1>3, <1>4 DEF Rotate, RotateInto, history
<1>6. PICK n \in Nat : n = Len(db)
  BY <1>1, StateTypes
<1>7. PICK b \in Nat : b = Len(chunks)
  BY <1>1, StateTypes
<1>8. p \in Epochs /\ p \in Nat /\ 0 < p /\ p <= now + Ahead
  BY <1>1, <1>3, StateTypes DEF Epochs
<1>9. /\ new \in DbRecord /\ new.path = p /\ new.start = p /\ new.newStart = p
      /\ new.end = 0 /\ new.size = 0 /\ new.named = TRUE /\ new.live = FALSE
      /\ new.status = "open"
  <2>1. PICK r : r = NewDb(p)
    OBVIOUS
  <2>2. /\ r \in DbRecord /\ r.path = p /\ r.start = p /\ r.newStart = p
        /\ r.end = 0 /\ r.size = 0 /\ r.named = TRUE /\ r.live = FALSE
    BY ONLY <1>8, <2>1, NewDbRecord
  <2>3. new = [r EXCEPT !.status = "open"]
    BY <1>4, <2>1
  <2> QED
    BY ONLY <2>2, <2>3 DEF DbRecord
<1>10. /\ db' \in Seq(DbRecord) /\ Len(db') = n + 1
       /\ \A d \in 1..n : db'[d] = db[d]
       /\ db'[n + 1] = new
  <2>1. db \in Seq(DbRecord)
    BY <1>1 DEF TypesOK
  <2> QED
    BY ONLY <1>5, <1>6, <1>9, <2>1, AppendProperties
<1>11. \A d \in 1..(n + 1) : d \in 1..n \/ d = n + 1
  OBVIOUS
<1>12. /\ DOMAIN disk' = DOMAIN disk \cup {p}
       /\ disk' \in [DOMAIN disk \cup {p} -> SUBSET (1..b)]
       /\ \A f \in DOMAIN disk : disk'[f] = disk[f]
  <2>1. disk \in [DOMAIN disk -> SUBSET (1..b)]
    BY <1>1, <1>7 DEF TypesOK
  <2> QED
    BY ONLY <1>5, <2>1, b \in Nat DEF Connected
<1>13. /\ liveDbs' \in Seq(Nat) /\ IsInjective(liveDbs')
       /\ ToSet(liveDbs') = L..(n + 1)
  <2>1. /\ liveDbs \in Seq(Nat) /\ IsInjective(liveDbs)
        /\ ToSet(liveDbs) = L..n /\ L \in 1..n
    BY <1>1, <1>2, <1>6 DEF TypesOK, ListsOK, LiveFrom
  <2>2. n + 1 \in Nat /\ n + 1 \notin ToSet(liveDbs)
    BY <2>1
  <2>3. L..(n + 1) = (L..n) \cup {n + 1}
    BY <2>1
  <2>4. liveDbs' = Append(liveDbs, n + 1)
    BY <1>5, <1>6
  <2> QED
    BY ONLY <2>1, <2>2, <2>3, <2>4, AppendNew
<1>14. L \in 1..n /\ \A c \in 1..Len(saver) : saver[c] # 0 => saver[c] \in 1..n
  BY <1>1, <1>2, <1>6, StateTypes DEF LiveFrom
<1>15. TypesOK'
  <2>1. DOMAIN disk' \subseteq {Elsewhere} \cup Epochs
    BY <1>1, <1>8, <1>12 DEF TypesOK
  <2>2. disk' \in [DOMAIN disk' -> SUBSET (1..Len(chunks'))]
    BY <1>5, <1>7, <1>12
  <2> QED
    BY <1>1, <1>5, <1>10, <1>13, <2>1, <2>2 DEF TypesOK
<1>16. SizesOK'
  <2>1. \A d \in 1..n : db[d].size <= b
    BY <1>1, <1>6, <1>7 DEF SizesOK
  <2> QED
    BY <1>5, <1>7, <1>9, <1>10, <1>11, <2>1 DEF SizesOK
<1>17. StartsAscend'
  <2>1. \A d \in 1..n : /\ db[d].path = db[d].start /\ db[d].start < p
                        /\ db[d].start <= now + Ahead
    BY <1>1, <1>3, <1>5, <1>6 DEF StartsAscend
  <2>2. \A d \in 1..(n + 1) : /\ db'[d].path = db'[d].start
                              /\ db'[d].start <= now + Ahead
    BY <1>8, <1>9, <1>10, <1>11, <2>1
  <2>3. ASSUME NEW d \in 1..(n + 1), NEW e \in 1..(n + 1), d < e
        PROVE  db'[d].start < db'[e].start
    <3>1. d \in 1..n
      BY <1>11, <2>3
    <3>2. CASE e \in 1..n
      <4>1. db[d].start < db[e].start
        BY <1>1, <1>6, <2>3, <3>1, <3>2 DEF StartsAscend
      <4> QED
        BY <1>10, <3>1, <3>2, <4>1
    <3>3. CASE e = n + 1
      BY <1>9, <1>10, <2>1, <3>1, <3>3
    <3> QED
      BY <1>11, <3>2, <3>3
  <2>4. \A f \in DOMAIN disk' : f <= now + Ahead
    BY <1>1, <1>8, <1>12 DEF StartsAscend
  <2> QED
    BY <1>5, <1>10, <2>2, <2>3, <2>4 DEF StartsAscend
<1>18. RenamesBack'
  <2>1. 0 < p /\ p <= p
    BY <1>8
  <2> QED
    BY <1>1, <1>6, <1>9, <1>10, <1>11, <2>1 DEF RenamesBack
<1>19. OpenHasFile'
  BY <1>1, <1>6, <1>9, <1>10, <1>11, <1>12 DEF OpenHasFile, IsOpen
<1>20. ListsOK' /\ ListInOrder(L)'
  BY <1>1, <1>2, <1>5, <1>13 DEF ListsOK, ListInOrder
<1>21. EpochsCover'
  <2>1. DOMAIN chunks = 1..Len(saver)
    BY <1>1, StateTypes
  <2>2. \A c \in DOMAIN chunks : saver[c] # 0 => db'[saver[c]] = db[saver[c]]
    BY <1>10, <1>14, <2>1
  <2> QED
    BY <1>1, <1>5, <2>2 DEF EpochsCover
<1>22. LiveFrom(L)'
  <2>1. \A d \in 1..(n + 1) :
           /\ db'[d].live <=> d = L
           /\ d < L => ~db'[d].named /\ db'[d].end = 0
           /\ d > L => db'[d].named /\ db'[d].status = "open"
    <3>1. \A d \in 1..n :
             /\ db[d].live <=> d = L
             /\ d < L => ~db[d].named /\ db[d].end = 0
             /\ d > L => db[d].named /\ db[d].status = "open"
      BY <1>2, <1>6 DEF LiveFrom, IsOpen
    <3>2. n + 1 # L /\ ~(n + 1 < L)
      BY <1>14
    <3> QED
      BY <1>9, <1>10, <1>11, <3>1, <3>2
  <2>2. L \in 1..(n + 1) /\ db'[L] = db[L]
    BY <1>10, <1>14
  <2>3. \A c \in 1..Len(saver) : saver[c] # 0 => saver[c] \in L..(n + 1)
    BY <1>2, <1>6 DEF LiveFrom
  <2> QED
    BY <1>2, <1>5, <1>10, <1>13, <2>1, <2>2, <2>3 DEF LiveFrom, IsOpen
<1>23. SavedKept(L)'
  <2>1. SUFFICES ASSUME NEW c \in 1..Len(saver), saver[c] # 0,
                        closed => db'[saver[c]].named
                 PROVE  Kept(L, c)'
    BY <1>5 DEF SavedKept
  <2>2. db'[saver[c]] = db[saver[c]] /\ db'[L] = db[L]
    BY <1>10, <1>14, <2>1
  <2>3. Kept(L, c)
    BY <1>2, <2>1, <2>2 DEF SavedKept
  <2> QED
    BY <1>5, <1>12, <2>2, <2>3 DEF Kept
<1> QED
  BY <1>15, <1>16, <1>17, <1>18, <1>19, <1>20, <1>21, <1>22, <1>23 DEF ArchiveInv

\* The least of a set of numbers.
LEMMA LeastOf ==
    ASSUME NEW I \in SUBSET Nat, I # {}
    PROVE  Min(I) \in I /\ \A i \in I : Min(I) <= i
<1> DEFINE Less == OpToRel(<, Nat)
<1>1. \A x, y \in Nat : x < y => <<x, y>> \in Less
  BY DEF OpToRel
<1>2. IsWellFoundedOn(Less, Nat)
  BY NatLessThanWellFounded
<1> HIDE DEF Less
<1>3. PICK x \in I : \A y \in I : ~(<<y, x>> \in Less)
  BY <1>2, WFMin
<1>4. ASSUME NEW y \in I PROVE x <= y
  <2>1. x \in Nat /\ y \in Nat
    OBVIOUS
  <2>2. ~(y < x)
    BY <1>1, <1>3, <2>1
  <2> QED
    BY <2>1, <2>2
<1> QED
  BY <1>4 DEF Min

\* Flush chooses one of the live databases.
LEMMA TargetIsLive ==
    ASSUME ArchiveInv, NEW first, NEW last
    PROVE  Target(first, last) \in ToSet(liveDbs)
<1>1. PICK z \in Nat : z = Len(liveDbs) /\ DOMAIN liveDbs = 1..z
  BY StateTypes DEF ArchiveInv
<1>2. z # 0
  <2>1. ToSet(liveDbs) # {}
    <3>1. \E L \in Nat : L \in 1..Len(db) /\ ToSet(liveDbs) = L..Len(db)
      BY DEF ArchiveInv, LiveFrom
    <3> QED
      BY <3>1
  <2> QED
    BY <1>1, <2>1 DEF ToSet
<1>3. \A i \in 1..z : liveDbs[i] \in ToSet(liveDbs)
  BY <1>1 DEF ToSet
<1> DEFINE fits(d) == /\ db[d].start <= first
                      /\ db[d].end = 0 \/ db[d].end >= last
           I == {i \in 1..Len(liveDbs) : fits(liveDbs[i])}
           i == IF I # {} THEN Min(I) ELSE 0
<1>4. Target(first, last) = IF i # 0 THEN liveDbs[i] ELSE liveDbs[z]
  BY <1>1 DEF Target, SelectInSeq
<1>5. i # 0 => i \in 1..z
  <2>1. I \in SUBSET Nat /\ I \subseteq 1..z
    BY <1>1
  <2> HIDE DEF I
  <2> QED
    BY <2>1, LeastOf
<1> HIDE DEF i
<1> QED
  BY <1>1, <1>2, <1>3, <1>4, <1>5

LEMMA FlushKeeps ==
    ASSUME ArchiveInv, NEW first \in 1..MaxTime, NEW last \in 1..MaxTime,
           Flush(first, last)
    PROVE  ArchiveInv'
<1>1. /\ TypesOK /\ SizesOK /\ StartsAscend /\ RenamesBack /\ OpenHasFile
      /\ ListsOK /\ EpochsCover
  BY DEF ArchiveInv
<1>2. PICK L \in Nat : LiveFrom(L) /\ ListInOrder(L) /\ SavedKept(L)
  BY DEF ArchiveInv
<1>3. PICK n \in Nat : n = Len(db)
  BY <1>1, StateTypes
<1>4. PICK b \in Nat : b = Len(chunks)
  BY <1>1, StateTypes
<1>5. PICK d : d = Target(first, last)
  OBVIOUS
<1>6. d \in L..n /\ d \in 1..n /\ L \in 1..n
  <2>1. d \in ToSet(liveDbs)
    BY <1>5, TargetIsLive
  <2> QED
    BY <1>2, <1>3, <2>1 DEF LiveFrom
<1>7. PICK p : p = db[d].path
  OBVIOUS
<1>8. PICK newEnd : newEnd = FlushEnd(d, last)
  OBVIOUS
<1>9. PICK earliest : earliest = IF first < db[d].newStart THEN first ELSE db[d].newStart
  OBVIOUS
<1>10. /\ IsOpen(d)
       /\ disk' = [disk EXCEPT ![p] = @ \cup {b + 1}]
       /\ chunks' = Append(chunks, [first |-> first, last |-> last])
       /\ saver' = Append(saver, d)
       /\ now' = now /\ dbs' = dbs /\ liveDbs' = liveDbs /\ check' = check
       /\ closeLeft' = closeLeft /\ closed' = closed /\ restarts' = restarts
  BY <1>4, <1>5, <1>7 DEF Flush
<1>11. db' = [db EXCEPT ![d].end = newEnd, ![d].newStart = earliest]
  BY <1>5, <1>8, <1>9 DEF Flush
<1>12. p \in DOMAIN disk
  BY <1>1, <1>3, <1>6, <1>7, <1>10 DEF OpenHasFile
<1>13. /\ first \in Nat /\ 0 < first /\ last \in Nat /\ MaxTime \in Nat
       /\ first <= MaxTime /\ last <= MaxTime
  BY ArchiveAssumption
<1>14. /\ newEnd \in 0..MaxTime /\ newEnd \in Nat
       /\ db[d].end <= newEnd /\ last <= newEnd
  BY <1>1, <1>3, <1>6, <1>8, <1>13, RecordTypes DEF FlushEnd
<1>15. /\ earliest \in {Elsewhere} \cup Epochs /\ earliest \in Nat
       /\ earliest <= db[d].newStart
       /\ earliest = first \/ (earliest = db[d].newStart /\ earliest <= first)
  <2>1. /\ db[d].newStart \in {Elsewhere} \cup Epochs
        /\ db[d].newStart \in Nat
    BY <1>1, <1>3, <1>6, RecordTypes
  <2>2. first \in Epochs
    BY ArchiveAssumption, <1>13 DEF Epochs
  <2>3. CASE first < db[d].newStart
    BY <1>9, <1>13, <2>1, <2>2, <2>3
  <2>4. CASE ~(first < db[d].newStart)
    BY <1>9, <1>13, <2>1, <2>4
  <2> QED
    BY <2>3, <2>4
<1>16. ASSUME NEW e \in 1..n
       PROVE  /\ db'[e] \in DbRecord
              /\ db'[e].path = db[e].path
              /\ db'[e].start = db[e].start
              /\ db'[e].newStart = IF e = d THEN earliest ELSE db[e].newStart
              /\ db'[e].end = IF e = d THEN newEnd ELSE db[e].end
              /\ db'[e].named = db[e].named
              /\ db'[e].live = db[e].live
              /\ db'[e].status = db[e].status
              /\ db'[e].size = db[e].size
  <2>1. db[e] \in DbRecord /\ e \in DOMAIN db
    BY <1>1, <1>3, RecordTypes, StateTypes
  <2>2. CASE e = d
    <3>1. db'[e] = [db[e] EXCEPT !.end = newEnd, !.newStart = earliest]
      BY ONLY <1>11, <2>1, <2>2
    <3> QED
      BY ONLY <1>14, <1>15, <2>1, <2>2, <3>1 DEF DbRecord
  <2>3. CASE e # d
    <3>1. db'[e] = db[e]
      BY ONLY <1>11, <2>1, <2>3
    <3> QED
      BY ONLY <2>1, <2>3, <3>1
  <2> QED
    BY <2>2, <2>3
<1>17. db' \in Seq(DbRecord) /\ Len(db') = n
  <2>1. DOMAIN db = 1..n
    BY <1>1, <1>3, StateTypes
  <2>2. DOMAIN db' = 1..n /\ db' = [e \in DOMAIN db' |-> db'[e]]
    BY ONLY <1>11, <2>1
  <2>3. db' \in [1..n -> DbRecord]
    BY ONLY <1>16, <2>2
  <2> QED
    BY ONLY <2>3, n \in Nat
<1>18. /\ chunks' \in Seq(Span) /\ Len(chunks') = b + 1
       /\ \A c \in 1..b : chunks'[c] = chunks[c]
       /\ chunks'[b + 1].first = first /\ chunks'[b + 1].last = last
  <2>1. chunks \in Seq(Span)
    BY <1>1 DEF TypesOK
  <2>2. [first |-> first, last |-> last] \in Span
    BY DEF Span
  <2>3. /\ chunks' \in Seq(Span) /\ Len(chunks') = b + 1
        /\ \A c \in 1..b : chunks'[c] = chunks[c]
        /\ chunks'[b + 1] = [first |-> first, last |-> last]
    BY ONLY <1>4, <1>10, <2>1, <2>2, AppendProperties
  <2> QED
    BY <2>3
<1>19. /\ saver' \in Seq(Nat) /\ Len(saver') = b + 1
       /\ \A c \in 1..b : saver'[c] = saver[c]
       /\ saver'[b + 1] = d
  <2>1. saver \in Seq(Nat) /\ Len(saver) = b
    BY <1>1, <1>4 DEF TypesOK
  <2>2. d \in Nat
    BY <1>6
  <2> QED
    BY ONLY <1>10, <2>1, <2>2, AppendProperties
<1>20. /\ DOMAIN disk' = DOMAIN disk
       /\ disk' \in [DOMAIN disk -> SUBSET (1..(b + 1))]
       /\ \A f \in DOMAIN disk : \A c \in disk[f] : c \in disk'[f]
       /\ b + 1 \in disk'[p]
  <2>1. disk \in [DOMAIN disk -> SUBSET (1..b)]
    BY <1>1, <1>4 DEF TypesOK
  <2>2. \A c \in 1..b : c \in 1..(b + 1)
    BY <1>4
  <2>3. b + 1 \in 1..(b + 1)
    BY <1>4
  <2>4. \A f \in DOMAIN disk :
           disk'[f] = IF f = p THEN disk[f] \cup {b + 1} ELSE disk[f]
    BY ONLY <1>10, <1>12
  <2>5. DOMAIN disk' = DOMAIN disk /\ disk' = [f \in DOMAIN disk' |-> disk'[f]]
    BY ONLY <1>10
  <2>6. \A f \in DOMAIN disk : disk'[f] \in SUBSET (1..(b + 1))
    BY ONLY <2>1, <2>2, <2>3, <2>4
  <2> QED
    BY ONLY <1>12, <2>4, <2>5, <2>6
<1>21. \A c \in 1..(b + 1) : c \in 1..b \/ c = b + 1
  OBVIOUS
<1>22. \A c \in 1..b : saver[c] # 0 => saver[c] \in L..n /\ saver[c] \in 1..n
  BY <1>1, <1>2, <1>3, <1>4, <1>6, StateTypes DEF LiveFrom
<1>23. TypesOK'
  <2>1. /\ DOMAIN disk' \subseteq {Elsewhere} \cup Epochs
        /\ disk' \in [DOMAIN disk' -> SUBSET (1..Len(chunks'))]
    BY <1>1, <1>18, <1>20 DEF TypesOK
  <2> QED
    BY <1>1, <1>10, <1>17, <1>18, <1>19, <2>1 DEF TypesOK
<1>24. SizesOK'
  <2>1. \A e \in 1..n : db[e].size \in Nat /\ db[e].size <= b
    BY <1>1, <1>3, <1>4, RecordTypes DEF SizesOK
  <2> QED
    BY <1>4, <1>16, <1>17, <1>18, <2>1 DEF SizesOK
<1>25. StartsAscend'
  BY <1>1, <1>3, <1>10, <1>16, <1>17, <1>20 DEF StartsAscend
<1>26. OpenHasFile'
  BY <1>1, <1>3, <1>16, <1>17, <1>20 DEF OpenHasFile, IsOpen
<1>27. RenamesBack'
  <2>1. ASSUME NEW e \in 1..n
        PROVE  /\ ~db'[e].named => db'[e].newStart = 0
               /\ db'[e].named => 0 < db'[e].newStart /\ db'[e].newStart <= db'[e].start
    <3>1. /\ ~db[e].named => db[e].newStart = 0
          /\ db[e].named => 0 < db[e].newStart /\ db[e].newStart <= db[e].start
          /\ db[e].newStart \in Nat /\ db[e].start \in Nat
      BY <1>1, <1>3, RecordTypes DEF RenamesBack
    <3>2. CASE e = d
      BY <1>13, <1>15, <1>16, <3>1, <3>2
    <3>3. CASE e # d
      BY <1>16, <3>1, <3>3
    <3> QED
      BY <3>2, <3>3
  <2> QED
    BY <1>17, <2>1 DEF RenamesBack
<1>28. ListsOK' /\ ListInOrder(L)'
  BY <1>1, <1>2, <1>10 DEF ListsOK, ListInOrder
<1>29. EpochsCover'
  <2>1. ASSUME NEW c \in 1..(b + 1), saver'[c] # 0
        PROVE  /\ chunks'[c].last <= db'[saver'[c]].end
               /\ \/ db'[saver'[c]].start <= chunks'[c].first
                  \/ db'[saver'[c]].newStart <= chunks'[c].first
    <3>1. CASE c = b + 1
      <4>1. db'[d].newStart <= first \/ db'[d].newStart = first
        BY <1>6, <1>15, <1>16
      <4>2. last <= db'[d].end
        BY <1>6, <1>14, <1>16
      <4> QED
        BY <1>13, <1>18, <1>19, <3>1, <4>1, <4>2
    <3>2. CASE c \in 1..b
      <4>1. PICK e \in 1..n : saver[c] = e /\ saver'[c] = e
        BY <1>19, <1>22, <2>1, <3>2
      <4>2. c \in DOMAIN chunks /\ chunks \in Seq(Span)
        BY <1>1, <1>4, <3>2, StateTypes DEF TypesOK
      <4>3. /\ chunks[c].last <= db[e].end
            /\ db[e].start <= chunks[c].first \/ db[e].newStart <= chunks[c].first
        BY <1>1, <1>19, <2>1, <3>2, <4>1, <4>2 DEF EpochsCover
      <4>4. chunks[c].last \in Nat /\ chunks[c].first \in Nat
        <5>1. chunks[c] \in Span
          BY <4>2
        <5> QED
          BY <1>13, <5>1 DEF Span
      <4>5. db[e].end \in Nat /\ db[e].newStart \in Nat
        BY <1>1, <1>3, RecordTypes
      <4>6. db[e].end <= db'[e].end /\ db'[e].end \in Nat
        BY <1>14, <1>16, <4>5
      <4>7. db'[e].newStart <= db[e].newStart /\ db'[e].newStart \in Nat
        BY <1>15, <1>16, <4>5
      <4>8. db'[e].start = db[e].start /\ chunks'[c] = chunks[c]
        BY <1>16, <1>18, <3>2
      <4> QED
        BY <4>1, <4>3, <4>4, <4>5, <4>6, <4>7, <4>8
    <3> QED
      BY <1>21, <3>1, <3>2
  <2>2. DOMAIN chunks' = 1..(b + 1)
    BY <1>18
  <2> QED
    BY <2>1, <2>2 DEF EpochsCover
<1>30. LiveFrom(L)'
  <2>1. \A e \in 1..n :
           /\ db'[e].live <=> e = L
           /\ e < L => ~db'[e].named /\ db'[e].end = 0
           /\ e > L => db'[e].named /\ db'[e].status = "open"
    <3>1. \A e \in 1..n : e < L => e # d
      BY <1>6
    <3> QED
      BY <1>2, <1>3, <1>16, <3>1 DEF LiveFrom, IsOpen
  <2>2. \A c \in 1..(b + 1) : saver'[c] # 0 => saver'[c] \in L..n
    BY <1>6, <1>19, <1>21, <1>22
  <2> QED
    BY <1>2, <1>3, <1>6, <1>10, <1>16, <1>17, <1>19, <2>1, <2>2 DEF LiveFrom, IsOpen
<1>31. SavedKept(L)'
  <2>1. SUFFICES ASSUME NEW c \in 1..(b + 1), saver'[c] # 0,
                        closed => db'[saver'[c]].named
                 PROVE  Kept(L, c)'
    BY <1>10, <1>19 DEF SavedKept
  <2>2. CASE c = b + 1
    <3>1. db'[d].path = p
      BY <1>6, <1>7, <1>16
    <3> QED
      BY <1>12, <1>19, <1>20, <2>2, <3>1 DEF Kept
  <2>3. CASE c \in 1..b
    <3>1. PICK e \in 1..n : saver[c] = e /\ saver'[c] = e
      BY <1>19, <1>22, <2>1, <2>3
    <3>2. Kept(L, c)
      BY <1>1, <1>2, <1>4, <1>16, <2>1, <2>3, <3>1, StateTypes DEF SavedKept
    <3>3. db'[e].path = db[e].path /\ db'[L].start = db[L].start
      BY <1>6, <1>16
    <3> QED
      BY <1>10, <1>20, <3>1, <3>2, <3>3 DEF Kept
  <2> QED
    BY <1>21, <2>2, <2>3
<1> QED
  BY <1>23, <1>24, <1>25, <1>26, <1>27, <1>28, <1>29, <1>30, <1>31 DEF ArchiveInv

----------------------------------------------------------------------------
(* The theorems.                                                           *)

LEMMA StepKeeps == ArchiveInv /\ [Next]_vars => ArchiveInv'
<1> SUFFICES ASSUME ArchiveInv, [Next]_vars PROVE ArchiveInv'
  OBVIOUS
<1>1. CASE Tick \/ RotateNot \/ CapKeep \/ Close \/ UNCHANGED vars
  BY <1>1, QuietStepsKeep
<1>2. CASE Restart
  BY <1>2, RestartKeeps
<1>3. CASE \E first \in {now, now - MaxLate}, last \in {now, now - MaxLate} :
              0 < first /\ first <= last /\ Flush(first, last)
  <2>1. PICK first \in {now, now - MaxLate}, last \in {now, now - MaxLate} :
               0 < first /\ first <= last /\ Flush(first, last)
    BY <1>3
  <2>2. now \in 1..MaxTime /\ MaxTime \in Nat /\ MaxLate \in Nat
    BY ArchiveAssumption, StateTypes DEF ArchiveInv
  <2>3. first \in 1..MaxTime /\ last \in 1..MaxTime
    BY <2>1, <2>2
  <2> QED
    BY <2>1, <2>3, FlushKeeps
<1>4. CASE Rotate
  BY <1>4, RotateKeeps
<1>5. CASE UpdateSize
  BY <1>5, UpdateSizeKeeps
<1>6. CASE CapRemove
  BY <1>6, CapRemoveKeeps
<1>7. CASE CapForget
  BY <1>7, CapForgetKeeps
<1>8. CASE \E d \in DOMAIN db : OpenForTask(d) \/ CloseIdle(d) \/ CloseOne(d)
  <2>1. PICK d \in DOMAIN db : OpenForTask(d) \/ CloseIdle(d) \/ CloseOne(d)
    BY <1>8
  <2> QED
    BY <2>1, OpenForTaskKeeps, CloseIdleKeeps, CloseOneKeeps
<1> QED
  BY <1>1, <1>2, <1>3, <1>4, <1>5, <1>6, <1>7, <1>8 DEF Next

\* The inductive invariant: the databases of storage.go are numbered by their
\* start, one that New opened is followed by those of routineSizeCheck, and
\* only these are in liveDbs, open until Close.
THEOREM ArchiveInvariant == Spec => []ArchiveInv
<1>1. Init => ArchiveInv
  BY InitHolds
<1>2. ArchiveInv /\ [Next]_vars => ArchiveInv'
  BY StepKeeps
<1> QED
  BY <1>1, <1>2, PTL DEF Spec

\* The fields of storage and of each storageDb have their types; a database's
\* size is that of no more chunks than there are, and storage.dbs is never
\* empty, which routineSizeCheck relies on when it reads its first.
THEOREM ArchiveTypes == Spec => []ArchiveTypeOK
<1>1. ArchiveInv => ArchiveTypeOK
  <2> SUFFICES ASSUME ArchiveInv PROVE ArchiveTypeOK
    OBVIOUS
  <2>1. TypesOK /\ SizesOK /\ ListsOK
    BY DEF ArchiveInv
  <2>2. PICK L \in Nat : LiveFrom(L)
    BY DEF ArchiveInv
  <2>3. PICK n \in Nat : n = Len(db) /\ DOMAIN db = 1..n
    BY <2>1, StateTypes
  <2>4. PICK b \in Nat : b = Len(chunks) /\ DOMAIN chunks = 1..b /\ DOMAIN saver = 1..b
    BY <2>1, StateTypes
  <2>5. \A f \in DOMAIN disk : disk[f] \subseteq DOMAIN chunks
    BY <2>1, <2>4 DEF TypesOK
  <2>6. ASSUME NEW d \in 1..n PROVE db[d] \in DbType
    <3>1. db[d] \in DbRecord /\ db[d].size \in 0..b
      BY <2>1, <2>3, <2>4, RecordTypes DEF SizesOK
    <3> QED
      BY ONLY <2>4, <3>1 DEF DbRecord, DbType
  <2>7. L \in 1..n /\ ToSet(liveDbs) = L..n /\ L \in ToSet(dbs) /\ ToSet(dbs) \subseteq 1..L
    BY <2>2, <2>3 DEF LiveFrom
  <2>8. ToSet(dbs) \cup ToSet(liveDbs) \subseteq DOMAIN db
    BY <2>3, <2>7
  <2>9. liveDbs # <<>> /\ dbs # <<>>
    <3>1. ToSet(liveDbs) # {} /\ ToSet(dbs) # {}
      BY <2>7
    <3> QED
      BY <3>1 DEF ToSet
  <2> QED
    BY <2>1, <2>3, <2>4, <2>5, <2>6, <2>8, <2>9 DEF ArchiveTypeOK, TypesOK, ListsOK
<1> QED
  BY <1>1, ArchiveInvariant, PTL

\* Whatever its epochs, a chunk finds the database that storage.Flush chooses
\* open as long as Close was not called: the error of storage.go:198 does not
\* come from a database that the scheduler or the size check took away.
THEOREM FlushAlwaysFindsOpen == Spec => []FlushFindsOpen
<1>1. ArchiveInv => FlushFindsOpen
  <2> SUFFICES ASSUME ArchiveInv, ~closed, NEW first, NEW last
               PROVE  IsOpen(Target(first, last))
    BY DEF FlushFindsOpen
  <2>1. PICK L \in Nat : LiveFrom(L)
    BY DEF ArchiveInv
  <2>2. PICK n \in Nat : n = Len(db)
    BY StateTypes DEF ArchiveInv
  <2>3. PICK d : d = Target(first, last)
    OBVIOUS
  <2>4. d \in L..n /\ d \in 1..n /\ L \in 1..n
    <3>1. d \in ToSet(liveDbs)
      BY <2>3, TargetIsLive
    <3> QED
      BY <2>1, <2>2, <3>1 DEF LiveFrom
  <2>5. d = L \/ d > L
    BY <2>4
  <2>6. IsOpen(d)
    BY <2>1, <2>2, <2>4, <2>5 DEF LiveFrom
  <2> QED
    BY <2>3, <2>6
<1> QED
  BY <1>1, ArchiveInvariant, PTL

\* The epochs of a database, by which queries choose it, cover every chunk that
\* storageDb.flush of this process put in it, in whatever order they came.
THEOREM EpochsAlwaysCover == Spec => []EpochsCover
<1>1. ArchiveInv => EpochsCover
  BY DEF ArchiveInv
<1> QED
  BY <1>1, ArchiveInvariant, PTL

\* No two databases of storage.dbs and storage.liveDbs have the same file, and
\* an open one has its file: a close that renames, a removal for the cap and a
\* rotation never take the file of another.
THEOREM FilesHaveOneDb == Spec => []OneDbPerFile
<1>1. ArchiveInv => OneDbPerFile
  <2> SUFFICES ASSUME ArchiveInv PROVE OneDbPerFile
    OBVIOUS
  <2>1. TypesOK /\ StartsAscend /\ OpenHasFile
    BY DEF ArchiveInv
  <2>2. PICK L \in Nat : LiveFrom(L)
    BY DEF ArchiveInv
  <2>3. ToSet(dbs) \cup ToSet(liveDbs) \subseteq 1..Len(db)
    <3>1. PICK n \in Nat : n = Len(db)
      BY <2>1, StateTypes
    <3>2. L \in 1..n /\ ToSet(liveDbs) = L..n /\ ToSet(dbs) \subseteq 1..L
      BY <2>2, <3>1 DEF LiveFrom
    <3> QED
      BY <3>1, <3>2
  <2>4. \A d, e \in 1..Len(db) : db[d].path = db[e].path => d = e
    BY <2>1, PathsDiffer
  <2>5. \A d \in 1..Len(db) : IsOpen(d) => db[d].path \in DOMAIN disk
    BY <2>1 DEF OpenHasFile
  <2> QED
    BY <2>3, <2>4, <2>5 DEF OneDbPerFile
<1> QED
  BY <1>1, ArchiveInvariant, PTL

\* What this process has saved is in a file that newStorage finds at the next
\* start: the cap removes only databases that the process never flushed to, and
\* the rename of close moves the file of one with a directory within it.
THEOREM SavedIsAlwaysFound == Spec => []SavedIsFound
<1>1. ArchiveInv => SavedIsFound
  <2> SUFFICES ASSUME ArchiveInv, NEW c \in DOMAIN chunks,
                      saver[c] # 0, closed => db[saver[c]].named
               PROVE  Found(c)
    BY DEF SavedIsFound
  <2>1. TypesOK
    BY DEF ArchiveInv
  <2>2. PICK L \in Nat : LiveFrom(L) /\ SavedKept(L)
    BY DEF ArchiveInv
  <2>3. c \in 1..Len(saver)
    BY <2>1, StateTypes
  <2>4. Kept(L, c)
    BY <2>2, <2>3 DEF SavedKept
  <2>5. PICK d \in 1..Len(db) : saver[c] = d
    BY <2>1, <2>2, <2>3, StateTypes DEF LiveFrom
  <2>6. 0 < db[d].path
    BY <2>1, RecordTypes
  <2>7. \E f \in DOMAIN disk : 0 < f /\ c \in disk[f]
    BY <2>4, <2>5, <2>6 DEF Kept
  <2> QED
    BY <2>7 DEF Found, Elsewhere
<1> QED
  BY <1>1, ArchiveInvariant, PTL

\* The database that routineSizeCheck takes off storage.dbs is the one that
\* starts first of those that are listed.
THEOREM CapTakesTheOldest == Spec => RemovesOldest
<1>1. ArchiveInv /\ [Next]_vars =>
        [(restarts' = restarts /\ Len(dbs') < Len(dbs)) =>
            \A d \in ToSet(dbs) : db[dbs[1]].start <= db[d].start]_vars
  <2> SUFFICES ASSUME ArchiveInv, Next, restarts' = restarts, Len(dbs') < Len(dbs),
                      NEW d \in ToSet(dbs)
               PROVE  db[dbs[1]].start <= db[d].start
    OBVIOUS
  <2>1. TypesOK /\ StartsAscend /\ ListsOK
    BY DEF ArchiveInv
  <2>2. PICK L \in Nat : LiveFrom(L) /\ ListInOrder(L)
    BY DEF ArchiveInv
  <2>3. PICK z \in Nat : z = Len(dbs) /\ DOMAIN dbs = 1..z
    BY <2>1, StateTypes
  <2>4. PICK n \in Nat : n = Len(db)
    BY <2>1, StateTypes
  <2>5. restarts \in Nat
    BY <2>1 DEF TypesOK
  <2>6. \/ dbs' = dbs
        \/ dbs' = SortDbs(dbs)
        \/ TooMuch
    BY <2>5 DEF Next, Tick, Restart, Flush, Rotate, RotateInto, RotateNot, UpdateSize,
                CapRemove, CapForget, CapKeep, OpenForTask, CloseIdle, CloseAndSort,
                Close, CloseOne, dbVars
  <2>7. dbs' # dbs /\ dbs' # SortDbs(dbs)
    <3>1. /\ db \in [1..n -> DbRecord] /\ dbs \in Seq(Nat) /\ IsInjective(dbs)
          /\ ToSet(dbs) \subseteq 1..n
      BY <2>1, <2>2, <2>4, StateTypes DEF TypesOK, ListsOK, LiveFrom
    <3>2. Len(SortDbs(dbs)) = z
      BY ONLY <2>3, <3>1, n \in Nat, SortDbsSorts
    <3> QED
      BY <2>3, <3>2
  <2>8. dbs[1] # L
    BY <2>2, <2>6, <2>7 DEF TooMuch, LiveFrom
  <2>9. PICK k \in 1..z : d = dbs[k]
    BY <2>3 DEF ToSet
  <2>10. \A i \in 1..z : dbs[i] \in 1..n
    <3>1. L \in 1..n /\ ToSet(dbs) \subseteq 1..L
      BY <2>2, <2>4 DEF LiveFrom
    <3>2. \A i \in 1..z : dbs[i] \in ToSet(dbs)
      BY <2>3 DEF ToSet
    <3> QED
      BY <3>1, <3>2
  <2>11. CASE k = 1
    <3>1. d \in 1..n /\ db[d].start \in Nat
      BY <2>1, <2>4, <2>9, <2>10, RecordTypes
    <3> QED
      BY <2>9, <2>11, <3>1
  <2>12. CASE k # 1
    <3>1. 1 \in 1..z /\ 1 < k
      BY <2>9, <2>12
    <3>2. dbs[1] < d
      BY <2>2, <2>3, <2>8, <2>9, <3>1 DEF ListInOrder
    <3>3. dbs[1] \in 1..n /\ d \in 1..n
      BY <2>9, <2>10, <3>1
    <3>4. db[dbs[1]].start < db[d].start
      BY <2>1, <2>4, <3>2, <3>3 DEF StartsAscend
    <3>5. db[dbs[1]].start \in Nat /\ db[d].start \in Nat
      BY <2>1, <2>4, <3>3, RecordTypes
    <3> QED
      BY <3>4, <3>5
  <2> QED
    BY <2>11, <2>12
<1> QED
  BY <1>1, ArchiveInvariant, PTL DEF Spec, RemovesOldest
=============================================================================
