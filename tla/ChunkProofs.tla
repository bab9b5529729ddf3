----------------------------- MODULE ChunkProofs -----------------------------
(***************************************************************************)
(* Theorems about the chunk list, for any finite number of writers, any    *)
(* set of entries, any capacity and any bound on the list; and, at the     *)
(* end, about the order of the entries in it, which needs the history of   *)
(* ChunkOrder.                                                             *)
(***************************************************************************)
EXTENDS ChunkOrder, TLAPS, FiniteSetTheorems

----------------------------------------------------------------------------
\* A root chunk is a state with the right types.
LEMMA InitType ==
  ASSUME NEW depth \in ChunkIds, ChunkInit(depth)
  PROVE  TypeInv
  BY CapAssumption, LastChunkAssumption, NoEntryAssumption
  DEF ChunkInit, TypeInv, TypeOK, Carrying, ChunkIds, Indexes

\* No step of the list leaves the types.
LEMMA NextType == TypeInv /\ [ChunkNext]_chunkVars => TypeInv'
<1> SUFFICES ASSUME TypeOK, Carrying, [ChunkNext]_chunkVars PROVE TypeInv'
  BY DEF TypeInv
<1> DEFINE Pcs == {"idle", "check", "book", "store", "confirm",
                   "next", "name", "returned"}
<1>0. /\ 0 \in ChunkIds /\ 0 \in 0..tail /\ 0 \in Indexes
      /\ \A c \in 0..tail : c \in ChunkIds
      /\ \A w \in Writers : at[w] \in 0..tail /\ at[w] \in ChunkIds
      /\ tail \in Nat
  <2>1. tail \in 0..LastChunk /\ \A w \in Writers : at[w] \in 0..tail
    BY DEF TypeOK, ChunkIds
  <2> QED
    BY <2>1, LastChunkAssumption, CapAssumption DEF ChunkIds, Indexes
<1>1. ASSUME NEW w \in Writers, NEW c \in ChunkIds, NEW e \in Entries,
             CallPut(w, c, e)
      PROVE  TypeInv'
  <2>1. c \in 0..tail
    BY <1>0, <1>1, LastChunkAssumption DEF CallPut, ChunkIds, TypeOK
  <2>2. pc' \in [Writers -> Pcs]
    BY <1>1 DEF CallPut, PutBegin, TypeOK
  <2>3. at' \in [Writers -> 0..tail] /\ ent' \in [Writers -> Entries \cup {NoEntry}]
    BY <1>1, <2>1 DEF CallPut, PutBegin, TypeOK
  <2>4. TypeOK'
    BY <1>1, <2>2, <2>3 DEF CallPut, PutBegin, listVars, TypeOK
  <2>5. Carrying'
    BY <1>1 DEF CallPut, PutBegin, listVars, TypeOK, Carrying
  <2> QED
    BY <2>4, <2>5 DEF TypeInv
<1>2. ASSUME NEW w \in Writers, PutCheck(w) PROVE TypeInv'
  <2>1. pc' \in [Writers -> Pcs]
    BY <1>2 DEF PutCheck, TypeOK
  <2>2. TypeOK'
    BY <1>2, <2>1 DEF PutCheck, listVars, TypeOK
  <2>3. Carrying'
    BY <1>2 DEF PutCheck, listVars, TypeOK, Carrying
  <2> QED
    BY <2>2, <2>3 DEF TypeInv
<1>3. ASSUME NEW w \in Writers, PutBook(w) PROVE TypeInv'
  <2>1. /\ UNCHANGED <<tail, id, write, slot, locked, growing,
                       todo, at, ent, moved>>
        /\ book' = [book EXCEPT ![at[w]] = @ + 1]
    BY <1>3 DEF PutBook
  <2>2. book' \in [ChunkIds -> Nat]
    BY <1>0, <2>1 DEF TypeOK
  <2>3. pc' \in [Writers -> Pcs]
    BY <1>3 DEF PutBook, TypeOK
  <2>4. idx' \in [Writers -> Indexes]
    <3>1. CASE Overflows(book[at[w]])
      BY <1>3, <3>1 DEF PutBook, BookedIndex, TypeOK
    <3>2. CASE ~Overflows(book[at[w]])
      <4>1. book[at[w]] \in Nat
        BY <1>0 DEF TypeOK
      <4>2. book[at[w]] \in Indexes
        BY <4>1, <3>2, CapAssumption DEF Overflows, Indexes
      <4>3. idx' = [idx EXCEPT ![w] = book[at[w]]]
        BY <1>3, <3>2 DEF PutBook, BookedIndex
      <4> QED
        BY <4>2, <4>3 DEF TypeOK
    <3> QED
      BY <3>1, <3>2
  <2>5. TypeOK'
    BY <2>1, <2>2, <2>3, <2>4 DEF TypeOK
  <2>6. \A v \in Writers : pc'[v] # pc[v] => pc[v] = "book" /\ pc'[v] # "name"
    BY <1>3 DEF PutBook, TypeOK
  <2>7. Carrying'
    BY <2>1, <2>6 DEF Carrying
  <2> QED
    BY <2>5, <2>7 DEF TypeInv
<1>4. ASSUME NEW w \in Writers, PutStore(w) PROVE TypeInv'
  <2>1. ent[w] \in Entries \cup {NoEntry} /\ idx[w] \in Indexes
    BY DEF TypeOK
  <2>2. slot' \in [ChunkIds -> [Indexes -> Entries \cup {NoEntry}]]
    BY <1>0, <1>4, <2>1 DEF PutStore, TypeOK
  <2>3. pc' \in [Writers -> Pcs]
    BY <1>4 DEF PutStore, TypeOK
  <2>4. TypeOK'
    BY <1>4, <2>2, <2>3 DEF PutStore, TypeOK
  <2>5. Carrying'
    BY <1>4 DEF PutStore, TypeOK, Carrying
  <2> QED
    BY <2>4, <2>5 DEF TypeInv
<1>5. ASSUME NEW w \in Writers, PutConfirm(w) PROVE TypeInv'
  <2>1. write' \in [ChunkIds -> Nat]
    BY <1>0, <1>5 DEF PutConfirm, TypeOK
  <2>2. pc' \in [Writers -> Pcs]
    BY <1>5 DEF PutConfirm, TypeOK
  <2>3. TypeOK'
    BY <1>5, <2>1, <2>2 DEF PutConfirm, TypeOK
  <2>4. Carrying'
    BY <1>5 DEF PutConfirm, TypeOK, Carrying
  <2> QED
    BY <2>3, <2>4 DEF TypeInv
<1>6. ASSUME NEW w \in Writers, NextFound(w) PROVE TypeInv'
  <2>1. at[w] + 1 \in 0..tail
    <3>1. at[w] < tail
      BY <1>6 DEF NextFound
    <3> QED
      BY <1>0, <3>1
  <2>2. at' \in [Writers -> 0..tail]
    BY <1>6, <2>1 DEF NextFound, Follow, TypeOK
  <2>3. pc' \in [Writers -> Pcs] /\ moved' \in [Writers -> BOOLEAN]
    BY <1>6 DEF NextFound, Follow, TypeOK
  <2>4. TypeOK'
    BY <1>6, <2>2, <2>3 DEF NextFound, listVars, TypeOK
  <2>5. \A v \in Writers :
           \/ v = w /\ pc'[v] = "check"
           \/ pc'[v] = pc[v] /\ at'[v] = at[v]
    <3>1. /\ pc' = [pc EXCEPT ![w] = "check"]
          /\ at' = [at EXCEPT ![w] = at[w] + 1]
      BY <1>6 DEF NextFound, Follow
    <3>2. pc \in [Writers -> Pcs] /\ at \in [Writers -> 0..tail]
      BY DEF TypeOK
    <3>3. pc'[w] = "check"
      BY <3>1, <3>2
    <3>4. \A v \in Writers \ {w} : pc'[v] = pc[v] /\ at'[v] = at[v]
      BY <3>1, <3>2
    <3> QED
      BY <3>3, <3>4
  <2>6. Carrying'
    BY <1>6, <2>5 DEF NextFound, listVars, Carrying
  <2> QED
    BY <2>4, <2>6 DEF TypeInv
<1>7. ASSUME NEW w \in Writers, NextPublish(w) PROVE TypeInv'
  <2>1. tail \in Nat /\ tail' \in ChunkIds /\ tail' = tail + 1
    BY <1>7, LastChunkAssumption DEF NextPublish, ChunkIds, TypeOK
  <2>2. at \in [Writers -> 0..tail'] /\ growing \in 0..tail'
    BY <2>1 DEF TypeOK
  <2>3. pc' \in [Writers -> Pcs]
    BY <1>7 DEF NextPublish, TypeOK
  <2>4. TypeOK'
    BY <1>7, <2>1, <2>2, <2>3 DEF NextPublish, TypeOK
  <2>5. \A v \in Writers : at[v] < tail'
    BY <2>1, <1>0
  <2>6. \A v \in Writers : pc'[v] # pc[v] => pc[v] = "next"
    BY <1>7 DEF NextPublish, TypeOK
  <2>7. Carrying'
    BY <1>7, <2>5, <2>6 DEF NextPublish, Carrying
  <2> QED
    BY <2>4, <2>7 DEF TypeInv
<1>8. ASSUME NEW w \in Writers, NextName(w) PROVE TypeInv'
  <2>1. at[w] < tail
    BY <1>8 DEF NextName, Carrying
  <2>2. at[w] + 1 \in 0..tail
    BY <1>0, <2>1
  <2>3. at' \in [Writers -> 0..tail]
    BY <1>8, <2>2 DEF NextName, Follow, TypeOK
  <2>4. id' \in [ChunkIds -> Nat]
    <3>1. id[at[w]] + 1 \in Nat
      BY <1>0 DEF TypeOK
    <3> QED
      BY <1>8, <3>1 DEF NextName, TypeOK
  <2>5. pc' \in [Writers -> Pcs] /\ moved' \in [Writers -> BOOLEAN]
    BY <1>8 DEF NextName, Follow, TypeOK
  <2>6. TypeOK'
    BY <1>8, <2>3, <2>4, <2>5 DEF NextName, TypeOK
  <2>7. \A v \in Writers :
           \/ v = w /\ pc'[v] = "check"
           \/ pc'[v] = pc[v] /\ at'[v] = at[v]
    <3>1. /\ pc' = [pc EXCEPT ![w] = "check"]
          /\ at' = [at EXCEPT ![w] = at[w] + 1]
      BY <1>8 DEF NextName, Follow
    <3>2. pc \in [Writers -> Pcs] /\ at \in [Writers -> 0..tail]
      BY DEF TypeOK
    <3>3. pc'[w] = "check"
      BY <3>1, <3>2
    <3>4. \A v \in Writers \ {w} : pc'[v] = pc[v] /\ at'[v] = at[v]
      BY <3>1, <3>2
    <3> QED
      BY <3>3, <3>4
  <2>8. Carrying'
    BY <1>8, <2>7 DEF NextName, Carrying
  <2> QED
    BY <2>6, <2>8 DEF TypeInv
<1>9. ASSUME NEW w \in Writers, PutReturn(w) PROVE TypeInv'
  <2>1. at' \in [Writers -> 0..tail] /\ idx' \in [Writers -> Indexes]
    BY <1>0, <1>9 DEF PutReturn, TypeOK
  <2>2. /\ pc' \in [Writers -> Pcs]
        /\ ent' \in [Writers -> Entries \cup {NoEntry}]
        /\ moved' \in [Writers -> BOOLEAN]
    BY <1>9 DEF PutReturn, TypeOK
  <2>3. TypeOK'
    BY <1>9, <2>1, <2>2 DEF PutReturn, listVars, TypeOK
  <2>4. Carrying'
    BY <1>9 DEF PutReturn, listVars, TypeOK, Carrying
  <2> QED
    BY <2>3, <2>4 DEF TypeInv
<1>10. ASSUME NEW c \in 0..tail, Lock(c) PROVE TypeInv'
  <2>1. locked' \in [ChunkIds -> BOOLEAN]
    BY <1>0, <1>10 DEF Lock, TypeOK
  <2>2. TypeOK' /\ Carrying'
    BY <1>10, <2>1 DEF Lock, writerVars, TypeOK, Carrying
  <2> QED
    BY <2>2 DEF TypeInv
<1>11. CASE OwnerPublish
  <2>1. tail \in Nat /\ tail' \in ChunkIds /\ tail' = tail + 1
    BY <1>11, LastChunkAssumption DEF OwnerPublish, ChunkIds, TypeOK
  <2>2. at \in [Writers -> 0..tail'] /\ growing' \in 0..tail'
    BY <1>11, <2>1 DEF OwnerPublish, TypeOK
  <2>3. TypeOK'
    BY <1>11, <2>1, <2>2 DEF OwnerPublish, writerVars, TypeOK
  <2>4. \A v \in Writers : at[v] < tail'
    BY <2>1, <1>0
  <2>5. Carrying'
    BY <1>11, <2>4 DEF OwnerPublish, writerVars, Carrying
  <2> QED
    BY <2>3, <2>5 DEF TypeInv
<1>12. CASE OwnerName
  <2>1. growing \in ChunkIds /\ growing - 1 \in ChunkIds
    <3>1. growing \in 0..tail /\ growing # 0
      BY <1>12 DEF OwnerName, TypeOK
    <3> QED
      BY <1>0, <3>1, LastChunkAssumption DEF ChunkIds
  <2>2. id[growing - 1] + 1 \in Nat
    BY <2>1 DEF TypeOK
  <2>3. id' \in [ChunkIds -> Nat]
    BY <1>12, <2>1, <2>2 DEF OwnerName, TypeOK
  <2>4. TypeOK' /\ Carrying'
    BY <1>0, <1>12, <2>3 DEF OwnerName, writerVars, TypeOK, Carrying
  <2> QED
    BY <2>4 DEF TypeInv
<1>13. CASE UNCHANGED chunkVars
  <2>1. TypeOK' /\ Carrying'
    BY <1>13 DEF chunkVars, TypeOK, Carrying
  <2> QED
    BY <2>1 DEF TypeInv
<1> QED
  BY <1>1, <1>2, <1>3, <1>4, <1>5, <1>6, <1>7, <1>8, <1>9, <1>10, <1>11,
     <1>12, <1>13 DEF ChunkNext, PutStep

\* Type correctness, for every number of writers, capacity and length.
THEOREM ChunkTypeCorrect == ChunkSpec => []TypeOK
<1>1. TypeInv => TypeOK
  BY DEF TypeInv
<1>2. (\E depth \in ChunkIds : ChunkInit(depth)) => TypeInv
  BY InitType
<1> QED
  BY <1>1, <1>2, NextType, PTL DEF ChunkSpec

----------------------------------------------------------------------------
(* Who owns which slot.                                                    *)

\* The slots and the claims on them are left alone.
Quiet ==
    /\ UNCHANGED <<book, write, slot>>
    /\ \A w \in Writers :
          Holds(w) \/ Holds(w)' =>
             pc'[w] = pc[w] /\ at'[w] = at[w] /\ idx'[w] = idx[w]

\* Only three steps of Put are not quiet: the booking, the store and the
\* confirmation (chunk.go:155, 165 and 162).
LEMMA QuietSteps ==
  ASSUME TypeInv, [ChunkNext]_chunkVars
  PROVE  Quiet \/ \E w \in Writers : PutBook(w) \/ PutStore(w) \/ PutConfirm(w)
<1> USE DEF TypeInv, TypeOK, Quiet, Holds
<1>1. ASSUME NEW w \in Writers, NEW c \in ChunkIds, NEW e \in Entries,
             CallPut(w, c, e)
      PROVE  Quiet
  BY <1>1 DEF CallPut, PutBegin, listVars
<1>2. ASSUME NEW w \in Writers, PutCheck(w) PROVE Quiet
  BY <1>2 DEF PutCheck, listVars
<1>3. ASSUME NEW w \in Writers, NextFound(w) PROVE Quiet
  BY <1>3 DEF NextFound, Follow, listVars
<1>4. ASSUME NEW w \in Writers, NextPublish(w) PROVE Quiet
  BY <1>4 DEF NextPublish
<1>5. ASSUME NEW w \in Writers, NextName(w) PROVE Quiet
  BY <1>5 DEF NextName, Follow
<1>6. ASSUME NEW w \in Writers, PutReturn(w) PROVE Quiet
  BY <1>6 DEF PutReturn, listVars
<1>7. ASSUME NEW c \in 0..tail, Lock(c) PROVE Quiet
  BY <1>7 DEF Lock, writerVars
<1>8. CASE OwnerPublish
  BY <1>8 DEF OwnerPublish, writerVars
<1>9. CASE OwnerName
  BY <1>9 DEF OwnerName, writerVars
<1>10. CASE UNCHANGED chunkVars
  BY <1>10 DEF chunkVars
<1> QED
  BY <1>1, <1>2, <1>3, <1>4, <1>5, <1>6, <1>7, <1>8, <1>9, <1>10
  DEF ChunkNext, PutStep

\* A writer's chunk is a chunk.
LEMMA AtIsChunk == ASSUME TypeInv, NEW w \in Writers PROVE at[w] \in ChunkIds
  BY LastChunkAssumption DEF TypeInv, TypeOK, ChunkIds

\* Ownership is kept: a booked index is new, because book only grows.
LEMMA NextOwnership ==
  TypeInv /\ Ownership /\ [ChunkNext]_chunkVars => Ownership'
<1> SUFFICES ASSUME TypeInv, Ownership, [ChunkNext]_chunkVars
             PROVE  Ownership'
  OBVIOUS
<1> USE DEF TypeInv, TypeOK
<1>1. CASE Quiet
  BY <1>1 DEF Quiet, Ownership, Holds, FreshAreNil, ClaimsAreBooked,
              ClaimsAreDistinct, ClaimsAreNil, HolesAreClaimed
<1>2. ASSUME NEW w \in Writers, PutBook(w) PROVE Ownership'
  <2> DEFINE c == at[w]
  <2>1. c \in ChunkIds /\ book[c] \in Nat
    BY AtIsChunk
  <2>2. book' = [book EXCEPT ![c] = book[c] + 1] /\ UNCHANGED <<slot, at>>
    BY <1>2 DEF PutBook
  <2> HIDE DEF c
  <2>3. \A d \in ChunkIds : book[d] \in Nat /\ book'[d] \in Nat
                            /\ book[d] <= book'[d]
    BY <2>1, <2>2
  <2>4. CASE Overflows(book[at[w]])
    <3>1. Cap <= book[c]
      BY <2>1, <2>4, CapAssumption DEF Overflows, c
    <3>2. pc' = [pc EXCEPT ![w] = "next"] /\ idx' = idx /\ ~Holds(w)
      BY <1>2, <2>4 DEF PutBook, BookedIndex, Holds
    <3>3. \A v \in Writers : Holds(v)' <=> Holds(v)
      BY <3>2 DEF Holds
    <3>4. FreshAreNil'
      BY <2>2, <2>3 DEF Ownership, FreshAreNil, Indexes
    <3>5. ClaimsAreBooked'
      BY <2>2, <2>3, <3>2, <3>3, AtIsChunk
      DEF Ownership, ClaimsAreBooked, Indexes
    <3>6. ClaimsAreDistinct' /\ ClaimsAreNil'
      BY <2>2, <3>2, <3>3 DEF Ownership, ClaimsAreDistinct, ClaimsAreNil
    <3>7. HolesAreClaimed'
      BY <2>1, <2>2, <3>1, <3>2, CapAssumption
      DEF Ownership, HolesAreClaimed, Indexes, Holds
    <3> QED
      BY <3>4, <3>5, <3>6, <3>7 DEF Ownership
  <2>5. CASE ~Overflows(book[at[w]])
    <3>1. book[c] \in Indexes
      BY <2>1, <2>5, CapAssumption DEF Overflows, Indexes, c
    <3>2. /\ pc' = [pc EXCEPT ![w] = "store"]
          /\ idx' = [idx EXCEPT ![w] = book[c]]
          /\ ~Holds(w)
      BY <1>2, <2>5 DEF PutBook, BookedIndex, Holds, c
    <3>3. \A v \in Writers \ {w} :
             (Holds(v)' <=> Holds(v)) /\ idx'[v] = idx[v] /\ pc'[v] = pc[v]
      BY <3>2 DEF Holds
    <3>4. pc'[w] = "store" /\ idx'[w] = book[c] /\ at[w] = c
      BY <3>2 DEF c
    <3>5. FreshAreNil'
      BY <2>2, <2>3 DEF Ownership, FreshAreNil, Indexes
    <3>6. ClaimsAreBooked'
      <4> SUFFICES ASSUME NEW v \in Writers, Holds(v)'
                   PROVE  idx'[v] < book'[at[v]]
        BY <2>2 DEF ClaimsAreBooked
      <4>1. CASE v = w
        BY <4>1, <2>1, <2>2, <3>4
      <4>2. CASE v # w
        <5>1. idx[v] < book[at[v]] /\ at[v] \in ChunkIds /\ idx[v] \in Indexes
          BY <4>2, <3>3, AtIsChunk DEF Ownership, ClaimsAreBooked
        <5> QED
          BY <4>2, <5>1, <2>3, <3>3 DEF Indexes
      <4> QED
        BY <4>1, <4>2
    <3>7. ClaimsAreDistinct'
      <4>1. \A v \in Writers \ {w} : Holds(v) /\ at[v] = c => idx[v] # book[c]
        BY <2>1 DEF Ownership, ClaimsAreBooked, Indexes
      <4> QED
        BY <4>1, <2>2, <3>3, <3>4 DEF Ownership, ClaimsAreDistinct
    <3>8. ClaimsAreNil'
      BY <2>1, <2>2, <3>1, <3>3, <3>4
      DEF Ownership, ClaimsAreNil, FreshAreNil
    <3>9. HolesAreClaimed'
      <4> SUFFICES ASSUME NEW d \in ChunkIds, NEW i \in Indexes,
                          i < book'[d], slot[d][i] = NoEntry
                   PROVE  \E v \in Writers :
                             pc'[v] = "store" /\ at[v] = d /\ idx'[v] = i
        BY <2>2 DEF HolesAreClaimed
      <4>1. CASE i < book[d]
        <5>1. PICK v \in Writers : pc[v] = "store" /\ at[v] = d /\ idx[v] = i
          BY <4>1 DEF Ownership, HolesAreClaimed
        <5> QED
          BY <5>1, <3>2, <3>3 DEF Holds
      <4>2. CASE ~(i < book[d])
        <5>1. d = c /\ i = book[c]
          BY <4>2, <2>1, <2>2, <3>1 DEF Indexes
        <5> QED
          BY <5>1, <3>4
      <4> QED
        BY <4>1, <4>2
    <3> QED
      BY <3>5, <3>6, <3>7, <3>8, <3>9 DEF Ownership
  <2> QED
    BY <2>4, <2>5
<1>3. ASSUME NEW w \in Writers, PutStore(w) PROVE Ownership'
  <2>1. /\ at[w] \in ChunkIds /\ idx[w] \in Indexes
        /\ ent[w] # NoEntry
    BY <1>3, AtIsChunk, NoEntryAssumption DEF PutStore, Carrying
  <2>2. /\ pc[w] = "store"
        /\ pc' = [pc EXCEPT ![w] = "confirm"]
        /\ slot' = [slot EXCEPT ![at[w]] = [@ EXCEPT ![idx[w]] = ent[w]]]
        /\ UNCHANGED <<book, at, idx>>
    BY <1>3 DEF PutStore
  <2>3. /\ \A v \in Writers : Holds(v)' <=> Holds(v)
        /\ \A v \in Writers : pc'[v] = "store" => pc[v] = "store" /\ v # w
    BY <2>2 DEF Holds
  <2>4. \A d \in ChunkIds, i \in Indexes :
           slot'[d][i] = IF d = at[w] /\ i = idx[w] THEN ent[w] ELSE slot[d][i]
    BY <2>1, <2>2
  <2>5. FreshAreNil'
    BY <2>1, <2>2, <2>4
    DEF Ownership, FreshAreNil, ClaimsAreBooked, Holds, Indexes
  <2>6. ClaimsAreBooked' /\ ClaimsAreDistinct'
    BY <2>2, <2>3 DEF Ownership, ClaimsAreBooked, ClaimsAreDistinct
  <2>7. ClaimsAreNil'
    BY <2>2, <2>3, <2>4, AtIsChunk
    DEF Ownership, ClaimsAreNil, ClaimsAreDistinct, Holds
  <2>8. HolesAreClaimed'
    <3> SUFFICES ASSUME NEW d \in ChunkIds, NEW i \in Indexes,
                        i < book[d], slot'[d][i] = NoEntry
                 PROVE  \E v \in Writers :
                           pc'[v] = "store" /\ at[v] = d /\ idx[v] = i
      BY <2>2 DEF HolesAreClaimed
    <3>1. ~(d = at[w] /\ i = idx[w]) /\ slot[d][i] = NoEntry
      BY <2>1, <2>4
    <3>2. PICK v \in Writers : pc[v] = "store" /\ at[v] = d /\ idx[v] = i
      BY <3>1 DEF Ownership, HolesAreClaimed
    <3> QED
      BY <2>2, <3>1, <3>2
  <2> QED
    BY <2>5, <2>6, <2>7, <2>8 DEF Ownership
<1>4. ASSUME NEW w \in Writers, PutConfirm(w) PROVE Ownership'
  <2>1. /\ \A v \in Writers : Holds(v)' => Holds(v)
        /\ \A v \in Writers : pc'[v] = "store" <=> pc[v] = "store"
        /\ UNCHANGED <<book, slot, at, idx>>
    BY <1>4 DEF PutConfirm, Holds
  <2> QED
    BY <2>1 DEF Ownership, FreshAreNil, ClaimsAreBooked, ClaimsAreDistinct,
                ClaimsAreNil, HolesAreClaimed
<1> QED
  BY <1>1, <1>2, <1>3, <1>4, QuietSteps

----------------------------------------------------------------------------
(* What Ready and List may rely on.                                        *)

\* Finitely many writers hold slots of a chunk.
LEMMA PendingFinite ==
  ASSUME NEW c
  PROVE  IsFiniteSet(Pending(c)) /\ Cardinality(Pending(c)) \in Nat
<1>1. Pending(c) \subseteq Writers
  BY DEF Pending
<1> QED
  BY <1>1, WritersAssumption, FS_Subset, FS_CardinalityType

\* No slot is taken at the start.
LEMMA InitCounting ==
  ASSUME NEW depth \in ChunkIds, ChunkInit(depth)
  PROVE  Counting
<1> SUFFICES ASSUME NEW c \in ChunkIds
             PROVE  write[c] + Cardinality(Pending(c)) = Taken(c)
  BY DEF Counting
<1>1. Pending(c) = {}
  BY DEF ChunkInit, Pending, Holds
<1> QED
  BY <1>1, FS_EmptySet, CapAssumption DEF ChunkInit, Taken

\* Counting is kept: a booking below Cap adds a holder, a confirmation turns
\* a holder into a write, and a booking beyond Cap changes nothing.
LEMMA NextCounting == TypeInv /\ Counting /\ [ChunkNext]_chunkVars => Counting'
<1> SUFFICES ASSUME TypeInv, Counting, [ChunkNext]_chunkVars,
                    NEW c \in ChunkIds
             PROVE  write'[c] + Cardinality(Pending(c)') = Taken(c)'
  BY DEF Counting
<1>0. /\ write[c] + Cardinality(Pending(c)) = Taken(c)
      /\ write[c] \in Nat /\ book[c] \in Nat
      /\ IsFiniteSet(Pending(c)) /\ Cardinality(Pending(c)) \in Nat
  BY PendingFinite DEF Counting, TypeInv, TypeOK
<1>1. CASE Quiet
  <2>1. Pending(c)' = Pending(c)
    BY <1>1 DEF Quiet, Pending, Holds
  <2> QED
    BY <1>0, <1>1, <2>1 DEF Quiet, Taken
<1>2. ASSUME NEW w \in Writers, PutBook(w)
      PROVE  write'[c] + Cardinality(Pending(c)') = Taken(c)'
  <2>1. /\ book' = [book EXCEPT ![at[w]] = @ + 1]
        /\ UNCHANGED <<write, at>>
        /\ ~Holds(w)
    BY <1>2 DEF PutBook, Holds
  <2>2. at[w] \in ChunkIds
    BY AtIsChunk
  <2>3. \A v \in Writers \ {w} : Holds(v)' <=> Holds(v)
    BY <1>2 DEF PutBook, Holds, TypeInv, TypeOK
  <2>4. CASE c # at[w]
    <3>1. Pending(c)' = Pending(c)
      BY <2>1, <2>3, <2>4 DEF Pending
    <3> QED
      BY <1>0, <2>1, <2>4, <3>1 DEF Taken, TypeInv, TypeOK
  <2>5. CASE c = at[w] /\ Overflows(book[c])
    <3>1. ~Holds(w)'
      BY <1>2, <2>5 DEF PutBook, BookedIndex, Holds, TypeInv, TypeOK
    <3>2. Pending(c)' = Pending(c)
      BY <2>1, <2>3, <3>1 DEF Pending
    <3>3. book'[c] = book[c] + 1
      BY <2>1, <2>2, <2>5 DEF TypeInv, TypeOK
    <3> QED
      BY <1>0, <2>1, <2>5, <3>2, <3>3, CapAssumption DEF Taken, Overflows
  <2>6. CASE c = at[w] /\ ~Overflows(book[c])
    <3>1. Holds(w)'
      BY <1>2, <2>6 DEF PutBook, BookedIndex, Holds, TypeInv, TypeOK
    <3>2. Pending(c)' = Pending(c) \cup {w} /\ w \notin Pending(c)
      BY <2>1, <2>3, <2>6, <3>1 DEF Pending
    <3>3. Cardinality(Pending(c)') = Cardinality(Pending(c)) + 1
      BY <1>0, <3>2, FS_AddElement
    <3>4. book'[c] = book[c] + 1
      BY <2>1, <2>2, <2>6 DEF TypeInv, TypeOK
    <3> QED
      BY <1>0, <2>1, <2>6, <3>3, <3>4, CapAssumption DEF Taken, Overflows
  <2> QED
    BY <2>4, <2>5, <2>6
<1>3. ASSUME NEW w \in Writers, PutStore(w)
      PROVE  write'[c] + Cardinality(Pending(c)') = Taken(c)'
  <2>1. Pending(c)' = Pending(c)
    BY <1>3 DEF PutStore, Pending, Holds, TypeInv, TypeOK
  <2> QED
    BY <1>0, <1>3, <2>1 DEF PutStore, Taken
<1>4. ASSUME NEW w \in Writers, PutConfirm(w)
      PROVE  write'[c] + Cardinality(Pending(c)') = Taken(c)'
  <2>1. /\ write' = [write EXCEPT ![at[w]] = @ + 1]
        /\ UNCHANGED <<book, at>>
        /\ Holds(w) /\ ~Holds(w)'
        /\ \A v \in Writers \ {w} : Holds(v)' <=> Holds(v)
    BY <1>4 DEF PutConfirm, Holds, TypeInv, TypeOK
  <2>2. at[w] \in ChunkIds
    BY AtIsChunk
  <2>3. CASE c # at[w]
    <3>1. Pending(c)' = Pending(c)
      BY <2>1, <2>3 DEF Pending
    <3> QED
      BY <1>0, <2>1, <2>3, <3>1 DEF Taken, TypeInv, TypeOK
  <2>4. CASE c = at[w]
    <3>1. Pending(c)' = Pending(c) \ {w} /\ w \in Pending(c)
      BY <2>1, <2>4 DEF Pending
    <3>2. Cardinality(Pending(c)') = Cardinality(Pending(c)) - 1
      BY <1>0, <3>1, FS_RemoveElement
    <3>3. write'[c] = write[c] + 1
      BY <2>1, <2>2, <2>4 DEF TypeInv, TypeOK
    <3> QED
      BY <1>0, <2>1, <3>2, <3>3 DEF Taken
  <2> QED
    BY <2>3, <2>4
<1> QED
  BY <1>1, <1>2, <1>3, <1>4, QuietSteps

----------------------------------------------------------------------------
(* Where a writer may be.                                                  *)

\* A chunk never takes entries again: nothing clears locked, book only grows.
LEMMA SealedStays ==
  ASSUME TypeInv, [ChunkNext]_chunkVars, NEW c \in ChunkIds, Sealed(c)
  PROVE  Sealed(c)'
<1> USE DEF TypeInv, TypeOK, Sealed, Locked
<1>1. CASE Quiet /\ ~\E k \in 0..tail : Lock(k)
  <2>1. UNCHANGED locked
    BY <1>1
    DEF ChunkNext, PutStep, CallPut, PutBegin, PutCheck, PutBook, PutStore, PutConfirm,
        NextFound, NextPublish, NextName, PutReturn, OwnerPublish, OwnerName,
        chunkVars, listVars
  <2> QED
    BY <1>1, <2>1 DEF Quiet
<1>2. ASSUME NEW k \in 0..tail, Lock(k) PROVE Sealed(c)'
  BY <1>2 DEF Lock
<1>3. ASSUME NEW w \in Writers, PutBook(w) PROVE Sealed(c)'
  <2>1. book'[c] \in Nat /\ book[c] \in Nat /\ book[c] <= book'[c]
    BY <1>3 DEF PutBook
  <2> QED
    BY <1>3, <2>1, CapAssumption DEF PutBook
<1>4. ASSUME NEW w \in Writers, PutStore(w) \/ PutConfirm(w) PROVE Sealed(c)'
  BY <1>4 DEF PutStore, PutConfirm
<1> QED
  BY <1>1, <1>2, <1>3, <1>4, QuietSteps

\* A writer gets to a chunk by way of sealed chunks only, so what it writes
\* goes to the first chunk that can take it.
LEMMA NextPassing == TypeInv /\ Passing /\ [ChunkNext]_chunkVars => Passing'
<1> SUFFICES ASSUME TypeInv, Passing, [ChunkNext]_chunkVars PROVE Passing'
  OBVIOUS
<1> DEFINE Before(c) == \A k \in 0..(c - 1) : Sealed(k)
<1> DEFINE SealedNext(c) == locked'[c] \/ book'[c] > Cap
<1> DEFINE BeforeNext(c) == \A k \in 0..(c - 1) : SealedNext(k)
<1>0. \A c \in ChunkIds : Sealed(c) => SealedNext(c)
  BY SealedStays DEF Sealed, Locked
<1>1. ASSUME NEW c \in ChunkIds, Before(c) PROVE BeforeNext(c)
  <2>1. 0..(c - 1) \subseteq ChunkIds
    BY LastChunkAssumption DEF ChunkIds
  <2> QED
    BY <1>0, <1>1, <2>1
<1>2. \A w \in Writers : at[w] \in ChunkIds
  BY AtIsChunk
<1>3. /\ \A c \in ChunkIds : ~Empty(c) => Before(c)
      /\ \A w \in Writers : pc[w] # "idle" => Before(at[w])
      /\ \A w \in Writers : pc[w] \in {"next", "name"} => Sealed(at[w])
  BY DEF Passing, FirstOpenChunk
<1>4. TypeInv'
  BY NextType
<1> HIDE DEF Before, BeforeNext, SealedNext
<1>5. ASSUME NEW w \in Writers,
             PutCheck(w) \/ PutBook(w) \/ PutStore(w) \/ PutConfirm(w)
                \/ NextPublish(w)
      PROVE  /\ at' = at /\ pc[w] # "idle"
             /\ \A v \in Writers \ {w} : pc'[v] = pc[v]
             /\ pc'[w] \in {"next", "name"} => SealedNext(at[w])
  <2>1. CASE PutCheck(w)
    BY <2>1 DEF PutCheck, SealedNext, Locked, listVars, TypeInv, TypeOK
  <2>2. CASE PutBook(w)
    <3>1. /\ at' = at /\ pc[w] # "idle"
          /\ \A v \in Writers \ {w} : pc'[v] = pc[v]
      BY <2>2 DEF PutBook, TypeInv, TypeOK
    <3>2. CASE Overflows(book[at[w]])
      <4>1. book[at[w]] \in Nat /\ book'[at[w]] = book[at[w]] + 1
        BY <1>2, <2>2 DEF PutBook, TypeInv, TypeOK
      <4>2. book'[at[w]] > Cap
        BY <3>2, <4>1, CapAssumption DEF Overflows
      <4> QED
        BY <3>1, <4>2 DEF SealedNext
    <3>3. CASE ~Overflows(book[at[w]])
      BY <2>2, <3>1, <3>3 DEF PutBook, BookedIndex, TypeInv, TypeOK
    <3> QED
      BY <3>2, <3>3
  <2>3. CASE PutStore(w) \/ PutConfirm(w)
    BY <2>3 DEF PutStore, PutConfirm, TypeInv, TypeOK
  <2>4. CASE NextPublish(w)
    <3>1. Sealed(at[w])
      BY <1>3, <2>4 DEF NextPublish
    <3>2. SealedNext(at[w])
      BY <1>0, <1>2, <3>1
    <3> QED
      BY <2>4, <3>2 DEF NextPublish, TypeInv, TypeOK
  <2> QED
    BY <1>5, <2>1, <2>2, <2>3, <2>4
<1>6. \A c \in ChunkIds : ~Empty(c)' => BeforeNext(c)
  <2> SUFFICES ASSUME NEW c \in ChunkIds, ~Empty(c)' PROVE BeforeNext(c)
    OBVIOUS
  <2>1. CASE ~Empty(c)
    BY <1>1, <1>3, <2>1
  <2>2. CASE Empty(c)
    <3>1. PICK w \in Writers : PutBook(w)
      BY <2>2, QuietSteps DEF Quiet, PutStore, PutConfirm, Empty
    <3>2. c = at[w] /\ pc[w] # "idle"
      BY <2>2, <3>1 DEF PutBook, Empty, TypeInv, TypeOK
    <3> QED
      BY <1>1, <1>3, <3>2
  <2> QED
    BY <2>1, <2>2
<1>7. ASSUME NEW w \in Writers
      PROVE  /\ pc'[w] # "idle" => BeforeNext(at'[w])
             /\ pc'[w] \in {"next", "name"} => SealedNext(at'[w])
  <2>1. CASE pc'[w] = pc[w] /\ at'[w] = at[w]
    BY <1>0, <1>1, <1>2, <1>3, <2>1
  <2>2. ASSUME NEW v \in Writers, NEW c \in ChunkIds, NEW e \in Entries,
               CallPut(v, c, e), w = v
        PROVE  BeforeNext(at'[w]) /\ pc'[w] = "check"
    <3>1. at'[w] = c /\ pc'[w] = "check" /\ (c = 0 \/ ~Empty(c))
      BY <2>2 DEF CallPut, PutBegin, TypeInv, TypeOK
    <3>2. Before(c)
      BY <1>3, <3>1 DEF Before
    <3> QED
      BY <1>1, <3>1, <3>2
  <2>3. ASSUME NextFound(w) \/ NextName(w)
        PROVE  BeforeNext(at'[w]) /\ pc'[w] = "check"
    <3>1. /\ at'[w] = at[w] + 1 /\ pc'[w] = "check"
          /\ Before(at[w]) /\ Sealed(at[w])
      BY <1>2, <1>3, <2>3 DEF NextFound, NextName, Follow, TypeInv, TypeOK
    <3>2. at'[w] \in ChunkIds /\ at[w] \in ChunkIds
      <4>1. at'[w] \in 0..tail' /\ tail' \in ChunkIds
        BY <1>4 DEF TypeInv, TypeOK
      <4> QED
        BY <1>2, <4>1, LastChunkAssumption DEF ChunkIds
    <3>3. Before(at[w] + 1)
      BY <3>1, <3>2, LastChunkAssumption DEF Before, ChunkIds
    <3> QED
      BY <1>1, <3>1, <3>2, <3>3
  <2>4. CASE PutReturn(w)
    BY <2>4 DEF PutReturn, TypeInv, TypeOK
  <2>5. ASSUME PutCheck(w) \/ PutBook(w) \/ PutStore(w) \/ PutConfirm(w)
                  \/ NextPublish(w)
        PROVE  /\ BeforeNext(at'[w])
               /\ pc'[w] \in {"next", "name"} => SealedNext(at'[w])
    BY <1>1, <1>2, <1>3, <1>5, <2>5
  <2>6. ASSUME NEW v \in Writers, PutStep(v), v # w
        PROVE  pc'[w] = pc[w] /\ at'[w] = at[w]
    BY <2>6 DEF PutStep, PutCheck, PutBook, PutStore, PutConfirm, NextFound,
                NextPublish, NextName, PutReturn, Follow, TypeInv, TypeOK
  <2>7. ASSUME NEW v \in Writers, NEW c \in ChunkIds, NEW e \in Entries,
               CallPut(v, c, e), w # v
        PROVE  pc'[w] = pc[w] /\ at'[w] = at[w]
    BY <2>7 DEF CallPut, PutBegin, TypeInv, TypeOK
  <2>8. ASSUME \/ \E c \in 0..tail : Lock(c)
               \/ OwnerPublish
               \/ OwnerName
               \/ UNCHANGED chunkVars
        PROVE  pc'[w] = pc[w] /\ at'[w] = at[w]
    BY <2>8 DEF Lock, OwnerPublish, OwnerName, writerVars, chunkVars
  <2> QED
    BY <2>1, <2>2, <2>3, <2>4, <2>5, <2>6, <2>7, <2>8 DEF ChunkNext, PutStep
<1> QED
  BY <1>6, <1>7
  DEF Passing, FirstOpenChunk, BeforeNext, SealedNext, Sealed, Locked

----------------------------------------------------------------------------
(* Where an entry is.                                                      *)

LEMMA NextCarriedOnce ==
  TypeInv /\ CarriedOnce /\ [ChunkNext]_chunkVars => CarriedOnce'
<1> SUFFICES ASSUME TypeInv, CarriedOnce, [ChunkNext]_chunkVars
             PROVE  CarriedOnce'
  OBVIOUS
<1> USE DEF TypeInv, TypeOK
<1>1. ASSUME NEW w \in Writers, NEW c \in ChunkIds, NEW e \in Entries,
             CallPut(w, c, e)
      PROVE  CarriedOnce'
  <2>1. /\ e \in todo /\ todo' = todo \ {e}
        /\ ent' = [ent EXCEPT ![w] = e]
        /\ pc' = [pc EXCEPT ![w] = "check"]
    BY <1>1 DEF CallPut, PutBegin
  <2> QED
    BY <2>1 DEF CarriedOnce
<1>2. ASSUME NEW w \in Writers, PutReturn(w) PROVE CarriedOnce'
  BY <1>2, NoEntryAssumption DEF CarriedOnce, PutReturn
<1>3. ASSUME NEW w \in Writers, PutStep(w), ~PutReturn(w)
      PROVE  CarriedOnce'
  <2>1. /\ todo' = todo /\ ent' = ent
        /\ \A v \in Writers : pc'[v] = "idle" <=> pc[v] = "idle"
    BY <1>3 DEF PutStep, PutCheck, PutBook, PutStore, PutConfirm, NextFound,
                NextPublish, NextName, Follow
  <2> QED
    BY <2>1 DEF CarriedOnce
<1>4. ASSUME \/ \E c \in 0..tail : Lock(c)
             \/ OwnerPublish
             \/ OwnerName
             \/ UNCHANGED chunkVars
      PROVE  CarriedOnce'
  BY <1>4 DEF CarriedOnce, Lock, OwnerPublish, OwnerName, writerVars, chunkVars
<1> QED
  BY <1>1, <1>2, <1>3, <1>4 DEF ChunkNext

LEMMA NextStoredOnce ==
  /\ TypeInv /\ Ownership /\ CarriedOnce /\ StoredOnce
  /\ [ChunkNext]_chunkVars
  => StoredOnce'
<1> SUFFICES ASSUME TypeInv, Ownership, CarriedOnce, StoredOnce,
                    [ChunkNext]_chunkVars
             PROVE  StoredOnce'
  OBVIOUS
<1> USE DEF TypeInv, TypeOK, Carries
<1>1. ASSUME NEW w \in Writers, NEW c \in ChunkIds, NEW e \in Entries,
             CallPut(w, c, e)
      PROVE  StoredOnce'
  <2>1. /\ e \in todo /\ todo' = todo \ {e} /\ slot' = slot
        /\ ent' = [ent EXCEPT ![w] = e]
        /\ pc' = [pc EXCEPT ![w] = "check"]
    BY <1>1 DEF CallPut, PutBegin, listVars
  <2> QED
    BY <2>1 DEF StoredOnce
<1>2. ASSUME NEW w \in Writers, PutStore(w) PROVE StoredOnce'
  <2> DEFINE c == at[w]  i == idx[w]  e == ent[w]
  <2>1. /\ c \in ChunkIds /\ i \in Indexes /\ pc[w] = "store"
        /\ slot' = [slot EXCEPT ![c][i] = e]
        /\ pc' = [pc EXCEPT ![w] = "confirm"]
        /\ ent' = ent /\ todo' = todo
    BY <1>2, AtIsChunk DEF PutStore
  <2>2. \A d \in ChunkIds, j \in Indexes :
           slot'[d][j] = IF d = c /\ j = i THEN e ELSE slot[d][j]
    BY <2>1
  <2>3. e \notin todo /\ \A d \in ChunkIds, j \in Indexes : slot[d][j] # e
    BY <2>1 DEF CarriedOnce, StoredOnce
  <2>4. \A v \in Writers : Carries(v)' => Carries(v) /\ v # w /\ ent[v] # e
    BY <2>1 DEF CarriedOnce
  <2> HIDE DEF c, i, e
  <2>5. \A d \in ChunkIds, j \in Indexes : slot'[d][j] \notin todo'
    BY <2>1, <2>2, <2>3 DEF StoredOnce
  <2>6. \A v \in Writers, d \in ChunkIds, j \in Indexes :
           Carries(v)' => slot'[d][j] # ent'[v]
    BY <2>1, <2>2, <2>4 DEF StoredOnce
  <2>7. \A d, d2 \in ChunkIds, j, j2 \in Indexes :
           slot'[d][j] # NoEntry /\ slot'[d][j] = slot'[d2][j2]
              => d = d2 /\ j = j2
    BY <2>2, <2>3 DEF StoredOnce
  <2> QED
    BY <2>5, <2>6, <2>7 DEF StoredOnce
<1>3. ASSUME NEW w \in Writers, PutStep(w), ~PutStore(w)
      PROVE  StoredOnce'
  <2>1. /\ todo' = todo /\ slot' = slot
        /\ \A v \in Writers : Carries(v)' => Carries(v) /\ ent'[v] = ent[v]
    BY <1>3 DEF PutStep, PutCheck, PutBook, PutConfirm, NextFound,
                NextPublish, NextName, PutReturn, Follow, listVars
  <2> QED
    BY <2>1 DEF StoredOnce
<1>4. ASSUME \/ \E c \in 0..tail : Lock(c)
             \/ OwnerPublish
             \/ OwnerName
             \/ UNCHANGED chunkVars
      PROVE  StoredOnce'
  BY <1>4 DEF StoredOnce, Lock, OwnerPublish, OwnerName, writerVars, chunkVars
<1> QED
  BY <1>1, <1>2, <1>3, <1>4 DEF ChunkNext

\* No step takes a booking back.
LEMMA BookGrows ==
  ASSUME TypeInv, [ChunkNext]_chunkVars, NEW c \in ChunkIds
  PROVE  book'[c] = book[c] \/ book'[c] = book[c] + 1
<1>1. ASSUME NEW v \in Writers, PutBook(v)
      PROVE  book'[c] = book[c] \/ book'[c] = book[c] + 1
  BY <1>1 DEF PutBook, TypeInv, TypeOK
<1>2. CASE Quiet \/ \E v \in Writers : PutStore(v) \/ PutConfirm(v)
  BY <1>2 DEF Quiet, PutStore, PutConfirm
<1> QED
  BY <1>1, <1>2, QuietSteps

LEMMA NextLanding ==
  TypeInv /\ Ownership /\ Landing /\ [ChunkNext]_chunkVars => Landing'
<1> SUFFICES ASSUME TypeInv, Ownership, Landing, [ChunkNext]_chunkVars,
                    NEW w \in Writers, pc'[w] = "returned"
             PROVE  ~Empty(at[w])'
  BY DEF Landing
<1> USE DEF TypeInv, TypeOK
<1>1. at[w] \in ChunkIds /\ book[at[w]] \in Nat
  BY AtIsChunk
<1>2. \/ pc[w] = "returned" /\ at'[w] = at[w]
      \/ PutConfirm(w)
  <2>1. CASE PutStep(w)
    BY <2>1 DEF PutStep, PutCheck, PutBook, PutStore, NextFound, NextPublish,
                NextName, PutReturn, Follow
  <2>2. ASSUME NEW v \in Writers, PutStep(v), v # w
        PROVE  pc'[w] = pc[w] /\ at'[w] = at[w]
    BY <2>2 DEF PutStep, PutCheck, PutBook, PutStore, PutConfirm, NextFound,
                NextPublish, NextName, PutReturn, Follow
  <2>3. ASSUME NEW v \in Writers, NEW c \in ChunkIds, NEW e \in Entries,
               CallPut(v, c, e)
        PROVE  pc'[w] = pc[w] /\ at'[w] = at[w]
    BY <2>3 DEF CallPut, PutBegin
  <2>4. ASSUME \/ \E c \in 0..tail : Lock(c)
               \/ OwnerPublish
               \/ OwnerName
               \/ UNCHANGED chunkVars
        PROVE  pc'[w] = pc[w] /\ at'[w] = at[w]
    BY <2>4 DEF Lock, OwnerPublish, OwnerName, writerVars, chunkVars
  <2> QED
    BY <2>1, <2>2, <2>3, <2>4 DEF ChunkNext
<1>3. book[at[w]] # 0 /\ at'[w] = at[w]
  <2>1. CASE PutConfirm(w)
    BY <1>1, <2>1 DEF PutConfirm, Ownership, ClaimsAreBooked, Holds, Indexes
  <2> QED
    BY <1>2, <2>1 DEF Landing, Empty
<1> QED
  BY <1>1, <1>3, BookGrows DEF Empty

\* No entry gets lost on its way into a slot.
LEMMA NextKept ==
  TypeInv /\ Ownership /\ Kept /\ [ChunkNext]_chunkVars => Kept'
<1> SUFFICES ASSUME TypeInv, Ownership, Kept, [ChunkNext]_chunkVars,
                    NEW e \in Entries, e \notin todo'
             PROVE  \/ \E w \in Writers : Carries(w)' /\ ent'[w] = e
                    \/ \E c \in ChunkIds, i \in Indexes : slot'[c][i] = e
  BY DEF Kept
<1> USE DEF TypeInv, TypeOK, Carries
<1> DEFINE Goal == \/ \E w \in Writers : Carries(w)' /\ ent'[w] = e
                   \/ \E c \in ChunkIds, i \in Indexes : slot'[c][i] = e
<1>1. ASSUME NEW w \in Writers, NEW c \in ChunkIds, NEW d \in Entries,
             CallPut(w, c, d)
      PROVE  Goal
  <2>1. /\ pc[w] = "idle" /\ todo' = todo \ {d} /\ slot' = slot
        /\ ent' = [ent EXCEPT ![w] = d]
        /\ pc' = [pc EXCEPT ![w] = "check"]
    BY <1>1 DEF CallPut, PutBegin, listVars
  <2> QED
    BY <2>1 DEF Kept
<1>2. ASSUME NEW w \in Writers, PutStore(w) PROVE Goal
  <2>1. /\ at[w] \in ChunkIds /\ idx[w] \in Indexes /\ pc[w] = "store"
        /\ slot' = [slot EXCEPT ![at[w]][idx[w]] = ent[w]]
        /\ pc' = [pc EXCEPT ![w] = "confirm"] /\ ent' = ent /\ todo' = todo
        /\ slot[at[w]][idx[w]] = NoEntry
    BY <1>2, AtIsChunk DEF PutStore, Ownership, ClaimsAreNil
  <2>2. \A c \in ChunkIds, i \in Indexes :
           slot'[c][i] = IF c = at[w] /\ i = idx[w] THEN ent[w] ELSE slot[c][i]
    BY <2>1
  <2>3. CASE ent[w] = e
    BY <2>1, <2>2, <2>3
  <2>4. CASE ent[w] # e
    <3>1. ASSUME NEW v \in Writers, Carries(v), ent[v] = e
          PROVE  Carries(v)' /\ ent'[v] = e
      BY <2>1, <2>4, <3>1
    <3>2. ASSUME NEW c \in ChunkIds, NEW i \in Indexes, slot[c][i] = e
          PROVE  slot'[c][i] = e
      BY <2>1, <2>2, <3>2, NoEntryAssumption
    <3> QED
      BY <2>1, <3>1, <3>2 DEF Kept
  <2> QED
    BY <2>3, <2>4
<1>3. ASSUME NEW w \in Writers, PutStep(w), ~PutStore(w) PROVE Goal
  <2>1. /\ todo' = todo /\ slot' = slot
        /\ \A v \in Writers : Carries(v) => Carries(v)' /\ ent'[v] = ent[v]
    BY <1>3 DEF PutStep, PutCheck, PutBook, PutConfirm, NextFound,
                NextPublish, NextName, PutReturn, Follow, listVars
  <2> QED
    BY <2>1 DEF Kept
<1>4. ASSUME \/ \E c \in 0..tail : Lock(c)
             \/ OwnerPublish
             \/ OwnerName
             \/ UNCHANGED chunkVars
      PROVE  Goal
  BY <1>4 DEF Kept, Lock, OwnerPublish, OwnerName, writerVars, chunkVars
<1> QED
  BY <1>1, <1>2, <1>3, <1>4 DEF ChunkNext

LEMMA NextPlacement ==
  TypeInv /\ Ownership /\ Placement /\ [ChunkNext]_chunkVars => Placement'
  BY NextCarriedOnce, NextStoredOnce, NextLanding, NextKept DEF Placement

----------------------------------------------------------------------------
(* The theorems.                                                           *)

\* All of the above holds at the start ...
LEMMA InitInv ==
  ASSUME NEW depth \in ChunkIds, ChunkInit(depth)
  PROVE  ChunkInv
<1>1. TypeInv
  BY InitType
<1>2. Ownership
  BY <1>1
  DEF ChunkInit, Ownership, FreshAreNil, ClaimsAreBooked, ClaimsAreDistinct,
      ClaimsAreNil, HolesAreClaimed, Holds, Indexes
<1>3. Counting
  BY InitCounting
<1>4. Passing
  BY LastChunkAssumption
  DEF ChunkInit, Passing, FirstOpenChunk, Empty, ChunkIds
<1>5. Placement
  BY NoEntryAssumption
  DEF ChunkInit, Placement, CarriedOnce, StoredOnce, Landing, Carries, Kept
<1> QED
  BY <1>1, <1>2, <1>3, <1>4, <1>5 DEF ChunkInv

\* ... and is kept by every step.
LEMMA NextInv == ChunkInv /\ [ChunkNext]_chunkVars => ChunkInv'
  BY NextType, NextOwnership, NextCounting, NextPassing, NextPlacement
  DEF ChunkInv

THEOREM ChunkInvariant == ChunkSpec => []ChunkInv
<1>1. (\E depth \in ChunkIds : ChunkInit(depth)) => ChunkInv
  BY InitInv
<1> QED
  BY <1>1, NextInv, PTL DEF ChunkSpec

\* The step that stores finds the slot nil; no other changes a slot.
LEMMA SlotsKept ==
  ASSUME ChunkInv, [ChunkNext]_chunkVars, NEW c \in ChunkIds, NEW i \in Indexes,
         slot[c][i] # NoEntry
  PROVE  slot'[c][i] = slot[c][i]
<1>1. ASSUME NEW w \in Writers, PutStore(w) PROVE slot'[c][i] = slot[c][i]
  <2>1. slot[at[w]][idx[w]] = NoEntry
    BY <1>1 DEF PutStore, ChunkInv, Ownership, ClaimsAreNil
  <2>2. at[w] \in ChunkIds /\ idx[w] \in Indexes
    BY <1>1, AtIsChunk DEF ChunkInv, TypeInv, TypeOK
  <2> QED
    BY <1>1, <2>1, <2>2 DEF PutStore, ChunkInv, TypeInv, TypeOK
<1>2. CASE Quiet \/ \E w \in Writers : PutBook(w) \/ PutConfirm(w)
  BY <1>2 DEF Quiet, PutBook, PutConfirm
<1> QED
  BY <1>1, <1>2, QuietSteps DEF ChunkInv

\* A slot holds nil until the one writer that booked it stores its entry, and
\* that entry from then on: the unsynchronised c.entries[index] = e of Put is
\* safe whatever the number of goroutines (chunk.go:165).
THEOREM ChunkSlotsWriteOnce == ChunkSpec => SlotsWriteOnce
<1>1. ChunkInv /\ [ChunkNext]_chunkVars =>
         [\A c \in ChunkIds, i \in Indexes :
             slot[c][i] # NoEntry => slot'[c][i] = slot[c][i]]_chunkVars
  BY SlotsKept
<1> QED
  BY <1>1, ChunkInvariant, PTL DEF ChunkSpec, SlotsWriteOnce

\* No slot of a chunk changes any more when all of them are confirmed.
LEMMA FullIsFinal ==
  ASSUME ChunkInv, [ChunkNext]_chunkVars, NEW c \in ChunkIds, write[c] = Cap
  PROVE  write'[c] = Cap /\ slot'[c] = slot[c]
<1>1. /\ write[c] \in Nat /\ book[c] \in Nat
      /\ write[c] + Cardinality(Pending(c)) = Taken(c)
      /\ IsFiniteSet(Pending(c)) /\ Cardinality(Pending(c)) \in Nat
  BY PendingFinite DEF ChunkInv, Counting, TypeInv, TypeOK
<1>2. Cardinality(Pending(c)) = 0
  BY <1>1, CapAssumption DEF Taken
<1>3. \A w \in Writers : Holds(w) => at[w] # c
  BY <1>1, <1>2, FS_EmptySet DEF Pending
<1>4. ASSUME NEW w \in Writers, PutStore(w) \/ PutConfirm(w)
      PROVE  write'[c] = Cap /\ slot'[c] = slot[c]
  <2>1. at[w] # c /\ at[w] \in ChunkIds /\ idx[w] \in Indexes
    BY <1>3, <1>4, AtIsChunk
    DEF PutStore, PutConfirm, Holds, ChunkInv, TypeInv, TypeOK
  <2> QED
    BY <1>4, <2>1 DEF PutStore, PutConfirm, ChunkInv, TypeInv, TypeOK
<1>5. CASE Quiet \/ \E w \in Writers : PutBook(w)
  BY <1>5 DEF Quiet, PutBook
<1> QED
  BY <1>4, <1>5, QuietSteps DEF ChunkInv

\* Nobody holds a slot of a chunk that Ready accepts, and all that were given
\* away are filled and listed.
LEMMA ReadyIsSettled ==
  ASSUME ChunkInv, NEW c \in ChunkIds, Ready(c)
  PROVE  /\ write[c] = Taken(c) /\ write[c] \in Nat /\ Pending(c) = {}
         /\ \A i \in List(c) : i \in Indexes /\ slot[c][i] # NoEntry
<1>1. /\ write[c] \in Nat /\ book[c] \in Nat
      /\ write[c] + Cardinality(Pending(c)) = Taken(c)
      /\ IsFiniteSet(Pending(c)) /\ Cardinality(Pending(c)) \in Nat
  BY PendingFinite DEF ChunkInv, Counting, TypeInv, TypeOK
<1>2. Cardinality(Pending(c)) = 0 /\ write[c] = Taken(c)
  BY <1>1, CapAssumption DEF Ready, Taken
<1>3. Pending(c) = {}
  BY <1>1, <1>2, FS_EmptySet
<1>4. ASSUME NEW i \in List(c) PROVE i \in Indexes /\ slot[c][i] # NoEntry
  <2>1. i \in Indexes /\ i < book[c]
    BY <1>1, <1>2, <1>4, CapAssumption DEF List, Taken, Indexes
  <2> QED
    BY <1>3, <2>1 DEF ChunkInv, Ownership, HolesAreClaimed, Pending, Holds
<1> QED
  BY <1>1, <1>2, <1>3, <1>4

\* A chunk that Ready accepts has no hole in the entries that List returns: a
\* full count of confirmations leaves no writer between booking and storing.
THEOREM ChunkReadyHasNoHoles == ChunkSpec => []ReadyHasNoHoles
<1>1. ChunkInv => ReadyHasNoHoles
  BY ReadyIsSettled DEF ReadyHasNoHoles
<1> QED
  BY <1>1, ChunkInvariant, PTL

\* Entries go to the first chunk that can take them.
THEOREM ChunkFirstOpen == ChunkSpec => []FirstOpenChunk
<1>1. ChunkInv => FirstOpenChunk
  BY DEF ChunkInv, Passing
<1> QED
  BY <1>1, ChunkInvariant, PTL

----------------------------------------------------------------------------
(* The list keeps the order of the calls: what ChunkOrder's history        *)
(* variable remembers is in front of the slot that its writer gets.        *)

\* What a writer saw is in the list for good.
SeenIsFinished == \A w \in Writers : seen[w] \subseteq Finished

\* A writer that found its chunk unlocked, although a later one has an entry
\* that it saw, will find it overbooked.
PassedIsOverbooked ==
    \A w \in Writers : pc[w] = "book" =>
        \A c \in ChunkIds, i \in Indexes :
            slot[c][i] \in seen[w] /\ at[w] < c => book[at[w]] > Cap

OrderInv ==
    /\ seen \in [Writers -> SUBSET Entries]
    /\ SeenIsFinished
    /\ PassedIsOverbooked
    /\ RealTimeOrder

----------------------------------------------------------------------------
LEMMA OrderIsChunkStep ==
  ASSUME [OrderNext]_orderVars
  PROVE  [ChunkNext]_chunkVars
BY DEF OrderNext, OrderCall, OrderStep, OrderReturn, OrderOwner, orderVars,
       ChunkNext, PutStep

\* A slot that holds an entry is booked, and all chunks before its are sealed.
LEMMA FilledIsBooked ==
  ASSUME ChunkInv, NEW c \in ChunkIds, NEW i \in Indexes, slot[c][i] \in Entries
  PROVE  /\ i < book[c]
         /\ \A k \in 0 .. (c - 1) : Sealed(k)
<1>1. slot[c][i] # NoEntry
  BY NoEntryAssumption
<1>2. i < book[c] /\ i \in Nat /\ book[c] \in Nat
  BY <1>1, CapAssumption
  DEF ChunkInv, Ownership, FreshAreNil, TypeInv, TypeOK, Indexes
<1>3. ~Empty(c)
  BY <1>2 DEF Empty
<1> QED
  BY <1>2, <1>3 DEF ChunkInv, Passing, FirstOpenChunk

\* What is finished stays so.
LEMMA FinishedGrows ==
  ASSUME ChunkInv, [OrderNext]_orderVars
  PROVE  Finished \subseteq Finished'
<1> SUFFICES ASSUME NEW e \in Finished PROVE e \in Finished'
  OBVIOUS
<1>1. e \in Entries /\ e \notin todo /\ e \notin {ent[w] : w \in Writers}
  BY DEF Finished
<1>2. e \notin todo'
  BY <1>1
  DEF OrderNext, OrderCall, OrderStep, OrderReturn, OrderOwner, orderVars,
      chunkVars, writerVars, CallPut, PutBegin, PutStep, PutCheck, PutBook,
      PutStore, PutConfirm, NextFound, NextPublish, NextName, PutReturn, Lock,
      OwnerPublish, OwnerName
<1>3. e # NoEntry
  BY <1>1, NoEntryAssumption
<1>4. ASSUME NEW w \in Writers PROVE ent'[w] # e
  <2>1. ent \in [Writers -> Entries \cup {NoEntry}] /\ ent[w] # e
    BY <1>1 DEF ChunkInv, TypeInv, TypeOK
  <2>2. ASSUME NEW v \in Writers, NEW c \in ChunkIds, NEW f \in Entries,
               OrderCall(v, c, f)
        PROVE  ent'[w] # e
    BY <1>1, <2>1, <2>2 DEF OrderCall, CallPut, PutBegin
  <2>3. ASSUME NEW v \in Writers, OrderReturn(v) PROVE ent'[w] # e
    BY <1>3, <2>1, <2>3 DEF OrderReturn, PutReturn
  <2>4. ASSUME NEW v \in Writers, OrderStep(v) PROVE ent'[w] # e
    BY <2>1, <2>4
    DEF OrderStep, PutStep, PutCheck, PutBook, PutStore, PutConfirm, NextFound,
        NextPublish, NextName, PutReturn
  <2>5. CASE OrderOwner \/ UNCHANGED orderVars
    BY <2>1, <2>5
    DEF OrderOwner, Lock, OwnerPublish, OwnerName, writerVars, orderVars, chunkVars
  <2> QED
    BY <2>2, <2>3, <2>4, <2>5 DEF OrderNext
<1> QED
  BY <1>1, <1>2, <1>4 DEF Finished

\* Nobody carries, and no Put will be called with, what is finished.
LEMMA SeenIsStored ==
  ASSUME ChunkInv, OrderInv, [ChunkNext]_chunkVars,
         NEW w \in Writers, NEW c \in ChunkIds, NEW i \in Indexes,
         slot'[c][i] \in seen[w]
  PROVE  slot[c][i] = slot'[c][i] /\ slot[c][i] \in Entries
<1>1. /\ slot \in [ChunkIds -> [Indexes -> Entries \cup {NoEntry}]]
      /\ slot'[c][i] \in Finished /\ slot'[c][i] \in Entries
  BY DEF ChunkInv, TypeInv, TypeOK, OrderInv, SeenIsFinished, Finished
<1>2. ASSUME NEW v \in Writers, PutStore(v) PROVE slot[c][i] = slot'[c][i]
  <2>1. slot' = [slot EXCEPT ![at[v]][idx[v]] = ent[v]]
    BY <1>2 DEF PutStore
  <2>2. slot'[c][i] = ent[v] \/ slot'[c][i] = slot[c][i]
    BY <1>1, <2>1
  <2> QED
    BY <1>1, <2>2 DEF Finished
<1>3. CASE UNCHANGED slot
  BY <1>1, <1>3
<1>4. UNCHANGED slot \/ \E v \in Writers : PutStore(v)
  BY DEF ChunkNext, PutStep, CallPut, PutBegin, PutCheck, PutBook, PutConfirm,
         NextFound, NextPublish, NextName, PutReturn, Lock, OwnerPublish,
         OwnerName, chunkVars, listVars
<1> QED
  BY <1>1, <1>2, <1>3, <1>4

----------------------------------------------------------------------------
LEMMA OrderInitInv ==
  ASSUME OrderInit
  PROVE  OrderInv
BY DEF OrderInit, ChunkInit, OrderInv, SeenIsFinished, PassedIsOverbooked,
       RealTimeOrder, Holds

\* The two parts about a writer, and that they hold again for one whose chunk,
\* place and history did not change.
Ordered(w) ==
    /\ pc[w] = "book" =>
          \A c \in ChunkIds, i \in Indexes :
              slot[c][i] \in seen[w] /\ at[w] < c => book[at[w]] > Cap
    /\ Holds(w) =>
          \A c \in ChunkIds, i \in Indexes :
              slot[c][i] \in seen[w] => Precedes(c, i, at[w], idx[w])

LEMMA StillOrdered ==
  ASSUME ChunkInv, OrderInv, [ChunkNext]_chunkVars, NEW w \in Writers,
         seen'[w] = seen[w], at'[w] = at[w], idx'[w] = idx[w],
         pc'[w] = pc[w] \/ (pc[w] = "store" /\ pc'[w] = "confirm")
  PROVE  Ordered(w)'
<1>1. at[w] \in ChunkIds /\ book \in [ChunkIds -> Nat]
  BY AtIsChunk DEF ChunkInv, TypeInv, TypeOK
<1>2. book'[at[w]] >= book[at[w]] /\ book'[at[w]] \in Nat
  <2>1. UNCHANGED book \/ \E v \in Writers : PutBook(v)
    BY DEF ChunkNext, PutStep, CallPut, PutBegin, PutCheck, PutStore, PutConfirm,
           NextFound, NextPublish, NextName, PutReturn, Lock, OwnerPublish,
           OwnerName, chunkVars, listVars
  <2>2. ASSUME NEW v \in Writers, PutBook(v)
        PROVE  book'[at[w]] >= book[at[w]] /\ book'[at[w]] \in Nat
    <3>1. book' = [book EXCEPT ![at[v]] = @ + 1] /\ book[at[w]] \in Nat
      BY <1>1, <2>2 DEF PutBook
    <3> QED
      BY <1>1, <3>1
  <2> QED
    BY <1>1, <2>1, <2>2
<1>3. ASSUME NEW c \in ChunkIds, NEW i \in Indexes, slot'[c][i] \in seen[w]
      PROVE  slot[c][i] \in seen[w]
  BY <1>3, SeenIsStored
<1>4. ASSUME pc'[w] = "book", NEW c \in ChunkIds, NEW i \in Indexes,
             slot'[c][i] \in seen[w], at[w] < c
      PROVE  book'[at[w]] > Cap
  <2>1. book[at[w]] > Cap
    BY <1>3, <1>4 DEF OrderInv, PassedIsOverbooked
  <2>2. Cap \in Nat /\ book[at[w]] \in Nat
    BY <1>1, CapAssumption
  <2> QED
    BY <1>2, <2>1, <2>2
<1>5. ASSUME Holds(w)', NEW c \in ChunkIds, NEW i \in Indexes, slot'[c][i] \in seen[w]
      PROVE  Precedes(c, i, at[w], idx[w])
  <2>1. Holds(w)
    BY <1>5 DEF Holds
  <2> QED
    BY <1>3, <1>5, <2>1 DEF OrderInv, RealTimeOrder
<1> QED
  BY <1>4, <1>5 DEF Ordered, Precedes

LEMMA OrderNextInv ==
  ASSUME ChunkInv, OrderInv, [OrderNext]_orderVars
  PROVE  OrderInv'
<1> DEFINE Back(w) == pc'[w] \notin {"book", "store", "confirm"}
<1>1. [ChunkNext]_chunkVars
  BY OrderIsChunkStep
<1>2. Finished \subseteq Finished' /\ Finished \subseteq Entries
  BY FinishedGrows DEF Finished
<1>3. \A w \in Writers : Back(w) => Ordered(w)'
  BY DEF Ordered, Holds
<1>4. /\ pc \in [Writers -> {"idle", "check", "book", "store", "confirm",
                            "next", "name", "returned"}]
      /\ at \in [Writers -> 0..tail] /\ DOMAIN at = Writers
      /\ idx \in [Writers -> Indexes] /\ seen \in [Writers -> SUBSET Entries]
      /\ book \in [ChunkIds -> Nat]
  BY DEF ChunkInv, TypeInv, TypeOK, OrderInv
<1> DEFINE OrderKept == /\ seen' \in [Writers -> SUBSET Entries]
                        /\ SeenIsFinished'
                        /\ \A w \in Writers : Ordered(w)'
<1>5. OrderKept
  <2>1. ASSUME UNCHANGED seen
        PROVE  seen' \in [Writers -> SUBSET Entries] /\ SeenIsFinished'
    BY <1>2, <2>1 DEF OrderInv, SeenIsFinished
  <2>2. ASSUME NEW v \in Writers, NEW c \in ChunkIds, NEW e \in Entries,
               OrderCall(v, c, e)
        PROVE  OrderKept
    <3>1. seen' = [seen EXCEPT ![v] = Finished]
      BY <2>2 DEF OrderCall
    <3>2. seen' \in [Writers -> SUBSET Entries] /\ SeenIsFinished'
      BY <1>2, <1>4, <3>1 DEF OrderInv, SeenIsFinished
    <3>3. Back(v)
      BY <1>4, <2>2 DEF OrderCall, CallPut, PutBegin
    <3>4. ASSUME NEW w \in Writers, w # v PROVE Ordered(w)'
      <4>1. seen'[w] = seen[w] /\ at'[w] = at[w] /\ idx'[w] = idx[w] /\ pc'[w] = pc[w]
        BY <1>4, <2>2, <3>1, <3>4 DEF OrderCall, CallPut, PutBegin
      <4> QED
        BY <1>1, <4>1, StillOrdered
    <3> QED
      BY <1>3, <3>2, <3>3, <3>4
  <2>3. ASSUME NEW v \in Writers, OrderReturn(v)
        PROVE  OrderKept
    <3>1. seen' = [seen EXCEPT ![v] = {}]
      BY <2>3 DEF OrderReturn
    <3>2. seen' \in [Writers -> SUBSET Entries] /\ SeenIsFinished'
      BY <1>2, <1>4, <3>1 DEF OrderInv, SeenIsFinished
    <3>3. Back(v)
      BY <1>4, <2>3 DEF OrderReturn, PutReturn
    <3>4. ASSUME NEW w \in Writers, w # v PROVE Ordered(w)'
      <4>1. seen'[w] = seen[w] /\ at'[w] = at[w] /\ idx'[w] = idx[w] /\ pc'[w] = pc[w]
        BY <1>4, <2>3, <3>1, <3>4 DEF OrderReturn, PutReturn
      <4> QED
        BY <1>1, <4>1, StillOrdered
    <3> QED
      BY <1>3, <3>2, <3>3, <3>4
  <2>4. ASSUME NEW v \in Writers, OrderStep(v)
        PROVE  OrderKept
    <3>1. UNCHANGED seen
      BY <2>4 DEF OrderStep
    <3>2. ASSUME NEW w \in Writers, w # v PROVE Ordered(w)'
      <4>1. at'[w] = at[w] /\ idx'[w] = idx[w] /\ pc'[w] = pc[w]
        BY <1>4, <2>4, <3>2
        DEF OrderStep, PutStep, PutCheck, PutBook, PutStore, PutConfirm, Follow,
            NextFound, NextPublish, NextName, PutReturn, listVars
      <4> QED
        BY <1>1, <3>1, <4>1, StillOrdered
    <3>3. ASSUME PutCheck(v) PROVE Ordered(v)'
      <4>1. /\ pc[v] = "check" /\ UNCHANGED <<slot, book, at, idx>>
            /\ pc'[v] = IF Locked(at[v]) THEN "next" ELSE "book"
        BY <1>4, <3>3 DEF PutCheck, listVars
      <4>2. ASSUME pc'[v] = "book", NEW c \in ChunkIds, NEW i \in Indexes,
                   slot[c][i] \in seen[v], at[v] < c
            PROVE  book[at[v]] > Cap
        <5>1. slot[c][i] \in Entries
          BY <1>4, <4>2
        <5>2. at[v] \in 0 .. (c - 1)
          BY <1>4, <4>2, AtIsChunk, LastChunkAssumption
          DEF ChunkInv, TypeInv, TypeOK, ChunkIds
        <5>3. Sealed(at[v])
          BY <5>1, <5>2, FilledIsBooked
        <5> QED
          BY <4>1, <4>2, <5>3 DEF Sealed
      <4> QED
        BY <3>1, <4>1, <4>2 DEF Ordered, Holds
    <3>4. ASSUME PutBook(v) PROVE Ordered(v)'
      <4> DEFINE d == at[v]
      <4>1. d \in ChunkIds /\ book[d] \in Nat /\ d \in Nat
        <5>1. d \in ChunkIds
          BY AtIsChunk DEF ChunkInv, TypeInv
        <5>2. d \in Nat
          BY <5>1, LastChunkAssumption DEF ChunkIds
        <5> QED
          BY <1>4, <5>1, <5>2
      <4>2. /\ pc[v] = "book" /\ UNCHANGED <<slot, at>>
            /\ IF Overflows(book[d])
                 THEN pc'[v] = "next"
                 ELSE pc'[v] = "store" /\ idx'[v] = book[d]
        <5>1. pc[v] = "book" /\ UNCHANGED <<slot, at>>
          BY <3>4 DEF PutBook
        <5>2. IF Overflows(book[d])
                THEN pc' = [pc EXCEPT ![v] = "next"]
                ELSE pc' = [pc EXCEPT ![v] = "store"]
                     /\ idx' = [idx EXCEPT ![v] = book[d]]
          BY <3>4 DEF PutBook, BookedIndex
        <5> QED
          BY <1>4, <5>1, <5>2
      <4>3. CASE pc'[v] = "next"
        BY <1>3, <4>3
      <4>4. CASE pc'[v] # "next"
        <5>1. book[d] <= Cap - 1 /\ pc'[v] = "store" /\ idx'[v] = book[d]
          BY <4>1, <4>2, <4>4, CapAssumption DEF Overflows
        <5>2. ASSUME NEW c \in ChunkIds, NEW i \in Indexes, slot[c][i] \in seen[v]
              PROVE  Precedes(c, i, d, book[d])
          <6>1. slot[c][i] \in Entries
            BY <1>4, <5>2
          <6>2. i < book[c]
            BY <6>1, FilledIsBooked
          <6>3. ~ (d < c)
            BY <4>1, <4>2, <5>1, <5>2, CapAssumption
            DEF OrderInv, PassedIsOverbooked
          <6>4. c \in Nat
            BY LastChunkAssumption DEF ChunkIds
          <6> QED
            BY <4>1, <6>2, <6>3, <6>4 DEF Precedes
        <5> QED
          BY <3>1, <4>2, <5>1, <5>2 DEF Ordered
      <4> QED
        BY <4>3, <4>4
    <3>5. ASSUME PutStore(v) PROVE Ordered(v)'
      <4>1. /\ at'[v] = at[v] /\ idx'[v] = idx[v]
            /\ pc[v] = "store" /\ pc'[v] = "confirm"
        BY <1>4, <3>5 DEF PutStore
      <4> QED
        BY <1>1, <3>1, <4>1, StillOrdered
    <3>6. ASSUME \/ PutConfirm(v) \/ NextFound(v) \/ NextPublish(v)
                 \/ NextName(v) \/ PutReturn(v)
          PROVE  Ordered(v)'
      <4>1. Back(v)
        BY <1>4, <3>6
        DEF PutConfirm, NextFound, NextPublish, NextName, PutReturn, Follow
      <4> QED
        BY <1>3, <4>1
    <3>7. Ordered(v)'
      BY <2>4, <3>3, <3>4, <3>5, <3>6 DEF OrderStep, PutStep
    <3> QED
      BY <2>1, <3>1, <3>2, <3>7
  <2>5. CASE OrderOwner \/ UNCHANGED orderVars
    <3>1. UNCHANGED <<seen, at, idx, pc>>
      BY <2>5
      DEF OrderOwner, Lock, OwnerPublish, OwnerName, writerVars, orderVars, chunkVars
    <3>2. \A w \in Writers : Ordered(w)'
      BY <1>1, <3>1, StillOrdered
    <3> QED
      BY <2>1, <3>1, <3>2
  <2> QED
    BY <2>2, <2>3, <2>4, <2>5 DEF OrderNext
<1> QED
  BY <1>5 DEF OrderInv, Ordered, PassedIsOverbooked, RealTimeOrder

----------------------------------------------------------------------------
(* The theorems.                                                           *)

\* With its history variable the list does what it does without.
THEOREM OrderFollowsList == OrderSpec => ChunkSpec
<1>1. OrderInit => \E depth \in ChunkIds : ChunkInit(depth)
  BY DEF OrderInit
<1>2. [OrderNext]_orderVars => [ChunkNext]_chunkVars
  BY OrderIsChunkStep
<1> QED
  BY <1>1, <1>2, PTL DEF OrderSpec, ChunkSpec

THEOREM OrderInvariant == OrderSpec => []OrderInv
<1>1. OrderInit => OrderInv
  BY OrderInitInv
<1>2. ChunkInv /\ OrderInv /\ [OrderNext]_orderVars => OrderInv'
  BY OrderNextInv
<1> QED
  BY <1>1, <1>2, OrderFollowsList, ChunkInvariant, PTL DEF OrderSpec

\* An entry whose Put had returned when another Put was called is in an earlier
\* slot than the other's, for any number of goroutines (chunk.go:148-165).
THEOREM OrderIsRealTime == OrderSpec => []RealTimeOrder
<1>1. OrderInv => RealTimeOrder
  BY DEF OrderInv
<1> QED
  BY <1>1, OrderInvariant, PTL
=============================================================================
