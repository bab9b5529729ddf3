---------------------------- MODULE IngesterProofs ----------------------------
(***************************************************************************)
(* Theorems about the ingester, for any finite number of goroutines, any   *)
(* entries and any configuration: it uses its chunk list by the rules of   *)
(* Chunk, so that all theorems about the list hold in it; it stores no     *)
(* entry twice; what is accepted before Close is handled; it keeps the     *)
(* promise of Delivery; and what a lock costs at most is one entry of each *)
(* goroutine.                                                              *)
(***************************************************************************)
EXTENDS IngesterLoss, ChunkProofs

\* What an assumption on the configuration says about the chunks to prepare.
LEMMA ConfigNumbers ==
  /\ Chunks \in Nat /\ Chunks >= 1 /\ Chunks \in ChunkIds
  /\ Ahead \in Nat /\ Ahead >= 1
  /\ MaxDirty \in Nat /\ MaxDirty >= 1
  /\ MaxRetry \in Nat /\ MaxRetry >= 1
  BY ConfigAssumption, BufferAssumption, LastChunkAssumption DEF Ahead, ChunkIds

----------------------------------------------------------------------------
(* The ingester and its list.                                              *)

\* The routine locks a chunk of the list only, and Ingest enters the list at
\* the root or at a chunk that accepted an entry: every step of the ingester
\* is a step of Chunk or leaves the list alone.
LEMMA StepOfList ==
  ASSUME TypeInv, IngesterTypeOK, WriteStart, Standing, [Next]_vars
  PROVE  [ChunkNext]_chunkVars
<1> USE DEF IngesterTypeOK
<1>1. tail \in ChunkIds /\ writeChunk \in ChunkIds /\ todo \subseteq Entries
  BY LastChunkAssumption DEF TypeInv, TypeOK, ChunkIds
<1>2. ASSUME NEW w \in Writers, IngestLoad(w) \/ IngestSwap(w)
      PROVE  UNCHANGED chunkVars
  BY <1>2 DEF IngestLoad, IngestSwap
<1>3. ASSUME NEW w \in Writers, IngestPut(w) PROVE ChunkNext
  <2>1. PICK e \in todo : PutBegin(w, writeChunk, e)
    BY <1>3 DEF IngestPut
  <2>2. CallPut(w, writeChunk, e)
    BY <2>1, LastChunkAssumption DEF CallPut, WriteStart, ChunkIds
  <2> QED
    BY <1>1, <2>2 DEF ChunkNext
<1>4. ASSUME NEW w \in Writers, IngestStep(w) PROVE ChunkNext
  BY <1>4 DEF IngestStep, ChunkNext
<1>5. ASSUME NEW w \in Writers, IngestKeep(w) \/ IngestAssign(w) PROVE ChunkNext
  BY <1>5 DEF IngestKeep, IngestAssign, IngestReturn, ChunkNext, PutStep
<1>6. CASE GrowPublish \/ GrowName
  BY <1>6 DEF GrowPublish, GrowName, ChunkNext
<1>7. CASE AgeLock \/ Seal
  <2>1. flushChunk \in 0..tail
    BY <1>1, <1>7 DEF AgeLock, Seal, Standing, ChunkIds
  <2> QED
    BY <1>7, <2>1 DEF AgeLock, Seal, ToLock, ChunkNext
<1>8. CASE \/ GrowFound \/ Tick \/ TakeQuit
           \/ CheckNothing \/ CheckReady \/ CheckNotReady
           \/ AgeOfNil \/ AgeKeep \/ Discard \/ DiscardEnd \/ WithinLimit
           \/ DrainEnd \/ DrainReady
  BY <1>8 DEF GrowFound, Tick, TakeQuit, CheckNothing, CheckReady,
              CheckNotReady, AgeOfNil, AgeKeep, Discard, DiscardEnd,
              WithinLimit, DrainEnd, DrainReady, Goto
<1>9. CASE Flush \/ DrainFlush
  BY <1>9 DEF Flush, DrainFlush, StorageSaves, StorageFails, StorageGivesUp
<1>10. ASSUME NEW p \in Closers, CloseBegin(p) \/ CloseReturn(p)
       PROVE  UNCHANGED chunkVars
  BY <1>10 DEF CloseBegin, CloseReturn
<1>11. CASE UNCHANGED vars
  BY <1>11 DEF vars
<1> QED
  BY <1>2, <1>3, <1>4, <1>5, <1>6, <1>7, <1>8, <1>9, <1>10, <1>11
  DEF Next, InIngest, Routine

----------------------------------------------------------------------------
(* The routine and its position.                                           *)

\* More than one dirty chunk from here on: there is a next one.
LEMMA DirtyHasNext ==
  ASSUME TypeInv, flushChunk \in Nat, flushChunk <= tail, TooDirty
  PROVE  flushChunk + 1 <= tail
<1> DEFINE D == {d \in flushChunk..tail : \A k \in flushChunk..d : ~Empty(k)}
<1>1. tail \in Nat
  BY LastChunkAssumption DEF TypeInv, TypeOK, ChunkIds
<1>2. Cardinality(D) > MaxDirty /\ MaxDirty \in Nat /\ MaxDirty >= 1
  BY ConfigNumbers DEF TooDirty, Depth
<1>3. ASSUME flushChunk = tail PROVE FALSE
  <2>1. D \subseteq {tail}
    BY <1>1, <1>3
  <2>2. IsFiniteSet({tail}) /\ Cardinality({tail}) = 1
    BY FS_Singleton
  <2>3. Cardinality(D) <= 1 /\ Cardinality(D) \in Nat
    <3> HIDE DEF D
    <3> QED
      BY <2>1, <2>2, FS_Subset, FS_CardinalityType
  <2> QED
    BY <1>2, <2>3
<1> QED
  BY <1>1, <1>3

\* The list only gets longer.
LEMMA TailGrows ==
  ASSUME TypeInv, [ChunkNext]_chunkVars
  PROVE  tail \in Nat /\ tail' \in Nat /\ tail <= tail'
<1>1. tail \in Nat
  BY LastChunkAssumption DEF TypeInv, TypeOK, ChunkIds
<1>2. tail' = tail \/ tail' = tail + 1
  BY DEF ChunkNext, PutStep, CallPut, PutBegin, PutCheck, PutBook, PutStore,
         PutConfirm, NextFound, NextPublish, NextName, PutReturn, Lock,
         OwnerPublish, OwnerName, listVars, chunkVars
<1> QED
  BY <1>1, <1>2

\* What a step can do to the position and to the records of the routine: leave
\* them, save the chunk, or give it up.
Stays  == UNCHANGED <<flushChunk, copies, dropped>>
Saves  == rpc \in {"flush", "drainFlush"} /\ StorageSaves
Leaves == /\ rpc \in {"flush", "drainFlush", "limit", "trim"}
          /\ Advance
          /\ dropped' = dropped \cup {flushChunk}
          /\ UNCHANGED <<copies, chunkVars>>

LEMMA Moves == ASSUME [Next]_vars PROVE Stays \/ Saves \/ Leaves
<1>1. ASSUME NEW w \in Writers, IngestLoad(w) \/ InIngest(w) PROVE Stays
  BY <1>1 DEF IngestLoad, InIngest, IngestPut, IngestStep, IngestSwap,
              IngestKeep, IngestAssign, routineVars, Stays
<1>2. ASSUME NEW p \in Closers, CloseBegin(p) \/ CloseReturn(p) PROVE Stays
  BY <1>2 DEF CloseBegin, CloseReturn, routineVars, Stays
<1>3. CASE \/ GrowPublish \/ GrowName \/ GrowFound \/ Tick \/ TakeQuit
           \/ CheckNothing \/ CheckReady \/ CheckNotReady
           \/ AgeOfNil \/ AgeLock \/ AgeKeep \/ DiscardEnd \/ WithinLimit
           \/ Seal \/ DrainEnd \/ DrainReady
  BY <1>3 DEF GrowPublish, GrowName, GrowFound, Tick, TakeQuit, CheckNothing,
              CheckReady, CheckNotReady, AgeOfNil, AgeLock, AgeKeep,
              DiscardEnd, WithinLimit, Seal, DrainEnd, DrainReady, Goto,
              routineVars, Stays
<1>4. CASE Flush \/ DrainFlush
  BY <1>4 DEF Flush, DrainFlush, StorageFails, StorageGivesUp, Stays, Saves,
              Leaves
<1>5. CASE Discard
  BY <1>5 DEF Discard, Leaves
<1>6. CASE UNCHANGED vars
  BY <1>6 DEF vars, routineVars, Stays
<1> QED
  BY <1>1, <1>2, <1>3, <1>4, <1>5, <1>6 DEF Next, Routine

\* The bounds of Standing, in numbers.
LEMMA StandingGrows ==
  ASSUME NEW f \in Nat, NEW t \in Nat, NEW u \in Nat, t <= u
  PROVE  /\ f <= t + 1 => f <= u + 1
         /\ f <= t => f <= u /\ f <= t + 1 /\ f + 1 <= t + 1
  OBVIOUS

\* The routine gets to a chunk that exists, or creates it first.
LEMMA NextStanding ==
  ASSUME TypeInv, IngesterTypeOK, Standing, [ChunkNext]_chunkVars, [Next]_vars
  PROVE  Standing'
<1>0. back # "init"
  BY DEF IngesterTypeOK
<1>1. /\ tail \in Nat /\ tail' \in Nat /\ tail <= tail'
      /\ flushChunk \in Nat /\ goal \in Nat
  BY TailGrows DEF IngesterTypeOK
<1>13. /\ flushChunk <= tail + 1
       /\ rpc = "init" => flushChunk <= goal
       /\ rpc # "init" => flushChunk <= tail
  BY DEF Standing
<1>14. /\ flushChunk <= tail' + 1
       /\ rpc # "init" => flushChunk <= tail'
  BY ONLY <1>1, <1>13, StandingGrows
<1> USE DEF Standing
<1>2. ASSUME rpc' = rpc, goal' = goal, flushChunk' = flushChunk PROVE Standing'
  BY ONLY <1>13, <1>14, <1>2 DEF Standing
<1>3. ASSUME rpc # "init", rpc' # "init", flushChunk' = flushChunk
      PROVE  Standing'
  BY ONLY <1>13, <1>14, <1>3 DEF Standing
<1>4. CASE Flush
  <2>1. ASSUME StorageSaves \/ StorageGivesUp,
               GrowTo(flushChunk + Ahead, "check")
        PROVE  Standing'
    BY <1>1, <1>4, <2>1, ConfigNumbers
    DEF Flush, StorageSaves, StorageGivesUp, Advance, NextToFlush, GrowTo
  <2> QED
    BY <1>3, <1>4, <2>1 DEF Flush, StorageFails
<1>5. CASE DrainFlush
  <2>1. ASSUME StorageSaves \/ StorageGivesUp, GrowTo(flushChunk + 1, "seal")
        PROVE  Standing'
    BY <1>1, <1>5, <2>1
    DEF DrainFlush, StorageSaves, StorageGivesUp, Advance, NextToFlush, GrowTo
  <2> QED
    BY <1>3, <1>5, <2>1 DEF DrainFlush, StorageFails
<1>6. CASE Discard
  <2>1. flushChunk <= tail /\ TooDirty /\ rpc' = "trim"
    BY <1>13, <1>6 DEF Discard
  <2>2. flushChunk + 1 <= tail
    BY <1>1, <2>1, DirtyHasNext
  <2>3. flushChunk' = flushChunk + 1 /\ tail' = tail
    BY <1>6 DEF Discard, Advance, NextToFlush, chunkVars
  <2> QED
    BY ONLY <1>1, <2>1, <2>2, <2>3 DEF Standing
<1>7. CASE AgeLock \/ DiscardEnd
  BY <1>1, <1>7, ConfigNumbers DEF AgeLock, DiscardEnd, GrowTo
<1>8. CASE GrowPublish \/ GrowName \/ GrowFound
  BY <1>0, <1>1, <1>8 DEF GrowPublish, GrowName, GrowFound, GrowDone, routineVars
<1>9. CASE \/ Tick \/ TakeQuit \/ CheckNothing \/ CheckReady \/ CheckNotReady
           \/ AgeOfNil \/ AgeKeep \/ WithinLimit \/ Seal \/ DrainEnd \/ DrainReady
  BY <1>3, <1>9
  DEF Tick, TakeQuit, CheckNothing, CheckReady, CheckNotReady, AgeOfNil,
      AgeKeep, WithinLimit, Seal, DrainEnd, DrainReady, Goto
<1>10. ASSUME NEW w \in Writers, IngestLoad(w) \/ InIngest(w) PROVE Standing'
  BY <1>2, <1>10 DEF IngestLoad, InIngest, IngestPut, IngestStep, IngestSwap,
                     IngestKeep, IngestAssign, routineVars
<1>11. ASSUME NEW p \in Closers, CloseBegin(p) \/ CloseReturn(p)
       PROVE  Standing'
  BY <1>2, <1>11 DEF CloseBegin, CloseReturn, routineVars
<1>12. CASE UNCHANGED vars
  BY <1>2, <1>12 DEF vars, routineVars
<1> QED
  BY <1>4, <1>5, <1>6, <1>7, <1>8, <1>9, <1>10, <1>11, <1>12 DEF Next, Routine

----------------------------------------------------------------------------
(* Types.                                                                  *)

LEMMA NextIngestTypes ==
  ASSUME TypeInv, TypeInv', IngesterTypeOK, [ChunkNext]_chunkVars,
         NEW w \in Writers, IngestLoad(w) \/ InIngest(w)
  PROVE  IngesterTypeOK'
<1>1. tail \in Nat /\ tail' \in Nat /\ tail <= tail' /\ at[w] \in 0..tail
  BY TailGrows DEF TypeInv, TypeOK
<1>2. writeChunk \in 0..tail'
  BY <1>1 DEF IngesterTypeOK
<1>3. id[at[w]] \in Nat
  BY <1>1, AtIsChunk DEF TypeInv, TypeOK
<1>4. CASE IngestLoad(w) \/ IngestPut(w) \/ IngestStep(w)
  BY <1>2, <1>4
  DEF IngestLoad, IngestPut, IngestStep, ingestVars, routineVars, closeVars,
      IngesterTypeOK
<1>5. CASE IngestSwap(w)
  BY <1>2, <1>3, <1>5 DEF IngestSwap, routineVars, closeVars, IngesterTypeOK
<1>6. CASE IngestKeep(w)
  BY <1>2, <1>6 DEF IngestKeep, IngestReturn, routineVars, closeVars, IngesterTypeOK
<1>7. CASE IngestAssign(w)
  <2>1. writeChunk' \in 0..tail'
    BY <1>1, <1>7 DEF IngestAssign, Assigned
  <2> QED
    BY <2>1, <1>7 DEF IngestAssign, IngestReturn, routineVars, closeVars,
                      IngesterTypeOK
<1> QED
  BY <1>4, <1>5, <1>6, <1>7 DEF InIngest

LEMMA GrowTypes ==
  ASSUME TypeInv, NEW to \in Nat, NEW next, GrowTo(to, next)
  PROVE  /\ goal' \in Nat
         /\ rpc' \in {"init", next}
         /\ back' \in {"select", next}
  BY DEF GrowTo

LEMMA NextRoutineTypes ==
  ASSUME TypeInv, TypeInv', IngesterTypeOK, Standing, [ChunkNext]_chunkVars,
         Routine
  PROVE  IngesterTypeOK'
<1>1. tail \in Nat /\ tail' \in Nat /\ tail <= tail'
  BY TailGrows
<1>2. writeChunk \in 0..tail'
  BY <1>1 DEF IngesterTypeOK
<1>3. /\ flushChunk \in Nat /\ flushChunk + 1 \in Nat
      /\ flushChunk + Ahead \in Nat /\ flushChunk + Chunks \in Nat
      /\ 0 \in 0..MaxRetry
  BY ConfigNumbers DEF IngesterTypeOK
<1>4. rpc # "init" => flushChunk \in ChunkIds
  BY <1>1, <1>3, LastChunkAssumption DEF Standing, TypeInv, TypeOK, ChunkIds
<1>5. CASE GrowPublish \/ GrowName \/ GrowFound
  BY <1>2, <1>5 DEF GrowPublish, GrowName, GrowFound, GrowDone, ingestVars,
                    routineVars, closeVars, IngesterTypeOK
<1>6. CASE \/ Tick \/ TakeQuit \/ CheckNothing \/ CheckReady \/ CheckNotReady
           \/ AgeOfNil \/ AgeKeep \/ WithinLimit \/ DrainEnd \/ DrainReady
  BY <1>2, <1>6
  DEF Tick, TakeQuit, CheckNothing, CheckReady, CheckNotReady, AgeOfNil,
      AgeKeep, WithinLimit, DrainEnd, DrainReady, Goto, ingestVars, closeVars,
      IngesterTypeOK
<1>7. CASE Seal
  BY <1>2, <1>7 DEF Seal, ingestVars, closeVars, IngesterTypeOK
<1>8. CASE AgeLock
  BY <1>2, <1>3, <1>8, GrowTypes
  DEF AgeLock, ingestVars, closeVars, IngesterTypeOK
<1>9. CASE DiscardEnd
  BY <1>2, <1>3, <1>9, GrowTypes
  DEF DiscardEnd, ingestVars, closeVars, IngesterTypeOK
<1>10. CASE Discard
  BY <1>2, <1>3, <1>4, <1>10
  DEF Discard, Advance, NextToFlush, ingestVars, closeVars, IngesterTypeOK
<1>11. CASE Flush \/ DrainFlush
  <2>1. /\ goal' \in Nat
        /\ rpc' \in {"init", "check", "limit", "seal", "drain"}
        /\ back' \in {"select", "check", "limit", "seal"}
    BY <1>3, <1>11, GrowTypes DEF Flush, DrainFlush, IngesterTypeOK
  <2>2. /\ flushChunk' \in Nat
        /\ retries' \in 0..MaxRetry
        /\ copies' \in [Entries -> Nat]
        /\ dropped' \subseteq ChunkIds
    <3>1. CASE StorageSaves
      BY <1>3, <3>1 DEF StorageSaves, Advance, NextToFlush, IngesterTypeOK
    <3>2. CASE StorageFails
      BY <3>2, ConfigNumbers DEF StorageFails, GivesUp, IngesterTypeOK
    <3>3. CASE StorageGivesUp
      BY <1>3, <1>4, <1>11, <3>3
      DEF StorageGivesUp, Advance, NextToFlush, Flush, DrainFlush,
          IngesterTypeOK
    <3> QED
      BY <1>11, <3>1, <3>2, <3>3 DEF Flush, DrainFlush
  <2>3. UNCHANGED <<ingestVars, closeVars>>
    BY <1>11 DEF Flush, DrainFlush, StorageSaves, StorageFails, StorageGivesUp
  <2> QED
    BY <1>2, <2>1, <2>2, <2>3 DEF ingestVars, closeVars, IngesterTypeOK
<1> QED
  BY <1>5, <1>6, <1>7, <1>8, <1>9, <1>10, <1>11 DEF Routine

\* No step of the ingester leaves the types.
LEMMA NextTypes ==
  ASSUME TypeInv, TypeInv', IngesterTypeOK, Standing, [ChunkNext]_chunkVars,
         [Next]_vars
  PROVE  IngesterTypeOK'
<1>1. ASSUME NEW p \in Closers, CloseBegin(p) \/ CloseReturn(p)
      PROVE  IngesterTypeOK'
  <2>1. Accepted \subseteq Entries
    BY <1>1
    DEF CloseBegin, Accepted, TypeInv, TypeOK
  <2>2. owed' \subseteq Entries
    BY <1>1, <2>1 DEF CloseBegin, CloseReturn, IngesterTypeOK
  <2> QED
    BY <1>1, <2>2 DEF CloseBegin, CloseReturn, chunkVars, ingestVars,
                      routineVars, IngesterTypeOK
<1>2. CASE UNCHANGED vars
  BY <1>2 DEF vars, chunkVars, ingestVars, routineVars, closeVars,
              IngesterTypeOK
<1> QED
  BY <1>1, <1>2, NextIngestTypes, NextRoutineTypes DEF Next

----------------------------------------------------------------------------
(* Ingest.                                                                 *)

\* The routine and Close do not touch Ingest, nor the goroutines inside Put.
LEMMA OthersLeaveIngest ==
  ASSUME TypeInv,
         \/ Routine
         \/ \E p \in Closers : CloseBegin(p) \/ CloseReturn(p)
         \/ UNCHANGED vars
  PROVE  /\ UNCHANGED <<ingestVars, writerVars, book, write, slot>>
         /\ \A c \in ChunkIds : Locked(c) => Locked(c)'
<1> SUFFICES ASSUME TRUE
             PROVE  /\ UNCHANGED <<ingestVars, writerVars, book, write, slot>>
                    /\ locked' = locked
                       \/ \E c : locked' = [locked EXCEPT ![c] = TRUE]
  BY DEF Locked, TypeInv, TypeOK
<1>1. CASE \/ GrowPublish \/ GrowName \/ AgeLock \/ Seal
  BY <1>1 DEF GrowPublish, GrowName, AgeLock, Seal, OwnerPublish, OwnerName,
              Lock, ToLock
<1>2. CASE \/ GrowFound \/ Tick \/ TakeQuit
           \/ CheckNothing \/ CheckReady \/ CheckNotReady
           \/ AgeOfNil \/ AgeKeep \/ Discard \/ DiscardEnd \/ WithinLimit
           \/ DrainEnd \/ DrainReady \/ Flush \/ DrainFlush
  BY <1>2 DEF GrowFound, Tick, TakeQuit, CheckNothing, CheckReady,
              CheckNotReady, AgeOfNil, AgeKeep, Discard, DiscardEnd,
              WithinLimit, DrainEnd, DrainReady, Goto, Flush, DrainFlush,
              StorageSaves, StorageFails, StorageGivesUp, chunkVars, writerVars
<1>3. CASE \/ \E p \in Closers : CloseBegin(p) \/ CloseReturn(p)
           \/ UNCHANGED vars
  BY <1>3 DEF CloseBegin, CloseReturn, vars, chunkVars, writerVars
<1> QED
  BY <1>1, <1>2, <1>3 DEF Routine

LEMMA NextCalling ==
  ASSUME TypeInv, IngesterTypeOK, Calling, [Next]_vars
  PROVE  Calling'
<1> USE DEF TypeInv, TypeOK, IngesterTypeOK
<1>1. ASSUME NEW w \in Writers, IngestLoad(w) PROVE Calling'
  BY <1>1 DEF IngestLoad, chunkVars, Calling
<1>2. ASSUME NEW w \in Writers, IngestPut(w) PROVE Calling'
  BY <1>2 DEF IngestPut, PutBegin, Calling
<1>3. ASSUME NEW w \in Writers, IngestStep(w) PROVE Calling'
  <2>1. /\ ipc' = ipc /\ pc[w] # "idle" /\ pc[w] # "returned"
        /\ pc'[w] # "idle"
        /\ \A v \in Writers \ {w} : pc'[v] = pc[v]
    BY <1>3 DEF IngestStep, ingestVars, PutStep, PutCheck, PutBook, PutStore,
                PutConfirm, NextFound, NextPublish, NextName, PutReturn, Follow
  <2> QED
    BY <2>1 DEF Calling
<1>4. ASSUME NEW w \in Writers, IngestSwap(w) PROVE Calling'
  BY <1>4 DEF IngestSwap, chunkVars, Calling
<1>5. ASSUME NEW w \in Writers, IngestKeep(w) \/ IngestAssign(w) PROVE Calling'
  BY <1>5 DEF IngestKeep, IngestAssign, IngestReturn, PutReturn, Calling
<1>6. ASSUME UNCHANGED <<ingestVars, writerVars>> PROVE Calling'
  BY <1>6 DEF ingestVars, writerVars, Calling
<1> QED
  BY <1>1, <1>2, <1>3, <1>4, <1>5, <1>6, OthersLeaveIngest DEF Next, InIngest

LEMMA NextWriteStart ==
  ASSUME TypeInv, IngesterTypeOK, Calling, Landing, WriteStart,
         [ChunkNext]_chunkVars, [Next]_vars
  PROVE  WriteStart'
<1>1. writeChunk \in ChunkIds /\ \A c \in ChunkIds : ~Empty(c) => ~Empty(c)'
  <2>1. writeChunk \in ChunkIds
    BY LastChunkAssumption DEF IngesterTypeOK, TypeInv, TypeOK, ChunkIds
  <2>2. ASSUME NEW c \in ChunkIds, ~Empty(c) PROVE ~Empty(c)'
    BY <2>2, BookGrows DEF Empty, TypeInv, TypeOK
  <2> QED
    BY <2>1, <2>2
<1>2. ASSUME writeChunk' = writeChunk PROVE WriteStart'
  BY <1>1, <1>2 DEF WriteStart, Empty
<1>3. ASSUME NEW w \in Writers, IngestAssign(w) PROVE WriteStart'
  <2>1. at[w] \in ChunkIds /\ ~Empty(at[w]) /\ writeChunk' = at[w]
    BY <1>3, AtIsChunk DEF IngestAssign, Assigned, Calling, Landing
  <2> QED
    BY <1>1, <2>1 DEF WriteStart, Empty
<1>4. ASSUME NEW w \in Writers, IngestLoad(w) \/ InIngest(w), ~IngestAssign(w)
      PROVE  writeChunk' = writeChunk
  BY <1>4 DEF IngestLoad, InIngest, IngestPut, IngestStep, IngestSwap,
              IngestKeep, ingestVars
<1> QED
  BY <1>2, <1>3, <1>4, OthersLeaveIngest DEF Next, ingestVars

----------------------------------------------------------------------------
(* What the routine hands to the storage.                                  *)

\* A chunk has no more confirmed writes than slots.
LEMMA WriteBound ==
  ASSUME ChunkInv, NEW c \in ChunkIds
  PROVE  write[c] \in 0..Cap /\ List(c) \subseteq Indexes
<1>1. /\ write[c] \in Nat /\ book[c] \in Nat
      /\ write[c] + Cardinality(Pending(c)) = Taken(c)
      /\ Cardinality(Pending(c)) \in Nat
  BY PendingFinite DEF ChunkInv, Counting, TypeInv, TypeOK
<1>2. write[c] \in 0..Cap
  BY <1>1, CapAssumption DEF Taken
<1> QED
  BY <1>2, CapAssumption DEF List, Indexes

\* A lock is never opened.
LEMMA LocksStay ==
  ASSUME TypeInv, [ChunkNext]_chunkVars, NEW c \in ChunkIds, Locked(c)
  PROVE  Locked(c)'
<1>1. ASSUME NEW d \in 0..tail, Lock(d) PROVE Locked(c)'
  BY <1>1 DEF Lock, Locked, TypeInv, TypeOK
<1>2. ASSUME UNCHANGED locked PROVE Locked(c)'
  BY <1>2 DEF Locked
<1> QED
  BY <1>1, <1>2
  DEF ChunkNext, PutStep, CallPut, PutBegin, PutCheck, PutBook, PutStore,
      PutConfirm, NextFound, NextPublish, NextName, PutReturn, OwnerPublish,
      OwnerName, listVars, chunkVars

\* The chunks before the routine's, and its own in Flush, are chunks.
LEMMA PassedAreChunks ==
  ASSUME TypeInv, IngesterTypeOK, Standing
  PROVE  /\ flushChunk \in Nat
         /\ rpc # "init" => flushChunk \in ChunkIds
         /\ 0..(flushChunk - 1) \subseteq ChunkIds
<1>1. flushChunk \in Nat /\ tail \in Nat /\ tail <= LastChunk
  BY LastChunkAssumption DEF IngesterTypeOK, TypeInv, TypeOK, ChunkIds
<1> QED
  BY <1>1, LastChunkAssumption DEF Standing, ChunkIds

\* The routine gets to its call of Flush from a chunk that is ready only.
LEMMA FlushEntered ==
  ASSUME IngesterTypeOK, [Next]_vars, rpc' \in {"flush", "drainFlush"}
  PROVE  \/ rpc' = rpc /\ flushChunk' = flushChunk
         \/ CheckReady
         \/ DrainReady
<1>1. ASSUME Routine, ~CheckReady, ~DrainReady
      PROVE  rpc' = rpc /\ flushChunk' = flushChunk
  <2>1. back \notin {"flush", "drainFlush"}
    BY DEF IngesterTypeOK
  <2> QED
    BY <1>1, <2>1
    DEF Routine, GrowPublish, GrowName, GrowFound, GrowDone, GrowTo, Tick,
        TakeQuit, CheckNothing, CheckNotReady, AgeOfNil, AgeLock, AgeKeep,
        Flush, Discard, DiscardEnd, WithinLimit, Seal, DrainEnd, DrainFlush,
        Goto, routineVars
<1>2. ASSUME NEW w \in Writers, IngestLoad(w) \/ InIngest(w)
      PROVE  rpc' = rpc /\ flushChunk' = flushChunk
  BY <1>2 DEF IngestLoad, InIngest, IngestPut, IngestStep, IngestSwap,
              IngestKeep, IngestAssign, routineVars
<1>3. ASSUME NEW p \in Closers, CloseBegin(p) \/ CloseReturn(p)
      PROVE  rpc' = rpc /\ flushChunk' = flushChunk
  BY <1>3 DEF CloseBegin, CloseReturn, routineVars
<1>4. CASE UNCHANGED vars
  BY <1>4 DEF vars, routineVars
<1> QED
  BY <1>1, <1>2, <1>3, <1>4 DEF Next

LEMMA NextFlushedIsFull ==
  ASSUME ChunkInv, IngesterTypeOK, Standing, FlushedIsFull,
         [ChunkNext]_chunkVars, [Next]_vars
  PROVE  FlushedIsFull'
<1> SUFFICES ASSUME rpc' \in {"flush", "drainFlush"}, ~Locked(flushChunk)'
             PROVE  (write[flushChunk] = Cap)'
  BY DEF FlushedIsFull
<1>1. TypeInv
  BY DEF ChunkInv
<1>2. ASSUME rpc' = rpc, flushChunk' = flushChunk
      PROVE  (write[flushChunk] = Cap)'
  <2>1. flushChunk \in ChunkIds
    BY <1>1, <1>2, PassedAreChunks
  <2>2. ~Locked(flushChunk)
    BY <1>1, <1>2, <2>1, LocksStay DEF Locked
  <2>3. write[flushChunk] = Cap
    BY <1>2, <2>2 DEF FlushedIsFull
  <2> QED
    BY <1>2, <2>1, <2>3, FullIsFinal
<1>3. CASE CheckReady \/ DrainReady
  <2>1. /\ Ready(flushChunk)
        /\ flushChunk' = flushChunk /\ write' = write /\ locked' = locked
    BY <1>3 DEF CheckReady, DrainReady, Goto, chunkVars
  <2> QED
    BY <2>1 DEF Ready, Locked
<1> QED
  BY <1>2, <1>3, FlushEntered

\* The entries of a chunk stay in it.
LEMMA EntriesStay ==
  ASSUME ChunkInv, [ChunkNext]_chunkVars, NEW c \in ChunkIds
  PROVE  EntriesOf(c) \subseteq EntriesOf(c)'
  BY SlotsKept DEF EntriesOf

LEMMA PassedGrows ==
  ASSUME ChunkInv, IngesterTypeOK, Standing, [ChunkNext]_chunkVars,
         flushChunk' \in {flushChunk, flushChunk + 1}
  PROVE  Passed \subseteq Passed'
<1>1. /\ flushChunk \in Nat
      /\ 0..(flushChunk - 1) \subseteq ChunkIds
  BY PassedAreChunks DEF ChunkInv
<1>2. flushChunk' = flushChunk \/ flushChunk' = flushChunk + 1
  OBVIOUS
<1>3. 0..(flushChunk - 1) \subseteq 0..(flushChunk' - 1)
  BY ONLY <1>1, <1>2
<1> QED
  BY <1>1, <1>3, EntriesStay DEF Passed

\* The storage gets entries of the chunk only, and none of them for the second
\* time.
LEMMA ListedIsNew ==
  ASSUME ChunkInv, IngesterTypeOK, Standing, StoredIsPassed, rpc # "init",
         NEW e \in Entries, e \in EntriesOf(flushChunk)
  PROVE  copies[e] = 0
<1>1. flushChunk \in ChunkIds /\ 0..(flushChunk - 1) \subseteq ChunkIds
  BY PassedAreChunks DEF ChunkInv
<1>2. ASSUME e \in Passed PROVE FALSE
  <2>1. PICK c \in 0..(flushChunk - 1) : e \in EntriesOf(c)
    BY <1>2 DEF Passed
  <2>2. c = flushChunk
    BY <1>1, <2>1 DEF EntriesOf, ChunkInv, Placement, StoredOnce
  <2> QED
    BY <1>1, <2>1, <2>2 DEF IngesterTypeOK
<1> QED
  BY <1>2 DEF StoredIsPassed

LEMMA ListedIsInChunk ==
  ASSUME ChunkInv, flushChunk \in ChunkIds, NEW e \in Entries, e \in Listed
  PROVE  e \in EntriesOf(flushChunk)
  BY WriteBound, NoEntryAssumption DEF Listed, EntriesOf

LEMMA NextStoredIsPassed ==
  ASSUME ChunkInv, IngesterTypeOK, Standing, StoredIsPassed,
         [ChunkNext]_chunkVars, [Next]_vars
  PROVE  StoredIsPassed'
<1> SUFFICES ASSUME NEW e \in Entries
             PROVE  (copies[e] = 0 \/ (copies[e] = 1 /\ e \in Passed))'
  BY DEF StoredIsPassed
<1>1. ASSUME copies'[e] = copies[e], flushChunk' \in {flushChunk, flushChunk + 1}
      PROVE  (copies[e] = 0 \/ (copies[e] = 1 /\ e \in Passed))'
  BY <1>1, PassedGrows DEF StoredIsPassed
<1>2. CASE Saves
  <2>1. /\ flushChunk \in ChunkIds /\ flushChunk \in Nat
        /\ flushChunk' = flushChunk + 1 /\ slot' = slot
        /\ copies'[e] = IF e \in Listed THEN copies[e] + 1 ELSE copies[e]
    BY <1>2, PassedAreChunks
    DEF Saves, StorageSaves, Advance, NextToFlush, chunkVars, ChunkInv
  <2>2. CASE e \in Listed
    <3>1. e \in EntriesOf(flushChunk) /\ copies[e] = 0
      BY <1>2, <2>1, <2>2, ListedIsInChunk, ListedIsNew DEF Saves
    <3>2. e \in Passed'
      <4>1. flushChunk \in 0..(flushChunk' - 1)
        BY <2>1
      <4> QED
        BY <2>1, <3>1, <4>1 DEF Passed, EntriesOf
    <3> QED
      BY <2>1, <2>2, <3>1, <3>2
  <2> QED
    BY <1>1, <2>1, <2>2
<1>3. CASE Stays
  BY <1>1, <1>3 DEF Stays
<1>4. CASE Leaves
  BY <1>1, <1>4 DEF Leaves, Advance, NextToFlush
<1> QED
  BY <1>2, <1>3, <1>4, Moves

LEMMA NextSavedIsFull ==
  ASSUME ChunkInv, IngesterTypeOK, Standing, StoredIsPassed, FlushedIsFull,
         SavedIsFull, [ChunkNext]_chunkVars, [Next]_vars
  PROVE  SavedIsFull'
<1> SUFFICES ASSUME NEW c \in ChunkIds,
                    c < flushChunk', c \notin dropped', ~Locked(c)'
             PROVE  /\ write'[c] = Cap
                    /\ \A e \in EntriesOf(c)' : copies'[e] = 1
  BY DEF SavedIsFull
<1>1. TypeInv /\ flushChunk \in Nat /\ c \in Nat /\ ~Locked(c)
  BY LocksStay, PassedAreChunks DEF ChunkInv, ChunkIds
<1>2. \A e \in EntriesOf(c) : e \in Entries
  BY <1>1 DEF EntriesOf, TypeInv, TypeOK
<1>3. ASSUME c < flushChunk, c \notin dropped
      PROVE  /\ write[c] = Cap /\ \A e \in EntriesOf(c) : copies[e] = 1
             /\ write'[c] = Cap /\ EntriesOf(c)' = EntriesOf(c)
  <2>1. write[c] = Cap /\ \A e \in EntriesOf(c) : copies[e] = 1
    BY <1>1, <1>3 DEF SavedIsFull
  <2>2. write'[c] = Cap /\ slot'[c] = slot[c]
    BY <2>1, FullIsFinal
  <2> QED
    BY <2>1, <2>2 DEF EntriesOf
<1>4. CASE Stays
  BY <1>3, <1>4 DEF Stays
<1>5. CASE Leaves
  BY <1>1, <1>3, <1>5 DEF Leaves, Advance, NextToFlush
<1>6. CASE Saves
  <2>1. /\ flushChunk \in ChunkIds /\ rpc # "init"
        /\ flushChunk' = flushChunk + 1
        /\ write' = write /\ EntriesOf(c)' = EntriesOf(c)
        /\ dropped' = dropped
        /\ \A e \in Entries : copies'[e] = IF e \in Listed THEN copies[e] + 1
                                                           ELSE copies[e]
    BY <1>1, <1>6, PassedAreChunks
    DEF Saves, StorageSaves, Advance, NextToFlush, chunkVars, EntriesOf
  <2>2. CASE c < flushChunk
    <3>1. ASSUME NEW e \in EntriesOf(c), e \in Listed PROVE FALSE
      BY <1>2, <1>3, <2>1, <2>2, <3>1, ListedIsInChunk, ListedIsNew
    <3> QED
      BY <1>2, <1>3, <2>1, <2>2, <3>1
  <2>3. CASE c = flushChunk
    <3>1. write[c] = Cap
      BY <1>1, <1>6, <2>3 DEF FlushedIsFull, Saves
    <3>2. ASSUME NEW e \in EntriesOf(c) PROVE e \in Listed /\ copies[e] = 0
      <4>1. List(c) = Indexes
        BY <3>1 DEF List, Indexes
      <4> QED
        BY <1>2, <2>1, <2>3, <3>2, <4>1, ListedIsNew DEF Listed, EntriesOf
    <3> QED
      BY <1>2, <2>1, <3>1, <3>2
  <2> QED
    BY <1>1, <2>1, <2>2, <2>3
<1> QED
  BY <1>4, <1>5, <1>6, Moves

LEMMA NextGivenUp ==
  ASSUME IngesterTypeOK, GivenUpIsPassed, [Next]_vars
  PROVE  GivenUpIsPassed'
<1>1. flushChunk \in Nat /\ \A c \in dropped : c \in Nat
  BY LastChunkAssumption DEF IngesterTypeOK, ChunkIds
<1>2. CASE Stays
  BY <1>2 DEF Stays, GivenUpIsPassed
<1>3. CASE Saves
  BY <1>1, <1>3 DEF Saves, StorageSaves, Advance, NextToFlush, GivenUpIsPassed
<1>4. CASE Leaves
  BY <1>1, <1>4 DEF Leaves, Advance, NextToFlush, GivenUpIsPassed
<1> QED
  BY <1>2, <1>3, <1>4, Moves

----------------------------------------------------------------------------
(* Close.                                                                  *)

\* Nobody takes a call of Close back, and only the first one notes what is owed.
LEMMA ClosingStays ==
  ASSUME IngesterTypeOK, [Next]_vars
  PROVE  /\ Quit => Quit'
         /\ owed' = owed \/ (~Quit /\ \E p \in Closers : CloseBegin(p))
<1>1. ASSUME UNCHANGED closeVars PROVE (Quit => Quit') /\ owed' = owed
  BY <1>1 DEF closeVars, Quit
<1>2. ASSUME NEW w \in Writers, IngestLoad(w) \/ InIngest(w)
      PROVE  UNCHANGED closeVars
  BY <1>2 DEF IngestLoad, InIngest, IngestPut, IngestStep, IngestSwap,
              IngestKeep, IngestAssign
<1>3. CASE Routine
  <2>1. UNCHANGED closeVars
    BY <1>3 DEF Routine, GrowPublish, GrowName, GrowFound, Tick, TakeQuit,
                CheckNothing, CheckReady, CheckNotReady, Flush, AgeOfNil,
                AgeLock, AgeKeep, Discard, DiscardEnd, WithinLimit, Seal,
                DrainEnd, DrainReady, DrainFlush, StorageSaves, StorageFails,
                StorageGivesUp, Goto, closeVars
  <2> QED
    BY <1>1, <2>1
<1>4. ASSUME NEW p \in Closers, CloseBegin(p)
      PROVE  (Quit => Quit') /\ (owed' = owed \/ ~Quit)
  BY <1>4 DEF CloseBegin, Quit, IngesterTypeOK
<1>5. ASSUME NEW p \in Closers, CloseReturn(p)
      PROVE  (Quit => Quit') /\ owed' = owed
  BY <1>5 DEF CloseReturn, Quit, IngesterTypeOK
<1>6. CASE UNCHANGED vars
  BY <1>1, <1>6 DEF vars
<1> QED
  BY <1>1, <1>2, <1>3, <1>4, <1>5, <1>6 DEF Next

\* Only two steps lock a chunk.
LEMMA LockingSteps ==
  ASSUME TypeInv, [Next]_vars, NEW c \in ChunkIds, ~Locked(c), Locked(c)'
  PROVE  c = flushChunk /\ (AgeLock \/ Seal)
<1>1. locked' # locked
  BY DEF Locked
<1>2. ASSUME NEW w \in Writers, IngestLoad(w) \/ InIngest(w)
      PROVE  locked' = locked
  BY <1>2 DEF IngestLoad, InIngest, IngestPut, PutBegin, IngestStep, PutStep,
              PutCheck, PutBook, PutStore, PutConfirm, NextFound, NextPublish,
              NextName, PutReturn, IngestSwap, IngestKeep, IngestAssign,
              IngestReturn, listVars, chunkVars
<1>3. ASSUME Routine, ~AgeLock, ~Seal
      PROVE  locked' = locked
  BY <1>3 DEF Routine, GrowPublish, GrowName, GrowFound, Tick, TakeQuit,
              CheckNothing, CheckReady, CheckNotReady, Flush, AgeOfNil,
              AgeKeep, Discard, DiscardEnd, WithinLimit, DrainEnd, DrainReady,
              DrainFlush, StorageSaves, StorageFails, StorageGivesUp, Goto,
              OwnerPublish, OwnerName, chunkVars
<1>4. ASSUME NEW p \in Closers, CloseBegin(p) \/ CloseReturn(p)
      PROVE  locked' = locked
  BY <1>4 DEF CloseBegin, CloseReturn, chunkVars
<1>5. ASSUME UNCHANGED vars
      PROVE  locked' = locked
  BY <1>5 DEF vars, chunkVars
<1>6. AgeLock \/ Seal
  BY <1>1, <1>2, <1>3, <1>4, <1>5 DEF Next
<1>7. locked' = [locked EXCEPT ![flushChunk] = TRUE]
  BY <1>6 DEF AgeLock, Seal, Lock, ToLock
<1> QED
  BY <1>6, <1>7 DEF Locked, TypeInv, TypeOK

\* A chunk that got old or large is not empty.
LEMMA AgedIsUsed ==
  ASSUME ChunkInv, flushChunk \in ChunkIds, MayBeOld \/ MayBeLarge
  PROVE  ~Empty(flushChunk)
<1>1. /\ write[flushChunk] \in Nat /\ book[flushChunk] \in Nat
      /\ write[flushChunk] + Cardinality(Pending(flushChunk))
            = Taken(flushChunk)
      /\ Cardinality(Pending(flushChunk)) \in Nat
  BY PendingFinite DEF ChunkInv, Counting, TypeInv, TypeOK
<1>2. CASE MayBeOld
  BY <1>1, <1>2, CapAssumption DEF MayBeOld, Taken, Empty
<1>3. CASE MayBeLarge
  BY <1>1, <1>3 DEF MayBeLarge, Empty, ChunkInv, Ownership, FreshAreNil, Indexes
<1> QED
  BY <1>2, <1>3

LEMMA NextDraining ==
  ASSUME ChunkInv, IngesterTypeOK, Standing, Draining, [ChunkNext]_chunkVars,
         [Next]_vars
  PROVE  Draining'
<1>1. TypeInv /\ (rpc # "init" => flushChunk \in ChunkIds)
  BY PassedAreChunks DEF ChunkInv
<1>2. (rpc \in {"seal", "drain", "drainFlush", "closed"} \/ back = "seal"
         => Quit)'
  <2>1. ASSUME UNCHANGED <<rpc, back>>
        PROVE  (rpc \in {"seal", "drain", "drainFlush", "closed"}
                   \/ back = "seal" => Quit)'
    BY <2>1, ClosingStays DEF Draining
  <2>2. ASSUME NEW w \in Writers, IngestLoad(w) \/ InIngest(w)
        PROVE  UNCHANGED <<rpc, back>>
    BY <2>2 DEF IngestLoad, InIngest, IngestPut, IngestStep, IngestSwap,
                IngestKeep, IngestAssign, routineVars
  <2>3. ASSUME NEW p \in Closers, CloseBegin(p) \/ CloseReturn(p)
        PROVE  UNCHANGED <<rpc, back>>
    BY <2>3 DEF CloseBegin, CloseReturn, routineVars
  <2>4. CASE UNCHANGED vars
    BY <2>1, <2>4 DEF vars, routineVars
  <2>5. ASSUME Routine, ~Quit
        PROVE  rpc' \notin {"seal", "drain", "drainFlush", "closed"}
               /\ back' # "seal"
    <3>1. /\ rpc \notin {"seal", "drain", "drainFlush", "closed"}
          /\ back \notin {"seal", "drain", "drainFlush", "closed"}
      BY <2>5 DEF Draining, IngesterTypeOK
    <3> QED
      BY <2>5, <3>1
      DEF Routine, GrowPublish, GrowName, GrowFound, GrowDone, GrowTo, Tick,
          TakeQuit, CheckNothing, CheckReady, CheckNotReady, AgeOfNil, AgeLock,
          AgeKeep, Flush, Discard, DiscardEnd, WithinLimit, Seal, DrainEnd,
          DrainReady, DrainFlush, Goto, routineVars
  <2> QED
    BY <2>1, <2>2, <2>3, <2>4, <2>5, ClosingStays DEF Next
<1>3. (rpc \in {"drain", "drainFlush"} => Locked(flushChunk))'
  <2>1. ASSUME rpc \in {"drain", "drainFlush"}, flushChunk' = flushChunk
        PROVE  Locked(flushChunk)'
    <3>1. Locked(flushChunk)
      BY <2>1 DEF Draining
    <3> QED
      BY <1>1, <2>1, <3>1, LocksStay DEF Locked
  <2>2. ASSUME UNCHANGED <<rpc, flushChunk>>
        PROVE  (rpc \in {"drain", "drainFlush"} => Locked(flushChunk))'
    BY <2>1, <2>2
  <2>3. CASE Seal
    BY <1>1, <2>3 DEF Seal, Lock, Locked, TypeInv, TypeOK
  <2>4. CASE DrainReady \/ (DrainFlush /\ StorageFails)
    BY <2>1, <2>4 DEF DrainReady, DrainFlush, StorageFails, Goto
  <2>5. ASSUME Routine, ~Seal, ~DrainReady, ~(DrainFlush /\ StorageFails)
        PROVE  rpc' \notin {"drain", "drainFlush"}
               \/ UNCHANGED <<rpc, flushChunk>>
    <3>1. back \notin {"drain", "drainFlush"}
      BY DEF IngesterTypeOK
    <3> QED
      BY <2>5, <3>1
      DEF Routine, GrowPublish, GrowName, GrowFound, GrowDone, GrowTo,
          Tick, TakeQuit, CheckNothing, CheckReady, CheckNotReady, AgeOfNil,
          AgeLock, AgeKeep, Flush, Discard, DiscardEnd, WithinLimit,
          DrainEnd, DrainFlush, Goto, routineVars
  <2>6. ASSUME NEW w \in Writers, IngestLoad(w) \/ InIngest(w)
        PROVE  UNCHANGED <<rpc, flushChunk>>
    BY <2>6 DEF IngestLoad, InIngest, IngestPut, IngestStep, IngestSwap,
                IngestKeep, IngestAssign, routineVars
  <2>7. ASSUME NEW p \in Closers, CloseBegin(p) \/ CloseReturn(p)
        PROVE  UNCHANGED <<rpc, flushChunk>>
    BY <2>7 DEF CloseBegin, CloseReturn, routineVars
  <2>8. CASE UNCHANGED vars
    BY <2>2, <2>8 DEF vars, routineVars
  <2> QED
    BY <2>2, <2>3, <2>4, <2>5, <2>6, <2>7, <2>8 DEF Next
<1>4. (~Quit => \A c \in ChunkIds : Locked(c) => ~Empty(c))'
  <2> SUFFICES ASSUME ~Quit', NEW c \in ChunkIds, Locked(c)'
               PROVE  ~Empty(c)'
    OBVIOUS
  <2>1. ~Quit
    BY ClosingStays
  <2>2. ~Empty(c)
    <3>1. CASE Locked(c)
      BY <2>1, <3>1 DEF Draining
    <3>2. CASE ~Locked(c)
      <4>1. c = flushChunk /\ (AgeLock \/ Seal)
        BY <1>1, <3>2, LockingSteps
      <4>2. AgeLock
        BY <2>1, <4>1 DEF Draining, Seal
      <4> QED
        BY <4>1, <4>2, AgedIsUsed DEF AgeLock
    <3> QED
      BY <3>1, <3>2
  <2> QED
    BY <1>1, <2>2, BookGrows DEF Empty, TypeInv, TypeOK
<1> QED
  BY <1>2, <1>3, <1>4 DEF Draining

\* What was accepted is in a chunk.
LEMMA AcceptedIsKept ==
  ASSUME ChunkInv, NEW e \in Accepted
  PROVE  \E c \in ChunkIds : e \in EntriesOf(c)
<1>1. e \in Entries /\ e \notin todo /\ \A w \in Writers : ent[w] # e
  BY DEF Accepted
<1>2. PICK c \in ChunkIds, i \in Indexes : slot[c][i] = e
  BY <1>1 DEF ChunkInv, Placement, Kept
<1> QED
  BY <1>1, <1>2, NoEntryAssumption DEF EntriesOf

\* There is nothing behind an empty chunk that was not locked.
LEMMA NothingBehind ==
  ASSUME ChunkInv, NEW k \in ChunkIds, Empty(k), ~Locked(k),
         NEW c \in ChunkIds, c >= k
  PROVE  EntriesOf(c) = {}
<1>1. Empty(c)
  <2>1. CASE c = k
    BY <2>1
  <2>2. CASE c # k
    <3>1. k \in 0..(c - 1)
      BY <2>2 DEF ChunkIds
    <3>2. ~Sealed(k)
      BY CapAssumption DEF Sealed, Empty
    <3> QED
      BY <3>1, <3>2 DEF ChunkInv, Passing, FirstOpenChunk
  <2> QED
    BY <2>1, <2>2
<1> QED
  BY <1>1 DEF Empty, EntriesOf, ChunkInv, Ownership, FreshAreNil, Indexes

LEMMA NextOwedIsAhead ==
  ASSUME ChunkInv, IngesterTypeOK, Standing, Draining, OwedIsAhead,
         [ChunkNext]_chunkVars, [Next]_vars
  PROVE  OwedIsAhead'
<1>1. TypeInv
  BY DEF ChunkInv
<1>2. \A e \in owed' : \E c \in ChunkIds : e \in EntriesOf(c)
  BY ClosingStays, AcceptedIsKept DEF CloseBegin, OwedIsAhead
<1>3. \A e \in owed' : \E c \in ChunkIds : e \in EntriesOf(c)'
  BY <1>2, EntriesStay
<1>4. ASSUME NEW k \in ChunkIds, Locked(k)', Empty(k)', NEW e \in owed'
      PROVE  \E c \in 0..(k - 1) : e \in EntriesOf(c)'
  <2>1. Empty(k)
    BY <1>1, <1>4, BookGrows DEF Empty, TypeInv, TypeOK
  <2>2. \E c \in 0..(k - 1) : e \in EntriesOf(c)
    <3>1. CASE Locked(k)
      <4>1. Quit
        BY <2>1, <3>1 DEF Draining
      <4>2. owed' = owed
        BY <4>1, ClosingStays
      <4> QED
        BY <1>4, <2>1, <3>1, <4>2 DEF OwedIsAhead
    <3>2. CASE ~Locked(k)
      <4>1. PICK c \in ChunkIds : e \in EntriesOf(c)
        BY <1>2, <1>4
      <4>2. ~(c >= k)
        BY <2>1, <3>2, <4>1, NothingBehind
      <4> QED
        BY <4>1, <4>2 DEF ChunkIds
    <3> QED
      BY <3>1, <3>2
  <2>3. 0..(k - 1) \subseteq ChunkIds
    BY LastChunkAssumption DEF ChunkIds
  <2> QED
    BY <2>2, <2>3, EntriesStay
<1> QED
  BY <1>3, <1>4 DEF OwedIsAhead

LEMMA NextCloseHandlesOwed ==
  ASSUME ChunkInv, IngesterTypeOK, Standing, Draining, OwedIsAhead,
         CloseHandlesOwed, [ChunkNext]_chunkVars, [Next]_vars
  PROVE  CloseHandlesOwed'
<1> SUFFICES ASSUME rpc' = "closed" PROVE owed' \subseteq Passed'
  BY DEF CloseHandlesOwed
<1>1. CASE rpc = "closed"
  <2>1. owed' = owed
    BY <1>1, ClosingStays DEF Draining
  <2>2. flushChunk' = flushChunk
    BY <1>1, Moves DEF Stays, Saves, Leaves
  <2> QED
    BY <1>1, <2>1, <2>2, PassedGrows DEF CloseHandlesOwed
<1>2. CASE rpc # "closed"
  <2>1. DrainEnd
    <3>1. ASSUME NEW w \in Writers, IngestLoad(w) \/ InIngest(w)
          PROVE  rpc' = rpc
      BY <3>1 DEF IngestLoad, InIngest, IngestPut, IngestStep, IngestSwap,
                  IngestKeep, IngestAssign, routineVars
    <3>2. ASSUME NEW p \in Closers, CloseBegin(p) \/ CloseReturn(p)
          PROVE  rpc' = rpc
      BY <3>2 DEF CloseBegin, CloseReturn, routineVars
    <3>3. ASSUME UNCHANGED vars PROVE rpc' = rpc
      BY <3>3 DEF vars, routineVars
    <3>4. ASSUME Routine, ~DrainEnd PROVE rpc' # "closed"
      <4>1. back # "closed"
        BY DEF IngesterTypeOK
      <4> QED
        BY <1>2, <3>4, <4>1
        DEF Routine, GrowPublish, GrowName, GrowFound, GrowDone, GrowTo, Tick,
            TakeQuit, CheckNothing, CheckReady, CheckNotReady, AgeOfNil,
            AgeLock, AgeKeep, Flush, Discard, DiscardEnd, WithinLimit, Seal,
            DrainReady, DrainFlush, Goto, routineVars
    <3> QED
      BY <1>2, <3>1, <3>2, <3>3, <3>4 DEF Next
  <2>2. /\ flushChunk \in ChunkIds /\ Locked(flushChunk) /\ Empty(flushChunk)
        /\ slot' = slot /\ owed' = owed /\ flushChunk' = flushChunk
    BY <2>1, PassedAreChunks
    DEF DrainEnd, Drained, Goto, Draining, chunkVars, closeVars, ChunkInv
  <2>3. owed \subseteq Passed
    BY <2>2 DEF OwedIsAhead, Passed
  <2> QED
    BY <2>2, <2>3, PassedGrows
<1> QED
  BY <1>1, <1>2

----------------------------------------------------------------------------
(* The theorems.                                                           *)

\* NewIngester makes a root chunk and stands at it.
LEMMA InitIngester == Init => ChunkInv /\ IngesterInv
<1> SUFFICES ASSUME Init PROVE ChunkInv /\ IngesterInv
  OBVIOUS
<1>1. Chunks \in ChunkIds /\ ChunkInit(Chunks)
  BY ConfigNumbers DEF Init
<1>2. ChunkInv
  BY <1>1, InitInv
<1>3. tail \in Nat /\ tail = Chunks
  BY <1>1, ConfigNumbers DEF ChunkInit
<1>4. IngesterTypeOK
  BY <1>3, ConfigNumbers DEF Init, IngesterTypeOK
<1>5. Calling
  BY <1>1 DEF Init, ChunkInit, Calling
<1>6. WriteStart /\ Standing /\ GivenUpIsPassed /\ StoredIsPassed
         /\ FlushedIsFull
  BY <1>3 DEF Init, WriteStart, Standing, GivenUpIsPassed, StoredIsPassed,
              FlushedIsFull
<1>7. SavedIsFull
  BY DEF Init, SavedIsFull, ChunkIds
<1>8. Draining /\ OwedIsAhead /\ CloseHandlesOwed
  BY <1>1 DEF Init, ChunkInit, Draining, OwedIsAhead, CloseHandlesOwed, Locked
<1> QED
  BY <1>2, <1>4, <1>5, <1>6, <1>7, <1>8 DEF IngesterInv

\* A step keeps the invariants and follows the rules of the list.
LEMMA NextIngester ==
  ChunkInv /\ IngesterInv /\ [Next]_vars =>
    [ChunkNext]_chunkVars /\ ChunkInv' /\ IngesterInv'
<1> SUFFICES ASSUME ChunkInv, IngesterInv, [Next]_vars
             PROVE  [ChunkNext]_chunkVars /\ ChunkInv' /\ IngesterInv'
  OBVIOUS
<1>1. /\ TypeInv /\ Landing
      /\ IngesterTypeOK /\ Calling /\ WriteStart /\ Standing
      /\ GivenUpIsPassed /\ StoredIsPassed /\ FlushedIsFull /\ SavedIsFull
      /\ Draining /\ OwedIsAhead /\ CloseHandlesOwed
  BY DEF ChunkInv, Placement, IngesterInv
<1>2. [ChunkNext]_chunkVars
  BY <1>1, StepOfList
<1>3. ChunkInv' /\ TypeInv'
  BY <1>2, NextInv DEF ChunkInv
<1>4. IngesterTypeOK' /\ Calling'
  BY <1>1, <1>2, <1>3, NextTypes, NextCalling
<1>5. WriteStart' /\ Standing' /\ GivenUpIsPassed'
  BY <1>1, <1>2, NextWriteStart, NextStanding, NextGivenUp
<1>6. StoredIsPassed' /\ FlushedIsFull' /\ SavedIsFull'
  BY <1>1, <1>2, NextStoredIsPassed, NextFlushedIsFull, NextSavedIsFull
<1>7. Draining' /\ OwedIsAhead' /\ CloseHandlesOwed'
  BY <1>1, <1>2, NextDraining, NextOwedIsAhead, NextCloseHandlesOwed
<1> QED
  BY <1>2, <1>3, <1>4, <1>5, <1>6, <1>7 DEF IngesterInv

THEOREM IngesterInvariant == Spec => [](ChunkInv /\ IngesterInv)
  BY InitIngester, NextIngester, PTL DEF Spec

\* Every variable of the ingester keeps its type.
THEOREM IngesterTypeCorrect == Spec => []IngesterTypeOK
<1>1. IngesterInv => IngesterTypeOK
  BY DEF IngesterInv
<1> QED
  BY <1>1, IngesterInvariant, PTL

\* The goroutines in Ingest and the routine together use the list only as
\* chunk.go allows: what is proved of the list holds inside the ingester.
THEOREM IngesterUsesList == Spec => ChunkSpec
<1>1. Init => \E depth \in ChunkIds : ChunkInit(depth)
  BY ConfigNumbers DEF Init
<1> QED
  BY <1>1, IngesterInvariant, NextIngester, PTL DEF Spec, ChunkSpec

\* Whatever the storage answers and however often a chunk is retried, no entry
\* is stored twice (ingester.go:226-247).
THEOREM IngesterAtMostOnce == Spec => []AtMostOnce
<1>1. IngesterInv => AtMostOnce
  BY DEF IngesterInv, StoredIsPassed, AtMostOnce
<1> QED
  BY <1>1, IngesterInvariant, PTL

\* The save of a chunk that was never locked loses none of its entries: a
\* full chunk is final, so the List that is saved is all there will be.
THEOREM IngesterSavesWhole == Spec => []UnlockedAreSavedWhole
<1>1. ASSUME ChunkInv, IngesterInv, NEW c \in ChunkIds, ~Locked(c)
      PROVE  Forgotten(c) = {}
  <2>1. ASSUME c < flushChunk, c \notin dropped,
               NEW e \in EntriesOf(c), copies[e] = 0
        PROVE  FALSE
    BY <1>1, <2>1 DEF IngesterInv, SavedIsFull
  <2> QED
    BY <2>1 DEF Forgotten
<1>2. ChunkInv /\ IngesterInv => UnlockedAreSavedWhole
  BY <1>1 DEF UnlockedAreSavedWhole
<1> QED
  BY <1>2, IngesterInvariant, PTL

\* When the routine has shut down it has handled every entry whose Ingest had
\* returned before Close: an empty chunk ends the drain, and when the routine
\* locked it nothing was behind it (ingester.go:143-200).
THEOREM IngesterCloseHandlesOwed == Spec => []CloseHandlesOwed
<1>1. IngesterInv => CloseHandlesOwed
  BY DEF IngesterInv
<1> QED
  BY <1>1, IngesterInvariant, PTL

\* While nobody has called Close no entry waits behind an empty chunk, where
\* doRoutineCheck would not look for it.
THEOREM IngesterNoEntryBehindEmpty == Spec => []NoEntryBehindEmpty
<1>1. ASSUME ChunkInv, IngesterInv, ~Quit, Empty(flushChunk),
             NEW c \in ChunkIds, c > flushChunk
      PROVE  Empty(c)
  <2>1. flushChunk \in 0..(c - 1)
    BY <1>1 DEF IngesterInv, IngesterTypeOK, ChunkIds
  <2>2. flushChunk \in ChunkIds
    BY <1>1, <2>1, LastChunkAssumption DEF ChunkIds
  <2>3. ~Sealed(flushChunk)
    BY <1>1, <2>2, CapAssumption DEF Sealed, Empty, IngesterInv, Draining
  <2> QED
    BY <1>1, <2>1, <2>3 DEF ChunkInv, Passing, FirstOpenChunk
<1>2. ChunkInv /\ IngesterInv => NoEntryBehindEmpty
  BY <1>1 DEF NoEntryBehindEmpty
<1> QED
  BY <1>2, IngesterInvariant, PTL

----------------------------------------------------------------------------
(* The ingester keeps the promise of Delivery.                             *)

\* What became of an entry of chunk c.
Fate(e, c) == IF copies[e] = 1 THEN "stored"
              ELSE IF flushChunk <= c THEN "held"
              ELSE IF c \in dropped THEN "discarded"
              ELSE "lost"

\* The status of an entry is the fate of the chunk it is in.
StatusesAreFates ==
  \A e \in Entries :
    \/ /\ StatusOf(e) = "new"
       /\ \A c \in ChunkIds : e \notin EntriesOf(c)
    \/ \E c \in ChunkIds : e \in EntriesOf(c) /\ StatusOf(e) = Fate(e, c)

LEMMA StatusIsFate == ChunkInv /\ IngesterInv => StatusesAreFates
<1> SUFFICES ASSUME ChunkInv, IngesterInv, NEW e \in Entries,
                    NEW c \in ChunkIds, e \in EntriesOf(c)
             PROVE  StatusOf(e) = Fate(e, c)
  BY DEF StatusOf, StatusesAreFates
<1>1. ChunkOf(e) = c
  <2>1. \A d \in ChunkIds : e \in EntriesOf(d) => d = c
    BY DEF EntriesOf, ChunkInv, Placement, StoredOnce
  <2> QED
    BY <2>1 DEF ChunkOf
<1>2. copies[e] \in Nat /\ ~(copies[e] > 1)
  BY DEF IngesterInv, IngesterTypeOK, StoredIsPassed
<1>3. c \in Nat /\ flushChunk \in Nat
  BY DEF IngesterInv, IngesterTypeOK, ChunkIds
<1>4. c >= flushChunk <=> flushChunk <= c
  BY <1>3
<1> QED
  BY <1>1, <1>2, <1>4 DEF StatusOf, Fate

\* An entry is in one chunk at most.
LEMMA OneChunk ==
  ASSUME ChunkInv, NEW e, NEW c \in ChunkIds, NEW d \in ChunkIds,
         e \in EntriesOf(c), e \in EntriesOf(d)
  PROVE  c = d
  BY DEF EntriesOf, ChunkInv, Placement, StoredOnce

\* No slot changes: an entry stays in its chunk, whose fate may change.
LEMMA FatesInPlace ==
  ASSUME ChunkInv, IngesterInv, ChunkInv', IngesterInv', slot' = slot,
         NEW e \in Entries
  PROVE  \/ StatusOf(e) = "new" /\ StatusOf(e)' = "new"
         \/ \E c \in ChunkIds : /\ e \in EntriesOf(c)
                                /\ StatusOf(e) = Fate(e, c)
                                /\ StatusOf(e)' = Fate(e, c)'
<1>1. \/ StatusOf(e)' = "new" /\ \A c \in ChunkIds : e \notin EntriesOf(c)'
      \/ \E c \in ChunkIds : e \in EntriesOf(c)' /\ StatusOf(e)' = Fate(e, c)'
  <2>1. StatusesAreFates'
    BY StatusIsFate, PTL
  <2> QED
    BY <2>1 DEF StatusesAreFates
<1>2. \A c \in ChunkIds : EntriesOf(c)' = EntriesOf(c)
  BY DEF EntriesOf
<1> QED
  BY <1>1, <1>2, StatusIsFate, OneChunk DEF StatusesAreFates

\* The step that puts an entry into a slot is a step of Ingest.
LEMMA StoringStep ==
  ASSUME TypeInv, [Next]_vars, [ChunkNext]_chunkVars
  PROVE  \/ slot' = slot
         \/ /\ \E w \in Writers : PutStore(w)
            /\ UNCHANGED routineVars
<1>1. slot' = slot \/ \E w \in Writers : PutStore(w)
  BY QuietSteps DEF Quiet, PutBook, PutConfirm
<1>2. ASSUME NEW w \in Writers, IngestLoad(w) \/ InIngest(w)
      PROVE  UNCHANGED routineVars
  BY <1>2 DEF IngestLoad, InIngest, IngestPut, IngestStep, IngestSwap,
              IngestKeep, IngestAssign
<1> QED
  BY <1>1, <1>2, OthersLeaveIngest DEF Next

\* Putting an entry: nobody else has it, and nobody had it before.
LEMMA StoreAccepts ==
  ASSUME ChunkInv, IngesterInv, ChunkInv', IngesterInv',
         NEW w \in Writers, PutStore(w), UNCHANGED routineVars,
         NEW e \in Entries, StatusOf(e)' # StatusOf(e)
  PROVE  /\ e = ent[w]
         /\ StatusOf(e) = "new"
         /\ StatusOf(e)' \in {"held", "lost", "discarded"}
<1>1. /\ at[w] \in ChunkIds /\ idx[w] \in Indexes /\ pc[w] = "store"
      /\ slot' = [slot EXCEPT ![at[w]][idx[w]] = ent[w]]
      /\ slot \in [ChunkIds -> [Indexes -> Entries \cup {NoEntry}]]
  BY AtIsChunk DEF PutStore, ChunkInv, TypeInv, TypeOK
<1>2. /\ slot[at[w]][idx[w]] = NoEntry
      /\ \A c \in ChunkIds, i \in Indexes : slot[c][i] # ent[w]
  BY <1>1 DEF ChunkInv, Ownership, ClaimsAreNil, Placement, StoredOnce, Carries
<1>3. \A d \in ChunkIds, j \in Indexes :
         slot'[d][j] = IF d = at[w] /\ j = idx[w] THEN ent[w] ELSE slot[d][j]
  BY <1>1
<1>4. /\ UNCHANGED <<copies, flushChunk, dropped>>
  BY DEF routineVars
<1>5. CASE e # ent[w]
  <2>1. \A c \in ChunkIds : e \in EntriesOf(c)' <=> e \in EntriesOf(c)
    BY <1>2, <1>3, <1>5, NoEntryAssumption DEF EntriesOf
  <2>2. ChunkOf(e)' = ChunkOf(e)
    BY <2>1 DEF ChunkOf
  <2> QED
    BY <1>4, <2>1, <2>2 DEF StatusOf
<1>6. CASE e = ent[w]
  <2>1. \A c \in ChunkIds : e \notin EntriesOf(c)
    BY <1>2, <1>6 DEF EntriesOf
  <2>2. copies[e] = 0
    <3>1. 0..(flushChunk - 1) \subseteq ChunkIds
      BY PassedAreChunks DEF ChunkInv, IngesterInv
    <3> QED
      BY <2>1, <3>1 DEF IngesterInv, StoredIsPassed, Passed
  <2>3. StatusOf(e) = "new"
    BY <2>1 DEF StatusOf
  <2> QED
    BY <1>4, <1>6, <2>2, <2>3 DEF StatusOf
<1> QED
  BY <1>5, <1>6

\* A chunk is saved: only its entries change their status.
LEMMA SaveTurns ==
  ASSUME ChunkInv, IngesterInv, ChunkInv', IngesterInv', Saves,
         NEW e \in Entries, StatusOf(e)' # StatusOf(e)
  PROVE  StatusOf(e) = "held" /\ StatusOf(e)' \in {"stored", "lost"}
<1>1. /\ flushChunk \in ChunkIds /\ flushChunk \in Nat /\ rpc # "init"
      /\ flushChunk' = flushChunk + 1 /\ slot' = slot /\ dropped' = dropped
      /\ copies'[e] = IF e \in Listed THEN copies[e] + 1 ELSE copies[e]
      /\ flushChunk \notin dropped
  <2>1. flushChunk \notin dropped
    BY DEF IngesterInv, IngesterTypeOK, GivenUpIsPassed
  <2> QED
    BY <2>1, PassedAreChunks
    DEF Saves, StorageSaves, Advance, NextToFlush, chunkVars, ChunkInv,
        IngesterInv
<1>2. PICK c \in ChunkIds : /\ e \in EntriesOf(c)
                            /\ StatusOf(e) = Fate(e, c)
                            /\ StatusOf(e)' = Fate(e, c)'
  BY <1>1, FatesInPlace
<1>3. c \in Nat
  BY DEF ChunkIds
<1>4. CASE c # flushChunk
  <2>1. e \notin Listed
    BY <1>1, <1>2, <1>4, ListedIsInChunk, OneChunk
  <2>2. flushChunk' <= c <=> flushChunk <= c
    BY <1>1, <1>3, <1>4
  <2> QED
    BY <1>1, <1>2, <2>1, <2>2 DEF Fate
<1>5. CASE c = flushChunk
  <2>1. copies[e] = 0 /\ copies'[e] \in {0, 1}
    BY <1>1, <1>2, <1>5, ListedIsNew DEF IngesterInv
  <2>2. flushChunk <= c /\ ~(flushChunk' <= c)
    BY <1>1, <1>5
  <2> QED
    BY <1>1, <1>2, <1>5, <2>1, <2>2 DEF Fate
<1> QED
  BY <1>4, <1>5

\* A chunk is given up: only its entries change their status.
LEMMA LeaveTurns ==
  ASSUME ChunkInv, IngesterInv, ChunkInv', IngesterInv', Leaves,
         NEW e \in Entries, StatusOf(e)' # StatusOf(e)
  PROVE  StatusOf(e) = "held" /\ StatusOf(e)' = "discarded"
<1>1. /\ flushChunk \in Nat /\ rpc # "init"
      /\ flushChunk' = flushChunk + 1 /\ slot' = slot /\ copies' = copies
      /\ dropped' = dropped \cup {flushChunk}
  BY PassedAreChunks
  DEF Leaves, Advance, NextToFlush, chunkVars, ChunkInv, IngesterInv
<1>2. PICK c \in ChunkIds : /\ e \in EntriesOf(c)
                            /\ StatusOf(e) = Fate(e, c)
                            /\ StatusOf(e)' = Fate(e, c)'
  BY <1>1, FatesInPlace
<1>3. c \in Nat
  BY DEF ChunkIds
<1>4. CASE c # flushChunk
  <2>1. flushChunk' <= c <=> flushChunk <= c
    BY <1>1, <1>3, <1>4
  <2> QED
    BY <1>1, <1>2, <1>4, <2>1 DEF Fate
<1>5. CASE c = flushChunk
  <2>1. copies[e] = 0
    BY <1>1, <1>2, <1>5, ListedIsNew DEF IngesterInv
  <2>2. flushChunk <= c /\ ~(flushChunk' <= c)
    BY <1>1, <1>5
  <2> QED
    BY <1>1, <1>2, <1>5, <2>1, <2>2 DEF Fate
<1> QED
  BY <1>4, <1>5

\* The routine ends in two ways only, and for good.
Ended == rpc \in {"closed", "panicked"}

LEMMA EndingSteps ==
  ASSUME IngesterTypeOK, [Next]_vars
  PROVE  \/ UNCHANGED Ended
         \/ ~Ended /\ UNCHANGED <<chunkVars, flushChunk, copies, dropped>>
<1> USE DEF Ended
<1>1. ASSUME Routine, ~AgeOfNil, ~DrainEnd PROVE UNCHANGED Ended
  <2>1. back \notin {"closed", "panicked"}
    BY DEF IngesterTypeOK
  <2> QED
    BY <1>1, <2>1
    DEF Routine, GrowPublish, GrowName, GrowFound, GrowDone, GrowTo, Tick,
        TakeQuit, CheckNothing, CheckReady, CheckNotReady, AgeLock, AgeKeep,
        Flush, Discard, DiscardEnd, WithinLimit, Seal, DrainReady, DrainFlush,
        Goto, routineVars
<1>2. CASE AgeOfNil \/ DrainEnd
  BY <1>2 DEF AgeOfNil, DrainEnd, Goto
<1>3. ASSUME NEW w \in Writers, IngestLoad(w) \/ InIngest(w)
      PROVE  UNCHANGED Ended
  BY <1>3 DEF IngestLoad, InIngest, IngestPut, IngestStep, IngestSwap,
              IngestKeep, IngestAssign, routineVars
<1>4. ASSUME NEW p \in Closers, CloseBegin(p) \/ CloseReturn(p)
      PROVE  UNCHANGED Ended
  BY <1>4 DEF CloseBegin, CloseReturn, routineVars
<1>5. CASE UNCHANGED vars
  BY <1>5 DEF vars, routineVars
<1> QED
  BY <1>1, <1>2, <1>3, <1>4, <1>5 DEF Next

\* Every step of the ingester is one that Delivery allows, or none.
LEMMA PromiseStep ==
  ASSUME ChunkInv, IngesterInv, ChunkInv', IngesterInv',
         [ChunkNext]_chunkVars, [Next]_vars
  PROVE  [Promise!Next]_(Promise!deliveryVars)
<1> DEFINE status == [e \in Entries |-> StatusOf(e)]
<1>1. status' \in [Entries -> Promise!Statuses]
  <2>1. StatusesAreFates'
    BY StatusIsFate, PTL
  <2>2. \A e \in Entries : StatusOf(e)' \in Promise!Statuses
    BY <2>1 DEF StatusesAreFates, Fate, Promise!Statuses
  <2> QED
    BY <2>2
<1>2. ASSUME UNCHANGED <<slot, copies, flushChunk, dropped>>
      PROVE  UNCHANGED status
  <2>1. \A c : EntriesOf(c)' = EntriesOf(c)
    BY <1>2 DEF EntriesOf
  <2>2. \A e \in Entries : ChunkOf(e)' = ChunkOf(e)
    BY <2>1 DEF ChunkOf
  <2>3. \A e \in Entries : StatusOf(e)' = StatusOf(e)
    BY <1>2, <2>1, <2>2 DEF StatusOf
  <2> QED
    BY <2>3
<1>3. CASE /\ UNCHANGED <<slot, copies, flushChunk, dropped>>
           /\ UNCHANGED Ended
  BY <1>2, <1>3 DEF Ended, Promise!deliveryVars
<1>4. CASE /\ ~UNCHANGED Ended
  <2>1. ~Ended /\ Ended' /\ UNCHANGED <<slot, copies, flushChunk, dropped>>
    BY <1>4, EndingSteps DEF Ended, IngesterInv, chunkVars
  <2>2. Promise!Shut
    BY <1>2, <2>1 DEF Ended, Promise!Shut
  <2> QED
    BY <2>2 DEF Promise!Next
<1>5. ASSUME NEW w \in Writers, PutStore(w), UNCHANGED routineVars
      PROVE  Promise!Next
  <2>1. ent[w] \in Entries
    BY <1>5 DEF PutStore, ChunkInv, TypeInv, TypeOK, Carrying
  <2>2. \A e \in Entries : StatusOf(e)' # StatusOf(e) =>
           /\ e = ent[w]
           /\ StatusOf(e) = "new"
           /\ StatusOf(e)' \in {"held", "lost", "discarded"}
    BY <1>5, StoreAccepts
  <2>3. Promise!Turn({ent[w]}, "new", {"held", "lost", "discarded"})
    BY <1>1, <2>2 DEF Promise!Turn
  <2>4. Promise!Accept(ent[w])
    BY <1>5, <2>3 DEF Promise!Accept, routineVars
  <2> QED
    BY <2>1, <2>4 DEF Promise!Next
<1>6. CASE Saves /\ UNCHANGED Ended
  <2>1. ~Ended
    BY <1>6 DEF Saves, Ended
  <2>2. Promise!Turn(Entries, "held", {"stored", "lost"})
    BY <1>1, <1>6, SaveTurns DEF Promise!Turn
  <2> QED
    BY <1>6, <2>1, <2>2 DEF Promise!Save, Promise!Next, Ended
<1>7. CASE Leaves /\ UNCHANGED Ended
  <2>1. ~Ended
    BY <1>7 DEF Leaves, Ended
  <2>2. Promise!Turn(Entries, "held", {"discarded"})
    BY <1>1, <1>7, LeaveTurns DEF Promise!Turn
  <2> QED
    BY <1>7, <2>1, <2>2 DEF Promise!Discard, Promise!Next, Ended
<1>8. TypeInv
  BY DEF ChunkInv
<1> QED
  BY <1>3, <1>4, <1>5, <1>6, <1>7, <1>8, Moves, StoringStep DEF Stays

\* The ingester implements Delivery: an entry is stored at most once and from
\* memory only, nothing is written after the end, and what became of an entry
\* is final, for any number of goroutines, chunks and failures.
THEOREM IngesterKeepsPromise == Spec => PromiseKept
<1>1. ASSUME Init PROVE Promise!Init
  <2>1. \A e \in Entries, c \in ChunkIds : e \notin EntriesOf(c)
    BY <1>1, NoEntryAssumption DEF Init, ChunkInit, EntriesOf
  <2> QED
    BY <1>1, <2>1 DEF Init, Promise!Init, StatusOf
<1>2. ChunkInv /\ IngesterInv /\ [Next]_vars =>
         [Promise!Next]_(Promise!deliveryVars)
  BY NextIngester, PromiseStep
<1> QED
  BY <1>1, <1>2, IngesterInvariant, PTL DEF Spec, PromiseKept, Promise!Spec


----------------------------------------------------------------------------
(* What a lock costs.                                                      *)

\* Who puts an entry logged it.
CarriersAreAuthors ==
    /\ author \in [Entries -> SUBSET Writers]
    /\ \A w \in Writers : pc[w] # "idle" => author[ent[w]] = {w}

\* What writer w got, or may still get, into chunk c from slot b on, once the
\* chunk is locked.
Late(c, b, w) ==
    {e \in Entries :
        \/ \E i \in Indexes : i >= b /\ slot[c][i] = e /\ author[e] = {w}
        \/ pc[w] \in {"book", "store"} /\ at[w] = c /\ ent[w] = e}

OneLate(c, b) == \A w \in Writers : \A e, f \in Late(c, b, w) : e = f

\* The slots of chunk c before b hold entries.
FilledTo(c, b) == \A i \in Indexes : i < b => slot[c][i] \in Entries

\* A locked chunk that goes to the storage was ready with b slots listed, and
\* every writer had one more attempt at it, at most.
FlushedIsLate ==
    rpc \in {"flush", "drainFlush"} /\ Locked(flushChunk) =>
        \E b \in 0..write[flushChunk] :
            FilledTo(flushChunk, b) /\ OneLate(flushChunk, b)

\* Those slots are stored once the chunk is saved.
SavedIsLate ==
    \A c \in ChunkIds :
        c < flushChunk /\ c \notin dropped /\ Locked(c) =>
            \E b \in Nat :
                /\ FilledTo(c, b) /\ OneLate(c, b)
                /\ \A i \in Indexes : i < b => copies[slot[c][i]] # 0

LossInv == CarriersAreAuthors /\ FlushedIsLate /\ SavedIsLate

----------------------------------------------------------------------------
LEMMA LossIsStep ==
  ASSUME [LossNext]_lossVars
  PROVE  [Next]_vars
BY DEF LossNext, lossVars

\* The author of an entry that was put is settled.
LEMMA AuthorStays ==
  ASSUME CarriersAreAuthors, [LossNext]_lossVars, NEW e \in Entries, e \notin todo
  PROVE  author'[e] = author[e]
BY DEF LossNext, lossVars, CarriersAreAuthors

LEMMA SlotIsPut ==
  ASSUME ChunkInv, NEW c \in ChunkIds, NEW i \in Indexes, slot[c][i] \in Entries
  PROVE  slot[c][i] \notin todo
BY DEF ChunkInv, Placement, StoredOnce

\* A writer keeps the entry it puts, and begins with one that nobody put.
LEMMA EntOfWriter ==
  ASSUME TypeInv, [ChunkNext]_chunkVars, NEW w \in Writers, pc'[w] # "idle"
  PROVE  \/ pc[w] # "idle" /\ ent'[w] = ent[w]
         \/ /\ ent'[w] \in todo /\ ent'[w] \notin todo'
            /\ \A v \in Writers : v # w => ent'[v] = ent[v]
<1> USE DEF TypeInv, TypeOK
<1>1. ASSUME NEW v \in Writers, NEW c \in ChunkIds, NEW e \in Entries, CallPut(v, c, e)
      PROVE  \/ pc[w] # "idle" /\ ent'[w] = ent[w]
             \/ /\ ent'[w] \in todo /\ ent'[w] \notin todo'
                /\ \A u \in Writers : u # w => ent'[u] = ent[u]
  <2>1. /\ pc[v] = "idle" /\ e \in todo /\ todo' = todo \ {e}
        /\ pc' = [pc EXCEPT ![v] = "check"] /\ ent' = [ent EXCEPT ![v] = e]
    BY <1>1 DEF CallPut, PutBegin
  <2> QED
    BY <2>1
<1>2. ASSUME NEW v \in Writers, PutStep(v)
      PROVE  pc[w] # "idle" /\ ent'[w] = ent[w]
  <2>1. CASE PutReturn(v)
    BY <2>1 DEF PutReturn
  <2>2. CASE ~PutReturn(v)
    <3>1. ent' = ent
      BY <1>2, <2>2
      DEF PutStep, PutCheck, PutBook, PutStore, PutConfirm, NextFound,
          NextPublish, NextName
    <3>2. pc[w] # "idle"
      BY <1>2, <2>2
      DEF PutStep, PutCheck, PutBook, PutStore, PutConfirm, NextFound, Follow,
          NextPublish, NextName
    <3> QED
      BY <3>1, <3>2
  <2> QED
    BY <2>1, <2>2
<1>3. CASE UNCHANGED <<pc, ent>>
  BY <1>3
<1> QED
  BY <1>1, <1>2, <1>3
  DEF ChunkNext, Lock, OwnerPublish, OwnerName, writerVars, chunkVars

\* A writer that is past the locked test was so before, or the chunk is open.
LEMMA PastTheTest ==
  ASSUME TypeInv, [ChunkNext]_chunkVars, NEW w \in Writers,
         pc'[w] \in {"book", "store"}
  PROVE  /\ ent'[w] = ent[w] /\ at'[w] = at[w]
         /\ pc[w] \in {"book", "store"} \/ ~Locked(at[w])
<1> USE DEF TypeInv, TypeOK
<1>1. ASSUME NEW v \in Writers, NEW c \in ChunkIds, NEW e \in Entries, CallPut(v, c, e)
      PROVE  UNCHANGED <<pc[w], ent[w], at[w]>>
  BY <1>1 DEF CallPut, PutBegin
<1>2. ASSUME NEW v \in Writers, v # w, PutStep(v)
      PROVE  UNCHANGED <<pc[w], ent[w], at[w]>>
  BY <1>2
  DEF PutStep, PutCheck, PutBook, PutStore, PutConfirm, NextFound, Follow,
      NextPublish, NextName, PutReturn
<1>3. ASSUME PutStep(w)
      PROVE  /\ ent'[w] = ent[w] /\ at'[w] = at[w]
             /\ pc[w] \in {"book", "store"} \/ ~Locked(at[w])
  <2>1. PutCheck(w) \/ PutBook(w)
    BY <1>3
    DEF PutStep, PutStore, PutConfirm, NextFound, Follow, NextPublish, NextName,
        PutReturn
  <2> QED
    BY <2>1 DEF PutCheck, PutBook
<1>4. CASE UNCHANGED <<pc, ent, at>>
  BY <1>4
<1> QED
  BY <1>1, <1>2, <1>3, <1>4
  DEF ChunkNext, Lock, OwnerPublish, OwnerName, writerVars, chunkVars

\* A slot changes when its writer stores.
LEMMA SlotStep ==
  ASSUME TypeInv, [ChunkNext]_chunkVars, NEW c \in ChunkIds, NEW i \in Indexes
  PROVE  \/ slot'[c][i] = slot[c][i]
         \/ \E w \in Writers :
               pc[w] = "store" /\ at[w] = c /\ idx[w] = i /\ slot'[c][i] = ent[w]
<1>1. UNCHANGED slot \/ \E v \in Writers : PutStore(v)
  BY DEF ChunkNext, PutStep, CallPut, PutBegin, PutCheck, PutBook, PutConfirm,
         NextFound, NextPublish, NextName, PutReturn, Lock, OwnerPublish,
         OwnerName, chunkVars, listVars
<1>2. ASSUME NEW v \in Writers, PutStore(v)
      PROVE  \/ slot'[c][i] = slot[c][i]
             \/ pc[v] = "store" /\ at[v] = c /\ idx[v] = i /\ slot'[c][i] = ent[v]
  <2>1. slot' = [slot EXCEPT ![at[v]][idx[v]] = ent[v]] /\ pc[v] = "store"
    BY <1>2 DEF PutStore
  <2>2. slot \in [ChunkIds -> [Indexes -> Entries \cup {NoEntry}]]
    BY DEF TypeInv, TypeOK
  <2> QED
    BY <2>1, <2>2
<1> QED
  BY <1>1, <1>2

LEMMA WriteGrows ==
  ASSUME TypeInv, [ChunkNext]_chunkVars, NEW c \in ChunkIds
  PROVE  write[c] \in Nat /\ write'[c] \in Nat /\ write[c] <= write'[c]
<1>1. write \in [ChunkIds -> Nat] /\ \A w \in Writers : at[w] \in ChunkIds
  BY AtIsChunk DEF TypeInv, TypeOK
<1>2. UNCHANGED write \/ \E v \in Writers : PutConfirm(v)
  BY DEF ChunkNext, PutStep, CallPut, PutBegin, PutCheck, PutBook, PutStore,
         NextFound, NextPublish, NextName, PutReturn, Lock, OwnerPublish,
         OwnerName, chunkVars, listVars
<1>3. ASSUME NEW v \in Writers, PutConfirm(v)
      PROVE  write'[c] \in Nat /\ write[c] <= write'[c]
  <2>1. write' = [write EXCEPT ![at[v]] = @ + 1]
    BY <1>3 DEF PutConfirm
  <2> QED
    BY <1>1, <2>1
<1> QED
  BY <1>1, <1>2, <1>3

----------------------------------------------------------------------------
LEMMA InitLoss ==
  ASSUME LossInit
  PROVE  LossInv
BY DEF LossInit, Init, ChunkInit, LossInv, CarriersAreAuthors, FlushedIsLate,
       SavedIsLate, ChunkIds

LEMMA NextAuthors ==
  ASSUME ChunkInv, CarriersAreAuthors, [ChunkNext]_chunkVars, [LossNext]_lossVars
  PROVE  CarriersAreAuthors'
<1>1. author' \in [Entries -> SUBSET Writers]
  BY DEF LossNext, lossVars, CarriersAreAuthors
<1>2. TypeInv /\ \A w \in Writers : ent[w] \notin todo
  BY DEF ChunkInv, Placement, CarriedOnce
<1>3. ASSUME NEW w \in Writers, pc'[w] # "idle"
      PROVE  author'[ent'[w]] = {w}
  <2>1. CASE pc[w] # "idle" /\ ent'[w] = ent[w]
    <3>1. ent[w] \in Entries
      BY <1>2, <2>1 DEF TypeInv, Carrying
    <3> QED
      BY <1>2, <2>1, <3>1, AuthorStays DEF CarriersAreAuthors
  <2>2. CASE /\ ent'[w] \in todo /\ ent'[w] \notin todo'
             /\ \A v \in Writers : v # w => ent'[v] = ent[v]
    <3>1. ent'[w] \in Entries /\ todo' # todo
      BY <1>2, <2>2 DEF TypeInv, TypeOK
    <3>2. author'[ent'[w]] = {v \in Writers : ent'[v] = ent'[w]}
      BY <2>2, <3>1 DEF LossNext, lossVars, vars, chunkVars
    <3>3. \A v \in Writers : ent'[v] = ent'[w] => v = w
      BY <1>2, <2>2
    <3> QED
      BY <3>2, <3>3
  <2> QED
    BY <1>2, <1>3, <2>1, <2>2, EntOfWriter
<1> QED
  BY <1>1, <1>3 DEF CarriersAreAuthors

\* What is late in a locked chunk was late before.
LEMMA LateShrinks ==
  ASSUME ChunkInv, CarriersAreAuthors, [ChunkNext]_chunkVars, [LossNext]_lossVars,
         NEW c \in ChunkIds, Locked(c), NEW b \in Nat, NEW w \in Writers
  PROVE  Late(c, b, w)' \subseteq Late(c, b, w)
<1> SUFFICES ASSUME NEW e \in Entries, e \in Late(c, b, w)'
             PROVE  e \in Late(c, b, w)
  BY DEF Late
<1>1. TypeInv /\ \A v \in Writers : ent[v] \notin todo
  BY DEF ChunkInv, Placement, CarriedOnce
<1>2. CASE pc'[w] \in {"book", "store"} /\ at'[w] = c /\ ent'[w] = e
  BY <1>1, <1>2, PastTheTest DEF Late
<1>3. ASSUME NEW i \in Indexes, i >= b, slot'[c][i] = e, author'[e] = {w}
      PROVE  e \in Late(c, b, w)
  <2>1. CASE slot'[c][i] = slot[c][i]
    <3>1. e \notin todo /\ author'[e] = author[e]
      BY <1>3, <2>1, SlotIsPut, AuthorStays
    <3> QED
      BY <1>3, <2>1, <3>1 DEF Late
  <2>2. ASSUME NEW v \in Writers,
               pc[v] = "store" /\ at[v] = c /\ idx[v] = i /\ slot'[c][i] = ent[v]
        PROVE  e \in Late(c, b, w)
    <3>1. e = ent[v] /\ author'[e] = author[e] /\ author[e] = {v}
      BY <1>1, <1>3, <2>2, AuthorStays DEF CarriersAreAuthors
    <3>2. v = w
      BY <1>3, <3>1
    <3> QED
      BY <2>2, <3>1, <3>2 DEF Late
  <2> QED
    BY <1>1, <2>1, <2>2, SlotStep
<1> QED
  BY <1>2, <1>3 DEF Late

\* So the bound survives every step, and the filled slots do.
LEMMA BoundStays ==
  ASSUME ChunkInv, CarriersAreAuthors, [ChunkNext]_chunkVars, [LossNext]_lossVars,
         NEW c \in ChunkIds, Locked(c), NEW b \in Nat, FilledTo(c, b), OneLate(c, b)
  PROVE  /\ FilledTo(c, b)' /\ OneLate(c, b)'
         /\ \A i \in Indexes : i < b => slot'[c][i] = slot[c][i]
<1>1. \A i \in Indexes : i < b => slot'[c][i] = slot[c][i] /\ slot[c][i] \in Entries
  BY SlotsKept, NoEntryAssumption DEF FilledTo
<1>2. OneLate(c, b)'
  BY LateShrinks DEF OneLate
<1> QED
  BY <1>1, <1>2 DEF FilledTo

\* A chunk that is ready has no more late entries than writers.
LEMMA ReadyIsLate ==
  ASSUME ChunkInv, NEW c \in ChunkIds, Ready(c)
  PROVE  write[c] \in Nat /\ FilledTo(c, write[c]) /\ OneLate(c, write[c])
<1>1. /\ write[c] = Taken(c) /\ write[c] \in Nat /\ Pending(c) = {}
      /\ \A i \in List(c) : i \in Indexes /\ slot[c][i] # NoEntry
  BY ReadyIsSettled
<1>2. book[c] \in Nat /\ slot \in [ChunkIds -> [Indexes -> Entries \cup {NoEntry}]]
  BY DEF ChunkInv, TypeInv, TypeOK
<1>3. FilledTo(c, write[c])
  <2>1. ASSUME NEW i \in Indexes, i < write[c] PROVE slot[c][i] \in Entries
    <3>1. i \in List(c)
      BY <1>1, <2>1, CapAssumption DEF List, Indexes
    <3> QED
      BY <1>1, <1>2, <2>1, <3>1
  <2> QED
    BY <2>1 DEF FilledTo
<1>4. ASSUME NEW i \in Indexes, i >= write[c] PROVE slot[c][i] = NoEntry
  <2>1. i >= book[c]
    BY <1>1, <1>2, <1>4, CapAssumption DEF Taken, Indexes
  <2> QED
    BY <2>1 DEF ChunkInv, Ownership, FreshAreNil
<1>5. \A w \in Writers : \A e \in Late(c, write[c], w) : e = ent[w]
  BY <1>4, NoEntryAssumption DEF Late
<1> QED
  BY <1>1, <1>3, <1>5 DEF OneLate

LEMMA NextFlushedIsLate ==
  ASSUME ChunkInv, IngesterInv, CarriersAreAuthors, FlushedIsLate,
         [ChunkNext]_chunkVars, [LossNext]_lossVars
  PROVE  FlushedIsLate'
<1> SUFFICES ASSUME rpc' \in {"flush", "drainFlush"}, Locked(flushChunk)'
             PROVE  \E b \in 0..write'[flushChunk'] :
                       FilledTo(flushChunk, b)' /\ OneLate(flushChunk, b)'
  BY DEF FlushedIsLate
<1>1. [Next]_vars /\ IngesterTypeOK /\ Standing /\ TypeInv
  BY LossIsStep DEF IngesterInv, ChunkInv
<1>2. CASE rpc' = rpc /\ flushChunk' = flushChunk
  <2>1. PICK c \in ChunkIds : c = flushChunk
    BY <1>1, <1>2, PassedAreChunks
  <2>2. Locked(c)
    <3>1. ASSUME ~Locked(c) PROVE AgeLock \/ Seal
      <4>1. Locked(c)'
        BY <1>2, <2>1 DEF Locked
      <4> QED
        BY <1>1, <2>1, <3>1, <4>1, LockingSteps
    <3> QED
      BY <1>2, <3>1 DEF AgeLock, Seal
  <2>3. PICK b \in 0..write[c] : FilledTo(c, b) /\ OneLate(c, b)
    BY <1>2, <2>1, <2>2 DEF FlushedIsLate
  <2>4. write[c] \in Nat /\ write'[c] \in Nat /\ write[c] <= write'[c]
    BY <1>1, WriteGrows
  <2>5. b \in Nat /\ b \in 0..write'[c]
    BY <2>3, <2>4
  <2>6. FilledTo(c, b)' /\ OneLate(c, b)'
    BY <2>2, <2>3, <2>5, BoundStays
  <2> QED
    BY <1>2, <2>1, <2>5, <2>6 DEF FilledTo, OneLate, Late
<1>3. CASE CheckReady \/ DrainReady
  <2>1. /\ Ready(flushChunk) /\ flushChunk' = flushChunk /\ UNCHANGED chunkVars
        /\ rpc # "init"
    BY <1>3 DEF CheckReady, DrainReady, Goto
  <2>2. PICK c \in ChunkIds : c = flushChunk
    BY <1>1, <2>1, PassedAreChunks
  <2>3. PICK b : b = write[c]
    OBVIOUS
  <2>4. b \in Nat /\ FilledTo(c, b) /\ OneLate(c, b)
    BY <2>1, <2>2, <2>3, ReadyIsLate
  <2>5. Locked(c) /\ write' = write
    BY <2>1, <2>2 DEF chunkVars, Locked
  <2>6. FilledTo(c, b)' /\ OneLate(c, b)'
    BY <2>4, <2>5, BoundStays
  <2>7. b \in 0..write'[c]
    BY <2>3, <2>4, <2>5
  <2> QED
    BY <2>1, <2>2, <2>6, <2>7 DEF FilledTo, OneLate, Late
<1> QED
  BY <1>1, <1>2, <1>3, FlushEntered

LEMMA NextSavedIsLate ==
  ASSUME ChunkInv, IngesterInv, LossInv, [ChunkNext]_chunkVars, [LossNext]_lossVars
  PROVE  SavedIsLate'
<1> SUFFICES ASSUME NEW c \in ChunkIds, c < flushChunk', c \notin dropped', Locked(c)'
             PROVE  \E b \in Nat :
                       /\ FilledTo(c, b)' /\ OneLate(c, b)'
                       /\ \A i \in Indexes : i < b => copies'[slot'[c][i]] # 0
  BY DEF SavedIsLate
<1>1. /\ [Next]_vars /\ TypeInv /\ IngesterTypeOK /\ Standing /\ CarriersAreAuthors
      /\ c \in Nat /\ flushChunk \in Nat /\ copies \in [Entries -> Nat]
  BY LossIsStep DEF IngesterInv, IngesterTypeOK, ChunkInv, ChunkIds, LossInv
<1>2. Stays \/ Saves \/ Leaves
  BY <1>1, Moves
<1>3. /\ \A e \in Entries : copies[e] # 0 => copies'[e] # 0
      /\ flushChunk' \in {flushChunk, flushChunk + 1} /\ dropped \subseteq dropped'
      /\ flushChunk' # flushChunk => Saves \/ flushChunk \in dropped'
  BY <1>1, <1>2 DEF Stays, Saves, Leaves, StorageSaves, Advance, NextToFlush
<1>4. Locked(c)
  <2>1. ASSUME ~Locked(c) PROVE c = flushChunk /\ flushChunk' = flushChunk
    <3>1. c = flushChunk /\ (AgeLock \/ Seal)
      BY <1>1, <2>1, LockingSteps
    <3> QED
      BY <3>1 DEF AgeLock, Seal
  <2> QED
    BY <1>1, <2>1
<1>5. CASE c < flushChunk
  <2>1. PICK b \in Nat : /\ FilledTo(c, b) /\ OneLate(c, b)
                         /\ \A i \in Indexes : i < b => copies[slot[c][i]] # 0
    BY <1>3, <1>4, <1>5 DEF LossInv, SavedIsLate
  <2>2. /\ FilledTo(c, b)' /\ OneLate(c, b)'
        /\ \A i \in Indexes : i < b => slot'[c][i] = slot[c][i]
    BY <1>1, <1>4, <2>1, BoundStays
  <2>3. \A i \in Indexes : i < b => copies'[slot'[c][i]] # 0
    BY <1>3, <2>1, <2>2 DEF FilledTo
  <2> QED
    BY <2>2, <2>3
<1>6. CASE ~(c < flushChunk)
  <2>1. c = flushChunk /\ Saves
    BY <1>1, <1>3, <1>6
  <2>2. PICK b \in 0..write[c] : FilledTo(c, b) /\ OneLate(c, b)
    BY <1>4, <2>1 DEF LossInv, FlushedIsLate, Saves
  <2>3. write[c] \in Nat /\ b \in Nat
    BY <1>1, <2>2, WriteGrows
  <2>4. /\ FilledTo(c, b)' /\ OneLate(c, b)'
        /\ \A i \in Indexes : i < b => slot'[c][i] = slot[c][i]
    BY <1>1, <1>4, <2>2, <2>3, BoundStays
  <2>5. ASSUME NEW i \in Indexes, i < b
        PROVE  copies'[slot'[c][i]] # 0
    <3>1. slot[c][i] \in Entries /\ slot'[c][i] = slot[c][i]
      BY <2>2, <2>4, <2>5 DEF FilledTo
    <3>2. i \in List(c)
      BY <2>2, <2>3, <2>5, CapAssumption DEF List, Indexes
    <3>3. slot[c][i] \in Listed
      BY <2>1, <3>2 DEF Listed
    <3> QED
      BY <1>1, <2>1, <3>1, <3>3 DEF Saves, StorageSaves
  <2> QED
    BY <2>3, <2>4, <2>5
<1> QED
  BY <1>5, <1>6

LEMMA NextLoss ==
  ASSUME ChunkInv, IngesterInv, LossInv, [LossNext]_lossVars
  PROVE  LossInv'
<1>1. [ChunkNext]_chunkVars
  BY LossIsStep, NextIngester
<1> QED
  BY <1>1, NextAuthors, NextFlushedIsLate, NextSavedIsLate DEF LossInv

----------------------------------------------------------------------------
(* The theorems.                                                           *)

\* With its history variable the ingester does what it does without.
THEOREM LossFollowsIngester == LossSpec => Spec
<1>1. LossInit => Init
  BY DEF LossInit
<1>2. [LossNext]_lossVars => [Next]_vars
  BY LossIsStep
<1> QED
  BY <1>1, <1>2, PTL DEF LossSpec, Spec

THEOREM LossInvariant == LossSpec => []LossInv
<1>1. LossInit => LossInv
  BY InitLoss
<1>2. ChunkInv /\ IngesterInv /\ LossInv /\ [LossNext]_lossVars => LossInv'
  BY NextLoss
<1> QED
  BY <1>1, <1>2, LossFollowsIngester, IngesterInvariant, PTL DEF LossSpec

\* Two entries of one goroutine that the save of a chunk forgot are the same.
LEMMA ForgottenAreLate ==
  ASSUME ChunkInv, IngesterInv, LossInv, NEW c \in ChunkIds, NEW w \in Writers,
         NEW e \in Forgotten(c), author[e] = {w},
         NEW f \in Forgotten(c), author[f] = {w}
  PROVE  e = f
<1>1. /\ c < flushChunk /\ c \notin dropped
      /\ e \in EntriesOf(c) /\ copies[e] = 0
      /\ f \in EntriesOf(c) /\ copies[f] = 0
  BY DEF Forgotten
<1>2. Locked(c)
  BY <1>1 DEF IngesterInv, SavedIsFull
<1>3. PICK b \in Nat : /\ FilledTo(c, b) /\ OneLate(c, b)
                       /\ \A i \in Indexes : i < b => copies[slot[c][i]] # 0
  BY <1>1, <1>2 DEF LossInv, SavedIsLate
<1>4. ASSUME NEW g \in EntriesOf(c), copies[g] = 0, author[g] = {w}
      PROVE  g \in Late(c, b, w)
  <2>1. PICK i \in Indexes : slot[c][i] = g /\ g # NoEntry
    BY DEF EntriesOf
  <2>2. g \in Entries
    BY <2>1 DEF ChunkInv, TypeInv, TypeOK
  <2>3. i >= b
    BY <1>3, <1>4, <2>1, CapAssumption DEF Indexes
  <2> QED
    BY <1>4, <2>1, <2>2, <2>3 DEF Late
<1> QED
  BY <1>1, <1>3, <1>4 DEF OneLate

\* A lock costs every goroutine one entry at most, however many chunks, retries
\* and goroutines there are (chunk.go:149-155).
THEOREM IngesterLossIsBounded == LossSpec => []LossIsBounded
<1>1. ASSUME ChunkInv, IngesterInv, LossInv, NEW c \in ChunkIds, NEW w \in Writers
      PROVE  Cardinality({e \in Forgotten(c) : author[e] = {w}}) <= 1
  <2> DEFINE L == {e \in Forgotten(c) : author[e] = {w}}
  <2>1. \A e, f \in L : e = f
    BY <1>1, ForgottenAreLate
  <2> HIDE DEF L
  <2>2. ASSUME NEW e \in L PROVE L = {e}
    BY ONLY <2>1, <2>2
  <2>3. ASSUME L = {} PROVE Cardinality(L) = 0
    BY ONLY <2>3, FS_EmptySet
  <2>4. ASSUME NEW e \in L PROVE Cardinality(L) = 1
    <3>1. Cardinality({e}) = 1
      BY ONLY FS_Singleton, Zenon
    <3> QED
      BY ONLY <2>2, <2>4, <3>1
  <2>5. Cardinality(L) <= 1
    BY ONLY <2>3, <2>4
  <2> QED
    BY <2>5 DEF L
<1>2. ChunkInv /\ IngesterInv /\ LossInv => LossIsBounded
  BY <1>1 DEF LossIsBounded
<1> QED
  BY <1>2, LossInvariant, LossFollowsIngester, IngesterInvariant, PTL
=============================================================================
