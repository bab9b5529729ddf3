------------------------------- MODULE Ingester -------------------------------
(***************************************************************************)
(* The ingester of ingester.go: goroutines that call Ingest, the routine   *)
(* that flushes chunks to the storage, and the callers of Close.           *)
(*                                                                         *)
(* The ingester keeps two positions in one chunk list (module Chunk):      *)
(* writeChunk, where Ingest starts to look for room, and flushChunk, the   *)
(* next chunk to store, which only the routine moves.  The storage answers *)
(* a Flush with nil (all entries of List are stored) or an error (none     *)
(* is).  Time is abstracted: an inactive chunk may have reached            *)
(* FlushAfterSec or not, a filled one MaxChunkSizeBytes or not.            *)
(***************************************************************************)
EXTENDS Chunk

CONSTANTS
    Chunks,     \* IngesterConfig.Chunks
    MaxDirty,   \* IngesterConfig.MaxDirtyChunks
    MaxRetry,   \* IngesterConfig.MaxFlushRetry
    SizeLimit,  \* is IngesterConfig.MaxChunkSizeBytes set?
    Closers     \* the goroutines that call Close

\* What NewIngester makes of any configuration.
ASSUME ConfigAssumption ==
    /\ Chunks \in 1..255
    /\ MaxDirty \in Nat /\ (MaxDirty > Chunks \/ MaxDirty = 50)
    /\ MaxRetry \in Nat \ {0}
    /\ SizeLimit \in BOOLEAN
ASSUME BufferAssumption == Chunks <= LastChunk

VARIABLES
    writeChunk,    \* ingester.writeChunk
    writeChunkId,  \* ingester.writeChunkId
    ipc,           \* [writer -> where it is in Ingest]
    lastId,        \* [writer -> its lastWriteId]
    flushChunk,    \* ingester.flushChunk; while closing, the local chunk
    retries,       \* flushChunk.retries
    rpc,           \* where the routine is
    goal,          \* the chunk up to which its Init creates chunks ...
    back,          \* ... and where it goes on after that
    closing,       \* [closer -> where it is in Close]
    copies,        \* [entry -> how often the storage stored it]
    dropped,       \* the chunks the routine gave up on purpose
    owed           \* history: the entries accepted before Close was called

ingestVars  == <<writeChunk, writeChunkId, ipc, lastId>>
routineVars == <<flushChunk, retries, rpc, goal, back, copies, dropped>>
closeVars   == <<closing, owed>>
vars == <<chunkVars, ingestVars, routineVars, closeVars>>

\* NewIngester: root.Init(Chunks), then the routine is started.
Init ==
    /\ ChunkInit(Chunks)
    /\ writeChunk = 0
    /\ writeChunkId = 0
    /\ ipc = [w \in Writers |-> "idle"]
    /\ lastId = [w \in Writers |-> 0]
    /\ flushChunk = 0
    /\ retries = 0
    /\ rpc = "select"
    /\ goal = 0
    /\ back = "select"
    /\ closing = [p \in Closers |-> "no"]
    /\ copies = [e \in Entries |-> 0]
    /\ dropped = {}
    /\ owed = {}

----------------------------------------------------------------------------
(* Ingest.  A writer is "idle", has loaded writeChunkId ("load"), is in    *)
(* Put ("put"), or has swapped writeChunkId and is about to assign         *)
(* writeChunk ("assign").                                                  *)

\* A panic of the routine ends the process.
Alive == rpc # "panicked"

\* Each call of Ingest has an entry of its own.
CallsLeft == Cardinality({w \in Writers : ipc[w] = "load"}) < Cardinality(todo)

IngestLoad(w) ==
    /\ Alive
    /\ ipc[w] = "idle"
    /\ CallsLeft
    /\ ipc' = [ipc EXCEPT ![w] = "load"]
    /\ lastId' = [lastId EXCEPT ![w] = writeChunkId]
    /\ UNCHANGED <<chunkVars, writeChunk, writeChunkId, routineVars, closeVars>>

IngestPut(w) ==
    /\ Alive
    /\ ipc[w] = "load"
    /\ \E e \in todo : PutBegin(w, writeChunk, e)
    /\ ipc' = [ipc EXCEPT ![w] = "put"]
    /\ UNCHANGED <<writeChunk, writeChunkId, lastId, routineVars, closeVars>>

\* Put on its way, up to its return.
IngestStep(w) ==
    /\ Alive
    /\ pc[w] # "returned"
    /\ PutStep(w)
    /\ UNCHANGED <<ingestVars, routineVars, closeVars>>

\* return nil
IngestReturn(w) ==
    /\ PutReturn(w)
    /\ ipc' = [ipc EXCEPT ![w] = "idle"]
    /\ lastId' = [lastId EXCEPT ![w] = 0]

\* isFull && CompareAndSwapInt32(&i.writeChunkId, lastWriteId, chunk.id)
Swaps(w) == moved[w] /\ writeChunkId = lastId[w]

IngestSwap(w) ==
    /\ Alive
    /\ ipc[w] = "put" /\ pc[w] = "returned"
    /\ Swaps(w)
    /\ writeChunkId' = id[at[w]]
    /\ ipc' = [ipc EXCEPT ![w] = "assign"]
    /\ UNCHANGED <<chunkVars, writeChunk, lastId, routineVars, closeVars>>

IngestKeep(w) ==
    /\ Alive
    /\ ipc[w] = "put" /\ pc[w] = "returned"
    /\ ~Swaps(w)
    /\ IngestReturn(w)
    /\ UNCHANGED <<writeChunk, writeChunkId, routineVars, closeVars>>

AssignedNext(w) == at[w] + 1  \* broken: the chunk behind the one that accepted
Assigned(w) == at[w]

IngestAssign(w) ==
    /\ Alive
    /\ ipc[w] = "assign"
    /\ writeChunk' = Assigned(w)
    /\ IngestReturn(w)
    /\ UNCHANGED <<writeChunkId, routineVars, closeVars>>

----------------------------------------------------------------------------
(* The routine.  It waits in its select ("select"), or is in               *)
(* doRoutineCheck: at the head of the loop ("check"), in Flush ("flush"),  *)
(* at the age and size tests ("age"), at the limit on dirty chunks         *)
(* ("limit", "trim"); or it drains after quit: about to lock a chunk       *)
(* ("seal"), at the head of the loop ("drain"), in Flush ("drainFlush").   *)
(* In a chunk's Init it is at "init".  It ends "closed", or the process    *)
(* dies of a nil dereference in TTL ("panicked").                           *)

\* chunk.Init up to the chunk "to", then on at "next"; chunks that exist
\* already are only walked over.
GrowTo(to, next) ==
    /\ goal' = IF tail < to THEN to ELSE 0
    /\ back' = IF tail < to THEN next ELSE "select"
    /\ rpc' = IF tail < to THEN "init" ELSE next

GrowDone == goal' = 0 /\ back' = "select" /\ rpc' = back

GrowPublish ==
    /\ rpc = "init" /\ tail < goal
    /\ OwnerPublish
    /\ UNCHANGED <<ingestVars, routineVars, closeVars>>

GrowName ==
    /\ rpc = "init"
    /\ OwnerName
    /\ IF tail < goal THEN UNCHANGED <<goal, back, rpc>> ELSE GrowDone
    /\ UNCHANGED <<ingestVars, flushChunk, retries, copies, dropped, closeVars>>

\* Writers created the chunks meanwhile.
GrowFound ==
    /\ rpc = "init" /\ growing = 0 /\ tail >= goal
    /\ GrowDone
    /\ UNCHANGED <<chunkVars, ingestVars, flushChunk, retries, copies, dropped,
                   closeVars>>

\* A step of the routine that changes nothing but where it is.
Goto(next) ==
    /\ rpc' = next
    /\ UNCHANGED <<chunkVars, ingestVars, flushChunk, retries, goal, back,
                   copies, dropped, closeVars>>

Quit == \E p \in Closers : closing[p] # "no"

Tick ==
    /\ rpc = "select"
    /\ Goto("check")

TakeQuit ==
    /\ rpc = "select"
    /\ Quit
    /\ Goto("seal")

\* The slice that List returns now.
Listed == {slot[flushChunk][i] : i \in List(flushChunk)}

\* i.flushChunk = i.flushChunk.Next()
NextToFlushSame == flushChunk  \* broken: the chunk is kept
NextToFlush == flushChunk + 1
Advance == flushChunk' = NextToFlush /\ retries' = 0

\* storage.Flush(chunk) = nil; a nil in the list is passed over.
StorageSaves ==
    /\ copies' = [e \in Entries |->
                     IF e \in Listed THEN copies[e] + 1 ELSE copies[e]]
    /\ Advance
    /\ UNCHANGED <<chunkVars, ingestVars, dropped, closeVars>>

\* storage.Flush(chunk) fails, and it is not the last attempt ...
GivesUpLate(attempts) == attempts > MaxRetry + 1  \* broken: off by one
GivesUp(attempts) == attempts > MaxRetry

StorageFails ==
    /\ ~GivesUp(retries + 1)
    /\ retries' = retries + 1
    /\ UNCHANGED <<chunkVars, ingestVars, flushChunk, copies, dropped, closeVars>>

\* ... or it is, and the chunk is left behind.
StorageGivesUp ==
    /\ GivesUp(retries + 1)
    /\ dropped' = dropped \cup {flushChunk}
    /\ Advance
    /\ UNCHANGED <<chunkVars, ingestVars, copies, closeVars>>

----------------------------------------------------------------------------
(* doRoutineCheck.                                                         *)

CheckNothing ==
    /\ rpc = "check"
    /\ Empty(flushChunk)
    /\ Goto("limit")

CheckReady ==
    /\ rpc = "check"
    /\ ~Empty(flushChunk)
    /\ Ready(flushChunk)
    /\ Goto("flush")

CheckNotReady ==
    /\ rpc = "check"
    /\ ~Empty(flushChunk)
    /\ ~Ready(flushChunk)
    /\ Goto("age")

\* Init(Chunks + 1) of an uint8, and the Init(1) of Next.
Ahead == IF Chunks = 255 THEN 1 ELSE Chunks + 1

Flush ==
    /\ rpc = "flush"
    /\ \/ StorageSaves /\ GrowTo(flushChunk + Ahead, "check")
       \/ StorageGivesUp /\ GrowTo(flushChunk + Ahead, "check")
       \/ StorageFails /\ rpc' = "limit" /\ UNCHANGED <<goal, back>>

\* TTL reads the fields of a nil entry.
AgeOfNil ==
    /\ rpc = "age"
    /\ TTLOfNil(flushChunk)
    /\ Goto("panicked")

\* TTL is a positive time only when a write is confirmed ...
MayBeOld ==
    write[flushChunk] > 0 /\ ~TTLOfNil(flushChunk)

\* ... and Size only when an entry is stored.
MayBeLarge ==
    /\ SizeLimit
    /\ \E i \in Indexes : slot[flushChunk][i] # NoEntry

ToLockNext == flushChunk + 1  \* broken: the chunk behind
ToLock == flushChunk

AgeLock ==
    /\ rpc = "age"
    /\ ~TTLOfNil(flushChunk)
    /\ MayBeOld \/ MayBeLarge
    /\ Lock(ToLock)
    /\ GrowTo(flushChunk + Chunks, "limit")
    /\ UNCHANGED <<ingestVars, flushChunk, retries, copies, dropped, closeVars>>

AgeKeep ==
    /\ rpc = "age"
    /\ ~TTLOfNil(flushChunk)
    /\ Goto("limit")

\* Depth waits at a chunk whose successor is being named under its mutex.
DepthBlocked ==
    \E w \in Writers :
        /\ pc[w] = "name"
        /\ at[w] \in flushChunk..(flushChunk + Depth(flushChunk) - 1)

TooDirty == Depth(flushChunk) > MaxDirty

\* Discard the oldest chunk.
Discard ==
    /\ rpc \in {"limit", "trim"}
    /\ ~DepthBlocked
    /\ TooDirty
    /\ dropped' = dropped \cup {flushChunk}
    /\ Advance
    /\ rpc' = "trim"
    /\ UNCHANGED <<chunkVars, ingestVars, goal, back, copies, closeVars>>

DiscardEnd ==
    /\ rpc = "trim"
    /\ ~DepthBlocked
    /\ ~TooDirty
    /\ GrowTo(flushChunk + Chunks, "select")
    /\ UNCHANGED <<chunkVars, ingestVars, flushChunk, retries, copies, dropped,
                   closeVars>>

WithinLimit ==
    /\ rpc = "limit"
    /\ ~DepthBlocked
    /\ ~TooDirty
    /\ Goto("select")

----------------------------------------------------------------------------
(* The drain after quit.                                                   *)

Seal ==
    /\ rpc = "seal"
    /\ Lock(flushChunk)
    /\ rpc' = "drain"
    /\ UNCHANGED <<ingestVars, flushChunk, retries, goal, back, copies, dropped,
                   closeVars>>

\* The storage is closed and i.shutdown, too.
DrainedNotReady(c) == ~Ready(c)  \* broken: a busy chunk ends the drain
Drained(c) == Empty(c)
DrainEnd ==
    /\ rpc = "drain"
    /\ Drained(flushChunk)
    /\ Goto("closed")

\* A chunk that is not ready is tried again: its writers are still at work.
\* (The counter t of the code is reset before it can reach its limit.)
DrainReady ==
    /\ rpc = "drain"
    /\ ~Drained(flushChunk)
    /\ Ready(flushChunk)
    /\ Goto("drainFlush")

DrainFlush ==
    /\ rpc = "drainFlush"
    /\ \/ StorageSaves /\ GrowTo(flushChunk + 1, "seal")
       \/ StorageGivesUp /\ GrowTo(flushChunk + 1, "seal")
       \/ StorageFails /\ rpc' = "drain" /\ UNCHANGED <<goal, back>>

----------------------------------------------------------------------------
(* Close.                                                                  *)

\* The entries whose Ingest returned nil.
Accepted == (Entries \ todo) \ {ent[w] : w \in Writers}

\* close(i.quit); a second one panics, which Close turns into an error.
CloseBegin(p) ==
    /\ Alive
    /\ closing[p] = "no"
    /\ closing' = [closing EXCEPT ![p] = IF Quit THEN "err" ELSE "wait"]
    /\ owed' = IF Quit THEN owed ELSE Accepted
    /\ UNCHANGED <<chunkVars, ingestVars, routineVars>>

\* <-i.shutdown
CloseReturn(p) ==
    /\ closing[p] = "wait"
    /\ rpc = "closed"
    /\ closing' = [closing EXCEPT ![p] = "ok"]
    /\ UNCHANGED <<owed, chunkVars, ingestVars, routineVars>>

----------------------------------------------------------------------------
InIngest(w) ==
    \/ IngestPut(w)
    \/ IngestStep(w)
    \/ IngestSwap(w)
    \/ IngestKeep(w)
    \/ IngestAssign(w)

Routine ==
    \/ GrowPublish \/ GrowName \/ GrowFound
    \/ Tick \/ TakeQuit
    \/ CheckNothing \/ CheckReady \/ CheckNotReady
    \/ Flush
    \/ AgeOfNil \/ AgeLock \/ AgeKeep
    \/ Discard \/ DiscardEnd \/ WithinLimit
    \/ Seal \/ DrainEnd \/ DrainReady \/ DrainFlush

Next ==
    \/ \E w \in Writers : IngestLoad(w) \/ InIngest(w)
    \/ Routine
    \/ \E p \in Closers : CloseBegin(p) \/ CloseReturn(p)

Spec == Init /\ [][Next]_vars

\* The goroutines are scheduled, and the ticker ticks.  When it ticks at every
\* select, Go's random choice takes quit at last; and a chunk that keeps a
\* confirmed entry while the clock runs gets old.
Fairness ==
    /\ \A w \in Writers : WF_vars(InIngest(w))
    /\ WF_vars(Routine)
    /\ SF_vars(TakeQuit)
    /\ SF_vars(AgeLock)
    /\ \A p \in Closers : WF_vars(CloseReturn(p))

FairSpec == Spec /\ Fairness

----------------------------------------------------------------------------
(* Properties.                                                             *)

\* The variables have their types.
IngesterTypeOK ==
    /\ writeChunk \in 0..tail
    /\ writeChunkId \in Nat
    /\ ipc \in [Writers -> {"idle", "load", "put", "assign"}]
    /\ lastId \in [Writers -> Nat]
    /\ flushChunk \in Nat
    /\ retries \in 0..MaxRetry
    /\ rpc \in {"select", "check", "flush", "age", "limit", "trim", "seal",
                "drain", "drainFlush", "init", "closed", "panicked"}
    /\ goal \in Nat
    /\ back \in {"select", "check", "limit", "seal"}
    /\ closing \in [Closers -> {"no", "wait", "ok", "err"}]
    /\ copies \in [Entries -> Nat]
    /\ dropped \subseteq ChunkIds
    /\ owed \subseteq Entries

\* The entries in the slots of chunk c, and in the chunks the routine left.
EntriesOf(c) == {slot[c][i] : i \in Indexes} \ {NoEntry}
Passed == UNION {EntriesOf(c) : c \in 0..(flushChunk - 1)}

\* The entries that are gone without a trace: their chunk was saved, they were
\* not, nobody gave them up.
Forgotten(c) ==
    IF c < flushChunk /\ c \notin dropped
      THEN {e \in EntriesOf(c) : copies[e] = 0}
      ELSE {}

\* No entry is stored twice, whatever fails and is retried.
AtMostOnce == \A e \in Entries : copies[e] <= 1

\* A chunk that filled up without ever being locked is saved whole: entries
\* are forgotten only in chunks that were locked when their writers, past the
\* locked test of Put, booked a slot (chunk.go:149-155).
UnlockedAreSavedWhole ==
    \A c \in ChunkIds : ~Locked(c) => Forgotten(c) = {}

\* When the routine has shut down, every entry whose Ingest returned before
\* Close was called is in a chunk the routine handled (ingester.go:143-200).
CloseHandlesOwed == rpc = "closed" => owed \subseteq Passed

\* The routine never stands before an empty chunk while entries wait in chunks
\* behind it, until Close makes it lock an empty one: doRoutineCheck stops at
\* an empty chunk without looking further (ingester.go:214-216).
NoEntryBehindEmpty ==
    ~Quit /\ Empty(flushChunk) => \A c \in ChunkIds : c > flushChunk => Empty(c)

\* The promise of module Delivery: an entry is where its chunk is.
ChunkOf(e) == CHOOSE c \in ChunkIds : e \in EntriesOf(c)

StatusOf(e) ==
    IF \A c \in ChunkIds : e \notin EntriesOf(c) THEN "new"
    ELSE IF copies[e] > 1 THEN "stored again"
    ELSE IF copies[e] = 1 THEN "stored"
    ELSE IF ChunkOf(e) >= flushChunk THEN "held"
    ELSE IF ChunkOf(e) \in dropped THEN "discarded"
    ELSE "lost"

Promise == INSTANCE Delivery
    WITH status <- [e \in Entries |-> StatusOf(e)],
         open <- rpc \notin {"closed", "panicked"}

PromiseKept == Promise!Spec

\* Close returns, whatever the storage answers.
CloseReturns ==
    \A p \in Closers : closing[p] = "wait" ~> closing[p] = "ok" \/ rpc = "panicked"

\* Every accepted entry leaves the memory: its chunk is saved or given up,
\* unless the ingester is closed or its routine dies first.
EntriesLeaveMemory ==
    \A e \in Entries :
        e \in Accepted ~> e \in Passed \/ rpc \in {"closed", "panicked"}

----------------------------------------------------------------------------
(* The inductive invariant: with ChunkInv, why the properties above hold.  *)

\* A goroutine is inside Put exactly when Ingest called it, and has returned
\* from it when it assigns writeChunk.
Calling ==
    \A w \in Writers :
        /\ pc[w] = "idle" <=> ipc[w] \in {"idle", "load"}
        /\ ipc[w] = "assign" => pc[w] = "returned"

\* Ingest starts at the root or at a chunk that accepted an entry.
WriteStart == writeChunk = 0 \/ ~Empty(writeChunk)

\* The routine stands at a chunk of the list, unless it is creating it.
Standing ==
    /\ flushChunk <= tail + 1
    /\ rpc = "init" => flushChunk <= goal
    /\ rpc # "init" => flushChunk <= tail

\* What was stored was stored once, from a chunk the routine has left.
StoredIsPassed ==
    \A e \in Entries : copies[e] = 0 \/ (copies[e] = 1 /\ e \in Passed)

\* A chunk that goes to the storage without having been locked is full ...
FlushedIsFull ==
    rpc \in {"flush", "drainFlush"} /\ ~Locked(flushChunk) =>
        write[flushChunk] = Cap

\* ... and, when it was saved, everything in it is stored.
SavedIsFull ==
    \A c \in ChunkIds :
        c < flushChunk /\ c \notin dropped /\ ~Locked(c) =>
            write[c] = Cap /\ \A e \in EntriesOf(c) : copies[e] = 1

\* What the routine gave up is behind it.
GivenUpIsPassed == \A c \in dropped : c < flushChunk

\* The routine drains only when asked to, and only chunks it locked; it locks a
\* chunk without entries only then.
Draining ==
    /\ rpc \in {"seal", "drain", "drainFlush", "closed"} \/ back = "seal" => Quit
    /\ rpc \in {"drain", "drainFlush"} => Locked(flushChunk)
    /\ ~Quit => \A c \in ChunkIds : Locked(c) => ~Empty(c)

\* What is owed is in the list, and before the empty chunk that ends the drain.
OwedIsAhead ==
    /\ \A e \in owed : \E c \in ChunkIds : e \in EntriesOf(c)
    /\ \A k \in ChunkIds : Locked(k) /\ Empty(k) =>
          \A e \in owed : \E c \in 0..(k - 1) : e \in EntriesOf(c)

IngesterInv == /\ IngesterTypeOK
               /\ Calling
               /\ WriteStart
               /\ Standing
               /\ GivenUpIsPassed
               /\ StoredIsPassed
               /\ FlushedIsFull
               /\ SavedIsFull
               /\ Draining
               /\ OwedIsAhead
               /\ CloseHandlesOwed
=============================================================================
