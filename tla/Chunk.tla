-------------------------------- MODULE Chunk --------------------------------
(***************************************************************************)
(* The lock-free chunk list of chunk.go.                                   *)
(*                                                                         *)
(* Chunks form a singly linked list that only grows at its end, so a chunk *)
(* is named by its position: 0 is the root, and c.next is nil exactly when *)
(* c = tail.  Many goroutines (Writers) run Put concurrently; one other    *)
(* goroutine, the owner of the list, locks chunks and prepares their       *)
(* successors (Lock and Init).  Every atomic operation of Put and of Init  *)
(* is a step of its own.  What an entry contains is abstracted; the epochs *)
(* of a chunk are the subject of module ChunkEpochs.                       *)
(***************************************************************************)
EXTENDS Naturals, FiniteSets

CONSTANTS
    Writers,    \* the goroutines that call Put
    Entries,    \* the log entries they put, each once
    Cap,        \* Chunk.cap, the same in every chunk of a list
    LastChunk,  \* bound: the last position the list may reach
    NoEntry     \* a nil *Entry

ASSUME WritersAssumption   == IsFiniteSet(Writers)
ASSUME CapAssumption       == Cap \in 1..900
ASSUME LastChunkAssumption == LastChunk \in Nat
ASSUME NoEntryAssumption   == NoEntry \notin Entries

VARIABLES
    tail,     \* the position of the last published chunk
    id,       \* [position -> Chunk.id]; 0 until the publisher sets it
    book,     \* [position -> Chunk.book]
    write,    \* [position -> Chunk.write]
    slot,     \* [position -> Chunk.entries]
    locked,   \* [position -> Chunk.locked]
    todo,     \* the entries no Put was called with yet
    pc,       \* [writer -> where it is in Put]
    at,       \* [writer -> the chunk its (recursive) Put is at]
    ent,      \* [writer -> the entry it puts]
    idx,      \* [writer -> the index it booked]
    moved,    \* [writer -> isFull, the second result of Put]
    growing   \* the chunk the owner has published but not named, or 0

listVars   == <<tail, id, book, write, slot, locked, growing>>
writerVars == <<todo, pc, at, ent, idx, moved>>
chunkVars  == <<tail, id, book, write, slot, locked, todo,
                pc, at, ent, idx, moved, growing>>

ChunkIds == 0..LastChunk
Indexes  == 0..(Cap - 1)

----------------------------------------------------------------------------
(* What the methods of a chunk answer.                                     *)

Empty(c) == book[c] = 0

Locked(c) == locked[c]

\* The three loads of Ready are one step: write <= book, both only grow, and
\* only the caller of Ready locks, so w = b at the second load is w = b now.
ReadyOnceLocked(c) ==      \* broken: does not wait for the writers
    write[c] = Cap \/ (book[c] > 0 /\ locked[c])
ReadyUnlocked(c) ==        \* broken: does not ask for the lock
    write[c] = Cap \/ (book[c] > 0 /\ write[c] = book[c])
ReadyWhenFull(c) ==        \* broken: forgets the locked chunks
    write[c] = Cap
Ready(c) ==
    \/ write[c] = Cap
    \/ book[c] > 0 /\ write[c] = book[c] /\ locked[c]

\* The indexes of the slice entries[:write].
List(c) == 0..(write[c] - 1)

\* The non-empty chunks in a row from c on.
Depth(c) == Cardinality({d \in c..tail : \A k \in c..d : ~Empty(k)})

\* TTL dereferences entries[write-1]: this is the case where it is nil.
TTLOfNil(c) == write[c] > 0 /\ slot[c][write[c] - 1] = NoEntry

\* A chunk takes no more entries once it is locked or overbooked.
Sealed(c) == Locked(c) \/ book[c] > Cap

----------------------------------------------------------------------------
(* A root chunk with Init(depth) done; nobody is in Put.                   *)
ChunkInit(depth) ==
    /\ tail = depth
    /\ id = [c \in ChunkIds |-> IF c <= depth THEN c ELSE 0]
    /\ book = [c \in ChunkIds |-> 0]
    /\ write = [c \in ChunkIds |-> 0]
    /\ slot = [c \in ChunkIds |-> [i \in Indexes |-> NoEntry]]
    /\ locked = [c \in ChunkIds |-> FALSE]
    /\ todo = Entries
    /\ pc = [w \in Writers |-> "idle"]
    /\ at = [w \in Writers |-> 0]
    /\ ent = [w \in Writers |-> NoEntry]
    /\ idx = [w \in Writers |-> 0]
    /\ moved = [w \in Writers |-> FALSE]
    /\ growing = 0

----------------------------------------------------------------------------
(* Put.  A writer is "idle", about to load locked ("check"), to add to     *)
(* book ("book"), to store the entry ("store"), to add to write            *)
(* ("confirm"), in Next() of a chunk it could not use ("next"), about to   *)
(* name the chunk it published ("name"), or back at its caller             *)
(* ("returned").                                                           *)

PutBegin(w, c, e) ==
    /\ pc[w] = "idle"
    /\ e \in todo
    /\ pc' = [pc EXCEPT ![w] = "check"]
    /\ at' = [at EXCEPT ![w] = c]
    /\ ent' = [ent EXCEPT ![w] = e]
    /\ todo' = todo \ {e}
    /\ UNCHANGED <<listVars, idx, moved>>

PutCheckNever(w) ==        \* broken: locked is not looked at
    /\ pc[w] = "check"
    /\ pc' = [pc EXCEPT ![w] = "book"]
    /\ UNCHANGED <<listVars, todo, at, ent, idx, moved>>
PutCheck(w) ==
    /\ pc[w] = "check"
    /\ pc' = [pc EXCEPT ![w] = IF Locked(at[w]) THEN "next" ELSE "book"]
    /\ UNCHANGED <<listVars, todo, at, ent, idx, moved>>

\* The index is what atomic.AddInt32(&c.book, 1) - 1 returns.
BookedIndexFromWrite(c) == write[c]        \* broken: taken from c.write
BookedIndex(c) == book[c]

OverflowsLate(index) == index > Cap        \* broken: off by one
OverflowsEarly(index) == index >= Cap - 1  \* broken: off by one
Overflows(index) == index > Cap - 1

PutBook(w) ==
    LET c == at[w]
        index == BookedIndex(c)
    IN  /\ pc[w] = "book"
        /\ book' = [book EXCEPT ![c] = @ + 1]
        /\ IF Overflows(index)
             THEN /\ pc' = [pc EXCEPT ![w] = "next"]
                  /\ UNCHANGED idx
             ELSE /\ pc' = [pc EXCEPT ![w] = "store"]
                  /\ idx' = [idx EXCEPT ![w] = index]
        /\ UNCHANGED <<tail, id, write, slot, locked, growing,
                       todo, at, ent, moved>>

PutStore(w) ==
    /\ pc[w] = "store"
    /\ slot' = [slot EXCEPT ![at[w]][idx[w]] = ent[w]]
    /\ pc' = [pc EXCEPT ![w] = "confirm"]
    /\ UNCHANGED <<tail, id, book, write, locked, growing,
                   todo, at, ent, idx, moved>>

\* The deferred atomic.AddInt32(&c.write, 1), then the return.
PutConfirm(w) ==
    /\ pc[w] = "confirm"
    /\ write' = [write EXCEPT ![at[w]] = @ + 1]
    /\ pc' = [pc EXCEPT ![w] = "returned"]
    /\ UNCHANGED <<tail, id, book, slot, locked, growing,
                   todo, at, ent, idx, moved>>

\* Put of the successor is entered and isFull will be true.
Follow(w) ==
    /\ at' = [at EXCEPT ![w] = @ + 1]
    /\ moved' = [moved EXCEPT ![w] = TRUE]
    /\ pc' = [pc EXCEPT ![w] = "check"]

\* Next() finds the successor published, named or not.
NextFound(w) ==
    /\ pc[w] = "next"
    /\ at[w] < tail
    /\ Follow(w)
    /\ UNCHANGED <<listVars, todo, ent, idx>>

\* Init under c.mu: c.next is assigned first ...
NextPublish(w) ==
    /\ pc[w] = "next"
    /\ at[w] = tail
    /\ tail < LastChunk
    /\ tail' = tail + 1
    /\ pc' = [pc EXCEPT ![w] = "name"]
    /\ UNCHANGED <<id, book, write, slot, locked, growing,
                   todo, at, ent, idx, moved>>

\* ... and c.next.id after it, from what c.id is by then.
NextName(w) ==
    /\ pc[w] = "name"
    /\ id' = [id EXCEPT ![at[w] + 1] = id[at[w]] + 1]
    /\ Follow(w)
    /\ UNCHANGED <<tail, book, write, slot, locked, growing, todo, ent, idx>>

\* The caller of Put is done with the two results.
PutReturn(w) ==
    /\ pc[w] = "returned"
    /\ pc' = [pc EXCEPT ![w] = "idle"]
    /\ at' = [at EXCEPT ![w] = 0]
    /\ ent' = [ent EXCEPT ![w] = NoEntry]
    /\ idx' = [idx EXCEPT ![w] = 0]
    /\ moved' = [moved EXCEPT ![w] = FALSE]
    /\ UNCHANGED <<listVars, todo>>

----------------------------------------------------------------------------
(* The owner of the list.                                                  *)

Lock(c) ==
    /\ locked' = [locked EXCEPT ![c] = TRUE]
    /\ UNCHANGED <<tail, id, book, write, slot, growing, writerVars>>

\* Init under c.mu, the same two assignments.
OwnerPublish ==
    /\ growing = 0
    /\ tail < LastChunk
    /\ tail' = tail + 1
    /\ growing' = tail + 1
    /\ UNCHANGED <<id, book, write, slot, locked, writerVars>>

OwnerName ==
    /\ growing # 0
    /\ id' = [id EXCEPT ![growing] = id[growing - 1] + 1]
    /\ growing' = 0
    /\ UNCHANGED <<tail, book, write, slot, locked, writerVars>>

----------------------------------------------------------------------------
PutStep(w) ==
    \/ PutCheck(w)
    \/ PutBook(w)
    \/ PutStore(w)
    \/ PutConfirm(w)
    \/ NextFound(w)
    \/ NextPublish(w)
    \/ NextName(w)
    \/ PutReturn(w)

\* The rule for callers: they hold the root or a chunk that Put returned.
CallPutAny(w, c, e) ==     \* broken: they may hold a chunk nobody wrote to
    /\ c <= tail
    /\ PutBegin(w, c, e)
CallPut(w, c, e) ==
    /\ c <= tail
    /\ c = 0 \/ ~Empty(c)
    /\ PutBegin(w, c, e)

ChunkNext ==
    \/ \E w \in Writers : PutStep(w)
    \/ \E w \in Writers, c \in ChunkIds, e \in Entries : CallPut(w, c, e)
    \/ \E c \in 0..tail : Lock(c)
    \/ OwnerPublish
    \/ OwnerName

\* The list on its own: a root chunk after an Init of any depth, and callers
\* that follow the rule.
ChunkSpec ==
    (\E depth \in ChunkIds : ChunkInit(depth)) /\ [][ChunkNext]_chunkVars

----------------------------------------------------------------------------
(* Properties.                                                             *)

\* The variables have their types; in particular an index that Put booked is
\* one of the chunk's, and a chunk is no further than the end of the list.
TypeOK ==
    /\ tail \in ChunkIds
    /\ id \in [ChunkIds -> Nat]
    /\ book \in [ChunkIds -> Nat]
    /\ write \in [ChunkIds -> Nat]
    /\ slot \in [ChunkIds -> [Indexes -> Entries \cup {NoEntry}]]
    /\ locked \in [ChunkIds -> BOOLEAN]
    /\ todo \subseteq Entries
    /\ pc \in [Writers -> {"idle", "check", "book", "store", "confirm",
                           "next", "name", "returned"}]
    /\ at \in [Writers -> 0..tail]
    /\ ent \in [Writers -> Entries \cup {NoEntry}]
    /\ idx \in [Writers -> Indexes]
    /\ moved \in [Writers -> BOOLEAN]
    /\ growing \in 0..tail

\* A slot is assigned once: what a goroutine stored at entries[index] is never
\* overwritten by another (the "safe write" of Put, marked "@TODO: test to
\* ensure it is safe", chunk.go:164-165).
SlotsWriteOnce ==
    [][\A c \in ChunkIds, i \in Indexes :
          slot[c][i] # NoEntry => slot'[c][i] = slot[c][i]]_chunkVars

\* When Ready answers true every entry that was promised a slot is in it, so
\* that a List taken at once has no nil (chunk.go:112-121).
ReadyHasNoHoles ==
    \A c \in ChunkIds :
        Ready(c) => \A i \in List(c) : slot[c][i] # NoEntry

\* An entry goes to the first chunk that can take it: nothing was ever written
\* to a chunk, and nobody works on one, while an earlier chunk still has room.
\* The owner relies on it: a chunk behind an empty unlocked chunk is empty.
FirstOpenChunk ==
    /\ \A c \in ChunkIds : ~Empty(c) => \A k \in 0..(c - 1) : Sealed(k)
    /\ \A w \in Writers :
          pc[w] # "idle" => \A k \in 0..(at[w] - 1) : Sealed(k)

----------------------------------------------------------------------------
(* The inductive invariant: why the properties above hold.                 *)

\* The writer was given the slot idx[w] of chunk at[w] and did not confirm it.
Holds(w) == pc[w] \in {"store", "confirm"}

\* The writers with a slot of chunk c to confirm.
Pending(c) == {w \in Writers : Holds(w) /\ at[w] = c}

\* The slots of chunk c that were given away.
Taken(c) == IF book[c] <= Cap THEN book[c] ELSE Cap

\* A writer inside Put has an entry, and one that names a chunk is not at the
\* end of the list.
Carrying ==
    /\ \A w \in Writers : pc[w] # "idle" => ent[w] \in Entries
    /\ \A w \in Writers : pc[w] = "name" => at[w] < tail

TypeInv == TypeOK /\ Carrying

\* Slots are given away in order of index ...
FreshAreNil ==
    \A c \in ChunkIds, i \in Indexes : i >= book[c] => slot[c][i] = NoEntry

\* ... each to one writer, ...
ClaimsAreBooked == \A w \in Writers : Holds(w) => idx[w] < book[at[w]]

ClaimsAreDistinct ==
    \A v, w \in Writers :
        Holds(v) /\ Holds(w) /\ at[v] = at[w] /\ idx[v] = idx[w] => v = w

\* ... which finds its slot nil; ...
ClaimsAreNil ==
    \A w \in Writers : pc[w] = "store" => slot[at[w]][idx[w]] = NoEntry

\* ... and a slot given away is nil only until that writer stored the entry.
HolesAreClaimed ==
    \A c \in ChunkIds, i \in Indexes :
        i < book[c] /\ slot[c][i] = NoEntry =>
            \E w \in Writers : pc[w] = "store" /\ at[w] = c /\ idx[w] = i

Ownership == /\ FreshAreNil
             /\ ClaimsAreBooked
             /\ ClaimsAreDistinct
             /\ ClaimsAreNil
             /\ HolesAreClaimed

\* Every slot given away is either confirmed or held by exactly one writer.
Counting == \A c \in ChunkIds : write[c] + Cardinality(Pending(c)) = Taken(c)

\* FirstOpenChunk, with what Put knows when it moves on.
Passing ==
    /\ FirstOpenChunk
    /\ \A w \in Writers : pc[w] \in {"next", "name"} => Sealed(at[w])

\* The writer has an entry that is in no slot yet.
Carries(w) == pc[w] \in {"check", "book", "store", "next", "name"}

\* An entry is with one writer at most, in one slot at most, and not in both
\* before it is stored.
CarriedOnce ==
    /\ \A w \in Writers : ent[w] \notin todo
    /\ \A v, w \in Writers :
          pc[v] # "idle" /\ pc[w] # "idle" /\ ent[v] = ent[w] => v = w

StoredOnce ==
    /\ \A c \in ChunkIds, i \in Indexes : slot[c][i] \notin todo
    /\ \A w \in Writers, c \in ChunkIds, i \in Indexes :
          Carries(w) => slot[c][i] # ent[w]
    /\ \A c, d \in ChunkIds, i, j \in Indexes :
          slot[c][i] # NoEntry /\ slot[c][i] = slot[d][j] => c = d /\ i = j

\* Put returns a chunk that is not empty.
Landing == \A w \in Writers : pc[w] = "returned" => ~Empty(at[w])

\* An entry that Put was called with is with its writer or in a slot.
Kept ==
    \A e \in Entries \ todo :
        \/ \E w \in Writers : Carries(w) /\ ent[w] = e
        \/ \E c \in ChunkIds, i \in Indexes : slot[c][i] = e

Placement == CarriedOnce /\ StoredOnce /\ Landing /\ Kept

ChunkInv == TypeInv /\ Ownership /\ Counting /\ Passing /\ Placement
=============================================================================
