------------------------------ MODULE ChunkOrder ------------------------------
(***************************************************************************)
(* The order of the entries in a chunk list: Chunk with one history        *)
(* variable, what was in the list for good when a writer entered Put.      *)
(***************************************************************************)
EXTENDS Chunk

VARIABLE
    seen  \* history: [writer -> the entries whose Put returned before its Put]

orderVars == <<chunkVars, seen>>

\* The entries whose Put returned.
Finished == (Entries \ todo) \ {ent[w] : w \in Writers}

OrderInit ==
    /\ \E depth \in ChunkIds : ChunkInit(depth)
    /\ seen = [w \in Writers |-> {}]

OrderCall(w, c, e) ==
    /\ CallPut(w, c, e)
    /\ seen' = [seen EXCEPT ![w] = Finished]

OrderReturn(w) ==
    /\ PutReturn(w)
    /\ seen' = [seen EXCEPT ![w] = {}]

OrderStep(w) ==
    /\ pc[w] # "returned"
    /\ PutStep(w)
    /\ UNCHANGED seen

OrderOwner ==
    /\ (\E c \in 0..tail : Lock(c)) \/ OwnerPublish \/ OwnerName
    /\ UNCHANGED seen

OrderNext ==
    \/ \E w \in Writers, c \in ChunkIds, e \in Entries : OrderCall(w, c, e)
    \/ \E w \in Writers : OrderStep(w) \/ OrderReturn(w)
    \/ OrderOwner

OrderSpec == OrderInit /\ [][OrderNext]_orderVars

----------------------------------------------------------------------------
\* Slot i of chunk c comes before slot j of chunk d.
Precedes(c, i, d, j) == c < d \/ (c = d /\ i < j)

\* The list keeps the order of the calls: an entry whose Put had returned when
\* another Put was called is in an earlier slot than the other's entry, also
\* when the second caller starts from an older chunk, as Ingest does when its
\* writeChunk went back (chunk.go:148-165, ingester.go:119-123).
RealTimeOrder ==
    \A w \in Writers : Holds(w) =>
        \A c \in ChunkIds, i \in Indexes :
            slot[c][i] \in seen[w] => Precedes(c, i, at[w], idx[w])
=============================================================================
