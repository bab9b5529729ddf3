----------------------------- MODULE IngesterLoss -----------------------------
(***************************************************************************)
(* What a lock costs: Ingester with one history variable, which goroutine  *)
(* logged an entry.                                                        *)
(***************************************************************************)
EXTENDS Ingester

VARIABLE
    author  \* history: [entry -> the goroutine that called Ingest with it, if any]

lossVars == <<vars, author>>

LossInit == Init /\ author = [e \in Entries |-> {}]

LossNext ==
    /\ Next
    /\ author' = [e \in Entries |->
                     IF e \in todo \ todo' THEN {w \in Writers : ent'[w] = e}
                     ELSE author[e]]

LossSpec == LossInit /\ [][LossNext]_lossVars

----------------------------------------------------------------------------
\* A lock costs a goroutine one entry at most: one that finds the chunk locked
\* once never gets into it again (chunk.go:149-155).
LossIsBounded ==
    \A c \in ChunkIds, w \in Writers :
        Cardinality({e \in Forgotten(c) : author[e] = {w}}) <= 1
=============================================================================
