------------------------------- MODULE Delivery -------------------------------
(***************************************************************************)
(* What the ingester promises about an entry, whatever chunks, goroutines  *)
(* and retries there are: it is stored at most once, only from memory,     *)
(* never after the storage was closed, and what became of it is final.     *)
(***************************************************************************)
CONSTANT Entries

VARIABLES
    status,  \* [entry -> what became of it]
    open     \* does the ingester still write to the storage?

deliveryVars == <<status, open>>

\* "new": not in a chunk yet.  "held": in a chunk still to be flushed.
\* "stored": saved.  "discarded": in a chunk that was given up.  "lost": in a
\* chunk that was saved without it.
Statuses == {"new", "held", "stored", "discarded", "lost"}

TypeOK == status \in [Entries -> Statuses] /\ open \in BOOLEAN

Init == status = [e \in Entries |-> "new"] /\ open = TRUE

\* Entries in the set may go from one status to another; the rest stay.
Turn(S, from, to) ==
    /\ status' \in [Entries -> Statuses]
    /\ \A e \in Entries :
          status'[e] # status[e] => e \in S /\ status[e] = from /\ status'[e] \in to

\* Ingest puts an entry into a chunk, which may be flushed or discarded already.
Accept(e) ==
    /\ Turn({e}, "new", {"held", "lost", "discarded"})
    /\ UNCHANGED open

\* A chunk is saved, some of its entries perhaps left out.
Save ==
    /\ open
    /\ Turn(Entries, "held", {"stored", "lost"})
    /\ UNCHANGED open

\* A chunk is given up.
Discard ==
    /\ open
    /\ Turn(Entries, "held", {"discarded"})
    /\ UNCHANGED open

\* The storage is closed, or the process died.
Shut ==
    /\ open
    /\ open' = FALSE
    /\ UNCHANGED status

Next ==
    \/ \E e \in Entries : Accept(e)
    \/ Save
    \/ Discard
    \/ Shut

Spec == Init /\ [][Next]_deliveryVars
=============================================================================
