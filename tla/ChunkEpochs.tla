----------------------------- MODULE ChunkEpochs -----------------------------
(***************************************************************************)
(* The epochs of one chunk: how concurrent Puts keep epochStart and        *)
(* epochEnd with loads and compare-and-swaps (chunk.go:167-184).  First    *)
(* and Last hand them to the storage, which uses them as the range of      *)
(* times a database covers.                                                *)
(***************************************************************************)
EXTENDS Naturals, FiniteSets

CONSTANTS
    Writers,  \* the goroutines that call Put
    Epochs,   \* the times of entries, in seconds since 1970
    MaxPuts   \* bound: how many entries are put in all

ASSUME EpochsAssumption  == Epochs \subseteq Nat \ {0}
ASSUME MaxPutsAssumption == MaxPuts \in Nat

VARIABLES
    epochStart,  \* Chunk.epochStart, 0 while there is no entry
    epochEnd,    \* Chunk.epochEnd
    pc,          \* [writer -> where it is in Put]
    epoch,       \* [writer -> entryEpoch]
    reg,         \* [writer -> what it loaded: last, then first]
    i,           \* [writer -> the counter of its retry loop]
    puts,        \* how many entries were put
    epochsPut    \* history: the epochs of the entries that were put

vars == <<epochStart, epochEnd, pc, epoch, reg, i, puts, epochsPut>>

First == epochStart
Last  == epochEnd

Init ==
    /\ epochStart = 0
    /\ epochEnd = 0
    /\ pc = [w \in Writers |-> "idle"]
    /\ epoch = [w \in Writers |-> 0]
    /\ reg = [w \in Writers |-> 0]
    /\ i = [w \in Writers |-> 0]
    /\ puts = 0
    /\ epochsPut = {}

Goto(w, next) == pc' = [pc EXCEPT ![w] = next]

Begin(w, t) ==
    /\ pc[w] = "idle"
    /\ puts < MaxPuts
    /\ puts' = puts + 1
    /\ epoch' = [epoch EXCEPT ![w] = t]
    /\ epochsPut' = epochsPut \cup {t}
    /\ Goto(w, "loadEnd")
    /\ UNCHANGED <<epochStart, epochEnd, reg, i>>

\* last := c.epochEnd; entryEpoch > last
LoadEnd(w) ==
    /\ pc[w] = "loadEnd"
    /\ reg' = [reg EXCEPT ![w] = epochEnd]
    /\ Goto(w, IF epoch[w] > epochEnd THEN "swapEnd" ELSE "loadStart")
    /\ UNCHANGED <<epochStart, epochEnd, epoch, i, puts, epochsPut>>

\* The one attempt to move epochEnd; it is not looked at whether it worked.
SwapsEndAlways(w) == epoch[w]               \* broken: a store, no swap
SwapsEnd(w) == IF epochEnd = reg[w] THEN epoch[w] ELSE epochEnd

SwapEnd(w) ==
    /\ pc[w] = "swapEnd"
    /\ epochEnd' = SwapsEnd(w)
    /\ Goto(w, "loadStart")
    /\ UNCHANGED <<epochStart, epoch, reg, i, puts, epochsPut>>

\* Put is over: its registers are dead.
Return(w) ==
    /\ Goto(w, "idle")
    /\ epoch' = [epoch EXCEPT ![w] = 0]
    /\ reg' = [reg EXCEPT ![w] = 0]
    /\ i' = [i EXCEPT ![w] = 0]
    /\ UNCHANGED <<puts, epochsPut>>

Stay(w, next) == Goto(w, next) /\ UNCHANGED <<epoch, puts, epochsPut>>

\* first := c.epochStart; first == 0 || entryEpoch < first
LoadStart(w) ==
    /\ pc[w] = "loadStart"
    /\ IF epochStart = 0 \/ epoch[w] < epochStart
         THEN /\ reg' = [reg EXCEPT ![w] = epochStart]
              /\ Stay(w, "swapStart")
              /\ UNCHANGED i
         ELSE Return(w)
    /\ UNCHANGED <<epochStart, epochEnd>>

\* A swap that works ends Put ...
SwapStart(w) ==
    /\ pc[w] \in {"swapStart", "swapAgain"}
    /\ epochStart = reg[w]
    /\ epochStart' = epoch[w]
    /\ Return(w)
    /\ UNCHANGED epochEnd

\* ... and one that fails is repeated, three times at most.
AttemptsLeftNever(w) == FALSE               \* broken: no retry
AttemptsLeft(w) == pc[w] = "swapStart" \/ i[w] < 2

SwapStartFails(w) ==
    /\ pc[w] \in {"swapStart", "swapAgain"}
    /\ epochStart # reg[w]
    /\ IF AttemptsLeft(w)
         THEN /\ Stay(w, "reload")
              /\ i' = [i EXCEPT ![w] = IF pc[w] = "swapStart" THEN 0 ELSE @ + 1]
              /\ UNCHANGED reg
         ELSE Return(w)
    /\ UNCHANGED <<epochStart, epochEnd>>

\* first = c.epochStart; entryEpoch < first
Reload(w) ==
    /\ pc[w] = "reload"
    /\ IF epoch[w] < epochStart
         THEN /\ reg' = [reg EXCEPT ![w] = epochStart]
              /\ Stay(w, "swapAgain")
              /\ UNCHANGED i
         ELSE Return(w)
    /\ UNCHANGED <<epochStart, epochEnd>>

Next ==
    \E w \in Writers :
        \/ \E t \in Epochs : Begin(w, t)
        \/ LoadEnd(w)
        \/ SwapEnd(w)
        \/ LoadStart(w)
        \/ SwapStart(w)
        \/ SwapStartFails(w)
        \/ Reload(w)

Spec == Init /\ [][Next]_vars

----------------------------------------------------------------------------
Quiescent == epochsPut # {} /\ \A w \in Writers : pc[w] = "idle"

\* epochEnd never goes back, however the swaps of the writers interleave.
EndNeverFalls == [][epochEnd' >= epochEnd]_vars

\* When no Put is under way, First and Last are times of entries.  First is the
\* earliest as long as the entries have four different times at most: each swap
\* that fails does so for an earlier time, and the retry loop makes four
\* attempts in all.  Last is not always the latest: its swap is tried once.
FirstIsEarliest ==
    Quiescent => /\ First \in epochsPut
                 /\ Last \in epochsPut
                 /\ Cardinality(epochsPut) <= 4 =>
                       \A t \in epochsPut : First <= t
=============================================================================
