-------------------------- MODULE ChunkEpochsProofs --------------------------
(***************************************************************************)
(* The epochs of a chunk, for any number of writers and entries: epochEnd  *)
(* never falls, and epochStart is the earliest time when no Put is under   *)
(* way, as long as there are no more times than the retry loop has         *)
(* attempts.                                                               *)
(*                                                                         *)
(* The argument for epochStart counts no writers.  A swap of w fails       *)
(* because epochStart is another time than the one w loaded, hence an      *)
(* earlier one, and a time of an entry.  So after n failures there are n   *)
(* times in epochsPut that are not before epochStart, and if w gives up    *)
(* with an earlier time of its own, it is the fifth.                       *)
(***************************************************************************)
EXTENDS ChunkEpochs, FiniteSetTheorems, TLAPS

Steps == {"idle", "loadEnd", "swapEnd", "loadStart", "swapStart", "reload",
          "swapAgain"}

EpochsTypeOK ==
    /\ epochStart \in Nat
    /\ epochEnd \in Nat
    /\ pc \in [Writers -> Steps]
    /\ epoch \in [Writers -> Nat]
    /\ reg \in [Writers -> Nat]
    /\ i \in [Writers -> 0..2]
    /\ puts \in Nat
    /\ epochsPut \subseteq Epochs
    /\ IsFiniteSet(epochsPut)

\* What is in the chunk is a time of an entry.
StartIsPut == epochStart = 0 \/ epochStart \in epochsPut
EndIsPut   == epochEnd = 0 \/ epochEnd \in epochsPut

\* A Put under way works for an entry.
WorksForPut == \A w \in Writers : pc[w] # "idle" => epoch[w] \in epochsPut

\* What a writer is about to store improves on what it loaded, and what it
\* loaded is not better than what the chunk has now.
EndImproves ==
    \A w \in Writers : pc[w] = "swapEnd" => /\ reg[w] < epoch[w]
                                            /\ reg[w] <= epochEnd
StartImproves ==
    \A w \in Writers :
        pc[w] \in {"swapStart", "swapAgain"} /\ reg[w] # 0 =>
            /\ epoch[w] < reg[w]
            /\ epochStart # 0
            /\ epochStart <= reg[w]

\* The times in S that are not before t.
From(S, t) == {s \in S : s >= t}

\* Each failure has left another time behind.
FailuresArePaid ==
    \A w \in Writers :
        /\ pc[w] = "reload" => /\ epochStart # 0
                               /\ Cardinality(From(epochsPut, epochStart)) > i[w]
        /\ pc[w] = "swapAgain" => /\ reg[w] # 0
                                  /\ Cardinality(From(epochsPut, reg[w])) > i[w]

\* A time that epochStart has not taken note of is still being worked for, or
\* there are five times.
StartFollows ==
    \A t \in epochsPut :
        \/ epochStart # 0 /\ epochStart <= t
        \/ \E w \in Writers : pc[w] # "idle" /\ epoch[w] = t
        \/ Cardinality(epochsPut) > 4

\* The first Put has not come to its swaps, or there are a start and an end.
StartIsSet ==
    epochsPut # {} => epochStart # 0 \/ \E w \in Writers : pc[w] # "idle"
EndIsSet ==
    epochsPut # {} =>
        epochEnd # 0 \/ \E w \in Writers : pc[w] \in {"loadEnd", "swapEnd"}

EpochsInv ==
    /\ EpochsTypeOK
    /\ StartIsPut
    /\ EndIsPut
    /\ WorksForPut
    /\ EndImproves
    /\ StartImproves
    /\ FailuresArePaid
    /\ StartFollows
    /\ StartIsSet
    /\ EndIsSet

----------------------------------------------------------------------------
(* The times of a finite set.                                              *)

LEMMA FromIsFinite ==
    ASSUME NEW S, IsFiniteSet(S), NEW t
    PROVE  /\ IsFiniteSet(From(S, t))
           /\ Cardinality(From(S, t)) \in Nat
           /\ Cardinality(S) \in Nat
           /\ Cardinality(From(S, t)) <= Cardinality(S)
<1>1. From(S, t) \in SUBSET S
  BY DEF From
<1> QED
  BY <1>1, FS_Subset, FS_CardinalityType

\* A larger set, or an earlier time, leaves no fewer.
LEMMA FromGrows ==
    ASSUME NEW T, IsFiniteSet(T), NEW S \in SUBSET T, T \subseteq Nat,
           NEW a \in Nat, NEW b \in Nat, a <= b
    PROVE  Cardinality(From(S, b)) <= Cardinality(From(T, a))
<1>0. ASSUME NEW x \in From(S, b) PROVE x \in From(T, a)
  <2>1. x \in S /\ x >= b
    BY DEF From
  <2>2. x \in T /\ x \in Nat /\ x >= a
    BY <2>1
  <2> QED
    BY <2>2 DEF From
<1>1. From(S, b) \in SUBSET From(T, a)
  BY <1>0
<1> QED
  BY <1>1, FromIsFinite, FS_Subset

\* An earlier time of the set is one more.
LEMMA FromEarlier ==
    ASSUME NEW S, IsFiniteSet(S), S \subseteq Nat,
           NEW a \in S, NEW b \in Nat, a < b
    PROVE  Cardinality(From(S, b)) < Cardinality(From(S, a))
<1>1. From(S, b) \in SUBSET From(S, a)
  <2>1. ASSUME NEW x \in From(S, b) PROVE x \in From(S, a)
    <3>1. x \in S /\ x >= b
      BY DEF From
    <3>2. x \in Nat /\ x >= a
      BY <3>1
    <3> QED
      BY <3>1, <3>2 DEF From
  <2> QED
    BY <2>1
<1>2. a \in From(S, a) /\ a \notin From(S, b)
  BY DEF From
<1>3. From(S, b) # From(S, a)
  BY <1>2
<1>4. Cardinality(From(S, b)) <= Cardinality(From(S, a))
  BY <1>1, FromIsFinite, FS_Subset
<1>5. Cardinality(From(S, a)) # Cardinality(From(S, b))
  BY <1>1, <1>3, FromIsFinite, FS_Subset
<1> QED
  BY <1>4, <1>5, FromIsFinite

----------------------------------------------------------------------------
(* Each part of the invariant is kept by every step.                       *)

LEMMA EpochsTypeKept == EpochsTypeOK /\ [Next]_vars => EpochsTypeOK'
<1> SUFFICES ASSUME EpochsTypeOK, [Next]_vars PROVE EpochsTypeOK'
  OBVIOUS
<1> USE DEF EpochsTypeOK, Steps
<1>1. ASSUME NEW w \in Writers, NEW t \in Epochs, Begin(w, t) PROVE EpochsTypeOK'
  <2>1. IsFiniteSet(epochsPut')
    BY <1>1, FS_AddElement DEF Begin
  <2> QED
    BY <1>1, <2>1, EpochsAssumption DEF Begin, Goto
<1>2. ASSUME NEW w \in Writers, LoadEnd(w) PROVE EpochsTypeOK'
  BY <1>2 DEF LoadEnd, Goto
<1>3. ASSUME NEW w \in Writers, SwapEnd(w) PROVE EpochsTypeOK'
  BY <1>3 DEF SwapEnd, SwapsEnd, Goto
<1>4. ASSUME NEW w \in Writers, LoadStart(w) PROVE EpochsTypeOK'
  BY <1>4 DEF LoadStart, Return, Stay, Goto
<1>5. ASSUME NEW w \in Writers, SwapStart(w) PROVE EpochsTypeOK'
  BY <1>5 DEF SwapStart, Return, Goto
<1>6. ASSUME NEW w \in Writers, SwapStartFails(w) PROVE EpochsTypeOK'
  BY <1>6 DEF SwapStartFails, AttemptsLeft, Return, Stay, Goto
<1>7. ASSUME NEW w \in Writers, Reload(w) PROVE EpochsTypeOK'
  BY <1>7 DEF Reload, Return, Stay, Goto
<1>8. CASE UNCHANGED vars
  BY <1>8 DEF vars
<1> QED
  BY <1>1, <1>2, <1>3, <1>4, <1>5, <1>6, <1>7, <1>8 DEF Next

\* What a step of w leaves of the other writers, and how epochStart moves.
OthersStay(w) ==
    \A v \in Writers \ {w} : /\ pc'[v] = pc[v]
                             /\ epoch'[v] = epoch[v]
                             /\ reg'[v] = reg[v]
                             /\ i'[v] = i[v]

StepOf(w) ==
    \/ \E t \in Epochs : Begin(w, t)
    \/ LoadEnd(w)
    \/ SwapEnd(w)
    \/ LoadStart(w)
    \/ SwapStart(w)
    \/ SwapStartFails(w)
    \/ Reload(w)

LEMMA OthersStayStill ==
    ASSUME EpochsTypeOK, NEW w \in Writers, StepOf(w)
    PROVE  OthersStay(w) /\ epochsPut \subseteq epochsPut'
BY DEF StepOf, Begin, LoadEnd, SwapEnd, LoadStart, SwapStart, SwapStartFails,
       Reload, Return, Stay, Goto, OthersStay, EpochsTypeOK

\* epochStart gets a time of an entry, an earlier one than it had if any.
LEMMA StartFalls ==
    ASSUME EpochsInv, NEW w \in Writers, StepOf(w), epochStart' # epochStart
    PROVE  /\ SwapStart(w)
           /\ epochStart' = epoch[w]
           /\ epochStart' \in epochsPut
           /\ epochStart' # 0
           /\ epochStart # 0 => epochStart' < epochStart
<1>1. SwapStart(w)
  BY DEF StepOf, Begin, LoadEnd, SwapEnd, LoadStart, SwapStart, SwapStartFails,
         Reload, Return, Stay, Goto
<1>2. epoch[w] \in epochsPut /\ epoch[w] # 0
  BY <1>1, EpochsAssumption DEF SwapStart, EpochsInv, WorksForPut, EpochsTypeOK
<1> QED
  BY <1>1, <1>2 DEF SwapStart, EpochsInv, StartImproves

LEMMA StartIsPutKept ==
    ASSUME EpochsInv, NEW w \in Writers, StepOf(w)
    PROVE  StartIsPut'
BY StartFalls, OthersStayStill DEF EpochsInv, StartIsPut

LEMMA WorksForPutKept ==
    ASSUME EpochsInv, NEW w \in Writers, StepOf(w)
    PROVE  WorksForPut'
<1>1. EpochsTypeOK /\ WorksForPut
  BY DEF EpochsInv
<1>2. ASSUME NEW v \in Writers \ {w}, pc'[v] # "idle" PROVE epoch'[v] \in epochsPut'
  BY <1>1, <1>2, OthersStayStill DEF OthersStay, WorksForPut
<1>3. pc'[w] # "idle" => epoch'[w] \in epochsPut'
  BY <1>1 DEF StepOf, Begin, LoadEnd, SwapEnd, LoadStart, SwapStart,
              SwapStartFails, Reload, Return, Stay, Goto, EpochsTypeOK, WorksForPut
<1> QED
  BY <1>2, <1>3 DEF WorksForPut

\* A swap of epochEnd that works stores a later time, and one that fails does
\* nothing.
LEMMA EndRises ==
    ASSUME EpochsInv, NEW w \in Writers, StepOf(w)
    PROVE  /\ epochEnd' >= epochEnd
           /\ epochEnd' # epochEnd => /\ SwapEnd(w)
                                      /\ epochEnd' = epoch[w]
<1>1. CASE SwapEnd(w)
  BY <1>1 DEF SwapEnd, SwapsEnd, EpochsInv, EpochsTypeOK, EndImproves
<1>2. CASE ~SwapEnd(w)
  <2>1. epochEnd' = epochEnd
    BY <1>2 DEF StepOf, Begin, LoadEnd, LoadStart, SwapStart, SwapStartFails,
                Reload, Return, Stay, Goto
  <2> QED
    BY <2>1 DEF EpochsInv, EpochsTypeOK
<1> QED
  BY <1>1, <1>2

LEMMA EndIsPutKept ==
    ASSUME EpochsInv, NEW w \in Writers, StepOf(w)
    PROVE  EndIsPut'
<1>1. SwapEnd(w) => epoch[w] \in epochsPut
  BY DEF SwapEnd, EpochsInv, WorksForPut
<1> QED
  BY <1>1, EndRises, OthersStayStill DEF EpochsInv, EndIsPut

LEMMA EndImprovesKept ==
    ASSUME EpochsInv, NEW w \in Writers, StepOf(w)
    PROVE  EndImproves'
<1>1. EpochsTypeOK /\ EndImproves
  BY DEF EpochsInv
<1>2. ASSUME NEW v \in Writers \ {w}, pc'[v] = "swapEnd"
      PROVE  reg'[v] < epoch'[v] /\ reg'[v] <= epochEnd'
  <2>1. reg'[v] < epoch'[v] /\ reg'[v] <= epochEnd
    BY <1>1, <1>2, OthersStayStill DEF OthersStay, EndImproves
  <2> QED
    BY <1>1, <1>2, <2>1, EndRises, EpochsTypeKept, OthersStayStill
       DEF EpochsTypeOK, OthersStay
<1>3. pc'[w] = "swapEnd" => reg'[w] < epoch'[w] /\ reg'[w] <= epochEnd'
  BY <1>1 DEF StepOf, Begin, LoadEnd, SwapEnd, LoadStart, SwapStart,
              SwapStartFails, Reload, Return, Stay, Goto, EpochsTypeOK
<1> QED
  BY <1>2, <1>3 DEF EndImproves

LEMMA StartImprovesKept ==
    ASSUME EpochsInv, NEW w \in Writers, StepOf(w)
    PROVE  StartImproves'
<1> DEFINE Improves(v) ==
      pc'[v] \in {"swapStart", "swapAgain"} /\ reg'[v] # 0 =>
          /\ epoch'[v] < reg'[v]
          /\ epochStart' # 0
          /\ epochStart' <= reg'[v]
<1>1. EpochsTypeOK /\ StartImproves
  BY DEF EpochsInv
<1>2. EpochsTypeOK'
  BY <1>1, EpochsTypeKept DEF StepOf, Next
<1>3. ASSUME NEW v \in Writers \ {w} PROVE Improves(v)
  <2>1. pc'[v] \in {"swapStart", "swapAgain"} /\ reg'[v] # 0 =>
          epoch'[v] < reg'[v] /\ epochStart # 0 /\ epochStart <= reg'[v]
    BY <1>1, OthersStayStill DEF OthersStay, StartImproves
  <2>2. reg'[v] \in Nat
    BY <1>2 DEF EpochsTypeOK
  <2> QED
    BY <1>1, <1>2, <2>1, <2>2, StartFalls DEF EpochsTypeOK
<1>4. Improves(w)
  BY <1>1 DEF StepOf, Begin, LoadEnd, SwapEnd, LoadStart, SwapStart,
              SwapStartFails, Reload, Return, Stay, Goto, EpochsTypeOK
<1> QED
  BY <1>3, <1>4 DEF StartImproves

\* A failed swap of w has an earlier time of an entry for its cause.
LEMMA FailuresArePaidKept ==
    ASSUME EpochsInv, NEW w \in Writers, StepOf(w)
    PROVE  FailuresArePaid'
<1> DEFINE Paid(v) ==
      /\ pc'[v] = "reload" => /\ epochStart' # 0
                              /\ Cardinality(From(epochsPut', epochStart')) > i'[v]
      /\ pc'[v] = "swapAgain" => /\ reg'[v] # 0
                                 /\ Cardinality(From(epochsPut', reg'[v])) > i'[v]
<1>1. EpochsTypeOK /\ StartIsPut /\ FailuresArePaid /\ StartImproves
  BY DEF EpochsInv
<1>2. EpochsTypeOK' /\ epochsPut \in SUBSET epochsPut' /\ OthersStay(w)
  BY <1>1, EpochsTypeKept, OthersStayStill DEF StepOf, Next
<1>3. /\ epochsPut \subseteq Nat /\ epochsPut' \subseteq Nat
      /\ IsFiniteSet(epochsPut) /\ IsFiniteSet(epochsPut')
  BY <1>1, <1>2, EpochsAssumption DEF EpochsTypeOK
<1>4. ASSUME NEW a \in Nat, NEW b \in Nat, a <= b
      PROVE  /\ Cardinality(From(epochsPut, b)) <= Cardinality(From(epochsPut', a))
             /\ Cardinality(From(epochsPut, b)) \in Nat
             /\ Cardinality(From(epochsPut', a)) \in Nat
  BY <1>2, <1>3, <1>4, FromGrows, FromIsFinite
<1>5. ASSUME NEW v \in Writers \ {w} PROVE Paid(v)
  <2>1. /\ pc'[v] = pc[v] /\ reg'[v] = reg[v] /\ i'[v] = i[v]
        /\ reg[v] \in Nat /\ i[v] \in Nat /\ i[v] <= 2
        /\ epochStart \in Nat /\ epochStart' \in Nat
    BY <1>1, <1>2 DEF OthersStay, EpochsTypeOK
  <2>2. CASE pc[v] = "reload"
    <3>1. epochStart # 0 /\ Cardinality(From(epochsPut, epochStart)) > i[v]
      BY <1>1, <2>2 DEF FailuresArePaid
    <3>2. epochStart' # 0 /\ epochStart' <= epochStart
      BY <2>1, <3>1, StartFalls
    <3>3. /\ Cardinality(From(epochsPut, epochStart))
                <= Cardinality(From(epochsPut', epochStart'))
          /\ Cardinality(From(epochsPut, epochStart)) \in Nat
          /\ Cardinality(From(epochsPut', epochStart')) \in Nat
      BY ONLY <1>4, <2>1, <3>2
    <3>4. Cardinality(From(epochsPut', epochStart')) > i[v]
      BY ONLY <2>1, <3>1, <3>3
    <3> QED
      BY <2>1, <2>2, <3>2, <3>4
  <2>3. CASE pc[v] = "swapAgain"
    <3>1. reg[v] # 0 /\ Cardinality(From(epochsPut, reg[v])) > i[v]
      BY <1>1, <2>3 DEF FailuresArePaid
    <3>2. /\ Cardinality(From(epochsPut, reg[v]))
                <= Cardinality(From(epochsPut', reg[v]))
          /\ Cardinality(From(epochsPut, reg[v])) \in Nat
          /\ Cardinality(From(epochsPut', reg[v])) \in Nat
      <4>1. reg[v] <= reg[v]
        BY ONLY <2>1
      <4> QED
        BY ONLY <1>4, <2>1, <4>1
    <3>3. Cardinality(From(epochsPut', reg[v])) > i[v]
      BY ONLY <2>1, <3>1, <3>2
    <3> QED
      BY <2>1, <2>3, <3>1, <3>3
  <2>4. CASE pc[v] \notin {"reload", "swapAgain"}
    BY <2>1, <2>4
  <2> QED
    BY <2>2, <2>3, <2>4
<1>6. Paid(w)
  <2>1. CASE SwapStartFails(w)
    <3>1. SUFFICES ASSUME AttemptsLeft(w) PROVE Paid(w)
      BY <1>1, <2>1 DEF SwapStartFails, Return, Goto, EpochsTypeOK
    <3>2. /\ pc'[w] = "reload" /\ epochsPut' = epochsPut
          /\ epochStart' = epochStart /\ epochStart # reg[w]
          /\ i'[w] = IF pc[w] = "swapStart" THEN 0 ELSE i[w] + 1
          /\ epochStart \in Nat /\ reg[w] \in Nat /\ i[w] \in Nat
      BY <1>1, <2>1, <3>1 DEF SwapStartFails, Stay, Goto, EpochsTypeOK
    <3>3. epochStart # 0 /\ (reg[w] # 0 => epochStart < reg[w])
      BY <1>1, <2>1, <3>2 DEF SwapStartFails, StartImproves
    <3>4. epochStart \in epochsPut
      BY <1>1, <3>3 DEF StartIsPut
    <3>5. CASE pc[w] = "swapStart"
      <4>1. epochStart \in From(epochsPut, epochStart)
        BY <3>2, <3>4 DEF From
      <4>2. Cardinality(From(epochsPut, epochStart)) # 0
        BY <1>3, <4>1, FromIsFinite, FS_EmptySet
      <4>3. Cardinality(From(epochsPut, epochStart)) > 0
        BY <1>3, <4>2, FromIsFinite
      <4> QED
        BY <3>2, <3>3, <3>5, <4>3
    <3>6. CASE pc[w] = "swapAgain"
      <4>1. reg[w] # 0 /\ Cardinality(From(epochsPut, reg[w])) > i[w]
        BY <1>1, <3>6 DEF FailuresArePaid
      <4>2. Cardinality(From(epochsPut, reg[w])) < Cardinality(From(epochsPut, epochStart))
        BY <1>3, <3>2, <3>3, <3>4, <4>1, FromEarlier
      <4>3. /\ Cardinality(From(epochsPut, reg[w])) \in Nat
            /\ Cardinality(From(epochsPut, epochStart)) \in Nat
        BY <1>3, FromIsFinite
      <4>4. Cardinality(From(epochsPut, epochStart)) > i[w] + 1
        BY <3>2, <4>1, <4>2, <4>3
      <4> QED
        BY <3>2, <3>3, <3>6, <4>4
    <3> QED
      BY <2>1, <3>5, <3>6 DEF SwapStartFails
  <2>2. CASE Reload(w)
    <3>1. CASE epoch[w] < epochStart
      <4>1. /\ pc'[w] = "swapAgain" /\ reg'[w] = epochStart /\ i'[w] = i[w]
            /\ epochsPut' = epochsPut
        BY <1>1, <2>2, <3>1 DEF Reload, Stay, Goto, EpochsTypeOK
      <4>2. epochStart # 0 /\ Cardinality(From(epochsPut, epochStart)) > i[w]
        BY <1>1, <2>2 DEF Reload, FailuresArePaid
      <4> QED
        BY <4>1, <4>2
    <3>2. CASE ~(epoch[w] < epochStart)
      BY <1>1, <2>2, <3>2 DEF Reload, Return, Goto, EpochsTypeOK
    <3> QED
      BY <3>1, <3>2
  <2>3. CASE ~SwapStartFails(w) /\ ~Reload(w)
    <3>1. pc'[w] \notin {"reload", "swapAgain"}
      BY <1>1, <2>3 DEF StepOf, Begin, LoadEnd, SwapEnd, LoadStart, SwapStart,
                        Return, Stay, Goto, EpochsTypeOK
    <3> QED
      BY <3>1
  <2> QED
    BY <2>1, <2>2, <2>3
<1> HIDE DEF Paid
<1>7. \A v \in Writers : Paid(v)
  BY <1>5, <1>6
<1> QED
  BY <1>7 DEF Paid, FailuresArePaid

\* Put returns when epochStart is early enough, or when there were four
\* failures and its own time is the fifth.
LEMMA StartFollowsKept ==
    ASSUME EpochsInv, NEW w \in Writers, StepOf(w)
    PROVE  StartFollows'
<1> DEFINE Taken(t) == epochStart' # 0 /\ epochStart' <= t
           WorkedFor(t) == \E v \in Writers : pc'[v] # "idle" /\ epoch'[v] = t
           TooMany == Cardinality(epochsPut') > 4
<1>1. /\ EpochsTypeOK /\ StartIsPut /\ FailuresArePaid /\ StartImproves
      /\ StartFollows /\ WorksForPut
  BY DEF EpochsInv
<1>2. EpochsTypeOK' /\ epochsPut \in SUBSET epochsPut' /\ OthersStay(w)
  BY <1>1, EpochsTypeKept, OthersStayStill DEF StepOf, Next
<1>3. /\ epochsPut \subseteq Nat /\ epochsPut' \subseteq Nat
      /\ IsFiniteSet(epochsPut) /\ IsFiniteSet(epochsPut')
  BY <1>1, <1>2, EpochsAssumption DEF EpochsTypeOK
<1>4. Cardinality(epochsPut) > 4 => TooMany
  <2>1. /\ Cardinality(epochsPut) <= Cardinality(epochsPut')
        /\ Cardinality(epochsPut) \in Nat /\ Cardinality(epochsPut') \in Nat
    BY <1>2, <1>3, FS_Subset, FS_CardinalityType
  <2> QED
    BY <2>1
<1>5. ASSUME NEW t \in Nat, epochStart # 0, epochStart <= t PROVE Taken(t)
  BY <1>1, <1>2, <1>5, StartFalls DEF EpochsTypeOK
<1>6. ASSUME pc[w] # "idle", pc'[w] = "idle"
      PROVE  Taken(epoch[w]) \/ TooMany
  <2>1. /\ epoch[w] \in epochsPut /\ epoch[w] \in Nat /\ epoch[w] # 0
        /\ epochStart \in Nat /\ epochStart' \in Nat
    BY <1>1, <1>2, <1>6, EpochsAssumption DEF WorksForPut, EpochsTypeOK
  <2>2. CASE SwapStart(w)
    BY <2>1, <2>2 DEF SwapStart
  <2>3. CASE LoadStart(w)
    BY <1>1, <1>6, <2>1, <2>3 DEF LoadStart, Stay, Goto, EpochsTypeOK
  <2>4. CASE Reload(w)
    <3>1. epochStart # 0
      BY <1>1, <2>4 DEF Reload, FailuresArePaid
    <3>2. epochStart <= epoch[w]
      BY <1>1, <1>6, <2>1, <2>4 DEF Reload, Stay, Goto, EpochsTypeOK
    <3> QED
      BY <2>1, <3>1, <3>2, <1>5
  <2>5. CASE SwapStartFails(w)
    <3>1. ~AttemptsLeft(w)
      BY <1>1, <1>6, <2>5 DEF SwapStartFails, Stay, Goto, EpochsTypeOK
    <3>2. /\ pc[w] = "swapAgain" /\ i[w] = 2 /\ epochStart # reg[w]
          /\ reg[w] \in Nat /\ epochsPut' = epochsPut
      BY <1>1, <2>5, <3>1 DEF SwapStartFails, AttemptsLeft, Return, EpochsTypeOK
    <3>3. reg[w] # 0 /\ Cardinality(From(epochsPut, reg[w])) > 2
      BY <1>1, <3>2 DEF FailuresArePaid
    <3>4. epochStart # 0 /\ epochStart < reg[w]
      BY <1>1, <2>1, <3>2, <3>3 DEF StartImproves
    <3>5. CASE epochStart <= epoch[w]
      BY <1>5, <2>1, <3>4, <3>5
    <3>6. CASE epoch[w] < epochStart
      <4>1. epochStart \in epochsPut
        BY <1>1, <3>4 DEF StartIsPut
      <4>2. Cardinality(From(epochsPut, reg[w])) < Cardinality(From(epochsPut, epochStart))
        BY <1>3, <3>2, <3>4, <4>1, FromEarlier
      <4>3. Cardinality(From(epochsPut, epochStart)) < Cardinality(From(epochsPut, epoch[w]))
        BY <1>3, <2>1, <3>6, FromEarlier
      <4>4. /\ Cardinality(From(epochsPut, reg[w])) \in Nat
            /\ Cardinality(From(epochsPut, epochStart)) \in Nat
            /\ Cardinality(From(epochsPut, epoch[w])) \in Nat
            /\ Cardinality(epochsPut) \in Nat
            /\ Cardinality(From(epochsPut, epoch[w])) <= Cardinality(epochsPut)
        BY <1>3, FromIsFinite
      <4>5. Cardinality(epochsPut) > 4
        BY <3>3, <4>2, <4>3, <4>4
      <4> QED
        BY <1>4, <4>5
    <3> QED
      BY <2>1, <3>5, <3>6
  <2> QED
    BY <1>1, <1>6, <2>2, <2>3, <2>4, <2>5
       DEF StepOf, Begin, LoadEnd, SwapEnd, Goto, EpochsTypeOK
<1>7. pc[w] # "idle" => epoch'[w] = epoch[w] \/ pc'[w] = "idle"
  BY <1>1 DEF StepOf, Begin, LoadEnd, SwapEnd, LoadStart, SwapStart,
              SwapStartFails, Reload, Return, Stay, Goto, EpochsTypeOK
<1>8. ASSUME NEW t \in epochsPut PROVE Taken(t) \/ WorkedFor(t) \/ TooMany
  <2>1. CASE epochStart # 0 /\ epochStart <= t
    BY <1>3, <1>5, <2>1
  <2>2. ASSUME NEW v \in Writers, pc[v] # "idle", epoch[v] = t
        PROVE  Taken(t) \/ WorkedFor(t) \/ TooMany
    <3>1. CASE v # w
      BY <1>2, <2>2, <3>1 DEF OthersStay
    <3>2. CASE v = w
      BY <1>6, <1>7, <2>2, <3>2
    <3> QED
      BY <3>1, <3>2
  <2> QED
    BY <1>1, <1>4, <2>1, <2>2 DEF StartFollows
<1>9. ASSUME NEW t \in epochsPut' \ epochsPut PROVE WorkedFor(t)
  BY <1>1, <1>9 DEF StepOf, Begin, LoadEnd, SwapEnd, LoadStart, SwapStart,
              SwapStartFails, Reload, Return, Stay, Goto, EpochsTypeOK
<1> QED
  BY <1>8, <1>9 DEF StartFollows

LEMMA StartIsSetKept ==
    ASSUME EpochsInv, NEW w \in Writers, StepOf(w)
    PROVE  StartIsSet'
<1>1. /\ EpochsTypeOK /\ StartImproves /\ FailuresArePaid /\ StartIsSet
      /\ WorksForPut
  BY DEF EpochsInv
<1>2. epochStart # 0 => epochStart' # 0
  BY StartFalls
<1>3. ASSUME pc[w] # "idle", pc'[w] = "idle" PROVE epochStart' # 0
  <2>1. epoch[w] # 0
    BY <1>1, <1>3, EpochsAssumption DEF WorksForPut, EpochsTypeOK
  <2> QED
    BY <1>1, <1>3, <2>1
       DEF StepOf, Begin, LoadEnd, SwapEnd, LoadStart, SwapStart,
           SwapStartFails, Reload, Return, Stay, Goto, EpochsTypeOK,
           StartImproves, FailuresArePaid
<1>4. epochsPut' # epochsPut => pc'[w] # "idle"
  BY <1>1 DEF StepOf, Begin, LoadEnd, SwapEnd, LoadStart, SwapStart,
              SwapStartFails, Reload, Return, Stay, Goto, EpochsTypeOK
<1>5. ASSUME NEW v \in Writers, pc[v] # "idle"
      PROVE  epochStart' # 0 \/ \E u \in Writers : pc'[u] # "idle"
  BY <1>3, <1>5, OthersStayStill, <1>1 DEF OthersStay
<1> QED
  BY <1>1, <1>2, <1>4, <1>5 DEF StartIsSet

LEMMA EndIsSetKept ==
    ASSUME EpochsInv, NEW w \in Writers, StepOf(w)
    PROVE  EndIsSet'
<1> DEFINE Early(v) == pc[v] \in {"loadEnd", "swapEnd"}
<1>1. EpochsTypeOK /\ EndImproves /\ EndIsSet /\ WorksForPut /\ EpochsTypeOK'
  BY EpochsTypeKept DEF EpochsInv, StepOf, Next
<1>2. epochEnd # 0 => epochEnd' # 0
  BY <1>1, EndRises DEF EpochsTypeOK
<1>3. ASSUME Early(w), ~Early(w)' PROVE epochEnd' # 0
  <2>1. epoch[w] \in Nat /\ epoch[w] # 0
    BY <1>1, <1>3, EpochsAssumption DEF WorksForPut, EpochsTypeOK
  <2> QED
    BY <1>1, <1>3, <2>1
       DEF StepOf, Begin, LoadEnd, SwapEnd, SwapsEnd, LoadStart, SwapStart,
           SwapStartFails, Reload, Return, Stay, Goto, EpochsTypeOK, EndImproves
<1>4. epochsPut' # epochsPut => Early(w)'
  BY <1>1 DEF StepOf, Begin, LoadEnd, SwapEnd, LoadStart, SwapStart,
              SwapStartFails, Reload, Return, Stay, Goto, EpochsTypeOK
<1>5. ASSUME NEW v \in Writers, Early(v)
      PROVE  epochEnd' # 0 \/ \E u \in Writers : Early(u)'
  BY <1>1, <1>3, <1>5, OthersStayStill DEF OthersStay
<1> QED
  BY <1>1, <1>2, <1>4, <1>5 DEF EndIsSet

----------------------------------------------------------------------------
(* The theorems.                                                           *)

\* However many goroutines put entries of whatever times, with their loads and
\* swaps in any order (chunk.go:167-184), the invariant holds.
THEOREM EpochsInvariant == Spec => []EpochsInv
<1>1. Init => EpochsInv
  BY FS_EmptySet DEF Init, EpochsInv, EpochsTypeOK, Steps, StartIsPut, EndIsPut,
     WorksForPut, EndImproves, StartImproves, FailuresArePaid, StartFollows,
     StartIsSet, EndIsSet
<1>2. EpochsInv /\ [Next]_vars => EpochsInv'
  <2> SUFFICES ASSUME EpochsInv, [Next]_vars PROVE EpochsInv'
    OBVIOUS
  <2>1. ASSUME NEW w \in Writers, StepOf(w) PROVE EpochsInv'
    BY <2>1, EpochsTypeKept, StartIsPutKept, EndIsPutKept, WorksForPutKept,
       EndImprovesKept, StartImprovesKept, FailuresArePaidKept,
       StartFollowsKept, StartIsSetKept, EndIsSetKept DEF EpochsInv
  <2>2. CASE UNCHANGED vars
    BY <2>2 DEF vars, EpochsInv, EpochsTypeOK, StartIsPut, EndIsPut, WorksForPut,
       EndImproves, StartImproves, FailuresArePaid, StartFollows, StartIsSet,
       EndIsSet
  <2> QED
    BY <2>1, <2>2 DEF Next, StepOf
<1> QED
  BY <1>1, <1>2, PTL DEF Spec

\* epochEnd is swapped for a later time only: Last never goes back, though two
\* Puts may have loaded the same epochEnd (chunk.go:168-170).
THEOREM LastNeverFalls == Spec => EndNeverFalls
<1>1. EpochsInv /\ [Next]_vars => [epochEnd' >= epochEnd]_vars
  BY EndRises DEF Next, StepOf
<1> QED
  BY <1>1, EpochsInvariant, PTL DEF Spec, EndNeverFalls

\* With no Put under way First is the earliest time, whatever the writers do, as
\* long as there are four different times at most (chunk.go:172-184).
THEOREM FirstIsTheEarliest == Spec => []FirstIsEarliest
<1>1. EpochsInv => FirstIsEarliest
  <2> SUFFICES ASSUME EpochsInv, Quiescent
      PROVE  /\ First \in epochsPut
             /\ Last \in epochsPut
             /\ Cardinality(epochsPut) <= 4 => \A t \in epochsPut : First <= t
    BY DEF FirstIsEarliest
  <2>1. First \in epochsPut /\ Last \in epochsPut
    BY DEF EpochsInv, Quiescent, StartIsSet, EndIsSet, StartIsPut, EndIsPut,
           First, Last
  <2>2. Cardinality(epochsPut) \in Nat
    BY FS_CardinalityType DEF EpochsInv, EpochsTypeOK
  <2>3. ASSUME Cardinality(epochsPut) <= 4, NEW t \in epochsPut PROVE First <= t
    BY <2>2, <2>3 DEF EpochsInv, Quiescent, StartFollows, First
  <2> QED
    BY <2>1, <2>3
<1> QED
  BY <1>1, EpochsInvariant, PTL
=============================================================================
