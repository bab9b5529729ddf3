----------------------------- MODULE SearchProofs -----------------------------
(***************************************************************************)
(* Theorems about the search: wildcardMatch, for every pattern and every   *)
(* text; and the SQL that the parser of expressions makes, for every       *)
(* expression.                                                             *)
(***************************************************************************)
EXTENDS Expr, Wildcard, FiniteSetTheorems, SequenceTheorems,
        WellFoundedInduction, TLAPS

----------------------------------------------------------------------------
(* Wildcard.                                                               *)

Place == [p : -1..(Len(pattern) - 1), s : 0..Len(text)]

WildcardTypes ==
    /\ pattern \in Seq(Bytes) /\ text \in Seq(Bytes)
    /\ at \in [p : 0..Len(pattern), s : -1..Len(text)]
    /\ star \in Place /\ eroteme \in Place
    /\ label \in {"begin", "Loop", "checkPattern", "true", "false"}

\* The first i bytes of the pattern match the first j of the text, with some
\* "?" left out.
Done(i, j) == Matched(0, 0, i, j, 0)

\* What is left of the pattern matches what is left of the text, as GLOB has it;
\* or what is left when some more of the text is passed over.
Rest(i, j)   == Matched(i, j, Len(pattern), Len(text), 1)
Beyond(i, j) == \E k \in j..Len(text) : Rest(i, k)

\* Where the loop began after the last "*".
Base == IF star.p = -1 THEN [p |-> 0, s |-> 0] ELSE [p |-> star.p + 1, s |-> star.s]

StarFits ==
    star.p # -1 =>
        /\ pattern[star.p + 1] = "*"
        /\ \E j \in 0..star.s : Done(star.p, j)
        /\ IsMatch(1) => Beyond(star.p, star.s)
        /\ star.s < Len(text) \/ at.s = Len(text) \/ label # "Loop"

ErotemeFits ==
    eroteme.p # -1 =>
        /\ pattern[eroteme.p + 1] = "?"
        /\ Done(eroteme.p, eroteme.s)
        /\ IsMatch(1) => Beyond(eroteme.p, eroteme.s)

\* A match from where the loop began is a match from here on; and every match
\* goes on from here or from somewhere behind.
LoopFits ==
    label = "Loop" =>
        /\ Done(at.p, at.s)
        /\ Rest(Base.p, Base.s) => Rest(at.p, at.s)
        /\ IsMatch(1) => Beyond(at.p, at.s)

CheckFits ==
    label = "checkPattern" =>
        /\ Done(at.p, Len(text))
        /\ IsMatch(1) => Rest(at.p, Len(text))

WildcardInv ==
    /\ WildcardTypes
    /\ label = "begin" => star = None /\ eroteme = None
    /\ StarFits /\ ErotemeFits /\ LoopFits /\ CheckFits
    /\ GlobIsFound /\ FoundMatches

----------------------------------------------------------------------------
(* Matches of a part of the pattern.                                       *)

LEMMA Lengths ==
    ASSUME WildcardTypes
    PROVE  /\ Len(pattern) \in Nat /\ Len(text) \in Nat
           /\ DOMAIN pattern = 1..Len(pattern) /\ DOMAIN text = 1..Len(text)
  BY LenProperties DEF WildcardTypes

LEMMA DoneNone ==
    ASSUME Len(pattern) \in Nat, Len(text) \in Nat
    PROVE  Done(0, 0)
<1> DEFINE cut == [k \in 0..0 |-> 0]
<1>1. cut \in [0..0 -> 0..Len(text)] /\ cut[0] = 0
  OBVIOUS
<1>2. (0 + 1)..0 = {}
  OBVIOUS
<1> HIDE DEF cut
<1> QED
  BY <1>1, <1>2 DEF Done, Matched

LEMMA DoneInText ==
    ASSUME NEW i \in Nat, NEW j, Done(i, j)
    PROVE  j \in 0..Len(text)
  BY DEF Done, Matched

\* A byte more of the pattern takes some of the text.
LEMMA DoneGrows ==
    ASSUME Len(text) \in Nat, NEW i \in Nat, NEW j, NEW k \in 0..Len(text),
           Done(i, j), Takes(pattern[i + 1], j, k, 0)
    PROVE  Done(i + 1, k)
<1>0. (0 + 1)..i = 1..i
  OBVIOUS
<1>1. PICK cut \in [0..i -> 0..Len(text)] :
         /\ cut[0] = 0 /\ cut[i] = j
         /\ \A n \in 1..i : Takes(pattern[n], cut[n - 1], cut[n], 0)
  BY ONLY <1>0, Done(i, j), Zenon DEF Done, Matched
<1> DEFINE new == [n \in 0..(i + 1) |-> IF n = i + 1 THEN k ELSE cut[n]]
<1>2. new \in [0..(i + 1) -> 0..Len(text)]
  <2>1. \A n \in 0..(i + 1) : n = i + 1 \/ n \in 0..i
    OBVIOUS
  <2> QED
    BY <1>1, <2>1
<1>3. new[0] = 0 /\ new[i + 1] = k
  BY <1>1
<1>4. ASSUME NEW n \in 1..(i + 1)
      PROVE  Takes(pattern[n], new[n - 1], new[n], 0)
  <2>1. CASE n = i + 1
    <3>1. new[n - 1] = j /\ new[n] = k
      BY <1>1, <2>1
    <3> HIDE DEF new
    <3> QED
      BY <2>1, <3>1
  <2>2. CASE n # i + 1
    <3>1. n \in 1..i
      BY <2>2
    <3>2. new[n - 1] = cut[n - 1] /\ new[n] = cut[n]
      BY <3>1
    <3> HIDE DEF new
    <3> QED
      BY <1>1, <3>1, <3>2
  <2> QED
    BY <2>1, <2>2
<1> HIDE DEF new
<1>5. (0 + 1)..(i + 1) = 1..(i + 1)
  OBVIOUS
<1> QED
  BY <1>2, <1>3, <1>4, <1>5 DEF Done, Matched

LEMMA RestInText ==
    ASSUME Len(pattern) \in Nat, NEW i \in 0..Len(pattern), NEW j, Rest(i, j)
    PROVE  j \in 0..Len(text)
  BY DEF Rest, Matched

\* The first byte of the rest takes some of the text.
LEMMA RestTakes ==
    ASSUME Len(pattern) \in Nat, Len(text) \in Nat,
           NEW i \in 0..(Len(pattern) - 1), NEW j, Rest(i, j)
    PROVE  \E k \in 0..Len(text) : Takes(pattern[i + 1], j, k, 1) /\ Rest(i + 1, k)
<1>1. PICK m \in Nat : m = Len(pattern)
  OBVIOUS
<1>2. PICK cut \in [i..m -> 0..Len(text)] :
         /\ cut[i] = j /\ cut[m] = Len(text)
         /\ \A n \in (i + 1)..m : Takes(pattern[n], cut[n - 1], cut[n], 1)
  BY <1>1 DEF Rest, Matched
<1>3. i + 1 \in (i + 1)..m /\ i + 1 \in i..m /\ m \in (i + 1)..m
  BY <1>1
<1> DEFINE new == [n \in (i + 1)..m |-> cut[n]]
<1>4. \A n \in (i + 1)..m : n \in i..m
  OBVIOUS
<1>5. new \in [(i + 1)..m -> 0..Len(text)]
  BY <1>2, <1>4
<1>6. new[i + 1] = cut[i + 1] /\ new[m] = Len(text)
  BY <1>2, <1>3
<1>7. ASSUME NEW n \in (i + 1 + 1)..m
      PROVE  Takes(pattern[n], new[n - 1], new[n], 1)
  <2>1. n \in (i + 1)..m /\ n - 1 \in (i + 1)..m
    OBVIOUS
  <2>2. new[n - 1] = cut[n - 1] /\ new[n] = cut[n]
    BY <2>1
  <2> HIDE DEF new
  <2> QED
    BY <1>2, <2>1, <2>2
<1> HIDE DEF new
<1>8. Rest(i + 1, cut[i + 1])
  BY <1>1, <1>5, <1>6, <1>7 DEF Rest, Matched
<1>9. Takes(pattern[i + 1], j, cut[i + 1], 1)
  <2>1. Takes(pattern[i + 1], cut[i + 1 - 1], cut[i + 1], 1)
    BY <1>2, <1>3
  <2>2. i + 1 - 1 = i
    OBVIOUS
  <2> QED
    BY <1>2, <2>1, <2>2
<1> QED
  BY <1>2, <1>3, <1>8, <1>9

\* A "*" takes what there is before the rest.
LEMMA RestStar ==
    ASSUME Len(pattern) \in Nat, Len(text) \in Nat,
           NEW i \in 0..(Len(pattern) - 1), pattern[i + 1] = "*",
           NEW k \in 0..Len(text), NEW j \in 0..k, Rest(i + 1, k)
    PROVE  Rest(i, j)
<1>1. PICK m \in Nat : m = Len(pattern)
  OBVIOUS
<1>2. PICK cut \in [(i + 1)..m -> 0..Len(text)] :
         /\ cut[i + 1] = k /\ cut[m] = Len(text)
         /\ \A n \in (i + 1 + 1)..m : Takes(pattern[n], cut[n - 1], cut[n], 1)
  BY <1>1 DEF Rest, Matched
<1> DEFINE new == [n \in i..m |-> IF n = i THEN j ELSE cut[n]]
<1>3. j \in 0..Len(text) /\ i < m
  BY <1>1
<1>4. new \in [i..m -> 0..Len(text)]
  <2>1. \A n \in i..m : n = i \/ n \in (i + 1)..m
    OBVIOUS
  <2> QED
    BY <1>2, <1>3, <2>1
<1>5. new[i] = j /\ new[m] = Len(text)
  BY <1>2, <1>3
<1>6. ASSUME NEW n \in (i + 1)..m
      PROVE  Takes(pattern[n], new[n - 1], new[n], 1)
  <2>1. n \in i..m /\ n - 1 \in i..m /\ n # i
    OBVIOUS
  <2>2. new[n] = cut[n]
    BY <2>1
  <2>3. CASE n = i + 1
    <3>1. new[n - 1] = j /\ cut[n] = k
      BY <1>2, <2>1, <2>3
    <3> HIDE DEF new
    <3> QED
      BY <2>2, <2>3, <3>1 DEF Takes
  <2>4. CASE n # i + 1
    <3>1. new[n - 1] = cut[n - 1] /\ n \in (i + 1 + 1)..m
      BY <2>1, <2>4
    <3> HIDE DEF new
    <3> QED
      BY <1>2, <2>2, <3>1
  <2> QED
    BY <2>3, <2>4
<1> HIDE DEF new
<1> QED
  BY <1>1, <1>4, <1>5, <1>6 DEF Rest, Matched

LEMMA RestEnds ==
    ASSUME Len(pattern) \in Nat, NEW j, Rest(Len(pattern), j)
    PROVE  j = Len(text)
  BY DEF Rest, Matched

\* What GLOB matches goes on behind a byte of the pattern that takes one of the
\* text, ...
LEMMA BeyondOne ==
    ASSUME Len(pattern) \in Nat, Len(text) \in Nat,
           NEW i \in 0..(Len(pattern) - 1), pattern[i + 1] # "*",
           NEW j \in 0..Len(text), Beyond(i, j)
    PROVE  j < Len(text) /\ Beyond(i + 1, j + 1)
<1>1. PICK k \in j..Len(text) : Rest(i, k)
  BY DEF Beyond
<1>2. PICK l \in 0..Len(text) : Takes(pattern[i + 1], k, l, 1) /\ Rest(i + 1, l)
  BY <1>1, RestTakes
<1>3. l = k + 1
  BY <1>2 DEF Takes
<1> QED
  BY <1>1, <1>2, <1>3 DEF Beyond

\* ... from there if it is there, ...
LEMMA RestOne ==
    ASSUME Len(pattern) \in Nat, Len(text) \in Nat,
           NEW i \in 0..(Len(pattern) - 1), pattern[i + 1] # "*",
           NEW j \in 0..Len(text), Rest(i, j)
    PROVE  /\ j < Len(text) /\ Rest(i + 1, j + 1)
           /\ pattern[i + 1] # "?" => pattern[i + 1] = text[j + 1]
<1>1. PICK l \in 0..Len(text) : Takes(pattern[i + 1], j, l, 1) /\ Rest(i + 1, l)
  BY RestTakes
<1>2. l = j + 1
  BY <1>1 DEF Takes
<1> QED
  BY <1>1, <1>2 DEF Takes

\* ... and from the start of a "*", whatever it takes.
LEMMA BeyondStar ==
    ASSUME Len(pattern) \in Nat, Len(text) \in Nat,
           NEW i \in 0..(Len(pattern) - 1), pattern[i + 1] = "*",
           NEW j \in 0..Len(text), Beyond(i, j)
    PROVE  Rest(i, j) /\ Beyond(i + 1, j)
<1>1. PICK k \in j..Len(text) : Rest(i, k)
  BY DEF Beyond
<1>2. PICK l \in 0..Len(text) : Takes(pattern[i + 1], k, l, 1) /\ Rest(i + 1, l)
  BY <1>1, RestTakes
<1>3. k <= l
  BY <1>2 DEF Takes
<1>4. Rest(i, j)
  BY <1>2, <1>3, RestStar
<1> QED
  BY <1>1, <1>2, <1>3, <1>4 DEF Beyond

----------------------------------------------------------------------------
(* The steps.                                                              *)

LEMMA WildcardStart == WildcardInit => WildcardInv
<1> SUFFICES ASSUME WildcardInit PROVE WildcardInv
  OBVIOUS
<1>1. pattern \in Seq(Bytes) /\ text \in Seq(Bytes)
  BY DEF WildcardInit, BoundedSeq, SeqOf
<1>2. Len(pattern) \in Nat /\ Len(text) \in Nat
  BY <1>1, LenProperties
<1>3. WildcardTypes
  BY <1>1, <1>2 DEF WildcardInit, WildcardTypes, None, Place
<1> QED
  BY <1>3 DEF WildcardInit, WildcardInv, None, StarFits, ErotemeFits, LoopFits, CheckFits,
              GlobIsFound, FoundMatches

Unchanged == pattern' = pattern /\ text' = text

\* The pattern and the text stay, and what matches what with them.
LEMMA TextStays ==
    ASSUME WildcardNext
    PROVE  Unchanged
  BY DEF Unchanged, WildcardNext, Begin, TextEnd, PatternEnd, Eroteme, Star, Match, Mismatch,
         CheckSkip, CheckEnd, BackToStar, BackToEroteme, Answer, Goto

LEMMA MatchesStay ==
    ASSUME Unchanged
    PROVE  /\ \A i, j : Done(i, j)' <=> Done(i, j)
           /\ \A i, j : Rest(i, j)' <=> Rest(i, j)
           /\ \A i, j : Beyond(i, j)' <=> Beyond(i, j)
           /\ IsMatch(0)' <=> IsMatch(0)
           /\ IsMatch(1)' <=> IsMatch(1)
<1>1. \A i, j, m, n, few : Matched(i, j, m, n, few)' <=> Matched(i, j, m, n, few)
  BY DEF Unchanged, Matched, Takes
<1> QED
  BY <1>1 DEF Unchanged, Done, Rest, Beyond, IsMatch

\* An answer that is right.
LEMMA AnswerStep ==
    ASSUME WildcardInv, NEW b \in BOOLEAN, Answer(b),
           b => IsMatch(0), ~b => ~IsMatch(1)
    PROVE  WildcardInv'
<1>1. Unchanged /\ UNCHANGED <<at, star, eroteme>>
      /\ label' = IF b THEN "true" ELSE "false"
  BY DEF Answer, Unchanged
<1>2. WildcardTypes'
  BY <1>1 DEF WildcardInv, WildcardTypes, Unchanged, Place
<1>3. StarFits' /\ ErotemeFits' /\ LoopFits' /\ CheckFits'
  BY <1>1, MatchesStay DEF WildcardInv, StarFits, ErotemeFits, LoopFits, CheckFits, Unchanged
<1>4. GlobIsFound' /\ FoundMatches'
  BY <1>1, MatchesStay DEF GlobIsFound, FoundMatches
<1> QED
  BY <1>1, <1>2, <1>3, <1>4 DEF WildcardInv

\* The next turn of the loop begins at p and s, with places to come back to
\* that fit.
LEMMA LoopStep ==
    ASSUME WildcardInv, Unchanged, NEW p \in 0..Len(pattern), NEW t \in 0..Len(text),
           Goto("Loop", p, t),
           star' \in Place, eroteme' \in Place, StarFits', ErotemeFits',
           Done(p, t), Rest(Base'.p, Base'.s) => Rest(p, t), IsMatch(1) => Beyond(p, t)
    PROVE  WildcardInv'
<1>1. at' = [p |-> p, s |-> t] /\ label' = "Loop"
  BY DEF Goto
<1>2. WildcardTypes'
  BY <1>1 DEF WildcardInv, WildcardTypes, Unchanged, Place
<1>3. LoopFits'
  BY <1>1, MatchesStay DEF LoopFits
<1> QED
  BY <1>1, <1>2, <1>3 DEF WildcardInv, CheckFits, GlobIsFound, FoundMatches

LEMMA BeginStep == WildcardInv /\ Begin => WildcardInv'
<1> SUFFICES ASSUME WildcardInv, Begin PROVE WildcardInv'
  OBVIOUS
<1> USE Lengths DEF WildcardInv
<1>1. CASE pattern = <<>> \/ pattern = <<"*">> \/ text = pattern
  <2>1. (pattern = <<"*">> \/ text = pattern) => IsMatch(0)
    <3>1. CASE pattern = <<"*">>
      <4> DEFINE cut == [n \in 0..1 |-> IF n = 0 THEN 0 ELSE Len(text)]
      <4>1. cut \in [0..1 -> 0..Len(text)] /\ cut[0] = 0 /\ cut[1] = Len(text)
        OBVIOUS
      <4>2. (0 + 1)..1 = {1} /\ Len(pattern) = 1 /\ pattern[1] = "*" /\ 1 - 1 = 0
        BY <3>1
      <4> HIDE DEF cut
      <4>3. Takes("*", cut[0], cut[1], 0)
        BY <4>1 DEF Takes
      <4> QED
        BY <4>1, <4>2, <4>3 DEF IsMatch, Matched
    <3>2. CASE text = pattern
      <4>1. PICK m \in Nat : m = Len(pattern) /\ Len(text) = m
        BY <3>2
      <4> DEFINE cut == [n \in 0..m |-> n]
      <4>2. cut \in [0..m -> 0..m] /\ cut[0] = 0 /\ cut[m] = m
        OBVIOUS
      <4>3. ASSUME NEW n \in (0 + 1)..m PROVE Takes(pattern[n], cut[n - 1], cut[n], 0)
        <5>1. cut[n - 1] = n - 1 /\ cut[n] = n
          OBVIOUS
        <5> HIDE DEF cut
        <5> QED
          BY <3>2, <5>1 DEF Takes
      <4> HIDE DEF cut
      <4> QED
        BY <4>1, <4>2, <4>3 DEF IsMatch, Matched
    <3> QED
      BY <3>1, <3>2
  <2>2. ~(pattern = <<"*">> \/ text = pattern) => ~IsMatch(1)
    <3> SUFFICES ASSUME pattern = <<>>, text # pattern, IsMatch(1) PROVE FALSE
      BY <1>1
    <3>1. Len(pattern) = 0
      OBVIOUS
    <3>2. Len(text) = 0
      BY <3>1 DEF IsMatch, Matched
    <3> QED
      BY <3>2, EmptySeq DEF WildcardTypes
  <2>3. (pattern = <<"*">> \/ text = pattern) \in BOOLEAN
    OBVIOUS
  <2> QED
    BY <1>1, <2>1, <2>2, <2>3, AnswerStep DEF Begin
<1>2. CASE ~(pattern = <<>> \/ pattern = <<"*">> \/ text = pattern)
  <2>1. Goto("Loop", 0, 0) /\ UNCHANGED <<star, eroteme>> /\ label = "begin"
    BY <1>2 DEF Begin
  <2>2. star' = None /\ eroteme' = None /\ Unchanged
    BY <2>1 DEF Goto, Unchanged
  <2>3. StarFits' /\ ErotemeFits' /\ None \in Place /\ Base' = [p |-> 0, s |-> 0]
    BY <2>2 DEF StarFits, ErotemeFits, None, Place, Base
  <2>4. Done(0, 0)
    BY DoneNone
  <2>5. IsMatch(1) => Beyond(0, 0)
    BY DEF IsMatch, Beyond, Rest
  <2> QED
    BY <2>1, <2>2, <2>3, <2>4, <2>5, LoopStep
<1> QED
  BY <1>1, <1>2

\* A place to come back to stays as good as it was.
LEMMA PlacesStay ==
    ASSUME WildcardInv, Unchanged
    PROVE  /\ star' = star /\ (star.p # -1 => star.s < Len(text)) => StarFits'
           /\ eroteme' = eroteme => ErotemeFits'
           /\ eroteme'.p = -1 => ErotemeFits'
  BY MatchesStay DEF WildcardInv, StarFits, ErotemeFits, Unchanged

\* What is known inside the loop.
LEMMA InLoop ==
    ASSUME WildcardInv, InText
    PROVE  /\ at.p \in 0..Len(pattern) /\ at.s \in 0..(Len(text) - 1)
           /\ at = [p |-> at.p, s |-> at.s]
           /\ Done(at.p, at.s) /\ (IsMatch(1) => Beyond(at.p, at.s))
           /\ Rest(Base.p, Base.s) => Rest(at.p, at.s)
           /\ star.p # -1 => star.s < Len(text)
<1>1. Done(at.p, at.s)
  BY DEF WildcardInv, InText, LoopFits
<1>2. at.p \in 0..Len(pattern) /\ at.s \in 0..Len(text) /\ Len(text) \in Nat
      /\ at = [p |-> at.p, s |-> at.s]
  BY <1>1, DoneInText, Lengths DEF WildcardInv, WildcardTypes
<1> QED
  BY <1>1, <1>2 DEF WildcardInv, InText, LoopFits, StarFits

LEMMA TextEndStep == WildcardInv /\ TextEnd => WildcardInv'
<1> SUFFICES ASSUME WildcardInv, TextEnd PROVE WildcardInv'
  OBVIOUS
<1> USE Lengths DEF WildcardInv
<1>1. Unchanged /\ UNCHANGED <<star, eroteme>> /\ at' = [p |-> at.p, s |-> at.s]
      /\ label = "Loop" /\ label' = "checkPattern" /\ at.s >= Len(text)
  BY DEF TextEnd, Goto, Unchanged
<1>2. Done(at.p, at.s) /\ at.p \in Nat /\ (IsMatch(1) => Beyond(at.p, at.s))
  BY <1>1 DEF LoopFits, WildcardTypes
<1>3. at.s = Len(text)
  BY <1>1, <1>2, DoneInText
<1>4. IsMatch(1) => Rest(at.p, Len(text))
  BY <1>2, <1>3 DEF Beyond
<1>5. WildcardTypes'
  BY <1>1 DEF WildcardTypes, Place, Unchanged
<1>6. CheckFits'
  BY <1>1, <1>2, <1>3, <1>4, MatchesStay DEF CheckFits, Unchanged
<1>7. StarFits' /\ ErotemeFits'
  BY <1>1, MatchesStay DEF StarFits, ErotemeFits, Unchanged
<1> QED
  BY <1>1, <1>5, <1>6, <1>7 DEF LoopFits, GlobIsFound, FoundMatches

\* To try the last "*" again is right when what it took so far fails.
LEMMA BackToStarStep ==
    ASSUME WildcardInv, InText, star.p # -1, ~Rest(at.p, at.s), BackToStar
    PROVE  WildcardInv'
<1> DEFINE p == star.p
           t == star.s + 1
<1>1. Unchanged /\ star' = [star EXCEPT !.s = t] /\ UNCHANGED eroteme
      /\ Goto("Loop", p + 1, t)
  BY DEF BackToStar, Goto, Unchanged
<1>2. Len(pattern) \in Nat /\ Len(text) \in Nat
  BY Lengths DEF WildcardInv
<1>3. star \in Place /\ p \in 0..(Len(pattern) - 1) /\ t \in 1..Len(text)
      /\ star.s \in 0..Len(text)
  BY <1>2, InLoop DEF WildcardInv, WildcardTypes, Place
<1>4. pattern[p + 1] = "*" /\ (IsMatch(1) => Beyond(p, star.s))
  BY DEF WildcardInv, StarFits
<1>5. PICK j \in 0..star.s : Done(p, j)
  BY DEF WildcardInv, StarFits
<1>6. star'.p = p /\ star'.s = t /\ star' \in Place
  BY <1>1, <1>3 DEF Place
<1>7. Done(p + 1, t)
  <2>1. Takes("*", j, t, 0) /\ p \in Nat /\ t \in 0..Len(text)
    BY <1>3, <1>5 DEF Takes
  <2> QED
    BY <1>2, <1>4, <1>5, <2>1, DoneGrows
<1>8. ~Rest(p + 1, star.s)
  BY InLoop DEF Base
<1>9. IsMatch(1) => Rest(p, t) /\ Beyond(p + 1, t)
  <2> SUFFICES ASSUME IsMatch(1) PROVE Rest(p, t) /\ Beyond(p + 1, t)
    OBVIOUS
  <2>1. Beyond(p + 1, star.s)
    BY <1>2, <1>3, <1>4, BeyondStar
  <2>2. PICK k \in star.s..Len(text) : Rest(p + 1, k)
    BY <2>1 DEF Beyond
  <2>3. k # star.s
    BY <1>8, <2>2
  <2>4. k \in t..Len(text) /\ k \in 0..Len(text) /\ t \in 0..k
    BY <1>2, <1>3, <2>3
  <2>5. Rest(p, t)
    BY <1>2, <1>3, <1>4, <2>2, <2>4, RestStar
  <2> QED
    BY <2>2, <2>4, <2>5 DEF Beyond
<1> HIDE DEF p, t
<1>10. Base'.p = p + 1 /\ Base'.s = t
  BY <1>3, <1>6 DEF Base
<1>11. StarFits'
  <2>1. IsMatch(1) => Beyond(p, t)
    BY <1>2, <1>3, <1>9 DEF Beyond
  <2>2. t < Len(text) \/ at'.s = Len(text)
    BY <1>1, <1>2, <1>3 DEF Goto
  <2>3. \E k \in 0..t : Done(p, k)
    BY <1>3, <1>5 DEF t
  <2> QED
    BY <1>1, <1>4, <1>6, <2>1, <2>2, <2>3, MatchesStay DEF StarFits, Unchanged
<1>12. p + 1 \in 0..Len(pattern) /\ t \in 0..Len(text)
  BY <1>2, <1>3
<1>13. ErotemeFits' /\ eroteme' \in Place
  BY <1>1, PlacesStay DEF WildcardInv, WildcardTypes
<1>14. IsMatch(1) => Beyond(p + 1, t)
  BY <1>9
<1> QED
  BY <1>1, <1>6, <1>7, <1>10, <1>11, <1>12, <1>13, <1>14, LoopStep

LEMMA PatternEndStep == WildcardInv /\ PatternEnd => WildcardInv'
<1> SUFFICES ASSUME WildcardInv, PatternEnd PROVE WildcardInv'
  OBVIOUS
<1>1. InText /\ at.p >= Len(pattern) /\ Len(pattern) \in Nat /\ Len(text) \in Nat
  BY Lengths DEF PatternEnd, WildcardInv
<1>2. at.p = Len(pattern) /\ at.s # Len(text)
  BY <1>1, InLoop
<1>3. ~Rest(at.p, at.s)
  BY <1>1, <1>2, RestEnds
<1>4. CASE star.p # -1
  BY <1>1, <1>3, <1>4, BackToStarStep DEF PatternEnd
<1>5. CASE star.p = -1
  <2>1. ~IsMatch(1)
    BY <1>1, <1>3, <1>5, InLoop DEF Base, IsMatch, Rest
  <2> QED
    BY <1>5, <2>1, AnswerStep DEF PatternEnd
<1> QED
  BY <1>4, <1>5

\* A byte of the pattern that is no "*" and takes one of the text.
LEMMA OneByte ==
    ASSUME WildcardInv, InPattern, P # "*", P = "?" \/ P = S
    PROVE  /\ at.p + 1 \in 0..Len(pattern) /\ at.s + 1 \in 0..Len(text)
           /\ Done(at.p + 1, at.s + 1)
           /\ Rest(at.p, at.s) => Rest(at.p + 1, at.s + 1)
           /\ IsMatch(1) => Beyond(at.p + 1, at.s + 1)
<1>1. Len(pattern) \in Nat /\ Len(text) \in Nat
  BY Lengths DEF WildcardInv
<1>2. InText /\ at.p \in 0..(Len(pattern) - 1) /\ at.s \in 0..(Len(text) - 1)
  BY <1>1, InLoop DEF InPattern
<1>3. pattern[at.p + 1] = P /\ text[at.s + 1] = S
  BY DEF P, S
<1>4. at.p \in Nat /\ at.s \in 0..Len(text) /\ at.s + 1 \in 0..Len(text)
      /\ at.p + 1 \in 0..Len(pattern)
  BY <1>1, <1>2
<1>5. Takes(P, at.s, at.s + 1, 0)
  BY <1>3, <1>4 DEF Takes
<1>6. Done(at.p + 1, at.s + 1)
  BY <1>1, <1>2, <1>3, <1>4, <1>5, InLoop, DoneGrows
<1>7. Rest(at.p, at.s) => Rest(at.p + 1, at.s + 1)
  BY <1>1, <1>2, <1>3, <1>4, RestOne
<1>8. IsMatch(1) => Beyond(at.p + 1, at.s + 1)
  BY <1>1, <1>2, <1>3, <1>4, InLoop, BeyondOne
<1> QED
  BY <1>4, <1>6, <1>7, <1>8

LEMMA ErotemeStep == WildcardInv /\ Eroteme => WildcardInv'
<1> SUFFICES ASSUME WildcardInv, Eroteme PROVE WildcardInv'
  OBVIOUS
<1>1. InText /\ InPattern /\ P = "?" /\ eroteme' = at /\ star' = star /\ Unchanged
      /\ Goto("Loop", at.p + 1, at.s + 1)
  BY DEF Eroteme, InPattern, Goto, Unchanged
<1>2. at.p \in 0..(Len(pattern) - 1) /\ at.s \in 0..(Len(text) - 1)
      /\ Len(pattern) \in Nat /\ Len(text) \in Nat
  BY <1>1, InLoop, Lengths DEF WildcardInv, InPattern
<1>3. eroteme' \in Place /\ star' \in Place
  BY <1>1, <1>2, InLoop DEF WildcardInv, WildcardTypes, Place
<1>4. ErotemeFits'
  BY <1>1, <1>2, InLoop, MatchesStay DEF ErotemeFits, P, Unchanged
<1>5. StarFits'
  BY <1>1, InLoop, PlacesStay
<1>6. Base' = Base
  BY <1>1 DEF Base
<1> QED
  BY <1>1, <1>3, <1>4, <1>5, <1>6, OneByte, InLoop, LoopStep

LEMMA StarStep == WildcardInv /\ Star => WildcardInv'
<1> SUFFICES ASSUME WildcardInv, Star PROVE WildcardInv'
  OBVIOUS
<1>1. InText /\ InPattern /\ P = "*" /\ star' = at /\ eroteme' = eroteme /\ Unchanged
      /\ Goto("Loop", at.p + 1, at.s)
  BY DEF Star, InPattern, Goto, Unchanged
<1>2. at.p \in 0..(Len(pattern) - 1) /\ at.s \in 0..(Len(text) - 1)
      /\ Len(pattern) \in Nat /\ Len(text) \in Nat /\ pattern[at.p + 1] = "*"
  BY <1>1, InLoop, Lengths DEF WildcardInv, InPattern, P
<1>3. star' \in Place /\ eroteme' \in Place
  BY <1>1, <1>2, InLoop DEF WildcardInv, WildcardTypes, Place
<1>4. at.p \in Nat /\ at.s \in 0..Len(text) /\ at.p + 1 \in 0..Len(pattern)
      /\ Takes("*", at.s, at.s, 0)
  BY <1>2 DEF Takes
<1>5. Done(at.p, at.s) /\ (IsMatch(1) => Beyond(at.p, at.s))
  BY <1>1, InLoop
<1>6. Done(at.p + 1, at.s)
  BY <1>2, <1>4, <1>5, DoneGrows
<1>7. IsMatch(1) => Beyond(at.p + 1, at.s)
  BY <1>2, <1>4, <1>5, BeyondStar
<1>8. StarFits'
  <2>1. \E j \in 0..at.s : Done(at.p, j)
    BY <1>4, <1>5
  <2> QED
    BY <1>1, <1>2, <1>5, <2>1, MatchesStay DEF StarFits, Unchanged
<1>9. ErotemeFits'
  BY <1>1, PlacesStay
<1>10. Base'.p = at.p + 1 /\ Base'.s = at.s
  BY <1>1, <1>2 DEF Base
<1> QED
  BY <1>1, <1>3, <1>4, <1>6, <1>7, <1>8, <1>9, <1>10, LoopStep

LEMMA MatchStep == WildcardInv /\ Match => WildcardInv'
<1> SUFFICES ASSUME WildcardInv, Match PROVE WildcardInv'
  OBVIOUS
<1>1. InText /\ InPattern /\ P # "*" /\ P = S /\ star' = star /\ Unchanged
      /\ Goto("Loop", at.p + 1, at.s + 1)
  BY DEF Match, IsLetter, InPattern, Goto, Unchanged
<1>2. eroteme' = eroteme \/ eroteme' = [eroteme EXCEPT !.p = -1]
  BY DEF Match
<1>3. eroteme' \in Place /\ star' \in Place
  BY <1>1, <1>2, Lengths DEF WildcardInv, WildcardTypes, Place
<1>4. ErotemeFits'
  <2>1. CASE eroteme' = eroteme
    BY <1>1, <2>1, PlacesStay
  <2>2. CASE eroteme' = [eroteme EXCEPT !.p = -1]
    <3>1. eroteme'.p = -1
      BY <2>2 DEF WildcardInv, WildcardTypes, Place
    <3> QED
      BY <1>1, <3>1, PlacesStay
  <2> QED
    BY <1>2, <2>1, <2>2
<1>5. StarFits'
  BY <1>1, InLoop, PlacesStay
<1>6. Base' = Base
  BY <1>1 DEF Base
<1> QED
  BY <1>1, <1>3, <1>4, <1>5, <1>6, OneByte, InLoop, LoopStep

LEMMA MismatchStep == WildcardInv /\ Mismatch => WildcardInv'
<1> SUFFICES ASSUME WildcardInv, Mismatch PROVE WildcardInv'
  OBVIOUS
<1>1. InText /\ InPattern /\ P \notin {"?", "*"} /\ P # S
  BY DEF Mismatch, IsLetter, InPattern
<1>2. at.p \in 0..(Len(pattern) - 1) /\ at.s \in 0..Len(text)
      /\ Len(pattern) \in Nat /\ Len(text) \in Nat
  BY <1>1, InLoop, Lengths DEF WildcardInv, InPattern
<1>3. ~Rest(at.p, at.s)
  BY <1>1, <1>2, RestOne DEF P, S
<1>4. CASE eroteme.p # -1
  <2> DEFINE p == eroteme.p
             t == eroteme.s
  <2>1. eroteme' = [eroteme EXCEPT !.p = -1] /\ star' = star /\ Unchanged
        /\ Goto("Loop", p + 1, t)
    BY <1>4 DEF Mismatch, BackToEroteme, Goto, Unchanged
  <2>2. p \in 0..(Len(pattern) - 1) /\ t \in 0..Len(text) /\ pattern[p + 1] = "?"
        /\ Done(p, t) /\ (IsMatch(1) => Beyond(p, t))
    BY <1>2, <1>4 DEF WildcardInv, WildcardTypes, Place, ErotemeFits
  <2>3. eroteme'.p = -1 /\ eroteme' \in Place /\ star' \in Place
    BY <1>2, <2>1 DEF WildcardInv, WildcardTypes, Place
  <2> HIDE DEF p, t
  <2>4. p \in Nat /\ p + 1 \in 0..Len(pattern) /\ Takes("?", t, t, 0)
    BY <1>2, <2>2 DEF Takes
  <2>5. Done(p + 1, t)
    BY <1>2, <2>2, <2>4, DoneGrows
  <2>6. IsMatch(1) => Beyond(p + 1, t)
    <3>1. IsMatch(1) => Beyond(p + 1, t + 1)
      BY <1>2, <2>2, BeyondOne
    <3>2. (t + 1)..Len(text) \subseteq t..Len(text)
      BY <1>2, <2>2
    <3> QED
      BY <3>1, <3>2 DEF Beyond
  <2>7. StarFits' /\ ErotemeFits'
    BY <1>1, <2>1, <2>3, InLoop, PlacesStay
  <2>8. Base' = Base /\ ~Rest(Base.p, Base.s)
    BY <1>1, <1>3, <2>1, InLoop DEF Base
  <2> QED
    BY <2>1, <2>2, <2>3, <2>4, <2>5, <2>6, <2>7, <2>8, LoopStep
<1>5. CASE eroteme.p = -1 /\ star.p # -1
  BY <1>1, <1>3, <1>5, BackToStarStep DEF Mismatch
<1>6. CASE eroteme.p = -1 /\ star.p = -1
  <2>1. ~IsMatch(1)
    BY <1>1, <1>3, <1>6, InLoop DEF Base, IsMatch, Rest
  <2> QED
    BY <1>6, <2>1, AnswerStep DEF Mismatch
<1> QED
  BY <1>4, <1>5, <1>6

LEMMA CheckSkipStep == WildcardInv /\ CheckSkip => WildcardInv'
<1> SUFFICES ASSUME WildcardInv, CheckSkip PROVE WildcardInv'
  OBVIOUS
<1>1. label = "checkPattern" /\ label' = "checkPattern" /\ at'.p = at.p + 1
      /\ P \in {"*", "?"} /\ UNCHANGED <<star, eroteme>> /\ Unchanged
      /\ at' = [p |-> at.p + 1,
                s |-> IF P = "?" /\ at.s >= Len(text) THEN at.s - 1 ELSE at.s]
  BY DEF CheckSkip, MatchesNothing, Goto, Unchanged
<1>2. at.p \in 0..(Len(pattern) - 1) /\ at.s \in -1..Len(text)
      /\ Len(pattern) \in Nat /\ Len(text) \in Nat /\ Len(text) \in 0..Len(text)
  BY Lengths DEF WildcardInv, WildcardTypes, CheckSkip
<1>3. WildcardTypes'
  BY <1>1, <1>2 DEF WildcardInv, WildcardTypes, Place, Unchanged
<1>4. Done(at.p, Len(text)) /\ (IsMatch(1) => Rest(at.p, Len(text)))
  BY <1>1 DEF WildcardInv, CheckFits
<1>5. Done(at.p + 1, Len(text))
  <2>1. Takes(P, Len(text), Len(text), 0) /\ at.p \in Nat
    BY <1>1, <1>2 DEF Takes
  <2> QED
    BY <1>2, <1>4, <2>1, DoneGrows DEF P
<1>6. IsMatch(1) => Rest(at.p + 1, Len(text))
  <2> SUFFICES ASSUME IsMatch(1) PROVE Rest(at.p + 1, Len(text))
    OBVIOUS
  <2>1. PICK k \in 0..Len(text) : Takes(P, Len(text), k, 1) /\ Rest(at.p + 1, k)
    BY <1>2, <1>4, RestTakes DEF P
  <2>2. k = Len(text)
    BY <1>1, <1>2, <2>1 DEF Takes
  <2> QED
    BY <2>1, <2>2
<1>7. CheckFits'
  BY <1>1, <1>5, <1>6, MatchesStay DEF CheckFits, Unchanged
<1>8. StarFits' /\ ErotemeFits'
  BY <1>1, MatchesStay DEF WildcardInv, StarFits, ErotemeFits, Unchanged
<1> QED
  BY <1>1, <1>3, <1>7, <1>8 DEF WildcardInv, LoopFits, GlobIsFound, FoundMatches

LEMMA CheckEndStep == WildcardInv /\ CheckEnd => WildcardInv'
<1> SUFFICES ASSUME WildcardInv, CheckEnd PROVE WildcardInv'
  OBVIOUS
<1>1. label = "checkPattern" /\ Answer(at.p = Len(pattern))
      /\ (at.p < Len(pattern) => P \notin {"*", "?"})
  BY DEF CheckEnd, MatchesNothing
<1>2. at.p \in 0..Len(pattern)
      /\ Len(pattern) \in Nat /\ Len(text) \in Nat /\ Len(text) \in 0..Len(text)
  BY Lengths DEF WildcardInv, WildcardTypes
<1>3. Done(at.p, Len(text)) /\ (IsMatch(1) => Rest(at.p, Len(text)))
  BY <1>1 DEF WildcardInv, CheckFits
<1>4. at.p = Len(pattern) => IsMatch(0)
  BY <1>3 DEF Done, IsMatch
<1>5. at.p # Len(pattern) => ~IsMatch(1)
  <2> SUFFICES ASSUME at.p # Len(pattern), IsMatch(1) PROVE FALSE
    OBVIOUS
  <2>1. at.p \in 0..(Len(pattern) - 1) /\ pattern[at.p + 1] # "*"
    BY <1>1, <1>2 DEF P
  <2> QED
    BY <1>2, <1>3, <2>1, RestOne
<1> QED
  BY <1>1, <1>4, <1>5, AnswerStep

\* The invariant of wildcardMatch: whatever the pattern and the text, ...
THEOREM WildcardInvariant == WildcardSpec => []WildcardInv
<1>1. WildcardInv /\ UNCHANGED wildcardVars => WildcardInv'
  <2> SUFFICES ASSUME WildcardInv, UNCHANGED wildcardVars PROVE WildcardInv'
    OBVIOUS
  <2>1. Unchanged /\ UNCHANGED <<at, star, eroteme, label>> /\ Base' = Base
    BY DEF wildcardVars, Unchanged, Base
  <2>2. WildcardTypes' /\ StarFits' /\ ErotemeFits'
    BY <2>1, MatchesStay DEF WildcardInv, WildcardTypes, Place, StarFits, ErotemeFits, Unchanged
  <2>3. LoopFits' /\ CheckFits' /\ GlobIsFound' /\ FoundMatches'
    BY <2>1, MatchesStay DEF WildcardInv, LoopFits, CheckFits, GlobIsFound, FoundMatches,
                             Unchanged
  <2> QED
    BY <2>1, <2>2, <2>3 DEF WildcardInv, None
<1>2. WildcardInv /\ WildcardNext => WildcardInv'
  BY BeginStep, TextEndStep, PatternEndStep, ErotemeStep, StarStep, MatchStep,
     MismatchStep, CheckSkipStep, CheckEndStep DEF WildcardNext
<1>3. WildcardInv /\ [WildcardNext]_wildcardVars => WildcardInv'
  BY <1>1, <1>2
<1> QED
  BY <1>3, WildcardStart, PTL DEF WildcardSpec

\* ... it finds all that GLOB finds with one place to come back to for all "*" and
\* one for all "?", ...
THEOREM WildcardFindsGlob == WildcardSpec => []GlobIsFound
  BY WildcardInvariant, PTL DEF WildcardInv

\* ... and what it finds matches with some "?" left out.
THEOREM WildcardFindsMatches == WildcardSpec => []FoundMatches
  BY WildcardInvariant, PTL DEF WildcardInv

\* Without a "?" in the pattern the two are the same: wildcardMatch and GLOB agree.
THEOREM WildcardIsGlobWithoutEroteme ==
    WildcardSpec => [](/\ \A i \in DOMAIN pattern : pattern[i] # "?"
                       /\ label \in {"true", "false"}
                       => (label = "true" <=> IsMatch(1)))
<1> DEFINE NoEroteme == \A i \in DOMAIN pattern : pattern[i] # "?"
           Agree == NoEroteme /\ label \in {"true", "false"} => (label = "true" <=> IsMatch(1))
<1>1. WildcardInv => Agree
  <2> SUFFICES ASSUME WildcardInv, NoEroteme, IsMatch(0) PROVE IsMatch(1)
    BY DEF WildcardInv, GlobIsFound, FoundMatches
  <2>1. Len(pattern) \in Nat /\ DOMAIN pattern = 1..Len(pattern)
    BY Lengths DEF WildcardInv
  <2>2. \A a, b : \A k \in (0 + 1)..Len(pattern) :
           Takes(pattern[k], a, b, 0) => Takes(pattern[k], a, b, 1)
    BY <2>1 DEF Takes
  <2> QED
    BY <2>2 DEF IsMatch, Matched
<1> QED
  BY <1>1, WildcardInvariant, PTL

----------------------------------------------------------------------------
(* Sequences of anything.                                                  *)

IsSeq(s) == s \in Seq({s[i] : i \in DOMAIN s})

LEMMA SeqLen ==
    ASSUME NEW s, IsSeq(s)
    PROVE  Len(s) \in Nat /\ DOMAIN s = 1..Len(s)
  BY LenProperties DEF IsSeq

LEMMA SeqNone == IsSeq(<<>>) /\ Len(<<>>) = 0
<1>1. <<>> \in Seq({}) /\ Len(<<>>) = 0
  BY EmptySeq
<1>2. {<<>>[i] : i \in DOMAIN <<>>} = {}
  BY <1>1, LenProperties
<1> QED
  BY <1>1, <1>2 DEF IsSeq

LEMMA SeqIsSeq ==
    ASSUME NEW U, NEW s \in Seq(U)
    PROVE  IsSeq(s)
<1>1. Len(s) \in Nat /\ DOMAIN s = 1..Len(s) /\ s \in [1..Len(s) -> U]
  BY LenProperties
<1> DEFINE V == {s[i] : i \in DOMAIN s}
<1>2. \A i \in 1..Len(s) : s[i] \in V
  BY <1>1
<1> HIDE DEF V
<1>3. SubSeq(s, 1, Len(s)) \in Seq(V)
  BY <1>1, <1>2, SubSeqProperties
<1>4. SubSeq(s, 1, Len(s)) = s
  BY SubSeqFull
<1> QED
  BY <1>3, <1>4 DEF IsSeq, V

LEMMA SeqEmpty ==
    ASSUME NEW s, IsSeq(s)
    PROVE  s = <<>> <=> Len(s) = 0
  BY EmptySeq, SeqLen DEF IsSeq

LEMMA SeqSame ==
    ASSUME NEW s, NEW t, IsSeq(s), IsSeq(t), Len(s) = Len(t),
           \A i \in 1..Len(s) : s[i] = t[i]
    PROVE  s = t
<1>1. DOMAIN s = DOMAIN t /\ DOMAIN s = 1..Len(s)
  BY SeqLen
<1>2. {s[i] : i \in DOMAIN s} = {t[i] : i \in DOMAIN t}
  BY <1>1
<1> QED
  BY <1>2, SeqEqual DEF IsSeq

LEMMA SeqConcat ==
    ASSUME NEW s, NEW t, IsSeq(s), IsSeq(t)
    PROVE  /\ IsSeq(s \o t) /\ Len(s \o t) = Len(s) + Len(t)
           /\ \A i \in 1..Len(s) : (s \o t)[i] = s[i]
           /\ \A i \in 1..Len(t) : (s \o t)[Len(s) + i] = t[i]
<1> DEFINE U == {s[i] : i \in DOMAIN s} \cup {t[i] : i \in DOMAIN t}
<1>1. s \in Seq(U) /\ t \in Seq(U)
  BY SeqMonotonic DEF IsSeq
<1>2. Len(s) \in Nat /\ Len(t) \in Nat
  BY SeqLen
<1>3. /\ s \o t \in Seq(U) /\ Len(s \o t) = Len(s) + Len(t)
      /\ \A i \in 1..(Len(s) + Len(t)) :
            (s \o t)[i] = IF i <= Len(s) THEN s[i] ELSE t[i - Len(s)]
  BY <1>1, ConcatProperties
<1>4. IsSeq(s \o t)
  BY <1>3, SeqIsSeq
<1>5. \A i \in 1..Len(s) : (s \o t)[i] = s[i]
  BY <1>2, <1>3
<1>6. ASSUME NEW i \in 1..Len(t) PROVE (s \o t)[Len(s) + i] = t[i]
  <2>1. /\ Len(s) + i \in 1..(Len(s) + Len(t)) /\ ~(Len(s) + i <= Len(s))
        /\ (Len(s) + i) - Len(s) = i
    BY <1>2
  <2> HIDE DEF U
  <2> QED
    BY <1>3, <2>1
<1> QED
  BY <1>3, <1>4, <1>5, <1>6

LEMMA SeqOne ==
    ASSUME NEW x
    PROVE  IsSeq(<<x>>) /\ Len(<<x>>) = 1 /\ <<x>>[1] = x
<1>1. <<x>> \in Seq({x}) /\ Len(<<x>>) = 1 /\ <<x>>[1] = x
  OBVIOUS
<1> QED
  BY <1>1, SeqIsSeq

LEMMA SeqAppend ==
    ASSUME NEW s, NEW x, IsSeq(s)
    PROVE  /\ IsSeq(Append(s, x)) /\ Len(Append(s, x)) = Len(s) + 1
           /\ \A i \in 1..Len(s) : Append(s, x)[i] = s[i]
           /\ Append(s, x)[Len(s) + 1] = x
           /\ Append(s, x) = s \o <<x>>
<1> DEFINE U == {s[i] : i \in DOMAIN s} \cup {x}
<1>1. s \in Seq(U) /\ x \in U
  BY SeqMonotonic DEF IsSeq
<1>2. Len(s) \in Nat
  BY SeqLen
<1> HIDE DEF U
<1>3. /\ Append(s, x) \in Seq(U) /\ Len(Append(s, x)) = Len(s) + 1
      /\ \A i \in 1..Len(s) : Append(s, x)[i] = s[i]
      /\ Append(s, x)[Len(s) + 1] = x
  BY <1>1, <1>2
<1>4. IsSeq(Append(s, x))
  BY <1>3, SeqIsSeq
<1>5. /\ IsSeq(s \o <<x>>) /\ Len(s \o <<x>>) = Len(s) + 1
      /\ \A i \in 1..Len(s) : (s \o <<x>>)[i] = s[i]
      /\ (s \o <<x>>)[Len(s) + 1] = x
  <2>1. /\ IsSeq(s \o <<x>>) /\ Len(s \o <<x>>) = Len(s) + 1
        /\ \A i \in 1..Len(s) : (s \o <<x>>)[i] = s[i]
        /\ \A i \in 1..1 : (s \o <<x>>)[Len(s) + i] = <<x>>[i]
    BY SeqConcat, SeqOne
  <2> QED
    BY ONLY <2>1, SeqOne
<1>6. \A i \in 1..(Len(s) + 1) : i \in 1..Len(s) \/ i = Len(s) + 1
  BY <1>2
<1>7. \A i \in 1..(Len(s) + 1) : Append(s, x)[i] = (s \o <<x>>)[i]
  BY ONLY <1>3, <1>5, <1>6, Zenon
<1>8. Append(s, x) = s \o <<x>>
  BY <1>3, <1>4, <1>5, <1>7, SeqSame
<1> QED
  BY <1>3, <1>4, <1>8

\* t is s and one element more.
Appends(t, s, x) ==
    /\ IsSeq(t) /\ Len(t) = Len(s) + 1
    /\ \A i \in 1..Len(s) : t[i] = s[i]
    /\ t[Len(s) + 1] = x

LEMMA AppendAppends ==
    ASSUME NEW s, NEW x, IsSeq(s)
    PROVE  Appends(Append(s, x), s, x)
  BY SeqAppend DEF Appends

LEMMA SeqConcatAppend ==
    ASSUME NEW s, NEW t, NEW x, IsSeq(s), IsSeq(t)
    PROVE  s \o Append(t, x) = Append(s \o t, x)
<1> DEFINE U == {s[i] : i \in DOMAIN s} \cup {t[i] : i \in DOMAIN t} \cup {x}
<1>1. s \in Seq(U) /\ t \in Seq(U) /\ <<x>> \in Seq(U)
  <2>1. s \in Seq(U) /\ t \in Seq(U)
    BY SeqMonotonic DEF IsSeq
  <2> QED
    BY <2>1
<1> HIDE DEF U
<1>2. (s \o t) \o <<x>> = s \o (t \o <<x>>)
  BY <1>1, ConcatAssociative
<1> QED
  BY <1>2, SeqAppend, SeqConcat

Associates(s, t, u) == (s \o t) \o u = s \o (t \o u)

LEMMA SeqAssociates ==
    ASSUME NEW s, NEW t, NEW u, IsSeq(s), IsSeq(t), IsSeq(u)
    PROVE  Associates(s, t, u)
<1> DEFINE U == {s[i] : i \in DOMAIN s} \cup {t[i] : i \in DOMAIN t}
                \cup {u[i] : i \in DOMAIN u}
<1>1. s \in Seq(U) /\ t \in Seq(U) /\ u \in Seq(U)
  BY SeqMonotonic DEF IsSeq
<1> HIDE DEF U
<1> QED
  BY <1>1, ConcatAssociative DEF Associates

Joins(u, s, t) == u = s \o t

LEMMA JoinGrows ==
    ASSUME NEW s, NEW t, NEW u, NEW x, IsSeq(s), IsSeq(t), Joins(u, s, t)
    PROVE  Joins(Append(u, x), s, Append(t, x))
<1>1. s \o Append(t, x) = Append(s \o t, x)
  BY SeqConcatAppend
<1> QED
  BY ONLY <1>1, Joins(u, s, t), Zenon DEF Joins

LEMMA SeqConcatNone ==
    ASSUME NEW s, IsSeq(s)
    PROVE  s \o <<>> = s
  BY ConcatEmptySeq DEF IsSeq

\* A sequence without its last element.
LEMMA SeqFront ==
    ASSUME NEW s, IsSeq(s), Len(s) >= 1
    PROVE  /\ IsSeq(Front(s)) /\ Len(Front(s)) = Len(s) - 1
           /\ \A i \in 1..(Len(s) - 1) : Front(s)[i] = s[i]
           /\ s = Append(Front(s), Last(s))
<1> DEFINE U == {s[i] : i \in DOMAIN s}
<1>1. s \in Seq(U) /\ Len(s) \in Nat /\ \A i \in 1..Len(s) : s[i] \in U
  BY SeqLen DEF IsSeq
<1> HIDE DEF U
<1>2. PICK n \in Int : n = Len(s) - 1 /\ n >= 0
  BY <1>1
<1>3. \A i \in 1..n : s[i] \in U
  BY <1>1, <1>2
<1>4. /\ SubSeq(s, 1, n) \in Seq(U)
      /\ Len(SubSeq(s, 1, n)) = IF 1 <= n THEN n - 1 + 1 ELSE 0
      /\ \A i \in 1..(n - 1 + 1) : SubSeq(s, 1, n)[i] = s[1 + i - 1]
  BY <1>3, SubSeqProperties
<1>5. Front(s) = SubSeq(s, 1, n)
  BY <1>2 DEF Front
<1>6. PICK f : f = Front(s)
  OBVIOUS
<1>7. /\ IsSeq(f) /\ Len(f) = n
      /\ \A i \in 1..n : f[i] = s[i]
  <2>1. IsSeq(f)
    BY <1>4, <1>5, <1>6, SeqIsSeq
  <2>2. Len(f) = n
    BY ONLY <1>2, <1>4, <1>5, <1>6
  <2>3. ASSUME NEW i \in 1..n PROVE f[i] = s[i]
    <3>1. i \in 1..(n - 1 + 1) /\ 1 + i - 1 = i
      BY ONLY <1>2, <2>3
    <3> QED
      BY ONLY <1>4, <1>5, <1>6, <3>1, Zenon
  <2> QED
    BY <2>1, <2>2, <2>3
<1>8. s = Append(f, Last(s))
  <2>1. PICK x : x = Last(s)
    OBVIOUS
  <2>2. /\ IsSeq(Append(f, x)) /\ Len(Append(f, x)) = n + 1
        /\ \A i \in 1..n : Append(f, x)[i] = s[i]
        /\ Append(f, x)[n + 1] = x
    <3>1. Appends(Append(f, x), f, x)
      BY ONLY <1>7, AppendAppends
    <3> QED
      BY ONLY <1>7, <3>1, Zenon DEF Appends
  <2>3. n + 1 = Len(s)
    BY <1>1, <1>2
  <2>4. \A i \in 1..Len(s) : i \in 1..n \/ i = n + 1
    BY ONLY <1>1, <1>2
  <2>5. x = s[n + 1]
    BY ONLY <2>1, <2>3 DEF Last
  <2>6. \A i \in 1..Len(s) : Append(f, x)[i] = s[i]
    BY ONLY <2>2, <2>4, <2>5, Zenon
  <2> QED
    BY <2>1, <2>2, <2>3, <2>6, SeqSame
<1> QED
  BY ONLY <1>2, <1>6, <1>7, <1>8
----------------------------------------------------------------------------
(* How deep in groups a call is.                                           *)

LEMMA CountNone ==
    ASSUME NEW s, NEW name
    PROVE  Count(s, 0, name) = 0
<1>1. {j \in 1..0 : s[j].call = name} = {}
  OBVIOUS
<1> QED
  BY <1>1, FS_EmptySet DEF Count

LEMMA CountType ==
    ASSUME NEW s, NEW i \in Nat, NEW name
    PROVE  /\ IsFiniteSet({j \in 1..i : s[j].call = name})
           /\ Count(s, i, name) \in Nat
<1>1. IsFiniteSet(1..i)
  BY FS_Interval
<1>2. IsFiniteSet({j \in 1..i : s[j].call = name})
  BY <1>1, FS_Subset
<1> QED
  BY <1>2, FS_CardinalityType DEF Count

LEMMA CountStep ==
    ASSUME NEW s, NEW i \in Nat, NEW name
    PROVE  Count(s, i + 1, name) =
           IF s[i + 1].call = name THEN Count(s, i, name) + 1 ELSE Count(s, i, name)
<1> DEFINE C(n) == {j \in 1..n : s[j].call = name}
<1>1. IsFiniteSet(C(i)) /\ i + 1 \notin C(i)
  <2>1. IsFiniteSet(C(i))
    BY CountType
  <2>2. i + 1 \notin 1..i
    OBVIOUS
  <2> QED
    BY <2>1, <2>2
<1>2. CASE s[i + 1].call = name
  <2>1. C(i + 1) = C(i) \cup {i + 1}
    BY <1>2
  <2>2. Cardinality(C(i) \cup {i + 1}) = Cardinality(C(i)) + 1
    BY <1>1, FS_AddElement
  <2> QED
    BY <1>2, <2>1, <2>2 DEF Count
<1>3. CASE s[i + 1].call # name
  <2>1. C(i + 1) = C(i)
    BY <1>3
  <2> QED
    BY <1>3, <2>1 DEF Count
<1> QED
  BY <1>2, <1>3

LEMMA CountSame ==
    ASSUME NEW s, NEW t, NEW i, NEW name, \A j \in 1..i : s[j] = t[j]
    PROVE  Count(s, i, name) = Count(t, i, name)
<1>1. {j \in 1..i : s[j].call = name} = {j \in 1..i : t[j].call = name}
  OBVIOUS
<1> QED
  BY <1>1 DEF Count

\* What a call does to the depth.
Deeper(c) == IF c.call = "(" THEN 1 ELSE IF c.call = ")" THEN -1 ELSE 0

LEMMA NestingNone ==
    ASSUME NEW s
    PROVE  Nesting(s, 0) = 0
  BY CountNone DEF Nesting

LEMMA NestingStep ==
    ASSUME NEW s, NEW i \in Nat
    PROVE  /\ Nesting(s, i) \in Int
           /\ Nesting(s, i + 1) = Nesting(s, i) + Deeper(s[i + 1])
<1>1. /\ Count(s, i, "(") \in Nat /\ Count(s, i, ")") \in Nat
  BY CountType
<1>2. /\ Count(s, i + 1, "(") =
            IF s[i + 1].call = "(" THEN Count(s, i, "(") + 1 ELSE Count(s, i, "(")
      /\ Count(s, i + 1, ")") =
            IF s[i + 1].call = ")" THEN Count(s, i, ")") + 1 ELSE Count(s, i, ")")
  BY CountStep
<1> QED
  BY <1>1, <1>2 DEF Nesting, Deeper

LEMMA NestingSame ==
    ASSUME NEW s, NEW t, NEW i, \A j \in 1..i : s[j] = t[j]
    PROVE  Nesting(s, i) = Nesting(t, i)
  BY CountSame DEF Nesting

----------------------------------------------------------------------------
(* The calls of the builder so far.                                        *)

\* Calls that lead to valid SQL, in so many groups that are open.
Built(s, depth) ==
    /\ IsSeq(s)
    /\ s # <<>> => s[1].call \notin Operators
    /\ \A i \in 1..(Len(s) - 1) : Follows(s[i], s[i + 1])
    /\ \A i \in 0..Len(s) : Nesting(s, i) >= 0
    /\ Nesting(s, Len(s)) = depth

\* What they end with: nothing yet in the group, an operator, or a condition.
Ends(s) ==
    IF s = <<>> \/ Last(s).call = "(" THEN "open"
    ELSE IF Last(s).call \in Operators THEN "operator" ELSE "term"

LEMMA BuiltNone == Built(<<>>, 0) /\ Ends(<<>>) = "open"
<1>1. IsSeq(<<>>) /\ Len(<<>>) = 0
  BY SeqNone
<1>2. Nesting(<<>>, 0) = 0
  BY NestingNone
<1>3. 0..0 = {0} /\ 1..(0 - 1) = {}
  OBVIOUS
<1>4. Ends(<<>>) = "open"
  BY DEF Ends
<1> QED
  BY ONLY <1>1, <1>2, <1>3, <1>4 DEF Built

\* One call more.
LEMMA BuiltAppend ==
    ASSUME NEW s, NEW depth \in Nat, NEW c, Built(s, depth),
           s = <<>> => c.call \notin Operators,
           s # <<>> => Follows(Last(s), c),
           depth + Deeper(c) >= 0
    PROVE  /\ Built(Append(s, c), depth + Deeper(c))
           /\ Append(s, c) # <<>> /\ Last(Append(s, c)) = c
<1>1. PICK n \in Nat : n = Len(s)
  BY SeqLen DEF Built
<1>2. PICK t : t = Append(s, c)
  OBVIOUS
<1>3. /\ IsSeq(t) /\ Len(t) = n + 1 /\ t[n + 1] = c
      /\ \A i \in 1..n : t[i] = s[i]
  <2>1. IsSeq(s)
    BY DEF Built
  <2>2. /\ IsSeq(t) /\ Len(t) = Len(s) + 1 /\ t[Len(s) + 1] = c
        /\ \A i \in 1..Len(s) : t[i] = s[i]
    BY ONLY <1>2, <2>1, SeqAppend, Zenon
  <2> QED
    BY ONLY <1>1, <2>2, Zenon
<1>4. t # <<>> /\ Last(t) = c
  <2>1. t # <<>>
    BY <1>3, SeqEmpty
  <2> QED
    BY <1>3, <2>1 DEF Last
<1>5. t[1].call \notin Operators
  <2>1. CASE s = <<>>
    <3>1. n = 0
      BY <1>1, <2>1, SeqNone
    <3>2. t[1] = c
      BY <1>3, <3>1
    <3> QED
      BY <2>1, <3>2
  <2>2. CASE s # <<>>
    <3>1. n # 0
      BY <1>1, <2>2, SeqEmpty DEF Built
    <3>2. 1 \in 1..n
      BY <3>1
    <3> QED
      BY <1>3, <2>2, <3>2 DEF Built
  <2> QED
    BY <2>1, <2>2
<1>6. ASSUME NEW i \in 1..(Len(t) - 1) PROVE Follows(t[i], t[i + 1])
  <2>1. i \in 1..n
    BY <1>3
  <2>2. CASE i = n
    <3>1. s # <<>>
      BY <1>1, <2>1, <2>2, SeqNone
    <3>2. t[i] = Last(s) /\ t[i + 1] = c
      BY <1>1, <1>3, <2>1, <2>2 DEF Last
    <3> QED
      BY <3>1, <3>2
  <2>3. CASE i # n
    <3>1. i \in 1..(n - 1) /\ i + 1 \in 1..n
      BY <2>1, <2>3
    <3> QED
      BY <1>1, <1>3, <2>1, <3>1 DEF Built
  <2> QED
    BY <2>2, <2>3
<1>7. \A i \in 0..n : Nesting(t, i) = Nesting(s, i)
  <2>1. SUFFICES ASSUME NEW i \in 0..n PROVE Nesting(t, i) = Nesting(s, i)
    OBVIOUS
  <2>2. \A j \in 1..i : j \in 1..n
    OBVIOUS
  <2> QED
    BY <1>3, <2>2, NestingSame
<1>8. Nesting(t, n + 1) = depth + Deeper(c)
  <2>1. Nesting(t, n) = depth
    BY <1>1, <1>7 DEF Built
  <2> QED
    BY <1>3, <2>1, NestingStep
<1>9. \A i \in 0..Len(t) : Nesting(t, i) >= 0
  <2>1. \A i \in 0..(n + 1) : i \in 0..n \/ i = n + 1
    OBVIOUS
  <2>2. \A i \in 0..n : Nesting(s, i) >= 0
    BY <1>1 DEF Built
  <2> QED
    BY <1>3, <1>7, <1>8, <2>1, <2>2
<1> QED
  BY <1>2, <1>3, <1>4, <1>5, <1>6, <1>8, <1>9 DEF Built

LEMMA BuiltOperator ==
    ASSUME NEW s, NEW depth \in Nat, NEW c, Built(s, depth),
           Ends(s) = "term", c.call \in Operators
    PROVE  Built(Append(s, c), depth) /\ Ends(Append(s, c)) = "operator"
<1>1. s # <<>> /\ Follows(Last(s), c) /\ Deeper(c) = 0 /\ depth + Deeper(c) = depth
  BY DEF Ends, Follows, Deeper, Operators
<1>2. /\ Built(Append(s, c), depth)
      /\ Append(s, c) # <<>> /\ Last(Append(s, c)) = c
  BY <1>1, BuiltAppend
<1> QED
  BY <1>2 DEF Ends, Operators

LEMMA BuiltTerm ==
    ASSUME NEW s, NEW depth \in Nat, NEW c, Built(s, depth),
           Ends(s) # "term", IsTerm(c)
    PROVE  Built(Append(s, c), depth) /\ Ends(Append(s, c)) = "term"
<1>1. /\ c.call \notin Operators /\ Deeper(c) = 0 /\ depth + Deeper(c) = depth
      /\ s # <<>> => Follows(Last(s), c)
  BY DEF Ends, Follows, Deeper, IsTerm
<1>2. /\ Built(Append(s, c), depth)
      /\ Append(s, c) # <<>> /\ Last(Append(s, c)) = c
  BY <1>1, BuiltAppend
<1> QED
  BY <1>2 DEF Ends, IsTerm

LEMMA BuiltOpen ==
    ASSUME NEW s, NEW depth \in Nat, NEW c, Built(s, depth),
           Ends(s) # "term", c.call = "("
    PROVE  Built(Append(s, c), depth + 1) /\ Ends(Append(s, c)) = "open"
<1>1. /\ c.call \notin Operators /\ Deeper(c) = 1 /\ depth + Deeper(c) = depth + 1
      /\ s # <<>> => Follows(Last(s), c)
  BY DEF Ends, Follows, Deeper, Operators
<1>2. /\ Built(Append(s, c), depth + 1)
      /\ Append(s, c) # <<>> /\ Last(Append(s, c)) = c
  BY <1>1, BuiltAppend
<1> QED
  BY <1>2 DEF Ends

LEMMA BuiltClose ==
    ASSUME NEW s, NEW depth \in Nat, NEW c, Built(s, depth), depth > 0,
           Ends(s) # "operator", c.call = ")"
    PROVE  Built(Append(s, c), depth - 1) /\ Ends(Append(s, c)) = "term"
<1>1. /\ c.call \notin Operators /\ Deeper(c) = -1 /\ depth + Deeper(c) = depth - 1
      /\ s # <<>> => Follows(Last(s), c)
  BY DEF Ends, Follows, Deeper, Operators
<1>2. /\ Built(Append(s, c), depth - 1)
      /\ Append(s, c) # <<>> /\ Last(Append(s, c)) = c
  BY <1>1, BuiltAppend
<1> QED
  BY <1>2 DEF Ends, Operators

----------------------------------------------------------------------------
(* What the state of a call of parse adds.                                 *)

IsFrame(f) ==
    f \in [text : {f.text}, i : {f.i}, buf : {f.buf}, field : {f.field},
           parts : {f.parts}, inQuote : BOOLEAN, inArray : BOOLEAN,
           operator : {"", "AND", "OR"}, dirty : BOOLEAN]

\* A term may follow, unless something was added to the group: then an operator.
Fits(s, depth, f) ==
    /\ Built(s, depth)
    /\ IsFrame(f)
    /\ Ends(s) = IF f.dirty THEN "term" ELSE "open"

LEMMA CallNames ==
    ASSUME NEW name, NEW field, NEW values
    PROVE  Call(name, field, values).call = name
  BY DEF Call

LEMMA OperatorAdded ==
    ASSUME NEW s, NEW depth \in Nat, NEW f, Fits(s, depth, f)
    PROVE  /\ IsSeq(AddOperator(f))
           /\ Built(s \o AddOperator(f), depth)
           /\ Ends(s \o AddOperator(f)) # "term"
<1>1. CASE ~f.dirty
  <2>1. AddOperator(f) = <<>> /\ s \o <<>> = s
    BY <1>1, SeqConcatNone DEF AddOperator, Fits, Built
  <2> QED
    BY <1>1, <2>1, SeqNone DEF Fits
<1>2. CASE f.dirty
  <2>0. PICK name \in Operators : name = IF f.operator = "" THEN "AND" ELSE f.operator
    <3>1. f.operator \in {"", "AND", "OR"}
      BY DEF Fits, IsFrame
    <3> QED
      BY <3>1 DEF Operators
  <2>1. PICK c : c = Call(name, <<>>, <<>>)
    OBVIOUS
  <2>2. c.call \in Operators
    BY <2>1, CallNames
  <2>3. Built(Append(s, c), depth) /\ Ends(Append(s, c)) = "operator"
    BY <1>2, <2>2, BuiltOperator DEF Fits
  <2>4. AddOperator(f) = <<c>>
    BY <1>2, <2>0, <2>1 DEF AddOperator
  <2>5. Append(s, c) = s \o <<c>> /\ IsSeq(<<c>>)
    BY SeqAppend, SeqOne DEF Fits, Built
  <2> QED
    BY <2>3, <2>4, <2>5
<1> QED
  BY <1>1, <1>2 DEF Fits, IsFrame

LEMMA TermAdded ==
    ASSUME NEW s, NEW depth \in Nat, NEW f, Fits(s, depth, f), NEW c, IsTerm(c)
    PROVE  /\ IsSeq(Append(AddOperator(f), c))
           /\ Built(s \o Append(AddOperator(f), c), depth)
           /\ Ends(s \o Append(AddOperator(f), c)) = "term"
<1>1. /\ IsSeq(AddOperator(f))
      /\ Built(s \o AddOperator(f), depth)
      /\ Ends(s \o AddOperator(f)) # "term"
  BY OperatorAdded
<1>2. IsSeq(Append(AddOperator(f), c))
  BY <1>1, SeqAppend
<1>3. s \o Append(AddOperator(f), c) = Append(s \o AddOperator(f), c)
  BY <1>1, SeqConcatAppend DEF Fits, Built
<1> QED
  BY <1>1, <1>2, <1>3, BuiltTerm

\* An array adds one condition, or two in a group of their own.
LEMMA ArrayAdded ==
    ASSUME NEW s, NEW depth \in Nat, NEW f, Fits(s, depth, f)
    PROVE  LET out == AddOperator(f) \o ArrayTerms(f)
           IN  IsSeq(out) /\ Built(s \o out, depth) /\ Ends(s \o out) = "term"
<1>1. PICK o : o = AddOperator(f)
  OBVIOUS
<1>2. IsSeq(o) /\ Built(s \o o, depth) /\ Ends(s \o o) # "term"
  BY <1>1, OperatorAdded
<1>3. ASSUME NEW c, IsTerm(c), ArrayTerms(f) = <<c>>
      PROVE  /\ IsSeq(o \o ArrayTerms(f)) /\ Built(s \o (o \o ArrayTerms(f)), depth)
             /\ Ends(s \o (o \o ArrayTerms(f))) = "term"
  <2>1. o \o ArrayTerms(f) = Append(o, c)
    BY <1>2, <1>3, SeqAppend
  <2> QED
    BY <1>1, <1>3, <2>1, TermAdded
<1>4. ASSUME NEW a, NEW b, IsTerm(a), IsTerm(b),
             ArrayTerms(f) = <<Call("(", <<>>, <<>>)>> \o <<a>> \o <<Call("OR", <<>>, <<>>)>>
                             \o <<b>> \o <<Call(")", <<>>, <<>>)>>
      PROVE  /\ IsSeq(o \o ArrayTerms(f)) /\ Built(s \o (o \o ArrayTerms(f)), depth)
             /\ Ends(s \o (o \o ArrayTerms(f))) = "term"
  <2>1. PICK p, q, r : /\ p = Call("(", <<>>, <<>>) /\ p.call = "("
                       /\ q = Call("OR", <<>>, <<>>) /\ q.call = "OR"
                       /\ r = Call(")", <<>>, <<>>) /\ r.call = ")"
    BY CallNames
  <2>2. PICK t1, t2, t3, t4 : /\ t1 = Append(<<p>>, a) /\ t2 = Append(t1, q)
                              /\ t3 = Append(t2, b) /\ t4 = Append(t3, r)
    OBVIOUS
  <2>3. IsSeq(<<p>>) /\ IsSeq(t1) /\ IsSeq(t2) /\ IsSeq(t3) /\ IsSeq(t4)
    BY <2>2, SeqOne, SeqAppend
  <2>4. ArrayTerms(f) = t4
    <3>1. t1 = <<p>> \o <<a>> /\ t2 = t1 \o <<q>> /\ t3 = t2 \o <<b>> /\ t4 = t3 \o <<r>>
      BY <2>2, <2>3, SeqAppend
    <3> QED
      BY ONLY <1>4, <2>1, <3>1, Zenon
  <2>5. PICK u0, u1, u2, u3, u4, u5 :
          /\ u0 = s \o o /\ u1 = Append(u0, p) /\ u2 = Append(u1, a)
          /\ u3 = Append(u2, q) /\ u4 = Append(u3, b) /\ u5 = Append(u4, r)
    OBVIOUS
  <2>6. s \o (o \o t4) = u5
    <3>1. PICK v0, v1, v2, v3, v4 :
            /\ v0 = Append(o, p) /\ v1 = Append(v0, a) /\ v2 = Append(v1, q)
            /\ v3 = Append(v2, b) /\ v4 = Append(v3, r)
      OBVIOUS
    <3>2. IsSeq(v0) /\ IsSeq(v1) /\ IsSeq(v2) /\ IsSeq(v3) /\ IsSeq(v4)
      BY <1>2, <3>1, SeqAppend
    <3>3. IsSeq(s)
      BY DEF Fits, Built
    <3>4. Joins(v0, o, <<p>>)
      BY <1>2, <3>1, SeqAppend DEF Joins
    <3>5. Joins(v1, o, t1) /\ Joins(v2, o, t2) /\ Joins(v3, o, t3) /\ Joins(v4, o, t4)
      <4>1. Joins(v1, o, t1)
        BY ONLY <1>2, <2>2, <2>3, <3>1, <3>4, JoinGrows
      <4>2. Joins(v2, o, t2)
        BY ONLY <1>2, <2>2, <2>3, <3>1, <4>1, JoinGrows
      <4>3. Joins(v3, o, t3)
        BY ONLY <1>2, <2>2, <2>3, <3>1, <4>2, JoinGrows
      <4>4. Joins(v4, o, t4)
        BY ONLY <1>2, <2>2, <2>3, <3>1, <4>3, JoinGrows
      <4> QED
        BY ONLY <4>1, <4>2, <4>3, <4>4
    <3>6. /\ Joins(u1, s, v0) /\ Joins(u2, s, v1) /\ Joins(u3, s, v2)
          /\ Joins(u4, s, v3) /\ Joins(u5, s, v4)
      <4>0. Joins(u0, s, o)
        BY ONLY <2>5, Zenon DEF Joins
      <4>1. Joins(u1, s, v0)
        BY ONLY <1>2, <2>5, <3>1, <3>3, <4>0, JoinGrows
      <4>2. Joins(u2, s, v1)
        BY ONLY <3>2, <2>5, <3>1, <3>3, <4>1, JoinGrows
      <4>3. Joins(u3, s, v2)
        BY ONLY <3>2, <2>5, <3>1, <3>3, <4>2, JoinGrows
      <4>4. Joins(u4, s, v3)
        BY ONLY <3>2, <2>5, <3>1, <3>3, <4>3, JoinGrows
      <4>5. Joins(u5, s, v4)
        BY ONLY <3>2, <2>5, <3>1, <3>3, <4>4, JoinGrows
      <4> QED
        BY ONLY <4>1, <4>2, <4>3, <4>4, <4>5
    <3> QED
      BY ONLY <3>5, <3>6, Zenon DEF Joins
  <2>7. Built(u1, depth + 1) /\ Ends(u1) = "open"
    BY <1>2, <2>1, <2>5, BuiltOpen
  <2>8. depth + 1 \in Nat /\ depth + 1 > 0 /\ (depth + 1) - 1 = depth
    OBVIOUS
  <2>9. Built(u2, depth + 1) /\ Ends(u2) = "term"
    BY <1>4, <2>5, <2>7, <2>8, BuiltTerm
  <2>10. Built(u3, depth + 1) /\ Ends(u3) = "operator"
    BY <2>1, <2>5, <2>8, <2>9, BuiltOperator DEF Operators
  <2>11. Built(u4, depth + 1) /\ Ends(u4) = "term"
    BY <1>4, <2>5, <2>8, <2>10, BuiltTerm
  <2>12. Built(u5, (depth + 1) - 1) /\ Ends(u5) = "term"
    BY <2>1, <2>5, <2>8, <2>11, BuiltClose
  <2>13. IsSeq(o \o t4)
    BY <1>2, <2>3, SeqConcat
  <2> QED
    BY <2>4, <2>6, <2>8, <2>12, <2>13
<1>5. \/ \E c : IsTerm(c) /\ ArrayTerms(f) = <<c>>
      \/ \E a, b : /\ IsTerm(a) /\ IsTerm(b)
                   /\ ArrayTerms(f) =
                        <<Call("(", <<>>, <<>>)>> \o <<a>> \o <<Call("OR", <<>>, <<>>)>>
                        \o <<b>> \o <<Call(")", <<>>, <<>>)>>
  <2> DEFINE numbers == SelectSeq(f.parts, IsNumber)
             texts   == SelectSeq(f.parts, LAMBDA p : ~IsNumber(p))
  <2>1. PICK name : name = (IF Len(numbers) = 1 THEN "=" ELSE "NumberIn")
    OBVIOUS
  <2>2. PICK a : a = Call(name, FieldName(f), numbers)
    OBVIOUS
  <2>3. PICK b : b = Call("TextIn", FieldName(f), texts)
    OBVIOUS
  <2>4. PICK c : c = Call("Between", FieldName(f), <<f.parts[1], f.parts[3]>>)
    OBVIOUS
  <2>5. IsTerm(a) /\ IsTerm(b) /\ IsTerm(c)
    <3>1. a.call = name /\ b.call = "TextIn" /\ c.call = "Between"
      BY ONLY <2>2, <2>3, <2>4, CallNames
    <3> QED
      BY ONLY <2>1, <3>1 DEF IsTerm, Operators
  <2>6. \/ ArrayTerms(f) = <<a>> \/ ArrayTerms(f) = <<b>> \/ ArrayTerms(f) = <<c>>
        \/ ArrayTerms(f) =
              <<Call("(", <<>>, <<>>)>> \o <<a>> \o <<Call("OR", <<>>, <<>>)>>
              \o <<b>> \o <<Call(")", <<>>, <<>>)>>
    BY ONLY <2>1, <2>2, <2>3, <2>4, Zenon DEF ArrayTerms, numbers, texts
  <2> QED
    BY ONLY <2>5, <2>6, Zenon
<1> QED
  BY <1>1, <1>3, <1>4, <1>5

Extends(s, depth, r) == IsSeq(r.out) /\ Fits(s \o r.out, depth, r.f)

\* Nothing is added.
LEMMA NothingAdded ==
    ASSUME NEW s, NEW depth, NEW f, NEW g, Fits(s, depth, f),
           IsFrame(g), g.dirty = f.dirty
    PROVE  Fits(s, depth, g) /\ Extends(s, depth, Result(g, <<>>))
<1>1. s \o <<>> = s /\ IsSeq(<<>>)
  BY SeqConcatNone, SeqNone DEF Fits, Built
<1>2. Fits(s, depth, g)
  BY DEF Fits
<1>3. Result(g, <<>>).f = g /\ Result(g, <<>>).out = <<>>
  BY DEF Result
<1> QED
  BY ONLY <1>1, <1>2, <1>3, Zenon DEF Extends

LEMMA SomethingAdded ==
    ASSUME NEW s, NEW depth, NEW g, NEW out, IsFrame(g), g.dirty,
           IsSeq(out), Built(s \o out, depth), Ends(s \o out) = "term"
    PROVE  IsSeq(out) /\ Fits(s \o out, depth, g)
  BY DEF Fits

LEMMA SingleExtends ==
    ASSUME NEW s, NEW depth \in Nat, NEW f, Fits(s, depth, f)
    PROVE  /\ Extends(s, depth, AddTermSingle(f))
           /\ f.inArray => /\ AddTermSingle(f).out = <<>>
                           /\ Fits(s, depth, AddTermSingle(f).f)
<1>1. IsFrame(f)
  BY DEF Fits
<1>2. CASE f.inArray
  <2>1. PICK g : g = [f EXCEPT !.parts = IF f.buf = <<>> THEN @ ELSE Append(@, f.buf),
                               !.buf = <<>>]
    OBVIOUS
  <2>2. IsFrame(g) /\ g.dirty = f.dirty
    BY <1>1, <2>1 DEF IsFrame
  <2>3. AddTermSingle(f) = Result(g, <<>>)
    BY <1>2, <2>1 DEF AddTermSingle
  <2>4. AddTermSingle(f).out = <<>> /\ AddTermSingle(f).f = g
    BY <2>3 DEF Result
  <2> QED
    BY <2>2, <2>3, <2>4, NothingAdded
<1>3. CASE ~f.inArray /\ f.buf \in {<<op>> : op \in Operators}
  <2>1. PICK g : g = [f EXCEPT !.operator = f.buf[1], !.buf = <<>>]
    OBVIOUS
  <2>2. f.buf[1] \in {"", "AND", "OR"}
    <3>1. PICK op \in Operators : f.buf = <<op>>
      BY <1>3
    <3>2. f.buf[1] = op
      BY ONLY <3>1, SeqOne
    <3> QED
      BY <3>2 DEF Operators
  <2>3. IsFrame(g) /\ g.dirty = f.dirty
    BY <1>1, <2>1, <2>2 DEF IsFrame
  <2>4. AddTermSingle(f) = Result(g, <<>>)
    BY <1>3, <2>1 DEF AddTermSingle
  <2> QED
    BY <1>3, <2>3, <2>4, NothingAdded
<1>4. CASE /\ ~f.inArray /\ f.buf \notin {<<op>> : op \in Operators} /\ f.buf = <<>>
  <2>1. PICK g : g = [f EXCEPT !.field = <<>>]
    OBVIOUS
  <2>2. IsFrame(g) /\ g.dirty = f.dirty
    BY <1>1, <2>1 DEF IsFrame
  <2>3. AddTermSingle(f) = Result(g, <<>>)
    BY <1>4, <2>1 DEF AddTermSingle
  <2> QED
    BY <1>4, <2>2, <2>3, NothingAdded
<1>5. CASE /\ ~f.inArray /\ f.buf \notin {<<op>> : op \in Operators} /\ f.buf # <<>>
  <2>1. PICK g : g = [Used(f) EXCEPT !.buf = <<>>, !.field = <<>>]
    OBVIOUS
  <2>2. IsFrame(g) /\ g.dirty = TRUE
    BY <1>1, <2>1 DEF IsFrame, Used
  <2>3. PICK c : c = SingleTerm(f)
    OBVIOUS
  <2>4. IsTerm(c)
    <3>1. c.call \in {"=", "<", "Text"}
      <4>1. \/ c = Call("=", f.field, <<f.buf>>) \/ c = Call("<", f.field, <<Tail(f.buf)>>)
            \/ c = Call("Text", FieldName(f), <<f.buf>>)
        BY <2>3 DEF SingleTerm
      <4> QED
        BY <4>1, CallNames
    <3> QED
      BY <3>1 DEF IsTerm, Operators
  <2>5. AddTermSingle(f) = Result(g, Append(AddOperator(f), c))
    BY <1>5, <2>1, <2>3 DEF AddTermSingle
  <2>6. /\ AddTermSingle(f).f = g
        /\ AddTermSingle(f).out = Append(AddOperator(f), c)
    BY <2>5 DEF Result
  <2>7. /\ IsSeq(Append(AddOperator(f), c))
        /\ Fits(s \o Append(AddOperator(f), c), depth, g)
    BY <2>2, <2>4, TermAdded, SomethingAdded
  <2> QED
    BY ONLY <1>5, <2>6, <2>7, Zenon DEF Extends
<1> QED
  BY <1>1, <1>2, <1>3, <1>4, <1>5 DEF IsFrame

LEMMA SequenceExtends ==
    ASSUME NEW s, NEW depth \in Nat, NEW f, Fits(s, depth, f)
    PROVE  Extends(s, depth, AddTermSequence(f))
<1>1. IsFrame(f)
  BY DEF Fits
<1>2. CASE f.inArray
  <2>1. PICK g : g = [f EXCEPT !.parts = Append(@, f.buf), !.buf = <<>>]
    OBVIOUS
  <2>2. IsFrame(g) /\ g.dirty = f.dirty
    BY <1>1, <2>1 DEF IsFrame
  <2>3. AddTermSequence(f) = Result(g, <<>>)
    BY <1>2, <2>1 DEF AddTermSequence
  <2> QED
    BY <2>2, <2>3, NothingAdded
<1>3. CASE ~f.inArray /\ f.buf = <<>>
  <2>1. PICK g : g = [f EXCEPT !.field = <<>>]
    OBVIOUS
  <2>2. IsFrame(g) /\ g.dirty = f.dirty
    BY <1>1, <2>1 DEF IsFrame
  <2>3. AddTermSequence(f) = Result(g, <<>>)
    BY <1>3, <2>1 DEF AddTermSequence
  <2> QED
    BY <2>2, <2>3, NothingAdded
<1>4. CASE ~f.inArray /\ f.buf # <<>>
  <2>1. PICK g : g = [Used(f) EXCEPT !.buf = <<>>, !.field = <<>>]
    OBVIOUS
  <2>2. IsFrame(g) /\ g.dirty = TRUE
    BY <1>1, <2>1 DEF IsFrame, Used
  <2>3. PICK c : c = Call("Phrase", FieldName(f), <<f.buf>>)
    OBVIOUS
  <2>4. IsTerm(c)
    BY <2>3, CallNames DEF IsTerm, Operators
  <2>5. AddTermSequence(f) = Result(g, Append(AddOperator(f), c))
    BY <1>4, <2>1, <2>3 DEF AddTermSequence
  <2>6. /\ AddTermSequence(f).f = g
        /\ AddTermSequence(f).out = Append(AddOperator(f), c)
    BY <2>5 DEF Result
  <2>7. /\ IsSeq(Append(AddOperator(f), c))
        /\ Fits(s \o Append(AddOperator(f), c), depth, g)
    BY <2>2, <2>4, TermAdded, SomethingAdded
  <2> QED
    BY ONLY <2>6, <2>7, Zenon DEF Extends
<1> QED
  BY <1>1, <1>2, <1>3, <1>4 DEF IsFrame

LEMMA CloseExtends ==
    ASSUME NEW s, NEW depth \in Nat, NEW f, Fits(s, depth, f)
    PROVE  Extends(s, depth, CloseArray(f))
<1>1. IsFrame(f)
  BY DEF Fits
<1>2. PICK g : g = [f EXCEPT !.inArray = FALSE]
  OBVIOUS
<1>3. IsFrame(g) /\ g.dirty = f.dirty
  BY <1>1, <1>2 DEF IsFrame
<1>4. CASE ~f.inArray \/ f.parts = <<>>
  <2>1. CloseArray(f) = Result(g, <<>>)
    BY <1>2, <1>4 DEF CloseArray
  <2> QED
    BY <1>3, <2>1, NothingAdded
<1>5. CASE ~(~f.inArray \/ f.parts = <<>>)
  <2>1. PICK h : h = [Used(g) EXCEPT !.parts = <<>>]
    OBVIOUS
  <2>2. IsFrame(h) /\ h.dirty = TRUE
    BY <1>3, <2>1 DEF IsFrame, Used
  <2>3. PICK out : out = AddOperator(f) \o ArrayTerms(f)
    OBVIOUS
  <2>4. CloseArray(f).f = h /\ CloseArray(f).out = out
    BY <1>2, <1>5, <2>1, <2>3 DEF CloseArray
  <2>5. IsSeq(out) /\ Built(s \o out, depth) /\ Ends(s \o out) = "term"
    BY <2>3, ArrayAdded
  <2>6. IsSeq(out) /\ Fits(s \o out, depth, h)
    BY <2>2, <2>5, SomethingAdded
  <2> QED
    BY ONLY <2>4, <2>6, Zenon DEF Extends
<1> QED
  BY <1>4, <1>5

\* The end of a text or of a group adds what is left, and then what is in the array.
LEMMA EndExtends ==
    ASSUME NEW s, NEW depth \in Nat, NEW f, Fits(s, depth, f)
    PROVE  Extends(s, depth, EndOf(f))
<1>1. PICK r : r = IF f.inQuote THEN AddTermSequence(f) ELSE AddTermSingle(f)
  OBVIOUS
<1>2. Extends(s, depth, r)
  BY <1>1, SingleExtends, SequenceExtends
<1>3. PICK q : q = CloseArray(r.f)
  OBVIOUS
<1>4. Extends(s \o r.out, depth, q)
  BY <1>2, <1>3, CloseExtends DEF Extends
<1>5. EndOf(f).f = q.f /\ EndOf(f).out = r.out \o q.out
  BY <1>1, <1>3 DEF EndOf
<1>6. IsSeq(r.out) /\ IsSeq(q.out) /\ IsSeq(s)
  BY <1>2, <1>4 DEF Extends, Fits, Built
<1>7. (s \o r.out) \o q.out = s \o (r.out \o q.out)
  <2>1. PICK t, u : t = r.out /\ u = q.out
    OBVIOUS
  <2>2. IsSeq(s) /\ IsSeq(t) /\ IsSeq(u)
    BY ONLY <1>6, <2>1, Zenon
  <2>3. Associates(s, t, u)
    BY ONLY <2>2, SeqAssociates
  <2> QED
    BY ONLY <2>1, <2>3, Zenon DEF Associates
<1>8. IsSeq(r.out \o q.out)
  BY <1>6, SeqConcat
<1> QED
  BY ONLY <1>4, <1>5, <1>7, <1>8, Zenon DEF Extends

----------------------------------------------------------------------------
(* The parser.                                                             *)

Frames(fs) ==
    /\ IsSeq(fs) /\ Len(fs) >= 1
    /\ \A k \in 1..Len(fs) : IsFrame(fs[k])

ExprInv ==
    /\ pc = "parse" => Frames(frames) /\ Fits(calls, Len(frames) - 1, Cur)
    /\ pc = "done" => Built(calls, 0) /\ Ends(calls) # "operator"

LEMMA LastFrame ==
    ASSUME NEW fs, Frames(fs)
    PROVE  /\ IsFrame(Last(fs)) /\ Len(fs) \in Nat /\ Len(fs) - 1 \in Nat
           /\ Len(fs) # 1 => Len(fs) - 1 > 0
<1>1. Len(fs) \in Nat /\ Len(fs) >= 1
  BY SeqLen DEF Frames
<1>2. /\ Len(fs) \in 1..Len(fs) /\ Len(fs) - 1 \in Nat
      /\ Len(fs) # 1 => Len(fs) - 1 > 0
  <2>1. \A n \in Nat : n >= 1 => n \in 1..n /\ n - 1 \in Nat /\ (n # 1 => n - 1 > 0)
    OBVIOUS
  <2> QED
    BY ONLY <1>1, <2>1, Zenon
<1>3. IsFrame(Last(fs))
  BY ONLY <1>2, Frames(fs), Zenon DEF Last, Frames
<1> QED
  BY ONLY <1>1, <1>2, <1>3

LEMMA FrameReplaced ==
    ASSUME NEW fs, NEW g, Frames(fs), IsFrame(g)
    PROVE  /\ Frames(Append(Front(fs), g))
           /\ Len(Append(Front(fs), g)) = Len(fs)
           /\ Last(Append(Front(fs), g)) = g
<1>1. PICK n \in Nat : n = Len(fs) - 1
  BY LastFrame
<1>2. PICK h : h = Front(fs)
  OBVIOUS
<1>3. IsSeq(h) /\ Len(h) = n /\ \A k \in 1..n : h[k] = fs[k]
  BY <1>1, <1>2, SeqFront DEF Frames
<1>4. PICK t : t = Append(h, g)
  OBVIOUS
<1>5. /\ IsSeq(t) /\ Len(t) = n + 1 /\ t[n + 1] = g
      /\ \A k \in 1..n : t[k] = fs[k]
  <2>1. Appends(Append(h, g), h, g)
    BY ONLY <1>3, AppendAppends
  <2>2. Appends(t, h, g)
    BY ONLY <1>4, <2>1
  <2> QED
    BY ONLY <1>3, <2>2, Zenon DEF Appends
<1>6. n + 1 = Len(fs)
  BY <1>1, LastFrame
<1>7. \A k \in 1..n : k \in 1..Len(fs)
  BY <1>1, <1>6
<1>8. \A k \in 1..(n + 1) : k \in 1..n \/ k = n + 1
  BY <1>1
<1>9. \A k \in 1..n : IsFrame(t[k])
  BY ONLY <1>5, <1>7, Frames(fs), Zenon DEF Frames
<1>10. \A k \in 1..(n + 1) : IsFrame(t[k])
  BY ONLY <1>5, <1>8, <1>9, IsFrame(g), Zenon
<1>11. Frames(t) /\ Len(t) = Len(fs) /\ Last(t) = g
  BY ONLY <1>1, <1>5, <1>6, <1>10 DEF Frames, Last
<1> QED
  BY ONLY <1>2, <1>4, <1>11, Zenon

LEMMA FramePushed ==
    ASSUME NEW fs, NEW g, Frames(fs), IsFrame(g)
    PROVE  /\ Frames(fs \o <<g>>)
           /\ Len(fs \o <<g>>) = Len(fs) + 1
           /\ Last(fs \o <<g>>) = g
<1>1. PICK t : t = fs \o <<g>>
  OBVIOUS
<1>2. PICK n \in Nat : n = Len(fs)
  BY LastFrame
<1>3. /\ IsSeq(t) /\ Len(t) = n + 1 /\ t[n + 1] = g
      /\ \A k \in 1..n : t[k] = fs[k]
  <2>1. IsSeq(fs)
    BY DEF Frames
  <2>2. /\ IsSeq(fs \o <<g>>) /\ Len(fs \o <<g>>) = Len(fs) + 1
        /\ \A k \in 1..Len(fs) : (fs \o <<g>>)[k] = fs[k]
        /\ (fs \o <<g>>)[Len(fs) + 1] = g
    <3>1. /\ IsSeq(Append(fs, g)) /\ Len(Append(fs, g)) = Len(fs) + 1
          /\ \A k \in 1..Len(fs) : Append(fs, g)[k] = fs[k]
          /\ Append(fs, g)[Len(fs) + 1] = g
          /\ Append(fs, g) = fs \o <<g>>
      BY ONLY <2>1, SeqAppend
    <3> QED
      BY ONLY <3>1, Zenon
  <2> QED
    BY ONLY <1>1, <1>2, <2>2, Zenon
<1>4. \A k \in 1..(n + 1) : k \in 1..n \/ k = n + 1
  OBVIOUS
<1>5. \A k \in 1..(n + 1) : IsFrame(t[k])
  BY ONLY <1>2, <1>3, <1>4, Frames(fs), IsFrame(g), Zenon DEF Frames
<1>6. Frames(t) /\ Len(t) = n + 1 /\ Last(t) = g
  BY ONLY <1>2, <1>3, <1>5 DEF Frames, Last
<1> QED
  BY ONLY <1>1, <1>2, <1>6, Zenon

LEMMA FramePopped ==
    ASSUME NEW fs, Frames(fs), Len(fs) # 1
    PROVE  Frames(Front(fs)) /\ Len(Front(fs)) = Len(fs) - 1
<1>0. Len(fs) - 1 \in Nat /\ Len(fs) - 1 > 0
  BY LastFrame
<1>1. PICK n \in Nat : n = Len(fs) - 1 /\ n >= 1
  BY ONLY <1>0
<1>2. PICK h : h = Front(fs)
  OBVIOUS
<1>3. IsSeq(h) /\ Len(h) = n /\ \A k \in 1..n : h[k] = fs[k]
  BY <1>1, <1>2, SeqFront DEF Frames
<1>4. \A k \in 1..n : k \in 1..Len(fs)
  BY <1>1, LastFrame
<1>5. \A k \in 1..n : IsFrame(h[k])
  BY ONLY <1>3, <1>4, Frames(fs), Zenon DEF Frames
<1>6. Frames(h)
  BY ONLY <1>1, <1>3, <1>5 DEF Frames
<1> QED
  BY ONLY <1>1, <1>2, <1>3, <1>6

\* A turn of the loop that is not the end of a text and opens no group.
LEMMA TurnFits ==
    ASSUME NEW r, Frames(frames), Extends(calls, Len(frames) - 1, r), Turn(r)
    PROVE  Frames(frames') /\ Fits(calls', Len(frames') - 1, Last(frames'))
<1>1. PICK g : g = [r.f EXCEPT !.i = @ + 1]
  OBVIOUS
<1>2. Fits(calls \o r.out, Len(frames) - 1, r.f) /\ IsFrame(r.f)
  BY DEF Extends, Fits
<1>3. IsFrame(g) /\ g.dirty = r.f.dirty
  BY <1>1, <1>2 DEF IsFrame
<1>4. Fits(calls \o r.out, Len(frames) - 1, g)
  BY <1>2, <1>3, NothingAdded
<1>5. frames' = Append(Front(frames), g) /\ calls' = calls \o r.out
  BY <1>1 DEF Turn
<1>6. Frames(frames') /\ Len(frames') = Len(frames) /\ Last(frames') = g
  BY ONLY <1>3, <1>5, Frames(frames), FrameReplaced
<1> QED
  BY ONLY <1>4, <1>5, <1>6, Zenon

LEMMA InitExpr == Init => ExprInv
<1> SUFFICES ASSUME Init PROVE ExprInv
  OBVIOUS
<1>1. PICK f : f = Frame(input)
  OBVIOUS
<1>2. IsFrame(f) /\ f.dirty = FALSE
  BY <1>1 DEF Frame, IsFrame
<1>3. frames = <<f>> /\ calls = <<>> /\ pc = "parse"
  BY <1>1 DEF Init
<1>4. IsSeq(frames) /\ Len(frames) = 1 /\ frames[1] = f
  BY ONLY <1>3, SeqOne
<1>5. Frames(frames) /\ Last(frames) = f /\ Len(frames) - 1 = 0
  <2>1. \A k \in 1..1 : k = 1
    OBVIOUS
  <2> QED
    BY ONLY <1>2, <1>4, <2>1 DEF Frames, Last
<1>6. Fits(<<>>, 0, f)
  BY <1>2, BuiltNone DEF Fits
<1> QED
  BY ONLY <1>3, <1>5, <1>6 DEF ExprInv, Cur

LEMMA NextExpr == ExprInv /\ [Next]_vars => ExprInv'
<1> SUFFICES ASSUME ExprInv, [Next]_vars PROVE ExprInv'
  OBVIOUS
<1>1. CASE UNCHANGED vars
  BY <1>1 DEF vars, ExprInv, Cur
<1>2. CASE Fail
  BY <1>2 DEF Fail, ExprInv
<1>3. ASSUME pc = "parse"
      PROVE  /\ Frames(frames) /\ Fits(calls, Len(frames) - 1, Cur)
             /\ IsFrame(Cur) /\ Len(frames) \in Nat /\ Len(frames) - 1 \in Nat
  BY <1>3, LastFrame DEF ExprInv, Cur
<1>4. ASSUME pc = "parse", NEW r, Extends(calls, Len(frames) - 1, r), Turn(r)
      PROVE  ExprInv'
  <2>1. pc' = "parse"
    BY <1>4 DEF Turn
  <2>2. Frames(frames') /\ Fits(calls', Len(frames') - 1, Last(frames'))
    BY <1>3, <1>4, TurnFits
  <2> QED
    BY ONLY <2>1, <2>2 DEF ExprInv, Cur
<1>5. ASSUME pc = "parse", NEW g, IsFrame(g), g.dirty = Cur.dirty, Turn(Result(g, <<>>))
      PROVE  ExprInv'
  BY <1>3, <1>4, <1>5, NothingAdded
<1>6. CASE OpenGroup
  <2>1. pc = "parse" /\ pc' = pc
    BY <1>6 DEF OpenGroup, At
  <2>2. PICK j : j = GroupEnd(Cur.text, Cur.i)
    OBVIOUS
  <2>3. PICK g : g = [Cur EXCEPT !.i = j + 1, !.operator = ""]
    OBVIOUS
  <2>4. PICK h : h = Frame(SubSeq(Cur.text, Cur.i + 1, j - 1))
    OBVIOUS
  <2>5. PICK p : p = Call("(", <<>>, <<>>) /\ p.call = "("
    BY CallNames
  <2>6. /\ frames' = Append(Front(frames), g) \o <<h>>
        /\ calls' = calls \o AddOperator(Cur) \o <<p>>
    BY <1>6, <2>2, <2>3, <2>4, <2>5 DEF OpenGroup
  <2>7. IsFrame(g)
    BY <1>3, <2>1, <2>3 DEF IsFrame
  <2>8. IsFrame(h) /\ h.dirty = FALSE
    BY <2>4 DEF Frame, IsFrame
  <2>9. PICK fs : fs = Append(Front(frames), g)
    OBVIOUS
  <2>10. Frames(fs) /\ Len(fs) = Len(frames)
    BY <1>3, <2>1, <2>7, <2>9, FrameReplaced
  <2>11. Frames(frames') /\ Len(frames') = Len(frames) + 1 /\ Last(frames') = h
    BY ONLY <2>6, <2>8, <2>9, <2>10, FramePushed
  <2>12. PICK s : s = calls \o AddOperator(Cur)
    OBVIOUS
  <2>13. Built(s, Len(frames) - 1) /\ Ends(s) # "term"
    BY <1>3, <2>1, <2>12, OperatorAdded
  <2>14. calls' = Append(s, p)
    BY <2>6, <2>12, <2>13, SeqAppend DEF Built
  <2>15. Built(calls', Len(frames) - 1 + 1) /\ Ends(calls') = "open"
    BY <1>3, <2>1, <2>5, <2>13, <2>14, BuiltOpen
  <2>16. Len(frames) - 1 + 1 = Len(frames') - 1
    BY <1>3, <2>1, <2>11
  <2> QED
    BY ONLY <2>1, <2>8, <2>11, <2>15, <2>16 DEF ExprInv, Cur, Fits
<1>7. ASSUME pc = "parse", Unescape \/ Keep PROVE ExprInv'
  <2>1. CASE Unescape
    <3>1. PICK g : g = [Cur EXCEPT !.buf = Append(Front(@), B)]
      OBVIOUS
    <3>2. IsFrame(g) /\ g.dirty = Cur.dirty
      BY <1>3, <1>7, <3>1 DEF IsFrame
    <3>3. Turn(Result(g, <<>>))
      BY <2>1, <3>1 DEF Unescape
    <3> QED
      BY <1>5, <1>7, <3>2, <3>3
  <2>2. CASE Keep
    <3>1. PICK g : g = [Cur EXCEPT !.buf = Append(@, B)]
      OBVIOUS
    <3>2. IsFrame(g) /\ g.dirty = Cur.dirty
      BY <1>3, <1>7, <3>1 DEF IsFrame
    <3>3. Turn(Result(g, <<>>))
      BY <2>2, <3>1 DEF Keep
    <3> QED
      BY <1>5, <1>7, <3>2, <3>3
  <2> QED
    BY <1>7, <2>1, <2>2
<1>8. CASE BracketOpens
  <2>1. pc = "parse"
    BY <1>8 DEF BracketOpens, At
  <2>2. PICK g : g = [Cur EXCEPT !.inArray = TRUE]
    OBVIOUS
  <2>3. IsFrame(g) /\ g.dirty = Cur.dirty
    BY <1>3, <2>1, <2>2 DEF IsFrame
  <2>4. Unescape \/ Fail \/ Turn(Result(g, <<>>))
    BY <1>8, <2>2 DEF BracketOpens
  <2> QED
    BY <1>2, <1>5, <1>7, <2>1, <2>3, <2>4
<1>9. CASE BracketCloses
  <2>1. pc = "parse" /\ Cur.inArray
    BY <1>9 DEF BracketCloses, At
  <2>2. PICK g : g = AddTermSingle(Cur).f
    OBVIOUS
  <2>3. Fits(calls, Len(frames) - 1, g)
    BY <1>3, <2>1, <2>2, SingleExtends
  <2>4. PICK r : r = CloseArray(g)
    OBVIOUS
  <2>5. Extends(calls, Len(frames) - 1, r)
    BY <1>3, <2>1, <2>3, <2>4, CloseExtends
  <2>6. Unescape \/ Fail \/ Turn(r)
    BY <1>9, <2>2, <2>4 DEF BracketCloses
  <2> QED
    BY <1>2, <1>4, <1>7, <2>1, <2>5, <2>6
<1>10. CASE Space
  <2>1. pc = "parse"
    BY <1>10 DEF Space, At
  <2>2. PICK r : r = AddTermSingle(Cur)
    OBVIOUS
  <2>3. Extends(calls, Len(frames) - 1, r)
    BY <1>3, <2>1, <2>2, SingleExtends
  <2>4. Keep \/ Turn(r)
    BY <1>10, <2>2 DEF Space
  <2> QED
    BY <1>4, <1>7, <2>1, <2>3, <2>4
<1>11. CASE Quote
  <2>1. pc = "parse"
    BY <1>11 DEF Quote, At
  <2>2. PICK g : g = [Cur EXCEPT !.inQuote = TRUE]
    OBVIOUS
  <2>3. IsFrame(g) /\ g.dirty = Cur.dirty
    BY <1>3, <2>1, <2>2 DEF IsFrame
  <2>4. PICK h : h = [Cur EXCEPT !.inQuote = FALSE]
    OBVIOUS
  <2>5. IsFrame(h) /\ h.dirty = Cur.dirty
    BY <1>3, <2>1, <2>4 DEF IsFrame
  <2>6. Fits(calls, Len(frames) - 1, h)
    BY <1>3, <2>1, <2>5, NothingAdded
  <2>7. PICK r : r = AddTermSequence(h)
    OBVIOUS
  <2>8. Extends(calls, Len(frames) - 1, r)
    BY <1>3, <2>1, <2>6, <2>7, SequenceExtends
  <2>9. Unescape \/ Turn(Result(g, <<>>)) \/ Turn(r)
    BY <1>11, <2>2, <2>4, <2>7 DEF Quote
  <2> QED
    BY <1>4, <1>5, <1>7, <2>1, <2>3, <2>8, <2>9
<1>12. CASE Colon
  <2>1. pc = "parse"
    BY <1>12 DEF Colon, At
  <2>2. PICK g : g = [Cur EXCEPT !.field = Cur.buf, !.buf = <<>>]
    OBVIOUS
  <2>3. IsFrame(g) /\ g.dirty = Cur.dirty
    BY <1>3, <2>1, <2>2 DEF IsFrame
  <2>4. Unescape \/ Fail \/ Turn(Result(g, <<>>))
    BY <1>12, <2>2 DEF Colon
  <2> QED
    BY <1>2, <1>5, <1>7, <2>1, <2>3, <2>4
<1>13. CASE Other
  BY <1>7, <1>13 DEF Other
<1>14. CASE End
  <2>1. pc = "parse"
    BY <1>14 DEF End
  <2>2. PICK r : r = EndOf(Cur)
    OBVIOUS
  <2>3. Extends(calls, Len(frames) - 1, r)
    BY <1>3, <2>1, <2>2, EndExtends
  <2>4. PICK s : s = calls \o r.out
    OBVIOUS
  <2>5. Built(s, Len(frames) - 1) /\ Ends(s) # "operator"
    BY <2>3, <2>4 DEF Extends, Fits
  <2>6. CASE Len(frames) = 1 /\ calls' = s /\ pc' = "done"
    <3>1. Len(frames) - 1 = 0
      BY <2>6
    <3> QED
      BY ONLY <2>5, <2>6, <3>1 DEF ExprInv
  <2>7. CASE /\ Len(frames) # 1 /\ pc' = pc
             /\ calls' = s \o <<Call(")", <<>>, <<>>)>>
             /\ frames' = Append(Front(Front(frames)), AfterGroup(Last(Front(frames))))
    <3>1. PICK p : p = Call(")", <<>>, <<>>) /\ p.call = ")"
      BY CallNames
    <3>2. calls' = Append(s, p)
      BY <2>5, <2>7, <3>1, SeqAppend DEF Built
    <3>3. Len(frames) - 1 > 0
      <4>1. Frames(frames)
        BY <1>3, <2>1
      <4> QED
        BY ONLY <2>7, <4>1, LastFrame
    <3>4. Built(calls', Len(frames) - 1 - 1) /\ Ends(calls') = "term"
      BY <1>3, <2>1, <2>5, <3>1, <3>2, <3>3, BuiltClose
    <3>5. PICK fs : fs = Front(frames)
      OBVIOUS
    <3>6. Frames(fs) /\ Len(fs) = Len(frames) - 1
      BY <1>3, <2>1, <2>7, <3>5, FramePopped
    <3>7. PICK g : g = AfterGroup(Last(fs))
      OBVIOUS
    <3>8. IsFrame(g) /\ g.dirty = TRUE
      <4>1. PICK f : f = Last(fs) /\ IsFrame(f)
        BY <3>6, LastFrame
      <4> QED
        BY <3>7, <4>1 DEF AfterGroup, IsFrame
    <3>9. frames' = Append(Front(fs), g)
      BY ONLY <2>7, <3>5, <3>7
    <3>10. Frames(frames') /\ Len(frames') = Len(fs) /\ Last(frames') = g
      BY ONLY <3>6, <3>8, <3>9, FrameReplaced
    <3> QED
      BY ONLY <2>1, <2>7, <3>4, <3>6, <3>8, <3>10 DEF ExprInv, Cur, Fits
  <2>8. Fail \/ (Len(frames) = 1 /\ calls' = s /\ pc' = "done")
        \/ (/\ Len(frames) # 1 /\ pc' = pc
            /\ calls' = s \o <<Call(")", <<>>, <<>>)>>
            /\ frames' = Append(Front(Front(frames)), AfterGroup(Last(Front(frames)))))
    BY <1>14, <2>2, <2>4 DEF End
  <2> QED
    BY <1>2, <2>6, <2>7, <2>8
<1> QED
  BY <1>1, <1>6, <1>8, <1>9, <1>10, <1>11, <1>12, <1>13, <1>14 DEF Next

\* Whatever is parsed, the calls so far lead to SQL that a condition, or after an
\* operator one more condition, makes valid.
THEOREM ExprInvariant == Spec => []ExprInv
  BY InitExpr, NextExpr, PTL DEF Spec

----------------------------------------------------------------------------
(* The SQL builder.                                                        *)

LEMMA NatInductive ==
    ASSUME NEW D, 0 \in D, \A n \in Nat : n \in D => n + 1 \in D
    PROVE  \A n \in Nat : n \in D
<1> DEFINE Less == OpToRel(<, Nat)
           Out  == {n \in Nat : n \notin D}
<1>1. \A m, n \in Nat : m < n => <<m, n>> \in Less
  BY DEF OpToRel
<1>2. IsWellFoundedOn(Less, Nat)
  BY NatLessThanWellFounded
<1> HIDE DEF Less
<1>3. SUFFICES ASSUME Out # {} PROVE FALSE
  OBVIOUS
<1>4. PICK n \in Out : \A m \in Out : ~(<<m, n>> \in Less)
  BY <1>2, <1>3, WFMin
<1>5. n \in Nat /\ n - 1 \in Nat /\ n - 1 < n /\ (n - 1) + 1 = n
  BY <1>4
<1>6. n - 1 \notin Out
  BY <1>1, <1>4, <1>5
<1> QED
  BY <1>4, <1>5, <1>6

\* Builder(s)[i] is the builder after the first i calls.
Adds(s, b, n) ==
    b = [i \in 0..n |-> IF i = 0 THEN SqlStart ELSE SqlAdd(b[i - 1], s[i])]
Builder(s) == CHOOSE b : Adds(s, b, Len(s))

LEMMA BuilderIs ==
    ASSUME NEW s
    PROVE  Sql(s) = Builder(s)[Len(s)].sql
  BY DEF Sql, Builder, Adds

LEMMA BuilderAdds ==
    ASSUME NEW s, Len(s) \in Nat
    PROVE  Adds(s, Builder(s), Len(s))
<1> DEFINE D == {n \in Nat : \E b : Adds(s, b, n)}
<1>1. 0 \in D
  <2>1. PICK b : b = [i \in 0..0 |-> SqlStart]
    OBVIOUS
  <2>2. [i \in 0..0 |-> SqlStart] =
        [i \in 0..0 |-> IF i = 0 THEN SqlStart ELSE SqlAdd(b[i - 1], s[i])]
    OBVIOUS
  <2> QED
    BY <2>1, <2>2 DEF Adds
<1>2. ASSUME NEW n \in Nat, n \in D PROVE n + 1 \in D
  <2>1. PICK b : Adds(s, b, n)
    BY <1>2
  <2>2. PICK x : x = SqlAdd(b[n], s[n + 1])
    OBVIOUS
  <2>3. PICK c : c = [i \in 0..(n + 1) |-> IF i = n + 1 THEN x ELSE b[i]]
    OBVIOUS
  <2>4. \A i \in 0..(n + 1) : c[i] = IF i = n + 1 THEN x ELSE b[i]
    BY <2>3
  <2>5. \A i \in 0..n : b[i] = IF i = 0 THEN SqlStart ELSE SqlAdd(b[i - 1], s[i])
    BY <2>1 DEF Adds
  <2>6. ASSUME NEW i \in 0..(n + 1)
        PROVE  c[i] = IF i = 0 THEN SqlStart ELSE SqlAdd(c[i - 1], s[i])
    <3>1. CASE i = n + 1
      <4>1. i # 0 /\ i - 1 = n /\ n \in 0..(n + 1) /\ n # n + 1
        BY <3>1
      <4>2. c[i - 1] = b[n]
        BY ONLY <2>4, <4>1
      <4> QED
        BY ONLY <2>2, <2>4, <3>1, <4>1, <4>2, <2>6
    <3>2. CASE i # n + 1 /\ i # 0
      <4>1. i \in 0..n /\ i - 1 \in 0..(n + 1) /\ i - 1 # n + 1
        BY <3>2
      <4>2. c[i] = b[i] /\ c[i - 1] = b[i - 1]
        BY ONLY <2>4, <2>6, <3>2, <4>1
      <4> QED
        BY ONLY <2>5, <3>2, <4>1, <4>2
    <3>3. CASE i = 0
      <4>1. i \in 0..n /\ i # n + 1
        BY <3>3
      <4> QED
        BY ONLY <2>4, <2>5, <2>6, <3>3, <4>1
    <3> QED
      BY <3>1, <3>2, <3>3
  <2>7. PICK d : d = [i \in 0..(n + 1) |->
                        IF i = 0 THEN SqlStart ELSE SqlAdd(c[i - 1], s[i])]
    OBVIOUS
  <2>8. c = d
    <3>1. \A i \in 0..(n + 1) : c[i] = d[i]
      BY ONLY <2>6, <2>7
    <3> QED
      BY ONLY <2>3, <2>7, <3>1
  <2>9. Adds(s, c, n + 1)
    BY ONLY <2>7, <2>8, Zenon DEF Adds
  <2> QED
    BY <2>9
<1> HIDE DEF D
<1>3. \A n \in Nat : n \in D
  BY ONLY <1>1, <1>2, NatInductive
<1>4. \E b : Adds(s, b, Len(s))
  BY <1>3 DEF D
<1> QED
  BY ONLY <1>4, Zenon DEF Builder

LEMMA SqlAddIs ==
    ASSUME NEW b, NEW c
    PROVE  /\ c.call = "(" =>
                SqlAdd(b, c) = [sql |-> <<>>, groups |-> Append(b.groups, Append(b.sql, c))]
           /\ c.call = ")" => SqlAdd(b, c) = SqlGroupEnd(b, c)
           /\ c.call \notin {"(", ")"} /\ ~(c.call \in Operators /\ b.sql = <<>>) =>
                SqlAdd(b, c) = [b EXCEPT !.sql = Append(@, c)]
  BY DEF SqlAdd, Operators

\* The part of a sequence after m elements and up to n.
LEMMA Part ==
    ASSUME NEW s, IsSeq(s), NEW m \in Nat, NEW n \in Nat, m <= n, n <= Len(s)
    PROVE  /\ IsSeq(SubSeq(s, m + 1, n)) /\ Len(SubSeq(s, m + 1, n)) = n - m
           /\ SubSeq(s, m + 1, n) = <<>> => m = n
<1> DEFINE U == {s[i] : i \in DOMAIN s}
<1>1. s \in Seq(U) /\ Len(s) \in Nat /\ \A i \in 1..Len(s) : s[i] \in U
  BY SeqLen DEF IsSeq
<1> HIDE DEF U
<1>2. m + 1 \in Int /\ n \in Int /\ \A i \in (m + 1)..n : i \in 1..Len(s)
  BY <1>1
<1>3. \A i \in (m + 1)..n : s[i] \in U
  BY <1>1, <1>2
<1>4. PICK t : t = SubSeq(s, m + 1, n)
  OBVIOUS
<1>5. t \in Seq(U) /\ Len(t) = IF m + 1 <= n THEN n - (m + 1) + 1 ELSE 0
  BY <1>2, <1>3, <1>4, SubSeqProperties
<1>6. Len(t) = n - m
  BY <1>5
<1>7. t = <<>> => m = n
  BY ONLY <1>6, SeqNone, m \in Nat, n \in Nat
<1>8. IsSeq(t)
  BY <1>5, SeqIsSeq
<1> QED
  BY ONLY <1>4, <1>6, <1>7, <1>8

LEMMA PartGrows ==
    ASSUME NEW s, IsSeq(s), NEW m \in Nat, NEW n \in Nat, m <= n, n < Len(s)
    PROVE  Append(SubSeq(s, m + 1, n), s[n + 1]) = SubSeq(s, m + 1, n + 1)
<1> DEFINE U == {s[i] : i \in DOMAIN s}
<1>1. s \in Seq(U) /\ Len(s) \in Nat
  BY SeqLen DEF IsSeq
<1> HIDE DEF U
<1>2. m + 1 \in 1..Len(s) /\ n + 1 \in (m + 1)..Len(s) /\ (n + 1) - 1 = n
  BY <1>1
<1>3. SubSeq(s, m + 1, n + 1) = SubSeq(s, m + 1, (n + 1) - 1) \o <<s[n + 1]>>
  BY <1>1, <1>2, SubSeqRecursiveSecond
<1>4. n <= Len(s)
  BY <1>1
<1>5. IsSeq(SubSeq(s, m + 1, n))
  BY <1>4, Part
<1>6. Append(SubSeq(s, m + 1, n), s[n + 1]) = SubSeq(s, m + 1, n) \o <<s[n + 1]>>
  BY ONLY <1>5, SeqAppend
<1> QED
  BY ONLY <1>2, <1>3, <1>6

LEMMA PartJoined ==
    ASSUME NEW s, IsSeq(s), NEW m \in Nat, NEW k \in Nat, NEW n \in Nat,
           m <= k, k <= n, n <= Len(s)
    PROVE  SubSeq(s, m + 1, k) \o SubSeq(s, k + 1, n) = SubSeq(s, m + 1, n)
<1> DEFINE U == {s[i] : i \in DOMAIN s}
<1>1. s \in Seq(U) /\ Len(s) \in Nat
  BY SeqLen DEF IsSeq
<1> HIDE DEF U
<1>2. m + 1 \in 1..(Len(s) + 1) /\ k \in ((m + 1) - 1)..Len(s) /\ n \in k..Len(s)
  BY <1>1
<1> QED
  BY ONLY <1>1, <1>2, ConcatAdjacentSubSeq

LEMMA SeqFromFunction ==
    ASSUME NEW d \in Nat, NEW g, g = [k \in 1..d |-> g[k]]
    PROVE  IsSeq(g) /\ Len(g) = d
<1> DEFINE U == {g[k] : k \in 1..d}
<1>1. g \in [1..d -> U]
  OBVIOUS
<1> HIDE DEF U
<1>2. g \in Seq(U) /\ Len(g) = d
  BY <1>1
<1> QED
  BY <1>2, SeqIsSeq

\* After i calls the text is what came after the last group was opened, and each
\* open group keeps what came before it: p[k] is where the k-th was opened.
Groups(s, p, d) == [k \in 1..d |-> SubSeq(s, p[k - 1] + 1, p[k])]

Opened(s, p, d, i) ==
    /\ d \in Nat
    /\ p \in [0..d -> 0..i] /\ p[0] = 0
    /\ \A k \in 1..d : p[k - 1] < p[k] /\ s[p[k]].call = "("

BuilderHolds(s, b, d, i) ==
    \E p : /\ Opened(s, p, d, i)
           /\ b = [sql |-> SubSeq(s, p[d] + 1, i), groups |-> Groups(s, p, d)]

LEMMA GroupsIs ==
    ASSUME NEW s, NEW p, NEW d \in Nat
    PROVE  /\ IsSeq(Groups(s, p, d)) /\ Len(Groups(s, p, d)) = d
           /\ \A k \in 1..d : Groups(s, p, d)[k] = SubSeq(s, p[k - 1] + 1, p[k])
<1>1. PICK g : g = Groups(s, p, d)
  OBVIOUS
<1>2. g = [k \in 1..d |-> g[k]] /\ \A k \in 1..d : g[k] = SubSeq(s, p[k - 1] + 1, p[k])
  BY <1>1 DEF Groups
<1>3. IsSeq(g) /\ Len(g) = d
  BY <1>2, SeqFromFunction
<1> QED
  BY ONLY <1>1, <1>2, <1>3, Zenon

LEMMA BuilderOpens ==
    ASSUME NEW s, IsSeq(s), NEW i \in Nat, i < Len(s), NEW d, NEW b,
           BuilderHolds(s, b, d, i), s[i + 1].call = "("
    PROVE  BuilderHolds(s, SqlAdd(b, s[i + 1]), d + 1, i + 1)
<1>1. PICK p : /\ Opened(s, p, d, i)
               /\ b = [sql |-> SubSeq(s, p[d] + 1, i), groups |-> Groups(s, p, d)]
  BY DEF BuilderHolds
<1>2. /\ d \in Nat /\ p \in [0..d -> 0..i] /\ p[0] = 0
      /\ \A k \in 1..d : p[k - 1] < p[k] /\ s[p[k]].call = "("
  BY <1>1 DEF Opened
<1>3. PICK q : q = [k \in 0..(d + 1) |-> IF k = d + 1 THEN i + 1 ELSE p[k]]
  OBVIOUS
<1>4. /\ \A k \in 0..d : q[k] = p[k] /\ q[k] \in 0..i
      /\ q[d + 1] = i + 1
  <2>1. \A k \in 0..d : k \in 0..(d + 1) /\ k # d + 1 /\ p[k] \in 0..i
    BY <1>2
  <2>2. d + 1 \in 0..(d + 1)
    BY <1>2
  <2> QED
    BY ONLY <1>3, <2>1, <2>2
<1>5. \A k \in 0..(d + 1) : k \in 0..d \/ k = d + 1
  BY <1>2
<1>6. q \in [0..(d + 1) -> 0..(i + 1)]
  <2>1. \A k \in 0..(d + 1) : q[k] \in 0..(i + 1)
    <3>1. \A j \in 0..i : j \in 0..(i + 1)
      OBVIOUS
    <3>2. i + 1 \in 0..(i + 1)
      OBVIOUS
    <3> QED
      BY ONLY <1>4, <1>5, <3>1, <3>2, Zenon
  <2> QED
    BY ONLY <1>3, <2>1
<1>7. Opened(s, q, d + 1, i + 1)
  <2>1. q[0] = 0
    BY <1>2, <1>4
  <2>2. ASSUME NEW k \in 1..(d + 1) PROVE q[k - 1] < q[k] /\ s[q[k]].call = "("
    <3>1. CASE k \in 1..d
      <4>1. k \in 0..d /\ k - 1 \in 0..d
        BY <1>2, <3>1
      <4> QED
        BY ONLY <1>2, <1>4, <3>1, <4>1
    <3>2. CASE k = d + 1
      <4>1. k - 1 = d /\ d \in 0..d
        BY <1>2, <3>2
      <4>2. q[k - 1] \in 0..i /\ q[k] = i + 1
        BY ONLY <1>4, <3>2, <4>1
      <4>3. q[k - 1] < q[k]
        BY <4>2
      <4> QED
        BY ONLY <4>2, <4>3, s[i + 1].call = "("
    <3> QED
      BY <1>2, <2>2, <3>1, <3>2
  <2>3. d + 1 \in Nat
    BY <1>2
  <2> QED
    BY ONLY <1>6, <2>1, <2>2, <2>3 DEF Opened
<1>8. PICK x : x = SubSeq(s, p[d] + 1, i)
  OBVIOUS
<1>9. p[d] \in Nat /\ p[d] <= i /\ Len(s) \in Nat /\ i <= Len(s)
  <2>1. p[d] \in 0..i /\ Len(s) \in Nat
    BY <1>2, SeqLen
  <2> QED
    BY <2>1
<1>10. Append(x, s[i + 1]) = SubSeq(s, p[d] + 1, i + 1)
  BY <1>8, <1>9, PartGrows
<1>11. PICK g, h : g = Groups(s, p, d) /\ h = Groups(s, q, d + 1)
  OBVIOUS
<1>12. Append(g, Append(x, s[i + 1])) = h
  <2>1. /\ IsSeq(g) /\ Len(g) = d
        /\ \A k \in 1..d : g[k] = SubSeq(s, p[k - 1] + 1, p[k])
    BY <1>2, <1>11, GroupsIs
  <2>2. /\ IsSeq(h) /\ Len(h) = d + 1
        /\ \A k \in 1..(d + 1) : h[k] = SubSeq(s, q[k - 1] + 1, q[k])
    <3>1. d + 1 \in Nat
      BY <1>2
    <3> QED
      BY <1>11, <3>1, GroupsIs
  <2>a. PICK y : y = Append(x, s[i + 1])
    OBVIOUS
  <2>3. PICK t : t = Append(g, y)
    OBVIOUS
  <2>4. /\ IsSeq(t) /\ Len(t) = d + 1 /\ t[d + 1] = y
        /\ \A k \in 1..d : t[k] = g[k]
    <3>1. Appends(Append(g, y), g, y)
      BY ONLY <2>1, AppendAppends
    <3>2. Appends(t, g, y)
      BY ONLY <2>3, <3>1
    <3> QED
      BY ONLY <2>1, <3>2, Zenon DEF Appends
  <2>5. ASSUME NEW k \in 1..(d + 1) PROVE t[k] = h[k]
    <3>1. CASE k \in 1..d
      <4>1. k \in 0..d /\ k - 1 \in 0..d
        BY <1>2, <3>1
      <4>2. q[k] = p[k] /\ q[k - 1] = p[k - 1]
        BY ONLY <1>4, <4>1
      <4> QED
        BY ONLY <2>1, <2>2, <2>4, <2>5, <3>1, <4>2
    <3>2. CASE k = d + 1
      <4>1. k - 1 = d /\ d \in 0..d
        BY <1>2, <3>2
      <4>2. q[k] = i + 1 /\ q[k - 1] = p[d]
        BY ONLY <1>4, <3>2, <4>1
      <4> QED
        BY ONLY <1>10, <2>2, <2>a, <2>4, <2>5, <3>2, <4>2
    <3> QED
      BY <1>2, <2>5, <3>1, <3>2
  <2>6. t = h
    BY ONLY <2>2, <2>4, <2>5, SeqSame
  <2> QED
    BY ONLY <2>a, <2>3, <2>6
<1>13. SubSeq(s, q[d + 1] + 1, i + 1) = <<>>
  <2>1. q[d + 1] + 1 \in Int /\ i + 1 \in Int /\ i + 1 < q[d + 1] + 1
    BY <1>4
  <2> QED
    BY ONLY <2>1, SubSeqEmpty
<1>14. SqlAdd(b, s[i + 1]) = [sql |-> <<>>, groups |-> Append(g, Append(x, s[i + 1]))]
  <2>1. b.sql = x /\ b.groups = g
    BY <1>1, <1>8, <1>11
  <2> QED
    BY <2>1, SqlAddIs
<1> QED
  BY ONLY <1>7, <1>11, <1>12, <1>13, <1>14, Zenon DEF BuilderHolds

LEMMA BuilderCloses ==
    ASSUME NEW s, IsSeq(s), NEW i \in Nat, i < Len(s), NEW d, NEW b,
           BuilderHolds(s, b, d, i), s[i + 1].call = ")", d > 0
    PROVE  BuilderHolds(s, SqlAdd(b, s[i + 1]), d - 1, i + 1)
<1>1. PICK p : /\ Opened(s, p, d, i)
               /\ b = [sql |-> SubSeq(s, p[d] + 1, i), groups |-> Groups(s, p, d)]
  BY DEF BuilderHolds
<1>2. /\ d \in Nat /\ p \in [0..d -> 0..i] /\ p[0] = 0
      /\ \A k \in 1..d : p[k - 1] < p[k] /\ s[p[k]].call = "("
  BY <1>1 DEF Opened
<1>3. PICK e \in Nat : e = d - 1 /\ d = e + 1
  BY <1>2
<1>4. PICK q : q = [k \in 0..e |-> p[k]]
  OBVIOUS
<1>5. \A k \in 0..e : k \in 0..d /\ q[k] = p[k] /\ p[k] \in 0..i
  <2>1. \A k \in 0..e : k \in 0..d
    BY <1>3
  <2> QED
    BY <1>2, <1>4, <2>1
<1>6. Opened(s, q, e, i + 1)
  <2>1. \A j \in 0..i : j \in 0..(i + 1)
    OBVIOUS
  <2>2. q \in [0..e -> 0..(i + 1)]
    BY ONLY <1>4, <1>5, <2>1
  <2>3. 0 \in 0..e
    BY <1>3
  <2>4. ASSUME NEW k \in 1..e PROVE q[k - 1] < q[k] /\ s[q[k]].call = "("
    <3>1. k \in 1..d /\ k \in 0..e /\ k - 1 \in 0..e
      BY <1>3
    <3> QED
      BY ONLY <1>2, <1>5, <3>1
  <2> QED
    BY ONLY <1>2, <1>3, <1>5, <2>2, <2>3, <2>4 DEF Opened
<1>7. /\ p[e] \in Nat /\ p[d] \in Nat /\ p[e] <= p[d] /\ p[d] <= i
      /\ Len(s) \in Nat /\ i <= Len(s)
  <2>1. e \in 0..d /\ d \in 0..d /\ d \in 1..d /\ d - 1 = e
    BY <1>3
  <2>2. p[e] \in 0..i /\ p[d] \in 0..i /\ p[e] < p[d]
    BY ONLY <1>2, <2>1
  <2>3. Len(s) \in Nat
    BY SeqLen
  <2>4. i <= Len(s)
    BY <2>3
  <2> QED
    BY ONLY <2>2, <2>3, <2>4, i \in Nat
<1>8. PICK x : x = SubSeq(s, p[d] + 1, i)
  OBVIOUS
<1>9. PICK g : g = Groups(s, p, d)
  OBVIOUS
<1>10. /\ IsSeq(g) /\ Len(g) = d
       /\ \A k \in 1..d : g[k] = SubSeq(s, p[k - 1] + 1, p[k])
  BY ONLY <1>2, <1>9, GroupsIs, Zenon
<1>11. g # <<>>
  <2>1. d # 0
    BY <1>3
  <2> QED
    BY ONLY <1>10, <2>1, SeqNone
<1>12. Last(g) = SubSeq(s, p[e] + 1, p[d])
  <2>1. d \in 1..d /\ d - 1 = e
    BY <1>3
  <2>2. g[d] = SubSeq(s, p[d - 1] + 1, p[d])
    BY ONLY <1>10, <2>1, Zenon
  <2> QED
    BY ONLY <1>10, <2>1, <2>2, Zenon DEF Last
<1>13. Last(g) \o x = SubSeq(s, p[e] + 1, i)
  <2>0. PICK m, n \in Nat : m = p[e] /\ n = p[d]
    BY ONLY <1>7
  <2>1. SubSeq(s, m + 1, n) \o SubSeq(s, n + 1, i) = SubSeq(s, m + 1, i)
    <3>1. m <= n /\ n <= i /\ i <= Len(s)
      BY ONLY <1>7, <2>0
    <3> QED
      BY ONLY <3>1, IsSeq(s), i \in Nat, m \in Nat, n \in Nat, PartJoined
  <2> QED
    BY ONLY <1>8, <1>12, <2>0, <2>1, Zenon
<1>14. Append(Last(g) \o x, s[i + 1]) = SubSeq(s, p[e] + 1, i + 1)
  <2>1. p[e] <= i
    BY ONLY <1>7, i \in Nat
  <2>2. Append(SubSeq(s, p[e] + 1, i), s[i + 1]) = SubSeq(s, p[e] + 1, i + 1)
    BY <1>7, <2>1, PartGrows
  <2> QED
    BY ONLY <1>13, <2>2, Zenon
<1>15. Front(g) = Groups(s, q, e)
  <2>1. PICK t : t = Front(g)
    OBVIOUS
  <2>2. PICK h : h = Groups(s, q, e)
    OBVIOUS
  <2>3. /\ IsSeq(h) /\ Len(h) = e
        /\ \A k \in 1..e : h[k] = SubSeq(s, q[k - 1] + 1, q[k])
    BY <1>3, <2>2, GroupsIs
  <2>4. IsSeq(t) /\ Len(t) = e /\ \A k \in 1..e : t[k] = g[k]
    <3>1. Len(g) >= 1 /\ Len(g) - 1 = e
      BY <1>3, <1>10
    <3>2. /\ IsSeq(t) /\ Len(t) = Len(g) - 1
          /\ \A k \in 1..(Len(g) - 1) : t[k] = g[k]
      BY ONLY <1>10, <2>1, <3>1, SeqFront
    <3> QED
      BY ONLY <3>1, <3>2
  <2>5. ASSUME NEW k \in 1..e PROVE t[k] = h[k]
    <3>1. k \in 1..d /\ k \in 0..e /\ k - 1 \in 0..e
      BY <1>3
    <3> QED
      BY ONLY <1>5, <1>10, <2>3, <2>4, <2>5, <3>1
  <2>6. t = h
    BY ONLY <2>3, <2>4, <2>5, SeqSame
  <2> QED
    BY ONLY <2>1, <2>2, <2>6
<1>16. SqlAdd(b, s[i + 1]) = [sql    |-> Append(Last(g) \o x, s[i + 1]),
                              groups |-> Front(g)]
  <2>1. b.sql = x /\ b.groups = g
    BY <1>1, <1>8, <1>9
  <2>2. SqlAdd(b, s[i + 1]) = SqlGroupEnd(b, s[i + 1])
    BY SqlAddIs
  <2> QED
    BY ONLY <1>11, <2>1, <2>2 DEF SqlGroupEnd
<1>17. q[e] = p[e]
  <2>1. e \in 0..e
    BY <1>3
  <2> QED
    BY ONLY <1>5, <2>1
<1>18. BuilderHolds(s, SqlAdd(b, s[i + 1]), e, i + 1)
  BY ONLY <1>6, <1>14, <1>15, <1>16, <1>17, Zenon DEF BuilderHolds
<1> QED
  BY ONLY <1>3, <1>18

LEMMA BuilderContinues ==
    ASSUME NEW s, Built(s, 0), NEW i \in Nat, i < Len(s), NEW d, NEW b,
           BuilderHolds(s, b, d, i), s[i + 1].call \notin {"(", ")"}
    PROVE  BuilderHolds(s, SqlAdd(b, s[i + 1]), d, i + 1)
<1>0. IsSeq(s)
  BY DEF Built
<1>1. PICK p : /\ Opened(s, p, d, i)
               /\ b = [sql |-> SubSeq(s, p[d] + 1, i), groups |-> Groups(s, p, d)]
  BY DEF BuilderHolds
<1>2. /\ d \in Nat /\ p \in [0..d -> 0..i] /\ p[0] = 0
      /\ \A k \in 1..d : p[k - 1] < p[k] /\ s[p[k]].call = "("
  BY <1>1 DEF Opened
<1>3. Opened(s, p, d, i + 1)
  <2>0. \A j \in 0..i : j \in 0..(i + 1)
    OBVIOUS
  <2>1. p \in [0..d -> 0..(i + 1)]
    BY ONLY <1>2, <2>0
  <2> QED
    BY ONLY <1>2, <2>1 DEF Opened
<1>4. p[d] \in Nat /\ p[d] <= i /\ Len(s) \in Nat /\ i <= Len(s)
  <2>1. p[d] \in 0..i /\ Len(s) \in Nat
    BY <1>0, <1>2, SeqLen
  <2> QED
    BY <2>1
<1>5. PICK x : x = SubSeq(s, p[d] + 1, i)
  OBVIOUS
<1>6. ~(s[i + 1].call \in Operators /\ x = <<>>)
  <2>1. SUFFICES ASSUME s[i + 1].call \in Operators, x = <<>> PROVE FALSE
    OBVIOUS
  <2>2. p[d] = i
    BY <1>0, <1>4, <1>5, <2>1, Part
  <2>3. CASE d = 0
    <3>1. i = 0
      BY <1>2, <2>2, <2>3
    <3>2. s # <<>>
      BY <3>1, SeqNone
    <3> QED
      BY <2>1, <3>1, <3>2 DEF Built
  <2>4. CASE d # 0
    <3>1. d \in 1..d
      BY <1>2, <2>4
    <3>2. s[i].call = "(" /\ p[d - 1] < i /\ d - 1 \in 0..d
      BY <1>2, <2>2, <3>1
    <3>3. i \in 1..(Len(s) - 1)
      <4>1. p[d - 1] \in 0..i
        BY <1>2, <3>2
      <4> QED
        BY <1>4, <3>2, <4>1
    <3>4. Follows(s[i], s[i + 1])
      BY <3>3 DEF Built
    <3> QED
      BY <2>1, <3>2, <3>4 DEF Follows, IsTerm, Operators
  <2> QED
    BY <2>3, <2>4
<1>7. SqlAdd(b, s[i + 1]) = [sql |-> Append(x, s[i + 1]), groups |-> Groups(s, p, d)]
  <2>1. b = [sql |-> x, groups |-> Groups(s, p, d)]
    BY <1>1, <1>5
  <2>2. SqlAdd(b, s[i + 1]) = [b EXCEPT !.sql = Append(@, s[i + 1])]
    BY <1>6, <2>1, SqlAddIs
  <2> QED
    BY ONLY <2>1, <2>2
<1>8. Append(x, s[i + 1]) = SubSeq(s, p[d] + 1, i + 1)
  BY <1>0, <1>4, <1>5, PartGrows
<1> QED
  BY ONLY <1>3, <1>7, <1>8, Zenon DEF BuilderHolds

\* The SQL of calls that are in order is the calls, none left out.
LEMMA SqlIsCalls ==
    ASSUME NEW s, Built(s, 0)
    PROVE  Sql(s) = s
<1>1. IsSeq(s) /\ Len(s) \in Nat
  BY SeqLen DEF Built
<1>2. PICK b : b = Builder(s)
  OBVIOUS
<1>3. \A i \in 0..Len(s) : b[i] = IF i = 0 THEN SqlStart ELSE SqlAdd(b[i - 1], s[i])
  <2>1. Adds(s, b, Len(s))
    BY <1>1, <1>2, BuilderAdds
  <2> QED
    BY ONLY <2>1 DEF Adds
<1> DEFINE D == {i \in Nat : i <= Len(s) => BuilderHolds(s, b[i], Nesting(s, i), i)}
<1>4. 0 \in D
  <2>1. Nesting(s, 0) = 0
    BY NestingNone
  <2>2. b[0] = [sql |-> <<>>, groups |-> <<>>]
    BY <1>1, <1>3 DEF SqlStart
  <2>3. PICK p : p = [k \in 0..0 |-> 0]
    OBVIOUS
  <2>4. Opened(s, p, 0, 0)
    BY <2>3 DEF Opened
  <2>5. p[0] = 0 /\ SubSeq(s, 0 + 1, 0) = <<>>
    <3>1. SubSeq(s, 1, 0) = <<>>
      BY SubSeqEmpty
    <3> QED
      BY <2>3, <3>1
  <2>6. Groups(s, p, 0) = <<>>
    <3>1. IsSeq(Groups(s, p, 0)) /\ Len(Groups(s, p, 0)) = 0
      BY GroupsIs
    <3> QED
      BY ONLY <3>1, SeqEmpty
  <2>7. BuilderHolds(s, b[0], 0, 0)
    BY ONLY <2>2, <2>4, <2>5, <2>6, Zenon DEF BuilderHolds
  <2> QED
    BY <2>1, <2>7
<1>5. ASSUME NEW i \in Nat, i \in D PROVE i + 1 \in D
  <2>1. SUFFICES ASSUME i + 1 <= Len(s)
                 PROVE  BuilderHolds(s, b[i + 1], Nesting(s, i + 1), i + 1)
    BY <1>1
  <2>2. i < Len(s) /\ i <= Len(s) /\ i + 1 \in 0..Len(s) /\ i + 1 # 0 /\ (i + 1) - 1 = i
    BY <1>1, <2>1
  <2>3. BuilderHolds(s, b[i], Nesting(s, i), i)
    BY <1>5, <2>2
  <2>4. b[i + 1] = SqlAdd(b[i], s[i + 1])
    BY ONLY <1>3, <2>2
  <2>5. Nesting(s, i) \in Int /\ Nesting(s, i + 1) = Nesting(s, i) + Deeper(s[i + 1])
    BY NestingStep
  <2>6. Nesting(s, i + 1) >= 0
    BY <2>2 DEF Built
  <2>7. CASE s[i + 1].call = "("
    <3>1. Nesting(s, i + 1) = Nesting(s, i) + 1
      BY <2>5, <2>7 DEF Deeper
    <3> QED
      BY <1>1, <2>2, <2>3, <2>4, <2>7, <3>1, BuilderOpens
  <2>8. CASE s[i + 1].call = ")"
    <3>1. Nesting(s, i + 1) = Nesting(s, i) - 1 /\ Nesting(s, i) > 0
      BY <2>5, <2>6, <2>8 DEF Deeper
    <3> QED
      BY <1>1, <2>2, <2>3, <2>4, <2>8, <3>1, BuilderCloses
  <2>9. CASE s[i + 1].call \notin {"(", ")"}
    <3>1. Nesting(s, i + 1) = Nesting(s, i)
      BY <2>5, <2>9 DEF Deeper
    <3> QED
      BY <2>2, <2>3, <2>4, <2>9, <3>1, BuilderContinues
  <2> QED
    BY <2>7, <2>8, <2>9
<1> HIDE DEF D
<1>6. Len(s) \in D
  BY ONLY <1>1, <1>4, <1>5, NatInductive
<1>7. BuilderHolds(s, b[Len(s)], 0, Len(s))
  BY <1>1, <1>6 DEF Built, D
<1>8. b[Len(s)].sql = SubSeq(s, 0 + 1, Len(s))
  <2>1. PICK p : /\ Opened(s, p, 0, Len(s))
                 /\ b[Len(s)] = [sql    |-> SubSeq(s, p[0] + 1, Len(s)),
                                 groups |-> Groups(s, p, 0)]
    BY <1>7 DEF BuilderHolds
  <2>2. p[0] = 0
    BY <2>1 DEF Opened
  <2> QED
    BY ONLY <2>1, <2>2
<1>9. SubSeq(s, 0 + 1, Len(s)) = s
  <2>1. SubSeq(s, 1, Len(s)) = s
    BY <1>1, SubSeqFull DEF IsSeq
  <2> QED
    BY <2>1
<1> QED
  BY ONLY <1>2, <1>8, <1>9, BuilderIs

\* The SQL of every expression, of any length and with any part of it missing, is
\* valid: no operator begins or ends it, one is between two conditions, and the
\* parentheses match.
THEOREM ExprSqlIsValid == Spec => []SqlIsValid
<1>1. ASSUME ExprInv PROVE SqlIsValid
  <2>1. SUFFICES ASSUME pc = "done" PROVE ValidSql(Sql(calls))
    BY DEF SqlIsValid
  <2>2. Built(calls, 0) /\ Ends(calls) # "operator"
    BY <1>1, <2>1 DEF ExprInv
  <2>3. Sql(calls) = calls
    BY <2>2, SqlIsCalls
  <2>4. \A i \in DOMAIN calls : i \in 0..Len(calls)
    BY <2>2, SeqLen DEF Built
  <2>5. calls # <<>> => Last(calls).call \notin Operators
    BY <2>2 DEF Ends, Operators
  <2>6. ValidSql(calls)
    BY <2>2, <2>4, <2>5 DEF ValidSql, Built
  <2> QED
    BY ONLY <2>3, <2>6
<1> QED
  BY <1>1, ExprInvariant, PTL
=============================================================================
