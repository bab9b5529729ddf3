------------------------------ MODULE Wildcard ------------------------------
(***************************************************************************)
(* wildcardMatch (memory/wildcard.go): the loop that matches a text        *)
(* against a pattern of "*" and "?", with one place to come back to for    *)
(* each of them, one turn of the loop a step.                              *)
(***************************************************************************)
EXTENDS Integers, Sequences, SequencesExt

CONSTANTS Letters,      \* the bytes that are no wildcards
          MaxPattern,   \* bound on the length of the pattern
          MaxText       \* bound on the length of the text

ASSUME WildcardAssumption ==
    /\ Letters \cap {"*", "?"} = {}
    /\ {MaxPattern, MaxText} \subseteq Nat

VARIABLES
    pattern, text,
    at,          \* [p, s]: patternIndex and sIndex
    star,        \* [p, s]: star and lastStar; p = -1 for none
    eroteme,     \* [p, s]: eroteme and lastEroteme; p = -1 for none
    byte,        \* lastErotemeByte
    label        \* "begin", "Loop", "checkPattern", "true" or "false"

wildcardVars == <<pattern, text, at, star, eroteme, byte, label>>

Bytes == Letters \cup {"*", "?"}

None == [p |-> -1, s |-> 0]

WildcardInit ==
    /\ pattern \in BoundedSeq(Bytes, MaxPattern)
    /\ text \in BoundedSeq(Bytes, MaxText)
    /\ at = [p |-> 0, s |-> 0]
    /\ star = None
    /\ eroteme = None
    /\ byte = "none"
    /\ label = "begin"

\* The indexes of the code start at 0.
P == pattern[at.p + 1]
S == text[at.s + 1]

Answer(b) ==
    /\ label' = IF b THEN "true" ELSE "false"
    /\ UNCHANGED <<pattern, text, at, star, eroteme, byte>>

Goto(to, p, s) ==
    /\ label' = to
    /\ at' = [p |-> p, s |-> s]
    /\ UNCHANGED <<pattern, text>>

\* The cases that need no loop.
Begin ==
    /\ label = "begin"
    /\ IF pattern = <<>> \/ pattern = <<"*">> \/ text = pattern
         THEN Answer(pattern = <<"*">> \/ text = pattern)
         ELSE /\ Goto("Loop", 0, 0)
              /\ UNCHANGED <<star, eroteme, byte>>

InText    == label = "Loop" /\ at.s < Len(text)
InPattern == InText /\ at.p < Len(pattern)

TextEnd ==
    /\ label = "Loop"
    /\ at.s >= Len(text)
    /\ Goto("checkPattern", at.p, at.s)
    /\ UNCHANGED <<star, eroteme, byte>>

\* Try the last "*" again with one more byte.
BackToStarSame ==              \* broken: with the same bytes
    /\ star' = star
    /\ Goto("Loop", star.p + 1, star.s + 1)
    /\ UNCHANGED <<eroteme, byte>>
BackToStar ==
    /\ star' = [star EXCEPT !.s = @ + 1]
    /\ Goto("Loop", star.p + 1, star.s + 1)
    /\ UNCHANGED <<eroteme, byte>>

PatternEnd ==
    /\ InText
    /\ at.p >= Len(pattern)
    /\ IF star.p # -1 THEN BackToStar ELSE Answer(FALSE)

Eroteme ==
    /\ InPattern
    /\ P = "?"
    /\ eroteme' = at
    /\ byte' = S
    /\ Goto("Loop", at.p + 1, at.s + 1)
    /\ UNCHANGED star

Star ==
    /\ InPattern
    /\ P = "*"
    /\ star' = at
    /\ Goto("Loop", at.p + 1, at.s)
    /\ UNCHANGED <<eroteme, byte>>

IsLetter == InPattern /\ P \notin {"?", "*"}

\* A "?" is given up at the first other byte that matches after it.
Match ==
    /\ IsLetter
    /\ P = S
    /\ eroteme' = IF eroteme.p # -1 /\ byte # S
                    THEN [eroteme EXCEPT !.p = -1] ELSE eroteme
    /\ Goto("Loop", at.p + 1, at.s + 1)
    /\ UNCHANGED <<star, byte>>

\* The last "?" shall match nothing.
BackToEroteme ==
    /\ eroteme' = [eroteme EXCEPT !.p = -1]
    /\ Goto("Loop", eroteme.p + 1, eroteme.s)
    /\ UNCHANGED <<star, byte>>

MismatchNoStar ==              \* broken: no way back to a "*"
    /\ IsLetter
    /\ P # S
    /\ IF eroteme.p # -1 THEN BackToEroteme ELSE Answer(FALSE)
Mismatch ==
    /\ IsLetter
    /\ P # S
    /\ IF eroteme.p # -1 THEN BackToEroteme
       ELSE IF star.p # -1 THEN BackToStar
       ELSE Answer(FALSE)

\* The text is at its end; what is left of the pattern must match nothing.
MatchesNothingAny(b) == TRUE         \* broken: letters, too
MatchesNothing(b) == b \in {"*", "?"}

CheckSkip ==
    /\ label = "checkPattern"
    /\ at.p < Len(pattern)
    /\ MatchesNothing(P)
    /\ Goto("checkPattern", at.p + 1,
            IF P = "?" /\ at.s >= Len(text) THEN at.s - 1 ELSE at.s)
    /\ UNCHANGED <<star, eroteme, byte>>

CheckEnd ==
    /\ label = "checkPattern"
    /\ at.p < Len(pattern) => ~MatchesNothing(P)
    /\ Answer(at.p = Len(pattern))

WildcardNext ==
    \/ Begin \/ TextEnd \/ PatternEnd \/ Eroteme \/ Star \/ Match \/ Mismatch
    \/ CheckSkip \/ CheckEnd

WildcardSpec == WildcardInit /\ [][WildcardNext]_wildcardVars

\* The code runs in one goroutine and waits for nobody.
WildcardFairSpec == WildcardSpec /\ WF_wildcardVars(WildcardNext)

----------------------------------------------------------------------------
(* What a match is: the text is cut between the bytes of the pattern, and  *)
(* each byte takes what lies between its two cuts.                         *)

\* What a byte of the pattern takes, from j on and up to k; a "?" takes one byte,
\* or also none if few is 0.
Takes(b, j, k, few) ==
    \/ b = "*" /\ j <= k
    \/ b = "?" /\ few <= k - j /\ k - j <= 1
    \/ k = j + 1 /\ text[k] = b

\* The pattern after its first i bytes, up to the first m, and the text from j
\* up to n.
Matched(i, j, m, n, few) ==
    \E cut \in [i..m -> 0..Len(text)] :
        /\ cut[i] = j /\ cut[m] = n
        /\ \A k \in (i + 1)..m : Takes(pattern[k], cut[k - 1], cut[k], few)

IsMatch(few) == Matched(0, 0, Len(pattern), Len(text), few)

(* Properties.                                                             *)

\* What SQLite's GLOB finds is found in memory, too ("match exactly one
\* character", wildcard.go:50): one place to come back to is enough.
GlobIsFound == label = "false" => ~IsMatch(1)

\* And nothing is found that does not match with some "?" left out, which the
\* tests want (wildcard_test.go:28).
FoundMatches == label = "true" => IsMatch(0)

\* The backtracking ends.
MatchEnds == <>(label \in {"true", "false"})
=============================================================================
