-------------------------------- MODULE Expr --------------------------------
(***************************************************************************)
(* The parser of search expressions (expr.go, expr_parse_state.go), one    *)
(* turn of its loop a step; a group in parentheses is parsed by a call of  *)
(* its own, with a state of its own and the same builder.                  *)
(*                                                                         *)
(* An expression is a sequence of marks and words; a string, as buf, is a  *)
(* sequence of words and of the marks that are in it.  The cache of        *)
(* compiled expressions holds what parse returns and is left out.          *)
(***************************************************************************)
EXTENDS Integers, Sequences, FiniteSets, SequencesExt

CONSTANTS Pieces, MaxPieces,    \* the expressions that are parsed: so many of
          Core, MaxCore         \* these, or so many of the others

VARIABLES
    input,
    frames,    \* the calls of parse, the innermost last
    calls,     \* the calls of the builder
    pc         \* "parse", "done" or "error"

vars == <<input, frames, calls, pc>>

Call(name, field, values) ==
    [call |-> name, field |-> field, values |-> values]

Operators == {"AND", "OR"}
IsTerm(c) == c.call \notin Operators \cup {"(", ")"}

IsNumber(string) == string # <<>> /\ ToSet(string) = {"1"}

\* A call of parse: what it is given, the next index, and exprParseState.
Frame(string) ==
    [text |-> string, i |-> 1, buf |-> <<>>, field |-> <<>>, parts |-> <<>>,
     inQuote |-> FALSE, inArray |-> FALSE, operator |-> "", dirty |-> FALSE]

Trimmed(string) ==
    LET words == {i \in DOMAIN string : string[i] # " "}
    IN  IF words = {} THEN <<>>
        ELSE SubSeq(string, CHOOSE i \in words : \A j \in words : i <= j,
                            CHOOSE i \in words : \A j \in words : i >= j)

Init ==
    /\ \E pieces \in BoundedSeq(Pieces, MaxPieces) \cup BoundedSeq(Core, MaxCore) :
          input = Trimmed(FlattenSeq(pieces))
    /\ frames = <<Frame(input)>>
    /\ calls = <<>>
    /\ pc = "parse"

----------------------------------------------------------------------------
(* exprParseState.  The operators return the new state and the calls of    *)
(* the builder.                                                            *)

Result(f, out) == [f |-> f, out |-> out, ok |-> TRUE]

\* addOperator; the operator is forgotten by Used.
AddOperator(f) ==
    IF ~f.dirty THEN <<>>
    ELSE <<Call(IF f.operator = "" THEN "AND" ELSE f.operator, <<>>, <<>>)>>
Used(f) == [f EXCEPT !.operator = "", !.dirty = TRUE]

FieldName(f) == IF f.field = <<>> THEN <<"msg">> ELSE f.field

\* A term without a field is a text, whatever it looks like.
SingleTerm(f) ==
    IF f.field # <<>> /\ IsNumber(f.buf)
      THEN Call("=", f.field, <<f.buf>>)
    ELSE IF f.field # <<>> /\ f.buf[1] = "<" /\ IsNumber(Tail(f.buf))
      THEN Call("<", f.field, <<Tail(f.buf)>>)
    ELSE Call("Text", FieldName(f), <<f.buf>>)

\* An operator leaves the field as it is.
AddTermSingle(f) ==
    IF f.inArray
      THEN Result([f EXCEPT !.parts = IF f.buf = <<>> THEN @ ELSE Append(@, f.buf),
                            !.buf = <<>>], <<>>)
    ELSE IF f.buf \in {<<op>> : op \in Operators}
      THEN Result([f EXCEPT !.operator = f.buf[1], !.buf = <<>>], <<>>)
    ELSE IF f.buf = <<>>
      THEN Result([f EXCEPT !.field = <<>>], <<>>)
    ELSE Result([Used(f) EXCEPT !.buf = <<>>, !.field = <<>>],
                Append(AddOperator(f), SingleTerm(f)))

AddTermSequence(f) ==
    IF f.inArray
      THEN Result([f EXCEPT !.parts = Append(@, f.buf), !.buf = <<>>], <<>>)
    ELSE IF f.buf = <<>>
      THEN Result([f EXCEPT !.field = <<>>], <<>>)
    ELSE Result([Used(f) EXCEPT !.buf = <<>>, !.field = <<>>],
                Append(AddOperator(f), Call("Phrase", FieldName(f), <<f.buf>>)))

IsRange(f) == Len(f.parts) = 3 /\ f.parts[2] = <<"TO">>

ArrayTerms(f) ==
    LET name    == FieldName(f)
        numbers == SelectSeq(f.parts, IsNumber)
        texts   == SelectSeq(f.parts, LAMBDA p : ~IsNumber(p))
        number  == <<Call(IF Len(numbers) = 1 THEN "=" ELSE "NumberIn", name, numbers)>>
        strings == <<Call("TextIn", name, texts)>>
    IN  IF IsRange(f) THEN <<Call("Between", name, <<f.parts[1], f.parts[3]>>)>>
        ELSE IF texts = <<>> THEN number
        ELSE IF numbers = <<>> THEN strings
        ELSE <<Call("(", <<>>, <<>>)>> \o number \o <<Call("OR", <<>>, <<>>)>>
             \o strings \o <<Call(")", <<>>, <<>>)>>

\* Here, too, the field stays.
CloseArray(f) ==
    LET g == [f EXCEPT !.inArray = FALSE]
    IN  IF ~f.inArray \/ f.parts = <<>> THEN Result(g, <<>>)
        ELSE [f   |-> [Used(g) EXCEPT !.parts = <<>>],
              out |-> AddOperator(f) \o ArrayTerms(f),
              ok  |-> IsRange(f) => IsNumber(f.parts[1]) /\ IsNumber(f.parts[3])]

----------------------------------------------------------------------------
(* parse                                                                   *)

Cur     == Last(frames)
B       == Cur.text[Cur.i]
Escaped == Cur.i > 1 /\ Cur.text[Cur.i - 1] = "\\"

At(mark) == pc = "parse" /\ Cur.i <= Len(Cur.text) /\ B = mark

\* The byte is done with: the state is f now, and the builder is called.
Turn(r) ==
    /\ frames' = Append(Front(frames), [r.f EXCEPT !.i = @ + 1])
    /\ calls' = calls \o r.out
    /\ UNCHANGED <<input, pc>>

Fail == pc' = "error" /\ UNCHANGED <<input, frames, calls>>

Keep == Turn(Result([Cur EXCEPT !.buf = Append(@, B)], <<>>))

\* A mark after a backslash replaces it.
Unescape == Turn(Result([Cur EXCEPT !.buf = Append(Front(@), B)], <<>>))

\* The index of the parenthesis that ends the group after index i, or the
\* index after the text; parentheses in quotes do not count.
GroupEnd(string, i) ==
    LET quoted[j \in i..Len(string)] ==
            IF j = i THEN FALSE
            ELSE LET mark == string[j] = "\"" /\ string[j - 1] # "\\"
                 IN  mark # quoted[j - 1]
        depth[j \in i..Len(string)] ==
            IF j = i THEN 1
            ELSE depth[j - 1] + (IF string[j] = "(" /\ ~quoted[j] THEN 1
                                 ELSE IF string[j] = ")" /\ ~quoted[j] THEN -1 ELSE 0)
    IN  SelectInSeq([j \in 1..(Len(string) + 1) |->
                        j > Len(string) \/ (j > i /\ depth[j] = 0)], LAMBDA b : b)

OpenGroup ==
    /\ At("(")
    /\ ~Cur.inArray /\ ~Cur.inQuote
    /\ LET j == GroupEnd(Cur.text, Cur.i)
       IN  frames' = Append(Front(frames), [Cur EXCEPT !.i = j + 1, !.operator = ""])
                     \o <<Frame(SubSeq(Cur.text, Cur.i + 1, j - 1))>>
    /\ calls' = calls \o AddOperator(Cur) \o <<Call("(", <<>>, <<>>)>>
    /\ UNCHANGED <<input, pc>>

BracketOpens ==
    /\ At("[")
    /\ ~Cur.inQuote
    /\ \/ Escaped /\ Unescape
       \/ ~Escaped /\ Cur.inArray /\ Fail
       \/ /\ ~Escaped /\ ~Cur.inArray
          /\ Turn(Result([Cur EXCEPT !.inArray = TRUE], <<>>))

BracketCloses ==
    /\ At("]")
    /\ Cur.inArray /\ ~Cur.inQuote
    /\ IF Escaped THEN Unescape
       ELSE LET r == CloseArray(AddTermSingle(Cur).f)
            IN  IF r.ok THEN Turn(r) ELSE Fail

Space == At(" ") /\ IF Cur.inQuote THEN Keep ELSE Turn(AddTermSingle(Cur))

Quote ==
    /\ At("\"")
    /\ IF Escaped THEN Unescape
       ELSE IF Cur.inQuote
         THEN Turn(AddTermSequence([Cur EXCEPT !.inQuote = FALSE]))
       ELSE Turn(Result([Cur EXCEPT !.inQuote = TRUE], <<>>))

Colon ==
    /\ At(":")
    /\ ~Cur.inQuote
    /\ \/ Escaped /\ Unescape
       \/ ~Escaped /\ Cur.field # <<>> /\ Fail
       \/ /\ ~Escaped /\ Cur.field = <<>>
          /\ Turn(Result([Cur EXCEPT !.field = Cur.buf, !.buf = <<>>], <<>>))

Other ==
    /\ pc = "parse" /\ Cur.i <= Len(Cur.text)
    /\ \/ B \notin {"(", "[", "]", " ", "\"", ":"}
       \/ B = "(" /\ (Cur.inArray \/ Cur.inQuote)
       \/ B \in {"[", ":"} /\ Cur.inQuote
       \/ B = "]" /\ (~Cur.inArray \/ Cur.inQuote)
    /\ Keep

\* The last part, and what is still open is closed.
EndOfNoArray(f) ==             \* broken: an open array is forgotten
    IF f.inQuote THEN AddTermSequence(f) ELSE AddTermSingle(f)
EndOf(f) ==
    LET r == IF f.inQuote THEN AddTermSequence(f) ELSE AddTermSingle(f)
        s == CloseArray(r.f)
    IN  [f |-> s.f, out |-> r.out \o s.out, ok |-> s.ok]

\* After a group the terms go on.
AfterGroupClean(f) == f        \* broken: it is as if there was none
AfterGroup(f) == [f EXCEPT !.dirty = TRUE]

End ==
    /\ pc = "parse"
    /\ Cur.i > Len(Cur.text)
    /\ LET r == EndOf(Cur)
       IN  IF ~r.ok THEN Fail
           ELSE IF Len(frames) = 1
             THEN /\ calls' = calls \o r.out
                  /\ pc' = "done"
                  /\ UNCHANGED <<input, frames>>
           ELSE /\ calls' = calls \o r.out \o <<Call(")", <<>>, <<>>)>>
                /\ frames' = Append(Front(Front(frames)), AfterGroup(Last(Front(frames))))
                /\ UNCHANGED <<input, pc>>

Next ==
    \/ OpenGroup \/ BracketOpens \/ BracketCloses \/ Space \/ Quote \/ Colon
    \/ Other \/ End

Spec == Init /\ [][Next]_vars

----------------------------------------------------------------------------
(* SqliteExprBuilder: sql is the text, one token for a whole condition.    *)

SqlStart == [sql |-> <<>>, groups |-> <<>>]

SqlGroupEnd(b, c) ==
    LET inner == IF b.groups = <<>> THEN b.sql ELSE Last(b.groups) \o b.sql
    IN  [sql    |-> Append(inner, c),
         groups |-> IF b.groups = <<>> THEN <<>> ELSE Front(b.groups)]

SqlAdd(b, c) ==
    CASE c.call = "(" ->
           [sql |-> <<>>, groups |-> Append(b.groups, Append(b.sql, c))]
      [] c.call = ")" -> SqlGroupEnd(b, c)
      [] c.call \in Operators /\ b.sql = <<>> -> b
      [] OTHER -> [b EXCEPT !.sql = Append(@, c)]

Sql(adds) ==
    LET b[i \in 0..Len(adds)] ==
            IF i = 0 THEN SqlStart ELSE SqlAdd(b[i - 1], adds[i])
    IN  b[Len(adds)].sql

\* A condition or group, and then an operator: what SQL wants, except that it
\* wants something between parentheses.
Follows(c, d) ==
    IF c.call \in Operators \cup {"("}
      THEN IsTerm(d) \/ d.call = "(" \/ (c.call = "(" /\ d.call = ")")
      ELSE d.call \in Operators \cup {")"}

Count(sql, i, name) == Cardinality({j \in 1..i : sql[j].call = name})
Nesting(sql, i) == Count(sql, i, "(") - Count(sql, i, ")")

ValidSql(sql) ==
    sql # <<>> =>
        /\ sql[1].call \notin Operators
        /\ Last(sql).call \notin Operators
        /\ \A i \in 1..(Len(sql) - 1) : Follows(sql[i], sql[i + 1])
        /\ \A i \in DOMAIN sql : Nesting(sql, i) >= 0
        /\ Nesting(sql, Len(sql)) = 0

----------------------------------------------------------------------------
(* Properties.                                                             *)

\* Whatever the expression, however much of it is missing: between two
\* conditions of the SQL there is an operator, there is none before the first
\* and after the last, and every parenthesis is closed.
SqlIsValid == pc = "done" => ValidSql(Sql(calls))

WordsIn(strings, word) ==
    Len(SelectSeq(FlattenSeq(strings), LAMBDA w : w = word))

\* No word that is searched for is lost or searched for twice: groups, arrays
\* and quotes that nobody closed included.
WordsKept ==
    (pc = "done" /\ ":" \notin ToSet(input)) =>
        \A word \in {"a", "b", "1"} :
            WordsIn(<<input>>, word) =
            WordsIn(FlattenSeq([i \in DOMAIN calls |-> calls[i].values]), word)
=============================================================================
