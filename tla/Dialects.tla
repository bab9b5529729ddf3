------------------------------ MODULE Dialects ------------------------------
(***************************************************************************)
(* The other builder, of a tree that is evaluated in memory                *)
(* (memory/memory_expr.go), beside the SQL of Expr; and what each of the   *)
(* two finds for the calls of the parser.                                  *)
(*                                                                         *)
(* The wildcards within a term are the subject of Wildcard; here a term    *)
(* has none.                                                               *)
(***************************************************************************)
EXTENDS Expr

CONSTANT LogEntries    \* the entries that the filters are tried on

----------------------------------------------------------------------------
(* MemoryExprBuilder: a node is [is, subs] or, for a condition, its call.  *)

Node(kind, subs) == [call |-> kind, subs |-> subs]

MemStart == [stack |-> <<>>, groups |-> <<>>]

MemPushBeside(stack, node) == Append(stack, node)   \* broken: never into the last
MemPush(stack, node) ==
    IF stack # <<>> /\ Last(stack).call \in Operators
      THEN [stack EXCEPT ![Len(stack)].subs = Append(@, node)]
      ELSE Append(stack, node)

MemOperator(stack, op) ==
    IF stack = <<>> \/ Last(stack).call = op THEN stack
    ELSE [stack EXCEPT ![Len(stack)] = Node(op, <<@>>)]

MemAdd(b, c) ==
    CASE c.call = "(" ->
           [stack |-> <<>>, groups |-> Append(b.groups, b.stack)]
      [] c.call = ")" /\ b.groups = <<>> -> b
      [] c.call = ")" /\ b.groups # <<>> ->
           [stack  |-> MemPush(Last(b.groups), Node("group", b.stack)),
            groups |-> Front(b.groups)]
      [] c.call \in Operators -> [b EXCEPT !.stack = MemOperator(@, c.call)]
      [] OTHER -> [b EXCEPT !.stack = MemPush(@, c)]

Memory(adds) == FoldLeft(MemAdd, MemStart, adds).stack

----------------------------------------------------------------------------
(* What a condition finds in an entry, a function from fields to values    *)
(* [kind, is], where kind is "text" or "number" and is a string.           *)

Number(string) == IF IsNumber(string) THEN Len(string) ELSE 0

Within(string, value) ==
    \E i \in 1..(Len(value) - Len(string) + 1) :
        SubSeq(value, i, i + Len(string) - 1) = string

TextConditions == {"Text", "Phrase", "TextIn"}

OnText(c, string) ==
    IF c.call = "Text" THEN Within(c.values[1], string)
    ELSE string \in ToSet(c.values)

OnNumber(c, n) ==
    CASE c.call = "<"       -> n < Number(c.values[1])
      [] c.call = "Between" -> Number(c.values[1]) <= n /\ n <= Number(c.values[2])
      [] OTHER              -> n \in {Number(v) : v \in ToSet(c.values)}

\* json_extract of no field is NULL, which finds nothing; it gives a number as
\* a number, which GLOB takes for a text and = does not; CAST makes 0 of a text.
SqlFinds(c, e) ==
    /\ c.field \in DOMAIN e
    /\ LET v == e[c.field]
       IN  IF c.call \in TextConditions
             THEN (c.call = "Text" \/ v.kind = "text") /\ OnText(c, v.is)
             ELSE OnNumber(c, Number(v.is))

\* memExprGetText of a value that is no text stores the text of it, in shown,
\* and finds nothing; from the second time on it answers what it has stored.
MemFinds(c, e, shown) ==
    IF c.field \notin DOMAIN e THEN [found |-> FALSE, shown |-> shown]
    ELSE LET v == e[c.field]
         IN  IF c.call \notin TextConditions
               THEN [found |-> IsNumber(v.is) /\ OnNumber(c, Number(v.is)),
                     shown |-> shown]
             ELSE [found |-> (v.kind = "text" \/ c.field \in shown) /\ OnText(c, v.is),
                   shown |-> IF v.kind = "text" THEN shown ELSE shown \cup {c.field}]

\* SQL: AND binds closer than OR.
RECURSIVE SqlHolds(_, _)
SqlHolds(sql, e) ==
    LET Splits(op) == {i \in DOMAIN sql : sql[i].call = op /\ Nesting(sql, i) = 0}
        Before(i)  == SqlHolds(SubSeq(sql, 1, i - 1), e)
        After(i)   == SqlHolds(SubSeq(sql, i + 1, Len(sql)), e)
    IN  IF Splits("OR") # {}
          THEN LET i == CHOOSE j \in Splits("OR") : TRUE IN Before(i) \/ After(i)
        ELSE IF Splits("AND") # {}
          THEN LET i == CHOOSE j \in Splits("AND") : TRUE IN Before(i) /\ After(i)
        ELSE IF sql = <<>> THEN TRUE
        ELSE IF sql[1].call = "(" THEN SqlHolds(SubSeq(sql, 2, Len(sql) - 1), e)
        ELSE SqlFinds(sql[1], e)

\* eval: from the left, and no further than needed.
RECURSIVE MemHolds(_, _, _), MemAll(_, _, _, _)
MemHolds(node, e, shown) ==
    IF node.call = "OR" THEN MemAll(node.subs, e, shown, FALSE)
    ELSE IF node.call \in {"AND", "group"} THEN MemAll(node.subs, e, shown, TRUE)
    ELSE MemFinds(node, e, shown)
MemAll(nodes, e, shown, all) ==
    IF nodes = <<>> THEN [found |-> all, shown |-> shown]
    ELSE LET r == MemHolds(Head(nodes), e, shown)
         IN  IF r.found = all THEN MemAll(Tail(nodes), e, r.shown, all) ELSE r

SqlResult(adds, e) == SqlHolds(Sql(adds), e)
MemResult(adds, e) == MemAll(Memory(adds), e, {}, TRUE).found

----------------------------------------------------------------------------
(* Where the two are meant to agree.                                       *)

\* A condition on a text is asked of a text, and one on a number of a number.
Suits(adds, e) ==
    \A i \in DOMAIN adds :
        IsTerm(adds[i]) /\ adds[i].field \in DOMAIN e =>
            IF adds[i].call \in TextConditions
              THEN e[adds[i].field].kind = "text"
              ELSE IsNumber(e[adds[i].field].is)

NoEmptyGroup(adds) ==
    \A i \in 1..(Len(adds) - 1) :
        ~(adds[i].call = "(" /\ adds[i + 1].call = ")")

\* AND and OR stand beside each other only with parentheses.
RECURSIVE Unmixed(_)
Unmixed(nodes) ==
    \A i \in DOMAIN nodes :
        nodes[i].call \in Operators \cup {"group"} =>
            /\ Unmixed(nodes[i].subs)
            /\ nodes[i].call \in Operators =>
                 nodes[i].subs[1].call \notin Operators

Comparable(e) == pc = "done" /\ NoEmptyGroup(calls) /\ Suits(calls, e)

\* SQL and memory find the same entries, if the operators are not mixed.
UnmixedAgree ==
    \A e \in LogEntries :
        (Comparable(e) /\ Unmixed(Memory(calls))) =>
            (SqlResult(calls, e) <=> MemResult(calls, e))
=============================================================================
