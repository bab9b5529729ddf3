------------------------------- MODULE MCExpr -------------------------------
(***************************************************************************)
(* Expr and Dialects for TLC: the pieces of the expressions, the entries.  *)
(***************************************************************************)
EXTENDS Dialects, TLC

And == <<" ", "AND", " ">>
Or  == <<" ", "OR", " ">>

MCPieces ==
    {<<"a">>, <<"1">>, And, Or, <<" ">>, <<"1", " ", "TO", " ", "1">>,
     <<"a", " ", "1">>, <<"(">>, <<")">>, <<"[">>, <<"]">>, <<"\"">>, <<":">>,
     <<"\\">>, <<"<">>}

MCCore == {<<"a">>, <<"b">>, And, Or, <<"(">>, <<")">>}

Text(string) == [kind |-> "text", is |-> string]

\* A message and, perhaps, the field "a".
MCLogEntries ==
    LET Messages == {Text(<<"a">>), Text(<<"b">>), Text(<<"a", "b">>), Text(<<"1">>)}
        Fields == {Text(<<"a">>), Text(<<"1">>), [kind |-> "number", is |-> <<"1">>]}
    IN  {<<"msg">> :> m : m \in Messages}
        \cup {<<"msg">> :> m @@ <<"a">> :> f : m \in Messages, f \in Fields}
=============================================================================
