---------------------------- MODULE HandlerProofs ----------------------------
(***************************************************************************)
(* Theorems about the slog handler, for any goroutines, records and sinks, *)
(* any number of writers and of derived handlers: a writer has one user,   *)
(* its encoder adds what the handler that owns it adds, and so every       *)
(* record goes out whole, alone and as the handler it was logged with      *)
(* writes it.                                                              *)
(***************************************************************************)
EXTENDS Handler, SequenceTheorems, TLAPS

Derived == Handlers \ {Root}

\* The steps of Handle at which the goroutine has a writer.
Busy == {"derive", "ingest", "put"}

Encodings == [adds : Seq(Nat), record : SUBSET Records]
Fanned    == [sink : Sinks, adds : Seq(Nat)]
Calls     == [pc : Busy \cup {"idle", "fan", "get"}, handler : Nat,
              record : SUBSET Records, rest : Seq(Fanned), at : Nat,
              below : Seq(Nat), writer : SUBSET Writers]

HandlerTypeOK ==
    /\ parents \in Seq(Nat)
    /\ adds \in Seq(Seq(Nat))
    /\ fan \in Seq(Seq(Fanned))
    /\ fanning \in SUBSET Sinks
    /\ pool \in Seq(SUBSET Writers)
    /\ encoder \in [Writers -> Seq(Nat)]
    /\ buffer \in [Writers -> Seq(Encodings)]
    /\ todo \in SUBSET Records
    /\ call \in [Goroutines -> Calls]
    /\ crashed \in BOOLEAN

\* The tables of the handlers have one row for each, and a derived handler
\* adds what its parent adds and itself.
Lineage ==
    /\ Root \in Handlers
    /\ Len(adds) = Len(parents) /\ Len(fan) = Len(parents) /\ Len(pool) = Len(parents)
    /\ adds[Root] = <<>>
    /\ \A h \in Derived :
          parents[h] \in Handlers /\ adds[h] = Append(adds[parents[h]], h)
    /\ \A h \in Handlers : \A i \in DOMAIN fan[h] : fan[h][i].adds = adds[h]

\* Who is on the way through the pools stands at a handler that the calls of
\* New that wait lead down from, parent to child, to the one it logs with.
WayDown(c) ==
    /\ c.at \in Handlers
    /\ c.handler \in Handlers
    /\ c.below \in Seq(Derived)
    /\ c.below = <<>> => c.at = c.handler
    /\ c.below # <<>> =>
          c.at = parents[c.below[1]] /\ c.below[Len(c.below)] = c.handler
    /\ \A i \in 1 .. Len(c.below) - 1 : parents[c.below[i + 1]] = c.below[i]

\* A writer is in one pool, or with one goroutine, or nowhere.
OneUser ==
    /\ \A h, k \in Handlers : h # k => pool[h] \cap pool[k] = {}
    /\ \A g \in Goroutines, h \in Handlers : call[g].writer \cap pool[h] = {}
    /\ \A f, g \in Goroutines : f # g => call[f].writer \cap call[g].writer = {}

\* A goroutine has a writer when it needs one, and never two.
HasWriter(c) ==
    /\ c.pc \in Busy <=> c.writer # {}
    /\ \A v, w \in c.writer : v = w

\* The encoder of a writer adds what the handler adds in whose pool it is, or
\* to which it was brought.
PoolFits == \A h \in Handlers : \A w \in pool[h] : encoder[w] = adds[h]

CallFits(c) ==
    /\ c.pc = "fan" => \A i \in DOMAIN c.rest : c.rest[i].adds = adds[c.handler]
    /\ c.pc # "get" /\ c.pc # "derive" => c.below = <<>>
    /\ \A w \in c.writer :
          /\ encoder[w] = adds[c.at]
          /\ c.pc = "ingest" =>
                buffer[w] \in {<<>>, <<[adds |-> adds[c.handler],
                                        record |-> c.record]>>}

\* What was given away is of a handler that exists.
OutIsWhole ==
    \A item \in out :
        /\ item.handler \in Handlers
        /\ item.data = <<[adds |-> adds[item.handler], record |-> item.record]>>

HandlerInv ==
    /\ HandlerTypeOK
    /\ Lineage
    /\ OneUser
    /\ PoolFits
    /\ \A g \in Goroutines :
          WayDown(call[g]) /\ HasWriter(call[g]) /\ CallFits(call[g])
    /\ OutIsWhole

----------------------------------------------------------------------------
(* Types.                                                                  *)

LEMMA CallUpdate ==
  ASSUME NEW c \in Calls,
         NEW pc \in Busy \cup {"idle", "fan", "get"}, NEW rest \in Seq(Fanned),
         NEW at \in Nat, NEW below \in Seq(Nat), NEW writer \in SUBSET Writers
  PROVE  /\ [c EXCEPT !.pc = pc] \in Calls
         /\ [c EXCEPT !.rest = rest] \in Calls
         /\ [c EXCEPT !.at = at, !.below = below] \in Calls
         /\ [c EXCEPT !.pc = pc, !.writer = writer] \in Calls
  BY DEF Calls

\* One more in front of a sequence, and the first one taken off it.
LEMMA PushPop ==
  ASSUME NEW S, NEW s \in Seq(S), NEW e \in S
  PROVE  /\ <<e>> \o s \in Seq(S)
         /\ Len(<<e>> \o s) = Len(s) + 1
         /\ (<<e>> \o s)[1] = e
         /\ \A i \in 1 .. Len(s) : (<<e>> \o s)[i + 1] = s[i]
         /\ s # <<>> =>
               /\ Head(s) = s[1]
               /\ Tail(s) \in Seq(S)
               /\ Len(Tail(s)) = Len(s) - 1
               /\ \A i \in 1 .. Len(s) - 1 : Tail(s)[i] = s[i + 1]
<1>1. <<e>> \in Seq(S) /\ Len(<<e>>) = 1 /\ <<e>>[1] = e
  OBVIOUS
<1>2. /\ <<e>> \o s \in Seq(S)
      /\ Len(<<e>> \o s) = 1 + Len(s)
      /\ \A i \in 1 .. 1 + Len(s) :
            (<<e>> \o s)[i] = IF i <= 1 THEN <<e>>[i] ELSE s[i - 1]
  BY <1>1, ConcatProperties
<1>3. Len(s) \in Nat
  OBVIOUS
<1> QED
  BY <1>1, <1>2, <1>3, HeadTailProperties

LEMMA EmptyIsTyped ==
  ASSUME NEW S
  PROVE  /\ <<>> \in Seq(S)
         /\ Len(<<>>) = 0
         /\ \A s \in Seq(S) : s # <<>> => Len(s) \in Nat \ {0}
  BY EmptySeq

\* Every handler has its row in every table.
LEMMA Rows ==
  ASSUME HandlerTypeOK, Lineage
  PROVE  /\ Handlers = 1 .. Len(parents) /\ Len(parents) \in Nat
         /\ Handlers \subseteq Nat
         /\ DOMAIN adds = Handlers /\ DOMAIN fan = Handlers /\ DOMAIN pool = Handlers
         /\ \A h \in Handlers :
               /\ h \in 1 .. Len(parents) /\ h \in 1 .. Len(adds)
               /\ h \in 1 .. Len(fan) /\ h \in 1 .. Len(pool)
               /\ parents[h] \in Nat /\ adds[h] \in Seq(Nat)
               /\ fan[h] \in Seq(Fanned) /\ pool[h] \in SUBSET Writers
<1>1. Handlers = 1 .. Len(parents) /\ Len(parents) \in Nat
  BY DEF HandlerTypeOK, Handlers
<1>2. DOMAIN adds = Handlers /\ DOMAIN fan = Handlers /\ DOMAIN pool = Handlers
  BY <1>1 DEF HandlerTypeOK, Lineage
<1>3. Len(adds) = Len(parents) /\ Len(fan) = Len(parents) /\ Len(pool) = Len(parents)
  BY DEF Lineage
<1>4. Handlers \subseteq Nat
  BY <1>1
<1>5. ASSUME NEW h \in Handlers
      PROVE  /\ parents[h] \in Nat /\ adds[h] \in Seq(Nat)
             /\ fan[h] \in Seq(Fanned) /\ pool[h] \in SUBSET Writers
  BY <1>1, <1>3, ElementOfSeq DEF HandlerTypeOK
<1> QED
  BY <1>1, <1>2, <1>3, <1>4, <1>5

LEMMA TypeStep ==
  ASSUME HandlerInv, [Next]_vars
  PROVE  HandlerTypeOK'
<1> USE DEF HandlerInv, HandlerTypeOK
<1>0. CASE UNCHANGED vars
  BY <1>0 DEF vars, handlerVars
<1>1. ASSUME NEW s \in Sinks, FanoutBegin(s) PROVE HandlerTypeOK'
  BY <1>1 DEF FanoutBegin
<1>2. CASE FanoutEnd
  <2>1. PICK s \in fanning :
           fan' = [fan EXCEPT ![Root] = Append(@, [sink |-> s, adds |-> <<>>])]
    BY <1>2 DEF FanoutEnd
  <2>2. [sink |-> s, adds |-> <<>>] \in Fanned
    BY <2>1, EmptyIsTyped DEF Fanned
  <2>3. Root \in 1 .. Len(fan) /\ fan[Root] \in Seq(Fanned)
    BY DEF Lineage, Handlers, Root
  <2>4. Append(fan[Root], [sink |-> s, adds |-> <<>>]) \in Seq(Fanned)
    BY <2>2, <2>3, AppendProperties
  <2>5. fan' \in Seq(Seq(Fanned))
    BY <2>1, <2>3, <2>4, ExceptSeq
  <2> QED
    BY <2>5, <1>2 DEF FanoutEnd
<1>3. CASE TornRead
  BY <1>3 DEF TornRead, handlerVars
<1>4. ASSUME NEW h \in Handlers, With(h) PROVE HandlerTypeOK'
  <2> DEFINE n == Len(parents) + 1
             row == [i \in DOMAIN fan[h] |-> [fan[h][i] EXCEPT !.adds = Append(@, n)]]
  <2>1. /\ h \in Nat /\ n \in Nat
    BY Rows
  <2>2. adds[h] \in Seq(Nat) /\ fan[h] \in Seq(Fanned)
    BY Rows
  <2>3. Append(adds[h], n) \in Seq(Nat)
    BY <2>1, <2>2, AppendProperties
  <2>4. ASSUME NEW i \in 1 .. Len(fan[h])
        PROVE  [fan[h][i] EXCEPT !.adds = Append(@, n)] \in Fanned
    <3>1. fan[h][i] \in Fanned
      BY <2>2, ElementOfSeq
    <3>2. Append(fan[h][i].adds, n) \in Seq(Nat)
      BY <3>1, <2>1, AppendProperties DEF Fanned
    <3> QED
      BY <3>1, <3>2 DEF Fanned
  <2>5. row \in Seq(Fanned)
    <3>1. Len(fan[h]) \in Nat /\ DOMAIN fan[h] = 1 .. Len(fan[h])
      BY <2>2
    <3> QED
      BY <3>1, <2>4, IsASeq
  <2>6. {} \in SUBSET Writers
    OBVIOUS
  <2> HIDE DEF row, n
  <2>7. /\ Append(parents, h) \in Seq(Nat)
        /\ Append(adds, Append(adds[h], n)) \in Seq(Seq(Nat))
        /\ Append(fan, row) \in Seq(Seq(Fanned))
        /\ Append(pool, {}) \in Seq(SUBSET Writers)
    BY <2>1, <2>3, <2>5, <2>6, AppendProperties
  <2> QED
    BY <2>7, <1>4 DEF With, row, n
<1>5. ASSUME NEW g \in Goroutines, NEW h \in Handlers, NEW r \in todo, Handle(g, h, r)
      PROVE  HandlerTypeOK'
  <2>1. h \in Nat /\ fan[h] \in Seq(Fanned) /\ {r} \in SUBSET Records
    BY Rows
  <2>2. [pc |-> "fan", handler |-> h, record |-> {r}, rest |-> fan[h], at |-> h,
         below |-> <<>>, writer |-> {}] \in Calls
    BY <2>1, EmptyIsTyped DEF Calls
  <2> QED
    BY <1>5, <2>2 DEF Handle, handlerVars
<1>6. ASSUME NEW h \in Handlers, NEW w \in Writers, Collect(h, w) PROVE HandlerTypeOK'
  <2>1. h \in 1 .. Len(pool) /\ pool[h] \ {w} \in SUBSET Writers
    BY Rows
  <2>2. pool' \in Seq(SUBSET Writers)
    BY <2>1, <1>6, ExceptSeq DEF Collect
  <2> QED
    BY <2>2, <1>6 DEF Collect, handlerVars
<1>7. ASSUME NEW g \in Goroutines,
             \/ FanOut(g) \/ FanOutEnd(g) \/ NotEnabled(g)
             \/ GetPooled(g) \/ GetFromParent(g) \/ GetNew(g) \/ Derive(g)
             \/ Encode(g) \/ EncodeFails(g) \/ Ingest(g) \/ Put(g)
      PROVE  HandlerTypeOK'
  <2> DEFINE c == call[g]
  <2>0. /\ c \in Calls
        /\ c.rest \in Seq(Fanned) /\ c.below \in Seq(Nat) /\ c.writer \in SUBSET Writers
        /\ c.at \in 1 .. Len(pool) /\ c.at \in 1 .. Len(parents)
        /\ c.handler \in 1 .. Len(pool)
        /\ c.at \in Nat /\ c.record \in SUBSET Records
    <3>1. c \in Calls /\ c.at \in Handlers /\ c.handler \in Handlers
      BY DEF WayDown
    <3> QED
      BY <3>1, Rows DEF Calls
  <2>a. NoCall \in Calls
    BY EmptyIsTyped DEF NoCall, Calls, Root
  <2>b. ASSUME NEW d \in Calls, call' = [call EXCEPT ![g] = d]
        PROVE  call' \in [Goroutines -> Calls]
    BY <2>b
  <2>1. CASE FanOut(g)
    <3>1. Tail(c.rest) \in Seq(Fanned)
      BY <2>0, <2>1, HeadTailProperties DEF FanOut
    <3>2. [c EXCEPT !.rest = Tail(c.rest)] \in Calls
      BY <3>1, <2>0, CallUpdate
    <3>3. call' = [call EXCEPT ![g] = [c EXCEPT !.rest = Tail(c.rest)]]
      BY <2>1 DEF FanOut
    <3> QED
      BY <3>2, <3>3, <2>b, <2>1 DEF FanOut, handlerVars
  <2>2. CASE FanOutEnd(g)
    <3>1. [c EXCEPT !.pc = "get"] \in Calls
      BY <2>0, CallUpdate
    <3>2. call' = [call EXCEPT ![g] = [c EXCEPT !.pc = "get"]]
      BY <2>2 DEF FanOutEnd, Goto
    <3> QED
      BY <3>1, <3>2, <2>b, <2>2 DEF FanOutEnd, handlerVars
  <2>3. CASE NotEnabled(g) \/ EncodeFails(g)
    BY <2>3, <2>a DEF NotEnabled, EncodeFails, Return, handlerVars
  <2>4. CASE GetPooled(g)
    <3>1. PICK w \in pool[c.at] :
             /\ pool' = [pool EXCEPT ![c.at] = @ \ {w}]
             /\ call' = [call EXCEPT ![g].pc = "derive", ![g].writer = {w}]
      BY <2>4 DEF GetPooled, Taken
    <3>2. {w} \in SUBSET Writers /\ pool[c.at] \ {w} \in SUBSET Writers
      BY <2>0
    <3>3. pool' \in Seq(SUBSET Writers)
      BY <3>1, <3>2, <2>0, ExceptSeq
    <3>4. [c EXCEPT !.pc = "derive", !.writer = {w}] \in Calls
      BY <3>2, <2>0, CallUpdate DEF Busy
    <3>5. call' = [call EXCEPT ![g] = [c EXCEPT !.pc = "derive", !.writer = {w}]]
      BY <3>1
    <3> QED
      BY <3>3, <3>4, <3>5, <2>b, <2>4 DEF GetPooled, handlerVars
  <2>5. CASE GetFromParent(g)
    <3>1. parents[c.at] \in Nat
      BY <2>0
    <3>2. <<c.at>> \o c.below \in Seq(Nat)
      BY <2>0, PushPop
    <3>3. [c EXCEPT !.at = parents[c.at], !.below = <<c.at>> \o c.below] \in Calls
      BY <3>1, <3>2, <2>0, CallUpdate
    <3>4. call' = [call EXCEPT ![g] = [c EXCEPT !.at = parents[c.at],
                                                !.below = <<c.at>> \o c.below]]
      BY <2>5 DEF GetFromParent
    <3> QED
      BY <3>3, <3>4, <2>b, <2>5 DEF GetFromParent, handlerVars
  <2>6. CASE GetNew(g)
    <3>1. PICK w \in Writers :
             /\ encoder' = [encoder EXCEPT ![w] = <<>>]
             /\ buffer' = [buffer EXCEPT ![w] = <<>>]
             /\ call' = [call EXCEPT ![g].pc = "derive", ![g].writer = {w}]
      BY <2>6 DEF GetNew
    <3>2. [c EXCEPT !.pc = "derive", !.writer = {w}] \in Calls
      BY <2>0, CallUpdate DEF Busy
    <3>3. call' = [call EXCEPT ![g] = [c EXCEPT !.pc = "derive", !.writer = {w}]]
      BY <3>1
    <3>4. encoder' \in [Writers -> Seq(Nat)] /\ buffer' \in [Writers -> Seq(Encodings)]
      BY <3>1, EmptyIsTyped
    <3> QED
      BY <3>2, <3>3, <3>4, <2>b, <2>6 DEF GetNew, handlerVars
  <2>7. CASE Derive(g)
    <3>1. /\ Head(c.below) \in Nat
          /\ Tail(c.below) \in Seq(Nat)
      BY <2>7, <2>0, HeadTailProperties DEF Derive
    <3>2. [c EXCEPT !.at = Head(c.below), !.below = Tail(c.below)] \in Calls
      BY <3>1, <2>0, CallUpdate
    <3>3. call' = [call EXCEPT ![g] = [c EXCEPT !.at = Head(c.below),
                                                !.below = Tail(c.below)]]
      BY <2>7 DEF Derive
    <3>4. encoder' \in [Writers -> Seq(Nat)]
      <4>1. \A w \in Writers : Append(encoder[w], Head(c.below)) \in Seq(Nat)
        BY <3>1, AppendProperties
      <4> QED
        BY <4>1, <2>7 DEF Derive
    <3> QED
      BY <3>2, <3>3, <3>4, <2>b, <2>7 DEF Derive, handlerVars
  <2>8. CASE Encode(g)
    <3>1. PICK w \in c.writer :
             buffer' \in {[buffer EXCEPT ![w] = <<Encoded(g, encoder[w])>>],
                          [buffer EXCEPT ![w] = <<>>]}
      BY <2>8 DEF Encode
    <3>2. Encoded(g, encoder[w]) \in Encodings
      BY <2>0 DEF Encoded, Encodings
    <3>3. <<Encoded(g, encoder[w])>> \in Seq(Encodings) /\ <<>> \in Seq(Encodings)
      BY <3>2, EmptyIsTyped
    <3>4. buffer' \in [Writers -> Seq(Encodings)]
      BY <3>1, <3>3, <2>0
    <3>5. [c EXCEPT !.pc = "ingest"] \in Calls
      BY <2>0, CallUpdate DEF Busy
    <3>6. call' = [call EXCEPT ![g] = [c EXCEPT !.pc = "ingest"]]
      BY <2>8 DEF Encode, Goto
    <3> QED
      BY <3>4, <3>5, <3>6, <2>b, <2>8 DEF Encode, handlerVars
  <2>9. CASE Ingest(g)
    <3>1. [c EXCEPT !.pc = "put"] \in Calls
      BY <2>0, CallUpdate DEF Busy
    <3>2. call' = [call EXCEPT ![g] = [c EXCEPT !.pc = "put"]]
      BY <2>9 DEF Ingest, Goto
    <3> QED
      BY <3>1, <3>2, <2>b, <2>9 DEF Ingest, handlerVars
  <2>10. CASE Put(g)
    <3>1. pool[c.handler] \cup c.writer \in SUBSET Writers
      BY <2>0
    <3>2. [pool EXCEPT ![c.handler] = @ \cup c.writer] \in Seq(SUBSET Writers)
      BY <3>1, <2>0, ExceptSeq
    <3>3. pool' \in Seq(SUBSET Writers)
      BY <3>2, <2>10 DEF Put
    <3> QED
      BY <3>3, <2>a, <2>10 DEF Put, Return, handlerVars
  <2> QED
    BY <1>7, <2>1, <2>2, <2>3, <2>4, <2>5, <2>6, <2>7, <2>8, <2>9, <2>10
<1> QED
  BY <1>0, <1>1, <1>2, <1>3, <1>4, <1>5, <1>6, <1>7 DEF Next

----------------------------------------------------------------------------
(* The tables of the handlers.                                             *)

LEMMA AppendRow ==
  ASSUME NEW S, NEW t \in Seq(S), NEW e \in S, NEW m \in Nat, Len(t) = m
  PROVE  /\ Len(Append(t, e)) = m + 1 /\ Append(t, e)[m + 1] = e
         /\ \A k \in 1 .. m : Append(t, e)[k] = t[k]
  BY AppendProperties

\* A new handler gets a row at the end of every table, and no other changes.
LEMMA Added ==
  ASSUME HandlerTypeOK, Lineage, NEW h \in Handlers, With(h)
  PROVE  LET n == Len(parents) + 1
         IN  /\ n \in Nat /\ n # Root /\ n \notin Handlers
             /\ Handlers' = Handlers \cup {n}
             /\ Len(parents') = n /\ Len(adds') = n /\ Len(fan') = n /\ Len(pool') = n
             /\ \A k \in Handlers :
                   /\ parents'[k] = parents[k] /\ adds'[k] = adds[k]
                   /\ fan'[k] = fan[k] /\ pool'[k] = pool[k]
             /\ parents'[n] = h /\ pool'[n] = {}
             /\ adds'[n] = Append(adds[h], n)
             /\ \A i \in DOMAIN fan'[n] : fan'[n][i].adds = Append(adds[h], n)
<1> DEFINE n == Len(parents) + 1
           row == [i \in DOMAIN fan[h] |-> [fan[h][i] EXCEPT !.adds = Append(@, n)]]
<1>1. /\ Handlers = 1 .. Len(parents) /\ Len(parents) \in Nat
      /\ Root \in Handlers
      /\ Len(adds) = Len(parents) /\ Len(fan) = Len(parents) /\ Len(pool) = Len(parents)
  BY Rows DEF Lineage
<1>2. /\ parents' = Append(parents, h)
      /\ adds' = Append(adds, Append(adds[h], n))
      /\ fan' = Append(fan, row)
      /\ pool' = Append(pool, {})
  BY DEF With
<1>3. n \in Nat /\ n # Root /\ n \notin Handlers
  BY <1>1 DEF Root
<1>4. /\ parents \in Seq(Nat) /\ adds \in Seq(Seq(Nat))
      /\ fan \in Seq(Seq(Fanned)) /\ pool \in Seq(SUBSET Writers)
  BY DEF HandlerTypeOK
<1>5. ASSUME NEW i \in DOMAIN fan[h]
      PROVE  [fan[h][i] EXCEPT !.adds = Append(@, n)].adds = Append(adds[h], n)
  <2>1. fan[h] \in Seq(Fanned)
    BY Rows
  <2>2. fan[h][i] \in Fanned
    BY <2>1
  <2>3. fan[h][i].adds = adds[h]
    BY DEF Lineage
  <2> QED
    BY <2>2, <2>3 DEF Fanned
<1>6. \A i \in DOMAIN row : row[i].adds = Append(adds[h], n)
  BY <1>5
<1> HIDE DEF row
<1>7. /\ Len(parents') = n /\ DOMAIN parents' = 1 .. n
      /\ parents'[n] = h /\ \A k \in 1 .. Len(parents) : parents'[k] = parents[k]
  BY <1>2, <1>4
<1>8. /\ Len(adds') = n
      /\ adds'[n] = Append(adds[h], n) /\ \A k \in 1 .. Len(parents) : adds'[k] = adds[k]
  <2>1. Append(adds[h], n) \in Seq(Nat)
    BY <1>3, Rows, AppendProperties
  <2>2. adds \in Seq(Seq(Nat)) /\ Len(adds) = Len(parents) /\ Len(parents) \in Nat
    BY <1>1, <1>4
  <2>3. /\ Len(Append(adds, Append(adds[h], n))) = Len(parents) + 1
        /\ Append(adds, Append(adds[h], n))[Len(parents) + 1] = Append(adds[h], n)
        /\ \A k \in 1 .. Len(parents) : Append(adds, Append(adds[h], n))[k] = adds[k]
    BY ONLY <2>1, <2>2, AppendRow
  <2> QED
    BY <2>3, <1>2
<1>9. /\ Len(fan') = n
      /\ fan'[n] = row /\ \A k \in 1 .. Len(parents) : fan'[k] = fan[k]
  <2>1. row \in Seq(Fanned)
    <3>1. /\ fan[h] \in Seq(Fanned) /\ Len(fan[h]) \in Nat
          /\ DOMAIN fan[h] = 1 .. Len(fan[h])
      BY Rows
    <3>2. ASSUME NEW i \in 1 .. Len(fan[h])
          PROVE  [fan[h][i] EXCEPT !.adds = Append(@, n)] \in Fanned
      <4>1. fan[h][i] \in Fanned
        BY <3>1, ElementOfSeq
      <4>2. Append(fan[h][i].adds, n) \in Seq(Nat)
        BY <4>1, <1>3, AppendProperties DEF Fanned
      <4> QED
        BY <4>1, <4>2 DEF Fanned
    <3> QED
      BY <3>1, <3>2, IsASeq DEF row
  <2>2. fan \in Seq(Seq(Fanned)) /\ Len(fan) = Len(parents) /\ Len(parents) \in Nat
    BY <1>1, <1>4
  <2>3. /\ Len(Append(fan, row)) = Len(parents) + 1
        /\ Append(fan, row)[Len(parents) + 1] = row
        /\ \A k \in 1 .. Len(parents) : Append(fan, row)[k] = fan[k]
    BY ONLY <2>1, <2>2, AppendRow
  <2> QED
    BY <2>3, <1>2
<1>10. /\ Len(pool') = n
       /\ pool'[n] = {} /\ \A k \in 1 .. Len(parents) : pool'[k] = pool[k]
  <2>1. {} \in SUBSET Writers
    OBVIOUS
  <2>2. pool \in Seq(SUBSET Writers) /\ Len(pool) = Len(parents) /\ Len(parents) \in Nat
    BY <1>1, <1>4
  <2>3. /\ Len(Append(pool, {})) = Len(parents) + 1
        /\ Append(pool, {})[Len(parents) + 1] = {}
        /\ \A k \in 1 .. Len(parents) : Append(pool, {})[k] = pool[k]
    BY ONLY <2>1, <2>2, AppendRow
  <2> QED
    BY <2>3, <1>2
<1>11. Handlers' = Handlers \cup {n}
  BY <1>1, <1>7 DEF Handlers
<1> QED
  BY <1>1, <1>3, <1>6, <1>7, <1>8, <1>9, <1>10, <1>11

LEMMA WithKeepsLineage ==
  ASSUME HandlerTypeOK, Lineage, NEW h \in Handlers, With(h)
  PROVE  Lineage'
<1> DEFINE n == Len(parents) + 1
<1>1. /\ n # Root /\ n \notin Handlers
      /\ Handlers' = Handlers \cup {n}
      /\ Len(parents') = n /\ Len(adds') = n /\ Len(fan') = n /\ Len(pool') = n
  BY Added
<1>2. \A k \in Handlers :
         /\ parents'[k] = parents[k] /\ adds'[k] = adds[k] /\ fan'[k] = fan[k]
  BY Added
<1>3. /\ parents'[n] = h /\ adds'[n] = Append(adds[h], n)
      /\ \A i \in DOMAIN fan'[n] : fan'[n][i].adds = Append(adds[h], n)
  BY Added
<1>4. Root \in Handlers /\ adds[Root] = <<>>
  BY DEF Lineage
<1> HIDE DEF n
<1>5. ASSUME NEW k \in (Derived)'
      PROVE  parents'[k] \in Handlers' /\ adds'[k] = Append(adds'[parents'[k]], k)
  <2>1. CASE k = n
    BY <2>1, <1>1, <1>2, <1>3
  <2>2. CASE k # n
    <3>1. k \in Derived
      BY <2>2, <1>1 DEF Derived
    <3>2. parents[k] \in Handlers /\ adds[k] = Append(adds[parents[k]], k)
      BY <3>1 DEF Lineage
    <3> QED
      BY <3>1, <3>2, <1>1, <1>2 DEF Derived
  <2> QED
    BY <2>1, <2>2
<1>6. ASSUME NEW k \in Handlers', NEW i \in DOMAIN fan'[k]
      PROVE  fan'[k][i].adds = adds'[k]
  <2>1. CASE k = n
    BY <2>1, <1>3
  <2>2. CASE k # n
    <3>1. k \in Handlers /\ fan'[k] = fan[k] /\ adds'[k] = adds[k]
      BY <2>2, <1>1, <1>2
    <3> QED
      BY <3>1 DEF Lineage
  <2> QED
    BY <2>1, <2>2
<1> QED
  BY <1>1, <1>2, <1>4, <1>5, <1>6 DEF Lineage

LEMMA FanoutEndKeepsLineage ==
  ASSUME HandlerTypeOK, Lineage, FanoutEnd
  PROVE  Lineage'
<1>1. PICK s \in fanning :
         fan' = [fan EXCEPT ![Root] = Append(@, [sink |-> s, adds |-> <<>>])]
  BY DEF FanoutEnd
<1>2. UNCHANGED <<parents, adds, pool>>
  BY DEF FanoutEnd
<1>3. Root \in Handlers /\ fan[Root] \in Seq(Fanned) /\ Root \in 1 .. Len(fan)
  BY Rows DEF Lineage
<1>4. [sink |-> s, adds |-> <<>>] \in Fanned
  BY <1>1, EmptyIsTyped DEF Fanned, HandlerTypeOK
<1> DEFINE row == Append(fan[Root], [sink |-> s, adds |-> <<>>])
<1>5. /\ row \in Seq(Fanned) /\ Len(row) = Len(fan[Root]) + 1
      /\ \A i \in 1 .. Len(fan[Root]) : row[i] = fan[Root][i]
      /\ row[Len(fan[Root]) + 1] = [sink |-> s, adds |-> <<>>]
  BY <1>3, <1>4, AppendProperties
<1>6. \A i \in DOMAIN row : row[i].adds = adds[Root]
  <2>1. adds[Root] = <<>> /\ \A i \in DOMAIN fan[Root] : fan[Root][i].adds = <<>>
    BY <1>3 DEF Lineage
  <2>2. DOMAIN row = 1 .. Len(fan[Root]) + 1 /\ DOMAIN fan[Root] = 1 .. Len(fan[Root])
        /\ Len(fan[Root]) \in Nat
    BY <1>3, <1>5
  <2> HIDE DEF row
  <2> QED
    BY <1>5, <2>1, <2>2
<1> HIDE DEF row
<1>7. /\ fan' = [fan EXCEPT ![Root] = row] /\ fan \in Seq(Seq(Fanned))
  BY <1>1 DEF row, HandlerTypeOK
<1>8. /\ Len(fan') = Len(fan)
      /\ \A k \in 1 .. Len(fan) : fan'[k] = IF k = Root THEN row ELSE fan[k]
  BY <1>7, <1>5, <1>3, ExceptSeq
<1>9. Handlers' = Handlers /\ (Derived)' = Derived /\ \A k \in Handlers : k \in 1 .. Len(fan)
  BY <1>2, Rows DEF Handlers, Derived
<1>10. ASSUME NEW k \in Handlers, NEW i \in DOMAIN fan'[k]
       PROVE  fan'[k][i].adds = adds[k]
  BY <1>6, <1>8, <1>9 DEF Lineage
<1> QED
  BY <1>2, <1>8, <1>9, <1>10 DEF Lineage

----------------------------------------------------------------------------
(* What a step leaves as it was.                                           *)

\* The invariant of a goroutine survives a step that changes neither its call
\* nor its writer nor the handlers that there were.
LEMMA CallKept ==
  ASSUME HandlerInv, NEW g \in Goroutines, call'[g] = call[g],
         Handlers \subseteq Handlers',
         \A k \in Handlers : parents'[k] = parents[k] /\ adds'[k] = adds[k],
         \A w \in call[g].writer : encoder'[w] = encoder[w] /\ buffer'[w] = buffer[w]
  PROVE  WayDown(call[g])' /\ HasWriter(call[g])' /\ CallFits(call[g])'
<1> DEFINE c == call[g]
<1>1. WayDown(c) /\ HasWriter(c) /\ CallFits(c)
  BY DEF HandlerInv
<1>2. c.at \in Handlers /\ c.handler \in Handlers /\ c.below \in Seq(Derived)
  BY <1>1 DEF WayDown
<1>3. Derived \subseteq (Derived)'
  BY DEF Derived
<1>4. c.below \in Seq((Derived)')
  BY <1>2, <1>3, SeqMonotonic
<1>5. Len(c.below) \in Nat /\ \A i \in 1 .. Len(c.below) : c.below[i] \in Handlers
  BY <1>2 DEF Derived
<1>6. c.below # <<>> => Len(c.below) > 0
  BY <1>2, EmptySeq
<1>7. WayDown(call[g])'
  <2>1. c.below # <<>> => parents'[c.below[1]] = parents[c.below[1]]
    BY <1>5, <1>6
  <2>2. \A i \in 1 .. Len(c.below) - 1 : parents'[c.below[i + 1]] = parents[c.below[i + 1]]
    BY <1>5
  <2> QED
    BY <1>1, <1>2, <1>4, <2>1, <2>2 DEF WayDown
<1>8. HasWriter(call[g])'
  BY <1>1 DEF HasWriter
<1>9. CallFits(call[g])'
  BY <1>1, <1>2 DEF CallFits
<1> QED
  BY <1>7, <1>8, <1>9

\* So do the pools and what was given away, if no writer enters a pool.
LEMMA PoolsKept ==
  ASSUME HandlerInv, UNCHANGED handlerVars,
         \A h \in Handlers : pool'[h] \subseteq pool[h],
         \A h \in Handlers : \A w \in pool'[h] : encoder'[w] = encoder[w]
  PROVE  PoolFits'
<1>1. Handlers' = Handlers /\ UNCHANGED adds
  BY DEF Handlers, handlerVars
<1> QED
  BY <1>1 DEF HandlerInv, PoolFits

LEMMA LineageKept ==
  ASSUME HandlerTypeOK, Lineage, UNCHANGED handlerVars,
         Len(pool') = Len(pool)
  PROVE  Lineage'
<1>1. Handlers' = Handlers /\ (Derived)' = Derived /\ UNCHANGED <<parents, adds, fan>>
  BY DEF Handlers, Derived, handlerVars
<1> QED
  BY <1>1 DEF Lineage

\* The other goroutines, when only writers change that none of them has.
LEMMA OthersKept ==
  ASSUME HandlerInv, NEW g \in Goroutines, NEW W, UNCHANGED handlerVars,
         \A f \in Goroutines \ {g} :
            call'[f] = call[f] /\ call[f].writer \cap W = {},
         \A w \in Writers \ W : encoder'[w] = encoder[w] /\ buffer'[w] = buffer[w]
  PROVE  \A f \in Goroutines \ {g} :
            WayDown(call[f])' /\ HasWriter(call[f])' /\ CallFits(call[f])'
<1> SUFFICES ASSUME NEW f \in Goroutines \ {g}
             PROVE  WayDown(call[f])' /\ HasWriter(call[f])' /\ CallFits(call[f])'
  OBVIOUS
<1>1. Handlers' = Handlers /\ UNCHANGED <<parents, adds>>
  BY DEF Handlers, handlerVars
<1>2. call[f].writer \in SUBSET Writers
  BY DEF HandlerInv, HandlerTypeOK, Calls
<1>3. \A w \in call[f].writer : encoder'[w] = encoder[w] /\ buffer'[w] = buffer[w]
  BY <1>2
<1> QED
  BY <1>1, <1>3, CallKept

\* A goroutine that gives its writer away or keeps it, and no pool that gets
\* any, leave writers with one user.
LEMMA OneUserKept ==
  ASSUME HandlerInv, NEW g \in Goroutines, Handlers' = Handlers,
         call'[g].writer \subseteq call[g].writer,
         \A f \in Goroutines \ {g} : call'[f] = call[f],
         \A h \in Handlers : pool'[h] \subseteq pool[h]
  PROVE  OneUser'
<1>1. OneUser
  BY DEF HandlerInv
<1>2. \A f \in Goroutines : call'[f].writer \subseteq call[f].writer
  OBVIOUS
<1> QED
  BY <1>1, <1>2 DEF OneUser

\* Nobody has a call any more, or not yet.
LEMMA NoCallFits ==
  ASSUME NEW g \in Goroutines, Lineage', call'[g] = NoCall
  PROVE  WayDown(call[g])' /\ HasWriter(call[g])' /\ CallFits(call[g])'
<1>1. Root \in Handlers'
  BY DEF Lineage
<1>2. <<>> \in Seq((Derived)') /\ Len(<<>>) = 0
  BY EmptyIsTyped
<1> QED
  BY <1>1, <1>2 DEF NoCall, WayDown, HasWriter, CallFits, Busy

\* What was given away stays whole while handlers stay what they are.
LEMMA OutKept ==
  ASSUME OutIsWhole, UNCHANGED <<handlerVars, out>>
  PROVE  OutIsWhole'
<1>1. Handlers' = Handlers
  BY DEF Handlers, handlerVars
<1> QED
  BY <1>1 DEF OutIsWhole, handlerVars

\* So it does when what is given away now is of one handler and whole.
LEMMA OutGrows ==
  ASSUME OutIsWhole, UNCHANGED handlerVars, NEW h \in Handlers,
         \A item \in out' :
            \/ item \in out
            \/ /\ item.handler = h
               /\ item.data = <<[adds |-> adds[h], record |-> item.record]>>
  PROVE  OutIsWhole'
<1>1. Handlers' = Handlers /\ UNCHANGED adds
  BY DEF Handlers, handlerVars
<1>2. ASSUME NEW item \in out'
      PROVE  /\ item.handler \in Handlers
             /\ item.data = <<[adds |-> adds[item.handler], record |-> item.record]>>
  <2>1. CASE item \in out
    BY <2>1 DEF OutIsWhole
  <2>2. CASE /\ item.handler = h
             /\ item.data = <<[adds |-> adds[h], record |-> item.record]>>
    BY ONLY <2>2, h \in Handlers
  <2> QED
    BY <2>1, <2>2
<1> QED
  BY <1>1, <1>2 DEF OutIsWhole

\* HandlerInv after a step of g is what is left to prove of it.
LEMMA OwnStep ==
  ASSUME HandlerInv, [Next]_vars, NEW g \in Goroutines, NEW W,
         UNCHANGED handlerVars, Len(pool') = Len(pool),
         \A f \in Goroutines \ {g} :
            call'[f] = call[f] /\ call[f].writer \cap W = {},
         \A w \in Writers \ W : encoder'[w] = encoder[w] /\ buffer'[w] = buffer[w],
         OneUser', PoolFits', OutIsWhole',
         WayDown(call[g])' /\ HasWriter(call[g])' /\ CallFits(call[g])'
  PROVE  HandlerInv'
<1>1. HandlerTypeOK'
  BY TypeStep
<1>2. Lineage'
  BY LineageKept DEF HandlerInv
<1>3. \A f \in Goroutines \ {g} :
         WayDown(call[f])' /\ HasWriter(call[f])' /\ CallFits(call[f])'
  BY OthersKept
<1> QED
  BY <1>1, <1>2, <1>3 DEF HandlerInv

----------------------------------------------------------------------------
(* The steps of the handlers and of the garbage collector.                 *)

LEMMA HandlersStep ==
  ASSUME HandlerInv, [Next]_vars,
         \/ UNCHANGED vars
         \/ \E s \in Sinks : FanoutBegin(s)
         \/ FanoutEnd
         \/ TornRead
  PROVE  HandlerInv'
<1>1. HandlerTypeOK'
  BY TypeStep
<1>2. /\ UNCHANGED <<parents, adds, pool, encoder, buffer, call, out>>
      /\ UNCHANGED fan \/ FanoutEnd
  BY DEF vars, handlerVars, FanoutBegin, FanoutEnd, TornRead
<1>3. Lineage'
  <2>1. CASE FanoutEnd
    BY <2>1, FanoutEndKeepsLineage DEF HandlerInv
  <2>2. CASE UNCHANGED fan
    BY <1>2, <2>2 DEF HandlerInv, Lineage, Handlers, Derived
  <2> QED
    BY <1>2, <2>1, <2>2
<1>4. Handlers' = Handlers
  BY <1>2 DEF Handlers
<1>5. OneUser' /\ PoolFits' /\ OutIsWhole'
  BY <1>2, <1>4 DEF HandlerInv, OneUser, PoolFits, OutIsWhole
<1>6. \A g \in Goroutines :
         WayDown(call[g])' /\ HasWriter(call[g])' /\ CallFits(call[g])'
  BY <1>2, <1>4, CallKept
<1> QED
  BY <1>1, <1>3, <1>5, <1>6 DEF HandlerInv

LEMMA WithStep ==
  ASSUME HandlerInv, [Next]_vars, NEW h \in Handlers, With(h)
  PROVE  HandlerInv'
<1> DEFINE n == Len(parents) + 1
<1>1. HandlerTypeOK' /\ Lineage'
  BY TypeStep, WithKeepsLineage DEF HandlerInv
<1>2. /\ n \notin Handlers
      /\ Handlers' = Handlers \cup {n}
      /\ \A k \in Handlers :
            parents'[k] = parents[k] /\ adds'[k] = adds[k] /\ pool'[k] = pool[k]
      /\ pool'[n] = {}
  BY Added DEF HandlerInv
<1>3. UNCHANGED <<encoder, buffer, call, out>>
  BY DEF With
<1> HIDE DEF n
<1>4. OneUser'
  BY <1>2, <1>3 DEF HandlerInv, OneUser
<1>5. PoolFits'
  BY <1>2, <1>3 DEF HandlerInv, PoolFits
<1>6. \A g \in Goroutines :
         WayDown(call[g])' /\ HasWriter(call[g])' /\ CallFits(call[g])'
  <2> SUFFICES ASSUME NEW g \in Goroutines
               PROVE  WayDown(call[g])' /\ HasWriter(call[g])' /\ CallFits(call[g])'
    OBVIOUS
  <2> QED
    BY <1>2, <1>3, CallKept
<1>7. OutIsWhole'
  BY <1>2, <1>3 DEF HandlerInv, OutIsWhole
<1> QED
  BY <1>1, <1>4, <1>5, <1>6, <1>7 DEF HandlerInv

LEMMA CollectStep ==
  ASSUME HandlerInv, [Next]_vars, NEW h \in Handlers, NEW w \in Writers, Collect(h, w)
  PROVE  HandlerInv'
<1>1. /\ UNCHANGED <<handlerVars, encoder, buffer, call, out>>
      /\ pool' = [pool EXCEPT ![h] = @ \ {w}]
  BY DEF Collect
<1>2. pool \in Seq(SUBSET Writers) /\ DOMAIN pool = Handlers
  BY Rows DEF HandlerInv, HandlerTypeOK
<1>3. Len(pool') = Len(pool) /\ \A k \in Handlers : pool'[k] \subseteq pool[k]
  BY <1>1, <1>2
<1>4. Handlers' = Handlers
  BY <1>1 DEF Handlers, handlerVars
<1>5. HandlerTypeOK' /\ Lineage'
  BY <1>1, <1>3, TypeStep, LineageKept DEF HandlerInv
<1>6. PoolFits'
  BY <1>1, <1>3, PoolsKept
<1>7. OneUser'
  BY <1>1, <1>3, <1>4 DEF HandlerInv, OneUser
<1>8. OutIsWhole'
  BY <1>1, OutKept DEF HandlerInv
<1>9. \A g \in Goroutines :
         WayDown(call[g])' /\ HasWriter(call[g])' /\ CallFits(call[g])'
  BY <1>1, <1>4, CallKept DEF handlerVars
<1> QED
  BY <1>5, <1>6, <1>7, <1>8, <1>9 DEF HandlerInv

----------------------------------------------------------------------------
(* The steps of Handle.                                                    *)

\* What the proofs of the steps start from.
LEMMA Holds ==
  ASSUME HandlerInv, NEW g \in Goroutines
  PROVE  /\ call[g] \in Calls /\ DOMAIN call = Goroutines
         /\ WayDown(call[g]) /\ HasWriter(call[g]) /\ CallFits(call[g])
         /\ call[g].at \in Handlers /\ call[g].handler \in Handlers
         /\ call[g].writer \in SUBSET Writers
         /\ DOMAIN pool = Handlers /\ pool \in Seq(SUBSET Writers)
         /\ DOMAIN encoder = Writers /\ DOMAIN buffer = Writers
<1>1. HandlerTypeOK /\ Lineage
  BY DEF HandlerInv
<1>2. DOMAIN pool = Handlers
  BY <1>1, Rows
<1> QED
  BY <1>1, <1>2 DEF HandlerInv, HandlerTypeOK, Calls, WayDown

\* Steps that change nothing but the caller's own call, and keep its writer or
\* drop it.
LEMMA QuietStep ==
  ASSUME HandlerInv, [Next]_vars, NEW g \in Goroutines,
         UNCHANGED <<handlerVars, pool, encoder, buffer>>,
         NEW d, call' = [call EXCEPT ![g] = d], d.writer \subseteq call[g].writer,
         OutIsWhole',
         WayDown(d) /\ HasWriter(d) /\ CallFits(d)
  PROVE  HandlerInv'
<1>1. call'[g] = d /\ \A f \in Goroutines \ {g} : call'[f] = call[f]
  BY Holds
<1>2. Handlers' = Handlers /\ (Derived)' = Derived /\ UNCHANGED <<parents, adds>>
  BY DEF Handlers, Derived, handlerVars
<1>3. OneUser'
  BY <1>1, <1>2, OneUserKept
<1>4. PoolFits'
  BY PoolsKept
<1>5. WayDown(call[g])' /\ HasWriter(call[g])' /\ CallFits(call[g])'
  BY <1>1, <1>2 DEF WayDown, HasWriter, CallFits
<1>6. \A f \in Goroutines \ {g} : call'[f] = call[f] /\ call[f].writer \cap {} = {}
  BY <1>1
<1>7. \A w \in Writers \ {} : encoder'[w] = encoder[w] /\ buffer'[w] = buffer[w]
  OBVIOUS
<1> QED
  BY <1>3, <1>4, <1>5, <1>6, <1>7, OwnStep

LEMMA HandleStep ==
  ASSUME HandlerInv, [Next]_vars, NEW g \in Goroutines, NEW h \in Handlers,
         NEW r \in todo, Handle(g, h, r)
  PROVE  HandlerInv'
<1> DEFINE d == [pc |-> "fan", handler |-> h, record |-> {r}, rest |-> fan[h],
                 at |-> h, below |-> <<>>, writer |-> {}]
<1>1. call' = [call EXCEPT ![g] = d]
      /\ UNCHANGED <<handlerVars, pool, encoder, buffer, out>>
  BY DEF Handle
<1>2. <<>> \in Seq(Derived) /\ Len(<<>>) = 0
  BY EmptyIsTyped
<1>3. WayDown(d) /\ HasWriter(d)
  BY <1>2 DEF WayDown, HasWriter, Busy
<1>4. CallFits(d)
  BY DEF CallFits, HandlerInv, Lineage
<1>5. OutIsWhole'
  BY <1>1, OutKept DEF HandlerInv
<1>6. d.writer \subseteq call[g].writer
  OBVIOUS
<1> HIDE DEF d
<1> QED
  BY <1>1, <1>3, <1>4, <1>5, <1>6, QuietStep

LEMMA FanOutStep ==
  ASSUME HandlerInv, [Next]_vars, NEW g \in Goroutines, FanOut(g)
  PROVE  HandlerInv'
<1> DEFINE c == call[g]
           d == [c EXCEPT !.rest = Tail(c.rest)]
           f == Head(c.rest)
<1>1. /\ c \in Calls /\ c.pc = "fan" /\ c.rest \in Seq(Fanned) /\ c.rest # <<>>
      /\ WayDown(c) /\ HasWriter(c) /\ CallFits(c) /\ c.handler \in Handlers
  BY Holds DEF FanOut, At, Calls
<1>2. /\ call' = [call EXCEPT ![g] = d]
      /\ UNCHANGED <<handlerVars, pool, encoder, buffer>>
      /\ out' \in {out, out \cup {Item(g, {f.sink}, <<Encoded(g, f.adds)>>)}}
  BY DEF FanOut
<1>3. /\ f = c.rest[1] /\ Len(c.rest) \in Nat \ {0}
      /\ Len(Tail(c.rest)) = Len(c.rest) - 1 /\ Tail(c.rest) \in Seq(Fanned)
      /\ \A i \in 1 .. Len(c.rest) - 1 : Tail(c.rest)[i] = c.rest[i + 1]
  BY <1>1, HeadTailProperties, EmptySeq
<1>4. \A i \in 1 .. Len(c.rest) : c.rest[i].adds = adds[c.handler]
  BY <1>1 DEF CallFits
<1>5. f.adds = adds[c.handler]
  BY <1>3, <1>4
<1>6. \A i \in DOMAIN Tail(c.rest) : Tail(c.rest)[i].adds = adds[c.handler]
  BY <1>3, <1>4
<1>7. /\ d.pc = "fan" /\ d.rest = Tail(c.rest) /\ d.handler = c.handler
      /\ d.at = c.at /\ d.below = c.below /\ d.writer = c.writer
      /\ d.record = c.record
  BY <1>1 DEF Calls
<1> HIDE DEF d, f
<1>8. WayDown(d) /\ HasWriter(d)
  BY <1>1, <1>7 DEF WayDown, HasWriter
<1>9. CallFits(d)
  BY <1>1, <1>6, <1>7 DEF CallFits
<1>10. OutIsWhole'
  <2>1. Encoded(g, f.adds) = [adds |-> adds[c.handler], record |-> c.record]
    BY <1>5 DEF Encoded
  <2>2. ASSUME NEW item \in out', item \notin out
        PROVE  /\ item.handler = c.handler
               /\ item.data = <<[adds |-> adds[c.handler], record |-> item.record]>>
    <3>1. item = Item(g, {f.sink}, <<Encoded(g, f.adds)>>)
      BY <2>2, <1>2
    <3>2. /\ item.handler = c.handler /\ item.record = c.record
          /\ item.data = <<Encoded(g, f.adds)>>
      BY <3>1 DEF Item
    <3> QED
      BY <2>1, <3>2
  <2> QED
    BY <2>2, <1>1, <1>2, OutGrows DEF HandlerInv
<1> QED
  BY <1>2, <1>7, <1>8, <1>9, <1>10, QuietStep

LEMMA FanOutEndStep ==
  ASSUME HandlerInv, [Next]_vars, NEW g \in Goroutines, FanOutEnd(g)
  PROVE  HandlerInv'
<1> DEFINE c == call[g]
           d == [c EXCEPT !.pc = "get"]
<1>1. /\ c \in Calls /\ c.pc = "fan"
      /\ WayDown(c) /\ HasWriter(c) /\ CallFits(c)
  BY Holds DEF FanOutEnd, At
<1>2. /\ call' = [call EXCEPT ![g] = d]
      /\ UNCHANGED <<handlerVars, pool, encoder, buffer, out>>
  BY DEF FanOutEnd, Goto
<1>3. /\ d.pc = "get" /\ d.rest = c.rest /\ d.handler = c.handler
      /\ d.at = c.at /\ d.below = c.below /\ d.writer = c.writer
      /\ d.record = c.record
  BY <1>1 DEF Calls
<1> HIDE DEF d
<1>4. WayDown(d) /\ HasWriter(d) /\ CallFits(d)
  BY <1>1, <1>3 DEF WayDown, HasWriter, CallFits, Busy
<1>5. OutIsWhole'
  BY <1>2, OutKept DEF HandlerInv
<1> QED
  BY <1>2, <1>3, <1>4, <1>5, QuietStep

LEMMA ReturnStep ==
  ASSUME HandlerInv, [Next]_vars, NEW g \in Goroutines,
         NotEnabled(g) \/ EncodeFails(g)
  PROVE  HandlerInv'
<1>1. /\ call' = [call EXCEPT ![g] = NoCall]
      /\ UNCHANGED <<handlerVars, pool, encoder, buffer, out>>
  BY DEF NotEnabled, EncodeFails, Return
<1>2. Root \in Handlers /\ <<>> \in Seq(Derived) /\ Len(<<>>) = 0
  BY EmptyIsTyped DEF HandlerInv, Lineage
<1>3. WayDown(NoCall) /\ HasWriter(NoCall) /\ CallFits(NoCall)
  BY <1>2 DEF NoCall, WayDown, HasWriter, CallFits, Busy
<1>4. OutIsWhole' /\ NoCall.writer \subseteq call[g].writer
  BY <1>1, OutKept DEF HandlerInv, NoCall
<1> QED
  BY <1>1, <1>3, <1>4, QuietStep

LEMMA GetFromParentStep ==
  ASSUME HandlerInv, [Next]_vars, NEW g \in Goroutines, GetFromParent(g)
  PROVE  HandlerInv'
<1> DEFINE c == call[g]
           down == <<c.at>> \o c.below
           d == [c EXCEPT !.at = parents[c.at], !.below = down]
<1>1. /\ c \in Calls /\ c.pc = "get" /\ c.at \in Derived
      /\ WayDown(c) /\ HasWriter(c) /\ CallFits(c) /\ c.handler \in Handlers
  BY Holds DEF GetFromParent, At, Derived
<1>2. /\ call' = [call EXCEPT ![g] = d]
      /\ UNCHANGED <<handlerVars, pool, encoder, buffer, out>>
  BY DEF GetFromParent
<1>3. parents[c.at] \in Handlers
  BY <1>1 DEF HandlerInv, Lineage
<1>4. /\ d.pc = "get" /\ d.rest = c.rest /\ d.handler = c.handler
      /\ d.at = parents[c.at] /\ d.below = down /\ d.writer = c.writer
      /\ d.record = c.record
  BY <1>1 DEF Calls
<1>5. c.below \in Seq(Derived)
  BY <1>1 DEF WayDown
<1>6. /\ down \in Seq(Derived) /\ Len(down) = Len(c.below) + 1 /\ Len(c.below) \in Nat
      /\ down[1] = c.at /\ \A i \in 1 .. Len(c.below) : down[i + 1] = c.below[i]
  BY <1>1, <1>5, PushPop
<1> HIDE DEF d, down
<1>7. down # <<>>
  BY <1>6
<1>8. down[Len(down)] = c.handler
  <2>1. CASE c.below = <<>>
    <3>1. Len(c.below) = 0 /\ c.at = c.handler
      BY <2>1, <1>1, EmptyIsTyped DEF WayDown
    <3> QED
      BY <3>1, <1>6
  <2>2. CASE c.below # <<>>
    <3>1. Len(c.below) \in Nat \ {0}
      BY <2>2, <1>5, EmptySeq
    <3>2. down[Len(c.below) + 1] = c.below[Len(c.below)]
      BY <3>1, <1>6
    <3> QED
      BY <3>2, <2>2, <1>1, <1>6 DEF WayDown
  <2> QED
    BY <2>1, <2>2
<1>9. \A i \in 1 .. Len(down) - 1 : parents[down[i + 1]] = down[i]
  <2> SUFFICES ASSUME NEW i \in 1 .. Len(down) - 1
               PROVE  parents[down[i + 1]] = down[i]
    OBVIOUS
  <2>1. i \in 1 .. Len(c.below) /\ down[i + 1] = c.below[i]
    BY <1>6
  <2>2. CASE i = 1
    <3>1. c.below # <<>>
      BY <2>1, EmptyIsTyped
    <3> QED
      BY <3>1, <2>1, <2>2, <1>1, <1>6 DEF WayDown
  <2>3. CASE i # 1
    <3>1. /\ i - 1 \in 1 .. Len(c.below) - 1 /\ (i - 1) + 1 = i
          /\ i - 1 \in 1 .. Len(c.below)
      BY <2>1, <2>3, <1>6
    <3>2. parents[c.below[i]] = c.below[i - 1]
      BY <3>1, <1>1 DEF WayDown
    <3>3. down[i] = c.below[i - 1]
      BY <3>1, <1>6
    <3> QED
      BY <2>1, <3>2, <3>3
  <2> QED
    BY <2>2, <2>3
<1>10. WayDown(d)
  BY <1>1, <1>3, <1>4, <1>6, <1>7, <1>8, <1>9 DEF WayDown
<1>11. HasWriter(d) /\ CallFits(d)
  <2>1. c.writer = {}
    BY <1>1 DEF HasWriter, Busy
  <2> QED
    BY <2>1, <1>1, <1>4 DEF HasWriter, CallFits, Busy
<1>12. OutIsWhole'
  BY <1>2, OutKept DEF HandlerInv
<1> QED
  BY <1>2, <1>4, <1>10, <1>11, <1>12, QuietStep

LEMMA IngestStep ==
  ASSUME HandlerInv, [Next]_vars, NEW g \in Goroutines, Ingest(g)
  PROVE  HandlerInv'
<1> DEFINE c == call[g]
           d == [c EXCEPT !.pc = "put"]
<1>1. /\ c \in Calls /\ c.pc = "ingest"
      /\ WayDown(c) /\ HasWriter(c) /\ CallFits(c) /\ c.handler \in Handlers
  BY Holds DEF Ingest, At
<1>2. /\ call' = [call EXCEPT ![g] = d]
      /\ UNCHANGED <<handlerVars, pool, encoder, buffer>>
  BY DEF Ingest, Goto
<1>3. /\ d.pc = "put" /\ d.rest = c.rest /\ d.handler = c.handler
      /\ d.at = c.at /\ d.below = c.below /\ d.writer = c.writer
      /\ d.record = c.record
  BY <1>1 DEF Calls
<1> HIDE DEF d
<1>4. WayDown(d) /\ HasWriter(d) /\ CallFits(d)
  BY <1>1, <1>3 DEF WayDown, HasWriter, CallFits, Busy
<1>5. OutIsWhole'
  <2>1. PICK w \in c.writer :
           out' = IF buffer[w] = <<>> THEN out ELSE out \cup {Item(g, {}, buffer[w])}
    BY DEF Ingest
  <2>2. buffer[w] # <<>> =>
           buffer[w] = <<[adds |-> adds[c.handler], record |-> c.record]>>
    BY <1>1 DEF CallFits
  <2>3. ASSUME NEW item \in out', item \notin out
        PROVE  /\ item.handler = c.handler
               /\ item.data = <<[adds |-> adds[c.handler], record |-> item.record]>>
    <3>1. item = Item(g, {}, buffer[w]) /\ buffer[w] # <<>>
      BY <2>1, <2>3
    <3>2. /\ item.handler = c.handler /\ item.record = c.record
          /\ item.data = buffer[w]
      BY <3>1 DEF Item
    <3> QED
      BY <2>2, <3>1, <3>2
  <2> QED
    BY <2>3, <1>1, <1>2, OutGrows DEF HandlerInv
<1> QED
  BY <1>2, <1>3, <1>4, <1>5, QuietStep

LEMMA GetPooledStep ==
  ASSUME HandlerInv, [Next]_vars, NEW g \in Goroutines, GetPooled(g)
  PROVE  HandlerInv'
<1> DEFINE c == call[g]
<1>1. /\ c \in Calls /\ c.pc = "get" /\ c.at \in Handlers
      /\ WayDown(c) /\ HasWriter(c) /\ CallFits(c)
      /\ DOMAIN pool = Handlers /\ pool \in Seq(SUBSET Writers)
  BY Holds DEF GetPooled, At
<1>2. PICK w \in pool[c.at] :
         /\ pool' = [pool EXCEPT ![c.at] = @ \ {w}]
         /\ call' = [call EXCEPT ![g].pc = "derive", ![g].writer = {w}]
  BY DEF GetPooled, Taken
<1>3. UNCHANGED <<handlerVars, encoder, buffer, out>>
  BY DEF GetPooled
<1>4. /\ \A f \in Goroutines \ {g} : call'[f] = call[f]
      /\ call'[g].pc = "derive" /\ call'[g].writer = {w}
      /\ call'[g].handler = c.handler /\ call'[g].at = c.at
      /\ call'[g].below = c.below
  BY <1>1, <1>2, Holds DEF Calls
<1>5. /\ Handlers' = Handlers /\ (Derived)' = Derived /\ UNCHANGED <<parents, adds>>
      /\ Len(pool') = Len(pool)
      /\ \A h \in Handlers : pool'[h] = IF h = c.at THEN pool[h] \ {w} ELSE pool[h]
  <2>1. Len(pool') = Len(pool) /\ DOMAIN pool' = Handlers
    BY <1>1, <1>2
  <2>2. \A h \in Handlers : pool'[h] = IF h = c.at THEN pool[h] \ {w} ELSE pool[h]
    BY <1>1, <1>2
  <2> QED
    BY <2>1, <2>2, <1>3 DEF Handlers, Derived, handlerVars
<1>6. OneUser'
  <2>1. OneUser
    BY DEF HandlerInv
  <2>2. \A h, k \in Handlers : h # k => pool'[h] \cap pool'[k] = {}
    BY <1>5, <2>1 DEF OneUser
  <2>3. \A f \in Goroutines, h \in Handlers : call'[f].writer \cap pool'[h] = {}
    <3> SUFFICES ASSUME NEW f \in Goroutines, NEW h \in Handlers
                 PROVE  call'[f].writer \cap pool'[h] = {}
      OBVIOUS
    <3>1. call[f].writer \cap pool[h] = {} /\ pool'[h] \subseteq pool[h]
      BY <1>5, <2>1 DEF OneUser
    <3>2. w \notin pool'[h]
      BY <1>1, <1>2, <1>5, <2>1 DEF OneUser
    <3>3. f # g => call'[f].writer = call[f].writer
      BY <1>4
    <3> QED
      BY <1>4, <3>1, <3>2, <3>3
  <2>4. \A f \in Goroutines \ {g} : w \notin call[f].writer
    BY <1>1, <2>1 DEF OneUser
  <2>5. \A f, e \in Goroutines : f # e => call'[f].writer \cap call'[e].writer = {}
    BY <1>4, <2>1, <2>4 DEF OneUser
  <2> QED
    BY <1>5, <2>2, <2>3, <2>5 DEF OneUser
<1>7. PoolFits'
  BY <1>3, <1>5, PoolsKept
<1>8. OutIsWhole'
  BY <1>3, OutKept DEF HandlerInv
<1>9. WayDown(call[g])' /\ HasWriter(call[g])'
  BY <1>1, <1>4, <1>5 DEF WayDown, HasWriter, Busy
<1>10. CallFits(call[g])'
  BY <1>1, <1>3, <1>4, <1>5 DEF CallFits, HandlerInv, PoolFits
<1>11. \A f \in Goroutines \ {g} : call'[f] = call[f] /\ call[f].writer \cap {} = {}
  BY <1>4
<1>12. \A v \in Writers \ {} : encoder'[v] = encoder[v] /\ buffer'[v] = buffer[v]
  BY <1>3
<1> QED
  BY <1>3, <1>5, <1>6, <1>7, <1>8, <1>9, <1>10, <1>11, <1>12, OwnStep

LEMMA GetNewStep ==
  ASSUME HandlerInv, [Next]_vars, NEW g \in Goroutines, GetNew(g)
  PROVE  HandlerInv'
<1> DEFINE c == call[g]
<1>1. /\ c \in Calls /\ c.pc = "get" /\ c.at = Root /\ c.at \in Handlers
      /\ WayDown(c) /\ HasWriter(c) /\ CallFits(c)
      /\ DOMAIN encoder = Writers /\ DOMAIN buffer = Writers
  BY Holds DEF GetNew, At
<1>2. PICK w \in Writers \ InUse :
         /\ encoder' = [encoder EXCEPT ![w] = <<>>]
         /\ buffer' = [buffer EXCEPT ![w] = <<>>]
         /\ call' = [call EXCEPT ![g].pc = "derive", ![g].writer = {w}]
  BY DEF GetNew
<1>3. UNCHANGED <<handlerVars, pool, out>>
  BY DEF GetNew
<1>4. /\ \A f \in Goroutines \ {g} : call'[f] = call[f]
      /\ call'[g].pc = "derive" /\ call'[g].writer = {w}
      /\ call'[g].handler = c.handler /\ call'[g].at = c.at
      /\ call'[g].below = c.below
  BY <1>1, <1>2, Holds DEF Calls
<1>5. /\ \A h \in Handlers : w \notin pool[h]
      /\ \A f \in Goroutines : w \notin call[f].writer
  <2>1. w \notin UNION {pool[h] : h \in Handlers}
        /\ w \notin UNION {call[f].writer : f \in Goroutines}
    BY <1>2 DEF InUse
  <2> QED
    BY ONLY <2>1, Zenon
<1>6. /\ encoder'[w] = <<>>
      /\ \A v \in Writers \ {w} : encoder'[v] = encoder[v] /\ buffer'[v] = buffer[v]
  BY <1>1, <1>2
<1>7. Handlers' = Handlers /\ (Derived)' = Derived /\ UNCHANGED <<parents, adds>>
  BY <1>3 DEF Handlers, Derived, handlerVars
<1>8. OneUser'
  <2>1. OneUser
    BY DEF HandlerInv
  <2>2. \A f \in Goroutines, h \in Handlers : call'[f].writer \cap pool[h] = {}
    BY <1>4, <1>5, <2>1 DEF OneUser
  <2>3. \A f, e \in Goroutines : f # e => call'[f].writer \cap call'[e].writer = {}
    BY <1>4, <1>5, <2>1 DEF OneUser
  <2> QED
    BY <1>3, <1>7, <2>1, <2>2, <2>3 DEF OneUser
<1>9. PoolFits'
  <2>1. \A h \in Handlers : \A v \in pool[h] : encoder'[v] = encoder[v]
    <3>1. \A h \in Handlers : pool[h] \in SUBSET Writers
      BY Rows DEF HandlerInv
    <3> QED
      BY <3>1, <1>5, <1>6
  <2> QED
    BY <1>3, <2>1, PoolsKept
<1>10. OutIsWhole'
  BY <1>3, OutKept DEF HandlerInv
<1>11. WayDown(call[g])' /\ HasWriter(call[g])'
  BY <1>1, <1>4, <1>7 DEF WayDown, HasWriter, Busy
<1>12. CallFits(call[g])'
  BY <1>1, <1>4, <1>6, <1>7 DEF CallFits, HandlerInv, Lineage
<1>13. \A f \in Goroutines \ {g} : call'[f] = call[f] /\ call[f].writer \cap {w} = {}
  BY <1>4, <1>5
<1> QED
  BY <1>3, <1>6, <1>8, <1>9, <1>10, <1>11, <1>12, <1>13, OwnStep

LEMMA DeriveStep ==
  ASSUME HandlerInv, [Next]_vars, NEW g \in Goroutines, Derive(g)
  PROVE  HandlerInv'
<1> DEFINE c == call[g]
           n == Head(c.below)
           up == Tail(c.below)
<1>1. /\ c \in Calls /\ c.pc = "derive" /\ c.below # <<>> /\ c.at \in Handlers
      /\ WayDown(c) /\ HasWriter(c) /\ CallFits(c) /\ c.handler \in Handlers
      /\ c.writer \in SUBSET Writers
  BY Holds DEF Derive, At
<1>2. /\ encoder' = [w \in Writers |-> IF w \in c.writer THEN Append(encoder[w], n)
                                       ELSE encoder[w]]
      /\ call' = [call EXCEPT ![g].at = n, ![g].below = up]
      /\ UNCHANGED <<handlerVars, pool, buffer, out>>
  BY DEF Derive
<1>3. /\ \A f \in Goroutines \ {g} : call'[f] = call[f]
      /\ call'[g].pc = "derive" /\ call'[g].writer = c.writer
      /\ call'[g].handler = c.handler /\ call'[g].at = n
      /\ call'[g].below = up
  BY <1>1, <1>2, Holds DEF Calls
<1>4. c.below \in Seq(Derived) /\ Len(c.below) \in Nat \ {0}
  BY <1>1, EmptySeq DEF WayDown
<1>5. /\ n = c.below[1] /\ n \in Derived
      /\ up \in Seq(Derived) /\ Len(up) = Len(c.below) - 1
      /\ \A i \in 1 .. Len(c.below) - 1 : up[i] = c.below[i + 1]
  BY <1>1, <1>4, HeadTailProperties
<1>6. Handlers' = Handlers /\ (Derived)' = Derived /\ UNCHANGED <<parents, adds>>
  BY <1>2 DEF Handlers, Derived, handlerVars
<1> HIDE DEF n, up
<1>7. /\ c.at = parents[n] /\ adds[n] = Append(adds[c.at], n)
      /\ c.below[Len(c.below)] = c.handler
      /\ \A i \in 1 .. Len(c.below) - 1 : parents[c.below[i + 1]] = c.below[i]
  BY <1>1, <1>5 DEF WayDown, HandlerInv, Lineage
<1>8. WayDown(call[g])'
  <2>1. up = <<>> => n = c.handler
    <3>1. up = <<>> => Len(c.below) = 1
      BY <1>4, <1>5, EmptyIsTyped
    <3> QED
      BY <3>1, <1>5, <1>7
  <2>2. ASSUME up # <<>>
        PROVE  n = parents[up[1]] /\ up[Len(up)] = c.handler
    <3>1. Len(up) \in Nat \ {0}
      BY <2>2, <1>5, EmptySeq
    <3>2. /\ 1 \in 1 .. Len(c.below) - 1
          /\ Len(up) \in 1 .. Len(c.below) - 1
          /\ Len(up) + 1 = Len(c.below)
      <4>1. Len(up) = Len(c.below) - 1 /\ Len(c.below) \in Nat
        BY <1>4, <1>5
      <4>2. \A m, k \in Nat : m = k - 1 /\ m # 0 =>
               1 \in 1 .. k - 1 /\ m \in 1 .. k - 1 /\ m + 1 = k
        OBVIOUS
      <4> QED
        BY ONLY <3>1, <4>1, <4>2
    <3>3. up[1] = c.below[1 + 1] /\ up[Len(up)] = c.below[Len(c.below)]
      BY <3>2, <1>5
    <3>4. parents[c.below[1 + 1]] = c.below[1]
      BY <3>2, <1>7
    <3> QED
      BY <3>3, <3>4, <1>5, <1>7
  <2>3. ASSUME NEW i \in 1 .. Len(up) - 1
        PROVE  parents[up[i + 1]] = up[i]
    <3>1. i \in 1 .. Len(c.below) - 1 /\ i + 1 \in 1 .. Len(c.below) - 1
      BY <1>4, <1>5
    <3>2. up[i + 1] = c.below[(i + 1) + 1] /\ up[i] = c.below[i + 1]
      BY <3>1, <1>5
    <3>3. parents[c.below[(i + 1) + 1]] = c.below[i + 1]
      BY <3>1, <1>7
    <3> QED
      BY <3>2, <3>3
  <2>4. n \in Handlers
    BY <1>5 DEF Derived
  <2> QED
    BY <1>1, <1>3, <1>5, <1>6, <2>1, <2>2, <2>3, <2>4 DEF WayDown
<1>9. HasWriter(call[g])'
  BY <1>1, <1>3 DEF HasWriter
<1>10. CallFits(call[g])'
  <2>1. \A w \in c.writer : encoder'[w] = adds[n]
    BY <1>1, <1>2, <1>7 DEF CallFits
  <2> QED
    BY <1>3, <1>6, <2>1 DEF CallFits
<1>11. OneUser'
  BY <1>2, <1>3, <1>6, OneUserKept
<1>12. PoolFits'
  <2>1. \A h \in Handlers : pool[h] \in SUBSET Writers /\ c.writer \cap pool[h] = {}
    BY Rows DEF HandlerInv, OneUser
  <2>2. \A h \in Handlers : \A w \in pool[h] : encoder'[w] = encoder[w]
    BY <1>2, <2>1
  <2> QED
    BY <1>2, <2>2, PoolsKept
<1>13. OutIsWhole'
  BY <1>2, OutKept DEF HandlerInv
<1>14. \A f \in Goroutines \ {g} : call'[f] = call[f] /\ call[f].writer \cap c.writer = {}
  BY <1>3 DEF HandlerInv, OneUser
<1>15. \A w \in Writers \ c.writer : encoder'[w] = encoder[w] /\ buffer'[w] = buffer[w]
  BY <1>2
<1> QED
  BY <1>2, <1>8, <1>9, <1>10, <1>11, <1>12, <1>13, <1>14, <1>15, OwnStep

LEMMA EncodeStep ==
  ASSUME HandlerInv, [Next]_vars, NEW g \in Goroutines, Encode(g)
  PROVE  HandlerInv'
<1> DEFINE c == call[g]
<1>1. /\ c \in Calls /\ c.pc = "derive" /\ c.below = <<>> /\ c.at = c.handler
      /\ WayDown(c) /\ HasWriter(c) /\ CallFits(c)
      /\ c.writer \in SUBSET Writers /\ DOMAIN buffer = Writers
  BY Holds DEF Encode, At, WayDown
<1>2. PICK w \in c.writer :
         buffer' \in {[buffer EXCEPT ![w] = <<Encoded(g, encoder[w])>>],
                      [buffer EXCEPT ![w] = <<>>]}
  BY DEF Encode
<1>3. /\ call' = [call EXCEPT ![g].pc = "ingest"]
      /\ UNCHANGED <<handlerVars, pool, encoder, out>>
  BY DEF Encode, Goto
<1>4. /\ \A f \in Goroutines \ {g} : call'[f] = call[f]
      /\ call'[g].pc = "ingest" /\ call'[g].writer = c.writer
      /\ call'[g].handler = c.handler /\ call'[g].at = c.at
      /\ call'[g].below = c.below /\ call'[g].record = c.record
  BY <1>1, <1>3, Holds DEF Calls
<1>5. Handlers' = Handlers /\ (Derived)' = Derived /\ UNCHANGED <<parents, adds>>
  BY <1>3 DEF Handlers, Derived, handlerVars
<1>6. c.writer = {w}
  BY <1>1 DEF HasWriter
<1>7. buffer'[w] \in {<<>>, <<[adds |-> adds[c.handler], record |-> c.record]>>}
  <2>1. encoder[w] = adds[c.handler]
    BY <1>1 DEF CallFits
  <2>2. Encoded(g, encoder[w]) = [adds |-> adds[c.handler], record |-> c.record]
    BY <2>1 DEF Encoded
  <2>3. buffer'[w] \in {<<>>, <<Encoded(g, encoder[w])>>}
    BY <1>1, <1>2
  <2> QED
    BY <2>2, <2>3
<1>8. WayDown(call[g])' /\ HasWriter(call[g])'
  BY <1>1, <1>4, <1>5 DEF WayDown, HasWriter, Busy
<1>9. CallFits(call[g])'
  BY <1>1, <1>3, <1>4, <1>5, <1>6, <1>7 DEF CallFits
<1>10. OneUser'
  BY <1>3, <1>4, <1>5, OneUserKept
<1>11. PoolFits'
  BY <1>3, PoolsKept
<1>12. OutIsWhole'
  BY <1>3, OutKept DEF HandlerInv
<1>13. \A f \in Goroutines \ {g} : call'[f] = call[f] /\ call[f].writer \cap {w} = {}
  BY <1>4, <1>6 DEF HandlerInv, OneUser
<1>14. \A v \in Writers \ {w} : encoder'[v] = encoder[v] /\ buffer'[v] = buffer[v]
  BY <1>1, <1>2, <1>3
<1> QED
  BY <1>3, <1>8, <1>9, <1>10, <1>11, <1>12, <1>13, <1>14, OwnStep

LEMMA PutStep ==
  ASSUME HandlerInv, [Next]_vars, NEW g \in Goroutines, Put(g)
  PROVE  HandlerInv'
<1> DEFINE c == call[g]
<1>1. /\ c \in Calls /\ c.pc = "put" /\ c.handler \in Handlers /\ c.at = c.handler
      /\ WayDown(c) /\ HasWriter(c) /\ CallFits(c)
      /\ DOMAIN pool = Handlers /\ pool \in Seq(SUBSET Writers)
  BY Holds DEF Put, At, WayDown, CallFits
<1>2. /\ pool' \in {pool, [pool EXCEPT ![c.handler] = @ \cup c.writer]}
      /\ call' = [call EXCEPT ![g] = NoCall]
      /\ UNCHANGED <<handlerVars, encoder, buffer, out>>
  BY DEF Put, Return
<1>3. \A f \in Goroutines \ {g} : call'[f] = call[f]
  BY <1>2, Holds
<1>4. call'[g] = NoCall /\ NoCall.writer = {}
  BY <1>2, Holds DEF NoCall
<1>5. /\ Handlers' = Handlers /\ UNCHANGED adds
      /\ Len(pool') = Len(pool)
      /\ \A h \in Handlers : h # c.handler => pool'[h] = pool[h]
      /\ pool'[c.handler] \subseteq pool[c.handler] \cup c.writer
  BY <1>1, <1>2 DEF Handlers, handlerVars
<1>6. OneUser'
  <2>1. OneUser
    BY DEF HandlerInv
  <2>2. \A h \in Handlers : h # c.handler => pool'[h] \cap pool'[c.handler] = {}
    BY <1>1, <1>5, <2>1 DEF OneUser
  <2>3. \A f \in Goroutines, h \in Handlers : call'[f].writer \cap pool'[h] = {}
    <3> SUFFICES ASSUME NEW f \in Goroutines, NEW h \in Handlers, f # g
                 PROVE  call[f].writer \cap pool'[h] = {}
      BY <1>3, <1>4
    <3>1. call[f].writer \cap pool[h] = {} /\ call[f].writer \cap c.writer = {}
      BY <2>1 DEF OneUser
    <3>2. pool'[h] \subseteq pool[h] \cup c.writer
      BY <1>5
    <3> QED
      BY <3>1, <3>2
  <2>4. \A f, e \in Goroutines : f # e => call'[f].writer \cap call'[e].writer = {}
    BY <1>3, <1>4, <2>1 DEF OneUser
  <2>5. \A h, k \in Handlers : h # k => pool'[h] \cap pool'[k] = {}
    BY <1>5, <2>1, <2>2 DEF OneUser
  <2> QED
    BY <1>5, <2>3, <2>4, <2>5 DEF OneUser
<1>7. PoolFits'
  <2>1. \A w \in c.writer : encoder[w] = adds[c.handler]
    BY <1>1 DEF CallFits
  <2>2. \A h \in Handlers : \A w \in pool[h] : encoder[w] = adds[h]
    BY DEF HandlerInv, PoolFits
  <2>3. \A h \in Handlers : \A w \in pool'[h] : encoder[w] = adds[h]
    BY <1>5, <2>1, <2>2
  <2> QED
    BY <1>2, <1>5, <2>3 DEF PoolFits
<1>8. OutIsWhole'
  BY <1>2, OutKept DEF HandlerInv
<1>9. Lineage'
  BY <1>2, <1>5, LineageKept DEF HandlerInv
<1>10. WayDown(call[g])' /\ HasWriter(call[g])' /\ CallFits(call[g])'
  BY <1>4, <1>9, NoCallFits
<1>11. \A f \in Goroutines \ {g} : call'[f] = call[f] /\ call[f].writer \cap {} = {}
  BY <1>3
<1>12. \A v \in Writers \ {} : encoder'[v] = encoder[v] /\ buffer'[v] = buffer[v]
  BY <1>2
<1> QED
  BY <1>2, <1>5, <1>6, <1>7, <1>8, <1>10, <1>11, <1>12, OwnStep

----------------------------------------------------------------------------
(* The theorems.                                                           *)

LEMMA InvInit ==
  ASSUME Init
  PROVE  HandlerInv
<1>1. /\ 1 \in Nat /\ {} \in SUBSET Writers
      /\ <<>> \in Seq(Nat) /\ <<>> \in Seq(Fanned) /\ <<>> \in Seq(Encodings)
      /\ <<>> \in Seq(Derived) /\ Len(<<>>) = 0
  BY EmptyIsTyped
<1>2. /\ parents \in Seq(Nat) /\ Len(parents) = 1
      /\ adds \in Seq(Seq(Nat)) /\ Len(adds) = 1 /\ adds[1] = <<>>
      /\ fan \in Seq(Seq(Fanned)) /\ Len(fan) = 1 /\ fan[1] = <<>>
      /\ pool \in Seq(SUBSET Writers) /\ Len(pool) = 1 /\ pool[1] = {}
  BY <1>1 DEF Init, Root
<1>3. Handlers = {Root} /\ Derived = {}
  BY <1>2 DEF Handlers, Derived, Root
<1>4. NoCall \in Calls
  BY <1>1 DEF NoCall, Calls, Root
<1>5. HandlerTypeOK
  BY <1>1, <1>2, <1>4 DEF Init, HandlerTypeOK
<1>6. Lineage
  BY <1>2, <1>3 DEF Lineage, Root
<1>7. WayDown(NoCall) /\ HasWriter(NoCall) /\ CallFits(NoCall)
  BY <1>1, <1>3 DEF NoCall, WayDown, HasWriter, CallFits, Busy
<1>8. OneUser /\ PoolFits /\ OutIsWhole
  BY <1>2, <1>3 DEF Init, OneUser, PoolFits, OutIsWhole, NoCall, Root
<1> QED
  BY <1>5, <1>6, <1>7, <1>8 DEF HandlerInv, Init

LEMMA InvStep ==
  ASSUME HandlerInv, [Next]_vars
  PROVE  HandlerInv'
<1>1. CASE \/ UNCHANGED vars \/ FanoutEnd \/ TornRead
           \/ \E s \in Sinks : FanoutBegin(s)
  BY <1>1, HandlersStep
<1>2. ASSUME NEW h \in Handlers, With(h) PROVE HandlerInv'
  BY <1>2, WithStep
<1>3. ASSUME NEW h \in Handlers, NEW g \in Goroutines, NEW r \in todo, Handle(g, h, r)
      PROVE  HandlerInv'
  BY <1>3, HandleStep
<1>4. ASSUME NEW h \in Handlers, NEW w \in Writers, Collect(h, w) PROVE HandlerInv'
  BY <1>4, CollectStep
<1>5. ASSUME NEW g \in Goroutines, FanOut(g) \/ FanOutEnd(g) \/ NotEnabled(g)
      PROVE  HandlerInv'
  BY <1>5, FanOutStep, FanOutEndStep, ReturnStep
<1>6. ASSUME NEW g \in Goroutines,
             GetPooled(g) \/ GetFromParent(g) \/ GetNew(g) \/ Derive(g)
      PROVE  HandlerInv'
  BY <1>6, GetPooledStep, GetFromParentStep, GetNewStep, DeriveStep
<1>7. ASSUME NEW g \in Goroutines, Encode(g) \/ EncodeFails(g) \/ Ingest(g) \/ Put(g)
      PROVE  HandlerInv'
  BY <1>7, EncodeStep, ReturnStep, IngestStep, PutStep
<1> QED
  BY <1>1, <1>2, <1>3, <1>4, <1>5, <1>6, <1>7 DEF Next

\* The inductive invariant: who has a writer, what its encoder adds there, and
\* what was given away (handler.go:86-203).
THEOREM HandlerCorrect == Spec => []HandlerInv
<1>1. Init => HandlerInv
  BY InvInit
<1>2. HandlerInv /\ [Next]_vars => HandlerInv'
  BY InvStep
<1> QED
  BY <1>1, <1>2, PTL DEF Spec

\* However many handlers are derived from each other, goroutines log and writers
\* wander from pool to pool: every record goes out whole, alone, and as the
\* handler it was logged with writes it (handler.go:141-180).
THEOREM HandlerRecordsAreWhole == Spec => []RecordsAreWhole
<1>1. HandlerInv => RecordsAreWhole
  BY DEF HandlerInv, OutIsWhole, RecordsAreWhole
<1> QED
  BY <1>1, HandlerCorrect, PTL

\* Two goroutines never write into one buffer: no writer is with two of them,
\* or with one and in a pool, or in two pools (handler.go:155-180).
THEOREM WritersHaveOneUser == Spec => []OneUser
<1>1. HandlerInv => OneUser
  BY DEF HandlerInv
<1> QED
  BY <1>1, HandlerCorrect, PTL
=============================================================================
