-------------------------------- MODULE Handler --------------------------------
(***************************************************************************)
(* The slog handler (handler.go): Handle with its fan-out, the pools of    *)
(* writers, and WithAttrs and WithGroup, whose handlers take their writers *)
(* from the pool of the parent.                                            *)
(*                                                                         *)
(* A derived handler adds one thing, attributes or a group, which bears    *)
(* the handler's number.  An encoder is the sequence of what it adds; a    *)
(* buffer is the sequence of what was encoded into it.                     *)
(***************************************************************************)
EXTENDS Integers, Sequences, FiniteSets, SequencesExt

CONSTANTS
    Goroutines,     \* that log
    Records,        \* one for each call of Handle
    Writers,        \* bound on the writers there are at a time
    MaxHandlers,    \* bound on the handlers
    Sinks           \* the handlers that Fanout adds

ASSUME HandlerAssumption == MaxHandlers \in Nat \ {0}

VARIABLES
    parents,   \* handler n was derived from parents[n]; 1 is the root
    adds,      \* [handler -> all it adds, its ancestors' first]
    fan,       \* [handler -> the fan-out handlers, with what they add]
    fanning,   \* the sink that Fanout is about to add, or the empty set
    pool,      \* [handler -> the writers in its pool]
    encoder,   \* [writer -> what its encoder adds]
    buffer,    \* [writer -> what is in its buffer]
    todo,      \* the records not logged yet
    call,      \* [goroutine -> its call of Handle]
    out,       \* what was given to the ingester and to the fan-out handlers
    crashed

handlerVars == <<parents, adds, fan, fanning>>
vars == <<handlerVars, pool, encoder, buffer, todo, call, out, crashed>>

Root     == 1
Handlers == DOMAIN parents

\* at: the handler whose pool is asked, or whose kind of writer the goroutine
\* has; below: those on the way down from there, whose New waits for it.
NoCall == [pc |-> "idle", handler |-> Root, record |-> {}, rest |-> <<>>,
           at |-> Root, below |-> <<>>, writer |-> {}]

Init ==
    /\ parents = <<Root>>
    /\ adds = <<<<>>>>
    /\ fan = <<<<>>>>
    /\ fanning = {}
    /\ pool = <<{}>>
    /\ encoder = [w \in Writers |-> <<>>]
    /\ buffer = [w \in Writers |-> <<>>]
    /\ todo = Records
    /\ call = [g \in Goroutines |-> NoCall]
    /\ out = {}
    /\ crashed = FALSE

----------------------------------------------------------------------------
Goto(g, pc) == call' = [call EXCEPT ![g].pc = pc]

At(g, pc) == ~crashed /\ call[g].pc = pc

\* fanout: the lock excludes other calls of it, not the readers.
FanoutBegin(s) ==
    /\ ~crashed
    /\ fanning = {}
    /\ s \notin {f.sink : f \in ToSet(fan[Root])}
    /\ fanning' = {s}
    /\ UNCHANGED <<parents, adds, fan, pool, encoder, buffer, todo, call, out,
                   crashed>>

FanoutEnd ==
    /\ ~crashed
    /\ \E s \in fanning :
          fan' = [fan EXCEPT ![Root] = Append(@, [sink |-> s, adds |-> <<>>])]
    /\ fanning' = {}
    /\ UNCHANGED <<parents, adds, pool, encoder, buffer, todo, call, out,
                   crashed>>

\* Who reads h.handlers meanwhile may find the new length with the old array.
TornRead ==
    /\ ~crashed
    /\ fanning # {}
    /\ \/ \E g \in Goroutines : call[g].pc = "idle" /\ todo # {}
       \/ Len(parents) < MaxHandlers
    /\ crashed' = TRUE
    /\ UNCHANGED <<handlerVars, pool, encoder, buffer, todo, call, out>>

\* WithAttrs and WithGroup of h; the pool of the new handler is empty.
With(h) ==
    LET n == Len(parents) + 1
    IN  /\ ~crashed
        /\ n <= MaxHandlers
        /\ parents' = Append(parents, h)
        /\ adds' = Append(adds, Append(adds[h], n))
        /\ fan' = Append(fan, [i \in DOMAIN fan[h] |->
                                  [fan[h][i] EXCEPT !.adds = Append(@, n)]])
        /\ pool' = Append(pool, {})
        /\ UNCHANGED <<fanning, encoder, buffer, todo, call, out, crashed>>

----------------------------------------------------------------------------
(* Handle                                                                  *)

Handle(g, h, r) ==
    /\ At(g, "idle")
    /\ todo' = todo \ {r}
    /\ call' = [call EXCEPT ![g] = [pc |-> "fan", handler |-> h, record |-> {r},
                                    rest |-> fan[h], at |-> h, below |-> <<>>,
                                    writer |-> {}]]
    /\ UNCHANGED <<handlerVars, pool, encoder, buffer, out, crashed>>

Item(g, to, data) ==
    [to |-> to, handler |-> call[g].handler, record |-> call[g].record,
     data |-> data]

Encoded(g, own) == [adds |-> own, record |-> call[g].record]

\* The next fan-out handler gets the record, if it is enabled for it; what it
\* answers is ignored.
FanOut(g) ==
    /\ At(g, "fan")
    /\ call[g].rest # <<>>
    /\ LET f == Head(call[g].rest)
       IN  out' \in {out, out \cup {Item(g, {f.sink}, <<Encoded(g, f.adds)>>)}}
    /\ call' = [call EXCEPT ![g].rest = Tail(@)]
    /\ UNCHANGED <<handlerVars, pool, encoder, buffer, todo, crashed>>

\* The handler itself is enabled for the record ...
FanOutEnd(g) ==
    /\ At(g, "fan")
    /\ call[g].rest = <<>>
    /\ Goto(g, "get")
    /\ UNCHANGED <<handlerVars, pool, encoder, buffer, todo, out, crashed>>

Return(g) == call' = [call EXCEPT ![g] = NoCall]

\* ... or it is not.
NotEnabled(g) ==
    /\ At(g, "fan")
    /\ call[g].rest = <<>>
    /\ Return(g)
    /\ UNCHANGED <<handlerVars, pool, encoder, buffer, todo, out, crashed>>

\* Pool.Get finds one ...
TakenCopy(g, w) ==          \* broken: a parent keeps the writer a child has got
    IF call[g].below = <<>> THEN [pool EXCEPT ![call[g].at] = @ \ {w}]
    ELSE pool
Taken(g, w) == [pool EXCEPT ![call[g].at] = @ \ {w}]

GetPooled(g) ==
    /\ At(g, "get")
    /\ \E w \in pool[call[g].at] :
          /\ pool' = Taken(g, w)
          /\ call' = [call EXCEPT ![g].pc = "derive", ![g].writer = {w}]
    /\ UNCHANGED <<handlerVars, encoder, buffer, todo, out, crashed>>

\* ... or none, which it may say although there is one that another processor
\* has put there; then New asks the parent's pool ...
GetFromParent(g) ==
    /\ At(g, "get")
    /\ call[g].at # Root
    /\ call' = [call EXCEPT ![g].at = parents[@],
                            ![g].below = <<call[g].at>> \o @]
    /\ UNCHANGED <<handlerVars, pool, encoder, buffer, todo, out, crashed>>

\* ... and the root's makes a writer.
InUse ==
    (UNION {pool[h] : h \in Handlers}) \cup (UNION {call[g].writer : g \in Goroutines})

GetNew(g) ==
    /\ At(g, "get")
    /\ call[g].at = Root
    /\ \E w \in Writers \ InUse :
          /\ encoder' = [encoder EXCEPT ![w] = <<>>]
          /\ buffer' = [buffer EXCEPT ![w] = <<>>]
          /\ call' = [call EXCEPT ![g].pc = "derive", ![g].writer = {w}]
    /\ UNCHANGED <<handlerVars, pool, todo, out, crashed>>

\* New, on the way back: w.encoder = w.encoder.WithAttrs(attrs).
Derive(g) ==
    LET c == call[g]
        n == Head(c.below)
    IN  /\ At(g, "derive")
        /\ c.below # <<>>
        /\ encoder' = [w \in Writers |->
                          IF w \in c.writer THEN Append(encoder[w], n) ELSE encoder[w]]
        /\ call' = [call EXCEPT ![g].at = n, ![g].below = Tail(@)]
        /\ UNCHANGED <<handlerVars, pool, buffer, todo, out, crashed>>

\* Reset, and the encoder writes the record, or nothing, to the buffer.
Encode(g) ==
    /\ At(g, "derive")
    /\ call[g].below = <<>>
    /\ \E w \in call[g].writer :
          buffer' \in {[buffer EXCEPT ![w] = <<Encoded(g, encoder[w])>>],
                       [buffer EXCEPT ![w] = <<>>]}
    /\ Goto(g, "ingest")
    /\ UNCHANGED <<handlerVars, pool, encoder, todo, out, crashed>>

\* Nobody uses a writer again whose encoder failed.
EncodeFails(g) ==
    /\ At(g, "derive")
    /\ call[g].below = <<>>
    /\ Return(g)
    /\ UNCHANGED <<handlerVars, pool, encoder, buffer, todo, out, crashed>>

\* The ingester gets a copy of the buffer, unless that is empty.
Ingest(g) ==
    /\ At(g, "ingest")
    /\ \E w \in call[g].writer :
          out' = IF buffer[w] = <<>> THEN out
                 ELSE out \cup {Item(g, {}, buffer[w])}
    /\ Goto(g, "put")
    /\ UNCHANGED <<handlerVars, pool, encoder, buffer, todo, crashed>>

\* The writer goes into the pool of the handler, unless its buffer has grown
\* too much; Ingest never fails (ingester.go:124).
Put(g) ==
    /\ At(g, "put")
    /\ pool' \in {pool,
                 [pool EXCEPT ![call[g].handler] = @ \cup call[g].writer]}
    /\ Return(g)
    /\ UNCHANGED <<handlerVars, encoder, buffer, todo, out, crashed>>

\* The garbage collector empties pools.
Collect(h, w) ==
    /\ ~crashed
    /\ w \in pool[h]
    /\ pool' = [pool EXCEPT ![h] = @ \ {w}]
    /\ UNCHANGED <<handlerVars, encoder, buffer, todo, call, out, crashed>>

Next ==
    \/ \E s \in Sinks : FanoutBegin(s)
    \/ FanoutEnd
    \/ TornRead
    \/ \E h \in Handlers :
          \/ With(h)
          \/ \E g \in Goroutines, r \in todo : Handle(g, h, r)
          \/ \E w \in Writers : Collect(h, w)
    \/ \E g \in Goroutines :
          \/ FanOut(g) \/ FanOutEnd(g) \/ NotEnabled(g)
          \/ GetPooled(g) \/ GetFromParent(g) \/ GetNew(g) \/ Derive(g)
          \/ Encode(g) \/ EncodeFails(g) \/ Ingest(g) \/ Put(g)

Spec == Init /\ [][Next]_vars

----------------------------------------------------------------------------
(* Properties.                                                             *)

\* What the ingester and the fan-out handlers get is the record that was
\* logged, alone, with the attributes and groups of the handler it was logged
\* with and of no other, although writers move from pool to pool, change their
\* encoders on the way and are used by goroutine after goroutine
\* (handler.go:141-180).
RecordsAreWhole ==
    \A item \in out :
        item.data = <<[adds |-> adds[item.handler], record |-> item.record]>>
=============================================================================
