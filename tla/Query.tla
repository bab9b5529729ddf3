-------------------------------- MODULE Query --------------------------------
(***************************************************************************)
(* The queries of the SQLite storage (sqlite/api_entries.go, api_ticks.go):*)
(* a reader goes through the entries page by page, from the last one it    *)
(* has got, while entries are flushed to the live database and the task    *)
(* scheduler opens and closes the others.                                  *)
(*                                                                         *)
(* An entry is its time, a key; a second has two of them.  The databases   *)
(* are numbered by their start and hold the keys of their time; the last   *)
(* one is live.  (No two start at the same second, and the order they have *)
(* in storage.dbs is lost when they are sorted.)  The life cycle of data-  *)
(* bases is in Archive, that of tasks in TaskScheduler; here a task is     *)
(* answered when its database is open.                                     *)
(* The reader asks for the result of a task before it asks on, as TaskIds  *)
(* wants it (sqlog_api.go:33); the web interface does not.                 *)
(***************************************************************************)
EXTENDS Integers, Sequences, FiniteSets, SequencesExt, FiniteSetsExt

CONSTANTS Starts,       \* the epochStart of each database
          MaxKey,       \* bound on the time
          Stored,       \* the entries there may be in the beginning
          LevelOf,      \* the level of each entry
          MinPage, MaxPage,   \* what LIMIT is kept between, 10 and 100
          PageSizes,    \* what a reader asks for
          LevelSets,    \* the levels it asks for
          Froms,        \* where it begins
          Exprs         \* the conditions: a sequence of sets of keys, which OR joins

Keys     == 2..MaxKey
Epoch(k) == k \div 2
Dbs      == DOMAIN Starts
Live     == Len(Starts)
Levels   == {"error", "warn", "info", "debug"}

ASSUME QueryAssumption ==
    /\ MaxKey \in Nat /\ Starts \in Seq(Nat) /\ Starts # <<>>
    /\ \A i, j \in Dbs : i < j => Starts[i] < Starts[j]
    /\ Stored \subseteq SUBSET Keys
    /\ LevelOf \in [Keys -> Int]
    /\ LevelSets \subseteq SUBSET Levels
    /\ MinPage \in Nat /\ MaxPage \in Nat /\ 1 <= MinPage /\ MinPage <= MaxPage
    /\ PageSizes \subseteq 1..MaxPage
    /\ Froms \subseteq Nat
    /\ Exprs \subseteq Seq(SUBSET Keys)

VARIABLES
    store,     \* [database -> the keys in it]
    ends,      \* [database -> epochEnd]
    open,      \* the databases that are open
    known,     \* whether the ends were known: by the names of the files, and
               \* for the live database by the last flush
    req,       \* what the reader asks for: direction, page, levels, expr, from;
               \* and the keys that are there before it does
    got,       \* what it has got, in order
    pc,        \* "idle", "visit", "wait" or "end"
    asked,     \* the key that the last call began at
    dbs, list, \* the variables of Entries: the databases still to visit, the page
    task       \* the database that a task is scheduled for, or 0

serverVars == <<store, ends, open>>
readerVars == <<got, pc, asked, dbs, list, task>>
vars       == <<serverVars, known, req, readerVars>>

\* The time of a database.
InTime(k, d) ==
    /\ Starts[d] <= Epoch(k)
    /\ d < Live => Epoch(k) < Starts[d + 1]

LastEpoch(keys) == IF keys = {} THEN 0 ELSE Epoch(Max(keys))

\* New takes the end of a database from the name of its file, if it is there;
\* the end of the live one is known from its first flush on.
Init ==
    /\ \E keys \in Stored : store = [d \in Dbs |-> {k \in keys : InTime(k, d)}]
    /\ known \in BOOLEAN
    /\ ends = [d \in Dbs |-> IF known THEN LastEpoch(store[d]) ELSE 0]
    /\ open \in {Dbs, {Live}}
    /\ req \in [before : BOOLEAN, page : PageSizes, levels : LevelSets,
                expr : Exprs, from : Froms, keys : {UNION {store[d] : d \in Dbs}}]
    /\ got = <<>> /\ pc = "idle" /\ dbs = <<>> /\ list = <<>> /\ task = 0
    /\ asked = req.from

----------------------------------------------------------------------------
(* The conditions of a query.                                              *)

\* The ranges of levels; a clause is written when some levels are asked for,
\* and not all four.
InRanges(levels, n) ==
    IF {"error", "warn", "info"} \subseteq levels THEN n >= 0
    ELSE \/ IF {"error", "warn"} \subseteq levels THEN n >= 4
            ELSE IF "error" \in levels THEN n >= 8
            ELSE "warn" \in levels /\ 4 <= n /\ n <= 7
         \/ "info" \in levels /\ 0 <= n /\ n <= 3
         \/ "debug" \in levels /\ n < 0

HasClause == req.levels # {} /\ Cardinality(req.levels) # 4
LevelFits(k) == HasClause => InRanges(req.levels, LevelOf[k])

\* Entries puts the expression in parentheses.
ExprFits(k) == req.expr # <<>> => \E i \in DOMAIN req.expr : k \in req.expr[i]
EntryFits(k) == LevelFits(k) /\ ExprFits(k)

\* Ticks does not: an OR in it joins what stands before, too.
TickFits(k) ==
    IF req.expr = <<>> THEN LevelFits(k)
    ELSE \/ LevelFits(k) /\ k \in req.expr[1]
         \/ \E i \in 2..Len(req.expr) : k \in req.expr[i]

----------------------------------------------------------------------------
(* Entries                                                                 *)

Cursor == IF got = <<>> THEN req.from ELSE Last(got)

BeyondOrEqual(k) ==                 \* broken: the entry itself, too
    IF req.before THEN k <= asked ELSE k >= asked
Beyond(k) == IF req.before THEN k < asked ELSE k > asked

Limit == Min({Max({req.page, MinPage}), MaxPage})

\* What stands before what in a page, and which database comes first.
Ahead(a, b) == IF req.before THEN a > b ELSE a < b

\* A set in that order: the nth is the one with n - 1 ahead of it.
InTurn(S) ==
    [n \in 1..Cardinality(S) |->
        CHOOSE a \in S : Cardinality({b \in S : Ahead(b, a)}) = n - 1]

\* listEntries: the first of them in the direction.
Matches(d) == {k \in store[d] : Beyond(k) /\ EntryFits(k)}
Page(d)    == SubSeq(InTurn(Matches(d)), 1, Min({Limit, Cardinality(Matches(d))}))

Selected(d) ==
    IF req.before THEN Starts[d] <= Epoch(Cursor)
    ELSE ends[d] = 0 \/ ends[d] >= Epoch(Cursor)

Ask ==
    /\ pc = "idle"
    /\ dbs' = InTurn({d \in Dbs : Selected(d)})
    /\ list' = <<>>
    /\ asked' = Cursor
    /\ pc' = "visit"
    /\ UNCHANGED <<serverVars, known, req, got, task>>

\* What is returned; the reader is at the end when it is told of nothing more.
Return(page, scheduled) ==
    /\ got' = got \o page
    /\ task' = scheduled
    /\ pc' = IF scheduled # 0 THEN "wait" ELSE IF page = <<>> THEN "end" ELSE "idle"
    /\ dbs' = <<>>
    /\ list' = <<>>
    /\ UNCHANGED <<serverVars, known, req, asked>>

\* The page may be longer than LIMIT: it grows by what each database has.
VisitOpen ==
    /\ pc = "visit" /\ dbs # <<>>
    /\ Head(dbs) \in open
    /\ LET page == list \o Page(Head(dbs))
       IN  IF Len(page) >= req.page THEN Return(page, 0)
           ELSE /\ list' = page
                /\ dbs' = Tail(dbs)
                /\ UNCHANGED <<serverVars, known, req, got, pc, asked, task>>

\* A closed database ends the page, and a task is scheduled for it alone.
VisitClosedOn ==                    \* broken: the others are not left out
    /\ pc = "visit" /\ dbs # <<>>
    /\ Head(dbs) \notin open
    /\ dbs' = Tail(dbs)
    /\ UNCHANGED <<serverVars, known, req, got, pc, asked, list, task>>
VisitClosed ==
    /\ pc = "visit" /\ dbs # <<>>
    /\ Head(dbs) \notin open
    /\ Return(list, Head(dbs))

VisitEnd ==
    /\ pc = "visit" /\ dbs = <<>>
    /\ Return(list, 0)

\* The task has the arguments of the call that scheduled it.
Answer ==
    /\ pc = "wait"
    /\ task \in open
    /\ got' = got \o Page(task)
    /\ task' = 0
    /\ pc' = "idle"
    /\ UNCHANGED <<serverVars, known, req, asked, dbs, list>>

----------------------------------------------------------------------------
(* The server meanwhile.                                                   *)

\* Entries of any age come; a live database that was found takes none older
\* than itself, its maxChunkAgeSec is zero.
Flush(k) ==
    /\ k \notin store[Live]
    /\ Epoch(k) >= Starts[Live]
    /\ store' = [store EXCEPT ![Live] = @ \cup {k}]
    /\ ends' = [ends EXCEPT ![Live] = Max({@, Epoch(k)})]
    /\ UNCHANGED <<open, known, req, readerVars>>

Open(d)  == open' = open \cup {d} /\ UNCHANGED <<store, ends, known, req, readerVars>>
Close(d) == open' = open \ {d} /\ UNCHANGED <<store, ends, known, req, readerVars>>

Next ==
    \/ Ask \/ VisitOpen \/ VisitClosed \/ VisitEnd \/ Answer
    \/ \E k \in Keys : Flush(k)
    \/ \E d \in Dbs \ {Live} : Open(d) \/ Close(d)

Spec == Init /\ [][Next]_vars

----------------------------------------------------------------------------
(* Ticks: the intervals before an epoch, the last one with the index n - 1.*)

Interval(end, length, n, i) ==
    LET last == end - (n - 1 - i) * length IN (last - length)..(last - 1)

TickedStrict(d, end, length, n) ==      \* broken: not the one that ends there
    ~(end < Starts[d] \/ (ends[d] # 0 /\ ends[d] <= end - length * n))
Ticked(d, end, length, n) ==
    ~(end < Starts[d] \/ (ends[d] # 0 /\ ends[d] < end - length * n))

\* What a database counts for an interval, at once or in the result of a task.
Counted(d, interval) ==
    {<<d, k>> : k \in {l \in store[d] : TickFits(l) /\ Epoch(l) \in interval}}

\* The sum of the counts: an entry that two databases have is counted twice.
Ticks(end, length, n, i) ==
    Cardinality(UNION {Counted(d, Interval(end, length, n, i)) :
                          d \in {e \in Dbs : Ticked(e, end, length, n)}})

----------------------------------------------------------------------------
(* Properties.                                                             *)

ClassOf(n) ==
    IF n >= 8 THEN "error" ELSE IF n >= 4 THEN "warn"
    ELSE IF n >= 0 THEN "info" ELSE "debug"

\* A live database whose end was not known gets the end of what is flushed, and
\* a reader going forward may leave it out; an entry is not hidden so when
\* nothing of an earlier second was flushed.
Hidden(k) ==
    /\ ~known /\ ~req.before
    /\ k \in store[Live]
    /\ \E l \in store[Live] \ req.keys : Epoch(l) < Epoch(k)

\* What was asked for: some levels, or all, and an expression.
Wanted(k) ==
    /\ req.levels # {} => ClassOf(LevelOf[k]) \in req.levels
    /\ ExprFits(k)

Between(a, k, b) == IF req.before THEN a > k /\ k >= b ELSE a < k /\ k <= b

\* "A page of results (seek method or keyset pagination)" (storage.go:14): no
\* entry that was there is passed over, whatever database is closed and opened
\* when, and whatever else is flushed; at the end the reader has them all.
\* Left out is what Hidden describes.
NothingSkipped ==
    \A k \in req.keys :
        /\ Wanted(k) /\ ~Hidden(k)
        /\ \/ Between(req.from, k, Cursor)
           \/ pc = "end" /\ Between(req.from, k, IF req.before THEN 2 ELSE MaxKey)
        => k \in ToSet(got)

\* The pages go one way, and no entry comes twice.
PagesInOrder ==
    \A i, j \in DOMAIN got :
        i < j => IF req.before THEN got[i] > got[j] ELSE got[i] < got[j]

\* The ticks that the databases give for an interval count each entry in it
\* once, unless an OR stands beside levels, or the end of the live database
\* is short of its entries.
TickAddsUp(end, length, n, i) ==
    Ticks(end, length, n, i) =
    Cardinality({k \in UNION {store[d] : d \in Dbs} :
                    Wanted(k) /\ Epoch(k) \in Interval(end, length, n, i)})

TicksAddUp ==
    /\ HasClause => Len(req.expr) <= 1
    /\ ends[Live] = 0 \/ ends[Live] >= LastEpoch(store[Live])
    => \A end \in 2..(Epoch(MaxKey) + 1), length \in 1..2, n \in 1..2 :
          \A i \in 0..(n - 1) : TickAddsUp(end, length, n, i)
=============================================================================
