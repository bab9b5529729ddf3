------------------------------- MODULE Archive -------------------------------
(***************************************************************************)
(* The databases of the SQLite storage and their files: New, Flush, the    *)
(* rotation and the size cap (storage_size_check.go), close and connect on *)
(* behalf of the task scheduler, Close, and a restart of the process       *)
(* (storage.go, storage_db.go).                                            *)
(*                                                                         *)
(* A file is named after an epoch; Elsewhere is "_0.db" in the working     *)
(* directory, which is not where New looks.  A saved chunk is its number;  *)
(* the size of a file is the number of chunks in it.                       *)
(***************************************************************************)
EXTENDS Integers, Sequences, FiniteSets, SequencesExt, FiniteSetsExt

CONSTANTS
    MaxTime,        \* bound on the clock
    MaxChunks,      \* bound on the chunks that one process saves
    MaxLate,        \* how late an entry may come
    FilesFound,     \* the files of earlier processes
    MaxRestarts,    \* bound on the restarts
    MaxDbs,         \* bound on the databases one process has
    MaxChunkAge,    \* maxChunkAgeSec
    MaxFilesize,    \* MaxFilesizeMB, in chunks
    TotalSizeCap,   \* TotalSizeCapMB, in chunks
    Ahead           \* how far in the future a new live database starts

ASSUME ArchiveAssumption ==
    {MaxTime, MaxChunks, MaxLate, FilesFound, MaxRestarts, MaxDbs,
     MaxChunkAge, MaxFilesize, TotalSizeCap, Ahead} \subseteq Nat
ASSUME ClockAssumption == FilesFound < MaxTime

VARIABLES
    now,         \* the clock
    disk,        \* [file name -> the chunks in it]
    db,          \* the storageDb of this process, by number
    dbs,         \* storage.dbs
    liveDbs,     \* storage.liveDbs
    check,       \* the part of the size check that comes next, or "wait"
    closeLeft,   \* the databases that Close has still to close
    closed,      \* Close was called
    chunks,      \* history: first and last epoch of each saved chunk
    saver,       \* history: [chunk -> the database of this process it went to]
    removed,     \* history: the chunks in files removed for the cap
    restarts

fileVars == <<disk, removed>>
dbVars   == <<db, dbs, liveDbs>>
history  == <<chunks, saver, restarts>>
vars     == <<now, fileVars, dbVars, check, closeLeft, closed, history>>

Elsewhere == 0
Epochs    == 1..(MaxTime + Ahead)

----------------------------------------------------------------------------
(* storageDb                                                               *)

\* newDb; a database has a directory and a prefix only when it is made here.
NewDb(start) ==
    [path |-> start, start |-> start, newStart |-> start, end |-> 0,
     age |-> MaxChunkAge, named |-> TRUE, live |-> FALSE, size |-> 0,
     status |-> "closed"]

\* What initDbs makes of a file.
Reloaded(name, size) ==
    [path |-> name, start |-> name, newStart |-> 0, end |-> 0,
     age |-> 0, named |-> FALSE, live |-> FALSE,
     size |-> size, status |-> "closed"]

IsOpen(d) == db[d].status = "open"

\* connect makes the file when there is none.
Connected(files, name) ==
    IF name \in DOMAIN files THEN files
    ELSE [f \in DOMAIN files \cup {name} |->
             IF f = name THEN {} ELSE files[f]]

Without(files, name) == [f \in DOMAIN files \ {name} |-> files[f]]

\* os.Rename replaces a file of the new name.
Renamed(files, name, newName) ==
    [f \in (DOMAIN files \ {name}) \cup {newName} |->
        IF f = newName THEN files[name] ELSE files[f]]

\* The files after close of d: the path of d stays what it was.
AfterClose(d) ==
    LET newName == IF db[d].named THEN db[d].newStart ELSE Elsewhere
    IN  IF IsOpen(d) /\ db[d].newStart < db[d].start
          THEN Renamed(disk, db[d].path, newName)
          ELSE disk

\* sortDbs: those that were flushed to first, the latest end first, and then
\* the others by their start; a stable sort.
ComesFirstNewest(a, b) ==      \* broken: the latest start first
    \/ a.end = 0 /\ b.end = 0 /\ a.start > b.start
    \/ a.end > b.end
ComesFirst(a, b) ==
    \/ a.end = 0 /\ b.end = 0 /\ a.start < b.start
    \/ a.end > b.end

ComesBefore(seq, i, j) ==
    \/ ComesFirst(seq[i], seq[j])
    \/ i < j /\ ~ComesFirst(seq[j], seq[i])

\* [place in the sorted sequence -> place in seq]
Rank(seq, i) == Cardinality({j \in DOMAIN seq : ComesBefore(seq, j, i)}) + 1
Order(seq)   == [k \in DOMAIN seq |-> CHOOSE i \in DOMAIN seq : Rank(seq, i) = k]

SortDbs(list) ==
    LET order == Order([i \in DOMAIN list |-> db[list[i]]])
    IN  [k \in DOMAIN list |-> list[order[k]]]

----------------------------------------------------------------------------
(* New                                                                     *)

\* The databases that New makes of the files, in order; the last is live.
StartDbs(files) ==
    LET names == DOMAIN files \ {Elsewhere}
        found == SetToSeq({Reloaded(name, Cardinality(files[name])) : name \in names})
        order == Order(found)
    IN  IF names = {} THEN <<NewDb(now)>>
        ELSE [k \in DOMAIN found |-> found[order[k]]]

\* The first start, in a directory with the files of earlier processes.
Init ==
    /\ now = FilesFound + 1
    /\ \E found \in {{}, 1..FilesFound} :
          LET files == [f \in found |-> {f}]
              all   == StartDbs(files)
              last  == Len(all)
          IN  /\ db = [all EXCEPT ![last].status = "open", ![last].live = TRUE]
              /\ dbs = [i \in 1..last |-> i]
              /\ liveDbs = <<last>>
              /\ disk = Connected(files, all[last].path)
              /\ chunks = [c \in found |-> [first |-> c, last |-> c]]
              /\ saver = [c \in found |-> 0]
    /\ check = "wait"
    /\ closeLeft = {}
    /\ closed = FALSE
    /\ removed = {}
    /\ restarts = 0

\* The process ends, with or without a Close, and is started again.
Restart ==
    /\ restarts < MaxRestarts
    /\ restarts' = restarts + 1
    /\ LET all  == StartDbs(disk)
           last == Len(all)
       IN  /\ db' = [all EXCEPT ![last].status = "open", ![last].live = TRUE]
           /\ dbs' = [i \in 1..last |-> i]
           /\ liveDbs' = <<last>>
           /\ disk' = Connected(disk, all[last].path)
    /\ check' = "wait"
    /\ closeLeft' = {}
    /\ closed' = FALSE
    /\ saver' = [c \in DOMAIN saver |-> 0]
    /\ UNCHANGED <<now, chunks, removed>>

\* A second passes.  The size check, which rests one at least, may be due.
Tick ==
    /\ now < MaxTime
    /\ now' = now + 1
    /\ check' \in {check, IF check = "wait" THEN "rotate" ELSE check}
    /\ UNCHANGED <<fileVars, dbVars, closeLeft, closed, history>>

----------------------------------------------------------------------------
(* Flush                                                                   *)

\* The first live database whose epochs the chunk fits in, or the last one.
Target(first, last) ==
    LET fits(d) == /\ db[d].start <= first
                   /\ db[d].end = 0 \/ db[d].end >= last
        i == SelectInSeq(liveDbs, fits)
    IN  IF i # 0 THEN liveDbs[i] ELSE liveDbs[Len(liveDbs)]

\* storageDb.flush of a chunk of two entries, both young enough.  One old
\* entry fails the statement, and with two of them nothing is inserted and
\* nothing is reported: neither changes a state.
FlushEndIsLast(d, last) == last       \* broken: forgets the end it had
FlushEnd(d, last) == IF last > db[d].end THEN last ELSE db[d].end

Flush(first, last) ==
    LET d == Target(first, last)
        c == Len(chunks) + 1
    IN  /\ Cardinality({k \in DOMAIN saver : saver[k] # 0}) < MaxChunks
        /\ IsOpen(d)
        /\ first >= db[d].start - db[d].age
        /\ disk' = [disk EXCEPT ![db[d].path] = @ \cup {c}]
        /\ db' = [db EXCEPT ![d].end = FlushEnd(d, last),
                            ![d].newStart = IF first < @ THEN first ELSE @]
        /\ chunks' = Append(chunks, [first |-> first, last |-> last])
        /\ saver' = Append(saver, d)
        /\ UNCHANGED <<now, dbs, liveDbs, check, closeLeft, closed, removed,
                       restarts>>

----------------------------------------------------------------------------
(* routineSizeCheck: a tick goes through the three parts.                  *)

NewestLive == liveDbs[Len(liveDbs)]

\* The new database is live by its place in liveDbs only: it is in no other
\* list, and its flag is not set.
RotateInto(lists) ==
    LET d == Len(db) + 1
    IN  /\ check = "rotate"
        /\ db[NewestLive].size > MaxFilesize
        /\ d <= MaxDbs
        /\ db' = Append(db, [NewDb(now + Ahead) EXCEPT !.status = "open"])
        /\ liveDbs' = Append(liveDbs, d)
        /\ dbs' = IF lists THEN Append(dbs, d) ELSE dbs
        /\ disk' = Connected(disk, now + Ahead)
        /\ check' = "update"
        /\ UNCHANGED <<now, removed, closeLeft, closed, history>>
RotateListed == RotateInto(TRUE)      \* broken: listed, but not flagged
Rotate == RotateInto(FALSE)

\* It is small enough, or the new database cannot be made.
RotateNot ==
    /\ check = "rotate"
    /\ check' = "update"
    /\ UNCHANGED <<now, fileVars, dbVars, closeLeft, closed, history>>

UpdateSize ==
    /\ check = "update"
    /\ db' = [d \in DOMAIN db |->
                 IF d \in ToSet(liveDbs) /\ IsOpen(d)
                   THEN [db[d] EXCEPT !.size = Cardinality(disk[db[d].path])]
                   ELSE db[d]]
    /\ check' = "cap"
    /\ UNCHANGED <<now, fileVars, dbs, liveDbs, closeLeft, closed, history>>

TotalSize == MapThenSumSet(LAMBDA i : db[dbs[i]].size, DOMAIN dbs)

TooMuchAny == TotalSize > TotalSizeCap      \* broken: a live one, too
TooMuch == TotalSize > TotalSizeCap /\ ~db[dbs[1]].live

\* storageDb.remove: close, which may rename the file, then os.Remove.
CapRemove ==
    LET d     == dbs[1]
        files == AfterClose(d)
        name  == db[d].path
    IN  /\ check = "cap"
        /\ TooMuch
        /\ \/ /\ name \in DOMAIN files
              /\ disk' = Without(files, name)
              /\ removed' = removed \cup files[name]
           \/ /\ disk' = files      \* os.Remove fails: close renamed the file
              /\ UNCHANGED removed
        /\ db' = [db EXCEPT ![d].status = "removing"]
        /\ dbs' = Tail(dbs)
        /\ check' = "wait"
        /\ UNCHANGED <<now, liveDbs, closeLeft, closed, history>>

\* The scheduler is in a connect or a close of it, and remove does nothing: the
\* database is off the list all the same.
CapForget ==
    /\ check = "cap"
    /\ TooMuch
    /\ dbs' = Tail(dbs)
    /\ check' = "wait"
    /\ UNCHANGED <<now, fileVars, db, liveDbs, closeLeft, closed, history>>

CapKeepOn ==                   \* broken: it does not rest
    /\ check = "cap"
    /\ ~TooMuch
    /\ check' = "rotate"
    /\ UNCHANGED <<now, fileVars, dbVars, closeLeft, closed, history>>
CapKeep ==
    /\ check = "cap"
    /\ ~TooMuch
    /\ check' = "wait"
    /\ UNCHANGED <<now, fileVars, dbVars, closeLeft, closed, history>>

----------------------------------------------------------------------------
(* The task scheduler, when somebody waits for a database or nobody has    *)
(* asked one for long, and Close.                                          *)

OpenForTask(d) ==
    /\ d \in ToSet(dbs)
    /\ db[d].status = "closed"
    /\ db' = [db EXCEPT ![d].status = "open"]
    /\ disk' = Connected(disk, db[d].path)
    /\ UNCHANGED <<now, removed, dbs, liveDbs, check, closeLeft, closed,
                   history>>

\* close answers true for a closed database, too; then the lists are sorted.
CloseAndSort(d) ==
    /\ d \in ToSet(dbs)
    /\ db[d].status \in {"open", "closed"}
    /\ disk' = AfterClose(d)
    /\ db' = [db EXCEPT ![d].status = "closed"]
    /\ dbs' = SortDbs(dbs)
    /\ liveDbs' = SortDbs(liveDbs)
    /\ UNCHANGED <<now, removed, check, closeLeft, closed, history>>
CloseIdleAny(d) == CloseAndSort(d)                \* broken: a live one, too
CloseIdle(d) == ~db[d].live /\ CloseAndSort(d)

Close ==
    /\ ~closed
    /\ closed' = TRUE
    /\ closeLeft' = ToSet(dbs)
    /\ UNCHANGED <<now, fileVars, dbVars, check, history>>

CloseOne(d) ==
    /\ d \in closeLeft
    /\ closeLeft' = closeLeft \ {d}
    /\ disk' = AfterClose(d)
    /\ db' = IF IsOpen(d) THEN [db EXCEPT ![d].status = "closed"] ELSE db
    /\ UNCHANGED <<now, removed, dbs, liveDbs, check, closed, history>>

Next ==
    \/ Tick
    \/ Restart
    \/ \E first \in {now, now - MaxLate}, last \in {now, now - MaxLate} :
          0 < first /\ first <= last /\ Flush(first, last)
    \/ Rotate
    \/ RotateNot
    \/ UpdateSize
    \/ CapRemove
    \/ CapForget
    \/ CapKeep
    \/ Close
    \/ \E d \in DOMAIN db : OpenForTask(d) \/ CloseIdle(d) \/ CloseOne(d)

Spec == Init /\ [][Next]_vars

----------------------------------------------------------------------------
(* Properties.                                                             *)

DbType ==
    [path : Epochs, start : Epochs, newStart : {Elsewhere} \cup Epochs,
     end : 0..MaxTime, age : {0, MaxChunkAge}, named : BOOLEAN,
     live : BOOLEAN, size : 0..Len(chunks),
     status : {"closed", "open", "removing"}]

ArchiveTypeOK ==
    /\ now \in 1..MaxTime
    /\ DOMAIN disk \subseteq {Elsewhere} \cup Epochs
    /\ \A f \in DOMAIN disk : disk[f] \subseteq DOMAIN chunks
    /\ \A d \in DOMAIN db : db[d] \in DbType
    /\ ToSet(dbs) \cup ToSet(liveDbs) \subseteq DOMAIN db
    /\ IsInjective(dbs) /\ IsInjective(liveDbs)
    /\ liveDbs # <<>> /\ dbs # <<>>
    /\ DOMAIN saver = DOMAIN chunks

\* "Should not happen" (storage.go:198): whatever its epochs, a chunk finds
\* the database that Flush chooses open, as long as Close was not called; the
\* scheduler closes databases and the size check removes them meanwhile.
FlushFindsOpen ==
    ~closed =>
        \A first, last \in 1..MaxTime :
            first <= last => IsOpen(Target(first, last))

\* Queries choose databases by their epochs: those of a database cover every
\* chunk this process has saved in it, in whatever order the chunks came.
EpochsCover ==
    \A c \in DOMAIN chunks :
        saver[c] # 0 =>
            LET o == db[saver[c]]
            IN  /\ chunks[c].last <= o.end
                /\ o.start <= chunks[c].first \/ o.newStart <= chunks[c].first

\* No two databases that are in use have the same file, and an open one has
\* its file: nobody renames or removes it under the connection.
OneDbPerFile ==
    LET used == ToSet(dbs) \cup ToSet(liveDbs)
    IN  /\ \A d, e \in used : db[d].path = db[e].path => d = e
        /\ \A d \in used : IsOpen(d) => db[d].path \in DOMAIN disk

Found(c) == \E f \in DOMAIN disk \ {Elsewhere} : c \in disk[f]

\* What this process has saved is in a file that the next start finds: the cap
\* does not remove it, a rename moves it within the directory.  After Close it
\* holds for the databases the process has made itself.
SavedIsFound ==
    \A c \in DOMAIN chunks :
        (saver[c] # 0 /\ (closed => db[saver[c]].named)) => Found(c)

\* "Once this cap is exceeded, the oldest archive files will be deleted"
\* (storage.go:35-37): the one that is taken off the list is the oldest.
RemovesOldest ==
    [][(restarts' = restarts /\ Len(dbs') < Len(dbs)) =>
          \A d \in ToSet(dbs) : db[dbs[1]].start <= db[d].start]_vars

\* A file leaves the directory for the cap only, and is renamed only "when
\* accepting an old log" (storage_db.go:64).
SavedStaysFound ==
    \A c \in DOMAIN chunks : c \in removed \/ Found(c)
=============================================================================
