---------------------------- MODULE TaskScheduler ----------------------------
(***************************************************************************)
(* The task scheduler of the SQLite storage (sqlite/storage_scheduler.go): *)
(* tasks wait in the map of a database, a routine gives them goroutines,   *)
(* closes idle databases and opens those somebody waits for.               *)
(*                                                                         *)
(* The lists of the routine are sets: their order (sortDbs, and two stable *)
(* sorts by a number of tasks that others change meanwhile) is any order,  *)
(* and a loop that closes is over when nothing is left for it to close.    *)
(* Times are the three classes that lastQuerySec is compared with.         *)
(***************************************************************************)
EXTENDS Integers, FiniteSets

CONSTANTS
    Dbs,              \* the databases of the storage
    Live,             \* the one that receives the log
    Tasks,            \* the tasks that may be scheduled
    MaxRunningTasks,
    MaxOpenedDB,
    CallbackFails,    \* may a query fail on an open database?
    ConnectFails      \* may a database refuse to be opened?

ASSUME SchedulerAssumption ==
    /\ IsFiniteSet(Dbs)
    /\ IsFiniteSet(Tasks)
    /\ Live \in Dbs
    /\ MaxRunningTasks \in Nat \ {0}
    /\ MaxOpenedDB \in Int
    /\ CallbackFails \in BOOLEAN
    /\ ConnectFails \in BOOLEAN

VARIABLES
    state,      \* [task -> dbTask.state], "none" before it exists
    known,      \* the tasks in storage.taskMap
    home,       \* [task -> the database it was scheduled for]
    queue,      \* [db -> the tasks in storageDb.taskMap]; taskCount is its size
    exec,       \* [task -> where its goroutine is], "none" when it has none
    leaving,    \* the number of goroutines with only onTask(id, true) to do
    numActiveTasks,
    failed,     \* history: the tasks whose callback failed on an open database
    status,     \* [db -> storageDb.status]
    handle,     \* [db -> storageDb.db is not nil]
    idle,       \* [db -> the class of lastQuerySec]
    crashed,    \* a goroutine has dereferenced nil: the process is gone
    routine     \* the local variables of doRoutineScheduledTasks

taskVars == <<state, known, home, queue, failed>>
execVars == <<exec, leaving, numActiveTasks>>
dbVars   == <<status, handle, idle>>
vars     == <<taskVars, execVars, dbVars, crashed, routine>>

Phases == {"tick", "run", "idle", "limitWithout", "limitWith",
           "openOne", "openMany"}

IsOpen(d) == status[d] = "open"

\* The routine waits for a close or a connect it has called.
Busy == \E d \in Dbs : status[d] \in {"loading", "closing"}

AtTick == [phase |-> "tick", left |-> {}, with |-> {}, without |-> {},
           closed |-> {}, totalTasks |-> 0, quota |-> 0, totalOpen |-> 0]

Init ==
    /\ state = [t \in Tasks |-> "none"]
    /\ known = {}
    /\ home = [t \in Tasks |-> Live]
    /\ queue = [d \in Dbs |-> {}]
    /\ exec = [t \in Tasks |-> "none"]
    /\ leaving = 0
    /\ numActiveTasks = 0
    /\ failed = {}
    /\ status = [d \in Dbs |-> IF d = Live THEN "open" ELSE "closed"]
    /\ handle = [d \in Dbs |-> d = Live]
    /\ idle = [d \in Dbs |-> IF d = Live THEN "fresh" ELSE "idle"]
    /\ crashed = FALSE
    /\ routine = AtTick

----------------------------------------------------------------------------
(* The callers of the storage.                                             *)

Schedule(t, d) ==
    /\ state[t] = "none"
    /\ state' = [state EXCEPT ![t] = "created"]
    /\ known' = known \cup {t}
    /\ home' = [home EXCEPT ![t] = d]
    /\ queue' = [queue EXCEPT ![d] = @ \cup {t}]
    /\ UNCHANGED <<failed, execVars, dbVars, crashed, routine>>

Settled(t) == state[t] \in {"finished", "canceled"}

Result(t) ==
    /\ t \in known
    /\ Settled(t)
    /\ known' = known \ {t}
    /\ UNCHANGED <<state, home, queue, failed, execVars, dbVars, crashed,
                   routine>>

\* task.db is nil: the call after the store panics in the caller, so neither
\* map is ever touched.
Cancel(t) ==
    /\ t \in known
    /\ state' = [state EXCEPT ![t] = "canceled"]
    /\ UNCHANGED <<known, home, queue, failed, execVars, dbVars, crashed,
                   routine>>

\* Time passes since the last query of d; nobody asks the live one.
Age(d) ==
    /\ d # Live
    /\ idle[d] # "idle"
    /\ idle' = [idle EXCEPT ![d] = IF @ = "fresh" THEN "recent" ELSE "idle"]
    /\ UNCHANGED <<taskVars, execVars, status, handle, crashed, routine>>

----------------------------------------------------------------------------
(* A goroutine of executeDbTasks.  It is about to claim its task ("start"),*)
(* test isOpen ("check"), test s.db in the query of its callback ("call"), *)
(* use s.db ("use"), handle the error ("error"), give the task back        *)
(* ("reopen", then "store" in the map) or finish it ("done").              *)

\* The goroutine gets to its last onTask.
Leaves(t) ==
    /\ exec' = [exec EXCEPT ![t] = "none"]
    /\ leaving' = leaving + 1
    /\ UNCHANGED numActiveTasks

GoesTo(t, place) ==
    /\ exec' = [exec EXCEPT ![t] = place]
    /\ UNCHANGED <<leaving, numActiveTasks>>

ClaimSilently(t) ==        \* broken: no onTask when there is nothing to do
    /\ exec[t] = "start"
    /\ IF state[t] = "created"
         THEN state' = [state EXCEPT ![t] = "process"] /\ GoesTo(t, "check")
         ELSE UNCHANGED state /\ GoesTo(t, "none")
    /\ UNCHANGED <<known, home, queue, failed, dbVars, crashed, routine>>
Claim(t) ==
    /\ exec[t] = "start"
    /\ IF state[t] = "created"
         THEN state' = [state EXCEPT ![t] = "process"] /\ GoesTo(t, "check")
         ELSE UNCHANGED state /\ Leaves(t)
    /\ UNCHANGED <<known, home, queue, failed, dbVars, crashed, routine>>

CheckOpen(t) ==
    /\ exec[t] = "check"
    /\ GoesTo(t, IF IsOpen(home[t]) THEN "call" ELSE "reopen")
    /\ UNCHANGED <<taskVars, dbVars, crashed, routine>>

Call(t) ==
    /\ exec[t] = "call"
    /\ GoesTo(t, IF handle[home[t]] THEN "use" ELSE "error")
    /\ UNCHANGED <<taskVars, dbVars, crashed, routine>>

Query(t) ==
    /\ exec[t] = "use"
    /\ handle[home[t]]
    /\ idle' = [idle EXCEPT ![home[t]] = "fresh"]
    /\ GoesTo(t, "done")
    /\ UNCHANGED <<taskVars, status, handle, crashed, routine>>

\* The connection is closed already, or the query fails by itself.
QueryFails(t) ==
    /\ exec[t] = "use"
    /\ handle[home[t]]
    /\ status[home[t]] = "closing" \/ CallbackFails
    /\ GoesTo(t, "error")
    /\ UNCHANGED <<taskVars, dbVars, crashed, routine>>

QueryOfNil(t) ==
    /\ exec[t] = "use"
    /\ ~handle[home[t]]
    /\ crashed' = TRUE
    /\ UNCHANGED <<taskVars, execVars, dbVars, routine>>

FailTwice(t) ==            \* broken: onTask for the retry, too
    /\ exec[t] = "error"
    /\ exec' = [exec EXCEPT
                  ![t] = IF IsOpen(home[t]) THEN "start" ELSE "reopen"]
    /\ leaving' = leaving + 1
    /\ UNCHANGED <<taskVars, numActiveTasks, dbVars, crashed, routine>>
\* retries is 0 here, always: the branch that reports the error is dead.
Fail(t) ==
    /\ exec[t] = "error"
    /\ IF IsOpen(home[t])
         THEN /\ failed' = failed \cup {t}
              /\ GoesTo(t, "start")
         ELSE /\ UNCHANGED failed
              /\ GoesTo(t, "reopen")
    /\ UNCHANGED <<state, known, home, queue, dbVars, crashed, routine>>

ReopenAlways(t) ==         \* broken: the swap from task_process is a store
    /\ exec[t] = "reopen"
    /\ state' = [state EXCEPT ![t] = "created"]
    /\ GoesTo(t, "store")
    /\ UNCHANGED <<known, home, queue, failed, dbVars, crashed, routine>>
Reopen(t) ==
    /\ exec[t] = "reopen"
    /\ IF state[t] = "process"
         THEN state' = [state EXCEPT ![t] = "created"] /\ GoesTo(t, "store")
         ELSE UNCHANGED state /\ Leaves(t)
    /\ UNCHANGED <<known, home, queue, failed, dbVars, crashed, routine>>

StoreForgotten(t) ==       \* broken: the task is not scheduled again
    /\ exec[t] = "store"
    /\ Leaves(t)
    /\ UNCHANGED <<taskVars, dbVars, crashed, routine>>
Store(t) ==
    /\ exec[t] = "store"
    /\ queue' = [queue EXCEPT ![home[t]] = @ \cup {t}]
    /\ Leaves(t)
    /\ UNCHANGED <<state, known, home, failed, dbVars, crashed, routine>>

FinishFirst(t) ==          \* broken: finished before the callback has run
    /\ exec[t] \in {"call", "done"}
    /\ state' = [state EXCEPT ![t] = IF @ = "process" THEN "finished" ELSE @]
    /\ IF exec[t] = "call" THEN GoesTo(t, "use") ELSE Leaves(t)
    /\ UNCHANGED <<known, home, queue, failed, dbVars, crashed, routine>>
Finish(t) ==
    /\ exec[t] = "done"
    /\ state' = [state EXCEPT ![t] = IF @ = "process" THEN "finished" ELSE @]
    /\ Leaves(t)
    /\ UNCHANGED <<known, home, queue, failed, dbVars, crashed, routine>>

\* onTask(id, true)
Leave ==
    /\ leaving > 0
    /\ leaving' = leaving - 1
    /\ numActiveTasks' = numActiveTasks - 1
    /\ UNCHANGED <<taskVars, exec, dbVars, crashed, routine>>

Exec(t) ==
    \/ Claim(t)
    \/ CheckOpen(t)
    \/ Call(t)
    \/ Query(t)
    \/ QueryFails(t)
    \/ QueryOfNil(t)
    \/ Fail(t)
    \/ Reopen(t)
    \/ Store(t)
    \/ Finish(t)

----------------------------------------------------------------------------
(* doRoutineScheduledTasks: gather, run, close the idle, close down to the *)
(* limit, open.  left is what the loop of the phase has still to visit.    *)

Enter(phase, dbs) ==
    routine' = [routine EXCEPT !.phase = phase, !.left = dbs]

Visited(d) == routine' = [routine EXCEPT !.left = @ \ {d}]

Gather ==
    LET waiting    == {d \in Dbs : queue[d] # {}}
        opened     == {d \in Dbs : IsOpen(d)}
        totalTasks == Cardinality(UNION {queue[d] : d \in Dbs})
        quota      == MaxRunningTasks - numActiveTasks
    IN  /\ routine.phase = "tick"
        /\ routine' = [phase      |-> "run",
                       left       |-> IF quota > 0 THEN opened \cap waiting ELSE {},
                       with       |-> opened \cap waiting,
                       without    |-> opened \ waiting,
                       closed     |-> waiting \ opened,
                       totalTasks |-> totalTasks,
                       quota      |-> quota,
                       totalOpen  |-> Cardinality(opened)]
        /\ UNCHANGED <<taskVars, execVars, dbVars, crashed>>

\* The share of a database: an integer division, and 1 at least.
MaxForDbShare(numTasks) == \* broken: without the 1
    (numTasks \div routine.totalTasks) * routine.quota
MaxForDb(numTasks) ==
    LET share == (numTasks \div routine.totalTasks) * routine.quota
    IN  IF share > 1 THEN share ELSE 1

\* The first tasks of the map, whose order is any.
Batches(d) ==
    LET limit == MaxForDb(Cardinality(queue[d]))
    IN  {batch \in SUBSET queue[d] :
            \/ Cardinality(batch) = limit
            \/ batch = queue[d] /\ Cardinality(batch) <= limit}

\* executeDbTasks: onTask(id, false) and a goroutine for each of them.
Launch(d, batch) ==
    /\ exec' = [t \in Tasks |-> IF t \in batch THEN "start" ELSE exec[t]]
    /\ numActiveTasks' = numActiveTasks + Cardinality(batch)
    /\ Visited(d)
    /\ UNCHANGED <<state, known, home, failed, leaving, dbVars, crashed>>

ExecuteKeeps(d) ==         \* broken: the tasks stay in the map
    /\ routine.phase = "run"
    /\ d \in routine.left
    /\ \E batch \in Batches(d) : Launch(d, batch) /\ UNCHANGED queue
Execute(d) ==
    /\ routine.phase = "run"
    /\ d \in routine.left
    /\ \E batch \in Batches(d) :
          /\ Launch(d, batch)
          /\ queue' = [queue EXCEPT ![d] = @ \ batch]

ExecuteEnd ==
    /\ routine.phase = "run"
    /\ routine.left = {}
    /\ routine' = [routine EXCEPT !.phase = "idle", !.left = Dbs,
                                  !.totalTasks = 0, !.quota = 0]
    /\ UNCHANGED <<taskVars, execVars, dbVars, crashed>>

\* The loop visits d: it closes it when the database has the class `least` or
\* an older one, is not live, and closeSafe agrees (two seconds at least).
MayClose(d) ==
    /\ d # Live
    /\ IF routine.phase = "idle" THEN idle[d] = "idle" ELSE idle[d] # "fresh"

\* The limit matters to the two loops that enforce it.
MustClose == routine.phase = "idle" \/ routine.totalOpen > MaxOpenedDB

Closing == {"idle", "limitWithout", "limitWith"}

\* The first half of close: the status; the second: s.db = nil, the status.
CloseBegin(d) ==
    /\ routine.phase \in Closing
    /\ d \in routine.left
    /\ MustClose /\ MayClose(d) /\ ~Busy
    /\ IsOpen(d)
    /\ status' = [status EXCEPT ![d] = "closing"]
    /\ UNCHANGED <<taskVars, execVars, handle, idle, crashed, routine>>

CloseEnd(d) ==
    /\ status[d] = "closing"
    /\ status' = [status EXCEPT ![d] = "closed"]
    /\ handle' = [handle EXCEPT ![d] = FALSE]
    /\ routine' = [routine EXCEPT !.left = @ \ {d}, !.totalOpen = @ - 1]
    /\ UNCHANGED <<taskVars, execVars, idle, crashed>>

\* close answers true for a database that was closed before: it is taken off
\* the open ones all the same.
CloseClosed(d) ==
    /\ routine.phase \in Closing
    /\ d \in routine.left
    /\ MustClose /\ MayClose(d) /\ ~Busy
    /\ ~IsOpen(d)
    /\ routine' = [routine EXCEPT !.left = @ \ {d}, !.totalOpen = @ - 1]
    /\ UNCHANGED <<taskVars, execVars, dbVars, crashed>>

CloseLoopEnd ==
    /\ routine.phase \in Closing
    /\ ~Busy
    /\ MustClose => \A d \in routine.left : ~MayClose(d)
    /\ \/ /\ routine.phase = "idle"
          /\ Enter("limitWithout", routine.without)
       \/ /\ routine.phase = "limitWithout"
          /\ Enter("limitWith", routine.with)
       \/ /\ routine.phase = "limitWith"
          /\ Enter(IF routine.totalOpen > MaxOpenedDB
                     THEN "openOne" ELSE "openMany", routine.closed)
    /\ UNCHANGED <<taskVars, execVars, dbVars, crashed>>

Opening == {"openOne", "openMany"}

\* "Open as many databases as allowed": tested before a connect, with >.
MayOpen == routine.phase = "openOne" \/ routine.totalOpen <= MaxOpenedDB

ConnectBegin(d) ==
    /\ routine.phase \in Opening
    /\ d \in routine.left
    /\ MayOpen /\ ~Busy
    /\ status' = [status EXCEPT ![d] = "loading"]
    /\ UNCHANGED <<taskVars, execVars, handle, idle, crashed, routine>>

ConnectEnd(d) ==
    /\ status[d] = "loading"
    /\ status' = [status EXCEPT ![d] = "open"]
    /\ handle' = [handle EXCEPT ![d] = TRUE]
    /\ idle' = [idle EXCEPT ![d] = "fresh"]
    /\ IF routine.phase = "openOne"
         THEN routine' = [routine EXCEPT !.left = {}]
         ELSE routine' = [routine EXCEPT !.left = @ \ {d}, !.totalOpen = @ + 1]
    /\ UNCHANGED <<taskVars, execVars, crashed>>

ConnectError(d) ==
    /\ ConnectFails
    /\ status[d] = "loading"
    /\ status' = [status EXCEPT ![d] = "closed"]
    /\ Visited(d)
    /\ UNCHANGED <<taskVars, execVars, handle, idle, crashed>>

OpenLoopEnd ==
    /\ routine.phase \in Opening
    /\ routine.left = {} \/ (~MayOpen /\ ~Busy)
    /\ routine' = AtTick
    /\ UNCHANGED <<taskVars, execVars, dbVars, crashed>>

Routine ==
    \/ Gather
    \/ ExecuteEnd
    \/ CloseLoopEnd
    \/ OpenLoopEnd
    \/ \E d \in Dbs :
          \/ Execute(d)
          \/ CloseBegin(d)
          \/ CloseEnd(d)
          \/ CloseClosed(d)
          \/ ConnectBegin(d)
          \/ ConnectEnd(d)
          \/ ConnectError(d)

Next ==
    /\ ~crashed
    /\ \/ \E t \in Tasks, d \in Dbs : Schedule(t, d)
       \/ \E t \in Tasks : Result(t) \/ Cancel(t) \/ Exec(t)
       \/ \E d \in Dbs : Age(d)
       \/ Leave
       \/ Routine

Spec == Init /\ [][Next]_vars

\* The time that lastQuerySec < 2 leaves is long: a database does not get older
\* than that while a goroutine works on it, nor while a task waits in its map
\* and no other goroutine runs whose end the scheduler may have to wait for.
Timely ==
    \A d \in Dbs :
        (idle[d] = "fresh" /\ idle'[d] # "fresh") =>
            /\ \A t \in Tasks : home[t] = d => exec[t] = "none"
            /\ queue[d] = {} \/ \E t \in Tasks : exec[t] # "none"

\* The goroutines and the routine go on, a database that is opened again and
\* again does open at last, and from some time on steps are not that slow.
Fairness ==
    /\ WF_vars(Routine)
    /\ WF_vars(Leave)
    /\ \A t \in Tasks : WF_vars(Exec(t))
    /\ \A d \in Dbs \ {Live} : SF_vars(ConnectEnd(d))
    /\ <>[][Timely]_vars

FairSpec == Spec /\ Fairness

----------------------------------------------------------------------------
(* Properties.                                                             *)

SchedulerTypeOK ==
    /\ state \in [Tasks -> {"none", "created", "process", "finished",
                            "canceled"}]
    /\ known \subseteq Tasks
    /\ home \in [Tasks -> Dbs]
    /\ queue \in [Dbs -> SUBSET Tasks]
    /\ exec \in [Tasks -> {"none", "start", "check", "call", "use", "error",
                           "reopen", "store", "done"}]
    /\ leaving \in Nat
    /\ numActiveTasks \in Nat
    /\ failed \subseteq Tasks
    /\ status \in [Dbs -> {"closed", "loading", "open", "closing"}]
    /\ handle \in [Dbs -> BOOLEAN]
    /\ idle \in [Dbs -> {"fresh", "recent", "idle"}]
    /\ crashed \in BOOLEAN
    /\ routine \in [phase : Phases, left : SUBSET Dbs, with : SUBSET Dbs,
                    without : SUBSET Dbs, closed : SUBSET Dbs,
                    totalTasks : Nat, quota : Int, totalOpen : Int]

HasGoroutine(t) == exec[t] # "none"

Queued(t) == \E d \in Dbs : t \in queue[d]

\* numActiveTasks counts the goroutines that run, whatever way they end: a
\* miss on one path would stop the scheduler, or lift its limit, for good
\* (the onTask calls of executeDbTasks).
ActiveIsRunning ==
    numActiveTasks = leaving + Cardinality({t \in Tasks : HasGoroutine(t)})

\* A task waits in the map of its own database and in no other, and never
\* while a goroutine has it: its callback cannot run twice at a time, although
\* a goroutine gives the task back before it is gone.
QueuedHasNoGoroutine ==
    \A d \in Dbs : \A t \in queue[d] :
        /\ d = home[t]
        /\ ~HasGoroutine(t)
        /\ state[t] \in {"created", "canceled"}

\* A task that is not settled is in a queue or has a goroutine that will bring
\* it there, however databases open and close around it; the one exception are
\* the tasks whose callback failed on an open database.
NoTaskLost ==
    \A t \in Tasks :
        /\ state[t] = "created" => Queued(t) \/ exec[t] \in {"start", "store"}
        /\ state[t] = "process" => HasGoroutine(t) \/ t \in failed

\* Where a goroutine is tells the state of its task, but for a cancel.
GoroutineFits ==
    \A t \in Tasks :
        /\ exec[t] \in {"check", "call", "use", "error", "reopen", "done"} =>
              state[t] \in {"process", "canceled"}
        /\ exec[t] = "store" => state[t] \in {"created", "canceled"}
        /\ exec[t] = "start" =>
              \/ state[t] \in {"created", "canceled"}
              \/ state[t] = "process" /\ t \in failed
        /\ t \in known => state[t] # "none"

\* The output that Result hands out for a finished task is complete: nobody
\* can write to it any more.
FinishedIsSettled ==
    \A t \in Tasks : state[t] = "finished" => ~HasGoroutine(t) /\ ~Queued(t)

\* The inductive invariant of the proofs.
SchedulerInv ==
    /\ SchedulerTypeOK
    /\ ActiveIsRunning
    /\ QueuedHasNoGoroutine
    /\ NoTaskLost
    /\ GoroutineFits
    /\ FinishedIsSettled

\* A cancelled task stays cancelled, and its callback does not start if it had
\* not started when Cancel was called.
CancelIsFinal ==
    [][\A t \in Tasks :
          state[t] = "canceled" =>
              /\ state'[t] = "canceled"
              /\ exec[t] \in {"none", "start"} => exec'[t] \in {"none", "start"}
      ]_vars

\* What is scheduled gets an answer, although databases are closed when they
\* are idle and when there are too many: unless its callback failed, or the
\* process is gone.
ScheduledSettles ==
    \A t \in Tasks :
        t \in known ~> Settled(t) \/ t \in failed \/ crashed
=============================================================================
