------------------------- MODULE TaskSchedulerProofs -------------------------
(***************************************************************************)
(* Theorems about the task scheduler, for any finite sets of databases and *)
(* tasks and any limits: the number of goroutines is the one it counts, no *)
(* task is lost or run twice at a time, and what is finished or cancelled  *)
(* stays so.                                                               *)
(***************************************************************************)
EXTENDS TaskScheduler, FiniteSetTheorems, TLAPS

Running == {t \in Tasks : HasGoroutine(t)}

\* What the conjuncts other than the type and the counts depend on.
tasksAndPlaces == <<state, known, home, queue, failed, exec>>

----------------------------------------------------------------------------
(* The steps that matter to the tasks, and the others.                     *)

\* A goroutine does something else than crash.
Works(t) ==
  \/ Claim(t) \/ CheckOpen(t) \/ Call(t) \/ Query(t) \/ QueryFails(t)
  \/ Fail(t) \/ Reopen(t) \/ Store(t) \/ Finish(t)

LEMMA StepCases ==
  ASSUME [Next]_vars
  PROVE  \/ UNCHANGED <<taskVars, execVars>>
         \/ \E t \in Tasks, d \in Dbs : Schedule(t, d)
         \/ \E t \in Tasks :
               Result(t) \/ Cancel(t) \/ Works(t)
         \/ Leave
         \/ \E d \in Dbs : Execute(d)
<1>1. CASE UNCHANGED vars
  BY <1>1 DEF vars
<1>2. ASSUME NEW t \in Tasks, Exec(t)
      PROVE  \/ UNCHANGED <<taskVars, execVars>>
             \/ Works(t)
  BY <1>2 DEF Exec, QueryOfNil, Works
<1>3. ASSUME NEW d \in Dbs, Age(d) PROVE UNCHANGED <<taskVars, execVars>>
  BY <1>3 DEF Age
<1>4. CASE Gather \/ ExecuteEnd \/ CloseLoopEnd \/ OpenLoopEnd
  BY <1>4 DEF Gather, ExecuteEnd, CloseLoopEnd, OpenLoopEnd
<1>5. ASSUME NEW d \in Dbs,
             CloseBegin(d) \/ CloseEnd(d) \/ CloseClosed(d)
             \/ ConnectBegin(d) \/ ConnectEnd(d) \/ ConnectError(d)
      PROVE  UNCHANGED <<taskVars, execVars>>
  BY <1>5 DEF CloseBegin, CloseEnd, CloseClosed, ConnectBegin, ConnectEnd,
              ConnectError
<1> QED
  BY <1>1, <1>2, <1>3, <1>4, <1>5 DEF Next, Routine

----------------------------------------------------------------------------
(* Types.                                                                  *)

\* A database of the routine's sets, a number of it.
LEMMA GatherType ==
  ASSUME SchedulerTypeOK, Gather
  PROVE  routine' \in [phase : Phases, left : SUBSET Dbs, with : SUBSET Dbs,
                       without : SUBSET Dbs, closed : SUBSET Dbs,
                       totalTasks : Nat, quota : Int, totalOpen : Int]
<1> DEFINE all == UNION {queue[d] : d \in Dbs}
           opened == {d \in Dbs : IsOpen(d)}
<1>1. all \subseteq Tasks /\ opened \subseteq Dbs
  BY DEF SchedulerTypeOK
<1>2. Cardinality(all) \in Nat /\ Cardinality(opened) \in Nat
  BY <1>1, SchedulerAssumption, FS_Subset, FS_CardinalityType
<1>3. MaxRunningTasks - numActiveTasks \in Int
  BY SchedulerAssumption DEF SchedulerTypeOK
<1> QED
  BY <1>1, <1>2, <1>3 DEF Gather, Phases

\* An update keeps a record of the routine's shape one of that shape, whatever
\* the sets are that its fields are from.
LEMMA RecordUpdate ==
  ASSUME NEW P, NEW S, NEW N, NEW I,
         NEW r \in [phase : P, left : S, with : S, without : S, closed : S,
                    totalTasks : N, quota : I, totalOpen : I],
         NEW p \in P, NEW s \in S, NEW n \in N, NEW q \in I, NEW o \in I
  PROVE  /\ [r EXCEPT !.left = s] \in
               [phase : P, left : S, with : S, without : S, closed : S,
                totalTasks : N, quota : I, totalOpen : I]
         /\ [r EXCEPT !.left = s, !.totalOpen = o] \in
               [phase : P, left : S, with : S, without : S, closed : S,
                totalTasks : N, quota : I, totalOpen : I]
         /\ [r EXCEPT !.phase = p, !.left = s, !.totalTasks = n, !.quota = q] \in
               [phase : P, left : S, with : S, without : S, closed : S,
                totalTasks : N, quota : I, totalOpen : I]
  OBVIOUS

\* The routine's own steps.
LEMMA RoutineType ==
  ASSUME SchedulerTypeOK, [Next]_vars
  PROVE  /\ routine' \in [phase : Phases, left : SUBSET Dbs, with : SUBSET Dbs,
                          without : SUBSET Dbs, closed : SUBSET Dbs,
                          totalTasks : Nat, quota : Int, totalOpen : Int]
<1> DEFINE T == [phase : Phases, left : SUBSET Dbs, with : SUBSET Dbs,
                 without : SUBSET Dbs, closed : SUBSET Dbs,
                 totalTasks : Nat, quota : Int, totalOpen : Int]
<1>0. routine \in T
  BY DEF SchedulerTypeOK
<1>1. CASE UNCHANGED vars
  BY <1>0, <1>1 DEF vars
<1>2. ASSUME NEW t \in Tasks, NEW d \in Dbs, Schedule(t, d) PROVE routine' \in T
  BY <1>0, <1>2 DEF Schedule
<1>3. ASSUME NEW t \in Tasks, Result(t) \/ Cancel(t) \/ Exec(t)
      PROVE  routine' \in T
  BY <1>0, <1>3 DEF Result, Cancel, Exec, Claim, CheckOpen, Call, Query,
                    QueryFails, QueryOfNil, Fail, Reopen, Store, Finish
<1>4. ASSUME NEW d \in Dbs, Age(d) PROVE routine' \in T
  BY <1>0, <1>4 DEF Age
<1>5. CASE Leave
  BY <1>0, <1>5 DEF Leave
<1>6. CASE Gather
  BY <1>6, GatherType
<1>7. CASE ExecuteEnd
  <2>1. /\ routine' = [routine EXCEPT !.phase = "idle", !.left = Dbs,
                                      !.totalTasks = 0, !.quota = 0]
        /\ "idle" \in Phases
        /\ Dbs \in SUBSET Dbs
        /\ 0 \in Nat /\ 0 \in Int
    BY <1>7 DEF ExecuteEnd, Phases
  <2> HIDE DEF T
  <2>2. [routine EXCEPT !.phase = "idle", !.left = Dbs, !.totalTasks = 0,
                        !.quota = 0] \in T
    BY ONLY <1>0, <2>1, RecordUpdate DEF T
  <2> QED
    BY ONLY <2>1, <2>2 DEF T
<1>8. CASE CloseLoopEnd
  <2>1. /\ routine.without \in SUBSET Dbs
        /\ routine.with \in SUBSET Dbs
        /\ routine.closed \in SUBSET Dbs
    BY <1>0
  <2>2. ASSUME NEW p \in Phases, NEW s \in SUBSET Dbs, Enter(p, s)
        PROVE  routine' \in T
    BY <1>0, <2>2 DEF Enter
  <2> QED
    BY <1>8, <2>1, <2>2 DEF CloseLoopEnd, Phases
<1>9. CASE OpenLoopEnd
  BY <1>9 DEF OpenLoopEnd, AtTick, Phases
<1>10. ASSUME NEW d \in Dbs, Execute(d) \/ ConnectError(d) PROVE routine' \in T
  <2>1. Visited(d)
    BY <1>10 DEF Execute, ConnectError, Launch
  <2> QED
    BY <1>0, <2>1 DEF Visited
<1>11. ASSUME NEW d \in Dbs, CloseBegin(d) \/ ConnectBegin(d)
       PROVE  routine' \in T
  BY <1>0, <1>11 DEF CloseBegin, ConnectBegin
<1>12. ASSUME NEW d \in Dbs, CloseEnd(d) \/ CloseClosed(d) PROVE routine' \in T
  <2>1. /\ routine' = [routine EXCEPT !.left = @ \ {d}, !.totalOpen = @ - 1]
        /\ routine.left \ {d} \in SUBSET Dbs
        /\ routine.totalOpen - 1 \in Int
    BY <1>0, <1>12 DEF CloseEnd, CloseClosed
  <2> HIDE DEF T
  <2>2. [routine EXCEPT !.left = routine.left \ {d},
                        !.totalOpen = routine.totalOpen - 1] \in T
    BY ONLY <1>0, <2>1, RecordUpdate DEF T
  <2> QED
    BY ONLY <2>1, <2>2
<1>13. ASSUME NEW d \in Dbs, ConnectEnd(d) PROVE routine' \in T
  <2>1. /\ routine.left \ {d} \in SUBSET Dbs
        /\ {} \in SUBSET Dbs
        /\ routine.totalOpen + 1 \in Int
    BY <1>0
  <2> HIDE DEF T
  <2>2. /\ [routine EXCEPT !.left = {}] \in T
        /\ [routine EXCEPT !.left = routine.left \ {d},
                           !.totalOpen = routine.totalOpen + 1] \in T
    BY ONLY <1>0, <2>1, RecordUpdate DEF T
  <2>3. \/ routine' = [routine EXCEPT !.left = {}]
        \/ routine' = [routine EXCEPT !.left = routine.left \ {d},
                                      !.totalOpen = routine.totalOpen + 1]
    BY <1>13 DEF ConnectEnd
  <2> QED
    BY ONLY <2>2, <2>3
<1> QED
  BY <1>1, <1>2, <1>3, <1>4, <1>5, <1>6, <1>7, <1>8, <1>9, <1>10, <1>11, <1>12,
     <1>13 DEF Next, Routine

\* The databases.
DbType == /\ status \in [Dbs -> {"closed", "loading", "open", "closing"}]
          /\ handle \in [Dbs -> BOOLEAN]
          /\ idle \in [Dbs -> {"fresh", "recent", "idle"}]
          /\ crashed \in BOOLEAN

LEMMA DbTypeStep ==
  ASSUME SchedulerTypeOK, [Next]_vars
  PROVE  DbType'
<1>0. DbType /\ home \in [Tasks -> Dbs]
  BY DEF SchedulerTypeOK, DbType
<1>1. CASE UNCHANGED <<dbVars, crashed>>
  BY <1>0, <1>1 DEF DbType, dbVars
<1>2. ASSUME NEW t \in Tasks, Exec(t) PROVE DbType'
  BY <1>0, <1>1, <1>2 DEF DbType, dbVars, Exec, Claim, CheckOpen, Call, Query,
       QueryFails, QueryOfNil, Fail, Reopen, Store, Finish
<1>3. ASSUME NEW d \in Dbs, Age(d) PROVE DbType'
  BY <1>0, <1>3 DEF DbType, Age
<1>4. ASSUME NEW d \in Dbs,
             CloseBegin(d) \/ CloseEnd(d) \/ CloseClosed(d)
             \/ ConnectBegin(d) \/ ConnectEnd(d) \/ ConnectError(d)
      PROVE  DbType'
  BY <1>0, <1>4 DEF DbType, dbVars, CloseBegin, CloseEnd, CloseClosed,
       ConnectBegin, ConnectEnd, ConnectError
<1>5. ASSUME NEW t \in Tasks, NEW d \in Dbs, Schedule(t, d) PROVE DbType'
  BY <1>1, <1>5 DEF Schedule
<1>6. ASSUME NEW t \in Tasks, Result(t) \/ Cancel(t) PROVE DbType'
  BY <1>1, <1>6 DEF Result, Cancel
<1>7. CASE Leave \/ Gather \/ ExecuteEnd \/ CloseLoopEnd \/ OpenLoopEnd
  BY <1>1, <1>7 DEF Leave, Gather, ExecuteEnd, CloseLoopEnd, OpenLoopEnd
<1>8. ASSUME NEW d \in Dbs, Execute(d) PROVE DbType'
  BY <1>1, <1>8 DEF Execute, Launch
<1> QED
  BY <1>1, <1>2, <1>3, <1>4, <1>5, <1>6, <1>7, <1>8 DEF Next, Routine, vars

\* The tasks.
TasksType == /\ state \in [Tasks -> {"none", "created", "process", "finished",
                                     "canceled"}]
             /\ known \subseteq Tasks
             /\ home \in [Tasks -> Dbs]
             /\ queue \in [Dbs -> SUBSET Tasks]
             /\ exec \in [Tasks -> {"none", "start", "check", "call", "use",
                                    "error", "reopen", "store", "done"}]
             /\ leaving \in Nat
             /\ failed \subseteq Tasks

\* A step of a goroutine moves it to a place of its program or to its end.
LEMMA TasksTypeExec ==
  ASSUME TasksType, NEW t \in Tasks,
         Works(t)
  PROVE  TasksType'
<1>1. ASSUME NEW place \in {"start", "check", "call", "use", "error", "reopen",
                           "store", "done"},
             GoesTo(t, place) \/ Leaves(t)
      PROVE  /\ exec' \in [Tasks -> {"none", "start", "check", "call", "use",
                                     "error", "reopen", "store", "done"}]
             /\ leaving' \in Nat
  BY <1>1 DEF TasksType, GoesTo, Leaves
<1>2. CASE Claim(t)
  BY <1>1, <1>2 DEF Claim, TasksType
<1>3. CASE CheckOpen(t) \/ Call(t) \/ Query(t) \/ QueryFails(t)
  BY <1>1, <1>3 DEF CheckOpen, Call, Query, QueryFails, TasksType, taskVars
<1>4. CASE Fail(t)
  BY <1>1, <1>4 DEF Fail, TasksType
<1>5. CASE Reopen(t)
  BY <1>1, <1>5 DEF Reopen, TasksType
<1>6. CASE Store(t)
  <2>1. queue[home[t]] \cup {t} \in SUBSET Tasks
    BY DEF TasksType
  <2> QED
    BY <1>1, <1>6, <2>1 DEF Store, TasksType
<1>7. CASE Finish(t)
  BY <1>1, <1>7 DEF Finish, TasksType
<1> QED
  BY <1>2, <1>3, <1>4, <1>5, <1>6, <1>7 DEF Works

LEMMA TasksTypeStep ==
  ASSUME TasksType, [Next]_vars
  PROVE  TasksType'
<1>1. CASE UNCHANGED <<taskVars, execVars>>
  BY <1>1 DEF TasksType, taskVars, execVars
<1>2. ASSUME NEW t \in Tasks, NEW d \in Dbs, Schedule(t, d) PROVE TasksType'
  <2>1. queue[d] \cup {t} \in SUBSET Tasks /\ known \cup {t} \subseteq Tasks
    BY DEF TasksType
  <2> QED
    BY <1>2, <2>1 DEF TasksType, Schedule, execVars
<1>3. ASSUME NEW t \in Tasks, Result(t) \/ Cancel(t) PROVE TasksType'
  BY <1>3 DEF TasksType, Result, Cancel, execVars
<1>4. CASE Leave
  BY <1>4 DEF TasksType, Leave, taskVars
<1>5. ASSUME NEW d \in Dbs, Execute(d) PROVE TasksType'
  <2>1. PICK batch \in Batches(d) :
           /\ Launch(d, batch)
           /\ queue' = [queue EXCEPT ![d] = @ \ batch]
    BY <1>5 DEF Execute
  <2>2. queue[d] \ batch \in SUBSET Tasks
    BY DEF TasksType
  <2> QED
    BY <2>1, <2>2 DEF TasksType, Launch
<1> QED
  BY <1>1, <1>2, <1>3, <1>4, <1>5, StepCases, TasksTypeExec

----------------------------------------------------------------------------
(* The number of goroutines.                                               *)

LEMMA RunningIsFinite ==
  ASSUME TasksType
  PROVE  IsFiniteSet(Running) /\ Cardinality(Running) \in Nat
<1>1. Running \subseteq Tasks
  BY DEF Running
<1> QED
  BY <1>1, SchedulerAssumption, FS_Subset, FS_CardinalityType

\* A goroutine that goes on is counted as before.
LEMMA GoesOn ==
  ASSUME TasksType, ActiveIsRunning, NEW t \in Tasks, HasGoroutine(t),
         NEW place \in {"start", "check", "call", "use", "error", "reopen",
                       "store", "done"},
         GoesTo(t, place)
  PROVE  ActiveIsRunning'
<1>1. Running' = Running
  BY DEF Running, HasGoroutine, GoesTo, TasksType
<1> QED
  BY <1>1 DEF ActiveIsRunning, GoesTo, Running

\* One that gets to its last onTask is counted there.
LEMMA GetsToItsEnd ==
  ASSUME TasksType, ActiveIsRunning, NEW t \in Tasks, HasGoroutine(t),
         Leaves(t)
  PROVE  ActiveIsRunning'
<1>1. Running' = Running \ {t}
  BY DEF Running, HasGoroutine, Leaves, TasksType
<1>2. Cardinality(Running') = Cardinality(Running) - 1
  <2>1. t \in Running
    BY DEF Running
  <2> QED
    BY <1>1, <2>1, RunningIsFinite, FS_RemoveElement
<1>3. numActiveTasks = leaving + Cardinality(Running)
  BY DEF ActiveIsRunning, Running
<1>4. numActiveTasks' = leaving' + Cardinality(Running')
  BY <1>2, <1>3, RunningIsFinite DEF Leaves, TasksType
<1> QED
  BY <1>4 DEF ActiveIsRunning, Running

\* The tasks of a batch were queued and had none.
LEMMA BatchStarts ==
  ASSUME TasksType, ActiveIsRunning, QueuedHasNoGoroutine,
         NEW d \in Dbs, NEW batch \in Batches(d), Launch(d, batch)
  PROVE  ActiveIsRunning'
<1>1. batch \subseteq queue[d] /\ batch \subseteq Tasks
  BY DEF Batches, TasksType
<1>2. Running' = Running \cup batch
  BY <1>1 DEF Running, HasGoroutine, Launch, TasksType
<1>3. Running \cap batch = {}
  BY <1>1 DEF Running, QueuedHasNoGoroutine
<1>4. IsFiniteSet(batch) /\ Cardinality(batch) \in Nat
  BY <1>1, SchedulerAssumption, FS_Subset, FS_CardinalityType
<1>5. Cardinality(Running') = Cardinality(Running) + Cardinality(batch)
  <2>1. Cardinality(Running \cup batch)
          = Cardinality(Running) + Cardinality(batch)
            - Cardinality(Running \cap batch)
    BY <1>4, RunningIsFinite, FS_Union
  <2>2. Cardinality(Running \cap batch) = 0
    BY <1>3, FS_EmptySet
  <2> QED
    BY <1>2, <1>4, <2>1, <2>2, RunningIsFinite
<1>6. numActiveTasks = leaving + Cardinality(Running)
  BY DEF ActiveIsRunning, Running
<1>7. numActiveTasks' = leaving' + Cardinality(Running')
  BY <1>4, <1>5, <1>6, RunningIsFinite DEF Launch, TasksType
<1> QED
  BY <1>7 DEF ActiveIsRunning, Running

LEMMA ActiveIsRunningStep ==
  ASSUME TasksType, ActiveIsRunning, QueuedHasNoGoroutine, GoroutineFits,
         [Next]_vars
  PROVE  ActiveIsRunning'
<1>1. CASE UNCHANGED execVars
  BY <1>1 DEF ActiveIsRunning, HasGoroutine, execVars
<1>2. ASSUME NEW t \in Tasks, NEW d \in Dbs, Schedule(t, d)
      PROVE  ActiveIsRunning'
  BY <1>1, <1>2 DEF Schedule
<1>3. ASSUME NEW t \in Tasks, Result(t) \/ Cancel(t) PROVE ActiveIsRunning'
  BY <1>1, <1>3 DEF Result, Cancel
<1>4. ASSUME NEW t \in Tasks,
             Works(t)
      PROVE  ActiveIsRunning'
  <2>1. HasGoroutine(t)
    BY <1>4 DEF Works, HasGoroutine, Claim, CheckOpen, Call, Query, QueryFails,
                Fail, Reopen, Store, Finish
  <2>2. \/ Leaves(t)
        \/ \E place \in {"start", "check", "call", "use", "error", "reopen",
                         "store", "done"} : GoesTo(t, place)
    BY <1>4 DEF Works, Claim, CheckOpen, Call, Query, QueryFails, Fail, Reopen,
                Store, Finish
  <2> QED
    BY <2>1, <2>2, GoesOn, GetsToItsEnd
<1>5. CASE Leave
  <2>1. Running' = Running
    BY <1>5 DEF Running, HasGoroutine, Leave
  <2>2. numActiveTasks = leaving + Cardinality(Running)
    BY DEF ActiveIsRunning, Running
  <2>3. numActiveTasks' = leaving' + Cardinality(Running')
    BY <1>5, <2>1, <2>2, RunningIsFinite DEF Leave, TasksType
  <2> QED
    BY <2>3 DEF ActiveIsRunning, Running
<1>6. ASSUME NEW d \in Dbs, Execute(d) PROVE ActiveIsRunning'
  BY <1>6, BatchStarts DEF Execute
<1> QED
  BY <1>1, <1>2, <1>3, <1>4, <1>5, <1>6, StepCases

----------------------------------------------------------------------------
(* What is known of each task.                                             *)

\* A step of a goroutine changes nothing of the other tasks.
LEMMA OthersUntouched ==
  ASSUME TasksType, NEW t \in Tasks, NEW u \in Tasks, u # t,
         Works(t)
  PROVE  /\ state'[u] = state[u]
         /\ exec'[u] = exec[u]
         /\ \A d \in Dbs : u \in queue'[d] <=> u \in queue[d]
         /\ u \in failed' <=> u \in failed
<1>1. ASSUME NEW place, GoesTo(t, place) \/ Leaves(t) PROVE exec'[u] = exec[u]
  BY <1>1 DEF TasksType, GoesTo, Leaves
<1>2. exec'[u] = exec[u]
  BY <1>1 DEF Works, Claim, CheckOpen, Call, Query, QueryFails, Fail, Reopen,
              Store, Finish
<1>3. state'[u] = state[u]
  BY DEF TasksType, taskVars, Works, Claim, CheckOpen, Call, Query, QueryFails,
         Fail, Reopen, Store, Finish
<1>4. \A d \in Dbs : u \in queue'[d] <=> u \in queue[d]
  BY DEF TasksType, taskVars, Works, Claim, CheckOpen, Call, Query, QueryFails,
         Fail, Reopen, Store, Finish
<1>5. u \in failed' <=> u \in failed
  BY DEF TasksType, taskVars, Works, Claim, CheckOpen, Call, Query, QueryFails,
         Fail, Reopen, Store, Finish
<1> QED
  BY <1>2, <1>3, <1>4, <1>5

\* Where a step of a goroutine takes its own task, place by place.
OwnStep(t) ==
  \/ /\ exec[t] = "start" /\ state[t] = "created"
     /\ exec'[t] = "check" /\ state'[t] = "process"
  \/ /\ exec[t] = "start" /\ state[t] # "created"
     /\ exec'[t] = "none"  /\ state'[t] = state[t]
  \/ /\ exec[t] \in {"check", "call", "use"}
     /\ exec'[t] \in {"call", "use", "error", "reopen", "done"}
     /\ state'[t] = state[t]
  \/ /\ exec[t] = "error"
     /\ \/ exec'[t] = "start" /\ t \in failed'
        \/ exec'[t] = "reopen"
     /\ state'[t] = state[t]
  \/ /\ exec[t] = "reopen" /\ state[t] = "process"
     /\ exec'[t] = "store"  /\ state'[t] = "created"
  \/ /\ exec[t] = "reopen" /\ state[t] # "process"
     /\ exec'[t] = "none"   /\ state'[t] = state[t]
  \/ /\ exec[t] = "store"
     /\ exec'[t] = "none"   /\ state'[t] = state[t]
  \/ /\ exec[t] = "done"
     /\ exec'[t] = "none"
     /\ state'[t] = IF state[t] = "process" THEN "finished" ELSE state[t]

LEMMA OwnTask ==
  ASSUME TasksType, NEW t \in Tasks,
         Works(t)
  PROVE  /\ exec[t] # "none"
         /\ home' = home
         /\ known' = known
         /\ \A d \in Dbs : t \in queue'[d] <=>
               (t \in queue[d] \/ (d = home[t] /\ exec[t] = "store"))
         /\ t \in failed => t \in failed'
         /\ OwnStep(t)
<1>0. /\ Leaves(t) => exec'[t] = "none"
      /\ \A place \in {"start", "check", "call", "use", "error", "reopen",
                       "store", "done"} :
            GoesTo(t, place) => exec'[t] = place
  BY DEF TasksType, Leaves, GoesTo
<1>1. CASE Claim(t)
  BY <1>0, <1>1 DEF TasksType, Claim, OwnStep
<1>2. CASE CheckOpen(t)
  BY <1>0, <1>2 DEF TasksType, taskVars, CheckOpen, OwnStep
<1>3. CASE Call(t)
  BY <1>0, <1>3 DEF TasksType, taskVars, Call, OwnStep
<1>4. CASE Query(t) \/ QueryFails(t)
  BY <1>0, <1>4 DEF TasksType, taskVars, Query, QueryFails, OwnStep
<1>5. CASE Fail(t)
  BY <1>0, <1>5 DEF TasksType, Fail, OwnStep
<1>6. CASE Reopen(t)
  BY <1>0, <1>6 DEF TasksType, Reopen, OwnStep
<1>7. CASE Store(t)
  BY <1>0, <1>7 DEF TasksType, Store, OwnStep
<1>8. CASE Finish(t)
  BY <1>0, <1>8 DEF TasksType, Finish, OwnStep
<1> QED
  BY <1>1, <1>2, <1>3, <1>4, <1>5, <1>6, <1>7, <1>8 DEF Works

\* A task enters a map when it is new or when its goroutine ends.
LEMMA QueuedHasNoGoroutineStep ==
  ASSUME TasksType, QueuedHasNoGoroutine, GoroutineFits,
         [Next]_vars
  PROVE  QueuedHasNoGoroutine'
<1>0. \A e \in Dbs : queue'[e] \subseteq Tasks
  BY TasksTypeStep DEF TasksType
<1>1. CASE UNCHANGED tasksAndPlaces
  BY <1>1 DEF tasksAndPlaces, QueuedHasNoGoroutine, GoroutineFits,
       HasGoroutine
<1>2. ASSUME NEW t \in Tasks, NEW d \in Dbs, Schedule(t, d)
      PROVE  QueuedHasNoGoroutine'
  <2>1. exec[t] = "none"
    BY <1>2 DEF TasksType, GoroutineFits, Schedule
  <2>2. \A e \in Dbs : t \notin queue[e]
    BY <1>2 DEF QueuedHasNoGoroutine, Schedule
  <2>3. /\ state'[t] = "created" /\ exec' = exec /\ failed' = failed
        /\ \A u \in Tasks : u # t => state'[u] = state[u] /\ home'[u] = home[u]
        /\ home'[t] = d
        /\ \A u \in Tasks, e \in Dbs :
              u \in queue'[e] <=> (u \in queue[e] \/ (u = t /\ e = d))
        /\ known' = known \cup {t}
    BY <1>2 DEF TasksType, Schedule, execVars
  <2> QED
    BY <1>0, <2>1, <2>2, <2>3 DEF TasksType,
       QueuedHasNoGoroutine, GoroutineFits, HasGoroutine
<1>3. ASSUME NEW t \in Tasks, Result(t) \/ Cancel(t) PROVE QueuedHasNoGoroutine'
  BY <1>3 DEF TasksType, Result, Cancel, execVars,
       QueuedHasNoGoroutine, GoroutineFits,
       HasGoroutine
<1>4. ASSUME NEW t \in Tasks,
             Works(t)
      PROVE  QueuedHasNoGoroutine'
  <2>1. /\ exec[t] # "none" /\ home' = home /\ known' = known
        /\ \A d \in Dbs : t \in queue'[d] <=>
               (t \in queue[d] \/ (d = home[t] /\ exec[t] = "store"))
        /\ t \in failed => t \in failed'
        /\ OwnStep(t)
    BY <1>4, OwnTask
  <2>2. \A u \in Tasks : u # t =>
           /\ state'[u] = state[u]
           /\ exec'[u] = exec[u]
           /\ \A d \in Dbs : u \in queue'[d] <=> u \in queue[d]
           /\ u \in failed' <=> u \in failed
    BY <1>4, OthersUntouched
  <2> QED
    BY <1>0, <2>1, <2>2 DEF TasksType, OwnStep,
       QueuedHasNoGoroutine, GoroutineFits,
       HasGoroutine
<1>5. ASSUME NEW d \in Dbs, Execute(d) PROVE QueuedHasNoGoroutine'
  <2>1. PICK batch \in Batches(d) :
           /\ Launch(d, batch)
           /\ queue' = [queue EXCEPT ![d] = @ \ batch]
    BY <1>5 DEF Execute
  <2>2. batch \subseteq queue[d] /\ batch \subseteq Tasks
    BY DEF Batches, TasksType
  <2>3. /\ \A t \in Tasks : exec'[t] = IF t \in batch THEN "start" ELSE exec[t]
        /\ \A t \in Tasks, e \in Dbs :
              t \in queue'[e] <=> (t \in queue[e] /\ ~(e = d /\ t \in batch))
        /\ state' = state /\ home' = home /\ known' = known /\ failed' = failed
    BY <2>1, <2>2 DEF TasksType, Launch
  <2> QED
    BY <1>0, <2>2, <2>3 DEF TasksType,
       QueuedHasNoGoroutine, GoroutineFits, HasGoroutine
<1>6. CASE Leave
  BY <1>1, <1>6 DEF Leave, tasksAndPlaces, taskVars
<1>7. CASE UNCHANGED <<taskVars, execVars>>
  BY <1>1, <1>7 DEF tasksAndPlaces, taskVars, execVars
<1> QED
  BY <1>2, <1>3, <1>4, <1>5, <1>6, <1>7, StepCases

\* A place of the program and the state of the task change together.
LEMMA GoroutineFitsStep ==
  ASSUME TasksType, QueuedHasNoGoroutine, GoroutineFits,
         [Next]_vars
  PROVE  GoroutineFits'
<1>1. CASE UNCHANGED tasksAndPlaces
  BY <1>1 DEF tasksAndPlaces, QueuedHasNoGoroutine, GoroutineFits
<1>2. ASSUME NEW t \in Tasks, NEW d \in Dbs, Schedule(t, d) PROVE GoroutineFits'
  <2>1. exec[t] = "none"
    BY <1>2 DEF TasksType, GoroutineFits, Schedule
  <2>2. \A e \in Dbs : t \notin queue[e]
    BY <1>2 DEF QueuedHasNoGoroutine, Schedule
  <2>3. /\ state'[t] = "created" /\ exec' = exec /\ failed' = failed
        /\ \A u \in Tasks : u # t => state'[u] = state[u] /\ home'[u] = home[u]
        /\ home'[t] = d
        /\ \A u \in Tasks, e \in Dbs :
              u \in queue'[e] <=> (u \in queue[e] \/ (u = t /\ e = d))
        /\ known' = known \cup {t}
    BY <1>2 DEF TasksType, Schedule, execVars
  <2> QED
    BY <2>1, <2>2, <2>3 DEF TasksType, QueuedHasNoGoroutine, GoroutineFits
<1>3. ASSUME NEW t \in Tasks, Result(t) \/ Cancel(t) PROVE GoroutineFits'
  BY <1>3 DEF TasksType, Result, Cancel, execVars,
       QueuedHasNoGoroutine, GoroutineFits
<1>4. ASSUME NEW t \in Tasks,
             Works(t)
      PROVE  GoroutineFits'
  <2>1. /\ exec[t] # "none" /\ home' = home /\ known' = known
        /\ \A d \in Dbs : t \in queue'[d] <=>
               (t \in queue[d] \/ (d = home[t] /\ exec[t] = "store"))
        /\ t \in failed => t \in failed'
        /\ OwnStep(t)
    BY <1>4, OwnTask
  <2>2. \A u \in Tasks : u # t =>
           /\ state'[u] = state[u]
           /\ exec'[u] = exec[u]
           /\ \A d \in Dbs : u \in queue'[d] <=> u \in queue[d]
           /\ u \in failed' <=> u \in failed
    BY <1>4, OthersUntouched
  <2> QED
    BY <2>1, <2>2 DEF TasksType, OwnStep,
       QueuedHasNoGoroutine, GoroutineFits
<1>5. ASSUME NEW d \in Dbs, Execute(d) PROVE GoroutineFits'
  <2>1. PICK batch \in Batches(d) :
           /\ Launch(d, batch)
           /\ queue' = [queue EXCEPT ![d] = @ \ batch]
    BY <1>5 DEF Execute
  <2>2. batch \subseteq queue[d] /\ batch \subseteq Tasks
    BY DEF Batches, TasksType
  <2>3. /\ \A t \in Tasks : exec'[t] = IF t \in batch THEN "start" ELSE exec[t]
        /\ \A t \in Tasks, e \in Dbs :
              t \in queue'[e] <=> (t \in queue[e] /\ ~(e = d /\ t \in batch))
        /\ state' = state /\ home' = home /\ known' = known /\ failed' = failed
    BY <2>1, <2>2 DEF TasksType, Launch
  <2> QED
    BY <2>2, <2>3 DEF TasksType, QueuedHasNoGoroutine, GoroutineFits
<1>6. CASE Leave
  BY <1>1, <1>6 DEF Leave, tasksAndPlaces, taskVars
<1>7. CASE UNCHANGED <<taskVars, execVars>>
  BY <1>1, <1>7 DEF tasksAndPlaces, taskVars, execVars
<1> QED
  BY <1>2, <1>3, <1>4, <1>5, <1>6, <1>7, StepCases

\* What leaves a map gets a goroutine, what loses it is settled or back.
LEMMA NoTaskLostStep ==
  ASSUME TasksType, QueuedHasNoGoroutine, GoroutineFits, NoTaskLost,
         [Next]_vars
  PROVE  NoTaskLost'
<1>1. CASE UNCHANGED tasksAndPlaces
  BY <1>1 DEF tasksAndPlaces, QueuedHasNoGoroutine, GoroutineFits,
       NoTaskLost, HasGoroutine, Queued
<1>2. ASSUME NEW t \in Tasks, NEW d \in Dbs, Schedule(t, d) PROVE NoTaskLost'
  <2>1. exec[t] = "none"
    BY <1>2 DEF TasksType, GoroutineFits, Schedule
  <2>2. \A e \in Dbs : t \notin queue[e]
    BY <1>2 DEF QueuedHasNoGoroutine, Schedule
  <2>3. /\ state'[t] = "created" /\ exec' = exec /\ failed' = failed
        /\ \A u \in Tasks : u # t => state'[u] = state[u] /\ home'[u] = home[u]
        /\ home'[t] = d
        /\ \A u \in Tasks, e \in Dbs :
              u \in queue'[e] <=> (u \in queue[e] \/ (u = t /\ e = d))
        /\ known' = known \cup {t}
    BY <1>2 DEF TasksType, Schedule, execVars
  <2> QED
    BY <2>1, <2>2, <2>3 DEF TasksType, QueuedHasNoGoroutine, GoroutineFits,
       NoTaskLost, HasGoroutine, Queued
<1>3. ASSUME NEW t \in Tasks, Result(t) \/ Cancel(t) PROVE NoTaskLost'
  BY <1>3 DEF TasksType, Result, Cancel, execVars,
       QueuedHasNoGoroutine, GoroutineFits,
       NoTaskLost, HasGoroutine, Queued
<1>4. ASSUME NEW t \in Tasks,
             Works(t)
      PROVE  NoTaskLost'
  <2>1. /\ exec[t] # "none" /\ home' = home /\ known' = known
        /\ \A d \in Dbs : t \in queue'[d] <=>
               (t \in queue[d] \/ (d = home[t] /\ exec[t] = "store"))
        /\ t \in failed => t \in failed'
        /\ OwnStep(t)
    BY <1>4, OwnTask
  <2>2. \A u \in Tasks : u # t =>
           /\ state'[u] = state[u]
           /\ exec'[u] = exec[u]
           /\ \A d \in Dbs : u \in queue'[d] <=> u \in queue[d]
           /\ u \in failed' <=> u \in failed
    BY <1>4, OthersUntouched
  <2> QED
    BY <2>1, <2>2 DEF TasksType, OwnStep,
       QueuedHasNoGoroutine, GoroutineFits,
       NoTaskLost, HasGoroutine, Queued
<1>5. ASSUME NEW d \in Dbs, Execute(d) PROVE NoTaskLost'
  <2>1. PICK batch \in Batches(d) :
           /\ Launch(d, batch)
           /\ queue' = [queue EXCEPT ![d] = @ \ batch]
    BY <1>5 DEF Execute
  <2>2. batch \subseteq queue[d] /\ batch \subseteq Tasks
    BY DEF Batches, TasksType
  <2>3. /\ \A t \in Tasks : exec'[t] = IF t \in batch THEN "start" ELSE exec[t]
        /\ \A t \in Tasks, e \in Dbs :
              t \in queue'[e] <=> (t \in queue[e] /\ ~(e = d /\ t \in batch))
        /\ state' = state /\ home' = home /\ known' = known /\ failed' = failed
    BY <2>1, <2>2 DEF TasksType, Launch
  <2> QED
    BY <2>2, <2>3 DEF TasksType, QueuedHasNoGoroutine, GoroutineFits,
       NoTaskLost, HasGoroutine, Queued
<1>6. CASE Leave
  BY <1>1, <1>6 DEF Leave, tasksAndPlaces, taskVars
<1>7. CASE UNCHANGED <<taskVars, execVars>>
  BY <1>1, <1>7 DEF tasksAndPlaces, taskVars, execVars
<1> QED
  BY <1>2, <1>3, <1>4, <1>5, <1>6, <1>7, StepCases

\* A task finishes where its goroutine ends.
LEMMA FinishedIsSettledStep ==
  ASSUME TasksType, QueuedHasNoGoroutine, GoroutineFits, FinishedIsSettled,
         [Next]_vars
  PROVE  FinishedIsSettled'
<1>1. CASE UNCHANGED tasksAndPlaces
  BY <1>1 DEF tasksAndPlaces, QueuedHasNoGoroutine, GoroutineFits,
       FinishedIsSettled, HasGoroutine, Queued
<1>2. ASSUME NEW t \in Tasks, NEW d \in Dbs, Schedule(t, d)
      PROVE  FinishedIsSettled'
  <2>1. exec[t] = "none"
    BY <1>2 DEF TasksType, GoroutineFits, Schedule
  <2>2. \A e \in Dbs : t \notin queue[e]
    BY <1>2 DEF QueuedHasNoGoroutine, Schedule
  <2>3. /\ state'[t] = "created" /\ exec' = exec /\ failed' = failed
        /\ \A u \in Tasks : u # t => state'[u] = state[u] /\ home'[u] = home[u]
        /\ home'[t] = d
        /\ \A u \in Tasks, e \in Dbs :
              u \in queue'[e] <=> (u \in queue[e] \/ (u = t /\ e = d))
        /\ known' = known \cup {t}
    BY <1>2 DEF TasksType, Schedule, execVars
  <2> QED
    BY <2>1, <2>2, <2>3 DEF TasksType, QueuedHasNoGoroutine, GoroutineFits,
       FinishedIsSettled, HasGoroutine, Queued
<1>3. ASSUME NEW t \in Tasks, Result(t) \/ Cancel(t) PROVE FinishedIsSettled'
  BY <1>3 DEF TasksType, Result, Cancel, execVars,
       QueuedHasNoGoroutine, GoroutineFits,
       FinishedIsSettled, HasGoroutine, Queued
<1>4. ASSUME NEW t \in Tasks,
             Works(t)
      PROVE  FinishedIsSettled'
  <2>1. /\ exec[t] # "none" /\ home' = home /\ known' = known
        /\ \A d \in Dbs : t \in queue'[d] <=>
               (t \in queue[d] \/ (d = home[t] /\ exec[t] = "store"))
        /\ t \in failed => t \in failed'
        /\ OwnStep(t)
    BY <1>4, OwnTask
  <2>2. \A u \in Tasks : u # t =>
           /\ state'[u] = state[u]
           /\ exec'[u] = exec[u]
           /\ \A d \in Dbs : u \in queue'[d] <=> u \in queue[d]
           /\ u \in failed' <=> u \in failed
    BY <1>4, OthersUntouched
  <2> QED
    BY <2>1, <2>2 DEF TasksType, OwnStep,
       QueuedHasNoGoroutine, GoroutineFits,
       FinishedIsSettled, HasGoroutine, Queued
<1>5. ASSUME NEW d \in Dbs, Execute(d) PROVE FinishedIsSettled'
  <2>1. PICK batch \in Batches(d) :
           /\ Launch(d, batch)
           /\ queue' = [queue EXCEPT ![d] = @ \ batch]
    BY <1>5 DEF Execute
  <2>2. batch \subseteq queue[d] /\ batch \subseteq Tasks
    BY DEF Batches, TasksType
  <2>3. /\ \A t \in Tasks : exec'[t] = IF t \in batch THEN "start" ELSE exec[t]
        /\ \A t \in Tasks, e \in Dbs :
              t \in queue'[e] <=> (t \in queue[e] /\ ~(e = d /\ t \in batch))
        /\ state' = state /\ home' = home /\ known' = known /\ failed' = failed
    BY <2>1, <2>2 DEF TasksType, Launch
  <2> QED
    BY <2>2, <2>3 DEF TasksType, QueuedHasNoGoroutine, GoroutineFits,
       FinishedIsSettled, HasGoroutine, Queued
<1>6. CASE Leave
  BY <1>1, <1>6 DEF Leave, tasksAndPlaces, taskVars
<1>7. CASE UNCHANGED <<taskVars, execVars>>
  BY <1>1, <1>7 DEF tasksAndPlaces, taskVars, execVars
<1> QED
  BY <1>2, <1>3, <1>4, <1>5, <1>6, <1>7, StepCases

----------------------------------------------------------------------------
(* The invariant, and the theorems.                                        *)

LEMMA InvInit ==
  ASSUME Init
  PROVE  SchedulerInv
<1>1. SchedulerTypeOK
  <2>1. AtTick \in [phase : Phases, left : SUBSET Dbs, with : SUBSET Dbs,
                    without : SUBSET Dbs, closed : SUBSET Dbs,
                    totalTasks : Nat, quota : Int, totalOpen : Int]
    BY DEF AtTick, Phases
  <2>2. TasksType /\ numActiveTasks \in Nat
    BY SchedulerAssumption DEF Init, TasksType
  <2>3. DbType
    BY SchedulerAssumption DEF Init, DbType
  <2> QED
    BY <2>1, <2>2, <2>3 DEF Init, TasksType, DbType, SchedulerTypeOK
<1>2. ActiveIsRunning
  <2>1. {t \in Tasks : HasGoroutine(t)} = {}
    BY DEF Init, HasGoroutine
  <2> QED
    BY <2>1, FS_EmptySet DEF Init, ActiveIsRunning
<1>3. QueuedHasNoGoroutine /\ NoTaskLost /\ GoroutineFits /\ FinishedIsSettled
  BY DEF Init, QueuedHasNoGoroutine, NoTaskLost, GoroutineFits,
         FinishedIsSettled, HasGoroutine, Queued
<1> QED
  BY <1>1, <1>2, <1>3 DEF SchedulerInv

LEMMA InvStep ==
  ASSUME SchedulerInv, [Next]_vars
  PROVE  SchedulerInv'
<1>0. /\ SchedulerTypeOK /\ ActiveIsRunning /\ QueuedHasNoGoroutine
      /\ NoTaskLost /\ GoroutineFits /\ FinishedIsSettled
  BY DEF SchedulerInv
<1>1. TasksType
  BY <1>0 DEF SchedulerTypeOK, TasksType
<1>2. TasksType'
  BY <1>1, TasksTypeStep
<1>3. ActiveIsRunning'
  BY <1>0, <1>1, ActiveIsRunningStep
<1>4. numActiveTasks' \in Nat
  <2>1. numActiveTasks' = leaving' + Cardinality(Running')
    BY <1>3 DEF ActiveIsRunning, Running
  <2>2. Running' \subseteq Tasks
    BY DEF Running
  <2>3. Cardinality(Running') \in Nat
    BY <2>2, SchedulerAssumption, FS_Subset, FS_CardinalityType
  <2> QED
    BY <1>2, <2>1, <2>3 DEF TasksType
<1>5. SchedulerTypeOK'
  <2>1. DbType'
    BY <1>0, DbTypeStep
  <2>2. routine' \in [phase : Phases, left : SUBSET Dbs, with : SUBSET Dbs,
                      without : SUBSET Dbs, closed : SUBSET Dbs,
                      totalTasks : Nat, quota : Int, totalOpen : Int]
    BY <1>0, RoutineType
  <2> QED
    BY <1>2, <1>4, <2>1, <2>2 DEF TasksType, DbType, SchedulerTypeOK
<1>6. QueuedHasNoGoroutine'
  BY <1>0, <1>1, QueuedHasNoGoroutineStep
<1>7. GoroutineFits'
  BY <1>0, <1>1, GoroutineFitsStep
<1>8. NoTaskLost'
  BY <1>0, <1>1, NoTaskLostStep
<1>9. FinishedIsSettled'
  BY <1>0, <1>1, FinishedIsSettledStep
<1> QED
  BY <1>3, <1>5, <1>6, <1>7, <1>8, <1>9 DEF SchedulerInv

\* Every step of the scheduler keeps the whole of its invariant.
THEOREM SchedulerCorrect == Spec => []SchedulerInv
<1> QED
  BY InvInit, InvStep, PTL DEF Spec

\* The scheduler's counter is the number of its goroutines, although each one
\* leaves it by a call of its own on one of several paths.
THEOREM CounterIsExact == Spec => []ActiveIsRunning
<1>1. SchedulerInv => ActiveIsRunning
  BY DEF SchedulerInv
<1> QED
  BY <1>1, SchedulerCorrect, PTL

\* No task is in a map and in a goroutine, nor in two maps: the callback of a
\* task never runs twice at a time.
THEOREM NeverTwice == Spec => []QueuedHasNoGoroutine
<1>1. SchedulerInv => QueuedHasNoGoroutine
  BY DEF SchedulerInv
<1> QED
  BY <1>1, SchedulerCorrect, PTL

\* However databases open and close, a task that is not settled is somewhere.
THEOREM NothingLost == Spec => []NoTaskLost
<1>1. SchedulerInv => NoTaskLost
  BY DEF SchedulerInv
<1> QED
  BY <1>1, SchedulerCorrect, PTL

\* What Result reads of a finished task is not written any more.
THEOREM OutputIsComplete == Spec => []FinishedIsSettled
<1>1. SchedulerInv => FinishedIsSettled
  BY DEF SchedulerInv
<1> QED
  BY <1>1, SchedulerCorrect, PTL

LEMMA CancelStep ==
  ASSUME SchedulerInv, [Next]_vars, NEW u \in Tasks, state[u] = "canceled"
  PROVE  /\ state'[u] = "canceled"
         /\ exec[u] \in {"none", "start"} => exec'[u] \in {"none", "start"}
<1>1. TasksType
  BY DEF SchedulerInv, SchedulerTypeOK, TasksType
<1>2. CASE UNCHANGED <<taskVars, execVars>>
  BY <1>2 DEF taskVars, execVars
<1>3. ASSUME NEW t \in Tasks, NEW d \in Dbs, Schedule(t, d)
      PROVE  state'[u] = "canceled" /\ exec' = exec
  BY <1>1, <1>3 DEF TasksType, Schedule, execVars
<1>4. ASSUME NEW t \in Tasks, Result(t) \/ Cancel(t)
      PROVE  state'[u] = "canceled" /\ exec' = exec
  BY <1>1, <1>4 DEF TasksType, Result, Cancel, execVars
<1>5. ASSUME NEW t \in Tasks, Works(t), t # u
      PROVE  state'[u] = "canceled" /\ exec'[u] = exec[u]
  BY <1>1, <1>5, OthersUntouched
<1>6. CASE Works(u)
  BY <1>1, <1>6, OwnTask DEF OwnStep
<1>7. CASE Leave
  BY <1>7 DEF Leave, taskVars
<1>8. ASSUME NEW d \in Dbs, Execute(d)
      PROVE  state' = state /\ exec'[u] \in {exec[u], "start"}
  BY <1>8 DEF Execute, Launch
<1> QED
  BY <1>2, <1>3, <1>4, <1>5, <1>6, <1>7, <1>8, StepCases

\* A cancel is final: no retry and no goroutine that gives the task back undoes
\* it, and none starts the callback.
THEOREM CancelStays == Spec => CancelIsFinal
<1>1. SchedulerInv /\ [Next]_vars =>
        [\A t \in Tasks :
            state[t] = "canceled" =>
              /\ state'[t] = "canceled"
              /\ exec[t] \in {"none", "start"} => exec'[t] \in {"none", "start"}
        ]_vars
  BY CancelStep
<1> QED
  BY <1>1, SchedulerCorrect, PTL DEF Spec, CancelIsFinal
=============================================================================
