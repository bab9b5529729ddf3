SPECIFICATION FairSpec
CONSTANTS
    Dbs = {d0, d1}
    Live = d0
    Tasks = {t1, t2}
    MaxRunningTasks = 1
    MaxOpenedDB = 1
    CallbackFails = TRUE
    ConnectFails = TRUE
CHECK_DEADLOCK FALSE
INVARIANTS
    ActiveIsRunning
    QueuedHasNoGoroutine
    NoTaskLost
    FinishedIsSettled
    SchedulerInv
PROPERTIES
    CancelIsFinal
    ScheduledSettles
