\* Safety of the Task event queue and of the process-wide semaphore, and
\* liveness of the semaphore: every task body eventually runs.  (No
\* symmetry reduction: it is unsound for the liveness property.)
CONSTANTS
    t1 = t1
    t2 = t2
    Tasks <- MCTasks
    NoTask = NoTask
    MaxEvents = 3
    OldReports = {0}
    UserPath = UserPath
SPECIFICATION Spec
INVARIANT TypeOK
PROPERTY EventChannelRefined
INVARIANT DoneMeansDrained
INVARIANT AtMostOneBody
INVARIANT NameStillFree
PROPERTY EveryTaskRuns
\* A controller can hang in wait_for_next_event (see MC_TaskHang.cfg), so
\* the system really can stop before every Task is destroyed.
CHECK_DEADLOCK FALSE
