CONSTANTS
    Tasks <- MC_Tasks
    InitTask <- MC_InitTask
    TASK_LIMIT <- MC_TASK_LIMIT
    MaxPolls <- MC_MaxPolls

SPECIFICATION Spec

INVARIANT TypeOK
PROPERTY ScheduledTaskRuns
PROPERTY ShutdownReturns
