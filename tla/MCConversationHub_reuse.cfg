\* A task settled before the restart and a job that bears its attempt's id.
SPECIFICATION Spec
CONSTANTS
    hermes = hermes
    codex = codex
    butler = butler
    none = none
    Agents = {hermes}
    Butler = butler
    NoAgent = none
    MaxTasks = 2
    MaxJobs = 1
    MaxRuns = 2
    MaxTurns = 2
    MaxQueue = 2
    Repeats = FALSE
PROPERTIES DroppedIsReplay
CHECK_DEADLOCK FALSE
