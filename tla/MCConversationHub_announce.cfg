\* A finished job is announced while another turn holds the lock.
SPECIFICATION Spec
CONSTANTS
    hermes = hermes
    codex = codex
    butler = butler
    none = none
    Agents = {hermes, codex}
    Butler = butler
    NoAgent = none
    MaxTasks = 2
    MaxJobs = 2
    MaxRuns = 1
    MaxTurns = 3
    MaxQueue = 3
    Repeats = FALSE
PROPERTIES AnnouncedAfterRecording
CHECK_DEADLOCK FALSE
