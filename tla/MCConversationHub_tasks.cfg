\* Two tasks, two agents, repeated events and one restart.
SPECIFICATION FairSpec
CONSTANTS
    hermes = hermes
    codex = codex
    butler = butler
    none = none
    Agents = {hermes, codex}
    Butler = butler
    NoAgent = none
    MaxTasks = 2
    MaxJobs = 3
    MaxRuns = 2
    MaxTurns = 2
    MaxQueue = 1
    Repeats = TRUE
INVARIANTS OutcomeOwned OwnersAgree ListedIsLive ActiveIsAwaited PresentedOnce
PROPERTIES KeepsTaskContract FloorNotStolen TaskSettles
CHECK_DEADLOCK FALSE
