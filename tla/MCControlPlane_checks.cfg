\* Two callers, restarts.
SPECIFICATION FairSpec
CONSTANTS
    codex = codex
    hermes = hermes
    none = none
    c1 = c1
    c2 = c2
    Agents = {codex}
    NoAgent = none
    Callers = {c1, c2}
    MaxJobs = 2
    MaxQueue = 1
    MaxRuns = 2
INVARIANTS ReservationOwned PendingIsChecked OutcomeIsFound NoGhostWork
PROPERTIES KeepsSelfChecks CheckSettles
CHECK_DEADLOCK FALSE
