\* Three turns of one session agent queue for its lane.
SPECIFICATION ExitingSpec
CONSTANTS
    hermes = hermes
    codex = codex
    m1 = m1
    m2 = m2
    m3 = m3
    NoJob = NoJob
    NoModel = NoModel
    MaxJobs = 3
    MaxKept = 3
    Agents = {hermes}
    Backends = {hermes}
    CleanBackends = {hermes}
    SessionAgents = {hermes}
    Models = {}
    Chain <- NoChain
    InactivityTimeout = FALSE
    MayShutdown = FALSE
    Requests <- HermesCalls
    Switches = {}
    Reports = {}
    Failures = {}
INVARIANTS TypeOK LaneExclusive LaneConsistent
PROPERTIES KeepsContract EveryJobReported CancelAnswered
