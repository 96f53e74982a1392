\* Two jobs in any mix of a session agent's turns and internal checks of an agent
\* without lane or chain, met by shutdown().
SPECIFICATION LaneExitingSpec
CONSTANTS
    hermes = hermes
    codex = codex
    m1 = m1
    m2 = m2
    m3 = m3
    NoJob = NoJob
    NoModel = NoModel
    MaxJobs = 2
    MaxKept = 1
    Agents = {codex, hermes}
    Backends = {codex, hermes}
    CleanBackends = {codex}
    SessionAgents = {hermes}
    Models = {}
    Chain <- NoChain
    InactivityTimeout = FALSE
    MayShutdown = TRUE
    Requests <- PlainMix
    Switches = {}
    Reports = {"done"}
    Failures = {}
INVARIANTS ActiveIsKept IdleIsNotified ShutdownReaps
PROPERTIES ShutdownReturned
