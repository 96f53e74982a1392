\* A cancel arrives while a failover relaunches the job.
SPECIFICATION Spec
CONSTANTS
    hermes = hermes
    codex = codex
    m1 = m1
    m2 = m2
    m3 = m3
    NoJob = NoJob
    NoModel = NoModel
    MaxJobs = 1
    MaxKept = 3
    Agents = {codex}
    Backends = {codex}
    CleanBackends = {codex}
    SessionAgents = {}
    Models = {m1, m2}
    Chain <- TwoModels
    InactivityTimeout = FALSE
    MayShutdown = TRUE
    Requests <- CodexCalls
    Switches = {}
    Reports = {"running", "done"}
    Failures = {"quota"}
INVARIANTS CancelReaps
