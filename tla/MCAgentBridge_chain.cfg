\* One job, of an agent with a chain of three models that the user may also switch,
\* or of a session agent; or one that asks for a clean session its agent has no form of.
SPECIFICATION Spec
CONSTANTS
    hermes = hermes
    codex = codex
    m1 = m1
    m2 = m2
    m3 = m3
    NoJob = NoJob
    NoModel = NoModel
    MaxJobs = 1
    MaxKept = 3
    Agents = {codex, hermes}
    Backends = {codex, hermes}
    CleanBackends = {hermes}
    SessionAgents = {hermes}
    Models = {m1, m2, m3}
    Chain <- ThreeModels
    InactivityTimeout = TRUE
    MayShutdown = TRUE
    Requests <- ChainMix
    Switches = {m1, m2, m3}
    Reports = {"done", "failed", "waiting"}
    Failures = {"quota", "auth", "transient"}
INVARIANTS NoModelRetried OnlyRelaunchEscapes
PROPERTIES CancelTakenBack
