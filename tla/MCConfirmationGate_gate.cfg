\* Confirmations by voice and button, agents that ask again, caps at their limit.
SPECIFICATION Spec
CONSTANTS
    hermes = hermes
    codex = codex
    none = none
    fix = fix
    d1 = d1
    d2 = d2
    d3 = d3
    NoAgent = none
    Agents = {hermes, codex}
    Tasks = {fix}
    GlobalCap = 2
    HarnessCap = 1
    LoopLimit = 1
    MaxTokens = 2
    Work = {d1, d2, d3}
    MaxClicks = 1
SYMMETRY Symmetry
INVARIANTS LoopIsCut AdmittedKeepLimits
PROPERTY KeepsApproval
CHECK_DEADLOCK FALSE
