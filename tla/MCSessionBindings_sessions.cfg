\* A channel that resumes native sessions, one that does not, and restarts.
SPECIFICATION Spec
CONSTANTS
    native = native
    plain = plain
    Channels = {native, plain}
    NativeAgents = {native}
    MaxIds = 3
    MaxRuns = 2
INVARIANTS DurableBeforeUse NativeIsProved
PROPERTIES KeepsSessionContract
CHECK_DEADLOCK FALSE
