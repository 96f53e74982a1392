\* One job with a buffer and sockets of two entries, and both stoppers.
SPECIFICATION FairSpec
CONSTANTS
    MaxBuffered = 2
    MaxWire = 2
    MaxPipe = 1
INVARIANTS EndIsMarked LossIsBounded HostReaps StopIsAccounted
PROPERTIES KeepsHandle JobEnds KillReachesAgent
CHECK_DEADLOCK FALSE
