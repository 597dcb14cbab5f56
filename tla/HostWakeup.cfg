SPECIFICATION FairSpec
CONSTANTS
    Cpu = {c0, c1}
    Boot = c0
    MaxStarts = 2
PROPERTY StartedRuns
CHECK_DEADLOCK FALSE
