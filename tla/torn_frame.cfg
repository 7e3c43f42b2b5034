SPECIFICATION Spec
CONSTANTS
    MaxRecords = 3
    Callers = 1
    Dirs = {d1, d2}
    FirstDir = d1
    FirstSize = 3
    Sizes = {1, 3}
    BackupCounts = {1, 2}
    QueueCap = 1
    BatchMax = 2
    CheckpointInterval = 2
    MaxFaults = 1
    MaxChanges = 1
    NoFile = NoFile
INVARIANT
    BeforeDamageIsReadable
CHECK_DEADLOCK FALSE
