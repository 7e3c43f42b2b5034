\* Two saves share config.yaml.tmp.
SPECIFICATION Spec
CONSTANTS
    MaxVersion = 2
    MaxSaves = 2
    Gone = Gone
    Empty = Empty
    Damaged = Damaged
INVARIANT FileAlwaysWhole
CHECK_DEADLOCK FALSE
