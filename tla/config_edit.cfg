\* Three pages in three tabs, one edit besides what runs first, three saves that
\* may be in their handlers at once.
SPECIFICATION Spec
CONSTANTS
    MaxVersion = 2
    MaxSaves = 3
    Gone = Gone
    Empty = Empty
    Damaged = Damaged
INVARIANTS
    FileIsWhatRuns
    UnmarkedHasRun
PROPERTY SectionSaveKeepsRest
CHECK_DEADLOCK FALSE
