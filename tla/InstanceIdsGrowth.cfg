\* The vector has to grow beyond a full word.
SPECIFICATION Spec
CONSTANTS
    Granule = 4
    Word = 8
    MaxSaved = 3
    MaxId = 10
    MapThreads = {t1}
INVARIANTS NextUnused
CHECK_DEADLOCK FALSE
