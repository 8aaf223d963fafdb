\* Ids stay below the first full word: one map thread, the default setting.
SPECIFICATION Spec
CONSTANTS
    Granule = 4
    Word = 8
    MaxSaved = 3
    MaxId = 7
    MapThreads = {t1}
INVARIANTS TypeOK NextUnused NextIsLowest
CHECK_DEADLOCK FALSE
