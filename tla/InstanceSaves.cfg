\* Two players and two dungeons.
SPECIFICATION MCSpec
CONSTANTS
    a = a  b = b  A = A  B = B
    Players = {a, b}
    Maps = {A, B}
    Lifetime = 0
    MaxId = 2
    MaxTime = 1
    MaxChanges = 3
    MaxChangesOfTwo = 2
SYMMETRY Symmetry
INVARIANTS
    TypeOK BindsAndSavesAgree EntryIsGranted InsideAMap StoredAwaitsReset InstancePrivate
CHECK_DEADLOCK FALSE
