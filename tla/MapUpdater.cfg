SPECIFICATION FairSpec
CONSTANTS
    w1 = w1
    w2 = w2
    i1 = i1
    i2 = i2
    continent = continent
    instanced = instanced
    Workers = {w1, w2}
    World = World
    BaseMaps = {continent, instanced}
    Instances = {i1, i2}
    Parent <- ParentDef
    NoMap = NoMap
INVARIANTS TypeOK Barrier RequestsSound NoNullCall EveryMapOnce NoLostWakeup
PROPERTIES TickCompletes ShutdownCompletes BarrierSpec
