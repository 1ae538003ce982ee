\* Two levels of containers with two elements, strings of up to three units,
\* numbers of up to three characters, another run after each one.
CONSTANTS
    Keys = {k1, k2}
    Value = v
    nil = nil
    Options <- Settings
    MaxDepth = 2
    MaxElements = 2
    MaxString = 3
    MaxLeft = 1
    InitialCapacity = 1
    MinChunkSize = 2
    MaxSize = 2
    MaxGrowSize = 2
    NumberSize = 4
SPECIFICATION Spec
INVARIANTS TypeOK BufferFits KeyWhole DataWhole CompleteUnlessStale SilentOnlyRejected Verdict
PROPERTIES NothingBuiltAfterError BuildsTree Progress
CHECK_DEADLOCK FALSE
