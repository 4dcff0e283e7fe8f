\* Safety: two incarnations of the name, two volumes, one spec edit and
\* two transient faults.
CONSTANTS
    v1 = v1
    v2 = v2
    Volumes <- MCVolumes
    MaxCreates = 2
    MaxEdits = 1
    MaxFaults = 2
    FinalizerOnCreate = TRUE
SPECIFICATION Spec
SYMMETRY VolumeSymmetry
INVARIANT NoOrphanedVM NothingLeftUndone
PROPERTY LifecycleSafe
CHECK_DEADLOCK FALSE
