\* Refinement of VMLifecycle, safety and the completion of deletions: two
\* incarnations, two volumes, one spec edit, one transient fault.  No
\* symmetry reduction, since it is unsound for liveness.
CONSTANTS
    v1 = v1
    v2 = v2
    Volumes <- MCVolumes
    MaxCreates = 2
    MaxEdits = 1
    MaxFaults = 1
    FinalizerOnCreate = TRUE
SPECIFICATION Spec
PROPERTY LifecycleRefined
CHECK_DEADLOCK FALSE
