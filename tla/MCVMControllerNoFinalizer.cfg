\* An object admitted without the VM finalizer: NoOrphanedVM is expected
\* to fail, since Reconcile never adds the finalizer itself.
CONSTANTS
    v1 = v1
    v2 = v2
    Volumes <- MCVolumes
    MaxCreates = 2
    MaxEdits = 1
    MaxFaults = 2
    FinalizerOnCreate = FALSE
SPECIFICATION Spec
SYMMETRY VolumeSymmetry
INVARIANT NoOrphanedVM
CHECK_DEADLOCK FALSE
