\* A volume removed from the spec after its attach was never recorded in
\* the status: DetachConvergence is expected to fail.
CONSTANTS
    v1 = v1
    v2 = v2
    Volumes <- MCVolumes
    MaxCreates = 2
    MaxEdits = 1
    MaxFaults = 1
    FinalizerOnCreate = TRUE
SPECIFICATION Spec
PROPERTY DetachConvergence
CHECK_DEADLOCK FALSE
