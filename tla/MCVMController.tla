--------------------------- MODULE MCVMController ---------------------------
(* Small instances of VMController for TLC.                                *)
EXTENDS VMControllerLifecycle, TLC

CONSTANTS v1, v2

MCVolumes == {v1, v2}

VolumeSymmetry == Permutations(MCVolumes)
=============================================================================
