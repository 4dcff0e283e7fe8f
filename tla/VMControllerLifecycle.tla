------------------------ MODULE VMControllerLifecycle ------------------------
(***************************************************************************)
(* The controller implements the lifecycle of VMLifecycle.  The object's  *)
(* phase is read off the API server's copy, the VM's existence off the    *)
(* provider; the worker's state, the cache, the queue and the attachments *)
(* are hidden.                                                             *)
(***************************************************************************)
EXTENDS VMController

ObjectPhase ==
    IF store.uid = 0 THEN "None"
    ELSE IF store.deleting THEN "Deleting" ELSE "Live"

Lifecycle == INSTANCE VMLifecycle WITH object <- ObjectPhase,
                                       vmExists <- ext.exists

(* The safety part of the lifecycle, as an action property: every step   *)
(* of the controller or its environment either leaves the object's phase  *)
(* and the VM's existence alone or is a lifecycle step.  In particular    *)
(* reconcileDelete never releases the finalizer while the VM still exists *)
(* (deleteVm's errors are returned), and createVm never creates a VM for  *)
(* a name with no object.                                                  *)
LifecycleSafe ==
    Lifecycle!Init /\ [][Lifecycle!Next]_<<ObjectPhase, ext.exists>>

(* The controller implements the lifecycle: it creates a VM only while an *)
(* object of the name exists, deletes it (deleteVm) only once deletion of *)
(* that object was requested, releases the finalizer (reconcileDelete)    *)
(* only after the VM is gone, and always completes a requested deletion,  *)
(* whatever stale reads, conflicts, faults and re-creations intervene.    *)
LifecycleRefined == Lifecycle!Spec

=============================================================================
