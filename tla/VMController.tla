---------------------------- MODULE VMController ----------------------------
(***************************************************************************)
(* The VirtualMachine controller of vm-operator                            *)
(* (pkg/controller/virtualmachine/virtualmachine_controller.go) for one    *)
(* object name.  controller-runtime runs at most one Reconcile per name at *)
(* a time, so one worker is modelled; each call that Reconcile makes to    *)
(* the API server or to the provider is one step, and the user, the        *)
(* informer cache, the garbage collector and the guest run between them.  *)
(*                                                                         *)
(*   store       the VirtualMachine object in the API server              *)
(*   cache       the informer's copy, which Reconcile's Get reads; it     *)
(*               lags the store and catches up one watch event at a time  *)
(*   ext         the virtual machine on the infrastructure provider       *)
(*   attachment  CnsNodeVmAttachment per volume: 0 for none, else the uid *)
(*               of the VirtualMachine incarnation that owns it           *)
(*   missing     prerequisites (class, metadata, resource policy, storage)*)
(*               the cluster does not provide yet                         *)
(*   pc, vm, vmStatus, volumesToAdd, volumesToDelete, volumeOpsErr        *)
(*               the local state of the Reconcile in progress             *)
(*   queued      the name is in the work queue (or marked dirty)          *)
(***************************************************************************)
EXTENDS Naturals, FiniteSets

CONSTANTS
    Volumes,            \* PersistentVolumeClaim names a spec may list
    MaxCreates,         \* how many times the user creates an object of this name
    MaxEdits,           \* how many spec edits the user makes
    MaxFaults,          \* how many calls fail with a transient error
    FinalizerOnCreate   \* the object is admitted with the VM finalizer

ASSUME ConstantsAssumption ==
    /\ MaxCreates \in Nat /\ MaxEdits \in Nat /\ MaxFaults \in Nat
    /\ FinalizerOnCreate \in BOOLEAN

VARIABLES store, cache, ext, attachment, missing,
          pc, vm, vmStatus, volumesToAdd, volumesToDelete, volumeOpsErr,
          queued, creates, edits, faults

vars == <<store, cache, ext, attachment, missing,
          pc, vm, vmStatus, volumesToAdd, volumesToDelete, volumeOpsErr,
          queued, creates, edits, faults>>

(* "Shared": the VirtualMachineClass, the metadata ConfigMap and the       *)
(* VirtualMachineSetResourcePolicy, read by both createVm and updateVm.    *)
(* "CreateOnly": the policy being actualized on the provider and the       *)
(* storage class being in a ResourceQuota, checked by createVm alone.      *)
Prereqs == {"Shared", "CreateOnly"}

Status == [powerOn : BOOLEAN, hasIP : BOOLEAN, volumes : SUBSET Volumes]

Object == [uid : 0..MaxCreates, deleting : BOOLEAN, finalizer : BOOLEAN,
           volumes : SUBSET Volumes, powerOn : BOOLEAN, status : Status]

EmptyStatus == [powerOn |-> FALSE, hasIP |-> FALSE, volumes |-> {}]

\* uid 0 stands for "no object of this name"
NoObject == [uid |-> 0, deleting |-> FALSE, finalizer |-> FALSE,
             volumes |-> {}, powerOn |-> FALSE, status |-> EmptyStatus]

NoVM == [exists |-> FALSE, powerOn |-> FALSE, hasIP |-> FALSE]

PCs == {"Idle", "Delete", "RemoveFinalizer", "CheckExists", "Create",
        "Update", "Attach", "Detach", "VolumeStatus", "StatusUpdate"}

(* The API server removes an object whose deletion is requested once its  *)
(* finalizer list is empty.                                                *)
Persist(o) == IF o.deleting /\ ~o.finalizer THEN NoObject ELSE o

(* End of Reconcile: an error requeues with rate limiting, a non-zero      *)
(* RequeueAfter re-adds the name later, otherwise the name is queued only  *)
(* if an event arrived meanwhile.                                          *)
Finish(requeue) ==
    /\ pc' = "Idle"
    /\ queued' = (queued \/ requeue)

Fault == faults < MaxFaults /\ faults' = faults + 1

(* Mutant of requeuDelay: never ask for a delayed requeue.                *)
requeuDelayZero(status) == FALSE

(* requeuDelay: wait for the guest to report an IP address.               *)
requeuDelay(status) == status.powerOn /\ ~status.hasIP

(* GetVmVolumesToProcess: the CnsNodeVmAttachments to create and delete,  *)
(* from the volumes of the spec against those of the status.              *)
GetVmVolumesToProcess(o) ==
    <<o.volumes \ o.status.volumes, o.status.volumes \ o.volumes>>

Init ==
    /\ store = NoObject
    /\ cache = NoObject
    /\ ext = NoVM
    /\ attachment = [v \in Volumes |-> 0]
    /\ missing \in SUBSET Prereqs
    /\ pc = "Idle"
    /\ vm = NoObject
    /\ vmStatus = EmptyStatus
    /\ volumesToAdd = {}
    /\ volumesToDelete = {}
    /\ volumeOpsErr = FALSE
    /\ queued = FALSE
    /\ creates = 0
    /\ edits = 0
    /\ faults = 0

-----------------------------------------------------------------------------
(***************************************************************************)
(* The worker: Reconcile and the functions it calls.                       *)
(***************************************************************************)
Worker == <<pc, vm, vmStatus, volumesToAdd, volumesToDelete, volumeOpsErr>>
Env == <<store, cache, ext, attachment, missing, creates, edits>>

(* Reconcile: dequeue the name and Get the object from the cache.  Not     *)
(* found ends the pass; a read error requeues; a deletion timestamp leads  *)
(* to reconcileDelete, which does nothing without the finalizer.           *)
Start ==
    /\ pc = "Idle" /\ queued
    /\ \/ /\ cache.uid = 0
          /\ queued' = FALSE
          /\ UNCHANGED <<Worker, faults>>
       \/ /\ cache.uid # 0 /\ Fault
          /\ queued' = TRUE
          /\ UNCHANGED Worker
       \/ /\ cache.uid # 0
          /\ queued' = FALSE
          /\ vm' = cache
          /\ vmStatus' = cache.status
          /\ volumeOpsErr' = FALSE
          /\ pc' = IF ~cache.deleting THEN "CheckExists"
                   ELSE IF cache.finalizer THEN "Delete" ELSE "Idle"
          /\ UNCHANGED <<volumesToAdd, volumesToDelete, faults>>
    /\ UNCHANGED Env

(* Mutant of DeleteVm: a failed provider delete is treated like NotFound. *)
DeleteVmIgnoringError ==
    /\ pc = "Delete"
    /\ \/ /\ Fault
          /\ pc' = "RemoveFinalizer"
          /\ UNCHANGED <<ext, queued>>
       \/ /\ ext' = NoVM
          /\ pc' = "RemoveFinalizer"
          /\ UNCHANGED <<queued, faults>>
    /\ UNCHANGED <<store, cache, attachment, missing, creates, edits,
                   vm, vmStatus, volumesToAdd, volumesToDelete, volumeOpsErr>>

(* deleteVm: the provider deletes the VM; NotFound counts as success.     *)
DeleteVm ==
    /\ pc = "Delete"
    /\ \/ /\ Fault
          /\ Finish(TRUE)
          /\ UNCHANGED ext
       \/ /\ ext' = NoVM
          /\ pc' = "RemoveFinalizer"
          /\ UNCHANGED <<queued, faults>>
    /\ UNCHANGED <<store, cache, attachment, missing, creates, edits,
                   vm, vmStatus, volumesToAdd, volumesToDelete, volumeOpsErr>>

(* Mutant of RemoveFinalizer: a failed Update is not returned, so nothing *)
(* requeues the name.                                                      *)
RemoveFinalizerSwallowingError ==
    /\ pc = "RemoveFinalizer"
    /\ \/ /\ store = vm
          /\ store' = Persist([vm EXCEPT !.finalizer = FALSE])
          /\ Finish(FALSE)
          /\ UNCHANGED faults
       \/ /\ store # vm
          /\ Finish(TRUE)
          /\ UNCHANGED <<store, faults>>
       \/ /\ store = vm /\ Fault
          /\ Finish(FALSE)
          /\ UNCHANGED store
    /\ UNCHANGED <<cache, ext, attachment, missing, creates, edits,
                   vm, vmStatus, volumesToAdd, volumesToDelete, volumeOpsErr>>

(* reconcileDelete: Update the object without the finalizer.  The write   *)
(* carries the resourceVersion read, so it fails if the object changed.   *)
RemoveFinalizer ==
    /\ pc = "RemoveFinalizer"
    /\ \/ /\ store = vm
          /\ store' = Persist([vm EXCEPT !.finalizer = FALSE])
          /\ Finish(FALSE)
          /\ UNCHANGED faults
       \/ /\ store # vm
          /\ Finish(TRUE)
          /\ UNCHANGED <<store, faults>>
       \/ /\ store = vm /\ Fault
          /\ Finish(TRUE)
          /\ UNCHANGED store
    /\ UNCHANGED <<cache, ext, attachment, missing, creates, edits,
                   vm, vmStatus, volumesToAdd, volumesToDelete, volumeOpsErr>>

(* reconcileNormal: ask the provider whether the VM exists, and work out  *)
(* the volume changes before creating or updating it.                     *)
CheckExists ==
    /\ pc = "CheckExists"
    /\ \/ /\ Fault
          /\ Finish(TRUE)
          /\ UNCHANGED <<volumesToAdd, volumesToDelete>>
       \/ /\ volumesToAdd' = GetVmVolumesToProcess(vm)[1]
          /\ volumesToDelete' = GetVmVolumesToProcess(vm)[2]
          /\ pc' = IF ext.exists THEN "Update" ELSE "Create"
          /\ UNCHANGED <<queued, faults>>
    /\ UNCHANGED <<Env, vm, vmStatus, volumeOpsErr>>

(* createVm: resolve every prerequisite, then ask the provider to create  *)
(* the VM.  A failed create may leave a VM behind.                        *)
Create ==
    /\ pc = "Create"
    /\ \/ /\ missing # {}
          /\ Finish(TRUE)
          /\ UNCHANGED <<ext, faults>>
       \/ /\ missing = {} /\ Fault
          /\ ext' \in {ext, [NoVM EXCEPT !.exists = TRUE]}
          /\ Finish(TRUE)
       \/ /\ missing = {}
          /\ ext' = [NoVM EXCEPT !.exists = TRUE]
          /\ pc' = "Update"
          /\ UNCHANGED <<queued, faults>>
    /\ UNCHANGED <<store, cache, attachment, missing, creates, edits,
                   vm, vmStatus, volumesToAdd, volumesToDelete, volumeOpsErr>>

(* updateVm: read the class, metadata and policy again and have the       *)
(* provider apply the spec (its power state) and report the VM's status.  *)
Update ==
    /\ pc = "Update"
    /\ \/ /\ "Shared" \in missing
          /\ Finish(TRUE)
          /\ UNCHANGED <<ext, vmStatus, faults>>
       \/ /\ "Shared" \notin missing /\ Fault
          /\ Finish(TRUE)
          /\ UNCHANGED <<ext, vmStatus>>
       \/ /\ "Shared" \notin missing
          /\ ext' = [exists |-> TRUE, powerOn |-> vm.powerOn,
                     hasIP |-> ext.hasIP /\ vm.powerOn]
          /\ vmStatus' = [vmStatus EXCEPT !.powerOn = vm.powerOn,
                                          !.hasIP = ext'.hasIP]
          /\ pc' = "Attach"
          /\ UNCHANGED <<queued, faults>>
    /\ UNCHANGED <<store, cache, attachment, missing, creates, edits,
                   vm, volumesToAdd, volumesToDelete, volumeOpsErr>>

(* Changes to a CnsNodeVmAttachment enqueue its owner (the watch set up   *)
(* in add).                                                               *)
EnqueueOnAttachmentChange ==
    queued' = (queued \/ attachment' # attachment)

(* AttachVolumes: create a CnsNodeVmAttachment per volume to add, owned   *)
(* by this incarnation; one that already exists is left as it is.  Any    *)
(* subset of the creations may fail.                                      *)
Attach ==
    /\ pc = "Attach"
    /\ \E failed \in SUBSET volumesToAdd :
          /\ IF failed = {} THEN UNCHANGED faults ELSE Fault
          /\ attachment' = [v \in Volumes |->
                              IF v \in volumesToAdd \ failed /\ attachment[v] = 0
                              THEN vm.uid ELSE attachment[v]]
          /\ volumeOpsErr' = (failed # {})
    /\ pc' = "Detach"
    /\ EnqueueOnAttachmentChange
    /\ UNCHANGED <<store, cache, ext, missing, creates, edits,
                   vm, vmStatus, volumesToAdd, volumesToDelete>>

(* DetachVolumes: delete the CnsNodeVmAttachment of each volume to        *)
(* delete; any subset of the deletions may fail.                          *)
Detach ==
    /\ pc = "Detach"
    /\ \E failed \in SUBSET volumesToDelete :
          /\ IF failed = {} THEN UNCHANGED faults ELSE Fault
          /\ attachment' = [v \in Volumes |->
                              IF v \in volumesToDelete \ failed THEN 0
                              ELSE attachment[v]]
          /\ volumeOpsErr' = (volumeOpsErr \/ failed # {})
    /\ pc' = "VolumeStatus"
    /\ EnqueueOnAttachmentChange
    /\ UNCHANGED <<store, cache, ext, missing, creates, edits,
                   vm, vmStatus, volumesToAdd, volumesToDelete>>

(* UpdateVmVolumesStatus: the in-memory status lists the volumes of the   *)
(* spec whose attachment exists, and keeps the volumes whose detach       *)
(* failed; a spec volume without an attachment is an error.               *)
VolumeStatus ==
    /\ pc = "VolumeStatus"
    /\ vmStatus' = [vmStatus EXCEPT !.volumes =
                      {v \in vm.volumes \cup volumesToDelete : attachment[v] # 0}]
    /\ volumeOpsErr' = (volumeOpsErr \/ \E v \in vm.volumes : attachment[v] = 0)
    /\ pc' = "StatusUpdate"
    /\ UNCHANGED <<Env, queued, faults, vm, volumesToAdd, volumesToDelete>>

(* reconcileNormal and Reconcile: write the status (optimistic            *)
(* concurrency on the version read), then return the volume errors, or   *)
(* the requeue delay.                                                      *)
StatusUpdate ==
    /\ pc = "StatusUpdate"
    /\ \/ /\ store = vm
          /\ store' = [vm EXCEPT !.status = vmStatus]
          /\ Finish(volumeOpsErr \/ requeuDelay(vmStatus))
          /\ UNCHANGED faults
       \/ /\ store # vm
          /\ Finish(TRUE)
          /\ UNCHANGED <<store, faults>>
       \/ /\ store = vm /\ Fault
          /\ Finish(TRUE)
          /\ UNCHANGED store
    /\ UNCHANGED <<cache, ext, attachment, missing, creates, edits,
                   vm, vmStatus, volumesToAdd, volumesToDelete, volumeOpsErr>>

-----------------------------------------------------------------------------
(***************************************************************************)
(* The environment.                                                        *)
(***************************************************************************)

(* The user creates an object of this name.                                *)
UserCreate ==
    /\ store.uid = 0 /\ creates < MaxCreates
    /\ \E vols \in SUBSET Volumes, on \in BOOLEAN :
          store' = [uid |-> creates + 1, deleting |-> FALSE,
                    finalizer |-> FinalizerOnCreate, volumes |-> vols,
                    powerOn |-> on, status |-> EmptyStatus]
    /\ creates' = creates + 1
    /\ UNCHANGED <<cache, ext, attachment, missing, edits, queued, faults, Worker>>

(* The user deletes the object: the API server sets the deletion          *)
(* timestamp and removes the object at once if no finalizer holds it.     *)
UserDelete ==
    /\ store.uid # 0 /\ ~store.deleting
    /\ store' = Persist([store EXCEPT !.deleting = TRUE])
    /\ UNCHANGED <<cache, ext, attachment, missing, creates, edits, queued,
                   faults, Worker>>

(* The user edits the spec: its volumes or its power state.               *)
UserEdit ==
    /\ store.uid # 0 /\ edits < MaxEdits
    /\ \E vols \in SUBSET Volumes, on \in BOOLEAN :
          /\ <<vols, on>> # <<store.volumes, store.powerOn>>
          /\ store' = [store EXCEPT !.volumes = vols, !.powerOn = on]
    /\ edits' = edits + 1
    /\ UNCHANGED <<cache, ext, attachment, missing, creates, queued, faults,
                   Worker>>

(* The informer receives the latest version and enqueues the name.        *)
CacheSync ==
    /\ cache # store
    /\ cache' = store
    /\ queued' = TRUE
    /\ UNCHANGED <<store, ext, attachment, missing, creates, edits, faults,
                   Worker>>

(* The garbage collector deletes an attachment whose owner is gone.       *)
GarbageCollect ==
    /\ \E v \in Volumes :
          /\ attachment[v] # 0 /\ attachment[v] # store.uid
          /\ attachment' = [attachment EXCEPT ![v] = 0]
    /\ queued' = TRUE
    /\ UNCHANGED <<store, cache, ext, missing, creates, edits, faults, Worker>>

(* The guest of a powered-on VM obtains an IP address.  No watch event    *)
(* reports it.                                                            *)
AssignIP ==
    /\ ext.exists /\ ext.powerOn /\ ~ext.hasIP
    /\ ext' = [ext EXCEPT !.hasIP = TRUE]
    /\ UNCHANGED <<store, cache, attachment, missing, creates, edits, queued,
                   faults, Worker>>

(* An administrator provides a missing prerequisite.                      *)
ResolvePrereq ==
    /\ \E p \in missing : missing' = missing \ {p}
    /\ UNCHANGED <<store, cache, ext, attachment, creates, edits, queued,
                   faults, Worker>>

WorkerStep ==
    \/ Start \/ DeleteVm \/ RemoveFinalizer \/ CheckExists \/ Create
    \/ Update \/ Attach \/ Detach \/ VolumeStatus \/ StatusUpdate

Next ==
    \/ WorkerStep
    \/ UserCreate \/ UserDelete \/ UserEdit
    \/ CacheSync \/ GarbageCollect \/ AssignIP \/ ResolvePrereq

(* The worker, the informer, the garbage collector and the guest keep     *)
(* going; the user and the administrator need not act.                    *)
Fairness ==
    /\ WF_vars(WorkerStep)
    /\ WF_vars(CacheSync)
    /\ WF_vars(GarbageCollect)
    /\ WF_vars(AssignIP)

Spec == Init /\ [][Next]_vars /\ Fairness

-----------------------------------------------------------------------------
(***************************************************************************)
(* Properties                                                              *)
(***************************************************************************)

TypeOK ==
    /\ store \in Object /\ cache \in Object /\ vm \in Object
    /\ ext \in [exists : BOOLEAN, powerOn : BOOLEAN, hasIP : BOOLEAN]
    /\ attachment \in [Volumes -> 0..MaxCreates]
    /\ missing \subseteq Prereqs
    /\ pc \in PCs
    /\ vmStatus \in Status
    /\ volumesToAdd \subseteq Volumes /\ volumesToDelete \subseteq Volumes
    /\ volumeOpsErr \in BOOLEAN /\ queued \in BOOLEAN
    /\ creates \in 0..MaxCreates /\ edits \in 0..MaxEdits
    /\ faults \in 0..MaxFaults

(* No orphaned VM: once no VirtualMachine object of this name remains in  *)
(* the API server, no VM remains on the provider.  This rests on the      *)
(* finalizer being removed by reconcileDelete only after deleteVm         *)
(* succeeded, and on Reconcile never creating a VM from a stale read.     *)
NoOrphanedVM == store.uid = 0 => ~ext.exists

(* Nothing left undone: whenever the worker is idle, the name is not in   *)
(* the queue and the informer has caught up, a live object has its VM,    *)
(* in the requested power state, and an attachment for every volume of    *)
(* its spec, and no deletion is pending.  Reconcile must requeue on every *)
(* error path and every watch event must enqueue: a swallowed error or a  *)
(* lost event leaves work that no later pass is scheduled to do.          *)
NothingLeftUndone ==
    pc = "Idle" /\ ~queued /\ cache = store /\ store.uid # 0 =>
        /\ ~store.deleting
        /\ ext.exists /\ ext.powerOn = store.powerOn
        /\ \A v \in store.volumes : attachment[v] # 0

(* The state the controller drives towards: a live object has its VM in  *)
(* the requested power state, an attachment of its own for every volume   *)
(* of its spec and a status that reports both; without an object there   *)
(* is neither a VM nor an attachment.                                      *)
Converged ==
    /\ cache = store
    /\ store.uid = 0 =>
          ~ext.exists /\ \A v \in Volumes : attachment[v] = 0
    /\ store.uid # 0 =>
          /\ ~store.deleting
          /\ ext.exists /\ ext.powerOn = store.powerOn
          /\ store.status.powerOn = store.powerOn
          /\ store.status.hasIP = ext.hasIP
          /\ store.status.volumes = store.volumes
          /\ \A v \in store.volumes : attachment[v] = store.uid

(* Convergence: once the prerequisites are in place for good, the object, *)
(* the VM and the attachments settle in the converged state, whatever    *)
(* faults, conflicts, stale reads and edits came before.  The IP address *)
(* arrives without a watch event, so this needs requeuDelay.              *)
Convergence == <>[](missing = {}) => <>[]Converged

(* No stray attachment: a live object ends up with no CnsNodeVmAttachment *)
(* for a volume its spec no longer lists ("Removed -> delete", and        *)
(* "convergence resumes on the next pass").                                *)
NoStrayAttachment ==
    store.uid # 0 => \A v \in Volumes \ store.volumes : attachment[v] = 0

(* Detach convergence: once the prerequisites are in place for good, the  *)
(* volumes removed from the spec are eventually detached for good.        *)
DetachConvergence == <>[](missing = {}) => <>[]NoStrayAttachment

=============================================================================
