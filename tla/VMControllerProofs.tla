------------------------- MODULE VMControllerProofs -------------------------
(***************************************************************************)
(* Proofs about VMController for every value of its constants.             *)
(***************************************************************************)
EXTENDS VMControllerLifecycle, TLAPS

USE ConstantsAssumption

(* The records the model builds stay in their types.                     *)
LEMMA EmptyStatusType == EmptyStatus \in Status
BY DEF EmptyStatus, Status
LEMMA NoObjectType == NoObject \in Object
BY EmptyStatusType DEF NoObject, Object
LEMMA PersistType == ASSUME NEW o \in Object PROVE Persist(o) \in Object
BY NoObjectType DEF Persist
LEMMA SetFinalizer == ASSUME NEW o \in Object, NEW b \in BOOLEAN PROVE [o EXCEPT !.finalizer = b] \in Object
BY Zenon DEF Object
LEMMA SetDeleting == ASSUME NEW o \in Object PROVE [o EXCEPT !.deleting = TRUE] \in Object
BY Zenon DEF Object
LEMMA SetStatus == ASSUME NEW o \in Object, NEW s \in Status PROVE [o EXCEPT !.status = s] \in Object
BY Zenon DEF Object
LEMMA SetSpec == ASSUME NEW o \in Object, NEW vs \in SUBSET Volumes, NEW b \in BOOLEAN PROVE [o EXCEPT !.volumes = vs, !.powerOn = b] \in Object
BY Zenon DEF Object
LEMMA NewObject == ASSUME NEW u \in 0..MaxCreates, NEW vs \in SUBSET Volumes, NEW b \in BOOLEAN, NEW f \in BOOLEAN
  PROVE [uid |-> u, deleting |-> FALSE, finalizer |-> f, volumes |-> vs, powerOn |-> b, status |-> EmptyStatus] \in Object
BY EmptyStatusType, Zenon DEF Object
LEMMA SetPower == ASSUME NEW s \in Status, NEW a \in BOOLEAN, NEW b \in BOOLEAN PROVE [s EXCEPT !.powerOn = a, !.hasIP = b] \in Status
BY Zenon DEF Status
LEMMA SetVols == ASSUME NEW s \in Status, NEW vs \in SUBSET Volumes PROVE [s EXCEPT !.volumes = vs] \in Status
BY Zenon DEF Status

LEMMA ObjectFields ==
    ASSUME NEW o \in Object
    PROVE  /\ o.uid \in 0..MaxCreates
           /\ o.deleting \in BOOLEAN /\ o.finalizer \in BOOLEAN
           /\ o.volumes \subseteq Volumes /\ o.powerOn \in BOOLEAN
           /\ o.status \in Status /\ o.status.volumes \subseteq Volumes
BY Zenon DEF Object, Status

LEMMA NoVMType == NoVM \in [exists : BOOLEAN, powerOn : BOOLEAN, hasIP : BOOLEAN]
BY DEF NoVM

LEMMA ZeroAttachments == [v \in Volumes |-> 0] \in [Volumes -> 0..MaxCreates]
OBVIOUS

(* TypeOK in two halves: the records and Booleans, which Zenon handles,  *)
(* and the counters, sets and the program counter, which SMT handles.      *)
TypeRecords ==
    /\ store \in Object /\ cache \in Object /\ vm \in Object
    /\ ext \in [exists : BOOLEAN, powerOn : BOOLEAN, hasIP : BOOLEAN]
    /\ vmStatus \in Status
    /\ volumeOpsErr \in BOOLEAN /\ queued \in BOOLEAN

TypeData ==
    /\ attachment \in [Volumes -> 0..MaxCreates]
    /\ missing \subseteq Prereqs
    /\ pc \in PCs
    /\ volumesToAdd \subseteq Volumes /\ volumesToDelete \subseteq Volumes
    /\ creates \in 0..MaxCreates /\ edits \in 0..MaxEdits
    /\ faults \in 0..MaxFaults

LEMMA TypeSplit == TypeOK <=> TypeRecords /\ TypeData
BY Zenon DEF TypeOK, TypeRecords, TypeData

LEMMA InitTypeOK == Init => TypeOK
<1> SUFFICES ASSUME Init PROVE TypeRecords /\ TypeData
  BY TypeSplit
<1>1. TypeRecords
  BY NoObjectType, NoVMType, EmptyStatusType, Zenon DEF Init, TypeRecords
<1>2. TypeData
  BY ZeroAttachments DEF Init, TypeData, PCs
<1>3. QED
  BY <1>1, <1>2

(* Every step keeps the records and Booleans in their types.              *)
LEMMA NextTypeRecords == TypeOK /\ [Next]_vars => TypeRecords'
<1> SUFFICES ASSUME TypeOK, [Next]_vars PROVE TypeRecords'
  OBVIOUS
<1> USE DEF TypeOK, TypeRecords, Finish
<1>1. CASE Start
  BY <1>1, Zenon DEF Start, Worker, Env, Object
<1>2. CASE DeleteVm
  BY <1>2, NoVMType, Zenon DEF DeleteVm
<1>3. CASE RemoveFinalizer
  BY <1>3, SetFinalizer, PersistType, Zenon DEF RemoveFinalizer
<1>4. CASE CheckExists
  BY <1>4, Zenon DEF CheckExists, Env
<1>5. CASE Create
  BY <1>5, NoVMType, Zenon DEF Create, NoVM
<1>6. CASE Update
  <2>1. vm.powerOn \in BOOLEAN
    BY ObjectFields
  <2>2. CASE "Shared" \notin missing
             /\ ext' = [exists |-> TRUE, powerOn |-> vm.powerOn,
                        hasIP |-> ext.hasIP /\ vm.powerOn]
             /\ vmStatus' = [vmStatus EXCEPT !.powerOn = vm.powerOn,
                                             !.hasIP = ext'.hasIP]
             /\ pc' = "Attach"
             /\ UNCHANGED <<queued, faults>>
    <3>1. ext' \in [exists : BOOLEAN, powerOn : BOOLEAN, hasIP : BOOLEAN]
      BY <2>1, <2>2, Zenon
    <3>2. vmStatus' \in Status
      BY <2>1, <2>2, <3>1, SetPower, Zenon
    <3>3. QED
      BY <1>6, <2>2, <3>1, <3>2, Zenon DEF Update
  <2>3. QED
    BY <1>6, <2>2, Zenon DEF Update
<1>7. CASE Attach
  BY <1>7, Zenon DEF Attach, EnqueueOnAttachmentChange
<1>8. CASE Detach
  BY <1>8, Zenon DEF Detach, EnqueueOnAttachmentChange
<1>9. CASE VolumeStatus
  <2>1. {v \in vm.volumes \cup volumesToDelete : attachment[v] # 0} \subseteq Volumes
    BY ObjectFields DEF TypeData
  <2>2. QED
    BY <1>9, <2>1, SetVols, Zenon DEF VolumeStatus, Env
<1>10. CASE StatusUpdate
  BY <1>10, SetStatus, Zenon DEF StatusUpdate
<1>11. CASE UserCreate
  <2>1. creates + 1 \in 0..MaxCreates
    BY <1>11 DEF UserCreate, TypeData
  <2>2. QED
    BY <1>11, <2>1, NewObject, Zenon DEF UserCreate, Worker
<1>12. CASE UserDelete
  BY <1>12, SetDeleting, PersistType, Zenon DEF UserDelete, Worker
<1>13. CASE UserEdit
  <2>1. PICK vols \in SUBSET Volumes, on \in BOOLEAN :
               store' = [store EXCEPT !.volumes = vols, !.powerOn = on]
    BY <1>13, Zenon DEF UserEdit
  <2>2. QED
    BY <1>13, <2>1, SetSpec, Zenon DEF UserEdit, Worker
<1>14. CASE CacheSync
  BY <1>14, Zenon DEF CacheSync, Worker
<1>15. CASE GarbageCollect
  BY <1>15, Zenon DEF GarbageCollect, Worker
<1>16. CASE AssignIP
  BY <1>16, Zenon DEF AssignIP, Worker
<1>17. CASE ResolvePrereq
  BY <1>17, Zenon DEF ResolvePrereq, Worker
<1>18. CASE UNCHANGED vars
  BY <1>18, Zenon DEF vars
<1>19. QED
  BY <1>1, <1>2, <1>3, <1>4, <1>5, <1>6, <1>7, <1>8, <1>9, <1>10, <1>11,
     <1>12, <1>13, <1>14, <1>15, <1>16, <1>17, <1>18 DEF Next, WorkerStep

(* Every step keeps the counters, sets and program counter in range.       *)
LEMMA NextTypeData == TypeOK /\ [Next]_vars => TypeData'
<1> SUFFICES ASSUME TypeOK, [Next]_vars PROVE TypeData'
  OBVIOUS
<1> USE DEF TypeOK, TypeData, PCs, Finish, Fault
<1>1. CASE Start
  BY <1>1 DEF Start, Worker, Env
<1>2. CASE DeleteVm
  BY <1>2 DEF DeleteVm
<1>3. CASE RemoveFinalizer
  BY <1>3 DEF RemoveFinalizer
<1>4. CASE CheckExists
  BY <1>4, ObjectFields DEF CheckExists, GetVmVolumesToProcess, Env
<1>5. CASE Create
  BY <1>5 DEF Create
<1>6. CASE Update
  BY <1>6 DEF Update
<1>7. CASE Attach
  BY <1>7 DEF Attach, EnqueueOnAttachmentChange, Object
<1>8. CASE Detach
  BY <1>8 DEF Detach, EnqueueOnAttachmentChange
<1>9. CASE VolumeStatus
  BY <1>9 DEF VolumeStatus, Env
<1>10. CASE StatusUpdate
  BY <1>10 DEF StatusUpdate
<1>11. CASE UserCreate
  BY <1>11 DEF UserCreate, Worker
<1>12. CASE UserDelete
  BY <1>12 DEF UserDelete, Worker
<1>13. CASE UserEdit
  BY <1>13 DEF UserEdit, Worker
<1>14. CASE CacheSync
  BY <1>14 DEF CacheSync, Worker
<1>15. CASE GarbageCollect
  BY <1>15 DEF GarbageCollect, Worker
<1>16. CASE AssignIP
  BY <1>16 DEF AssignIP, Worker
<1>17. CASE ResolvePrereq
  BY <1>17 DEF ResolvePrereq, Worker
<1>18. CASE UNCHANGED vars
  BY <1>18 DEF vars
<1>19. QED
  BY <1>1, <1>2, <1>3, <1>4, <1>5, <1>6, <1>7, <1>8, <1>9, <1>10, <1>11,
     <1>12, <1>13, <1>14, <1>15, <1>16, <1>17, <1>18 DEF Next, WorkerStep

LEMMA NextTypeOK == TypeOK /\ [Next]_vars => TypeOK'
BY NextTypeRecords, NextTypeData, Zenon DEF TypeOK, TypeRecords, TypeData

(* Type correctness: every reachable state is well typed.                  *)
THEOREM TypeCorrect == Spec => []TypeOK
BY InitTypeOK, NextTypeOK, PTL DEF Spec

-----------------------------------------------------------------------------
(***************************************************************************)
(* No orphaned VM.  NoOrphanedVM is not inductive: a step of RemoveFinalizer*)
(* or of the user could break it from a state no run reaches.  IInv adds   *)
(* what the controller relies on: a live object always carries the        *)
(* finalizer, the cache never shows a live incarnation that the store no   *)
(* longer has, the worker's copy on the normal path is the store's        *)
(* incarnation, and on the delete path the object is being deleted and,   *)
(* once deleteVm succeeded, the VM is gone.                                *)
(***************************************************************************)
NormalPCs == {"CheckExists", "Create", "Update", "Attach", "Detach",
              "VolumeStatus", "StatusUpdate"}

IInv ==
    /\ TypeOK
    /\ NoOrphanedVM
    /\ store.uid # 0 => store.finalizer
    /\ store.uid <= creates /\ cache.uid <= creates /\ vm.uid <= creates
    /\ cache.uid # 0 /\ ~cache.deleting => store.uid = cache.uid
    /\ cache.uid # 0 /\ cache.uid = store.uid /\ cache.deleting => store.deleting
    /\ pc \in NormalPCs => vm.uid # 0 /\ store.uid = vm.uid
    /\ pc \in {"Delete", "RemoveFinalizer"} =>
          /\ vm.uid # 0 /\ vm.deleting
          /\ store.uid = vm.uid => store.deleting
          /\ cache.uid = vm.uid => cache.deleting
    /\ pc = "RemoveFinalizer" => ~ext.exists
    /\ ext.exists => store.uid # 0 /\ cache.uid = store.uid
    /\ pc \in NormalPCs => cache.uid = vm.uid
    /\ pc = "Delete" /\ ext.exists => store.uid = vm.uid

(* Writes that keep an object's identity and its deletion state.          *)
LEMMA KeepIdentity ==
    ASSUME NEW o \in Object, NEW st, NEW b
    PROVE  /\ [o EXCEPT !.status = st].uid = o.uid
           /\ [o EXCEPT !.status = st].deleting = o.deleting
           /\ [o EXCEPT !.status = st].finalizer = o.finalizer
           /\ [o EXCEPT !.finalizer = b].deleting = o.deleting
BY Zenon DEF Object

LEMMA InitIInv == Init => IInv
<1> SUFFICES ASSUME Init PROVE IInv
  OBVIOUS
<1>1. TypeOK
  BY InitTypeOK
<1>2. QED
  BY <1>1 DEF Init, IInv, NoOrphanedVM, NoObject, NoVM, NormalPCs

(* Every step keeps IInv, provided new objects carry the finalizer.       *)
LEMMA NextIInv == FinalizerOnCreate /\ IInv /\ [Next]_vars => IInv'
<1> SUFFICES ASSUME FinalizerOnCreate, IInv, [Next]_vars PROVE IInv'
  OBVIOUS
<1>0. TypeOK'
  BY NextTypeOK DEF IInv
<1> USE DEF NormalPCs, Finish, Fault
<1>1. CASE Start
  BY <1>0, <1>1 DEF Start, Worker, Env, IInv, NoOrphanedVM
<1>2. CASE DeleteVm
  BY <1>0, <1>2 DEF DeleteVm, NoVM, IInv, NoOrphanedVM
<1>3. CASE RemoveFinalizer
  <2>1. vm.deleting /\ ~ext.exists
    BY <1>3 DEF RemoveFinalizer, IInv
  <2>2. CASE store = vm /\ store' = Persist([vm EXCEPT !.finalizer = FALSE])
    <3>1. store' = NoObject
      BY <2>1, <2>2, KeepIdentity DEF Persist, IInv, TypeOK
    <3>2. ~(cache.uid # 0 /\ ~cache.deleting)
      BY <1>3, <2>2 DEF RemoveFinalizer, IInv
    <3>3. /\ pc' = "Idle" /\ UNCHANGED <<cache, ext, vm, creates>>
      BY <1>3 DEF RemoveFinalizer
    <3>4. creates \in Nat
      BY DEF IInv, TypeOK
    <3>5. QED
      BY <1>0, <2>1, <3>1, <3>2, <3>3, <3>4 DEF IInv, NoOrphanedVM, NoObject
  <2>3. CASE store' = store
    BY <1>0, <1>3, <2>3 DEF RemoveFinalizer, IInv, NoOrphanedVM
  <2>4. QED
    BY <1>3, <2>2, <2>3 DEF RemoveFinalizer
<1>4. CASE CheckExists
  BY <1>0, <1>4 DEF CheckExists, Env, IInv, NoOrphanedVM
<1>5. CASE Create
  BY <1>0, <1>5 DEF Create, IInv, NoOrphanedVM
<1>6. CASE Update
  BY <1>0, <1>6 DEF Update, IInv, NoOrphanedVM
<1>7. CASE Attach
  BY <1>0, <1>7 DEF Attach, IInv, NoOrphanedVM
<1>8. CASE Detach
  BY <1>0, <1>8 DEF Detach, IInv, NoOrphanedVM
<1>9. CASE VolumeStatus
  BY <1>0, <1>9 DEF VolumeStatus, Env, IInv, NoOrphanedVM
<1>10. CASE StatusUpdate
  <2>1. CASE store = vm /\ store' = [vm EXCEPT !.status = vmStatus]
    <3>1. /\ store'.uid = store.uid /\ store'.deleting = store.deleting
          /\ store'.finalizer = store.finalizer
      BY <2>1, KeepIdentity DEF IInv, TypeOK
    <3>2. QED
      BY <1>0, <1>10, <2>1, <3>1 DEF StatusUpdate, IInv, NoOrphanedVM
  <2>2. CASE store' = store
    BY <1>0, <1>10, <2>2 DEF StatusUpdate, IInv, NoOrphanedVM
  <2>3. QED
    BY <1>10, <2>1, <2>2 DEF StatusUpdate
<1>11. CASE UserCreate
  <2>1. /\ store'.uid = creates + 1 /\ store'.finalizer /\ ~store'.deleting
        /\ creates' = creates + 1
    BY <1>11 DEF UserCreate
  <2>2. /\ creates \in Nat /\ cache.uid \in Nat /\ vm.uid \in Nat
        /\ cache.uid <= creates /\ vm.uid <= creates
    BY ObjectFields DEF IInv, TypeOK
  <2>3. store.uid = 0 /\ pc \notin NormalPCs
    BY <1>11 DEF UserCreate, IInv
  <2>4. ~(cache.uid # 0 /\ ~cache.deleting)
    BY <2>3 DEF IInv
  <2>5. UNCHANGED <<cache, ext, vm, pc, attachment>>
    BY <1>11 DEF UserCreate, Worker
  <2>6. /\ store'.uid # 0 /\ store'.uid # cache.uid /\ store'.uid # vm.uid
        /\ store'.uid <= creates' /\ cache.uid <= creates' /\ vm.uid <= creates'
    BY <2>1, <2>2
  <2>7. pc \in {"Delete", "RemoveFinalizer"} =>
          /\ vm.uid # 0 /\ vm.deleting
          /\ (cache.uid = vm.uid => cache.deleting)
          /\ (pc = "RemoveFinalizer" => ~ext.exists)
    BY DEF IInv
  <2>8. QED
    BY <1>0, <2>1, <2>3, <2>4, <2>5, <2>6, <2>7, Zenon DEF IInv, NoOrphanedVM
<1>12. CASE UserDelete
  BY <1>0, <1>12 DEF UserDelete, Worker, Persist, IInv, NoOrphanedVM
<1>13. CASE UserEdit
  BY <1>0, <1>13 DEF UserEdit, Worker, IInv, NoOrphanedVM
<1>14. CASE CacheSync
  BY <1>0, <1>14 DEF CacheSync, Worker, IInv, NoOrphanedVM
<1>15. CASE GarbageCollect
  BY <1>0, <1>15 DEF GarbageCollect, Worker, IInv, NoOrphanedVM
<1>16. CASE AssignIP
  BY <1>0, <1>16 DEF AssignIP, Worker, IInv, NoOrphanedVM
<1>17. CASE ResolvePrereq
  BY <1>0, <1>17 DEF ResolvePrereq, Worker, IInv, NoOrphanedVM
<1>18. CASE UNCHANGED vars
  BY <1>0, <1>18 DEF vars, IInv, NoOrphanedVM
<1>19. QED
  BY <1>1, <1>2, <1>3, <1>4, <1>5, <1>6, <1>7, <1>8, <1>9, <1>10, <1>11,
     <1>12, <1>13, <1>14, <1>15, <1>16, <1>17, <1>18 DEF Next, WorkerStep

(* No orphaned VM, for every set of volumes and every bound, when the     *)
(* admission step gives every new VirtualMachine the finalizer: the VM on *)
(* the provider never outlives the object (reconcileDelete, deleteVm).    *)
THEOREM NoOrphanedVMHolds == FinalizerOnCreate => (Spec => []NoOrphanedVM)
<1> SUFFICES ASSUME FinalizerOnCreate PROVE Spec => []NoOrphanedVM
  OBVIOUS
<1>1. IInv => NoOrphanedVM
  BY DEF IInv
<1>2. QED
  BY InitIInv, NextIInv, <1>1, PTL DEF Spec

-----------------------------------------------------------------------------
(***************************************************************************)
(* Nothing left undone.  NothingLeftUndone speaks only of a resting       *)
(* worker; DInv says what each pass owes and why the queue holds the name *)
(* until it is paid.  Objects in the cache carry the finalizer, so a      *)
(* cached deletion always goes through reconcileDelete; while the name is *)
(* not queued again the worker's copy is still the cached object; on the  *)
(* normal path the copy is not deleting, updateVm has put the VM in the   *)
(* copy's power state, and an error-free VolumeStatus found every volume  *)
(* attached; a resting worker that is not queued has settled the cached  *)
(* object, unless that incarnation is gone from the store.                *)
(***************************************************************************)
Settled(o) ==
    /\ ~o.deleting
    /\ ext.exists /\ ext.powerOn = o.powerOn
    /\ \A v \in o.volumes : attachment[v] # 0

DInv ==
    /\ cache.uid # 0 => cache.finalizer
    /\ pc # "Idle" /\ ~queued => cache = vm
    /\ pc \in NormalPCs => ~vm.deleting
    /\ pc \in {"Attach", "Detach", "VolumeStatus", "StatusUpdate"} =>
          ext.exists /\ ext.powerOn = vm.powerOn
    /\ pc = "StatusUpdate" /\ ~volumeOpsErr /\ ~queued =>
          \A v \in vm.volumes : attachment[v] # 0
    /\ pc = "Idle" /\ ~queued /\ cache.uid # 0 /\ store.uid = cache.uid =>
          Settled(cache)

-----------------------------------------------------------------------------
(***************************************************************************)
(* Refinement of VMLifecycle.  Every step of the controller and of its    *)
(* environment is a step of the abstract lifecycle or leaves the object's *)
(* phase and the VM's existence alone.                                     *)
(***************************************************************************)
AbsVars == <<ObjectPhase, ext.exists>>

LEMMA InitRefined == Init => Lifecycle!Init
BY DEF Init, Lifecycle!Init, ObjectPhase, NoObject, NoVM

(* A step that changes neither the stored object's incarnation and        *)
(* deletion state nor the VM's existence is an abstract stutter.           *)
LEMMA Stutter ==
    ASSUME store'.uid = store.uid, store'.deleting = store.deleting,
           ext'.exists = ext.exists
    PROVE  UNCHANGED AbsVars
BY DEF AbsVars, ObjectPhase

LEMMA NextRefined ==
    FinalizerOnCreate /\ IInv /\ [Next]_vars => [Lifecycle!Next]_AbsVars
<1> SUFFICES ASSUME FinalizerOnCreate, IInv, [Next]_vars
             PROVE  [Lifecycle!Next]_AbsVars
  OBVIOUS
<1> USE DEF Finish, Fault
<1>1. CASE Start
  BY <1>1, Stutter DEF Start, Env
<1>2. CASE DeleteVm
  <2>1. CASE ext' = NoVM /\ ext.exists
    <3>1. store.uid # 0 /\ store.deleting
      BY <1>2, <2>1 DEF DeleteVm, IInv
    <3>2. Lifecycle!DestroyVM
      BY <1>2, <2>1, <3>1 DEF DeleteVm, NoVM, Lifecycle!DestroyVM, ObjectPhase
    <3>3. QED
      BY <3>2 DEF Lifecycle!Next
  <2>2. CASE ext' = NoVM /\ ~ext.exists
    <3>1. ext'.exists = ext.exists
      BY <2>2, Zenon DEF NoVM, IInv, TypeOK
    <3>2. QED
      BY <1>2, <3>1, Stutter DEF DeleteVm
  <2>3. CASE ext' = ext
    BY <1>2, <2>3, Stutter DEF DeleteVm
  <2>4. QED
    BY <1>2, <2>1, <2>2, <2>3 DEF DeleteVm
<1>3. CASE RemoveFinalizer
  <2>1. vm.deleting /\ vm.uid # 0 /\ ~ext.exists
    BY <1>3 DEF RemoveFinalizer, IInv
  <2>2. CASE store = vm /\ store' = Persist([vm EXCEPT !.finalizer = FALSE])
    <3>1. store' = NoObject
      BY <2>1, <2>2, KeepIdentity DEF Persist, IInv, TypeOK
    <3>2. Lifecycle!ReleaseObject
      BY <1>3, <2>1, <2>2, <3>1
         DEF RemoveFinalizer, Lifecycle!ReleaseObject, ObjectPhase, NoObject
    <3>3. QED
      BY <3>2 DEF Lifecycle!Next
  <2>3. CASE store' = store
    BY <1>3, <2>3, Stutter DEF RemoveFinalizer
  <2>4. QED
    BY <1>3, <2>2, <2>3 DEF RemoveFinalizer
<1>4. CASE CheckExists
  BY <1>4, Stutter DEF CheckExists, Env
<1>5. CASE Create
  <2>1. store.uid # 0
    BY <1>5 DEF Create, IInv, NormalPCs
  <2>2. ext' = ext \/ ext'.exists = TRUE
    BY <1>5 DEF Create, NoVM
  <2>3. ext.exists \in BOOLEAN
    BY Zenon DEF IInv, TypeOK
  <2>4. CASE ext'.exists = TRUE /\ ~ext.exists
    <3>1. Lifecycle!ProvisionVM
      BY <1>5, <2>1, <2>4 DEF Create, Lifecycle!ProvisionVM, ObjectPhase
    <3>2. QED
      BY <3>1 DEF Lifecycle!Next
  <2>5. CASE ext'.exists = TRUE /\ ext.exists
    <3>1. ext'.exists = ext.exists
      BY <2>5, Zenon
    <3>2. QED
      BY <1>5, <3>1, Stutter DEF Create
  <2>6. CASE ext' = ext
    BY <1>5, <2>6, Stutter DEF Create
  <2>7. QED
    BY <2>2, <2>3, <2>4, <2>5, <2>6, Zenon
<1>6. CASE Update
  <2>1. store.uid # 0
    BY <1>6 DEF Update, IInv, NormalPCs
  <2>2. ext' = ext \/ ext'.exists = TRUE
    BY <1>6 DEF Update, NoVM
  <2>3. ext.exists \in BOOLEAN
    BY Zenon DEF IInv, TypeOK
  <2>4. CASE ext'.exists = TRUE /\ ~ext.exists
    <3>1. Lifecycle!ProvisionVM
      BY <1>6, <2>1, <2>4 DEF Update, Lifecycle!ProvisionVM, ObjectPhase
    <3>2. QED
      BY <3>1 DEF Lifecycle!Next
  <2>5. CASE ext'.exists = TRUE /\ ext.exists
    <3>1. ext'.exists = ext.exists
      BY <2>5, Zenon
    <3>2. QED
      BY <1>6, <3>1, Stutter DEF Update
  <2>6. CASE ext' = ext
    BY <1>6, <2>6, Stutter DEF Update
  <2>7. QED
    BY <2>2, <2>3, <2>4, <2>5, <2>6, Zenon
<1>7. CASE Attach
  BY <1>7, Stutter DEF Attach
<1>8. CASE Detach
  BY <1>8, Stutter DEF Detach
<1>9. CASE VolumeStatus
  BY <1>9, Stutter DEF VolumeStatus, Env
<1>10. CASE StatusUpdate
  <2>1. CASE store = vm /\ store' = [vm EXCEPT !.status = vmStatus]
    BY <1>10, <2>1, KeepIdentity, Stutter DEF StatusUpdate, IInv, TypeOK
  <2>2. CASE store' = store
    BY <1>10, <2>2, Stutter DEF StatusUpdate
  <2>3. QED
    BY <1>10, <2>1, <2>2 DEF StatusUpdate
<1>11. CASE UserCreate
  <2>1. Lifecycle!CreateObject
    BY <1>11 DEF UserCreate, Lifecycle!CreateObject, ObjectPhase, IInv, TypeOK
  <2>2. QED
    BY <2>1 DEF Lifecycle!Next
<1>12. CASE UserDelete
  <2>1. store.finalizer
    BY <1>12 DEF UserDelete, IInv
  <2>2. store' = [store EXCEPT !.deleting = TRUE]
    BY <1>12, <2>1 DEF UserDelete, Persist
  <2>3. store'.uid = store.uid /\ store'.deleting
    BY <2>2, SetDeleting, Zenon DEF IInv, TypeOK, Object
  <2>4. Lifecycle!RequestDelete
    BY <1>12, <2>3 DEF UserDelete, Lifecycle!RequestDelete, ObjectPhase
  <2>5. QED
    BY <2>4 DEF Lifecycle!Next
<1>13. CASE UserEdit
  <2>1. PICK vols \in SUBSET Volumes, on \in BOOLEAN :
               store' = [store EXCEPT !.volumes = vols, !.powerOn = on]
    BY <1>13, Zenon DEF UserEdit
  <2>2. store'.uid = store.uid /\ store'.deleting = store.deleting
    BY <2>1, Zenon DEF IInv, TypeOK, Object
  <2>3. QED
    BY <1>13, <2>2, Stutter DEF UserEdit
<1>14. CASE CacheSync
  BY <1>14, Stutter DEF CacheSync
<1>15. CASE GarbageCollect
  BY <1>15, Stutter DEF GarbageCollect
<1>16. CASE AssignIP
  <2>1. ext'.exists = ext.exists
    BY <1>16, Zenon DEF AssignIP, IInv, TypeOK
  <2>2. QED
    BY <1>16, <2>1, Stutter DEF AssignIP
<1>17. CASE ResolvePrereq
  BY <1>17, Stutter DEF ResolvePrereq
<1>18. CASE UNCHANGED vars
  BY <1>18, Stutter DEF vars
<1>19. QED
  BY <1>1, <1>2, <1>3, <1>4, <1>5, <1>6, <1>7, <1>8, <1>9, <1>10, <1>11,
     <1>12, <1>13, <1>14, <1>15, <1>16, <1>17, <1>18 DEF Next, WorkerStep

(* The controller implements the safety part of the lifecycle, for every  *)
(* set of volumes and every bound, when admission adds the finalizer: a   *)
(* VM is created only while its object exists (createVm, updateVm),       *)
(* deleted only after deletion was requested (deleteVm), and the object   *)
(* released only once the VM is gone (reconcileDelete).  The completion   *)
(* of deletions, the fairness part, is checked by TLC.                     *)
THEOREM LifecycleSafety == FinalizerOnCreate => (Spec => LifecycleSafe)
<1> SUFFICES ASSUME FinalizerOnCreate
             PROVE  Spec => Lifecycle!Init /\ [][Lifecycle!Next]_AbsVars
  BY DEF LifecycleSafe, AbsVars
<1>1. Spec => []IInv
  BY InitIInv, NextIInv, PTL DEF Spec
<1>2. QED
  BY <1>1, InitRefined, NextRefined, PTL DEF Spec

-----------------------------------------------------------------------------
LEMMA InitDInv == Init => DInv
BY DEF Init, DInv, NoObject, NormalPCs

(* Every step keeps DInv, given IInv and the finalizer on admission.      *)
LEMMA NextDInv == FinalizerOnCreate /\ IInv /\ DInv /\ [Next]_vars => DInv'
<1> SUFFICES ASSUME FinalizerOnCreate, IInv, DInv, [Next]_vars PROVE DInv'
  OBVIOUS
<1>0. TypeOK /\ TypeOK'
  BY NextTypeOK DEF IInv
<1> USE DEF NormalPCs, Finish, Fault
<1>1. CASE Start
  BY <1>0, <1>1 DEF Start, Worker, Env, IInv, DInv, Settled
<1>2. CASE DeleteVm
  BY Zenon, <1>0, <1>2 DEF DeleteVm, DInv, Settled
<1>3. CASE RemoveFinalizer
  <2>1. /\ UNCHANGED <<cache, vm, ext, attachment>> /\ pc' = "Idle"
        /\ vm.deleting /\ vm.uid # 0
    BY <1>3 DEF RemoveFinalizer, IInv
  <2>2. CASE store = vm /\ store' = Persist([vm EXCEPT !.finalizer = FALSE])
    <3>1. store'.uid = 0
      BY <2>1, <2>2, KeepIdentity DEF Persist, NoObject, IInv, TypeOK
    <3>2. QED
      BY <2>1, <3>1 DEF DInv
  <2>3. CASE queued' = TRUE
    BY <2>1, <2>3 DEF DInv
  <2>4. QED
    BY <1>3, <2>2, <2>3, Zenon DEF RemoveFinalizer
<1>4. CASE CheckExists
  BY Zenon, <1>0, <1>4 DEF CheckExists, Env, DInv, Settled
<1>5. CASE Create
  BY Zenon, <1>0, <1>5 DEF Create, DInv, Settled
<1>6. CASE Update
  <2>1. UNCHANGED <<cache, vm, attachment, volumeOpsErr>>
    BY <1>6 DEF Update
  <2>2. CASE pc' = "Idle" /\ queued' = TRUE
    BY <2>1, <2>2 DEF DInv
  <2>3. CASE /\ ext' = [exists |-> TRUE, powerOn |-> vm.powerOn,
                        hasIP |-> ext.hasIP /\ vm.powerOn]
             /\ pc' = "Attach" /\ queued' = queued
    <3>1. ext'.exists /\ ext'.powerOn = vm.powerOn
      BY <2>3
    <3>2. pc = "Update"
      BY <1>6 DEF Update
    <3>3. QED
      BY <2>1, <2>3, <3>1, <3>2, Zenon DEF DInv
  <2>4. QED
    BY <1>6, <2>2, <2>3, Zenon DEF Update
<1>7. CASE Attach
  BY Zenon, <1>0, <1>7 DEF Attach, EnqueueOnAttachmentChange, DInv, Settled
<1>8. CASE Detach
  BY Zenon, <1>0, <1>8 DEF Detach, EnqueueOnAttachmentChange, DInv, Settled
<1>9. CASE VolumeStatus
  BY Zenon, <1>0, <1>9 DEF VolumeStatus, Env, DInv, Settled
<1>10. CASE StatusUpdate
  BY Zenon, <1>0, <1>10 DEF StatusUpdate, DInv, Settled, requeuDelay
<1>11. CASE UserCreate
  <2>1. /\ store'.uid = creates + 1 /\ creates \in Nat
        /\ cache.uid \in Nat /\ cache.uid <= creates
    BY <1>11, ObjectFields DEF UserCreate, IInv, TypeOK
  <2>2. store'.uid # cache.uid
    BY <2>1
  <2>3. UNCHANGED <<cache, ext, attachment, pc, queued, vm, volumeOpsErr>>
    BY <1>11 DEF UserCreate, Worker
  <2>4. QED
    BY <2>2, <2>3, Zenon DEF DInv, Settled
<1>12. CASE UserDelete
  <2>1. store'.uid = store.uid \/ store'.uid = 0
    BY <1>0, <1>12 DEF UserDelete, Persist, NoObject, TypeOK, Object
  <2>2. UNCHANGED <<cache, ext, attachment, pc, queued, vm, volumeOpsErr>>
    BY <1>12 DEF UserDelete, Worker
  <2>3. QED
    BY <2>1, <2>2, Zenon DEF DInv, Settled
<1>13. CASE UserEdit
  BY <1>0, <1>13 DEF UserEdit, Worker, DInv, Settled
<1>14. CASE CacheSync
  BY Zenon, <1>0, <1>14 DEF CacheSync, Worker, IInv, DInv, Settled
<1>15. CASE GarbageCollect
  BY Zenon, <1>0, <1>15 DEF GarbageCollect, Worker, DInv, Settled
<1>16. CASE AssignIP
  <2>1. ext'.exists = ext.exists /\ ext'.powerOn = ext.powerOn
    BY <1>0, <1>16, Zenon DEF AssignIP, TypeOK
  <2>2. UNCHANGED <<store, cache, attachment, pc, queued, vm, volumeOpsErr>>
    BY <1>16 DEF AssignIP, Worker
  <2>3. QED
    BY <2>1, <2>2, Zenon DEF DInv, Settled
<1>17. CASE ResolvePrereq
  BY <1>0, <1>17 DEF ResolvePrereq, Worker, DInv, Settled
<1>18. CASE UNCHANGED vars
  BY <1>0, <1>18 DEF vars, DInv, Settled
<1>19. QED
  BY <1>1, <1>2, <1>3, <1>4, <1>5, <1>6, <1>7, <1>8, <1>9, <1>10, <1>11,
     <1>12, <1>13, <1>14, <1>15, <1>16, <1>17, <1>18 DEF Next, WorkerStep

(* Nothing left undone, for every set of volumes and every bound, when    *)
(* admission adds the finalizer: a worker that rests with the name out of *)
(* the queue and an up-to-date cache has finished the object's deletion   *)
(* or created the VM in its power state with every volume attached        *)
(* (Reconcile returns an error on every failed call, and every watch      *)
(* event enqueues the name).                                              *)
THEOREM NothingLeftUndoneHolds ==
    FinalizerOnCreate => (Spec => []NothingLeftUndone)
<1> SUFFICES ASSUME FinalizerOnCreate PROVE Spec => []NothingLeftUndone
  OBVIOUS
<1>1. IInv /\ DInv => NothingLeftUndone
  BY DEF DInv, Settled, NothingLeftUndone
<1>2. QED
  BY InitIInv, NextIInv, InitDInv, NextDInv, <1>1, PTL DEF Spec

=============================================================================
