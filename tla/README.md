# A TLA+ model of the vm-operator VirtualMachine controller

This directory holds TLA+ modules, TLC configurations and TLAPS proofs for
`src/pkg/controller/virtualmachine/virtualmachine_controller.go`, the
lifecycle orchestrator of the repository. `PROJECT.json` lists the
components, the runs, the mutants, the map from definitions to source
lines, the findings, the hazards and the theorems.

## 1. The system and how its parts interact

Under `src/`, the only code with behaviour is the VirtualMachine
controller. The rest is a fake prober manager, the registration of
webhooks and a vcsim test harness. The controller sits between four
collaborators.

* **The API server, its informer cache and the work queue**
  (controller-runtime).
  * `add` (lines 74-97) watches VirtualMachines and CnsNodeVmAttachments.
    A change to an attachment enqueues its owning VirtualMachine by name.
  * controller-runtime runs at most one `Reconcile` per name at a time.
  * A name enqueued while its Reconcile runs is marked dirty and runs again.
  * An error requeues the name with rate limiting, and so does a non-zero
    `RequeueAfter`.
  * `Get` reads the informer cache, which lags the store.
  * Writes are optimistic: `Update` and `Status().Update` fail when the
    object changed since it was read.
  * An object whose deletion was requested is removed once its finalizer
    list is empty.
  * The garbage collector deletes attachments whose owner is gone.
* **The VM provider** (vSphere): exists, create, update (which applies
  the power state and reports the IP address) and delete.
* **The volume provider** (CNS): `AttachVolumes`, `DetachVolumes` and
  `UpdateVmVolumesStatus`, plus `GetVmVolumesToProcess`, which diffs the
  spec's volumes against the status's.
* **The cluster's prerequisites**: the VirtualMachineClass, the metadata
  ConfigMap, the resource policy, and the storage class in a
  ResourceQuota.

One `Reconcile` pass (lines 122-153) does the following:

1. Get the object from the cache.
2. If it is being deleted and holds the finalizer, delete the VM and then
   remove the finalizer.
3. Otherwise:
   1. check whether the VM exists;
   2. compute the volume diff;
   3. create the VM if absent, then update it;
   4. attach, detach and refresh the volume status;
   5. write the status;
   6. return the volume errors, or a 10 s requeue while a powered-on VM
      has no IP address.

## 2. Modules

| module | what it is |
|---|---|
| `VMController` | The controller and its environment, for one object name. |
| `VMLifecycle` | The abstract specification: what the controller promises about the object and its VM, with no controller state. |
| `VMControllerLifecycle` | The refinement mapping from `VMController` to `VMLifecycle`, and the property `LifecycleRefined`. |
| `MCVMController` | Model values for two volumes and the symmetry set, for TLC. |
| `VMControllerProofs` | TLAPS proofs of type correctness, of NoOrphanedVM and of the safety part of the refinement. |

### State (`VMController`)

| variable | what it stands for |
|---|---|
| `store` | The VirtualMachine in the API server: uid (0 = no object; a re-creation gets a new uid), deletion timestamp, finalizer, spec volumes, spec power state, status (power, IP, volumes). |
| `cache` | The informer's copy, read by `Get`. |
| `ext` | The VM on the provider: exists, powered on, has an IP. |
| `attachment` | Per volume, the uid of the VirtualMachine that owns its CnsNodeVmAttachment, or 0. |
| `missing` | Prerequisites not yet in the cluster. `"Shared"` is read by createVm and updateVm; `"CreateOnly"` only by createVm. |
| `pc`, `vm`, `vmStatus`, `volumesToAdd`, `volumesToDelete`, `volumeOpsErr` | The local state of the Reconcile in progress. `vm` is the object read, `vmStatus` the status it builds. |
| `queued` | The name is in the work queue or marked dirty. |
| `creates`, `edits`, `faults` | Counters bounded by `MaxCreates`, `MaxEdits` and `MaxFaults`. |

### Actions

Each call that Reconcile makes to the API server or a provider is one
step. The user, the informer, the garbage collector and the guest act
between steps.

| action | code |
|---|---|
| `Start` | `Reconcile`, lines 122-145: Get from the cache, not found, read error, dispatch on the deletion timestamp and the finalizer. |
| `DeleteVm` | `deleteVm`, and the error return at 204-205. |
| `RemoveFinalizer` | `reconcileDelete`, lines 208-211. The Update conflicts when the store changed since the read. |
| `CheckExists` | `reconcileNormal`, lines 254-270, with `GetVmVolumesToProcess` at 263. |
| `Create` | `createVm`: prerequisites, then the provider create. A failed create may leave a VM. |
| `Update` | `updateVm`: the shared prerequisites, then the provider update. |
| `Attach`, `Detach`, `VolumeStatus` | `reconcileVolumes`, lines 218-245. Any subset of attaches or detaches fails; the refresh keeps volumes whose detach failed. |
| `StatusUpdate` | Lines 277-288 and the requeue decision of `Reconcile`, lines 147-152 (`Finish`, `requeuDelay`). |
| `CacheSync`, `EnqueueOnAttachmentChange` | The two watches of `add`. |
| `UserCreate`, `UserDelete`, `UserEdit`, `GarbageCollect`, `AssignIP`, `ResolvePrereq` | The environment. |

### Abstractions and modelling choices

* **Transient failures.** A transient error of any call is the `Fault`
  disjunct. It is bounded by `MaxFaults`.
* **Optimistic-concurrency conflicts** are detected by comparing the
  stored object with the one read. Two distinct versions with equal
  content would not conflict in the model; this ABA case is not
  distinguished.
* **Data left out.** Names, op ids, events and annotations are not
  modelled, because no property is about them.

## 3. Runs

All runs use two volumes (`v1`, `v2`), two incarnations of the name
(`MaxCreates = 2`, so a re-created object meets the previous one's
attachments), and one spec edit. These bounds are enough for:

* a volume to be added or removed;
* an edit to race a pass;
* a name to be reused.

Faults are bounded by `MaxFaults`: 2 for safety, 1 for liveness.
`CHECK_DEADLOCK FALSE` is set because a run really stops: once the user's
bounded actions are spent and the state has converged, the controller
waits for events, as the real one does.

| run | cfg | checks | result |
|---|---|---|---|
| `vm_safety` | `MCVMController.cfg` | invariants `NoOrphanedVM`, `NothingLeftUndone`; action property `LifecycleSafe` | passes, 1.68M distinct states (symmetry on volumes) |
| `vm_no_finalizer` | `MCVMControllerNoFinalizer.cfg` | `NoOrphanedVM` with objects admitted without the finalizer | violated |
| `vm_convergence` | `MCVMControllerLive.cfg` | `Convergence` | passes, 1.8M distinct states |
| `vm_lifecycle` | `MCVMControllerLifecycle.cfg` | `LifecycleRefined` | passes, 1.8M distinct states |
| `vm_stray_attachment` | `MCVMControllerStrayAttachment.cfg` | `DetachConvergence` | violated |

### Properties

* **`NoOrphanedVM`:** once no object of the name exists, no VM exists.
* **`NothingLeftUndone`:** suppose the worker is idle, the name is not
  queued, the cache equals the store and an object exists. Then:
  * no deletion is pending;
  * the VM exists in the requested power state;
  * every spec volume has an attachment.

  This is the safety counterpart of convergence, and it catches a lost
  wakeup. A swallowed error, or an event that does not enqueue, leaves
  work behind that no later pass is scheduled to do. The mutant that
  swallows `reconcileDelete`'s Update error breaks it.
* **`LifecycleSafe`:** `Lifecycle!Init /\ [][Lifecycle!Next]_<<ObjectPhase, ext.exists>>`.
  This is the safety part of `LifecycleRefined`, as an action property.
  No step leaves the abstract lifecycle. For example, the finalizer is
  never released while the VM still exists.
* **`Convergence`:** `<>[](missing = {}) => <>[]Converged`. `Converged`
  has two cases:
  * a live object:
    * its VM is in the requested power state;
    * every spec volume has an attachment owned by this incarnation;
    * the written status reports power, IP and volumes;
  * no object: no VM and no attachment.
* **`DetachConvergence`:** volumes dropped from the spec are eventually
  detached for good.
* **`LifecycleRefined`:** the controller implements `VMLifecycle!Spec`,
  fairness included. See "The abstract lifecycle" below.

### The abstract lifecycle

`VMLifecycle` has two variables:

* `object`: `"None"`, `"Live"` or `"Deleting"`;
* `vmExists`: whether the VM exists on the provider.

The phases of spec.md section 4.4 are pairs of these: Absent or Deleted
is (None, no VM), Creating is (Live, no VM), Converging is (Live, VM), and
Deleting is Deleting. Its steps are:

* the user creates an object and requests its deletion;
* a VM is provisioned only while an object exists, possibly one already
  deleting, since the create was decided on an earlier read;
* the VM is destroyed only after the object's deletion was requested;
* the object is released only once the VM is gone.

Weak fairness on the last two says that a requested deletion completes.

The mapping, `VMControllerLifecycle`, reads the phase off `store` (uid 0
is None, then the deletion flag) and `vmExists` off `ext.exists`.
Everything else is hidden.

The refinement catches a hazard a test hardly reaches. A re-created
object may meet a stale cached copy of the previous incarnation that is
still deleting. `deleteVm` addresses the VM by name, so the controller
must never delete the VM of the live new object. Deletion also completes
with no hypothesis on the prerequisites, because the delete path reads
none of them.

### Fairness

Fairness is weak fairness on:

* the worker (controller-runtime keeps its workers running);
* the informer;
* the garbage collector;
* the guest obtaining an IP address.

The user and the administrator get no fairness. Convergence is therefore
stated under the hypothesis that the prerequisites stay resolved, and the
bounded user actions stop by themselves.

Each passing property has a mutant that breaks it:

* treating a failed provider delete like NotFound breaks `NoOrphanedVM`
  and `LifecycleSafe` (the finalizer is released while the VM exists);
* dropping the IP requeue of `requeuDelay` breaks `Convergence`;
* swallowing the error of the finalizer Update in `reconcileDelete` breaks
  `LifecycleRefined` and `NothingLeftUndone`: nothing requeues the name,
  and the deletion never completes.

## 4. Findings

1. **Stray attachment** (`vm_stray_attachment`). The trace:
   1. Reconcile reads the object.
   2. The user removes a volume.
   3. The pass attaches the volume it read.
   4. Its status write conflicts.
   5. The next pass diffs spec against status (line 263). The status never
      listed the attached volume, so it is never detached while the VM
      lives.

   The code computes the detach set from status, not from the
   attachments that exist.
2. **No finalizer from the controller** (`vm_no_finalizer`). Deletion of
   the VM is gated on the finalizer (line 203), and Reconcile never adds
   it. Without an admission step that adds it, delete leaks the VM. The
   safety run and the theorem assume `FinalizerOnCreate = TRUE`.

## 5. Proofs (`VMControllerProofs`, checked by tlapm)

**`TypeCorrect`: `Spec => []TypeOK`**, for all constants satisfying
`ConstantsAssumption` (the bounds are naturals and `FinalizerOnCreate` is
Boolean). `TypeOK` is split into:

* `TypeRecords`: records and Booleans, proved with Zenon from small
  record-update lemmas;
* `TypeData`: counters, sets and the program counter, proved with SMT.

Each has one case per action.

**`NoOrphanedVMHolds`: `FinalizerOnCreate => (Spec => []NoOrphanedVM)`.**
`NoOrphanedVM` is not inductive, so the proof uses the strengthening
`IInv`. TLC checked `IInv` as an invariant of the `vm_safety` instance
before the proof was written. `IInv` says:

* a live stored object carries the finalizer;
* uids are at most `creates`, so a re-created object is never confused
  with the cache's or the worker's copy of an old one;
* a live, not-deleting cached object is the store's incarnation;
* a deleting cached object of the store's incarnation means the store's
  object is deleting (the cache never goes back);
* on the normal path (from CheckExists to StatusUpdate) the worker's copy
  is the store's incarnation, so `Create`/`Update` only ever create a VM
  while the object exists;
* on the delete path the copy is deleting, and so are the store's and
  the cache's copies of that incarnation;
* once `deleteVm` succeeded, no VM exists until the finalizer is removed.

The argument is that:

* only `RemoveFinalizer` (with a deleting copy, after the VM was deleted)
  or a delete without a finalizer can remove the object;
* only `Create`/`Update` (on the normal path, with the object present) can
  make a VM exist.

**`LifecycleSafety`: `FinalizerOnCreate => (Spec => LifecycleSafe)`.**
This is the safety part of `LifecycleRefined`, the action property that
`vm_safety` checks. The proof follows the
standard two steps:

* initial states map to the abstract initial state;
* under `IInv`, every step maps to an abstract step or a stutter.

For `DeleteVm` to be a `DestroyVM` step, `IInv` carries three more facts:

* while a VM exists, the object exists and the cache shows its
  incarnation;
* on the normal path the cache shows the worker's incarnation;
* a worker about to delete an existing VM holds the store's incarnation.

TLC checked these on the `vm_safety` instance before the proof.

**`NothingLeftUndoneHolds`: `FinalizerOnCreate => (Spec => []NothingLeftUndone)`.**
The invariant mentions only a resting worker, so it is not inductive. The
proof uses `IInv /\ DInv`, where `DInv` records what each pass still owes
and why the queue holds the name until that is paid:

* every cached object of the name carries the finalizer, so a cached
  deletion always goes through `reconcileDelete` and never ends a pass
  silently;
* while a pass runs and the name has not been queued again, the cache
  still equals the worker's copy. Every change to the cache comes from
  `CacheSync`, which enqueues;
* on the normal path the copy is not deleting;
* from `Attach` on, the VM exists in the copy's power state (`updateVm`);
* at `StatusUpdate`, with no volume error and no new event, every volume
  of the copy has an attachment. A later change of an attachment
  enqueues, through the owner watch or the garbage collector;
* an idle worker whose name is not queued has settled the cached object,
  unless that incarnation is gone from the store.

TLC checked `IInv /\ DInv` as an invariant of the `vm_safety` instance
before the proof was written. The proof has one case per action. Only
`RemoveFinalizer`, `Update` and the user's and guest's steps need
sub-steps. The others are closed by Zenon from the definitions.

**Left to TLC:**

* liveness (`Convergence`, and the fairness part of `LifecycleRefined`),
  which tlapm cannot prove under fairness;
* the two violations.

## 6. Not modelled, and the plan

* **DiffEngine, CatalogSyncer and ConditionAggregator.** These are
  described in `spec.md` but are not under `src/`. Planned as
  spec-modelled modules:
  * DiffEngine as a pure operator, checked against a reference definition
    (disjointness, partition of both sides, first occurrence wins);
  * CatalogSyncer with collected persistence errors and no rollback,
    checked for idempotence of a second pass;
  * ConditionAggregator's grouping, FirstReason and localize idempotence.
* **The generated informers** (`src/pkg/client/informers_generated`).
  This is generated constructor code. What the controller sees of an
  informer (a lagging cache, one event per change) is the `cache` variable
  and `CacheSync`.
* **Not modelled at all:**
  * the fake prober manager (a test double);
  * the webhook registration;
  * the vcsim harness;
  * event recording;
  * logging.
