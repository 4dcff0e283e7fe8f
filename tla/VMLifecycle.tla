---------------------------- MODULE VMLifecycle ----------------------------
(***************************************************************************)
(* What the VirtualMachine controller promises, for one object name, with *)
(* no controller state at all: the managed resource (spec.md, 4.4) and    *)
(* its external counterpart.                                               *)
(*                                                                         *)
(*   object    "None": no object of the name; "Live": an object without   *)
(*             a deletion request; "Deleting": deletion requested, held   *)
(*             back by the finalizer                                       *)
(*   vmExists  the VM exists on the provider                               *)
(*                                                                         *)
(* The phases of spec.md are the pairs: Absent or Deleted (None, no VM),  *)
(* Creating (Live, no VM), Converging (Live, VM), Deleting (Deleting).     *)
(***************************************************************************)
VARIABLES object, vmExists

avars == <<object, vmExists>>

Objects == {"None", "Live", "Deleting"}

Init == object = "None" /\ ~vmExists

(* The user creates an object, and later asks for its deletion.           *)
CreateObject ==
    /\ object = "None"
    /\ object' = "Live"
    /\ UNCHANGED vmExists

RequestDelete ==
    /\ object = "Live"
    /\ object' = "Deleting"
    /\ UNCHANGED vmExists

(* A VM is created only while an object of the name exists.  The object   *)
(* may already be deleting: the create was decided on an earlier read.    *)
ProvisionVM ==
    /\ object # "None" /\ ~vmExists
    /\ vmExists' = TRUE
    /\ UNCHANGED object

(* The VM is deleted only once its object's deletion was requested.       *)
DestroyVM ==
    /\ object = "Deleting" /\ vmExists
    /\ vmExists' = FALSE
    /\ UNCHANGED object

(* The finalizer is released, and the object removed, only after the VM   *)
(* is confirmed gone.                                                      *)
ReleaseObject ==
    /\ object = "Deleting" /\ ~vmExists
    /\ object' = "None"
    /\ UNCHANGED vmExists

Next ==
    \/ CreateObject \/ RequestDelete
    \/ ProvisionVM \/ DestroyVM \/ ReleaseObject

(* A requested deletion always completes; creation need not happen.       *)
Spec == Init /\ [][Next]_avars /\ WF_avars(DestroyVM) /\ WF_avars(ReleaseObject)

TypeOK == object \in Objects /\ vmExists \in BOOLEAN

=============================================================================
