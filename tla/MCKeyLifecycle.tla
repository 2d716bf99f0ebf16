--------------------------- MODULE MCKeyLifecycle ---------------------------
(***************************************************************************)
(* Small instances of KeyLifecycle for TLC, and the workloads they run.    *)
(***************************************************************************)
EXTENDS KeyLifecycle, TLC

(* Slots are interchangeable; the ids of the fixtures are not.             *)
SlotSymmetry == Permutations(Request)

(* Only partners are created and re-slugged: the races for a slug and what *)
(* they do to the next boot.                                               *)
Reslug(r) == PatchPartner(r) /\ slot'[r].patch.status = Undefined

RegistryNext ==
    \/ \E r \in Request : CreatePartner(r) \/ Reslug(r) \/ Handle(r) \/ Finish(r)
    \/ Crash \/ Boot \/ BootFails \/ Supervise

RegistrySpec == Init /\ [][RegistryNext]_vars

(* Requests that overlap, but not in an update of one row and not in a     *)
(* decision about one partner: the hypotheses of KeyOverlapProofs.  To keep *)
(* the run small, a PATCH names one column at most.                        *)
ApartNext ==
    /\ Next
    /\ KeyUpdatesApart' /\ StatusDecisionsApart'
    /\ \A r \in Request : slot'[r].patch.status = Undefined \/ slot'[r].patch.slug = Unset

ApartSpec == Init /\ [][ApartNext]_vars

=============================================================================
