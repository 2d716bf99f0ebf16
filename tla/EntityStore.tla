---------------------------- MODULE EntityStore ----------------------------
(***************************************************************************)
(* How StoreService writes a row (src/src/store/store.service.ts).         *)
(*                                                                         *)
(* A row is a function from its columns to values.  StoreService.update    *)
(* reads the row, lays the caller's patch over what it read and hands the  *)
(* WHOLE record to TypeORM's repository.save.  save is one transaction at  *)
(* READ COMMITTED: it SELECTs the row again, compares it with the record   *)
(* it was given, and UPDATEs only the columns that differ, or INSERTs when *)
(* the SELECT finds no row.  Nothing locks the row between the three       *)
(* statements, so each is a step of its own in the modules that use this.  *)
(***************************************************************************)

CONSTANTS
    Unset,      \* a property that a patch does not have
    Undefined   \* the value of one that it has and that nobody set

(* Mutation: what was read is dropped for a column the patch does not have. *)
MergeUndefined(existing, patch) == [c \in DOMAIN existing |-> patch[c]]

(***************************************************************************)
(* `{ ...existing, ...patch }`: a column the patch does not have keeps the *)
(* value that was read; one that is there and undefined loses it.          *)
(***************************************************************************)
Merge(existing, patch) ==
    [c \in DOMAIN existing |-> IF patch[c] = Unset THEN existing[c] ELSE patch[c]]

(* The columns save writes: those in which the record has a value, and not  *)
(* the one of the row that save's own SELECT returned.                      *)
Dirty(entity, loaded) == {c \in DOMAIN loaded : entity[c] \notin {Undefined, loaded[c]}}

(* The row after UPDATE ... SET the columns of `dirty`.                     *)
Written(row, entity, dirty) ==
    [c \in DOMAIN row |-> IF c \in dirty THEN entity[c] ELSE row[c]]

=============================================================================
