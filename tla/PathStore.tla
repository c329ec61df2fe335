----------------------------- MODULE PathStore -----------------------------
(***************************************************************************)
(* What a cached MO promises its application: each path holds the data     *)
(* last set under it, whatever is set under other paths and whatever nodes *)
(* come into being on the way; a path nothing was set under reads empty.   *)
(* A set that may not add a node can come to nothing.                      *)
(***************************************************************************)
CONSTANTS Paths, Data, Initial

VARIABLES
  values,        (* path -> data                                           *)
  pending,       (* the set that was asked for, if there is one            *)
  result         (* what the last get returned                             *)

storeVars == <<values, pending, result>>

StoreInit == values \in Initial /\ pending = {} /\ result \in Data

Set(path, data, add) ==
  /\ pending = {}
  /\ pending' = {[path |-> path, data |-> data, add |-> add]}
  /\ UNCHANGED <<values, result>>

Apply(set) ==
  /\ values' = [values EXCEPT ![set.path] = set.data]
  /\ pending' = {}
  /\ UNCHANGED result

Ignore(set) ==
  /\ ~set.add
  /\ pending' = {}
  /\ UNCHANGED <<values, result>>

Get(path) ==
  /\ pending = {}
  /\ result' = values[path]
  /\ UNCHANGED <<values, pending>>

StoreNext ==
  \/ \E path \in Paths :
       Get(path) \/ \E data \in Data, add \in BOOLEAN : Set(path, data, add)
  \/ \E set \in pending : Apply(set) \/ Ignore(set)

StoreSpec == StoreInit /\ [][StoreNext]_storeVars
=============================================================================
