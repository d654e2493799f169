----------------------------- MODULE StorageMap -----------------------------
(***************************************************************************)
(* external: a map in a contract's storage (cw_storage_plus::Map) is a     *)
(* function from the keys that have an entry to the values.                *)
(***************************************************************************)

\* The map with an entry saved or replaced, and with one removed.
Saved(f, x, v) == [y \in DOMAIN f \cup {x} |-> IF y = x THEN v ELSE f[y]]
Without(f, x) == [y \in DOMAIN f \ {x} |-> f[y]]
=============================================================================
