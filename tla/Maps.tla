-------------------------------- MODULE Maps --------------------------------
(***************************************************************************)
(* The operations of alloc::collections::BTreeMap that MeneOS uses.  A map *)
(* is a function; the keys it holds are its domain.                        *)
(***************************************************************************)
EXTENDS Functions

(* BTreeMap::insert *)
MapInsert(m, k, v) == [x \in DOMAIN m \cup {k} |-> IF x = k THEN v ELSE m[x]]

(* BTreeMap::remove *)
MapRemove(m, k) == Restrict(m, DOMAIN m \ {k})
=============================================================================
