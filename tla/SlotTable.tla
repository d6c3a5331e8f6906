----------------------------- MODULE SlotTable ------------------------------
(***************************************************************************)
(* A name table in a fixed array of slots, as the kernel's ServiceRegistry *)
(* (mene-kernel/src/service/registry.rs) and init's (apps/init) keep it.   *)
(* Operators on the array; its length is its domain.  A slot's name and    *)
(* name_len are one value: a name is compared and copied whole, and a slot *)
(* that is freed is overwritten with an empty one.                         *)
(***************************************************************************)
EXTENDS Integers, FiniteSetsExt

empty == [in_use |-> FALSE, owner_pid |-> 0, handle |-> 0, name |-> ""]

matches(slot, name) == slot.in_use /\ slot.name = name

Matching(slots, name) == {i \in DOMAIN slots : matches(slots[i], name)}

Unused(slots) == {i \in DOMAIN slots : ~slots[i].in_use}

(* A full table that refuses to update a name it holds. *)
IsFullBug(slots, name) == Unused(slots) = {}

IsFull(slots, name) == Matching(slots, name) = {} /\ Unused(slots) = {}

(* The search for a hole placed before the search for the name. *)
StoredBug(slots, name, owner_pid, handle) ==
  IF IsFull(slots, name) THEN slots
  ELSE [slots EXCEPT ![Min(IF Unused(slots) # {} THEN Unused(slots)
                                                 ELSE Matching(slots, name))] =
          [in_use |-> TRUE, owner_pid |-> owner_pid, handle |-> handle, name |-> name]]

(* A full table that makes room by overwriting its first slot. *)
StoredFullBug(slots, name, owner_pid, handle) ==
  [slots EXCEPT ![Min(IF IsFull(slots, name) THEN DOMAIN slots
                      ELSE IF Matching(slots, name) # {} THEN Matching(slots, name)
                      ELSE Unused(slots))] =
     [in_use |-> TRUE, owner_pid |-> owner_pid, handle |-> handle, name |-> name]]

(* A known name is updated where it is; a new one takes the first hole.    *)
Stored(slots, name, owner_pid, handle) ==
  IF IsFull(slots, name) THEN slots
  ELSE [slots EXCEPT ![Min(IF Matching(slots, name) # {} THEN Matching(slots, name)
                                                         ELSE Unused(slots))] =
          [in_use |-> TRUE, owner_pid |-> owner_pid, handle |-> handle, name |-> name]]

(* The handle of the first match, 0 if there is none.                      *)
Found(slots, name) ==
  IF Matching(slots, name) = {} THEN 0 ELSE slots[Min(Matching(slots, name))].handle

Cleared(slots, name) ==
  IF Matching(slots, name) = {} THEN slots
  ELSE [slots EXCEPT ![Min(Matching(slots, name))] = empty]

-----------------------------------------------------------------------------
(* The map from names to owners and handles that a table stands for.       *)
UsedSlots(slots) == {i \in DOMAIN slots : slots[i].in_use}

NamesIn(slots) == {slots[i].name : i \in UsedSlots(slots)}

SlotOf(slots, name) == CHOOSE i \in DOMAIN slots : matches(slots[i], name)

Binding(slot) == [owner_pid |-> slot.owner_pid, handle |-> slot.handle]

AsMap(slots) == [n \in NamesIn(slots) |-> Binding(slots[SlotOf(slots, n)])]

UniqueIn(slots) ==
  \A i, j \in UsedSlots(slots) : slots[i].name = slots[j].name => i = j
=============================================================================
