--------------------------- MODULE RegistryProofs ---------------------------
(***************************************************************************)
(* Proofs about the two tables of services in the kernel.  ServiceRegistry,*)
(* for any number of slots and any sets of names, owners and handles: its  *)
(* invariants, and that the slot array implements the map of NameService.  *)
(* DependencyGraph, for every graph: no service starts before the ones it  *)
(* depends on.                                                             *)
(***************************************************************************)
EXTENDS ServiceRegistry, DependencyGraph, FiniteSetTheorems, WellFoundedInduction, TLAPS

Array == [Slots -> Slot]

(* The slot that register may write a name into.                           *)
Fits(e, name, i) == matches(e[i], name) \/ (~e[i].in_use /\ Matching(e, name) = {})

IsPut(e, i, new, f) == f = [e EXCEPT ![i] = new]

(* The first match of a search through the slots is one of the matches.    *)
LEMMA FirstSlot ==
  ASSUME NEW S \in SUBSET Slots, S # {}
  PROVE  Min(S) \in S
  <1>0. S \in SUBSET Nat
    BY RegistryAssumption DEF Slots
  <1>1. IsWellFoundedOn(OpToRel(<, Nat), Nat)
    BY NatLessThanWellFounded
  <1>2. PICK x \in S : \A y \in S : ~(<<y, x>> \in OpToRel(<, Nat))
    BY <1>0, <1>1, WFMin
  <1>3. ASSUME NEW y \in S PROVE x <= y
    <2>0. x \in Nat /\ y \in Nat
      BY <1>0
    <2>1. y < x => <<y, x>> \in OpToRel(<, Nat)
      <3>1. <<y, x>> \in Nat \X Nat /\ <<y, x>>[1] = y /\ <<y, x>>[2] = x
        BY <2>0
      <3> QED BY <3>1, Zenon DEF OpToRel
    <2>2. ~(y < x)
      BY <1>2, <2>1, Zenon
    <2> QED BY <2>0, <2>2
  <1> QED
    BY <1>2, <1>3 DEF Min

(* In a table without duplicates a name that is found is in the slot the   *)
(* search returns, and nowhere else.                                       *)
LEMMA MatchIsSlotOf ==
  ASSUME NEW e \in Array, UniqueIn(e), NEW name,
         NEW i \in Slots, matches(e[i], name)
  PROVE  /\ Matching(e, name) = {i}
         /\ Min(Matching(e, name)) = i
         /\ SlotOf(e, name) = i
         /\ name \in NamesIn(e)
         /\ AsMap(e)[name] = Binding(e[i])
  <1> DOMAIN e = Slots
    BY DEF Array
  <1>1. Matching(e, name) = {i}
    BY DEF Matching, matches, UniqueIn, UsedSlots
  <1>2. Min(Matching(e, name)) = i
    BY <1>1, FirstSlot
  <1>3. SlotOf(e, name) = i
    BY DEF SlotOf, matches, UniqueIn, UsedSlots
  <1>4. name \in NamesIn(e)
    BY DEF NamesIn, matches, UsedSlots
  <1> QED
    BY <1>1, <1>2, <1>3, <1>4 DEF AsMap

(* A name is found exactly when the map binds it.                          *)
LEMMA FoundIsBound ==
  ASSUME NEW e \in Array, NEW name
  PROVE  /\ Matching(e, name) # {} <=> name \in NamesIn(e)
         /\ DOMAIN AsMap(e) = NamesIn(e)
  BY DEF Matching, NamesIn, UsedSlots, matches, Array, AsMap

(* The slots in use and the names bound are equally many, so the array has *)
(* a hole exactly when fewer than MAX_SERVICES names are bound.            *)
LEMMA HoleIffRoom ==
  ASSUME NEW e \in Array, UniqueIn(e)
  PROVE  Unused(e) # {} <=> Cardinality(NamesIn(e)) < MAX_SERVICES
  <1> DEFINE U == UsedSlots(e)
             f == [i \in U |-> e[i].name]
  <1>1. IsFiniteSet(Slots) /\ Cardinality(Slots) = MAX_SERVICES
    BY FS_Interval, RegistryAssumption DEF Slots
  <1>2. U \in SUBSET Slots /\ (Unused(e) # {} <=> U # Slots)
    BY DEF Unused, UsedSlots, Array
  <1>3. /\ IsFiniteSet(U) /\ Cardinality(U) \in Nat /\ Cardinality(U) <= MAX_SERVICES
        /\ Cardinality(U) = MAX_SERVICES <=> U = Slots
    <2>1. IsFiniteSet(U) /\ Cardinality(U) <= MAX_SERVICES
          /\ (MAX_SERVICES = Cardinality(U) => Slots = U)
      BY <1>1, <1>2, FS_Subset
    <2>2. Cardinality(U) \in Nat
      BY <2>1, FS_CardinalityType
    <2> QED BY <1>1, <2>1, <2>2
  <1>4. f \in Bijection(U, NamesIn(e))
    BY DEF Bijection, Injection, Surjection, IsInjective, NamesIn, UniqueIn
  <1>5. Cardinality(NamesIn(e)) = Cardinality(U)
    <2>1. ExistsBijection(U, NamesIn(e))
      BY <1>4 DEF ExistsBijection
    <2> QED BY <1>3, <2>1, FS_Bijection
  <1> QED
    BY <1>2, <1>3, <1>5, RegistryAssumption

(* Writing a name into its own slot, or into a hole when it has none,      *)
(* keeps names unique and rebinds that name alone.                         *)
LEMMA PutSlot ==
  ASSUME NEW e \in Array, UniqueIn(e), NEW name, NEW i \in Slots,
         Fits(e, name, i), NEW new \in Slot, matches(new, name),
         NEW f, IsPut(e, i, new, f)
  PROVE  f \in Array /\ UniqueIn(f) /\ AsMap(f) = MapInsert(AsMap(e), name, Binding(new))
  <1>1. /\ f \in Array /\ DOMAIN e = Slots /\ DOMAIN f = Slots
        /\ f[i] = new /\ \A j \in Slots \ {i} : f[j] = e[j]
    BY DEF Array, IsPut
  <1>2. \A j \in Slots \ {i} : ~matches(e[j], name)
    BY <1>1 DEF Matching, matches, UniqueIn, UsedSlots, Fits
  <1>3. UniqueIn(f)
    <2> SUFFICES ASSUME NEW j \in Slots, NEW k \in Slots, f[j].in_use, f[k].in_use,
                        f[j].name = f[k].name
                 PROVE  j = k
      BY <1>1 DEF UniqueIn, UsedSlots
    <2>1. ASSUME j # i, k # i PROVE j = k
      BY <1>1, <2>1 DEF UniqueIn, UsedSlots
    <2>2. ASSUME NEW x \in Slots \ {i}, f[x].in_use PROVE f[x].name # name
      BY <1>1, <1>2, <2>2 DEF matches
    <2> QED BY <1>1, <2>1, <2>2 DEF matches
  <1>4. \A n : n # name => (Matching(f, n) # {} <=> Matching(e, n) # {})
    <2> SUFFICES ASSUME NEW n, n # name
                 PROVE  \A j \in Slots : matches(f[j], n) <=> matches(e[j], n)
      BY <1>1 DEF Matching
    <2> QED BY <1>1 DEF Fits, matches
  <1>5. NamesIn(f) = NamesIn(e) \cup {name}
    <2>1. name \in NamesIn(f)
      BY <1>1 DEF NamesIn, UsedSlots, matches
    <2>2. \A n : n # name => (n \in NamesIn(f) <=> n \in NamesIn(e))
      BY <1>1, <1>4, FoundIsBound
    <2> QED BY <2>1, <2>2
  <1>6. AsMap(f)[name] = Binding(new)
    <2>1. matches(f[i], name)
      BY <1>1 DEF matches
    <2>2. f \in Array
      BY <1>1
    <2>3. AsMap(f)[name] = Binding(f[i])
      BY <1>3, <2>1, <2>2, MatchIsSlotOf
    <2> QED BY <1>1, <2>3
  <1>7. ASSUME NEW n \in NamesIn(e), n # name PROVE AsMap(f)[n] = AsMap(e)[n]
    <2>1. PICK j \in Slots : matches(e[j], n)
      BY <1>1 DEF NamesIn, UsedSlots, matches
    <2>2. j # i /\ matches(f[j], n)
      BY <1>1, <1>7, <2>1 DEF Matching, matches, Fits
    <2>3. AsMap(e)[n] = Binding(e[j])
      BY <2>1, MatchIsSlotOf
    <2>4. AsMap(f)[n] = Binding(f[j])
      BY <1>1, <1>3, <2>2, MatchIsSlotOf
    <2> QED BY <1>1, <2>2, <2>3, <2>4
  <1>8. AsMap(f) = MapInsert(AsMap(e), name, Binding(new))
    <2>1. DOMAIN AsMap(f) = NamesIn(e) \cup {name} /\ DOMAIN AsMap(e) = NamesIn(e)
      BY <1>5 DEF AsMap
    <2>2. AsMap(f) = [n \in NamesIn(f) |-> AsMap(f)[n]]
      BY DEF AsMap
    <2> QED BY <1>5, <1>6, <1>7, <2>1, <2>2 DEF MapInsert
  <1> QED BY <1>1, <1>3, <1>8

(* Emptying the slot of a name keeps names unique and unbinds that name    *)
(* alone.                                                                  *)
LEMMA ClearSlot ==
  ASSUME NEW e \in Array, UniqueIn(e), NEW name, NEW i \in Slots, matches(e[i], name),
         NEW f, f = [e EXCEPT ![i] = empty]
  PROVE  f \in Array /\ UniqueIn(f) /\ AsMap(f) = MapRemove(AsMap(e), name)
  <1>0. empty \in Slot /\ empty.in_use = FALSE
    BY DEF Slot, empty
  <1>1. /\ f \in Array /\ DOMAIN e = Slots /\ DOMAIN f = Slots
        /\ f[i].in_use = FALSE /\ \A j \in Slots \ {i} : f[j] = e[j]
    BY <1>0 DEF Array
  <1>2. \A j \in Slots \ {i} : ~matches(e[j], name)
    BY <1>1 DEF Matching, matches, UniqueIn, UsedSlots
  <1>3. UniqueIn(f)
    BY <1>1 DEF UniqueIn, UsedSlots
  <1>4. NamesIn(f) = NamesIn(e) \ {name}
    <2>1. Matching(f, name) = {}
      BY <1>1, <1>2 DEF Matching, matches
    <2>2. \A n : n # name => (Matching(f, n) # {} <=> Matching(e, n) # {})
      BY <1>1 DEF Matching, matches
    <2> QED BY <1>1, <2>1, <2>2, FoundIsBound
  <1>5. ASSUME NEW n \in NamesIn(f) PROVE AsMap(f)[n] = AsMap(e)[n]
    <2>1. PICK j \in Slots : matches(f[j], n)
      BY <1>1 DEF NamesIn, UsedSlots, matches
    <2>2. j # i /\ matches(e[j], n) /\ f[j] = e[j]
      BY <1>1, <2>1 DEF matches
    <2>3. AsMap(e)[n] = Binding(e[j])
      BY <2>2, MatchIsSlotOf
    <2>4. AsMap(f)[n] = Binding(f[j])
      BY <1>1, <1>3, <2>1, MatchIsSlotOf
    <2> QED BY <2>2, <2>3, <2>4
  <1>6. AsMap(f) = MapRemove(AsMap(e), name)
    <2>1. AsMap(f) = [n \in NamesIn(f) |-> AsMap(f)[n]] /\ DOMAIN AsMap(e) = NamesIn(e)
      BY DEF AsMap
    <2> QED BY <1>4, <1>5, <2>1 DEF MapRemove, Restrict
  <1> QED BY <1>1, <1>3, <1>6

-----------------------------------------------------------------------------
RegistryInv == TypeOK /\ UniqueNames

(* ServiceRegistry::register with acceptable arguments: a full table is    *)
(* left alone, and otherwise the name is bound in the map.                 *)
LEMMA StoredIsInsert ==
  ASSUME NEW e \in Array, UniqueIn(e), NEW name \in Names,
         NEW owner_pid \in Pids, NEW handle \in Handles,
         NEW f, f = Stored(e, name, owner_pid, handle)
  PROVE  /\ f \in Array /\ UniqueIn(f)
         /\ IsFull(e, name) => f = e
         /\ ~IsFull(e, name) =>
              AsMap(f) = MapInsert(AsMap(e), name, [owner_pid |-> owner_pid, handle |-> handle])
  <1>1. CASE IsFull(e, name)
    BY <1>1 DEF Stored
  <1>2. CASE ~IsFull(e, name)
    <2> DEFINE S == IF Matching(e, name) # {} THEN Matching(e, name) ELSE Unused(e)
    <2>1. S \in SUBSET Slots /\ S # {}
      BY <1>2 DEF IsFull, Matching, Unused, Array
    <2>2. Min(S) \in S
      BY <2>1, FirstSlot
    <2>3. PICK i \in Slots : i = Min(S)
      BY <2>1, <2>2
    <2>4. Fits(e, name, i)
      BY <2>2, <2>3 DEF Matching, Unused, Fits
    <2>5. PICK new \in Slot : new = [in_use |-> TRUE, owner_pid |-> owner_pid,
                                     handle |-> handle, name |-> name]
      BY DEF Slot
    <2>6. matches(new, name) /\ Binding(new) = [owner_pid |-> owner_pid, handle |-> handle]
      BY <2>5 DEF matches, Binding
    <2>7. IsPut(e, i, new, f)
      BY <1>2, <2>3, <2>5, Zenon DEF Stored, IsPut
    <2>8. f \in Array /\ UniqueIn(f) /\ AsMap(f) = MapInsert(AsMap(e), name, Binding(new))
      BY <2>4, <2>6, <2>7, PutSlot
    <2> QED BY <1>2, <2>6, <2>8
  <1> QED BY <1>1, <1>2

(* ServiceRegistry::unregister removes the name from the map, or finds     *)
(* that it is not there.                                                   *)
LEMMA ClearedIsRemove ==
  ASSUME NEW e \in Array, UniqueIn(e), NEW name, NEW f, f = Cleared(e, name)
  PROVE  f \in Array /\ UniqueIn(f) /\ AsMap(f) = MapRemove(AsMap(e), name)
  <1>1. CASE Matching(e, name) = {}
    <2>1. f = e /\ name \notin NamesIn(e) /\ DOMAIN AsMap(e) = NamesIn(e)
      BY <1>1, FoundIsBound DEF Cleared
    <2>2. AsMap(e) = [n \in NamesIn(e) |-> AsMap(e)[n]]
      BY DEF AsMap
    <2>3. NamesIn(e) \ {name} = NamesIn(e)
      BY <2>1
    <2> QED BY <2>1, <2>2, <2>3 DEF MapRemove, Restrict
  <1>2. CASE Matching(e, name) # {}
    <2>1. Min(Matching(e, name)) \in Matching(e, name)
      BY <1>2, FirstSlot DEF Matching, Array
    <2>2. PICK i \in Slots : i = Min(Matching(e, name)) /\ matches(e[i], name)
      BY <2>1 DEF Matching, Array
    <2>3. f = [e EXCEPT ![i] = empty]
      BY <1>2, <2>2, Zenon DEF Cleared
    <2> QED BY <2>2, <2>3, ClearSlot
  <1> QED BY <1>1, <1>2

(* Every operation keeps the registry well typed and its names unique.     *)
LEMMA RegistryStep == RegistryInv /\ [Next]_vars => RegistryInv'
  <1> SUFFICES ASSUME RegistryInv, [Next]_vars PROVE RegistryInv'
    OBVIOUS
  <1>0. entries \in Array /\ UniqueIn(entries) /\ DOMAIN entries = Slots
    BY DEF RegistryInv, TypeOK, UniqueNames, Array
  <1>1. CASE entries' = entries
    BY <1>1 DEF RegistryInv, TypeOK, UniqueNames
  <1>2. ASSUME NEW name \in Names \cup BadNames, NEW owner_pid \in Pids, NEW handle \in Handles,
               register(name, owner_pid, handle), entries' # entries
        PROVE  RegistryInv'
    <2>1. /\ name \in Names /\ handle # 0
          /\ entries' = Stored(entries, name, owner_pid, handle)
      BY <1>2 DEF register
    <2>2. entries' \in Array /\ UniqueIn(entries')
      BY <1>0, <2>1, StoredIsInsert
    <2>3. \A i \in Slots : entries'[i] = entries[i] \/
                           (entries'[i].name = name /\ entries'[i].handle = handle)
      BY <1>0, <2>1 DEF Stored, Array
    <2> QED BY <2>1, <2>2, <2>3 DEF RegistryInv, TypeOK, UniqueNames, Array
  <1>3. ASSUME NEW name \in Names \cup BadNames, unregister(name) PROVE RegistryInv'
    <2>1. entries' = Cleared(entries, name)
      BY <1>3 DEF unregister
    <2>2. entries' \in Array /\ UniqueIn(entries')
      BY <1>0, <2>1, ClearedIsRemove
    <2>3. \A i \in Slots : entries'[i] = entries[i] \/ ~entries'[i].in_use
      BY <1>0, <2>1 DEF Cleared, Array, empty
    <2> QED BY <2>2, <2>3 DEF RegistryInv, TypeOK, UniqueNames, Array
  <1> QED BY <1>1, <1>2, <1>3 DEF Next, lookup, vars

(* Initially no slot is used: the map is empty.                            *)
LEMMA RegistryInit == Init => RegistryInv /\ NS!Init
  <1> SUFFICES ASSUME Init PROVE RegistryInv /\ NS!Init
    OBVIOUS
  <1>1. /\ entries \in Array /\ DOMAIN entries = Slots
        /\ \A i \in Slots : entries[i].in_use = FALSE
    BY DEF Init, Array, Slot, empty
  <1>2. RegistryInv
    BY <1>1 DEF RegistryInv, TypeOK, UniqueNames, UniqueIn, UsedSlots, Array
  <1>3. NamesIn(entries) = {}
    BY <1>1 DEF NamesIn, UsedSlots
  <1>4. AsMap(entries) = <<>>
    BY <1>3 DEF AsMap
  <1> QED BY <1>2, <1>4 DEF Init, NS!Init, Answer, NS!Answer

(* The library operators that NameService uses are the ones used here.     *)
LEMMA SameOperators ==
  /\ \A S : NS!Cardinality(S) = Cardinality(S)
  /\ \A m, k, v : NS!MapInsert(m, k, v) = MapInsert(m, k, v)
  /\ \A m, k : NS!MapRemove(m, k) = MapRemove(m, k)
  <1>1. \A S : NS!Cardinality(S) = Cardinality(S)
    BY Zenon DEF NS!Cardinality, Cardinality
  <1>2. \A m, k, v : NS!MapInsert(m, k, v) = MapInsert(m, k, v)
    BY DEF NS!MapInsert, MapInsert
  <1>3. \A m, k : NS!MapRemove(m, k) = MapRemove(m, k)
    BY DEF NS!MapRemove, MapRemove, NS!Restrict, Restrict
  <1> QED BY <1>1, <1>2, <1>3

(* Every step of the registry is a step of the map.                        *)
LEMMA RegistryRefines ==
  RegistryInv /\ [Next]_vars => [NS!Next]_(NS!vars)
  <1> SUFFICES ASSUME RegistryInv, [Next]_vars PROVE [NS!Next]_(NS!vars)
    OBVIOUS
  <1> DEFINE b == AsMap(entries)
  <1>0. entries \in Array /\ UniqueIn(entries)
    BY DEF RegistryInv, TypeOK, UniqueNames, Array
  <1>1. ASSUME NEW name
        PROVE  /\ Matching(entries, name) = {} <=> name \notin DOMAIN b
               /\ IsFull(entries, name) <=> ~NS!HasRoom(name)
    <2>1. Matching(entries, name) # {} <=> name \in DOMAIN b
      BY <1>0, FoundIsBound
    <2>2. Unused(entries) # {} <=> Cardinality(DOMAIN b) < MAX_SERVICES
      BY <1>0, FoundIsBound, HoleIffRoom
    <2> QED BY <2>1, <2>2, SameOperators DEF IsFull, NS!HasRoom
  <1>2. CASE UNCHANGED vars
    BY <1>2 DEF vars, NS!vars
  <1>3. ASSUME NEW name \in Names \cup BadNames, NEW owner_pid \in Pids, NEW handle \in Handles,
               register(name, owner_pid, handle)
        PROVE  NS!Register(name, owner_pid, handle)
    <2>1. CASE name \in BadNames \/ handle = 0
      BY <1>3, <2>1 DEF register, NS!Register, Answer, NS!Answer
    <2>2. CASE name \notin BadNames /\ handle # 0
      <3>1. /\ entries' = Stored(entries, name, owner_pid, handle) /\ name \in Names
            /\ result' = Answer(<<"register", name, owner_pid, handle>>,
                             IF IsFull(entries, name) THEN "RegistryFull" ELSE "Ok", 0)
        BY <1>3, <2>2 DEF register
      <3>2. /\ IsFull(entries, name) => entries' = entries
            /\ ~IsFull(entries, name) =>
                 AsMap(entries') = MapInsert(b, name, [owner_pid |-> owner_pid, handle |-> handle])
        BY <1>0, <3>1, StoredIsInsert
      <3> QED BY <1>1, <2>2, <3>1, <3>2, SameOperators DEF NS!Register, Answer, NS!Answer
    <2> QED BY <2>1, <2>2
  <1>4. ASSUME NEW name \in Names \cup BadNames, lookup(name) PROVE NS!Lookup(name)
    <2>1. ASSUME name \in DOMAIN b PROVE Found(entries, name) = b[name].handle
      <3>1. PICK i \in Slots : matches(entries[i], name)
        BY <1>0, <1>1, <2>1 DEF Matching, Array
      <3>2. Min(Matching(entries, name)) = i /\ b[name] = Binding(entries[i])
        BY <1>0, <3>1, MatchIsSlotOf
      <3> QED BY <1>1, <2>1, <3>2 DEF Found, Binding
    <2> QED BY <1>1, <1>4, <2>1 DEF lookup, NS!Lookup, Answer, NS!Answer
  <1>5. ASSUME NEW name \in Names \cup BadNames, unregister(name) PROVE NS!Unregister(name)
    <2>1. AsMap(entries') = MapRemove(b, name)
      BY <1>0, <1>5, ClearedIsRemove DEF unregister
    <2> QED BY <1>1, <1>5, <2>1, SameOperators DEF unregister, NS!Unregister, Answer, NS!Answer
  <1> QED BY <1>2, <1>3, <1>4, <1>5 DEF Next, NS!Next

(* The slot array of service/registry.rs is always well typed and holds a  *)
(* name in one slot at most, whatever is registered and unregistered.      *)
THEOREM RegistryCorrect == Spec => [](TypeOK /\ UniqueNames)
  BY RegistryInit, RegistryStep, PTL DEF Spec, RegistryInv

(* The slots of the kernel's registry are empty or hold a name and its     *)
(* owner, and its answers are of the kinds that its callers expect.        *)
THEOREM RegistryTypes == Spec => []TypeOK
  BY RegistryCorrect, PTL

(* The registry of service/registry.rs, with its holes, its two passes and *)
(* its fixed size, implements the map from names to handles that           *)
(* NameService specifies.                                                  *)
THEOREM RegistryImplementsMap == Spec => RefinesNameService
  <1>1. Spec => []RegistryInv
    BY RegistryInit, RegistryStep, PTL DEF Spec
  <1> QED BY <1>1, RegistryInit, RegistryRefines, PTL DEF Spec, RefinesNameService, NS!Spec

-----------------------------------------------------------------------------
(* DependencyGraph *)

(* What is on the client's list can still be started, and while the graph  *)
(* is being built nothing has been.                                        *)
Waits(id) == nodes[id].state = "Pending" /\ \A d \in nodes[id].deps : Running(d)

DepInv ==
  /\ GraphTypeOK /\ DepsRunFirst
  /\ \A id \in ready : Waits(id)
  /\ building => ready = {} /\ \A id \in Ids : nodes[id].state = "Pending"

(* Types, node by node.                                                    *)
LEMMA NodeTypes ==
  ASSUME GraphTypeOK
  PROVE  /\ Ids = 1 .. Len(nodes) /\ Len(nodes) \in Nat
         /\ \A id \in Ids : nodes[id].deps \subseteq Ids /\ nodes[id].state \in States
<1>1. nodes \in Seq(Node)
  BY DEF GraphTypeOK
<1>2. Ids = 1 .. Len(nodes) /\ Len(nodes) \in Nat
  BY <1>1 DEF Ids
<1>3. \A id \in Ids : nodes[id] \in Node
  BY <1>1, <1>2
<1> QED
  BY <1>2, <1>3 DEF Node

(* What one mark does to each node.                                        *)
LEMMA Marked ==
  ASSUME GraphTypeOK, NEW id \in Ids, NEW s \in States, Mark(id, s)
  PROVE  /\ Ids' = Ids /\ nodes' \in Seq(Node')
         /\ nodes'[id].state = s
         /\ \A x \in Ids : nodes'[x].deps = nodes[x].deps
         /\ \A x \in Ids \ {id} : nodes'[x].state = nodes[x].state
<1>1. nodes' = [nodes EXCEPT ![id].state = s]
  BY DEF Mark
<1>2. /\ nodes \in Seq(Node) /\ id \in 1 .. Len(nodes) /\ nodes[id] \in Node
  BY DEF GraphTypeOK, Ids
<1>3. [nodes[id] EXCEPT !.state = s] \in Node
  BY <1>2 DEF Node
<1>4. nodes' \in Seq(Node) /\ Len(nodes') = Len(nodes)
  BY <1>1, <1>2, <1>3
<1>5. Ids' = Ids
  BY <1>2, <1>4 DEF Ids
<1>6. Node' = Node
  BY <1>5 DEF Node
<1>7. \A x \in Ids : nodes'[x] = IF x = id THEN [nodes[id] EXCEPT !.state = s] ELSE nodes[x]
  BY <1>1 DEF Ids
<1>8. /\ [nodes[id] EXCEPT !.state = s].state = s
      /\ [nodes[id] EXCEPT !.state = s].deps = nodes[id].deps
  BY <1>2 DEF Node
<1> QED
  BY <1>4, <1>5, <1>6, <1>7, <1>8

(* The invariant holds initially.                                          *)
LEMMA DepInit == GraphInit => DepInv
  BY DEF GraphInit, DepInv, GraphTypeOK, DepsRunFirst, Ids, Node

(* Every step preserves it.                                                *)
LEMMA DepNext == DepInv /\ [GraphNext]_graphVars => DepInv'
<1> SUFFICES ASSUME DepInv, [GraphNext]_graphVars PROVE DepInv'
  OBVIOUS
<1>t. GraphTypeOK /\ DepsRunFirst /\ \A id \in ready : Waits(id)
  BY DEF DepInv
<1>n. /\ Ids = 1 .. Len(nodes) /\ Len(nodes) \in Nat
      /\ \A id \in Ids : nodes[id].deps \subseteq Ids /\ nodes[id].state \in States
  BY <1>t, NodeTypes
<1>1. ASSUME add_service PROVE DepInv'
  <2>1. building /\ nodes' = Append(nodes, [deps |-> {}, state |-> "Pending"])
        /\ building' = building /\ ready' = ready
    BY <1>1 DEF add_service
  <2>2. ready = {} /\ \A id \in Ids : nodes[id].state = "Pending"
    BY <2>1 DEF DepInv
  <2>3. /\ Len(nodes') = Len(nodes) + 1 /\ Ids' = 1 .. Len(nodes) + 1
        /\ \A id \in Ids : nodes'[id] = nodes[id]
        /\ nodes'[Len(nodes) + 1] = [deps |-> {}, state |-> "Pending"]
    BY <2>1, <1>t DEF GraphTypeOK, Ids
  <2>4. \A id \in Ids' : nodes'[id].state = "Pending"
    BY <2>2, <2>3, <1>n
  <2>5. nodes \in Seq(Node') /\ [deps |-> {}, state |-> "Pending"] \in Node'
    <3>1. Ids \subseteq Ids'
      BY <2>3, <1>n
    <3>2. Node \subseteq Node'
      BY <3>1 DEF Node
    <3>3. nodes \in Seq(Node)
      BY <1>t DEF GraphTypeOK
    <3>4. nodes \in Seq(Node')
      <4>1. \A k \in 1 .. Len(nodes) : nodes[k] \in Node'
        BY <3>2, <3>3
      <4> HIDE DEF Node
      <4> QED
        BY <3>3, <4>1
    <3>5. [deps |-> {}, state |-> "Pending"] \in Node'
      BY DEF Node, States
    <3> QED
      BY <3>4, <3>5
  <2>6. GraphTypeOK'
    BY <2>1, <2>2, <2>5, <1>t DEF GraphTypeOK
  <2> QED
    BY <2>1, <2>2, <2>4, <2>6 DEF DepInv, DepsRunFirst
<1>2. ASSUME NEW s \in Nat, NEW d \in Nat, add_dependency(s, d)
      PROVE  DepInv'
  <2>1. building /\ building' = building /\ ready' = ready
    BY <1>2 DEF add_dependency
  <2>2. ready = {} /\ \A id \in Ids : nodes[id].state = "Pending"
    BY <2>1 DEF DepInv
  <2>3. CASE s \in Ids /\ d \in Ids
    <3>1. nodes' = [nodes EXCEPT ![s].deps = @ \cup {d}]
      BY <1>2, <2>3 DEF add_dependency
    <3>2. nodes \in Seq(Node) /\ nodes[s] \in Node /\ s \in 1 .. Len(nodes)
      BY <1>t, <2>3 DEF GraphTypeOK, Ids
    <3>3. [nodes[s] EXCEPT !.deps = @ \cup {d}] \in Node
          /\ [nodes[s] EXCEPT !.deps = @ \cup {d}].state = nodes[s].state
      BY <3>2, <2>3 DEF Node
    <3>4. nodes' \in Seq(Node) /\ Len(nodes') = Len(nodes)
      BY <3>1, <3>2, <3>3
    <3>5. Ids' = Ids
      BY <3>2, <3>4 DEF Ids
    <3>6. Node' = Node
      BY <3>5 DEF Node
    <3>7. \A x \in Ids : nodes'[x].state = nodes[x].state
      BY <3>1, <3>3 DEF Ids
    <3> QED
      BY <2>1, <2>2, <3>4, <3>5, <3>6, <3>7 DEF DepInv, GraphTypeOK, DepsRunFirst
  <2>4. CASE ~(s \in Ids /\ d \in Ids)
    <3>1. nodes' = nodes
      BY <1>2, <2>4 DEF add_dependency
    <3> QED
      BY <3>1, <2>1, <2>2, <1>t DEF DepInv, GraphTypeOK, DepsRunFirst, Ids, Node
  <2> QED
    BY <2>3, <2>4
<1>3. ASSUME Launch PROVE DepInv'
  BY <1>3, <1>t DEF Launch, DepInv, GraphTypeOK, DepsRunFirst, Waits, Running, Ids, Node
<1>4. ASSUME AskReady PROVE DepInv'
  <2>1. /\ nodes' = nodes /\ building' = building /\ ~building
        /\ ready' = get_ready_services
    BY <1>4 DEF AskReady
  <2>2. \A id \in get_ready_services : id \in Ids /\ Waits(id)
    BY DEF get_ready_services, Waits
  <2> QED
    BY <2>1, <2>2, <1>t DEF DepInv, GraphTypeOK, DepsRunFirst, Waits, Running, Ids, Node
<1>5. ASSUME NEW id \in Nat, mark_starting(id) PROVE DepInv'
  <2>1. id \in ready /\ ready' = ready \ {id} /\ building' = building
        /\ Mark(id, "Starting") /\ id \in Ids /\ Waits(id) /\ ready \subseteq Ids
    BY <1>5, <1>t DEF mark_starting, GraphTypeOK
  <2>2. ~building
    BY <2>1 DEF DepInv
  <2>3. /\ Ids' = Ids /\ nodes' \in Seq(Node') /\ nodes'[id].state = "Starting"
        /\ \A x \in Ids : nodes'[x].deps = nodes[x].deps
        /\ \A x \in Ids \ {id} : nodes'[x].state = nodes[x].state
    BY <2>1, <1>t, Marked DEF States
  <2>4. \A x \in Ids : Running(x) => Running(x)'
    BY <2>1, <2>3 DEF Running, Waits
  <2> QED
    BY <2>1, <2>2, <2>3, <2>4, <1>t, <1>n DEF DepInv, GraphTypeOK, DepsRunFirst, Waits
<1>6. ASSUME NEW id \in Nat, NEW s \in {"Running", "Failed"},
             id \in Ids, nodes[id].state = "Starting", Mark(id, s),
             building' = building, ready' = ready
      PROVE  DepInv'
  <2>1. ~building
    BY <1>6 DEF DepInv
  <2>2. id \notin ready
    BY <1>6, <1>t DEF Waits
  <2>3. /\ Ids' = Ids /\ nodes' \in Seq(Node') /\ nodes'[id].state = s
        /\ \A x \in Ids : nodes'[x].deps = nodes[x].deps
        /\ \A x \in Ids \ {id} : nodes'[x].state = nodes[x].state
    BY <1>6, <1>t, Marked DEF States
  <2>4. \A x \in Ids : Running(x) => Running(x)'
    BY <1>6, <2>3 DEF Running
  <2> QED
    BY <1>6, <2>1, <2>2, <2>3, <2>4, <1>t, <1>n DEF DepInv, GraphTypeOK, DepsRunFirst, Waits
<1>7. ASSUME UNCHANGED graphVars PROVE DepInv'
  BY <1>7, <1>t DEF graphVars, DepInv, GraphTypeOK, DepsRunFirst, Waits, Running, Ids, Node
<1> QED
  BY <1>1, <1>2, <1>3, <1>4, <1>5, <1>6, <1>7 DEF GraphNext, LaunchStep, mark_running, mark_failed

(* The inductive invariant.                                                *)
THEOREM DepCorrect == GraphSpec => []DepInv
  BY DepInit, DepNext, PTL DEF GraphSpec

(* get_ready_services and the marks never let a service start before all   *)
(* its dependencies run.                                                   *)
THEOREM DepsRunFirstTheorem == GraphSpec => []DepsRunFirst
<1>1. DepInv => DepsRunFirst
  BY DEF DepInv
<1> QED
  BY <1>1, DepCorrect, PTL

(* The dependencies that add_dependency stores are services of the graph.  *)
THEOREM DependencyTypes == GraphSpec => []GraphTypeOK
<1>1. DepInv => GraphTypeOK
  BY DEF DepInv
<1> QED
  BY <1>1, DepCorrect, PTL

(* When the client of the graph can do nothing more, what still waits is   *)
(* held up by a failure or by services that wait for one another, and      *)
(* all_completed tells whether there is any.                               *)
THEOREM StuckTheorem == GraphSpec => []StuckIsExplained
<1>1. ASSUME DepInv, Done PROVE all_completed <=> \A x \in Ids : nodes[x].state # "Pending"
  BY <1>1, NodeTypes DEF DepInv, Done, all_completed, States
<1>2. ASSUME DepInv, Done, NEW x \in Ids, nodes[x].state = "Pending"
      PROVE  \E d \in nodes[x].deps : nodes[d].state \in {"Failed", "Pending"}
  <2>1. PICK d \in nodes[x].deps : ~Running(d)
    BY <1>2 DEF Done, get_ready_services
  <2>2. d \in Ids /\ nodes[d].state \in States \ {"Running", "Starting"}
    BY <1>2, <2>1, NodeTypes DEF DepInv, Running, Done
  <2> QED
    BY <2>2 DEF States
<1>3. DepInv => StuckIsExplained
  BY <1>1, <1>2 DEF StuckIsExplained
<1> QED
  BY <1>3, DepCorrect, PTL
=============================================================================
