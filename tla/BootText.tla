------------------------------ MODULE BootText ------------------------------
(***************************************************************************)
(* The text of boot.toml as it grows line by line, and what it says: a     *)
(* description of the boot graph that does not read the text in order, to  *)
(* compare parse_boot_graph with.                                          *)
(***************************************************************************)
EXTENDS BootGraph

CONSTANTS TextLines,  \* the lines that a text may have
          MaxLines    \* bound: lines of a text

ASSUME TextAssumption == TextLines \subseteq Lines

VARIABLE text

TextInit == text = <<>>

TextNext == Len(text) < MaxLines /\ \E line \in TextLines : text' = Append(text, line)

TextSpec == TextInit /\ [][TextNext]_text

-----------------------------------------------------------------------------
(* The place of p in the set S of numbers, and the first max members of S. *)
Rank(S, p) == Cardinality({q \in S : q <= p})

Leading(S, max) == {p \in S : Rank(S, p) <= max}

(* Lines that start a section, and the lines of the section at line p.     *)
Heads(t) == {p \in DOMAIN t : t[p].k = "section"}

Body(t, p) == {q \in DOMAIN t : q > p /\ \A h \in Heads(t) : h <= p \/ h > q}

(* The lines in it that give a key; the last one counts.                   *)
Given(t, p, key) == {q \in Body(t, p) : t[q].k = key}

Value(t, p, key, default) ==
  IF Given(t, p, key) = {} THEN default ELSE t[Max(Given(t, p, key))].v

(* The first MAX_DEPS names of a list.                                     *)
FirstNames(list) ==
  LET kept == Leading({q \in DOMAIN list : list[q] # NoName}, MAX_DEPS)
  IN  [n \in 1 .. Cardinality(kept) |-> list[CHOOSE q \in kept : Rank(kept, q) = n]]

DepNames(t, p) ==
  IF Given(t, p, "depends_on") = {} THEN <<>>
  ELSE FirstNames(t[Max(Given(t, p, "depends_on"))].list)

(* What the section at line p says of its service.                         *)
Said(t, p) ==
  [valid |-> TRUE, name |-> t[p].v, binary |-> Value(t, p, "binary", NoName),
   dep_names |-> DepNames(t, p), dep_mask |-> {},
   restart_policy |-> parse_policy(Value(t, p, "restart_policy", "one-shot")),
   health_probe |-> parse_probe(Value(t, p, "health_probe", "none")),
   launch_mode |-> IF Value(t, p, "launch", "spawn") = "fs_exec" THEN "fs_exec" ELSE "spawn"]

(* The sections that make a service, and those that there is room for.     *)
Complete(t) == {p \in Heads(t) : t[p].v # NoName /\ Value(t, p, "binary", NoName) # NoName}

Kept(t) == Leading(Complete(t), MAX_SERVICES)

(* The services that p waits for: of each name the first.                  *)
Deps(t, p) ==
  {Rank(Kept(t), g) : g \in {h \in Kept(t) : /\ t[h].v \in Range(DepNames(t, p))
                                             /\ \A f \in Kept(t) : t[f].v = t[h].v => h <= f}}

(* What parse_boot_graph computes is what the text says: one service per   *)
(* section with a binary, the first MAX_SERVICES of them, in order; every  *)
(* key has the last value its section gives it or the default, whatever    *)
(* earlier sections said; and a service waits for exactly the services     *)
(* that its first MAX_DEPS dependencies name.                              *)
ParseIsDeclarative ==
  LET graph == parse_boot_graph(text)
  IN  /\ Len(graph) = Cardinality(Kept(text))
      /\ \A p \in Kept(text) :
           graph[Rank(Kept(text), p)] = [Said(text, p) EXCEPT !.dep_mask = Deps(text, p)]

(* Reading on never takes back a service: lines added at the end of the    *)
(* text may complete the last section and resolve dependencies, but every  *)
(* finished service keeps its position, its keys and the dependencies it   *)
(* had.                                                                    *)
KeepsServices(old, new) ==
  \A n \in DOMAIN old :
    /\ n \in DOMAIN new
    /\ new[n] = [old[n] EXCEPT !.dep_mask = new[n].dep_mask]
    /\ old[n].dep_mask \subseteq new[n].dep_mask

ParseIsStable ==
  [][KeepsServices(resolve_dep_mask(Parsed(text).out), parse_boot_graph(text'))]_text
=============================================================================
