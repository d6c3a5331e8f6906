----------------------------- MODULE BootGraph ------------------------------
(***************************************************************************)
(* How init reads boot.toml: parse_boot_graph and its helpers              *)
(* (apps/init/src/main.rs).  A configuration is the sequence of its lines  *)
(* as clean_line, parse_service_section_name and parse_kv classify them:   *)
(* k is "section" or the key, v the section's name or the value, list a    *)
(* depends_on value split at its commas.  Any other line has another k.    *)
(* Names and paths are shorter than MAX_NAME and MAX_BINARY.               *)
(***************************************************************************)
EXTENDS Integers, Sequences, FiniteSetsExt

CONSTANTS
  MAX_SERVICES,   \* services kept, and slots of init's registry
  MAX_DEPS        \* dependencies kept per service

(* What the parser cuts a line into, and the string of length 0.           *)
Word == STRING
NoName == ""

ASSUME BootGraphAssumption == MAX_SERVICES \in Nat /\ MAX_DEPS \in Nat /\ NoName \in Word

Lines == [k : Word, v : Word, list : Seq(Word)]

(* dep_mask is the set of the positions whose bits are set.                *)
EmptySpec ==
  [valid |-> FALSE, name |-> NoName, binary |-> NoName, dep_names |-> <<>>, dep_mask |-> {},
   restart_policy |-> "one-shot", health_probe |-> "none", launch_mode |-> "spawn"]

(* Empty items are skipped, and so is everything after MAX_DEPS names.     *)
AddDep(names, dep) ==
  IF dep = NoName \/ Len(names) >= MAX_DEPS THEN names ELSE Append(names, dep)

parse_dep_list(list) ==
  LET names[n \in 0 .. Len(list)] == IF n = 0 THEN <<>> ELSE AddDep(names[n - 1], list[n])
  IN  names[Len(list)]

parse_policy(v) == IF v \in {"always", "on-failure"} THEN v ELSE "one-shot"

parse_probe(v) == IF v \in {"fs_ping", "blk_ping"} THEN v ELSE "none"

SetKey(cur, line) ==
  CASE line.k = "binary"         -> [cur EXCEPT !.binary = line.v]
    [] line.k = "depends_on"     -> [cur EXCEPT !.dep_names = parse_dep_list(line.list)]
    [] line.k = "restart_policy" -> [cur EXCEPT !.restart_policy = parse_policy(line.v)]
    [] line.k = "health_probe"   -> [cur EXCEPT !.health_probe = parse_probe(line.v)]
    [] line.k = "launch"         ->
         [cur EXCEPT !.launch_mode = IF line.v = "fs_exec" THEN "fs_exec" ELSE "spawn"]
    [] OTHER -> cur

finish_spec(out, cur) ==
  IF ~cur.valid \/ cur.name = NoName \/ cur.binary = NoName \/ Len(out) >= MAX_SERVICES
  THEN out ELSE Append(out, cur)

(* A section that does not start from an empty specification. *)
ParseLineBug(st, line) ==
  IF line.k = "section"
  THEN [out |-> finish_spec(st.out, st.cur),
        cur |-> [st.cur EXCEPT !.valid = TRUE, !.name = line.v]]
  ELSE IF st.cur.valid THEN [st EXCEPT !.cur = SetKey(@, line)] ELSE st

(* One turn of the loop over the lines; in_service is cur.valid.           *)
ParseLine(st, line) ==
  IF line.k = "section"
  THEN [out |-> finish_spec(st.out, st.cur),
        cur |-> [EmptySpec EXCEPT !.valid = TRUE, !.name = line.v]]
  ELSE IF st.cur.valid THEN [st EXCEPT !.cur = SetKey(@, line)] ELSE st

(* A search that goes on after the first service of the name. *)
resolve_dep_maskBug(specs) ==
  LET Named(d) == {j \in DOMAIN specs : specs[j].name = d}
      Mask(names) == {Max(Named(d)) : d \in {e \in Range(names) : Named(e) # {}}}
  IN  [i \in DOMAIN specs |-> [specs[i] EXCEPT !.dep_mask = Mask(specs[i].dep_names)]]

(* A dependency is the first service of that name; one that names no       *)
(* service is dropped.                                                     *)
resolve_dep_mask(specs) ==
  LET Named(d) == {j \in DOMAIN specs : specs[j].name = d}
      Mask(names) == {Min(Named(d)) : d \in {e \in Range(names) : Named(e) # {}}}
  IN  [i \in DOMAIN specs |-> [specs[i] EXCEPT !.dep_mask = Mask(specs[i].dep_names)]]

(* The loop over the lines.                                                *)
Parsed(config) ==
  LET after[n \in 0 .. Len(config)] ==
        IF n = 0 THEN [out |-> <<>>, cur |-> EmptySpec] ELSE ParseLine(after[n - 1], config[n])
  IN  after[Len(config)]

parse_boot_graph(config) ==
  resolve_dep_mask(finish_spec(Parsed(config).out, Parsed(config).cur))
=============================================================================
