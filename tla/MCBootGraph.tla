---------------------------- MODULE MCBootGraph -----------------------------
(***************************************************************************)
(* parse_boot_graph on every text of at most MaxLines of these lines.      *)
(***************************************************************************)
EXTENDS BootText

Entry(k, v) == [k |-> k, v |-> v, list |-> <<>>]
DependsOn(list) == [k |-> "depends_on", v |-> "", list |-> list]

MCLines ==
  {Entry("section", "a"), Entry("section", "b"), Entry("binary", "x"), Entry("binary", ""),
   DependsOn(<<"b">>), DependsOn(<<"", "c", "a", "b">>),
   Entry("restart_policy", "always"), Entry("health_probe", "fs_ping"), Entry("launch", "fs_exec"),
   Entry("launch", "other")}
=============================================================================
