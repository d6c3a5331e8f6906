---------------------------- MODULE MCFsClients -----------------------------
(* Calls enough for the late answer to a first to be taken for that to a   *)
(* second, and that one's for the answer to a third.                       *)
EXTENDS FsClients
=============================================================================
