----------------------------- MODULE MCProcess -----------------------------
(* Instances of Process for TLC. *)
EXTENDS Process

MCPaths == {"/boot/init", "/boot/fs", "/missing"}
MCPreloaded == {"/boot/init", "/boot/fs"}
MCData == {"m"}
=============================================================================
