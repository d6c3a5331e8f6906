------------------------- MODULE MCServiceRegistry --------------------------
(* Instance of ServiceRegistry for TLC. *)
EXTENDS ServiceRegistry

MCNames == {"fs", "init", "serial", "virtio_blk"}
MCBadNames == {""}
=============================================================================
