-------------------------- MODULE MCVirtioBlkDisk ---------------------------
(* Three sectors of two bytes, buffers of up to four bytes: a transfer can *)
(* begin and end inside a sector, cover one whole and run off the end.     *)
EXTENDS VirtioBlkDisk

MCByte == {0, 1}
=============================================================================
