---------------------------- MODULE MCBlkChannel ----------------------------
(***************************************************************************)
(* Two servers on a disk of one-byte sectors.  ERRNO is long enough for a  *)
(* whole request, so that a stale buffer could pass for one.  Bytes are    *)
(* only stored, moved and compared, so they may change places.             *)
(***************************************************************************)
EXTENDS BlkChannel, TLC

ByteSymmetry == Permutations(Byte)
=============================================================================
