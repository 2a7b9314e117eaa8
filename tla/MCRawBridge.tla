---------------------------- MODULE MCRawBridge ----------------------------
(***************************************************************************)
(* Bounds for RawBridge: two kernel stacks and two uio structures, a medium *)
(* of two units and a zone of two after it.                                 *)
(***************************************************************************)
EXTENDS RawBridge, TLC

CONSTANTS k1, k2, u1, u2

MCKeys == {k1, k2}
MCUios == {u1, u2}

(* Nothing tells one stack, or one uio, from another.                       *)
Alike == Permutations(MCKeys) \cup Permutations(MCUios)
=============================================================================
