--------------------------- MODULE MCSnapshotCow ---------------------------
(***************************************************************************)
(* Bounds for SnapshotCow.  The contents of a block are interchangeable.    *)
(***************************************************************************)
EXTENDS SnapshotCow, Functions, TLC

CONSTANTS
  old, new,   \* two contents of a block
  MaxRecords  \* bound: records in the overlays together

MCValues == {old, new}

Symmetry == Permutations(MCValues)

FewRecords ==
  FoldFunction(LAMBDA f, n : Len(f.records) + n, 0, overlay) <= MaxRecords
=============================================================================
