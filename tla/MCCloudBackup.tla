---------------------------- MODULE MCCloudBackup ----------------------------
(***************************************************************************)
(* A small instance of CloudBackup: two rows, which play the same part.    *)
(***************************************************************************)
EXTENDS CloudBackup, TLC

CONSTANTS r1, r2

TwoRows == {r1, r2}
Symmetry == Permutations(TwoRows)
==============================================================================
