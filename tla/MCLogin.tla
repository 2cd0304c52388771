------------------------------- MODULE MCLogin -------------------------------
(***************************************************************************)
(* Small instances of Login.                                               *)
(***************************************************************************)
EXTENDS Login, TLC

CONSTANTS a, b, w1, w2

OneUser  == {a}
TwoUsers == {a, b}
TwoWorkers == {w1, w2}
WorkerSymmetry == Permutations(Workers)
==============================================================================
