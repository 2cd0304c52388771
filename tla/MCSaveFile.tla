----------------------------- MODULE MCSaveFile -----------------------------
(***************************************************************************)
(* Small instances of SaveFile.                                            *)
(***************************************************************************)
EXTENDS SaveFile

CONSTANTS w1, w2, w3

TwoWorkers   == {w1, w2}
ThreeWorkers == {w1, w2, w3}
==============================================================================
