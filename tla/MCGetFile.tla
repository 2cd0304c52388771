------------------------------ MODULE MCGetFile ------------------------------
(***************************************************************************)
(* Small instances of GetFile.                                             *)
(***************************************************************************)
EXTENDS GetFile

CONSTANTS w1, w2, w3

OneWorker    == {w1}
TwoWorkers   == {w1, w2}
ThreeWorkers == {w1, w2, w3}
==============================================================================
