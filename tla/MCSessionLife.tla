--------------------------- MODULE MCSessionLife ---------------------------
(***************************************************************************)
(* Small instances of SessionLife.                                         *)
(***************************************************************************)
EXTENDS SessionLife
==============================================================================
