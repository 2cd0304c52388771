----------------------------- MODULE MCRequests -----------------------------
(***************************************************************************)
(* Small instances of Requests.                                            *)
(***************************************************************************)
EXTENDS Requests, TLC

CONSTANTS c1, c2

OneCaller  == {c1}
TwoCallers == {c1, c2}

\* c1 may try twice, c2 once.
OneRetry == (c1 :> 1) @@ (c2 :> 0)
==============================================================================
