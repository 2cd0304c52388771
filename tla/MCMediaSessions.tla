--------------------------- MODULE MCMediaSessions ---------------------------
(***************************************************************************)
(* A small instance of MediaSessions: two callers of get_session and two   *)
(* transfers, one of which runs outside the handlers.  Either the former   *)
(* meet at the foreign data centre and the latter at home, or the          *)
(* transfers race there with one that holds the lock.                      *)
(***************************************************************************)
EXTENDS MediaSessions, TLC

CONSTANTS t1, t2, i1, i2

Everyone  == {t1, t2, i1, i2}
Movers    == {t1, t2}
Waited    == {t1, i1, i2}
Anywhere  == {(i1 :> 2) @@ (i2 :> 3 - d) @@ (t1 :> d) @@ (t2 :> d) : d \in {1, 2}}
==============================================================================
