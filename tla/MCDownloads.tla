----------------------------- MODULE MCDownloads -----------------------------
(***************************************************************************)
(* Small instances of Downloads: rows, tables and update sets from which   *)
(* the .cfg files choose.                                                  *)
(***************************************************************************)
EXTENDS Downloads, TLC

CONSTANTS a, b, w1, w2, w3

OneUser  == {a}
TwoUsers == {a, b}
TwoWorkers   == {w1, w2}
ThreeWorkers == {w1, w2, w3}
WorkerSymmetry == Permutations(Workers)

\* A user of some role who logged in or did not, after /start on day 1.
Known(role, session) ==
    [NewRow(1) EXCEPT !.role = role, !.phone_session_string = session,
                      !.is_agreed_terms = TRUE]

Cmd(cmd, u)    == [cmd |-> cmd, user |-> u, link |-> "invalid", role |-> "free", days |-> 0]
LinkOf(u, l)   == [Cmd("link", u) EXCEPT !.link = l]
RoleOf(u, r, d) == [Cmd("setrole", u) EXCEPT !.role = r, !.days = d]

\* Contention: an admin with a session and a user without one.
AdminAndGuest == {[u \in Users |-> IF u = a THEN Known("admin", TRUE) ELSE Known("admin", FALSE)]}
SlotCommands  == {LinkOf(u, l) : u \in Users, l \in {"private"}}
                    \cup {LinkOf(a, "public"), Cmd("killall", a), Cmd("cancel", a)}

\* Quota: one free user who is logged in, around midnight; the admin grants
\* and withdraws a one-day premium.
FreeUser      == {[u \in Users |-> Known("free", TRUE)]}
QuotaCommands == {LinkOf(a, l) : l \in {"public", "story"}}
                    \cup {Cmd("cancel", a), RoleOf(a, "premium", 1)}

\* Progress: a guest, an unknown user who is the owner, every kind of update
\* that holds a worker.
GuestAndOwner == {[u \in Users |-> IF u = a THEN Known("free", FALSE) ELSE NoRow]}
LiveCommands  == {LinkOf(a, "public"), LinkOf(b, "public"), LinkOf(b, "invalid"),
                  Cmd("ban", a), Cmd("killall", b)}

AnyOutcome    == BOOLEAN
DbWorks       == {TRUE}
==============================================================================
