----------------------------- MODULE FileStream -----------------------------
(***************************************************************************)
(* What download_media promises of the file it writes, whatever the order  *)
(* in which the chunks arrive: the chunks 0 .. LastChunk are appended in    *)
(* order, each once, and once the outcome is known the file is final.      *)
(***************************************************************************)
EXTENDS Naturals, Sequences

CONSTANT LastChunk   \* a natural number: the chunks of the file are 0 .. LastChunk

VARIABLES written,   \* the chunks in the file so far
          outcome    \* what the caller gets

streamVars == <<written, outcome>>

\* A path, None or an exception.
Outcomes == {"path", "none", "raised"}

Init == written = <<>> /\ outcome = "running"

Deliver ==
    /\ outcome = "running"
    /\ Len(written) <= LastChunk
    /\ written' = Append(written, Len(written))
    /\ UNCHANGED outcome

End ==
    /\ outcome = "running"
    /\ outcome' \in Outcomes
    /\ UNCHANGED written

Next == Deliver \/ End

Spec == Init /\ [][Next]_streamVars
==============================================================================
