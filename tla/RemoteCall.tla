----------------------------- MODULE RemoteCall -----------------------------
(***************************************************************************)
(* What Session.invoke promises its callers, whatever the network does: a  *)
(* call ends once; if it returns a value, the server computed that value   *)
(* for this call; and the server executes a call Attempts[c] times at most,*)
(* even if it has ended meanwhile.                                         *)
(***************************************************************************)
EXTENDS Naturals, FiniteSets

CONSTANTS Callers,    \* the calls
          Values,     \* what the server can compute: each value once
          Attempts    \* the executions a call may cause

VARIABLES produced,   \* the values the server computed for each call
          outcome,    \* how each call ended
          got         \* the value it returned, or 0

callVars == <<produced, outcome, got>>

Failures == {"raised", "notice", "cancelled"}

Init ==
    /\ produced = [c \in Callers |-> {}]
    /\ outcome = [c \in Callers |-> "none"]
    /\ got = [c \in Callers |-> 0]

Execute(c) ==
    /\ Cardinality(produced[c]) < Attempts[c]
    /\ \E v \in Values \ UNION {produced[d] : d \in Callers} :
         produced' = [produced EXCEPT ![c] = @ \union {v}]
    /\ UNCHANGED <<outcome, got>>

Return(c) ==
    /\ outcome[c] = "none"
    /\ outcome' = [outcome EXCEPT ![c] = "result"]
    /\ \E v \in produced[c] : got' = [got EXCEPT ![c] = v]
    /\ UNCHANGED produced

Fail(c) ==
    /\ outcome[c] = "none"
    /\ \E f \in Failures : outcome' = [outcome EXCEPT ![c] = f]
    /\ UNCHANGED <<produced, got>>

Next == \E c \in Callers : Execute(c) \/ Return(c) \/ Fail(c)

Spec == Init /\ [][Next]_callVars
==============================================================================
