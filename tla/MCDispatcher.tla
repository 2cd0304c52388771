---------------------------- MODULE MCDispatcher ----------------------------
(***************************************************************************)
(* Small instances of Dispatcher.                                          *)
(***************************************************************************)
EXTENDS Dispatcher, TLC

CONSTANTS h1, h2, add, remove

TwoGroups     == {1, 2}
TwoHandlers   == {h1, h2}
TwoTasks      == {add, remove}
TwoRegistered == (1 :> <<h1, h2>>) @@ (2 :> <<>>)
\* h1 moves from the first group to the second, by two tasks in any order.
AddAndRemove  ==
    (add :> [kind |-> "add", handler |-> h1, group |-> 2])
      @@ (remove :> [kind |-> "remove", handler |-> h1, group |-> 1])
==============================================================================
