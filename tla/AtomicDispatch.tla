--------------------------- MODULE AtomicDispatch ---------------------------
(***************************************************************************)
(* What the dispatcher promises of an update: the handlers it is given to  *)
(* are those of the registry at one moment.  "At most one handler within a *)
(* group will be used for a single update" (add_handler.py): the first one *)
(* that matches, unless it lets the update continue; none after a handler  *)
(* that stops the propagation.                                             *)
(***************************************************************************)
EXTENDS Naturals, Sequences

CONSTANTS Groups,     \* group numbers
          Handlers,
          Updates

VARIABLES groups,     \* the handlers of each group, in order
          behaves,    \* what a handler does with an update
          called      \* the updates that are done: the handlers each was given to

dispatchVars == <<groups, behaves, called>>

\* It does not match; it matches and runs (or raises); it raises
\* ContinuePropagation; it raises StopPropagation.
Behaviours == {"skip", "run", "continue", "stop"}

\* An earlier handler of its group was used.
Used(reg, b, g, k) == \E j \in 1 .. k - 1 : b[reg[g][j]] = "run"

\* An earlier handler stopped the propagation.
Stopped(reg, b, g, k) ==
    \E h \in Groups : \E j \in DOMAIN reg[h] :
      /\ h < g \/ (h = g /\ j < k)
      /\ b[reg[h][j]] = "stop"
      /\ ~Used(reg, b, h, j)

\* The handlers that an update is given to.
Given(reg, b) ==
    {x \in Handlers : \E g \in Groups : \E k \in DOMAIN reg[g] :
       /\ reg[g][k] = x
       /\ b[x] # "skip"
       /\ ~Used(reg, b, g, k)
       /\ ~Stopped(reg, b, g, k)}

Init ==
    /\ groups \in [Groups -> Seq(Handlers)]
    /\ behaves \in [Handlers -> Behaviours]
    /\ called = <<>>

Register ==
    /\ groups' \in [Groups -> Seq(Handlers)]
    /\ UNCHANGED <<behaves, called>>

\* Nothing is called for an update that cannot be parsed.
Handle(u) ==
    /\ u \notin DOMAIN called
    /\ \E given \in {{}, Given(groups, behaves)} :
         called' = [v \in DOMAIN called \union {u} |-> IF v = u THEN given ELSE called[v]]
    /\ UNCHANGED <<groups, behaves>>

Next == Register \/ \E u \in Updates : Handle(u)

Spec == Init /\ [][Next]_dispatchVars
==============================================================================
