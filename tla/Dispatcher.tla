----------------------------- MODULE Dispatcher -----------------------------
(***************************************************************************)
(* The dispatcher (pyrogram/dispatcher.py): worker tasks take updates off  *)
(* a queue and try the handlers group by group, holding a lock of their    *)
(* own; add_handler and remove_handler start tasks that change the groups  *)
(* once they hold the locks of all workers; stop ends the workers, and     *)
(* start adds workers with new locks to the old ones.                      *)
(***************************************************************************)
EXTENDS Naturals, Sequences, SequencesExt

CONSTANTS
  Workers,      \* Client.workers
  Groups,       \* group numbers
  Handlers,
  Tasks,        \* tasks of add_handler and remove_handler
  Op,           \* what each does: a record of kind, handler and group
  Registered,   \* the handlers registered before the start
  MaxUpdates,   \* bound: updates
  MaxStarts     \* bound: calls of start

ASSUME WorkersAssumption == Workers \in Nat \ {0} /\ MaxStarts \in Nat \ {0} /\ MaxUpdates \in Nat
ASSUME GroupsAssumption == Groups \subseteq Nat /\ Groups # {}
ASSUME RegisteredAssumption == Registered \in [Groups -> Seq(Handlers)]
ASSUME OpAssumption ==
    Op \in [Tasks -> [kind : {"add", "remove"}, handler : Handlers, group : Groups]]

Updates == 1 .. MaxUpdates
None == 0
\* Worker w owns lock w: those of the first start, then those of the next.
AllWorkers == 1 .. Workers * MaxStarts

ASSUME TasksAssumption == Tasks \intersect AllWorkers = {}

VARIABLES
  updates_queue,  \* updates and None
  sent,           \* the number of updates put on the queue
  groups,
  locks,          \* locks_list: the tasks that hold or want each lock, in order
  pc,             \* where a worker is suspended
  job,            \* its update
  group, place,   \* the handler it has come to
  given,          \* the handlers its update was given to so far
  task, wants,    \* where a registration is; the lock it waits for
  phase,          \* of the client: "stopped", "running", "stopping"
  behaves,        \* what a handler does with an update
  called          \* history: the updates that are done, with the handlers
                  \* each was given to

work == <<pc, job, group, place, given>>
registration == <<task, wants>>
vars == <<updates_queue, sent, groups, locks, work, registration, phase, behaves, called>>

Behaviours == {"skip", "run", "continue", "stop"}
Alive == {w \in AllWorkers : pc[w] \notin {"none", "ended"}}

\* An asyncio.Lock is granted in order: its owner is the first of its queue.
Holds(t, l) == locks[l] # <<>> /\ Head(locks[l]) = t
Request(t, l) == [locks EXCEPT ![l] = Append(@, t)]

Init ==
    /\ updates_queue = <<>>
    /\ sent = 0
    /\ groups = Registered
    /\ locks = <<>>
    /\ pc = [w \in AllWorkers |-> "none"]
    /\ job = [w \in AllWorkers |-> None]
    /\ group = [w \in AllWorkers |-> 0]
    /\ place = [w \in AllWorkers |-> 0]
    /\ given = [w \in AllWorkers |-> {}]
    /\ task = [t \in Tasks |-> "idle"]
    /\ wants = [t \in Tasks |-> 0]
    /\ phase = "stopped"
    /\ behaves \in [Handlers -> Behaviours]
    /\ called = <<>>

-----------------------------------------------------------------------------
(***************************************************************************)
(* start and stop.  locks_list is never shortened.                         *)
(***************************************************************************)
Start ==
    LET n == Len(locks)
    IN  /\ phase = "stopped"
        /\ n < Workers * MaxStarts
        /\ phase' = "running"
        /\ locks' = locks \o [i \in 1 .. Workers |-> <<>>]
        /\ pc' = [w \in AllWorkers |-> IF w > n /\ w <= n + Workers THEN "get" ELSE pc[w]]
        /\ UNCHANGED <<updates_queue, sent, groups, job, group, place, given, registration, behaves, called>>

StopWith(queued, n) ==
    /\ phase = "running"
    /\ phase' = "stopping"
    /\ updates_queue' = queued \o [i \in 1 .. n |-> None]
    /\ UNCHANGED <<sent, groups, locks, work, registration, behaves, called>>

\* Mutant of Stop: what is queued is dropped.
StopDrops == StopWith(<<>>, Workers)

\* Mutant of Stop: one None too few.
StopAllButOne == StopWith(updates_queue, Workers - 1)

Stop == StopWith(updates_queue, Workers)

\* Mutant of Stopped: stop does not wait for the workers.
StoppedAtOnce ==
    /\ phase = "stopping"
    /\ phase' = "stopped"
    /\ groups' = [g \in Groups |-> <<>>]
    /\ UNCHANGED <<updates_queue, sent, locks, work, registration, behaves, called>>

Stopped ==
    /\ Alive = {}
    /\ phase = "stopping"
    /\ phase' = "stopped"
    /\ groups' = [g \in Groups |-> <<>>]
    /\ UNCHANGED <<updates_queue, sent, locks, work, registration, behaves, called>>

\* handle_updates puts an update on the queue, whatever the phase.
Send ==
    /\ sent < MaxUpdates
    /\ sent' = sent + 1
    /\ updates_queue' = Append(updates_queue, sent + 1)
    /\ UNCHANGED <<groups, locks, work, registration, phase, behaves, called>>

-----------------------------------------------------------------------------
(***************************************************************************)
(* add_handler and remove_handler.                                         *)
(***************************************************************************)
\* The task has all locks it iterated over: it changes the groups and lets
\* them go without suspending in between.
Changed(t) ==
    LET o == Op[t]
        r == groups[o.group]
    IN  IF o.kind = "add" THEN Append(r, o.handler)
        ELSE IF Contains(r, o.handler)
             THEN RemoveAt(r, CHOOSE k \in DOMAIN r : r[k] = o.handler /\ \A j \in 1 .. k - 1 : r[j] # o.handler)
             ELSE r

Apply(t) ==
    /\ groups' = [groups EXCEPT ![Op[t].group] = Changed(t)]
    /\ locks' = [l \in DOMAIN locks |-> IF Holds(t, l) THEN Tail(locks[l]) ELSE locks[l]]
    /\ task' = [task EXCEPT ![t] = "done"]
    /\ UNCHANGED wants

\* The next lock of the list, or the change.
Advance(t, l) ==
    IF l <= Len(locks)
    THEN /\ locks' = Request(t, l)
         /\ task' = [task EXCEPT ![t] = "acquire"]
         /\ wants' = [wants EXCEPT ![t] = l]
         /\ UNCHANGED groups
    ELSE Apply(t)

Begin(t) ==
    /\ task[t] = "idle"
    /\ Advance(t, 1)
    /\ UNCHANGED <<updates_queue, sent, work, phase, behaves, called>>

\* Mutant of Acquired: one lock is enough.
AcquiredOne(t) ==
    /\ task[t] = "acquire"
    /\ Holds(t, wants[t])
    /\ Apply(t)
    /\ UNCHANGED <<updates_queue, sent, work, phase, behaves, called>>

Acquired(t) ==
    /\ task[t] = "acquire"
    /\ Holds(t, wants[t])
    /\ Advance(t, wants[t] + 1)
    /\ UNCHANGED <<updates_queue, sent, work, phase, behaves, called>>

-----------------------------------------------------------------------------
(***************************************************************************)
(* handler_worker.                                                         *)
(***************************************************************************)
Take(w) ==
    LET u == Head(updates_queue)
    IN  /\ pc[w] = "get"
        /\ updates_queue # <<>>
        /\ updates_queue' = Tail(updates_queue)
        /\ pc' = [pc EXCEPT ![w] = IF u = None THEN "ended" ELSE "parse"]
        /\ job' = [job EXCEPT ![w] = u]
        /\ UNCHANGED <<sent, groups, locks, group, place, given, registration, phase, behaves, called>>

\* The update is done.
Done(w, hs) == [u \in DOMAIN called \union {job[w]} |-> IF u = job[w] THEN hs ELSE called[u]]

\* The parser may ask Telegram; an exception is logged and the update dropped.
ParseFails(w) ==
    /\ pc[w] = "parse"
    /\ pc' = [pc EXCEPT ![w] = "get"]
    /\ called' = Done(w, {})
    /\ UNCHANGED <<updates_queue, sent, groups, locks, job, group, place, given, registration, phase, behaves>>

Parsed(w) ==
    /\ pc[w] = "parse"
    /\ pc' = [pc EXCEPT ![w] = "lock"]
    /\ locks' = Request(w, w)
    /\ UNCHANGED <<updates_queue, sent, groups, job, group, place, given, registration, phase, behaves, called>>

Lowest(s) == CHOOSE g \in s : \A h \in s : g <= h

Enter(w) ==
    /\ pc[w] = "lock"
    /\ Holds(w, w)
    /\ pc' = [pc EXCEPT ![w] = "handle"]
    /\ group' = [group EXCEPT ![w] = Lowest(Groups)]
    /\ place' = [place EXCEPT ![w] = 1]
    /\ given' = [given EXCEPT ![w] = {}]
    /\ UNCHANGED <<updates_queue, sent, groups, locks, job, registration, phase, behaves, called>>

Later(w) == {g \in Groups : g > group[w]}
Current(w) == groups[group[w]][place[w]]

\* The update is done: the worker lets its lock go.
LeaveWith(w, released) ==
    /\ pc' = [pc EXCEPT ![w] = "get"]
    /\ locks' = released
    /\ called' = Done(w, given'[w])
    /\ UNCHANGED <<group, place>>

\* Mutant of Leave: the lock is kept.
LeaveLocked(w) == LeaveWith(w, locks)

Leave(w) == LeaveWith(w, [locks EXCEPT ![w] = Tail(@)])

NextGroup(w) ==
    IF Later(w) = {}
    THEN Leave(w)
    ELSE /\ group' = [group EXCEPT ![w] = Lowest(Later(w))]
         /\ place' = [place EXCEPT ![w] = 1]
         /\ UNCHANGED <<pc, locks, called>>

NextHandler(w) ==
    /\ place' = [place EXCEPT ![w] = @ + 1]
    /\ UNCHANGED <<pc, locks, group, called>>

GroupDone(w) ==
    /\ pc[w] = "handle"
    /\ place[w] > Len(groups[group[w]])
    /\ given' = given
    /\ NextGroup(w)
    /\ UNCHANGED <<updates_queue, sent, groups, job, registration, phase, behaves>>

\* Mutant of Try: a handler that was used does not end its group.
TryAll(w) ==
    /\ pc[w] = "handle"
    /\ place[w] <= Len(groups[group[w]])
    /\ LET b == behaves[Current(w)]
       IN  /\ given' = IF b = "skip" THEN given ELSE [given EXCEPT ![w] = @ \union {Current(w)}]
           /\ IF b = "stop" THEN Leave(w) ELSE NextHandler(w)
    /\ UNCHANGED <<updates_queue, sent, groups, job, registration, phase, behaves>>

\* The check and, if it succeeds, the callback: the worker suspends in both.
Try(w) ==
    /\ pc[w] = "handle"
    /\ place[w] <= Len(groups[group[w]])
    /\ LET b == behaves[Current(w)]
       IN  /\ given' = IF b = "skip" THEN given ELSE [given EXCEPT ![w] = @ \union {Current(w)}]
           /\ CASE b \in {"skip", "continue"} -> NextHandler(w)
                [] b = "run"                  -> NextGroup(w)
                [] b = "stop"                 -> Leave(w)
    /\ UNCHANGED <<updates_queue, sent, groups, job, registration, phase, behaves>>

Worker(w) == Take(w) \/ ParseFails(w) \/ Parsed(w) \/ Enter(w) \/ GroupDone(w) \/ Try(w)
Registration(t) == Begin(t) \/ Acquired(t)

Next ==
    \/ Start \/ Stop \/ Stopped \/ Send
    \/ \E t \in Tasks : Registration(t)
    \/ \E w \in AllWorkers : Worker(w)

Spec == Init /\ [][Next]_vars

\* Handlers, filters and parsers end; nobody has to call stop or start.
FairSpec ==
    /\ Spec
    /\ WF_vars(Stopped)
    /\ \A t \in Tasks : WF_vars(Acquired(t))
    /\ \A w \in AllWorkers : WF_vars(Worker(w))

-----------------------------------------------------------------------------
(***************************************************************************)
(* Properties.                                                             *)
(***************************************************************************)
\* Types; every worker that was started has its lock in the list.
TypeOK ==
    /\ \A w \in AllWorkers : pc[w] # "none" <=> w \in DOMAIN locks
    /\ updates_queue \in Seq(Updates \union {None})
    /\ sent \in 0 .. MaxUpdates
    /\ groups \in [Groups -> Seq(Handlers)]
    /\ locks \in Seq(Seq(AllWorkers \union Tasks))
    /\ pc \in [AllWorkers -> {"none", "get", "parse", "lock", "handle", "ended"}]
    /\ job \in [AllWorkers -> Updates \union {None}]
    /\ group \in [AllWorkers -> Groups \union {0}]
    /\ place \in [AllWorkers -> Nat]
    /\ given \in [AllWorkers -> SUBSET Handlers]
    /\ task \in [Tasks -> {"idle", "acquire", "done"}]
    /\ wants \in [Tasks -> Nat]
    /\ phase \in {"stopped", "running", "stopping"}
    /\ behaves \in [Handlers -> Behaviours]
    /\ DOMAIN called \subseteq Updates
    /\ \A u \in DOMAIN called : called[u] \subseteq Handlers

\* The groups never change while a worker is going through them.
RegistryStable == [][groups' # groups => \A w \in AllWorkers : pc[w] # "handle"]_vars

\* An update is given to handlers as if in one moment (refinement).
Atomic == INSTANCE AtomicDispatch WITH
            Groups   <- Groups,
            Handlers <- Handlers,
            Updates  <- Updates,
            groups   <- groups,
            behaves  <- behaves,
            called   <- called
DispatchSpec == Atomic!Spec

\* An update that was sent is on the queue, with one worker, or done: none is
\* lost or taken twice over a stop and a new start. (Types are as in TypeOK.)
Occurrences(u) == {i \in DOMAIN updates_queue : updates_queue[i] = u}
With(u) == {w \in AllWorkers : job[w] = u /\ pc[w] \in {"parse", "lock", "handle"}}
EachUpdateOnce ==
    /\ TypeOK
    /\ \A u \in 1 .. sent :
         \/ u \notin DOMAIN called /\ \E i \in Occurrences(u) : Occurrences(u) = {i} /\ With(u) = {}
         \/ u \notin DOMAIN called /\ \E w \in With(u) : With(u) = {w} /\ Occurrences(u) = {}
         \/ u \in DOMAIN called /\ Occurrences(u) = {} /\ With(u) = {}

\* Handlers are registered and removed, and stop ends, beside other such
\* tasks and workers that wait for one another's locks.
RegistrationsEnd == \A t \in Tasks : (task[t] # "idle") ~> (task[t] = "done")
StopEnds == (phase = "stopping") ~> (phase = "stopped")
==============================================================================
