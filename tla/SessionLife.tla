---------------------------- MODULE SessionLife ----------------------------
(***************************************************************************)
(* The life of a Session (session/session.py): start, stop and restart,    *)
(* recv_worker and ping_worker.  Whoever finds the connection gone starts  *)
(* a restart of its own, and all of them share the attributes connection,  *)
(* recv_task, ping_task, ping_task_event and is_started.                   *)
(*                                                                         *)
(* Calls of start, stop and restart are tasks; connections, receive tasks  *)
(* and ping tasks are numbered in the order in which they are made.  Every *)
(* await is a suspension, also when what it waits for is there already.    *)
(* The names are other ones than those of Requests, the rest of Session.   *)
(***************************************************************************)
EXTENDS Naturals, FiniteSets

CONSTANTS
  MaxTasks,     \* bound: calls of start, stop and restart
  MaxConns,     \* bound: connections
  MaxFailures   \* bound: failures of the network

ASSUME LifeBounds == {MaxTasks, MaxConns, MaxFailures} \subseteq Nat \ {0}

Tasks == 1 .. MaxTasks
Conns == 1 .. MaxConns

VARIABLES
  task,         \* where a task is suspended
  then,         \* what it does when it has stopped the session
  waits,        \* the connection or task it waits for, 0 if there is none
  answered,     \* its message was answered
  connection,   \* self.connection
  net,          \* the state of each connection
  recv_task, ping_task,   \* the latest ones, or 0
  reader,       \* the state of each receive task
  reads,        \* the connection it reads
  pinger,       \* the state of each ping task
  ping_event,   \* ping_task_event
  is_started,
  failures,     \* history: for the bound
  overlapped,   \* history: two tasks were under way at once
  fatal         \* history: the server rejected the key

life == <<task, then, waits, answered>>
recv == <<recv_task, reader, reads>>
ping == <<ping_task, pinger>>
history == <<failures, overlapped, fatal>>
lifeVars == <<life, connection, net, recv, ping, ping_event, is_started, history>>

Over == {"idle", "ended", "failed"}
Active(t) == task[t] \notin Over

\* The client calls start.
LifeInit ==
    /\ task = [t \in Tasks |-> IF t = 1 THEN "connect" ELSE "idle"]
    /\ then = [t \in Tasks |-> "start"]
    /\ waits = [t \in Tasks |-> IF t = 1 THEN 1 ELSE 0]
    /\ answered = [t \in Tasks |-> FALSE]
    /\ connection = 1
    /\ net = [c \in Conns |-> IF c = 1 THEN "new" ELSE "none"]
    /\ recv_task = 0 /\ ping_task = 0
    /\ reader = [r \in Conns |-> "none"]
    /\ reads = [r \in Conns |-> 0]
    /\ pinger = [p \in Conns |-> "none"]
    /\ ping_event = FALSE
    /\ is_started = FALSE
    /\ failures = 0 /\ overlapped = FALSE /\ fatal = FALSE

Failure == failures < MaxFailures /\ failures' = failures + 1

\* A task is created: it runs later.
Create(what) ==
    \E t \in Tasks :
      /\ task[t] = "idle"
      /\ \A s \in Tasks : task[s] = "idle" => t <= s
      /\ task' = [task EXCEPT ![t] = "stop"]
      /\ then' = [then EXCEPT ![t] = what]
      /\ overlapped' = (overlapped \/ \E s \in Tasks : Active(s))

Goto(t, where, what) ==
    /\ task' = [task EXCEPT ![t] = where]
    /\ waits' = [waits EXCEPT ![t] = what]
    /\ answered' = [answered EXCEPT ![t] = FALSE]

-----------------------------------------------------------------------------
(***************************************************************************)
(* stop.                                                                   *)
(***************************************************************************)
\* The event ends a ping task that waits for it; one that sends sees it later.
BeginStop(t) ==
    /\ is_started' = FALSE
    /\ ping_event' = TRUE
    /\ pinger' = [p \in Conns |-> IF pinger[p] = "waiting" THEN "woken" ELSE pinger[p]]
    /\ Goto(t, "ping", ping_task)

Stop(t) ==
    /\ task[t] = "stop"
    /\ BeginStop(t)
    /\ UNCHANGED <<then, connection, net, recv, ping_task, history>>

\* Closing a connection that is not open yet does nothing.
ThenClose(t, closed) ==
    /\ task[t] = "ping"
    /\ waits[t] # 0 => pinger[waits[t]] = "ended"
    /\ ping_event' = FALSE
    /\ net' = [net EXCEPT ![connection] = IF @ = "new" THEN @ ELSE closed]
    /\ Goto(t, "close", 0)
    /\ UNCHANGED <<then, connection, recv, ping, is_started, history>>

\* Mutant of AwaitPing: the connection is not closed.
AwaitPingOnly(t) == ThenClose(t, net[connection])

AwaitPing(t) == ThenClose(t, "closed")

ThenAwait(t, latest) ==
    /\ task[t] = "close"
    /\ Goto(t, "recv", latest)
    /\ UNCHANGED <<then, connection, net, recv, ping, ping_event, is_started, history>>

\* Mutant of AwaitClose: the receive task is not awaited.
AwaitCloseOnly(t) == ThenAwait(t, 0)

AwaitClose(t) == ThenAwait(t, recv_task)

\* The head of the loop of start.
Connect(t) ==
    \E c \in Conns :
      /\ net[c] = "none"
      /\ \A d \in Conns : net[d] = "none" => c <= d
      /\ net' = [net EXCEPT ![c] = "new"]
      /\ connection' = c
      /\ Goto(t, "connect", c)

\* What the receive task raised is raised here, in the middle of a restart.
\* The handler that stop would await next is the client's disconnect_handler,
\* which nothing in this program sets (None, client.py:347).
AwaitRecv(t) ==
    /\ task[t] = "recv"
    /\ waits[t] # 0 => reader[waits[t]] \in {"ended", "died"}
    /\ CASE waits[t] # 0 /\ reader[waits[t]] = "died" ->
              Goto(t, "failed", 0) /\ UNCHANGED <<net, connection>>
         [] then[t] = "start" -> Connect(t)
         [] then[t] = "end"   -> Goto(t, "ended", 0) /\ UNCHANGED <<net, connection>>
         [] OTHER             -> Goto(t, "failed", 0) /\ UNCHANGED <<net, connection>>
    /\ UNCHANGED <<then, recv, ping, ping_event, is_started, history>>

-----------------------------------------------------------------------------
(***************************************************************************)
(* start.  A message goes to the connection of the moment, not to the one  *)
(* the task has made.                                                      *)
(***************************************************************************)
\* What is sent before the connection is open vanishes.
Target(n) == IF n[connection] = "open" THEN connection ELSE 0

Connected(t) ==
    LET r == recv_task + 1
    IN  /\ task[t] = "connect"
        /\ r \in Conns
        /\ net' = [net EXCEPT ![waits[t]] = "open"]
        /\ recv_task' = r
        /\ reader' = [reader EXCEPT ![r] = "begin"]
        /\ Goto(t, "hello", Target(net'))
        /\ UNCHANGED <<then, connection, reads, ping, ping_event, is_started, history>>

ConnectFails(t) ==
    /\ task[t] = "connect"
    /\ Failure
    /\ BeginStop(t)
    /\ UNCHANGED <<then, connection, net, recv, ping_task, overlapped, fatal>>

Greeting(t) == task[t] \in {"hello", "config"}

\* After Ping comes InitConnection, after that the session is started.
Proceed(t) ==
    /\ Greeting(t)
    /\ answered[t]
    /\ IF task[t] = "hello"
       THEN Goto(t, "config", Target(net)) /\ UNCHANGED <<ping, is_started>>
       ELSE LET p == ping_task + 1
            IN  /\ p \in Conns
                /\ ping_task' = p
                /\ pinger' = [pinger EXCEPT ![p] = IF ping_event THEN "ended" ELSE "waiting"]
                /\ is_started' = TRUE
                /\ Goto(t, "ended", 0)
    /\ UNCHANGED <<then, connection, net, recv, ping_event, history>>

\* Some task reads, or is about to read, where the answer comes.
CanBeAnswered(t) ==
    /\ waits[t] # 0
    /\ net[waits[t]] = "open"
    /\ \E r \in Conns : \/ reader[r] = "reading" /\ reads[r] = waits[t]
                        \/ reader[r] = "begin" /\ connection = waits[t]

NoAnswer(t) ==
    /\ Greeting(t)
    /\ ~answered[t]
    /\ IF CanBeAnswered(t) THEN Failure ELSE UNCHANGED failures
    /\ BeginStop(t)
    /\ UNCHANGED <<then, connection, net, recv, ping_task, overlapped, fatal>>

\* AuthKeyDuplicated or Unauthorized: the session is stopped for good.
Rejected(t) ==
    /\ Greeting(t)
    /\ ~answered[t] /\ CanBeAnswered(t)
    /\ Failure
    /\ fatal' = TRUE
    /\ BeginStop(t)
    /\ then' = [then EXCEPT ![t] = "raise"]
    /\ UNCHANGED <<connection, net, recv, ping_task, overlapped>>

-----------------------------------------------------------------------------
(***************************************************************************)
(* recv_worker.                                                            *)
(***************************************************************************)
\* The loop looks at self.connection again for each packet.  Reading before
\* the connection is open, or where another task reads, raises.
Read(r) ==
    /\ reader[r] = "begin"
    /\ IF \/ net[connection] = "new"
          \/ \E q \in Conns : reader[q] = "reading" /\ reads[q] = connection
       THEN reader' = [reader EXCEPT ![r] = "died"] /\ UNCHANGED reads
       ELSE /\ reader' = [reader EXCEPT ![r] = "reading"]
            /\ reads' = [reads EXCEPT ![r] = connection]
    /\ UNCHANGED <<life, connection, net, recv_task, ping, ping_event, is_started, history>>

Reading(r, states) == reader[r] = "reading" /\ net[reads[r]] \in states

\* A packet with the answer to a message of start.
Answer(r) ==
    /\ Reading(r, {"open"})
    /\ \E t \in Tasks :
         /\ Greeting(t) /\ ~answered[t] /\ waits[t] = reads[r]
         /\ answered' = [answered EXCEPT ![t] = TRUE]
    /\ reader' = [reader EXCEPT ![r] = "begin"]
    /\ UNCHANGED <<task, then, waits, connection, net, recv_task, reads, ping, ping_event, is_started, history>>

\* A packet that handle_packet cannot unpack starts a restart.
BadPacket(r) ==
    /\ Reading(r, {"open"})
    /\ Failure
    /\ Create("start")
    /\ reader' = [reader EXCEPT ![r] = "begin"]
    /\ UNCHANGED <<waits, answered, connection, net, recv_task, reads, ping, ping_event, is_started, fatal>>

\* Any other packet.
Packet(r) ==
    /\ Reading(r, {"open"})
    /\ reader' = [reader EXCEPT ![r] = "begin"]
    /\ UNCHANGED <<life, connection, net, recv_task, reads, ping, ping_event, is_started, history>>

FinishIf(r, restart) ==
    /\ reader' = [reader EXCEPT ![r] = "ended"]
    /\ IF restart THEN Create("start") ELSE UNCHANGED <<task, then, overlapped>>
    /\ UNCHANGED <<waits, answered, connection, net, recv_task, reads, ping, ping_event, is_started, fatal>>

\* Mutant of Finish: it is left to the ping task to notice.
FinishOnly(r) == FinishIf(r, FALSE)

\* recv returns None: a restart, unless the session is being stopped or started.
Finish(r) == FinishIf(r, is_started)

EndOfStream(r) ==
    /\ Reading(r, {"broken", "closed"})
    /\ Finish(r)
    /\ UNCHANGED failures

\* No packet for TCP.TIMEOUT, far longer than an answer takes to be handled.
Silence(r) ==
    /\ Reading(r, {"open"})
    /\ \A t \in Tasks : Greeting(t) => ~answered[t]
    /\ Failure
    /\ Finish(r)

\* Transport error 404: the task raises Unauthorized and nobody notices.
KeyNotFound(r) ==
    /\ Reading(r, {"open"})
    /\ Failure
    /\ fatal' = TRUE
    /\ reader' = [reader EXCEPT ![r] = "died"]
    /\ UNCHANGED <<life, connection, net, recv_task, reads, ping, ping_event, is_started, overlapped>>

-----------------------------------------------------------------------------
(***************************************************************************)
(* ping_worker.                                                            *)
(***************************************************************************)
Tick(p) ==
    /\ pinger[p] = "waiting"
    /\ pinger' = [pinger EXCEPT ![p] = "sending"]
    /\ UNCHANGED <<life, connection, net, recv, ping_task, ping_event, is_started, history>>

PingGoesThen(p, next) ==
    /\ pinger[p] = "sending"
    /\ net[connection] # "closed"
    /\ pinger' = [pinger EXCEPT ![p] = next]
    /\ UNCHANGED <<life, connection, net, recv, ping_task, ping_event, is_started, history>>

\* Mutant of PingGoes: an event that was set during the send is missed.
PingGoesOn(p) == PingGoesThen(p, "waiting")

PingGoes(p) == PingGoesThen(p, IF ping_event THEN "ended" ELSE "waiting")

PingFails(p) ==
    /\ pinger[p] = "sending"
    /\ net[connection] \in {"broken", "closed"}
    /\ pinger' = [pinger EXCEPT ![p] = "ended"]
    /\ Create("start")
    /\ UNCHANGED <<waits, answered, connection, net, recv, ping_task, ping_event, is_started, failures, fatal>>

Woken(p) ==
    /\ pinger[p] = "woken"
    /\ pinger' = [pinger EXCEPT ![p] = "ended"]
    /\ UNCHANGED <<life, connection, net, recv, ping_task, ping_event, is_started, history>>

-----------------------------------------------------------------------------
Breaks(c) ==
    /\ net[c] = "open"
    /\ Failure
    /\ net' = [net EXCEPT ![c] = "broken"]
    /\ UNCHANGED <<life, connection, recv, ping, ping_event, is_started, overlapped, fatal>>

\* The client is disconnected, once.
Disconnect ==
    /\ task[1] = "ended"
    /\ \A t \in Tasks : then[t] # "end"
    /\ Create("end")
    /\ UNCHANGED <<waits, answered, connection, net, recv, ping, ping_event, is_started, failures, fatal>>

TaskStep(t) ==
    Stop(t) \/ AwaitPing(t) \/ AwaitClose(t) \/ AwaitRecv(t) \/ Connected(t) \/ Proceed(t)
ReaderStep(r) == Read(r) \/ Answer(r) \/ EndOfStream(r)
PingerStep(p) == Tick(p) \/ PingGoes(p) \/ PingFails(p) \/ Woken(p)

LifeNext ==
    \/ \E t \in Tasks : TaskStep(t) \/ NoAnswer(t) \/ ConnectFails(t) \/ Rejected(t)
    \/ \E r \in Conns : ReaderStep(r) \/ BadPacket(r) \/ Packet(r) \/ Silence(r) \/ KeyNotFound(r)
    \/ \E p \in Conns : PingerStep(p)
    \/ \E c \in Conns : Breaks(c)
    \/ Disconnect

LifeSpec == LifeInit /\ [][LifeNext]_lifeVars

\* Tasks run, timers fire, an open connection answers, and writing to one
\* that is gone raises sooner or later.
LifeFairSpec ==
    /\ LifeSpec
    /\ \A t \in Tasks : WF_lifeVars(TaskStep(t)) /\ WF_lifeVars(~CanBeAnswered(t) /\ NoAnswer(t))
    /\ \A r \in Conns : WF_lifeVars(Read(r) \/ EndOfStream(r)) /\ SF_lifeVars(Answer(r))
    /\ \A p \in Conns : WF_lifeVars(PingerStep(p)) /\ SF_lifeVars(PingFails(p))

-----------------------------------------------------------------------------
(***************************************************************************)
(* Properties.                                                             *)
(***************************************************************************)
Numbers == 0 .. MaxConns
\* Types; the tasks that stop waits for exist.
LifeTypeOK ==
    /\ task \in [Tasks -> Over \union {"stop", "ping", "close", "recv", "connect", "hello", "config"}]
    /\ then \in [Tasks -> {"start", "raise", "end"}]
    /\ waits \in [Tasks -> Numbers]
    /\ answered \in [Tasks -> BOOLEAN]
    /\ connection \in Conns
    /\ net \in [Conns -> {"none", "new", "open", "broken", "closed"}]
    /\ recv_task \in Numbers /\ ping_task \in Numbers
    /\ recv_task # 0 => reader[recv_task] # "none"
    /\ ping_task # 0 => pinger[ping_task] # "none"
    /\ reader \in [Conns -> {"none", "begin", "reading", "ended", "died"}]
    /\ reads \in [Conns -> Numbers]
    /\ pinger \in [Conns -> {"none", "waiting", "woken", "sending", "ended"}]
    /\ {ping_event, is_started, overlapped, fatal} \subseteq BOOLEAN
    /\ failures \in 0 .. MaxFailures

Settled == \A t \in Tasks : ~Active(t)
Alone == ~overlapped /\ ~fatal
LiveReaders == {r \in Conns : reader[r] \in {"begin", "reading"}}
LivePingers == {p \in Conns : pinger[p] \notin {"none", "ended"}}
Disconnected == \E t \in Tasks : then[t] = "end" /\ task[t] = "ended"

\* Restarts that do not overlap leave one session: nothing of an earlier
\* connection is left, and whenever no restart is under way the session is
\* started and its ping task, which notices a broken connection, is alive.
\* (Types are as in LifeTypeOK.)
OneSession ==
    /\ LifeTypeOK
    /\ Alone /\ Settled /\ ~Disconnected =>
         /\ is_started
         /\ LivePingers = {ping_task}
         /\ LiveReaders \subseteq {recv_task}
         /\ \A c \in Conns : net[c] = "open" => c = connection

\* After a disconnect that met no restart, nothing runs and nothing is open.
NothingLeft ==
    Alone /\ Settled /\ Disconnected =>
      /\ ~is_started
      /\ LivePingers = {} /\ LiveReaders = {}
      /\ \A c \in Conns : net[c] # "open"

\* Every call of start, stop and restart ends, if they do not overlap.
CallsEnd == []~overlapped => \A t \in Tasks : [](Active(t) => <>~Active(t))

\* After any losses the session works again: there is a task that reads.
Works == is_started /\ \E r \in Conns : Reading(r, {"open"}) /\ reads[r] = connection
ComesBack == [](Alone /\ ~Disconnected) => []<>Works

-----------------------------------------------------------------------------
\* Whenever no restart is under way the session is started.
AlwaysBack == Settled /\ ~fatal /\ ~Disconnected => is_started

\* A session that was disconnected stays so.
StaysDisconnected == Disconnected /\ Settled => ~is_started
==============================================================================
