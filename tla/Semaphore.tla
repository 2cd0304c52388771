------------------------------ MODULE Semaphore ------------------------------
(***************************************************************************)
(* asyncio.Semaphore, the external class behind global_download_semaphore  *)
(* and global_upload_semaphore (bot/config.py:72-73), as pure operators on *)
(* a record.  The class keeps a counter and a deque of futures; release()  *)
(* completes the first future that is not done yet and pays for it at      *)
(* once, but the task behind that future runs later and only then leaves   *)
(* the deque.  Futures are completed, and their tasks resumed, in FIFO     *)
(* order, so the completed futures are always a prefix of the deque and a  *)
(* number, `woken', stands for them.  No task that waits here is ever      *)
(* cancelled: handlers run inside the dispatcher's workers, and those are  *)
(* only stopped by a poison pill between two updates.                      *)
(***************************************************************************)
EXTENDS Naturals, Sequences

\* The states of a semaphore whose waiters are the tasks T.
SemaphoreOf(T) == [value : Nat, waiters : Seq(T), woken : Nat]

\* Semaphore(n): n permits, nobody waiting.
Fresh(n) == [value |-> n, waiters |-> <<>>, woken |-> 0]

\* locked(): no permit left, or somebody is queued, woken tasks included.
Locked(s) == s.value = 0 \/ s.waiters # <<>>

\* Some future of the deque is not done.
HasSleeper(s) == s.woken < Len(s.waiters)

\* _wake_up_next(): complete the first future that is not done.
WakeUpNext(s) ==
    IF HasSleeper(s)
    THEN [s EXCEPT !.value = @ - 1, !.woken = @ + 1]
    ELSE s

\* release()
Release(s) == WakeUpNext([s EXCEPT !.value = @ + 1])

\* acquire() of a semaphore that is not locked: it does not suspend.
TakePermit(s) == [s EXCEPT !.value = @ - 1]

\* acquire() of a locked semaphore: the task w queues up and suspends.
Enqueue(s, w) == [s EXCEPT !.waiters = Append(@, w)]

\* The task w is the next one the event loop resumes from its future.
CanResume(s, w) == s.woken > 0 /\ s.waiters # <<>> /\ w = Head(s.waiters)

\* ... it leaves the deque and, when a permit was released meanwhile with
\* nobody left to wake, passes it on to a task that queued up since.
Resume(s) ==
    LET r == [s EXCEPT !.waiters = Tail(@), !.woken = @ - 1]
    IN  IF r.value > 0 THEN WakeUpNext(r) ELSE r

(***************************************************************************)
(* What keeps the class from losing a wake-up: only waiters are woken, and *)
(* a free permit beside a sleeping task means that a woken task is on its  *)
(* way to pass that permit on.                                             *)
(***************************************************************************)
NoLostWakeUp(s) ==
    /\ s.woken <= Len(s.waiters)
    /\ s.value > 0 /\ HasSleeper(s) => s.woken > 0
==============================================================================
