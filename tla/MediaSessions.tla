---------------------------- MODULE MediaSessions ----------------------------
(***************************************************************************)
(* client.media_sessions: the sessions that get_file, save_file and        *)
(* get_session (inline_session.py) share, one per data centre.  Who finds  *)
(* none makes one; only get_session holds media_sessions_lock while it     *)
(* does.  terminate ends the handlers and then stops what it finds.        *)
(*                                                                         *)
(* A caller runs once and makes at most one session, which has its name.   *)
(* How a session starts and stops inside is SessionLife's matter.          *)
(***************************************************************************)
EXTENDS Naturals, Sequences, FiniteSets, SequencesExt

CONSTANTS
  Callers,
  Transfers,    \* those that run get_file or save_file; the others get_session
  Handled,      \* those that run in a handler, which terminate waits for
  DCs, Home,    \* data centres; the one of the account
  Placements,   \* the data centres the callers may need
  Attempts,     \* tries to import the authorization
  NoSession,
  MaxFaults     \* bound: what may fail

ASSUME CallersAssumption == Transfers \subseteq Callers /\ Handled \subseteq Callers
ASSUME DCsAssumption == IsFiniteSet(DCs) /\ Home \in DCs /\ Placements \subseteq [Callers -> DCs]
ASSUME AttemptsAssumption == Attempts \in Nat \ {0} /\ MaxFaults \in Nat
ASSUME NoSessionAssumption == NoSession \notin Callers

VARIABLES
  where,      \* the data centre each caller needs
  media,      \* media_sessions: data centre to session
  keys,       \* the keys of media_sessions, in the order of insertion
  status,     \* of a session: "none", "starting", "up", "down"
  signed,     \* the sessions that are authorized
  broken,     \* the sessions whose receive task raised
  lock,       \* media_sessions_lock: who holds or wants it, in order
  pc,         \* where a caller is suspended
  session,    \* the session it has
  tries,      \* imports that were refused
  phase,      \* of the client: "on", "draining", "closing", "off", "raised"
  at, size,   \* terminate's place in media_sessions and their number when it began
  replaced,   \* history: sessions that another one took the place of
  faults

vars == <<where, media, keys, status, signed, broken, lock, pc, session, tries, phase, at, size, replaced, faults>>
dict == <<media, keys, replaced>>
client == <<phase, at, size>>

Inline == Callers \ Transfers
Over == {"done", "failed"}
Busy == {c \in Callers : pc[c] \notin Over \union {"idle"}}
Goto(c, there) == pc' = [pc EXCEPT ![c] = there]

\* No handler begins once the dispatcher has stopped.
MayBegin(c) == c \in Handled => phase \in {"on", "draining"}

Fault ==
    /\ faults < MaxFaults
    /\ faults' = faults + 1

Init ==
    /\ where \in Placements
    /\ media = [d \in DCs |-> NoSession]
    /\ keys = <<>>
    /\ status = [s \in Callers |-> "none"]
    /\ signed = {}
    /\ broken = {}
    /\ lock = <<>>
    /\ pc = [c \in Callers |-> "idle"]
    /\ session = [c \in Callers |-> NoSession]
    /\ tries = [c \in Callers |-> 0]
    /\ phase = "on"
    /\ at = 0 /\ size = 0
    /\ replaced = {}
    /\ faults = 0

-----------------------------------------------------------------------------
(***************************************************************************)
(* Looking a session up and making one.                                    *)
(***************************************************************************)
\* media_sessions[dc_id] = Session(...), then session.start() begins.
Store(c) ==
    LET d == where[c]
    IN  /\ replaced' = replaced \union ({media[d]} \ {NoSession})
        /\ media' = [media EXCEPT ![d] = c]
        /\ keys' = IF Contains(keys, d) THEN keys ELSE Append(keys, d)
        /\ status' = [status EXCEPT ![c] = "starting"]
        /\ session' = [session EXCEPT ![c] = c]
        /\ Goto(c, "start")

\* A session of the home data centre has the account's key at once, one of
\* another data centre needs a key of its own, which takes a while.
Look(c) ==
    LET found == media[where[c]]
    IN  IF found # NoSession
        THEN /\ session' = [session EXCEPT ![c] = found]
             /\ Goto(c, "use")
             /\ UNCHANGED <<dict, status, signed>>
        ELSE IF where[c] = Home
        THEN Store(c) /\ signed' = signed \union {c}
        ELSE Goto(c, "auth") /\ UNCHANGED <<dict, status, session, signed>>

\* Mutant of Transfer: the key of the home data centre takes a while too.
TransferSlowly(c) ==
    /\ c \in Transfers
    /\ pc[c] = "idle"
    /\ MayBegin(c)
    /\ IF media[where[c]] # NoSession
       THEN Look(c)
       ELSE Goto(c, "auth") /\ UNCHANGED <<dict, status, session, signed>>
    /\ UNCHANGED <<where, broken, lock, tries, client, faults>>

Transfer(c) ==
    /\ c \in Transfers
    /\ pc[c] = "idle"
    /\ MayBegin(c)
    /\ Look(c)
    /\ UNCHANGED <<where, broken, lock, tries, client, faults>>

\* get_session.  For the home data centre it returns the client's own session.
GetSession(c) ==
    /\ c \in Inline
    /\ pc[c] = "idle"
    /\ MayBegin(c)
    /\ IF where[c] = Home
       THEN Goto(c, "done") /\ UNCHANGED lock
       ELSE Goto(c, "lock") /\ lock' = Append(lock, c)
    /\ UNCHANGED <<where, broken, dict, status, signed, session, tries, client, faults>>

\* Leaving the block of the lock, whose holder comes first; a transfer does
\* not hold it.
Unlocked(c) == IF lock # <<>> /\ Head(lock) = c THEN Tail(lock) ELSE lock

Locked(c) ==
    /\ pc[c] = "lock"
    /\ Head(lock) = c
    /\ Look(c)
    /\ lock' = IF pc'[c] = "use" THEN Unlocked(c) ELSE lock
    /\ UNCHANGED <<where, broken, tries, client, faults>>

\* Auth.create().
KeyMadeWith(c, held) ==
    /\ pc[c] = "auth"
    /\ Store(c)
    /\ lock' = held
    /\ UNCHANGED <<where, broken, signed, tries, client, faults>>

\* Mutant of KeyMade: the lock is only held until the session is stored.
KeyMadeUnlock(c) == KeyMadeWith(c, Unlocked(c))

KeyMade(c) == KeyMadeWith(c, lock)

\* A suspended call raises: the caller ends, its session stays where it is.
Fails(c) ==
    /\ Goto(c, "failed")
    /\ lock' = Unlocked(c)

KeyFails(c) ==
    /\ pc[c] = "auth"
    /\ Fault
    /\ Fails(c)
    /\ UNCHANGED <<where, broken, dict, status, signed, session, tries, client>>

\* terminate cannot stop a session that is starting: start tries again.
Started(c) ==
    /\ pc[c] = "start"
    /\ c \notin broken
    /\ status' = [status EXCEPT ![c] = "up"]
    /\ Goto(c, IF where[c] = Home THEN "use" ELSE "export")
    /\ UNCHANGED <<where, broken, dict, signed, lock, session, tries, client, faults>>

\* A session whose receive task raised gets no answer to its first request;
\* start() then calls stop(), which raises it again.
StartFails(c) ==
    /\ pc[c] = "start"
    /\ IF c \in broken THEN UNCHANGED faults ELSE Fault
    /\ status' = [status EXCEPT ![c] = "down"]
    /\ Fails(c)
    /\ UNCHANGED <<where, broken, dict, signed, session, tries, client>>

\* The receive task of a session raises: the server does not know its key
\* (transport error 404).  Nobody sees that before stop() awaits the task.
RecvRaises(s) ==
    /\ status[s] \in {"starting", "up"}
    /\ s \notin broken
    /\ Fault
    /\ broken' = broken \union {s}
    /\ UNCHANGED <<where, dict, status, signed, lock, pc, session, tries, client>>

-----------------------------------------------------------------------------
(***************************************************************************)
(* Exporting the authorization of the account and importing it.            *)
(***************************************************************************)
Exported(c) ==
    /\ pc[c] = "export"
    /\ Goto(c, "import")
    /\ UNCHANGED <<where, broken, dict, status, signed, lock, session, tries, client, faults>>

\* A client that was terminated is about to be disconnected and then refuses.
ExportFails(c) ==
    /\ pc[c] = "export"
    /\ IF phase = "off" THEN UNCHANGED faults ELSE Fault
    /\ Fails(c)
    /\ UNCHANGED <<where, broken, dict, status, signed, session, tries, client>>

Answers(s) == status[s] = "up" /\ s \notin broken

\* get_session lets the lock go before its caller uses the session.
Imported(c) ==
    /\ pc[c] = "import"
    /\ Answers(c)
    /\ signed' = signed \union {c}
    /\ Goto(c, "use")
    /\ lock' = Unlocked(c)
    /\ UNCHANGED <<where, broken, dict, status, session, tries, client, faults>>

\* A session that is stopped or that receives no more answers nothing.
ImportFails(c) ==
    /\ pc[c] = "import"
    /\ IF Answers(c) THEN Fault ELSE UNCHANGED faults
    /\ Fails(c)
    /\ UNCHANGED <<where, broken, dict, status, signed, session, tries, client>>

\* AuthBytesInvalid: the account exports another authorization.  After the
\* last attempt get_session stops the session, get_file leaves it running.
Invalid(c) ==
    /\ pc[c] = "import"
    /\ Answers(c)
    /\ Fault
    /\ tries' = [tries EXCEPT ![c] = @ + 1]
    /\ Goto(c, CASE tries'[c] < Attempts -> "export"
                 [] c \in Inline         -> "stop"
                 [] OTHER                -> "failed")
    /\ UNCHANGED <<where, broken, dict, status, signed, lock, session, client>>

\* The caller raises, whether the stop does or not.
StopThen(c, freed) ==
    /\ pc[c] = "stop"
    /\ status' = [status EXCEPT ![c] = "down"]
    /\ Goto(c, "failed")
    /\ lock' = freed
    /\ UNCHANGED <<where, broken, dict, signed, session, tries, client, faults>>

\* Mutant of Stopped: the lock stays held.
StoppedLocked(c) == StopThen(c, lock)

Stopped(c) == StopThen(c, Unlocked(c))

-----------------------------------------------------------------------------
(***************************************************************************)
(* Using the session, which may be another caller's.                       *)
(***************************************************************************)
Usable(s) == Answers(s) /\ s \in signed

Use(c) ==
    /\ pc[c] = "use"
    /\ Usable(session[c])
    /\ Goto(c, "done")
    /\ UNCHANGED <<where, broken, dict, status, signed, lock, session, tries, client, faults>>

\* Telegram refuses a session that is not authorized, and invoke waits only
\* so long for one that is not started.
UseFails(c) ==
    /\ pc[c] = "use"
    /\ ~Usable(session[c])
    /\ Goto(c, "failed")
    /\ UNCHANGED <<where, broken, dict, status, signed, lock, session, tries, client, faults>>

-----------------------------------------------------------------------------
(***************************************************************************)
(* terminate.                                                              *)
(***************************************************************************)
Terminate ==
    /\ phase = "on"
    /\ phase' = "draining"
    /\ UNCHANGED <<where, broken, dict, status, signed, lock, pc, session, tries, at, size, faults>>

\* dispatcher.stop() returns; the iteration begins.
BeginClosing(handlersOver) ==
    /\ phase = "draining"
    /\ handlersOver
    /\ phase' = "closing"
    /\ at' = 0
    /\ size' = Len(keys)
    /\ UNCHANGED <<where, broken, dict, status, signed, lock, pc, session, tries, faults>>

\* Mutant of Drained: the handlers are not waited for.
DrainedAtOnce == BeginClosing(TRUE)

Drained == BeginClosing(Handled \intersect Busy = {})

\* The loop goes to the next session and awaits its stop, which ends before
\* the next step.  A dict that has grown since raises RuntimeError, and stop
\* raises what the receive task has: the sessions behind are not stopped.
Close ==
    /\ phase = "closing"
    /\ IF Len(keys) # size
       THEN phase' = "raised" /\ UNCHANGED <<dict, status, at>>
       ELSE IF at < size
       THEN LET s == media[keys[at + 1]]
            IN  /\ at' = at + 1
                /\ status' = [status EXCEPT ![s] = IF @ = "up" THEN "down" ELSE @]
                /\ phase' = IF s \in broken THEN "raised" ELSE phase
                /\ UNCHANGED dict
       ELSE /\ phase' = "off"
            /\ media' = [d \in DCs |-> NoSession]
            /\ keys' = <<>>
            /\ UNCHANGED <<status, at, replaced>>
    /\ UNCHANGED <<where, broken, signed, lock, pc, session, tries, size, faults>>

-----------------------------------------------------------------------------
Caller(c) ==
    \/ Locked(c) \/ KeyMade(c) \/ Started(c) \/ (c \in broken /\ StartFails(c))
    \/ Exported(c) \/ (phase = "off" /\ ExportFails(c))
    \/ Imported(c) \/ (~Answers(c) /\ ImportFails(c))
    \/ Stopped(c) \/ Use(c) \/ UseFails(c)

Next ==
    \/ \E c \in Callers :
         \/ Transfer(c) \/ GetSession(c) \/ Caller(c)
         \/ KeyFails(c) \/ StartFails(c) \/ ExportFails(c) \/ ImportFails(c) \/ Invalid(c)
         \/ RecvRaises(c)
    \/ Terminate \/ Drained \/ Close

Spec == Init /\ [][Next]_vars

\* What is suspended is resumed; nobody has to begin or to call terminate.
FairSpec ==
    /\ Spec
    /\ \A c \in Callers : WF_vars(Caller(c))
    /\ WF_vars(Drained) /\ WF_vars(Close)

-----------------------------------------------------------------------------
(***************************************************************************)
(* Properties.                                                             *)
(***************************************************************************)
\* Types; media_sessions has the keys it has sessions for; who makes a
\* session with get_session, and nobody else, holds the lock.
TypeOK ==
    /\ where \in Placements
    /\ media \in [DCs -> Callers \union {NoSession}]
    /\ IsInjective(keys) /\ ToSet(keys) = {d \in DCs : media[d] # NoSession}
    /\ status \in [Callers -> {"none", "starting", "up", "down"}]
    /\ signed \subseteq Callers /\ broken \subseteq Callers /\ replaced \subseteq Callers
    /\ lock \in Seq(Inline)
    /\ pc \in [Callers -> Over \union {"idle", "lock", "auth", "start", "export", "import", "stop", "use"}]
    /\ session \in [Callers -> Callers \union {NoSession}]
    /\ tries \in [Callers -> 0 .. Attempts]
    /\ phase \in {"on", "draining", "closing", "off", "raised"}
    /\ at \in 0 .. size /\ size \in 0 .. Cardinality(DCs)
    /\ faults \in 0 .. MaxFaults
    /\ \A c \in Inline :
         pc[c] \in {"auth", "start", "export", "import", "stop"} => lock # <<>> /\ Head(lock) = c

\* Data centres whose sessions cannot be made twice: the home one, because
\* nothing is awaited between the look and the store, and those that only
\* get_session asks for.
LockedDCs == {d \in DCs : d = Home \/ \A c \in Transfers : where[c] # d}

\* One session at most is made for such a data centre. (Types are as in
\* TypeOK.)
OneForLocked ==
    /\ TypeOK
    /\ phase \in {"on", "draining"} =>
         \A d \in LockedDCs : Cardinality({s \in Callers : where[s] = d /\ status[s] # "none"}) <= 1

\* get_session hands out no session that is still being made: as long as
\* nothing fails and the client is not terminated, its callers succeed where
\* only get_session makes sessions.
NoneHalfMade ==
    \A c \in Inline :
      faults = 0 /\ phase \in {"on", "draining"} /\ where[c] \in LockedDCs => pc[c] # "failed"

\* A terminated client leaves no session running but one that another took
\* the place of or that is made outside the handlers.  terminate raises only
\* if somebody outside the handlers made a session, or the receive task of
\* one raised; then those run, too, that the loop had not come to.
Outside(s) == s \in Callers \ Handled
Behind(s) == \E i \in at + 1 .. Len(keys) : keys[i] = where[s]
ClientStopped ==
    /\ \A s \in Callers : phase \in {"off", "raised"} /\ status[s] \in {"starting", "up"} =>
         s \in replaced \/ Outside(s) \/ (phase = "raised" /\ Behind(s))
    /\ phase = "raised" => broken # {} \/ \E s \in Callers : Outside(s) /\ status[s] # "none"

\* Callers that wait for the lock get on and end.
CallersEnd == \A c \in Callers : (pc[c] # "idle") ~> (pc[c] \in Over)

-----------------------------------------------------------------------------
\* A terminated client leaves no session running.
NothingLeaks == phase \in {"off", "raised"} => \A s \in Callers : status[s] \notin {"starting", "up"}

\* A transfer that meets no failure succeeds.
JoinersSucceed == faults = 0 /\ phase = "on" => \A c \in Callers : pc[c] # "failed"

\* What get_session gave up is not handed out again.
NoDeadSession ==
    phase = "on" => \A c \in Inline : pc[c] = "use" => status[session[c]] # "down"
==============================================================================
