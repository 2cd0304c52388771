------------------------------ MODULE SaveFile ------------------------------
(***************************************************************************)
(* The upload of a document: save_file (methods/advanced/save_file.py) and *)
(* the loop of send_document around it.  save_file reads the file and puts *)
(* its parts into a queue; worker tasks send them without waiting for an   *)
(* answer.  When all of them are sent the message is sent, which names the *)
(* file; a server that misses a part says so, and that part is sent again. *)
(* So is the whole message when the answer holds none of the updates that  *)
(* the loop looks for.                                                     *)
(*                                                                         *)
(* Every call of save_file has a queue and workers of its own; they end    *)
(* before the call returns, so one set of variables does for all calls.    *)
(***************************************************************************)
EXTENDS Integers, Sequences, FiniteSets

CONSTANTS
  Workers,        \* the upload worker tasks
  Parts,          \* file_total_parts
  QueueSize,      \* workers_count * 8
  ProgressEvery,  \* the literal 20
  MaxLost,        \* bound: parts the server lacks at a time
  Idle,           \* a worker that waits for a part
  Report,         \* a worker that awaits the progress callback
  Stop            \* the None that ends a worker; a worker that took it

ASSUME WorkersAssumption == IsFiniteSet(Workers) /\ Workers # {}
ASSUME PartsAssumption == Parts \in Nat \ {0}
ASSUME QueueAssumption == QueueSize \in Nat /\ QueueSize >= Cardinality(Workers)
ASSUME ProgressAssumption == ProgressEvery \in Nat \ {0}
ASSUME LostAssumption == MaxLost \in Nat
ASSUME MarksAssumption == /\ Idle \notin Nat /\ Report \notin Nat /\ Stop \notin Nat
                          /\ Idle # Report /\ Report # Stop /\ Stop # Idle

VARIABLES
  phase,       \* where save_file or its caller is suspended
  retrying,    \* is_missing_part
  file_part,   \* the next part to read
  whole,       \* all parts were read: there is an InputFile to return
  queue,       \* parts and poison pills
  unfinished,  \* the queue's count of tasks that are not done
  doing,       \* a worker's part, or Idle, Report or Stop
  uploaded,    \* uploaded_parts
  stored,      \* the parts the server has
  outcome,     \* what the caller of send_document gets
  tried,       \* history: the parts a worker tried to send
  due,         \* history: the sends of each part still called for: one at
               \* first and one when the server missed it, less those done
  stopped      \* history: the callback called stop_transmission

pool == <<queue, unfinished, doing, uploaded>>
server == <<stored, tried, due>>
vars == <<phase, retrying, file_part, whole, pool, server, outcome, stopped>>

PartNumbers == 0 .. Parts - 1
Phases == {"start", "put", "join", "gather", "resolve", "send", "over"}

Init ==
    /\ phase = "start"
    /\ retrying = FALSE
    /\ file_part = 0
    /\ whole = FALSE
    /\ queue = <<>>
    /\ unfinished = 0
    /\ doing = [w \in Workers |-> Stop]
    /\ uploaded = 0
    /\ stored = {}
    /\ outcome = "running"
    /\ tried = {}
    /\ due = [p \in PartNumbers |-> 1]
    /\ stopped = FALSE

Over(o) == phase' = "over" /\ outcome' = o

Least(m, n) == IF m < n THEN m ELSE n

(***************************************************************************)
(* save_file.                                                              *)
(***************************************************************************)
\* The media session is there: the workers start.
Start ==
    /\ phase = "start"
    /\ phase' = "put"
    /\ doing' = [w \in Workers |-> Idle]
    /\ uploaded' = 0
    /\ UNCHANGED <<retrying, file_part, whole, queue, unfinished, server, outcome, stopped>>

\* The file cannot be opened, is empty or too big, or there is no session.
StartFails ==
    /\ phase = "start"
    /\ Over("raised")
    /\ UNCHANGED <<retrying, file_part, whole, pool, server, stopped>>

\* Mutant of Fill: a retry goes on with the parts behind the missing one.
FillToTheEnd ==
    LET n == Least(Parts - file_part, QueueSize - Len(queue))
    IN  /\ phase = "put"
        /\ n > 0
        /\ queue' = queue \o [i \in 1 .. n |-> file_part + i - 1]
        /\ unfinished' = unfinished + n
        /\ file_part' = file_part + n
        /\ IF file_part + n = Parts
           THEN phase' = "join" /\ whole' = TRUE
           ELSE UNCHANGED <<phase, whole>>
        /\ UNCHANGED <<retrying, doing, uploaded, server, outcome, stopped>>

\* Parts are read and queued until the file or the queue's room ends: a put
\* suspends only when the queue is full.  A retry queues one part.
Fill ==
    LET room == QueueSize - Len(queue)
        n    == Least(IF retrying THEN 1 ELSE Parts - file_part, room)
    IN  /\ phase = "put"
        /\ n > 0
        /\ queue' = queue \o [i \in 1 .. n |-> file_part + i - 1]
        /\ unfinished' = unfinished + n
        /\ file_part' = file_part + n
        /\ IF retrying \/ file_part + n = Parts
           THEN phase' = "join" /\ whole' = TRUE
           ELSE UNCHANGED <<phase, whole>>
        /\ UNCHANGED <<retrying, doing, uploaded, server, outcome, stopped>>

\* read() raises: logged, and there will be no InputFile.
ReadFails ==
    /\ phase = "put"
    /\ phase' = "join"
    /\ whole' = FALSE
    /\ UNCHANGED <<retrying, file_part, pool, server, outcome, stopped>>

\* What follows a call of save_file: a retry's result is not looked at, and
\* a message cannot be made of a None.
Returned ==
    IF whole \/ retrying THEN phase' = "resolve" /\ UNCHANGED outcome ELSE Over("raised")

Pills == [i \in 1 .. Cardinality(Workers) |-> Stop]

\* Mutant of Join: nobody waits for the workers.
JoinReturns ==
    /\ phase = "join"
    /\ Returned
    /\ UNCHANGED <<retrying, file_part, whole, pool, server, stopped>>

\* queue.join() returned: the workers get their pills.
Join ==
    /\ phase = "join"
    /\ unfinished = 0
    /\ phase' = "gather"
    /\ queue' = queue \o Pills
    /\ unfinished' = Cardinality(Workers)
    /\ UNCHANGED <<retrying, file_part, whole, doing, uploaded, server, outcome, stopped>>

\* All workers have ended; the next call has a queue of its own.
Gather ==
    /\ phase = "gather"
    /\ \A w \in Workers : doing[w] = Stop
    /\ Returned
    /\ unfinished' = 0
    /\ UNCHANGED <<retrying, file_part, whole, queue, doing, uploaded, server, stopped>>

-----------------------------------------------------------------------------
(***************************************************************************)
(* turbo_worker.                                                           *)
(***************************************************************************)
caller == <<phase, retrying, file_part, whole, outcome>>

Get(w) ==
    /\ doing[w] = Idle
    /\ queue # <<>>
    /\ queue' = Tail(queue)
    /\ doing' = [doing EXCEPT ![w] = Head(queue)]
    /\ UNCHANGED <<caller, unfinished, uploaded, server, stopped>>

\* The worker comes to the finally clause: task_done().
Done(w) ==
    /\ doing' = [doing EXCEPT ![w] = Idle]
    /\ unfinished' = unfinished - 1

\* The parts that did not get there.
Lost == tried \ stored
CanLose(p) == Cardinality(Lost \cup {p}) <= MaxLost

\* A worker gives a part to send(), which may fail.
Try(p) ==
    /\ tried' = tried \cup {p}
    /\ due' = [due EXCEPT ![p] = @ - 1]

\* The part is written to the connection.  The server has it before it sees
\* the message, or too late (or never), which is the same to the client.
Sent(w) ==
    LET p == doing[w]
        told == ~retrying /\ \/ (uploaded + 1) % ProgressEvery = 0
                             \/ uploaded + 1 = Parts
    IN  /\ p \in Nat
        /\ uploaded' = uploaded + 1
        /\ Try(p)
        /\ \/ stored' = stored \cup {p}
           \/ CanLose(p) /\ UNCHANGED stored
        /\ IF told
           THEN doing' = [doing EXCEPT ![w] = Report] /\ UNCHANGED unfinished
           ELSE Done(w)
        /\ UNCHANGED <<caller, queue, stopped>>

\* Mutant of SendFails: task_done() is not in a finally clause.
SendFailsUndone(w) ==
    LET p == doing[w]
    IN  /\ p \in Nat
        /\ CanLose(p)
        /\ Try(p)
        /\ doing' = [doing EXCEPT ![w] = Idle]
        /\ UNCHANGED <<caller, queue, unfinished, uploaded, stored, stopped>>

\* send() raises: logged, and the part is not sent.
SendFails(w) ==
    LET p == doing[w]
    IN  /\ p \in Nat
        /\ CanLose(p)
        /\ Try(p)
        /\ Done(w)
        /\ UNCHANGED <<caller, queue, uploaded, stored, stopped>>

\* The progress callback returns, or raises what the worker logs and
\* forgets: StopTransmission is an Exception too.
Reported(w) ==
    /\ doing[w] = Report
    /\ Done(w)
    /\ stopped' \in {stopped, TRUE}
    /\ UNCHANGED <<caller, queue, uploaded, server>>

-----------------------------------------------------------------------------
(***************************************************************************)
(* The loop of send_document.                                              *)
(***************************************************************************)
\* The head of the loop: resolve_peer returned, SendMedia is invoked.
Resolve ==
    /\ phase = "resolve"
    /\ phase' = "send"
    /\ UNCHANGED <<retrying, file_part, whole, pool, server, outcome, stopped>>

\* SendMedia succeeds, for which the server needs every part, and its
\* updates hold the message.
Accepted ==
    /\ phase = "send"
    /\ stored = PartNumbers
    /\ Over("message")
    /\ UNCHANGED <<retrying, file_part, whole, pool, server, stopped>>

\* SendMedia succeeds, and none of its updates is of the four kinds that the
\* loop knows: it starts over, and sends the message once more.
Unrecognised ==
    /\ phase = "send"
    /\ stored = PartNumbers
    /\ phase' = "resolve"
    /\ UNCHANGED <<retrying, file_part, whole, pool, server, outcome, stopped>>

\* FilePartMissing: one part is sent again.  Nothing limits how often.
FilePartMissing ==
    /\ phase = "send"
    /\ \E p \in PartNumbers \ stored :
         /\ file_part' = p
         /\ due' = [due EXCEPT ![p] = 1]
    /\ phase' = "start"
    /\ retrying' = TRUE
    /\ UNCHANGED <<whole, pool, stored, tried, outcome, stopped>>

\* Any other error, of resolve_peer or of SendMedia.
SendMediaFails ==
    /\ phase \in {"resolve", "send"}
    /\ Over("raised")
    /\ UNCHANGED <<retrying, file_part, whole, pool, server, stopped>>

-----------------------------------------------------------------------------
Caller == \/ Start \/ StartFails \/ Fill \/ ReadFails \/ Join \/ Gather
          \/ Resolve \/ Accepted \/ Unrecognised \/ FilePartMissing \/ SendMediaFails
Worker(w) == Get(w) \/ Sent(w) \/ SendFails(w) \/ Reported(w)

Next == Caller \/ \E w \in Workers : Worker(w)

Spec == Init /\ [][Next]_vars

\* Calls end, and the event loop runs every task that is ready.
FairSpec == Spec /\ WF_vars(Caller) /\ \A w \in Workers : WF_vars(Worker(w))

-----------------------------------------------------------------------------
TypeOK ==
    /\ phase \in Phases
    /\ retrying \in BOOLEAN /\ whole \in BOOLEAN /\ stopped \in BOOLEAN
    /\ file_part \in 0 .. Parts
    /\ queue \in Seq(PartNumbers \cup {Stop})
    /\ unfinished \in Nat
    /\ doing \in [Workers -> PartNumbers \cup {Idle, Report, Stop}]
    /\ uploaded \in Nat
    /\ stored \subseteq PartNumbers
    /\ outcome \in {"running", "message", "raised"}
    /\ tried \subseteq PartNumbers /\ due \in [PartNumbers -> Int]

\* The count join() waits for is right: task_done is called once for each
\* part taken, on every path through the worker.
UnfinishedCounts ==
    phase \in {"put", "join"} =>
        unfinished = Len(queue) + Cardinality({w \in Workers : doing[w] # Idle})

\* "Wait for all parts to be sent before finishing" (save_file.py:275): the
\* message never names a file of which a part was not at least tried.
NamedWhenTried == phase = "send" => tried = PartNumbers

\* A part is sent once, and at most once more after each time that the server
\* missed it.
NoNeedlessResend == \A p \in PartNumbers : due[p] >= 0

\* The condition of the next property, which the code does not ensure: at
\* some time the server neither misses a part any more nor answers without a
\* message.  The loop counts neither.
AnswersSettle == <>[][~FilePartMissing /\ ~Unrecognised]_vars

\* The pool never hangs the upload: as long as the answers settle, the
\* workers, the queue and the retries come to an end, whatever sends, reads
\* and callbacks fail.
UploadEnds == AnswersSettle => <>(outcome # "running")

-----------------------------------------------------------------------------
\* "in case the upload is deliberately stopped with stop_transmission, None
\* is returned" (send_document.py:182): no message after that.
StopMeansStop == stopped => outcome # "message"

\* "On success, the sent document message is returned" (send_document.py:181):
\* the call comes back, whatever the server answers.
UploadReturns == <>(outcome # "running")
==============================================================================
