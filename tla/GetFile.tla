------------------------------- MODULE GetFile -------------------------------
(***************************************************************************)
(* A chunked download: Client.get_file and the handle_download that        *)
(* consumes it (pyrogram/client.py).  The generator fills a queue with the  *)
(* offsets of a window of chunks; worker tasks fetch them and put the      *)
(* answers into `results'; the generator polls `results' for the next      *)
(* offset, yields it to the file and puts one more offset into the queue.  *)
(* A file on a CDN is fetched by a sequential loop instead.  The model     *)
(* begins once get_file has entered get_file_semaphore, which it holds     *)
(* until it ends: a download that waits for it has not begun.              *)
(*                                                                         *)
(* Offsets are chunk numbers.  The server has the full chunks              *)
(* 0 .. LastChunk - 1, the short (maybe empty) chunk LastChunk and answers *)
(* an empty chunk beyond it.                                               *)
(***************************************************************************)
EXTENDS Naturals, Sequences, FiniteSets

CONSTANTS
  Workers,    \* the download worker tasks
  LastChunk,  \* the number of the short last chunk
  MaxWindow,  \* the literal 64
  Idle,       \* a worker that waits for an offset
  Stop,       \* the None that ends a worker; a worker that took it
  Reuploads   \* bound: CdnFileReuploadNeeded answers

ASSUME WorkersAssumption == IsFiniteSet(Workers) /\ Workers # {}
ASSUME LastChunkAssumption == LastChunk \in Nat
ASSUME WindowAssumption == MaxWindow \in Nat \ {0}
ASSUME StopAssumption == Stop \notin Nat /\ Idle \notin Nat /\ Idle # Stop
ASSUME ReuploadsAssumption == Reuploads \in Nat

VARIABLES
  phase,     \* where the generator is suspended
  queue,     \* offsets for the workers, and their poison pills
  next,      \* next_offset
  results,   \* offsets whose chunk has arrived
  fetching,  \* the offset each worker requests, Idle or Stop
  reuploads, \* how many reuploads were asked for
  written,   \* the chunks in the file
  pending,   \* the outcome that waits for the CDN session to stop
  outcome,   \* what handle_download returns
  failed,    \* history: the offsets whose request failed
  thrown     \* history: an exception cut the stream

vars == <<phase, queue, next, results, fetching, reuploads, written, pending,
          outcome, failed, thrown>>

Phases == {"start", "poll", "progress", "gather", "cdn_start", "cdn", "reupload",
           "verify", "cdn_progress", "cdn_stop", "over"}

Least(m, n) == IF m < n THEN m ELSE n

\* Offsets queued before the first chunk is awaited, and the queue's size.
Window    == Least(2 * Cardinality(Workers), MaxWindow)
QueueSize == 4 * Cardinality(Workers)

Init ==
    /\ phase = "start"
    /\ queue = <<>>
    /\ next = 0
    /\ results = {}
    /\ fetching = [w \in Workers |-> Idle]
    /\ reuploads = 0
    /\ written = <<>>
    /\ pending = "path"
    /\ outcome = "running"
    /\ failed = {}
    /\ thrown = FALSE

\* handle_download ends with outcome o: the file is kept only for a path.
Over(o) == phase' = "over" /\ outcome' = o

turbo == <<queue, next, results, fetching>>

(***************************************************************************)
(* An exception of the generator: StopTransmission makes None, FloodWait   *)
(* and the cancellation by the caller are raised, and any other Exception  *)
(* is logged and swallowed, so that the stream just ends.                  *)
(***************************************************************************)
Exceptions == {"path", "none", "raised"}

(***************************************************************************)
(* The turbo path.                                                         *)
(***************************************************************************)
\* Mutant of Prefill: the window ignores the number of workers.
PrefillMaxWindow == /\ queue' = [i \in 1 .. MaxWindow |-> i - 1]
                    /\ next' = MaxWindow

\* The workers are created and the window is queued, without a suspension.
Prefill == /\ queue' = [i \in 1 .. Window |-> i - 1]
           /\ next' = Window

\* The media session is there and the first request was answered with a
\* chunk, which is fetched again by a worker, or with a CDN redirect.
Start ==
    /\ phase = "start"
    /\ \/ /\ phase' = "poll"
          /\ Prefill
       \/ phase' = "cdn_start" /\ UNCHANGED <<queue, next>>
    /\ UNCHANGED <<fetching, results, reuploads, written, pending, outcome, failed, thrown>>

\* A worker takes an offset or its poison pill off the queue.
Get(w) ==
    /\ fetching[w] = Idle
    /\ queue # <<>>
    /\ queue' = Tail(queue)
    /\ fetching' = [fetching EXCEPT ![w] = Head(queue)]
    /\ UNCHANGED <<phase, next, results, reuploads, written, pending, outcome, failed, thrown>>

\* The request is answered with the chunk.
Fetched(w) ==
    /\ fetching[w] \in Nat
    /\ results' = results \cup {fetching[w]}
    /\ fetching' = [fetching EXCEPT ![w] = Idle]
    /\ UNCHANGED <<phase, queue, next, reuploads, written, pending, outcome, failed, thrown>>

\* The request raises, or is answered with something else than a chunk: the
\* worker goes on and nobody asks for that offset again.
FetchFails(w) ==
    /\ fetching[w] \in Nat
    /\ failed' = failed \cup {fetching[w]}
    /\ fetching' = [fetching EXCEPT ![w] = Idle]
    /\ UNCHANGED <<phase, queue, next, results, reuploads, written, pending, outcome, thrown>>

\* Mutant of Pills: one worker gets none.
PillsButOne == [i \in 1 .. Cardinality(Workers) - 1 |-> Stop]

Pills == [i \in 1 .. Cardinality(Workers) |-> Stop]

\* Mutant of Poll: any chunk that has arrived is yielded.
PollAny ==
    /\ phase = "poll"
    /\ \E k \in results :
         /\ results' = results \ {k}
         /\ written' = Append(written, k)
         /\ IF k >= LastChunk
            THEN phase' = "gather" /\ queue' = queue \o Pills /\ UNCHANGED next
            ELSE phase' = "progress" /\ queue' = Append(queue, next) /\ next' = next + 1
    /\ UNCHANGED <<fetching, reuploads, pending, outcome, failed, thrown>>

\* Mutant of Poll: a short chunk does not end the loop before the next put.
PollQueuesAgain ==
    LET k == Len(written)
    IN  /\ phase = "poll"
        /\ k \in results
        /\ results' = results \ {k}
        /\ written' = Append(written, k)
        /\ IF k >= LastChunk
           THEN phase' = "gather" /\ queue' = queue \o Pills /\ UNCHANGED next
           ELSE phase' = "progress" /\ queue' = queue \o <<next, next>> /\ next' = next + 1
        /\ UNCHANGED <<fetching, reuploads, pending, outcome, failed, thrown>>

\* The chunk at current_yield_offset has arrived: it is yielded and written.
\* A short one ends the loop and stops the workers; a full one makes room
\* for one more offset.  (The loop sleeps and looks again as long as the
\* chunk is not there; its other exit, all workers done, cannot be taken.)
Poll ==
    LET k == Len(written)
    IN  /\ phase = "poll"
        /\ k \in results
        /\ results' = results \ {k}
        /\ written' = Append(written, k)
        /\ IF k >= LastChunk
           THEN phase' = "gather" /\ queue' = queue \o Pills /\ UNCHANGED next
           ELSE phase' = "progress" /\ queue' = Append(queue, next) /\ next' = next + 1
        /\ UNCHANGED <<fetching, reuploads, pending, outcome, failed, thrown>>

\* The progress callback returned.
Progress ==
    /\ phase = "progress"
    /\ phase' = "poll"
    /\ UNCHANGED <<turbo, reuploads, written, pending, outcome, failed, thrown>>

\* All workers have taken their pill.
Gather ==
    /\ phase = "gather"
    /\ \A w \in Workers : fetching[w] = Stop
    /\ Over("path")
    /\ UNCHANGED <<turbo, reuploads, written, pending, failed, thrown>>

\* Session creation, that of the CDN session included, the first request or
\* the progress callback raises.
Throw ==
    /\ phase \in {"start", "progress", "cdn_start"}
    /\ \E o \in Exceptions : Over(o)
    /\ thrown' = TRUE
    /\ UNCHANGED <<turbo, reuploads, written, pending, failed>>

\* The chunk cannot be written to the file: the generator is dropped.
WriteFails ==
    /\ phase = "verify" \/ (phase = "poll" /\ Len(written) \in results)
    /\ Over("none")
    /\ thrown' = TRUE
    /\ UNCHANGED <<turbo, reuploads, written, pending, failed>>

\* wait_for of the caller times out: the generator is cancelled.  Within the
\* try block of the CDN loop that is a CdnThrow; before the block, where the
\* session's key is made, and while the session stops, nothing more is done.
GiveUp ==
    /\ phase \in {"start", "poll", "progress", "gather", "cdn_start", "cdn_stop"}
    /\ Over("raised")
    /\ UNCHANGED <<turbo, reuploads, written, pending, failed, thrown>>

(***************************************************************************)
(* The CDN path.                                                           *)
(***************************************************************************)
CdnGoto(l) == phase' = l /\ UNCHANGED <<turbo, pending, outcome, failed, thrown>>

CdnStart == phase = "cdn_start" /\ CdnGoto("cdn") /\ UNCHANGED <<written, reuploads>>

\* GetCdnFile answers with the chunk or asks for a reupload.
CdnAnswer ==
    /\ phase = "cdn"
    /\ \/ CdnGoto("verify") /\ UNCHANGED reuploads
       \/ /\ reuploads < Reuploads
          /\ CdnGoto("reupload")
          /\ reuploads' = reuploads + 1
    /\ UNCHANGED written

Reupload == phase = "reupload" /\ CdnGoto("cdn") /\ UNCHANGED <<written, reuploads>>

\* The hashes match: the chunk is yielded and written.
Verify ==
    /\ phase = "verify"
    /\ written' = Append(written, Len(written))
    /\ CdnGoto("cdn_progress")
    /\ UNCHANGED reuploads

\* The progress callback returned; a short chunk was the last.
CdnProgress ==
    /\ phase = "cdn_progress"
    /\ CdnGoto(IF Len(written) > LastChunk THEN "cdn_stop" ELSE "cdn")
    /\ UNCHANGED <<written, reuploads>>

\* An exception, VolumeLocNotFound and a hash that does not match included:
\* the CDN session is stopped first.
CdnThrow ==
    /\ phase \in {"cdn_start", "cdn", "reupload", "verify", "cdn_progress"}
    /\ phase' = "cdn_stop"
    /\ pending' \in Exceptions
    /\ thrown' = TRUE
    /\ UNCHANGED <<turbo, reuploads, written, outcome, failed>>

\* The CDN session is stopped.  If its receive task has raised, stop() raises
\* that in place of what was pending, and get_file logs and swallows it.
CdnStop ==
    /\ phase = "cdn_stop"
    /\ \/ Over(pending) /\ UNCHANGED thrown
       \/ Over("path") /\ thrown' = TRUE
    /\ UNCHANGED <<turbo, reuploads, written, pending, failed>>

-----------------------------------------------------------------------------
WorkerStep(w) == Get(w) \/ Fetched(w) \/ FetchFails(w)

Generator ==
    \/ Start \/ Poll \/ Progress \/ Gather \/ Throw \/ WriteFails
    \/ CdnStart \/ CdnAnswer \/ Reupload \/ Verify \/ CdnProgress \/ CdnThrow \/ CdnStop

Next ==
    \/ Generator
    \/ GiveUp
    \/ \E w \in Workers : WorkerStep(w)

Spec == Init /\ [][Next]_vars

(***************************************************************************)
(* Every request is answered or fails, and the event loop runs every task  *)
(* that is ready.  The caller need not give up: most callers set no limit. *)
(***************************************************************************)
FairSpec == Spec /\ WF_vars(Generator) /\ \A w \in Workers : WF_vars(WorkerStep(w))

-----------------------------------------------------------------------------
TypeOK ==
    /\ phase \in Phases
    /\ queue \in Seq(Nat \cup {Stop})
    /\ next \in Nat
    /\ results \subseteq Nat
    /\ fetching \in [Workers -> Nat \cup {Idle, Stop}]
    /\ reuploads \in 0 .. Reuploads
    /\ written \in Seq(Nat)
    /\ pending \in Exceptions
    /\ outcome \in {"running", "path", "none", "raised"}
    /\ failed \subseteq Nat
    /\ thrown \in BOOLEAN

\* put() never suspends: the queue never holds more than its size, the
\* window, the offsets put after it and the poison pills together.
QueueNeverFull == Len(queue) <= QueueSize

\* Every offset handed out is in exactly one place: queued, being fetched,
\* arrived, in the file or failed; so no chunk is fetched twice, dropped
\* or written twice.
Places(k) ==
    Cardinality({i \in 1 .. Len(queue) : queue[i] = k})
      + Cardinality({w \in Workers : fetching[w] = k})
      + Cardinality({i \in 1 .. Len(written) : written[i] = k})
      + (IF k \in results THEN 1 ELSE 0)
      + (IF k \in failed THEN 1 ELSE 0)
EachChunkOnce ==
    next > 0 => \A k \in 0 .. LastChunk + Window : Places(k) = IF k < next THEN 1 ELSE 0

\* A file handed over without an exception has all chunks in order,
\* whatever became of single requests.
Whole == written = [i \in 1 .. LastChunk + 1 |-> i - 1]
OnlyExceptionsTruncate == outcome = "path" => Whole \/ thrown

\* A download ends unless the request of some chunk failed.
DownloadEnds == <>(outcome # "running")
EndsUnlessARequestFails == [](failed = {}) => DownloadEnds

\* The file grows by the next chunk and by nothing else, and is not touched
\* after the outcome (refinement).
Stream == INSTANCE FileStream WITH
            LastChunk <- LastChunk, written <- written, outcome <- outcome
StreamSpec == Stream!Spec

-----------------------------------------------------------------------------
\* "in case the download failed or was deliberately stopped ... None is
\* returned" (download_media.py:89): a path means that all of it is there.
PathMeansWhole == outcome = "path" => Whole
==============================================================================
