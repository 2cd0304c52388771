---------------------------- MODULE GetFileProofs ----------------------------
(***************************************************************************)
(* Proofs about GetFile for any number of workers, chunks and reuploads:   *)
(* types, the bound on the task queue, the refinement of FileStream, each  *)
(* offset once, and what a file that lacks chunks comes from.              *)
(***************************************************************************)
EXTENDS GetFile, FiniteSetTheorems, SequenceTheorems, TLAPS

\* The number of workers is a positive natural number, and so is the window.
LEMMA WorkersCounted == Cardinality(Workers) \in Nat \ {0}
<1>1. Cardinality(Workers) \in Nat
  BY FS_CardinalityType, WorkersAssumption
<1>2. Cardinality(Workers) # 0
  BY FS_EmptySet, WorkersAssumption
<1> QED BY <1>1, <1>2

LEMMA WindowBounds == /\ Window \in Nat \ {0}
                      /\ Window <= 2 * Cardinality(Workers)
  BY WorkersCounted, WindowAssumption, SMT DEF Window, Least

(***************************************************************************)
(* Types: Get is the action that needs the elements of the queue, every    *)
(* other action builds its new values from typed ones.                     *)
(***************************************************************************)
LEMMA InitType == Init => TypeOK
<1> SUFFICES ASSUME Init PROVE TypeOK
  OBVIOUS
<1>1. reuploads \in 0 .. Reuploads
  BY ReuploadsAssumption, SMT DEF Init
<1>2. queue \in Seq(Nat \cup {Stop}) /\ written \in Seq(Nat)
  BY SMT DEF Init
<1> QED BY <1>1, <1>2 DEF Init, TypeOK, Phases, Exceptions

LEMMA PillsType == /\ Pills \in Seq(Nat \cup {Stop})
                   /\ Len(Pills) = Cardinality(Workers)
  BY WorkersCounted, SMT DEF Pills

LEMMA NextType == TypeOK /\ [Next]_vars => TypeOK'
<1> SUFFICES ASSUME TypeOK, [Next]_vars PROVE TypeOK'
  OBVIOUS
<1> USE DEF TypeOK
<1>1. CASE Start
  <2>1. CASE Prefill /\ phase' = "poll"
    <3>1. queue' \in Seq(Nat \cup {Stop})
      BY <2>1, WindowBounds, SMT DEF Prefill
    <3>2. next' \in Nat
      BY <2>1, WindowBounds, SMT DEF Prefill
    <3> QED BY <1>1, <2>1, <3>1, <3>2 DEF Start, Phases
  <2>2. CASE phase' = "cdn_start" /\ UNCHANGED <<queue, next>>
    BY <1>1, <2>2 DEF Start, Phases
  <2> QED BY <1>1, <2>1, <2>2 DEF Start
<1>2. CASE Poll
  <2> DEFINE k == Len(written)
  <2>0. written \in Seq(Nat) /\ results \subseteq Nat /\ k \in Nat
    BY SMT
  <2>1. written' \in Seq(Nat) /\ results' \subseteq Nat
    <3> USE <2>0
    <3> HIDE DEF k, TypeOK
    <3>1. written' = Append(written, k) /\ results' = results \ {k}
      BY <1>2 DEF Poll, k
    <3> QED BY <3>1, SMT
  <2>2. CASE k >= LastChunk
    <3>1. queue' = queue \o Pills
      BY <1>2, <2>2 DEF Poll
    <3>2. queue' \in Seq(Nat \cup {Stop})
      BY <3>1, PillsType, SMT
    <3> QED BY <1>2, <2>1, <2>2, <3>2 DEF Poll, Phases
  <2>3. CASE ~(k >= LastChunk)
    <3>0. queue' = Append(queue, next) /\ next' = next + 1
      BY <1>2, <2>3 DEF Poll
    <3>1. queue' \in Seq(Nat \cup {Stop}) /\ next' \in Nat
      BY <3>0, SMT
    <3> QED BY <1>2, <2>1, <2>3, <3>1 DEF Poll, Phases
  <2> QED BY <2>2, <2>3
<1>3. ASSUME NEW w \in Workers, WorkerStep(w) PROVE TypeOK'
  <2>1. CASE Get(w)
    <3>1. queue' \in Seq(Nat \cup {Stop}) /\ Head(queue) \in Nat \cup {Stop}
      BY <2>1, SMT DEF Get
    <3> QED BY <2>1, <3>1 DEF Get
  <2>2. CASE Fetched(w)
    BY <2>2 DEF Fetched
  <2>3. CASE FetchFails(w)
    BY <2>3 DEF FetchFails
  <2> QED BY <1>3, <2>1, <2>2, <2>3 DEF WorkerStep
<1>4. CASE Progress \/ Gather \/ Throw \/ WriteFails \/ GiveUp
  <2>1. CASE Progress
    BY <2>1 DEF Progress, turbo, Phases
  <2>2. CASE Gather \/ Throw \/ WriteFails \/ GiveUp
    BY <2>2 DEF Gather, Throw, WriteFails, GiveUp, Over, turbo, Phases, Exceptions
  <2> QED BY <1>4, <2>1, <2>2
<1>5. CASE CdnAnswer
  <2>1. CASE UNCHANGED reuploads /\ CdnGoto("verify")
    BY <1>5, <2>1 DEF CdnAnswer, CdnGoto, turbo, Phases
  <2>2. CASE /\ reuploads < Reuploads
             /\ CdnGoto("reupload")
             /\ reuploads' = reuploads + 1
    <3>1. reuploads' \in 0 .. Reuploads
      BY <2>2, ReuploadsAssumption, SMT
    <3> QED BY <1>5, <2>2, <3>1 DEF CdnAnswer, CdnGoto, turbo, Phases
  <2> QED BY <1>5, <2>1, <2>2 DEF CdnAnswer
<1>6. CASE CdnStart \/ Reupload \/ CdnProgress \/ CdnThrow \/ CdnStop
  BY <1>6 DEF CdnStart, Reupload, CdnProgress, CdnThrow, CdnStop, CdnGoto,
              Over, turbo, Phases, Exceptions
<1>7. CASE Verify
  BY <1>7, SMT DEF Verify, CdnGoto, turbo, Phases
<1>8. CASE UNCHANGED vars
  BY <1>8 DEF vars
<1> QED BY <1>1, <1>2, <1>3, <1>4, <1>5, <1>6, <1>7, <1>8 DEF Next, Generator

\* Every variable keeps its type, whatever fails and in whatever order the
\* chunks arrive.
THEOREM TypeCorrectness == Spec => []TypeOK
<1>1. Init => TypeOK
  BY InitType
<1>2. TypeOK /\ [Next]_vars => TypeOK'
  BY NextType
<1> QED BY <1>1, <1>2, PTL DEF Spec

(***************************************************************************)
(* The queue.  While the generator polls, the queue holds the offsets up   *)
(* to next - 1 in order, and what has arrived was taken off it before, so  *)
(* that the chunk the generator yields next has left the queue: there is   *)
(* room in the window for the offset that follows.                         *)
(***************************************************************************)
Polling == phase \in {"poll", "progress"}

HeadOfQueue == next - Len(queue)

Contiguous == \A i \in 1 .. Len(queue) : queue[i] = HeadOfQueue + i - 1

QueueInv ==
    /\ Len(queue) <= QueueSize
    /\ Polling =>
         /\ next = Len(written) + Window
         /\ Len(queue) <= Window
         /\ Contiguous
         /\ \A k \in results : k < HeadOfQueue
         /\ \A w \in Workers : fetching[w] \in Nat => fetching[w] < HeadOfQueue
    /\ phase = "start" =>
         /\ queue = <<>> /\ written = <<>> /\ results = {}
         /\ \A w \in Workers : fetching[w] = Idle

LEMMA QueueInit == Init => QueueInv
<1> SUFFICES ASSUME Init PROVE QueueInv
  OBVIOUS
<1>1. Len(queue) <= QueueSize
  BY WorkersCounted, SMT DEF Init, QueueSize
<1> QED BY <1>1 DEF Init, QueueInv, Polling

LEMMA QueueNext == TypeOK /\ QueueInv /\ [Next]_vars => QueueInv'
<1> SUFFICES ASSUME TypeOK, QueueInv, [Next]_vars PROVE QueueInv'
  OBVIOUS
<1>0. /\ Cardinality(Workers) \in Nat \ {0}
      /\ Window \in Nat \ {0} /\ Window <= 2 * Cardinality(Workers)
      /\ QueueSize = 4 * Cardinality(Workers)
  BY WorkersCounted, WindowBounds DEF QueueSize
<1>t. /\ queue \in Seq(Nat \cup {Stop}) /\ Len(queue) \in Nat
      /\ next \in Nat /\ results \subseteq Nat
      /\ written \in Seq(Nat) /\ Len(written) \in Nat
      /\ fetching \in [Workers -> Nat \cup {Idle, Stop}]
  BY SMT DEF TypeOK
<1> DEFINE Kept == UNCHANGED <<queue, next, written, results, fetching>>
<1>k. ASSUME Kept, Polling' => Polling, phase' # "start" PROVE QueueInv'
  BY <1>k DEF QueueInv, Contiguous, HeadOfQueue, QueueSize, Window
<1>1. CASE Start
  <2>1. CASE phase' = "poll" /\ Prefill
    <3>1. /\ Len(queue') = Window /\ next' = Window /\ written' = <<>>
          /\ results' = {} /\ fetching' = fetching
          /\ \A i \in 1 .. Len(queue') : queue'[i] = i - 1
      BY <1>0, <1>1, <2>1, SMT DEF Start, Prefill, QueueInv
    <3>2. \A w \in Workers : fetching'[w] \notin Nat
      BY <1>1, <3>1, StopAssumption DEF Start, QueueInv
    <3>3. Len(queue)' <= QueueSize' /\ Len(queue)' <= Window' /\ next' = Len(written)' + Window'
      BY <1>0, <3>1, SMT DEF QueueSize, Window
    <3>4. Contiguous'
      BY <1>0, <3>1, SMT DEF Contiguous, HeadOfQueue
    <3> QED BY <2>1, <3>1, <3>2, <3>3, <3>4 DEF QueueInv
  <2>2. CASE phase' = "cdn_start" /\ UNCHANGED <<queue, next>>
    BY <1>1, <2>2, <1>k DEF Start, Polling
  <2> QED BY <1>1, <2>1, <2>2 DEF Start
<1>2. CASE Poll
  <2> DEFINE k == Len(written)
  <2>1. /\ phase = "poll" /\ k \in results /\ Polling
        /\ results' = results \ {k} /\ written' = Append(written, k)
        /\ fetching' = fetching
    BY <1>2 DEF Poll, Polling
  <2>2. /\ next = k + Window /\ k < next - Len(queue)
        /\ Len(queue) <= Window
        /\ Contiguous
        /\ \A j \in results : j < next - Len(queue)
        /\ \A w \in Workers : fetching[w] \in Nat => fetching[w] < next - Len(queue)
    BY <2>1 DEF QueueInv, HeadOfQueue
  <2>3. Len(queue) < Window
    BY <1>0, <1>t, <2>2, SMT
  <2>4. CASE k >= LastChunk
    <3>1. queue' = queue \o Pills /\ phase' = "gather"
      BY <1>2, <2>4 DEF Poll
    <3>2. Len(queue') = Len(queue) + Cardinality(Workers)
      BY <1>t, <3>1, PillsType, ConcatProperties
    <3>3. Len(queue)' <= QueueSize'
      BY <1>0, <1>t, <2>3, <3>2, SMT DEF QueueSize
    <3> QED BY <3>1, <3>3 DEF QueueInv, Polling
  <2>5. CASE ~(k >= LastChunk)
    <3>1. queue' = Append(queue, next) /\ next' = next + 1 /\ phase' = "progress"
      BY <1>2, <2>5 DEF Poll
    <3>2. Len(queue') = Len(queue) + 1 /\ Len(written') = k + 1
      BY <1>t, <2>1, <3>1, SMT
    <3>a. Window' = Window /\ QueueSize' = QueueSize
      BY DEF Window, QueueSize
    <3>3. Len(queue)' <= QueueSize' /\ Len(queue)' <= Window' /\ next' = Len(written)' + Window'
      BY <1>0, <1>t, <2>2, <2>3, <3>1, <3>2, <3>a, SMT
    <3>4. HeadOfQueue' = next - Len(queue)
      BY <1>t, <3>1, <3>2, SMT DEF HeadOfQueue
    <3>5. ASSUME NEW i \in 1 .. Len(queue') PROVE queue'[i] = next - Len(queue) + i - 1
      <4>1. CASE i \in 1 .. Len(queue)
        <5>1. queue'[i] = queue[i]
          BY <1>t, <3>1, <4>1, SMT
        <5> QED BY <2>2, <4>1, <5>1 DEF Contiguous, HeadOfQueue
      <4>2. CASE i = Len(queue) + 1
        BY <1>t, <3>1, <4>2, SMT
      <4> QED BY <1>t, <3>2, <4>1, <4>2, SMT
    <3>6. Contiguous'
      BY <3>4, <3>5 DEF Contiguous
    <3> QED BY <2>1, <2>2, <3>1, <3>3, <3>4, <3>6 DEF QueueInv
  <2> QED BY <2>4, <2>5
<1>3. ASSUME NEW w \in Workers, WorkerStep(w) PROVE QueueInv'
  <2>1. CASE Get(w)
    <3>1. /\ queue # <<>> /\ queue' = Tail(queue) /\ phase' = phase
          /\ UNCHANGED <<next, results, written>>
          /\ fetching' = [fetching EXCEPT ![w] = Head(queue)]
      BY <2>1 DEF Get
    <3>2. Len(queue') = Len(queue) - 1 /\ phase # "start"
      BY <1>t, <3>1, SMT DEF QueueInv
    <3>3. HeadOfQueue' = HeadOfQueue + 1
      BY <1>t, <3>1, <3>2, SMT DEF HeadOfQueue
    <3>4. Len(queue)' <= QueueSize'
      BY <1>0, <1>t, <3>2, SMT DEF QueueInv, QueueSize
    <3>5. CASE ~Polling
      BY <3>1, <3>2, <3>4, <3>5 DEF QueueInv, Polling
    <3>6. CASE Polling
      <4>1. /\ next = Len(written) + Window /\ Len(queue) <= Window /\ Contiguous
            /\ \A j \in results : j < HeadOfQueue
            /\ \A v \in Workers : fetching[v] \in Nat => fetching[v] < HeadOfQueue
        BY <3>6 DEF QueueInv
      <4>2. HeadOfQueue \in Int
        BY <1>t, SMT DEF HeadOfQueue
      <4>3. Head(queue) = HeadOfQueue
        <5>1. Head(queue) = queue[1] /\ 1 \in 1 .. Len(queue)
          BY <1>t, <3>1, SMT
        <5>2. queue[1] = HeadOfQueue + 1 - 1
          BY <4>1, <5>1 DEF Contiguous
        <5> QED BY <4>2, <5>1, <5>2, SMT
      <4>4. Contiguous'
        <5> SUFFICES ASSUME NEW i \in 1 .. Len(queue') PROVE queue'[i] = HeadOfQueue' + i - 1
          BY DEF Contiguous
        <5>1. queue'[i] = queue[i + 1] /\ i + 1 \in 1 .. Len(queue)
          BY <1>t, <3>1, <3>2, SMT
        <5>2. queue[i + 1] = HeadOfQueue + (i + 1) - 1
          BY <4>1, <5>1 DEF Contiguous
        <5> QED BY <1>t, <3>2, <3>3, <4>2, <5>1, <5>2, SMT
      <4>5. \A j \in results' : j < HeadOfQueue'
        BY <1>t, <3>1, <3>3, <4>1, <4>2, SMT
      <4>6. \A v \in Workers : fetching'[v] \in Nat => fetching'[v] < HeadOfQueue'
        BY <1>t, <3>1, <3>3, <4>1, <4>2, <4>3, SMT
      <4>7. Len(queue)' <= Window' /\ next' = Len(written)' + Window'
        BY <1>0, <1>t, <3>1, <3>2, <4>1, SMT DEF Window
      <4> QED BY <3>1, <3>2, <3>4, <4>4, <4>5, <4>6, <4>7 DEF QueueInv
    <3> QED BY <3>5, <3>6
  <2>2. CASE Fetched(w)
    <3>1. /\ fetching[w] \in Nat /\ results' = results \cup {fetching[w]}
          /\ fetching' = [fetching EXCEPT ![w] = Idle]
          /\ UNCHANGED <<phase, queue, next, written>>
      BY <2>2 DEF Fetched
    <3>2. phase # "start"
      BY <3>1, StopAssumption DEF QueueInv
    <3>3. Polling => \A k \in results' : k < HeadOfQueue'
      BY <3>1 DEF QueueInv, HeadOfQueue
    <3>4. Polling => \A v \in Workers : fetching'[v] \in Nat => fetching'[v] < HeadOfQueue'
      BY <1>t, <3>1, StopAssumption DEF QueueInv, HeadOfQueue
    <3> QED BY <3>1, <3>2, <3>3, <3>4 DEF QueueInv, Contiguous, HeadOfQueue, QueueSize, Window, Polling
  <2>3. CASE FetchFails(w)
    <3>1. /\ fetching[w] \in Nat
          /\ fetching' = [fetching EXCEPT ![w] = Idle]
          /\ UNCHANGED <<phase, queue, next, written, results>>
      BY <2>3 DEF FetchFails
    <3>2. phase # "start"
      BY <3>1, StopAssumption DEF QueueInv
    <3>3. Polling => \A v \in Workers : fetching'[v] \in Nat => fetching'[v] < HeadOfQueue'
      BY <1>t, <3>1, StopAssumption DEF QueueInv, HeadOfQueue
    <3> QED BY <3>1, <3>2, <3>3 DEF QueueInv, Contiguous, HeadOfQueue, QueueSize, Window, Polling
  <2> QED BY <1>3, <2>1, <2>2, <2>3 DEF WorkerStep
<1>4. CASE Progress \/ Gather \/ Throw \/ WriteFails \/ GiveUp
  BY <1>4, <1>k DEF Progress, Gather, Throw, WriteFails, GiveUp, Over, turbo, Polling
<1>5. CASE Verify
  BY <1>5, <1>t DEF Verify, CdnGoto, turbo, QueueInv, QueueSize, Polling
<1>6. CASE CdnStart \/ CdnAnswer \/ Reupload \/ CdnProgress \/ CdnThrow \/ CdnStop
  BY <1>6, <1>k DEF CdnStart, CdnAnswer, Reupload, CdnProgress, CdnThrow, CdnStop,
                    CdnGoto, Over, turbo, Polling
<1>7. CASE UNCHANGED vars
  BY <1>7 DEF vars, QueueInv, Contiguous, HeadOfQueue, QueueSize, Window, Polling
<1> QED BY <1>1, <1>2, <1>3, <1>4, <1>5, <1>6, <1>7 DEF Next, Generator

\* No put of the generator ever suspends on a full queue, so it cannot wait
\* for workers that wait for it.
THEOREM QueueBounded == Spec => []QueueNeverFull
<1>1. Init => TypeOK /\ QueueInv
  BY InitType, QueueInit
<1>2. TypeOK /\ QueueInv /\ [Next]_vars => (TypeOK /\ QueueInv)'
  BY NextType, QueueNext
<1>3. QueueInv => QueueNeverFull
  BY DEF QueueInv, QueueNeverFull
<1> QED BY <1>1, <1>2, <1>3, PTL DEF Spec

(***************************************************************************)
(* The refinement of FileStream.  It needs that the generator never asks   *)
(* for a chunk behind the short one, and that the file is handed over only *)
(* once.                                                                   *)
(***************************************************************************)
Reading == {"start", "poll", "progress", "cdn_start", "cdn", "reupload", "verify"}

StreamInv ==
    /\ phase \in Reading => Len(written) <= LastChunk
    /\ phase # "over" <=> outcome = "running"

LEMMA StreamInitial == Init => StreamInv /\ Stream!Init
<1> SUFFICES ASSUME Init PROVE StreamInv /\ Stream!Init
  OBVIOUS
<1>1. Len(written) <= LastChunk
  BY LastChunkAssumption, SMT DEF Init
<1> QED BY <1>1 DEF Init, StreamInv, Stream!Init

LEMMA StreamStep ==
  ASSUME TypeOK, StreamInv, [Next]_vars
  PROVE  StreamInv' /\ [Stream!Next]_<<written, outcome>>
<1> DEFINE Goal == StreamInv' /\ [Stream!Next]_<<written, outcome>>
<1>t. written \in Seq(Nat) /\ Len(written) \in Nat
  BY SMT DEF TypeOK
<1>1. ASSUME UNCHANGED <<written, outcome>>, phase' # "over", phase # "over",
             phase' \in Reading => Len(written) <= LastChunk
      PROVE  Goal
  BY <1>1 DEF StreamInv
<1>2. ASSUME NEW o \in Stream!Outcomes, phase # "over", Over(o), UNCHANGED written
      PROVE  Goal
  BY <1>2 DEF StreamInv, Over, Reading, Stream!Next, Stream!End, Stream!Outcomes
<1>3. ASSUME phase \in Reading, written' = Append(written, Len(written)), UNCHANGED outcome,
             phase' # "over", phase' \in Reading => Len(written) < LastChunk
      PROVE  Goal
  <2>1. outcome = "running" /\ Len(written) <= LastChunk
    BY <1>3 DEF StreamInv, Reading
  <2>2. Len(written') = Len(written) + 1
    BY <1>t, <1>3, SMT
  <2>3. phase' \in Reading => Len(written') <= LastChunk
    BY <1>3, <1>t, <2>2, LastChunkAssumption, SMT
  <2> QED BY <1>3, <2>1, <2>3 DEF StreamInv, Stream!Next, Stream!Deliver
<1>4. CASE Start
  BY <1>1, <1>4 DEF Start, StreamInv, Reading
<1>5. CASE Poll
  <2> DEFINE k == Len(written)
  <2>1. /\ phase = "poll" /\ written' = Append(written, Len(written)) /\ UNCHANGED outcome
        /\ IF k >= LastChunk THEN phase' = "gather" ELSE phase' = "progress"
    BY <1>5 DEF Poll
  <2>2. phase' \in Reading => Len(written) < LastChunk
    BY <1>t, <2>1, LastChunkAssumption, SMT DEF Reading
  <2> QED BY <1>3, <2>1, <2>2 DEF Reading
<1>6. CASE Verify
  BY <1>3, <1>6 DEF Verify, CdnGoto, Reading
<1>7. CASE CdnProgress
  <2>1. UNCHANGED <<written, outcome>> /\ phase' # "over" /\ phase # "over"
    BY <1>7 DEF CdnProgress, CdnGoto
  <2>2. phase' \in Reading => Len(written) <= LastChunk
    BY <1>t, <1>7, LastChunkAssumption, SMT DEF CdnProgress, CdnGoto, Reading
  <2> QED BY <1>1, <2>1, <2>2
<1>8. CASE Progress \/ CdnStart \/ CdnAnswer \/ Reupload \/ CdnThrow
  BY <1>1, <1>8 DEF Progress, CdnStart, CdnAnswer, Reupload, CdnThrow, CdnGoto,
                    turbo, StreamInv, Reading
<1>9. CASE Gather \/ Throw \/ WriteFails \/ GiveUp \/ CdnStop
  BY <1>2, <1>9 DEF Gather, Throw, WriteFails, GiveUp, CdnStop, Exceptions, Stream!Outcomes, TypeOK
<1>10. ASSUME NEW w \in Workers, WorkerStep(w) PROVE Goal
  BY <1>10 DEF WorkerStep, Get, Fetched, FetchFails, StreamInv
<1>11. CASE UNCHANGED vars
  BY <1>11 DEF vars, StreamInv
<1> QED BY <1>4, <1>5, <1>6, <1>7, <1>8, <1>9, <1>10, <1>11 DEF Next, Generator

\* The file grows by the next chunk, in order and each once, and is final
\* when its outcome is known, for any number of workers and any failures.
THEOREM ImplementsStream == Spec => StreamSpec
<1>1. Init => TypeOK /\ StreamInv /\ Stream!Init
  BY InitType, StreamInitial
<1>2. TypeOK /\ StreamInv /\ [Next]_vars
        => (TypeOK /\ StreamInv)' /\ [Stream!Next]_<<written, outcome>>
  BY NextType, StreamStep
<1>3. [Stream!Next]_<<written, outcome>> => [Stream!Next]_Stream!streamVars
  BY DEF Stream!streamVars
<1> QED BY <1>1, <1>2, <1>3, PTL DEF Spec, StreamSpec, Stream!Spec

(***************************************************************************)
(* Each offset once.  Pairwise: what is queued, fetched, arrived, failed   *)
(* or in the file is nowhere else, and nothing is there that was not       *)
(* handed out.  The file has the offsets below its length.                 *)
(***************************************************************************)
Sequential == {"start", "cdn_start", "cdn", "reupload", "verify", "cdn_progress", "cdn_stop"}

\* Handed out, and not in the file yet.
Out(k) == k < next /\ k >= Len(written)

\* The same after the step.
OutAfter(k) == k < next' /\ k >= Len(written')

Placed(k) ==
    \/ \E i \in 1 .. Len(queue) : queue[i] = k
    \/ \E w \in Workers : fetching[w] = k
    \/ k \in results
    \/ k \in failed

FileInv ==
    /\ phase \in Sequential => next = 0
    /\ phase = "start" => written = <<>>
    /\ next = 0 => queue = <<>> /\ results = {} /\ failed = {} /\ \A w \in Workers : fetching[w] = Idle
    /\ \A i \in 1 .. Len(written) : written[i] = i - 1
    /\ next > 0 => Len(written) <= next

NoneLost == \A k \in Nat : Out(k) => Placed(k)

QueuedApart ==
    \A i \in 1 .. Len(queue) : queue[i] \in Nat =>
      /\ Out(queue[i]) /\ queue[i] \notin results /\ queue[i] \notin failed
      /\ \A j \in 1 .. Len(queue) : j # i => queue[j] # queue[i]
      /\ \A w \in Workers : fetching[w] # queue[i]

HeldApart ==
    \A w \in Workers : fetching[w] \in Nat =>
      /\ Out(fetching[w]) /\ fetching[w] \notin results /\ fetching[w] \notin failed
      /\ \A v \in Workers : v # w => fetching[v] # fetching[w]

DoneApart ==
    /\ \A k \in results : Out(k) /\ k \notin failed
    /\ \A k \in failed : Out(k)

OffsetsInv == FileInv /\ NoneLost /\ QueuedApart /\ HeldApart /\ DoneApart

LEMMA OffsetsInit == Init => OffsetsInv
<1> SUFFICES ASSUME Init PROVE OffsetsInv
  OBVIOUS
<1>1. Len(queue) = 0 /\ Len(written) = 0 /\ results = {} /\ failed = {} /\ next = 0
      /\ queue = <<>> /\ written = <<>> /\ \A w \in Workers : fetching[w] = Idle
  BY DEF Init
<1>2. FileInv
  BY <1>1, SMT DEF FileInv
<1>3. NoneLost
  BY <1>1, SMT DEF NoneLost, Out
<1>4. QueuedApart
  BY <1>1, SMT DEF QueuedApart
<1>5. HeldApart
  BY <1>1, StopAssumption DEF HeldApart
<1>6. DoneApart
  BY <1>1 DEF DoneApart
<1> QED BY <1>2, <1>3, <1>4, <1>5, <1>6 DEF OffsetsInv

\* Nothing moves, and the generator is not set back to a state in which it
\* has handed out nothing.
LEMMA OffsetsKept ==
  ASSUME OffsetsInv, UNCHANGED <<queue, next, written, results, fetching, failed>>,
         phase' \in Sequential => phase \in Sequential, phase' # "start"
  PROVE  OffsetsInv'
<1>1. FileInv'
  BY DEF OffsetsInv, FileInv
<1>2. NoneLost'
  BY DEF OffsetsInv, NoneLost, Out, Placed
<1>3. QueuedApart' /\ HeldApart' /\ DoneApart'
  BY DEF OffsetsInv, QueuedApart, HeldApart, DoneApart, Out
<1> QED BY <1>1, <1>2, <1>3 DEF OffsetsInv

LEMMA OffsetsStart == TypeOK /\ OffsetsInv /\ Start => OffsetsInv'
<1> SUFFICES ASSUME TypeOK, OffsetsInv, Start PROVE OffsetsInv'
  OBVIOUS
<1>1. CASE phase' = "poll" /\ Prefill
  <2>1. /\ phase = "start" /\ UNCHANGED <<fetching, results, written, failed>>
        /\ written = <<>> /\ next = 0 /\ FileInv
    BY <1>1 DEF Start, OffsetsInv, FileInv, Sequential
  <2>2. /\ results' = {} /\ failed' = {} /\ written' = <<>> /\ Len(written') = 0
        /\ \A w \in Workers : fetching'[w] \notin Nat
    BY <2>1, StopAssumption DEF FileInv
  <2>3. /\ Window \in Nat \ {0} /\ next' = Window /\ Len(queue') = Window
        /\ \A i \in 1 .. Window : queue'[i] = i - 1
    BY <1>1, WindowBounds, SMT DEF Prefill
  <2>4. FileInv'
    BY <1>1, <2>2, <2>3, SMT DEF FileInv, Sequential
  <2>5. NoneLost'
    <3> SUFFICES ASSUME NEW k \in Nat, k < Window PROVE Placed(k)'
      BY <2>3 DEF NoneLost, Out
    <3>1. k + 1 \in 1 .. Len(queue') /\ queue'[k + 1] = k
      BY <2>3, SMT
    <3> QED BY <3>1 DEF Placed
  <2>6. QueuedApart'
    <3> SUFFICES ASSUME NEW i \in 1 .. Len(queue'), queue'[i] \in Nat
                 PROVE  /\ OutAfter(queue'[i])
                        /\ \A j \in 1 .. Len(queue') : j # i => queue'[j] # queue'[i]
      BY <2>2 DEF QueuedApart, Out, OutAfter
    <3>1. queue'[i] = i - 1 /\ i \in Nat /\ \A j \in 1 .. Len(queue') : queue'[j] = j - 1
      BY <2>3, SMT
    <3>2. OutAfter(queue'[i])
      BY <2>2, <2>3, <3>1, SMT DEF Out, OutAfter
    <3>3. \A j \in 1 .. Len(queue') : j # i => queue'[j] # queue'[i]
      BY <2>3, <3>1, SMT
    <3> QED BY <3>2, <3>3
  <2>7. HeldApart' /\ DoneApart'
    BY <2>2 DEF HeldApart, DoneApart
  <2> QED BY <2>4, <2>5, <2>6, <2>7 DEF OffsetsInv
<1>2. CASE phase' = "cdn_start" /\ UNCHANGED <<queue, next>>
  BY <1>2, OffsetsKept DEF Start, Sequential
<1> QED BY <1>1, <1>2 DEF Start

LEMMA OffsetsPoll == TypeOK /\ OffsetsInv /\ Poll => OffsetsInv'
<1> SUFFICES ASSUME TypeOK, OffsetsInv, Poll PROVE OffsetsInv'
  OBVIOUS
<1> DEFINE k == Len(written)
<1>t. /\ queue \in Seq(Nat \cup {Stop}) /\ Len(queue) \in Nat
      /\ next \in Nat /\ results \subseteq Nat /\ failed \subseteq Nat
      /\ written \in Seq(Nat) /\ k \in Nat
      /\ fetching \in [Workers -> Nat \cup {Idle, Stop}]
  BY SMT DEF TypeOK
<1>o. FileInv /\ NoneLost /\ QueuedApart /\ HeldApart /\ DoneApart
  BY DEF OffsetsInv
<1>1. /\ phase = "poll" /\ k \in results /\ results' = results \ {k}
      /\ written' = Append(written, k) /\ UNCHANGED <<fetching, failed>>
      /\ phase' \in {"gather", "progress"}
  BY DEF Poll
<1>2. Len(written') = k + 1 /\ \A i \in 1 .. k + 1 : written'[i] = i - 1
  <2>1. /\ Len(written') = k + 1 /\ written'[k + 1] = k
        /\ \A i \in 1 .. k : written'[i] = written[i]
    BY <1>t, <1>1, SMT
  <2>2. \A i \in 1 .. k : written[i] = i - 1
    BY <1>o DEF FileInv
  <2> QED BY <1>t, <2>1, <2>2, SMT
<1>3. Out(k) /\ k < next /\ k \notin failed
  BY <1>o, <1>1 DEF DoneApart, Out
<1>4. next > 0
  BY <1>t, <1>3, SMT
<1> HIDE DEF k
<1>5. \A j \in Nat : (OutAfter(j) /\ j # next) => Out(j) /\ j # k
  <2>1. next' = next \/ next' = next + 1
    BY DEF Poll
  <2> SUFFICES ASSUME NEW j \in Nat, OutAfter(j), j # next PROVE Out(j) /\ j # k
    OBVIOUS
  <2>2. j < next' /\ j >= k + 1
    BY <1>2 DEF Out, OutAfter
  <2>3. j < next /\ j >= k /\ j # k
    BY <1>t, <2>1, <2>2, SMT
  <2> QED BY <2>3 DEF Out, k
<1>6. \A j \in Nat : Out(j) /\ j # k => OutAfter(j)
  <2>1. next' = next \/ next' = next + 1
    BY DEF Poll
  <2> SUFFICES ASSUME NEW j \in Nat, j < next, j >= k, j # k PROVE OutAfter(j)
    BY DEF Out, OutAfter, k
  <2>2. j < next' /\ j >= k + 1
    BY <1>t, <2>1, SMT
  <2> QED BY <1>2, <2>2 DEF Out, OutAfter
<1>7. ~Out(next)
  BY <1>t, SMT DEF Out
<1>8. HeldApart' /\ DoneApart'
  <2>1. \A j \in results' : j \in results /\ j # k /\ j \in Nat
    BY <1>1, <1>t
  <2>2. HeldApart'
    <3> SUFFICES ASSUME NEW w \in Workers, fetching[w] \in Nat
                 PROVE  /\ OutAfter(fetching[w]) /\ fetching[w] \notin results' /\ fetching[w] \notin failed
                        /\ \A v \in Workers : v # w => fetching[v] # fetching[w]
      BY <1>1 DEF HeldApart, Out, OutAfter
    <3>1. /\ Out(fetching[w]) /\ fetching[w] \notin results /\ fetching[w] \notin failed
          /\ \A v \in Workers : v # w => fetching[v] # fetching[w]
      BY <1>o DEF HeldApart
    <3>2. fetching[w] # k
      BY <1>1, <3>1
    <3> QED BY <1>1, <1>6, <3>1, <3>2
  <2>3. DoneApart'
    <3>1. \A j \in results' : Out(j) /\ j \notin failed'
      BY <1>o, <1>1, <2>1 DEF DoneApart
    <3>2. \A j \in failed' : Out(j) /\ j \in Nat /\ j # k
      BY <1>o, <1>t, <1>1, <1>3 DEF DoneApart
    <3> QED BY <1>6, <2>1, <3>1, <3>2 DEF DoneApart, Out, OutAfter
  <2> QED BY <2>2, <2>3
<1>9. ASSUME next' = next \/ next' = next + 1 PROVE FileInv'
  <2>1. next' > 0 /\ k + 1 <= next'
    BY <1>t, <1>3, <1>4, <1>9, SMT
  <2>2. phase' \notin Sequential /\ phase' # "start" /\ next' # 0
    BY <1>t, <1>1, <1>9, <2>1, SMT DEF Sequential
  <2> QED BY <1>2, <2>1, <2>2 DEF FileInv
<1>10. ASSUME NEW j \in Nat, Out(j), j # k, ~\E i \in 1 .. Len(queue) : queue[i] = j
       PROVE  Placed(j)'
  <2>1. (\E w \in Workers : fetching[w] = j) \/ j \in results \/ j \in failed
    BY <1>o, <1>10 DEF NoneLost, Placed
  <2> QED BY <1>1, <1>10, <2>1 DEF Placed
<1>11. ASSUME NEW i \in 1 .. Len(queue), queue[i] \in Nat
       PROVE  /\ OutAfter(queue[i]) /\ queue[i] # next
              /\ queue[i] \notin results' /\ queue[i] \notin failed'
              /\ \A j \in 1 .. Len(queue) : j # i => queue[j] # queue[i]
              /\ \A w \in Workers : fetching'[w] # queue[i]
  <2>1. /\ Out(queue[i]) /\ queue[i] \notin results /\ queue[i] \notin failed
        /\ \A j \in 1 .. Len(queue) : j # i => queue[j] # queue[i]
        /\ \A w \in Workers : fetching[w] # queue[i]
    BY <1>o, <1>11 DEF QueuedApart
  <2>2. queue[i] # k
    BY <1>1, <2>1
  <2>3. queue[i] # next
    BY <1>7, <2>1
  <2> QED BY <1>1, <1>6, <1>11, <2>1, <2>2, <2>3
<1>12. CASE queue' = Append(queue, next) /\ next' = next + 1
  <2>1. /\ Len(queue') = Len(queue) + 1 /\ queue'[Len(queue) + 1] = next
        /\ \A i \in 1 .. Len(queue) : queue'[i] = queue[i]
    BY <1>t, <1>12, SMT
  <2>2. /\ Len(queue) + 1 \in 1 .. Len(queue')
        /\ \A i \in 1 .. Len(queue) : i \in 1 .. Len(queue') /\ i # Len(queue) + 1
        /\ \A i \in 1 .. Len(queue') : i \in 1 .. Len(queue) \/ i = Len(queue) + 1
    BY <1>t, <2>1, SMT
  <2>3. NoneLost'
    <3> SUFFICES ASSUME NEW j \in Nat, OutAfter(j) PROVE Placed(j)'
      BY DEF NoneLost, Out, OutAfter
    <3>1. CASE j = next
      BY <2>1, <2>2, <3>1 DEF Placed
    <3>2. CASE j # next /\ \E i \in 1 .. Len(queue) : queue[i] = j
      BY <2>1, <2>2, <3>2 DEF Placed
    <3>3. CASE j # next /\ ~\E i \in 1 .. Len(queue) : queue[i] = j
      BY <1>5, <1>10, <3>3
    <3> QED BY <3>1, <3>2, <3>3
  <2>4. /\ OutAfter(next) /\ next \notin results' /\ next \notin failed'
        /\ \A w \in Workers : fetching'[w] # next
    <3>1. OutAfter(next)
      <4>1. next < next' /\ next >= k + 1
        BY <1>t, <1>3, <1>12, SMT
      <4> QED BY <1>2, <4>1 DEF Out, OutAfter
    <3>2. next \notin results /\ next \notin failed
      BY <1>o, <1>7 DEF DoneApart
    <3>3. \A w \in Workers : fetching[w] # next
      BY <1>o, <1>7, <1>t DEF HeldApart
    <3> QED BY <1>1, <3>1, <3>2, <3>3
  <2>5. QueuedApart'
    <3> SUFFICES ASSUME NEW i \in 1 .. Len(queue'), queue'[i] \in Nat
                 PROVE  /\ OutAfter(queue'[i]) /\ queue'[i] \notin results' /\ queue'[i] \notin failed'
                        /\ \A j \in 1 .. Len(queue') : j # i => queue'[j] # queue'[i]
                        /\ \A w \in Workers : fetching'[w] # queue'[i]
      BY DEF QueuedApart, Out, OutAfter
    <3>1. CASE i = Len(queue) + 1
      <4>1. \A j \in 1 .. Len(queue) : queue[j] # next
        BY <1>11, <1>t
      <4>2. \A j \in 1 .. Len(queue') : j # i => queue'[j] # next
        BY <2>1, <2>2, <3>1, <4>1
      <4> QED BY <2>1, <2>4, <3>1, <4>2
    <3>2. CASE i \in 1 .. Len(queue)
      <4>1. queue'[i] = queue[i] /\ queue[i] \in Nat
        BY <2>1, <3>2
      <4>2. \A j \in 1 .. Len(queue') : j # i => queue'[j] # queue[i]
        BY <1>11, <2>1, <2>2, <3>2, <4>1
      <4>3. /\ OutAfter(queue[i]) /\ queue[i] \notin results' /\ queue[i] \notin failed'
            /\ \A w \in Workers : fetching'[w] # queue[i]
        BY <1>11, <3>2, <4>1
      <4> QED BY <4>1, <4>2, <4>3
    <3> QED BY <2>2, <3>1, <3>2
  <2> QED BY <1>8, <1>9, <1>12, <2>3, <2>5 DEF OffsetsInv
<1>13. CASE queue' = queue \o Pills /\ next' = next
  <2>1. /\ Len(queue') = Len(queue) + Cardinality(Workers)
        /\ \A i \in 1 .. Len(queue') : IF i <= Len(queue) THEN queue'[i] = queue[i] ELSE queue'[i] = Stop
    <3>1. Pills \in Seq(Nat \cup {Stop}) /\ Len(Pills) = Cardinality(Workers) /\ Len(Pills) \in Nat
      BY PillsType, WorkersCounted
    <3>2. \A i \in 1 .. Len(Pills) : Pills[i] = Stop
      BY <3>1 DEF Pills
    <3>3. /\ Len(queue \o Pills) = Len(queue) + Len(Pills)
          /\ \A i \in 1 .. Len(queue) + Len(Pills) :
               (queue \o Pills)[i] = IF i <= Len(queue) THEN queue[i] ELSE Pills[i - Len(queue)]
      BY <1>t, <3>1, ConcatProperties
    <3>4. \A i \in 1 .. Len(queue) + Len(Pills) : i > Len(queue) => i - Len(queue) \in 1 .. Len(Pills)
      BY <1>t, <3>1, SMT
    <3> QED BY <1>t, <1>13, <3>1, <3>2, <3>3, <3>4
  <2>2. /\ \A i \in 1 .. Len(queue) : i \in 1 .. Len(queue') /\ queue'[i] = queue[i]
        /\ \A i \in 1 .. Len(queue') : i \in 1 .. Len(queue) \/ queue'[i] = Stop
    BY <1>t, <2>1, WorkersCounted, SMT
  <2>3. NoneLost'
    <3> SUFFICES ASSUME NEW j \in Nat, OutAfter(j) PROVE Placed(j)'
      BY DEF NoneLost, Out, OutAfter
    <3>1. j # next
      BY <1>13, <1>t, SMT DEF Out, OutAfter
    <3>2. CASE \E i \in 1 .. Len(queue) : queue[i] = j
      BY <2>2, <3>2 DEF Placed
    <3> QED BY <1>5, <1>10, <3>1, <3>2
  <2>4. QueuedApart'
    <3> SUFFICES ASSUME NEW i \in 1 .. Len(queue'), queue'[i] \in Nat
                 PROVE  /\ OutAfter(queue'[i]) /\ queue'[i] \notin results' /\ queue'[i] \notin failed'
                        /\ \A j \in 1 .. Len(queue') : j # i => queue'[j] # queue'[i]
                        /\ \A w \in Workers : fetching'[w] # queue'[i]
      BY DEF QueuedApart, Out, OutAfter
    <3>1. i \in 1 .. Len(queue) /\ queue'[i] = queue[i] /\ queue[i] \in Nat /\ queue[i] # Stop
      BY <2>2, StopAssumption
    <3>2. \A j \in 1 .. Len(queue') : j # i => queue'[j] # queue[i]
      BY <1>11, <2>2, <3>1
    <3>3. /\ OutAfter(queue[i]) /\ queue[i] \notin results' /\ queue[i] \notin failed'
          /\ \A w \in Workers : fetching'[w] # queue[i]
      BY <1>11, <3>1
    <3> QED BY <3>1, <3>2, <3>3
  <2> QED BY <1>8, <1>9, <1>13, <2>3, <2>4 DEF OffsetsInv
<1> QED BY <1>12, <1>13 DEF Poll

LEMMA OffsetsGet ==
  ASSUME TypeOK, OffsetsInv, NEW w \in Workers, Get(w)
  PROVE  OffsetsInv'
<1> DEFINE u == queue[1]
<1>t. /\ queue \in Seq(Nat \cup {Stop}) /\ Len(queue) \in Nat
      /\ results \subseteq Nat /\ failed \subseteq Nat
      /\ fetching \in [Workers -> Nat \cup {Idle, Stop}]
  BY SMT DEF TypeOK
<1>o. FileInv /\ NoneLost /\ QueuedApart /\ HeldApart /\ DoneApart
  BY DEF OffsetsInv
<1>1. /\ queue # <<>> /\ Len(queue) > 0 /\ Head(queue) = u /\ u \in Nat \cup {Stop}
      /\ queue' = Tail(queue) /\ Len(queue') = Len(queue) - 1 /\ 1 \in 1 .. Len(queue)
      /\ fetching[w] = Idle /\ fetching' = [fetching EXCEPT ![w] = u]
      /\ UNCHANGED <<phase, next, results, written, failed>>
  BY <1>t, SMT DEF Get
<1>2. /\ \A i \in 1 .. Len(queue') : queue'[i] = queue[i + 1] /\ i + 1 \in 1 .. Len(queue) /\ i + 1 # 1
      /\ \A i \in 1 .. Len(queue) : i # 1 => i - 1 \in 1 .. Len(queue') /\ queue'[i - 1] = queue[i]
      /\ \A i, j \in 1 .. Len(queue') : i # j => i + 1 # j + 1
  BY <1>t, <1>1, SMT
<1>3. fetching'[w] = u /\ \A v \in Workers : v # w => fetching'[v] = fetching[v]
  BY <1>t, <1>1
<1>4. \A j \in Nat : OutAfter(j) <=> Out(j)
  BY <1>1 DEF Out, OutAfter
<1>5. queue[1] = u
  OBVIOUS
<1> HIDE DEF u
<1>6. FileInv'
  <2>1. next # 0
    BY <1>o, <1>1 DEF FileInv
  <2> QED BY <1>o, <1>1, <2>1 DEF FileInv
<1>7. NoneLost'
  <2> SUFFICES ASSUME NEW j \in Nat, Placed(j) PROVE Placed(j)'
    BY <1>o, <1>4 DEF NoneLost, Out, OutAfter
  <2>1. CASE j \in results \/ j \in failed
    BY <1>1, <2>1 DEF Placed
  <2>2. CASE \E i \in 1 .. Len(queue) : queue[i] = j
    <3>1. PICK i \in 1 .. Len(queue) : queue[i] = j
      BY <2>2
    <3>2. CASE i = 1
      BY <1>3, <1>5, <3>1, <3>2 DEF Placed
    <3>3. CASE i # 1
      BY <1>2, <3>1, <3>3 DEF Placed
    <3> QED BY <3>2, <3>3
  <2>3. CASE \E v \in Workers : fetching[v] = j
    <3>1. PICK v \in Workers : fetching[v] = j
      BY <2>3
    <3>2. v # w
      BY <1>1, <3>1, StopAssumption
    <3> QED BY <1>3, <3>1, <3>2 DEF Placed
  <2> QED BY <2>1, <2>2, <2>3 DEF Placed
<1>8. u \in Nat => /\ Out(u) /\ u \notin results /\ u \notin failed
                   /\ \A v \in Workers : fetching[v] # u
                   /\ \A i \in 1 .. Len(queue) : i # 1 => queue[i] # u
  BY <1>o, <1>1, <1>5 DEF QueuedApart
<1>9. QueuedApart'
  <2> SUFFICES ASSUME NEW i \in 1 .. Len(queue'), queue'[i] \in Nat
               PROVE  /\ OutAfter(queue'[i]) /\ queue'[i] \notin results' /\ queue'[i] \notin failed'
                      /\ \A j \in 1 .. Len(queue') : j # i => queue'[j] # queue'[i]
                      /\ \A v \in Workers : fetching'[v] # queue'[i]
    BY DEF QueuedApart, Out, OutAfter
  <2> DEFINE n == i + 1
  <2>1. queue'[i] = queue[n] /\ n \in 1 .. Len(queue) /\ n # 1 /\ queue[n] \in Nat
    BY <1>2
  <2>2. \A j \in 1 .. Len(queue') : j # i => queue'[j] = queue[j + 1] /\ j + 1 \in 1 .. Len(queue) /\ j + 1 # n
    BY <1>2
  <2> HIDE DEF n
  <2>3. /\ Out(queue[n]) /\ queue[n] \notin results /\ queue[n] \notin failed
        /\ \A j \in 1 .. Len(queue) : j # n => queue[j] # queue[n]
        /\ \A v \in Workers : fetching[v] # queue[n]
    BY <1>o, <2>1 DEF QueuedApart
  <2>4. \A j \in 1 .. Len(queue') : j # i => queue'[j] # queue'[i]
    BY <2>1, <2>2, <2>3
  <2>5. \A v \in Workers : fetching'[v] # queue'[i]
    BY <1>3, <1>8, <2>1, <2>3
  <2> QED BY <1>1, <1>4, <2>1, <2>3, <2>4, <2>5
<1>10. HeldApart'
  <2> SUFFICES ASSUME NEW v \in Workers, fetching'[v] \in Nat
               PROVE  /\ OutAfter(fetching'[v]) /\ fetching'[v] \notin results' /\ fetching'[v] \notin failed'
                      /\ \A x \in Workers : x # v => fetching'[x] # fetching'[v]
    BY DEF HeldApart, Out, OutAfter
  <2>1. CASE v = w
    <3>1. fetching'[v] = u /\ u \in Nat
      BY <1>3, <2>1
    <3>2. \A x \in Workers : x # v => fetching'[x] # u
      BY <1>3, <1>8, <2>1, <3>1
    <3> QED BY <1>1, <1>4, <1>8, <3>1, <3>2
  <2>2. CASE v # w
    <3>1. fetching'[v] = fetching[v] /\ fetching[v] \in Nat
      BY <1>3, <2>2
    <3>2. /\ Out(fetching[v]) /\ fetching[v] \notin results /\ fetching[v] \notin failed
          /\ \A x \in Workers : x # v => fetching[x] # fetching[v]
      BY <1>o, <3>1 DEF HeldApart
    <3>3. u # fetching[v]
      BY <1>8, <3>1
    <3>4. \A x \in Workers : x # v => fetching'[x] # fetching[v]
      BY <1>3, <3>2, <3>3
    <3> QED BY <1>1, <1>4, <3>1, <3>2, <3>4
  <2> QED BY <2>1, <2>2
<1>11. DoneApart'
  BY <1>o, <1>t, <1>1, <1>4 DEF DoneApart, Out
<1> QED BY <1>6, <1>7, <1>9, <1>10, <1>11 DEF OffsetsInv

\* A worker's request ends, with the chunk or without.
LEMMA OffsetsAnswered ==
  ASSUME TypeOK, OffsetsInv, NEW w \in Workers, Fetched(w) \/ FetchFails(w)
  PROVE  OffsetsInv'
<1> DEFINE u == fetching[w]
<1>t. /\ results \subseteq Nat /\ failed \subseteq Nat
      /\ fetching \in [Workers -> Nat \cup {Idle, Stop}] /\ Idle \notin Nat
  BY StopAssumption DEF TypeOK
<1>o. FileInv /\ NoneLost /\ QueuedApart /\ HeldApart /\ DoneApart
  BY DEF OffsetsInv
<1>1. /\ u \in Nat /\ fetching' = [fetching EXCEPT ![w] = Idle]
      /\ UNCHANGED <<phase, queue, next, written>>
      /\ \/ results' = results \cup {u} /\ failed' = failed
         \/ failed' = failed \cup {u} /\ results' = results
  BY DEF Fetched, FetchFails
<1>2. fetching'[w] = Idle /\ \A v \in Workers : v # w => fetching'[v] = fetching[v]
  BY <1>t, <1>1
<1>3. \A j \in Nat : OutAfter(j) <=> Out(j)
  BY <1>1 DEF Out, OutAfter
<1>4. /\ Out(u) /\ u \notin results /\ u \notin failed
      /\ \A v \in Workers : v # w => fetching[v] # u
  BY <1>o, <1>1 DEF HeldApart
<1>5. \A i \in 1 .. Len(queue) : queue[i] # u
  BY <1>o, <1>1 DEF QueuedApart
<1>6. fetching[w] = u
  OBVIOUS
<1> HIDE DEF u
<1>7. FileInv'
  <2>1. next # 0
    BY <1>o, <1>t, <1>1, <1>6 DEF FileInv
  <2> QED BY <1>o, <1>1, <2>1 DEF FileInv
<1>8. NoneLost'
  <2> SUFFICES ASSUME NEW j \in Nat, Placed(j) PROVE Placed(j)'
    BY <1>o, <1>3 DEF NoneLost, Out, OutAfter
  <2>1. CASE j = u
    BY <1>1, <2>1 DEF Placed
  <2>2. CASE j # u
    BY <1>1, <1>2, <1>6, <2>2 DEF Placed
  <2> QED BY <2>1, <2>2
<1>9. QueuedApart'
  <2> SUFFICES ASSUME NEW i \in 1 .. Len(queue), queue[i] \in Nat
               PROVE  /\ OutAfter(queue[i]) /\ queue[i] \notin results' /\ queue[i] \notin failed'
                      /\ \A j \in 1 .. Len(queue) : j # i => queue[j] # queue[i]
                      /\ \A v \in Workers : fetching'[v] # queue[i]
    BY <1>1 DEF QueuedApart, Out, OutAfter
  <2>1. /\ Out(queue[i]) /\ queue[i] \notin results /\ queue[i] \notin failed
        /\ \A j \in 1 .. Len(queue) : j # i => queue[j] # queue[i]
        /\ \A v \in Workers : fetching[v] # queue[i]
    BY <1>o DEF QueuedApart
  <2>2. queue[i] # u /\ queue[i] # Idle
    BY <1>5, <1>t
  <2>3. \A v \in Workers : fetching'[v] # queue[i]
    BY <1>2, <2>1, <2>2
  <2> QED BY <1>1, <1>3, <2>1, <2>2, <2>3
<1>10. HeldApart'
  <2> SUFFICES ASSUME NEW v \in Workers, fetching'[v] \in Nat
               PROVE  /\ OutAfter(fetching'[v]) /\ fetching'[v] \notin results' /\ fetching'[v] \notin failed'
                      /\ \A x \in Workers : x # v => fetching'[x] # fetching'[v]
    BY DEF HeldApart, Out, OutAfter
  <2>1. v # w /\ fetching'[v] = fetching[v] /\ fetching[v] \in Nat
    BY <1>t, <1>2
  <2>2. /\ Out(fetching[v]) /\ fetching[v] \notin results /\ fetching[v] \notin failed
        /\ \A x \in Workers : x # v => fetching[x] # fetching[v]
    BY <1>o, <2>1 DEF HeldApart
  <2>3. fetching[v] # u
    BY <1>4, <2>1
  <2>4. \A x \in Workers : x # v => fetching'[x] # fetching[v]
    BY <1>t, <1>2, <2>1, <2>2
  <2> QED BY <1>1, <1>3, <2>1, <2>2, <2>3, <2>4
<1>11. DoneApart'
  <2>0. /\ \A j \in results : Out(j) /\ j \notin failed /\ j # u /\ j \in Nat
        /\ \A j \in failed : Out(j) /\ j \in Nat
    BY <1>o, <1>t, <1>4 DEF DoneApart
  <2>1. \A j \in results' : Out(j) /\ j \notin failed' /\ j \in Nat
    BY <1>1, <1>4, <2>0
  <2>2. \A j \in failed' : Out(j) /\ j \in Nat
    BY <1>1, <1>4, <2>0
  <2> QED BY <1>3, <2>1, <2>2 DEF DoneApart, Out, OutAfter
<1> QED BY <1>7, <1>8, <1>9, <1>10, <1>11 DEF OffsetsInv

LEMMA OffsetsVerify == TypeOK /\ OffsetsInv /\ Verify => OffsetsInv'
<1> SUFFICES ASSUME TypeOK, OffsetsInv, Verify PROVE OffsetsInv'
  OBVIOUS
<1>t. written \in Seq(Nat) /\ Len(written) \in Nat
  BY SMT DEF TypeOK
<1>1. /\ written' = Append(written, Len(written)) /\ phase' = "cdn_progress" /\ next = 0 /\ next' = 0
      /\ UNCHANGED <<queue, results, fetching, failed>> /\ FileInv
  BY DEF Verify, CdnGoto, turbo, OffsetsInv, FileInv, Sequential
<1>2. /\ queue' = <<>> /\ results' = {} /\ failed' = {} /\ Len(queue') = 0
      /\ \A w \in Workers : fetching'[w] = Idle
  BY <1>1 DEF FileInv
<1>3. \A i \in 1 .. Len(written') : written'[i] = i - 1
  <2>1. \A i \in 1 .. Len(written) : written[i] = i - 1
    BY <1>1 DEF FileInv
  <2> QED BY <1>t, <1>1, <2>1, SMT
<1>4. FileInv'
  BY <1>1, <1>2, <1>3 DEF FileInv
<1>5. NoneLost'
  BY <1>1, SMT DEF NoneLost, Out
<1>6. QueuedApart'
  BY <1>2, SMT DEF QueuedApart
<1>7. HeldApart' /\ DoneApart'
  BY <1>2, StopAssumption DEF HeldApart, DoneApart
<1> QED BY <1>4, <1>5, <1>6, <1>7 DEF OffsetsInv

LEMMA OffsetsNext == TypeOK /\ OffsetsInv /\ [Next]_vars => OffsetsInv'
<1> SUFFICES ASSUME TypeOK, OffsetsInv, [Next]_vars PROVE OffsetsInv'
  OBVIOUS
<1>1. CASE Progress \/ Gather \/ Throw \/ WriteFails \/ GiveUp
  BY <1>1, OffsetsKept DEF Progress, Gather, Throw, WriteFails, GiveUp, Over, turbo, Sequential
<1>2. CASE CdnStart \/ CdnAnswer \/ Reupload \/ CdnProgress \/ CdnThrow \/ CdnStop
  BY <1>2, OffsetsKept DEF CdnStart, CdnAnswer, Reupload, CdnProgress, CdnThrow, CdnStop,
                           CdnGoto, Over, turbo, Sequential
<1>3. ASSUME NEW w \in Workers, WorkerStep(w) PROVE OffsetsInv'
  BY <1>3, OffsetsGet, OffsetsAnswered DEF WorkerStep
<1>4. CASE UNCHANGED vars
  BY <1>4 DEF vars, OffsetsInv, FileInv, NoneLost, QueuedApart, HeldApart, DoneApart, Out, Placed
<1> QED BY <1>1, <1>2, <1>3, <1>4, OffsetsStart, OffsetsPoll, OffsetsVerify DEF Next, Generator

\* A set of which one condition selects at most one member.
LEMMA AtMostOne ==
  ASSUME NEW S, \A x, y \in S : x = y
  PROVE  Cardinality(S) = IF S = {} THEN 0 ELSE 1
<1>1. CASE S = {}
  BY <1>1, FS_EmptySet
<1>2. CASE S # {}
  <2>1. PICK x \in S : TRUE
    BY <1>2
  <2>2. S = {x}
    BY <2>1
  <2> QED BY <1>2, <2>2, FS_Singleton
<1> QED BY <1>1, <1>2

LEMMA OffsetsMean == TypeOK /\ OffsetsInv => EachChunkOnce
<1> SUFFICES ASSUME TypeOK, OffsetsInv, next > 0, NEW k \in 0 .. LastChunk + Window
             PROVE  Places(k) = IF k < next THEN 1 ELSE 0
  BY DEF EachChunkOnce
<1> DEFINE Q == {i \in 1 .. Len(queue) : queue[i] = k}
           W == {w \in Workers : fetching[w] = k}
           F == {i \in 1 .. Len(written) : written[i] = k}
<1>t. k \in Nat /\ next \in Nat /\ Len(written) \in Nat /\ Len(written) <= next
  BY WindowBounds, LastChunkAssumption, SMT DEF TypeOK, OffsetsInv, FileInv
<1>o. FileInv /\ NoneLost /\ QueuedApart /\ HeldApart /\ DoneApart
  BY DEF OffsetsInv
<1>1. Cardinality(Q) = IF Q = {} THEN 0 ELSE 1
  <2>1. \A x, y \in Q : x = y
    BY <1>t, <1>o DEF QueuedApart
  <2> HIDE DEF Q
  <2> QED BY <2>1, AtMostOne
<1>2. Cardinality(W) = IF W = {} THEN 0 ELSE 1
  <2>1. \A x, y \in W : x = y
    BY <1>t, <1>o DEF HeldApart
  <2> HIDE DEF W
  <2> QED BY <2>1, AtMostOne
<1>3. Cardinality(F) = IF k < Len(written) THEN 1 ELSE 0
  <2>1. F = IF k < Len(written) THEN {k + 1} ELSE {}
    BY <1>t, <1>o, SMT DEF FileInv
  <2> HIDE DEF F
  <2> QED BY <2>1, FS_Singleton, FS_EmptySet
<1>4. Q # {} => Out(k) /\ W = {} /\ k \notin results /\ k \notin failed
  BY <1>t, <1>o DEF QueuedApart
<1>5. W # {} => Out(k) /\ k \notin results /\ k \notin failed
  BY <1>t, <1>o DEF HeldApart
<1>6. (k \in results => Out(k) /\ k \notin failed) /\ (k \in failed => Out(k))
  BY <1>t, <1>o DEF DoneApart
<1>7. Out(k) => Q # {} \/ W # {} \/ k \in results \/ k \in failed
  BY <1>t, <1>o DEF NoneLost, Placed
<1>8. Places(k) = Cardinality(Q) + Cardinality(W) + Cardinality(F)
                    + (IF k \in results THEN 1 ELSE 0) + (IF k \in failed THEN 1 ELSE 0)
  BY DEF Places
<1> HIDE DEF Q, W, F
<1> QED BY <1>t, <1>1, <1>2, <1>3, <1>4, <1>5, <1>6, <1>7, <1>8, SMT DEF Out

\* Whatever fails and whenever the caller gives up, no offset is ever fetched
\* twice, lost or written twice: each that was handed out is queued, with a
\* worker, arrived, failed or in the file, and nowhere else.
THEOREM OffsetsOnce == Spec => []EachChunkOnce
<1>1. Init => TypeOK /\ OffsetsInv
  BY InitType, OffsetsInit
<1>2. TypeOK /\ OffsetsInv /\ [Next]_vars => (TypeOK /\ OffsetsInv)'
  BY NextType, OffsetsNext
<1>3. TypeOK /\ OffsetsInv => EachChunkOnce
  BY OffsetsMean
<1> QED BY <1>1, <1>2, <1>3, PTL DEF Spec

(***************************************************************************)
(* Nothing but an exception truncates.  Unless one was thrown, the         *)
(* generator leaves its loop with the short chunk written, on either path. *)
(***************************************************************************)
Ended == phase \in {"gather", "cdn_stop"} \/ outcome = "path"

WholeInv ==
    /\ phase = "cdn_progress" => Len(written) <= LastChunk + 1
    /\ Ended => thrown \/ Len(written) = LastChunk + 1

LEMMA WholeInit == Init => WholeInv
  BY DEF Init, WholeInv, Ended

LEMMA WholeNext == TypeOK /\ StreamInv /\ WholeInv /\ [Next]_vars => WholeInv'
<1> SUFFICES ASSUME TypeOK, StreamInv, WholeInv, [Next]_vars PROVE WholeInv'
  OBVIOUS
<1>t. written \in Seq(Nat) /\ Len(written) \in Nat /\ LastChunk \in Nat
  BY LastChunkAssumption, SMT DEF TypeOK
<1>1. CASE Poll
  <2>1. /\ phase = "poll" /\ written' = Append(written, Len(written)) /\ outcome' = outcome
        /\ phase' = IF Len(written) >= LastChunk THEN "gather" ELSE "progress"
    BY <1>1 DEF Poll
  <2>2. Len(written') = Len(written) + 1 /\ Len(written) <= LastChunk /\ outcome = "running"
    BY <1>t, <2>1, SMT DEF StreamInv, Reading
  <2>3. phase' = "gather" => Len(written') = LastChunk + 1
    BY <1>t, <2>1, <2>2, SMT
  <2> QED BY <2>1, <2>2, <2>3 DEF WholeInv, Ended
<1>2. CASE Verify
  <2>1. /\ phase = "verify" /\ written' = Append(written, Len(written)) /\ outcome' = outcome
        /\ phase' = "cdn_progress"
    BY <1>2 DEF Verify, CdnGoto
  <2>2. Len(written') <= LastChunk + 1 /\ outcome = "running"
    BY <1>t, <2>1, SMT DEF StreamInv, Reading
  <2> QED BY <2>1, <2>2 DEF WholeInv, Ended
<1>3. CASE CdnProgress
  <2>1. /\ phase = "cdn_progress" /\ UNCHANGED <<written, outcome, thrown>>
        /\ phase' = IF Len(written) > LastChunk THEN "cdn_stop" ELSE "cdn"
    BY <1>3 DEF CdnProgress, CdnGoto
  <2>2. phase' = "cdn_stop" => Len(written) = LastChunk + 1
    BY <1>t, <2>1, SMT DEF WholeInv
  <2>3. outcome = "running"
    BY <2>1 DEF StreamInv
  <2> QED BY <2>1, <2>2, <2>3 DEF WholeInv, Ended
<1>4. CASE Gather \/ CdnStop
  BY <1>4 DEF Gather, CdnStop, Over, WholeInv, Ended
<1>5. CASE Throw \/ WriteFails \/ GiveUp \/ CdnThrow
  BY <1>5 DEF Throw, WriteFails, GiveUp, CdnThrow, Over, StreamInv, WholeInv, Ended
<1>6. CASE Start \/ Progress \/ CdnStart \/ CdnAnswer \/ Reupload
  BY <1>6 DEF Start, Progress, CdnStart, CdnAnswer, Reupload, CdnGoto, StreamInv, WholeInv, Ended
<1>7. ASSUME NEW w \in Workers, WorkerStep(w) PROVE WholeInv'
  BY <1>7 DEF WorkerStep, Get, Fetched, FetchFails, WholeInv, Ended
<1>8. CASE UNCHANGED vars
  BY <1>8 DEF vars, WholeInv, Ended
<1> QED BY <1>1, <1>2, <1>3, <1>4, <1>5, <1>6, <1>7, <1>8 DEF Next, Generator

LEMMA WholeMeans == TypeOK /\ OffsetsInv /\ WholeInv => OnlyExceptionsTruncate
<1> SUFFICES ASSUME TypeOK, OffsetsInv, WholeInv, outcome = "path", ~thrown
             PROVE  Whole
  BY DEF OnlyExceptionsTruncate
<1>1. written \in Seq(Nat) /\ Len(written) = LastChunk + 1
  BY SMT DEF TypeOK, WholeInv, Ended
<1>2. \A i \in 1 .. LastChunk + 1 : written[i] = i - 1
  BY <1>1 DEF OffsetsInv, FileInv
<1>3. written = [i \in 1 .. Len(written) |-> written[i]]
  BY <1>1, SMT
<1> QED BY <1>1, <1>2, <1>3 DEF Whole

\* A path without an exception is a path to the whole file in order, whatever
\* became of single requests and on either of the two ways of downloading.
THEOREM ExceptionsAlone == Spec => []OnlyExceptionsTruncate
<1>1. Init => TypeOK /\ StreamInv /\ OffsetsInv /\ WholeInv
  BY InitType, StreamInitial, OffsetsInit, WholeInit
<1>2. TypeOK /\ StreamInv /\ OffsetsInv /\ WholeInv /\ [Next]_vars
        => (TypeOK /\ StreamInv /\ OffsetsInv /\ WholeInv)'
  BY NextType, StreamStep, OffsetsNext, WholeNext
<1>3. TypeOK /\ OffsetsInv /\ WholeInv => OnlyExceptionsTruncate
  BY WholeMeans
<1> QED BY <1>1, <1>2, <1>3, PTL DEF Spec
==============================================================================
