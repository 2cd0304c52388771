--------------------------- MODULE SaveFileProofs ---------------------------
(***************************************************************************)
(* Proofs about SaveFile for any number of workers and parts: types, the   *)
(* count that queue.join() waits for, that no part is forgotten and that   *)
(* none is sent again without need.                                        *)
(***************************************************************************)
EXTENDS SaveFile, FiniteSetTheorems, SequenceTheorems, TLAPS

LEMMA WorkersCounted == Cardinality(Workers) \in Nat \ {0}
<1>1. Cardinality(Workers) \in Nat
  BY FS_CardinalityType, WorkersAssumption
<1>2. Cardinality(Workers) # 0
  BY FS_EmptySet, WorkersAssumption
<1> QED BY <1>1, <1>2

(***************************************************************************)
(* The workers that do something out of a set of things to do, and how     *)
(* their number changes when one worker turns to something else.           *)
(***************************************************************************)
At(S)     == {w \in Workers : doing[w] \in S}
One(d, S) == IF d \in S THEN 1 ELSE 0
Turn(w, d) == doing' = [doing EXCEPT ![w] = d]

LEMMA AtFinite ==
  ASSUME NEW S
  PROVE  IsFiniteSet(At(S)) /\ Cardinality(At(S)) \in Nat
  BY WorkersAssumption, FS_Subset, FS_CardinalityType DEF At

LEMMA AtMove ==
  ASSUME NEW S, NEW w \in Workers, NEW d, Turn(w, d),
         doing \in [Workers -> Nat \cup {Idle, Report, Stop}]
  PROVE  /\ Cardinality(At(S)') \in Nat
         /\ Cardinality(At(S)') + One(doing[w], S) = Cardinality(At(S)) + One(d, S)
<1>1. IsFiniteSet(At(S)) /\ Cardinality(At(S)) \in Nat
  BY AtFinite
<1>2. IsFiniteSet(At(S)') /\ Cardinality(At(S)') \in Nat
  BY WorkersAssumption, FS_Subset, FS_CardinalityType DEF At
<1>3. \A v \in Workers : doing'[v] = IF v = w THEN d ELSE doing[v]
  BY DEF Turn
<1>4. CASE d \in S /\ doing[w] \notin S
  <2>1. At(S)' = At(S) \cup {w} /\ w \notin At(S)
    BY <1>3, <1>4 DEF At
  <2>2. Cardinality(At(S) \cup {w}) = Cardinality(At(S)) + 1
    BY <1>1, <2>1, FS_AddElement
  <2> QED BY <1>1, <1>2, <1>4, <2>1, <2>2 DEF One
<1>5. CASE d \notin S /\ doing[w] \in S
  <2>1. At(S)' = At(S) \ {w} /\ w \in At(S)
    BY <1>3, <1>5 DEF At
  <2>2. Cardinality(At(S) \ {w}) = Cardinality(At(S)) - 1
    BY <1>1, <2>1, FS_RemoveElement
  <2> QED BY <1>1, <1>2, <1>5, <2>1, <2>2 DEF One
<1>6. CASE d \in S <=> doing[w] \in S
  <2>1. At(S)' = At(S)
    BY <1>3, <1>6 DEF At
  <2> QED BY <1>1, <1>2, <1>6, <2>1 DEF One
<1> QED BY <1>4, <1>5, <1>6

(***************************************************************************)
(* The types, the pool in each phase, and the count.  A call begins and    *)
(* ends with an empty queue and no worker; while parts are queued, nobody  *)
(* has a pill; while the pills are taken, nobody has a part.               *)
(***************************************************************************)
Queueing == {"put", "join"}
Resting  == {"start", "resolve", "send", "over"}
Busy     == Nat \cup {Report, Stop}

Counted ==
    phase \in Queueing => unfinished = Len(queue) + Cardinality(At(Busy))

PoolInv ==
    /\ phase \in {"start", "put"} => file_part < Parts
    /\ phase \in Queueing => /\ queue \in Seq(PartNumbers)
                             /\ \A w \in Workers : doing[w] # Stop
    /\ phase = "gather" => /\ queue \in Seq({Stop})
                           /\ \A w \in Workers : doing[w] \in {Idle, Stop}
                           /\ Len(queue) + Cardinality(At({Stop})) = Cardinality(Workers)
    /\ phase \in Resting => queue = <<>> /\ unfinished = 0 /\ \A w \in Workers : doing[w] = Stop

IInv == TypeOK /\ PoolInv /\ Counted

LEMMA Parted == PartNumbers \subseteq Nat /\ Stop \notin PartNumbers
                /\ Idle \notin PartNumbers /\ Report \notin PartNumbers
  BY PartsAssumption, MarksAssumption, SMT DEF PartNumbers

LEMMA IInvTypes ==
  ASSUME IInv
  PROVE  /\ queue \in Seq(PartNumbers \cup {Stop}) /\ Len(queue) \in Nat
         /\ unfinished \in Nat /\ file_part \in 0 .. Parts /\ file_part \in Nat
         /\ doing \in [Workers -> PartNumbers \cup {Idle, Report, Stop}]
         /\ doing \in [Workers -> Nat \cup {Idle, Report, Stop}]
<1>1. /\ queue \in Seq(PartNumbers \cup {Stop}) /\ unfinished \in Nat
      /\ file_part \in 0 .. Parts
      /\ doing \in [Workers -> PartNumbers \cup {Idle, Report, Stop}]
  BY DEF IInv, TypeOK
<1>2. Len(queue) \in Nat
  BY <1>1, LenProperties
<1>3. file_part \in Nat
  BY <1>1, PartsAssumption, SMT
<1>4. doing \in [Workers -> Nat \cup {Idle, Report, Stop}]
  BY <1>1, Parted
<1> QED BY <1>1, <1>2, <1>3, <1>4

LEMMA InitInv == Init => IInv
<1> SUFFICES ASSUME Init PROVE IInv
  OBVIOUS
<1>1. file_part \in 0 .. Parts /\ queue \in Seq(PartNumbers \cup {Stop})
  BY PartsAssumption, SMT DEF Init
<1>2. tried \subseteq PartNumbers /\ due \in [PartNumbers -> Int]
  BY SMT DEF Init
<1>4. TypeOK
  BY <1>1, <1>2 DEF Init, TypeOK, Phases
<1>3. PoolInv /\ Counted
  BY PartsAssumption, SMT DEF Init, PoolInv, Counted, Queueing, Resting
<1> QED BY <1>3, <1>4 DEF IInv

\* What a step leaves alone when it only goes from one rest to another.
LEMMA Rest ==
  ASSUME IInv, TypeOK', UNCHANGED <<queue, unfinished, doing>>,
         phase \in Resting, phase' \in Resting,
         phase' = "start" => file_part' < Parts
  PROVE  IInv'
<1>1. PoolInv' /\ Counted'
  BY DEF IInv, PoolInv, Counted, Queueing, Resting
<1> QED BY <1>1 DEF IInv

(***************************************************************************)
(* The steps of the caller.                                                *)
(***************************************************************************)
LEMMA StartStep ==
  ASSUME IInv, Start
  PROVE  IInv'
<1>1. /\ phase' = "put" /\ queue' = <<>> /\ unfinished' = 0
      /\ doing' = [w \in Workers |-> Idle] /\ file_part' = file_part
  BY DEF Start, IInv, PoolInv, Resting, Queueing
<1>2. TypeOK'
  BY <1>1 DEF Start, IInv, TypeOK, Phases, server
<1>3. At(Busy)' = {}
  BY <1>1, MarksAssumption DEF At, Busy
<1>4. Cardinality(At(Busy)') = 0
  BY <1>3, FS_EmptySet
<1>5. Counted'
  BY <1>1, <1>4, SMT DEF Counted
<1>6. file_part < Parts
  BY DEF IInv, PoolInv, Start
<1>7. <<>> \in Seq(PartNumbers)
  BY SMT
<1>8. PoolInv'
  BY <1>1, <1>6, <1>7, MarksAssumption DEF PoolInv, Resting, Queueing
<1> QED BY <1>2, <1>5, <1>8 DEF IInv

LEMMA StartFailsStep ==
  ASSUME IInv, StartFails
  PROVE  IInv'
<1>1. TypeOK'
  BY DEF StartFails, Over, IInv, TypeOK, Phases, server, pool
<1> QED BY <1>1, Rest DEF StartFails, Over, Resting, pool

\* The loop rests until an answer, a retry of a part or an error.
LEMMA SendSteps ==
  ASSUME IInv, Resolve \/ Accepted \/ Unrecognised \/ FilePartMissing \/ SendMediaFails
  PROVE  IInv'
<1>1. CASE Accepted \/ SendMediaFails
  <2>1. TypeOK'
    BY <1>1 DEF Accepted, SendMediaFails, Over, IInv, TypeOK, Phases, server, pool
  <2> QED BY <1>1, <2>1, Rest DEF Accepted, SendMediaFails, Over, Resting, pool
<1>2. CASE FilePartMissing
  <2>1. PICK p \in PartNumbers \ stored :
          file_part' = p /\ due' = [due EXCEPT ![p] = 1]
    BY <1>2 DEF FilePartMissing
  <2>2. file_part' \in 0 .. Parts /\ file_part' < Parts
    BY <2>1, PartsAssumption, SMT DEF PartNumbers
  <2>3. due' \in [PartNumbers -> Int]
    BY <2>1 DEF IInv, TypeOK
  <2>4. TypeOK'
    BY <1>2, <2>2, <2>3 DEF FilePartMissing, IInv, TypeOK, Phases, pool
  <2> QED BY <1>2, <2>2, <2>4, Rest DEF FilePartMissing, Resting, pool
<1>3. CASE Resolve \/ Unrecognised
  <2>1. TypeOK'
    BY <1>3 DEF Resolve, Unrecognised, IInv, TypeOK, Phases, server, pool
  <2> QED BY <1>3, <2>1, Rest DEF Resolve, Unrecognised, Resting, pool
<1> QED BY <1>1, <1>2, <1>3

\* The parts a Fill reads: at least one, and never past the file.
LEMMA FillStep ==
  ASSUME IInv, Fill
  PROVE  IInv'
<1> DEFINE n == Least(IF retrying THEN 1 ELSE Parts - file_part, QueueSize - Len(queue))
           more == [i \in 1 .. n |-> file_part + i - 1]
<1>1. /\ phase = "put" /\ n > 0
      /\ queue' = queue \o more
      /\ unfinished' = unfinished + n
      /\ file_part' = file_part + n
      /\ IF retrying \/ file_part + n = Parts
         THEN phase' = "join" /\ whole' = TRUE
         ELSE UNCHANGED <<phase, whole>>
      /\ UNCHANGED <<retrying, doing, uploaded, server, outcome, stopped>>
  BY DEF Fill
<1>2. /\ file_part < Parts /\ queue \in Seq(PartNumbers)
      /\ \A w \in Workers : doing[w] # Stop
      /\ unfinished = Len(queue) + Cardinality(At(Busy))
  BY <1>1 DEF IInv, PoolInv, Counted, Queueing
<1>3. Len(queue) \in Nat /\ unfinished \in Nat /\ file_part \in Nat
  BY IInvTypes
<1>4. n \in Nat \ {0} /\ file_part + n <= Parts
  <2>1. Parts - file_part \in Nat \ {0} /\ QueueSize - Len(queue) \in Int
    BY <1>2, <1>3, PartsAssumption, QueueAssumption, SMT
  <2> QED BY <1>1, <1>3, <2>1, PartsAssumption, SMT DEF Least
<1> HIDE DEF n
<1>5. more \in Seq(PartNumbers) /\ Len(more) = n
  <2>1. \A i \in 1 .. n : file_part + i - 1 \in PartNumbers
    BY <1>3, <1>4, PartsAssumption, SMT DEF PartNumbers
  <2>2. more \in [1 .. n -> PartNumbers]
    BY <2>1
  <2> QED BY <1>4, <2>2, SMT
<1> HIDE DEF more
<1>6. queue' \in Seq(PartNumbers) /\ Len(queue') = Len(queue) + n
  BY <1>1, <1>2, <1>5, ConcatProperties
<1>7. queue' \in Seq(PartNumbers \cup {Stop})
  BY <1>6, SMT
<1>8. /\ phase' \in Queueing /\ phase' \in Phases /\ whole' \in BOOLEAN
      /\ phase' = "put" => file_part' < Parts
  <2>1. phase' \in Queueing /\ phase' \in Phases /\ whole' \in BOOLEAN
    BY <1>1 DEF Queueing, Phases, IInv, TypeOK
  <2>2. phase' = "put" => file_part + n # Parts
    BY <1>1
  <2>3. phase' = "put" => file_part' < Parts
    BY <1>1, <1>3, <1>4, <2>2, PartsAssumption, SMT
  <2> QED BY <2>1, <2>3
<1>9. unfinished' \in Nat /\ file_part' \in 0 .. Parts
  BY <1>1, <1>3, <1>4, PartsAssumption, SMT
<1>10. TypeOK'
  BY <1>1, <1>7, <1>8, <1>9 DEF IInv, TypeOK, server
<1>11. At(Busy)' = At(Busy) /\ Cardinality(At(Busy)) \in Nat
  BY <1>1, AtFinite DEF At
<1>12. Counted'
  BY <1>1, <1>2, <1>3, <1>4, <1>6, <1>11, SMT DEF Counted
<1>13. PoolInv'
  BY <1>1, <1>2, <1>6, <1>8 DEF PoolInv, Queueing, Resting
<1> QED BY <1>10, <1>12, <1>13 DEF IInv

LEMMA ReadFailsStep ==
  ASSUME IInv, ReadFails
  PROVE  IInv'
<1>1. TypeOK'
  BY DEF ReadFails, IInv, TypeOK, Phases, server, pool
<1>2. At(Busy)' = At(Busy)
  BY DEF ReadFails, pool, At
<1>3. PoolInv' /\ Counted'
  BY <1>2 DEF ReadFails, IInv, PoolInv, Counted, Queueing, Resting, pool
<1> QED BY <1>1, <1>3 DEF IInv

\* When join() returns, all workers wait for a part and no part is queued.
LEMMA JoinIdle ==
  ASSUME IInv, Join
  PROVE  queue = <<>> /\ \A w \in Workers : doing[w] = Idle
<1>1. /\ unfinished = 0 /\ unfinished = Len(queue) + Cardinality(At(Busy))
      /\ queue \in Seq(PartNumbers)
  BY DEF Join, IInv, PoolInv, Counted, Queueing
<1>2. IsFiniteSet(At(Busy)) /\ Cardinality(At(Busy)) \in Nat /\ Len(queue) \in Nat
  BY AtFinite, IInvTypes
<1>3. Len(queue) = 0 /\ Cardinality(At(Busy)) = 0
  BY <1>1, <1>2, SMT
<1>4. queue = <<>> /\ At(Busy) = {}
  BY <1>1, <1>2, <1>3, FS_EmptySet, EmptySeq
<1> QED BY <1>4, IInvTypes, Parted DEF At, Busy

LEMMA JoinStep ==
  ASSUME IInv, Join
  PROVE  IInv'
<1>1. /\ phase' = "gather" /\ queue' = queue \o Pills /\ unfinished' = Cardinality(Workers)
      /\ UNCHANGED <<retrying, file_part, whole, doing, uploaded, server, outcome, stopped>>
  BY DEF Join
<1>2. queue = <<>> /\ \A w \in Workers : doing[w] = Idle
  BY JoinIdle
<1>3. Cardinality(Workers) \in Nat
  BY WorkersCounted
<1>4. Pills \in Seq({Stop}) /\ Len(Pills) = Cardinality(Workers)
  <2>1. Pills \in [1 .. Cardinality(Workers) -> {Stop}]
    BY DEF Pills
  <2> QED BY <1>3, <2>1, SMT DEF Pills
<1>5. queue' = Pills /\ queue' \in Seq(PartNumbers \cup {Stop})
  <2>1. queue' = Pills
    BY <1>1, <1>2, <1>4, ConcatEmptySeq
  <2> QED BY <1>4, <2>1, SMT
<1>6. TypeOK'
  BY <1>1, <1>3, <1>5 DEF IInv, TypeOK, Phases, server
<1>7. At({Stop})' = {} /\ Cardinality(At({Stop})') = 0
  BY <1>1, <1>2, MarksAssumption, FS_EmptySet DEF At
<1>8. Len(queue') + Cardinality(At({Stop})') = Cardinality(Workers)
  BY <1>3, <1>4, <1>5, <1>7, SMT
<1>9. PoolInv' /\ Counted'
  BY <1>1, <1>2, <1>4, <1>5, <1>8 DEF PoolInv, Counted, Queueing, Resting, At
<1> QED BY <1>6, <1>9 DEF IInv

\* When all workers have ended, every pill was taken.
LEMMA GatherStep ==
  ASSUME IInv, Gather
  PROVE  IInv'
<1>1. /\ phase = "gather" /\ phase' \in {"resolve", "over"} /\ unfinished' = 0
      /\ \A w \in Workers : doing[w] = Stop
      /\ outcome' \in {outcome, "raised"}
      /\ UNCHANGED <<retrying, file_part, whole, queue, doing, uploaded, server, stopped>>
  BY DEF Gather, Returned, Over
<1>2. /\ queue \in Seq({Stop})
      /\ Len(queue) + Cardinality(At({Stop})) = Cardinality(Workers)
  BY <1>1 DEF IInv, PoolInv
<1>3. Len(queue) \in Nat /\ Cardinality(Workers) \in Nat
  BY IInvTypes, WorkersCounted
<1>4. At({Stop}) = Workers
  BY <1>1 DEF At
<1>5. Len(queue) = 0
  BY <1>2, <1>3, <1>4, SMT
<1>6. queue = <<>>
  BY <1>2, <1>5, EmptySeq
<1>7. TypeOK'
  BY <1>1 DEF IInv, TypeOK, Phases, server
<1>8. PoolInv' /\ Counted'
  BY <1>1, <1>6 DEF PoolInv, Counted, Queueing, Resting
<1> QED BY <1>7, <1>8 DEF IInv

(***************************************************************************)
(* The steps of a worker.  It has a part only while parts are queued, and  *)
(* is then counted; it leaves the count when it calls task_done.           *)
(***************************************************************************)
LEMMA Working ==
  ASSUME IInv, NEW w \in Workers, doing[w] \in Nat \cup {Report}
  PROVE  phase \in Queueing
  BY MarksAssumption DEF IInv, TypeOK, PoolInv, Phases, Queueing, Resting

LEMMA WorkerMove ==
  ASSUME IInv, NEW w \in Workers, doing[w] \in Nat \cup {Report},
         UNCHANGED <<phase, file_part, queue>>,
         \/ Turn(w, Report) /\ UNCHANGED unfinished
         \/ Done(w)
  PROVE  /\ PoolInv' /\ Counted' /\ unfinished' \in Nat
         /\ doing' \in [Workers -> PartNumbers \cup {Idle, Report, Stop}]
<1>1. phase \in Queueing
  BY Working
<1>2. PICK d \in {Idle, Report} :
        Turn(w, d) /\ unfinished' = unfinished - 1 + One(d, Busy)
  <2>1. One(Report, Busy) = 1 /\ One(Idle, Busy) = 0
    BY MarksAssumption DEF One, Busy
  <2>2. CASE Turn(w, Report) /\ UNCHANGED unfinished
    BY <2>1, <2>2, IInvTypes, SMT
  <2>3. CASE Done(w)
    BY <2>1, <2>3, IInvTypes, SMT DEF Done, Turn
  <2> QED BY <2>2, <2>3
<1>3. One(doing[w], Busy) = 1 /\ One(d, Busy) \in {0, 1}
  BY DEF One, Busy
<1>4. /\ Cardinality(At(Busy)') \in Nat
      /\ Cardinality(At(Busy)') + One(doing[w], Busy) = Cardinality(At(Busy)) + One(d, Busy)
  BY <1>2, AtMove, IInvTypes
<1>5. /\ Cardinality(At(Busy)) \in Nat /\ Len(queue) \in Nat /\ unfinished \in Nat
      /\ unfinished = Len(queue) + Cardinality(At(Busy))
  BY <1>1, AtFinite, IInvTypes DEF IInv, Counted
<1>6. unfinished' \in Nat /\ unfinished' = Len(queue') + Cardinality(At(Busy)')
  BY <1>2, <1>3, <1>4, <1>5, SMT
<1>7. /\ doing' \in [Workers -> PartNumbers \cup {Idle, Report, Stop}]
      /\ \A v \in Workers : doing'[v] = IF v = w THEN d ELSE doing[v]
  BY <1>2, IInvTypes DEF Turn
<1>8. PoolInv'
  BY <1>1, <1>7, MarksAssumption DEF IInv, PoolInv, Queueing, Resting
<1> QED BY <1>6, <1>7, <1>8 DEF Counted

LEMMA SentStep ==
  ASSUME IInv, NEW w \in Workers, Sent(w)
  PROVE  IInv'
<1>1. /\ doing[w] \in Nat
      /\ uploaded' = uploaded + 1
      /\ Try(doing[w])
      /\ stored' = stored \cup {doing[w]} \/ stored' = stored
      /\ \/ Turn(w, Report) /\ UNCHANGED unfinished
         \/ Done(w)
      /\ UNCHANGED <<caller, queue, stopped>>
  BY DEF Sent, Turn
<1>2. /\ PoolInv' /\ Counted' /\ unfinished' \in Nat
      /\ doing' \in [Workers -> PartNumbers \cup {Idle, Report, Stop}]
  BY <1>1, WorkerMove DEF caller
<1>3. doing[w] \in PartNumbers
  BY <1>1, IInvTypes, MarksAssumption
<1>4. /\ stored' \subseteq PartNumbers /\ uploaded' \in Nat
      /\ tried' \subseteq PartNumbers /\ due' \in [PartNumbers -> Int]
  BY <1>1, <1>3 DEF IInv, TypeOK, Try
<1>5. TypeOK'
  BY <1>1, <1>2, <1>4 DEF IInv, TypeOK, caller
<1> QED BY <1>2, <1>5 DEF IInv

LEMMA SendFailsStep ==
  ASSUME IInv, NEW w \in Workers, SendFails(w)
  PROVE  IInv'
<1>1. /\ doing[w] \in Nat
      /\ Try(doing[w])
      /\ Done(w)
      /\ UNCHANGED <<caller, queue, uploaded, stored, stopped>>
  BY DEF SendFails
<1>2. /\ PoolInv' /\ Counted' /\ unfinished' \in Nat
      /\ doing' \in [Workers -> PartNumbers \cup {Idle, Report, Stop}]
  BY <1>1, WorkerMove DEF caller
<1>3. tried' \subseteq PartNumbers /\ due' \in [PartNumbers -> Int]
  BY <1>1, IInvTypes, MarksAssumption DEF IInv, TypeOK, Try
<1>4. TypeOK'
  BY <1>1, <1>2, <1>3 DEF IInv, TypeOK, caller
<1> QED BY <1>2, <1>4 DEF IInv

LEMMA ReportedStep ==
  ASSUME IInv, NEW w \in Workers, Reported(w)
  PROVE  IInv'
<1>1. /\ doing[w] = Report /\ Done(w) /\ stopped' \in {stopped, TRUE}
      /\ UNCHANGED <<caller, queue, uploaded, server>>
  BY DEF Reported
<1>2. /\ PoolInv' /\ Counted' /\ unfinished' \in Nat
      /\ doing' \in [Workers -> PartNumbers \cup {Idle, Report, Stop}]
  BY <1>1, WorkerMove DEF caller
<1>3. TypeOK'
  BY <1>1, <1>2 DEF IInv, TypeOK, caller, server
<1> QED BY <1>2, <1>3 DEF IInv

\* A worker takes a part while parts are queued, and a pill after that.
LEMMA GetStep ==
  ASSUME IInv, NEW w \in Workers, Get(w)
  PROVE  IInv'
<1> DEFINE d == Head(queue)
<1>1. /\ doing[w] = Idle /\ queue # <<>> /\ queue' = Tail(queue) /\ Turn(w, d)
      /\ UNCHANGED <<caller, unfinished, uploaded, server, stopped>>
  BY DEF Get, Turn
<1>2. /\ queue \in Seq(PartNumbers \cup {Stop}) /\ Len(queue) \in Nat
      /\ unfinished \in Nat
      /\ doing \in [Workers -> PartNumbers \cup {Idle, Report, Stop}]
      /\ doing \in [Workers -> Nat \cup {Idle, Report, Stop}]
  BY IInvTypes
<1>3. /\ d \in PartNumbers \cup {Stop} /\ queue' \in Seq(PartNumbers \cup {Stop})
      /\ Len(queue') = Len(queue) - 1
  BY <1>1, <1>2, HeadTailProperties
<1> HIDE DEF d
<1>4. /\ doing' \in [Workers -> PartNumbers \cup {Idle, Report, Stop}]
      /\ \A v \in Workers : doing'[v] = IF v = w THEN d ELSE doing[v]
  BY <1>1, <1>2, <1>3 DEF Turn
<1>5. TypeOK'
  BY <1>1, <1>3, <1>4 DEF IInv, TypeOK, caller, server
<1>6. CASE phase \in Queueing
  <2>1. queue \in Seq(PartNumbers) /\ unfinished = Len(queue) + Cardinality(At(Busy))
    BY <1>6 DEF IInv, PoolInv, Counted
  <2>2. d \in PartNumbers /\ queue' \in Seq(PartNumbers)
    BY <1>1, <2>1, HeadTailProperties DEF d
  <2>3. One(d, Busy) = 1 /\ One(doing[w], Busy) = 0 /\ d # Stop
    BY <1>1, <2>2, Parted, MarksAssumption DEF One, Busy
  <2>4. /\ Cardinality(At(Busy)') \in Nat /\ Cardinality(At(Busy)) \in Nat
        /\ Cardinality(At(Busy)') + One(doing[w], Busy) = Cardinality(At(Busy)) + One(d, Busy)
    BY <1>1, <1>2, AtMove, AtFinite
  <2>5. unfinished' = Len(queue') + Cardinality(At(Busy)')
    BY <1>1, <1>2, <1>3, <2>1, <2>3, <2>4, SMT
  <2>6. PoolInv'
    BY <1>1, <1>4, <1>6, <2>2, <2>3 DEF IInv, PoolInv, Queueing, Resting, caller
  <2> QED BY <1>5, <2>5, <2>6 DEF IInv, Counted
<1>7. CASE phase = "gather"
  <2>1. /\ queue \in Seq({Stop}) /\ \A v \in Workers : doing[v] \in {Idle, Stop}
        /\ Len(queue) + Cardinality(At({Stop})) = Cardinality(Workers)
    BY <1>7 DEF IInv, PoolInv
  <2>2. d = Stop /\ queue' \in Seq({Stop})
    BY <1>1, <2>1, HeadTailProperties DEF d
  <2>3. One(d, {Stop}) = 1 /\ One(doing[w], {Stop}) = 0
    BY <1>1, <2>2, MarksAssumption DEF One
  <2>4. /\ Cardinality(At({Stop})') \in Nat /\ Cardinality(At({Stop})) \in Nat
        /\ Cardinality(At({Stop})') + One(doing[w], {Stop})
             = Cardinality(At({Stop})) + One(d, {Stop})
    BY <1>1, <1>2, AtMove, AtFinite
  <2>5. Len(queue') + Cardinality(At({Stop})') = Cardinality(Workers)
    BY <1>2, <1>3, <2>1, <2>3, <2>4, WorkersCounted, SMT
  <2>6. PoolInv' /\ Counted'
    BY <1>1, <1>4, <1>7, <2>1, <2>2, <2>5 DEF PoolInv, Counted, Queueing, Resting, caller
  <2> QED BY <1>5, <2>6 DEF IInv
<1>8. phase \notin Resting
  BY <1>1 DEF IInv, PoolInv
<1> QED BY <1>6, <1>7, <1>8 DEF IInv, TypeOK, Phases, Queueing, Resting

(***************************************************************************)
(* The theorems.                                                           *)
(***************************************************************************)
LEMMA StepInv == IInv /\ [Next]_vars => IInv'
<1> SUFFICES ASSUME IInv, [Next]_vars PROVE IInv'
  OBVIOUS
<1>1. CASE Caller
  BY <1>1, StartStep, StartFailsStep, FillStep, ReadFailsStep, JoinStep, GatherStep, SendSteps
     DEF Caller
<1>2. CASE \E w \in Workers : Worker(w)
  BY <1>2, GetStep, SentStep, SendFailsStep, ReportedStep DEF Worker
<1>3. CASE UNCHANGED vars
  <2>1. TypeOK'
    BY <1>3 DEF vars, pool, server, IInv, TypeOK
  <2>2. At(Busy)' = At(Busy) /\ At({Stop})' = At({Stop})
    BY <1>3 DEF vars, pool, At
  <2>3. PoolInv' /\ Counted'
    BY <1>3, <2>2 DEF vars, pool, IInv, PoolInv, Counted
  <2> QED BY <2>1, <2>3 DEF IInv
<1> QED BY <1>1, <1>2, <1>3 DEF Next

LEMMA Inductive == Spec => []IInv
<1> QED BY InitInv, StepInv, PTL DEF Spec

\* Every variable of an upload keeps its type.  In particular the queue's
\* count never falls below zero: asyncio's task_done would raise ValueError.
THEOREM TypeCorrectness == Spec => []TypeOK
<1>1. IInv => TypeOK
  BY DEF IInv
<1> QED BY <1>1, Inductive, PTL

\* While parts are queued, the count is the number of queued parts and of
\* workers that have one, for any number of workers and parts: join() (line
\* 276) cannot return while one of them is left, nor wait for none.
THEOREM CountRight == Spec => []UnfinishedCounts
<1>1. IInv => UnfinishedCounts
  <2> SUFFICES ASSUME IInv PROVE UnfinishedCounts
    OBVIOUS
  <2>1. At(Busy) = {w \in Workers : doing[w] # Idle}
    BY IInvTypes, MarksAssumption DEF At, Busy
  <2> QED BY <2>1 DEF IInv, Counted, UnfinishedCounts, Queueing
<1> QED BY <1>1, Inductive, PTL

(***************************************************************************)
(* No part is forgotten.  From the moment it is read, a part is queued, or *)
(* a worker has it, or it was tried; so when the file was read to its end  *)
(* and join() returned, every part was tried.  A retry only follows that.  *)
(***************************************************************************)
Tried(p)   == p \in tried
AllTried   == \A p \in PartNumbers : Tried(p)
Queued(p)  == \E i \in 1 .. Len(queue) : queue[i] = p
Covered(p) == Tried(p) \/ Queued(p) \/ \E w \in Workers : doing[w] = p

TriedInv ==
    /\ retrying => AllTried
    /\ phase = "start" => retrying \/ file_part = 0
    /\ phase \in {"start", "put"} => retrying \/ ~whole
    /\ phase \in Queueing => \A p \in PartNumbers : p < file_part => Covered(p)
    /\ phase = "join" /\ whole => retrying \/ file_part = Parts
    /\ phase = "gather" /\ whole => AllTried
    /\ phase \in {"resolve", "send"} => AllTried

LEMMA TriedInit == Init => TriedInv
  BY DEF Init, TriedInv, Queueing

\* A step of a worker neither forgets a part nor unsends one.
LEMMA Kept ==
  ASSUME TriedInv, UNCHANGED caller,
         \A p \in PartNumbers : Tried(p) => Tried(p)',
         \A p \in PartNumbers : phase \in Queueing /\ Covered(p) => Covered(p)'
  PROVE  TriedInv'
<1>1. UNCHANGED <<phase, retrying, file_part, whole>>
  BY DEF caller
<1>2. AllTried => AllTried'
  BY DEF AllTried
<1>3. phase \in Queueing => \A p \in PartNumbers : p < file_part => Covered(p)'
  BY DEF TriedInv
<1> QED BY <1>1, <1>2, <1>3 DEF TriedInv

LEMMA TriedWorker ==
  ASSUME IInv, TriedInv, NEW w \in Workers, Worker(w)
  PROVE  TriedInv'
<1>1. /\ doing \in [Workers -> PartNumbers \cup {Idle, Report, Stop}]
      /\ queue \in Seq(PartNumbers \cup {Stop}) /\ Len(queue) \in Nat
  BY IInvTypes DEF IInv, TypeOK
<1>2. CASE Get(w)
  <2>1. /\ UNCHANGED caller /\ UNCHANGED tried /\ queue' = Tail(queue) /\ queue # <<>>
        /\ doing[w] = Idle /\ doing' = [doing EXCEPT ![w] = Head(queue)]
    BY <1>2 DEF Get, server
  <2>2. ASSUME NEW p \in PartNumbers, Covered(p)
        PROVE  Covered(p)'
    <3>1. CASE Tried(p)
      BY <2>1, <3>1 DEF Covered, Tried
    <3>2. CASE Queued(p)
      <4>1. PICK i \in 1 .. Len(queue) : queue[i] = p
        BY <3>2 DEF Queued
      <4>2. CASE i = 1
        BY <1>1, <2>1, <4>1, <4>2 DEF Covered
      <4>3. CASE i # 1
        <5>1. i - 1 \in 1 .. Len(queue') /\ queue'[i - 1] = p
          BY <1>1, <2>1, <4>1, <4>3, HeadTailProperties, SMT
        <5> QED BY <5>1 DEF Covered, Queued
      <4> QED BY <4>2, <4>3
    <3>3. CASE \E v \in Workers : doing[v] = p
      BY <1>1, <2>1, <3>3, Parted DEF Covered
    <3> QED BY <2>2, <3>1, <3>2, <3>3 DEF Covered
  <2> QED BY <2>1, <2>2, Kept DEF Tried
<1>3. CASE Sent(w) \/ SendFails(w)
  <2>1. /\ UNCHANGED caller /\ UNCHANGED queue /\ doing[w] \in Nat
        /\ tried' = tried \cup {doing[w]}
        /\ Turn(w, Report) \/ Turn(w, Idle)
    BY <1>3 DEF Sent, SendFails, Done, Turn, Try
  <2>4. \A p \in PartNumbers : Tried(p) \/ p = doing[w] => Tried(p)'
    BY <2>1 DEF Tried
  <2>5. ASSUME NEW p \in PartNumbers, Covered(p)
        PROVE  Covered(p)'
    <3>1. \A v \in Workers \ {w} : doing'[v] = doing[v]
      BY <1>1, <2>1 DEF Turn
    <3> QED BY <2>1, <2>4, <2>5, <3>1 DEF Covered, Queued
  <2> QED BY <2>1, <2>4, <2>5, Kept
<1>4. CASE Reported(w)
  <2>1. /\ UNCHANGED caller /\ UNCHANGED <<queue, tried>> /\ doing[w] = Report
        /\ doing' = [doing EXCEPT ![w] = Idle]
    BY <1>4 DEF Reported, Done, server
  <2>2. \A p \in PartNumbers : Covered(p) => Covered(p)'
    BY <1>1, <2>1, Parted DEF Covered, Queued, Tried
  <2> QED BY <2>1, <2>2, Kept DEF Tried
<1> QED BY <1>2, <1>3, <1>4 DEF Worker

LEMMA TriedFill ==
  ASSUME IInv, TriedInv, Fill
  PROVE  TriedInv'
<1> DEFINE n == Least(IF retrying THEN 1 ELSE Parts - file_part, QueueSize - Len(queue))
           more == [i \in 1 .. n |-> file_part + i - 1]
<1>1. /\ phase = "put" /\ n > 0 /\ queue' = queue \o more
      /\ file_part' = file_part + n
      /\ IF retrying \/ file_part + n = Parts
         THEN phase' = "join" /\ whole' = TRUE
         ELSE UNCHANGED <<phase, whole>>
      /\ UNCHANGED <<retrying, doing, tried>>
  BY DEF Fill, server
<1>2. /\ Len(queue) \in Nat /\ file_part \in Nat /\ file_part < Parts
      /\ queue \in Seq(PartNumbers)
  BY <1>1, IInvTypes DEF IInv, PoolInv, Queueing
<1>3. n \in Nat \ {0}
  <2>1. Parts - file_part \in Nat \ {0} /\ QueueSize - Len(queue) \in Int
    BY <1>2, PartsAssumption, QueueAssumption, SMT
  <2> QED BY <1>1, <2>1, SMT DEF Least
<1> HIDE DEF n
<1>4. more \in Seq(Nat) /\ Len(more) = n /\ queue \in Seq(Nat)
  <2>1. \A i \in 1 .. n : file_part + i - 1 \in Nat
    BY <1>2, <1>3, SMT
  <2>2. more \in [1 .. n -> Nat]
    BY <2>1
  <2>3. more \in Seq(Nat) /\ Len(more) = n
    BY <1>3, <2>2, SMT
  <2>4. queue \in Seq(Nat)
    <3>1. \A i \in 1 .. Len(queue) : queue[i] \in Nat
      BY <1>2, Parted, ElementOfSeq
    <3>2. queue \in [1 .. Len(queue) -> Nat]
      BY <1>2, <3>1, LenProperties
    <3> QED BY <1>2, <3>2, SMT
  <2> QED BY <2>3, <2>4
<1>5. \A i \in 1 .. n : more[i] = file_part + (i - 1)
  BY <1>2, <1>3, SMT
<1> HIDE DEF more
<1>6. /\ Len(queue') = Len(queue) + n
      /\ \A i \in 1 .. Len(queue) + n :
            queue'[i] = IF i <= Len(queue) THEN queue[i] ELSE more[i - Len(queue)]
  BY <1>1, <1>4, ConcatProperties
<1>7. ASSUME NEW p \in PartNumbers, p < file_part'
      PROVE  Covered(p)'
  <2>1. CASE p < file_part
    <3>1. Covered(p)
      BY <1>1, <2>1 DEF TriedInv, Queueing
    <3>2. Queued(p) => Queued(p)'
      BY <1>2, <1>3, <1>6, SMT DEF Queued
    <3> QED BY <1>1, <3>1, <3>2 DEF Covered, Tried
  <2>2. CASE ~(p < file_part)
    <3> DEFINE i == Len(queue) + p - file_part + 1
    <3>1. /\ i \in 1 .. Len(queue') /\ ~(i <= Len(queue))
          /\ i - Len(queue) \in 1 .. n /\ file_part + (i - Len(queue) - 1) = p
      BY <1>1, <1>2, <1>3, <1>6, <1>7, <2>2, PartsAssumption, SMT DEF PartNumbers
    <3>2. queue'[i] = p
      BY <1>5, <1>6, <3>1
    <3> QED BY <3>1, <3>2 DEF Covered, Queued
  <2> QED BY <2>1, <2>2
<1>8. /\ phase' = "join" => retrying \/ file_part' = Parts
      /\ phase' \in Queueing
      /\ phase' = "put" => retrying \/ ~whole'
  BY <1>1 DEF TriedInv, Queueing
<1>9. retrying => AllTried'
  BY <1>1 DEF TriedInv, AllTried, Tried
<1> QED BY <1>1, <1>7, <1>8, <1>9 DEF TriedInv, Queueing

LEMMA TriedCaller ==
  ASSUME IInv, TriedInv, Caller
  PROVE  TriedInv'
<1>1. CASE Start
  <2>1. /\ phase = "start" /\ phase' = "put"
        /\ UNCHANGED <<retrying, file_part, whole, tried>>
    BY <1>1 DEF Start, server
  <2>2. retrying \/ file_part' = 0
    BY <2>1 DEF TriedInv
  <2>3. \A p \in PartNumbers : ~(p < 0)
    BY PartsAssumption, SMT DEF PartNumbers
  <2> QED BY <2>1, <2>2, <2>3 DEF TriedInv, Queueing, AllTried, Covered, Tried
<1>2. CASE StartFails \/ Accepted \/ SendMediaFails
  <2>1. phase' = "over" /\ UNCHANGED <<retrying, tried>>
    BY <1>2 DEF StartFails, Accepted, SendMediaFails, Over, server
  <2> QED BY <2>1 DEF TriedInv, Queueing, AllTried, Tried
<1>3. CASE ReadFails
  <2>1. /\ phase = "put" /\ phase' = "join" /\ whole' = FALSE
        /\ UNCHANGED <<retrying, file_part, queue, doing, tried>>
    BY <1>3 DEF ReadFails, pool, server
  <2> QED BY <2>1 DEF TriedInv, Queueing, AllTried, Covered, Queued, Tried
<1>4. CASE Join
  <2>1. /\ phase = "join" /\ phase' = "gather"
        /\ UNCHANGED <<retrying, whole, tried>>
    BY <1>4 DEF Join, server
  <2>2. \A p \in PartNumbers : Covered(p) => Tried(p)
    BY <1>4, JoinIdle, Parted, SMT DEF Covered, Queued
  <2>3. whole /\ ~retrying => \A p \in PartNumbers : p < file_part
    BY <2>1, PartsAssumption, SMT DEF TriedInv, PartNumbers
  <2>4. whole => AllTried
    BY <2>1, <2>2, <2>3 DEF TriedInv, Queueing, AllTried
  <2> QED BY <2>1, <2>4 DEF TriedInv, Queueing, AllTried, Tried
<1>5. CASE Gather
  <2>1. /\ phase = "gather" /\ phase' \in {"resolve", "over"}
        /\ phase' = "resolve" => whole \/ retrying
        /\ UNCHANGED <<retrying, tried>>
    BY <1>5 DEF Gather, Returned, Over, server
  <2> QED BY <2>1 DEF TriedInv, Queueing, AllTried, Tried
<1>6. CASE FilePartMissing
  <2>1. phase = "send" /\ phase' = "start" /\ retrying' = TRUE /\ UNCHANGED tried
    BY <1>6 DEF FilePartMissing
  <2> QED BY <2>1 DEF TriedInv, Queueing, AllTried, Tried
<1>7. CASE Resolve \/ Unrecognised
  <2>1. /\ phase \in {"resolve", "send"} /\ phase' \in {"resolve", "send"}
        /\ UNCHANGED <<retrying, tried>>
    BY <1>7 DEF Resolve, Unrecognised, server
  <2> QED BY <2>1 DEF TriedInv, Queueing, AllTried, Tried
<1> QED BY <1>1, <1>2, <1>3, <1>4, <1>5, <1>6, <1>7, TriedFill DEF Caller

\* The message names the file only when every part of it was tried, however
\* many workers share the parts, and after any failure of a read, of a send
\* or of the callback.
THEOREM NothingForgotten == Spec => []NamedWhenTried
<1>1. IInv /\ TriedInv /\ [Next]_vars => TriedInv'
  <2>1. CASE UNCHANGED vars
    BY <2>1 DEF vars, pool, server, TriedInv, Queueing, AllTried, Covered, Queued, Tried
  <2> QED BY <2>1, TriedCaller, TriedWorker DEF Next
<1>2. IInv /\ TriedInv => NamedWhenTried
  BY DEF IInv, TypeOK, TriedInv, AllTried, Tried, NamedWhenTried
<1> QED BY TriedInit, Inductive, <1>1, <1>2, PTL DEF Spec

(***************************************************************************)
(* No part is sent again without need.  A part in the pool is there once,  *)
(* and is fresh: a send of it is called for.  What is *)
(* yet to be read is fresh too, and behind what was read in this call.     *)
(***************************************************************************)
Fresh(p)      == due[p] >= 1
FreshAfter(p) == due'[p] >= 1

QueuedOnce ==
    \A i \in 1 .. Len(queue) : queue[i] \in PartNumbers =>
      /\ Fresh(queue[i])
      /\ \A j \in 1 .. Len(queue) : j # i => queue[j] # queue[i]
      /\ \A w \in Workers : doing[w] # queue[i]

HeldOnce ==
    \A w \in Workers : doing[w] \in PartNumbers =>
      /\ Fresh(doing[w])
      /\ \A v \in Workers : v # w => doing[v] # doing[w]

Unread ==
    phase \in {"start", "put"} =>
      IF retrying THEN Fresh(file_part) ELSE \A p \in PartNumbers : p >= file_part => Fresh(p)

ReadBefore ==
    phase = "put" =>
      /\ \A i \in 1 .. Len(queue) : ~retrying /\ queue[i] < file_part
      /\ \A w \in Workers : doing[w] \in PartNumbers => ~retrying /\ doing[w] < file_part

OnceInv == NoNeedlessResend /\ QueuedOnce /\ HeldOnce /\ Unread /\ ReadBefore

LEMMA OnceInit == Init => OnceInv
<1> SUFFICES ASSUME Init PROVE OnceInv
  OBVIOUS
<1>1. /\ Len(queue) = 0 /\ phase = "start" /\ \A w \in Workers : doing[w] \notin PartNumbers
      /\ \A p \in PartNumbers : due[p] = 1
      /\ ~retrying
  BY Parted DEF Init
<1>2. NoNeedlessResend /\ Unread
  BY <1>1, SMT DEF NoNeedlessResend, Unread, Fresh
<1>3. QueuedOnce /\ HeldOnce /\ ReadBefore
  BY <1>1, SMT DEF QueuedOnce, HeldOnce, ReadBefore
<1> QED BY <1>2, <1>3 DEF OnceInv

\* While nothing is in the pool, only what is yet to be read matters.
LEMMA OnceAtRest ==
  ASSUME NoNeedlessResend', Unread',
         \A i \in 1 .. Len(queue') : queue'[i] \notin PartNumbers,
         phase' = "put" => queue' = <<>>,
         \A w \in Workers : doing'[w] \notin PartNumbers
  PROVE  OnceInv'
<1>1. QueuedOnce' /\ HeldOnce'
  BY DEF QueuedOnce, HeldOnce
<1>2. ReadBefore'
  BY SMT DEF ReadBefore
<1> QED BY <1>1, <1>2 DEF OnceInv

LEMMA OnceWorker ==
  ASSUME IInv, OnceInv, NEW w \in Workers, Worker(w)
  PROVE  OnceInv'
<1>t. /\ due \in [PartNumbers -> Int]
      /\ doing \in [Workers -> PartNumbers \cup {Idle, Report, Stop}]
      /\ queue \in Seq(PartNumbers \cup {Stop}) /\ Len(queue) \in Nat
      /\ file_part \in Nat
  BY IInvTypes DEF IInv, TypeOK
<1>o. NoNeedlessResend /\ QueuedOnce /\ HeldOnce /\ Unread /\ ReadBefore
  BY DEF OnceInv
<1>1. CASE Get(w)
  <2> DEFINE u == queue[1]
  <2>1. /\ queue # <<>> /\ queue' = Tail(queue) /\ Head(queue) = u
        /\ doing[w] = Idle /\ doing' = [doing EXCEPT ![w] = u]
        /\ UNCHANGED <<phase, retrying, file_part, due>>
        /\ u \in PartNumbers \cup {Stop}
        /\ Len(queue') = Len(queue) - 1 /\ 1 \in 1 .. Len(queue)
    BY <1>1, <1>t, SMT DEF Get, caller, server
  <2>2. /\ \A i \in 1 .. Len(queue') : queue'[i] = queue[i + 1] /\ i + 1 \in 1 .. Len(queue) /\ i + 1 # 1
        /\ \A i, j \in 1 .. Len(queue') : i # j => i + 1 # j + 1
    BY <1>t, <2>1, SMT
  <2>3. doing'[w] = u /\ \A v \in Workers : v # w => doing'[v] = doing[v]
    BY <1>t, <2>1
  <2>4. \A p \in PartNumbers : FreshAfter(p) <=> Fresh(p)
    BY <2>1 DEF Fresh, FreshAfter
  <2>5. u \in PartNumbers => /\ Fresh(u)
                             /\ \A j \in 1 .. Len(queue) : j # 1 => queue[j] # u
                             /\ \A v \in Workers : doing[v] # u
    BY <1>o, <2>1 DEF QueuedOnce
  <2>6. phase = "put" => ~retrying /\ u < file_part
    BY <1>o, <2>1 DEF ReadBefore
  <2> HIDE DEF u
  <2>7. NoNeedlessResend' /\ Unread'
    BY <1>o, <2>1 DEF NoNeedlessResend, Unread, Fresh
  <2>8. QueuedOnce'
    <3> SUFFICES ASSUME NEW i \in 1 .. Len(queue'), queue'[i] \in PartNumbers
                 PROVE  /\ FreshAfter(queue'[i])
                        /\ \A j \in 1 .. Len(queue') : j # i => queue'[j] # queue'[i]
                        /\ \A v \in Workers : doing'[v] # queue'[i]
      BY DEF QueuedOnce, Fresh, FreshAfter
    <3> DEFINE n == i + 1
    <3>1. queue'[i] = queue[n] /\ n \in 1 .. Len(queue) /\ n # 1 /\ queue[n] \in PartNumbers
      BY <2>2
    <3>2. \A j \in 1 .. Len(queue') : j # i => queue'[j] = queue[j + 1] /\ j + 1 \in 1 .. Len(queue) /\ j + 1 # n
      BY <2>2
    <3> HIDE DEF n
    <3>3. /\ Fresh(queue[n])
          /\ \A j \in 1 .. Len(queue) : j # n => queue[j] # queue[n]
          /\ \A v \in Workers : doing[v] # queue[n]
      BY <1>o, <3>1 DEF QueuedOnce
    <3>4. \A j \in 1 .. Len(queue') : j # i => queue'[j] # queue'[i]
      BY <3>1, <3>2, <3>3
    <3>5. \A v \in Workers : doing'[v] # queue'[i]
      BY <2>3, <2>5, <3>1, <3>3
    <3> QED BY <2>4, <3>1, <3>3, <3>4, <3>5
  <2>9. HeldOnce'
    <3> SUFFICES ASSUME NEW v \in Workers, doing'[v] \in PartNumbers
                 PROVE  /\ FreshAfter(doing'[v])
                        /\ \A x \in Workers : x # v => doing'[x] # doing'[v]
      BY DEF HeldOnce, Fresh, FreshAfter
    <3>1. CASE v = w
      <4>1. doing'[v] = u /\ \A x \in Workers : x # v => doing'[x] # u
        BY <2>3, <2>5, <3>1
      <4> QED BY <2>4, <2>5, <4>1
    <3>2. CASE v # w
      <4>1. doing'[v] = doing[v] /\ doing[v] \in PartNumbers
        BY <2>3, <3>2
      <4>2. Fresh(doing[v]) /\ \A x \in Workers : x # v => doing[x] # doing[v]
        BY <1>o, <4>1 DEF HeldOnce
      <4>3. u # doing[v]
        BY <2>5, <4>1
      <4>4. \A x \in Workers : x # v => doing'[x] # doing[v]
        BY <2>3, <4>2, <4>3
      <4> QED BY <2>4, <4>1, <4>2, <4>4
    <3> QED BY <3>1, <3>2
  <2>10. ReadBefore'
    <3>1. phase = "put" => \A i \in 1 .. Len(queue') : ~retrying /\ queue'[i] < file_part
      BY <1>o, <2>2 DEF ReadBefore
    <3>2. phase = "put" => \A v \in Workers : doing'[v] \in PartNumbers => ~retrying /\ doing'[v] < file_part
      BY <1>o, <2>3, <2>6 DEF ReadBefore
    <3> QED BY <2>1, <3>1, <3>2 DEF ReadBefore
  <2> QED BY <2>7, <2>8, <2>9, <2>10 DEF OnceInv
<1>2. CASE Sent(w) \/ SendFails(w)
  <2> DEFINE u == doing[w]
  <2>1. /\ u \in Nat /\ due' = [due EXCEPT ![u] = @ - 1]
        /\ doing' = [doing EXCEPT ![w] = Report] \/ doing' = [doing EXCEPT ![w] = Idle]
        /\ UNCHANGED <<phase, retrying, file_part, queue>>
    BY <1>2 DEF Sent, SendFails, Done, Try, caller
  <2>2. u \in PartNumbers
    BY <1>t, <2>1, MarksAssumption
  <2>3. doing'[w] \notin PartNumbers /\ \A v \in Workers : v # w => doing'[v] = doing[v]
    BY <1>t, <2>1, Parted
  <2>4. Fresh(u) /\ \A v \in Workers : v # w => doing[v] # u
    BY <1>o, <2>2 DEF HeldOnce
  <2>5. \A i \in 1 .. Len(queue) : queue[i] # u
    BY <1>o, <2>2 DEF QueuedOnce
  <2>6. phase = "put" => ~retrying /\ u < file_part
    BY <1>o, <2>2 DEF ReadBefore
  <2>7. phase \notin {"start"}
    BY <2>1, Working DEF Queueing
  <2> HIDE DEF u
  <2>8. \A p \in PartNumbers : due'[p] = IF p = u THEN due[p] - 1 ELSE due[p]
    BY <1>t, <2>1, <2>2
  <2>9. \A p \in PartNumbers : p # u => (FreshAfter(p) <=> Fresh(p))
    BY <2>1, <2>8 DEF Fresh, FreshAfter
  <2>10. NoNeedlessResend'
    <3> SUFFICES ASSUME NEW p \in PartNumbers PROVE due'[p] >= 0
      BY DEF NoNeedlessResend
    <3>1. due[p] \in Int /\ due[p] >= 0
      BY <1>o, <1>t DEF NoNeedlessResend
    <3>2. p = u => due[p] >= 1
      BY <2>4 DEF Fresh
    <3> QED BY <2>8, <3>1, <3>2, SMT
  <2>11. Unread'
    <3> SUFFICES ASSUME phase = "put"
                 PROVE  IF retrying THEN FreshAfter(file_part)
                        ELSE \A p \in PartNumbers : p >= file_part => FreshAfter(p)
      BY <2>1, <2>7 DEF Unread, Fresh, FreshAfter
    <3>1. \A p \in PartNumbers : p >= file_part => p # u
      BY <1>t, <2>1, <2>6, Parted, SMT
    <3> QED BY <1>o, <2>6, <2>9, <3>1 DEF Unread
  <2>12. QueuedOnce'
    <3> SUFFICES ASSUME NEW i \in 1 .. Len(queue), queue[i] \in PartNumbers
                 PROVE  /\ FreshAfter(queue[i])
                        /\ \A j \in 1 .. Len(queue) : j # i => queue[j] # queue[i]
                        /\ \A v \in Workers : doing'[v] # queue[i]
      BY <2>1 DEF QueuedOnce, Fresh, FreshAfter
    <3>1. /\ Fresh(queue[i])
          /\ \A j \in 1 .. Len(queue) : j # i => queue[j] # queue[i]
          /\ \A v \in Workers : doing[v] # queue[i]
      BY <1>o DEF QueuedOnce
    <3>2. \A v \in Workers : doing'[v] # queue[i]
      BY <2>3, <3>1
    <3> QED BY <2>5, <2>9, <3>1, <3>2
  <2>13. HeldOnce'
    <3> SUFFICES ASSUME NEW v \in Workers, doing'[v] \in PartNumbers
                 PROVE  /\ FreshAfter(doing'[v])
                        /\ \A x \in Workers : x # v => doing'[x] # doing'[v]
      BY DEF HeldOnce, Fresh, FreshAfter
    <3>1. v # w /\ doing'[v] = doing[v] /\ doing[v] \in PartNumbers
      BY <2>3
    <3>2. Fresh(doing[v]) /\ \A x \in Workers : x # v => doing[x] # doing[v]
      BY <1>o, <3>1 DEF HeldOnce
    <3>3. doing[v] # u
      BY <2>4, <3>1
    <3>4. \A x \in Workers : x # v => doing'[x] # doing[v]
      BY <2>3, <3>1, <3>2
    <3> QED BY <2>9, <3>1, <3>2, <3>3, <3>4
  <2>14. ReadBefore'
    BY <1>o, <2>1, <2>3 DEF ReadBefore
  <2> QED BY <2>10, <2>11, <2>12, <2>13, <2>14 DEF OnceInv
<1>3. CASE Reported(w)
  <2>1. /\ doing' = [doing EXCEPT ![w] = Idle]
        /\ UNCHANGED <<phase, retrying, file_part, queue, due>>
    BY <1>3 DEF Reported, Done, caller, server
  <2>2. doing'[w] \notin PartNumbers /\ \A v \in Workers : v # w => doing'[v] = doing[v]
    BY <1>t, <2>1, Parted
  <2>3. NoNeedlessResend' /\ Unread'
    BY <1>o, <2>1 DEF NoNeedlessResend, Unread, Fresh
  <2>4. QueuedOnce'
    BY <1>o, <2>1, <2>2 DEF QueuedOnce, Fresh
  <2>5. HeldOnce'
    BY <1>o, <2>1, <2>2 DEF HeldOnce, Fresh
  <2>6. ReadBefore'
    BY <1>o, <2>1, <2>2 DEF ReadBefore
  <2> QED BY <2>3, <2>4, <2>5, <2>6 DEF OnceInv
<1> QED BY <1>1, <1>2, <1>3 DEF Worker

LEMMA OnceFill ==
  ASSUME IInv, OnceInv, Fill
  PROVE  OnceInv'
<1> DEFINE n == Least(IF retrying THEN 1 ELSE Parts - file_part, QueueSize - Len(queue))
           more == [i \in 1 .. n |-> file_part + i - 1]
<1>o. NoNeedlessResend /\ QueuedOnce /\ HeldOnce /\ Unread /\ ReadBefore
  BY DEF OnceInv
<1>1. /\ phase = "put" /\ n > 0 /\ queue' = queue \o more /\ file_part' = file_part + n
      /\ IF retrying \/ file_part + n = Parts
         THEN phase' = "join" /\ whole' = TRUE
         ELSE UNCHANGED <<phase, whole>>
      /\ UNCHANGED <<retrying, doing, due>>
  BY DEF Fill, server
<1>2. /\ Len(queue) \in Nat /\ file_part \in Nat /\ file_part < Parts
      /\ queue \in Seq(PartNumbers)
      /\ doing \in [Workers -> PartNumbers \cup {Idle, Report, Stop}]
  BY <1>1, IInvTypes DEF IInv, PoolInv, Queueing
<1>3. n \in Nat \ {0} /\ file_part + n <= Parts /\ (retrying => n = 1)
  <2>1. Parts - file_part \in Nat \ {0} /\ QueueSize - Len(queue) \in Int
    BY <1>2, PartsAssumption, QueueAssumption, SMT
  <2> QED BY <1>1, <1>2, <2>1, PartsAssumption, SMT DEF Least
<1> HIDE DEF n
<1>4. /\ more \in Seq(PartNumbers) /\ Len(more) = n
      /\ \A i \in 1 .. n : more[i] = file_part + i - 1
  <2>1. \A i \in 1 .. n : file_part + i - 1 \in PartNumbers
    BY <1>2, <1>3, PartsAssumption, SMT DEF PartNumbers
  <2>2. more \in [1 .. n -> PartNumbers]
    BY <2>1
  <2>3. more \in Seq(PartNumbers) /\ Len(more) = n
    BY <1>3, <2>2, SMT
  <2> QED BY <2>3
<1> HIDE DEF more
<1>5. /\ Len(queue') = Len(queue) + n
      /\ \A i \in 1 .. Len(queue) + n :
            queue'[i] = IF i <= Len(queue) THEN queue[i] ELSE more[i - Len(queue)]
  BY <1>1, <1>2, <1>4, ConcatProperties
<1>6. \A i \in 1 .. Len(queue') : \/ i \in 1 .. Len(queue) /\ queue'[i] = queue[i]
                                  \/ /\ i > Len(queue)
                                     /\ queue'[i] = file_part + (i - Len(queue)) - 1
                                     /\ queue'[i] >= file_part /\ queue'[i] < file_part + n
  <2> SUFFICES ASSUME NEW i \in 1 .. Len(queue'), i > Len(queue)
               PROVE  /\ queue'[i] = file_part + (i - Len(queue)) - 1
                      /\ queue'[i] >= file_part /\ queue'[i] < file_part + n
    BY <1>2, <1>3, <1>5, SMT
  <2>1. i - Len(queue) \in 1 .. n
    BY <1>2, <1>3, <1>5, SMT
  <2>2. queue'[i] = more[i - Len(queue)]
    BY <1>2, <1>3, <1>5, SMT
  <2>3. queue'[i] = file_part + (i - Len(queue)) - 1
    BY <1>4, <2>1, <2>2
  <2> QED BY <1>2, <1>3, <2>1, <2>3, SMT
<1>7. \A i \in 1 .. Len(queue') : queue'[i] \in PartNumbers
  BY <1>2, <1>3, <1>6, PartsAssumption, ElementOfSeq, SMT DEF PartNumbers
<1>8. \A i \in 1 .. Len(queue) : /\ ~retrying /\ queue[i] < file_part /\ queue[i] \in PartNumbers
  BY <1>o, <1>1, <1>2, ElementOfSeq DEF ReadBefore
<1>9. \A w \in Workers : doing[w] \in PartNumbers => ~retrying /\ doing[w] < file_part
  BY <1>o, <1>1 DEF ReadBefore
<1>10. \A p \in PartNumbers : FreshAfter(p) <=> Fresh(p)
  BY <1>1 DEF Fresh, FreshAfter
<1>11. \A p \in PartNumbers : p >= file_part /\ p < file_part + n => Fresh(p)
  <2>1. CASE retrying
    <3>1. \A p \in PartNumbers : p >= file_part /\ p < file_part + n => p = file_part
      BY <1>2, <1>3, <2>1, Parted, SMT
    <3> QED BY <1>o, <1>1, <2>1, <3>1 DEF Unread
  <2>2. CASE ~retrying
    BY <1>o, <1>1, <2>2 DEF Unread
  <2> QED BY <2>1, <2>2
<1>12. QueuedOnce'
  <2> SUFFICES ASSUME NEW i \in 1 .. Len(queue'), queue'[i] \in PartNumbers
               PROVE  /\ FreshAfter(queue'[i])
                      /\ \A j \in 1 .. Len(queue') : j # i => queue'[j] # queue'[i]
                      /\ \A w \in Workers : doing[w] # queue'[i]
    BY <1>1 DEF QueuedOnce, Fresh, FreshAfter
  <2>1. CASE i \in 1 .. Len(queue) /\ queue'[i] = queue[i]
    <3>1. /\ Fresh(queue[i])
          /\ \A j \in 1 .. Len(queue) : j # i => queue[j] # queue[i]
          /\ \A w \in Workers : doing[w] # queue[i]
      BY <1>o, <1>8, <2>1 DEF QueuedOnce
    <3>2. ASSUME NEW j \in 1 .. Len(queue'), j # i PROVE queue'[j] # queue[i]
      <4>1. CASE j \in 1 .. Len(queue) /\ queue'[j] = queue[j]
        BY <3>1, <3>2, <4>1
      <4>2. CASE queue'[j] >= file_part
        <5>1. queue'[j] \in Nat /\ queue[i] \in Nat /\ queue[i] < file_part
          BY <1>7, <1>8, <2>1, Parted
        <5> QED BY <1>2, <4>2, <5>1, SMT
      <4> QED BY <1>6, <4>1, <4>2
    <3> QED BY <1>8, <1>10, <2>1, <3>1, <3>2
  <2>2. CASE /\ i > Len(queue)
             /\ queue'[i] = file_part + (i - Len(queue)) - 1
             /\ queue'[i] >= file_part /\ queue'[i] < file_part + n
    <3>1. ASSUME NEW j \in 1 .. Len(queue'), j # i PROVE queue'[j] # queue'[i]
      <4>1. CASE j \in 1 .. Len(queue) /\ queue'[j] = queue[j]
        BY <1>2, <1>7, <1>8, <2>2, <4>1, Parted, SMT
      <4>2. CASE j > Len(queue) /\ queue'[j] = file_part + (j - Len(queue)) - 1
        BY <1>2, <1>3, <1>5, <2>2, <3>1, <4>2, SMT
      <4> QED BY <1>6, <4>1, <4>2
    <3>2. ASSUME NEW w \in Workers PROVE doing[w] # queue'[i]
      <4>1. CASE doing[w] \in PartNumbers
        BY <1>2, <1>9, <2>2, <4>1, Parted, SMT
      <4> QED BY <4>1
    <3> QED BY <1>10, <1>11, <2>2, <3>1, <3>2
  <2> QED BY <1>6, <2>1, <2>2
<1>13. HeldOnce' /\ NoNeedlessResend'
  BY <1>o, <1>1 DEF HeldOnce, NoNeedlessResend, Fresh
<1>14. ASSUME phase' = "put"
       PROVE  ~retrying /\ \A p \in PartNumbers : p < file_part => p < file_part'
  <2>1. ~retrying
    BY <1>1, <1>14
  <2> QED BY <1>1, <1>2, <1>3, <2>1, Parted, SMT
<1>15. Unread'
  <2> SUFFICES ASSUME phase' = "put", NEW p \in PartNumbers, p >= file_part'
               PROVE  FreshAfter(p)
    BY <1>1, <1>14 DEF Unread, Fresh, FreshAfter
  <2>1. p >= file_part
    BY <1>1, <1>2, <1>3, Parted, SMT
  <2> QED BY <1>o, <1>1, <1>10, <1>14, <2>1 DEF Unread
<1>16. ReadBefore'
  <2> SUFFICES ASSUME phase' = "put"
               PROVE  /\ \A i \in 1 .. Len(queue') : ~retrying /\ queue'[i] < file_part'
                      /\ \A w \in Workers : doing[w] \in PartNumbers => ~retrying /\ doing[w] < file_part'
    BY <1>1 DEF ReadBefore
  <2> QED BY <1>1, <1>6, <1>8, <1>9, <1>14
<1> QED BY <1>12, <1>13, <1>15, <1>16 DEF OnceInv

LEMMA OnceCaller ==
  ASSUME IInv, OnceInv, Caller
  PROVE  OnceInv'
<1>o. NoNeedlessResend /\ QueuedOnce /\ HeldOnce /\ Unread /\ ReadBefore
  BY DEF OnceInv
<1>t. /\ due \in [PartNumbers -> Int]
      /\ file_part \in Nat
  BY IInvTypes DEF IInv, TypeOK
<1>r. phase \in Resting => queue = <<>> /\ \A w \in Workers : doing[w] = Stop
  BY DEF IInv, PoolInv
<1>1. CASE Start
  <2>1. /\ phase = "start" /\ phase' = "put" /\ doing' = [w \in Workers |-> Idle]
        /\ UNCHANGED <<retrying, file_part, queue, due>>
    BY <1>1 DEF Start, server
  <2>2. queue' = <<>> /\ Len(queue') = 0
    BY <1>r, <2>1 DEF Resting
  <2>3. NoNeedlessResend' /\ Unread'
    BY <1>o, <2>1 DEF NoNeedlessResend, Unread, Fresh
  <2>4. \A i \in 1 .. Len(queue') : queue'[i] \notin PartNumbers
    BY <2>2, SMT
  <2> QED BY <2>1, <2>2, <2>3, <2>4, Parted, OnceAtRest
<1>2. CASE \/ StartFails \/ Resolve \/ Accepted \/ Unrecognised \/ SendMediaFails
         \/ ReadFails
  <2>1. /\ phase' \in {"over", "join", "resolve", "send"}
        /\ UNCHANGED <<queue, doing, due>>
    BY <1>2 DEF StartFails, Resolve, Accepted, Unrecognised, SendMediaFails, ReadFails, Over, pool, server
  <2> QED BY <1>o, <2>1 DEF OnceInv, NoNeedlessResend, QueuedOnce, HeldOnce, Unread, ReadBefore, Fresh
<1>3. CASE Join
  <2>1. /\ phase' = "gather" /\ queue' = queue \o Pills /\ UNCHANGED <<doing, due>>
    BY <1>3 DEF Join, server
  <2>2. queue = <<>> /\ \A w \in Workers : doing[w] = Idle
    BY <1>3, JoinIdle
  <2>3. \A i \in 1 .. Len(queue') : queue'[i] = Stop
    <3>1. Pills \in Seq({Stop})
      BY WorkersCounted, SMT DEF Pills
    <3>2. queue' = Pills
      BY <2>1, <2>2, <3>1, ConcatEmptySeq
    <3> QED BY <3>1, <3>2, ElementOfSeq
  <2>4. NoNeedlessResend' /\ Unread'
    BY <1>o, <2>1 DEF NoNeedlessResend, Unread
  <2> QED BY <2>1, <2>2, <2>3, <2>4, Parted, OnceAtRest
<1>4. CASE Gather
  <2>1. /\ phase' \in {"resolve", "over"} /\ UNCHANGED <<queue, doing, due>>
    BY <1>4 DEF Gather, Returned, Over, server
  <2> QED BY <1>o, <2>1 DEF OnceInv, NoNeedlessResend, QueuedOnce, HeldOnce, Unread, ReadBefore, Fresh
<1>5. CASE FilePartMissing
  <2>1. PICK p \in PartNumbers : file_part' = p /\ due' = [due EXCEPT ![p] = 1]
    BY <1>5 DEF FilePartMissing
  <2>2. /\ phase = "send" /\ phase' = "start" /\ retrying' = TRUE
        /\ UNCHANGED <<queue, doing>>
    BY <1>5 DEF FilePartMissing, pool
  <2>3. \A q \in PartNumbers : due'[q] = IF q = p THEN 1 ELSE due[q]
    BY <1>t, <2>1
  <2>4. NoNeedlessResend'
    BY <1>o, <2>3, SMT DEF NoNeedlessResend
  <2>5. Unread'
    BY <2>1, <2>2, <2>3, SMT DEF Unread, Fresh
  <2>6. queue' = <<>> /\ Len(queue') = 0 /\ \A w \in Workers : doing'[w] = Stop
    BY <1>r, <2>2 DEF Resting
  <2>7. \A i \in 1 .. Len(queue') : queue'[i] \notin PartNumbers
    BY <2>6, SMT
  <2> QED BY <2>4, <2>5, <2>6, <2>7, Parted, OnceAtRest
<1> QED BY <1>1, <1>2, <1>3, <1>4, <1>5, OnceFill DEF Caller

\* A part is sent once, and at most once more after each time that the server
\* says it misses it, however many workers there are and whatever fails.
THEOREM NoPartTwice == Spec => []NoNeedlessResend
<1>1. IInv /\ OnceInv /\ [Next]_vars => OnceInv'
  <2>1. CASE UNCHANGED vars
    BY <2>1 DEF vars, pool, server, OnceInv, NoNeedlessResend, QueuedOnce, HeldOnce,
                Unread, ReadBefore, Fresh
  <2> QED BY <2>1, OnceCaller, OnceWorker DEF Next
<1>2. OnceInv => NoNeedlessResend
  BY DEF OnceInv
<1> QED BY OnceInit, Inductive, <1>1, <1>2, PTL DEF Spec
==============================================================================
