-------------------------- MODULE DispatcherProofs --------------------------
(***************************************************************************)
(* Proofs about Dispatcher for any number of workers, groups, handlers,    *)
(* registrations, updates and starts.                                      *)
(***************************************************************************)
EXTENDS Dispatcher, SequenceTheorems, WellFoundedInduction, TLAPS

Owners == AllWorkers \union Tasks

(***************************************************************************)
(* Types.  Beside TypeOK: a worker that has an update has one that was     *)
(* sent, one that is in the groups is in a group, and the lock that a      *)
(* registration waits for is in the list.                                  *)
(***************************************************************************)
Located ==
    /\ \A w \in AllWorkers : pc[w] \in {"parse", "lock", "handle"} => job[w] \in Updates
    /\ \A w \in AllWorkers : pc[w] = "handle" => group[w] \in Groups /\ place[w] # 0
    /\ \A t \in Tasks : task[t] = "acquire" => wants[t] \in 1 .. Len(locks)

\* Who owns which lock: a worker that goes through the groups its own, a
\* registration those it has come past.
LockInv ==
    /\ \A w \in AllWorkers : pc[w] = "handle" => Holds(w, w)
    /\ \A t \in Tasks : task[t] = "acquire" => \A l \in 1 .. wants[t] - 1 : Holds(t, l)

\* A set of natural numbers has a least element.
LEMMA LeastNatural ==
  ASSUME NEW T \in SUBSET Nat, T # {}
  PROVE  \E x \in T : \A y \in T : x <= y
<1> DEFINE R == OpToRel(<, Nat)
<1>1. \E x \in T : \A y \in T : ~(<<y, x>> \in R)
  <2> HIDE DEF R
  <2>1. IsWellFoundedOn(R, Nat)
    BY NatLessThanWellFounded DEF R
  <2> QED BY <2>1, WFMin
<1>2. \A x, y \in T : <<y, x>> \in R <=> y < x
  BY DEF OpToRel
<1> HIDE DEF R
<1>3. PICK x \in T : \A y \in T : ~(<<y, x>> \in R)
  BY <1>1
<1>4. \A y \in T : ~(y < x)
  BY <1>2, <1>3
<1> QED BY <1>4

LEMMA LowestOf ==
  ASSUME NEW s \in SUBSET Nat, s # {}
  PROVE  Lowest(s) \in s /\ \A h \in s : Lowest(s) <= h
BY LeastNatural DEF Lowest

\* list.remove and list.append on the handlers of a group.
LEMMA ChangedType ==
  ASSUME groups \in [Groups -> Seq(Handlers)], NEW t \in Tasks
  PROVE  Changed(t) \in Seq(Handlers)
<1> DEFINE r == groups[Op[t].group]
           h == Op[t].handler
           P(k) == r[k] = h /\ \A j \in 1 .. k - 1 : r[j] # h
           i == CHOOSE k \in DOMAIN r : P(k)
<1>0. r \in Seq(Handlers) /\ h \in Handlers
  BY OpAssumption
<1> HIDE DEF r, h
<1>1. Append(r, h) \in Seq(Handlers)
  BY <1>0
<1>2. ASSUME Contains(r, h) PROVE RemoveAt(r, i) \in Seq(Handlers)
  <2> DEFINE K == {k \in 1 .. Len(r) : r[k] = h}
  <2>0. Len(r) \in Nat /\ DOMAIN r = 1 .. Len(r)
    BY <1>0
  <2>1. K \in SUBSET Nat /\ K # {}
    BY <1>2, <2>0 DEF Contains
  <2>2. PICK m \in K : \A k \in K : m <= k
    <3> HIDE DEF K
    <3> QED BY <2>1, LeastNatural
  <2>3. P(m) /\ m \in DOMAIN r
    BY <2>0, <2>2
  <2>4. i \in 1 .. Len(r)
    BY <2>0, <2>3
  <2> HIDE DEF i, P
  <2>5. SubSeq(r, 1, i - 1) \in Seq(Handlers)
    <3>1. \A k \in 1 .. i - 1 : r[k] \in Handlers
      BY <1>0, <2>0, <2>4
    <3> QED BY <2>4, <3>1, SubSeqProperties
  <2>6. SubSeq(r, i + 1, Len(r)) \in Seq(Handlers)
    <3>1. \A k \in i + 1 .. Len(r) : r[k] \in Handlers
      BY <1>0, <2>0, <2>4
    <3> QED BY <2>0, <2>4, <3>1, SubSeqProperties
  <2> QED BY <2>5, <2>6, ConcatProperties DEF RemoveAt
<1> QED BY <1>0, <1>1, <1>2 DEF Changed, r, h

LEMMA RequestType ==
  ASSUME locks \in Seq(Seq(Owners)), NEW t \in Owners, NEW l \in 1 .. Len(locks)
  PROVE  /\ Request(t, l) \in Seq(Seq(Owners))
         /\ Len(Request(t, l)) = Len(locks) /\ DOMAIN Request(t, l) = DOMAIN locks
         /\ \A k \in 1 .. Len(locks) : Request(t, l)[k] = IF k = l THEN Append(locks[l], t) ELSE locks[k]
<1>1. locks[l] \in Seq(Owners)
  BY ElementOfSeq
<1>2. Append(locks[l], t) \in Seq(Owners)
  BY <1>1
<1> QED BY <1>2, ExceptSeq DEF Request

LEMMA MoreLocks ==
  ASSUME NEW S, NEW s \in Seq(S), NEW t \in Seq(S), NEW n, Len(t) = n
  PROVE  s \o t \in Seq(S) /\ Len(s \o t) = Len(s) + n
  BY ConcatProperties

LEMMA InitType == Init => TypeOK /\ Located
<1> SUFFICES ASSUME Init PROVE TypeOK /\ Located
  OBVIOUS
<1>1. updates_queue \in Seq(Updates \union {None}) /\ locks \in Seq(Seq(AllWorkers \union Tasks))
  BY DEF Init
<1>2. Len(locks) = 0 /\ DOMAIN locks = {} /\ DOMAIN called = {}
  BY DEF Init
<1> QED BY <1>1, <1>2, WorkersAssumption, RegisteredAssumption
     DEF Init, TypeOK, Located, Behaviours, None, Updates

\* A handler that was tried has an outcome that the worker goes on from.
LEMMA TryEnds ==
  ASSUME TypeOK, Located, NEW w \in AllWorkers, Try(w)
  PROVE  /\ group[w] \in Groups /\ place[w] \in 1 .. Len(groups[group[w]]) /\ Current(w) \in Handlers
         /\ NextHandler(w) \/ NextGroup(w) \/ Leave(w)
<1>1. group[w] \in Groups /\ place[w] \in 1 .. Len(groups[group[w]])
  BY DEF Try, TypeOK, Located
<1>2. Current(w) \in Handlers
  BY <1>1, ElementOfSeq DEF Current, TypeOK
<1> QED BY <1>1, <1>2 DEF Try, TypeOK, Behaviours

LEMMA NextType == TypeOK /\ Located /\ LockInv /\ [Next]_vars => TypeOK' /\ Located'
<1> SUFFICES ASSUME TypeOK, Located, LockInv, [Next]_vars PROVE TypeOK' /\ Located'
  OBVIOUS
<1>0. /\ locks \in Seq(Seq(Owners)) /\ Len(locks) \in Nat /\ DOMAIN locks = 1 .. Len(locks)
      /\ updates_queue \in Seq(Updates \union {None}) /\ Len(updates_queue) \in Nat
      /\ groups \in [Groups -> Seq(Handlers)]
      /\ \A g \in Groups : groups[g] \in Seq(Handlers) /\ Len(groups[g]) \in Nat
  BY DEF TypeOK, Owners
<1> USE DEF TypeOK, Located, work, registration, Owners, None, Updates
<1>1. CASE Start
  <2> DEFINE n == Len(locks)
             new == [i \in 1 .. Workers |-> <<>>]
  <2>1. new \in Seq(Seq(Owners)) /\ Len(new) = Workers
    BY WorkersAssumption
  <2>2. locks' \in Seq(Seq(Owners)) /\ Len(locks') = n + Workers
    <3>1. locks' = locks \o new
      BY <1>1 DEF Start
    <3> HIDE DEF new, Owners, TypeOK, Located
    <3>2. locks \o new \in Seq(Seq(Owners)) /\ Len(locks \o new) = n + Workers
      BY <1>0, <2>1, MoreLocks
    <3> QED BY <3>1, <3>2
  <2>3. DOMAIN locks' = 1 .. n + Workers
    BY <2>2
  <2>4. \A w \in AllWorkers : pc'[w] # "none" <=> w \in DOMAIN locks'
    BY <1>1, <1>0, <2>3, WorkersAssumption DEF Start, AllWorkers
  <2>5. pc' \in [AllWorkers -> {"none", "get", "parse", "lock", "handle", "ended"}]
    BY <1>1 DEF Start
  <2>6. \A w \in AllWorkers : pc'[w] = pc[w] \/ pc'[w] = "get"
    BY <1>1 DEF Start
  <2> QED BY <1>1, <1>0, <2>2, <2>3, <2>4, <2>5, <2>6, WorkersAssumption DEF Start
<1>2. CASE Stop
  <2>1. [i \in 1 .. Workers |-> None] \in Seq(Updates \union {None})
    BY WorkersAssumption
  <2>2. updates_queue' \in Seq(Updates \union {None})
    BY <1>2, <2>1, <1>0, ConcatProperties DEF Stop, StopWith
  <2> QED BY <1>2, <2>2 DEF Stop, StopWith
<1>3. CASE Stopped
  <2>1. groups' \in [Groups -> Seq(Handlers)]
    BY <1>3 DEF Stopped
  <2> QED BY <1>3, <2>1 DEF Stopped
<1>4. CASE Send
  <2>1. sent + 1 \in 1 .. MaxUpdates
    BY <1>4, WorkersAssumption DEF Send
  <2>2. updates_queue' \in Seq(Updates \union {None})
    BY <1>4, <2>1, <1>0, AppendProperties DEF Send
  <2> QED BY <1>4, <2>1, <2>2 DEF Send
<1>r. ASSUME NEW t \in Tasks, Apply(t) PROVE /\ groups' \in [Groups -> Seq(Handlers)]
                                          /\ locks' \in Seq(Seq(Owners)) /\ Len(locks') = Len(locks)
                                          /\ DOMAIN locks' = DOMAIN locks
                                          /\ task' = [task EXCEPT ![t] = "done"] /\ wants' = wants
  <2>1. groups' \in [Groups -> Seq(Handlers)]
    BY <1>r, <1>0, ChangedType DEF Apply
  <2>2. \A l \in 1 .. Len(locks) : locks[l] \in Seq(Owners)
    BY <1>0, ElementOfSeq
  <2>3. \A l \in 1 .. Len(locks) : (IF Holds(t, l) THEN Tail(locks[l]) ELSE locks[l]) \in Seq(Owners)
    <3> HIDE DEF Owners
    <3> QED BY <2>2 DEF Holds
  <2>4. locks' \in Seq(Seq(Owners)) /\ Len(locks') = Len(locks) /\ DOMAIN locks' = DOMAIN locks
    <3> HIDE DEF Owners
    <3> QED BY <1>r, <1>0, <2>3 DEF Apply
  <2> QED BY <1>r, <2>1, <2>4 DEF Apply
<1>a. ASSUME NEW t \in Tasks, NEW l \in Nat \ {0}, Advance(t, l) PROVE
         /\ groups' \in [Groups -> Seq(Handlers)]
         /\ locks' \in Seq(Seq(Owners)) /\ Len(locks') = Len(locks) /\ DOMAIN locks' = DOMAIN locks
         /\ task' \in [Tasks -> {"idle", "acquire", "done"}] /\ wants' \in [Tasks -> Nat]
         /\ \A s \in Tasks : task'[s] = "acquire" => wants'[s] \in 1 .. Len(locks)
  <2>1. CASE l <= Len(locks)
    <3>1. l \in 1 .. Len(locks)
      BY <2>1, <1>0
    <3>2. locks' \in Seq(Seq(Owners)) /\ Len(locks') = Len(locks) /\ DOMAIN locks' = DOMAIN locks
      BY <1>a, <1>0, <2>1, <3>1, RequestType DEF Advance
    <3> QED BY <1>a, <2>1, <3>1, <3>2 DEF Advance
  <2>2. CASE ~(l <= Len(locks))
    <3>1. Apply(t)
      BY <1>a, <2>2 DEF Advance
    <3> QED BY <1>r, <3>1
  <2> QED BY <2>1, <2>2
<1>5. ASSUME NEW t \in Tasks, Begin(t) PROVE TypeOK' /\ Located'
  <2>1. Advance(t, 1)
    BY <1>5 DEF Begin
  <2> QED BY <1>5, <1>a, <2>1 DEF Begin
<1>6. ASSUME NEW t \in Tasks, Acquired(t) PROVE TypeOK' /\ Located'
  <2>1. Advance(t, wants[t] + 1) /\ wants[t] + 1 \in Nat \ {0}
    BY <1>6 DEF Acquired
  <2> QED BY <1>6, <1>a, <2>1 DEF Acquired
<1>7. ASSUME NEW w \in AllWorkers, Take(w) PROVE TypeOK' /\ Located'
  <2>1. Head(updates_queue) \in Updates \union {None} /\ updates_queue' \in Seq(Updates \union {None})
    BY <1>7, <1>0, HeadTailProperties DEF Take
  <2> QED BY <1>7, <2>1 DEF Take
<1>8. ASSUME NEW w \in AllWorkers, ParseFails(w) PROVE TypeOK' /\ Located'
  BY <1>8 DEF ParseFails, Done
<1>9. ASSUME NEW w \in AllWorkers, Parsed(w) PROVE TypeOK' /\ Located'
  <2>1. w \in 1 .. Len(locks)
    BY <1>9, <1>0 DEF Parsed
  <2>2. locks' \in Seq(Seq(Owners)) /\ Len(locks') = Len(locks) /\ DOMAIN locks' = DOMAIN locks
    BY <1>9, <1>0, <2>1, RequestType DEF Parsed
  <2> QED BY <1>9, <2>2 DEF Parsed
<1>10. ASSUME NEW w \in AllWorkers, Enter(w) PROVE TypeOK' /\ Located'
  <2>1. Lowest(Groups) \in Groups
    BY GroupsAssumption, LowestOf
  <2> QED BY <1>10, <2>1 DEF Enter
<1>l. ASSUME NEW w \in AllWorkers, pc[w] = "handle", Leave(w), given' \in [AllWorkers -> SUBSET Handlers],
             UNCHANGED <<updates_queue, sent, groups, job, registration, phase, behaves>>
      PROVE  TypeOK' /\ Located'
  <2>1. w \in 1 .. Len(locks)
    BY <1>l, <1>0
  <2>2. locks[w] \in Seq(Owners)
    BY <1>0, <2>1, ElementOfSeq
  <2>3. locks' \in Seq(Seq(Owners)) /\ Len(locks') = Len(locks) /\ DOMAIN locks' = DOMAIN locks
    <3>1. locks' = [locks EXCEPT ![w] = Tail(locks[w])]
      BY <1>l DEF Leave, LeaveWith
    <3>2. locks[w] # <<>>
      BY <1>l DEF LockInv, Holds
    <3>3. Tail(locks[w]) \in Seq(Owners)
      <4> HIDE DEF Owners
      <4> QED BY <2>2, <3>2
    <3> HIDE DEF Owners
    <3> QED BY <1>0, <2>1, <3>1, <3>3, ExceptSeq
  <2> QED BY <1>l, <2>3 DEF Leave, LeaveWith, Done
<1>g. ASSUME NEW w \in AllWorkers, pc[w] = "handle", NextGroup(w), given' \in [AllWorkers -> SUBSET Handlers],
             UNCHANGED <<updates_queue, sent, groups, job, registration, phase, behaves>>
      PROVE  TypeOK' /\ Located'
  <2>1. CASE Later(w) = {}
    BY <1>g, <1>l, <2>1 DEF NextGroup
  <2>2. CASE Later(w) # {}
    <3> DEFINE g == Lowest(Later(w))
    <3>1. g \in Groups
      BY <2>2, GroupsAssumption, LowestOf DEF Later
    <3>2. group' = [group EXCEPT ![w] = g] /\ place' = [place EXCEPT ![w] = 1] /\ UNCHANGED <<pc, locks, called>>
      BY <1>g, <2>2 DEF NextGroup
    <3> HIDE DEF g
    <3> QED BY <1>g, <3>1, <3>2
  <2> QED BY <2>1, <2>2
<1>h. ASSUME NEW w \in AllWorkers, pc[w] = "handle", NextHandler(w), given' \in [AllWorkers -> SUBSET Handlers],
             UNCHANGED <<updates_queue, sent, groups, job, registration, phase, behaves>>
      PROVE  TypeOK' /\ Located'
  BY <1>h DEF NextHandler
<1>11. ASSUME NEW w \in AllWorkers, GroupDone(w) PROVE TypeOK' /\ Located'
  BY <1>11, <1>g DEF GroupDone
<1>12. ASSUME NEW w \in AllWorkers, Try(w) PROVE TypeOK' /\ Located'
  <2>2. Current(w) \in Handlers
    BY <1>12, TryEnds
  <2>3. given' \in [AllWorkers -> SUBSET Handlers]
    BY <1>12, <2>2 DEF Try
  <2>4. NextHandler(w) \/ NextGroup(w) \/ Leave(w)
    BY <1>12, TryEnds
  <2> QED BY <1>12, <1>l, <1>g, <1>h, <2>3, <2>4 DEF Try
<1>13. CASE UNCHANGED vars
  BY <1>13 DEF vars
<1> QED BY <1>1, <1>2, <1>3, <1>4, <1>5, <1>6, <1>7, <1>8, <1>9, <1>10, <1>11, <1>12, <1>13 DEF Next, Registration, Worker

LEMMA InitLock == Init => LockInv
BY DEF Init, LockInv

LEMMA NextLock == TypeOK /\ Located /\ LockInv /\ [Next]_vars => LockInv'
<1> SUFFICES ASSUME TypeOK, Located, LockInv, [Next]_vars PROVE LockInv'
  OBVIOUS
<1>0. /\ locks \in Seq(Seq(Owners)) /\ Len(locks) \in Nat /\ DOMAIN locks = 1 .. Len(locks)
      /\ \A l \in 1 .. Len(locks) : locks[l] \in Seq(Owners)
  <2>1. locks \in Seq(Seq(Owners))
    BY DEF TypeOK, Owners
  <2> HIDE DEF Owners
  <2> QED BY <2>1, ElementOfSeq
<1>t. /\ \A w \in AllWorkers : pc[w] = "handle" => w \in 1 .. Len(locks)
      /\ \A t \in Tasks : task[t] = "acquire" => wants[t] \in 1 .. Len(locks)
  BY <1>0 DEF TypeOK, Located
<1> USE DEF work, registration
\* The owner of a lock changes only when it lets the lock go.
<1>f. ASSUME \A l \in 1 .. Len(locks) : locks[l] # <<>> => locks'[l] # <<>> /\ Head(locks'[l]) = Head(locks[l]),
             Len(locks') \in Nat, Len(locks') >= Len(locks),
             \A w \in AllWorkers : pc'[w] = "handle" => pc[w] = "handle",
             UNCHANGED <<task, wants>>
      PROVE  LockInv'
  <2>1. \A x : \A l \in 1 .. Len(locks) : Holds(x, l) => Holds(x, l)'
    BY <1>f DEF Holds
  <2>2. \A w \in AllWorkers : pc'[w] = "handle" => Holds(w, w)'
    BY <1>f, <1>t, <2>1 DEF LockInv
  <2>3. \A t \in Tasks : task[t] = "acquire" => \A l \in 1 .. wants[t] - 1 : Holds(t, l) /\ l \in 1 .. Len(locks)
    BY <1>0, <1>t DEF LockInv
  <2>4. \A t \in Tasks : task[t] = "acquire" => \A l \in 1 .. wants[t] - 1 : Holds(t, l)'
    BY <2>1, <2>3
  <2>5. task' = task /\ wants' = wants
    BY <1>f
  <2> QED BY <2>2, <2>4, <2>5 DEF LockInv
<1>q. ASSUME NEW x \in Owners, NEW k \in 1 .. Len(locks), locks' = Request(x, k)
      PROVE  /\ \A l \in 1 .. Len(locks) : locks[l] # <<>> => locks'[l] # <<>> /\ Head(locks'[l]) = Head(locks[l])
             /\ Len(locks') = Len(locks)
  <2>1. \A l \in 1 .. Len(locks) : locks'[l] = IF l = k THEN Append(locks[k], x) ELSE locks[l]
    BY <1>q, <1>0, RequestType
  <2>2. locks[k] # <<>> => Append(locks[k], x) # <<>> /\ Head(Append(locks[k], x)) = Head(locks[k])
    <3> HIDE DEF Owners
    <3>1. locks[k] \in Seq(Owners)
      BY <1>0
    <3> QED BY <3>1, HeadTailAppend, AppendProperties
  <2>3. Len(locks') = Len(locks)
    BY <1>q, <1>0, RequestType
  <2> QED BY <2>1, <2>2, <2>3
<1>1. CASE Start
  <2> DEFINE new == [i \in 1 .. Workers |-> <<>>]
  <2>1. new \in Seq(Seq(Owners)) /\ Len(new) = Workers
    BY WorkersAssumption
  <2>2. locks' = locks \o new
    BY <1>1 DEF Start
  <2>3. Len(locks') = Len(locks) + Workers /\ \A l \in 1 .. Len(locks) : locks'[l] = locks[l]
    <3> HIDE DEF new, Owners
    <3>1. /\ Len(locks \o new) = Len(locks) + Len(new)
          /\ \A l \in 1 .. Len(locks) + Len(new) :
               (locks \o new)[l] = IF l <= Len(locks) THEN locks[l] ELSE new[l - Len(locks)]
      BY <1>0, <2>1, ConcatProperties
    <3>2. \A l \in 1 .. Len(locks) : l \in 1 .. Len(locks) + Len(new) /\ l <= Len(locks)
      BY <1>0, <2>1, WorkersAssumption
    <3> QED BY <2>1, <2>2, <3>1, <3>2
  <2>4. \A w \in AllWorkers : pc'[w] = "handle" => pc[w] = "handle"
    BY <1>1 DEF Start
  <2> QED BY <1>1, <1>0, <1>f, <2>3, <2>4, WorkersAssumption DEF Start
<1>2. CASE Stop
  BY <1>2, <1>0, <1>f DEF Stop, StopWith
<1>3. CASE Stopped
  BY <1>3, <1>0, <1>f DEF Stopped
<1>4. CASE Send
  BY <1>4, <1>0, <1>f DEF Send
<1>r. ASSUME NEW t \in Tasks, Apply(t), UNCHANGED pc PROVE LockInv'
  <2>1. /\ Len(locks') = Len(locks)
        /\ \A l \in 1 .. Len(locks) : locks'[l] = IF Holds(t, l) THEN Tail(locks[l]) ELSE locks[l]
    BY <1>r, <1>0 DEF Apply
  <2>2. \A w \in AllWorkers : w # t
    BY TasksAssumption
  <2>3. \A x \in Owners : \A l \in 1 .. Len(locks) : x # t /\ Holds(x, l) => Holds(x, l)'
    BY <2>1 DEF Holds
  <2>4. \A s \in Tasks : task'[s] = "acquire" => s # t /\ task[s] = "acquire" /\ wants'[s] = wants[s]
    BY <1>r DEF Apply, TypeOK
  <2> QED BY <1>r, <1>0, <1>t, <2>1, <2>2, <2>3, <2>4 DEF LockInv, Owners
<1>a. ASSUME NEW t \in Tasks, NEW k \in Nat \ {0}, Advance(t, k), UNCHANGED pc,
             \A l \in 1 .. k - 1 : Holds(t, l)
      PROVE  LockInv'
  <2>1. CASE ~(k <= Len(locks))
    BY <1>a, <1>r, <2>1 DEF Advance
  <2>2. CASE k <= Len(locks)
    <3>1. k \in 1 .. Len(locks) /\ t \in Owners
      BY <1>0, <2>2 DEF Owners
    <3>2. locks' = Request(t, k) /\ wants' = [wants EXCEPT ![t] = k] /\ task' = [task EXCEPT ![t] = "acquire"]
      BY <1>a, <2>2 DEF Advance
    <3>3. /\ \A l \in 1 .. Len(locks) : locks[l] # <<>> => locks'[l] # <<>> /\ Head(locks'[l]) = Head(locks[l])
          /\ Len(locks') = Len(locks)
      BY <1>q, <3>1, <3>2
    <3>4. \A x \in Owners : \A l \in 1 .. Len(locks) : Holds(x, l) => Holds(x, l)'
      BY <3>3 DEF Holds
    <3>5. \A s \in Tasks : task'[s] = "acquire" =>
                               \/ s = t /\ wants'[s] = k
                               \/ task[s] = "acquire" /\ wants'[s] = wants[s]
      BY <3>2 DEF TypeOK
    <3>6. \A s \in Tasks : task'[s] = "acquire" => \A l \in 1 .. wants'[s] - 1 : Holds(s, l) /\ l \in 1 .. Len(locks)
      BY <1>a, <1>0, <1>t, <3>1, <3>5 DEF LockInv
    <3>7. \A w \in AllWorkers : pc[w] = "handle" => Holds(w, w)'
      BY <1>t, <3>4 DEF LockInv, Owners
    <3> QED BY <1>a, <3>4, <3>6, <3>7 DEF LockInv, Owners
  <2> QED BY <2>1, <2>2
<1>5. ASSUME NEW t \in Tasks, Begin(t) PROVE LockInv'
  <2>1. Advance(t, 1) /\ UNCHANGED pc
    BY <1>5 DEF Begin
  <2> QED BY <1>5, <1>a, <2>1
<1>6. ASSUME NEW t \in Tasks, Acquired(t) PROVE LockInv'
  <2>1. /\ Advance(t, wants[t] + 1) /\ wants[t] + 1 \in Nat \ {0} /\ UNCHANGED pc
        /\ task[t] = "acquire" /\ Holds(t, wants[t]) /\ wants[t] \in 1 .. Len(locks)
    BY <1>6, <1>t DEF Acquired, TypeOK
  <2>2. \A l \in 1 .. (wants[t] + 1) - 1 : l = wants[t] \/ l \in 1 .. wants[t] - 1
    BY <1>0, <2>1
  <2>3. \A l \in 1 .. (wants[t] + 1) - 1 : Holds(t, l)
    BY <2>1, <2>2 DEF LockInv
  <2> QED BY <1>a, <2>1, <2>3
<1>7. ASSUME NEW w \in AllWorkers, Take(w) PROVE LockInv'
  <2>1. \A v \in AllWorkers : pc'[v] = "handle" => pc[v] = "handle"
    BY <1>7 DEF Take, TypeOK
  <2> QED BY <1>7, <1>0, <1>f, <2>1 DEF Take
<1>8. ASSUME NEW w \in AllWorkers, ParseFails(w) PROVE LockInv'
  <2>1. \A v \in AllWorkers : pc'[v] = "handle" => pc[v] = "handle"
    BY <1>8 DEF ParseFails, TypeOK
  <2> QED BY <1>8, <1>0, <1>f, <2>1 DEF ParseFails
<1>9. ASSUME NEW w \in AllWorkers, Parsed(w) PROVE LockInv'
  <2>1. \A v \in AllWorkers : pc'[v] = "handle" => pc[v] = "handle"
    BY <1>9 DEF Parsed, TypeOK
  <2>2. w \in 1 .. Len(locks) /\ w \in Owners
    BY <1>9, <1>0 DEF Parsed, TypeOK, Owners
  <2> QED BY <1>9, <1>0, <1>f, <1>q, <2>1, <2>2 DEF Parsed
<1>10. ASSUME NEW w \in AllWorkers, Enter(w) PROVE LockInv'
  <2>1. \A v \in AllWorkers : pc'[v] = "handle" => pc[v] = "handle" \/ v = w
    BY <1>10 DEF Enter, TypeOK
  <2> QED BY <1>10, <2>1 DEF Enter, LockInv, Holds
<1>l. ASSUME NEW w \in AllWorkers, pc[w] = "handle", Leave(w), UNCHANGED <<task, wants>> PROVE LockInv'
  <2>1. w \in 1 .. Len(locks) /\ Holds(w, w)
    BY <1>l, <1>t DEF LockInv
  <2>2. Len(locks') = Len(locks) /\ \A l \in 1 .. Len(locks) : l # w => locks'[l] = locks[l]
    BY <1>l, <1>0, <2>1 DEF Leave, LeaveWith
  <2>3. \A v \in AllWorkers : pc'[v] = "handle" => pc[v] = "handle" /\ v # w
    BY <1>l DEF Leave, LeaveWith, TypeOK
  <2>4. \A s \in Tasks : \A l \in 1 .. Len(locks) : Holds(s, l) => l # w
    BY <2>1, TasksAssumption DEF Holds
  <2>5. \A v \in AllWorkers : pc'[v] = "handle" => Holds(v, v)'
    BY <1>t, <2>2, <2>3 DEF LockInv, Holds
  <2>6. \A s \in Tasks : task[s] = "acquire" => \A l \in 1 .. wants[s] - 1 : Holds(s, l) /\ l \in 1 .. Len(locks)
    BY <1>0, <1>t DEF LockInv
  <2>7. \A s \in Tasks : task[s] = "acquire" => \A l \in 1 .. wants[s] - 1 : Holds(s, l)'
    BY <2>2, <2>4, <2>6 DEF Holds
  <2> QED BY <1>l, <2>5, <2>7 DEF LockInv
<1>g. ASSUME NEW w \in AllWorkers, pc[w] = "handle", NextGroup(w), UNCHANGED <<task, wants>> PROVE LockInv'
  BY <1>g, <1>l, <1>f, <1>0 DEF NextGroup
<1>11. ASSUME NEW w \in AllWorkers, GroupDone(w) PROVE LockInv'
  BY <1>11, <1>g DEF GroupDone
<1>12. ASSUME NEW w \in AllWorkers, Try(w) PROVE LockInv'
  <2>3. NextHandler(w) \/ NextGroup(w) \/ Leave(w)
    BY <1>12, TryEnds
  <2>4. CASE NextHandler(w)
    BY <1>12, <1>f, <1>0, <2>4 DEF NextHandler, Try
  <2> QED BY <1>12, <1>l, <1>g, <2>3, <2>4 DEF Try
<1>13. CASE UNCHANGED vars
  BY <1>13, <1>f, <1>0 DEF vars
<1> QED BY <1>1, <1>2, <1>3, <1>4, <1>5, <1>6, <1>7, <1>8, <1>9, <1>10, <1>11, <1>12, <1>13 DEF Next, Registration, Worker

(***************************************************************************)
(* A registration that has come past all locks has the groups to itself.   *)
(***************************************************************************)
LEMMA OnlyWithAllLocks ==
  ASSUME TypeOK, LockInv, NEW t \in Tasks, NEW k \in Nat \ {0}, Advance(t, k), groups' # groups,
         \A l \in 1 .. k - 1 : Holds(t, l)
  PROVE  \A w \in AllWorkers : pc[w] # "handle"
<1>0. Len(locks) \in Nat /\ DOMAIN locks = 1 .. Len(locks)
  BY DEF TypeOK
<1>1. ~(k <= Len(locks))
  BY DEF Advance
<1>2. \A l \in 1 .. Len(locks) : Holds(t, l)
  BY <1>0, <1>1
<1>3. \A w \in AllWorkers : pc[w] = "handle" => w \in 1 .. Len(locks) /\ Holds(w, w)
  BY <1>0 DEF TypeOK, LockInv
<1>4. \A w \in AllWorkers : w # t
  BY TasksAssumption
<1> QED BY <1>2, <1>3, <1>4 DEF Holds

LEMMA NextStable ==
  TypeOK /\ Located /\ LockInv /\ [Next]_vars /\ groups' # groups
    => \A w \in AllWorkers : pc[w] # "handle"
<1> SUFFICES ASSUME TypeOK, Located, LockInv, [Next]_vars, groups' # groups
             PROVE  \A w \in AllWorkers : pc[w] # "handle"
  OBVIOUS
<1>1. CASE Stopped
  BY <1>1 DEF Stopped, Alive
<1>2. ASSUME NEW t \in Tasks, Begin(t) PROVE \A w \in AllWorkers : pc[w] # "handle"
  <2>1. Advance(t, 1) /\ \A l \in 1 .. 1 - 1 : Holds(t, l)
    BY <1>2 DEF Begin
  <2> QED BY <2>1, OnlyWithAllLocks
<1>3. ASSUME NEW t \in Tasks, Acquired(t) PROVE \A w \in AllWorkers : pc[w] # "handle"
  <2>1. /\ Advance(t, wants[t] + 1) /\ wants[t] + 1 \in Nat \ {0}
        /\ task[t] = "acquire" /\ Holds(t, wants[t]) /\ wants[t] \in Nat
    BY <1>3 DEF Acquired, TypeOK
  <2>2. \A l \in 1 .. (wants[t] + 1) - 1 : l = wants[t] \/ l \in 1 .. wants[t] - 1
    BY <2>1
  <2>3. \A l \in 1 .. (wants[t] + 1) - 1 : Holds(t, l)
    BY <2>1, <2>2 DEF LockInv
  <2> HIDE DEF Advance
  <2> QED BY <2>1, <2>3, OnlyWithAllLocks
<1>4. Next => \/ Stopped
              \/ \E t \in Tasks : Begin(t) \/ Acquired(t)
              \/ groups' = groups
  BY DEF Next, Registration, Worker, Start, Stop, StopWith, Send, Take, ParseFails, Parsed, Enter, GroupDone, Try
<1>5. UNCHANGED vars => groups' = groups
  BY DEF vars
<1> QED BY <1>1, <1>2, <1>3, <1>4, <1>5

\* Every reachable state has its types: no lock is asked for that is not in
\* the list, and no worker is at a place that its group never had.
THEOREM TypeCorrectness == Spec => []TypeOK
<1>1. Init => TypeOK /\ Located /\ LockInv
  BY InitType, InitLock
<1>2. TypeOK /\ Located /\ LockInv /\ [Next]_vars => TypeOK' /\ Located' /\ LockInv'
  BY NextType, NextLock
<1> QED BY <1>1, <1>2, PTL DEF Spec

\* add_handler, remove_handler and stop never change the groups while a
\* worker is going through them, over any number of starts: the changing
\* task holds the lock of every worker that was ever started.
THEOREM GroupsHeld == Spec => RegistryStable
<1>1. Init => TypeOK /\ Located /\ LockInv
  BY InitType, InitLock
<1>2. TypeOK /\ Located /\ LockInv /\ [Next]_vars => TypeOK' /\ Located' /\ LockInv'
  BY NextType, NextLock
<1>3. TypeOK /\ Located /\ LockInv /\ [Next]_vars
        => [groups' # groups => \A w \in AllWorkers : pc[w] # "handle"]_vars
  BY NextStable
<1> QED BY <1>1, <1>2, <1>3, PTL DEF Spec, RegistryStable

-----------------------------------------------------------------------------
(***************************************************************************)
(* Each update once.  Pairwise: what is on the queue, with a worker or     *)
(* done is nowhere else, and nothing is there that was not sent.           *)
(***************************************************************************)
Active(w) == pc[w] \in {"parse", "lock", "handle"}
Queued == 1 .. Len(updates_queue)

Somewhere ==
    \A u \in 1 .. sent : \/ u \in DOMAIN called
                         \/ \E i \in Queued : updates_queue[i] = u
                         \/ \E w \in AllWorkers : Active(w) /\ job[w] = u
OnQueue ==
    \A i \in Queued :
      /\ updates_queue[i] \in 0 .. sent /\ updates_queue[i] \notin DOMAIN called
      /\ \A j \in Queued : j # i => updates_queue[j] # updates_queue[i] \/ updates_queue[i] = None
      /\ \A w \in AllWorkers : Active(w) => updates_queue[i] # job[w]
WithWorkers ==
    \A w \in AllWorkers : Active(w) =>
      /\ job[w] \in 1 .. sent /\ job[w] \notin DOMAIN called
      /\ \A v \in AllWorkers : Active(v) /\ job[v] = job[w] => v = w
OnceInv == Somewhere /\ OnQueue /\ WithWorkers /\ DOMAIN called \subseteq 1 .. sent

LEMMA InitOnce == Init => OnceInv
<1> SUFFICES ASSUME Init PROVE OnceInv
  OBVIOUS
<1>1. Queued = {} /\ DOMAIN called = {} /\ 1 .. sent = {} /\ \A w \in AllWorkers : ~Active(w)
  BY DEF Init, Queued, Active
<1> QED BY <1>1 DEF OnceInv, Somewhere, OnQueue, WithWorkers

LEMMA OnceFrame ==
  ASSUME OnceInv, UNCHANGED <<updates_queue, sent, called, job>>,
         \A w \in AllWorkers : Active(w)' <=> Active(w)
  PROVE  OnceInv'
BY DEF OnceInv, Somewhere, OnQueue, WithWorkers, Queued

LEMMA OnceDone ==
  ASSUME TypeOK, OnceInv, NEW w \in AllWorkers, Active(w), pc' = [pc EXCEPT ![w] = "get"],
         DOMAIN called' = DOMAIN called \union {job[w]}, updates_queue' = updates_queue, sent' = sent, job' = job
  PROVE  OnceInv'
<1>1. DOMAIN called' = DOMAIN called \union {job[w]}
  OBVIOUS
<1>2. \A v \in AllWorkers : Active(v)' <=> Active(v) /\ v # w
  BY DEF Active, TypeOK
<1>3. Somewhere'
  BY <1>1, <1>2 DEF OnceInv, Somewhere, Queued
<1>4. OnQueue'
  BY <1>1, <1>2 DEF OnceInv, OnQueue, Queued
<1>5. WithWorkers'
  BY <1>1, <1>2 DEF OnceInv, WithWorkers
<1>6. DOMAIN called' \subseteq 1 .. sent'
  BY <1>1 DEF OnceInv, WithWorkers
<1> QED BY <1>3, <1>4, <1>5, <1>6 DEF OnceInv

LEMMA NextOnce == TypeOK /\ Located /\ OnceInv /\ [Next]_vars => OnceInv'
<1> SUFFICES ASSUME TypeOK, Located, OnceInv, [Next]_vars PROVE OnceInv'
  OBVIOUS
<1>0. updates_queue \in Seq(Updates \union {None}) /\ Len(updates_queue) \in Nat /\ sent \in Nat
  BY DEF TypeOK
<1> USE DEF work, registration
<1>1. CASE Start
  <2>1. \A w \in AllWorkers : w > Len(locks) => pc[w] = "none"
    BY DEF TypeOK
  <2>2. \A w \in AllWorkers : Active(w)' <=> Active(w)
    BY <1>1, <2>1 DEF Start, Active
  <2> QED BY <1>1, <2>2, OnceFrame DEF Start
<1>2. CASE Stop
  <2> DEFINE q == updates_queue
             new == [i \in 1 .. Workers |-> None]
  <2>1. new \in Seq(Updates \union {None}) /\ Len(new) = Workers /\ \A i \in 1 .. Workers : new[i] = None
    BY WorkersAssumption
  <2>2. q' = q \o new /\ UNCHANGED <<sent, called, job, pc>>
    BY <1>2 DEF Stop, StopWith
  <2>3. /\ Len(q') = Len(q) + Workers
        /\ \A i \in Queued' : IF i \in Queued THEN q'[i] = q[i] ELSE q'[i] = None
    <3> HIDE DEF new
    <3>1. /\ Len(q \o new) = Len(q) + Len(new)
          /\ \A i \in 1 .. Len(q) + Len(new) : (q \o new)[i] = IF i <= Len(q) THEN q[i] ELSE new[i - Len(q)]
      BY <1>0, <2>1, ConcatProperties
    <3>2. \A i \in 1 .. Len(q) + Workers : i > Len(q) => i - Len(q) \in 1 .. Workers
      BY <1>0, WorkersAssumption
    <3>3. \A i \in 1 .. Len(q) + Workers : i \in Queued <=> i <= Len(q)
      BY <1>0, WorkersAssumption DEF Queued
    <3> QED BY <2>1, <2>2, <3>1, <3>2, <3>3 DEF Queued
  <2>4. Queued \subseteq Queued'
    BY <1>0, <2>3, WorkersAssumption DEF Queued
  <2>5. \A w \in AllWorkers : Active(w)' <=> Active(w)
    BY <2>2 DEF Active
  <2>6. Somewhere'
    BY <2>2, <2>3, <2>4, <2>5 DEF OnceInv, Somewhere
  <2>7. 0 \notin DOMAIN called /\ \A w \in AllWorkers : Active(w) => job[w] # 0
    BY <1>0 DEF OnceInv, WithWorkers
  <2>8. OnQueue'
    <3> SUFFICES ASSUME NEW i \in Queued'
                 PROVE  /\ q'[i] \in 0 .. sent' /\ q'[i] \notin DOMAIN called'
                        /\ \A j \in Queued' : j # i => q'[j] # q'[i] \/ q'[i] = None
                        /\ \A v \in AllWorkers : Active(v)' => q'[i] # job'[v]
      BY DEF OnQueue
    <3>1. CASE i \notin Queued
      <4>1. q'[i] = None
        BY <2>3, <3>1
      <4>2. sent' = sent
        BY <2>2
      <4>3. 0 \in 0 .. sent'
        BY <1>0, <4>2
      <4>4. q'[i] = 0
        BY <4>1 DEF None
      <4> QED BY <2>2, <2>5, <2>7, <4>1, <4>3, <4>4
    <3>2. CASE i \in Queued
      <4>1. q'[i] = q[i]
        BY <2>3, <3>2
      <4>2. ASSUME NEW j \in Queued', j # i PROVE q'[j] # q'[i] \/ q'[i] = None
        BY <2>3, <3>2, <4>1, <4>2 DEF OnceInv, OnQueue
      <4> QED BY <2>2, <2>5, <3>2, <4>1, <4>2 DEF OnceInv, OnQueue
    <3> QED BY <3>1, <3>2
  <2> QED BY <2>2, <2>5, <2>6, <2>8 DEF OnceInv, WithWorkers
<1>3. CASE Stopped
  BY <1>3, OnceFrame DEF Stopped, Active
<1>4. CASE Send
  <2> DEFINE q == updates_queue
  <2>1. /\ q' = Append(q, sent + 1) /\ sent' = sent + 1 /\ UNCHANGED <<called, job, pc>>
    BY <1>4 DEF Send
  <2>2. /\ Len(q') = Len(q) + 1 /\ q'[Len(q) + 1] = sent + 1
        /\ \A i \in Queued : q'[i] = q[i] /\ i \in Queued'
        /\ \A i \in Queued' : i \in Queued \/ i = Len(q) + 1
        /\ Len(q) + 1 \in Queued'
    BY <1>0, <2>1 DEF Queued
  <2>3. \A w \in AllWorkers : Active(w)' <=> Active(w)
    BY <2>1 DEF Active
  <2>4. \A u \in 1 .. sent' : u \in 1 .. sent \/ u = sent + 1
    BY <1>0, <2>1
  <2>5. Somewhere'
    BY <2>1, <2>2, <2>3, <2>4 DEF OnceInv, Somewhere
  <2>6. OnQueue'
    <3>1. \A i \in Queued : q[i] \in 0 .. sent' /\ q[i] # sent + 1
      BY <1>0, <2>1 DEF OnceInv, OnQueue
    <3>2. sent + 1 \notin DOMAIN called /\ sent + 1 \in 0 .. sent'
      BY <1>0, <2>1 DEF OnceInv
    <3>3. \A w \in AllWorkers : Active(w) => job[w] # sent + 1
      BY <1>0 DEF OnceInv, WithWorkers
    <3>4. ASSUME NEW i \in Queued'
          PROVE  /\ q'[i] \in 0 .. sent' /\ q'[i] \notin DOMAIN called'
                 /\ \A j \in Queued' : j # i => q'[j] # q'[i] \/ q'[i] = None
                 /\ \A w \in AllWorkers : Active(w)' => q'[i] # job'[w]
      <4>1. CASE i \in Queued
        <5>1. q'[i] \in 0 .. sent' /\ q'[i] \notin DOMAIN called'
          BY <2>1, <2>2, <3>1, <4>1 DEF OnceInv, OnQueue
        <5>2. \A j \in Queued' : j # i => q'[j] # q'[i] \/ q'[i] = None
          BY <2>2, <3>1, <4>1 DEF OnceInv, OnQueue
        <5>3. \A w \in AllWorkers : Active(w)' => q'[i] # job'[w]
          BY <2>1, <2>2, <2>3, <4>1 DEF OnceInv, OnQueue
        <5> QED BY <5>1, <5>2, <5>3
      <4>2. CASE i = Len(q) + 1
        <5>1. q'[i] = sent + 1 /\ \A j \in Queued' : j # i => j \in Queued
          BY <2>2, <4>2
        <5>2. \A j \in Queued' : j # i => q'[j] # q'[i]
          BY <2>2, <3>1, <5>1
        <5> QED BY <2>1, <2>3, <3>2, <3>3, <5>1, <5>2
      <4> QED BY <2>2, <4>1, <4>2
    <3> QED BY <3>4 DEF OnQueue
  <2>7. WithWorkers' /\ DOMAIN called' \subseteq 1 .. sent'
    BY <1>0, <2>1, <2>3 DEF OnceInv, WithWorkers
  <2> QED BY <2>5, <2>6, <2>7 DEF OnceInv
<1>5. ASSUME NEW t \in Tasks, Begin(t) PROVE OnceInv'
  BY <1>5, OnceFrame DEF Begin, Active
<1>6. ASSUME NEW t \in Tasks, Acquired(t) PROVE OnceInv'
  BY <1>6, OnceFrame DEF Acquired, Active
<1>7. ASSUME NEW w \in AllWorkers, Take(w) PROVE OnceInv'
  <2> DEFINE q == updates_queue
             u == q[1]
  <2>1. q # <<>> /\ Len(q) > 0 /\ 1 \in Queued /\ Head(q) = u
    BY <1>0, <1>7 DEF Take, Queued
  <2>2. /\ q' = Tail(q) /\ pc[w] = "get" /\ pc' = [pc EXCEPT ![w] = IF u = None THEN "ended" ELSE "parse"]
        /\ job' = [job EXCEPT ![w] = u] /\ UNCHANGED <<sent, called>>
    BY <1>7, <2>1 DEF Take
  <2>3. /\ \A i \in Queued' : q'[i] = q[i + 1] /\ i + 1 \in Queued /\ i + 1 # 1
        /\ \A i \in Queued : i # 1 => i - 1 \in Queued' /\ q'[i - 1] = q[i]
    BY <1>0, <2>1, <2>2 DEF Queued
  <2>4. \A v \in AllWorkers : v # w => (Active(v)' <=> Active(v)) /\ job'[v] = job[v]
    BY <2>2 DEF Active, TypeOK
  <2>5. job'[w] = u /\ ~Active(w) /\ (Active(w)' <=> u # None)
    BY <2>2 DEF Active, TypeOK
  <2> HIDE DEF u
  <2>6. q[1] = u
    BY DEF u
  <2>7. Somewhere'
    <3> SUFFICES ASSUME NEW x \in 1 .. sent, x \notin DOMAIN called
                 PROVE  \/ \E i \in Queued' : q'[i] = x
                        \/ \E v \in AllWorkers : Active(v)' /\ job'[v] = x
      BY <2>2 DEF Somewhere
    <3>1. CASE \E v \in AllWorkers : Active(v) /\ job[v] = x
      BY <2>4, <2>5, <3>1
    <3>2. CASE x = u
      BY <1>0, <2>5, <3>2 DEF None
    <3>3. CASE \E i \in Queued : q[i] = x /\ i # 1
      BY <2>3, <3>3
    <3> QED BY <2>6, <3>1, <3>2, <3>3 DEF OnceInv, Somewhere
  <2>8. OnQueue'
    <3> SUFFICES ASSUME NEW i \in Queued'
                 PROVE  /\ q'[i] \in 0 .. sent' /\ q'[i] \notin DOMAIN called'
                        /\ \A j \in Queued' : j # i => q'[j] # q'[i] \/ q'[i] = None
                        /\ \A v \in AllWorkers : Active(v)' => q'[i] # job'[v]
      BY DEF OnQueue
    <3>1. q'[i] = q[i + 1] /\ i + 1 \in Queued /\ i + 1 # 1
      BY <2>3
    <3>2. q'[i] \in 0 .. sent' /\ q'[i] \notin DOMAIN called'
      BY <2>2, <3>1 DEF OnceInv, OnQueue
    <3>3. ASSUME NEW j \in Queued', j # i PROVE q'[j] # q'[i] \/ q'[i] = None
      <4>1. j + 1 # i + 1 /\ j + 1 \in Queued /\ q'[j] = q[j + 1]
        BY <1>0, <2>3, <3>3 DEF Queued
      <4> QED BY <3>1, <4>1 DEF OnceInv, OnQueue
    <3>4. ASSUME NEW v \in AllWorkers, Active(v)' PROVE q'[i] # job'[v]
      <4>1. q[i + 1] # u \/ u = None
        BY <2>1, <2>6, <3>1 DEF OnceInv, OnQueue
      <4> QED BY <2>4, <2>5, <3>1, <3>4, <4>1 DEF OnceInv, OnQueue
    <3> QED BY <3>2, <3>3, <3>4
  <2>9. WithWorkers'
    <3>1. u # None => u \in 1 .. sent /\ u \notin DOMAIN called
      BY <1>0, <2>1, <2>6 DEF OnceInv, OnQueue, None
    <3>2. \A v \in AllWorkers : Active(v) => job[v] # u
      BY <2>1, <2>6 DEF OnceInv, OnQueue
    <3> QED BY <2>2, <2>4, <2>5, <3>1, <3>2 DEF OnceInv, WithWorkers
  <2> QED BY <2>2, <2>7, <2>8, <2>9 DEF OnceInv
<1>8. ASSUME NEW w \in AllWorkers, ParseFails(w) PROVE OnceInv'
  <2>1. Active(w) /\ pc' = [pc EXCEPT ![w] = "get"] /\ DOMAIN called' = DOMAIN called \union {job[w]}
    BY <1>8 DEF ParseFails, Active, Done
  <2>2. updates_queue' = updates_queue /\ sent' = sent /\ job' = job
    BY <1>8 DEF ParseFails
  <2> QED BY <2>1, <2>2, OnceDone
<1>9. ASSUME NEW w \in AllWorkers, Parsed(w) PROVE OnceInv'
  BY <1>9, OnceFrame DEF Parsed, Active, TypeOK
<1>10. ASSUME NEW w \in AllWorkers, Enter(w) PROVE OnceInv'
  BY <1>10, OnceFrame DEF Enter, Active, TypeOK
<1>l. ASSUME NEW w \in AllWorkers, pc[w] = "handle", Leave(w), UNCHANGED <<updates_queue, sent, job>> PROVE OnceInv'
  <2>1. Active(w) /\ pc' = [pc EXCEPT ![w] = "get"] /\ DOMAIN called' = DOMAIN called \union {job[w]}
    BY <1>l DEF Leave, LeaveWith, Active, Done
  <2> QED BY <1>l, <2>1, OnceDone
<1>g. ASSUME NEW w \in AllWorkers, pc[w] = "handle", NextGroup(w), UNCHANGED <<updates_queue, sent, job>> PROVE OnceInv'
  BY <1>g, <1>l, OnceFrame DEF NextGroup, Active
<1>11. ASSUME NEW w \in AllWorkers, GroupDone(w) PROVE OnceInv'
  BY <1>11, <1>g DEF GroupDone
<1>12. ASSUME NEW w \in AllWorkers, Try(w) PROVE OnceInv'
  <2>1. CASE NextHandler(w)
    BY <1>12, <2>1, OnceFrame DEF NextHandler, Try, Active
  <2>2. NextHandler(w) \/ NextGroup(w) \/ Leave(w)
    BY <1>12, TryEnds
  <2> QED BY <1>12, <1>l, <1>g, <2>1, <2>2 DEF Try
<1>13. CASE UNCHANGED vars
  BY <1>13, OnceFrame DEF vars, Active
<1> QED BY <1>1, <1>2, <1>3, <1>4, <1>5, <1>6, <1>7, <1>8, <1>9, <1>10, <1>11, <1>12, <1>13 DEF Next, Registration, Worker

LEMMA OnceMeans == TypeOK /\ OnceInv => EachUpdateOnce
<1> SUFFICES ASSUME TypeOK, OnceInv, NEW u \in 1 .. sent
             PROVE  \/ u \notin DOMAIN called /\ \E i \in Occurrences(u) : Occurrences(u) = {i} /\ With(u) = {}
                    \/ u \notin DOMAIN called /\ \E w \in With(u) : With(u) = {w} /\ Occurrences(u) = {}
                    \/ u \in DOMAIN called /\ Occurrences(u) = {} /\ With(u) = {}
  BY DEF EachUpdateOnce
<1>0. DOMAIN updates_queue = Queued /\ sent \in Nat /\ u # None
  BY DEF TypeOK, Queued, None
<1>1. \A i : i \in Occurrences(u) <=> i \in Queued /\ updates_queue[i] = u
  BY <1>0 DEF Occurrences
<1>2. \A w : w \in With(u) <=> w \in AllWorkers /\ Active(w) /\ job[w] = u
  BY DEF With, Active
<1>3. CASE u \in DOMAIN called
  <2>1. Occurrences(u) = {}
    BY <1>1, <1>3 DEF OnceInv, OnQueue
  <2>2. With(u) = {}
    BY <1>2, <1>3 DEF OnceInv, WithWorkers
  <2> QED BY <1>3, <2>1, <2>2
<1>4. CASE u \notin DOMAIN called /\ \E i \in Queued : updates_queue[i] = u
  <2>1. PICK i \in Queued : updates_queue[i] = u
    BY <1>4
  <2>2. Occurrences(u) = {i}
    BY <1>0, <1>1, <2>1 DEF OnceInv, OnQueue
  <2>3. With(u) = {}
    BY <1>2, <2>1 DEF OnceInv, OnQueue
  <2> QED BY <1>4, <2>2, <2>3
<1>5. CASE u \notin DOMAIN called /\ ~\E i \in Queued : updates_queue[i] = u
  <2>1. PICK w \in AllWorkers : Active(w) /\ job[w] = u
    BY <1>5 DEF OnceInv, Somewhere
  <2>2. With(u) = {w}
    BY <1>2, <2>1 DEF OnceInv, WithWorkers
  <2>3. Occurrences(u) = {}
    BY <1>1, <1>5
  <2> QED BY <1>5, <2>2, <2>3
<1> QED BY <1>3, <1>4, <1>5

-----------------------------------------------------------------------------
(***************************************************************************)
(* The handlers of an update.  A position (g, k) of the registry comes     *)
(* before (G, K) if its group does or, in one group, its place.            *)
(***************************************************************************)
Before(g, k, G, K) == g < G \/ (g = G /\ k < K)
GivenAt(reg, b, g, k) ==
    b[reg[g][k]] # "skip" /\ ~Atomic!Used(reg, b, g, k) /\ ~Atomic!Stopped(reg, b, g, k)
GivenBefore(reg, b, G, K) ==
    {x \in Handlers : \E g \in Groups : \E k \in DOMAIN reg[g] :
       Before(g, k, G, K) /\ reg[g][k] = x /\ GivenAt(reg, b, g, k)}

\* What a worker may rely on at the position it has come to.
Reached(reg, b, G, K) == ~Atomic!Used(reg, b, G, K) /\ ~Atomic!Stopped(reg, b, G, K)

GivenInv ==
    \A w \in AllWorkers : pc[w] = "handle" =>
      /\ given[w] = GivenBefore(groups, behaves, group[w], place[w])
      /\ Reached(groups, behaves, group[w], place[w])

\* One place further.
LEMMA GivenStep ==
  ASSUME NEW reg, NEW b, NEW G \in Groups, NEW K \in Nat \ {0}, K \in DOMAIN reg[G],
         reg[G][K] \in Handlers, \A g \in Groups : DOMAIN reg[g] \subseteq Nat, Reached(reg, b, G, K)
  PROVE  /\ b[reg[G][K]] = "skip" => GivenBefore(reg, b, G, K + 1) = GivenBefore(reg, b, G, K)
         /\ b[reg[G][K]] # "skip" => GivenBefore(reg, b, G, K + 1) = GivenBefore(reg, b, G, K) \union {reg[G][K]}
<1>1. \A g \in Groups : \A k \in DOMAIN reg[g] :
        Before(g, k, G, K + 1) <=> Before(g, k, G, K) \/ (g = G /\ k = K)
  BY GroupsAssumption DEF Before
<1>2. GivenAt(reg, b, G, K) <=> b[reg[G][K]] # "skip"
  BY DEF GivenAt, Reached
<1>3. \A x : x \in GivenBefore(reg, b, G, K + 1)
               <=> x \in GivenBefore(reg, b, G, K) \/ (x = reg[G][K] /\ b[reg[G][K]] # "skip")
  BY <1>1, <1>2 DEF GivenBefore
<1> DEFINE old == GivenBefore(reg, b, G, K)
           new == GivenBefore(reg, b, G, K + 1)
           x == reg[G][K]
<1>4. \A y : y \in new <=> y \in old \/ (y = x /\ b[x] # "skip")
  BY <1>3
<1> HIDE DEF old, new
<1>5. CASE b[x] = "skip"
  <2>1. new = old
    BY <1>4, <1>5
  <2> QED BY <1>5, <2>1 DEF old, new
<1>6. CASE b[x] # "skip"
  <2>1. new = old \union {x}
    BY <1>4, <1>6
  <2> QED BY <1>6, <2>1 DEF old, new
<1> QED BY <1>5, <1>6

\* The handler did not match, or it lets the update continue.
LEMMA ReachedNext ==
  ASSUME NEW reg, NEW b, NEW G \in Groups, NEW K \in Nat \ {0},
         \A g \in Groups : DOMAIN reg[g] \subseteq Nat, Reached(reg, b, G, K),
         b[reg[G][K]] # "run", b[reg[G][K]] # "stop"
  PROVE  Reached(reg, b, G, K + 1)
<1>1. ~Atomic!Used(reg, b, G, K + 1)
  <2>1. \A j \in 1 .. (K + 1) - 1 : j \in 1 .. K - 1 \/ j = K
    OBVIOUS
  <2> QED BY <2>1 DEF Reached, Atomic!Used
<1>2. ~Atomic!Stopped(reg, b, G, K + 1)
  <2>1. \A h \in Groups : \A j \in DOMAIN reg[h] :
          (h < G \/ (h = G /\ j < K + 1)) => (h < G \/ (h = G /\ j < K)) \/ (h = G /\ j = K)
    BY GroupsAssumption
  <2> QED BY <2>1 DEF Reached, Atomic!Stopped
<1> QED BY <1>1, <1>2 DEF Reached

\* The rest of the group is not given the update: there is no handler left,
\* or one that was used.
Closed(reg, b, G, K) == K \notin DOMAIN reg[G] \/ b[reg[G][K]] = "run"

LEMMA ClosedGroup ==
  ASSUME NEW reg, NEW b, NEW G \in Groups, NEW K \in Nat \ {0},
         \A g \in Groups : DOMAIN reg[g] \subseteq Nat /\ \A k \in DOMAIN reg[g] : \A j \in 1 .. k : j \in DOMAIN reg[g],
         Reached(reg, b, G, K), Closed(reg, b, G, K)
  PROVE  /\ \A k \in DOMAIN reg[G] : k > K => ~GivenAt(reg, b, G, k)
         /\ \A j \in DOMAIN reg[G] : b[reg[G][j]] = "stop" => Atomic!Used(reg, b, G, j) \/ Atomic!Stopped(reg, b, G, K)
<1>1. ASSUME NEW k \in DOMAIN reg[G], k > K PROVE Atomic!Used(reg, b, G, k)
  <2>1. k \in Nat /\ K \in 1 .. k /\ K \in 1 .. k - 1
    BY <1>1
  <2>2. K \in DOMAIN reg[G]
    BY <2>1
  <2> QED BY <2>1, <2>2 DEF Closed, Atomic!Used
<1>2. ASSUME NEW j \in DOMAIN reg[G], b[reg[G][j]] = "stop", ~Atomic!Used(reg, b, G, j)
      PROVE  Atomic!Stopped(reg, b, G, K)
  <2>1. j \in Nat /\ ~(j > K)
    BY <1>1, <1>2
  <2>2. j # K
    BY <1>2 DEF Closed
  <2>3. j < K
    BY <2>1, <2>2
  <2> QED BY <1>2, <2>3 DEF Atomic!Stopped
<1> QED BY <1>1, <1>2 DEF GivenAt

\* On to the next group.
LEMMA ReachedGroup ==
  ASSUME NEW reg, NEW b, NEW G \in Groups, NEW K \in Nat \ {0}, NEW H \in Groups, H > G,
         \A h \in Groups : h > G => H <= h,
         \A g \in Groups : DOMAIN reg[g] \subseteq Nat /\ \A k \in DOMAIN reg[g] : k > 0 /\ \A j \in 1 .. k : j \in DOMAIN reg[g],
         Reached(reg, b, G, K), Closed(reg, b, G, K)
  PROVE  /\ GivenBefore(reg, b, H, 1) = GivenBefore(reg, b, G, K + 1)
         /\ Reached(reg, b, H, 1)
<1>1. /\ \A k \in DOMAIN reg[G] : k > K => ~GivenAt(reg, b, G, k)
      /\ \A j \in DOMAIN reg[G] : b[reg[G][j]] = "stop" => Atomic!Used(reg, b, G, j) \/ Atomic!Stopped(reg, b, G, K)
  BY ClosedGroup
<1>2. \A g \in Groups : \A k \in DOMAIN reg[g] :
        /\ Before(g, k, H, 1) <=> g < G \/ g = G
        /\ Before(g, k, G, K + 1) <=> g < G \/ (g = G /\ ~(k > K))
  BY GroupsAssumption DEF Before
<1>3. \A x : x \in GivenBefore(reg, b, H, 1) <=> x \in GivenBefore(reg, b, G, K + 1)
  BY <1>1, <1>2 DEF GivenBefore
<1>4. ~Atomic!Used(reg, b, H, 1)
  BY DEF Atomic!Used
<1>5. ~Atomic!Stopped(reg, b, H, 1)
  <2>1. \A g \in Groups : \A k \in DOMAIN reg[g] : (g < H \/ (g = H /\ k < 1)) => g < G \/ g = G
    BY GroupsAssumption
  <2>2. ~Atomic!Stopped(reg, b, G, K)
    BY DEF Reached
  <2>3. \A g \in Groups : \A k \in DOMAIN reg[g] : g < G => ~(b[reg[g][k]] = "stop" /\ ~Atomic!Used(reg, b, g, k))
    BY <2>2 DEF Atomic!Stopped
  <2> QED BY <1>1, <2>1, <2>2, <2>3 DEF Atomic!Stopped
<1> QED BY <1>3, <1>4, <1>5 DEF Reached

\* The last group is done, or the propagation stopped.
LEMMA GivenAll ==
  ASSUME NEW reg, NEW b, NEW G \in Groups, NEW K \in Nat \ {0},
         \A g \in Groups : DOMAIN reg[g] \subseteq Nat /\ \A k \in DOMAIN reg[g] : k > 0 /\ \A j \in 1 .. k : j \in DOMAIN reg[g],
         Reached(reg, b, G, K),
         \/ Closed(reg, b, G, K) /\ \A h \in Groups : ~(h > G)
         \/ K \in DOMAIN reg[G] /\ b[reg[G][K]] = "stop"
  PROVE  Atomic!Given(reg, b) = GivenBefore(reg, b, G, K + 1)
<1>1. ASSUME NEW g \in Groups, NEW k \in DOMAIN reg[g], ~Before(g, k, G, K + 1) PROVE ~GivenAt(reg, b, g, k)
  <2>1. g \in Nat /\ G \in Nat /\ k \in Nat /\ (g > G \/ (g = G /\ k > K))
    BY <1>1, GroupsAssumption DEF Before
  <2>2. CASE K \in DOMAIN reg[G] /\ b[reg[G][K]] = "stop"
    <3>1. ~Atomic!Used(reg, b, G, K) /\ (G < g \/ (G = g /\ K < k))
      BY <2>1 DEF Reached
    <3>2. Atomic!Stopped(reg, b, g, k)
      BY <2>2, <3>1 DEF Atomic!Stopped
    <3> QED BY <3>2 DEF GivenAt
  <2>3. CASE Closed(reg, b, G, K) /\ \A h \in Groups : ~(h > G)
    BY <2>1, <2>3, ClosedGroup
  <2> QED BY <2>2, <2>3
<1>2. \A x : x \in Atomic!Given(reg, b) <=> x \in GivenBefore(reg, b, G, K + 1)
  BY <1>1 DEF Atomic!Given, GivenBefore, GivenAt
<1> QED BY <1>2

-----------------------------------------------------------------------------
(***************************************************************************)
(* Each step of the dispatcher is one of AtomicDispatch or a stutter.      *)
(***************************************************************************)
\* The sequences of the registry, as the lemmas above need them.
LEMMA Registry ==
  ASSUME groups \in [Groups -> Seq(Handlers)]
  PROVE  \A g \in Groups :
           /\ DOMAIN groups[g] = 1 .. Len(groups[g]) /\ Len(groups[g]) \in Nat /\ DOMAIN groups[g] \subseteq Nat
           /\ \A k \in DOMAIN groups[g] : k > 0 /\ \A j \in 1 .. k : j \in DOMAIN groups[g]
<1> SUFFICES ASSUME NEW g \in Groups
             PROVE  /\ DOMAIN groups[g] = 1 .. Len(groups[g]) /\ Len(groups[g]) \in Nat /\ DOMAIN groups[g] \subseteq Nat
                    /\ \A k \in DOMAIN groups[g] : k > 0 /\ \A j \in 1 .. k : j \in DOMAIN groups[g]
  OBVIOUS
<1>1. groups[g] \in Seq(Handlers)
  OBVIOUS
<1>2. DOMAIN groups[g] = 1 .. Len(groups[g]) /\ Len(groups[g]) \in Nat
  BY <1>1
<1> QED BY <1>2

\* The worker has come to the end of a group: its update is done, or it goes
\* on to the next group with what a worker may rely on.
LEMMA NextGroupGiven ==
  ASSUME TypeOK, Located, GivenInv, NEW w \in AllWorkers, pc[w] = "handle", NextGroup(w),
         UNCHANGED <<groups, behaves, job>>, given' \in [AllWorkers -> SUBSET Handlers],
         \A v \in AllWorkers : v # w => given'[v] = given[v],
         Closed(groups, behaves, group[w], place[w]),
         given'[w] = GivenBefore(groups, behaves, group[w], place[w] + 1)
  PROVE  /\ GivenInv'
         /\ Leave(w) => given'[w] = Atomic!Given(groups, behaves)
         /\ called' = called \/ Leave(w)
<1> DEFINE G == group[w]
           K == place[w]
<1>0. G \in Groups /\ K \in Nat \ {0} /\ Reached(groups, behaves, G, K)
  BY DEF TypeOK, Located, GivenInv
<1>1. \A g \in Groups :
           /\ DOMAIN groups[g] = 1 .. Len(groups[g]) /\ Len(groups[g]) \in Nat /\ DOMAIN groups[g] \subseteq Nat
           /\ \A k \in DOMAIN groups[g] : k > 0 /\ \A j \in 1 .. k : j \in DOMAIN groups[g]
  BY Registry DEF TypeOK
<1> HIDE DEF G, K
<1>2. CASE Later(w) = {}
  <2>1. Leave(w)
    BY <1>2 DEF NextGroup
  <2>2. \A h \in Groups : ~(h > G)
    BY <1>2 DEF Later, G
  <2>3. Atomic!Given(groups, behaves) = GivenBefore(groups, behaves, G, K + 1)
    BY <1>0, <1>1, <2>2, GivenAll DEF G, K
  <2>4. \A v \in AllWorkers : pc'[v] = "handle" => v # w /\ pc[v] = "handle" /\ group'[v] = group[v] /\ place'[v] = place[v]
    BY <2>1 DEF Leave, LeaveWith, TypeOK
  <2>5. GivenInv'
    BY <2>4 DEF GivenInv
  <2> QED BY <2>1, <2>3, <2>5 DEF G, K
<1>3. CASE Later(w) # {}
  <2> DEFINE H == Lowest(Later(w))
  <2>1. H \in Later(w) /\ \A h \in Later(w) : H <= h
    <3>1. Later(w) \in SUBSET Nat
      BY GroupsAssumption DEF Later
    <3> QED BY <1>3, <3>1, LowestOf
  <2>2. H \in Groups /\ H > G /\ \A h \in Groups : h > G => H <= h
    BY <2>1 DEF Later, G
  <2>3. group' = [group EXCEPT ![w] = H] /\ place' = [place EXCEPT ![w] = 1] /\ UNCHANGED <<pc, locks, called>>
    BY <1>3 DEF NextGroup
  <2> HIDE DEF H
  <2>4. /\ GivenBefore(groups, behaves, H, 1) = GivenBefore(groups, behaves, G, K + 1)
        /\ Reached(groups, behaves, H, 1)
    BY <1>0, <1>1, <2>2, ReachedGroup DEF G, K
  <2>5. group'[w] = H /\ place'[w] = 1 /\ given'[w] = GivenBefore(groups, behaves, H, 1)
    BY <2>3, <2>4 DEF TypeOK, G, K
  <2>6. \A v \in AllWorkers : v # w => group'[v] = group[v] /\ place'[v] = place[v] /\ given'[v] = given[v]
    BY <2>3 DEF TypeOK
  <2>7. pc' = pc /\ groups' = groups /\ behaves' = behaves /\ called' = called
    BY <2>3
  <2>8. GivenInv'
    <3> SUFFICES ASSUME NEW v \in AllWorkers, pc[v] = "handle"
                 PROVE  /\ given'[v] = GivenBefore(groups, behaves, group'[v], place'[v])
                        /\ Reached(groups, behaves, group'[v], place'[v])
      BY <2>7 DEF GivenInv
    <3>1. CASE v = w
      BY <2>4, <2>5, <3>1
    <3>2. CASE v # w
      BY <2>6, <3>2 DEF GivenInv
    <3> QED BY <3>1, <3>2
  <2>9. ~Leave(w)
    <3>1. pc'[w] = "handle"
      BY <2>7
    <3> QED BY <3>1 DEF Leave, LeaveWith, TypeOK
  <2> QED BY <2>7, <2>8, <2>9
<1> QED BY <1>2, <1>3

\* A handler was tried, or there was none left in the group.
LEMMA HandleGiven ==
  ASSUME TypeOK, Located, GivenInv, NEW w \in AllWorkers, Try(w) \/ GroupDone(w)
  PROVE  /\ GivenInv'
         /\ \/ called' = called
            \/ Leave(w) /\ given'[w] = Atomic!Given(groups, behaves)
<1> DEFINE G == group[w]
           K == place[w]
           x == Current(w)
<1>0. /\ G \in Groups /\ K \in Nat \ {0} /\ Reached(groups, behaves, G, K) /\ pc[w] = "handle"
      /\ given[w] = GivenBefore(groups, behaves, G, K)
  BY DEF TypeOK, Located, GivenInv, Try, GroupDone
<1>1. \A g \in Groups :
           /\ DOMAIN groups[g] = 1 .. Len(groups[g]) /\ Len(groups[g]) \in Nat /\ DOMAIN groups[g] \subseteq Nat
           /\ \A k \in DOMAIN groups[g] : k > 0 /\ \A j \in 1 .. k : j \in DOMAIN groups[g]
  BY Registry DEF TypeOK
<1>2. ASSUME GroupDone(w) PROVE GivenInv' /\ (called' = called \/ (Leave(w) /\ given'[w] = Atomic!Given(groups, behaves)))
  <2>1. K \notin DOMAIN groups[G]
    BY <1>0, <1>1, <1>2 DEF GroupDone
  <2>2. GivenBefore(groups, behaves, G, K + 1) = GivenBefore(groups, behaves, G, K)
    <3>1. \A g \in Groups : \A k \in DOMAIN groups[g] : Before(g, k, G, K + 1) <=> Before(g, k, G, K)
      BY <1>0, <1>1, <2>1 DEF Before
    <3> QED BY <3>1 DEF GivenBefore
  <2>3. NextGroup(w) /\ given' = given /\ UNCHANGED <<groups, behaves, job>>
    BY <1>2 DEF GroupDone
  <2>4. Closed(groups, behaves, group[w], place[w])
    BY <2>1 DEF Closed
  <2>5. given'[w] = GivenBefore(groups, behaves, group[w], place[w] + 1)
    BY <1>0, <2>2, <2>3
  <2>6. given' \in [AllWorkers -> SUBSET Handlers] /\ \A v \in AllWorkers : v # w => given'[v] = given[v]
    BY <2>3 DEF TypeOK
  <2> QED BY <1>0, <2>3, <2>4, <2>5, <2>6, NextGroupGiven
<1>3. ASSUME Try(w) PROVE GivenInv' /\ (called' = called \/ (Leave(w) /\ given'[w] = Atomic!Given(groups, behaves)))
  <2>1. K \in DOMAIN groups[G] /\ x \in Handlers /\ x = groups[G][K]
    BY <1>1, <1>3, TryEnds DEF Current
  <2>2. /\ given' = IF behaves[x] = "skip" THEN given ELSE [given EXCEPT ![w] = @ \union {x}]
        /\ UNCHANGED <<groups, behaves, job>>
    BY <1>3 DEF Try
  <2>3. given' \in [AllWorkers -> SUBSET Handlers] /\ \A v \in AllWorkers : v # w => given'[v] = given[v]
    BY <2>1, <2>2 DEF TypeOK
  <2>4. given'[w] = GivenBefore(groups, behaves, G, K + 1)
    <3>1. given'[w] = IF behaves[x] = "skip" THEN given[w] ELSE given[w] \union {x}
      BY <2>2 DEF TypeOK
    <3>2. \A g \in Groups : DOMAIN groups[g] \subseteq Nat
      BY <1>1
    <3> HIDE DEF G, K, x
    <3>3. groups[G][K] \in Handlers /\ K \in DOMAIN groups[G]
      BY <2>1
    <3>4. /\ behaves[groups[G][K]] = "skip" => GivenBefore(groups, behaves, G, K + 1) = GivenBefore(groups, behaves, G, K)
          /\ behaves[groups[G][K]] # "skip" =>
               GivenBefore(groups, behaves, G, K + 1) = GivenBefore(groups, behaves, G, K) \union {groups[G][K]}
      BY <1>0, <3>2, <3>3, GivenStep
    <3> QED BY <1>0, <2>1, <3>1, <3>4
  <2>5. CASE behaves[x] = "run"
    <3>1. NextGroup(w) /\ Closed(groups, behaves, group[w], place[w])
      BY <1>3, <2>1, <2>5 DEF Try, Closed
    <3> QED BY <1>0, <2>2, <2>3, <2>4, <3>1, NextGroupGiven
  <2>6. CASE behaves[x] = "stop"
    <3>1. Leave(w)
      BY <1>3, <2>6 DEF Try
    <3>2. Atomic!Given(groups, behaves) = GivenBefore(groups, behaves, G, K + 1)
      BY <1>0, <1>1, <2>1, <2>6, GivenAll
    <3>3. \A v \in AllWorkers : pc'[v] = "handle" => v # w /\ pc[v] = "handle" /\ group'[v] = group[v] /\ place'[v] = place[v]
      BY <3>1 DEF Leave, LeaveWith, TypeOK
    <3>4. GivenInv'
      BY <2>2, <2>3, <3>3 DEF GivenInv
    <3> QED BY <2>4, <3>1, <3>2, <3>4
  <2>7. CASE behaves[x] \in {"skip", "continue"}
    <3>1. place' = [place EXCEPT ![w] = K + 1] /\ UNCHANGED <<pc, group, called>>
      BY <1>3, <2>7 DEF Try, NextHandler
    <3>2. Reached(groups, behaves, G, K + 1)
      BY <1>0, <1>1, <2>1, <2>7, ReachedNext
    <3>3. GivenInv'
      <4> SUFFICES ASSUME NEW v \in AllWorkers, pc[v] = "handle"
                   PROVE  /\ given'[v] = GivenBefore(groups, behaves, group[v], place'[v])
                          /\ Reached(groups, behaves, group[v], place'[v])
        BY <2>2, <3>1 DEF GivenInv
      <4>1. CASE v = w
        BY <2>4, <3>1, <3>2, <4>1 DEF TypeOK
      <4>2. CASE v # w
        BY <2>3, <3>1, <4>2 DEF GivenInv, TypeOK
      <4> QED BY <4>1, <4>2
    <3> QED BY <3>1, <3>3
  <2> QED BY <2>1, <2>5, <2>6, <2>7 DEF TypeOK, Behaviours
<1> QED BY <1>2, <1>3

LEMMA InitGiven == Init => GivenInv
BY DEF Init, GivenInv

LEMMA GivenFrame ==
  ASSUME GivenInv, \A w \in AllWorkers : pc'[w] = "handle" => pc[w] = "handle",
         (\A w \in AllWorkers : pc[w] # "handle") \/ groups' = groups,
         group' = group, place' = place, given' = given, behaves' = behaves
  PROVE  GivenInv'
BY DEF GivenInv

LEMMA NextGiven == TypeOK /\ Located /\ LockInv /\ GivenInv /\ [Next]_vars => GivenInv'
<1> SUFFICES ASSUME TypeOK, Located, LockInv, GivenInv, [Next]_vars PROVE GivenInv'
  OBVIOUS
<1>0. (\A w \in AllWorkers : pc[w] # "handle") \/ groups' = groups
  BY NextStable
<1> USE DEF work, registration
<1>1. CASE Start \/ Stop \/ Stopped \/ Send
  <2>1. \A w \in AllWorkers : pc'[w] = "handle" => pc[w] = "handle"
    BY <1>1 DEF Start, Stop, StopWith, Stopped, Send
  <2>2. group' = group /\ place' = place /\ given' = given /\ behaves' = behaves
    BY <1>1 DEF Start, Stop, StopWith, Stopped, Send
  <2> QED BY <1>0, <2>1, <2>2, GivenFrame
<1>2. ASSUME NEW t \in Tasks, Registration(t) PROVE GivenInv'
  BY <1>0, <1>2, GivenFrame DEF Registration, Begin, Acquired
<1>3. ASSUME NEW w \in AllWorkers, Take(w) \/ ParseFails(w) \/ Parsed(w) PROVE GivenInv'
  <2>1. \A v \in AllWorkers : pc'[v] = "handle" => pc[v] = "handle"
    BY <1>3 DEF Take, ParseFails, Parsed, TypeOK
  <2>2. group' = group /\ place' = place /\ given' = given /\ behaves' = behaves
    BY <1>3 DEF Take, ParseFails, Parsed
  <2> QED BY <1>0, <2>1, <2>2, GivenFrame
<1>4. ASSUME NEW w \in AllWorkers, Enter(w) PROVE GivenInv'
  <2> DEFINE G == Lowest(Groups)
  <2>1. G \in Groups /\ \A h \in Groups : G <= h
    BY GroupsAssumption, LowestOf
  <2>2. /\ group' = [group EXCEPT ![w] = G] /\ place' = [place EXCEPT ![w] = 1] /\ given' = [given EXCEPT ![w] = {}]
        /\ pc' = [pc EXCEPT ![w] = "handle"] /\ UNCHANGED <<groups, behaves>>
    BY <1>4 DEF Enter
  <2> HIDE DEF G
  <2>3. \A g \in Groups : \A k \in DOMAIN groups[g] : ~Before(g, k, G, 1)
    <3>1. \A g \in Groups : \A k \in DOMAIN groups[g] : k > 0 /\ k \in Nat
      BY Registry DEF TypeOK
    <3> QED BY <2>1, <3>1, GroupsAssumption DEF Before
  <2>4. GivenBefore(groups, behaves, G, 1) = {}
    BY <2>3 DEF GivenBefore
  <2>5. Reached(groups, behaves, G, 1)
    BY <2>3 DEF Reached, Atomic!Used, Atomic!Stopped, Before
  <2>6. SUFFICES ASSUME NEW v \in AllWorkers, pc'[v] = "handle"
                 PROVE  /\ given'[v] = GivenBefore(groups, behaves, group'[v], place'[v])
                        /\ Reached(groups, behaves, group'[v], place'[v])
    BY <2>2 DEF GivenInv
  <2>7. CASE v = w
    BY <2>2, <2>4, <2>5, <2>7 DEF TypeOK
  <2>8. CASE v # w
    BY <2>2, <2>6, <2>8 DEF GivenInv, TypeOK
  <2> QED BY <2>7, <2>8
<1>5. ASSUME NEW w \in AllWorkers, GroupDone(w) \/ Try(w) PROVE GivenInv'
  BY <1>5, HandleGiven
<1>6. CASE UNCHANGED vars
  BY <1>0, <1>6, GivenFrame DEF vars
<1> QED BY <1>1, <1>2, <1>3, <1>4, <1>5, <1>6 DEF Next, Worker

Inv == TypeOK /\ Located /\ LockInv /\ OnceInv /\ GivenInv

LEMMA InitInv == Init => Inv
BY InitType, InitLock, InitOnce, InitGiven DEF Inv

LEMMA NextInv == Inv /\ [Next]_vars => Inv'
BY NextType, NextLock, NextOnce, NextGiven DEF Inv

LEMMA StepRefines == Inv /\ [Next]_vars => [Atomic!Next]_(Atomic!dispatchVars)
<1> SUFFICES ASSUME Inv, [Next]_vars PROVE Atomic!Next \/ UNCHANGED Atomic!dispatchVars
  OBVIOUS
<1>0. groups' \in [Groups -> Seq(Handlers)]
  BY NextType DEF Inv, TypeOK
<1>1. behaves' = behaves
  BY DEF Next, Registration, Worker, Start, Stop, StopWith, Stopped, Send, Begin, Acquired,
         Take, ParseFails, Parsed, Enter, GroupDone, Try, vars
<1>2. ASSUME called' = called PROVE Atomic!Next \/ UNCHANGED Atomic!dispatchVars
  BY <1>0, <1>1, <1>2 DEF Atomic!Next, Atomic!Register, Atomic!dispatchVars
\* An update that a worker has is not done yet.
<1>3. ASSUME NEW w \in AllWorkers, Active(w), NEW hs \in {{}, Atomic!Given(groups, behaves)},
             called' = [u \in DOMAIN called \union {job[w]} |-> IF u = job[w] THEN hs ELSE called[u]], groups' = groups
      PROVE  Atomic!Next
  <2>1. job[w] \in Updates /\ job[w] \notin DOMAIN called
    BY <1>3 DEF Inv, Located, OnceInv, WithWorkers, Active
  <2>2. Atomic!Handle(job[w])
    BY <1>1, <1>3, <2>1 DEF Atomic!Handle
  <2> QED BY <2>1, <2>2 DEF Atomic!Next
<1>4. ASSUME NEW w \in AllWorkers, ParseFails(w) PROVE Atomic!Next
  <2>1. Active(w) /\ groups' = groups
    BY <1>4 DEF ParseFails, Active
  <2>2. called' = [u \in DOMAIN called \union {job[w]} |-> IF u = job[w] THEN {} ELSE called[u]]
    BY <1>4 DEF ParseFails, Done
  <2> QED BY <1>3, <2>1, <2>2
<1>5. ASSUME NEW w \in AllWorkers, Try(w) \/ GroupDone(w) PROVE Atomic!Next \/ UNCHANGED Atomic!dispatchVars
  <2>1. CASE called' = called
    BY <1>2, <2>1
  <2>2. CASE Leave(w) /\ given'[w] = Atomic!Given(groups, behaves)
    <3>1. Active(w) /\ groups' = groups
      BY <1>5 DEF Try, GroupDone, Active
    <3>2. called' = [u \in DOMAIN called \union {job[w]} |-> IF u = job[w] THEN Atomic!Given(groups, behaves) ELSE called[u]]
      BY <2>2 DEF Leave, LeaveWith, Done
    <3> QED BY <1>3, <3>1, <3>2
  <2> QED BY <1>5, <2>1, <2>2, HandleGiven DEF Inv
<1>6. ASSUME NEW w \in AllWorkers, Take(w) \/ Parsed(w) \/ Enter(w) PROVE called' = called
  BY <1>6 DEF Take, Parsed, Enter
<1>7. CASE Start \/ Stop \/ Stopped \/ Send \/ UNCHANGED vars
  <2>1. called' = called
    BY <1>7 DEF Start, Stop, StopWith, Stopped, Send, vars
  <2> QED BY <1>2, <2>1
<1>8. ASSUME NEW t \in Tasks, Registration(t) PROVE called' = called
  BY <1>8 DEF Registration, Begin, Acquired
<1> QED BY <1>2, <1>4, <1>5, <1>6, <1>7, <1>8 DEF Next, Worker

\* Every update that was sent is on the queue, with one worker or done, and
\* in one of these places only, over any number of stops and starts.
THEOREM UpdatesOnce == Spec => []EachUpdateOnce
<1>1. Inv => EachUpdateOnce
  BY OnceMeans DEF Inv
<1> QED BY <1>1, InitInv, NextInv, PTL DEF Spec

\* The dispatcher implements AtomicDispatch: whatever registrations, stops and
\* starts do meanwhile, an update is given to the handlers that the registry
\* of one moment calls for, and to nobody a second time.
THEOREM ImplementsAtomicDispatch == Spec => DispatchSpec
<1>1. Init => Atomic!Init
  <2> SUFFICES ASSUME Init PROVE Atomic!Init
    OBVIOUS
  <2>1. behaves \in [Handlers -> Atomic!Behaviours]
    BY DEF Init, Behaviours, Atomic!Behaviours
  <2> QED BY <2>1, RegisteredAssumption DEF Init, Atomic!Init
<1> QED BY <1>1, InitInv, NextInv, StepRefines, PTL DEF Spec, DispatchSpec, Atomic!Spec
==============================================================================
