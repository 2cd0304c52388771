-------------------------- MODULE CloudBackupProofs --------------------------
(***************************************************************************)
(* Proofs about CloudBackup for any number of rows, kept backups, changes, *)
(* crashes and failures.                                                   *)
(***************************************************************************)
EXTENDS CloudBackup, FiniteSetTheorems, WellFoundedInduction, TLAPS

\* A set of natural numbers has a least element.
LEMMA LeastNatural ==
  ASSUME NEW T \in SUBSET Nat, T # {}
  PROVE  \E x \in T : \A y \in T : x <= y
<1> DEFINE R == OpToRel(<, Nat)
<1>1. \E x \in T : \A y \in T : ~(<<y, x>> \in R)
  <2> HIDE DEF R
  <2>1. IsWellFoundedOn(R, Nat)
    BY NatLessThanWellFounded DEF R
  <2> QED BY <2>1, WFMin
<1>2. \A x, y \in T : <<y, x>> \in R <=> y < x
  BY DEF OpToRel
<1> HIDE DEF R
<1>3. PICK x \in T : \A y \in T : ~(<<y, x>> \in R)
  BY <1>1
<1>4. \A y \in T : ~(y < x)
  BY <1>2, <1>3
<1> QED BY <1>4

\* A finite one has a greatest: of the finite sets without one take a set
\* with the fewest elements, and remove one of these.
LEMMA GreatestNatural ==
  ASSUME NEW S \in SUBSET Nat, IsFiniteSet(S), S # {}
  PROVE  \E x \in S : \A y \in S : y <= x
<1> DEFINE HasGreatest(U) == \E x \in U : \A y \in U : y <= x
           Bad == {U \in SUBSET S : U # {} /\ ~HasGreatest(U)}
           Sizes == {k \in Nat : \E U \in Bad : Cardinality(U) = k}
<1> SUFFICES ASSUME Bad # {} PROVE FALSE
  OBVIOUS
<1>1. \A U \in SUBSET S : IsFiniteSet(U) /\ Cardinality(U) \in Nat
  BY FS_Subset, FS_CardinalityType
<1>2. Sizes # {} /\ Sizes \in SUBSET Nat
  BY <1>1
<1>3. PICK k \in Sizes : \A j \in Sizes : k <= j
  <2> HIDE DEF Sizes
  <2> QED BY <1>2, LeastNatural
<1>4. PICK U \in Bad : Cardinality(U) = k
  BY <1>3
<1>5. PICK x \in U : TRUE
  OBVIOUS
<1> DEFINE V == U \ {x}
<1>6. V \in SUBSET S /\ Cardinality(V) = k - 1 /\ k \in Nat
  BY <1>1, <1>4, <1>5, FS_RemoveElement
<1>7. V # {}
  <2> SUFFICES ASSUME V = {} PROVE HasGreatest(U)
    BY <1>4
  <2> QED BY <1>5
<1>8. HasGreatest(V)
  <2> SUFFICES ASSUME V \in Bad PROVE FALSE
    BY <1>6, <1>7
  <2>1. k - 1 \in Nat
    BY <1>1, <1>6
  <2>2. k - 1 \in Sizes
    BY <1>6, <2>1
  <2> QED BY <1>3, <1>6, <2>2
<1>9. PICK m \in V : \A y \in V : y <= m
  BY <1>8
<1>10. CASE m <= x
  BY <1>4, <1>5, <1>9, <1>10
<1>11. CASE x <= m
  BY <1>4, <1>5, <1>9, <1>11
<1> QED BY <1>5, <1>9, <1>10, <1>11

\* restore_from_github takes one of the names it lists.
LEMMA NewestOf ==
  ASSUME NEW S \in SUBSET Nat, IsFiniteSet(S), S # {}
  PROVE  /\ Newest(S) \in S
         /\ \A n \in S : n <= Newest(S)
BY GreatestNatural DEF Newest

(***************************************************************************)
(* Types.                                                                  *)
(***************************************************************************)
LEMMA Bounds == /\ MaxChanges \in Nat /\ MaxUploads \in Nat
                /\ MaxCrashes \in Nat /\ MaxFaults \in Nat
BY BoundsAssumption

LEMMA FreshType == Fresh \in Content
BY Bounds DEF Fresh, Content

LEMMA AppliedType ==
  ASSUME main \in Content, wal \in Content
  PROVE  Applied \in Content
BY Bounds DEF Applied, Content

LEMMA InitType == Init => TypeOK
<1> SUFFICES ASSUME Init PROVE TypeOK
  OBVIOUS
<1>1. DOMAIN remote = {} /\ DOMAIN uploads = {}
  BY DEF Init
<1>2. IsFiniteSet(DOMAIN remote) /\ DOMAIN remote \subseteq Nat /\ Range(remote) \subseteq Content
  BY <1>1, FS_EmptySet DEF Range
<1>3. main \in Content /\ wal \in Content /\ data \in Content /\ lived \subseteq Content
  BY FreshType DEF Init, NoLog
<1>4. changes \in 0 .. MaxChanges /\ crashes \in 0 .. MaxCrashes /\ faults \in 0 .. MaxFaults /\ clock \in Nat
  BY Bounds DEF Init
<1>5. pc = "down" /\ file = "absent" /\ doomed = {} /\ {shifted, blind, mixed} \subseteq BOOLEAN
  BY DEF Init
<1> QED BY <1>1, <1>2, <1>3, <1>4, <1>5 DEF TypeOK, Running

\* The backups after an upload and after a deletion.
LEMMA UploadType ==
  ASSUME TypeOK, Upload
  PROVE  /\ IsFiniteSet(DOMAIN remote') /\ DOMAIN remote' \subseteq Nat
         /\ Range(remote') \subseteq Content
         /\ DOMAIN remote' = DOMAIN remote \union {clock}
         /\ \A k \in DOMAIN uploads' : uploads'[k].name \in Nat /\ uploads'[k].content \in Content
<1>1. DOMAIN remote' = DOMAIN remote \union {clock}
  BY DEF Upload
<1>2. IsFiniteSet(DOMAIN remote')
  BY <1>1, FS_AddElement DEF TypeOK
<1>3. Range(remote') \subseteq Content
  BY DEF Upload, TypeOK, Range
<1>4. \A k \in DOMAIN uploads' : uploads'[k].name \in Nat /\ uploads'[k].content \in Content
  BY DEF Upload, TypeOK
<1> QED BY <1>1, <1>2, <1>3, <1>4 DEF TypeOK

LEMMA NextType == TypeOK /\ [Next]_vars => TypeOK'
<1> SUFFICES ASSUME TypeOK, [Next]_vars PROVE TypeOK'
  OBVIOUS
<1> USE Bounds DEF TypeOK, Running, disk, github, past
<1>1. ASSUME NEW r \in Rows, Commit(r) PROVE TypeOK'
  BY <1>1, AppliedType DEF Commit, Content
<1>2. CASE Close
  BY <1>2, AppliedType, FreshType DEF Close, NoLog
<1>3. CASE Snapshot
  BY <1>3, AppliedType DEF Snapshot
<1>4. CASE Put
  BY <1>4, UploadType DEF Put
<1>5. CASE PutFails
  BY <1>5, UploadType DEF PutFails, Fault
<1>6. CASE List
  BY <1>6 DEF List, ListThen
<1>7. CASE ListFails
  BY <1>7 DEF ListFails, Fault
<1>8. CASE Delete
  <2> DEFINE n == Newest(doomed)
  <2>1. DOMAIN remote' = DOMAIN remote \ {n} /\ \A m \in DOMAIN remote' : remote'[m] = remote[m]
    BY <1>8 DEF Delete, Restrict
  <2>2. IsFiniteSet(DOMAIN remote')
    BY <2>1, FS_RemoveElement
  <2>3. Range(remote') \subseteq Content
    BY <2>1 DEF Range
  <2>4. doomed' = doomed \ {n} /\ pc' \in {"up", "delete"} /\ pc = "delete"
    BY <1>8 DEF Delete, LoopOn
  <2> HIDE DEF n
  <2> QED BY <1>8, <2>1, <2>2, <2>3, <2>4 DEF Delete
<1>9. CASE DeleteFails
  BY <1>9 DEF DeleteFails, LoopOn, Fault
<1>10. CASE Start
  BY <1>10 DEF Start
<1>11. CASE Restore
  <2>1. DOMAIN remote # {} => Newest(DOMAIN remote) \in DOMAIN remote
    BY NewestOf
  <2>2. data' \in Content /\ pc' \in {"init", "copy"}
    BY <1>11, <2>1 DEF Restore, RestoreFrom, Range
  <2> QED BY <1>11, <2>2 DEF Restore, RestoreFrom
<1>12. CASE RestoreFails
  BY <1>12 DEF RestoreFails, Fault
<1>13. CASE Truncate
  <2>1. main' \in Content
    BY <1>13 DEF Truncate, Content
  <2> QED BY <1>13, <2>1 DEF Truncate
<1>14. CASE Write
  BY <1>14 DEF Write
<1>15. CASE WriteFails
  BY <1>15 DEF WriteFails, Fault
<1>16. CASE InitDb
  <2>1. CASE Opens
    <3>1. main' \in Content /\ wal' \in Content /\ wal' = NoLog
      BY <2>1, AppliedType, FreshType DEF Opens, NoLog
    <3> QED BY <1>16, <2>1, <3>1 DEF InitDb, Opens
  <2>2. CASE pc' = "down" /\ UNCHANGED <<disk, blind, mixed>>
    BY <1>16, <2>2 DEF InitDb
  <2> QED BY <1>16, <2>1, <2>2 DEF InitDb
<1>17. CASE Crash
  <2>1. main' \in Content /\ wal' \in Content /\ file' \in {"absent", "torn", "whole"}
    BY <1>17, FreshType DEF Crash, NoLog
  <2> QED BY <1>17, <2>1 DEF Crash
<1>18. CASE SetBack
  BY <1>18 DEF SetBack
<1>19. CASE UNCHANGED vars
  BY <1>19 DEF vars
<1> QED BY <1>1, <1>2, <1>3, <1>4, <1>5, <1>6, <1>7, <1>8, <1>9, <1>10, <1>11, <1>12, <1>13, <1>14, <1>15, <1>16, <1>17, <1>18, <1>19 DEF Next

\* Every reachable state has its types.
THEOREM TypeCorrectness == Spec => []TypeOK
<1>1. Init => TypeOK
  BY InitType
<1>2. TypeOK /\ [Next]_vars => TypeOK'
  BY NextType
<1> QED BY <1>1, <1>2, PTL DEF Spec

(***************************************************************************)
(* Whole states.  What is written over the database is a state it was in,  *)
(* because what was uploaded is; and a whole file holds such a state with  *)
(* its log, until the log of one file is applied to another.  A torn file  *)
(* does not, and is opened only if nothing was written to it.              *)
(***************************************************************************)
WholeInv ==
    /\ Fresh \in lived
    /\ ~mixed => Range(remote) \subseteq lived
    /\ ~mixed /\ pc \in {"put", "copy", "write"} => data \in lived
    /\ pc = "write" => file = "torn"
    /\ file = "absent" => main = Fresh /\ wal = NoLog
    /\ file = "whole" /\ ~mixed => Applied \in lived

LEMMA InitWhole == Init => WholeInv
<1> SUFFICES ASSUME Init PROVE WholeInv
  OBVIOUS
<1>1. Range(remote) = {}
  BY DEF Init, Range
<1> QED BY <1>1 DEF Init, WholeInv

\* The log is empty.
LEMMA AppliedNoLog ==
  ASSUME main \in Content, wal = NoLog
  PROVE  Applied = main
BY DEF Applied, NoLog, Fresh, Content

LEMMA NextWhole == TypeOK /\ WholeInv /\ [Next]_vars => WholeInv'
<1> SUFFICES ASSUME TypeOK, WholeInv, [Next]_vars PROVE WholeInv'
  OBVIOUS
<1>0. TypeOK'
  BY NextType
<1> USE DEF WholeInv, disk, github, past
<1>1. ASSUME NEW r \in Rows, Commit(r) PROVE WholeInv'
  <2>1. Applied' = [Applied EXCEPT ![r] = changes + 1]
    BY <1>1 DEF Commit, TypeOK, Applied, Content
  <2> QED BY <1>1, <2>1 DEF Commit, TypeOK, Running
<1>2. CASE Close
  <2>1. Applied' = main' /\ main' = Applied
    BY <1>2, <1>0 DEF Close, TypeOK, Applied, NoLog, Fresh, Content
  <2> QED BY <1>2, <2>1 DEF Close, TypeOK, Running
<1>3. CASE Snapshot
  <2>1. (~mixed => data' \in lived) /\ UNCHANGED Applied
    BY <1>3 DEF Snapshot, TypeOK, Running, Applied
  <2> QED BY <1>3, <2>1 DEF Snapshot
<1>4. CASE Put
  BY <1>4 DEF Put, Upload, Range, TypeOK, Running, Applied
<1>5. CASE PutFails
  BY <1>5 DEF PutFails, Upload, Range, TypeOK, Running, Applied
<1>6. CASE List
  BY <1>6 DEF List, ListThen, TypeOK, Running, Applied
<1>7. CASE ListFails
  BY <1>7 DEF ListFails, TypeOK, Running, Applied
<1>8. CASE Delete
  BY <1>8 DEF Delete, LoopOn, Restrict, Range, TypeOK, Running, Applied
<1>9. CASE DeleteFails
  BY <1>9 DEF DeleteFails, LoopOn, TypeOK, Running, Applied
<1>10. CASE Start
  BY <1>10 DEF Start, TypeOK, Running, Applied
<1>11. CASE Restore
  <2>1. DOMAIN remote # {} => Newest(DOMAIN remote) \in DOMAIN remote
    BY NewestOf DEF TypeOK
  <2>2. ~mixed /\ pc' = "copy" => data' \in lived
    BY <1>11, <2>1 DEF Restore, RestoreFrom, Range
  <2> QED BY <1>11, <2>2 DEF Restore, RestoreFrom, Applied
<1>12. CASE RestoreFails
  BY <1>12 DEF RestoreFails, TypeOK, Running, Applied
<1>13. CASE Truncate
  BY <1>13 DEF Truncate, TypeOK, Running, Applied
<1>14. CASE Write
  <2>1. ~mixed' => Applied' = data
    BY <1>14 DEF Write, TypeOK, Applied, NoLog, Fresh, Content
  <2> QED BY <1>14, <2>1 DEF Write
<1>15. CASE WriteFails
  BY <1>15 DEF WriteFails, TypeOK, Running, Applied
<1>16. CASE InitDb
  <2>1. CASE Opens
    <3>1. Applied' = main' /\ main' = Applied
      BY <2>1, AppliedType DEF Opens, TypeOK, Applied, NoLog, Fresh, Content
    <3>2. CASE file = "whole"
      BY <1>16, <2>1, <3>1, <3>2 DEF InitDb, Opens
    <3>3. CASE file # "whole"
      <4>1. main = Fresh
        BY <1>16, <2>1, <3>3 DEF InitDb, Opens, TypeOK
      <4>2. ~mixed' => Applied = Fresh
        BY <2>1, <3>3, <4>1 DEF Opens, TypeOK, Applied, NoLog, Fresh
      <4> QED BY <1>16, <2>1, <3>1, <4>2 DEF InitDb, Opens
    <3> QED BY <3>2, <3>3
  <2>2. CASE pc' = "down" /\ UNCHANGED <<disk, blind, mixed>>
    BY <1>16, <2>2 DEF InitDb, Applied
  <2> QED BY <1>16, <2>1, <2>2 DEF InitDb
<1>17. CASE Crash
  BY <1>17 DEF Crash, TypeOK, Running, Applied
<1>18. CASE SetBack
  BY <1>18 DEF SetBack, TypeOK, Running, Applied
<1>19. CASE UNCHANGED vars
  BY <1>19 DEF vars, Applied
<1> QED BY <1>1, <1>2, <1>3, <1>4, <1>5, <1>6, <1>7, <1>8, <1>9, <1>10, <1>11, <1>12, <1>13, <1>14, <1>15, <1>16, <1>17, <1>18, <1>19 DEF Next

\* The bot runs on a state that the database was in: backups, restores,
\* crashes and failures of every call put no part of a state under it.
THEOREM RunsOnWholeStates == Spec => []WholeDatabase
<1>1. Init => TypeOK /\ WholeInv
  BY InitType, InitWhole
<1>2. TypeOK /\ WholeInv /\ [Next]_vars => TypeOK' /\ WholeInv'
  BY NextType, NextWhole
<1>3. TypeOK /\ WholeInv => WholeDatabase
  BY DEF TypeOK, WholeInv, WholeDatabase
<1> QED BY <1>1, <1>2, <1>3, PTL DEF Spec

(***************************************************************************)
(* The newest uploads.  As long as the clock runs forward the names order  *)
(* the uploads by age, so the uploads that are newer on GitHub than one of *)
(* the last Keep are fewer than Keep, and none of these is in the list of  *)
(* those to be deleted.                                                    *)
(***************************************************************************)
Name(k) == uploads[k].name
Last(k) == k \in 1 .. Len(uploads) /\ k + Keep > Len(uploads)

Ordered ==
    \A k \in 1 .. Len(uploads) :
      /\ Name(k) <= clock
      /\ pc = "put" => Name(k) < clock
      /\ \A j \in 1 .. k - 1 : Name(j) < Name(k)
AllUploaded == \A n \in DOMAIN remote : \E k \in 1 .. Len(uploads) : Name(k) = n
LastKept ==
    \A k \in 1 .. Len(uploads) : Last(k) =>
      /\ Name(k) \in DOMAIN remote \ doomed
      /\ remote[Name(k)] = uploads[k].content

KeptInv ==
    /\ uploads \in Seq([name : Nat, content : Content])
    /\ pc = "delete" => doomed # {}
    /\ ~shifted => Ordered /\ AllUploaded /\ LastKept

LEMMA NamesTyped ==
  ASSUME uploads \in Seq([name : Nat, content : Content])
  PROVE  /\ Len(uploads) \in Nat /\ DOMAIN uploads = 1 .. Len(uploads)
         /\ \A k \in 1 .. Len(uploads) : Name(k) \in Nat /\ uploads[k].content \in Content
<1> DEFINE R == [name : Nat, content : Content]
<1>1. Len(uploads) \in Nat /\ DOMAIN uploads = 1 .. Len(uploads) /\ \A k \in 1 .. Len(uploads) : uploads[k] \in R
  <2> HIDE DEF R
  <2>1. uploads \in Seq(R)
    BY DEF R
  <2> QED BY <2>1
<1> QED BY <1>1 DEF Name

\* Fewer than Keep names are newer than that of one of the last Keep uploads.
LEMMA FewNewer ==
  ASSUME KeptInv, TypeOK, Ordered, AllUploaded, NEW k \in 1 .. Len(uploads), Last(k)
  PROVE  Cardinality(Newer(Name(k))) < Keep
<1> DEFINE S == Newer(Name(k))
           T == k + 1 .. Len(uploads)
           f == [m \in S |-> CHOOSE j \in 1 .. Len(uploads) : Name(j) = m]
<1>0. Len(uploads) \in Nat /\ Keep \in Nat /\ \A j \in 1 .. Len(uploads) : Name(j) \in Nat
  BY KeepAssumption, NamesTyped DEF KeptInv
<1>1. \A m \in S : f[m] \in 1 .. Len(uploads) /\ Name(f[m]) = m
  BY DEF AllUploaded, Newer
<1>2. \A m \in S : m > Name(k) /\ m \in Nat
  BY DEF Newer, TypeOK
<1> HIDE DEF S, f
<1>3. \A m \in S : f[m] \in T
  <2> SUFFICES ASSUME NEW m \in S, ~(f[m] > k) PROVE FALSE
    BY <1>0, <1>1
  <2>1. f[m] = k \/ f[m] \in 1 .. k - 1
    BY <1>0, <1>1
  <2>2. Name(f[m]) <= Name(k)
    BY <2>1, <1>0 DEF Ordered
  <2> QED BY <2>2, <1>0, <1>1, <1>2
<1>4. f \in Injection(S, T)
  <2>1. f \in [S -> T]
    BY <1>3 DEF f
  <2> QED BY <2>1, <1>1 DEF Injection, IsInjective
<1>5. IsFiniteSet(T) /\ Cardinality(T) = IF k + 1 > Len(uploads) THEN 0 ELSE Len(uploads) - (k + 1) + 1
  <2>1. k + 1 \in Int /\ Len(uploads) \in Int
    BY <1>0
  <2> QED BY <2>1, FS_Interval
<1>6. IsFiniteSet(S) /\ Cardinality(S) <= Cardinality(T)
  <2> HIDE DEF T
  <2> QED BY <1>4, <1>5, FS_Injection
<1>7. Cardinality(S) \in Nat
  BY <1>6, FS_CardinalityType
<1> QED BY <1>0, <1>5, <1>6, <1>7 DEF S, Last

LEMMA InitKept == Init => KeptInv
BY DEF Init, KeptInv, Ordered, AllUploaded, LastKept

\* Steps that upload nothing and delete nothing.
LEMMA KeptFrame ==
  ASSUME KeptInv, UNCHANGED <<remote, uploads, clock, shifted>>, doomed' \subseteq doomed,
         pc' # "put", pc' = "delete" => doomed' # {}
  PROVE  KeptInv'
BY DEF KeptInv, Ordered, AllUploaded, LastKept, Name, Last

\* An upload has a name of its own, the newest.
LEMMA UploadKept ==
  ASSUME KeptInv, TypeOK, Upload, pc = "put", UNCHANGED <<clock, doomed, shifted>>,
         pc' # "put", pc' # "delete"
  PROVE  KeptInv'
<1>n. PICK n : n = Len(uploads) + 1
  OBVIOUS
<1> DEFINE u == [name |-> clock, content |-> data]
<1>0. u \in [name : Nat, content : Content]
  BY DEF TypeOK
<1>1. /\ Len(uploads) \in Nat /\ \A k \in 1 .. Len(uploads) : Name(k) \in Nat
      /\ Keep \in Nat \ {0}
  BY NamesTyped, KeepAssumption DEF KeptInv
<1>2. /\ uploads' \in Seq([name : Nat, content : Content]) /\ Len(uploads') = n
      /\ uploads'[n] = u /\ \A k \in 1 .. Len(uploads) : uploads'[k] = uploads[k]
  <2> DEFINE R == [name : Nat, content : Content]
  <2>1. uploads \in Seq(R) /\ u \in R /\ uploads' = Append(uploads, u)
    BY <1>0 DEF KeptInv, Upload
  <2> HIDE DEF R, u
  <2>2. uploads' \in Seq(R) /\ Len(uploads') = n /\ uploads'[n] = u
          /\ \A k \in 1 .. Len(uploads) : uploads'[k] = uploads[k]
    BY <2>1, <1>n
  <2> QED BY <2>2 DEF R, u
<1>3. 1 .. n = 1 .. Len(uploads) \union {n} /\ \A k \in 1 .. Len(uploads) : k # n
  BY <1>1, <1>n
<1>4. Name(n)' = clock /\ \A k \in 1 .. Len(uploads) : Name(k)' = Name(k)
  BY <1>2 DEF Name
<1> SUFFICES ASSUME ~shifted PROVE (Ordered /\ AllUploaded /\ LastKept)'
  BY <1>2 DEF KeptInv
<1>5. \A k \in 1 .. Len(uploads) : Name(k) < clock
  BY DEF KeptInv, Ordered
<1>6. Ordered'
  <2>1. \A k \in 1 .. n : Name(k)' <= clock
    BY <1>1, <1>3, <1>4, <1>5 DEF TypeOK
  <2>2. \A k \in 1 .. n : \A j \in 1 .. k - 1 : Name(j)' < Name(k)'
    <3> TAKE k \in 1 .. n
    <3> TAKE j \in 1 .. k - 1
    <3>1. j \in 1 .. Len(uploads) /\ Name(j)' = Name(j)
      BY <1>n, <1>1, <1>4
    <3>2. CASE k = n
      BY <1>4, <1>5, <3>1, <3>2
    <3>3. CASE k \in 1 .. Len(uploads)
      BY <1>4, <3>1, <3>3 DEF KeptInv, Ordered
    <3> QED BY <1>3, <3>2, <3>3
  <2> QED BY <1>2, <2>1, <2>2 DEF Ordered
<1>7. AllUploaded'
  <2>1. \A m \in DOMAIN remote' : m = clock \/ \E k \in 1 .. Len(uploads) : Name(k) = m
    BY DEF Upload, KeptInv, AllUploaded
  <2> QED BY <1>2, <1>3, <1>4, <2>1 DEF AllUploaded
<1>8. clock \notin DOMAIN remote
  <2> SUFFICES ASSUME NEW k \in 1 .. Len(uploads), Name(k) = clock PROVE FALSE
    BY DEF KeptInv, AllUploaded
  <2> QED BY <1>1, <1>5
<1>9. LastKept'
  <2> SUFFICES ASSUME NEW k \in 1 .. n, Last(k)'
               PROVE  Name(k)' \in DOMAIN remote' \ doomed /\ remote'[Name(k)'] = uploads'[k].content
    BY <1>2 DEF LastKept
  <2>1. CASE k = n
    BY <1>2, <1>4, <1>8, <2>1 DEF Upload, TypeOK
  <2>2. CASE k \in 1 .. Len(uploads)
    <3>1. Last(k)
      BY <1>n, <1>1, <1>2, <2>2 DEF Last
    <3>2. Name(k) \in DOMAIN remote \ doomed /\ remote[Name(k)] = uploads[k].content /\ Name(k) # clock
      BY <1>8, <2>2, <3>1 DEF KeptInv, LastKept
    <3> QED BY <1>2, <1>4, <2>2, <3>2 DEF Upload
  <2> QED BY <1>3, <2>1, <2>2
<1> QED BY <1>6, <1>7, <1>9

LEMMA NextKept == TypeOK /\ KeptInv /\ [Next]_vars => KeptInv'
<1> SUFFICES ASSUME TypeOK, KeptInv, [Next]_vars PROVE KeptInv'
  OBVIOUS
<1> USE DEF disk, github, past
<1>1. ASSUME NEW r \in Rows, Commit(r) PROVE KeptInv'
  BY <1>1, KeptFrame DEF Commit
<1>2. CASE Close
  BY <1>2, KeptFrame DEF Close
<1>3. CASE Snapshot
  <2>1. \A k \in 1 .. Len(uploads) : Name(k) \in Nat
    BY NamesTyped DEF KeptInv
  <2>2. Ordered => Ordered'
    BY <1>3, <2>1 DEF Snapshot, Ordered, Name, TypeOK
  <2> QED BY <1>3, <2>2 DEF Snapshot, KeptInv, AllUploaded, LastKept, Name, Last
<1>4. CASE Put
  <2>1. CASE UNCHANGED <<remote, uploads>>
    BY <1>4, <2>1, KeptFrame DEF Put
  <2>2. CASE Upload
    BY <1>4, <2>2, UploadKept DEF Put
  <2> QED BY <1>4, <2>1, <2>2 DEF Put
<1>5. CASE PutFails
  <2>1. CASE UNCHANGED <<remote, uploads>>
    BY <1>5, <2>1, KeptFrame DEF PutFails
  <2>2. CASE Upload
    BY <1>5, <2>2, UploadKept DEF PutFails
  <2> QED BY <1>5, <2>1, <2>2 DEF PutFails
<1>6. CASE List
  <2>1. ASSUME ~shifted, NEW k \in 1 .. Len(uploads), Last(k)
        PROVE  Name(k) \notin doomed'
    <3>1. Cardinality(Newer(Name(k))) < Keep
      BY <2>1, FewNewer DEF KeptInv
    <3>2. Cardinality(Newer(Name(k))) \in Nat
      <4>1. Newer(Name(k)) \in SUBSET DOMAIN remote
        BY DEF Newer
      <4> QED BY <4>1, FS_Subset, FS_CardinalityType DEF TypeOK
    <3> QED BY <1>6, <3>1, <3>2, KeepAssumption DEF List, ListThen
  <2>2. pc' = "delete" => doomed' # {}
    BY <1>6 DEF List, ListThen
  <2>3. ~shifted => Ordered' /\ AllUploaded' /\ LastKept'
    BY <1>6, <2>1 DEF List, ListThen, KeptInv, Ordered, AllUploaded, LastKept, Name, Last
  <2> QED BY <1>6, <2>2, <2>3 DEF List, ListThen, KeptInv
<1>7. CASE ListFails
  BY <1>7, KeptFrame DEF ListFails
<1>8. CASE Delete
  <2> DEFINE m == Newest(doomed)
  <2>1. m \in doomed
    <3>1. doomed \in SUBSET Nat /\ IsFiniteSet(doomed) /\ doomed # {}
      BY <1>8, FS_Subset DEF Delete, TypeOK, KeptInv
    <3> QED BY <3>1, NewestOf
  <2>2. /\ DOMAIN remote' = DOMAIN remote \ {m} /\ \A j \in DOMAIN remote' : remote'[j] = remote[j]
        /\ doomed' = doomed \ {m} /\ pc' # "put" /\ (pc' = "delete" => doomed' # {})
        /\ UNCHANGED <<uploads, clock, shifted>>
    BY <1>8 DEF Delete, LoopOn, Restrict
  <2> HIDE DEF m
  <2> QED BY <2>1, <2>2 DEF KeptInv, Ordered, AllUploaded, LastKept, Name, Last
<1>9. CASE DeleteFails
  BY <1>9, KeptFrame DEF DeleteFails, LoopOn
<1>10. CASE Start
  BY <1>10, KeptFrame DEF Start
<1>11. CASE Restore
  BY <1>11, KeptFrame DEF Restore, RestoreFrom
<1>12. CASE RestoreFails
  BY <1>12, KeptFrame DEF RestoreFails
<1>13. CASE Truncate
  BY <1>13, KeptFrame DEF Truncate
<1>14. CASE Write
  BY <1>14, KeptFrame DEF Write
<1>15. CASE WriteFails
  BY <1>15, KeptFrame DEF WriteFails
<1>16. CASE InitDb
  BY <1>16, KeptFrame DEF InitDb, Opens
<1>17. CASE Crash
  BY <1>17, KeptFrame DEF Crash
<1>18. CASE SetBack
  BY <1>18 DEF SetBack, KeptInv
<1>19. CASE UNCHANGED vars
  BY <1>19 DEF vars, KeptInv, Ordered, AllUploaded, LastKept, Name, Last
<1> QED BY <1>1, <1>2, <1>3, <1>4, <1>5, <1>6, <1>7, <1>8, <1>9, <1>10, <1>11, <1>12, <1>13, <1>14, <1>15, <1>16, <1>17, <1>18, <1>19 DEF Next

\* The last Keep uploads stay on GitHub, whatever fails and wherever the
\* process is killed, as long as the clock runs forward.
THEOREM LastUploadsKept == Spec => []NewestKept
<1>1. Init => TypeOK /\ KeptInv
  BY InitType, InitKept
<1>2. TypeOK /\ KeptInv /\ [Next]_vars => TypeOK' /\ KeptInv'
  BY NextType, NextKept
<1>3. KeptInv => NewestKept
  BY NamesTyped DEF KeptInv, NewestKept, LastKept, Last, Name
<1> QED BY <1>1, <1>2, <1>3, PTL DEF Spec

(***************************************************************************)
(* What was uploaded survives.  Uploads grow, row by row; the newest one   *)
(* is still on GitHub and is the one that is restored, so both a snapshot  *)
(* and a restored backup cover all uploads.  So does the log of a killed   *)
(* process, because a change is newer than all that was uploaded.          *)
(***************************************************************************)
AtMost(c, n) == \A r \in Rows : c[r] <= n
Bounded ==
    /\ AtMost(main, changes) /\ AtMost(wal, changes) /\ AtMost(data, changes)
    /\ \A n \in DOMAIN remote : AtMost(remote[n], changes)
    /\ \A k \in 1 .. Len(uploads) : AtMost(uploads[k].content, changes)

Covers(c) == \A k \in 1 .. Len(uploads) : \A r \in Rows : c[r] >= uploads[k].content[r]
Growing ==
    \A k \in 1 .. Len(uploads) : \A j \in 1 .. k : \A r \in Rows :
      uploads[k].content[r] >= uploads[j].content[r]
LogCovers == \A k \in 1 .. Len(uploads) : \A r \in Rows : wal[r] = 0 \/ wal[r] >= uploads[k].content[r]

SafeInv ==
    /\ Bounded
    /\ pc = "put" => data = Applied
    /\ pc = "write" => file = "torn"
    /\ ~shifted /\ ~blind =>
         /\ Growing /\ LogCovers
         /\ pc \in {"copy", "write"} => Covers(data)
         /\ file = "whole" => Covers(Applied)

LEMMA InitSafe == Init => SafeInv
<1> SUFFICES ASSUME Init PROVE SafeInv
  OBVIOUS
<1>1. uploads = <<>> /\ DOMAIN remote = {} /\ Len(uploads) = 0
  BY DEF Init
<1>2. Bounded
  BY <1>1 DEF Init, Bounded, AtMost, Fresh, NoLog
<1> QED BY <1>1, <1>2 DEF Init, SafeInv, Growing, LogCovers, Covers

\* The rows that a whole file and its log show.
LEMMA AppliedRows ==
  ASSUME TypeOK
  PROVE  /\ \A r \in Rows : /\ main[r] \in Nat /\ wal[r] \in Nat /\ data[r] \in Nat
                             /\ Applied[r] = (IF wal[r] # 0 THEN wal[r] ELSE main[r])
         /\ changes \in Nat
BY Bounds DEF TypeOK, Content, Applied

\* The backup under the newest name is the last upload.
LEMMA NewestIsLast ==
  ASSUME TypeOK, KeptInv, ~shifted, DOMAIN remote # {}
  PROVE  /\ Len(uploads) # 0
         /\ remote[Newest(DOMAIN remote)] = uploads[Len(uploads)].content
<1> DEFINE n == Newest(DOMAIN remote)
<1>0. /\ Len(uploads) \in Nat /\ \A k \in 1 .. Len(uploads) : Name(k) \in Nat
      /\ Keep \in Nat \ {0}
  BY NamesTyped, KeepAssumption DEF KeptInv
<1>1. n \in DOMAIN remote /\ \A m \in DOMAIN remote : m <= n
  BY NewestOf DEF TypeOK
<1> HIDE DEF n
<1>2. PICK k \in 1 .. Len(uploads) : Name(k) = n
  BY <1>1 DEF KeptInv, AllUploaded
<1>3. Len(uploads) \in 1 .. Len(uploads) /\ Last(Len(uploads))
  BY <1>0, <1>2 DEF Last
<1>4. /\ Name(Len(uploads)) \in DOMAIN remote
      /\ remote[Name(Len(uploads))] = uploads[Len(uploads)].content
  BY <1>3 DEF KeptInv, LastKept
<1>5. k = Len(uploads)
  <2> SUFFICES ASSUME k # Len(uploads) PROVE FALSE
    OBVIOUS
  <2>1. k \in 1 .. Len(uploads) - 1
    BY <1>0, <1>2
  <2>2. Name(k) < Name(Len(uploads))
    BY <1>3, <2>1 DEF KeptInv, Ordered
  <2> QED BY <1>0, <1>1, <1>2, <1>3, <1>4, <2>2
<1> QED BY <1>0, <1>2, <1>4, <1>5 DEF n

\* Without a backup on GitHub nothing was ever uploaded.
LEMMA NothingUploaded ==
  ASSUME KeptInv, ~shifted, DOMAIN remote = {}
  PROVE  Len(uploads) = 0
<1>1. Len(uploads) \in Nat /\ Keep \in Nat \ {0}
  BY NamesTyped, KeepAssumption DEF KeptInv
<1> SUFFICES ASSUME Len(uploads) # 0 PROVE FALSE
  OBVIOUS
<1>2. Len(uploads) \in 1 .. Len(uploads) /\ Last(Len(uploads))
  BY <1>1 DEF Last
<1> QED BY <1>2 DEF KeptInv, LastKept

\* Steps that leave the disk and the uploads alone.
LEMMA SafeFrame ==
  ASSUME SafeInv, UNCHANGED <<file, main, wal, data, uploads, changes, blind>>, shifted => shifted',
         \A n \in DOMAIN remote' : AtMost(remote'[n], changes),
         pc' \notin {"put", "copy", "write"}
  PROVE  SafeInv'
<1>1. Applied' = Applied
  BY DEF Applied
<1> QED BY <1>1 DEF SafeInv, Bounded, AtMost, Growing, LogCovers, Covers

\* An upload of a snapshot, which shows what all earlier ones do.
LEMMA UploadSafe ==
  ASSUME TypeOK, KeptInv, SafeInv, Upload, pc = "put", pc' \notin {"put", "copy", "write"},
         UNCHANGED <<file, main, wal, data, changes, blind, shifted>>
  PROVE  SafeInv'
<1>n. PICK n : n = Len(uploads) + 1
  OBVIOUS
<1>1. Len(uploads) \in Nat /\ \A k \in 1 .. Len(uploads) : uploads[k].content \in Content
  BY NamesTyped DEF KeptInv
<1>2. /\ Len(uploads') = n /\ uploads'[n].content = data
      /\ \A k \in 1 .. Len(uploads) : uploads'[k] = uploads[k]
  <2> DEFINE R == [name : Nat, content : Content]
             u == [name |-> clock, content |-> data]
  <2>1. uploads \in Seq(R) /\ u \in R /\ uploads' = Append(uploads, u) /\ u.content = data
    BY DEF KeptInv, Upload, TypeOK
  <2> HIDE DEF R, u
  <2> QED BY <2>1, <1>n
<1>3. 1 .. n = 1 .. Len(uploads) \union {n} /\ \A k \in 1 .. Len(uploads) : k # n
  BY <1>1, <1>n
<1>4. data = Applied /\ Applied' = Applied /\ file = "whole" /\ wal = NoLog
  BY DEF SafeInv, Applied, TypeOK, Running
<1>5. Bounded'
  <2>1. \A m \in DOMAIN remote' : AtMost(remote'[m], changes)
    BY DEF Upload, SafeInv, Bounded
  <2>2. \A k \in 1 .. n : AtMost(uploads'[k].content, changes)
    BY <1>2, <1>3 DEF SafeInv, Bounded
  <2> QED BY <1>2, <2>1, <2>2 DEF SafeInv, Bounded, AtMost
<1> SUFFICES ASSUME ~shifted, ~blind PROVE (Growing /\ LogCovers /\ Covers(Applied))'
  BY <1>5 DEF SafeInv
<1>6. Covers(Applied) /\ Growing
  BY <1>4 DEF SafeInv
<1>7. \A r \in Rows : data[r] \in Nat
  BY AppliedRows
<1>8. \A k \in 1 .. n : \A r \in Rows : data[r] >= uploads'[k].content[r]
  BY <1>2, <1>3, <1>4, <1>6, <1>7 DEF Covers
<1>9. Growing'
  <2> SUFFICES ASSUME NEW k \in 1 .. n, NEW j \in 1 .. k, NEW r \in Rows
               PROVE  uploads'[k].content[r] >= uploads'[j].content[r]
    BY <1>2 DEF Growing
  <2>1. CASE k = n
    BY <1>2, <1>8, <2>1
  <2>2. CASE k \in 1 .. Len(uploads)
    <3>1. j \in 1 .. Len(uploads)
      BY <1>1, <2>2
    <3> QED BY <1>2, <1>6, <2>2, <3>1 DEF Growing
  <2> QED BY <1>3, <2>1, <2>2
<1>10. LogCovers' /\ Covers(Applied)'
  <2>1. LogCovers'
    BY <1>4 DEF LogCovers, NoLog, Fresh
  <2>2. Covers(Applied)'
    BY <1>2, <1>4, <1>8 DEF Covers
  <2> QED BY <2>1, <2>2
<1> QED BY <1>9, <1>10

LEMMA NextSafe == TypeOK /\ KeptInv /\ SafeInv /\ [Next]_vars => SafeInv'
<1> SUFFICES ASSUME TypeOK, KeptInv, SafeInv, [Next]_vars PROVE SafeInv'
  OBVIOUS
<1>0. /\ Len(uploads) \in Nat /\ DOMAIN uploads = 1 .. Len(uploads)
      /\ \A k \in 1 .. Len(uploads) : \A r \in Rows : uploads[k].content[r] \in Nat
  BY NamesTyped, Bounds DEF KeptInv, Content
<1>r. /\ \A n \in DOMAIN remote : AtMost(remote[n], changes)
  BY DEF SafeInv, Bounded
<1> USE DEF disk, github, past
<1>1. ASSUME NEW r \in Rows, Commit(r) PROVE SafeInv'
  <2>1. /\ changes' = changes + 1 /\ wal' = [wal EXCEPT ![r] = changes + 1]
        /\ UNCHANGED <<main, data, remote, uploads, file, shifted, blind>>
        /\ pc' = "commit" /\ file = "whole" /\ wal = NoLog
    BY <1>1 DEF Commit, TypeOK, Running
  <2>2. \A q \in Rows : /\ wal'[q] = (IF q = r THEN changes + 1 ELSE wal[q])
                         /\ Applied'[q] = (IF q = r THEN changes + 1 ELSE Applied[q])
    BY <2>1, AppliedRows DEF TypeOK, Content, Applied, NoLog, Fresh
  <2>3. Bounded'
    <3>1. \A q \in Rows : main[q] <= changes' /\ wal'[q] <= changes' /\ data[q] <= changes'
      BY <2>1, <2>2, AppliedRows DEF SafeInv, Bounded, AtMost
    <3>2. \A k \in 1 .. Len(uploads) : AtMost(uploads[k].content, changes')
      BY <2>1, <1>0, AppliedRows DEF SafeInv, Bounded, AtMost
    <3>3. \A n \in DOMAIN remote : AtMost(remote[n], changes')
      <4>1. \A n \in DOMAIN remote : \A q \in Rows : remote[n][q] \in Nat
        BY Bounds DEF TypeOK, Range, Content
      <4> QED BY <2>1, <4>1, <1>r, AppliedRows DEF AtMost
    <3> QED BY <2>1, <3>1, <3>2, <3>3 DEF Bounded, AtMost
  <2>4. ~shifted /\ ~blind => Growing' /\ LogCovers' /\ Covers(Applied)'
    <3> SUFFICES ASSUME ~shifted, ~blind PROVE Growing' /\ LogCovers' /\ Covers(Applied)'
      OBVIOUS
    <3>1. \A k \in 1 .. Len(uploads) : uploads[k].content[r] <= changes
      BY DEF SafeInv, Bounded, AtMost
    <3>2. Growing'
      BY <2>1 DEF SafeInv, Growing
    <3>3. LogCovers'
      BY <2>1, <2>2, <3>1, <1>0, AppliedRows DEF SafeInv, LogCovers
    <3>4. Covers(Applied)'
      BY <2>1, <2>2, <3>1, <1>0, AppliedRows DEF SafeInv, Covers
    <3> QED BY <3>2, <3>3, <3>4
  <2> QED BY <2>1, <2>3, <2>4 DEF SafeInv
<1>2. CASE Close
  <2>1. Applied' = Applied /\ main' = Applied /\ wal' = NoLog
    BY <1>2, AppliedType DEF Close, TypeOK, Applied, NoLog, Fresh, Content
  <2>2. Bounded'
    BY <1>2, <2>1, AppliedRows DEF Close, SafeInv, Bounded, AtMost, NoLog, Fresh
  <2>3. LogCovers'
    BY <1>2, <2>1 DEF Close, LogCovers, NoLog, Fresh
  <2> QED BY <1>2, <2>1, <2>2, <2>3 DEF Close, SafeInv, Growing, Covers
<1>3. CASE Snapshot
  <2>1. Applied' = Applied /\ data' = Applied
    BY <1>3 DEF Snapshot, Applied
  <2>2. Bounded'
    BY <1>3, <2>1, AppliedRows DEF Snapshot, SafeInv, Bounded, AtMost
  <2> QED BY <1>3, <2>1, <2>2 DEF Snapshot, SafeInv, Growing, LogCovers, Covers
<1>4. CASE Put
  <2>1. CASE UNCHANGED <<remote, uploads>>
    BY <1>4, <1>r, <2>1, SafeFrame DEF Put
  <2>2. CASE Upload
    BY <1>4, <2>2, UploadSafe DEF Put
  <2> QED BY <1>4, <2>1, <2>2 DEF Put
<1>5. CASE PutFails
  <2>1. CASE UNCHANGED <<remote, uploads>>
    BY <1>5, <1>r, <2>1, SafeFrame DEF PutFails
  <2>2. CASE Upload
    BY <1>5, <2>2, UploadSafe DEF PutFails
  <2> QED BY <1>5, <2>1, <2>2 DEF PutFails
<1>6. CASE List
  BY <1>6, <1>r, SafeFrame DEF List, ListThen
<1>7. CASE ListFails
  BY <1>7, <1>r, SafeFrame DEF ListFails
<1>8. CASE Delete
  <2>1. \A n \in DOMAIN remote' : AtMost(remote'[n], changes)
    BY <1>8, <1>r DEF Delete, Restrict
  <2> QED BY <1>8, <2>1, SafeFrame DEF Delete, LoopOn
<1>9. CASE DeleteFails
  BY <1>9, <1>r, SafeFrame DEF DeleteFails, LoopOn
<1>10. CASE Start
  BY <1>10, <1>r, SafeFrame DEF Start
<1>11. CASE Restore
  <2>1. CASE DOMAIN remote = {}
    BY <1>11, <1>r, <2>1, SafeFrame DEF Restore, RestoreFrom
  <2>2. CASE DOMAIN remote # {}
    <3>1. data' = remote[Newest(DOMAIN remote)] /\ Newest(DOMAIN remote) \in DOMAIN remote
      BY <1>11, <2>2, NewestOf DEF Restore, RestoreFrom, TypeOK
    <3>2. UNCHANGED <<file, main, wal, remote, uploads, changes, blind, shifted>> /\ pc' = "copy"
      BY <1>11, <2>2 DEF Restore, RestoreFrom
    <3>3. AtMost(data', changes)
      BY <1>r, <3>1
    <3>4. ASSUME ~shifted, Growing PROVE Covers(data)'
      <4>1. Len(uploads) # 0 /\ data' = uploads[Len(uploads)].content
        BY <2>2, <3>1, <3>4, NewestIsLast
      <4>2. Len(uploads) \in 1 .. Len(uploads) /\ \A k \in 1 .. Len(uploads) : k \in 1 .. Len(uploads)
        BY <1>0, <4>1
      <4> QED BY <3>2, <3>4, <4>1, <4>2 DEF Growing, Covers
    <3>5. Applied' = Applied
      BY <3>2 DEF Applied
    <3> QED BY <3>2, <3>3, <3>4, <3>5 DEF SafeInv, Bounded, AtMost, Growing, LogCovers, Covers
  <2> QED BY <2>1, <2>2
<1>12. CASE RestoreFails
  BY <1>12, <1>r, SafeFrame DEF RestoreFails
<1>13. CASE Truncate
  <2>1. \A r \in Rows : main'[r] \in {data[r], 0}
    BY <1>13 DEF Truncate
  <2>2. Bounded'
    BY <1>13, <2>1, AppliedRows DEF Truncate, SafeInv, Bounded, AtMost
  <2> QED BY <1>13, <2>2 DEF Truncate, SafeInv, Growing, LogCovers, Covers
<1>14. CASE Write
  <2>1. Bounded'
    BY <1>14 DEF Write, SafeInv, Bounded, AtMost
  <2>2. \A r \in Rows : Applied'[r] = IF wal[r] # 0 THEN wal[r] ELSE data[r]
    BY <1>14 DEF Write, Applied
  <2>3. LogCovers /\ Covers(data) => Covers(Applied)'
    BY <1>14, <2>2, <1>0, AppliedRows DEF Write, LogCovers, Covers
  <2> QED BY <1>14, <2>1, <2>3 DEF Write, SafeInv, Growing, LogCovers
<1>15. CASE WriteFails
  BY <1>15, <1>r, SafeFrame DEF WriteFails
<1>16. CASE InitDb
  <2>1. CASE pc' = "down" /\ UNCHANGED <<disk, blind, mixed>>
    BY <1>16, <1>r, <2>1, SafeFrame DEF InitDb
  <2>2. CASE Opens
    <3>1. Applied' = Applied /\ main' = Applied /\ wal' = NoLog
      BY <2>2, AppliedType DEF Opens, TypeOK, Applied, NoLog, Fresh, Content
    <3>2. UNCHANGED <<remote, uploads, data, changes, shifted>> /\ pc' = "up"
      BY <1>16, <2>2 DEF InitDb, Opens
    <3>3. Bounded'
      BY <3>1, <3>2, AppliedRows DEF SafeInv, Bounded, AtMost, NoLog, Fresh
    <3>4. LogCovers'
      BY <3>1 DEF LogCovers, NoLog, Fresh
    <3>5. ASSUME ~shifted, ~blind' PROVE Covers(Applied)' /\ ~blind
      <4>1. ~blind /\ (file = "whole" \/ DOMAIN remote = {})
        BY <2>2, <3>5 DEF Opens, TypeOK
      <4>2. CASE file = "whole"
        BY <3>1, <3>2, <3>5, <4>1, <4>2 DEF SafeInv, Covers
      <4>3. CASE DOMAIN remote = {}
        <5>1. Len(uploads) = 0
          BY <3>5, <4>3, NothingUploaded
        <5> QED BY <3>2, <4>1, <5>1 DEF Covers
      <4> QED BY <4>1, <4>2, <4>3
    <3> QED BY <3>2, <3>3, <3>4, <3>5 DEF SafeInv, Growing
  <2> QED BY <1>16, <2>1, <2>2 DEF InitDb
<1>17. CASE Crash
  <2>1. CASE UNCHANGED disk
    BY <1>17, <1>r, <2>1, SafeFrame DEF Crash
  <2>2. CASE file' = "absent" /\ main' = Fresh /\ wal' = NoLog
    <3>1. Bounded'
      BY <1>17, <2>2, AppliedRows DEF Crash, SafeInv, Bounded, AtMost, NoLog, Fresh
    <3>2. LogCovers'
      BY <2>2 DEF LogCovers, NoLog, Fresh
    <3> QED BY <1>17, <2>2, <3>1, <3>2 DEF Crash, SafeInv, Growing
  <2> QED BY <1>17, <2>1, <2>2 DEF Crash
<1>18. CASE SetBack
  <2>1. Bounded' /\ Applied' = Applied
    BY <1>18 DEF SetBack, SafeInv, Bounded, AtMost, Applied
  <2> QED BY <1>18, <2>1 DEF SetBack, SafeInv
<1>19. CASE UNCHANGED vars
  <2>1. Applied' = Applied
    BY <1>19 DEF vars, Applied
  <2> QED BY <1>19, <2>1 DEF vars, SafeInv, Bounded, AtMost, Growing, LogCovers, Covers
<1> QED BY <1>1, <1>2, <1>3, <1>4, <1>5, <1>6, <1>7, <1>8, <1>9, <1>10, <1>11, <1>12, <1>13, <1>14, <1>15, <1>16, <1>17, <1>18, <1>19 DEF Next

\* No restart loses a change that was uploaded, as long as the clock runs
\* forward and no start meets an empty disk after its restore failed.
THEOREM UploadsSurvive == Spec => []UploadedSurvives
<1>1. Init => TypeOK /\ KeptInv /\ SafeInv
  BY InitType, InitKept, InitSafe
<1>2. TypeOK /\ KeptInv /\ SafeInv /\ [Next]_vars => TypeOK' /\ KeptInv' /\ SafeInv'
  BY NextType, NextKept, NextSafe
<1>3. TypeOK /\ KeptInv /\ SafeInv => UploadedSurvives
  BY NamesTyped DEF TypeOK, KeptInv, SafeInv, UploadedSurvives, Covers
<1> QED BY <1>1, <1>2, <1>3, PTL DEF Spec
==============================================================================
