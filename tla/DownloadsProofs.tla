--------------------------- MODULE DownloadsProofs ---------------------------
(***************************************************************************)
(* Theorems about Downloads for any number of workers, users, permits and  *)
(* files: type correctness, the balance of both kinds of permits, one      *)
(* download per user, no stranded handler, and the daily quota.            *)
(*                                                                         *)
(* Kept states what every step of a worker does: it keeps the types        *)
(* (TypeInv), moves permits as it moves between the places that hold one   *)
(* (Balanced), and moves through the semaphores' queues and the active     *)
(* list in one of a few ways (Tracks).  The theorems on permits, queues    *)
(* and the active list follow from Kept, without a look at the actions;    *)
(* the quota adds what a step does to a user's account of the day          *)
(* (Accounts).                                                             *)
(***************************************************************************)
EXTENDS Downloads, FiniteSetTheorems, SequenceTheorems, TLAPS

(***************************************************************************)
(* What the operators of asyncio.Semaphore preserve: the type of its       *)
(* state, the absence of lost wake-ups, and the number of permits that are *)
(* free or on their way to a woken task (Supply).                          *)
(***************************************************************************)
\* The permits no task holds.
Supply(s) == s.value + s.woken

\* The facts every operator below is to preserve.
Sound(s, T) == s \in SemaphoreOf(T) /\ NoLostWakeUp(s)

\* A new semaphore is sound and supplies all its permits.
LEMMA FreshSound ==
    ASSUME NEW T, NEW n \in Nat
    PROVE  Sound(Fresh(n), T) /\ Supply(Fresh(n)) = n
  BY EmptySeq DEF Sound, Fresh, Supply, SemaphoreOf, NoLostWakeUp, HasSleeper

\* A task that takes a permit of an unlocked semaphore lowers the supply by one.
LEMMA TakePermitSound ==
    ASSUME NEW T, NEW s, Sound(s, T), ~Locked(s)
    PROVE  Sound(TakePermit(s), T) /\ Supply(TakePermit(s)) = Supply(s) - 1
  BY EmptySeq DEF Sound, TakePermit, Supply, SemaphoreOf, NoLostWakeUp, HasSleeper, Locked

\* A task that queues up leaves the supply alone; if a permit is free then,
\* an earlier waiter has been woken already.
LEMMA EnqueueSound ==
    ASSUME NEW T, NEW s, Sound(s, T), Locked(s), NEW w \in T
    PROVE  Sound(Enqueue(s, w), T) /\ Supply(Enqueue(s, w)) = Supply(s)
  <1> DEFINE q == Append(s.waiters, w)
  <1>1. s.waiters \in Seq(T) /\ s.value \in Nat /\ s.woken \in Nat
    BY DEF Sound, SemaphoreOf
  <1>2. q \in Seq(T) /\ Len(q) = Len(s.waiters) + 1 /\ Len(s.waiters) \in Nat
    BY <1>1, LenProperties, AppendProperties
  <1>3. s.waiters # <<>> => Len(s.waiters) \in Nat \ {0}
    BY <1>1, EmptySeq
  <1>4. /\ Enqueue(s, w).value = s.value
        /\ Enqueue(s, w).waiters = q
        /\ Enqueue(s, w).woken = s.woken
        /\ Enqueue(s, w) \in SemaphoreOf(T)
    BY <1>1, <1>2 DEF Enqueue, Sound, SemaphoreOf
  <1> HIDE DEF q
  <1> QED
    BY <1>1, <1>2, <1>3, <1>4 DEF Sound, Supply, NoLostWakeUp, HasSleeper, Locked

\* Waking a sleeper moves one permit from the counter to the woken task.
LEMMA WakeUpNextSound ==
    ASSUME NEW T, NEW s \in SemaphoreOf(T), s.value > 0, s.woken <= Len(s.waiters)
    PROVE  Sound(WakeUpNext(s), T) /\ Supply(WakeUpNext(s)) = Supply(s)
  <1>1. s.waiters \in Seq(T) /\ s.value \in Nat /\ s.woken \in Nat
    BY DEF SemaphoreOf
  <1>2. Len(s.waiters) \in Nat
    BY <1>1, LenProperties
  <1>3. CASE HasSleeper(s)
    <2> DEFINE r == [s EXCEPT !.value = @ - 1, !.woken = @ + 1]
    <2>1. WakeUpNext(s) = r
      BY <1>3 DEF WakeUpNext
    <2>2. s.value - 1 \in Nat /\ s.woken + 1 \in Nat
      BY <1>1
    <2>3. /\ r \in SemaphoreOf(T)
          /\ r.value = s.value - 1 /\ r.woken = s.woken + 1 /\ r.waiters = s.waiters
      BY <1>1, <2>2 DEF SemaphoreOf
    <2>4. s.woken < Len(s.waiters)
      BY <1>3 DEF HasSleeper
    <2> HIDE DEF r
    <2> QED BY <1>1, <1>2, <2>1, <2>3, <2>4 DEF Sound, Supply, NoLostWakeUp
  <1>4. CASE ~HasSleeper(s)
    BY <1>1, <1>2, <1>4 DEF Sound, WakeUpNext, Supply, NoLostWakeUp, HasSleeper
  <1> QED BY <1>3, <1>4

\* A release raises the supply by one.
LEMMA ReleaseSound ==
    ASSUME NEW T, NEW s, Sound(s, T)
    PROVE  Sound(Release(s), T) /\ Supply(Release(s)) = Supply(s) + 1
  <1> DEFINE r == [s EXCEPT !.value = @ + 1]
  <1>1. r \in SemaphoreOf(T) /\ r.value > 0 /\ r.woken <= Len(r.waiters)
        /\ Supply(r) = Supply(s) + 1
    BY DEF Sound, SemaphoreOf, NoLostWakeUp, Supply
  <1>2. Sound(WakeUpNext(r), T) /\ Supply(WakeUpNext(r)) = Supply(r)
    BY <1>1, WakeUpNextSound
  <1> QED
    BY <1>1, <1>2 DEF Release

\* A woken task that resumes takes the permit reserved for it, and passes a
\* free one on.
LEMMA ResumeSound ==
    ASSUME NEW T, NEW s, Sound(s, T), NEW w, CanResume(s, w)
    PROVE  Sound(Resume(s), T) /\ Supply(Resume(s)) = Supply(s) - 1
  <1> DEFINE r == [s EXCEPT !.waiters = Tail(@), !.woken = @ - 1]
  <1>1. s \in SemaphoreOf(T) /\ s.waiters \in Seq(T) /\ s.waiters # <<>> /\ s.woken > 0
        /\ s.woken <= Len(s.waiters)
    BY DEF Sound, SemaphoreOf, CanResume, NoLostWakeUp
  <1>2. Tail(s.waiters) \in Seq(T) /\ Len(Tail(s.waiters)) = Len(s.waiters) - 1
    BY <1>1, HeadTailProperties
  <1>3. Len(s.waiters) \in Nat
    BY <1>1, LenProperties
  <1>4. r \in SemaphoreOf(T) /\ r.woken <= Len(r.waiters) /\ Supply(r) = Supply(s) - 1
    <2>1. /\ s.value \in Nat /\ s.woken \in Nat
          /\ r.value = s.value /\ r.woken = s.woken - 1 /\ r.waiters = Tail(s.waiters)
      BY <1>1 DEF SemaphoreOf
    <2>2. s.woken - 1 \in Nat
      BY <1>1, <2>1
    <2>3. r \in SemaphoreOf(T)
      BY <1>1, <1>2, <2>2 DEF SemaphoreOf
    <2> QED BY <1>1, <1>2, <1>3, <2>1, <2>3 DEF Supply
  <1>5. CASE r.value > 0
    <2>1. Resume(s) = WakeUpNext(r)
      BY <1>5 DEF Resume
    <2> QED BY <1>4, <1>5, <2>1, WakeUpNextSound
  <1>6. CASE ~(r.value > 0)
    <2>1. Resume(s) = r
      BY <1>6 DEF Resume
    <2> QED BY <1>4, <1>6, <2>1 DEF Sound, NoLostWakeUp
  <1> QED BY <1>5, <1>6

\* The queue of a semaphore changes by Enqueue and Resume only.
LEMMA ReleaseWaiters ==
    ASSUME NEW T, NEW s \in SemaphoreOf(T)
    PROVE  Release(s).waiters = s.waiters
  BY DEF Release, WakeUpNext, SemaphoreOf

LEMMA ResumeWaiters ==
    ASSUME NEW T, NEW s, Sound(s, T)
    PROVE  Resume(s).waiters = Tail(s.waiters)
  BY DEF Resume, WakeUpNext, Sound, SemaphoreOf

(***************************************************************************)
(* The database functions keep a row well formed and never lose it.        *)
(***************************************************************************)
MaybeRow == Row \cup {NoRow}

\* A fresh row is a row.
LEMMA NewRowType ==
    ASSUME NEW today \in Nat
    PROVE  NewRow(today) \in Row
  BY DEF NewRow, Row, Roles

\* set_user_role keeps rows rows and missing rows missing.
LEMMA SetUserRoleType ==
    ASSUME NEW row \in MaybeRow, NEW role \in Roles, NEW expiry \in Nat
    PROVE  /\ SetUserRole(row, role, expiry) \in MaybeRow
           /\ row # NoRow => SetUserRole(row, role, expiry) \in Row
  BY NoRowAssumption DEF MaybeRow, SetUserRole, Update, Row

\* get_user returns a row whenever there is one.
LEMMA GetUserType ==
    ASSUME NEW row \in MaybeRow, NEW isOwner \in BOOLEAN, NEW today \in Nat
    PROVE  /\ GetUser(row, isOwner, today) \in MaybeRow
           /\ row # NoRow => GetUser(row, isOwner, today) \in Row
  <1>1. "owner" \in Roles /\ 0 \in Nat
    BY DEF Roles
  <1>2. CASE row = NoRow
    <2>1. NewRow(today) \in Row /\ NewRow(today) # NoRow
      BY NewRowType, NoRowAssumption
    <2>2. SetUserRole(NewRow(today), "owner", 0) \in MaybeRow
      BY <1>1, <2>1, SetUserRoleType DEF MaybeRow
    <2> QED BY <1>2, <2>2 DEF GetUser, MaybeRow
  <1>3. CASE row # NoRow
    <2>1. SetUserRole(row, "owner", 0) \in Row
      BY <1>1, <1>3, SetUserRoleType
    <2> QED BY <1>3, <2>1 DEF GetUser, MaybeRow
  <1> QED BY <1>2, <1>3

\* ... and leaves one, whether its role was saved or not.
LEMMA LeftType ==
    ASSUME NEW row \in MaybeRow, NEW isOwner \in BOOLEAN, NEW today \in Nat,
           NEW saved \in BOOLEAN
    PROVE  Left(row, isOwner, today, saved) \in MaybeRow
  <1>1. GetUser(row, isOwner, today) \in MaybeRow /\ NewRow(today) \in MaybeRow
    BY GetUserType, NewRowType DEF MaybeRow
  <1> QED BY <1>1 DEF Left

\* A role that is not saved leaves the stored one, and the counter alone.
LEMMA StoredType ==
    ASSUME NEW row \in Row, NEW left \in Row, NEW saved \in BOOLEAN
    PROVE  /\ Stored(row, left, saved) \in Row
           /\ Stored(row, left, saved).downloads_today = row.downloads_today
           /\ Stored(row, left, saved).last_download_date = row.last_download_date
  <1> DEFINE kept == [row EXCEPT !.role = left.role,
                                 !.premium_expiry_date = left.premium_expiry_date]
  <1>1. kept \in Row
    BY DEF Row
  <1>2. kept.downloads_today = row.downloads_today
        /\ kept.last_download_date = row.last_download_date
    BY DEF Row
  <1>3. Stored(row, left, saved) \in {row, kept}
    BY DEF Stored
  <1> HIDE DEF kept
  <1> QED BY <1>1, <1>2, <1>3

\* The row that get_user leaves is there when the one it returns is.
LEMMA LeftRow ==
    ASSUME NEW row \in MaybeRow, NEW isOwner \in BOOLEAN, NEW today \in Nat,
           NEW saved \in BOOLEAN, GetUser(row, isOwner, today) # NoRow
    PROVE  Left(row, isOwner, today, saved) \in Row
  <1>1. GetUser(row, isOwner, today) \in Row /\ NewRow(today) \in Row
    BY GetUserType, NewRowType DEF MaybeRow
  <1>2. row = NoRow => isOwner
    BY DEF GetUser
  <1> QED BY <1>1, <1>2 DEF Left, MaybeRow

\* check_and_update_quota leaves a row whenever there was one.
LEMMA CheckQuotaType ==
    ASSUME NEW row \in MaybeRow, NEW isOwner \in BOOLEAN, NEW today \in Nat,
           NEW saved \in BOOLEAN, NEW reset \in BOOLEAN
    PROVE  CheckQuota(row, isOwner, today, saved, reset).row \in MaybeRow
  <1> DEFINE user == GetUser(row, isOwner, today)
             left == Left(row, isOwner, today, saved)
             paid == Demoted(user, today)
  <1>1. user \in MaybeRow /\ left \in MaybeRow
    BY GetUserType, LeftType
  <1>2. CASE user = NoRow \/ user.is_banned
    BY <1>1, <1>2 DEF CheckQuota
  <1>3. CASE ~(user = NoRow \/ user.is_banned)
    <2>1. user \in Row /\ left \in Row
      BY <1>1, <1>3, LeftRow DEF MaybeRow
    <2>2. "free" \in Roles /\ 0 \in Nat
      BY DEF Roles
    <2>3. SetUserRole(user, "free", 0) \in Row
      BY <1>1, <1>3, <2>2, SetUserRoleType
    <2>4. CheckQuota(row, isOwner, today, saved, reset).row
            \in {Stored(paid, left, saved), Stored(Rolled(paid, today), left, saved)}
      BY <1>3 DEF CheckQuota
    <2> HIDE DEF user, left
    <2>5. paid \in Row
      BY <2>1, <2>3 DEF Demoted
    <2> HIDE DEF paid
    <2>6. [paid EXCEPT !.downloads_today = 0, !.last_download_date = today] \in Row
      BY <2>5 DEF Row
    <2>7. Rolled(paid, today) \in Row
      BY <2>5, <2>6 DEF Rolled
    <2>8. Stored(paid, left, saved) \in Row /\ Stored(Rolled(paid, today), left, saved) \in Row
      BY <2>1, <2>5, <2>7, StoredType
    <2> QED BY <2>4, <2>8 DEF MaybeRow
  <1> QED BY <1>2, <1>3

\* The plain updates.
LEMMA UpdatesType ==
    ASSUME NEW row \in MaybeRow, NEW n \in Nat, NEW b \in BOOLEAN
    PROVE  /\ IncrementQuota(row, n) \in MaybeRow
           /\ UpdateLastDownload(row) \in MaybeRow
           /\ BanUser(row, b) \in MaybeRow
  <1>1. CASE row = NoRow
    BY <1>1 DEF MaybeRow, IncrementQuota, UpdateLastDownload, BanUser, Update
  <1>2. CASE row # NoRow
    <2>1. row \in Row
      BY <1>2 DEF MaybeRow
    <2>2. [row EXCEPT !.downloads_today = @ + n] \in Row
      BY <2>1 DEF Row
    <2>3. [row EXCEPT !.cooling = TRUE] \in Row
      BY <2>1 DEF Row
    <2>4. [row EXCEPT !.is_banned = b] \in Row
      BY <2>1 DEF Row
    <2> QED
      BY <1>2, <2>2, <2>3, <2>4 DEF MaybeRow, IncrementQuota, UpdateLastDownload, BanUser, Update
  <1> QED BY <1>1, <1>2

\* get_remaining_quota returns a flag and a number.
LEMMA RemainingType ==
    ASSUME NEW row \in MaybeRow, NEW today \in Nat
    PROVE  /\ Remaining(row, today).unlimited \in BOOLEAN
           /\ Remaining(row, today).left \in Nat
  <1>1. CASE row = NoRow
    BY <1>1 DEF Remaining
  <1>2. CASE row # NoRow
    <2>1. row \in Row
      BY <1>2 DEF MaybeRow
    <2>2. UsedToday(row, today) \in Nat
      BY <2>1 DEF UsedToday, Row
    <2> QED BY <1>2, <2>2, DailyLimitAssumption DEF Remaining
  <1> QED BY <1>1, <1>2

(***************************************************************************)
(* Types and wake-ups.                                                     *)
(***************************************************************************)
\* The awaits inside the loop over the files.
InLoop == {"text", "copy", "download", "upwait", "upload", "dump"}

\* Where a handler holds a download permit, no upload permit, and no place
\* in the queue for one.
Quiet == Held \ {"upload", "upwait"}

\* A handler inside the loop still has the current file to do.
ItemLeft == \A w \in Workers : pc[w] \in InLoop => job[w].left > 0

\* Types alone are not inductive: a woken waiter that resumes decrements
\* `woken', so the proof needs that the woken ones are among the waiters;
\* and a handler done with a file decrements `left'.
TypeInv ==
    /\ TypeOK
    /\ ItemLeft
    /\ NoLostWakeUp(global_download_semaphore)
    /\ NoLostWakeUp(global_upload_semaphore)

\* The parts of TypeInv by variable, for the steps that leave some alone.
LEMMA TypeInvSound ==
    ASSUME TypeInv
    PROVE  /\ Sound(global_download_semaphore, Workers)
           /\ Sound(global_upload_semaphore, Workers)
  BY DEF TypeInv, TypeOK, Sound

\* The locals of an idle worker, and of a new download, have their type.
LEMMA NewJobType ==
    ASSUME NEW c, c.user \in Users, c.link \in Links
    PROVE  NewJob(c) \in Job
  BY DEF NewJob, Job

LEMMA NoJobType == NoJob \in Job
  <1> DEFINE u == CHOOSE x \in Users : TRUE
             c == [user |-> u, link |-> "invalid"]
  <1>1. u \in Users
    BY UsersAssumption
  <1>2. c.user \in Users /\ c.link \in Links
    BY <1>1 DEF Links
  <1> HIDE DEF c
  <1>3. NewJob(c) \in Job
    BY <1>2, NewJobType
  <1> QED BY <1>3 DEF NoJob, c

\* get_user leaves a table of rows.
LEMMA ReadType ==
    ASSUME TypeOK, NEW u \in Users, NEW ok \in BOOLEAN, NEW saved \in BOOLEAN
    PROVE  /\ Read(u, ok) \in MaybeRow
           /\ AfterRead(u, ok, saved) \in Table(Users)
  <1>1. rows[u] \in MaybeRow /\ day \in Nat /\ (u = Owner) \in BOOLEAN
    BY DEF TypeOK, Table, MaybeRow
  <1>2. GetUser(rows[u], u = Owner, day) \in MaybeRow
    BY <1>1, GetUserType
  <1>3. Read(u, ok) \in MaybeRow
    BY <1>2 DEF Read, MaybeRow
  <1>4. Left(rows[u], u = Owner, day, saved) \in MaybeRow
    BY <1>1, LeftType
  <1>5. AfterRead(u, ok, saved) \in Table(Users)
    BY <1>4 DEF AfterRead, TypeOK, Table, MaybeRow
  <1> QED BY <1>3, <1>5

\* The worker w goes to a location of L with locals i.
Moves(w, l, i) ==
    /\ Goto(w, l) /\ SetJob(w, i)
    /\ l \in Locations /\ i \in Job
    /\ l \in InLoop => i.left > 0

\* ... and it does so within the handler of the same user.
Advances(w, L) == \E l \in L, i \in Job : Moves(w, l, i) /\ i.user = job[w].user

LEMMA MovesType ==
    ASSUME TypeInv, NEW w \in Workers, NEW l, NEW i, Moves(w, l, i)
    PROVE  /\ pc' \in [Workers -> Locations]
           /\ job' \in [Workers -> Job]
           /\ ItemLeft'
  <1>1. pc' \in [Workers -> Locations] /\ job' \in [Workers -> Job]
    BY DEF TypeInv, TypeOK, Moves, Goto, SetJob
  <1>2. ASSUME NEW v \in Workers, pc'[v] \in InLoop
        PROVE  job'[v].left > 0
    <2>1. CASE v = w
      BY <1>2, <2>1 DEF TypeInv, TypeOK, Moves, Goto, SetJob
    <2>2. CASE v # w
      BY <1>2, <2>2 DEF TypeInv, TypeOK, ItemLeft, Moves, Goto, SetJob
    <2> QED BY <2>1, <2>2
  <1> QED BY <1>1, <1>2 DEF ItemLeft

LEMMA AdvancesType ==
    ASSUME TypeInv, NEW w \in Workers, NEW L, Advances(w, L)
    PROVE  /\ pc' \in [Workers -> Locations]
           /\ job' \in [Workers -> Job]
           /\ ItemLeft'
  BY MovesType DEF Advances

\* A step that leaves the locals alone and stays out of the loop.
LEMMA StaysOut ==
    ASSUME TypeInv, NEW w \in Workers, NEW L, L \subseteq Locations \ InLoop,
           UNCHANGED job, \E l \in L : Goto(w, l)
    PROVE  Advances(w, L)
  <1>1. job[w] \in Job /\ SetJob(w, job[w])
    BY DEF TypeInv, TypeOK, SetJob
  <1> QED BY <1>1 DEF Advances, Moves

\* The login gate leads on while the permit is held.
LEMMA GateHeld ==
    ASSUME NEW user, NEW link, NEW isGroup
    PROVE  Gate(user, link, isGroup) \in Quiet \ InLoop
  BY DEF Gate, Held, InLoop, Quiet

\* A worker that enters the `try' holds the permit.
LEMMA EnterType ==
    ASSUME TypeInv, NEW w \in Workers, Enter(w), UNCHANGED job
    PROVE  /\ rows' \in Table(Users)
           /\ Advances(w, Quiet)
  <1>1. Quiet \ InLoop \subseteq Locations \ InLoop
    BY DEF Locations, Quiet
  <1>2. Advances(w, Quiet \ InLoop) => Advances(w, Quiet)
    BY DEF Advances
  <1>3. CASE job[w].link = "public"
    <2>1. rows' \in Table(Users)
      BY <1>3 DEF Enter, TypeInv, TypeOK
    <2>2. \E l \in Quiet \ InLoop : Goto(w, l)
      BY <1>3 DEF Enter, Held, InLoop, Quiet
    <2> QED BY <1>1, <1>2, <2>1, <2>2, StaysOut
  <1>4. CASE job[w].link # "public"
    <2>1. PICK ok \in DbOutcomes, saved \in DbOutcomes :
            /\ Goto(w, Gate(Read(job[w].user, ok), job[w].link, FALSE))
            /\ rows' = AfterRead(job[w].user, ok, saved)
      BY <1>4 DEF Enter
    <2>2. job[w].user \in Users /\ ok \in BOOLEAN /\ saved \in BOOLEAN
      BY LimitsAssumption DEF TypeInv, TypeOK, Job
    <2>3. rows' \in Table(Users)
      BY <2>1, <2>2, ReadType DEF TypeInv
    <2>4. \E l \in Quiet \ InLoop : Goto(w, l)
      BY <2>1, GateHeld
    <2> QED BY <1>1, <1>2, <2>3, <2>4, StaysOut
  <1> QED BY <1>3, <1>4

\* Charging a download keeps the table and the history well formed.
LEMMA ChargeType ==
    ASSUME TypeOK, NEW w \in Workers, NEW j \in Job, NEW table \in Table(Users),
           Charge(w, j, table)
    PROVE  /\ rows' \in Table(Users)
           /\ ledger' \in History
           /\ ledger'.surplus = ledger.surplus
           /\ ledger'.cancelled = ledger.cancelled
  <1>1. /\ j.user \in Users /\ j.count \in Nat /\ Metered(j, j.count) \in Nat
        /\ ledger \in History /\ table \in [Users -> MaybeRow]
    BY DEF Job, Metered, TypeOK, Table, MaybeRow
  <1>2. IncrementQuota(table[j.user], j.count) \in MaybeRow
    BY <1>1, UpdatesType
  <1>3. rows' \in Table(Users)
    BY <1>1, <1>2 DEF Charge, Table, MaybeRow
  <1>4. /\ Lost(ledger, j.user, Metered(j, j.count)) \in History
        /\ Lost(ledger, j.user, Metered(j, j.count)).surplus = ledger.surplus
        /\ Lost(ledger, j.user, Metered(j, j.count)).cancelled = ledger.cancelled
    BY <1>1 DEF Lost, History
  <1>5. ledger' \in {ledger, Lost(ledger, j.user, Metered(j, j.count))}
    BY DEF Charge
  <1> QED BY <1>1, <1>3, <1>4, <1>5

\* A worker that goes on to the next file, or past the last, keeps its
\* permit and its user.
LEMMA NextItemType ==
    ASSUME TypeInv, NEW w \in Workers, NEW j \in Job, j.user = job[w].user,
           NEW table \in Table(Users), NextItem(w, j, table)
    PROVE  /\ rows' \in Table(Users)
           /\ ledger' \in History
           /\ ledger'.surplus = ledger.surplus
           /\ ledger'.cancelled = ledger.cancelled
           /\ Advances(w, Quiet)
  <1> USE DEF TypeInv
  <1>1. CASE j.left > 0 /\ j.user \in flags
    <2>1. Goto(w, "cancelling") /\ SetJob(w, j) /\ rows' = table /\ UNCHANGED ledger
      BY <1>1 DEF NextItem
    <2>2. "cancelling" \in Quiet /\ "cancelling" \in Locations /\ "cancelling" \notin InLoop
      BY DEF Quiet, Held, Locations, InLoop
    <2> QED BY <2>1, <2>2 DEF TypeOK, Advances, Moves
  <1>2. CASE ~(j.left > 0 /\ j.user \in flags)
    <2>1. PICK k \in 0 .. j.left :
           /\ SetJob(w, [j EXCEPT !.left = @ - k])
           /\ IF k = j.left
              THEN Charge(w, j, table) /\ Goto(w, "report")
              ELSE /\ \/ Goto(w, "text")
                      \/ Goto(w, IF j.direct THEN "copy" ELSE "download")
                   /\ rows' = table
                   /\ UNCHANGED ledger
      BY <1>2 DEF NextItem
    <2> DEFINE i == [j EXCEPT !.left = @ - k]
    <2>2. j.left \in Nat /\ j.left - k \in Nat
      BY DEF Job
    <2>3. i \in Job /\ i.user = job[w].user /\ i.left = j.left - k
      BY <2>2 DEF Job
    <2> HIDE DEF i
    <2>4. CASE k = j.left
      <3>1. Charge(w, j, table) /\ Goto(w, "report") /\ SetJob(w, i)
        BY <2>1, <2>4 DEF i
      <3>2. "report" \in Quiet /\ "report" \in Locations /\ "report" \notin InLoop
        BY DEF Quiet, Held, Locations, InLoop
      <3>3. Advances(w, Quiet)
        BY <2>3, <3>1, <3>2 DEF Advances, Moves
      <3> QED BY <3>1, <3>3, ChargeType
    <2>5. CASE k # j.left
      <3>1. rows' = table /\ UNCHANGED ledger /\ SetJob(w, i)
        BY <2>1, <2>5 DEF i
      <3>2. PICK l \in {"text", "copy", "download"} : Goto(w, l)
        BY <2>1, <2>5
      <3>3. i.left > 0
        BY <2>2, <2>3, <2>5
      <3>4. l \in Quiet /\ l \in Locations
        BY DEF Quiet, Held, Locations
      <3>5. Advances(w, Quiet)
        BY <2>3, <3>1, <3>2, <3>3, <3>4 DEF Advances, Moves
      <3> QED BY <3>1, <3>5 DEF TypeOK
    <2> QED BY <2>4, <2>5
  <1> QED BY <1>1, <1>2

\* What a delivered file and an exception do to the table and the history.
LEMMA DeliverType ==
    ASSUME TypeOK, NEW w \in Workers, job[w].left > 0, NEW ok \in BOOLEAN,
           Deliver(w, ok)
    PROVE  /\ rows' \in Table(Users)
           /\ ledger' \in History
           /\ ledger'.surplus = ledger.surplus
           /\ ledger'.cancelled = ledger.cancelled
           /\ Advances(w, Quiet)
  <1> DEFINE j == job[w]
  <1>1. /\ j \in Job /\ j.user \in Users /\ j.count + 1 \in Nat /\ Metered(j, 1) \in Nat
        /\ ledger \in History /\ rows \in [Users -> MaybeRow]
    BY DEF Job, Metered, TypeOK, Table, MaybeRow
  <1>2. UpdateLastDownload(rows[j.user]) \in MaybeRow
    BY <1>1, UpdatesType
  <1>3. rows' \in Table(Users)
    BY <1>1, <1>2 DEF Deliver, Table, MaybeRow
  <1>4. /\ ledger' \in History
        /\ ledger'.surplus = ledger.surplus
        /\ ledger'.cancelled = ledger.cancelled
    BY <1>1 DEF Deliver, History
  <1> DEFINE i == [j EXCEPT !.count = @ + 1]
  <1>5. i \in Job /\ i.user = j.user /\ i.left > 0
    BY <1>1 DEF Job
  <1>6. SetJob(w, i) /\ Goto(w, "dump") /\ "dump" \in Quiet /\ "dump" \in Locations
    BY DEF Deliver, Quiet, Held, Locations
  <1> HIDE DEF i
  <1>7. Advances(w, Quiet)
    BY <1>5, <1>6 DEF Advances, Moves
  <1> QED BY <1>3, <1>4, <1>7

LEMMA AbortType ==
    ASSUME TypeOK, NEW w \in Workers, Abort(w)
    PROVE  /\ ledger' \in History
           /\ ledger'.surplus = ledger.surplus
           /\ ledger'.cancelled = ledger.cancelled
           /\ Goto(w, "report")
           /\ UNCHANGED <<job, rows>>
  <1>1. job[w].user \in Users /\ Metered(job[w], job[w].count) \in Nat /\ ledger \in History
    BY DEF Job, Metered, TypeOK
  <1> QED BY <1>1 DEF Abort, Lost, History

\* The item a worker is done with is no longer among those left to do.
LEMMA DoneType ==
    ASSUME TypeOK, NEW w \in Workers, job[w].left > 0
    PROVE  Done(job[w]) \in Job /\ Done(job[w]).user = job[w].user
  <1>1. job[w] \in Job /\ job[w].left - 1 \in Nat
    BY DEF TypeOK, Job
  <1> QED BY <1>1 DEF Done, Job

(***************************************************************************)
(* What a step of w that takes it to l does to the queues of the two       *)
(* semaphores and to the active list.                                      *)
(***************************************************************************)
\* The queue q of the handlers at loc becomes r: w keeps out of it, joins
\* it, or leaves it as its head.
Place(w, l, q, r, loc) ==
    \/ r = q /\ pc[w] # loc /\ l # loc
    \/ r = Append(q, w) /\ pc[w] # loc /\ l = loc
    \/ q # <<>> /\ w = Head(q) /\ r = Tail(q) /\ pc[w] = loc /\ l # loc

Queues(w, l) ==
    /\ Place(w, l, global_download_semaphore.waiters,
                   global_download_semaphore'.waiters, "waiting")
    /\ Place(w, l, global_upload_semaphore.waiters,
                   global_upload_semaphore'.waiters, "upwait")

Flying == Admitted \cup Held

SameUser(v) == job'[v].user = job[v].user

\* The handler goes on or stays out; it is admitted; it ends and takes its
\* user off the list; or it is a /cancel or /killall of the users S.
Roster(w, l) ==
    /\ \A v \in Workers \ {w} : SameUser(v)
    /\ \/ /\ l \in Flying => InFlight(w) /\ SameUser(w)
          /\ active' = active
          /\ ledger'.cancelled = ledger.cancelled
       \/ /\ l = "announce" /\ SameUser(w)
          /\ job[w].user \notin active
          /\ active' = active \cup {job[w].user}
          /\ ledger'.cancelled = ledger.cancelled
       \/ /\ InFlight(w) /\ l \notin Flying
          /\ active' = active \ {job[w].user}
          /\ ledger'.cancelled = ledger.cancelled
       \/ /\ l \notin Flying
          /\ \E S \in SUBSET Users :
               /\ active' = active \ S
               /\ ledger'.cancelled = ledger.cancelled \cup S

Tracks(w) == \E l \in Locations : Goto(w, l) /\ Queues(w, l) /\ Roster(w, l)

\* A step that leaves both semaphores alone and moves between places that
\* have no queue.
LEMMA QueuesAlone ==
    ASSUME NEW w \in Workers, NEW l, UNCHANGED sems,
           {pc[w], l} \cap {"waiting", "upwait"} = {}
    PROVE  Queues(w, l)
  BY DEF Queues, Place, sems

\* A step that leaves the active list alone and admits nobody.
LEMMA RosterAlone ==
    ASSUME TypeInv, NEW w \in Workers, NEW l, NEW i, SetJob(w, i),
           l \in Flying => InFlight(w) /\ i.user = job[w].user,
           active' = active, ledger'.cancelled = ledger.cancelled
    PROVE  Roster(w, l)
  BY DEF Roster, SameUser, SetJob, TypeInv, TypeOK

\* A handler that goes on inside the `try' without touching a semaphore.
LEMMA TracksAdvance ==
    ASSUME TypeInv, NEW w \in Workers, Advances(w, Quiet), pc[w] \in Quiet,
           UNCHANGED <<sems, active>>, ledger'.cancelled = ledger.cancelled
    PROVE  Tracks(w)
  <1>1. PICK l \in Quiet, i \in Job : Moves(w, l, i) /\ i.user = job[w].user
    BY DEF Advances
  <1>2. {pc[w], l} \cap {"waiting", "upwait"} = {}
    BY DEF Quiet, Held
  <1>3. Queues(w, l)
    BY <1>2, QueuesAlone
  <1>4. InFlight(w)
    BY DEF InFlight, Quiet
  <1>5. Roster(w, l)
    BY <1>1, <1>4, RosterAlone DEF Moves
  <1> QED BY <1>1, <1>3, <1>5 DEF Tracks, Moves

-----------------------------------------------------------------------------
(***************************************************************************)
(* The permit a step of w takes from or gives to a semaphore is the one    *)
(* that w starts or stops to hold, but for the surplus.                    *)
(***************************************************************************)
One(loc, L) == IF loc \in L THEN 1 ELSE 0

Balanced(w) ==
    \E l \in Locations :
      /\ Goto(w, l)
      /\ Supply(global_download_semaphore') + One(l, Held) + ledger.surplus
           = Supply(global_download_semaphore) + One(pc[w], Held) + ledger'.surplus
      /\ Supply(global_upload_semaphore') + One(l, {"upload"})
           = Supply(global_upload_semaphore) + One(pc[w], {"upload"})

\* What a step must establish of the parts that are not the worker's own.
SharedType ==
    /\ updates \in Seq(Command) /\ sent \in Nat
    /\ active \subseteq Users /\ flags \subseteq Users
    /\ Sound(global_download_semaphore, Workers)
    /\ Sound(global_upload_semaphore, Workers)
    /\ rows \in Table(Users) /\ day \in Nat \ {0} /\ ledger \in History

LEMMA SharedTypeOf ==
    ASSUME TypeInv
    PROVE  SharedType
  BY DEF TypeInv, TypeOK, SharedType, Sound

LEMMA TypeInvOf ==
    ASSUME SharedType', pc' \in [Workers -> Locations], job' \in [Workers -> Job], ItemLeft'
    PROVE  TypeInv'
  BY DEF TypeInv, TypeOK, SharedType, Sound

\* Supplies are numbers, so they can be compared and cancelled.
LEMMA SupplyType ==
    ASSUME NEW T, NEW s, Sound(s, T)
    PROVE  Supply(s) \in Nat
  BY DEF Sound, SemaphoreOf, Supply

\* A step that touches neither semaphore nor the surplus, and neither
\* starts nor stops holding a permit.
LEMMA BalancedQuiet ==
    ASSUME TypeInv, NEW w \in Workers, NEW l \in Locations, Goto(w, l),
           UNCHANGED sems, ledger'.surplus = ledger.surplus,
           l \in Held <=> pc[w] \in Held,
           l = "upload" <=> pc[w] = "upload"
    PROVE  Balanced(w)
  BY DEF Balanced, One, sems

LEMMA BalancedAdvance ==
    ASSUME TypeInv, NEW w \in Workers, Advances(w, Quiet), pc[w] \in Quiet,
           UNCHANGED sems, ledger'.surplus = ledger.surplus
    PROVE  Balanced(w)
  BY BalancedQuiet DEF Advances, Moves, Quiet

\* Every step of a worker keeps the types and the balance, and treats the
\* queues and the active list as stated.
Kept(w) == TypeInv' /\ Balanced(w) /\ Tracks(w)

\* Before the permit: nothing is held, and neither semaphore is touched.
LEMMA KeptOutside ==
    ASSUME TypeInv, NEW w \in Workers, SharedType', UNCHANGED sems,
           ledger'.surplus = ledger.surplus,
           pc[w] \notin Held \cup {"waiting"},
           NEW l \in Locations \ (Held \cup {"waiting"}),
           NEW i \in Job, Goto(w, l), SetJob(w, i), Roster(w, l)
    PROVE  Kept(w)
  <1>1. Moves(w, l, i)
    BY DEF Moves, InLoop, Held
  <1>2. TypeInv'
    BY <1>1, MovesType, TypeInvOf
  <1>3. Balanced(w)
    BY BalancedQuiet DEF Held
  <1>4. Tracks(w)
    BY QueuesAlone DEF Tracks, Held
  <1> QED BY <1>2, <1>3, <1>4 DEF Kept

\* With the permit, without touching a semaphore.
LEMMA KeptInside ==
    ASSUME TypeInv, NEW w \in Workers, SharedType', UNCHANGED <<sems, active>>,
           ledger'.surplus = ledger.surplus, ledger'.cancelled = ledger.cancelled,
           pc[w] \in Quiet, Advances(w, Quiet)
    PROVE  Kept(w)
  BY AdvancesType, TypeInvOf, BalancedAdvance, TracksAdvance DEF Kept

\* The head of the queue is an update; taking it leaves updates.
LEMMA TakeType ==
    ASSUME TypeInv, NEW w, NEW cmd, Take(w, cmd)
    PROVE  Head(updates) \in Command /\ updates' \in Seq(Command)
  BY HeadTailProperties DEF TypeInv, TypeOK, Take

\* The commands that change shared state in one go.
LEMMA CommandsKept ==
    ASSUME TypeInv, NEW w \in Workers,
           Cancel(w) \/ KillAll(w) \/ SetRole(w) \/ Ban(w)
    PROVE  Kept(w)
  <1> USE SharedTypeOf DEF SharedType
  <1> DEFINE c == Head(updates)
  <1>a. /\ pc[w] = "idle" /\ Goto(w, "reply") /\ c \in Command
        /\ updates' \in Seq(Command) /\ UNCHANGED <<sent, sems, day>>
    BY TakeType DEF Cancel, KillAll, SetRole, Ban, Take
  <1>b. c.user \in Users /\ c.role \in Roles /\ c.days \in Nat
    BY <1>a DEF Command
  <1>c. UNCHANGED <<global_download_semaphore, global_upload_semaphore>>
    BY <1>a DEF sems
  <1>d. /\ "reply" \in Locations \ (Held \cup {"waiting"}) /\ "reply" \notin InLoop
        /\ pc[w] \notin Held \cup {"waiting", "upwait"}
    BY <1>a DEF Locations, Held, InLoop
  <1>e. "reply" \notin Flying /\ "reply" # "upwait"
    BY DEF Flying, Admitted, Held
  <1>1. ASSUME NEW S \in SUBSET Users, CancelAll(S), UNCHANGED rows
        PROVE  Kept(w)
    <2>1. /\ active' \subseteq Users /\ flags' \subseteq Users
          /\ ledger' \in History /\ ledger'.surplus = ledger.surplus
      BY <1>1 DEF CancelAll, History
    <2>2. SharedType'
      BY <1>a, <1>c, <1>1, <2>1
    <2>3. \A v \in Workers : job'[v] \in Job /\ job'[v].left = job[v].left
      BY <1>1 DEF CancelAll, TypeInv, TypeOK, Job
    <2>4. job' \in [Workers -> Job]
      BY <1>1, <2>3 DEF CancelAll
    <2>5. pc' \in [Workers -> Locations]
      BY <1>a, <1>d DEF Goto, TypeInv, TypeOK
    <2>6. ItemLeft'
      BY <1>a, <1>d, <2>3 DEF ItemLeft, Goto, TypeInv, TypeOK
    <2>7. TypeInv'
      BY <2>2, <2>4, <2>5, <2>6, TypeInvOf
    <2>8. Balanced(w)
      BY <1>a, <1>d, <2>1, BalancedQuiet DEF Held
    <2>9. \A v \in Workers : SameUser(v)
      BY <1>1 DEF CancelAll, SameUser, TypeInv, TypeOK, Job
    <2>10. active' = active \ S /\ ledger'.cancelled = ledger.cancelled \cup S
      BY <1>1 DEF CancelAll, History
    <2>11. Roster(w, "reply")
      BY <1>e, <2>9, <2>10 DEF Roster
    <2>12. Queues(w, "reply")
      BY <1>a, <1>d, QueuesAlone
    <2>13. Tracks(w)
      BY <1>a, <1>d, <2>11, <2>12 DEF Tracks
    <2> QED BY <2>7, <2>8, <2>13 DEF Kept
  <1>2. ASSUME UNCHANGED <<job, active, ledger>>, rows' \in Table(Users), flags' \subseteq flags
        PROVE  Kept(w)
    <2>1. SharedType'
      BY <1>a, <1>c, <1>2
    <2>2. job[w] \in Job /\ SetJob(w, job[w])
      BY <1>2 DEF SetJob, TypeInv, TypeOK
    <2>3. Roster(w, "reply")
      BY <1>e, <1>2, <2>2, RosterAlone
    <2> QED BY <1>a, <1>d, <1>2, <2>1, <2>2, <2>3, KeptOutside
  <1>3. CASE Cancel(w)
    <2>1. CASE c.user \in active /\ CancelAll({c.user})
      BY <1>b, <1>3, <1>1, <2>1 DEF Cancel
    <2>2. CASE flags' = flags \ {c.user} /\ UNCHANGED <<active, job, ledger>>
      BY <1>3, <1>2, <2>2 DEF Cancel
    <2> QED BY <1>3, <2>1, <2>2 DEF Cancel
  <1>4. CASE KillAll(w)
    BY <1>4, <1>1 DEF KillAll
  <1>5. CASE SetRole(w)
    <2> DEFINE e == IF c.days = 0 THEN 0 ELSE day + c.days
    <2>1. e \in Nat /\ rows \in [Users -> MaybeRow]
      BY <1>b DEF Table, MaybeRow
    <2>2. SetUserRole(rows[c.user], c.role, e) \in MaybeRow
      BY <1>b, <2>1, SetUserRoleType
    <2> HIDE DEF e
    <2>3. rows' = [rows EXCEPT ![c.user] = SetUserRole(@, c.role, e)] \/ rows' = rows
      BY <1>5 DEF SetRole, e
    <2>4. rows' \in Table(Users)
      BY <1>b, <2>1, <2>2, <2>3 DEF Table, MaybeRow
    <2> QED BY <1>5, <1>2, <2>4 DEF SetRole, shared
  <1>6. CASE Ban(w)
    <2>1. rows \in [Users -> MaybeRow] /\ (c.cmd = "ban") \in BOOLEAN
      BY DEF Table, MaybeRow
    <2>2. BanUser(rows[c.user], c.cmd = "ban") \in MaybeRow
      BY <1>b, <2>1, UpdatesType
    <2>3. rows' = [rows EXCEPT ![c.user] = BanUser(@, c.cmd = "ban")] \/ rows' = rows
      BY <1>6 DEF Ban
    <2>4. rows' \in Table(Users)
      BY <1>b, <2>1, <2>2, <2>3 DEF Table, MaybeRow
    <2> QED BY <1>6, <1>2, <2>4 DEF Ban, shared
  <1> QED BY <1>3, <1>4, <1>5, <1>6

\* A download starts, is refused or is admitted.
LEMMA AdmissionKept ==
    ASSUME TypeInv, NEW w \in Workers, StartDownload(w) \/ CheckSub(w)
    PROVE  Kept(w)
  <1> USE SharedTypeOf DEF SharedType
  <1>a. UNCHANGED <<sems, sent, day, ledger, flags>>
    BY DEF StartDownload, CheckSub, queue, shared
  <1>b. UNCHANGED <<global_download_semaphore, global_upload_semaphore>>
    BY <1>a DEF sems
  <1>c. {"reply", "forcesub", "announce"} \subseteq Locations \ (Held \cup {"waiting"})
    BY DEF Locations, Held, Admitted
  <1>d. "reply" \notin Flying /\ "forcesub" \notin Flying
    BY DEF Flying, Admitted, Held
  <1>1. CASE StartDownload(w)
    <2> DEFINE c == Head(updates)
    <2>1. c \in Command /\ updates' \in Seq(Command) /\ pc[w] = "idle"
      BY <1>1, TakeType DEF StartDownload, Take
    <2>2. PICK ok \in DbOutcomes, saved \in DbOutcomes :
            /\ rows' = AfterRead(c.user, ok, saved)
            /\ \/ Goto(w, "reply") /\ SetJob(w, NoJob)
               \/ Goto(w, "forcesub") /\ SetJob(w, NewJob(c))
      BY <1>1 DEF StartDownload
    <2>3. c.user \in Users /\ c.link \in Links /\ ok \in BOOLEAN /\ saved \in BOOLEAN
      BY <2>1, LimitsAssumption DEF Command
    <2>4. rows' \in Table(Users) /\ NewJob(c) \in Job
      BY <2>2, <2>3, ReadType, NewJobType DEF TypeInv
    <2>5. SharedType'
      BY <1>1, <1>a, <1>b, <2>1, <2>4 DEF StartDownload, shared
    <2>6. pc[w] \notin Held \cup {"waiting"}
      BY <2>1 DEF Held
    <2>7. PICK l \in {"reply", "forcesub"}, i \in {NoJob, NewJob(c)} :
            Goto(w, l) /\ SetJob(w, i)
      BY <2>2
    <2>8. active' = active
      BY <1>1 DEF StartDownload, shared
    <2>9. Roster(w, l)
      BY <1>a, <1>d, <2>7, <2>8, RosterAlone
    <2> QED BY <1>a, <1>c, <2>4, <2>5, <2>6, <2>7, <2>9, NoJobType, KeptOutside
  <1>2. CASE CheckSub(w)
    <2> DEFINE u == job[w].user
               quota(saved, reset) == CheckQuota(rows[u], u = Owner, day, saved, reset)
    <2>1. u \in Users /\ rows[u] \in MaybeRow /\ (u = Owner) \in BOOLEAN /\ job[w] \in Job
      BY DEF TypeInv, TypeOK, Job, Table, MaybeRow
    <2>2. \A saved, reset \in BOOLEAN : quota(saved, reset).row \in MaybeRow
      BY <2>1, CheckQuotaType DEF TypeInv, TypeOK
    <2> HIDE DEF quota
    <2>3. \/ rows' = rows
          \/ \E saved, reset \in BOOLEAN : rows' = [rows EXCEPT ![u] = quota(saved, reset).row]
      BY <1>2, LimitsAssumption DEF CheckSub, quota
    <2>4. rows' \in Table(Users)
      BY <2>1, <2>2, <2>3 DEF Table, MaybeRow
    <2>5. \/ Goto(w, "reply") /\ SetJob(w, NoJob) /\ UNCHANGED active
          \/ /\ u \notin active /\ active' = active \cup {u}
             /\ Goto(w, "announce") /\ UNCHANGED job
      BY <1>2 DEF CheckSub, Refuse
    <2>6. updates' = updates /\ pc[w] \notin Held \cup {"waiting"}
      BY <1>2 DEF CheckSub, queue, Held
    <2>7. SharedType'
      BY <1>a, <1>b, <2>1, <2>4, <2>5, <2>6
    <2>8. UNCHANGED job => SetJob(w, job[w])
      BY DEF SetJob, TypeInv, TypeOK
    <2>9. CASE Goto(w, "reply") /\ SetJob(w, NoJob) /\ UNCHANGED active
      <3>1. Roster(w, "reply")
        BY <1>a, <1>d, <2>9, RosterAlone
      <3> QED BY <1>a, <1>c, <2>6, <2>7, <2>9, <3>1, NoJobType, KeptOutside
    <2>10. CASE /\ u \notin active /\ active' = active \cup {u}
                /\ Goto(w, "announce") /\ UNCHANGED job
      <3>1. Roster(w, "announce")
        BY <1>a, <2>10 DEF Roster, SameUser
      <3> QED BY <1>a, <1>c, <2>1, <2>6, <2>7, <2>8, <2>10, <3>1, KeptOutside
    <2> QED BY <2>5, <2>9, <2>10
  <1> QED BY <1>1, <1>2

\* A handler that got its download permit enters the `try'.
LEMMA EnteredKept ==
    ASSUME TypeInv, NEW w \in Workers, pc[w] \notin Held, Enter(w),
           Sound(global_download_semaphore', Workers),
           Supply(global_download_semaphore') = Supply(global_download_semaphore) - 1,
           \A l \in Quiet : Place(w, l, global_download_semaphore.waiters,
                                        global_download_semaphore'.waiters, "waiting"),
           InFlight(w),
           UNCHANGED <<queue, job, shared, global_upload_semaphore, day, ledger>>
    PROVE  Kept(w)
  <1>1. rows' \in Table(Users) /\ Advances(w, Quiet)
    BY EnterType
  <1>2. SharedType'
    BY <1>1, SharedTypeOf DEF SharedType, queue, shared
  <1>3. PICK l \in Quiet : Goto(w, l) /\ l \in Locations
    BY <1>1 DEF Advances, Moves
  <1>4. Balanced(w)
    <2>1. Supply(global_download_semaphore) \in Nat
      BY SharedTypeOf, SupplyType DEF SharedType
    <2>2. One(l, Held) = 1 /\ One(pc[w], Held) = 0
      BY <1>3 DEF One, Quiet
    <2>3. One(l, {"upload"}) = 0 /\ One(pc[w], {"upload"}) = 0
      BY <1>3 DEF One, Quiet, Held
    <2>4. ledger.surplus \in Nat
      BY DEF TypeInv, TypeOK, History
    <2> QED BY <1>3, <2>1, <2>2, <2>3, <2>4 DEF Balanced
  <1>5. Queues(w, l)
    BY <1>3 DEF Queues, Place, Quiet, Held
  <1>6. Roster(w, l)
    BY DEF Roster, SameUser, shared
  <1>7. Tracks(w)
    BY <1>3, <1>5, <1>6 DEF Tracks
  <1> QED BY <1>1, <1>2, <1>4, <1>7, AdvancesType, TypeInvOf DEF Kept

\* The three ways to a download permit: at once, after "Server busy", or
\* after a sleep on the semaphore.
LEMMA AcquireKept ==
    ASSUME TypeInv, NEW w \in Workers, Announce(w) \/ Busy(w) \/ WakeUp(w)
    PROVE  Kept(w)
  <1> USE SharedTypeOf DEF SharedType
  <1>a. pc[w] \in Admitted /\ pc[w] \notin Held /\ UNCHANGED <<queue, shared, day, ledger>>
    BY DEF Announce, Busy, WakeUp, Admitted, Held
  <1>e. InFlight(w) /\ active' = active /\ ledger'.cancelled = ledger.cancelled
    BY <1>a DEF InFlight, shared
  <1>f. Announce(w) \/ Busy(w) => pc[w] # "waiting"
    BY DEF Announce, Busy
  <1>g. \A l \in Quiet : l # "waiting"
    BY DEF Quiet, Held
  <1>b. job[w] \in Job /\ (UNCHANGED job => SetJob(w, job[w]))
    BY DEF TypeInv, TypeOK, SetJob
  <1>c. {"idle", "busy", "waiting"} \subseteq Locations \ Held
    BY DEF Locations, Admitted, Held
  <1>1. ASSUME Raise(w), pc[w] # "waiting"
        PROVE  Kept(w)
    <2>1. SharedType'
      BY <1>a, <1>1 DEF Raise, queue, shared, sems
    <2>2. "idle" \notin Flying
      BY DEF Flying, Admitted, Held
    <2>3. Roster(w, "idle")
      BY <1>e, <1>1, <2>2, RosterAlone DEF Raise
    <2> QED BY <1>1, <1>a, <1>c, <2>1, <2>3, NoJobType, KeptOutside DEF Raise
  <1>2. ASSUME Goto(w, "busy"), UNCHANGED <<job, rows, sems>>, pc[w] # "waiting"
        PROVE  Kept(w)
    <2>1. SharedType'
      BY <1>a, <1>2 DEF queue, shared, sems
    <2>2. Roster(w, "busy")
      BY <1>b, <1>e, <1>2, RosterAlone
    <2> QED BY <1>2, <1>a, <1>b, <1>c, <2>1, <2>2, KeptOutside
  <1>3. CASE /\ pc[w] # "waiting" /\ Locked(global_download_semaphore)
             /\ global_download_semaphore' = Enqueue(global_download_semaphore, w)
             /\ Goto(w, "waiting")
             /\ UNCHANGED <<job, rows, global_upload_semaphore>>
    <2>1. /\ Sound(global_download_semaphore', Workers)
          /\ Supply(global_download_semaphore') = Supply(global_download_semaphore)
      BY <1>3, EnqueueSound
    <2>2. SharedType'
      BY <1>a, <1>3, <2>1 DEF queue, shared
    <2>3. Moves(w, "waiting", job[w])
      BY <1>3, <1>b, <1>c DEF Moves, InLoop
    <2>4. TypeInv'
      BY <2>2, <2>3, MovesType, TypeInvOf
    <2>5. Balanced(w)
      <3>1. One("waiting", Held) = One(pc[w], Held)
        BY <1>a, <1>c DEF One
      <3>2. One("waiting", {"upload"}) = One(pc[w], {"upload"})
        BY <1>a DEF One, Held
      <3> QED BY <1>a, <1>c, <1>3, <2>1, <3>1, <3>2 DEF Balanced
    <2>6. Queues(w, "waiting")
      <3>1. global_download_semaphore'.waiters = Append(global_download_semaphore.waiters, w)
        BY <1>3 DEF Enqueue, Sound, SemaphoreOf
      <3> QED BY <1>3, <1>a, <3>1 DEF Queues, Place, Admitted
    <2>7. Roster(w, "waiting")
      BY <1>b, <1>e, <1>3, RosterAlone
    <2>8. Tracks(w)
      BY <1>3, <1>c, <2>6, <2>7 DEF Tracks
    <2> QED BY <2>4, <2>5, <2>8 DEF Kept
  <1>4. CASE /\ pc[w] # "waiting"
             /\ ~Locked(global_download_semaphore)
             /\ global_download_semaphore' = TakePermit(global_download_semaphore)
             /\ Enter(w)
             /\ UNCHANGED <<job, global_upload_semaphore>>
    <2>1. global_download_semaphore'.waiters = global_download_semaphore.waiters
      BY <1>4 DEF TakePermit, Sound, SemaphoreOf
    <2>2. \A l \in Quiet : Place(w, l, global_download_semaphore.waiters,
                                      global_download_semaphore'.waiters, "waiting")
      BY <1>4, <1>g, <2>1 DEF Place
    <2> QED BY <1>4, <1>a, <1>e, <2>2, TakePermitSound, EnteredKept
  <1>5. CASE WakeUp(w)
    <2>1. global_download_semaphore'.waiters = Tail(global_download_semaphore.waiters)
      BY <1>5, ResumeWaiters DEF WakeUp
    <2>2. \A l \in Quiet : Place(w, l, global_download_semaphore.waiters,
                                      global_download_semaphore'.waiters, "waiting")
      BY <1>5, <1>g, <2>1 DEF Place, WakeUp, CanResume
    <2> QED BY <1>5, <1>a, <1>e, <2>2, ResumeSound, EnteredKept DEF WakeUp
  <1> QED BY <1>1, <1>2, <1>3, <1>4, <1>5, <1>f DEF Announce, Busy

\* A step inside the `try' that leaves semaphores, queue and lists alone.
LEMMA SteppedKept ==
    ASSUME TypeInv, NEW w \in Workers, pc[w] \in Quiet, Advances(w, Quiet),
           UNCHANGED <<queue, shared, sems, day>>,
           rows' \in Table(Users), ledger' \in History,
           ledger'.surplus = ledger.surplus, ledger'.cancelled = ledger.cancelled
    PROVE  Kept(w)
  <1>1. SharedType' /\ active' = active
    BY SharedTypeOf DEF SharedType, queue, shared, sems
  <1> QED BY <1>1, KeptInside

\* A step to a location outside the loop.
LEMMA QuietGoto ==
    ASSUME TypeInv, NEW w \in Workers, NEW l \in Quiet \ InLoop, NEW i \in Job,
           i.user = job[w].user, Goto(w, l), SetJob(w, i)
    PROVE  Advances(w, Quiet)
  <1>1. l \in Quiet /\ l \in Locations /\ l \notin InLoop
    BY DEF Quiet, Locations
  <1> QED BY <1>1 DEF Advances, Moves

\* The probe, the user client and the message itself.
LEMMA FetchKept ==
    ASSUME TypeInv, NEW w \in Workers, Probe(w) \/ StartClient(w) \/ Fetch(w)
    PROVE  Kept(w)
  <1> DEFINE j == job[w]
  <1>a. pc[w] \in Quiet /\ UNCHANGED <<queue, shared, sems, day>>
    BY DEF Probe, StartClient, Fetch, Quiet, Held
  <1>b. j \in Job /\ j.user \in Users /\ (UNCHANGED job => SetJob(w, j))
    BY DEF TypeInv, TypeOK, SetJob, Job
  <1>c. {"client", "check", "report", "reject"} \subseteq Quiet \ InLoop
    BY DEF Quiet, Held, InLoop
  <1>d. rows \in Table(Users) /\ ledger \in History
    BY DEF TypeInv, TypeOK
  <1>1. CASE Probe(w)
    <2>1. PICK isGroup \in BOOLEAN, ok \in DbOutcomes, saved \in DbOutcomes :
             /\ Goto(w, Gate(Read(j.user, ok), j.link, isGroup))
             /\ rows' = AfterRead(j.user, ok, saved)
             /\ SetJob(w, [j EXCEPT !.direct = ~isGroup])
      BY <1>1 DEF Probe
    <2>2. ok \in BOOLEAN /\ saved \in BOOLEAN
      BY LimitsAssumption
    <2>3. rows' \in Table(Users)
      BY <1>b, <2>1, <2>2, ReadType DEF TypeInv
    <2>4. [j EXCEPT !.direct = ~isGroup] \in Job /\ [j EXCEPT !.direct = ~isGroup].user = j.user
      BY <1>b DEF Job
    <2>5. Advances(w, Quiet)
      BY <2>1, <2>4, GateHeld, QuietGoto
    <2>6. ledger' = ledger
      BY <1>1 DEF Probe
    <2> QED BY <1>a, <1>d, <2>3, <2>5, <2>6, SteppedKept
  <1>2. CASE StartClient(w)
    <2>1. UNCHANGED <<rows, ledger>>
      BY <1>2 DEF StartClient
    <2>2. CASE Goto(w, "check") /\ SetJob(w, [j EXCEPT !.owned = TRUE])
      <3>1. [j EXCEPT !.owned = TRUE] \in Job /\ [j EXCEPT !.owned = TRUE].user = j.user
        BY <1>b DEF Job
      <3>2. Advances(w, Quiet)
        BY <1>c, <2>2, <3>1, QuietGoto
      <3> QED BY <1>a, <1>d, <2>1, <3>2, SteppedKept
    <2>3. CASE /\ Goto(w, IF j.attempt + 1 < ClientAttempts THEN "client" ELSE "reject")
               /\ SetJob(w, [j EXCEPT !.attempt = @ + 1])
      <3>1. [j EXCEPT !.attempt = @ + 1] \in Job /\ [j EXCEPT !.attempt = @ + 1].user = j.user
        BY <1>b DEF Job
      <3>2. PICK l \in {"client", "reject"} : Goto(w, l)
        BY <2>3
      <3>3. Advances(w, Quiet)
        BY <1>c, <2>3, <3>1, <3>2, QuietGoto
      <3> QED BY <1>a, <1>d, <2>1, <3>3, SteppedKept
    <2> QED BY <1>2, <2>2, <2>3 DEF StartClient
  <1>3. ASSUME NEW l \in {"report", "reject"}, Goto(w, l), UNCHANGED <<job, rows, ledger>>
        PROVE  Kept(w)
    <2>1. Advances(w, Quiet)
      BY <1>b, <1>c, <1>3, QuietGoto
    <2> QED BY <1>a, <1>d, <1>3, <2>1, SteppedKept
  <1>4. ASSUME NEW n \in Nat, NEW ok \in BOOLEAN, NEW saved \in BOOLEAN,
               LET quota == Remaining(Read(j.user, ok), day)
                   files == IF quota.unlimited \/ n < quota.left THEN n ELSE quota.left
               IN  NextItem(w, [j EXCEPT !.unlimited = quota.unlimited, !.left = files],
                            AfterRead(j.user, ok, saved))
        PROVE  Kept(w)
    <2> DEFINE quota == Remaining(Read(j.user, ok), day)
               files == IF quota.unlimited \/ n < quota.left THEN n ELSE quota.left
               i == [j EXCEPT !.unlimited = quota.unlimited, !.left = files]
               table == AfterRead(j.user, ok, saved)
    <2>1. day \in Nat /\ table \in Table(Users) /\ Read(j.user, ok) \in MaybeRow
      BY <1>b, ReadType DEF TypeInv, TypeOK
    <2>2. quota.unlimited \in BOOLEAN /\ quota.left \in Nat
      BY <2>1, RemainingType
    <2>3. files \in Nat
      BY <2>2
    <2>4. NextItem(w, i, table)
      BY <1>4
    <2> HIDE DEF quota, files, table
    <2>5. i \in Job /\ i.user = j.user
      BY <1>b, <2>2, <2>3 DEF Job
    <2> HIDE DEF i
    <2> QED BY <1>a, <2>1, <2>4, <2>5, NextItemType, SteppedKept
  <1>5. CASE Fetch(w)
    <2>1. 1 .. (IF j.link = "story" THEN 1 ELSE MaxItems) \subseteq Nat
      BY LimitsAssumption
    <2>2. CASE \E l \in {"report", "reject"} : Goto(w, l) /\ UNCHANGED <<job, rows, ledger>>
      BY <1>3, <2>2
    <2>3. CASE \E ok, saved \in DbOutcomes :
                 /\ Goto(w, "reject")
                 /\ rows' = AfterRead(j.user, ok, saved)
                 /\ UNCHANGED <<job, ledger>>
      <3>1. rows' \in Table(Users)
        BY <1>b, <2>3, LimitsAssumption, ReadType DEF TypeInv
      <3>2. Advances(w, Quiet)
        BY <1>b, <1>c, <2>3, QuietGoto
      <3> QED BY <1>a, <1>d, <2>3, <3>1, <3>2, SteppedKept
    <2>4. CASE \E n \in Nat, ok, saved \in DbOutcomes :
                 LET quota == Remaining(Read(j.user, ok), day)
                     files == IF quota.unlimited \/ n < quota.left THEN n ELSE quota.left
                 IN  NextItem(w, [j EXCEPT !.unlimited = quota.unlimited, !.left = files],
                              AfterRead(j.user, ok, saved))
      BY <1>4, <2>4, LimitsAssumption
    <2> QED BY <1>5, <2>1, <2>2, <2>3, <2>4 DEF Fetch
  <1> QED BY <1>1, <1>2, <1>5

\* The ways through the loop that leave the semaphores alone.
LEMMA LoopKept ==
    ASSUME TypeInv, NEW w \in Workers, SendText(w) \/ Copy(w) \/ Dump(w)
    PROVE  Kept(w)
  <1>a. pc[w] \in Quiet /\ pc[w] \in InLoop /\ UNCHANGED <<queue, shared, sems, day>>
    BY DEF SendText, Copy, Dump, Quiet, Held, InLoop
  <1>b. /\ TypeOK /\ job[w] \in Job /\ job[w].left > 0
        /\ rows \in Table(Users) /\ ledger \in History
    BY <1>a DEF TypeInv, TypeOK, ItemLeft
  <1>1. ASSUME NEW ok \in DbOutcomes, Deliver(w, ok)
        PROVE  Kept(w)
    <2>1. ok \in BOOLEAN
      BY LimitsAssumption
    <2> QED BY <1>a, <1>b, <1>1, <2>1, DeliverType, SteppedKept
  <1>2. CASE NextItem(w, Done(job[w]), rows)
    <2>1. Done(job[w]) \in Job /\ Done(job[w]).user = job[w].user
      BY <1>b, DoneType
    <2> QED BY <1>a, <1>b, <1>2, <2>1, NextItemType, SteppedKept
  <1>3. CASE Goto(w, "download") /\ UNCHANGED <<job, rows, ledger>>
    <2>1. "download" \in Quiet /\ "download" \in Locations
      BY DEF Quiet, Held, Locations
    <2>2. SetJob(w, job[w])
      BY <1>3 DEF SetJob, TypeInv, TypeOK
    <2>3. Advances(w, Quiet)
      BY <1>b, <1>3, <2>1, <2>2 DEF Advances, Moves
    <2> QED BY <1>a, <1>b, <1>3, <2>3, SteppedKept
  <1> QED BY <1>1, <1>2, <1>3 DEF SendText, Copy, Dump

\* A step inside the `try' that moves n upload permits to the handler.
LEMMA UploadBalanced ==
    ASSUME TypeInv, NEW w \in Workers, pc[w] \in Held, NEW l \in Held \cap Locations,
           Goto(w, l), UNCHANGED global_download_semaphore,
           ledger'.surplus = ledger.surplus,
           Supply(global_upload_semaphore') + One(l, {"upload"})
             = Supply(global_upload_semaphore) + One(pc[w], {"upload"})
    PROVE  Balanced(w)
  BY DEF Balanced, One

\* The upload semaphore inside the loop.
LEMMA UploadKept ==
    ASSUME TypeInv, NEW w \in Workers, Download(w) \/ UpWakeUp(w) \/ Upload(w)
    PROVE  Kept(w)
  <1> USE SharedTypeOf DEF SharedType
  <1>a. /\ pc[w] \in Held /\ pc[w] \in InLoop
        /\ UNCHANGED <<queue, shared, global_download_semaphore, day>>
    BY DEF Download, UpWakeUp, Upload, Held, InLoop
  <1>b. /\ TypeOK /\ job[w] \in Job /\ job[w].left > 0 /\ job[w].user \in Users
        /\ (UNCHANGED job => SetJob(w, job[w]))
    BY <1>a DEF TypeInv, TypeOK, ItemLeft, SetJob, Job
  <1>c. {"upwait", "upload", "report"} \subseteq Held \cap Locations
    BY DEF Held, Locations
  <1>d. Supply(global_upload_semaphore) \in Nat
    BY SupplyType
  <1>1. ASSUME NEW l \in Held \cap Locations, Goto(w, l), NEW i \in Job, SetJob(w, i),
               l \in InLoop => i.left > 0,
               rows' \in Table(Users), ledger' \in History,
               ledger'.surplus = ledger.surplus,
               ledger'.cancelled = ledger.cancelled, i.user = job[w].user,
               Place(w, l, global_upload_semaphore.waiters,
                           global_upload_semaphore'.waiters, "upwait"),
               Sound(global_upload_semaphore', Workers),
               Supply(global_upload_semaphore') + One(l, {"upload"})
                 = Supply(global_upload_semaphore) + One(pc[w], {"upload"})
        PROVE  Kept(w)
    <2>1. SharedType'
      BY <1>a, <1>1 DEF queue, shared
    <2>2. Moves(w, l, i)
      BY <1>1 DEF Moves
    <2>3. TypeInv'
      BY <2>1, <2>2, MovesType, TypeInvOf
    <2>4. Balanced(w)
      BY <1>a, <1>1, UploadBalanced
    <2>5. Queues(w, l)
      BY <1>a, <1>1 DEF Queues, Place, Held
    <2>6. InFlight(w) /\ active' = active
      BY <1>a DEF InFlight, shared
    <2>7. Roster(w, l)
      BY <1>1, <2>6, RosterAlone
    <2>8. Tracks(w)
      BY <1>1, <2>5, <2>7 DEF Tracks
    <2> QED BY <2>3, <2>4, <2>8 DEF Kept
  <1>2. CASE Download(w)
    <2>1. pc[w] = "download" /\ One(pc[w], {"upload"}) = 0
      BY <1>2 DEF Download, One
    <2>2. pc[w] \in Quiet
      BY <2>1 DEF Quiet, Held
    <2>3. CASE /\ Locked(global_upload_semaphore)
               /\ global_upload_semaphore' = Enqueue(global_upload_semaphore, w)
               /\ Goto(w, "upwait")
               /\ UNCHANGED <<job, rows, ledger>>
      <3>1. /\ Sound(global_upload_semaphore', Workers)
            /\ Supply(global_upload_semaphore') = Supply(global_upload_semaphore)
        BY <2>3, EnqueueSound
      <3>2. One("upwait", {"upload"}) = 0
        BY DEF One
      <3>3. global_upload_semaphore'.waiters = Append(global_upload_semaphore.waiters, w)
        BY <2>3 DEF Enqueue, Sound, SemaphoreOf
      <3>4. Place(w, "upwait", global_upload_semaphore.waiters,
                  global_upload_semaphore'.waiters, "upwait")
        BY <2>1, <3>3 DEF Place
      <3> QED BY <1>b, <1>c, <1>1, <2>1, <2>3, <3>1, <3>2, <3>4
    <2>4. CASE /\ ~Locked(global_upload_semaphore)
               /\ global_upload_semaphore' = TakePermit(global_upload_semaphore)
               /\ Goto(w, "upload")
               /\ UNCHANGED <<job, rows, ledger>>
      <3>1. /\ Sound(global_upload_semaphore', Workers)
            /\ Supply(global_upload_semaphore') = Supply(global_upload_semaphore) - 1
        BY <2>4, TakePermitSound
      <3>2. One("upload", {"upload"}) = 1
        BY DEF One
      <3>3. global_upload_semaphore'.waiters = global_upload_semaphore.waiters
        BY <2>4 DEF TakePermit, Sound, SemaphoreOf
      <3>4. Place(w, "upload", global_upload_semaphore.waiters,
                  global_upload_semaphore'.waiters, "upwait")
        BY <2>1, <3>3 DEF Place
      <3> QED BY <1>b, <1>c, <1>d, <1>1, <2>1, <2>4, <3>1, <3>2, <3>4
    <2>5. CASE NextItem(w, Done(job[w]), rows) /\ UNCHANGED global_upload_semaphore
      <3>1. Done(job[w]) \in Job /\ Done(job[w]).user = job[w].user
        BY <1>b, DoneType
      <3>2. UNCHANGED <<queue, shared, sems, day>>
        BY <1>a, <2>5 DEF sems
      <3>3. rows \in Table(Users)
        BY <1>b DEF TypeOK
      <3> QED BY <2>2, <2>5, <3>1, <3>2, <3>3, NextItemType, SteppedKept
    <2>6. CASE Abort(w) /\ UNCHANGED global_upload_semaphore
      <3>1. /\ ledger' \in History /\ ledger'.surplus = ledger.surplus
            /\ ledger'.cancelled = ledger.cancelled
            /\ Goto(w, "report") /\ UNCHANGED <<job, rows>>
        BY <1>b, <2>6, AbortType
      <3>2. One("report", {"upload"}) = 0 /\ "report" \notin InLoop
        BY DEF One, InLoop
      <3>3. Place(w, "report", global_upload_semaphore.waiters,
                  global_upload_semaphore'.waiters, "upwait")
        BY <2>1, <2>6 DEF Place
      <3> QED BY <1>b, <1>c, <1>1, <2>1, <2>6, <3>1, <3>2, <3>3
    <2> QED BY <1>2, <2>3, <2>4, <2>5, <2>6 DEF Download
  <1>3. CASE UpWakeUp(w)
    <2>1. /\ Sound(global_upload_semaphore', Workers)
          /\ Supply(global_upload_semaphore') = Supply(global_upload_semaphore) - 1
          /\ Goto(w, "upload") /\ UNCHANGED <<job, rows, ledger>>
      BY <1>3, ResumeSound DEF UpWakeUp
    <2>2. One("upload", {"upload"}) = 1 /\ One(pc[w], {"upload"}) = 0
      BY <1>3 DEF One, UpWakeUp
    <2>3. global_upload_semaphore'.waiters = Tail(global_upload_semaphore.waiters)
      BY <1>3, ResumeWaiters DEF UpWakeUp
    <2>4. Place(w, "upload", global_upload_semaphore.waiters,
                global_upload_semaphore'.waiters, "upwait")
      BY <1>3, <2>3 DEF Place, UpWakeUp, CanResume
    <2> QED BY <1>b, <1>c, <1>d, <1>1, <2>1, <2>2, <2>4
  <1>4. CASE Upload(w)
    <2>1. /\ Sound(global_upload_semaphore', Workers)
          /\ Supply(global_upload_semaphore') = Supply(global_upload_semaphore) + 1
      BY <1>4, ReleaseSound DEF Upload
    <2>2. One(pc[w], {"upload"}) = 1
      BY <1>4 DEF One, Upload
    <2>5. global_upload_semaphore'.waiters = global_upload_semaphore.waiters
      BY <1>4, ReleaseWaiters DEF Upload, Sound
    <2>6. \A l : l # "upwait" => Place(w, l, global_upload_semaphore.waiters,
                                      global_upload_semaphore'.waiters, "upwait")
      BY <1>4, <2>5 DEF Place, Upload
    <2>3. CASE Abort(w)
      <3>1. /\ ledger' \in History /\ ledger'.surplus = ledger.surplus
            /\ ledger'.cancelled = ledger.cancelled
            /\ Goto(w, "report") /\ UNCHANGED <<job, rows>>
        BY <1>b, <2>3, AbortType
      <3>2. One("report", {"upload"}) = 0 /\ "report" \notin InLoop
        BY DEF One, InLoop
      <3> QED BY <1>b, <1>c, <1>d, <1>1, <2>1, <2>2, <2>6, <3>1, <3>2
    <2>4. ASSUME NEW ok \in DbOutcomes, Deliver(w, ok)
          PROVE  Kept(w)
      <3>1. ok \in BOOLEAN
        BY LimitsAssumption
      <3>2. /\ rows' \in Table(Users) /\ ledger' \in History
            /\ ledger'.surplus = ledger.surplus
            /\ ledger'.cancelled = ledger.cancelled /\ Advances(w, Quiet)
        BY <1>b, <2>4, <3>1, DeliverType
      <3>3. PICK l \in Quiet, i \in Job : Moves(w, l, i) /\ i.user = job[w].user
        BY <3>2 DEF Advances
      <3>4. l \in Held \cap Locations /\ One(l, {"upload"}) = 0 /\ l # "upwait"
        BY <3>3 DEF Moves, Quiet, One
      <3> QED BY <1>d, <1>1, <2>1, <2>2, <2>6, <3>2, <3>3, <3>4 DEF Moves
    <2> QED BY <1>4, <2>3, <2>4 DEF Upload
  <1> QED BY <1>2, <1>3, <1>4

\* `finally', reached with the permits s: it releases the handler's permit;
\* n of the permits in s were released twice.
LEMMA FinallyKept ==
    ASSUME TypeInv, NEW w \in Workers, pc[w] \in Quiet, NEW s, Sound(s, Workers),
           NEW n \in Nat, Supply(s) = Supply(global_download_semaphore) + n,
           Finally(w, s), flags' \subseteq flags,
           s.waiters = global_download_semaphore.waiters,
           ledger'.cancelled = ledger.cancelled,
           UNCHANGED <<queue, global_upload_semaphore, rows, day>>,
           ledger' \in History, ledger'.surplus = ledger.surplus + n
    PROVE  Kept(w)
  <1>1. /\ Sound(global_download_semaphore', Workers)
        /\ Supply(global_download_semaphore') = Supply(s) + 1
    BY ReleaseSound DEF Finally
  <1>2. SharedType'
    BY <1>1, SharedTypeOf DEF SharedType, Finally, queue
  <1>3. PICK l \in {"idle", "stopping"} : Goto(w, l)
    BY DEF Finally
  <1>4. l \in Locations /\ l \notin Held /\ l \notin InLoop /\ l # "upload"
    BY DEF Locations, Held, InLoop
  <1>5. SetJob(w, NoJob) /\ NoJob \in Job
    BY NoJobType DEF Finally
  <1>6. Moves(w, l, NoJob)
    BY <1>3, <1>4, <1>5 DEF Moves
  <1>7. TypeInv'
    BY <1>2, <1>6, MovesType, TypeInvOf
  <1>8. Balanced(w)
    <2>1. One(l, Held) = 0 /\ One(pc[w], Held) = 1
      BY <1>4 DEF One, Quiet
    <2>2. One(l, {"upload"}) = 0 /\ One(pc[w], {"upload"}) = 0
      BY <1>4 DEF One, Quiet
    <2>3. Supply(global_download_semaphore) \in Nat /\ ledger.surplus \in Nat
      BY SharedTypeOf, SupplyType DEF SharedType, History
    <2> QED BY <1>1, <1>3, <1>4, <2>1, <2>2, <2>3 DEF Balanced
  <1>9. Queues(w, l)
    <2>1. global_download_semaphore'.waiters = global_download_semaphore.waiters
      BY ReleaseWaiters DEF Finally, Sound
    <2> QED BY <1>3, <2>1 DEF Queues, Place, Quiet, Held
  <1>10. Roster(w, l)
    <2>1. InFlight(w) /\ l \notin Flying
      BY <1>3 DEF InFlight, Quiet, Flying, Admitted, Held
    <2>2. \A v \in Workers \ {w} : SameUser(v)
      BY <1>5 DEF SetJob, SameUser, TypeInv, TypeOK
    <2> QED BY <2>1, <2>2 DEF Roster, Finally
  <1>11. Tracks(w)
    BY <1>3, <1>4, <1>9, <1>10 DEF Tracks
  <1> QED BY <1>7, <1>8, <1>11 DEF Kept

\* A lost charge changes nothing else of the history.
LEMMA LostType ==
    ASSUME NEW l \in History, NEW u \in Users, NEW n \in Nat
    PROVE  /\ Lost(l, u, n) \in History
           /\ Lost(l, u, n).surplus = l.surplus
           /\ Lost(l, u, n).cancelled = l.cancelled
  BY DEF Lost, History

\* A second release is recorded in the history.
LEMMA SurplusType ==
    ASSUME NEW l \in History
    PROVE  /\ [l EXCEPT !.surplus = @ + 1] \in History
           /\ [l EXCEPT !.surplus = @ + 1].surplus = l.surplus + 1
           /\ [l EXCEPT !.surplus = @ + 1].cancelled = l.cancelled
  <1>1. l.surplus \in Nat
    BY DEF History
  <1> QED BY <1>1 DEF History

\* The ends of the handler; the early returns release the permit twice and
\* are the steps that raise the surplus.
LEMMA EndsKept ==
    ASSUME TypeInv, NEW w \in Workers,
           Cancelling(w) \/ Reject(w) \/ Report(w) \/ Leave(w)
    PROVE  Kept(w)
  <1> USE SharedTypeOf DEF SharedType
  <1> DEFINE j == job[w]
             l == Lost(ledger, j.user, Metered(j, j.count))
  <1>a. Sound(Release(global_download_semaphore), Workers)
        /\ Supply(Release(global_download_semaphore)) = Supply(global_download_semaphore) + 1
        /\ Release(global_download_semaphore).waiters = global_download_semaphore.waiters
    BY ReleaseSound, ReleaseWaiters DEF Sound
  <1>b. /\ j \in Job /\ j.user \in Users /\ Metered(j, j.count) \in Nat
        /\ (UNCHANGED job => SetJob(w, j))
    BY DEF TypeInv, TypeOK, SetJob, Job, Metered
  <1>c. l \in History /\ l.surplus = ledger.surplus /\ l.cancelled = ledger.cancelled
    BY <1>b, LostType
  <1>e. ledger \in History
    BY SharedTypeOf DEF SharedType
  <1> HIDE DEF l
  <1>d. "report" \in Quiet \ InLoop
    BY DEF Quiet, Held, InLoop
  <1>1. CASE Cancelling(w)
    <2>1. pc[w] \in Quiet
      BY <1>1 DEF Cancelling, Quiet, Held
    <2>2. CASE /\ ReturnEarly(w) /\ flags' = flags \ {j.user}
               /\ ledger' = [l EXCEPT !.surplus = @ + 1]
      <3>1. /\ ledger' \in History /\ ledger'.surplus = ledger.surplus + 1
            /\ ledger'.cancelled = ledger.cancelled
        BY <1>c, <2>2, SurplusType
      <3>2. UNCHANGED <<queue, global_upload_semaphore, rows, day>>
        BY <1>1 DEF Cancelling
      <3> QED BY <1>a, <2>1, <2>2, <3>1, <3>2, FinallyKept DEF ReturnEarly
    <2>3. CASE /\ Goto(w, "report") /\ ledger' = l
               /\ UNCHANGED <<shared, job, global_download_semaphore>>
      <3>1. Advances(w, Quiet)
        BY <1>b, <1>d, <2>3, QuietGoto
      <3>2. UNCHANGED <<queue, shared, sems, rows, day>>
        BY <1>1, <2>3 DEF Cancelling, sems
      <3> QED BY <1>c, <2>1, <2>3, <3>1, <3>2, SteppedKept
    <2> QED BY <1>1, <2>2, <2>3 DEF Cancelling, l
  <1>2. CASE Reject(w)
    <2>1. pc[w] \in Quiet
      BY <1>2 DEF Reject, Quiet, Held
    <2>2. CASE ReturnEarly(w) /\ ledger' = [ledger EXCEPT !.surplus = @ + 1]
      <3>1. /\ ledger' \in History /\ ledger'.surplus = ledger.surplus + 1
            /\ ledger'.cancelled = ledger.cancelled
        BY <1>e, <2>2, SurplusType
      <3>2. UNCHANGED <<queue, flags, global_upload_semaphore, rows, day>>
        BY <1>2 DEF Reject
      <3> QED BY <1>a, <2>1, <2>2, <3>1, <3>2, FinallyKept DEF ReturnEarly
    <2>3. CASE /\ Goto(w, "report")
               /\ UNCHANGED <<active, job, global_download_semaphore, ledger>>
      <3>1. Advances(w, Quiet)
        BY <1>b, <1>d, <2>3, QuietGoto
      <3>2. UNCHANGED <<queue, shared, sems, rows, day>>
        BY <1>2, <2>3 DEF Reject, sems, shared
      <3> QED BY <2>1, <2>3, <3>1, <3>2, SteppedKept
    <2> QED BY <1>2, <2>2, <2>3 DEF Reject
  <1>3. CASE Report(w)
    <2>1. pc[w] \in Quiet /\ Finally(w, global_download_semaphore)
          /\ UNCHANGED <<queue, flags, global_upload_semaphore, rows, day, ledger>>
      BY <1>3 DEF Report, Quiet, Held
    <2>2. /\ Supply(global_download_semaphore) = Supply(global_download_semaphore) + 0
          /\ ledger.surplus = ledger.surplus + 0
      BY SupplyType DEF History
    <2> QED BY <2>1, <2>2, FinallyKept
  <1>4. CASE Leave(w)
    <2>1. /\ pc[w] \notin Held \cup {"waiting"}
          /\ "idle" \in Locations \ (Held \cup {"waiting"}) /\ "idle" \notin Flying
      BY <1>4 DEF Leave, Held, Locations, Flying, Admitted
    <2>2. Goto(w, "idle") /\ UNCHANGED <<queue, job, shared, sems, rows, day, ledger>>
      BY <1>4 DEF Leave
    <2>3. SharedType'
      BY <2>2 DEF queue, shared, sems
    <2>4. Roster(w, "idle")
      BY <1>b, <2>1, <2>2, RosterAlone DEF shared
    <2> QED BY <1>b, <2>1, <2>2, <2>3, <2>4, KeptOutside
  <1> QED BY <1>1, <1>2, <1>3, <1>4

\* Every step of a worker keeps the types and the balance.
LEMMA WorkerKept ==
    ASSUME TypeInv, NEW w \in Workers, WorkerStep(w)
    PROVE  Kept(w)
  <1>1. CASE Cancel(w) \/ KillAll(w) \/ SetRole(w) \/ Ban(w)
    BY <1>1, CommandsKept
  <1>2. CASE StartDownload(w) \/ CheckSub(w)
    BY <1>2, AdmissionKept
  <1>3. CASE Announce(w) \/ Busy(w) \/ WakeUp(w)
    BY <1>3, AcquireKept
  <1>4. CASE Probe(w) \/ StartClient(w) \/ Fetch(w)
    BY <1>4, FetchKept
  <1>5. CASE SendText(w) \/ Copy(w) \/ Dump(w)
    BY <1>5, LoopKept
  <1>6. CASE Download(w) \/ UpWakeUp(w) \/ Upload(w)
    BY <1>6, UploadKept
  <1>7. CASE Cancelling(w) \/ Reject(w) \/ Report(w) \/ Leave(w)
    BY <1>7, EndsKept
  <1> QED BY <1>1, <1>2, <1>3, <1>4, <1>5, <1>6, <1>7 DEF WorkerStep

\* The environment, and a step in which nothing happens.
Environment ==
    \/ \E c \in Commands : Send(c)
    \/ NewDay
    \/ \E u \in Users : CooldownOver(u)
    \/ UNCHANGED vars

LEMMA EnvironmentKept ==
    ASSUME TypeInv, Environment
    PROVE  /\ TypeInv'
           /\ UNCHANGED <<pc, job, active, sems>>
           /\ ledger'.surplus = ledger.surplus
           /\ ledger'.cancelled = ledger.cancelled
  <1> USE SharedTypeOf DEF SharedType
  <1>1. /\ UNCHANGED <<pc, job, active, flags, global_download_semaphore,
                       global_upload_semaphore>>
        /\ UNCHANGED sems
    BY DEF Environment, Send, NewDay, CooldownOver, vars, shared, sems
  <1>2. pc' \in [Workers -> Locations] /\ job' \in [Workers -> Job] /\ ItemLeft'
    BY <1>1 DEF TypeInv, TypeOK, ItemLeft
  <1>3. ASSUME NEW c \in Commands, Send(c)
        PROVE  SharedType' /\ ledger' = ledger
    <2>1. updates' \in Seq(Command)
      BY <1>3, CommandsAssumption, AppendProperties DEF Send
    <2> QED BY <1>1, <1>3, <2>1 DEF Send
  <1>4. CASE NewDay
    <2>1. /\ ledger' \in History /\ ledger'.surplus = ledger.surplus
          /\ ledger'.cancelled = ledger.cancelled
      BY <1>4 DEF NewDay, History, NoHistory
    <2> QED BY <1>1, <1>2, <1>4, <2>1, TypeInvOf DEF NewDay, queue
  <1>5. ASSUME NEW u \in Users, CooldownOver(u)
        PROVE  SharedType' /\ ledger' = ledger
    <2>1. rows[u] \in Row /\ rows \in [Users -> MaybeRow]
      BY <1>5 DEF CooldownOver, Table, MaybeRow
    <2>2. [rows[u] EXCEPT !.cooling = FALSE] \in MaybeRow
      BY <2>1 DEF Row, MaybeRow
    <2>3. rows' \in Table(Users)
      BY <1>5, <2>1, <2>2 DEF CooldownOver, Table, MaybeRow
    <2> QED BY <1>1, <1>5, <2>3 DEF CooldownOver, queue
  <1>6. CASE UNCHANGED vars
    BY <1>1, <1>2, <1>6, TypeInvOf DEF vars
  <1> QED BY <1>1, <1>2, <1>3, <1>4, <1>5, <1>6, TypeInvOf DEF Environment

LEMMA StepCases ==
    ASSUME [Next]_vars
    PROVE  Environment \/ \E w \in Workers : WorkerStep(w)
  BY DEF Next, Environment

\* The rows are read from a table; nothing is queued or held at start-up.
LEMMA InitType ==
    ASSUME Init
    PROVE  TypeInv
  <1>1. Sound(Fresh(MaxDownloads), Workers) /\ Sound(Fresh(MaxUploads), Workers)
    BY FreshSound, LimitsAssumption
  <1>2. updates \in Seq(Command) /\ sent \in Nat
    BY EmptySeq DEF Init
  <1>3. pc \in [Workers -> Locations] /\ job \in [Workers -> Job] /\ ItemLeft
    BY NoJobType DEF Init, Locations, ItemLeft, InLoop
  <1>4. rows \in Table(Users) /\ day \in Nat \ {0}
    BY TablesAssumption DEF Init
  <1>5. ledger \in History
    BY DEF Init, NoHistory, History
  <1> QED BY <1>1, <1>2, <1>3, <1>4, <1>5 DEF Init, TypeInv, TypeOK, Sound

\* The strengthened type invariant holds, whatever the numbers of workers,
\* users, permits, files and updates.
THEOREM TypeInvariance == Spec => []TypeInv
  <1>1. Init => TypeInv
    BY InitType
  <1>2. TypeInv /\ [Next]_vars => TypeInv'
    BY StepCases, WorkerKept, EnvironmentKept DEF Kept
  <1> QED BY <1>1, <1>2, PTL DEF Spec

\* Type correctness (TypeOK): every variable of the download path stays in
\* its type, the semaphores' counters never become negative included.
THEOREM TypeCorrectness == Spec => []TypeOK
  <1>1. TypeInv => TypeOK
    BY DEF TypeInv
  <1> QED BY <1>1, TypeInvariance, PTL

-----------------------------------------------------------------------------
(***************************************************************************)
(* The balance of the permits, from the balance of each step.              *)
(***************************************************************************)
\* How one worker's move changes the number of workers at L.
At(L) == {w \in Workers : pc[w] \in L}

LEMMA CountMove ==
    ASSUME TypeInv, NEW w \in Workers, NEW l, Goto(w, l), NEW L
    PROVE  /\ Cardinality(At(L)) \in Nat /\ Cardinality(At(L)') \in Nat
           /\ Cardinality(At(L)') + One(pc[w], L) = Cardinality(At(L)) + One(l, L)
  <1>1. IsFiniteSet(At(L)) /\ Cardinality(At(L)) \in Nat
    BY WorkersAssumption, FS_Subset, FS_CardinalityType DEF At
  <1>2. IsFiniteSet(At(L)') /\ Cardinality(At(L)') \in Nat
    BY WorkersAssumption, FS_Subset, FS_CardinalityType DEF At
  <1>3. \A v \in Workers : pc'[v] = IF v = w THEN l ELSE pc[v]
    BY DEF Goto, TypeInv, TypeOK
  <1>4. CASE l \in L /\ pc[w] \notin L
    <2>1. At(L)' = At(L) \cup {w} /\ w \notin At(L)
      BY <1>3, <1>4 DEF At
    <2>2. Cardinality(At(L) \cup {w}) = Cardinality(At(L)) + 1
      BY <1>1, <2>1, FS_AddElement
    <2> QED BY <1>1, <1>2, <1>4, <2>1, <2>2 DEF One
  <1>5. CASE l \notin L /\ pc[w] \in L
    <2>1. At(L)' = At(L) \ {w} /\ w \in At(L)
      BY <1>3, <1>5 DEF At
    <2>2. Cardinality(At(L) \ {w}) = Cardinality(At(L)) - 1
      BY <1>1, <2>1, FS_RemoveElement
    <2> QED BY <1>1, <1>2, <1>5, <2>1, <2>2 DEF One
  <1>6. CASE l \in L <=> pc[w] \in L
    <2>1. At(L)' = At(L)
      BY <1>3, <1>6 DEF At
    <2> QED BY <1>1, <1>2, <1>6, <2>1 DEF One
  <1> QED BY <1>4, <1>5, <1>6

\* The two accountings in terms of the supply of permits.
Permits ==
    /\ Supply(global_download_semaphore) + Cardinality(At(Held)) = MaxDownloads + ledger.surplus
    /\ Supply(global_upload_semaphore) + Cardinality(At({"upload"})) = MaxUploads

LEMMA PermitsNumbers ==
    ASSUME TypeInv
    PROVE  /\ Supply(global_download_semaphore) \in Nat
           /\ Supply(global_upload_semaphore) \in Nat
           /\ Cardinality(At(Held)) \in Nat /\ Cardinality(At({"upload"})) \in Nat
           /\ ledger.surplus \in Nat /\ MaxDownloads \in Nat /\ MaxUploads \in Nat
  <1>1. \A L : Cardinality(At(L)) \in Nat
    BY WorkersAssumption, FS_Subset, FS_CardinalityType DEF At
  <1> QED BY <1>1, SharedTypeOf, SupplyType, LimitsAssumption DEF SharedType, History

LEMMA InitPermits ==
    ASSUME Init
    PROVE  Permits
  <1>1. At(Held) = {} /\ At({"upload"}) = {}
    BY DEF Init, At, Held
  <1>2. Cardinality(At(Held)) = 0 /\ Cardinality(At({"upload"})) = 0
    BY <1>1, FS_EmptySet
  <1>3. Supply(Fresh(MaxDownloads)) = MaxDownloads /\ Supply(Fresh(MaxUploads)) = MaxUploads
    BY FreshSound, LimitsAssumption
  <1> QED BY <1>2, <1>3, LimitsAssumption DEF Init, Permits, NoHistory

LEMMA StepPermits ==
    ASSUME TypeInv, TypeInv', Permits, [Next]_vars
    PROVE  Permits'
  <1>1. CASE Environment
    <2>1. UNCHANGED <<pc, sems>> /\ ledger'.surplus = ledger.surplus
      BY <1>1, EnvironmentKept
    <2>2. At(Held)' = At(Held) /\ At({"upload"})' = At({"upload"})
      BY <2>1 DEF At
    <2> QED BY <2>1, <2>2 DEF Permits, sems
  <1>2. ASSUME NEW w \in Workers, WorkerStep(w)
        PROVE  Permits'
    <2>1. PICK l \in Locations :
            /\ Goto(w, l)
            /\ Supply(global_download_semaphore') + One(l, Held) + ledger.surplus
                 = Supply(global_download_semaphore) + One(pc[w], Held) + ledger'.surplus
            /\ Supply(global_upload_semaphore') + One(l, {"upload"})
                 = Supply(global_upload_semaphore) + One(pc[w], {"upload"})
      BY <1>2, WorkerKept DEF Kept, Balanced
    <2>2. \A L : One(l, L) \in {0, 1} /\ One(pc[w], L) \in {0, 1}
      BY DEF One
    <2>3. Cardinality(At(Held)') + One(pc[w], Held) = Cardinality(At(Held)) + One(l, Held)
      BY <2>1, CountMove
    <2>4. Cardinality(At({"upload"})') + One(pc[w], {"upload"})
            = Cardinality(At({"upload"})) + One(l, {"upload"})
      BY <2>1, CountMove
    <2>5. /\ Cardinality(At(Held)') \in Nat /\ Cardinality(At({"upload"})') \in Nat
      BY <2>1, CountMove
    <2>6. /\ Supply(global_download_semaphore') \in Nat
          /\ Supply(global_upload_semaphore') \in Nat
          /\ ledger'.surplus \in Nat
      <3>1. SharedType'
        BY SharedTypeOf, PTL
      <3> QED BY <3>1, SupplyType DEF SharedType, History
    <2> QED BY <2>1, <2>2, <2>3, <2>4, <2>5, <2>6, PermitsNumbers DEF Permits
  <1> QED BY <1>1, <1>2, StepCases

\* Both balances hold, beside the types of what they count (Permits).
THEOREM PermitsInvariance == Spec => []Permits
  <1>1. Init => Permits
    BY InitPermits
  <1>2. TypeInv /\ TypeInv' /\ Permits /\ [Next]_vars => Permits'
    BY StepPermits
  <1> QED BY <1>1, <1>2, TypeInvariance, PTL DEF Spec

\* No permit of the download semaphore is ever lost, and the only ones
\* released twice are those the history counts (PermitAccounting).
THEOREM PermitsAccounted == Spec => []PermitAccounting
  <1>1. Permits /\ TypeInv => PermitAccounting
    BY PermitsNumbers DEF Permits, PermitAccounting, At, Holders, Supply
  <1> QED BY <1>1, TypeInvariance, PermitsInvariance, PTL

\* The upload permits balance exactly (UploadAccounting).
THEOREM UploadsAccounted == Spec => []UploadAccounting
  <1>1. At({"upload"}) = Uploaders
    BY DEF At, Uploaders
  <1>2. Permits /\ TypeInv => UploadAccounting
    BY <1>1, PermitsNumbers DEF Permits, UploadAccounting, Supply
  <1> QED BY <1>2, TypeInvariance, PermitsInvariance, PTL

-----------------------------------------------------------------------------
(***************************************************************************)
(* One download per user.  The invariant is inductive over TypeInv: of the *)
(* handlers that a step may affect, a new one finds its user off the list, *)
(* and one that ends is the only one of a user whom it takes off.          *)
(***************************************************************************)
LEMMA StepOne ==
    ASSUME TypeInv, TypeInv', OneDownloadPerUser, NEW w \in Workers, Tracks(w)
    PROVE  OneDownloadPerUser'
  <1>1. PICK l \in Locations : Goto(w, l) /\ Roster(w, l)
    BY DEF Tracks
  <1>2. \A v \in Workers : /\ InFlight(v) <=> pc[v] \in Flying
                           /\ InFlight(v)' <=> pc'[v] \in Flying
    BY DEF InFlight, Flying
  <1>3. \A v \in Workers : pc'[v] = IF v = w THEN l ELSE pc[v]
    BY <1>1 DEF Goto, TypeInv, TypeOK
  <1>4. \A v \in Workers \ {w} : /\ job'[v].user = job[v].user
                                 /\ InFlight(v)' <=> InFlight(v)
    BY <1>1, <1>2, <1>3 DEF Roster, SameUser
  <1>5. InFlight(w)' <=> l \in Flying
    BY <1>2, <1>3
  <1> SUFFICES ASSUME NEW v \in Workers, NEW u \in Workers,
                      InFlight(v)', job'[v].user \notin ledger'.cancelled
               PROVE  /\ job'[v].user \in active'
                      /\ InFlight(u)' /\ job'[u].user = job'[v].user => u = v
    BY DEF OneDownloadPerUser
  <1>6. CASE /\ l \in Flying => InFlight(w) /\ SameUser(w)
             /\ active' = active
             /\ ledger'.cancelled = ledger.cancelled
    BY <1>4, <1>5, <1>6 DEF SameUser, OneDownloadPerUser
  <1>7. CASE /\ l = "announce" /\ SameUser(w)
             /\ job[w].user \notin active
             /\ active' = active \cup {job[w].user}
             /\ ledger'.cancelled = ledger.cancelled
    BY <1>4, <1>5, <1>7 DEF SameUser, OneDownloadPerUser
  <1>8. CASE /\ InFlight(w) /\ l \notin Flying
             /\ active' = active \ {job[w].user}
             /\ ledger'.cancelled = ledger.cancelled
    BY <1>4, <1>5, <1>8 DEF OneDownloadPerUser
  <1>9. CASE /\ l \notin Flying
             /\ \E S \in SUBSET Users :
                  /\ active' = active \ S
                  /\ ledger'.cancelled = ledger.cancelled \cup S
    BY <1>4, <1>5, <1>9 DEF OneDownloadPerUser
  <1> QED BY <1>1, <1>6, <1>7, <1>8, <1>9 DEF Roster

\* One download per user (OneDownloadPerUser): whoever was never taken off
\* active_downloads by a /cancel or /killall has at most one handler between
\* admission and `finally', and is on the list while it runs.
THEOREM SingleDownloads == Spec => []OneDownloadPerUser
  <1>1. Init => OneDownloadPerUser
    BY DEF Init, OneDownloadPerUser, InFlight, Admitted, Held
  <1>2. TypeInv /\ TypeInv' /\ OneDownloadPerUser /\ [Next]_vars => OneDownloadPerUser'
    <2> SUFFICES ASSUME TypeInv, TypeInv', OneDownloadPerUser, [Next]_vars
                 PROVE  OneDownloadPerUser'
      OBVIOUS
    <2>1. CASE Environment
      <3>1. UNCHANGED <<pc, job, active>> /\ ledger'.cancelled = ledger.cancelled
        BY <2>1, EnvironmentKept
      <3> QED BY <3>1 DEF OneDownloadPerUser, InFlight
    <2>2. CASE \E w \in Workers : WorkerStep(w)
      BY <2>2, WorkerKept, StepOne DEF Kept
    <2> QED BY <2>1, <2>2, StepCases
  <1> QED BY <1>1, <1>2, TypeInvariance, PTL DEF Spec

-----------------------------------------------------------------------------
(***************************************************************************)
(* The queues of the semaphores.  The set of a sequence without repetition *)
(* loses its head with Tail and gains a new element with Append.           *)
(***************************************************************************)
InLine(q, S) ==
    /\ {q[i] : i \in 1 .. Len(q)} = S
    /\ \A i, k \in 1 .. Len(q) : i # k => q[i] # q[k]

LEMMA AppendInLine ==
    ASSUME NEW T, NEW q \in Seq(T), NEW S, InLine(q, S), NEW w \in T, w \notin S
    PROVE  InLine(Append(q, w), S \cup {w})
  <1> DEFINE r == Append(q, w)
  <1>1. Len(q) \in Nat
    BY LenProperties
  <1>2. Len(r) = Len(q) + 1 /\ r[Len(q) + 1] = w /\ \A i \in 1 .. Len(q) : r[i] = q[i]
    BY AppendProperties
  <1> HIDE DEF r
  <1>3. \A i \in 1 .. Len(r) : i \in 1 .. Len(q) \/ i = Len(q) + 1
    BY <1>1, <1>2
  <1>4. \A i \in 1 .. Len(q) : i \in 1 .. Len(r) /\ q[i] \in S
    BY <1>1, <1>2 DEF InLine
  <1>5. Len(q) + 1 \in 1 .. Len(r)
    BY <1>1, <1>2
  <1>6. {r[i] : i \in 1 .. Len(r)} = S \cup {w}
    BY <1>2, <1>3, <1>4, <1>5 DEF InLine
  <1>7. \A i, k \in 1 .. Len(r) : i # k => r[i] # r[k]
    BY <1>2, <1>3, <1>4 DEF InLine
  <1> QED BY <1>6, <1>7 DEF InLine, r

LEMMA TailInLine ==
    ASSUME NEW T, NEW q \in Seq(T), NEW S, InLine(q, S), q # <<>>
    PROVE  InLine(Tail(q), S \ {Head(q)})
  <1> DEFINE r == Tail(q)
  <1>1. Len(q) \in Nat \ {0}
    BY LenProperties, EmptySeq
  <1>2. Len(r) = Len(q) - 1 /\ Head(q) = q[1] /\ \A i \in 1 .. Len(r) : r[i] = q[i + 1]
    BY HeadTailProperties
  <1> HIDE DEF r
  <1>3. \A i \in 1 .. Len(r) : i + 1 \in 1 .. Len(q) /\ i + 1 # 1
    BY <1>1, <1>2
  <1>4. \A k \in 1 .. Len(q) : k # 1 => k - 1 \in 1 .. Len(r) /\ r[k - 1] = q[k]
    BY <1>1, <1>2
  <1>5. 1 \in 1 .. Len(q)
    BY <1>1
  <1>6. {r[i] : i \in 1 .. Len(r)} = S \ {q[1]}
    <2>1. \A i \in 1 .. Len(r) : r[i] \in S \ {q[1]}
      BY <1>2, <1>3, <1>5 DEF InLine
    <2>2. \A x \in S \ {q[1]} : \E i \in 1 .. Len(r) : x = r[i]
      BY <1>4 DEF InLine
    <2> QED BY <2>1, <2>2
  <1>7. \A i, k \in 1 .. Len(r) : i # k => r[i] # r[k]
    <2> SUFFICES ASSUME NEW i \in 1 .. Len(r), NEW k \in 1 .. Len(r), i # k
                 PROVE  r[i] # r[k]
      OBVIOUS
    <2>1. i + 1 # k + 1 /\ i + 1 \in 1 .. Len(q) /\ k + 1 \in 1 .. Len(q)
      BY <1>3
    <2> QED BY <1>2, <2>1 DEF InLine
  <1> QED BY <1>2, <1>6, <1>7 DEF InLine, r

\* The queue of a semaphore follows the handlers at loc through a step.
LEMMA PlaceInLine ==
    ASSUME TypeInv, NEW w \in Workers, NEW l, Goto(w, l), NEW q \in Seq(Workers), NEW r,
           NEW loc, Place(w, l, q, r, loc), InLine(q, {v \in Workers : pc[v] = loc})
    PROVE  InLine(r, {v \in Workers : pc'[v] = loc})
  <1> DEFINE S == {v \in Workers : pc[v] = loc}
             R == {v \in Workers : pc'[v] = loc}
  <1>1. \A v \in Workers : pc'[v] = IF v = w THEN l ELSE pc[v]
    BY DEF Goto, TypeInv, TypeOK
  <1>2. CASE r = q /\ pc[w] # loc /\ l # loc
    <2>1. R = S
      BY <1>1, <1>2
    <2> QED BY <1>2, <2>1
  <1>3. CASE r = Append(q, w) /\ pc[w] # loc /\ l = loc
    <2>1. R = S \cup {w} /\ w \notin S
      BY <1>1, <1>3
    <2> HIDE DEF R, S
    <2>2. InLine(Append(q, w), S \cup {w})
      BY <2>1, AppendInLine DEF S
    <2> QED BY <1>3, <2>1, <2>2 DEF R
  <1>4. CASE q # <<>> /\ w = Head(q) /\ r = Tail(q) /\ pc[w] = loc /\ l # loc
    <2>1. R = S \ {w}
      BY <1>1, <1>4
    <2> HIDE DEF R, S
    <2>2. InLine(Tail(q), S \ {Head(q)})
      BY <1>4, TailInLine DEF S
    <2> QED BY <1>4, <2>1, <2>2 DEF R
  <1> QED BY <1>2, <1>3, <1>4 DEF Place

\* Exactly the suspended handlers are queued, each once.
Lines ==
    /\ Queued(global_download_semaphore, "waiting")
    /\ Queued(global_upload_semaphore, "upwait")

LEMMA LinesOf ==
    Lines <=> /\ InLine(global_download_semaphore.waiters, {v \in Workers : pc[v] = "waiting"})
              /\ InLine(global_upload_semaphore.waiters, {v \in Workers : pc[v] = "upwait"})
  BY DEF Lines, Queued, InLine

LEMMA StepLines ==
    ASSUME TypeInv, Lines, NEW w \in Workers, Tracks(w)
    PROVE  Lines'
  <1>1. PICK l \in Locations : Goto(w, l) /\ Queues(w, l)
    BY DEF Tracks
  <1>2. /\ global_download_semaphore.waiters \in Seq(Workers)
        /\ global_upload_semaphore.waiters \in Seq(Workers)
    BY DEF TypeInv, TypeOK, SemaphoreOf
  <1>3. InLine(global_download_semaphore'.waiters, {v \in Workers : pc'[v] = "waiting"})
    BY <1>1, <1>2, LinesOf, PlaceInLine DEF Queues
  <1>4. InLine(global_upload_semaphore'.waiters, {v \in Workers : pc'[v] = "upwait"})
    BY <1>1, <1>2, LinesOf, PlaceInLine DEF Queues
  <1> QED BY <1>3, <1>4 DEF Lines, Queued, InLine

\* No handler is stranded (NoStrandedHandler): a permit is never free beside
\* a handler that sleeps on its semaphore, unless a woken one is about to
\* pass it on, and no handler sleeps outside the queue, or stays in it.
THEOREM NobodyStranded == Spec => []NoStrandedHandler
  <1>1. Init => Lines
    <2> SUFFICES ASSUME Init
                 PROVE  Lines
      OBVIOUS
    <2>1. \A n : Fresh(n).waiters = <<>> /\ Len(Fresh(n).waiters) = 0
      BY EmptySeq DEF Fresh
    <2>2. \A n : {Fresh(n).waiters[i] : i \in 1 .. Len(Fresh(n).waiters)} = {}
      BY <2>1
    <2>3. \A w \in Workers : pc[w] = "idle"
      BY DEF Init
    <2> QED BY <2>1, <2>2, <2>3 DEF Init, Lines, Queued
  <1>2. TypeInv /\ Lines /\ [Next]_vars => Lines'
    <2> SUFFICES ASSUME TypeInv, Lines, [Next]_vars
                 PROVE  Lines'
      OBVIOUS
    <2>1. CASE Environment
      <3>1. UNCHANGED <<pc, sems>>
        BY <2>1, EnvironmentKept
      <3> QED BY <3>1 DEF Lines, Queued, sems
    <2>2. CASE \E w \in Workers : WorkerStep(w)
      BY <2>2, WorkerKept, StepLines DEF Kept
    <2> QED BY <2>1, <2>2, StepCases
  <1>3. TypeInv /\ Lines => NoStrandedHandler
    BY DEF TypeInv, Lines, NoStrandedHandler
  <1> QED BY <1>1, <1>2, <1>3, TypeInvariance, PTL DEF Spec

-----------------------------------------------------------------------------
(***************************************************************************)
(* The quota.  A user's account of the day is the files delivered under a  *)
(* quota, the charges lost, and the counter in the users table.            *)
(***************************************************************************)
\* Where a handler has files on its way that it has not charged yet.
Delivering == InLoop \cup {"cancelling"}

\* ... and where it has not looked at a file.
Early == {"forcesub", "probe", "client", "check"} \cup Admitted

UsedOf(row, d) == IF row = NoRow THEN 0 ELSE UsedToday(row, d)

\* The files a handler at l with locals i may still deliver.
ToGo(l, i) == IF l = "dump" THEN i.left - 1 ELSE i.left

\* The account of a user with d files delivered, c charges lost and the
\* counter at n, while the user's handler is at l with locals i.  A charge
\* under way is in i.count; what is left to deliver fits in the limit.
Account(l, i, d, c, n) ==
    /\ d <= DailyLimit + c
    /\ d <= c + n + (IF l \in Delivering THEN Metered(i, i.count) ELSE 0)
    /\ l \in InLoop /\ ~i.unlimited => /\ d + ToGo(l, i) <= DailyLimit + c
                                       /\ ToGo(l, i) <= DailyLimit

AccountOf(u, l, i) ==
    Account(l, i, ledger.delivered[u], ledger.uncharged[u], UsedOf(rows[u], day))

Unspent == \A v \in Workers : pc[v] \in Early => job[v].count = 0

\* QuotaHolds alone is not inductive: what a running handler may still
\* deliver was granted when it looked at the counter, and what it did
\* deliver is charged when it ends.
QuotaInv ==
    /\ Unspent
    /\ \A u \in Users \ ledger.cancelled :
         /\ \A v \in Workers : InFlight(v) /\ job[v].user = u => AccountOf(u, pc[v], job[v])
         /\ (\A v \in Workers : InFlight(v) => job[v].user # u) => AccountOf(u, "idle", NoJob)

(***************************************************************************)
(* What the database functions do to the counter.                          *)
(***************************************************************************)
LEMMA UsedType ==
    ASSUME NEW row \in MaybeRow, NEW d \in Nat
    PROVE  UsedOf(row, d) \in Nat
  BY DEF UsedOf, UsedToday, MaybeRow, Row

LEMMA SetUserRoleUsed ==
    ASSUME NEW row \in MaybeRow, NEW role \in Roles, NEW e \in Nat, NEW d \in Nat
    PROVE  UsedOf(SetUserRole(row, role, e), d) = UsedOf(row, d)
  <1>1. CASE row = NoRow
    BY <1>1 DEF SetUserRole, Update
  <1>2. CASE row # NoRow
    <2>1. row \in Row /\ SetUserRole(row, role, e) # NoRow
      BY <1>2, SetUserRoleType, NoRowAssumption DEF MaybeRow
    <2> QED BY <1>2, <2>1 DEF SetUserRole, Update, UsedOf, UsedToday, Row
  <1> QED BY <1>1, <1>2

LEMMA GetUserUsed ==
    ASSUME NEW row \in MaybeRow, NEW isOwner \in BOOLEAN, NEW d \in Nat
    PROVE  UsedOf(GetUser(row, isOwner, d), d) = UsedOf(row, d)
  <1>1. "owner" \in Roles /\ 0 \in Nat
    BY DEF Roles
  <1>2. UsedOf(SetUserRole(row, "owner", 0), d) = UsedOf(row, d)
    BY <1>1, SetUserRoleUsed
  <1>3. NewRow(d) \in Row /\ NewRow(d) # NoRow
    BY NewRowType, NoRowAssumption
  <1>4. UsedOf(SetUserRole(NewRow(d), "owner", 0), d) = UsedOf(NewRow(d), d)
    BY <1>1, <1>3, SetUserRoleUsed DEF MaybeRow
  <1>5. UsedOf(NewRow(d), d) = 0
    BY <1>3 DEF UsedOf, UsedToday, NewRow
  <1>6. row = NoRow => UsedOf(row, d) = 0
    BY DEF UsedOf
  <1> QED BY <1>2, <1>4, <1>5, <1>6 DEF GetUser

LEMMA LeftUsed ==
    ASSUME NEW row \in MaybeRow, NEW isOwner \in BOOLEAN, NEW d \in Nat, NEW saved \in BOOLEAN
    PROVE  UsedOf(Left(row, isOwner, d, saved), d) = UsedOf(row, d)
  <1>1. UsedOf(GetUser(row, isOwner, d), d) = UsedOf(row, d)
    BY GetUserUsed
  <1>2. NewRow(d) \in Row /\ NewRow(d) # NoRow
    BY NewRowType, NoRowAssumption
  <1>3. UsedOf(NewRow(d), d) = 0
    BY <1>2 DEF UsedOf, UsedToday, NewRow
  <1>4. row = NoRow => UsedOf(row, d) = 0
    BY DEF UsedOf
  <1> QED BY <1>1, <1>3, <1>4 DEF Left

LEMMA StoredUsed ==
    ASSUME NEW row \in Row, NEW left \in Row, NEW saved \in BOOLEAN, NEW d \in Nat
    PROVE  UsedOf(Stored(row, left, saved), d) = UsedOf(row, d)
  <1>1. Stored(row, left, saved) # NoRow /\ row # NoRow
    BY StoredType, NoRowAssumption
  <1> QED BY <1>1, StoredType DEF UsedOf, UsedToday

\* A counter that is reset belonged to an earlier day.
LEMMA CheckQuotaUsed ==
    ASSUME NEW row \in MaybeRow, NEW isOwner \in BOOLEAN, NEW d \in Nat,
           NEW saved \in BOOLEAN, NEW reset \in BOOLEAN
    PROVE  UsedOf(CheckQuota(row, isOwner, d, saved, reset).row, d) = UsedOf(row, d)
  <1> DEFINE user == GetUser(row, isOwner, d)
             left == Left(row, isOwner, d, saved)
             paid == Demoted(user, d)
  <1>1. /\ user \in MaybeRow /\ UsedOf(user, d) = UsedOf(row, d)
        /\ UsedOf(left, d) = UsedOf(row, d)
    BY GetUserType, GetUserUsed, LeftUsed
  <1>2. CASE user = NoRow \/ user.is_banned
    <2>1. CheckQuota(row, isOwner, d, saved, reset).row = left
      BY <1>2 DEF CheckQuota
    <2> QED BY <1>1, <2>1
  <1>3. CASE ~(user = NoRow \/ user.is_banned)
    <2>1. CheckQuota(row, isOwner, d, saved, reset).row
            \in {Stored(paid, left, saved), Stored(Rolled(paid, d), left, saved)}
      BY <1>3 DEF CheckQuota
    <2>2. user \in Row /\ left \in Row
      BY <1>1, <1>3, LeftRow DEF MaybeRow
    <2>3. "free" \in Roles /\ 0 \in Nat
      BY DEF Roles
    <2>4. /\ SetUserRole(user, "free", 0) \in Row
          /\ UsedOf(SetUserRole(user, "free", 0), d) = UsedOf(user, d)
      BY <1>1, <1>3, <2>3, SetUserRoleType, SetUserRoleUsed
    <2> HIDE DEF user, left
    <2>5. paid \in Row /\ UsedOf(paid, d) = UsedOf(user, d)
      BY <2>2, <2>4 DEF Demoted
    <2> HIDE DEF paid
    <2>6. Rolled(paid, d) \in Row /\ UsedOf(Rolled(paid, d), d) = UsedOf(paid, d)
      <3>1. CASE ~OldCount(paid, d)
        BY <2>5, <3>1 DEF Rolled
      <3>2. CASE OldCount(paid, d)
        <4> DEFINE r == [paid EXCEPT !.downloads_today = 0, !.last_download_date = d]
        <4>1. r \in Row
          BY <2>5 DEF Row
        <4>2. r # NoRow /\ paid # NoRow
          BY <2>5, <4>1, NoRowAssumption
        <4>3. r.last_download_date = d /\ r.downloads_today = 0
          BY <2>5 DEF Row
        <4>4. Rolled(paid, d) = r
          BY <3>2 DEF Rolled
        <4>5. paid.last_download_date # d
          BY <3>2 DEF OldCount
        <4> HIDE DEF r
        <4>6. UsedOf(r, d) = 0 /\ UsedOf(paid, d) = 0
          BY <4>2, <4>3, <4>5 DEF UsedOf, UsedToday
        <4> QED BY <4>1, <4>4, <4>6
      <3> QED BY <3>1, <3>2
    <2>7. /\ UsedOf(Stored(paid, left, saved), d) = UsedOf(paid, d)
          /\ UsedOf(Stored(Rolled(paid, d), left, saved), d) = UsedOf(Rolled(paid, d), d)
      BY <2>2, <2>5, <2>6, StoredUsed
    <2> QED BY <1>1, <2>1, <2>5, <2>6, <2>7
  <1> QED BY <1>2, <1>3

LEMMA UpdatesUsed ==
    ASSUME NEW row \in MaybeRow, NEW n \in Nat, NEW b \in BOOLEAN, NEW d \in Nat
    PROVE  /\ UsedOf(UpdateLastDownload(row), d) = UsedOf(row, d)
           /\ UsedOf(BanUser(row, b), d) = UsedOf(row, d)
           /\ UsedOf(row, d) <= UsedOf(IncrementQuota(row, n), d)
           /\ row # NoRow /\ row.last_download_date = d =>
                 UsedOf(IncrementQuota(row, n), d) = UsedOf(row, d) + n
  <1>1. CASE row = NoRow
    BY <1>1 DEF IncrementQuota, UpdateLastDownload, BanUser, Update, UsedOf
  <1>2. CASE row # NoRow
    <2>1. row \in Row
      BY <1>2 DEF MaybeRow
    <2> DEFINE inc == [row EXCEPT !.downloads_today = @ + n]
               cool == [row EXCEPT !.cooling = TRUE]
               ban == [row EXCEPT !.is_banned = b]
    <2>6. inc \in Row
      BY <2>1 DEF Row
    <2>7. cool \in Row
      BY <2>1 DEF Row
    <2>8. ban \in Row
      BY <2>1 DEF Row
    <2>2. inc \in Row /\ cool \in Row /\ ban \in Row
      BY <2>6, <2>7, <2>8
    <2>3. inc # NoRow /\ cool # NoRow /\ ban # NoRow
      BY <2>2, NoRowAssumption
    <2>4. /\ inc.downloads_today = row.downloads_today + n
          /\ inc.last_download_date = row.last_download_date
          /\ cool.downloads_today = row.downloads_today
          /\ cool.last_download_date = row.last_download_date
          /\ ban.downloads_today = row.downloads_today
          /\ ban.last_download_date = row.last_download_date
          /\ row.downloads_today \in Nat
      BY <2>1 DEF Row
    <2>5. IncrementQuota(row, n) = inc /\ UpdateLastDownload(row) = cool /\ BanUser(row, b) = ban
      BY <1>2 DEF IncrementQuota, UpdateLastDownload, BanUser, Update
    <2> HIDE DEF inc, cool, ban
    <2> QED BY <1>2, <2>3, <2>4, <2>5 DEF UsedOf, UsedToday
  <1> QED BY <1>1, <1>2

(***************************************************************************)
(* What a step of w does to the accounts.                                  *)
(***************************************************************************)
\* No counter of the day is lowered.
Grows ==
    /\ day' = day
    /\ \A u \in Users : UsedOf(rows[u], day) <= UsedOf(rows'[u], day)

SameWork(v) ==
    /\ job'[v].user = job[v].user /\ job'[v].count = job[v].count
    /\ job'[v].left = job[v].left /\ job'[v].unlimited = job[v].unlimited

SameLedger(u) ==
    /\ ledger'.delivered[u] = ledger.delivered[u]
    /\ ledger'.uncharged[u] = ledger.uncharged[u]

\* The account of the user of w stays in order.
Settled(w, l) ==
    \A u \in Users :
      u = job[w].user /\ AccountOf(u, pc[w], job[w]) =>
        Account(l, job'[w], ledger'.delivered[u], ledger'.uncharged[u], UsedOf(rows'[u], day))

Accounts(w) ==
    \E l \in Locations :
      /\ Goto(w, l)
      /\ \A v \in Workers \ {w} : SameWork(v)
      /\ l \in Early => job'[w].count = 0
      /\ Grows
      /\ \A u \in Users : SameLedger(u) \/ (u = job[w].user /\ InFlight(w))
      /\ InFlight(w) => Settled(w, l)

\* The numbers of an account are natural.
LEMMA AccountNumbers ==
    ASSUME TypeInv, NEW u \in Users
    PROVE  /\ ledger.delivered[u] \in Nat /\ ledger.uncharged[u] \in Nat
           /\ UsedOf(rows[u], day) \in Nat /\ DailyLimit \in Nat
           /\ rows[u] \in MaybeRow /\ day \in Nat
  <1>1. rows[u] \in MaybeRow /\ day \in Nat
    BY DEF TypeInv, TypeOK, Table, MaybeRow
  <1> QED BY <1>1, UsedType, DailyLimitAssumption DEF TypeInv, TypeOK, History

\* One row changes, and its counter is not lowered.
LEMMA GrowsRow ==
    ASSUME TypeInv, NEW u \in Users, NEW r, UsedOf(rows[u], day) <= UsedOf(r, day),
           rows' = [rows EXCEPT ![u] = r], day' = day
    PROVE  Grows
  <1>1. \A x \in Users : rows'[x] = IF x = u THEN r ELSE rows[x]
    BY DEF TypeInv, TypeOK, Table
  <1>2. \A x \in Users : UsedOf(rows[x], day) \in Nat
    BY AccountNumbers
  <1> QED BY <1>1, <1>2 DEF Grows

LEMMA GrowsSame ==
    ASSUME TypeInv, UNCHANGED <<rows, day>>
    PROVE  Grows
  <1>1. \A x \in Users : UsedOf(rows[x], day) \in Nat
    BY AccountNumbers
  <1> QED BY <1>1 DEF Grows

\* A table whose counters of the day are those of the users table.
SameUse(table) ==
    /\ table \in Table(Users)
    /\ \A x \in Users : UsedOf(table[x], day) = UsedOf(rows[x], day)

LEMMA SameUseRows ==
    ASSUME TypeInv
    PROVE  SameUse(rows)
  BY DEF SameUse, TypeInv, TypeOK

\* get_user leaves every counter alone.
LEMMA SameUseRead ==
    ASSUME TypeInv, NEW u \in Users, NEW ok \in BOOLEAN, NEW saved \in BOOLEAN
    PROVE  SameUse(AfterRead(u, ok, saved))
  <1> DEFINE table == AfterRead(u, ok, saved)
             row == Left(rows[u], u = Owner, day, saved)
  <1>1. table \in Table(Users)
    BY ReadType DEF TypeInv
  <1>2. rows[u] \in MaybeRow /\ day \in Nat /\ (u = Owner) \in BOOLEAN
    BY AccountNumbers
  <1>3. UsedOf(row, day) = UsedOf(rows[u], day)
    BY <1>2, LeftUsed
  <1> HIDE DEF row
  <1>4. \A x \in Users : table[x] = IF ok /\ x = u THEN row ELSE rows[x]
    BY DEF AfterRead, TypeInv, TypeOK, Table, row
  <1> HIDE DEF table
  <1>5. \A x \in Users : UsedOf(table[x], day) = UsedOf(rows[x], day)
    BY <1>3, <1>4
  <1> QED BY <1>1, <1>5 DEF SameUse, table

LEMMA GrowsTable ==
    ASSUME TypeInv, NEW table, SameUse(table), rows' = table, day' = day
    PROVE  Grows /\ \A x \in Users : UsedOf(rows'[x], day) = UsedOf(rows[x], day)
  <1>1. \A x \in Users : UsedOf(rows[x], day) \in Nat
    BY AccountNumbers
  <1> QED BY <1>1 DEF Grows, SameUse

LEMMA GrowsRead ==
    ASSUME TypeInv, NEW u \in Users, NEW ok \in BOOLEAN, NEW saved \in BOOLEAN,
           rows' = AfterRead(u, ok, saved), day' = day
    PROVE  Grows
  BY SameUseRead, GrowsTable

\* Away from the files, the account does not depend on the locals.
LEMMA AccountAway ==
    ASSUME NEW l, l \notin Delivering, NEW i, NEW d \in Nat, NEW c \in Nat, NEW n \in Nat
    PROVE  Account(l, i, d, c, n) <=> d <= DailyLimit + c /\ d <= c + n
  BY DEF Account, Delivering

\* A step before or after the files: only the counter may grow.
LEMMA AccountsAway ==
    ASSUME TypeInv, TypeInv', NEW w \in Workers, NEW l \in Locations \ Delivering, Goto(w, l),
           pc[w] \notin Delivering, \A v \in Workers \ {w} : SameWork(v),
           l \in Early => job'[w].count = 0, Grows, \A u \in Users : SameLedger(u)
    PROVE  Accounts(w)
  <1>1. Settled(w, l)
    <2> SUFFICES ASSUME NEW u \in Users, AccountOf(u, pc[w], job[w])
                 PROVE  Account(l, job'[w], ledger'.delivered[u], ledger'.uncharged[u],
                                UsedOf(rows'[u], day))
      BY DEF Settled
    <2>1. UsedOf(rows'[u], day) \in Nat
      <3>1. rows'[u] \in MaybeRow /\ day \in Nat
        BY DEF TypeInv, TypeOK, Table, MaybeRow
      <3> QED BY <3>1, UsedType
    <2>2. UsedOf(rows[u], day) <= UsedOf(rows'[u], day)
      BY DEF Grows
    <2>3. /\ ledger.delivered[u] <= DailyLimit + ledger.uncharged[u]
          /\ ledger.delivered[u] <= ledger.uncharged[u] + UsedOf(rows[u], day)
      BY AccountNumbers, AccountAway DEF AccountOf
    <2>4. /\ ledger'.delivered[u] = ledger.delivered[u]
          /\ ledger'.uncharged[u] = ledger.uncharged[u]
      BY DEF SameLedger
    <2>5. ledger.delivered[u] <= ledger.uncharged[u] + UsedOf(rows'[u], day)
      BY <2>1, <2>2, <2>3, AccountNumbers
    <2> QED BY <2>1, <2>3, <2>4, <2>5, AccountNumbers, AccountAway
  <1> QED BY <1>1 DEF Accounts

\* SetJob changes the locals of w only.
LEMMA SetJobWork ==
    ASSUME TypeInv, NEW w \in Workers, NEW i, SetJob(w, i)
    PROVE  job'[w] = i /\ \A v \in Workers \ {w} : SameWork(v)
  BY DEF SetJob, SameWork, TypeInv, TypeOK

\* Locals and ledger as they were, or the locals of nobody.
LEMMA AccountsPlain ==
    ASSUME TypeInv, TypeInv', NEW w \in Workers, NEW l \in Locations \ Delivering, Goto(w, l),
           pc[w] \notin Delivering, NEW i, SetJob(w, i),
           l \in Early => i.count = 0, Grows, ledger' = ledger
    PROVE  Accounts(w)
  BY SetJobWork, AccountsAway DEF SameLedger

\* The commands.
LEMMA CommandsAccounts ==
    ASSUME TypeInv, TypeInv', NEW w \in Workers,
           Cancel(w) \/ KillAll(w) \/ SetRole(w) \/ Ban(w)
    PROVE  Accounts(w)
  <1> DEFINE c == Head(updates)
  <1>1. /\ pc[w] = "idle" /\ Goto(w, "reply") /\ c \in Command /\ day' = day
    BY TakeType DEF Cancel, KillAll, SetRole, Ban, Take
  <1>2. c.user \in Users /\ c.role \in Roles /\ c.days \in Nat
    BY <1>1 DEF Command
  <1>3. pc[w] \notin Delivering /\ "reply" \in Locations \ Delivering /\ "reply" \notin Early
    BY <1>1 DEF Delivering, InLoop, Locations, Early, Admitted
  <1>4. \A v \in Workers : SameWork(v)
    <2>1. UNCHANGED job \/ \E S : CancelAll(S)
      BY DEF Cancel, KillAll, SetRole, Ban
    <2>2. \A v \in Workers : job[v] \in Job
      BY DEF TypeInv, TypeOK
    <2>3. ASSUME NEW S, CancelAll(S), NEW v \in Workers
          PROVE  SameWork(v)
      BY <2>2, <2>3 DEF CancelAll, SameWork, Job
    <2> QED BY <2>1, <2>3 DEF SameWork
  <1>5. \A u \in Users : SameLedger(u)
    BY DEF Cancel, KillAll, SetRole, Ban, CancelAll, SameLedger, TypeInv, TypeOK, History
  <1>6. rows[c.user] \in MaybeRow /\ day \in Nat /\ UsedOf(rows[c.user], day) \in Nat
    BY <1>2, AccountNumbers
  <1>7. Grows
    <2>1. CASE Cancel(w) \/ KillAll(w)
      BY <1>1, <2>1, GrowsSame DEF Cancel, KillAll
    <2>2. CASE SetRole(w)
      <3> DEFINE e == IF c.days = 0 THEN 0 ELSE day + c.days
      <3>1. e \in Nat
        BY <1>2, <1>6
      <3> HIDE DEF e
      <3>2. UsedOf(SetUserRole(rows[c.user], c.role, e), day) = UsedOf(rows[c.user], day)
        BY <1>2, <1>6, <3>1, SetUserRoleUsed
      <3>3. rows' = [rows EXCEPT ![c.user] = SetUserRole(rows[c.user], c.role, e)] \/ rows' = rows
        BY <2>2 DEF SetRole, e
      <3>4. UsedOf(rows[c.user], day) <= UsedOf(SetUserRole(rows[c.user], c.role, e), day)
        BY <1>6, <3>2
      <3> QED BY <1>1, <1>2, <3>3, <3>4, GrowsSame, GrowsRow
    <2>3. CASE Ban(w)
      <3> DEFINE b == c.cmd = "ban"
      <3>1. b \in BOOLEAN
        OBVIOUS
      <3>2. rows' = [rows EXCEPT ![c.user] = BanUser(rows[c.user], b)] \/ rows' = rows
        BY <2>3 DEF Ban
      <3> HIDE DEF b
      <3>3. UsedOf(BanUser(rows[c.user], b), day) = UsedOf(rows[c.user], day)
        BY <1>6, <3>1, UpdatesUsed
      <3>4. UsedOf(rows[c.user], day) <= UsedOf(BanUser(rows[c.user], b), day)
        BY <1>6, <3>3
      <3> QED BY <1>1, <1>2, <3>2, <3>4, GrowsSame, GrowsRow
    <2> QED BY <2>1, <2>2, <2>3
  <1> QED BY <1>1, <1>3, <1>4, <1>5, <1>7, AccountsAway

\* A fresh download has counted no file.
LEMMA AdmissionAccounts ==
    ASSUME TypeInv, TypeInv', Unspent, NEW w \in Workers, StartDownload(w) \/ CheckSub(w)
    PROVE  Accounts(w)
  <1>1. day' = day /\ ledger' = ledger
    BY DEF StartDownload, CheckSub
  <1>2. {"reply", "forcesub", "announce"} \subseteq Locations \ Delivering
    BY DEF Locations, Admitted, Delivering, InLoop
  <1>3. CASE StartDownload(w)
    <2> DEFINE c == Head(updates)
    <2>1. c \in Command /\ pc[w] = "idle"
      BY <1>3, TakeType DEF StartDownload, Take
    <2>2. PICK ok \in DbOutcomes, saved \in DbOutcomes :
            /\ rows' = AfterRead(c.user, ok, saved)
            /\ \/ Goto(w, "reply") /\ SetJob(w, NoJob)
               \/ Goto(w, "forcesub") /\ SetJob(w, NewJob(c))
      BY <1>3 DEF StartDownload
    <2>3. c.user \in Users /\ ok \in BOOLEAN /\ saved \in BOOLEAN /\ pc[w] \notin Delivering
      BY <2>1, LimitsAssumption DEF Command, Delivering, InLoop
    <2>4. Grows
      BY <1>1, <2>2, <2>3, GrowsRead
    <2>5. NewJob(c).count = 0 /\ "reply" \notin Early
      BY DEF NewJob, Early, Admitted
    <2> QED BY <1>1, <1>2, <2>2, <2>3, <2>4, <2>5, AccountsPlain
  <1>4. CASE CheckSub(w)
    <2> DEFINE u == job[w].user
               quota(saved, reset) == CheckQuota(rows[u], u = Owner, day, saved, reset)
    <2>1. u \in Users /\ (u = Owner) \in BOOLEAN
      BY DEF TypeInv, TypeOK, Job
    <2>2. rows[u] \in MaybeRow /\ day \in Nat /\ UsedOf(rows[u], day) \in Nat
      BY <2>1, AccountNumbers
    <2>3. \A saved, reset \in BOOLEAN :
            UsedOf(quota(saved, reset).row, day) = UsedOf(rows[u], day)
      <3>1. \A row \in MaybeRow, isOwner \in BOOLEAN, d \in Nat, saved, reset \in BOOLEAN :
              UsedOf(CheckQuota(row, isOwner, d, saved, reset).row, d) = UsedOf(row, d)
        BY CheckQuotaUsed
      <3> DEFINE owns == u = Owner
      <3>2. owns \in BOOLEAN
        BY <2>1
      <3> HIDE DEF owns
      <3>3. \A saved, reset \in BOOLEAN :
              UsedOf(CheckQuota(rows[u], owns, day, saved, reset).row, day) = UsedOf(rows[u], day)
        BY <2>2, <3>1, <3>2
      <3> QED BY <3>3 DEF owns
    <2> HIDE DEF quota
    <2>4. \/ rows' = rows
          \/ \E saved, reset \in BOOLEAN : rows' = [rows EXCEPT ![u] = quota(saved, reset).row]
      BY <1>4, LimitsAssumption DEF CheckSub, quota
    <2>5. \A saved, reset \in BOOLEAN :
            UsedOf(rows[u], day) <= UsedOf(quota(saved, reset).row, day)
      BY <2>2, <2>3
    <2>6. Grows
      BY <1>1, <2>1, <2>4, <2>5, GrowsRow, GrowsSame
    <2>7. \/ Goto(w, "reply") /\ SetJob(w, NoJob)
          \/ Goto(w, "announce") /\ UNCHANGED job
      BY <1>4 DEF CheckSub, Refuse
    <2>8. pc[w] \notin Delivering /\ job[w].count = 0 /\ "reply" \notin Early
      BY <1>4 DEF CheckSub, Delivering, InLoop, Unspent, Early, Admitted
    <2>9. UNCHANGED job => SetJob(w, job[w])
      BY DEF SetJob, TypeInv, TypeOK
    <2> QED BY <1>1, <1>2, <2>6, <2>7, <2>8, <2>9, AccountsPlain
  <1> QED BY <1>3, <1>4

\* From the permit to the message.
LEMMA EnterAccounts ==
    ASSUME TypeInv, TypeInv', Unspent, NEW w \in Workers,
           Announce(w) \/ Busy(w) \/ WakeUp(w) \/ Probe(w) \/ StartClient(w)
    PROVE  Accounts(w)
  <1> DEFINE j == job[w]
  <1>1. day' = day /\ ledger' = ledger
    BY DEF Announce, Busy, WakeUp, Probe, StartClient
  <1>2. /\ pc[w] \notin Delivering /\ j.count = 0 /\ j \in Job /\ j.user \in Users
        /\ UNCHANGED job => SetJob(w, j)
    BY DEF Announce, Busy, WakeUp, Probe, StartClient, Delivering, InLoop, Unspent, Early,
           Admitted, TypeInv, TypeOK, Job, SetJob
  <1>3. {"idle", "busy", "waiting", "probe", "client", "check", "reject"}
          \subseteq Locations \ Delivering
    BY DEF Locations, Admitted, Held, Delivering, InLoop
  <1>4. "idle" \notin Early /\ NoJob.count = 0
    BY DEF Early, Admitted, NoJob, NewJob
  <1>5. \A user, link, isGroup : Gate(user, link, isGroup) \in {"client", "check", "reject"}
    BY DEF Gate
  <1>6. ASSUME NEW l \in {"idle", "busy", "waiting"}, Goto(w, l), UNCHANGED rows,
               SetJob(w, NoJob) \/ UNCHANGED job
        PROVE  Accounts(w)
    BY <1>1, <1>2, <1>3, <1>4, <1>6, GrowsSame, AccountsPlain
  <1>7. ASSUME Enter(w), UNCHANGED job
        PROVE  Accounts(w)
    <2>1. CASE j.link = "public"
      BY <1>1, <1>2, <1>3, <1>7, <2>1, GrowsSame, AccountsPlain DEF Enter
    <2>2. CASE j.link # "public"
      <3>1. PICK ok \in DbOutcomes, saved \in DbOutcomes :
              /\ Goto(w, Gate(Read(j.user, ok), j.link, FALSE))
              /\ rows' = AfterRead(j.user, ok, saved)
        BY <1>7, <2>2 DEF Enter
      <3>2. ok \in BOOLEAN /\ saved \in BOOLEAN
        BY LimitsAssumption
      <3>3. Grows
        BY <1>1, <1>2, <3>1, <3>2, GrowsRead
      <3>4. PICK l \in {"client", "check", "reject"} : Goto(w, l)
        BY <1>5, <3>1
      <3> QED BY <1>1, <1>2, <1>3, <1>7, <3>3, <3>4, AccountsPlain
    <2> QED BY <2>1, <2>2
  <1>8. CASE Probe(w)
    <2>1. PICK isGroup \in BOOLEAN, ok \in DbOutcomes, saved \in DbOutcomes :
             /\ Goto(w, Gate(Read(j.user, ok), j.link, isGroup))
             /\ rows' = AfterRead(j.user, ok, saved)
             /\ SetJob(w, [j EXCEPT !.direct = ~isGroup])
      BY <1>8 DEF Probe
    <2>2. ok \in BOOLEAN /\ saved \in BOOLEAN
      BY LimitsAssumption
    <2>3. Grows
      BY <1>1, <1>2, <2>1, <2>2, GrowsRead
    <2>4. [j EXCEPT !.direct = ~isGroup].count = 0
      BY <1>2 DEF Job
    <2>5. PICK l \in {"client", "check", "reject"} : Goto(w, l)
      BY <1>5, <2>1
    <2> QED BY <1>1, <1>2, <1>3, <2>1, <2>3, <2>4, <2>5, AccountsPlain
  <1>9. CASE StartClient(w)
    <2>1. PICK l \in {"check", "client", "reject"},
               i \in {[j EXCEPT !.owned = TRUE], [j EXCEPT !.attempt = @ + 1]} :
            Goto(w, l) /\ SetJob(w, i)
      BY <1>9 DEF StartClient
    <2>2. i.count = 0
      BY <1>2, <2>1 DEF Job
    <2>3. Grows
      BY <1>1, <1>9, GrowsSame DEF StartClient
    <2> QED BY <1>1, <1>2, <1>3, <2>1, <2>2, <2>3, AccountsPlain
  <1> QED BY <1>6, <1>7, <1>8, <1>9 DEF Announce, Busy, WakeUp, Raise

\* What charging a download does to the account of its user.
LEMMA ChargeAccount ==
    ASSUME TypeInv, NEW w, NEW j \in Job, NEW table, SameUse(table), Charge(w, j, table),
           day' = day, NEW u \in Users, u = j.user
    PROVE  /\ Grows
           /\ \A x \in Users : x # u => SameLedger(x)
           /\ ledger'.delivered[u] = ledger.delivered[u]
           /\ \/ /\ ledger'.uncharged[u] = ledger.uncharged[u]
                 /\ UsedOf(rows'[u], day) = UsedOf(rows[u], day) + j.count
              \/ ledger'.uncharged[u] = ledger.uncharged[u] + Metered(j, j.count)
  <1>1. PICK ok \in DbOutcomes :
          /\ rows' = IF ok THEN [table EXCEPT ![u] = IncrementQuota(@, j.count)] ELSE table
          /\ ledger' = IF ok /\ table[u] # NoRow /\ table[u].last_download_date = day
                       THEN ledger
                       ELSE Lost(ledger, u, Metered(j, j.count))
    BY DEF Charge
  <1> DEFINE inc == IncrementQuota(table[u], j.count)
  <1>2. table[u] \in MaybeRow /\ day \in Nat /\ j.count \in Nat
        /\ UsedOf(table[u], day) = UsedOf(rows[u], day)
    BY AccountNumbers DEF Job, SameUse, Table, MaybeRow
  <1>3. /\ UsedOf(table[u], day) <= UsedOf(inc, day)
        /\ table[u] # NoRow /\ table[u].last_download_date = day =>
              UsedOf(inc, day) = UsedOf(table[u], day) + j.count
    BY <1>2, UpdatesUsed
  <1> HIDE DEF inc
  <1>4. /\ \A x \in Users : x # u => rows'[x] = table[x]
        /\ rows'[u] = IF ok THEN inc ELSE table[u]
    BY <1>1 DEF inc, SameUse, Table
  <1>5. Grows
    <2>1. \A x \in Users : UsedOf(rows[x], day) \in Nat
      BY AccountNumbers
    <2>2. \A x \in Users : x # u => UsedOf(rows'[x], day) = UsedOf(rows[x], day)
      BY <1>4 DEF SameUse
    <2>3. UsedOf(rows[u], day) <= UsedOf(rows'[u], day)
      BY <1>2, <1>3, <1>4, <2>1
    <2> QED BY <2>1, <2>2, <2>3 DEF Grows
  <1>6. CASE ok /\ table[u] # NoRow /\ table[u].last_download_date = day
    <2>1. ledger' = ledger
      BY <1>1, <1>6
    <2> QED BY <1>2, <1>3, <1>4, <1>5, <1>6, <2>1 DEF SameLedger
  <1>7. CASE ~(ok /\ table[u] # NoRow /\ table[u].last_download_date = day)
    <2>1. ledger' = Lost(ledger, u, Metered(j, j.count)) /\ ledger \in History
      BY <1>1, <1>7 DEF TypeInv, TypeOK
    <2>2. /\ ledger'.delivered[u] = ledger.delivered[u]
          /\ ledger'.uncharged[u] = ledger.uncharged[u] + Metered(j, j.count)
          /\ \A x \in Users : x # u => SameLedger(x)
      BY <2>1 DEF Lost, History, SameLedger
    <2> QED BY <1>5, <2>2
  <1> QED BY <1>6, <1>7

\* A metered number is either none or all of it.
LEMMA MeteredOf ==
    ASSUME NEW j \in Job, NEW n \in Nat
    PROVE  /\ Metered(j, n) \in Nat /\ Metered(j, n) <= n
           /\ ~j.unlimited => Metered(j, n) = n
           /\ j.unlimited => Metered(j, n) = 0
  BY DEF Metered, Job

\* The head of the loop: the files left were granted, and the charge is due
\* when it ends.
LEMMA NextItemAccounts ==
    ASSUME TypeInv, TypeInv', NEW w \in Workers, InFlight(w), NEW j \in Job,
           j.user = job[w].user, NEW table, SameUse(table), NextItem(w, j, table), day' = day,
           \A u \in Users : u = job[w].user /\ AccountOf(u, pc[w], job[w])
                              => AccountOf(u, "text", j)
    PROVE  Accounts(w)
  <1>1. PICK u \in Users : u = j.user
    BY DEF Job
  <1>2. {"cancelling", "report", "text", "copy", "download"} \subseteq Locations
    BY DEF Locations, Held
  <1>3. \A l \in {"cancelling", "report", "text", "copy", "download"} : l \notin Early
    BY DEF Early, Admitted
  <1>4. j.left \in Nat /\ j.count \in Nat /\ Metered(j, j.count) \in Nat
        /\ Metered(j, j.count) <= j.count
    BY MeteredOf DEF Job
  <1> DEFINE d == ledger.delivered[u]
             c == ledger.uncharged[u]
             n == UsedOf(rows[u], day)
  <1>5. d \in Nat /\ c \in Nat /\ n \in Nat /\ DailyLimit \in Nat
    BY AccountNumbers
  <1>6. ASSUME AccountOf(u, pc[w], job[w])
        PROVE  /\ d <= DailyLimit + c /\ d <= c + n + Metered(j, j.count)
               /\ ~j.unlimited => d + j.left <= DailyLimit + c /\ j.left <= DailyLimit
    <2>1. AccountOf(u, "text", j)
      BY <1>1, <1>6
    <2> QED BY <2>1 DEF AccountOf, Account, Delivering, InLoop, ToGo
  <1> HIDE DEF d, c, n
  <1>7. CASE j.left > 0 /\ j.user \in flags
    <2>1. Goto(w, "cancelling") /\ SetJob(w, j) /\ rows' = table /\ UNCHANGED ledger
      BY <1>7 DEF NextItem
    <2>2. job'[w] = j /\ \A v \in Workers \ {w} : SameWork(v)
      BY <2>1, SetJobWork
    <2>4. Grows /\ UsedOf(rows'[u], day) = UsedOf(rows[u], day)
      BY <2>1, GrowsTable
    <2>3. Settled(w, "cancelling")
      BY <1>1, <1>6, <2>1, <2>2, <2>4 DEF Settled, Account, Delivering, InLoop, d, c, n
    <2> QED BY <1>2, <1>3, <2>1, <2>2, <2>3, <2>4 DEF Accounts, SameLedger
  <1>8. CASE ~(j.left > 0 /\ j.user \in flags)
    <2>1. PICK k \in 0 .. j.left :
           /\ SetJob(w, [j EXCEPT !.left = @ - k])
           /\ IF k = j.left
              THEN Charge(w, j, table) /\ Goto(w, "report")
              ELSE /\ \/ Goto(w, "text")
                      \/ Goto(w, IF j.direct THEN "copy" ELSE "download")
                   /\ rows' = table
                   /\ UNCHANGED ledger
      BY <1>8 DEF NextItem
    <2> DEFINE i == [j EXCEPT !.left = @ - k]
    <2>2. /\ i.left = j.left - k /\ i.count = j.count /\ i.unlimited = j.unlimited
          /\ i.left \in Nat /\ i.left <= j.left
      BY <1>4 DEF Job
    <2>3. job'[w] = i /\ \A v \in Workers \ {w} : SameWork(v)
      BY <2>1, SetJobWork
    <2>4. Metered(i, i.count) = Metered(j, j.count)
      BY <2>2 DEF Metered
    <2> HIDE DEF i
    <2>5. CASE k = j.left
      <3>1. Goto(w, "report") /\ Charge(w, j, table)
        BY <2>1, <2>5
      <3>2. /\ Grows
            /\ \A x \in Users : x # u => SameLedger(x)
            /\ ledger'.delivered[u] = d
            /\ \/ ledger'.uncharged[u] = c /\ UsedOf(rows'[u], day) = n + j.count
               \/ ledger'.uncharged[u] = c + Metered(j, j.count)
        BY <1>1, <3>1, ChargeAccount DEF d, c, n
      <3>3. UsedOf(rows'[u], day) \in Nat /\ n <= UsedOf(rows'[u], day)
        <4>1. rows'[u] \in MaybeRow /\ day \in Nat
          BY DEF TypeInv, TypeOK, Table, MaybeRow
        <4> QED BY <3>2, <4>1, UsedType DEF Grows, n
      <3>4. Settled(w, "report")
        <4> SUFFICES ASSUME AccountOf(u, pc[w], job[w])
                     PROVE  Account("report", job'[w], ledger'.delivered[u],
                                    ledger'.uncharged[u], UsedOf(rows'[u], day))
          BY <1>1 DEF Settled
        <4>1. "report" \notin Delivering
          BY DEF Delivering, InLoop
        <4>2. ledger'.uncharged[u] \in Nat
          BY <1>4, <1>5, <3>2
        <4>3. ledger'.delivered[u] <= DailyLimit + ledger'.uncharged[u]
          BY <1>4, <1>5, <1>6, <3>2
        <4>4. ledger'.delivered[u] <= ledger'.uncharged[u] + UsedOf(rows'[u], day)
          BY <1>4, <1>5, <1>6, <3>2, <3>3
        <4> QED BY <1>5, <3>2, <3>3, <4>1, <4>2, <4>3, <4>4, AccountAway
      <3> QED BY <1>1, <1>2, <1>3, <2>3, <3>1, <3>2, <3>4 DEF Accounts
    <2>6. CASE k # j.left
      <3>1. rows' = table /\ UNCHANGED ledger
        BY <2>1, <2>6
      <3>4. Grows /\ UsedOf(rows'[u], day) = UsedOf(rows[u], day)
        BY <3>1, GrowsTable
      <3>2. PICK l \in {"text", "copy", "download"} : Goto(w, l)
        BY <2>1, <2>6
      <3>3. Settled(w, l)
        <4> SUFFICES ASSUME AccountOf(u, pc[w], job[w])
                     PROVE  Account(l, i, d, c, n)
          BY <1>1, <2>3, <3>1, <3>4 DEF Settled, d, c, n
        <4>1. l \in Delivering /\ ToGo(l, i) = i.left
          BY DEF Delivering, InLoop, ToGo
        <4> QED BY <1>4, <1>5, <1>6, <2>2, <2>4, <4>1 DEF Account
      <3> QED BY <1>2, <1>3, <2>3, <3>1, <3>2, <3>3, <3>4 DEF Accounts, SameLedger
    <2> QED BY <2>5, <2>6
  <1> QED BY <1>7, <1>8

\* A file that is delivered was granted.
LEMMA DeliverAccounts ==
    ASSUME TypeInv, TypeInv', NEW w \in Workers, pc[w] \in {"text", "copy", "upload"},
           NEW ok \in BOOLEAN, Deliver(w, ok), day' = day
    PROVE  Accounts(w)
  <1> DEFINE j == job[w]
             i == [j EXCEPT !.count = @ + 1]
  <1>1. /\ j \in Job /\ j.left \in Nat /\ j.left > 0 /\ j.count \in Nat
        /\ InFlight(w)
    BY DEF TypeInv, TypeOK, ItemLeft, InLoop, Job, InFlight, Held
  <1>2. PICK u \in Users : u = j.user
    BY <1>1 DEF Job
  <1>3. /\ i \in Job /\ i.count = j.count + 1 /\ i.left = j.left
        /\ i.unlimited = j.unlimited
    BY <1>1 DEF Job
  <1>4. Goto(w, "dump") /\ SetJob(w, i)
    BY DEF Deliver
  <1>a. rows' = IF ok THEN [rows EXCEPT ![j.user] = UpdateLastDownload(@)] ELSE rows
    BY DEF Deliver
  <1>b. ledger' = [ledger EXCEPT !.delivered[j.user] = @ + Metered(j, 1)]
    BY DEF Deliver
  <1>5. job'[w] = i /\ \A v \in Workers \ {w} : SameWork(v)
    BY <1>4, SetJobWork
  <1> HIDE DEF i
  <1>6. /\ ledger'.delivered[u] = ledger.delivered[u] + Metered(j, 1)
        /\ ledger'.uncharged[u] = ledger.uncharged[u]
        /\ \A x \in Users : x # u => SameLedger(x)
    <2>1. ledger \in History
      BY DEF TypeInv, TypeOK
    <2> QED BY <1>2, <1>b, <2>1 DEF History, SameLedger
  <1>7. Grows /\ UsedOf(rows'[u], day) = UsedOf(rows[u], day)
    <2>1. rows[u] \in MaybeRow /\ day \in Nat /\ UsedOf(rows[u], day) \in Nat
      BY AccountNumbers
    <2>2. UsedOf(UpdateLastDownload(rows[u]), day) = UsedOf(rows[u], day)
      BY <2>1, UpdatesUsed
    <2>3. UsedOf(rows[u], day) <= UsedOf(UpdateLastDownload(rows[u]), day)
      BY <2>1, <2>2
    <2>4. ok => /\ rows' = [rows EXCEPT ![u] = UpdateLastDownload(rows[u])]
                /\ rows'[u] = UpdateLastDownload(rows[u])
      BY <1>2, <1>a DEF TypeInv, TypeOK, Table
    <2>5. ~ok => rows' = rows
      BY <1>a
    <2>6. Grows
      BY <2>3, <2>4, <2>5, GrowsRow, GrowsSame
    <2> QED BY <2>2, <2>4, <2>5, <2>6
  <1>8. Settled(w, "dump")
    <2> DEFINE d == ledger.delivered[u]
               c == ledger.uncharged[u]
               n == UsedOf(rows[u], day)
    <2> SUFFICES ASSUME Account(pc[w], j, d, c, n)
                 PROVE  Account("dump", i, d + Metered(j, 1), c, n)
      BY <1>2, <1>5, <1>6, <1>7 DEF Settled, AccountOf
    <2>1. d \in Nat /\ c \in Nat /\ n \in Nat /\ DailyLimit \in Nat
      BY AccountNumbers
    <2> HIDE DEF d, c, n
    <2>2. pc[w] \in InLoop /\ pc[w] \in Delivering /\ ToGo(pc[w], j) = j.left
      BY DEF InLoop, Delivering, ToGo
    <2>3. /\ d <= DailyLimit + c /\ d <= c + n + Metered(j, j.count)
          /\ ~j.unlimited => d + j.left <= DailyLimit + c /\ j.left <= DailyLimit
      BY <2>2 DEF Account
    <2>4. "dump" \in Delivering /\ ToGo("dump", i) = j.left - 1
      BY <1>3 DEF Delivering, InLoop, ToGo
    <2>5. CASE j.unlimited
      <3>1. Metered(j, 1) = 0 /\ Metered(j, j.count) = 0 /\ Metered(i, i.count) = 0
        BY <1>3, <2>5 DEF Metered
      <3> QED BY <1>3, <2>1, <2>3, <2>4, <2>5, <3>1 DEF Account
    <2>6. CASE ~j.unlimited
      <3>1. Metered(j, 1) = 1 /\ Metered(j, j.count) = j.count
            /\ Metered(i, i.count) = j.count + 1
        BY <1>3, <2>6 DEF Metered
      <3> QED BY <1>1, <1>3, <2>1, <2>3, <2>4, <2>6, <3>1 DEF Account
    <2> QED BY <2>5, <2>6
  <1>9. "dump" \in Locations /\ "dump" \notin Early
    BY DEF Locations, Held, Early, Admitted
  <1> QED BY <1>1, <1>2, <1>4, <1>5, <1>6, <1>7, <1>8, <1>9 DEF Accounts

\* A handler that gives up its files records the charge as lost, and goes
\* where no files are on their way.
LEMMA LostAccounts ==
    ASSUME TypeInv, TypeInv', NEW w \in Workers, pc[w] \in Delivering,
           NEW l \in Locations \ Delivering, l \notin Early, Goto(w, l), NEW i, SetJob(w, i),
           UNCHANGED <<rows, day>>,
           \A u \in Users :
             /\ ledger'.delivered[u] = ledger.delivered[u]
             /\ ledger'.uncharged[u] = ledger.uncharged[u] +
                  (IF u = job[w].user THEN Metered(job[w], job[w].count) ELSE 0)
    PROVE  Accounts(w)
  <1> DEFINE j == job[w]
  <1>1. j \in Job /\ j.count \in Nat /\ InFlight(w)
    BY DEF TypeInv, TypeOK, Job, InFlight, Delivering, InLoop, Held
  <1>2. Metered(j, j.count) \in Nat
    BY <1>1, MeteredOf
  <1>3. job'[w] = i /\ \A v \in Workers \ {w} : SameWork(v)
    BY SetJobWork
  <1>4. \A u \in Users : SameLedger(u) \/ u = j.user
    BY AccountNumbers DEF SameLedger
  <1>5. Settled(w, l)
    <2> SUFFICES ASSUME NEW u \in Users, u = j.user, AccountOf(u, pc[w], j)
                 PROVE  Account(l, i, ledger'.delivered[u], ledger'.uncharged[u],
                                UsedOf(rows[u], day))
      BY <1>3 DEF Settled
    <2> DEFINE d == ledger.delivered[u]
               c == ledger.uncharged[u]
               n == UsedOf(rows[u], day)
    <2>1. d \in Nat /\ c \in Nat /\ n \in Nat /\ DailyLimit \in Nat
      BY AccountNumbers
    <2>2. d <= DailyLimit + c /\ d <= c + n + Metered(j, j.count)
      BY DEF AccountOf, Account
    <2>3. ledger'.delivered[u] = d /\ ledger'.uncharged[u] = c + Metered(j, j.count)
      OBVIOUS
    <2> HIDE DEF d, c, n
    <2>4. c + Metered(j, j.count) \in Nat /\ d <= DailyLimit + (c + Metered(j, j.count))
          /\ d <= (c + Metered(j, j.count)) + n
      BY <1>2, <2>1, <2>2
    <2>5. Account(l, i, d, c + Metered(j, j.count), n)
      BY <2>1, <2>4, AccountAway
    <2> QED BY <2>3, <2>5 DEF n
  <1> QED BY <1>1, <1>3, <1>4, <1>5, GrowsSame DEF Accounts

\* The counter a handler looks at decides how many files it may deliver.
LEMMA FetchAccounts ==
    ASSUME TypeInv, TypeInv', Unspent, NEW w \in Workers, Fetch(w)
    PROVE  Accounts(w)
  <1> DEFINE j == job[w]
  <1>1. /\ pc[w] = "check" /\ pc[w] \notin Delivering /\ j \in Job /\ j.user \in Users
        /\ j.count = 0 /\ InFlight(w) /\ day' = day
    BY DEF Fetch, Delivering, InLoop, TypeInv, TypeOK, Job, Unspent, Early, InFlight, Held
  <1>2. ASSUME NEW l \in {"report", "reject"}, Goto(w, l), UNCHANGED <<job, rows, ledger>>
        PROVE  Accounts(w)
    <2>1. l \in Locations \ Delivering /\ l \notin Early
      BY DEF Locations, Held, Delivering, InLoop, Early, Admitted
    <2>2. SetJob(w, j)
      BY <1>2 DEF SetJob, TypeInv, TypeOK
    <2> QED BY <1>1, <1>2, <2>1, <2>2, GrowsSame, AccountsPlain
  <1>3. ASSUME NEW n \in Nat, NEW ok \in BOOLEAN, NEW saved \in BOOLEAN,
               LET quota == Remaining(Read(j.user, ok), day)
                   files == IF quota.unlimited \/ n < quota.left THEN n ELSE quota.left
               IN  /\ files # 0
                   /\ NextItem(w, [j EXCEPT !.unlimited = quota.unlimited, !.left = files],
                               AfterRead(j.user, ok, saved))
        PROVE  Accounts(w)
    <2> DEFINE row == Read(j.user, ok)
               quota == Remaining(row, day)
               files == IF quota.unlimited \/ n < quota.left THEN n ELSE quota.left
               i == [j EXCEPT !.unlimited = quota.unlimited, !.left = files]
               table == AfterRead(j.user, ok, saved)
    <2>1. day \in Nat /\ rows[j.user] \in MaybeRow /\ SameUse(table)
      BY <1>1, SameUseRead DEF TypeInv, TypeOK, Table, MaybeRow
    <2>2. row \in MaybeRow
      BY <1>1, <2>1, ReadType DEF TypeInv
    <2>3. quota.unlimited \in BOOLEAN /\ quota.left \in Nat
      BY <2>1, <2>2, RemainingType
    <2>4. row = NoRow \/ UsedOf(row, day) = UsedOf(rows[j.user], day)
      <3>1. (j.user = Owner) \in BOOLEAN
        OBVIOUS
      <3> QED BY <2>1, <3>1, GetUserUsed DEF Read
    <2>5. files # 0 /\ NextItem(w, i, table)
      BY <1>3
    <2>6. files \in Nat
      BY <2>3
    <2>7. ~quota.unlimited => /\ files <= DailyLimit
                              /\ UsedOf(rows[j.user], day) + files <= DailyLimit
      <3> SUFFICES ASSUME ~quota.unlimited
                   PROVE  /\ files <= DailyLimit
                          /\ UsedOf(rows[j.user], day) + files <= DailyLimit
        OBVIOUS
      <3>1. files <= quota.left /\ quota.left # 0
        BY <2>3, <2>5
      <3>2. row # NoRow
        BY <3>1 DEF Remaining
      <3>3. UsedOf(row, day) = UsedToday(row, day) /\ UsedOf(row, day) \in Nat
        BY <2>1, <2>2, <3>2, UsedType DEF UsedOf
      <3>4. quota.left = IF UsedToday(row, day) < DailyLimit
                         THEN DailyLimit - UsedToday(row, day) ELSE 0
        BY <3>2 DEF Remaining
      <3> HIDE DEF quota, files, row
      <3>5. UsedToday(row, day) \in Nat /\ UsedToday(row, day) < DailyLimit
            /\ quota.left = DailyLimit - UsedToday(row, day)
        BY <3>1, <3>3, <3>4
      <3>6. UsedOf(rows[j.user], day) = UsedToday(row, day)
        BY <2>4, <3>2, <3>3
      <3> QED BY <2>6, <3>1, <3>5, <3>6, DailyLimitAssumption
    <2> HIDE DEF quota, files, row, table
    <2>8. /\ i \in Job /\ i.user = j.user /\ i.count = 0 /\ i.left = files
          /\ i.unlimited = quota.unlimited
      BY <1>1, <2>3, <2>6 DEF Job
    <2> HIDE DEF i
    <2>9. ASSUME NEW u \in Users, u = j.user, AccountOf(u, pc[w], j)
          PROVE  AccountOf(u, "text", i)
      <3> DEFINE d == ledger.delivered[u]
                 c == ledger.uncharged[u]
                 m == UsedOf(rows[u], day)
      <3>1. d \in Nat /\ c \in Nat /\ m \in Nat /\ DailyLimit \in Nat
        BY AccountNumbers
      <3>2. d <= DailyLimit + c /\ d <= c + m
        BY <1>1, <2>9, <3>1, AccountAway DEF AccountOf
      <3>3. ~i.unlimited => i.left <= DailyLimit /\ m + i.left <= DailyLimit
        BY <2>7, <2>8, <2>9
      <3>4. Metered(i, i.count) = 0 /\ ToGo("text", i) = i.left /\ i.left \in Nat
        BY <2>6, <2>8 DEF Metered, ToGo
      <3> HIDE DEF d, c, m
      <3>5. Account("text", i, d, c, m)
        BY <3>1, <3>2, <3>3, <3>4 DEF Account
      <3> QED BY <3>5 DEF AccountOf, d, c, m
    <2> QED BY <1>1, <2>1, <2>5, <2>8, <2>9, NextItemAccounts
  <1>4. 1 .. (IF j.link = "story" THEN 1 ELSE MaxItems) \subseteq Nat
    BY LimitsAssumption
  <1>5. CASE \E l \in {"report", "reject"} : Goto(w, l) /\ UNCHANGED <<job, rows, ledger>>
    BY <1>2, <1>5
  <1>6. CASE \E ok, saved \in DbOutcomes :
               /\ Goto(w, "reject")
               /\ rows' = AfterRead(j.user, ok, saved)
               /\ UNCHANGED <<job, ledger>>
    <2>1. Grows
      BY <1>1, <1>6, LimitsAssumption, GrowsRead
    <2>2. "reject" \in Locations \ Delivering /\ "reject" \notin Early
      BY DEF Locations, Held, Delivering, InLoop, Early, Admitted
    <2>3. SetJob(w, j)
      BY <1>6 DEF SetJob, TypeInv, TypeOK
    <2> QED BY <1>1, <1>6, <2>1, <2>2, <2>3, AccountsPlain
  <1>7. CASE \E n \in Nat, ok, saved \in DbOutcomes :
               LET quota == Remaining(Read(j.user, ok), day)
                   files == IF quota.unlimited \/ n < quota.left THEN n ELSE quota.left
               IN  /\ files # 0
                   /\ NextItem(w, [j EXCEPT !.unlimited = quota.unlimited, !.left = files],
                               AfterRead(j.user, ok, saved))
    <2>1. PICK n \in Nat, ok \in DbOutcomes, saved \in DbOutcomes :
               LET quota == Remaining(Read(j.user, ok), day)
                   files == IF quota.unlimited \/ n < quota.left THEN n ELSE quota.left
               IN  /\ files # 0
                   /\ NextItem(w, [j EXCEPT !.unlimited = quota.unlimited, !.left = files],
                               AfterRead(j.user, ok, saved))
      BY <1>7
    <2>2. ok \in BOOLEAN /\ saved \in BOOLEAN
      BY LimitsAssumption
    <2> QED BY <1>3, <2>1, <2>2
  <1> QED BY <1>4, <1>5, <1>6, <1>7 DEF Fetch

\* The file a handler is done with no longer counts as left.
LEMMA DoneAccounts ==
    ASSUME TypeInv, NEW w \in Workers, pc[w] \in InLoop, NEW u \in Users,
           AccountOf(u, pc[w], job[w])
    PROVE  AccountOf(u, "text", Done(job[w]))
  <1> DEFINE j == job[w]
             i == Done(j)
  <1>1. j \in Job /\ j.left \in Nat /\ j.left > 0
    BY DEF TypeInv, TypeOK, ItemLeft, Job
  <1>2. i.left = j.left - 1 /\ i.count = j.count /\ i.unlimited = j.unlimited
    BY <1>1 DEF Done, Job
  <1>3. Metered(i, i.count) = Metered(j, j.count)
    BY <1>2 DEF Metered
  <1>4. ToGo("text", i) = j.left - 1 /\ ToGo(pc[w], j) \in {j.left, j.left - 1}
    BY <1>2 DEF ToGo
  <1>5. "text" \in InLoop /\ "text" \in Delivering /\ pc[w] \in Delivering
    BY DEF InLoop, Delivering
  <1> HIDE DEF i, j
  <1> DEFINE d == ledger.delivered[u]
             c == ledger.uncharged[u]
             n == UsedOf(rows[u], day)
  <1>6. Account(pc[w], j, d, c, n)
    BY DEF AccountOf, j
  <1>7. d \in Nat /\ c \in Nat /\ n \in Nat /\ DailyLimit \in Nat
    BY AccountNumbers
  <1> HIDE DEF d, c, n
  <1>8. /\ d <= DailyLimit + c /\ d <= c + n + Metered(j, j.count)
        /\ ~j.unlimited => d + ToGo(pc[w], j) <= DailyLimit + c /\ ToGo(pc[w], j) <= DailyLimit
    BY <1>5, <1>6 DEF Account
  <1>9. ~i.unlimited => d + ToGo("text", i) <= DailyLimit + c /\ ToGo("text", i) <= DailyLimit
    BY <1>1, <1>2, <1>4, <1>7, <1>8
  <1>10. Account("text", i, d, c, n)
    BY <1>3, <1>5, <1>8, <1>9 DEF Account
  <1> QED BY <1>10 DEF AccountOf, d, c, n, i, j

\* A step within the handling of one file.
LEMMA FileAccounts ==
    ASSUME TypeInv, TypeInv', NEW w \in Workers, pc[w] \in InLoop \ {"dump"},
           NEW l \in InLoop \ {"dump"}, Goto(w, l), UNCHANGED <<job, rows, ledger, day>>
    PROVE  Accounts(w)
  <1>1. l \in Locations /\ l \notin Early /\ l \in Delivering /\ pc[w] \in Delivering
    BY DEF Locations, Held, InLoop, Early, Admitted, Delivering
  <1>2. Settled(w, l)
    BY <1>1 DEF Settled, AccountOf, Account, ToGo
  <1> QED BY <1>1, <1>2, GrowsSame DEF Accounts, SameWork, SameLedger

\* An exception: the files counted are recorded as not charged.
LEMMA AbortAccounts ==
    ASSUME TypeInv, TypeInv', NEW w \in Workers, pc[w] \in InLoop, Abort(w), day' = day
    PROVE  Accounts(w)
  <1> DEFINE j == job[w]
  <1>1. j \in Job /\ Metered(j, j.count) \in Nat /\ ledger \in History
    BY MeteredOf DEF TypeInv, TypeOK, Job
  <1>2. ledger' = Lost(ledger, j.user, Metered(j, j.count))
    BY DEF Abort
  <1>3. \A u \in Users :
          /\ ledger'.delivered[u] = ledger.delivered[u]
          /\ ledger'.uncharged[u] = ledger.uncharged[u] +
                 (IF u = j.user THEN Metered(j, j.count) ELSE 0)
    BY <1>1, <1>2 DEF Lost, History
  <1>4. Goto(w, "report") /\ SetJob(w, j) /\ UNCHANGED rows
    BY DEF Abort, SetJob, TypeInv, TypeOK
  <1>5. "report" \in Locations \ Delivering /\ "report" \notin Early /\ pc[w] \in Delivering
    BY DEF Locations, Held, Delivering, InLoop, Early, Admitted
  <1> QED BY <1>3, <1>4, <1>5, LostAccounts

\* The loop over the files.
LEMMA LoopAccounts ==
    ASSUME TypeInv, TypeInv', NEW w \in Workers,
           \/ SendText(w) \/ Copy(w) \/ Dump(w)
           \/ Download(w) \/ UpWakeUp(w) \/ Upload(w)
    PROVE  Accounts(w)
  <1>1. pc[w] \in InLoop /\ TypeOK /\ job[w].left > 0 /\ InFlight(w) /\ day' = day
    BY DEF SendText, Copy, Dump, Download, UpWakeUp, Upload, InLoop, TypeInv, ItemLeft,
           InFlight, Held
  <1>2. ASSUME NEW ok \in DbOutcomes, Deliver(w, ok), pc[w] \in {"text", "copy", "upload"}
        PROVE  Accounts(w)
    <2>1. ok \in BOOLEAN
      BY LimitsAssumption
    <2> QED BY <1>1, <1>2, <2>1, DeliverAccounts
  <1>3. CASE NextItem(w, Done(job[w]), rows)
    <2>1. Done(job[w]) \in Job /\ Done(job[w]).user = job[w].user
      BY <1>1, DoneType
    <2> QED BY <1>1, <1>3, <2>1, SameUseRows, DoneAccounts, NextItemAccounts
  <1>4. CASE Abort(w)
    BY <1>1, <1>4, AbortAccounts
  <1>5. ASSUME NEW l \in {"download", "upwait", "upload"}, Goto(w, l),
               UNCHANGED <<job, rows, ledger>>, pc[w] # "dump"
        PROVE  Accounts(w)
    <2>1. l \in InLoop \ {"dump"}
      BY DEF InLoop
    <2> QED BY <1>1, <1>5, <2>1, FileAccounts
  <1>6. CASE SendText(w)
    BY <1>2, <1>3, <1>6 DEF SendText
  <1>7. CASE Copy(w)
    BY <1>2, <1>5, <1>7 DEF Copy
  <1>8. CASE Dump(w)
    BY <1>3, <1>8 DEF Dump
  <1>9. CASE Download(w)
    BY <1>3, <1>4, <1>5, <1>9 DEF Download
  <1>10. CASE UpWakeUp(w)
    BY <1>5, <1>10 DEF UpWakeUp
  <1>11. CASE Upload(w)
    BY <1>2, <1>4, <1>11 DEF Upload
  <1> QED BY <1>6, <1>7, <1>8, <1>9, <1>10, <1>11

\* The ends of the handler.
LEMMA EndsAccounts ==
    ASSUME TypeInv, TypeInv', NEW w \in Workers,
           Cancelling(w) \/ Reject(w) \/ Report(w) \/ Leave(w)
    PROVE  Accounts(w)
  <1> DEFINE j == job[w]
  <1>1. /\ j \in Job /\ Metered(j, j.count) \in Nat /\ ledger \in History
        /\ UNCHANGED job => SetJob(w, j)
    BY MeteredOf DEF TypeInv, TypeOK, Job, SetJob
  <1>2. UNCHANGED <<rows, day>>
    BY DEF Cancelling, Reject, Report, Leave
  <1>3. \A l \in {"idle", "stopping", "report"} : l \in Locations \ Delivering /\ l \notin Early
    BY DEF Locations, Held, Delivering, InLoop, Early, Admitted
  <1>4. CASE Cancelling(w)
    <2> DEFINE k == Lost(ledger, j.user, Metered(j, j.count))
    <2>1. pc[w] \in Delivering
      BY <1>4 DEF Cancelling, Delivering
    <2>2. k \in History /\ k.delivered = ledger.delivered
          /\ \A u \in Users : k.uncharged[u] = ledger.uncharged[u] +
                 (IF u = j.user THEN Metered(j, j.count) ELSE 0)
      BY <1>1 DEF Lost, History
    <2> HIDE DEF k
    <2>3. ledger' = k \/ ledger' = [k EXCEPT !.surplus = @ + 1]
      BY <1>4 DEF Cancelling, k
    <2>4. ledger'.delivered = k.delivered /\ ledger'.uncharged = k.uncharged
      BY <2>2, <2>3 DEF History
    <2>5. PICK l \in {"idle", "stopping", "report"} : Goto(w, l) /\ \E i : SetJob(w, i)
      BY <1>1, <1>4 DEF Cancelling, ReturnEarly, Finally
    <2>6. PICK i : SetJob(w, i)
      BY <2>5
    <2> QED BY <1>2, <1>3, <2>1, <2>2, <2>4, <2>5, <2>6, LostAccounts
  <1>5. CASE Reject(w) \/ Report(w) \/ Leave(w)
    <2>1. pc[w] \notin Delivering
      BY <1>5 DEF Reject, Report, Leave, Delivering, InLoop
    <2>2. ledger' = ledger \/ ledger' = [ledger EXCEPT !.surplus = @ + 1]
      BY <1>5 DEF Reject, Report, Leave
    <2>3. \A u \in Users : SameLedger(u)
      BY <1>1, <2>2 DEF SameLedger, History
    <2>4. PICK l \in {"idle", "stopping", "report"} : Goto(w, l) /\ \E i : SetJob(w, i)
      BY <1>1, <1>5 DEF Reject, Report, Leave, ReturnEarly, Finally
    <2>5. PICK i : SetJob(w, i)
      BY <2>4
    <2>6. \A v \in Workers \ {w} : SameWork(v)
      BY <2>4, <2>5, SetJobWork
    <2> QED BY <1>2, <1>3, <2>1, <2>3, <2>4, <2>5, <2>6, GrowsSame, AccountsAway
  <1> QED BY <1>4, <1>5

LEMMA WorkerAccounts ==
    ASSUME TypeInv, TypeInv', Unspent, NEW w \in Workers, WorkerStep(w)
    PROVE  Accounts(w)
  BY CommandsAccounts, AdmissionAccounts, EnterAccounts, FetchAccounts, LoopAccounts,
     EndsAccounts DEF WorkerStep

\* A larger counter, and locals with the same work, leave an account in order.
LEMMA AccountGrows ==
    ASSUME NEW l, NEW i \in Job, NEW d \in Nat, NEW c \in Nat, NEW n \in Nat, NEW m \in Nat,
           n <= m, Account(l, i, d, c, n), NEW k,
           k.count = i.count, k.left = i.left, k.unlimited = i.unlimited
    PROVE  Account(l, k, d, c, m)
  <1>1. Metered(k, k.count) = Metered(i, i.count) /\ Metered(i, i.count) \in Nat
        /\ ToGo(l, k) = ToGo(l, i)
    BY DEF Metered, ToGo, Job
  <1>2. d <= DailyLimit + c
    BY DEF Account
  <1>3. d <= c + m + (IF l \in Delivering THEN Metered(k, k.count) ELSE 0)
    <2> DEFINE x == IF l \in Delivering THEN Metered(i, i.count) ELSE 0
    <2>1. x \in Nat /\ d <= c + n + x
      BY <1>1 DEF Account
    <2>2. x = IF l \in Delivering THEN Metered(k, k.count) ELSE 0
      BY <1>1
    <2> HIDE DEF x
    <2>3. d <= c + m + x
      BY <2>1
    <2> QED BY <2>2, <2>3
  <1>4. l \in InLoop /\ ~k.unlimited => /\ d + ToGo(l, k) <= DailyLimit + c
                                        /\ ToGo(l, k) <= DailyLimit
    BY <1>1 DEF Account
  <1> QED BY <1>2, <1>3, <1>4 DEF Account

\* The accounts stay in order: the user of w has no other handler, and
\* everybody else's account is left alone, but for a counter that grows.
LEMMA StepQuota ==
    ASSUME TypeInv, TypeInv', OneDownloadPerUser, QuotaInv, NEW w \in Workers,
           Tracks(w), Accounts(w)
    PROVE  QuotaInv'
  <1>1. PICK l \in Locations : Goto(w, l) /\ Roster(w, l)
    BY DEF Tracks
  <1>2. \A v \in Workers : pc'[v] = IF v = w THEN l ELSE pc[v]
    BY <1>1 DEF Goto, TypeInv, TypeOK
  <1>3. /\ \A v \in Workers \ {w} : SameWork(v)
        /\ l \in Early => job'[w].count = 0
        /\ Grows
        /\ \A u \in Users : SameLedger(u) \/ (u = job[w].user /\ InFlight(w))
        /\ InFlight(w) => Settled(w, l)
    <2>1. PICK k \in Locations :
            /\ Goto(w, k)
            /\ \A v \in Workers \ {w} : SameWork(v)
            /\ k \in Early => job'[w].count = 0
            /\ Grows
            /\ \A u \in Users : SameLedger(u) \/ (u = job[w].user /\ InFlight(w))
            /\ InFlight(w) => Settled(w, k)
      BY DEF Accounts
    <2>2. k = l
      BY <1>2, <2>1 DEF Goto, TypeInv, TypeOK
    <2> QED BY <2>1, <2>2
  <1>4. Unspent'
    BY <1>2, <1>3 DEF QuotaInv, Unspent, SameWork
  <1>5. \A v \in Workers : /\ InFlight(v) <=> pc[v] \in Flying
                           /\ InFlight(v)' <=> pc'[v] \in Flying
    BY DEF InFlight, Flying
  <1>6. \A v \in Workers \ {w} : InFlight(v)' <=> InFlight(v)
    BY <1>2, <1>5
  <1>7. ledger.cancelled \subseteq ledger'.cancelled
    BY <1>1 DEF Roster
  <1> SUFFICES ASSUME NEW u \in Users, u \notin ledger'.cancelled
               PROVE  /\ \A v \in Workers :
                           InFlight(v)' /\ job'[v].user = u => AccountOf(u, pc[v], job[v])'
                      /\ (\A v \in Workers : InFlight(v)' => job'[v].user # u)
                           => AccountOf(u, "idle", NoJob)'
    BY <1>4 DEF QuotaInv
  <1> DEFINE d == ledger.delivered[u]
             c == ledger.uncharged[u]
             n == UsedOf(rows[u], day)
             e == ledger'.delivered[u]
             b == ledger'.uncharged[u]
             m == UsedOf(rows'[u], day)
  <1>8. /\ d \in Nat /\ c \in Nat /\ n \in Nat /\ DailyLimit \in Nat
    BY AccountNumbers
  <1>9. e \in Nat /\ b \in Nat /\ m \in Nat
    <2>1. rows'[u] \in MaybeRow /\ day \in Nat
      BY DEF TypeInv, TypeOK, Table, MaybeRow
    <2> QED BY <2>1, UsedType DEF TypeInv, TypeOK, History
  <1>10. n <= m /\ day' = day
    BY <1>3 DEF Grows
  <1>11. \A v \in Workers : /\ InFlight(v) /\ job[v].user = u => Account(pc[v], job[v], d, c, n)
                            /\ InFlight(v) /\ job[v].user = u => u \in active
    BY <1>7 DEF QuotaInv, AccountOf, OneDownloadPerUser
  <1>12. (\A v \in Workers : InFlight(v) => job[v].user # u) => Account("idle", NoJob, d, c, n)
    BY <1>7 DEF QuotaInv, AccountOf
  <1>13. \A v \in Workers : job[v] \in Job /\ job'[v] \in Job
    BY DEF TypeInv, TypeOK
  <1>14. "idle" \notin Delivering /\ "announce" \notin Delivering
    BY DEF Delivering, InLoop
  <1>15. SUFFICES /\ \A v \in Workers :
                       InFlight(v)' /\ job'[v].user = u => Account(pc'[v], job'[v], e, b, m)
                  /\ (\A v \in Workers : InFlight(v)' => job'[v].user # u)
                       => Account("idle", NoJob, e, b, m)
    <2>1. \A v \in Workers : AccountOf(u, pc[v], job[v])' <=> Account(pc'[v], job'[v], e, b, m)
      BY <1>10 DEF AccountOf, Account, ToGo, Metered
    <2>2. AccountOf(u, "idle", NoJob)' <=> Account("idle", NoJob, e, b, m)
      BY <1>10 DEF AccountOf, Account, ToGo, Metered, NoJob, NewJob
    <2> QED BY <2>1, <2>2
  <1>16. CASE InFlight(w) /\ job[w].user = u
    <2>1. \A v \in Workers \ {w} : ~(InFlight(v) /\ job[v].user = u)
      BY <1>7, <1>16 DEF OneDownloadPerUser
    <2>2. \A v \in Workers \ {w} : ~(InFlight(v)' /\ job'[v].user = u)
      BY <1>3, <1>6, <2>1 DEF SameWork
    <2>3. Account(l, job'[w], e, b, m)
      BY <1>3, <1>11, <1>16 DEF Settled, AccountOf
    <2>4. l \in Flying => InFlight(w)' /\ job'[w].user = u
      BY <1>1, <1>2, <1>5, <1>16 DEF Roster, SameUser
    <2>5. l \notin Flying => Account("idle", NoJob, e, b, m)
      <3>1. l \notin Flying => l \notin Delivering
        BY DEF Flying, Delivering, InLoop, Held
      <3> HIDE DEF d, c, n, e, b, m
      <3> QED BY <1>9, <1>14, <2>3, <3>1, AccountAway
    <2> HIDE DEF d, c, n, e, b, m
    <2> QED BY <1>2, <2>2, <2>3, <2>4, <2>5
  <1>17. CASE ~(InFlight(w) /\ job[w].user = u)
    <2>1. e = d /\ b = c
      BY <1>3, <1>17 DEF SameLedger
    <2> HIDE DEF d, c, n, e, b, m
    <2>2. ASSUME NEW v \in Workers, v # w, InFlight(v)', job'[v].user = u
          PROVE  Account(pc'[v], job'[v], e, b, m)
      <3>1. pc'[v] = pc[v] /\ SameWork(v) /\ InFlight(v)
        BY <1>2, <1>3, <1>6, <2>2
      <3>2. job[v].user = u /\ job'[v].count = job[v].count /\ job'[v].left = job[v].left
            /\ job'[v].unlimited = job[v].unlimited
        BY <2>2, <3>1 DEF SameWork
      <3>3. Account(pc[v], job[v], d, c, n)
        BY <1>11, <3>1, <3>2
      <3> QED BY <1>8, <1>9, <1>10, <1>13, <2>1, <3>1, <3>2, <3>3, AccountGrows
    <2>3. ASSUME InFlight(w)', job'[w].user = u
          PROVE  Account(l, job'[w], e, b, m)
      <3>1. /\ l = "announce" /\ u \notin active
        BY <1>1, <1>2, <1>5, <1>17, <2>3 DEF Roster, SameUser
      <3>2. Account("idle", NoJob, d, c, n)
        BY <1>11, <1>12, <3>1
      <3>3. d <= DailyLimit + c /\ d <= c + n
        BY <1>8, <1>14, <3>2, AccountAway
      <3>4. d <= c + m
        BY <1>8, <1>9, <1>10, <3>3
      <3> QED BY <1>8, <1>9, <1>14, <2>1, <3>1, <3>3, <3>4, AccountAway
    <2>4. ASSUME \A v \in Workers : InFlight(v)' => job'[v].user # u
          PROVE  Account("idle", NoJob, e, b, m)
      <3>1. \A v \in Workers : InFlight(v) => job[v].user # u
        BY <1>3, <1>6, <1>17, <2>4 DEF SameWork
      <3>2. d <= DailyLimit + c /\ d <= c + n
        BY <1>8, <1>12, <1>14, <3>1, AccountAway
      <3>3. d <= c + m
        BY <1>8, <1>9, <1>10, <3>2
      <3> QED BY <1>8, <1>9, <1>14, <2>1, <3>2, <3>3, AccountAway
    <2> QED BY <1>2, <2>2, <2>3, <2>4
  <1> QED BY <1>16, <1>17

\* Midnight starts a new account, with no more left to deliver than the limit.
LEMMA EnvironmentQuota ==
    ASSUME TypeInv, TypeInv', QuotaInv, Environment
    PROVE  QuotaInv'
  <1>1. UNCHANGED <<pc, job>> /\ ledger'.cancelled = ledger.cancelled
    BY EnvironmentKept
  <1>2. \A v \in Workers : job[v] \in Job /\ job[v].left \in Nat
    BY DEF TypeInv, TypeOK, Job
  <1>3. ASSUME NEW u \in Users, NEW l, NEW i, i \in Job, AccountOf(u, l, i)
        PROVE  Account(l, i, ledger'.delivered[u], ledger'.uncharged[u], UsedOf(rows'[u], day'))
    <2>1. CASE NewDay
      <3>1. ledger'.delivered[u] = 0 /\ ledger'.uncharged[u] = 0
        BY <2>1 DEF NewDay, NoHistory, TypeInv, TypeOK, History
      <3>2. UsedOf(rows'[u], day') \in Nat
        <4>1. rows'[u] \in MaybeRow /\ day' \in Nat
          BY DEF TypeInv, TypeOK, Table, MaybeRow
        <4> QED BY <4>1, UsedType
      <3>3. Metered(i, i.count) \in Nat /\ i.left \in Nat
        BY <1>3, MeteredOf DEF Job
      <3>4. l \in InLoop /\ ~i.unlimited => ToGo(l, i) <= DailyLimit
        BY <1>3 DEF AccountOf, Account
      <3>5. ToGo(l, i) \in Int
        BY <3>3 DEF ToGo
      <3> QED BY <3>1, <3>2, <3>3, <3>4, <3>5, DailyLimitAssumption DEF Account
    <2>2. ASSUME NEW x \in Users, CooldownOver(x)
          PROVE  UsedOf(rows'[u], day') = UsedOf(rows[u], day) /\ ledger' = ledger
      <3>1. /\ rows[x] \in Row /\ day' = day /\ ledger' = ledger
            /\ rows' = [rows EXCEPT ![x] = [rows[x] EXCEPT !.cooling = FALSE]]
        BY <2>2 DEF CooldownOver, TypeInv, TypeOK, Table
      <3> DEFINE r == [rows[x] EXCEPT !.cooling = FALSE]
      <3>2. r \in Row
        BY <3>1 DEF Row
      <3>3. r # NoRow /\ rows[x] # NoRow
        BY <3>1, <3>2, NoRowAssumption
      <3>4. /\ r.downloads_today = rows[x].downloads_today
            /\ r.last_download_date = rows[x].last_download_date
        BY <3>1 DEF Row
      <3>5. rows'[u] = IF u = x THEN r ELSE rows[u]
        BY <3>1 DEF TypeInv, TypeOK, Table
      <3> HIDE DEF r
      <3>6. UsedOf(r, day) = UsedOf(rows[x], day)
        BY <3>3, <3>4 DEF UsedOf, UsedToday
      <3> QED BY <3>1, <3>5, <3>6
    <2>3. CASE \E e \in Commands : Send(e)
      BY <1>3, <2>3 DEF Send, AccountOf
    <2>4. CASE UNCHANGED vars
      BY <1>3, <2>4 DEF vars, AccountOf
    <2> QED BY <1>3, <2>1, <2>2, <2>3, <2>4 DEF Environment, AccountOf
  <1>4. Unspent'
    BY <1>1 DEF QuotaInv, Unspent
  <1>5. \A v \in Workers : InFlight(v)' <=> InFlight(v)
    BY <1>1 DEF InFlight
  <1>6. ASSUME NEW u \in Users, u \notin ledger'.cancelled
        PROVE  /\ \A v \in Workers :
                    InFlight(v)' /\ job'[v].user = u => AccountOf(u, pc[v], job[v])'
               /\ (\A v \in Workers : InFlight(v)' => job'[v].user # u)
                    => AccountOf(u, "idle", NoJob)'
    <2>1. /\ \A v \in Workers : InFlight(v) /\ job[v].user = u => AccountOf(u, pc[v], job[v])
          /\ (\A v \in Workers : InFlight(v) => job[v].user # u) => AccountOf(u, "idle", NoJob)
      BY <1>1, <1>6 DEF QuotaInv
    <2>2. ASSUME NEW l, NEW i \in Job, AccountOf(u, l, i)
          PROVE  Account(l, i, ledger'.delivered[u], ledger'.uncharged[u], UsedOf(rows'[u], day'))
      BY <1>3, <2>2
    <2>3. ASSUME NEW v \in Workers, InFlight(v)', job'[v].user = u
          PROVE  AccountOf(u, pc[v], job[v])'
      <3>1. AccountOf(u, pc[v], job[v])
        BY <1>1, <1>5, <2>1, <2>3
      <3>2. Account(pc'[v], job'[v], ledger'.delivered[u], ledger'.uncharged[u],
                    UsedOf(rows'[u], day'))
        BY <1>1, <1>2, <2>2, <3>1
      <3> QED BY <3>2 DEF AccountOf
    <2>4. ASSUME \A v \in Workers : InFlight(v)' => job'[v].user # u
          PROVE  AccountOf(u, "idle", NoJob)'
      <3>1. AccountOf(u, "idle", NoJob)
        BY <1>1, <1>5, <2>1, <2>4
      <3>2. Account("idle", NoJob, ledger'.delivered[u], ledger'.uncharged[u],
                    UsedOf(rows'[u], day'))
        BY <2>2, <3>1, NoJobType
      <3> QED BY <3>2 DEF AccountOf
    <2> QED BY <2>3, <2>4
  <1> QED BY <1>4, <1>6 DEF QuotaInv

LEMMA InitQuota ==
    ASSUME Init
    PROVE  QuotaInv
  <1>1. Unspent
    BY DEF Init, Unspent, Early, Admitted
  <1>2. \A v \in Workers : ~InFlight(v)
    BY DEF Init, InFlight, Admitted, Held
  <1>3. ASSUME NEW u \in Users
        PROVE  AccountOf(u, "idle", NoJob)
    <2>1. UsedOf(rows[u], day) \in Nat
      BY InitType, AccountNumbers
    <2>2. ledger.delivered[u] = 0 /\ ledger.uncharged[u] = 0
      BY DEF Init, NoHistory
    <2>3. "idle" \notin Delivering
      BY DEF Delivering, InLoop
    <2> QED BY <2>1, <2>2, <2>3, AccountAway, DailyLimitAssumption DEF AccountOf
  <1> QED BY <1>1, <1>2, <1>3 DEF QuotaInv

\* The daily quota (QuotaHolds): whoever was never taken off the active list
\* by a /cancel or /killall is delivered no more files in a day than the
\* limit and the charges that were lost, whatever the interleaving with
\* other downloads, role changes, bans, database errors and midnight.
THEOREM QuotaKept == Spec => []QuotaHolds
  <1>1. Init => QuotaInv
    BY InitQuota
  <1>2. /\ TypeInv /\ TypeInv' /\ OneDownloadPerUser /\ QuotaInv /\ [Next]_vars
        => QuotaInv'
    <2> SUFFICES ASSUME TypeInv, TypeInv', OneDownloadPerUser, QuotaInv, [Next]_vars
                 PROVE  QuotaInv'
      OBVIOUS
    <2>1. CASE Environment
      BY <2>1, EnvironmentQuota
    <2>2. CASE \E w \in Workers : WorkerStep(w)
      BY <2>2, WorkerKept, WorkerAccounts, StepQuota DEF Kept, QuotaInv
    <2> QED BY <2>1, <2>2, StepCases
  <1>3. TypeInv /\ QuotaInv => QuotaHolds
    BY DEF QuotaInv, AccountOf, Account, QuotaHolds
  <1> QED BY <1>1, <1>2, <1>3, TypeInvariance, SingleDownloads, PTL DEF Spec
==============================================================================
