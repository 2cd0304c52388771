------------------------------ MODULE Downloads ------------------------------
(***************************************************************************)
(* The download path of the bot: updates wait in the dispatcher's queue    *)
(* until one of its handler workers is free; a worker runs one handler to  *)
(* its end, suspending at every await that reaches Telegram.  Every action *)
(* below is what one worker does between two such suspensions of           *)
(* download_handler (bot/handlers.py), or a whole handler that changes     *)
(* shared state in one go (/cancel, /killall, /setrole, /ban, /unban).     *)
(* The workers share active_downloads, cancel_flags, the two semaphores    *)
(* and the users table.                                                    *)
(***************************************************************************)
EXTENDS Semaphore, UserRow, FiniteSets

CONSTANTS
  Workers,        \* handler workers of the dispatcher (Client.workers)
  Users,          \* telegram ids
  Owner,          \* OWNER_ID, possibly not in Users
  Commands,       \* the updates that may arrive
  InitTables,     \* possible contents of the users table at start-up
  MaxDownloads,   \* MAX_CONCURRENT_DOWNLOADS
  MaxUploads,     \* MAX_CONCURRENT_UPLOADS
  ClientAttempts, \* max_retries of the user client
  MaxItems,       \* bound: files of a media group
  MaxCommands,    \* bound: updates that arrive in a behaviour
  MaxDay,         \* bound: the last day
  DbOutcomes      \* TRUE: a database call works; FALSE: it raises and is swallowed

CommandNames == {"link", "cancel", "killall", "setrole", "ban", "unban"}
Links        == {"public", "private", "story", "invalid"}
Command      == [cmd : CommandNames, user : Users, link : Links,
                 role : Roles, days : Nat]

ASSUME CommandsAssumption == Commands \subseteq Command
ASSUME TablesAssumption   == InitTables \subseteq Table(Users)
ASSUME WorkersAssumption  == IsFiniteSet(Workers)
ASSUME UsersAssumption    == Users # {}
ASSUME LimitsAssumption   ==
    /\ MaxDownloads \in Nat \ {0}
    /\ MaxUploads \in Nat \ {0}
    /\ ClientAttempts \in Nat \ {0}
    /\ MaxItems \in Nat \ {0}
    /\ MaxCommands \in Nat
    /\ MaxDay \in Nat \ {0}
    /\ DbOutcomes \subseteq BOOLEAN

VARIABLES
  updates,  \* the dispatcher's updates_queue
  sent,     \* how many updates have arrived
  pc,       \* where each worker is suspended
  job,      \* the local variables of the download it runs
  active,   \* active_downloads
  flags,    \* cancel_flags
  global_download_semaphore,
  global_upload_semaphore,
  rows,     \* the users table
  day,      \* today's UTC date
  ledger    \* history: what the handlers did, for the properties

shared == <<active, flags>>
sems   == <<global_download_semaphore, global_upload_semaphore>>
queue  == <<updates, sent>>
vars   == <<updates, sent, pc, job, active, flags, global_download_semaphore,
            global_upload_semaphore, rows, day, ledger>>

(***************************************************************************)
(* Where a worker can be.  "forcesub", ..., "stopping" are the awaits of   *)
(* download_handler; "reply" is the closing reply of a handler that has    *)
(* nothing left to do.                                                     *)
(***************************************************************************)
Admitted  == {"announce", "busy", "waiting"}
Held      == {"probe", "client", "check", "text", "copy", "download",
              "upwait", "upload", "dump", "cancelling", "reject", "report"}
Locations == {"idle", "reply", "forcesub", "stopping"} \cup Admitted \cup Held

InFlight(w) == pc[w] \in Admitted \cup Held
Holders     == {w \in Workers : pc[w] \in Held}
Uploaders   == {w \in Workers : pc[w] = "upload"}

Job == [user : Users, link : Links, attempt : Nat, owned : BOOLEAN,
        direct : BOOLEAN, unlimited : BOOLEAN, left : Nat, count : Nat,
        asked : BOOLEAN]

\* asked is history: a /cancel or /killall hit this handler.
NewJob(c) == [user |-> c.user, link |-> c.link, attempt |-> 0, owned |-> FALSE,
              direct |-> FALSE, unlimited |-> FALSE, left |-> 0, count |-> 0,
              asked |-> FALSE]

(***************************************************************************)
(* History: surplus counts the second releases of one permit; cancelled    *)
(* holds the users whose entry /cancel or /killall ever took out of        *)
(* active_downloads; delivered and uncharged count, per user and for the   *)
(* current day, the files sent under a quota and those among the files     *)
(* sent that increment_quota failed to record.                             *)
(***************************************************************************)
NoHistory == [surplus |-> 0, cancelled |-> {},
              delivered |-> [u \in Users |-> 0], uncharged |-> [u \in Users |-> 0]]

History == [surplus : Nat, cancelled : SUBSET Users,
            delivered : [Users -> Nat], uncharged : [Users -> Nat]]

\* The locals of a worker that runs no download.
NoJob == NewJob([user |-> CHOOSE u \in Users : TRUE, link |-> "invalid"])

Lost(l, u, n)     == [l EXCEPT !.uncharged[u] = @ + n]
Metered(j, n)     == IF j.unlimited THEN 0 ELSE n

Init ==
    /\ updates = <<>>
    /\ sent = 0
    /\ pc = [w \in Workers |-> "idle"]
    /\ job = [w \in Workers |-> NoJob]
    /\ active = {}
    /\ flags = {}
    /\ global_download_semaphore = Fresh(MaxDownloads)
    /\ global_upload_semaphore = Fresh(MaxUploads)
    /\ rows \in InitTables
    /\ day = 1
    /\ ledger = NoHistory

Goto(w, l) == pc' = [pc EXCEPT ![w] = l]
SetJob(w, j) == job' = [job EXCEPT ![w] = j]

\* get_user(u): the row it returns under outcome ok, and the table it leaves
\* when a new role of the owner was saved or was not.
Read(u, ok) == IF ok THEN GetUser(rows[u], u = Owner, day) ELSE NoRow
AfterRead(u, ok, saved) ==
    IF ok THEN [rows EXCEPT ![u] = Left(@, u = Owner, day, saved)] ELSE rows

(***************************************************************************)
(* The environment.                                                        *)
(***************************************************************************)
\* An update arrives and is put on the dispatcher's queue.
Send(c) ==
    /\ sent < MaxCommands
    /\ updates' = Append(updates, c)
    /\ sent' = sent + 1
    /\ UNCHANGED <<pc, job, shared, sems, rows, day, ledger>>

\* Midnight: the day's history starts anew.
NewDay ==
    /\ day < MaxDay
    /\ day' = day + 1
    /\ ledger' = [ledger EXCEPT !.delivered = NoHistory.delivered,
                                !.uncharged = NoHistory.uncharged]
    /\ UNCHANGED <<queue, pc, job, shared, sems, rows>>

\* FREE_USER_COOLDOWN seconds have passed since the last download.
CooldownOver(u) ==
    /\ rows[u] # NoRow /\ rows[u].cooling
    /\ rows' = [rows EXCEPT ![u].cooling = FALSE]
    /\ UNCHANGED <<queue, pc, job, shared, sems, day, ledger>>

(***************************************************************************)
(* handler_worker takes the next update and starts its handler.            *)
(***************************************************************************)
Take(w, cmd) ==
    /\ pc[w] = "idle"
    /\ updates # <<>>
    /\ Head(updates).cmd = cmd
    /\ updates' = Tail(updates)

\* download_handler up to verify_force_sub: the cooldown of a free user.
StartDownload(w) ==
    LET c == Head(updates)
    IN  /\ Take(w, "link")
        /\ \E ok, saved \in DbOutcomes :
             LET user    == Read(c.user, ok)
                 cooling == user # NoRow /\ user.role = "free" /\ user.cooling
             IN  /\ rows' = AfterRead(c.user, ok, saved)
                 /\ IF cooling
                    THEN Goto(w, "reply") /\ SetJob(w, NoJob)
                    ELSE Goto(w, "forcesub") /\ SetJob(w, NewJob(c))
        /\ UNCHANGED <<sent, shared, sems, day, ledger>>

\* Flag the users of S and take them off the active list.
CancelAll(S) ==
    /\ flags' = flags \cup S
    /\ active' = active \ S
    /\ job' = [w \in Workers |->
                 [job[w] EXCEPT !.asked = @ \/ (InFlight(w) /\ job[w].user \in S)]]
    /\ ledger' = [ledger EXCEPT !.cancelled = @ \cup S]

\* /cancel (cancel_downloads)
Cancel(w) ==
    LET u == Head(updates).user
    IN  /\ Take(w, "cancel")
        /\ Goto(w, "reply")
        /\ \/ u \in active /\ CancelAll({u})
           \/ /\ u \notin active
              /\ flags' = flags \ {u}
              /\ UNCHANGED <<active, job, ledger>>
        /\ UNCHANGED <<sent, sems, rows, day>>

\* Mutant of KillAll: the handlers that queue for a permit are abandoned,
\* and stay in the semaphore's queue.
KillAllDropsWaiters(w) ==
    /\ Take(w, "killall")
    /\ pc' = [v \in Workers |-> IF v = w \/ pc[v] = "waiting" THEN "reply" ELSE pc[v]]
    /\ CancelAll(active)
    /\ UNCHANGED <<sent, sems, rows, day>>

\* /killall (kill_all_processes), sent by the owner
KillAll(w) ==
    /\ Take(w, "killall")
    /\ Goto(w, "reply")
    /\ CancelAll(active)
    /\ UNCHANGED <<sent, sems, rows, day>>

\* /setrole <user> <role> [days], sent by the owner; no days, no expiry
SetRole(w) ==
    LET c == Head(updates)
    IN  /\ Take(w, "setrole")
        /\ Goto(w, "reply")
        /\ \E ok \in DbOutcomes :
             rows' = IF ok
                     THEN [rows EXCEPT ![c.user] = SetUserRole(@, c.role,
                                         IF c.days = 0 THEN 0 ELSE day + c.days)]
                     ELSE rows
        /\ UNCHANGED <<sent, job, shared, sems, day, ledger>>

\* /ban and /unban, sent by the owner
Ban(w) ==
    LET c == Head(updates)
    IN  /\ Take(w, "ban") \/ Take(w, "unban")
        /\ Goto(w, "reply")
        /\ \E ok \in DbOutcomes :
             rows' = IF ok THEN [rows EXCEPT ![c.user] = BanUser(@, c.cmd = "ban")]
                           ELSE rows
        /\ UNCHANGED <<sent, job, shared, sems, day, ledger>>

(***************************************************************************)
(* Admission: force subscription, quota, active list, download semaphore.  *)
(***************************************************************************)
\* The handler replies that there will be no download.
Refuse(w) == Goto(w, "reply") /\ SetJob(w, NoJob) /\ UNCHANGED active

\* Mutant of CheckSub: the active list is not looked at.
CheckSubForgetsActive(w) ==
    LET u == job[w].user
        quota == CheckQuota(rows[u], u = Owner, day, TRUE, TRUE)
    IN  /\ pc[w] = "forcesub"
        /\ \/ Refuse(w) /\ UNCHANGED rows
           \/ /\ rows' = [rows EXCEPT ![u] = quota.row]
              /\ IF quota.allowed
                 THEN active' = active \cup {u} /\ Goto(w, "announce") /\ UNCHANGED job
                 ELSE Refuse(w)
        /\ UNCHANGED <<queue, flags, sems, day, ledger>>

\* verify_force_sub answers; then the quota and the active list are checked
\* and the user is added, all without a suspension.
CheckSub(w) ==
    LET u == job[w].user
    IN  /\ pc[w] = "forcesub"
        /\ \/ Refuse(w) /\ UNCHANGED rows       \* not subscribed
           \/ /\ FALSE \in DbOutcomes           \* "User not found."
              /\ Refuse(w) /\ UNCHANGED rows
           \/ /\ TRUE \in DbOutcomes
              /\ \E saved, reset \in DbOutcomes :
                   LET quota == CheckQuota(rows[u], u = Owner, day, saved, reset)
                   IN  /\ rows' = [rows EXCEPT ![u] = quota.row]
                       /\ IF quota.allowed /\ u \notin active
                          THEN active' = active \cup {u} /\ Goto(w, "announce") /\ UNCHANGED job
                          ELSE Refuse(w)
        /\ UNCHANGED <<queue, flags, sems, day, ledger>>

\* Lines 303-345 once the kind of chat is known: who must be logged in.
Gate(user, link, isGroup) ==
    LET own == link \in {"private", "story"} \/ isGroup
    IN  IF ~own THEN "check"
        ELSE IF HasSession(user) THEN "client" ELSE "reject"

\* The handler holds a permit: a public link asks Telegram what chat it
\* points to, any other goes straight to the login gate.
Enter(w) ==
    LET j == job[w]
    IN  IF j.link = "public"
        THEN Goto(w, "probe") /\ UNCHANGED rows
        ELSE \E ok, saved \in DbOutcomes :
               /\ Goto(w, Gate(Read(j.user, ok), j.link, FALSE))
               /\ rows' = AfterRead(j.user, ok, saved)

\* An exception before the `try' leaves the handler with the entry in place.
Raise(w) == Goto(w, "idle") /\ SetJob(w, NoJob) /\ UNCHANGED <<rows, sems>>

\* `await message.reply("Checking link")', then the look at the semaphore.
Announce(w) ==
    /\ pc[w] = "announce"
    /\ \/ Raise(w)
       \/ /\ Locked(global_download_semaphore)
          /\ Goto(w, "busy")
          /\ UNCHANGED <<job, rows, sems>>
       \/ /\ ~Locked(global_download_semaphore)
          /\ global_download_semaphore' = TakePermit(global_download_semaphore)
          /\ Enter(w)
          /\ UNCHANGED <<job, global_upload_semaphore>>
    /\ UNCHANGED <<queue, shared, day, ledger>>

\* `await status_msg.edit_text("Server busy")', then acquire().
Busy(w) ==
    /\ pc[w] = "busy"
    /\ \/ Raise(w)
       \/ /\ Locked(global_download_semaphore)
          /\ global_download_semaphore' = Enqueue(global_download_semaphore, w)
          /\ Goto(w, "waiting")
          /\ UNCHANGED <<job, rows, global_upload_semaphore>>
       \/ /\ ~Locked(global_download_semaphore)
          /\ global_download_semaphore' = TakePermit(global_download_semaphore)
          /\ Enter(w)
          /\ UNCHANGED <<job, global_upload_semaphore>>
    /\ UNCHANGED <<queue, shared, day, ledger>>

\* Mutant of WakeUp: the woken handler takes a permit of its own.
WakeUpTakesTwo(w) ==
    /\ pc[w] = "waiting"
    /\ CanResume(global_download_semaphore, w)
    /\ global_download_semaphore' = TakePermit(Resume(global_download_semaphore))
    /\ Enter(w)
    /\ UNCHANGED <<queue, job, shared, global_upload_semaphore, day, ledger>>

\* acquire() returns to a handler that had queued up.
WakeUp(w) ==
    /\ pc[w] = "waiting"
    /\ CanResume(global_download_semaphore, w)
    /\ global_download_semaphore' = Resume(global_download_semaphore)
    /\ Enter(w)
    /\ UNCHANGED <<queue, job, shared, global_upload_semaphore, day, ledger>>

(***************************************************************************)
(* The download proper.                                                    *)
(***************************************************************************)
\* get_chat answered, failed or timed out (an unknown chat is no group).
Probe(w) ==
    LET j == job[w]
    IN  /\ pc[w] = "probe"
        /\ \E isGroup \in BOOLEAN, ok, saved \in DbOutcomes :
             /\ Goto(w, Gate(Read(j.user, ok), j.link, isGroup))
             /\ rows' = AfterRead(j.user, ok, saved)
             /\ SetJob(w, [j EXCEPT !.direct = ~isGroup])
        /\ UNCHANGED <<queue, shared, sems, day, ledger>>

\* One attempt to start the user's own client ended.  It need not end: the
\* session's start tries again for ever while the connection fails.
StartClient(w) ==
    /\ pc[w] = "client"
    /\ \/ /\ Goto(w, "check")
          /\ SetJob(w, [job[w] EXCEPT !.owned = TRUE])
       \/ /\ Goto(w, IF job[w].attempt + 1 < ClientAttempts THEN "client" ELSE "reject")
          /\ SetJob(w, [job[w] EXCEPT !.attempt = @ + 1])
    /\ UNCHANGED <<queue, shared, sems, rows, day, ledger>>

\* increment_quota after the loop, on the users table as it then is.  The
\* charge is lost when the write fails and when the counter belongs to an
\* earlier day.
Charge(w, j, table) ==
    \E ok \in DbOutcomes :
      /\ rows' = IF ok THEN [table EXCEPT ![j.user] = IncrementQuota(@, j.count)] ELSE table
      /\ ledger' = IF ok /\ table[j.user] # NoRow /\ table[j.user].last_download_date = day
                   THEN ledger
                   ELSE Lost(ledger, j.user, Metered(j, j.count))

\* The head of the loop over the files, j.left of which are still to do:
\* the cancel flag, the items without media or text (k of them, skipped
\* without a suspension), the next item or the end of the loop.
NextItem(w, j, table) ==
    IF j.left > 0 /\ j.user \in flags
    THEN /\ Goto(w, "cancelling")
         /\ SetJob(w, j)
         /\ rows' = table
         /\ UNCHANGED ledger
    ELSE \E k \in 0 .. j.left :
           /\ SetJob(w, [j EXCEPT !.left = @ - k])
           /\ IF k = j.left
              THEN Charge(w, j, table) /\ Goto(w, "report")
              ELSE /\ \/ Goto(w, "text")
                      \/ Goto(w, IF j.direct THEN "copy" ELSE "download")
                   /\ rows' = table
                   /\ UNCHANGED ledger

\* "Checking media", get_messages or get_stories, get_media_group; then the
\* quota left (another get_user) decides how many of the n files are taken.
Fetch(w) ==
    LET j == job[w]
    IN  /\ pc[w] = "check"
        /\ \/ /\ Goto(w, "report")                   \* an exception, a bad link
              /\ UNCHANGED <<job, rows, ledger>>
           \/ /\ j.link # "invalid"                  \* no such message
              /\ Goto(w, "reject")
              /\ UNCHANGED <<job, rows, ledger>>
           \/ /\ j.link # "invalid"
              /\ \E n \in 1 .. (IF j.link = "story" THEN 1 ELSE MaxItems),
                    ok, saved \in DbOutcomes :
                   LET quota == Remaining(Read(j.user, ok), day)
                       files == IF quota.unlimited \/ n < quota.left THEN n ELSE quota.left
                       table == AfterRead(j.user, ok, saved)
                   IN  IF files = 0
                       THEN Goto(w, "reject") /\ rows' = table /\ UNCHANGED <<job, ledger>>
                       ELSE NextItem(w, [j EXCEPT !.unlimited = quota.unlimited,
                                                  !.left = files], table)
        /\ UNCHANGED <<queue, shared, sems, day>>

\* A file reached the user: the cooldown starts, the loop counts it.
Deliver(w, ok) ==
    LET j == job[w]
    IN  /\ rows' = IF ok THEN [rows EXCEPT ![j.user] = UpdateLastDownload(@)] ELSE rows
        /\ SetJob(w, [j EXCEPT !.count = @ + 1])
        /\ ledger' = [ledger EXCEPT !.delivered[j.user] = @ + Metered(j, 1)]
        /\ Goto(w, "dump")

\* An exception inside the outer `try': the files counted are not charged.
Abort(w) ==
    /\ ledger' = Lost(ledger, job[w].user, Metered(job[w], job[w].count))
    /\ Goto(w, "report")
    /\ UNCHANGED <<job, rows>>

\* The loop goes on to the next of the files.
Done(j) == [j EXCEPT !.left = @ - 1]

\* A text message is sent to the user, or sending it failed.
SendText(w) ==
    /\ pc[w] = "text"
    /\ \/ \E ok \in DbOutcomes : Deliver(w, ok)
       \/ NextItem(w, Done(job[w]), rows)
    /\ UNCHANGED <<queue, shared, sems, day>>

\* copy_message, with the download as fallback.
Copy(w) ==
    /\ pc[w] = "copy"
    /\ \/ \E ok \in DbOutcomes : Deliver(w, ok)
       \/ /\ Goto(w, "download")
          /\ UNCHANGED <<job, rows, ledger>>
    /\ UNCHANGED <<queue, shared, sems, day>>

\* download_media_fast returned a path, returned None, raised or timed out.
Download(w) ==
    /\ pc[w] = "download"
    /\ \/ /\ Locked(global_upload_semaphore)
          /\ global_upload_semaphore' = Enqueue(global_upload_semaphore, w)
          /\ Goto(w, "upwait")
          /\ UNCHANGED <<job, rows, ledger>>
       \/ /\ ~Locked(global_upload_semaphore)
          /\ global_upload_semaphore' = TakePermit(global_upload_semaphore)
          /\ Goto(w, "upload")
          /\ UNCHANGED <<job, rows, ledger>>
       \/ NextItem(w, Done(job[w]), rows) /\ UNCHANGED global_upload_semaphore
       \/ Abort(w) /\ UNCHANGED global_upload_semaphore
    /\ UNCHANGED <<queue, shared, global_download_semaphore, day>>

\* acquire() of the upload semaphore returns.
UpWakeUp(w) ==
    /\ pc[w] = "upwait"
    /\ CanResume(global_upload_semaphore, w)
    /\ global_upload_semaphore' = Resume(global_upload_semaphore)
    /\ Goto(w, "upload")
    /\ UNCHANGED <<queue, job, shared, global_download_semaphore, rows, day, ledger>>

\* Mutant of Upload: the release is not in a `finally'.
UploadLeaksOnError(w) ==
    /\ pc[w] = "upload"
    /\ \/ /\ global_upload_semaphore' = Release(global_upload_semaphore)
          /\ \E ok \in DbOutcomes : Deliver(w, ok)
       \/ Abort(w) /\ UNCHANGED global_upload_semaphore
    /\ UNCHANGED <<queue, shared, global_download_semaphore, day>>

\* The upload ends, well or not; its permit is released either way.  The
\* thumbnail is downloaded and the file sent without a time limit, and
\* either may never end (GetFile, SaveFile): both permits are then kept.
Upload(w) ==
    /\ pc[w] = "upload"
    /\ global_upload_semaphore' = Release(global_upload_semaphore)
    /\ \/ \E ok \in DbOutcomes : Deliver(w, ok)
       \/ Abort(w)
    /\ UNCHANGED <<queue, shared, global_download_semaphore, day>>

\* The copy to the dump channel ended, well or not.
Dump(w) ==
    /\ pc[w] = "dump"
    /\ NextItem(w, Done(job[w]), rows)
    /\ UNCHANGED <<queue, shared, sems, day>>

(***************************************************************************)
(* The ends of the handler.                                                *)
(***************************************************************************)
\* Mutant of Finally: the handler ends without its release.
FinallyKeepsPermit(w, s) ==
    /\ active' = active \ {job[w].user}
    /\ global_download_semaphore' = s
    /\ Goto(w, IF job[w].owned THEN "stopping" ELSE "idle")
    /\ SetJob(w, NoJob)

\* `finally', reached with the permits released so far in s.
Finally(w, s) ==
    /\ active' = active \ {job[w].user}
    /\ global_download_semaphore' = Release(s)
    /\ Goto(w, IF job[w].owned THEN "stopping" ELSE "idle")
    /\ SetJob(w, NoJob)

\* A `return' inside the `try' that has already released the permit.
ReturnEarly(w) == Finally(w, Release(global_download_semaphore))

\* "Download cancelled by user", then the early return, or an exception.
Cancelling(w) ==
    LET j == job[w]
        l == Lost(ledger, j.user, Metered(j, j.count))
    IN  /\ pc[w] = "cancelling"
        /\ \/ /\ ReturnEarly(w)
              /\ flags' = flags \ {j.user}
              /\ ledger' = [l EXCEPT !.surplus = @ + 1]
           \/ /\ Goto(w, "report")
              /\ ledger' = l
              /\ UNCHANGED <<shared, job, global_download_semaphore>>
        /\ UNCHANGED <<queue, global_upload_semaphore, rows, day>>

\* A refusal (no login, no client, no message, no quota), then the early
\* return, or an exception.
Reject(w) ==
    /\ pc[w] = "reject"
    /\ \/ /\ ReturnEarly(w)
          /\ ledger' = [ledger EXCEPT !.surplus = @ + 1]
       \/ /\ Goto(w, "report")
          /\ UNCHANGED <<active, job, global_download_semaphore, ledger>>
    /\ UNCHANGED <<queue, flags, global_upload_semaphore, rows, day>>

\* The last status of the handler, whatever becomes of it, then `finally'.
Report(w) ==
    /\ pc[w] = "report"
    /\ Finally(w, global_download_semaphore)
    /\ UNCHANGED <<queue, flags, global_upload_semaphore, rows, day, ledger>>

\* The user client is stopped (which may take for ever), or a closing reply
\* is sent.
Leave(w) ==
    /\ pc[w] \in {"stopping", "reply"}
    /\ Goto(w, "idle")
    /\ UNCHANGED <<queue, job, shared, sems, rows, day, ledger>>

WorkerStep(w) ==
    \/ StartDownload(w) \/ Cancel(w) \/ KillAll(w) \/ SetRole(w) \/ Ban(w)
    \/ CheckSub(w) \/ Announce(w) \/ Busy(w) \/ WakeUp(w)
    \/ Probe(w) \/ StartClient(w) \/ Fetch(w)
    \/ SendText(w) \/ Copy(w) \/ Download(w) \/ UpWakeUp(w) \/ Upload(w) \/ Dump(w)
    \/ Cancelling(w) \/ Reject(w) \/ Report(w) \/ Leave(w)

Next ==
    \/ \E c \in Commands : Send(c)
    \/ NewDay
    \/ \E u \in Users : CooldownOver(u)
    \/ \E w \in Workers : WorkerStep(w)

Spec == Init /\ [][Next]_vars

(***************************************************************************)
(* The awaits that nothing limits: the start and the stop of a user's own  *)
(* client, and the thumbnail's download and the sending under the upload   *)
(* permit.  Whether they end is not the bot's to decide, so no fairness is *)
(* assumed of them.                                                        *)
(*                                                                         *)
(* Every other await ends: get_chat has a limit of 10 seconds, a download  *)
(* of 20 minutes, a request to Telegram the time-outs and retries of       *)
(* Session.invoke; and the event loop runs every task that is ready.       *)
(* Nothing is assumed of the users.                                        *)
(***************************************************************************)
NoTimeLimit == {"client", "upload", "stopping"}
Fairness == \A w \in Workers :
                WF_vars(pc[w] \notin NoTimeLimit /\ WorkerStep(w))
FairSpec == Spec /\ Fairness

-----------------------------------------------------------------------------
(***************************************************************************)
(* Correctness.                                                            *)
(***************************************************************************)
TypeOK ==
    /\ updates \in Seq(Command)
    /\ sent \in Nat
    /\ pc \in [Workers -> Locations]
    /\ job \in [Workers -> Job]
    /\ active \subseteq Users
    /\ flags \subseteq Users
    /\ global_download_semaphore \in SemaphoreOf(Workers)
    /\ global_upload_semaphore \in SemaphoreOf(Workers)
    /\ rows \in Table(Users)
    /\ day \in Nat \ {0}
    /\ ledger \in History

\* Every permit of the download semaphore is free, on its way to a woken
\* handler or held, up to the permits that early returns released twice:
\* no path through download_handler loses one or releases one too many more.
PermitAccounting ==
    global_download_semaphore.value + global_download_semaphore.woken
        + Cardinality(Holders) = MaxDownloads + ledger.surplus

\* The upload permits balance exactly, on every path, exceptions included;
\* so no more than MAX_CONCURRENT_UPLOADS uploads ever run.
UploadAccounting ==
    global_upload_semaphore.value + global_upload_semaphore.woken
        + Cardinality(Uploaders) = MaxUploads

\* A permit is never free while a handler sleeps on the semaphore, unless
\* a woken handler is about to pass it on; and exactly the suspended
\* handlers are queued, each once.
Queued(s, loc) ==
    /\ {s.waiters[i] : i \in 1 .. Len(s.waiters)} = {w \in Workers : pc[w] = loc}
    /\ \A i, k \in 1 .. Len(s.waiters) : i # k => s.waiters[i] # s.waiters[k]
NoStrandedHandler ==
    /\ NoLostWakeUp(global_download_semaphore)
    /\ NoLostWakeUp(global_upload_semaphore)
    /\ Queued(global_download_semaphore, "waiting")
    /\ Queued(global_upload_semaphore, "upwait")

\* active_downloads does its job for every user whom no /cancel or /killall
\* ever took off it: one download at a time, and the entry is there.
OneDownloadPerUser ==
    \A v, w \in Workers :
        InFlight(v) /\ job[v].user \notin ledger.cancelled =>
            /\ job[v].user \in active
            /\ InFlight(w) /\ job[w].user = job[v].user => w = v

\* For those users a day's files stay within the daily limit, but for the
\* files whose charge was lost (an exception later in the loop, a database
\* error, midnight before the charge).
QuotaHolds ==
    \A u \in Users \ ledger.cancelled :
        ledger.delivered[u] <= DailyLimit + ledger.uncharged[u]

\* The condition of the two properties below, which the code does not
\* ensure: no handler stays for ever in an await without a time limit.
AwaitsEnd == \A w \in Workers : []<>(pc[w] \notin NoTimeLimit)

\* As long as the awaits without a time limit end, nobody starves in the
\* queue: a handler that waits for a download permit gets one, whatever the
\* others do, fail at or are cancelled in.
WaitersServed ==
    AwaitsEnd => \A w \in Workers : pc[w] = "waiting" ~> pc[w] \in Held

\* As long as the awaits without a time limit end, the worker pool never
\* seizes up: updates are taken off the queue even when every worker was
\* busy, so a /cancel or /killall is always handled.
UpdatesServed == AwaitsEnd => (updates # <<>> ~> updates = <<>>)

-----------------------------------------------------------------------------
(***************************************************************************)
(* What the bot's own texts promise and the code does not keep.            *)
(***************************************************************************)
\* MAX_CONCURRENT_DOWNLOADS (config.py:31) bounds the handlers that hold a
\* permit: no early return adds permits.
DownloadsBounded == Cardinality(Holders) <= MaxDownloads

\* "You already have a download in progress" (handlers.py:203) is true of
\* every user on the active list: some handler of theirs is under way.
ActiveHasHandler ==
    \A u \in active : \E w \in Workers : InFlight(w) /\ job[w].user = u

\* The same text, the other way round: nobody has two downloads under way,
\* /cancel or not.
OneAtATime ==
    \A v, w \in Workers :
        InFlight(v) /\ InFlight(w) /\ job[v].user = job[w].user => v = w

\* "Daily limit reached (5/5)" (database.py:240): a free user is sent no
\* more files than that in a day.
DailyLimitHolds == \A u \in Users : ledger.delivered[u] <= DailyLimit

\* "Download cancelled by user" (handlers.py:402): some /cancel or /killall
\* was about the download that ends this way.
CancelledOnRequest == \A w \in Workers : pc[w] = "cancelling" => job[w].asked

\* "You are in the queue, please wait..." (handlers.py:213): waiting is all
\* it takes to be served, also when a handler hangs in a thumbnail download.
WaitingIsEnough == \A w \in Workers : pc[w] = "waiting" ~> pc[w] \in Held

\* "Free users must wait 60 seconds between downloads" (handlers.py:172): no
\* download of a free user is admitted during the cooldown.
CooldownRespected ==
    [][\A w \in Workers :
         LET row == rows[job[w].user]
         IN  pc[w] = "forcesub" /\ pc'[w] = "announce" =>
                ~(row # NoRow /\ row.role = "free" /\ row.cooling)]_vars
==============================================================================
