# Verification of the download bot

TLA+ models, model-checking runs and machine-checked proofs for the Telegram
download bot in `src/bot` and the parts of the vendored Telegram client in
`src/pyrogram` it depends on. Line numbers below are those of `src/`.

## 1. The system

`src/main.py` restores the last database backup, creates the tables and starts
three background tasks (expiry of logins, log cleanup, periodic backup) beside
the Telegram client. Everything else happens in *handlers*: the client's
network code puts updates on the dispatcher's queue, and `Client.workers` tasks
take them off and run one handler each, to its end. All of this is one
asyncio event loop: between two awaits a handler is alone, at every await that
reaches the network any other task may run. The database calls are coroutines
that never suspend.

| Component | State it keeps | Operations | What is hard | What makes it correct |
|---|---|---|---|---|
| Download pipeline (`bot/handlers.py` 161-688, `bot/config.py`, `/cancel`, `/killall`) | `active_downloads`, `cancel_flags`, two semaphores, locals of each handler | admit, acquire, probe, log in, fetch, per-file download and upload, charge, finish | early returns, exceptions at every await, cancels at every await, queueing on two semaphores | permits balance; nobody is stranded; one download per user; the daily limit |
| User database (`bot/database.py`) | `users` and `settings` tables, one `threading.Lock` | one function per query | day changes, lapsed subscriptions, calls that fail and are swallowed | quota, roles and sessions of a row |
| Account login (`bot/login.py`) | `login_states` (mutable dicts shared by reference), temporary clients | `/login`, phone, code, password, `/cancel_login`, `/logout`, expiry task | state deleted or replaced while a handler awaits Telegram | a cancelled login saves no session; clients are disconnected; logins expire |
| Dispatcher (`pyrogram/dispatcher.py`) | queue, handler groups, one lock per worker | start, stop, add, remove, worker | handlers changed while updates are in flight; stop behind a full queue; locks added while others are collected | an update is given to the handlers of one moment's registry, once; registrations and stop end |
| Chunked download (`pyrogram/client.py` 953-1257) | task queue, result buffer, worker pool | `get_file`, `handle_download` | chunks out of order, failed chunks, early stop, last partial chunk | the file is the chunks in order, or there is no file |
| Chunked upload (`methods/advanced/save_file.py`) | queue of parts, worker pool | `save_file` | poison pills, failed parts, parts missing | every part is sent before the file is named |
| Media sessions (`client.py` 1056-1088, `save_file.py` 169-175, `inline_session.py`) | `media_sessions` per data centre | get or create, terminate | check-then-create across awaits, a lock that half of the callers take, a loop over a dict that changes | one session per data centre where the lock is taken; a terminated client leaves none running |
| MTProto session (`session/session.py`, `internals/`) | pending results, acknowledgements, salts, message ids | start, stop, restart, send, handle_packet, ping | results after a timeout, concurrent restarts, lost acknowledgements, repeated messages | a result reaches its caller once; an acknowledged update was handled; a session that lost its connection comes back |
| Client core (`client.py`, `methods/auth`, `methods/utilities`) | connected / initialised flags, update state | connect, initialise, terminate, disconnect, updates, gap recovery | order of calls, gaps | gaps are closed; stop undoes start |
| Session storage (`storage/`) | sqlite tables, version | open, update, peers, update state | crash between two migration steps | a reopened file is migrated |
| Cloud backup (`bot/cloud_backup.py`, `main.py`) | local database, remote backups | backup, prune, restore at start-up | crashes and lost disks at any step, failing calls, a clock set back, a write-ahead log left behind | what was uploaded is never lost; the bot runs on a state the database was in |
| Ads (`bot/ads.py`) | `ads_today` of a row | show an ad | two handlers of one user around the fetch | the daily limit of ads |
| Transfer helpers (`bot/transfer.py`) | the interpreter's gc switch | download, upload | concurrent uploads | gc is on again when no upload runs |
| Settings, statistics, broadcast, texts (`bot/admin.py`, `bot/info.py`), web health check, logging | none of their own | replies | - | - |
| Transports, cryptography, generated API layer, types, errors | sockets; none | - | - | - |

## 2. Modules

| Module | Models | Uses |
|---|---|---|
| `Semaphore` | `asyncio.Semaphore` of Python 3.11 (external), as operators on a record | - |
| `UserRow` | one row of the users table and each function of `database.py` on it | - |
| `Downloads` | the dispatcher's queue and workers, `download_handler`, `/cancel`, `/killall`, `/setrole`, `/ban`, `/unban` | `Semaphore`, `UserRow` |
| `MCDownloads` | instances of `Downloads` for TLC | `Downloads` |
| `Login` | the entries of `login_states`, the login handlers of `login.py`, `/cancel_login`, `/logout`, the expiry task | - |
| `FileStream` | abstract: a file that grows by the next chunk until an outcome is known | - |
| `GetFile` | `Client.get_file` and `handle_download` | refines `FileStream` |
| `SaveFile` | `save_file` and the loop of `send_document` around it | - |
| `AtomicDispatch` | abstract: an update is given to the handlers that the registry of one moment calls for | - |
| `Dispatcher` | the dispatcher's queue, workers, locks and groups; `add_handler`, `remove_handler`, `start`, `stop` | refines `AtomicDispatch` |
| `RemoteCall` | abstract: what `Session.invoke` promises its callers | - |
| `Requests` | `invoke`, `send`, `handle_packet`, acknowledgements, message ids that were seen, beside a server and a network that repeat, delay and lose | refines `RemoteCall` |
| `SessionLife` | `start`, `stop`, `restart`, `recv_worker`, `ping_worker` and their connections | - |
| `MediaSessions` | `media_sessions` under `get_file`, `save_file`, `get_session` and `terminate` | - |
| `CloudBackup` | the database file, its log and its remote backups across crashes | - |
| `MCLogin`, `MCGetFile`, `MCSaveFile`, `MCDispatcher`, `MCRequests`, `MCSessionLife`, `MCMediaSessions`, `MCCloudBackup` | instances for TLC | their module |
| `DownloadsProofs` | theorems about `Downloads`, lemmas about the operators of `Semaphore` and `UserRow` | `Downloads` |
| `GetFileProofs` | theorems about `GetFile`, the refinement of `FileStream` among them | `GetFile` |
| `SaveFileProofs` | theorems about `SaveFile` | `SaveFile` |
| `DispatcherProofs` | theorems about `Dispatcher`, the refinement of `AtomicDispatch` among them | `Dispatcher` |
| `CloudBackupProofs` | theorems about `CloudBackup` | `CloudBackup` |
| `SessionProofs` | theorems about `Requests`, the refinement of `RemoteCall` among them, and about `SessionLife` | `Requests`, `SessionLife` |
| `LoginProofs` | theorems about `Login` | `Login` |
| `MediaSessionsProofs` | theorems about `MediaSessions` | `MediaSessions` |

A definition called after a bug ("Mutant of ...") is not part of the model: it
is the form a plausible bug would give the definition below it, and shows that
the property named for it in `PROJECT.json` can fail.

### Semaphore

The class keeps a counter and a deque of futures. `release()` completes the
first future that is not done and charges the counter at once; the task behind
it resumes later and only then leaves the deque. Futures are completed and
their tasks resumed in FIFO order, so the completed ones are a prefix of the
deque and the number `woken` stands for them. No task waiting here is ever
cancelled (handlers run inside dispatcher workers, which stop only between two
updates), so the cancellation branch of `acquire()` is left out.

### UserRow

Each function of `database.py` that reads or writes a row is one operator,
because the coroutine never suspends. Dates are day numbers, the session string
is kept as present or absent, the time of the last download as "within the
cooldown or not". A database call that fails is swallowed by the `except` of
the function; `Downloads` models that as an outcome in which the read returns
nothing and the write does not happen. `get_user` and `check_and_update_quota`
call `set_user_role`, whose exception is swallowed before theirs: the caller then
goes on with a role that the table does not have (`Left`, `Stored`), and an
exception of the reset alone ends the check after the role was saved.

### Downloads

`pc[w]` is the await at which worker `w` is suspended, `job[w]` the locals of
the handler it runs. An action is what the handler does from one such await to
the next, in the order of the code:

| Location | Await | Lines |
|---|---|---|
| `forcesub` | `verify_force_sub` | 176 |
| `announce`, `busy`, `waiting` | the first reply, "Server busy", `acquire()` | 207, 213, 215 |
| `probe` | `get_chat` | 278-299 |
| `client`, `check` | start of the user's client; "Checking media", the message and its media group | 312-383 |
| `text`, `copy`, `download` | the three ways to obtain a file | 409-524 |
| `upwait`, `upload` | upload semaphore and upload | 529-629 |
| `dump` | copy to the dump channel | 638-650 |
| `cancelling`, `reject` | the reply before an early return that has released the permit | 303-407 |
| `report` | the last status, also after an exception | 654-680 |
| `stopping`, `reply` | stop of the user's client; the closing reply of a handler with nothing left to do | 684-688 |

Every await may return or raise; where the code treats a raise, a timeout and an
empty answer alike they are one disjunct. `ledger` is history for the
properties and no action reads it: permits released a second time, users whose
entry `/cancel` or `/killall` took off the active list, files delivered and
charges lost on the current day.

Left out: the texts and progress reports; `verify_force_sub` and the dump copy
always count as a suspension; `/login` and `/logout` while a download runs
(rows keep the session they start with); the story branch at 354-359 that no
input reaches; the handlers at `handlers.py` 85-159, which `login.py` shadows;
the ad shown at the end.

### Login

`login_states` maps a user to a *mutable dict*; a handler takes a reference and
keeps it across its awaits. The model does the same: `states` is the sequence
of all dicts ever made, `login_states[u]` an index into it (0: no entry), and
the handler's local `job[w].state` the index it found at its start. A handler
that suspends can thus write into a dict that was replaced or deleted, and
delete an entry that is not its own, as in the code. `connected` is the set of
temporary clients whose `connect()` returned and whose `disconnect()` did not;
`session[u]` is the client whose session string was saved. Locations are the
awaits of `handle_login_steps` (`connect`, `send_code`, `sign_in`, `password`,
`saved`, ...), of `/cancel_login` and `/logout` (the disconnect), and the
replies. `cleaner` is the expiry task: the users it listed this round, and the
client whose disconnect it awaits; an exception (the `KeyError` of a deleted
entry) abandons the round.

`careless` is history: users who have two things under way at once, or to whom
a reply failed. Left out: `/start` and the terms (every user has agreed),
`batch_command`, texts and `/cancel_login` of a user without a process (nothing
changes), a `disconnect()` that raises on a connected client.

### GetFile, FileStream

Offsets are chunk numbers; the short last chunk is `LastChunk`, and behind it
the server answers with empty chunks. `queue`, `results` and `fetching` are the
`asyncio.Queue`, the dict and the workers of the turbo path, `phase` the await
of the generator. The model begins once `get_file_semaphore` was entered; a
download that never ends keeps its place there from the others. `Start` goes
from the first answer to the first poll without suspension, because no `put` of
the first window can suspend (`QueueNeverFull`). `FetchFails` is the worker's
`except Exception`, which logs and goes on; `Throw` an exception in the
generator; `WriteFails` one in the loop body of `handle_download`; `GiveUp` a
timeout of the caller, at any await, the start and the stop of the CDN's session
included. After any of them the workers of the model go on, as the tasks of the
code do: nobody ends them. The CDN path is the sequential loop with reuploads
and hash checks; the stop of its session may raise what its receive task raised,
which `get_file` swallows.

The exit of the inner loop at `client.py` 1137 needs all workers to be done,
which happens only after the loop, so there is no action for it.

`FileStream` is what `handle_download` promises of the file. `GetFile`
implements it under the identity mapping (`StreamSpec`, checked by TLC and
proved).

### SaveFile

One upload with its retries. `queue`, `unfinished` and `doing` are the
`asyncio.Queue`, its count of unfinished tasks and the workers. `Fill` puts as
many parts as there is room for in one step, because a `put` that finds room
does not suspend. `Sent` is `session.send(..., wait_response=False)`: whether
the server has the part in time is its own choice, and a part that arrives too
late is not told from one that is lost. `Resolve` to `SendMediaFails` are the
loop of `send_document` (the same in nine other methods): `FilePartMissing`
calls `save_file` for one part, and `Unrecognised`, a success without one of
the four kinds of update, sends the message again. The code limits neither, and
neither does the model. `tried`, `due` and `stopped` are history.

### Dispatcher, AtomicDispatch

`Downloads` has the dispatcher as a queue with workers; here it is the subject.
Worker `w` owns lock `w` of `locks_list`, which no code ever shortens, so the
workers of the second start have the locks behind those of the first. A lock is
the queue of those who hold or want it. `pc[w]` is the await a worker is
suspended at (`get`, the parser, its lock, a filter or callback), `group` and
`place` are the two loops of `handler_worker`. A registration (`Begin`,
`Acquired`) is the task that `add_handler` or `remove_handler` makes: it
iterates over the list while `start` may append to it, then changes the groups
and releases everything without suspending (`Apply`). `behaves` says what each
handler does with an update: it does not match, runs, continues or stops the
propagation; a handler that raises counts as one that ran, as in the code.

`AtomicDispatch` gives an update, in one step, to the handlers that the
docstring of `add_handler` promises. `called` is the mapping's only history.

### Requests, RemoteCall

Message ids grow, so a message is its index. A caller goes from `Issue` (`send`
makes a message, its entry in `results` and the write) to `TakeResult`,
`TakeError`, `TakeSalt` or `TimeOut`, and again while it has retries. The inbox
is what was read but not handled; the receive side is one entry at a time, and
`last` says whether an entry ends its packet, because acknowledgements are sent
only there. The stored ids are trimmed and compared as in `handle_packet`. The
server executes a message once under the right salt, repeats what is not
acknowledged, announces it, or changes the salt. `Restart` is one step here and
detailed in `SessionLife`. Left out: flood waits above the threshold, gzip,
sequence numbers, the checks of time and length of a message.

`RemoteCall` is what a caller may rely on: a value is one the server computed
for that call, and a call is executed at most once per attempt.

### SessionLife

Calls of `start`, `stop` and `restart` are tasks that share the attributes of
the `Session`. `task` is the await within `stop` (`ping`, `close`, `recv`) and
`start` (`connect`, `hello`, `config`); connections, receive tasks and ping
tasks are numbered. `recv_worker` looks at `self.connection` again for each
packet, and raises if it is not open yet or read by another task; what it raised
is raised again in the `stop` that awaits it. Left out: the attempts within one
`connect`, the check of the key on a test server, the media of an update, and
the `disconnect_handler` at the end of `stop`, which this program never sets.

### MediaSessions

A caller is one `get_file`, `save_file` or `get_session`; the session it makes
has its name. `Store` is the assignment to `media_sessions`, after the await of
`Auth.create()` for a foreign data centre and at once for the home one.
`terminate` waits for the handlers through `dispatcher.stop()`, then iterates
over the dict and awaits a stop in the loop (`Close`). The receive task of a
session may raise (`RecvRaises`, a transport error 404): the session is in
`broken`, answers nothing any more, and whoever stops it meets the exception.
`get_session` and a failing start raise in any case; `Close` ends the loop, and
what it had not come to goes on running. `Handled` are the callers that run in a
handler; the others are tasks of the bot's own.

### CloudBackup

The database is in WAL mode and every function of `database.py` opens, commits
and closes a connection of its own: `Commit` writes the log, `Close` moves it
into the file. `Snapshot`, `Put`, `List` and `Delete` are `backup_to_github`,
`Restore`, `Truncate` and `Write` are `restore_from_github`, `InitDb` is the
first use of the database after it. A row is a page and its content the number
of the change it has seen, so that older and newer can be compared. Names of
backups are the clock's readings. `Crash` ends the process anywhere, with or
without its disk.

## 3. Runs

| Run | Instance | Result |
|---|---|---|
| `slots` | 3 workers, 2 users, 1 download and 1 upload permit, 4 updates | type, permit accounting, no stranded handler, one download per user |
| `quota` | 2 workers, 1 free user, limit 2, groups of 2, 2 days, failing database calls | the daily limit but for lost charges |
| `live` | 2 workers, 2 users, fairness | as long as the awaits without a time limit end: waiters are served, the queue drains |
| `login` | 2 workers, 2 users, 4 updates, any reply or call failing, fairness | an open login has its client, careful users leak none, stale logins go |
| `get_file` | 3 workers, 8 chunks, 1 reupload, any request, callback or write failing, fairness | the queue is never full, each chunk once, in order; truncated only by exceptions; ends unless a request failed |
| `save_file` | 3 workers, 5 parts, 2 lacking at a time, any number of retries, fairness | the count `join()` waits for, the message after its parts, no needless resend; the end, as long as the server's answers settle |
| `dispatcher` | 2 starts of 2 workers, 2 groups, 2 handlers of any behaviour, 2 registrations, 2 updates, fairness | an update is in one place; the groups are stable; `AtomicDispatch`; registrations and `stop` end |
| `requests` | 2 callers, 1 retry, 3 server messages, 2 faults, thresholds of 2 | `RemoteCall`; no entry stays behind; an update is handled once per start, and handled if acknowledged |
| `session` | 3 calls of start, stop or restart, 3 connections, 2 failures, fairness | restarts that do not overlap leave one session and end; the session comes back |
| `media` | 4 callers of both kinds, 2 data centres, 2 failures, fairness | one session where the lock is taken, none handed out half made; what `terminate` leaves running, and when it raises; callers end |
| `backup` | 2 rows, 3 changes, 3 uploads, 2 kept, 2 crashes, 2 failures | the newest uploads are kept and survive; the bot runs on a whole state |
| `login_cancelled` | 2 workers, 1 user | finding: a cancelled login connects the account |

**Counterexamples.** Properties that the documentation, a comment or common
sense suggests and that the code does not have are kept in the modules, for
whoever repairs the code. Those with a configuration of their own, each
violating the property it names:

* `DownloadsSurplus`: the semaphores limit downloads to `MaxDownloads`
  (`handlers.py` 24-27), but the early returns release a permit twice.
* `DownloadsOverQuota`: a free user gets the daily limit, but an exception
  after some files skips the charge of those that were delivered.
* `DownloadsGhostEntry` (an exception between `active_downloads.add` and the
  `try` leaves the user on the list), `DownloadsTwoAtOnce` (`/cancel` admits a
  second download), `DownloadsStaleCancel` (a flag hits the next download),
  `DownloadsCooldown` (the cooldown is checked before an await).
* `DownloadsHangs`: "Server busy. Please wait." (`handlers.py` 213), but the
  handler that holds the permit may be in an await without a time limit.
* `GetFileHangs`: one failed request of a worker and the download never ends.
  `GetFilePartial`: a truncated file is returned as a success.
* `SaveFileStop`: `stop_transmission` (`client.py`) in the progress callback of
  a worker does not stop the upload. `SaveFileResends`: "On success, the sent
  document message is returned" (`send_document.py` 181), but the loop never
  ends while the server misses parts or answers without a message.
* `LoginLeak` (a second `/login` loses the connected client of the first),
  `LoginLogout` (`/logout` misses a session saved during its disconnect),
  `LoginInactive` (the expiry task deletes an entry renewed during its await).

Others are shown by the configuration of their module's run when `SPECIFICATION
Spec` (`LifeSpec` for `SessionLife`) and this property replace what it has (for
`CloudBackup` without the `SYMMETRY`):

* `SessionLife`: `AlwaysBack` (overlapping restarts can leave a session that is
  not started), `StaysDisconnected` (a restart under way starts a disconnected
  session again).
* `Requests`: `NoUpdateLost` and `HandledOnce` (a message refused by its id is
  acknowledged all the same; the stored ids are forgotten at each restart).
* `MediaSessions`: `NothingLeaks` and `JoinersSucceed` (two transfers make two
  sessions, a third gets one that is not authorized yet; a stop that raises in
  `terminate` leaves the sessions behind it running), `NoDeadSession`
  (`get_session` leaves a session in the dict that it has stopped).
* `CloudBackup`: `NothingOverwritten` (an action property: a start restores an
  older backup over a newer database), `BackupsUsed` (a failed restore on an
  empty disk starts the bot with an empty database, whose backups replace the
  good ones), `ClockProof` (after the clock is set back new uploads are deleted
  first), `NeverMixed` (the log of a killed process is applied to the restored
  file).

**Bounds.** `Downloads`: three workers on one permit give a holder, a woken
waiter and a sleeper at once, which is what a lost wake-up needs; one permit of
each kind makes the limits bite; four updates are enough for a download that
holds, one that waits, a cancel and a later download. `MaxCommands`, `MaxDay`
and `MaxItems` limit the environment and not the handlers. `Login`: four
updates by two users are a login that is under way, a second handler of the
same user that interferes, and another user whose entry aborts a round of the
expiry task (`MaxUpdates`). `GetFile`: with three workers the window is six
chunks, and eight chunks make the window move before the last; `MaxWindow` is
larger than the queue so that the window's dependence on the workers matters;
`Reuploads` bounds the CDN's reupload answers. `SaveFile`: five parts do not
fit the queue of four, `ProgressEvery` 2 makes three workers report at
different times, `MaxLost` bounds the parts the server lacks at a time (not how
often it misses one).
`Dispatcher`: two starts of two workers add locks to a list that registrations
have gone through or not; two registrations and two updates make every pair of
holders wait for one another; one group is empty and one has two handlers, so
that first, last and none in a group occur. `Requests`: two callers and three
server messages are an answer that comes late beside one that is repeated;
thresholds of 2 make acknowledgements and trimming happen. `SessionLife`: three
calls are the first start, a restart and another restart or the disconnect.
`MediaSessions`: two transfers and two `get_session`, one of them outside the
handlers, placed so that the two `get_session` meet at the foreign data centre
with the transfers at home, or the two transfers race at the foreign one beside
one `get_session`; a second attempt to import. `CloudBackup`: three
uploads with two kept make the clean-up delete one; two rows tell a mixture
from a state; a second crash can hit the restart after the first. `MaxFaults`
bounds what fails in each.
Deadlock is not checked anywhere: once the bounded supply of updates is used
up, or the transfer is over, the system rests.

**Fairness.** Every task that can take a step eventually does: the event loop
runs ready tasks in order. Beyond that, each `FairSpec` assumes that a call to
Telegram returns or raises. In `Downloads` it is assumed only of awaits that the
code limits: the download itself (`wait_for` at `handlers.py` 515) and requests
of the bot. The start and stop of the user's client and the upload, which
downloads a thumbnail without a timeout while holding both permits
(`handlers.py` 548 and 591; `GetFileHangs.cfg` shows that such a download may
never end), are in `NoTimeLimit`, and no fairness is assumed of them. That they
end is the condition `AwaitsEnd` of `WaitersServed` and `UpdatesServed`, and
`DownloadsHangs.cfg` shows that the properties fail without it. For `GetFile`
and `SaveFile` the assumption is about single requests, which `Session.send`
bounds by a timeout when it waits for an answer. What the server answers is not
assumed: `UploadEnds` has the condition `AnswersSettle`. `Dispatcher`: handlers,
filters and parsers end (each worker takes its steps). `SessionLife`: tasks run
and timers fire; an open connection answers what is asked on it, unless one of
the bounded faults comes; and a write to a connection that is gone raises, not
at the first try but sooner or later (strong fairness of `PingFails`), as TCP
does. `MediaSessions`: a suspended call returns or raises; nobody has to begin.
`Requests` and `CloudBackup` have safety properties only. Nothing is assumed of
users, of the clock or of the database, nor that anyone starts, stops or
disconnects.

## 4. Proofs

`DownloadsProofs` proves, for any finite set of workers, any users, limits and
number of files:

* `TypeCorrectness`: `Spec => []TypeOK`. Types are not inductive by themselves:
  a resumed waiter decrements `woken` and a finished file decrements `left`.
  `TypeInv` adds that woken tasks are among the waiters (`NoLostWakeUp`) and
  that a handler inside the loop has a file left (`ItemLeft`).
* `PermitsAccounted` and `UploadsAccounted`: the two balances. Each action is
  shown to be `Balanced`: what it takes from a semaphore's `Supply` (free
  permits plus those on their way to a woken task) is what its worker starts to
  hold, up to the counted surplus. One lemma (`CountMove`) turns that into the
  cardinality of the set of holders.
* `SingleDownloads`: with the types, the property is inductive. Each step of a
  worker is shown to be one of a few moves on the active list (`Tracks`): a
  handler that is admitted found its user off the list, and one that ends takes
  its user off, being the only one.
* `NobodyStranded`: each queue holds the sleeping handlers of its semaphore and
  nobody twice (`Lines`); the rest of the property is `NoLostWakeUp`.
* `QuotaKept`: the property says nothing of what a running handler may still
  deliver, so it is not inductive. `QuotaInv` keeps an account for each user:
  what was delivered is in the counter, with the handler that has yet to charge
  it, or lost; and what is left of a download in the loop fits in what its look
  at the counter granted. It needs `SingleDownloads`, by which nobody else
  spends the user's quota meanwhile. The lemmas about `UserRow` say which of the
  database functions leave today's counter as it is.

`GetFileProofs` proves, for any number of workers, chunks and reuploads:

* `TypeCorrectness`: types are inductive here.
* `QueueBounded`: no `put` ever suspends. While the generator polls, the queue
  holds the offsets up to `next - 1` in order and `next` is one window ahead of
  the file; a chunk that has arrived left the queue before, so the one the
  generator yields has made room (`QueueInv`). After the last chunk the poison
  pills still fit because the window is half of the queue.
* `ImplementsStream`: `GetFile` implements `FileStream`. The invariant
  (`StreamInv`) says that nothing is read behind the short chunk and that the
  outcome is known exactly when the generator is over.
* `OffsetsOnce`: `OffsetsInv` says pairwise that an offset on the queue, with a
  worker, among the results or among the failed ones is nowhere else, that none
  was handed out that is not there (`NoneLost`), and that the file has the
  offsets below its length in order.
* `ExceptionsAlone`: without an exception the generator leaves its loop only
  with the short chunk written (`WholeInv`).

`SaveFileProofs` proves, for any number of workers and parts and any queue that
holds a pill for each worker:

* `TypeCorrectness`: `unfinished` is a natural number only because each
  `task_done` belongs to a part that was taken, so types need the count.
* `CountRight`: the queue's count is the number of queued parts and of busy
  workers. The invariant (`PoolInv`) separates the phases: a part is in the
  pool only until `join` returns, a pill only after that, and nothing is left
  of either when the call returns.
* `NothingForgotten`: a part that was read is queued, held or tried
  (`TriedInv`). `join` returns with an empty queue and idle workers, by the
  count; so if the file was read to its end, everything was tried.
* `NoPartTwice`: what is in the pool is there once and is still due (`OnceInv`);
  so is what is yet to be read, which lies behind what this call has read. A
  retry makes the one part it reads due again.

`DispatcherProofs` proves, for any workers, starts, groups, handlers,
registrations and updates, every safety property of the `dispatcher` run:

* `TypeCorrectness`: types need `Located` (a lock that is waited for is in the
  list) and `LockInv`: the head of a lock's queue is its owner, and whoever has
  come past a lock owns it.
* `GroupsHeld`: the groups change only under all locks of the list, or when no
  worker is alive. A worker that goes through the groups owns its lock, and a
  registration's task is no worker (`TasksAssumption`), so the two exclude each
  other.
* `UpdatesOnce`: the three places are disjoint and complete. `OnceInv` states it
  pairwise (no two positions, no position and worker, no two workers, nothing
  done among them), which each step preserves.
* `ImplementsAtomicDispatch`: `GivenInv` says that what a worker has given its
  update to are the positions before its own that `AtomicDispatch` calls for,
  and that nothing before its own closed the group or stopped the propagation.
  It survives the steps of others by `GroupsHeld`; at the end it is the set of
  `AtomicDispatch`, and by `UpdatesOnce` the update was not done before.

`CloudBackupProofs` proves, for any rows, numbers of backups, crashes and
failures, every property of the `backup` run:

* `RunsOnWholeStates`: `WholeInv` says what the file, the log, the snapshot and
  each remote backup can be at each step: all of a state that was lived, or torn.
* `LastUploadsKept`: `KeptInv`: names grow with the uploads while the clock is
  not set back, so what `List` dooms has `Keep` newer names, and the newest
  backup is among the kept ones.
* `UploadsSurvive`: `SafeInv` compares the database with every upload row by
  row: a running database is at least as new as all uploads, and a restore
  takes the newest, which is at least as new as the others.

`SessionProofs` proves, for any callers, retries, thresholds, losses,
repetitions and delays, every property of the `requests` run. The invariant has
five parts:

* `TypeCorrectness`: numbers of messages and mail are bounded by what was sent.
* `EntriesMatch`: `EntryInv` ties an entry of `results` to the last message of
  its caller, and an answer in it to that message.
* `HandledPerStart`: `AckInv` counts. An update that was handled is pending,
  dropped or acknowledged; while its id is remembered (`Known`) one more
  handling than restarts is all there can be.
* `AckedHandled`: from the same invariant: what is pending, on its way in an
  acknowledgement or acknowledged was handled, refused or announced.
* `ImplementsRemoteCall`: `AnswerInv` says that the server answers a message
  once and counts it for its sender. `BudgetInv` bounds the executions: the
  messages of a caller that were executed, may be yet or are waited for
  (`Live`), and the attempts it has left, are its retries plus one at most. Each
  attempt turns one of the latter into one of the former.

Its second half proves, for any number of calls of `start`, `stop` and
`restart`, connections and failures, every safety property of the `session` run.
The two modules share no variable: `SessionLife` takes an answer to be some
packet, and `Requests` a restart to be one step.

* `OneSessionOnly`: the types, and `LifeInv`: as long as no two calls overlapped
  and the key was not rejected, `OneInv` holds. `CallInv` says for each await of
  a call what it has already taken down: behind the ping task nothing pings any
  more (`Quiet`), behind the close the connection is shut, and `start` goes on
  only where nothing reads (`ReadInv`). `PingInv` says that the event is set only
  while a call waits for the ping task, so a new ping task does not find it set
  and end at once. `LeftInv` is what a call leaves when it ends.
* `NothingStays`: from `LeftInv`, for the call that ends with a disconnect.
  Nothing is alive after it that could create another restart.
* `NeverTwo`: the same at every moment, also inside a restart: one open
  connection, one task that reads and one that pings at most. No run states it;
  it is what `OneSession` rests on.

The history variable `overlapped` is a hypothesis of all three and no
restriction of the model: the steps of calls that do overlap are part of
`LifeNext`, and section 3 says what goes wrong then.

`LoginProofs` proves, for any users, workers and updates, every safety property
of the `login` run:

* `LoginUsable`: `SafeInv`. A process that waits for a code or a password has a
  connected client because whoever disconnects a client also removes the entry.
  For that no two users may share a process or a client (`OwnerInv`), and a
  client that a handler is connecting must be unknown to everyone else until
  its code was sent (`NewInv`), which rests on its number (`IssuedInv`).
* `NothingLeaked`: `CarefulInv`, for each user who never had two updates at work
  and got every reply: one handler or the expiry task works for the user
  (`Alone`), what it has at hand is what the entry has (`InStep`), and every
  connected client is in either of the two (`Traced`). The steps made for other
  users touch nothing of this user, by `OwnerInv`.

`MediaSessionsProofs` proves, for any callers, placements, data centres and
attempts, every safety property of the `media` run:

* `OneMade`: a session is in `media_sessions` or was replaced there (`MediaInv`),
  and while the client runs none of a protected data centre was (`OneInv`): who
  makes a key for one found nothing there and heads the queue of the lock
  (`LockInv`), so nobody else can store, and at home nothing is awaited in
  between. Types need that the keys of the dict are different, so that there are
  no more of them than data centres (`KeysCounted`).
* `FoundSucceed`: whoever finds a session under the lock finds that its maker no
  longer holds it, so it is ready (`GoodInv`).
* `NothingRuns`: once the loop over the sessions runs, the handlers are over, and
  each of their sessions that still runs and was not replaced is ahead of the
  loop (`CloseInv`). A key behind it can be added only by a caller outside the
  handlers, whose session then exists, and a stop raises only what the receive
  task of a broken session raised: so these are the two ways in which the loop
  ends early, and what it leaves is ahead of it (`Behind`).

The proofs rest on the named assumptions of the modules: constants are of their
types, the workers and the data centres are finite sets, there is a user
(`UsersAssumption`, for the field of the expiry task that names one), a
registration's task is no worker. The lemmas about least and greatest members of
sets of numbers are proved in the modules that cite them, from the library's
fact that `<` is well founded on the natural numbers.

Every safety property and every refinement that a passing run checks is stated
by a theorem. Model-checked only are the liveness properties (`WaitersServed`,
`UpdatesServed`, `StaleLoginsGo`, `EndsUnlessARequestFails`, `UploadEnds`,
`CallsEnd`, `ComesBack`, `RegistrationsEnd`, `StopEnds`, `CallersEnd`): they need
fairness, and the prover has no support for `ENABLED`.

## 5. Plan

What is left, in the order of its weight:

1. `Updates`: `handle_updates`, the stored state, `recover_gaps`, crash and
   restart; `Client`: connect, initialise, terminate, disconnect, start, stop
   and their order.
2. `Storage`: the migration of the file storage with crashes between its steps.
3. `Ads` (the daily limit around the fetch), `Transfer` (the gc switch under
   concurrent uploads), message ids and sequence numbers.

Not planned: the framing of the transports and cryptography (input and output,
numeric algorithms of a published protocol), the generated API layer, types and
errors, the parsers and filters (stateless conversions), texts, statistics and
logging. They are nearly all of the repository's lines: tables and one-call
wrappers that keep no state and have no control to check.
