----------------------------- MODULE CloudBackup -----------------------------
(***************************************************************************)
(* The database file and its backups (bot/cloud_backup.py, main.py): every *)
(* ten minutes a snapshot is uploaded under the local time and the oldest  *)
(* uploads are deleted; every start copies the newest upload over the      *)
(* database before it opens it.  The process may be killed anywhere, and   *)
(* its disk may be lost with it.                                           *)
(*                                                                         *)
(* The whole of it runs in one thread: between two steps of a backup or a  *)
(* restore nothing happens but a failure or a crash.                       *)
(***************************************************************************)
EXTENDS Naturals, Sequences, FiniteSets, Functions

CONSTANTS
  Rows,         \* rows of the database, each on a page of its own
  Keep,         \* keep_count
  MaxChanges,   \* bound: changes of a row
  MaxUploads,   \* bound: uploads
  MaxCrashes,   \* bound: crashes
  MaxFaults     \* bound: calls of GitHub or of the disk that fail

ASSUME KeepAssumption == Keep \in Nat \ {0}
ASSUME BoundsAssumption == {MaxChanges, MaxUploads, MaxCrashes, MaxFaults} \subseteq Nat

VARIABLES
  file,      \* DB_PATH: "absent", "torn", "whole"
  main,      \* what a whole file says of each row: the number of its change
  wal,       \* the write-ahead log: the changes that are not in the file yet
  remote,    \* backups on GitHub: name to content
  clock,     \* datetime.now(), the name of the next backup
  pc,        \* where the process is
  data,      \* the snapshot, or the backup that is restored
  doomed,    \* backups_to_delete
  changes,   \* the number of changes so far
  uploads,   \* history: names and contents in the order of upload
  lived,     \* history: the states the database was in
  shifted,   \* history: the clock was set back
  blind,     \* history: the bot began with an empty database beside backups
  mixed,     \* history: a restored or torn file met a log of its predecessor
  crashes, faults

disk == <<file, main, wal>>
github == <<remote, doomed, uploads>>
past == <<lived, shifted, blind, mixed>>
vars == <<disk, github, clock, pc, data, changes, past, crashes, faults>>

Fresh == [r \in Rows |-> 0]
NoLog == Fresh

\* Opening the database applies the log, whatever file it lies beside.
Applied == [r \in Rows |-> IF wal[r] # 0 THEN wal[r] ELSE main[r]]

Fault ==
    /\ faults < MaxFaults
    /\ faults' = faults + 1

Init ==
    /\ file = "absent"
    /\ main = Fresh
    /\ wal = NoLog
    /\ remote = <<>>
    /\ clock = 0
    /\ pc = "down"
    /\ data = Fresh
    /\ doomed = {}
    /\ changes = 0
    /\ uploads = <<>>
    /\ lived = {Fresh}
    /\ shifted = FALSE /\ blind = FALSE /\ mixed = FALSE
    /\ crashes = 0 /\ faults = 0

-----------------------------------------------------------------------------
(***************************************************************************)
(* A function of database.py: commit writes the log, the close of the      *)
(* connection, which is the only one, moves the log into the file.         *)
(***************************************************************************)
Commit(r) ==
    /\ pc = "up"
    /\ changes < MaxChanges
    /\ changes' = changes + 1
    /\ wal' = [wal EXCEPT ![r] = changes + 1]
    /\ lived' = lived \union {[Applied EXCEPT ![r] = changes + 1]}
    /\ pc' = "commit"
    /\ UNCHANGED <<file, main, github, clock, data, shifted, blind, mixed, crashes, faults>>

Close ==
    /\ pc = "commit"
    /\ main' = Applied
    /\ wal' = NoLog
    /\ pc' = "up"
    /\ UNCHANGED <<file, github, clock, data, changes, past, crashes, faults>>

-----------------------------------------------------------------------------
(***************************************************************************)
(* backup_to_github.                                                       *)
(***************************************************************************)
\* Ten minutes have passed.
Snapshot ==
    /\ pc = "up"
    /\ Len(uploads) < MaxUploads
    /\ clock' = clock + 1
    /\ data' = Applied
    /\ pc' = "put"
    /\ UNCHANGED <<disk, github, changes, past, crashes, faults>>

Upload ==
    /\ remote' = [n \in DOMAIN remote \union {clock} |-> IF n = clock THEN data ELSE remote[n]]
    /\ uploads' = Append(uploads, [name |-> clock, content |-> data])

\* GitHub refuses a name that is there.
Put ==
    /\ pc = "put"
    /\ IF clock \in DOMAIN remote
       THEN pc' = "up" /\ UNCHANGED <<remote, uploads>>
       ELSE pc' = "list" /\ Upload
    /\ UNCHANGED <<disk, doomed, clock, data, changes, past, crashes, faults>>

\* The request fails, or only its answer is lost; nothing is cleaned up.
PutFails ==
    /\ pc = "put"
    /\ Fault
    /\ pc' = "up"
    /\ UNCHANGED <<remote, uploads>> \/ (clock \notin DOMAIN remote /\ Upload)
    /\ UNCHANGED <<disk, doomed, clock, data, changes, past, crashes>>

\* The names but the first Keep in descending order.
Older(n) == {m \in DOMAIN remote : m < n}
Newer(n) == {m \in DOMAIN remote : m > n}

ListThen(old) ==
    /\ pc = "list"
    /\ doomed' = old
    /\ pc' = IF old = {} THEN "up" ELSE "delete"
    /\ UNCHANGED <<disk, remote, uploads, clock, data, changes, past, crashes, faults>>

\* Mutant of List: the names are sorted in ascending order.
ListAscending == ListThen({n \in DOMAIN remote : Cardinality(Older(n)) >= Keep})

List == ListThen({n \in DOMAIN remote : Cardinality(Newer(n)) >= Keep})

ListFails ==
    /\ pc = "list"
    /\ Fault
    /\ pc' = "up"
    /\ UNCHANGED <<disk, github, clock, data, changes, past, crashes>>

Newest(names) == CHOOSE n \in names : \A m \in names : m <= n

\* The loop is done with one backup.
LoopOn(n) ==
    /\ doomed' = doomed \ {n}
    /\ pc' = IF doomed' = {} THEN "up" ELSE "delete"

Delete ==
    LET n == Newest(doomed)
    IN  /\ pc = "delete"
        /\ remote' = Restrict(remote, DOMAIN remote \ {n})
        /\ LoopOn(n)
        /\ UNCHANGED <<disk, uploads, clock, data, changes, past, crashes, faults>>

\* It stays, and the loop goes on.
DeleteFails ==
    /\ pc = "delete"
    /\ Fault
    /\ LoopOn(Newest(doomed))
    /\ UNCHANGED <<disk, remote, uploads, clock, data, changes, past, crashes>>

-----------------------------------------------------------------------------
(***************************************************************************)
(* Starting: restore_from_github, then init_db.                            *)
(***************************************************************************)
Start ==
    /\ pc = "down"
    /\ pc' = "restore"
    /\ UNCHANGED <<disk, github, clock, data, changes, past, crashes, faults>>

RestoreFrom(name) ==
    /\ pc = "restore"
    /\ IF DOMAIN remote = {}
       THEN pc' = "init" /\ UNCHANGED data
       ELSE pc' = "copy" /\ data' = remote[name]
    /\ UNCHANGED <<disk, github, clock, changes, past, crashes, faults>>

\* Mutant of Restore: the last name of the list.
RestoreOldest == RestoreFrom(CHOOSE n \in DOMAIN remote : Older(n) = {})

Restore == RestoreFrom(Newest(DOMAIN remote))

\* Listing, downloading or saving the present file fails: the start goes on.
RestoreFails ==
    /\ pc \in {"restore", "copy"}
    /\ Fault
    /\ pc' = "init"
    /\ UNCHANGED <<disk, github, clock, data, changes, past, crashes>>

\* copy2 truncates the file and writes some of it, then the rest.
Truncate ==
    /\ pc = "copy"
    /\ file' = "torn"
    /\ \E part \in SUBSET Rows \ {Rows} : main' = [r \in Rows |-> IF r \in part THEN data[r] ELSE 0]
    /\ pc' = "write"
    /\ UNCHANGED <<wal, github, clock, data, changes, past, crashes, faults>>

Write ==
    /\ pc = "write"
    /\ file' = "whole"
    /\ main' = data
    /\ mixed' = (mixed \/ wal # NoLog)
    /\ pc' = "init"
    /\ UNCHANGED <<wal, github, clock, data, changes, lived, shifted, blind, crashes, faults>>

\* The exception is logged and the start goes on.
WriteFails ==
    /\ pc = "write"
    /\ Fault
    /\ pc' = "init"
    /\ UNCHANGED <<disk, github, clock, data, changes, past, crashes>>

\* The database is opened, which creates it if there is none.
Opens ==
    /\ file' = "whole"
    /\ main' = Applied
    /\ wal' = NoLog
    /\ pc' = "up"
    /\ blind' = (blind \/ (file # "whole" /\ DOMAIN remote # {}))
    /\ mixed' = (mixed \/ (file # "whole" /\ wal # NoLog))

\* Mutant of InitDb: a torn file is taken for a database.
InitAnyway ==
    /\ pc = "init"
    /\ Opens
    /\ UNCHANGED <<github, clock, data, changes, lived, shifted, crashes, faults>>

\* A torn file that was left empty is an empty database; any other is none,
\* and the error ends the process.
InitDb ==
    /\ pc = "init"
    /\ IF file = "torn" /\ main # Fresh
       THEN pc' = "down" /\ UNCHANGED <<disk, blind, mixed>>
       ELSE Opens
    /\ UNCHANGED <<github, clock, data, changes, lived, shifted, crashes, faults>>

-----------------------------------------------------------------------------
\* The process is killed; the next one may find its disk, or an empty one.
Crash ==
    /\ pc # "down"
    /\ crashes < MaxCrashes
    /\ crashes' = crashes + 1
    /\ pc' = "down"
    /\ doomed' = {}
    /\ \/ UNCHANGED disk
       \/ file' = "absent" /\ main' = Fresh /\ wal' = NoLog
    /\ UNCHANGED <<remote, uploads, clock, data, changes, past, faults>>

\* Daylight saving, or a host of another time zone.
SetBack ==
    /\ ~shifted
    /\ clock # 0
    /\ clock' \in 0 .. clock - 1
    /\ shifted' = TRUE
    /\ UNCHANGED <<disk, github, pc, data, changes, lived, blind, mixed, crashes, faults>>

Next ==
    \/ \E r \in Rows : Commit(r)
    \/ Close
    \/ Snapshot \/ Put \/ PutFails \/ List \/ ListFails \/ Delete \/ DeleteFails
    \/ Start \/ Restore \/ RestoreFails \/ Truncate \/ Write \/ WriteFails \/ InitDb
    \/ Crash \/ SetBack

Spec == Init /\ [][Next]_vars

-----------------------------------------------------------------------------
(***************************************************************************)
(* Properties.                                                             *)
(***************************************************************************)
Content == [Rows -> 0 .. MaxChanges]
Running == pc \in {"up", "commit", "put", "list", "delete"}

\* Types; a bot that runs has a whole file, and a log only within a function
\* of the database.
TypeOK ==
    /\ file \in {"absent", "torn", "whole"}
    /\ main \in Content /\ wal \in Content /\ data \in Content
    /\ IsFiniteSet(DOMAIN remote) /\ DOMAIN remote \subseteq Nat /\ Range(remote) \subseteq Content
    /\ doomed \subseteq DOMAIN remote
    /\ clock \in Nat
    /\ pc \in {"down", "restore", "copy", "write", "init", "up", "commit", "put", "list", "delete"}
    /\ changes \in 0 .. MaxChanges
    /\ \A k \in DOMAIN uploads : uploads[k].name \in Nat /\ uploads[k].content \in Content
    /\ lived \subseteq Content
    /\ {shifted, blind, mixed} \subseteq BOOLEAN
    /\ crashes \in 0 .. MaxCrashes /\ faults \in 0 .. MaxFaults
    /\ Running => file = "whole" /\ (pc = "commit" \/ wal = NoLog)

\* Unless the clock was set back, the last Keep uploads stay on GitHub,
\* whatever fails and wherever the process is killed.
NewestKept ==
    ~shifted =>
      \A k \in DOMAIN uploads :
        k + Keep > Len(uploads) =>
          /\ uploads[k].name \in DOMAIN remote
          /\ remote[uploads[k].name] = uploads[k].content

\* Unless the clock was set back, or a start whose restore failed met an
\* empty disk, no restart loses a change that was uploaded.
UploadedSurvives ==
    Running /\ ~shifted /\ ~blind =>
      \A k \in DOMAIN uploads : \A r \in Rows : Applied[r] >= uploads[k].content[r]

\* The bot runs on a state that the database was in, never on a part of one,
\* unless the log of a killed process met another file than its own.
WholeDatabase == Running /\ ~mixed => Applied \in lived

-----------------------------------------------------------------------------
\* "This ensures user data is preserved across service restarts"
\* (restore_from_github): a start never writes an older state over a newer
\* one that its disk still has.
NothingOverwritten ==
    [][pc = "copy" /\ pc' = "write" /\ file = "whole" => \A r \in Rows : data[r] >= Applied[r]]_vars

\* No restart ever loses a change that was uploaded.
BackupsUsed ==
    Running /\ ~shifted => \A k \in DOMAIN uploads : \A r \in Rows : Applied[r] >= uploads[k].content[r]

\* No restart loses a change that was uploaded, whatever the clock says.
ClockProof ==
    Running /\ ~blind => \A k \in DOMAIN uploads : \A r \in Rows : Applied[r] >= uploads[k].content[r]

\* The bot never runs on a mixture of two states.
NeverMixed == Running => Applied \in lived
==============================================================================
