------------------------------- MODULE UserRow -------------------------------
(***************************************************************************)
(* One row of the users table and what each function of bot/database.py    *)
(* does to it.  The functions are coroutines that never suspend (sqlite3   *)
(* calls under a threading.Lock), so each is one atomic operator on the    *)
(* row.  Dates are day numbers from 1; 0 is a NULL date.                   *)
(***************************************************************************)
EXTENDS Naturals

CONSTANTS NoRow,       \* the table has no row for this telegram_id
          DailyLimit   \* files a free user may have per day (the literal 5)

ASSUME DailyLimitAssumption == DailyLimit \in Nat

Roles     == {"free", "premium", "admin", "owner"}
Unlimited == {"premium", "admin", "owner"}

\* phone_session_string is kept as "is there one"; last_download_time as
\* "was it less than FREE_USER_COOLDOWN seconds ago" (cooling).
Row == [role : Roles, premium_expiry_date : Nat,
        downloads_today : Nat, last_download_date : Nat,
        ads_today : Nat, last_ad_date : Nat,
        is_agreed_terms : BOOLEAN, is_banned : BOOLEAN,
        phone_session_string : BOOLEAN, cooling : BOOLEAN]

ASSUME NoRowAssumption == NoRow \notin Row

Table(U) == [U -> Row \cup {NoRow}]

\* The row create_user inserts.
NewRow(day) ==
    [role |-> "free", premium_expiry_date |-> 0,
     downloads_today |-> 0, last_download_date |-> day,
     ads_today |-> 0, last_ad_date |-> 0,
     is_agreed_terms |-> FALSE, is_banned |-> FALSE,
     phone_session_string |-> FALSE, cooling |-> FALSE]

\* An UPDATE ... WHERE telegram_id = ? of a missing row changes nothing.
Update(row, new) == IF row = NoRow THEN NoRow ELSE new

\* set_user_role: only a timed premium keeps an expiry date.
SetUserRole(row, role, expiry) ==
    Update(row, [row EXCEPT !.role = role,
                   !.premium_expiry_date = IF role = "premium" THEN expiry ELSE 0])

\* get_user: what it returns.  Reading the owner's row creates or promotes it.
GetUser(row, isOwner, day) ==
    IF ~isOwner THEN row
    ELSE IF row = NoRow THEN SetUserRole(NewRow(day), "owner", 0)
    ELSE IF row.role # "owner" THEN SetUserRole(row, "owner", 0)
    ELSE row

\* The row get_user leaves: set_user_role swallows its own exception, and
\* then (saved is FALSE) the role is only in what get_user returns.
Left(row, isOwner, day, saved) ==
    IF saved THEN GetUser(row, isOwner, day)
    ELSE IF isOwner /\ row = NoRow THEN NewRow(day) ELSE row

\* A subscription ends the day after its expiry date: an ISO timestamp is
\* compared with today's ISO date as a string.
Expired(row, day) ==
    /\ row.role = "premium"
    /\ row.premium_expiry_date # 0
    /\ row.premium_expiry_date < day

\* check_and_update_quota, lines 221-237: the row once a lapsed subscription
\* is demoted and, for a limited role, an old day's counter is reset.
Demoted(row, day) == IF Expired(row, day) THEN SetUserRole(row, "free", 0) ELSE row
OldCount(row, day) == row.role \notin Unlimited /\ row.last_download_date # day
Rolled(row, day) ==
    IF OldCount(row, day)
    THEN [row EXCEPT !.downloads_today = 0, !.last_download_date = day]
    ELSE row

\* The row stored for what a function holds as row: a role that
\* set_user_role failed to save is still the one left by get_user.
Stored(row, left, saved) ==
    IF saved THEN row
    ELSE [row EXCEPT !.role = left.role, !.premium_expiry_date = left.premium_expiry_date]

\* check_and_update_quota: the row it leaves, and its verdict.  saved: the
\* role, promoted or demoted, reached the table; reset: so did the reset of
\* the counter, whose exception ends the function ("Database error.").
CheckQuota(row, isOwner, day, saved, reset) ==
    LET user == GetUser(row, isOwner, day)
        left == Left(row, isOwner, day, saved)
        paid == Demoted(user, day)
        now  == Rolled(paid, day)
    IN  IF user = NoRow \/ user.is_banned THEN [row |-> left, allowed |-> FALSE]
        ELSE IF OldCount(paid, day) /\ ~reset
        THEN [row |-> Stored(paid, left, saved), allowed |-> FALSE]
        ELSE [row |-> Stored(now, left, saved),
              allowed |-> now.role \in Unlimited \/ now.downloads_today < DailyLimit]

\* get_remaining_quota: neither demotes nor resets.
UsedToday(row, day) == IF row.last_download_date = day THEN row.downloads_today ELSE 0
Remaining(row, day) ==
    IF row = NoRow THEN [unlimited |-> FALSE, left |-> 0]
    ELSE [unlimited |-> row.role \in Unlimited,
          left |-> IF UsedToday(row, day) < DailyLimit
                   THEN DailyLimit - UsedToday(row, day) ELSE 0]

\* Mutant of IncrementQuota: the default count=1 whatever was downloaded.
IncrementByOne(row, count) == Update(row, [row EXCEPT !.downloads_today = @ + 1])

\* increment_quota: adds to whatever day the counter belongs to.
IncrementQuota(row, count) == Update(row, [row EXCEPT !.downloads_today = @ + count])

\* update_user_last_download(user_id, time.time())
UpdateLastDownload(row) == Update(row, [row EXCEPT !.cooling = TRUE])

\* ban_user, update_user_terms, save_session_string / logout_user
BanUser(row, banned)        == Update(row, [row EXCEPT !.is_banned = banned])
UpdateUserTerms(row, agreed) == Update(row, [row EXCEPT !.is_agreed_terms = agreed])
SetSession(row, present)    == Update(row, [row EXCEPT !.phone_session_string = present])

\* `user and user.get('phone_session_string')'
HasSession(row) == row # NoRow /\ row.phone_session_string
==============================================================================
