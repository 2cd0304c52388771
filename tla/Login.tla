-------------------------------- MODULE Login --------------------------------
(***************************************************************************)
(* Connecting an account (bot/login.py): /login opens a login process, the *)
(* next texts are the phone number, the code and the password, each used   *)
(* with a temporary client; /cancel_login, /logout and the expiry task end *)
(* the process.  A process is a mutable dict that handlers share by        *)
(* reference: a handler keeps its reference across every await, while      *)
(* login_states may lose the entry or point to a newer one.                *)
(***************************************************************************)
EXTENDS Naturals, Sequences

CONSTANTS
  Workers,     \* handler workers of the dispatcher
  Users,       \* telegram ids, all of whom accepted the terms
  NoClient,    \* no "client" key in a state, no client at hand
  MaxUpdates,  \* bound: updates handled in a behaviour
  RepliesFail  \* FALSE: every reply of the bot reaches its user

Clients == [user : Users, no : Nat]

ASSUME UsersAssumption == Users # {}
ASSUME UpdatesAssumption == MaxUpdates \in Nat
ASSUME RepliesAssumption == RepliesFail \in BOOLEAN
ASSUME NoClientAssumption == NoClient \notin Clients

VARIABLES
  states,        \* every dict ever created by login_start, by its number
  login_states,  \* the number of a user's dict, 0 for none
  connected,     \* the temporary clients that are connected
  session,       \* phone_session_string: the client it came from
  pc,            \* where each worker is suspended
  job,           \* the locals of its handler
  cleaner,       \* the locals of cleanup_expired_logins
  handled,       \* how many updates were taken so far
  told,          \* history: the last claim the bot made to a user
  careless       \* history: users whose updates or replies got in each other's way

vars == <<states, login_states, connected, session, pc, job, cleaner, handled,
          told, careless>>

Steps     == {"PHONE", "CODE", "PASSWORD"}
State     == [step : Steps, client : Clients \cup {NoClient}, fresh : BOOLEAN]
Locations == {"idle", "reply", "connect", "send_code", "told", "sorry", "sign_in",
              "check_password", "saved", "closing", "error", "undo", "cancel", "logout"}
Claims    == {"nothing", "cancelled", "not logged in"}

Idle == [user |-> CHOOSE u \in Users : TRUE, state |-> 0, client |-> NoClient, had |-> FALSE]
Rest == [todo |-> {}, user |-> Idle.user, client |-> NoClient]

Init ==
    /\ states = <<>>
    /\ login_states = [u \in Users |-> 0]
    /\ connected = {}
    /\ session = [u \in Users |-> NoClient]
    /\ pc = [w \in Workers |-> "idle"]
    /\ job = [w \in Workers |-> Idle]
    /\ cleaner = Rest
    /\ handled = 0
    /\ told = [u \in Users |-> "nothing"]
    /\ careless = {}

Working(u) == {w \in Workers : pc[w] # "idle" /\ job[w].user = u}

Goto(w, l) == pc' = [pc EXCEPT ![w] = l]
Quit(w)    == Goto(w, "idle") /\ job' = [job EXCEPT ![w] = Idle]

\* del login_states[u], which raises KeyError when another task deleted it.
Present(u) == login_states[u] # 0
Delete(u)  == login_states' = [login_states EXCEPT ![u] = 0]

\* A worker takes an update of u: u is careless when something of theirs
\* is still going on.
Take(w, u) ==
    /\ pc[w] = "idle"
    /\ handled < MaxUpdates
    /\ handled' = handled + 1
    /\ careless' = IF Working(u) # {} \/ (cleaner.client # NoClient /\ cleaner.user = u)
                   THEN careless \cup {u} ELSE careless

(***************************************************************************)
(* /login                                                                  *)
(***************************************************************************)
LoginStart(w, u) ==
    /\ pc[w] = "idle" /\ handled < MaxUpdates
    /\ handled' = handled + 1
    /\ Goto(w, "reply")
    /\ job' = [job EXCEPT ![w].user = u]
    /\ IF session[u] # NoClient
       THEN UNCHANGED <<states, login_states, told, careless>>
       ELSE /\ states' = Append(states, [step |-> "PHONE", client |-> NoClient, fresh |-> TRUE])
            /\ login_states' = [login_states EXCEPT ![u] = Len(states) + 1]
            /\ told' = [told EXCEPT ![u] = "nothing"]
            /\ careless' = IF Present(u) \/ Working(u) # {} THEN careless \cup {u} ELSE careless
    /\ UNCHANGED <<connected, session, cleaner>>

(***************************************************************************)
(* handle_login_steps                                                      *)
(***************************************************************************)
\* A text of a user with a login process (others are ignored): the phone number goes to a new
\* client, the code and the password to the client of the process.
Text(w, u) ==
    LET s   == login_states[u]
        new == [user |-> u, no |-> handled]
        loc == CASE states[s].step = "PHONE"    -> "connect"
                 [] states[s].step = "CODE"     -> "sign_in"
                 [] states[s].step = "PASSWORD" -> "check_password"
    IN  /\ Take(w, u)
        /\ Present(u)
        /\ states' = [states EXCEPT ![s].fresh = TRUE]
        /\ Goto(w, loc)
        /\ job' = [job EXCEPT ![w] = [Idle EXCEPT !.user = u, !.state = s,
                     !.client = IF loc = "connect" THEN new ELSE states[s].client]]
        /\ UNCHANGED <<login_states, connected, session, cleaner, told>>

\* connect() returned, or raised into the outer except.
Connect(w) ==
    /\ pc[w] = "connect"
    /\ \/ connected' = connected \cup {job[w].client} /\ Goto(w, "send_code")
       \/ UNCHANGED connected /\ Goto(w, "error")
    /\ UNCHANGED <<states, login_states, session, job, cleaner, handled, told, careless>>

\* send_code() returned, or raised into the apology.
SendCode(w) ==
    LET j == job[w]
    IN  /\ pc[w] = "send_code"
        /\ \/ /\ states' = [states EXCEPT ![j.state].client = j.client,
                                          ![j.state].step = "CODE"]
              /\ Goto(w, "told")
           \/ UNCHANGED states /\ Goto(w, "sorry")
        /\ UNCHANGED <<login_states, connected, session, job, cleaner, handled, told, careless>>

\* sign_in() or check_password() accepted: the session is exported from the
\* client's storage, open as long as the client is connected, and saved.
Accepted(w) ==
    LET j == job[w]
    IN  /\ pc[w] \in {"sign_in", "check_password"}
        /\ j.client \in connected
        /\ session' = [session EXCEPT ![j.user] = j.client]
        /\ Goto(w, "saved")
        /\ UNCHANGED <<states, login_states, connected, job, cleaner, handled, told, careless>>

\* The other answers: the code is wrong, a password is needed, the call
\* failed (as it does on a client that is no longer connected), or there is
\* no account behind the number and the export raises.
NotAccepted(w) ==
    /\ \/ pc[w] = "sign_in" /\ Goto(w, "told") /\ UNCHANGED states
       \/ /\ pc[w] = "sign_in" /\ Goto(w, "told")
          /\ states' = [states EXCEPT ![job[w].state].step = "PASSWORD"]
       \/ pc[w] \in {"sign_in", "check_password"} /\ Goto(w, "sorry") /\ UNCHANGED states
       \/ pc[w] = "sign_in" /\ Goto(w, "error") /\ UNCHANGED states
    /\ UNCHANGED <<login_states, connected, session, job, cleaner, handled, told, careless>>

\* A reply that raises: the handler continues in its outer except, or ends.
ReplyFails(w) ==
    /\ RepliesFail
    /\ pc[w] \in {"told", "sorry", "error"}
    /\ careless' = careless \cup {job[w].user}
    /\ IF pc[w] = "error" THEN Quit(w) ELSE Goto(w, "error") /\ UNCHANGED job
    /\ UNCHANGED <<states, login_states, connected, session, cleaner, handled, told>>

\* A reply with nothing behind it was sent.
Told(w) ==
    /\ pc[w] \in {"told", "reply"}
    /\ Quit(w)
    /\ UNCHANGED <<states, login_states, connected, session, cleaner, handled, told, careless>>

\* Mutant of Sorry: the client is not disconnected.
SorryLeavesClient(w) ==
    /\ pc[w] = "sorry"
    /\ Quit(w)
    /\ Delete(job[w].user)
    /\ UNCHANGED <<states, connected, session, cleaner, handled, told, careless>>

\* The apology was sent: the client is disconnected, which raises when it is
\* disconnected already.
Sorry(w) ==
    /\ pc[w] = "sorry"
    /\ Goto(w, IF job[w].client \in connected THEN "closing" ELSE "error")
    /\ UNCHANGED <<states, login_states, connected, session, job, cleaner, handled, told, careless>>

\* Mutant of Close: the entry is deleted on success only.
CloseKeepsEntry(w) ==
    LET j == job[w]
    IN  /\ pc[w] \in {"saved", "closing"}
        /\ connected' = connected \ {j.client}
        /\ IF Present(j.user)
           THEN IF pc[w] = "saved"
                THEN Delete(j.user) /\ Goto(w, "told") /\ UNCHANGED job
                ELSE Quit(w) /\ UNCHANGED login_states
           ELSE Goto(w, "error") /\ UNCHANGED <<login_states, job>>
        /\ UNCHANGED <<states, session, cleaner, handled, told, careless>>

\* disconnect() returned: the entry is deleted, whichever process it is of.
Close(w) ==
    LET j == job[w]
    IN  /\ pc[w] \in {"saved", "closing"}
        /\ connected' = connected \ {j.client}
        /\ IF Present(j.user)
           THEN /\ Delete(j.user)
                /\ IF pc[w] = "saved" THEN Goto(w, "told") /\ UNCHANGED job ELSE Quit(w)
           ELSE Goto(w, "error") /\ UNCHANGED <<login_states, job>>
        /\ UNCHANGED <<states, session, cleaner, handled, told, careless>>

\* "Error. Login cancelled." was sent: the client of the process, if any, is
\* disconnected, and the entry deleted; an exception here ends the handler.
Error(w) ==
    LET j == job[w]
        c == states[j.state].client
    IN  /\ pc[w] = "error"
        /\ IF c \in connected
           THEN Goto(w, "undo") /\ job' = [job EXCEPT ![w].client = c] /\ UNCHANGED login_states
           ELSE /\ Quit(w)
                /\ IF c = NoClient /\ Present(j.user) THEN Delete(j.user)
                   ELSE UNCHANGED login_states
        /\ UNCHANGED <<states, connected, session, cleaner, handled, told, careless>>

Undo(w) ==
    LET j == job[w]
    IN  /\ pc[w] = "undo"
        /\ Quit(w)
        /\ connected' = connected \ {j.client}
        /\ Delete(j.user)
        /\ UNCHANGED <<states, session, cleaner, handled, told, careless>>

(***************************************************************************)
(* /cancel_login and /logout                                               *)
(***************************************************************************)
Claim(u, claim) == told' = [told EXCEPT ![u] = claim]

\* What /cancel_login and /logout do after the login process is gone.
Finish(w, u, loc, had) ==
    /\ Goto(w, "reply")
    /\ job' = [job EXCEPT ![w] = [Idle EXCEPT !.user = u]]
    /\ IF loc = "logout" /\ had
       THEN session' = [session EXCEPT ![u] = NoClient] /\ UNCHANGED told
       ELSE Claim(u, IF loc = "cancel" THEN "cancelled" ELSE "not logged in") /\ UNCHANGED session

\* The command arrives; the row was read before anything is awaited.
EndLogin(w, u, loc) ==
    LET s == login_states[u]
    IN  /\ Take(w, u)
        /\ loc = "cancel" => Present(u)
        /\ IF Present(u) /\ states[s].client \in connected
           THEN /\ Goto(w, loc)
                /\ job' = [job EXCEPT ![w] = [Idle EXCEPT !.user = u, !.state = s,
                             !.client = states[s].client, !.had = session[u] # NoClient]]
                /\ UNCHANGED <<login_states, session, told>>
           ELSE Delete(u) /\ Finish(w, u, loc, session[u] # NoClient)
        /\ UNCHANGED <<states, connected, cleaner>>

\* disconnect() returned; a KeyError ends the handler.
LoginEnded(w) ==
    LET j == job[w]
    IN  /\ pc[w] \in {"cancel", "logout"}
        /\ connected' = connected \ {j.client}
        /\ Delete(j.user)
        /\ IF Present(j.user)
           THEN Finish(w, j.user, pc[w], j.had)
           ELSE Quit(w) /\ UNCHANGED <<session, told>>
        /\ UNCHANGED <<states, cleaner, handled, careless>>

(***************************************************************************)
(* cleanup_expired_logins: the expired users are listed once per round; an *)
(* exception abandons the round.                                           *)
(***************************************************************************)
Stale(u) == Present(u) /\ ~states[login_states[u]].fresh

Scan ==
    /\ cleaner = Rest
    /\ \E u \in Users : Stale(u)
    /\ cleaner' = [Rest EXCEPT !.todo = {u \in Users : Stale(u)}]
    /\ UNCHANGED <<states, login_states, connected, session, pc, job, handled, told, careless>>

\* Mutant of Expire: the entry is deleted only when there was a client.
ExpireNeedsClient(u) ==
    LET c == states[login_states[u]].client
    IN  /\ cleaner.client = NoClient /\ u \in cleaner.todo
        /\ IF ~Present(u) THEN cleaner' = Rest
           ELSE IF c \in connected THEN cleaner' = [cleaner EXCEPT !.client = c, !.user = u]
           ELSE cleaner' = [cleaner EXCEPT !.todo = @ \ {u}]
        /\ careless' = IF Working(u) # {} THEN careless \cup {u} ELSE careless
        /\ UNCHANGED <<states, login_states, connected, session, pc, job, handled, told>>

\* The next of the listed users: KeyError, a client to disconnect, or none.
Expire(u) ==
    LET c == states[login_states[u]].client
    IN  /\ cleaner.client = NoClient /\ u \in cleaner.todo
        /\ IF ~Present(u) THEN cleaner' = Rest /\ UNCHANGED login_states
           ELSE IF c \in connected
           THEN cleaner' = [cleaner EXCEPT !.client = c, !.user = u] /\ UNCHANGED login_states
           ELSE cleaner' = [cleaner EXCEPT !.todo = @ \ {u}] /\ Delete(u)
        /\ careless' = IF Working(u) # {} THEN careless \cup {u} ELSE careless
        /\ UNCHANGED <<states, connected, session, pc, job, handled, told>>

\* disconnect() returned.
Expired ==
    LET u == cleaner.user
    IN  /\ cleaner.client # NoClient
        /\ connected' = connected \ {cleaner.client}
        /\ Delete(u)
        /\ cleaner' = IF Present(u) THEN [Rest EXCEPT !.todo = cleaner.todo \ {u}] ELSE Rest
        /\ UNCHANGED <<states, session, pc, job, handled, told, careless>>

\* Five minutes pass without activity.
Timeout(u) ==
    /\ Present(u) /\ states[login_states[u]].fresh
    /\ states' = [states EXCEPT ![login_states[u]].fresh = FALSE]
    /\ UNCHANGED <<login_states, connected, session, pc, job, cleaner, handled, told, careless>>

-----------------------------------------------------------------------------
Updates(w) == \E u \in Users : \/ LoginStart(w, u) \/ Text(w, u)
                               \/ EndLogin(w, u, "cancel") \/ EndLogin(w, u, "logout")

\* A step of a handler that is under way.
Continue(w) ==
    \/ Connect(w) \/ SendCode(w) \/ Accepted(w) \/ NotAccepted(w) \/ ReplyFails(w)
    \/ Told(w) \/ Sorry(w) \/ Close(w) \/ Error(w) \/ Undo(w) \/ LoginEnded(w)

Cleaner == Scan \/ (\E u \in Users : Expire(u)) \/ Expired

Next ==
    \/ \E w \in Workers : Updates(w) \/ Continue(w)
    \/ Cleaner
    \/ \E u \in Users : Timeout(u)

Spec == Init /\ [][Next]_vars

(***************************************************************************)
(* Every await ends and the expiry task wakes up once a minute; users are  *)
(* free to send nothing.                                                   *)
(***************************************************************************)
FairSpec == Spec /\ WF_vars(Cleaner) /\ \A w \in Workers : WF_vars(Continue(w))

-----------------------------------------------------------------------------
\* ... and a process past the phone number has its client.
TypeOK ==
    /\ states \in Seq(State)
    /\ \A i \in 1 .. Len(states) : states[i].step # "PHONE" => states[i].client # NoClient
    /\ login_states \in [Users -> 0 .. Len(states)]
    /\ connected \subseteq Clients
    /\ session \in [Users -> Clients \cup {NoClient}]
    /\ pc \in [Workers -> Locations]
    /\ job \in [Workers -> [user : Users, state : 0 .. Len(states),
                            client : Clients \cup {NoClient}, had : BOOLEAN]]
    /\ cleaner \in [todo : SUBSET Users, user : Users, client : Clients \cup {NoClient}]
    /\ handled \in 0 .. MaxUpdates
    /\ told \in [Users -> Claims]
    /\ careless \subseteq Users

Current(u) == states[login_states[u]]

\* A login process that waits for a code or a password can still use it:
\* whoever disconnects a client also removes the process, even when several
\* handlers, a cancel and the expiry task work on it at once. (Types are as in
\* TypeOK.)
OpenLoginUsable ==
    /\ TypeOK
    /\ \A u \in Users : Present(u) /\ Current(u).step # "PHONE" => Current(u).client \in connected

\* Some task still has the client at hand and is to disconnect it.
AtHand(c) == cleaner.client = c \/ \E w \in Workers : job[w].client = c
Found(c)  == Present(c.user) /\ Current(c.user).client = c

\* A user who does one thing at a time, and whose replies arrive, leaves no
\* connected client behind that neither a handler nor login_states knows.
CarefulUsersLeakNothing ==
    \A c \in connected : c.user \notin careless => AtHand(c) \/ Found(c)

\* A process without activity does not stay: the expiry task removes it,
\* though other entries vanish under it and abort its rounds.
StaleLoginsGo ==
    \A u \in Users : Stale(u) ~> ~Stale(u)

-----------------------------------------------------------------------------
(***************************************************************************)
(* What the bot tells its users and the code does not keep.                *)
(***************************************************************************)
\* "This session will expire in 5 minutes if no activity is detected"
\* (login.py:84): the expiry task finds every client nobody works with.
EveryClientExpires == \A c \in connected : AtHand(c) \/ Found(c)

\* "Login process cancelled." (login.py:345): no account is connected.
CancelledMeansCancelled ==
    \A u \in Users : told[u] = "cancelled" => session[u] = NoClient

\* "You are not logged in." (login.py:368) is true when it is said.
LoggedOutMeansLoggedOut ==
    \A u \in Users : told[u] = "not logged in" => session[u] = NoClient

\* "Login session expired due to inactivity." (login.py:104): the expiry
\* task deletes only processes without activity.
ExpiresOnlyInactive ==
    [][\A u \in Users : cleaner' # cleaner /\ Present(u) /\ ~Present(u)' => Stale(u)]_vars
==============================================================================
