------------------------------ MODULE LoginProofs ------------------------------
(***************************************************************************)
(* Proofs about Login for any number of users, workers and updates: a      *)
(* login that waits for the user can go on, and careful users leave no     *)
(* client behind.                                                          *)
(***************************************************************************)
EXTENDS Login, SequenceTheorems, TLAPS

\* The types of TypeOK alone.
Job == [user : Users, state : Nat, client : Clients \cup {NoClient}, had : BOOLEAN]
Row == [todo : SUBSET Users, user : Users, client : Clients \cup {NoClient}]
Types ==
    /\ states \in Seq(State)
    /\ login_states \in [Users -> 0 .. Len(states)]
    /\ connected \subseteq Clients
    /\ session \in [Users -> Clients \cup {NoClient}]
    /\ pc \in [Workers -> Locations]
    /\ job \in [Workers -> Job]
    /\ \A w \in Workers : job[w].state \in 0 .. Len(states)
    /\ cleaner \in Row
    /\ handled \in 0 .. MaxUpdates
    /\ told \in [Users -> Claims]
    /\ careless \subseteq Users

\* A dict waits for the phone number as long as it has no client.
PhoneInv ==
    \A i \in 1 .. Len(states) : states[i].step = "PHONE" <=> states[i].client = NoClient

\* A handler that only replies has neither a dict nor a client at hand, every
\* other one has the dict its update was for.
Resting == {"idle", "reply"}
AtWork(w) == pc[w] \notin Resting
JobInv ==
    \A w \in Workers :
      /\ pc[w] \in Resting => job[w].client = NoClient /\ job[w].state = 0
      /\ AtWork(w) => job[w].state # 0
      /\ pc[w] \in {"sign_in", "check_password"} => states[job[w].state].step # "PHONE"

\* No two users share a dict or a client.
Holds(u, s) ==
    \/ login_states[u] = s
    \/ \E w \in Workers : job[w].user = u /\ job[w].state = s
Of(c, u) == c = NoClient \/ c.user = u
OwnerInv ==
    /\ \A w \in Workers : Of(job[w].client, job[w].user)
    /\ Of(cleaner.client, cleaner.user)
    /\ \A s \in 1 .. Len(states), u \in Users :
         Holds(u, s) => Of(states[s].client, u) /\ \A v \in Users : Holds(v, s) => u = v

\* The number of a client is that of the update it was made for: until the
\* code was sent nobody else knows the client.
Issued(c) == c = NoClient \/ c.no < handled
New(w) == pc[w] \in {"connect", "send_code"}
IssuedInv ==
    /\ \A c \in connected : Issued(c)
    /\ \A s \in 1 .. Len(states) : Issued(states[s].client)
    /\ Issued(cleaner.client)
    /\ \A w \in Workers : Issued(job[w].client)
NewInv ==
    \A w \in Workers : New(w) =>
      /\ job[w].client # NoClient
      /\ job[w].client # cleaner.client
      /\ \A s \in 1 .. Len(states) : states[s].client # job[w].client
      /\ \A v \in Workers \ {w} : job[v].client # job[w].client
      /\ pc[w] = "send_code" <=> job[w].client \in connected

UsableInv ==
    \A u \in Users : Present(u) /\ Current(u).step # "PHONE" => Current(u).client \in connected

SafeInv == Types /\ PhoneInv /\ JobInv /\ OwnerInv /\ IssuedInv /\ NewInv /\ UsableInv

-----------------------------------------------------------------------------
(***************************************************************************)
(* Types.                                                                  *)
(***************************************************************************)
LEMMA IdleType == Idle \in Job /\ Rest \in Row
  BY UsersAssumption DEF Idle, Rest, Job, Row

LEMMA DictType ==
  ASSUME Types
  PROVE  /\ \A s \in 1 .. Len(states) : states[s] \in State
         /\ \A u \in Users : Present(u) => login_states[u] \in 1 .. Len(states)
  BY ElementOfSeq DEF Types, Present

LEMMA QuitType ==
  ASSUME Types, NEW w \in Workers, Quit(w)
  PROVE  /\ pc' \in [Workers -> Locations]
         /\ job' \in [Workers -> Job]
         /\ \A v \in Workers : job'[v].state \in 0 .. Len(states)
  BY IdleType DEF Types, Quit, Goto, Locations, Idle

LEMMA FinishType ==
  ASSUME Types, NEW w \in Workers, NEW u \in Users, NEW loc, NEW had, Finish(w, u, loc, had)
  PROVE  /\ pc' \in [Workers -> Locations]
         /\ job' \in [Workers -> Job]
         /\ \A v \in Workers : job'[v].state \in 0 .. Len(states)
         /\ session' \in [Users -> Clients \cup {NoClient}]
         /\ told' \in [Users -> Claims]
<1>1. [Idle EXCEPT !.user = u] \in Job /\ [Idle EXCEPT !.user = u].state = 0
  BY DEF Idle, Job
<1>2. job' = [job EXCEPT ![w] = [Idle EXCEPT !.user = u]]
  BY DEF Finish
<1>3. job' \in [Workers -> Job] /\ \A v \in Workers : job'[v].state \in 0 .. Len(states)
  BY <1>1, <1>2, LenProperties DEF Types
<1>4. session' \in [Users -> Clients \cup {NoClient}] /\ told' \in [Users -> Claims]
  BY DEF Finish, Claim, Claims, Types
<1> QED BY <1>3, <1>4 DEF Finish, Goto, Types, Locations

LEMMA DeleteType ==
  ASSUME Types, NEW u \in Users, Delete(u)
  PROVE  login_states' \in [Users -> 0 .. Len(states)]
  BY DEF Types, Delete

LEMMA TypesStep == SafeInv /\ [Next]_vars => Types'
<1> SUFFICES ASSUME SafeInv, [Next]_vars PROVE Types'
  OBVIOUS
<1> USE DEF SafeInv
<1>1. ASSUME NEW w \in Workers, NEW u \in Users, LoginStart(w, u) PROVE Types'
  <2>1. pc' \in [Workers -> Locations] /\ handled' \in 0 .. MaxUpdates
    BY <1>1, UpdatesAssumption DEF Types, LoginStart, Goto, Locations
  <2>2. [job[w] EXCEPT !.user = u] \in Job
    BY DEF Types, Job
  <2>3. job' = [job EXCEPT ![w] = [job[w] EXCEPT !.user = u]]
    BY <1>1 DEF LoginStart
  <2>4. job' \in [Workers -> Job] /\ \A v \in Workers : job'[v].state = job[v].state
    BY <2>2, <2>3 DEF Types, Job
  <2>5. CASE session[u] # NoClient
    BY <1>1, <2>1, <2>4, <2>5 DEF Types, LoginStart
  <2>6. CASE session[u] = NoClient
    <3> DEFINE new == [step |-> "PHONE", client |-> NoClient, fresh |-> TRUE]
    <3>1. new \in State
      BY DEF State, Steps
    <3>2. states' = Append(states, new) /\ states \in Seq(State)
      BY <1>1, <2>6 DEF LoginStart, Types
    <3> HIDE DEF new
    <3>3. states' \in Seq(State) /\ Len(states') = Len(states) + 1
      BY <3>1, <3>2, AppendProperties
    <3>4. login_states' \in [Users -> 0 .. Len(states')]
      BY <1>1, <2>6, <3>3, LenProperties DEF LoginStart, Types
    <3>5. told' \in [Users -> Claims] /\ careless' \subseteq Users
      BY <1>1, <2>6 DEF Types, LoginStart, Claims
    <3>6. \A v \in Workers : job'[v].state \in 0 .. Len(states')
      <4>1. Len(states) \in Nat
        BY <3>2, LenProperties
      <4>2. \A v \in Workers : job[v].state \in 0 .. Len(states)
        BY DEF Types
      <4> QED BY <2>4, <3>3, <4>1, <4>2
    <3> QED BY <1>1, <2>1, <2>4, <3>3, <3>4, <3>5, <3>6 DEF Types, LoginStart
  <2> QED BY <2>5, <2>6
<1>2. ASSUME NEW w \in Workers, NEW u \in Users, Text(w, u) PROVE Types'
  <2> DEFINE s == login_states[u]
  <2>1. s \in 1 .. Len(states) /\ states[s] \in State
    BY <1>2, DictType DEF Text
  <2>2. [states[s] EXCEPT !.fresh = TRUE] \in State
    BY <2>1 DEF State
  <2>3. states' \in Seq(State) /\ Len(states') = Len(states)
    BY <1>2, <2>1, <2>2, ExceptSeq DEF Text, Types
  <2>4. [user |-> u, no |-> handled] \in Clients
    BY UpdatesAssumption DEF Types, Clients
  <2>5. PICK c \in Clients \cup {NoClient} :
          job' = [job EXCEPT ![w] = [Idle EXCEPT !.user = u, !.state = s, !.client = c]]
    BY <1>2, <2>1, <2>4 DEF Text, State
  <2>6. [Idle EXCEPT !.user = u, !.state = s, !.client = c] \in Job
    <3>1. s \in Nat
      BY <2>1
    <3> QED BY <3>1, IdleType DEF Job
  <2>7. job' \in [Workers -> Job] /\ \A v \in Workers : job'[v].state \in 0 .. Len(states)
    BY <2>1, <2>5, <2>6 DEF Types, Idle
  <2>8. pc' \in [Workers -> Locations] /\ handled' \in 0 .. MaxUpdates /\ careless' \subseteq Users
    <3>1. states[s].step \in Steps
      BY <2>1 DEF State
    <3> QED BY <1>2, <2>1, <3>1, UpdatesAssumption DEF Text, Take, Goto, Types, Locations, Steps
  <2> QED BY <1>2, <2>3, <2>7, <2>8 DEF Text, Types
<1>3. ASSUME NEW w \in Workers, NEW u \in Users, NEW loc \in {"cancel", "logout"}, EndLogin(w, u, loc)
      PROVE  Types'
  <2> DEFINE s == login_states[u]
  <2>1. handled' \in 0 .. MaxUpdates /\ careless' \subseteq Users
    BY <1>3, UpdatesAssumption DEF EndLogin, Take, Types
  <2>2. CASE Present(u) /\ states[s].client \in connected
    <3>1. s \in 1 .. Len(states) /\ states[s] \in State
      BY <2>2, DictType
    <3> DEFINE j == [Idle EXCEPT !.user = u, !.state = s,
                       !.client = states[s].client, !.had = session[u] # NoClient]
    <3>2. j \in Job /\ j.state = s
      <4>1. s \in Nat /\ states[s].client \in Clients \cup {NoClient}
        BY <3>1 DEF State
      <4>2. (session[u] # NoClient) \in BOOLEAN
        OBVIOUS
      <4> QED BY <4>1, <4>2, IdleType DEF Job
    <3>3. job' = [job EXCEPT ![w] = j] /\ pc' = [pc EXCEPT ![w] = loc]
      BY <1>3, <2>2 DEF EndLogin, Goto
    <3> HIDE DEF j
    <3>4. job' \in [Workers -> Job] /\ \A v \in Workers : job'[v].state \in 0 .. Len(states)
      BY <3>1, <3>2, <3>3 DEF Types
    <3> QED BY <1>3, <2>1, <2>2, <3>3, <3>4 DEF EndLogin, Types, Locations
  <2>3. CASE ~(Present(u) /\ states[s].client \in connected)
    <3> DEFINE j == [Idle EXCEPT !.user = u]
    <3>1. Delete(u) /\ Finish(w, u, loc, session[u] # NoClient)
      BY <1>3, <2>3 DEF EndLogin
    <3> QED BY <1>3, <2>1, <3>1, FinishType, DeleteType DEF EndLogin, Types
  <2> QED BY <2>2, <2>3
<1>4. ASSUME NEW w \in Workers, Connect(w) PROVE Types'
  <2>1. job[w].client \in Clients
    BY <1>4 DEF Connect, NewInv, New, Types, Job
  <2>2. connected' \subseteq Clients
    BY <1>4, <2>1 DEF Connect, Types
  <2>3. pc' \in [Workers -> Locations]
    BY <1>4 DEF Connect, Goto, Types, Locations
  <2> QED BY <1>4, <2>2, <2>3 DEF Connect, Types
<1>5. ASSUME NEW w \in Workers, SendCode(w) PROVE Types'
  <2> DEFINE s == job[w].state
             d == [states[s] EXCEPT !.client = job[w].client, !.step = "CODE"]
  <2>1. s \in 1 .. Len(states) /\ states[s] \in State
    <3>1. s # 0 /\ s \in 0 .. Len(states) /\ Len(states) \in Nat
      BY <1>5, LenProperties DEF SendCode, JobInv, AtWork, Resting, Types
    <3>2. s \in 1 .. Len(states)
      BY <3>1
    <3> QED BY <3>2, DictType
  <2>2. d \in State
    BY <2>1 DEF State, Types, Job, Steps
  <2>3. states' \in {states, [states EXCEPT ![s] = d]}
    BY <1>5, <2>1 DEF SendCode, Types, State
  <2>4. states' \in Seq(State) /\ Len(states') = Len(states)
    BY <2>1, <2>2, <2>3, ExceptSeq DEF Types
  <2> QED BY <1>5, <2>4 DEF SendCode, Goto, Types, Locations
<1>6. ASSUME NEW w \in Workers, Accepted(w) PROVE Types'
  BY <1>6 DEF Accepted, Goto, Types, Locations, Job
<1>7. ASSUME NEW w \in Workers, NotAccepted(w) PROVE Types'
  <2> DEFINE s == job[w].state
             d == [states[s] EXCEPT !.step = "PASSWORD"]
  <2>1. s \in 1 .. Len(states) /\ states[s] \in State
    <3>1. s # 0 /\ s \in 0 .. Len(states) /\ Len(states) \in Nat
      BY <1>7, LenProperties DEF NotAccepted, JobInv, AtWork, Resting, Types
    <3>2. s \in 1 .. Len(states)
      BY <3>1
    <3> QED BY <3>2, DictType
  <2>2. d \in State
    BY <2>1 DEF State, Steps
  <2>3. states' \in {states, [states EXCEPT ![s] = d]}
    BY <1>7 DEF NotAccepted
  <2>4. states' \in Seq(State) /\ Len(states') = Len(states)
    <3>1. states \in Seq(State)
      BY DEF Types
    <3> HIDE DEF s, d
    <3> QED BY <2>1, <2>2, <2>3, <3>1, ExceptSeq
  <2> QED BY <1>7, <2>4 DEF NotAccepted, Goto, Types, Locations
<1>8. ASSUME NEW w \in Workers, ReplyFails(w) PROVE Types'
  <2>1. job[w].user \in Users
    BY DEF Types, Job
  <2>2. CASE pc[w] = "error"
    BY <1>8, <2>1, <2>2, QuitType DEF ReplyFails, Types
  <2>3. CASE pc[w] # "error"
    BY <1>8, <2>1, <2>3 DEF ReplyFails, Goto, Types, Locations
  <2> QED BY <2>2, <2>3
<1>9. ASSUME NEW w \in Workers, Told(w) PROVE Types'
  BY <1>9, QuitType DEF Told, Types
<1>10. ASSUME NEW w \in Workers, Sorry(w) PROVE Types'
  BY <1>10 DEF Sorry, Goto, Types, Locations
<1>11. ASSUME NEW w \in Workers, Close(w) PROVE Types'
  <2>1. job[w].user \in Users
    BY DEF Types, Job
  <2>2. CASE Present(job[w].user) /\ pc[w] # "saved"
    BY <1>11, <2>1, <2>2, QuitType, DeleteType DEF Close, Types
  <2>3. CASE Present(job[w].user) /\ pc[w] = "saved"
    BY <1>11, <2>1, <2>3, DeleteType DEF Close, Goto, Types, Locations
  <2>4. CASE ~Present(job[w].user)
    BY <1>11, <2>4 DEF Close, Goto, Types, Locations
  <2> QED BY <2>2, <2>3, <2>4
<1>12. ASSUME NEW w \in Workers, Error(w) PROVE Types'
  <2> DEFINE s == job[w].state
  <2>1. s \in 1 .. Len(states) /\ states[s] \in State /\ job[w].user \in Users
    <3>1. s # 0 /\ s \in 0 .. Len(states) /\ job[w].user \in Users
      BY <1>12 DEF Error, JobInv, AtWork, Resting, Types, Job
    <3>2. s \in 1 .. Len(states)
      BY <3>1
    <3> QED BY <3>1, <3>2, DictType
  <2>2. CASE states[s].client \in connected
    <3>0. states[s].client \in Clients \cup {NoClient} /\ job[w] \in Job
      BY <2>1 DEF Types, State
    <3>1. [job[w] EXCEPT !.client = states[s].client] \in Job
      BY <3>0 DEF Job
    <3>2. job' = [job EXCEPT ![w] = [job[w] EXCEPT !.client = states[s].client]]
      BY <1>12, <2>2 DEF Error
    <3>3. job' \in [Workers -> Job] /\ \A v \in Workers : job'[v].state = job[v].state
      BY <3>1, <3>2 DEF Types, Job
    <3> QED BY <1>12, <2>2, <3>3 DEF Error, Goto, Types, Locations
  <2>3. CASE states[s].client \notin connected
    <3>1. login_states' \in [Users -> 0 .. Len(states)]
      BY <1>12, <2>1, <2>3, DeleteType DEF Error, Types
    <3> QED BY <1>12, <2>3, <3>1, QuitType DEF Error, Types
  <2> QED BY <2>2, <2>3
<1>13. ASSUME NEW w \in Workers, Undo(w) PROVE Types'
  <2>1. job[w].user \in Users
    BY DEF Types, Job
  <2> QED BY <1>13, <2>1, QuitType, DeleteType DEF Undo, Types
<1>14. ASSUME NEW w \in Workers, LoginEnded(w) PROVE Types'
  <2>1. job[w].user \in Users
    BY DEF Types, Job
  <2>2. CASE Present(job[w].user)
    BY <1>14, <2>1, <2>2, FinishType, DeleteType DEF LoginEnded, Types
  <2>3. CASE ~Present(job[w].user)
    BY <1>14, <2>1, <2>3, QuitType, DeleteType DEF LoginEnded, Types
  <2> QED BY <2>2, <2>3
<1>15. CASE Scan
  BY <1>15, IdleType DEF Scan, Types, Row, Rest
<1>16. ASSUME NEW u \in Users, Expire(u) PROVE Types'
  <2> DEFINE c == states[login_states[u]].client
  <2>1. careless' \subseteq Users
    BY <1>16 DEF Expire, Types
  <2>2. login_states' \in [Users -> 0 .. Len(states)]
    BY <1>16, DeleteType DEF Expire, Types
  <2>3. cleaner' \in Row
    <3>1. Rest \in Row /\ [cleaner EXCEPT !.todo = @ \ {u}] \in Row
      BY IdleType DEF Types, Row
    <3>2. CASE Present(u) /\ c \in connected
      <4>1. c \in Clients /\ [cleaner EXCEPT !.client = c, !.user = u] \in Row
        BY <3>2 DEF Types, Row
      <4> QED BY <1>16, <3>2, <4>1 DEF Expire
    <3> QED BY <1>16, <3>1, <3>2 DEF Expire
  <2> QED BY <1>16, <2>1, <2>2, <2>3 DEF Expire, Types
<1>17. CASE Expired
  <2>1. cleaner.user \in Users /\ [Rest EXCEPT !.todo = cleaner.todo \ {cleaner.user}] \in Row
    BY IdleType DEF Types, Row
  <2> QED BY <1>17, <2>1, IdleType, DeleteType DEF Expired, Types
<1>18. ASSUME NEW u \in Users, Timeout(u) PROVE Types'
  <2> DEFINE s == login_states[u]
  <2>1. s \in 1 .. Len(states) /\ [states[s] EXCEPT !.fresh = FALSE] \in State
    BY <1>18, DictType DEF Timeout, State
  <2>2. states' \in Seq(State) /\ Len(states') = Len(states)
    BY <1>18, <2>1, ExceptSeq DEF Timeout, Types
  <2> QED BY <1>18, <2>2 DEF Timeout, Types
<1>19. CASE UNCHANGED vars
  BY <1>19 DEF vars, Types
<1> QED
  BY <1>1, <1>2, <1>3, <1>4, <1>5, <1>6, <1>7, <1>8, <1>9, <1>10, <1>11, <1>12, <1>13, <1>14,
     <1>15, <1>16, <1>17, <1>18, <1>19
  DEF Next, Updates, Continue, Cleaner

-----------------------------------------------------------------------------
(***************************************************************************)
(* What each action does to the dicts.                                     *)
(***************************************************************************)
SameDicts ==
    /\ Len(states') = Len(states)
    /\ \A i \in 1 .. Len(states) :
         states'[i].step = states[i].step /\ states'[i].client = states[i].client

LEMMA SameIfUnchanged == UNCHANGED states => SameDicts
  BY DEF SameDicts

\* A dict is marked as used or unused.
LEMMA Marked ==
  ASSUME Types, NEW s \in 1 .. Len(states), NEW b \in BOOLEAN,
         states' = [states EXCEPT ![s].fresh = b]
  PROVE  SameDicts
<1> DEFINE d == [states[s] EXCEPT !.fresh = b]
<1>1. states \in Seq(State) /\ states[s] \in State
  BY DictType DEF Types
<1>2. d \in State /\ d.step = states[s].step /\ d.client = states[s].client
  BY <1>1 DEF State
<1>3. states' = [states EXCEPT ![s] = d]
  OBVIOUS
<1> HIDE DEF d
<1> QED BY <1>1, <1>2, <1>3, ExceptSeq DEF SameDicts

LEMMA TextDicts ==
  ASSUME Types, NEW w \in Workers, NEW u \in Users, Text(w, u)
  PROVE  SameDicts /\ login_states[u] \in 1 .. Len(states)
<1>1. login_states[u] \in 1 .. Len(states)
  BY DictType DEF Text
<1>2. states' = [states EXCEPT ![login_states[u]].fresh = TRUE]
  BY DEF Text
<1> QED BY <1>1, <1>2, Marked

LEMMA TimeoutDicts ==
  ASSUME Types, NEW u \in Users, Timeout(u)
  PROVE  SameDicts
<1>1. login_states[u] \in 1 .. Len(states)
  BY DictType DEF Timeout
<1>2. states' = [states EXCEPT ![login_states[u]].fresh = FALSE]
  BY DEF Timeout
<1> QED BY <1>1, <1>2, Marked

\* The new process of a user.
LEMMA NewDict ==
  ASSUME Types, NEW w \in Workers, NEW u \in Users, LoginStart(w, u), session[u] = NoClient
  PROVE  /\ Len(states') = Len(states) + 1 /\ Len(states) \in Nat
         /\ \A i \in 1 .. Len(states) : states'[i] = states[i]
         /\ states'[Len(states) + 1].step = "PHONE"
         /\ states'[Len(states) + 1].client = NoClient
<1> DEFINE d == [step |-> "PHONE", client |-> NoClient, fresh |-> TRUE]
<1>1. d \in State /\ states \in Seq(State)
  BY DEF State, Steps, Types
<1>2. states' = Append(states, d)
  BY DEF LoginStart
<1>3. d.step = "PHONE" /\ d.client = NoClient
  OBVIOUS
<1> HIDE DEF d
<1> QED BY <1>1, <1>2, <1>3, AppendProperties, LenProperties

\* The dict of a handler that is at work.
LEMMA WorkedOn ==
  ASSUME Types, JobInv, NEW w \in Workers, AtWork(w)
  PROVE  job[w].state \in 1 .. Len(states) /\ states[job[w].state] \in State
<1>1. job[w].state # 0 /\ job[w].state \in 0 .. Len(states)
  BY DEF JobInv, Types
<1>2. job[w].state \in 1 .. Len(states)
  BY <1>1
<1> QED BY <1>2, DictType

\* The code was sent: the dict has the client of the handler from now on.
LEMMA CodeDict ==
  ASSUME Types, JobInv, NEW w \in Workers, SendCode(w), pc'[w] = "told"
  PROVE  /\ Len(states') = Len(states) /\ job[w].state \in 1 .. Len(states)
         /\ \A i \in 1 .. Len(states) : i # job[w].state => states'[i] = states[i]
         /\ states'[job[w].state].step = "CODE"
         /\ states'[job[w].state].client = job[w].client
<1> DEFINE s == job[w].state
           d == [states[s] EXCEPT !.client = job[w].client, !.step = "CODE"]
<1>1. s \in 1 .. Len(states) /\ states[s] \in State /\ states \in Seq(State)
  BY WorkedOn DEF SendCode, AtWork, Resting, Types
<1>2. d \in State /\ d.step = "CODE" /\ d.client = job[w].client
  BY <1>1 DEF State, Types, Job, Steps
<1>3. states' = [states EXCEPT ![s] = d]
  <2>1. pc' # [pc EXCEPT ![w] = "sorry"]
    BY DEF Types
  <2> QED BY <1>1, <2>1 DEF SendCode, Goto, State, Types
<1> HIDE DEF s, d
<1>4. /\ Len(states') = Len(states)
      /\ \A i \in 1 .. Len(states) : i # s => states'[i] = states[i]
      /\ states'[s].step = "CODE" /\ states'[s].client = job[w].client
  BY <1>1, <1>2, <1>3, ExceptSeq
<1> QED BY <1>1, <1>4 DEF s

\* A password is needed, or nothing changes.
LEMMA PasswordDict ==
  ASSUME Types, JobInv, NEW w \in Workers, NotAccepted(w)
  PROVE  /\ Len(states') = Len(states)
         /\ \A i \in 1 .. Len(states) :
              /\ states'[i].client = states[i].client
              /\ \/ states'[i].step = states[i].step
                 \/ i = job[w].state /\ pc[w] = "sign_in" /\ states'[i].step = "PASSWORD"
<1> DEFINE s == job[w].state
           d == [states[s] EXCEPT !.step = "PASSWORD"]
<1>1. s \in 1 .. Len(states) /\ states[s] \in State /\ states \in Seq(State)
  BY WorkedOn DEF NotAccepted, AtWork, Resting, Types
<1>2. CASE UNCHANGED states
  BY <1>2
<1>3. CASE pc[w] = "sign_in" /\ states' = [states EXCEPT ![s] = d]
  <2>1. d \in State /\ d.step = "PASSWORD" /\ d.client = states[s].client
    BY <1>1 DEF State, Steps
  <2> HIDE DEF s, d
  <2>2. /\ Len(states') = Len(states)
        /\ \A i \in 1 .. Len(states) : i # s => states'[i] = states[i]
        /\ states'[s] = d
    BY <1>1, <1>3, ExceptSeq
  <2>3. \A i \in 1 .. Len(states) :
              /\ states'[i].client = states[i].client
              /\ \/ states'[i].step = states[i].step
                 \/ i = s /\ pc[w] = "sign_in" /\ states'[i].step = "PASSWORD"
    BY <1>3, <2>1, <2>2
  <2> QED BY <2>2, <2>3 DEF s
<1> QED BY <1>2, <1>3 DEF NotAccepted
\* No dict goes back to its first step.
StepsOn ==
    /\ Len(states') \in Nat /\ Len(states) \in Nat /\ Len(states) <= Len(states')
    /\ \A i \in 1 .. Len(states) : states[i].step # "PHONE" => states'[i].step # "PHONE"

LEMMA SendCodeDicts ==
  ASSUME Types, JobInv, NEW w \in Workers, SendCode(w)
  PROVE  \/ pc'[w] = "told"
         \/ pc'[w] = "sorry" /\ UNCHANGED states
  BY DEF SendCode, Goto, Types

LEMMA DictsStep ==
  ASSUME SafeInv, [Next]_vars
  PROVE  PhoneInv' /\ StepsOn
<1> USE DEF SafeInv
<1>0. Len(states) \in Nat
  BY LenProperties DEF Types
<1>1. CASE SameDicts
  BY <1>0, <1>1 DEF SameDicts, PhoneInv, StepsOn
<1>2. ASSUME NEW w \in Workers, NEW u \in Users, LoginStart(w, u)
      PROVE  PhoneInv' /\ StepsOn
  <2>1. CASE session[u] = NoClient
    <3>1. \A i \in 1 .. Len(states') : i \in 1 .. Len(states) \/ i = Len(states) + 1
      BY <1>2, <2>1, NewDict
    <3> QED BY <1>2, <2>1, <3>1, NewDict DEF PhoneInv, StepsOn
  <2>2. CASE session[u] # NoClient
    BY <1>1, <1>2, <2>2, SameIfUnchanged DEF LoginStart
  <2> QED BY <2>1, <2>2
<1>3. ASSUME NEW w \in Workers, SendCode(w)
      PROVE  PhoneInv' /\ StepsOn
  <2>1. CASE pc'[w] = "told"
    <3>1. job[w].client # NoClient
      BY <1>3 DEF NewInv, New, SendCode
    <3>2. \A i \in 1 .. Len(states) : states'[i].step = "PHONE" <=> states'[i].client = NoClient
      BY <1>3, <2>1, <3>1, CodeDict DEF PhoneInv
    <3>3. \A i \in 1 .. Len(states) : states[i].step # "PHONE" => states'[i].step # "PHONE"
      BY <1>3, <2>1, CodeDict
    <3> QED BY <1>0, <1>3, <2>1, <3>2, <3>3, CodeDict DEF PhoneInv, StepsOn
  <2> QED BY <1>1, <1>3, <2>1, SendCodeDicts, SameIfUnchanged
<1>4. ASSUME NEW w \in Workers, NotAccepted(w)
      PROVE  PhoneInv' /\ StepsOn
  <2>1. pc[w] = "sign_in" => states[job[w].state].step # "PHONE"
    BY DEF JobInv
  <2> QED BY <1>0, <1>4, <2>1, PasswordDict DEF PhoneInv, StepsOn
<1>5. CASE \E w \in Workers, u \in Users : Text(w, u)
  BY <1>1, <1>5, TextDicts
<1>6. CASE \E u \in Users : Timeout(u)
  BY <1>1, <1>6, TimeoutDicts
<1>7. CASE UNCHANGED states
  BY <1>1, <1>7, SameIfUnchanged
<1> QED
  BY <1>2, <1>3, <1>4, <1>5, <1>6, <1>7
  DEF Next, Updates, Continue, Cleaner, EndLogin, Connect, Accepted, ReplyFails, Told, Sorry,
      Close, Error, Undo, LoginEnded, Scan, Expire, Expired, vars

-----------------------------------------------------------------------------
(***************************************************************************)
(* What each action does to the handlers.                                  *)
(***************************************************************************)
Moves(w) == \A v \in Workers \ {w} : pc'[v] = pc[v] /\ job'[v] = job[v]

LEMMA GotoMoves ==
  ASSUME Types, NEW w \in Workers, NEW l, Goto(w, l), UNCHANGED job
  PROVE  Moves(w) /\ pc'[w] = l /\ job'[w] = job[w]
  BY DEF Types, Goto, Moves

LEMMA JobMoves ==
  ASSUME Types, NEW w \in Workers, NEW l, NEW j, Goto(w, l), job' = [job EXCEPT ![w] = j]
  PROVE  Moves(w) /\ pc'[w] = l /\ job'[w] = j
  BY DEF Types, Goto, Moves

\* The job of a handler that has taken an update.
LEMMA TakenJob ==
  ASSUME NEW u, NEW s, NEW c, NEW h
  PROVE  /\ LET j == [Idle EXCEPT !.user = u, !.state = s, !.client = c]
            IN  j.user = u /\ j.state = s /\ j.client = c
         /\ LET j == [Idle EXCEPT !.user = u, !.state = s, !.client = c, !.had = h]
            IN  j.user = u /\ j.state = s /\ j.client = c
  BY DEF Idle

LEMMA QuitMoves ==
  ASSUME Types, NEW w \in Workers, Quit(w)
  PROVE  /\ Moves(w) /\ pc'[w] = "idle"
         /\ job'[w].client = NoClient /\ job'[w].state = 0
  BY DEF Types, Quit, Goto, Moves, Idle

LEMMA FinishMoves ==
  ASSUME Types, NEW w \in Workers, NEW u \in Users, NEW loc, NEW had, Finish(w, u, loc, had)
  PROVE  /\ Moves(w) /\ pc'[w] = "reply"
         /\ job'[w].client = NoClient /\ job'[w].state = 0
  BY DEF Types, Finish, Goto, Moves, Idle

LEMMA StartMoves ==
  ASSUME Types, JobInv, NEW w \in Workers, NEW u \in Users, LoginStart(w, u)
  PROVE  /\ Moves(w) /\ pc'[w] = "reply" /\ pc[w] = "idle"
         /\ job'[w].client = NoClient /\ job'[w].state = 0
<1>1. job[w] \in Job /\ job' = [job EXCEPT ![w] = [job[w] EXCEPT !.user = u]]
  BY DEF LoginStart, Types
<1>2. job[w].client = NoClient /\ job[w].state = 0
  BY DEF JobInv, Resting, LoginStart
<1>3. job'[w].client = NoClient /\ job'[w].state = 0
  BY <1>1, <1>2 DEF Job, Types
<1> QED BY <1>1, <1>3 DEF LoginStart, Goto, Moves, Types

LEMMA TextMoves ==
  ASSUME Types, NEW w \in Workers, NEW u \in Users, Text(w, u)
  PROVE  /\ Moves(w)
         /\ pc[w] = "idle"
         /\ job'[w].user = u /\ job'[w].state = login_states[u]
         /\ \/ /\ pc'[w] = "connect" /\ Current(u).step = "PHONE"
               /\ job'[w].client = [user |-> u, no |-> handled]
            \/ /\ pc'[w] \in {"sign_in", "check_password"} /\ Current(u).step # "PHONE"
               /\ job'[w].client = Current(u).client
<1> DEFINE s == login_states[u]
<1>1. states[s].step \in Steps
  BY DictType DEF Text, State
<1>2. pc[w] = "idle"
  BY DEF Text, Take
<1>3. CASE states[s].step = "PHONE"
  <2> DEFINE c == [user |-> u, no |-> handled]
             j == [Idle EXCEPT !.user = u, !.state = s, !.client = c]
  <2>1. Goto(w, "connect") /\ job' = [job EXCEPT ![w] = j]
    BY <1>3 DEF Text
  <2>2. j.user = u /\ j.state = s /\ j.client = c
    BY TakenJob
  <2>3. Current(u).step = "PHONE"
    BY <1>3 DEF Current
  <2> HIDE DEF j, c
  <2>4. Moves(w) /\ pc'[w] = "connect" /\ job'[w] = j
    BY <2>1, JobMoves
  <2> QED BY <1>2, <2>2, <2>3, <2>4 DEF c
<1>4. CASE states[s].step # "PHONE"
  <2> DEFINE j == [Idle EXCEPT !.user = u, !.state = s, !.client = states[s].client]
  <2>1. PICK l \in {"sign_in", "check_password"} : Goto(w, l)
    BY <1>1, <1>4 DEF Text, Steps
  <2>2. job' = [job EXCEPT ![w] = j]
    BY <1>1, <1>4 DEF Text, Steps
  <2>3. j.user = u /\ j.state = s /\ j.client = states[s].client
    BY TakenJob
  <2> HIDE DEF j
  <2>4. Moves(w) /\ pc'[w] = l /\ job'[w] = j
    BY <2>1, <2>2, JobMoves
  <2> QED BY <1>2, <1>4, <2>3, <2>4 DEF Current
<1> QED BY <1>3, <1>4

LEMMA EndMoves ==
  ASSUME Types, NEW w \in Workers, NEW u \in Users, NEW loc \in {"cancel", "logout"},
         EndLogin(w, u, loc)
  PROVE  /\ Moves(w)
         /\ pc[w] = "idle"
         /\ \/ /\ pc'[w] = "reply"
               /\ job'[w].client = NoClient /\ job'[w].state = 0
               /\ ~(Present(u) /\ Current(u).client \in connected)
               /\ Delete(u)
            \/ /\ pc'[w] \in {"cancel", "logout"} /\ Present(u)
               /\ job'[w].user = u /\ job'[w].state = login_states[u]
               /\ job'[w].client = Current(u).client /\ Current(u).client \in connected
               /\ UNCHANGED login_states
<1>1. CASE Present(u) /\ Current(u).client \in connected
  <2> DEFINE s == login_states[u]
             j == [Idle EXCEPT !.user = u, !.state = s, !.client = states[s].client,
                               !.had = session[u] # NoClient]
  <2>1. /\ Goto(w, loc) /\ job' = [job EXCEPT ![w] = j]
        /\ UNCHANGED login_states
    BY <1>1 DEF EndLogin, Current
  <2>2. pc[w] = "idle"
    BY DEF EndLogin, Take
  <2>3. j.user = u /\ j.state = s /\ j.client = Current(u).client
    BY TakenJob DEF Current
  <2> HIDE DEF j
  <2>4. Moves(w) /\ pc'[w] = loc /\ job'[w] = j
    BY <2>1, JobMoves
  <2> QED BY <1>1, <2>1, <2>2, <2>3, <2>4
<1>2. CASE ~(Present(u) /\ Current(u).client \in connected)
  <2>1. Delete(u) /\ Finish(w, u, loc, session[u] # NoClient)
    BY <1>2 DEF EndLogin, Current
  <2> QED BY <1>2, <2>1, FinishMoves DEF EndLogin, Take
<1> QED BY <1>1, <1>2
LEMMA ErrorMoves ==
  ASSUME Types, JobInv, NEW w \in Workers, Error(w)
  PROVE  /\ Moves(w)
         /\ \/ /\ pc'[w] = "undo" /\ job'[w].state = job[w].state /\ job'[w].user = job[w].user
               /\ job'[w].client = states[job[w].state].client
               /\ job'[w].client \in connected
               /\ UNCHANGED login_states
            \/ /\ Quit(w)
               /\ states[job[w].state].client \notin connected
               /\ \/ UNCHANGED login_states
                  \/ Delete(job[w].user) /\ states[job[w].state].client = NoClient
<1> DEFINE c == states[job[w].state].client
<1>1. CASE c \in connected
  <2>1. job' = [job EXCEPT ![w] = [job[w] EXCEPT !.client = c]] /\ pc' = [pc EXCEPT ![w] = "undo"]
    BY <1>1 DEF Error, Goto
  <2> HIDE DEF c
  <2>2. Moves(w) /\ pc'[w] = "undo" /\ job'[w].state = job[w].state /\ job'[w].user = job[w].user
        /\ job'[w].client = c
    BY <2>1 DEF Types, Job, Moves
  <2> QED BY <1>1, <2>2 DEF Error, c
<1>2. CASE c \notin connected
  BY <1>2, QuitMoves DEF Error
<1> QED BY <1>1, <1>2

\* The handler that moves is the only one whose facts can change.
LEMMA JobInvKept ==
  ASSUME Types, JobInv, StepsOn, NEW w \in Workers, Moves(w),
         pc'[w] \in Resting => job'[w].client = NoClient /\ job'[w].state = 0,
         pc'[w] \notin Resting => job'[w].state # 0,
         pc'[w] \in {"sign_in", "check_password"} => states'[job'[w].state].step # "PHONE"
  PROVE  JobInv'
<1> SUFFICES ASSUME NEW v \in Workers
             PROVE  /\ pc'[v] \in Resting => job'[v].client = NoClient /\ job'[v].state = 0
                    /\ pc'[v] \notin Resting => job'[v].state # 0
                    /\ pc'[v] \in {"sign_in", "check_password"} => states'[job'[v].state].step # "PHONE"
  BY DEF JobInv, AtWork
<1>1. CASE v = w
  BY <1>1
<1>2. CASE v # w
  <2>1. pc'[v] = pc[v] /\ job'[v] = job[v]
    BY <1>2 DEF Moves
  <2>2. pc[v] \in {"sign_in", "check_password"} => job[v].state \in 1 .. Len(states)
    BY WorkedOn DEF AtWork, Resting
  <2> QED BY <2>1, <2>2 DEF JobInv, AtWork, StepsOn
<1> QED BY <1>1, <1>2

LEMMA JobInvStep ==
  ASSUME SafeInv, [Next]_vars
  PROVE  JobInv'
<1> USE DEF SafeInv
<1>0. StepsOn
  BY DictsStep
<1>1. ASSUME NEW w \in Workers, NEW u \in Users, LoginStart(w, u) PROVE JobInv'
  BY <1>0, <1>1, StartMoves, JobInvKept DEF Resting
<1>2. ASSUME NEW w \in Workers, NEW u \in Users, Text(w, u) PROVE JobInv'
  <2>1. login_states[u] # 0 /\ login_states[u] \in 1 .. Len(states)
    BY <1>2, TextDicts DEF Text, Present
  <2>2. Moves(w) /\ job'[w].state = login_states[u] /\ pc'[w] \notin Resting
    BY <1>2, TextMoves DEF Resting
  <2>3. pc'[w] \in {"sign_in", "check_password"} => states[login_states[u]].step # "PHONE"
    BY <1>2, TextMoves DEF Current
  <2>4. pc'[w] \in {"sign_in", "check_password"} => states'[job'[w].state].step # "PHONE"
    BY <1>0, <2>1, <2>2, <2>3 DEF StepsOn
  <2> QED BY <1>0, <2>1, <2>2, <2>4, JobInvKept
<1>3. ASSUME NEW w \in Workers, NEW u \in Users, NEW loc \in {"cancel", "logout"}, EndLogin(w, u, loc)
      PROVE  JobInv'
  BY <1>0, <1>3, EndMoves, JobInvKept DEF Resting, Present
<1>4. ASSUME NEW w \in Workers, NEW l \in Locations \ {"idle", "reply", "sign_in", "check_password"},
             AtWork(w), Goto(w, l), UNCHANGED job
      PROVE  JobInv'
  <2>1. Moves(w) /\ pc'[w] = l /\ job'[w] = job[w]
    BY <1>4, GotoMoves
  <2>2. job'[w].state # 0
    BY <1>4, <2>1 DEF JobInv
  <2> QED BY <1>0, <1>4, <2>1, <2>2, JobInvKept DEF Resting
<1>5. ASSUME NEW w \in Workers, Quit(w) PROVE JobInv'
  BY <1>0, <1>5, QuitMoves, JobInvKept DEF Resting
<1>6. ASSUME NEW w \in Workers, Connect(w) PROVE JobInv'
  BY <1>4, <1>6 DEF Connect, AtWork, Resting, Locations
<1>7. ASSUME NEW w \in Workers, SendCode(w) PROVE JobInv'
  BY <1>4, <1>7 DEF SendCode, AtWork, Resting, Locations
<1>8. ASSUME NEW w \in Workers, Accepted(w) PROVE JobInv'
  BY <1>4, <1>8 DEF Accepted, AtWork, Resting, Locations
<1>9. ASSUME NEW w \in Workers, NotAccepted(w) PROVE JobInv'
  BY <1>4, <1>9 DEF NotAccepted, AtWork, Resting, Locations
<1>10. ASSUME NEW w \in Workers, ReplyFails(w) PROVE JobInv'
  BY <1>4, <1>5, <1>10 DEF ReplyFails, AtWork, Resting, Locations
<1>11. ASSUME NEW w \in Workers, Sorry(w) PROVE JobInv'
  BY <1>4, <1>11 DEF Sorry, AtWork, Resting, Locations
<1>12. ASSUME NEW w \in Workers, Close(w) PROVE JobInv'
  BY <1>4, <1>5, <1>12 DEF Close, AtWork, Resting, Locations
<1>13. ASSUME NEW w \in Workers, Error(w) PROVE JobInv'
  <2>1. job[w].state # 0
    BY <1>13 DEF Error, JobInv, AtWork, Resting
  <2> QED BY <1>0, <1>5, <1>13, <2>1, ErrorMoves, JobInvKept DEF Resting
<1>14. ASSUME NEW w \in Workers, LoginEnded(w) PROVE JobInv'
  <2>1. job[w].user \in Users
    BY DEF Types, Job
  <2> QED BY <1>0, <1>5, <1>14, <2>1, FinishMoves, JobInvKept DEF LoginEnded, Resting
<1>15. CASE UNCHANGED <<pc, job>>
  <2> SUFFICES ASSUME NEW v \in Workers
               PROVE  pc[v] \in {"sign_in", "check_password"} => states'[job[v].state].step # "PHONE"
    BY <1>15 DEF JobInv, AtWork
  <2>1. pc[v] \in {"sign_in", "check_password"} => job[v].state \in 1 .. Len(states)
    BY WorkedOn DEF AtWork, Resting
  <2> QED BY <1>0, <2>1 DEF JobInv, StepsOn
<1> QED
  BY <1>1, <1>2, <1>3, <1>5, <1>6, <1>7, <1>8, <1>9, <1>10, <1>11, <1>12, <1>13, <1>14, <1>15
  DEF Next, Updates, Continue, Cleaner, Told, Undo, Scan, Expire, Expired, Timeout, vars
-----------------------------------------------------------------------------
(***************************************************************************)
(* Dicts and clients stay with one user.                                   *)
(***************************************************************************)
\* Nobody gets a dict or a client of somebody else.
Fewer == \A u \in Users : login_states'[u] \in {0, login_states[u]}
SameClients ==
    /\ Len(states') = Len(states)
    /\ \A i \in 1 .. Len(states) : states'[i].client = states[i].client
OwnJob(w) ==
    /\ Of(job'[w].client, job'[w].user)
    /\ job'[w].state = 0 \/ Holds(job'[w].user, job'[w].state)

LEMMA DeleteFewer ==
  ASSUME Types, NEW u \in Users, Delete(u)
  PROVE  /\ Fewer /\ login_states'[u] = 0
         /\ \A v \in Users \ {u} : login_states'[v] = login_states[v]
  BY DEF Types, Delete, Fewer

LEMMA OwnerKept ==
  ASSUME Types, OwnerInv, Types', SameClients, Fewer, Of(cleaner'.client, cleaner'.user),
         \A w \in Workers : OwnJob(w)
  PROVE  OwnerInv'
<1>1. ASSUME NEW u \in Users, NEW s \in 1 .. Len(states),
             \/ login_states'[u] = s
             \/ \E w \in Workers : job'[w].user = u /\ job'[w].state = s
      PROVE  Holds(u, s)
  <2>1. s # 0
    BY LenProperties DEF Types
  <2>2. CASE login_states'[u] = s
    BY <2>1, <2>2 DEF Fewer, Holds
  <2>3. ASSUME NEW w \in Workers, job'[w].user = u, job'[w].state = s PROVE Holds(u, s)
    BY <2>1, <2>3 DEF OwnJob
  <2> QED BY <1>1, <2>2, <2>3
<1>2. \A w \in Workers : Of(job'[w].client, job'[w].user)
  BY DEF OwnJob
<1>3. ASSUME NEW s \in 1 .. Len(states'), NEW u \in Users, Holds(u, s)'
      PROVE  Of(states'[s].client, u) /\ \A v \in Users : Holds(v, s)' => u = v
  <2>1. s \in 1 .. Len(states) /\ states'[s].client = states[s].client
    BY DEF SameClients
  <2>2. Holds(u, s)
    BY <1>1, <1>3, <2>1 DEF Holds
  <2>3. \A v \in Users : Holds(v, s)' => Holds(v, s)
    BY <1>1, <2>1 DEF Holds
  <2> QED BY <2>1, <2>2, <2>3 DEF OwnerInv
<1> QED BY <1>2, <1>3 DEF OwnerInv, Of

LEMMA Untouched ==
  ASSUME OwnerInv, Types, NEW w \in Workers, job'[w] = job[w]
  PROVE  OwnJob(w)
  BY DEF OwnerInv, OwnJob, Holds

LEMMA OthersOwn ==
  ASSUME OwnerInv, Types, NEW w \in Workers, Moves(w), OwnJob(w)
  PROVE  \A v \in Workers : OwnJob(v)
  BY Untouched DEF Moves

\* The client of a dict somebody has at hand is theirs.
LEMMA OwnClient ==
  ASSUME Types, JobInv, OwnerInv, NEW w \in Workers, AtWork(w)
  PROVE  Of(states[job[w].state].client, job[w].user)
<1>1. job[w].state \in 1 .. Len(states) /\ job[w].user \in Users
  BY WorkedOn DEF Types, Job
<1>2. Holds(job[w].user, job[w].state)
  BY DEF Holds
<1> QED BY <1>1, <1>2 DEF OwnerInv

LEMMA OwnCurrent ==
  ASSUME Types, OwnerInv, NEW u \in Users, Present(u)
  PROVE  Of(Current(u).client, u)
<1>1. login_states[u] \in 1 .. Len(states) /\ Holds(u, login_states[u])
  BY DictType DEF Holds
<1> QED BY <1>1 DEF OwnerInv, Current

\* A new dict is nobody's yet.
LEMMA StartOwner ==
  ASSUME SafeInv, Types', NEW w \in Workers, NEW u \in Users, LoginStart(w, u)
  PROVE  OwnerInv'
<1> USE DEF SafeInv
<1>1. Moves(w) /\ job'[w].client = NoClient /\ job'[w].state = 0 /\ cleaner' = cleaner
  BY StartMoves DEF LoginStart
<1>2. \A v \in Workers : OwnJob(v)
  BY <1>1, OthersOwn DEF OwnJob, Of
<1>3. CASE session[u] # NoClient
  <2>1. SameClients /\ Fewer
    BY <1>3 DEF LoginStart, SameClients, Fewer
  <2> QED BY <1>1, <1>2, <2>1, OwnerKept DEF OwnerInv
<1>4. CASE session[u] = NoClient
  <2>0. PICK n \in Nat : n = Len(states) + 1
    BY <1>4, NewDict
  <2>1. /\ Len(states') = n /\ Len(states) \in Nat /\ states'[n].client = NoClient
        /\ \A i \in 1 .. Len(states) : states'[i] = states[i]
    BY <1>4, <2>0, NewDict
  <2>2. login_states' = [login_states EXCEPT ![u] = n]
    BY <1>4, <2>0 DEF LoginStart
  <2>3. \A v \in Workers : Of(job'[v].client, job'[v].user)
    BY <1>2 DEF OwnJob
  <2>4. \A v \in Users : Holds(v, n)' => v = u
    <3>1. \A v \in Users : login_states[v] # n
      BY <2>0, <2>1 DEF Types
    <3>2. \A v \in Workers : job'[v].state # n
      <4>1. \A v \in Workers : job[v].state # n /\ n # 0
        BY <2>0, <2>1 DEF Types
      <4> QED BY <1>1, <4>1 DEF Moves
    <3> QED BY <2>2, <3>1, <3>2 DEF Holds, Types
  <2>5. \A s \in 1 .. Len(states), v \in Users : Holds(v, s)' => Holds(v, s)
    <3> SUFFICES ASSUME NEW s \in 1 .. Len(states), NEW v \in Users, Holds(v, s)'
                 PROVE  Holds(v, s)
      OBVIOUS
    <3>1. s # n /\ s # 0
      BY <2>0, <2>1
    <3>2. CASE login_states'[v] = s
      BY <2>2, <3>1, <3>2 DEF Holds, Types
    <3>3. ASSUME NEW x \in Workers, job'[x].user = v, job'[x].state = s PROVE Holds(v, s)
      BY <1>2, <3>1, <3>3 DEF OwnJob
    <3> QED BY <3>2, <3>3 DEF Holds
  <2>6. ASSUME NEW s \in 1 .. Len(states'), NEW v \in Users, Holds(v, s)'
        PROVE  Of(states'[s].client, v) /\ \A x \in Users : Holds(x, s)' => v = x
    <3>1. CASE s = n
      BY <2>1, <2>4, <2>6, <3>1 DEF Of
    <3>2. CASE s # n
      <4>1. s \in 1 .. Len(states)
        BY <2>0, <2>1, <3>2
      <4> QED BY <2>1, <2>5, <2>6, <4>1 DEF OwnerInv
    <3> QED BY <3>1, <3>2
  <2>7. Of(cleaner'.client, cleaner'.user)
    BY <1>1 DEF OwnerInv
  <2> QED BY <2>3, <2>6, <2>7 DEF OwnerInv, Of
<1> QED BY <1>3, <1>4
\* The dict of the handler gets the client it has at hand.
LEMMA CodeOwner ==
  ASSUME SafeInv, NEW w \in Workers, SendCode(w), pc'[w] = "told"
  PROVE  OwnerInv'
<1> USE DEF SafeInv
<1>1. \A v \in Workers : job'[v] = job[v]
  BY DEF SendCode
<1>2. ASSUME NEW s \in 1 .. Len(states'), NEW u \in Users, Holds(u, s)'
      PROVE  Of(states'[s].client, u) /\ \A v \in Users : Holds(v, s)' => u = v
  <2>1. s \in 1 .. Len(states)
    BY CodeDict
  <2>2. \A v \in Users : Holds(v, s)' => Holds(v, s)
    BY <1>1 DEF Holds, SendCode
  <2>3. CASE s = job[w].state
    <3>1. Holds(job[w].user, s) /\ job[w].user \in Users
      BY <2>3 DEF Holds, Types, Job
    <3>2. u = job[w].user
      BY <1>2, <2>1, <2>2, <3>1 DEF OwnerInv
    <3>3. states'[s].client = job[w].client
      BY <2>3, CodeDict
    <3> QED BY <1>2, <2>1, <2>2, <3>2, <3>3 DEF OwnerInv
  <2>4. CASE s # job[w].state
    <3>1. states'[s] = states[s]
      BY <2>1, <2>4, CodeDict
    <3> QED BY <1>2, <2>1, <2>2, <3>1 DEF OwnerInv
  <2> QED BY <2>3, <2>4
<1>3. \A v \in Workers : Of(job'[v].client, job'[v].user)
  BY <1>1 DEF OwnerInv
<1>4. Of(cleaner'.client, cleaner'.user)
  BY DEF OwnerInv, SendCode
<1> QED BY <1>2, <1>3, <1>4 DEF OwnerInv, Of

LEMMA DictsSame == SameDicts => SameClients
  BY DEF SameDicts, SameClients

LEMMA OwnerStep ==
  ASSUME SafeInv, [Next]_vars, Types'
  PROVE  OwnerInv'
<1> USE DEF SafeInv
<1>1. ASSUME NEW w \in Workers, Moves(w), OwnJob(w), SameClients, Fewer, UNCHANGED cleaner
      PROVE  OwnerInv'
  <2>1. Of(cleaner'.client, cleaner'.user)
    BY <1>1 DEF OwnerInv
  <2> QED BY <1>1, <2>1, OthersOwn, OwnerKept
<1>2. ASSUME NEW w \in Workers, job'[w].client = NoClient, job'[w].state = 0
      PROVE  OwnJob(w)
  BY <1>2 DEF OwnJob, Of
<1>3. UNCHANGED states => SameClients
  BY SameIfUnchanged, DictsSame
<1>4. UNCHANGED login_states => Fewer
  BY DEF Fewer
<1>5. \A w \in Workers : job[w].user \in Users
  BY DEF Types, Job
<1>6. ASSUME NEW w \in Workers, NEW u \in Users, LoginStart(w, u) PROVE OwnerInv'
  BY <1>6, StartOwner
<1>7. ASSUME NEW w \in Workers, NEW u \in Users, Text(w, u) PROVE OwnerInv'
  <2>1. Present(u) /\ login_states' = login_states /\ cleaner' = cleaner
    BY <1>7 DEF Text
  <2>2. Of(Current(u).client, u) /\ Holds(u, login_states[u])
    BY <2>1, OwnCurrent DEF Holds
  <2>3. OwnJob(w)
    <3>1. job'[w].user = u /\ job'[w].state = login_states[u]
      BY <1>7, TextMoves
    <3>2. Of(job'[w].client, u)
      <4>1. CASE job'[w].client = [user |-> u, no |-> handled]
        BY <4>1 DEF Of
      <4>2. CASE job'[w].client = Current(u).client
        BY <2>2, <4>2
      <4> QED BY <1>7, <4>1, <4>2, TextMoves
    <3> QED BY <2>2, <3>1, <3>2 DEF OwnJob
  <2> QED BY <1>1, <1>4, <1>7, <2>1, <2>3, TextMoves, TextDicts, DictsSame
<1>8. ASSUME NEW w \in Workers, NEW u \in Users, NEW loc \in {"cancel", "logout"}, EndLogin(w, u, loc)
      PROVE  OwnerInv'
  <2>1. Fewer
    BY <1>4, <1>8, EndMoves, DeleteFewer
  <2>2. OwnJob(w)
    <3>1. CASE job'[w].client = NoClient /\ job'[w].state = 0
      BY <1>2, <3>1
    <3>2. CASE Present(u) /\ job'[w].user = u /\ job'[w].state = login_states[u]
               /\ job'[w].client = Current(u).client
      <4>1. Of(Current(u).client, u) /\ Holds(u, login_states[u])
        BY <3>2, OwnCurrent DEF Holds
      <4> QED BY <3>2, <4>1 DEF OwnJob
    <3> QED BY <1>8, <3>1, <3>2, EndMoves
  <2> QED BY <1>1, <1>3, <1>8, <2>1, <2>2, EndMoves DEF EndLogin
<1>9. ASSUME NEW w \in Workers, NEW l, Goto(w, l), UNCHANGED <<job, cleaner>>, SameClients, Fewer
      PROVE OwnerInv'
  BY <1>1, <1>9, GotoMoves, Untouched
<1>10. ASSUME NEW w \in Workers, Quit(w), UNCHANGED <<states, cleaner>>, Fewer PROVE OwnerInv'
  BY <1>1, <1>2, <1>3, <1>10, QuitMoves
<1>11. ASSUME NEW w \in Workers, SendCode(w) PROVE OwnerInv'
  BY <1>3, <1>4, <1>9, <1>11, CodeOwner, SendCodeDicts DEF SendCode
<1>12. ASSUME NEW w \in Workers, NotAccepted(w) PROVE OwnerInv'
  <2>1. SameClients
    BY <1>12, PasswordDict DEF SameClients
  <2> QED BY <1>4, <1>9, <1>12, <2>1 DEF NotAccepted
<1>13. ASSUME NEW w \in Workers, Connect(w) PROVE OwnerInv'
  BY <1>3, <1>4, <1>9, <1>13 DEF Connect
<1>14. ASSUME NEW w \in Workers, Accepted(w) PROVE OwnerInv'
  BY <1>3, <1>4, <1>9, <1>14 DEF Accepted
<1>15. ASSUME NEW w \in Workers, ReplyFails(w) PROVE OwnerInv'
  BY <1>3, <1>4, <1>9, <1>10, <1>15 DEF ReplyFails
<1>16. ASSUME NEW w \in Workers, Sorry(w) PROVE OwnerInv'
  BY <1>3, <1>4, <1>9, <1>16 DEF Sorry
<1>17. ASSUME NEW w \in Workers, Close(w) PROVE OwnerInv'
  BY <1>3, <1>4, <1>5, <1>9, <1>10, <1>17, DeleteFewer DEF Close
<1>18. ASSUME NEW w \in Workers, Error(w) PROVE OwnerInv'
  <2>1. CASE Quit(w)
    BY <1>4, <1>5, <1>10, <1>18, <2>1, DeleteFewer DEF Error
  <2>2. CASE /\ job'[w].state = job[w].state /\ job'[w].user = job[w].user
             /\ job'[w].client = states[job[w].state].client
             /\ UNCHANGED login_states
    <3>1. OwnJob(w)
      BY <1>18, <2>2, OwnClient DEF OwnJob, Error, AtWork, Resting, Holds
    <3> QED BY <1>1, <1>3, <1>4, <1>18, <2>2, <3>1, ErrorMoves DEF Error
  <2> QED BY <1>18, <2>1, <2>2, ErrorMoves
<1>19. ASSUME NEW w \in Workers, LoginEnded(w) PROVE OwnerInv'
  <2>1. Fewer
    BY <1>5, <1>19, DeleteFewer DEF LoginEnded
  <2>2. OwnJob(w) /\ Moves(w)
    BY <1>2, <1>5, <1>19, FinishMoves, QuitMoves DEF LoginEnded
  <2> QED BY <1>1, <1>3, <1>19, <2>1, <2>2 DEF LoginEnded
<1>20. ASSUME NEW w \in Workers, Told(w) \/ Undo(w) PROVE OwnerInv'
  BY <1>4, <1>5, <1>10, <1>20, DeleteFewer DEF Told, Undo
<1>21. ASSUME UNCHANGED job, SameClients, Fewer, Of(cleaner'.client, cleaner'.user)
       PROVE  OwnerInv'
  BY <1>21, Untouched, OwnerKept
<1>22. CASE Scan
  BY <1>3, <1>4, <1>21, <1>22 DEF Scan, Rest, Of
<1>23. ASSUME NEW u \in Users, Expire(u) PROVE OwnerInv'
  <2>1. Fewer
    BY <1>4, <1>23, DeleteFewer DEF Expire
  <2>2. Of(cleaner'.client, cleaner'.user)
    <3>1. CASE Present(u) /\ Current(u).client \in connected
      <4>1. cleaner' = [cleaner EXCEPT !.client = Current(u).client, !.user = u]
        BY <1>23, <3>1 DEF Expire, Current
      <4>2. cleaner'.client = Current(u).client /\ cleaner'.user = u
        BY <4>1 DEF Types, Row
      <4> QED BY <3>1, <4>2, OwnCurrent
    <3>2. CASE ~(Present(u) /\ Current(u).client \in connected)
      BY <1>23, <3>2 DEF Expire, Current, OwnerInv, Of, Rest, Types, Row
    <3> QED BY <3>1, <3>2
  <2> QED BY <1>3, <1>21, <1>23, <2>1, <2>2 DEF Expire
<1>24. CASE Expired
  <2>1. Of(cleaner'.client, cleaner'.user)
    BY <1>24 DEF Expired, Rest, Of
  <2>2. cleaner.user \in Users
    BY DEF Types, Row
  <2> QED BY <1>3, <1>21, <1>24, <2>1, <2>2, DeleteFewer DEF Expired
<1>25. ASSUME NEW u \in Users, Timeout(u) PROVE OwnerInv'
  <2>1. Of(cleaner'.client, cleaner'.user)
    BY <1>25 DEF Timeout, OwnerInv
  <2> QED BY <1>4, <1>21, <1>25, <2>1, TimeoutDicts, DictsSame DEF Timeout
<1>26. CASE UNCHANGED vars
  <2>1. Of(cleaner'.client, cleaner'.user)
    BY <1>26 DEF vars, OwnerInv
  <2> QED BY <1>3, <1>4, <1>21, <1>26, <2>1 DEF vars
<1> QED
  BY <1>6, <1>7, <1>8, <1>11, <1>12, <1>13, <1>14, <1>15, <1>16, <1>17, <1>18, <1>19, <1>20,
     <1>22, <1>23, <1>24, <1>25, <1>26
  DEF Next, Updates, Continue, Cleaner
-----------------------------------------------------------------------------
(***************************************************************************)
(* The client of a handler that is still connecting is new to all others.  *)
(***************************************************************************)
\* What the cleaner and the dicts know, and with them one handler.
Familiar(c) ==
    \/ c \in {NoClient, cleaner.client}
    \/ \E s \in 1 .. Len(states) : states[s].client = c
Known(w, c) == Familiar(c) \/ c = job[w].client

LEMMA NewIsNotKnown ==
  ASSUME NewInv, NEW v \in Workers, New(v)
  PROVE  /\ ~Familiar(job[v].client)
         /\ \A w \in Workers \ {v} : ~Known(w, job[v].client)
  BY DEF NewInv, Familiar, Known

LEMMA KnownIsIssued ==
  ASSUME IssuedInv
  PROVE  /\ \A c : Familiar(c) => Issued(c)
         /\ \A w \in Workers : \A c : Known(w, c) => Issued(c)
  BY DEF IssuedInv, Familiar, Known, Issued

\* Numbers only grow.
LEMMA IssuedKept ==
  ASSUME Types, Types', handled' >= handled,
         \A c \in connected' : Issued(c),
         \A s \in 1 .. Len(states') : Issued(states'[s].client),
         Issued(cleaner'.client),
         \A w \in Workers : Issued(job'[w].client)
  PROVE  IssuedInv'
<1>1. ASSUME NEW c \in Clients \cup {NoClient}, Issued(c)
      PROVE  c = NoClient \/ c.no < handled'
  <2> SUFFICES ASSUME c # NoClient PROVE c.no < handled'
    OBVIOUS
  <2>1. c.no \in Nat
    BY DEF Clients
  <2>2. handled \in Nat /\ handled' \in Nat
    BY UpdatesAssumption DEF Types
  <2> QED BY <1>1, <2>1, <2>2 DEF Issued
<1>2. \A c \in connected' : c \in Clients
  BY DEF Types
<1>3. \A s \in 1 .. Len(states') : states'[s].client \in Clients \cup {NoClient}
  <2>1. \A s \in 1 .. Len(states') : states'[s] \in State
    BY ElementOfSeq DEF Types
  <2> QED BY <2>1 DEF State
<1>4. cleaner'.client \in Clients \cup {NoClient}
  BY DEF Types, Row
<1>5. \A w \in Workers : job'[w].client \in Clients \cup {NoClient}
  BY DEF Types, Job
<1> QED BY <1>1, <1>2, <1>3, <1>4, <1>5 DEF IssuedInv, Issued

\* A step of one handler that makes no client new.
LEMMA NewKept ==
  ASSUME NewInv, NEW w \in Workers, Moves(w), pc'[w] \notin {"connect", "send_code"},
         Known(w, cleaner'.client),
         \A s \in 1 .. Len(states') : Known(w, states'[s].client),
         Known(w, job'[w].client),
         \A c : Known(w, c) \/ (c \in connected <=> c \in connected')
  PROVE  NewInv'
<1> SUFFICES ASSUME NEW v \in Workers, pc'[v] \in {"connect", "send_code"}
             PROVE  /\ job'[v].client # NoClient
                    /\ job'[v].client # cleaner'.client
                    /\ \A s \in 1 .. Len(states') : states'[s].client # job'[v].client
                    /\ \A x \in Workers \ {v} : job'[x].client # job'[v].client
                    /\ pc'[v] = "send_code" <=> job'[v].client \in connected'
  BY DEF NewInv, New
<1>1. v # w /\ pc'[v] = pc[v] /\ job'[v] = job[v] /\ New(v)
  BY DEF Moves, New
<1>2. ~Known(w, job[v].client)
  BY <1>1, NewIsNotKnown
<1>3. \A x \in Workers \ {v} : job'[x].client # job[v].client
  <2> SUFFICES ASSUME NEW x \in Workers \ {v} PROVE job'[x].client # job[v].client
    OBVIOUS
  <2>1. CASE x = w
    BY <1>2, <2>1
  <2>2. CASE x # w
    BY <1>1, <2>2 DEF Moves, NewInv
  <2> QED BY <2>1, <2>2
<1>4. pc[v] = "send_code" <=> job[v].client \in connected
  BY <1>1 DEF NewInv
<1> QED BY <1>1, <1>2, <1>3, <1>4 DEF Known, Familiar

\* A step of the cleaner.
LEMMA NewKeptByCleaner ==
  ASSUME NewInv, UNCHANGED <<pc, job>>,
         Familiar(cleaner'.client),
         \A s \in 1 .. Len(states') : Familiar(states'[s].client),
         \A c : Familiar(c) \/ (c \in connected <=> c \in connected')
  PROVE  NewInv'
<1> SUFFICES ASSUME NEW v \in Workers, New(v)
             PROVE  /\ job[v].client # NoClient
                    /\ job[v].client # cleaner'.client
                    /\ \A s \in 1 .. Len(states') : states'[s].client # job[v].client
                    /\ \A x \in Workers \ {v} : job[x].client # job[v].client
                    /\ pc[v] = "send_code" <=> job[v].client \in connected'
  BY DEF NewInv, New
<1>1. ~Familiar(job[v].client)
  BY NewIsNotKnown
<1> QED BY <1>1 DEF NewInv, Familiar
LEMMA DictsFamiliar ==
  ASSUME SameClients
  PROVE  \A s \in 1 .. Len(states') : Familiar(states'[s].client)
  BY DEF SameClients, Familiar

\* Issued numbers and new clients together, for the steps that make no client new.
LEMMA KnownKept ==
  ASSUME Types, Types', IssuedInv, NewInv, NEW w \in Workers, Moves(w),
         pc'[w] \notin {"connect", "send_code"}, UNCHANGED cleaner,
         handled' >= handled,
         \A s \in 1 .. Len(states') : Known(w, states'[s].client),
         Known(w, job'[w].client),
         connected' \subseteq connected,
         \A c : Known(w, c) \/ (c \in connected <=> c \in connected')
  PROVE  IssuedInv' /\ NewInv'
<1>1. Known(w, cleaner'.client)
  BY DEF Known, Familiar
<1>2. NewInv'
  BY <1>1, NewKept
<1>3. \A c \in connected' : Issued(c)
  BY DEF IssuedInv
<1>4. \A s \in 1 .. Len(states') : Issued(states'[s].client)
  BY KnownIsIssued
<1>5. Issued(cleaner'.client)
  BY DEF IssuedInv
<1>6. \A v \in Workers : Issued(job'[v].client)
  BY KnownIsIssued DEF Moves, IssuedInv
<1> QED BY <1>2, <1>3, <1>4, <1>5, <1>6, IssuedKept

\* The phone number came: the client is made for this update.
LEMMA TextIssues ==
  ASSUME SafeInv, Types', NEW w \in Workers, NEW u \in Users, Text(w, u)
  PROVE  IssuedInv' /\ NewInv'
<1> USE DEF SafeInv
<1>1. /\ handled \in Nat /\ handled' = handled + 1
      /\ cleaner' = cleaner /\ connected' = connected /\ Moves(w)
  <2>1. handled \in Nat
    BY UpdatesAssumption DEF Types
  <2> QED BY <2>1, TextMoves DEF Text, Take
<1>2. SameClients
  BY TextDicts, DictsSame
<1>3. \A s \in 1 .. Len(states') : Familiar(states'[s].client)
  BY <1>2, DictsFamiliar
<1>4. CASE pc'[w] \in {"sign_in", "check_password"}
  <2>1. job'[w].client = Current(u).client
    BY <1>4, TextMoves
  <2>2. Familiar(job'[w].client)
    BY <2>1, TextDicts DEF Familiar, Current
  <2> QED BY <1>1, <1>3, <1>4, <2>2, KnownKept DEF Known
<1>5. CASE pc'[w] = "connect"
  <2> DEFINE c == job'[w].client
  <2>1. c = [user |-> u, no |-> handled] /\ c \in Clients
    <3>1. c = [user |-> u, no |-> handled]
      BY <1>5, TextMoves
    <3> QED BY <1>1, <3>1 DEF Clients
  <2>2. c # NoClient /\ ~(c.no < handled)
    BY <1>1, <2>1, NoClientAssumption
  <2>3. ~Issued(c)
    BY <2>2 DEF Issued
  <2>4. c.no = handled
    BY <2>1
  <2> HIDE DEF c
  <2>5. /\ c \notin connected /\ c # cleaner.client
        /\ \A s \in 1 .. Len(states) : states[s].client # c
        /\ \A v \in Workers : job[v].client # c
    BY <2>3 DEF IssuedInv
  <2>6. \A v \in Workers \ {w} : job'[v] = job[v] /\ pc'[v] = pc[v]
    BY <1>1 DEF Moves
  <2>7. NewInv'
    <3> SUFFICES ASSUME NEW v \in Workers, pc'[v] \in {"connect", "send_code"}
                 PROVE  /\ job'[v].client # NoClient
                        /\ job'[v].client # cleaner'.client
                        /\ \A s \in 1 .. Len(states') : states'[s].client # job'[v].client
                        /\ \A x \in Workers \ {v} : job'[x].client # job'[v].client
                        /\ pc'[v] = "send_code" <=> job'[v].client \in connected'
      BY DEF NewInv, New
    <3>1. CASE v = w
      BY <1>1, <1>2, <1>5, <2>2, <2>5, <2>6, <3>1 DEF c, SameClients
    <3>2. CASE v # w
      <4>1. New(v) /\ job'[v] = job[v] /\ pc'[v] = pc[v]
        BY <2>6, <3>2 DEF New
      <4>2. \A x \in Workers \ {v} : job'[x].client # job[v].client
        BY <2>5, <2>6, <3>2, <4>1 DEF c, NewInv
      <4> QED BY <1>1, <1>2, <4>1, <4>2 DEF NewInv, SameClients
    <3> QED BY <3>1, <3>2
  <2>8. IssuedInv'
    <3> DEFINE IssuedNext(d) == d = NoClient \/ d.no < handled'
    <3>1. \A d \in Clients \cup {NoClient} : Issued(d) \/ d = c => IssuedNext(d)
      <4> SUFFICES ASSUME NEW d \in Clients \cup {NoClient}, Issued(d) \/ d = c, d # NoClient
                   PROVE  d.no < handled'
        OBVIOUS
      <4>1. CASE d = c
        BY <1>1, <2>4, <4>1
      <4>2. CASE d # c
        <5>1. d.no \in Nat /\ d.no < handled
          BY <4>2 DEF Issued, Clients
        <5> QED BY <1>1, <5>1
      <4> QED BY <4>1, <4>2
    <3> HIDE DEF IssuedNext
    <3>2. \A s \in 1 .. Len(states') : IssuedNext(states'[s].client)
      <4>1. \A s \in 1 .. Len(states) : states[s].client \in Clients \cup {NoClient}
        BY DictType DEF State
      <4>2. \A s \in 1 .. Len(states) : IssuedNext(states[s].client)
        BY <3>1, <4>1 DEF IssuedInv
      <4> QED BY <1>2, <4>2 DEF SameClients
    <3>3. \A x \in connected' : IssuedNext(x)
      BY <1>1, <3>1 DEF IssuedInv, Types
    <3>4. IssuedNext(cleaner'.client)
      BY <1>1, <3>1 DEF IssuedInv, Types, Row
    <3>5. \A v \in Workers : IssuedNext(job'[v].client)
      <4>1. IssuedNext(job'[w].client)
        BY <2>1, <3>1 DEF c
      <4>2. \A v \in Workers : IssuedNext(job[v].client)
        BY <3>1 DEF IssuedInv, Types, Job
      <4> QED BY <2>6, <4>1, <4>2
    <3> QED BY <3>2, <3>3, <3>4, <3>5 DEF IssuedInv, Issued, IssuedNext
  <2> QED BY <2>7, <2>8
<1> QED BY <1>4, <1>5, TextMoves
LEMMA NewStep ==
  ASSUME SafeInv, [Next]_vars, Types'
  PROVE  IssuedInv' /\ NewInv'
<1> USE DEF SafeInv
<1>0. /\ handled \in Nat /\ handled' \in Nat
      /\ \A w \in Workers : job[w].user \in Users
  BY UpdatesAssumption DEF Types, Job
<1>1. UNCHANGED states => \A s \in 1 .. Len(states') : Familiar(states'[s].client)
  BY SameIfUnchanged, DictsSame, DictsFamiliar
<1>2. ASSUME NEW w \in Workers, Moves(w), pc'[w] \notin {"connect", "send_code"},
             UNCHANGED cleaner, handled' >= handled,
             UNCHANGED states, Known(w, job'[w].client),
             connected' \in {connected, connected \ {job[w].client}}
      PROVE  IssuedInv' /\ NewInv'
  <2>1. /\ connected' \subseteq connected
        /\ \A c : Known(w, c) \/ (c \in connected <=> c \in connected')
    BY <1>2 DEF Known
  <2>2. \A s \in 1 .. Len(states') : Known(w, states'[s].client)
    BY <1>1, <1>2 DEF Known
  <2> QED BY <1>2, <2>1, <2>2, KnownKept
<1>3. ASSUME NEW w \in Workers, NEW l \in Locations \ {"connect", "send_code"}, Goto(w, l),
             UNCHANGED <<cleaner, handled, states, job>>,
             connected' \in {connected, connected \ {job[w].client}}
      PROVE  IssuedInv' /\ NewInv'
  BY <1>0, <1>2, <1>3, GotoMoves DEF Known
<1>4. ASSUME NEW w \in Workers, Quit(w), UNCHANGED <<cleaner, handled, states>>,
             connected' \in {connected, connected \ {job[w].client}}
      PROVE  IssuedInv' /\ NewInv'
  BY <1>0, <1>2, <1>4, QuitMoves DEF Known, Familiar
<1>5. ASSUME NEW w \in Workers, NEW u \in Users, LoginStart(w, u) PROVE IssuedInv' /\ NewInv'
  <2>1. \A s \in 1 .. Len(states') : Familiar(states'[s].client)
    <3>1. CASE session[u] = NoClient
      <4>1. \A s \in 1 .. Len(states') : s \in 1 .. Len(states) \/ s = Len(states) + 1
        BY <1>5, <3>1, NewDict
      <4> QED BY <1>5, <3>1, <4>1, NewDict DEF Familiar
    <3>2. CASE session[u] # NoClient
      BY <1>1, <1>5, <3>2 DEF LoginStart
    <3> QED BY <3>1, <3>2
  <2>2. /\ cleaner' = cleaner /\ connected' = connected /\ handled' >= handled
    BY <1>0, <1>5 DEF LoginStart
  <2> QED BY <1>5, <2>1, <2>2, StartMoves, KnownKept DEF Known, Familiar
<1>6. ASSUME NEW w \in Workers, NEW u \in Users, Text(w, u) PROVE IssuedInv' /\ NewInv'
  BY <1>6, TextIssues
<1>7. ASSUME NEW w \in Workers, NEW u \in Users, NEW loc \in {"cancel", "logout"}, EndLogin(w, u, loc)
      PROVE  IssuedInv' /\ NewInv'
  <2>1. /\ cleaner' = cleaner /\ connected' = connected /\ handled' >= handled
        /\ states' = states
    BY <1>0, <1>7 DEF EndLogin, Take
  <2>2. Known(w, job'[w].client)
    BY <1>7, EndMoves, DictType DEF Known, Familiar, Current
  <2> QED BY <1>2, <1>7, <2>1, <2>2, EndMoves
<1>8. ASSUME NEW w \in Workers, Connect(w) PROVE IssuedInv' /\ NewInv'
  <2>1. CASE pc'[w] = "error"
    BY <1>3, <1>8, <2>1 DEF Connect, Goto, Types, Locations
  <2>2. CASE pc'[w] # "error"
    <3>1. connected' = connected \cup {job[w].client} /\ Goto(w, "send_code")
      BY <1>8, <2>2 DEF Connect, Goto, Types
    <3>2. /\ UNCHANGED <<states, cleaner, job, handled>>
          /\ Moves(w) /\ pc'[w] = "send_code" /\ pc[w] = "connect"
      BY <1>8, <3>1, GotoMoves DEF Connect
    <3>3. IssuedInv'
      BY <3>1, <3>2 DEF IssuedInv, Issued
    <3>4. NewInv'
      <4> SUFFICES ASSUME NEW v \in Workers, pc'[v] \in {"connect", "send_code"}
                   PROVE  New(v) /\ (pc'[v] = "send_code" <=> job[v].client \in connected')
        BY <3>2 DEF NewInv, New
      <4>1. CASE v = w
        BY <3>1, <3>2, <4>1 DEF New
      <4>2. CASE v # w
        <5>1. pc'[v] = pc[v] /\ New(v)
          BY <3>2, <4>2 DEF Moves, New
        <5>2. job[v].client # job[w].client
          BY <4>2, <5>1 DEF NewInv
        <5> QED BY <3>1, <5>1, <5>2 DEF NewInv
      <4> QED BY <4>1, <4>2
    <3> QED BY <3>3, <3>4
  <2> QED BY <2>1, <2>2
<1>9. ASSUME NEW w \in Workers, SendCode(w) PROVE IssuedInv' /\ NewInv'
  <2>1. CASE UNCHANGED states
    <3>1. \E l \in {"told", "sorry"} : Goto(w, l)
      BY <1>9 DEF SendCode
    <3> QED BY <1>3, <1>9, <2>1, <3>1 DEF SendCode, Locations
  <2>2. CASE pc'[w] = "told"
    <3>1. \A s \in 1 .. Len(states') : Known(w, states'[s].client)
      BY <1>9, <2>2, CodeDict DEF Known, Familiar
    <3>2. Moves(w) /\ job'[w] = job[w]
      BY <1>9, GotoMoves DEF SendCode
    <3>3. UNCHANGED <<cleaner, connected>> /\ handled' >= handled
      BY <1>0, <1>9 DEF SendCode
    <3> QED BY <2>2, <3>1, <3>2, <3>3, KnownKept DEF Known
  <2> QED BY <1>9, <2>1, <2>2, SendCodeDicts
<1>10. ASSUME NEW w \in Workers, NotAccepted(w) PROVE IssuedInv' /\ NewInv'
  <2>1. \A s \in 1 .. Len(states') : Known(w, states'[s].client)
    BY <1>10, PasswordDict DEF Known, Familiar
  <2>2. \E l \in {"told", "sorry", "error"} : Goto(w, l)
    BY <1>10 DEF NotAccepted
  <2>3. Moves(w) /\ job'[w] = job[w] /\ pc'[w] \in {"told", "sorry", "error"}
    BY <1>10, <2>2, GotoMoves DEF NotAccepted
  <2>4. UNCHANGED <<cleaner, connected>> /\ handled' >= handled
    BY <1>0, <1>10 DEF NotAccepted
  <2> QED BY <2>1, <2>3, <2>4, KnownKept DEF Known
<1>11. ASSUME NEW w \in Workers, Accepted(w) \/ Sorry(w) PROVE IssuedInv' /\ NewInv'
  BY <1>3, <1>11 DEF Accepted, Sorry, Locations
<1>12. ASSUME NEW w \in Workers, ReplyFails(w) PROVE IssuedInv' /\ NewInv'
  BY <1>3, <1>4, <1>12 DEF ReplyFails, Locations
<1>13. ASSUME NEW w \in Workers, Told(w) \/ Undo(w) PROVE IssuedInv' /\ NewInv'
  BY <1>4, <1>13 DEF Told, Undo
<1>14. ASSUME NEW w \in Workers, Close(w) PROVE IssuedInv' /\ NewInv'
  BY <1>3, <1>4, <1>14 DEF Close, Locations
<1>15. ASSUME NEW w \in Workers, Error(w) PROVE IssuedInv' /\ NewInv'
  <2>1. CASE Quit(w)
    BY <1>4, <1>15, <2>1 DEF Error
  <2>2. CASE pc'[w] = "undo" /\ job'[w].client = states[job[w].state].client
    <3>1. Known(w, job'[w].client)
      BY <1>15, <2>2, WorkedOn DEF Known, Familiar, Error, AtWork, Resting
    <3>2. UNCHANGED <<cleaner, connected, states>> /\ handled' >= handled
      BY <1>0, <1>15 DEF Error
    <3> QED BY <1>2, <1>15, <2>2, <3>1, <3>2, ErrorMoves
  <2> QED BY <1>15, <2>1, <2>2, ErrorMoves
<1>16. ASSUME NEW w \in Workers, LoginEnded(w) PROVE IssuedInv' /\ NewInv'
  <2>1. /\ Moves(w) /\ pc'[w] \in {"idle", "reply"} /\ job'[w].client = NoClient
    BY <1>0, <1>16, FinishMoves, QuitMoves DEF LoginEnded
  <2>2. Known(w, job'[w].client)
    BY <2>1 DEF Known, Familiar
  <2>3. handled' >= handled /\ pc'[w] \notin {"connect", "send_code"}
    BY <1>0, <1>16, <2>1 DEF LoginEnded
  <2> QED BY <1>2, <1>16, <2>1, <2>2, <2>3 DEF LoginEnded
<1>17. ASSUME UNCHANGED <<pc, job, handled>>, SameClients, Familiar(cleaner'.client),
              connected' \in {connected, connected \ {cleaner.client}}
       PROVE  IssuedInv' /\ NewInv'
  <2>1. \A s \in 1 .. Len(states') : Familiar(states'[s].client)
    BY <1>17, DictsFamiliar
  <2>2. \A c : Familiar(c) \/ (c \in connected <=> c \in connected')
    BY <1>17 DEF Familiar
  <2>3. NewInv'
    BY <1>17, <2>1, <2>2, NewKeptByCleaner
  <2>4. IssuedInv'
    BY <1>0, <1>17, <2>1, KnownIsIssued DEF IssuedInv, Issued
  <2> QED BY <2>3, <2>4
<1>18. UNCHANGED states => SameClients
  BY SameIfUnchanged, DictsSame
<1>19. CASE Scan
  BY <1>17, <1>18, <1>19 DEF Scan, Rest, Familiar
<1>20. ASSUME NEW u \in Users, Expire(u) PROVE IssuedInv' /\ NewInv'
  <2>1. Familiar(cleaner'.client)
    <3>1. CASE Present(u) /\ Current(u).client \in connected
      <4>1. cleaner'.client = Current(u).client
        BY <1>20, <3>1 DEF Expire, Current, Types, Row
      <4> QED BY <3>1, <4>1, DictType DEF Familiar, Current
    <3>2. CASE ~(Present(u) /\ Current(u).client \in connected)
      BY <1>20, <3>2 DEF Expire, Current, Rest, Types, Row, Familiar
    <3> QED BY <3>1, <3>2
  <2> QED BY <1>17, <1>18, <1>20, <2>1 DEF Expire
<1>21. CASE Expired
  <2>1. Familiar(cleaner'.client)
    BY <1>21 DEF Expired, Rest, Familiar
  <2> QED BY <1>17, <1>18, <1>21, <2>1 DEF Expired
<1>22. ASSUME NEW u \in Users, Timeout(u) PROVE IssuedInv' /\ NewInv'
  <2>1. Familiar(cleaner'.client)
    BY <1>22 DEF Timeout, Familiar
  <2> QED BY <1>17, <1>22, <2>1, TimeoutDicts, DictsSame DEF Timeout
<1>23. CASE UNCHANGED vars
  BY <1>17, <1>18, <1>23 DEF vars, Familiar
<1> QED
  BY <1>5, <1>6, <1>7, <1>8, <1>9, <1>10, <1>11, <1>12, <1>13, <1>14, <1>15, <1>16,
     <1>19, <1>20, <1>21, <1>22, <1>23
  DEF Next, Updates, Continue, Cleaner

-----------------------------------------------------------------------------
(***************************************************************************)
(* A process that waits for a code or a password has a connected client.   *)
(***************************************************************************)
\* What is disconnected is the client of a user whose entry goes.
LEMMA UsableKept ==
  ASSUME Types, OwnerInv, UsableInv, SameDicts, Fewer, NEW c, NEW u \in Users, Of(c, u),
         connected \ {c} \subseteq connected',
         c \in connected' \/ login_states'[u] = 0
  PROVE  UsableInv'
<1> SUFFICES ASSUME NEW v \in Users, login_states'[v] # 0,
                    states'[login_states'[v]].step # "PHONE"
             PROVE  states'[login_states'[v]].client \in connected'
  BY DEF UsableInv, Present, Current
<1>1. login_states'[v] = login_states[v] /\ login_states[v] \in 1 .. Len(states) /\ Present(v)
  BY DictType DEF Fewer, Present
<1>2. Current(v).step # "PHONE" /\ states'[login_states'[v]].client = Current(v).client
  BY <1>1 DEF SameDicts, Current
<1>3. Current(v).client \in connected /\ Of(Current(v).client, v)
  BY <1>1, <1>2, OwnCurrent DEF UsableInv
<1>4. CASE Current(v).client # c
  BY <1>2, <1>3, <1>4
<1>5. CASE Current(v).client = c /\ c \notin connected'
  <2>1. c # NoClient
    BY <1>3, <1>5, NoClientAssumption DEF Types
  <2>2. v = u
    BY <1>3, <1>5, <2>1 DEF Of
  <2> QED BY <1>1, <1>5, <2>2 DEF Present
<1> QED BY <1>2, <1>4, <1>5
LEMMA UsableStep ==
  ASSUME SafeInv, [Next]_vars, Types'
  PROVE  UsableInv'
<1> USE DEF SafeInv
<1>0. \A w \in Workers : job[w].user \in Users /\ Of(job[w].client, job[w].user)
  BY DEF Types, Job, OwnerInv
<1>1. UNCHANGED states => SameDicts
  BY SameIfUnchanged
<1>2. UNCHANGED login_states => Fewer
  BY DEF Fewer
<1>3. ASSUME SameDicts, Fewer, connected \subseteq connected' PROVE UsableInv'
  <2>1. PICK u \in Users : TRUE
    BY UsersAssumption
  <2>2. Of(NoClient, u) /\ connected \ {NoClient} \subseteq connected'
    BY <1>3 DEF Of
  <2>3. \A v \in Users : Present(v) => Current(v).client = NoClient \/ Current(v).client # NoClient
    OBVIOUS
  <2> SUFFICES ASSUME NEW v \in Users, login_states'[v] # 0,
                      states'[login_states'[v]].step # "PHONE"
               PROVE  states'[login_states'[v]].client \in connected'
    BY DEF UsableInv, Present, Current
  <2>4. login_states'[v] = login_states[v] /\ login_states[v] \in 1 .. Len(states) /\ Present(v)
    BY <1>3, DictType DEF Fewer, Present
  <2> QED BY <1>3, <2>4 DEF SameDicts, UsableInv, Current
<1>4. ASSUME NEW w \in Workers, UNCHANGED states, Delete(job[w].user),
             connected' = connected \ {job[w].client}
      PROVE  UsableInv'
  BY <1>0, <1>1, <1>4, DeleteFewer, UsableKept
<1>5. ASSUME NEW w \in Workers, NEW u \in Users, LoginStart(w, u) PROVE UsableInv'
  <2>1. CASE session[u] # NoClient
    BY <1>1, <1>2, <1>3, <1>5, <2>1 DEF LoginStart
  <2>2. CASE session[u] = NoClient
    <3> SUFFICES ASSUME NEW v \in Users, login_states'[v] # 0,
                        states'[login_states'[v]].step # "PHONE"
                 PROVE  states'[login_states'[v]].client \in connected'
      BY DEF UsableInv, Present, Current
    <3>1. login_states' = [login_states EXCEPT ![u] = Len(states) + 1] /\ connected' = connected
      BY <1>5, <2>2 DEF LoginStart
    <3>2. v # u
      BY <1>5, <2>2, <3>1, NewDict DEF Types
    <3>3. login_states'[v] = login_states[v] /\ Present(v)
      BY <3>1, <3>2 DEF Types, Present
    <3>4. states'[login_states[v]] = states[login_states[v]]
      BY <1>5, <2>2, <3>3, NewDict, DictType
    <3> QED BY <3>1, <3>3, <3>4 DEF UsableInv, Current
  <2> QED BY <2>1, <2>2
<1>6. ASSUME NEW w \in Workers, NEW u \in Users, Text(w, u) PROVE UsableInv'
  BY <1>2, <1>3, <1>6, TextDicts DEF Text
<1>7. ASSUME NEW w \in Workers, NEW u \in Users, NEW loc \in {"cancel", "logout"}, EndLogin(w, u, loc)
      PROVE  UsableInv'
  <2>1. Fewer
    BY <1>2, <1>7, EndMoves, DeleteFewer
  <2> QED BY <1>1, <1>3, <1>7, <2>1 DEF EndLogin
<1>8. ASSUME NEW w \in Workers, SendCode(w) PROVE UsableInv'
  <2>1. CASE UNCHANGED states
    BY <1>1, <1>2, <1>3, <1>8, <2>1 DEF SendCode
  <2>2. CASE pc'[w] = "told"
    <3> SUFFICES ASSUME NEW v \in Users, Present(v),
                        states'[login_states[v]].step # "PHONE"
                 PROVE  states'[login_states[v]].client \in connected
      BY <1>8 DEF UsableInv, Present, Current, SendCode
    <3>1. CASE login_states[v] = job[w].state
      <4>1. job[w].client \in connected
        BY <1>8 DEF SendCode, NewInv, New
      <4> QED BY <1>8, <2>2, <3>1, <4>1, CodeDict
    <3>2. CASE login_states[v] # job[w].state
      <4>1. states'[login_states[v]] = states[login_states[v]]
        BY <1>8, <2>2, <3>2, CodeDict, DictType
      <4> QED BY <4>1 DEF UsableInv, Current
    <3> QED BY <3>1, <3>2
  <2> QED BY <1>8, <2>1, <2>2, SendCodeDicts
<1>9. ASSUME NEW w \in Workers, NotAccepted(w) PROVE UsableInv'
  <2> SUFFICES ASSUME NEW v \in Users, Present(v),
                      states'[login_states[v]].step # "PHONE"
               PROVE  states'[login_states[v]].client \in connected
    BY <1>9 DEF UsableInv, Present, Current, NotAccepted
  <2>1. login_states[v] \in 1 .. Len(states)
    BY DictType
  <2>2. Current(v).step # "PHONE"
    BY <1>9, <2>1, PasswordDict DEF Current, JobInv
  <2> QED BY <1>9, <2>1, <2>2, PasswordDict DEF UsableInv, Current
<1>10. ASSUME NEW w \in Workers, Close(w) PROVE UsableInv'
  <2>1. CASE Present(job[w].user)
    BY <1>4, <1>10, <2>1 DEF Close
  <2>2. CASE ~Present(job[w].user)
    <3>1. login_states' = login_states /\ login_states'[job[w].user] = 0
      BY <1>10, <2>2 DEF Close, Present
    <3> QED BY <1>0, <1>1, <1>2, <1>10, <3>1, UsableKept DEF Close
  <2> QED BY <2>1, <2>2
<1>11. ASSUME NEW w \in Workers, Error(w) PROVE UsableInv'
  <2>1. Fewer
    BY <1>0, <1>2, <1>11, ErrorMoves, DeleteFewer
  <2> QED BY <1>1, <1>3, <1>11, <2>1 DEF Error
<1>12. ASSUME NEW w \in Workers, Undo(w) \/ LoginEnded(w) PROVE UsableInv'
  BY <1>4, <1>12 DEF Undo, LoginEnded
<1>13. ASSUME NEW u \in Users, Expire(u) PROVE UsableInv'
  <2>1. Fewer
    BY <1>2, <1>13, DeleteFewer DEF Expire
  <2> QED BY <1>1, <1>3, <1>13, <2>1 DEF Expire
<1>14. CASE Expired
  <2>1. cleaner.user \in Users /\ Of(cleaner.client, cleaner.user)
    BY DEF Types, Row, OwnerInv
  <2> QED BY <1>1, <1>14, <2>1, DeleteFewer, UsableKept DEF Expired
<1>15. ASSUME NEW u \in Users, Timeout(u) PROVE UsableInv'
  BY <1>2, <1>3, <1>15, TimeoutDicts DEF Timeout
<1>16. CASE UNCHANGED <<states, login_states>> /\ connected \subseteq connected'
  BY <1>1, <1>2, <1>3, <1>16
<1> QED
  BY <1>5, <1>6, <1>7, <1>8, <1>9, <1>10, <1>11, <1>12, <1>13, <1>14, <1>15, <1>16
  DEF Next, Updates, Continue, Cleaner, Connect, Accepted, ReplyFails, Told, Sorry, Scan, vars

LEMMA SafeInit == Init => SafeInv
<1> SUFFICES ASSUME Init PROVE SafeInv
  OBVIOUS
<1>1. states = <<>> /\ Len(states) = 0 /\ states \in Seq(State)
  BY EmptySeq DEF Init
<1>2. Types
  <2>1. login_states \in [Users -> 0 .. Len(states)] /\ handled \in 0 .. MaxUpdates
    BY <1>1, UpdatesAssumption DEF Init
  <2>2. job \in [Workers -> Job] /\ cleaner \in Row
    BY IdleType DEF Init
  <2>3. \A w \in Workers : job[w].state \in 0 .. Len(states)
    <3>1. \A w \in Workers : job[w].state = 0
      BY DEF Init, Idle
    <3>2. 0 \in 0 .. Len(states)
      BY <1>1
    <3> QED BY <3>1, <3>2
  <2>4. pc \in [Workers -> Locations] /\ told \in [Users -> Claims]
    BY DEF Init, Locations, Claims
  <2> QED BY <1>1, <2>1, <2>2, <2>3, <2>4 DEF Init, Types
<1>3. \A s \in 1 .. Len(states) : FALSE
  BY <1>1
<1> QED
  BY <1>1, <1>2, <1>3 DEF Init, SafeInv, PhoneInv, JobInv, OwnerInv, IssuedInv, NewInv, UsableInv,
     New, AtWork, Resting, Issued, Of, Idle, Rest, Present

LEMMA SafeStep == SafeInv /\ [Next]_vars => SafeInv'
  BY TypesStep, DictsStep, JobInvStep, OwnerStep, NewStep, UsableStep DEF SafeInv

LEMMA SafeImplies == SafeInv => OpenLoginUsable
<1> SUFFICES ASSUME SafeInv PROVE OpenLoginUsable
  OBVIOUS
<1>1. job \in [Workers -> [user : Users, state : 0 .. Len(states),
                           client : Clients \cup {NoClient}, had : BOOLEAN]]
  BY DEF SafeInv, Types, Job
<1>2. TypeOK
  BY <1>1 DEF SafeInv, Types, Row, PhoneInv, TypeOK
<1> QED BY <1>2 DEF SafeInv, UsableInv, OpenLoginUsable

\* Whatever several handlers, a cancel and the expiry task do at once, a login
\* process that waits for a code or a password has the connected client it
\* needs: who disconnects a client (the ends of handle_login_steps,
\* cancel_login, logout and cleanup_expired_logins) also removes the entry, and
\* the client never is another user's.
THEOREM LoginUsable == Spec => []OpenLoginUsable
<1>1. Init => SafeInv
  BY SafeInit
<1>2. SafeInv /\ [Next]_vars => SafeInv'
  BY SafeStep
<1>3. SafeInv => OpenLoginUsable
  BY SafeImplies
<1> QED BY <1>1, <1>2, <1>3, PTL DEF Spec
-----------------------------------------------------------------------------
(***************************************************************************)
(* A careful user: at most one handler or the cleaner works for them, and  *)
(* the dict it works on is the one login_states has.                       *)
(***************************************************************************)
Alone(u) ==
    /\ \A v, w \in Workers :
         AtWork(v) /\ AtWork(w) /\ job[v].user = u /\ job[w].user = u => v = w
    /\ cleaner.client # NoClient /\ cleaner.user = u =>
         /\ \A w \in Workers : AtWork(w) => job[w].user # u
         /\ Present(u) /\ Current(u).client = cleaner.client

\* How the client of the dict and the client at hand are related.
InStep(w) ==
    LET j == job[w]
        c == states[j.state].client
    IN  /\ pc[w] # "told" => login_states[j.user] = j.state
        /\ New(w) => c = NoClient
        /\ pc[w] \in {"sign_in", "check_password", "saved", "undo", "cancel", "logout"} =>
             c = j.client
        /\ pc[w] \in {"sorry", "closing"} => c \in {NoClient, j.client}
        /\ pc[w] \in {"told", "error"} /\ j.client \in connected =>
             login_states[j.user] = j.state /\ c = j.client

Traced(u) == \A c \in connected : c.user = u => AtHand(c) \/ Found(c)

Careful(u) ==
    /\ Alone(u)
    /\ \A w \in Workers : AtWork(w) /\ job[w].user = u => InStep(w)
    /\ Traced(u)

CarefulInv == \A u \in Users \ careless : Careful(u)

\* Clients of u are connected, or not, as before.
SameConnected(u) == \A c \in Clients : c.user = u => (c \in connected <=> c \in connected')

\* A step of a handler that does not work for u, before or after.
LEMMA ElsewhereKept ==
  ASSUME SafeInv, NEW u \in Users, Careful(u), NEW w \in Workers, Moves(w),
         Types', ~(AtWork(w) /\ job[w].user = u), ~(pc'[w] \notin Resting /\ job'[w].user = u),
         UNCHANGED cleaner, login_states'[u] = login_states[u],
         \A s \in 1 .. Len(states) : Holds(u, s) => states'[s].client = states[s].client,
         SameConnected(u)
  PROVE  Careful(u)'
<1> USE DEF SafeInv
<1>1. ASSUME NEW v \in Workers, pc'[v] \notin Resting, job'[v].user = u
      PROVE  v # w /\ pc'[v] = pc[v] /\ job'[v] = job[v] /\ AtWork(v)
  BY <1>1 DEF Moves, AtWork
<1>2. Present(u) => states'[login_states[u]].client = Current(u).client
  BY DictType DEF Holds, Current
<1>3. Alone(u)'
  <2>1. ASSUME cleaner'.client # NoClient, cleaner'.user = u
        PROVE  /\ \A v \in Workers : pc'[v] \notin Resting => job'[v].user # u
               /\ login_states'[u] # 0 /\ states'[login_states'[u]].client = cleaner'.client
    <3>1. /\ \A v \in Workers : AtWork(v) => job[v].user # u
          /\ Present(u) /\ Current(u).client = cleaner.client
      BY <2>1 DEF Careful, Alone
    <3> QED BY <1>1, <1>2, <3>1 DEF Present
  <2>2. ASSUME NEW v \in Workers, NEW x \in Workers, pc'[v] \notin Resting, pc'[x] \notin Resting,
               job'[v].user = u, job'[x].user = u
        PROVE  v = x
    BY <1>1, <2>2 DEF Careful, Alone
  <2> QED BY <2>1, <2>2 DEF Alone, AtWork, Present, Current
<1>4. ASSUME NEW v \in Workers, pc'[v] \notin Resting, job'[v].user = u
      PROVE  InStep(v)'
  <2>1. InStep(v) /\ job[v].user = u /\ AtWork(v)
    BY <1>1, <1>4 DEF Careful
  <2>2. states'[job[v].state].client = states[job[v].state].client
    BY <2>1, WorkedOn DEF Holds
  <2>3. job[v].client # NoClient => (job[v].client \in connected <=> job[v].client \in connected')
    <3>1. job[v].client \in Clients \cup {NoClient} /\ Of(job[v].client, u)
      BY <2>1 DEF OwnerInv, Types, Job
    <3> QED BY <3>1 DEF Of, SameConnected
  <2>4. NoClient \notin connected' /\ NoClient \notin connected
    BY NoClientAssumption DEF Types
  <2> QED BY <1>1, <1>4, <2>1, <2>2, <2>3, <2>4 DEF InStep, New
<1>5. ASSUME NEW c \in connected', c.user = u
      PROVE  AtHand(c)' \/ Found(c)'
  <2>1. c \in Clients /\ c \in connected /\ c # NoClient
    BY <1>5, NoClientAssumption DEF Types, SameConnected
  <2>2. CASE Found(c)
    BY <1>2, <1>5, <2>2 DEF Found, Present, Current
  <2>3. CASE cleaner.client = c
    BY <2>3 DEF AtHand
  <2>4. ASSUME NEW v \in Workers, job[v].client = c PROVE AtHand(c)'
    <3>1. job[v].user = u /\ AtWork(v)
      BY <1>5, <2>1, <2>4 DEF OwnerInv, Of, JobInv, AtWork
    <3>2. v # w
      BY <3>1
    <3> QED BY <2>4, <3>2 DEF Moves, AtHand
  <2>5. AtHand(c) \/ Found(c)
    BY <1>5, <2>1 DEF Careful, Traced
  <2> QED BY <2>2, <2>3, <2>4, <2>5 DEF AtHand
<1> QED BY <1>3, <1>4, <1>5 DEF Careful, Traced, AtWork

\* While a handler works for a careful user, all their connected clients are
\* the one it has at hand or the one of the dict.
LEMMA OnlyMine ==
  ASSUME SafeInv, NEW u \in Users, Careful(u), NEW w \in Workers, AtWork(w), job[w].user = u
  PROVE  /\ \A c \in connected : c.user = u => c = job[w].client \/ Found(c)
         /\ \A v \in Workers \ {w} : ~(AtWork(v) /\ job[v].user = u)
         /\ cleaner.client = NoClient \/ cleaner.user # u
<1> USE DEF SafeInv
<1>1. /\ \A v \in Workers \ {w} : ~(AtWork(v) /\ job[v].user = u)
      /\ cleaner.client = NoClient \/ cleaner.user # u
  BY DEF Careful, Alone
<1>2. ASSUME NEW c \in connected, c.user = u, ~Found(c)
      PROVE  c = job[w].client
  <2>1. c \in Clients /\ c # NoClient
    BY NoClientAssumption DEF Types
  <2>2. AtHand(c)
    BY <1>2 DEF Careful, Traced
  <2>3. cleaner.client # c
    BY <1>1, <1>2, <2>1 DEF OwnerInv, Of
  <2>4. \A v \in Workers : job[v].client = c => AtWork(v) /\ job[v].user = u
    BY <1>2, <2>1 DEF OwnerInv, Of, JobInv, AtWork
  <2> QED BY <1>1, <2>2, <2>3, <2>4 DEF AtHand
<1> QED BY <1>1, <1>2

\* A step of the one handler that works for u.
LEMMA OwnKept ==
  ASSUME SafeInv, NEW u \in Users, Careful(u), NEW w \in Workers, AtWork(w), job[w].user = u,
         Moves(w), UNCHANGED cleaner,
         pc'[w] \notin Resting => job'[w].user = u /\ InStep(w)',
         \A c \in connected' : c.user = u =>
           c = job'[w].client \/ (login_states'[u] # 0 /\ states'[login_states'[u]].client = c)
  PROVE  Careful(u)'
<1>1. /\ \A v \in Workers \ {w} : ~(pc'[v] \notin Resting /\ job'[v].user = u)
      /\ cleaner'.client = NoClient \/ cleaner'.user # u
  BY OnlyMine DEF Moves, AtWork
<1>2. Alone(u)'
  BY <1>1 DEF Alone, AtWork
<1>3. \A v \in Workers : pc'[v] \notin Resting /\ job'[v].user = u => InStep(v)'
  BY <1>1
<1>4. Traced(u)'
  BY DEF Traced, AtHand, Found, Present, Current
<1> QED BY <1>2, <1>3, <1>4 DEF Careful, AtWork
-----------------------------------------------------------------------------
(***************************************************************************)
(* The steps of a handler that works for a careful user.                   *)
(***************************************************************************)
\* What is known of the user of a handler at work.
LEMMA MineInStep ==
  ASSUME SafeInv, NEW w \in Workers, AtWork(w), NEW u \in Users, job[w].user = u, Careful(u)
  PROVE  /\ InStep(w)
         /\ job[w].state # 0
         /\ \A c \in connected : c.user = u =>
              \/ c = job[w].client
              \/ login_states[u] # 0 /\ states[login_states[u]].client = c
         /\ pc[w] # "told" => login_states[u] = job[w].state
         /\ NoClient \notin connected
<1>1. InStep(w)
  BY DEF Careful
<1>2. \A c \in connected : c.user = u =>
        \/ c = job[w].client
        \/ login_states[u] # 0 /\ states[login_states[u]].client = c
  BY OnlyMine DEF Found, Present, Current
<1>3. job[w].state # 0
  BY DEF SafeInv, JobInv
<1>4. NoClient \notin connected
  BY NoClientAssumption DEF SafeInv, Types
<1> QED BY <1>1, <1>2, <1>3, <1>4 DEF InStep

\* A handler that ends leaves the clients that its user's dict has.
LEMMA QuitCareful ==
  ASSUME SafeInv, NEW w \in Workers, AtWork(w), NEW u \in Users, job[w].user = u, Careful(u),
         Quit(w) \/ (Moves(w) /\ pc'[w] \in Resting), UNCHANGED cleaner,
         \A c \in connected' : c.user = u =>
           login_states'[u] # 0 /\ states'[login_states'[u]].client = c
  PROVE  Careful(u)'
<1>1. Moves(w) /\ pc'[w] \in Resting
  BY QuitMoves DEF SafeInv, Resting
<1> QED BY <1>1, OwnKept

LEMMA ConnectCareful ==
  ASSUME SafeInv, NEW w \in Workers, NEW u \in Users, job[w].user = u, Careful(u), Connect(w)
  PROVE  Careful(u)'
<1> DEFINE j == job[w]
<1>1. AtWork(w) /\ Moves(w) /\ job'[w] = j /\ UNCHANGED <<cleaner, states, login_states>>
      /\ \/ pc'[w] = "send_code" /\ connected' = connected \cup {j.client}
         \/ pc'[w] = "error" /\ UNCHANGED connected
  BY GotoMoves DEF SafeInv, Connect, AtWork, Resting
<1>2. pc[w] = "connect" /\ j.client \notin connected /\ states[j.state].client = NoClient
      /\ login_states[u] = j.state
  BY <1>1, MineInStep DEF Connect, SafeInv, NewInv, New, InStep
<1>3. InStep(w)'
  BY <1>1, <1>2 DEF InStep, New
<1>4. \A c \in connected' : c.user = u =>
         c = job'[w].client \/ (login_states'[u] # 0 /\ states'[login_states'[u]].client = c)
  BY <1>1, MineInStep
<1> QED BY <1>1, <1>3, <1>4, OwnKept

LEMMA SendCodeCareful ==
  ASSUME SafeInv, NEW w \in Workers, NEW u \in Users, job[w].user = u, Careful(u), SendCode(w)
  PROVE  Careful(u)'
<1> DEFINE j == job[w]
<1>1. AtWork(w) /\ Moves(w) /\ job'[w] = j /\ UNCHANGED <<cleaner, connected, login_states>>
  BY GotoMoves DEF SafeInv, SendCode, AtWork, Resting
<1>2. pc[w] = "send_code" /\ states[j.state].client = NoClient /\ login_states[u] = j.state
  BY <1>1, MineInStep DEF SendCode, InStep, New
<1>3. \A c \in connected : c.user = u => c = j.client
  BY <1>1, <1>2, MineInStep
<1>4. CASE pc'[w] = "told"
  <2>1. states'[j.state].client = j.client
    BY <1>4, CodeDict DEF SafeInv
  <2>2. InStep(w)'
    BY <1>1, <1>2, <1>4, <2>1 DEF InStep, New
  <2> QED BY <1>1, <1>3, <2>2, OwnKept
<1>5. CASE pc'[w] = "sorry" /\ UNCHANGED states
  <2>1. InStep(w)'
    BY <1>1, <1>2, <1>5 DEF InStep, New
  <2> QED BY <1>1, <1>3, <2>1, OwnKept
<1> QED BY <1>4, <1>5, SendCodeDicts DEF SafeInv

\* The code or the password is accepted or not; then the apology.
LEMMA AnswerCareful ==
  ASSUME SafeInv, NEW w \in Workers, NEW u \in Users, job[w].user = u, Careful(u),
         Accepted(w) \/ NotAccepted(w) \/ Sorry(w)
  PROVE  Careful(u)'
<1> DEFINE j == job[w]
<1>1. AtWork(w)
  BY DEF Accepted, NotAccepted, Sorry, AtWork, Resting
<1>2. /\ Moves(w) /\ job'[w] = j /\ UNCHANGED <<cleaner, connected, login_states>>
  BY GotoMoves DEF SafeInv, Accepted, NotAccepted, Sorry
<1>3. \A s \in 1 .. Len(states) : states'[s].client = states[s].client
  BY PasswordDict DEF SafeInv, Accepted, Sorry
<1>4. login_states[u] = j.state /\ j.state \in 1 .. Len(states)
  BY <1>1, MineInStep, WorkedOn DEF SafeInv, Accepted, NotAccepted, Sorry
<1>5. InStep(w)'
  <2>1. CASE Accepted(w)
    <3>1. pc'[w] = "saved" /\ states[j.state].client = j.client
      BY <1>1, <2>1, MineInStep, GotoMoves DEF SafeInv, Accepted, InStep
    <3> QED BY <1>2, <1>3, <1>4, <3>1 DEF InStep, New
  <2>2. CASE NotAccepted(w)
    <3>1. pc'[w] \in {"told", "sorry", "error"} /\ states[j.state].client = j.client
      BY <1>1, <2>2, MineInStep, GotoMoves DEF SafeInv, NotAccepted, InStep
    <3> QED BY <1>2, <1>3, <1>4, <3>1 DEF InStep, New
  <2>3. CASE Sorry(w)
    <3>1. /\ pc'[w] = (IF j.client \in connected THEN "closing" ELSE "error")
          /\ states[j.state].client \in {NoClient, j.client}
      BY <1>1, <2>3, MineInStep, GotoMoves DEF SafeInv, Sorry, InStep
    <3> QED BY <1>2, <1>3, <1>4, <3>1 DEF InStep, New
  <2> QED BY <2>1, <2>2, <2>3
<1>6. \A c \in connected' : c.user = u =>
         c = job'[w].client \/ (login_states'[u] # 0 /\ states'[login_states'[u]].client = c)
  BY <1>1, <1>2, <1>3, <1>4, MineInStep
<1> QED BY <1>1, <1>2, <1>5, <1>6, OwnKept

LEMMA ToldCareful ==
  ASSUME SafeInv, NEW w \in Workers, NEW u \in Users, job[w].user = u, Careful(u), Told(w),
         AtWork(w)
  PROVE  Careful(u)'
<1>1. pc[w] = "told" /\ UNCHANGED <<cleaner, connected, login_states, states>>
  BY DEF Told, AtWork, Resting
<1>2. \A c \in connected : c.user = u =>
        login_states[u] # 0 /\ states[login_states[u]].client = c
  BY <1>1, MineInStep DEF InStep
<1> QED BY <1>1, <1>2, QuitCareful DEF Told

LEMMA CloseCareful ==
  ASSUME SafeInv, NEW w \in Workers, NEW u \in Users, job[w].user = u, Careful(u), Close(w)
  PROVE  Careful(u)'
<1> DEFINE j == job[w]
<1>1. AtWork(w) /\ pc[w] \in {"saved", "closing"} /\ UNCHANGED <<cleaner, states>>
      /\ connected' = connected \ {j.client}
  BY DEF Close, AtWork, Resting
<1>2. /\ login_states[u] = j.state /\ j.state # 0
      /\ states[j.state].client \in {NoClient, j.client} /\ NoClient \notin connected
  BY <1>1, MineInStep DEF InStep
<1>3. \A c \in connected' : c.user # u
  BY <1>1, <1>2, MineInStep
<1>4. Delete(u) /\ IF pc[w] = "saved" THEN Goto(w, "told") /\ UNCHANGED job ELSE Quit(w)
  BY <1>2 DEF Close, Present
<1>5. CASE pc[w] = "saved"
  <2>1. Moves(w) /\ pc'[w] = "told" /\ job'[w] = j
    BY <1>4, <1>5, GotoMoves DEF SafeInv
  <2>2. InStep(w)'
    BY <1>1, <2>1 DEF InStep, New
  <2> QED BY <1>1, <1>3, <2>1, <2>2, OwnKept
<1>6. CASE pc[w] # "saved"
  BY <1>1, <1>3, <1>4, <1>6, QuitCareful
<1> QED BY <1>5, <1>6

LEMMA ErrorCareful ==
  ASSUME SafeInv, NEW w \in Workers, NEW u \in Users, job[w].user = u, Careful(u), Error(w)
  PROVE  Careful(u)'
<1> DEFINE j == job[w]
<1>1. AtWork(w) /\ pc[w] = "error" /\ UNCHANGED <<cleaner, states, connected>>
  BY DEF Error, AtWork, Resting
<1>2. /\ login_states[u] = j.state /\ j.state # 0
      /\ j.client \in connected => states[j.state].client = j.client
  BY <1>1, MineInStep DEF InStep
<1>3. \A c \in connected : c.user = u => c = states[j.state].client
  BY <1>1, <1>2, MineInStep
<1>4. CASE Quit(w) /\ states[j.state].client \notin connected
  <2>1. \A c \in connected' : c.user # u
    BY <1>1, <1>3, <1>4
  <2> QED BY <1>1, <1>4, <2>1, QuitCareful
<1>5. CASE /\ pc'[w] = "undo" /\ job'[w].state = j.state /\ job'[w].user = j.user
           /\ job'[w].client = states[j.state].client
           /\ UNCHANGED login_states
  <2>1. InStep(w)'
    BY <1>1, <1>2, <1>5 DEF InStep, New
  <2>2. Moves(w)
    BY ErrorMoves DEF SafeInv
  <2> QED BY <1>1, <1>3, <1>5, <2>1, <2>2, OwnKept
<1> QED BY <1>4, <1>5, ErrorMoves DEF SafeInv

\* Undo, and the end of /cancel_login and /logout.
LEMMA EndCareful ==
  ASSUME SafeInv, NEW w \in Workers, NEW u \in Users, job[w].user = u, Careful(u),
         Undo(w) \/ LoginEnded(w)
  PROVE  Careful(u)'
<1> DEFINE j == job[w]
<1>1. AtWork(w) /\ pc[w] \in {"undo", "cancel", "logout"} /\ UNCHANGED <<cleaner, states>>
      /\ connected' = connected \ {j.client}
  BY DEF Undo, LoginEnded, AtWork, Resting
<1>2. /\ login_states[u] = j.state /\ states[j.state].client = j.client
  BY <1>1, MineInStep DEF InStep
<1>3. \A c \in connected' : c.user # u
  BY <1>1, <1>2, MineInStep
<1>4. Quit(w) \/ (Moves(w) /\ pc'[w] \in Resting)
  BY FinishMoves DEF SafeInv, Undo, LoginEnded, Resting
<1> QED BY <1>1, <1>3, <1>4, QuitCareful
-----------------------------------------------------------------------------
(***************************************************************************)
(* Updates of a careful user: nothing of theirs is going on.               *)
(***************************************************************************)
LEMMA NobodyWorks ==
  ASSUME SafeInv, NEW u \in Users, Careful(u), Working(u) = {},
         ~(cleaner.client # NoClient /\ cleaner.user = u)
  PROVE  /\ \A v \in Workers : ~(AtWork(v) /\ job[v].user = u)
         /\ \A c \in connected : c.user = u => Present(u) /\ Current(u).client = c
<1> USE DEF SafeInv
<1>1. \A v \in Workers : ~(AtWork(v) /\ job[v].user = u)
  BY DEF Working, AtWork, Resting
<1>2. ASSUME NEW c \in connected, c.user = u PROVE Present(u) /\ Current(u).client = c
  <2>1. c # NoClient
    BY NoClientAssumption DEF Types
  <2>2. cleaner.client # c
    BY <1>2, <2>1 DEF OwnerInv, Of
  <2>3. \A v \in Workers : job[v].client # c
    BY <1>1, <1>2, <2>1 DEF OwnerInv, Of, JobInv, AtWork
  <2> QED BY <1>2, <2>2, <2>3 DEF Careful, Traced, AtHand, Found
<1> QED BY <1>1, <1>2

\* The handler that takes up work for u is the only one.
LEMMA TakenUp ==
  ASSUME SafeInv, NEW u \in Users, NEW w \in Workers, Moves(w), UNCHANGED cleaner,
         \A v \in Workers : ~(AtWork(v) /\ job[v].user = u),
         cleaner.client = NoClient \/ cleaner.user # u,
         pc'[w] \notin Resting /\ job'[w].user = u => InStep(w)',
         \A c \in connected' : c.user = u =>
           c = job'[w].client \/ (login_states'[u] # 0 /\ states'[login_states'[u]].client = c)
  PROVE  Careful(u)'
<1>1. \A v \in Workers \ {w} : ~(pc'[v] \notin Resting /\ job'[v].user = u)
  BY DEF Moves, AtWork
<1>2. Alone(u)'
  BY <1>1 DEF Alone, AtWork
<1>3. \A v \in Workers : pc'[v] \notin Resting /\ job'[v].user = u => InStep(v)'
  BY <1>1
<1>4. Traced(u)'
  BY DEF Traced, AtHand, Found, Present, Current
<1> QED BY <1>2, <1>3, <1>4 DEF Careful, AtWork

LEMMA StartCareful ==
  ASSUME SafeInv, NEW w \in Workers, NEW u \in Users, LoginStart(w, u), Careful(u),
         u \notin careless', session[u] = NoClient
  PROVE  Careful(u)'
<1>1. ~Present(u) /\ Working(u) = {} /\ UNCHANGED <<cleaner, connected>>
  BY DEF LoginStart
<1>2. ~(cleaner.client # NoClient /\ cleaner.user = u)
  BY <1>1 DEF Careful, Alone
<1>3. /\ \A v \in Workers : ~(AtWork(v) /\ job[v].user = u)
      /\ \A c \in connected : c.user # u
  BY <1>1, <1>2, NobodyWorks
<1>4. Moves(w) /\ pc'[w] \in Resting
  BY StartMoves DEF SafeInv, Resting
<1> QED BY <1>1, <1>2, <1>3, <1>4, TakenUp

LEMMA TextCareful ==
  ASSUME SafeInv, Types', NEW w \in Workers, NEW u \in Users, Text(w, u), Careful(u),
         u \notin careless'
  PROVE  Careful(u)'
<1> USE DEF SafeInv
<1>1. Working(u) = {} /\ ~(cleaner.client # NoClient /\ cleaner.user = u)
      /\ UNCHANGED <<cleaner, connected, login_states>>
  BY DEF Text, Take
<1>2. /\ \A v \in Workers : ~(AtWork(v) /\ job[v].user = u)
      /\ \A c \in connected : c.user = u => Present(u) /\ Current(u).client = c
  BY <1>1, NobodyWorks
<1>3. /\ Moves(w) /\ job'[w].user = u /\ job'[w].state = login_states[u]
      /\ \/ pc'[w] = "connect" /\ Current(u).step = "PHONE"
         \/ pc'[w] \in {"sign_in", "check_password"} /\ job'[w].client = Current(u).client
  BY TextMoves
<1>4. login_states[u] \in 1 .. Len(states) /\ states'[login_states[u]].client = Current(u).client
  BY TextDicts DEF SameDicts, Current
<1>5. Current(u).step = "PHONE" => Current(u).client = NoClient
  BY <1>4 DEF PhoneInv, Current
<1>6. InStep(w)'
  BY <1>1, <1>3, <1>4, <1>5 DEF InStep, New
<1>7. \A c \in connected' : c.user = u => login_states'[u] # 0 /\ states'[login_states'[u]].client = c
  BY <1>1, <1>2, <1>4 DEF Present
<1> QED BY <1>1, <1>2, <1>3, <1>6, <1>7, TakenUp

LEMMA EndLoginCareful ==
  ASSUME SafeInv, NEW w \in Workers, NEW u \in Users, NEW loc \in {"cancel", "logout"},
         EndLogin(w, u, loc), Careful(u), u \notin careless'
  PROVE  Careful(u)'
<1> USE DEF SafeInv
<1>1. Working(u) = {} /\ ~(cleaner.client # NoClient /\ cleaner.user = u)
      /\ UNCHANGED <<cleaner, connected, states>>
  BY DEF EndLogin, Take
<1>2. /\ \A v \in Workers : ~(AtWork(v) /\ job[v].user = u)
      /\ \A c \in connected : c.user = u => Present(u) /\ Current(u).client = c
  BY <1>1, NobodyWorks
<1>3. CASE pc'[w] = "reply"
  <2>1. ~(Present(u) /\ Current(u).client \in connected)
    BY <1>3, EndMoves
  <2>2. \A c \in connected' : c.user # u
    BY <1>1, <1>2, <2>1
  <2> QED BY <1>1, <1>2, <1>3, <2>2, EndMoves, TakenUp DEF Resting
<1>4. CASE pc'[w] \in {"cancel", "logout"}
  <2>1. /\ Moves(w) /\ Present(u)
        /\ job'[w].user = u /\ job'[w].state = login_states[u]
        /\ job'[w].client = Current(u).client
        /\ UNCHANGED login_states
    BY <1>4, EndMoves
  <2>2. InStep(w)'
    BY <1>1, <1>4, <2>1 DEF InStep, New, Current
  <2>3. \A c \in connected' : c.user = u => c = job'[w].client
    BY <1>1, <1>2, <2>1
  <2> QED BY <1>1, <1>2, <2>1, <2>2, <2>3, TakenUp
<1> QED BY <1>3, <1>4, EndMoves

-----------------------------------------------------------------------------
(***************************************************************************)
(* The cleaner.                                                            *)
(***************************************************************************)
\* It does nothing for u.
LEMMA CleanerElsewhere ==
  ASSUME SafeInv, Types', NEW u \in Users, Careful(u), UNCHANGED <<pc, job>>, SameClients,
         login_states'[u] = login_states[u], SameConnected(u),
         \/ UNCHANGED cleaner
         \/ /\ cleaner.client = NoClient \/ cleaner.user # u
            /\ cleaner'.client = NoClient \/ cleaner'.user # u
  PROVE  Careful(u)'
<1> USE DEF SafeInv
<1>1. Present(u) => states'[login_states[u]].client = Current(u).client
  BY DictType DEF SameClients, Current
<1>2. Alone(u)'
  <2>1. CASE UNCHANGED cleaner
    BY <1>1, <2>1 DEF Careful, Alone, AtWork, Present, Current
  <2>2. CASE cleaner'.client = NoClient \/ cleaner'.user # u
    BY <2>2 DEF Careful, Alone, AtWork
  <2> QED BY <2>1, <2>2
<1>3. ASSUME NEW v \in Workers, AtWork(v), job[v].user = u
      PROVE  InStep(v)'
  <2>1. InStep(v) /\ states'[job[v].state].client = states[job[v].state].client
    BY <1>3, WorkedOn DEF Careful, SameClients
  <2>2. job[v].client # NoClient => (job[v].client \in connected <=> job[v].client \in connected')
    <3>1. job[v].client \in Clients \cup {NoClient} /\ Of(job[v].client, u)
      BY <1>3 DEF OwnerInv, Types, Job
    <3> QED BY <3>1 DEF Of, SameConnected
  <2>3. NoClient \notin connected' /\ NoClient \notin connected
    BY NoClientAssumption DEF Types
  <2> QED BY <1>3, <2>1, <2>2, <2>3 DEF InStep, New
<1>4. ASSUME NEW c \in connected', c.user = u
      PROVE  AtHand(c)' \/ Found(c)'
  <2>1. c \in connected /\ c # NoClient
    BY <1>4, NoClientAssumption DEF Types, SameConnected
  <2>2. Found(c) => Found(c)'
    BY <1>1, <1>4 DEF Found, Present, Current
  <2>3. cleaner.client = c => UNCHANGED cleaner
    BY <1>4, <2>1 DEF OwnerInv, Of
  <2>4. AtHand(c) => AtHand(c)'
    BY <2>3 DEF AtHand
  <2> QED BY <1>4, <2>1, <2>2, <2>4 DEF Careful, Traced
<1> QED BY <1>2, <1>3, <1>4 DEF Careful, Traced, AtWork

\* It finds that the process of u has expired.
LEMMA ExpireCareful ==
  ASSUME SafeInv, Types', NEW u \in Users, Expire(u), Careful(u), u \notin careless'
  PROVE  Careful(u)'
<1> USE DEF SafeInv
<1>1. Working(u) = {} /\ cleaner.client = NoClient
      /\ UNCHANGED <<states, connected, pc, job>>
  BY DEF Expire
<1>2. /\ \A v \in Workers : ~(AtWork(v) /\ job[v].user = u)
      /\ \A c \in connected : c.user = u => Present(u) /\ Current(u).client = c
  BY <1>1, NobodyWorks
<1>3. \A v \in Workers : ~(pc'[v] \notin Resting /\ job'[v].user = u)
  BY <1>1, <1>2 DEF AtWork
<1>4. CASE Present(u) /\ Current(u).client \in connected
  <2>1. cleaner'.client = Current(u).client /\ UNCHANGED login_states
    BY <1>4 DEF Expire, Current, Types, Row
  <2>2. Alone(u)'
    BY <1>1, <1>3, <1>4, <2>1 DEF Alone, AtWork, Present, Current
  <2>3. Traced(u)'
    BY <1>1, <1>2, <2>1 DEF Traced, Found, Present, Current
  <2> QED BY <1>3, <2>2, <2>3 DEF Careful, AtWork
<1>5. CASE ~(Present(u) /\ Current(u).client \in connected)
  <2>1. cleaner'.client = NoClient
    BY <1>1, <1>5 DEF Expire, Current, Rest, Types, Row
  <2>2. \A c \in connected' : c.user # u
    BY <1>1, <1>2, <1>5
  <2>3. Alone(u)' /\ Traced(u)'
    BY <1>3, <2>1, <2>2 DEF Alone, AtWork, Traced
  <2> QED BY <1>3, <2>3 DEF Careful, AtWork
<1> QED BY <1>4, <1>5

\* It has disconnected the client of u.
LEMMA ExpiredCareful ==
  ASSUME SafeInv, NEW u \in Users, Expired, cleaner.user = u, Careful(u)
  PROVE  Careful(u)'
<1> USE DEF SafeInv
<1>1. /\ \A w \in Workers : AtWork(w) => job[w].user # u
      /\ Present(u) /\ Current(u).client = cleaner.client
      /\ UNCHANGED <<pc, job>> /\ cleaner.client # NoClient
  BY DEF Careful, Alone, Expired
<1>2. \A v \in Workers : ~(pc'[v] \notin Resting /\ job'[v].user = u)
  BY <1>1 DEF AtWork
<1>3. cleaner'.client = NoClient
  BY DEF Expired, Rest
<1>4. ASSUME NEW c \in connected', c.user = u PROVE FALSE
  <2>1. c \in connected /\ c # cleaner.client /\ c # NoClient
    BY <1>4, NoClientAssumption DEF Expired, Types
  <2>2. ~Found(c)
    BY <1>1, <1>4, <2>1 DEF Found
  <2>3. \A v \in Workers : job[v].client # c
    BY <1>1, <1>4, <2>1 DEF OwnerInv, Of, JobInv, AtWork
  <2> QED BY <1>4, <2>1, <2>2, <2>3 DEF Careful, Traced, AtHand
<1>5. Alone(u)' /\ Traced(u)'
  BY <1>2, <1>3, <1>4 DEF Alone, AtWork, Traced
<1> QED BY <1>2, <1>5 DEF Careful, AtWork
-----------------------------------------------------------------------------
(***************************************************************************)
(* All steps together.                                                     *)
(***************************************************************************)
\* A handler that works for somebody else, or only replies.
LEMMA ContinueElsewhere ==
  ASSUME SafeInv, Types', NEW u \in Users, Careful(u), NEW w \in Workers, Continue(w),
         ~(AtWork(w) /\ job[w].user = u)
  PROVE  Careful(u)'
<1> USE DEF SafeInv
<1> DEFINE j == job[w]
<1>1. UNCHANGED cleaner /\ j.user \in Users /\ (AtWork(w) => j.user # u)
  BY DEF Continue, Connect, SendCode, Accepted, NotAccepted, ReplyFails, Told, Sorry, Close,
         Error, Undo, LoginEnded, Types, Job
<1>2. j.client = NoClient \/ j.client.user # u
  BY <1>1 DEF OwnerInv, Of, JobInv, AtWork
<1>3. /\ connected' \in {connected, connected \cup {j.client}, connected \ {j.client}}
  BY DEF Continue, Connect, SendCode, Accepted, NotAccepted, ReplyFails, Told, Sorry, Close,
         Error, Undo, LoginEnded
<1>4. SameConnected(u)
  BY <1>2, <1>3, NoClientAssumption DEF SameConnected
<1>5. login_states' = login_states \/ (AtWork(w) /\ Delete(j.user))
  BY ErrorMoves DEF Continue, Connect, SendCode, Accepted, NotAccepted, ReplyFails, Told, Sorry,
         Close, Error, Undo, LoginEnded, AtWork, Resting
<1>6. login_states'[u] = login_states[u]
  BY <1>1, <1>5, DeleteFewer
<1>7. ASSUME NEW s \in 1 .. Len(states), Holds(u, s)
      PROVE  states'[s].client = states[s].client
  <2>1. CASE UNCHANGED states
    BY <2>1
  <2>2. CASE SendCode(w) /\ pc'[w] = "told"
    <3>1. AtWork(w)
      BY <2>2 DEF SendCode, AtWork, Resting
    <3>2. s # j.state
      <4>1. SUFFICES ASSUME s = j.state PROVE FALSE
        OBVIOUS
      <4>2. Holds(j.user, s)
        BY <4>1 DEF Holds
      <4> QED BY <1>1, <1>7, <3>1, <4>2 DEF OwnerInv
    <3> QED BY <2>2, <3>2, CodeDict
  <2>3. CASE NotAccepted(w)
    BY <2>3, PasswordDict
  <2> QED BY <2>1, <2>2, <2>3, SendCodeDicts
          DEF Continue, Connect, Accepted, ReplyFails, Told, Sorry, Close, Error, Undo, LoginEnded
<1>8. Moves(w) /\ (pc'[w] \notin Resting => AtWork(w) /\ job'[w].user = j.user)
  <2>1. ASSUME NEW l, Goto(w, l), UNCHANGED job PROVE Moves(w) /\ job'[w].user = j.user
    BY <2>1, GotoMoves
  <2>2. ASSUME Quit(w) PROVE Moves(w) /\ pc'[w] \in Resting
    BY <2>2, QuitMoves DEF Resting
  <2>3. CASE Connect(w) \/ SendCode(w) \/ Accepted(w) \/ NotAccepted(w) \/ Sorry(w)
    BY <2>1, <2>3 DEF Connect, SendCode, Accepted, NotAccepted, Sorry, AtWork, Resting
  <2>4. CASE ReplyFails(w) \/ Told(w) \/ Close(w) \/ Undo(w)
    BY <2>1, <2>2, <2>4 DEF ReplyFails, Told, Close, Undo, AtWork, Resting
  <2>5. CASE Error(w)
    BY <2>2, <2>5, ErrorMoves DEF Error, AtWork, Resting
  <2>6. CASE LoginEnded(w)
    BY <1>1, <2>2, <2>6, FinishMoves DEF LoginEnded, Resting
  <2> QED BY <2>3, <2>4, <2>5, <2>6 DEF Continue
<1>9. ~(pc'[w] \notin Resting /\ job'[w].user = u)
  BY <1>1, <1>8
<1> QED BY <1>1, <1>4, <1>6, <1>7, <1>8, <1>9, ElsewhereKept

LEMMA ContinueCareful ==
  ASSUME SafeInv, Types', NEW u \in Users, Careful(u), NEW w \in Workers, Continue(w),
         u \notin careless'
  PROVE  Careful(u)'
<1>1. CASE AtWork(w) /\ job[w].user = u
  <2>1. ~ReplyFails(w)
    BY <1>1 DEF ReplyFails
  <2> QED BY <1>1, <2>1, ConnectCareful, SendCodeCareful, AnswerCareful, ToldCareful, CloseCareful,
             ErrorCareful, EndCareful DEF Continue
<1> QED BY <1>1, ContinueElsewhere

\* An update of another user, or a /login of a user who has a session.
LEMMA UpdateElsewhere ==
  ASSUME SafeInv, Types', NEW u \in Users, Careful(u), NEW w \in Workers, NEW v \in Users,
         \/ LoginStart(w, v) /\ (v # u \/ session[v] # NoClient)
         \/ v # u /\ Text(w, v)
         \/ v # u /\ (EndLogin(w, v, "cancel") \/ EndLogin(w, v, "logout"))
  PROVE  Careful(u)'
<1> USE DEF SafeInv
<1>1. UNCHANGED <<cleaner, connected>> /\ pc[w] = "idle"
  BY DEF LoginStart, Text, EndLogin, Take
<1>2. SameConnected(u) /\ ~AtWork(w)
  BY <1>1 DEF SameConnected, AtWork, Resting
<1>3. CASE LoginStart(w, v) /\ (v # u \/ session[v] # NoClient)
  <2>1. login_states'[u] = login_states[u]
    BY <1>3 DEF LoginStart, Types
  <2>2. \A s \in 1 .. Len(states) : states'[s].client = states[s].client
    BY <1>3, NewDict DEF LoginStart
  <2> QED BY <1>1, <1>2, <1>3, <2>1, <2>2, StartMoves, ElsewhereKept DEF Resting
<1>4. CASE v # u /\ Text(w, v)
  <2>1. \A s \in 1 .. Len(states) : states'[s].client = states[s].client
    BY <1>4, TextDicts DEF SameDicts
  <2>2. Moves(w) /\ job'[w].user # u /\ login_states'[u] = login_states[u]
    BY <1>4, TextMoves DEF Text
  <2> QED BY <1>1, <1>2, <2>1, <2>2, ElsewhereKept
<1>5. ASSUME v # u, NEW loc \in {"cancel", "logout"}, EndLogin(w, v, loc)
      PROVE  Careful(u)'
  <2>1. \A s \in 1 .. Len(states) : states'[s].client = states[s].client
    BY <1>5 DEF EndLogin
  <2>2. Moves(w) /\ ~(pc'[w] \notin Resting /\ job'[w].user = u)
        /\ login_states'[u] = login_states[u]
    BY <1>5, EndMoves, DeleteFewer DEF Resting
  <2> QED BY <1>1, <1>2, <2>1, <2>2, ElsewhereKept
<1> QED BY <1>3, <1>4, <1>5

LEMMA CleanerCareful ==
  ASSUME SafeInv, Types', NEW u \in Users, Careful(u), u \notin careless',
         Cleaner \/ (\E v \in Users : Timeout(v)) \/ UNCHANGED vars
  PROVE  Careful(u)'
<1> USE DEF SafeInv
<1>1. UNCHANGED states => SameClients
  BY SameIfUnchanged, DictsSame
<1>2. UNCHANGED connected => SameConnected(u)
  BY DEF SameConnected
<1>3. CASE Scan
  <2>1. cleaner.client = NoClient /\ cleaner'.client = NoClient
    BY <1>3 DEF Scan, Rest
  <2> QED BY <1>1, <1>2, <1>3, <2>1, CleanerElsewhere DEF Scan
<1>4. ASSUME NEW v \in Users, v # u, Expire(v) PROVE Careful(u)'
  <2>1. login_states'[u] = login_states[u]
    BY <1>4, DeleteFewer DEF Expire
  <2>2. cleaner.client = NoClient /\ (cleaner'.client = NoClient \/ cleaner'.user # u)
    <3>1. CASE Present(v) /\ Current(v).client \in connected
      <4>1. cleaner' = [cleaner EXCEPT !.client = Current(v).client, !.user = v]
        BY <1>4, <3>1 DEF Expire, Current
      <4> QED BY <1>4, <4>1 DEF Expire, Types, Row
    <3>2. CASE ~(Present(v) /\ Current(v).client \in connected)
      BY <1>4, <3>2 DEF Expire, Current, Rest, Types, Row
    <3> QED BY <3>1, <3>2
  <2> QED BY <1>1, <1>2, <1>4, <2>1, <2>2, CleanerElsewhere DEF Expire
<1>5. CASE Expired /\ cleaner.user # u
  <2>1. login_states'[u] = login_states[u]
    BY <1>5, DeleteFewer DEF Expired, Types, Row
  <2>2. SameConnected(u)
    BY <1>5 DEF Expired, SameConnected, OwnerInv, Of
  <2>3. cleaner'.client = NoClient
    BY <1>5 DEF Expired, Rest
  <2> QED BY <1>1, <1>5, <2>1, <2>2, <2>3, CleanerElsewhere DEF Expired
<1>6. ASSUME NEW v \in Users, Timeout(v) PROVE Careful(u)'
  BY <1>2, <1>6, TimeoutDicts, DictsSame, CleanerElsewhere DEF Timeout
<1>7. CASE UNCHANGED vars
  BY <1>1, <1>2, <1>7, CleanerElsewhere DEF vars
<1> QED BY <1>3, <1>4, <1>5, <1>6, <1>7, ExpireCareful, ExpiredCareful DEF Cleaner

LEMMA CarefulStep ==
  ASSUME SafeInv, Types', CarefulInv, [Next]_vars
  PROVE  CarefulInv'
<1> SUFFICES ASSUME NEW u \in Users, u \notin careless' PROVE Careful(u)'
  BY DEF CarefulInv
<1>1. careless \subseteq careless'
  <2>1. \A w \in Workers : Updates(w) => careless \subseteq careless'
    BY DEF Updates, LoginStart, Text, EndLogin, Take
  <2>2. \A w \in Workers : Continue(w) => careless \subseteq careless'
    BY DEF Continue, Connect, SendCode, Accepted, NotAccepted, ReplyFails, Told, Sorry, Close,
           Error, Undo, LoginEnded
  <2>3. Cleaner => careless \subseteq careless'
    BY DEF Cleaner, Scan, Expire, Expired
  <2> QED BY <2>1, <2>2, <2>3 DEF Next, Timeout, vars
<1>2. Careful(u)
  BY <1>1 DEF CarefulInv
<1>3. ASSUME NEW w \in Workers, Updates(w) PROVE Careful(u)'
  BY <1>2, <1>3, StartCareful, TextCareful, EndLoginCareful, UpdateElsewhere DEF Updates
<1> QED BY <1>2, <1>3, ContinueCareful, CleanerCareful DEF Next

\* A user who sends one thing at a time and gets every reply leaves no
\* connected client behind: each is with the handler or the expiry task that
\* is to disconnect it, or in the entry of the user.
THEOREM NothingLeaked == Spec => []CarefulUsersLeakNothing
<1>1. Init => SafeInv /\ CarefulInv
  <2> SUFFICES ASSUME Init PROVE SafeInv /\ CarefulInv
    OBVIOUS
  <2> QED BY SafeInit DEF Init, CarefulInv, Careful, Alone, Traced, AtWork, Resting, Rest
<1>2. SafeInv /\ CarefulInv /\ [Next]_vars => SafeInv' /\ CarefulInv'
  BY SafeStep, CarefulStep DEF SafeInv
<1>3. SafeInv /\ CarefulInv => CarefulUsersLeakNothing
  BY DEF SafeInv, Types, Clients, CarefulInv, Careful, Traced, CarefulUsersLeakNothing
<1> QED BY <1>1, <1>2, <1>3, PTL DEF Spec
================================================================================
