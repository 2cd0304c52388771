---------------------------- MODULE SessionProofs ----------------------------
(***************************************************************************)
(* Theorems about the Session.  First Requests, for any callers, retries,  *)
(* thresholds, losses, repetitions and delays: every invariant of the      *)
(* module, and the refinement of RemoteCall.  Then SessionLife, for any    *)
(* number of restarts, connections and failures: one session, and nothing  *)
(* left after a disconnect.                                                *)
(***************************************************************************)
EXTENDS Requests, SessionLife, FiniteSetTheorems, SequenceTheorems, WellFoundedInduction, TLAPS

Answers == Errors \cup {"result", "badsalt"}
Issued  == 1 .. Len(messages)
Posted  == 1 .. Len(mail)

(***************************************************************************)
(* The invariant, in five parts.  Types need the bounds of the message     *)
(* numbers and of the salts.                                               *)
(***************************************************************************)
CallerTypes ==
    /\ pc \in [Callers -> {"idle", "wait", "pause", "ended"}]
    /\ retries \in [Callers -> Nat] /\ \A c \in Callers : retries[c] <= Retries[c]
    /\ outcome \in [Callers -> {"none", "result", "raised", "notice", "cancelled"}]
    /\ got \in [Callers -> 0 .. MaxMail]
    /\ {salt, server_salt} \subseteq 0 .. faults
    /\ faults \in 0 .. MaxFaults

EntryTypes ==
    /\ messages \in Seq([by : Callers, salt : Nat])
    /\ msg \in [Callers -> 0 .. Len(messages)]
    /\ DOMAIN results \subseteq Issued
    /\ \A id \in DOMAIN results : results[id] \in 0 .. Len(mail)
    /\ wire \subseteq Issued

MailTypes ==
    /\ mail \in Seq([kind : Kinds, re : Nat, salt : Nat])
    /\ Len(mail) <= MaxMail
    /\ \A i \in Posted : /\ mail[i].salt <= server_salt
                         /\ mail[i].kind \in Answers => mail[i].re \in Issued
                         /\ mail[i].kind = "info" => mail[i].re \in Posted
    /\ inbox \in Seq(Posted)

SessionTypes ==
    /\ pending_acks \subseteq Posted /\ acked \subseteq Posted /\ stored_msg_ids \subseteq Posted
    /\ flushes \in Seq([ids : SUBSET Posted, salt : Nat])
    /\ up \in BOOLEAN
    /\ dropped \subseteq Posted /\ refused \subseteq Posted
    /\ handled \in [Mail -> Nat]
    /\ stops \in Nat
    /\ produced \in [Callers -> SUBSET Posted]

TypeInv == CallerTypes /\ EntryTypes /\ MailTypes /\ SessionTypes

\* Entries of `results` and the callers they belong to.
Answered(id) ==
    /\ results[id] \in Posted
    /\ mail[results[id]].re = id
    /\ mail[results[id]].kind \in Answers

EntryInv ==
    /\ \A c \in Callers : pc[c] = "ended" <=> outcome[c] # "none"
    /\ \A c \in Callers : Awaiting(c) => msg[c] \in DOMAIN results /\ messages[msg[c]].by = c
    /\ \A id \in DOMAIN results :
         /\ msg[messages[id].by] = id
         /\ Awaiting(messages[id].by) \/ outcome[messages[id].by] = "cancelled"
         /\ results[id] # 0 => Answered(id)

\* The server answers a message once, and counts it for its sender.
AnswerInv ==
    /\ \A i \in Posted : mail[i].kind \in Answers =>
         /\ mail[i].re \notin wire
         /\ \A j \in Posted : j # i /\ mail[j].kind \in Answers => mail[j].re # mail[i].re
         /\ mail[i].kind = "result" => i \in produced[messages[mail[i].re].by]
    /\ \A c \in Callers : \A i \in produced[c] :
         mail[i].kind = "result" /\ messages[mail[i].re].by = c

\* The messages of a caller that were executed or may be yet, or that it waits for: each
\* took one of its attempts.
Live(c) ==
    {id \in Issued : /\ messages[id].by = c
                     /\ \/ id \in wire
                        \/ \E i \in produced[c] : mail[i].re = id
                        \/ Awaiting(c) /\ msg[c] = id}
Left(c) == retries[c] + (IF pc[c] \in {"idle", "pause"} THEN 1 ELSE 0)

BudgetInv == \A c \in Callers : Cardinality(Live(c)) + Left(c) <= Retries[c] + 1

\* An id that the checks refuse until the session is started again.
Known(i) == stored_msg_ids # {} /\ (i \in stored_msg_ids \/ \A j \in stored_msg_ids : i < j)

Accounted(i) == mail[i].kind = "update" => handled[i] > 0 \/ i \in refused \/ Announced(i)

\* An update whose acknowledgement is pending, on its way or with the server was
\* handled, refused or announced.
AllSettled ==
    /\ \A i \in pending_acks \cup acked : Accounted(i)
    /\ \A n \in 1 .. Len(flushes) : \A i \in flushes[n].ids : Accounted(i)
Repeats ==
    /\ \A i \in Mail : handled[i] > 0 => i \in pending_acks \cup dropped \cup acked
    /\ \A i \in Mail : handled[i] > 1 => i \in dropped \cup acked
Starts == \A i \in Mail : handled[i] <= stops + (IF Known(i) THEN 1 ELSE 0)

AckInv == AllSettled /\ Repeats /\ Starts

-----------------------------------------------------------------------------
(***************************************************************************)
(* What the helpers of the actions do.                                     *)
(***************************************************************************)
LEMMA WiderSequence ==
  ASSUME NEW S, NEW T, S \subseteq T, NEW s \in Seq(S)
  PROVE  s \in Seq(T)
OBVIOUS

LEMMA TypesSuffice == ASSUME TypeInv PROVE TypeOK
<1>1. Posted \subseteq Mail
  <2>1. Len(mail) \in Nat /\ Len(mail) <= MaxMail
    BY LenProperties DEF TypeInv, MailTypes
  <2> QED BY <2>1, BoundsAssumption DEF Posted, Mail
<1>2. inbox \in Seq(Mail)
  BY <1>1, WiderSequence DEF TypeInv, MailTypes
<1>3. flushes \in Seq([ids : SUBSET Mail, salt : Nat])
  <2>1. [ids : SUBSET Posted, salt : Nat] \subseteq [ids : SUBSET Mail, salt : Nat]
    BY <1>1
  <2> QED BY <2>1, WiderSequence DEF TypeInv, SessionTypes
<1>4. {salt, server_salt} \subseteq 0 .. MaxFaults
  BY BoundsAssumption DEF TypeInv, CallerTypes
<1>5. /\ pc \in [Callers -> {"idle", "wait", "pause", "ended"}]
      /\ retries \in [Callers -> Nat] /\ \A c \in Callers : retries[c] <= Retries[c]
      /\ outcome \in [Callers -> {"none", "result", "raised", "notice", "cancelled"}]
      /\ got \in [Callers -> 0 .. MaxMail]
  BY DEF TypeInv, CallerTypes
<1>6. /\ messages \in Seq([by : Callers, salt : Nat])
      /\ msg \in [Callers -> 0 .. Len(messages)]
      /\ DOMAIN results \subseteq 1 .. Len(messages)
      /\ \A id \in DOMAIN results : results[id] \in 0 .. Len(mail)
      /\ wire \subseteq 1 .. Len(messages)
  BY DEF TypeInv, EntryTypes, Issued
<1>7. /\ pending_acks \subseteq Mail /\ stored_msg_ids \subseteq Mail
      /\ acked \subseteq Mail /\ dropped \subseteq Mail /\ refused \subseteq Mail
      /\ up \in BOOLEAN
      /\ handled \in [Mail -> Nat]
  BY <1>1 DEF TypeInv, SessionTypes
<1>8. mail \in Seq([kind : Kinds, re : Nat, salt : Nat])
  BY DEF TypeInv, MailTypes
<1> QED BY <1>2, <1>3, <1>4, <1>5, <1>6, <1>7, <1>8 DEF TypeOK

\* Retry and Ends touch nothing of another caller.
LEMMA RetryEffect ==
  ASSUME CallerTypes, NEW c \in Callers, Retry(c)
  PROVE  /\ pc' \in [Callers -> {"idle", "wait", "pause", "ended"}]
         /\ outcome' \in [Callers -> {"none", "result", "raised", "notice", "cancelled"}]
         /\ retries' \in [Callers -> Nat]
         /\ \A d \in Callers \ {c} : pc'[d] = pc[d] /\ outcome'[d] = outcome[d] /\ retries'[d] = retries[d]
         /\ \/ pc'[c] = "ended" /\ outcome'[c] = "raised" /\ outcome' = [outcome EXCEPT ![c] = "raised"] /\ retries' = retries
            \/ pc'[c] = "pause" /\ outcome' = outcome /\ retries'[c] + 1 = retries[c]
<1>1. CASE retries[c] = 0
  BY <1>1 DEF CallerTypes, Retry, Ends
<1>2. CASE retries[c] # 0
  BY <1>2 DEF CallerTypes, Retry
<1> QED BY <1>1, <1>2

LEMMA RetryTypes ==
  ASSUME CallerTypes, NEW c \in Callers, Retry(c),
         {salt', server_salt'} \subseteq 0 .. faults', UNCHANGED <<got, faults>>
  PROVE  CallerTypes'
<1>1. retries' \in [Callers -> Nat] /\ \A d \in Callers : retries'[d] <= Retries[d]
  BY RetryEffect, RetriesAssumption DEF CallerTypes
<1> QED BY <1>1, RetryEffect DEF CallerTypes

\* send appends a message of the caller; with it in `results`, or without.
Sent(c, known, s) ==
    LET id == Len(messages) + 1
    IN  /\ messages' \in Seq([by : Callers, salt : Nat])
        /\ Len(messages') = id
        /\ messages'[id] = [by |-> c, salt |-> s]
        /\ \A i \in Issued : messages'[i] = messages[i]
        /\ Issued' = Issued \cup {id} /\ id \notin Issued
        /\ msg' \in [Callers -> 0 .. id] /\ msg'[c] = id
        /\ \A d \in Callers \ {c} : /\ msg'[d] = msg[d] /\ pc'[d] = pc[d]
                                    /\ outcome'[d] = outcome[d] /\ retries'[d] = retries[d]
        /\ \/ /\ DOMAIN results' = DOMAIN known \cup {id} /\ results'[id] = 0
              /\ \A i \in DOMAIN known : results'[i] = known[i]
              /\ wire \subseteq wire' /\ wire' \subseteq wire \cup {id}
              /\ pc' = [pc EXCEPT ![c] = "wait"]
              /\ UNCHANGED <<retries, outcome>>
           \/ results' = known /\ Retry(c) /\ wire' = wire

LEMMA SendEffect ==
  ASSUME CallerTypes, EntryTypes, NEW c \in Callers, NEW s \in Nat,
         NEW known, DOMAIN known \subseteq DOMAIN results,
         Send(c, known, s)
  PROVE  Sent(c, known, s)
<1> DEFINE id == Len(messages) + 1
<1>1. /\ messages' = Append(messages, [by |-> c, salt |-> s])
      /\ msg' = [msg EXCEPT ![c] = id]
  BY DEF Send
<1>2. messages \in Seq([by : Callers, salt : Nat]) /\ [by |-> c, salt |-> s] \in [by : Callers, salt : Nat]
  BY DEF EntryTypes
<1>3. Len(messages) \in Nat /\ DOMAIN messages = Issued
  BY <1>2, LenProperties DEF Issued
<1>4. /\ messages' \in Seq([by : Callers, salt : Nat])
      /\ Len(messages') = id
      /\ messages'[id] = [by |-> c, salt |-> s]
      /\ \A i \in Issued : messages'[i] = messages[i]
  BY <1>1, <1>2, <1>3, AppendProperties DEF Issued
<1>5. Issued' = Issued \cup {id} /\ id \notin Issued
  BY <1>3, <1>4 DEF Issued
<1>6. msg' \in [Callers -> 0 .. id] /\ msg'[c] = id /\ \A d \in Callers \ {c} : msg'[d] = msg[d]
  BY <1>1, <1>3 DEF EntryTypes
<1>7. CASE /\ results' = [i \in DOMAIN known \union {id} |-> IF i = id THEN 0 ELSE known[i]]
           /\ wire' = IF up THEN wire \union {id} ELSE wire
           /\ pc' = [pc EXCEPT ![c] = "wait"]
           /\ UNCHANGED <<retries, outcome>>
  <2>1. id \notin DOMAIN known
    BY <1>5 DEF EntryTypes
  <2>2. /\ DOMAIN results' = DOMAIN known \cup {id} /\ results'[id] = 0
        /\ \A i \in DOMAIN known : results'[i] = known[i]
    BY <1>7, <2>1
  <2>3. wire \subseteq wire' /\ wire' \subseteq wire \cup {id}
    BY <1>7
  <2>4. \A d \in Callers \ {c} : pc'[d] = pc[d] /\ outcome'[d] = outcome[d] /\ retries'[d] = retries[d]
    BY <1>7 DEF CallerTypes
  <2> HIDE DEF id
  <2> QED BY <1>4, <1>5, <1>6, <1>7, <2>2, <2>3, <2>4 DEF id, Sent
<1>8. CASE results' = known /\ Retry(c) /\ wire' = wire
  <2>1. \A d \in Callers \ {c} : pc'[d] = pc[d] /\ outcome'[d] = outcome[d] /\ retries'[d] = retries[d]
    BY <1>8, RetryEffect
  <2> HIDE DEF id
  <2> QED BY <1>4, <1>5, <1>6, <1>8, <2>1 DEF id, Sent
<1> QED BY <1>7, <1>8 DEF Send

LEMMA WithoutEffect ==
  ASSUME NEW id
  PROVE  /\ DOMAIN Without(id) = DOMAIN results \ {id}
         /\ \A i \in DOMAIN results \ {id} : Without(id)[i] = results[i]
BY DEF Without, Restrict

\* A posted message is the last of mail.
LEMMA PostEffect ==
  ASSUME MailTypes, CallerTypes, NEW kind \in Kinds, NEW re \in Nat, Post(kind, re)
  PROVE  LET n == Len(mail) + 1
         IN  /\ mail' \in Seq([kind : Kinds, re : Nat, salt : Nat])
             /\ Len(mail') = n /\ n <= MaxMail
             /\ mail'[n].kind = kind /\ mail'[n].re = re /\ mail'[n].salt <= server_salt
             /\ \A i \in Posted : mail'[i] = mail[i]
             /\ Posted' = Posted \cup {n} /\ n \notin Posted
             /\ inbox' \in Seq(Posted')
<1> DEFINE n == Len(mail) + 1
           m == [kind |-> kind, re |-> re, salt |-> IF kind = "badsalt" THEN server_salt ELSE 0]
<1>1. /\ Len(mail) < MaxMail
      /\ mail' = Append(mail, m)
      /\ inbox' = IF up THEN Append(inbox, n) ELSE inbox
  BY DEF Post
<1>2. mail \in Seq([kind : Kinds, re : Nat, salt : Nat]) /\ inbox \in Seq(Posted)
  BY DEF MailTypes
<1>3. server_salt \in Nat
  BY BoundsAssumption DEF CallerTypes
<1>4. m \in [kind : Kinds, re : Nat, salt : Nat] /\ m.kind = kind /\ m.re = re /\ m.salt <= server_salt
  BY <1>3
<1> HIDE DEF m
<1>5. Len(mail) \in Nat /\ DOMAIN mail = Posted
  BY <1>2, LenProperties DEF Posted
<1>6. /\ mail' \in Seq([kind : Kinds, re : Nat, salt : Nat])
      /\ Len(mail') = n
      /\ mail'[n] = m
      /\ \A i \in Posted : mail'[i] = mail[i]
  BY <1>1, <1>2, <1>4, <1>5, AppendProperties DEF Posted
<1>7. Posted' = Posted \cup {n} /\ n \notin Posted
  BY <1>5, <1>6 DEF Posted
<1>8. n <= MaxMail
  BY <1>1, <1>5, BoundsAssumption
<1>9. inbox' \in Seq(Posted')
  <2>1. inbox \in Seq(Posted') /\ n \in Posted'
    <3> HIDE DEF n
    <3> QED BY <1>2, <1>7
  <2>2. Append(inbox, n) \in Seq(Posted')
    BY <2>1, AppendProperties
  <2> QED BY <1>1, <2>1, <2>2
<1> HIDE DEF n
<1> QED BY <1>4, <1>6, <1>7, <1>8, <1>9 DEF n

-----------------------------------------------------------------------------
(***************************************************************************)
(* Types.                                                                  *)
(***************************************************************************)
\* In the initial state nothing was sent.
LEMMA InitTypes == Init => TypeInv
<1> SUFFICES ASSUME Init PROVE TypeInv
  OBVIOUS
<1>1. CallerTypes
  BY RetriesAssumption, BoundsAssumption DEF Init, CallerTypes
<1>2. EntryTypes
  BY DEF Init, EntryTypes, Issued
<1>3. MailTypes
  BY BoundsAssumption DEF Init, MailTypes, Posted
<1>4. SessionTypes
  BY DEF Init, SessionTypes, Posted, Mail
<1> QED BY <1>1, <1>2, <1>3, <1>4 DEF TypeInv

\* What a caller leaves alone.
LEMMA CallerLeaves ==
  ASSUME NEW c \in Callers, Caller(c)
  PROVE  UNCHANGED <<ids, flushes, up, inbox, server, past, produced>>
BY DEF Caller, Issue, TimeOut, TimesOut, Cancel, TakeResult, TakeError, TakeSalt

LEMMA AnswerTypes ==
  ASSUME EntryTypes, MailTypes, CallerTypes, NEW c \in Callers, HasValue(c), msg[c] \in DOMAIN results
  PROVE  results[msg[c]] \in Posted /\ mail[results[msg[c]]].salt \in 0 .. server_salt
<1>1. results[msg[c]] \in Posted
  BY DEF HasValue, EntryTypes, Posted
<1>2. mail[results[msg[c]]] \in [kind : Kinds, re : Nat, salt : Nat]
  BY <1>1, ElementOfSeq DEF MailTypes, Posted
<1>3. server_salt \in Nat /\ mail[results[msg[c]]].salt \in Nat /\ mail[results[msg[c]]].salt <= server_salt
  BY <1>1, <1>2, BoundsAssumption DEF MailTypes, CallerTypes
<1> QED BY <1>1, <1>3

LEMMA SentTypes ==
  ASSUME TypeInv, NEW c \in Callers, NEW s,
         NEW known, DOMAIN known \subseteq DOMAIN results, \A i \in DOMAIN known : known[i] = results[i],
         Sent(c, known, s),
         {salt', server_salt'} \subseteq 0 .. faults', UNCHANGED <<got, faults>>
  PROVE  /\ CallerTypes'
         /\ messages' \in Seq([by : Callers, salt : Nat])
         /\ msg' \in [Callers -> 0 .. Len(messages')]
         /\ DOMAIN results' \subseteq Issued'
         /\ \A id \in DOMAIN results' : results'[id] \in 0 .. Len(mail)
         /\ wire' \subseteq Issued'
         /\ Issued \subseteq Issued'
<1> DEFINE id == Len(messages) + 1
<1>1. /\ messages' \in Seq([by : Callers, salt : Nat])
      /\ Len(messages') = id
      /\ Issued' = Issued \cup {id}
      /\ msg' \in [Callers -> 0 .. id]
      /\ \/ /\ DOMAIN results' = DOMAIN known \cup {id} /\ results'[id] = 0
            /\ \A i \in DOMAIN known : results'[i] = known[i]
            /\ wire' \subseteq wire \cup {id}
            /\ pc' = [pc EXCEPT ![c] = "wait"]
            /\ UNCHANGED <<retries, outcome>>
         \/ results' = known /\ Retry(c) /\ wire' = wire
  BY DEF Sent
<1> HIDE DEF id
<1>2. CallerTypes'
  <2>1. CASE pc' = [pc EXCEPT ![c] = "wait"] /\ UNCHANGED <<retries, outcome>>
    BY <2>1 DEF CallerTypes, TypeInv
  <2>2. CASE Retry(c)
    BY <2>2, RetryTypes DEF TypeInv
  <2> QED BY <1>1, <2>1, <2>2
<1>3. Len(mail) \in Nat
  BY LenProperties DEF MailTypes, TypeInv
<1>4. DOMAIN known \subseteq Issued /\ wire \subseteq Issued /\ \A i \in DOMAIN known : known[i] \in 0 .. Len(mail)
  BY DEF EntryTypes, TypeInv
<1>5. DOMAIN results' \subseteq Issued' /\ wire' \subseteq Issued' /\ \A i \in DOMAIN results' : results'[i] \in 0 .. Len(mail)
  BY <1>1, <1>3, <1>4
<1> QED BY <1>1, <1>2, <1>5

LEMMA CallerKeepsTypes ==
  ASSUME TypeInv, NEW c \in Callers, Caller(c), Awaiting(c) => msg[c] \in DOMAIN results
  PROVE  TypeInv'
<1> USE DEF TypeInv
<1>1. /\ CallerTypes'
      /\ messages' \in Seq([by : Callers, salt : Nat])
      /\ msg' \in [Callers -> 0 .. Len(messages')]
      /\ DOMAIN results' \subseteq Issued'
      /\ \A id \in DOMAIN results' : results'[id] \in 0 .. Len(mail)
      /\ wire' \subseteq Issued'
      /\ Issued \subseteq Issued'
  <2>1. CASE Issue(c)
    <3>1. salt \in Nat /\ Send(c, results, salt) /\ UNCHANGED <<got, salt, server_salt, faults>>
      BY <2>1, BoundsAssumption DEF Issue, CallerTypes, server
    <3>2. Sent(c, results, salt)
      BY <3>1, SendEffect
    <3>3. {salt', server_salt'} \subseteq 0 .. faults'
      BY <3>1 DEF CallerTypes
    <3> QED BY <3>1, <3>2, <3>3, SentTypes
  <2>2. CASE TimeOut(c)
    <3>1. results' = Without(msg[c]) /\ Retry(c) /\ UNCHANGED <<msg, got, messages, salt, server_salt, wire, faults>>
      BY <2>2 DEF TimeOut, TimesOut, server
    <3>2. CallerTypes'
      BY <3>1, RetryTypes DEF CallerTypes
    <3> QED BY <3>1, <3>2, WithoutEffect DEF EntryTypes, Issued
  <2>3. CASE Cancel(c)
    <3>1. faults' = faults + 1 /\ faults < MaxFaults /\ UNCHANGED <<salt, server_salt, retries, got, msg, messages, results, wire>>
      BY <2>3 DEF Cancel, Fault, server
    <3>2. pc' = [pc EXCEPT ![c] = "ended"] /\ outcome' = [outcome EXCEPT ![c] = "cancelled"]
      BY <2>3 DEF Cancel, Ends
    <3>3. {salt', server_salt'} \subseteq 0 .. faults' /\ faults' \in 0 .. MaxFaults
      BY <3>1, BoundsAssumption DEF CallerTypes
    <3>4. CallerTypes'
      BY <3>1, <3>2, <3>3 DEF CallerTypes
    <3> QED BY <3>1, <3>4 DEF EntryTypes, Issued
  <2>4. CASE TakeResult(c)
    <3>1. results' = Without(msg[c]) /\ UNCHANGED <<retries, msg, messages, salt, server_salt, wire, faults>>
      BY <2>4 DEF TakeResult, server
    <3>2. results[msg[c]] \in Posted /\ Posted \subseteq 0 .. MaxMail
      <4>1. results[msg[c]] \in Posted
        BY <2>4, AnswerTypes DEF TakeResult, HasValue, Awaiting
      <4>2. Len(mail) \in Nat /\ Len(mail) <= MaxMail
        BY LenProperties DEF MailTypes
      <4> QED BY <4>1, <4>2, BoundsAssumption DEF Posted
    <3>3. CallerTypes'
      BY <2>4, <3>1, <3>2 DEF TakeResult, Ends, CallerTypes
    <3> QED BY <3>1, <3>3, WithoutEffect DEF EntryTypes, Issued
  <2>5. CASE TakeError(c)
    <3>1. results' = Without(msg[c]) /\ UNCHANGED <<msg, got, messages, salt, server_salt, wire, faults>>
      BY <2>5 DEF TakeError, server
    <3>2. CallerTypes'
      <4>1. CASE Retry(c)
        BY <3>1, <4>1, RetryTypes DEF CallerTypes
      <4>2. CASE ~Retry(c)
        BY <2>5, <3>1, <4>2 DEF TakeError, CallerTypes, Ends
      <4> QED BY <4>1, <4>2
    <3> QED BY <3>1, <3>2, WithoutEffect DEF EntryTypes, Issued
  <2>6. CASE TakeSalt(c)
    <3>1. salt' \in 0 .. server_salt /\ salt' \in Nat
      BY <2>6, AnswerTypes DEF TakeSalt, HasValue, Awaiting
    <3>2. Send(c, Without(msg[c]), salt') /\ UNCHANGED <<got, server_salt, faults>>
      BY <2>6 DEF TakeSalt, server
    <3> DEFINE known == Without(msg[c])
    <3>3. DOMAIN known \subseteq DOMAIN results /\ \A i \in DOMAIN known : known[i] = results[i]
      BY WithoutEffect
    <3> HIDE DEF known
    <3>4. Send(c, known, salt')
      BY <3>2 DEF known
    <3>5. Sent(c, known, salt')
      BY <3>1, <3>3, <3>4, SendEffect
    <3>6. {salt', server_salt'} \subseteq 0 .. faults'
      BY <3>1, <3>2, BoundsAssumption DEF CallerTypes
    <3> QED BY <3>2, <3>3, <3>5, <3>6, SentTypes
  <2> QED BY <2>1, <2>2, <2>3, <2>4, <2>5, <2>6 DEF Caller
<1>2. UNCHANGED <<ids, flushes, up, inbox, server, past, produced>>
  BY CallerLeaves
<1>3. EntryTypes'
  BY <1>1, <1>2 DEF EntryTypes, server
<1>4. MailTypes'
  BY <1>1, <1>2 DEF MailTypes, Posted, server
<1>5. SessionTypes'
  BY <1>2 DEF SessionTypes, ids, server, past, Posted
<1> QED BY <1>1, <1>3, <1>4, <1>5

\* What a new message of the server leaves alone, whatever it is.
LEMMA PostKeepsTypes ==
  ASSUME TypeInv, NEW kind \in Kinds, NEW re \in Nat, Post(kind, re),
         kind \in Answers => re \in Issued, kind = "info" => re \in Posted,
         UNCHANGED <<messages, server_salt>>
  PROVE  MailTypes' /\ Posted \subseteq Posted' /\ Len(mail) <= Len(mail')
<1> DEFINE n == Len(mail) + 1
<1>1. /\ mail' \in Seq([kind : Kinds, re : Nat, salt : Nat])
      /\ Len(mail') = n /\ n <= MaxMail
      /\ mail'[n].kind = kind /\ mail'[n].re = re /\ mail'[n].salt <= server_salt
      /\ \A i \in Posted : mail'[i] = mail[i]
      /\ Posted' = Posted \cup {n} /\ n \notin Posted
      /\ inbox' \in Seq(Posted')
  BY PostEffect DEF TypeInv
<1>2. Len(mail) <= n
  BY LenProperties DEF TypeInv, MailTypes
<1> HIDE DEF n
<1>3. Issued' = Issued
  BY DEF Issued
<1>4. \A i \in Posted' : /\ mail'[i].salt <= server_salt
                         /\ mail'[i].kind \in Answers => mail'[i].re \in Issued
                         /\ mail'[i].kind = "info" => mail'[i].re \in Posted'
  BY <1>1 DEF TypeInv, MailTypes
<1> QED BY <1>1, <1>2, <1>3, <1>4 DEF MailTypes

LEMMA NetworkKeepsTypes ==
  ASSUME TypeInv, Network
  PROVE  TypeInv'
<1> USE DEF TypeInv
<1>1. UNCHANGED <<caller, messages, results, salt, ids, flushes, acked, past>>
  BY DEF Network, Push, NewSalt, Lose, Execute, Resend, server
<1>2. /\ faults' \in 0 .. MaxFaults /\ faults <= faults'
      /\ server_salt' \in 0 .. faults' /\ server_salt <= server_salt'
  <2>1. \/ UNCHANGED <<faults, server_salt>>
        \/ faults' = faults + 1 /\ faults < MaxFaults /\ server_salt' \in {server_salt, server_salt + 1}
    BY DEF Network, Push, NewSalt, Lose, Execute, Resend, server, Fault
  <2> QED BY <2>1, BoundsAssumption DEF CallerTypes
<1>3. CallerTypes'
  <2>1. salt' \in 0 .. faults'
    BY <1>1, <1>2, BoundsAssumption DEF CallerTypes
  <2>2. UNCHANGED <<pc, retries, outcome, got>>
    BY <1>1 DEF caller
  <2> QED BY <1>2, <2>1, <2>2 DEF CallerTypes
<1>4. wire' \subseteq wire /\ up' \in BOOLEAN
  BY DEF Network, Push, NewSalt, Lose, Break, Execute, Resend, SessionTypes
<1> DEFINE Mailed == /\ MailTypes' /\ Posted \subseteq Posted' /\ Len(mail) <= Len(mail')
                     /\ produced' \in [Callers -> SUBSET Posted']
<1>5. Mailed
  <2>0. Len(mail) \in Nat
    BY LenProperties DEF MailTypes
  <2>1. CASE Push
    <3>1. Post("update", 0) /\ UNCHANGED <<messages, server_salt, produced>>
      BY <2>1 DEF Push
    <3>2. MailTypes' /\ Posted \subseteq Posted' /\ Len(mail) <= Len(mail')
      BY <3>1, PostKeepsTypes DEF Kinds, Answers, Errors
    <3> QED BY <3>1, <3>2 DEF SessionTypes
  <2>2. CASE NewSalt
    <3>1. UNCHANGED <<messages, mail, inbox, produced>>
      BY <2>2 DEF NewSalt
    <3>2. server_salt' = server_salt + 1 /\ server_salt \in Nat
      BY <2>2, BoundsAssumption DEF NewSalt, CallerTypes
    <3>3. \A i \in Posted : mail[i].salt <= server_salt'
      <4> SUFFICES ASSUME NEW i \in Posted PROVE mail[i].salt <= server_salt'
        OBVIOUS
      <4>1. mail[i].salt \in Nat
        <5>1. mail[i] \in [kind : Kinds, re : Nat, salt : Nat]
          BY ElementOfSeq DEF Posted, MailTypes
        <5> QED BY <5>1
      <4>2. mail[i].salt <= server_salt
        BY DEF MailTypes
      <4> QED BY <3>2, <4>1, <4>2
    <3> QED BY <2>0, <3>1, <3>3 DEF MailTypes, Posted, Issued, SessionTypes
  <2>3. CASE Lose
    <3>1. PICK n \in 0 .. Len(inbox) : inbox' = SubSeq(inbox, 1, n)
      BY <2>3 DEF Lose, Break
    <3>2. inbox' \in Seq(Posted)
      BY <3>1, SubSeqProperties DEF MailTypes
    <3>3. UNCHANGED <<mail, server_salt, messages, produced>>
      BY <2>3 DEF Lose, server
    <3> QED BY <2>0, <3>2, <3>3 DEF MailTypes, Posted, Issued, SessionTypes
  <2>4. ASSUME NEW id \in wire, Execute(id) PROVE Mailed
    <3>1. id \in Issued /\ id \in Nat
      BY DEF EntryTypes, Issued
    <3>2. PICK kind \in Answers : Post(kind, id)
      BY <2>4 DEF Execute, Answers
    <3>3. UNCHANGED <<messages, server_salt>>
      BY <2>4 DEF Execute
    <3>4. MailTypes' /\ Posted \subseteq Posted' /\ Len(mail) <= Len(mail')
      BY <3>1, <3>2, <3>3, PostKeepsTypes DEF Kinds, Answers, Errors
    <3>5. Len(mail) + 1 \in Posted'
      BY <3>1, <3>2, PostEffect DEF Kinds, Answers, Errors
    <3>6. produced' = produced \/ produced' = [produced EXCEPT ![messages[id].by] = @ \union {Len(mail) + 1}]
      BY <2>4 DEF Execute
    <3> QED BY <3>4, <3>5, <3>6 DEF SessionTypes
  <2>5. ASSUME NEW i \in 1 .. Len(mail), Resend(i) PROVE Mailed
    <3>1. UNCHANGED <<messages, server_salt, produced>>
      BY <2>5 DEF Resend
    <3>2. CASE Post("info", i)
      <4>1. i \in Posted /\ i \in Nat
        BY DEF Posted
      <4> QED BY <3>1, <3>2, <4>1, PostKeepsTypes DEF Kinds, Answers, Errors, SessionTypes
    <3>3. CASE inbox' = Append(inbox, i) /\ UNCHANGED mail
      <4>1. inbox' \in Seq(Posted)
        BY <3>3, AppendProperties DEF MailTypes, Posted
      <4> QED BY <2>0, <3>1, <3>3, <4>1 DEF MailTypes, Posted, Issued, SessionTypes
    <3> QED BY <2>5, <3>2, <3>3 DEF Resend
  <2> QED BY <2>1, <2>2, <2>3, <2>4, <2>5 DEF Network
<1>6. EntryTypes'
  <2>1. Issued' = Issued /\ Len(messages') = Len(messages)
    BY <1>1 DEF Issued
  <2>2. Len(mail) \in Nat /\ Len(mail') \in Nat
    BY <1>5, LenProperties DEF MailTypes
  <2>3. UNCHANGED <<msg, messages, results>>
    BY <1>1 DEF caller
  <2> QED BY <1>4, <1>5, <2>1, <2>2, <2>3 DEF EntryTypes
<1>7. SessionTypes'
  <2>1. flushes' \in Seq([ids : SUBSET Posted', salt : Nat])
    <3>1. [ids : SUBSET Posted, salt : Nat] \subseteq [ids : SUBSET Posted', salt : Nat]
      BY <1>5
    <3> QED BY <1>1, <3>1, WiderSequence DEF SessionTypes
  <2> QED BY <1>1, <1>4, <1>5, <2>1 DEF SessionTypes, ids, past
<1> QED BY <1>3, <1>5, <1>6, <1>7

\* The first message of the inbox, and what follows it.
LEMMA HeadAndTail ==
  ASSUME MailTypes, inbox # <<>>
  PROVE  Head(inbox) \in Posted /\ Tail(inbox) \in Seq(Posted)
BY HeadTailProperties DEF MailTypes

LEMMA FlushKeepsTypes ==
  ASSUME TypeInv, NEW pending \in SUBSET Posted, NEW last, Flush(pending, last)
  PROVE  flushes' \in Seq([ids : SUBSET Posted, salt : Nat]) /\ pending_acks' \subseteq Posted
<1>1. [ids |-> pending, salt |-> salt] \in [ids : SUBSET Posted, salt : Nat]
  BY BoundsAssumption DEF TypeInv, CallerTypes
<1>2. flushes \in Seq([ids : SUBSET Posted, salt : Nat])
  BY DEF TypeInv, SessionTypes
<1>3. Append(flushes, [ids |-> pending, salt |-> salt]) \in Seq([ids : SUBSET Posted, salt : Nat])
  BY <1>1, <1>2, AppendProperties
<1> QED BY <1>2, <1>3 DEF Flush

LEMMA SessionKeepsTypes ==
  ASSUME TypeInv, Session
  PROVE  TypeInv'
<1> USE DEF TypeInv
<1>1. UNCHANGED <<caller, messages, salt, wire, mail, server_salt, produced, faults>>
  BY DEF Session, Restart, RestartWith, Receive, Discard, SkipAgain, Accept, AcceptIf, AckWritten, Clear, AckFails, server
<1>2. CallerTypes'
  BY <1>1 DEF CallerTypes, caller
<1>3. UNCHANGED <<Posted, Issued, msg>>
  BY <1>1 DEF Posted, Issued, caller
<1> DEFINE Received ==
          /\ inbox' \in Seq(Posted)
          /\ DOMAIN results' = DOMAIN results
          /\ \A id \in DOMAIN results : results'[id] \in 0 .. Len(mail)
          /\ pending_acks' \subseteq Posted /\ acked' \subseteq Posted /\ stored_msg_ids' \subseteq Posted
          /\ flushes' \in Seq([ids : SUBSET Posted, salt : Nat])
          /\ up' \in BOOLEAN
          /\ dropped' \subseteq Posted /\ refused' \subseteq Posted
          /\ handled' \in [Mail -> Nat]
          /\ stops' \in Nat
<1>4. Received
  <2> USE DEF SessionTypes, ids, past, server
  <2>1. CASE Restart
    BY <2>1 DEF Restart, RestartWith, MailTypes, EntryTypes
  <2>2. CASE AckWritten
    <3>1. flushes # <<>>
      BY <2>2 DEF AckWritten
    <3>2. Head(flushes) \in [ids : SUBSET Posted, salt : Nat] /\ Tail(flushes) \in Seq([ids : SUBSET Posted, salt : Nat])
      BY <3>1, HeadTailProperties
    <3>3. PICK sent \in SUBSET Posted : Clear(sent)
      BY <2>2, <3>2 DEF AckWritten
    <3>4. UNCHANGED <<results, stored_msg_ids, up, inbox, handled, refused, stops>>
      BY <2>2 DEF AckWritten
    <3> QED BY <3>2, <3>3, <3>4 DEF Clear, MailTypes, EntryTypes
  <2>3. CASE AckFails
    <3>1. Tail(flushes) \in Seq([ids : SUBSET Posted, salt : Nat])
      BY <2>3, HeadTailProperties DEF AckFails
    <3> QED BY <2>3, <3>1 DEF AckFails, MailTypes, EntryTypes
  <2>4. CASE Receive
    <3> DEFINE i == Head(inbox)
    <3>1. i \in Posted /\ Tail(inbox) \in Seq(Posted) /\ inbox # <<>>
      BY <2>4, HeadAndTail DEF Receive
    <3>2. Trimmed \subseteq Posted
      BY DEF Trimmed
    <3>3. CASE Discard
      <4>1. pending_acks' \subseteq Posted
        BY <3>1, <3>3 DEF Discard, WithAck
      <4>2. refused' \subseteq Posted /\ stored_msg_ids' = Trimmed
        BY <3>1, <3>3 DEF Discard
      <4>3. PICK a \in 2 .. Len(inbox) + 1, b \in 1 .. Len(inbox) : Break(SubSeq(inbox, a, b))
        BY <3>3 DEF Discard
      <4>4. inbox' \in Seq(Posted) /\ up' = FALSE
        <5>1. inbox \in Seq(Posted) /\ Len(inbox) \in Nat
          BY LenProperties DEF MailTypes
        <5>2. a \in Nat /\ b \in Nat /\ a >= 1 /\ b <= Len(inbox)
          BY <5>1
        <5>3. \A k \in a .. b : inbox[k] \in Posted
          BY <5>1, <5>2, ElementOfSeq
        <5>4. SubSeq(inbox, a, b) \in Seq(Posted)
          BY <5>1, <5>2, <5>3, SubSeqProperties
        <5> QED BY <4>3, <5>4 DEF Break
      <4>5. UNCHANGED <<results, flushes, acked, handled, dropped, stops>>
        BY <3>3 DEF Discard
      <4> QED BY <3>2, <4>1, <4>2, <4>4, <4>5 DEF EntryTypes
    <3>4. ASSUME NEW last, SkipAgain(last) PROVE Received
      <4>1. Flush(pending_acks, last) /\ inbox' = Tail(inbox) /\ UNCHANGED <<results, stored_msg_ids, up, acked, past>>
        BY <3>4 DEF SkipAgain
      <4>2. flushes' \in Seq([ids : SUBSET Posted, salt : Nat]) /\ pending_acks' \subseteq Posted
        BY <4>1, FlushKeepsTypes
      <4> QED BY <3>1, <4>1, <4>2 DEF EntryTypes
    <3>5. ASSUME NEW last, Accept(last) PROVE Received
      <4>1. PICK pending \in SUBSET Posted : Flush(pending, last)
        <5>1. mail[i].kind = "info" => mail[i].re \in Posted
          BY <3>1 DEF MailTypes
        <5>2. (IF mail[i].kind = "info" THEN pending_acks \union {mail[i].re} ELSE WithAck(i)) \in SUBSET Posted
          BY <3>1, <5>1 DEF WithAck
        <5>3. Flush(IF mail[i].kind = "info" THEN pending_acks \union {mail[i].re} ELSE WithAck(i), last)
          BY <3>5 DEF Accept, AcceptIf
        <5> HIDE DEF i
        <5> QED BY <5>2, <5>3
      <4>2. flushes' \in Seq([ids : SUBSET Posted, salt : Nat]) /\ pending_acks' \subseteq Posted
        BY <4>1, FlushKeepsTypes
      <4>3. inbox' = Tail(inbox) /\ stored_msg_ids' = Trimmed \union {i} /\ UNCHANGED <<up, acked, dropped, refused, stops>>
        BY <3>5 DEF Accept, AcceptIf
      <4>4. handled' = handled \/ handled' = [handled EXCEPT ![i] = @ + 1]
        BY <3>5 DEF Accept, AcceptIf
      <4>5. handled' \in [Mail -> Nat]
        BY <4>4
      <4>6. results' = results \/ results' = [results EXCEPT ![mail[i].re] = i]
        BY <3>5 DEF Accept, AcceptIf
      <4>7. i \in 0 .. Len(mail)
        BY <3>1 DEF Posted
      <4> HIDE DEF i
      <4>8. DOMAIN results' = DOMAIN results /\ \A id \in DOMAIN results : results'[id] \in 0 .. Len(mail)
        BY <4>6, <4>7 DEF EntryTypes
      <4> QED BY <3>1, <3>2, <4>2, <4>3, <4>5, <4>8
    <3> QED BY <2>4, <3>3, <3>4, <3>5 DEF Receive
  <2> QED BY <2>1, <2>2, <2>3, <2>4 DEF Session
<1>5. EntryTypes'
  BY <1>1, <1>3, <1>4 DEF EntryTypes
<1>6. MailTypes'
  BY <1>1, <1>3, <1>4 DEF MailTypes
<1>7. SessionTypes'
  BY <1>1, <1>3, <1>4 DEF SessionTypes
<1> QED BY <1>2, <1>5, <1>6, <1>7

-----------------------------------------------------------------------------
(***************************************************************************)
(* Entries of `results`.                                                   *)
(***************************************************************************)
\* Callers' messages and mail only grow.
LEMMA MailGrows ==
  ASSUME TypeInv, Network
  PROVE  Posted \subseteq Posted' /\ \A i \in Posted : mail'[i] = mail[i]
<1> USE DEF TypeInv
<1>1. CASE UNCHANGED mail
  BY <1>1 DEF Posted
<1>2. ASSUME NEW kind \in Kinds, NEW re \in Nat, Post(kind, re)
      PROVE  Posted \subseteq Posted' /\ \A i \in Posted : mail'[i] = mail[i]
  BY <1>2, PostEffect
<1>3. CASE Push
  BY <1>2, <1>3 DEF Push, Kinds
<1>4. ASSUME NEW id \in wire, Execute(id)
      PROVE  Posted \subseteq Posted' /\ \A i \in Posted : mail'[i] = mail[i]
  <2>1. id \in Nat
    BY DEF EntryTypes, Issued
  <2>2. PICK kind \in Kinds : Post(kind, id)
    BY <1>4 DEF Execute, Kinds
  <2> QED BY <1>2, <2>1, <2>2
<1>5. ASSUME NEW i \in 1 .. Len(mail), Resend(i), Post("info", i)
      PROVE  Posted \subseteq Posted' /\ \A j \in Posted : mail'[j] = mail[j]
  BY <1>2, <1>5 DEF Kinds
<1> QED BY <1>1, <1>3, <1>4, <1>5 DEF Network, NewSalt, Lose, Resend, server

\* The state after a step of c that leaves no old entry of c, and the entry of
\* a new message if c waits for it.
LEMMA EntriesAfter ==
  ASSUME TypeInv, EntryInv, NEW c \in Callers,
         NEW known, DOMAIN known \subseteq DOMAIN results,
         \A i \in DOMAIN known : known[i] = results[i] /\ messages[i].by # c,
         \A i \in DOMAIN results : messages[i].by = c \/ i \in DOMAIN known,
         UNCHANGED mail,
         \A i \in Issued : messages'[i] = messages[i],
         \A d \in Callers \ {c} : msg'[d] = msg[d] /\ pc'[d] = pc[d] /\ outcome'[d] = outcome[d],
         pc'[c] = "ended" <=> outcome'[c] # "none",
         \A i \in DOMAIN known : results'[i] = known[i],
         IF pc'[c] = "wait"
         THEN /\ DOMAIN results' = DOMAIN known \cup {msg'[c]}
              /\ results'[msg'[c]] = 0
              /\ messages'[msg'[c]].by = c
         ELSE DOMAIN results' = DOMAIN known
  PROVE  EntryInv'
<1>1. \A d \in Callers : pc'[d] = "ended" <=> outcome'[d] # "none"
  BY DEF EntryInv
<1>2. \A i \in DOMAIN known : i \in Issued /\ messages[i].by \in Callers \ {c}
  <2> SUFFICES ASSUME NEW i \in DOMAIN known PROVE i \in Issued /\ messages[i].by \in Callers
    OBVIOUS
  <2>1. i \in Issued
    BY DEF TypeInv, EntryTypes
  <2>2. messages[i] \in [by : Callers, salt : Nat]
    BY <2>1, ElementOfSeq DEF TypeInv, EntryTypes, Issued
  <2> QED BY <2>1, <2>2
<1>3. \A d \in Callers : pc'[d] = "wait" => msg'[d] \in DOMAIN results' /\ messages'[msg'[d]].by = d
  <2> SUFFICES ASSUME NEW d \in Callers \ {c}, pc'[d] = "wait"
               PROVE  msg'[d] \in DOMAIN results' /\ messages'[msg'[d]].by = d
    OBVIOUS
  <2>1. msg[d] \in DOMAIN results /\ messages[msg[d]].by = d
    BY DEF EntryInv, Awaiting
  <2>2. msg[d] \in Issued
    BY <2>1 DEF TypeInv, EntryTypes
  <2> QED BY <2>1, <2>2
<1>4. \A id \in DOMAIN results' :
        /\ msg'[messages'[id].by] = id
        /\ pc'[messages'[id].by] = "wait" \/ outcome'[messages'[id].by] = "cancelled"
        /\ results'[id] # 0 => Answered(id)'
  <2> SUFFICES ASSUME NEW id \in DOMAIN known
               PROVE  /\ msg'[messages'[id].by] = id
                      /\ pc'[messages'[id].by] = "wait" \/ outcome'[messages'[id].by] = "cancelled"
                      /\ results'[id] # 0 => Answered(id)'
    OBVIOUS
  <2>1. messages'[id] = messages[id] /\ messages[id].by \in Callers \ {c}
    BY <1>2
  <2>2. /\ msg[messages[id].by] = id
        /\ pc[messages[id].by] = "wait" \/ outcome[messages[id].by] = "cancelled"
        /\ results[id] # 0 => Answered(id)
    BY DEF EntryInv, Awaiting
  <2>3. results'[id] # 0 => Answered(id)'
    BY <2>2 DEF Answered, Posted
  <2> QED BY <2>1, <2>2, <2>3
<1> QED BY <1>1, <1>3, <1>4 DEF EntryInv, Awaiting

\* The entry of a caller is under its current message.
LEMMA OwnEntry ==
  ASSUME EntryInv, NEW c \in Callers, NEW i \in DOMAIN results, messages[i].by = c
  PROVE  i = msg[c] /\ (pc[c] = "wait" \/ outcome[c] = "cancelled")
BY DEF EntryInv, Awaiting

LEMMA SentEntries ==
  ASSUME TypeInv, EntryInv, NEW c \in Callers, NEW s,
         NEW known, DOMAIN known \subseteq DOMAIN results,
         \A i \in DOMAIN known : known[i] = results[i] /\ messages[i].by # c,
         \A i \in DOMAIN results : messages[i].by = c \/ i \in DOMAIN known,
         Sent(c, known, s), UNCHANGED mail, outcome[c] = "none"
  PROVE  EntryInv'
<1> DEFINE id == Len(messages) + 1
<1>1. /\ messages'[id].by = c
      /\ \A i \in Issued : messages'[i] = messages[i]
      /\ msg'[c] = id
      /\ \A d \in Callers \ {c} : msg'[d] = msg[d] /\ pc'[d] = pc[d] /\ outcome'[d] = outcome[d]
      /\ \/ /\ DOMAIN results' = DOMAIN known \cup {id} /\ results'[id] = 0
            /\ \A i \in DOMAIN known : results'[i] = known[i]
            /\ pc' = [pc EXCEPT ![c] = "wait"]
            /\ UNCHANGED outcome
         \/ results' = known /\ Retry(c)
  BY DEF Sent
<1> HIDE DEF id
<1>2. CASE /\ DOMAIN results' = DOMAIN known \cup {id} /\ results'[id] = 0
           /\ \A i \in DOMAIN known : results'[i] = known[i]
           /\ pc' = [pc EXCEPT ![c] = "wait"]
           /\ UNCHANGED outcome
  <2>1. pc'[c] = "wait" /\ outcome'[c] = "none"
    BY <1>2 DEF TypeInv, CallerTypes
  <2> QED BY <1>1, <1>2, <2>1, EntriesAfter
<1>3. CASE results' = known /\ Retry(c)
  <2>1. pc'[c] # "wait" /\ (pc'[c] = "ended" <=> outcome'[c] # "none")
    BY <1>3, RetryEffect DEF TypeInv
  <2> QED BY <1>1, <1>3, <2>1, EntriesAfter
<1> QED BY <1>1, <1>2, <1>3

LEMMA CallerKeepsEntries ==
  ASSUME TypeInv, EntryInv, NEW c \in Callers, Caller(c)
  PROVE  EntryInv'
<1>0. UNCHANGED mail
  BY CallerLeaves DEF server
<1> DEFINE known == Without(msg[c])
<1>1. /\ DOMAIN known \subseteq DOMAIN results
      /\ \A i \in DOMAIN known : known[i] = results[i] /\ messages[i].by # c
      /\ pc[c] = "wait" => \A i \in DOMAIN results : messages[i].by = c \/ i \in DOMAIN known
  <2>1. DOMAIN known = DOMAIN results \ {msg[c]} /\ \A i \in DOMAIN known : known[i] = results[i]
    BY WithoutEffect
  <2>2. \A i \in DOMAIN results : messages[i].by = c => i = msg[c]
    BY OwnEntry
  <2>3. pc[c] = "wait" => messages[msg[c]].by = c
    BY DEF EntryInv, Awaiting
  <2> HIDE DEF known
  <2> QED BY <2>1, <2>2, <2>3
<1>2. pc[c] # "ended" => outcome[c] = "none"
  BY DEF EntryInv
<1>3. CASE Issue(c)
  <2>1. Sent(c, results, salt)
    <3>1. salt \in Nat /\ Send(c, results, salt)
      BY <1>3, BoundsAssumption DEF Issue, TypeInv, CallerTypes
    <3> QED BY <3>1, SendEffect DEF TypeInv
  <2>2. outcome[c] = "none" /\ \A i \in DOMAIN results : messages[i].by # c
    BY <1>2, <1>3, OwnEntry DEF Issue
  <2> QED BY <1>0, <2>1, <2>2, SentEntries
<1>4. CASE TakeSalt(c)
  <2>1. Sent(c, known, salt')
    <3>1. salt' \in Nat
      BY <1>4, AnswerTypes, BoundsAssumption DEF TakeSalt, HasValue, TypeInv, CallerTypes, EntryInv, Awaiting
    <3>2. Send(c, known, salt')
      BY <1>4 DEF TakeSalt
    <3> HIDE DEF known
    <3> QED BY <1>1, <3>1, <3>2, SendEffect DEF TypeInv
  <2>2. outcome[c] = "none"
    BY <1>2, <1>4 DEF TakeSalt, HasValue
  <2>3. pc[c] = "wait"
    BY <1>4 DEF TakeSalt, HasValue
  <2> HIDE DEF known
  <2> QED BY <1>0, <1>1, <2>1, <2>2, <2>3, SentEntries
<1>5. ASSUME results' = known, pc[c] = "wait", UNCHANGED <<msg, messages>>, pc'[c] # "wait",
             \A d \in Callers \ {c} : pc'[d] = pc[d] /\ outcome'[d] = outcome[d],
             pc'[c] = "ended" <=> outcome'[c] # "none"
      PROVE  EntryInv'
  <2> HIDE DEF known
  <2> QED BY <1>0, <1>1, <1>5, EntriesAfter
<1>6. ASSUME Retry(c), pc[c] = "wait"
      PROVE  /\ pc'[c] # "wait" /\ (pc'[c] = "ended" <=> outcome'[c] # "none")
             /\ \A d \in Callers \ {c} : pc'[d] = pc[d] /\ outcome'[d] = outcome[d]
  BY <1>2, <1>6, RetryEffect DEF TypeInv
<1>7. ASSUME NEW o \in {"result", "notice", "raised"}, Ends(c, o)
      PROVE  /\ pc'[c] # "wait" /\ (pc'[c] = "ended" <=> outcome'[c] # "none")
             /\ \A d \in Callers \ {c} : pc'[d] = pc[d] /\ outcome'[d] = outcome[d]
  BY <1>7 DEF Ends, TypeInv, CallerTypes
<1>8. CASE TimeOut(c)
  <2>1. Retry(c) /\ pc[c] = "wait" /\ results' = known /\ UNCHANGED <<msg, messages>>
    BY <1>8 DEF TimeOut, TimesOut
  <2> HIDE DEF known
  <2> QED BY <1>5, <1>6, <2>1
<1>9. CASE TakeResult(c)
  <2>1. results' = known /\ pc[c] = "wait" /\ UNCHANGED <<msg, messages>>
    BY <1>9 DEF TakeResult, HasValue
  <2>2. Ends(c, "result") \/ Ends(c, "notice")
    BY <1>9 DEF TakeResult
  <2> HIDE DEF known
  <2> QED BY <1>5, <1>7, <2>1, <2>2
<1>10. CASE TakeError(c)
  <2>1. results' = known /\ pc[c] = "wait" /\ UNCHANGED <<msg, messages>>
    BY <1>10 DEF TakeError, HasValue
  <2>2. \/ Retry(c)
        \/ Ends(c, "raised")
        \/ pc' = [pc EXCEPT ![c] = "pause"] /\ UNCHANGED outcome
    BY <1>10 DEF TakeError
  <2>3. ASSUME pc' = [pc EXCEPT ![c] = "pause"] /\ UNCHANGED outcome
        PROVE  /\ pc'[c] # "wait" /\ (pc'[c] = "ended" <=> outcome'[c] # "none")
               /\ \A d \in Callers \ {c} : pc'[d] = pc[d] /\ outcome'[d] = outcome[d]
    BY <1>2, <1>10, <2>3 DEF TakeError, HasValue, TypeInv, CallerTypes
  <2> HIDE DEF known
  <2> QED BY <1>5, <1>6, <1>7, <2>1, <2>2, <2>3
<1>11. CASE Cancel(c)
  <2>1. /\ pc' = [pc EXCEPT ![c] = "ended"] /\ outcome' = [outcome EXCEPT ![c] = "cancelled"]
        /\ UNCHANGED <<msg, messages, results>>
    BY <1>11 DEF Cancel, Ends
  <2>2. \A d \in Callers : /\ pc'[d] = IF d = c THEN "ended" ELSE pc[d]
                           /\ outcome'[d] = IF d = c THEN "cancelled" ELSE outcome[d]
    BY <2>1 DEF TypeInv, CallerTypes
  <2>3. \A id \in DOMAIN results : messages[id].by \in Callers
    <3> SUFFICES ASSUME NEW id \in DOMAIN results PROVE messages[id].by \in Callers
      OBVIOUS
    <3>1. messages[id] \in [by : Callers, salt : Nat]
      BY ElementOfSeq DEF TypeInv, EntryTypes, Issued
    <3> QED BY <3>1
  <2>4. \A id : Answered(id)' <=> Answered(id)
    BY <1>0, <2>1 DEF Answered, Posted
  <2> QED BY <2>1, <2>2, <2>3, <2>4 DEF EntryInv, Awaiting
<1> QED BY <1>3, <1>4, <1>8, <1>9, <1>10, <1>11 DEF Caller

\* handle_packet gives a value to the entry that it answers, if there is one.
LEMMA AcceptGives ==
  ASSUME TypeInv, inbox # <<>>, NEW last, Accept(last)
  PROVE  \/ results' = results
         \/ /\ mail[Head(inbox)].kind \in Answers
            /\ results' = [results EXCEPT ![mail[Head(inbox)].re] = Head(inbox)]
<1>1. Head(inbox) \in Posted
  BY HeadAndTail DEF TypeInv
<1>2. mail[Head(inbox)] \in [kind : Kinds, re : Nat, salt : Nat]
  BY <1>1, ElementOfSeq DEF TypeInv, MailTypes, Posted
<1>3. mail[Head(inbox)].kind \notin {"info", "update"} => mail[Head(inbox)].kind \in Answers
  BY <1>2 DEF Kinds, Answers
<1> QED BY <1>3 DEF Accept, AcceptIf

LEMMA EntriesStay ==
  ASSUME TypeInv, EntryInv, Session \/ Network \/ UNCHANGED vars
  PROVE  EntryInv'
<1>1. UNCHANGED <<pc, msg, outcome, messages>>
  BY DEF Session, Restart, RestartWith, Receive, Discard, SkipAgain, Accept, AcceptIf, AckWritten, AckFails,
         Network, Push, NewSalt, Lose, Execute, Resend, vars, caller
<1>2. Posted \subseteq Posted' /\ \A i \in Posted : mail'[i] = mail[i]
  BY MailGrows DEF Session, Restart, RestartWith, Receive, Discard, SkipAgain, Accept, AcceptIf, AckWritten, AckFails,
                   vars, server, Posted
<1>3. CASE UNCHANGED results
  <2>1. \A id \in DOMAIN results : Answered(id) => Answered(id)'
    BY <1>2, <1>3 DEF Answered
  <2> QED BY <1>1, <1>3, <2>1 DEF EntryInv, Awaiting
<1>4. ASSUME inbox # <<>>, NEW last, Accept(last)
      PROVE  EntryInv'
  <2> DEFINE i == Head(inbox)
  <2>1. CASE mail[i].kind \in Answers /\ results' = [results EXCEPT ![mail[i].re] = i]
    <3>1. i \in Posted
      BY <1>4, HeadAndTail DEF TypeInv
    <3>2. \A id \in DOMAIN results : results'[id] # 0 => Answered(id)'
      <4> SUFFICES ASSUME NEW id \in DOMAIN results, results'[id] # 0 PROVE Answered(id)'
        OBVIOUS
      <4>1. CASE id = mail[i].re
        BY <1>2, <2>1, <3>1, <4>1 DEF Answered
      <4>2. CASE id # mail[i].re
        <5>1. results'[id] = results[id] /\ Answered(id)
          BY <2>1, <4>2 DEF EntryInv
        <5> QED BY <1>2, <5>1 DEF Answered
      <4> QED BY <4>1, <4>2
    <3>3. DOMAIN results' = DOMAIN results
      BY <2>1
    <3> QED BY <1>1, <3>2, <3>3 DEF EntryInv, Awaiting
  <2> QED BY <1>3, <1>4, <2>1, AcceptGives
<1> QED BY <1>3, <1>4 DEF Session, Restart, RestartWith, Receive, Discard, SkipAgain, AckWritten, AckFails,
                          Network, Push, NewSalt, Lose, Execute, Resend, vars

-----------------------------------------------------------------------------
(***************************************************************************)
(* Answers and attempts.                                                   *)
(***************************************************************************)
\* A message stays as it was sent, and only a new one comes to be under way.
LEMMA MessagesGrow ==
  ASSUME TypeInv, EntryInv, NEW c \in Callers, Caller(c)
  PROVE  /\ Issued \subseteq Issued' /\ \A i \in Issued : messages'[i] = messages[i]
         /\ \A i \in Issued' \ Issued : messages'[i].by = c
         /\ wire \subseteq wire' /\ wire' \subseteq wire \cup (Issued' \ Issued)
         /\ \A d \in Callers \ {c} : msg'[d] = msg[d] /\ pc'[d] = pc[d] /\ outcome'[d] = outcome[d] /\ retries'[d] = retries[d]
<1> USE DEF TypeInv
<1>1. ASSUME NEW s, NEW known, Sent(c, known, s)
      PROVE  /\ Issued \subseteq Issued' /\ \A i \in Issued : messages'[i] = messages[i]
             /\ \A i \in Issued' \ Issued : messages'[i].by = c
             /\ wire \subseteq wire' /\ wire' \subseteq wire \cup (Issued' \ Issued)
             /\ \A d \in Callers \ {c} : msg'[d] = msg[d] /\ pc'[d] = pc[d] /\ outcome'[d] = outcome[d] /\ retries'[d] = retries[d]
  BY <1>1 DEF Sent
<1>2. CASE Issue(c)
  <2>1. salt \in Nat /\ Send(c, results, salt)
    BY <1>2, BoundsAssumption DEF Issue, CallerTypes
  <2> QED BY <1>1, <2>1, SendEffect
<1>3. CASE TakeSalt(c)
  <2> DEFINE known == Without(msg[c])
  <2>1. salt' \in Nat
    BY <1>3, AnswerTypes, BoundsAssumption DEF TakeSalt, HasValue, CallerTypes, EntryInv, Awaiting
  <2>2. Send(c, known, salt') /\ DOMAIN known \subseteq DOMAIN results
    BY <1>3, WithoutEffect DEF TakeSalt
  <2> HIDE DEF known
  <2> QED BY <1>1, <2>1, <2>2, SendEffect
<1>4. CASE TimeOut(c) \/ Cancel(c) \/ TakeResult(c) \/ TakeError(c)
  <2>1. UNCHANGED <<messages, wire, msg, Issued>>
    BY <1>4 DEF TimeOut, TimesOut, Cancel, TakeResult, TakeError, Issued
  <2>2. \A d \in Callers \ {c} : pc'[d] = pc[d] /\ outcome'[d] = outcome[d] /\ retries'[d] = retries[d]
    <3>1. CASE Retry(c)
      BY <3>1, RetryEffect
    <3>2. CASE \E o : Ends(c, o) /\ UNCHANGED retries
      BY <3>2 DEF Ends, CallerTypes
    <3>3. CASE pc' = [pc EXCEPT ![c] = "pause"] /\ UNCHANGED <<retries, outcome>>
      BY <3>3 DEF CallerTypes
    <3> QED BY <1>4, <3>1, <3>2, <3>3 DEF TimeOut, TimesOut, Cancel, TakeResult, TakeError
  <2> QED BY <2>1, <2>2
<1> QED BY <1>2, <1>3, <1>4 DEF Caller

LEMMA CallerKeepsAnswers ==
  ASSUME TypeInv, EntryInv, AnswerInv, NEW c \in Callers, Caller(c)
  PROVE  AnswerInv'
<1>1. UNCHANGED <<mail, produced, Posted>>
  BY CallerLeaves DEF server, Posted
<1>2. \A i \in Posted : mail[i].kind \in Answers => mail[i].re \in Issued
  BY DEF TypeInv, MailTypes
<1>3. \A d \in Callers : \A i \in produced[d] : i \in Posted /\ mail[i].kind \in Answers
  BY DEF TypeInv, SessionTypes, AnswerInv, Answers
<1>4. /\ \A i \in Issued : messages'[i] = messages[i]
      /\ wire' \cap Issued \subseteq wire
  BY MessagesGrow
<1> QED BY <1>1, <1>2, <1>3, <1>4 DEF AnswerInv

\* The sender of a message is a caller.
LEMMA Senders ==
  ASSUME EntryTypes, NEW id \in Issued
  PROVE  messages[id].by \in Callers
<1>1. messages[id] \in [by : Callers, salt : Nat]
  BY ElementOfSeq DEF EntryTypes, Issued
<1> QED BY <1>1

\* The server's answer to a message that it sees for the first time.
LEMMA ExecuteKeepsAnswers ==
  ASSUME TypeInv, AnswerInv, NEW id \in wire, Execute(id)
  PROVE  /\ AnswerInv'
         /\ UNCHANGED produced \/ produced' = [produced EXCEPT ![messages[id].by] = @ \cup {Len(mail) + 1}]
         /\ mail'[Len(mail) + 1].re = id
<1> DEFINE n == Len(mail) + 1
           s == messages[id].by
<1>1. id \in Issued /\ id \in Nat /\ s \in Callers
  BY Senders DEF TypeInv, EntryTypes, Issued
<1>2. PICK kind \in Answers : /\ Post(kind, id)
                              /\ IF kind = "result" THEN produced' = [produced EXCEPT ![s] = @ \cup {n}]
                                                    ELSE UNCHANGED produced
  BY DEF Execute, Answers, Errors
<1>3. /\ mail'[n].kind = kind /\ mail'[n].re = id
      /\ \A i \in Posted : mail'[i] = mail[i]
      /\ Posted' = Posted \cup {n} /\ n \notin Posted
  BY <1>1, <1>2, PostEffect DEF TypeInv, Kinds, Answers, Errors
<1>4. wire' = wire \ {id} /\ UNCHANGED messages
  BY DEF Execute
<1> HIDE DEF n
<1>5. produced \in [Callers -> SUBSET Posted]
  BY DEF TypeInv, SessionTypes
<1>6. \A i \in Posted : mail[i].kind \in Answers => mail[i].re # id
  BY DEF AnswerInv
<1>7. ASSUME NEW i \in Posted', mail'[i].kind \in Answers
      PROVE  /\ mail'[i].re \notin wire'
             /\ \A j \in Posted' : j # i /\ mail'[j].kind \in Answers => mail'[j].re # mail'[i].re
             /\ mail'[i].kind = "result" => i \in produced'[messages'[mail'[i].re].by]
  <2>1. CASE i = n
    BY <1>1, <1>2, <1>3, <1>4, <1>5, <1>6, <2>1
  <2>2. CASE i \in Posted
    <3>1. /\ mail[i].re \notin wire
          /\ \A j \in Posted : j # i /\ mail[j].kind \in Answers => mail[j].re # mail[i].re
          /\ mail[i].kind = "result" => i \in produced[messages[mail[i].re].by]
      BY <1>3, <1>7, <2>2 DEF AnswerInv
    <3>2. messages[mail[i].re].by \in Callers
      <4>1. mail[i].re \in Issued
        BY <1>3, <1>7, <2>2 DEF TypeInv, MailTypes
      <4> QED BY <4>1, Senders DEF TypeInv
    <3>3. mail[i].kind = "result" => i \in produced'[messages[mail[i].re].by]
      BY <1>2, <1>5, <3>1, <3>2
    <3> QED BY <1>3, <1>4, <1>6, <1>7, <2>2, <3>1, <3>3
  <2> QED BY <1>3, <1>7, <2>1, <2>2
<1>8. \A c \in Callers : \A i \in produced'[c] : mail'[i].kind = "result" /\ messages'[mail'[i].re].by = c
  <2> SUFFICES ASSUME NEW c \in Callers, NEW i \in produced'[c]
               PROVE  mail'[i].kind = "result" /\ messages'[mail'[i].re].by = c
    OBVIOUS
  <2>1. CASE i \in produced[c]
    <3>1. i \in Posted /\ mail[i].kind = "result" /\ messages[mail[i].re].by = c
      BY <1>5, <2>1 DEF AnswerInv
    <3> QED BY <1>3, <1>4, <3>1
  <2>2. CASE i \notin produced[c]
    <3>1. i = n /\ c = s /\ kind = "result"
      BY <1>2, <1>5, <2>2
    <3> QED BY <1>3, <1>4, <3>1
  <2> QED BY <2>1, <2>2
<1>9. AnswerInv'
  <2> HIDE DEF s
  <2> QED BY <1>7, <1>8 DEF AnswerInv
<1> QED BY <1>2, <1>3, <1>9 DEF n

LEMMA AnswersStay ==
  ASSUME TypeInv, AnswerInv, Session \/ Network \/ UNCHANGED vars
  PROVE  AnswerInv'
<1>1. CASE UNCHANGED <<messages, wire, mail, produced>>
  BY <1>1 DEF AnswerInv, Posted
<1>2. ASSUME NEW kind \in Kinds \ Answers, NEW re \in Nat, Post(kind, re), UNCHANGED <<messages, wire, produced>>
      PROVE  AnswerInv'
  <2> DEFINE n == Len(mail) + 1
  <2>1. /\ mail'[n].kind = kind
        /\ \A i \in Posted : mail'[i] = mail[i]
        /\ Posted' = Posted \cup {n} /\ n \notin Posted
    BY <1>2, PostEffect DEF TypeInv
  <2> HIDE DEF n
  <2>2. \A c \in Callers : produced[c] \subseteq Posted
    BY DEF TypeInv, SessionTypes
  <2> QED BY <1>2, <2>1, <2>2 DEF AnswerInv
<1>3. CASE Push
  BY <1>2, <1>3 DEF Push, Kinds, Answers, Errors
<1>4. ASSUME NEW i \in 1 .. Len(mail), Resend(i)
      PROVE  AnswerInv'
  BY <1>1, <1>2, <1>4 DEF Resend, Kinds, Answers, Errors
<1>5. CASE Session
  BY <1>1, <1>5 DEF Session, Restart, RestartWith, Receive, Discard, SkipAgain, Accept, AcceptIf, AckWritten, AckFails, server
<1>6. CASE NewSalt \/ Lose \/ UNCHANGED vars
  BY <1>1, <1>6 DEF NewSalt, Lose, vars, server
<1> QED BY <1>3, <1>4, <1>5, <1>6, ExecuteKeepsAnswers DEF Network

\* How the size of a set bounds that of one with an element more or less.
LEMMA SizeBounds ==
  ASSUME NEW B, IsFiniteSet(B), NEW A, NEW x, NEW y
  PROVE  /\ Cardinality(B) \in Nat
         /\ A \subseteq B => Cardinality(A) \in Nat /\ Cardinality(A) <= Cardinality(B)
         /\ A \subseteq B \cup {y} => Cardinality(A) \in Nat /\ Cardinality(A) <= Cardinality(B) + 1
         /\ x \in B /\ A \subseteq B \ {x} => Cardinality(A) \in Nat /\ Cardinality(A) + 1 <= Cardinality(B)
         /\ x \in B /\ A \subseteq (B \ {x}) \cup {y} => Cardinality(A) \in Nat /\ Cardinality(A) <= Cardinality(B)
<1>1. Cardinality(B) \in Nat
  BY FS_CardinalityType
<1>2. ASSUME NEW C, IsFiniteSet(C), A \subseteq C
      PROVE  Cardinality(A) \in Nat /\ Cardinality(A) <= Cardinality(C) /\ Cardinality(C) \in Nat
  BY <1>2, FS_Subset, FS_CardinalityType
<1>3. ASSUME NEW C, IsFiniteSet(C)
      PROVE  IsFiniteSet(C \cup {y}) /\ Cardinality(C \cup {y}) <= Cardinality(C) + 1 /\ Cardinality(C) \in Nat
  <2>1. Cardinality(C) \in Nat
    BY <1>3, FS_CardinalityType
  <2>2. /\ IsFiniteSet(C \cup {y})
        /\ Cardinality(C \cup {y}) = IF y \in C THEN Cardinality(C) ELSE Cardinality(C) + 1
    BY <1>3, FS_AddElement, Zenon
  <2> QED BY <2>1, <2>2
<1>4. x \in B => IsFiniteSet(B \ {x}) /\ Cardinality(B \ {x}) + 1 = Cardinality(B)
  BY <1>1, FS_RemoveElement
<1>5. A \subseteq B \cup {y} => Cardinality(A) \in Nat /\ Cardinality(A) <= Cardinality(B) + 1
  <2>1. IsFiniteSet(B \cup {y}) /\ Cardinality(B \cup {y}) <= Cardinality(B) + 1
    BY <1>3
  <2>2. A \subseteq B \cup {y} => Cardinality(A) \in Nat /\ Cardinality(A) <= Cardinality(B \cup {y}) /\ Cardinality(B \cup {y}) \in Nat
    BY <1>2, <2>1
  <2> QED BY <1>1, <2>1, <2>2
<1>6. x \in B /\ A \subseteq B \ {x} => Cardinality(A) \in Nat /\ Cardinality(A) + 1 <= Cardinality(B)
  <2>1. x \in B /\ A \subseteq B \ {x} => Cardinality(A) \in Nat /\ Cardinality(A) <= Cardinality(B \ {x}) /\ Cardinality(B \ {x}) \in Nat
    BY <1>2, <1>4
  <2> QED BY <1>1, <1>4, <2>1
<1>7. x \in B /\ A \subseteq (B \ {x}) \cup {y} => Cardinality(A) \in Nat /\ Cardinality(A) <= Cardinality(B)
  <2> SUFFICES ASSUME x \in B, A \subseteq (B \ {x}) \cup {y}
               PROVE  Cardinality(A) \in Nat /\ Cardinality(A) <= Cardinality(B)
    OBVIOUS
  <2>1. /\ IsFiniteSet((B \ {x}) \cup {y})
        /\ Cardinality((B \ {x}) \cup {y}) <= Cardinality(B \ {x}) + 1
        /\ Cardinality(B \ {x}) \in Nat
    BY <1>3, <1>4
  <2>2. Cardinality(A) \in Nat /\ Cardinality(A) <= Cardinality((B \ {x}) \cup {y}) /\ Cardinality((B \ {x}) \cup {y}) \in Nat
    BY <1>2, <2>1
  <2> QED BY <1>1, <1>4, <2>1, <2>2
<1> QED BY <1>1, <1>2, <1>5, <1>6, <1>7

LEMMA LiveIsFinite ==
  ASSUME EntryTypes, CallerTypes, NEW c \in Callers
  PROVE  IsFiniteSet(Live(c)) /\ Cardinality(Live(c)) \in Nat /\ Left(c) \in Nat
<1>1. Len(messages) \in Nat
  BY LenProperties DEF EntryTypes
<1>2. IsFiniteSet(Issued)
  BY <1>1, FS_Interval DEF Issued
<1>3. IsFiniteSet(Live(c))
  BY <1>2, FS_Subset DEF Live
<1> QED BY <1>3, FS_CardinalityType DEF Left, CallerTypes

\* A step that makes no message live and gives back no attempt.
LEMMA BudgetKept ==
  ASSUME TypeInv, BudgetInv, \A c \in Callers : Live(c)' \subseteq Live(c), UNCHANGED caller
  PROVE  BudgetInv'
<1> SUFFICES ASSUME NEW c \in Callers PROVE Cardinality(Live(c)') + Left(c)' <= Retries[c] + 1
  BY DEF BudgetInv
<1>1. IsFiniteSet(Live(c)) /\ Cardinality(Live(c)) \in Nat /\ Left(c) \in Nat
  BY LiveIsFinite DEF TypeInv
<1>2. Cardinality(Live(c)') \in Nat /\ Cardinality(Live(c)') <= Cardinality(Live(c))
  BY <1>1, SizeBounds
<1>3. Left(c)' = Left(c)
  BY DEF Left, caller
<1>4. Cardinality(Live(c)) + Left(c) <= Retries[c] + 1
  BY DEF BudgetInv
<1> QED BY <1>1, <1>2, <1>3, <1>4, RetriesAssumption

LEMMA BudgetStays ==
  ASSUME TypeInv, AnswerInv, BudgetInv, Session \/ Network \/ UNCHANGED vars
  PROVE  BudgetInv'
<1>1. UNCHANGED <<caller, messages, Issued>>
  BY DEF Session, Restart, RestartWith, Receive, Discard, SkipAgain, Accept, AcceptIf, AckWritten, AckFails,
         Network, Push, NewSalt, Lose, Execute, Resend, vars, Issued
<1>2. wire' \subseteq wire
  BY DEF Session, Restart, RestartWith, Receive, Discard, SkipAgain, Accept, AcceptIf, AckWritten, AckFails,
         Network, Push, NewSalt, Lose, Execute, Resend, vars
<1>3. \A i \in Posted : mail'[i] = mail[i]
  BY MailGrows DEF Session, Restart, RestartWith, Receive, Discard, SkipAgain, Accept, AcceptIf, AckWritten, AckFails,
                   vars, server
<1>4. \A c \in Callers : produced[c] \subseteq Posted
  BY DEF TypeInv, SessionTypes
<1>5. \A c \in Callers : \A i \in produced'[c] : i \in produced[c] \/ mail'[i].re \in wire
  <2>1. CASE UNCHANGED produced
    BY <2>1
  <2>2. ASSUME NEW id \in wire, Execute(id)
        PROVE  \A c \in Callers : \A i \in produced'[c] : i \in produced[c] \/ mail'[i].re \in wire
    <3>1. /\ UNCHANGED produced \/ produced' = [produced EXCEPT ![messages[id].by] = @ \cup {Len(mail) + 1}]
          /\ mail'[Len(mail) + 1].re = id
      BY <2>2, ExecuteKeepsAnswers
    <3> DEFINE n == Len(mail) + 1
    <3> HIDE DEF n
    <3>2. UNCHANGED produced \/ produced' = [produced EXCEPT ![messages[id].by] = @ \cup {n}]
      BY <3>1 DEF n
    <3>3. mail'[n].re = id
      BY <3>1 DEF n
    <3> QED BY <3>2, <3>3 DEF TypeInv, SessionTypes
  <2> QED BY <2>1, <2>2 DEF Session, Restart, RestartWith, Receive, Discard, SkipAgain, Accept, AcceptIf, AckWritten, AckFails,
                            Network, Push, NewSalt, Lose, Resend, vars
<1>6. \A c \in Callers : Live(c)' \subseteq Live(c)
  <2> SUFFICES ASSUME NEW c \in Callers, NEW id \in Live(c)' PROVE id \in Live(c)
    OBVIOUS
  <2>1. /\ id \in Issued /\ messages[id].by = c
        /\ \/ id \in wire
           \/ \E i \in produced'[c] : mail'[i].re = id
           \/ pc[c] = "wait" /\ msg[c] = id
    BY <1>1, <1>2 DEF Live, Awaiting, caller
  <2>2. ASSUME NEW i \in produced'[c], mail'[i].re = id
        PROVE  id \in wire \/ \E j \in produced[c] : mail[j].re = id
    BY <1>3, <1>4, <1>5, <2>2
  <2> QED BY <2>1, <2>2 DEF Live, Awaiting
<1> QED BY <1>1, <1>6, BudgetKept

\* A step of c: what becomes of its live messages, and of what it has left.
LEMMA CallerKeepsBudget ==
  ASSUME TypeInv, EntryInv, AnswerInv, BudgetInv, NEW c \in Callers, Caller(c)
  PROVE  BudgetInv'
<1> USE DEF TypeInv
<1>1. UNCHANGED <<mail, produced, Posted>>
  BY CallerLeaves DEF server, Posted
<1>2. /\ Issued \subseteq Issued' /\ \A i \in Issued : messages'[i] = messages[i]
      /\ \A i \in Issued' \ Issued : messages'[i].by = c
      /\ wire' \subseteq wire \cup (Issued' \ Issued)
      /\ \A d \in Callers \ {c} : msg'[d] = msg[d] /\ pc'[d] = pc[d] /\ retries'[d] = retries[d]
  BY MessagesGrow
<1>3. \A d \in Callers : \A i \in produced[d] : mail[i].re \in Issued
  BY DEF SessionTypes, AnswerInv, Answers, MailTypes
<1>4. ASSUME NEW d \in Callers \ {c}
      PROVE  Cardinality(Live(d)') + Left(d)' <= Retries[d] + 1
  <2>1. Live(d)' \subseteq Live(d)
    <3> SUFFICES ASSUME NEW id \in Live(d)' PROVE id \in Live(d)
      OBVIOUS
    <3>1. /\ id \in Issued' /\ messages'[id].by = d
          /\ \/ id \in wire'
             \/ \E i \in produced[d] : mail[i].re = id
             \/ pc'[d] = "wait" /\ msg'[d] = id
      BY <1>1 DEF Live, Awaiting
    <3>2. id \in Issued /\ messages[id].by = d
      BY <1>2, <3>1
    <3> QED BY <1>2, <3>1, <3>2 DEF Live, Awaiting
  <2>2. Left(d)' = Left(d)
    BY <1>2 DEF Left
  <2>3. IsFiniteSet(Live(d)) /\ Cardinality(Live(d)) \in Nat /\ Left(d) \in Nat
    BY LiveIsFinite
  <2>4. Cardinality(Live(d)') \in Nat /\ Cardinality(Live(d)') <= Cardinality(Live(d))
    BY <2>1, <2>3, SizeBounds
  <2>5. Cardinality(Live(d)) + Left(d) <= Retries[d] + 1
    BY DEF BudgetInv
  <2> QED BY <2>2, <2>3, <2>4, <2>5, RetriesAssumption
<1>5. /\ IsFiniteSet(Live(c)) /\ Cardinality(Live(c)) \in Nat /\ Left(c) \in Nat
      /\ Cardinality(Live(c)) + Left(c) <= Retries[c] + 1
      /\ Retries[c] \in Nat
  BY LiveIsFinite, RetriesAssumption DEF BudgetInv
\* Old messages of c do not become live, and the one it waited for was live.
<1>6. \A id \in Live(c)' : \/ id \in Issued' \ Issued
                           \/ id \in Live(c)
                           \/ pc'[c] = "wait" /\ msg'[c] = id
  <2> SUFFICES ASSUME NEW id \in Live(c)', id \in Issued, ~(pc'[c] = "wait" /\ msg'[c] = id)
               PROVE  id \in Live(c)
    BY DEF Live
  <2>1. /\ messages'[id].by = c
        /\ id \in wire' \/ \E i \in produced[c] : mail[i].re = id
    BY <1>1 DEF Live, Awaiting
  <2> QED BY <1>2, <2>1 DEF Live
<1>7. pc[c] = "wait" => msg[c] \in Live(c)
  BY DEF EntryInv, Awaiting, Live, EntryTypes
\* The answer to the message that c waits for takes it out, unless it is a result.
<1>8. ASSUME HasValue(c), Value(c) # "result", ~(pc'[c] = "wait" /\ msg'[c] = msg[c])
      PROVE  msg[c] \in Live(c) /\ msg[c] \notin Live(c)'
  <2> DEFINE v == results[msg[c]]
  <2>1. msg[c] \in Live(c) /\ msg[c] \in DOMAIN results /\ v # 0 /\ msg[c] \in Issued
    BY <1>7, <1>8 DEF HasValue, EntryInv, Awaiting, EntryTypes
  <2>2. v \in Posted /\ mail[v].re = msg[c] /\ mail[v].kind \in Answers /\ mail[v].kind # "result"
    BY <1>8, <2>1 DEF EntryInv, Answered, Value
  <2> HIDE DEF v
  <2>3. msg[c] \notin wire /\ \A j \in Posted : j # v /\ mail[j].kind \in Answers => mail[j].re # msg[c]
    BY <2>2 DEF AnswerInv
  <2>4. \A i \in produced[c] : i \in Posted /\ mail[i].kind = "result"
    BY DEF SessionTypes, AnswerInv
  <2>5. \A i \in produced[c] : mail[i].re # msg[c]
    BY <2>2, <2>3, <2>4 DEF Answers
  <2>6. msg[c] \notin wire'
    BY <1>2, <2>1, <2>3
  <2> QED BY <1>1, <1>8, <2>1, <2>5, <2>6 DEF Live, Awaiting
<1> DEFINE Goal == Cardinality(Live(c)') + Left(c)' <= Retries[c] + 1
<1>9. ASSUME Retry(c)
      PROVE  pc'[c] # "wait" /\ Left(c)' \in Nat /\ Left(c)' <= retries[c] /\ retries[c] \in Nat
  <2>1. /\ retries' \in [Callers -> Nat]
        /\ \/ pc'[c] = "ended" /\ retries' = retries
           \/ pc'[c] = "pause" /\ retries'[c] + 1 = retries[c]
    BY <1>9, RetryEffect
  <2>2. CASE pc'[c] = "ended" /\ retries[c] = 0 /\ retries' = retries
    BY <2>1, <2>2 DEF Left
  <2>3. CASE pc'[c] = "ended" /\ retries' = retries
    BY <2>1, <2>3 DEF Left, CallerTypes
  <2>4. CASE pc'[c] = "pause" /\ retries'[c] + 1 = retries[c]
    <3>1. retries'[c] \in Nat /\ retries[c] \in Nat
      BY <2>1 DEF CallerTypes
    <3> QED BY <2>4, <3>1 DEF Left
  <2> QED BY <2>1, <2>3, <2>4
\* A step that sends nothing and makes c wait for nothing.
<1>10. ASSUME UNCHANGED messages, pc'[c] # "wait", Left(c)' \in Nat, Left(c)' <= Left(c)
       PROVE  Goal
  <2>1. Live(c)' \subseteq Live(c)
    BY <1>6, <1>10 DEF Issued
  <2>2. Cardinality(Live(c)') \in Nat /\ Cardinality(Live(c)') <= Cardinality(Live(c))
    BY <1>5, <2>1, SizeBounds
  <2> QED BY <1>5, <1>10, <2>2
<1>11. ASSUME Issue(c) PROVE Goal
  <2>1. Sent(c, results, salt)
    <3>1. salt \in Nat /\ Send(c, results, salt)
      BY <1>11, BoundsAssumption DEF Issue, CallerTypes
    <3> QED BY <3>1, SendEffect
  <2> DEFINE id == Len(messages) + 1
  <2>2. /\ Issued' = Issued \cup {id} /\ msg'[c] = id
        /\ \/ pc' = [pc EXCEPT ![c] = "wait"] /\ UNCHANGED retries
           \/ Retry(c) /\ wire' = wire
    BY <2>1 DEF Sent
  <2>3. Left(c) = retries[c] + 1
    BY <1>11 DEF Issue, Left
  <2> HIDE DEF id
  <2>4. CASE pc' = [pc EXCEPT ![c] = "wait"] /\ UNCHANGED retries
    <3>1. Left(c)' = retries[c] /\ retries[c] \in Nat
      BY <2>4 DEF Left, CallerTypes
    <3>2. Live(c)' \subseteq Live(c) \cup {id}
      BY <1>6, <2>2
    <3>3. Cardinality(Live(c)') \in Nat /\ Cardinality(Live(c)') <= Cardinality(Live(c)) + 1
      BY <1>5, <3>2, SizeBounds
    <3> QED BY <1>5, <2>3, <3>1, <3>3
  <2>5. CASE Retry(c) /\ wire' = wire
    <3>1. pc'[c] # "wait" /\ Left(c)' \in Nat /\ Left(c)' <= retries[c] /\ retries[c] \in Nat
      BY <1>9, <2>5
    <3>2. Live(c)' \subseteq Live(c)
      BY <1>1, <1>2, <1>3, <2>5, <3>1 DEF Live, Awaiting, EntryTypes
    <3>3. Cardinality(Live(c)') \in Nat /\ Cardinality(Live(c)') <= Cardinality(Live(c))
      BY <1>5, <3>2, SizeBounds
    <3> QED BY <1>5, <2>3, <3>1, <3>3
  <2> QED BY <2>2, <2>4, <2>5
<1>12. ASSUME TimeOut(c) PROVE Goal
  <2>1. Retry(c) /\ pc[c] = "wait" /\ UNCHANGED messages
    BY <1>12 DEF TimeOut, TimesOut
  <2>2. Left(c) = retries[c] + 0 /\ retries[c] \in Nat
    BY <2>1 DEF Left, CallerTypes
  <2> QED BY <1>9, <1>10, <2>1, <2>2
<1>13. ASSUME Cancel(c) \/ TakeResult(c) PROVE Goal
  <2>1. /\ UNCHANGED <<messages, retries>>
        /\ \E o : Ends(c, o)
    BY <1>13 DEF Cancel, TakeResult
  <2>2. pc'[c] = "ended" /\ retries[c] \in Nat
    BY <2>1 DEF Ends, CallerTypes
  <2>3. Left(c)' = retries[c] /\ retries[c] <= Left(c)
    BY <2>1, <2>2 DEF Left
  <2> QED BY <1>10, <2>1, <2>2, <2>3
<1>14. ASSUME TakeError(c) PROVE Goal
  <2>1. pc[c] = "wait" /\ HasValue(c) /\ UNCHANGED <<messages, msg>>
    BY <1>14 DEF TakeError, HasValue
  <2>2. Left(c) = retries[c] /\ retries[c] \in Nat
    BY <2>1 DEF Left, CallerTypes
  <2>3. CASE Retry(c)
    BY <1>9, <1>10, <2>1, <2>2, <2>3
  <2>4. CASE Ends(c, "raised") /\ UNCHANGED retries
    <3>1. pc'[c] = "ended"
      BY <2>4 DEF Ends, CallerTypes
    <3>2. Left(c)' = retries[c]
      BY <2>2, <2>4, <3>1 DEF Left
    <3> QED BY <1>10, <2>1, <2>2, <3>1, <3>2
  <2>5. CASE Value(c) = "flood" /\ pc' = [pc EXCEPT ![c] = "pause"] /\ UNCHANGED retries
    <3>1. pc'[c] = "pause"
      BY <2>5 DEF CallerTypes
    <3>2. Left(c)' = retries[c] + 1
      BY <2>5, <3>1 DEF Left
    <3>3. msg[c] \in Live(c) /\ Live(c)' \subseteq Live(c) \ {msg[c]}
      BY <1>6, <1>8, <2>1, <2>5, <3>1 DEF Issued
    <3>4. Cardinality(Live(c)') \in Nat /\ Cardinality(Live(c)') + 1 <= Cardinality(Live(c))
      BY <1>5, <3>3, SizeBounds
    <3> QED BY <1>5, <2>2, <3>2, <3>4
  <2> QED BY <1>14, <2>3, <2>4, <2>5 DEF TakeError
<1>15. ASSUME TakeSalt(c) PROVE Goal
  <2>1. pc[c] = "wait" /\ HasValue(c) /\ Value(c) = "badsalt"
    BY <1>15 DEF TakeSalt, HasValue
  <2>2. Left(c) = retries[c] /\ retries[c] \in Nat
    BY <2>1 DEF Left, CallerTypes
  <2>3. Sent(c, Without(msg[c]), salt')
    <3> DEFINE known == Without(msg[c])
    <3>1. salt' \in Nat
      BY <1>15, AnswerTypes, BoundsAssumption DEF TakeSalt, HasValue, CallerTypes, EntryInv, Awaiting
    <3>2. Send(c, known, salt') /\ DOMAIN known \subseteq DOMAIN results
      BY <1>15, WithoutEffect DEF TakeSalt
    <3> HIDE DEF known
    <3>3. Sent(c, known, salt')
      BY <3>1, <3>2, SendEffect
    <3> QED BY <3>3 DEF known
  <2> DEFINE id == Len(messages) + 1
  <2>4. /\ Issued' = Issued \cup {id} /\ msg'[c] = id /\ id \notin Issued
        /\ \/ pc' = [pc EXCEPT ![c] = "wait"] /\ UNCHANGED retries
           \/ Retry(c) /\ wire' = wire
    BY <2>3 DEF Sent
  <2> HIDE DEF id
  <2>5. msg[c] \in Live(c) /\ msg[c] \in Issued
    BY <1>7, <2>1 DEF Live
  <2>6. msg[c] \notin Live(c)'
    BY <1>8, <2>1, <2>4, <2>5
  <2>7. Live(c)' \subseteq (Live(c) \ {msg[c]}) \cup {id}
    BY <1>6, <2>4, <2>6
  <2>8. Cardinality(Live(c)') \in Nat /\ Cardinality(Live(c)') <= Cardinality(Live(c))
    BY <1>5, <2>5, <2>7, SizeBounds
  <2>9. Left(c)' \in Nat /\ Left(c)' <= retries[c]
    <3>1. CASE Retry(c)
      BY <1>9, <3>1
    <3>2. CASE pc' = [pc EXCEPT ![c] = "wait"] /\ UNCHANGED retries
      BY <2>2, <3>2 DEF Left, CallerTypes
    <3> QED BY <2>4, <3>1, <3>2
  <2> QED BY <1>5, <2>2, <2>8, <2>9
<1>16. Goal
  BY <1>11, <1>12, <1>13, <1>14, <1>15 DEF Caller
<1> QED BY <1>4, <1>16 DEF BudgetInv

-----------------------------------------------------------------------------
(***************************************************************************)
(* Acknowledgements, and the ids that the session keeps.                   *)
(***************************************************************************)
\* Of the ids up to n those of a set have a greatest, the one with the least
\* distance to n.
LEMMA GreatestUpTo ==
  ASSUME NEW n \in Nat, NEW S \in SUBSET (1 .. n), S # {}
  PROVE  \E x \in S : \A y \in S : y <= x
<1> DEFINE R == OpToRel(<, Nat)
           T == {d \in Nat : \E x \in S : d = n - x}
<1>1. T # {} /\ T \in SUBSET Nat
  <2>1. PICK x \in S : TRUE
    OBVIOUS
  <2>2. n - x \in Nat
    BY <2>1
  <2> QED BY <2>2
<1>2. PICK d \in T : \A e \in T : ~(<<e, d>> \in R)
  <2> HIDE DEF R, T
  <2>1. IsWellFoundedOn(R, Nat)
    BY NatLessThanWellFounded DEF R
  <2> QED BY <1>1, <2>1, WFMin
<1>3. \A e \in T : ~(e < d)
  BY <1>1, <1>2 DEF OpToRel
<1>4. PICK x \in S : d = n - x
  OBVIOUS
<1>5. ASSUME NEW y \in S PROVE y <= x
  <2>1. n - y \in T /\ x \in 1 .. n /\ y \in 1 .. n
    OBVIOUS
  <2>2. ~(n - y < n - x)
    BY <1>3, <1>4, <2>1
  <2> QED BY <2>1, <2>2
<1> QED BY <1>5

\* Trimming keeps the greatest id, and with an id all that are greater.
LEMMA TrimmedKeepsGreatest ==
  ASSUME SessionTypes, MailTypes
  PROVE  /\ Trimmed \subseteq stored_msg_ids
         /\ stored_msg_ids # {} => Trimmed # {}
         /\ \A j \in Trimmed, k \in stored_msg_ids : j < k => k \in Trimmed
<1> DEFINE S == stored_msg_ids
           Below(x) == {j \in S : j < x}
<1>1. S \subseteq Nat /\ IsFiniteSet(S) /\ Cardinality(S) \in Nat
  <2>1. S \subseteq Posted /\ Posted \subseteq Nat /\ Len(mail) \in Nat
    BY LenProperties DEF SessionTypes, MailTypes, Posted
  <2>2. IsFiniteSet(Posted)
    BY <2>1, FS_Interval DEF Posted
  <2> QED BY <2>1, <2>2, FS_Subset, FS_CardinalityType
<1>2. CASE ~(Cardinality(S) > StoredMax)
  BY <1>2 DEF Trimmed
<1>3. CASE Cardinality(S) > StoredMax
  <2>1. Trimmed = {i \in S : Cardinality(Below(i)) >= StoredMax \div 2}
    BY <1>3 DEF Trimmed
  <2>2. StoredMax \in Nat /\ StoredMax \div 2 \in Nat /\ StoredMax \div 2 <= StoredMax
    BY AcksAssumption
  <2>3. \A j \in S : IsFiniteSet(Below(j)) /\ Cardinality(Below(j)) \in Nat
    <3> SUFFICES ASSUME NEW j \in S PROVE IsFiniteSet(Below(j)) /\ Cardinality(Below(j)) \in Nat
      OBVIOUS
    <3>1. IsFiniteSet(Below(j))
      BY <1>1, FS_Subset
    <3> QED BY <3>1, FS_CardinalityType
  <2>4. ASSUME NEW j \in Trimmed, NEW k \in S, j < k PROVE k \in Trimmed
    <3>0. j \in Nat /\ k \in Nat
      BY <1>1, <2>1
    <3>1. Below(j) \subseteq Below(k)
      <4> SUFFICES ASSUME NEW l \in S, l < j PROVE l < k
        OBVIOUS
      <4>1. l \in Nat
        BY <1>1
      <4> QED BY <2>4, <3>0, <4>1
    <3>2. Cardinality(Below(j)) <= Cardinality(Below(k))
      BY <2>3, <3>1, FS_Subset
    <3>3. Cardinality(Below(j)) >= StoredMax \div 2 /\ j \in S
      BY <2>1
    <3>4. Cardinality(Below(j)) \in Nat /\ Cardinality(Below(k)) \in Nat
      BY <2>3, <3>3
    <3>5. Cardinality(Below(k)) >= StoredMax \div 2
      BY <2>2, <3>2, <3>3, <3>4
    <3> QED BY <2>1, <3>5
  <2>5. S # {} => Trimmed # {}
    <3> SUFFICES ASSUME S # {} PROVE Trimmed # {}
      OBVIOUS
    <3>1. PICK x \in S : \A y \in S : y <= x
      <4>1. Len(mail) \in Nat /\ S \subseteq 1 .. Len(mail)
        BY LenProperties DEF SessionTypes, MailTypes, Posted
      <4> HIDE DEF S
      <4> QED BY <4>1, GreatestUpTo
    <3>2. Below(x) = S \ {x}
      <4>1. \A y \in S : y < x <=> y # x
        BY <1>1, <3>1
      <4> QED BY <4>1
    <3>3. Cardinality(Below(x)) = Cardinality(S) - 1
      BY <1>1, <3>2, FS_RemoveElement
    <3>4. Cardinality(Below(x)) >= StoredMax \div 2
      BY <1>1, <1>3, <2>2, <3>3
    <3> QED BY <2>1, <3>4
  <2>6. Trimmed \subseteq S
    BY <2>1
  <2> HIDE DEF Below
  <2> QED BY <2>4, <2>5, <2>6
<1> QED BY <1>2, <1>3

\* What the checks refuse is refused after trimming, and what they accept
\* was not known.
LEMMA TrimmedKnows ==
  ASSUME SessionTypes, MailTypes, NEW i \in Nat
  PROVE  Known(i) => Mismatch(i)
<1>1. /\ Trimmed \subseteq stored_msg_ids
      /\ stored_msg_ids # {} => Trimmed # {}
      /\ \A j \in Trimmed, k \in stored_msg_ids : j < k => k \in Trimmed
  BY TrimmedKeepsGreatest
<1>2. stored_msg_ids \subseteq Nat
  BY LenProperties DEF SessionTypes, MailTypes, Posted
<1>3. ASSUME i \in stored_msg_ids, i \notin Trimmed, NEW j \in Trimmed PROVE i < j
  BY <1>1, <1>2, <1>3
<1> QED BY <1>1, <1>3 DEF Known, Mismatch

\* A session that stores one more id forgets none that it would refuse.
LEMMA StillKnown ==
  ASSUME SessionTypes, MailTypes, NEW new \in Nat, NEW i \in Nat, Known(i),
         \/ stored_msg_ids' = Trimmed
         \/ stored_msg_ids' = Trimmed \cup {new} /\ ~Mismatch(new)
  PROVE  Known(i)'
<1>1. Trimmed # {} /\ (i \in Trimmed \/ \A j \in Trimmed : i < j)
  BY TrimmedKnows DEF Mismatch
<1>2. Trimmed \subseteq Nat
  <2>1. Posted \subseteq Nat
    BY LenProperties DEF MailTypes, Posted
  <2> QED BY <2>1, TrimmedKeepsGreatest DEF SessionTypes
<1>3. CASE stored_msg_ids' = Trimmed
  BY <1>1, <1>3 DEF Known
<1>4. CASE stored_msg_ids' = Trimmed \cup {new} /\ ~Mismatch(new)
  <2>1. PICK j \in Trimmed : ~(new < j)
    BY <1>1, <1>4 DEF Mismatch
  <2>2. i \in Trimmed \/ i < new
    BY <1>1, <1>2, <2>1
  <2> QED BY <1>1, <1>4, <2>2 DEF Known
<1> QED BY <1>3, <1>4

\* Accounted messages stay so while mail and the histories grow.
LEMMA StillSettled ==
  ASSUME MailTypes, SessionTypes, NEW i \in Posted, Accounted(i),
         Posted \subseteq Posted', \A j \in Posted : mail'[j] = mail[j],
         handled' \in [Mail -> Nat], \A j \in Mail : handled'[j] >= handled[j],
         refused \subseteq refused'
  PROVE  Accounted(i)'
<1>1. Announced(i) => Announced(i)'
  BY DEF Announced, Posted
<1>2. i \in Mail
  BY BoundsAssumption, LenProperties DEF Posted, Mail, MailTypes
<1>3. handled[i] > 0 => handled'[i] > 0
  <2>1. handled[i] \in Nat /\ handled'[i] \in Nat /\ handled'[i] >= handled[i]
    BY <1>2 DEF SessionTypes
  <2> QED BY <2>1
<1> QED BY <1>1, <1>3 DEF Accounted

\* Callers, the server and the network leave these variables alone.
LEMMA AcksAlone ==
  ASSUME TypeInv, AckInv, Posted \subseteq Posted', \A j \in Posted : mail'[j] = mail[j],
         UNCHANGED <<ids, flushes, acked, past>>
  PROVE  AckInv'
<1>0. UNCHANGED <<pending_acks, stored_msg_ids, flushes, acked, handled, dropped, refused, stops>>
  BY DEF ids, past
<1>1. \A i \in Posted : Accounted(i) => Accounted(i)'
  <2>1. handled \in [Mail -> Nat] /\ \A j \in Mail : handled[j] >= handled[j]
    BY DEF TypeInv, SessionTypes
  <2> QED BY <1>0, <2>1, StillSettled DEF TypeInv
<1>2. \A n \in 1 .. Len(flushes) : flushes[n].ids \subseteq Posted
  <2> SUFFICES ASSUME NEW n \in 1 .. Len(flushes) PROVE flushes[n].ids \subseteq Posted
    OBVIOUS
  <2>1. flushes[n] \in [ids : SUBSET Posted, salt : Nat]
    BY ElementOfSeq DEF TypeInv, SessionTypes
  <2> QED BY <2>1
<1>3. AllSettled'
  BY <1>0, <1>1, <1>2 DEF AckInv, AllSettled, TypeInv, SessionTypes
<1>4. Repeats' /\ Starts'
  BY <1>0 DEF AckInv, Repeats, Starts, Known
<1> QED BY <1>3, <1>4 DEF AckInv

\* Flush: what it appends is what is pending.
LEMMA FlushKeepsSettled ==
  ASSUME TypeInv, NEW pending \in SUBSET Posted, NEW last, Flush(pending, last),
         \A i \in pending : Accounted(i)',
         \A n \in 1 .. Len(flushes) : \A i \in flushes[n].ids : Accounted(i)'
  PROVE  \A n \in 1 .. Len(flushes') : \A i \in flushes'[n].ids : Accounted(i)'
<1> DEFINE f == [ids |-> pending, salt |-> salt]
<1>1. flushes \in Seq([ids : SUBSET Posted, salt : Nat]) /\ f \in [ids : SUBSET Posted, salt : Nat]
  BY BoundsAssumption DEF TypeInv, SessionTypes, CallerTypes
<1>2. flushes' = flushes \/ flushes' = Append(flushes, f)
  BY DEF Flush
<1>3. f.ids = pending
  OBVIOUS
<1> HIDE DEF f
<1>4. CASE flushes' = flushes
  BY <1>4
<1>5. CASE flushes' = Append(flushes, f)
  <2>1. /\ Len(flushes') = Len(flushes) + 1 /\ Len(flushes) \in Nat
        /\ \A n \in 1 .. Len(flushes) : flushes'[n] = flushes[n]
        /\ flushes'[Len(flushes) + 1] = f
    BY <1>1, <1>5, AppendProperties, LenProperties
  <2>2. \A n \in 1 .. Len(flushes') : n \in 1 .. Len(flushes) \/ n = Len(flushes) + 1
    BY <2>1
  <2> QED BY <1>3, <2>1, <2>2
<1> QED BY <1>2, <1>4, <1>5

\* AckWritten and AckFails take the first.
LEMMA TailKeepsSettled ==
  ASSUME TypeInv, flushes # <<>>, flushes' = Tail(flushes),
         \A n \in 1 .. Len(flushes) : \A i \in flushes[n].ids : Accounted(i)'
  PROVE  \A n \in 1 .. Len(flushes') : \A i \in flushes'[n].ids : Accounted(i)'
<1>1. flushes \in Seq([ids : SUBSET Posted, salt : Nat])
  BY DEF TypeInv, SessionTypes
<1>2. /\ Len(flushes) \in Nat /\ Len(flushes') = Len(flushes) - 1
      /\ \A n \in 1 .. Len(flushes') : flushes'[n] = flushes[n + 1]
  BY <1>1, HeadTailProperties, LenProperties
<1>3. \A n \in 1 .. Len(flushes') : n + 1 \in 1 .. Len(flushes)
  BY <1>2
<1> QED BY <1>2, <1>3

LEMMA SessionKeepsAcks ==
  ASSUME TypeInv, TypeInv', AckInv, Session
  PROVE  AckInv'
<1> USE DEF TypeInv
<1>0. UNCHANGED <<mail, Posted>>
  BY DEF Session, Restart, RestartWith, Receive, Discard, SkipAgain, Accept, AcceptIf, AckWritten, Clear, AckFails, server, Posted
<1>1. \A n \in 1 .. Len(flushes) : flushes[n].ids \subseteq Posted
  <2> SUFFICES ASSUME NEW n \in 1 .. Len(flushes) PROVE flushes[n].ids \subseteq Posted
    OBVIOUS
  <2>1. flushes[n] \in [ids : SUBSET Posted, salt : Nat]
    BY ElementOfSeq DEF SessionTypes
  <2> QED BY <2>1
<1>2. Posted \subseteq Mail /\ Mail \subseteq Nat /\ Posted \subseteq Nat
  BY LenProperties, BoundsAssumption DEF Posted, Mail, MailTypes
\* Where handled and refused only grow, what is settled stays settled.
<1>3. ASSUME \A j \in Mail : handled'[j] >= handled[j], refused \subseteq refused'
      PROVE  /\ \A i \in Posted : Accounted(i) => Accounted(i)'
             /\ \A n \in 1 .. Len(flushes) : \A i \in flushes[n].ids : Accounted(i)'
             /\ \A i \in pending_acks \cup acked : Accounted(i)'
  <2>1. \A i \in Posted : Accounted(i) => Accounted(i)'
    BY <1>0, <1>3, StillSettled DEF SessionTypes
  <2> QED BY <1>1, <2>1 DEF AckInv, AllSettled, SessionTypes
<1>4. UNCHANGED handled => \A j \in Mail : handled'[j] >= handled[j]
  BY DEF SessionTypes
<1>5. CASE Restart
  <2>1. UNCHANGED <<pending_acks, flushes, acked, handled, dropped, refused>> /\ stored_msg_ids' = {} /\ stops' = stops + 1
    BY <1>5 DEF Restart, RestartWith, server
  <2>2. AllSettled'
    BY <1>3, <1>4, <2>1 DEF AllSettled
  <2>3. Repeats'
    BY <2>1 DEF AckInv, Repeats
  <2>4. Starts'
    <3> SUFFICES ASSUME NEW i \in Mail PROVE handled'[i] <= stops' + (IF Known(i)' THEN 1 ELSE 0)
      BY DEF Starts
    <3>1. ~Known(i)'
      BY <2>1 DEF Known
    <3>2. handled[i] \in Nat /\ stops \in Nat /\ handled[i] <= stops + (IF Known(i) THEN 1 ELSE 0)
      BY DEF SessionTypes, AckInv, Starts
    <3>3. handled[i] <= stops + 1
      BY <3>2
    <3> QED BY <2>1, <3>1, <3>3
  <2> QED BY <2>2, <2>3, <2>4 DEF AckInv
<1>6. CASE AckWritten
  <2>1. flushes # <<>>
    BY <1>6 DEF AckWritten
  <2>2. PICK sent \in SUBSET Head(flushes).ids : Clear(sent)
    BY <1>6 DEF AckWritten
  <2>3. UNCHANGED <<stored_msg_ids, handled, refused, stops>>
    BY <1>6 DEF AckWritten
  <2>4. /\ flushes' = Tail(flushes) /\ pending_acks' = {}
        /\ acked' = acked \cup sent /\ dropped' = dropped \cup (pending_acks \ sent)
    BY <2>2 DEF Clear
  <2>5. AllSettled'
    <3>1. \A n \in 1 .. Len(flushes') : \A i \in flushes'[n].ids : Accounted(i)'
      BY <1>3, <1>4, <2>1, <2>3, <2>4, TailKeepsSettled
    <3>2. \A i \in sent : Accounted(i)'
      <4>1. Head(flushes) = flushes[1] /\ 1 \in 1 .. Len(flushes)
        BY <2>1, HeadTailProperties, LenProperties DEF SessionTypes
      <4> QED BY <1>3, <1>4, <2>3, <4>1
    <3> QED BY <1>3, <1>4, <2>3, <2>4, <3>1, <3>2 DEF AllSettled
  <2>6. Repeats' /\ Starts'
    BY <2>3, <2>4 DEF AckInv, Repeats, Starts, Known
  <2> QED BY <2>5, <2>6 DEF AckInv
<1>7. CASE AckFails
  <2>1. flushes # <<>> /\ flushes' = Tail(flushes) /\ UNCHANGED <<ids, acked, past>>
    BY <1>7 DEF AckFails, server
  <2>2. UNCHANGED <<pending_acks, stored_msg_ids, acked, handled, dropped, refused, stops>>
    BY <2>1 DEF ids, past
  <2>3. AllSettled'
    BY <1>3, <1>4, <2>1, <2>2, TailKeepsSettled DEF AllSettled
  <2>4. Repeats' /\ Starts'
    BY <2>2 DEF AckInv, Repeats, Starts, Known
  <2> QED BY <2>3, <2>4 DEF AckInv
<1>8. CASE Receive
  <2>0. inbox # <<>> /\ Head(inbox) \in Posted
    BY <1>8, HeadAndTail DEF Receive
  <2>1. PICK i \in Posted : i = Head(inbox)
    BY <2>0
  <2>2. i \in Nat /\ i \in Mail /\ mail[i] \in [kind : Kinds, re : Nat, salt : Nat]
    BY <1>2, <2>1, ElementOfSeq DEF MailTypes, Posted
  <2> DEFINE m == mail[i]
  <2>3. CASE Discard
    <3>1. /\ pending_acks' = WithAck(i) /\ stored_msg_ids' = Trimmed /\ refused' = refused \cup {i}
          /\ UNCHANGED <<flushes, acked, handled, dropped, stops>>
      BY <2>1, <2>3 DEF Discard, server
    <3>2. pending_acks \subseteq pending_acks' /\ pending_acks' \subseteq pending_acks \cup {i}
      BY <3>1 DEF WithAck
    <3>3. Accounted(i)'
      BY <3>1 DEF Accounted
    <3>4. AllSettled'
      BY <1>3, <1>4, <3>1, <3>2, <3>3 DEF AllSettled
    <3>5. Repeats'
      BY <3>1, <3>2 DEF AckInv, Repeats
    <3>6. Starts'
      <4> SUFFICES ASSUME NEW j \in Mail PROVE handled'[j] <= stops' + (IF Known(j)' THEN 1 ELSE 0)
        BY DEF Starts
      <4>1. Known(j) => Known(j)'
        BY <1>2, <2>2, <3>1, StillKnown
      <4>2. handled[j] \in Nat /\ stops \in Nat /\ handled[j] <= stops + (IF Known(j) THEN 1 ELSE 0)
        BY DEF SessionTypes, AckInv, Starts
      <4> QED BY <3>1, <4>1, <4>2
    <3> QED BY <3>4, <3>5, <3>6 DEF AckInv
  <2>4. ASSUME NEW last, SkipAgain(last) PROVE AckInv'
    <3>1. Flush(pending_acks, last) /\ UNCHANGED <<stored_msg_ids, acked, past>>
      BY <2>4 DEF SkipAgain, server
    <3>2. UNCHANGED <<pending_acks, stored_msg_ids, acked, handled, dropped, refused, stops>>
      BY <3>1 DEF past, Flush
    <3>3. AllSettled'
      BY <1>3, <1>4, <3>1, <3>2, FlushKeepsSettled DEF AllSettled, SessionTypes
    <3>4. Repeats' /\ Starts'
      BY <3>2 DEF AckInv, Repeats, Starts, Known
    <3> QED BY <3>3, <3>4 DEF AckInv
  <2>5. ASSUME NEW last, Accept(last) PROVE AckInv'
    <3> DEFINE pending == IF m.kind = "info" THEN pending_acks \cup {m.re} ELSE WithAck(i)
    <3>1. /\ ~Again(i) /\ ~Mismatch(i)
          /\ stored_msg_ids' = Trimmed \cup {i}
          /\ Flush(pending, last)
          /\ handled' = IF m.kind = "update" THEN [handled EXCEPT ![i] = @ + 1] ELSE handled
          /\ UNCHANGED <<acked, dropped, refused, stops>>
      BY <2>1, <2>5 DEF Accept, AcceptIf, server
    <3>2. pending_acks' = pending
      BY <3>1 DEF Flush
    <3>3. pending \in SUBSET Posted /\ pending_acks \subseteq pending
      BY <2>1 DEF WithAck, SessionTypes, MailTypes
    <3>4. /\ m.kind = "update" => handled'[i] = handled[i] + 1
          /\ m.kind # "update" => handled'[i] = handled[i]
          /\ \A j \in Mail \ {i} : handled'[j] = handled[j]
          /\ \A j \in Mail : handled[j] \in Nat
      BY <2>2, <3>1 DEF SessionTypes
    <3>5. m.kind = "update" => i \in pending /\ i \notin pending_acks
      BY <3>1 DEF Again, Content, WithAck
    <3>6. \A j \in pending \ pending_acks : Accounted(j)'
      <4> SUFFICES ASSUME NEW j \in pending, j \notin pending_acks PROVE Accounted(j)'
        OBVIOUS
      <4>1. CASE m.kind = "info"
        <5>1. j = m.re
          BY <4>1
        <5> QED BY <1>0, <2>1, <4>1, <5>1 DEF Accounted, Announced, Posted
      <4>2. CASE m.kind # "info"
        <5>1. j = i
          BY <4>2 DEF WithAck
        <5>2. m.kind = "update" => handled'[i] > 0
          BY <2>2, <3>4
        <5> QED BY <1>0, <5>1, <5>2 DEF Accounted
      <4> QED BY <4>1, <4>2
    <3>7. \A j \in Mail : handled'[j] >= handled[j]
      <4> HIDE DEF m
      <4>1. handled'[i] = handled[i] + 1 \/ handled'[i] = handled[i]
        BY <3>4
      <4>2. handled[i] \in Nat /\ handled'[i] >= handled[i]
        BY <2>2, <3>4, <4>1
      <4> QED BY <3>4, <4>2
    <3> HIDE DEF pending, m
    <3>8. AllSettled'
      <4>1. \A j \in pending : Accounted(j)'
        BY <1>3, <3>1, <3>6, <3>7
      <4>2. \A n \in 1 .. Len(flushes') : \A j \in flushes'[n].ids : Accounted(j)'
        BY <1>3, <3>1, <3>3, <3>7, <4>1, FlushKeepsSettled
      <4> QED BY <1>3, <3>1, <3>2, <3>7, <4>1, <4>2 DEF AllSettled
    <3>9. Repeats'
      <4>1. handled[i] > 0 => i \in pending_acks \cup dropped \cup acked
        BY <2>2 DEF AckInv, Repeats
      <4>2. m.kind = "update" /\ handled'[i] > 1 => i \in dropped \cup acked
        BY <2>2, <3>4, <3>5, <4>1
      <4>3. m.kind # "update" => \A j \in Mail : handled'[j] = handled[j]
        BY <2>2, <3>4
      <4>4. /\ \A j \in Mail : handled[j] > 0 => j \in pending_acks \cup dropped \cup acked
            /\ \A j \in Mail : handled[j] > 1 => j \in dropped \cup acked
        BY DEF AckInv, Repeats
      <4>5. \A j \in Mail : handled'[j] > 0 => j \in pending \cup dropped \cup acked
        BY <3>3, <3>4, <3>5, <4>3, <4>4
      <4>6. \A j \in Mail : handled'[j] > 1 => j \in dropped \cup acked
        BY <3>4, <4>2, <4>3, <4>4
      <4> QED BY <3>1, <3>2, <4>5, <4>6 DEF Repeats
    <3>10. Starts'
      <4> SUFFICES ASSUME NEW j \in Mail PROVE handled'[j] <= stops' + (IF Known(j)' THEN 1 ELSE 0)
        BY DEF Starts
      <4>1. handled[j] \in Nat /\ stops \in Nat /\ handled[j] <= stops + (IF Known(j) THEN 1 ELSE 0)
        BY DEF SessionTypes, AckInv, Starts
      <4>2. CASE j = i
        <5>1. ~Known(i)
          BY <2>2, <3>1, TrimmedKnows
        <5>2. Known(i)'
          BY <3>1 DEF Known
        <5>3. handled[i] \in Nat /\ handled'[i] <= handled[i] + 1
          BY <2>2, <3>4
        <5>4. handled'[i] \in Nat
          BY <2>2 DEF SessionTypes
        <5> QED BY <3>1, <4>1, <4>2, <5>1, <5>2, <5>3, <5>4
      <4>3. CASE j # i
        <5>1. Known(j) => Known(j)'
          BY <1>2, <2>2, <3>1, StillKnown
        <5>2. handled'[j] = handled[j]
          BY <3>4, <4>3
        <5> QED BY <3>1, <4>1, <5>1, <5>2
      <4> QED BY <4>2, <4>3
    <3> QED BY <3>8, <3>9, <3>10 DEF AckInv
  <2> QED BY <1>8, <2>3, <2>4, <2>5 DEF Receive
<1> QED BY <1>5, <1>6, <1>7, <1>8 DEF Session

-----------------------------------------------------------------------------
(***************************************************************************)
(* The theorems.                                                           *)
(***************************************************************************)
IInv == TypeInv /\ EntryInv /\ AnswerInv /\ BudgetInv /\ AckInv

LEMMA InitIInv == Init => IInv
<1> SUFFICES ASSUME Init PROVE IInv
  OBVIOUS
<1>1. TypeInv
  BY InitTypes
<1>2. EntryInv
  BY DEF Init, EntryInv, Awaiting
<1>3. AnswerInv
  BY DEF Init, AnswerInv, Posted
<1>4. BudgetInv
  <2> SUFFICES ASSUME NEW c \in Callers PROVE Cardinality(Live(c)) + Left(c) <= Retries[c] + 1
    BY DEF BudgetInv
  <2>1. Live(c) = {}
    BY DEF Init, Live, Issued
  <2>2. Left(c) = Retries[c] + 1 /\ Retries[c] \in Nat
    BY RetriesAssumption DEF Init, Left
  <2> QED BY <2>1, <2>2, FS_EmptySet
<1>5. AckInv
  BY DEF Init, AckInv, AllSettled, Repeats, Starts, Known, Mail
<1> QED BY <1>1, <1>2, <1>3, <1>4, <1>5 DEF IInv

LEMMA NextIInv == IInv /\ [Next]_vars => IInv'
<1> SUFFICES ASSUME IInv, [Next]_vars PROVE IInv'
  OBVIOUS
<1> USE DEF IInv
<1>1. ASSUME NEW c \in Callers, Caller(c) PROVE IInv'
  <2>1. TypeInv'
    BY <1>1, CallerKeepsTypes DEF EntryInv
  <2>2. EntryInv' /\ AnswerInv' /\ BudgetInv'
    BY <1>1, CallerKeepsEntries, CallerKeepsAnswers, CallerKeepsBudget
  <2>3. AckInv'
    BY <1>1, CallerLeaves, AcksAlone DEF server, Posted
  <2> QED BY <2>1, <2>2, <2>3
<1>2. CASE Session
  <2>1. TypeInv'
    BY <1>2, SessionKeepsTypes
  <2> QED BY <1>2, <2>1, EntriesStay, AnswersStay, BudgetStays, SessionKeepsAcks
<1>3. CASE Network
  <2>1. UNCHANGED <<ids, flushes, acked, past>>
    BY <1>3 DEF Network, Push, NewSalt, Lose, Execute, Resend, server
  <2>2. AckInv'
    BY <1>3, <2>1, MailGrows, AcksAlone
  <2> QED BY <1>3, <2>2, NetworkKeepsTypes, EntriesStay, AnswersStay, BudgetStays
<1>4. CASE UNCHANGED vars
  <2>1. TypeInv'
    BY <1>4 DEF vars, caller, ids, server, past, TypeInv, CallerTypes, EntryTypes, MailTypes, SessionTypes, Posted, Issued
  <2>2. AckInv'
    BY <1>4, AcksAlone DEF vars, server, Posted
  <2> QED BY <1>4, <2>1, <2>2, EntriesStay, AnswersStay, BudgetStays
<1> QED BY <1>1, <1>2, <1>3, <1>4 DEF Next

LEMMA Always == Spec => []IInv
BY InitIInv, NextIInv, PTL DEF Spec

\* The variables have their types, and no caller takes more retries than it
\* was given (invoke's `retries` counts down to 0).
THEOREM TypeCorrectness == Spec => []TypeOK
<1>1. IInv => TypeOK
  BY TypesSuffice DEF IInv
<1> QED BY <1>1, Always, PTL

\* Whoever waits has an entry in `results`, and every entry belongs to a caller
\* that waits or was cancelled: send's `finally` leaves nothing else behind.
THEOREM EntriesMatch == Spec => []EntriesMatchCallers
<1>1. IInv => EntriesMatchCallers
  BY TypesSuffice DEF IInv, EntryInv, EntriesMatchCallers
<1> QED BY <1>1, Always, PTL

\* However often the server repeats an update, one start of the session hands
\* it to the handlers once, and never while it waits to be acknowledged.
THEOREM HandledPerStart == Spec => []HandledOncePerStart
<1>1. ASSUME IInv PROVE HandledOncePerStart
  <2> SUFFICES ASSUME NEW i \in Mail
               PROVE  handled[i] <= stops + 1 /\ (handled[i] > 1 => i \in dropped \cup acked)
    BY DEF HandledOncePerStart
  <2>1. handled[i] \in Nat /\ stops \in Nat
    BY <1>1 DEF IInv, TypeInv, SessionTypes
  <2>2. handled[i] <= stops + (IF Known(i) THEN 1 ELSE 0)
    BY <1>1 DEF IInv, AckInv, Starts
  <2>3. handled[i] > 1 => i \in dropped \cup acked
    BY <1>1 DEF IInv, AckInv, Repeats
  <2> QED BY <2>1, <2>2, <2>3
<1> QED BY <1>1, Always, PTL

\* The session acknowledges no update that it did not handle, but for one its
\* id checks refused or one that was announced before it came.
THEOREM AckedHandled == Spec => []AckedMeansHandled
<1>1. IInv => AckedMeansHandled
  BY DEF IInv, AckInv, AllSettled, Accounted, AckedMeansHandled
<1> QED BY <1>1, Always, PTL

\* The results of a caller answer different live messages of it.
LEMMA ProducedBounded ==
  ASSUME IInv, NEW id \in wire
  PROVE  Cardinality(produced[messages[id].by]) < Retries[messages[id].by] + 1
<1> DEFINE c == messages[id].by
           P == produced[c]
           T == Live(c) \ {id}
           f == [i \in P |-> mail[i].re]
<1>1. c \in Callers /\ id \in Issued
  BY Senders DEF IInv, TypeInv, EntryTypes
<1>2. IsFiniteSet(Live(c)) /\ Cardinality(Live(c)) \in Nat /\ Left(c) \in Nat
  BY <1>1, LiveIsFinite DEF IInv, TypeInv
<1>3. id \in Live(c)
  BY <1>1 DEF Live
<1>4. IsFiniteSet(T) /\ Cardinality(T) = Cardinality(Live(c)) - 1
  BY <1>2, <1>3, FS_RemoveElement
<1>5. \A i \in P : i \in Posted /\ mail[i].kind \in Answers /\ messages[mail[i].re].by = c
  BY <1>1 DEF IInv, TypeInv, SessionTypes, AnswerInv, Answers
<1>6. \A i \in P : mail[i].re \in Issued /\ mail[i].re \notin wire
  BY <1>5 DEF IInv, TypeInv, MailTypes, AnswerInv
<1>7. \A i \in P : mail[i].re \in T
  BY <1>5, <1>6 DEF Live
<1>8. \A i, j \in P : mail[i].re = mail[j].re => i = j
  BY <1>5 DEF IInv, AnswerInv
<1>9. f \in Injection(P, T)
  <2> HIDE DEF T, P
  <2> QED BY <1>7, <1>8 DEF Injection, IsInjective
<1>10. IsFiniteSet(P) /\ Cardinality(P) <= Cardinality(T) /\ Cardinality(P) \in Nat
  <2> HIDE DEF f, P, T
  <2> QED BY <1>4, <1>9, FS_Injection, FS_CardinalityType
<1>11. Cardinality(Live(c)) + Left(c) <= Retries[c] + 1 /\ Retries[c] \in Nat
  BY <1>1, RetriesAssumption DEF IInv, BudgetInv
<1> HIDE DEF c, P, T
<1>12. Cardinality(P) < Retries[c] + 1
  BY <1>2, <1>4, <1>10, <1>11
<1> QED BY <1>12 DEF c, P

\* RemoteCall counts with the same Cardinality.
LEMMA SameCardinality == ASSUME NEW S PROVE Call!Cardinality(S) = Cardinality(S)
BY Zenon DEF Call!Cardinality, Cardinality

LEMMA StepRefines == IInv /\ [Next]_vars => [Call!Next]_(Call!callVars)
<1> SUFFICES ASSUME IInv, [Next]_vars PROVE Call!Next \/ UNCHANGED <<produced, outcome, got>>
  BY DEF Call!callVars
<1> USE DEF IInv
<1>1. ASSUME NEW id \in wire, Execute(id) PROVE Call!Next \/ UNCHANGED <<produced, outcome, got>>
  <2> DEFINE n == Len(mail) + 1
             c == messages[id].by
  <2>1. UNCHANGED <<outcome, got>> /\ (UNCHANGED produced \/ produced' = [produced EXCEPT ![c] = @ \cup {n}])
    BY <1>1, ExecuteKeepsAnswers DEF Execute, caller
  <2>2. c \in Callers
    BY Senders DEF TypeInv, EntryTypes
  <2>3. n \in Mail \ UNION {produced[d] : d \in Callers}
    <3>1. n \in Mail
      <4>1. Len(mail) < MaxMail /\ Len(mail) \in Nat
        BY <1>1, LenProperties DEF Execute, Post, TypeInv, MailTypes
      <4> QED BY <4>1, BoundsAssumption DEF Mail
    <3>2. n \notin Posted
      BY LenProperties DEF Posted, TypeInv, MailTypes
    <3> QED BY <3>1, <3>2 DEF TypeInv, SessionTypes
  <2>4. Call!Cardinality(produced[c]) < [d \in Callers |-> Retries[d] + 1][c]
    BY <2>2, ProducedBounded, SameCardinality
  <2> HIDE DEF n, c
  <2>5. CASE produced' = [produced EXCEPT ![c] = @ \cup {n}]
    <3>1. Call!Execute(c)
      <4>1. \E v \in Mail \ UNION {produced[d] : d \in Callers} : produced' = [produced EXCEPT ![c] = @ \cup {v}]
        BY <2>3, <2>5, Zenon
      <4> QED BY <2>1, <2>4, <4>1, Zenon DEF Call!Execute
    <3> QED BY <2>2, <3>1 DEF Call!Next
  <2> QED BY <2>1, <2>5
<1>2. ASSUME NEW c \in Callers, Caller(c) PROVE Call!Next \/ UNCHANGED <<produced, outcome, got>>
  <2>1. UNCHANGED produced
    BY <1>2, CallerLeaves
  <2>2. pc[c] # "ended" => outcome[c] = "none"
    BY DEF EntryInv
  <2>3. ASSUME outcome[c] = "none", NEW o \in {"raised", "notice", "cancelled"}, Ends(c, o), UNCHANGED got
        PROVE  Call!Next
    <3>1. Call!Fail(c)
      BY <2>1, <2>3 DEF Call!Fail, Call!Failures, Ends
    <3> QED BY <3>1 DEF Call!Next
  <2>4. ASSUME pc[c] # "ended", Retry(c), UNCHANGED got
        PROVE  Call!Next \/ UNCHANGED <<produced, outcome, got>>
    BY <2>1, <2>2, <2>3, <2>4 DEF Retry
  <2>5. ASSUME pc[c] # "ended", NEW known, NEW s, Send(c, known, s), UNCHANGED got
        PROVE  Call!Next \/ UNCHANGED <<produced, outcome, got>>
    BY <2>1, <2>4, <2>5 DEF Send
  <2>6. CASE Issue(c)
    BY <2>5, <2>6 DEF Issue
  <2>7. CASE TakeSalt(c)
    BY <2>5, <2>7 DEF TakeSalt, HasValue
  <2>8. CASE TimeOut(c)
    BY <2>4, <2>8 DEF TimeOut, TimesOut
  <2>9. CASE Cancel(c)
    BY <2>2, <2>3, <2>9 DEF Cancel
  <2>10. CASE TakeError(c)
    BY <2>1, <2>2, <2>3, <2>4, <2>10 DEF TakeError, HasValue
  <2>11. CASE TakeResult(c)
    <3>1. CASE Ends(c, "notice") /\ UNCHANGED got
      BY <2>2, <2>3, <2>11, <3>1 DEF TakeResult, HasValue
    <3>2. CASE Value(c) = "result" /\ Ends(c, "result") /\ got' = [got EXCEPT ![c] = results[msg[c]]]
      <4> DEFINE v == results[msg[c]]
      <4>1. msg[c] \in DOMAIN results /\ v # 0 /\ messages[msg[c]].by = c /\ outcome[c] = "none"
        BY <2>2, <2>11 DEF TakeResult, HasValue, EntryInv, Awaiting
      <4>2. v \in Posted /\ mail[v].re = msg[c] /\ mail[v].kind = "result"
        BY <3>2, <4>1 DEF EntryInv, Answered, Value
      <4>3. v \in produced[c]
        BY <4>1, <4>2 DEF AnswerInv, Answers
      <4>4. Call!Return(c)
        BY <2>1, <3>2, <4>1, <4>3 DEF Call!Return, Ends
      <4> QED BY <4>4 DEF Call!Next
    <3> QED BY <2>11, <3>1, <3>2 DEF TakeResult
  <2> QED BY <1>2, <2>6, <2>7, <2>8, <2>9, <2>10, <2>11 DEF Caller
<1>3. CASE Session \/ Push \/ NewSalt \/ Lose \/ (\E i \in 1 .. Len(mail) : Resend(i)) \/ UNCHANGED vars
  BY <1>3 DEF Session, Restart, RestartWith, Receive, Discard, SkipAgain, Accept, AcceptIf, AckWritten, AckFails,
              Push, NewSalt, Lose, Resend, vars, caller
<1> QED BY <1>1, <1>2, <1>3 DEF Next, Network

\* invoke keeps what RemoteCall promises: the value a call returns is one the
\* server computed for it, it ends once, and the server executes it once per
\* attempt at most, whatever is lost, repeated, late or sent again.
THEOREM ImplementsRemoteCall == Spec => CallSpec
<1>1. Init => Call!Init
  BY DEF Init, Call!Init
<1> QED BY <1>1, Always, StepRefines, PTL DEF Spec, CallSpec, Call!Spec

-----------------------------------------------------------------------------
(***************************************************************************)
(* SessionLife, for any number of calls, connections and failures.         *)
(***************************************************************************)
\* The types by what they are about.
LifePlaces == Over \cup {"stop", "ping", "close", "recv", "connect", "hello", "config"}
CallTypes ==
    /\ task \in [Tasks -> LifePlaces]
    /\ then \in [Tasks -> {"start", "raise", "end"}]
    /\ waits \in [Tasks -> Numbers]
    /\ answered \in [Tasks -> BOOLEAN]
NetTypes ==
    /\ connection \in Conns
    /\ net \in [Conns -> {"none", "new", "open", "broken", "closed"}]
ReaderTypes ==
    /\ recv_task \in Numbers /\ (recv_task # 0 => reader[recv_task] # "none")
    /\ reader \in [Conns -> {"none", "begin", "reading", "ended", "died"}]
    /\ reads \in [Conns -> Numbers]
PingerTypes ==
    /\ ping_task \in Numbers /\ (ping_task # 0 => pinger[ping_task] # "none")
    /\ pinger \in [Conns -> {"none", "waiting", "woken", "sending", "ended"}]
FlagTypes ==
    /\ {ping_event, is_started, overlapped, fatal} \subseteq BOOLEAN
    /\ failures \in 0 .. MaxFailures
LifeTypes == CallTypes /\ NetTypes /\ ReaderTypes /\ PingerTypes /\ FlagTypes

flags == <<ping_event, is_started, failures, overlapped, fatal>>

LEMMA TypesOfLife == LifeTypeOK <=> LifeTypes
BY DEF LifeTypeOK, LifeTypes, CallTypes, NetTypes, ReaderTypes, PingerTypes, FlagTypes, LifePlaces

LEMMA NumbersAndConns ==
  /\ 1 \in Conns /\ 1 \in Tasks /\ Conns \subseteq Numbers
  /\ 0 \in Numbers /\ 0 \notin Conns
  /\ \A n \in Numbers : n # 0 => n \in Conns
BY LifeBounds DEF Conns, Tasks, Numbers

LEMMA InitLifeTypes == ASSUME LifeInit PROVE LifeTypes
<1>1. CallTypes
  BY NumbersAndConns DEF LifeInit, CallTypes, LifePlaces, Over
<1>2. NetTypes
  BY NumbersAndConns DEF LifeInit, NetTypes
<1>3. ReaderTypes /\ PingerTypes
  BY NumbersAndConns DEF LifeInit, ReaderTypes, PingerTypes
<1>4. MaxFailures \in Nat
  BY LifeBounds
<1>5. failures = 0 /\ ping_event \in BOOLEAN /\ is_started \in BOOLEAN
  BY DEF LifeInit
<1>6. overlapped \in BOOLEAN /\ fatal \in BOOLEAN
  BY DEF LifeInit
<1>7. FlagTypes
  BY <1>4, <1>5, <1>6 DEF FlagTypes
<1> QED BY <1>1, <1>2, <1>3, <1>7 DEF LifeTypes

LEMMA GoTypes ==
  ASSUME CallTypes, NEW t \in Tasks, NEW x \in LifePlaces, NEW n \in Numbers,
         Goto(t, x, n), then' \in [Tasks -> {"start", "raise", "end"}]
  PROVE  CallTypes'
BY DEF CallTypes, Goto

LEMMA StopTypes ==
  ASSUME CallTypes, PingerTypes, NEW t \in Tasks, BeginStop(t), UNCHANGED ping_task,
         then' \in [Tasks -> {"start", "raise", "end"}]
  PROVE  CallTypes' /\ PingerTypes' /\ ping_event' = TRUE /\ is_started' = FALSE
<1>1. "ping" \in LifePlaces /\ ping_task \in Numbers
  BY DEF LifePlaces, PingerTypes
<1>2. CallTypes'
  BY <1>1, GoTypes DEF BeginStop
<1>3. pinger' \in [Conns -> {"none", "waiting", "woken", "sending", "ended"}]
  BY DEF BeginStop, PingerTypes
<1>4. ping_task' # 0 => pinger'[ping_task'] # "none"
  BY DEF BeginStop, PingerTypes, Numbers, Conns
<1> QED BY <1>2, <1>3, <1>4 DEF PingerTypes, BeginStop

LEMMA CreateTypes ==
  ASSUME CallTypes, FlagTypes, NEW what \in {"start", "end"}, Create(what), UNCHANGED <<waits, answered>>
  PROVE  CallTypes' /\ overlapped' \in BOOLEAN
<1>1. PICK t \in Tasks : task' = [task EXCEPT ![t] = "stop"] /\ then' = [then EXCEPT ![t] = what]
  BY DEF Create
<1>2. overlapped' \in BOOLEAN
  BY DEF Create, FlagTypes
<1> QED BY <1>1, <1>2 DEF CallTypes, LifePlaces

LEMMA FaultTypes == ASSUME FlagTypes, Failure PROVE failures' \in 0 .. MaxFailures
BY LifeBounds DEF FlagTypes, Failure

LEMMA CallKeepsTypes ==
  ASSUME LifeTypes, NEW t \in Tasks,
         TaskStep(t) \/ NoAnswer(t) \/ ConnectFails(t) \/ Rejected(t)
  PROVE  LifeTypes'
<1> USE NumbersAndConns DEF LifeTypes
<1>1. CASE Stop(t)
  <2>1. CallTypes' /\ PingerTypes' /\ ping_event' = TRUE /\ is_started' = FALSE
    BY <1>1, StopTypes DEF Stop, CallTypes
  <2> QED BY <1>1, <2>1 DEF Stop, recv, history, NetTypes, ReaderTypes, FlagTypes
<1>2. CASE AwaitPing(t)
  <2>1. CallTypes'
    BY <1>2, GoTypes DEF AwaitPing, ThenClose, LifePlaces, CallTypes
  <2>2. NetTypes'
    BY <1>2 DEF AwaitPing, ThenClose, NetTypes
  <2> QED BY <1>2, <2>1, <2>2
          DEF AwaitPing, ThenClose, recv, ping, history, ReaderTypes, PingerTypes, FlagTypes
<1>3. CASE AwaitClose(t)
  <2>1. CallTypes'
    BY <1>3, GoTypes DEF AwaitClose, ThenAwait, LifePlaces, CallTypes, ReaderTypes
  <2> QED BY <1>3, <2>1
          DEF AwaitClose, ThenAwait, recv, ping, history,
              NetTypes, ReaderTypes, PingerTypes, FlagTypes
<1>4. CASE AwaitRecv(t)
  <2>1. ReaderTypes' /\ PingerTypes' /\ FlagTypes' /\ UNCHANGED then
    BY <1>4 DEF AwaitRecv, recv, ping, history, ReaderTypes, PingerTypes, FlagTypes
  <2>2. CASE Connect(t)
    <3>1. PICK c \in Conns :
            net' = [net EXCEPT ![c] = "new"] /\ connection' = c /\ Goto(t, "connect", c)
      BY <2>2 DEF Connect
    <3>2. CallTypes'
      BY <2>1, <3>1, GoTypes DEF LifePlaces, CallTypes
    <3>3. NetTypes'
      BY <3>1 DEF NetTypes
    <3> QED BY <2>1, <3>2, <3>3
  <2>3. CASE ~Connect(t)
    <3>1. /\ Goto(t, "failed", 0) \/ Goto(t, "ended", 0)
          /\ UNCHANGED <<net, connection>>
      BY <1>4, <2>3 DEF AwaitRecv
    <3>2. CallTypes'
      BY <2>1, <3>1, GoTypes DEF LifePlaces, Over, CallTypes
    <3> QED BY <2>1, <3>1, <3>2 DEF NetTypes
  <2> QED BY <2>2, <2>3
<1>5. CASE Connected(t)
  <2> DEFINE r == recv_task + 1
  <2>1. r \in Conns /\ r # 0
    BY <1>5 DEF Connected
  <2>2. NetTypes'
    BY <1>5 DEF Connected, NetTypes
  <2>3. Target(net') \in Numbers
    BY DEF Target, NetTypes
  <2>4. CallTypes'
    BY <1>5, <2>3, GoTypes DEF Connected, LifePlaces, CallTypes
  <2>5. ReaderTypes'
    BY <1>5, <2>1 DEF Connected, ReaderTypes
  <2> QED BY <1>5, <2>2, <2>4, <2>5
          DEF Connected, ping, history, PingerTypes, FlagTypes
<1>6. CASE Proceed(t)
  <2>1. UNCHANGED <<then, connection, net, recv_task, reader, reads, ping_event, failures, overlapped, fatal>>
    BY <1>6 DEF Proceed, recv, history
  <2>2. NetTypes' /\ ReaderTypes'
    BY <2>1 DEF NetTypes, ReaderTypes
  <2>3. CASE task[t] = "hello"
    <3>1. Target(net) \in Numbers
      BY DEF Target, NetTypes
    <3>2. CallTypes'
      BY <1>6, <2>1, <2>3, <3>1, GoTypes DEF Proceed, LifePlaces, CallTypes
    <3> QED BY <1>6, <2>1, <2>2, <2>3, <3>2 DEF Proceed, ping, PingerTypes, FlagTypes
  <2>4. CASE task[t] # "hello"
    <3> DEFINE p == ping_task + 1
    <3>1. /\ p \in Conns /\ p # 0 /\ ping_task' = p /\ is_started' = TRUE
          /\ pinger' = [pinger EXCEPT ![p] = IF ping_event THEN "ended" ELSE "waiting"]
          /\ Goto(t, "ended", 0)
      BY <1>6, <2>4 DEF Proceed
    <3>2. CallTypes'
      BY <2>1, <3>1, GoTypes DEF LifePlaces, Over, CallTypes
    <3>3. PingerTypes'
      BY <3>1 DEF PingerTypes
    <3> QED BY <2>1, <2>2, <3>1, <3>2, <3>3 DEF FlagTypes
  <2> QED BY <2>3, <2>4
<1>7. CASE NoAnswer(t)
  <2>1. CallTypes' /\ PingerTypes' /\ ping_event' = TRUE /\ is_started' = FALSE
    BY <1>7, StopTypes DEF NoAnswer, CallTypes
  <2>2. failures' \in 0 .. MaxFailures
    BY <1>7, FaultTypes DEF NoAnswer, FlagTypes
  <2> QED BY <1>7, <2>1, <2>2 DEF NoAnswer, recv, NetTypes, ReaderTypes, FlagTypes
<1>8. CASE ConnectFails(t)
  <2>1. CallTypes' /\ PingerTypes' /\ ping_event' = TRUE /\ is_started' = FALSE
    BY <1>8, StopTypes DEF ConnectFails, CallTypes
  <2>2. failures' \in 0 .. MaxFailures
    BY <1>8, FaultTypes DEF ConnectFails
  <2> QED BY <1>8, <2>1, <2>2 DEF ConnectFails, recv, NetTypes, ReaderTypes, FlagTypes
<1>9. CASE Rejected(t)
  <2>1. CallTypes' /\ PingerTypes' /\ ping_event' = TRUE /\ is_started' = FALSE
    BY <1>9, StopTypes DEF Rejected, CallTypes
  <2>2. failures' \in 0 .. MaxFailures
    BY <1>9, FaultTypes DEF Rejected
  <2> QED BY <1>9, <2>1, <2>2 DEF Rejected, recv, NetTypes, ReaderTypes, FlagTypes
<1> QED BY <1>1, <1>2, <1>3, <1>4, <1>5, <1>6, <1>7, <1>8, <1>9 DEF TaskStep

LEMMA FinishTypes ==
  ASSUME LifeTypes, NEW r \in Conns, Finish(r)
  PROVE  /\ CallTypes' /\ NetTypes' /\ ReaderTypes' /\ PingerTypes' /\ overlapped' \in BOOLEAN
         /\ UNCHANGED <<ping_event, is_started, fatal>>
<1> USE DEF LifeTypes, Finish, FinishIf
<1>1. UNCHANGED <<waits, answered, connection, net, recv_task, reads, ping_task, pinger, ping_event, is_started, fatal>>
  BY DEF ping
<1>2. CallTypes' /\ overlapped' \in BOOLEAN
  <2>1. CASE is_started
    BY <1>1, <2>1, CreateTypes
  <2>2. CASE ~is_started
    BY <1>1, <2>2 DEF CallTypes, FlagTypes
  <2> QED BY <2>1, <2>2
<1>3. ReaderTypes'
  BY <1>1 DEF ReaderTypes
<1> QED BY <1>1, <1>2, <1>3 DEF NetTypes, PingerTypes

LEMMA ReaderKeepsTypes ==
  ASSUME LifeTypes, NEW r \in Conns,
         ReaderStep(r) \/ BadPacket(r) \/ Packet(r) \/ Silence(r) \/ KeyNotFound(r)
  PROVE  LifeTypes'
<1>1. CASE Read(r)
  <2>1. UNCHANGED <<life, connection, net, recv_task, ping_task, pinger, flags>>
    BY <1>1 DEF Read, life, ping, history, flags
  <2>2. ReaderTypes'
    BY <1>1, <2>1, NumbersAndConns DEF Read, LifeTypes, ReaderTypes, NetTypes
  <2> QED BY <2>1, <2>2 DEF LifeTypes, CallTypes, NetTypes, PingerTypes, FlagTypes, life, flags
<1>2. CASE Answer(r)
  <2>1. UNCHANGED <<task, then, waits, connection, net, recv_task, reads, ping_task, pinger, flags>>
    BY <1>2 DEF Answer, ping, history, flags
  <2>2. ReaderTypes' /\ CallTypes'
    BY <1>2, <2>1 DEF Answer, LifeTypes, ReaderTypes, CallTypes
  <2> QED BY <2>1, <2>2 DEF LifeTypes, NetTypes, PingerTypes, FlagTypes, flags
<1>3. CASE EndOfStream(r)
  BY <1>3, FinishTypes DEF EndOfStream, LifeTypes, FlagTypes
<1>4. CASE BadPacket(r)
  <2>1. UNCHANGED <<waits, answered, connection, net, recv_task, reads, ping_task, pinger, ping_event, is_started, fatal>>
    BY <1>4 DEF BadPacket, ping
  <2>2. CallTypes' /\ overlapped' \in BOOLEAN /\ failures' \in 0 .. MaxFailures
    BY <1>4, <2>1, CreateTypes, FaultTypes DEF BadPacket, LifeTypes
  <2>3. ReaderTypes'
    BY <1>4, <2>1 DEF BadPacket, LifeTypes, ReaderTypes
  <2> QED BY <2>1, <2>2, <2>3 DEF LifeTypes, NetTypes, PingerTypes, FlagTypes
<1>5. CASE Packet(r)
  <2>1. UNCHANGED <<life, connection, net, recv_task, reads, ping_task, pinger, flags>>
    BY <1>5 DEF Packet, life, ping, history, flags
  <2>2. ReaderTypes'
    BY <1>5, <2>1 DEF Packet, LifeTypes, ReaderTypes
  <2> QED BY <2>1, <2>2 DEF LifeTypes, CallTypes, NetTypes, PingerTypes, FlagTypes, life, flags
<1>6. CASE Silence(r)
  <2>1. failures' \in 0 .. MaxFailures
    BY <1>6, FaultTypes DEF Silence, LifeTypes
  <2> QED BY <1>6, <2>1, FinishTypes DEF Silence, LifeTypes, FlagTypes
<1>7. CASE KeyNotFound(r)
  <2>1. UNCHANGED <<life, connection, net, recv_task, reads, ping_task, pinger, ping_event, is_started, overlapped>>
    BY <1>7 DEF KeyNotFound, life, ping
  <2>2. failures' \in 0 .. MaxFailures /\ fatal' = TRUE
    BY <1>7, FaultTypes DEF KeyNotFound, LifeTypes
  <2>3. ReaderTypes'
    BY <1>7, <2>1 DEF KeyNotFound, LifeTypes, ReaderTypes
  <2> QED BY <2>1, <2>2, <2>3 DEF LifeTypes, CallTypes, NetTypes, PingerTypes, FlagTypes, life
<1> QED BY <1>1, <1>2, <1>3, <1>4, <1>5, <1>6, <1>7 DEF ReaderStep

LEMMA RestKeepsTypes ==
  ASSUME LifeTypes,
         \/ \E p \in Conns : PingerStep(p)
         \/ \E c \in Conns : Breaks(c)
         \/ Disconnect
  PROVE  LifeTypes'
<1>1. ASSUME NEW p \in Conns, Tick(p) \/ PingGoes(p) \/ Woken(p) PROVE LifeTypes'
  <2>1. UNCHANGED <<life, connection, net, recv_task, reader, reads, ping_task, flags>>
    BY <1>1 DEF Tick, PingGoes, PingGoesThen, Woken, life, recv, history, flags
  <2>2. \E x \in {"waiting", "sending", "ended"} : pinger' = [pinger EXCEPT ![p] = x]
    BY <1>1 DEF Tick, PingGoes, PingGoesThen, Woken
  <2>3. PingerTypes'
    BY <2>1, <2>2 DEF LifeTypes, PingerTypes
  <2> QED BY <2>1, <2>3 DEF LifeTypes, CallTypes, NetTypes, ReaderTypes, FlagTypes, life, flags
<1>2. ASSUME NEW p \in Conns, PingFails(p) PROVE LifeTypes'
  <2>1. UNCHANGED <<waits, answered, connection, net, recv_task, reader, reads, ping_task, ping_event,
                    is_started, failures, fatal>>
    BY <1>2 DEF PingFails, recv
  <2>2. CallTypes' /\ overlapped' \in BOOLEAN
    BY <1>2, <2>1, CreateTypes DEF PingFails, LifeTypes
  <2>3. PingerTypes'
    BY <1>2, <2>1 DEF PingFails, LifeTypes, PingerTypes
  <2> QED BY <2>1, <2>2, <2>3 DEF LifeTypes, NetTypes, ReaderTypes, FlagTypes
<1>3. ASSUME NEW c \in Conns, Breaks(c) PROVE LifeTypes'
  <2>1. UNCHANGED <<life, connection, recv_task, reader, reads, ping_task, pinger, ping_event,
                    is_started, overlapped, fatal>>
    BY <1>3 DEF Breaks, life, recv, ping
  <2>2. failures' \in 0 .. MaxFailures
    BY <1>3, FaultTypes DEF Breaks, LifeTypes
  <2>3. NetTypes'
    BY <1>3, <2>1 DEF Breaks, LifeTypes, NetTypes
  <2> QED BY <2>1, <2>2, <2>3 DEF LifeTypes, CallTypes, ReaderTypes, PingerTypes, FlagTypes, life
<1>4. CASE Disconnect
  <2>1. UNCHANGED <<waits, answered, connection, net, recv_task, reader, reads, ping_task, pinger,
                    ping_event, is_started, failures, fatal>>
    BY <1>4 DEF Disconnect, recv, ping
  <2>2. CallTypes' /\ overlapped' \in BOOLEAN
    BY <1>4, <2>1, CreateTypes DEF Disconnect, LifeTypes
  <2> QED BY <2>1, <2>2 DEF LifeTypes, NetTypes, ReaderTypes, PingerTypes, FlagTypes
<1> QED BY <1>1, <1>2, <1>3, <1>4 DEF PingerStep

(***************************************************************************)
(* The invariant that leaves one session, when no two calls overlap and    *)
(* the server knows the key: what holds at each point of a call (CallInv), *)
(* which ping task, receive task and connection can be alive (PingInv and  *)
(* ReadInv), and what a call leaves behind (LeftInv).                      *)
(***************************************************************************)
NoPinger == \A p \in Conns : pinger[p] \in {"none", "ended"}
NoReader == \A r \in Conns : reader[r] \notin {"begin", "reading"}
Quiet    == ~is_started /\ NoPinger
Shut     == net[connection] \in {"closed", "new"}

CallAt(t) ==
    /\ task[t] # "failed" /\ then[t] # "raise"
    /\ task[t] = "ping" => ~is_started /\ waits[t] = ping_task
    /\ task[t] \in {"close", "recv", "connect", "hello", "config"} => Quiet
    /\ task[t] \in {"close", "recv"} => Shut
    /\ task[t] = "recv" => waits[t] = recv_task
    /\ task[t] \in {"connect", "hello", "config"} => then[t] = "start"
    /\ task[t] = "connect" => waits[t] = connection /\ net[connection] = "new"
CallInv ==
    /\ \A t \in Tasks : CallAt(t)
    /\ \A s, t \in Tasks : Active(s) /\ Active(t) => s = t

\* The event is set only while a call waits for the ping task.
NoPing == \A t \in Tasks : task[t] # "ping"
PingInv ==
    /\ \A p \in Conns : pinger[p] \notin {"none", "ended"} => p = ping_task
    /\ NoPing => ~ping_event /\ \A p \in Conns : pinger[p] # "woken"

ReadInv ==
    /\ \A r \in Conns : /\ reader[r] \in {"begin", "reading"} => r = recv_task
                        /\ reader[r] # "died"
    /\ \A c \in Conns : net[c] = "open" => c = connection
    /\ net[connection] = "new" => NoReader

LeftInv ==
    /\ Settled /\ ~Disconnected =>
         is_started /\ ping_task \in Conns /\ pinger[ping_task] \notin {"none", "ended"}
    /\ Disconnected => Settled /\ Quiet /\ NoReader /\ Shut

OneInv  == CallInv /\ PingInv /\ ReadInv /\ LeftInv
LifeInv == Alone => OneInv

\* A call that goes on from t to another await: the others are over.
LEMMA GoesOn ==
  ASSUME CallTypes, OneInv, NEW t \in Tasks, Active(t),
         NEW x, x \notin Over, NEW n, Goto(t, x, n), UNCHANGED then, CallAt(t)'
  PROVE  /\ CallInv' /\ LeftInv'
         /\ task'[t] = x /\ waits'[t] = n
<1>1. /\ task' = [task EXCEPT ![t] = x] /\ waits' = [waits EXCEPT ![t] = n]
      /\ task'[t] = x /\ waits'[t] = n
  BY DEF Goto, CallTypes
<1>2. ASSUME NEW s \in Tasks \ {t} PROVE task[s] \in {"idle", "ended"} /\ task'[s] = task[s]
  <2>1. task[s] \in Over /\ task[s] # "failed"
    BY DEF OneInv, CallInv, CallAt, Active
  <2> QED BY <1>1, <2>1 DEF Over, CallTypes
<1>3. \A s \in Tasks : CallAt(s)'
  <2> SUFFICES ASSUME NEW s \in Tasks, s # t PROVE CallAt(s)'
    OBVIOUS
  <2>1. task'[s] \in {"idle", "ended"} /\ then'[s] # "raise"
    BY <1>2 DEF OneInv, CallInv, CallAt
  <2> QED BY <2>1 DEF CallAt
<1>4. \A s \in Tasks : Active(s)' => s = t
  BY <1>2 DEF Active, Over
<1>5. Active(t)'
  BY <1>1 DEF Active
<1>6. ~Disconnected'
  <2>1. ~Disconnected
    BY DEF OneInv, LeftInv, Settled
  <2> SUFFICES ASSUME NEW s \in Tasks, then'[s] = "end", task'[s] = "ended" PROVE FALSE
    BY DEF Disconnected
  <2>2. s # t
    BY <1>1 DEF Over
  <2> QED BY <1>2, <2>1, <2>2 DEF Disconnected
<1> QED BY <1>1, <1>3, <1>4, <1>5, <1>6 DEF CallInv, LeftInv, Settled

\* A call that ends leaves the others over, too.
LEMMA GoesOut ==
  ASSUME CallTypes, OneInv, NEW t \in Tasks, Active(t), Goto(t, "ended", 0), UNCHANGED then
  PROVE  /\ CallInv' /\ Settled' /\ NoPing'
         /\ Disconnected' <=> then[t] = "end"
<1>1. task' = [task EXCEPT ![t] = "ended"] /\ task'[t] = "ended"
  BY DEF Goto, CallTypes
<1>2. ASSUME NEW s \in Tasks \ {t} PROVE task[s] \in {"idle", "ended"} /\ task'[s] = task[s]
  <2>1. task[s] \in Over /\ task[s] # "failed"
    BY DEF OneInv, CallInv, CallAt, Active
  <2> QED BY <1>1, <2>1 DEF Over, CallTypes
<1>3. \A s \in Tasks : task'[s] \in {"idle", "ended"} /\ then'[s] # "raise"
  BY <1>1, <1>2 DEF OneInv, CallInv, CallAt
<1>4. \A s \in Tasks : CallAt(s)' /\ ~Active(s)'
  BY <1>3 DEF CallAt, Active, Over
<1>5. ~Disconnected
  BY DEF OneInv, LeftInv, Settled
<1>6. Disconnected' <=> then[t] = "end"
  BY <1>1, <1>2, <1>5 DEF Disconnected
<1> QED BY <1>3, <1>4, <1>6 DEF CallInv, Settled, NoPing

\* A call that is created when no other is under way.
LEMMA Created ==
  ASSUME CallTypes, OneInv, NEW what \in {"start", "end"}, Create(what), ~overlapped',
         ~Disconnected
  PROVE  /\ CallInv' /\ LeftInv' /\ Settled /\ NoPing'
         /\ \A s \in Tasks : task'[s] \notin {"ping", "close", "recv", "connect", "hello", "config"}
<1>1. PICK t \in Tasks : /\ task' = [task EXCEPT ![t] = "stop"] /\ then' = [then EXCEPT ![t] = what]
                         /\ \A s \in Tasks : ~Active(s)
  BY DEF Create
<1>2. task'[t] = "stop" /\ then'[t] = what
  BY <1>1 DEF CallTypes
<1>3. ASSUME NEW s \in Tasks \ {t}
      PROVE  task[s] \in {"idle", "ended"} /\ task'[s] = task[s] /\ then'[s] = then[s]
  <2>1. task[s] \in Over /\ task[s] # "failed"
    BY <1>1 DEF OneInv, CallInv, CallAt, Active
  <2> QED BY <1>1, <2>1 DEF Over, CallTypes
<1>4. \A s \in Tasks : task'[s] \in {"idle", "ended", "stop"} /\ then'[s] # "raise"
  BY <1>2, <1>3 DEF OneInv, CallInv, CallAt
<1>5. \A s \in Tasks : CallAt(s)'
  BY <1>4 DEF CallAt
<1>6. Active(t)' /\ \A s \in Tasks : Active(s)' => s = t
  BY <1>2, <1>3 DEF Active, Over
<1>7. ~Disconnected'
  BY <1>2, <1>3 DEF Disconnected
<1> QED BY <1>1, <1>4, <1>5, <1>6, <1>7 DEF CallInv, LeftInv, Settled, NoPing

\* A step that leaves the calls alone.
LEMMA CallsStay ==
  ASSUME CallInv, UNCHANGED <<task, then, waits, is_started, ping_task, recv_task, connection>>,
         Quiet => NoPinger', Shut => Shut', net[connection] = "new" => net'[connection] = "new"
  PROVE  CallInv'
BY DEF CallInv, CallAt, Quiet, Active

LEMMA BeginsStop ==
  ASSUME LifeTypes, OneInv, NEW t \in Tasks, Active(t), BeginStop(t), then[t] # "raise",
         UNCHANGED <<then, connection, net, recv_task, reader, reads, ping_task>>
  PROVE  OneInv'
<1>1. task'[t] = "ping" /\ waits'[t] = ping_task' /\ is_started' = FALSE
  BY DEF BeginStop, Goto, LifeTypes, CallTypes
<1>2. CallAt(t)'
  BY <1>1 DEF CallAt
<1>3. CallInv' /\ LeftInv'
  BY <1>2, GoesOn DEF BeginStop, LifeTypes, Over
<1>4. \A p \in Conns : pinger'[p] \notin {"none", "ended"} => pinger[p] \notin {"none", "ended"}
  BY DEF BeginStop
<1>5. PingInv'
  BY <1>1, <1>4 DEF OneInv, PingInv, NoPing
<1>6. ReadInv'
  BY DEF OneInv, ReadInv, NoReader
<1> QED BY <1>3, <1>5, <1>6 DEF OneInv

LEMMA CallKeepsOne ==
  ASSUME LifeTypes, OneInv, ~fatal', NEW t \in Tasks,
         TaskStep(t) \/ NoAnswer(t) \/ ConnectFails(t) \/ Rejected(t)
  PROVE  OneInv'
<1>0. CallAt(t) /\ (Active(t) => ~Disconnected)
  BY DEF OneInv, CallInv, LeftInv, Settled
<1>1. CASE Stop(t)
  <2>1. /\ Active(t) /\ BeginStop(t)
        /\ UNCHANGED <<then, connection, net, recv_task, reader, reads, ping_task>>
    BY <1>1 DEF Stop, Active, Over, recv
  <2> QED BY <1>0, <2>1, BeginsStop DEF CallAt
<1>2. CASE AwaitPing(t)
  <2> DEFINE n == IF net[connection] = "new" THEN "new" ELSE "closed"
  <2>1. /\ Active(t) /\ Goto(t, "close", 0) /\ net' = [net EXCEPT ![connection] = n]
        /\ ping_event' = FALSE
        /\ UNCHANGED <<then, connection, recv_task, reader, reads, ping_task, pinger, is_started>>
    BY <1>2 DEF AwaitPing, ThenClose, Active, Over, recv, ping
  <2>2. net'[connection] = n /\ \A c \in Conns \ {connection} : net'[c] = net[c]
    BY <2>1 DEF LifeTypes, NetTypes
  <2>3. Quiet'
    <3>1. ~is_started /\ waits[t] = ping_task /\ (waits[t] # 0 => pinger[waits[t]] = "ended")
      BY <1>0, <1>2 DEF CallAt, AwaitPing, ThenClose
    <3>2. \A p \in Conns : pinger[p] \in {"none", "ended"}
      BY <3>1, NumbersAndConns DEF OneInv, PingInv
    <3> QED BY <2>1, <3>1, <3>2 DEF Quiet, NoPinger
  <2>4. Shut'
    BY <2>1, <2>2 DEF Shut
  <2>5. task'[t] = "close" /\ then'[t] # "raise"
    BY <1>0, <2>1 DEF CallAt, Goto, LifeTypes, CallTypes
  <2>6. CallAt(t)'
    BY <2>3, <2>4, <2>5 DEF CallAt
  <2>7. CallInv' /\ LeftInv'
    BY <2>1, <2>6, GoesOn DEF LifeTypes, Over
  <2>8. PingInv'
    BY <2>1, <2>3 DEF PingInv, Quiet, NoPinger
  <2>9. ReadInv'
    BY <2>1, <2>2 DEF OneInv, ReadInv, NoReader
  <2> QED BY <2>7, <2>8, <2>9 DEF OneInv
<1>3. CASE AwaitClose(t)
  <2>1. /\ Active(t) /\ Goto(t, "recv", recv_task)
        /\ UNCHANGED <<then, connection, net, recv_task, reader, reads, ping_task, pinger, ping_event, is_started>>
    BY <1>3 DEF AwaitClose, ThenAwait, Active, Over, recv, ping
  <2>2. Quiet' /\ Shut'
    BY <1>0, <1>3, <2>1 DEF CallAt, AwaitClose, ThenAwait, Quiet, NoPinger, Shut
  <2>3. task'[t] = "recv" /\ waits'[t] = recv_task /\ then'[t] # "raise"
    BY <1>0, <2>1 DEF CallAt, Goto, LifeTypes, CallTypes
  <2>4. CallAt(t)'
    BY <2>1, <2>2, <2>3 DEF CallAt
  <2>5. CallInv' /\ LeftInv'
    BY <2>1, <2>4, GoesOn DEF LifeTypes, Over
  <2>6. PingInv'
    <3>1. ~ping_event /\ \A p \in Conns : pinger[p] # "woken"
      <4>1. NoPing
        <5>1. Active(t) /\ task[t] # "ping"
          BY <1>3, <2>1 DEF AwaitClose, ThenAwait
        <5> QED BY <5>1 DEF OneInv, CallInv, NoPing, Active, Over
      <4> QED BY <4>1 DEF OneInv, PingInv
    <3> QED BY <2>1, <3>1 DEF OneInv, PingInv
  <2>7. ReadInv'
    BY <2>1 DEF OneInv, ReadInv, NoReader
  <2> QED BY <2>5, <2>6, <2>7 DEF OneInv
<1>4. CASE AwaitRecv(t)
  <2>1. /\ Active(t) /\ task[t] = "recv"
        /\ UNCHANGED <<then, recv_task, reader, reads, ping_task, pinger, ping_event, is_started>>
    BY <1>4 DEF AwaitRecv, Active, Over, recv, ping
  <2>2. Quiet /\ Shut /\ waits[t] = recv_task /\ then[t] # "raise"
    BY <1>0, <2>1 DEF CallAt
  <2>3. NoPing
    BY <2>1 DEF OneInv, CallInv, NoPing, Active, Over
  <2>4. PingInv'
    BY <2>1, <2>3 DEF OneInv, PingInv
  <2>5. waits[t] # 0 => reader[waits[t]] = "ended"
    <3>1. waits[t] # 0 => waits[t] \in Conns /\ reader[waits[t]] \in {"ended", "died"}
      BY <1>4, NumbersAndConns DEF AwaitRecv, LifeTypes, CallTypes
    <3>2. \A r \in Conns : reader[r] # "died"
      BY DEF OneInv, ReadInv
    <3> QED BY <3>1, <3>2
  <2>6. NoReader
    BY <2>2, <2>5, NumbersAndConns DEF OneInv, ReadInv, NoReader
  <2>7. CASE then[t] = "start"
    <3>1. Connect(t)
      BY <1>4, <2>5, <2>7 DEF AwaitRecv
    <3>2. PICK c \in Conns :
            net' = [net EXCEPT ![c] = "new"] /\ connection' = c /\ Goto(t, "connect", c)
      BY <3>1 DEF Connect
    <3>3. net'[c] = "new" /\ \A d \in Conns \ {c} : net'[d] = net[d]
      BY <3>2 DEF LifeTypes, NetTypes
    <3>4. task'[t] = "connect" /\ waits'[t] = c
      BY <3>2 DEF Goto, LifeTypes, CallTypes
    <3>5. CallAt(t)'
      BY <2>1, <2>2, <2>7, <3>2, <3>3, <3>4 DEF CallAt, Quiet, NoPinger
    <3>6. CallInv' /\ LeftInv'
      BY <2>1, <3>2, <3>5, GoesOn DEF LifeTypes, Over
    <3>7. \A d \in Conns : net[d] # "open"
      BY <2>2 DEF OneInv, ReadInv, Shut
    <3>8. ReadInv'
      BY <2>1, <2>6, <3>3, <3>7 DEF OneInv, ReadInv, NoReader
    <3> QED BY <2>4, <3>6, <3>8 DEF OneInv
  <2>8. CASE then[t] # "start"
    <3>1. then[t] = "end"
      BY <2>2, <2>8 DEF LifeTypes, CallTypes
    <3>2. Goto(t, "ended", 0) /\ UNCHANGED <<net, connection>>
      BY <1>4, <2>5, <3>1 DEF AwaitRecv
    <3>3. CallInv' /\ Settled' /\ Disconnected'
      BY <2>1, <3>1, <3>2, GoesOut DEF LifeTypes
    <3>4. Quiet' /\ Shut' /\ NoReader'
      BY <2>1, <2>2, <2>6, <3>2 DEF Quiet, NoPinger, Shut, NoReader
    <3>5. ReadInv'
      BY <2>1, <3>2 DEF OneInv, ReadInv, NoReader
    <3> QED BY <2>4, <3>3, <3>4, <3>5 DEF OneInv, LeftInv
  <2> QED BY <2>7, <2>8
<1>5. CASE Connected(t)
  <2> DEFINE r == recv_task + 1
  <2>1. /\ Active(t) /\ task[t] = "connect" /\ r \in Conns /\ r = recv_task'
        /\ net' = [net EXCEPT ![waits[t]] = "open"] /\ reader' = [reader EXCEPT ![r] = "begin"]
        /\ Goto(t, "hello", Target(net'))
        /\ UNCHANGED <<then, connection, ping_task, pinger, ping_event, is_started>>
    BY <1>5 DEF Connected, Active, Over, ping
  <2> HIDE DEF r
  <2>2. Quiet /\ waits[t] = connection /\ net[connection] = "new" /\ then[t] = "start"
    BY <1>0, <2>1 DEF CallAt
  <2>3. NoReader
    BY <2>2 DEF OneInv, ReadInv
  <2>4. net'[connection] = "open" /\ \A c \in Conns \ {connection} : net'[c] = net[c]
    BY <2>1, <2>2 DEF LifeTypes, NetTypes
  <2>5. reader'[r] = "begin" /\ \A q \in Conns \ {r} : reader'[q] = reader[q]
    BY <2>1 DEF LifeTypes, ReaderTypes
  <2>6. task'[t] = "hello"
    BY <2>1 DEF Goto, LifeTypes, CallTypes
  <2>7. CallAt(t)'
    BY <2>1, <2>2, <2>6 DEF CallAt, Quiet, NoPinger
  <2>8. CallInv' /\ LeftInv'
    BY <2>1, <2>7, GoesOn DEF LifeTypes, Over
  <2>9. PingInv'
    <3>1. NoPing
      BY <2>1 DEF OneInv, CallInv, NoPing, Active, Over
    <3> QED BY <2>1, <3>1 DEF OneInv, PingInv
  <2>10. ReadInv'
    BY <2>1, <2>3, <2>4, <2>5 DEF OneInv, ReadInv, NoReader
  <2> QED BY <2>8, <2>9, <2>10 DEF OneInv
<1>6. CASE Proceed(t)
  <2>1. /\ Active(t) /\ task[t] \in {"hello", "config"}
        /\ UNCHANGED <<then, connection, net, recv_task, reader, reads, ping_event>>
    BY <1>6 DEF Proceed, Greeting, Active, Over, recv
  <2>2. Quiet /\ then[t] = "start"
    BY <1>0, <2>1 DEF CallAt
  <2>3. NoPing
    BY <2>1 DEF OneInv, CallInv, NoPing, Active, Over
  <2>4. ReadInv'
    BY <2>1 DEF OneInv, ReadInv, NoReader
  <2>5. CASE task[t] = "hello"
    <3>1. Goto(t, "config", Target(net)) /\ UNCHANGED <<ping_task, pinger, is_started>>
      BY <1>6, <2>5 DEF Proceed, ping
    <3>2. task'[t] = "config"
      BY <3>1 DEF Goto, LifeTypes, CallTypes
    <3>3. CallAt(t)'
      BY <2>1, <2>2, <3>1, <3>2 DEF CallAt, Quiet, NoPinger
    <3>4. CallInv' /\ LeftInv'
      BY <2>1, <3>1, <3>3, GoesOn DEF LifeTypes, Over
    <3>5. PingInv'
      BY <2>1, <2>3, <3>1 DEF OneInv, PingInv
    <3> QED BY <2>4, <3>4, <3>5 DEF OneInv
  <2>6. CASE task[t] # "hello"
    <3> DEFINE p == ping_task + 1
    <3>1. /\ Goto(t, "ended", 0) /\ p \in Conns /\ ping_task' = p /\ is_started' = TRUE
          /\ pinger' = [pinger EXCEPT ![p] = IF ping_event THEN "ended" ELSE "waiting"]
      BY <1>6, <2>6 DEF Proceed
    <3> HIDE DEF p
    <3>2. ~ping_event
      BY <2>3 DEF OneInv, PingInv
    <3>3. pinger'[p] = "waiting" /\ \A q \in Conns \ {p} : pinger'[q] \in {"none", "ended"}
      BY <2>2, <3>1, <3>2 DEF LifeTypes, PingerTypes, Quiet, NoPinger
    <3>4. CallInv' /\ ~Disconnected'
      BY <2>1, <2>2, <3>1, GoesOut DEF LifeTypes
    <3>5. LeftInv'
      BY <3>1, <3>3, <3>4 DEF LeftInv
    <3>6. PingInv'
      BY <2>1, <3>1, <3>2, <3>3 DEF PingInv
    <3> QED BY <2>4, <3>4, <3>5, <3>6 DEF OneInv
  <2> QED BY <2>5, <2>6
<1>7. CASE NoAnswer(t) \/ ConnectFails(t)
  <2>1. /\ Active(t) /\ BeginStop(t)
        /\ UNCHANGED <<then, connection, net, recv_task, reader, reads, ping_task>>
    BY <1>7 DEF NoAnswer, ConnectFails, Greeting, Active, Over, recv
  <2> QED BY <1>0, <2>1, BeginsStop DEF CallAt
<1>8. CASE Rejected(t)
  BY <1>8 DEF Rejected
<1> QED BY <1>1, <1>2, <1>3, <1>4, <1>5, <1>6, <1>7, <1>8 DEF TaskStep

\* Whoever reads or pings is there before any disconnect, or it would be over.
LEMMA AliveBefore ==
  ASSUME OneInv, \/ \E r \in Conns : reader[r] \in {"begin", "reading"}
                 \/ \E p \in Conns : pinger[p] \notin {"none", "ended"}
                 \/ \E c \in Conns : net[c] = "open"
  PROVE  ~Disconnected
BY DEF OneInv, LeftInv, ReadInv, Quiet, NoPinger, NoReader, Shut

\* A receive task that was alive goes on or ends, and creates a call or none.
LEMMA ReaderGoes ==
  ASSUME LifeTypes, OneInv, ~overlapped', NEW r \in Conns, reader[r] \in {"begin", "reading"},
         NEW x \in {"begin", "reading", "ended"}, reader' = [reader EXCEPT ![r] = x],
         \/ UNCHANGED <<task, then>> \/ Create("start"),
         UNCHANGED <<waits, connection, net, recv_task, ping_task, pinger, ping_event, is_started>>
  PROVE  OneInv'
<1>1. ~Disconnected
  BY AliveBefore
<1>2. ReadInv'
  <2>1. \A q \in Conns : reader'[q] = IF q = r THEN x ELSE reader[q]
    BY DEF LifeTypes, ReaderTypes
  <2>2. net[connection] # "new"
    BY DEF OneInv, ReadInv, NoReader
  <2> QED BY <2>1, <2>2 DEF OneInv, ReadInv
<1>3. CASE UNCHANGED <<task, then>>
  <2>1. CallInv'
    BY <1>3, CallsStay DEF OneInv, Quiet, NoPinger, Shut
  <2>2. PingInv'
    BY <1>3 DEF OneInv, PingInv, NoPing
  <2>3. LeftInv'
    BY <1>1, <1>3 DEF OneInv, LeftInv, Settled, Active, Disconnected
  <2> QED BY <1>2, <2>1, <2>2, <2>3 DEF OneInv
<1>4. CASE Create("start")
  <2>1. CallInv' /\ LeftInv' /\ Settled
    BY <1>1, <1>4, Created DEF LifeTypes
  <2>2. NoPing
    BY <2>1 DEF Settled, Active, Over, NoPing
  <2>3. PingInv'
    BY <2>2 DEF OneInv, PingInv
  <2> QED BY <1>2, <2>1, <2>3 DEF OneInv
<1> QED BY <1>3, <1>4

LEMMA ReaderKeepsOne ==
  ASSUME LifeTypes, OneInv, ~overlapped', ~fatal', NEW r \in Conns,
         ReaderStep(r) \/ BadPacket(r) \/ Packet(r) \/ Silence(r) \/ KeyNotFound(r)
  PROVE  OneInv'
<1>1. CASE Read(r)
  <2>1. /\ reader[r] = "begin"
        /\ UNCHANGED <<task, then, waits, connection, net, recv_task, ping_task, pinger, ping_event, is_started>>
    BY <1>1 DEF Read, life, ping
  <2>2. /\ net[connection] # "new"
        /\ \A q \in Conns : reader[q] # "reading"
    BY <2>1 DEF OneInv, ReadInv, NoReader
  <2>3. reader' = [reader EXCEPT ![r] = "reading"]
    BY <1>1, <2>2 DEF Read
  <2> QED BY <2>1, <2>3, ReaderGoes
<1>2. CASE Answer(r) \/ Packet(r)
  <2>1. /\ reader[r] = "reading" /\ reader' = [reader EXCEPT ![r] = "begin"]
        /\ UNCHANGED <<task, then, waits, connection, net, recv_task, ping_task, pinger, ping_event, is_started>>
    BY <1>2 DEF Answer, Packet, Reading, life, ping
  <2> QED BY <2>1, ReaderGoes
<1>3. CASE BadPacket(r)
  <2>1. /\ reader[r] = "reading" /\ reader' = [reader EXCEPT ![r] = "begin"] /\ Create("start")
        /\ UNCHANGED <<waits, connection, net, recv_task, ping_task, pinger, ping_event, is_started>>
    BY <1>3 DEF BadPacket, Reading, ping
  <2> QED BY <2>1, ReaderGoes
<1>4. CASE EndOfStream(r) \/ Silence(r)
  <2>1. /\ reader[r] = "reading" /\ reader' = [reader EXCEPT ![r] = "ended"]
        /\ UNCHANGED <<task, then>> \/ Create("start")
        /\ UNCHANGED <<waits, connection, net, recv_task, ping_task, pinger, ping_event, is_started>>
    BY <1>4 DEF EndOfStream, Silence, Finish, FinishIf, Reading, ping
  <2> QED BY <2>1, ReaderGoes
<1>5. CASE KeyNotFound(r)
  BY <1>5 DEF KeyNotFound
<1> QED BY <1>1, <1>2, <1>3, <1>4, <1>5 DEF ReaderStep

LEMMA PingerKeepsOne ==
  ASSUME LifeTypes, OneInv, ~overlapped', NEW p \in Conns, PingerStep(p)
  PROVE  OneInv'
<1>1. /\ pinger[p] \in {"waiting", "sending", "woken"}
      /\ UNCHANGED <<waits, connection, net, recv_task, reader, ping_task, ping_event, is_started>>
  BY DEF PingerStep, Tick, PingGoes, PingGoesThen, PingFails, Woken,
         life, recv
<1>2. p = ping_task /\ ~NoPinger /\ ~Disconnected
  BY <1>1, AliveBefore DEF OneInv, PingInv, NoPinger
<1>3. PICK x \in {"waiting", "sending", "ended"} : pinger' = [pinger EXCEPT ![p] = x]
  BY DEF PingerStep, Tick, PingGoes, PingGoesThen, PingFails, Woken
<1>4. pinger'[p] = x /\ \A q \in Conns \ {p} : pinger'[q] = pinger[q]
  BY <1>3 DEF LifeTypes, PingerTypes
<1>5. ReadInv'
  BY <1>1 DEF OneInv, ReadInv, NoReader
<1>6. CASE PingFails(p)
  <2>1. CallInv' /\ LeftInv' /\ Settled
    BY <1>2, <1>6, Created DEF PingFails, LifeTypes
  <2>2. NoPing
    BY <2>1 DEF Settled, Active, Over, NoPing
  <2>3. PingInv'
    BY <1>1, <1>2, <1>4, <2>2 DEF OneInv, PingInv
  <2> QED BY <1>5, <2>1, <2>3 DEF OneInv
<1>7. CASE ~PingFails(p)
  <2>1. UNCHANGED <<task, then>>
    BY <1>7 DEF PingerStep, Tick, PingGoes, PingGoesThen, Woken, life
  <2>2. CallInv'
    BY <1>1, <1>2, <2>1, CallsStay DEF OneInv, Quiet, Shut
  <2>3. PingInv'
    BY <1>1, <1>2, <1>4, <2>1 DEF OneInv, PingInv, NoPing
  <2>4. NoPing => x # "ended"
    <3>1. NoPing => ~ping_event /\ pinger[p] # "woken"
      BY DEF OneInv, PingInv
    <3>2. ASSUME x = "ended", NoPing PROVE FALSE
      <4>1. pinger'[p] = "ended" /\ ~ping_event /\ pinger[p] # "woken"
        BY <1>4, <3>1, <3>2
      <4>2. PingGoes(p) \/ Tick(p)
        BY <1>7, <4>1 DEF PingerStep, Woken
      <4>3. pinger' = [pinger EXCEPT ![p] = "waiting"] \/ pinger' = [pinger EXCEPT ![p] = "sending"]
        BY <4>1, <4>2 DEF PingGoes, PingGoesThen, Tick
      <4> QED BY <4>1, <4>3 DEF LifeTypes, PingerTypes
    <3> QED BY <3>2
  <2>5. Settled => NoPing
    BY DEF Settled, Active, Over, NoPing
  <2>6. (Settled' <=> Settled) /\ (Disconnected' <=> Disconnected)
    BY <2>1 DEF Settled, Active, Disconnected
  <2>7. LeftInv'
    BY <1>1, <1>2, <1>4, <2>4, <2>5, <2>6 DEF OneInv, LeftInv
  <2> QED BY <1>5, <2>2, <2>3, <2>7 DEF OneInv
<1> QED BY <1>6, <1>7

LEMMA BreakKeepsOne ==
  ASSUME LifeTypes, OneInv, NEW c \in Conns, Breaks(c)
  PROVE  OneInv'
<1>1. /\ net[c] = "open" /\ net' = [net EXCEPT ![c] = "broken"]
      /\ UNCHANGED <<task, then, waits, connection, recv_task, reader, ping_task, pinger, ping_event, is_started>>
  BY DEF Breaks, life, recv, ping
<1>2. net'[c] = "broken" /\ \A d \in Conns \ {c} : net'[d] = net[d]
  BY <1>1 DEF LifeTypes, NetTypes
<1>3. ~Disconnected
  BY <1>1, AliveBefore
<1>4. connection \in Conns
  BY DEF LifeTypes, NetTypes
<1>5. CallInv'
  <2>1. Shut => Shut'
    BY <1>1, <1>2, <1>4 DEF Shut
  <2>2. net[connection] = "new" => net'[connection] = "new"
    BY <1>1, <1>2, <1>4
  <2> QED BY <1>1, <2>1, <2>2, CallsStay DEF OneInv, Quiet, NoPinger
<1>6. PingInv'
  BY <1>1 DEF OneInv, PingInv, NoPing
<1>7. ReadInv'
  BY <1>1, <1>2, <1>4 DEF OneInv, ReadInv, NoReader
<1>8. LeftInv'
  BY <1>1, <1>3 DEF OneInv, LeftInv, Settled, Active, Disconnected
<1> QED BY <1>5, <1>6, <1>7, <1>8 DEF OneInv

LEMMA DisconnectKeepsOne ==
  ASSUME LifeTypes, OneInv, ~overlapped', Disconnect
  PROVE  OneInv'
<1>1. UNCHANGED <<waits, connection, net, recv_task, reader, ping_task, pinger, ping_event, is_started>>
  BY DEF Disconnect, recv, ping
<1>2. ~Disconnected
  BY DEF Disconnect, Disconnected
<1>3. CallInv' /\ LeftInv' /\ Settled
  BY <1>2, Created DEF Disconnect, LifeTypes
<1>4. NoPing
  BY <1>3 DEF Settled, Active, Over, NoPing
<1>5. PingInv'
  BY <1>1, <1>4 DEF OneInv, PingInv
<1>6. ReadInv'
  BY <1>1 DEF OneInv, ReadInv, NoReader
<1> QED BY <1>3, <1>5, <1>6 DEF OneInv

\* Two calls that have overlapped have done so for good.
LEMMA AloneBefore ==
  ASSUME LifeTypes, LifeNext, Alone'
  PROVE  Alone
<1>1. ASSUME NEW what, Create(what) PROVE ~overlapped
  BY <1>1 DEF Create, Alone
<1>2. ASSUME NEW t \in Tasks,
             TaskStep(t) \/ NoAnswer(t) \/ ConnectFails(t) \/ Rejected(t)
      PROVE  Alone
  BY <1>2 DEF TaskStep, Stop, AwaitPing, ThenClose, AwaitClose, ThenAwait,
              AwaitRecv, Connected, Proceed, NoAnswer, ConnectFails,
              Rejected, history, Alone
<1>3. ASSUME NEW r \in Conns, \/ ReaderStep(r) \/ BadPacket(r) \/ Packet(r)
                              \/ Silence(r) \/ KeyNotFound(r)
      PROVE  Alone
  BY <1>1, <1>3 DEF ReaderStep, Read, Answer, EndOfStream, BadPacket, Packet,
                    Silence, KeyNotFound, Finish, FinishIf, life, history, Alone
<1>4. ASSUME NEW p \in Conns, PingerStep(p) PROVE Alone
  BY <1>1, <1>4 DEF PingerStep, Tick, PingGoes, PingGoesThen, PingFails, Woken,
                    history, Alone
<1>5. ASSUME NEW c \in Conns, Breaks(c) PROVE Alone
  BY <1>5 DEF Breaks, Alone
<1>6. CASE Disconnect
  BY <1>1, <1>6 DEF Disconnect, Alone
<1> QED BY <1>2, <1>3, <1>4, <1>5, <1>6 DEF LifeNext

LEMMA InitLife == ASSUME LifeInit PROVE LifeTypes /\ LifeInv
<1>1. LifeTypes
  BY InitLifeTypes
<1>2. /\ task[1] = "connect" /\ \A t \in Tasks : (t # 1 => task[t] = "idle") /\ then[t] = "start"
      /\ waits[1] = connection /\ net[connection] = "new"
      /\ \A c \in Conns : net[c] # "open" /\ reader[c] = "none" /\ pinger[c] = "none"
      /\ ~ping_event /\ ~is_started /\ 1 \in Tasks
  BY NumbersAndConns DEF LifeInit
<1>3. CallInv
  BY <1>2 DEF CallInv, CallAt, Quiet, NoPinger, Active, Over
<1>4. PingInv /\ ReadInv
  BY <1>2 DEF PingInv, ReadInv, NoReader
<1>5. LeftInv
  BY <1>2 DEF LeftInv, Settled, Active, Over, Disconnected
<1> QED BY <1>1, <1>3, <1>4, <1>5 DEF LifeInv, OneInv

LEMMA NextLife ==
  ASSUME LifeTypes, LifeInv, [LifeNext]_lifeVars
  PROVE  LifeTypes' /\ LifeInv'
<1>1. CASE LifeNext
  <2>1. LifeTypes'
    BY <1>1, CallKeepsTypes, ReaderKeepsTypes, RestKeepsTypes DEF LifeNext
  <2>2. ASSUME Alone' PROVE OneInv'
    <3>1. OneInv /\ ~overlapped' /\ ~fatal'
      BY <1>1, <2>2, AloneBefore DEF LifeInv, Alone
    <3> QED BY <1>1, <3>1, CallKeepsOne, ReaderKeepsOne, PingerKeepsOne, BreakKeepsOne, DisconnectKeepsOne
            DEF LifeNext
  <2> QED BY <2>1, <2>2 DEF LifeInv
<1>2. CASE UNCHANGED lifeVars
  <2>1. UNCHANGED <<life, connection, net, recv_task, reader, reads, ping_task, pinger, flags>>
    BY <1>2 DEF lifeVars, life, recv, ping, history, flags
  <2>2. LifeTypes'
    BY <2>1 DEF LifeTypes, CallTypes, NetTypes, ReaderTypes, PingerTypes, FlagTypes, life, flags
  <2>3. (Alone' <=> Alone) /\ (PingInv' <=> PingInv) /\ (ReadInv' <=> ReadInv)
    BY <2>1 DEF Alone, PingInv, NoPing, ReadInv, NoReader, life, flags
  <2>4. CallInv => CallInv'
    BY <2>1, CallsStay DEF Quiet, NoPinger, Shut, life, flags
  <2>5. LeftInv => LeftInv'
    BY <2>1 DEF LeftInv, Settled, Active, Disconnected, Quiet, NoPinger, NoReader, Shut,
                life, flags
  <2> QED BY <2>2, <2>3, <2>4, <2>5 DEF LifeInv, OneInv
<1> QED BY <1>1, <1>2

LEMMA LifeAlways == LifeSpec => [](LifeTypes /\ LifeInv)
<1>1. LifeInit => LifeTypes /\ LifeInv
  BY InitLife
<1>2. LifeTypes /\ LifeInv /\ [LifeNext]_lifeVars => (LifeTypes /\ LifeInv)'
  BY NextLife
<1> QED BY <1>1, <1>2, PTL DEF LifeSpec

\* Whatever breaks, falls silent or goes wrong: as long as no two calls of start,
\* stop and restart overlap and the server knows the key, a session at rest is
\* started, with the ping task that would notice a broken connection, and
\* nothing of an earlier connection is open, reads or pings.
THEOREM OneSessionOnly == LifeSpec => []OneSession
<1>1. LifeTypes /\ LifeInv => OneSession
  <2> SUFFICES ASSUME LifeTypes, LifeInv PROVE OneSession
    OBVIOUS
  <2>1. LifeTypeOK
    BY TypesOfLife
  <2>2. ASSUME Alone, Settled, ~Disconnected
        PROVE  /\ is_started /\ LivePingers = {ping_task} /\ LiveReaders \subseteq {recv_task}
               /\ \A c \in Conns : net[c] = "open" => c = connection
    <3>1. OneInv
      BY <2>2 DEF LifeInv
    <3>2. is_started /\ ping_task \in Conns /\ pinger[ping_task] \notin {"none", "ended"}
      BY <2>2, <3>1 DEF OneInv, LeftInv
    <3>3. LivePingers = {ping_task}
      BY <3>1, <3>2 DEF OneInv, PingInv, LivePingers
    <3> QED BY <3>1, <3>2, <3>3 DEF OneInv, ReadInv, LiveReaders
  <2> QED BY <2>1, <2>2 DEF OneSession
<1> QED BY <1>1, LifeAlways, PTL

\* A disconnect that no restart met leaves no connection open, no task that
\* reads or pings, and a session that says it is not started.
THEOREM NothingStays == LifeSpec => []NothingLeft
<1>1. LifeTypes /\ LifeInv => NothingLeft
  <2> SUFFICES ASSUME LifeTypes, LifeInv, Alone, Disconnected
               PROVE  /\ ~is_started /\ LivePingers = {} /\ LiveReaders = {}
                      /\ \A c \in Conns : net[c] # "open"
    BY DEF NothingLeft
  <2>1. OneInv /\ Quiet /\ NoReader /\ Shut
    BY DEF LifeInv, OneInv, LeftInv
  <2>2. \A c \in Conns : net[c] # "open"
    BY <2>1 DEF OneInv, ReadInv, Shut
  <2> QED BY <2>1, <2>2 DEF Quiet, NoPinger, NoReader, LivePingers, LiveReaders
<1> QED BY <1>1, LifeAlways, PTL

\* Not even in the middle of a restart are two connections open, or do two
\* tasks read or ping: each restart takes the old ones down first.
THEOREM NeverTwo ==
  LifeSpec => [](Alone => /\ \A c \in Conns : net[c] = "open" => c = connection
                          /\ LiveReaders \subseteq {recv_task}
                          /\ LivePingers \subseteq {ping_task})
<1>1. LifeTypes /\ LifeInv =>
        (Alone => /\ \A c \in Conns : net[c] = "open" => c = connection
                  /\ LiveReaders \subseteq {recv_task}
                  /\ LivePingers \subseteq {ping_task})
  BY DEF LifeInv, OneInv, ReadInv, PingInv, LiveReaders, LivePingers
<1> QED BY <1>1, LifeAlways, PTL
==============================================================================
