------------------------------ MODULE Requests ------------------------------
(***************************************************************************)
(* How an answer finds its request: Session.invoke, send and handle_packet *)
(* (session/session.py).  Callers send messages and wait for an entry of   *)
(* `results`; the server's messages may be lost with the connection, sent  *)
(* again or come late.  The session acknowledges what it has handled in    *)
(* batches, and drops what it has seen by message id.                      *)
(*                                                                         *)
(* Message ids grow, so a message of the client is its index in messages   *)
(* and one of the server its index in mail.  The session's restart is one  *)
(* step here (Restart); module SessionLife has it in detail.               *)
(***************************************************************************)
EXTENDS Naturals, Sequences, FiniteSets, Functions

CONSTANTS
  Callers,         \* tasks that call invoke once
  Retries,         \* the retries each passes, MAX_RETRIES by default
  AcksThreshold,   \* ACKS_THRESHOLD
  StoredMax,       \* STORED_MSG_IDS_MAX_SIZE
  MaxMail,         \* bound: messages of the server
  MaxFaults        \* bound: answers other than a result, repeated messages,
                   \* broken connections, new salts, cancels, together

ASSUME RetriesAssumption == Retries \in [Callers -> Nat]
ASSUME AcksAssumption == AcksThreshold \in Nat \ {0} /\ StoredMax \in Nat \ {0}
ASSUME BoundsAssumption == {MaxMail, MaxFaults} \subseteq Nat

VARIABLES
  pc,              \* where a caller is suspended
  retries,         \* the retries it has left
  msg,             \* the id of its current message
  outcome,         \* how its call ended
  got,             \* the message it got its result from
  messages,        \* the client's messages: by whom, under which salt
  results,         \* results: a message id to the answer or 0
  salt,            \* self.salt
  pending_acks,
  stored_msg_ids,
  flushes,         \* MsgsAck messages whose send is awaited
  up,              \* the connection is up, or its end is yet to be noticed
  wire,            \* the client's messages that the server has yet to see
  inbox,           \* the server's messages that are yet to be handled
  mail,            \* the server's messages: kind, answered message
  acked,           \* those the server knows to be acknowledged
  server_salt,
  produced,        \* history: the results the server computed for each caller
  handled,         \* history: how often an update went to handle_updates
  dropped,         \* history: acknowledgements cleared without being sent
  refused,         \* history: messages that failed the id checks
  stops,           \* history: how often stop cleared the stored ids
  faults           \* history: for the bound

caller == <<pc, retries, msg, outcome, got>>
ids    == <<pending_acks, stored_msg_ids>>
server == <<mail, acked, server_salt>>
past   == <<handled, dropped, refused, stops>>
vars == <<caller, messages, results, salt, ids, flushes, up, wire, inbox, server, produced, past, faults>>

\* Messages the server wants acknowledged: an odd seq_no.
Content(m) == m.kind \notin {"badsalt", "badmsg", "info"}
\* Instead of a result: an RpcError that invoke retries, a FloodWait below the
\* threshold, any other RpcError, a BadMsgNotification.
Errors == {"error", "flood", "refused", "badmsg"}

Init ==
    /\ pc = [c \in Callers |-> "idle"]
    /\ retries = Retries
    /\ msg = [c \in Callers |-> 0]
    /\ outcome = [c \in Callers |-> "none"]
    /\ got = [c \in Callers |-> 0]
    /\ messages = <<>>
    /\ results = <<>>
    /\ salt = 0
    /\ pending_acks = {}
    /\ stored_msg_ids = {}
    /\ flushes = <<>>
    /\ up = TRUE
    /\ wire = {}
    /\ inbox = <<>>
    /\ mail = <<>>
    /\ acked = {}
    /\ server_salt = 0
    /\ produced = [c \in Callers |-> {}]
    /\ handled = [i \in 1 .. MaxMail |-> 0]
    /\ dropped = {}
    /\ refused = {}
    /\ stops = 0
    /\ faults = 0

-----------------------------------------------------------------------------
(***************************************************************************)
(* invoke and send.                                                        *)
(***************************************************************************)
Fault == faults < MaxFaults /\ faults' = faults + 1

Without(id) == Restrict(results, DOMAIN results \ {id})

Ends(c, o) == pc' = [pc EXCEPT ![c] = "ended"] /\ outcome' = [outcome EXCEPT ![c] = o]

\* OSError (a timeout is one), InternalServerError, ServiceUnavailable.
Retry(c) ==
    IF retries[c] = 0
    THEN Ends(c, "raised") /\ UNCHANGED retries
    ELSE /\ pc' = [pc EXCEPT ![c] = "pause"]
         /\ retries' = [retries EXCEPT ![c] = @ - 1]
         /\ UNCHANGED outcome

\* send: a message, its entry in `results` and the write.  The packing is
\* awaited in between, but nobody else uses the id before it is written.  A
\* broken connection may take the message without a word or raise OSError.
Send(c, known, s) ==
    LET id == Len(messages) + 1
    IN  /\ messages' = Append(messages, [by |-> c, salt |-> s])
        /\ msg' = [msg EXCEPT ![c] = id]
        /\ \/ /\ results' = [i \in DOMAIN known \union {id} |-> IF i = id THEN 0 ELSE known[i]]
              /\ wire' = IF up THEN wire \union {id} ELSE wire
              /\ pc' = [pc EXCEPT ![c] = "wait"]
              /\ UNCHANGED <<retries, outcome>>
           \/ /\ ~up
              /\ results' = known
              /\ Retry(c)
              /\ UNCHANGED wire

\* invoke goes on whether or not the session has started within its timeout.
Issue(c) ==
    /\ pc[c] \in {"idle", "pause"}
    /\ Send(c, results, salt)
    /\ UNCHANGED <<got, salt, ids, flushes, up, inbox, server, past, faults, produced>>

TimesOut(c, remaining) ==
    /\ pc[c] = "wait"
    /\ results[msg[c]] = 0
    /\ results' = remaining
    /\ Retry(c)
    /\ UNCHANGED <<msg, got, messages, salt, ids, flushes, up, wire, inbox, server, past, faults, produced>>

\* Mutant of TimeOut: the entry stays behind.
TimeOutKeepsEntry(c) == TimesOut(c, results)

TimeOut(c) == TimesOut(c, Without(msg[c]))

\* A task that waits in invoke is cancelled (wait_for around a handler's
\* call); its entry in `results` stays.
Cancel(c) ==
    /\ pc[c] \in {"wait", "pause"}
    /\ Fault
    /\ Ends(c, "cancelled")
    /\ UNCHANGED <<retries, msg, got, messages, results, salt, ids, flushes, up, wire, inbox, server, past, produced>>

\* The value that is there when the caller resumes: also one that came in
\* between the timeout and this moment.
Value(c) == mail[results[msg[c]]].kind
HasValue(c) == pc[c] = "wait" /\ results[msg[c]] # 0

\* Mutant of TakeResult: send waits for any entry.
TakeAnyResult(c) ==
    /\ pc[c] = "wait"
    /\ \E id \in DOMAIN results :
         /\ results[id] # 0
         /\ mail[results[id]].kind = "result"
         /\ Ends(c, "result")
         /\ got' = [got EXCEPT ![c] = results[id]]
         /\ results' = Without(id)
    /\ UNCHANGED <<retries, msg, messages, salt, ids, flushes, up, wire, inbox, server, past, faults, produced>>

\* A BadMsgNotification is logged and returned like a result.
TakeResult(c) ==
    /\ HasValue(c)
    /\ \/ Value(c) = "result" /\ Ends(c, "result") /\ got' = [got EXCEPT ![c] = results[msg[c]]]
       \/ Value(c) = "badmsg" /\ Ends(c, "notice") /\ UNCHANGED got
    /\ results' = Without(msg[c])
    /\ UNCHANGED <<retries, msg, messages, salt, ids, flushes, up, wire, inbox, server, past, faults, produced>>

TakeError(c) ==
    /\ HasValue(c)
    /\ \/ Value(c) = "error" /\ Retry(c)
       \/ Value(c) = "refused" /\ Ends(c, "raised") /\ UNCHANGED retries
       \/ Value(c) = "flood" /\ pc' = [pc EXCEPT ![c] = "pause"] /\ UNCHANGED <<retries, outcome>>
    /\ results' = Without(msg[c])
    /\ UNCHANGED <<msg, got, messages, salt, ids, flushes, up, wire, inbox, server, past, faults, produced>>

\* send() calls itself with the new salt.
TakeSalt(c) ==
    /\ HasValue(c)
    /\ Value(c) = "badsalt"
    /\ salt' = mail[results[msg[c]]].salt
    /\ Send(c, Without(msg[c]), salt')
    /\ UNCHANGED <<got, ids, flushes, up, inbox, server, past, faults, produced>>

Caller(c) ==
    \/ Issue(c) \/ TimeOut(c) \/ Cancel(c) \/ TakeResult(c)
    \/ TakeError(c) \/ TakeSalt(c)

-----------------------------------------------------------------------------
(***************************************************************************)
(* The server and the network, as far as the code has to cope with them.   *)
(***************************************************************************)
\* A new message of the server; it is on its way if there is a connection.
Post(kind, re) ==
    /\ Len(mail) < MaxMail
    /\ mail' = Append(mail, [kind |-> kind, re |-> re, salt |-> IF kind = "badsalt" THEN server_salt ELSE 0])
    /\ inbox' = IF up THEN Append(inbox, Len(mail) + 1) ELSE inbox

\* A message is answered once, and executed only under the right salt.
Execute(id) ==
    /\ IF messages[id].salt = server_salt
       THEN \/ /\ Post("result", id)
               /\ produced' = [produced EXCEPT ![messages[id].by] = @ \union {Len(mail) + 1}]
               /\ UNCHANGED faults
            \/ /\ \E kind \in Errors : Post(kind, id)
               /\ Fault
               /\ UNCHANGED produced
       ELSE Post("badsalt", id) /\ UNCHANGED <<faults, produced>>
    /\ wire' = wire \ {id}
    /\ UNCHANGED <<caller, messages, results, salt, ids, flushes, up, acked, server_salt, past>>

Push ==
    /\ Post("update", 0)
    /\ UNCHANGED <<caller, messages, results, salt, ids, flushes, up, wire, acked, server_salt, past, faults, produced>>

\* The server repeats a message that is not acknowledged, or announces it
\* with a MsgDetailedInfo.
Resend(i) ==
    /\ up
    /\ Fault
    /\ Content(mail[i]) /\ i \notin acked
    /\ \/ inbox' = Append(inbox, i) /\ UNCHANGED mail
       \/ Post("info", i)
    /\ UNCHANGED <<caller, messages, results, salt, ids, flushes, up, wire, acked, server_salt, past, produced>>

NewSalt ==
    /\ Fault
    /\ server_salt' = server_salt + 1
    /\ UNCHANGED <<caller, messages, results, salt, ids, flushes, up, wire, inbox, mail, acked, past, produced>>

\* What has not been read by now is lost.  The server may have the client's
\* messages or not: those that are lost are never executed.
Break(read) ==
    /\ up' = FALSE
    /\ inbox' = read

Lose ==
    /\ up
    /\ Fault
    /\ \E n \in 0 .. Len(inbox) : Break(SubSeq(inbox, 1, n))
    /\ UNCHANGED <<caller, messages, results, salt, ids, flushes, wire, server, past, produced>>

\* stop forgets the ids it has stored, start connects again; packets that
\* were read before may be handled after it.
RestartWith(acks) ==
    /\ ~up
    /\ up' = TRUE
    /\ stored_msg_ids' = {}
    /\ pending_acks' = acks
    /\ stops' = stops + 1
    /\ UNCHANGED <<caller, messages, results, salt, flushes, wire, inbox, server, handled, dropped, refused, faults, produced>>

\* Mutant of Restart: it forgets what is still to be acknowledged.
RestartForgetsAcks == RestartWith({})

Restart == RestartWith(pending_acks)

-----------------------------------------------------------------------------
(***************************************************************************)
(* handle_packet.  Packets are unpacked by one thread, hence in order; a   *)
(* container's messages are one entry of the inbox each, and `last` says   *)
(* whether an entry ends its packet.                                       *)
(***************************************************************************)
\* The acknowledgements are sent at the end of a packet, in the background.
Flush(pending, last) ==
    /\ pending_acks' = pending
    /\ flushes' = IF last /\ Cardinality(pending) >= AcksThreshold
                  THEN Append(flushes, [ids |-> pending, salt |-> salt])
                  ELSE flushes

\* The ids kept when one more is about to be stored.
Trimmed ==
    IF Cardinality(stored_msg_ids) > StoredMax
    THEN {i \in stored_msg_ids :
            Cardinality({j \in stored_msg_ids : j < i}) >= StoredMax \div 2}
    ELSE stored_msg_ids

\* Lower than all stored values, or equal to one.
Mismatch(i) == Trimmed # {} /\ (i \in Trimmed \/ \A j \in Trimmed : i < j)

\* Received, and waiting to be acknowledged: skipped.
Again(i) == Content(mail[i]) /\ i \in pending_acks
WithAck(i) == IF Content(mail[i]) THEN pending_acks \union {i} ELSE pending_acks

SkipAgain(last) ==
    LET i == Head(inbox)
    IN  /\ Again(i)
        /\ inbox' = Tail(inbox)
        /\ Flush(pending_acks, last)
        /\ UNCHANGED <<caller, messages, results, salt, stored_msg_ids, up, wire, server, past, faults, produced>>

\* SecurityCheckMismatch: the id is already pending; the rest of the packet
\* and the connection go.
Discard ==
    LET i == Head(inbox)
    IN  /\ ~Again(i)
        /\ Mismatch(i)
        /\ pending_acks' = WithAck(i)
        /\ stored_msg_ids' = Trimmed
        /\ refused' = refused \union {i}
        /\ \E a \in 2 .. Len(inbox) + 1, b \in 1 .. Len(inbox) : Break(SubSeq(inbox, a, b))
        /\ UNCHANGED <<caller, messages, results, salt, flushes, wire, server, handled, dropped, stops, faults, produced>>

\* Stores the id and acts on the kind of the message.
AcceptIf(last, handle) ==
    LET i == Head(inbox)
        m == mail[i]
    IN  /\ ~Again(i)
        /\ ~Mismatch(i)
        /\ inbox' = Tail(inbox)
        /\ stored_msg_ids' = Trimmed \union {i}
        /\ Flush(IF m.kind = "info" THEN pending_acks \union {m.re} ELSE WithAck(i), last)
        /\ handled' = IF m.kind = "update" /\ handle THEN [handled EXCEPT ![i] = @ + 1] ELSE handled
        /\ results' = IF m.kind \notin {"info", "update"} /\ m.re \in DOMAIN results
                      THEN [results EXCEPT ![m.re] = i]
                      ELSE results
        /\ UNCHANGED <<caller, messages, salt, up, wire, server, dropped, refused, stops, faults, produced>>

\* Mutant of Accept: only the last message of a container is handled.
AcceptLastUpdate(last) == AcceptIf(last, last)

Accept(last) == AcceptIf(last, TRUE)

Receive ==
    /\ inbox # <<>>
    /\ \/ Discard
       \/ \E last \in {TRUE, Len(inbox) = 1} : SkipAgain(last) \/ Accept(last)

\* The first pending MsgsAck is written, and everything pending is cleared,
\* what was added meanwhile included.  The server refuses it under an old
\* salt, and that answer finds no entry in `results`.
Clear(sent) ==
    /\ flushes' = Tail(flushes)
    /\ pending_acks' = {}
    /\ acked' = acked \union sent
    /\ dropped' = dropped \union (pending_acks \ sent)

AckWritten ==
    LET f == Head(flushes)
    IN  /\ flushes # <<>>
        /\ Clear(IF up /\ f.salt = server_salt THEN f.ids ELSE {})
        /\ UNCHANGED <<caller, messages, results, salt, stored_msg_ids, up, wire, inbox, mail, server_salt, handled, refused, stops, faults, produced>>

AckFails ==
    /\ flushes # <<>>
    /\ ~up
    /\ flushes' = Tail(flushes)
    /\ UNCHANGED <<caller, messages, results, salt, ids, up, wire, inbox, server, past, faults, produced>>

Session == Restart \/ Receive \/ AckWritten \/ AckFails
Network == Push \/ NewSalt \/ Lose \/ (\E id \in wire : Execute(id)) \/ \E i \in 1 .. Len(mail) : Resend(i)

Next == Session \/ Network \/ \E c \in Callers : Caller(c)

Spec == Init /\ [][Next]_vars

-----------------------------------------------------------------------------
(***************************************************************************)
(* Properties.                                                             *)
(***************************************************************************)
Kinds == Errors \union {"result", "badsalt", "update", "info"}
Mail == 1 .. MaxMail

\* Types; no caller takes more retries than it has.
TypeOK ==
    /\ pc \in [Callers -> {"idle", "wait", "pause", "ended"}]
    /\ retries \in [Callers -> Nat] /\ \A c \in Callers : retries[c] <= Retries[c]
    /\ msg \in [Callers -> 0 .. Len(messages)]
    /\ outcome \in [Callers -> {"none", "result", "raised", "notice", "cancelled"}]
    /\ got \in [Callers -> 0 .. MaxMail]
    /\ messages \in Seq([by : Callers, salt : Nat])
    /\ DOMAIN results \subseteq 1 .. Len(messages)
    /\ \A id \in DOMAIN results : results[id] \in 0 .. Len(mail)
    /\ {salt, server_salt} \subseteq 0 .. MaxFaults
    /\ pending_acks \subseteq Mail
    /\ stored_msg_ids \subseteq Mail
    /\ flushes \in Seq([ids : SUBSET Mail, salt : Nat])
    /\ up \in BOOLEAN
    /\ wire \subseteq 1 .. Len(messages)
    /\ inbox \in Seq(Mail)
    /\ mail \in Seq([kind : Kinds, re : Nat, salt : Nat])
    /\ acked \subseteq Mail /\ dropped \subseteq Mail /\ refused \subseteq Mail
    /\ handled \in [Mail -> Nat]

\* A value goes to the call the server computed it for, and to no other, even
\* if it comes after a timeout, a repetition or a new connection; a call is
\* executed once per attempt at most (refinement of RemoteCall).
Call == INSTANCE RemoteCall WITH
          Callers  <- Callers,
          Values   <- Mail,
          Attempts <- [c \in Callers |-> Retries[c] + 1],
          produced <- produced,
          outcome  <- outcome,
          got      <- got
CallSpec == Call!Spec

\* A caller that waits has its entry in `results`, and an entry belongs to a
\* caller that waits or that was cancelled: nothing else stays behind. (Types
\* are as in TypeOK.)
Awaiting(c) == pc[c] = "wait"
EntriesMatchCallers ==
    /\ TypeOK
    /\ \A c \in Callers : Awaiting(c) => msg[c] \in DOMAIN results
    /\ \A id \in DOMAIN results :
         LET c == messages[id].by
         IN  msg[c] = id /\ (Awaiting(c) \/ outcome[c] = "cancelled")

\* An update is handled once per start of the session at most; and while it
\* still waits to be acknowledged, never a second time.
HandledOncePerStart ==
    \A i \in Mail : /\ handled[i] <= stops + 1
                   /\ handled[i] > 1 => i \in dropped \union acked

\* An update that the server takes for delivered was handled, unless the id
\* checks refused it or it had been announced before it came.
Announced(i) == \E j \in 1 .. Len(mail) : mail[j].kind = "info" /\ mail[j].re = i
AckedMeansHandled ==
    \A i \in acked : mail[i].kind = "update" => handled[i] > 0 \/ i \in refused \/ Announced(i)

-----------------------------------------------------------------------------
\* No update that the server takes for delivered is lost.
NoUpdateLost == \A i \in acked : mail[i].kind = "update" => handled[i] > 0

\* Every update is handled once at most.
HandledOnce == \A i \in Mail : handled[i] < 2
==============================================================================
