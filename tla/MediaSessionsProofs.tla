------------------------- MODULE MediaSessionsProofs -------------------------
(***************************************************************************)
(* Proofs about MediaSessions for any number of callers, data centres and  *)
(* attempts: no session is made twice where a lock or the absence of an    *)
(* await protects the look, none is handed out before it is ready, and     *)
(* none of a handler outlives the client.                                  *)
(***************************************************************************)
EXTENDS MediaSessions, FiniteSetTheorems, SequenceTheorems, TLAPS

Places == Over \union {"idle", "lock", "auth", "start", "export", "import", "stop", "use"}
Types ==
    /\ where \in [Callers -> DCs] /\ where \in Placements
    /\ media \in [DCs -> Callers \union {NoSession}]
    /\ keys \in Seq(DCs)
    /\ status \in [Callers -> {"none", "starting", "up", "down"}]
    /\ signed \subseteq Callers /\ broken \subseteq Callers /\ replaced \subseteq Callers
    /\ lock \in Seq(Inline)
    /\ pc \in [Callers -> Places]
    /\ session \in [Callers -> Callers \union {NoSession}]
    /\ tries \in [Callers -> 0 .. Attempts]
    /\ phase \in {"on", "draining", "closing", "off", "raised"}
    /\ at \in 0 .. size /\ size \in 0 .. Cardinality(DCs)
    /\ faults \in 0 .. MaxFaults

\* media_sessions has the keys it has sessions for, each once.
KeysInv ==
    /\ \A i, j \in 1 .. Len(keys) : keys[i] = keys[j] => i = j
    /\ \A d \in DCs : media[d] # NoSession <=> \E i \in 1 .. Len(keys) : keys[i] = d

\* Who makes a session with get_session comes first at the lock, who waits for
\* the lock is behind it.
Making == {"auth", "start", "export", "import", "stop"}
LockInv ==
    \A c \in Inline :
      /\ pc[c] \in Making => lock # <<>> /\ Head(lock) = c
      /\ pc[c] = "lock" => \E i \in 1 .. Len(lock) : lock[i] = c

\* What is known of a caller where it is suspended.
Begun(c) == status[c] # "none"
CallerInv ==
    \A c \in Callers :
      /\ pc[c] \in {"idle", "lock", "auth"} => ~Begun(c)
      /\ pc[c] \in {"start", "export", "import", "stop"} => Begun(c)
      /\ status[c] = "starting" <=> pc[c] = "start"
      /\ pc[c] \notin Over \union {"use", "stop"} => tries[c] < Attempts
      /\ pc[c] \in {"lock", "stop"} => c \in Inline
      /\ pc[c] = "auth" => where[c] # Home
      /\ c \in Inline /\ where[c] = Home => pc[c] \in {"idle", "done"}

\* A session that is not in media_sessions was replaced there.
MediaInv ==
    /\ \A d \in DCs : media[d] # NoSession => where[media[d]] = d /\ Begun(media[d])
    /\ phase # "off" => \A s \in Callers : Begun(s) /\ s \notin replaced => media[where[s]] = s

BaseInv == Types /\ KeysInv /\ LockInv /\ CallerInv /\ MediaInv

-----------------------------------------------------------------------------
(***************************************************************************)
(* What the steps do to the lock and to media_sessions.                    *)
(***************************************************************************)
LEMMA SmallFacts == Inline \subseteq Callers /\ NoSession \notin Callers /\ Home \in DCs
  BY CallersAssumption, NoSessionAssumption, DCsAssumption DEF Inline

Moves(c, l) == pc'[c] = l /\ \A x \in Callers \ {c} : pc'[x] = pc[x]

LEMMA GotoMoves ==
  ASSUME Types, NEW c \in Callers, NEW l, Goto(c, l)
  PROVE  Moves(c, l) /\ (l \in Places => pc' \in [Callers -> Places])
  BY DEF Types, Goto, Moves

\* There are no more keys than data centres.
LEMMA KeysCounted ==
  ASSUME Types, KeysInv
  PROVE  Len(keys) \in 0 .. Cardinality(DCs)
<1>1. Len(keys) \in Nat /\ keys \in [1 .. Len(keys) -> DCs]
  BY LenProperties DEF Types
<1>2. IsFiniteSet(DCs)
  BY DCsAssumption
<1>3. keys \in Injection(1 .. Len(keys), DCs)
  BY <1>1 DEF KeysInv, Injection, IsInjective
<1>4. Cardinality(1 .. Len(keys)) <= Cardinality(DCs)
  BY <1>2, <1>3, FS_Injection
<1>5. Cardinality(1 .. Len(keys)) = Len(keys)
  BY <1>1, FS_Interval
<1>6. Cardinality(DCs) \in Nat
  BY <1>2, FS_CardinalityType
<1> QED BY <1>1, <1>4, <1>5, <1>6

LEMMA UnlockedType ==
  ASSUME Types, NEW c \in Callers
  PROVE  /\ Unlocked(c) \in Seq(Inline)
         /\ c \notin Inline => Unlocked(c) = lock
         /\ \A x \in Callers \ {c} :
              (\E i \in 1 .. Len(lock) : lock[i] = x) =>
                \E i \in 1 .. Len(Unlocked(c)) : Unlocked(c)[i] = x
<1>1. CASE ~(lock # <<>> /\ Head(lock) = c)
  BY <1>1 DEF Types, Unlocked
<1>2. CASE lock # <<>> /\ Head(lock) = c
  <2>1. Unlocked(c) = Tail(lock) /\ lock \in Seq(Inline) /\ Head(lock) = lock[1]
    BY <1>2 DEF Types, Unlocked
  <2>2. /\ Tail(lock) \in Seq(Inline) /\ Len(Tail(lock)) = Len(lock) - 1 /\ Len(lock) \in Nat
        /\ \A i \in 1 .. Len(Tail(lock)) : Tail(lock)[i] = lock[i + 1]
    BY <1>2, <2>1, HeadTailProperties, LenProperties
  <2>3. c \in Inline
    BY <1>2, <2>1, HeadTailProperties
  <2>4. ASSUME NEW x \in Callers \ {c}, NEW i \in 1 .. Len(lock), lock[i] = x
        PROVE  \E k \in 1 .. Len(Tail(lock)) : Tail(lock)[k] = x
    <3>1. i # 1
      BY <1>2, <2>1, <2>4
    <3>2. i - 1 \in 1 .. Len(Tail(lock)) /\ (i - 1) + 1 = i
      BY <2>2, <3>1
    <3>3. Tail(lock)[i - 1] = x
      BY <2>2, <2>4, <3>2
    <3> QED BY <3>2, <3>3
  <2> QED BY <2>1, <2>2, <2>3, <2>4
<1> QED BY <1>1, <1>2

\* A step that keeps the lock as it is.
LEMMA LockHeld ==
  ASSUME Types, LockInv, NEW c \in Callers, NEW l, Moves(c, l), lock' = lock,
         l # "lock", c \in Inline /\ l \in Making => pc[c] \in Making \/ (lock # <<>> /\ Head(lock) = c)
  PROVE  LockInv'
<1> SUFFICES ASSUME NEW x \in Inline
             PROVE  /\ pc'[x] \in Making => lock # <<>> /\ Head(lock) = x
                    /\ pc'[x] = "lock" => \E i \in 1 .. Len(lock) : lock[i] = x
  BY DEF LockInv
<1>1. CASE x = c
  BY <1>1 DEF LockInv, Moves
<1>2. CASE x # c
  <2>1. pc'[x] = pc[x]
    BY <1>2, SmallFacts DEF Moves
  <2> QED BY <2>1 DEF LockInv
<1> QED BY <1>1, <1>2

\* A step that leaves the block of the lock.
LEMMA LockPassed ==
  ASSUME Types, LockInv, NEW c \in Callers, NEW l, Moves(c, l), lock' = Unlocked(c),
         l \notin Making \union {"lock"},
         c \in Inline => pc[c] \in Making \/ (lock # <<>> /\ Head(lock) = c)
  PROVE  LockInv'
<1> SUFFICES ASSUME NEW x \in Inline
             PROVE  /\ pc'[x] \in Making => lock' # <<>> /\ Head(lock') = x
                    /\ pc'[x] = "lock" => \E i \in 1 .. Len(lock') : lock'[i] = x
  BY DEF LockInv
<1>1. CASE x = c
  BY <1>1 DEF Moves
<1>2. CASE x # c
  <2>1. pc'[x] = pc[x] /\ x \in Callers
    BY <1>2, SmallFacts DEF Moves
  <2>2. CASE pc[x] \in Making
    <3>1. Head(lock) = x /\ lock # <<>>
      BY <2>2 DEF LockInv
    <3>2. c \notin Inline
      BY <1>2, <3>1 DEF LockInv
    <3> QED BY <2>1, <2>2, <3>1, <3>2, UnlockedType DEF Making
  <2>3. CASE pc[x] \notin Making
    BY <1>2, <2>1, <2>3, UnlockedType DEF LockInv
  <2> QED BY <2>2, <2>3
<1> QED BY <1>1, <1>2

\* A session is stored for the data centre of the caller.
LEMMA StoreDoes ==
  ASSUME Types, KeysInv, NEW c \in Callers, Store(c)
  PROVE  /\ KeysInv'
         /\ media' \in [DCs -> Callers \union {NoSession}] /\ keys' \in Seq(DCs)
         /\ status' \in [Callers -> {"none", "starting", "up", "down"}]
         /\ session' \in [Callers -> Callers \union {NoSession}]
         /\ replaced' \subseteq Callers
         /\ Moves(c, "start") /\ pc' \in [Callers -> Places]
         /\ Len(keys') \in {Len(keys), Len(keys) + 1} /\ Len(keys) \in Nat
         /\ \A i \in 1 .. Len(keys) : keys'[i] = keys[i]
<1> DEFINE d == where[c]
<1>1. d \in DCs /\ Moves(c, "start") /\ pc' \in [Callers -> Places]
  BY GotoMoves DEF Store, Types, Places
<1>2. media' = [media EXCEPT ![d] = c] /\ media' \in [DCs -> Callers \union {NoSession}]
  BY <1>1 DEF Store, Types
<1>3. /\ status' \in [Callers -> {"none", "starting", "up", "down"}]
      /\ session' \in [Callers -> Callers \union {NoSession}]
      /\ replaced' \subseteq Callers
  BY <1>1 DEF Store, Types
<1>4. keys \in Seq(DCs) /\ Len(keys) \in Nat
  BY LenProperties DEF Types
<1>5. CASE \E i \in 1 .. Len(keys) : keys[i] = d
  <2>1. keys' = keys
    BY <1>5 DEF Store, Contains
  <2>2. KeysInv'
    BY <1>2, <1>5, <2>1, SmallFacts DEF KeysInv, Types
  <2> QED BY <1>1, <1>2, <1>3, <1>4, <2>1, <2>2
<1>6. CASE ~ \E i \in 1 .. Len(keys) : keys[i] = d
  <2>1. keys' = Append(keys, d)
    BY <1>6 DEF Store, Contains
  <2> HIDE DEF d
  <2>2. /\ keys' \in Seq(DCs) /\ Len(keys') = Len(keys) + 1
        /\ \A i \in 1 .. Len(keys) : keys'[i] = keys[i]
        /\ keys'[Len(keys) + 1] = d
    BY <1>1, <1>4, <2>1, AppendProperties
  <2>3. \A i \in 1 .. Len(keys') : i \in 1 .. Len(keys) \/ i = Len(keys) + 1
    BY <1>4, <2>2
  <2>4. \A i, k \in 1 .. Len(keys') : keys'[i] = keys'[k] => i = k
    BY <1>6, <2>2, <2>3 DEF KeysInv
  <2>5. \A e \in DCs : media'[e] # NoSession <=> \E i \in 1 .. Len(keys') : keys'[i] = e
    <3> SUFFICES ASSUME NEW e \in DCs
                 PROVE  media'[e] # NoSession <=> \E i \in 1 .. Len(keys') : keys'[i] = e
      OBVIOUS
    <3>1. CASE e = d
      <4>1. media'[e] # NoSession
        BY <1>1, <1>2, <3>1, SmallFacts DEF Types
      <4>2. Len(keys) + 1 \in 1 .. Len(keys')
        BY <1>4, <2>2
      <4> QED BY <2>2, <3>1, <4>1, <4>2
    <3>2. CASE e # d
      <4>1. media'[e] = media[e]
        BY <1>2, <3>2 DEF Types
      <4>2. (\E i \in 1 .. Len(keys') : keys'[i] = e) <=> \E i \in 1 .. Len(keys) : keys[i] = e
        <5>1. \A i \in 1 .. Len(keys) : i \in 1 .. Len(keys')
          BY <1>4, <2>2
        <5> QED BY <2>2, <2>3, <3>2, <5>1
      <4> QED BY <4>1, <4>2 DEF KeysInv
    <3> QED BY <3>1, <3>2
  <2> QED BY <1>1, <1>2, <1>3, <1>4, <2>2, <2>4, <2>5 DEF KeysInv
<1> QED BY <1>5, <1>6

-----------------------------------------------------------------------------
(***************************************************************************)
(* What a step leaves as it is.                                            *)
(***************************************************************************)
\* Nobody begins to make a session, and none but that of c starts or stops
\* starting.
SameSessions(c) ==
    /\ \A x \in Callers : status'[x] = "none" <=> status[x] = "none"
    /\ \A x \in Callers \ {c} : status'[x] = "starting" <=> status[x] = "starting"

CallerAt(c, l, begun, starting, t) ==
    /\ l \in {"idle", "lock", "auth"} => ~begun
    /\ l \in {"start", "export", "import", "stop"} => begun
    /\ starting <=> l = "start"
    /\ l \notin Over \union {"use", "stop"} => t < Attempts
    /\ l \in {"lock", "stop"} => c \in Inline
    /\ l = "auth" => where[c] # Home
    /\ c \in Inline /\ where[c] = Home => l \in {"idle", "done"}

LEMMA CallerKept ==
  ASSUME Types, CallerInv, NEW c \in Callers, NEW l, Moves(c, l),
         \A x \in Callers \ {c} : /\ status'[x] = "none" <=> status[x] = "none"
                                  /\ status'[x] = "starting" <=> status[x] = "starting"
                                  /\ tries'[x] = tries[x],
         UNCHANGED where,
         CallerAt(c, l, status'[c] # "none", status'[c] = "starting", tries'[c])
  PROVE  CallerInv'
<1> SUFFICES ASSUME NEW x \in Callers
             PROVE  CallerAt(x, pc'[x], status'[x] # "none", status'[x] = "starting", tries'[x])
  BY DEF CallerInv, CallerAt, Begun
<1>1. CASE x = c
  BY <1>1 DEF Moves
<1>2. CASE x # c
  BY <1>2 DEF Moves, CallerInv, CallerAt, Begun
<1> QED BY <1>1, <1>2

LEMMA MediaKept ==
  ASSUME Types, MediaInv, NEW c, SameSessions(c), UNCHANGED <<where, broken, media, replaced>>,
         phase = "off" => phase' = "off"
  PROVE  MediaInv'
  BY NoSessionAssumption DEF MediaInv, Begun, SameSessions, Types

\* A new session takes its place in media_sessions.
LEMMA StoreMedia ==
  ASSUME Types, MediaInv, NEW c \in Callers, Store(c), UNCHANGED <<where, broken, phase>>,
         ~Begun(c)
  PROVE  MediaInv'
<1> DEFINE d == where[c]
<1>1. /\ d \in DCs /\ media' = [media EXCEPT ![d] = c]
      /\ replaced' = replaced \union ({media[d]} \ {NoSession})
      /\ status' = [status EXCEPT ![c] = "starting"]
  BY DEF Store, Types
<1>2. ASSUME NEW e \in DCs, media'[e] # NoSession
      PROVE  where[media'[e]] = e /\ status'[media'[e]] # "none"
  BY <1>1, <1>2, SmallFacts DEF MediaInv, Begun, Types
<1>3. ASSUME phase # "off", NEW s \in Callers, status'[s] # "none", s \notin replaced'
      PROVE  media'[where[s]] = s
  <2>1. CASE s = c
    BY <1>1, <2>1 DEF Types
  <2>2. CASE s # c
    <3>1. Begun(s) /\ s \notin replaced
      BY <1>1, <1>3, <2>2 DEF Begun, Types
    <3>2. media[where[s]] = s /\ s # NoSession
      BY <1>3, <3>1, SmallFacts DEF MediaInv
    <3>3. where[s] # d
      BY <1>1, <1>3, <3>2
    <3> QED BY <1>1, <3>2, <3>3 DEF Types
  <2> QED BY <2>1, <2>2
<1> QED BY <1>2, <1>3 DEF MediaInv, Begun

\* The look into media_sessions.
LEMMA LookDoes ==
  ASSUME BaseInv, NEW c \in Callers, Look(c), UNCHANGED <<where, broken, phase>>, ~Begun(c),
         c \in Inline => where[c] # Home, tries' = tries, tries[c] < Attempts
  PROVE  /\ KeysInv' /\ MediaInv' /\ CallerInv'
         /\ media' \in [DCs -> Callers \union {NoSession}] /\ keys' \in Seq(DCs)
         /\ status' \in [Callers -> {"none", "starting", "up", "down"}]
         /\ session' \in [Callers -> Callers \union {NoSession}]
         /\ replaced' \subseteq Callers /\ signed' \subseteq Callers
         /\ pc' \in [Callers -> Places]
         /\ \/ /\ Moves(c, "use") /\ media[where[c]] # NoSession
               /\ session' = [session EXCEPT ![c] = media[where[c]]]
               /\ UNCHANGED <<media, keys, replaced, status, signed>>
            \/ /\ Moves(c, "start") /\ where[c] = Home /\ media[where[c]] = NoSession
               /\ Store(c) /\ signed' = signed \union {c}
            \/ /\ Moves(c, "auth") /\ where[c] # Home /\ media[where[c]] = NoSession
               /\ UNCHANGED <<media, keys, replaced, status, session, signed>>
<1> USE DEF BaseInv
<1>1. where[c] \in DCs /\ tries[c] \in Nat
  BY AttemptsAssumption DEF Types
<1>2. CASE media[where[c]] # NoSession
  <2>1. /\ session' = [session EXCEPT ![c] = media[where[c]]]
        /\ UNCHANGED <<media, keys, replaced, status, signed>> /\ Goto(c, "use")
    BY <1>2 DEF Look, dict
  <2>2. Moves(c, "use") /\ pc' \in [Callers -> Places]
    BY <2>1, GotoMoves DEF Places
  <2>3. CallerAt(c, "use", status'[c] # "none", status'[c] = "starting", tries'[c])
    BY <1>1, <2>1 DEF CallerAt, Begun, Over
  <2>4. CallerInv'
    BY <2>1, <2>2, <2>3, CallerKept
  <2>5. MediaInv' /\ KeysInv'
    BY <2>1, MediaKept DEF SameSessions, KeysInv
  <2> QED BY <1>1, <1>2, <2>1, <2>2, <2>4, <2>5 DEF Types
<1>3. CASE media[where[c]] = NoSession /\ where[c] = Home
  <2>1. Store(c) /\ signed' = signed \union {c}
    BY <1>3 DEF Look
  <2>2. CallerAt(c, "start", status'[c] # "none", status'[c] = "starting", tries'[c])
    BY <1>1, <1>3, <2>1 DEF CallerAt, Over, Store, Types
  <2>3. CallerInv'
    BY <2>1, <2>2, StoreDoes, CallerKept DEF Store, Types
  <2> QED BY <1>3, <2>1, <2>3, StoreDoes, StoreMedia DEF Types
<1>4. CASE media[where[c]] = NoSession /\ where[c] # Home
  <2>1. UNCHANGED <<media, keys, replaced, status, session, signed>> /\ Goto(c, "auth")
    BY <1>4 DEF Look, dict
  <2>2. Moves(c, "auth") /\ pc' \in [Callers -> Places]
    BY <2>1, GotoMoves DEF Places
  <2>3. CallerAt(c, "auth", status'[c] # "none", status'[c] = "starting", tries'[c])
    BY <1>1, <1>4, <2>1 DEF CallerAt, Begun, Over
  <2>4. CallerInv'
    BY <2>1, <2>2, <2>3, CallerKept
  <2>5. MediaInv' /\ KeysInv'
    BY <2>1, MediaKept DEF SameSessions, KeysInv
  <2> QED BY <1>4, <2>1, <2>2, <2>4, <2>5 DEF Types
<1> QED BY <1>2, <1>3, <1>4

-----------------------------------------------------------------------------
(***************************************************************************)
(* What is always true of a caller, step by step.                          *)
(***************************************************************************)
\* A step of a caller that leaves media_sessions as it is.
LEMMA LightStep ==
  ASSUME BaseInv, NEW c \in Callers, NEW l \in Places, Moves(c, l),
         pc' \in [Callers -> Places],
         UNCHANGED <<where, broken, media, keys, replaced, session, phase, at, size>>,
         status' \in [Callers -> {"none", "starting", "up", "down"}],
         SameSessions(c),
         signed' \subseteq Callers,
         tries' \in [Callers -> 0 .. Attempts],
         \A x \in Callers \ {c} : tries'[x] = tries[x],
         faults' \in 0 .. MaxFaults,
         lock' \in Seq(Inline), LockInv',
         CallerAt(c, l, status'[c] # "none", status'[c] = "starting", tries'[c])
  PROVE  BaseInv'
<1> USE DEF BaseInv
<1>1. Types'
  BY DEF Types
<1>2. KeysInv'
  BY DEF KeysInv
<1>3. CallerInv'
  BY CallerKept DEF SameSessions
<1>4. MediaInv'
  BY MediaKept
<1> QED BY <1>1, <1>2, <1>3, <1>4

\* The look into media_sessions, with the lock or without it.
LEMMA LookStep ==
  ASSUME BaseInv, NEW c \in Callers, Look(c), ~Begun(c), c \in Inline => where[c] # Home,
         tries[c] < Attempts, UNCHANGED <<where, broken, tries, client, faults>>,
         lock' \in Seq(Inline), LockInv'
  PROVE  BaseInv'
<1> USE DEF BaseInv
<1>1. UNCHANGED <<phase, at, size>>
  BY DEF client
<1>2. Types'
  BY <1>1, LookDoes DEF Types
<1>3. KeysInv' /\ MediaInv' /\ CallerInv'
  BY <1>1, LookDoes
<1> QED BY <1>2, <1>3

LEMMA TransferStep ==
  ASSUME BaseInv, NEW c \in Callers, Transfer(c)
  PROVE  BaseInv'
<1> USE DEF BaseInv
<1>1. c \notin Inline /\ ~Begun(c) /\ tries[c] < Attempts /\ Look(c)
  BY DEF Transfer, Inline, CallerInv, Over
<1>2. lock' = lock /\ lock \in Seq(Inline) /\ UNCHANGED <<where, broken, tries, client, faults, phase>>
  BY DEF Transfer, Types, client
<1>3. PICK l \in {"use", "start", "auth"} : Moves(c, l)
  BY <1>1, <1>2, LookDoes
<1>4. LockInv'
  BY <1>1, <1>2, <1>3, LockHeld
<1> QED BY <1>1, <1>2, <1>4, LookStep

LEMMA GetSessionStep ==
  ASSUME BaseInv, NEW c \in Callers, GetSession(c)
  PROVE  BaseInv'
<1> USE DEF BaseInv
<1>1. /\ c \in Inline /\ pc[c] = "idle" /\ status[c] = "none" /\ tries[c] < Attempts
      /\ UNCHANGED <<where, broken, media, keys, replaced, session, phase, at, size, status, signed, tries, faults>>
      /\ lock \in Seq(Inline)
  BY DEF GetSession, CallerInv, Begun, Over, dict, client, Types
<1>2. SameSessions(c)
  BY <1>1 DEF SameSessions
<1>3. CASE where[c] = Home
  <2>1. Goto(c, "done") /\ lock' = lock
    BY <1>3 DEF GetSession
  <2>2. "done" \in Places /\ Moves(c, "done") /\ pc' \in [Callers -> Places]
    BY <2>1, GotoMoves DEF Places, Over
  <2>3. LockInv'
    BY <2>1, <2>2, LockHeld DEF Making
  <2>4. CallerAt(c, "done", status'[c] # "none", status'[c] = "starting", tries'[c])
    BY <1>1 DEF CallerAt, Over
  <2> QED BY <1>1, <1>2, <2>1, <2>2, <2>3, <2>4, LightStep DEF Types
<1>4. CASE where[c] # Home
  <2>1. Goto(c, "lock") /\ lock' = Append(lock, c)
    BY <1>4 DEF GetSession
  <2>2. "lock" \in Places /\ Moves(c, "lock") /\ pc' \in [Callers -> Places]
    BY <2>1, GotoMoves DEF Places, Over
  <2>3. CallerAt(c, "lock", status'[c] # "none", status'[c] = "starting", tries'[c])
    BY <1>1, <1>4 DEF CallerAt, Over
  <2>4. /\ lock' \in Seq(Inline) /\ Len(lock') = Len(lock) + 1 /\ Len(lock) \in Nat
        /\ \A i \in 1 .. Len(lock) : lock'[i] = lock[i]
        /\ lock'[Len(lock) + 1] = c
    BY <1>1, <2>1, AppendProperties, LenProperties
  <2>5. \A i \in 1 .. Len(lock) : i \in 1 .. Len(lock')
    BY <2>4
  <2>6. lock # <<>> => lock' # <<>> /\ Head(lock') = Head(lock)
    <3> SUFFICES ASSUME lock # <<>> PROVE lock' # <<>> /\ Head(lock') = Head(lock)
      OBVIOUS
    <3>1. Head(lock) = lock[1] /\ Len(lock) # 0
      BY <1>1, EmptySeq
    <3>2. lock' # <<>> /\ Head(lock') = lock'[1]
      BY <2>4, EmptySeq
    <3>3. 1 \in 1 .. Len(lock)
      BY <2>4, <3>1
    <3> QED BY <2>4, <3>1, <3>2, <3>3
  <2>7. LockInv'
    <3> SUFFICES ASSUME NEW x \in Inline
                 PROVE  /\ pc'[x] \in Making => lock' # <<>> /\ Head(lock') = x
                        /\ pc'[x] = "lock" => \E i \in 1 .. Len(lock') : lock'[i] = x
      BY DEF LockInv
    <3>1. CASE x = c
      <4>1. Len(lock) + 1 \in 1 .. Len(lock')
        BY <2>4
      <4> QED BY <2>2, <2>4, <3>1, <4>1 DEF Moves, Making
    <3>2. CASE x # c
      <4>1. pc'[x] = pc[x]
        BY <2>2, <3>2, SmallFacts DEF Moves
      <4>2. pc'[x] \in Making => lock' # <<>> /\ Head(lock') = x
        BY <2>6, <4>1 DEF LockInv
      <4>3. ASSUME pc'[x] = "lock" PROVE \E i \in 1 .. Len(lock') : lock'[i] = x
        <5>1. PICK i \in 1 .. Len(lock) : lock[i] = x
          BY <4>1, <4>3 DEF LockInv
        <5> QED BY <2>4, <2>5, <5>1
      <4> QED BY <4>2, <4>3
    <3> QED BY <3>1, <3>2
  <2> QED BY <1>1, <1>2, <2>2, <2>3, <2>4, <2>7, LightStep DEF Types
<1> QED BY <1>3, <1>4

LEMMA LockedStep ==
  ASSUME BaseInv, NEW c \in Callers, Locked(c)
  PROVE  BaseInv'
<1> USE DEF BaseInv
<1>1. /\ c \in Inline /\ ~Begun(c) /\ tries[c] < Attempts /\ where[c] # Home /\ Look(c)
      /\ pc[c] = "lock"
  BY DEF Locked, CallerInv, Over
<1>2. UNCHANGED <<where, broken, tries, client, faults, phase>> /\ lock \in Seq(Inline)
  BY DEF Locked, Types, client
<1>3. lock # <<>> /\ Head(lock) = c
  BY <1>1, EmptySeq, LenProperties DEF Locked, LockInv
<1>4. PICK l \in {"use", "start", "auth"} : Moves(c, l)
  BY <1>1, <1>2, LookDoes
<1>5. CASE l = "use"
  <2>1. lock' = Unlocked(c)
    BY <1>4, <1>5 DEF Locked, Moves
  <2>2. LockInv'
    BY <1>3, <1>4, <1>5, <2>1, LockPassed DEF Making
  <2> QED BY <1>1, <1>2, <2>1, <2>2, LookStep, UnlockedType
<1>6. CASE l # "use"
  <2>1. lock' = lock
    BY <1>4, <1>6 DEF Locked, Moves
  <2>2. LockInv'
    BY <1>3, <1>4, <1>6, <2>1, LockHeld
  <2> QED BY <1>1, <1>2, <2>1, <2>2, LookStep
<1> QED BY <1>5, <1>6

LEMMA KeyMadeStep ==
  ASSUME BaseInv, NEW c \in Callers, KeyMade(c)
  PROVE  BaseInv'
<1> USE DEF BaseInv
<1>1. /\ pc[c] = "auth" /\ ~Begun(c) /\ tries[c] < Attempts /\ where[c] # Home /\ Store(c)
      /\ UNCHANGED <<where, broken, signed, tries, phase, at, size, faults, lock>> /\ lock \in Seq(Inline)
  BY DEF KeyMade, KeyMadeWith, CallerInv, Over, client, Types
<1>2. Moves(c, "start")
  BY <1>1, StoreDoes
<1>3. LockInv'
  BY <1>1, <1>2, LockHeld DEF Making
<1>4. CallerAt(c, "start", status'[c] # "none", status'[c] = "starting", tries'[c])
  BY <1>1 DEF CallerAt, Over, Store, Types
<1>5. CallerInv'
  BY <1>1, <1>2, <1>4, CallerKept DEF Store, Types
<1>6. MediaInv' /\ KeysInv'
  BY <1>1, StoreDoes, StoreMedia
<1>7. Types'
  BY <1>1, StoreDoes DEF Types
<1> QED BY <1>3, <1>5, <1>6, <1>7
\* A suspended call of a caller raises.
LEMMA FailsStep ==
  ASSUME BaseInv, NEW c \in Callers, Fails(c),
         pc[c] \in {"auth", "start", "export", "import", "stop"},
         UNCHANGED <<where, broken, dict, signed, session, tries, client>>, faults' \in 0 .. MaxFaults,
         \/ UNCHANGED status /\ pc[c] \notin {"start", "stop"}
         \/ status' = [status EXCEPT ![c] = "down"] /\ pc[c] # "auth"
  PROVE  BaseInv'
<1> USE DEF BaseInv
<1>1. "failed" \in Places /\ Moves(c, "failed") /\ pc' \in [Callers -> Places]
  BY GotoMoves DEF Fails, Places, Over
<1>2. UNCHANGED <<where, broken, media, keys, replaced, signed, session, tries, phase, at, size>>
  BY DEF dict, client
<1>3. status' \in [Callers -> {"none", "starting", "up", "down"}] /\ SameSessions(c)
      /\ status'[c] # "starting"
  BY DEF Types, SameSessions, CallerInv, Begun
<1>4. lock' = Unlocked(c) /\ lock' \in Seq(Inline)
  BY UnlockedType DEF Fails
<1>5. LockInv'
  BY <1>1, <1>4, LockPassed DEF Making
<1>6. c \in Inline => where[c] # Home
  BY DEF CallerInv
<1>7. CallerAt(c, "failed", status'[c] # "none", status'[c] = "starting", tries'[c])
  BY <1>3, <1>6 DEF CallerAt, Over
<1> QED BY <1>1, <1>2, <1>3, <1>4, <1>5, <1>7, LightStep DEF Types

LEMMA FaultType ==
  ASSUME Types, Fault \/ UNCHANGED faults
  PROVE  faults' \in 0 .. MaxFaults
  BY AttemptsAssumption DEF Types, Fault

LEMMA FailingSteps ==
  ASSUME BaseInv, NEW c \in Callers,
         KeyFails(c) \/ StartFails(c) \/ ExportFails(c) \/ ImportFails(c) \/ Stopped(c)
  PROVE  BaseInv'
<1>1. Types
  BY DEF BaseInv
<1>2. CASE KeyFails(c)
  BY <1>1, <1>2, FaultType, FailsStep DEF KeyFails
<1>3. CASE StartFails(c)
  BY <1>1, <1>3, FaultType, FailsStep DEF StartFails
<1>4. CASE ExportFails(c)
  BY <1>1, <1>4, FaultType, FailsStep DEF ExportFails
<1>5. CASE ImportFails(c)
  BY <1>1, <1>5, FaultType, FailsStep DEF ImportFails
<1>6. CASE Stopped(c)
  <2>1. Fails(c)
    BY <1>6 DEF Stopped, StopThen, Fails
  <2>2. UNCHANGED <<where, broken, dict, signed, session, tries, client>> /\ faults' = faults
    BY <1>6 DEF Stopped, StopThen
  <2> QED BY <1>1, <1>6, <2>1, <2>2, FaultType, FailsStep DEF Stopped, StopThen
<1> QED BY <1>2, <1>3, <1>4, <1>5, <1>6

LEMMA StartedStep ==
  ASSUME BaseInv, NEW c \in Callers, Started(c)
  PROVE  BaseInv'
<1> USE DEF BaseInv
<1>1. /\ pc[c] = "start" /\ Begun(c) /\ tries[c] < Attempts
      /\ c \in Inline => where[c] # Home
      /\ status' = [status EXCEPT ![c] = "up"]
      /\ UNCHANGED <<where, broken, media, keys, replaced, signed, session, tries, phase, at, size, faults, lock>>
  BY DEF Started, CallerInv, Over, dict, client
<1>2. DEFINE l == IF where[c] = Home THEN "use" ELSE "export"
<1>3. l \in Places /\ l \in {"use", "export"} /\ (l = "export" => where[c] # Home) /\ Goto(c, l)
  BY DEF Places, Over, Started
<1> HIDE DEF l
<1>4. Moves(c, l) /\ pc' \in [Callers -> Places]
  BY <1>3, GotoMoves
<1>5. status' \in [Callers -> {"none", "starting", "up", "down"}] /\ SameSessions(c)
      /\ status'[c] = "up"
  BY <1>1 DEF Types, SameSessions, Begun
<1>6. LockInv'
  BY <1>1, <1>3, <1>4, LockHeld DEF Making
<1>7. CallerAt(c, l, status'[c] # "none", status'[c] = "starting", tries'[c])
  BY <1>1, <1>3, <1>5 DEF CallerAt, Over
<1> QED BY <1>1, <1>3, <1>4, <1>5, <1>6, <1>7, LightStep DEF Types

LEMMA ExportedStep ==
  ASSUME BaseInv, NEW c \in Callers, Exported(c)
  PROVE  BaseInv'
<1> USE DEF BaseInv
<1>1. /\ pc[c] = "export" /\ Begun(c) /\ tries[c] < Attempts /\ status[c] # "starting"
      /\ c \in Inline => where[c] # Home
      /\ UNCHANGED <<where, broken, media, keys, replaced, status, signed, session, tries, phase, at, size, faults, lock>>
  BY DEF Exported, CallerInv, Over, dict, client
<1>2. "import" \in Places /\ Moves(c, "import") /\ pc' \in [Callers -> Places]
  BY GotoMoves DEF Places, Over, Exported
<1>3. SameSessions(c)
  BY <1>1 DEF SameSessions
<1>4. LockInv'
  BY <1>1, <1>2, LockHeld DEF Making
<1>5. CallerAt(c, "import", status'[c] # "none", status'[c] = "starting", tries'[c])
  BY <1>1 DEF CallerAt, Over, Begun
<1> QED BY <1>1, <1>2, <1>3, <1>4, <1>5, LightStep DEF Types

LEMMA ImportedStep ==
  ASSUME BaseInv, NEW c \in Callers, Imported(c)
  PROVE  BaseInv'
<1> USE DEF BaseInv
<1>1. /\ pc[c] = "import" /\ status[c] = "up" /\ c \notin broken
      /\ c \in Inline => where[c] # Home
      /\ signed' = signed \union {c} /\ lock' = Unlocked(c)
      /\ UNCHANGED <<where, broken, media, keys, replaced, status, session, tries, phase, at, size, faults>>
  BY DEF Imported, Answers, CallerInv, Over, dict, client
<1>2. "use" \in Places /\ Moves(c, "use") /\ pc' \in [Callers -> Places]
  BY GotoMoves DEF Places, Over, Imported
<1>3. SameSessions(c) /\ signed' \subseteq Callers
  BY <1>1 DEF SameSessions, Types
<1>4. LockInv' /\ lock' \in Seq(Inline)
  BY <1>1, <1>2, LockPassed, UnlockedType DEF Making
<1>5. CallerAt(c, "use", status'[c] # "none", status'[c] = "starting", tries'[c])
  BY <1>1 DEF CallerAt, Over
<1> QED BY <1>1, <1>2, <1>3, <1>4, <1>5, LightStep DEF Types

LEMMA RecvRaisesStep ==
  ASSUME BaseInv, NEW c \in Callers, RecvRaises(c)
  PROVE  BaseInv'
<1>1. /\ UNCHANGED <<where, media, keys, replaced, status, signed, lock, pc, session, tries, phase, at, size>>
      /\ broken' = broken \union {c} /\ Fault
  BY DEF RecvRaises, dict, client
<1>2. Types'
  BY <1>1, FaultType DEF BaseInv, Types
<1>3. KeysInv' /\ LockInv' /\ CallerInv' /\ MediaInv'
  BY <1>1 DEF BaseInv, KeysInv, LockInv, CallerInv, MediaInv, Begun
<1> QED BY <1>2, <1>3 DEF BaseInv

LEMMA InvalidStep ==
  ASSUME BaseInv, NEW c \in Callers, Invalid(c)
  PROVE  BaseInv'
<1> USE DEF BaseInv
<1>1. /\ pc[c] = "import" /\ status[c] = "up" /\ tries[c] < Attempts /\ tries[c] \in 0 .. Attempts
      /\ c \in Inline => where[c] # Home
      /\ tries' = [tries EXCEPT ![c] = @ + 1]
      /\ UNCHANGED <<where, broken, media, keys, replaced, status, signed, session, phase, at, size, lock>>
  BY DEF Invalid, Answers, CallerInv, Over, dict, client, Types
<1>2. /\ tries' \in [Callers -> 0 .. Attempts] /\ \A x \in Callers \ {c} : tries'[x] = tries[x]
      /\ tries'[c] = tries[c] + 1
  BY <1>1, AttemptsAssumption DEF Types
<1>3. PICK l : /\ l \in {"export", "stop", "failed"} /\ Goto(c, l)
               /\ l = "export" => tries'[c] < Attempts
               /\ l = "stop" => c \in Inline
  BY DEF Invalid
<1>4. l \in Places /\ Moves(c, l) /\ pc' \in [Callers -> Places]
  BY <1>3, GotoMoves DEF Places, Over
<1>5. SameSessions(c) /\ faults' \in 0 .. MaxFaults
  BY <1>1, FaultType DEF SameSessions, Invalid
<1>6. LockInv'
  BY <1>1, <1>3, <1>4, LockHeld DEF Making
<1>7. where[c] = Home => l # "auth" /\ c \notin Inline
  BY <1>1, <1>3
<1>8. CallerAt(c, l, status'[c] # "none", status'[c] = "starting", tries'[c])
  BY <1>1, <1>3, <1>7 DEF CallerAt, Over
<1> QED BY <1>1, <1>2, <1>4, <1>5, <1>6, <1>8, LightStep DEF Types

LEMMA UseSteps ==
  ASSUME BaseInv, NEW c \in Callers, Use(c) \/ UseFails(c)
  PROVE  BaseInv'
<1> USE DEF BaseInv
<1>1. /\ pc[c] = "use" /\ status[c] # "starting"
      /\ c \in Inline => where[c] # Home
      /\ UNCHANGED <<where, broken, media, keys, replaced, status, signed, session, tries, phase, at, size, faults, lock>>
  BY DEF Use, UseFails, CallerInv, dict, client
<1>2. PICK l \in Over : Goto(c, l)
  BY DEF Use, UseFails, Over
<1>3. l \in Places /\ Moves(c, l) /\ pc' \in [Callers -> Places]
  BY <1>2, GotoMoves DEF Places
<1>4. SameSessions(c)
  BY <1>1 DEF SameSessions
<1>5. LockInv'
  BY <1>1, <1>2, <1>3, LockHeld DEF Making, Over
<1>6. CallerAt(c, l, status'[c] # "none", status'[c] = "starting", tries'[c])
  BY <1>1, <1>2 DEF CallerAt, Over
<1> QED BY <1>1, <1>3, <1>4, <1>5, <1>6, LightStep DEF Types

\* terminate moves no caller.
LEMMA ClientStep ==
  ASSUME BaseInv, UNCHANGED <<where, broken, signed, lock, pc, session, tries, replaced, faults>>,
         media' \in [DCs -> Callers \union {NoSession}], keys' \in Seq(DCs),
         status' \in [Callers -> {"none", "starting", "up", "down"}],
         \A x \in Callers : /\ status'[x] = "none" <=> status[x] = "none"
                            /\ status'[x] = "starting" <=> status[x] = "starting",
         phase' \in {"on", "draining", "closing", "off", "raised"},
         at' \in 0 .. size', size' \in 0 .. Cardinality(DCs),
         KeysInv', MediaInv'
  PROVE  BaseInv'
<1> USE DEF BaseInv
<1>1. Types'
  BY DEF Types
<1>2. LockInv'
  BY DEF LockInv
<1>3. CallerInv'
  BY DEF CallerInv, Begun
<1> QED BY <1>1, <1>2, <1>3

LEMMA TerminateSteps ==
  ASSUME BaseInv, Terminate \/ Drained \/ Close
  PROVE  BaseInv'
<1> USE DEF BaseInv
<1>1. CASE Terminate
  <2>1. /\ phase' = "draining" /\ phase = "on"
        /\ UNCHANGED <<where, broken, media, keys, replaced, status, signed, lock, pc, session, tries, at, size, faults>>
    BY <1>1 DEF Terminate, dict
  <2>2. MediaInv' /\ KeysInv'
    BY <2>1 DEF KeysInv, MediaInv, Begun
  <2> QED BY <2>1, <2>2, ClientStep DEF Types
<1>2. CASE Drained
  <2>1. /\ phase' = "closing" /\ phase = "draining" /\ at' = 0 /\ size' = Len(keys)
        /\ UNCHANGED <<where, broken, media, keys, replaced, status, signed, lock, pc, session, tries, faults>>
    BY <1>2 DEF Drained, BeginClosing, dict
  <2>2. MediaInv' /\ KeysInv'
    BY <2>1 DEF KeysInv, MediaInv, Begun
  <2>3. size' \in 0 .. Cardinality(DCs) /\ at' \in 0 .. size'
    BY <2>1, KeysCounted
  <2> QED BY <2>1, <2>2, <2>3, ClientStep DEF Types
<1>3. CASE Close
  <2>0. phase = "closing" /\ UNCHANGED <<where, broken, signed, lock, pc, session, tries, size, faults>>
    BY <1>3 DEF Close
  <2>1. CASE Len(keys) # size
    <3>1. phase' = "raised" /\ UNCHANGED <<media, keys, replaced, status, at>>
      BY <1>3, <2>1 DEF Close, dict
    <3>2. MediaInv' /\ KeysInv'
      BY <2>0, <3>1 DEF KeysInv, MediaInv, Begun
    <3> QED BY <2>0, <3>1, <3>2, ClientStep DEF Types
  <2>2. CASE Len(keys) = size /\ at < size
    <3>1. PICK s : /\ status' = [status EXCEPT ![s] = IF @ = "up" THEN "down" ELSE @]
                   /\ at' = at + 1 /\ UNCHANGED <<media, keys, replaced>>
                   /\ phase' \in {phase, "raised"}
      BY <1>3, <2>2 DEF Close, dict
    <3>2. /\ status' \in [Callers -> {"none", "starting", "up", "down"}]
          /\ \A x \in Callers : /\ status'[x] = "none" <=> status[x] = "none"
                                /\ status'[x] = "starting" <=> status[x] = "starting"
      BY <3>1 DEF Types
    <3>3. MediaInv'
      BY <2>0, <3>1, <3>2, MediaKept DEF SameSessions
    <3>4. KeysInv'
      BY <3>1 DEF KeysInv
    <3>5. size \in Nat /\ at \in Nat /\ at' \in 0 .. size' /\ size' \in 0 .. Cardinality(DCs)
      <4>1. Cardinality(DCs) \in Nat
        BY DCsAssumption, FS_CardinalityType
      <4>2. size \in Nat /\ at \in Nat
        BY <4>1 DEF Types
      <4> QED BY <2>0, <2>2, <3>1, <4>1, <4>2 DEF Types
    <3> QED BY <2>0, <3>1, <3>2, <3>3, <3>4, <3>5, ClientStep DEF Types
  <2>3. CASE Len(keys) = size /\ ~(at < size)
    <3>1. /\ phase' = "off" /\ media' = [d \in DCs |-> NoSession] /\ keys' = <<>>
          /\ UNCHANGED <<status, at, replaced>>
      BY <1>3, <2>3 DEF Close
    <3>2. Len(keys') = 0 /\ keys' \in Seq(DCs)
      BY <3>1, EmptySeq
    <3>3. KeysInv'
      BY <3>1, <3>2 DEF KeysInv
    <3>4. MediaInv'
      BY <3>1 DEF MediaInv
    <3> QED BY <2>0, <3>1, <3>2, <3>3, <3>4, ClientStep DEF Types
  <2> QED BY <2>1, <2>2, <2>3
<1> QED BY <1>1, <1>2, <1>3

LEMMA BaseStep ==
  ASSUME BaseInv, [Next]_vars
  PROVE  BaseInv'
<1>1. CASE UNCHANGED vars
  BY <1>1 DEF vars, dict, client, BaseInv, Types, KeysInv, LockInv, CallerInv, MediaInv, Begun
<1>2. CASE \E c \in Callers : Transfer(c) \/ GetSession(c)
  BY <1>2, TransferStep, GetSessionStep
<1>3. CASE \E c \in Callers : Locked(c) \/ KeyMade(c) \/ Started(c)
  BY <1>3, LockedStep, KeyMadeStep, StartedStep
<1>4. CASE \E c \in Callers : Exported(c) \/ Imported(c) \/ Invalid(c) \/ Use(c) \/ UseFails(c)
  BY <1>4, ExportedStep, ImportedStep, InvalidStep, UseSteps
<1>5. CASE \E c \in Callers : \/ KeyFails(c) \/ StartFails(c) \/ ExportFails(c)
                              \/ ImportFails(c) \/ Stopped(c)
  BY <1>5, FailingSteps
<1>6. CASE Terminate \/ Drained \/ Close
  BY <1>6, TerminateSteps
<1>7. CASE \E c \in Callers : RecvRaises(c)
  BY <1>7, RecvRaisesStep
<1> QED BY <1>1, <1>2, <1>3, <1>4, <1>5, <1>6, <1>7 DEF Next, Caller

-----------------------------------------------------------------------------
(***************************************************************************)
(* What every step of a caller has in common.                              *)
(***************************************************************************)
CallerSteps(c) ==
    \/ Transfer(c) \/ GetSession(c) \/ Caller(c)
    \/ KeyFails(c) \/ StartFails(c) \/ ExportFails(c) \/ ImportFails(c) \/ Invalid(c)

Loop == phase \in {"closing", "off", "raised"}

\* The client is as it was, and so is everybody else.
Alone(c) ==
    /\ UNCHANGED <<where, broken, phase, at, size>>
    /\ \A x \in Callers \ {c} : /\ pc'[x] = pc[x] /\ status'[x] = status[x]
                                /\ session'[x] = session[x]
    /\ replaced \subseteq replaced' /\ signed \subseteq signed'
    /\ status[c] # "none" => status'[c] # "none"

\* media_sessions loses no key and gets one from who makes a session.
Grows(c) ==
    /\ Len(keys) \in Nat /\ Len(keys') \in Nat /\ Len(keys') >= Len(keys)
    /\ \A i \in 1 .. Len(keys) : keys'[i] = keys[i]
    /\ Len(keys') # Len(keys) => status'[c] # "none"

LEMMA QuietAlone ==
  ASSUME Types, NEW c \in Callers, NEW l, Goto(c, l), UNCHANGED <<where, broken, dict, session, client>>,
         signed \subseteq signed',
         \/ UNCHANGED status
         \/ \E t \in {"up", "down"} : status' = [status EXCEPT ![c] = t]
  PROVE  Alone(c) /\ Grows(c)
<1>1. Moves(c, l) /\ Len(keys) \in Nat /\ keys' = keys
  BY GotoMoves, LenProperties DEF Types, dict
<1>2. Alone(c)
  BY <1>1 DEF Alone, Moves, Types, dict, client
<1>3. Grows(c)
  BY <1>1 DEF Grows
<1> QED BY <1>2, <1>3

LEMMA StoreAlone ==
  ASSUME Types, KeysInv, NEW c \in Callers, Store(c), UNCHANGED <<where, broken, client>>,
         signed \subseteq signed'
  PROVE  Alone(c) /\ Grows(c)
<1>0. Moves(c, "start")
  BY StoreDoes
<1>1. Alone(c)
  <2>1. \A d \in Callers \ {c} : status'[d] = status[d] /\ session'[d] = session[d]
    BY DEF Store, Types
  <2> QED BY <1>0, <2>1 DEF Alone, Store, Moves, Types, client
<1>2. status'[c] # "none"
  BY DEF Store, Types
<1>3. Grows(c)
  BY <1>2, StoreDoes DEF Grows
<1> QED BY <1>1, <1>3

LEMMA LookAlone ==
  ASSUME Types, KeysInv, NEW c \in Callers, Look(c), UNCHANGED <<where, broken, client>>
  PROVE  Alone(c) /\ Grows(c)
<1>1. CASE media[where[c]] # NoSession
  <2>1. /\ session' = [session EXCEPT ![c] = media[where[c]]]
        /\ UNCHANGED <<media, keys, replaced, status, signed>> /\ Goto(c, "use")
    BY <1>1 DEF Look, dict
  <2>2. Moves(c, "use") /\ Len(keys) \in Nat
    BY <2>1, GotoMoves, LenProperties DEF Types
  <2> QED BY <2>1, <2>2 DEF Alone, Grows, Moves, Types, client
<1>2. CASE media[where[c]] = NoSession /\ where[c] = Home
  BY <1>2, StoreAlone DEF Look
<1>3. CASE media[where[c]] = NoSession /\ where[c] # Home
  BY <1>3, QuietAlone DEF Look
<1> QED BY <1>1, <1>2, <1>3

LEMMA CallerDoes ==
  ASSUME BaseInv, NEW c \in Callers, CallerSteps(c)
  PROVE  Alone(c) /\ Grows(c)
<1> USE DEF BaseInv
<1>1. CASE Transfer(c) \/ Locked(c)
  BY <1>1, LookAlone DEF Transfer, Locked
<1>2. CASE KeyMade(c)
  BY <1>2, StoreAlone DEF KeyMade, KeyMadeWith
<1>3. CASE GetSession(c)
  <2>1. PICK l : Goto(c, l)
    BY <1>3 DEF GetSession
  <2> QED BY <1>3, <2>1, QuietAlone DEF GetSession
<1>4. CASE KeyFails(c) \/ ExportFails(c) \/ ImportFails(c)
  BY <1>4, QuietAlone DEF KeyFails, ExportFails, ImportFails, Fails
<1>5. CASE StartFails(c) \/ Stopped(c)
  BY <1>5, QuietAlone DEF StartFails, Stopped, StopThen, Fails
<1>6. CASE Started(c)
  <2>1. PICK l : Goto(c, l)
    BY <1>6 DEF Started
  <2> QED BY <1>6, <2>1, QuietAlone DEF Started
<1>7. CASE Invalid(c)
  <2>1. PICK l : Goto(c, l)
    BY <1>7 DEF Invalid
  <2> QED BY <1>7, <2>1, QuietAlone DEF Invalid
<1>8. CASE Exported(c) \/ Use(c) \/ UseFails(c)
  BY <1>8, QuietAlone DEF Exported, Use, UseFails
<1>9. CASE Imported(c)
  BY <1>9, QuietAlone DEF Imported
<1> QED BY <1>1, <1>2, <1>3, <1>4, <1>5, <1>6, <1>7, <1>8, <1>9 DEF CallerSteps, Caller

-----------------------------------------------------------------------------
(***************************************************************************)
(* One session for a data centre whose sessions cannot be made twice.      *)
(***************************************************************************)
\* Nothing took the place of such a session, and who makes the key of one
\* found none.
Running == phase \in {"on", "draining"}
OneInv ==
    Running =>
      /\ \A s \in replaced : where[s] \notin LockedDCs
      /\ \A c \in Callers : pc[c] = "auth" /\ where[c] \in LockedDCs => media[where[c]] = NoSession

LEMMA OneKept ==
  ASSUME OneInv, UNCHANGED <<where, media, replaced>>, Running' => Running,
         \A x \in Callers : pc'[x] = "auth" => pc[x] = "auth"
  PROVE  OneInv'
  BY DEF OneInv, LockedDCs

LEMMA OneStored ==
  ASSUME BaseInv, OneInv, NEW c \in Callers, Store(c), UNCHANGED <<where, broken, phase>>,
         \/ pc[c] = "auth"
         \/ where[c] = Home /\ media[where[c]] = NoSession
  PROVE  OneInv'
<1> USE DEF BaseInv
<1> SUFFICES ASSUME Running
             PROVE  /\ \A s \in replaced' : where[s] \notin LockedDCs
                    /\ \A x \in Callers : pc'[x] = "auth" /\ where[x] \in LockedDCs => media'[where[x]] = NoSession
  BY DEF OneInv, LockedDCs, Running
<1>1. /\ where[c] \in DCs /\ media' = [media EXCEPT ![where[c]] = c]
      /\ replaced' = replaced \union ({media[where[c]]} \ {NoSession})
      /\ Moves(c, "start")
  BY StoreDoes DEF Store, Types
<1>2. where[c] \in LockedDCs => media[where[c]] = NoSession
  BY DEF OneInv
<1>3. media[where[c]] # NoSession => where[media[where[c]]] = where[c]
  BY <1>1 DEF MediaInv
<1>4. \A s \in replaced' : where[s] \notin LockedDCs
  BY <1>1, <1>2, <1>3 DEF OneInv
<1>5. ASSUME NEW x \in Callers, pc'[x] = "auth", where[x] \in LockedDCs
      PROVE  media'[where[x]] = NoSession
  <2>1. x # c /\ pc[x] = "auth" /\ where[x] # Home /\ where[x] \in DCs
    BY <1>1, <1>5 DEF Moves, CallerInv, Types
  <2>2. x \in Inline /\ Head(lock) = x
    BY <1>5, <2>1 DEF LockedDCs, Inline, LockInv, Making
  <2>3. where[c] # where[x]
    <3>1. SUFFICES ASSUME where[c] = where[x] PROVE FALSE
      OBVIOUS
    <3>2. pc[c] = "auth" /\ c \in Inline
      BY <1>5, <2>1, <3>1 DEF LockedDCs, Inline
    <3> QED BY <2>1, <2>2, <3>2 DEF LockInv, Making
  <2> QED BY <1>1, <1>5, <2>1, <2>3 DEF OneInv, Types
<1> QED BY <1>4, <1>5

LEMMA OneLooked ==
  ASSUME BaseInv, OneInv, NEW c \in Callers, Look(c), UNCHANGED <<where, broken, phase>>
  PROVE  OneInv'
<1> USE DEF BaseInv
<1>1. CASE media[where[c]] # NoSession
  <2>1. UNCHANGED <<media, replaced>> /\ Goto(c, "use")
    BY <1>1 DEF Look, dict
  <2>2. Moves(c, "use")
    BY <2>1, GotoMoves
  <2> QED BY <2>1, <2>2, OneKept DEF Moves, Running
<1>2. CASE media[where[c]] = NoSession /\ where[c] = Home
  BY <1>2, OneStored DEF Look
<1>3. CASE media[where[c]] = NoSession /\ where[c] # Home
  <2>1. UNCHANGED <<media, replaced>> /\ Goto(c, "auth")
    BY <1>3 DEF Look, dict
  <2>2. Moves(c, "auth")
    BY <2>1, GotoMoves
  <2> QED BY <1>3, <2>1, <2>2 DEF Moves, Running, OneInv, LockedDCs
<1> QED BY <1>1, <1>2, <1>3

LEMMA OneStep ==
  ASSUME BaseInv, OneInv, [Next]_vars
  PROVE  OneInv'
<1> USE DEF BaseInv
<1>1. CASE UNCHANGED vars
  BY <1>1, OneKept DEF vars, dict, client, Running
<1>2. ASSUME NEW c \in Callers, Transfer(c) \/ Locked(c) PROVE OneInv'
  BY <1>2, OneLooked DEF Transfer, Locked, client
<1>3. ASSUME NEW c \in Callers, KeyMade(c) PROVE OneInv'
  BY <1>3, OneStored DEF KeyMade, KeyMadeWith, client
<1>4. ASSUME NEW c \in Callers,
             \/ GetSession(c) \/ Started(c) \/ Exported(c) \/ Imported(c) \/ Invalid(c)
             \/ KeyFails(c) \/ StartFails(c) \/ ExportFails(c) \/ ImportFails(c)
             \/ Stopped(c) \/ Use(c) \/ UseFails(c)
      PROVE  OneInv'
  <2>1. UNCHANGED <<where, broken, media, replaced, phase>>
    BY <1>4 DEF GetSession, Started, Exported, Imported, Invalid, KeyFails, StartFails,
                ExportFails, ImportFails, Stopped, StopThen, Use, UseFails, dict, client
  <2>2. PICK l : l # "auth" /\ Goto(c, l)
    BY <1>4 DEF GetSession, Started, Exported, Imported, Invalid, KeyFails, StartFails,
                ExportFails, ImportFails, Stopped, StopThen, Use, UseFails, Fails
  <2>3. Moves(c, l)
    BY <2>2, GotoMoves
  <2> QED BY <2>1, <2>2, <2>3, OneKept DEF Moves, Running
<1>5. CASE Terminate \/ Drained
  BY <1>5, OneKept DEF Terminate, Drained, BeginClosing, dict, Running
<1>6. CASE Close
  BY <1>6 DEF Close, OneInv, Running
<1>7. CASE \E c \in Callers : RecvRaises(c)
  BY <1>7, OneKept DEF RecvRaises, dict, client, Running
<1> QED BY <1>1, <1>2, <1>3, <1>4, <1>5, <1>6, <1>7 DEF Next, Caller

-----------------------------------------------------------------------------
(***************************************************************************)
(* What get_session hands out is ready.                                    *)
(***************************************************************************)
Shared(c) == c \in Inline /\ where[c] \in LockedDCs

\* As long as nothing fails, who got through get_session has a session that
\* its maker has got ready.
Good(c) ==
    /\ pc[c] \notin {"failed", "stop"}
    /\ pc[c] \in {"start", "export", "import"} => session[c] = c
    /\ pc[c] \in {"export", "import"} => status[c] = "up"
    /\ pc[c] \in {"use", "done"} /\ Begun(c) => Usable(c)
    /\ pc[c] = "use" => /\ session[c] \in Callers /\ Shared(session[c]) /\ Begun(session[c])
                        /\ pc[session[c]] \in {"use", "done"}
GoodInv ==
    /\ faults = 0 => broken = {}
    /\ faults = 0 /\ Running => \A c \in Callers : Shared(c) => Good(c)

\* A step of one caller, as far as the others can tell.
LEMMA GoodKept ==
  ASSUME NEW c \in Callers, Alone(c), \A x \in Callers : Shared(x) => Good(x),
         Shared(c) /\ pc[c] \in {"use", "done"} => pc'[c] \in {"use", "done"},
         Shared(c) => Good(c)'
  PROVE  \A x \in Callers : Shared(x)' => Good(x)'
<1> SUFFICES ASSUME NEW x \in Callers, Shared(x)'
             PROVE  Good(x)'
  OBVIOUS
<1>1. \A y : Shared(y)' <=> Shared(y)
  BY DEF Alone, Shared, LockedDCs
<1>2. CASE x = c
  BY <1>1, <1>2
<1>3. CASE x # c
  <2>1. /\ Good(x) /\ pc'[x] = pc[x] /\ status'[x] = status[x] /\ session'[x] = session[x]
        /\ signed \subseteq signed' /\ broken' = broken
    BY <1>1, <1>3 DEF Alone
  <2>2. /\ pc'[x] \notin {"failed", "stop"}
        /\ pc'[x] \in {"start", "export", "import"} => session'[x] = x
        /\ pc'[x] \in {"export", "import"} => status'[x] = "up"
        /\ pc'[x] \in {"use", "done"} /\ status'[x] # "none" => status'[x] = "up" /\ x \in signed'
                                                          /\ x \notin broken'
    BY <2>1 DEF Good, Begun, Usable, Answers
  <2>3. ASSUME pc'[x] = "use", NEW s, s = session[x]
        PROVE  /\ s \in Callers /\ Shared(s)' /\ status'[s] # "none"
               /\ pc'[s] \in {"use", "done"}
    <3>1. s \in Callers /\ Shared(s) /\ status[s] # "none" /\ pc[s] \in {"use", "done"}
      BY <2>1, <2>3 DEF Good, Begun
    <3>2. CASE s = c
      BY <1>1, <3>1, <3>2 DEF Alone
    <3>3. CASE s # c
      BY <1>1, <3>1, <3>3 DEF Alone
    <3> QED BY <3>2, <3>3
  <2>4. pc'[x] = "use" => /\ session'[x] \in Callers /\ Shared(session[x])' /\ status'[session'[x]] # "none"
                          /\ pc'[session'[x]] \in {"use", "done"}
    BY <2>1, <2>3
  <2> QED BY <2>2, <2>4 DEF Good, Begun, Usable, Answers
<1> QED BY <1>2, <1>3
\* With the lock, a caller finds a session that is ready.
LEMMA FoundReady ==
  ASSUME BaseInv, \A x \in Callers : Shared(x) => Good(x), Running,
         NEW c \in Inline, pc[c] = "lock", lock # <<>>, Head(lock) = c,
         where[c] \in LockedDCs, where[c] # Home, NEW s, s = media[where[c]], s # NoSession
  PROVE  s \in Callers /\ s # c /\ Shared(s) /\ Begun(s) /\ pc[s] \in {"use", "done"}
<1> USE DEF BaseInv
<1>1. c \in Callers /\ where[c] \in DCs
  BY SmallFacts DEF Types
<1>2. s \in Callers /\ where[s] = where[c] /\ Begun(s)
  BY <1>1 DEF MediaInv, Types
<1>3. Shared(s)
  BY <1>2 DEF Shared, LockedDCs, Inline
<1>4. ~Begun(c)
  BY <1>1 DEF CallerInv
<1>5. pc[s] \notin Making /\ pc[s] \notin {"idle", "lock"}
  BY <1>2, <1>3, <1>4 DEF LockInv, CallerInv, Shared, Making
<1>6. pc[s] \in Places /\ pc[s] # "failed"
  BY <1>2, <1>3 DEF Types, Good
<1> QED BY <1>2, <1>3, <1>4, <1>5, <1>6 DEF Places, Over, Making

\* Without a fault no receive task raises.
LEMMA Unbroken ==
  ASSUME BaseInv, faults = 0 => broken = {}, [Next]_vars, faults' = 0
  PROVE  broken' = {} /\ broken' = broken /\ faults = 0
<1>1. faults \in Nat
  BY AttemptsAssumption DEF BaseInv, Types
<1>2. ~Fault
  BY <1>1 DEF Fault
<1>3. SUFFICES broken' = broken /\ faults' = faults
  OBVIOUS
<1>4. CASE UNCHANGED vars \/ Terminate \/ Drained \/ Close
  BY <1>4 DEF vars, Terminate, Drained, BeginClosing, Close
<1>5. CASE \E c \in Callers : RecvRaises(c)
  BY <1>2, <1>5 DEF RecvRaises
<1>6. ASSUME NEW c \in Callers, CallerSteps(c)
      PROVE  broken' = broken /\ faults' = faults
  BY <1>2, <1>6 DEF CallerSteps, Caller, Transfer, GetSession, Locked, KeyMade, KeyMadeWith,
     Started, Exported, Imported, ImportFails, Stopped, StopThen, Use, UseFails, KeyFails,
     StartFails, ExportFails, Invalid
<1> QED BY <1>4, <1>5, <1>6 DEF Next, CallerSteps

LEMMA GoodStep ==
  ASSUME BaseInv, GoodInv, [Next]_vars
  PROVE  GoodInv'
<1> USE DEF BaseInv
<1> SUFFICES ASSUME faults' = 0, Running'
             PROVE  \A x \in Callers : Shared(x)' => Good(x)'
  BY Unbroken DEF GoodInv
<1>0. broken = {} /\ broken' = {} /\ faults = 0
  BY Unbroken DEF GoodInv
<1>1. CASE UNCHANGED vars
  <2>1. UNCHANGED <<where, broken, status, signed, pc, session, phase, faults>>
    BY <1>1 DEF vars, client
  <2>2. \A x \in Callers : Shared(x) => Good(x)
    BY <2>1 DEF GoodInv, Running
  <2> QED BY <2>1, <2>2 DEF Good, Shared, LockedDCs, Begun, Usable, Answers
<1>2. CASE Terminate
  <2>1. UNCHANGED <<where, broken, status, signed, pc, session, faults>> /\ Running
    BY <1>2 DEF Terminate, Running
  <2>2. \A x \in Callers : Shared(x) => Good(x)
    BY <2>1 DEF GoodInv
  <2> QED BY <2>1, <2>2 DEF Good, Shared, LockedDCs, Begun, Usable, Answers
<1>3. CASE Drained \/ Close
  <2>1. phase' \in {"closing", "off", "raised"}
    BY <1>3 DEF Drained, BeginClosing, Close
  <2> QED BY <2>1 DEF Running
<1>5. CASE \E c \in Callers : RecvRaises(c)
  BY <1>0, <1>5 DEF RecvRaises, Fault
<1>4. ASSUME NEW c \in Callers, CallerSteps(c)
      PROVE  \A x \in Callers : Shared(x)' => Good(x)'
  <2>1. Alone(c)
    BY <1>4, CallerDoes
  <2>2. Running /\ phase # "off" /\ UNCHANGED <<where, broken, phase>>
    BY <2>1 DEF Alone, Running
  <2>3. ~Fault
    BY AttemptsAssumption DEF Types, Fault
  <2>4. faults = 0 /\ ~KeyFails(c) /\ ~StartFails(c) /\ ~ExportFails(c) /\ ~Invalid(c)
    BY <1>0, <2>2, <2>3 DEF KeyFails, StartFails, ExportFails, Invalid
  <2>5. \A x \in Callers : Shared(x) => Good(x)
    BY <2>2, <2>4 DEF GoodInv
  <2>6. pc' \in [Callers -> Places] /\ status' \in [Callers -> {"none", "starting", "up", "down"}]
    BY <1>4, BaseStep DEF Next, CallerSteps, Types
  <2>7. SUFFICES ASSUME Shared(c)
                 PROVE  /\ pc[c] \in {"use", "done"} => pc'[c] \in {"use", "done"}
                        /\ Good(c)'
    BY <2>1, <2>5, GoodKept
  <2>8. Good(c) /\ c \in Inline /\ where[c] \in LockedDCs
    BY <2>5, <2>7 DEF Shared
  <2>9. CASE GetSession(c)
    <3>1. PICK l \in {"done", "lock"} : Goto(c, l)
      BY <2>9 DEF GetSession
    <3>2. Moves(c, l) /\ ~Begun(c) /\ status' = status /\ pc[c] = "idle"
      BY <2>9, <3>1, GotoMoves DEF GetSession, CallerInv
    <3> QED BY <3>1, <3>2 DEF Good, Moves, Begun
  <2>10. CASE Locked(c)
    <3>1. /\ pc[c] = "lock" /\ ~Begun(c) /\ tries[c] < Attempts /\ where[c] # Home /\ Look(c)
          /\ UNCHANGED <<where, broken, tries, phase>> /\ Head(lock) = c
      BY <2>10 DEF Locked, CallerInv, Over, client
    <3>2. lock # <<>>
      BY <2>8, <3>1, EmptySeq, LenProperties DEF LockInv
    <3>3. CASE Moves(c, "auth")
      BY <3>1, <3>3 DEF Good, Moves
    <3>4. CASE /\ Moves(c, "use") /\ media[where[c]] # NoSession
               /\ session' = [session EXCEPT ![c] = media[where[c]]]
               /\ UNCHANGED <<media, keys, replaced, status, signed>>
      <4>1. PICK s : s = media[where[c]]
        OBVIOUS
      <4>2. s \in Callers /\ s # c /\ Shared(s) /\ Begun(s) /\ pc[s] \in {"use", "done"}
        BY <2>2, <2>5, <2>8, <3>1, <3>2, <3>4, <4>1, FoundReady
      <4>3. session'[c] = s /\ pc'[c] = "use" /\ pc'[s] = pc[s] /\ status' = status
        BY <3>4, <4>1, <4>2 DEF Moves, Types
      <4>4. Shared(s)' /\ status'[s] # "none"
        BY <2>2, <4>2, <4>3 DEF Shared, LockedDCs, Begun
      <4> QED BY <3>1, <4>2, <4>3, <4>4 DEF Good, Begun
    <3> QED BY <3>1, <3>3, <3>4, LookDoes
  <2>11. CASE KeyMade(c)
    <3>1. Moves(c, "start") /\ session'[c] = c /\ pc[c] = "auth"
      BY <2>11, StoreDoes DEF KeyMade, KeyMadeWith, Store, Types
    <3> QED BY <3>1 DEF Good, Moves
  <2>12. CASE Started(c)
    <3>1. pc[c] = "start" /\ where[c] # Home /\ status'[c] = "up" /\ session' = session
      BY <2>8, <2>12 DEF Started, CallerInv, Types
    <3>2. Moves(c, "export")
      BY <2>12, <3>1, GotoMoves DEF Started
    <3> QED BY <2>8, <3>1, <3>2 DEF Good, Moves
  <2>13. CASE Exported(c)
    <3>1. Moves(c, "import") /\ pc[c] = "export" /\ UNCHANGED <<status, session>>
      BY <2>13, GotoMoves DEF Exported
    <3> QED BY <2>8, <3>1 DEF Good, Moves
  <2>14. CASE Imported(c)
    <3>1. /\ Moves(c, "use") /\ pc[c] = "import" /\ status[c] = "up" /\ c \in signed' /\ c \notin broken'
          /\ UNCHANGED <<status, session>> /\ session[c] = c
      BY <1>0, <2>8, <2>14, GotoMoves DEF Imported, Answers, Good
    <3>2. Shared(c)'
      BY <2>2, <2>7 DEF Shared, LockedDCs
    <3> QED BY <3>1, <3>2 DEF Good, Moves, Begun, Usable, Answers
  <2>15. CASE ImportFails(c)
    BY <1>0, <2>3, <2>8, <2>15 DEF ImportFails, Answers, Good
  <2>16. CASE Stopped(c)
    BY <2>8, <2>16 DEF Stopped, StopThen, Good
  <2>17. CASE Use(c)
    <3>1. Moves(c, "done") /\ pc[c] = "use" /\ UNCHANGED <<status, signed>>
      BY <2>17, GotoMoves DEF Use
    <3> QED BY <1>0, <2>8, <3>1 DEF Good, Moves, Begun, Usable, Answers
  <2>18. CASE UseFails(c)
    <3>1. PICK s : s = session[c]
      OBVIOUS
    <3>2. s \in Callers /\ Shared(s) /\ Begun(s) /\ pc[s] \in {"use", "done"} /\ ~Usable(s)
      BY <2>8, <2>18, <3>1 DEF UseFails, Good
    <3> QED BY <2>5, <3>2 DEF Good
  <2>19. CASE Transfer(c)
    BY <2>8, <2>19 DEF Transfer, Inline
  <2> QED BY <1>4, <2>4, <2>9, <2>10, <2>11, <2>12, <2>13, <2>14, <2>15, <2>16, <2>17, <2>18, <2>19
          DEF CallerSteps, Caller
<1> QED BY <1>1, <1>2, <1>3, <1>4, <1>5 DEF Next, CallerSteps

-----------------------------------------------------------------------------
(***************************************************************************)
(* What terminate leaves behind.                                           *)
(***************************************************************************)
\* The handlers are over before the first session is stopped.  Of their
\* sessions those that run are still to come, unless another one took their
\* place.  Only who is no handler gets in between, only a broken session
\* ends the loop before its time.
Stranger == \E s \in Callers : Outside(s) /\ Begun(s)
ToCome(s) == \E i \in 1 .. Len(keys) : i > at /\ keys[i] = where[s]
CloseInv ==
    /\ Loop => \A c \in Handled : pc[c] \in Over \union {"idle"}
    /\ phase \in {"closing", "raised"} =>
         \A s \in Handled : status[s] = "up" /\ s \notin replaced => ToCome(s)
    /\ phase = "closing" /\ Len(keys) # size => Stranger
    /\ phase = "off" => \A s \in Handled : status[s] = "up" => s \in replaced
    /\ phase = "raised" => Stranger \/ broken # {}

LEMMA HandledEnded ==
  ASSUME CloseInv, NEW c \in Callers, CallerSteps(c), Loop
  PROVE  c \notin Handled
<1> SUFFICES ASSUME c \in Handled PROVE FALSE
  OBVIOUS
<1>1. pc[c] \in {"done", "failed", "idle"} /\ ~MayBegin(c)
  BY DEF CloseInv, Over, MayBegin, Loop
<1> QED BY <1>1 DEF CallerSteps, Caller, Transfer, GetSession, Locked, KeyMade, KeyMadeWith,
       Started, Exported, Imported, ImportFails, Stopped, StopThen, Use, UseFails, KeyFails,
       StartFails, ExportFails, Invalid

LEMMA CloseCaller ==
  ASSUME BaseInv, CloseInv, NEW c \in Callers, CallerSteps(c)
  PROVE  CloseInv'
<1> USE DEF BaseInv
<1>1. Alone(c) /\ Grows(c)
  BY CallerDoes
<1>2. CASE ~Loop
  BY <1>1, <1>2 DEF CloseInv, Loop, Alone
<1>3. CASE Loop
  <2>1. c \in Callers \ Handled /\ UNCHANGED <<where, broken, phase, at, size>>
    BY <1>1, <1>3, HandledEnded DEF Alone
  <2>2. \A x \in Handled : pc'[x] = pc[x] /\ status'[x] = status[x]
    BY <1>1, <2>1, CallersAssumption DEF Alone
  <2>3. replaced \subseteq replaced' /\ (Stranger => Stranger')
    <3>1. \A s \in Callers : status[s] # "none" => status'[s] # "none"
      BY <1>1 DEF Alone
    <3> QED BY <1>1, <3>1 DEF Alone, Stranger, Outside, Begun
  <2>4. \A s \in Handled : ToCome(s) => ToCome(s)'
    <3>1. /\ Len(keys) \in Nat /\ Len(keys') \in Nat /\ Len(keys') >= Len(keys)
          /\ \A i \in 1 .. Len(keys) : keys'[i] = keys[i]
      BY <1>1 DEF Grows
    <3>2. \A i \in 1 .. Len(keys) : i \in 1 .. Len(keys')
      BY <3>1
    <3> QED BY <2>1, <3>1, <3>2 DEF ToCome
  <2>5. Len(keys') # Len(keys) => Stranger'
    BY <1>1, <2>1 DEF Grows, Stranger, Outside, Begun
  <2>6. Loop' => \A x \in Handled : pc'[x] \in Over \union {"idle"}
    BY <1>3, <2>2 DEF CloseInv
  <2>7. phase \in {"closing", "raised"} =>
          \A s \in Handled : status'[s] = "up" /\ s \notin replaced' => ToCome(s)'
    <3> SUFFICES ASSUME phase \in {"closing", "raised"}
                 PROVE  \A s \in Handled : status'[s] = "up" /\ s \notin replaced' => ToCome(s)'
      OBVIOUS
    <3>1. \A s \in Handled : status[s] = "up" /\ s \notin replaced => ToCome(s)
      BY DEF CloseInv
    <3> QED BY <2>2, <2>3, <2>4, <3>1
  <2>10. phase = "closing" /\ Len(keys') # size => Stranger'
    BY <2>3, <2>5 DEF CloseInv
  <2>8. phase = "off" => \A s \in Handled : status'[s] = "up" => s \in replaced'
    BY <2>2, <2>3 DEF CloseInv
  <2>9. phase = "raised" => Stranger' \/ broken' # {}
    BY <2>1, <2>3 DEF CloseInv
  <2> QED BY <2>1, <2>6, <2>7, <2>8, <2>9, <2>10 DEF CloseInv
<1> QED BY <1>2, <1>3

LEMMA CloseDrained ==
  ASSUME BaseInv, Drained
  PROVE  CloseInv'
<1> USE DEF BaseInv
<1>1. /\ phase' = "closing" /\ phase = "draining" /\ at' = 0 /\ size' = Len(keys)
      /\ UNCHANGED <<where, broken, media, keys, replaced, status, pc>>
      /\ Handled \intersect Busy = {}
  BY DEF Drained, BeginClosing, dict
<1>2. \A c \in Handled : pc'[c] \in Over \union {"idle"}
  BY <1>1, CallersAssumption DEF Busy
<1>3. ASSUME NEW s \in Handled, status'[s] = "up", s \notin replaced'
      PROVE  ToCome(s)'
  <2>1. s \in Callers /\ Begun(s) /\ s \notin replaced /\ where[s] \in DCs
    BY <1>1, <1>3, CallersAssumption DEF Begun, Types
  <2>2. media[where[s]] # NoSession
    BY <1>1, <2>1, SmallFacts DEF MediaInv
  <2>3. PICK i \in 1 .. Len(keys) : keys[i] = where[s]
    BY <2>1, <2>2 DEF KeysInv
  <2>4. i > 0
    BY <2>3
  <2> QED BY <1>1, <2>3, <2>4 DEF ToCome
<1> QED BY <1>1, <1>2, <1>3 DEF CloseInv, Loop

LEMMA CloseClose ==
  ASSUME BaseInv, CloseInv, Close
  PROVE  CloseInv'
<1> USE DEF BaseInv
<1>1. /\ phase = "closing" /\ UNCHANGED <<where, broken, pc, size>>
      /\ \A c \in Handled : pc[c] \in Over \union {"idle"}
      /\ \A s \in Handled : status[s] = "up" /\ s \notin replaced => ToCome(s)
      /\ Len(keys) # size => Stranger
  BY DEF Close, CloseInv, Loop
<1>2. CASE Len(keys) # size
  <2>1. phase' = "raised" /\ UNCHANGED <<keys, replaced, status, at>>
    BY <1>2 DEF Close, dict
  <2>2. \A s \in Handled : ToCome(s)' <=> ToCome(s)
    BY <1>1, <2>1 DEF ToCome
  <2> QED BY <1>1, <1>2, <2>1, <2>2 DEF CloseInv, Stranger, Begun, Outside
<1>3. CASE Len(keys) = size /\ at < size
  <2>1. PICK t : /\ t = media[keys[at + 1]]
                 /\ status' = [status EXCEPT ![t] = IF @ = "up" THEN "down" ELSE @]
                 /\ at' = at + 1 /\ UNCHANGED <<media, keys, replaced>>
                 /\ phase' = IF t \in broken THEN "raised" ELSE phase
    BY <1>3 DEF Close, dict
  <2>2. at \in Nat /\ size \in Nat
    <3>1. Cardinality(DCs) \in Nat
      BY DCsAssumption, FS_CardinalityType
    <3> QED BY <3>1 DEF Types
  <2>3. ASSUME NEW s \in Handled, status'[s] = "up", s \notin replaced
        PROVE  \E i \in 1 .. Len(keys) : i > at + 1 /\ keys[i] = where[s]
    <3>1. s \in Callers /\ status[s] = "up" /\ s # t
      BY <2>1, <2>3, CallersAssumption DEF Types
    <3>2. PICK i \in 1 .. Len(keys) : i > at /\ keys[i] = where[s]
      BY <1>1, <2>3, <3>1 DEF ToCome
    <3>3. media[where[s]] = s
      BY <1>1, <2>3, <3>1 DEF MediaInv, Begun
    <3>4. i # at + 1
      BY <2>1, <3>1, <3>2, <3>3
    <3> QED BY <2>2, <3>2, <3>4
  <2>4. \A s \in Handled : status'[s] = "up" /\ s \notin replaced' => ToCome(s)'
    BY <1>1, <2>1, <2>3 DEF ToCome
  <2> QED BY <1>1, <1>3, <2>1, <2>4 DEF CloseInv, Loop
<1>4. CASE Len(keys) = size /\ ~(at < size)
  <2>1. phase' = "off" /\ UNCHANGED <<status, replaced>>
    BY <1>4 DEF Close
  <2>2. at = size
    <3>1. Cardinality(DCs) \in Nat
      BY DCsAssumption, FS_CardinalityType
    <3> QED BY <1>4, <3>1 DEF Types
  <2>3. \A s \in Handled : ~ToCome(s)
    BY <1>4, <2>2 DEF ToCome
  <2> QED BY <1>1, <2>1, <2>3 DEF CloseInv
<1> QED BY <1>2, <1>3, <1>4

LEMMA CloseStep ==
  ASSUME BaseInv, CloseInv, [Next]_vars
  PROVE  CloseInv'
<1>1. CASE UNCHANGED vars
  BY <1>1 DEF vars, dict, client, CloseInv, Loop, Stranger, ToCome, Begun, Outside
<1>2. CASE Terminate
  BY <1>2 DEF Terminate, CloseInv, Loop
<1>3. CASE Drained
  BY <1>3, CloseDrained
<1>4. CASE Close
  BY <1>4, CloseClose
<1>5. ASSUME NEW c \in Callers, CallerSteps(c) PROVE CloseInv'
  BY <1>5, CloseCaller
<1>6. CASE \E c \in Callers : RecvRaises(c)
  BY <1>6 DEF RecvRaises, dict, client, CloseInv, Loop, Stranger, ToCome, Begun, Outside
<1> QED BY <1>1, <1>2, <1>3, <1>4, <1>5, <1>6 DEF Next, CallerSteps

-----------------------------------------------------------------------------
(***************************************************************************)
(* The theorems.                                                           *)
(***************************************************************************)
SafeInv == BaseInv /\ OneInv /\ GoodInv /\ CloseInv

LEMMA InitSafe ==
  ASSUME Init
  PROVE  SafeInv
<1>1. Types
  <2>1. Cardinality(DCs) \in Nat
    BY DCsAssumption, FS_CardinalityType
  <2> QED BY <2>1, DCsAssumption, AttemptsAssumption, EmptySeq DEF Init, Types, Places
<1>2. Len(keys) = 0
  BY EmptySeq DEF Init
<1>3. KeysInv
  BY <1>2 DEF Init, KeysInv
<1>4. LockInv
  BY SmallFacts DEF Init, LockInv, Making
<1>5. CallerInv
  BY AttemptsAssumption DEF Init, CallerInv, Begun, Over
<1>6. MediaInv
  BY DEF Init, MediaInv, Begun
<1>7. OneInv
  BY DEF Init, OneInv
<1>8. GoodInv
  BY DEF Init, GoodInv, Good
<1>9. CloseInv
  BY DEF Init, CloseInv, Loop
<1> QED BY <1>1, <1>3, <1>4, <1>5, <1>6, <1>7, <1>8, <1>9 DEF SafeInv, BaseInv

LEMMA SafeKept == Spec => []SafeInv
<1>1. SafeInv /\ [Next]_vars => SafeInv'
  BY BaseStep, OneStep, GoodStep, CloseStep DEF SafeInv
<1> QED BY <1>1, InitSafe, PTL DEF Spec

LEMMA SafeTypes ==
  ASSUME BaseInv
  PROVE  TypeOK
<1> USE DEF BaseInv
<1>1. keys \in Seq(DCs) /\ Len(keys) \in Nat /\ keys \in [1 .. Len(keys) -> DCs]
  BY LenProperties DEF Types
<1>2. IsInjective(keys)
  BY <1>1 DEF KeysInv, IsInjective
<1>3. ToSet(keys) = {d \in DCs : media[d] # NoSession}
  BY <1>1 DEF KeysInv, ToSet
<1>4. \A c \in Inline :
         pc[c] \in {"auth", "start", "export", "import", "stop"} => lock # <<>> /\ Head(lock) = c
  BY DEF LockInv, Making
<1> QED BY <1>2, <1>3, <1>4 DEF Types, TypeOK, Places

\* The types hold, and while the client runs no second session is made for
\* the home data centre, where nothing is awaited between the look into
\* media_sessions and the store, nor for one that only get_session asks for,
\* which holds the lock in between.
THEOREM OneMade == Spec => []OneForLocked
<1>1. ASSUME SafeInv PROVE OneForLocked
  <2> USE DEF SafeInv
  <2>1. TypeOK
    BY <1>1, SafeTypes
  <2>2. ASSUME Running, NEW d \in LockedDCs
        PROVE  Cardinality({s \in Callers : where[s] = d /\ status[s] # "none"}) <= 1
    <3> DEFINE made == {s \in Callers : where[s] = d /\ status[s] # "none"}
    <3>1. \A s \in made : s = media[d]
      BY <1>1, <2>2 DEF BaseInv, MediaInv, OneInv, Begun, Running
    <3>2. CASE made = {}
      BY <3>2, FS_EmptySet
    <3>3. CASE made # {}
      <4>1. made = {media[d]}
        BY <3>1, <3>3
      <4>2. Cardinality({media[d]}) = 1
        BY FS_Singleton
      <4> QED BY <4>1, <4>2
    <3> QED BY <3>2, <3>3
  <2> QED BY <2>1, <2>2 DEF OneForLocked, Running
<1> QED BY <1>1, SafeKept, PTL

\* Where only get_session makes sessions, it hands out none that is still
\* being made: nobody who asks it fails as long as no call fails.
THEOREM FoundSucceed == Spec => []NoneHalfMade
<1>1. ASSUME SafeInv PROVE NoneHalfMade
  <2>1. \A c \in Callers : faults = 0 /\ Running /\ Shared(c) => pc[c] # "failed"
    BY <1>1 DEF SafeInv, GoodInv, Good
  <2> QED BY <2>1, SmallFacts DEF NoneHalfMade, Running, Shared
<1> QED BY <1>1, SafeKept, PTL

\* A client that was terminated leaves no session of a handler running but
\* one that another took the place of in media_sessions.  terminate raises
\* only where somebody outside the handlers has made a session or the receive
\* task of one has raised, and what runs then is behind the loop's place.
THEOREM NothingRuns == Spec => []ClientStopped
<1>1. ASSUME SafeInv PROVE ClientStopped
  <2> USE DEF SafeInv, BaseInv
  <2>1. ASSUME phase \in {"off", "raised"}, NEW s \in Callers, status[s] \in {"starting", "up"}
        PROVE  s \in replaced \/ Outside(s) \/ (phase = "raised" /\ Behind(s))
    <3>1. CASE s \notin Handled
      BY <3>1 DEF Outside
    <3>2. CASE s \in Handled
      <4>1. pc[s] # "start"
        BY <1>1, <2>1, <3>2 DEF CloseInv, Loop, Over
      <4>2. status[s] = "up"
        BY <1>1, <2>1, <4>1 DEF CallerInv
      <4>3. s \in replaced \/ (phase = "raised" /\ ToCome(s))
        BY <1>1, <2>1, <3>2, <4>2 DEF CloseInv
      <4>4. ToCome(s) => Behind(s)
        <5>1. Cardinality(DCs) \in Nat
          BY DCsAssumption, FS_CardinalityType
        <5>2. at \in Nat /\ Len(keys) \in Nat
          BY <1>1, <5>1, LenProperties DEF Types
        <5>3. \A i \in 1 .. Len(keys) : i > at => i \in at + 1 .. Len(keys)
          BY <5>2
        <5> QED BY <5>3 DEF ToCome, Behind
      <4> QED BY <4>3, <4>4
    <3> QED BY <3>1, <3>2
  <2>2. phase = "raised" => broken # {} \/ \E s \in Callers : Outside(s) /\ status[s] # "none"
    BY <1>1 DEF CloseInv, Stranger, Begun
  <2> QED BY <2>1, <2>2 DEF ClientStopped
<1> QED BY <1>1, SafeKept, PTL
================================================================================
