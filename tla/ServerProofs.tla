---------------------------- MODULE ServerProofs ----------------------------
(***************************************************************************)
(* Theorems about Server: that it is the buffer pool and the session       *)
(* manager composed, with nothing done to either behind its back, and what *)
(* it inherits from them; what leaves through the shared send buffer; and  *)
(* what becomes of keystrokes when the BIOS buffer is full.                *)
(***************************************************************************)
EXTENDS Server, SessionProofs, SequenceTheorems, FiniteSetTheorems

\* The foreground stands still while a frame is handled, and the keystroke
\* counters belong to the frame in hand.
InHand ==
  /\ user # NoFrame => inTick
  /\ keyNo = 0 => kept = <<>>
  /\ keyNo # 0 => user \in Frames /\ user.kind = "INJECT_KEYSTROKE"
  /\ keyNo \in Nat /\ Len(kept) <= keyNo
  /\ kept \in Seq(Keys) /\ kbd \in Seq(Keys) /\ Len(kbd) <= KBD_ROOM

\* Every action is one of these to the pool ...
LEMMA PoolSteps ==
  ASSUME [Next]_vars
  PROVE  \/ Grant \/ (\E f \in Frames : Deliver(f)) \/ Take \/ Wipe \/ Recycle
         \/ UNCHANGED poolVars
BY DEF Next, vars, FirstCall, SecondCall, int08_isr, buffer_get_ready, InjectKey,
       Handled, buffer_release, UpdateAndReturn, ReadKey, TypeLocally, Draw, ChangeMode

\* ... and one of these to the session manager.
LEMMA SessionStepsOf == [Next]_vars => [SessionNext]_sessionVars
<1> SUFFICES ASSUME [Next]_vars PROVE [SessionNext]_sessionVars
  OBVIOUS
<1>1. CASE Handled
  <2>1. CASE UNCHANGED sessionVars
    BY <2>1
  <2>2. CASE session_mgr_start(user.src, user.id)
    <3>1. user.src \in Macs /\ user.id \in SessionIds
      BY <1>1, ServerAssumption DEF Handled, Wipe
    <3> QED BY <2>2, <3>1 DEF SessionNext
  <2> QED BY <1>1, <2>1, <2>2 DEF Handled
<1>2. CASE UpdateAndReturn
  BY <1>2 DEF UpdateAndReturn, SessionNext
<1>3. ASSUME NEW c \in Writable, NEW w \in Word, Draw(c, w) PROVE SessionNext
  BY <1>3 DEF Draw, SessionNext
<1>4. ASSUME NEW m \in Modes, ChangeMode(m) PROVE SessionNext
  BY <1>4 DEF ChangeMode, SessionNext
<1> QED
  BY <1>1, <1>2, <1>3, <1>4 DEF Next, vars, FirstCall, SecondCall, int08_isr,
     buffer_get_ready, InjectKey, buffer_release, ReadKey, TypeLocally

LEMMA PoolTypes == PoolTypeOK /\ Conservation /\ [Next]_vars => PoolTypeOK'
<1> SUFFICES ASSUME PoolTypeOK, Conservation, [Next]_vars PROVE PoolTypeOK'
  OBVIOUS
<1> USE PoolAssumption DEF PoolTypeOK
<1>1. CASE Grant
  <2>1. npending < NumBuffers
    <3>1. Len(ready) \in Nat
      OBVIOUS
    <3> QED BY <1>1, <3>1 DEF Conservation, Grant
  <2> QED BY <1>1, <2>1 DEF Grant
<1>2. ASSUME NEW f \in Frames, Deliver(f) PROVE PoolTypeOK'
  BY <1>2 DEF Deliver
<1>3. CASE Take
  BY <1>3 DEF Take
<1>4. CASE Wipe
  BY <1>4 DEF Wipe
<1>5. CASE Recycle
  BY <1>5 DEF Recycle, Conservation
<1>6. CASE UNCHANGED poolVars
  BY <1>6 DEF poolVars
<1> QED BY <1>1, <1>2, <1>3, <1>4, <1>5, <1>6, PoolSteps

LEMMA Balance == PoolTypeOK /\ Conservation /\ [Next]_vars => Conservation'
<1> SUFFICES ASSUME PoolTypeOK, Conservation, [Next]_vars PROVE Conservation'
  OBVIOUS
<1> USE PoolAssumption DEF PoolTypeOK, Conservation
<1>1. CASE Grant
  BY <1>1 DEF Grant
<1>2. ASSUME NEW f \in Frames, Deliver(f) PROVE Conservation'
  <2>1. Len(ready') = Len(ready) + 1
    <3>1. <<f>> \in Seq(Frames) /\ Len(<<f>>) = 1
      OBVIOUS
    <3>2. ready' = <<f>> \o ready
      BY <1>2 DEF Deliver
    <3>3. ready \in Seq(Frames) /\ Len(ready) \in Nat
      OBVIOUS
    <3> HIDE DEF Conservation, PoolTypeOK
    <3>4. Len(<<f>> \o ready) = Len(<<f>>) + Len(ready)
      BY <3>1, <3>3, ConcatProperties
    <3> QED BY <3>1, <3>2, <3>3, <3>4
  <2> HIDE DEF PoolTypeOK
  <2>2. npending \in Nat /\ nfree \in Nat /\ Len(ready) \in Nat
    BY DEF PoolTypeOK
  <2>3. npending' = npending - 1 /\ nfree' = nfree /\ user' = user
    BY <1>2 DEF Deliver
  <2> QED BY <2>1, <2>2, <2>3
<1>3. CASE Take
  BY <1>3 DEF Take
<1>4. CASE Wipe
  BY <1>4 DEF Wipe
<1>5. CASE Recycle
  BY <1>5 DEF Recycle
<1>6. CASE UNCHANGED poolVars
  BY <1>6 DEF poolVars
<1> QED BY <1>1, <1>2, <1>3, <1>4, <1>5, <1>6, PoolSteps

-----------------------------------------------------------------------------
(* The send buffer.                                                        *)

\* A reply is built on a blank buffer, so it carries its own bytes only.
LEMMA CleanPing ==
  ASSUME NEW f \in Frames, handle_ping(f)
  PROVE  CleanReplies'
<1>1. /\ g_send_buffer'.to = f.src
      /\ \A z \in Zone : g_send_buffer'.payload[z] \subseteq {f.src}
  BY DEF handle_ping, prep_for_reply
<1>2. f.bytes \in Zone
  BY ServerAssumption DEF Zone, MinFrameZone
<1>3. /\ wire'.type = "PONG"
      /\ wire'.to = f.src
      /\ wire'.carries \subseteq {f.src}
  <2> DEFINE sent == IF f.bytes > MinFrameZone THEN f.bytes ELSE MinFrameZone
  <2>1. 1..sent \subseteq Zone
    BY <1>2 DEF Zone, MinFrameZone
  <2>2. wire' = [type |-> "PONG", to |-> g_send_buffer'.to, id |-> g_send_buffer'.id,
                 carries |-> UNION {g_send_buffer'.payload[z] : z \in 1..sent}]
    BY DEF handle_ping, pktdrv_send
  <2> HIDE DEF sent
  <2>3. UNION {g_send_buffer'.payload[z] : z \in 1..sent} \subseteq {f.src}
    BY <1>1, <2>1
  <2> QED BY <1>1, <2>2, <2>3
<1> QED BY <1>3 DEF CleanReplies

LEMMA CleanStatus ==
  ASSUME NEW f \in Frames, handle_status_req(f)
  PROVE  CleanReplies'
<1>1. \A z \in Zone : g_send_buffer'.payload[z] \subseteq {"status"}
  BY DEF handle_status_req, prep_for_reply, Zone, StatusZone
<1>2. /\ wire'.type = "STATUS_RESP"
      /\ wire'.carries \subseteq {"status"}
  BY <1>1 DEF handle_status_req, pktdrv_send, Zone, StatusZone, MinFrameZone
<1> QED BY <1>2 DEF CleanReplies

LEMMA CleanStep == CleanReplies /\ [Next]_vars => CleanReplies'
<1> SUFFICES ASSUME CleanReplies, [Next]_vars PROVE CleanReplies'
  OBVIOUS
<1>1. CASE UNCHANGED wire
  BY <1>1 DEF CleanReplies
<1>2. CASE Handled
  BY <1>1, <1>2, CleanPing, CleanStatus DEF Handled, Wipe
<1> QED
  BY <1>1, <1>2 DEF Next, vars, serverVars, FirstCall, SecondCall, int08_isr,
     buffer_get_ready, InjectKey, buffer_release, UpdateAndReturn, ReadKey,
     TypeLocally, Draw, ChangeMode

-----------------------------------------------------------------------------
(* Keystrokes.                                                             *)

LEMMA WithinEmpty == ASSUME NEW q PROVE Within(<<>>, q)
<1> DEFINE at == [i \in 1..0 |-> 1]
<1>1. 1..0 = {} /\ 1..Len(<<>>) = {}
  OBVIOUS
<1>2. at \in [1..Len(<<>>) -> 1..Len(q)]
  BY <1>1
<1> QED BY <1>1, <1>2 DEF Within

\* Somebody types: what was in the buffer stays where it is.
LEMMA WithinGrows ==
  ASSUME NEW S, NEW s \in Seq(S), NEW q \in Seq(S), NEW k \in S, Within(s, q)
  PROVE  Within(s, Append(q, k))
<1>1. PICK at \in [1..Len(s) -> 1..Len(q)] :
        /\ \A i \in 1..Len(s) : q[at[i]] = s[i]
        /\ \A i, j \in 1..Len(s) : i < j => at[i] < at[j]
  BY DEF Within
<1>2. Len(q) \in Nat /\ Len(Append(q, k)) = Len(q) + 1
  BY AppendProperties
<1>3. \A x \in 1..Len(q) : Append(q, k)[x] = q[x]
  BY AppendProperties
<1>4. at \in [1..Len(s) -> 1..Len(Append(q, k))]
  BY <1>1, <1>2
<1>5. \A i \in 1..Len(s) : Append(q, k)[at[i]] = s[i]
  BY <1>1, <1>3
<1> QED BY <1>1, <1>4, <1>5 DEF Within

\* A keystroke the BIOS takes comes behind those it took before.
LEMMA WithinAppends ==
  ASSUME NEW S, NEW s \in Seq(S), NEW q \in Seq(S), NEW k \in S, Within(s, q)
  PROVE  Within(Append(s, k), Append(q, k))
<1>1. PICK at \in [1..Len(s) -> 1..Len(q)] :
        /\ \A i \in 1..Len(s) : q[at[i]] = s[i]
        /\ \A i, j \in 1..Len(s) : i < j => at[i] < at[j]
  BY DEF Within
<1> DEFINE n == Len(s)
           m == Len(q)
           new == [i \in 1..(n + 1) |-> IF i <= n THEN at[i] ELSE m + 1]
<1>2. n \in Nat /\ m \in Nat
  OBVIOUS
<1>3. /\ Len(Append(s, k)) = n + 1 /\ Len(Append(q, k)) = m + 1
      /\ \A i \in 1..n : Append(s, k)[i] = s[i]
      /\ \A i \in 1..m : Append(q, k)[i] = q[i]
      /\ Append(s, k)[n + 1] = k /\ Append(q, k)[m + 1] = k
  BY AppendProperties
<1>4. /\ at \in [1..n -> 1..m]
      /\ \A i \in 1..n : q[at[i]] = s[i]
      /\ \A i, j \in 1..n : i < j => at[i] < at[j]
  BY <1>1
<1> HIDE DEF n, m
<1>5. new \in [1..(n + 1) -> 1..(m + 1)]
  BY <1>2, <1>4
<1>6. ASSUME NEW i \in 1..(n + 1) PROVE Append(q, k)[new[i]] = Append(s, k)[i]
  <2>1. CASE i <= n
    BY <1>2, <1>3, <1>4, <2>1
  <2>2. CASE i = n + 1
    BY <1>2, <1>3, <2>2
  <2>3. i <= n \/ i = n + 1
    BY <1>2
  <2> QED BY <2>1, <2>2, <2>3
<1>7. ASSUME NEW i \in 1..(n + 1), NEW j \in 1..(n + 1), i < j
      PROVE  new[i] < new[j]
  <2>1. i \in 1..n
    BY <1>2, <1>7
  <2>2. CASE j <= n
    BY <1>2, <1>4, <1>7, <2>1, <2>2
  <2>3. CASE j = n + 1
    <3>1. at[i] \in 1..m
      BY <1>4, <2>1
    <3> QED BY <1>2, <2>1, <2>3, <3>1
  <2> QED BY <1>2, <2>2, <2>3
<1> HIDE DEF new
<1> QED BY <1>3, <1>5, <1>6, <1>7 DEF Within

\* What holds of the frame in hand, at every step.
KeysInv == InHand /\ KeysWhole

\* One keystroke is tried.
LEMMA InjectKeeps ==
  ASSUME KeysInv, InjectKey
  PROVE  KeysInv'
<1>1. /\ user \in Frames /\ user.keys \in Seq(Keys)
      /\ user.kind = "INJECT_KEYSTROKE"
      /\ keyNo < Len(user.keys) /\ keyNo' = keyNo + 1
      /\ user' = user /\ inTick' = inTick
      /\ keyNo \in Nat /\ kept \in Seq(Keys) /\ kbd \in Seq(Keys)
      /\ Len(kbd) <= KBD_ROOM
  BY ServerAssumption DEF InjectKey, KeysInv, InHand, poolVars
<1>2. Len(user.keys) \in Nat /\ Len(kept) \in Nat /\ Len(kbd) \in Nat /\ KBD_ROOM \in Nat
  BY <1>1, ServerAssumption
<1>3. Key(user) \in Keys /\ Key(user) = user.keys[keyNo + 1]
  BY <1>1, <1>2, ElementOfSeq DEF Key
<1>4. Len(kept) <= keyNo /\ Prefix(kept, user.keys) /\ Within(kept, kbd)
      /\ (Len(kept) < keyNo => Len(kbd) = KBD_ROOM)
  <2>1. CASE keyNo = 0
    <3>1. kept = <<>> /\ Len(kept) = 0
      BY <2>1 DEF KeysInv, InHand
    <3> QED BY <1>2, <2>1, <3>1, WithinEmpty DEF Prefix
  <2>2. CASE keyNo > 0
    BY <1>1, <2>2 DEF KeysInv, InHand, KeysWhole
  <2> QED BY <1>1, <2>1, <2>2
<1>5. CASE Len(kbd) < KBD_ROOM /\ kbd' = Append(kbd, Key(user)) /\ kept' = Append(kept, Key(user))
  <2>1. Len(kept) = keyNo
    BY <1>1, <1>2, <1>4, <1>5
  <2>2. /\ Len(kept') = Len(kept) + 1 /\ Len(kbd') = Len(kbd) + 1
        /\ kept' \in Seq(Keys) /\ kbd' \in Seq(Keys)
        /\ \A i \in 1..Len(kept) : kept'[i] = kept[i]
        /\ kept'[Len(kept) + 1] = Key(user)
    BY <1>1, <1>3, <1>5, AppendProperties
  <2>3. Prefix(kept', user.keys)
    <3>1. \A i \in 1..Len(kept) : kept[i] = user.keys[i]
      BY <1>4 DEF Prefix
    <3>2. ASSUME NEW i \in 1..(Len(kept) + 1) PROVE kept'[i] = user.keys[i]
      <4>1. CASE i \in 1..Len(kept)
        BY <2>2, <3>1, <4>1
      <4>2. CASE i = Len(kept) + 1
        BY <1>3, <2>1, <2>2, <4>2
      <4> QED BY <1>2, <4>1, <4>2
    <3>3. Len(kept) + 1 <= Len(user.keys)
      BY <1>1, <1>2, <2>1
    <3> QED BY <2>2, <3>2, <3>3 DEF Prefix
  <2>4. Within(kept', kbd')
    BY <1>1, <1>3, <1>4, <1>5, WithinAppends
  <2>5. Len(kept') = keyNo' /\ keyNo' \in Nat /\ keyNo' # 0 /\ Len(kbd') <= KBD_ROOM
    BY <1>1, <1>2, <1>5, <2>1, <2>2
  <2>6. user # NoFrame => inTick
    BY DEF KeysInv, InHand
  <2> QED BY <1>1, <2>2, <2>3, <2>4, <2>5, <2>6 DEF KeysInv, InHand, KeysWhole
<1>6. CASE Len(kbd) = KBD_ROOM /\ UNCHANGED <<kbd, kept>>
  <2>1. user # NoFrame => inTick
    BY DEF KeysInv, InHand
  <2>2. Len(kept) <= keyNo' /\ keyNo' \in Nat /\ keyNo' # 0
    BY <1>1, <1>2, <1>4
  <2> QED BY <1>1, <1>2, <1>4, <1>6, <2>1, <2>2 DEF KeysInv, InHand, KeysWhole
<1> QED BY <1>5, <1>6 DEF InjectKey

\* Steps that leave the frame in hand and the keyboard alone.
LEMMA OthersKeep ==
  ASSUME KeysInv, UNCHANGED <<user, keyVars>>, user # NoFrame => inTick'
  PROVE  KeysInv'
BY DEF KeysInv, InHand, KeysWhole, keyVars

LEMMA KeysStep == KeysInv /\ [Next]_vars => KeysInv'
<1> SUFFICES ASSUME KeysInv, [Next]_vars PROVE KeysInv'
  OBVIOUS
<1> USE PoolAssumption
<1>1. ASSUME UNCHANGED <<user, inTick, keyVars>> PROVE KeysInv'
  BY <1>1, OthersKeep DEF KeysInv, InHand
<1>2. CASE FirstCall
  BY <1>1, <1>2 DEF FirstCall, Grant, serverVars, keyVars
<1>3. ASSUME NEW f \in Frames, SecondCall(f) PROVE KeysInv'
  BY <1>1, <1>3 DEF SecondCall, Deliver
<1>4. CASE int08_isr
  BY <1>4, OthersKeep DEF int08_isr, poolVars
<1>5. CASE buffer_get_ready
  <2>1. user = NoFrame /\ keyNo = 0 /\ UNCHANGED keyVars /\ inTick /\ inTick' = inTick
    BY <1>5 DEF buffer_get_ready, Take, serverVars, keyVars, KeysInv, InHand
  <2> QED BY <2>1 DEF KeysInv, InHand, KeysWhole, keyVars
<1>6. CASE InjectKey
  BY <1>6, InjectKeeps
<1>7. CASE Handled
  <2>1. user' = Blank /\ user' \notin Frames /\ user # NoFrame /\ inTick' = inTick
    BY <1>7 DEF Handled, Wipe
  <2>2. keyNo' = 0 /\ kept' = <<>> /\ UNCHANGED kbd
    <3>1. CASE KeysDone(user)
      BY <3>1 DEF KeysDone
    <3>2. ASSUME user.kind # "INJECT_KEYSTROKE", UNCHANGED keyVars
          PROVE  keyNo' = 0 /\ kept' = <<>> /\ UNCHANGED kbd
      BY <3>2 DEF KeysInv, InHand, keyVars
    <3>3. \/ KeysDone(user)
          \/ user.kind # "INJECT_KEYSTROKE" /\ UNCHANGED keyVars
      BY <1>7 DEF Handled, handle_ping, handle_status_req
    <3> QED BY <3>1, <3>2, <3>3
  <2> QED BY <2>1, <2>2 DEF KeysInv, InHand, KeysWhole
<1>8. CASE buffer_release
  <2>1. user' = NoFrame /\ user \notin Frames /\ UNCHANGED keyVars
    BY <1>8 DEF buffer_release, Recycle, serverVars, keyVars
  <2> QED BY <2>1 DEF KeysInv, InHand, KeysWhole, keyVars
<1>9. CASE UpdateAndReturn
  BY <1>9, OthersKeep DEF UpdateAndReturn, poolVars
<1>10. CASE ReadKey
  <2>1. user = NoFrame /\ user' = NoFrame /\ keyNo = 0 /\ keyNo' = 0 /\ kept' = kept
    BY <1>10 DEF ReadKey, poolVars, KeysInv, InHand
  <2>2. kbd' \in Seq(Keys) /\ Len(kbd') <= KBD_ROOM
    <3>1. kbd \in Seq(Keys) /\ kbd # <<>> /\ kbd' = Tail(kbd) /\ Len(kbd) <= KBD_ROOM
      BY <1>10 DEF ReadKey, KeysInv, InHand
    <3>2. Tail(kbd) \in Seq(Keys) /\ Len(Tail(kbd)) = Len(kbd) - 1 /\ Len(kbd) \in Nat
      BY <3>1, HeadTailProperties
    <3> QED BY <3>1, <3>2, ServerAssumption
  <2> QED BY <2>1, <2>2 DEF KeysInv, InHand, KeysWhole
<1>11. ASSUME NEW k \in LocalKeys, TypeLocally(k) PROVE KeysInv'
  <2>1. /\ kbd \in Seq(Keys) /\ kept \in Seq(Keys) /\ k \in Keys
        /\ Len(kbd) < KBD_ROOM /\ kbd' = Append(kbd, k)
        /\ UNCHANGED <<user, inTick, keyNo, kept>>
    BY <1>11, ServerAssumption DEF TypeLocally, KeysInv, InHand, poolVars
  <2>2. kbd' \in Seq(Keys) /\ Len(kbd') = Len(kbd) + 1 /\ Len(kbd) \in Nat
    BY <2>1, AppendProperties
  <2>3. Len(kbd') <= KBD_ROOM
    BY <2>1, <2>2, ServerAssumption
  <2>4. InHand'
    BY <2>1, <2>2, <2>3 DEF KeysInv, InHand
  <2>5. KeysWhole'
    <3> SUFFICES ASSUME user \in Frames, keyNo > 0
                 PROVE  /\ Prefix(kept, user.keys)
                        /\ ~ Len(kept) < keyNo
                        /\ Within(kept, kbd')
      BY <2>1 DEF KeysWhole
    <3>1. /\ Prefix(kept, user.keys) /\ Within(kept, kbd)
          /\ Len(kept) < keyNo => Len(kbd) = KBD_ROOM
      BY DEF KeysInv, KeysWhole
    <3>2. ~ Len(kept) < keyNo
      BY <2>1, <2>2, <3>1, ServerAssumption
    <3> QED BY <2>1, <3>1, <3>2, WithinGrows
  <2> QED BY <2>4, <2>5 DEF KeysInv
<1>12. ASSUME NEW c \in Writable, NEW w \in Word, Draw(c, w) PROVE KeysInv'
  BY <1>1, <1>12 DEF Draw, poolVars, serverVars, keyVars
<1>13. ASSUME NEW m \in Modes, ChangeMode(m) PROVE KeysInv'
  BY <1>1, <1>13 DEF ChangeMode, poolVars, serverVars, keyVars
<1>14. CASE UNCHANGED vars
  BY <1>1, <1>14 DEF vars, poolVars, serverVars, keyVars
<1> QED
  BY <1>2, <1>3, <1>4, <1>5, <1>6, <1>7, <1>8, <1>9, <1>10, <1>11, <1>12, <1>13,
     <1>14 DEF Next

-----------------------------------------------------------------------------
(* Requests and replies.                                                   *)

\* How many of the waiting frames s ask what r stands for.
Asking(s, r) == {i \in 1..Len(s) : Asks(s[i], r)}
Count(s, r) == Cardinality(Asking(s, r))

\* The frame on top of the stack counts once.
LEMMA CountTop ==
  ASSUME NEW f \in Frames, NEW s \in Seq(Frames), NEW r \in Requesters
  PROVE  /\ Count(s, r) \in Nat
         /\ Count(<<f>> \o s, r) = Count(s, r) + (IF Asks(f, r) THEN 1 ELSE 0)
<1> DEFINE t == <<f>> \o s
           n == Len(s)
           A == Asking(s, r)
           B == {i + 1 : i \in A}
<1>1. n \in Nat /\ Len(t) = n + 1 /\ t[1] = f /\ \A i \in 1..n : t[i + 1] = s[i]
  <2>1. <<f>> \in Seq(Frames) /\ Len(<<f>>) = 1 /\ <<f>>[1] = f
    OBVIOUS
  <2>2. n \in Nat
    BY LenProperties
  <2>3. Len(t) = 1 + n /\ \A i \in 1..(1 + n) : t[i] = IF i <= 1 THEN <<f>>[i] ELSE s[i - 1]
    BY <2>1, ConcatProperties
  <2>4. ASSUME NEW i \in 1..n PROVE t[i + 1] = s[i]
    <3>1. i + 1 \in 1..(1 + n) /\ ~ (i + 1 <= 1) /\ (i + 1) - 1 = i
      BY <2>2
    <3> HIDE DEF t
    <3> QED BY <2>3, <3>1
  <2>5. t[1] = f
    <3>1. 1 \in 1..(1 + n)
      BY <2>2
    <3> HIDE DEF t
    <3> QED BY <2>1, <2>3, <3>1
  <2> QED BY <2>2, <2>3, <2>4, <2>5
<1> HIDE DEF t, n
<1>2. A \subseteq 1..n
  BY DEF Asking, n
<1>3. Asking(t, r) = B \cup (IF Asks(f, r) THEN {1} ELSE {})
  <2>1. A = {i \in 1..n : Asks(s[i], r)}
    BY DEF Asking, n
  <2>2. Asking(t, r) = {i \in 1..(n + 1) : Asks(t[i], r)}
    BY <1>1 DEF Asking
  <2>3. ASSUME NEW j \in 1..(n + 1), j # 1
        PROVE  j - 1 \in 1..n /\ t[j] = s[j - 1] /\ (j - 1) + 1 = j
    BY <1>1, <2>3
  <2>4. \A j \in 1..(n + 1) : j # 1 => (j \in Asking(t, r) <=> j \in B)
    <3> SUFFICES ASSUME NEW j \in 1..(n + 1), j # 1
                 PROVE  j \in Asking(t, r) <=> j \in B
      OBVIOUS
    <3>1. j \in Asking(t, r) <=> j - 1 \in A
      BY <2>1, <2>2, <2>3
    <3>2. j \in B => j - 1 \in A
      BY <1>2
    <3> QED BY <2>3, <3>1, <3>2
  <2>5. B \subseteq 1..(n + 1) /\ 1 \notin B /\ 1 \in 1..(n + 1)
    BY <1>1, <1>2
  <2>6. 1 \in Asking(t, r) <=> Asks(f, r)
    BY <1>1, <2>2, <2>5
  <2> HIDE DEF A, B
  <2> QED BY <2>2, <2>4, <2>5, <2>6
<1>4. IsFiniteSet(A)
  BY <1>1, <1>2, FS_Interval, FS_Subset
<1>5. IsFiniteSet(B) /\ Cardinality(B) = Cardinality(A) /\ 1 \notin B
  <2> DEFINE g == [i \in A |-> i + 1]
  <2>1. \A i, j \in A : g[i] = g[j] => i = j
    BY <1>2
  <2>2. g \in Bijection(A, B)
    <3>1. g \in [A -> B] /\ \A j \in B : \E i \in A : g[i] = j
      OBVIOUS
    <3> HIDE DEF g, A, B
    <3> QED BY <2>1, <3>1 DEF Bijection, Injection, Surjection, IsInjective
  <2>3. ExistsBijection(A, B)
    BY <2>2 DEF ExistsBijection
  <2>4. 1 \notin B
    BY <1>2
  <2> HIDE DEF A, B
  <2> QED BY <1>4, <2>3, <2>4, FS_Bijection
<1>6. Cardinality(A) \in Nat
  BY <1>4, FS_CardinalityType
<1> HIDE DEF A, B
<1>7. Cardinality(Asking(t, r)) = Cardinality(A) + (IF Asks(f, r) THEN 1 ELSE 0)
  <2>1. CASE Asks(f, r)
    BY <1>3, <1>5, <2>1, FS_AddElement
  <2>2. CASE ~ Asks(f, r)
    BY <1>3, <1>5, <1>6, <2>2
  <2> QED BY <2>1, <2>2
<1> QED BY <1>6, <1>7 DEF Count, A, t

InHandOf(r) == IF user \in Frames /\ Asks(user, r) THEN 1 ELSE 0
OwedInv == PoolTypeOK /\ Conservation /\ owed \in [Requesters -> Int] /\ AnsweredOnce

LEMMA WaitingParts == \A r \in Requesters : Waiting(r) = Count(ready, r) + InHandOf(r)
BY DEF Waiting, Count, Asking, InHandOf

\* A reply settles the request in hand, and only that.
LEMMA Settles ==
  ASSUME owed \in [Requesters -> Int], NEW f \in Frames,
         handle_ping(f) \/ handle_status_req(f)
  PROVE  /\ owed' \in [Requesters -> Int]
         /\ \A r \in Requesters : owed'[r] = owed[r] - (IF Asks(f, r) THEN 1 ELSE 0)
<1> DEFINE type == IF f.kind = "PING" THEN "PONG" ELSE "STATUS_RESP"
           me == <<f.src, f.id, type>>
<1>1. f.src \in Macs /\ f.id \in SessionIds
  BY ServerAssumption
<1>2. me \in Requesters
  BY <1>1 DEF Requesters, Replies
<1>3. f.kind = "PING" \/ f.kind = "STATUS_REQ"
  BY DEF handle_ping, handle_status_req
<1>4. owed' = [owed EXCEPT ![me] = @ - 1]
  <2>1. CASE handle_ping(f)
    <3>1. g_send_buffer'.to = f.src /\ g_send_buffer'.id = f.id /\ f.kind = "PING"
      BY <2>1 DEF handle_ping, prep_for_reply
    <3> QED BY <2>1, <3>1 DEF handle_ping, pktdrv_send
  <2>2. CASE handle_status_req(f)
    <3>1. g_send_buffer'.to = f.src /\ g_send_buffer'.id = f.id /\ f.kind = "STATUS_REQ"
      BY <2>2 DEF handle_status_req, prep_for_reply
    <3> QED BY <2>2, <3>1 DEF handle_status_req, pktdrv_send
  <2> QED BY <2>1, <2>2
<1>5. \A r \in Requesters : Asks(f, r) <=> r = me
  BY <1>3 DEF Asks, Requesters
<1> HIDE DEF me
<1> QED BY <1>2, <1>4, <1>5

LEMMA OwedStep == OwedInv /\ [Next]_vars => OwedInv'
<1> SUFFICES ASSUME OwedInv, [Next]_vars
             PROVE  owed' \in [Requesters -> Int] /\ AnsweredOnce'
  BY PoolTypes, Balance DEF OwedInv
<1> USE PoolAssumption
<1>0. /\ owed \in [Requesters -> Int] /\ ready \in Seq(Frames)
      /\ \A r \in Requesters : owed[r] = Count(ready, r) + InHandOf(r)
  BY WaitingParts DEF OwedInv, PoolTypeOK, AnsweredOnce
<1>1. SUFFICES /\ owed' \in [Requesters -> Int]
               /\ \A r \in Requesters : owed'[r] = Count(ready', r) + InHandOf(r)'
  BY DEF AnsweredOnce, Waiting, Count, Asking, InHandOf
<1>2. CASE UNCHANGED <<owed, ready, user>>
  BY <1>0, <1>2 DEF InHandOf
<1>3. ASSUME NEW f \in Frames, SecondCall(f)
      PROVE  /\ owed' \in [Requesters -> Int]
             /\ \A r \in Requesters : owed'[r] = Count(ready', r) + InHandOf(r)'
  <2>1. /\ owed' = [r \in Requesters |-> IF Asks(f, r) THEN owed[r] + 1 ELSE owed[r]]
        /\ ready' = <<f>> \o ready /\ user' = user
    BY <1>3 DEF SecondCall, Deliver
  <2>2. owed' \in [Requesters -> Int]
    BY <1>0, <2>1
  <2>3. ASSUME NEW r \in Requesters PROVE owed'[r] = Count(ready', r) + InHandOf(r)'
    <3>1. /\ Count(ready, r) \in Nat
          /\ Count(ready', r) = Count(ready, r) + (IF Asks(f, r) THEN 1 ELSE 0)
      BY <1>0, <2>1, CountTop
    <3>2. InHandOf(r)' = InHandOf(r) /\ InHandOf(r) \in Nat
      BY <2>1 DEF InHandOf
    <3>3. owed[r] = Count(ready, r) + InHandOf(r)
      BY <1>0
    <3>4. owed'[r] = IF Asks(f, r) THEN owed[r] + 1 ELSE owed[r]
      BY <2>1
    <3> QED BY <3>1, <3>2, <3>3, <3>4
  <2> QED BY <2>2, <2>3
<1>4. CASE buffer_get_ready
  <2>1. /\ user = NoFrame /\ ready # <<>> /\ user' = Head(ready) /\ ready' = Tail(ready)
        /\ owed' = owed
    BY <1>4 DEF buffer_get_ready, Take, serverVars
  <2>2. /\ Head(ready) \in Frames /\ Tail(ready) \in Seq(Frames)
        /\ ready = <<Head(ready)>> \o Tail(ready)
    BY <1>0, <2>1, HeadTailProperties
  <2>3. ASSUME NEW r \in Requesters PROVE owed'[r] = Count(ready', r) + InHandOf(r)'
    <3>1. /\ Count(ready', r) \in Nat
          /\ Count(ready, r) = Count(ready', r) + (IF Asks(Head(ready), r) THEN 1 ELSE 0)
      BY <2>1, <2>2, CountTop
    <3>2. InHandOf(r) = 0 /\ InHandOf(r)' = (IF Asks(Head(ready), r) THEN 1 ELSE 0)
      BY <2>1, <2>2 DEF InHandOf
    <3>3. owed[r] = Count(ready, r) + InHandOf(r)
      BY <1>0
    <3> QED BY <2>1, <3>1, <3>2, <3>3
  <2> QED BY <1>0, <2>1, <2>3
<1>5. CASE Handled
  <2>1. user \in Frames /\ user' = Blank /\ ready' = ready
    BY <1>5 DEF Handled, Wipe
  <2>2. /\ owed' \in [Requesters -> Int]
        /\ \A r \in Requesters : owed'[r] = owed[r] - (IF Asks(user, r) THEN 1 ELSE 0)
    <3>1. CASE handle_ping(user) \/ handle_status_req(user)
      BY <1>0, <2>1, <3>1, Settles
    <3>2. CASE owed' = owed /\ user.kind \notin {"PING", "STATUS_REQ"}
      <4>1. \A r \in Requesters : ~ Asks(user, r) /\ owed[r] \in Int
        BY <1>0, <3>2 DEF Asks
      <4> QED BY <1>0, <3>2, <4>1
    <3> QED BY <1>5, <3>1, <3>2 DEF Handled, KeysDone
  <2>3. ASSUME NEW r \in Requesters PROVE owed'[r] = Count(ready', r) + InHandOf(r)'
    <3>1. InHandOf(r)' = 0 /\ InHandOf(r) = (IF Asks(user, r) THEN 1 ELSE 0)
      BY <2>1 DEF InHandOf
    <3>2. owed[r] = Count(ready, r) + InHandOf(r) /\ ready' = ready
      BY <1>0, <2>1
    <3>3. Count(ready, r) \in Nat
      BY <1>0, <2>1, CountTop
    <3> QED BY <2>2, <3>1, <3>2, <3>3
  <2> QED BY <2>2, <2>3
<1>6. CASE buffer_release
  <2>1. user = Blank /\ user' = NoFrame /\ UNCHANGED <<owed, ready>>
    BY <1>6 DEF buffer_release, Recycle, serverVars
  <2>2. \A r \in Requesters : InHandOf(r)' = InHandOf(r)
    BY <2>1 DEF InHandOf
  <2> QED BY <1>0, <2>1, <2>2
<1>7. ASSUME \/ FirstCall \/ int08_isr \/ InjectKey \/ UpdateAndReturn \/ ReadKey
             \/ (\E k \in LocalKeys : TypeLocally(k))
             \/ (\E c \in Writable, w \in Word : Draw(c, w))
             \/ (\E m \in Modes : ChangeMode(m)) \/ UNCHANGED vars
      PROVE  UNCHANGED <<owed, ready, user>>
  BY <1>7 DEF FirstCall, Grant, int08_isr, InjectKey, UpdateAndReturn, ReadKey,
     TypeLocally, Draw, ChangeMode, vars, poolVars, serverVars
<1> QED BY <1>2, <1>3, <1>4, <1>5, <1>6, <1>7 DEF Next

-----------------------------------------------------------------------------
(* Types.                                                                  *)

Bytes3 == [Zone -> SUBSET (Macs \cup {"status", "text"})]
SendTypes ==
  /\ g_send_buffer \in [to : Macs \cup {NullMac}, id : SessionIds \cup {0}, payload : Bytes3]
  /\ \/ wire = NoReply
     \/ wire \in [type : Replies, to : Macs, id : SessionIds,
                  carries : SUBSET (Macs \cup {"status", "text"})]
TickTypes == inTick \in BOOLEAN /\ shift \in 0..15

\* The parts of the server's state and what each needs.
ServerInv == OwedInv /\ KeysInv /\ SessionInv /\ SendTypes /\ TickTypes

LEMMA ServerTyped == ServerInv => ServerTypeOK
BY DEF ServerInv, OwedInv, KeysInv, InHand, SessionInv, SendTypes, TickTypes, ServerTypeOK,
   Bytes3

\* A reply goes from a typed buffer to the wire.
LEMMA SentTyped ==
  ASSUME NEW b, NEW type \in Replies, NEW length \in 1..3,
         b \in [to : Macs, id : SessionIds, payload : Bytes3],
         pktdrv_send(b, type, length)
  PROVE  wire' \in [type : Replies, to : Macs, id : SessionIds,
                    carries : SUBSET (Macs \cup {"status", "text"})]
<1> DEFINE sent == IF length > MinFrameZone THEN length ELSE MinFrameZone
<1>1. 1..sent \subseteq Zone
  BY DEF Zone, MinFrameZone
<1>2. wire' = [type |-> type, to |-> b.to, id |-> b.id,
               carries |-> UNION {b.payload[z] : z \in 1..sent}]
  BY DEF pktdrv_send
<1> HIDE DEF sent
<1>3. UNION {b.payload[z] : z \in 1..sent} \subseteq Macs \cup {"status", "text"}
  BY <1>1 DEF Bytes3
<1> QED BY <1>2, <1>3

LEMMA RepliesTyped ==
  ASSUME SendTypes, NEW f \in Frames, handle_ping(f) \/ handle_status_req(f)
  PROVE  SendTypes'
<1>1. f.src \in Macs /\ f.id \in SessionIds /\ f.bytes \in 1..3
  BY ServerAssumption DEF Zone
<1>2. SUFFICES ASSUME NEW b, b = g_send_buffer', NEW type \in Replies, NEW length \in 1..3,
                      b \in [to : Macs, id : SessionIds, payload : Bytes3],
                      pktdrv_send(b, type, length)
               PROVE  SendTypes'
  <2>1. CASE handle_ping(f)
    <3>1. g_send_buffer' \in [to : Macs, id : SessionIds, payload : Bytes3]
      BY <1>1, <2>1 DEF handle_ping, prep_for_reply, Bytes3
    <3>2. pktdrv_send(g_send_buffer', "PONG", f.bytes) /\ "PONG" \in Replies
      BY <2>1 DEF handle_ping, Replies
    <3> QED BY <1>1, <1>2, <3>1, <3>2
  <2>2. CASE handle_status_req(f)
    <3>1. g_send_buffer' \in [to : Macs, id : SessionIds, payload : Bytes3]
      BY <1>1, <2>2 DEF handle_status_req, prep_for_reply, Bytes3
    <3>2. pktdrv_send(g_send_buffer', "STATUS_RESP", StatusZone) /\ "STATUS_RESP" \in Replies
      BY <2>2 DEF handle_status_req, Replies
    <3> QED BY <1>2, <3>1, <3>2 DEF StatusZone
  <2> QED BY <2>1, <2>2
<1> QED BY <1>2, SentTyped DEF SendTypes

\* Every packet of the stream is addressed to a client.
LEMMA StreamTyped ==
  ASSUME SendTypes, PacketTypes', StreamBuffer, UNCHANGED wire
  PROVE  SendTypes'
<1>1. CASE UNCHANGED g_send_buffer
  BY <1>1 DEF SendTypes
<1>2. ASSUME NEW p \in out',
             g_send_buffer' =
               [to |-> p.to, id |-> p.id,
                payload |-> [z \in Zone |->
                   IF z <= MinFrameZone THEN {"text"}
                                        ELSE g_send_buffer.payload[z] \cup {"text"}]]
      PROVE  SendTypes'
  <2>1. p.to \in Macs /\ p.id \in SessionIds
    BY DEF PacketTypes
  <2>2. g_send_buffer.payload \in Bytes3
    BY DEF SendTypes
  <2>3. g_send_buffer'.payload \in Bytes3
    BY <1>2, <2>2 DEF Bytes3
  <2>4. g_send_buffer' \in [to : Macs \cup {NullMac}, id : SessionIds \cup {0}, payload : Bytes3]
    BY <1>2, <2>1, <2>3
  <2> QED BY <2>4 DEF SendTypes
<1> QED BY <1>1, <1>2 DEF StreamBuffer

LEMMA ServerStep == ServerInv /\ [Next]_vars => ServerInv'
<1> SUFFICES ASSUME ServerInv, [Next]_vars PROVE ServerInv'
  OBVIOUS
<1>1. OwedInv' /\ KeysInv' /\ SessionInv'
  BY OwedStep, KeysStep, SessionSteps, SessionStepsOf DEF ServerInv
<1>2. SendTypes'
  <2>1. CASE UNCHANGED <<g_send_buffer, wire>>
    BY <2>1 DEF ServerInv, SendTypes
  <2>2. CASE Handled
    BY <2>1, <2>2, RepliesTyped DEF ServerInv, Handled, Wipe
  <2>3. CASE UpdateAndReturn
    <3>1. PacketTypes'
      BY <1>1, TypeParts, PTL DEF SessionInv
    <3> QED BY <2>3, <3>1, StreamTyped DEF ServerInv, UpdateAndReturn
  <2> QED
    BY <2>1, <2>2, <2>3 DEF Next, vars, serverVars, FirstCall, SecondCall, int08_isr,
       buffer_get_ready, InjectKey, buffer_release, ReadKey, TypeLocally, Draw, ChangeMode
<1>3. inTick' \in BOOLEAN
  BY DEF ServerInv, TickTypes, Next, vars, serverVars, FirstCall, SecondCall, int08_isr,
     buffer_get_ready, InjectKey, Handled, buffer_release, UpdateAndReturn, ReadKey,
     TypeLocally, Draw, ChangeMode
<1>4. shift' \in 0..15
  <2>1. \A k \in Keys : k.flags_17 \in 0..15
    BY ServerAssumption
  <2>2. CASE InjectKey
    <3>1. Key(user) \in Keys
      <4>1. user.keys \in Seq(Keys) /\ keyNo \in Nat /\ keyNo < Len(user.keys)
        BY <2>2, ServerAssumption DEF InjectKey, ServerInv, KeysInv, InHand
      <4>2. Len(user.keys) \in Nat
        BY <4>1
      <4> QED BY <4>1, <4>2, ElementOfSeq DEF Key
    <3> QED BY <2>1, <2>2, <3>1 DEF InjectKey
  <2>3. ASSUME NEW k \in LocalKeys, TypeLocally(k) PROVE shift' \in 0..15
    BY <2>1, <2>3, ServerAssumption DEF TypeLocally
  <2>4. CASE UNCHANGED shift
    BY <2>4 DEF ServerInv, TickTypes
  <2> QED
    BY <2>2, <2>3, <2>4 DEF Next, vars, serverVars, keyVars, FirstCall, SecondCall,
       int08_isr, buffer_get_ready, Handled, KeysDone, buffer_release, UpdateAndReturn,
       ReadKey, Draw, ChangeMode
<1> QED BY <1>1, <1>2, <1>3, <1>4 DEF ServerInv, TickTypes

-----------------------------------------------------------------------------
(* The theorems.                                                           *)

LEMMA ServerInit ==
  Init => PoolTypeOK /\ Conservation /\ CleanReplies /\ KeysInv
<1> SUFFICES ASSUME Init PROVE PoolTypeOK /\ Conservation /\ CleanReplies /\ KeysInv
  OBVIOUS
<1> USE PoolAssumption, ServerAssumption DEF Init, PoolInit
<1>1. PoolTypeOK /\ Conservation
  BY DEF PoolTypeOK, Conservation
<1>2. CleanReplies
  BY DEF CleanReplies
<1>3. KeysInv
  BY DEF KeysInv, InHand, KeysWhole
<1> QED BY <1>1, <1>2, <1>3

LEMMA OwedInit == Init => OwedInv
<1> SUFFICES ASSUME Init PROVE owed \in [Requesters -> Int] /\ AnsweredOnce
  BY ServerInit DEF OwedInv
<1>1. owed = [r \in Requesters |-> 0] /\ user = NoFrame /\ ready = <<>>
  BY DEF Init, PoolInit
<1>2. \A r \in Requesters : Waiting(r) = 0
  <2>1. \A r \in Requesters : {i \in 1..Len(ready) : Asks(ready[i], r)} = {}
    BY <1>1
  <2> QED BY <1>1, <2>1, PoolAssumption, FS_EmptySet DEF Waiting
<1> QED BY <1>1, <1>2 DEF AnsweredOnce

\* However frames arrive and whatever is in them, every buffer is free, with
\* the driver, waiting, or in the handler's hand (all paths of
\* protocol_process end in buffer_release).
THEOREM ConservationAlways == Spec => []Conservation
<1>1. Init => PoolTypeOK /\ Conservation
  BY ServerInit
<1>2. (PoolTypeOK /\ Conservation) /\ [Next]_vars => (PoolTypeOK /\ Conservation)'
  BY PoolTypes, Balance
<1> QED BY <1>1, <1>2, PTL DEF Spec

\* No reply ever carries bytes of the screen or of another client's packet,
\* although all share g_send_buffer (prep_for_reply's memset).
THEOREM CleanRepliesAlways == Spec => []CleanReplies
<1>1. Init => CleanReplies
  BY ServerInit
<1> QED BY <1>1, CleanStep, PTL DEF Spec

\* For frames and keyboard buffers of any length: what a full BIOS buffer
\* swallows of a frame is its end, and the rest keeps its order.
THEOREM KeysWholeAlways == Spec => []KeysWhole
<1>1. Init => KeysInv
  BY ServerInit
<1>2. KeysInv => KeysWhole
  BY DEF KeysInv
<1> QED BY <1>1, <1>2, KeysStep, PTL DEF Spec

\* For any number of buffers, clients and frames, in whatever order the stack
\* hands them out: each request is answered once, to whoever asked
\* (handle_ping, handle_status_req, prep_for_reply).
THEOREM AnsweredOnceAlways == Spec => []AnsweredOnce
<1>1. OwedInv => AnsweredOnce
  BY DEF OwedInv
<1> QED BY <1>1, OwedInit, OwedStep, PTL DEF Spec

\* The server drives the session manager only through its two entry points
\* and draws on the screen only between interrupts, so it is a session
\* manager; and it takes buffers only through the pool's operations.
THEOREM ServerComposes == Spec => SessionSpec /\ PoolSpec
<1>1. Init => SessionInit /\ PoolInit
  BY DEF Init
<1>2. [Next]_vars => [PoolNext]_poolVars
  BY PoolSteps DEF PoolNext
<1> QED BY <1>1, <1>2, SessionStepsOf, PTL DEF Spec, SessionSpec, PoolSpec

\* So what holds of the session manager holds of it inside the server, with
\* frames arriving at every moment and every handler at work.
THEOREM ServerInherits ==
  Spec => []OneSessionEach /\ PacketsFit /\ WriteNoticed /\ SendingEnds
BY ServerComposes, OneSessionEachAlways, PacketsFitAlways, WriteNoticedAlways,
   SendingEndsAlways, PTL

\* Types of the whole server: among others, no reply and no packet is ever
\* addressed to the all-zero address, the BIOS buffer never holds more than
\* it has room for, and only four bits of the keyboard flags are touched.
THEOREM ServerTypes == Spec => []ServerTypeOK
<1>1. Init => ServerInv
  <2> SUFFICES ASSUME Init PROVE ServerInv
    OBVIOUS
  <2>1. OwedInv /\ KeysInv
    BY ServerInit, OwedInit
  <2>2. SessionInv
    BY SessionStarts DEF Init
  <2>3. SendTypes
    BY DEF Init, SendTypes, Bytes3
  <2>4. TickTypes
    <3>1. inTick = FALSE /\ shift = 0
      BY DEF Init
    <3>2. inTick \in BOOLEAN
      BY <3>1
    <3>3. shift \in 0..15
      BY <3>1
    <3> QED BY <3>2, <3>3 DEF TickTypes
  <2> QED BY <2>1, <2>2, <2>3, <2>4 DEF ServerInv
<1> QED BY <1>1, ServerStep, ServerTyped, PTL DEF Spec

-----------------------------------------------------------------------------
(* The sessions of the server in real time.                                *)

\* The server with the ages of its sessions beside it.  They follow from its
\* steps and no step depends on them.
Admits == /\ Handled
          /\ user.kind = "SESSION_START"
          /\ SlotFor(user.src, user.id) # {}
AgeAfter ==
  IF Admits THEN [age EXCEPT ![First(SlotFor(user.src, user.id))] = 0]
  ELSE IF UpdateAndReturn
       THEN [s \in Slot |-> IF Pruned[s] = Free THEN 0
                            ELSE IF age[s] < MaxAge THEN age[s] + 1 ELSE MaxAge]
       ELSE age
AgedInit == Init /\ age = [s \in Slot |-> 0]
AgedNext == Next /\ age' = AgeAfter
AgedSpec == AgedInit /\ [][AgedNext]_<<vars, age>>

LEMMA AgedStep == [AgedNext]_<<vars, age>> => [LifeNext]_lifeVars
<1> SUFFICES ASSUME [AgedNext]_<<vars, age>> PROVE [LifeNext]_lifeVars
  OBVIOUS
<1>1. CASE UNCHANGED <<vars, age>>
  BY <1>1 DEF vars, lifeVars
<1>2. ASSUME Next, age' = AgeAfter, Admits PROVE LifeNext
  <2>1. user.src \in Macs /\ user.id \in SessionIds
    BY <1>2, ServerAssumption DEF Admits, Handled, Wipe
  <2>2. session_mgr_start(user.src, user.id)
    BY <1>2 DEF Admits, Handled, handle_ping, handle_status_req, KeysDone
  <2>3. StartReceived(user.src, user.id)
    BY <1>2, <2>2 DEF AgeAfter, StartReceived
  <2> QED BY <2>1, <2>3 DEF LifeNext
<1>3. ASSUME Next, age' = AgeAfter, ~Admits, UpdateAndReturn PROVE LifeNext
  BY <1>3 DEF AgeAfter, UpdateAndReturn, TickPasses, LifeNext
<1>4. ASSUME Next, age' = AgeAfter, ~Admits, ~UpdateAndReturn PROVE [LifeNext]_lifeVars
  <2>1. UNCHANGED age
    BY <1>4 DEF AgeAfter
  <2>2. CASE UNCHANGED sessionVars
    BY <2>1, <2>2 DEF lifeVars
  <2>3. ASSUME NEW c \in Writable, NEW w \in Word, Draw(c, w) PROVE LifeNext
    BY <2>1, <2>3 DEF Draw, ScreenChanges, LifeNext
  <2>4. ASSUME NEW m \in Modes, ChangeMode(m) PROVE LifeNext
    BY <2>1, <2>4 DEF ChangeMode, ScreenChanges, LifeNext
  <2>5. CASE Handled
    <3>1. UNCHANGED sessionVars
      BY <1>4, <2>5 DEF Admits, Handled, session_mgr_start
    <3> QED BY <2>2, <3>1
  <2> QED
    BY <1>4, <2>2, <2>3, <2>4, <2>5 DEF Next, FirstCall, SecondCall, int08_isr,
       buffer_get_ready, InjectKey, buffer_release, ReadKey, TypeLocally
<1> QED BY <1>1, <1>2, <1>3, <1>4 DEF AgedNext

\* The whole server keeps the promise of Lease, which is all its clients rely
\* on: however many frames and keystrokes come in between, a session is given,
\* refreshed and kept for its lifetime, and only midnight lets one outlive it.
THEOREM ServerKeepsPromise ==
  AgedSpec => KeepsPromise /\ LiveKept /\ []OnlyMidnightSurvives
<1>1. AgedInit => LifeInit
  BY DEF AgedInit, Init, LifeInit
<1>2. AgedSpec => LifeSpec
  BY <1>1, AgedStep, PTL DEF AgedSpec, LifeSpec
<1> QED BY <1>2, KeepsPromiseAlways, LiveKeptAlways, OnlyMidnight, PTL

=============================================================================
