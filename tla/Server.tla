------------------------------- MODULE Server -------------------------------
(***************************************************************************)
(* The resident server at work: the timer interrupt (int08_handler) takes  *)
(* the frames the NIC interrupt has left in the buffer pool, answers them  *)
(* or types their keystrokes (server/protocol.c), then lets the session    *)
(* manager stream the screen.  The pool is BufPool, which Bufmgr is shown  *)
(* to implement; the sessions are those of Session.                        *)
(*                                                                         *)
(* All packets leave through the one g_send_buffer.  Its payload is cut    *)
(* into zones: 1 is as long as a StatusResponse, 2 reaches to the 60 bytes *)
(* of the shortest Ethernet frame, 3 is the rest.  A zone is described by  *)
(* where the bytes in it come from; the empty set means zeros.             *)
(***************************************************************************)
EXTENDS BufPool, Session, Sequences

CONSTANTS
  KBD_ROOM,    \* keys the BIOS keyboard buffer holds: 15
  Keys,        \* keystrokes, [code, flags_17]
  LocalKeys,   \* those typed on the server's own keyboard
  NoReply      \* "no reply has been sent"

Zone == 1..3
StatusZone == 1
MinFrameZone == 2       \* MIN_ETH_FRAME_SIZE

Kinds == {"PING", "STATUS_REQ", "SESSION_START", "INJECT_KEYSTROKE", "IGNORED"}
Replies == {"PONG", "STATUS_RESP"}

\* A received frame.  "IGNORED" is a foreign signature or an unknown type;
\* bytes (what the driver delivered, a runt included) and payload_len (what the
\* header says) are zones, and need not agree.  keys are the keystrokes that
\* payload_len counts, wherever the frame ends.
ASSUME ServerAssumption ==
  /\ Frames \subseteq [kind : Kinds, src : Macs, id : SessionIds,
                       bytes : Zone, payload_len : 0..3,
                       keys : Seq(Keys)]
  /\ KBD_ROOM \in Nat \ {0}
  /\ LocalKeys \subseteq Keys
  /\ \A k \in Keys : k.flags_17 \in 0..15

VARIABLES
  inTick,         \* between int08_isr and the jump to the BIOS handler
  g_send_buffer,  \* [to, id, payload]
  wire,           \* the latest reply handed to the driver
  owed,           \* requests delivered minus replies sent, per requester
  kbd,            \* the BIOS keyboard buffer, oldest key first
  shift,          \* low nibble of the BIOS keyboard flags at 0040:0017
  keyNo,          \* keystrokes of the present frame already tried
  kept            \* ... and those of them the BIOS took

serverVars == <<inTick, g_send_buffer, wire, owed, kbd, shift, keyNo, kept>>
keyVars == <<kbd, shift, keyNo, kept>>
vars == <<poolVars, sessionVars, serverVars>>

Requesters == Macs \X SessionIds \X Replies

Init ==
  /\ PoolInit
  /\ SessionInit
  /\ inTick = FALSE
  /\ g_send_buffer = [to |-> NullMac, id |-> 0, payload |-> [z \in Zone |-> {}]]
  /\ wire = NoReply
  /\ owed = [r \in Requesters |-> 0]
  /\ kbd = <<>> /\ shift = 0
  /\ keyNo = 0 /\ kept = <<>>

-----------------------------------------------------------------------------
(* The NIC interrupt, at any moment.                                       *)

Asks(f, r) == /\ r[1] = f.src /\ r[2] = f.id
              /\ \/ f.kind = "PING" /\ r[3] = "PONG"
                 \/ f.kind = "STATUS_REQ" /\ r[3] = "STATUS_RESP"

FirstCall == Grant /\ UNCHANGED <<sessionVars, serverVars>>

SecondCall(f) ==
  /\ Deliver(f)
  /\ owed' = [r \in Requesters |-> IF Asks(f, r) THEN owed[r] + 1 ELSE owed[r]]
  /\ UNCHANGED <<sessionVars, inTick, g_send_buffer, wire, keyVars>>

-----------------------------------------------------------------------------
(* Replies.                                                                *)

\* prep_for_reply if it did not clear the rest of the packet.
MutPrep(f) == [to |-> f.src, id |-> f.id, payload |-> g_send_buffer.payload]

\* Addressed to the sender, with its session id, and otherwise blank.
prep_for_reply(f) == [to |-> f.src, id |-> f.id, payload |-> [z \in Zone |-> {}]]

\* What the driver is given of the send buffer b: never less than 60 bytes.
pktdrv_send(b, type, length) ==
  LET sent == IF length > MinFrameZone THEN length ELSE MinFrameZone IN
  /\ wire' = [type |-> type, to |-> b.to, id |-> b.id,
              carries |-> UNION {b.payload[z] : z \in 1..sent}]
  /\ owed' = [owed EXCEPT ![<<b.to, b.id, type>>] = @ - 1]

\* The payload is echoed, as far as payload_len says; where the frame was
\* shorter than that, its buffer is still blank.  The echo has the length of
\* the frame.
handle_ping(f) ==
  /\ f.kind = "PING"
  /\ g_send_buffer' =
       [prep_for_reply(f) EXCEPT !.payload =
          [z \in Zone |-> IF z <= f.payload_len
                          THEN IF z <= f.bytes THEN {f.src} ELSE {}
                          ELSE @[z]]]
  /\ pktdrv_send(g_send_buffer', "PONG", f.bytes)

handle_status_req(f) ==
  /\ f.kind = "STATUS_REQ"
  /\ g_send_buffer' = [prep_for_reply(f) EXCEPT !.payload[StatusZone] = {"status"}]
  /\ pktdrv_send(g_send_buffer', "STATUS_RESP", StatusZone)

-----------------------------------------------------------------------------
(* Keystrokes.                                                             *)

\* x86_inject_keystroke: the flags are set first; int 16h, AH=05 takes the
\* key unless the buffer is full, and its answer is not looked at.
MutKey(f) == f.keys[Len(f.keys) - keyNo]      \* from the last to the first
Key(f) == f.keys[keyNo + 1]                   \* *in_keys

InjectKey ==
  /\ user \in Frames
  /\ user.kind = "INJECT_KEYSTROKE"
  /\ keyNo < Len(user.keys)                \* key_count
  /\ LET k == Key(user) IN
     /\ shift' = k.flags_17
     /\ \/ /\ Len(kbd) < KBD_ROOM
           /\ kbd' = Append(kbd, k)
           /\ kept' = Append(kept, k)
        \/ /\ Len(kbd) = KBD_ROOM
           /\ UNCHANGED <<kbd, kept>>
  /\ keyNo' = keyNo + 1
  /\ UNCHANGED <<poolVars, sessionVars, inTick, g_send_buffer, wire, owed>>

KeysDone(f) ==
  /\ f.kind = "INJECT_KEYSTROKE"
  /\ keyNo = Len(f.keys)
  /\ keyNo' = 0 /\ kept' = <<>>
  /\ UNCHANGED <<kbd, shift>>

-----------------------------------------------------------------------------
(* The timer interrupt.                                                    *)

int08_isr ==
  /\ ~inTick
  /\ inTick' = TRUE
  /\ UNCHANGED <<poolVars, sessionVars, g_send_buffer, wire, owed, keyVars>>

buffer_get_ready ==
  /\ inTick
  /\ Take
  /\ UNCHANGED <<sessionVars, serverVars>>

\* One frame dealt with; its buffer is wiped as soon as its handler returns.
Handled ==
  /\ Wipe
  /\ \/ /\ handle_ping(user) \/ handle_status_req(user)
        /\ UNCHANGED <<sessionVars, keyVars>>
     \/ /\ user.kind = "SESSION_START"
        /\ \/ session_mgr_start(user.src, user.id)
           \/ SlotFor(user.src, user.id) = {} /\ UNCHANGED sessionVars
        /\ UNCHANGED <<g_send_buffer, wire, owed, keyVars>>
     \/ /\ KeysDone(user)
        /\ UNCHANGED <<sessionVars, g_send_buffer, wire, owed>>
     \/ /\ user.kind = "IGNORED"
        /\ UNCHANGED <<sessionVars, g_send_buffer, wire, owed, keyVars>>
  /\ UNCHANGED inTick

buffer_release == Recycle /\ UNCHANGED <<sessionVars, serverVars>>

\* The session manager fills the same buffer.  A short packet leaves the end
\* of what was there before.
StreamBuffer ==
  \/ /\ out' = {}
     /\ UNCHANGED g_send_buffer
  \/ \E p \in out' :
       g_send_buffer' =
         [to |-> p.to, id |-> p.id,
          payload |-> [z \in Zone |->
             IF z <= MinFrameZone THEN {"text"}
                                  ELSE g_send_buffer.payload[z] \cup {"text"}]]

\* No frame is left: stream the screen and jump to the BIOS.
UpdateAndReturn ==
  /\ inTick
  /\ user = NoFrame
  /\ ready = <<>>
  /\ session_mgr_update_all
  /\ StreamBuffer
  /\ inTick' = FALSE
  /\ UNCHANGED <<poolVars, wire, owed, keyVars>>

-----------------------------------------------------------------------------
(* The server's own user: the DOS program waits while the timer interrupt  *)
(* runs, the keyboard interrupt may not.                                   *)

ReadKey ==
  /\ ~inTick
  /\ kbd # <<>>
  /\ kbd' = Tail(kbd)
  /\ UNCHANGED <<poolVars, sessionVars, inTick, g_send_buffer, wire, owed,
                 shift, keyNo, kept>>

TypeLocally(k) ==
  /\ Len(kbd) < KBD_ROOM
  /\ kbd' = Append(kbd, k)
  /\ shift' = k.flags_17
  /\ UNCHANGED <<poolVars, sessionVars, inTick, g_send_buffer, wire, owed,
                 keyNo, kept>>

Draw(c, w) == ~inTick /\ WriteCell(c, w) /\ UNCHANGED <<poolVars, serverVars>>
ChangeMode(m) == ~inTick /\ SetMode(m) /\ UNCHANGED <<poolVars, serverVars>>

Next == \/ FirstCall
        \/ \E f \in Frames : SecondCall(f)
        \/ int08_isr \/ buffer_get_ready \/ InjectKey \/ Handled
        \/ buffer_release \/ UpdateAndReturn
        \/ ReadKey
        \/ \E k \in LocalKeys : TypeLocally(k)
        \/ \E c \in Writable, w \in Word : Draw(c, w)
        \/ \E m \in Modes : ChangeMode(m)

Spec == Init /\ [][Next]_vars

-----------------------------------------------------------------------------
(* Properties.                                                             *)

ServerTypeOK ==
  /\ PoolTypeOK
  /\ SessionTypeOK
  /\ inTick \in BOOLEAN
  /\ g_send_buffer \in [to : Macs \cup {NullMac}, id : SessionIds \cup {0},
                        payload : [Zone -> SUBSET (Macs \cup {"status", "text"})]]
  /\ \/ wire = NoReply
     \/ wire \in [type : Replies, to : Macs, id : SessionIds,
                  carries : SUBSET (Macs \cup {"status", "text"})]
  /\ owed \in [Requesters -> Int]
  /\ kbd \in Seq(Keys) /\ Len(kbd) <= KBD_ROOM
  /\ shift \in 0..15
  /\ keyNo \in Nat
  /\ kept \in Seq(Keys)

(***************************************************************************)
(* Every ping and status request is answered exactly once, to its sender   *)
(* and under the sender's session id, in whatever order frames arrive      *)
(* while others are being answered: what is owed to a client is what still *)
(* waits in the pool.                                                      *)
(***************************************************************************)
Waiting(r) == Cardinality({i \in 1..Len(ready) : Asks(ready[i], r)})
              + IF user \in Frames /\ Asks(user, r) THEN 1 ELSE 0
AnsweredOnce == \A r \in Requesters : owed[r] = Waiting(r)

(***************************************************************************)
(* The send buffer is shared by all replies and the screen stream, and     *)
(* short replies are padded to 60 bytes out of it: still no reply carries  *)
(* bytes of another packet.                                                *)
(***************************************************************************)
CleanReplies ==
  wire # NoReply => wire.carries \subseteq
                      (IF wire.type = "PONG" THEN {wire.to} ELSE {"status"})

(***************************************************************************)
(* When the BIOS buffer runs full, keystrokes are lost silently; but since *)
(* the DOS program cannot read in between, what is lost is the end of the  *)
(* frame: never a key out of its middle, and never their order, even if    *)
(* somebody types on the server's own keyboard meanwhile.                  *)
(***************************************************************************)
Within(s, q) ==           \* s is a subsequence of q
  \E at \in [1..Len(s) -> 1..Len(q)] :
    /\ \A i \in 1..Len(s) : q[at[i]] = s[i]
    /\ \A i, j \in 1..Len(s) : i < j => at[i] < at[j]
Prefix(s, q) == Len(s) <= Len(q) /\ \A i \in 1..Len(s) : s[i] = q[i]
KeysWhole ==
  user \in Frames /\ keyNo > 0 =>
    /\ Prefix(kept, user.keys)
    /\ Len(kept) < keyNo => Len(kbd) = KBD_ROOM
    /\ Within(kept, kbd)

=============================================================================
