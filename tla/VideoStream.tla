---------------------------- MODULE VideoStream ----------------------------
(***************************************************************************)
(* The screen as the clients see it.  Each tick's V1_VGA_TEXT packets      *)
(* cross a network that may lose them, and what arrives is copied into the *)
(* client's copy of the frame buffer (client/main.c,                       *)
(* process_incoming_video_text).  "round" is not part of the program: it   *)
(* records the latest pass over the screen.                                *)
(***************************************************************************)
EXTENDS Session

CONSTANTS Unseen,       \* a cell of which nothing has arrived yet
          Lossy         \* whether the network may lose packets

ASSUME StreamAssumption == Unseen \notin Word /\ Lossy \in BOOLEAN

VARIABLES view,         \* [Client -> [Cell -> what the client shows]]
          round         \* the current pass over the screen:
                        \*   rows   how many rows it has sent
                        \*   still  nothing has changed since it began
                        \*   got    clients that got all its packets

streamVars == <<sessionVars, view, round>>

Client == [mac : Macs, id : SessionIds]

StreamInit ==
  /\ SessionInit
  /\ view = [c \in Client |-> [x \in Cell |-> Unseen]]
  /\ round = [rows |-> 0, still |-> FALSE, got |-> {}]

\* The filters of process_socket_io: our address and our session id.
For(c, p) == p.to = c.mac /\ p.id = c.id

\* The copy into video_text_buffer.
process_incoming_video_text(c, pkts) ==
  [x \in Cell |->
    IF \E p \in pkts : For(c, p) /\ x \in DOMAIN p.cells
    THEN (CHOOSE p \in pkts : For(c, p) /\ x \in DOMAIN p.cells).cells[x]
    ELSE view[c][x]]

Receivers(pkts) == {c \in Client : \E p \in pkts : For(c, p)}

\* The rows of a round: a packet that starts at the top begins a new one.
RoundAfter(pkts) ==
  IF out' = {} THEN round
  ELSE IF NextRow = 0
  THEN [rows |-> video_next_row', still |-> TRUE, got |-> Receivers(pkts)]
  ELSE [round EXCEPT !.rows = video_next_row', !.got = @ \cap Receivers(pkts)]

TickAndDeliver ==
  /\ session_mgr_update_all
  /\ \E pkts \in IF Lossy THEN SUBSET out' ELSE {out'} :
       /\ view' = [c \in Client |-> process_incoming_video_text(c, pkts)]
       /\ round' = RoundAfter(pkts)

StreamStart(mac, id) == session_mgr_start(mac, id) /\ UNCHANGED <<view, round>>

StreamWrite(c, w) ==
  WriteCell(c, w) /\ round' = [round EXCEPT !.still = FALSE] /\ UNCHANGED view

StreamSetMode(m) ==
  SetMode(m) /\ round' = [round EXCEPT !.still = FALSE] /\ UNCHANGED view

ProgramStep == \/ \E c \in Writable, w \in Word : StreamWrite(c, w)
               \/ \E m \in Modes : StreamSetMode(m)

StreamNext ==
  \/ TickAndDeliver
  \/ \E mac \in Macs, id \in SessionIds : StreamStart(mac, id)
  \/ ProgramStep

StreamSpec == StreamInit /\ [][StreamNext]_streamVars

\* The timer interrupt is the only thing that is certain to happen.
StreamFairSpec == StreamSpec /\ WF_streamVars(TickAndDeliver)

-----------------------------------------------------------------------------

(***************************************************************************)
(* The rows of a round join up: a client that got every packet of a round  *)
(* during which nothing changed shows exactly the screen, as far as the    *)
(* round has come, and all of it when the round is complete, whatever      *)
(* other sessions came or went and whatever older packets it had lost      *)
(* (the bookkeeping of video_next_row, offset and word_count).             *)
(***************************************************************************)
RoundDelivers ==
  round.still =>
    \A c \in round.got : \A x \in 0..(round.rows * mode.cols - 1) : view[c][x] = fb[x]

(***************************************************************************)
(* The checksum gate closes: when the program leaves the screen alone, the *)
(* server stops sending after at most one more round, whichever sessions   *)
(* start or end, and stays silent.                                         *)
(***************************************************************************)
FallsSilent == <>[][~ProgramStep]_streamVars => <>[](out = {})

(***************************************************************************)
(* protocol.h on V1_SESSION_START: "Server will start sending VGA text     *)
(* frames."  The checksum is one for all sessions, so a client that starts *)
(* while the screen is at rest is sent nothing.                            *)
(***************************************************************************)
HasSession(c) ==
  \E s \in Slot : g_sessions[s].mac = c.mac /\ g_sessions[s].id = c.id
StartedClientServed ==
  \A c \in Client :
    HasSession(c) ~> (~HasSession(c) \/ \E x \in Cell : view[c][x] # Unseen)

(***************************************************************************)
(* session.c where the checksums agree: "No changes to the video frame     *)
(* buffer.  Don't send anything."  So a client that got the whole latest   *)
(* round shows the screen.  It does not if the screen changed during the   *)
(* round and back again before its end, or has changed to one with the     *)
(* same 16-bit sum.                                                        *)
(***************************************************************************)
Shows(c) == \A x \in 0..(mode.rows * mode.cols - 1) : view[c][x] = fb[x]
SkippedTick == clock' # clock /\ InUse(Pruned) # {} /\ out' = {}
SkipMeansUnchanged ==
  [][SkippedTick /\ round.rows >= mode.rows =>
       \A c \in round.got : Shows(c)]_streamVars

=============================================================================
