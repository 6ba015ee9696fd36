------------------------------ MODULE Session -------------------------------
(***************************************************************************)
(* The session manager of the resident server (server/session.c): a fixed  *)
(* table of sessions, refreshed by V1_SESSION_START packets, pruned by the *)
(* BIOS tick clock, and the streaming of the text screen to all of them,   *)
(* some rows per timer tick, gated by a checksum of the frame buffer.      *)
(*                                                                         *)
(* Both entry points run inside the timer interrupt, so each is one step;  *)
(* between two interrupts the DOS program may write to the frame buffer    *)
(* or change the video mode.  A frame-buffer cell is one 16-bit word, and  *)
(* offsets count words.                                                    *)
(***************************************************************************)
EXTENDS Integers, FiniteSets

CONSTANTS
  MAX_SESSIONS,  \* slots of the table: 4
  Macs,          \* hardware addresses of clients
  NullMac,       \* the all-zero address of an unused slot
  SessionIds,    \* ids the clients pick
  Lifetime,      \* session_lifetime_bios_ticks: 182, about ten seconds
  TicksPerDay,   \* the BIOS clock runs from 0 to TicksPerDay - 1: 16r1800B0
  Modes,         \* text modes, [rows, cols]
  FbWords,       \* words of video memory
  Word,          \* contents of a cell: attribute * 256 + character
  Writable,      \* the cells the DOS program writes to
  FrameRoom      \* bytes of video data an Ethernet frame has room for: 1480

Slot == 1..MAX_SESSIONS
Cell == 0..(FbWords - 1)
Tick == 0..(TicksPerDay - 1)
uint16_t == 0..65535

ASSUME SessionAssumption ==
  /\ MAX_SESSIONS \in Nat \ {0}
  /\ NullMac \notin Macs
  /\ SessionIds \subseteq Nat
  /\ Lifetime \in Nat /\ TicksPerDay \in Nat \ {0, 1}

ASSUME ScreenAssumption ==
  /\ FbWords \in Nat /\ FrameRoom \in Nat
  /\ Word \subseteq uint16_t /\ Writable \subseteq Cell
  /\ \A m \in Modes :
       /\ m.rows \in Nat \ {0} /\ m.cols \in Nat \ {0}
       /\ 2 * m.rows * m.cols <= FbWords
       /\ 2 * m.cols <= FrameRoom

VARIABLES
  g_sessions,     \* [Slot -> [mac, id, t]], t is t_last_recv
  video_next_row, \* first row of the next packet
  video_chksum,   \* checksum of the screen last found changed
  clock,          \* the BIOS tick count at 0040:006c
  mode,           \* the current text mode
  fb,             \* the frame buffer
  out             \* the V1_VGA_TEXT packets of the latest timer interrupt

sessionVars == <<g_sessions, video_next_row, video_chksum, clock, mode, fb, out>>

Free == [mac |-> NullMac, id |-> 0, t |-> 0]    \* a slot after memset
InUse(tab) == {s \in Slot : tab[s].mac # NullMac}

SessionInit ==
  /\ g_sessions = [s \in Slot |-> Free]
  /\ video_next_row = 0
  /\ video_chksum = 0
  /\ clock \in Tick
  /\ mode \in Modes
  /\ fb \in {[c \in Cell |-> w] : w \in Word}
  /\ out = {}

-----------------------------------------------------------------------------
(* V1_SESSION_START.                                                       *)

\* The slots session_mgr_find would stop at; it returns the first.
session_mgr_find(mac, id) ==
  {s \in Slot : g_sessions[s].mac = mac /\ g_sessions[s].id = id}

First(S) == CHOOSE s \in S : \A x \in S : s <= x

\* SlotFor if a start did not look for the client's own session first.
MutSlotFor(mac, id) == session_mgr_find(NullMac, 0)

\* The slot a start is about: the client's own, else an unused one.
SlotFor(mac, id) == LET own == session_mgr_find(mac, id) IN
                    IF own # {} THEN own ELSE session_mgr_find(NullMac, 0)

\* Refresh the client's session, or admit it.  With a full table the packet
\* is ignored: no step.
session_mgr_start(mac, id) ==
  /\ SlotFor(mac, id) # {}
  /\ g_sessions' = [g_sessions EXCEPT ![First(SlotFor(mac, id))] =
                      [mac |-> mac, id |-> id, t |-> clock]]
  /\ UNCHANGED <<video_next_row, video_chksum, clock, mode, fb, out>>

-----------------------------------------------------------------------------
(* The timer tick.                                                         *)

\* Stale if a session were reclaimed in the last tick of its lifetime ...
MutStaleEarly(s) == s \in InUse(g_sessions) /\ g_sessions[s].t + Lifetime <= clock
\* ... or one tick late.
MutStaleLate(s) == s \in InUse(g_sessions) /\ g_sessions[s].t + Lifetime + 1 < clock

\* The comparison of session_mgr_update_all, in 32-bit arithmetic that
\* TicksPerDay + Lifetime cannot overflow.
Stale(s) == s \in InUse(g_sessions) /\ g_sessions[s].t + Lifetime < clock

\* The table after session_mgr_reclaim of every stale session.
Pruned == [s \in Slot |-> IF Stale(s) THEN Free ELSE g_sessions[s]]

\* Swapping, if it lost the low byte.
MutSwapBytes(w) == w \div 256

\* The checksum adds byte-swapped words and rotates left after each.
SwapBytes(w) == (w % 256) * 256 + (w \div 256)
MutRol1(x) == 2 * x + (x \div 32768)      \* a shift that keeps the carry
Rol1(x) == ((2 * x) % 65536) + (x \div 32768)
Add16(x, y) == (x + y) % 65536
AddWord(sum, w) == Rol1(Add16(sum, SwapBytes(w)))
video_checksum_frame_buffer(buf, words) ==
  LET sum[i \in 0..words] == IF i = 0 THEN 0 ELSE AddWord(sum[i - 1], buf[i - 1])
  IN  sum[words]

\* text_rows * text_cols * VIDEO_WORD is passed as a count of words: the sum
\* covers twice the visible screen.
SumWords == mode.rows * mode.cols * 2
ScreenSum == video_checksum_frame_buffer(fb, SumWords)

\* Wrap around, also when a mode change made the screen shorter.
NextRow == IF video_next_row >= mode.rows THEN 0 ELSE video_next_row

\* PacketRows without the clip at the end of the screen.
MutPacketRows == FrameRoom \div (mode.cols * 2)

\* Rows that fit into one frame, clipped at the end of the screen.
PacketRows == LET fit == FrameRoom \div (mode.cols * 2) IN
              IF fit + NextRow > mode.rows THEN mode.rows - NextRow ELSE fit

\* The packet a session gets: the cells from offset on.
Packet(ses, offset, count) ==
  [to |-> ses.mac, id |-> ses.id, offset |-> offset, count |-> count,
   cells |-> [i \in offset..(offset + count - 1) |-> fb[i]]]

\* No session is left: nothing to send, and the next one starts at row 0.
NobodyListens ==
  /\ InUse(Pruned) = {}
  /\ video_next_row' = 0
  /\ out' = {}
  /\ UNCHANGED video_chksum

\* At the top of the screen, and its checksum is that of the last round.
NothingNew ==
  /\ InUse(Pruned) # {}
  /\ NextRow = 0
  /\ ScreenSum = video_chksum
  /\ video_next_row' = 0
  /\ out' = {}
  /\ UNCHANGED video_chksum

\* SendRows if it sent to unused slots too, ...
MutSendToAll ==
  /\ InUse(Pruned) # {}
  /\ NextRow = 0 => ScreenSum # video_chksum
  /\ video_chksum' = IF NextRow = 0 THEN ScreenSum ELSE video_chksum
  /\ video_next_row' = NextRow + PacketRows
  /\ out' = {Packet(Pruned[s], NextRow * mode.cols, PacketRows * mode.cols) :
               s \in Slot}

\* ... if it skipped a row between two packets, ...
MutSendSkips ==
  /\ InUse(Pruned) # {}
  /\ NextRow = 0 => ScreenSum # video_chksum
  /\ video_chksum' = IF NextRow = 0 THEN ScreenSum ELSE video_chksum
  /\ video_next_row' = NextRow + PacketRows + 1
  /\ out' = {Packet(Pruned[s], NextRow * mode.cols, PacketRows * mode.cols) :
               s \in InUse(Pruned)}

\* ... if it did not store the new checksum.
MutSendForgets ==
  /\ InUse(Pruned) # {}
  /\ NextRow = 0 => ScreenSum # video_chksum
  /\ UNCHANGED video_chksum
  /\ video_next_row' = NextRow + PacketRows
  /\ out' = {Packet(Pruned[s], NextRow * mode.cols, PacketRows * mode.cols) :
               s \in InUse(Pruned)}

\* Send the next rows to every session.
SendRows ==
  /\ InUse(Pruned) # {}
  /\ NextRow = 0 => ScreenSum # video_chksum
  /\ video_chksum' = IF NextRow = 0 THEN ScreenSum ELSE video_chksum
  /\ video_next_row' = NextRow + PacketRows
  /\ out' = {Packet(Pruned[s], NextRow * mode.cols, PacketRows * mode.cols) :
               s \in InUse(Pruned)}

\* The interrupt: prune, stream, and chain to the BIOS, which advances the
\* clock and starts the count again at midnight.
session_mgr_update_all ==
  /\ g_sessions' = Pruned
  /\ NobodyListens \/ NothingNew \/ SendRows
  /\ clock' = (clock + 1) % TicksPerDay
  /\ UNCHANGED <<mode, fb>>

-----------------------------------------------------------------------------
(* The DOS program in the foreground.                                      *)

WriteCell(c, w) ==
  /\ fb[c] # w
  /\ fb' = [fb EXCEPT ![c] = w]
  /\ UNCHANGED <<g_sessions, video_next_row, video_chksum, clock, mode, out>>

SetMode(m) ==
  /\ mode # m
  /\ mode' = m
  /\ UNCHANGED <<g_sessions, video_next_row, video_chksum, clock, fb, out>>

SessionNext ==
  \/ \E mac \in Macs, id \in SessionIds : session_mgr_start(mac, id)
  \/ session_mgr_update_all
  \/ \E c \in Writable, w \in Word : WriteCell(c, w)
  \/ \E m \in Modes : SetMode(m)

SessionSpec == SessionInit /\ [][SessionNext]_sessionVars

-----------------------------------------------------------------------------
(* Properties.                                                             *)

SessionTypeOK ==
  /\ g_sessions \in [Slot -> [mac : Macs \cup {NullMac},
                              id  : SessionIds \cup {0},
                              t   : Tick]]
  /\ video_next_row \in Nat
  /\ video_chksum \in uint16_t
  /\ clock \in Tick
  /\ mode \in Modes
  /\ fb \in [Cell -> Word]
  /\ \A p \in out : /\ p.to \in Macs /\ p.id \in SessionIds
                    /\ p.cells \in [p.offset..(p.offset + p.count - 1) -> Word]

(***************************************************************************)
(* A client has at most one session, however its starts and the pruning    *)
(* interleave, so it gets each packet once; and an unused slot is entirely *)
(* zero, or session_mgr_find(null, 0) would never give it out again.       *)
(***************************************************************************)
OneSessionEach ==
  /\ \A s1, s2 \in InUse(g_sessions) :
       /\ g_sessions[s1].mac = g_sessions[s2].mac
       /\ g_sessions[s1].id = g_sessions[s2].id
       => s1 = s2
  /\ \A s \in Slot \ InUse(g_sessions) : g_sessions[s] = Free

(***************************************************************************)
(* Whatever mode changes happen between the packets of a round, a packet   *)
(* fits an Ethernet frame, carries at least one row, whole rows, and no    *)
(* row beyond the screen of the moment it is sent.                         *)
(***************************************************************************)
PacketsFitStep ==
  clock' # clock => \A p \in out' :
    /\ 2 * p.count <= FrameRoom
    /\ p.count > 0
    /\ p.offset % mode.cols = 0 /\ p.count % mode.cols = 0
    /\ p.offset + p.count <= mode.rows * mode.cols
PacketsFit == [][PacketsFitStep]_sessionVars

(***************************************************************************)
(* One write of the program to the screen always changes its 16-bit sum,   *)
(* whatever else the screen shows: only several can cancel out, so a       *)
(* screen at rest that is written to is sent again.                        *)
(***************************************************************************)
WriteNoticedStep ==
  (\E c \in 0..(SumWords - 1) : fb'[c] # fb[c]) => ScreenSum' # ScreenSum
WriteNoticed == [][WriteNoticedStep]_sessionVars

(***************************************************************************)
(* The stream ends.  Left to send are the rest of the present round, and   *)
(* one more if this one began before the last change.  While the program   *)
(* leaves the screen alone no start or expiry of a session adds to this,   *)
(* and every interrupt that sends takes from it: after the last write the  *)
(* server sends in fewer than 2 * mode.rows ticks.                         *)
(***************************************************************************)
RowsLeft == (IF NextRow = 0 THEN 0 ELSE mode.rows - NextRow)
            + (IF ScreenSum = video_chksum THEN 0 ELSE mode.rows)
SendingEndsStep ==
  UNCHANGED <<fb, mode>> =>
    /\ RowsLeft' <= RowsLeft
    /\ clock' # clock /\ out' # {} => RowsLeft' < RowsLeft
SendingEnds == [][SendingEndsStep]_sessionVars

=============================================================================
