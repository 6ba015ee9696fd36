---------------------------- MODULE VideoProofs ----------------------------
(***************************************************************************)
(* What a client that got all packets of a round can rely on, for every    *)
(* set of text modes, number of sessions and pattern of lost packets.      *)
(***************************************************************************)
EXTENDS VideoStream, SessionProofs

LEMMA StreamIsSession == StreamSpec => SessionSpec
<1>1. StreamInit => SessionInit
  BY DEF StreamInit
<1>2. [StreamNext]_streamVars => [SessionNext]_sessionVars
  BY DEF StreamNext, StreamStart, TickAndDeliver, ProgramStep, StreamWrite, StreamSetMode,
     SessionNext, streamVars
<1> QED BY <1>1, <1>2, PTL DEF StreamSpec, SessionSpec

-----------------------------------------------------------------------------
(* Rounds.                                                                 *)

RoundTypeOK ==
  /\ RowsOK
  /\ round \in [rows : Nat, still : BOOLEAN, got : SUBSET Client]
  /\ view \in [Client -> [Cell -> Word \cup {Unseen}]]
  /\ fb \in [Cell -> Word]

\* The server goes on where the round is, or starts over.
InStep ==
  round.still => /\ (video_next_row = 0 \/ video_next_row = round.rows)
                 /\ round.rows <= mode.rows

RoundInv == RoundTypeOK /\ InStep /\ RoundDelivers

LEMMA RoundInit == StreamInit => RoundInv
<1> SUFFICES ASSUME StreamInit PROVE RoundInv
  OBVIOUS
<1> USE DEF StreamInit, SessionInit
<1>1. RowsOK
  BY DEF RowsOK
<1>2. fb \in [Cell -> Word]
  OBVIOUS
<1>3. view \in [Client -> [Cell -> Word \cup {Unseen}]]
  OBVIOUS
<1>4. round \in [rows : Nat, still : BOOLEAN, got : SUBSET Client] /\ ~round.still
  OBVIOUS
<1> QED BY <1>1, <1>2, <1>3, <1>4 DEF RoundInv, RoundTypeOK, InStep, RoundDelivers

\* What a client shows after a tick.
LEMMA Copies ==
  ASSUME RowsOK, fb \in [Cell -> Word], NEW c \in Client,
         view[c] \in [Cell -> Word \cup {Unseen}],
         NEW pkts, \A p \in pkts : IsPacket(p)
  PROVE  LET lo == NextRow * mode.cols
             hi == (NextRow + PacketRows) * mode.cols
             shown == process_incoming_video_text(c, pkts)
         IN  /\ shown \in [Cell -> Word \cup {Unseen}]
             /\ \A x \in Cell : \/ shown[x] = view[c][x]
                                \/ x \in lo..(hi - 1) /\ shown[x] = fb[x]
             /\ c \in Receivers(pkts) =>
                  \A x \in Cell : x \in lo..(hi - 1) => shown[x] = fb[x]
<1> DEFINE lo == NextRow * mode.cols
           hi == (NextRow + PacketRows) * mode.cols
           shown == process_incoming_video_text(c, pkts)
           Has(p, x) == For(c, p) /\ x \in DOMAIN p.cells
<1>1. ASSUME NEW p \in pkts
      PROVE  DOMAIN p.cells = lo..(hi - 1) /\ \A x \in lo..(hi - 1) : p.cells[x] = fb[x]
  <2>1. IsPacket(p)
    OBVIOUS
  <2>2. /\ p.offset = lo /\ p.offset + p.count = hi
        /\ p.offset \in Nat /\ p.count \in Nat
    BY <2>1, Fits DEF IsPacket
  <2>3. p.cells = [i \in p.offset..(p.offset + p.count - 1) |-> fb[i]]
    BY <2>1 DEF IsPacket
  <2> HIDE DEF lo, hi
  <2>4. p.offset..(p.offset + p.count - 1) = lo..(hi - 1)
    BY <2>2
  <2>5. p.cells = [i \in lo..(hi - 1) |-> fb[i]]
    BY <2>3, <2>4
  <2> QED BY <2>5
<1>2. ASSUME NEW x \in Cell
      PROVE  \/ (\E p \in pkts : Has(p, x)) /\ x \in lo..(hi - 1) /\ shown[x] = fb[x]
             \/ ~ (\E p \in pkts : Has(p, x)) /\ shown[x] = view[c][x]
  <2>1. shown[x] = IF \E p \in pkts : Has(p, x)
                   THEN (CHOOSE p \in pkts : Has(p, x)).cells[x] ELSE view[c][x]
    BY DEF process_incoming_video_text
  <2>2. CASE \E p \in pkts : Has(p, x)
    <3>1. PICK q \in pkts : q = (CHOOSE p \in pkts : Has(p, x)) /\ Has(q, x)
      BY <2>2
    <3> HIDE DEF lo, hi, shown
    <3>2. x \in lo..(hi - 1)
      BY <1>1, <3>1
    <3> HIDE DEF Has
    <3> QED BY <1>1, <2>1, <2>2, <3>1, <3>2
  <2>3. CASE ~ \E p \in pkts : Has(p, x)
    <3> HIDE DEF Has, shown
    <3> QED BY <2>1, <2>3
  <2> QED BY <2>2, <2>3
<1>3. shown \in [Cell -> Word \cup {Unseen}]
  <2>1. \A x \in Cell : shown[x] \in Word \cup {Unseen}
    <3> HIDE DEF shown, Has, lo, hi
    <3> QED BY <1>2
  <2>2. shown = [x \in Cell |-> shown[x]]
    BY DEF process_incoming_video_text
  <2> HIDE DEF shown
  <2> QED BY <2>1, <2>2
<1>4. ASSUME c \in Receivers(pkts), NEW x \in Cell, x \in lo..(hi - 1)
      PROVE  shown[x] = fb[x]
  <2>1. PICK p \in pkts : For(c, p)
    BY <1>4 DEF Receivers
  <2>2. Has(p, x)
    <3> HIDE DEF lo, hi
    <3> QED BY <1>1, <1>4, <2>1
  <2> HIDE DEF shown, Has, lo, hi
  <2> QED BY <1>2, <2>2
<1> HIDE DEF shown, Has, lo, hi
<1>5. \A x \in Cell : \/ shown[x] = view[c][x]
                      \/ x \in lo..(hi - 1) /\ shown[x] = fb[x]
  BY <1>2
<1> QED BY <1>3, <1>4, <1>5 DEF shown, lo, hi

LEMMA RoundTick == RoundInv /\ TickAndDeliver => RoundInv'
<1> SUFFICES ASSUME RoundInv, TickAndDeliver PROVE RoundInv'
  OBVIOUS
<1>0. /\ RowsOK /\ fb \in [Cell -> Word] /\ view \in [Client -> [Cell -> Word \cup {Unseen}]]
      /\ round \in [rows : Nat, still : BOOLEAN, got : SUBSET Client]
  BY DEF RoundInv, RoundTypeOK
<1>1. session_mgr_update_all
  BY DEF TickAndDeliver
<1>2. PICK pkts \in SUBSET out' :
        /\ view' = [c \in Client |-> process_incoming_video_text(c, pkts)]
        /\ round' = RoundAfter(pkts)
  BY DEF TickAndDeliver
<1>3. UNCHANGED <<mode, fb>> /\ \A p \in pkts : IsPacket(p)
  BY <1>1, <1>2, SentPackets
<1>4. /\ mode.rows \in Nat \ {0} /\ NextRow \in Nat /\ PacketRows \in Nat \ {0}
      /\ NextRow + PacketRows <= mode.rows /\ mode.cols \in Nat \ {0}
      /\ (NextRow = 0 \/ NextRow = video_next_row)
  BY <1>0, RowsOfPacket
<1> DEFINE lo == NextRow * mode.cols
           hi == (NextRow + PacketRows) * mode.cols
<1>5. ASSUME NEW c \in Client
      PROVE  /\ view'[c] \in [Cell -> Word \cup {Unseen}]
             /\ \A x \in Cell : \/ view'[c][x] = view[c][x]
                                \/ x \in lo..(hi - 1) /\ view'[c][x] = fb[x]
             /\ c \in Receivers(pkts) =>
                  \A x \in Cell : x \in lo..(hi - 1) => view'[c][x] = fb[x]
  <2>1. view'[c] = process_incoming_video_text(c, pkts)
    BY <1>2
  <2>2. view[c] \in [Cell -> Word \cup {Unseen}]
    BY <1>0
  <2> QED BY <1>0, <1>3, <2>1, <2>2, Copies
<1>6. view' \in [Client -> [Cell -> Word \cup {Unseen}]]
  <2>1. view' = [c \in Client |-> view'[c]]
    BY <1>2
  <2> HIDE DEF lo, hi
  <2> QED BY <1>5, <2>1
<1>7. Receivers(pkts) \in SUBSET Client
  BY DEF Receivers
<1>8. CASE out' = {} /\ video_next_row' = 0
  <2>1. round' = round
    BY <1>2, <1>8 DEF RoundAfter
  <2>2. RoundTypeOK'
    BY <1>0, <1>3, <1>6, <1>8, <2>1 DEF RoundTypeOK, RowsOK
  <2>3. InStep'
    BY <1>3, <1>8, <2>1 DEF RoundInv, InStep
  <2>4. \A c \in Client : view'[c] = view[c]
    <3> SUFFICES ASSUME NEW c \in Client PROVE view'[c] = view[c]
      OBVIOUS
    <3>1. pkts = {}
      BY <1>8
    <3>2. view'[c] = [x \in Cell |-> view[c][x]]
      BY <1>2, <3>1 DEF process_incoming_video_text
    <3> QED BY <1>0, <3>2
  <2>5. RoundDelivers'
    BY <1>0, <1>3, <2>1, <2>4 DEF RoundInv, RoundDelivers
  <2> QED BY <2>2, <2>3, <2>5 DEF RoundInv
<1>9. CASE out' # {} /\ video_next_row' = NextRow + PacketRows
  <2>1. /\ round'.rows = NextRow + PacketRows
        /\ round' \in [rows : Nat, still : BOOLEAN, got : SUBSET Client]
        /\ round'.got \subseteq Receivers(pkts)
        /\ NextRow # 0 => round'.still = round.still /\ round'.got \subseteq round.got
    <3>1. CASE NextRow = 0
      <4>1. round' = [rows |-> video_next_row', still |-> TRUE, got |-> Receivers(pkts)]
        BY <1>2, <1>9, <3>1 DEF RoundAfter
      <4> QED BY <1>4, <1>7, <1>9, <3>1, <4>1
    <3>2. CASE NextRow # 0
      <4>1. round' = [round EXCEPT !.rows = video_next_row', !.got = @ \cap Receivers(pkts)]
        BY <1>2, <1>9, <3>2 DEF RoundAfter
      <4>2. round.rows \in Nat /\ round.still \in BOOLEAN /\ round.got \in SUBSET Client
        BY <1>0
      <4>3. round' = [rows |-> NextRow + PacketRows, still |-> round.still,
                      got |-> round.got \cap Receivers(pkts)]
        BY <1>0, <1>9, <4>1
      <4>4. NextRow + PacketRows \in Nat
        BY <1>4
      <4> QED BY <3>2, <4>2, <4>3, <4>4
    <3> QED BY <3>1, <3>2
  <2>2. RoundTypeOK'
    BY <1>0, <1>3, <1>4, <1>6, <1>9, <2>1 DEF RoundTypeOK, RowsOK
  <2>3. InStep'
    BY <1>3, <1>4, <1>9, <2>1 DEF InStep
  <2>4. ASSUME round'.still, NEW c \in round'.got, NEW x \in 0..(hi - 1)
        PROVE  view'[c][x] = fb[x]
    <3>1. c \in Client /\ c \in Receivers(pkts)
      BY <1>7, <2>1, <2>4
    <3>2. x \in Cell
      <4>1. mode \in Modes /\ NextRow + PacketRows \in Nat
        BY <1>0, <1>4 DEF RowsOK
      <4> QED BY <1>4, <4>1, OnScreenCells
    <3>3. lo \in Nat /\ hi \in Nat
      BY <1>4, Grows
    <3>4. CASE x \in lo..(hi - 1)
      <4> HIDE DEF lo, hi
      <4> QED BY <1>5, <3>1, <3>2, <3>4
    <3>5. CASE ~ (x \in lo..(hi - 1))
      <4>1. x \in 0..(lo - 1)
        <5> HIDE DEF lo, hi
        <5> QED BY <2>4, <3>3, <3>5
      <4>2. NextRow # 0
        <5>1. lo > 0
          <6> HIDE DEF lo
          <6> QED BY <3>3, <4>1
        <5>2. 0 * mode.cols = 0
          BY <1>4
        <5> QED BY <5>1, <5>2
      <4>3. round.still /\ c \in round.got
        BY <2>1, <2>4, <4>2
      <4>4. round.rows = NextRow
        BY <1>4, <4>2, <4>3 DEF RoundInv, InStep
      <4>5. view[c][x] = fb[x]
        BY <4>1, <4>3, <4>4 DEF RoundInv, RoundDelivers
      <4> HIDE DEF lo, hi
      <4> QED BY <1>5, <3>1, <3>2, <3>5, <4>5
    <3> QED BY <3>4, <3>5
  <2>5. RoundDelivers'
    BY <1>3, <2>1, <2>4 DEF RoundDelivers
  <2> QED BY <2>2, <2>3, <2>5 DEF RoundInv
<1>10. SendRows => out' # {}
  BY DEF SendRows
<1> QED BY <1>1, <1>8, <1>9, <1>10, SentPackets

LEMMA RoundStep == RoundInv /\ [StreamNext]_streamVars => RoundInv'
<1> SUFFICES ASSUME RoundInv, [StreamNext]_streamVars PROVE RoundInv'
  OBVIOUS
<1>1. CASE TickAndDeliver
  BY <1>1, RoundTick
<1>2. CASE UNCHANGED <<video_next_row, mode, fb, view, round>>
  BY <1>2 DEF RoundInv, RoundTypeOK, RowsOK, InStep, RoundDelivers
<1>3. CASE ProgramStep
  <2>0. round \in [rows : Nat, still : BOOLEAN, got : SUBSET Client]
    BY DEF RoundInv, RoundTypeOK
  <2>1. round' = [round EXCEPT !.still = FALSE] /\ view' = view
    BY <1>3 DEF ProgramStep, StreamWrite, StreamSetMode
  <2>2. ~round'.still /\ round' \in [rows : Nat, still : BOOLEAN, got : SUBSET Client]
    BY <2>0, <2>1
  <2>3. RowsOK' /\ fb' \in [Cell -> Word]
    <3>0. RowsOK /\ fb \in [Cell -> Word]
      BY DEF RoundInv, RoundTypeOK
    <3>1. ASSUME NEW c \in Writable, NEW w \in Word, StreamWrite(c, w)
          PROVE  RowsOK' /\ fb' \in [Cell -> Word]
      BY <3>0, <3>1 DEF StreamWrite, WriteCell, RowsOK
    <3>2. ASSUME NEW m \in Modes, StreamSetMode(m)
          PROVE  RowsOK' /\ fb' \in [Cell -> Word]
      BY <3>0, <3>2 DEF StreamSetMode, SetMode, RowsOK
    <3> QED BY <1>3, <3>1, <3>2 DEF ProgramStep
  <2> QED BY <2>1, <2>2, <2>3 DEF RoundInv, RoundTypeOK, InStep, RoundDelivers
<1> QED BY <1>1, <1>2, <1>3 DEF StreamNext, StreamStart, session_mgr_start, streamVars,
     sessionVars

LEMMA RoundInvariant == StreamSpec => []RoundInv
BY RoundInit, RoundStep, PTL DEF StreamSpec

-----------------------------------------------------------------------------

\* A client that got every packet of a round in which nothing changed shows
\* the screen as far as the round has come, for any number of rows, packets,
\* sessions and earlier losses (video_next_row, process_incoming_video_text).
THEOREM RoundDeliversAlways == StreamSpec => []RoundDelivers
<1>1. RoundInv => RoundDelivers
  BY DEF RoundInv
<1> QED BY <1>1, RoundInvariant, PTL

\* Whatever gets lost on the way to the clients, what is sent to them is typed,
\* goes to one session each and fits the frame and the screen.
THEOREM StreamInherits == StreamSpec => []SessionTypeOK /\ []OneSessionEach /\ PacketsFit
BY StreamIsSession, SessionTypes, OneSessionEachAlways, PacketsFitAlways, PTL

=============================================================================
