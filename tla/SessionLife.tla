---------------------------- MODULE SessionLife ----------------------------
(***************************************************************************)
(* The life of a session in real time.  The server decides by the BIOS     *)
(* clock, which starts again at midnight; "age" counts the timer ticks     *)
(* since the V1_SESSION_START that a slot holds was received.  It is not   *)
(* part of the program and stops counting at MaxAge.                       *)
(***************************************************************************)
EXTENDS Session

CONSTANT MaxAge

ASSUME AgeAssumption == MaxAge \in Nat /\ MaxAge > Lifetime + 1

VARIABLE age            \* [Slot -> 0..MaxAge]

lifeVars == <<sessionVars, age>>

LifeInit == SessionInit /\ age = [s \in Slot |-> 0]

StartReceived(mac, id) ==
  /\ session_mgr_start(mac, id)
  /\ age' = [age EXCEPT ![First(SlotFor(mac, id))] = 0]

TickPasses ==
  /\ session_mgr_update_all
  /\ age' = [s \in Slot |-> IF Pruned[s] = Free THEN 0
                            ELSE IF age[s] < MaxAge THEN age[s] + 1 ELSE MaxAge]

ScreenChanges ==
  /\ \/ \E c \in Writable, w \in Word : WriteCell(c, w)
     \/ \E m \in Modes : SetMode(m)
  /\ UNCHANGED age

LifeNext ==
  \/ \E mac \in Macs, id \in SessionIds : StartReceived(mac, id)
  \/ TickPasses
  \/ ScreenChanges

LifeSpec == LifeInit /\ [][LifeNext]_lifeVars

LifeTypeOK == SessionTypeOK /\ age \in [Slot -> 0..MaxAge]

-----------------------------------------------------------------------------

(***************************************************************************)
(* A client whose latest start is no older than the lifetime keeps its     *)
(* session: not the prune loop, not midnight, not other clients competing  *)
(* for slots can take it away.                                             *)
(***************************************************************************)
LiveKeptStep ==
  \A s \in InUse(g_sessions) :
    age[s] <= Lifetime => /\ g_sessions'[s].mac = g_sessions[s].mac
                          /\ g_sessions'[s].id = g_sessions[s].id
LiveKept == [][LiveKeptStep]_lifeVars

(***************************************************************************)
(* Who can outlive the lifetime: only a session whose last start came so   *)
(* close to midnight that the clock starts again before it is stale.  No   *)
(* later tick ever reclaims it; its slot is gone until the client returns. *)
(***************************************************************************)
OnlyMidnightSurvives ==
  \A s \in InUse(g_sessions) :
    age[s] > Lifetime + 1 => g_sessions[s].t + Lifetime >= TicksPerDay - 1

(***************************************************************************)
(* All this seen from the clients' side: the session manager implements    *)
(* Lease, on which the client (System) relies.                             *)
(***************************************************************************)
LeaseOf(mac, id) ==
  LET found == session_mgr_find(mac, id) IN
  IF found = {} THEN -1
  ELSE IF age[First(found)] > Lifetime THEN Lifetime + 1 ELSE age[First(found)]
Promise == INSTANCE Lease WITH
             Client <- Macs \X SessionIds,
             lease <- [c \in Macs \X SessionIds |-> LeaseOf(c[1], c[2])]
KeepsPromise == Promise!Spec

(***************************************************************************)
(* What protocol.h promises: "Server will stop sending data to client a    *)
(* few seconds after the last time this packet was received."  session.c   *)
(* compares time of day, so the promise is broken around midnight.         *)
(***************************************************************************)
StoppedClientDropped ==
  \A s \in InUse(g_sessions) : age[s] <= Lifetime + 1

=============================================================================
