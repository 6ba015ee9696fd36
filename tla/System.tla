------------------------------- MODULE System -------------------------------
(***************************************************************************)
(* The client on a network that may lose any packet, with servers that     *)
(* keep to Lease, may be rebooted, and stream their screens to whoever     *)
(* holds a session.  Time passes while the client waits; a packet arrives  *)
(* before it does, or is lost.  As nothing but its session depends on when *)
(* a start arrives, it does so at once.                                    *)
(***************************************************************************)
EXTENDS Client, FiniteSets

CONSTANTS
  MAX_SESSIONS, Lifetime,    \* of a server
  MaxLost,                   \* bound: starts to one server lost in a row
  Typed                      \* what the user may type at once

VARIABLES
  asked,           \* servers with a V1_STATUS_REQ of this run to answer
  lease,           \* per server: a Lease
  lost             \* per server: starts lost since the last that arrived

vars == <<clientVars, asked, lease, lost>>

Session == INSTANCE Lease WITH Client <- Run

ASSUME SystemAssumption ==
  /\ MAX_SESSIONS \in Nat /\ Lifetime \in Nat /\ MaxLost \in Nat
  /\ Typed \subseteq Seq(Byte)
  /\ (MaxLost + 1) * Gap <= Lifetime + 1

NoLease == [r \in Run |-> Session!None]

Init ==
  /\ ClientInit
  /\ asked = {}
  /\ lease = [s \in Server |-> NoLease]
  /\ lost = [s \in Server |-> 0]

-----------------------------------------------------------------------------
(* The client's packets.                                                   *)

\* A probe, and the servers it reaches.
Probe == asked' \in SUBSET Server

Start == Launch /\ Probe /\ UNCHANGED <<lease, lost>>
End == Dies /\ asked' = {} /\ UNCHANGED <<lease, lost>>
Work == Loop /\ UNCHANGED <<asked, lease, lost>>

\* Of the servers in to, those in arrived get a start.
Sent(to, arrived) ==
  /\ \A s \in to \ arrived : lost[s] < MaxLost
  /\ lost' = [s \in Server |-> IF s \in arrived THEN 0
                               ELSE IF s \in to THEN lost[s] + 1 ELSE lost[s]]
  /\ lease' = [s \in Server |->
                 IF s \in arrived /\ Session!CanStart(lease[s], run)
                 THEN Session!Started(lease[s], run) ELSE lease[s]]

Refresh ==
  /\ Timers
  /\ \E arrived \in SUBSET Starts : Sent(Starts, arrived)
  /\ \/ pc' = "down" /\ asked' = {}
     \/ pc' # "down" /\ ProbeDue /\ Probe
     \/ pc' # "down" /\ ~ProbeDue /\ UNCHANGED asked

-----------------------------------------------------------------------------
(* The servers and the network.                                            *)

\* To the client's socket, if it is open and has room.
quietVars == <<run, pc, todo, g_running, hostVars, timeVars, seq_buf, userVars, drawn>>
Receive(p) ==
  /\ pc # "down"
  /\ sock' = IF Len(sock) < SockRoom THEN Append(sock, p) ELSE sock
  /\ UNCHANGED <<quietVars, lease, lost>>

Answer(s) ==
  /\ s \in asked /\ asked' = asked \ {s}
  /\ Receive([kind |-> "STATUS_RESP", from |-> s, id |-> run])

Stream(s, r) ==
  /\ lease[s][r] # Session!None
  /\ Receive([kind |-> "VGA_TEXT", from |-> s, id |-> r])
  /\ UNCHANGED asked

Reboot(s) ==
  /\ lease' = [lease EXCEPT ![s] = NoLease]
  /\ UNCHANGED <<clientVars, asked, lost>>

\* What the user means by a digit is what the menu shows for it.
Meant(b) == IF b \in DOMAIN Digit /\ Digit[b] + 1 \in DOMAIN shown
            THEN shown[Digit[b] + 1] ELSE NoServer
Type(bytes) ==
  /\ pc # "down" /\ stdin = <<>>
  /\ stdin' = [i \in DOMAIN bytes |-> [byte |-> bytes[i], meant |-> Meant(bytes[i])]]
  /\ UNCHANGED <<run, pc, todo, g_running, hostVars, timeVars, seq_buf, sock,
                 shown, drawn, asked, lease, lost>>

Pass ==
  /\ asked = {}
  /\ Elapse
  /\ \E dropped \in SUBSET (Server \X Run) :
       /\ \A d \in dropped : d[2] \in Session!Expired(lease[d[1]])
       /\ lease' = [s \in Server |->
                      Session!Aged(lease[s], {r \in Run : <<s, r>> \in dropped})]
  /\ UNCHANGED <<asked, lost>>

Next ==
  \/ Start \/ End \/ Work \/ Refresh
  \/ \E s \in Server : Answer(s) \/ Reboot(s) \/ \E r \in Run : Stream(s, r)
  \/ \E bytes \in Typed : Type(bytes)
  \/ Pass

\* Time goes on.  As it passes only while the client waits, the client makes
\* progress too.
TimeGoesOn == []<><<Pass>>_vars \/ <>[](pc = "down")

Spec == Init /\ [][Next]_vars
FairSpec == Spec /\ TimeGoesOn

-----------------------------------------------------------------------------
(* Properties.                                                             *)

SystemTypeOK ==
  /\ run \in 0..MaxRuns
  /\ pc \in {"down", "epoll", "events", "esc"}
  /\ todo \subseteq {"stdin", "socket"}
  /\ g_running \in BOOLEAN
  /\ hosts \in Seq(Host) /\ Len(hosts) <= MAX_HOSTS
  /\ g_active_host \in 0..Len(hosts)
  /\ sinceProbe \in 0..(ProbeInterval + 1)
  /\ wait \in Nat /\ signals \in 0..MaxSignals
  /\ seq_buf \in Seq(Byte) /\ Len(seq_buf) < SEQ_BUFFER_SIZE
  /\ stdin \in Seq(Key)
  /\ sock \in Seq(Packet) /\ Len(sock) <= SockRoom
  /\ shown \in Seq(Server)
  /\ drawn \subseteq Server /\ asked \subseteq Server
  /\ lease \in [Server -> [Run -> Session!None..(Lifetime + 1)]]
  /\ lost \in [Server -> 0..MaxLost]

Held(s) == run > 0 /\ lease[s][run] # Session!None

(***************************************************************************)
(* "Client should send this packet every few seconds" so that the protocol *)
(* "will handle network packet loss" (protocol.h:60): as long as no more   *)
(* than MaxLost starts in a row are lost, a server under control keeps the *)
(* session, however the timers, slow escape sequences and interrupted      *)
(* waits fall together.                                                    *)
(***************************************************************************)
KeptStep ==
  \A s \in Server :
    Controls(s) /\ Controls(s)' /\ Held(s) /\ ~Reboot(s) => Held(s)'
KeptWhileControlled == [][KeptStep]_vars

(***************************************************************************)
(* Only the server the user has chosen holds a session of this run.        *)
(***************************************************************************)
OnlyWanted == \A s \in Server : pc # "down" /\ Held(s) => Controls(s)

(***************************************************************************)
(* The session window shows text of the chosen server only, although a     *)
(* server goes on streaming to the sessions of former runs, at the same    *)
(* MAC address.                                                            *)
(***************************************************************************)
OwnScreen == \A s \in drawn : Controls(s)

(***************************************************************************)
(* A digit selects the server that the menu showed for it when it was      *)
(* typed, whatever servers have answered since.                            *)
(***************************************************************************)
ChosenStep ==
  g_active_host' # g_active_host /\ pc' # "down" =>
    Head(stdin).meant \in {NoServer, hosts'[g_active_host'].mac}
ChosenAsShown == [][ChosenStep]_vars

(***************************************************************************)
(* A chosen server comes to hold the session, in spite of lost packets and *)
(* reboots, unless all its sessions are taken or the client ends first.    *)
(***************************************************************************)
Full(s) == Cardinality(Session!Holders(lease[s])) >= MAX_SESSIONS
ServedAtLast ==
  \A s \in Server : Controls(s) ~> (Held(s) \/ Full(s) \/ ~Controls(s))

=============================================================================
