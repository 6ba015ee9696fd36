---------------------------- MODULE SystemProofs ----------------------------
(***************************************************************************)
(* Client and servers for every number of servers, runs and sessions, and  *)
(* for all intervals with which MaxLost + 1 refreshes fit in a lifetime.   *)
(* A session cannot be older than the time since the last start was sent,  *)
(* plus a Gap for each start that was lost; how old the last start can be  *)
(* depends on where in its loop the client is (Punctual).                  *)
(***************************************************************************)
EXTENDS System, SequenceTheorems, TLAPS

LEMMA GapNat == Gap \in Nat /\ LongAgo = Gap
BY ClientAssumption DEF Gap, LongAgo

-----------------------------------------------------------------------------
(* Types.                                                                  *)

\* SystemTypeOK in parts, by what their proofs need.
PlainTypes ==
  /\ run \in 0..MaxRuns
  /\ pc \in {"down", "epoll", "events", "esc"}
  /\ todo \subseteq {"stdin", "socket"}
  /\ sinceProbe \in 0..(ProbeInterval + 1)
  /\ wait \in Nat /\ signals \in 0..MaxSignals
  /\ drawn \subseteq Server
FlagTypes == g_running \in BOOLEAN
SeqTypes ==
  /\ hosts \in Seq(Host) /\ Len(hosts) <= MAX_HOSTS
  /\ g_active_host \in 0..Len(hosts)
  /\ seq_buf \in Seq(Byte) /\ Len(seq_buf) < SEQ_BUFFER_SIZE
  /\ stdin \in Seq(Key)
  /\ sock \in Seq(Packet) /\ Len(sock) <= SockRoom
  /\ shown \in Seq(Server)
ServerTypes ==
  /\ asked \subseteq Server
  /\ lease \in [Server -> [Run -> Session!None..(Lifetime + 1)]]
  /\ lost \in [Server -> 0..MaxLost]

LEMMA TypeParts ==
  SystemTypeOK <=> PlainTypes /\ FlagTypes /\ SeqTypes /\ ServerTypes
BY DEF SystemTypeOK, FlagTypes, PlainTypes, SeqTypes, ServerTypes

LEMMA TypePartsNext ==
  SystemTypeOK' <=> PlainTypes' /\ FlagTypes' /\ SeqTypes' /\ ServerTypes'
BY DEF SystemTypeOK, FlagTypes, PlainTypes, SeqTypes, ServerTypes

LEMMA TypeInit == Init => SystemTypeOK
<1> SUFFICES ASSUME Init PROVE SystemTypeOK
  OBVIOUS
<1> USE ClientAssumption, SystemAssumption
<1>1. PlainTypes
  BY DEF Init, ClientInit, PlainTypes
<1>2. SeqTypes
  BY DEF Init, ClientInit, SeqTypes
<1>3. ServerTypes
  BY DEF Init, ServerTypes, NoLease, Session!None
<1>4. FlagTypes
  BY DEF Init, ClientInit, FlagTypes
<1> QED BY <1>1, <1>2, <1>3, <1>4, TypeParts

\* What Down resets has its type.
LEMMA TypeDown ==
  ASSUME PlainTypes, Down, run' = run
  PROVE  PlainTypes' /\ FlagTypes' /\ SeqTypes'
<1> USE ClientAssumption
<1>1. PlainTypes'
  BY DEF PlainTypes, Down
<1>2. SeqTypes'
  BY DEF SeqTypes, Down
<1>3. FlagTypes'
  BY DEF FlagTypes, Down
<1> QED BY <1>1, <1>2, <1>3

LEMMA SameLength ==
  ASSUME NEW S, NEW T, NEW s \in Seq(S), NEW f \in [1..Len(s) -> T]
  PROVE  f \in Seq(T) /\ Len(f) = Len(s) /\ DOMAIN f = 1..Len(s)
<1>1. Len(s) \in Nat
  BY LenProperties
<1>2. f \in Seq(T)
  BY <1>1
<1> QED BY <1>1, <1>2, LenProperties

\* A server that answers is appended, or nothing changes.
LEMMA TypeRegister ==
  ASSUME SeqTypes, NEW mac \in Server, NEW h, h = hostlist_register(mac)
  PROVE  /\ h \in Seq(Host) /\ Len(h) \in Len(hosts)..MAX_HOSTS
         /\ DOMAIN hosts \subseteq DOMAIN h
         /\ \A i \in DOMAIN hosts : h[i] = hosts[i]
<1> DEFINE new == [mac |-> mac, window |-> FALSE, sinceStart |-> LongAgo]
<1>1. new \in Host
  BY GapNat DEF Host
<1> HIDE DEF new
<1>2. hosts \in Seq(Host) /\ Len(hosts) \in Nat /\ Len(hosts) <= MAX_HOSTS
      /\ DOMAIN hosts = 1..Len(hosts)
  BY LenProperties DEF SeqTypes
<1>3. CASE h = hosts
  BY <1>2, <1>3, ClientAssumption
<1>4. CASE Len(hosts) # MAX_HOSTS /\ h = Append(hosts, new)
  <2>1. /\ h \in Seq(Host) /\ Len(h) = Len(hosts) + 1
        /\ \A i \in 1..Len(hosts) : h[i] = hosts[i]
        /\ DOMAIN h = 1..Len(h)
    BY <1>1, <1>2, <1>4, AppendProperties, LenProperties
  <2>2. Len(h) \in Len(hosts)..MAX_HOSTS
    <3>1. MAX_HOSTS \in Nat
      BY ClientAssumption
    <3>2. Len(hosts) \in Nat /\ Len(hosts) <= MAX_HOSTS /\ Len(hosts) # MAX_HOSTS
      BY <1>2, <1>4
    <3>3. Len(h) = Len(hosts) + 1
      BY <2>1
    <3> QED BY <3>1, <3>2, <3>3
  <2>3. 1..Len(hosts) \subseteq 1..Len(h)
    BY <1>2, <2>1
  <2> QED BY <1>2, <2>1, <2>2, <2>3
<1>5. h = hosts \/ (Len(hosts) # MAX_HOSTS /\ h = Append(hosts, new))
  BY DEF hostlist_register, new
<1> QED BY <1>3, <1>4, <1>5

\* hosts changes in fields only.
LEMMA TypeFields ==
  ASSUME SeqTypes, hosts' \in [DOMAIN hosts -> Host]
  PROVE  hosts' \in Seq(Host) /\ Len(hosts') = Len(hosts)
         /\ DOMAIN hosts' = DOMAIN hosts
<1>1. hosts \in Seq(Host) /\ DOMAIN hosts = 1..Len(hosts)
  BY LenProperties DEF SeqTypes
<1> QED BY <1>1, SameLength

\* What a step of the loop relies on: the descriptors still in todo are ready.
LoopOK ==
  /\ pc \in {"down", "epoll"} => todo = {}
  /\ "stdin" \in todo => pc = "events" /\ stdin # <<>>
  /\ "socket" \in todo => sock # <<>>
  /\ pc # "down" => run \in Run

LEMMA TypeLaunch == SystemTypeOK /\ Launch => PlainTypes' /\ FlagTypes' /\ SeqTypes'
<1> SUFFICES ASSUME SystemTypeOK, Launch PROVE PlainTypes' /\ FlagTypes' /\ SeqTypes'
  OBVIOUS
<1>0. PlainTypes /\ FlagTypes /\ SeqTypes
  BY TypeParts
<1>1. PlainTypes'
  BY <1>0, ClientAssumption DEF PlainTypes, Launch, hostVars, userVars
<1>2. FlagTypes'
  BY DEF FlagTypes, Launch
<1>3. SeqTypes'
  BY <1>0 DEF SeqTypes, Launch, hostVars, userVars
<1> QED BY <1>1, <1>2, <1>3

LEMMA TypeWork ==
  ASSUME SystemTypeOK, LoopOK, Loop
  PROVE  PlainTypes' /\ FlagTypes' /\ SeqTypes'
<1>0. PlainTypes /\ FlagTypes /\ SeqTypes
  BY TypeParts
<1> USE ClientAssumption
<1>1. CASE Wake
  <2>1. PlainTypes'
    BY <1>0, <1>1 DEF PlainTypes, Wake, timeVars, Ready
  <2>2. FlagTypes'
    BY <1>0, <1>1 DEF FlagTypes, Wake
  <2>3. SeqTypes'
    BY <1>0, <1>1 DEF SeqTypes, Wake, hostVars, userVars
  <2> QED BY <2>1, <2>2, <2>3
<1>2. CASE Interrupted
  <2>1. PlainTypes'
    BY <1>0, <1>2 DEF PlainTypes, Interrupted
  <2>2. FlagTypes'
    BY <1>0, <1>2 DEF FlagTypes, Interrupted
  <2>3. SeqTypes'
    BY <1>0, <1>2 DEF SeqTypes, Interrupted, hostVars, userVars
  <2> QED BY <2>1, <2>2, <2>3
<1>3. CASE MenuKey
  <2>1. PlainTypes'
    BY <1>0, <1>3 DEF PlainTypes, MenuKey, Event, timeVars
  <2>2. FlagTypes'
    BY <1>0, <1>3 DEF FlagTypes, MenuKey
  <2>3. stdin' \in Seq(Key)
    <3>1. stdin # <<>> /\ stdin \in Seq(Key) /\ stdin' = Tail(stdin)
      BY <1>0, <1>3 DEF LoopOK, MenuKey, Event, SeqTypes
    <3> QED BY <3>1, HeadTailProperties
  <2>4. /\ hosts' \in Seq(Host) /\ Len(hosts') = Len(hosts)
        /\ g_active_host' \in 0..Len(hosts)
    <3>0. hosts \in Seq(Host) /\ DOMAIN hosts = 1..Len(hosts)
      BY <1>0, LenProperties DEF SeqTypes
    <3>1. CASE UNCHANGED hostVars
      BY <1>0, <3>1 DEF SeqTypes, hostVars
    <3>2. CASE \E i \in DOMAIN hosts : start_remote_control(i)
      <4>1. PICK i \in DOMAIN hosts : start_remote_control(i)
        BY <3>2
      <4>2. hosts' \in [DOMAIN hosts -> Host]
        <5>1. \A j \in DOMAIN hosts : hosts[j] \in Host
          BY <3>0
        <5>2. \A h \in Host : [h EXCEPT !.window = TRUE] \in Host
          BY DEF Host
        <5>3. hosts' = [hosts EXCEPT ![i] = [hosts[i] EXCEPT !.window = TRUE]]
          BY <4>1 DEF start_remote_control
        <5> QED BY <3>0, <5>1, <5>2, <5>3
      <4>3. g_active_host' \in 0..Len(hosts)
        BY <4>1, <3>0, LenProperties DEF start_remote_control
      <4> QED BY <4>2, <4>3, <1>0, TypeFields
    <3> QED BY <1>3, <3>1, <3>2 DEF MenuKey, hostlist_find_by_index
  <2>5. SeqTypes'
    BY <1>0, <1>3, <2>3, <2>4 DEF SeqTypes, MenuKey
  <2> QED BY <2>1, <2>2, <2>5
<1>4. CASE SessionKey
  <2>1. PlainTypes'
    BY <1>0, <1>4 DEF PlainTypes, SessionKey, Event
  <2>2. FlagTypes'
    BY <1>0, <1>4 DEF FlagTypes, SessionKey, Handle
  <2>3. stdin' \in Seq(Key)
    <3>1. stdin # <<>> /\ stdin \in Seq(Key) /\ stdin' = Tail(stdin)
      BY <1>0, <1>4 DEF LoopOK, SessionKey, Event, SeqTypes
    <3> QED BY <3>1, HeadTailProperties
  <2>4. seq_buf' \in Seq(Byte) /\ Len(seq_buf') < SEQ_BUFFER_SIZE
    <3>1. <<Esc>> \in Seq(Byte) /\ Len(<<Esc>>) = 1 /\ 1 < SEQ_BUFFER_SIZE
      OBVIOUS
    <3>2. seq_buf' \in {seq_buf, <<Esc>>}
      BY <1>4 DEF SessionKey
    <3> QED BY <1>0, <3>1, <3>2 DEF SeqTypes
  <2>5. SeqTypes'
    BY <1>0, <1>4, <2>3, <2>4 DEF SeqTypes, SessionKey, hostVars
  <2> QED BY <2>1, <2>2, <2>5
<1>5. CASE EscByte
  <2>1. PlainTypes'
    BY <1>0, <1>5 DEF PlainTypes, EscByte, timeVars
  <2>2. FlagTypes'
    BY <1>0, <1>5 DEF FlagTypes, EscByte
  <2>3. Head(stdin) \in Key /\ Tail(stdin) \in Seq(Key)
    BY <1>0, <1>5, HeadTailProperties DEF SeqTypes, EscByte
  <2>4. seq_buf' \in Seq(Byte) /\ Len(seq_buf') < SEQ_BUFFER_SIZE
    <3>1. Head(stdin).byte \in Byte
      BY <2>3 DEF Key
    <3>2. /\ seq_buf \in Seq(Byte) /\ Len(seq_buf) \in Nat
          /\ Len(seq_buf) < SEQ_BUFFER_SIZE /\ Len(seq_buf) # SEQ_BUFFER_SIZE - 1
          /\ seq_buf' = Append(seq_buf, Head(stdin).byte)
      BY <1>0, <1>5, LenProperties DEF SeqTypes, EscByte, EscFull
    <3> QED BY <3>1, <3>2, AppendProperties
  <2>5. SeqTypes'
    BY <1>0, <1>5, <2>3, <2>4 DEF SeqTypes, EscByte, hostVars
  <2> QED BY <2>1, <2>2, <2>5
<1>6. CASE EscEnds
  <2>1. PlainTypes'
    BY <1>0, <1>6 DEF PlainTypes, EscEnds, timeVars
  <2>2. FlagTypes'
    BY <1>0, <1>6 DEF FlagTypes, EscEnds, Handle
  <2>3. SeqTypes'
    BY <1>0, <1>6 DEF SeqTypes, EscEnds, hostVars, userVars
  <2> QED BY <2>1, <2>2, <2>3
<1>7. CASE SocketIO
  <2>1. /\ Head(sock) \in Packet /\ Tail(sock) \in Seq(Packet)
        /\ Len(Tail(sock)) <= SockRoom
    <3>1. sock # <<>> /\ sock \in Seq(Packet) /\ Len(sock) <= SockRoom
      BY <1>0, <1>7 DEF LoopOK, SocketIO, Event, SeqTypes
    <3> QED BY <3>1, HeadTailProperties, LenProperties
  <2>2. Head(sock).from \in Server
    BY <2>1 DEF Packet
  <2>3. PlainTypes'
    BY <1>0, <1>7, <2>2 DEF PlainTypes, SocketIO, Event, timeVars, update_session_window
  <2>4. FlagTypes'
    BY <1>0, <1>7 DEF FlagTypes, SocketIO
  <2>5. hosts' \in Seq(Host) /\ Len(hosts') \in Len(hosts)..MAX_HOSTS
    <3>1. hosts' \in {hosts, hostlist_register(Head(sock).from)}
      BY <1>7 DEF SocketIO
    <3> QED BY <1>0, <2>2, <3>1, TypeRegister, LenProperties DEF SeqTypes
  <2>6. g_active_host' \in 0..Len(hosts')
    BY <1>0, <1>7, <2>5, LenProperties DEF SeqTypes, SocketIO
  <2>7. SeqTypes'
    BY <1>0, <1>7, <2>1, <2>5, <2>6 DEF SeqTypes, SocketIO, userVars
  <2> QED BY <2>3, <2>4, <2>7
<1> QED BY <1>1, <1>2, <1>3, <1>4, <1>5, <1>6, <1>7 DEF Loop

LEMMA TypeTimers == SystemTypeOK /\ Timers => PlainTypes' /\ FlagTypes' /\ SeqTypes'
<1> SUFFICES ASSUME SystemTypeOK, Timers PROVE PlainTypes' /\ FlagTypes' /\ SeqTypes'
  OBVIOUS
<1>0. PlainTypes /\ FlagTypes /\ SeqTypes
  BY TypeParts
<1>1. CASE ~g_running /\ Down
  BY <1>0, <1>1, TypeDown DEF Timers
<1>2. CASE g_running
  <2>1. PlainTypes'
    BY <1>0, <1>2, ClientAssumption DEF PlainTypes, Timers
  <2>2. FlagTypes'
    BY <1>0, <1>2 DEF FlagTypes, Timers
  <2>3. hosts \in Seq(Host) /\ DOMAIN hosts = 1..Len(hosts)
    BY <1>0, LenProperties DEF SeqTypes
  <2>4. hosts' \in [DOMAIN hosts -> Host]
    <3>1. \A j \in DOMAIN hosts : hosts[j] \in Host
      BY <2>3
    <3>2. \A h \in Host : [h EXCEPT !.sinceStart = 0] \in Host
      BY GapNat DEF Host
    <3>3. hosts' = [i \in DOMAIN hosts |->
                      IF Due(i) THEN [hosts[i] EXCEPT !.sinceStart = 0] ELSE hosts[i]]
      BY <1>2 DEF Timers
    <3> QED BY <3>1, <3>2, <3>3
  <2>5. hosts' \in Seq(Host) /\ Len(hosts') = Len(hosts)
    BY <1>0, <2>4, TypeFields
  <2>6. shown' \in Seq(Server)
    <3>1. shown' \in {<<>>, Menu}
      BY <1>2 DEF Timers
    <3>2. Menu \in [1..Len(hosts) -> Server]
      <4>1. \A j \in DOMAIN hosts : hosts[j].mac \in Server
        <5>1. \A j \in DOMAIN hosts : hosts[j] \in Host
          BY <2>3
        <5> QED BY <5>1 DEF Host
      <4> QED BY <2>3, <4>1 DEF Menu
    <3>3. <<>> \in Seq(Server) /\ Menu \in Seq(Server)
      BY <2>3, <3>2, SameLength
    <3> QED BY <3>1, <3>3
  <2>7. SeqTypes'
    BY <1>0, <1>2, <2>5, <2>6 DEF SeqTypes, Timers
  <2> QED BY <2>1, <2>2, <2>7
<1> QED BY <1>1, <1>2 DEF Timers

LEMMA TypeElapse == SystemTypeOK /\ Elapse => PlainTypes' /\ FlagTypes' /\ SeqTypes'
<1> SUFFICES ASSUME SystemTypeOK, Elapse PROVE PlainTypes' /\ FlagTypes' /\ SeqTypes'
  OBVIOUS
<1>0. PlainTypes /\ FlagTypes /\ SeqTypes
  BY TypeParts
<1>1. PlainTypes'
  BY <1>0, ClientAssumption DEF PlainTypes, Elapse, Later
<1>2. FlagTypes'
  BY <1>0 DEF FlagTypes, Elapse
<1>3. hosts \in Seq(Host) /\ DOMAIN hosts = 1..Len(hosts)
  BY <1>0, LenProperties DEF SeqTypes
<1>4. hosts' \in [DOMAIN hosts -> Host]
  <2>1. \A j \in DOMAIN hosts : hosts[j] \in Host
    BY <1>3
  <2>2. \A h \in Host : [h EXCEPT !.sinceStart = Later(@, LongAgo)] \in Host
    BY GapNat DEF Host, Later
  <2>3. hosts' = [i \in DOMAIN hosts |->
                    [hosts[i] EXCEPT !.sinceStart = Later(@, LongAgo)]]
    BY DEF Elapse
  <2> QED BY <2>1, <2>2, <2>3
<1>5. hosts' \in Seq(Host) /\ Len(hosts') = Len(hosts)
  BY <1>0, <1>4, TypeFields
<1>6. SeqTypes'
  BY <1>0, <1>5 DEF SeqTypes, Elapse, userVars
<1> QED BY <1>1, <1>2, <1>6

LEMMA TypeReceive ==
  ASSUME SystemTypeOK, NEW p \in Packet, Receive(p)
  PROVE  PlainTypes' /\ FlagTypes' /\ SeqTypes'
<1>0. PlainTypes /\ FlagTypes /\ SeqTypes
  BY TypeParts
<1>1. PlainTypes'
  BY <1>0 DEF PlainTypes, Receive, quietVars, timeVars
<1>2. FlagTypes'
  BY <1>0 DEF FlagTypes, Receive, quietVars
<1>3. sock' \in Seq(Packet) /\ Len(sock') <= SockRoom
  <2>1. sock \in Seq(Packet) /\ Len(sock) \in Nat /\ Len(sock) <= SockRoom
    BY <1>0, LenProperties DEF SeqTypes
  <2>2. SockRoom \in Nat
    BY ClientAssumption
  <2>3. /\ Append(sock, p) \in Seq(Packet)
        /\ Len(Append(sock, p)) = Len(sock) + 1
    BY <2>1, AppendProperties
  <2>4. CASE Len(sock) < SockRoom
    <3>1. sock' = Append(sock, p)
      BY <2>4 DEF Receive
    <3> QED BY <2>1, <2>2, <2>3, <2>4, <3>1
  <2>5. CASE ~(Len(sock) < SockRoom)
    BY <2>1, <2>5 DEF Receive
  <2> QED BY <2>4, <2>5
<1>4. SeqTypes'
  BY <1>0, <1>3 DEF SeqTypes, Receive, quietVars, hostVars, userVars
<1> QED BY <1>1, <1>2, <1>4

LEMMA TypeType ==
  ASSUME SystemTypeOK, NEW bytes \in Typed, Type(bytes)
  PROVE  PlainTypes' /\ FlagTypes' /\ SeqTypes'
<1>0. PlainTypes /\ FlagTypes /\ SeqTypes
  BY TypeParts
<1>1. PlainTypes'
  BY <1>0 DEF PlainTypes, Type, timeVars
<1>2. FlagTypes'
  BY <1>0 DEF FlagTypes, Type
<1>3. stdin' \in Seq(Key)
  <2>1. bytes \in Seq(Byte) /\ DOMAIN bytes = 1..Len(bytes)
    BY SystemAssumption, LenProperties
  <2>2. \A b \in Byte : Meant(b) \in Server \cup {NoServer}
    BY <1>0 DEF Meant, SeqTypes
  <2>3. stdin' \in [1..Len(bytes) -> Key]
    BY <2>1, <2>2 DEF Type, Key
  <2> QED BY <2>1, <2>3, SameLength
<1>4. SeqTypes'
  BY <1>0, <1>3 DEF SeqTypes, Type, hostVars
<1> QED BY <1>1, <1>2, <1>4

-----------------------------------------------------------------------------

LEMMA TypeSent ==
  ASSUME ServerTypes, NEW to, NEW arrived, Sent(to, arrived), asked' \subseteq Server
  PROVE  ServerTypes'
<1> USE SystemAssumption
<1>1. lost' \in [Server -> 0..MaxLost]
  BY DEF ServerTypes, Sent
<1>2. lease' \in [Server -> [Run -> Session!None..(Lifetime + 1)]]
  <2>1. \A s \in Server : Session!Started(lease[s], run)
                             \in [Run -> Session!None..(Lifetime + 1)]
    <3> DEFINE Age == Session!None..(Lifetime + 1)
    <3>1. 0 \in Age
      BY DEF Session!None
    <3> HIDE DEF Age
    <3>2. \A l \in [Run -> Age] : [l EXCEPT ![run] = 0] \in [Run -> Age]
      BY <3>1
    <3> QED BY <3>2 DEF ServerTypes, Session!Started, Age
  <2> QED BY <2>1 DEF ServerTypes, Sent
<1> QED BY <1>1, <1>2 DEF ServerTypes

LEMMA TypeAged ==
  ASSUME NEW l \in [Run -> Session!None..(Lifetime + 1)], NEW dropped
  PROVE  Session!Aged(l, dropped) \in [Run -> Session!None..(Lifetime + 1)]
BY SystemAssumption DEF Session!Aged, Session!None, Session!Expired

LEMMA TypeNext == SystemTypeOK /\ LoopOK /\ [Next]_vars => SystemTypeOK'
<1> SUFFICES ASSUME SystemTypeOK, LoopOK, [Next]_vars
             PROVE  PlainTypes' /\ FlagTypes' /\ SeqTypes' /\ ServerTypes'
  BY TypePartsNext
<1>0. PlainTypes /\ FlagTypes /\ SeqTypes /\ ServerTypes
  BY TypeParts
<1>1. CASE Start
  <2>1. ServerTypes'
    BY <1>0, <1>1 DEF ServerTypes, Start, Probe
  <2> QED BY <1>1, <2>1, TypeLaunch DEF Start
<1>2. CASE End
  <2>1. ServerTypes'
    BY <1>0, <1>2 DEF ServerTypes, End
  <2> QED BY <1>0, <1>2, <2>1, TypeDown DEF End, Dies
<1>3. CASE Work
  <2>1. ServerTypes'
    BY <1>0, <1>3 DEF ServerTypes, Work
  <2> QED BY <1>3, <2>1, TypeWork DEF Work
<1>4. CASE Refresh
  <2>1. asked' \subseteq Server
    BY <1>0, <1>4 DEF Refresh, Probe, ServerTypes
  <2>2. ServerTypes'
    BY <1>0, <1>4, <2>1, TypeSent DEF Refresh
  <2> QED BY <1>4, <2>2, TypeTimers DEF Refresh
<1>5. CASE \E s \in Server : Answer(s) \/ Reboot(s) \/ \E r \in Run : Stream(s, r)
  <2>1. ASSUME NEW s \in Server, Answer(s)
        PROVE  PlainTypes' /\ FlagTypes' /\ SeqTypes' /\ ServerTypes'
    <3>1. ServerTypes'
      BY <1>0, <2>1 DEF ServerTypes, Answer, Receive
    <3>2. [kind |-> "STATUS_RESP", from |-> s, id |-> run] \in Packet
      <4>1. run \in Run
        BY <2>1 DEF LoopOK, Answer, Receive
      <4> QED BY <4>1 DEF Packet
    <3> QED BY <2>1, <3>1, <3>2, TypeReceive DEF Answer
  <2>2. ASSUME NEW s \in Server, Reboot(s)
        PROVE  PlainTypes' /\ FlagTypes' /\ SeqTypes' /\ ServerTypes'
    <3>1. ServerTypes'
      BY <1>0, <2>2, SystemAssumption DEF ServerTypes, Reboot, NoLease, Session!None
    <3>2. PlainTypes' /\ FlagTypes'
      BY <1>0, <2>2 DEF PlainTypes, FlagTypes, Reboot, clientVars, timeVars
    <3>3. SeqTypes'
      BY <1>0, <2>2 DEF SeqTypes, Reboot, clientVars, hostVars, userVars
    <3> QED BY <3>1, <3>2, <3>3
  <2>3. ASSUME NEW s \in Server, NEW r \in Run, Stream(s, r)
        PROVE  PlainTypes' /\ FlagTypes' /\ SeqTypes' /\ ServerTypes'
    <3>1. ServerTypes'
      BY <1>0, <2>3 DEF ServerTypes, Stream, Receive
    <3>2. [kind |-> "VGA_TEXT", from |-> s, id |-> r] \in Packet
      BY DEF Packet
    <3> QED BY <2>3, <3>1, <3>2, TypeReceive DEF Stream
  <2> QED BY <1>5, <2>1, <2>2, <2>3
<1>6. CASE \E bytes \in Typed : Type(bytes)
  <2>1. PICK bytes \in Typed : Type(bytes)
    BY <1>6
  <2>2. ServerTypes'
    BY <1>0, <2>1 DEF ServerTypes, Type
  <2> QED BY <2>1, <2>2, TypeType
<1>7. CASE Pass
  <2>1. ServerTypes'
    <3>1. PICK dropped \in SUBSET (Server \X Run) :
            lease' = [s \in Server |->
                       Session!Aged(lease[s], {r \in Run : <<s, r>> \in dropped})]
      BY <1>7 DEF Pass
    <3>2. lease' \in [Server -> [Run -> Session!None..(Lifetime + 1)]]
      BY <1>0, <3>1, TypeAged DEF ServerTypes
    <3> QED BY <1>0, <1>7, <3>2 DEF ServerTypes, Pass
  <2> QED BY <1>7, <2>1, TypeElapse DEF Pass
<1>8. CASE UNCHANGED vars
  <2>1. PlainTypes' /\ FlagTypes'
    BY <1>0, <1>8 DEF PlainTypes, FlagTypes, vars, clientVars, timeVars
  <2>2. SeqTypes'
    BY <1>0, <1>8 DEF SeqTypes, vars, clientVars, hostVars, userVars
  <2>3. ServerTypes'
    BY <1>0, <1>8 DEF ServerTypes, vars
  <2> QED BY <2>1, <2>2, <2>3
<1> QED BY <1>1, <1>2, <1>3, <1>4, <1>5, <1>6, <1>7, <1>8 DEF Next

-----------------------------------------------------------------------------
(* The loop.                                                               *)

LEMMA LoopInit == Init => LoopOK
BY DEF Init, ClientInit, LoopOK

LEMMA LoopReceive ==
  ASSUME SystemTypeOK, LoopOK, NEW p \in Packet, Receive(p)
  PROVE  LoopOK'
<1>1. UNCHANGED <<run, pc, todo, stdin>>
  BY DEF Receive, quietVars, userVars
<1>2. sock # <<>> => sock' # <<>>
  <2>1. sock \in Seq(Packet)
    BY TypeParts DEF SeqTypes
  <2>2. Append(sock, p) # <<>>
    BY <2>1, AppendProperties
  <2> QED BY <2>2 DEF Receive
<1> QED BY <1>1, <1>2 DEF LoopOK

LEMMA LoopNext == SystemTypeOK /\ LoopOK /\ [Next]_vars => LoopOK'
<1> SUFFICES ASSUME SystemTypeOK, LoopOK, [Next]_vars PROVE LoopOK'
  OBVIOUS
<1>0. PlainTypes
  BY TypeParts
<1>1. CASE Start
  BY <1>0, <1>1, ClientAssumption DEF LoopOK, Start, Launch, PlainTypes, Run
<1>2. CASE End
  BY <1>2 DEF LoopOK, End, Dies, Down
<1>3. CASE Work
  <2>1. CASE Wake
    BY <2>1, <1>0 DEF LoopOK, Wake, Ready, userVars
  <2>2. CASE Interrupted
    BY <2>2 DEF LoopOK, Interrupted, userVars
  <2>3. CASE MenuKey
    BY <2>3 DEF LoopOK, MenuKey, Event
  <2>4. CASE SessionKey
    BY <2>4 DEF LoopOK, SessionKey, Event
  <2>5. CASE EscByte
    BY <2>5 DEF LoopOK, EscByte
  <2>6. CASE EscEnds
    BY <2>6 DEF LoopOK, EscEnds, userVars
  <2>7. CASE SocketIO
    BY <2>7 DEF LoopOK, SocketIO, Event, userVars
  <2> QED BY <1>3, <2>1, <2>2, <2>3, <2>4, <2>5, <2>6, <2>7 DEF Work, Loop
<1>4. CASE Refresh
  BY <1>4 DEF LoopOK, Refresh, Timers, Down
<1>5. CASE \E s \in Server : Answer(s) \/ Reboot(s) \/ \E r \in Run : Stream(s, r)
  <2>1. ASSUME NEW s \in Server, Answer(s) PROVE LoopOK'
    <3>1. [kind |-> "STATUS_RESP", from |-> s, id |-> run] \in Packet
      BY <2>1 DEF LoopOK, Answer, Receive, Packet
    <3> QED BY <2>1, <3>1, LoopReceive DEF Answer
  <2>2. ASSUME NEW s \in Server, Reboot(s) PROVE LoopOK'
    BY <2>2 DEF LoopOK, Reboot, clientVars, userVars
  <2>3. ASSUME NEW s \in Server, NEW r \in Run, Stream(s, r) PROVE LoopOK'
    <3>1. [kind |-> "VGA_TEXT", from |-> s, id |-> r] \in Packet
      BY DEF Packet
    <3> QED BY <2>3, <3>1, LoopReceive DEF Stream
  <2> QED BY <1>5, <2>1, <2>2, <2>3
<1>6. CASE \E bytes \in Typed : Type(bytes)
  BY <1>6 DEF LoopOK, Type
<1>7. CASE Pass
  BY <1>7 DEF LoopOK, Pass, Elapse, userVars
<1>8. CASE UNCHANGED vars
  BY <1>8 DEF LoopOK, vars, clientVars, userVars
<1> QED BY <1>1, <1>2, <1>3, <1>4, <1>5, <1>6, <1>7, <1>8 DEF Next

-----------------------------------------------------------------------------
(* The list of servers.                                                    *)

\* Servers are listed once, the one under control is the active one, and
\* nothing is left when the program has ended.
HostsOK ==
  /\ \A i \in DOMAIN hosts : hosts[i].window => i = g_active_host
  /\ g_active_host # 0 => hosts[g_active_host].window
  /\ \A i, j \in DOMAIN hosts : hosts[i].mac = hosts[j].mac => i = j
  /\ pc = "down" => /\ hosts = <<>> /\ g_active_host = 0 /\ drawn = {}
                    /\ stdin = <<>> /\ sock = <<>> /\ shown = <<>>

\* No slot is lost or given to another server.
Grows == /\ DOMAIN hosts \subseteq DOMAIN hosts'
         /\ \A i \in DOMAIN hosts : hosts'[i].mac = hosts[i].mac
Stays == Grows /\ g_active_host' = g_active_host

Domain == DOMAIN hosts = 1..Len(hosts) /\ Len(hosts) \in Nat
          /\ g_active_host \in 0..Len(hosts)

LEMMA HostsDomain == SystemTypeOK => Domain /\ \A i \in DOMAIN hosts : hosts[i] \in Host
<1> SUFFICES ASSUME SystemTypeOK
             PROVE  Domain /\ \A i \in DOMAIN hosts : hosts[i] \in Host
  OBVIOUS
<1>1. hosts \in Seq(Host) /\ g_active_host \in 0..Len(hosts)
  BY TypeParts DEF SeqTypes
<1> QED BY <1>1, LenProperties DEF Domain

LEMMA HostsMenuKey ==
  ASSUME SystemTypeOK, LoopOK, HostsOK, MenuKey
  PROVE  HostsOK' /\ Grows
<1>0. Domain
  BY HostsDomain
<1>1. UNCHANGED <<pc, drawn, sock, shown>> /\ pc # "down" /\ g_active_host = 0
  BY DEF MenuKey, Event
<1>2. CASE UNCHANGED hostVars
  BY <1>1, <1>2 DEF HostsOK, Grows, hostVars
<1>3. CASE \E i \in DOMAIN hosts : start_remote_control(i)
  <2>1. PICK i \in DOMAIN hosts : start_remote_control(i)
    BY <1>3
  <2>2. /\ DOMAIN hosts' = DOMAIN hosts
        /\ \A j \in DOMAIN hosts : hosts'[j].mac = hosts[j].mac
        /\ \A j \in DOMAIN hosts : j # i => hosts'[j].window = hosts[j].window
        /\ g_active_host' = i
    <3>1. \A j \in DOMAIN hosts : hosts[j] \in Host
      BY HostsDomain
    <3> QED BY <2>1, <3>1 DEF start_remote_control, Host
  <2>3. hosts'[i].window
    <3>1. hosts[i] \in Host
      BY HostsDomain
    <3> QED BY <2>1, <3>1 DEF start_remote_control, Host
  <2>4. i # 0
    BY <1>0 DEF Domain
  <2> QED BY <1>0, <1>1, <2>2, <2>3, <2>4 DEF HostsOK, Grows, Domain
<1> QED BY <1>2, <1>3 DEF MenuKey, hostlist_find_by_index

LEMMA HostsSocketIO ==
  ASSUME SystemTypeOK, LoopOK, HostsOK, SocketIO
  PROVE  HostsOK' /\ Stays
<1>0. Domain
  BY HostsDomain
<1>1. pc' = pc /\ pc # "down" /\ g_active_host' = g_active_host
  BY DEF SocketIO, Event
<1>2. CASE hosts' = hosts
  BY <1>1, <1>2 DEF HostsOK, Stays, Grows
<1> DEFINE mac == Head(sock).from
           new == [mac |-> mac, window |-> FALSE, sinceStart |-> LongAgo]
<1>3. CASE hostlist_find_by_mac(mac) = {} /\ hosts' = Append(hosts, new)
  <2>1. /\ DOMAIN hosts' = 1..(Len(hosts) + 1)
        /\ \A i \in DOMAIN hosts : hosts'[i] = hosts[i]
        /\ hosts'[Len(hosts) + 1] = new
    <3>1. hosts \in Seq(Host)
      BY TypeParts DEF SeqTypes
    <3>2. new \in Host
      <4>1. sock # <<>> /\ sock \in Seq(Packet)
        BY TypeParts DEF LoopOK, SocketIO, Event, SeqTypes
      <4>2. Head(sock) \in Packet
        BY <4>1, HeadTailProperties
      <4> QED BY <4>2, GapNat DEF Packet, Host
    <3> HIDE DEF new
    <3> QED BY <1>0, <1>3, <3>1, <3>2, AppendProperties, LenProperties DEF Domain
  <2>2. \A i \in DOMAIN hosts : hosts[i].mac # mac
    BY <1>3 DEF hostlist_find_by_mac
  <2>3. new.mac = mac /\ ~new.window
    OBVIOUS
  <2> HIDE DEF new, mac
  <2>4. /\ \A i \in DOMAIN hosts' : i \in DOMAIN hosts \/ i = Len(hosts) + 1
        /\ DOMAIN hosts \subseteq DOMAIN hosts'
    BY <1>0, <2>1 DEF Domain
  <2>5. g_active_host # 0 => g_active_host \in DOMAIN hosts
    BY <1>0 DEF Domain
  <2> QED BY <1>1, <2>1, <2>2, <2>3, <2>4, <2>5 DEF HostsOK, Stays, Grows
<1>4. hosts' = hosts \/ (hostlist_find_by_mac(mac) = {} /\ hosts' = Append(hosts, new))
  BY DEF SocketIO, hostlist_register
<1> QED BY <1>2, <1>3, <1>4

\* A change of sinceStart in some slots.
LEMMA HostsSince ==
  ASSUME SystemTypeOK, HostsOK,
         hosts' \in Seq(Host), DOMAIN hosts' = DOMAIN hosts,
         \A i \in DOMAIN hosts : /\ hosts'[i].mac = hosts[i].mac
                                /\ hosts'[i].window = hosts[i].window,
         g_active_host' = g_active_host,
         pc' = "down" => pc = "down" /\ UNCHANGED <<stdin, sock, shown, drawn>>
  PROVE  HostsOK' /\ Stays
<1>0. Domain
  BY HostsDomain
<1>1. g_active_host # 0 => g_active_host \in DOMAIN hosts
  BY <1>0 DEF Domain
<1>2. pc' = "down" => hosts' = <<>>
  <2>1. hosts = <<>> => DOMAIN hosts' = {}
    OBVIOUS
  <2> QED BY <2>1, EmptySeq, LenProperties DEF HostsOK
<1> QED BY <1>1, <1>2 DEF HostsOK, Stays, Grows

LEMMA HostsInit == Init => HostsOK
BY DEF Init, ClientInit, HostsOK

\* A step that leaves all of this alone.
LEMMA HostsSame ==
  ASSUME HostsOK, UNCHANGED <<hosts, g_active_host, drawn>>,
         pc' = "down" => pc = "down",
         pc = "down" => UNCHANGED <<stdin, sock, shown>>
  PROVE  HostsOK' /\ Stays
BY DEF HostsOK, Stays, Grows

LEMMA HostsDown == Down => HostsOK'
BY DEF Down, HostsOK

LEMMA HostsNext ==
  ASSUME SystemTypeOK, LoopOK, HostsOK, [Next]_vars
  PROVE  HostsOK' /\ (Stays \/ (Grows /\ MenuKey) \/ Down)
<1>0. SystemTypeOK'
  BY TypeNext
<1>1. CASE Start
  BY <1>1, HostsSame DEF Start, Launch, hostVars, userVars
<1>2. CASE End
  BY <1>2, HostsDown DEF End, Dies
<1>3. CASE Work
  <2>1. CASE Wake
    BY <2>1, HostsSame DEF Wake, hostVars
  <2>2. CASE Interrupted
    BY <2>2, HostsSame DEF Interrupted, hostVars
  <2>3. CASE MenuKey
    BY <2>3, HostsMenuKey
  <2>4. CASE SessionKey
    <3>1. UNCHANGED <<hosts, g_active_host, drawn>> /\ pc # "down" /\ pc' # "down"
      BY <2>4 DEF SessionKey, Event, hostVars
    <3> QED BY <3>1, HostsSame
  <2>5. CASE EscByte
    BY <2>5, HostsSame DEF EscByte, hostVars
  <2>6. CASE EscEnds
    BY <2>6, HostsSame DEF EscEnds, hostVars
  <2>7. CASE SocketIO
    BY <2>7, HostsSocketIO
  <2> QED BY <1>3, <2>1, <2>2, <2>3, <2>4, <2>5, <2>6, <2>7 DEF Work, Loop
<1>4. CASE Refresh
  <2>1. CASE Down
    BY <2>1, HostsDown
  <2>2. CASE g_running
    <3>0. hosts' \in Seq(Host)
      BY <1>0, TypePartsNext DEF SeqTypes
    <3>1. hosts' = [i \in DOMAIN hosts |->
                      IF Due(i) THEN [hosts[i] EXCEPT !.sinceStart = 0] ELSE hosts[i]]
      BY <1>4, <2>2 DEF Refresh, Timers
    <3>2. DOMAIN hosts' = DOMAIN hosts
      BY <3>1
    <3>3. \A i \in DOMAIN hosts : /\ hosts'[i].mac = hosts[i].mac
                                 /\ hosts'[i].window = hosts[i].window
      BY <3>1, HostsDomain DEF Host
    <3>4. g_active_host' = g_active_host /\ pc' # "down"
      BY <1>4, <2>2 DEF Refresh, Timers
    <3> QED BY <3>0, <3>2, <3>3, <3>4, HostsSince
  <2> QED BY <1>4, <2>1, <2>2 DEF Refresh, Timers
<1>5. CASE \E s \in Server : Answer(s) \/ Reboot(s) \/ \E r \in Run : Stream(s, r)
  <2>1. UNCHANGED <<pc, hosts, g_active_host, drawn>>
    BY <1>5 DEF Answer, Reboot, Stream, Receive, quietVars, clientVars, hostVars
  <2>2. pc = "down" => UNCHANGED <<stdin, sock, shown>>
    BY <1>5 DEF Answer, Reboot, Stream, Receive, clientVars, userVars
  <2> QED BY <2>1, <2>2, HostsSame
<1>6. CASE \E bytes \in Typed : Type(bytes)
  BY <1>6, HostsSame DEF Type, hostVars
<1>7. CASE Pass
  <2>0. hosts' \in Seq(Host)
    BY <1>0, TypePartsNext DEF SeqTypes
  <2>1. hosts' = [i \in DOMAIN hosts |->
                    [hosts[i] EXCEPT !.sinceStart = Later(@, LongAgo)]]
    BY <1>7 DEF Pass, Elapse
  <2>2. DOMAIN hosts' = DOMAIN hosts
    BY <2>1
  <2>3. \A i \in DOMAIN hosts : /\ hosts'[i].mac = hosts[i].mac
                               /\ hosts'[i].window = hosts[i].window
    BY <2>1, HostsDomain DEF Host
  <2>4. UNCHANGED <<pc, g_active_host, stdin, sock, shown, drawn>>
    BY <1>7 DEF Pass, Elapse, userVars
  <2> QED BY <2>0, <2>2, <2>3, <2>4, HostsSince
<1>8. CASE UNCHANGED vars
  BY <1>8, HostsSame DEF vars, clientVars, hostVars, userVars
<1> QED BY <1>1, <1>2, <1>3, <1>4, <1>5, <1>6, <1>7, <1>8 DEF Next

\* A server under control stays so until the program ends.
LEMMA ControlsStays ==
  ASSUME SystemTypeOK, LoopOK, HostsOK, [Next]_vars,
         NEW s \in Server, Controls(s), pc' # "down"
  PROVE  Controls(s)' /\ Stays
<1>1. g_active_host \in DOMAIN hosts
  BY HostsDomain DEF Domain, Controls
<1>2. Stays
  <2>1. ~MenuKey
    BY DEF MenuKey, Controls
  <2>2. ~Down
    BY DEF Down
  <2> QED BY <2>1, <2>2, HostsNext
<1> QED BY <1>1, <1>2 DEF Controls, Stays, Grows

-----------------------------------------------------------------------------
(* Whose text is drawn.                                                    *)

\* A session of this run is at the server under control, and there is none of
\* a later run.
LeaseOK ==
  /\ \A s \in Server, r \in Run : r > run => lease[s][r] = Session!None
  /\ OnlyWanted

\* Text of this run's session in the socket is from the server under control.
SockOK ==
  \A i \in DOMAIN sock :
    sock[i].kind = "VGA_TEXT" /\ sock[i].id = run => Controls(sock[i].from)

LEMMA OnlyActiveStarts ==
  ASSUME SystemTypeOK, HostsOK, pc # "down", NEW s \in Starts
  PROVE  Controls(s) /\ s \in Server
<1>1. PICK i \in DOMAIN hosts : Due(i) /\ s = hosts[i].mac
  BY DEF Starts
<1>2. i = g_active_host /\ i # 0 /\ hosts[i] \in Host
  BY <1>1, HostsDomain DEF Due, HostsOK, Domain
<1> QED BY <1>1, <1>2 DEF Controls, Host

LEMMA DownUntilLaunch == [Next]_vars /\ pc = "down" /\ pc' # "down" => Start
BY DEF Next, End, Dies, Work, Loop, Wake, Interrupted, MenuKey, SessionKey, EscByte,
       EscEnds, SocketIO, Event, Refresh, Timers, Answer, Reboot, Stream, Receive,
       quietVars, Type, Pass, Elapse, vars, clientVars

LEMMA LeaseInit == Init => LeaseOK
BY DEF Init, ClientInit, LeaseOK, OnlyWanted, NoLease, Session!None

LEMMA LeaseSame ==
  ASSUME SystemTypeOK, LoopOK, HostsOK, LeaseOK, [Next]_vars, run' = run,
         \A s \in Server, r \in Run :
           lease[s][r] = Session!None => lease'[s][r] = Session!None
  PROVE  LeaseOK'
<1>1. \A s \in Server, r \in Run : r > run' => lease'[s][r] = Session!None
  BY DEF LeaseOK
<1>2. ASSUME NEW s \in Server, pc' # "down", Held(s)' PROVE Controls(s)'
  <2>1. run \in Run
    BY <1>2, TypeParts DEF Held, PlainTypes, Run
  <2>2. Held(s)
    BY <1>2, <2>1 DEF Held
  <2>3. CASE pc # "down"
    BY <1>2, <2>2, <2>3, ControlsStays DEF LeaseOK, OnlyWanted
  <2>4. CASE pc = "down"
    <3>1. run' = run + 1 /\ run \in Nat
      BY <1>2, <2>4, DownUntilLaunch, TypeParts DEF Start, Launch, PlainTypes
    <3> QED BY <3>1
  <2> QED BY <2>3, <2>4
<1> QED BY <1>1, <1>2 DEF LeaseOK, OnlyWanted

LEMMA LeaseNext ==
  ASSUME SystemTypeOK, LoopOK, HostsOK, LeaseOK, [Next]_vars
  PROVE  LeaseOK'
<1>0. run \in 0..MaxRuns /\ MaxRuns \in Nat
  BY TypeParts, ClientAssumption DEF PlainTypes
<1>1. CASE UNCHANGED <<run, lease>>
  BY <1>1, LeaseSame
<1>2. CASE Start
  <2>1. run' = run + 1 /\ lease' = lease
    BY <1>2 DEF Start, Launch
  <2>2. \A s \in Server, r \in Run : r > run => lease'[s][r] = Session!None
    BY <2>1 DEF LeaseOK
  <2>3. \A r \in Run : r >= run' => r > run
    BY <1>0, <2>1 DEF Run
  <2>4. run' \in Run
    BY <1>0, <1>2, <2>1 DEF Start, Launch, Run
  <2>5. \A s \in Server : ~Held(s)'
    BY <2>2, <2>3, <2>4, <1>0, <2>1 DEF Held, Run
  <2>6. \A r \in Run : r > run' => r >= run'
    BY <1>0, <2>1 DEF Run
  <2> QED BY <2>2, <2>3, <2>5, <2>6 DEF LeaseOK, OnlyWanted
<1>3. CASE Refresh
  <2>1. PICK arrived \in SUBSET Starts : Sent(Starts, arrived)
    BY <1>3 DEF Refresh
  <2>2. run' = run /\ run \in Run /\ pc # "down"
    BY <1>3 DEF Refresh, Timers, LoopOK
  <2>3. \A s \in Server : \A r \in Run :
          lease'[s][r] = lease[s][r] \/ (s \in arrived /\ r = run)
    <3>1. \A s \in Server : lease[s] \in [Run -> Session!None..(Lifetime + 1)]
      BY TypeParts DEF ServerTypes
    <3> QED BY <2>1, <3>1 DEF Sent, Session!Started
  <2>4. \A s \in Server, r \in Run : r > run' => lease'[s][r] = Session!None
    <3>1. ASSUME NEW s \in Server, NEW r \in Run, r > run
          PROVE  lease'[s][r] = Session!None
      <4>1. r # run
        BY <1>0, <3>1 DEF Run
      <4> QED BY <2>3, <3>1, <4>1 DEF LeaseOK
    <3> QED BY <2>2, <3>1
  <2>5. ASSUME NEW s \in Server, pc' # "down", Held(s)' PROVE Controls(s)'
    <3>1. Controls(s)
      <4>1. CASE s \in arrived
        BY <2>2, <4>1, OnlyActiveStarts
      <4>2. CASE s \notin arrived
        <5>1. lease'[s][run] = lease[s][run]
          BY <2>2, <2>3, <4>2
        <5>2. Held(s)
          BY <2>2, <2>5, <5>1 DEF Held
        <5> QED BY <2>2, <5>2 DEF LeaseOK, OnlyWanted
      <4> QED BY <4>1, <4>2
    <3> QED BY <2>5, <3>1, ControlsStays
  <2> QED BY <2>4, <2>5 DEF LeaseOK, OnlyWanted
<1>4. CASE Pass
  <2>1. run' = run
    BY <1>4 DEF Pass, Elapse
  <2>2. \A s \in Server, r \in Run :
          lease[s][r] = Session!None => lease'[s][r] = Session!None
    BY <1>4 DEF Pass, Session!Aged
  <2> QED BY <2>1, <2>2, LeaseSame
<1>5. CASE \E s \in Server : Reboot(s)
  <2>1. run' = run
    BY <1>5 DEF Reboot, clientVars
  <2>2. \A s \in Server, r \in Run :
          lease[s][r] = Session!None => lease'[s][r] = Session!None
    BY <1>5, TypeParts DEF Reboot, NoLease, ServerTypes
  <2> QED BY <2>1, <2>2, LeaseSame
<1>6. CASE End
  BY <1>6, <1>1 DEF End, Dies
<1>7. CASE Work
  BY <1>7, <1>1 DEF Work, Loop, Wake, Interrupted, MenuKey, SessionKey, EscByte, EscEnds,
                    SocketIO
<1>8. CASE \E s \in Server : Answer(s) \/ \E r \in Run : Stream(s, r)
  BY <1>8, <1>1 DEF Answer, Stream, Receive, quietVars
<1>9. CASE \E bytes \in Typed : Type(bytes)
  BY <1>9, <1>1 DEF Type
<1>10. CASE UNCHANGED vars
  BY <1>10, <1>1 DEF vars, clientVars
<1> QED BY <1>2, <1>3, <1>4, <1>5, <1>6, <1>7, <1>8, <1>9, <1>10 DEF Next

LEMMA SockInit == Init => SockOK /\ OwnScreen
BY DEF Init, ClientInit, SockOK, OwnScreen

\* Nothing is received, what is there may be read.
LEMMA SockSame ==
  ASSUME SystemTypeOK, LoopOK, HostsOK, SockOK, [Next]_vars,
         run' = run, pc # "down", pc' # "down",
         sock' = sock \/ (sock # <<>> /\ sock' = Tail(sock))
  PROVE  SockOK'
<1>1. sock \in Seq(Packet) /\ \A i \in DOMAIN sock : sock[i] \in Packet
  BY TypeParts DEF SeqTypes
<1>2. \A i \in DOMAIN sock' : \E j \in DOMAIN sock : sock'[i] = sock[j]
  <2>1. CASE sock # <<>> /\ sock' = Tail(sock)
    <3>1. /\ DOMAIN sock' = 1..(Len(sock) - 1) /\ DOMAIN sock = 1..Len(sock)
          /\ \A i \in 1..(Len(sock) - 1) : sock'[i] = sock[i + 1]
          /\ Len(sock) \in Nat
      BY <1>1, <2>1, HeadTailProperties, LenProperties
    <3> QED BY <3>1
  <2> QED BY <2>1
<1>3. ASSUME NEW i \in DOMAIN sock', sock'[i].kind = "VGA_TEXT", sock'[i].id = run
      PROVE  Controls(sock[i].from)'
  <2>1. PICK j \in DOMAIN sock : sock'[i] = sock[j]
    BY <1>2
  <2>2. Controls(sock[j].from) /\ sock[j].from \in Server
    BY <1>1, <1>3, <2>1 DEF SockOK, Packet
  <2>3. PICK s \in Server : s = sock[j].from
    BY <2>2
  <2>4. Controls(s)'
    BY <2>2, <2>3, ControlsStays
  <2> QED BY <2>1, <2>3, <2>4 DEF Controls
<1> QED BY <1>3 DEF SockOK

LEMMA SockReceive ==
  ASSUME SystemTypeOK, LoopOK, HostsOK, SockOK, NEW p \in Packet, Receive(p),
         p.kind = "VGA_TEXT" /\ p.id = run => Controls(p.from)
  PROVE  SockOK'
<1>1. UNCHANGED <<run, pc, hosts, g_active_host>>
  BY DEF Receive, quietVars, hostVars
<1>2. \A s : Controls(s)' <=> Controls(s)
  BY <1>1 DEF Controls
<1>3. CASE sock' = sock
  BY <1>1, <1>3 DEF SockOK, Controls
<1>4. CASE sock' = Append(sock, p)
  <2>1. sock \in Seq(Packet)
    BY TypeParts DEF SeqTypes
  <2>2. /\ DOMAIN sock' = 1..(Len(sock) + 1) /\ DOMAIN sock = 1..Len(sock)
        /\ \A i \in 1..Len(sock) : sock'[i] = sock[i]
        /\ sock'[Len(sock) + 1] = p /\ Len(sock) \in Nat
    BY <1>4, <2>1, AppendProperties, LenProperties
  <2>3. ASSUME NEW i \in DOMAIN sock', sock'[i].kind = "VGA_TEXT", sock'[i].id = run
        PROVE  Controls(sock'[i].from)
    <3>1. CASE i = Len(sock) + 1
      BY <2>2, <2>3, <3>1
    <3>2. CASE i \in DOMAIN sock /\ sock'[i] = sock[i]
      BY <2>3, <3>2 DEF SockOK
    <3> QED BY <2>2, <3>1, <3>2
  <2> QED BY <1>1, <2>3 DEF SockOK, Controls
<1> QED BY <1>3, <1>4 DEF Receive

LEMMA SockNext ==
  ASSUME SystemTypeOK, LoopOK, HostsOK, LeaseOK, SockOK, [Next]_vars
  PROVE  SockOK'
<1>1. CASE Start
  <2>1. sock' = <<>>
    BY <1>1 DEF Start, Launch, HostsOK
  <2> QED BY <2>1 DEF SockOK
<1>2. CASE Down
  BY <1>2 DEF Down, SockOK
<1>3. CASE Work
  <2>1. /\ run' = run /\ pc # "down" /\ pc' # "down"
        /\ sock' = sock \/ (SocketIO /\ sock' = Tail(sock))
    BY <1>3 DEF Work, Loop, Wake, Interrupted, MenuKey, SessionKey, EscByte, EscEnds,
                SocketIO, Event
  <2>2. SocketIO => sock # <<>>
    BY DEF SocketIO, Event, LoopOK
  <2> QED BY <2>1, <2>2, SockSame
<1>4. CASE Refresh /\ ~Down
  <2>1. UNCHANGED <<run, sock>> /\ pc # "down" /\ pc' # "down"
    BY <1>4 DEF Refresh, Timers
  <2> QED BY <2>1, SockSame
<1>5. CASE \E s \in Server : Answer(s) \/ Reboot(s) \/ \E r \in Run : Stream(s, r)
  <2>1. ASSUME NEW s \in Server, Answer(s) PROVE SockOK'
    <3>1. [kind |-> "STATUS_RESP", from |-> s, id |-> run] \in Packet
      BY <2>1 DEF LoopOK, Answer, Receive, Packet
    <3> QED BY <2>1, <3>1, SockReceive DEF Answer
  <2>2. ASSUME NEW s \in Server, Reboot(s) PROVE SockOK'
    BY <2>2 DEF SockOK, Reboot, Controls, clientVars, hostVars
  <2>3. ASSUME NEW s \in Server, NEW r \in Run, Stream(s, r) PROVE SockOK'
    <3> DEFINE p == [kind |-> "VGA_TEXT", from |-> s, id |-> r]
    <3>1. p \in Packet
      BY DEF Packet
    <3>2. p.id = run => Controls(p.from)
      <4>1. ASSUME r = run PROVE Controls(s)
        BY <2>3, <4>1 DEF Stream, Receive, LeaseOK, OnlyWanted, Held, Run
      <4> QED BY <4>1
    <3>3. Receive(p)
      BY <2>3 DEF Stream
    <3> QED BY <3>1, <3>2, <3>3, SockReceive
  <2> QED BY <1>5, <2>1, <2>2, <2>3
<1>6. CASE \E bytes \in Typed : Type(bytes)
  BY <1>6 DEF SockOK, Type, Controls, hostVars
<1>7. CASE Pass
  <2>1. UNCHANGED <<run, pc, sock>>
    BY <1>7 DEF Pass, Elapse
  <2>2. CASE pc = "down"
    BY <2>1, <2>2 DEF SockOK, HostsOK
  <2>3. CASE pc # "down"
    BY <2>1, <2>3, SockSame
  <2> QED BY <2>2, <2>3
<1>8. CASE UNCHANGED vars
  BY <1>8 DEF SockOK, vars, Controls, clientVars, hostVars
<1> QED BY <1>1, <1>2, <1>3, <1>4, <1>5, <1>6, <1>7, <1>8 DEF Next, End, Dies

LEMMA OwnNext ==
  ASSUME SystemTypeOK, LoopOK, HostsOK, SockOK, OwnScreen, [Next]_vars
  PROVE  OwnScreen'
<1>1. CASE drawn' = {}
  BY <1>1 DEF OwnScreen
<1>2. CASE pc = "down"
  <2>1. drawn' = {}
    BY <1>2, HostsNext DEF HostsOK, Next, Start, Launch, End, Dies, Work, Loop, Wake,
         Interrupted, MenuKey, SessionKey, EscByte, EscEnds, SocketIO, Event, Refresh,
         Timers, Answer, Reboot, Stream, Receive, Type, Pass, Elapse, vars, clientVars
  <2> QED BY <2>1, <1>1
<1>3. CASE pc # "down" /\ drawn' # {}
  <2>1. pc' # "down"
    BY <1>3, HostsNext DEF HostsOK
  <2>2. drawn' = drawn \/ (SocketIO /\ drawn' # drawn)
    BY <1>3, <2>1 DEF Next, Start, Launch, End, Dies, Work, Loop, Wake, Interrupted,
         MenuKey, SessionKey, EscByte, EscEnds, Refresh, Timers, Down, Answer, Reboot,
         Stream, Receive, quietVars, Type, Pass, Elapse, vars, clientVars
  <2>3. ASSUME NEW s \in drawn' PROVE Controls(s)'
    <3>1. CASE s \in drawn
      <4>1. s \in Server /\ Controls(s)
        BY <3>1, TypeParts DEF PlainTypes, OwnScreen
      <4> QED BY <4>1, <2>1, ControlsStays
    <3>2. CASE SocketIO /\ s \notin drawn
      <4>1. Accepts(Head(sock)) /\ Head(sock).kind = "VGA_TEXT" /\ s = Head(sock).from
        BY <2>3, <3>2 DEF SocketIO, update_session_window
      <4>2. sock # <<>> /\ sock \in Seq(Packet)
        BY <3>2, TypeParts DEF LoopOK, SocketIO, Event, SeqTypes
      <4>3. Head(sock) = sock[1] /\ 1 \in DOMAIN sock /\ sock[1] \in Packet
        BY <4>2, HeadTailProperties, LenProperties, EmptySeq
      <4>4. s \in Server /\ Controls(s)
        BY <4>1, <4>3 DEF SockOK, Accepts, Packet
      <4> QED BY <4>4, <2>1, ControlsStays
    <3> QED BY <2>2, <2>3, <3>1, <3>2
  <2> QED BY <2>3 DEF OwnScreen
<1> QED BY <1>1, <1>2, <1>3

-----------------------------------------------------------------------------
(* What the user means.                                                    *)

\* A digit stands for a server at its place in the list.
Means(k) ==
  \/ k.meant = NoServer
  \/ /\ k.byte \in DOMAIN Digit /\ Digit[k.byte] + 1 \in DOMAIN hosts
     /\ k.meant = hosts[Digit[k.byte] + 1].mac
MenuOK ==
  /\ \A i \in DOMAIN shown : i \in DOMAIN hosts /\ shown[i] = hosts[i].mac
  /\ \A i \in DOMAIN stdin : Means(stdin[i])

LEMMA MenuInit == Init => MenuOK
BY DEF Init, ClientInit, MenuOK

\* Keys are read or none are, the menu is as it was.
LEMMA MenuRead ==
  ASSUME SystemTypeOK, MenuOK, Grows, shown' = shown,
         stdin' = stdin \/ (stdin # <<>> /\ stdin' = Tail(stdin))
  PROVE  MenuOK'
<1>1. \A i \in DOMAIN stdin' : \E j \in DOMAIN stdin : stdin'[i] = stdin[j]
  <2>1. CASE stdin # <<>> /\ stdin' = Tail(stdin)
    <3>0. stdin \in Seq(Key)
      BY TypeParts DEF SeqTypes
    <3>1. /\ DOMAIN stdin' = 1..(Len(stdin) - 1) /\ DOMAIN stdin = 1..Len(stdin)
          /\ \A i \in 1..(Len(stdin) - 1) : stdin'[i] = stdin[i + 1]
          /\ Len(stdin) \in Nat
      BY <3>0, <2>1, HeadTailProperties, LenProperties
    <3> QED BY <3>1
  <2> QED BY <2>1
<1>2. \A i \in DOMAIN shown' : i \in DOMAIN hosts' /\ shown'[i] = hosts'[i].mac
  BY DEF MenuOK, Grows
<1>3. \A i \in DOMAIN stdin' : Means(stdin[i])'
  <2>1. ASSUME NEW i \in DOMAIN stdin' PROVE Means(stdin[i])'
    <3>1. PICK j \in DOMAIN stdin : stdin'[i] = stdin[j]
      BY <1>1, <2>1
    <3>2. Means(stdin[j])
      BY DEF MenuOK
    <3> QED BY <3>1, <3>2 DEF Means, Grows
  <2> QED BY <2>1
<1> QED BY <1>2, <1>3 DEF MenuOK

LEMMA MenuNext ==
  ASSUME SystemTypeOK, LoopOK, HostsOK, MenuOK, [Next]_vars
  PROVE  MenuOK'
<1>1. CASE Down
  BY <1>1 DEF Down, MenuOK
<1>0. CASE ~Down
  <2>0. Grows
    BY <1>0, HostsNext DEF Stays
  <2>1. CASE Work
    <3>1. /\ shown' = shown
          /\ stdin' = stdin \/ ((MenuKey \/ SessionKey \/ EscByte) /\ stdin' = Tail(stdin))
      BY <2>1 DEF Work, Loop, Wake, Interrupted, MenuKey, SessionKey, EscByte, EscEnds,
                  SocketIO, userVars
    <3>2. MenuKey \/ SessionKey \/ EscByte => stdin # <<>>
      BY DEF MenuKey, SessionKey, EscByte, Event, LoopOK
    <3> QED BY <2>0, <3>1, <3>2, MenuRead
  <2>2. CASE Refresh
    <3>1. stdin' = stdin /\ shown' \in {<<>>, Menu}
      BY <1>0, <2>2 DEF Refresh, Timers
    <3>2. \A i \in DOMAIN shown' : i \in DOMAIN hosts' /\ shown'[i] = hosts'[i].mac
      BY <2>0, <3>1 DEF Menu, Grows
    <3>3. \A i \in DOMAIN stdin' : Means(stdin[i])'
      BY <2>0, <3>1 DEF MenuOK, Means, Grows
    <3> QED BY <3>2, <3>3 DEF MenuOK
  <2>3. CASE \E bytes \in Typed : Type(bytes)
    <3>1. PICK bytes \in Typed : Type(bytes)
      BY <2>3
    <3>2. UNCHANGED <<hosts, shown>>
      BY <3>1 DEF Type, hostVars
    <3>3. ASSUME NEW i \in DOMAIN stdin' PROVE Means(stdin[i])'
      <4>1. stdin'[i].byte = bytes[i] /\ stdin'[i].meant = Meant(bytes[i])
        BY <3>1, <3>3 DEF Type
      <4> QED BY <3>2, <4>1 DEF Meant, Means, MenuOK
    <3> QED BY <3>2, <3>3 DEF MenuOK
  <2>4. CASE Start \/ Pass \/ UNCHANGED vars
    <3>1. UNCHANGED <<shown, stdin>>
      BY <2>4 DEF Start, Launch, Pass, Elapse, vars, clientVars, userVars
    <3> QED BY <2>0, <3>1, MenuRead
  <2>5. CASE \E s \in Server : Answer(s) \/ Reboot(s) \/ \E r \in Run : Stream(s, r)
    <3>1. UNCHANGED <<shown, stdin>>
      BY <2>5 DEF Answer, Reboot, Stream, Receive, quietVars, clientVars, userVars
    <3> QED BY <2>0, <3>1, MenuRead
  <2> QED BY <1>0, <2>1, <2>2, <2>3, <2>4, <2>5 DEF Next, End, Dies
<1> QED BY <1>0, <1>1

LEMMA ChosenNext ==
  ASSUME SystemTypeOK, LoopOK, HostsOK, MenuOK, [Next]_vars
  PROVE  ChosenStep
<1> SUFFICES ASSUME g_active_host' # g_active_host, pc' # "down"
             PROVE  Head(stdin).meant \in {NoServer, hosts'[g_active_host'].mac}
  BY DEF ChosenStep
<1>1. Grows /\ MenuKey
  BY HostsNext DEF Stays, Down
<1>2. stdin # <<>> /\ stdin \in Seq(Key)
  BY <1>1, TypeParts DEF MenuKey, Event, LoopOK, SeqTypes
<1>3. Means(Head(stdin))
  <2>1. Head(stdin) = stdin[1] /\ 1 \in DOMAIN stdin
    BY <1>2, HeadTailProperties, LenProperties, EmptySeq
  <2> QED BY <2>1 DEF MenuOK
<1>4. /\ Head(stdin).byte \in DOMAIN Digit
      /\ g_active_host' = Digit[Head(stdin).byte] + 1
      /\ g_active_host' \in DOMAIN hosts
  BY <1>1 DEF MenuKey, hostVars, hostlist_find_by_index, start_remote_control
<1> QED BY <1>1, <1>3, <1>4 DEF Means, Grows

-----------------------------------------------------------------------------
(* How long ago a start was sent.                                          *)

\* The longest a client has gone without when epoll_wait has been cut short n
\* times.
Wait(n) == StartInterval + n * EpollTimeout
Longest == Wait(MaxSignals + 1)
Since == hosts[g_active_host].sinceStart

Punctual ==
  /\ pc = "down" => wait = 0
  /\ pc = "epoll" => wait <= EpollTimeout
  /\ pc = "esc" => wait <= EscTime
  /\ g_active_host # 0 =>
       /\ pc = "epoll" => Since <= Wait(signals) + wait
       /\ pc = "events" /\ "stdin" \in todo => Since <= Longest
       /\ pc = "esc" => Since <= Longest + wait

LEMMA Waits ==
  /\ Wait(0) = StartInterval /\ Longest \in Nat /\ Gap = Longest + EscTime
  /\ \A n \in 0..MaxSignals : /\ Wait(n) \in Nat /\ Wait(n + 1) \in Nat
                              /\ Wait(n + 1) = Wait(n) + EpollTimeout
                              /\ Wait(n + 1) <= Longest
<1>0. /\ StartInterval \in Nat /\ EpollTimeout \in Nat /\ MaxSignals \in Nat
      /\ EscTime \in Nat
  BY ClientAssumption
<1>1. \A n \in Nat : n * EpollTimeout \in Nat
                    /\ (n + 1) * EpollTimeout = n * EpollTimeout + EpollTimeout
  BY <1>0
<1>2. Wait(0) = StartInterval /\ Longest \in Nat /\ Gap = Longest + EscTime
  BY <1>0, <1>1 DEF Wait, Longest, Gap
<1>3. ASSUME NEW n \in 0..MaxSignals PROVE Wait(n + 1) <= Longest
  <2>1. PICK d \in Nat : MaxSignals + 1 = (n + 1) + d
    <3>1. MaxSignals - n \in Nat /\ MaxSignals + 1 = (n + 1) + (MaxSignals - n)
      BY <1>0
    <3> QED BY <3>1
  <2>2. (MaxSignals + 1) * EpollTimeout = (n + 1) * EpollTimeout + d * EpollTimeout
    BY <1>0, <2>1
  <2> QED BY <1>0, <1>1, <2>1, <2>2 DEF Wait, Longest
<1>4. \A n \in 0..MaxSignals : /\ Wait(n) \in Nat /\ Wait(n + 1) \in Nat
                              /\ Wait(n + 1) = Wait(n) + EpollTimeout
  BY <1>0, <1>1 DEF Wait
<1> QED BY <1>2, <1>3, <1>4

LEMMA SinceType == SystemTypeOK /\ g_active_host # 0 => Since \in 0..Gap
BY HostsDomain, GapNat DEF Since, Domain, Host

LEMMA PunctualInit == Init => Punctual
BY ClientAssumption DEF Init, ClientInit, Punctual

LEMMA PunctualSame ==
  ASSUME Punctual,
         UNCHANGED <<pc, g_active_host, wait, signals>>,
         todo' \subseteq todo, g_active_host # 0 => Since' = Since
  PROVE  Punctual'
BY DEF Punctual

LEMMA SocketKeeps ==
  ASSUME SystemTypeOK, LoopOK, HostsOK, SocketIO
  PROVE  g_active_host # 0 => hosts'[g_active_host] = hosts[g_active_host]
<1>1. Head(sock).from \in Server
  <2>1. sock # <<>> /\ sock \in Seq(Packet)
    BY TypeParts DEF LoopOK, SocketIO, Event, SeqTypes
  <2>2. Head(sock) \in Packet
    BY <2>1, HeadTailProperties
  <2> QED BY <2>2 DEF Packet
<1>2. SeqTypes /\ Domain
  BY TypeParts, HostsDomain
<1>3. hosts' = hosts \/ hosts' = hostlist_register(Head(sock).from)
  BY DEF SocketIO
<1> QED BY <1>1, <1>2, <1>3, TypeRegister DEF Domain

\* A client that waits and has a server under control is not late: a moment
\* more and the last start is one moment older.
LEMMA PassSince ==
  ASSUME SystemTypeOK, HostsOK, Punctual, Elapse, g_active_host # 0
  PROVE  Since' = Since + 1 /\ Since < Gap /\ Blocked /\ wait' = wait + 1
<1>1. Blocked /\ wait' = wait + 1
  BY DEF Elapse, HostsOK
<1>2. Since < Gap
  <2>1. /\ signals \in 0..MaxSignals /\ wait \in Nat /\ Since \in Nat
        /\ EpollTimeout \in Nat /\ EscTime \in Nat
    BY SinceType, GapNat, TypeParts, ClientAssumption DEF PlainTypes
  <2>2. CASE pc = "epoll" /\ wait < EpollTimeout
    <3>1. Since <= Wait(signals) + wait
      BY <2>2 DEF Punctual
    <3> QED BY <2>1, <2>2, <3>1, Waits
  <2>3. CASE pc = "esc" /\ wait < EscTime
    <3>1. Since <= Longest + wait
      BY <2>3 DEF Punctual
    <3> QED BY <2>1, <2>3, <3>1, Waits
  <2> QED BY <1>1, <2>2, <2>3 DEF Blocked
<1>3. Since' = Later(Since, LongAgo)
  <2>1. g_active_host \in DOMAIN hosts /\ g_active_host' = g_active_host
    BY HostsDomain DEF Domain, Elapse
  <2>2. hosts'[g_active_host] =
          [hosts[g_active_host] EXCEPT !.sinceStart = Later(@, LongAgo)]
    BY <2>1 DEF Elapse
  <2> QED BY <2>1, <2>2, HostsDomain DEF Since, Host
<1> QED BY <1>1, <1>2, <1>3, GapNat DEF Later

LEMMA TimersSince ==
  ASSUME SystemTypeOK, HostsOK, Timers, ~Down, g_active_host # 0
  PROVE  /\ g_active_host' = g_active_host
         /\ Since' = IF Due(g_active_host) THEN 0 ELSE Since
         /\ Since' <= StartInterval
<1>1. /\ g_active_host' = g_active_host /\ g_active_host \in DOMAIN hosts
      /\ hosts' = [i \in DOMAIN hosts |->
                     IF Due(i) THEN [hosts[i] EXCEPT !.sinceStart = 0] ELSE hosts[i]]
  BY HostsDomain DEF Timers, Domain
<1>2. Since' = IF Due(g_active_host) THEN 0 ELSE Since
  <2>1. hosts'[g_active_host] = IF Due(g_active_host)
                                THEN [hosts[g_active_host] EXCEPT !.sinceStart = 0]
                                ELSE hosts[g_active_host]
    BY <1>1
  <2> QED BY <1>1, <2>1, HostsDomain DEF Since, Host
<1>3. Due(g_active_host) <=> Since > StartInterval
  BY DEF Due, HostsOK, Since
<1> QED BY <1>1, <1>2, <1>3, SinceType, GapNat, ClientAssumption

LEMMA PunctualNext ==
  ASSUME SystemTypeOK, LoopOK, HostsOK, Punctual, [Next]_vars
  PROVE  Punctual'
<1>0. /\ signals \in 0..MaxSignals /\ wait \in Nat
      /\ EpollTimeout \in Nat /\ EscTime \in Nat /\ StartInterval \in Nat
  BY TypeParts, ClientAssumption DEF PlainTypes
<1>1. CASE Start
  <2>1. pc' = "epoll" /\ g_active_host' = 0 /\ wait' = 0
    BY <1>1 DEF Start, Launch, hostVars, HostsOK, Punctual
  <2> QED BY <1>0, <2>1 DEF Punctual
<1>2. CASE Down
  BY <1>2 DEF Down, Punctual
<1>3. CASE Work
  <2>1. CASE Wake
    <3>1. /\ UNCHANGED <<g_active_host, hosts, wait, signals>>
          /\ pc = "epoll" /\ pc' = "events"
      BY <2>1 DEF Wake, hostVars, timeVars
    <3>2. g_active_host # 0 => Since' <= Longest
      <4>1. ASSUME g_active_host # 0 PROVE Since <= Longest
        <5>1. Since <= Wait(signals) + wait /\ wait <= EpollTimeout /\ Since \in Nat
          BY <3>1, <4>1, SinceType, GapNat DEF Punctual
        <5> QED BY <1>0, <5>1, Waits
      <4> QED BY <3>1, <4>1 DEF Since
    <3> QED BY <3>1, <3>2 DEF Punctual
  <2>2. CASE Interrupted
    <3>1. /\ UNCHANGED <<g_active_host, hosts, pc>> /\ pc = "epoll"
          /\ signals' = signals + 1 /\ wait' = 0
      BY <2>2 DEF Interrupted, hostVars
    <3>2. g_active_host # 0 => Since <= Wait(signals + 1)
      <4>1. ASSUME g_active_host # 0 PROVE Since <= Wait(signals + 1)
        <5>1. Since <= Wait(signals) + wait /\ wait <= EpollTimeout /\ Since \in Nat
          BY <3>1, <4>1, SinceType, GapNat DEF Punctual
        <5> QED BY <1>0, <5>1, Waits
      <4> QED BY <4>1
    <3>3. Since' = Since
      BY <3>1 DEF Since
    <3>4. Wait(signals + 1) \in Nat
      BY <1>0, Waits
    <3>5. g_active_host # 0 => Since <= Wait(signals + 1) + 0
      BY <3>2, <3>4
    <3> QED BY <1>0, <3>1, <3>3, <3>5 DEF Punctual
  <2>3. CASE MenuKey
    <3>1. pc = "events" /\ pc' = "events" /\ "stdin" \notin todo'
      BY <2>3 DEF MenuKey, Event
    <3> QED BY <3>1 DEF Punctual
  <2>4. CASE SessionKey
    <3>1. /\ UNCHANGED <<g_active_host, hosts>> /\ g_active_host # 0
          /\ pc = "events" /\ "stdin" \in todo /\ "stdin" \notin todo'
          /\ pc' = "events" \/ (pc' = "esc" /\ wait' = 0)
      BY <2>4 DEF SessionKey, Event, hostVars
    <3>2. Since <= Longest /\ Since' = Since
      BY <3>1 DEF Punctual, Since
    <3>3. Since' <= Longest + 0
      BY <3>2, Waits
    <3> QED BY <1>0, <3>1, <3>3 DEF Punctual
  <2>5. CASE EscByte
    BY <2>5, PunctualSame DEF EscByte, hostVars, timeVars, Since
  <2>6. CASE EscEnds
    <3>1. pc' = "events" /\ "stdin" \notin todo'
      BY <2>6 DEF EscEnds, LoopOK
    <3> QED BY <3>1 DEF Punctual
  <2>7. CASE SocketIO
    <3>1. UNCHANGED <<pc, g_active_host, wait, signals>> /\ todo' \subseteq todo
      BY <2>7 DEF SocketIO, Event, timeVars
    <3>2. g_active_host # 0 => Since' = Since
      BY <2>7, <3>1, SocketKeeps DEF Since
    <3> QED BY <3>1, <3>2, PunctualSame
  <2> QED BY <1>3, <2>1, <2>2, <2>3, <2>4, <2>5, <2>6, <2>7 DEF Work, Loop
<1>4. CASE Refresh /\ ~Down
  <2>1. pc' = "epoll" /\ wait' = 0 /\ signals' = 0 /\ g_active_host' = g_active_host
    BY <1>4 DEF Refresh, Timers
  <2>2. g_active_host # 0 => Since' <= StartInterval
    BY <1>4, TimersSince DEF Refresh
  <2>3. g_active_host # 0 => Since' <= Wait(0) + 0
    BY <1>0, <2>2, Waits
  <2> QED BY <1>0, <2>1, <2>3 DEF Punctual
<1>5. CASE \E s \in Server : Answer(s) \/ Reboot(s) \/ \E r \in Run : Stream(s, r)
  <2>1. UNCHANGED <<pc, hosts, g_active_host, wait, signals, todo>>
    BY <1>5 DEF Answer, Reboot, Stream, Receive, quietVars, clientVars, hostVars, timeVars
  <2> QED BY <2>1, PunctualSame DEF Since
<1>6. CASE \E bytes \in Typed : Type(bytes)
  BY <1>6, PunctualSame DEF Type, hostVars, timeVars, Since
<1>7. CASE Pass
  <2>1. CASE pc = "down"
    <3>1. pc' = "down" /\ g_active_host' = 0 /\ wait' = wait
      BY <1>7, <2>1 DEF Pass, Elapse, Blocked, HostsOK
    <3> QED BY <2>1, <3>1 DEF Punctual
  <2>2. CASE pc # "down"
    <3>1. UNCHANGED <<pc, g_active_host, signals>> /\ wait' = wait + 1 /\ Blocked
      BY <1>7, <2>2 DEF Pass, Elapse
    <3>2. CASE g_active_host = 0
      BY <1>0, <3>1, <3>2 DEF Punctual, Blocked
    <3>3. CASE g_active_host # 0
      <4>1. Since' = Since + 1 /\ Since \in Nat
        BY <1>7, <3>3, PassSince, SinceType, GapNat DEF Pass
      <4>2. CASE pc = "epoll" /\ wait < EpollTimeout
        <5>1. Since <= Wait(signals) + wait /\ Wait(signals) \in Nat
          BY <1>0, <3>3, <4>2, Waits DEF Punctual
        <5>2. Since' <= Wait(signals) + wait' /\ wait' <= EpollTimeout
          BY <1>0, <3>1, <4>1, <4>2, <5>1
        <5> QED BY <3>1, <4>2, <5>2 DEF Punctual
      <4>3. CASE pc = "esc" /\ wait < EscTime
        <5>1. Since <= Longest + wait /\ Longest \in Nat
          BY <3>3, <4>3, Waits DEF Punctual
        <5>2. Since' <= Longest + wait' /\ wait' <= EscTime
          BY <1>0, <3>1, <4>1, <4>3, <5>1
        <5> QED BY <3>1, <4>3, <5>2 DEF Punctual
      <4> QED BY <3>1, <4>2, <4>3 DEF Blocked
    <3> QED BY <3>2, <3>3
  <2> QED BY <2>1, <2>2
<1>8. CASE UNCHANGED vars
  BY <1>8, PunctualSame DEF vars, clientVars, hostVars, timeVars, Since
<1> QED BY <1>1, <1>2, <1>3, <1>4, <1>5, <1>6, <1>7, <1>8 DEF Next, End, Dies

-----------------------------------------------------------------------------
(* How old a session can be.                                               *)

\* A start that is lost costs its session a Gap.
Missed(n) == n * Gap
Young ==
  \A s \in Server :
    Controls(s) /\ Held(s) => lease[s][run] <= Since + Missed(lost[s])

LEMMA Misses ==
  \A n \in 0..MaxLost : /\ Missed(n) \in Nat /\ Missed(n + 1) = Missed(n) + Gap
                       /\ Missed(n) + Gap <= Lifetime + 1
<1>0. Gap \in Nat /\ MaxLost \in Nat /\ Lifetime \in Nat
      /\ (MaxLost + 1) * Gap <= Lifetime + 1
  BY GapNat, SystemAssumption
<1>1. \A n \in Nat : n * Gap \in Nat /\ (n + 1) * Gap = n * Gap + Gap
  BY <1>0
<1>2. ASSUME NEW n \in 0..MaxLost PROVE (n + 1) * Gap <= Lifetime + 1
  <2>1. PICK d \in Nat : MaxLost + 1 = (n + 1) + d
    <3>1. MaxLost - n \in Nat /\ MaxLost + 1 = (n + 1) + (MaxLost - n)
      BY <1>0
    <3> QED BY <3>1
  <2>2. (MaxLost + 1) * Gap = (n + 1) * Gap + d * Gap
    BY <1>0, <2>1
  <2>3. d * Gap \in Nat /\ (n + 1) * Gap \in Nat
    BY <1>0, <1>1
  <2> QED BY <1>0, <2>2, <2>3
<1> QED BY <1>1, <1>2 DEF Missed

LEMMA LeaseTyped ==
  ASSUME SystemTypeOK, NEW s \in Server, Held(s)
  PROVE  run \in Run /\ lease[s][run] \in 0..(Lifetime + 1) /\ lost[s] \in 0..MaxLost
<1>1. run \in Run
  BY TypeParts, ClientAssumption DEF Held, PlainTypes, Run
<1>2. lease[s] \in [Run -> Session!None..(Lifetime + 1)] /\ lost[s] \in 0..MaxLost
  BY TypeParts DEF ServerTypes
<1>3. lease[s][run] \in (-1)..(Lifetime + 1) /\ lease[s][run] # -1
  BY <1>1, <1>2 DEF Held, Session!None
<1> QED BY <1>1, <1>2, <1>3, SystemAssumption

\* No session is given and no start sent.
LEMMA YoungSame ==
  ASSUME SystemTypeOK, HostsOK, Young, UNCHANGED <<run, g_active_host, lost>>,
         pc # "down", g_active_host # 0 => hosts'[g_active_host] = hosts[g_active_host],
         \A s \in Server : Held(s)' => Held(s) /\ lease'[s][run] = lease[s][run]
  PROVE  Young'
BY DEF Young, Since, Controls

LEMMA YoungInit == Init => Young
BY DEF Init, ClientInit, Young, Controls

LEMMA YoungRefresh ==
  ASSUME SystemTypeOK, LoopOK, HostsOK, Punctual, Young, Refresh, ~Down, [Next]_vars,
         NEW s \in Server, Controls(s)', Held(s)'
  PROVE  lease'[s][run] <= Since' + Missed(lost'[s]) /\ run' = run
<1>0. pc # "down" /\ pc' # "down" /\ run' = run /\ run \in Run
  BY DEF Refresh, Timers, LoopOK
<1>1. g_active_host # 0 /\ g_active_host' = g_active_host /\ Controls(s)
  <2>1. g_active_host' = g_active_host
    BY DEF Refresh, Timers
  <2>2. g_active_host \in DOMAIN hosts
    BY <2>1, HostsDomain DEF Domain, Controls
  <2>3. ~MenuKey
    BY DEF Refresh, Timers, MenuKey, Event
  <2>4. Stays
    BY <2>3, HostsNext
  <2> QED BY <1>0, <2>1, <2>2, <2>4 DEF Controls, Stays, Grows
<1>2. /\ Since' = (IF Due(g_active_host) THEN 0 ELSE Since) /\ Since \in 0..Gap
      /\ Gap \in Nat
  BY <1>1, TimersSince, SinceType, GapNat DEF Refresh
<1>3. s \in Starts <=> Due(g_active_host)
  <2>1. g_active_host \in DOMAIN hosts /\ hosts[g_active_host].mac = s
    BY <1>1, HostsDomain DEF Domain, Controls
  <2> QED BY <2>1 DEF Starts, HostsOK
<1>4. PICK arrived \in SUBSET Starts : Sent(Starts, arrived)
  BY DEF Refresh
<1>5. lost[s] \in 0..MaxLost /\ MaxLost \in Nat
      /\ lease[s] \in [Run -> Session!None..(Lifetime + 1)]
  BY TypeParts, SystemAssumption DEF ServerTypes
<1>6. CASE s \in arrived
  <2>1. lost'[s] = 0 /\ Since' = 0
    BY <1>2, <1>3, <1>4, <1>6 DEF Sent
  <2>2. lease'[s][run] = 0
    <3>1. CASE Session!CanStart(lease[s], run)
      BY <1>0, <1>4, <1>5, <1>6, <3>1 DEF Sent, Session!Started
    <3>2. CASE ~Session!CanStart(lease[s], run)
      <4>1. lease'[s] = lease[s] /\ lease[s][run] = Session!None
        BY <1>4, <1>6, <3>2 DEF Sent, Session!CanStart
      <4> QED BY <1>0, <4>1 DEF Held
    <3> QED BY <3>1, <3>2
  <2>3. 0 \in 0..MaxLost /\ Missed(0) \in Nat
    BY <1>5, Misses
  <2> QED BY <1>0, <2>1, <2>2, <2>3
<1>7. CASE s \notin arrived
  <2>1. lease'[s] = lease[s]
    BY <1>4, <1>7 DEF Sent
  <2>2. Held(s)
    BY <1>0, <2>1 DEF Held
  <2>3. lease[s][run] <= Since + Missed(lost[s]) /\ lease[s][run] \in 0..(Lifetime + 1)
    BY <1>1, <2>2, LeaseTyped DEF Young
  <2>4. CASE s \in Starts
    <3>1. lost'[s] = lost[s] + 1 /\ Since' = 0
      BY <1>2, <1>3, <1>4, <1>7, <2>4 DEF Sent
    <3>2. Missed(lost[s]) \in Nat /\ Missed(lost[s] + 1) = Missed(lost[s]) + Gap
      BY <1>5, Misses
    <3>3. lease[s][run] <= 0 + Missed(lost[s] + 1)
      BY <1>2, <2>3, <3>2, SystemAssumption
    <3> QED BY <1>0, <2>1, <3>1, <3>3
  <2>5. CASE s \notin Starts
    <3>1. lost'[s] = lost[s] /\ Since' = Since
      BY <1>2, <1>3, <1>4, <1>7, <2>5 DEF Sent
    <3> QED BY <1>0, <2>1, <2>3, <3>1
  <2> QED BY <2>4, <2>5
<1> QED BY <1>6, <1>7

LEMMA YoungPass ==
  ASSUME SystemTypeOK, HostsOK, Punctual, Young, Pass,
         NEW s \in Server, Controls(s), Held(s)
  PROVE  /\ Held(s)' /\ run' = run
         /\ lease'[s][run] <= Since' + Missed(lost'[s])
<1>1. run' = run /\ lost' = lost /\ Elapse /\ g_active_host # 0
  BY DEF Pass, Elapse, Controls
<1>2. /\ Since' = Since + 1 /\ Since < Gap /\ Since \in 0..Gap /\ Gap \in Nat
      /\ Lifetime \in Nat
  BY <1>1, PassSince, SinceType, GapNat, SystemAssumption
<1>3. run \in Run /\ lease[s][run] \in 0..(Lifetime + 1) /\ lost[s] \in 0..MaxLost
  BY LeaseTyped
<1>4. lease[s][run] <= Since + Missed(lost[s])
  BY DEF Young
<1>5. Missed(lost[s]) \in Nat /\ Missed(lost[s]) + Gap <= Lifetime + 1
  BY <1>3, Misses
<1>6. lease[s][run] <= Lifetime
  BY <1>2, <1>3, <1>4, <1>5
<1>7. PICK dropped \in SUBSET (Server \X Run) :
        /\ \A d \in dropped : d[2] \in Session!Expired(lease[d[1]])
        /\ lease' = [s_ \in Server |->
                       Session!Aged(lease[s_], {r \in Run : <<s_, r>> \in dropped})]
  BY DEF Pass
<1>8. run \notin Session!Expired(lease[s])
  BY <1>2, <1>3, <1>6 DEF Session!Expired
<1>9. <<s, run>> \notin dropped
  BY <1>7, <1>8
<1>10. lease'[s][run] = lease[s][run] + 1
  <2>1. lease[s][run] # Session!None
    BY DEF Held
  <2> QED BY <1>3, <1>7, <1>8, <1>9, <2>1 DEF Session!Aged
<1>11. Held(s)'
  BY <1>1, <1>3, <1>10 DEF Held, Session!None, Run
<1> QED BY <1>1, <1>2, <1>3, <1>4, <1>5, <1>10, <1>11

LEMMA YoungNext ==
  ASSUME SystemTypeOK, LoopOK, HostsOK, LeaseOK, Punctual, Young, [Next]_vars
  PROVE  Young'
<1>1. CASE Start
  BY <1>1 DEF Start, Launch, hostVars, HostsOK, Young, Controls
<1>2. CASE Down
  BY <1>2 DEF Down, Young, Controls
<1>3. CASE Work
  <2>0. UNCHANGED <<run, lost, lease>> /\ pc # "down"
    BY <1>3 DEF Work, Loop, Wake, Interrupted, MenuKey, SessionKey, EscByte, EscEnds,
                SocketIO, Event
  <2>1. \A s \in Server : Held(s)' => Held(s) /\ lease'[s][run] = lease[s][run]
    BY <2>0 DEF Held
  <2>2. CASE MenuKey
    <3>1. \A s \in Server : ~Held(s)'
      BY <2>0, <2>1, <2>2 DEF MenuKey, LeaseOK, OnlyWanted, Controls
    <3> QED BY <3>1 DEF Young
  <2>3. CASE ~MenuKey
    <3>1. /\ g_active_host' = g_active_host
          /\ g_active_host # 0 => hosts'[g_active_host] = hosts[g_active_host]
      BY <1>3, <2>3, SocketKeeps DEF Work, Loop, Wake, Interrupted, SessionKey, EscByte,
         EscEnds, SocketIO, hostVars
    <3> QED BY <2>0, <2>1, <3>1, YoungSame
  <2> QED BY <2>2, <2>3
<1>4. CASE Refresh /\ ~Down
  BY <1>4, YoungRefresh DEF Young
<1>5. CASE \E s \in Server : Answer(s) \/ Reboot(s) \/ \E r \in Run : Stream(s, r)
  <2>1. ASSUME NEW x \in Server, Reboot(x) PROVE Young'
    <3>1. UNCHANGED <<run, pc, hosts, g_active_host, lost>>
      BY <2>1 DEF Reboot, clientVars, hostVars
    <3>2. CASE pc = "down"
      BY <3>1, <3>2 DEF Young, Controls
    <3>3. \A s \in Server : Held(s)' => Held(s) /\ lease'[s][run] = lease[s][run]
      <4>1. ASSUME NEW s \in Server, Held(s)'
            PROVE  Held(s) /\ lease'[s][run] = lease[s][run]
        <5>1. run \in Run
          BY <3>1, <4>1, TypeParts, ClientAssumption DEF Held, PlainTypes, Run
        <5>2. s # x
          BY <2>1, <3>1, <4>1, <5>1, TypeParts DEF Reboot, NoLease, Held, ServerTypes
        <5>3. lease'[s] = lease[s]
          BY <2>1, <5>2, TypeParts DEF Reboot, ServerTypes
        <5> QED BY <3>1, <4>1, <5>3 DEF Held
      <4> QED BY <4>1
    <3> QED BY <3>1, <3>2, <3>3, YoungSame
  <2>2. CASE \E s \in Server : Answer(s) \/ \E r \in Run : Stream(s, r)
    <3>1. UNCHANGED <<run, pc, hosts, g_active_host, lost, lease>> /\ pc # "down"
      BY <2>2 DEF Answer, Stream, Receive, quietVars, hostVars
    <3> QED BY <3>1, YoungSame DEF Held
  <2> QED BY <1>5, <2>1, <2>2
<1>6. CASE \E bytes \in Typed : Type(bytes)
  <2>1. UNCHANGED <<run, pc, hosts, g_active_host, lost, lease>> /\ pc # "down"
    BY <1>6 DEF Type, hostVars
  <2> QED BY <2>1, YoungSame DEF Held
<1>7. CASE Pass
  <2>1. ASSUME NEW s \in Server, Controls(s)', Held(s)'
        PROVE  lease'[s][run'] <= Since' + Missed(lost'[s])
    <3>1. Controls(s)
      <4>1. pc' = pc /\ g_active_host' = g_active_host /\ pc' # "down"
        BY <1>7, <2>1 DEF Pass, Elapse, Controls
      <4>2. g_active_host \in DOMAIN hosts
        BY <2>1, <4>1, HostsDomain DEF Domain, Controls
      <4>3. hosts'[g_active_host].mac = hosts[g_active_host].mac
        <5>1. ~MenuKey /\ ~Down
          BY <1>7, <4>1 DEF Pass, Elapse, Blocked, MenuKey, Event, Down
        <5> QED BY <4>2, <5>1, HostsNext DEF Stays, Grows
      <4> QED BY <2>1, <4>1, <4>3 DEF Controls
    <3>2. Held(s)
      <4>1. run' = run /\ run \in Run
        BY <1>7, <3>1 DEF Pass, Elapse, Controls, LoopOK
      <4>2. lease[s][run] = Session!None => lease'[s][run] = Session!None
        BY <1>7, <4>1 DEF Pass, Session!Aged
      <4> QED BY <2>1, <4>1, <4>2 DEF Held
    <3> QED BY <1>7, <3>1, <3>2, YoungPass
  <2> QED BY <2>1 DEF Young
<1>8. CASE UNCHANGED vars
  BY <1>8 DEF vars, clientVars, hostVars, Young, Since, Controls, Held
<1> QED BY <1>1, <1>2, <1>3, <1>4, <1>5, <1>6, <1>7, <1>8 DEF Next, End, Dies

LEMMA KeptNext ==
  ASSUME SystemTypeOK, LoopOK, HostsOK, Punctual, Young, [Next]_vars
  PROVE  KeptStep
<1> SUFFICES ASSUME NEW s \in Server, Controls(s), Controls(s)', Held(s), ~Reboot(s)
             PROVE  Held(s)'
  BY DEF KeptStep
<1>0. run \in Run /\ pc # "down" /\ pc' # "down"
  BY LeaseTyped DEF Controls
<1>1. CASE run' = run /\ lease'[s] = lease[s]
  BY <1>1 DEF Held
<1>2. CASE Refresh
  <2>1. run' = run
    BY <1>2 DEF Refresh, Timers
  <2>2. PICK arrived \in SUBSET Starts : Sent(Starts, arrived)
    BY <1>2 DEF Refresh
  <2>3. CASE s \in arrived
    <3>1. lease'[s] = Session!Started(lease[s], run)
      BY <2>2, <2>3 DEF Sent, Session!CanStart, Held
    <3>2. lease[s] \in [Run -> Session!None..(Lifetime + 1)]
      BY TypeParts DEF ServerTypes
    <3>3. lease'[s][run] = 0
      BY <1>0, <3>1, <3>2 DEF Session!Started
    <3> QED BY <1>0, <2>1, <3>3 DEF Held, Session!None, Run
  <2>4. CASE s \notin arrived
    BY <2>1, <2>2, <2>4, <1>1 DEF Sent
  <2> QED BY <2>3, <2>4
<1>3. CASE Pass
  BY <1>3, YoungPass
<1>4. CASE \E x \in Server : Reboot(x)
  <2>1. PICK x \in Server : Reboot(x)
    BY <1>4
  <2>2. x # s /\ run' = run
    BY <2>1 DEF Reboot, clientVars
  <2>3. lease'[s] = lease[s]
    BY <2>1, <2>2, TypeParts DEF Reboot, ServerTypes
  <2> QED BY <2>2, <2>3, <1>1
<1>5. CASE Start \/ End
  BY <1>0, <1>5 DEF Start, Launch, End, Dies, Down
<1>6. CASE Work
  BY <1>6, <1>1 DEF Work, Loop, Wake, Interrupted, MenuKey, SessionKey, EscByte, EscEnds,
                    SocketIO
<1>7. CASE \E x \in Server : Answer(x) \/ \E r \in Run : Stream(x, r)
  BY <1>7, <1>1 DEF Answer, Stream, Receive, quietVars
<1>8. CASE \E bytes \in Typed : Type(bytes)
  BY <1>8, <1>1 DEF Type
<1>9. CASE UNCHANGED vars
  BY <1>9, <1>1 DEF vars, clientVars
<1> QED BY <1>2, <1>3, <1>4, <1>5, <1>6, <1>7, <1>8, <1>9 DEF Next

-----------------------------------------------------------------------------
(* The theorems.                                                           *)

IInv == /\ SystemTypeOK /\ LoopOK /\ HostsOK /\ LeaseOK /\ SockOK /\ OwnScreen
        /\ MenuOK /\ Punctual /\ Young

LEMMA InvInit == Init => IInv
BY TypeInit, LoopInit, HostsInit, LeaseInit, SockInit, MenuInit, PunctualInit, YoungInit
   DEF IInv

LEMMA InvNext == IInv /\ [Next]_vars => IInv'
BY TypeNext, LoopNext, HostsNext, LeaseNext, SockNext, OwnNext, MenuNext, PunctualNext,
   YoungNext DEF IInv

LEMMA InvAlways == Spec => []IInv
<1> QED BY InvInit, InvNext, PTL DEF Spec

\* The variables of client, network and servers keep their types; the list of
\* servers, what is typed and the escape buffer stay within their bounds
\* (hostlist.c, keyboard.c).
THEOREM SystemTypeCorrect == Spec => []SystemTypeOK
<1>1. IInv => SystemTypeOK
  BY DEF IInv
<1> QED BY <1>1, InvAlways, PTL

\* Only the chosen server is sent starts (process_timers), so no other ever
\* holds a session of this run.
THEOREM OnlyWantedAlways == Spec => []OnlyWanted
<1>1. IInv => OnlyWanted
  BY DEF IInv, LeaseOK
<1> QED BY <1>1, InvAlways, PTL

\* The session id keeps the text that servers send to former runs off the
\* screen (process_socket_io).
THEOREM OwnScreenAlways == Spec => []OwnScreen
<1>1. IInv => OwnScreen
  BY DEF IInv
<1> QED BY <1>1, InvAlways, PTL

\* With intervals such that MaxLost + 1 refreshes fit in a lifetime no session
\* under control is pruned, whatever the order of timers, keys, signals and
\* losses (process_timers, session_mgr_update_all).
THEOREM KeptAlways == Spec => KeptWhileControlled
<1>1. IInv /\ [Next]_vars => KeptStep
  BY KeptNext DEF IInv
<1> QED BY <1>1, InvAlways, PTL DEF Spec, KeptWhileControlled

\* A place in the list is never given to another server (hostlist_register), so
\* a digit means what the menu showed.
THEOREM ChosenAlways == Spec => ChosenAsShown
<1>1. IInv /\ [Next]_vars => ChosenStep
  BY ChosenNext DEF IInv
<1> QED BY <1>1, InvAlways, PTL DEF Spec, ChosenAsShown

\* What Lease lets a server do in one step.
LeaseStep(s) ==
  \/ \E dropped \in SUBSET Session!Expired(lease[s]) :
       lease'[s] = Session!Aged(lease[s], dropped)
  \/ \E r \in Run : /\ Session!CanStart(lease[s], r)
                   /\ lease'[s] = Session!Started(lease[s], r)
ServersStep == \A s \in Server : lease'[s] = lease[s] \/ Reboot(s) \/ LeaseStep(s)

\* The client is shown correct against servers that do nothing but what Lease
\* allows, which is all that session.c is shown to promise (KeepsPromise), or
\* are rebooted.
THEOREM ServersKeepLease == Spec => [][ServersStep]_vars
<1>1. IInv /\ [Next]_vars => [ServersStep]_vars
  <2> SUFFICES ASSUME IInv, [Next]_vars, NEW s \in Server
               PROVE  lease'[s] = lease[s] \/ Reboot(s) \/ LeaseStep(s)
    BY DEF ServersStep
  <2>0. SystemTypeOK /\ LoopOK /\ lease \in [Server -> [Run -> Session!None..(Lifetime + 1)]]
    BY DEF IInv, SystemTypeOK
  <2>1. CASE Refresh
    <3>1. PICK arrived \in SUBSET Starts : Sent(Starts, arrived)
      BY <2>1 DEF Refresh
    <3>2. run \in Run
      BY <2>0, <2>1 DEF Refresh, Timers, LoopOK
    <3> QED BY <3>1, <3>2 DEF Sent, LeaseStep
  <2>2. CASE Pass
    <3>1. PICK dropped \in SUBSET (Server \X Run) :
            /\ \A d \in dropped : d[2] \in Session!Expired(lease[d[1]])
            /\ lease' = [x \in Server |->
                           Session!Aged(lease[x], {r \in Run : <<x, r>> \in dropped})]
      BY <2>2 DEF Pass
    <3>2. {r \in Run : <<s, r>> \in dropped} \subseteq Session!Expired(lease[s])
      BY <3>1
    <3>3. lease'[s] = Session!Aged(lease[s], {r \in Run : <<s, r>> \in dropped})
      BY <3>1
    <3> QED BY <3>2, <3>3 DEF LeaseStep
  <2>3. ASSUME NEW x \in Server, Reboot(x) PROVE lease'[s] = lease[s] \/ Reboot(s)
    BY <2>0, <2>3 DEF Reboot
  <2> QED
    BY <2>1, <2>2, <2>3 DEF Next, Start, End, Work, Answer, Stream, Receive, Type, vars
<1> QED BY <1>1, InvAlways, PTL DEF Spec

=============================================================================
