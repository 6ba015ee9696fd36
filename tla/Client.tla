------------------------------- MODULE Client -------------------------------
(***************************************************************************)
(* The client program: the epoll loop of client/main.c with its timers,    *)
(* the menu and the session mode of the keyboard (client/keyboard.c), the  *)
(* list of servers (client/hostlist.c) and the filters on what the socket  *)
(* receives (client/network.c).  It is one thread; what it shares with the *)
(* world are the two descriptors it waits for and the packets it sends,    *)
(* which System takes from it.                                             *)
(*                                                                         *)
(* Every start of the program draws a new session id; here it is the       *)
(* number of the start.                                                    *)
(***************************************************************************)
EXTENDS Integers, Sequences

CONSTANTS
  Server,            \* the MAC addresses of servers
  NoServer,
  MAX_HOSTS,
  MaxRuns,           \* bound: how often the program is started
  StartInterval, ProbeInterval, EpollTimeout,
  EscTime,           \* what reading an escape sequence may take: 31 x 40 ms
  MaxSignals,        \* bound: signals that cut epoll_wait short, in a row
  SockRoom,          \* packets the socket holds
  SEQ_BUFFER_SIZE,
  Byte, Esc,         \* what a key press sends
  MenuExit,          \* bytes that end the program from the menu
  Digit,             \* function from some bytes to numbers
  ExitSeqs           \* sequences the keymap maps to K_EXIT

Run == 1..MaxRuns

\* The longest time between two starts sent to a server under control.
Gap == StartInterval + (MaxSignals + 1) * EpollTimeout + EscTime
LongAgo == Gap                        \* a timeval of 0

ASSUME ClientAssumption ==
  /\ NoServer \notin Server
  /\ MAX_HOSTS \in Nat \ {0} /\ MaxRuns \in Nat /\ MaxSignals \in Nat
  /\ StartInterval \in Nat /\ ProbeInterval \in Nat /\ EscTime \in Nat
  /\ EpollTimeout \in Nat \ {0} /\ SockRoom \in Nat
  /\ SEQ_BUFFER_SIZE \in Nat \ {0, 1}
  /\ Esc \in Byte /\ MenuExit \subseteq Byte
  /\ DOMAIN Digit \subseteq Byte /\ \A b \in DOMAIN Digit : Digit[b] \in Nat

Host == [mac : Server, window : BOOLEAN, sinceStart : 0..LongAgo]
Key == [byte : Byte, meant : Server \cup {NoServer}]
Packet == [kind : {"STATUS_RESP", "VGA_TEXT"}, from : Server, id : Run]

VARIABLES
  run,             \* starts of the program so far; session_id
  pc,              \* "down"; in "epoll" or in the loop over its "events";
                   \* reading what follows an "esc"
  todo,            \* descriptors of events[] not yet looked at
  g_running,
  hosts,           \* g_remote_hosts, the slots in use
  g_active_host,   \* slot, or 0
  sinceProbe,      \* time since g_last_probe
  wait,            \* time spent in the present system call
  signals,         \* interruptions of epoll_wait since the timers were served
  seq_buf,
  stdin, sock,     \* what waits to be read
  shown,           \* not in the code: the menu as the user last saw it
  drawn            \* not in the code: whose text is in g_session_window

hostVars == <<hosts, g_active_host>>
timeVars == <<sinceProbe, wait, signals>>
userVars == <<stdin, shown>>
clientVars == <<run, pc, todo, g_running, hostVars, timeVars, seq_buf, userVars,
                sock, drawn>>

Down ==
  /\ pc' = "down" /\ todo' = {} /\ g_running' = FALSE
  /\ hosts' = <<>> /\ g_active_host' = 0
  /\ sinceProbe' = 0 /\ wait' = 0 /\ signals' = 0 /\ seq_buf' = <<>>
  /\ stdin' = <<>> /\ sock' = <<>> /\ shown' = <<>> /\ drawn' = {}

ClientInit ==
  /\ run = 0
  /\ pc = "down" /\ todo = {} /\ g_running = FALSE
  /\ hosts = <<>> /\ g_active_host = 0
  /\ sinceProbe = 0 /\ wait = 0 /\ signals = 0 /\ seq_buf = <<>>
  /\ stdin = <<>> /\ sock = <<>> /\ shown = <<>> /\ drawn = {}

\* main() up to its loop, where it sends a first probe.  A start that fails
\* (options, keymap, socket) is no step.
Launch ==
  /\ pc = "down" /\ run < MaxRuns
  /\ run' = run + 1
  /\ pc' = "epoll" /\ g_running' = TRUE
  /\ sinceProbe' = ProbeInterval + 1           \* g_last_probe = {0}
  /\ UNCHANGED <<todo, hostVars, wait, signals, seq_buf, userVars, sock, drawn>>

\* epoll_wait fails, or the process is killed.
Dies == pc # "down" /\ Down /\ UNCHANGED run

-----------------------------------------------------------------------------
(* The loop.                                                               *)

Ready == (IF stdin # <<>> THEN {"stdin"} ELSE {})
         \cup (IF sock # <<>> THEN {"socket"} ELSE {})

\* epoll_wait returns; without descriptors when its time is over.
Wake ==
  /\ pc = "epoll"
  /\ Ready # {} \/ wait = EpollTimeout
  /\ pc' = "events" /\ todo' = Ready
  /\ UNCHANGED <<run, g_running, hostVars, timeVars, seq_buf, userVars, sock,
                 drawn>>

\* EINTR (the window has been resized): wait again, the timers are not served.
Interrupted ==
  /\ pc = "epoll" /\ signals < MaxSignals
  /\ signals' = signals + 1 /\ wait' = 0
  /\ UNCHANGED <<run, pc, todo, g_running, hostVars, sinceProbe, seq_buf,
                 userVars, sock, drawn>>

\* The list of servers.  Slots are taken in order and never given back.
hostlist_find_by_mac(mac) == {i \in DOMAIN hosts : hosts[i].mac = mac}
hostlist_find_by_index(n) == {n + 1} \cap DOMAIN hosts

\* hostlist_register if it put the newest server first.
MutRegister(mac) ==
  IF hostlist_find_by_mac(mac) # {} \/ Len(hosts) = MAX_HOSTS THEN hosts
  ELSE <<[mac |-> mac, window |-> FALSE, sinceStart |-> LongAgo]>> \o hosts

hostlist_register(mac) ==
  IF hostlist_find_by_mac(mac) # {} \/ Len(hosts) = MAX_HOSTS THEN hosts
  ELSE Append(hosts, [mac |-> mac, window |-> FALSE, sinceStart |-> LongAgo])

\* A descriptor of events[] is looked at.
Event(fd) == pc = "events" /\ fd \in todo /\ todo' = todo \ {fd}

\* start_remote_control without its second assignment.
MutControl(i) == g_active_host' = i /\ UNCHANGED hosts

start_remote_control(i) ==
  /\ g_active_host' = i
  /\ hosts' = [hosts EXCEPT ![i].window = TRUE]

\* process_stdin_menu_mode: one byte.
MenuKey ==
  /\ Event("stdin") /\ g_active_host = 0
  /\ stdin' = Tail(stdin)
  /\ LET c == Head(stdin).byte
         chosen == IF c \in DOMAIN Digit THEN hostlist_find_by_index(Digit[c]) ELSE {}
     IN  \/ c \in MenuExit /\ g_running' = FALSE /\ UNCHANGED hostVars
         \/ /\ c \notin MenuExit /\ UNCHANGED g_running
            /\ \/ \E i \in chosen : start_remote_control(i)
               \/ chosen = {} /\ UNCHANGED hostVars
  /\ UNCHANGED <<run, pc, timeVars, seq_buf, sock, shown, drawn>>

\* What a sequence does in session mode.  Most are sent to the active host as
\* keys, some reload the keymap or change the display: none of it is a change
\* here.  Keymap has what a reload does, Server what becomes of a key.
Handle(seq) ==
  g_running' = (g_running /\ seq \notin ExitSeqs)

\* process_stdin_session_mode: one byte, or an Esc and what comes in the next
\* moments, whether it belongs to it or not.
SessionKey ==
  /\ Event("stdin") /\ g_active_host # 0
  /\ stdin' = Tail(stdin)
  /\ \/ /\ Head(stdin).byte # Esc
        /\ Handle(<<Head(stdin).byte>>)
        /\ UNCHANGED <<pc, wait, seq_buf>>
     \/ /\ Head(stdin).byte = Esc
        /\ pc' = "esc" /\ wait' = 0 /\ seq_buf' = <<Esc>>
        /\ UNCHANGED g_running
  /\ UNCHANGED <<run, hostVars, sinceProbe, signals, sock, shown, drawn>>

\* EscFull without room for the terminating zero.
MutEscFull == Len(seq_buf) = SEQ_BUFFER_SIZE

EscFull == Len(seq_buf) = SEQ_BUFFER_SIZE - 1

EscByte ==
  /\ pc = "esc" /\ ~EscFull /\ stdin # <<>>
  /\ seq_buf' = Append(seq_buf, Head(stdin).byte)
  /\ stdin' = Tail(stdin)
  /\ UNCHANGED <<run, pc, todo, g_running, hostVars, timeVars, sock, shown, drawn>>

EscEnds ==
  /\ pc = "esc" /\ (EscFull \/ stdin = <<>>)
  /\ pc' = "events" /\ seq_buf' = <<>>
  /\ Handle(seq_buf)
  /\ UNCHANGED <<run, todo, hostVars, timeVars, userVars, sock, drawn>>

\* process_socket_io if it did not compare session ids.
MutAccepts(p) == TRUE
Accepts(p) == p.id = run

\* All servers' text goes to the one window.
update_session_window(s) == drawn \cup {s}

\* process_socket_io; text is drawn for every server in the list.
SocketIO ==
  /\ Event("socket")
  /\ sock' = Tail(sock)
  /\ LET p == Head(sock) IN
     /\ hosts' = IF Accepts(p) /\ p.kind = "STATUS_RESP"
                 THEN hostlist_register(p.from) ELSE hosts
     /\ drawn' = IF /\ Accepts(p) /\ p.kind = "VGA_TEXT"
                    /\ hostlist_find_by_mac(p.from) # {}
                 THEN update_session_window(p.from) ELSE drawn
  /\ UNCHANGED <<run, pc, g_running, g_active_host, timeVars, seq_buf, userVars>>

\* Due if it was sent to every server in the list,
MutDue(i) == hosts[i].sinceStart > StartInterval
\* or with a longer interval.
MutDueLate(i) == hosts[i].window /\ hosts[i].sinceStart > StartInterval + 1

\* Is a V1_SESSION_START due?
Due(i) == hosts[i].window /\ hosts[i].sinceStart > StartInterval

\* What process_timers sends.
ProbeDue == sinceProbe > ProbeInterval
Starts == {hosts[i].mac : i \in {j \in DOMAIN hosts : Due(j)}}

\* What update_probing_window shows.
Menu == [i \in DOMAIN hosts |-> hosts[i].mac]

\* process_timers, the screen, and the test of the loop.
Timers ==
  /\ pc = "events" /\ todo = {}
  /\ \/ /\ g_running
        /\ pc' = "epoll" /\ wait' = 0 /\ signals' = 0
        /\ hosts' = [i \in DOMAIN hosts |->
                       IF Due(i) THEN [hosts[i] EXCEPT !.sinceStart = 0] ELSE hosts[i]]
        /\ sinceProbe' = IF ProbeDue THEN 0 ELSE sinceProbe
        /\ shown' = IF g_active_host = 0 THEN Menu ELSE <<>>
        /\ UNCHANGED <<todo, g_running, g_active_host, seq_buf, stdin, sock, drawn>>
     \/ ~g_running /\ Down
  /\ UNCHANGED run

\* The steps of the loop but Timers.
Loop == \/ Wake \/ Interrupted
        \/ MenuKey \/ SessionKey \/ EscByte \/ EscEnds
        \/ SocketIO

\* The client's part of a moment that passes: it is waiting for something.
Blocked == \/ pc = "epoll" /\ Ready = {} /\ wait < EpollTimeout
           \/ pc = "esc" /\ stdin = <<>> /\ ~EscFull /\ wait < EscTime

Later(t, most) == IF t < most THEN t + 1 ELSE most
Elapse ==
  /\ \/ Blocked /\ wait' = wait + 1
     \/ pc = "down" /\ UNCHANGED wait
  /\ sinceProbe' = IF pc = "down" THEN 0 ELSE Later(sinceProbe, ProbeInterval + 1)
  /\ hosts' = [i \in DOMAIN hosts |->
                 [hosts[i] EXCEPT !.sinceStart = Later(@, LongAgo)]]
  /\ UNCHANGED <<run, pc, todo, g_running, g_active_host, signals, seq_buf,
                 userVars, sock, drawn>>

Controls(s) == pc # "down" /\ g_active_host # 0 /\ hosts[g_active_host].mac = s

=============================================================================
