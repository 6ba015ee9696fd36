------------------------------- MODULE Bufmgr -------------------------------
(***************************************************************************)
(* The packet-buffer manager of the resident server (server/bufmgr.c) with *)
(* the two parties that share it: the packet driver, which calls           *)
(* pktdrv_receive_func from the NIC interrupt (server/pktdrv.c), and the   *)
(* timer interrupt, whose protocol_process loop takes and releases ready   *)
(* buffers (server/protocol.c).                                            *)
(*                                                                         *)
(* The buffers form two singly linked lists threaded through "next".  The  *)
(* driver's upcalls run to completion ("Assumed called with interrupts     *)
(* disabled"), so each is one action; buffer_get_ready and buffer_release  *)
(* are cut into the steps between which an upcall could arrive, and only   *)
(* x86_cli/x86_sti keep it out.  The frame a handler works on is opaque.   *)
(***************************************************************************)
EXTENDS Integers, FiniteSets

CONSTANTS NumBuffers,   \* g_buffer_count: 1..MAX_BUFFERS, the /b option
          Frames,       \* the contents a received frame can have
          Zeros,        \* a data area that is all zero bytes
          Lengths       \* frame lengths the driver can ask room for

BUFFER_MAX_SIZE == 1504

ASSUME BufmgrAssumption ==
  /\ NumBuffers \in Nat \ {0}
  /\ Zeros \notin Frames
  /\ Lengths \subseteq Nat \ {0}

Buffer == 1..NumBuffers         \* the elements of g_buffers
NULL == 0                       \* the null pointer

VARIABLES state,        \* [Buffer -> BufferState]
          bytes,        \* [Buffer -> length of the frame, 0 when free]
          next,         \* [Buffer -> the link field]
          data,         \* [Buffer -> contents of the data area]
          g_free_list,
          g_ready_list,
          ie,           \* the CPU's interrupt flag
          saved_flags,  \* the copy of it that x86_cli returned
          retval,       \* the buffer protocol_process is working on
          pc            \* where the timer interrupt's code stands

buffers == <<state, bytes, next, data>>
lists   == <<g_free_list, g_ready_list>>
cpu     == <<ie, saved_flags, retval, pc>>
vars    == <<buffers, lists, cpu>>

BufferState == {"FREE", "PENDING", "READY", "USER"}

\* "idle": the interrupted program runs.  "done": protocol_process returned.
PC == {"idle", "get_cli", "get_head", "get_unlink", "get_mark", "get_sti",
       "handle", "rel_cli", "rel_mark", "rel_push", "rel_sti", "done"}

In(s) == {b \in Buffer : state[b] = s}

\* Init if buffer_init's loop ran one element too far.
MutInit ==
  /\ state = [b \in Buffer |-> "FREE"]
  /\ bytes = [b \in Buffer |-> 0]
  /\ next  = [b \in Buffer |-> b + 1]
  /\ data  = [b \in Buffer |-> Zeros]
  /\ g_free_list = 1
  /\ g_ready_list = NULL
  /\ ie = TRUE
  /\ saved_flags = TRUE
  /\ retval = NULL
  /\ pc = "idle"

\* buffer_init: the table zeroed, all buffers chained in address order.
Init ==
  /\ state = [b \in Buffer |-> "FREE"]
  /\ bytes = [b \in Buffer |-> 0]
  /\ next  = [b \in Buffer |-> IF b = NumBuffers THEN NULL ELSE b + 1]
  /\ data  = [b \in Buffer |-> Zeros]
  /\ g_free_list = 1
  /\ g_ready_list = NULL
  /\ ie = TRUE
  /\ saved_flags = TRUE
  /\ retval = NULL
  /\ pc = "idle"

-----------------------------------------------------------------------------
(* The packet driver.                                                      *)

\* An upcall can arrive while interrupts are enabled, and inside the calls
\* a packet's handler makes to the driver and the BIOS, which may enable them.
Interruptible == ie \/ pc = "handle"

\* Acquire if the buffer were left on the free list.
MutAcquire(n) ==
  /\ Interruptible
  /\ g_free_list # NULL
  /\ n <= BUFFER_MAX_SIZE
  /\ bytes' = [bytes EXCEPT ![g_free_list] = n]
  /\ state' = [state EXCEPT ![g_free_list] = "PENDING"]
  /\ UNCHANGED <<next, data, lists, cpu>>

\* First upcall (AX = 0), buffer_acquire(n): pop the free list.  If the list
\* is empty or the frame too long the driver gets NULL and nothing changes.
Acquire(n) ==
  /\ Interruptible
  /\ g_free_list # NULL
  /\ n <= BUFFER_MAX_SIZE
  /\ g_free_list' = next[g_free_list]
  /\ bytes' = [bytes EXCEPT ![g_free_list] = n]
  /\ state' = [state EXCEPT ![g_free_list] = "PENDING"]
  /\ next'  = [next EXCEPT ![g_free_list] = NULL]
  /\ UNCHANGED <<data, g_ready_list, cpu>>

\* The driver copies the frame into the buffer it was given.
DriverCopy(b, f) ==
  /\ Interruptible
  /\ state[b] = "PENDING"
  /\ data[b] = Zeros
  /\ data' = [data EXCEPT ![b] = f]
  /\ UNCHANGED <<state, bytes, next, lists, cpu>>

\* Second upcall (AX # 0), buffer_mark_ready: push on the ready list.  The
\* driver passes the address of a buffer it holds and has filled.
MarkReady(b) ==
  /\ Interruptible
  /\ state[b] = "PENDING"
  /\ data[b] # Zeros
  /\ state' = [state EXCEPT ![b] = "READY"]
  /\ next'  = [next EXCEPT ![b] = g_ready_list]
  /\ g_ready_list' = b
  /\ UNCHANGED <<bytes, data, g_free_list, cpu>>

-----------------------------------------------------------------------------
(* The timer interrupt: protocol_process and the two calls it makes.       *)

\* x86_cli without the cli instruction.
MutCli == saved_flags' = ie /\ UNCHANGED ie

\* x86_cli() saves the flag and disables; x86_sti(saved) restores the flag.
Cli == saved_flags' = ie /\ ie' = FALSE
Sti == ie' = saved_flags /\ UNCHANGED saved_flags

\* The int 08h handler starts.  The CPU clears the flag on entry; a program
\* that hooked int 08h after us may call us with interrupts enabled.
Tick ==
  /\ pc = "idle"
  /\ ie
  /\ ie' \in BOOLEAN
  /\ pc' = "get_cli"
  /\ UNCHANGED <<buffers, lists, saved_flags, retval>>

GetCli ==
  /\ pc = "get_cli"
  /\ Cli
  /\ retval' = NULL
  /\ pc' = "get_head"
  /\ UNCHANGED <<buffers, lists>>

GetHead ==
  /\ pc = "get_head"
  /\ retval' = g_ready_list
  /\ pc' = IF g_ready_list = NULL THEN "get_sti" ELSE "get_unlink"
  /\ UNCHANGED <<buffers, lists, ie, saved_flags>>

\* buffer_get_ready without the statement that advances the list head.
MutGetUnlink ==
  /\ pc = "get_unlink"
  /\ pc' = "get_mark"
  /\ UNCHANGED <<buffers, lists, ie, saved_flags, retval>>

GetUnlink ==
  /\ pc = "get_unlink"
  /\ g_ready_list' = next[g_ready_list]
  /\ pc' = "get_mark"
  /\ UNCHANGED <<buffers, g_free_list, ie, saved_flags, retval>>

GetMark ==
  /\ pc = "get_mark"
  /\ state' = [state EXCEPT ![retval] = "USER"]
  /\ next' = [next EXCEPT ![retval] = NULL]
  /\ pc' = "get_sti"
  /\ UNCHANGED <<bytes, data, lists, ie, saved_flags, retval>>

\* buffer_get_ready returns; a NULL ends protocol_process's loop.
GetSti ==
  /\ pc = "get_sti"
  /\ Sti
  /\ pc' = IF retval = NULL THEN "done" ELSE "handle"
  /\ UNCHANGED <<buffers, lists, retval>>

\* buffer_release without the memset.
MutWipe ==
  /\ pc = "handle"
  /\ pc' = "rel_cli"
  /\ UNCHANGED <<buffers, lists, ie, saved_flags, retval>>

\* The packet has been handled; buffer_release wipes its data area.
Wipe ==
  /\ pc = "handle"
  /\ data' = [data EXCEPT ![retval] = Zeros]
  /\ pc' = "rel_cli"
  /\ UNCHANGED <<state, bytes, next, lists, ie, saved_flags, retval>>

RelCli ==
  /\ pc = "rel_cli"
  /\ Cli
  /\ pc' = "rel_mark"
  /\ UNCHANGED <<buffers, lists, retval>>

\* buffer_release without the reset of the length.
MutRelMark ==
  /\ pc = "rel_mark"
  /\ state' = [state EXCEPT ![retval] = "FREE"]
  /\ next' = [next EXCEPT ![retval] = g_free_list]
  /\ pc' = "rel_push"
  /\ UNCHANGED <<bytes, data, lists, ie, saved_flags, retval>>

RelMark ==
  /\ pc = "rel_mark"
  /\ state' = [state EXCEPT ![retval] = "FREE"]
  /\ bytes' = [bytes EXCEPT ![retval] = 0]
  /\ next' = [next EXCEPT ![retval] = g_free_list]
  /\ pc' = "rel_push"
  /\ UNCHANGED <<data, lists, ie, saved_flags, retval>>

RelPush ==
  /\ pc = "rel_push"
  /\ g_free_list' = retval
  /\ pc' = "rel_sti"
  /\ UNCHANGED <<buffers, g_ready_list, ie, saved_flags, retval>>

\* buffer_release returns and the loop asks for the next packet.
RelSti ==
  /\ pc = "rel_sti"
  /\ Sti
  /\ pc' = "get_cli"
  /\ UNCHANGED <<buffers, lists, retval>>

\* The rest of the interrupt does not touch the buffers; its IRET gives the
\* interrupted program its flags back.
Return ==
  /\ pc = "done"
  /\ ie' = TRUE
  /\ pc' = "idle"
  /\ UNCHANGED <<buffers, lists, saved_flags, retval>>

buffer_get_ready == GetCli \/ GetHead \/ GetUnlink \/ GetMark \/ GetSti
buffer_release   == Wipe \/ RelCli \/ RelMark \/ RelPush \/ RelSti
protocol_process == buffer_get_ready \/ buffer_release

pktdrv_receive_func ==
  \/ \E n \in Lengths : Acquire(n)
  \/ \E b \in Buffer : MarkReady(b)

Driver == pktdrv_receive_func \/ \E b \in Buffer, f \in Frames : DriverCopy(b, f)

Next == Driver \/ Tick \/ protocol_process \/ Return

Spec == Init /\ [][Next]_vars

\* The timer keeps ticking, and code that runs on the CPU makes progress.
\* Nothing is assumed of the packet driver or the network.
Fairness == WF_vars(Tick) /\ WF_vars(protocol_process) /\ WF_vars(Return)
FairSpec == Spec /\ Fairness
-----------------------------------------------------------------------------
(* Properties.                                                             *)

TypeOK ==
  /\ state \in [Buffer -> BufferState]
  /\ bytes \in [Buffer -> Lengths \cup {0}]
  /\ next  \in [Buffer -> Buffer \cup {NULL}]
  /\ data  \in [Buffer -> Frames \cup {Zeros}]
  /\ g_free_list  \in Buffer \cup {NULL}
  /\ g_ready_list \in Buffer \cup {NULL}
  /\ ie \in BOOLEAN
  /\ saved_flags \in BOOLEAN
  /\ retval \in Buffer \cup {NULL}
  /\ pc \in PC

\* s lists, without repetition, the k buffers that nx links from head on.
Links(s, k, head, nx) ==
  /\ \A i, j \in 1..k : s[i] = s[j] => i = j
  /\ head = IF k = 0 THEN NULL ELSE s[1]
  /\ \A i \in 1..k : nx[s[i]] = IF i = k THEN NULL ELSE s[i + 1]

\* The list that starts at head is finite, acyclic and holds exactly S.
ListOf(head, S, nx) ==
  \E k \in 0..NumBuffers : \E s \in [1..k -> Buffer] :
    Links(s, k, head, nx) /\ S = {s[i] : i \in 1..k}

\* The buffers that belong on each list: buffer_get_ready unlinks a buffer
\* before it marks it, buffer_release marks it before it links it.
FreeLinked  == In("FREE")  \ (IF pc = "rel_push" THEN {retval} ELSE {})
ReadyLinked == In("READY") \ (IF pc = "get_mark" THEN {retval} ELSE {})

\* The steps between x86_cli and x86_sti.
Critical == {"get_head", "get_unlink", "get_mark", "get_sti",
             "rel_mark", "rel_push", "rel_sti"}

\* The steps at which the protocol handler owns retval.
Owning == {"get_mark", "handle", "rel_cli", "rel_mark", "rel_push"}
Owns == pc \in Owning \/ (pc = "get_sti" /\ retval # NULL)

(***************************************************************************)
(* Whatever the NIC interrupt does to the timer interrupt, each list is a  *)
(* finite chain of exactly the buffers in its state: no buffer is leaked,  *)
(* on two lists, or reachable while somebody writes to it (bufmgr.c's      *)
(* x86_cli/x86_sti pairs; struct Buffer, "Next buffer of the same state"). *)
(***************************************************************************)
ListsIntact == /\ ListOf(g_free_list, FreeLinked, next)
               /\ ListOf(g_ready_list, ReadyLinked, next)

(***************************************************************************)
(* A buffer the driver can be given next is blank: its length is 0 and no  *)
(* byte of an earlier frame is left to show behind a shorter one           *)
(* (bufmgr.h, "0 when buffer is free"; the memset in buffer_release).  And *)
(* what the handler works on is a whole frame nobody else can reach.       *)
(***************************************************************************)
FreeIsBlank == \A b \in FreeLinked : bytes[b] = 0 /\ data[b] = Zeros
HandlerOwnsFrame ==
  /\ In("USER") \subseteq {retval}
  /\ pc = "handle" => state[retval] = "USER" /\ data[retval] \in Frames
Contents == FreeIsBlank /\ HandlerOwnsFrame

(***************************************************************************)
(* A buffer goes round FREE - PENDING - READY - USER and skips no station, *)
(* and its contents change only in the hands of whoever holds it: written  *)
(* once by the driver while PENDING, with a frame for which there is room, *)
(* and wiped by the handler while USER.                                    *)
(***************************************************************************)
Round == {<<"FREE", "PENDING">>, <<"PENDING", "READY">>,
          <<"READY", "USER">>, <<"USER", "FREE">>}
OwnershipStep ==
  \A b \in Buffer :
    /\ state'[b] # state[b] => <<state[b], state'[b]>> \in Round
    /\ data'[b] # data[b] => \/ /\ state[b] = "PENDING" /\ data[b] = Zeros
                                /\ bytes[b] \in 1..BUFFER_MAX_SIZE
                             \/ state[b] = "USER" /\ b = retval
Ownership == [][OwnershipStep]_vars

(***************************************************************************)
(* Once the driver stops delivering, every waiting frame is handled and    *)
(* the interrupted program gets its interrupts back.  (While frames keep   *)
(* arriving neither is promised: protocol_process loops until the list is  *)
(* empty, newest frame first, so an early frame can wait for ever.)        *)
(***************************************************************************)
Quiet == <>[][~pktdrv_receive_func]_vars
DrainsWhenQuiet ==
  Quiet => <>[](In("READY") = {}) /\ []<>(pc = "idle" /\ ie)

(***************************************************************************)
(* How long the interrupt can last: ten steps for each frame that waits,   *)
(* and four to find that none is left.  Each of its steps is one of these  *)
(* whatever the NIC interrupt does in between; only a frame it delivers    *)
(* adds another ten.                                                       *)
(***************************************************************************)
FrameSteps == 10
Stage == [idle |-> 0, done |-> 1, get_head |-> 3, get_cli |-> 4, rel_sti |-> 5,
          rel_push |-> 6, rel_mark |-> 7, rel_cli |-> 8, handle |-> 9,
          get_mark |-> 1, get_unlink |-> 2,      \* of a frame still READY
          get_sti |-> IF retval = NULL THEN 2 ELSE 10]
StepsLeft == FrameSteps * Cardinality(In("READY")) + Stage[pc]
TickEndsStep ==
  /\ pc # "idle" /\ pc' # pc => StepsLeft' = StepsLeft - 1
  /\ pc' = pc => StepsLeft' \in {StepsLeft, StepsLeft + FrameSteps}
TickEnds == [][TickEndsStep]_vars

-----------------------------------------------------------------------------
(* The inductive invariant behind ListsIntact and Contents.                *)

\* The steps at which retval is the one USER buffer.
Holding == \/ pc \in {"handle", "rel_cli", "rel_mark"}
           \/ pc = "get_sti" /\ retval # NULL

\* What the timer interrupt relies on at each of its steps.
HandlerKnows ==
  /\ pc \in Critical => ~ie
  /\ pc = "get_unlink" => retval = g_ready_list /\ retval # NULL
  /\ pc = "get_mark" => retval # NULL /\ state[retval] = "READY"
  /\ pc = "rel_push" => /\ retval # NULL
                        /\ state[retval] = "FREE"
                        /\ next[retval] = g_free_list
  /\ In("USER") = IF Holding THEN {retval} ELSE {}

\* Where the frames are: in READY buffers, and in the handler's until it is
\* wiped; what is being released is blank before it is linked.
FramesWhere ==
  /\ \A b \in In("READY") : data[b] # Zeros
  /\ Holding /\ pc \in {"get_sti", "handle"} => data[retval] # Zeros
  /\ pc \in {"rel_cli", "rel_mark", "rel_push"} => data[retval] = Zeros
  /\ pc = "rel_push" => bytes[retval] = 0

\* A buffer with a frame, or waiting for one, has its length and room for it.
FramesFit ==
  \A b \in Buffer : /\ bytes[b] <= BUFFER_MAX_SIZE
                    /\ state[b] = "PENDING" => bytes[b] > 0

IInv == TypeOK /\ ListsIntact /\ HandlerKnows /\ FreeIsBlank /\ FramesWhere /\ FramesFit

-----------------------------------------------------------------------------
(* Refinement: the linked lists implement the pool.                        *)

Chain(head, S) ==
  CHOOSE s \in [1..Cardinality(S) -> Buffer] :
    Links(s, Cardinality(S), head, next) /\ S = {s[i] : i \in 1..Cardinality(S)}

ReadyFrames ==
  LET s == Chain(g_ready_list, ReadyLinked) IN [i \in DOMAIN s |-> data[s[i]]]

CONSTANT NoFrame        \* "no buffer held", for the abstract pool

Pool == INSTANCE BufPool WITH
          Blank    <- Zeros,
          nfree    <- Cardinality(FreeLinked),
          npending <- Cardinality(In("PENDING")),
          ready    <- ReadyFrames,
          user     <- IF Owns THEN data[retval] ELSE NoFrame

(***************************************************************************)
(* The manager keeps the pool's promise: at every step, taken or not, of   *)
(* the two interrupts the buffers behave as a counted pool and a stack.    *)
(***************************************************************************)
PoolRefined == Pool!PoolSpec
=============================================================================
