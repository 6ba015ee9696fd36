------------------------------ MODULE BufPool ------------------------------
(***************************************************************************)
(* What the packet-buffer manager promises its two users, with the linked  *)
(* lists, the buffer addresses and the interrupt flag abstracted away.     *)
(*                                                                         *)
(* A fixed number of buffers circulates: the packet driver takes a free    *)
(* one and fills it; the frames it completes wait on a stack; the          *)
(* protocol handler takes the newest one, handles it and gives the buffer  *)
(* back blank.  Nothing is ever lost or handed out twice: the module       *)
(* Bufmgr is shown to implement this one, and Server is built on it.       *)
(***************************************************************************)
EXTENDS Naturals, Sequences

CONSTANTS NumBuffers,   \* size of the pool (g_buffer_count)
          Frames,       \* the contents a received frame can have
          NoFrame,      \* "the handler holds nothing"
          Blank         \* "the handler holds a wiped buffer"

ASSUME PoolAssumption ==
  /\ NumBuffers \in Nat \ {0}
  /\ NoFrame \notin Frames
  /\ Blank \notin Frames \cup {NoFrame}

VARIABLES nfree,        \* how many buffers the driver may still take
          npending,     \* how many the driver is filling
          ready,        \* completed frames, newest first
          user          \* what the protocol handler holds

poolVars == <<nfree, npending, ready, user>>

PoolTypeOK == /\ nfree \in 0..NumBuffers
              /\ npending \in 0..NumBuffers
              /\ ready \in Seq(Frames)
              /\ user \in Frames \cup {NoFrame, Blank}

PoolInit == /\ nfree = NumBuffers
            /\ npending = 0
            /\ ready = <<>>
            /\ user = NoFrame

\* Grant if the driver were given a buffer although none is free.
MutGrant == /\ nfree' = nfree - 1
            /\ npending' = npending + 1
            /\ UNCHANGED <<ready, user>>

\* The driver is granted a buffer.  Without a free one (or for a frame that
\* is too long) it gets NULL and drops the frame: no step.
Grant == /\ nfree > 0
         /\ nfree' = nfree - 1
         /\ npending' = npending + 1
         /\ UNCHANGED <<ready, user>>

\* The driver hands over a completed frame.
Deliver(f) == /\ npending > 0
              /\ npending' = npending - 1
              /\ ready' = <<f>> \o ready
              /\ UNCHANGED <<nfree, user>>

\* Take if the head of the ready list were not unlinked.
MutTake == /\ user = NoFrame
           /\ ready # <<>>
           /\ user' = Head(ready)
           /\ UNCHANGED <<nfree, npending, ready>>

\* The protocol handler takes the NEWEST frame: the ready list is a stack.
Take == /\ user = NoFrame
        /\ ready # <<>>
        /\ user' = Head(ready)
        /\ ready' = Tail(ready)
        /\ UNCHANGED <<nfree, npending>>

\* The handler has dealt with its frame and wipes the buffer ...
Wipe == /\ user \in Frames
        /\ user' = Blank
        /\ UNCHANGED <<nfree, npending, ready>>

\* Recycle if the buffer were not linked to the free list again.
MutRecycle == /\ user = Blank
              /\ user' = NoFrame
              /\ UNCHANGED <<nfree, npending, ready>>

\* ... which is free again a few instructions later.
Recycle == /\ user = Blank
           /\ user' = NoFrame
           /\ nfree' = nfree + 1
           /\ UNCHANGED <<npending, ready>>

PoolNext == \/ Grant
            \/ \E f \in Frames : Deliver(f)
            \/ Take
            \/ Wipe
            \/ Recycle

PoolSpec == PoolInit /\ [][PoolNext]_poolVars

(***************************************************************************)
(* No buffer is leaked or invented: free, with the driver, waiting and in  *)
(* use always add up to the pool (every path of protocol_process ends in   *)
(* buffer_release, for packets it ignores too).                            *)
(***************************************************************************)
Conservation ==
  nfree + npending + Len(ready) + (IF user = NoFrame THEN 0 ELSE 1) = NumBuffers

=============================================================================
