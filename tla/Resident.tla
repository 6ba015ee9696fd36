------------------------------ MODULE Resident ------------------------------
(***************************************************************************)
(* How rmtdos.com gets into memory and out again (server/main.c,           *)
(* server/resident.c, server/pktdrv.c): a run of the program looks for a   *)
(* resident copy through int 2Fh, registers with the packet driver, hooks  *)
(* int 08h and int 2Fh and stays resident; a run with -u asks the resident *)
(* copy to undo all that.                                                  *)
(*                                                                         *)
(* Interrupts keep coming between any two steps, and enter whatever code   *)
(* the vectors and the driver point to, so the safety of every step is a   *)
(* matter of state invariants.  A vector is the list of programs that an   *)
(* interrupt runs through, newest first, down to the BIOS; reading it with *)
(* __getvect gives a pointer to its first program, hence the whole list,   *)
(* because no program changes the pointer to the one it chains to.         *)
(***************************************************************************)
EXTENDS Integers, Sequences, FiniteSets

CONSTANTS Instances,     \* places in memory that hold a copy of rmtdos.com
          Others,        \* other resident programs, which hook and unhook too
          NoInstance,
          BufferOptions, \* values of the -b option, as size_t
          DriverIrqs,    \* interrupts at which a packet driver may be loaded
          Handles        \* handles the driver gives out

MAX_BUFFERS == 10
MIN_IRQ == 96            \* 60h
MAX_IRQ == 128           \* 80h
MAX_WORD == 65535        \* of uint16_t

ASSUME ProgramAssumption ==
  NoInstance \notin Instances /\ Instances \cap Others = {}

\* A handle of 0 would mean "none" to the code.
ASSUME ResidentAssumption ==
  /\ BufferOptions \subseteq 0..MAX_WORD
  /\ DriverIrqs \subseteq 1..255
  /\ Handles \subseteq 1..MAX_WORD

Program == Instances \cup Others
Vec == {8, 47}           \* int 08h, int 2Fh

VARIABLES
  vector,     \* [Vec -> Seq(Program)], the BIOS or DOS handler left out
  original,   \* [Instances -> [Vec -> Seq(Program)]]: int08_original_handler ...
  mem,        \* [Instances -> {"none", "loaded", "resident"}]
  nbufs,      \* [Instances -> g_buffer_count], 0 before buffer_init
  pktdrv_irq, \* [Instances -> g_pktdrv_irq], 0 is none
  handle,     \* [Instances -> g_pktdrv_handle], 0 is none
  mac,        \* [Instances -> whether g_pktdrv_info is filled in]
  drivers,    \* where packet drivers are loaded
  receivers,  \* <<driver, copy>>: the copy whose receiver the driver calls
  refused,    \* whether the driver has ever refused a call after access_type
  self,       \* the copy that runs in the foreground
  victim,     \* the resident copy that int 2Fh is executing
  pc          \* where the foreground stands

image   == <<nbufs, pktdrv_irq, handle, mac>>
driver  == <<drivers, receivers, refused>>
machine == <<vector, original>>
prog    == <<self, victim, pc>>
rvars   == <<machine, mem, image, driver, prog>>

PC == {"shell", "check_install", "check_unload", "init", "access", "info",
       "address", "hook_08", "hook_2f", "go_tsr", "fail_08", "fail_2f", "fail_done",
       "un_check", "un_08", "un_2f", "un_done", "un_free"}

ResidentInit ==
  /\ vector = [v \in Vec |-> <<>>]
  /\ original = [i \in Instances |-> [v \in Vec |-> <<>>]]
  /\ mem = [i \in Instances |-> "none"]
  /\ nbufs = [i \in Instances |-> 0]
  /\ pktdrv_irq = [i \in Instances |-> 0]
  /\ handle = [i \in Instances |-> 0]
  /\ mac = [i \in Instances |-> FALSE]
  /\ drivers \in SUBSET DriverIrqs
  /\ receivers = {}
  /\ refused = FALSE
  /\ self = NoInstance
  /\ victim = NoInstance
  /\ pc = "shell"

-----------------------------------------------------------------------------
(* The program that runs in the foreground.                                *)

Goto(l) == pc' = l /\ UNCHANGED <<self, victim>>

\* The program that DOS ran returns: its memory is given to the next one.
Exit == /\ mem' = [mem EXCEPT ![self] = "none"]
        /\ self' = NoInstance
        /\ victim' = NoInstance
        /\ pc' = "shell"

\* Interrupt v starts at copy i.
HeadIs(v, i) == vector[v] # <<>> /\ Head(vector[v]) = i

\* resident_uninstall_check if it forgot int 2Fh.
MutMayUninstall(i) == HeadIs(8, i)

\* resident_uninstall_check() = 0: nobody hooked after us.
MayUninstall(i) == HeadIs(8, i) /\ HeadIs(47, i)

\* The copies that int 2Fh can reach; the first answers and does not chain.
Reached == {k \in DOMAIN vector[47] : vector[47][k] \in Instances}
Answerer == vector[47][CHOOSE k \in Reached : \A j \in Reached : k <= j]

\* DOS loads a copy; the option -u or none.  Its variables are as linked.
Run(i) ==
  /\ pc = "shell"
  /\ mem[i] = "none"
  /\ mem' = [mem EXCEPT ![i] = "loaded"]
  /\ nbufs' = [nbufs EXCEPT ![i] = 0]
  /\ pktdrv_irq' = [pktdrv_irq EXCEPT ![i] = 0]
  /\ handle' = [handle EXCEPT ![i] = 0]
  /\ mac' = [mac EXCEPT ![i] = FALSE]
  /\ original' = [original EXCEPT ![i] = [v \in Vec |-> <<>>]]
  /\ self' = i
  /\ pc' \in {"check_install", "check_unload"}
  /\ UNCHANGED <<vector, driver, victim>>

\* "Already installed" ends the program.
CheckInstall ==
  /\ pc = "check_install"
  /\ IF Reached # {} THEN Exit ELSE Goto("init") /\ UNCHANGED mem
  /\ UNCHANGED <<machine, image, driver>>

\* -u: not installed, or hooked by someone else, ends the program.
CheckUnload ==
  /\ pc = "check_unload"
  /\ IF Reached # {} /\ MayUninstall(Answerer)
     THEN /\ victim' = Answerer
          /\ pc' = "un_check"
          /\ UNCHANGED <<self, mem>>
     ELSE Exit
  /\ UNCHANGED <<machine, image, driver>>

\* Clamp without its upper bound.
MutClamp(n) == IF n < 1 THEN 1 ELSE n

\* main() clamps the count of buffers, buffer_init allocates them or exits.
Clamp(n) == IF n < 1 THEN 1 ELSE IF n > MAX_BUFFERS THEN MAX_BUFFERS ELSE n

InitBuffers ==
  /\ pc = "init"
  /\ \/ \E n \in BufferOptions : nbufs' = [nbufs EXCEPT ![self] = Clamp(n)]
        /\ Goto("access") /\ UNCHANGED mem
     \/ Exit /\ UNCHANGED nbufs
  /\ UNCHANGED <<machine, pktdrv_irq, handle, mac, driver>>

\* The first driver found, 0 if there is none.
pktdrv_probe_all ==
  LET found == drivers \cap MIN_IRQ..(MAX_IRQ - 1) IN
  IF found = {} THEN 0 ELSE CHOOSE q \in found : \A r \in found : q <= r

\* The driver's interrupt: probed for, or named by the option -i.  What a vector
\* that is no driver's does when -i names it is taken to be a refusal.
Irq == ({pktdrv_probe_all} \cup drivers) \ {0}

\* access_type, after which our receiver can be called at any moment.  A driver
\* serves an ethertype to one receiver only, whatever the other drivers do.
AccessType ==
  /\ pc = "access"
  /\ \E q \in Irq :
       /\ \A r \in receivers : r[1] # q
       /\ receivers' = receivers \cup {<<q, self>>}
       /\ pktdrv_irq' = [pktdrv_irq EXCEPT ![self] = q]
  /\ \E h \in Handles : handle' = [handle EXCEPT ![self] = h]
  /\ Goto("info")
  /\ UNCHANGED <<machine, mem, nbufs, mac, drivers, refused>>

\* "Packet Driver init failed, aborting": no driver, or it refuses.
AccessFails ==
  /\ pc = "access"
  /\ Exit
  /\ UNCHANGED <<machine, image, driver>>

DriverInfo ==
  /\ pc = "info"
  /\ Goto("address")
  /\ UNCHANGED <<machine, mem, image, driver>>

\* GetAddress if the answer were not stored.
MutGetAddress ==
  /\ pc = "address"
  /\ Goto("hook_08")
  /\ UNCHANGED <<machine, mem, image, driver>>

GetAddress ==
  /\ pc = "address"
  /\ mac' = [mac EXCEPT ![self] = TRUE]
  /\ Goto("hook_08")
  /\ UNCHANGED <<machine, mem, nbufs, pktdrv_irq, handle, driver>>

\* driver_info or get_address fails: pktdrv_init returns the error, and main
\* aborts.
InfoFails ==
  /\ pc \in {"info", "address"}
  /\ refused' = TRUE
  /\ Exit
  /\ UNCHANGED <<machine, image, drivers, receivers>>

\* install_interrupt_handlers, one vector.
Hook(i, v) ==
  /\ original' = [original EXCEPT ![i][v] = vector[v]]
  /\ vector' = [vector EXCEPT ![v] = <<i>> \o vector[v]]

Hook08 ==
  /\ pc = "hook_08"
  /\ Hook(self, 8)
  /\ Goto("hook_2f")
  /\ UNCHANGED <<mem, image, driver>>

\* Hook2f if the vector were read but not written.
MutHook2f ==
  /\ pc = "hook_2f"
  /\ original' = [original EXCEPT ![self][47] = vector[47]]
  /\ Goto("go_tsr")
  /\ UNCHANGED <<vector, mem, image, driver>>

Hook2f ==
  /\ pc = "hook_2f"
  /\ Hook(self, 47)
  /\ Goto("go_tsr")
  /\ UNCHANGED <<mem, image, driver>>

\* The environment block goes back; DOS keeps the program and runs the next one.
GoTsr ==
  /\ pc = "go_tsr"
  /\ mem' = [mem EXCEPT ![self] = "resident"]
  /\ self' = NoInstance
  /\ pc' = "shell"
  /\ UNCHANGED <<machine, image, driver, victim>>

-----------------------------------------------------------------------------
(* Undoing it.                                                             *)

\* restore_interrupt_handlers, one vector: no check.
Restore(i, v) ==
  vector' = [vector EXCEPT ![v] = original[i][v]] /\ UNCHANGED original

\* pktdrv_done if it did not call the driver.
MutPktdrvDone(i) ==
  /\ pktdrv_irq' = [pktdrv_irq EXCEPT ![i] = 0]
  /\ handle' = [handle EXCEPT ![i] = 0]
  /\ UNCHANGED <<receivers, refused>>

\* pktdrv_done: release_type at the driver that gave the handle, and forget
\* both if that succeeds.
PktdrvDone(i) ==
  \/ /\ receivers' = IF handle[i] # 0 THEN receivers \ {<<pktdrv_irq[i], i>>}
                                      ELSE receivers
     /\ pktdrv_irq' = [pktdrv_irq EXCEPT ![i] = 0]
     /\ handle' = [handle EXCEPT ![i] = 0]
     /\ UNCHANGED refused
  \/ /\ handle[i] # 0
     /\ refused' = TRUE
     /\ UNCHANGED <<receivers, pktdrv_irq, handle>>

\* "TSR failed": main unhooks and disconnects.
TsrFails ==
  /\ pc = "go_tsr"
  /\ Goto("fail_08")
  /\ UNCHANGED <<machine, mem, image, driver>>

Fail08 ==
  /\ pc = "fail_08"
  /\ Restore(self, 8)
  /\ Goto("fail_2f")
  /\ UNCHANGED <<mem, image, driver>>

Fail2f ==
  /\ pc = "fail_2f"
  /\ Restore(self, 47)
  /\ Goto("fail_done")
  /\ UNCHANGED <<mem, image, driver>>

FailDone ==
  /\ pc = "fail_done"
  /\ PktdrvDone(self)
  /\ Exit
  /\ UNCHANGED <<machine, nbufs, mac, drivers>>

\* resident_do_uninstall, called through int 2Fh.  Its result is not looked
\* at: whatever it is, the program says "Resident program removed".
UnCheck ==
  /\ pc = "un_check"
  /\ IF MayUninstall(victim) THEN Goto("un_08") /\ UNCHANGED mem ELSE Exit
  /\ UNCHANGED <<machine, image, driver>>

Un08 ==
  /\ pc = "un_08"
  /\ Restore(victim, 8)
  /\ Goto("un_2f")
  /\ UNCHANGED <<mem, image, driver>>

Un2f ==
  /\ pc = "un_2f"
  /\ Restore(victim, 47)
  /\ Goto("un_done")
  /\ UNCHANGED <<mem, image, driver>>

UnDone ==
  /\ pc = "un_done"
  /\ PktdrvDone(victim)
  /\ Goto("un_free")
  /\ UNCHANGED <<machine, mem, nbufs, mac, drivers>>

\* DOS frees the block; the handler returns to the program, which ends.
UnFree ==
  /\ pc = "un_free"
  /\ mem' = [mem EXCEPT ![victim] = "none", ![self] = "none"]
  /\ self' = NoInstance
  /\ victim' = NoInstance
  /\ pc' = "shell"
  /\ UNCHANGED <<machine, image, driver>>

-----------------------------------------------------------------------------
(* Other resident programs: each removes itself only when it is on top.    *)

On(p, v) == \E k \in DOMAIN vector[v] : vector[v][k] = p

Push(o, v) ==
  vector' = [vector EXCEPT ![v] = <<o>> \o vector[v]] /\ UNCHANGED original

Pop(v) ==
  vector' = [vector EXCEPT ![v] = Tail(vector[v])] /\ UNCHANGED original

OtherHooks(o, v) ==
  /\ pc = "shell"
  /\ ~On(o, v)
  /\ Push(o, v)
  /\ UNCHANGED <<mem, image, driver, prog>>

OtherUnhooks(o, v) ==
  /\ pc = "shell"
  /\ HeadIs(v, o)
  /\ Pop(v)
  /\ UNCHANGED <<mem, image, driver, prog>>

-----------------------------------------------------------------------------

Start   == (\E i \in Instances : Run(i)) \/ CheckInstall \/ CheckUnload
Connect == InitBuffers \/ AccessType \/ AccessFails \/ DriverInfo \/ GetAddress
           \/ InfoFails
Install == Hook08 \/ Hook2f \/ GoTsr
Fail    == TsrFails \/ Fail08 \/ Fail2f \/ FailDone
resident_do_uninstall == UnCheck \/ Un08 \/ Un2f \/ UnDone \/ UnFree
OtherTsr == \E o \in Others, v \in Vec : OtherHooks(o, v) \/ OtherUnhooks(o, v)

ResidentNext ==
  Start \/ Connect \/ Install \/ Fail \/ resident_do_uninstall \/ OtherTsr

ResidentSpec == ResidentInit /\ [][ResidentNext]_rvars

-----------------------------------------------------------------------------
(* Properties.                                                             *)

ResidentTypeOK ==
  /\ vector \in [Vec -> Seq(Program)]
  /\ original \in [Instances -> [Vec -> Seq(Program)]]
  /\ mem \in [Instances -> {"none", "loaded", "resident"}]
  /\ nbufs \in [Instances -> 0..MAX_BUFFERS]
  /\ pktdrv_irq \in [Instances -> DriverIrqs \cup {0}]
  /\ handle \in [Instances -> Handles \cup {0}]
  /\ mac \in [Instances -> BOOLEAN]
  /\ drivers \in SUBSET DriverIrqs
  /\ receivers \in SUBSET (DriverIrqs \X Instances)
  /\ refused \in BOOLEAN
  /\ self \in Instances \cup {NoInstance}
  /\ victim \in Instances \cup {NoInstance}
  /\ pc \in PC

(***************************************************************************)
(* Whatever an interrupt enters is there: every copy on a vector's chain   *)
(* and every copy the packet driver calls is in memory and has its         *)
(* buffers, at every step of installing, failing and uninstalling          *)
(* (pktdrv_init's "Our ISR could be invoked at any moment").               *)
(***************************************************************************)
Called(i) == \E q \in DriverIrqs : <<q, i>> \in receivers
Entered(i) == (Called(i) /\ ~refused) \/ \E v \in Vec : On(i, v)
HasCode(i) == mem[i] # "none" /\ nbufs[i] > 0
CodeInPlace == \A i \in Instances : Entered(i) => HasCode(i)

(***************************************************************************)
(* The same if the driver refuses what the code does not expect it to      *)
(* refuse.  pktdrv.h: a program "MUST call pktdrv_done() on exit, or the   *)
(* packet driver will be left connected to the now no-longer resident      *)
(* program".                                                               *)
(***************************************************************************)
NeverLeftConnected == \A i \in Instances : Called(i) => HasCode(i)

\* The handle is one of the driver at g_pktdrv_irq, which calls the copy.
Connected(i) == handle[i] # 0 /\ <<pktdrv_irq[i], i>> \in receivers

(***************************************************************************)
(* A timer tick that enters the program finds the driver connected and the *)
(* station's address known (session_mgr_update_all and the handlers put it *)
(* into every frame they send), from the first hook to the last unhook.    *)
(***************************************************************************)
TimerSeesDriver ==
  \A i \in Instances : On(i, 8) => mac[i] /\ Connected(i)

(***************************************************************************)
(* At most one copy is ever resident, and unless it is being removed at    *)
(* this moment the clock and a later run of the program reach it: whatever *)
(* other programs hook, it is never installed twice and never stranded.    *)
(***************************************************************************)
Leaving(i) == victim = i /\ pc \in {"un_2f", "un_done", "un_free"}
OneResident ==
  /\ \A i, j \in Instances : mem[i] = "resident" /\ mem[j] = "resident" => i = j
  /\ \A i \in Instances :
       mem[i] = "resident" /\ ~Leaving(i) => \A v \in Vec : On(i, v)

(***************************************************************************)
(* Installing, failing and uninstalling never unhook somebody else:        *)
(* restore_interrupt_handlers writes back vectors saved long ago, which is *)
(* right only because resident_uninstall_check saw nobody above us.        *)
(***************************************************************************)
OthersUndisturbedStep ==
  pc # "shell" => \A o \in Others, v \in Vec : On(o, v)' <=> On(o, v)
OthersUndisturbed == [][OthersUndisturbedStep]_rvars

-----------------------------------------------------------------------------
(* The inductive invariant behind them.                                    *)

Uninstalling == {"un_check", "un_08", "un_2f", "un_done", "un_free"}
Installing == {"init", "access", "info", "address", "hook_08", "hook_2f",
               "go_tsr", "fail_08", "fail_2f", "fail_done"}

\* A resident copy, until its removal has come to one of the steps in gone.
Stays(i, gone) == mem[i] = "resident" /\ ~(victim = i /\ pc \in gone)

\* Who is in memory, who runs, who is being asked to go.
Foreground ==
  /\ pc = "shell" <=> self = NoInstance
  /\ \A i \in Instances : mem[i] = "loaded" <=> i = self
  /\ pc \in Uninstalling <=> victim # NoInstance
  /\ victim # NoInstance => mem[victim] = "resident"
  /\ \A i, j \in Instances : mem[i] = "resident" /\ mem[j] = "resident" => i = j
  /\ pc \in Installing => \A i \in Instances : mem[i] # "resident"

\* Which copies are on which chain.
Chained ==
  \A i \in Instances :
    /\ On(i, 8) <=> \/ Stays(i, {"un_2f", "un_done", "un_free"})
                    \/ i = self /\ pc \in {"hook_2f", "go_tsr", "fail_08"}
    /\ On(i, 47) <=> \/ Stays(i, {"un_done", "un_free"})
                     \/ i = self /\ pc \in {"go_tsr", "fail_08", "fail_2f"}

\* What the foreground has found on top of the chains.
OnTop ==
  /\ pc \in {"hook_2f", "go_tsr", "fail_08"} => HeadIs(8, self)
  /\ pc \in {"go_tsr", "fail_08", "fail_2f"} => HeadIs(47, self)
  /\ pc = "un_08" => HeadIs(8, victim)
  /\ pc \in {"un_08", "un_2f"} => HeadIs(47, victim)

\* Nobody is on a chain twice, and behind a copy is what it saved.
Rest(s, k) == [j \in 1..(Len(s) - k) |-> s[j + k]]
Distinct(s) == \A j, k \in DOMAIN s : s[j] = s[k] => j = k
Linked(s, orig) ==
  \A k \in DOMAIN s : s[k] \in Instances => orig[s[k]] = Rest(s, k)
Saved(v) == [i \in Instances |-> original[i][v]]
ChainsIntact == \A v \in Vec : Distinct(vector[v]) /\ Linked(vector[v], Saved(v))

\* What the copies know of the driver.
DriverKnown ==
  /\ \A i \in Instances :
       \/ Stays(i, {"un_free"})
       \/ i = self /\ pc \in {"hook_08", "hook_2f", "go_tsr",
                               "fail_08", "fail_2f", "fail_done"}
       => mac[i] /\ Connected(i)
  /\ pc \in {"info", "address"} => Connected(self)

\* Whom the driver calls, as long as it has refused nothing; who has buffers.
Accounted == \A r \in receivers : r[1] = pktdrv_irq[r[2]]
InPlace ==
  /\ ~refused => Accounted
  /\ \A i \in Instances :
       /\ Called(i) /\ ~refused =>
            \/ Stays(i, {"un_free"})
            \/ i = self /\ pc \in Installing \ {"init", "access"}
       /\ \/ mem[i] = "resident"
          \/ i = self /\ pc \in Installing \ {"init"}
          => nbufs[i] > 0

RInv == ResidentTypeOK /\ Foreground /\ Chained /\ OnTop /\ ChainsIntact /\ DriverKnown
        /\ InPlace

=============================================================================
