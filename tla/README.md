# A TLA+ model of rmtdos

rmtdos is a DOS TSR (the *server*, `rmtdos.com`) that lets a Linux program (the
*client*, `rmtdos-client`) on the same Ethernet see the DOS text screen and type
on its keyboard.  This directory holds TLA+ modules for the parts of it where
order matters, TLC configurations that check them on small instances, and proofs
that the TLA+ proof system checks.  `PROJECT.json` lists, for every definition,
the lines of the source it stands for.

## 1. The system

```
   client (Linux)                    |            server (DOS, resident)
                                     |
 keyboard/keymap -> session mode ----+--INJECT--> NIC interrupt: packet driver upcalls
 timers: STATUS_REQ, SESSION_START --+----------->   bufmgr  (free list / ready list)
                                     |                  |
 host list  <---- STATUS_RESP -------+<--- timer interrupt (int 08h, 18.2 Hz):
 text window <--- VGA_TEXT ----------+<---   protocol_process, session_mgr_update_all
                                     |            int 2Fh: install check / uninstall
```

Nothing runs concurrently in the client: it is one epoll loop.  The server has
three actors that share memory: the foreground DOS program (which owns the frame
buffer), the timer interrupt, and the NIC interrupt, which reaches the server
only through the packet driver's two-call receive protocol.

| component | state | operations | what makes it correct |
|---|---|---|---|
| packet buffers (`server/bufmgr.c`, `pktrecv.s`) | buffer states, free and ready lists | acquire, mark_ready (NIC interrupt); get_ready, release (timer interrupt) | lists survive every interleaving; no buffer lost, shared or dirty |
| session manager (`server/session.c`) | 4 session slots, next row, screen checksum | start, prune, stream | live sessions stay, dead ones go, packets fit, clients come to show the screen |
| protocol handlers (`server/protocol.c`) | the one send buffer | ping, status, session start, keystrokes | every frame is answered or ignored and its buffer given back |
| packet driver interface (`server/pktdrv.c`) | handle, interrupt number | init, send, done | registered exactly while resident |
| resident part (`server/resident.c`, `int08.s`, `int2f.s`) | interrupt vectors | timer, multiplex (install check, uninstall) | unhooks only when nobody hooked after it |
| server start-up (`server/main.c`) | options, environment block | install, refuse, unload | leaves no half-installed state |
| video library (`lib16/video.s`) | video segment | read state, checksum, copy | the sum changes when the screen does, mostly |
| client main loop, host list, network (`client/main.c`, `hostlist.c`, `network.c`) | run's session id, servers, chosen server, timers | probe, register, choose, refresh, receive | session kept while wanted, only the chosen server's text is shown |
| client keyboard (`client/keyboard.c`) | escape buffer | menu key, session key, escape sequence | a digit chooses what the menu showed; keys end in one place |
| keymap library (`client/keymaplib.c`) | list, hash table, file | load, reload, find, save | what is found is what the file says, first line first |
| keymap editor (`tools/keymap_config.c`) | selection, marks, dirty flag | move, capture, save, quit | nothing is lost that was not given up; the selection is on the screen |
| VGA demo, `keymap.c` | | demonstration programs | |

### What is hard

* An upcall from the packet driver can arrive between any two instructions of
  the timer interrupt that runs with interrupts enabled.
* Frames wait on a stack, so bursts are handled newest first, and the loop that
  handles them has no bound.
* Time is the BIOS count of the day; it falls back to zero at midnight.
* One 16-bit checksum decides whether *any* client is sent anything.
* The screen is summed at one moment and read over several later ones, while the
  foreground program draws and changes modes.
* The network loses packets and nothing is acknowledged.
* The client's only clock is looked at once per turn of its loop, which waits up
  to a second, reads escape sequences byte by byte, and skips its timers when a
  signal cuts the wait short; the server's patience is finite.
* Servers go on streaming to runs of the client that are gone, at the same
  address, and answer probes in any order.
* Keymap file, list, hash table, and the editor's parallel array of marks are
  four copies of one thing, and each reverses the order of the one before.

`PROJECT.json` lists these as hazards, each at its line with the properties that
would catch it.

## 2. Modules

```
  BufPool  <--refines--  Bufmgr  <-- BufmgrProofs
     ^
     | extends
  Server  --extends-->  Session  <-- SessionLife  <-- SessionProofs
   ^                       ^           ^      |
   MCServer                |           |      +--refines--> Lease <--instance-+
                           |     MCSessionLife                                |
                           +-- VideoStream <-- MCVideoStream                  |
  Client  <--extends--  System  <-- MCSystem, SystemProofs                    |
                           +--------------------------------------------------+
  Keymap  <-- MCKeymap, KeymapProofs
  Resident  <-- ResidentProofs

  SessionProofs  <--extends--  VideoProofs (with VideoStream)
                 <--extends--  ServerProofs (with Server)
  Recursion  <--extends--  BufmgrProofs, SessionProofs, KeymapProofs, ResidentProofs
```

* **BufPool** - what the buffer manager promises: a counted pool and a stack.
* **Bufmgr** - `bufmgr.c` with its linked lists, cut at every point where an
  upcall could come in.  `pc` is the timer interrupt's program counter; `ie` the
  interrupt flag; `g_free_list`, `g_ready_list`, `state`, `next`, `data` are the
  C variables.  `Acquire` and `MarkReady` are the two upcalls (whole, since the
  driver calls with interrupts off), `Get*` and `Rel*` the pieces of
  `buffer_get_ready` and `buffer_release`.  `PoolRefined` says that it
  implements BufPool; `TickEnds` counts the steps the timer interrupt still has
  to take.
* **Session** - `session.c`.  Both entry points run inside the timer interrupt,
  so each is one action: `session_mgr_start` and `session_mgr_update_all`
  (prune, wrap, checksum gate, packet, then the BIOS's clock).  The DOS
  program's writes and mode changes are actions of their own.
* **SessionLife** - Session with an age per slot that does not wrap, to speak
  about real time.  `KeepsPromise` says that it implements Lease.
* **Lease** - what a server promises its clients: a bounded number of sessions,
  each with an age that a start sets to zero and a tick advances; past the
  lifetime it may be taken away.  Bounds, addresses and midnight are gone.
* **Client** - the client program: `main.c`'s epoll loop, one action per piece
  that the wait can separate (`Wake`, `Interrupted`, `SocketIO`, `MenuKey`,
  `SessionKey`, `EscByte`, `EscEnds`, `Timers`), `hostlist.c` and the filters of
  `network.c`.  Intervals are measured in the units of its constants; `wait` is
  how long it has been waiting, `sinceStart` and `sinceProbe` what
  `process_timers` computes from its time stamps.  A key carries the server that
  the menu showed for it when it was pressed (`meant`): the user's view. A run's
  random session id is the number of the run.
* **System** - Client with servers, each of which is a Lease, a network that may
  lose packets, the user, servers' reboots, and text streamed to whoever holds a
  session, former runs of the client included.  It is built on Lease and not on
  SessionLife: the promise is what a client can rely on, and SessionLife keeps
  it.
* **Keymap** - the keymap file with the two programs that share it.  The
  client's list and table (`keymap_load`, `keymap_find`, the reload key) and the
  editor (`keymap_config.c`): the list of entries, the parallel marks, the dirty
  flag, the two indices of the scrolled view, a capture by bytes, a save that
  may fail.  The hash is computed as the code does; names of keys are values.
* **VideoStream** - Session with the clients' copies of the screen behind a
  network that may lose packets (`process_incoming_video_text`).
* **Server** - the resident server at work: BufPool and Session side by side,
  with the loop of `protocol_process`, its four handlers, the shared send
  buffer, the BIOS keyboard buffer and the local user.  `inTick` is true from
  `int08_isr`'s entry to its jump to the BIOS.  `Handled` is one turn of the
  loop except for keystrokes, which are one step each (`InjectKey`), because a
  frame may arrive and a key be typed locally between two of them.
* **Resident** - how the program gets into memory and out: `main.c`,
  `resident.c`, `pktdrv_init`/`pktdrv_done`, the two vectors with the chains
  behind them, and other resident programs that hook and unhook in between. `pc`
  is the foreground's place in `main`, or in the int 2Fh call that removes the
  resident copy; each call to DOS, to the driver or to `__setvect` is a step,
  because ticks and upcalls come between them.  They change none of these
  variables, so "a tick may come now" is an invariant, not an action.
* **MCServer**, **MCSessionLife**, **MCVideoStream**, **MCSystem**, **MCKeymap**
  are the instances for TLC (Bufmgr and Resident need none: their cfg gives
  plain values).
* **Recursion** - lemmas on numbers that the proofs share: a nonempty set of
  numbers has a least one, a set that holds 0 and every successor holds all, and a
  function that is to be computed from its predecessor's value exists.
* **BufmgrProofs**, **SessionProofs**, **VideoProofs**, **ServerProofs**,
  **ResidentProofs**, **SystemProofs**, **KeymapProofs** - the theorems.

Definitions named `Mut...` are not part of the models: each is the definition
that follows it with a plausible mistake, and shows that the properties notice.

## 3. Runs

| run | question | properties | shows |
|---|---|---|---|
| `bufmgr` | Do the linked lists survive upcalls at every point? | TypeOK, ListsIntact, Contents, Ownership, TickEnds, PoolRefined, DrainsWhenQuiet | They do; they are a pool and a stack; a buffer changes hands in one order only and the driver writes only what fits; each step of the interrupt brings its end nearer, each frame puts it off by ten steps; once the driver falls quiet everything is handled. |
| `server` | Does every frame end as it should? | ServerTypeOK, Conservation, AnsweredOnce, CleanReplies, KeysWhole | One answer per request, to the asker; replies carry only their own bytes; a full keyboard buffer cuts off the end of a frame only. |
| `session_life` | Who keeps a slot, for how long, and what is sent? | LifeTypeOK, OneSessionEach, OnlyMidnightSurvives, LiveKept, KeepsPromise, WriteNoticed, SendingEnds | A refreshing client is never dropped; only midnight lets a dead one live on; seen from the network the table is a Lease.  A single write always changes the checksum; what is left to send shrinks while the screen rests. |
| `midnight` (violation) | Is a client that stops always dropped? | StoppedClientDropped | No: see finding 1. |
| `video_stream` | Do packets fit, does a round show the screen, and does the stream stop when the screen rests? | SessionTypeOK, RoundDelivers, PacketsFit, FallsSilent | Yes, also over mode changes and with lost packets, and whoever starts and expires meanwhile.  RoundDelivers speaks of a round during which nothing is drawn or lost. |
| `video_served` (violation) | Is a client that starts shown the screen? | StartedClientServed | Not while the screen is at rest: finding 2. |
| `video_aba` (violation) | Does "no changes" mean the client is up to date? | SkipMeansUnchanged | No: finding 3. |
| `resident` | Is installation and removal safe at every step? | ResidentTypeOK, CodeInPlace, TimerSeesDriver, OneResident, OthersUndisturbed | Yes, as long as the driver refuses nothing after it accepted the receiver. |
| `resident_left` (violation) | And if it does? | NeverLeftConnected | It keeps calling memory that was given back: finding 4. |
| `system` | Do client and servers stay in step? | SystemTypeOK, OnlyWanted, OwnScreen, KeptWhileControlled, ChosenAsShown, ServedAtLast | The chosen server, and no other, keeps the session although a start is lost, a signal interrupts the wait and a key sequence is slow; a digit chooses what the menu showed; a chosen server comes to serve; text for a former run is not shown. |
| `keymap` | Do file, list, table and editor agree? | KeymapTypeOK, FindsOldest, MarksTell, CleanMeansSaved, ReloadOnlyAdds, MoveShows | The first line of a sequence counts, also when memory runs out; a reload changes no existing meaning; the editor's flag and marks can be relied on until a write fails. |
| `keymap_failed` (violation) | And after one has failed? | ExitLosesNothing | Q leaves without asking although the file is cut short: finding 5. |

### Bounds, and why they are enough

* `bufmgr`: three buffers (the default is 2, the option goes up to 10).  Two let
  a list have a head and a tail; the third is the one in use.  The lengths are
  the shortest frame, the longest that fits and one that does not. The theorems
  hold for any number.
* `server`: two buffers, so two frames can be out of order while a third is
  refused; one session slot for two clients, so a start is also refused; two
  keys per frame and room for two, so a frame is cut off at each point once
  somebody has typed locally.  Screens of one or two cells, a day of two ticks:
  sessions are born, pruned and streamed to, which is all the send buffer sees.
* `session_life`: two slots and four possible clients, a lifetime of two ticks,
  a day of seven, and ages up to nine: a session can be watched for a whole day
  beyond its last start.  `MaxAge` is where the auxiliary counter stops.
* `video_*`: screens of two or three rows, two rows to a packet, so a round
  takes one or two packets and the last is clipped; the characters 20h and 41h
  with attribute 07h.  Cells outside `Writable` never change; in `video_stream`
  one cell of the last row does, which is in the second packet of the tall screen
  and gone in the short one.  Two clients take turns at its one session, so that
  the slot may change hands between two packets; the violations have two.
* `system`: two servers, so that the wrong one can answer first, be chosen by
  mistake or stream; two runs of the client, so that a session of a former run
  is left; one session per server, so that this one fills the table.  (A full
  list of hosts is met only in the proofs.)  The intervals are the smallest that
  differ: a wait of 1, an escape sequence of 1 and one interrupted wait make a
  `Gap` of 3 between two starts.  One start in a row may be lost, and the
  lifetime is 5, the least that SystemAssumption, `(MaxLost + 1) * Gap <=
  Lifetime + 1`, allows.  In the program (milliseconds) the refresh is 2000, the
  wait 1000, an escape sequence up to 1240 and the lifetime 9996 (182 ticks):
  one start in a row may be lost, two if no escape sequence is being read, or
  none and five interruptions of the wait in a row.
* `keymap`: two keys and three sequences in two buckets, so that sequences
  collide, and a save that cuts the longest short; lists of up to three entries
  after a reload; terminals too low for all entries and high enough.
* `resident`: two places for the program, so that a second copy can be loaded
  while the first is resident; one or two other programs, which may sit above
  and below it on either chain; the options 0, 2 and 65535; a driver inside the
  probed range and one just outside, so that a second one can be named with -i
  when the first will not let a receiver go.

### Fairness

`bufmgr`, the `video_*` runs with liveness and `system` use some.  The timer
interrupt is weakly fair (the hardware raises it 18.2 times a second) and so is
its progress from one instruction to the next.  Nothing is assumed of the
network, of other programs or of clients; where a property needs them to rest,
it says so (`Quiet`, "from some point on no ProgramStep").  `system` assumes
only that time goes on or the client ends (`TimeGoesOn`): `Pass` is possible
only while the client waits and every server asked has answered, so the
program's progress follows from the clock's.  A loss of starts is bounded by
`MaxLost` in a row, as in the theorems; without a bound no property of the
session could hold.

### Modelling notes

* On a standard PC the interrupt controller holds the NIC back until the BIOS
  acknowledges the timer, which `int08_isr` lets happen only after the handler.
  The code does not rely on it (it brackets its lists with `x86_cli`/`x86_sti`),
  and a program that hooked int 08h after us may acknowledge first or call us
  with interrupts on; so the models let upcalls in wherever the flag allows.
* For the same reason a second timer tick is *not* let in while one runs: that
  needs the acknowledgement.  `int08_isr` would not survive it (one private
  stack, one place to save SS:SP).
* A frame the driver cannot place is dropped: no step.  Frames shorter than an
  Ethernet frame, the runts of `protocol.c:81`, are among those of `server`.
* Keys of a frame are those that its `payload_len` counts, as in the loop of
  `protocol.c:134`; the code does not compare that with the length received, nor
  does the model.  The client takes every packet to be whole, where
  `main.c:194-229` reads the header of whatever length came.
* Each packet driver gives an ethertype to one receiver and knows nothing of the
  others, hence the pairs in `receivers`.  What an interrupt that is no driver's
  does when `-i` names it is not the program's; it is taken to fail.
* Signals in a row are bounded by `MaxSignals`, losses by `MaxLost`: an endless
  stream of signals faster than the wait keeps `main.c:427` from ever looking at
  its timers, and no property of the session could hold.
* `pktdrv_send` may fail; its result is ignored everywhere, so the models count
  packets handed to the driver.
* The checksum is computed as `video.s` does, including that the count passed is
  twice the number of visible words.
* A start of the client reaches a server at once or is lost: only the lease
  depends on when it arrives, and the delay (the LAN's, and up to one server
  tick) is small against the 1.5 seconds by which two gaps stay below the
  lifetime.  Answers to probes and text wait in the client's socket.
* Keys sent to the DOS machine do not change the client; what becomes of them is
  in Server.  The keys for the debug overlay and the status line change only
  what is drawn.
* The wall clock of the client does not go back in the model.  In the code it
  may, and then neither probes nor starts are sent until it has caught up.
* A line of the keymap file is there or not; one that a failed write cuts in its
  last hexadecimal digit would be read as a different sequence.
* `g_pktdrv_handle` is assumed nonzero after registration (ResidentAssumption);
  the code takes 0 for "not registered".

## 4. Proofs

All theorems are proved for every value of the constants that satisfies the
named assumptions, by the SMT and Zenon backends, and LS4 for the temporal step.

| theorem | says | rests on |
|---|---|---|
| TypeCorrect, ListsAlwaysIntact, ContentsCorrect, OwnershipAlways | the four safety properties of Bufmgr | `IInv` |
| PoolRefinedAlways | Bufmgr implements BufPool | `IInv`, and that links determine the list |
| TickEndsAlways | the handler's steps are numbered down | `IInv` |
| SessionTypes, OneSessionEachAlways, PacketsFitAlways, WriteNoticedAlways, SendingEndsAlways | five of Session | `SessionInv` |
| LifeTypes, OnlyMidnight, LiveKeptAlways | the three of SessionLife | `TableInv` |
| KeepsPromiseAlways | SessionLife implements Lease | `TableInv` |
| RoundDeliversAlways | VideoStream's own | `RoundInv` |
| LifeInherits, StreamInherits | Session's theorems, with ages and with clients beside it | every step is one of Session's |
| ServerTypes | ServerTypeOK | `ServerInv` |
| ServerComposes, ServerInherits | Server is a behaviour of Session and one of BufPool, so it has their properties | every step is one of each or a stutter |
| ServerKeepsPromise | Server implements Lease | SessionLife's theorems, with the ages as a history variable |
| ServersKeepLease | the servers of System do nothing but what Lease allows, or are rebooted | SystemProofs' `IInv` |
| ConservationAlways, CleanRepliesAlways, KeysWholeAlways, AnsweredOnceAlways | four of Server | `PoolTypeOK`/`Conservation`, `KeysInv`, `OwedInv` |
| ResidentTypeCorrect, CodeInPlaceAlways, TimerSeesDriverAlways, OneResidentAlways, OthersUndisturbedAlways | all five of Resident | `RInv` |
| SystemTypeCorrect, OnlyWantedAlways, OwnScreenAlways, KeptAlways, ChosenAlways | System's, liveness apart | SystemProofs' `IInv` |
| KeymapTypeCorrect, FindsOldestAlways, ReloadOnlyAddsAlways, MarksTellAlways, CleanMeansSavedAlways, MoveShowsAlways | all of Keymap | KeymapProofs' `IInv` |

* **Bufmgr.** ListsIntact says that each list is an acyclic chain of exactly the
  buffers in its state; that alone is not inductive, because in the middle of an
  unlink or push the list and the state disagree.  `IInv` adds what the handler
  knows at each `pc` (`HandlerKnows`: interrupts are off between cli and sti,
  `retval` is the head it read and nobody has moved it), and where frames and
  blank buffers are, and that a frame fits where it is (`FramesFit`).  An upcall keeps it because it can only come where no such
  knowledge is held. The refinement needs one more fact: a head and its links
  determine the list (OneList: two lists that differ would differ first at some
  place, but its predecessor links to both).  Then the ready list read off is
  *the* ready list, a push puts one frame in front of it and a pop takes one
  away (ReadyPushed, ReadyPopped); unlinking a buffer is the pool's Take,
  linking it to the free list is Recycle, and every other step stutters.
  TickEnds is the safety half of DrainsWhenQuiet: `StepsLeft` is ten for each
  READY buffer plus the steps the present `pc` still has (`Stage`), each step of
  the handler takes exactly one from it and each frame that arrives adds ten. So
  the loop is as long as the frames are many, and the timer interrupt can be
  kept from returning only by the network.
* **Session, table and stream.** `SessionInv` is the type invariant,
  OneSessionEach and that a slot in use names a client that asked for it.  That the checksum is a
  16-bit number, and that it tells apart two screens that differ in one word, is
  proved by induction over the words: a rotation and an addition modulo 2^16 are
  one-to-one (OneWordNoticed).  This is as far as it goes, since screens that
  differ in two cells can have one sum.  `RowsLeft` is to the stream what
  StepsLeft is to the handler, the safety half of FallsSilent: the rows left in
  this round, and a round more if the screen is not what was last summed. With
  the program at rest nothing increases it and each packet takes from it.
* **Session, time.** `TableInv` adds `AgeKnown`: the age of a slot is the clock minus
  its stamp, or the stamp lies so late in the day that the comparison can no
  longer succeed.  LiveKept then follows from what `Stale` compares.  The
  assumptions are only that lifetime and day are natural numbers. For Lease a
  client's age is that of the slot a start would find; this is the client's own
  or a free one, so there are never more holders than slots (HoldersFit).
* **VideoStream.** `RoundInv` adds to RoundDelivers that in an undisturbed round
  the next packet starts where the last one ended and the screen is not shorter
  than what was sent (`InStep`).  A write or a change of mode ends
  `round.still`, and nothing but a packet changes a client's copy.
* **Server.** A keystroke frame's fate needs `InHand`: keystroke counters are
  zero outside such a frame, and no key is read while a frame is in hand.
  WithinGrows and WithinAppends say that "is a subsequence of" survives what the
  local user types and what the BIOS takes.  AnsweredOnce counts: what a client
  is owed is what waits in the stack plus what is in hand, and each operation of
  the pool moves one frame (CountTop).  `ServerInv` puts these
  together with `SessionInv` and the types of the send buffer: the replies stay
  well typed because the frame in hand is a whole frame of the stack (PoolTypeOK),
  and the key counters because they belong to it.
* **How the parts fit.** Bufmgr implements BufPool; Server's steps are steps of
  BufPool and of Session at once (ServerComposes); Server with the ages of its
  sessions beside it, which no step reads, implements Lease
  (ServerKeepsPromise); and System's servers do only what Lease allows
  (ServersKeepLease).  So what System says of the client holds with the server
  of `server/`, as far as the abstraction of Lease goes: a server there may drop
  a session whose lease has run out, or be switched off and on.
* **Resident.** OneResident and OthersUndisturbed depend on what was saved when
  the program was installed: `RInv` says that the list of programs behind a copy
  is what that copy saved (`ChainsIntact`), which copies are on which chain at
  each `pc` (`Chained`), and what the foreground has just checked to be on top
  (`OnTop`).  Other programs only push and pop their own entries.  CodeInPlace
  needs that a copy remembers the driver that calls it (`Accounted`), or a release
  at one driver would leave another calling.
* **System.** A session under control is not older than the time since the
  client last sent a start, plus one `Gap` for each start lost since (`Young`);
  and that time depends on where the client stands in its loop (`Punctual`):
  during the wait it is the time waited so far, signals included; while a key is
  read, at most what all the waits of a turn can take, plus the escape
  sequence's own time.  SystemAssumption says that MaxLost + 1 gaps fit in a
  lifetime, so a session under control never reaches an age at which it may be
  dropped. OnlyWanted holds because only the chosen server is ever sent a start
  (`LeaseOK`), and with it what the socket holds for this run is the chosen
  server's (`SockOK`), which is OwnScreen.  ChosenAsShown needs that the list
  only grows and that the menu is a prefix of it (`MenuOK`).
* **Keymap.** The table is built from the list, oldest entry first, and is a set
  of positions per bucket; FindsOldest holds for that part of the list that got
  in before memory ran out (`TableOK`).  ReloadOnlyAdds follows, since a reload
  only puts entries in front.  MarksTell and CleanMeansSaved are inductive with
  the lengths of list and marks and what the file holds between a save's two
  steps (`SavedOK`). MoveShows follows from the two branches that move the
  window.  That the hash of a sequence is a bucket is a lemma (HashInBucket), by
  induction over the bytes of the sequence.

The checksum and the hash are recursive functions.  The library's induction
rules take an operator as parameter, which the installed provers cannot
instantiate; Recursion states induction for *sets* of numbers instead (CountsUp)
and that a function with given steps exists (Unrolled), so that one defined by
recursion satisfies its equations; that is enough for both.

Model-checked only: liveness (DrainsWhenQuiet, FallsSilent, ServedAtLast), which
the prover cannot do under fairness, although TickEnds and SendingEnds prove the
ranks that the first two descend; and the five properties that are violated,
which are checked in order to show how.

## 5. Findings

1. **midnight** - `session.c:109` compares times of day.  A client that stops
   within the lifetime (ten seconds) before midnight is never reclaimed, against
   `protocol.h:61`.  `OnlyMidnight` proves this is the only way.
2. **video_served** - one checksum gates all sessions, so a client that starts
   while the screen rests is sent nothing, against `protocol.h:59`.
3. **video_aba** - the sum is taken when a round begins, the rows are read
   later. A change undone in between leaves the client wrong and the server sure
   of it (`session.c:143`).
4. **resident_left** - `pktdrv_init` returns an error after `access_type`
   without releasing it, and `resident_do_uninstall` ignores `pktdrv_done`'s
   result, against `pktdrv.h:127` and `main.c:254`.
5. **keymap_failed** - a save may be asked for when nothing was modified.
   `keymap_save` empties the file first (`keymaplib.c:224`); when a write fails it
   returns with the list still reversed and the global list down to the old head
   alone (`keymaplib.c:276-280`), and the editor leaves its flag clear
   (`keymap_config.c:537-545`).  Q then takes the branch "No changes, exit
   directly" (`keymap_config.c:592`).  Saving once more succeeds, and makes a file
   of one line.  CleanMeansSaved and MarksTell are therefore stated for runs in
   which no write has failed (`spoiled`).

Noted while reading, without a run:

* Server: the probe for a driver ends before interrupt 80h (`pktrecv.s:157`),
  which `pktdrv.h:114` includes; `main.c:240` clears a word through a near
  pointer where the PSP's segment is meant; the status response names the active
  page, but the stream always reads page 0; the modifier bits of a key stay set
  after it (`x86.s:220`). Of a burst of frames the newest is handled first, so
  keys that arrive within one timer tick reach the DOS program in reverse.
* Client: only hosts 0 to 9 of 16 can be chosen.  A digit typed twice goes to
  the DOS machine the second time.  The option `-d` is parsed and not used.
* Keymap: a changed line has no effect on reload, because the older entry is
  found first; ReloadOnlyAdds states just that, and only the message "reloaded"
  suggests otherwise.  A client that starts while the file is being saved gets a
  part of the keymap.  The reload key is also sent to the DOS machine.
* Editor: a key that terminfo knows arrives from curses as one code above 255
  and cannot be captured, nor can a lone Esc.  A save cuts sequences at 127
  bytes.

## 6. Not modelled

* Formatting, byte order and debug output (server utilities, `debug.c`, status
  and debug overlays on both sides).
* The client's ncurses drawing: colours, code page 437, window layout.  What
  reaches the session window, and what the menu shows for a digit, are in
  Client.
* The VGA demo and `tools/keymap.c`, which share no state with the rest.
* Opening the raw socket, command lines, and locating the keymap file: they
  succeed or end the program.
* Instruction-level glue in `lib16`: register files, far pointers, memory
  copies. int 28h, which the configuration does not build.
* What DOS does with the environment field of the PSP after `main.c:240`, and a
  wall clock that is set back: no statement of the repository is about them.

## 7. What could follow

1. Keys end to end: Client's keystrokes, bursts of frames and the stack order of
   Server in one module, with the order of keys as an expected violation; today
   the two halves are separate.
2. Text end to end: VideoStream's rounds as the text of System, so that
   OwnScreen speaks of cells.
3. Larger instances of `system` (a full host list is met only in the proofs),
   which need a coarser clock.
4. A rank for ServedAtLast (losses left, then the client's place in its loop),
   proved to descend as TickEnds and SendingEnds are for the other two.
