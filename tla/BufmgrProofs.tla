---------------------------- MODULE BufmgrProofs ----------------------------
(***************************************************************************)
(* The lists of the packet-buffer manager are sound for every number of    *)
(* buffers, every frame length and every interleaving of the two           *)
(* interrupts.  ListsIntact is not inductive by itself: it needs to know   *)
(* that upcalls are kept out between x86_cli and x86_sti, and what the     *)
(* protocol handler knows of its buffer at each of its steps.  The same    *)
(* facts show that the lists implement the pool and stack of BufPool.      *)
(***************************************************************************)
EXTENDS Bufmgr, Sequences, FiniteSetTheorems, Recursion, TLAPS

-----------------------------------------------------------------------------
(* Linked lists.                                                           *)

\* A list holds buffers only, and an empty one has a NULL head and no other.
LEMMA ListBasics ==
  ASSUME NEW h, NEW S, NEW nx, ListOf(h, S, nx)
  PROVE  /\ S \subseteq Buffer
         /\ h \in Buffer \cup {NULL}
         /\ h = NULL <=> S = {}
         /\ h # NULL => h \in S
<1>k. PICK k \in 0..NumBuffers :
        \E s \in [1..k -> Buffer] : Links(s, k, h, nx) /\ S = {s[i] : i \in 1..k}
  BY DEF ListOf
<1>1. PICK s \in [1..k -> Buffer] : Links(s, k, h, nx) /\ S = {s[i] : i \in 1..k}
  BY <1>k
<1>2. CASE k = 0
  BY <1>1, <1>2 DEF Links, NULL
<1>3. CASE k # 0
  <2>1. 1 \in 1..k
    BY <1>3, BufmgrAssumption
  <2>2. h = s[1] /\ h \in S /\ h \in Buffer
    BY <1>1, <1>3, <2>1 DEF Links
  <2>3. h # NULL
    BY <2>2 DEF Buffer, NULL
  <2> QED BY <1>1, <2>2, <2>3
<1> QED BY <1>2, <1>3

\* Writing to the link field of a buffer that is not on a list leaves it alone.
LEMMA ListFrame ==
  ASSUME NEW h, NEW S, NEW nx, ListOf(h, S, nx),
         NEW ny, \A x \in S : ny[x] = nx[x]
  PROVE  ListOf(h, S, ny)
<1>k. PICK k \in 0..NumBuffers :
        \E s \in [1..k -> Buffer] : Links(s, k, h, nx) /\ S = {s[i] : i \in 1..k}
  BY DEF ListOf
<1>1. PICK s \in [1..k -> Buffer] : Links(s, k, h, nx) /\ S = {s[i] : i \in 1..k}
  BY <1>k
<1>2. Links(s, k, h, ny)
  BY <1>1 DEF Links
<1> QED BY <1>1, <1>2 DEF ListOf

\* A list without repetition that misses a buffer is shorter than the table.
LEMMA Room ==
  ASSUME NEW k \in 0..NumBuffers, NEW s \in [1..k -> Buffer],
         \A i, j \in 1..k : s[i] = s[j] => i = j,
         NEW b \in Buffer, b \notin {s[i] : i \in 1..k}
  PROVE  k + 1 \in 0..NumBuffers
<1> DEFINE t == [i \in 1..(k + 1) |-> IF i = k + 1 THEN b ELSE s[i]]
<1>1. NumBuffers \in Nat /\ k \in Nat
  BY BufmgrAssumption
<1>2. \A i \in 1..(k + 1) : i # k + 1 => i \in 1..k
  BY <1>1
<1>3. t \in [1..(k + 1) -> Buffer]
  BY <1>2
<1>4. \A i, j \in 1..(k + 1) : t[i] = t[j] => i = j
  BY <1>2
<1>5. t \in Injection(1..(k + 1), Buffer)
  BY <1>3, <1>4 DEF Injection, IsInjective
<1>6. IsFiniteSet(Buffer) /\ Cardinality(Buffer) = NumBuffers
  BY <1>1, FS_Interval DEF Buffer
<1>7. Cardinality(1..(k + 1)) = k + 1
  <2>1. 1 \in Int /\ k + 1 \in Int /\ ~(1 > k + 1) /\ (k + 1) - 1 + 1 = k + 1
    BY <1>1
  <2> QED BY ONLY <2>1, FS_Interval
<1>8. Cardinality(1..(k + 1)) <= Cardinality(Buffer)
  BY <1>5, <1>6, FS_Injection
<1> QED BY <1>1, <1>6, <1>7, <1>8

\* s lists, in order, the k members of S that nx links from h on.
Follows(k, s, h, S, nx) ==
  s \in [1..k -> Buffer] /\ Links(s, k, h, nx) /\ S = {s[i] : i \in 1..k}

\* The list s with b put in front, and with its first member taken off.
Before(b, k, s) == [i \in 1..(k + 1) |-> IF i = 1 THEN b ELSE s[i - 1]]
After(k, s) == [i \in 1..(k - 1) |-> s[i + 1]]

\* Every list can be written out.
LEMMA Listed ==
  ASSUME NEW h, NEW S, NEW nx, ListOf(h, S, nx)
  PROVE  \E k \in 0..NumBuffers : \E s : Follows(k, s, h, S, nx)
BY DEF ListOf, Follows

\* Pushing a buffer that is not yet on the list.
LEMMA PushFollows ==
  ASSUME NEW h, NEW S, NEW nx,
         NEW k \in 0..NumBuffers, NEW s, Follows(k, s, h, S, nx),
         NEW b \in Buffer, b \notin S,
         NEW ny, ny[b] = h, \A x \in S : ny[x] = nx[x]
  PROVE  /\ k + 1 \in 0..NumBuffers
         /\ Follows(k + 1, Before(b, k, s), b, S \cup {b}, ny)
<1>1. s \in [1..k -> Buffer] /\ Links(s, k, h, nx) /\ S = {s[i] : i \in 1..k}
  BY DEF Follows
<1> DEFINE t == [i \in 1..(k + 1) |-> IF i = 1 THEN b ELSE s[i - 1]]
<1>2. NumBuffers \in Nat /\ k \in Nat
  BY BufmgrAssumption
<1>3. k + 1 \in 0..NumBuffers
  BY <1>1, Room DEF Links
<1>4. \A i \in 1..(k + 1) : i # 1 => i - 1 \in 1..k
  BY <1>2
<1>5. t \in [1..(k + 1) -> Buffer]
  BY <1>1, <1>4
<1>6. \A i \in 1..k : i + 1 \in 1..(k + 1) /\ t[i + 1] = s[i]
  BY <1>2
<1>7. t[1] = b
  BY <1>2
<1>8. S \cup {b} = {t[i] : i \in 1..(k + 1)}
  <2>1. ASSUME NEW x \in S PROVE \E i \in 1..(k + 1) : x = t[i]
    <3>1. PICK j \in 1..k : x = s[j]
      BY <1>1
    <3> QED BY <1>6, <3>1
  <2>2. \E i \in 1..(k + 1) : b = t[i]
    BY <1>2, <1>7
  <2>3. ASSUME NEW i \in 1..(k + 1) PROVE t[i] \in S \cup {b}
    BY <1>1, <1>4
  <2> QED BY <2>1, <2>2, <2>3
<1>9. Links(t, k + 1, b, ny)
  <2>1. \A i, j \in 1..(k + 1) : t[i] = t[j] => i = j
    <3> SUFFICES ASSUME NEW i \in 1..(k + 1), NEW j \in 1..(k + 1), t[i] = t[j]
                 PROVE  i = j
      OBVIOUS
    <3>1. CASE i = 1 \/ j = 1
      BY <1>1, <1>4, <3>1
    <3>2. CASE i # 1 /\ j # 1
      <4>1. s[i - 1] = s[j - 1] /\ i - 1 \in 1..k /\ j - 1 \in 1..k
        BY <1>4, <3>2
      <4>2. i - 1 = j - 1
        BY <1>1, <4>1 DEF Links
      <4> QED BY <4>2, <1>2
    <3> QED BY <3>1, <3>2
  <2>2. b = IF k + 1 = 0 THEN NULL ELSE t[1]
    BY <1>2, <1>7
  <2>3. ASSUME NEW i \in 1..(k + 1)
        PROVE  ny[t[i]] = IF i = k + 1 THEN NULL ELSE t[i + 1]
    <3>1. CASE i = 1
      <4>1. ny[t[i]] = h
        BY <1>7, <3>1
      <4>2. CASE k = 0
        BY <1>1, <3>1, <4>1, <4>2 DEF Links
      <4>3. CASE k # 0
        BY <1>1, <1>2, <1>6, <3>1, <4>1, <4>3 DEF Links
      <4> QED BY <4>2, <4>3
    <3>2. CASE i # 1
      <4>1. i - 1 \in 1..k /\ t[i] = s[i - 1] /\ s[i - 1] \in S
        BY <1>1, <1>4, <3>2
      <4>2. ny[t[i]] = IF i - 1 = k THEN NULL ELSE s[i - 1 + 1]
        BY <1>1, <4>1 DEF Links
      <4>3. CASE i = k + 1
        BY <1>2, <4>2, <4>3
      <4>4. CASE i # k + 1
        <5>1. i \in 1..k /\ i - 1 + 1 = i /\ i - 1 # k
          BY <1>2, <4>4
        <5> QED BY <1>6, <4>2, <4>4, <5>1
      <4> QED BY <4>3, <4>4
    <3> QED BY <3>1, <3>2
  <2> QED BY <2>1, <2>2, <2>3 DEF Links
<1> QED BY <1>3, <1>5, <1>8, <1>9 DEF Follows, Before

LEMMA ListPush ==
  ASSUME NEW h, NEW S, NEW nx, ListOf(h, S, nx),
         NEW b \in Buffer, b \notin S,
         NEW ny, ny[b] = h, \A x \in S : ny[x] = nx[x]
  PROVE  ListOf(b, S \cup {b}, ny)
<1>1. PICK k \in 0..NumBuffers : \E s : Follows(k, s, h, S, nx)
  BY Listed
<1>2. PICK s : Follows(k, s, h, S, nx)
  BY <1>1
<1>3. /\ k + 1 \in 0..NumBuffers
      /\ Follows(k + 1, Before(b, k, s), b, S \cup {b}, ny)
  BY <1>2, PushFollows
<1> QED BY <1>3 DEF Follows, ListOf

\* Popping the head of a list that is not empty.
LEMMA PopFollows ==
  ASSUME NEW h, NEW S, NEW nx,
         NEW k \in 0..NumBuffers, NEW s, Follows(k, s, h, S, nx), h # NULL
  PROVE  /\ k - 1 \in 0..NumBuffers
         /\ Follows(k - 1, After(k, s), nx[h], S \ {h}, nx)
<1>1. s \in [1..k -> Buffer] /\ Links(s, k, h, nx) /\ S = {s[i] : i \in 1..k}
  BY DEF Follows
<1> DEFINE t == [i \in 1..(k - 1) |-> s[i + 1]]
<1>2. NumBuffers \in Nat /\ k \in Nat /\ k # 0 /\ 1 \in 1..k /\ h = s[1]
  BY <1>1, BufmgrAssumption DEF Links
<1>3. k - 1 \in 0..NumBuffers
  BY <1>2
<1>4. \A i \in 1..(k - 1) : i + 1 \in 1..k /\ i + 1 # 1
  BY <1>2
<1>5. t \in [1..(k - 1) -> Buffer]
  BY <1>1, <1>4
<1>6. \A i \in 1..k : i # 1 => i - 1 \in 1..(k - 1) /\ t[i - 1] = s[i]
  BY <1>2
<1>7. S \ {h} = {t[i] : i \in 1..(k - 1)}
  <2>1. ASSUME NEW x \in S \ {h} PROVE \E i \in 1..(k - 1) : x = t[i]
    <3>1. PICK j \in 1..k : x = s[j]
      BY <1>1
    <3> QED BY <1>2, <1>6, <3>1
  <2>2. ASSUME NEW i \in 1..(k - 1) PROVE t[i] \in S \ {h}
    BY <1>1, <1>2, <1>4 DEF Links
  <2> QED BY <2>1, <2>2
<1>8. Links(t, k - 1, nx[h], nx)
  <2>1. \A i, j \in 1..(k - 1) : t[i] = t[j] => i = j
    <3> SUFFICES ASSUME NEW i \in 1..(k - 1), NEW j \in 1..(k - 1), t[i] = t[j]
                 PROVE  i = j
      OBVIOUS
    <3>1. s[i + 1] = s[j + 1] /\ i + 1 \in 1..k /\ j + 1 \in 1..k
      BY <1>4
    <3>2. i + 1 = j + 1
      BY <1>1, <3>1 DEF Links
    <3> QED BY <3>2, <1>2
  <2>2. nx[h] = IF k - 1 = 0 THEN NULL ELSE t[1]
    <3>1. nx[h] = IF 1 = k THEN NULL ELSE s[1 + 1]
      BY <1>1, <1>2 DEF Links
    <3> QED BY <1>2, <3>1
  <2>3. ASSUME NEW i \in 1..(k - 1)
        PROVE  nx[t[i]] = IF i = k - 1 THEN NULL ELSE t[i + 1]
    <3>1. nx[t[i]] = IF i + 1 = k THEN NULL ELSE s[i + 1 + 1]
      BY <1>1, <1>4 DEF Links
    <3>2. CASE i = k - 1
      BY <1>2, <3>1, <3>2
    <3>3. CASE i # k - 1
      <4>1. i + 1 \in 1..(k - 1) /\ i + 1 # k
        BY <1>2, <3>3
      <4> QED BY <3>1, <3>3, <4>1
    <3> QED BY <3>2, <3>3
  <2> QED BY <2>1, <2>2, <2>3 DEF Links
<1> QED BY <1>3, <1>5, <1>7, <1>8 DEF Follows, After

LEMMA ListPop ==
  ASSUME NEW h, NEW S, NEW nx, ListOf(h, S, nx), h # NULL
  PROVE  ListOf(nx[h], S \ {h}, nx)
<1>1. PICK k \in 0..NumBuffers : \E s : Follows(k, s, h, S, nx)
  BY Listed
<1>2. PICK s : Follows(k, s, h, S, nx)
  BY <1>1
<1>3. k - 1 \in 0..NumBuffers /\ Follows(k - 1, After(k, s), nx[h], S \ {h}, nx)
  BY <1>2, PopFollows
<1> QED BY <1>3 DEF Follows, ListOf

-----------------------------------------------------------------------------
(* Type correctness.                                                       *)

LEMMA NullIsNoBuffer == NULL \notin Buffer
  BY DEF NULL, Buffer

\* Types are kept; GetUnlink needs to know that the list is not empty.
LEMMA TypeStep == IInv /\ [Next]_vars => TypeOK'
<1> SUFFICES ASSUME IInv, [Next]_vars PROVE TypeOK'
  OBVIOUS
<1> USE NullIsNoBuffer DEF IInv, TypeOK, buffers, lists, cpu, BufferState, PC
<1>1. ASSUME NEW n \in Lengths, Acquire(n) PROVE TypeOK'
  BY <1>1 DEF Acquire
<1>2. ASSUME NEW b \in Buffer, MarkReady(b) PROVE TypeOK'
  BY <1>2 DEF MarkReady
<1>3. ASSUME NEW b \in Buffer, NEW f \in Frames, DriverCopy(b, f) PROVE TypeOK'
  BY <1>3 DEF DriverCopy
<1>4. CASE Tick
  BY <1>4 DEF Tick
<1>5. CASE GetCli
  BY <1>5 DEF GetCli, Cli
<1>6. CASE GetHead
  BY <1>6 DEF GetHead
<1>7. CASE GetUnlink
  BY <1>7 DEF GetUnlink, HandlerKnows
<1>8. CASE GetMark
  BY <1>8 DEF GetMark
<1>9. CASE GetSti
  BY <1>9 DEF GetSti, Sti
<1>10. CASE Wipe
  BY <1>10 DEF Wipe
<1>11. CASE RelCli
  BY <1>11 DEF RelCli, Cli
<1>12. CASE RelMark
  BY <1>12 DEF RelMark
<1>13. CASE RelPush
  BY <1>13 DEF RelPush
<1>14. CASE RelSti
  BY <1>14 DEF RelSti, Sti
<1>15. CASE Return
  BY <1>15 DEF Return
<1>16. CASE UNCHANGED vars
  BY <1>16 DEF vars
<1> QED
  BY <1>1, <1>2, <1>3, <1>4, <1>5, <1>6, <1>7, <1>8, <1>9, <1>10,
     <1>11, <1>12, <1>13, <1>14, <1>15, <1>16
  DEF Next, Driver, pktdrv_receive_func, protocol_process,
      buffer_get_ready, buffer_release

-----------------------------------------------------------------------------
(* What the timer interrupt knows.                                         *)

\* Upcalls cannot change what the timer interrupt relies on, and its own
\* steps establish it for one another.
LEMMA HandlerStep == IInv /\ [Next]_vars => HandlerKnows'
<1> SUFFICES ASSUME IInv, [Next]_vars PROVE HandlerKnows'
  OBVIOUS
<1> USE NullIsNoBuffer
    DEF IInv, TypeOK, HandlerKnows, Holding, Critical, In, buffers, lists, cpu
<1>1. ASSUME NEW n \in Lengths, Acquire(n) PROVE HandlerKnows'
  <2>1. g_free_list \in FreeLinked
    BY <1>1, ListBasics DEF Acquire, ListsIntact
  <2>2. state[g_free_list] = "FREE"
    BY <2>1 DEF FreeLinked
  <2> QED BY <1>1, <2>2 DEF Acquire, Interruptible
<1>2. ASSUME NEW b \in Buffer, MarkReady(b) PROVE HandlerKnows'
  BY <1>2 DEF MarkReady, Interruptible
<1>3. ASSUME NEW b \in Buffer, NEW f \in Frames, DriverCopy(b, f)
      PROVE  HandlerKnows'
  BY <1>3 DEF DriverCopy, Interruptible
<1>4. CASE Tick
  BY <1>4 DEF Tick
<1>5. CASE GetCli
  BY <1>5 DEF GetCli, Cli
<1>6. CASE GetHead
  BY <1>6 DEF GetHead
<1>7. CASE GetUnlink
  <2>1. g_ready_list \in ReadyLinked
    BY <1>7, ListBasics DEF GetUnlink, ListsIntact
  <2> QED BY <1>7, <2>1 DEF GetUnlink, ReadyLinked
<1>8. CASE GetMark
  BY <1>8 DEF GetMark
<1>9. CASE GetSti
  BY <1>9 DEF GetSti, Sti
<1>10. CASE Wipe
  BY <1>10 DEF Wipe
<1>11. CASE RelCli
  BY <1>11 DEF RelCli, Cli
<1>12. CASE RelMark
  BY <1>12 DEF RelMark
<1>13. CASE RelPush
  BY <1>13 DEF RelPush
<1>14. CASE RelSti
  BY <1>14 DEF RelSti, Sti
<1>15. CASE Return
  BY <1>15 DEF Return
<1>16. CASE UNCHANGED vars
  BY <1>16 DEF vars
<1> QED
  BY <1>1, <1>2, <1>3, <1>4, <1>5, <1>6, <1>7, <1>8, <1>9, <1>10,
     <1>11, <1>12, <1>13, <1>14, <1>15, <1>16
  DEF Next, Driver, pktdrv_receive_func, protocol_process,
      buffer_get_ready, buffer_release

-----------------------------------------------------------------------------
(* The lists.                                                              *)

\* A step that moves nothing between the lists and writes no link keeps them.
LEMMA ListsUntouched ==
  ASSUME ListsIntact, UNCHANGED <<next, lists>>,
         FreeLinked' = FreeLinked, ReadyLinked' = ReadyLinked
  PROVE  ListsIntact'
BY DEF ListsIntact, lists

\* Every step keeps both lists: four of them relink a buffer, the others
\* write to no buffer that is on a list.
LEMMA ListStep == IInv /\ [Next]_vars => ListsIntact'
<1> SUFFICES ASSUME IInv, [Next]_vars PROVE ListsIntact'
  OBVIOUS
<1> USE NullIsNoBuffer DEF IInv, TypeOK, In
<1>1. ASSUME NEW n \in Lengths, Acquire(n) PROVE ListsIntact'
  <2> DEFINE h == g_free_list
  <2>1. h \in FreeLinked /\ h \in Buffer /\ state[h] = "FREE"
    BY <1>1, ListBasics DEF Acquire, ListsIntact, FreeLinked
  <2>2. pc \notin {"rel_push", "get_mark"} /\ pc' = pc
    BY <1>1 DEF Acquire, Interruptible, HandlerKnows, Critical, cpu
  <2>3. FreeLinked' = FreeLinked \ {h} /\ ReadyLinked' = ReadyLinked
    BY <1>1, <2>1, <2>2 DEF Acquire, FreeLinked, ReadyLinked
  <2>4. \A x \in Buffer : x # h => next'[x] = next[x]
    BY <1>1 DEF Acquire
  <2>5. ListOf(next[h], FreeLinked \ {h}, next)
    BY <1>1, ListPop DEF Acquire, ListsIntact
  <2>6. ListOf(next[h], FreeLinked \ {h}, next')
    BY <2>4, <2>5, ListFrame DEF FreeLinked
  <2>7. ListOf(g_ready_list, ReadyLinked, next')
    BY <2>1, <2>4, ListFrame DEF ListsIntact, ReadyLinked
  <2> QED BY <1>1, <2>3, <2>6, <2>7 DEF Acquire, ListsIntact
<1>2. ASSUME NEW b \in Buffer, MarkReady(b) PROVE ListsIntact'
  <2>1. pc \notin {"rel_push", "get_mark"} /\ pc' = pc
    BY <1>2 DEF MarkReady, Interruptible, HandlerKnows, Critical, cpu
  <2>2. b \notin FreeLinked /\ b \notin ReadyLinked
    BY <1>2 DEF MarkReady, FreeLinked, ReadyLinked
  <2>3. FreeLinked' = FreeLinked /\ ReadyLinked' = ReadyLinked \cup {b}
    BY <1>2, <2>1 DEF MarkReady, FreeLinked, ReadyLinked
  <2>4. next'[b] = g_ready_list /\ \A x \in Buffer : x # b => next'[x] = next[x]
    BY <1>2 DEF MarkReady
  <2>5. ListOf(g_free_list, FreeLinked, next')
    BY <2>2, <2>4, ListFrame DEF ListsIntact, FreeLinked
  <2>6. ListOf(b, ReadyLinked \cup {b}, next')
    BY <2>2, <2>4, ListPush DEF ListsIntact, ReadyLinked
  <2> QED BY <1>2, <2>3, <2>5, <2>6 DEF MarkReady, ListsIntact
<1>3. ASSUME NEW b \in Buffer, NEW f \in Frames, DriverCopy(b, f)
      PROVE  ListsIntact'
  BY <1>3, ListsUntouched DEF DriverCopy, FreeLinked, ReadyLinked, lists, cpu
<1>4. CASE Tick
  BY <1>4, ListsUntouched DEF Tick, FreeLinked, ReadyLinked, buffers, lists
<1>5. CASE GetCli
  BY <1>5, ListsUntouched DEF GetCli, FreeLinked, ReadyLinked, buffers, lists
<1>6. CASE GetHead
  BY <1>6, ListsUntouched DEF GetHead, FreeLinked, ReadyLinked, buffers, lists
<1>7. CASE GetUnlink
  <2>1. retval = g_ready_list /\ g_ready_list # NULL
    BY <1>7 DEF GetUnlink, HandlerKnows
  <2>2. ReadyLinked' = ReadyLinked \ {g_ready_list} /\ FreeLinked' = FreeLinked
    BY <1>7, <2>1 DEF GetUnlink, FreeLinked, ReadyLinked, buffers
  <2>3. ListOf(next[g_ready_list], ReadyLinked \ {g_ready_list}, next)
    BY <2>1, ListPop DEF ListsIntact
  <2> QED BY <1>7, <2>2, <2>3 DEF GetUnlink, ListsIntact, buffers
<1>8. CASE GetMark
  <2>1. state[retval] = "READY" /\ retval \in Buffer
    BY <1>8 DEF GetMark, HandlerKnows
  <2>2. ReadyLinked' = ReadyLinked /\ FreeLinked' = FreeLinked
    BY <1>8, <2>1 DEF GetMark, FreeLinked, ReadyLinked
  <2>3. \A x \in Buffer : x # retval => next'[x] = next[x]
    BY <1>8 DEF GetMark
  <2>4. retval \notin FreeLinked /\ retval \notin ReadyLinked
    BY <1>8, <2>1 DEF GetMark, FreeLinked, ReadyLinked
  <2>5. ListOf(g_free_list, FreeLinked, next') /\ ListOf(g_ready_list, ReadyLinked, next')
    BY <2>3, <2>4, ListFrame DEF ListsIntact, FreeLinked, ReadyLinked
  <2> QED BY <1>8, <2>2, <2>5 DEF GetMark, ListsIntact, lists
<1>9. CASE GetSti
  BY <1>9, ListsUntouched DEF GetSti, FreeLinked, ReadyLinked, buffers, lists
<1>10. CASE Wipe
  BY <1>10, ListsUntouched DEF Wipe, FreeLinked, ReadyLinked, buffers, lists
<1>11. CASE RelCli
  BY <1>11, ListsUntouched DEF RelCli, FreeLinked, ReadyLinked, buffers, lists
<1>12. CASE RelMark
  <2>1. state[retval] = "USER" /\ retval \in Buffer
    BY <1>12 DEF RelMark, HandlerKnows, Holding
  <2>2. ReadyLinked' = ReadyLinked /\ FreeLinked' = FreeLinked
    BY <1>12, <2>1 DEF RelMark, FreeLinked, ReadyLinked
  <2>3. \A x \in Buffer : x # retval => next'[x] = next[x]
    BY <1>12 DEF RelMark
  <2>4. retval \notin FreeLinked /\ retval \notin ReadyLinked
    BY <2>1 DEF FreeLinked, ReadyLinked
  <2>5. ListOf(g_free_list, FreeLinked, next') /\ ListOf(g_ready_list, ReadyLinked, next')
    BY <2>3, <2>4, ListFrame DEF ListsIntact, FreeLinked, ReadyLinked
  <2> QED BY <1>12, <2>2, <2>5 DEF RelMark, ListsIntact, lists
<1>13. CASE RelPush
  <2>1. /\ retval \in Buffer /\ retval \notin FreeLinked
        /\ next[retval] = g_free_list /\ state[retval] = "FREE"
    BY <1>13 DEF RelPush, HandlerKnows, FreeLinked
  <2>2. FreeLinked' = FreeLinked \cup {retval} /\ ReadyLinked' = ReadyLinked
    BY <1>13, <2>1 DEF RelPush, FreeLinked, ReadyLinked, buffers
  <2>3. ListOf(retval, FreeLinked \cup {retval}, next)
    BY <2>1, ListPush DEF ListsIntact
  <2> QED BY <1>13, <2>2, <2>3 DEF RelPush, ListsIntact, buffers
<1>14. CASE RelSti
  BY <1>14, ListsUntouched DEF RelSti, FreeLinked, ReadyLinked, buffers, lists
<1>15. CASE Return
  BY <1>15, ListsUntouched DEF Return, FreeLinked, ReadyLinked, buffers, lists
<1>16. CASE UNCHANGED vars
  BY <1>16, ListsUntouched DEF vars, FreeLinked, ReadyLinked, buffers, lists, cpu
<1> QED
  BY <1>1, <1>2, <1>3, <1>4, <1>5, <1>6, <1>7, <1>8, <1>9, <1>10,
     <1>11, <1>12, <1>13, <1>14, <1>15, <1>16
  DEF Next, Driver, pktdrv_receive_func, protocol_process,
      buffer_get_ready, buffer_release

-----------------------------------------------------------------------------
(* The contents.                                                           *)

\* What is on the free list stays blank, what waits or is handled stays whole.
LEMMA ContentsStep == IInv /\ [Next]_vars => FreeIsBlank' /\ FramesWhere'
<1> SUFFICES ASSUME IInv, [Next]_vars PROVE FreeIsBlank' /\ FramesWhere'
  OBVIOUS
<1> USE NullIsNoBuffer
    DEF IInv, TypeOK, HandlerKnows, Holding, Critical, In, FreeLinked,
        FreeIsBlank, FramesWhere, buffers, lists, cpu
<1>1. ASSUME NEW n \in Lengths, Acquire(n) PROVE FreeIsBlank' /\ FramesWhere'
  <2>1. g_free_list \in FreeLinked
    BY <1>1, ListBasics DEF Acquire, ListsIntact
  <2> QED BY <1>1, <2>1 DEF Acquire, Interruptible
<1>2. ASSUME NEW b \in Buffer, MarkReady(b) PROVE FreeIsBlank' /\ FramesWhere'
  BY <1>2 DEF MarkReady, Interruptible
<1>3. ASSUME NEW b \in Buffer, NEW f \in Frames, DriverCopy(b, f)
      PROVE  FreeIsBlank' /\ FramesWhere'
  BY <1>3 DEF DriverCopy, Interruptible
<1>4. CASE Tick
  BY <1>4 DEF Tick
<1>5. CASE GetCli
  BY <1>5 DEF GetCli, Cli
<1>6. CASE GetHead
  BY <1>6 DEF GetHead
<1>7. CASE GetUnlink
  BY <1>7 DEF GetUnlink
<1>8. CASE GetMark
  BY <1>8 DEF GetMark
<1>9. CASE GetSti
  BY <1>9 DEF GetSti, Sti
<1>10. CASE Wipe
  BY <1>10 DEF Wipe
<1>11. CASE RelCli
  BY <1>11 DEF RelCli, Cli
<1>12. CASE RelMark
  BY <1>12 DEF RelMark
<1>13. CASE RelPush
  BY <1>13 DEF RelPush
<1>14. CASE RelSti
  BY <1>14 DEF RelSti, Sti
<1>15. CASE Return
  BY <1>15 DEF Return
<1>16. CASE UNCHANGED vars
  BY <1>16 DEF vars
<1> QED
  BY <1>1, <1>2, <1>3, <1>4, <1>5, <1>6, <1>7, <1>8, <1>9, <1>10,
     <1>11, <1>12, <1>13, <1>14, <1>15, <1>16
  DEF Next, Driver, pktdrv_receive_func, protocol_process,
      buffer_get_ready, buffer_release

\* A buffer is given its length by the driver's request, and loses it when it
\* is released.
LEMMA FitStep == IInv /\ [Next]_vars => FramesFit'
<1> SUFFICES ASSUME IInv, [Next]_vars PROVE FramesFit'
  OBVIOUS
<1> USE DEF IInv, TypeOK, FramesFit, buffers, BUFFER_MAX_SIZE
<1>1. ASSUME NEW n \in Lengths, Acquire(n) PROVE FramesFit'
  <2>1. n \in Nat \ {0} /\ n <= BUFFER_MAX_SIZE
    BY <1>1, BufmgrAssumption DEF Acquire
  <2> QED BY <1>1, <2>1 DEF Acquire
<1>2. ASSUME NEW b \in Buffer, MarkReady(b) PROVE FramesFit'
  BY <1>2 DEF MarkReady
<1>3. CASE GetMark
  BY <1>3 DEF GetMark
<1>4. CASE RelMark
  BY <1>4 DEF RelMark
<1>5. CASE UNCHANGED <<state, bytes>>
  BY <1>5
<1> QED
  BY <1>1, <1>2, <1>3, <1>4, <1>5
  DEF Next, vars, Driver, pktdrv_receive_func, DriverCopy, protocol_process,
      buffer_get_ready, buffer_release, Tick, GetCli, GetHead, GetUnlink, GetSti,
      Wipe, RelCli, RelPush, RelSti, Return

-----------------------------------------------------------------------------
(* The theorems.                                                           *)

\* buffer_init leaves one list of all buffers, in address order.
LEMMA InitInv == Init => IInv
<1> SUFFICES ASSUME Init PROVE IInv
  OBVIOUS
<1>1. NumBuffers \in Nat \ {0}
  BY BufmgrAssumption
<1>2. TypeOK
  BY <1>1, BufmgrAssumption DEF Init, TypeOK, Buffer, NULL, BufferState, PC
<1>3. FreeLinked = Buffer /\ ReadyLinked = {} /\ In("USER") = {}
  BY DEF Init, FreeLinked, ReadyLinked, In
<1>4. ListOf(g_free_list, FreeLinked, next)
  <2> DEFINE s == [i \in 1..NumBuffers |-> i]
  <2>1. s \in [1..NumBuffers -> Buffer] /\ NumBuffers \in 0..NumBuffers
    BY <1>1 DEF Buffer
  <2>2. Links(s, NumBuffers, g_free_list, next)
    BY <1>1 DEF Init, Links, Buffer
  <2>3. FreeLinked = {s[i] : i \in 1..NumBuffers}
    BY <1>3 DEF Buffer
  <2> QED BY <2>1, <2>2, <2>3 DEF ListOf
<1>5. ListOf(g_ready_list, ReadyLinked, next)
  <2> DEFINE s == [i \in 1..0 |-> 1]
  <2>1. s \in [1..0 -> Buffer] /\ 0 \in 0..NumBuffers
    BY <1>1
  <2>2. Links(s, 0, g_ready_list, next)
    BY DEF Init, Links
  <2>3. ReadyLinked = {s[i] : i \in 1..0}
    BY <1>3
  <2> QED BY <2>1, <2>2, <2>3 DEF ListOf
<1>6. HandlerKnows
  BY <1>3 DEF Init, HandlerKnows, Critical, Holding
<1>7. FreeIsBlank /\ FramesWhere
  BY DEF Init, FreeIsBlank, FramesWhere, FreeLinked, In, Holding
<1>8. FramesFit
  BY DEF Init, FramesFit, BUFFER_MAX_SIZE
<1> QED BY <1>2, <1>4, <1>5, <1>6, <1>7, <1>8 DEF IInv, ListsIntact

LEMMA Invariance == Spec => []IInv
<1>1. Init => IInv
  BY InitInv
<1>2. IInv /\ [Next]_vars => IInv'
  BY TypeStep, ListStep, HandlerStep, ContentsStep, FitStep DEF IInv
<1> QED BY <1>1, <1>2, PTL DEF Spec

\* Every variable of bufmgr.c and every local of its callers keeps its type;
\* in particular no list head ever points outside the table.
THEOREM TypeCorrect == Spec => []TypeOK
<1>1. IInv => TypeOK
  BY DEF IInv
<1> QED BY <1>1, Invariance, PTL

\* Both lists are, at every moment, finite chains of exactly the buffers that
\* belong on them: x86_cli/x86_sti in buffer_get_ready and buffer_release are
\* enough to keep the NIC interrupt from tearing a list.
THEOREM ListsAlwaysIntact == Spec => []ListsIntact
<1>1. IInv => ListsIntact
  BY DEF IInv
<1> QED BY <1>1, Invariance, PTL

\* The driver only ever gets blank buffers, and protocol_process only ever
\* works on one whole frame, in the one buffer that is in state USER.
THEOREM ContentsCorrect == Spec => []Contents
<1>1. IInv => Contents
  <2> SUFFICES ASSUME IInv PROVE Contents
    OBVIOUS
  <2>1. In("USER") \subseteq {retval}
    BY DEF IInv, HandlerKnows
  <2>2. ASSUME pc = "handle" PROVE state[retval] = "USER" /\ data[retval] \in Frames
    <3>1. Holding
      BY <2>2 DEF Holding
    <3>2. retval \in In("USER") /\ data[retval] # Zeros
      BY <2>2, <3>1 DEF IInv, HandlerKnows, FramesWhere
    <3> QED BY <3>2 DEF In, IInv, TypeOK
  <2> QED BY <2>1, <2>2 DEF Contents, HandlerOwnsFrame, IInv
<1> QED BY <1>1, Invariance, PTL

\* A buffer goes round FREE, PENDING, READY, USER in every execution, and its
\* contents change only in the hands of its holder, who has room for them.
THEOREM OwnershipAlways == Spec => Ownership
<1>1. IInv /\ [Next]_vars => [OwnershipStep]_vars
  <2> SUFFICES ASSUME IInv, Next PROVE OwnershipStep
    BY DEF OwnershipStep, vars, buffers
  <2> USE NullIsNoBuffer
      DEF IInv, TypeOK, HandlerKnows, Holding, Critical, In, FreeLinked,
          OwnershipStep, Round, buffers, lists, cpu
  <2>1. ASSUME NEW n \in Lengths, Acquire(n) PROVE OwnershipStep
    <3>1. g_free_list \in FreeLinked
      BY <2>1, ListBasics DEF Acquire, ListsIntact
    <3> QED BY <2>1, <3>1 DEF Acquire
  <2>2. ASSUME NEW b \in Buffer, MarkReady(b) PROVE OwnershipStep
    BY <2>2 DEF MarkReady
  <2>3. ASSUME NEW b \in Buffer, NEW f \in Frames, DriverCopy(b, f)
        PROVE  OwnershipStep
    <3>1. bytes[b] \in Nat
      <4>1. bytes[b] \in Lengths \cup {0}
        OBVIOUS
      <4>2. \A n \in Lengths \cup {0} : n \in Nat
        BY BufmgrAssumption
      <4> QED BY <4>1, <4>2
    <3>2. bytes[b] \in 1..BUFFER_MAX_SIZE
      BY <2>3, <3>1 DEF DriverCopy, FramesFit, BUFFER_MAX_SIZE
    <3> QED BY <2>3, <3>2 DEF DriverCopy
  <2>4. CASE GetMark
    BY <2>4 DEF GetMark
  <2>5. CASE Wipe
    BY <2>5 DEF Wipe
  <2>6. CASE RelMark
    BY <2>6 DEF RelMark
  <2>7. ASSUME UNCHANGED <<state, data>> PROVE OwnershipStep
    BY <2>7
  <2> QED
    BY <2>1, <2>2, <2>3, <2>4, <2>5, <2>6, <2>7
    DEF Next, Driver, pktdrv_receive_func, protocol_process, buffer_get_ready,
        buffer_release, Tick, GetCli, GetHead, GetUnlink, GetSti, RelCli,
        RelPush, RelSti, Return
<1> QED BY <1>1, Invariance, PTL DEF Spec, Ownership


-----------------------------------------------------------------------------
(* Refinement of the pool.                                                 *)

\* The links determine the list: two that differ would differ first at a
\* place whose predecessor, the same in both, links to both.
LEMMA OneList ==
  ASSUME NEW h, NEW S, NEW nx, NEW k \in Nat, NEW s, NEW t,
         Follows(k, s, h, S, nx), Follows(k, t, h, S, nx)
  PROVE  s = t
<1> DEFINE D == {i \in 1..k : s[i] # t[i]}
<1>1. D = {}
  <2> SUFFICES ASSUME D # {} PROVE FALSE
    OBVIOUS
  <2>1. D \subseteq Nat
    OBVIOUS
  <2>2. PICK m \in D : \A y \in D : m <= y
    BY <2>1, LeastOf
  <2>3. m \in 1..k /\ m \in Nat /\ s[m] # t[m]
    BY <2>2
  <2>4. CASE m = 1
    BY <2>3, <2>4 DEF Follows, Links
  <2>5. CASE m # 1
    <3>1. m - 1 \in 1..k /\ m - 1 < m /\ m - 1 # k /\ m - 1 + 1 = m
      BY <2>3, <2>5
    <3>2. s[m - 1] = t[m - 1]
      BY <2>2, <2>3, <3>1
    <3>3. nx[s[m - 1]] = s[m] /\ nx[t[m - 1]] = t[m]
      BY <3>1 DEF Follows, Links
    <3> QED BY <2>3, <3>2, <3>3
  <2> QED BY <2>4, <2>5
<1>2. \A i \in 1..k : s[i] = t[i]
  BY <1>1
<1> QED BY <1>2 DEF Follows

\* A list is as long as it has members.
LEMMA ListLength ==
  ASSUME NEW h, NEW S, NEW nx, NEW k \in 0..NumBuffers, NEW s,
         Follows(k, s, h, S, nx)
  PROVE  Cardinality(S) = k
<1>1. k \in Nat
  BY BufmgrAssumption
<1>2. s \in Bijection(1..k, S)
  BY DEF Follows, Links, Bijection, Injection, IsInjective, Surjection
<1>3. IsFiniteSet(1..k) /\ Cardinality(1..k) = k
  <2>1. 1 \in Int /\ k \in Int /\ k - 1 + 1 = k /\ (1 > k => k = 0)
    BY <1>1
  <2> QED BY ONLY <2>1, FS_Interval
<1> QED BY <1>2, <1>3, FS_Bijection DEF ExistsBijection

\* The frames that wait are the contents of the ready list, in its order.
FramesListed ==
  \A k \in 0..NumBuffers : \A s :
    Follows(k, s, g_ready_list, ReadyLinked, next)
      => ReadyFrames = [i \in 1..k |-> data[s[i]]]

LEMMA TheFrames == FramesListed
<1> SUFFICES ASSUME NEW k \in 0..NumBuffers, NEW s,
                    Follows(k, s, g_ready_list, ReadyLinked, next)
             PROVE  ReadyFrames = [i \in 1..k |-> data[s[i]]]
  BY DEF FramesListed
<1> DEFINE c == Chain(g_ready_list, ReadyLinked)
<1>1. Cardinality(ReadyLinked) = k /\ k \in Nat
  BY ListLength, BufmgrAssumption
<1>2. s \in [1..k -> Buffer] /\ Links(s, k, g_ready_list, next)
      /\ ReadyLinked = {s[i] : i \in 1..k}
  BY DEF Follows
<1>3. c = CHOOSE r \in [1..k -> Buffer] :
            Links(r, k, g_ready_list, next) /\ ReadyLinked = {r[i] : i \in 1..k}
  BY <1>1 DEF Chain
<1>4. /\ c \in [1..k -> Buffer]
      /\ Links(c, k, g_ready_list, next) /\ ReadyLinked = {c[i] : i \in 1..k}
  BY <1>2, <1>3
<1>5. Follows(k, c, g_ready_list, ReadyLinked, next)
  BY <1>4 DEF Follows
<1>6. c = s
  BY <1>1, <1>5, OneList
<1> QED BY <1>2, <1>6 DEF ReadyFrames

LEMMA TheFramesNext ==
  ASSUME NEW k \in 0..NumBuffers, NEW s,
         Follows(k, s, g_ready_list', ReadyLinked', next')
  PROVE  ReadyFrames' = [i \in 1..k |-> data'[s[i]]]
<1>1. FramesListed'
  BY TheFrames, PTL
<1>2. \A j \in 0..NumBuffers : \A r :
        Follows(j, r, g_ready_list, ReadyLinked, next)'
          => ReadyFrames' = [i \in 1..j |-> data'[r[i]]]
  BY <1>1 DEF FramesListed
<1>3. Follows(k, s, g_ready_list, ReadyLinked, next)'
  BY DEF Follows, Links
<1> QED BY <1>2, <1>3

\* A step that writes to no buffer on the ready list leaves the frames alone.
LEMMA ReadyKept ==
  ASSUME ListsIntact, g_ready_list' = g_ready_list, ReadyLinked' = ReadyLinked,
         \A x \in ReadyLinked : next'[x] = next[x] /\ data'[x] = data[x]
  PROVE  ReadyFrames' = ReadyFrames
<1>1. PICK k \in 0..NumBuffers :
        \E s : Follows(k, s, g_ready_list, ReadyLinked, next)
  BY Listed DEF ListsIntact
<1>2. PICK s : Follows(k, s, g_ready_list, ReadyLinked, next)
  BY <1>1
<1>3. \A i \in 1..k : s[i] \in ReadyLinked
  BY <1>2 DEF Follows
<1>4. Follows(k, s, g_ready_list', ReadyLinked', next')
  BY <1>2, <1>3 DEF Follows, Links
<1>5. ReadyFrames = [i \in 1..k |-> data[s[i]]]
  BY <1>2, TheFrames DEF FramesListed
<1>6. ReadyFrames' = [i \in 1..k |-> data'[s[i]]]
  BY <1>4, TheFramesNext
<1> QED BY <1>3, <1>5, <1>6

\* A push puts its frame in front of the others ...
LEMMA ReadyPushed ==
  ASSUME ListsIntact, NEW b \in Buffer, b \notin ReadyLinked,
         g_ready_list' = b, ReadyLinked' = ReadyLinked \cup {b},
         next'[b] = g_ready_list, \A x \in ReadyLinked : next'[x] = next[x],
         data' = data
  PROVE  ReadyFrames' = <<data[b]>> \o ReadyFrames
<1>1. PICK k \in 0..NumBuffers :
        \E s : Follows(k, s, g_ready_list, ReadyLinked, next)
  BY Listed DEF ListsIntact
<1>2. PICK s : Follows(k, s, g_ready_list, ReadyLinked, next)
  BY <1>1
<1>3. /\ k + 1 \in 0..NumBuffers
      /\ Follows(k + 1, Before(b, k, s), g_ready_list', ReadyLinked', next')
  BY <1>2, PushFollows
<1>4. ReadyFrames = [i \in 1..k |-> data[s[i]]]
  BY <1>2, TheFrames DEF FramesListed
<1>5. ReadyFrames' = [i \in 1..(k + 1) |-> data'[Before(b, k, s)[i]]]
  BY <1>3, TheFramesNext
<1>6. k \in Nat
  BY BufmgrAssumption
<1>7. ReadyFrames' = [i \in 1..(k + 1) |-> IF i = 1 THEN data[b] ELSE data[s[i - 1]]]
  BY <1>5 DEF Before
<1>8. DOMAIN ReadyFrames = 1..k /\ Len(ReadyFrames) = k
  BY <1>4, <1>6
<1>9. <<data[b]>> \o ReadyFrames
        = [i \in 1..(k + 1) |-> IF i = 1 THEN data[b] ELSE data[s[i - 1]]]
  BY <1>4, <1>6, <1>8
<1> QED BY <1>7, <1>9

\* ... and a pop takes the one in front.
LEMMA ReadyPopped ==
  ASSUME ListsIntact, g_ready_list # NULL, g_ready_list' = next[g_ready_list],
         ReadyLinked' = ReadyLinked \ {g_ready_list}, UNCHANGED <<next, data>>
  PROVE  /\ ReadyFrames # <<>>
         /\ Head(ReadyFrames) = data[g_ready_list]
         /\ ReadyFrames' = Tail(ReadyFrames)
<1>1. PICK k \in 0..NumBuffers :
        \E s : Follows(k, s, g_ready_list, ReadyLinked, next)
  BY Listed DEF ListsIntact
<1>2. PICK s : Follows(k, s, g_ready_list, ReadyLinked, next)
  BY <1>1
<1>3. /\ k - 1 \in 0..NumBuffers
      /\ Follows(k - 1, After(k, s), g_ready_list', ReadyLinked', next')
  BY <1>2, PopFollows
<1>4. ReadyFrames = [i \in 1..k |-> data[s[i]]]
  BY <1>2, TheFrames DEF FramesListed
<1>5. ReadyFrames' = [i \in 1..(k - 1) |-> data'[After(k, s)[i]]]
  BY <1>3, TheFramesNext
<1>6. k \in Nat /\ k # 0 /\ 1 \in 1..k
  BY <1>3, BufmgrAssumption
<1>7. ReadyFrames' = [i \in 1..(k - 1) |-> data[s[i + 1]]]
  BY <1>5 DEF After
<1>8. g_ready_list = s[1]
  BY <1>2, <1>6 DEF Follows, Links
<1>9. DOMAIN ReadyFrames = 1..k /\ Len(ReadyFrames) = k
  BY <1>4, <1>6
<1>10. ReadyFrames # <<>>
  BY <1>6, <1>9
<1>11. Head(ReadyFrames) = data[s[1]]
  BY <1>4, <1>6
<1>12. Tail(ReadyFrames) = [i \in 1..(k - 1) |-> data[s[i + 1]]]
  BY <1>4, <1>6, <1>9
<1> QED BY <1>7, <1>8, <1>10, <1>11, <1>12

\* The buffers that can be counted.
LEMMA Countable ==
  ASSUME NEW T, T \subseteq Buffer
  PROVE  IsFiniteSet(T) /\ Cardinality(T) \in Nat
<1>1. IsFiniteSet(Buffer)
  BY BufmgrAssumption, FS_Interval DEF Buffer
<1>2. IsFiniteSet(T)
  BY <1>1, FS_Subset
<1> QED BY <1>2, FS_CardinalityType

\* What the pool sees of the buffer the handler holds.
Held == IF Owns THEN data[retval] ELSE NoFrame

\* A step that moves nothing between the sets and leaves the frames alone is
\* no step of the pool.
LEMMA PoolRests ==
  ASSUME ListsIntact, g_ready_list' = g_ready_list, ReadyLinked' = ReadyLinked,
         \A x \in ReadyLinked : next'[x] = next[x] /\ data'[x] = data[x],
         FreeLinked' = FreeLinked, In("PENDING")' = In("PENDING"), Held' = Held
  PROVE  UNCHANGED Pool!poolVars
<1>1. ReadyFrames' = ReadyFrames
  BY ReadyKept
<1> QED BY <1>1 DEF Pool!poolVars, Held

\* Every step of the two interrupts is a step of the pool, or none.
LEMMA PoolStep == IInv /\ [Next]_vars => [Pool!PoolNext]_(Pool!poolVars)
<1> SUFFICES ASSUME IInv, [Next]_vars
             PROVE  Pool!PoolNext \/ UNCHANGED Pool!poolVars
  OBVIOUS
<1> USE NullIsNoBuffer DEF IInv, TypeOK, In
<1>1. ASSUME NEW n \in Lengths, Acquire(n) PROVE Pool!Grant
  <2> DEFINE h == g_free_list
  <2>1. h \in FreeLinked /\ h \in Buffer /\ state[h] = "FREE"
    BY <1>1, ListBasics DEF Acquire, ListsIntact, FreeLinked
  <2>2. pc \notin {"rel_push", "get_mark"} /\ pc' = pc /\ retval' = retval
    BY <1>1 DEF Acquire, Interruptible, HandlerKnows, Critical, cpu
  <2>3. /\ FreeLinked' = FreeLinked \ {h} /\ ReadyLinked' = ReadyLinked
        /\ In("PENDING")' = In("PENDING") \cup {h} /\ h \notin In("PENDING")
    BY <1>1, <2>1, <2>2 DEF Acquire, FreeLinked, ReadyLinked
  <2>4. \A x \in ReadyLinked : next'[x] = next[x] /\ data'[x] = data[x]
    BY <1>1, <2>1 DEF Acquire, ReadyLinked
  <2>5. ReadyFrames' = ReadyFrames
    BY <1>1, <2>3, <2>4, ReadyKept DEF Acquire
  <2>6. Held' = Held
    BY <1>1, <2>2 DEF Acquire, Held, Owns
  <2>7. IsFiniteSet(FreeLinked) /\ Cardinality(FreeLinked) \in Nat
    BY Countable DEF FreeLinked
  <2>8. IsFiniteSet(In("PENDING")) /\ Cardinality(In("PENDING")) \in Nat
    BY Countable
  <2>9. Cardinality(FreeLinked') = Cardinality(FreeLinked) - 1
    BY <2>1, <2>3, <2>7, FS_RemoveElement
  <2>10. Cardinality(In("PENDING")') = Cardinality(In("PENDING")) + 1
    BY <2>3, <2>8, FS_AddElement
  <2>11. Cardinality(FreeLinked) > 0
    BY <2>1, <2>7, FS_EmptySet
  <2> QED BY <2>5, <2>6, <2>9, <2>10, <2>11 DEF Pool!Grant, Held
<1>2. ASSUME NEW b \in Buffer, MarkReady(b)
      PROVE  data[b] \in Frames /\ Pool!Deliver(data[b])
  <2>1. pc \notin {"rel_push", "get_mark"} /\ pc' = pc /\ retval' = retval
    BY <1>2 DEF MarkReady, Interruptible, HandlerKnows, Critical, cpu
  <2>2. b \notin FreeLinked /\ b \notin ReadyLinked /\ b \in In("PENDING")
    BY <1>2 DEF MarkReady, FreeLinked, ReadyLinked
  <2>3. /\ FreeLinked' = FreeLinked /\ ReadyLinked' = ReadyLinked \cup {b}
        /\ In("PENDING")' = In("PENDING") \ {b}
    BY <1>2, <2>1 DEF MarkReady, FreeLinked, ReadyLinked
  <2>4. next'[b] = g_ready_list /\ \A x \in ReadyLinked : next'[x] = next[x]
    BY <1>2, <2>2 DEF MarkReady, ReadyLinked
  <2>5. ReadyFrames' = <<data[b]>> \o ReadyFrames
    BY <1>2, <2>2, <2>3, <2>4, ReadyPushed DEF MarkReady
  <2>6. Held' = Held
    BY <1>2, <2>1 DEF MarkReady, Held, Owns
  <2>7. IsFiniteSet(In("PENDING")) /\ Cardinality(In("PENDING")) \in Nat
    BY Countable
  <2>8. Cardinality(In("PENDING")') = Cardinality(In("PENDING")) - 1
    <3>1. Cardinality(In("PENDING") \ {b}) = Cardinality(In("PENDING")) - 1
      BY ONLY <2>2, <2>7, FS_RemoveElement
    <3> QED BY ONLY <2>3, <3>1
  <2>9. Cardinality(In("PENDING")) > 0
    BY <2>2, <2>7, FS_EmptySet
  <2>10. data[b] \in Frames
    BY <1>2 DEF MarkReady
  <2> QED BY <2>3, <2>5, <2>6, <2>8, <2>9, <2>10 DEF Pool!Deliver, Held
<1>3. ASSUME NEW b \in Buffer, NEW f \in Frames, DriverCopy(b, f)
      PROVE  UNCHANGED Pool!poolVars
  <2>1. Owns => retval \in Buffer /\ state[retval] # "PENDING"
    BY DEF Owns, Owning, HandlerKnows, Holding
  <2>2. Held' = Held
    BY <1>3, <2>1 DEF DriverCopy, Held, Owns, lists, cpu
  <2>3. \A x \in ReadyLinked : next'[x] = next[x] /\ data'[x] = data[x]
    BY <1>3 DEF DriverCopy, ReadyLinked
  <2> QED BY <1>3, <2>2, <2>3, PoolRests
      DEF DriverCopy, FreeLinked, ReadyLinked, lists, cpu
<1>4. CASE Tick
  BY <1>4, PoolRests DEF Tick, FreeLinked, ReadyLinked, Held, Owns, Owning, buffers, lists
<1>5. CASE GetCli
  BY <1>5, PoolRests DEF GetCli, FreeLinked, ReadyLinked, Held, Owns, Owning, buffers, lists
<1>6. CASE GetHead
  BY <1>6, PoolRests DEF GetHead, FreeLinked, ReadyLinked, Held, Owns, Owning, buffers, lists
<1>7. CASE GetUnlink
  <2>1. retval = g_ready_list /\ g_ready_list # NULL
    BY <1>7 DEF GetUnlink, HandlerKnows
  <2>2. /\ ReadyLinked' = ReadyLinked \ {g_ready_list} /\ FreeLinked' = FreeLinked
        /\ In("PENDING")' = In("PENDING")
    BY <1>7, <2>1 DEF GetUnlink, FreeLinked, ReadyLinked, buffers
  <2>3. /\ ReadyFrames # <<>>
        /\ Head(ReadyFrames) = data[g_ready_list]
        /\ ReadyFrames' = Tail(ReadyFrames)
    BY <1>7, <2>1, <2>2, ReadyPopped DEF GetUnlink, buffers
  <2>4. Held = NoFrame /\ Held' = data[g_ready_list]
    BY <1>7, <2>1 DEF GetUnlink, Held, Owns, Owning, buffers
  <2>5. Pool!Take
    BY <2>2, <2>3, <2>4 DEF Pool!Take, Held
  <2> QED BY <2>5 DEF Pool!PoolNext
<1>8. CASE GetMark
  <2>1. state[retval] = "READY" /\ retval \in Buffer
    BY <1>8 DEF GetMark, HandlerKnows
  <2>2. /\ ReadyLinked' = ReadyLinked /\ FreeLinked' = FreeLinked
        /\ In("PENDING")' = In("PENDING")
    BY <1>8, <2>1 DEF GetMark, FreeLinked, ReadyLinked
  <2>3. \A x \in ReadyLinked : next'[x] = next[x] /\ data'[x] = data[x]
    BY <1>8 DEF GetMark, ReadyLinked
  <2>4. Held' = Held
    BY <1>8, <2>1 DEF GetMark, Held, Owns, Owning
  <2> QED BY <1>8, <2>2, <2>3, <2>4, PoolRests DEF GetMark, lists
<1>9. CASE GetSti
  BY <1>9, PoolRests DEF GetSti, FreeLinked, ReadyLinked, Held, Owns, Owning, buffers, lists
<1>10. CASE Wipe
  <2>1. state[retval] = "USER" /\ retval \in Buffer /\ data[retval] \in Frames
    BY <1>10 DEF Wipe, HandlerKnows, FramesWhere, Holding
  <2>2. /\ ReadyLinked' = ReadyLinked /\ FreeLinked' = FreeLinked
        /\ In("PENDING")' = In("PENDING")
    BY <1>10 DEF Wipe, FreeLinked, ReadyLinked
  <2>3. \A x \in ReadyLinked : next'[x] = next[x] /\ data'[x] = data[x]
    BY <1>10, <2>1 DEF Wipe, ReadyLinked
  <2>4. ReadyFrames' = ReadyFrames
    BY <1>10, <2>2, <2>3, ReadyKept DEF Wipe, lists
  <2>5. Held = data[retval] /\ Held' = Zeros
    BY <1>10, <2>1 DEF Wipe, Held, Owns, Owning
  <2>6. Pool!Wipe
    BY <2>1, <2>2, <2>4, <2>5 DEF Pool!Wipe, Held
  <2> QED BY <2>6 DEF Pool!PoolNext
<1>11. CASE RelCli
  BY <1>11, PoolRests DEF RelCli, FreeLinked, ReadyLinked, Held, Owns, Owning, buffers, lists
<1>12. CASE RelMark
  <2>1. state[retval] = "USER" /\ retval \in Buffer
    BY <1>12 DEF RelMark, HandlerKnows, Holding
  <2>2. /\ ReadyLinked' = ReadyLinked /\ FreeLinked' = FreeLinked
        /\ In("PENDING")' = In("PENDING")
    BY <1>12, <2>1 DEF RelMark, FreeLinked, ReadyLinked
  <2>3. \A x \in ReadyLinked : next'[x] = next[x] /\ data'[x] = data[x]
    BY <1>12, <2>1 DEF RelMark, ReadyLinked
  <2>4. Held' = Held
    BY <1>12 DEF RelMark, Held, Owns, Owning
  <2> QED BY <1>12, <2>2, <2>3, <2>4, PoolRests DEF RelMark, lists
<1>13. CASE RelPush
  <2>1. retval \in Buffer /\ retval \notin FreeLinked /\ state[retval] = "FREE"
    BY <1>13 DEF RelPush, HandlerKnows, FreeLinked
  <2>2. /\ FreeLinked' = FreeLinked \cup {retval} /\ ReadyLinked' = ReadyLinked
        /\ In("PENDING")' = In("PENDING")
    BY <1>13, <2>1 DEF RelPush, FreeLinked, ReadyLinked, buffers
  <2>3. ReadyFrames' = ReadyFrames
    BY <1>13, <2>2, ReadyKept DEF RelPush, buffers
  <2>4. Held = Zeros /\ Held' = NoFrame
    BY <1>13, <2>1 DEF RelPush, Held, Owns, Owning, FramesWhere
  <2>5. IsFiniteSet(FreeLinked)
    BY Countable DEF FreeLinked
  <2>6. Cardinality(FreeLinked') = Cardinality(FreeLinked) + 1
    BY <2>1, <2>2, <2>5, FS_AddElement
  <2>7. Pool!Recycle
    BY <2>2, <2>3, <2>4, <2>6 DEF Pool!Recycle, Held
  <2> QED BY <2>7 DEF Pool!PoolNext
<1>14. CASE RelSti
  BY <1>14, PoolRests DEF RelSti, FreeLinked, ReadyLinked, Held, Owns, Owning, buffers, lists
<1>15. CASE Return
  BY <1>15, PoolRests DEF Return, FreeLinked, ReadyLinked, Held, Owns, Owning, buffers, lists
<1>16. CASE UNCHANGED vars
  BY <1>16, PoolRests DEF vars, FreeLinked, ReadyLinked, Held, Owns, buffers, lists, cpu
<1>17. ASSUME NEW b \in Buffer, MarkReady(b) PROVE Pool!PoolNext
  BY <1>2, <1>17 DEF Pool!PoolNext
<1> QED
  BY <1>1, <1>3, <1>4, <1>5, <1>6, <1>7, <1>8, <1>9, <1>10,
     <1>11, <1>12, <1>13, <1>14, <1>15, <1>16, <1>17
  DEF Next, Driver, pktdrv_receive_func, protocol_process,
      buffer_get_ready, buffer_release, Pool!PoolNext

\* At the start every buffer is free.
LEMMA PoolStart == Init => Pool!PoolInit
<1> SUFFICES ASSUME Init PROVE Pool!PoolInit
  OBVIOUS
<1>1. FreeLinked = Buffer /\ ReadyLinked = {} /\ In("PENDING") = {}
  BY DEF Init, FreeLinked, ReadyLinked, In
<1>2. Cardinality(Buffer) = NumBuffers /\ Cardinality({}) = 0
  BY BufmgrAssumption, FS_Interval, FS_EmptySet DEF Buffer
<1>3. ListsIntact
  BY InitInv DEF IInv
<1>4. PICK k \in 0..NumBuffers :
        \E s : Follows(k, s, g_ready_list, ReadyLinked, next)
  BY <1>3, Listed DEF ListsIntact
<1>5. PICK s : Follows(k, s, g_ready_list, ReadyLinked, next)
  BY <1>4
<1>6. k = 0
  BY <1>1, <1>2, <1>5, ListLength
<1>7. ReadyFrames = [i \in 1..0 |-> data[s[i]]]
  BY <1>5, <1>6, TheFrames DEF FramesListed
<1>8. ReadyFrames = <<>>
  BY <1>7
<1>9. ~Owns
  BY DEF Init, Owns, Owning
<1> QED BY <1>1, <1>2, <1>8, <1>9 DEF Pool!PoolInit

\* The linked lists, with the interrupt flag and every step between which an
\* upcall can come, implement a counted pool and a stack of frames: bufmgr.c
\* keeps BufPool's promise for any number of buffers and any frames.
THEOREM PoolRefinedAlways == Spec => PoolRefined
<1>1. Init => Pool!PoolInit
  BY PoolStart
<1>2. IInv /\ [Next]_vars => [Pool!PoolNext]_(Pool!poolVars)
  BY PoolStep
<1> QED BY <1>1, <1>2, Invariance, PTL DEF Spec, PoolRefined, Pool!PoolSpec

-----------------------------------------------------------------------------
(* The length of the interrupt.                                            *)

\* Where the code stands counts for this many steps.
LEMMA StageValues ==
  /\ pc = "idle" => Stage[pc] = 0
  /\ pc = "done" => Stage[pc] = 1
  /\ pc = "get_mark" => Stage[pc] = 1
  /\ pc = "get_unlink" => Stage[pc] = 2
  /\ pc = "get_head" => Stage[pc] = 3
  /\ pc = "get_cli" => Stage[pc] = 4
  /\ pc = "rel_sti" => Stage[pc] = 5
  /\ pc = "rel_push" => Stage[pc] = 6
  /\ pc = "rel_mark" => Stage[pc] = 7
  /\ pc = "rel_cli" => Stage[pc] = 8
  /\ pc = "handle" => Stage[pc] = 9
  /\ pc = "get_sti" => Stage[pc] = IF retval = NULL THEN 2 ELSE 10
BY DEF Stage

LEMMA StageTyped == pc \in PC => Stage[pc] \in Nat
BY StageValues DEF PC

\* Each action's part: which frames wait, and where the code goes.
LEMMA TickEndsNext == IInv /\ [Next]_vars => TickEndsStep
<1> SUFFICES ASSUME IInv, [Next]_vars PROVE TickEndsStep
  OBVIOUS
<1> DEFINE R == In("READY")
           n == Cardinality(R)
<1>0. IsFiniteSet(R) /\ n \in Nat
  BY Countable DEF In
<1>1. pc \in PC /\ Stage[pc] \in Nat
  BY StageTyped DEF IInv, TypeOK
<1>2. PICK at \in Nat : at = Stage[pc]
  BY <1>1
<1>3. PICK at2 : at2 = Stage'[pc']
  OBVIOUS
<1>4. StepsLeft = 10 * n + at /\ StepsLeft' = 10 * Cardinality(R') + at2
  BY <1>2, <1>3 DEF StepsLeft, FrameSteps
<1> HIDE DEF R, n
<1>5. ASSUME R' = R, pc' # pc, at2 = at - 1 PROVE TickEndsStep
  <2>1. StepsLeft' = StepsLeft - 1
    BY <1>0, <1>2, <1>4, <1>5 DEF n
  <2> QED BY <1>5, <2>1 DEF TickEndsStep
<1>6. ASSUME R' = R, pc' = pc, retval' = retval PROVE TickEndsStep
  <2>1. at2 = at
    BY <1>2, <1>3, <1>6 DEF Stage
  <2>2. StepsLeft' = StepsLeft
    BY <1>4, <1>6, <2>1 DEF n
  <2> QED BY <1>6, <2>2 DEF TickEndsStep
<1>7. ASSUME state' = state PROVE R' = R
  BY <1>7 DEF R, In
<1> USE NullIsNoBuffer
<1>8. ASSUME NEW k \in Lengths, Acquire(k) PROVE TickEndsStep
  <2>1. g_free_list \in FreeLinked /\ g_free_list \in Buffer /\ state[g_free_list] = "FREE"
    BY <1>8, ListBasics DEF IInv, ListsIntact, Acquire, FreeLinked, In
  <2>2. R' = R
    BY <1>8, <2>1 DEF Acquire, R, In, IInv, TypeOK
  <2> QED BY <1>6, <1>8, <2>2 DEF Acquire, cpu
<1>9. ASSUME NEW b \in Buffer, MarkReady(b) PROVE TickEndsStep
  <2>1. R' = R \cup {b} /\ b \notin R /\ pc' = pc /\ retval' = retval
    BY <1>9 DEF MarkReady, R, In, cpu, IInv, TypeOK
  <2>2. Cardinality(R') = n + 1
    BY <1>0, <2>1, FS_AddElement DEF n
  <2>3. at2 = at
    BY <1>2, <1>3, <2>1 DEF Stage
  <2>4. StepsLeft' = StepsLeft + FrameSteps
    BY <1>0, <1>2, <1>4, <2>2, <2>3 DEF FrameSteps
  <2> QED BY <2>1, <2>4 DEF TickEndsStep
<1>10. ASSUME NEW b \in Buffer, NEW f \in Frames, DriverCopy(b, f) PROVE TickEndsStep
  BY <1>6, <1>7, <1>10 DEF DriverCopy, cpu
<1>11. CASE Tick
  <2>1. pc = "idle" /\ pc' # pc
    BY <1>11 DEF Tick
  <2> QED BY <2>1 DEF TickEndsStep
<1>12. CASE GetMark
  <2>1. /\ pc = "get_mark" /\ pc' = "get_sti" /\ retval' = retval
        /\ retval \in R /\ retval # NULL
    BY <1>12 DEF GetMark, IInv, HandlerKnows, TypeOK, R, In
  <2>2. R' = R \ {retval}
    BY <1>12, <2>1 DEF GetMark, R, In, IInv, TypeOK
  <2>3. Cardinality(R') = n - 1
    BY <1>0, <2>1, <2>2, FS_RemoveElement DEF n
  <2>4. at = 1 /\ at2 = 10
    BY <1>2, <1>3, <2>1, StageValues DEF Stage
  <2>5. StepsLeft' = StepsLeft - 1
    BY <1>0, <1>4, <2>3, <2>4
  <2> QED BY <2>1, <2>5 DEF TickEndsStep
<1>13. CASE RelMark
  <2>1. retval \in Buffer /\ state[retval] = "USER"
    BY <1>13 DEF RelMark, IInv, HandlerKnows, Holding, TypeOK, In
  <2>2. R' = R
    BY <1>13, <2>1 DEF RelMark, R, In, IInv, TypeOK
  <2>3. pc' # pc /\ at = 7 /\ at2 = 6
    BY <1>2, <1>3, <1>13 DEF RelMark, Stage
  <2> QED BY <1>5, <2>2, <2>3
<1>14. CASE GetCli
  <2>1. pc' # pc /\ at = 4 /\ at2 = 3
    BY <1>2, <1>3, <1>14 DEF GetCli, Stage
  <2> QED BY <1>5, <1>7, <1>14, <2>1 DEF GetCli, buffers
<1>15. CASE GetHead
  <2>1. pc' # pc /\ at = 3 /\ at2 = 2
    BY <1>2, <1>3, <1>15 DEF GetHead, Stage
  <2> QED BY <1>5, <1>7, <1>15, <2>1 DEF GetHead, buffers
<1>16. CASE GetUnlink
  <2>1. pc' # pc /\ at = 2 /\ at2 = 1
    BY <1>2, <1>3, <1>16 DEF GetUnlink, Stage
  <2> QED BY <1>5, <1>7, <1>16, <2>1 DEF GetUnlink, buffers
<1>17. CASE GetSti
  <2>1. pc' # pc /\ at2 = at - 1
    BY <1>2, <1>3, <1>17 DEF GetSti, Stage
  <2> QED BY <1>5, <1>7, <1>17, <2>1 DEF GetSti, buffers
<1>18. CASE Wipe
  <2>1. pc' # pc /\ at = 9 /\ at2 = 8
    BY <1>2, <1>3, <1>18 DEF Wipe, Stage
  <2> QED BY <1>5, <1>7, <1>18, <2>1 DEF Wipe
<1>19. CASE RelCli
  <2>1. pc' # pc /\ at = 8 /\ at2 = 7
    BY <1>2, <1>3, <1>19 DEF RelCli, Stage
  <2> QED BY <1>5, <1>7, <1>19, <2>1 DEF RelCli, buffers
<1>20. CASE RelPush
  <2>1. pc' # pc /\ at = 6 /\ at2 = 5
    BY <1>2, <1>3, <1>20 DEF RelPush, Stage
  <2> QED BY <1>5, <1>7, <1>20, <2>1 DEF RelPush, buffers
<1>21. CASE RelSti
  <2>1. pc' # pc /\ at = 5 /\ at2 = 4
    BY <1>2, <1>3, <1>21 DEF RelSti, Stage
  <2> QED BY <1>5, <1>7, <1>21, <2>1 DEF RelSti, buffers
<1>22. CASE Return
  <2>1. pc' # pc /\ at = 1 /\ at2 = 0
    BY <1>2, <1>3, <1>22 DEF Return, Stage
  <2> QED BY <1>5, <1>7, <1>22, <2>1 DEF Return, buffers
<1>23. CASE UNCHANGED vars
  BY <1>6, <1>7, <1>23 DEF vars, buffers, cpu
<1> QED
  BY <1>8, <1>9, <1>10, <1>11, <1>12, <1>13, <1>14, <1>15, <1>16, <1>17, <1>18, <1>19,
     <1>20, <1>21, <1>22, <1>23
  DEF Next, Driver, pktdrv_receive_func, protocol_process, buffer_get_ready,
      buffer_release

\* The timer interrupt is over after ten steps for each frame that waits and
\* four more, wherever the NIC interrupts it and whatever is on the lists; only
\* frames delivered meanwhile prolong it (protocol_process's loop).
THEOREM TickEndsAlways == Spec => TickEnds
<1>1. IInv /\ [Next]_vars => [TickEndsStep]_vars
  BY TickEndsNext
<1> QED BY <1>1, Invariance, PTL DEF Spec, TickEnds

=============================================================================
