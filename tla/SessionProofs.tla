--------------------------- MODULE SessionProofs ---------------------------
(***************************************************************************)
(* The session manager for every size of the table, lifetime, length of    *)
(* day, set of text modes and contents of the screen: its types, one       *)
(* session per client, what a packet may contain, what the checksum can be *)
(* relied on for, and how soon the stream ends.  Whatever drives the       *)
(* session manager (Server, SessionLife, VideoStream) inherits these.      *)
(*                                                                         *)
(* Then the life of a session: none is taken away before its time, which   *)
(* ones can outlive it, and the lease a client can rely on.  The invariant *)
(* ties the real age of a session to its time stamp: they agree until      *)
(* midnight, and a session carried over midnight has a stamp no later tick *)
(* finds stale.                                                            *)
(***************************************************************************)
EXTENDS SessionLife, Recursion, FiniteSetTheorems, TLAPS

-----------------------------------------------------------------------------
(* Arithmetic.                                                             *)

LEMMA Quotient ==
  \A a \in Nat, d \in Nat \ {0} :
    a \div d \in Nat /\ d * (a \div d) <= a /\ (d <= a => a \div d >= 1)
OBVIOUS

LEMMA MultipleOf == \A r \in Nat, c \in Nat \ {0} : (r * c) % c = 0
BY SMTT(30)

LEMMA Grows == \A r, k, c \in Nat : r <= k => r * c \in Nat /\ r * c <= k * c
BY SMTT(30)

LEMMA Distributes == \A r, k, c \in Nat : (r + k) * c = r * c + k * c
BY SMTT(30)

LEMMA ModeFits ==
  \A m \in Modes :
    /\ m.rows \in Nat \ {0} /\ m.cols \in Nat \ {0}
    /\ 2 * m.rows * m.cols <= FbWords
    /\ 2 * m.cols <= FrameRoom
BY ScreenAssumption, Zenon

LEMMA Sizes == FrameRoom \in Nat /\ FbWords \in Nat
BY ScreenAssumption, Zenon

-----------------------------------------------------------------------------
(* The checksum.                                                           *)

\* uint16_t by its bounds: with the interval spelled out the provers would go
\* through its members one by one.
LEMMA SixteenBits == \A x : x \in uint16_t <=> x \in Int /\ 0 <= x /\ x <= 65535
<1> DEFINE top == 65535
<1>1. top \in Int
  OBVIOUS
<1>2. top = 65535
  OBVIOUS
<1>3. uint16_t = 0..top
  BY DEF uint16_t
<1> HIDE DEF top
<1>4. \A x : x \in 0..top <=> x \in Int /\ 0 <= x /\ x <= top
  BY <1>1
<1>5. \A x : x \in uint16_t <=> x \in Int /\ 0 <= x /\ x <= top
  BY <1>3, <1>4
<1> QED BY <1>2, <1>5

LEMMA Divided ==
  ASSUME NEW a \in Int, NEW d \in Nat \ {0}
  PROVE  \E q, r \in Int : /\ q = a \div d /\ r = a % d
                           /\ a = d * q + r /\ 0 <= r /\ r < d
<1>1. a = d * (a \div d) + (a % d) /\ a \div d \in Int /\ (a % d) \in 0..(d - 1)
  OBVIOUS
<1>2. PICK q \in Int : q = a \div d
  BY <1>1
<1>3. PICK r \in 0..(d - 1) : r = a % d
  BY <1>1
<1>4. a = d * q + r
  BY <1>1, <1>2, <1>3
<1>5. r \in Int /\ 0 <= r /\ r < d
  OBVIOUS
<1> QED BY <1>2, <1>3, <1>4, <1>5

LEMMA Bytes ==
  ASSUME NEW w \in uint16_t
  PROVE  \E a, b \in Int : /\ 0 <= a /\ a <= 255 /\ 0 <= b /\ b <= 255
                           /\ w = 256 * a + b /\ SwapBytes(w) = b * 256 + a
<1>1. w \in Int /\ 0 <= w /\ w <= 65535
  BY SixteenBits
<1>2. PICK a, b \in Int : /\ a = w \div 256 /\ b = w % 256
                          /\ w = 256 * a + b /\ 0 <= b /\ b < 256
  BY <1>1, Divided
<1>3. 0 <= a /\ a <= 255 /\ 0 <= b /\ b <= 255
  BY ONLY <1>1, <1>2
<1> QED BY <1>2, <1>3 DEF SwapBytes

LEMMA SwapsBytes ==
  ASSUME NEW v \in uint16_t, NEW w \in uint16_t
  PROVE  SwapBytes(v) \in uint16_t /\ (SwapBytes(v) = SwapBytes(w) => v = w)
<1>1. PICK a, b \in Int : /\ 0 <= a /\ a <= 255 /\ 0 <= b /\ b <= 255
                          /\ v = 256 * a + b /\ SwapBytes(v) = b * 256 + a
  BY Bytes
<1>2. PICK c, d \in Int : /\ 0 <= c /\ c <= 255 /\ 0 <= d /\ d <= 255
                          /\ w = 256 * c + d /\ SwapBytes(w) = d * 256 + c
  BY Bytes
<1>3. SwapBytes(v) \in uint16_t
  <2>1. PICK s \in Int : s = b * 256 + a
    OBVIOUS
  <2>2. 0 <= s /\ s <= 65535
    BY ONLY <1>1, <2>1
  <2> QED BY <1>1, <2>1, <2>2, SixteenBits
<1>4. ASSUME b * 256 + a = d * 256 + c PROVE v = w
  BY ONLY <1>1, <1>2, <1>4
<1> QED BY <1>1, <1>2, <1>3, <1>4

\* The carry comes back at the other end.
LEMMA Rotated ==
  ASSUME NEW x \in uint16_t
  PROVE  Rol1(x) = IF x < 32768 THEN 2 * x ELSE 2 * x - 65535
<1>1. x \in Int /\ 0 <= x /\ x <= 65535
  BY SixteenBits
<1>2. PICK y \in Int : y = 2 * x
  BY <1>1
<1>3. PICK k, r \in Int : /\ k = y \div 65536 /\ r = y % 65536
                          /\ y = 65536 * k + r /\ 0 <= r /\ r < 65536
  BY Divided
<1>4. PICK q, p \in Int : /\ q = x \div 32768 /\ p = x % 32768
                          /\ x = 32768 * q + p /\ 0 <= p /\ p < 32768
  BY <1>1, Divided
<1>5. Rol1(x) = r + q
  BY <1>2, <1>3, <1>4 DEF Rol1
<1>6. r + q = IF x < 32768 THEN 2 * x ELSE 2 * x - 65535
  BY ONLY <1>1, <1>2, <1>3, <1>4
<1> QED BY <1>5, <1>6

LEMMA Rotates ==
  ASSUME NEW x \in uint16_t, NEW y \in uint16_t
  PROVE  Rol1(x) \in uint16_t /\ (Rol1(x) = Rol1(y) => x = y)
<1>0. /\ x \in Int /\ 0 <= x /\ x <= 65535
      /\ y \in Int /\ 0 <= y /\ y <= 65535
  BY SixteenBits
<1>1. PICK p : p = Rol1(x)
  OBVIOUS
<1>2. PICK q : q = Rol1(y)
  OBVIOUS
<1>3. p = IF x < 32768 THEN 2 * x ELSE 2 * x - 65535
  BY Rotated, <1>1
<1>4. q = IF y < 32768 THEN 2 * y ELSE 2 * y - 65535
  BY Rotated, <1>2
<1>5. p \in Int /\ 0 <= p /\ p <= 65535
  BY <1>0, <1>3
<1>6. p = q => x = y
  BY <1>0, <1>3, <1>4
<1>7. p \in uint16_t
  BY <1>5, SixteenBits
<1> QED BY <1>1, <1>2, <1>6, <1>7

LEMMA Added ==
  ASSUME NEW x \in uint16_t, NEW y \in uint16_t
  PROVE  Add16(x, y) = IF x + y < 65536 THEN x + y ELSE x + y - 65536
<1>1. x \in Int /\ y \in Int /\ 0 <= x /\ x <= 65535 /\ 0 <= y /\ y <= 65535
  BY SixteenBits
<1>2. PICK s \in Int : s = x + y
  BY <1>1
<1>3. PICK k, r \in Int : /\ k = s \div 65536 /\ r = s % 65536
                          /\ s = 65536 * k + r /\ 0 <= r /\ r < 65536
  BY Divided
<1>4. r = IF s < 65536 THEN s ELSE s - 65536
  BY ONLY <1>1, <1>2, <1>3
<1>5. Add16(x, y) = r
  BY <1>2, <1>3 DEF Add16
<1> QED BY <1>1, <1>2, <1>4, <1>5

LEMMA Adds ==
  ASSUME NEW x \in uint16_t, NEW y \in uint16_t
  PROVE  /\ Add16(x, y) \in uint16_t
         /\ \A z \in uint16_t : Add16(x, y) = Add16(x, z) => y = z
         /\ \A z \in uint16_t : Add16(x, y) = Add16(z, y) => x = z
<1> DEFINE Bounded(n) == n \in Int /\ 0 <= n /\ n <= 65535
<1>1. \A n : n \in uint16_t <=> Bounded(n)
  BY SixteenBits
<1>2. PICK p : p = Add16(x, y)
  OBVIOUS
<1>3. p = IF x + y < 65536 THEN x + y ELSE x + y - 65536
  BY <1>2, Added
<1>4. Bounded(x) /\ Bounded(y)
  BY <1>1
<1>5. Bounded(p)
  BY ONLY <1>3, <1>4
<1>6. ASSUME NEW z \in uint16_t
      PROVE  (p = Add16(x, z) => y = z) /\ (p = Add16(z, y) => x = z)
  <2>1. PICK q : q = Add16(x, z)
    OBVIOUS
  <2>2. PICK r : r = Add16(z, y)
    OBVIOUS
  <2>3. q = IF x + z < 65536 THEN x + z ELSE x + z - 65536
    BY <2>1, Added
  <2>4. r = IF z + y < 65536 THEN z + y ELSE z + y - 65536
    BY <2>2, Added
  <2>5. Bounded(z)
    BY <1>1
  <2>6. (p = q => y = z) /\ (p = r => x = z)
    BY ONLY <1>3, <1>4, <2>3, <2>4, <2>5
  <2> QED BY <2>1, <2>2, <2>6
<1> HIDE DEF Bounded
<1> QED BY <1>1, <1>2, <1>5, <1>6

\* A word changes every sum, and never makes two different sums equal.
LEMMA AddsWords ==
  ASSUME NEW x \in uint16_t, NEW v \in uint16_t
  PROVE  /\ AddWord(x, v) \in uint16_t
         /\ \A w \in uint16_t : AddWord(x, v) = AddWord(x, w) => v = w
         /\ \A y \in uint16_t : AddWord(x, v) = AddWord(y, v) => x = y
<1>0. \A y, w : AddWord(y, w) = Rol1(Add16(y, SwapBytes(w)))
  BY DEF AddWord
<1>1. SwapBytes(v) \in uint16_t /\ Add16(x, SwapBytes(v)) \in uint16_t
  BY SwapsBytes, Adds, Zenon
<1>2. AddWord(x, v) \in uint16_t
  BY <1>0, <1>1, Rotates, Zenon
<1>3. ASSUME NEW w \in uint16_t, AddWord(x, v) = AddWord(x, w) PROVE v = w
  <2>1. SwapBytes(w) \in uint16_t /\ Add16(x, SwapBytes(w)) \in uint16_t
    BY SwapsBytes, Adds, Zenon
  <2>2. Add16(x, SwapBytes(v)) = Add16(x, SwapBytes(w))
    BY <1>0, <1>1, <1>3, <2>1, Rotates, Zenon
  <2>3. SwapBytes(v) = SwapBytes(w)
    BY <1>1, <2>1, <2>2, Adds, Zenon
  <2> QED BY <2>3, SwapsBytes, Zenon
<1>4. ASSUME NEW y \in uint16_t, AddWord(x, v) = AddWord(y, v) PROVE x = y
  <2>1. Add16(y, SwapBytes(v)) \in uint16_t
    BY <1>1, Adds, Zenon
  <2>2. Add16(x, SwapBytes(v)) = Add16(y, SwapBytes(v))
    BY <1>0, <1>1, <1>4, <2>1, Rotates, Zenon
  <2> QED BY <1>1, <2>2, Adds, Zenon
<1> QED BY <1>2, <1>3, <1>4

\* What a checksum is: the words are added one after the other, from zero.
Sums(f, n, buf) ==
  /\ f[0] = 0
  /\ \A i \in 1..n : f[i] = AddWord(f[i - 1], buf[i - 1])

LEMMA Summed ==
  ASSUME NEW n \in Nat, n <= FbWords, NEW buf \in [Cell -> uint16_t]
  PROVE  \E f \in [0..n -> uint16_t] :
           Sums(f, n, buf) /\ video_checksum_frame_buffer(buf, n) = f[n]
<1>0. FbWords \in Nat /\ 0 \in uint16_t
  BY Sizes, SixteenBits
<1>1. ASSUME NEW i \in 1..n PROVE buf[i - 1] \in uint16_t /\ i - 1 \in 0..n
  <2>1. i - 1 \in Cell
    BY <1>0 DEF Cell
  <2> QED BY <2>1
<1> DEFINE step == [t \in Nat \X uint16_t |->
                      IF t[1] \in 1..n THEN AddWord(t[2], buf[t[1] - 1]) ELSE 0]
<1>2. step \in [Nat \X uint16_t -> uint16_t]
  BY <1>0, <1>1, AddsWords
<1>3. PICK g \in [0..n -> uint16_t] : Unrolls(g, n, 0, step)
  <2> HIDE DEF step
  <2> QED BY <1>0, <1>2, Unrolled
<1>4. ASSUME NEW i \in 1..n PROVE g[i] = AddWord(g[i - 1], buf[i - 1])
  <2>1. g[i - 1] \in uint16_t /\ i \in Nat
    BY <1>1
  <2>2. step[<<i, g[i - 1]>>] = AddWord(g[i - 1], buf[i - 1])
    BY <2>1
  <2>3. g[i] = step[<<i, g[i - 1]>>]
    BY <1>3 DEF Unrolls
  <2> QED BY <2>2, <2>3
<1> DEFINE Is(f) == f = [i \in 0..n |-> IF i = 0 THEN 0 ELSE AddWord(f[i - 1], buf[i - 1])]
<1>5. Is(g)
  BY <1>3, <1>4 DEF Unrolls
<1> DEFINE f == CHOOSE h : Is(h)
<1>6. Is(f)
  BY <1>5
<1>7. video_checksum_frame_buffer(buf, n) = f[n]
  BY DEF video_checksum_frame_buffer
<1> HIDE DEF f
<1>8. Sums(f, n, buf) /\ f = [i \in 0..n |-> f[i]]
  <2>1. f[0] = 0
    BY <1>6
  <2>2. ASSUME NEW i \in 1..n PROVE f[i] = AddWord(f[i - 1], buf[i - 1])
    <3>1. i \in 0..n /\ i # 0
      OBVIOUS
    <3> QED BY <1>6, <3>1, Zenon
  <2>3. f = [i \in 0..n |-> f[i]]
    BY <1>6
  <2> QED BY <2>1, <2>2, <2>3 DEF Sums
<1> HIDE DEF Is
<1>9. \A i \in Nat : i <= n => f[i] \in uint16_t
  <2> DEFINE D == {i \in Nat : i <= n => f[i] \in uint16_t}
  <2>1. 0 \in D
    BY <1>0, <1>8 DEF Sums
  <2>2. ASSUME NEW i \in Nat, i \in D PROVE i + 1 \in D
    <3>1. CASE i + 1 <= n
      <4>1. i + 1 \in 1..n /\ (i + 1) - 1 = i /\ f[i] \in uint16_t
        BY <2>2, <3>1
      <4>2. f[i + 1] = AddWord(f[i], buf[i]) /\ buf[i] \in uint16_t
        BY <1>1, <1>8, <4>1 DEF Sums
      <4> QED BY <4>1, <4>2, AddsWords
    <3> QED BY <3>1
  <2> HIDE DEF D
  <2>3. Nat \subseteq D
    BY <2>1, <2>2, CountsUp
  <2> QED BY <2>3 DEF D
<1>10. f \in [0..n -> uint16_t]
  BY <1>8, <1>9
<1> QED BY <1>7, <1>8, <1>10

\* Changing one of the words that are summed always changes the sum.
LEMMA OneWordNoticed ==
  ASSUME NEW n \in Nat, n <= FbWords, NEW c \in 0..(n - 1),
         NEW a \in [Cell -> uint16_t], NEW b \in [Cell -> uint16_t],
         a[c] # b[c], \A x \in Cell : x # c => a[x] = b[x]
  PROVE  video_checksum_frame_buffer(a, n) # video_checksum_frame_buffer(b, n)
<1>0. FbWords \in Nat
  BY Sizes
<1>1. PICK f \in [0..n -> uint16_t] :
        Sums(f, n, a) /\ video_checksum_frame_buffer(a, n) = f[n]
  BY Summed
<1>2. PICK g \in [0..n -> uint16_t] :
        Sums(g, n, b) /\ video_checksum_frame_buffer(b, n) = g[n]
  BY Summed
<1> DEFINE D == {i \in Nat : i <= n => (f[i] = g[i] <=> i <= c)}
<1>3. 0 \in D
  BY <1>1, <1>2 DEF Sums
<1>4. ASSUME NEW i \in Nat, i \in D PROVE i + 1 \in D
  <2> SUFFICES ASSUME i + 1 <= n PROVE f[i + 1] = g[i + 1] <=> i + 1 <= c
    OBVIOUS
  <2>1. /\ i + 1 \in 1..n /\ (i + 1) - 1 = i /\ i \in 0..n /\ i \in Cell
        /\ (f[i] = g[i] <=> i <= c)
    BY <1>0, <1>4 DEF Cell
  <2>2. f[i + 1] = AddWord(f[i], a[i]) /\ g[i + 1] = AddWord(g[i], b[i])
    BY <1>1, <1>2, <2>1 DEF Sums
  <2>3. f[i] \in uint16_t /\ g[i] \in uint16_t /\ a[i] \in uint16_t /\ b[i] \in uint16_t
    BY <2>1
  <2>4. CASE i < c
    BY <2>1, <2>2, <2>4
  <2>5. CASE i = c
    <3>1. f[i] = g[i] /\ a[i] # b[i]
      BY <2>1, <2>5
    <3>2. f[i + 1] # g[i + 1]
      BY <2>2, <2>3, <3>1, AddsWords
    <3> QED BY <2>5, <3>2
  <2>6. CASE i > c
    <3>1. f[i] # g[i] /\ a[i] = b[i]
      BY <2>1, <2>6
    <3>2. f[i + 1] # g[i + 1]
      BY <2>2, <2>3, <3>1, AddsWords
    <3> QED BY <2>6, <3>2
  <2> QED BY <2>4, <2>5, <2>6
<1> HIDE DEF D
<1>5. Nat \subseteq D
  BY <1>3, <1>4, CountsUp
<1>6. f[n] # g[n]
  BY <1>5 DEF D
<1> QED BY <1>1, <1>2, <1>6

-----------------------------------------------------------------------------
(* One packet.                                                             *)

RowsOK == video_next_row \in Nat /\ mode \in Modes

LEMMA RowsOfPacket ==
  ASSUME RowsOK
  PROVE  /\ mode.rows \in Nat \ {0} /\ mode.cols \in Nat \ {0}
         /\ NextRow \in Nat /\ PacketRows \in Nat \ {0}
         /\ NextRow + PacketRows <= mode.rows
         /\ PacketRows <= FrameRoom \div (mode.cols * 2)
         /\ (NextRow = 0 \/ NextRow = video_next_row)
<1>1. /\ mode.rows \in Nat \ {0} /\ mode.cols \in Nat \ {0}
      /\ 2 * mode.cols <= FrameRoom /\ FrameRoom \in Nat
  BY ModeFits, Sizes DEF RowsOK
<1> DEFINE fit == FrameRoom \div (mode.cols * 2)
<1>2. fit \in Nat /\ fit >= 1
  <2>1. mode.cols * 2 \in Nat \ {0} /\ mode.cols * 2 <= FrameRoom
    BY <1>1
  <2> QED BY <1>1, <2>1, Quotient
<1>3. NextRow \in Nat /\ NextRow < mode.rows /\ (NextRow = 0 \/ NextRow = video_next_row)
  BY <1>1 DEF RowsOK, NextRow
<1>4. PacketRows = IF fit + NextRow > mode.rows THEN mode.rows - NextRow ELSE fit
  BY DEF PacketRows
<1> HIDE DEF fit
<1>5. PacketRows \in Nat \ {0} /\ NextRow + PacketRows <= mode.rows /\ PacketRows <= fit
  BY <1>1, <1>2, <1>3, <1>4
<1> QED BY <1>1, <1>3, <1>5 DEF fit

\* The packets of a tick differ in their receivers only.
IsPacket(p) ==
  /\ p.offset = NextRow * mode.cols /\ p.count = PacketRows * mode.cols
  /\ p.cells = [i \in p.offset..(p.offset + p.count - 1) |-> fb[i]]

LEMMA SentPackets ==
  ASSUME session_mgr_update_all
  PROVE  /\ UNCHANGED <<mode, fb>>
         /\ \A p \in out' : IsPacket(p)
         /\ \/ out' = {} /\ video_next_row' = 0
            \/ SendRows /\ video_next_row' = NextRow + PacketRows
<1>1. CASE NobodyListens \/ NothingNew
  BY <1>1 DEF NobodyListens, NothingNew, session_mgr_update_all
<1>2. CASE SendRows
  <2>1. UNCHANGED <<mode, fb>>
    BY DEF session_mgr_update_all
  <2>2. video_next_row' = NextRow + PacketRows
    BY <1>2 DEF SendRows
  <2>3. ASSUME NEW s PROVE IsPacket(Packet(Pruned[s], NextRow * mode.cols, PacketRows * mode.cols))
    BY DEF Packet, IsPacket
  <2>4. ASSUME NEW p \in out' PROVE IsPacket(p)
    <3>1. PICK s \in InUse(Pruned) :
            p = Packet(Pruned[s], NextRow * mode.cols, PacketRows * mode.cols)
      BY <1>2 DEF SendRows
    <3> QED BY <2>3, <3>1
  <2> QED BY <1>2, <2>1, <2>2, <2>4
<1> QED BY <1>1, <1>2 DEF session_mgr_update_all

LEMMA Fits ==
  ASSUME RowsOK, NEW p, IsPacket(p)
  PROVE  /\ p.offset \in Nat /\ p.count \in Nat
         /\ 2 * p.count <= FrameRoom /\ p.count > 0
         /\ p.offset % mode.cols = 0 /\ p.count % mode.cols = 0
         /\ p.offset + p.count = (NextRow + PacketRows) * mode.cols
         /\ p.offset + p.count <= mode.rows * mode.cols
<1> DEFINE r == NextRow
           k == PacketRows
           c == mode.cols
           n == mode.rows
           fit == FrameRoom \div (c * 2)
<1>1. /\ r \in Nat /\ k \in Nat \ {0} /\ c \in Nat \ {0} /\ n \in Nat
      /\ r + k <= n /\ k <= fit /\ p.offset = r * c /\ p.count = k * c
  BY RowsOfPacket DEF IsPacket
<1>2. FrameRoom \in Nat /\ c * 2 \in Nat \ {0}
  <2> HIDE DEF c
  <2> QED BY <1>1, Sizes
<1>3. fit \in Nat /\ (c * 2) * fit <= FrameRoom
  BY <1>2, Quotient
<1> HIDE DEF r, k, c, n, fit
<1>4. r * c \in Nat /\ k * c \in Nat /\ (r * c) % c = 0 /\ (k * c) % c = 0
  BY <1>1, Grows, MultipleOf
<1>5. k * c >= 1 * c
  BY <1>1, Grows
<1>6. k * c > 0
  <2>1. 1 * c > 0
    BY <1>1
  <2> QED BY <1>1, <1>4, <1>5, <2>1
<1>7. 2 * (k * c) <= FrameRoom
  <2>1. k * (c * 2) <= fit * (c * 2)
    BY <1>1, <1>2, <1>3, Grows
  <2>2. k * (c * 2) = 2 * (k * c) /\ fit * (c * 2) = (c * 2) * fit
    BY <1>1, <1>3, SMTT(30)
  <2> QED BY <1>2, <1>3, <1>4, <2>1, <2>2
<1>8. r * c + k * c = (r + k) * c /\ (r + k) * c <= n * c
  BY <1>1, Grows, Distributes
<1> QED BY <1>1, <1>4, <1>6, <1>7, <1>8 DEF r, k, c, n

\* The cells of the first rows of the screen.
LEMMA OnScreenCells ==
  ASSUME mode \in Modes, NEW r \in Nat, r <= mode.rows
  PROVE  r * mode.cols \in Nat /\ \A x \in 0..(r * mode.cols - 1) : x \in Cell
<1>1. /\ mode.rows \in Nat /\ mode.cols \in Nat /\ FbWords \in Nat
      /\ 2 * mode.rows * mode.cols <= FbWords
  BY ModeFits, Sizes
<1> DEFINE n == mode.rows
           c == mode.cols
<1> HIDE DEF n, c
<1>2. n \in Nat /\ c \in Nat /\ 2 * n * c <= FbWords /\ r <= n
  BY <1>1 DEF n, c
<1>3. r * c \in Nat /\ r * c <= n * c /\ n * c \in Nat
  BY <1>2, Grows
<1>4. n * c <= 2 * n * c
  <2>1. 2 * n * c = n * c + n * c
    BY <1>2, SMTT(30)
  <2> QED BY <1>3, <2>1
<1>5. 2 * n * c \in Nat
  BY <1>2
<1>6. r * c <= FbWords
  BY <1>1, <1>2, <1>3, <1>4, <1>5
<1> QED BY <1>1, <1>3, <1>6 DEF Cell, c

-----------------------------------------------------------------------------
(* The invariant.                                                          *)

\* session_mgr_find returns a slot that matches.
LEMMA FirstIn ==
  ASSUME NEW S, S \subseteq Slot, S # {}
  PROVE  First(S) \in S
<1>1. S \subseteq Nat
  BY SessionAssumption DEF Slot
<1>2. \E x \in S : \A y \in S : x <= y
  BY <1>1, LeastOf
<1> QED BY <1>2 DEF First

\* SessionTypeOK in parts.
TableTypes ==
  /\ g_sessions \in [Slot -> [mac : Macs \cup {NullMac},
                              id  : SessionIds \cup {0},
                              t   : Tick]]
  /\ clock \in Tick
ScreenTypes ==
  /\ video_next_row \in Nat /\ video_chksum \in uint16_t
  /\ mode \in Modes /\ fb \in [Cell -> Word]
PacketTypes ==
  \A p \in out : /\ p.to \in Macs /\ p.id \in SessionIds
                 /\ p.cells \in [p.offset..(p.offset + p.count - 1) -> Word]

\* A packet's receiver and id are those of a slot in use: its id was once a
\* client's.
Known == \A s \in InUse(g_sessions) :
           g_sessions[s].mac \in Macs /\ g_sessions[s].id \in SessionIds

SessionInv == SessionTypeOK /\ OneSessionEach /\ Known

LEMMA TypeParts == SessionTypeOK <=> TableTypes /\ ScreenTypes /\ PacketTypes
BY DEF SessionTypeOK, TableTypes, ScreenTypes, PacketTypes

LEMMA SessionStarts == SessionInit => SessionInv
<1> SUFFICES ASSUME SessionInit PROVE SessionInv
  OBVIOUS
<1> USE DEF SessionInit
<1>1. TableTypes
  BY SessionAssumption DEF TableTypes, Free, Tick
<1>2. ScreenTypes
  <2>1. 0 \in uint16_t
    BY SixteenBits
  <2> QED BY <2>1 DEF ScreenTypes
<1>3. PacketTypes
  BY DEF PacketTypes
<1>4. InUse(g_sessions) = {}
  BY DEF InUse, Free
<1> QED BY <1>1, <1>2, <1>3, <1>4, TypeParts DEF SessionInv, OneSessionEach, Known

\* A start changes one slot, the client's own or a free one.
LEMMA StartKeeps ==
  ASSUME SessionInv, NEW mac \in Macs, NEW id \in SessionIds, session_mgr_start(mac, id)
  PROVE  SessionInv'
<1> DEFINE s == First(SlotFor(mac, id))
<1> USE SessionAssumption
<1>0. TableTypes /\ ScreenTypes /\ PacketTypes
  BY TypeParts DEF SessionInv
<1>1. s \in SlotFor(mac, id) /\ s \in Slot
  BY FirstIn DEF session_mgr_start, SlotFor, session_mgr_find
<1>2. /\ g_sessions' = [g_sessions EXCEPT ![s] = [mac |-> mac, id |-> id, t |-> clock]]
      /\ clock' = clock
  BY DEF session_mgr_start
<1>3. TableTypes'
  BY <1>0, <1>1, <1>2 DEF TableTypes, Tick
<1>4. /\ s \in InUse(g_sessions')
      /\ \A x \in Slot : x # s => (x \in InUse(g_sessions') <=> x \in InUse(g_sessions))
      /\ \A x \in Slot : x # s => g_sessions'[x] = g_sessions[x]
      /\ g_sessions'[s] = [mac |-> mac, id |-> id, t |-> clock]
  BY <1>0, <1>1, <1>2 DEF InUse, TableTypes
<1>5. \A x \in InUse(g_sessions) :
        g_sessions[x].mac = mac /\ g_sessions[x].id = id => x = s
  <2> SUFFICES ASSUME NEW x \in InUse(g_sessions),
                      g_sessions[x].mac = mac, g_sessions[x].id = id
               PROVE  x = s
    OBVIOUS
  <2>1. x \in session_mgr_find(mac, id)
    BY DEF session_mgr_find, InUse
  <2>2. s \in session_mgr_find(mac, id)
    BY <1>1, <2>1 DEF SlotFor
  <2>3. g_sessions[s].mac = mac /\ g_sessions[s].id = id /\ s \in InUse(g_sessions)
    BY <2>2 DEF session_mgr_find, InUse
  <2> QED BY <2>3 DEF SessionInv, OneSessionEach
<1>6. OneSessionEach'
  <2>1. ASSUME NEW s1 \in InUse(g_sessions'), NEW s2 \in InUse(g_sessions'),
               g_sessions'[s1].mac = g_sessions'[s2].mac,
               g_sessions'[s1].id = g_sessions'[s2].id
        PROVE  s1 = s2
    <3>1. s1 \in Slot /\ s2 \in Slot
      BY DEF InUse
    <3>2. CASE s1 = s \/ s2 = s
      BY <1>4, <1>5, <2>1, <3>1, <3>2
    <3>3. CASE s1 # s /\ s2 # s
      BY <1>4, <2>1, <3>1, <3>3 DEF SessionInv, OneSessionEach
    <3> QED BY <3>2, <3>3
  <2>2. ASSUME NEW x \in Slot \ InUse(g_sessions') PROVE g_sessions'[x] = Free
    BY <1>4 DEF SessionInv, OneSessionEach
  <2> QED BY <2>1, <2>2 DEF OneSessionEach
<1>7. Known'
  <2>1. ASSUME NEW x \in InUse(g_sessions')
        PROVE  g_sessions'[x].mac \in Macs /\ g_sessions'[x].id \in SessionIds
    <3>1. x \in Slot
      BY DEF InUse
    <3>2. CASE x = s
      BY <1>4, <3>2
    <3>3. CASE x # s
      BY <1>4, <3>1, <3>3 DEF SessionInv, Known
    <3> QED BY <3>2, <3>3
  <2> QED BY <2>1 DEF Known
<1>8. ScreenTypes' /\ PacketTypes'
  BY <1>0 DEF ScreenTypes, PacketTypes, session_mgr_start
<1>9. SessionTypeOK'
  BY <1>3, <1>8, TypeParts, PTL
<1> QED BY <1>6, <1>7, <1>9 DEF SessionInv

\* A tick frees slots and leaves the others as they were.
LEMMA PrunedSlots ==
  /\ \A s \in Slot : Pruned[s] = Free \/ Pruned[s] = g_sessions[s]
  /\ \A s \in InUse(Pruned) : /\ s \in InUse(g_sessions) /\ ~Stale(s)
                              /\ Pruned[s] = g_sessions[s] /\ Pruned[s] # Free
<1>1. \A s \in Slot : Pruned[s] = IF Stale(s) THEN Free ELSE g_sessions[s]
  BY DEF Pruned
<1>2. \A s \in InUse(Pruned) : s \in Slot /\ Pruned[s].mac # NullMac /\ Pruned[s] # Free
  BY DEF InUse, Free
<1>3. ASSUME NEW s \in InUse(Pruned)
      PROVE  /\ s \in InUse(g_sessions) /\ ~Stale(s)
             /\ Pruned[s] = g_sessions[s] /\ Pruned[s] # Free
  BY <1>1, <1>2 DEF InUse
<1> QED BY <1>1, <1>3

LEMMA ScreenSummed ==
  ASSUME mode \in Modes, fb \in [Cell -> Word]
  PROVE  SumWords \in Nat /\ SumWords <= FbWords /\ ScreenSum \in uint16_t
<1>1. /\ mode.rows \in Nat /\ mode.cols \in Nat
      /\ 2 * mode.rows * mode.cols <= FbWords
  BY ModeFits
<1>2. SumWords \in Nat /\ SumWords <= FbWords
  <2> DEFINE r == mode.rows
             c == mode.cols
  <2> HIDE DEF r, c
  <2>1. r \in Nat /\ c \in Nat /\ 2 * r * c <= FbWords
    BY <1>1 DEF r, c
  <2>2. r * c * 2 = 2 * r * c /\ r * c \in Nat
    BY <2>1, SMTT(30)
  <2> QED BY <2>1, <2>2 DEF SumWords, r, c
<1>3. fb \in [Cell -> uint16_t]
  BY ScreenAssumption
<1>4. PICK f \in [0..SumWords -> uint16_t] :
        video_checksum_frame_buffer(fb, SumWords) = f[SumWords]
  BY <1>2, <1>3, Summed
<1>5. f[SumWords] \in uint16_t
  BY <1>2
<1> QED BY <1>2, <1>4, <1>5 DEF ScreenSum

LEMMA TickKeeps == SessionInv /\ session_mgr_update_all => SessionInv'
<1> SUFFICES ASSUME SessionInv, session_mgr_update_all PROVE SessionInv'
  OBVIOUS
<1> USE SessionAssumption
<1>0. TableTypes /\ ScreenTypes /\ PacketTypes /\ RowsOK
  BY TypeParts DEF SessionInv, ScreenTypes, RowsOK
<1>1. g_sessions' = Pruned /\ clock' = (clock + 1) % TicksPerDay
  BY DEF session_mgr_update_all
<1>2. TableTypes'
  <2>1. Free \in [mac : Macs \cup {NullMac}, id : SessionIds \cup {0}, t : Tick]
    BY DEF Free, Tick
  <2>2. Pruned \in [Slot -> [mac : Macs \cup {NullMac}, id : SessionIds \cup {0}, t : Tick]]
    BY <1>0, <2>1 DEF Pruned, TableTypes
  <2>3. clock \in Int /\ clock' \in 0..(TicksPerDay - 1)
    BY <1>0, <1>1 DEF TableTypes, Tick
  <2> QED BY <1>1, <2>2, <2>3 DEF TableTypes, Tick
<1>3. OneSessionEach'
  <2>1. ASSUME NEW s1 \in InUse(g_sessions'), NEW s2 \in InUse(g_sessions'),
               g_sessions'[s1].mac = g_sessions'[s2].mac,
               g_sessions'[s1].id = g_sessions'[s2].id
        PROVE  s1 = s2
    BY <1>1, <2>1, PrunedSlots DEF SessionInv, OneSessionEach
  <2>2. ASSUME NEW s \in Slot \ InUse(g_sessions') PROVE g_sessions'[s] = Free
    <3>1. CASE g_sessions'[s] = g_sessions[s]
      BY <3>1 DEF SessionInv, OneSessionEach, InUse
    <3> QED BY <1>1, <3>1, PrunedSlots
  <2> QED BY <2>1, <2>2 DEF OneSessionEach
<1>4. Known'
  BY <1>1, PrunedSlots DEF SessionInv, Known
<1>5. ScreenTypes'
  <2>1. UNCHANGED <<mode, fb>> /\ (video_next_row' = 0 \/ video_next_row' = NextRow + PacketRows)
    BY SentPackets
  <2>2. NextRow \in Nat /\ PacketRows \in Nat
    BY <1>0, RowsOfPacket
  <2>3. video_chksum' \in {ScreenSum, video_chksum}
    BY DEF session_mgr_update_all, NobodyListens, NothingNew, SendRows
  <2>4. ScreenSum \in uint16_t
    BY <1>0, ScreenSummed DEF ScreenTypes
  <2>5. video_next_row' \in Nat
    BY <2>1, <2>2
  <2> QED BY <1>0, <2>1, <2>3, <2>4, <2>5 DEF ScreenTypes
<1>6. PacketTypes'
  <2> SUFFICES ASSUME NEW p \in out'
               PROVE  /\ p.to \in Macs /\ p.id \in SessionIds
                      /\ p.cells \in [p.offset..(p.offset + p.count - 1) -> Word]
    BY DEF PacketTypes
  <2>1. PICK s \in InUse(Pruned) :
          p = Packet(Pruned[s], NextRow * mode.cols, PacketRows * mode.cols)
    BY DEF session_mgr_update_all, NobodyListens, NothingNew, SendRows
  <2>2. p.to = Pruned[s].mac /\ p.id = Pruned[s].id
    BY <2>1 DEF Packet
  <2>3. p.to \in Macs /\ p.id \in SessionIds
    BY <2>2, PrunedSlots DEF SessionInv, Known
  <2>4. IsPacket(p)
    BY SentPackets
  <2>5. /\ p.offset \in Nat /\ p.count \in Nat
        /\ p.offset + p.count = (NextRow + PacketRows) * mode.cols
    BY <1>0, <2>4, Fits
  <2>6. PICK r \in Nat : r = NextRow + PacketRows /\ r <= mode.rows
    BY <1>0, RowsOfPacket
  <2>7. \A x \in 0..(r * mode.cols - 1) : x \in Cell
    BY <1>0, <2>6, OnScreenCells DEF RowsOK
  <2>8. \A i \in p.offset..(p.offset + p.count - 1) : fb[i] \in Word
    <3> SUFFICES ASSUME NEW i \in p.offset..(p.offset + p.count - 1) PROVE fb[i] \in Word
      OBVIOUS
    <3>1. i \in 0..(r * mode.cols - 1)
      BY <2>5, <2>6
    <3> QED BY <1>0, <2>7, <3>1 DEF ScreenTypes
  <2> QED BY <2>3, <2>4, <2>8 DEF IsPacket
<1>7. SessionTypeOK'
  BY <1>2, <1>5, <1>6, TypeParts, PTL
<1> QED BY <1>3, <1>4, <1>7 DEF SessionInv

LEMMA SessionSteps == SessionInv /\ [SessionNext]_sessionVars => SessionInv'
<1> SUFFICES ASSUME SessionInv, [SessionNext]_sessionVars PROVE SessionInv'
  OBVIOUS
<1>0. TableTypes /\ ScreenTypes /\ PacketTypes
  BY TypeParts DEF SessionInv
<1>1. ASSUME UNCHANGED <<g_sessions, video_next_row, video_chksum, clock, out>>,
             ScreenTypes'
      PROVE  SessionInv'
  <2>1. TableTypes' /\ PacketTypes'
    BY <1>0, <1>1 DEF TableTypes, PacketTypes
  <2>2. SessionTypeOK'
    BY <1>1, <2>1, TypeParts, PTL
  <2>3. OneSessionEach' /\ Known'
    BY <1>1 DEF SessionInv, OneSessionEach, Known, InUse
  <2> QED BY <2>2, <2>3 DEF SessionInv
<1>2. ASSUME NEW c \in Writable, NEW w \in Word, WriteCell(c, w) PROVE SessionInv'
  BY <1>0, <1>1, <1>2 DEF WriteCell, ScreenTypes
<1>3. ASSUME NEW m \in Modes, SetMode(m) PROVE SessionInv'
  BY <1>0, <1>1, <1>3 DEF SetMode, ScreenTypes
<1>4. CASE UNCHANGED sessionVars
  BY <1>0, <1>1, <1>4 DEF sessionVars, ScreenTypes
<1> QED BY <1>2, <1>3, <1>4, StartKeeps, TickKeeps DEF SessionNext

LEMMA SessionInvariant == SessionSpec => []SessionInv
BY SessionStarts, SessionSteps, PTL DEF SessionSpec

-----------------------------------------------------------------------------
(* The theorems on the session manager.                                    *)

\* The table, the row, the sum and the packets stay within their types: the
\* sum is 16 bits wide, no packet reads beyond video memory, and none is
\* addressed to an unused slot.
THEOREM SessionTypes == SessionSpec => []SessionTypeOK
<1>1. SessionInv => SessionTypeOK
  BY DEF SessionInv
<1> QED BY <1>1, SessionInvariant, PTL

\* No client ever has two sessions, and a reclaimed slot can be given out
\* again (session_mgr_start, session_mgr_find, session_mgr_reclaim).
THEOREM OneSessionEachAlways == SessionSpec => []OneSessionEach
<1>1. SessionInv => OneSessionEach
  BY DEF SessionInv
<1> QED BY <1>1, SessionInvariant, PTL

\* For all text modes and frame sizes: what leaves the server fits a frame,
\* carries at least one row, whole rows, and none beyond the screen
\* (session_mgr_update_all's row arithmetic).
THEOREM PacketsFitAlways == SessionSpec => PacketsFit
<1>1. SessionInv /\ [SessionNext]_sessionVars => [PacketsFitStep]_sessionVars
  <2> SUFFICES ASSUME SessionInv, [SessionNext]_sessionVars, clock' # clock, NEW p \in out'
               PROVE  /\ 2 * p.count <= FrameRoom
                      /\ p.count > 0
                      /\ p.offset % mode.cols = 0 /\ p.count % mode.cols = 0
                      /\ p.offset + p.count <= mode.rows * mode.cols
    BY DEF PacketsFitStep
  <2>1. session_mgr_update_all
    BY DEF SessionNext, session_mgr_start, WriteCell, SetMode, sessionVars
  <2>2. IsPacket(p) /\ RowsOK
    BY <2>1, SentPackets DEF SessionInv, SessionTypeOK, RowsOK
  <2> QED BY <2>2, Fits
<1> QED BY <1>1, SessionInvariant, PTL DEF SessionSpec, PacketsFit

\* For every screen and every word: the rotated sum of byte-swapped words
\* (video_checksum_frame_buffer) tells two screens apart that differ in one
\* cell, so a single write is always noticed.
THEOREM WriteNoticedAlways == SessionSpec => WriteNoticed
<1>1. SessionInv /\ [SessionNext]_sessionVars => [WriteNoticedStep]_sessionVars
  <2> SUFFICES ASSUME SessionInv, [SessionNext]_sessionVars,
                      NEW x \in 0..(SumWords - 1), fb'[x] # fb[x]
               PROVE  ScreenSum' # ScreenSum
    BY DEF WriteNoticedStep
  <2>1. PICK c \in Writable, w \in Word : WriteCell(c, w)
    BY DEF SessionNext, session_mgr_start, session_mgr_update_all, SetMode, sessionVars
  <2>2. mode \in Modes /\ fb \in [Cell -> Word] /\ c \in Cell
    BY ScreenAssumption DEF SessionInv, SessionTypeOK
  <2>3. PICK b : b = fb'
    OBVIOUS
  <2>4. b = [fb EXCEPT ![c] = w] /\ mode' = mode
    BY <2>1, <2>3 DEF WriteCell
  <2>5. c = x /\ b[c] # fb[c] /\ \A y \in Cell : y # c => fb[y] = b[y]
    <3>1. x \in Cell
      <4>1. SumWords \in Nat /\ SumWords <= FbWords /\ FbWords \in Nat
        BY <2>2, ScreenSummed, Sizes
      <4> QED BY <4>1 DEF Cell
    <3> QED BY <2>2, <2>3, <2>4, <3>1
  <2>6. b \in [Cell -> uint16_t] /\ fb \in [Cell -> uint16_t]
    BY <2>2, <2>4, ScreenAssumption
  <2>7. video_checksum_frame_buffer(fb, SumWords) # video_checksum_frame_buffer(b, SumWords)
    BY <2>2, <2>5, <2>6, ScreenSummed, OneWordNoticed
  <2>8. ScreenSum' = video_checksum_frame_buffer(b, SumWords)
    BY <2>3, <2>4 DEF ScreenSum, SumWords
  <2> QED BY <2>7, <2>8 DEF ScreenSum
<1> QED BY <1>1, SessionInvariant, PTL DEF SessionSpec, WriteNoticed

\* For every screen, packet size and coming and going of sessions: while the
\* program leaves the screen alone, what is still to be sent only shrinks,
\* with every interrupt that sends (the gate of session_mgr_update_all).
THEOREM SendingEndsAlways == SessionSpec => SendingEnds
<1>1. SessionInv /\ [SessionNext]_sessionVars => [SendingEndsStep]_sessionVars
  <2> SUFFICES ASSUME SessionInv, [SessionNext]_sessionVars, UNCHANGED <<fb, mode>>
               PROVE  /\ RowsLeft' <= RowsLeft
                      /\ clock' # clock /\ out' # {} => RowsLeft' < RowsLeft
    BY DEF SendingEndsStep
  <2>0. /\ RowsOK /\ fb \in [Cell -> Word] /\ mode.rows \in Nat \ {0}
        /\ NextRow \in Nat /\ NextRow < mode.rows
        /\ PacketRows \in Nat \ {0} /\ NextRow + PacketRows <= mode.rows
    <3>1. RowsOK /\ fb \in [Cell -> Word]
      BY DEF SessionInv, SessionTypeOK, RowsOK
    <3> QED BY <3>1, RowsOfPacket
  <2> DEFINE Rest(row) == IF row = 0 THEN 0 ELSE mode.rows - row
             Again(sum) == IF ScreenSum = sum THEN 0 ELSE mode.rows
             Wrap(row) == IF row >= mode.rows THEN 0 ELSE row
  <2>1. RowsLeft = Rest(NextRow) + Again(video_chksum)
    BY DEF RowsLeft
  <2>2. RowsLeft' = Rest(Wrap(video_next_row')) + Again(video_chksum')
    <3>1. ScreenSum' = ScreenSum
      BY DEF ScreenSum, SumWords
    <3> QED BY <3>1 DEF RowsLeft, NextRow
  <2>3. RowsLeft \in Int
    BY <2>0, <2>1
  <2>4. CASE UNCHANGED <<video_next_row, video_chksum, clock>>
    <3>1. Wrap(video_next_row') = NextRow
      BY <2>4 DEF NextRow
    <3>2. RowsLeft' = RowsLeft
      BY <2>1, <2>2, <2>4, <3>1
    <3> QED BY <2>3, <2>4, <3>2
  <2>5. CASE NobodyListens \/ NothingNew
    <3>1. video_next_row' = 0 /\ video_chksum' = video_chksum /\ out' = {}
      BY <2>5 DEF NobodyListens, NothingNew
    <3>2. RowsLeft' = Again(video_chksum)
      BY <2>0, <2>2, <3>1
    <3>3. RowsLeft' <= RowsLeft
      BY <2>0, <2>1, <3>2
    <3> QED BY <3>1, <3>3
  <2>6. CASE SendRows
    <3>1. PICK a \in Nat : a = NextRow + PacketRows /\ NextRow < a /\ a <= mode.rows
      BY <2>0
    <3>2. video_next_row' = a
      BY <2>6, <3>1 DEF SendRows
    <3>3. RowsLeft' = Rest(Wrap(a)) + Again(video_chksum')
      BY <2>2, <3>2
    <3>4. CASE NextRow = 0
      <4>1. video_chksum' = ScreenSum /\ ScreenSum # video_chksum
        BY <2>6, <3>4 DEF SendRows
      <4>2. Again(video_chksum') = 0 /\ Again(video_chksum) = mode.rows
        BY <4>1
      <4> HIDE DEF Again
      <4>3. RowsLeft' < RowsLeft
        BY <2>0, <2>1, <3>1, <3>3, <3>4, <4>2
      <4> QED BY <2>0, <2>3, <3>1, <3>3, <4>2, <4>3
    <3>5. CASE NextRow # 0
      <4>1. video_chksum' = video_chksum
        BY <2>6, <3>5 DEF SendRows
      <4>2. Again(video_chksum) \in Int
        BY <2>0
      <4> HIDE DEF Again
      <4>3. RowsLeft' < RowsLeft /\ RowsLeft' \in Int
        BY <2>0, <2>1, <3>1, <3>3, <3>5, <4>1, <4>2
      <4> QED BY <2>3, <4>3
    <3> QED BY <3>4, <3>5
  <2>7. ASSUME NEW c \in Writable, NEW w \in Word, WriteCell(c, w) PROVE FALSE
    BY <2>0, <2>7, ScreenAssumption DEF WriteCell
  <2> QED BY <2>4, <2>5, <2>6, <2>7
      DEF SessionNext, session_mgr_start, session_mgr_update_all, SetMode, sessionVars
<1> QED BY <1>1, SessionInvariant, PTL DEF SessionSpec, SendingEnds

-----------------------------------------------------------------------------
(* The age of a session.                                                   *)

\* A session manager with a clock that is right beside it.
LEMMA LifeIsSession == LifeSpec => SessionSpec
<1>1. LifeInit => SessionInit
  BY DEF LifeInit
<1>2. [LifeNext]_lifeVars => [SessionNext]_sessionVars
  BY DEF LifeNext, StartReceived, TickPasses, ScreenChanges, SessionNext, lifeVars
<1> QED BY <1>1, <1>2, PTL DEF LifeSpec, SessionSpec

\* While its stamp can still go stale, a session's age is what the clock says.
AgeKnown ==
  \A s \in InUse(g_sessions) :
    \/ g_sessions[s].t + Lifetime >= TicksPerDay - 1
    \/ /\ g_sessions[s].t <= clock
       /\ age[s] = clock - g_sessions[s].t
       /\ age[s] <= Lifetime + 1

TableInv == /\ TableTypes /\ OneSessionEach
            /\ age \in [Slot -> 0..MaxAge] /\ AgeKnown

LEMMA SessionTable == SessionInv => TableTypes /\ OneSessionEach
BY TypeParts DEF SessionInv

LEMMA TableInit == LifeInit => TableInv
<1> SUFFICES ASSUME LifeInit PROVE TableInv
  OBVIOUS
<1> USE SessionAssumption, AgeAssumption DEF LifeInit
<1>1. TableTypes /\ OneSessionEach
  BY SessionStarts, SessionTable
<1>2. age \in [Slot -> 0..MaxAge]
  OBVIOUS
<1>3. InUse(g_sessions) = {}
  BY DEF InUse, Free, SessionInit
<1> QED BY <1>1, <1>2, <1>3 DEF TableInv, AgeKnown

\* A start makes one session young.
LEMMA StartKeepsAge ==
  ASSUME TableInv, NEW mac \in Macs, NEW id \in SessionIds, StartReceived(mac, id)
  PROVE  age' \in [Slot -> 0..MaxAge] /\ AgeKnown'
<1> DEFINE s == First(SlotFor(mac, id))
<1> USE SessionAssumption, AgeAssumption
<1>1. s \in Slot
  BY FirstIn DEF StartReceived, session_mgr_start, SlotFor, session_mgr_find
<1>2. /\ g_sessions' = [g_sessions EXCEPT ![s] = [mac |-> mac, id |-> id, t |-> clock]]
      /\ clock' = clock
      /\ age' = [age EXCEPT ![s] = 0]
  BY DEF StartReceived, session_mgr_start
<1>3. age' \in [Slot -> 0..MaxAge]
  <2>1. age \in [Slot -> 0..MaxAge] /\ 0 \in 0..MaxAge
    BY DEF TableInv
  <2> QED BY <1>2, <2>1
<1>4. /\ \A x \in Slot : x # s => (x \in InUse(g_sessions') <=> x \in InUse(g_sessions))
      /\ \A x \in Slot : x # s => g_sessions'[x] = g_sessions[x] /\ age'[x] = age[x]
      /\ g_sessions'[s] = [mac |-> mac, id |-> id, t |-> clock] /\ age'[s] = 0
  BY <1>1, <1>2 DEF InUse, TableInv, TableTypes
<1>5. AgeKnown'
  <2> SUFFICES ASSUME NEW x \in InUse(g_sessions')
               PROVE  \/ g_sessions'[x].t + Lifetime >= TicksPerDay - 1
                      \/ /\ g_sessions'[x].t <= clock'
                         /\ age'[x] = clock' - g_sessions'[x].t
                         /\ age'[x] <= Lifetime + 1
    BY DEF AgeKnown
  <2>1. x \in Slot
    BY DEF InUse
  <2>2. CASE x = s
    BY <1>2, <1>4, <2>2 DEF TableInv, TableTypes, Tick
  <2>3. CASE x # s
    BY <1>2, <1>4, <2>1, <2>3 DEF TableInv, AgeKnown
  <2> QED BY <2>2, <2>3
<1> QED BY <1>3, <1>5

\* A tick reclaims what the clock calls stale and ages the rest.
LEMMA TickKeepsAge ==
  ASSUME TableInv, TickPasses
  PROVE  age' \in [Slot -> 0..MaxAge] /\ AgeKnown'
<1> USE SessionAssumption, AgeAssumption
<1>1. /\ g_sessions' = Pruned
      /\ clock' = (clock + 1) % TicksPerDay
      /\ age' = [s \in Slot |-> IF Pruned[s] = Free THEN 0
                                 ELSE IF age[s] < MaxAge THEN age[s] + 1 ELSE MaxAge]
  BY DEF TickPasses, session_mgr_update_all
<1>2. clock \in 0..(TicksPerDay - 1) /\ clock' \in 0..(TicksPerDay - 1)
  BY <1>1 DEF TableInv, TableTypes, Tick
<1>3. clock < TicksPerDay - 1 => clock' = clock + 1
  BY <1>1, <1>2
<1>4. age' \in [Slot -> 0..MaxAge]
  BY <1>1 DEF TableInv
<1>5. \A s \in InUse(g_sessions') : /\ s \in InUse(g_sessions)
                                    /\ g_sessions'[s] = g_sessions[s]
                                    /\ g_sessions[s].t + Lifetime >= clock
                                    /\ g_sessions[s].t \in Nat
                                    /\ Pruned[s] # Free
  <2> SUFFICES ASSUME NEW s \in InUse(g_sessions')
               PROVE  /\ s \in InUse(g_sessions)
                      /\ g_sessions'[s] = g_sessions[s]
                      /\ g_sessions[s].t + Lifetime >= clock
                      /\ g_sessions[s].t \in Nat
                      /\ Pruned[s] # Free
    OBVIOUS
  <2>1. s \in Slot
    BY DEF InUse
  <2>2. s \in InUse(g_sessions) /\ ~Stale(s) /\ g_sessions'[s] = g_sessions[s]
        /\ Pruned[s] # Free
    BY <1>1, PrunedSlots
  <2>4. g_sessions[s].t \in Nat
    BY <2>1 DEF TableInv, TableTypes, Tick
  <2> QED BY <1>2, <2>2, <2>4 DEF Stale
<1>6. AgeKnown'
  <2> SUFFICES ASSUME NEW s \in InUse(g_sessions'),
                      ~(g_sessions[s].t + Lifetime >= TicksPerDay - 1)
               PROVE  /\ g_sessions'[s].t <= clock'
                      /\ age'[s] = clock' - g_sessions'[s].t
                      /\ age'[s] <= Lifetime + 1
    BY <1>5 DEF AgeKnown
  <2>1. g_sessions[s].t <= clock /\ age[s] = clock - g_sessions[s].t
    BY <1>5 DEF TableInv, AgeKnown
  <2>2. clock < TicksPerDay - 1 /\ clock' = clock + 1
    BY <1>2, <1>3, <1>5
  <2>3. age'[s] = age[s] + 1
    BY <1>1, <1>2, <1>5, <2>1 DEF InUse
  <2> QED BY <1>2, <1>5, <2>1, <2>2, <2>3
<1> QED BY <1>4, <1>6

LEMMA AgeStep ==
  TableInv /\ SessionInv' /\ [LifeNext]_lifeVars => TableInv'
<1> SUFFICES ASSUME TableInv, SessionInv', [LifeNext]_lifeVars PROVE TableInv'
  OBVIOUS
<1>0. TableTypes' /\ OneSessionEach'
  BY SessionTable, PTL
<1>1. ASSUME UNCHANGED <<g_sessions, clock, age>>
      PROVE  age' \in [Slot -> 0..MaxAge] /\ AgeKnown'
  BY <1>1 DEF TableInv, AgeKnown, InUse
<1>2. CASE ScreenChanges
  BY <1>0, <1>1, <1>2 DEF ScreenChanges, WriteCell, SetMode, TableInv
<1>3. CASE UNCHANGED lifeVars
  BY <1>0, <1>1, <1>3 DEF lifeVars, sessionVars, TableInv
<1>4. CASE TickPasses
  BY <1>0, <1>4, TickKeepsAge DEF TableInv
<1>5. ASSUME NEW mac \in Macs, NEW id \in SessionIds, StartReceived(mac, id)
      PROVE  TableInv'
  BY <1>0, <1>5, StartKeepsAge DEF TableInv
<1> QED BY <1>2, <1>3, <1>4, <1>5 DEF LifeNext

LEMMA TableInvariant == LifeSpec => []TableInv
<1>1. LifeSpec => []SessionInv
  BY LifeIsSession, SessionInvariant, PTL
<1> QED BY <1>1, TableInit, AgeStep, PTL DEF LifeSpec

-----------------------------------------------------------------------------
(* What a client can rely on for its session.                              *)

\* The table, the clock, the screen and the ages stay within their types.
THEOREM LifeTypes == LifeSpec => []LifeTypeOK
<1>1. SessionInv /\ TableInv => LifeTypeOK
  BY DEF SessionInv, TableInv, LifeTypeOK
<1> QED BY <1>1, LifeIsSession, SessionInvariant, TableInvariant, PTL

\* A session can outlive its lifetime only if its last start came within the
\* lifetime before midnight: the exact extent of the "overflow errors" that
\* the comment in session_mgr_update_all warns of.
THEOREM OnlyMidnight == LifeSpec => []OnlyMidnightSurvives
<1>1. TableInv => OnlyMidnightSurvives
  <2> SUFFICES ASSUME TableInv, NEW s \in InUse(g_sessions), age[s] > Lifetime + 1
               PROVE  g_sessions[s].t + Lifetime >= TicksPerDay - 1
    BY DEF OnlyMidnightSurvives
  <2>1. age[s] \in Int /\ Lifetime \in Nat
    BY SessionAssumption DEF TableInv, TableTypes, InUse
  <2> QED BY <2>1 DEF TableInv, AgeKnown
<1> QED BY <1>1, TableInvariant, PTL

\* A client that keeps sending V1_SESSION_START in time never loses its
\* session, at any time of day.
THEOREM LiveKeptAlways == LifeSpec => LiveKept
<1>1. TableInv /\ [LifeNext]_lifeVars => [LiveKeptStep]_lifeVars
  <2> SUFFICES ASSUME TableInv, LifeNext, NEW s \in InUse(g_sessions),
                      age[s] <= Lifetime
               PROVE  /\ g_sessions'[s].mac = g_sessions[s].mac
                      /\ g_sessions'[s].id = g_sessions[s].id
    BY DEF LiveKeptStep
  <2> USE SessionAssumption
  <2>0. s \in Slot /\ g_sessions[s].t \in Nat /\ clock \in 0..(TicksPerDay - 1)
        /\ age[s] \in Nat
    BY DEF TableInv, TableTypes, InUse, Tick
  <2>1. ASSUME NEW mac \in Macs, NEW id \in SessionIds, StartReceived(mac, id)
        PROVE  /\ g_sessions'[s].mac = g_sessions[s].mac
               /\ g_sessions'[s].id = g_sessions[s].id
    <3> DEFINE f == First(SlotFor(mac, id))
    <3>1. f \in SlotFor(mac, id)
      BY <2>1, FirstIn DEF StartReceived, session_mgr_start, SlotFor, session_mgr_find
    <3>2. g_sessions' = [g_sessions EXCEPT ![f] = [mac |-> mac, id |-> id, t |-> clock]]
      BY <2>1 DEF StartReceived, session_mgr_start
    <3>3. CASE f # s
      BY <3>2, <3>3, <2>0 DEF TableInv, TableTypes
    <3>4. CASE f = s
      <4>1. s \in session_mgr_find(mac, id)
        BY <3>1, <3>4 DEF SlotFor, session_mgr_find, InUse
      <4> QED BY <3>2, <3>4, <4>1, <2>0 DEF session_mgr_find, TableInv, TableTypes
    <3> QED BY <3>3, <3>4
  <2>2. CASE TickPasses
    <3>1. ~ (g_sessions[s].t + Lifetime < clock)
      BY <2>0 DEF TableInv, AgeKnown
    <3>2. g_sessions'[s] = g_sessions[s]
      BY <2>0, <2>2, <3>1 DEF TickPasses, session_mgr_update_all, Pruned, Stale
    <3> QED BY <3>2
  <2>3. CASE ScreenChanges
    BY <2>3 DEF ScreenChanges, WriteCell, SetMode
  <2> QED BY <2>1, <2>2, <2>3 DEF LifeNext
<1> QED BY <1>1, TableInvariant, PTL DEF LifeSpec, LiveKept

-----------------------------------------------------------------------------
(* The promise of Lease.                                                   *)

\* Slot s is that of the client, and what Lease knows of a slot's age.
Held(s, mac, id) == g_sessions[s].mac = mac /\ g_sessions[s].id = id
Capped(a) == IF a > Lifetime THEN Lifetime + 1 ELSE a

LEMMA CappedNat == \A a \in Nat : Capped(a) \in Nat /\ (Capped(a) > Lifetime <=> a > Lifetime)
BY SessionAssumption DEF Capped

\* LeaseOf is the age of the client's only slot, or "none".
LeaseSays ==
  \A mac \in Macs, id \in SessionIds :
    /\ \A s \in Slot : Held(s, mac, id) => LeaseOf(mac, id) = Capped(age[s])
    /\ (\A s \in Slot : ~ Held(s, mac, id)) => LeaseOf(mac, id) = -1

LEMMA LeaseIsAge == TableInv => LeaseSays
<1> SUFFICES ASSUME TableInv, NEW mac \in Macs, NEW id \in SessionIds
             PROVE  /\ \A s \in Slot : Held(s, mac, id) => LeaseOf(mac, id) = Capped(age[s])
                    /\ (\A s \in Slot : ~ Held(s, mac, id)) => LeaseOf(mac, id) = -1
  BY DEF LeaseSays
<1>1. ASSUME NEW s \in Slot, Held(s, mac, id) PROVE LeaseOf(mac, id) = Capped(age[s])
  <2>1. \A x \in session_mgr_find(mac, id) : x = s
    BY <1>1, SessionAssumption DEF Held, session_mgr_find, InUse, TableInv, OneSessionEach
  <2>2. s \in session_mgr_find(mac, id)
    BY <1>1 DEF Held, session_mgr_find
  <2>3. First(session_mgr_find(mac, id)) = s
    BY <2>1, <2>2, FirstIn DEF session_mgr_find
  <2> QED BY <2>2, <2>3 DEF LeaseOf, Capped
<1>2. ASSUME \A s \in Slot : ~ Held(s, mac, id) PROVE LeaseOf(mac, id) = -1
  BY <1>2 DEF Held, session_mgr_find, LeaseOf
<1> QED BY <1>1, <1>2

Clients == Macs \X SessionIds
Leases == [c \in Clients |-> LeaseOf(c[1], c[2])]

LEMMA LeaseTyped ==
  ASSUME TableInv, NEW c \in Clients
  PROVE  /\ Leases[c] \in Nat \cup {-1}
         /\ Leases[c] # -1 <=> \E s \in Slot : Held(s, c[1], c[2])
<1>1. c[1] \in Macs /\ c[2] \in SessionIds /\ Leases[c] = LeaseOf(c[1], c[2])
  BY DEF Clients, Leases
<1>2. LeaseSays
  BY LeaseIsAge
<1>3. CASE \E s \in Slot : Held(s, c[1], c[2])
  <2>1. PICK s \in Slot : Held(s, c[1], c[2])
    BY <1>3
  <2>2. age[s] \in Nat
    BY <2>1, AgeAssumption DEF TableInv, TableTypes
  <2>3. Leases[c] = Capped(age[s])
    BY <1>1, <1>2, <2>1 DEF LeaseSays
  <2>4. Capped(age[s]) \in Nat
    BY <2>2, CappedNat
  <2> QED BY <1>3, <2>3, <2>4
<1>4. CASE ~ \E s \in Slot : Held(s, c[1], c[2])
  BY <1>1, <1>2, <1>4 DEF LeaseSays
<1> QED BY <1>3, <1>4

\* With a slot unused there are fewer clients with a session than slots.
LEMMA HoldersFit ==
  ASSUME TableInv, NEW s \in Slot, g_sessions[s].mac = NullMac
  PROVE  Cardinality({c \in Clients : Leases[c] # -1}) < MAX_SESSIONS
<1> DEFINE H == {c \in Clients : Leases[c] # -1}
           f == [c \in H |-> CHOOSE x \in Slot : Held(x, c[1], c[2])]
<1>1. ASSUME NEW c \in H PROVE f[c] \in Slot /\ Held(f[c], c[1], c[2])
  BY LeaseTyped
<1>2. \A c \in H : f[c] \in Slot \ {s}
  <2> SUFFICES ASSUME NEW c \in H PROVE f[c] # s
    BY <1>1
  <2>1. Held(f[c], c[1], c[2]) /\ c[1] \in Macs
    BY <1>1 DEF Clients
  <2> QED BY <2>1, SessionAssumption DEF Held
<1>3. \A c, d \in H : f[c] = f[d] => c = d
  <2> SUFFICES ASSUME NEW c \in H, NEW d \in H, f[c] = f[d] PROVE c = d
    OBVIOUS
  <2>1. c[1] = d[1] /\ c[2] = d[2]
    BY <1>1 DEF Held
  <2> QED BY <2>1 DEF Clients
<1>4. f \in Injection(H, Slot \ {s})
  <2> HIDE DEF H
  <2> QED BY <1>2, <1>3 DEF Injection, IsInjective
<1>5. IsFiniteSet(Slot) /\ Cardinality(Slot) = MAX_SESSIONS /\ MAX_SESSIONS \in Nat \ {0}
  BY SessionAssumption, FS_Interval DEF Slot
<1>6. IsFiniteSet(Slot \ {s}) /\ Cardinality(Slot \ {s}) = MAX_SESSIONS - 1
  BY <1>5, FS_RemoveElement
<1>7. IsFiniteSet(H) /\ Cardinality(H) <= Cardinality(Slot \ {s})
  <2> HIDE DEF H, f
  <2> QED BY <1>4, <1>6, FS_Injection
<1>8. Cardinality(H) \in Nat
  BY <1>7, FS_CardinalityType
<1> QED BY <1>5, <1>6, <1>7, <1>8

LEMMA StartPromised ==
  ASSUME TableInv, TableInv', NEW mac \in Macs, NEW id \in SessionIds,
         StartReceived(mac, id)
  PROVE  Promise!Start(<<mac, id>>)
<1> DEFINE me == <<mac, id>>
<1>0. me \in Clients /\ me[1] = mac /\ me[2] = id
  BY DEF Clients
<1>1. PICK s \in Slot : s = First(SlotFor(mac, id)) /\ s \in SlotFor(mac, id)
  BY FirstIn DEF StartReceived, session_mgr_start, SlotFor, session_mgr_find
<1>2. /\ g_sessions' = [g_sessions EXCEPT ![s] = [mac |-> mac, id |-> id, t |-> clock]]
      /\ age' = [age EXCEPT ![s] = 0]
  BY <1>1 DEF StartReceived, session_mgr_start
<1>3. /\ g_sessions'[s].mac = mac /\ g_sessions'[s].id = id /\ age'[s] = 0
      /\ \A x \in Slot : x # s => g_sessions'[x] = g_sessions[x] /\ age'[x] = age[x]
  BY <1>1, <1>2 DEF TableInv, TableTypes
<1>4. LeaseSays /\ LeaseSays'
  BY LeaseIsAge, PTL
<1>5. Held(s, mac, id) \/ g_sessions[s].mac = NullMac
  BY <1>1 DEF SlotFor, session_mgr_find, Held
<1>6. Leases[me] # -1 \/ Cardinality({c \in Clients : Leases[c] # -1}) < MAX_SESSIONS
  BY <1>0, <1>1, <1>5, HoldersFit, LeaseTyped
<1>7. LeaseOf(mac, id)' = 0
  <2>1. Held(s, mac, id)'
    BY <1>3 DEF Held
  <2>2. LeaseOf(mac, id)' = Capped(0)
    BY <1>1, <1>3, <1>4, <2>1 DEF LeaseSays, Capped
  <2> QED BY <2>2, SessionAssumption DEF Capped
<1>8. ASSUME NEW m \in Macs, NEW i \in SessionIds, ~ (m = mac /\ i = id)
      PROVE  LeaseOf(m, i)' = LeaseOf(m, i)
  <2>1. \A x \in Slot : Held(x, m, i) => x # s
    BY <1>5, <1>8, SessionAssumption DEF Held
  <2>2. \A x \in Slot : Held(x, m, i)' => x # s
    BY <1>3, <1>8 DEF Held
  <2>3. \A x \in Slot : Held(x, m, i)' <=> Held(x, m, i)
    BY <1>3, <2>1, <2>2 DEF Held
  <2>4. CASE \E x \in Slot : Held(x, m, i)
    <3>1. PICK x \in Slot : Held(x, m, i) /\ Held(x, m, i)' /\ x # s
      BY <2>1, <2>3, <2>4
    <3>2. LeaseOf(m, i) = Capped(age[x])
      BY <1>4, <3>1 DEF LeaseSays
    <3>3. LeaseOf(m, i)' = Capped(age[x])'
      BY <1>4, <3>1 DEF LeaseSays
    <3> QED BY <1>3, <3>1, <3>2, <3>3 DEF Capped
  <2>5. CASE ~ \E x \in Slot : Held(x, m, i)
    BY <1>4, <2>3, <2>5 DEF LeaseSays
  <2> QED BY <2>4, <2>5
<1>9. Leases' = [Leases EXCEPT ![me] = 0]
  <2>1. \A c \in Clients : LeaseOf(c[1], c[2])' = IF c = me THEN 0 ELSE LeaseOf(c[1], c[2])
    <3> SUFFICES ASSUME NEW c \in Clients
                 PROVE  LeaseOf(c[1], c[2])' = IF c = me THEN 0 ELSE LeaseOf(c[1], c[2])
      OBVIOUS
    <3>1. c[1] \in Macs /\ c[2] \in SessionIds /\ (c = me <=> c[1] = mac /\ c[2] = id)
      BY DEF Clients
    <3>2. CASE c = me
      BY <1>7, <3>1, <3>2
    <3>3. CASE c # me
      BY <1>8, <3>1, <3>3
    <3> QED BY <3>2, <3>3
  <2> QED BY <2>1 DEF Leases
<1>10. \A S : Promise!Cardinality(S) = Cardinality(S)
  BY DEF Cardinality, Promise!Cardinality
<1> QED BY <1>6, <1>9, <1>10 DEF Promise!Start, Promise!CanStart, Promise!Holders, Promise!Started,
         Promise!None, Leases, Clients

\* What a tick does to one slot.
LEMMA SlotAges ==
  ASSUME TableInv, TickPasses, NEW mac \in Macs, NEW id \in SessionIds,
         NEW s \in Slot, Held(s, mac, id)
  PROVE  \/ /\ Held(s, mac, id)' /\ age'[s] \in Nat
            /\ age'[s] = (IF age[s] < MaxAge THEN age[s] + 1 ELSE MaxAge)
         \/ /\ age[s] > Lifetime
            /\ g_sessions'[s] = Free
<1> USE SessionAssumption, AgeAssumption
<1>1. /\ g_sessions' = Pruned
      /\ age'[s] = IF Pruned[s] = Free THEN 0
                   ELSE IF age[s] < MaxAge THEN age[s] + 1 ELSE MaxAge
      /\ Pruned[s] = IF Stale(s) THEN Free ELSE g_sessions[s]
  BY DEF TickPasses, session_mgr_update_all, Pruned
<1>2. s \in InUse(g_sessions) /\ g_sessions[s] # Free
  BY DEF InUse, Held, Free
<1>3. age[s] \in 0..MaxAge /\ g_sessions[s].t \in Nat /\ clock \in 0..(TicksPerDay - 1)
  BY DEF TableInv, TableTypes, Tick
<1>4. CASE Stale(s)
  <2>1. g_sessions[s].t + Lifetime < clock
    BY <1>4 DEF Stale
  <2>2. age[s] = clock - g_sessions[s].t
    BY <1>2, <1>3, <2>1 DEF TableInv, AgeKnown
  <2>3. age[s] > Lifetime
    BY <1>3, <2>1, <2>2
  <2> QED BY <1>1, <1>4, <2>3
<1>5. CASE ~ Stale(s)
  BY <1>1, <1>2, <1>3, <1>5 DEF Held
<1> QED BY <1>4, <1>5

LEMMA TickPromised ==
  ASSUME TableInv, TableInv', TickPasses
  PROVE  Promise!Tick
<1> USE SessionAssumption, AgeAssumption
<1> DEFINE dropped == {c \in Clients : Leases[c] > Lifetime
                         /\ \A s \in Slot : ~ Held(s, c[1], c[2])'}
           expired == {c \in Clients : Leases[c] > Lifetime}
<1>1. LeaseSays /\ LeaseSays'
  BY LeaseIsAge, PTL
<1>2. \A s \in Slot : g_sessions'[s] = Free \/ g_sessions'[s] = g_sessions[s]
  BY DEF TickPasses, session_mgr_update_all, Pruned
<1>3. ASSUME NEW c \in Clients
      PROVE  LeaseOf(c[1], c[2])' = IF Leases[c] = -1 \/ c \in dropped THEN -1
                                    ELSE IF c \in expired THEN Leases[c]
                                    ELSE Leases[c] + 1
  <2>1. c[1] \in Macs /\ c[2] \in SessionIds /\ Leases[c] = LeaseOf(c[1], c[2])
    BY DEF Clients, Leases
  <2>2. \A s \in Slot : Held(s, c[1], c[2])' => Held(s, c[1], c[2])
    BY <1>2, <2>1 DEF Held, Free
  <2>3. CASE \A s \in Slot : ~ Held(s, c[1], c[2])
    <3>1. Leases[c] = -1
      BY <1>1, <2>1, <2>3 DEF LeaseSays
    <3>2. LeaseOf(c[1], c[2])' = -1
      BY <1>1, <2>1, <2>2, <2>3 DEF LeaseSays
    <3> QED BY <3>1, <3>2
  <2>4. CASE \E s \in Slot : Held(s, c[1], c[2])
    <3>1. PICK s \in Slot : Held(s, c[1], c[2])
      BY <2>4
    <3>2. \A x \in Slot : Held(x, c[1], c[2]) => x = s
      BY <2>1, <3>1 DEF Held, InUse, TableInv, OneSessionEach
    <3>3. age[s] \in 0..MaxAge /\ Leases[c] = Capped(age[s])
      BY <1>1, <2>1, <3>1 DEF LeaseSays, TableInv, TableTypes
    <3>4. Leases[c] # -1 /\ (Leases[c] > Lifetime <=> age[s] > Lifetime)
      BY <3>3 DEF Capped
    <3>5. CASE Held(s, c[1], c[2])' /\ age'[s] \in Nat
                /\ age'[s] = (IF age[s] < MaxAge THEN age[s] + 1 ELSE MaxAge)
      <4>1. LeaseOf(c[1], c[2])' = Capped(age'[s])
        BY <1>1, <2>1, <3>5 DEF LeaseSays, Capped
      <4>2. c \notin dropped
        BY <3>5
      <4>3. CASE age[s] > Lifetime
        <5>1. Capped(age'[s]) = Lifetime + 1 /\ Leases[c] = Lifetime + 1
          BY <3>3, <3>5, <4>3 DEF Capped
        <5>2. c \in expired
          BY <3>4, <4>3
        <5> QED BY <3>4, <4>1, <4>2, <5>1, <5>2
      <4>4. CASE ~ (age[s] > Lifetime)
        <5>1. Capped(age'[s]) = age[s] + 1 /\ Leases[c] = age[s]
          BY <3>3, <3>5, <4>4 DEF Capped
        <5>2. c \notin expired
          BY <3>4, <4>4
        <5> QED BY <3>4, <4>1, <4>2, <5>1, <5>2
      <4> QED BY <4>3, <4>4
    <3>6. CASE age[s] > Lifetime /\ g_sessions'[s] = Free
      <4>1. \A x \in Slot : ~ Held(x, c[1], c[2])'
        BY <2>1, <2>2, <3>2, <3>6 DEF Held, Free
      <4>2. c \in dropped
        BY <3>4, <3>6, <4>1
      <4>3. LeaseOf(c[1], c[2])' = -1
        BY <1>1, <2>1, <4>1 DEF LeaseSays
      <4> QED BY <4>2, <4>3
    <3> QED BY <2>1, <3>1, <3>5, <3>6, SlotAges
  <2> QED BY <2>3, <2>4
<1>4. Leases' = [c \in Clients |-> IF Leases[c] = -1 \/ c \in dropped THEN -1
                                    ELSE IF c \in expired THEN Leases[c]
                                    ELSE Leases[c] + 1]
  <2> HIDE DEF dropped, expired
  <2> QED BY <1>3 DEF Leases
<1>5. dropped \in SUBSET expired
  OBVIOUS
<1> HIDE DEF dropped
<1> QED BY <1>4, <1>5 DEF Promise!Tick, Promise!Expired, Promise!Aged, Promise!None,
         Leases, Clients

\* The session manager implements Lease: whatever the clock, the other
\* clients and the screen do, a client sees its session admitted, refreshed
\* and ended as Lease says (session_mgr_start, session_mgr_update_all).
THEOREM KeepsPromiseAlways == LifeSpec => KeepsPromise
<1>1. LifeInit => Promise!Init
  <2> SUFFICES ASSUME LifeInit PROVE \A c \in Clients : LeaseOf(c[1], c[2]) = -1
    BY DEF Promise!Init, Promise!None, Clients
  <2>1. TableInv
    BY TableInit
  <2>2. \A s \in Slot : g_sessions[s].mac = NullMac
    BY DEF LifeInit, SessionInit, Free
  <2>3. LeaseSays
    BY <2>1, LeaseIsAge
  <2> SUFFICES ASSUME NEW c \in Clients PROVE LeaseOf(c[1], c[2]) = -1
    OBVIOUS
  <2>4. c[1] \in Macs /\ c[2] \in SessionIds
    BY DEF Clients
  <2> QED BY <2>2, <2>3, <2>4, SessionAssumption DEF LeaseSays, Held
<1>2. TableInv /\ TableInv' /\ [LifeNext]_lifeVars => [Promise!Next]_Leases
  <2> SUFFICES ASSUME TableInv, TableInv', [LifeNext]_lifeVars
               PROVE  [Promise!Next]_Leases
    OBVIOUS
  <2>1. ASSUME UNCHANGED <<g_sessions, age>> PROVE UNCHANGED Leases
    BY <2>1 DEF Leases, LeaseOf, session_mgr_find, First
  <2>2. ASSUME NEW mac \in Macs, NEW id \in SessionIds, StartReceived(mac, id)
        PROVE  Promise!Next
    <3>1. <<mac, id>> \in Macs \X SessionIds
      OBVIOUS
    <3> QED BY <2>2, <3>1, StartPromised DEF Promise!Next
  <2>3. CASE TickPasses
    BY <2>3, TickPromised DEF Promise!Next
  <2>4. CASE ScreenChanges
    BY <2>1, <2>4 DEF ScreenChanges, WriteCell, SetMode
  <2>5. CASE UNCHANGED lifeVars
    BY <2>1, <2>5 DEF lifeVars, sessionVars
  <2> QED BY <2>2, <2>3, <2>4, <2>5 DEF LifeNext
<1> QED BY <1>1, <1>2, TableInvariant, PTL
    DEF LifeSpec, KeepsPromise, Promise!Spec, Leases, Clients

\* A session keeps all that was proved of the session manager.
THEOREM LifeInherits == LifeSpec => []OneSessionEach /\ PacketsFit /\ WriteNoticed /\ SendingEnds
BY LifeIsSession, OneSessionEachAlways, PacketsFitAlways, WriteNoticedAlways,
   SendingEndsAlways, PTL

=============================================================================
