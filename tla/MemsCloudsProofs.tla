--------------------------- MODULE MemsCloudsProofs ---------------------------
(***************************************************************************)
(* Proofs about MemsClouds: for every MEMS lidar, every set-up, any number *)
(* of packets and faults and every place the decoder may begin at, a point *)
(* has the ring that measured it, a packet's points are in one cloud once, *)
(* a frame is one cloud and a cloud one frame, the pace of a recording is  *)
(* the frames', and the stamps are in the order of the points.             *)
(* What decoding a packet (Add) and a datagram of packets (Pieced) makes   *)
(* of the frame comes first; MemsInv says what the frame may hold; on it   *)
(* rest the invariants PacketsInv, FrameInv, PacedInv and TimedInv.        *)
(***************************************************************************)
EXTENDS MemsClouds, FoldTheorems

-----------------------------------------------------------------------------
(* The lidar *)

Mems == [first : BOOLEAN, dense : BOOLEAN, wait : BOOLEAN]

\* The configuration, and where the lidar is.
LidarInv ==
  /\ lidar \in Lidars /\ (\E s \in Setups : q = s.q /\ mode = s.mode)
  /\ sent \in Nat /\ held \subseteq {k \in Nat : k + 2 = sent}
  /\ d \in [echo : {"SINGLE", "DUAL"}, ready : BOOLEAN] /\ (lidar # "RSEMX" => d.ready)
  /\ pkts \in Nat /\ taken \in Nat /\ faults \in Nat /\ paced \in Nat /\ splits \in Nat

LEMMA Configured ==
  ASSUME LidarInv
  PROVE  lidar \in MemsNames /\ q \in Mems /\ mode \in Nat
<1>1. PICK s \in Setups : q = s.q /\ mode = s.mode BY DEF LidarInv
<1>2. s.q \in Mems /\ s.mode \in Nat BY <1>1, CloudsAssumption DEF Mems
<1> QED BY <1>1, <1>2, CloudsAssumption DEF LidarInv

LEMMA Numbers ==
  /\ RANGE \in Nat /\ RANGE > 1 /\ Parts \in Nat /\ Parts > RANGE + 2 /\ Pixels \in Nat \ {0}
  /\ N \in Nat /\ N > 3 + 2 * RANGE /\ N + RANGE < 65536 /\ N % Parts = 0 /\ N % 2 = 0
BY MemsAssumption, CloudsAssumption

LEMMA ConstIs ==
  ASSUME lidar \in MemsNames
  PROVE  /\ Const.blocks \in Nat \ {0} /\ Const.dur \in Nat /\ Const.chans \in Nat \ {0}
         /\ Const.lasers \in Nat \ {0}
<1>1. CASE lidar = "RSM1" BY <1>1 DEF Const, RSM1
<1>2. CASE lidar = "RSM2" BY <1>2 DEF Const, RSM2
<1>3. CASE lidar = "RSM3" BY <1>3 DEF Const, RSM3
<1>4. CASE lidar = "RSMX" BY <1>4 DEF Const, RSMX
<1>5. CASE lidar = "RSE1" BY <1>5 DEF Const, RSE1
<1>6. CASE lidar = "RSEMX" BY <1>6, Numbers DEF Const, RSEMX
<1>7. CASE lidar = "RSM1_JUMBO" BY <1>7 DEF Const, RSM1Jumbo
<1> QED BY <1>1, <1>2, <1>3, <1>4, <1>5, <1>6, <1>7 DEF MemsNames

\* A packet is Span units of time long.
Span == Const.blocks * Const.dur + 1

\* p is packet k of the lidar.
PacketOf(p, k) ==
  /\ p.at = k /\ p.seq = (k % N) + 1 /\ p.ts = k * Span /\ p.mode = mode
  /\ p.hit \in BOOLEAN /\ p.late \in BOOLEAN /\ p.bad \in BOOLEAN
  /\ p.surface = (IF p.bad THEN 2 ELSE k % 2)

LEMMA PacketIs ==
  ASSUME NEW k, NEW hit \in BOOLEAN, NEW bad \in BOOLEAN, NEW late \in BOOLEAN
  PROVE  /\ PacketOf(Packet(k, hit, bad, late), k)
         /\ Packet(k, hit, bad, late).late = late
         /\ Packet(k, hit, bad, late).hit = hit
         /\ Packet(k, hit, bad, late).bad = bad
BY Zenon DEF PacketOf, Packet, Span

\* Packets and the rings of their points.
Rings(p) ==
  IF lidar = "RSMX"
  THEN [b \in 1..Const.blocks |->
          [i \in 1..(RSMXLoopTime(p.mode) * Const.chans) |-> (i - 1) \div RSMXLoopTime(p.mode)]]
  ELSE IF lidar = "RSEMX" THEN [b \in 1..Const.blocks |-> <<RSEMXRing(p, (p.seq - 1) % 65536, b)>>]
  ELSE [b \in 1..Const.blocks |-> EachChannel(Const)]

LEMMA NumberBounds ==
  ASSUME NEW k \in Nat
  PROVE  (k % N) \in 0..(N - 1) /\ (k % N) + 1 \in 1..N /\ ((k % N) + 1 - 1) % 65536 = k % N
<1>1. N \in Nat \ {0} /\ N < 65536 BY Numbers
<1>2. k % N \in 0..(N - 1) BY <1>1, Division
<1>3. \A r \in 0..(N - 1) : r + 1 \in 1..N /\ (r + 1 - 1) % 65536 = r BY <1>1, SMTT(20)
<1>4. PICK r \in 0..(N - 1) : r = k % N BY <1>2
<1>5. r + 1 \in 1..N /\ (r + 1 - 1) % 65536 = r BY <1>3
<1> QED BY <1>4, <1>5

\* A frame has an even number of packets.
LEMMA Parity ==
  ASSUME NEW k \in Nat
  PROVE  (k % N) % 2 = k % 2 /\ k % 2 \in {0, 1}
<1>1. PICK n \in Nat \ {0} : n = N BY Numbers
<1>2. PICK t \in Nat, s \in 0..(n - 1) : t = k \div n /\ s = k % n /\ k = t * n + s
  <2>1. k \div n \in Nat /\ k % n \in 0..(n - 1) /\ k = (k \div n) * n + (k % n) BY <1>1, Division
  <2> QED BY <2>1
<1>3. PICK h \in Nat : n = h * 2
  <2>1. (n % 2) = 0 BY <1>1, Numbers
  <2>2. n = (n \div 2) * 2 + (n % 2) /\ n \div 2 \in Nat BY <1>1, Division
  <2> QED BY <2>1, <2>2
<1>4. PICK u \in Nat : u = t * h BY SMTT(20)
<1>5. t * n = u * 2 BY <1>3, <1>4, SMTT(20)
<1>6. PICK v \in Nat : v = t * n BY <1>5
<1>7. k = v + s /\ v = u * 2 BY <1>2, <1>5, <1>6
<1>8. k % 2 = s % 2 BY <1>7
<1> QED BY <1>1, <1>2, <1>8

\* How far two packets are apart in frames and numbers.
LEMMA NextNumber ==
  ASSUME NEW k \in Nat, NEW l \in Nat, l < k, k - l <= N
  PROVE  \/ k \div N = l \div N /\ k % N = (l % N) + (k - l)
         \/ k \div N = (l \div N) + 1 /\ k % N = (l % N) + (k - l) - N
<1>1. PICK n \in Nat \ {0} : n = N BY Numbers
<1>2. PICK a \in Nat, r \in 0..(n - 1) : a = k \div n /\ r = k % n /\ k = a * n + r
  <2>1. k \div n \in Nat /\ k % n \in 0..(n - 1) /\ k = (k \div n) * n + (k % n) BY <1>1, Division
  <2> QED BY <2>1
<1>3. PICK b \in Nat, s \in 0..(n - 1) : b = l \div n /\ s = l % n /\ l = b * n + s
  <2>1. l \div n \in Nat /\ l % n \in 0..(n - 1) /\ l = (l \div n) * n + (l % n) BY <1>1, Division
  <2> QED BY <2>1
<1>4. PICK u \in Nat, v \in Nat : u = a * n /\ v = b * n BY SMTT(20)
<1>5. k = u + r /\ l = v + s BY <1>2, <1>3, <1>4
<1>6. CASE a = b
  <2>1. u = v BY <1>4, <1>6
  <2>2. r = s + (k - l) BY <1>5, <2>1
  <2> QED BY <1>1, <1>2, <1>3, <1>6, <2>2
<1>7. CASE a = b + 1
  <2>1. u = v + n
    <3>1. (b + 1) * n = b * n + n BY SMTT(20)
    <3> QED BY <1>4, <1>7, <3>1
  <2>2. r = s + (k - l) - n BY <1>5, <2>1
  <2> QED BY <1>1, <1>2, <1>3, <1>7, <2>2
<1>8. CASE a > b + 1
  <2>1. PICK c \in Nat : a = b + 2 + c
    <3>1. a - b - 2 \in Nat /\ a = b + 2 + (a - b - 2) BY <1>8
    <3> QED BY <3>1
  <2>2. PICK w \in Nat : w = c * n BY SMTT(20)
  <2>3. (b + 2 + c) * n = b * n + 2 * n + c * n BY SMTT(20)
  <2>4. u = v + 2 * n + w BY <1>4, <2>1, <2>2, <2>3
  <2> QED BY <1>1, <1>5, <2>4
<1>9. CASE a < b
  <2>1. PICK c \in Nat : b = a + 1 + c
    <3>1. b - a - 1 \in Nat /\ b = a + 1 + (b - a - 1) BY <1>9
    <3> QED BY <3>1
  <2>2. PICK w \in Nat : w = c * n BY SMTT(20)
  <2>3. (a + 1 + c) * n = a * n + n + c * n BY SMTT(20)
  <2>4. v = u + n + w BY <1>4, <2>1, <2>2, <2>3
  <2> QED BY <1>5, <2>4
<1> QED BY <1>6, <1>7, <1>8, <1>9

LEMMA Divided ==
  ASSUME NEW k \in Nat
  PROVE  k \div N \in Nat /\ k % N \in 0..(N - 1)
<1>1. N \in Nat \ {0} BY Numbers
<1> QED BY <1>1, Division

\* Time of block b of packet k.
TimeOf(k, b) == k * Span + (b - 1) * Const.dur

LEMMA TimeIs ==
  ASSUME LidarInv, NEW k \in Nat, NEW b \in 1..Const.blocks
  PROVE  /\ TimeOf(k, b) \in Nat /\ TimeOf(k, 1) = k * Span /\ k * Span \in Nat
         /\ TimeOf(k, b) >= k * Span /\ TimeOf(k, Const.blocks) >= TimeOf(k, b)
         /\ \A l \in Nat : k < l => TimeOf(k, b) < l * Span
<1>1. Const.blocks \in Nat \ {0} /\ Const.dur \in Nat BY Configured, ConstIs
<1>2. PICK n \in Nat \ {0}, c \in Nat : n = Const.blocks /\ c = Const.dur BY <1>1
<1>3. PICK w \in Nat : w = n * c BY SMTT(20)
<1>4. Span = w + 1 BY <1>2, <1>3 DEF Span
<1>5. PICK z \in Nat : z = k * (w + 1) BY SMTT(20)
<1>6. k * Span = z BY <1>4, <1>5
<1>7. PICK x \in Nat : x = (b - 1) * c
  <2>1. b - 1 \in Nat BY <1>2
  <2>2. PICK m \in Nat : m = b - 1 BY <2>1
  <2>3. m * c \in Nat BY SMTT(20)
  <2> QED BY <2>2, <2>3
<1>8. x <= w /\ x <= (n - 1) * c /\ (n - 1) * c \in Nat
  <2>1. PICK m \in Nat, t \in Nat : m = b - 1 /\ n - 1 = m + t
    <3>1. b - 1 \in Nat /\ n - b \in Nat /\ n - 1 = (b - 1) + (n - b) BY <1>2
    <3> QED BY <3>1
  <2>2. PICK y \in Nat : y = t * c BY SMTT(20)
  <2>3. (m + t) * c = m * c + t * c BY SMTT(20)
  <2>4. (m + t + 1) * c = (m + t) * c + c BY SMTT(20)
  <2>5. n = m + t + 1 BY <2>1
  <2>6. x = m * c /\ (n - 1) * c = (m + t) * c /\ w = (m + t + 1) * c BY <1>3, <1>7, <2>1, <2>5
  <2>7. (n - 1) * c = x + y BY <2>2, <2>3, <2>6
  <2>8. w = x + y + c BY <2>2, <2>3, <2>4, <2>6
  <2> QED BY <1>2, <2>7, <2>8
<1>9. TimeOf(k, b) = z + x /\ TimeOf(k, Const.blocks) = z + (n - 1) * c BY <1>2, <1>6, <1>7, Zenon DEF TimeOf
<1>10. TimeOf(k, 1) = z
  <2>1. (1 - 1) * c = 0 BY SMTT(20)
  <2>2. TimeOf(k, 1) = z + (1 - 1) * c BY <1>2, <1>6, Zenon DEF TimeOf
  <2> QED BY <2>1, <2>2
<1>11. ASSUME NEW l \in Nat, k < l PROVE TimeOf(k, b) < l * Span
  <2>1. PICK t \in Nat : l = k + 1 + t
    <3>1. l - k - 1 \in Nat /\ l = k + 1 + (l - k - 1) BY <1>11
    <3> QED BY <3>1
  <2>2. PICK y \in Nat : y = t * (w + 1) BY SMTT(20)
  <2>3. (k + 1 + t) * (w + 1) = k * (w + 1) + (w + 1) + t * (w + 1) BY SMTT(20)
  <2>4. l * Span = z + w + 1 + y BY <1>4, <1>5, <2>1, <2>2, <2>3
  <2> QED BY <1>8, <1>9, <2>4
<1> QED BY <1>6, <1>8, <1>9, <1>10, <1>11

LEMMA RingsRight ==
  ASSUME LidarInv, NEW k \in Nat, NEW p, PacketOf(p, k), NEW b \in 1..Const.blocks
  PROVE  /\ Rings(p)[b] = Measured(k, b)
         /\ Measured(k, b) \in Seq(Nat) /\ Len(Measured(k, b)) # 0
<1>1. lidar \in MemsNames /\ Const.chans \in Nat \ {0} /\ Pixels \in Nat \ {0} BY Configured, ConstIs, Numbers
<1>2. p.mode = mode /\ p.seq = (k % N) + 1 BY DEF PacketOf
<1>3. CASE lidar = "RSMX"
  <2>1. Const.chans = 2 BY <1>3 DEF Const, RSMX
  <2>2. Rings(p) = [c \in 1..Const.blocks |->
                      [i \in 1..(RSMXLoopTime(mode) * 2) |-> (i - 1) \div RSMXLoopTime(mode)]]
    BY <1>2, <1>3, <2>1 DEF Rings
  <2>3. CASE mode = 0
    <3>1. RSMXLoopTime(mode) = 2 BY <2>3 DEF RSMXLoopTime
    <3>2. Measured(k, b) = <<0, 0, 1, 1>> BY <1>3, <2>3 DEF Measured
    <3>3. [i \in 1..(2 * 2) |-> (i - 1) \div 2] = <<0, 0, 1, 1>> OBVIOUS
    <3>4. Rings(p)[b] = [i \in 1..(2 * 2) |-> (i - 1) \div 2] BY <2>2, <3>1, Zenon
    <3> QED BY <3>2, <3>3, <3>4
  <2>4. CASE mode # 0
    <3>1. RSMXLoopTime(mode) = 1 BY <2>4 DEF RSMXLoopTime
    <3>2. Measured(k, b) = [i \in 1..2 |-> i - 1] BY <1>3, <2>1, <2>4 DEF Measured
    <3>3. [i \in 1..(1 * 2) |-> (i - 1) \div 1] = [i \in 1..2 |-> i - 1] OBVIOUS
    <3>4. Rings(p)[b] = [i \in 1..(1 * 2) |-> (i - 1) \div 1] BY <2>2, <3>1, Zenon
    <3> QED BY <3>2, <3>3, <3>4
  <2> QED BY <2>3, <2>4
<1>4. CASE lidar = "RSEMX"
  <2>1. (p.seq - 1) % 65536 = k % N BY <1>2, NumberBounds
  <2>2. PICK s : s = k % N OBVIOUS
  <2>3. Rings(p)[b] = <<RSEMXRing(p, s, b)>> BY <1>4, <2>1, <2>2 DEF Rings
  <2>4. s % 2 = k % 2 /\ k % 2 \in {0, 1} BY <2>2, Parity
  <2>5. b \in Nat \ {0} BY <1>1, Configured, ConstIs
  <2>6. CASE mode = 0
    <3>1. Measured(k, b) = <<((k % 2) * Pixels + b - 1) \div 2>> BY <1>4, <2>6 DEF Measured
    <3>2. RSEMXRing(p, s, b) = (b - 1 + (IF k % 2 # 0 THEN Pixels ELSE 0)) \div 2
      BY <1>2, <2>4, <2>6, Zenon DEF RSEMXRing
    <3>3. b - 1 + (IF k % 2 # 0 THEN Pixels ELSE 0) = (k % 2) * Pixels + b - 1
      <4>1. CASE k % 2 = 0
        <5>1. 0 * Pixels = 0 BY <1>1, SMTT(20)
        <5> QED BY <2>5, <4>1, <5>1
      <4>2. CASE k % 2 = 1
        <5>1. 1 * Pixels = Pixels BY <1>1, SMTT(20)
        <5> QED BY <1>1, <2>5, <4>2, <5>1
      <4> QED BY <2>4, <4>1, <4>2
    <3>4. PICK z \in Nat : z = (k % 2) * Pixels + b - 1
      <4>1. (k % 2) * Pixels \in Nat BY <1>1, <2>4, SMTT(20)
      <4>2. (k % 2) * Pixels + b - 1 \in Nat BY <2>5, <4>1
      <4> QED BY <4>2
    <3>5. z \div 2 \in Nat OBVIOUS
    <3> QED BY <2>3, <3>1, <3>2, <3>3, <3>4, <3>5
  <2>7. CASE mode # 0
    <3>1. Measured(k, b) = <<b - 1>> BY <1>4, <2>7 DEF Measured
    <3>2. RSEMXRing(p, s, b) = b - 1 BY <1>2, <2>7, Zenon DEF RSEMXRing
    <3> QED BY <2>3, <2>5, <3>1, <3>2
  <2> QED BY <2>6, <2>7
<1>5. CASE lidar \notin {"RSMX", "RSEMX"}
  <2>1. Measured(k, b) = [i \in 1..Const.chans |-> i - 1] BY <1>5 DEF Measured
  <2>2. Rings(p) = [c \in 1..Const.blocks |-> EachChannel(Const)]
    <3>1. lidar # "RSMX" /\ lidar # "RSEMX" BY <1>5
    <3> QED BY <3>1 DEF Rings
  <2>3. Rings(p)[b] = EachChannel(Const) BY <2>2, Zenon
  <2>4. EachChannel(Const) = [i \in 1..Const.chans |-> i - 1] BY Zenon DEF EachChannel
  <2> QED BY <1>1, <2>1, <2>3, <2>4
<1> QED BY <1>3, <1>4, <1>5

-----------------------------------------------------------------------------
(* What decoding a packet makes of a frame *)

\* The points of packet p up to block b.
Block(p, b) ==
  [n |-> Len(Measured(p.at, b)), ts |-> TimeOf(p.at, b), rings |-> Measured(p.at, b), at |-> p.at,
   block |-> b, late |-> p.late]
Part(p, b) == IF p.hit \/ ~q.dense THEN [i \in 1..b |-> Block(p, i)] ELSE <<>>

\* Blocks, clouds and frames.
Blk ==
  {b \in [n : Nat \ {0}, ts : Nat, rings : Seq(Nat), at : Nat, block : Nat, late : BOOLEAN] :
     /\ b.block \in 1..Const.blocks /\ b.rings = Measured(b.at, b.block) /\ b.n = Len(b.rings)
     /\ b.ts = TimeOf(b.at, b.block)}
HandedOut == [stamp : Nat, height : Nat \ {0}, blocks : Seq(Blk) \ {<<>>}]
Strategy == [prev : 0..N, max : 0..N, looped : BOOLEAN]
Frame == [sp : Strategy, cloud : Seq(Blk), first : Nat, prev : Nat, out : Seq(HandedOut), ret : BOOLEAN]

LEMMA MaxOfTwo ==
  ASSUME NEW a \in Int, NEW b \in Int
  PROVE  Max({a, b}) = IF a >= b THEN a ELSE b
<1> DEFINE m == IF a >= b THEN a ELSE b
<1>1. m \in {a, b} /\ \A y \in {a, b} : m >= y OBVIOUS
<1>2. \A x \in {a, b} : (\A y \in {a, b} : x >= y) => x = m OBVIOUS
<1> HIDE DEF m
<1>3. Max({a, b}) = CHOOSE x \in {a, b} : \A y \in {a, b} : x >= y BY DEF Max
<1>4. (CHOOSE x \in {a, b} : \A y \in {a, b} : x >= y) = m BY <1>1, <1>2, Zenon
<1> QED BY <1>3, <1>4 DEF m

\* What the strategy does with a number.
LEMMA BySeqIs ==
  ASSUME NEW sp \in Strategy, NEW s \in 0..N
  PROVE  LET r == BySeq(sp, s) IN
         /\ r.split \in BOOLEAN /\ r.sp \in Strategy
         /\ r.split <=> s + RANGE < sp.prev
         /\ r.sp.prev = IF r.split \/ (s >= sp.prev /\ (s <= sp.prev + RANGE \/ sp.prev = 0)) THEN s ELSE sp.prev
         /\ r.sp.max >= sp.max /\ r.sp.max >= s /\ (r.sp.max = sp.max \/ r.sp.max = s)
         /\ r.sp.looped <=> sp.looped \/ r.split
<1>1. sp.prev \in 0..N /\ sp.max \in 0..N /\ sp.looped \in BOOLEAN /\ N \in Nat /\ RANGE \in Nat
  BY Numbers DEF Strategy
<1> DEFINE low == Max({sp.prev - RANGE, 0})
           top == Max({sp.max, s})
           rewinds == s < low
           follows == s >= sp.prev /\ (s <= sp.prev + RANGE \/ sp.prev = 0)
<1>2. low = (IF sp.prev - RANGE >= 0 THEN sp.prev - RANGE ELSE 0) BY <1>1, MaxOfTwo
<1>3. top = (IF sp.max >= s THEN sp.max ELSE s) BY <1>1, MaxOfTwo
<1>4. BySeq(sp, s) = [split |-> rewinds,
                      sp |-> [prev |-> IF rewinds \/ follows THEN s ELSE sp.prev,
                              max |-> top, looped |-> sp.looped \/ rewinds]]
  BY Zenon DEF BySeq
<1>5. rewinds <=> s + RANGE < sp.prev
  <2> HIDE DEF low
  <2> QED BY <1>1, <1>2 DEF rewinds
<1>6. PICK z \in BOOLEAN : z = rewinds
  <2>1. rewinds = TRUE \/ rewinds = FALSE
    <3> HIDE DEF low
    <3>1. low \in Int BY <1>1, <1>2
    <3> QED BY <1>1, <3>1
  <2> HIDE DEF rewinds
  <2> QED BY <2>1
<1>7. PICK w \in BOOLEAN : w = (sp.looped \/ rewinds) OBVIOUS
<1>8. PICK m \in 0..N : m = top /\ m >= sp.max /\ m >= s /\ (m = sp.max \/ m = s)
  <2>1. top \in 0..N /\ top >= sp.max /\ top >= s /\ (top = sp.max \/ top = s)
    <3> HIDE DEF top
    <3> QED BY <1>1, <1>3
  <2> HIDE DEF top
  <2> QED BY <2>1
<1>9. PICK v \in 0..N : v = IF rewinds \/ follows THEN s ELSE sp.prev
  <2>1. (IF rewinds \/ follows THEN s ELSE sp.prev) \in 0..N BY <1>1
  <2> QED BY <2>1
<1>10. BySeq(sp, s) = [split |-> z, sp |-> [prev |-> v, max |-> m, looped |-> w]]
  <2> HIDE DEF rewinds, follows, top
  <2>1. (IF rewinds \/ follows THEN s ELSE sp.prev) = v BY <1>9
  <2> QED BY <1>4, <1>6, <1>7, <1>8, <2>1, Zenon
<1>11. (z <=> s + RANGE < sp.prev) /\ v = IF z \/ follows THEN s ELSE sp.prev
  BY <1>5, <1>6, <1>9, Zenon
<1>12. w <=> sp.looped \/ z BY <1>6, <1>7, Zenon
<1>13. [prev |-> v, max |-> m, looped |-> w] \in Strategy BY DEF Strategy
<1> QED BY <1>8, <1>10, <1>11, <1>12, <1>13 DEF follows

\* A cloud has points if it has blocks.
LEMMA CloudHasPoints ==
  ASSUME NEW c \in Seq(Blk)
  PROVE  CloudPoints(c) \in Nat /\ (CloudPoints(c) = 0 <=> c = <<>>)
<1> DEFINE g == [i \in DOMAIN c |-> c[i].n]
<1>1. Len(c) \in Nat /\ DOMAIN c = 1..Len(c) /\ \A i \in 1..Len(c) : c[i] \in Blk OBVIOUS
<1>2. \A i \in 1..Len(c) : c[i].n \in Nat /\ c[i].n # 0
  <2>1. \A b \in Blk : b.n \in Nat /\ b.n # 0 BY DEF Blk
  <2> QED BY <1>1, <2>1, Zenon
<1>3. g \in [1..Len(c) -> Nat] /\ \A i \in 1..Len(c) : g[i] # 0 BY <1>1, <1>2
<1>4. CloudPoints(c) = SumFunction(g) BY DEF CloudPoints
<1> HIDE DEF g
<1>5. SumFunction(g) \in Nat /\ SumFunction(g) >= Len(c) BY <1>1, <1>3, SumBounds
<1>6. c = <<>> => SumFunction(g) = 0
  <2>1. \A i \in 1..0 : g[i] = 0 OBVIOUS
  <2>2. c = <<>> => Len(c) = 0 OBVIOUS
  <2>3. 0 \in Nat /\ 0 * 0 = 0 OBVIOUS
  <2>4. Len(c) = 0 => SumFunction(g) = 0 * 0
    <3> SUFFICES ASSUME Len(c) = 0 PROVE SumFunction(g) = 0 * 0 OBVIOUS
    <3>1. g \in [1..0 -> Nat] BY <1>3
    <3> QED BY <2>1, <2>3, <3>1, SumBounds
  <2> QED BY <2>2, <2>3, <2>4
<1>7. c # <<>> => Len(c) > 0 BY <1>1
<1> QED BY <1>1, <1>4, <1>5, <1>6, <1>7

\* The clouds when the one that is built is handed out, if it has points.
Handed(x) ==
  IF x.cloud = <<>> THEN x.out
  ELSE Append(x.out, [stamp |-> CloudTs(q, x), height |-> IF q.dense THEN 1 ELSE Const.lasers,
                      blocks |-> x.cloud])

LEMMA HandedTyped ==
  ASSUME LidarInv, NEW x \in Frame
  PROVE  Handed(x) \in Seq(HandedOut)
<1>1. x.cloud \in Seq(Blk) /\ x.out \in Seq(HandedOut) /\ x.first \in Nat /\ x.prev \in Nat BY DEF Frame
<1>2. CASE x.cloud = <<>> BY <1>1, <1>2 DEF Handed
<1>3. CASE x.cloud # <<>>
  <2> DEFINE c == [stamp |-> CloudTs(q, x), height |-> IF q.dense THEN 1 ELSE Const.lasers, blocks |-> x.cloud]
  <2>1. CloudTs(q, x) \in Nat BY <1>1 DEF CloudTs
  <2>2. (IF q.dense THEN 1 ELSE Const.lasers) \in Nat \ {0} BY Configured, ConstIs
  <2>3. x.cloud \in Seq(Blk) \ {<<>>} BY <1>1, <1>3
  <2>4. c \in HandedOut
    <3>1. PICK u, v : u = CloudTs(q, x) /\ v = IF q.dense THEN 1 ELSE Const.lasers OBVIOUS
    <3>2. c = [stamp |-> u, height |-> v, blocks |-> x.cloud] BY <3>1, Zenon
    <3>3. u \in Nat /\ v \in Nat \ {0} BY <2>1, <2>2, <3>1, Zenon
    <3> QED BY <2>3, <3>2, <3>3 DEF HandedOut
  <2>5. Handed(x) = Append(x.out, c) BY <1>3 DEF Handed
  <2> HIDE DEF c
  <2> QED BY <1>1, <2>4, <2>5
<1> QED BY <1>2, <1>3

LEMMA SplitEffect ==
  ASSUME NEW x \in Frame
  PROVE  SplitFrame(q, x, Const.lasers) = [x EXCEPT !.cloud = <<>>, !.out = Handed(x)]
<1>1. x = [sp |-> x.sp, cloud |-> x.cloud, first |-> x.first, prev |-> x.prev, out |-> x.out, ret |-> x.ret]
  BY DEF Frame
<1>2. x.cloud \in Seq(Blk) BY DEF Frame
<1>3. CASE x.cloud = <<>>
  <2>1. SplitFrame(q, x, Const.lasers) = x BY <1>2, <1>3, CloudHasPoints DEF SplitFrame
  <2>2. Handed(x) = x.out BY <1>3 DEF Handed
  <2>3. [x EXCEPT !.cloud = <<>>, !.out = Handed(x)] = x BY <1>1, <1>3, <2>2
  <2> QED BY <2>1, <2>3
<1>4. CASE x.cloud # <<>>
  <2> DEFINE c == [stamp |-> CloudTs(q, x), height |-> IF q.dense THEN 1 ELSE Const.lasers, blocks |-> x.cloud]
  <2>1. SplitFrame(q, x, Const.lasers) = [x EXCEPT !.out = Append(@, c), !.cloud = <<>>]
    BY <1>2, <1>4, CloudHasPoints DEF SplitFrame
  <2>2. Handed(x) = Append(x.out, c) BY <1>4 DEF Handed
  <2> HIDE DEF c
  <2> QED BY <1>1, <2>1, <2>2
<1> QED BY <1>3, <1>4

LEMMA BeginEffect ==
  ASSUME NEW x \in Frame, NEW ts
  PROVE  BeginFrame(q, x, Const.lasers, ts)
           = [sp |-> x.sp, cloud |-> <<>>, first |-> ts, prev |-> x.prev, out |-> Handed(x), ret |-> TRUE]
<1>1. x = [sp |-> x.sp, cloud |-> x.cloud, first |-> x.first, prev |-> x.prev, out |-> x.out, ret |-> x.ret]
  BY DEF Frame
<1>2. PICK z : z = SplitFrame(q, x, Const.lasers) OBVIOUS
<1>3. PICK h : h = Handed(x) OBVIOUS
<1>4. z = [sp |-> x.sp, cloud |-> <<>>, first |-> x.first, prev |-> x.prev, out |-> h, ret |-> x.ret]
  BY <1>1, <1>2, <1>3, SplitEffect
<1>5. BeginFrame(q, x, Const.lasers, ts) = [z EXCEPT !.first = ts, !.ret = TRUE] BY <1>2, Zenon DEF BeginFrame
<1> QED BY <1>3, <1>4, <1>5

\* The frames that a packet's blocks go through.
FillRun(n, c, x, p, rings, a) ==
  a = [b \in 0..n |-> IF b = 0 THEN x ELSE FillBlock(q, c, a[b - 1], p, b, rings[b])]

LEMMA FillRunNext ==
  ASSUME NEW n \in Nat, NEW c, NEW x, NEW p, NEW rings, NEW a, FillRun(n, c, x, p, rings, a)
  PROVE  \E h : FillRun(n + 1, c, x, p, rings, h)
<1> DEFINE Next1(y, b) == FillBlock(q, c, y, p, b, rings[b])
           h == [b \in 0..(n + 1) |-> IF b = n + 1 THEN Next1(a[n], n + 1) ELSE a[b]]
<1> HIDE DEF Next1
<1>1. \A b \in 0..n : a[b] = IF b = 0 THEN x ELSE Next1(a[b - 1], b)
  <2> TAKE b \in 0..n
  <2>1. a[b] = IF b = 0 THEN x ELSE FillBlock(q, c, a[b - 1], p, b, rings[b]) BY Zenon DEF FillRun
  <2> QED BY <2>1, Zenon DEF Next1
<1>2. \A b \in 0..(n + 1) : h[b] = IF b = 0 THEN x ELSE Next1(h[b - 1], b)
  <2> TAKE b \in 0..(n + 1)
  <2>1. CASE b = n + 1
    <3>1. n \in 0..(n + 1) /\ n # n + 1 /\ b # 0 /\ b - 1 = n BY <2>1
    <3>2. h[n] = a[n] /\ h[b] = Next1(a[n], n + 1) BY <2>1, <3>1
    <3> HIDE DEF h
    <3> QED BY <2>1, <3>1, <3>2, Zenon
  <2>2. CASE b # n + 1
    <3>1. b \in 0..n /\ (b # 0 => b - 1 \in 0..n) BY <2>2
    <3>2. h[b] = a[b] /\ (b # 0 => h[b - 1] = a[b - 1]) BY <2>2, <3>1
    <3> HIDE DEF h
    <3> QED BY <1>1, <3>1, <3>2, Zenon
  <2> QED BY <2>1, <2>2
<1>3. h = [b \in 0..(n + 1) |-> h[b]] OBVIOUS
<1> HIDE DEF h
<1>4. h = [b \in 0..(n + 1) |-> IF b = 0 THEN x ELSE Next1(h[b - 1], b)]
  <2>1. [b \in 0..(n + 1) |-> h[b]] = [b \in 0..(n + 1) |-> IF b = 0 THEN x ELSE Next1(h[b - 1], b)]
    BY <1>2, Zenon
  <2> QED BY <1>3, <2>1, Zenon
<1> QED BY <1>4, Zenon DEF FillRun, Next1

LEMMA FillBlocksRun ==
  ASSUME NEW c, c.blocks \in Nat, NEW x, NEW p, NEW rings
  PROVE  \E a : FillRun(c.blocks, c, x, p, rings, a) /\ FillBlocks(q, c, x, p, rings) = a[c.blocks]
<1> DEFINE T == {m \in Nat : \E a : FillRun(m, c, x, p, rings, a)}
<1>1. 0 \in T
  <2> DEFINE z == [b \in 0..0 |-> x]
  <2>1. z = [b \in 0..0 |-> IF b = 0 THEN x ELSE FillBlock(q, c, z[b - 1], p, b, rings[b])]
    <3>1. \A b \in 0..0 : b = 0 OBVIOUS
    <3> QED BY <3>1, Zenon
  <2> HIDE DEF z
  <2>2. FillRun(0, c, x, p, rings, z) BY <2>1, Zenon DEF FillRun
  <2> QED BY <2>2
<1>2. \A m \in Nat : m \in T => m + 1 \in T BY FillRunNext
<1>3. Nat \subseteq T
  <2> HIDE DEF T
  <2> QED BY <1>1, <1>2, Induction
<1>4. \E a : FillRun(c.blocks, c, x, p, rings, a) BY <1>3
<1> DEFINE after[b \in 0..c.blocks] == IF b = 0 THEN x ELSE FillBlock(q, c, after[b - 1], p, b, rings[b])
<1>5. FillRun(c.blocks, c, x, p, rings, after) BY <1>4, Zenon DEF FillRun
<1>6. FillBlocks(q, c, x, p, rings) = after[c.blocks] BY Zenon DEF FillBlocks
<1> HIDE DEF after
<1> QED BY <1>5, <1>6, Zenon

\* The decoding of a datagram's packets up to n.
PartsRun(n, x, parts, a) ==
  a = [i \in 0..n |-> IF i = 0 THEN x ELSE RSM1JumboPart(q, a[i - 1], parts[i])]

LEMMA PartsRunNext ==
  ASSUME NEW n \in Nat, NEW x, NEW parts, NEW a, PartsRun(n, x, parts, a)
  PROVE  \E h : PartsRun(n + 1, x, parts, h)
<1> DEFINE Next1(y, b) == RSM1JumboPart(q, y, parts[b])
           h == [b \in 0..(n + 1) |-> IF b = n + 1 THEN Next1(a[n], n + 1) ELSE a[b]]
<1> HIDE DEF Next1
<1>1. \A b \in 0..n : a[b] = IF b = 0 THEN x ELSE Next1(a[b - 1], b)
  <2> TAKE b \in 0..n
  <2>1. a[b] = IF b = 0 THEN x ELSE RSM1JumboPart(q, a[b - 1], parts[b]) BY Zenon DEF PartsRun
  <2> QED BY <2>1, Zenon DEF Next1
<1>2. \A b \in 0..(n + 1) : h[b] = IF b = 0 THEN x ELSE Next1(h[b - 1], b)
  <2> TAKE b \in 0..(n + 1)
  <2>1. CASE b = n + 1
    <3>1. n \in 0..(n + 1) /\ n # n + 1 /\ b # 0 /\ b - 1 = n BY <2>1
    <3>2. h[n] = a[n] /\ h[b] = Next1(a[n], n + 1) BY <2>1, <3>1
    <3> HIDE DEF h
    <3> QED BY <2>1, <3>1, <3>2, Zenon
  <2>2. CASE b # n + 1
    <3>1. b \in 0..n /\ (b # 0 => b - 1 \in 0..n) BY <2>2
    <3>2. h[b] = a[b] /\ (b # 0 => h[b - 1] = a[b - 1]) BY <2>2, <3>1
    <3> HIDE DEF h
    <3> QED BY <1>1, <3>1, <3>2, Zenon
  <2> QED BY <2>1, <2>2
<1>3. h = [b \in 0..(n + 1) |-> h[b]] OBVIOUS
<1> HIDE DEF h
<1>4. h = [b \in 0..(n + 1) |-> IF b = 0 THEN x ELSE Next1(h[b - 1], b)]
  <2>1. [b \in 0..(n + 1) |-> h[b]] = [b \in 0..(n + 1) |-> IF b = 0 THEN x ELSE Next1(h[b - 1], b)]
    BY <1>2, Zenon
  <2> QED BY <1>3, <2>1, Zenon
<1> QED BY <1>4, Zenon DEF PartsRun, Next1

LEMMA JumboRun ==
  ASSUME NEW x, NEW p, Len(p.parts) \in Nat
  PROVE  \E a : PartsRun(Len(p.parts), x, p.parts, a) /\ RSM1JumboMsop(q, x, p) = a[Len(p.parts)]
<1> DEFINE T == {m \in Nat : \E a : PartsRun(m, x, p.parts, a)}
<1>1. 0 \in T
  <2> DEFINE z == [b \in 0..0 |-> x]
  <2>1. z = [b \in 0..0 |-> IF b = 0 THEN x ELSE RSM1JumboPart(q, z[b - 1], p.parts[b])]
    <3>1. \A b \in 0..0 : b = 0 OBVIOUS
    <3> QED BY <3>1, Zenon
  <2> HIDE DEF z
  <2>2. PartsRun(0, x, p.parts, z) BY <2>1, Zenon DEF PartsRun
  <2> QED BY <2>2
<1>2. \A m \in Nat : m \in T => m + 1 \in T BY PartsRunNext
<1>3. Nat \subseteq T
  <2> HIDE DEF T
  <2> QED BY <1>1, <1>2, Induction
<1>4. \E a : PartsRun(Len(p.parts), x, p.parts, a) BY <1>3
<1> DEFINE after[i \in 0..Len(p.parts)] == IF i = 0 THEN x ELSE RSM1JumboPart(q, after[i - 1], p.parts[i])
<1>5. PartsRun(Len(p.parts), x, p.parts, after) BY <1>4, Zenon DEF PartsRun
<1>6. RSM1JumboMsop(q, x, p) = after[Len(p.parts)] BY Zenon DEF RSM1JumboMsop
<1> HIDE DEF after
<1> QED BY <1>5, <1>6, Zenon

\* A block is appended if it has points.
LEMMA BlockTyped ==
  ASSUME LidarInv, NEW k \in Nat, NEW p, PacketOf(p, k), NEW b \in 1..Const.blocks
  PROVE  /\ Block(p, b) \in Blk
         /\ Block(p, b).at = k /\ Block(p, b).ts = TimeOf(k, b) /\ Block(p, b).late = p.late
         /\ Block(p, b).block = b
<1>1. p.at = k /\ p.late \in BOOLEAN BY DEF PacketOf
<1>2. PICK r \in Seq(Nat) : r = Measured(k, b) /\ Len(r) # 0 BY RingsRight
<1>3. TimeOf(k, b) \in Nat BY TimeIs
<1>4. b \in Nat BY Configured, ConstIs
<1>5. PICK t \in Nat : t = TimeOf(k, b) BY <1>3
<1>6. Block(p, b) = [n |-> Len(r), ts |-> t, rings |-> r, at |-> k, block |-> b, late |-> p.late]
  BY <1>1, <1>2, <1>5, Zenon DEF Block
<1>7. Len(r) \in Nat \ {0} BY <1>2
<1>8. PICK z \in [n : Nat \ {0}, ts : Nat, rings : Seq(Nat), at : Nat, block : Nat, late : BOOLEAN] :
        z = Block(p, b)
  BY <1>1, <1>4, <1>6, <1>7
<1>9. z.at = k /\ z.ts = t /\ z.late = p.late /\ z.block = b /\ z.rings = r /\ z.n = Len(r) BY <1>6, <1>8
<1>10. z.rings = Measured(z.at, z.block) /\ z.ts = TimeOf(z.at, z.block) /\ z.n = Len(z.rings)
  BY <1>2, <1>5, <1>9, Zenon
<1>11. z.block \in 1..Const.blocks BY <1>9
<1>12. z \in Blk BY <1>10, <1>11, Zenon DEF Blk
<1> QED BY <1>5, <1>8, <1>9, <1>12, Zenon

LEMMA PartTyped ==
  ASSUME LidarInv, NEW k \in Nat, NEW p, PacketOf(p, k), NEW n \in 0..Const.blocks
  PROVE  /\ Part(p, n) \in Seq(Blk)
         /\ p.hit \/ ~q.dense => Len(Part(p, n)) = n /\ \A i \in 1..n : Part(p, n)[i] = Block(p, i)
         /\ ~(p.hit \/ ~q.dense) => Part(p, n) = <<>>
<1>1. n \in Nat /\ \A i \in 1..n : i \in 1..Const.blocks BY Configured, ConstIs
<1>2. \A i \in 1..n : Block(p, i) \in Blk BY <1>1, BlockTyped
<1>3. CASE p.hit \/ ~q.dense
  <2>1. Part(p, n) = [i \in 1..n |-> Block(p, i)] BY <1>3, Zenon DEF Part
  <2>2. [i \in 1..n |-> Block(p, i)] \in [1..n -> Blk] BY <1>2
  <2> QED BY <1>1, <1>3, <2>1, <2>2
<1>4. CASE ~(p.hit \/ ~q.dense)
  <2>1. Part(p, n) = <<>> BY <1>4, Zenon DEF Part
  <2> QED BY <1>4, <2>1
<1> QED BY <1>3, <1>4

\* A block more is a longer part.
LEMMA PartNext ==
  ASSUME LidarInv, NEW k \in Nat, NEW p, PacketOf(p, k), NEW n \in 0..(Const.blocks - 1), NEW c \in Seq(Blk)
  PROVE  IF p.hit \/ ~q.dense THEN Append(c \o Part(p, n), Block(p, n + 1)) = c \o Part(p, n + 1)
         ELSE c \o Part(p, n) = c \o Part(p, n + 1)
<1>1. n \in Nat /\ n \in 0..Const.blocks /\ n + 1 \in 0..Const.blocks /\ n + 1 \in 1..Const.blocks
  BY Configured, ConstIs
<1>2. CASE p.hit \/ ~q.dense
  <2>1. PICK s \in Seq(Blk) : s = Part(p, n) /\ Len(s) = n /\ \A i \in 1..n : s[i] = Block(p, i)
    BY <1>1, <1>2, PartTyped
  <2>2. PICK t \in Seq(Blk) : t = Part(p, n + 1) /\ Len(t) = n + 1 /\ \A i \in 1..(n + 1) : t[i] = Block(p, i)
    BY <1>1, <1>2, PartTyped
  <2>3. PICK e \in Blk : e = Block(p, n + 1) BY <1>1, BlockTyped
  <2>4. t = Append(s, e)
    <3>1. \A i \in 1..n : i \in 1..(n + 1) BY <1>1
    <3>2. n + 1 \in 1..(n + 1) BY <1>1
    <3>3. t[n + 1] = e /\ \A i \in 1..n : t[i] = s[i] BY <2>1, <2>2, <2>3, <3>1, <3>2, Zenon
    <3> QED BY <1>1, <2>1, <2>2, <3>3
  <2>5. Append(c \o s, e) = c \o Append(s, e) OBVIOUS
  <2> QED BY <1>2, <2>1, <2>2, <2>3, <2>4, <2>5, Zenon
<1>3. CASE ~(p.hit \/ ~q.dense)
  <2>1. Part(p, n) = <<>> /\ Part(p, n + 1) = <<>> BY <1>3, Zenon DEF Part
  <2> QED BY <1>3, <2>1, Zenon
<1> QED BY <1>2, <1>3

\* A block of a packet.
LEMMA FillBlockEffect ==
  ASSUME LidarInv, NEW k \in Nat, NEW p, PacketOf(p, k), NEW b \in 1..Const.blocks,
         NEW v1, NEW v2, NEW v3, NEW v4, NEW v5, NEW v6, NEW y,
         y = [sp |-> v1, cloud |-> v2, first |-> v3, prev |-> v4, out |-> v5, ret |-> v6]
  PROVE  FillBlock(q, Const, y, p, b, Rings(p)[b])
           = [sp |-> v1, cloud |-> IF p.hit \/ ~q.dense THEN Append(v2, Block(p, b)) ELSE v2, first |-> v3,
              prev |-> TimeOf(k, b), out |-> v5, ret |-> v6]
<1>1. p.at = k /\ p.ts = k * Span BY DEF PacketOf
<1>2. PICK r \in Seq(Nat) : r = Measured(k, b) /\ r = Rings(p)[b] /\ Len(r) # 0 BY RingsRight
<1>3. PICK t : t = p.ts + (b - 1) * Const.dur OBVIOUS
<1>4. t = TimeOf(k, b) BY <1>1, <1>3, Zenon DEF TimeOf
<1>5. PICK g : g = Points(q, p.hit, r) OBVIOUS
<1>6. PICK e : e = [n |-> Len(g), ts |-> t, rings |-> g, at |-> p.at, block |-> b, late |-> p.late] OBVIOUS
<1>7. FillBlock(q, Const, y, p, b, r) = [y EXCEPT !.prev = t, !.cloud = IF g = <<>> THEN @ ELSE Append(@, e)]
  BY <1>3, <1>5, <1>6 DEF FillBlock
<1>8. CASE p.hit \/ ~q.dense
  <2>1. g = r BY <1>5, <1>8, Zenon DEF Points
  <2>2. r # <<>> BY <1>2
  <2>3. e = Block(p, b) BY <1>1, <1>2, <1>4, <1>6, <2>1, Zenon DEF Block
  <2>4. [y EXCEPT !.prev = t, !.cloud = IF g = <<>> THEN @ ELSE Append(@, e)]
          = [sp |-> v1, cloud |-> Append(v2, e), first |-> v3, prev |-> t, out |-> v5, ret |-> v6]
    <3>1. y.cloud = v2 OBVIOUS
    <3>2. PICK w : w = IF g = <<>> THEN y.cloud ELSE Append(y.cloud, e) OBVIOUS
    <3>3. w = Append(v2, e) BY <2>1, <2>2, <3>1, <3>2, Zenon
    <3>4. [y EXCEPT !.prev = t, !.cloud = w]
            = [sp |-> v1, cloud |-> w, first |-> v3, prev |-> t, out |-> v5, ret |-> v6]
      <4>1. PICK z : z = [y EXCEPT !.prev = t] OBVIOUS
      <4>2. z = [sp |-> v1, cloud |-> v2, first |-> v3, prev |-> t, out |-> v5, ret |-> v6] BY <4>1
      <4>3. [z EXCEPT !.cloud = w] = [sp |-> v1, cloud |-> w, first |-> v3, prev |-> t, out |-> v5, ret |-> v6]
        BY <4>2
      <4> QED BY <4>1, <4>3, Zenon
    <3> QED BY <3>2, <3>3, <3>4, Zenon
  <2>5. (IF p.hit \/ ~q.dense THEN Append(v2, e) ELSE v2) = Append(v2, e) BY <1>8, Zenon
  <2> QED BY <1>2, <1>4, <1>7, <2>3, <2>4, <2>5, Zenon
<1>9. CASE ~(p.hit \/ ~q.dense)
  <2>1. g = <<>> BY <1>5, <1>9, Zenon DEF Points
  <2>2. [y EXCEPT !.prev = t, !.cloud = IF g = <<>> THEN @ ELSE Append(@, e)]
          = [sp |-> v1, cloud |-> v2, first |-> v3, prev |-> t, out |-> v5, ret |-> v6]
    <3>1. y.cloud = v2 OBVIOUS
    <3>2. PICK w : w = IF g = <<>> THEN y.cloud ELSE Append(y.cloud, e) OBVIOUS
    <3>3. w = v2 BY <2>1, <3>1, <3>2, Zenon
    <3>4. [y EXCEPT !.prev = t, !.cloud = w]
            = [sp |-> v1, cloud |-> w, first |-> v3, prev |-> t, out |-> v5, ret |-> v6]
      <4>1. PICK z : z = [y EXCEPT !.prev = t] OBVIOUS
      <4>2. z = [sp |-> v1, cloud |-> v2, first |-> v3, prev |-> t, out |-> v5, ret |-> v6] BY <4>1
      <4>3. [z EXCEPT !.cloud = w] = [sp |-> v1, cloud |-> w, first |-> v3, prev |-> t, out |-> v5, ret |-> v6]
        BY <4>2
      <4> QED BY <4>1, <4>3, Zenon
    <3> QED BY <3>2, <3>3, <3>4, Zenon
  <2>3. (IF p.hit \/ ~q.dense THEN Append(v2, Block(p, b)) ELSE v2) = v2 BY <1>9, Zenon
  <2> QED BY <1>2, <1>4, <1>7, <2>2, <2>3, Zenon
<1> QED BY <1>8, <1>9

\* The blocks of a packet come last.
LEMMA FillEffect ==
  ASSUME LidarInv, NEW k \in Nat, NEW p, PacketOf(p, k), NEW x \in Frame
  PROVE  FillBlocks(q, Const, x, p, Rings(p))
           = [sp |-> x.sp, cloud |-> x.cloud \o Part(p, Const.blocks), first |-> x.first,
              prev |-> TimeOf(k, Const.blocks), out |-> x.out, ret |-> x.ret]
<1>1. Const.blocks \in Nat \ {0} BY Configured, ConstIs
<1>2. PICK n \in Nat \ {0} : n = Const.blocks BY <1>1
<1>3. PICK a : FillRun(n, Const, x, p, Rings(p), a) /\ FillBlocks(q, Const, x, p, Rings(p)) = a[n]
  BY <1>2, FillBlocksRun
<1> DEFINE Closed(b) == [sp |-> x.sp, cloud |-> x.cloud \o Part(p, b), first |-> x.first,
                         prev |-> IF b = 0 THEN x.prev ELSE TimeOf(k, b), out |-> x.out, ret |-> x.ret]
           T == {b \in Nat : b <= n => a[b] = Closed(b)}
<1>4. x.cloud \in Seq(Blk)
      /\ x = [sp |-> x.sp, cloud |-> x.cloud, first |-> x.first, prev |-> x.prev, out |-> x.out, ret |-> x.ret]
  BY DEF Frame
<1>5. \A b \in 0..n : a[b] = IF b = 0 THEN x ELSE FillBlock(q, Const, a[b - 1], p, b, Rings(p)[b])
  BY <1>3, Zenon DEF FillRun
<1>7. 0 \in T
  <2>1. a[0] = x
    <3>1. 0 \in 0..n BY <1>2
    <3> QED BY <1>5, <3>1, Zenon
  <2>2. Part(p, 0) = <<>>
    <3>1. [i \in 1..0 |-> Block(p, i)] = <<>> OBVIOUS
    <3> QED BY <3>1, Zenon DEF Part
  <2>3. x.cloud \o <<>> = x.cloud BY <1>4
  <2>4. Closed(0) = [sp |-> x.sp, cloud |-> x.cloud, first |-> x.first, prev |-> x.prev, out |-> x.out, ret |-> x.ret]
    <3>1. Closed(0).cloud = x.cloud /\ Closed(0).prev = x.prev BY <2>2, <2>3, Zenon
    <3> QED BY <2>2, <2>3, Zenon
  <2> QED BY <1>4, <2>1, <2>4
<1>8. ASSUME NEW b \in Nat, b \in T PROVE b + 1 \in T
  <2> SUFFICES ASSUME b + 1 <= n PROVE a[b + 1] = Closed(b + 1) OBVIOUS
  <2>1. PICK m \in 1..n : m = b + 1 /\ m - 1 = b /\ m \in 0..n /\ m # 0 /\ m \in 1..Const.blocks
                          /\ b \in 0..(Const.blocks - 1) /\ b <= n
    BY <1>2
  <2>2. a[b] = Closed(b) BY <1>8, <2>1
  <2>3. PICK y : y = a[b] OBVIOUS
  <2>4. a[m] = FillBlock(q, Const, y, p, m, Rings(p)[m])
    <3>1. a[m] = FillBlock(q, Const, a[m - 1], p, m, Rings(p)[m]) BY <1>5, <2>1, Zenon
    <3> QED BY <2>1, <2>3, <3>1
  <2>5. PICK c, v : c = x.cloud \o Part(p, b) /\ v = IF b = 0 THEN x.prev ELSE TimeOf(k, b) OBVIOUS
  <2>6. y = [sp |-> x.sp, cloud |-> c, first |-> x.first, prev |-> v, out |-> x.out, ret |-> x.ret]
    BY <2>2, <2>3, <2>5, Zenon
  <2>7. a[m] = [sp |-> x.sp, cloud |-> IF p.hit \/ ~q.dense THEN Append(c, Block(p, m)) ELSE c, first |-> x.first,
                prev |-> TimeOf(k, m), out |-> x.out, ret |-> x.ret]
    <3>1. PICK v1, v2, v3, v4 : v1 = x.sp /\ v2 = x.first /\ v3 = x.out /\ v4 = x.ret OBVIOUS
    <3>2. y = [sp |-> v1, cloud |-> c, first |-> v2, prev |-> v, out |-> v3, ret |-> v4] BY <2>6, <3>1, Zenon
    <3>3. a[m] = [sp |-> v1, cloud |-> IF p.hit \/ ~q.dense THEN Append(c, Block(p, m)) ELSE c, first |-> v2,
                  prev |-> TimeOf(k, m), out |-> v3, ret |-> v4]
      BY <2>1, <2>4, <3>2, FillBlockEffect
    <3> QED BY <3>1, <3>3, Zenon
  <2>8. (IF p.hit \/ ~q.dense THEN Append(c, Block(p, m)) ELSE c) = x.cloud \o Part(p, m)
    <3>1. IF p.hit \/ ~q.dense THEN Append(x.cloud \o Part(p, b), Block(p, b + 1)) = x.cloud \o Part(p, b + 1)
          ELSE x.cloud \o Part(p, b) = x.cloud \o Part(p, b + 1)
      BY <1>4, <2>1, PartNext
    <3> QED BY <2>1, <2>5, <3>1, Zenon
  <2>9. a[m] = Closed(m) BY <2>1, <2>7, <2>8, Zenon
  <2> QED BY <2>1, <2>9, Zenon
<1>9. n \in T
  <2>1. Nat \subseteq T
    <3> HIDE DEF T
    <3> QED BY <1>7, <1>8, Induction
  <2> QED BY <1>2, <2>1
<1>10. a[n] = Closed(n) BY <1>9
<1>11. n # 0 BY <1>2
<1> QED BY <1>2, <1>3, <1>10, <1>11, Zenon

\* The number of packet k for the strategy.
Num(k) == IF lidar = "RSEMX" THEN k % N ELSE (k % N) + 1

\* The frame when packet k has opened another one or not, with the points of p, and when
\* its cloud is handed out.
Opened(x, k) ==
  LET s == BySeq(x.sp, Num(k))
  IN IF s.split
     THEN [sp |-> s.sp, cloud |-> <<>>, first |-> k * Span, prev |-> x.prev, out |-> Handed(x), ret |-> TRUE]
     ELSE [sp |-> s.sp, cloud |-> x.cloud, first |-> x.first, prev |-> x.prev, out |-> x.out, ret |-> x.ret]
Filled(x, k, p) ==
  [sp |-> x.sp, cloud |-> x.cloud \o Part(p, Const.blocks), first |-> x.first,
   prev |-> TimeOf(k, Const.blocks), out |-> x.out, ret |-> x.ret]
Closed(x) ==
  [sp |-> x.sp, cloud |-> <<>>, first |-> x.first, prev |-> x.prev, out |-> Handed(x), ret |-> x.ret]

Ends(x, k) == lidar = "RSM1" /\ MaxSeq(x.sp) = Num(k)
Add(x, k, p) ==
  LET z == Filled(Opened(x, k), k, p)
  IN IF Ends(z, k) THEN Closed(z) ELSE z

LEMMA NumIs ==
  ASSUME NEW k \in Nat
  PROVE  Num(k) \in 0..N /\ (lidar # "RSEMX" => Num(k) \in 1..N)
<1>1. k % N \in 0..(N - 1) /\ N \in Nat BY Numbers, Divided
<1>2. PICK r \in 0..(N - 1) : r = k % N BY <1>1
<1>3. r \in 0..N /\ r + 1 \in 1..N /\ r + 1 \in 0..N BY <1>1
<1> QED BY <1>2, <1>3, Zenon DEF Num

LEMMA OpenedTyped ==
  ASSUME LidarInv, NEW k \in Nat, NEW x \in Frame
  PROVE  Opened(x, k) \in Frame
<1>1. Num(k) \in 0..N /\ x.sp \in Strategy BY NumIs DEF Frame
<1>2. PICK s : s = BySeq(x.sp, Num(k)) /\ s.sp \in Strategy /\ s.split \in BOOLEAN BY <1>1, BySeqIs
<1>3. Handed(x) \in Seq(HandedOut) BY HandedTyped
<1>4. PICK h \in Seq(HandedOut) : h = Handed(x) BY <1>3
<1>5. PICK t \in Nat : t = k * Span
  <2>1. Const.blocks \in Nat \ {0} BY Configured, ConstIs
  <2>2. 1 \in 1..Const.blocks BY <2>1
  <2> QED BY <2>2, TimeIs
<1>6. x.cloud \in Seq(Blk) /\ x.out \in Seq(HandedOut) /\ x.first \in Nat /\ x.prev \in Nat /\ x.ret \in BOOLEAN
  BY DEF Frame
<1>7. CASE s.split
  <2>1. Opened(x, k) = [sp |-> s.sp, cloud |-> <<>>, first |-> t, prev |-> x.prev, out |-> h, ret |-> TRUE]
    BY <1>2, <1>4, <1>5, <1>7, Zenon DEF Opened
  <2>2. <<>> \in Seq(Blk) OBVIOUS
  <2> QED BY <1>2, <1>6, <2>1, <2>2 DEF Frame
<1>8. CASE ~s.split
  <2>1. Opened(x, k) = [sp |-> s.sp, cloud |-> x.cloud, first |-> x.first, prev |-> x.prev, out |-> x.out, ret |-> x.ret]
    BY <1>2, <1>8, Zenon DEF Opened
  <2> QED BY <1>2, <1>6, <2>1 DEF Frame
<1> QED BY <1>7, <1>8

LEMMA FilledTyped ==
  ASSUME LidarInv, NEW k \in Nat, NEW x \in Frame, NEW p, PacketOf(p, k)
  PROVE  Filled(x, k, p) \in Frame
<1>1. Const.blocks \in Nat \ {0} BY Configured, ConstIs
<1>2. Const.blocks \in 1..Const.blocks /\ Const.blocks \in 0..Const.blocks BY <1>1
<1>3. PICK t \in Nat : t = TimeOf(k, Const.blocks) BY <1>2, TimeIs
<1>4. PICK c \in Seq(Blk) : c = Part(p, Const.blocks) BY <1>2, PartTyped
<1>5. Filled(x, k, p) = [sp |-> x.sp, cloud |-> x.cloud \o c, first |-> x.first, prev |-> t, out |-> x.out, ret |-> x.ret]
  BY <1>3, <1>4, Zenon DEF Filled
<1>6. x.cloud \in Seq(Blk) BY DEF Frame
<1>7. x.cloud \o c \in Seq(Blk) BY <1>6
<1> QED BY <1>5, <1>7 DEF Frame

LEMMA ClosedTyped ==
  ASSUME LidarInv, NEW x \in Frame
  PROVE  Closed(x) \in Frame
<1>1. PICK h \in Seq(HandedOut) : h = Handed(x) BY HandedTyped
<1>2. Closed(x) = [sp |-> x.sp, cloud |-> <<>>, first |-> x.first, prev |-> x.prev, out |-> h, ret |-> x.ret]
  BY <1>1, Zenon DEF Closed
<1>3. <<>> \in Seq(Blk) OBVIOUS
<1> QED BY <1>2, <1>3 DEF Frame

LEMMA AddTyped ==
  ASSUME LidarInv, NEW k \in Nat, NEW x \in Frame, NEW p, PacketOf(p, k)
  PROVE  Add(x, k, p) \in Frame
<1>1. Filled(Opened(x, k), k, p) \in Frame BY OpenedTyped, FilledTyped
<1> QED BY <1>1, ClosedTyped, Zenon DEF Add

\* A packet is split off and its points are added by SplitAndFill.
LEMMA FillIs ==
  ASSUME LidarInv, NEW k \in Nat, NEW x \in Frame, NEW p, PacketOf(p, k)
  PROVE  SplitAndFill(q, Const, x, p, Num(k), Rings(p)) = Filled(Opened(x, k), k, p)
<1>1. Num(k) \in 0..N /\ x.sp \in Strategy BY NumIs DEF Frame
<1>2. PICK s : s = BySeq(x.sp, Num(k)) /\ s.sp \in Strategy /\ s.split \in BOOLEAN BY <1>1, BySeqIs
<1>3. PICK g : g = [x EXCEPT !.sp = s.sp] OBVIOUS
<1>4. x = [sp |-> x.sp, cloud |-> x.cloud, first |-> x.first, prev |-> x.prev, out |-> x.out, ret |-> x.ret]
  BY DEF Frame
<1>5. g = [sp |-> s.sp, cloud |-> x.cloud, first |-> x.first, prev |-> x.prev, out |-> x.out, ret |-> x.ret]
  BY <1>3, <1>4
<1>6. g \in Frame BY <1>2, <1>5 DEF Frame
<1>7. Handed(g) = Handed(x)
  <2>1. g.cloud = x.cloud /\ g.out = x.out /\ g.first = x.first /\ g.prev = x.prev BY <1>5
  <2>2. CloudTs(q, g) = CloudTs(q, x) BY <2>1, Zenon DEF CloudTs
  <2> QED BY <2>1, <2>2, Zenon DEF Handed
<1>8. p.ts = k * Span BY DEF PacketOf
<1>9. PICK y : y = IF s.split THEN BeginFrame(q, g, Const.lasers, p.ts) ELSE g OBVIOUS
<1>10. y = Opened(x, k)
  <2>1. CASE s.split
    <3>1. y = BeginFrame(q, g, Const.lasers, p.ts) BY <1>9, <2>1, Zenon
    <3>2. y = [sp |-> g.sp, cloud |-> <<>>, first |-> p.ts, prev |-> g.prev, out |-> Handed(g), ret |-> TRUE]
      BY <1>6, <3>1, BeginEffect
    <3>3. g.sp = s.sp /\ g.prev = x.prev BY <1>5
    <3> QED BY <1>2, <1>7, <1>8, <2>1, <3>2, <3>3, Zenon DEF Opened
  <2>2. CASE ~s.split
    <3>1. y = g BY <1>9, <2>2, Zenon
    <3> QED BY <1>2, <1>5, <2>2, <3>1, Zenon DEF Opened
  <2> QED BY <2>1, <2>2
<1>11. SplitAndFill(q, Const, x, p, Num(k), Rings(p)) = FillBlocks(q, Const, y, p, Rings(p))
  BY <1>2, <1>3, <1>9, Zenon DEF SplitAndFill
<1>12. y \in Frame BY <1>10, OpenedTyped
<1>13. FillBlocks(q, Const, y, p, Rings(p)) = Filled(y, k, p) BY <1>12, FillEffect, Zenon DEF Filled
<1> QED BY <1>10, <1>11, <1>13, Zenon

LEMMA AddSmall ==
  ASSUME LidarInv, NEW k \in Nat, NEW x \in Frame, NEW p, PacketOf(p, k), lidar # "RSM1"
  PROVE  SplitAndFill(q, Const, x, p, Num(k), Rings(p)) = Add(x, k, p)
BY FillIs, Zenon DEF Add, Ends

\* What each decoder does with a packet, and the jumbo decoder with one of a datagram.
LEMMA DecodeIs ==
  ASSUME LidarInv, ~Jumbo, NEW k \in Nat, NEW x \in Frame, NEW p, PacketOf(p, k), p.bad => lidar = "RSEMX"
  PROVE  DecodeMsop(x, p) = IF p.bad THEN x ELSE Add(x, k, p)
<1>1. lidar \in MemsNames /\ lidar # "RSM1_JUMBO" BY Configured DEF Jumbo
<1>2. p.seq = (k % N) + 1 /\ p.surface = (IF p.bad THEN 2 ELSE k % 2) /\ p.bad \in BOOLEAN BY DEF PacketOf
<1>3. CASE lidar = "RSM1"
  <2>1. Const = RSM1 BY <1>3 DEF Const
  <2>2. Num(k) = p.seq /\ ~p.bad BY <1>2, <1>3 DEF Num
  <2>3. Rings(p) = [b \in 1..Const.blocks |-> EachChannel(Const)] BY <1>3 DEF Rings
  <2>4. PICK g : g = Filled(Opened(x, k), k, p) /\ g \in Frame BY OpenedTyped, FilledTyped
  <2>5. SplitAndFill(q, RSM1, x, p, p.seq, [b \in 1..RSM1.blocks |-> EachChannel(RSM1)]) = g
    BY <2>1, <2>2, <2>3, <2>4, FillIs
  <2>6. RSM1Msop(q, x, p) = IF MaxSeq(g.sp) = p.seq THEN SplitFrame(q, g, RSM1.lasers) ELSE g
    BY <2>5, Zenon DEF RSM1Msop
  <2>7. DecodeMsop(x, p) = RSM1Msop(q, x, p) BY <1>3 DEF DecodeMsop
  <2>8. SplitFrame(q, g, Const.lasers) = Closed(g)
    <3>1. g = [sp |-> g.sp, cloud |-> g.cloud, first |-> g.first, prev |-> g.prev, out |-> g.out, ret |-> g.ret]
      BY <2>4 DEF Frame
    <3>2. PICK h : h = Handed(g) OBVIOUS
    <3>3. PICK y : y = [g EXCEPT !.cloud = <<>>] OBVIOUS
    <3>4. y = [sp |-> g.sp, cloud |-> <<>>, first |-> g.first, prev |-> g.prev, out |-> g.out, ret |-> g.ret]
      BY <3>1, <3>3
    <3>5. [y EXCEPT !.out = h] = [sp |-> g.sp, cloud |-> <<>>, first |-> g.first, prev |-> g.prev, out |-> h, ret |-> g.ret]
      BY <3>4
    <3>6. SplitFrame(q, g, Const.lasers) = [g EXCEPT !.cloud = <<>>, !.out = h] BY <2>4, <3>2, SplitEffect, Zenon
    <3> QED BY <3>2, <3>3, <3>5, <3>6, Zenon DEF Closed
  <2>9. Ends(g, k) <=> MaxSeq(g.sp) = p.seq BY <1>3, <2>2, Zenon DEF Ends
  <2>10. Add(x, k, p) = IF Ends(g, k) THEN Closed(g) ELSE g BY <2>4, Zenon DEF Add
  <2> QED BY <2>1, <2>2, <2>6, <2>7, <2>8, <2>9, <2>10, Zenon
<1>4. CASE lidar = "RSM2"
  <2>1. Const = RSM2 /\ lidar # "RSM1" BY <1>4 DEF Const
  <2>2. Num(k) = p.seq /\ ~p.bad BY <1>2, <1>4 DEF Num
  <2>3. Rings(p) = [b \in 1..Const.blocks |-> EachChannel(Const)] BY <1>4 DEF Rings
  <2>4. DecodeMsop(x, p) = RSM2Msop(q, x, p) BY <1>4 DEF DecodeMsop
  <2> QED BY <2>1, <2>2, <2>3, <2>4, AddSmall, Zenon DEF RSM2Msop
<1>5. CASE lidar = "RSM3"
  <2>1. Const = RSM3 /\ lidar # "RSM1" BY <1>5 DEF Const
  <2>2. Num(k) = p.seq /\ ~p.bad BY <1>2, <1>5 DEF Num
  <2>3. Rings(p) = [b \in 1..Const.blocks |-> EachChannel(Const)] BY <1>5 DEF Rings
  <2>4. DecodeMsop(x, p) = RSM3Msop(q, x, p) BY <1>5 DEF DecodeMsop
  <2> QED BY <2>1, <2>2, <2>3, <2>4, AddSmall, Zenon DEF RSM3Msop
<1>6. CASE lidar = "RSMX"
  <2>1. Const = RSMX /\ lidar # "RSM1" BY <1>6 DEF Const
  <2>2. Num(k) = p.seq /\ ~p.bad BY <1>2, <1>6 DEF Num
  <2>3. Rings(p) = [b \in 1..Const.blocks |->
          [i \in 1..(RSMXLoopTime(p.mode) * Const.chans) |-> (i - 1) \div RSMXLoopTime(p.mode)]]
    BY <1>6 DEF Rings
  <2>4. DecodeMsop(x, p) = RSMXMsop(q, x, p) BY <1>6 DEF DecodeMsop
  <2> QED BY <2>1, <2>2, <2>3, <2>4, AddSmall, Zenon DEF RSMXMsop
<1>7. CASE lidar = "RSE1"
  <2>1. Const = RSE1 /\ lidar # "RSM1" BY <1>7 DEF Const
  <2>2. Num(k) = p.seq /\ ~p.bad BY <1>2, <1>7 DEF Num
  <2>3. Rings(p) = [b \in 1..Const.blocks |-> EachChannel(Const)] BY <1>7 DEF Rings
  <2>4. DecodeMsop(x, p) = RSE1Msop(q, x, p) BY <1>7 DEF DecodeMsop
  <2> QED BY <2>1, <2>2, <2>3, <2>4, AddSmall, Zenon DEF RSE1Msop
<1>8. CASE lidar = "RSEMX"
  <2>1. Const = RSEMX /\ lidar # "RSM1" BY <1>8 DEF Const
  <2>2. PICK s : s = (p.seq - 1) % 65536 OBVIOUS
  <2>3. Num(k) = s BY <1>2, <1>8, <2>2, NumberBounds DEF Num
  <2>4. Rings(p) = [b \in 1..Const.blocks |-> <<RSEMXRing(p, s, b)>>] BY <1>8, <2>2 DEF Rings
  <2>5. DecodeMsop(x, p) = RSEMXMsop(q, x, p) BY <1>8 DEF DecodeMsop
  <2>6. RSEMXMsop(q, x, p)
          = IF p.surface >= 2 THEN x
            ELSE SplitAndFill(q, RSEMX, x, p, s, [b \in 1..RSEMX.blocks |-> <<RSEMXRing(p, s, b)>>])
    BY <2>2 DEF RSEMXMsop
  <2>7. p.surface >= 2 <=> p.bad
    <3>1. k % 2 \in {0, 1} BY Parity
    <3> QED BY <1>2, <3>1
  <2>8. SplitAndFill(q, RSEMX, x, p, s, [b \in 1..RSEMX.blocks |-> <<RSEMXRing(p, s, b)>>]) = Add(x, k, p)
    BY <2>1, <2>3, <2>4, AddSmall
  <2> QED BY <2>5, <2>6, <2>7, <2>8, Zenon
<1> QED BY <1>1, <1>3, <1>4, <1>5, <1>6, <1>7, <1>8 DEF MemsNames

LEMMA PartIs ==
  ASSUME LidarInv, Jumbo, NEW k \in Nat, NEW x \in Frame, NEW p, PacketOf(p, k)
  PROVE  RSM1JumboPart(q, x, p) = IF p.bad THEN x ELSE Add(x, k, p)
<1>1. lidar = "RSM1_JUMBO" BY DEF Jumbo
<1>2. Const = RSM1Jumbo /\ lidar # "RSM1" BY <1>1 DEF Const
<1>3. Num(k) = p.seq
  <2>1. lidar # "RSEMX" BY <1>1
  <2> QED BY <2>1, Zenon DEF PacketOf, Num
<1>4. Rings(p) = [b \in 1..Const.blocks |-> EachChannel(Const)] BY <1>1 DEF Rings
<1>5. SplitAndFill(q, RSM1Jumbo, x, p, p.seq, [b \in 1..RSM1Jumbo.blocks |-> EachChannel(RSM1Jumbo)]) = Add(x, k, p)
  BY <1>2, <1>3, <1>4, AddSmall
<1> QED BY <1>5, Zenon DEF RSM1JumboPart

\* A datagram of a jumbo lidar is Parts packets, another one is a packet.
Unit == IF Jumbo THEN Parts ELSE 1
Piece(m, i) == IF Jumbo THEN m.parts[i] ELSE m

LEMMA UnitIs ==
  /\ Unit \in Nat \ {0} /\ (~Jumbo => Unit = 1) /\ (Jumbo => Unit = Parts)
  /\ \A k \in Nat : k * Unit \in Nat /\ (k + 1) * Unit = k * Unit + Unit
  /\ \A k \in Nat, l \in Nat : k < l => (k + 1) * Unit <= l * Unit
<1>1. Parts \in Nat \ {0} BY Numbers
<1>2. PICK u \in Nat \ {0} : u = Unit BY <1>1 DEF Unit
<1>3. \A k \in Nat : k * u \in Nat /\ (k + 1) * u = k * u + u BY SMTT(20)
<1>4. \A k \in Nat, l \in Nat : k < l => (k + 1) * u <= l * u
  <2> TAKE k \in Nat, l \in Nat
  <2> HAVE k < l
  <2>1. PICK t \in Nat : l = (k + 1) + t
    <3>1. l - k - 1 \in Nat /\ l = (k + 1) + (l - k - 1) OBVIOUS
    <3> QED BY <3>1
  <2>2. PICK z \in Nat : z = t * u BY SMTT(20)
  <2>3. ((k + 1) + t) * u = (k + 1) * u + t * u BY SMTT(20)
  <2>4. (k + 1) * u \in Nat BY <1>3
  <2> QED BY <2>1, <2>2, <2>3, <2>4
<1> QED BY <1>2, <1>3, <1>4 DEF Unit

LEMMA Pieces ==
  ASSUME NEW k \in Nat, NEW hit \in BOOLEAN, NEW bad \in BOOLEAN, NEW late \in BOOLEAN, NEW i \in 1..Unit
  PROVE  /\ k * Unit + i - 1 \in Nat
         /\ PacketOf(Piece(Msop(k, hit, bad, late), i), k * Unit + i - 1)
         /\ Piece(Msop(k, hit, bad, late), i).late = late
         /\ Piece(Msop(k, hit, bad, late), i).hit = hit
         /\ Piece(Msop(k, hit, bad, late), i).bad = (bad /\ i = 1)
<1>1. PICK c \in BOOLEAN : c = (bad /\ i = 1) BY Zenon
<1>2. Unit \in Nat \ {0} /\ k * Unit \in Nat BY UnitIs
<1>3. PICK l \in Nat : l = k * Unit + i - 1 BY <1>2
<1>4. /\ PacketOf(Packet(l, hit, c, late), l) /\ Packet(l, hit, c, late).late = late
      /\ Packet(l, hit, c, late).hit = hit /\ Packet(l, hit, c, late).bad = c
  BY PacketIs
<1>5. Piece(Msop(k, hit, bad, late), i) = Packet(l, hit, c, late)
  <2>1. CASE Jumbo
    <3> DEFINE parts == [j \in 1..Parts |-> Packet(k * Parts + j - 1, hit, bad /\ j = 1, late)]
    <3>1. Msop(k, hit, bad, late) = [at |-> k, seq |-> parts[1].seq, parts |-> parts]
      BY <2>1, Zenon DEF Msop, Datagram
    <3>2. Unit = Parts /\ i \in 1..Parts BY <2>1, UnitIs
    <3>3. parts[i] = Packet(k * Parts + i - 1, hit, bad /\ i = 1, late) BY <3>2, Zenon
    <3>4. parts[i] = Packet(l, hit, c, late) BY <1>1, <1>3, <3>2, <3>3, Zenon
    <3> HIDE DEF parts
    <3>5. Msop(k, hit, bad, late).parts = parts BY <3>1
    <3> QED BY <2>1, <3>4, <3>5, Zenon DEF Piece
  <2>2. CASE ~Jumbo
    <3>1. Unit = 1 BY <2>2, UnitIs
    <3>2. i = 1 BY <3>1
    <3>3. k * 1 = k BY SMTT(20)
    <3>4. l = k BY <1>3, <3>1, <3>2, <3>3
    <3>5. c = bad BY <1>1, <3>2, Zenon
    <3> QED BY <2>2, <3>4, <3>5, Zenon DEF Piece, Msop
  <2> QED BY <2>1, <2>2
<1> QED BY <1>1, <1>3, <1>4, <1>5, Zenon

\* The frames that decoding all packets of m goes through.
Pieced(a, x, k, m, bad) ==
  /\ a[0] = x /\ \A i \in 0..Unit : a[i] \in Frame
  /\ \A i \in 1..Unit : a[i] = IF bad /\ i = 1 THEN a[i - 1] ELSE Add(a[i - 1], k * Unit + i - 1, Piece(m, i))

LEMMA DecodeRun ==
  ASSUME LidarInv, NEW k \in Nat, NEW hit \in BOOLEAN, NEW bad \in BOOLEAN, NEW late \in BOOLEAN,
         NEW x \in Frame, bad => lidar \in {"RSEMX", "RSM1_JUMBO"}
  PROVE  \E a : /\ Pieced(a, x, k, Msop(k, hit, bad, late), bad)
                /\ DecodeMsop(x, Msop(k, hit, bad, late)) = a[Unit]
<1>1. PICK m : m = Msop(k, hit, bad, late) OBVIOUS
<1>2. CASE ~Jumbo
  <2>1. Unit = 1 BY <1>2, UnitIs
  <2>2. Piece(m, 1) = m BY <1>2, Zenon DEF Piece
  <2>3. k * Unit + 1 - 1 = k
    <3>1. k * 1 = k BY SMTT(20)
    <3> QED BY <2>1, <3>1
  <2>4. 1 \in 1..Unit BY <2>1
  <2>5. PacketOf(m, k) /\ m.bad = bad
    <3>1. PacketOf(Piece(m, 1), k * Unit + 1 - 1) /\ Piece(m, 1).bad = (bad /\ 1 = 1) BY <1>1, <2>4, Pieces
    <3> QED BY <2>2, <2>3, <3>1, Zenon
  <2>6. m.bad => lidar = "RSEMX" BY <1>2, <2>5 DEF Jumbo
  <2>7. DecodeMsop(x, m) = IF bad THEN x ELSE Add(x, k, m) BY <1>2, <2>5, <2>6, DecodeIs
  <2>8. PICK y : y = (IF bad THEN x ELSE Add(x, k, m)) /\ y \in Frame BY <2>5, AddTyped
  <2> DEFINE a == [i \in 0..1 |-> IF i = 0 THEN x ELSE y]
  <2>9. a[0] = x /\ a[1] = y /\ \A i \in 0..1 : a[i] \in Frame BY <2>8
  <2>10. \A i \in 1..1 : i = 1 /\ i - 1 = 0 OBVIOUS
  <2> HIDE DEF a
  <2>11. \A i \in 1..1 : a[i] = IF bad /\ i = 1 THEN a[i - 1] ELSE Add(a[i - 1], k * Unit + i - 1, Piece(m, i))
    <3> TAKE i \in 1..1
    <3>1. i = 1 /\ i - 1 = 0 OBVIOUS
    <3>2. (IF bad /\ i = 1 THEN x ELSE Add(x, k, m)) = y BY <2>8, <3>1, Zenon
    <3> QED BY <2>2, <2>3, <2>9, <3>1, <3>2, Zenon
  <2>12. Pieced(a, x, k, m, bad) BY <2>1, <2>9, <2>11, Zenon DEF Pieced
  <2>13. DecodeMsop(x, m) = a[Unit] BY <2>1, <2>7, <2>8, <2>9, Zenon
  <2> QED BY <1>1, <2>12, <2>13, Zenon
<1>3. CASE Jumbo
  <2>1. Unit = Parts /\ Parts \in Nat \ {0} BY <1>3, UnitIs
  <2> DEFINE parts == [j \in 1..Parts |-> Packet(k * Parts + j - 1, hit, bad /\ j = 1, late)]
  <2>2. m = [at |-> k, seq |-> parts[1].seq, parts |-> parts] BY <1>1, <1>3, Zenon DEF Msop, Datagram
  <2>3. Len(parts) = Parts BY <2>1
  <2> HIDE DEF parts
  <2>4. m.parts = parts BY <2>2
  <2>5. Len(m.parts) = Parts BY <2>3, <2>4
  <2>6. PICK a : PartsRun(Parts, x, m.parts, a) /\ RSM1JumboMsop(q, x, m) = a[Parts]
    <3>1. Len(m.parts) \in Nat BY <2>1, <2>5
    <3>2. \E a : PartsRun(Len(m.parts), x, m.parts, a) /\ RSM1JumboMsop(q, x, m) = a[Len(m.parts)]
      BY <3>1, JumboRun
    <3> QED BY <2>5, <3>2
  <2>7. lidar = "RSM1_JUMBO" BY <1>3 DEF Jumbo
  <2>8. DecodeMsop(x, m) = a[Parts] BY <2>6, <2>7 DEF DecodeMsop
  <2>9. \A i \in 0..Parts : a[i] = IF i = 0 THEN x ELSE RSM1JumboPart(q, a[i - 1], m.parts[i])
    BY <2>6, Zenon DEF PartsRun
  <2>10. ASSUME NEW i \in 1..Parts, a[i - 1] \in Frame
         PROVE  /\ a[i] = IF bad /\ i = 1 THEN a[i - 1] ELSE Add(a[i - 1], k * Unit + i - 1, Piece(m, i))
                /\ a[i] \in Frame
    <3>1. i \in 0..Parts /\ i # 0 /\ i \in 1..Unit BY <2>1
    <3>2. a[i] = RSM1JumboPart(q, a[i - 1], m.parts[i]) BY <2>9, <3>1, Zenon
    <3>3. Piece(m, i) = m.parts[i] BY <1>3, Zenon DEF Piece
    <3>4. k * Unit + i - 1 \in Nat /\ PacketOf(Piece(m, i), k * Unit + i - 1) /\ Piece(m, i).bad = (bad /\ i = 1)
      BY <1>1, <3>1, Pieces
    <3>5. PICK l, p : l \in Nat /\ l = k * Unit + i - 1 /\ p = m.parts[i] /\ PacketOf(p, l) /\ p.bad = (bad /\ i = 1)
      BY <3>3, <3>4
    <3>6. PICK y \in Frame : y = a[i - 1] BY <2>10
    <3>7. RSM1JumboPart(q, y, p) = IF p.bad THEN y ELSE Add(y, l, p) BY <1>3, <3>5, PartIs
    <3>8. Add(y, l, p) \in Frame BY <3>5, AddTyped
    <3> QED BY <3>2, <3>3, <3>5, <3>6, <3>7, <3>8, Zenon
  <2>11. a[0] = x
    <3>1. 0 \in 0..Parts BY <2>1
    <3> QED BY <2>9, <3>1, Zenon
  <2>12. \A i \in 0..Parts : a[i] \in Frame
    <3> DEFINE T == {i \in Nat : i <= Parts => a[i] \in Frame}
    <3>1. 0 \in T BY <2>11
    <3>2. ASSUME NEW i \in Nat, i \in T PROVE i + 1 \in T
      <4> SUFFICES ASSUME i + 1 <= Parts PROVE a[i + 1] \in Frame OBVIOUS
      <4>1. i + 1 \in 1..Parts /\ i + 1 - 1 = i /\ i <= Parts BY <2>1
      <4>2. a[i + 1 - 1] \in Frame BY <3>2, <4>1
      <4> QED BY <2>10, <4>1, <4>2
    <3>3. Nat \subseteq T
      <4> HIDE DEF T
      <4> QED BY <3>1, <3>2, Induction
    <3> QED BY <2>1, <3>3
  <2>13. \A i \in 1..Parts : a[i] = IF bad /\ i = 1 THEN a[i - 1] ELSE Add(a[i - 1], k * Unit + i - 1, Piece(m, i))
    <3> TAKE i \in 1..Parts
    <3>1. i - 1 \in 0..Parts BY <2>1
    <3> QED BY <2>10, <2>12, <3>1
  <2>14. Pieced(a, x, k, m, bad) BY <2>1, <2>11, <2>12, <2>13, Zenon DEF Pieced
  <2> QED BY <1>1, <2>1, <2>8, <2>14, Zenon
<1> QED BY <1>2, <1>3

\* The frame before a packet is decoded: without a cloud that became too large.
Cleared(g) ==
  /\ g \in Frame /\ g.sp = f.sp /\ g.out = f.out /\ g.first = f.first /\ g.prev = f.prev /\ g.ret = FALSE
  /\ g.cloud = f.cloud \/ g.cloud = <<>>
  /\ Dropped = {} => g.cloud = f.cloud
  /\ Dropped \subseteq {"overflow"}

LEMMA DropTyped ==
  ASSUME f \in Frame
  PROVE  Cleared([DropOverflow(f) EXCEPT !.ret = FALSE])
<1>1. f = [sp |-> f.sp, cloud |-> f.cloud, first |-> f.first, prev |-> f.prev, out |-> f.out, ret |-> f.ret]
  BY DEF Frame
<1>2. PICK c : (c = f.cloud \/ c = <<>>)
               /\ DropOverflow(f) = [sp |-> f.sp, cloud |-> c, first |-> f.first, prev |-> f.prev, out |-> f.out,
                                     ret |-> f.ret]
  <2>1. CASE CloudPoints(f.cloud) > CloudPointMax
    <3>1. DropOverflow(f) = [f EXCEPT !.cloud = <<>>] BY <2>1 DEF DropOverflow
    <3>2. [f EXCEPT !.cloud = <<>>] = [sp |-> f.sp, cloud |-> <<>>, first |-> f.first, prev |-> f.prev,
                                       out |-> f.out, ret |-> f.ret]
      BY <1>1
    <3> QED BY <3>1, <3>2, Zenon
  <2>2. CASE ~(CloudPoints(f.cloud) > CloudPointMax)
    <3>1. DropOverflow(f) = f BY <2>2 DEF DropOverflow
    <3> QED BY <1>1, <3>1, Zenon
  <2> QED BY <2>1, <2>2
<1>3. PICK z : z = DropOverflow(f) OBVIOUS
<1>4. PICK g : g = [z EXCEPT !.ret = FALSE] OBVIOUS
<1>5. g = [sp |-> f.sp, cloud |-> c, first |-> f.first, prev |-> f.prev, out |-> f.out, ret |-> FALSE]
  <2>1. z = [sp |-> f.sp, cloud |-> c, first |-> f.first, prev |-> f.prev, out |-> f.out, ret |-> f.ret]
    BY <1>2, <1>3, Zenon
  <2>2. PICK b : b = FALSE OBVIOUS
  <2>3. [z EXCEPT !.ret = b] = [sp |-> f.sp, cloud |-> c, first |-> f.first, prev |-> f.prev, out |-> f.out, ret |-> b]
    BY <2>1
  <2> QED BY <1>4, <2>2, <2>3, Zenon
<1>6. g \in Frame
  <2>1. <<>> \in Seq(Blk) OBVIOUS
  <2> QED BY <1>2, <1>5, <2>1 DEF Frame
<1>7. Dropped = {} => c = f.cloud
  <2>1. Dropped = {} => z = f BY <1>3, Zenon DEF Dropped
  <2>2. z.cloud = c BY <1>2, <1>3
  <2> QED BY <2>1, <2>2, Zenon
<1>8. Dropped \subseteq {"overflow"} BY DEF Dropped
<1>9. g.sp = f.sp /\ g.cloud = c /\ g.first = f.first /\ g.prev = f.prev /\ g.out = f.out /\ g.ret = FALSE
  BY <1>5
<1>10. Cleared(g) BY <1>2, <1>6, <1>7, <1>8, <1>9, Zenon DEF Cleared
<1> QED BY <1>3, <1>4, <1>10, Zenon

-----------------------------------------------------------------------------
(* Types, and the rings of the points *)

MemsInv == LidarInv /\ f \in Frame /\ pre \in Strategy

\* The lidar stays what it is.
Same == lidar' = lidar /\ q' = q /\ mode' = mode

LEMMA Fixed ==
  ASSUME Same
  PROVE  /\ Const' = Const /\ Jumbo' = Jumbo /\ Unit' = Unit /\ Frame' = Frame /\ Blk' = Blk
         /\ \A k : Num(k)' = Num(k) /\ LastNumber(k)' = LastNumber(k)
         /\ \A k, b : TimeOf(k, b)' = TimeOf(k, b)
<1>1. Const' = Const BY DEF Same, Const
<1>2. Jumbo' = Jumbo BY DEF Same, Jumbo
<1>3. Unit' = Unit BY <1>2, Zenon DEF Unit
<1>4. Span' = Span BY <1>1, Zenon DEF Span
<1>5. \A k, b : TimeOf(k, b)' = TimeOf(k, b) BY <1>1, <1>4, Zenon DEF TimeOf
<1>6. \A k, b : Measured(k, b)' = Measured(k, b)
  <2> TAKE k, b
  <2> QED BY <1>1 DEF Same, Measured
<1>7. \A k : Num(k)' = Num(k) BY DEF Same, Num
<1>8. \A k : LastNumber(k)' = LastNumber(k) BY <1>2, Zenon DEF LastNumber
<1>9. Blk' = Blk
  <2>1. ASSUME NEW z PROVE z \in Blk' <=> z \in Blk
    <3>1. Measured(z.at, z.block)' = Measured(z.at, z.block) /\ TimeOf(z.at, z.block)' = TimeOf(z.at, z.block)
      BY <1>5, <1>6
    <3> QED BY <1>1, <3>1, Zenon DEF Blk
  <2> QED BY <2>1
<1>10. HandedOut' = HandedOut BY <1>9, Zenon DEF HandedOut
<1>11. Frame' = Frame BY <1>9, <1>10, Zenon DEF Frame, Strategy
<1> QED BY <1>1, <1>2, <1>3, <1>5, <1>7, <1>8, <1>9, <1>11

LEMMA TypedStart ==
  ASSUME Init
  PROVE  MemsInv
<1>1. LidarInv
  <2>1. sent \in Nat /\ (\E s \in Setups : q = s.q /\ mode = s.mode) BY CloudsAssumption DEF Init
  <2>2. d \in [echo : {"SINGLE", "DUAL"}, ready : BOOLEAN] /\ (lidar # "RSEMX" => d.ready)
    BY DEF Init, NewMems
  <2> QED BY <2>1, <2>2 DEF Init, LidarInv
<1>2. NewStrategy \in Strategy
  <2>1. 0 \in 0..N BY Numbers
  <2> QED BY <2>1 DEF NewStrategy, Strategy
<1>3. f \in Frame
  <2>1. f = [sp |-> NewStrategy, cloud |-> <<>>, first |-> 0, prev |-> 0, out |-> <<>>, ret |-> FALSE] BY DEF Init
  <2>2. <<>> \in Seq(Blk) /\ <<>> \in Seq(HandedOut) OBVIOUS
  <2>3. PICK z : z = NewStrategy OBVIOUS
  <2> QED BY <1>2, <2>1, <2>2, <2>3 DEF Frame
<1>4. pre = NewStrategy BY DEF Init
<1> QED BY <1>1, <1>2, <1>3, <1>4 DEF MemsInv

\* Packet or datagram k was decoded, or not as long as the decoder waits.
Took(k, hit, bad, late, g) ==
  /\ Cleared(g)
  /\ f' = IF q.wait /\ ~d.ready THEN g ELSE DecodeMsop(g, Msop(k, hit, bad, late))

LEMMA TookTyped ==
  ASSUME MemsInv, NEW k \in Nat, NEW hit \in BOOLEAN, NEW bad \in BOOLEAN, NEW late \in BOOLEAN,
         bad => lidar \in {"RSEMX", "RSM1_JUMBO"}, Process(Msop(k, hit, bad, late))
  PROVE  \E g \in Frame : Took(k, hit, bad, late, g) /\ f' \in Frame
<1>1. LidarInv /\ f \in Frame BY DEF MemsInv
<1>2. PICK g : g = [DropOverflow(f) EXCEPT !.ret = FALSE] OBVIOUS
<1>3. Cleared(g) BY <1>1, <1>2, DropTyped, Zenon
<1>4. f' = IF q.wait /\ ~d.ready THEN g ELSE DecodeMsop(g, Msop(k, hit, bad, late))
  BY <1>2, Zenon DEF Process
<1>5. g \in Frame BY <1>3 DEF Cleared
<1>6. DecodeMsop(g, Msop(k, hit, bad, late)) \in Frame
  <2>1. PICK a : Pieced(a, g, k, Msop(k, hit, bad, late), bad) /\ DecodeMsop(g, Msop(k, hit, bad, late)) = a[Unit]
    BY <1>1, <1>5, DecodeRun
  <2>2. Unit \in 0..Unit BY UnitIs
  <2> QED BY <2>1, <2>2, Zenon DEF Pieced
<1> QED BY <1>3, <1>4, <1>5, <1>6, Zenon DEF Took

\* What a packet changes besides the frame.
Paced(p) ==
  /\ Pace(p) /\ pkts' = pkts + 1 /\ splits' = splits + (IF f'.ret THEN 1 ELSE 0)
  /\ taken' = taken + Taken(p) /\ d' = d /\ Same

LEMMA TakenIs ==
  ASSUME LidarInv, NEW k \in Nat, NEW hit \in BOOLEAN, NEW bad \in BOOLEAN, NEW late \in BOOLEAN,
         bad => lidar \in {"RSEMX", "RSM1_JUMBO"}
  PROVE  Taken(Msop(k, hit, bad, late))
           = IF q.wait /\ ~d.ready THEN 0 ELSE IF bad THEN Unit - 1 ELSE Unit
<1>1. PICK m : m = Msop(k, hit, bad, late) OBVIOUS
<1>2. CASE q.wait /\ ~d.ready BY <1>2 DEF Taken
<1>3. CASE ~(q.wait /\ ~d.ready) /\ Jumbo
  <2>1. Unit = Parts /\ Parts \in Nat \ {0} BY <1>3, UnitIs
  <2>2. \A i \in 1..Parts : m.parts[i].bad = (bad /\ i = 1)
    <3> TAKE i \in 1..Parts
    <3>1. Piece(m, i) = m.parts[i] BY <1>3, Zenon DEF Piece
    <3>2. Piece(m, i).bad = (bad /\ i = 1) BY <1>1, <2>1, Pieces
    <3> QED BY <3>1, <3>2, Zenon
  <2>3. {i \in 1..Parts : ~m.parts[i].bad} = {i \in 1..Parts : ~(bad /\ i = 1)} BY <2>2, Zenon
  <2>4. Taken(m) = Cardinality({i \in 1..Parts : ~(bad /\ i = 1)}) BY <1>3, <2>3, Zenon DEF Taken
  <2>5. CASE bad
    <3>1. {i \in 1..Parts : ~(bad /\ i = 1)} = 2..Parts BY <2>1, <2>5
    <3>2. Cardinality(2..Parts) = Parts - 1 BY <2>1, FS_Interval
    <3> QED BY <1>1, <1>3, <2>1, <2>4, <2>5, <3>1, <3>2, Zenon
  <2>6. CASE ~bad
    <3>1. {i \in 1..Parts : ~(bad /\ i = 1)} = 1..Parts BY <2>6
    <3>2. Cardinality(1..Parts) = Parts BY <2>1, FS_Interval
    <3> QED BY <1>1, <1>3, <2>1, <2>4, <2>6, <3>1, <3>2, Zenon
  <2> QED BY <2>5, <2>6
<1>4. CASE ~(q.wait /\ ~d.ready) /\ ~Jumbo
  <2>1. Unit = 1 /\ Unit - 1 = 0 BY <1>4, UnitIs
  <2>2. Taken(m) = IF lidar = "RSEMX" /\ m.surface = 2 THEN 0 ELSE 1 BY <1>4, Zenon DEF Taken
  <2>3. Piece(m, 1) = m BY <1>4, Zenon DEF Piece
  <2>4. 1 \in 1..Unit BY <2>1
  <2>5. PICK l \in Nat : PacketOf(m, l) /\ m.bad = (bad /\ 1 = 1) BY <1>1, <2>3, <2>4, Pieces
  <2>6. m.surface = 2 <=> bad
    <3>1. l % 2 \in {0, 1} BY Parity
    <3>2. m.surface = (IF m.bad THEN 2 ELSE l % 2) BY <2>5 DEF PacketOf
    <3> QED BY <2>5, <3>1, <3>2
  <2>7. bad => lidar = "RSEMX" BY <1>4 DEF Jumbo
  <2> QED BY <1>1, <1>4, <2>1, <2>2, <2>6, <2>7, Zenon
<1> QED BY <1>1, <1>2, <1>3, <1>4

LEMMA PacedTyped ==
  ASSUME MemsInv, NEW k \in Nat, NEW hit \in BOOLEAN, NEW bad \in BOOLEAN, NEW late \in BOOLEAN,
         bad => lidar \in {"RSEMX", "RSM1_JUMBO"}, Paced(Msop(k, hit, bad, late))
  PROVE  pre' \in Strategy /\ pkts' \in Nat /\ splits' \in Nat /\ taken' \in Nat /\ paced' \in Nat
<1>1. LidarInv /\ pre \in Strategy BY DEF MemsInv
<1>2. pkts \in Nat /\ splits \in Nat /\ taken \in Nat /\ paced \in Nat BY <1>1 DEF LidarInv
<1>3. PICK t \in Nat : t = Taken(Msop(k, hit, bad, late))
  <2>1. Unit \in Nat \ {0} BY UnitIs
  <2> QED BY <1>1, <2>1, TakenIs
<1>4. pkts' \in Nat /\ taken' \in Nat BY <1>2, <1>3 DEF Paced
<1>5. splits' \in Nat
  <2>1. PICK c \in {0, 1} : c = IF f'.ret THEN 1 ELSE 0
    <3>1. (IF f'.ret THEN 1 ELSE 0) \in {0, 1} OBVIOUS
    <3> QED BY <3>1
  <2>2. splits' = splits + c BY <2>1, Zenon DEF Paced
  <2> QED BY <1>2, <2>1, <2>2
<1>6. pre' \in Strategy /\ paced' \in Nat
  <2>1. CASE Jumbo
    <3>1. pre' = pre /\ paced' = paced BY <2>1, Zenon DEF Paced, Pace
    <3> QED BY <1>1, <1>2, <3>1
  <2>2. CASE ~Jumbo
    <3>1. PICK m : m = Msop(k, hit, bad, late) OBVIOUS
    <3>2. PICK s : s = BySeq(pre, m.seq) OBVIOUS
    <3>3. pre' = s.sp /\ paced' = paced + (IF s.split THEN 1 ELSE 0)
      BY <2>2, <3>1, <3>2, Zenon DEF Paced, Pace, IsNewFrameCommon
    <3>4. m.seq \in 0..N
      <4>1. 1 \in 1..Unit BY UnitIs
      <4>2. Piece(m, 1) = m BY <2>2, Zenon DEF Piece
      <4>3. PICK l \in Nat : PacketOf(m, l) BY <3>1, <4>1, <4>2, Pieces
      <4>4. l % N \in 0..(N - 1) /\ N \in Nat BY Numbers, Divided
      <4> QED BY <4>3, <4>4 DEF PacketOf
    <3>5. s.sp \in Strategy BY <1>1, <3>2, <3>4, BySeqIs
    <3>6. PICK c \in {0, 1} : c = IF s.split THEN 1 ELSE 0
      <4>1. (IF s.split THEN 1 ELSE 0) \in {0, 1} OBVIOUS
      <4> QED BY <4>1
    <3>7. paced' = paced + c BY <3>3, <3>6, Zenon
    <3> QED BY <1>2, <3>3, <3>5, <3>6, <3>7
  <2> QED BY <2>1, <2>2
<1> QED BY <1>4, <1>5, <1>6

\* What RecvMsop and RecvLate do.
Came(skip, hit, bad, comes, g) ==
  /\ bad => lidar \in {"RSEMX", "RSM1_JUMBO"}
  /\ comes => skip = 1
  /\ Took(sent + skip, hit, bad, FALSE, g) /\ Paced(Msop(sent + skip, hit, bad, FALSE))
  /\ sent' = sent + skip + 1 /\ held' = IF comes THEN {sent} ELSE {}
  /\ faults' = faults + skip + (IF bad THEN 1 ELSE 0) + (IF hit THEN 0 ELSE 1)
  /\ upset' = IF \E k \in (held \cup (sent..(sent + skip - 1))) \ held' : LastNumber(k)
              THEN upset \cup Dropped \cup {"lost"} ELSE upset \cup Dropped

CameLate(k, g) ==
  /\ k \in held /\ k + 2 = sent
  /\ Took(k, TRUE, FALSE, TRUE, g) /\ Paced(Msop(k, TRUE, FALSE, TRUE))
  /\ sent' = sent /\ held' = {} /\ faults' = faults
  /\ upset' = upset \cup Dropped \cup {"late"}

LEMMA MsopStep ==
  ASSUME MemsInv, RecvMsop
  PROVE  /\ \E skip \in 0..1, hit \in BOOLEAN, bad \in BOOLEAN, comes \in BOOLEAN, g \in Frame :
              Came(skip, hit, bad, comes, g)
         /\ MemsInv' /\ Same
<1>1. PICK skip \in 0..1, hit \in BOOLEAN, bad \in BOOLEAN, comes \in BOOLEAN :
        /\ bad => lidar \in {"RSEMX", "RSM1_JUMBO"}
        /\ comes => skip = 1
        /\ Receive(Msop(sent + skip, hit, bad, FALSE), skip + (IF bad THEN 1 ELSE 0) + (IF hit THEN 0 ELSE 1))
        /\ sent' = sent + skip + 1 /\ held' = IF comes THEN {sent} ELSE {}
        /\ upset' = IF \E k \in (held \cup (sent..(sent + skip - 1))) \ held' : LastNumber(k)
                    THEN upset \cup Dropped \cup {"lost"} ELSE upset \cup Dropped
  BY Zenon DEF RecvMsop
<1>2. LidarInv /\ sent \in Nat /\ faults \in Nat BY DEF MemsInv, LidarInv
<1>3. PICK k \in Nat : k = sent + skip BY <1>2
<1>4. PICK n \in Nat : n = skip + (IF bad THEN 1 ELSE 0) + (IF hit THEN 0 ELSE 1)
  <2>1. skip + (IF bad THEN 1 ELSE 0) + (IF hit THEN 0 ELSE 1) \in Nat OBVIOUS
  <2> QED BY <2>1
<1>5. Receive(Msop(k, hit, bad, FALSE), n) BY <1>1, <1>3, <1>4, Zenon
<1>6. Process(Msop(k, hit, bad, FALSE)) /\ faults' = faults + n BY <1>5, Zenon DEF Receive
<1>7. Same /\ Paced(Msop(k, hit, bad, FALSE)) BY <1>5, Zenon DEF Receive, Same, Paced
<1>8. PICK g \in Frame : Took(k, hit, bad, FALSE, g) /\ f' \in Frame
  <2>1. PICK c \in BOOLEAN : c = FALSE OBVIOUS
  <2>2. \E g \in Frame : Took(k, hit, bad, c, g) /\ f' \in Frame
    <3>1. Process(Msop(k, hit, bad, c)) BY <1>6, <2>1, Zenon
    <3> QED BY <1>1, <3>1, TookTyped
  <2> QED BY <2>1, <2>2, Zenon
<1>9. pre' \in Strategy /\ pkts' \in Nat /\ splits' \in Nat /\ taken' \in Nat /\ paced' \in Nat
  <2>1. PICK c \in BOOLEAN : c = FALSE OBVIOUS
  <2>2. Paced(Msop(k, hit, bad, c)) BY <1>7, <2>1, Zenon
  <2> QED BY <1>1, <2>2, PacedTyped
<1>10. faults' = faults + skip + (IF bad THEN 1 ELSE 0) + (IF hit THEN 0 ELSE 1)
  BY <1>2, <1>4, <1>6
<1>11. Came(skip, hit, bad, comes, g) BY <1>1, <1>3, <1>7, <1>8, <1>10, Zenon DEF Came
<1>12. sent' \in Nat /\ faults' \in Nat /\ held' \subseteq {l \in Nat : l + 2 = sent'}
  <2>1. comes => sent + 2 = sent' BY <1>1, <1>2
  <2>2. sent' \in Nat /\ faults' \in Nat BY <1>1, <1>2, <1>6
  <2> QED BY <1>1, <1>2, <2>1, <2>2
<1>13. LidarInv'
  <2>1. d' = d BY <1>7 DEF Paced
  <2> QED BY <1>2, <1>7, <1>9, <1>12, <2>1 DEF LidarInv, Same
<1>14. f' \in Frame' /\ pre' \in Strategy'
  <2>1. Strategy' = Strategy BY Zenon DEF Strategy
  <2> QED BY <1>7, <1>8, <1>9, <2>1, Fixed
<1> QED BY <1>7, <1>11, <1>13, <1>14 DEF MemsInv

LEMMA LateStep ==
  ASSUME MemsInv, RecvLate
  PROVE  /\ \E k \in Nat, g \in Frame : CameLate(k, g)
         /\ MemsInv' /\ Same
<1>1. PICK k \in held : Receive(Msop(k, TRUE, FALSE, TRUE), 0) BY DEF RecvLate
<1>2. held' = {} /\ upset' = upset \cup Dropped \cup {"late"} /\ sent' = sent BY DEF RecvLate
<1>3. LidarInv /\ sent \in Nat /\ faults \in Nat /\ k \in Nat /\ k + 2 = sent BY DEF MemsInv, LidarInv
<1>4. Process(Msop(k, TRUE, FALSE, TRUE)) /\ faults' = faults + 0 BY <1>1, Zenon DEF Receive
<1>5. Same /\ Paced(Msop(k, TRUE, FALSE, TRUE)) BY <1>1, Zenon DEF Receive, Same, Paced
<1>6. PICK c \in BOOLEAN, e \in BOOLEAN : c = FALSE /\ e = TRUE OBVIOUS
<1>7. PICK g \in Frame : Took(k, TRUE, FALSE, TRUE, g) /\ f' \in Frame
  <2>1. \E g \in Frame : Took(k, e, c, e, g) /\ f' \in Frame
    <3>1. Process(Msop(k, e, c, e)) BY <1>4, <1>6, Zenon
    <3> QED BY <1>3, <1>6, <3>1, TookTyped
  <2> QED BY <1>6, <2>1, Zenon
<1>8. pre' \in Strategy /\ pkts' \in Nat /\ splits' \in Nat /\ taken' \in Nat /\ paced' \in Nat
  <2>1. Paced(Msop(k, e, c, e)) BY <1>5, <1>6, Zenon
  <2> QED BY <1>3, <1>6, <2>1, PacedTyped
<1>9. faults' = faults BY <1>3, <1>4
<1>10. CameLate(k, g) BY <1>2, <1>3, <1>5, <1>7, <1>9, Zenon DEF CameLate
<1>11. LidarInv'
  <2>1. d' = d BY <1>5 DEF Paced
  <2>2. held' \subseteq {l \in Nat : l + 2 = sent'} BY <1>2
  <2> QED BY <1>2, <1>3, <1>5, <1>8, <1>9, <2>1, <2>2 DEF LidarInv, Same
<1>12. f' \in Frame' /\ pre' \in Strategy'
  <2>1. Strategy' = Strategy BY Zenon DEF Strategy
  <2> QED BY <1>5, <1>7, <1>8, <2>1, Fixed
<1> QED BY <1>3, <1>5, <1>10, <1>11, <1>12 DEF MemsInv

LEMMA DifopStep ==
  ASSUME MemsInv, RecvDifop
  PROVE  /\ MemsInv' /\ Same /\ f' = f /\ (d.ready => d'.ready) /\ (lidar # "RSEMX" => d'.ready)
         /\ UNCHANGED <<sent, held, pkts, pre, paced, splits, taken, upset, faults>>
<1>1. PICK known \in BOOLEAN : d' = DecodeDifop([mode |-> mode, known |-> known]) BY DEF RecvDifop
<1>2. /\ Same /\ f' = f /\ sent' = sent /\ held' = held /\ pkts' = pkts /\ pre' = pre /\ paced' = paced
      /\ splits' = splits /\ taken' = taken /\ upset' = upset /\ faults' = faults
  BY DEF RecvDifop, Same
<1>3. LidarInv /\ f \in Frame /\ pre \in Strategy /\ lidar \in MemsNames /\ mode \in Nat BY Configured DEF MemsInv
<1>4. PICK e \in {"SINGLE", "DUAL"}, r \in BOOLEAN : d = [echo |-> e, ready |-> r] BY <1>3 DEF LidarInv
<1>5. PICK p : p = [mode |-> mode, known |-> known] OBVIOUS
<1>6. \E e1 \in {"SINGLE", "DUAL"}, r1 \in BOOLEAN : d' = [echo |-> e1, ready |-> r1] /\ (r => r1)
  <2>1. CASE lidar \in {"RSM1", "RSM2", "RSM1_JUMBO"}
    <3>1. PICK e1 \in {"SINGLE", "DUAL"} : e1 = IF p.mode = 0 THEN "DUAL" ELSE "SINGLE" OBVIOUS
    <3>2. DecodeDifop(p) = [d EXCEPT !.echo = e1]
      BY <2>1, <3>1 DEF DecodeDifop, RSM1Difop, RSM2Difop, RSM1JumboDifop, RSM1Echo, RSM2Echo, RSM1JumboEcho
    <3>3. [d EXCEPT !.echo = e1] = [echo |-> e1, ready |-> r] BY <1>4
    <3> QED BY <1>1, <1>5, <3>2, <3>3, Zenon
  <2>2. CASE lidar \in {"RSM3", "RSMX", "RSE1"}
    <3>1. DecodeDifop(p) = d BY <2>2 DEF DecodeDifop, RSM3Difop, RSMXDifop, RSE1Difop
    <3> QED BY <1>1, <1>4, <1>5, <3>1, Zenon
  <2>3. CASE lidar = "RSEMX"
    <3>1. DecodeDifop(p) = [d EXCEPT !.ready = @ \/ p.known] BY <2>3 DEF DecodeDifop, RSEMXDifop
    <3>2. PICK r1 \in BOOLEAN : r1 = (r \/ known) OBVIOUS
    <3>3. d.ready = r /\ p.known = known BY <1>4, <1>5
    <3>4. DecodeDifop(p) = [d EXCEPT !.ready = r1] BY <3>1, <3>2, <3>3, Zenon
    <3>5. [d EXCEPT !.ready = r1] = [echo |-> e, ready |-> r1] BY <1>4
    <3> QED BY <1>1, <1>5, <3>2, <3>4, <3>5, Zenon
  <2> QED BY <1>3, <2>1, <2>2, <2>3 DEF MemsNames
<1>7. PICK e1 \in {"SINGLE", "DUAL"}, r1 \in BOOLEAN : d' = [echo |-> e1, ready |-> r1] /\ (r => r1) BY <1>6
<1>8. d.ready = r /\ d'.ready = r1 /\ d' \in [echo : {"SINGLE", "DUAL"}, ready : BOOLEAN] BY <1>4, <1>7
<1>9. lidar # "RSEMX" => d'.ready BY <1>3, <1>7, <1>8 DEF LidarInv
<1>10. LidarInv' BY <1>2, <1>3, <1>8, <1>9 DEF LidarInv, Same
<1>11. f' \in Frame' /\ pre' \in Strategy'
  <2>1. Strategy' = Strategy BY Zenon DEF Strategy
  <2> QED BY <1>2, <1>3, <2>1, Fixed
<1> QED BY <1>2, <1>7, <1>8, <1>9, <1>10, <1>11 DEF MemsInv

LEMMA Stutter ==
  ASSUME MemsInv, UNCHANGED vars
  PROVE  /\ MemsInv' /\ Same /\ f' = f /\ d' = d
         /\ UNCHANGED <<sent, held, pkts, pre, paced, splits, taken, upset, faults>>
<1>1. /\ Same /\ f' = f /\ sent' = sent /\ held' = held /\ pkts' = pkts /\ pre' = pre /\ paced' = paced
      /\ splits' = splits /\ taken' = taken /\ upset' = upset /\ faults' = faults /\ d' = d
  BY DEF vars, Same
<1>2. LidarInv' BY <1>1 DEF MemsInv, LidarInv, Same
<1>3. f' \in Frame' /\ pre' \in Strategy'
  <2>1. Strategy' = Strategy BY Zenon DEF Strategy
  <2> QED BY <1>1, <2>1, Fixed DEF MemsInv
<1> QED BY <1>1, <1>2, <1>3 DEF MemsInv

LEMMA CloudsAre ==
  ASSUME MemsInv
  PROVE  /\ f.out \in Seq(HandedOut) /\ Len(f.out) \in Nat /\ DOMAIN f.out = 1..Len(f.out)
         /\ DOMAIN Clouds = 1..(Len(f.out) + 1) /\ f.cloud \in Seq(Blk)
         /\ \A i \in 1..Len(f.out) : Clouds[i] = f.out[i].blocks /\ f.out[i].blocks \in Seq(Blk) \ {<<>>}
         /\ Clouds[Len(f.out) + 1] = f.cloud
<1>1. f.out \in Seq(HandedOut) /\ f.cloud \in Seq(Blk) BY DEF MemsInv, Frame
<1>2. PICK o \in Seq(HandedOut), c \in Seq(Blk) : o = f.out /\ c = f.cloud BY <1>1
<1>3. \A h \in HandedOut : h.blocks \in Seq(Blk) \ {<<>>} BY DEF HandedOut
<1>4. Len(o) \in Nat /\ DOMAIN o = 1..Len(o) /\ \A i \in 1..Len(o) : o[i] \in HandedOut OBVIOUS
<1>5. \A i \in 1..Len(o) : o[i].blocks \in Seq(Blk) \ {<<>>} BY <1>3, <1>4, Zenon
<1>6. Clouds = [i \in 1..Len(o) |-> o[i].blocks] \o <<c>> BY <1>2, <1>4, Zenon DEF Clouds
<1>7. PICK n \in Nat : n = Len(o) BY <1>4
<1>8. PICK s : s = [i \in 1..n |-> o[i].blocks] OBVIOUS
<1>9. s \in Seq(Seq(Blk)) /\ Len(s) = n /\ \A i \in 1..n : s[i] = o[i].blocks BY <1>5, <1>7, <1>8
<1>10. DOMAIN (s \o <<c>>) = 1..(n + 1) /\ (s \o <<c>>)[n + 1] = c /\ \A i \in 1..n : (s \o <<c>>)[i] = s[i]
  BY <1>9
<1> QED BY <1>1, <1>2, <1>4, <1>5, <1>6, <1>7, <1>8, <1>9, <1>10

LEMMA BlocksAre ==
  ASSUME MemsInv, NEW i \in DOMAIN Clouds, NEW b \in BlocksOf(Clouds[i])
  PROVE  b \in Blk
<1>1. Clouds[i] \in Seq(Blk) BY CloudsAre
<1>2. PICK a \in DOMAIN Clouds[i] : b = Clouds[i][a] BY Zenon DEF BlocksOf
<1>3. PICK c \in Seq(Blk) : c = Clouds[i] BY <1>1
<1>4. \A j \in DOMAIN c : c[j] \in Blk OBVIOUS
<1> QED BY <1>2, <1>3, <1>4, Zenon

LEMMA MemsTyped == Spec => []MemsInv
<1>1. Init => MemsInv BY TypedStart
<1>2. MemsInv /\ [Next]_vars => MemsInv'
  BY DifopStep, MsopStep, LateStep, Stutter DEF Next
<1> QED BY <1>1, <1>2, PTL DEF Spec

\* What the decoder keeps has its type, and a cloud that is handed out has points (no
\* point is taken from a packet before the decoder is ready, and a cloud without points
\* is not handed out).
THEOREM CloudsTyped == Spec => []TypeOK
<1>1. MemsInv => TypeOK
  <2> SUFFICES ASSUME MemsInv PROVE TypeOK OBVIOUS
  <2>1. f.sp.prev \in 0..N /\ f.sp.max \in 0..N /\ f.sp.looped \in BOOLEAN
    <3>1. f.sp \in Strategy BY DEF MemsInv, Frame
    <3> QED BY <3>1 DEF Strategy
  <2>2. d \in [echo : {"SINGLE", "DUAL"}, ready : BOOLEAN] BY DEF MemsInv, LidarInv
  <2>3. \A i \in DOMAIN f.out : f.out[i].blocks # <<>>
    <3> TAKE i \in DOMAIN f.out
    <3>1. i \in 1..Len(f.out) BY CloudsAre
    <3>2. f.out[i].blocks \in Seq(Blk) \ {<<>>} BY <3>1, CloudsAre
    <3> QED BY <3>2
  <2>4. \A i \in DOMAIN Clouds : \A b \in BlocksOf(Clouds[i]) : b.n = Len(b.rings) /\ b.n > 0
    <3> TAKE i \in DOMAIN Clouds
    <3> TAKE b \in BlocksOf(Clouds[i])
    <3>1. b \in Blk BY BlocksAre
    <3>2. b.n \in Nat \ {0} /\ b.n = Len(b.rings) BY <3>1 DEF Blk
    <3> QED BY <3>2
  <2> QED BY <2>1, <2>2, <2>3, <2>4 DEF TypeOK
<1> QED BY <1>1, MemsTyped, PTL

\* Every point has the ring of the channel or pixel that measured it, for each lidar and
\* return mode, whatever was lost or came late: also when two packets bring one column or
\* one packet two returns, as with RSEMX.
THEOREM PixelsRight == Spec => []PixelsInPlace
<1>1. MemsInv => PixelsInPlace
  <2> SUFFICES ASSUME MemsInv, NEW i \in DOMAIN Clouds, NEW b \in BlocksOf(Clouds[i])
               PROVE  b.rings = Measured(b.at, b.block)
    BY Zenon DEF PixelsInPlace
  <2>1. b \in Blk BY BlocksAre
  <2> QED BY <2>1, Zenon DEF Blk
<1> QED BY <1>1, MemsTyped, PTL

-----------------------------------------------------------------------------
(* Every packet's points are in one cloud *)

\* The clouds, the built one the last, with the packets they have points of: of all, of
\* those that came in order or of those that came late.
Of(b, k, S) == b.at = k /\ b.late \in S
Has(c, k, S) == \E a \in DOMAIN c : Of(c[a], k, S)
Places(c, o, S) ==
  {p \in Nat \X Nat : \/ p[1] \in 1..Len(o) /\ Has(o[p[1]].blocks, p[2], S)
                      \/ p[1] = Len(o) + 1 /\ Has(c, p[2], S)}

\* No cloud has a point of packet k.
Absent(c, o, k) == \A i \in Nat : <<i, k>> \notin Places(c, o, BOOLEAN)

LEMMA HandPlaces ==
  ASSUME NEW x \in Frame, NEW S
  PROVE  Places(<<>>, Handed(x), S) = Places(x.cloud, x.out, S)
<1>1. PICK o \in Seq(HandedOut), c \in Seq(Blk) : o = x.out /\ c = x.cloud BY DEF Frame
<1>2. PICK n \in Nat : n = Len(o) /\ DOMAIN o = 1..n OBVIOUS
<1>3. CASE c = <<>> BY <1>1, <1>3, Zenon DEF Handed
<1>4. CASE c # <<>>
  <2>1. PICK e : e = [stamp |-> CloudTs(q, x), height |-> IF q.dense THEN 1 ELSE Const.lasers, blocks |-> c] OBVIOUS
  <2>2. Handed(x) = Append(o, e) /\ e.blocks = c
    <3>1. Handed(x) = Append(o, e) BY <1>1, <1>4, <2>1, Zenon DEF Handed
    <3> QED BY <2>1, <3>1
  <2>3. PICK s : s = Append(o, e) OBVIOUS
  <2>4. Len(s) = n + 1 /\ s[n + 1] = e /\ \A i \in 1..n : s[i] = o[i] BY <1>2, <2>3
  <2>5. ASSUME NEW p \in Nat \X Nat PROVE p \in Places(<<>>, s, S) <=> p \in Places(c, o, S)
    <3>1. PICK i \in Nat, k \in Nat : p[1] = i /\ p[2] = k OBVIOUS
    <3>2. p \in Places(<<>>, s, S)
            <=> \/ i \in 1..(n + 1) /\ Has(s[i].blocks, k, S)
                \/ i = n + 2 /\ Has(<<>>, k, S)
      <4>1. Len(s) = n + 1 /\ n + 1 + 1 = n + 2 BY <1>2, <2>4
      <4> QED BY <3>1, <4>1, Zenon DEF Places
    <3>3. p \in Places(c, o, S)
            <=> \/ i \in 1..n /\ Has(o[i].blocks, k, S)
                \/ i = n + 1 /\ Has(c, k, S)
      BY <1>2, <3>1, Zenon DEF Places
    <3>4. ~Has(<<>>, k, S) BY DEF Has
    <3>5. i \in 1..(n + 1) <=> i \in 1..n \/ i = n + 1 BY <1>2
    <3>6. CASE i \in 1..n
      <4>1. i # n + 1 /\ i \in 1..(n + 1) BY <1>2, <3>6
      <4>2. s[i] = o[i] BY <2>4, <3>6
      <4> QED BY <3>2, <3>3, <3>4, <3>6, <4>1, <4>2, Zenon
    <3>7. CASE i = n + 1
      <4>1. i \notin 1..n BY <1>2, <3>7
      <4> QED BY <2>2, <2>4, <3>2, <3>3, <3>4, <3>5, <3>7, <4>1, Zenon
    <3>8. CASE i \notin 1..n /\ i # n + 1 BY <3>2, <3>3, <3>4, <3>5, <3>8, Zenon
    <3> QED BY <3>6, <3>7, <3>8
  <2>6. \A p : p \in Places(<<>>, s, S) => p \in Nat \X Nat BY Zenon DEF Places
  <2>7. \A p : p \in Places(c, o, S) => p \in Nat \X Nat BY Zenon DEF Places
  <2>8. Places(<<>>, s, S) = Places(c, o, S) BY <2>5, <2>6, <2>7
  <2> QED BY <1>1, <2>2, <2>3, <2>8, Zenon
<1> QED BY <1>3, <1>4

LEMMA FillPlaces ==
  ASSUME LidarInv, NEW k \in Nat, NEW p, PacketOf(p, k), p.hit \/ ~q.dense, NEW c \in Seq(Blk), NEW o, Len(o) \in Nat, NEW S
  PROVE  Places(c \o Part(p, Const.blocks), o, S) = Places(c, o, S) \cup {e \in {<<Len(o) + 1, k>>} : p.late \in S}
<1>1. PICK n \in Nat \ {0} : n = Const.blocks BY Configured, ConstIs
<1>2. PICK s \in Seq(Blk) : s = Part(p, n) /\ Len(s) = n /\ \A i \in 1..n : s[i] = Block(p, i)
  <2>1. n \in 0..n BY <1>1
  <2> QED BY <1>1, <2>1, PartTyped
<1>3. \A i \in 1..n : s[i].at = k /\ s[i].late = p.late BY <1>1, <1>2, BlockTyped
<1>4. PICK m \in Nat : m = Len(c) /\ DOMAIN c = 1..m OBVIOUS
<1>5. PICK t : t = c \o s OBVIOUS
<1>6. DOMAIN t = 1..(m + n) /\ (\A i \in 1..m : t[i] = c[i]) /\ \A i \in (m + 1)..(m + n) : t[i] = s[i - m]
  <2>1. Len(t) = m + n /\ t \in Seq(Blk)
    <3>1. Len(c \o s) = Len(c) + Len(s) /\ c \o s \in Seq(Blk) OBVIOUS
    <3>2. Len(s) = n /\ Len(c) = m BY <1>2, <1>4
    <3> QED BY <1>5, <3>1, <3>2
  <2>2. DOMAIN t = 1..(m + n) BY <2>1
  <2>3. \A i \in 1..m : t[i] = c[i] BY <1>2, <1>4, <1>5
  <2>4. \A i \in (m + 1)..(m + n) : t[i] = s[i - m] BY <1>2, <1>4, <1>5
  <2> QED BY <2>2, <2>3, <2>4
<1>7. ASSUME NEW l \in Nat
      PROVE  Has(t, l, S) <=> Has(c, l, S) \/ (l = k /\ p.late \in S)
  <2>1. ASSUME NEW a \in DOMAIN t, Of(t[a], l, S) PROVE Has(c, l, S) \/ (l = k /\ p.late \in S)
    <3>1. CASE a \in 1..m
      <4>1. t[a] = c[a] BY <1>6, <3>1
      <4> QED BY <1>4, <2>1, <3>1, <4>1, Zenon DEF Has
    <3>2. CASE a \notin 1..m
      <4>1. a \in (m + 1)..(m + n) /\ a - m \in 1..n BY <1>1, <1>4, <1>6, <3>2
      <4>2. t[a] = s[a - m] BY <1>6, <4>1
      <4> QED BY <1>3, <2>1, <4>1, <4>2, Zenon DEF Of
    <3> QED BY <3>1, <3>2
  <2>2. ASSUME NEW a \in DOMAIN c, Of(c[a], l, S) PROVE Has(t, l, S)
    <3>1. a \in 1..m /\ a \in 1..(m + n) BY <1>1, <1>4
    <3>2. t[a] = c[a] BY <1>6, <3>1
    <3> QED BY <1>6, <2>2, <3>1, <3>2, Zenon DEF Has
  <2>3. ASSUME l = k, p.late \in S PROVE Has(t, l, S)
    <3>1. m + 1 \in (m + 1)..(m + n) /\ m + 1 \in 1..(m + n) /\ m + 1 - m = 1 /\ 1 \in 1..n BY <1>1, <1>4
    <3>2. t[m + 1] = s[1] BY <1>6, <3>1
    <3>3. Of(t[m + 1], l, S) BY <1>3, <2>3, <3>1, <3>2, Zenon DEF Of
    <3> QED BY <1>6, <3>1, <3>3, Zenon DEF Has
  <2> QED BY <2>1, <2>2, <2>3, Zenon DEF Has
<1>8. PICK w \in Nat : w = Len(o) OBVIOUS
<1>9. ASSUME NEW z \in Nat \X Nat PROVE z \in Places(t, o, S) <=> z \in Places(c, o, S) \/ (z = <<w + 1, k>> /\ p.late \in S)
  <2>1. PICK i \in Nat, l \in Nat : z[1] = i /\ z[2] = l /\ z = <<i, l>> OBVIOUS
  <2>2. z \in Places(t, o, S)
          <=> \/ i \in 1..w /\ Has(o[i].blocks, l, S)
              \/ i = w + 1 /\ Has(t, l, S)
    BY <1>8, <2>1, Zenon DEF Places
  <2>3. z \in Places(c, o, S)
          <=> \/ i \in 1..w /\ Has(o[i].blocks, l, S)
              \/ i = w + 1 /\ Has(c, l, S)
    BY <1>8, <2>1, Zenon DEF Places
  <2>4. z = <<w + 1, k>> <=> i = w + 1 /\ l = k BY <2>1
  <2> QED BY <1>7, <2>2, <2>3, <2>4, Zenon
<1>10. <<w + 1, k>> \in Nat \X Nat BY <1>8
<1>11. \A z : z \in Places(t, o, S) => z \in Nat \X Nat BY Zenon DEF Places
<1>12. \A z : z \in Places(c, o, S) => z \in Nat \X Nat BY Zenon DEF Places
<1>13. Places(t, o, S) = Places(c, o, S) \cup {e \in {<<w + 1, k>>} : p.late \in S} BY <1>9, <1>10, <1>11, <1>12
<1> QED BY <1>1, <1>2, <1>5, <1>8, <1>13, Zenon

LEMMA AddPlaces ==
  ASSUME LidarInv, ~q.dense, NEW k \in Nat, NEW p, PacketOf(p, k), NEW x \in Frame, NEW y \in Frame, y = Add(x, k, p), NEW S
  PROVE  \E j \in Nat : Places(y.cloud, y.out, S) = Places(x.cloud, x.out, S) \cup {e \in {<<j, k>>} : p.late \in S}
<1>1. PICK z \in Frame : z = Opened(x, k) BY OpenedTyped
<1>2. Places(z.cloud, z.out, S) = Places(x.cloud, x.out, S)
  <2>1. \/ z.cloud = <<>> /\ z.out = Handed(x)
        \/ z.cloud = x.cloud /\ z.out = x.out
    BY <1>1 DEF Opened
  <2> QED BY <2>1, HandPlaces, Zenon
<1>3. PICK w \in Frame : w = Filled(z, k, p) BY FilledTyped
<1>4. w.cloud = z.cloud \o Part(p, Const.blocks) /\ w.out = z.out BY <1>3 DEF Filled
<1>5. z.cloud \in Seq(Blk) /\ Len(z.out) \in Nat BY DEF Frame
<1>6. PICK j \in Nat : j = Len(z.out) + 1 BY <1>5
<1>7. Places(w.cloud, w.out, S) = Places(z.cloud, z.out, S) \cup {e \in {<<j, k>>} : p.late \in S}
  <2>1. Places(z.cloud \o Part(p, Const.blocks), z.out, S) = Places(z.cloud, z.out, S) \cup {e \in {<<Len(z.out) + 1, k>>} : p.late \in S}
    BY <1>5, FillPlaces
  <2> QED BY <1>4, <1>6, <2>1, Zenon
<1>8. y = IF Ends(w, k) THEN Closed(w) ELSE w BY <1>1, <1>3, Zenon DEF Add
<1>9. Places(y.cloud, y.out, S) = Places(w.cloud, w.out, S)
  <2>1. Closed(w).cloud = <<>> /\ Closed(w).out = Handed(w) BY DEF Closed
  <2>2. Places(Closed(w).cloud, Closed(w).out, S) = Places(w.cloud, w.out, S) BY <2>1, HandPlaces, Zenon
  <2> QED BY <1>8, <2>2, Zenon
<1> QED BY <1>2, <1>7, <1>9, Zenon

\* The places of the points of n packets, none of which is one of those from l to h - 1.
Counted(x, n) == IsFiniteSet(Places(x.cloud, x.out, BOOLEAN)) /\ Cardinality(Places(x.cloud, x.out, BOOLEAN)) = n

LEMMA AddCounted ==
  ASSUME LidarInv, ~q.dense, NEW k \in Nat, NEW p, PacketOf(p, k), NEW x \in Frame, NEW y \in Frame,
         y = Add(x, k, p), NEW n \in Nat, Counted(x, n), Absent(x.cloud, x.out, k)
  PROVE  /\ Counted(y, n + 1)
         /\ \A l \in Nat : l # k /\ Absent(x.cloud, x.out, l) => Absent(y.cloud, y.out, l)
<1>1. PICK j \in Nat : Places(y.cloud, y.out, BOOLEAN) = Places(x.cloud, x.out, BOOLEAN) \cup {<<j, k>>}
  <2>1. PICK j \in Nat : Places(y.cloud, y.out, BOOLEAN)
                           = Places(x.cloud, x.out, BOOLEAN) \cup {e \in {<<j, k>>} : p.late \in BOOLEAN}
    BY AddPlaces
  <2>2. p.late \in BOOLEAN BY DEF PacketOf
  <2>3. {e \in {<<j, k>>} : p.late \in BOOLEAN} = {<<j, k>>} BY <2>2, Zenon
  <2> QED BY <2>1, <2>3, Zenon
<1>2. PICK A, B : A = Places(x.cloud, x.out, BOOLEAN) /\ B = Places(y.cloud, y.out, BOOLEAN) OBVIOUS
<1>3. PICK e : e = <<j, k>> OBVIOUS
<1>4. B = A \cup {e} BY <1>1, <1>2, <1>3, Zenon
<1>5. e \notin A BY <1>2, <1>3, Zenon DEF Absent
<1>6. IsFiniteSet(A) /\ Cardinality(A) = n BY <1>2, Zenon DEF Counted
<1>7. IsFiniteSet(B) /\ Cardinality(B) = n + 1 BY <1>4, <1>5, <1>6, FS_AddElement
<1>8. ASSUME NEW l \in Nat, l # k, Absent(x.cloud, x.out, l) PROVE Absent(y.cloud, y.out, l)
  <2> SUFFICES ASSUME NEW i \in Nat PROVE <<i, l>> \notin B BY <1>2, Zenon DEF Absent
  <2>1. <<i, l>> \notin A BY <1>2, <1>8, Zenon DEF Absent
  <2>2. <<i, l>> # e BY <1>3, <1>8
  <2> QED BY <1>4, <2>1, <2>2
<1> QED BY <1>2, <1>7, <1>8, Zenon DEF Counted

\* A packet or a datagram is counted when none of its packets was.
LEMMA PiecesCounted ==
  ASSUME LidarInv, ~q.dense, NEW k \in Nat, NEW hit \in BOOLEAN, NEW bad \in BOOLEAN, NEW late \in BOOLEAN,
         NEW x \in Frame, NEW a, Pieced(a, x, k, Msop(k, hit, bad, late), bad), NEW n \in Nat, Counted(x, n),
         \A l \in (k * Unit)..(k * Unit + Unit - 1) : Absent(x.cloud, x.out, l)
  PROVE  /\ Counted(a[Unit], n + (IF bad THEN Unit - 1 ELSE Unit))
         /\ \A l \in Nat : l \notin (k * Unit)..(k * Unit + Unit - 1) /\ Absent(x.cloud, x.out, l)
                           => Absent(a[Unit].cloud, a[Unit].out, l)
<1>1. PICK u \in Nat \ {0}, b \in Nat : u = Unit /\ b = k * Unit BY UnitIs
<1>2. PICK m : m = Msop(k, hit, bad, late) OBVIOUS
<1>3. /\ a[0] = x /\ \A i \in 0..u : a[i] \in Frame
      /\ \A i \in 1..u : a[i] = IF bad /\ i = 1 THEN a[i - 1] ELSE Add(a[i - 1], b + i - 1, Piece(m, i))
  BY <1>1, <1>2, Zenon DEF Pieced
<1>4. \A i \in 1..u : b + i - 1 \in Nat /\ PacketOf(Piece(m, i), b + i - 1) BY <1>1, <1>2, Pieces
<1> DEFINE C(i) == n + (IF bad /\ i > 0 THEN i - 1 ELSE i)
           T == {i \in Nat : i <= u => /\ Counted(a[i], C(i))
                                       /\ \A l \in Nat : l \notin b..(b + i - 1) /\ Absent(x.cloud, x.out, l)
                                                         => Absent(a[i].cloud, a[i].out, l)}
<1>5. 0 \in T
  <2>1. C(0) = n OBVIOUS
  <2>2. Counted(a[0], C(0)) BY <1>3, <2>1, Zenon
  <2> HIDE DEF C
  <2> QED BY <1>3, <2>2
<1>6. ASSUME NEW i \in Nat, i \in T PROVE i + 1 \in T
  <2> SUFFICES ASSUME i + 1 <= u
               PROVE  /\ Counted(a[i + 1], C(i + 1))
                      /\ \A l \in Nat : l \notin b..(b + (i + 1) - 1) /\ Absent(x.cloud, x.out, l)
                                        => Absent(a[i + 1].cloud, a[i + 1].out, l)
    OBVIOUS
  <2>1. i <= u /\ i + 1 \in 1..u /\ i + 1 \in 0..u /\ i \in 0..u /\ i + 1 - 1 = i BY <1>1
  <2>2. Counted(a[i], C(i)) /\ \A l \in Nat : l \notin b..(b + i - 1) /\ Absent(x.cloud, x.out, l)
                                               => Absent(a[i].cloud, a[i].out, l)
    BY <1>6, <2>1
  <2>3. C(i) \in Nat BY <2>1
  <2>4. PICK v \in Frame, w \in Frame : v = a[i] /\ w = a[i + 1] BY <1>3, <2>1
  <2>5. PICK c \in Nat : c = C(i) BY <2>3
  <2>6. CASE bad /\ i = 0
    <3>1. w = v
      <4>1. PICK j \in 1..u : j = i + 1 /\ j - 1 = i BY <2>1
      <4>2. i = 0 /\ bad BY <2>6, Zenon
      <4>3. j = 1 BY <4>1, <4>2
      <4>4. a[j] = a[j - 1] BY <1>3, <4>2, <4>3, Zenon
      <4> QED BY <2>4, <4>1, <4>4, Zenon
    <3>2. C(i + 1) = C(i) BY <2>6
    <3>3. \A l \in Nat : l \notin b..(b + (i + 1) - 1) => l \notin b..(b + i - 1) BY <1>1
    <3> HIDE DEF C
    <3> QED BY <2>2, <2>4, <3>1, <3>2, <3>3, Zenon
  <2>7. CASE ~(bad /\ i = 0)
    <3>1. PICK l0, p : l0 \in Nat /\ l0 = b + i /\ p = Piece(m, i + 1) /\ PacketOf(p, l0)
      <4>1. b + (i + 1) - 1 = b + i BY <1>1
      <4> QED BY <1>4, <2>1, <4>1
    <3>2. w = Add(v, l0, p)
      <4>1. PICK j \in 1..u : j = i + 1 /\ j - 1 = i /\ (j = 1 => i = 0) BY <2>1
      <4>2. ~(bad /\ j = 1) BY <2>7, <4>1, Zenon
      <4>3. a[j] = Add(a[j - 1], b + j - 1, Piece(m, j)) BY <1>3, <4>2, Zenon
      <4>4. b + j - 1 = l0 BY <1>1, <3>1, <4>1
      <4> QED BY <2>4, <3>1, <4>1, <4>3, <4>4, Zenon
    <3>3. Absent(v.cloud, v.out, l0)
      <4>1. l0 \in b..(b + u - 1) /\ l0 \notin b..(b + i - 1) BY <1>1, <2>1, <3>1
      <4>2. Absent(x.cloud, x.out, l0) BY <1>1, <4>1
      <4> QED BY <2>2, <2>4, <3>1, <4>1, <4>2, Zenon
    <3>4. Counted(v, c) BY <2>2, <2>4, <2>5, Zenon
    <3>5. /\ Counted(w, c + 1)
          /\ \A l \in Nat : l # l0 /\ Absent(v.cloud, v.out, l) => Absent(w.cloud, w.out, l)
      BY <3>1, <3>2, <3>3, <3>4, AddCounted
    <3>6. C(i + 1) = c + 1 BY <2>5, <2>7
    <3>7. \A l \in Nat : l \notin b..(b + (i + 1) - 1) => l \notin b..(b + i - 1) /\ l # l0 BY <1>1, <3>1
    <3> HIDE DEF C
    <3> QED BY <2>2, <2>4, <3>5, <3>6, <3>7, Zenon
  <2> QED BY <2>6, <2>7
<1>7. u \in T
  <2>1. Nat \subseteq T
    <3> HIDE DEF T
    <3> QED BY <1>5, <1>6, Induction
  <2> QED BY <2>1
<1>8. C(u) = n + (IF bad THEN u - 1 ELSE u) BY <1>1
<1>9. u <= u BY <1>1
<1>10. /\ Counted(a[u], C(u))
       /\ \A l \in Nat : l \notin b..(b + u - 1) /\ Absent(x.cloud, x.out, l) => Absent(a[u].cloud, a[u].out, l)
  BY <1>7, <1>9
<1> HIDE DEF C, T
<1> QED BY <1>1, <1>8, <1>10, Zenon

\* Packets that may still come have no points, and those that came were counted.
ToCome(l) == l >= sent * Unit \/ \E h \in held : l \in (h * Unit)..(h * Unit + Unit - 1)
PacketsInv ==
  ~q.dense /\ "overflow" \notin upset =>
    Counted(f, taken) /\ \A l \in Nat : ToCome(l) => Absent(f.cloud, f.out, l)

LEMMA PlacesAre ==
  ASSUME MemsInv
  PROVE  UNION {{<<i, b.at>> : b \in BlocksOf(Clouds[i])} : i \in DOMAIN Clouds} = Places(f.cloud, f.out, BOOLEAN)
<1>1. PICK n, o, c : n \in Nat /\ n = Len(f.out) /\ o = f.out /\ c = f.cloud BY CloudsAre
<1>2. /\ DOMAIN Clouds = 1..(n + 1) /\ Clouds[n + 1] = c
      /\ \A i \in 1..n : Clouds[i] = o[i].blocks
  BY <1>1, CloudsAre
<1>3. \A i \in 1..(n + 1) : \A b \in BlocksOf(Clouds[i]) : i \in Nat /\ b.at \in Nat /\ b.late \in BOOLEAN
  <2>1. \A i \in 1..(n + 1) : i \in Nat BY <1>1
  <2>2. \A b \in Blk : b.at \in Nat /\ b.late \in BOOLEAN BY Zenon DEF Blk
  <2> QED BY <1>2, <2>1, <2>2, BlocksAre, Zenon
<1> DEFINE U == UNION {{<<i, b.at>> : b \in BlocksOf(Clouds[i])} : i \in DOMAIN Clouds}
<1>4. ASSUME NEW p PROVE p \in U <=> \E i \in 1..(n + 1) : \E a \in DOMAIN Clouds[i] : p = <<i, Clouds[i][a].at>>
  <2>1. p \in U <=> \E i \in 1..(n + 1) : p \in {<<i, b.at>> : b \in BlocksOf(Clouds[i])}
    <3> HIDE DEF BlocksOf
    <3>1. p \in U <=> \E i \in DOMAIN Clouds : p \in {<<i, b.at>> : b \in BlocksOf(Clouds[i])} OBVIOUS
    <3> QED BY <1>2, <3>1, Zenon
  <2>2. \A i \in 1..(n + 1) : p \in {<<i, b.at>> : b \in BlocksOf(Clouds[i])}
                               <=> \E b \in BlocksOf(Clouds[i]) : p = <<i, b.at>>
    OBVIOUS
  <2>3. \A i \in 1..(n + 1) : (\E b \in BlocksOf(Clouds[i]) : p = <<i, b.at>>)
                               <=> \E a \in DOMAIN Clouds[i] : p = <<i, Clouds[i][a].at>>
    BY Zenon DEF BlocksOf
  <2> HIDE DEF U
  <2> QED BY <2>1, <2>2, <2>3, Zenon
<1>5. ASSUME NEW p \in U PROVE p \in Places(c, o, BOOLEAN)
  <2>10. PICK i \in 1..(n + 1) : \E a \in DOMAIN Clouds[i] : p = <<i, Clouds[i][a].at>> BY <1>4, <1>5
  <2>1. PICK a \in DOMAIN Clouds[i] : p = <<i, Clouds[i][a].at>> BY <2>10
  <2>2. Clouds[i][a] \in BlocksOf(Clouds[i]) BY Zenon DEF BlocksOf
  <2>3. PICK k \in Nat : k = Clouds[i][a].at /\ i \in Nat BY <1>3, <2>2, Zenon
  <2>4. p \in Nat \X Nat /\ p[1] = i /\ p[2] = k BY <2>1, <2>3
  <2>5. \/ i \in 1..Len(o) /\ Has(o[i].blocks, k, BOOLEAN)
        \/ i = Len(o) + 1 /\ Has(c, k, BOOLEAN)
    <3>0. Has(Clouds[i], k, BOOLEAN) BY <1>3, <2>2, <2>3, Zenon DEF Has, Of
    <3>1. CASE i = n + 1 BY <1>1, <1>2, <3>0, <3>1, Zenon
    <3>2. CASE i # n + 1
      <4>1. i \in 1..n BY <1>1, <3>2
      <4> QED BY <1>1, <1>2, <3>0, <4>1, Zenon
    <3> QED BY <3>1, <3>2
  <2> QED BY <2>4, <2>5, Zenon DEF Places
<1>6. ASSUME NEW p \in Places(c, o, BOOLEAN) PROVE p \in U
  <2>1. p \in Nat \X Nat BY Zenon DEF Places
  <2>2. PICK i \in Nat, k \in Nat : p[1] = i /\ p[2] = k /\ p = <<i, k>> BY <2>1
  <2>3. \/ i \in 1..n /\ Has(o[i].blocks, k, BOOLEAN)
        \/ i = n + 1 /\ Has(c, k, BOOLEAN)
    BY <1>1, <2>2, Zenon DEF Places
  <2>4. i \in 1..n => i \in 1..(n + 1) BY <1>1
  <2>5. i = n + 1 => i \in 1..(n + 1) BY <1>1
  <2>6. \E j \in 1..(n + 1) : \E a \in DOMAIN Clouds[j] : p = <<j, Clouds[j][a].at>>
    BY <1>2, <2>2, <2>3, <2>4, <2>5, Zenon DEF Has, Of
  <2> QED BY <1>4, <2>6
<1> QED
  <2> HIDE DEF U
  <2>1. U = Places(c, o, BOOLEAN) BY <1>5, <1>6
  <2> QED BY <1>1, <2>1, Zenon DEF U

\* One packet or datagram more.
LEMMA TookCounted ==
  ASSUME MemsInv, ~q.dense, Dropped = {}, NEW k \in Nat, NEW hit \in BOOLEAN, NEW bad \in BOOLEAN,
         NEW late \in BOOLEAN, NEW g, bad => lidar \in {"RSEMX", "RSM1_JUMBO"},
         Took(k, hit, bad, late, g), Paced(Msop(k, hit, bad, late)), Counted(f, taken),
         \A l \in (k * Unit)..(k * Unit + Unit - 1) : Absent(f.cloud, f.out, l)
  PROVE  /\ Counted(f', taken')
         /\ \A l \in Nat : l \notin (k * Unit)..(k * Unit + Unit - 1) /\ Absent(f.cloud, f.out, l)
                           => Absent(f'.cloud, f'.out, l)
<1>1. LidarInv /\ taken \in Nat BY DEF MemsInv, LidarInv
<1>2. g \in Frame /\ g.cloud = f.cloud /\ g.out = f.out BY Zenon DEF Took, Cleared
<1>3. Counted(g, taken) BY <1>2, Zenon DEF Counted
<1>4. taken' = taken + Taken(Msop(k, hit, bad, late)) BY Zenon DEF Paced
<1>5. Taken(Msop(k, hit, bad, late)) = IF q.wait /\ ~d.ready THEN 0 ELSE IF bad THEN Unit - 1 ELSE Unit
  BY <1>1, TakenIs
<1>6. CASE q.wait /\ ~d.ready
  <2>1. f' = g BY <1>6, Zenon DEF Took
  <2>2. taken' = taken BY <1>1, <1>4, <1>5, <1>6
  <2> QED BY <1>2, <1>3, <2>1, <2>2, Zenon
<1>7. CASE ~(q.wait /\ ~d.ready)
  <2>1. PICK a : Pieced(a, g, k, Msop(k, hit, bad, late), bad) /\ DecodeMsop(g, Msop(k, hit, bad, late)) = a[Unit]
    BY <1>1, <1>2, DecodeRun
  <2>2. f' = a[Unit] BY <1>7, <2>1, Zenon DEF Took
  <2>3. \A l \in (k * Unit)..(k * Unit + Unit - 1) : Absent(g.cloud, g.out, l) BY <1>2, Zenon
  <2>4. /\ Counted(a[Unit], taken + (IF bad THEN Unit - 1 ELSE Unit))
        /\ \A l \in Nat : l \notin (k * Unit)..(k * Unit + Unit - 1) /\ Absent(g.cloud, g.out, l)
                          => Absent(a[Unit].cloud, a[Unit].out, l)
    BY <1>1, <1>2, <1>3, <2>1, <2>3, PiecesCounted
  <2>5. taken' = taken + (IF bad THEN Unit - 1 ELSE Unit) BY <1>4, <1>5, <1>7, Zenon
  <2> QED BY <1>2, <2>2, <2>4, <2>5, Zenon
<1> QED BY <1>6, <1>7

LEMMA PacketsStart ==
  ASSUME Init
  PROVE  PacketsInv
<1>1. f.cloud = <<>> /\ f.out = <<>> /\ taken = 0 BY DEF Init
<1>2. Places(<<>>, <<>>, BOOLEAN) = {}
  <2>1. ASSUME NEW p \in Places(<<>>, <<>>, BOOLEAN) PROVE FALSE
    <3>1. PICK i : i = p[1] /\ (i \in 1..Len(<<>>) \/ \E a \in DOMAIN <<>> : TRUE)
      BY Zenon DEF Places, Has
    <3> QED BY <3>1
  <2> QED BY <2>1
<1>3. Counted(f, taken) BY <1>1, <1>2, FS_EmptySet DEF Counted
<1>4. \A l \in Nat : Absent(f.cloud, f.out, l)
  <2>1. \A l, i : <<i, l>> \notin {} OBVIOUS
  <2> QED BY <1>1, <1>2, <2>1, Zenon DEF Absent
<1> QED BY <1>3, <1>4, Zenon DEF PacketsInv

LEMMA PacketsStep ==
  ASSUME MemsInv, PacketsInv, [Next]_vars
  PROVE  PacketsInv'
<1>1. CASE RecvDifop \/ UNCHANGED vars
  <2>1. Same /\ f' = f /\ sent' = sent /\ held' = held /\ taken' = taken /\ upset' = upset
    BY <1>1, DifopStep, Stutter
  <2>2. Unit' = Unit BY <2>1, Fixed
  <2> QED BY <2>1, <2>2 DEF PacketsInv, ToCome, Same
<1>2. CASE RecvMsop
  <2>1. PICK skip \in 0..1, hit \in BOOLEAN, bad \in BOOLEAN, comes \in BOOLEAN, g \in Frame :
          Came(skip, hit, bad, comes, g)
    BY <1>2, MsopStep
  <2>2. sent \in Nat /\ Same BY <1>2, MsopStep DEF MemsInv, LidarInv
  <2>3. PICK k \in Nat : k = sent + skip BY <2>2
  <2>4. PICK late \in BOOLEAN : late = FALSE OBVIOUS
  <2>5. /\ Took(k, hit, bad, late, g) /\ Paced(Msop(k, hit, bad, late))
        /\ bad => lidar \in {"RSEMX", "RSM1_JUMBO"}
    BY <2>1, <2>3, <2>4, Zenon DEF Came
  <2>6. Unit' = Unit BY <2>2, Fixed
  <2>7. sent' = k + 1 /\ held' \subseteq {sent} /\ (sent \in held' => k = sent + 1)
    BY <2>1, <2>2, <2>3 DEF Came
  <2>8. upset \cup Dropped \subseteq upset' BY <2>1 DEF Came
  <2>9. PICK u \in Nat \ {0}, s \in Nat, b \in Nat : u = Unit /\ s = sent * Unit /\ b = k * Unit BY <2>2, UnitIs
  <2>10. s <= b /\ (k + 1) * u = b + u /\ (k = sent + 1 => b = s + u)
    <3>1. (k + 1) * u = b + u /\ (sent + 1) * u = s + u BY <2>2, <2>9, UnitIs
    <3>2. skip = 0 \/ skip = 1 OBVIOUS
    <3>3. CASE skip = 0
      <4>1. k = sent BY <2>2, <2>3, <3>3
      <4>2. ~(k = sent + 1) BY <2>2, <4>1
      <4>3. b = s BY <2>9, <4>1
      <4> QED BY <3>1, <4>2, <4>3
    <3>4. CASE skip = 1
      <4>1. k = sent + 1 BY <2>2, <2>3, <3>4
      <4>2. b = s + u BY <2>9, <3>1, <4>1, Zenon
      <4> QED BY <2>9, <3>1, <4>2
    <3> QED BY <3>2, <3>3, <3>4
  <2>11. ASSUME ~q.dense, "overflow" \notin upset'
         PROVE  Counted(f', taken') /\ \A l \in Nat : (ToCome(l) => Absent(f.cloud, f.out, l))'
    <3>1. "overflow" \notin upset /\ Dropped = {}
      <4>1. Dropped \subseteq {"overflow"} BY <2>5, Zenon DEF Took, Cleared
      <4> QED BY <2>8, <2>11, <4>1
    <3>2. Counted(f, taken) /\ \A l \in Nat : ToCome(l) => Absent(f.cloud, f.out, l)
      BY <2>11, <3>1, Zenon DEF PacketsInv
    <3>3. \A l \in Nat : l >= s => Absent(f.cloud, f.out, l) BY <2>9, <3>2, Zenon DEF ToCome
    <3>4. \A l \in b..(b + u - 1) : l \in Nat /\ l >= s BY <2>9, <2>10
    <3>5. \A l \in (k * Unit)..(k * Unit + Unit - 1) : Absent(f.cloud, f.out, l) BY <2>9, <3>3, <3>4, Zenon
    <3>6. /\ Counted(f', taken')
          /\ \A l \in Nat : l \notin (k * Unit)..(k * Unit + Unit - 1) /\ Absent(f.cloud, f.out, l)
                            => Absent(f'.cloud, f'.out, l)
      BY <2>5, <2>11, <3>1, <3>2, <3>5, TookCounted
    <3>7. ASSUME NEW l \in Nat, ToCome(l)' PROVE l >= s /\ l \notin b..(b + u - 1)
      <4>1. \/ l >= (k + 1) * u
            \/ \E h \in held' : l \in (h * u)..(h * u + u - 1)
        BY <2>6, <2>7, <2>9, <3>7, Zenon DEF ToCome
      <4>2. CASE l >= (k + 1) * u BY <2>9, <2>10, <4>2
      <4>3. CASE \E h \in held' : l \in (h * u)..(h * u + u - 1)
        <5>1. l \in s..(s + u - 1) /\ k = sent + 1
          <6>1. PICK h \in held' : l \in (h * u)..(h * u + u - 1) BY <4>3
          <6>2. h = sent BY <2>7
          <6> QED BY <2>7, <2>9, <6>1, <6>2, Zenon
        <5> QED BY <2>9, <2>10, <5>1
      <4> QED BY <4>1, <4>2, <4>3
    <3>8. ASSUME NEW l \in Nat, ToCome(l)' PROVE Absent(f'.cloud, f'.out, l)
      BY <2>9, <3>3, <3>6, <3>7, <3>8, Zenon
    <3> QED BY <3>6, <3>8
  <2> QED BY <2>2, <2>11 DEF PacketsInv, Same
<1>3. CASE RecvLate
  <2>1. PICK k \in Nat, g \in Frame : CameLate(k, g) BY <1>3, LateStep
  <2>2. sent \in Nat /\ Same BY <1>3, LateStep DEF MemsInv, LidarInv
  <2>3. PICK hit \in BOOLEAN, bad \in BOOLEAN, late \in BOOLEAN : hit = TRUE /\ bad = FALSE /\ late = TRUE OBVIOUS
  <2>4. /\ Took(k, hit, bad, late, g) /\ Paced(Msop(k, hit, bad, late)) /\ k \in held /\ k + 2 = sent
        /\ sent' = sent /\ held' = {}
    BY <2>1, <2>3, Zenon DEF CameLate
  <2>5. Unit' = Unit BY <2>2, Fixed
  <2>6. upset \cup Dropped \subseteq upset' BY <2>1 DEF CameLate
  <2>7. PICK u \in Nat \ {0}, s \in Nat, b \in Nat : u = Unit /\ s = sent * Unit /\ b = k * Unit BY <2>2, UnitIs
  <2>8. b + u <= s
    <3>1. (k + 1) * u = b + u BY <2>7, UnitIs
    <3>2. k < sent BY <2>2, <2>4
    <3>3. (k + 1) * u <= s BY <2>2, <2>7, <3>2, UnitIs
    <3> QED BY <3>1, <3>3
  <2>9. ASSUME ~q.dense, "overflow" \notin upset'
        PROVE  Counted(f', taken') /\ \A l \in Nat : (ToCome(l) => Absent(f.cloud, f.out, l))'
    <3>1. "overflow" \notin upset /\ Dropped = {}
      <4>1. Dropped \subseteq {"overflow"} BY <2>4, Zenon DEF Took, Cleared
      <4> QED BY <2>6, <2>9, <4>1
    <3>2. Counted(f, taken) /\ \A l \in Nat : ToCome(l) => Absent(f.cloud, f.out, l)
      BY <2>9, <3>1, Zenon DEF PacketsInv
    <3>3. \A l \in (k * Unit)..(k * Unit + Unit - 1) : l \in Nat BY <2>7
    <3>4. \A l \in (k * Unit)..(k * Unit + Unit - 1) : Absent(f.cloud, f.out, l)
      BY <2>4, <3>2, <3>3, Zenon DEF ToCome
    <3>5. bad => lidar \in {"RSEMX", "RSM1_JUMBO"} BY <2>3
    <3>6. /\ Counted(f', taken')
          /\ \A l \in Nat : l \notin (k * Unit)..(k * Unit + Unit - 1) /\ Absent(f.cloud, f.out, l)
                            => Absent(f'.cloud, f'.out, l)
      BY <2>4, <2>9, <3>1, <3>2, <3>4, <3>5, TookCounted
    <3>7. ASSUME NEW l \in Nat, ToCome(l)' PROVE Absent(f'.cloud, f'.out, l)
      <4>1. l >= s BY <2>4, <2>5, <2>7, <3>7, Zenon DEF ToCome
      <4>2. l \notin b..(b + u - 1) BY <2>7, <2>8, <4>1
      <4>3. Absent(f.cloud, f.out, l) BY <2>7, <3>2, <4>1, Zenon DEF ToCome
      <4> QED BY <2>7, <3>6, <4>2, <4>3, Zenon
    <3> QED BY <3>6, <3>7
  <2> QED BY <2>2, <2>9 DEF PacketsInv, Same
<1> QED BY <1>1, <1>2, <1>3 DEF Next

LEMMA PacketsKept == Spec => []PacketsInv
<1>1. Init => PacketsInv BY PacketsStart
<1>2. MemsInv /\ PacketsInv /\ [Next]_vars => PacketsInv' BY PacketsStep
<1> QED BY <1>1, <1>2, MemsTyped, PTL DEF Spec

\* The points of every packet that was accepted are in one cloud, and no cloud has points
\* of a packet twice, whatever was lost, came late or could not be decoded, unless a cloud
\* had become too large and was dropped.
THEOREM PacketsCounted == Spec => []PacketsInClouds
<1>1. MemsInv /\ PacketsInv => PacketsInClouds
  <2> SUFFICES ASSUME MemsInv, PacketsInv PROVE PacketsInClouds OBVIOUS
  <2> QED BY PlacesAre, Zenon DEF PacketsInv, Counted, PacketsInClouds
<1> QED BY <1>1, MemsTyped, PacketsKept, PTL

-----------------------------------------------------------------------------
(* A frame is a cloud *)

Waiting == q.wait /\ ~d.ready

\* The points that came in order: those of a cloud that was handed out are of one frame
\* before F, no two such clouds of one, and those of the built cloud are of F.
Apart(c, o, F) ==
  \A p \in Places(c, o, {FALSE}) :
    /\ p[1] = Len(o) + 1 => p[2] \div N = F
    /\ p[1] # Len(o) + 1 => p[2] \div N < F
    /\ \A r \in Places(c, o, {FALSE}) : p[1] = r[1] <=> p[2] \div N = r[2] \div N

\* Nothing was decoded; the strategy is at packet l, of whose frame the cloud is, or which
\* has ended it; it is left behind until the next frame.
Fresh(x) == x.sp = NewStrategy /\ x.cloud = <<>> /\ x.out = <<>>
InStep(x, l) ==
  /\ x.sp.prev = Num(l)
  /\ \/ Apart(x.cloud, x.out, l \div N)
     \/ lidar = "RSM1" /\ x.cloud = <<>> /\ l % N = N - 1 /\ Apart(x.cloud, x.out, (l \div N) + 1)
Stuck(x, l) == Jumbo /\ Parts <= x.sp.prev /\ x.sp.prev + RANGE < Num(l) /\ Apart(x.cloud, x.out, l \div N)

\* RSM1 knows its last number, or the last packet of the frame that has just passed is
\* one of those that may still come.
EndKnown(sp, late) ==
  lidar = "RSM1" => /\ sp.max >= sp.prev
                    /\ sp.looped => sp.max = N \/ \E h \in late : LastNumber(h)

\* What FrameInOneCloud is stated for.
Bearable ==
  /\ "late" \in upset => lidar \notin {"RSM1", "RSEMX", "RSM1_JUMBO"}
  /\ "lost" \in upset => lidar # "RSM1"
  /\ lidar = "RSEMX" => faults < RANGE
  /\ Jumbo => faults < 2

\* The frame x after s packets, of which late may still come, n faults, and waiting or not.
JumboAt(x, s, n) == Fresh(x) \/ (s > 0 /\ (InStep(x, s * Parts - 1) \/ (n > 0 /\ Stuck(x, s * Parts - 1))))
SmallAt(x, s, late, n, waits) ==
  \/ Fresh(x) /\ (lidar # "RSEMX" => late = {})
  \/ /\ ~waits /\ EndKnown(x.sp, late)
     /\ \E l \in 0..s : l < s /\ s <= l + 1 + (IF lidar = "RSEMX" THEN n ELSE 0) /\ InStep(x, l)
FrameInv ==
  Bearable => IF Jumbo THEN JumboAt(f, sent, faults) ELSE SmallAt(f, sent, held, faults, Waiting)

-----------------------------------------------------------------------------
(* The strategy *)

\* A packet not too far ahead is split off if it is of another frame.
LEMMA StrategyFollows ==
  ASSUME NEW sp \in Strategy, NEW l \in Nat, NEW k \in Nat, NEW z \in {0, 1},
         l < k, k - l <= RANGE, sp.prev = (l % N) + z
  PROVE  /\ BySeq(sp, (k % N) + z).split <=> k \div N # l \div N
         /\ k \div N # l \div N => k \div N = (l \div N) + 1
         /\ BySeq(sp, (k % N) + z).sp.prev = (k % N) + z
<1>1. PICK n \in Nat, g \in Nat : n = N /\ g = RANGE /\ n > 3 + 2 * g /\ g > 1 BY Numbers
<1>2. PICK lr \in 0..(n - 1), kr \in 0..(n - 1), lq \in Nat, kq \in Nat :
        lr = l % N /\ kr = k % N /\ lq = l \div N /\ kq = k \div N
  BY <1>1, Divided
<1>3. k - l <= n BY <1>1
<1>4. \/ kq = lq /\ kr = lr + (k - l)
      \/ kq = lq + 1 /\ kr = lr + (k - l) - n
  BY <1>1, <1>2, <1>3, NextNumber
<1>5. PICK s \in 0..N : s = kr + z BY <1>1
<1>6. PICK p \in 0..N : p = sp.prev /\ p = lr + z BY <1>1, <1>2 DEF Strategy
<1>7. PICK r : r = BySeq(sp, s) OBVIOUS
<1>8. /\ r.split \in BOOLEAN /\ (r.split <=> s + g < p)
      /\ r.sp.prev = IF r.split \/ (s >= p /\ (s <= p + g \/ p = 0)) THEN s ELSE p
  BY <1>1, <1>6, <1>7, BySeqIs
<1>9. CASE kq = lq /\ kr = lr + (k - l)
  <2>1. s >= p /\ s <= p + g /\ ~(s + g < p) BY <1>1, <1>5, <1>6, <1>9
  <2>2. ~r.split /\ r.sp.prev = s BY <1>8, <2>1
  <2> QED BY <1>2, <1>5, <1>7, <1>9, <2>2
<1>10. CASE kq = lq + 1 /\ kr = lr + (k - l) - n
  <2>1. s + g < p BY <1>1, <1>5, <1>6, <1>10
  <2>2. r.split /\ r.sp.prev = s BY <1>8, <2>1
  <2>3. kq # lq BY <1>10
  <2> QED BY <1>2, <1>5, <1>7, <1>10, <2>2, <2>3
<1> QED BY <1>4, <1>9, <1>10

\* The first packet is never split off.
LEMMA StrategyBegins ==
  ASSUME NEW sp \in Strategy, NEW s \in 0..N, sp.prev = 0
  PROVE  ~BySeq(sp, s).split /\ BySeq(sp, s).sp.prev = s
<1>1. PICK n \in Nat, g \in Nat : n = N /\ g = RANGE BY Numbers
<1>2. PICK r : r = BySeq(sp, s) OBVIOUS
<1>3. /\ r.split \in BOOLEAN /\ (r.split <=> s + g < 0)
      /\ r.sp.prev = IF r.split \/ (s >= 0 /\ (s <= 0 + g \/ 0 = 0)) THEN s ELSE 0
  BY <1>1, <1>2, BySeqIs
<1>4. ~(s + g < 0) BY <1>1
<1> QED BY <1>1, <1>2, <1>3, <1>4

\* A packet that the next one has overtaken changes nothing but the highest number.
LEMMA StrategyIgnores ==
  ASSUME NEW sp \in Strategy, NEW k \in Nat, sp.prev = ((k + 1) % N) + 1
  PROVE  ~BySeq(sp, (k % N) + 1).split /\ BySeq(sp, (k % N) + 1).sp.prev = sp.prev
<1>1. PICK n \in Nat, g \in Nat : n = N /\ g = RANGE /\ n > 3 + 2 * g /\ g > 1 BY Numbers
<1>2. PICK l \in Nat : l = k + 1 OBVIOUS
<1>3. PICK lr \in 0..(n - 1), kr \in 0..(n - 1) : lr = l % N /\ kr = k % N BY <1>1, Divided
<1>4. \/ lr = kr + 1
      \/ lr = kr + 1 - n
  <2>1. k < l /\ l - k <= n /\ l - k = 1 BY <1>1, <1>2
  <2> QED BY <1>1, <1>3, <2>1, NextNumber
<1>5. PICK s \in 0..N : s = kr + 1 BY <1>1
<1>6. PICK p \in 0..N : p = sp.prev /\ p = lr + 1 BY <1>1, <1>2, <1>3 DEF Strategy
<1>7. PICK r : r = BySeq(sp, s) OBVIOUS
<1>8. /\ r.split \in BOOLEAN /\ (r.split <=> s + g < p)
      /\ r.sp.prev = IF r.split \/ (s >= p /\ (s <= p + g \/ p = 0)) THEN s ELSE p
  BY <1>1, <1>6, <1>7, BySeqIs
<1>9. ~(s + g < p) /\ ~(s >= p /\ (s <= p + g \/ p = 0))
  <2>1. CASE lr = kr + 1 BY <1>1, <1>5, <1>6, <2>1
  <2>2. CASE lr = kr + 1 - n BY <1>1, <1>3, <1>5, <1>6, <2>2
  <2> QED BY <1>4, <2>1, <2>2
<1> QED BY <1>3, <1>5, <1>6, <1>7, <1>8, <1>9

-----------------------------------------------------------------------------
(* The clouds and their frames *)

LEMMA ApartHanded ==
  ASSUME NEW x \in Frame, NEW e \in Nat, NEW h \in Nat, Apart(x.cloud, x.out, e),
         e < h \/ (x.cloud = <<>> /\ e <= h)
  PROVE  Apart(<<>>, Handed(x), h)
<1>1. PICK P : P = Places(x.cloud, x.out, {FALSE}) OBVIOUS
<1>2. P = Places(<<>>, Handed(x), {FALSE}) BY <1>1, HandPlaces
<1>3. PICK n \in Nat : n = Len(x.out)
  <2>1. x.out \in Seq(HandedOut) BY DEF Frame
  <2> QED BY <2>1
<1>4. PICK w \in Nat : w = Len(Handed(x)) /\ w = (IF x.cloud = <<>> THEN n ELSE n + 1)
  <2>1. x.out \in Seq(HandedOut) BY DEF Frame
  <2>2. \A z : Len(Append(x.out, z)) = n + 1 BY <1>3, <2>1
  <2> QED BY <1>3, <2>2 DEF Handed
<1>5. \A p \in P : p \in Nat \X Nat /\ p[1] \in 1..(n + 1) /\ (p[1] = n + 1 => x.cloud # <<>>)
  <2> TAKE p \in P
  <2>1. /\ p \in Nat \X Nat
        /\ p[1] \in 1..n \/ (p[1] = n + 1 /\ Has(x.cloud, p[2], {FALSE}))
    BY <1>1, <1>3, Zenon DEF Places
  <2>2. Has(x.cloud, p[2], {FALSE}) => x.cloud # <<>> BY DEF Has
  <2> QED BY <1>3, <2>1, <2>2
<1>6. ASSUME NEW p \in P
      PROVE  /\ p[1] = w + 1 => p[2] \div N = h
             /\ p[1] # w + 1 => p[2] \div N < h
             /\ \A r \in P : p[1] = r[1] <=> p[2] \div N = r[2] \div N
  <2>1. PICK i \in Nat, v \in Nat : i = p[1] /\ v = p[2] \div N
    <3>1. p \in Nat \X Nat BY <1>5
    <3>2. p[1] \in Nat /\ p[2] \in Nat BY <3>1
    <3> QED BY <3>2, Divided
  <2>2. /\ i = n + 1 => v = e
        /\ i # n + 1 => v < e
        /\ \A r \in P : p[1] = r[1] <=> p[2] \div N = r[2] \div N
    BY <1>1, <1>3, <2>1, Zenon DEF Apart
  <2>3. i \in 1..(n + 1) /\ (i = n + 1 => x.cloud # <<>>) BY <1>5, <2>1
  <2>4. i # w + 1 /\ v < h
    <3>1. CASE x.cloud = <<>> BY <1>4, <2>2, <2>3, <3>1
    <3>2. CASE x.cloud # <<>> BY <1>4, <2>2, <2>3, <3>2
    <3> QED BY <3>1, <3>2
  <2> QED BY <2>1, <2>2, <2>4
<1> QED BY <1>2, <1>4, <1>6, Zenon DEF Apart

\* The points of a packet of the frame that is built, or of a late one.
LEMMA ApartFilled ==
  ASSUME LidarInv, NEW k \in Nat, NEW p, PacketOf(p, k), NEW c \in Seq(Blk), NEW o, Len(o) \in Nat,
         NEW e \in Nat, Apart(c, o, e), p.late \/ k \div N = e
  PROVE  Apart(c \o Part(p, Const.blocks), o, e)
<1>1. CASE ~(p.hit \/ ~q.dense)
  <2>1. Const.blocks \in Nat \ {0} BY Configured, ConstIs
  <2>2. Const.blocks \in 0..Const.blocks BY <2>1
  <2>3. Part(p, Const.blocks) = <<>> BY <1>1, <2>2, PartTyped
  <2>4. c \o <<>> = c OBVIOUS
  <2> QED BY <2>3, <2>4, Zenon
<1>2. CASE p.hit \/ ~q.dense
  <2>1. PICK P, R : P = Places(c, o, {FALSE}) /\ R = Places(c \o Part(p, Const.blocks), o, {FALSE}) OBVIOUS
  <2>2. PICK n \in Nat : n = Len(o) OBVIOUS
  <2>3. R = P \cup {z \in {<<n + 1, k>>} : p.late \in {FALSE}}
    <3>1. PICK S : S = {FALSE} OBVIOUS
    <3>2. Places(c \o Part(p, Const.blocks), o, S)
            = Places(c, o, S) \cup {z \in {<<Len(o) + 1, k>>} : p.late \in S}
      BY <1>2, FillPlaces
    <3> QED BY <2>1, <2>2, <3>1, <3>2, Zenon
  <2>4. \A a \in P : /\ a[1] = n + 1 => a[2] \div N = e
                     /\ a[1] # n + 1 => a[2] \div N < e
                     /\ \A r \in P : a[1] = r[1] <=> a[2] \div N = r[2] \div N
    BY <2>1, <2>2, Zenon DEF Apart
  <2>5. CASE p.late
    <3>1. R = P BY <2>3, <2>5
    <3> QED BY <2>1, <3>1, Zenon DEF Apart
  <2>6. CASE ~p.late
    <3>1. PICK b : b = <<n + 1, k>> OBVIOUS
    <3>2. b[1] = n + 1 /\ b[2] \div N = e BY <2>6, <3>1
    <3>3. \A a \in R : a \in P \/ a = b BY <2>3, <3>1
    <3>4. \A a \in P : a[1] = n + 1 <=> a[2] \div N = e
      <4> TAKE a \in P
      <4>1. a[2] \div N < e => a[2] \div N # e
        <5>1. a \in Nat \X Nat BY <2>1, Zenon DEF Places
        <5>2. a[2] \in Nat BY <5>1
        <5>3. a[2] \div N \in Nat BY <5>2, Divided
        <5> QED BY <5>3
      <4> QED BY <2>4, <4>1, Zenon
    <3>5. ASSUME NEW a \in R
          PROVE  /\ a[1] = n + 1 => a[2] \div N = e
                 /\ a[1] # n + 1 => a[2] \div N < e
                 /\ \A r \in R : a[1] = r[1] <=> a[2] \div N = r[2] \div N
      <4>1. CASE a = b
        <5>1. \A r \in R : a[1] = r[1] <=> a[2] \div N = r[2] \div N BY <3>2, <3>3, <3>4, <4>1, Zenon
        <5> QED BY <3>2, <4>1, <5>1, Zenon
      <4>2. CASE a \in P
        <5>1. \A r \in R : a[1] = r[1] <=> a[2] \div N = r[2] \div N BY <2>4, <3>2, <3>3, <3>4, <4>2, Zenon
        <5> QED BY <2>4, <4>2, <5>1, Zenon
      <4> QED BY <3>3, <4>1, <4>2
    <3> QED BY <2>1, <2>2, <3>5, Zenon DEF Apart
  <2> QED BY <2>5, <2>6
<1> QED BY <1>1, <1>2

LEMMA ApartEmpty ==
  ASSUME NEW x \in Frame, NEW e
  PROVE  /\ x.cloud = <<>> /\ x.out = <<>> => Apart(x.cloud, x.out, e)
         /\ Apart(x.cloud, x.out, e) => Apart(<<>>, x.out, e)
<1>1. Places(<<>>, x.out, {FALSE}) \subseteq Places(x.cloud, x.out, {FALSE})
  <2> SUFFICES ASSUME NEW p \in Places(<<>>, x.out, {FALSE}) PROVE p \in Places(x.cloud, x.out, {FALSE}) OBVIOUS
  <2>1. ~Has(<<>>, p[2], {FALSE}) BY DEF Has
  <2> QED BY <2>1, Zenon DEF Places
<1>2. Places(<<>>, <<>>, {FALSE}) = {}
  <2>1. ASSUME NEW p \in Places(<<>>, <<>>, {FALSE}) PROVE FALSE
    <3>1. PICK i : i = p[1] /\ (i \in 1..Len(<<>>) \/ \E a \in DOMAIN <<>> : TRUE)
      BY Zenon DEF Places, Has
    <3> QED BY <3>1
  <2> QED BY <2>1
<1>3. x.cloud = <<>> /\ x.out = <<>> => Apart(x.cloud, x.out, e) BY <1>2 DEF Apart
<1>4. Apart(x.cloud, x.out, e) => Apart(<<>>, x.out, e) BY <1>1, Zenon DEF Apart
<1> QED BY <1>3, <1>4

\* Adding packet k to x opens z, fills w and leaves y.
Through(x, z, w, y, k, p) ==
  /\ z.cloud = (IF BySeq(x.sp, Num(k)).split THEN <<>> ELSE x.cloud)
  /\ z.out = (IF BySeq(x.sp, Num(k)).split THEN Handed(x) ELSE x.out)
  /\ z.first = y.first /\ w.first = y.first /\ w.prev = y.prev /\ z.prev = x.prev
  /\ w.cloud = z.cloud \o Part(p, Const.blocks) /\ w.out = z.out
  /\ y.cloud = (IF Ends(y, k) THEN <<>> ELSE w.cloud)
  /\ y.out = (IF Ends(y, k) THEN Handed(w) ELSE w.out)

\* What a packet does to the strategy, the times and the clouds.
LEMMA AddIs ==
  ASSUME LidarInv, NEW k \in Nat, NEW p, PacketOf(p, k), NEW x \in Frame, NEW y, y = Add(x, k, p)
  PROVE  /\ y \in Frame /\ y.sp = BySeq(x.sp, Num(k)).sp /\ y.prev = TimeOf(k, Const.blocks)
         /\ y.first = IF BySeq(x.sp, Num(k)).split THEN k * Span ELSE x.first
         /\ BySeq(x.sp, Num(k)).split => y.ret
         /\ ~BySeq(x.sp, Num(k)).split => y.ret = x.ret
         /\ \E z \in Frame, w \in Frame : Through(x, z, w, y, k, p)
<1>1. PICK s : s = BySeq(x.sp, Num(k)) OBVIOUS
<1>2. PICK z \in Frame : z = Opened(x, k) BY OpenedTyped
<1>3. /\ z.sp = s.sp /\ z.prev = x.prev
      /\ z.cloud = (IF s.split THEN <<>> ELSE x.cloud)
      /\ z.out = (IF s.split THEN Handed(x) ELSE x.out)
      /\ z.first = (IF s.split THEN k * Span ELSE x.first)
      /\ z.ret = (IF s.split THEN TRUE ELSE x.ret)
  <2>1. PICK h, t : h = Handed(x) /\ t = k * Span OBVIOUS
  <2>2. CASE s.split
    <3>1. z = [sp |-> s.sp, cloud |-> <<>>, first |-> t, prev |-> x.prev, out |-> h, ret |-> TRUE]
      BY <1>1, <1>2, <2>1, <2>2, Zenon DEF Opened
    <3> QED BY <2>1, <2>2, <3>1
  <2>3. CASE ~s.split
    <3>1. z = [sp |-> s.sp, cloud |-> x.cloud, first |-> x.first, prev |-> x.prev, out |-> x.out, ret |-> x.ret]
      BY <1>1, <1>2, <2>3, Zenon DEF Opened
    <3> QED BY <2>3, <3>1
  <2> QED BY <2>2, <2>3
<1>4. PICK w \in Frame : w = Filled(z, k, p) BY FilledTyped
<1>5. /\ w.sp = z.sp /\ w.cloud = z.cloud \o Part(p, Const.blocks) /\ w.first = z.first
      /\ w.prev = TimeOf(k, Const.blocks) /\ w.out = z.out /\ w.ret = z.ret
  BY <1>4 DEF Filled
<1>6. y = IF Ends(w, k) THEN Closed(w) ELSE w BY <1>2, <1>4, Zenon DEF Add
<1>7. y \in Frame BY AddTyped
<1>8. y.sp = w.sp /\ y.first = w.first /\ y.prev = w.prev /\ y.ret = w.ret
  <2>1. /\ Closed(w).sp = w.sp /\ Closed(w).first = w.first /\ Closed(w).prev = w.prev /\ Closed(w).ret = w.ret
    BY DEF Closed
  <2> QED BY <1>6, <2>1, Zenon
<1>9. Ends(y, k) <=> Ends(w, k) BY <1>8, Zenon DEF Ends
<1>10. y.cloud = (IF Ends(y, k) THEN <<>> ELSE w.cloud) /\ y.out = (IF Ends(y, k) THEN Handed(w) ELSE w.out)
  <2>1. Closed(w).cloud = <<>> /\ Closed(w).out = Handed(w) BY DEF Closed
  <2> QED BY <1>6, <1>9, <2>1, Zenon
<1>11. Through(x, z, w, y, k, p) BY <1>1, <1>3, <1>5, <1>8, <1>10, Zenon DEF Through
<1> QED BY <1>1, <1>3, <1>5, <1>7, <1>8, <1>11, Zenon

LEMMA AddStrategy ==
  ASSUME LidarInv, NEW k \in Nat, NEW p, PacketOf(p, k), NEW x \in Frame
  PROVE  Add(x, k, p).sp = BySeq(x.sp, Num(k)).sp
<1>1. PICK y : y = Add(x, k, p) OBVIOUS
<1> QED BY <1>1, AddIs

\* A packet in order of the built frame, or of a later one when it is split off.
LEMMA AddApart ==
  ASSUME LidarInv, NEW k \in Nat, NEW p, PacketOf(p, k), ~p.late, NEW x \in Frame, NEW y, y = Add(x, k, p),
         NEW e \in Nat, Apart(x.cloud, x.out, e),
         BySeq(x.sp, Num(k)).split => e < k \div N \/ (x.cloud = <<>> /\ e <= k \div N),
         ~BySeq(x.sp, Num(k)).split => e = k \div N
  PROVE  IF Ends(y, k) THEN y.cloud = <<>> /\ Apart(y.cloud, y.out, (k \div N) + 1)
         ELSE Apart(y.cloud, y.out, k \div N)
<1>1. PICK s : s = BySeq(x.sp, Num(k)).split OBVIOUS
<1>2. PICK z \in Frame, w \in Frame :
        /\ z.cloud = (IF s THEN <<>> ELSE x.cloud)
        /\ z.out = (IF s THEN Handed(x) ELSE x.out)
        /\ w.cloud = z.cloud \o Part(p, Const.blocks) /\ w.out = z.out
        /\ y.cloud = (IF Ends(y, k) THEN <<>> ELSE w.cloud)
        /\ y.out = (IF Ends(y, k) THEN Handed(w) ELSE w.out)
  <2>1. PICK z \in Frame, w \in Frame : Through(x, z, w, y, k, p) BY AddIs
  <2> QED BY <1>1, <2>1, Zenon DEF Through
<1>3. PICK h \in Nat : h = k \div N BY Divided
<1>4. Apart(z.cloud, z.out, h)
  <2>1. CASE s
    <3>1. e < h \/ (x.cloud = <<>> /\ e <= h) BY <1>1, <1>3, <2>1, Zenon
    <3>2. Apart(<<>>, Handed(x), h) BY <3>1, ApartHanded
    <3> QED BY <1>2, <2>1, <3>2, Zenon
  <2>2. CASE ~s BY <1>1, <1>2, <1>3, <2>2, Zenon
  <2> QED BY <2>1, <2>2
<1>5. z.cloud \in Seq(Blk) /\ Len(z.out) \in Nat
  <2>1. z.cloud \in Seq(Blk) /\ z.out \in Seq(HandedOut) BY DEF Frame
  <2> QED BY <2>1
<1>6. Apart(w.cloud, w.out, h)
  <2>1. Apart(z.cloud \o Part(p, Const.blocks), z.out, h) BY <1>3, <1>4, <1>5, ApartFilled
  <2> QED BY <1>2, <2>1, Zenon
<1>7. Apart(<<>>, Handed(w), h + 1)
  <2>1. h < h + 1 /\ h + 1 \in Nat OBVIOUS
  <2> QED BY <1>6, <2>1, ApartHanded
<1> QED BY <1>2, <1>3, <1>6, <1>7, Zenon

\* A late packet is not split off.
LEMMA AddLateApart ==
  ASSUME LidarInv, NEW k \in Nat, NEW p, PacketOf(p, k), p.late, NEW x \in Frame, NEW y, y = Add(x, k, p),
         NEW e \in Nat, Apart(x.cloud, x.out, e), ~BySeq(x.sp, Num(k)).split, lidar # "RSM1"
  PROVE  Apart(y.cloud, y.out, e)
<1>1. ~Ends(y, k) BY DEF Ends
<1>2. PICK z \in Frame, w \in Frame :
        /\ z.cloud = x.cloud /\ z.out = x.out
        /\ w.cloud = z.cloud \o Part(p, Const.blocks) /\ w.out = z.out
        /\ y.cloud = w.cloud /\ y.out = w.out
  <2>1. PICK z \in Frame, w \in Frame : Through(x, z, w, y, k, p) BY AddIs
  <2> QED BY <1>1, <2>1, Zenon DEF Through
<1>3. x.cloud \in Seq(Blk) /\ Len(x.out) \in Nat
  <2>1. x.cloud \in Seq(Blk) /\ x.out \in Seq(HandedOut) BY DEF Frame
  <2> QED BY <2>1
<1>4. Apart(x.cloud \o Part(p, Const.blocks), x.out, e) BY <1>3, ApartFilled
<1> QED BY <1>2, <1>4, Zenon

\* One lidar counts from 0, the others from 1.
LEMMA NumOffset ==
  \E z \in {0, 1} : /\ \A k \in Nat : Num(k) = (k % N) + z
                    /\ lidar # "RSEMX" => z = 1
<1>1. CASE lidar = "RSEMX"
  <2>1. ASSUME NEW k \in Nat PROVE Num(k) = (k % N) + 0
    <3>1. PICK r \in Nat : r = k % N
      <4>1. k % N \in 0..(N - 1) /\ N \in Nat BY Divided, Numbers
      <4> QED BY <4>1
    <3>2. Num(k) = r BY <1>1, <3>1, Zenon DEF Num
    <3> QED BY <3>1, <3>2
  <2> QED BY <1>1, <2>1
<1>2. CASE lidar # "RSEMX"
  <2>1. \A k \in Nat : Num(k) = (k % N) + 1 BY <1>2, Zenon DEF Num
  <2> QED BY <1>2, <2>1
<1> QED BY <1>1, <1>2

LEMMA FollowsBy ==
  ASSUME NEW sp \in Strategy, NEW l \in Nat, NEW k \in Nat, l < k, k - l <= RANGE, sp.prev = Num(l)
  PROVE  /\ BySeq(sp, Num(k)).split <=> k \div N # l \div N
         /\ k \div N # l \div N => k \div N = (l \div N) + 1
         /\ BySeq(sp, Num(k)).sp.prev = Num(k)
<1>1. PICK z \in {0, 1} : \A n \in Nat : Num(n) = (n % N) + z BY NumOffset
<1>2. sp.prev = (l % N) + z BY <1>1
<1>3. Num(k) = (k % N) + z BY <1>1
<1>4. /\ BySeq(sp, (k % N) + z).split <=> k \div N # l \div N
      /\ k \div N # l \div N => k \div N = (l \div N) + 1
      /\ BySeq(sp, (k % N) + z).sp.prev = (k % N) + z
  BY <1>2, StrategyFollows
<1> QED BY <1>3, <1>4, Zenon

LEMMA InStepAdd ==
  ASSUME LidarInv, NEW k \in Nat, NEW l \in Nat, l < k, k - l <= RANGE, NEW p, PacketOf(p, k), ~p.late,
         NEW x \in Frame, InStep(x, l), NEW y, y = Add(x, k, p), Ends(y, k) => k % N = N - 1
  PROVE  InStep(y, k)
<1>0. y.sp = BySeq(x.sp, Num(k)).sp BY AddStrategy, Zenon
<1>1. x.sp \in Strategy /\ x.sp.prev = Num(l) BY DEF Frame, InStep
<1>2. /\ BySeq(x.sp, Num(k)).split <=> k \div N # l \div N
      /\ k \div N # l \div N => k \div N = (l \div N) + 1
      /\ BySeq(x.sp, Num(k)).sp.prev = Num(k)
  BY <1>1, FollowsBy
<1>3. PICK h \in Nat, g \in Nat : h = k \div N /\ g = l \div N BY Divided
<1>4. PICK s : s = BySeq(x.sp, Num(k)).split OBVIOUS
<1>5. \E e \in Nat : /\ Apart(x.cloud, x.out, e)
                     /\ s => e < h \/ (x.cloud = <<>> /\ e <= h)
                     /\ ~s => e = h
  <2>1. CASE Apart(x.cloud, x.out, g)
    <3>1. s => g < h BY <1>2, <1>3, <1>4
    <3>2. ~s => g = h BY <1>2, <1>3, <1>4
    <3> QED BY <1>3, <2>1, <3>1, <3>2
  <2>2. CASE x.cloud = <<>> /\ l % N = N - 1 /\ Apart(x.cloud, x.out, g + 1)
    <3>1. h = g + 1
      <4>1. PICK n \in Nat, r \in Nat : n = N /\ r = k % N /\ r <= n - 1 /\ k - l <= n /\ n > 1
        <5>1. k % N \in 0..(N - 1) /\ N \in Nat /\ RANGE \in Nat /\ RANGE <= N /\ N > 1 BY Numbers, Divided
        <5> QED BY <5>1
      <4>2. \/ h = g /\ r = (n - 1) + (k - l)
            \/ h = g + 1
        BY <1>3, <2>2, <4>1, NextNumber
      <4> QED BY <4>1, <4>2
    <3>2. h # g /\ g + 1 <= h BY <3>1
    <3>3. s BY <1>2, <1>3, <1>4, <3>2
    <3> QED BY <2>2, <3>2, <3>3
  <2> QED BY <1>3, <2>1, <2>2, Zenon DEF InStep
<1>6. PICK e \in Nat : /\ Apart(x.cloud, x.out, e)
                       /\ s => e < h \/ (x.cloud = <<>> /\ e <= h)
                       /\ ~s => e = h
  BY <1>5
<1>7. IF Ends(y, k) THEN y.cloud = <<>> /\ Apart(y.cloud, y.out, (k \div N) + 1)
      ELSE Apart(y.cloud, y.out, k \div N)
  <2>1. /\ BySeq(x.sp, Num(k)).split => e < k \div N \/ (x.cloud = <<>> /\ e <= k \div N)
        /\ ~BySeq(x.sp, Num(k)).split => e = k \div N
    BY <1>3, <1>4, <1>6, Zenon
  <2> QED BY <1>6, <2>1, AddApart
<1>8. y.sp.prev = Num(k)
  BY <1>2, <1>0, Zenon
<1>9. Ends(y, k) => lidar = "RSM1" BY DEF Ends
<1> QED BY <1>7, <1>8, <1>9, Zenon DEF InStep

LEMMA FreshAdd ==
  ASSUME LidarInv, NEW k \in Nat, NEW p, PacketOf(p, k), ~p.late, NEW x \in Frame, Fresh(x), NEW y, y = Add(x, k, p)
  PROVE  InStep(y, k) /\ ~BySeq(x.sp, Num(k)).split
<1>1. /\ x.sp \in Strategy /\ x.sp.prev = 0 /\ ~x.sp.looped /\ x.cloud = <<>> /\ x.out = <<>>
  <2>1. x.sp \in Strategy /\ x.sp = NewStrategy /\ x.cloud = <<>> /\ x.out = <<>> BY DEF Frame, Fresh
  <2>2. NewStrategy.prev = 0 /\ ~NewStrategy.looped BY DEF NewStrategy
  <2> QED BY <2>1, <2>2, Zenon
<1>2. Num(k) \in 0..N BY NumIs
<1>3. ~BySeq(x.sp, Num(k)).split /\ BySeq(x.sp, Num(k)).sp.prev = Num(k) BY <1>1, <1>2, StrategyBegins
<1>4. ~Ends(y, k)
  <2>1. ~y.sp.looped
    <3>1. PICK r : r = BySeq(x.sp, Num(k)) OBVIOUS
    <3>2. r.sp.looped <=> x.sp.looped \/ r.split BY <1>1, <1>2, <3>1, BySeqIs
    <3>3. y.sp = r.sp BY <3>1, AddIs
    <3> QED BY <1>1, <1>3, <3>1, <3>2, <3>3, Zenon
  <2>2. lidar = "RSM1" => Num(k) \in 1..N BY NumIs
  <2>3. MaxSeq(y.sp) = 0 BY <2>1 DEF MaxSeq
  <2>4. 0 \notin 1..N OBVIOUS
  <2> QED BY <2>2, <2>3, <2>4, Zenon DEF Ends
<1>5. PICK h \in Nat : h = k \div N BY Divided
<1>6. Apart(x.cloud, x.out, h) BY <1>1, ApartEmpty
<1>7. Apart(y.cloud, y.out, k \div N)
  <2>1. /\ BySeq(x.sp, Num(k)).split => h < k \div N \/ (x.cloud = <<>> /\ h <= k \div N)
        /\ ~BySeq(x.sp, Num(k)).split => h = k \div N
    BY <1>3, <1>5, Zenon
  <2> QED BY <1>4, <1>6, <2>1, AddApart
<1>8. y.sp.prev = Num(k) BY <1>3, AddIs
<1> QED BY <1>3, <1>7, <1>8, Zenon DEF InStep

LEMMA LateAdd ==
  ASSUME LidarInv, lidar \notin {"RSM1", "RSEMX"}, NEW k \in Nat, NEW p, PacketOf(p, k), p.late,
         NEW x \in Frame, InStep(x, k + 1), NEW y, y = Add(x, k, p)
  PROVE  InStep(y, k + 1)
<1>0. y.sp = BySeq(x.sp, Num(k)).sp BY AddStrategy, Zenon
<1>1. PICK l \in Nat : l = k + 1 OBVIOUS
<1>2. Num(k) = (k % N) + 1 /\ Num(l) = (l % N) + 1 BY Zenon DEF Num
<1>3. x.sp \in Strategy /\ x.sp.prev = Num(l) /\ Apart(x.cloud, x.out, l \div N)
  BY <1>1, Zenon DEF Frame, InStep
<1>4. ~BySeq(x.sp, Num(k)).split /\ BySeq(x.sp, Num(k)).sp.prev = x.sp.prev
  <2>1. x.sp.prev = ((k + 1) % N) + 1 BY <1>1, <1>2, <1>3, Zenon
  <2> QED BY <1>2, <1>3, <2>1, StrategyIgnores
<1>5. PICK e \in Nat : e = l \div N BY Divided
<1>6. Apart(x.cloud, x.out, e) BY <1>3, <1>5, Zenon
<1>7. Apart(y.cloud, y.out, e) BY <1>4, <1>6, AddLateApart
<1> QED BY <1>0, <1>1, <1>3, <1>4, <1>5, <1>7, Zenon DEF InStep

\* The strategy that was left behind stays so until the next frame.
LEMMA StuckAdd ==
  ASSUME LidarInv, NEW l \in Nat, NEW k \in Nat, k = l + 1, NEW p, PacketOf(p, k), ~p.late,
         NEW x \in Frame, Stuck(x, l), NEW y, y = Add(x, k, p)
  PROVE  InStep(y, k) \/ Stuck(y, k)
<1>0. y.sp = BySeq(x.sp, Num(k)).sp BY AddStrategy, Zenon
<1>1. lidar # "RSEMX" /\ lidar # "RSM1" /\ ~Ends(y, k) BY DEF Stuck, Jumbo, Ends
<1>2. PICK n \in Nat, g \in Nat, u \in Nat : n = N /\ g = RANGE /\ u = Parts /\ n > 3 + 2 * g /\ u > g + 2 BY Numbers
<1>3. PICK lr \in 0..(n - 1), kr \in 0..(n - 1), lq \in Nat, kq \in Nat :
        lr = l % N /\ kr = k % N /\ lq = l \div N /\ kq = k \div N
  BY <1>2, Divided
<1>4. Num(k) = kr + 1 /\ Num(l) = lr + 1 BY <1>1, <1>3, Zenon DEF Num
<1>5. PICK v \in Nat : v = x.sp.prev /\ u <= v /\ v + g < lr + 1 /\ x.sp \in Strategy
  <2>1. x.sp \in Strategy BY DEF Frame
  <2>2. x.sp.prev \in 0..n BY <1>2, <2>1 DEF Strategy
  <2>3. Parts <= x.sp.prev /\ x.sp.prev + RANGE < Num(l) BY DEF Stuck
  <2> QED BY <1>2, <1>4, <2>1, <2>2, <2>3
<1>6. \/ kq = lq /\ kr = lr + 1
      \/ kq = lq + 1 /\ kr = lr + 1 - n
  <2>1. k - l = 1 /\ l < k /\ k - l <= n BY <1>2
  <2> QED BY <1>2, <1>3, <2>1, NextNumber
<1>7. PICK r : r = BySeq(x.sp, kr + 1) OBVIOUS
<1>8. /\ r.split \in BOOLEAN /\ (r.split <=> kr + 1 + g < v)
      /\ r.sp.prev = IF r.split \/ (kr + 1 >= v /\ (kr + 1 <= v + g \/ v = 0)) THEN kr + 1 ELSE v
  <2>1. kr + 1 \in 0..N BY <1>2
  <2> QED BY <1>2, <1>5, <1>7, <2>1, BySeqIs
<1>9. Apart(x.cloud, x.out, lq) BY <1>3, Zenon DEF Stuck
<1>10. CASE kq = lq /\ kr = lr + 1
  <2>1. ~(kr + 1 + g < v) /\ ~(kr + 1 <= v + g \/ v = 0) /\ v + g < kr + 1 BY <1>2, <1>5, <1>10
  <2>2. ~r.split /\ r.sp.prev = v BY <1>8, <2>1
  <2>3. /\ BySeq(x.sp, Num(k)).split => lq < k \div N \/ (x.cloud = <<>> /\ lq <= k \div N)
        /\ ~BySeq(x.sp, Num(k)).split => lq = k \div N
    BY <1>3, <1>4, <1>7, <1>10, <2>2, Zenon
  <2>4. Apart(y.cloud, y.out, k \div N) BY <1>1, <1>9, <2>3, AddApart
  <2>5. y.sp.prev = v BY <1>0, <1>4, <1>7, <2>2, Zenon
  <2>6. Jumbo BY DEF Stuck
  <2> QED BY <1>2, <1>4, <1>5, <2>1, <2>4, <2>5, <2>6, Zenon DEF Stuck
<1>11. CASE kq = lq + 1 /\ kr = lr + 1 - n
  <2>1. kr + 1 + g < v BY <1>2, <1>3, <1>5, <1>11
  <2>2. r.split /\ r.sp.prev = kr + 1 BY <1>8, <2>1
  <2>3. lq < kq BY <1>11
  <2>4. /\ BySeq(x.sp, Num(k)).split => lq < k \div N \/ (x.cloud = <<>> /\ lq <= k \div N)
        /\ ~BySeq(x.sp, Num(k)).split => lq = k \div N
    BY <1>3, <1>4, <1>7, <2>2, <2>3, Zenon
  <2>5. Apart(y.cloud, y.out, k \div N) BY <1>1, <1>9, <2>4, AddApart
  <2>6. y.sp.prev = Num(k) BY <1>0, <1>4, <1>7, <2>2, Zenon
  <2> QED BY <2>5, <2>6, Zenon DEF InStep
<1> QED BY <1>6, <1>10, <1>11

\* A datagram is lost: the next one is of the same frame and too far ahead, or of another.
LEMMA JumpBy ==
  ASSUME NEW sp \in Strategy, NEW m \in Nat \ {0}, NEW l \in Nat, NEW k \in Nat,
         l = m * Parts - 1, k = (m + 1) * Parts, sp.prev = (l % N) + 1
  PROVE  LET r == BySeq(sp, (k % N) + 1) IN
         \/ r.split /\ l \div N < k \div N /\ r.sp.prev = (k % N) + 1
         \/ /\ ~r.split /\ l \div N = k \div N /\ r.sp.prev = sp.prev
            /\ Parts <= sp.prev /\ sp.prev + RANGE < (k % N) + 1
<1>1. PICK n \in Nat \ {0}, g \in Nat, u \in Nat \ {0} :
        n = N /\ g = RANGE /\ u = Parts /\ n > 3 + 2 * g /\ u > g + 2
  BY Numbers
<1>2. PICK h \in Nat \ {0} : n = h * u
  <2>1. N % Parts = 0 BY Numbers
  <2>2. n \div u \in Nat /\ n = (n \div u) * u + (n % u) BY <1>1, Division
  <2>3. PICK h \in Nat : h = n \div u BY <2>2
  <2>4. n = h * u + 0 BY <1>1, <2>1, <2>2, <2>3, Zenon
  <2>5. h * u \in Nat BY SMTT(20)
  <2>6. n = h * u BY <2>4, <2>5
  <2>7. h # 0 BY <1>1, <2>6
  <2> QED BY <2>6, <2>7
<1>3. PICK t \in Nat, v \in 0..(h - 1) : m = t * h + v
  <2>1. m \div h \in Nat /\ m % h \in 0..(h - 1) /\ m = (m \div h) * h + (m % h) BY Division
  <2> QED BY <2>1
<1>4. PICK tn \in Nat, vu \in Nat : tn = t * n /\ vu = v * u BY SMTT(20)
<1>5. m * u = tn + vu
  <2>1. (t * h + v) * u = t * (h * u) + v * u BY SMTT(20)
  <2> QED BY <1>2, <1>3, <1>4, <2>1, Zenon
<1>6. l = tn + vu - 1 /\ k = tn + vu + u
  <2>1. (m + 1) * u = m * u + u BY SMTT(20)
  <2> QED BY <1>1, <1>4, <1>5, <2>1
<1>7. vu + u <= n /\ (v + 1 = h => vu + u = n) /\ (v + 1 < h => vu + u + u <= n)
  <2>1. (v + 1) * u = vu + u BY <1>4, SMTT(20)
  <2>2. v + 1 = h => vu + u = n BY <1>2, <2>1, Zenon
  <2>3. v + 1 < h => vu + u + u <= n
    <3> SUFFICES ASSUME v + 1 < h PROVE vu + u + u <= n OBVIOUS
    <3>1. PICK z \in Nat : h = (v + 2) + z
      <4>1. h - (v + 2) \in Nat /\ h = (v + 2) + (h - (v + 2)) OBVIOUS
      <4> QED BY <4>1
    <3>2. PICK zu \in Nat : zu = z * u BY SMTT(20)
    <3>3. ((v + 2) + z) * u = v * u + u + u + z * u BY SMTT(20)
    <3> QED BY <1>1, <1>2, <1>4, <3>1, <3>2, <3>3
  <2>4. v + 1 = h \/ v + 1 < h OBVIOUS
  <2> QED BY <1>1, <1>4, <2>2, <2>3, <2>4
<1>8. /\ v >= 1 => vu >= u
      /\ v = 0 => vu = 0 /\ tn >= n /\ t >= 1
  <2>1. v = 0 => vu = 0 BY <1>4, SMTT(20)
  <2>2. v >= 1 => vu >= u
    <3> SUFFICES ASSUME v >= 1 PROVE vu >= u OBVIOUS
    <3>1. PICK z \in Nat : v = z + 1
      <4>1. v - 1 \in Nat /\ v = (v - 1) + 1 OBVIOUS
      <4> QED BY <4>1
    <3>2. PICK zu \in Nat : zu = z * u BY SMTT(20)
    <3>3. (z + 1) * u = z * u + u BY SMTT(20)
    <3> QED BY <1>1, <1>4, <3>1, <3>2, <3>3
  <2>3. v = 0 => t >= 1
    <3> SUFFICES ASSUME v = 0, t = 0 PROVE FALSE OBVIOUS
    <3>1. 0 * h = 0 BY SMTT(20)
    <3> QED BY <1>3, <3>1
  <2>4. t >= 1 => tn >= n
    <3> SUFFICES ASSUME t >= 1 PROVE tn >= n OBVIOUS
    <3>1. PICK z \in Nat : t = z + 1
      <4>1. t - 1 \in Nat /\ t = (t - 1) + 1 OBVIOUS
      <4> QED BY <4>1
    <3>2. PICK zn \in Nat : zn = z * n BY SMTT(20)
    <3>3. (z + 1) * n = z * n + n BY SMTT(20)
    <3> QED BY <1>1, <1>4, <3>1, <3>2, <3>3
  <2> QED BY <2>1, <2>2, <2>3, <2>4
<1>9. \A a \in Nat : \A b \in 0..(n - 1) : (a * n + b) \div n = a /\ (a * n + b) % n = b BY Division
<1>10. (t + 1) * n = tn + n BY <1>4, SMTT(20)
<1>11. PICK lq \in Nat, lr \in 0..(n - 1) :
         /\ lq = l \div N /\ lr = l % N
         /\ v >= 1 => lq = t /\ lr = vu - 1
         /\ v = 0 => lq = t - 1 /\ lr = n - 1
  <2>1. CASE v >= 1
    <3>1. vu - 1 \in 0..(n - 1) BY <1>1, <1>4, <1>7, <1>8, <2>1
    <3>2. l = t * n + (vu - 1) BY <1>4, <1>6
    <3>3. l \div n = t /\ l % n = vu - 1 BY <1>9, <3>1, <3>2
    <3> QED BY <1>1, <2>1, <3>1, <3>3
  <2>2. CASE v = 0
    <3>1. PICK z \in Nat : t = z + 1
      <4>1. t - 1 \in Nat /\ t = (t - 1) + 1 BY <1>8, <2>2
      <4> QED BY <4>1
    <3>2. (z + 1) * n = z * n + n BY SMTT(20)
    <3>3. PICK zn \in Nat : zn = z * n BY SMTT(20)
    <3>4. l = z * n + (n - 1) BY <1>1, <1>4, <1>6, <1>8, <2>2, <3>1, <3>2, <3>3
    <3>5. n - 1 \in 0..(n - 1) BY <1>1
    <3>6. l \div n = z /\ l % n = n - 1 BY <1>9, <3>4, <3>5
    <3> QED BY <1>1, <2>2, <3>1, <3>5, <3>6
  <2> QED BY <2>1, <2>2
<1>12. PICK kq \in Nat, kr \in 0..(n - 1) :
         /\ kq = k \div N /\ kr = k % N
         /\ v + 1 < h => kq = t /\ kr = vu + u
         /\ v + 1 = h => kq = t + 1 /\ kr = 0
  <2>1. CASE v + 1 < h
    <3>1. vu + u \in 0..(n - 1) BY <1>1, <1>4, <1>7, <2>1
    <3>2. k = t * n + (vu + u) BY <1>1, <1>4, <1>6
    <3>3. PICK w \in 0..(n - 1) : w = vu + u BY <3>1, Zenon
    <3>4. (t * n + w) \div n = t /\ (t * n + w) % n = w BY <1>1, <1>9, Zenon
    <3>5. k \div n = t /\ k % n = vu + u BY <3>2, <3>3, <3>4, Zenon
    <3> QED BY <1>1, <2>1, <3>1, <3>5
  <2>2. CASE v + 1 = h
    <3>1. k = (t + 1) * n + 0 BY <1>1, <1>4, <1>6, <1>7, <1>10, <2>2
    <3>2. 0 \in 0..(n - 1) /\ t + 1 \in Nat BY <1>1
    <3>3. k \div n = t + 1 /\ k % n = 0 BY <1>9, <3>1, <3>2
    <3> QED BY <1>1, <2>2, <3>2, <3>3
  <2>3. v + 1 < h \/ v + 1 = h OBVIOUS
  <2> QED BY <2>1, <2>2, <2>3
<1>13. PICK r : r = BySeq(sp, kr + 1) OBVIOUS
<1>14. PICK w \in Nat : w = sp.prev /\ w = lr + 1 BY <1>1, <1>11
<1>15. /\ r.split \in BOOLEAN /\ (r.split <=> kr + 1 + g < w)
       /\ r.sp.prev = IF r.split \/ (kr + 1 >= w /\ (kr + 1 <= w + g \/ w = 0)) THEN kr + 1 ELSE w
  <2>1. kr + 1 \in 0..N BY <1>1
  <2> QED BY <1>1, <1>13, <1>14, <2>1, BySeqIs
<1>16. \/ r.split /\ lq < kq /\ r.sp.prev = kr + 1
       \/ ~r.split /\ lq = kq /\ r.sp.prev = w /\ u <= w /\ w + g < kr + 1
  <2>1. CASE v >= 1 /\ v + 1 < h
    <3>1. lq = t /\ kq = t /\ w = vu /\ kr = vu + u BY <1>4, <1>11, <1>12, <1>14, <2>1
    <3>2. ~(kr + 1 + g < w) /\ ~(kr + 1 <= w + g \/ w = 0) /\ u <= w /\ w + g < kr + 1 BY <1>1, <1>4, <1>8, <2>1, <3>1
    <3> QED BY <1>15, <3>1, <3>2
  <2>2. CASE v >= 1 /\ v + 1 = h
    <3>1. lq = t /\ kq = t + 1 /\ w = vu /\ kr = 0 BY <1>4, <1>11, <1>12, <1>14, <2>2
    <3>2. kr + 1 + g < w BY <1>1, <1>4, <1>8, <2>2, <3>1
    <3> QED BY <1>15, <3>1, <3>2
  <2>3. CASE v = 0 /\ v + 1 < h
    <3>1. lq = t - 1 /\ kq = t /\ w = n /\ kr = u BY <1>4, <1>8, <1>11, <1>12, <1>14, <2>3
    <3>2. kr + 1 + g < w BY <1>1, <1>4, <1>7, <1>8, <2>3, <3>1
    <3> QED BY <1>15, <3>1, <3>2
  <2>4. CASE v = 0 /\ v + 1 = h
    <3>1. lq = t - 1 /\ kq = t + 1 /\ w = n /\ kr = 0 BY <1>4, <1>8, <1>11, <1>12, <1>14, <2>4
    <3>2. kr + 1 + g < w BY <1>1, <3>1
    <3> QED BY <1>15, <3>1, <3>2
  <2> QED BY <2>1, <2>2, <2>3, <2>4
<1> QED BY <1>1, <1>11, <1>12, <1>13, <1>14, <1>16, Zenon

LEMMA JumpAdd ==
  ASSUME LidarInv, Jumbo, NEW m \in Nat \ {0}, NEW l \in Nat, NEW k \in Nat, l = m * Parts - 1, k = (m + 1) * Parts,
         NEW p, PacketOf(p, k), ~p.late, NEW x \in Frame, InStep(x, l), NEW y, y = Add(x, k, p)
  PROVE  InStep(y, k) \/ Stuck(y, k)
<1>0. y.sp = BySeq(x.sp, Num(k)).sp BY AddStrategy, Zenon
<1>1. lidar # "RSEMX" /\ lidar # "RSM1" /\ ~Ends(y, k) BY DEF Jumbo, Ends
<1>2. PICK e \in Nat, h \in Nat : e = l \div N /\ h = k \div N BY Divided
<1>12. PICK c : c = (k % N) + 1 OBVIOUS
<1>3. Num(k) = c /\ Num(l) = (l % N) + 1 BY <1>1, <1>12, Zenon DEF Num
<1>4. x.sp \in Strategy /\ x.sp.prev = (l % N) + 1 /\ Apart(x.cloud, x.out, e)
  <2>1. x.sp \in Strategy BY DEF Frame
  <2> QED BY <1>1, <1>2, <1>3, <2>1, Zenon DEF InStep
<1>5. PICK r : r = BySeq(x.sp, c) OBVIOUS
<1>6. \/ r.split /\ e < h /\ r.sp.prev = c
      \/ ~r.split /\ e = h /\ r.sp.prev = x.sp.prev /\ Parts <= x.sp.prev /\ x.sp.prev + RANGE < c
  <2>1. PICK z : z = BySeq(x.sp, (k % N) + 1) OBVIOUS
  <2>2. \/ z.split /\ l \div N < k \div N /\ z.sp.prev = (k % N) + 1
        \/ /\ ~z.split /\ l \div N = k \div N /\ z.sp.prev = x.sp.prev
           /\ Parts <= x.sp.prev /\ x.sp.prev + RANGE < (k % N) + 1
    BY <1>4, <2>1, JumpBy
  <2> QED BY <1>2, <1>5, <1>12, <2>1, <2>2, Zenon
<1>7. /\ BySeq(x.sp, Num(k)).split => e < k \div N \/ (x.cloud = <<>> /\ e <= k \div N)
      /\ ~BySeq(x.sp, Num(k)).split => e = k \div N
  BY <1>2, <1>3, <1>5, <1>6, Zenon
<1>8. Apart(y.cloud, y.out, k \div N) BY <1>1, <1>4, <1>7, AddApart
<1>9. y.sp.prev = r.sp.prev BY <1>0, <1>3, <1>5, Zenon
<1> QED BY <1>3, <1>6, <1>8, <1>9, Zenon DEF InStep, Stuck

\* No last packet of a frame is lost when packet sent + skip comes.
NoneLost(skip, late) == \A h \in (held \cup (sent..(sent + skip - 1))) \ late : ~LastNumber(h)

\* RSM1 ends a frame after its last packet only.
LEMMA EndStep ==
  ASSUME LidarInv, lidar = "RSM1", NEW x \in Frame, EndKnown(x.sp, held), NEW l \in Nat, l + 1 = sent,
         x.sp.prev = Num(l), NEW skip \in 0..1, NEW k \in Nat, k = sent + skip,
         NEW late \in SUBSET Nat, late \subseteq {sent}, NoneLost(skip, late), NEW y, y.sp = BySeq(x.sp, Num(k)).sp
  PROVE  /\ Ends(y, k) => k % N = N - 1
         /\ EndKnown(y.sp, late)
<1>1. PICK n \in Nat, g \in Nat : n = N /\ g = RANGE /\ n > 3 + 2 * g /\ g > 1 BY Numbers
<1>2. PICK s0 \in Nat : s0 = sent BY DEF LidarInv
<1>3. PICK lr \in 0..(n - 1), kr \in 0..(n - 1), mr \in 0..(n - 1), lq \in Nat, kq \in Nat :
        lr = l % N /\ kr = k % N /\ mr = s0 % N /\ lq = l \div N /\ kq = k \div N
  BY <1>1, <1>2, Divided
<1>4. Num(l) = lr + 1 /\ Num(k) = kr + 1
  <2>1. lidar # "RSEMX" OBVIOUS
  <2> QED BY <1>3, <2>1, Zenon DEF Num
<1>5. x.sp \in Strategy /\ x.sp.max \in 0..n /\ x.sp.prev = lr + 1 /\ x.sp.looped \in BOOLEAN
  <2>1. x.sp \in Strategy BY DEF Frame
  <2> QED BY <1>1, <1>4, <2>1 DEF Strategy
<1>6. PICK mx \in 0..n : mx = x.sp.max /\ mx >= lr + 1
  <2>1. x.sp.max >= x.sp.prev BY DEF EndKnown
  <2> QED BY <1>5, <2>1
<1>7. x.sp.looped => mx = n
  <2>1. ASSUME NEW h \in held PROVE ~LastNumber(h)
    <3>1. h \in Nat /\ h + 2 = s0 BY <1>2 DEF LidarInv
    <3>2. h \notin late BY <1>2, <3>1
    <3> QED BY <3>2, Zenon DEF NoneLost
  <2>2. x.sp.looped => x.sp.max = N \/ \E h \in held : LastNumber(h) BY DEF EndKnown
  <2> QED BY <1>1, <1>6, <2>1, <2>2, Zenon
<1>8. PICK r : r = BySeq(x.sp, kr + 1) OBVIOUS
<1>9. /\ r.split \in BOOLEAN /\ r.sp \in Strategy
      /\ r.split <=> kr + 1 + g < lr + 1
      /\ r.sp.max >= mx /\ r.sp.max >= kr + 1
      /\ r.sp.looped <=> x.sp.looped \/ r.split
  <2>1. kr + 1 \in 0..N BY <1>1
  <2> QED BY <1>1, <1>5, <1>6, <1>8, <2>1, BySeqIs
<1>10. PICK mz \in 0..n : mz = r.sp.max
  <2>1. r.sp.max \in 0..N BY <1>9 DEF Strategy
  <2> QED BY <1>1, <2>1
<1>11. y.sp = r.sp BY <1>4, <1>8, Zenon
<1>12. k = l + 1 + skip /\ l < k /\ k - l = 1 + skip /\ s0 = l + 1 /\ l < s0 /\ s0 - l = 1 BY <1>2
<1>13. \/ kq = lq /\ kr = lr + (1 + skip)
       \/ kq = lq + 1 /\ kr = lr + (1 + skip) - n
  <2>1. k - l <= N /\ l < k BY <1>1, <1>12
  <2>2. \/ k \div N = l \div N /\ k % N = (l % N) + (k - l)
        \/ k \div N = (l \div N) + 1 /\ k % N = (l % N) + (k - l) - N
    BY <2>1, NextNumber
  <2>3. \/ kq = lq /\ kr = lr + (k - l)
        \/ kq = lq + 1 /\ kr = lr + (k - l) - n
    BY <1>1, <1>3, <2>2, Zenon
  <2> QED BY <1>12, <2>3
<1>14. mr = lr + 1 \/ mr = lr + 1 - n
  <2>1. s0 - l <= N /\ l < s0 BY <1>1, <1>12
  <2>2. \/ s0 \div N = l \div N /\ s0 % N = (l % N) + (s0 - l)
        \/ s0 \div N = (l \div N) + 1 /\ s0 % N = (l % N) + (s0 - l) - N
    BY <2>1, NextNumber
  <2>3. mr = lr + (s0 - l) \/ mr = lr + (s0 - l) - n BY <1>1, <1>3, <2>2, Zenon
  <2> QED BY <1>12, <2>3
\* A frame begins: the last packet of the one before has come, or may still come.
<1>15. r.split => \/ mz = n
                  \/ /\ \E h \in late : LastNumber(h)
                     /\ mz # kr + 1
  <2> SUFFICES ASSUME r.split PROVE mz = n \/ ((\E h \in late : LastNumber(h)) /\ mz # kr + 1) OBVIOUS
  <2>1. kr + g < lr BY <1>1, <1>9
  <2>2. kr = lr + (1 + skip) - n BY <1>1, <1>13, <2>1
  <2>3. CASE lr = n - 1 BY <1>6, <1>9, <1>10, <2>3
  <2>4. CASE lr # n - 1
    <3>1. lr = n - 2 /\ skip = 1 /\ kr = 0 BY <1>1, <2>2, <2>4
    <3>2. mr = n - 1 BY <1>1, <1>14, <3>1
    <3>3. LastNumber(s0)
      <4>1. s0 % N = N - 1 BY <1>1, <1>3, <3>2
      <4>2. ~Jumbo BY DEF Jumbo
      <4> QED BY <4>1, <4>2, Zenon DEF LastNumber
    <3>4. s0 \in sent..(sent + skip - 1) BY <1>2, <3>1
    <3>5. s0 \in late BY <3>3, <3>4, Zenon DEF NoneLost
    <3>6. mz # kr + 1 BY <1>1, <1>6, <1>9, <1>10, <3>1
    <3> QED BY <3>3, <3>5, <3>6
  <2> QED BY <2>3, <2>4
<1>16. Ends(y, k) => k % N = N - 1
  <2> SUFFICES ASSUME Ends(y, k) PROVE kr = n - 1 BY <1>1, <1>3
  <2>1. (IF r.sp.looped THEN mz ELSE 0) = kr + 1 BY <1>4, <1>10, <1>11, Zenon DEF Ends, MaxSeq
  <2>2. r.sp.looped /\ mz = kr + 1 BY <1>1, <2>1
  <2>3. mz = n
    <3>1. CASE r.split BY <1>15, <2>2, <3>1
    <3>2. CASE ~r.split
      <4>1. mx = n BY <1>7, <1>9, <2>2, <3>2
      <4> QED BY <1>9, <1>10, <4>1
    <3> QED BY <1>9, <3>1, <3>2
  <2> QED BY <1>1, <2>2, <2>3
<1>17. y.sp.max >= y.sp.prev
  <2>1. r.sp.prev = kr + 1
    <3>1. BySeq(x.sp, Num(k)).sp.prev = Num(k)
      <4>1. k - l <= RANGE /\ l < k BY <1>1, <1>12
      <4>2. PICK sp \in Strategy : sp = x.sp BY <1>5
      <4>3. sp.prev = Num(l) BY <4>2
      <4>4. BySeq(sp, Num(k)).sp.prev = Num(k) BY <4>1, <4>3, FollowsBy
      <4> QED BY <4>2, <4>4
    <3> QED BY <1>4, <1>8, <3>1, Zenon
  <2> QED BY <1>9, <1>11, <2>1
<1>18. y.sp.looped => y.sp.max = N \/ \E h \in late : LastNumber(h)
  <2> SUFFICES ASSUME r.sp.looped PROVE mz = n \/ \E h \in late : LastNumber(h)
    BY <1>1, <1>10, <1>11, Zenon
  <2>1. CASE r.split BY <1>15, <2>1
  <2>2. CASE ~r.split
    <3>1. mx = n BY <1>7, <1>9, <2>2
    <3> QED BY <1>9, <1>10, <3>1
  <2> QED BY <1>9, <2>1, <2>2
<1> QED BY <1>16, <1>17, <1>18, Zenon DEF EndKnown

\* Decoding one packet.
LEMMA SmallTook ==
  ASSUME MemsInv, ~Jumbo, NEW k \in Nat, NEW hit \in BOOLEAN, NEW bad \in BOOLEAN, NEW late \in BOOLEAN,
         NEW g, bad => lidar \in {"RSEMX", "RSM1_JUMBO"}, Took(k, hit, bad, late, g)
  PROVE  /\ g \in Frame
         /\ \E p : PacketOf(p, k) /\ p.late = late /\ f' = IF Waiting \/ bad THEN g ELSE Add(g, k, p)
<1>1. LidarInv BY DEF MemsInv
<1>2. g \in Frame BY Zenon DEF Took, Cleared
<1>3. PICK p : p = Msop(k, hit, bad, late) OBVIOUS
<1>4. Unit = 1 BY UnitIs
<1>5. k * Unit + 1 - 1 = k /\ 1 \in 1..Unit
  <2>1. k * 1 = k BY SMTT(20)
  <2> QED BY <1>4, <2>1
<1>6. Piece(p, 1) = p BY Zenon DEF Piece
<1>7. PacketOf(p, k) /\ p.late = late
  <2>1. PacketOf(Piece(p, 1), k * Unit + 1 - 1) /\ Piece(p, 1).late = late BY <1>3, <1>5, Pieces
  <2> QED BY <1>5, <1>6, <2>1, Zenon
<1>8. CASE Waiting
  <2>1. f' = g BY <1>8, Zenon DEF Took, Waiting
  <2> QED BY <1>2, <1>7, <1>8, <2>1, Zenon
<1>9. CASE ~Waiting
  <2>1. PICK a : Pieced(a, g, k, p, bad) /\ DecodeMsop(g, p) = a[Unit] BY <1>1, <1>2, <1>3, DecodeRun
  <2>2. f' = a[Unit] BY <1>3, <1>9, <2>1, Zenon DEF Took, Waiting
  <2>3. a[1] = IF bad /\ 1 = 1 THEN a[1 - 1] ELSE Add(a[1 - 1], k * Unit + 1 - 1, Piece(p, 1))
    BY <1>5, <2>1, Zenon DEF Pieced
  <2>4. a[1 - 1] = g
    <3>1. 1 - 1 = 0 OBVIOUS
    <3> QED BY <2>1, <3>1, Zenon DEF Pieced
  <2>5. f' = IF bad THEN g ELSE Add(g, k, p) BY <1>4, <1>5, <1>6, <2>2, <2>3, <2>4, Zenon
  <2> QED BY <1>2, <1>7, <1>9, <2>5, Zenon
<1> QED BY <1>8, <1>9

\* A cloud that is dropped takes no points to another frame.
LEMMA ClearedLinks ==
  ASSUME f \in Frame, NEW g, Cleared(g), NEW l \in Nat
  PROVE  /\ Fresh(f) => Fresh(g)
         /\ InStep(f, l) => InStep(g, l)
         /\ Stuck(f, l) => Stuck(g, l)
<1>1. g.sp = f.sp /\ g.out = f.out /\ (g.cloud = f.cloud \/ g.cloud = <<>>) BY Zenon DEF Cleared
<1>2. CASE g.cloud = f.cloud BY <1>1, <1>2, Zenon DEF Fresh, InStep, Stuck
<1>3. CASE g.cloud = <<>>
  <2>1. \A e : Apart(f.cloud, f.out, e) => Apart(<<>>, f.out, e) BY ApartEmpty
  <2> QED BY <1>1, <1>3, <2>1, Zenon DEF Fresh, InStep, Stuck
<1> QED BY <1>1, <1>2, <1>3

LEMMA FrameFixed ==
  ASSUME Same
  PROVE  /\ Bearable' <=> /\ "late" \in upset' => lidar \notin {"RSM1", "RSEMX", "RSM1_JUMBO"}
                          /\ "lost" \in upset' => lidar # "RSM1"
                          /\ lidar = "RSEMX" => faults' < RANGE
                          /\ Jumbo => faults' < 2
         /\ JumboAt(f, sent, faults)' <=> JumboAt(f', sent', faults')
         /\ SmallAt(f, sent, held, faults, Waiting)' <=> SmallAt(f', sent', held', faults', Waiting')
         /\ Waiting' <=> q.wait /\ ~d'.ready
<1>1. lidar' = lidar /\ q' = q /\ Jumbo' = Jumbo BY Fixed DEF Same
<1>2. ASSUME NEW k PROVE Num(k)' = Num(k) /\ LastNumber(k)' = LastNumber(k) BY Fixed
<1>3. ASSUME NEW k PROVE InStep(f, k)' <=> InStep(f', k) BY <1>1, <1>2, Zenon DEF InStep
<1>4. ASSUME NEW k PROVE Stuck(f, k)' <=> Stuck(f', k) BY <1>1, <1>2, Zenon DEF Stuck
<1>5. EndKnown(f.sp, held)' <=> EndKnown(f'.sp, held') BY <1>1, <1>2, Zenon DEF EndKnown
<1>6. Bearable' <=> /\ "late" \in upset' => lidar \notin {"RSM1", "RSEMX", "RSM1_JUMBO"}
                    /\ "lost" \in upset' => lidar # "RSM1"
                    /\ lidar = "RSEMX" => faults' < RANGE
                    /\ Jumbo => faults' < 2
  BY <1>1, Zenon DEF Bearable
<1>7. JumboAt(f, sent, faults)' <=> JumboAt(f', sent', faults')
  <2>1. InStep(f, sent * Parts - 1)' <=> InStep(f', sent' * Parts - 1) BY <1>1, <1>2, Zenon DEF InStep
  <2>2. Stuck(f, sent * Parts - 1)' <=> Stuck(f', sent' * Parts - 1) BY <1>1, <1>2, Zenon DEF Stuck
  <2> QED BY <2>1, <2>2, Zenon DEF JumboAt, Fresh
<1>8. SmallAt(f, sent, held, faults, Waiting)' <=> SmallAt(f', sent', held', faults', Waiting')
  BY <1>1, <1>3, <1>5, Zenon DEF SmallAt, Fresh
<1> QED BY <1>1, <1>6, <1>7, <1>8, Zenon DEF Waiting

LEMMA SmallCame ==
  ASSUME MemsInv, ~Jumbo, SmallAt(f, sent, held, faults, Waiting), NEW skip \in 0..1, NEW hit \in BOOLEAN,
         NEW bad \in BOOLEAN, NEW comes \in BOOLEAN, NEW g, Came(skip, hit, bad, comes, g), Bearable', Same, MemsInv'
  PROVE  SmallAt(f', sent', held', faults', Waiting)
<1>1. LidarInv /\ f \in Frame /\ sent \in Nat /\ faults \in Nat BY DEF MemsInv, LidarInv
<1>2. PICK k \in Nat : k = sent + skip BY <1>1
<1>3. Took(k, hit, bad, FALSE, g) /\ (bad => lidar \in {"RSEMX", "RSM1_JUMBO"}) /\ Cleared(g)
  BY <1>2, Zenon DEF Came, Took
<1>4. /\ sent' = k + 1 /\ held' = (IF comes THEN {sent} ELSE {}) /\ (comes => skip = 1)
      /\ faults' = faults + skip + (IF bad THEN 1 ELSE 0) + (IF hit THEN 0 ELSE 1)
  BY <1>2 DEF Came
<1>5. /\ faults' \in Nat /\ faults' >= faults + skip /\ (bad => faults' >= faults + skip + 1)
  BY <1>1, <1>4
<1>x. PICK fz \in Nat : fz = faults' BY <1>5
<1>y. /\ fz >= faults + skip /\ (bad => fz >= faults + skip + 1) /\ k = sent + skip
  BY <1>2, <1>5, <1>x
<1>z. PICK v \in Nat : v = (IF lidar = "RSEMX" THEN faults' ELSE 0) /\ (lidar = "RSEMX" => v = fz)
  BY <1>x
<1>6. g \in Frame /\ \E p : PacketOf(p, k) /\ ~p.late /\ f' = IF Waiting \/ bad THEN g ELSE Add(g, k, p)
  <2>1. PICK late \in BOOLEAN : late = FALSE OBVIOUS
  <2>2. Took(k, hit, bad, late, g) BY <1>3, <2>1, Zenon
  <2>3. g \in Frame /\ \E p : PacketOf(p, k) /\ p.late = late /\ f' = IF Waiting \/ bad THEN g ELSE Add(g, k, p)
    BY <1>3, <2>2, SmallTook
  <2> QED BY <2>1, <2>3, Zenon
<1>7. PICK p : PacketOf(p, k) /\ ~p.late /\ f' = IF Waiting \/ bad THEN g ELSE Add(g, k, p) BY <1>6
<1>8. PICK y : y = f' OBVIOUS
<1>9. Waiting => lidar = "RSEMX" BY <1>1 DEF Waiting, LidarInv
<1>10. bad => lidar = "RSEMX" BY <1>3 DEF Jumbo
<1>11. CASE Fresh(f) /\ (lidar # "RSEMX" => held = {})
  <2>1. Fresh(g) BY <1>1, <1>3, <1>11, ClearedLinks
  <2>2. CASE Waiting \/ bad BY <1>7, <1>9, <1>10, <2>1, <2>2, Zenon DEF SmallAt
  <2>3. CASE ~(Waiting \/ bad)
    <3>1. y = Add(g, k, p) BY <1>7, <1>8, <2>3, Zenon
    <3>2. InStep(y, k) /\ ~BySeq(g.sp, Num(k)).split BY <1>1, <1>6, <1>7, <2>1, <3>1, FreshAdd
    <3>3. EndKnown(y.sp, held')
      <4>1. PICK r : r = BySeq(g.sp, Num(k)) OBVIOUS
      <4>2. y.sp = r.sp BY <1>1, <1>6, <1>7, <3>1, <4>1, AddStrategy, Zenon
      <4>3. g.sp \in Strategy /\ ~g.sp.looped
        <5>1. g.sp \in Strategy BY <1>6 DEF Frame
        <5>2. g.sp = NewStrategy BY <2>1 DEF Fresh
        <5>3. ~NewStrategy.looped BY DEF NewStrategy
        <5> QED BY <5>1, <5>2, <5>3, Zenon
      <4>4. Num(k) \in 0..N BY NumIs
      <4>5. (r.sp.looped <=> g.sp.looped \/ r.split) /\ r.sp.max >= Num(k) BY <4>1, <4>3, <4>4, BySeqIs
      <4>6. ~r.sp.looped BY <3>2, <4>1, <4>3, <4>5, Zenon
      <4>7. r.sp.prev = Num(k) BY <3>2, <4>2, Zenon DEF InStep
      <4> QED BY <4>2, <4>5, <4>6, <4>7, Zenon DEF EndKnown
    <3>4. \E l \in 0..(k + 1) : /\ l < k + 1 /\ InStep(y, l)
                               /\ k + 1 <= l + 1 + (IF lidar = "RSEMX" THEN faults' ELSE 0)
      <4>1. k \in 0..(k + 1) /\ k < k + 1 /\ k + 1 <= k + 1 + v OBVIOUS
      <4>2. k \in 0..(k + 1) /\ k < k + 1 /\ k + 1 <= k + 1 + (IF lidar = "RSEMX" THEN faults' ELSE 0)
        BY <1>z, <4>1, Zenon
      <4> QED BY <3>2, <4>2, Zenon
    <3> QED BY <1>4, <1>8, <2>3, <3>3, <3>4, Zenon DEF SmallAt
  <2> QED BY <2>2, <2>3
<1>12. CASE /\ ~Waiting /\ EndKnown(f.sp, held)
            /\ \E l \in 0..sent : l < sent /\ sent <= l + 1 + (IF lidar = "RSEMX" THEN faults ELSE 0) /\ InStep(f, l)
  <2>1. PICK l \in Nat : l < sent /\ sent <= l + 1 + (IF lidar = "RSEMX" THEN faults ELSE 0) /\ InStep(f, l)
    <3>1. PICK l \in 0..sent : l < sent /\ sent <= l + 1 + (IF lidar = "RSEMX" THEN faults ELSE 0) /\ InStep(f, l)
      BY <1>12
    <3>2. l \in Nat BY <1>1
    <3> QED BY <3>1, <3>2
  <2>2. InStep(g, l) BY <1>1, <1>3, <2>1, ClearedLinks
  <2>3. CASE bad
    <3>1. y = g /\ lidar = "RSEMX" BY <1>7, <1>8, <1>10, <2>3, Zenon
    <3>2. l \in 0..(k + 1) /\ l < k + 1 /\ k + 1 <= l + 1 + (IF lidar = "RSEMX" THEN faults' ELSE 0)
      <4>1. sent <= l + 1 + faults BY <2>1, <3>1
      <4>2. l \in 0..(k + 1) /\ l < k + 1 /\ k + 1 <= l + 1 + v
        BY <1>1, <1>y, <1>z, <2>1, <2>3, <3>1, <4>1
      <4> QED BY <1>z, <4>2, Zenon
    <3>3. EndKnown(y.sp, held') BY <3>1 DEF EndKnown
    <3> QED BY <1>4, <1>8, <1>12, <2>2, <3>1, <3>2, <3>3, Zenon DEF SmallAt
  <2>4. CASE ~bad
    <3>1. y = Add(g, k, p) BY <1>7, <1>8, <1>12, <2>4, Zenon
    <3>2. l < k /\ k - l <= RANGE
      <4>1. RANGE \in Nat /\ RANGE > 1 BY Numbers
      <4>2. CASE lidar = "RSEMX"
        <5>1. faults' < RANGE BY <4>2, FrameFixed
        <5> QED BY <1>1, <1>2, <1>5, <2>1, <4>1, <4>2, <5>1
      <4>3. CASE lidar # "RSEMX" BY <1>1, <1>2, <2>1, <4>1, <4>3
      <4> QED BY <4>2, <4>3
    <3>3. (Ends(y, k) => k % N = N - 1) /\ EndKnown(y.sp, held')
      <4>1. CASE lidar = "RSM1"
        <5>1. EndKnown(g.sp, held) BY <1>3, <1>12, Zenon DEF Cleared
        <5>2. l + 1 = sent BY <1>1, <2>1, <4>1
        <5>3. g.sp.prev = Num(l) BY <2>2, Zenon DEF InStep
        <5>4. PICK z : z = held' OBVIOUS
        <5>5. z \in SUBSET Nat /\ z \subseteq {sent} BY <1>1, <1>4, <5>4
        <5>6. NoneLost(skip, z)
          <6>1. "lost" \notin upset' BY <4>1, FrameFixed
          <6>2. upset' = IF \E h \in (held \cup (sent..(sent + skip - 1))) \ held' : LastNumber(h)
                         THEN upset \cup Dropped \cup {"lost"} ELSE upset \cup Dropped
            BY DEF Came
          <6>3. ~ \E h \in (held \cup (sent..(sent + skip - 1))) \ held' : LastNumber(h) BY <6>1, <6>2
          <6> QED BY <5>4, <6>3, Zenon DEF NoneLost
        <5>7. y.sp = BySeq(g.sp, Num(k)).sp BY <1>1, <1>6, <1>7, <3>1, AddStrategy, Zenon
        <5>8. (Ends(y, k) => k % N = N - 1) /\ EndKnown(y.sp, z)
          BY <1>1, <1>2, <1>6, <4>1, <5>1, <5>2, <5>3, <5>5, <5>6, <5>7, EndStep
        <5> QED BY <5>4, <5>8, Zenon
      <4>2. CASE lidar # "RSM1" BY <4>2, Zenon DEF Ends, EndKnown
      <4> QED BY <4>1, <4>2
    <3>4. InStep(y, k) BY <1>1, <1>6, <1>7, <2>2, <3>1, <3>2, <3>3, InStepAdd
    <3>5. k \in 0..(k + 1) /\ k < k + 1 /\ k + 1 <= k + 1 + (IF lidar = "RSEMX" THEN faults' ELSE 0)
      <4>1. k \in 0..(k + 1) /\ k < k + 1 /\ k + 1 <= k + 1 + v OBVIOUS
      <4> QED BY <1>z, <4>1, Zenon
    <3> QED BY <1>4, <1>8, <1>12, <3>3, <3>4, <3>5, Zenon DEF SmallAt
  <2> QED BY <2>3, <2>4
<1> QED BY <1>11, <1>12, Zenon DEF SmallAt

LEMMA SmallCameLate ==
  ASSUME MemsInv, SmallAt(f, sent, held, faults, Waiting), NEW k \in Nat, NEW g, CameLate(k, g), Bearable', Same
  PROVE  SmallAt(f', sent', held', faults', Waiting)
<1>1. LidarInv /\ f \in Frame /\ sent \in Nat /\ faults \in Nat BY DEF MemsInv, LidarInv
<1>2. /\ k \in held /\ k + 2 = sent /\ Took(k, TRUE, FALSE, TRUE, g) /\ Cleared(g)
      /\ sent' = sent /\ faults' = faults
  BY Zenon DEF CameLate, Took
<1>3. lidar \notin {"RSM1", "RSEMX", "RSM1_JUMBO"}
  <2>1. "late" \in upset' BY DEF CameLate
  <2> QED BY <2>1, FrameFixed
<1>4. ~Jumbo /\ ~Waiting BY <1>1, <1>3 DEF Jumbo, Waiting, LidarInv
<1>5. PICK hit \in BOOLEAN, bad \in BOOLEAN, late \in BOOLEAN : hit = TRUE /\ bad = FALSE /\ late = TRUE OBVIOUS
<1>6. g \in Frame /\ \E p : PacketOf(p, k) /\ p.late /\ f' = Add(g, k, p)
  <2>1. Took(k, hit, bad, late, g) BY <1>2, <1>5, Zenon
  <2>2. bad => lidar \in {"RSEMX", "RSM1_JUMBO"} BY <1>5
  <2>3. g \in Frame /\ \E p : PacketOf(p, k) /\ p.late = late /\ f' = IF Waiting \/ bad THEN g ELSE Add(g, k, p)
    BY <1>4, <2>1, <2>2, SmallTook
  <2> QED BY <1>4, <1>5, <2>3, Zenon
<1>7. PICK p : PacketOf(p, k) /\ p.late /\ f' = Add(g, k, p) BY <1>6
<1>8. PICK l \in 0..sent : l < sent /\ sent <= l + 1 + 0 /\ InStep(f, l)
  <2>1. held # {} /\ lidar # "RSEMX" BY <1>2, <1>3
  <2> QED BY <2>1, Zenon DEF SmallAt
<1>9. l = k + 1 BY <1>1, <1>2, <1>8
<1>10. InStep(g, k + 1)
  <2>1. k + 1 \in Nat OBVIOUS
  <2>2. InStep(f, k + 1) BY <1>8, <1>9, Zenon
  <2> QED BY <1>1, <1>2, <2>1, <2>2, ClearedLinks
<1>11. PICK y : y = f' OBVIOUS
<1>12. InStep(y, k + 1) BY <1>1, <1>3, <1>6, <1>7, <1>10, <1>11, LateAdd
<1>13. EndKnown(y.sp, held') BY <1>3 DEF EndKnown
<1>14. lidar # "RSEMX" BY <1>3
<1>15. InStep(y, l) /\ l < sent /\ sent <= l + 1 + (IF lidar = "RSEMX" THEN faults' ELSE 0)
  BY <1>8, <1>9, <1>12, <1>14, Zenon
<1> QED BY <1>2, <1>4, <1>11, <1>13, <1>15, Zenon DEF SmallAt

\* All the packets of a datagram follow the first one.
LEMMA PiecesLinked ==
  ASSUME LidarInv, Jumbo, NEW k \in Nat, NEW hit \in BOOLEAN, NEW bad \in BOOLEAN, NEW late \in BOOLEAN, ~late,
         NEW x, NEW a, Pieced(a, x, k, Msop(k, hit, bad, late), bad), NEW b \in Nat, b = k * Unit,
         NEW s \in 1..Unit
  PROVE  /\ InStep(a[s], b + s - 1) => InStep(a[Unit], b + Unit - 1)
         /\ Stuck(a[s], b + s - 1) => InStep(a[Unit], b + Unit - 1) \/ Stuck(a[Unit], b + Unit - 1)
<1>1. PICK u \in Nat \ {0} : u = Unit BY UnitIs
<1>2. PICK m : m = Msop(k, hit, bad, late) OBVIOUS
<1>3. /\ \A i \in 0..u : a[i] \in Frame
      /\ \A i \in 1..u : a[i] = IF bad /\ i = 1 THEN a[i - 1] ELSE Add(a[i - 1], b + i - 1, Piece(m, i))
  BY <1>1, <1>2, Zenon DEF Pieced
<1>4. \A i \in 1..u : b + i - 1 \in Nat /\ PacketOf(Piece(m, i), b + i - 1) /\ ~Piece(m, i).late
  <2> TAKE i \in 1..u
  <2>1. i \in 1..Unit BY <1>1
  <2>2. k * Unit + i - 1 \in Nat /\ PacketOf(Piece(m, i), k * Unit + i - 1) /\ Piece(m, i).late = late
    BY <1>2, <2>1, Pieces, SMTT(30)
  <2> QED BY <2>2, Zenon
<1>5. \A y, l : ~Ends(y, l)
  <2>1. lidar # "RSM1" BY DEF Jumbo
  <2> QED BY <2>1, Zenon DEF Ends
<1>6. ASSUME NEW i \in 1..u, i + 1 <= u
      PROVE  /\ InStep(a[i], b + i - 1) => InStep(a[i + 1], b + (i + 1) - 1)
             /\ Stuck(a[i], b + i - 1) => InStep(a[i + 1], b + (i + 1) - 1) \/ Stuck(a[i + 1], b + (i + 1) - 1)
  <2>1. PICK j \in 1..u : j = i + 1 /\ j - 1 = i /\ j # 1 /\ i \in 0..u /\ j \in 0..u BY <1>6
  <2>2. PICK z \in Frame, y \in Frame : z = a[i] /\ y = a[j] BY <1>3, <2>1
  <2>3. PICK l \in Nat, n \in Nat : l = b + i - 1 /\ n = b + j - 1 BY <1>4, <2>1
  <2>4. n = l + 1 /\ l < n /\ n - l <= RANGE
    <3>1. RANGE \in Nat /\ RANGE > 1 BY Numbers
    <3> QED BY <2>1, <2>3, <3>1
  <2>5. PICK p : p = Piece(m, j) /\ PacketOf(p, n) /\ ~p.late BY <1>4, <2>1, <2>3
  <2>6. y = Add(z, n, p) BY <1>3, <2>1, <2>2, <2>3, <2>5, Zenon
  <2>7. Ends(y, n) => n % N = N - 1 BY <1>5
  <2>8. InStep(z, l) => InStep(y, n) BY <2>2, <2>4, <2>5, <2>6, <2>7, InStepAdd
  <2>9. Stuck(z, l) => InStep(y, n) \/ Stuck(y, n) BY <2>2, <2>4, <2>5, <2>6, StuckAdd
  <2> QED BY <2>1, <2>2, <2>3, <2>8, <2>9, Zenon
<1> DEFINE T == {i \in Nat : s <= i /\ i <= u =>
                   /\ InStep(a[s], b + s - 1) => InStep(a[i], b + i - 1)
                   /\ Stuck(a[s], b + s - 1) => InStep(a[i], b + i - 1) \/ Stuck(a[i], b + i - 1)}
<1>7. s \in 1..u /\ u \in Nat /\ s <= u /\ u <= u BY <1>1
<1>8. 0 \in T BY <1>7
<1>9. ASSUME NEW i \in Nat, i \in T PROVE i + 1 \in T
  <2> SUFFICES ASSUME s <= i + 1, i + 1 <= u
               PROVE  /\ InStep(a[s], b + s - 1) => InStep(a[i + 1], b + (i + 1) - 1)
                      /\ Stuck(a[s], b + s - 1) => InStep(a[i + 1], b + (i + 1) - 1) \/ Stuck(a[i + 1], b + (i + 1) - 1)
    OBVIOUS
  <2>1. CASE i + 1 = s BY <2>1, Zenon
  <2>2. CASE i + 1 # s
    <3>1. s <= i /\ i <= u /\ i \in 1..u BY <1>7, <2>2
    <3>2. /\ InStep(a[s], b + s - 1) => InStep(a[i], b + i - 1)
          /\ Stuck(a[s], b + s - 1) => InStep(a[i], b + i - 1) \/ Stuck(a[i], b + i - 1)
      BY <1>9, <3>1
    <3>3. /\ InStep(a[i], b + i - 1) => InStep(a[i + 1], b + (i + 1) - 1)
          /\ Stuck(a[i], b + i - 1) => InStep(a[i + 1], b + (i + 1) - 1) \/ Stuck(a[i + 1], b + (i + 1) - 1)
      BY <1>6, <3>1
    <3> QED BY <3>2, <3>3, Zenon
  <2> QED BY <2>1, <2>2
<1>10. u \in T
  <2>1. Nat \subseteq T
    <3> HIDE DEF T
    <3> QED BY <1>8, <1>9, Induction
  <2> QED BY <2>1
<1>11. /\ InStep(a[s], b + s - 1) => InStep(a[u], b + u - 1)
       /\ Stuck(a[s], b + s - 1) => InStep(a[u], b + u - 1) \/ Stuck(a[u], b + u - 1)
  BY <1>7, <1>10
<1> QED BY <1>1, <1>11, Zenon

LEMMA UnitPast ==
  ASSUME NEW k \in Nat, k > 0
  PROVE  k * Unit >= Unit
<1>1. PICK j \in Nat : j + 1 = k BY k - 1 \in Nat
<1>2. j * Unit \in Nat /\ (j + 1) * Unit = j * Unit + Unit BY UnitIs
<1>3. k * Unit = j * Unit + Unit BY <1>1, <1>2, Zenon
<1>4. Unit \in Nat BY UnitIs
<1> QED BY <1>2, <1>3, <1>4

LEMMA JumboCame ==
  ASSUME MemsInv, Jumbo, JumboAt(f, sent, faults), NEW skip \in 0..1, NEW hit \in BOOLEAN,
         NEW bad \in BOOLEAN, NEW comes \in BOOLEAN, NEW g, Came(skip, hit, bad, comes, g), Bearable', Same
  PROVE  JumboAt(f', sent', faults')
<1>1. LidarInv /\ f \in Frame /\ sent \in Nat /\ faults \in Nat BY DEF MemsInv, LidarInv
<1>2. PICK k \in Nat : k = sent + skip BY <1>1
<1>3. PICK late \in BOOLEAN : late = FALSE OBVIOUS
<1>4. PICK fz \in Nat : /\ fz = faults' /\ fz < 2 /\ fz >= faults + skip
                        /\ bad => fz >= faults + skip + 1
  <2>1. faults' < 2 BY FrameFixed
  <2>2. faults' = faults + skip + (IF bad THEN 1 ELSE 0) + (IF hit THEN 0 ELSE 1) BY DEF Came
  <2> QED BY <1>1, <2>1, <2>2
<1>5. sent' = k + 1 BY <1>2 DEF Came
<1>6. Took(k, hit, bad, late, g) /\ (bad => lidar \in {"RSEMX", "RSM1_JUMBO"}) BY <1>2, <1>3, Zenon DEF Came
<1>7. Cleared(g) /\ g \in Frame BY <1>6, Zenon DEF Took, Cleared
<1>8. PICK m : m = Msop(k, hit, bad, late) OBVIOUS
<1>9. f' = DecodeMsop(g, m)
  <2>1. ~(q.wait /\ ~d.ready) BY <1>1 DEF Jumbo, LidarInv
  <2> QED BY <1>6, <1>8, <2>1, Zenon DEF Took
<1>10. PICK a : Pieced(a, g, k, m, bad) /\ f' = a[Unit] BY <1>1, <1>6, <1>7, <1>8, <1>9, DecodeRun
<1>11. PICK u \in Nat, b \in Nat : u = Unit /\ u = Parts /\ b = k * Unit BY UnitIs
<1>12. u > 2 /\ 1 \in 1..u /\ 2 \in 1..u /\ RANGE \in Nat /\ RANGE > 1 BY <1>11, Numbers
<1>13. /\ a[0] = g /\ a[0] \in Frame /\ a[1] \in Frame /\ a[2] \in Frame
       /\ a[1] = (IF bad THEN g ELSE Add(g, b, Piece(m, 1)))
       /\ a[2] = Add(a[1], b + 1, Piece(m, 2))
  <2>1. /\ a[0] = g /\ \A i \in 0..u : a[i] \in Frame
        /\ \A i \in 1..u : a[i] = IF bad /\ i = 1 THEN a[i - 1] ELSE Add(a[i - 1], b + i - 1, Piece(m, i))
    BY <1>10, <1>11, Zenon DEF Pieced
  <2>2. 0 \in 0..u /\ 1 \in 0..u /\ 2 \in 0..u /\ 1 - 1 = 0 /\ 2 - 1 = 1 /\ b + 1 - 1 = b /\ b + 2 - 1 = b + 1 /\ 2 # 1
    BY <1>12
  <2>3. a[1] = IF bad /\ 1 = 1 THEN a[1 - 1] ELSE Add(a[1 - 1], b + 1 - 1, Piece(m, 1)) BY <1>12, <2>1, Zenon
  <2>4. a[2] = IF bad /\ 2 = 1 THEN a[2 - 1] ELSE Add(a[2 - 1], b + 2 - 1, Piece(m, 2)) BY <1>12, <2>1, Zenon
  <2>5. a[1] = (IF bad THEN g ELSE Add(g, b, Piece(m, 1))) BY <2>1, <2>2, <2>3, Zenon
  <2>6. a[2] = Add(a[1], b + 1, Piece(m, 2)) BY <2>2, <2>4, Zenon
  <2> QED BY <2>1, <2>2, <2>5, <2>6, Zenon
<1>14. PICK p1, p2 : /\ p1 = Piece(m, 1) /\ PacketOf(p1, b) /\ ~p1.late
                     /\ p2 = Piece(m, 2) /\ PacketOf(p2, b + 1) /\ ~p2.late
  <2>1. 1 \in 1..Unit /\ 2 \in 1..Unit BY <1>11, <1>12
  <2>2. PacketOf(Piece(m, 1), k * Unit + 1 - 1) /\ Piece(m, 1).late = late
    <3>1. PICK i \in 1..Unit : i = 1 BY <2>1
    <3>2. PacketOf(Piece(m, i), k * Unit + i - 1) /\ Piece(m, i).late = late BY <1>8, Pieces
    <3> QED BY <3>1, <3>2, Zenon
  <2>3. PacketOf(Piece(m, 2), k * Unit + 2 - 1) /\ Piece(m, 2).late = late
    <3>1. PICK i \in 1..Unit : i = 2 BY <2>1
    <3>2. PacketOf(Piece(m, i), k * Unit + i - 1) /\ Piece(m, i).late = late BY <1>8, Pieces
    <3> QED BY <3>1, <3>2, Zenon
  <2>4. b + 1 - 1 = b /\ b + 2 - 1 = b + 1 OBVIOUS
  <2> QED BY <1>3, <1>11, <2>2, <2>3, <2>4, Zenon
<1>15. \A y, l : Ends(y, l) => l % N = N - 1
  <2>1. lidar # "RSM1" BY DEF Jumbo
  <2> QED BY <2>1, Zenon DEF Ends
<1>16. sent' * Parts - 1 = b + u - 1 /\ sent' > 0
  <2>1. (k + 1) * Unit = k * Unit + Unit BY UnitIs
  <2>2. sent' * Parts = b + u BY <1>5, <1>11, <2>1, Zenon
  <2> QED BY <1>5, <2>2
<1>17. PICK y : y = f' OBVIOUS
<1>18. /\ InStep(a[1], b) => InStep(y, b + u - 1)
       /\ Stuck(a[1], b) => InStep(y, b + u - 1) \/ Stuck(y, b + u - 1)
       /\ InStep(a[2], b + 1) => InStep(y, b + u - 1)
  <2>1. b = k * Unit /\ ~late /\ 1 \in 1..Unit /\ 2 \in 1..Unit /\ b + 1 - 1 = b /\ b + 2 - 1 = b + 1
    <3>1. b + 1 - 1 = b /\ b + 2 - 1 = b + 1 OBVIOUS
    <3> QED BY <1>3, <1>11, <1>12, <3>1, Zenon
  <2>2. Pieced(a, g, k, Msop(k, hit, bad, late), bad) BY <1>8, <1>10, Zenon
  <2>3. /\ InStep(a[1], b + 1 - 1) => InStep(a[Unit], b + Unit - 1)
        /\ Stuck(a[1], b + 1 - 1) => InStep(a[Unit], b + Unit - 1) \/ Stuck(a[Unit], b + Unit - 1)
    BY <1>1, <2>1, <2>2, PiecesLinked
  <2>4. InStep(a[2], b + 2 - 1) => InStep(a[Unit], b + Unit - 1) BY <1>1, <2>1, <2>2, PiecesLinked
  <2> QED BY <1>10, <1>11, <1>17, <2>1, <2>3, <2>4, Zenon
<1>19. InStep(y, b + u - 1) \/ (fz > 0 /\ Stuck(y, b + u - 1))
  <2>1. CASE Fresh(f)
    <3>1. Fresh(g) BY <1>1, <1>7, <2>1, ClearedLinks
    <3>2. CASE ~bad
      <4>1. PICK x : x = a[1] /\ x = Add(g, b, p1) BY <1>13, <1>14, <3>2, Zenon
      <4>2. InStep(x, b) BY <1>1, <1>7, <1>14, <3>1, <4>1, FreshAdd
      <4> QED BY <1>18, <4>1, <4>2, Zenon
    <3>3. CASE bad
      <4>1. PICK x : x = a[2] /\ x = Add(g, b + 1, p2) BY <1>13, <1>14, <3>3, Zenon
      <4>2. b + 1 \in Nat OBVIOUS
      <4>3. InStep(x, b + 1) BY <1>1, <1>7, <1>14, <3>1, <4>1, <4>2, FreshAdd
      <4> QED BY <1>18, <4>1, <4>3, Zenon
    <3> QED BY <3>2, <3>3
  <2>2. CASE sent > 0 /\ InStep(f, sent * Parts - 1)
    <3>1. PICK l \in Nat : l = sent * Parts - 1 /\ (skip = 0 => b = l + 1)
      <4>3. PICK c \in Nat : c = sent * Unit BY <1>1, UnitIs
      <4>2. sent * Unit >= Unit BY <1>1, <2>2, UnitPast
      <4>4. c > 0
        <5>1. c >= u BY <1>11, <4>2, <4>3, Zenon
        <5> QED BY <1>12, <5>1
      <4>5. skip = 0 => k = sent BY <1>1, <1>2
      <4>6. skip = 0 => b = c BY <1>11, <4>3, <4>5, Zenon
      <4>7. sent * Parts = c BY <1>11, <4>3, Zenon
      <4> QED BY <4>4, <4>6, <4>7
    <3>2. InStep(g, l) BY <1>1, <1>7, <2>2, <3>1, ClearedLinks
    <3>3. CASE bad
      <4>1. skip = 0 BY <1>1, <1>4, <3>3
      <4>2. PICK x : x = a[2] /\ x = Add(g, b + 1, p2) BY <1>13, <1>14, <3>3, Zenon
      <4>3. b + 1 \in Nat /\ l < b + 1 /\ (b + 1) - l <= RANGE BY <1>12, <3>1, <4>1
      <4>4. InStep(x, b + 1) BY <1>1, <1>7, <1>14, <1>15, <3>2, <4>2, <4>3, InStepAdd
      <4> QED BY <1>18, <4>2, <4>4, Zenon
    <3>4. CASE ~bad /\ skip = 0
      <4>1. PICK x : x = a[1] /\ x = Add(g, b, p1) BY <1>13, <1>14, <3>4, Zenon
      <4>2. l < b /\ b - l <= RANGE BY <1>12, <3>1, <3>4
      <4>3. InStep(x, b) BY <1>1, <1>7, <1>14, <1>15, <3>2, <4>1, <4>2, InStepAdd
      <4> QED BY <1>18, <4>1, <4>3, Zenon
    <3>5. CASE ~bad /\ skip = 1
      <4>1. PICK x : x = a[1] /\ x = Add(g, b, p1) BY <1>13, <1>14, <3>5, Zenon
      <4>2. sent \in Nat \ {0} /\ fz > 0 BY <1>1, <1>4, <2>2, <3>5
      <4>3. b = (sent + 1) * Parts
        <5>1. k = sent + 1 BY <1>1, <1>2, <3>5
        <5> QED BY <1>11, <5>1, Zenon
      <4>4. InStep(x, b) \/ Stuck(x, b) BY <1>1, <1>7, <1>14, <3>1, <3>2, <4>1, <4>2, <4>3, JumpAdd
      <4> QED BY <1>18, <4>1, <4>2, <4>4, Zenon
    <3>6. skip = 0 \/ skip = 1 OBVIOUS
    <3> QED BY <3>3, <3>4, <3>5, <3>6
  <2>3. CASE sent > 0 /\ faults > 0 /\ Stuck(f, sent * Parts - 1)
    <3>1. skip = 0 /\ ~bad /\ fz > 0
      <4>1. skip = 0 \/ skip = 1 OBVIOUS
      <4> QED BY <1>1, <1>4, <2>3, <4>1
    <3>2. PICK l \in Nat : l = sent * Parts - 1 /\ b = l + 1
      <4>3. PICK c \in Nat : c = sent * Unit BY <1>1, UnitIs
      <4>2. sent * Unit >= Unit BY <1>1, <2>3, UnitPast
      <4>4. c > 0
        <5>1. c >= u BY <1>11, <4>2, <4>3, Zenon
        <5> QED BY <1>12, <5>1
      <4>5. k = sent BY <1>1, <1>2, <3>1
      <4>6. b = c BY <1>11, <4>3, <4>5, Zenon
      <4>7. sent * Parts = c BY <1>11, <4>3, Zenon
      <4> QED BY <4>4, <4>6, <4>7
    <3>3. Stuck(g, l) BY <1>1, <1>7, <2>3, <3>2, ClearedLinks
    <3>4. PICK x : x = a[1] /\ x = Add(g, b, p1) BY <1>13, <1>14, <3>1, Zenon
    <3>5. InStep(x, b) \/ Stuck(x, b) BY <1>1, <1>7, <1>14, <3>2, <3>3, <3>4, StuckAdd
    <3> QED BY <1>18, <3>1, <3>4, <3>5, Zenon
  <2> QED BY <2>1, <2>2, <2>3, Zenon DEF JumboAt
<1>20. faults' > 0 <=> fz > 0 BY <1>4
<1> QED BY <1>16, <1>17, <1>19, <1>20, Zenon DEF JumboAt

LEMMA BearableBefore ==
  ASSUME Same, upset \subseteq upset', faults \in Nat, faults' \in Nat, faults <= faults', Bearable'
  PROVE  Bearable
<1>1. /\ "late" \in upset' => lidar \notin {"RSM1", "RSEMX", "RSM1_JUMBO"}
      /\ "lost" \in upset' => lidar # "RSM1"
      /\ lidar = "RSEMX" => faults' < RANGE
      /\ Jumbo => faults' < 2
  BY FrameFixed
<1>2. RANGE \in Nat BY Numbers
<1>3. PICK a \in Nat, b \in Nat : a = faults /\ b = faults' OBVIOUS
<1>4. lidar = "RSEMX" => faults < RANGE
  <2>1. lidar = "RSEMX" => b < RANGE BY <1>1, <1>3, Zenon
  <2>2. lidar = "RSEMX" => a < RANGE BY <1>2, <1>3, <2>1
  <2> QED BY <1>3, <2>2, Zenon
<1>5. Jumbo => faults < 2
  <2>1. Jumbo => b < 2 BY <1>1, <1>3, Zenon
  <2>2. Jumbo => a < 2 BY <1>3, <2>1
  <2> QED BY <1>3, <2>2, Zenon
<1>6. "late" \in upset => "late" \in upset' OBVIOUS
<1>7. "lost" \in upset => "lost" \in upset' OBVIOUS
<1> QED BY <1>1, <1>4, <1>5, <1>6, <1>7, Zenon DEF Bearable

LEMMA FrameStart ==
  ASSUME Init
  PROVE  FrameInv
<1>1. Fresh(f) /\ held = {} BY DEF Init, Fresh
<1> QED BY <1>1, Zenon DEF FrameInv, JumboAt, SmallAt

LEMMA FrameStep ==
  ASSUME MemsInv, FrameInv, [Next]_vars
  PROVE  FrameInv'
<1>1. SUFFICES ASSUME Bearable'
               PROVE  IF Jumbo' THEN JumboAt(f, sent, faults)' ELSE SmallAt(f, sent, held, faults, Waiting)'
  BY Zenon DEF FrameInv
<1>2. CASE RecvDifop \/ UNCHANGED vars
  <2>1. /\ Same /\ f' = f /\ sent' = sent /\ held' = held /\ faults' = faults /\ upset' = upset
        /\ d.ready => d'.ready
    BY <1>2, DifopStep, Stutter
  <2>2. Bearable
    <3>1. faults \in Nat BY DEF MemsInv, LidarInv
    <3>2. faults' \in Nat /\ faults <= faults' BY <2>1, <3>1
    <3> QED BY <1>1, <2>1, <3>1, <3>2, BearableBefore
  <2>3. IF Jumbo THEN JumboAt(f, sent, faults) ELSE SmallAt(f, sent, held, faults, Waiting)
    BY <2>2, Zenon DEF FrameInv
  <2>4. (Waiting' <=> q.wait /\ ~d'.ready) /\ Jumbo' = Jumbo BY <2>1, FrameFixed, Fixed
  <2>5. Waiting' => Waiting BY <2>1, <2>4, Zenon DEF Waiting
  <2>6. SmallAt(f, sent, held, faults, Waiting) => SmallAt(f', sent', held', faults', Waiting')
    BY <2>1, <2>5, Zenon DEF SmallAt
  <2>7. JumboAt(f, sent, faults) => JumboAt(f', sent', faults') BY <2>1, Zenon
  <2>8. /\ JumboAt(f, sent, faults)' <=> JumboAt(f', sent', faults')
        /\ SmallAt(f, sent, held, faults, Waiting)' <=> SmallAt(f', sent', held', faults', Waiting')
    BY <2>1, FrameFixed
  <2> QED BY <2>3, <2>4, <2>6, <2>7, <2>8, Zenon
<1>3. CASE RecvMsop
  <2>1. PICK skip \in 0..1, hit \in BOOLEAN, bad \in BOOLEAN, comes \in BOOLEAN, g \in Frame :
          Came(skip, hit, bad, comes, g)
    BY <1>3, MsopStep
  <2>2. sent \in Nat /\ faults \in Nat /\ Same /\ MemsInv' BY <1>3, MsopStep DEF MemsInv, LidarInv
  <2>3. upset \subseteq upset' BY <2>1 DEF Came
  <2>4. faults' \in Nat /\ faults <= faults' BY <2>1, <2>2 DEF Came
  <2>5. Bearable BY <1>1, <2>2, <2>3, <2>4, BearableBefore
  <2>6. d' = d BY <2>1, Zenon DEF Came, Paced
  <2>7. (Waiting' <=> q.wait /\ ~d'.ready) /\ Jumbo' = Jumbo BY <2>2, FrameFixed, Fixed
  <2>8. Waiting' <=> Waiting BY <2>6, <2>7, Zenon DEF Waiting
  <2>9. /\ JumboAt(f, sent, faults)' <=> JumboAt(f', sent', faults')
        /\ SmallAt(f, sent, held, faults, Waiting)' <=> SmallAt(f', sent', held', faults', Waiting')
    BY <2>2, FrameFixed
  <2>10. CASE Jumbo
    <3>1. JumboAt(f, sent, faults) BY <2>5, <2>10, Zenon DEF FrameInv
    <3>2. JumboAt(f', sent', faults') BY <1>1, <2>1, <2>2, <2>10, <3>1, JumboCame
    <3> QED BY <2>7, <2>9, <2>10, <3>2, Zenon
  <2>11. CASE ~Jumbo
    <3>1. SmallAt(f, sent, held, faults, Waiting) BY <2>5, <2>11, Zenon DEF FrameInv
    <3>2. SmallAt(f', sent', held', faults', Waiting) BY <1>1, <2>1, <2>2, <2>11, <3>1, SmallCame
    <3>3. SmallAt(f', sent', held', faults', Waiting') BY <2>8, <3>2, Zenon DEF SmallAt
    <3> QED BY <2>7, <2>9, <2>11, <3>3, Zenon
  <2> QED BY <2>10, <2>11
<1>4. CASE RecvLate
  <2>1. PICK k \in Nat, g \in Frame : CameLate(k, g) BY <1>4, LateStep
  <2>2. sent \in Nat /\ faults \in Nat /\ Same BY <1>4, LateStep DEF MemsInv, LidarInv
  <2>3. upset \subseteq upset' /\ "late" \in upset' BY <2>1 DEF CameLate
  <2>4. faults' \in Nat /\ faults <= faults' BY <2>1, <2>2 DEF CameLate
  <2>5. Bearable BY <1>1, <2>2, <2>3, <2>4, BearableBefore
  <2>6. ~Jumbo
    <3>1. lidar \notin {"RSM1", "RSEMX", "RSM1_JUMBO"} BY <1>1, <2>2, <2>3, FrameFixed
    <3> QED BY <3>1 DEF Jumbo
  <2>7. SmallAt(f, sent, held, faults, Waiting) BY <2>5, <2>6, Zenon DEF FrameInv
  <2>8. SmallAt(f', sent', held', faults', Waiting')
    <3>1. SmallAt(f', sent', held', faults', Waiting) BY <1>1, <2>1, <2>2, <2>7, SmallCameLate
    <3>2. d' = d BY <2>1, Zenon DEF CameLate, Paced
    <3>3. Waiting' <=> q.wait /\ ~d'.ready BY <2>2, FrameFixed
    <3>4. Waiting' <=> Waiting BY <3>2, <3>3, Zenon DEF Waiting
    <3> QED BY <3>1, <3>4, Zenon DEF SmallAt
  <2>9. /\ SmallAt(f, sent, held, faults, Waiting)' <=> SmallAt(f', sent', held', faults', Waiting')
        /\ Jumbo' = Jumbo
    BY <2>2, FrameFixed, Fixed
  <2> QED BY <2>6, <2>8, <2>9, Zenon
<1> QED BY <1>2, <1>3, <1>4 DEF Next

LEMMA FramesKept == Spec => []FrameInv
<1>1. Init => FrameInv BY FrameStart
<1>2. MemsInv /\ FrameInv /\ [Next]_vars => FrameInv' BY FrameStep
<1> QED BY <1>1, <1>2, MemsTyped, PTL DEF Spec

\* The points that came in order are of one frame in each cloud.
LEMMA FrameApart ==
  ASSUME MemsInv, FrameInv, Bearable
  PROVE  \E e : Apart(f.cloud, f.out, e)
<1>1. f \in Frame BY DEF MemsInv
<1>2. CASE Fresh(f)
  <2>1. f.cloud = <<>> /\ f.out = <<>> BY <1>2 DEF Fresh
  <2>2. PICK e : e = 0 OBVIOUS
  <2>3. Apart(f.cloud, f.out, e) BY <1>1, <2>1, ApartEmpty
  <2> QED BY <2>3
<1>3. CASE ~Fresh(f)
  <2>1. \E l : InStep(f, l) \/ Stuck(f, l) BY <1>3, Zenon DEF FrameInv, JumboAt, SmallAt
  <2> QED BY <2>1, Zenon DEF InStep, Stuck
<1> QED BY <1>2, <1>3

LEMMA AtMostOne ==
  ASSUME NEW S, \A v, w \in S : v = w
  PROVE  Cardinality(S) <= 1
<1>1. CASE S = {}
  <2>1. Cardinality(S) = 0 BY <1>1, FS_EmptySet, Zenon
  <2> QED BY <2>1
<1>2. CASE S # {}
  <2>1. PICK v : v \in S BY <1>2
  <2>2. S = {v} BY <2>1
  <2>3. Cardinality(S) = 1 BY <2>2, FS_Singleton, Zenon
  <2> QED BY <2>3
<1> QED BY <1>1, <1>2

\* The frames of cloud i are those of its places.
LEMMA OnTimeAre ==
  ASSUME MemsInv, NEW i \in DOMAIN Clouds, NEW v \in OnTime(Clouds[i])
  PROVE  \E k \in Nat : v = k \div N /\ <<i, k>> \in Places(f.cloud, f.out, {FALSE})
<1>1. PICK b : b \in BlocksOf(Clouds[i]) /\ ~b.late /\ v = b.at \div N BY Zenon DEF OnTime, FrameOf
<1>2. b \in Blk BY <1>1, BlocksAre
<1>3. b.at \in Nat /\ b.late \in {FALSE} BY <1>1, <1>2 DEF Blk
<1>4. PICK a : a \in DOMAIN Clouds[i] /\ Clouds[i][a] = b BY <1>1, Zenon DEF BlocksOf
<1>5. Has(Clouds[i], b.at, {FALSE}) BY <1>3, <1>4, Zenon DEF Has, Of
<1>6. PICK n \in Nat : n = Len(f.out) BY CloudsAre
<1>7. i \in 1..(n + 1) BY <1>6, CloudsAre
<1>8. PICK k \in Nat : k = b.at BY <1>3
<1>9. \/ i \in 1..n /\ Has(f.out[i].blocks, k, {FALSE})
      \/ i = n + 1 /\ Has(f.cloud, k, {FALSE})
  <2>1. CASE i \in 1..n
    <3>1. Clouds[i] = f.out[i].blocks BY <1>6, <2>1, CloudsAre
    <3> QED BY <1>5, <1>8, <2>1, <3>1, Zenon
  <2>2. CASE i = n + 1
    <3>1. Clouds[i] = f.cloud BY <1>6, <2>2, CloudsAre
    <3> QED BY <1>5, <1>8, <2>2, <3>1, Zenon
  <2> QED BY <1>6, <1>7, <2>1, <2>2
<1>10. <<i, k>> \in Places(f.cloud, f.out, {FALSE})
  <2>1. PICK p : p = <<i, k>> OBVIOUS
  <2>2. p \in Nat \X Nat /\ p[1] = i /\ p[2] = k BY <1>6, <1>7, <2>1
  <2>3. p \in Places(f.cloud, f.out, {FALSE}) BY <1>6, <1>9, <2>2, Zenon DEF Places
  <2> QED BY <2>1, <2>3
<1> QED BY <1>1, <1>8, <1>10, Zenon

\* The clouds are those of the frames: no cloud has points of two frames, no frame
\* points in two clouds, with packets lost that the lidar's decoder can bear.
THEOREM FramesApart == Spec => []FrameInOneCloud
<1>1. MemsInv /\ FrameInv => FrameInOneCloud
  <2> SUFFICES ASSUME MemsInv, FrameInv, Bearable PROVE InOneCloud BY Zenon DEF FrameInOneCloud, Bearable
  <2>1. PICK e : Apart(f.cloud, f.out, e) BY FrameApart
  <2>2. PICK P : P = Places(f.cloud, f.out, {FALSE}) OBVIOUS
  <2>3. \A p \in P : \A r \in P : p[1] = r[1] <=> p[2] \div N = r[2] \div N BY <2>1, <2>2, Zenon DEF Apart
  <2>4. ASSUME NEW i \in DOMAIN Clouds, NEW j \in DOMAIN Clouds, NEW v \in OnTime(Clouds[i]),
               NEW w \in OnTime(Clouds[j])
        PROVE  i = j <=> v = w
    <3>1. PICK k \in Nat : v = k \div N /\ <<i, k>> \in P BY <2>2, OnTimeAre
    <3>2. PICK l \in Nat : w = l \div N /\ <<j, l>> \in P BY <2>2, OnTimeAre
    <3>3. PICK p, r : p = <<i, k>> /\ r = <<j, l>> OBVIOUS
    <3>4. p[1] = i /\ p[2] = k /\ r[1] = j /\ r[2] = l BY <3>3
    <3> QED BY <2>3, <3>1, <3>2, <3>3, <3>4, Zenon
  <2>5. ASSUME NEW i \in DOMAIN Clouds, NEW j \in DOMAIN Clouds
        PROVE  /\ Cardinality(OnTime(Clouds[i])) <= 1
               /\ i # j => OnTime(Clouds[i]) \cap OnTime(Clouds[j]) = {}
    <3>1. \A v, w \in OnTime(Clouds[i]) : v = w BY <2>4, Zenon
    <3>2. Cardinality(OnTime(Clouds[i])) <= 1 BY <3>1, AtMostOne
    <3>3. i # j => \A v \in OnTime(Clouds[i]) : v \notin OnTime(Clouds[j]) BY <2>4, Zenon
    <3>4. i # j => OnTime(Clouds[i]) \cap OnTime(Clouds[j]) = {} BY <3>3
    <3> QED BY <3>2, <3>4
  <2> QED BY <2>5, Zenon DEF InOneCloud
<1> QED BY <1>1, MemsTyped, FramesKept, PTL

-----------------------------------------------------------------------------
(* The pace of a recording *)

\* As long as every packet is decoded, both strategies are at the same packet.
PacedInv ==
  ~Jumbo =>
    /\ taken <= pkts
    /\ lidar # "RSEMX" => pre = f.sp /\ paced = splits
    /\ lidar = "RSEMX" /\ taken = pkts /\ "late" \notin upset =>
         /\ paced = splits
         /\ \/ pre.prev = 0 /\ f.sp.prev = 0
            \/ \E l \in 0..sent : sent = l + 1 /\ f.sp.prev = l % N /\ pre.prev = (l % N) + 1

\* A packet for the frame and for the pace.
LEMMA SmallPaced ==
  ASSUME MemsInv, ~Jumbo, NEW k \in Nat, NEW hit \in BOOLEAN, NEW bad \in BOOLEAN, NEW late \in BOOLEAN,
         NEW g, bad => lidar \in {"RSEMX", "RSM1_JUMBO"}, Took(k, hit, bad, late, g), Paced(Msop(k, hit, bad, late))
  PROVE  /\ pkts' = pkts + 1
         /\ Waiting \/ bad => taken' = taken /\ lidar = "RSEMX"
         /\ ~(Waiting \/ bad) =>
              /\ taken' = taken + 1
              /\ f'.sp = BySeq(f.sp, Num(k)).sp /\ pre' = BySeq(pre, (k % N) + 1).sp
              /\ splits' = splits + (IF BySeq(f.sp, Num(k)).split THEN 1 ELSE 0)
              /\ paced' = paced + (IF BySeq(pre, (k % N) + 1).split THEN 1 ELSE 0)
<1>1. LidarInv /\ taken \in Nat BY DEF MemsInv, LidarInv
<1>2. PICK m : m = Msop(k, hit, bad, late) OBVIOUS
<1>3. Taken(m) = IF q.wait /\ ~d.ready THEN 0 ELSE IF bad THEN Unit - 1 ELSE Unit BY <1>1, <1>2, TakenIs
<1>4. Unit = 1 BY UnitIs
<1>5. pkts' = pkts + 1 /\ taken' = taken + Taken(m) BY <1>2, Zenon DEF Paced
<1>6. g.sp = f.sp /\ g.ret = FALSE BY Zenon DEF Took, Cleared
<1>7. g \in Frame /\ \E p : PacketOf(p, k) /\ p.late = late /\ f' = IF Waiting \/ bad THEN g ELSE Add(g, k, p)
  BY SmallTook
<1>8. ASSUME Waiting \/ bad PROVE taken' = taken /\ lidar = "RSEMX"
  <2>1. Taken(m) = 0
    <3>1. CASE Waiting BY <1>3, <3>1, Zenon DEF Waiting
    <3>2. CASE ~Waiting
      <4>1. Taken(m) = Unit - 1 BY <1>3, <1>8, <3>2, Zenon DEF Waiting
      <4> QED BY <1>4, <4>1
    <3> QED BY <3>1, <3>2
  <2>2. lidar = "RSEMX"
    <3>1. Waiting => lidar = "RSEMX" BY <1>1, Zenon DEF Waiting, LidarInv
    <3>2. bad => lidar = "RSEMX" BY DEF Jumbo
    <3> QED BY <1>8, <3>1, <3>2
  <2> QED BY <1>1, <1>5, <2>1, <2>2
<1>9. ASSUME ~(Waiting \/ bad)
      PROVE  /\ taken' = taken + 1
             /\ f'.sp = BySeq(f.sp, Num(k)).sp /\ pre' = BySeq(pre, (k % N) + 1).sp
             /\ splits' = splits + (IF BySeq(f.sp, Num(k)).split THEN 1 ELSE 0)
             /\ paced' = paced + (IF BySeq(pre, (k % N) + 1).split THEN 1 ELSE 0)
  <2>1. Taken(m) = 1 BY <1>3, <1>4, <1>9, Zenon DEF Waiting
  <2>2. PICK p : PacketOf(p, k) /\ f' = Add(g, k, p) BY <1>7, <1>9, Zenon
  <2>3. PICK y : y = f' OBVIOUS
  <2>4. y = Add(g, k, p) BY <2>2, <2>3
  <2>5. PICK r : r = BySeq(g.sp, Num(k)) OBVIOUS
  <2>6. y.sp = r.sp BY <1>1, <1>7, <2>2, <2>4, <2>5, AddStrategy, Zenon
  <2>7. (r.split => y.ret) /\ (~r.split => y.ret = g.ret) BY <1>1, <1>7, <2>2, <2>4, <2>5, AddIs
  <2>8. (IF y.ret THEN 1 ELSE 0) = (IF r.split THEN 1 ELSE 0) BY <1>6, <2>7, Zenon
  <2>9. splits' = splits + (IF r.split THEN 1 ELSE 0)
    <3>1. splits' = splits + (IF f'.ret THEN 1 ELSE 0) BY Zenon DEF Paced
    <3> QED BY <2>3, <2>8, <3>1, Zenon
  <2>10. m.seq = (k % N) + 1
    <3>1. 1 \in 1..Unit /\ k * Unit + 1 - 1 = k
      <4>1. k * 1 = k BY SMTT(20)
      <4> QED BY <1>4, <4>1
    <3>2. PacketOf(Piece(m, 1), k * Unit + 1 - 1) BY <1>2, <3>1, Pieces
    <3>3. PacketOf(m, k)
      <4>1. Piece(m, 1) = m BY Zenon DEF Piece
      <4> QED BY <3>1, <3>2, <4>1, Zenon
    <3> QED BY <3>3, Zenon DEF PacketOf
  <2>11. pre' = BySeq(pre, m.seq).sp /\ paced' = paced + (IF BySeq(pre, m.seq).split THEN 1 ELSE 0)
    BY <1>2, Zenon DEF Paced, Pace, IsNewFrameCommon
  <2> QED BY <1>5, <1>6, <2>1, <2>3, <2>5, <2>6, <2>9, <2>10, <2>11, Zenon
<1> QED BY <1>5, <1>8, <1>9

LEMMA PacedStart ==
  ASSUME Init
  PROVE  PacedInv
<1>1. f.sp = NewStrategy /\ pre = NewStrategy /\ NewStrategy.prev = 0 BY DEF Init, NewStrategy
<1>2. taken = 0 /\ pkts = 0 /\ paced = 0 /\ splits = 0 BY DEF Init
<1> QED BY <1>1, <1>2 DEF PacedInv

\* The pace is the frames', whatever the lidar counts from.
LEMMA PacedSmall ==
  ASSUME MemsInv, ~Jumbo, PacedInv, NEW k \in Nat, NEW hit \in BOOLEAN, NEW bad \in BOOLEAN, NEW late \in BOOLEAN,
         NEW g, bad => lidar \in {"RSEMX", "RSM1_JUMBO"}, Took(k, hit, bad, late, g), Paced(Msop(k, hit, bad, late)),
         lidar = "RSEMX" /\ "late" \notin upset' =>
           k >= sent /\ k <= sent + 1 /\ sent' = k + 1 /\ "late" \notin upset
  PROVE  /\ taken' <= pkts'
         /\ lidar # "RSEMX" => pre' = f'.sp /\ paced' = splits'
         /\ lidar = "RSEMX" /\ taken' = pkts' /\ "late" \notin upset' =>
              /\ paced' = splits'
              /\ \/ pre'.prev = 0 /\ f'.sp.prev = 0
                 \/ \E l \in 0..sent' : sent' = l + 1 /\ f'.sp.prev = l % N /\ pre'.prev = (l % N) + 1
<1>1. LidarInv /\ taken \in Nat /\ pkts \in Nat /\ sent \in Nat /\ f.sp \in Strategy /\ pre \in Strategy
  BY DEF MemsInv, LidarInv, Frame
<1>2. /\ pkts' = pkts + 1
      /\ Waiting \/ bad => taken' = taken /\ lidar = "RSEMX"
      /\ ~(Waiting \/ bad) =>
           /\ taken' = taken + 1
           /\ f'.sp = BySeq(f.sp, Num(k)).sp /\ pre' = BySeq(pre, (k % N) + 1).sp
           /\ splits' = splits + (IF BySeq(f.sp, Num(k)).split THEN 1 ELSE 0)
           /\ paced' = paced + (IF BySeq(pre, (k % N) + 1).split THEN 1 ELSE 0)
  BY SmallPaced
<1>3. taken <= pkts BY DEF PacedInv
<1>4. CASE Waiting \/ bad
  <2>1. taken' <= pkts' /\ taken' # pkts' /\ lidar = "RSEMX" BY <1>1, <1>2, <1>3, <1>4
  <2> QED BY <2>1
<1>5. CASE ~(Waiting \/ bad)
  <2>1. taken' <= pkts' /\ (taken' = pkts' => taken = pkts) BY <1>1, <1>2, <1>3, <1>5
  <2>2. PICK r, s : r = BySeq(f.sp, Num(k)) /\ s = BySeq(pre, (k % N) + 1) OBVIOUS
  <2>3. PICK z, w : z = f'.sp /\ w = pre' OBVIOUS
  <2>4. /\ z = r.sp /\ w = s.sp /\ splits' = splits + (IF r.split THEN 1 ELSE 0)
        /\ paced' = paced + (IF s.split THEN 1 ELSE 0)
    BY <1>2, <1>5, <2>2, <2>3, Zenon
  <2>5. CASE lidar # "RSEMX"
    <3>1. pre = f.sp /\ paced = splits BY <2>5, Zenon DEF PacedInv
    <3>2. Num(k) = (k % N) + 1 BY <2>5, Zenon DEF Num
    <3>3. r = s BY <2>2, <3>1, <3>2, Zenon
    <3> QED BY <2>1, <2>3, <2>4, <2>5, <3>1, <3>3, Zenon
  <2>6. CASE lidar = "RSEMX"
    <3>1. SUFFICES ASSUME taken = pkts, "late" \notin upset'
                   PROVE  /\ paced' = splits'
                          /\ \E l \in 0..sent' : sent' = l + 1 /\ z.prev = l % N /\ w.prev = (l % N) + 1
      BY <2>1, <2>3, <2>6, Zenon
    <3>2. k >= sent /\ k <= sent + 1 /\ sent' = k + 1 /\ "late" \notin upset BY <2>6, <3>1
    <3>3. /\ paced = splits
          /\ \/ pre.prev = 0 /\ f.sp.prev = 0
             \/ \E l \in 0..sent : sent = l + 1 /\ f.sp.prev = l % N /\ pre.prev = (l % N) + 1
      BY <2>6, <3>1, <3>2, Zenon DEF PacedInv
    <3>4. PICK a \in 0..N, b \in 0..N : a = k % N /\ b = a + 1
      <4>1. k % N \in 0..(N - 1) /\ N \in Nat BY Numbers, Divided
      <4> QED BY <4>1
    <3>5. Num(k) = a BY <2>6, <3>4, Zenon DEF Num
    <3>6. (r.split <=> s.split) /\ z.prev = a /\ w.prev = b
      <4>1. CASE pre.prev = 0 /\ f.sp.prev = 0
        <5>1. ~BySeq(f.sp, a).split /\ BySeq(f.sp, a).sp.prev = a BY <1>1, <4>1, StrategyBegins
        <5>2. ~BySeq(pre, b).split /\ BySeq(pre, b).sp.prev = b BY <1>1, <4>1, StrategyBegins
        <5> QED BY <2>2, <2>4, <3>4, <3>5, <5>1, <5>2, Zenon
      <4>2. CASE \E l \in 0..sent : sent = l + 1 /\ f.sp.prev = l % N /\ pre.prev = (l % N) + 1
        <5>1. PICK l \in 0..sent : sent = l + 1 /\ f.sp.prev = l % N /\ pre.prev = (l % N) + 1 BY <4>2
        <5>2. l \in Nat /\ l < k /\ k - l <= RANGE
          <6>1. RANGE \in Nat /\ RANGE > 1 BY Numbers
          <6> QED BY <1>1, <3>2, <5>1, <6>1
        <5>3. PICK c \in {0, 1} : c = 0 OBVIOUS
        <5>4. f.sp.prev = (l % N) + c
          <6>1. PICK v \in Nat : v = l % N
            <7>1. l % N \in 0..(N - 1) /\ N \in Nat BY <5>2, Numbers, Divided
            <7> QED BY <7>1
          <6>2. v + c = v BY <5>3, <6>1
          <6> QED BY <5>1, <6>1, <6>2, Zenon
        <5>5. /\ BySeq(f.sp, (k % N) + c).split <=> k \div N # l \div N
              /\ BySeq(f.sp, (k % N) + c).sp.prev = (k % N) + c
          BY <1>1, <5>2, <5>4, StrategyFollows
        <5>6. PICK e \in {0, 1} : e = 1 OBVIOUS
        <5>7. pre.prev = (l % N) + e BY <5>1, <5>6, Zenon
        <5>8. /\ BySeq(pre, (k % N) + e).split <=> k \div N # l \div N
              /\ BySeq(pre, (k % N) + e).sp.prev = (k % N) + e
          BY <1>1, <5>2, <5>7, StrategyFollows
        <5>9. (k % N) + c = a BY <3>4, <5>3
        <5>10. (k % N) + e = b BY <3>4, <5>6
        <5>11. /\ BySeq(f.sp, a).split <=> k \div N # l \div N
               /\ BySeq(f.sp, a).sp.prev = a
          BY <5>5, <5>9, Zenon
        <5>12. /\ BySeq(pre, b).split <=> k \div N # l \div N
               /\ BySeq(pre, b).sp.prev = b
          BY <5>8, <5>10, Zenon
        <5>13. r = BySeq(f.sp, a) /\ s = BySeq(pre, b) BY <2>2, <3>4, <3>5, Zenon
        <5> QED BY <2>4, <5>11, <5>12, <5>13, Zenon
      <4> QED BY <3>3, <4>1, <4>2
    <3>7. paced' = splits' BY <2>4, <3>3, <3>6, Zenon
    <3>8. k \in 0..sent' BY <3>2
    <3> QED BY <3>2, <3>4, <3>6, <3>7, <3>8, Zenon
  <2> QED BY <2>5, <2>6
<1> QED BY <1>4, <1>5

LEMMA PacedStep ==
  ASSUME MemsInv, PacedInv, [Next]_vars
  PROVE  PacedInv'
<1>1. CASE RecvDifop \/ UNCHANGED vars
  <2>1. /\ Same /\ f' = f /\ sent' = sent /\ taken' = taken /\ upset' = upset /\ pkts' = pkts /\ pre' = pre
        /\ paced' = paced /\ splits' = splits
    BY <1>1, DifopStep, Stutter
  <2>2. Jumbo' = Jumbo /\ lidar' = lidar BY <2>1, Fixed DEF Same
  <2> QED BY <2>1, <2>2, Zenon DEF PacedInv
<1>2. CASE RecvMsop
  <2>1. PICK skip \in 0..1, hit \in BOOLEAN, bad \in BOOLEAN, comes \in BOOLEAN, g \in Frame :
          Came(skip, hit, bad, comes, g)
    BY <1>2, MsopStep
  <2>2. sent \in Nat /\ Same /\ Jumbo' = Jumbo /\ lidar' = lidar
    BY <1>2, MsopStep, Fixed DEF MemsInv, LidarInv, Same
  <2>3. PICK k \in Nat : k = sent + skip BY <2>2
  <2>4. PICK late \in BOOLEAN : late = FALSE OBVIOUS
  <2>5. /\ Took(k, hit, bad, late, g) /\ Paced(Msop(k, hit, bad, late))
        /\ bad => lidar \in {"RSEMX", "RSM1_JUMBO"}
    BY <2>1, <2>3, <2>4, Zenon DEF Came
  <2>6. k >= sent /\ k <= sent + 1 /\ sent' = k + 1 BY <2>1, <2>2, <2>3 DEF Came
  <2>7. upset \subseteq upset' BY <2>1 DEF Came
  <2>8. "late" \notin upset' => "late" \notin upset BY <2>7
  <2>9. CASE Jumbo BY <2>2, <2>9, Zenon DEF PacedInv
  <2>10. CASE ~Jumbo
    <3>1. /\ taken' <= pkts'
          /\ lidar # "RSEMX" => pre' = f'.sp /\ paced' = splits'
          /\ lidar = "RSEMX" /\ taken' = pkts' /\ "late" \notin upset' =>
               /\ paced' = splits'
               /\ \/ pre'.prev = 0 /\ f'.sp.prev = 0
                  \/ \E l \in 0..sent' : sent' = l + 1 /\ f'.sp.prev = l % N /\ pre'.prev = (l % N) + 1
      BY <2>5, <2>6, <2>8, <2>10, PacedSmall
    <3> QED BY <2>2, <3>1, Zenon DEF PacedInv
  <2> QED BY <2>9, <2>10
<1>3. CASE RecvLate
  <2>1. PICK k \in Nat, g \in Frame : CameLate(k, g) BY <1>3, LateStep
  <2>2. Same /\ Jumbo' = Jumbo /\ lidar' = lidar BY <1>3, LateStep, Fixed DEF Same
  <2>3. PICK hit \in BOOLEAN, bad \in BOOLEAN, late \in BOOLEAN : hit = TRUE /\ bad = FALSE /\ late = TRUE OBVIOUS
  <2>4. Took(k, hit, bad, late, g) /\ Paced(Msop(k, hit, bad, late)) BY <2>1, <2>3, Zenon DEF CameLate
  <2>5. "late" \in upset' BY <2>1 DEF CameLate
  <2>6. bad => lidar \in {"RSEMX", "RSM1_JUMBO"} BY <2>3
  <2>7. CASE Jumbo BY <2>2, <2>7, Zenon DEF PacedInv
  <2>8. CASE ~Jumbo
    <3>1. /\ taken' <= pkts'
          /\ lidar # "RSEMX" => pre' = f'.sp /\ paced' = splits'
      BY <2>4, <2>5, <2>6, <2>8, PacedSmall
    <3> QED BY <2>2, <2>5, <3>1, Zenon DEF PacedInv
  <2> QED BY <2>7, <2>8
<1> QED BY <1>1, <1>2, <1>3 DEF Next

LEMMA PacedKept == Spec => []PacedInv
<1>1. Init => PacedInv BY PacedStart
<1>2. MemsInv /\ PacedInv /\ [Next]_vars => PacedInv' BY PacedStep
<1> QED BY <1>1, <1>2, MemsTyped, PTL DEF Spec

\* A recording is played at the pace of the frames: isNewFrame reports as many as
\* decodeMsopPkt begins, as long as every packet is decoded.
THEOREM PaceIsFrames == Spec => []PacedAsSplit
<1>1. PacedInv => PacedAsSplit BY Zenon DEF PacedInv, PacedAsSplit
<1> QED BY <1>1, PacedKept, PTL

-----------------------------------------------------------------------------
(* The stamps *)

LastTs(c) == c[Len(c)].ts
InOrder(o, i) ==
  IF q.first THEN LastTs(o[i - 1].blocks) <= o[i].stamp /\ o[i].stamp <= o[i].blocks[1].ts
  ELSE LastTs(o[i - 1].blocks) <= o[i - 1].stamp /\ o[i - 1].stamp <= o[i].blocks[1].ts

\* The times of the clouds that were handed out, up to t.
OutTimed(o, t) ==
  /\ \A i \in DOMAIN o : /\ LastTs(o[i].blocks) <= t
                         /\ ~q.first => o[i].stamp <= t /\ LastTs(o[i].blocks) <= o[i].stamp
  /\ \A i \in 2..Len(o) : InOrder(o, i)

\* The times of the cloud c that is built since first.
CloudTimed(c, o, first, t) ==
  /\ \A a \in DOMAIN c : c[a].ts <= t
  /\ c # <<>> => first <= c[1].ts
  /\ c # <<>> /\ o # <<>> =>
       IF q.first THEN LastTs(o[Len(o)].blocks) <= c[1].ts ELSE o[Len(o)].stamp <= c[1].ts
FirstTimed(o, first) == q.first /\ o # <<>> => LastTs(o[Len(o)].blocks) <= first

\* When an RSM1 has ended a frame, the next one has not begun yet.
Stale(x) == lidar = "RSM1" /\ x.sp.prev = N /\ x.cloud = <<>>
Timed(x, stale) ==
  /\ x.first <= x.prev /\ OutTimed(x.out, x.prev) /\ CloudTimed(x.cloud, x.out, x.first, x.prev)
  /\ stale \/ FirstTimed(x.out, x.first)
InTime == "late" \notin upset /\ (lidar = "RSM1" => "lost" \notin upset)
TimedInv == InTime => Timed(f, Stale(f)) /\ f.prev <= (sent * Unit) * Span

LEMMA SpanIs ==
  ASSUME LidarInv, NEW a \in Nat, NEW b \in Nat, a <= b
  PROVE  a * Span \in Nat /\ b * Span \in Nat /\ a * Span <= b * Span
<1>1. 1 \in 1..Const.blocks
  <2>1. Const.blocks \in Nat \ {0} BY Configured, ConstIs
  <2> QED BY <2>1
<1>2. /\ TimeOf(a, 1) = a * Span /\ a * Span \in Nat /\ b * Span \in Nat
      /\ \A l \in Nat : a < l => TimeOf(a, 1) < l * Span
  BY <1>1, TimeIs
<1>3. PICK v \in Nat, w \in Nat : v = a * Span /\ w = b * Span BY <1>2
<1>4. CASE a = b BY <1>3, <1>4
<1>5. CASE a # b
  <2>1. a < b BY <1>5
  <2>2. TimeOf(a, 1) < b * Span BY <1>2, <2>1
  <2>3. v < w BY <1>2, <1>3, <2>2, Zenon
  <2>4. v <= w BY <1>3, <2>3
  <2> QED BY <1>3, <2>4, Zenon
<1> QED BY <1>4, <1>5

\* Clouds of which the times are known.
LEMMA CloudTimes ==
  ASSUME NEW c \in Seq(Blk), c # <<>>
  PROVE  /\ Len(c) \in DOMAIN c /\ 1 \in DOMAIN c /\ LastTs(c) \in Nat /\ c[1].ts \in Nat
         /\ \A a \in DOMAIN c : c[a].ts \in Nat
<1>1. Len(c) \in DOMAIN c /\ 1 \in DOMAIN c OBVIOUS
<1>2. \A a \in DOMAIN c : c[a] \in Blk OBVIOUS
<1>3. \A b \in Blk : b.ts \in Nat BY Zenon DEF Blk
<1> QED BY <1>1, <1>2, <1>3, Zenon DEF LastTs

LEMMA OutTimes ==
  ASSUME NEW o \in Seq(HandedOut), NEW i \in DOMAIN o
  PROVE  o[i].stamp \in Nat /\ o[i].blocks \in Seq(Blk) \ {<<>>} /\ LastTs(o[i].blocks) \in Nat
         /\ o[i].blocks[1].ts \in Nat
<1>1. o[i] \in HandedOut OBVIOUS
<1>2. o[i].stamp \in Nat /\ o[i].blocks \in Seq(Blk) \ {<<>>} BY <1>1 DEF HandedOut
<1> QED BY <1>2, CloudTimes

LEMMA OutLater ==
  ASSUME NEW o \in Seq(HandedOut), NEW t \in Nat, NEW v \in Nat, t <= v, OutTimed(o, t)
  PROVE  OutTimed(o, v)
<1>1. ASSUME NEW i \in DOMAIN o
      PROVE  /\ LastTs(o[i].blocks) <= v
             /\ ~q.first => o[i].stamp <= v /\ LastTs(o[i].blocks) <= o[i].stamp
  <2>1. PICK a \in Nat, b \in Nat : a = o[i].stamp /\ b = LastTs(o[i].blocks) BY OutTimes
  <2>2. b <= t /\ (~q.first => a <= t /\ b <= a) BY <2>1, Zenon DEF OutTimed
  <2>3. b <= v /\ (~q.first => a <= v /\ b <= a) BY <2>1, <2>2
  <2> QED BY <2>1, <2>3, Zenon
<1> QED BY <1>1, Zenon DEF OutTimed

\* A cloud that is handed out follows those before it.
LEMMA HandTimed ==
  ASSUME NEW x \in Frame, NEW stale \in BOOLEAN, Timed(x, stale), stale => x.cloud = <<>>
  PROVE  OutTimed(Handed(x), x.prev)
<1>1. PICK o \in Seq(HandedOut), c \in Seq(Blk), t \in Nat, r \in Nat :
        o = x.out /\ c = x.cloud /\ t = x.prev /\ r = x.first
  BY DEF Frame
<1>2. PICK n \in Nat : n = Len(o) /\ DOMAIN o = 1..n OBVIOUS
<1>3. CASE c = <<>> BY <1>1, <1>3, Zenon DEF Handed, Timed
<1>4. CASE c # <<>>
  <2>1. PICK v : v = CloudTs(q, x) OBVIOUS
  <2>2. v = IF q.first THEN r ELSE t BY <1>1, <2>1, Zenon DEF CloudTs
  <2>3. v \in Nat BY <2>2
  <2>4. PICK h : h = IF q.dense THEN 1 ELSE Const.lasers OBVIOUS
  <2>5. PICK e : e = [stamp |-> v, height |-> h, blocks |-> c] OBVIOUS
  <2>6. e.stamp = v /\ e.blocks = c BY <2>5
  <2>7. Handed(x) = Append(o, e) BY <1>1, <1>4, <2>1, <2>4, <2>5, Zenon DEF Handed
  <2>8. PICK s : s = Append(o, e) OBVIOUS
  <2>9. Len(s) = n + 1 /\ DOMAIN s = 1..(n + 1) /\ s[n + 1] = e /\ \A i \in 1..n : s[i] = o[i] BY <1>2, <2>8
  <2>10. /\ OutTimed(o, t) /\ CloudTimed(c, o, r, t) /\ FirstTimed(o, r) /\ r <= t
    BY <1>1, <1>4, Zenon DEF Timed
  <2>11. PICK l \in Nat, b \in Nat : l = LastTs(c) /\ b = c[1].ts BY <1>4, CloudTimes
  <2>12. l <= t /\ r <= b
    <3>1. l <= t
      <4>1. Len(c) \in DOMAIN c BY <1>4, CloudTimes
      <4> QED BY <2>10, <2>11, <4>1, Zenon DEF CloudTimed, LastTs
    <3>2. r <= b BY <1>4, <2>10, <2>11, Zenon DEF CloudTimed
    <3> QED BY <3>1, <3>2
  <2>13. ASSUME NEW i \in 1..(n + 1)
         PROVE  /\ LastTs(s[i].blocks) <= t
                /\ ~q.first => s[i].stamp <= t /\ LastTs(s[i].blocks) <= s[i].stamp
    <3>1. CASE i \in 1..n BY <1>2, <2>9, <2>10, <3>1, Zenon DEF OutTimed
    <3>2. CASE i = n + 1
      <4>1. s[i] = e BY <2>9, <3>2
      <4>2. l <= t /\ (~q.first => v <= t /\ l <= v) BY <2>2, <2>12
      <4> QED BY <2>6, <2>11, <4>1, <4>2, Zenon
    <3> QED BY <1>2, <3>1, <3>2
  <2>14. ASSUME NEW i \in 2..(n + 1) PROVE InOrder(s, i)
    <3>1. PICK j \in 1..n : j = i - 1 BY <1>2
    <3>2. s[j] = o[j] BY <2>9
    <3>3. CASE i \in 1..n
      <4>1. s[i] = o[i] /\ i \in 2..Len(o) BY <1>2, <2>9, <3>3
      <4>2. InOrder(o, i) BY <2>10, <4>1, Zenon DEF OutTimed
      <4> QED BY <3>1, <3>2, <4>1, <4>2, Zenon DEF InOrder
    <3>4. CASE i = n + 1
      <4>1. s[i] = e /\ j = n /\ o # <<>> BY <1>2, <2>9, <3>1, <3>4
      <4>2. PICK a \in Nat, w \in Nat : a = LastTs(o[j].blocks) /\ w = o[j].stamp BY <1>2, OutTimes
      <4>3. CASE q.first
        <5>1. a <= r BY <1>2, <2>10, <4>1, <4>2, <4>3, Zenon DEF FirstTimed
        <5>2. a <= v /\ v <= b BY <2>2, <2>12, <4>3, <5>1
        <5> QED BY <2>6, <2>11, <3>1, <3>2, <4>1, <4>2, <4>3, <5>2, Zenon DEF InOrder
      <4>4. CASE ~q.first
        <5>1. a <= w BY <1>2, <2>10, <4>2, <4>4, Zenon DEF OutTimed
        <5>2. w <= b BY <1>2, <1>4, <2>10, <2>11, <4>1, <4>2, <4>4, Zenon DEF CloudTimed
        <5> QED BY <2>6, <2>11, <3>1, <3>2, <4>1, <4>2, <4>4, <5>1, <5>2, Zenon DEF InOrder
      <4> QED BY <4>3, <4>4
    <3> QED BY <1>2, <3>3, <3>4
  <2>15. OutTimed(s, t) BY <2>9, <2>13, <2>14, Zenon DEF OutTimed
  <2> QED BY <1>1, <2>7, <2>8, <2>15, Zenon
<1> QED BY <1>3, <1>4

\* The points of a packet follow those before them.
LEMMA FillTimed ==
  ASSUME LidarInv, NEW k \in Nat, NEW p, PacketOf(p, k), NEW c \in Seq(Blk), NEW o \in Seq(HandedOut),
         NEW first \in Nat, NEW t \in Nat, first <= k * Span, t <= k * Span,
         OutTimed(o, t), CloudTimed(c, o, first, t)
  PROVE  CloudTimed(c \o Part(p, Const.blocks), o, first, TimeOf(k, Const.blocks))
<1>1. PICK n \in Nat \ {0} : n = Const.blocks BY Configured, ConstIs
<1>2. n \in 1..Const.blocks /\ n \in 0..Const.blocks BY <1>1
<1>3. PICK e \in Nat, b \in Nat : e = TimeOf(k, n) /\ b = k * Span /\ b <= e BY <1>1, <1>2, TimeIs
<1>4. \A i \in DOMAIN c : c[i].ts <= e
  <2> TAKE i \in DOMAIN c
  <2>1. c # <<>> OBVIOUS
  <2>2. PICK v \in Nat : v = c[i].ts BY <2>1, CloudTimes
  <2>3. v <= t BY <2>2, Zenon DEF CloudTimed
  <2>4. v <= e BY <1>3, <2>3
  <2> QED BY <2>2, <2>4, Zenon
<1>5. CASE ~(p.hit \/ ~q.dense)
  <2>1. Part(p, n) = <<>> BY <1>1, <1>2, <1>5, PartTyped
  <2>2. c \o <<>> = c OBVIOUS
  <2>3. CloudTimed(c, o, first, e) BY <1>4, Zenon DEF CloudTimed
  <2> QED BY <1>1, <1>3, <2>1, <2>2, <2>3, Zenon
<1>6. CASE p.hit \/ ~q.dense
  <2>1. PICK s \in Seq(Blk) : s = Part(p, n) /\ Len(s) = n /\ \A i \in 1..n : s[i] = Block(p, i)
    BY <1>1, <1>2, <1>6, PartTyped
  <2>2. \A i \in 1..n : s[i].ts \in Nat /\ b <= s[i].ts /\ s[i].ts <= e
    <3> TAKE i \in 1..n
    <3>1. i \in 1..Const.blocks BY <1>1
    <3>2. s[i].ts = TimeOf(k, i) BY <2>1, <3>1, BlockTyped
    <3>3. TimeOf(k, i) \in Nat /\ TimeOf(k, i) >= k * Span /\ TimeOf(k, Const.blocks) >= TimeOf(k, i) BY <3>1, TimeIs
    <3>4. PICK v \in Nat : v = TimeOf(k, i) BY <3>3
    <3>5. v >= b /\ e >= v BY <1>1, <1>3, <3>3, <3>4, Zenon
    <3>6. b <= v /\ v <= e BY <1>3, <3>5
    <3> QED BY <3>2, <3>4, <3>6, Zenon
  <2>3. PICK m \in Nat : m = Len(c) /\ DOMAIN c = 1..m OBVIOUS
  <2>4. PICK w : w = c \o s OBVIOUS
  <2>5. /\ DOMAIN w = 1..(m + n) /\ \A i \in 1..m : w[i] = c[i]
        /\ \A i \in (m + 1)..(m + n) : w[i] = s[i - m]
    <3>1. Len(w) = m + n /\ w \in Seq(Blk)
      <4>1. Len(c \o s) = Len(c) + Len(s) /\ c \o s \in Seq(Blk) OBVIOUS
      <4> QED BY <2>1, <2>3, <2>4, <4>1
    <3>2. DOMAIN w = 1..(m + n) BY <3>1
    <3>3. \A i \in 1..m : w[i] = c[i] BY <2>1, <2>3, <2>4
    <3>4. \A i \in (m + 1)..(m + n) : w[i] = s[i - m] BY <2>1, <2>3, <2>4
    <3> QED BY <3>2, <3>3, <3>4
  <2>6. \A i \in DOMAIN w : w[i].ts <= e
    <3> TAKE i \in DOMAIN w
    <3>1. CASE i \in 1..m BY <1>4, <2>3, <2>5, <3>1, Zenon
    <3>2. CASE i \notin 1..m
      <4>1. PICK j \in 1..n : j = i - m /\ i \in (m + 1)..(m + n) BY <1>1, <2>3, <2>5, <3>2
      <4>2. w[i] = s[j] BY <2>5, <4>1, Zenon
      <4> QED BY <2>2, <4>2, Zenon
    <3> QED BY <3>1, <3>2
  <2>7. first <= w[1].ts /\ (o # <<>> => IF q.first THEN LastTs(o[Len(o)].blocks) <= w[1].ts ELSE o[Len(o)].stamp <= w[1].ts)
    <3>1. CASE c # <<>>
      <4>1. w[1] = c[1] BY <2>3, <2>5, <3>1
      <4> QED BY <3>1, <4>1, Zenon DEF CloudTimed
    <3>2. CASE c = <<>>
      <4>1. w[1] = s[1] /\ 1 \in 1..n BY <1>1, <2>1, <2>4, <3>2
      <4>2. PICK v \in Nat : v = w[1].ts /\ b <= v BY <2>2, <4>1, Zenon
      <4>3. first <= v BY <1>3, <4>2
      <4>4. ASSUME o # <<>> PROVE IF q.first THEN LastTs(o[Len(o)].blocks) <= v ELSE o[Len(o)].stamp <= v
        <5>1. PICK z \in DOMAIN o : z = Len(o) BY <4>4
        <5>2. PICK y \in Nat, g \in Nat : y = LastTs(o[z].blocks) /\ g = o[z].stamp BY OutTimes
        <5>3. y <= t /\ (~q.first => g <= t) BY <5>2, Zenon DEF OutTimed
        <5>4. y <= v /\ (~q.first => g <= v) BY <1>3, <4>2, <5>2, <5>3
        <5> QED BY <5>1, <5>2, <5>4, Zenon
      <4> QED BY <4>2, <4>3, <4>4, Zenon
    <3> QED BY <3>1, <3>2
  <2>8. CloudTimed(w, o, first, e) BY <2>6, <2>7, Zenon DEF CloudTimed
  <2> QED BY <1>1, <1>3, <2>1, <2>4, <2>8, Zenon
<1> QED BY <1>5, <1>6

\* What a packet does to the times.
LEMMA AddTimed ==
  ASSUME LidarInv, NEW k \in Nat, NEW p, PacketOf(p, k), NEW x \in Frame, NEW stale \in BOOLEAN, Timed(x, stale),
         stale => x.cloud = <<>> /\ BySeq(x.sp, Num(k)).split, x.prev <= k * Span,
         NEW y, y = Add(x, k, p), NEW ended \in BOOLEAN, Ends(y, k) => ended
  PROVE  Timed(y, ended) /\ y.prev <= (k + 1) * Span /\ y \in Frame
<1>1. PICK n \in Nat \ {0} : n = Const.blocks BY Configured, ConstIs
<1>2. n \in 1..Const.blocks BY <1>1
<1>3. PICK e \in Nat, b \in Nat : e = TimeOf(k, n) /\ b = k * Span /\ b <= e BY <1>1, <1>2, TimeIs
<1>4. PICK s : s = BySeq(x.sp, Num(k)).split OBVIOUS
<1>5. y \in Frame /\ y.prev = e /\ y.first = (IF s THEN b ELSE x.first)
  <2>1. y \in Frame BY AddTyped
  <2>2. y.prev = TimeOf(k, Const.blocks) BY AddIs
  <2>3. y.first = IF BySeq(x.sp, Num(k)).split THEN k * Span ELSE x.first BY AddIs
  <2> QED BY <1>1, <1>3, <1>4, <2>1, <2>2, <2>3, Zenon
<1>6. PICK z \in Frame, w \in Frame : Through(x, z, w, y, k, p) BY AddIs
<1>7. /\ z.cloud = (IF s THEN <<>> ELSE x.cloud) /\ z.out = (IF s THEN Handed(x) ELSE x.out)
      /\ w.first = y.first /\ w.prev = e
      /\ w.cloud = z.cloud \o Part(p, Const.blocks) /\ w.out = z.out
      /\ y.cloud = (IF Ends(y, k) THEN <<>> ELSE w.cloud)
      /\ y.out = (IF Ends(y, k) THEN Handed(w) ELSE w.out)
  BY <1>4, <1>5, <1>6, Zenon DEF Through
<1>8. PICK t \in Nat, r \in Nat : t = x.prev /\ r = x.first BY DEF Frame
<1>9. PICK c \in Seq(Blk), o \in Seq(HandedOut) : c = z.cloud /\ o = z.out BY DEF Frame
<1>10. PICK q1 \in Nat : q1 = y.first BY <1>5 DEF Frame
<1>11. /\ r <= t /\ t <= b /\ OutTimed(x.out, t) /\ CloudTimed(x.cloud, x.out, r, t)
       /\ stale \/ FirstTimed(x.out, r)
  BY <1>3, <1>8, Zenon DEF Timed
<1>12. OutTimed(o, t) /\ CloudTimed(c, o, q1, t) /\ FirstTimed(o, q1) /\ q1 <= b
  <2>1. CASE s
    <3>1. q1 = b /\ c = <<>> /\ o = Handed(x) BY <1>5, <1>7, <1>9, <1>10, <2>1, Zenon
    <3>2. OutTimed(o, t) BY <1>8, <3>1, HandTimed
    <3>3. CloudTimed(c, o, q1, t) BY <3>1 DEF CloudTimed
    <3>4. FirstTimed(o, q1)
      <4>1. ASSUME o # <<>> PROVE LastTs(o[Len(o)].blocks) <= b
        <5>1. PICK i \in DOMAIN o : i = Len(o) BY <4>1
        <5>2. PICK v \in Nat : v = LastTs(o[i].blocks) BY OutTimes
        <5>3. v <= t BY <3>2, <5>2, Zenon DEF OutTimed
        <5>4. v <= b BY <1>11, <5>3
        <5> QED BY <5>1, <5>2, <5>4, Zenon
      <4> QED BY <3>1, <4>1, Zenon DEF FirstTimed
    <3> QED BY <3>1, <3>2, <3>3, <3>4
  <2>2. CASE ~s
    <3>1. ~stale BY <1>4, <2>2
    <3>2. q1 = r /\ c = x.cloud /\ o = x.out BY <1>5, <1>7, <1>8, <1>9, <1>10, <2>2, Zenon
    <3>3. q1 <= b BY <1>11, <3>2
    <3> QED BY <1>11, <3>1, <3>2, <3>3, Zenon
  <2> QED BY <2>1, <2>2
<1>13. CloudTimed(w.cloud, o, q1, e)
  <2>1. CloudTimed(c \o Part(p, Const.blocks), o, q1, TimeOf(k, Const.blocks))
    BY <1>3, <1>11, <1>12, FillTimed
  <2> QED BY <1>1, <1>3, <1>7, <1>9, <2>1, Zenon
<1>14. t <= e /\ q1 <= e BY <1>3, <1>11, <1>12
<1>15. OutTimed(o, e) BY <1>12, <1>14, OutLater
<1>16. y.prev <= (k + 1) * Span
  <2>1. k + 1 \in Nat /\ k < k + 1 OBVIOUS
  <2>2. TimeOf(k, n) < (k + 1) * Span BY <1>1, <1>2, <2>1, TimeIs
  <2>3. PICK v \in Nat : v = (k + 1) * Span BY <2>1, SpanIs
  <2>4. e < v BY <1>3, <2>2, <2>3, Zenon
  <2>5. e <= v BY <2>3, <2>4
  <2> QED BY <1>5, <2>3, <2>5, Zenon
<1>17. Timed(y, ended)
  <2>1. CASE ~Ends(y, k)
    <3>1. y.cloud = w.cloud /\ y.out = o BY <1>7, <1>9, <2>1, Zenon
    <3> QED BY <1>5, <1>10, <1>12, <1>13, <1>14, <1>15, <3>1, Zenon DEF Timed
  <2>2. CASE Ends(y, k)
    <3>1. y.cloud = <<>> /\ y.out = Handed(w) /\ ended BY <1>7, <2>2, Zenon
    <3>2. PICK no \in BOOLEAN : no = FALSE OBVIOUS
    <3>3. Timed(w, no) BY <1>7, <1>9, <1>10, <1>12, <1>13, <1>14, <1>15, Zenon DEF Timed
    <3>4. OutTimed(Handed(w), w.prev) BY <3>2, <3>3, HandTimed
    <3>5. OutTimed(y.out, e) BY <1>7, <3>1, <3>4, Zenon
    <3>6. CloudTimed(y.cloud, y.out, q1, e) BY <3>1 DEF CloudTimed
    <3> QED BY <1>5, <1>10, <1>14, <3>1, <3>5, <3>6, Zenon DEF Timed
  <2> QED BY <2>1, <2>2
<1> QED BY <1>5, <1>16, <1>17

LEMMA TimedCleared ==
  ASSUME f \in Frame, NEW g, Cleared(g), Timed(f, Stale(f))
  PROVE  Timed(g, Stale(g)) /\ g.prev = f.prev /\ g \in Frame
<1>1. /\ g \in Frame /\ g.sp = f.sp /\ g.out = f.out /\ g.first = f.first /\ g.prev = f.prev
      /\ g.cloud = f.cloud \/ g.cloud = <<>>
  BY Zenon DEF Cleared
<1>2. CloudTimed(g.cloud, g.out, g.first, g.prev)
  <2>1. CASE g.cloud = f.cloud BY <1>1, <2>1, Zenon DEF Timed
  <2>2. CASE g.cloud = <<>> BY <2>2 DEF CloudTimed
  <2> QED BY <1>1, <2>1, <2>2
<1>3. Stale(f) => Stale(g) BY <1>1, Zenon DEF Stale
<1> QED BY <1>1, <1>2, <1>3, Zenon DEF Timed

\* A packet or datagram of a lidar that does not end a frame with its last packet.
LEMMA PiecesTimed ==
  ASSUME LidarInv, lidar # "RSM1", NEW k \in Nat, NEW hit \in BOOLEAN, NEW bad \in BOOLEAN, NEW late \in BOOLEAN,
         NEW x \in Frame, NEW a, Pieced(a, x, k, Msop(k, hit, bad, late), bad), NEW no \in BOOLEAN, ~no,
         Timed(x, no), x.prev <= (k * Unit) * Span
  PROVE  Timed(a[Unit], no) /\ a[Unit].prev <= ((k + 1) * Unit) * Span
<1>1. PICK u \in Nat \ {0}, b \in Nat : u = Unit /\ b = k * Unit /\ (k + 1) * Unit = b + u BY UnitIs
<1>2. PICK m : m = Msop(k, hit, bad, late) OBVIOUS
<1>3. /\ a[0] = x /\ \A i \in 0..u : a[i] \in Frame
      /\ \A i \in 1..u : a[i] = IF bad /\ i = 1 THEN a[i - 1] ELSE Add(a[i - 1], b + i - 1, Piece(m, i))
  BY <1>1, <1>2, Zenon DEF Pieced
<1>4. \A i \in 1..u : b + i - 1 \in Nat /\ PacketOf(Piece(m, i), b + i - 1) BY <1>1, <1>2, Pieces
<1> DEFINE T == {i \in Nat : i <= u => Timed(a[i], no) /\ a[i].prev <= (b + i) * Span}
<1>5. 0 \in T
  <2>1. b + 0 = b OBVIOUS
  <2>2. Timed(a[0], no) /\ a[0].prev <= (b + 0) * Span BY <1>1, <1>3, <2>1, Zenon
  <2> QED BY <2>2
<1>6. ASSUME NEW i \in Nat, i \in T PROVE i + 1 \in T
  <2> SUFFICES ASSUME i + 1 <= u PROVE Timed(a[i + 1], no) /\ a[i + 1].prev <= (b + (i + 1)) * Span OBVIOUS
  <2>1. PICK j \in 1..u, l \in Nat : j = i + 1 /\ j - 1 = i /\ l = b + i /\ l = b + j - 1 /\ l + 1 = b + (i + 1)
    BY <1>1
  <2>2. i \in 0..u /\ j \in 0..u /\ i <= u BY <1>1, <2>1
  <2>3. Timed(a[i], no) /\ a[i].prev <= (b + i) * Span BY <1>6, <2>2
  <2>4. PICK v \in Frame, w \in Frame : v = a[i] /\ w = a[j] BY <1>3, <2>2
  <2>5. Timed(v, no) /\ v.prev <= l * Span BY <2>1, <2>3, <2>4, Zenon
  <2>6. Timed(w, no) /\ w.prev <= (l + 1) * Span
    <3>1. CASE bad /\ j = 1
      <4>1. w = v BY <1>3, <2>1, <2>4, <3>1, Zenon
      <4>2. l <= l + 1 /\ l + 1 \in Nat OBVIOUS
      <4>3. PICK c \in Nat, e \in Nat : c = l * Span /\ e = (l + 1) * Span /\ c <= e BY <4>2, SpanIs
      <4>4. PICK g \in Nat : g = v.prev BY DEF Frame
      <4>5. g <= c BY <2>5, <4>3, <4>4, Zenon
      <4>6. g <= e BY <4>3, <4>4, <4>5
      <4> QED BY <2>5, <4>1, <4>3, <4>4, <4>6, Zenon
    <3>2. CASE ~(bad /\ j = 1)
      <4>1. PICK p : p = Piece(m, j) /\ PacketOf(p, l) BY <1>4, <2>1
      <4>2. w = Add(v, l, p) BY <1>3, <2>1, <2>4, <3>2, <4>1, Zenon
      <4>3. ~Ends(w, l) BY Zenon DEF Ends
      <4> QED BY <2>5, <4>1, <4>2, <4>3, AddTimed
    <3> QED BY <3>1, <3>2
  <2> QED BY <2>1, <2>4, <2>6, Zenon
<1>7. u \in T
  <2>1. Nat \subseteq T
    <3> HIDE DEF T
    <3> QED BY <1>5, <1>6, Induction
  <2> QED BY <2>1
<1>8. u <= u BY <1>1
<1>9. Timed(a[u], no) /\ a[u].prev <= (b + u) * Span BY <1>7, <1>8
<1> QED BY <1>1, <1>9, Zenon

\* After the last packet of a frame the next one begins another.
LEMMA LastSplits ==
  ASSUME lidar = "RSM1", NEW sp \in Strategy, NEW l \in Nat, NEW k \in Nat, l < k, k <= l + 2,
         sp.prev = Num(l), l % N = N - 1
  PROVE  BySeq(sp, Num(k)).split
<1>1. PICK n \in Nat : n = N /\ n > 3 BY Numbers
<1>2. k - l <= RANGE /\ k - l <= N
  <2>1. RANGE \in Nat /\ RANGE > 1 /\ N > 3 BY <1>1, Numbers
  <2> QED BY <1>1, <2>1
<1>3. PICK lr \in 0..(n - 1), kr \in 0..(n - 1) : lr = l % N /\ kr = k % N BY <1>1, Divided
<1>4. lr = n - 1 BY <1>1, <1>3
<1>5. \/ k \div N = l \div N /\ kr = lr + (k - l)
      \/ k \div N = (l \div N) + 1
  BY <1>2, <1>3, NextNumber
<1>6. ~(kr = lr + (k - l)) BY <1>1, <1>3, <1>4
<1>7. PICK e \in Nat : e = l \div N BY Divided
<1>8. k \div N = e + 1 BY <1>5, <1>6, <1>7
<1>9. k \div N # l \div N BY <1>7, <1>8
<1>10. /\ BySeq(sp, Num(k)).split <=> k \div N # l \div N
       /\ k \div N # l \div N => k \div N = (l \div N) + 1
       /\ BySeq(sp, Num(k)).sp.prev = Num(k)
  BY <1>2, FollowsBy
<1> QED BY <1>9, <1>10, Zenon

\* An RSM1 hands out a cloud after the last packet of its frame, and has split
\* before the next one.
LEMMA EndsInTime ==
  ASSUME MemsInv, lidar = "RSM1", SmallAt(f, sent, held, faults, Waiting), NEW skip \in 0..1, NEW hit \in BOOLEAN,
         NEW bad \in BOOLEAN, NEW comes \in BOOLEAN, NEW g, Came(skip, hit, bad, comes, g), "lost" \notin upset',
         NEW k \in Nat, k = sent + skip, NEW p, PacketOf(p, k), ~p.late, NEW y, y = Add(g, k, p)
  PROVE  /\ g.sp.prev = N => BySeq(g.sp, Num(k)).split
         /\ Ends(y, k) => y.sp.prev = N
<1>1. LidarInv /\ f \in Frame /\ sent \in Nat BY DEF MemsInv, LidarInv
<1>2. Cleared(g) /\ g \in Frame /\ g.sp = f.sp BY Zenon DEF Came, Took, Cleared
<1>3. g.sp \in Strategy BY <1>2 DEF Frame
<1>4. y.sp = BySeq(g.sp, Num(k)).sp BY <1>1, <1>2, AddStrategy, Zenon
<1>5. PICK n \in Nat : n = N /\ n > 3 BY Numbers
<1>6. CASE Fresh(f)
  <2>1. Fresh(g) BY <1>1, <1>2, <1>6, ClearedLinks
  <2>2. g.sp.prev = 0 /\ ~g.sp.looped
    <3>1. NewStrategy.prev = 0 /\ ~NewStrategy.looped BY DEF NewStrategy
    <3> QED BY <2>1, <3>1, Zenon DEF Fresh
  <2>3. g.sp.prev # N BY <1>5, <2>2
  <2>4. PICK r : r = BySeq(g.sp, Num(k)) OBVIOUS
  <2>5. ~r.split /\ Num(k) \in 1..N
    <3>1. ~BySeq(g.sp, Num(k)).split BY <1>1, <1>2, <2>1, FreshAdd
    <3> QED BY <2>4, <3>1, NumIs, Zenon
  <2>6. r.sp.looped <=> g.sp.looped \/ r.split
    <3>1. Num(k) \in 0..N BY NumIs
    <3> QED BY <1>3, <2>4, <3>1, BySeqIs
  <2>7. ~y.sp.looped BY <1>4, <2>2, <2>4, <2>5, <2>6, Zenon
  <2>8. MaxSeq(y.sp) = 0 BY <2>7, Zenon DEF MaxSeq
  <2>9. Num(k) # 0 BY <1>5, <2>5
  <2>10. ~Ends(y, k) BY <2>8, <2>9, Zenon DEF Ends
  <2> QED BY <2>3, <2>10
<1>7. CASE /\ EndKnown(f.sp, held)
           /\ \E l \in 0..sent : l < sent /\ sent <= l + 1 + (IF lidar = "RSEMX" THEN faults ELSE 0) /\ InStep(f, l)
  <2>1. PICK l \in Nat : l + 1 = sent /\ InStep(f, l)
    <3>1. PICK l \in 0..sent : l < sent /\ sent <= l + 1 + (IF lidar = "RSEMX" THEN faults ELSE 0) /\ InStep(f, l)
      BY <1>7
    <3>2. sent <= l + 1 + 0 BY <3>1
    <3>3. l \in Nat /\ l + 1 = sent BY <1>1, <3>1, <3>2
    <3> QED BY <3>1, <3>3
  <2>2. InStep(g, l) BY <1>1, <1>2, <2>1, ClearedLinks
  <2>3. g.sp.prev = Num(l) BY <2>2, Zenon DEF InStep
  <2>4. l < k /\ k <= l + 2 BY <1>1, <2>1
  <2>5. ASSUME g.sp.prev = N PROVE BySeq(g.sp, Num(k)).split
    <3>1. Num(l) = (l % N) + 1 BY Zenon DEF Num
    <3>2. PICK lr \in Nat : lr = l % N
      <4>1. l % N \in 0..(N - 1) BY Divided
      <4> QED BY <1>5, <4>1
    <3>3. n = lr + 1 BY <1>5, <2>3, <2>5, <3>1, <3>2, Zenon
    <3>4. lr = n - 1 BY <1>5, <3>2, <3>3
    <3>5. l % N = N - 1 BY <1>5, <3>2, <3>4, Zenon
    <3>6. PICK sp \in Strategy : sp = g.sp BY <1>3
    <3>7. sp.prev = Num(l) BY <2>3, <3>6, Zenon
    <3>8. BySeq(sp, Num(k)).split BY <2>4, <3>5, <3>7, LastSplits
    <3> QED BY <3>6, <3>8, Zenon
  <2>6. PICK z : z = held' OBVIOUS
  <2>7. z \in SUBSET Nat /\ z \subseteq {sent}
    <3>1. held' = (IF comes THEN {sent} ELSE {}) BY DEF Came
    <3> QED BY <1>1, <2>6, <3>1
  <2>8. NoneLost(skip, z)
    <3>1. upset' = IF \E h \in (held \cup (sent..(sent + skip - 1))) \ held' : LastNumber(h)
                   THEN upset \cup Dropped \cup {"lost"} ELSE upset \cup Dropped
      BY DEF Came
    <3>2. ~ \E h \in (held \cup (sent..(sent + skip - 1))) \ held' : LastNumber(h) BY <3>1
    <3> QED BY <2>6, <3>2, Zenon DEF NoneLost
  <2>9. EndKnown(g.sp, held) BY <1>2, <1>7, Zenon
  <2>10. Ends(y, k) => k % N = N - 1
    <3>1. (Ends(y, k) => k % N = N - 1) /\ EndKnown(y.sp, z)
      BY <1>1, <1>2, <1>4, <2>1, <2>3, <2>7, <2>8, <2>9, EndStep
    <3> QED BY <3>1
  <2>11. y.sp.prev = Num(k)
    <3>1. k - l <= RANGE
      <4>1. RANGE \in Nat /\ RANGE > 1 BY Numbers
      <4> QED BY <2>4, <4>1
    <3>2. BySeq(g.sp, Num(k)).sp.prev = Num(k) BY <1>3, <2>3, <2>4, <3>1, FollowsBy
    <3> QED BY <1>4, <3>2, Zenon
  <2>12. k % N = N - 1 => Num(k) = N
    <3>1. Num(k) = (k % N) + 1 BY Zenon DEF Num
    <3>2. PICK kr \in Nat : kr = k % N
      <4>1. k % N \in 0..(N - 1) BY Divided
      <4> QED BY <1>5, <4>1
    <3>3. kr = n - 1 => kr + 1 = n BY <1>5, <3>2
    <3> QED BY <1>5, <3>1, <3>2, <3>3, Zenon
  <2> QED BY <2>5, <2>10, <2>11, <2>12, Zenon
<1> QED BY <1>6, <1>7, Zenon DEF SmallAt

LEMMA TimedStart ==
  ASSUME Init
  PROVE  TimedInv
<1>1. /\ f.cloud = <<>> /\ f.out = <<>> /\ f.first = 0 /\ f.prev = 0 BY DEF Init
<1>2. MemsInv BY TypedStart
<1>3. LidarInv /\ sent \in Nat BY <1>2 DEF MemsInv, LidarInv
<1>4. f.prev <= (sent * Unit) * Span
  <2>1. PICK b \in Nat : b = sent * Unit BY <1>3, UnitIs
  <2>2. b <= b BY <2>1
  <2>3. PICK v \in Nat : v = b * Span BY <1>3, <2>2, SpanIs
  <2>4. 0 <= v OBVIOUS
  <2> QED BY <1>1, <2>1, <2>3, <2>4, Zenon
<1>5. OutTimed(f.out, f.prev)
  <2>1. OutTimed(<<>>, 0) BY DEF OutTimed
  <2> QED BY <1>1, <2>1, Zenon
<1>6. CloudTimed(f.cloud, f.out, f.first, f.prev)
  <2>1. CloudTimed(<<>>, <<>>, 0, 0) BY DEF CloudTimed
  <2> QED BY <1>1, <2>1, Zenon
<1>7. FirstTimed(f.out, f.first) BY <1>1, Zenon DEF FirstTimed
<1>8. f.first <= f.prev BY <1>1
<1> QED BY <1>4, <1>5, <1>6, <1>7, <1>8, Zenon DEF TimedInv, Timed

LEMMA TimedCame ==
  ASSUME MemsInv, FrameInv, TimedInv, NEW skip \in 0..1, NEW hit \in BOOLEAN, NEW bad \in BOOLEAN,
         NEW comes \in BOOLEAN, NEW g, Came(skip, hit, bad, comes, g), Same, MemsInv',
         InTime, lidar = "RSM1" => "lost" \notin upset'
  PROVE  Timed(f', Stale(f')) /\ f'.prev <= (sent' * Unit) * Span
<1>1. LidarInv /\ f \in Frame /\ sent \in Nat /\ f' \in Frame
  <2>1. Frame' = Frame BY Fixed
  <2> QED BY <2>1 DEF MemsInv, LidarInv
<1>2. PICK k \in Nat : k = sent + skip BY <1>1
<1>3. PICK late \in BOOLEAN : late = FALSE OBVIOUS
<1>4. /\ Took(k, hit, bad, late, g) /\ (bad => lidar \in {"RSEMX", "RSM1_JUMBO"}) /\ Cleared(g)
  BY <1>2, <1>3, Zenon DEF Came, Took
<1>5. sent' = k + 1 /\ sent <= k BY <1>1, <1>2 DEF Came
<1>6. Timed(f, Stale(f)) /\ f.prev <= (sent * Unit) * Span BY Zenon DEF TimedInv
<1>7. Timed(g, Stale(g)) /\ g.prev = f.prev /\ g \in Frame BY <1>1, <1>4, <1>6, TimedCleared
<1>8. PICK t \in Nat, v \in Nat, w \in Nat :
        /\ t = g.prev /\ v = (k * Unit) * Span /\ w = ((k + 1) * Unit) * Span /\ t <= v /\ v <= w
  <2>1. PICK u \in Nat, a \in Nat, b \in Nat, c \in Nat :
          u = Unit /\ a = sent * Unit /\ b = k * Unit /\ c = (k + 1) * Unit
    <3>1. k + 1 \in Nat OBVIOUS
    <3> QED BY <1>1, <3>1, UnitIs
  <2>2. a <= b /\ b <= c
    <3>1. c = b + u BY <2>1, UnitIs
    <3>2. CASE sent = k BY <2>1, <3>1, <3>2
    <3>3. CASE sent # k
      <4>1. sent < k BY <1>1, <1>5, <3>3
      <4>2. (sent + 1) * Unit <= k * Unit /\ (sent + 1) * Unit = sent * Unit + Unit BY <1>1, <4>1, UnitIs
      <4>3. a + u <= b BY <2>1, <4>2, Zenon
      <4> QED BY <2>1, <3>1, <4>3
    <3> QED BY <3>2, <3>3
  <2>3. PICK e \in Nat, v \in Nat : e = a * Span /\ v = b * Span /\ e <= v BY <1>1, <2>2, SpanIs
  <2>4. PICK w \in Nat : w = c * Span /\ b * Span <= w BY <1>1, <2>2, SpanIs
  <2>5. v <= w BY <2>3, <2>4, Zenon
  <2>6. PICK t \in Nat : t = g.prev BY <1>7 DEF Frame
  <2>7. t <= e BY <1>6, <1>7, <2>1, <2>3, <2>6, Zenon
  <2>8. t <= v BY <2>3, <2>6, <2>7
  <2> QED BY <2>1, <2>3, <2>4, <2>5, <2>6, <2>8, Zenon
<1>9. g.prev <= (k * Unit) * Span BY <1>8, Zenon
<1>10. CASE lidar # "RSM1"
  <2>1. PICK no \in BOOLEAN : no = FALSE OBVIOUS
  <2>2. \A x : Stale(x) <=> no BY <1>10, <2>1, Zenon DEF Stale
  <2>3. Timed(g, no) BY <1>7, <2>2, Zenon DEF Timed
  <2>4. Timed(f', no) /\ f'.prev <= ((k + 1) * Unit) * Span
    <3>1. CASE Waiting
      <4>1. f' = g BY <1>4, <3>1, Zenon DEF Took, Waiting
      <4>2. t <= w BY <1>8
      <4> QED BY <1>8, <2>3, <4>1, <4>2, Zenon
    <3>2. CASE ~Waiting
      <4>1. PICK m : m = Msop(k, hit, bad, late) OBVIOUS
      <4>2. f' = DecodeMsop(g, m) BY <1>4, <3>2, <4>1, Zenon DEF Took, Waiting
      <4>3. PICK a : Pieced(a, g, k, m, bad) /\ f' = a[Unit] BY <1>1, <1>4, <1>7, <4>1, <4>2, DecodeRun
      <4>4. Pieced(a, g, k, Msop(k, hit, bad, late), bad) BY <4>1, <4>3, Zenon
      <4>5. Timed(a[Unit], no) /\ a[Unit].prev <= ((k + 1) * Unit) * Span
        BY <1>1, <1>7, <1>9, <1>10, <2>1, <2>3, <4>4, PiecesTimed
      <4> QED BY <4>3, <4>5, Zenon
    <3> QED BY <3>1, <3>2
  <2> QED BY <1>5, <2>2, <2>4, Zenon DEF Timed
<1>11. CASE lidar = "RSM1"
  <2>1. ~Jumbo /\ ~Waiting /\ ~bad BY <1>1, <1>4, <1>11 DEF Jumbo, Waiting, LidarInv
  <2>2. PICK p : PacketOf(p, k) /\ ~p.late /\ f' = Add(g, k, p)
    <3>1. \E p : PacketOf(p, k) /\ p.late = late /\ f' = IF Waiting \/ bad THEN g ELSE Add(g, k, p)
      BY <1>4, <2>1, SmallTook
    <3> QED BY <1>3, <2>1, <3>1, Zenon
  <2>3. PICK y : y = f' OBVIOUS
  <2>4. y = Add(g, k, p) BY <2>2, <2>3
  <2>5. Unit = 1 /\ k * 1 = k /\ (k + 1) * 1 = k + 1
    <3>1. k * 1 = k /\ (k + 1) * 1 = k + 1 BY SMTT(20)
    <3> QED BY <2>1, <3>1, UnitIs
  <2>6. SmallAt(f, sent, held, faults, Waiting)
    <3>1. Bearable BY <1>11, <2>1 DEF InTime, Bearable
    <3> QED BY <2>1, <3>1, Zenon DEF FrameInv
  <2>7. /\ g.sp.prev = N => BySeq(g.sp, Num(k)).split
        /\ Ends(y, k) => y.sp.prev = N
    BY <1>2, <1>11, <2>2, <2>4, <2>6, EndsInTime
  <2>8. PICK stale \in BOOLEAN, ended \in BOOLEAN : (stale <=> Stale(g)) /\ (ended <=> Stale(y)) BY Zenon
  <2>9. Timed(g, stale) BY <1>7, <2>8, Zenon DEF Timed
  <2>10. stale => g.cloud = <<>> /\ BySeq(g.sp, Num(k)).split BY <2>7, <2>8, Zenon DEF Stale
  <2>11. Ends(y, k) => ended
    <3>1. Ends(y, k) => y.cloud = <<>>
      <4>1. \E z \in Frame, x \in Frame : Through(g, z, x, y, k, p) BY <1>1, <1>7, <2>2, <2>4, AddIs
      <4> QED BY <4>1, Zenon DEF Through
    <3> QED BY <1>11, <2>7, <2>8, <3>1, Zenon DEF Stale
  <2>12. g.prev <= k * Span BY <1>9, <2>5, Zenon
  <2>13. Timed(y, ended) /\ y.prev <= (k + 1) * Span
    BY <1>1, <1>7, <2>2, <2>4, <2>9, <2>10, <2>11, <2>12, AddTimed
  <2>14. Timed(y, Stale(y)) BY <2>8, <2>13, Zenon DEF Timed
  <2> QED BY <1>5, <2>3, <2>5, <2>13, <2>14, Zenon
<1> QED BY <1>10, <1>11

LEMMA TimedFixed ==
  ASSUME Same
  PROVE  TimedInv' <=> ("late" \notin upset' /\ (lidar = "RSM1" => "lost" \notin upset')
                        => Timed(f', Stale(f')) /\ f'.prev <= (sent' * Unit) * Span)
<1>1. lidar' = lidar /\ q' = q /\ Unit' = Unit /\ Const' = Const BY Fixed DEF Same
<1>2. Span' = Span BY <1>1, Zenon DEF Span
<1>3. Stale(f)' <=> Stale(f') BY <1>1, Zenon DEF Stale
<1>4. OutTimed(f.out, f.prev)' <=> OutTimed(f'.out, f'.prev) BY <1>1, Zenon DEF OutTimed, InOrder, LastTs
<1>5. CloudTimed(f.cloud, f.out, f.first, f.prev)' <=> CloudTimed(f'.cloud, f'.out, f'.first, f'.prev)
  BY <1>1, Zenon DEF CloudTimed, LastTs
<1>6. FirstTimed(f.out, f.first)' <=> FirstTimed(f'.out, f'.first) BY <1>1, Zenon DEF FirstTimed, LastTs
<1>7. Timed(f, Stale(f))' <=> Timed(f', Stale(f')) BY <1>3, <1>4, <1>5, <1>6, Zenon DEF Timed
<1>8. InTime' <=> "late" \notin upset' /\ (lidar = "RSM1" => "lost" \notin upset') BY <1>1, Zenon DEF InTime
<1>9. (f.prev <= (sent * Unit) * Span)' <=> f'.prev <= (sent' * Unit) * Span BY <1>1, <1>2, Zenon
<1> QED BY <1>7, <1>8, <1>9, Zenon DEF TimedInv

LEMMA TimedStep ==
  ASSUME MemsInv, FrameInv, TimedInv, [Next]_vars
  PROVE  TimedInv'
<1>1. CASE RecvDifop \/ UNCHANGED vars
  <2>1. Same /\ f' = f /\ sent' = sent /\ upset' = upset BY <1>1, DifopStep, Stutter
  <2>2. TimedInv' <=> ("late" \notin upset' /\ (lidar = "RSM1" => "lost" \notin upset')
                       => Timed(f', Stale(f')) /\ f'.prev <= (sent' * Unit) * Span)
    BY <2>1, TimedFixed
  <2> QED BY <2>1, <2>2, Zenon DEF TimedInv, InTime
<1>2. CASE RecvMsop
  <2>1. PICK skip \in 0..1, hit \in BOOLEAN, bad \in BOOLEAN, comes \in BOOLEAN, g \in Frame :
          Came(skip, hit, bad, comes, g)
    BY <1>2, MsopStep
  <2>2. Same /\ MemsInv' BY <1>2, MsopStep
  <2>3. upset \subseteq upset' BY <2>1 DEF Came
  <2>4. ASSUME "late" \notin upset', lidar = "RSM1" => "lost" \notin upset'
        PROVE  Timed(f', Stale(f')) /\ f'.prev <= (sent' * Unit) * Span
    <3>1. InTime BY <2>3, <2>4 DEF InTime
    <3> QED BY <2>1, <2>2, <2>4, <3>1, TimedCame
  <2>5. TimedInv' <=> ("late" \notin upset' /\ (lidar = "RSM1" => "lost" \notin upset')
                       => Timed(f', Stale(f')) /\ f'.prev <= (sent' * Unit) * Span)
    BY <2>2, TimedFixed
  <2> QED BY <2>4, <2>5
<1>3. CASE RecvLate
  <2>1. PICK k \in Nat, g \in Frame : CameLate(k, g) BY <1>3, LateStep
  <2>2. Same BY <1>3, LateStep
  <2>3. "late" \in upset' BY <2>1 DEF CameLate
  <2>4. TimedInv' <=> ("late" \notin upset' /\ (lidar = "RSM1" => "lost" \notin upset')
                       => Timed(f', Stale(f')) /\ f'.prev <= (sent' * Unit) * Span)
    BY <2>2, TimedFixed
  <2> QED BY <2>3, <2>4
<1> QED BY <1>1, <1>2, <1>3 DEF Next

LEMMA TimedKept == Spec => []TimedInv
<1>1. Init => TimedInv BY TimedStart
<1>2. MemsInv /\ FrameInv /\ TimedInv /\ [Next]_vars => TimedInv' BY TimedStep
<1> QED BY <1>1, <1>2, MemsTyped, FramesKept, PTL DEF Spec

\* The stamp between two clouds lies between the last point of the one and the first
\* point of the other, whether a lidar stamps a cloud with its first point or its last
\* and splits a frame off before a packet or, as an RSM1, after it.
THEOREM StampsOrdered == Spec => []StampsInOrder
<1>1. TimedInv => StampsInOrder
  <2> SUFFICES ASSUME TimedInv, InTime PROVE \A i \in 2..Len(f.out) : InOrder(f.out, i)
    BY Zenon DEF StampsInOrder, InTime, InOrder, LastTs
  <2> QED BY Zenon DEF TimedInv, Timed, OutTimed
<1> QED BY <1>1, TimedKept, PTL

\* A frame becomes a cloud, a step of the recording's pace and a stamp.
THEOREM FramesBecomeClouds == Spec => []FramesAreClouds
<1>1. FrameInOneCloud /\ PacedAsSplit /\ StampsInOrder => FramesAreClouds BY Zenon DEF FramesAreClouds
<1> QED BY <1>1, FramesApart, PaceIsFrames, StampsOrdered, PTL
===============================================================================
