------------------------------ MODULE MemsClouds ------------------------------
(***************************************************************************)
(* A MEMS lidar and its decoder (decoder/decoder.hpp over MemsDecoders):   *)
(* the lidar sends frames of N numbered packets, with a DIFOP packet from  *)
(* time to time; the network loses a packet or lets the next one overtake  *)
(* it; the decoder builds clouds.  MemsFrames shows what the split does    *)
(* under every slight loss and reordering; here are the clouds themselves, *)
(* of each lidar, with their points and stamps, and the pace of a          *)
(* recording.                                                              *)
(***************************************************************************)
EXTENDS MemsDecoders

CONSTANTS
  Lidars,     \* lidar types of the run
  Setups,     \* parameters q of the decoder, whether clouds are dense, stamped
              \* with the first point, and wait for DIFOP; the lidar's return mode
  N,          \* packets per frame
  Starts,     \* packets, or datagrams, sent before the decoder was there
  MaxPkts, MaxFaults   \* bounds on packets and on what goes wrong

MemsNames == {"RSM1", "RSM2", "RSM3", "RSMX", "RSE1", "RSEMX", "RSM1_JUMBO"}

\* A frame is longer than what the safe range can confuse, is whole datagrams, and its
\* numbers and the safe range beyond them fit in 16 bits.
ASSUME CloudsAssumption ==
  /\ N \in Nat /\ N % Parts = 0 /\ N % 2 = 0 /\ N > 3 + 2 * RANGE /\ N + RANGE < 65536
  /\ Lidars \subseteq MemsNames
  /\ \A s \in Setups : s.q \in [first : BOOLEAN, dense : BOOLEAN, wait : BOOLEAN] /\ s.mode \in Nat
  /\ Starts \subseteq Nat /\ {MaxPkts, MaxFaults} \subseteq Nat

VARIABLES
  lidar, q, mode,    \* the configuration
  sent, held, pkts,  \* packets the lidar sent, an overtaken one, packets received
  d, f,              \* what the decoder knows, the frame it builds
  pre, paced,        \* pre_split_strategy_comm_ and the frames isNewFrame reported
  splits, taken,     \* frames decodeMsopPkt reported, packets it decoded
  upset, faults      \* what happened that some decoder or property cannot bear, and
                     \* how much went wrong

vars == <<lidar, q, mode, sent, held, pkts, d, f, pre, paced, splits, taken, upset, faults>>

-----------------------------------------------------------------------------
(* The decoder DecoderFactory made *)

Const ==
  CASE lidar = "RSM1" -> RSM1 [] lidar = "RSM2" -> RSM2 [] lidar = "RSM3" -> RSM3
    [] lidar = "RSMX" -> RSMX [] lidar = "RSE1" -> RSE1 [] lidar = "RSEMX" -> RSEMX
    [] lidar = "RSM1_JUMBO" -> RSM1Jumbo

DecodeDifop(pkt) ==
  CASE lidar = "RSM1" -> RSM1Difop(d, pkt) [] lidar = "RSM2" -> RSM2Difop(d, pkt)
    [] lidar = "RSM3" -> RSM3Difop(d, pkt) [] lidar = "RSMX" -> RSMXDifop(d, pkt)
    [] lidar = "RSE1" -> RSE1Difop(d, pkt) [] lidar = "RSEMX" -> RSEMXDifop(d, pkt)
    [] lidar = "RSM1_JUMBO" -> RSM1JumboDifop(d, pkt)

DecodeMsop(g, p) ==
  CASE lidar = "RSM1" -> RSM1Msop(q, g, p) [] lidar = "RSM2" -> RSM2Msop(q, g, p)
    [] lidar = "RSM3" -> RSM3Msop(q, g, p) [] lidar = "RSMX" -> RSMXMsop(q, g, p)
    [] lidar = "RSE1" -> RSE1Msop(q, g, p) [] lidar = "RSEMX" -> RSEMXMsop(q, g, p)
    [] lidar = "RSM1_JUMBO" -> RSM1JumboMsop(q, g, p)

-----------------------------------------------------------------------------
(* The lidar *)

Jumbo == lidar = "RSM1_JUMBO"

\* Packet k of all; its blocks are fired one after the other.
Packet(k, hit, bad, wasLate) ==
  [at |-> k, seq |-> (k % N) + 1, ts |-> k * (Const.blocks * Const.dur + 1), mode |-> mode,
   hit |-> hit, bad |-> bad, surface |-> IF bad THEN 2 ELSE k % 2, late |-> wasLate]

\* A jumbo datagram is the packets from k * Parts on.
Datagram(k, hit, bad, wasLate) ==
  LET parts == [i \in 1..Parts |-> Packet(k * Parts + i - 1, hit, bad /\ i = 1, wasLate)]
  IN [at |-> k, seq |-> parts[1].seq, parts |-> parts]

Msop(k, hit, bad, wasLate) ==
  IF Jumbo THEN Datagram(k, hit, bad, wasLate) ELSE Packet(k, hit, bad, wasLate)

\* The channels measured in block b of packet k: RSEMX sends the pixels of two
\* columns in one packet each, or of one column with two returns in two packets.
Measured(k, b) ==
  CASE lidar = "RSMX" /\ mode = 0  -> <<0, 0, 1, 1>>
    [] lidar = "RSEMX" /\ mode = 0 -> <<((k % 2) * Pixels + b - 1) \div 2>>
    [] lidar = "RSEMX" /\ mode # 0 -> <<b - 1>>
    [] OTHER -> [i \in 1..Const.chans |-> i - 1]

\* The last packet of a frame; RSM1 takes another one for it until it has come.
LastNumber(k) == ~Jumbo /\ k % N = N - 1

-----------------------------------------------------------------------------
Init ==
  /\ lidar \in Lidars /\ sent \in Starts
  /\ \E s \in Setups : q = s.q /\ mode = s.mode
  /\ held = {} /\ pkts = 0
  /\ d = NewMems(lidar)
  /\ f = [sp |-> NewStrategy, cloud |-> <<>>, first |-> 0, prev |-> 0, out |-> <<>>, ret |-> FALSE]
  /\ pre = NewStrategy /\ paced = 0 /\ splits = 0 /\ taken = 0 /\ upset = {} /\ faults = 0

\* A DIFOP packet with the right id; RSEMX also sends some of another length.
RecvDifop ==
  /\ \E known \in BOOLEAN : d' = DecodeDifop([mode |-> mode, known |-> known])
  /\ UNCHANGED <<lidar, q, mode, sent, held, pkts, f, pre, paced, splits, taken, upset, faults>>

\* processMsopPkt.
Process(p) ==
  LET g == [DropOverflow(f) EXCEPT !.ret = FALSE]
  IN f' = IF q.wait /\ ~d.ready THEN g ELSE DecodeMsop(g, p)

\* A recording of an RSM1_JUMBO is played by another input, which does not ask.
Pace(p) ==
  IF Jumbo THEN UNCHANGED <<pre, paced>>
  ELSE LET s == IsNewFrameCommon(pre, p)
       IN pre' = s.sp /\ paced' = paced + (IF s.split THEN 1 ELSE 0)

\* Packets of p that the decoder is to take points from.
Taken(p) ==
  IF q.wait /\ ~d.ready THEN 0
  ELSE IF Jumbo THEN Cardinality({i \in 1..Parts : ~p.parts[i].bad})
  ELSE IF lidar = "RSEMX" /\ p.surface = 2 THEN 0 ELSE 1

\* What happened besides: a cloud that had become too large was dropped.
Dropped == IF DropOverflow(f) = f THEN {} ELSE {"overflow"}

Receive(p, n) ==
  /\ pkts < MaxPkts /\ pkts' = pkts + 1
  /\ faults' = faults + n /\ faults' <= MaxFaults
  /\ Process(p) /\ Pace(p)
  /\ splits' = splits + (IF f'.ret THEN 1 ELSE 0)
  /\ taken' = taken + Taken(p)
  /\ UNCHANGED <<lidar, q, mode, d>>

\* The next packet comes; or the one after it, and the next is lost or comes late.
RecvMsop ==
  \E skip \in 0..1, hit, bad, comes \in BOOLEAN :
    /\ bad => lidar \in {"RSEMX", "RSM1_JUMBO"}
    /\ comes => skip = 1
    /\ Receive(Msop(sent + skip, hit, bad, FALSE),
               skip + (IF bad THEN 1 ELSE 0) + (IF hit THEN 0 ELSE 1))
    /\ sent' = sent + skip + 1
    /\ held' = IF comes THEN {sent} ELSE {}
    /\ upset' = IF \E k \in (held \cup (sent..(sent + skip - 1))) \ held' : LastNumber(k)
                   THEN upset \cup Dropped \cup {"lost"} ELSE upset \cup Dropped

RecvLate ==
  /\ \E k \in held : Receive(Msop(k, TRUE, FALSE, TRUE), 0)
  /\ held' = {} /\ upset' = upset \cup Dropped \cup {"late"}
  /\ UNCHANGED sent

Next == RecvDifop \/ RecvMsop \/ RecvLate

Spec == Init /\ [][Next]_vars

-----------------------------------------------------------------------------
(* Properties *)

Clouds == [i \in DOMAIN f.out |-> f.out[i].blocks] \o <<f.cloud>>

BlocksOf(c) == {c[a] : a \in DOMAIN c}
FrameOf(b) == b.at \div N
OnTime(c) == {FrameOf(b) : b \in {x \in BlocksOf(c) : ~x.late}}

\* The values of what the decoder keeps.
TypeOK ==
  /\ {f.sp.prev, f.sp.max} \subseteq 0..N /\ f.sp.looped \in BOOLEAN
  /\ d \in [echo : {"SINGLE", "DUAL"}, ready : BOOLEAN]
  /\ \A i \in DOMAIN f.out : f.out[i].blocks # <<>>
  /\ \A i \in DOMAIN Clouds : \A b \in BlocksOf(Clouds[i]) : b.n = Len(b.rings) /\ b.n > 0

\* Every point has the ring of the channel or pixel that measured it, also when two
\* packets bring one column, or one packet two returns.
PixelsInPlace ==
  \A i \in DOMAIN Clouds : \A b \in BlocksOf(Clouds[i]) : b.rings = Measured(b.at, b.block)

InOneCloud ==
  \A i, j \in DOMAIN Clouds :
    /\ Cardinality(OnTime(Clouds[i])) <= 1
    /\ i # j => OnTime(Clouds[i]) \cap OnTime(Clouds[j]) = {}

\* A cloud is one frame and a frame one cloud, with either end of a frame lost or
\* the first of all frames begun in the middle, although RSM1 splits after its last
\* packet, too, and a jumbo datagram is more than the safe range is for.  What is
\* left out is what goes wrong: RSM1 takes another packet for the last one as long as
\* the last one has always been lost; an RSEMX may be too much ahead when packets of a third
\* surface are left out one after the other; and a datagram lost in a frame hides
\* that the first one of the next frame is lost.
FrameInOneCloud ==
  /\ "late" \in upset => lidar \notin {"RSM1", "RSEMX", "RSM1_JUMBO"}
  /\ "lost" \in upset => lidar # "RSM1"
  /\ lidar = "RSEMX" => faults < RANGE
  /\ Jumbo => faults < 2
  => InOneCloud

\* "Slight packet loss and out of order is tolerated".
SlightReorderingTolerated == InOneCloud

\* The points of every packet that was accepted are in a cloud, once, unless a cloud
\* became too large.
PacketsInClouds ==
  ~q.dense /\ "overflow" \notin upset =>
    taken = Cardinality(UNION {{<<i, b.at>> : b \in BlocksOf(Clouds[i])} : i \in DOMAIN Clouds})

\* isNewFrame reports for the pace of a recording the frames that decodeMsopPkt
\* begins, though RSEMX gives its strategy other numbers.
PacedAsSplit ==
  ~Jumbo /\ taken = pkts /\ (lidar = "RSEMX" => "late" \notin upset) => paced = splits

\* The stamps of two clouds are in the order of the points, also when the split after
\* the last packet of an RSM1 comes first and the next one finds no points.
StampsInOrder ==
  "late" \notin upset /\ (lidar = "RSM1" => "lost" \notin upset) =>
    \A i \in 2..Len(f.out) :
      LET before == f.out[i-1].blocks[Len(f.out[i-1].blocks)].ts
          first  == f.out[i].blocks[1].ts
      IN IF q.first THEN before <= f.out[i].stamp /\ f.out[i].stamp <= first
                    ELSE before <= f.out[i-1].stamp /\ f.out[i-1].stamp <= first

\* A frame becomes a cloud, a step of the recording's pace and a stamp.
FramesAreClouds == FrameInOneCloud /\ PacedAsSplit /\ StampsInOrder
=============================================================================
