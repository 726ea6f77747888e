------------------------------ MODULE MechFrames ------------------------------
(***************************************************************************)
(* A mechanical lidar and its decoder (decoder/decoder.hpp over            *)
(* MechDecoders): the lidar turns and fires, packs the returns into MSOP   *)
(* packets and from time to time sends a DIFOP packet that says how it is  *)
(* set; the network loses packets; the decoder builds clouds.  The first   *)
(* part of a packet that is not what it should be is told by "bad", one    *)
(* that is wrong in its last byte alone by "half", a packet of another kind *)
(* on the same port by "other".                                            *)
(***************************************************************************)
EXTENDS MechDecoders

CONSTANTS
  Lidars,      \* lidar types of the run
  Setups,      \* parameters q of the decoder and settings dev of the lidar (mode,
               \* rps, fov, model, install, reversed)
  Starts,      \* firings the lidar may have made before the first packet
  Lost,        \* firings lost when a packet is
  BadBlocks,   \* blocks that may have a wrong id
  MaxPkts, MaxDifops, MaxFaults   \* bounds on packets, DIFOP packets, faults

LidarNames ==
  {"RS16", "RSBP", "RS32", "RSHELIOS", "RSHELIOS_16P", "RSP128", "RSP80", "RSP48", "RS128", "RS80",
   "RS48", "RSAIRY", "RSFAIRY"}

\* The head turns by less than BlindStep in two firings of one unit of time, or one of
\* two, and makes a few firings in a turn; their steps fill the round, or the part of it
\* that is not fired in is more than BlindStep.
TurnsEvenly(rps, fov) ==
  /\ rps \in Nat \ {0} /\ Round % rps = 0 /\ 2 * rps <= BlindStep
  /\ \A step \in {rps, 2 * rps} :
       LET n == (fov - 1) \div step + 1
       IN n > 2 /\ (n * step = Round \/ Round - (n - 1) * step > BlindStep)

ASSUME SetupsAssumption ==
  /\ Lidars \subseteq LidarNames
  /\ \A s \in Setups :
       /\ s.q \in [mode : {"ANGLE", "FIXED", "CUSTOM"}, angle : 0..Round, num : Nat \ {0},
                  first : BOOLEAN, dense : BOOLEAN, wait : BOOLEAN, start : Nat, end : Nat]
       /\ s.dev \in [mode : Nat, rps : Nat, fov : 1..Round, model : Nat,
                    install : {"none", "normal", "side"}, reversed : BOOLEAN]
       /\ TurnsEvenly(s.dev.rps, s.dev.fov)
  /\ Starts \subseteq Nat /\ Lost \in Nat
  /\ {MaxPkts, MaxDifops, MaxFaults} \subseteq Nat

VARIABLES
  lidar, q, dev,           \* the configuration
  fired, phase, pkts,      \* firings so far, the second return of one is to be sent, packets
  d,                       \* what the decoder knows
  f,                       \* the frame it builds
  pre, paced,              \* pre_split_strategy_ and the frames isNewFrame reported
  splits, refused,         \* frames decodeMsopPkt reported, packets it did not decode
  halves,                  \* packets with a bad block that isNewFrame takes for a good one
  difops, faults           \* what has happened

vars == <<lidar, q, dev, fired, phase, pkts, d, f, pre, paced, splits, refused, halves, difops, faults>>

-----------------------------------------------------------------------------
(* The decoder DecoderFactory made *)

Const ==
  CASE lidar = "RS16" -> RS16 [] lidar = "RSBP" -> RSBP [] lidar = "RS32" -> RS32
    [] lidar = "RSHELIOS" -> RSHELIOS [] lidar = "RSHELIOS_16P" -> RSHELIOS16P
    [] lidar = "RSP128" -> RSP128 [] lidar = "RSP80" -> RSP80 [] lidar = "RSP48" -> RSP48
    [] lidar = "RS128" -> RS128 [] lidar = "RS80" -> RS80 [] lidar = "RS48" -> RS48
    [] lidar = "RSAIRY" -> RSAIRY [] lidar = "RSFAIRY" -> RSFAIRY

DecodeDifop(pkt) ==
  CASE lidar = "RS16" -> RS16Difop(d, pkt) [] lidar = "RSBP" -> RSBPDifop(d, pkt)
    [] lidar = "RS32" -> RS32Difop(d, pkt) [] lidar = "RSHELIOS" -> RSHELIOSDifop(d, pkt)
    [] lidar = "RSHELIOS_16P" -> RSHELIOS16PDifop(d, pkt) [] lidar = "RSP128" -> RSP128Difop(d, pkt)
    [] lidar = "RSP80" -> RSP80Difop(d, pkt) [] lidar = "RSP48" -> RSP48Difop(d, pkt)
    [] lidar = "RS128" -> RS128Difop(d, pkt) [] lidar = "RS80" -> RS80Difop(d, pkt)
    [] lidar = "RS48" -> RS48Difop(d, pkt) [] lidar = "RSAIRY" -> RSAIRYDifop(d, pkt)
    [] lidar = "RSFAIRY" -> RSFAIRYDifop(d, pkt)

Learn(p) ==
  CASE lidar = "RSAIRY" -> RSAIRYLearn(d, p) [] lidar = "RSFAIRY" -> RSFAIRYLearn(d, p)
    [] OTHER -> d

DecodeMsop(e, g, p) ==
  CASE lidar = "RS16" -> RS16Msop(q, e, g, p) [] lidar = "RSBP" -> RSBPMsop(q, e, g, p)
    [] lidar = "RS32" -> RS32Msop(q, e, g, p) [] lidar = "RSHELIOS" -> RSHELIOSMsop(q, e, g, p)
    [] lidar = "RSHELIOS_16P" -> RSHELIOS16PMsop(q, e, g, p) [] lidar = "RSP128" -> RSP128Msop(q, e, g, p)
    [] lidar = "RSP80" -> RSP80Msop(q, e, g, p) [] lidar = "RSP48" -> RSP48Msop(q, e, g, p)
    [] lidar = "RS128" -> RS128Msop(q, e, g, p) [] lidar = "RS80" -> RS80Msop(q, e, g, p)
    [] lidar = "RS48" -> RS48Msop(q, e, g, p) [] lidar = "RSAIRY" -> RSAIRYMsop(q, e, g, p)
    [] lidar = "RSFAIRY" -> RSFAIRYMsop(q, e, g, p)

IsNewFrame(p) ==
  CASE lidar = "RS16" -> RS16NewFrame(q, d, pre, p) [] lidar = "RSBP" -> RSBPNewFrame(q, d, pre, p)
    [] lidar = "RS32" -> RS32NewFrame(q, d, pre, p) [] lidar = "RSHELIOS" -> RSHELIOSNewFrame(q, d, pre, p)
    [] lidar = "RSHELIOS_16P" -> RSHELIOS16PNewFrame(q, d, pre, p) [] lidar = "RSP128" -> RSP128NewFrame(q, d, pre, p)
    [] lidar = "RSP80" -> RSP80NewFrame(q, d, pre, p) [] lidar = "RSP48" -> RSP48NewFrame(q, d, pre, p)
    [] lidar = "RS128" -> RS128NewFrame(q, d, pre, p) [] lidar = "RS80" -> RS80NewFrame(q, d, pre, p)
    [] lidar = "RS48" -> RS48NewFrame(q, d, pre, p) [] lidar = "RSAIRY" -> RSAIRYNewFrame(q, d, pre, p)
    [] lidar = "RSFAIRY" -> RSFAIRYNewFrame(q, d, pre, p)

-----------------------------------------------------------------------------
(* The lidar *)

\* What it is set to, said with the words of its decoder.
EchoSet ==
  CASE lidar \in {"RS16", "RSBP", "RS32"} -> RS16Echo(dev.mode)
    [] lidar \in {"RSHELIOS", "RSHELIOS_16P"} -> RSHELIOSEcho(dev.mode)
    [] lidar \in {"RSP128", "RSP80", "RSP48"} -> RSP128Echo(dev.mode)
    [] OTHER -> RS128Echo(dev.mode)

Layout ==
  CASE lidar \in {"RS16", "RSHELIOS_16P"} -> IF EchoSet = "SINGLE" THEN "Rs16Single" ELSE "Rs16Dual"
    [] lidar \in {"RSP128", "RS128"} -> IF EchoSet = "SINGLE" THEN "Single" ELSE "ABDual"
    [] lidar \in {"RSAIRY", "RSFAIRY"} /\ dev.model # 1 -> IF EchoSet = "SINGLE" THEN "TwoInOne" ELSE "FourInOne"
    [] OTHER -> IF EchoSet = "SINGLE" THEN "Single" ELSE "Dual"

\* Which firing after "fired" block b is of, and how many firings a block is.
FiringOf(b) ==
  CASE Layout \in {"Single", "Rs16Dual"} -> b - 1
    [] Layout \in {"Dual", "TwoInOne"} -> (b - 1) \div 2
    [] Layout = "FourInOne" -> (b - 1) \div 4
    [] Layout = "ABDual" -> (b - 1 + phase) \div 2
    [] Layout = "Rs16Single" -> 2 * (b - 1)

FiringsPerBlock == IF Layout = "Rs16Single" THEN 2 ELSE 1

PacketFirings == IF Layout = "ABDual" THEN 2 ELSE FiringOf(Const.blocks + 1)

\* It fires inside its field of view, from angle 0.
Turned  == dev.rps * Const.dur
PerTurn == (dev.fov - 1) \div Turned + 1
AzOf(k)   == (k % PerTurn) * Turned
TimeOf(k) == (k \div PerTurn) * (Round \div dev.rps) + (k % PerTurn) * Const.dur

Knows(e) ==
  /\ e.rps = dev.rps /\ e.daz = Turned /\ e.blind = (Round - dev.fov) \div dev.rps /\ e.echo = EchoSet
  /\ lidar \in {"RSAIRY", "RSFAIRY"} => e.model = RSAIRYModel(dev.model)

MsopPkt(first, bad, half, hit, other) ==
  LET k == [b \in 1..Const.blocks |-> first + FiringOf(b)]
  IN [ts |-> TimeOf(first), az |-> [b \in DOMAIN k |-> AzOf(k[b])], at |-> [b \in DOMAIN k |-> TimeOf(k[b])],
      gaps |-> [b \in DOMAIN k |-> k[b] \div PerTurn - first \div PerTurn],
      mode |-> dev.mode, model |-> dev.model, bad |-> bad, half |-> half, hit |-> hit, other |-> other,
      known |-> FALSE]

\* Vertical angles of three channels, and a table not filled in.
Angles == <<[sign |-> 0, value |-> 500], [sign |-> 1, value |-> 900], [sign |-> 1, value |-> 100]>>
Unset  == <<[sign |-> 0, value |-> 500], [sign |-> 255, value |-> 65535]>>

DifopPkt(rps, cali) ==
  [rps |-> rps, fov |-> dev.fov, mode |-> dev.mode, cali |-> cali, install |-> dev.install,
   reversed |-> dev.reversed]

-----------------------------------------------------------------------------
Init ==
  /\ lidar \in Lidars /\ fired \in Starts
  /\ \E s \in Setups : q = s.q /\ dev = s.dev
  /\ lidar \notin {"RSAIRY", "RSFAIRY"} => dev.model = 2
  /\ phase = 0 /\ pkts = 0
  /\ d = NewDecoder(Const)
  /\ f = [sp |-> [prev |-> q.angle, blks |-> 0], cloud |-> <<>>, first |-> 0, prev |-> 0,
          out |-> <<>>, ret |-> FALSE, err |-> "none", known |-> TRUE]
  /\ pre = [prev |-> q.angle, blks |-> 0]
  /\ paced = 0 /\ splits = 0 /\ refused = 0 /\ halves = 0 /\ difops = 0 /\ faults = 0

\* processDifopPkt of a packet with the right length and id.  The first ones may
\* come while the lidar speeds up, and lack the angles.
RecvDifop ==
  /\ difops < MaxDifops
  /\ \E pkt \in {DifopPkt(dev.rps, Angles), DifopPkt(0, Unset)} : d' = DecodeDifop(pkt)
  /\ difops' = difops + 1
  /\ UNCHANGED <<lidar, q, dev, fired, phase, pkts, f, pre, paced, splits, refused, halves, faults>>

\* processMsopPkt: a cloud that became too large is dropped, then the packet is
\* checked.
Process(p) ==
  LET g == DropOverflow(f)
      e == Learn(p)
  IN IF (q.wait /\ ~d.ready) \/ p.other
       THEN d' = d /\ f' = [g EXCEPT !.ret = FALSE, !.err = "none"]
       ELSE d' = e /\ f' = DecodeMsop(e, g, [p EXCEPT !.known = Knows(e)])

\* The lidar's next packet.  A recording is asked for new frames before the packet
\* is put in the queue, in the order of the packets.
RecvMsop ==
  /\ pkts < MaxPkts
  /\ \E lost \in {0, Lost}, bad \in {{}} \cup {{b} : b \in BadBlocks \cap 1..Const.blocks},
       other, hit \in BOOLEAN : \E half \in SUBSET bad :
       LET went == {w \in {"lost", "bad", "other", "miss"} :
                      CASE w = "lost" -> lost > 0 [] w = "bad" -> bad # {}
                        [] w = "other" -> other   [] w = "miss" -> ~hit}
           p == MsopPkt(fired + lost, bad, half, hit, other)
           seen == IsNewFrame(p)
       IN /\ faults' = faults + Cardinality(went) /\ faults' <= MaxFaults
          /\ other \/ half # {} => lidar \in {"RSAIRY", "RSFAIRY"}
          /\ Process(p)
          /\ pre' = seen.sp /\ paced' = paced + (IF seen.split THEN 1 ELSE 0)
          /\ splits' = splits + (IF f'.ret THEN 1 ELSE 0)
          /\ refused' = refused + (IF (q.wait /\ ~d.ready) \/ f'.err = "UNSUPPORTED" THEN 1 ELSE 0)
          /\ halves' = halves + (IF half # {} THEN 1 ELSE 0)
          /\ fired' = fired + lost + FiringOf(Const.blocks + 1)
          /\ phase' = IF Layout = "ABDual" THEN (Const.blocks + phase) % 2 ELSE 0
          /\ pkts' = pkts + 1
  /\ UNCHANGED <<lidar, q, dev, difops>>

Next == RecvDifop \/ RecvMsop

Spec == Init /\ [][Next]_vars

-----------------------------------------------------------------------------
(* Properties *)

Block == [az : Nat, ts : Nat, turn : Nat, n : Nat, sent : Nat, gaps : Nat, known : BOOLEAN]

\* The values of what the decoder keeps; the rings are in the order of the angles.
TypeOK ==
  /\ d.ready => \A i, j \in DOMAIN d.vert : d.rings[i] < d.rings[j] <=> d.vert[i] < d.vert[j]
  /\ d.echo \in {"SINGLE", "DUAL"} /\ d.split \in 1..(2 * Round) /\ d.model \in {48, 96, 192}
  /\ d.rps \in {1, 2} /\ d.daz \in 1..BlindStep /\ d.blind \in 0..Round
  /\ \A sp \in {f.sp, pre} :
       /\ sp.prev \in 0..Round
       /\ sp.blks \in 0..((IF q.mode = "CUSTOM" THEN q.num ELSE 2 * Round) - 1)
  /\ \A i \in DOMAIN f.cloud : f.cloud[i] \in Block /\ f.cloud[i].n > 0

\* Once the decoder knows its lidar, every block gets the time at which it was
\* fired, and the angle turned meanwhile, for every way of putting returns into
\* blocks; the blind zone's duration is short by at most one block.
BlockTimes ==
  \A i \in DOMAIN f.cloud : LET b == f.cloud[i] IN b.known =>
    /\ b.turn = Turned * FiringsPerBlock
    /\ b.ts <= b.sent /\ b.sent - b.ts <= b.gaps * FiringsPerBlock * Const.dur

\* The turn, counted from the split angle, that a block is of.
TurnOf(b) == (b.sent * dev.rps + Round - q.angle) \div Round

Clouds == [i \in DOMAIN f.out |-> f.out[i].blocks] \o <<f.cloud>>

\* From block x to block y there was no other one for a turn, or from the split angle
\* to the end of the round.
FarApart(x, y) ==
  \/ (y.sent - x.sent) * dev.rps >= Round
  \/ y.az < q.angle /\ (y.sent - x.sent) * dev.rps >= Round - q.angle

\* Split by angle, a cloud holds one turn and a turn is in one cloud, whatever
\* blocks and packets are missing, and also while the decoder does not know the
\* lidar yet.  The exception: when nothing at all was received from the split angle
\* to the end of the round, or for a turn, two turns get into one cloud.
OneTurnPerCloud ==
  q.mode = "ANGLE" =>
    /\ \A i \in DOMAIN Clouds : \A a \in 1..(Len(Clouds[i]) - 1) :
         LET x == Clouds[i][a]
             y == Clouds[i][a + 1]
         IN TurnOf(x) = TurnOf(y) \/ FarApart(x, y)
    /\ \A i \in 1..(Len(Clouds) - 1) :
         Clouds[i + 1] # <<>> => TurnOf(Last(Clouds[i])) # TurnOf(Clouds[i + 1][1])

\* A fault costs the firings of a packet or those lost: with all faults so far there is
\* less than a turn from one packet decoded to the end of the next.
LessThanATurnLost ==
  PacketFirings + faults * Max({PacketFirings, Lost}) + 2 <= PerTurn

\* Split by angle, isNewFrame reports for the pace of a recording the frames that
\* decodeMsopPkt begins, although it stops at the first one in a packet.  It goes on
\* past a block with a half-wrong id and may report a frame that decodeMsopPkt begins
\* later or, with the blocks up to the end of the round lost, not at all: it never
\* reports too few, and for each such packet at most one too many.
PacedAsSplit ==
  q.mode = "ANGLE" /\ refused = 0 /\ LessThanATurnLost =>
    splits <= paced /\ paced <= splits + halves

LastOf(blocks) == blocks[Len(blocks)].ts

\* The stamps of two clouds are in the order of the points: a first-point stamp is
\* not before any point of the cloud before, a last-point stamp not after any point
\* of the cloud after.  The first cloud's first-point stamp is no point's time.
StampsInOrder ==
  f.known =>
    \A i \in 2..Len(f.out) :
      IF q.first
        THEN LastOf(f.out[i-1].blocks) <= f.out[i].stamp /\ f.out[i].stamp <= f.out[i].blocks[1].ts
        ELSE LastOf(f.out[i-1].blocks) <= f.out[i-1].stamp /\ f.out[i-1].stamp <= f.out[i].blocks[1].ts

\* A turn becomes a cloud, a step of the recording's pace and a stamp.
TurnsAreClouds == OneTurnPerCloud /\ PacedAsSplit /\ StampsInOrder

\* "true: time-stamp point cloud with the first point": also the first one.
StampedWithFirstPoint ==
  \A i \in DOMAIN f.out : q.first /\ ~q.dense => f.out[i].stamp = f.out[i].blocks[1].ts

\* The channels of an RSAIRY or RSFAIRY may be more than a block has.
BlockIsColumn == lidar \notin {"RSAIRY", "RSFAIRY"} \/ dev.model = 1

\* An ordered cloud is whole columns of LASER_NUM points: width times height is its
\* size.  Where two blocks make a column, it takes that none is lost and that frames
\* are split by angle: a number of blocks ends the first cloud with one block less.
OrderedCloudsWhole ==
  ~q.dense /\ (BlockIsColumn \/ (q.mode = "ANGLE" /\ faults = 0)) =>
    \A i \in DOMAIN f.out : CloudPoints(f.out[i].blocks) % f.out[i].height = 0
=============================================================================
