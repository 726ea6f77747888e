----------------------------- MODULE MemsDecoders -----------------------------
(***************************************************************************)
(* The decoders of the seven lidars that number the packets of a frame,    *)
(* decoder/decoder_RSM1, _RSM2, _RSM3, _RSMX, _RSE1, _RSEMX, _RSM1_Jumbo:  *)
(* what each learns from a DIFOP packet, how it splits, and which points   *)
(* with which ring it takes from an MSOP packet.  A packet is its number,  *)
(* its time and its blocks; the time offsets of the blocks are 0, 1, ...   *)
(* Each decoder keeps the number of lasers and of channels of its lidar;   *)
(* the 5 to 50 blocks of a packet are two.  The lidar's own clock is used. *)
(***************************************************************************)
EXTENDS Decoder

CONSTANTS
  RANGE,   \* the safe range of SplitStrategyBySeq, 10 in the code
  Parts,   \* packets in a jumbo packet, 63 in the code
  Pixels   \* EMX_PIXELS_PER_COLUMN, 192 in the code

ASSUME MemsAssumption ==
  /\ RANGE \in Nat /\ RANGE > 1
  /\ Parts \in Nat /\ Parts > RANGE + 2
  /\ Pixels \in Nat \ {0} /\ Pixels % 2 = 0

-----------------------------------------------------------------------------
(* SplitStrategyBySeq: MemsFrames states it as actions and says what it is for.  *)

NewStrategy == [prev |-> 0, max |-> 0, looped |-> FALSE]

BySeq(sp, s) ==
  LET rewinds == s < Max({sp.prev - RANGE, 0})
      follows == s >= sp.prev /\ (s <= sp.prev + RANGE \/ sp.prev = 0)
  IN [split |-> rewinds,
      sp |-> [prev |-> IF rewinds \/ follows THEN s ELSE sp.prev,
              max |-> Max({sp.max, s}), looped |-> sp.looped \/ rewinds]]

\* Mutation: the highest number is used before it is known.
MaxSeqEarly(sp) == sp.max

MaxSeq(sp) == IF sp.looped THEN sp.max ELSE 0

\* isNewFrameCommon: the number is read from its place in the packet, for the pace
\* of a recording.
IsNewFrameCommon(sp, p) == BySeq(sp, p.seq)

-----------------------------------------------------------------------------
(* What the decoders share: each repeats it *)

\* The points of a block, each reduced to its ring: of the returns of a packet all are
\* within the distance section, or none is and they are NaNs unless q.dense.
Points(q, hit, rings) == IF hit \/ ~q.dense THEN rings ELSE <<>>

FillBlock(q, c, f, p, b, rings) ==
  LET ts  == p.ts + (b - 1) * c.dur
      pts == Points(q, p.hit, rings)
  IN [f EXCEPT !.prev = ts,
               !.cloud = IF pts = <<>> THEN @
                         ELSE Append(@, [n |-> Len(pts), ts |-> ts, rings |-> pts, at |-> p.at,
                                         block |-> b, late |-> p.late])]

\* The blocks of a packet, with the rings rings[b] of the channels of block b.
FillBlocks(q, c, f, p, rings) ==
  LET after[b \in 0..c.blocks] ==
        IF b = 0 THEN f ELSE FillBlock(q, c, after[b - 1], p, b, rings[b])
  IN after[c.blocks]

\* newPacket comes before the points of the packet.
SplitAndFill(q, c, f, p, seq, rings) ==
  LET s == BySeq(f.sp, seq)
      g == [f EXCEPT !.sp = s.sp]
  IN FillBlocks(q, c, IF s.split THEN BeginFrame(q, g, c.lasers, p.ts) ELSE g, p, rings)

\* One point per channel.
EachChannel(c) == [i \in 1..c.chans |-> i - 1]

\* The constructors: only RSEMX needs a DIFOP packet.
NewMems(l) == [echo |-> "SINGLE", ready |-> l # "RSEMX"]

-----------------------------------------------------------------------------
(* RSM1 *)

RSM1 == [lasers |-> 5, chans |-> 5, blocks |-> 2, dur |-> 1]
RSM1Echo(mode) == IF mode = 0 THEN "DUAL" ELSE "SINGLE"
RSM1Difop(d, pkt) == [d EXCEPT !.echo = RSM1Echo(pkt.mode)]

\* The packet with the highest number ends the frame, without ret.
RSM1Msop(q, f, p) ==
  LET rings == [b \in 1..RSM1.blocks |-> EachChannel(RSM1)]
      g == SplitAndFill(q, RSM1, f, p, p.seq, rings)
  IN IF MaxSeq(g.sp) = p.seq THEN SplitFrame(q, g, RSM1.lasers) ELSE g

(* RSM2 *)

RSM2 == [lasers |-> 5, chans |-> 5, blocks |-> 2, dur |-> 1]
RSM2Echo(mode) == IF mode = 0 THEN "DUAL" ELSE "SINGLE"
RSM2Difop(d, pkt) == [d EXCEPT !.echo = RSM2Echo(pkt.mode)]
RSM2Msop(q, f, p) ==
  LET rings == [b \in 1..RSM2.blocks |-> EachChannel(RSM2)] IN SplitAndFill(q, RSM2, f, p, p.seq, rings)

(* RSM3: learns nothing *)

RSM3 == [lasers |-> 28, chans |-> 28, blocks |-> 2, dur |-> 1]
RSM3Difop(d, pkt) == d
RSM3Msop(q, f, p) ==
  LET rings == [b \in 1..RSM3.blocks |-> EachChannel(RSM3)] IN SplitAndFill(q, RSM3, f, p, p.seq, rings)

(* RSMX: both returns of a channel are in one packet, which says so *)

RSMX == [lasers |-> 2, chans |-> 2, blocks |-> 2, dur |-> 1]
RSMXDifop(d, pkt) == d
RSMXLoopTime(mode) == IF mode = 0 THEN 2 ELSE 1
RSMXMsop(q, f, p) ==
  LET n == RSMXLoopTime(p.mode)
      rings == [b \in 1..RSMX.blocks |-> [i \in 1..(n * RSMX.chans) |-> (i - 1) \div n]]
  IN SplitAndFill(q, RSMX, f, p, p.seq, rings)

(* RSE1: its DIFOP brings inertial data, which the clouds do not depend on *)

RSE1 == [lasers |-> 1, chans |-> 1, blocks |-> 2, dur |-> 1]
RSE1Difop(d, pkt) == d
RSE1Msop(q, f, p) ==
  LET rings == [b \in 1..RSE1.blocks |-> EachChannel(RSE1)] IN SplitAndFill(q, RSE1, f, p, p.seq, rings)

(* RSEMX: the blocks of a packet are the pixels of a column, of two returns the  *)
(* pixels of half a column, at one time.                                         *)

RSEMX == [lasers |-> 1, chans |-> 1, blocks |-> Pixels, dur |-> 0]

\* Four lengths of DIFOP packets are known, the others bring no angles.
RSEMXDifop(d, pkt) == [d EXCEPT !.ready = @ \/ pkt.known]

\* Mutation: the half is taken from the number on the wire, which begins with 1.
RSEMXRingOneBased(p, seq, b) ==
  IF p.mode = 0 THEN (b - 1 + (IF p.seq % 2 # 0 THEN Pixels ELSE 0)) \div 2 ELSE b - 1

RSEMXRing(p, seq, b) ==
  IF p.mode = 0 THEN (b - 1 + (IF seq % 2 # 0 THEN Pixels ELSE 0)) \div 2 ELSE b - 1

\* The strategy is given the numbers from 0 on; a packet of a third surface is left
\* out before that.
RSEMXMsop(q, f, p) ==
  LET seq == (p.seq - 1) % 65536
      rings == [b \in 1..RSEMX.blocks |-> <<RSEMXRing(p, seq, b)>>]
  IN IF p.surface >= 2 THEN f ELSE SplitAndFill(q, RSEMX, f, p, seq, rings)

(* RSM1_Jumbo: a datagram of many RSM1 packets, of which each is checked *)

RSM1Jumbo == [lasers |-> 5, chans |-> 5, blocks |-> 2, dur |-> 1]
RSM1JumboEcho(mode) == IF mode = 0 THEN "DUAL" ELSE "SINGLE"
RSM1JumboDifop(d, pkt) == [d EXCEPT !.echo = RSM1JumboEcho(pkt.mode)]

RSM1JumboPart(q, f, p) ==
  LET rings == [b \in 1..RSM1Jumbo.blocks |-> EachChannel(RSM1Jumbo)]
  IN IF p.bad THEN f ELSE SplitAndFill(q, RSM1Jumbo, f, p, p.seq, rings)

\* Mutation: a part that cannot be decoded ends the datagram.
RSM1JumboMsopStops(q, f, p) ==
  FoldLeft(LAMBDA g, part : RSM1JumboPart(q, g, part), f,
           SelectSeq(p.parts, LAMBDA part : \A i \in DOMAIN p.parts :
                                p.parts[i].bad => part.at < p.parts[i].at))

RSM1JumboMsop(q, f, p) ==
  LET after[i \in 0..Len(p.parts)] ==
        IF i = 0 THEN f ELSE RSM1JumboPart(q, after[i - 1], p.parts[i])
  IN after[Len(p.parts)]
=============================================================================
