----------------------------- MODULE MechDecoders -----------------------------
(***************************************************************************)
(* The decoders of the thirteen mechanical lidars, decoder/decoder_*.hpp   *)
(* over decoder_mech.hpp: what each learns from a DIFOP packet, how it     *)
(* reads the blocks of an MSOP packet, and when it begins a new frame.     *)
(* The decoders are written out once per lidar in the code; here the loop  *)
(* they repeat is DecodeBlocks, and a lidar's definitions are what it      *)
(* fills in.  A channel is reduced to its horizontal calibration, one unit *)
(* to either side of the block's azimuth, a cloud to the blocks it has     *)
(* points of, a packet of 8 or 12 plain blocks to 4.  The lidar's own      *)
(* clock is used.                                                          *)
(***************************************************************************)
EXTENDS Decoder, BlockIterators

(* Parameters q of a decoder: split by q.mode at q.angle or after q.num blocks,  *)
(* keep the section from q.start to q.end, q.wait for DIFOP, leave out NaN       *)
(* points if q.dense, stamp clouds with the q.first point.                       *)

(* The decoder's knowledge d of its lidar: echo_mode_, split_blks_per_frame_,    *)
(* blks_per_frame_, rps_, block_az_diff_, fov_blind_ts_diff_, angles_ready_ and  *)
(* the tables of chan_angles_, for RSAIRY and RSFAIRY bInit_, lidarModel_, install_mode_, for RSBP reversal_. *)

(* The frame f being built: the split strategy sp, point_cloud_, first_point_ts_,*)
(* prev_point_ts_, the clouds handed to cb_split_frame_, whether this packet     *)
(* split, and the error that ended it.  For the properties, f.known says whether *)
(* all blocks so far were decoded with the right knowledge of the lidar.         *)

-----------------------------------------------------------------------------
(* DecoderMech *)

NewDecoder(l) ==
  LET blks == Round \div l.dur
  IN [echo |-> "SINGLE", split |-> blks, blks |-> blks, rps |-> 1, daz |-> 1, blind |-> 0,
      ready |-> FALSE, vert |-> <<>>, rings |-> <<>>, init |-> FALSE, model |-> 96, install |-> "none", reversed |-> FALSE]

\* ChanAngles: sign 255 stands for a table the lidar has not filled in; one angle out
\* of range is enough to keep the old table.  A channel's ring is its rank by angle.
SignedAngle(a) == IF a.sign = 0 THEN a.value ELSE -a.value

AngleCheck(v) == -9000 <= v /\ v < 18000

LoadsFromDifop(cali) ==
  cali # <<>> /\ \A i \in DOMAIN cali : cali[i].sign # 255 /\ AngleCheck(SignedAngle(cali[i]))

GenUserChan(vert) == [i \in DOMAIN vert |-> Cardinality({j \in DOMAIN vert : vert[j] < vert[i]})]

LoadFromDifop(d, cali) ==
  IF d.ready \/ ~LoadsFromDifop(cali) THEN d
  ELSE LET vert == [i \in DOMAIN cali |-> SignedAngle(cali[i])]
       IN [d EXCEPT !.ready = TRUE, !.vert = vert, !.rings = GenUserChan(vert)]

\* A speed of 0 is taken for the default.  The angles are loaded once.
DifopCommon(d, l, pkt) ==
  LET rps == IF pkt.rps = 0 THEN 1 ELSE pkt.rps
  IN [LoadFromDifop(d, pkt.cali) EXCEPT
        !.rps = rps,
        !.blks = Round \div (rps * l.dur),
        !.daz = rps * l.dur,
        !.blind = (Round - pkt.fov) \div rps]

\* Most decoders take the return mode from every DIFOP.
LearnEcho(d, echo) ==
  [d EXCEPT !.echo = echo, !.split = IF echo = "DUAL" THEN 2 * d.blks ELSE d.blks]

\* RS16 and RSHELIOS_16P take it when it is another one, and then only look at the
\* number of blocks.
LearnEchoOnChange(d, echo) ==
  IF d.echo = echo THEN d
  ELSE [d EXCEPT !.echo = echo, !.split = IF echo = "DUAL" THEN d.blks ELSE d.blks \div 2]

\* RSAIRY and RSFAIRY take it from MSOP packets.
LearnEchoFromMsop(d, echo, model, inits) ==
  [LearnEcho(d, echo) EXCEPT !.model = model, !.init = inits]

-----------------------------------------------------------------------------
(* Split strategies and sections *)

\* Mutation: the turn is not taken off the previous angle.
ByAngleNoWrap(sp, az, angle) ==
  [split |-> sp.prev < angle /\ angle <= az, sp |-> [sp EXCEPT !.prev = az]]

ByAngle(sp, az, angle) ==
  LET prev == IF az < sp.prev THEN sp.prev - Round ELSE sp.prev
  IN [split |-> prev < angle /\ angle <= az, sp |-> [sp EXCEPT !.prev = az]]

ByNum(sp, max) ==
  LET full == sp.blks + 1 >= max
  IN [split |-> full, sp |-> [sp EXCEPT !.blks = IF full THEN 0 ELSE @ + 1]]

\* The strategy the constructor chose.
NewBlock(q, d, sp, az) ==
  CASE q.mode = "ANGLE"  -> ByAngle(sp, az, q.angle)
    [] q.mode = "FIXED"  -> ByNum(sp, d.split)
    [] q.mode = "CUSTOM" -> ByNum(sp, q.num)

\* AzimuthSection: the angle is compared as it is, not brought into the round.
InScanSection(q, angle) ==
  LET start == q.start % Round
      end   == q.end % Round
  IN CASE start = end -> TRUE
       [] start > end -> angle >= start \/ angle < end
       [] start < end -> angle >= start /\ angle < end

-----------------------------------------------------------------------------
(* The loop over the blocks of an MSOP packet *)

\* Mutation: out of section, a point is left out of an ordered cloud as well.
PointsDenseOnly(q, l, p, az, mirrored) ==
  LET In(o) == p.hit /\ InScanSection(q, IF mirrored THEN Round - (az + o) ELSE az + o)
  IN (l.chans \div 2) * Cardinality({o \in {-1, 1} : In(o)})

\* Points of a block, half of the channels to each side of its azimuth: those in
\* the distance and scan sections, and unless q.dense a NaN for each other one.
Points(q, l, p, az, mirrored) ==
  LET In(o) == p.hit /\ InScanSection(q, IF mirrored THEN Round - (az + o) ELSE az + o)
  IN IF q.dense THEN (l.chans \div 2) * Cardinality({o \in {-1, 1} : In(o)}) ELSE l.chans

\* One block: the split comes before its points.
DecodeBlock(q, d, l, f, p, b, off, height, mirrored) ==
  LET ts    == p.ts + off[b].ts
      split == NewBlock(q, d, f.sp, p.az[b])
      g     == IF split.split THEN BeginFrame(q, f, height, ts) ELSE f
      pts   == Points(q, l, p, p.az[b], mirrored)
  IN [g EXCEPT !.sp = split.sp,
               !.cloud = IF pts = 0 THEN @
                         ELSE Append(@, [az |-> p.az[b], ts |-> ts, turn |-> off[b].az, n |-> pts, sent |-> p.at[b],
                                    gaps |-> p.gaps[b], known |-> p.known]),
               !.prev = ts, !.known = @ /\ p.known]

\* The next block, unless one before did not begin with the block id.
DecodeNext(q, d, l, f, p, b, off, height, error, mirrored) ==
  IF f.err # "none" THEN f
  ELSE IF b \in p.bad THEN [f EXCEPT !.err = error]
  ELSE DecodeBlock(q, d, l, f, p, b, off, height, mirrored)

\* All blocks of a packet.
DecodeBlocks(q, d, l, f, p, iterator, height, error, mirrored) ==
  LET off == Iterate(iterator, p.az, l.dur, d.daz, d.blind)
      after[b \in 0..l.blocks] ==
        IF b = 0 THEN [f EXCEPT !.ret = FALSE, !.err = "none"]
        ELSE DecodeNext(q, d, l, after[b - 1], p, b, off, height, error, mirrored)
  IN after[l.blocks]

\* isNewFrame, for the pace of a recording: a strategy of its own, fed until the
\* first block that begins a frame.
FeedNext(q, d, s, p, b) ==
  IF s.split \/ (\E c \in p.bad : c <= b) THEN s ELSE NewBlock(q, d, s.sp, p.az[b])

FeedUntilSplit(q, d, l, sp, p) ==
  LET after[b \in 0..l.blocks] ==
        IF b = 0 THEN [split |-> FALSE, sp |-> sp] ELSE FeedNext(q, d, after[b - 1], p, b)
  IN after[l.blocks]

-----------------------------------------------------------------------------
(* RS16 *)

RS16 == [lasers |-> 16, chans |-> 32, blocks |-> 4, dur |-> 1]
RS16Echo(mode) == IF mode = 0 THEN "DUAL" ELSE "SINGLE"
RS16Difop(d, pkt) == LearnEchoOnChange(DifopCommon(d, RS16, pkt), RS16Echo(pkt.mode))
RS16Iterator(d) == IF d.echo = "SINGLE" THEN "Rs16Single" ELSE "Rs16Dual"
RS16Msop(q, d, f, p) ==
  DecodeBlocks(q, d, RS16, f, p, RS16Iterator(d), RS16.lasers, "WRONGMSOPBLKID", FALSE)
RS16NewFrame(q, d, sp, p) == FeedUntilSplit(q, d, RS16, sp, p)

(* RSBP: may hang upside down, pkt.reversed; RSBPV4 has other constants *)

RSBP == [lasers |-> 32, chans |-> 32, blocks |-> 4, dur |-> 1]
RSBPEcho(mode) == IF mode = 0 THEN "DUAL" ELSE "SINGLE"
RSBPDifop(d, pkt) ==
  [LearnEcho(DifopCommon(d, RSBP, pkt), RSBPEcho(pkt.mode)) EXCEPT !.reversed = pkt.reversed]
RSBPIterator(d) == IF d.echo = "SINGLE" THEN "Single" ELSE "Dual"
RSBPMsop(q, d, f, p) ==
  DecodeBlocks(q, d, RSBP, f, p, RSBPIterator(d), RSBP.lasers, "WRONGMSOPBLKID", d.reversed)
RSBPNewFrame(q, d, sp, p) == FeedUntilSplit(q, d, RSBP, sp, p)

(* RS32: reports the wrong id of a block as that of a packet *)

RS32 == [lasers |-> 32, chans |-> 32, blocks |-> 4, dur |-> 1]
RS32Echo(mode) == IF mode = 0 THEN "DUAL" ELSE "SINGLE"
RS32Difop(d, pkt) == LearnEcho(DifopCommon(d, RS32, pkt), RS32Echo(pkt.mode))
RS32Iterator(d) == IF d.echo = "SINGLE" THEN "Single" ELSE "Dual"
RS32Msop(q, d, f, p) ==
  DecodeBlocks(q, d, RS32, f, p, RS32Iterator(d), RS32.lasers, "WRONGMSOPID", FALSE)
RS32NewFrame(q, d, sp, p) == FeedUntilSplit(q, d, RS32, sp, p)

(* RSHELIOS *)

RSHELIOS == [lasers |-> 32, chans |-> 32, blocks |-> 4, dur |-> 1]
RSHELIOSEcho(mode) == IF mode = 0 THEN "DUAL" ELSE "SINGLE"
RSHELIOSDifop(d, pkt) == LearnEcho(DifopCommon(d, RSHELIOS, pkt), RSHELIOSEcho(pkt.mode))
RSHELIOSIterator(d) == IF d.echo = "SINGLE" THEN "Single" ELSE "Dual"
RSHELIOSMsop(q, d, f, p) ==
  DecodeBlocks(q, d, RSHELIOS, f, p, RSHELIOSIterator(d), RSHELIOS.lasers, "WRONGMSOPBLKID", FALSE)
RSHELIOSNewFrame(q, d, sp, p) == FeedUntilSplit(q, d, RSHELIOS, sp, p)

(* RSHELIOS_16P: blocks as RS16 *)

RSHELIOS16P == [lasers |-> 16, chans |-> 32, blocks |-> 4, dur |-> 1]
RSHELIOS16PEcho(mode) == IF mode = 0 THEN "DUAL" ELSE "SINGLE"
RSHELIOS16PDifop(d, pkt) ==
  LearnEchoOnChange(DifopCommon(d, RSHELIOS16P, pkt), RSHELIOS16PEcho(pkt.mode))
RSHELIOS16PIterator(d) == IF d.echo = "SINGLE" THEN "Rs16Single" ELSE "Rs16Dual"
RSHELIOS16PMsop(q, d, f, p) ==
  DecodeBlocks(q, d, RSHELIOS16P, f, p, RSHELIOS16PIterator(d), RSHELIOS16P.lasers, "WRONGMSOPBLKID", FALSE)
RSHELIOS16PNewFrame(q, d, sp, p) == FeedUntilSplit(q, d, RSHELIOS16P, sp, p)

(* RSP128 *)

RSP128 == [lasers |-> 128, chans |-> 128, blocks |-> 3, dur |-> 2]
RSP128Echo(mode) == IF mode \in 0..2 THEN "SINGLE" ELSE "DUAL"
RSP128Difop(d, pkt) == LearnEcho(DifopCommon(d, RSP128, pkt), RSP128Echo(pkt.mode))
RSP128Iterator(d) == IF d.echo = "SINGLE" THEN "Single" ELSE "ABDual"
RSP128Msop(q, d, f, p) ==
  DecodeBlocks(q, d, RSP128, f, p, RSP128Iterator(d), RSP128.lasers, "WRONGMSOPBLKID", FALSE)
RSP128NewFrame(q, d, sp, p) == FeedUntilSplit(q, d, RSP128, sp, p)

(* RSP80: the packet's model chooses the channels' times *)

RSP80 == [lasers |-> 80, chans |-> 80, blocks |-> 4, dur |-> 1]
RSP80Echo(mode) == IF mode \in 0..2 THEN "SINGLE" ELSE "DUAL"
RSP80Difop(d, pkt) == LearnEcho(DifopCommon(d, RSP80, pkt), RSP80Echo(pkt.mode))
RSP80Iterator(d) == IF d.echo = "SINGLE" THEN "Single" ELSE "Dual"
RSP80Msop(q, d, f, p) ==
  DecodeBlocks(q, d, RSP80, f, p, RSP80Iterator(d), RSP80.lasers, "WRONGMSOPBLKID", FALSE)
RSP80NewFrame(q, d, sp, p) == FeedUntilSplit(q, d, RSP80, sp, p)

(* RSP48 *)

RSP48 == [lasers |-> 48, chans |-> 48, blocks |-> 4, dur |-> 1]
RSP48Echo(mode) == IF mode \in 0..2 THEN "SINGLE" ELSE "DUAL"
RSP48Difop(d, pkt) == LearnEcho(DifopCommon(d, RSP48, pkt), RSP48Echo(pkt.mode))
RSP48Iterator(d) == IF d.echo = "SINGLE" THEN "Single" ELSE "Dual"
RSP48Msop(q, d, f, p) ==
  DecodeBlocks(q, d, RSP48, f, p, RSP48Iterator(d), RSP48.lasers, "WRONGMSOPBLKID", FALSE)
RSP48NewFrame(q, d, sp, p) == FeedUntilSplit(q, d, RSP48, sp, p)

(* RS128: the error of a wrong block id is commented out *)

RS128 == [lasers |-> 128, chans |-> 128, blocks |-> 3, dur |-> 2]
RS128Echo(mode) == IF mode = 3 THEN "DUAL" ELSE "SINGLE"
RS128Difop(d, pkt) == LearnEcho(DifopCommon(d, RS128, pkt), RS128Echo(pkt.mode))
RS128Iterator(d) == IF d.echo = "SINGLE" THEN "Single" ELSE "ABDual"
RS128Msop(q, d, f, p) ==
  DecodeBlocks(q, d, RS128, f, p, RS128Iterator(d), RS128.lasers, "silent", FALSE)
RS128NewFrame(q, d, sp, p) == FeedUntilSplit(q, d, RS128, sp, p)

(* RS80: likewise *)

RS80 == [lasers |-> 80, chans |-> 80, blocks |-> 4, dur |-> 1]
RS80Echo(mode) == IF mode = 3 THEN "DUAL" ELSE "SINGLE"
RS80Difop(d, pkt) == LearnEcho(DifopCommon(d, RS80, pkt), RS80Echo(pkt.mode))
RS80Iterator(d) == IF d.echo = "SINGLE" THEN "Single" ELSE "Dual"
RS80Msop(q, d, f, p) ==
  DecodeBlocks(q, d, RS80, f, p, RS80Iterator(d), RS80.lasers, "silent", FALSE)
RS80NewFrame(q, d, sp, p) == FeedUntilSplit(q, d, RS80, sp, p)

(* RS48: packets of RSP48, the return modes of RS128 *)

RS48 == [lasers |-> 48, chans |-> 48, blocks |-> 4, dur |-> 1]
RS48Echo(mode) == IF mode = 3 THEN "DUAL" ELSE "SINGLE"
RS48Difop(d, pkt) == LearnEcho(DifopCommon(d, RS48, pkt), RS48Echo(pkt.mode))
RS48Iterator(d) == IF d.echo = "SINGLE" THEN "Single" ELSE "Dual"
RS48Msop(q, d, f, p) ==
  DecodeBlocks(q, d, RS48, f, p, RS48Iterator(d), RS48.lasers, "WRONGMSOPBLKID", FALSE)
RS48NewFrame(q, d, sp, p) == FeedUntilSplit(q, d, RS48, sp, p)

-----------------------------------------------------------------------------
\* decodeMsopPkt of RSAIRY and RSFAIRY compares both bytes of a block id, isNewFrame
\* only the first: to it a block of p.half, wrong in the second, is a good one.
FirstByteOnly(p) == [p EXCEPT !.bad = @ \ p.half]

(* RSAIRY: 48, 96 or 192 channels, told by the packets; with 96 a firing is two *)
(* blocks and the channels' times depend on how the lidar is installed, which   *)
(* DIFOP says.  Packets with other data share the port.                         *)

RSAIRY == [lasers |-> 96, chans |-> 48, blocks |-> 8, dur |-> 2]
RSAIRYEcho(mode) == IF mode = 3 THEN "DUAL" ELSE "SINGLE"
RSAIRYModel(mode) == CASE mode = 1 -> 48 [] mode = 3 -> 192 [] OTHER -> 96
RSAIRYDifop(d, pkt) ==
  [DifopCommon(d, RSAIRY, pkt) EXCEPT !.install = IF pkt.install = "none" THEN d.install ELSE pkt.install]

\* The first packet tells the echo mode and the model, until the installation is
\* known, too.
RSAIRYLearn(d, p) ==
  IF d.init THEN d
  ELSE LET model == RSAIRYModel(p.model)
       IN LearnEchoFromMsop(d, RSAIRYEcho(p.mode), model,
            model = 48 \/ (model = 96 /\ d.install # "none"))
RSAIRYIterator(d) ==
  CASE d.model = 48 -> IF d.echo = "SINGLE" THEN "Single" ELSE "Dual"
    [] d.model = 96 -> IF d.echo = "SINGLE" THEN "TwoInOne" ELSE "FourInOne"
RSAIRYMsop(q, d, f, p) ==
  IF d.model = 192 THEN [f EXCEPT !.ret = FALSE, !.err = "UNSUPPORTED"]
  ELSE DecodeBlocks(q, d, RSAIRY, f, p, RSAIRYIterator(d), d.model, "WRONGMSOPBLKID", FALSE)
RSAIRYNewFrame(q, d, sp, p) ==
  IF p.other THEN [split |-> FALSE, sp |-> sp] ELSE FeedUntilSplit(q, d, RSAIRY, sp, FirstByteOnly(p))

(* RSFAIRY: 48 or 96 channels *)

RSFAIRY == [lasers |-> 96, chans |-> 48, blocks |-> 8, dur |-> 1]
RSFAIRYEcho(mode) == IF mode = 3 THEN "DUAL" ELSE "SINGLE"
RSFAIRYModel(mode) == IF mode = 1 THEN 48 ELSE 96
RSFAIRYDifop(d, pkt) == DifopCommon(d, RSFAIRY, pkt)
RSFAIRYLearn(d, p) ==
  IF d.init THEN d ELSE LearnEchoFromMsop(d, RSFAIRYEcho(p.mode), RSFAIRYModel(p.model), TRUE)
RSFAIRYIterator(d) ==
  CASE d.model = 48 -> IF d.echo = "SINGLE" THEN "Single" ELSE "Dual"
    [] d.model = 96 -> IF d.echo = "SINGLE" THEN "TwoInOne" ELSE "FourInOne"
RSFAIRYMsop(q, d, f, p) ==
  DecodeBlocks(q, d, RSFAIRY, f, p, RSFAIRYIterator(d), d.model, "WRONGMSOPBLKID", FALSE)
RSFAIRYNewFrame(q, d, sp, p) ==
  IF p.other THEN [split |-> FALSE, sp |-> sp] ELSE FeedUntilSplit(q, d, RSFAIRY, sp, FirstByteOnly(p))
=============================================================================
