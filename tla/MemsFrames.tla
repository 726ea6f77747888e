------------------------------ MODULE MemsFrames ------------------------------
(***************************************************************************)
(* decoder/split_strategy.hpp, SplitStrategyBySeq, with the decoders of    *)
(* the lidars that number the packets of a frame: RSM1, RSM2, RSM3, RSMX,  *)
(* RSE1.  The lidar sends frames of N packets numbered from 1; the         *)
(* network loses some and lets others overtake; the decoder has to find    *)
(* where a frame begins from the numbers alone.  A cloud is reduced to the *)
(* frames its packets came from and whether they came late.                *)
(***************************************************************************)
EXTENDS Integers, Sequences, FiniteSets

CONSTANTS
  N,           \* packets per frame, 630 for RSM1
  RANGE,       \* the safe range, 10 in the code
  Gap,         \* the network skips at most Gap - 1 packets in a row,
  Lag,         \* and a packet that was overtaken comes at most Lag places late
  MaxFrames,   \* bound on the frames sent
  MaxBursts    \* bound on the losses larger than that

\* "Slight packet loss and out of order": together within the safe range.  A frame
\* is longer than what the range can confuse, and its numbers fit in 16 bits.
ASSUME FrameAssumption ==
  /\ {N, RANGE, Gap, Lag, MaxFrames, MaxBursts} \subseteq Nat
  /\ Gap >= 1 /\ Gap + Lag <= RANGE
  /\ N > Gap + Lag + 2 * RANGE
  /\ N + RANGE < 65536

VARIABLES
  prev_seq, safe_seq_min, safe_seq_max, max_seq, looped,  \* of SplitStrategyBySeq
  ret,       \* what decodeMsopPkt returned: the packet begins a frame
  cloud,     \* point_cloud_
  clouds,    \* clouds handed to cb_split_frame_
  closes,    \* the decoder hands the cloud out after the last number too: RSM1
  frame, seq,  \* the furthest packet received; frame 0 before the first
  missing,   \* packets before it that may still come
  calm,      \* frame in which the last burst of losses ended, 0 if none
  bursts     \* how many there were

strategyVars == <<prev_seq, safe_seq_min, safe_seq_max, max_seq, looped>>
decoderVars  == <<ret, cloud, clouds, closes>>
networkVars  == <<frame, seq, missing, calm, bursts>>
vars == <<strategyVars, decoderVars, networkVars>>

Packet == [frame : 1..MaxFrames, seq : 1..N]

\* setSafeRange: both bounds are uint16_t.
SafeMin(p) == IF p > RANGE THEN p - RANGE ELSE 0
SafeMax(p) == (p + RANGE) % 65536

Init ==
  /\ prev_seq = 0 /\ max_seq = 0 /\ looped = FALSE
  /\ safe_seq_min = SafeMin(0) /\ safe_seq_max = SafeMax(0)
  /\ ret = FALSE /\ cloud = {} /\ clouds = <<>> /\ closes \in BOOLEAN
  /\ frame = 0 /\ seq = 0 /\ missing = {} /\ calm = 0 /\ bursts = 0

-----------------------------------------------------------------------------
(* The strategy *)

\* Mutation: a frame begins with number 1 only.
RewindsAtOne(s) == s = 1

Rewinds(s) == s < safe_seq_min

\* Mutation: a number beyond the range is taken, too.
FollowsFar(s) == s >= prev_seq

\* A number in the upper half of the range, or the first of all.
Follows(s) ==
  /\ s >= prev_seq
  /\ s <= safe_seq_max \/ prev_seq = 0

\* Mutation: a rewind is reported and not remembered.
NewPacketForgets(s) ==
  /\ max_seq' = IF s > max_seq THEN s ELSE max_seq
  /\ looped' = (looped \/ Rewinds(s))
  /\ prev_seq' = IF Follows(s) THEN s ELSE prev_seq
  /\ safe_seq_min' = SafeMin(prev_seq') /\ safe_seq_max' = SafeMax(prev_seq')

NewPacket(s) ==
  /\ max_seq' = IF s > max_seq THEN s ELSE max_seq
  /\ looped' = (looped \/ Rewinds(s))
  /\ prev_seq' = IF Rewinds(s) \/ Follows(s) THEN s ELSE prev_seq
  /\ safe_seq_min' = SafeMin(prev_seq') /\ safe_seq_max' = SafeMax(prev_seq')

MaxSeq == IF looped THEN max_seq ELSE 0

-----------------------------------------------------------------------------
(* The decoder *)

\* splitFrame hands out a cloud that has points.
HandOut(c) == IF c = {} THEN <<>> ELSE <<c>>

\* newPacket, the split, the packet's points, and for RSM1 the split after them.
Decode(p, late) ==
  /\ NewPacket(p.seq)
  /\ ret' = Rewinds(p.seq)
  /\ LET before == IF Rewinds(p.seq) THEN HandOut(cloud) ELSE <<>>
         filled == (IF Rewinds(p.seq) THEN {} ELSE cloud) \cup {<<p.frame, late>>}
     IN IF closes /\ MaxSeq' = p.seq
          THEN clouds' = clouds \o before \o HandOut(filled) /\ cloud' = {}
          ELSE clouds' = clouds \o before /\ cloud' = filled
  /\ UNCHANGED closes

-----------------------------------------------------------------------------
(* The network *)

\* How many places packet p is behind packet number s of frame f: at most d.
Behind(p, f, s, d) ==
  \/ p.frame = f /\ p.seq < s /\ s - p.seq <= d
  \/ p.frame = f - 1 /\ s + N - p.seq <= d

Ahead(p) == p.frame > frame \/ (p.frame = frame /\ p.seq > seq)

Near(p) == \/ p.frame = frame /\ p.seq - seq <= Gap
           \/ p.frame = frame + 1 /\ p.seq + N - seq <= Gap

\* The packets skipped may come later, until they are too far behind.
Advance(p) ==
  /\ frame' = p.frame /\ seq' = p.seq
  /\ missing' = {q \in Packet : (q \in missing \/ Ahead(q)) /\ Behind(q, p.frame, p.seq, Lag)}
  /\ Decode(p, FALSE)

\* The driver may be started in the middle of a frame.
First ==
  /\ frame = 0
  /\ \E p \in Packet : p.frame = 1 /\ Advance(p)
  /\ UNCHANGED <<calm, bursts>>

Arrive ==
  /\ frame > 0
  /\ \E p \in Packet : Ahead(p) /\ Near(p) /\ Advance(p)
  /\ UNCHANGED <<calm, bursts>>

ArriveLate ==
  /\ \E p \in missing : missing' = missing \ {p} /\ Decode(p, TRUE)
  /\ UNCHANGED <<frame, seq, calm, bursts>>

\* More is lost than the safe range is for.
Burst ==
  /\ frame > 0 /\ bursts < MaxBursts
  /\ \E p \in Packet : Ahead(p) /\ ~Near(p) /\ Advance(p) /\ calm' = p.frame
  /\ bursts' = bursts + 1

Next == First \/ Arrive \/ ArriveLate \/ Burst

Spec == Init /\ [][Next]_vars

-----------------------------------------------------------------------------
(* Properties *)

\* The values of the variables.
TypeOK ==
  /\ {prev_seq, max_seq} \subseteq 0..N
  /\ safe_seq_min \in 0..N /\ safe_seq_max \in 0..(N + RANGE)
  /\ {looped, ret, closes} \subseteq BOOLEAN
  /\ frame \in 0..MaxFrames /\ seq \in 0..N /\ missing \subseteq Packet
  /\ calm \in 0..frame /\ bursts \in 0..MaxBursts

\* A burst was never, or ended at least one whole frame ago.
Settled == calm = 0 \/ frame > calm + 1

\* The strategy knows where in the frame the lidar is, whatever the network loses
\* and reorders; after a burst it knows again when one more frame has passed.
InSync == Settled => prev_seq = seq

\* The strategy's variables belong together.
StrategyInv ==
  /\ prev_seq \in 0..N /\ max_seq \in 0..N
  /\ safe_seq_min = SafeMin(prev_seq) /\ safe_seq_max = SafeMax(prev_seq)
  /\ looped \in BOOLEAN /\ ret \in BOOLEAN /\ closes \in BOOLEAN

NetworkInv ==
  /\ frame \in 0..MaxFrames /\ seq \in 0..N
  /\ calm \in 0..frame /\ bursts \in 0..MaxBursts
  /\ missing \subseteq Packet
  /\ \A p \in missing : Behind(p, frame, seq, Lag)
  /\ IF frame = 0 THEN prev_seq = 0 /\ missing = {} ELSE prev_seq >= 1 /\ seq >= 1

\* In the frame after a burst the strategy is either close to the lidar or still
\* near the beginning, where the lidar will pass it.
Recovering ==
  calm > 0 /\ frame = calm + 1 =>
    prev_seq >= seq - Lag /\ (prev_seq <= seq \/ prev_seq <= Gap + RANGE)

\* The inductive invariant: InSync alone is not inductive, since it says nothing of
\* the frame after a burst, from which the strategy recovers.
SyncInv == StrategyInv /\ NetworkInv /\ InSync /\ Recovering

\* decodeMsopPkt reports the beginning of a frame with the first packet that comes
\* of it and never again: "packet 301 reaches before packet 300, then this frame
\* is splitted into two" does not happen.
FrameBeginsOnce == [][Settled' => (ret' <=> frame > 0 /\ frame' > frame)]_vars

OnTime(c) == {f \in 1..MaxFrames : <<f, FALSE>> \in c}
AllClouds == Append(clouds, cloud)

\* A cloud holds one frame, and a burst joins at most two more to it.
FramesPerCloud ==
  \A i \in DOMAIN AllClouds : Cardinality(OnTime(AllClouds[i])) <= 1 + 2 * bursts

\* Without a burst every frame is in one cloud, and no cloud has only packets that
\* came late: "Slight packet loss and out of order is tolerated".
WholeFrames ==
  calm = 0 =>
    /\ \A i \in DOMAIN clouds : OnTime(clouds[i]) # {}
    /\ \A i, j \in DOMAIN AllClouds :
         i # j => OnTime(AllClouds[i]) \cap OnTime(AllClouds[j]) = {}

\* So it is for the lidars whose decoder splits at the beginning of a frame only.
WholeFramesOfOthers == closes \/ WholeFrames
=============================================================================
