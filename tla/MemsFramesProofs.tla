--------------------------- MODULE MemsFramesProofs ---------------------------
(***************************************************************************)
(* For every length of frame, safe range and bound on loss and reordering  *)
(* that FrameAssumption allows, SplitStrategyBySeq knows where in the      *)
(* frame the lidar is, and reports each frame's beginning once.  What that *)
(* means for the clouds, for every number of bursts: without a burst no    *)
(* frame is split and no two are joined, and each burst joins at most two  *)
(* more to a cloud.                                                        *)
(***************************************************************************)
EXTENDS MemsFrames, FiniteSetTheorems, SequenceTheorems, TLAPS

-----------------------------------------------------------------------------

LEMMA Constants ==
  /\ N \in Nat /\ RANGE \in Nat /\ Gap \in Nat /\ Lag \in Nat
  /\ MaxFrames \in Nat /\ MaxBursts \in Nat
  /\ Gap >= 1 /\ Gap + Lag <= RANGE /\ N > Gap + Lag + 2 * RANGE
  /\ N + RANGE < 65536
  BY FrameAssumption DEF FrameAssumption

LEMMA SmallModulo ==
  ASSUME NEW n \in Nat, NEW m \in Nat, n < m
  PROVE  n % m = n
  BY SMTT(30)

\* Both bounds of the safe range are what setSafeRange means them to be: neither
\* of the 16-bit computations wraps.
LEMMA SafeRange ==
  ASSUME NEW p \in 0..N
  PROVE  /\ SafeMax(p) = p + RANGE /\ SafeMax(p) \in 0..(N + RANGE)
         /\ SafeMin(p) \in 0..N
         /\ p <= RANGE => SafeMin(p) = 0
         /\ p > RANGE => SafeMin(p) = p - RANGE
  <1>1. p + RANGE \in Nat /\ p + RANGE < 65536
    BY Constants
  <1>2. (p + RANGE) % 65536 = p + RANGE
    BY <1>1, SmallModulo
  <1> QED
    BY <1>1, <1>2, Constants DEF SafeMax, SafeMin

\* What newPacket does, without the variables that hold the range.
LEMMA NewPacketEffect ==
  ASSUME StrategyInv, NEW s \in 1..N, NewPacket(s)
  PROVE  /\ Rewinds(s) <=> prev_seq > RANGE /\ s < prev_seq - RANGE
         /\ Follows(s) <=> prev_seq = 0 \/ (s >= prev_seq /\ s <= prev_seq + RANGE)
         /\ prev_seq' = IF Rewinds(s) \/ Follows(s) THEN s ELSE prev_seq
         /\ prev_seq' \in 0..N /\ max_seq' \in 0..N /\ looped' \in BOOLEAN
         /\ safe_seq_min' = SafeMin(prev_seq') /\ safe_seq_max' = SafeMax(prev_seq')
  <1>1. /\ safe_seq_min = SafeMin(prev_seq) /\ safe_seq_max = SafeMax(prev_seq)
        /\ prev_seq \in 0..N /\ max_seq \in 0..N /\ looped \in BOOLEAN
    BY DEF StrategyInv
  <1>2. Rewinds(s) <=> prev_seq > RANGE /\ s < prev_seq - RANGE
    BY <1>1, SafeRange, Constants DEF Rewinds
  <1>3. Follows(s) <=> prev_seq = 0 \/ (s >= prev_seq /\ s <= prev_seq + RANGE)
    BY <1>1, SafeRange, Constants DEF Follows
  <1>4. prev_seq' = IF Rewinds(s) \/ Follows(s) THEN s ELSE prev_seq
    BY DEF NewPacket
  <1>5. prev_seq' \in 0..N /\ max_seq' \in 0..N
    BY <1>1, <1>4, Constants DEF NewPacket
  <1>6. looped' \in BOOLEAN
    BY <1>1 DEF NewPacket, Rewinds
  <1>7. safe_seq_min' = SafeMin(prev_seq') /\ safe_seq_max' = SafeMax(prev_seq')
    BY DEF NewPacket
  <1> QED
    BY <1>2, <1>3, <1>4, <1>5, <1>6, <1>7

\* decodeMsopPkt keeps the strategy's variables together.
LEMMA DecodeKeeps ==
  ASSUME StrategyInv, NEW p \in Packet, NEW late \in BOOLEAN, Decode(p, late)
  PROVE  StrategyInv' /\ (ret' <=> Rewinds(p.seq)) /\ NewPacket(p.seq) /\ p.seq \in 1..N
  <1>1. NewPacket(p.seq) /\ p.seq \in 1..N /\ (ret' <=> Rewinds(p.seq))
    BY DEF Decode, Packet
  <1>2. ret' \in BOOLEAN
    BY DEF Decode, Rewinds
  <1>3. closes' \in BOOLEAN
    BY DEF Decode, StrategyInv
  <1> QED
    BY <1>1, <1>2, <1>3, NewPacketEffect DEF StrategyInv

-----------------------------------------------------------------------------

LEMMA InitHolds == Init => SyncInv
  <1> SUFFICES ASSUME Init PROVE SyncInv
    OBVIOUS
  <1>1. 0 \in 0..N /\ 0 \in 0..MaxFrames /\ 0 \in 0..MaxBursts
    BY Constants
  <1>2. StrategyInv
    BY <1>1 DEF Init, StrategyInv
  <1>3. NetworkInv
    BY <1>1 DEF Init, NetworkInv
  <1>4. InSync /\ Recovering
    BY DEF Init, InSync, Recovering
  <1> QED
    BY <1>2, <1>3, <1>4 DEF SyncInv

\* After the first packet the strategy is where the lidar is.
LEMMA FirstKeeps ==
  ASSUME SyncInv, First
  PROVE  SyncInv' /\ ~ret'
  <1>1. PICK p \in Packet : p.frame = 1 /\ Advance(p)
    BY DEF First
  <1>2. frame = 0 /\ prev_seq = 0 /\ calm = 0 /\ calm' = calm /\ bursts' = bursts
    BY DEF First, SyncInv, NetworkInv
  <1>3. StrategyInv' /\ (ret' <=> Rewinds(p.seq)) /\ NewPacket(p.seq) /\ p.seq \in 1..N
    BY <1>1, DecodeKeeps DEF Advance, SyncInv
  <1>4. prev_seq' = p.seq /\ ~ret'
    BY <1>2, <1>3, NewPacketEffect, Constants DEF SyncInv
  <1>5. frame' = 1 /\ seq' = p.seq /\ 1 \in 0..MaxFrames
    BY <1>1 DEF Advance, Packet
  <1>6. missing' \subseteq Packet /\ \A q \in missing' : Behind(q, frame', seq', Lag)
    BY <1>1 DEF Advance
  <1>7. NetworkInv'
    BY <1>2, <1>3, <1>4, <1>5, <1>6 DEF NetworkInv, SyncInv, Behind
  <1> QED
    BY <1>2, <1>3, <1>4, <1>5, <1>7 DEF SyncInv, InSync, Recovering

\* The next packet the network lets through: of the same frame, a little further,
\* or of the next one, near its beginning.
LEMMA ArriveKeeps ==
  ASSUME SyncInv, Arrive
  PROVE  SyncInv' /\ (Settled' => (ret' <=> frame' > frame))
  <1>1. PICK p \in Packet : Ahead(p) /\ Near(p) /\ Advance(p)
    BY DEF Arrive
  <1>2. /\ frame > 0 /\ calm' = calm /\ bursts' = bursts
        /\ frame' = p.frame /\ seq' = p.seq
        /\ p.frame \in 1..MaxFrames /\ p.seq \in 1..N
    BY <1>1 DEF Arrive, Advance, Packet
  <1>3. /\ prev_seq \in 1..N /\ frame \in 0..MaxFrames /\ seq \in 1..N /\ calm \in 0..frame
    BY <1>2, Constants DEF SyncInv, StrategyInv, NetworkInv
  <1>4. StrategyInv' /\ (ret' <=> Rewinds(p.seq)) /\ NewPacket(p.seq)
    BY <1>1, DecodeKeeps DEF Advance, SyncInv
  <1>5. /\ ret' <=> prev_seq > RANGE /\ p.seq < prev_seq - RANGE
        /\ Follows(p.seq) <=> p.seq >= prev_seq /\ p.seq <= prev_seq + RANGE
        /\ prev_seq' = IF ret' \/ Follows(p.seq) THEN p.seq ELSE prev_seq
    BY <1>2, <1>3, <1>4, NewPacketEffect, Constants DEF SyncInv
  <1>6. prev_seq' \in 1..N
    BY <1>2, <1>3, <1>5
  <1>7. missing' \subseteq Packet /\ \A q \in missing' : Behind(q, frame', seq', Lag)
    BY <1>1 DEF Advance
  <1>8. NetworkInv'
    <2>1. frame' \in 0..MaxFrames /\ seq' \in 0..N /\ frame' >= frame
      BY <1>1, <1>2, <1>3, Constants DEF Ahead
    <2>2. calm' \in 0..frame' /\ bursts' \in 0..MaxBursts
      BY <1>2, <1>3, <2>1 DEF SyncInv, NetworkInv
    <2> QED
      BY <1>2, <1>3, <1>6, <1>7, <2>1, <2>2, Constants DEF NetworkInv, Behind
  <1>9. (Settled => prev_seq = seq) /\ Recovering
    BY DEF SyncInv, InSync
  <1>10. CASE p.frame = frame
    <2>1. seq < p.seq /\ p.seq <= seq + Gap
      BY <1>1, <1>2, <1>3, <1>10, Constants DEF Ahead, Near
    <2>2. Settled' <=> Settled
      BY <1>2, <1>10 DEF Settled
    <2>3. ASSUME Settled PROVE prev_seq' = seq' /\ ~ret'
      BY <1>2, <1>3, <1>5, <1>9, <2>1, <2>3, Constants
    <2>4. ASSUME calm > 0, frame = calm + 1
          PROVE  prev_seq' >= seq' - Lag /\ (prev_seq' <= seq' \/ prev_seq' <= Gap + RANGE)
      <3>1. prev_seq >= seq - Lag /\ (prev_seq <= seq \/ prev_seq <= Gap + RANGE)
        BY <1>9, <2>4 DEF Recovering
      <3> QED
        BY <1>2, <1>3, <1>5, <2>1, <3>1, Constants
    <2>5. InSync' /\ Recovering'
      BY <1>2, <1>10, <2>2, <2>3, <2>4 DEF InSync, Recovering
    <2>6. Settled' => (ret' <=> frame' > frame)
      BY <1>2, <1>3, <1>10, <2>2, <2>3
    <2> QED
      BY <1>4, <1>8, <2>5, <2>6 DEF SyncInv
  <1>11. CASE p.frame = frame + 1
    <2>1. p.seq + N - seq <= Gap
      BY <1>1, <1>2, <1>3, <1>11, Constants DEF Near
    <2>2. p.seq <= Gap /\ seq > N - Gap
      BY <1>2, <1>3, <2>1, Constants
    \* The strategy is near the end of the frame, unless the burst was in this one.
    <2>3. ASSUME Settled' PROVE prev_seq' = seq' /\ ret'
      <3>1. calm = 0 \/ frame > calm
        BY <1>2, <1>3, <1>11, <2>3 DEF Settled
      <3>2. prev_seq >= seq - Lag
        <4>1. CASE Settled
          BY <1>3, <1>9, <4>1, Constants
        <4>2. CASE ~Settled
          <5>1. calm > 0 /\ frame = calm + 1
            BY <1>3, <3>1, <4>2 DEF Settled
          <5> QED
            BY <1>9, <5>1 DEF Recovering
        <4> QED
          BY <4>1, <4>2
      <3>3. prev_seq > RANGE /\ p.seq < prev_seq - RANGE
        BY <1>2, <1>3, <2>2, <3>2, Constants
      <3> QED
        BY <1>2, <1>5, <3>3
    <2>4. prev_seq' >= seq' - Lag /\ (prev_seq' <= seq' \/ prev_seq' <= Gap + RANGE)
      BY <1>2, <1>3, <1>5, <2>2, Constants
    <2>5. InSync' /\ Recovering'
      BY <2>3, <2>4 DEF InSync, Recovering
    <2>6. frame' > frame
      BY <1>2, <1>3, <1>11
    <2> QED
      BY <1>4, <1>8, <2>3, <2>5, <2>6 DEF SyncInv
  <1> QED
    BY <1>1, <1>10, <1>11 DEF Near

\* A packet that was overtaken begins no frame and does not move the strategy
\* forward past the lidar, least of all one of the frame before.
LEMMA ArriveLateKeeps ==
  ASSUME SyncInv, ArriveLate
  PROVE  SyncInv' /\ frame' = frame /\ (Settled' => ~ret')
  <1>1. PICK p \in missing : missing' = missing \ {p} /\ Decode(p, TRUE)
    BY DEF ArriveLate
  <1>2. frame' = frame /\ seq' = seq /\ calm' = calm /\ bursts' = bursts
    BY DEF ArriveLate
  <1>3. p \in Packet /\ Behind(p, frame, seq, Lag) /\ frame # 0
    BY <1>1 DEF SyncInv, NetworkInv
  <1>4. /\ prev_seq \in 1..N /\ frame \in 1..MaxFrames /\ seq \in 1..N /\ calm \in 0..frame
    BY <1>3, Constants DEF SyncInv, StrategyInv, NetworkInv
  <1>5. StrategyInv' /\ (ret' <=> Rewinds(p.seq)) /\ NewPacket(p.seq) /\ p.seq \in 1..N
    BY <1>1, <1>3, DecodeKeeps DEF SyncInv
  <1>6. /\ ret' <=> prev_seq > RANGE /\ p.seq < prev_seq - RANGE
        /\ Follows(p.seq) <=> p.seq >= prev_seq /\ p.seq <= prev_seq + RANGE
        /\ prev_seq' = IF ret' \/ Follows(p.seq) THEN p.seq ELSE prev_seq
    BY <1>4, <1>5, NewPacketEffect, Constants DEF SyncInv
  <1>7. NetworkInv'
    <2>1. missing' \subseteq Packet /\ \A q \in missing' : Behind(q, frame', seq', Lag)
      BY <1>1, <1>2 DEF SyncInv, NetworkInv
    <2>2. prev_seq' >= 1
      BY <1>4, <1>5, <1>6
    <2> QED
      BY <1>2, <1>4, <2>1, <2>2 DEF SyncInv, NetworkInv
  <1>8. \/ p.seq < seq /\ seq - p.seq <= Lag
        \/ seq + N - p.seq <= Lag
    BY <1>3 DEF Behind
  <1>9. ASSUME prev_seq = seq PROVE ~ret' /\ prev_seq' = seq'
    BY <1>2, <1>4, <1>5, <1>6, <1>8, <1>9, Constants
  <1>10. ASSUME prev_seq >= seq - Lag /\ (prev_seq <= seq \/ prev_seq <= Gap + RANGE)
         PROVE  prev_seq' >= seq' - Lag /\ (prev_seq' <= seq' \/ prev_seq' <= Gap + RANGE)
    BY <1>2, <1>4, <1>5, <1>6, <1>8, <1>10, Constants
  <1>11. Settled' <=> Settled
    BY <1>2 DEF Settled
  <1>12. InSync' /\ Recovering' /\ (Settled' => ~ret')
    BY <1>2, <1>9, <1>10, <1>11 DEF SyncInv, InSync, Recovering
  <1> QED
    BY <1>2, <1>5, <1>7, <1>12 DEF SyncInv

\* A burst of losses leaves the strategy behind, and nothing is claimed of its frame.
LEMMA BurstKeeps ==
  ASSUME SyncInv, Burst
  PROVE  SyncInv' /\ ~Settled'
  <1>1. PICK p \in Packet : Ahead(p) /\ ~Near(p) /\ Advance(p) /\ calm' = p.frame
    BY DEF Burst
  <1>2. /\ frame > 0 /\ bursts < MaxBursts /\ bursts' = bursts + 1
        /\ frame' = p.frame /\ seq' = p.seq
        /\ p.frame \in 1..MaxFrames /\ p.seq \in 1..N
    BY <1>1 DEF Burst, Advance, Packet
  <1>3. /\ prev_seq \in 1..N /\ frame \in 0..MaxFrames /\ bursts \in 0..MaxBursts
    BY <1>2, Constants DEF SyncInv, StrategyInv, NetworkInv
  <1>4. StrategyInv' /\ (ret' <=> Rewinds(p.seq)) /\ NewPacket(p.seq)
    BY <1>1, DecodeKeeps DEF Advance, SyncInv
  <1>5. prev_seq' \in 1..N
    BY <1>2, <1>3, <1>4, NewPacketEffect, Constants DEF SyncInv
  <1>6. missing' \subseteq Packet /\ \A q \in missing' : Behind(q, frame', seq', Lag)
    BY <1>1 DEF Advance
  <1>7. bursts' \in 0..MaxBursts /\ calm' \in 0..frame'
    BY <1>1, <1>2, <1>3, Constants
  <1>8. NetworkInv'
    BY <1>2, <1>5, <1>6, <1>7, Constants DEF NetworkInv
  <1>9. calm' > 0 /\ frame' = calm'
    BY <1>1, <1>2, Constants
  <1>10. ~Settled' /\ InSync' /\ Recovering'
    BY <1>2, <1>9, Constants DEF Settled, InSync, Recovering
  <1> QED
    BY <1>4, <1>8, <1>10 DEF SyncInv

\* Every step of the lidar, the network and the decoder.
LEMMA StepKeeps ==
  ASSUME SyncInv, [Next]_vars
  PROVE  /\ SyncInv'
         /\ UNCHANGED vars \/ (Settled' => (ret' <=> frame > 0 /\ frame' > frame))
  <1>1. CASE First
    <2>1. frame = 0
      BY <1>1 DEF First
    <2> QED
      BY <1>1, <2>1, FirstKeeps
  <1>2. CASE Arrive
    BY <1>2, ArriveKeeps DEF Arrive
  <1>3. CASE ArriveLate
    BY <1>3, ArriveLateKeeps, Constants DEF SyncInv, NetworkInv
  <1>4. CASE Burst
    BY <1>4, BurstKeeps
  <1>5. CASE UNCHANGED vars
    BY <1>5 DEF SyncInv, StrategyInv, NetworkInv, InSync, Recovering, Settled,
       vars, strategyVars, decoderVars, networkVars
  <1> QED
    BY <1>1, <1>2, <1>3, <1>4, <1>5 DEF Next

-----------------------------------------------------------------------------

\* The inductive invariant holds in every reachable state.
THEOREM SyncInvariance == Spec => []SyncInv
  <1>1. SyncInv /\ [Next]_vars => SyncInv'
    BY StepKeeps
  <1> QED
    BY InitHolds, <1>1, PTL DEF Spec

\* Every variable keeps its type; above all the 16-bit bounds of the safe range
\* never wrap.
THEOREM TypeCorrect == Spec => []TypeOK
  <1>1. SyncInv => TypeOK
    <2> SUFFICES ASSUME SyncInv PROVE TypeOK
      OBVIOUS
    <2>1. /\ prev_seq \in 0..N /\ max_seq \in 0..N
          /\ safe_seq_min = SafeMin(prev_seq) /\ safe_seq_max = SafeMax(prev_seq)
          /\ looped \in BOOLEAN /\ ret \in BOOLEAN /\ closes \in BOOLEAN
      BY DEF SyncInv, StrategyInv
    <2>2. safe_seq_min \in 0..N /\ safe_seq_max \in 0..(N + RANGE)
      BY <2>1, SafeRange
    <2>3. /\ frame \in 0..MaxFrames /\ seq \in 0..N /\ missing \subseteq Packet
          /\ calm \in 0..frame /\ bursts \in 0..MaxBursts
      BY DEF SyncInv, NetworkInv
    <2> QED
      BY <2>1, <2>2, <2>3 DEF TypeOK
  <1> QED
    BY SyncInvariance, <1>1, PTL

\* The strategy stays where the lidar is, and is there again when a whole frame has
\* passed since a burst.
THEOREM StaysInSync == Spec => []InSync
  <1>1. SyncInv => InSync
    BY DEF SyncInv
  <1> QED
    BY SyncInvariance, <1>1, PTL

\* A frame's beginning is reported with the first packet that comes of it, and
\* nothing else is taken for one.
THEOREM FrameBegins == Spec => FrameBeginsOnce
  <1>1. SyncInv /\ [Next]_vars
          => [Settled' => (ret' <=> frame > 0 /\ frame' > frame)]_vars
    BY StepKeeps
  <1> QED
    BY SyncInvariance, <1>1, PTL DEF Spec, FrameBeginsOnce

-----------------------------------------------------------------------------
(* The inductive invariants of the clouds *)

Part == (1..MaxFrames) \X BOOLEAN

CloudTypes == cloud \in SUBSET Part /\ clouds \in Seq(SUBSET Part)

\* The cloud being filled is the current frame's, those handed out have earlier frames
\* each of its own.
WholeInv ==
  closes \/ calm # 0 \/
  /\ frame = 0 => cloud = {} /\ clouds = <<>>
  /\ frame > 0 => OnTime(cloud) = {frame}
  /\ \A i \in 1..Len(clouds) : OnTime(clouds[i]) # {} /\ OnTime(clouds[i]) \subseteq 1..(frame - 1)
  /\ \A i, j \in 1..Len(clouds) : i # j => OnTime(clouds[i]) \cap OnTime(clouds[j]) = {}

\* What the cloud being filled may hold, when the strategy is in sync, in the frame of
\* a burst, and in the one after it, whose beginning may go unnoticed.
CountInv ==
  /\ calm > 0 => bursts >= 1
  /\ OnTime(cloud) = {} \/ frame \in OnTime(cloud)
  /\ Settled => OnTime(cloud) \subseteq {frame}
  /\ calm > 0 /\ frame = calm => Cardinality(OnTime(cloud)) <= 2 * bursts
  /\ Cardinality(OnTime(cloud)) <= 1 + 2 * bursts
  /\ \A i \in 1..Len(clouds) : Cardinality(OnTime(clouds[i])) <= 1 + 2 * bursts

CloudsInv == SyncInv /\ CloudTypes /\ WholeInv /\ CountInv

-----------------------------------------------------------------------------
(* Clouds *)

\* The cloud with the packet's points, before the split after them.
Filled(p, late) == (IF Rewinds(p.seq) THEN {} ELSE cloud) \cup {<<p.frame, late>>}

LEMMA OnTimeType ==
  ASSUME NEW c PROVE OnTime(c) \in SUBSET (1..MaxFrames)
BY DEF OnTime

LEMMA OnTimeFinite ==
  ASSUME NEW c PROVE IsFiniteSet(OnTime(c)) /\ Cardinality(OnTime(c)) \in Nat
<1>1. IsFiniteSet(1..MaxFrames)
  BY Constants, FS_Interval
<1>2. QED BY <1>1, OnTimeType, FS_Subset, FS_CardinalityType

\* A packet adds its frame to a cloud, unless it comes late.
LEMMA OnTimeAdd ==
  ASSUME NEW c, NEW f \in 1..MaxFrames, NEW late \in BOOLEAN
  PROVE  OnTime(c \cup {<<f, late>>}) = OnTime(c) \cup (IF late THEN {} ELSE {f})
<1>1. CASE late = TRUE
  <2>1. \A g : <<g, FALSE>> # <<f, late>>
    BY <1>1
  <2>2. QED BY <1>1, <2>1 DEF OnTime
<1>2. CASE late = FALSE
  <2>1. \A g : <<g, FALSE>> = <<f, late>> <=> g = f
    BY <1>2
  <2>2. QED BY <1>2, <2>1 DEF OnTime
<1>3. QED BY <1>1, <1>2

LEMMA FilledType ==
  ASSUME CloudTypes, NEW p \in Packet, NEW late \in BOOLEAN
  PROVE  Filled(p, late) \in SUBSET Part
<1>1. <<p.frame, late>> \in Part
  BY DEF Part, Packet
<1>2. QED BY <1>1 DEF Filled, CloudTypes

LEMMA FilledFrames ==
  ASSUME NEW p \in Packet, NEW late \in BOOLEAN
  PROVE  OnTime(Filled(p, late)) = (IF Rewinds(p.seq) THEN {} ELSE OnTime(cloud))
                                   \cup (IF late THEN {} ELSE {p.frame})
<1>1. p.frame \in 1..MaxFrames
  BY DEF Packet
<1> DEFINE old == IF Rewinds(p.seq) THEN {} ELSE cloud
<1>2. OnTime(old) = IF Rewinds(p.seq) THEN {} ELSE OnTime(cloud)
  BY DEF OnTime
<1>3. Filled(p, late) = old \cup {<<p.frame, late>>}
  BY DEF Filled
<1> HIDE DEF old
<1>4. QED BY <1>1, <1>2, <1>3, OnTimeAdd

\* A sequence with the clouds that are handed out.
LEMMA HandOutAll ==
  ASSUME NEW s \in Seq(SUBSET Part), NEW c \in SUBSET Part
  PROVE  /\ s \o HandOut(c) \in Seq(SUBSET Part)
         /\ s \o HandOut(c) = IF c = {} THEN s ELSE Append(s, c)
<1>1. CASE c = {}
  BY <1>1, ConcatEmptySeq DEF HandOut
<1>2. CASE c # {}
  <2>1. HandOut(c) = <<c>> BY <1>2 DEF HandOut
  <2>2. Append(s, c) = s \o <<c>> BY AppendIsConcat
  <2>3. Append(s, c) \in Seq(SUBSET Part) OBVIOUS
  <2> QED BY <1>2, <2>1, <2>2, <2>3, Zenon
<1>3. QED BY <1>1, <1>2

\* Every cloud handed out so far was so before, or is the one that was being filled,
\* before or after the packet.
LEMMA DecodeClouds ==
  ASSUME CloudTypes, NEW p \in Packet, NEW late \in BOOLEAN, Decode(p, late)
  PROVE  /\ CloudTypes'
         /\ cloud' = {} \/ cloud' = Filled(p, late)
         /\ \A i \in 1..Len(clouds') :
               \/ i \in 1..Len(clouds) /\ clouds'[i] = clouds[i]
               \/ Rewinds(p.seq) /\ clouds'[i] = cloud
               \/ clouds'[i] = Filled(p, late)
<1> DEFINE before == IF Rewinds(p.seq) THEN HandOut(cloud) ELSE <<>>
           mid == clouds \o before
<1>1. Filled(p, late) \in SUBSET Part
  BY FilledType
<1>2. /\ mid \in Seq(SUBSET Part)
      /\ mid = IF Rewinds(p.seq) /\ cloud # {} THEN Append(clouds, cloud) ELSE clouds
  BY HandOutAll, ConcatEmptySeq DEF CloudTypes
<1>3. \A i \in 1..Len(mid) : \/ i \in 1..Len(clouds) /\ mid[i] = clouds[i]
                             \/ Rewinds(p.seq) /\ mid[i] = cloud
  BY <1>2, AppendProperties, LenProperties DEF CloudTypes
<1> HIDE DEF mid
<1>4. /\ mid \o HandOut(Filled(p, late)) \in Seq(SUBSET Part)
      /\ mid \o HandOut(Filled(p, late))
           = IF Filled(p, late) = {} THEN mid ELSE Append(mid, Filled(p, late))
  BY <1>1, <1>2, HandOutAll
<1>5. \/ clouds' = mid \o HandOut(Filled(p, late)) /\ cloud' = {}
      \/ clouds' = mid /\ cloud' = Filled(p, late)
  BY DEF Decode, mid, Filled
<1>6. \A i \in 1..Len(mid \o HandOut(Filled(p, late))) :
        \/ i \in 1..Len(mid) /\ (mid \o HandOut(Filled(p, late)))[i] = mid[i]
        \/ (mid \o HandOut(Filled(p, late)))[i] = Filled(p, late)
  BY <1>1, <1>2, <1>4, AppendProperties, LenProperties
<1>7. CloudTypes'
  BY <1>1, <1>2, <1>4, <1>5 DEF CloudTypes
<1>8. QED BY <1>3, <1>5, <1>6, <1>7

\* A decoder that splits at the beginning of a frame only.
LEMMA DecodeAtBeginning ==
  ASSUME CloudTypes, ~closes, NEW p \in Packet, NEW late \in BOOLEAN, Decode(p, late)
  PROVE  /\ ~closes' /\ cloud' = Filled(p, late)
         /\ clouds' = IF Rewinds(p.seq) /\ cloud # {} THEN Append(clouds, cloud) ELSE clouds
<1>1. /\ ~closes' /\ cloud' = Filled(p, late)
      /\ clouds' = clouds \o (IF Rewinds(p.seq) THEN HandOut(cloud) ELSE <<>>)
  BY DEF Decode, Filled
<1>2. QED BY <1>1, HandOutAll, ConcatEmptySeq DEF CloudTypes

-----------------------------------------------------------------------------
(* Steps *)

\* A packet, and what the step that brings it says of the frames.
Packets(p, late) ==
  /\ p \in Packet /\ late \in BOOLEAN /\ Decode(p, late)
  /\ IF late THEN frame > 0 /\ UNCHANGED <<frame, calm, bursts>>
             ELSE frame' = p.frame /\ p.frame >= frame

LEMMA StepPackets ==
  ASSUME SyncInv, Next
  PROVE  \E p, late : /\ Packets(p, late)
                      /\ \/ UNCHANGED <<calm, bursts>> /\ frame' <= frame + 1
                         \/ calm' = frame' /\ bursts' = bursts + 1
<1>1. CASE First
  <2>1. PICK p \in Packet : p.frame = 1 /\ Advance(p)
    BY <1>1 DEF First
  <2>2. Decode(p, FALSE)
    BY <2>1, Zenon DEF Advance
  <2>3. /\ frame' = p.frame /\ p.frame >= frame /\ frame' <= frame + 1
        /\ UNCHANGED <<calm, bursts>>
    BY <1>1, <2>1 DEF First, Advance
  <2>4. Packets(p, FALSE)
    BY <2>2, <2>3, Zenon DEF Packets
  <2>5. QED BY <2>3, <2>4
<1>2. CASE Arrive
  <2>1. PICK p \in Packet : Ahead(p) /\ Near(p) /\ Advance(p)
    BY <1>2 DEF Arrive
  <2>2. frame \in Nat /\ p.frame \in Nat
    BY Constants DEF SyncInv, NetworkInv, Packet
  <2>3. Decode(p, FALSE)
    BY <2>1, Zenon DEF Advance
  <2>4. /\ frame' = p.frame /\ p.frame >= frame /\ frame' <= frame + 1
        /\ UNCHANGED <<calm, bursts>>
    BY <1>2, <2>1, <2>2 DEF Arrive, Ahead, Near, Advance
  <2>5. Packets(p, FALSE)
    BY <2>3, <2>4, Zenon DEF Packets
  <2>6. QED BY <2>4, <2>5
<1>3. CASE ArriveLate
  <2>1. PICK p \in missing : Decode(p, TRUE)
    BY <1>3 DEF ArriveLate
  <2>2. p \in Packet /\ frame > 0 /\ frame \in Nat
    BY <2>1, Constants DEF SyncInv, NetworkInv
  <2>3. UNCHANGED <<frame, calm, bursts>> /\ frame' <= frame + 1
    BY <1>3, <2>2 DEF ArriveLate
  <2>4. Packets(p, TRUE)
    BY <2>1, <2>2, <2>3, Zenon DEF Packets
  <2>5. QED BY <2>3, <2>4
<1>4. CASE Burst
  <2>1. PICK p \in Packet : Ahead(p) /\ ~Near(p) /\ Advance(p) /\ calm' = p.frame
    BY <1>4 DEF Burst
  <2>2. frame \in Nat /\ p.frame \in Nat
    BY Constants DEF SyncInv, NetworkInv, Packet
  <2>3. Decode(p, FALSE)
    BY <2>1, Zenon DEF Advance
  <2>4. frame' = p.frame /\ p.frame >= frame /\ calm' = frame' /\ bursts' = bursts + 1
    BY <1>4, <2>1, <2>2 DEF Burst, Ahead, Advance
  <2>5. Packets(p, FALSE)
    BY <2>3, <2>4, Zenon DEF Packets
  <2>6. QED BY <2>4, <2>5
<1>5. QED BY <1>1, <1>2, <1>3, <1>4 DEF Next

\* Frame numbers below a later frame's.
LEMMA EarlierFrames ==
  ASSUME NEW a \in Nat, NEW b \in Nat, b > a
  PROVE  /\ a > 0 => a \in 1..(b - 1)
         /\ 1..(a - 1) \subseteq 1..(b - 1)
OBVIOUS

LEMMA StepWhole ==
  ASSUME CloudsInv, Next PROVE WholeInv'
<1>1. PICK p, late : /\ Packets(p, late)
                     /\ \/ UNCHANGED <<calm, bursts>> /\ frame' <= frame + 1
                        \/ calm' = frame' /\ bursts' = bursts + 1
  BY StepPackets DEF CloudsInv
<1>2. /\ p \in Packet /\ late \in BOOLEAN /\ Decode(p, late) /\ p.frame \in 1..MaxFrames
      /\ p.seq \in 1..N
  BY <1>1 DEF Packets, Packet
<1>3. /\ frame \in 0..MaxFrames /\ frame' \in 0..MaxFrames /\ calm \in 0..frame /\ frame' >= frame
      /\ frame' > 0 /\ (late \/ frame' = p.frame) /\ (late => frame' = frame)
  BY <1>1, <1>2, Constants DEF Packets, CloudsInv, SyncInv, NetworkInv
<1> SUFFICES ASSUME ~closes', calm' = 0 PROVE WholeInv'
  BY DEF WholeInv
<1>4. ~closes /\ calm = 0 /\ frame' <= frame + 1
  BY <1>1, <1>2, <1>3 DEF Decode
<1>5. Rewinds(p.seq) <=> frame > 0 /\ frame' > frame
  <2>1. ret' <=> Rewinds(p.seq)
    BY <1>2, DecodeKeeps DEF CloudsInv, SyncInv
  <2>2. Settled'
    BY DEF Settled
  <2>3. SyncInv' /\ (Settled' => (ret' <=> frame > 0 /\ frame' > frame))
    <3>1. CASE First
      BY <3>1, FirstKeeps DEF CloudsInv, First
    <3>2. CASE Arrive
      BY <3>2, ArriveKeeps DEF CloudsInv, Arrive
    <3>3. CASE ArriveLate
      BY <3>3, ArriveLateKeeps, <1>3 DEF CloudsInv
    <3>4. CASE Burst
      BY <3>4, BurstKeeps DEF CloudsInv
    <3>5. QED BY <3>1, <3>2, <3>3, <3>4 DEF Next
  <2>4. QED BY <2>1, <2>2, <2>3
<1>6. /\ cloud' = Filled(p, late) /\ CloudTypes'
      /\ clouds' = IF Rewinds(p.seq) /\ cloud # {} THEN Append(clouds, cloud) ELSE clouds
  BY <1>2, <1>4, DecodeAtBeginning, DecodeClouds DEF CloudsInv
<1>7. OnTime(cloud') = (IF Rewinds(p.seq) THEN {} ELSE OnTime(cloud))
                       \cup (IF late THEN {} ELSE {p.frame})
  BY <1>2, <1>6, FilledFrames
<1>8. /\ frame = 0 => OnTime(cloud) = {} /\ clouds = <<>>
      /\ frame > 0 => OnTime(cloud) = {frame}
      /\ \A i \in 1..Len(clouds) : OnTime(clouds[i]) # {} /\ OnTime(clouds[i]) \subseteq 1..(frame - 1)
      /\ \A i, j \in 1..Len(clouds) : i # j => OnTime(clouds[i]) \cap OnTime(clouds[j]) = {}
  <2>1. OnTime({}) = {}
    BY DEF OnTime
  <2>2. QED BY <1>4, <2>1 DEF CloudsInv, WholeInv
<1>9. OnTime(cloud') = {frame'}
  BY <1>1, <1>3, <1>5, <1>7, <1>8 DEF Packets
<1>10. CASE Rewinds(p.seq)
  <2>1. OnTime(cloud) = {frame} /\ frame' > frame
    BY <1>5, <1>8, <1>10
  <2>2. cloud # {}
    BY <2>1 DEF OnTime
  <2>3. /\ Len(clouds') = Len(clouds) + 1 /\ Len(clouds) \in Nat
        /\ \A i \in 1..Len(clouds) : clouds'[i] = clouds[i]
        /\ clouds'[Len(clouds) + 1] = cloud
    BY <1>6, <1>10, <2>2, AppendProperties, LenProperties DEF CloudsInv, CloudTypes
  <2>4. \A i \in 1..Len(clouds') : OnTime(clouds'[i]) # {} /\ OnTime(clouds'[i]) \subseteq 1..(frame' - 1)
    <3> SUFFICES ASSUME NEW i \in 1..Len(clouds')
                 PROVE  OnTime(clouds'[i]) # {} /\ OnTime(clouds'[i]) \subseteq 1..(frame' - 1)
      OBVIOUS
    <3>1. CASE i = Len(clouds) + 1
      <4>1. frame \in Nat /\ frame' \in Nat /\ frame > 0 /\ frame' > frame
        BY <1>3, <1>5, <1>10, Constants
      <4>2. frame \in 1..(frame' - 1)
        BY <4>1, EarlierFrames
      <4>3. QED BY <2>1, <2>3, <3>1, <4>2
    <3>2. CASE i # Len(clouds) + 1
      <4>1. i \in 1..Len(clouds) /\ clouds'[i] = clouds[i]
        BY <2>3, <3>2
      <4>2. OnTime(clouds[i]) # {} /\ OnTime(clouds[i]) \subseteq 1..(frame - 1)
        BY <1>8, <4>1
      <4>3. frame \in Nat /\ frame' \in Nat /\ frame' > frame
        BY <1>3, <2>1, Constants
      <4>4. 1..(frame - 1) \subseteq 1..(frame' - 1)
        BY <4>3, EarlierFrames
      <4>5. QED BY <4>1, <4>2, <4>4
    <3>3. QED BY <3>1, <3>2
  <2>5. \A i \in 1..Len(clouds) : OnTime(clouds[i]) \cap OnTime(cloud) = {}
    BY <1>3, <1>8, <2>1
  <2>6. \A i, j \in 1..Len(clouds') : i # j => OnTime(clouds'[i]) \cap OnTime(clouds'[j]) = {}
    <3> SUFFICES ASSUME NEW i \in 1..Len(clouds'), NEW j \in 1..Len(clouds'), i # j
                 PROVE  OnTime(clouds'[i]) \cap OnTime(clouds'[j]) = {}
      OBVIOUS
    <3>1. \/ i \in 1..Len(clouds) /\ j \in 1..Len(clouds)
          \/ i \in 1..Len(clouds) /\ j = Len(clouds) + 1
          \/ i = Len(clouds) + 1 /\ j \in 1..Len(clouds)
      BY <2>3
    <3>2. CASE i \in 1..Len(clouds) /\ j \in 1..Len(clouds)
      BY <1>8, <2>3, <3>2
    <3>3. CASE i \in 1..Len(clouds) /\ j = Len(clouds) + 1
      BY <2>3, <2>5, <3>3
    <3>4. CASE i = Len(clouds) + 1 /\ j \in 1..Len(clouds)
      BY <2>3, <2>5, <3>4
    <3>5. QED BY <3>1, <3>2, <3>3, <3>4
  <2>7. frame' # 0
    BY <1>3
  <2>8. QED BY <1>9, <2>4, <2>6, <2>7, Zenon DEF WholeInv
<1>11. CASE ~Rewinds(p.seq)
  <2>1. clouds' = clouds /\ (frame = 0 \/ frame' = frame)
    BY <1>3, <1>5, <1>6, <1>11
  <2>2. CASE frame = 0
    <3>1. Len(clouds) = 0
      BY <1>8, <2>2
    <3>2. QED BY <1>3, <1>9, <2>1, <3>1 DEF WholeInv
  <2>3. CASE frame' = frame
    BY <1>3, <1>8, <1>9, <2>1, <2>3 DEF WholeInv
  <2>4. QED BY <2>1, <2>2, <2>3
<1>12. QED BY <1>10, <1>11

LEMMA StepCount ==
  ASSUME CloudsInv, Next PROVE CountInv'
<1>1. PICK p, late : /\ Packets(p, late)
                     /\ \/ UNCHANGED <<calm, bursts>> /\ frame' <= frame + 1
                        \/ calm' = frame' /\ bursts' = bursts + 1
  BY StepPackets DEF CloudsInv
<1>2. /\ p \in Packet /\ late \in BOOLEAN /\ Decode(p, late) /\ p.frame \in 1..MaxFrames
  BY <1>1 DEF Packets, Packet
<1> DEFINE F == OnTime(Filled(p, late))
           C == OnTime(cloud)
           added == IF late THEN {} ELSE {frame'}
           rewinds == IF Rewinds(p.seq) THEN {} ELSE C
<1>3. F = rewinds \cup added /\ (late => frame > 0 /\ UNCHANGED <<frame, calm, bursts>>)
  BY <1>1, <1>2, FilledFrames DEF Packets
<1> HIDE DEF F
<1>4. /\ frame \in Nat /\ frame' \in Nat /\ calm \in 0..frame /\ bursts \in Nat
      /\ frame' >= frame /\ frame' > 0
  BY <1>1, <1>2, Constants DEF Packets, CloudsInv, SyncInv, NetworkInv
<1>5. /\ calm > 0 => bursts >= 1
      /\ C = {} \/ frame \in C
      /\ Settled => C \subseteq {frame}
      /\ calm > 0 /\ frame = calm => Cardinality(C) <= 2 * bursts
      /\ Cardinality(C) <= 1 + 2 * bursts
      /\ \A i \in 1..Len(clouds) : Cardinality(OnTime(clouds[i])) <= 1 + 2 * bursts
  BY DEF CloudsInv, CountInv
<1>6. /\ IsFiniteSet(C) /\ Cardinality(C) \in Nat
      /\ IsFiniteSet(F) /\ Cardinality(F) \in Nat
  BY OnTimeFinite DEF F
\* In sync, a packet of a new frame begins a new cloud.
<1>7. ASSUME Settled' PROVE F \subseteq {frame'}
  <2>1. ret' <=> Rewinds(p.seq)
    BY <1>2, DecodeKeeps DEF CloudsInv, SyncInv
  <2>2. ret' <=> frame > 0 /\ frame' > frame
    <3>1. CASE First
      BY <3>1, FirstKeeps DEF CloudsInv, First
    <3>2. CASE Arrive
      BY <3>2, <1>7, ArriveKeeps DEF CloudsInv, Arrive
    <3>3. CASE ArriveLate
      BY <3>3, <1>4, <1>7, ArriveLateKeeps DEF CloudsInv
    <3>4. CASE Burst
      BY <3>4, <1>7, BurstKeeps DEF CloudsInv
    <3>5. QED BY <3>1, <3>2, <3>3, <3>4 DEF Next
  <2>3. CASE frame > 0 /\ frame' > frame
    BY <1>3, <2>1, <2>2, <2>3
  <2>4. CASE frame = 0
    <3>1. C \subseteq {frame} /\ C \subseteq 1..MaxFrames
      BY <1>4, <1>5, <2>4, OnTimeType DEF Settled
    <3>2. C = {}
      BY <2>4, <3>1, Constants
    <3>3. QED BY <1>3, <3>2
  <2>5. CASE frame' = frame
    <3>1. Settled
      BY <1>1, <1>4, <1>7, <2>5 DEF Settled
    <3>2. QED BY <1>3, <1>5, <2>5, <3>1
  <2>6. QED BY <1>4, <2>3, <2>4, <2>5
\* A cloud grows by one frame at most, and not within a frame.
<1>8. /\ Cardinality(F) <= Cardinality(C) + 1
      /\ frame' = frame => Cardinality(F) <= Cardinality(C) \/ Cardinality(F) <= 1
      /\ F = {} \/ frame' \in F
  <2>1. F = {} \/ F = C \/ F = {frame'} \/ F = C \cup {frame'}
    BY <1>3
  <2>2. F = {} \/ frame' \in F
    BY <1>3, <1>5
  <2>3. Cardinality({}) = 0 /\ Cardinality({frame'}) = 1
    BY FS_EmptySet, FS_Singleton
  <2>4. Cardinality(C \cup {frame'}) <= Cardinality(C) + 1
    BY <1>6, FS_AddElement
  <2>5. frame' = frame => F = {} \/ F = C \/ F = {frame'}
    BY <1>5, <2>1
  <2>6. QED BY <1>6, <2>1, <2>2, <2>3, <2>4, <2>5
<1>9. /\ calm' > 0 /\ frame' = calm' => Cardinality(F) <= 2 * bursts'
      /\ Cardinality(F) <= 1 + 2 * bursts'
      /\ bursts' \in Nat /\ bursts' >= bursts /\ (calm' > 0 => bursts' >= 1)
  <2>1. CASE UNCHANGED <<calm, bursts>> /\ frame' <= frame + 1
    <3>1. CASE Settled'
      <4>1. Cardinality(F) <= 1
        <5>1. Cardinality({frame'}) = 1 /\ IsFiniteSet({frame'})
          BY FS_Singleton
        <5>2. QED BY <1>7, <3>1, <5>1, FS_Subset
      <4>2. ~(calm' > 0 /\ frame' = calm')
        BY <1>4, <2>1, <3>1 DEF Settled
      <4>3. QED BY <1>4, <1>5, <1>6, <2>1, <4>1, <4>2
    <3>2. CASE ~Settled'
      <4>1. calm > 0 /\ (frame = calm \/ (frame = calm + 1 /\ frame' = frame))
        BY <1>4, <2>1, <3>2 DEF Settled
      <4>2. QED BY <1>4, <1>5, <1>6, <1>8, <2>1, <4>1
    <3>3. QED BY <3>1, <3>2
  <2>2. CASE calm' = frame' /\ bursts' = bursts + 1
    BY <1>4, <1>5, <1>6, <1>8, <2>2
  <2>3. QED BY <1>1, <2>1, <2>2
<1>10. /\ OnTime(cloud') = {} \/ OnTime(cloud') = F
       /\ \A i \in 1..Len(clouds') :
             \/ i \in 1..Len(clouds) /\ clouds'[i] = clouds[i]
             \/ OnTime(clouds'[i]) = C
             \/ OnTime(clouds'[i]) = F
  <2>1. OnTime({}) = {}
    BY DEF OnTime
  <2>2. QED BY <1>2, <2>1, DecodeClouds DEF CloudsInv, F
<1>11. Cardinality(OnTime(cloud')) = 0 \/ OnTime(cloud') = F
  BY <1>10, FS_EmptySet
<1>12. \A i \in 1..Len(clouds') : Cardinality(OnTime(clouds'[i])) <= 1 + 2 * bursts'
  <2> SUFFICES ASSUME NEW i \in 1..Len(clouds')
               PROVE  Cardinality(OnTime(clouds'[i])) <= 1 + 2 * bursts'
    OBVIOUS
  <2>1. CASE i \in 1..Len(clouds) /\ clouds'[i] = clouds[i]
    <3>1. Cardinality(OnTime(clouds[i])) <= 1 + 2 * bursts
      BY <1>5, <2>1
    <3>2. Cardinality(OnTime(clouds[i])) \in Nat
      BY OnTimeFinite
    <3>3. QED BY <1>4, <1>9, <2>1, <3>1, <3>2
  <2>2. CASE OnTime(clouds'[i]) = C
    BY <1>4, <1>5, <1>6, <1>9, <2>2
  <2>3. CASE OnTime(clouds'[i]) = F
    BY <1>9, <2>3
  <2>4. QED BY <1>10, <2>1, <2>2, <2>3
<1>13. /\ OnTime(cloud') = {} \/ frame' \in OnTime(cloud')
       /\ Settled' => OnTime(cloud') \subseteq {frame'}
  BY <1>7, <1>8, <1>10
<1>14. /\ calm' > 0 /\ frame' = calm' => Cardinality(OnTime(cloud')) <= 2 * bursts'
       /\ Cardinality(OnTime(cloud')) <= 1 + 2 * bursts'
  BY <1>9, <1>11
<1>15. QED BY <1>9, <1>12, <1>13, <1>14 DEF CountInv

-----------------------------------------------------------------------------
(* The theorems *)

LEMMA InitClouds == Init => CloudsInv
<1> SUFFICES ASSUME Init PROVE CloudsInv
  OBVIOUS
<1>1. OnTime({}) = {} /\ Cardinality({}) = 0
  BY FS_EmptySet DEF OnTime
<1>2. CloudTypes
  BY DEF Init, CloudTypes
<1>3. Len(clouds) = 0
  BY DEF Init
<1>4. WholeInv
  BY <1>3 DEF Init, WholeInv
<1>5. CountInv
  <2>1. OnTime(cloud) = {} /\ Cardinality(OnTime(cloud)) = 0 /\ calm = 0 /\ bursts = 0
    BY <1>1 DEF Init
  <2>2. 1..Len(clouds) = {}
    BY <1>3
  <2>3. QED BY <2>1, <2>2 DEF CountInv
<1>6. QED BY <1>2, <1>4, <1>5, InitHolds DEF CloudsInv

LEMMA NextClouds == CloudsInv /\ [Next]_vars => CloudsInv'
<1> SUFFICES ASSUME CloudsInv, [Next]_vars PROVE CloudsInv'
  OBVIOUS
<1>1. SyncInv'
  BY StepKeeps DEF CloudsInv
<1>2. CASE Next
  <2>1. PICK p, late : Packets(p, late)
    BY <1>2, StepPackets DEF CloudsInv
  <2>2. p \in Packet /\ late \in BOOLEAN /\ Decode(p, late)
    BY <2>1 DEF Packets
  <2>3. CloudTypes'
    BY <2>2, DecodeClouds DEF CloudsInv
  <2>4. QED BY <1>1, <1>2, <2>3, StepWhole, StepCount DEF CloudsInv
<1>3. CASE UNCHANGED vars
  BY <1>1, <1>3 DEF CloudsInv, CloudTypes, WholeInv, CountInv, OnTime, Settled,
                    vars, strategyVars, decoderVars, networkVars
<1>4. QED BY <1>2, <1>3

\* The inductive invariant holds in every reachable state: SyncInv, and with it what
\* the clouds that are filled and handed out may hold.
THEOREM CloudsInvariance == Spec => []CloudsInv
BY InitClouds, NextClouds, PTL DEF Spec

\* The clouds, the one that is being filled included.
LEMMA AllCloudsElements ==
  ASSUME CloudTypes
  PROVE  /\ DOMAIN AllClouds = 1..(Len(clouds) + 1) /\ DOMAIN clouds = 1..Len(clouds)
         /\ \A i \in 1..Len(clouds) : AllClouds[i] = clouds[i]
         /\ AllClouds[Len(clouds) + 1] = cloud
         /\ Len(clouds) \in Nat
<1>1. AllClouds \in Seq(SUBSET Part) /\ Len(AllClouds) = Len(clouds) + 1
  BY AppendProperties DEF AllClouds, CloudTypes
<1>2. QED BY <1>1, AppendProperties, LenProperties DEF AllClouds, CloudTypes

\* splitFrame without a burst: every frame is in one cloud and no cloud has only packets
\* that came late, for a decoder that splits at the beginning of a frame only.
THEOREM FramesStayWhole == Spec => []WholeFramesOfOthers
<1>1. CloudsInv => WholeFramesOfOthers
  <2> SUFFICES ASSUME CloudsInv, ~closes, calm = 0
               PROVE  /\ \A i \in DOMAIN clouds : OnTime(clouds[i]) # {}
                      /\ \A i, j \in DOMAIN AllClouds :
                           i # j => OnTime(AllClouds[i]) \cap OnTime(AllClouds[j]) = {}
    BY DEF WholeFramesOfOthers, WholeFrames
  <2>1. /\ DOMAIN AllClouds = 1..(Len(clouds) + 1) /\ DOMAIN clouds = 1..Len(clouds)
        /\ \A i \in 1..Len(clouds) : AllClouds[i] = clouds[i]
        /\ AllClouds[Len(clouds) + 1] = cloud
        /\ Len(clouds) \in Nat
    BY AllCloudsElements DEF CloudsInv
  <2>2. /\ frame = 0 => cloud = {} /\ clouds = <<>>
        /\ frame > 0 => OnTime(cloud) = {frame}
        /\ \A i \in 1..Len(clouds) : OnTime(clouds[i]) # {} /\ OnTime(clouds[i]) \subseteq 1..(frame - 1)
        /\ \A i, j \in 1..Len(clouds) : i # j => OnTime(clouds[i]) \cap OnTime(clouds[j]) = {}
    BY DEF CloudsInv, WholeInv
  <2>3. frame \in Nat
    BY Constants DEF CloudsInv, SyncInv, NetworkInv
  <2>4. \A i \in 1..Len(clouds) : OnTime(clouds[i]) \cap OnTime(cloud) = {}
    <3>1. CASE frame = 0
      BY <2>2, <3>1
    <3>2. CASE frame > 0
      <4>1. frame \notin 1..(frame - 1)
        BY <2>3
      <4>2. QED BY <2>2, <3>2, <4>1
    <3>3. QED BY <2>3, <3>1, <3>2
  <2>5. ASSUME NEW i \in DOMAIN AllClouds, NEW j \in DOMAIN AllClouds, i # j
        PROVE  OnTime(AllClouds[i]) \cap OnTime(AllClouds[j]) = {}
    <3>1. \/ i \in 1..Len(clouds) /\ j \in 1..Len(clouds)
          \/ i \in 1..Len(clouds) /\ j = Len(clouds) + 1
          \/ i = Len(clouds) + 1 /\ j \in 1..Len(clouds)
      BY <2>1, <2>5
    <3>2. CASE i \in 1..Len(clouds) /\ j \in 1..Len(clouds)
      BY <2>1, <2>2, <2>5, <3>2
    <3>3. CASE i \in 1..Len(clouds) /\ j = Len(clouds) + 1
      BY <2>1, <2>4, <3>3
    <3>4. CASE i = Len(clouds) + 1 /\ j \in 1..Len(clouds)
      BY <2>1, <2>4, <3>4
    <3>5. QED BY <3>1, <3>2, <3>3, <3>4
  <2>6. QED BY <2>1, <2>2, <2>5
<1>2. QED BY <1>1, CloudsInvariance, PTL

\* With bursts: a cloud holds one frame, and each burst joins at most two more to it.
THEOREM BurstsJoinFew == Spec => []FramesPerCloud
<1>1. CloudsInv => FramesPerCloud
  <2> SUFFICES ASSUME CloudsInv, NEW i \in DOMAIN AllClouds
               PROVE  Cardinality(OnTime(AllClouds[i])) <= 1 + 2 * bursts
    BY DEF FramesPerCloud
  <2>1. /\ i \in 1..Len(clouds) /\ AllClouds[i] = clouds[i]
        \/ AllClouds[i] = cloud
    BY AllCloudsElements DEF CloudsInv
  <2>2. QED BY <2>1 DEF CloudsInv, CountInv
<1>2. QED BY <1>1, CloudsInvariance, PTL
==============================================================================
