----------------------------- MODULE FastLioProofs -----------------------------
(***************************************************************************)
(* Proofs about the two halves of robosense_fast_lio, for every value of   *)
(* their constants.  LidarImuSync: a scan is joined with its own time, no  *)
(* scan is added to the map twice, no scan waits for samples that will not *)
(* come, and the filter's state is moved to the end of each scan.          *)
(* IkdRebuild, the map's tree: no nearest-point search is in a tree that   *)
(* is copied, replaced or deleted, and the new tree has every logged       *)
(* operation when it replaces the old one.                                 *)
(***************************************************************************)
EXTENDS LidarImuSync, IkdRebuild, FoldTheorems

ScanT == [id : Nat, start : Nat, span : 0..ScanTime, few : BOOLEAN]

\* What time_buffer holds of a scan, and where sync_packages lets it begin.
StampOf(s) == IF lidar_type = "RSM1" THEN s.start + ScanTime ELSE s.start
BegOf(s) == IF lidar_type = "RSM1" THEN s.start + ScanTime - s.span ELSE s.start

\* No later does sync_packages let a scan end.
Reach(s) == s.start + (IF Break THEN 1 ELSE 2) * ScanTime

\* A scan begins before the next one; short parts of a scan may begin together.
Before(s, t) == s.start <= t.start /\ (~Break => s.start < t.start)

Typed ==
  /\ lidar_type \in LidarTypes
  /\ lidar_buffer \in Seq(ScanT)
  /\ time_buffer \in Seq(Int)
  /\ imu_buffer \in Seq(Int)
  /\ Measures \in [lidar : ScanT, beg : Int, end : Int]
  /\ feats_undistort \in ScanT
  /\ mapped \in Seq(Nat)
  /\ scan_num \in Nat /\ scan_sum \in Nat
  /\ received \in Nat /\ loops \in Nat
  /\ last_timestamp_lidar \in Int /\ last_timestamp_imu \in Int /\ lidar_end_time \in Int

\* No scan is longer than ScanTime, nor is their mean.
Averaged == scan_sum <= ScanTime * scan_num

\* The two queues go together, and so do the fields of Measures.
Timed ==
  /\ Len(lidar_buffer) <= Len(time_buffer)
  /\ loops = 0 =>
       /\ Len(lidar_buffer) = Len(time_buffer)
       /\ \A i \in 1..Len(lidar_buffer) : time_buffer[i] = StampOf(lidar_buffer[i])
       /\ Measures.lidar.id > 0 => Measures.beg = BegOf(Measures.lidar)

\* The queue holds the last scans received, and Measures the first of them while
\* it is pushed.
Numbered ==
  loops = 0 =>
    /\ Len(lidar_buffer) <= received
    /\ \A i \in 1..Len(lidar_buffer) : lidar_buffer[i].id = received - Len(lidar_buffer) + i
    /\ lidar_pushed => lidar_buffer # <<>> /\ Measures.lidar = lidar_buffer[1]

\* Scans are queued in the order of time, after the one in Measures, and none of
\* them is later than last_timestamp_lidar.
Ordered ==
  loops = 0 =>
    /\ received = 0 => last_timestamp_lidar = 0
    /\ \A i \in 1..Len(lidar_buffer) :
         /\ StampOf(lidar_buffer[i]) <= last_timestamp_lidar
         /\ ~lidar_pushed => Before(Measures.lidar, lidar_buffer[i])
    /\ \A i, j \in 1..Len(lidar_buffer) : i < j => Before(lidar_buffer[i], lidar_buffer[j])
    /\ \/ Measures.lidar = NoScan
       \/ /\ StampOf(Measures.lidar) <= last_timestamp_lidar
          /\ Measures.end <= Reach(Measures.lidar)

\* The last sample queued is the last received.  Once all are taken, the last one
\* was taken for the scan in Measures.
Sampled ==
  /\ lidar_pushed => imu_buffer # <<>>
  /\ imu_buffer # <<>> => imu_buffer[Len(imu_buffer)] = last_timestamp_imu
  /\ loops = 0 /\ ~overwritten =>
       /\ lidar_pushed => lidar_end_time = Measures.end
       /\ imu_buffer = <<>> => last_timestamp_imu <= Reach(Measures.lidar)

\* Only scans that left the queue are in the map, in order.  Until the filter is
\* initialised there is none whose points could be added again.
Added ==
  /\ imu_need_init_ => feats_undistort = NoScan
  /\ loops = 0 /\ ~starved =>
       /\ \A i, j \in DOMAIN mapped : i < j => mapped[i] < mapped[j]
       /\ \A i \in DOMAIN mapped : mapped[i] <= received - Len(lidar_buffer)

SyncInv == Typed /\ Averaged /\ Timed /\ Numbered /\ Ordered /\ Sampled /\ Added

-----------------------------------------------------------------------------
(* Numbers *)

\* A time divided into parts: the parts are no longer, and all parts together are not.
LEMMA PartsFit ==
  \A a \in Nat, n \in Nat \ {0} : a \div n \in Nat /\ a \div n <= a /\ n * (a \div n) <= a
  BY SMTT(20)

\* The i-th of n parts of length p begins after the ones before it and ends in time.
LEMMA PartBegins ==
  \A a, p \in Nat, i, n \in Nat \ {0} : i <= n /\ n * p <= a =>
    (i - 1) * p \in Nat /\ (i - 1) * p + p <= a
  BY SMTT(20)

LEMMA PartsFollow ==
  \A p \in Nat, i, j \in Nat \ {0} : i <= j => (i - 1) * p <= (j - 1) * p
  BY SMTT(20)

\* A mean is no larger than the largest of what it is the mean of.
LEMMA MeanBound ==
  \A a, b \in Nat, n \in Nat \ {0} : a <= b * n => a \div n \in Nat /\ a \div n <= b
  BY SMTT(20)

\* One more scan of at most b.
LEMMA SumBound ==
  \A a, b, n, s \in Nat : a <= b * n /\ s <= b => a + s <= b * (n + 1)
  BY SMTT(20)

-----------------------------------------------------------------------------
(* The parts of a scan *)

\* The parts of a scan fit into its time.
LEMMA PartFacts ==
  ASSUME SyncAssumption
  PROVE  /\ Parts \in Nat \ {0}
         /\ PartTime \in Nat
         /\ PartTime <= ScanTime
         /\ Parts * PartTime <= ScanTime
         /\ ~Break => Parts = 1 /\ PartTime = ScanTime
<1>1. Parts \in Nat \ {0} /\ ScanTime \in Nat \ {0} BY DEF SyncAssumption, Parts
<1>2. PartTime \in Nat /\ PartTime <= ScanTime /\ Parts * PartTime <= ScanTime
  BY <1>1, PartsFit DEF PartTime
<1>3. ~Break => Parts = 1 BY DEF Parts
<1>4. ScanTime \div 1 = ScanTime BY <1>1
<1> QED BY <1>1, <1>2, <1>3, <1>4 DEF PartTime

\* What is kept of a part is no longer than the part.
LEMMA KeptFacts ==
  ASSUME SyncAssumption, NEW k \in Kept
  PROVE  k.span \in 0..ScanTime /\ k.few \in BOOLEAN
<1>1. PartTime \in Nat /\ PartTime <= ScanTime BY PartFacts
<1>2. CASE k \in {[span |-> n, few |-> FALSE] : n \in {m \in Spans : m <= PartTime}}
  <2>1. PICK n \in Spans : n <= PartTime /\ k = [span |-> n, few |-> FALSE] BY <1>2
  <2>2. k.span = n /\ k.few = FALSE BY <2>1, Zenon
  <2>3. n \in 0..ScanTime BY <2>1 DEF SyncAssumption
  <2> QED BY <2>2, <2>3, Zenon
<1>3. CASE k \in {[span |-> 0, few |-> TRUE]}
  <2>1. k = [span |-> 0, few |-> TRUE] BY <1>3
  <2>2. k.span = 0 /\ k.few = TRUE BY <2>1, Zenon
  <2>3. 0 \in 0..ScanTime BY DEF SyncAssumption
  <2> QED BY <2>2, <2>3, Zenon
<1> QED BY <1>2, <1>3 DEF Kept

\* What standard_pcl_cbk queues.
Queued(b, kept) ==
  [i \in 1..Parts |->
     [id |-> received + i, start |-> b + (i - 1) * PartTime,
      span |-> kept[i].span, few |-> kept[i].few]]

\* The parts are numbered, follow each other, and none is outside the scan.
LEMMA QueuedFacts ==
  ASSUME SyncAssumption, received \in Nat,
         NEW b \in 1..(MaxTime - ScanTime), NEW kept \in [1..Parts -> Kept],
         NEW S, S = Queued(b, kept)
  PROVE  /\ S \in Seq(ScanT)
         /\ Len(S) = Parts
         /\ \A i \in 1..Parts :
              /\ S[i].id = received + i
              /\ b <= S[i].start
              /\ S[i].start <= S[Parts].start
         /\ S[Parts].start + PartTime <= b + ScanTime
         /\ \A i, j \in 1..Parts : i < j => Before(S[i], S[j])
<1> DEFINE Offset(i) == (i - 1) * PartTime
<1>1. /\ Parts \in Nat \ {0} /\ PartTime \in Nat /\ PartTime <= ScanTime
      /\ Parts * PartTime <= ScanTime /\ ScanTime \in Nat /\ b \in Nat
      /\ ~Break => Parts = 1
  BY PartFacts DEF SyncAssumption
<1>2. \A i \in 1..Parts : Offset(i) \in Nat /\ Offset(i) + PartTime <= ScanTime
  <2> SUFFICES ASSUME NEW i \in 1..Parts
               PROVE  Offset(i) \in Nat /\ Offset(i) + PartTime <= ScanTime
    OBVIOUS
  <2>1. i \in Nat \ {0} /\ i <= Parts BY <1>1
  <2>2. (i - 1) * PartTime \in Nat /\ (i - 1) * PartTime + PartTime <= ScanTime
    BY <1>1, <2>1, PartBegins, Zenon
  <2> QED BY <2>2, Zenon
<1>3. \A i, j \in 1..Parts : i <= j => Offset(i) <= Offset(j)
  <2> SUFFICES ASSUME NEW i \in 1..Parts, NEW j \in 1..Parts, i <= j
               PROVE  Offset(i) <= Offset(j)
    OBVIOUS
  <2>1. i \in Nat \ {0} /\ j \in Nat \ {0} BY <1>1
  <2> QED BY <1>1, <2>1, PartsFollow, Zenon
<1>4. S = [i \in 1..Parts |-> [id |-> received + i, start |-> b + Offset(i),
                              span |-> kept[i].span, few |-> kept[i].few]]
  BY DEF Queued
<1> HIDE DEF Offset
<1>5. \A i \in 1..Parts : /\ S[i].id = received + i
                          /\ S[i].start = b + Offset(i)
                          /\ S[i] \in ScanT
  <2> SUFFICES ASSUME NEW i \in 1..Parts
               PROVE  /\ S[i].id = received + i
                      /\ S[i].start = b + Offset(i)
                      /\ S[i] \in ScanT
    OBVIOUS
  <2>1. kept[i] \in Kept OBVIOUS
  <2>2. kept[i].span \in 0..ScanTime /\ kept[i].few \in BOOLEAN BY <2>1, KeptFacts
  <2>3. S[i] = [id |-> received + i, start |-> b + Offset(i),
                span |-> kept[i].span, few |-> kept[i].few]
    BY <1>4
  <2>4. received + i \in Nat /\ b + Offset(i) \in Nat
    <3>1. received \in Nat /\ i \in Nat /\ b \in Nat BY <1>1
    <3>2. PICK o \in Nat : o = Offset(i) BY <1>2, Zenon
    <3>3. received + i \in Nat /\ b + o \in Nat BY <3>1
    <3> QED BY <3>2, <3>3
  <2> QED BY <2>2, <2>3, <2>4 DEF ScanT
<1>6. S \in Seq(ScanT) /\ Len(S) = Parts
  <2>1. S \in [1..Parts -> ScanT] BY <1>4, <1>5
  <2> QED BY <1>1, <2>1
<1>7. \A i \in 1..Parts : b <= S[i].start /\ S[i].start <= S[Parts].start
  <2> SUFFICES ASSUME NEW i \in 1..Parts
               PROVE  b <= S[i].start /\ S[i].start <= S[Parts].start
    OBVIOUS
  <2>1. Parts \in 1..Parts /\ i <= Parts BY <1>1
  <2>2. Offset(i) <= Offset(Parts) BY <1>3, <2>1
  <2>3. Offset(i) \in Nat /\ Offset(Parts) \in Nat BY <1>2, <2>1
  <2>4. S[i].start = b + Offset(i) /\ S[Parts].start = b + Offset(Parts) BY <1>5, <2>1
  <2> QED BY <1>1, <2>2, <2>3, <2>4, SMTT(20)
<1>8. S[Parts].start + PartTime <= b + ScanTime
  <2>1. Parts \in 1..Parts BY <1>1
  <2>2. S[Parts].start = b + Offset(Parts) BY <1>5, <2>1
  <2>3. Offset(Parts) \in Nat /\ Offset(Parts) + PartTime <= ScanTime BY <1>2, <2>1
  <2> QED BY <1>1, <2>2, <2>3
<1>9. \A i, j \in 1..Parts : i < j => Before(S[i], S[j])
  <2> SUFFICES ASSUME NEW i \in 1..Parts, NEW j \in 1..Parts, i < j
               PROVE  S[i].start <= S[j].start /\ Break
    BY DEF Before
  <2>1. Offset(i) <= Offset(j) BY <1>1, <1>3
  <2>2. Break BY <1>1 DEF Break
  <2>3. Offset(i) \in Nat /\ Offset(j) \in Nat BY <1>2
  <2>4. S[i].start = b + Offset(i) /\ S[j].start = b + Offset(j) BY <1>5
  <2>5. S[i].start <= S[j].start BY <1>1, <2>1, <2>3, <2>4
  <2> QED BY <2>2, <2>5
<1> QED BY <1>5, <1>6, <1>7, <1>8, <1>9

\* A scan that is not broken begins when its message says.
LEMMA QueuedWhole ==
  ASSUME ~Break, NEW b \in Nat, NEW kept, NEW i \in 1..Parts
  PROVE  Queued(b, kept)[i].start = b
<1>1. Parts = 1 /\ i = 1 BY DEF Parts
<1>2. PartTime = ScanTime \div 1 BY <1>1 DEF PartTime
<1>3. Queued(b, kept)[i].start = b + (1 - 1) * PartTime BY <1>1 DEF Queued
<1> QED BY <1>2, <1>3
\* Behind what was queued comes what is appended.
LEMMA Appended ==
  ASSUME NEW T, NEW s \in Seq(T), NEW u \in Seq(T)
  PROVE  /\ s \o u \in Seq(T)
         /\ Len(s \o u) = Len(s) + Len(u)
         /\ \A i \in 1..Len(s) : (s \o u)[i] = s[i]
         /\ \A i \in 1..Len(s \o u) :
              \/ i \in 1..Len(s)
              \/ i - Len(s) \in 1..Len(u) /\ i > Len(s) /\ (s \o u)[i] = u[i - Len(s)]
  OBVIOUS

\* What standard_pcl_cbk does to the queues unless the stamps jump back: the scans
\* go behind the others with their own times, and begin later than the others.
LEMMA PclQueues ==
  ASSUME SyncAssumption, SyncInv,
         NEW b \in 1..(MaxTime - ScanTime), NEW kept \in [1..Parts -> Kept],
         IF received = 0 THEN b = 1 ELSE Follows(b, LastStart, ScanTime),
         PclCbk(b, kept), loops' = 0,
         NEW S, S = Queued(b, kept)
  PROVE  /\ loops = 0
         /\ lidar_buffer' = lidar_buffer \o S
         /\ time_buffer' = time_buffer \o [i \in 1..Parts |-> StampOf(S[i])]
         /\ last_timestamp_lidar' = StampOf(S[Parts])
         /\ last_timestamp_lidar <= last_timestamp_lidar'
         /\ \A i \in 1..Parts : StampOf(S[i]) <= last_timestamp_lidar'
         /\ \A s \in ScanT, i \in 1..Parts :
              s = NoScan \/ StampOf(s) <= last_timestamp_lidar => Before(s, S[i])
<1> DEFINE stamp == IF lidar_type = "RSM1" THEN b + ScanTime ELSE b
           back  == stamp < last_timestamp_lidar
<1>1. /\ Parts \in Nat \ {0} /\ PartTime \in Nat /\ PartTime <= ScanTime
      /\ Parts \in 1..Parts
      /\ ScanTime \in Nat \ {0} /\ b \in Nat \ {0}
      /\ received \in Nat /\ loops \in Nat /\ last_timestamp_lidar \in Int
  <2>1. Typed BY DEF SyncInv
  <2>2. Parts \in Nat \ {0} /\ PartTime \in Nat /\ PartTime <= ScanTime BY PartFacts
  <2>3. ScanTime \in Nat \ {0} BY DEF SyncAssumption
  <2>4. b \in Nat \ {0} OBVIOUS
  <2> QED BY <2>1, <2>2, <2>3, <2>4 DEF Typed
<1>2. lidar_type = "VELO16" \/ lidar_type = "RSM1" \/ lidar_type = "RSM1_BREAK"
  BY DEF SyncAssumption, SyncInv, Typed
<1>3. /\ S \in Seq(ScanT)
      /\ Len(S) = Parts
      /\ S[Parts].start + PartTime <= b + ScanTime
  <2>1. received \in Nat BY <1>1
  <2>2. S \in Seq(ScanT) BY <2>1, QueuedFacts
  <2>3. Len(S) = Parts BY <2>1, QueuedFacts
  <2>4. S[Parts].start + PartTime <= b + ScanTime BY <2>1, QueuedFacts, Zenon
  <2> QED BY <2>2, <2>3, <2>4
<1>4. \A i \in 1..Parts : b <= S[i].start /\ S[i].start <= S[Parts].start
  <2>1. received \in Nat BY <1>1
  <2> QED BY <2>1, QueuedFacts
<1>5. ~Break => \A i \in 1..Parts : S[i].start = b
  <2> SUFFICES ASSUME ~Break, NEW i \in 1..Parts PROVE S[i].start = b
    BY Zenon
  <2>1. b \in Nat BY <1>1
  <2> QED BY <2>1, QueuedWhole, Zenon
<1>6. \A i \in 1..Parts : S[i].start \in Nat
  <2>1. \A i \in 1..Parts : S[i] \in ScanT BY <1>3
  <2> QED BY <2>1 DEF ScanT
<1>7. ~back /\ loops = 0
  <2>1. loops' = IF back THEN loops + 1 ELSE loops BY Zenon DEF PclCbk
  <2> HIDE DEF back
  <2> QED BY <1>1, <2>1
<1>8. /\ lidar_buffer' = lidar_buffer \o S
      /\ time_buffer' = time_buffer \o Times(S, stamp)
      /\ last_timestamp_lidar' = IF Break THEN S[Parts].start ELSE stamp
  <2>1. /\ lidar_buffer' = (IF back THEN <<>> ELSE lidar_buffer) \o Queued(b, kept)
        /\ time_buffer' = time_buffer \o Times(Queued(b, kept), stamp)
        /\ last_timestamp_lidar' = IF Break THEN Queued(b, kept)[Parts].start ELSE stamp
    BY Zenon DEF PclCbk, Queued
  <2> HIDE DEF back
  <2> QED BY <1>7, <2>1
<1>9. Times(S, stamp) = [i \in 1..Parts |-> StampOf(S[i])]
  <2>1. DOMAIN S = 1..Parts BY <1>1, <1>3
  <2>2. \A i \in 1..Parts : (IF Break THEN S[i].start ELSE stamp) = StampOf(S[i])
    BY <1>2, <1>3, <1>4, <1>5 DEF Break, StampOf
  <2> HIDE DEF stamp
  <2> QED BY <2>1, <2>2 DEF Times
<1>10. last_timestamp_lidar' = StampOf(S[Parts])
  BY <1>1, <1>2, <1>3, <1>4, <1>5, <1>8 DEF Break, StampOf
<1>11. received > 0 => b - LastStart >= ScanTime
  <2> SUFFICES ASSUME received > 0, b = 1, b < LastStart PROVE FALSE
    BY <1>1 DEF Follows
  <2>0. /\ PartTime \in Nat /\ PartTime <= ScanTime /\ ScanTime \in Nat
        /\ last_timestamp_lidar \in Int /\ ~back
    BY <1>1, <1>7
  <2>1. CASE lidar_type = "RSM1"
    BY <2>0, <2>1 DEF LastStart, Break
  <2>2. CASE lidar_type = "VELO16"
    BY <2>0, <2>2 DEF LastStart, Break
  <2>3. CASE lidar_type = "RSM1_BREAK"
    BY <2>0, <2>3 DEF LastStart, Break
  <2> QED BY <1>2, <2>1, <2>2, <2>3
<1>12. received = 0 => last_timestamp_lidar = 0
  BY <1>7 DEF SyncInv, Ordered
<1>13. \/ lidar_type = "VELO16" /\ last_timestamp_lidar < b
       \/ lidar_type = "RSM1" /\ last_timestamp_lidar < b + ScanTime
       \/ lidar_type = "RSM1_BREAK" /\ last_timestamp_lidar <= b
  <2>0. /\ PartTime \in Nat /\ PartTime <= ScanTime /\ ScanTime \in Nat \ {0}
        /\ last_timestamp_lidar \in Int /\ received \in Nat /\ b \in Nat \ {0}
        /\ \/ b - LastStart >= ScanTime
           \/ last_timestamp_lidar = 0
    BY <1>1, <1>11, <1>12
  <2>1. CASE lidar_type = "RSM1"
    BY <2>0, <2>1 DEF LastStart, Break
  <2>2. CASE lidar_type = "VELO16"
    BY <2>0, <2>2 DEF LastStart, Break
  <2>3. CASE lidar_type = "RSM1_BREAK"
    BY <2>0, <2>3 DEF LastStart, Break
  <2> QED BY <1>2, <2>1, <2>2, <2>3
<1>14. last_timestamp_lidar <= last_timestamp_lidar'
  <2>1. b <= S[Parts].start /\ S[Parts].start \in Nat BY <1>1, <1>4, <1>6
  <2>2. b \in Nat /\ ScanTime \in Nat /\ last_timestamp_lidar \in Int BY <1>1
  <2>3. last_timestamp_lidar' = IF lidar_type = "RSM1" THEN S[Parts].start + ScanTime ELSE S[Parts].start
    BY <1>10 DEF StampOf
  <2> QED BY <1>13, <2>1, <2>2, <2>3, SMTT(20)
<1>15. \A i \in 1..Parts : StampOf(S[i]) <= last_timestamp_lidar'
  <2> SUFFICES ASSUME NEW i \in 1..Parts
               PROVE  StampOf(S[i]) <= StampOf(S[Parts])
    BY <1>10
  <2>1. S[i].start <= S[Parts].start /\ S[i].start \in Nat /\ S[Parts].start \in Nat
    BY <1>1, <1>3, <1>4, <1>5, <1>6
  <2> QED BY <1>1, <2>1, SMTT(20) DEF StampOf
<1>16. ASSUME NEW s \in ScanT, NEW i \in 1..Parts,
              s = NoScan \/ StampOf(s) <= last_timestamp_lidar
       PROVE  Before(s, S[i])
  <2>1. s.start \in Nat /\ (s = NoScan => s.start = 0)
    BY DEF ScanT, NoScan
  <2>2. S[i].start \in Nat /\ b <= S[i].start BY <1>3, <1>4, <1>5, <1>6
  <2>3. s.start <= b /\ (~Break => s.start < b)
    <3>1. CASE s = NoScan BY <1>1, <2>1, <3>1
    <3>2. CASE StampOf(s) <= last_timestamp_lidar
      <4>1. lidar_type = "RSM1" => s.start + ScanTime <= last_timestamp_lidar
        BY <3>2 DEF StampOf
      <4>2. lidar_type # "RSM1" => s.start <= last_timestamp_lidar
        BY <3>2 DEF StampOf
      <4>3. CASE lidar_type = "RSM1" /\ last_timestamp_lidar < b + ScanTime
        <5>1. s.start + ScanTime < b + ScanTime /\ s.start \in Nat /\ b \in Nat /\ ScanTime \in Nat
          BY <1>1, <2>1, <4>1, <4>3, SMTT(20)
        <5> QED BY <5>1
      <4>4. CASE lidar_type = "VELO16" /\ last_timestamp_lidar < b
        BY <1>1, <2>1, <4>2, <4>4
      <4>5. CASE lidar_type = "RSM1_BREAK" /\ last_timestamp_lidar <= b
        <5>1. Break BY <4>5 DEF Break
        <5> QED BY <1>1, <2>1, <4>2, <4>5, <5>1
      <4> QED BY <1>13, <4>3, <4>4, <4>5
    <3> QED BY <1>16, <3>1, <3>2
  <2> QED BY <1>1, <2>1, <2>2, <2>3, SMTT(20) DEF Before, Break
<1> QED BY <1>7, <1>8, <1>9, <1>10, <1>14, <1>15, <1>16

-----------------------------------------------------------------------------
(* The scan sync_packages works on *)

LEMMA MeanFacts ==
  ASSUME SyncAssumption, Typed, Averaged
  PROVE  Mean \in 0..ScanTime
<1>1. ScanTime \in Nat /\ scan_num \in Nat /\ scan_sum \in Nat /\ scan_sum <= ScanTime * scan_num
  BY DEF SyncAssumption, Typed, Averaged
<1>2. CASE scan_num = 0 BY <1>1, <1>2 DEF Mean
<1>3. CASE scan_num # 0
  <2>1. scan_sum \div scan_num \in Nat /\ scan_sum \div scan_num <= ScanTime
    BY <1>1, <1>3, MeanBound
  <2> QED BY <1>1, <1>3, <2>1 DEF Mean
<1> QED BY <1>2, <1>3

\* It is the front one, with its own times; its end is within reach, and is what
\* the samples are compared with unless a later scan moved lidar_end_time.
LEMMA PushedFacts ==
  ASSUME SyncAssumption, SyncInv, CanPush,
         NEW p, p = Pushed
  PROVE  /\ p.lidar \in ScanT /\ p.beg \in Int /\ p.end \in Int /\ p.until \in Int
         /\ p.num \in Nat /\ p.sum \in Nat /\ p.sum <= ScanTime * p.num
         /\ loops = 0 => /\ p.lidar = lidar_buffer[1]
                         /\ p.beg = BegOf(p.lidar)
                         /\ p.end <= Reach(p.lidar)
                         /\ ~overwritten => p.until = p.end
<1>1. /\ Typed /\ Averaged /\ Timed /\ Numbered /\ Ordered /\ Sampled
      /\ ScanTime \in Nat \ {0}
  BY DEF SyncInv, SyncAssumption
<1>2. lidar_buffer # <<>> /\ Len(lidar_buffer) >= 1 /\ Len(time_buffer) >= 1
  BY <1>1 DEF CanPush, Typed, Timed
<1>3. lidar_type = "VELO16" \/ lidar_type = "RSM1" \/ lidar_type = "RSM1_BREAK"
  BY <1>1 DEF SyncAssumption, Typed
<1>4. CASE lidar_pushed
  <2>1. p = [lidar |-> Measures.lidar, beg |-> Measures.beg, end |-> Measures.end,
             until |-> lidar_end_time, num |-> scan_num, sum |-> scan_sum]
    BY <1>4 DEF Pushed
  <2>2. /\ p.lidar = Measures.lidar /\ p.beg = Measures.beg /\ p.end = Measures.end
        /\ p.until = lidar_end_time /\ p.num = scan_num /\ p.sum = scan_sum
    BY <2>1
  <2>3. ASSUME loops = 0
        PROVE  /\ Measures.lidar = lidar_buffer[1]
               /\ Measures.beg = BegOf(Measures.lidar)
               /\ Measures.end <= Reach(Measures.lidar)
               /\ ~overwritten => lidar_end_time = Measures.end
    <3>1. Measures.lidar = lidar_buffer[1] BY <1>1, <1>4, <2>3 DEF Numbered
    <3>2. Measures.lidar.id > 0 BY <1>1, <1>2, <2>3, <3>1, SMTT(20) DEF Numbered, Typed
    <3>3. Measures.lidar # NoScan BY <3>2 DEF NoScan
    <3>4. Measures.beg = BegOf(Measures.lidar) BY <1>1, <2>3, <3>2 DEF Timed
    <3>5. Measures.end <= Reach(Measures.lidar) BY <1>1, <2>3, <3>3 DEF Ordered
    <3>6. ~overwritten => lidar_end_time = Measures.end BY <1>1, <1>4, <2>3 DEF Sampled
    <3> QED BY <3>1, <3>4, <3>5, <3>6
  <2>4. /\ Measures.lidar \in ScanT /\ Measures.beg \in Int /\ Measures.end \in Int
        /\ lidar_end_time \in Int /\ scan_num \in Nat /\ scan_sum \in Nat
        /\ scan_sum <= ScanTime * scan_num
    BY <1>1 DEF Typed, Averaged
  <2>5. loops = 0 => /\ p.lidar = lidar_buffer[1]
                     /\ p.beg = BegOf(p.lidar)
                     /\ p.end <= Reach(p.lidar)
                     /\ ~overwritten => p.until = p.end
    BY <2>2, <2>3, Zenon
  <2> QED BY <2>2, <2>4, <2>5
<1>5. CASE ~lidar_pushed
  <2> DEFINE scan  == lidar_buffer[1]
             beg   == time_buffer[1] - (IF lidar_type = "RSM1" THEN scan.span ELSE 0)
             late  == IF EndsEarly(scan) THEN Mean ELSE scan.span
             more  == IF EndsEarly(scan) THEN 0 ELSE 1
             added == IF EndsEarly(scan) THEN 0 ELSE scan.span
  <2>1. Head(lidar_buffer) = scan /\ Head(time_buffer) = time_buffer[1]
    BY <1>1, <1>2 DEF Typed
  <2>2. p = [lidar |-> scan, beg |-> beg, end |-> beg + late, until |-> beg + late,
             num |-> scan_num + more, sum |-> scan_sum + added]
    BY <1>5, <2>1, Zenon DEF Pushed
  <2>3. scan \in ScanT /\ time_buffer[1] \in Int
    BY <1>1, <1>2 DEF Typed
  <2>4. scan.span \in 0..ScanTime /\ scan.start \in Nat
    BY <2>3 DEF ScanT
  <2>5. late \in 0..ScanTime
    BY <1>1, <2>4, MeanFacts
  <2>6. beg \in Int BY <1>1, <2>3, <2>4
  <2>7. \/ more = 0 /\ added = 0
        \/ more = 1 /\ added \in 0..ScanTime
    BY <2>4
  <2>8. /\ scan_num + more \in Nat /\ scan_sum + added \in Nat
        /\ scan_sum + added <= ScanTime * (scan_num + more)
    <3>1. scan_num \in Nat /\ scan_sum \in Nat /\ scan_sum <= ScanTime * scan_num
      BY <1>1 DEF Typed, Averaged
    <3> HIDE DEF more, added
    <3>2. CASE more = 0 /\ added = 0 BY <1>1, <3>1, <3>2
    <3>3. CASE more = 1 /\ added \in 0..ScanTime BY <1>1, <3>1, <3>3, SumBound
    <3> QED BY <2>7, <3>2, <3>3
  <2>9. ASSUME loops = 0
        PROVE  beg = BegOf(scan) /\ beg + late <= Reach(scan)
    <3>1. time_buffer[1] = StampOf(scan) BY <1>1, <1>2, <2>9 DEF Timed
    <3>2. beg = BegOf(scan) BY <1>1, <2>4, <3>1 DEF StampOf, BegOf
    <3>3. (lidar_type = "RSM1" /\ ~EndsEarly(scan)) => late = scan.span BY DEF EndsEarly
    <3> QED BY <1>1, <1>3, <2>4, <2>5, <3>2, <3>3 DEF BegOf, Reach, Break
  <2> HIDE DEF scan, beg, late, more, added
  <2>10. /\ p.lidar = scan /\ p.beg = beg /\ p.end = beg + late /\ p.until = beg + late
         /\ p.num = scan_num + more /\ p.sum = scan_sum + added
    BY <2>2
  <2>11. loops = 0 => /\ p.lidar = lidar_buffer[1]
                      /\ p.beg = BegOf(p.lidar)
                      /\ p.end <= Reach(p.lidar)
                      /\ ~overwritten => p.until = p.end
    BY <2>9, <2>10, Zenon DEF scan
  <2> QED BY <2>3, <2>5, <2>6, <2>8, <2>10, <2>11
<1> QED BY <1>4, <1>5
-----------------------------------------------------------------------------
(* Every step keeps the invariant *)

LEMMA InitSync == SyncAssumption /\ LioInit => SyncInv
<1> SUFFICES ASSUME SyncAssumption, LioInit PROVE SyncInv
  OBVIOUS
<1>1. ScanTime \in Nat \ {0} BY DEF SyncAssumption
<1>2. NoScan \in ScanT BY <1>1 DEF NoScan, ScanT
<1>3. Typed BY <1>1, <1>2 DEF LioInit, Typed
<1>4. Averaged BY <1>1 DEF LioInit, Averaged
<1>5. Measures.lidar = NoScan /\ NoScan.id = 0 /\ NoScan.start = 0 BY DEF LioInit, NoScan
<1>6. lidar_buffer = <<>> /\ time_buffer = <<>> /\ imu_buffer = <<>> /\ mapped = <<>>
  BY DEF LioInit
<1>7. Len(lidar_buffer) = 0 /\ Len(time_buffer) = 0 /\ DOMAIN mapped = {} /\ 1..0 = {}
  BY <1>6
<1>8. ~lidar_pushed BY DEF LioInit
<1>9. Timed BY <1>5, <1>7 DEF Timed
<1>10. Numbered BY <1>7, <1>8 DEF Numbered, LioInit
<1>11. Ordered BY <1>5, <1>7 DEF Ordered, LioInit
<1>12. last_timestamp_imu <= Reach(Measures.lidar) BY <1>1, <1>5 DEF Reach, LioInit
<1>13. Sampled BY <1>6, <1>8, <1>12 DEF Sampled
<1>14. Added BY <1>7 DEF Added, LioInit
<1> QED BY <1>3, <1>4, <1>9, <1>10, <1>11, <1>13, <1>14 DEF SyncInv

LEMMA PclSync ==
  ASSUME SyncAssumption, SyncInv,
         NEW b \in 1..(MaxTime - ScanTime), NEW kept \in [1..Parts -> Kept],
         IF received = 0 THEN b = 1 ELSE Follows(b, LastStart, ScanTime),
         PclCbk(b, kept)
  PROVE  SyncInv'
<1> DEFINE S     == Queued(b, kept)
           T     == [i \in 1..Parts |-> StampOf(S[i])]
           stamp == IF lidar_type = "RSM1" THEN b + ScanTime ELSE b
           back  == stamp < last_timestamp_lidar
<1>1. /\ Typed /\ Averaged /\ Timed /\ Numbered /\ Ordered /\ Sampled /\ Added
      /\ ScanTime \in Nat \ {0} /\ b \in Nat /\ received \in Nat /\ loops \in Nat
      /\ lidar_buffer \in Seq(ScanT) /\ time_buffer \in Seq(Int)
      /\ Parts \in Nat \ {0}
  BY PartFacts DEF SyncInv, SyncAssumption, Typed
<1>2. /\ S \in Seq(ScanT)
      /\ Len(S) = Parts
  BY <1>1, QueuedFacts
<1>3. \A i \in 1..Parts : S[i].id = received + i
  BY DEF Queued
<1>4. \A i, j \in 1..Parts : i < j => Before(S[i], S[j])
  BY <1>1, QueuedFacts
<1>5. \A i \in 1..Parts : S[i] \in ScanT /\ S[i].start \in Nat /\ S[i].id \in Nat
  <2>1. \A i \in 1..Parts : S[i] \in ScanT BY <1>2
  <2> HIDE DEF S
  <2> QED BY <2>1 DEF ScanT
<1>6. T \in Seq(Int) /\ Len(T) = Parts
  <2>1. \A i \in 1..Parts : StampOf(S[i]) \in Int BY <1>1, <1>5 DEF StampOf
  <2>2. T \in [1..Parts -> Int] BY <2>1
  <2>3. Parts \in Nat BY <1>1
  <2> HIDE DEF T, S
  <2> QED BY <2>2, <2>3
<1>7. /\ loops' = IF back THEN loops + 1 ELSE loops
      /\ lidar_buffer' = (IF back THEN <<>> ELSE lidar_buffer) \o S
      /\ time_buffer' = time_buffer \o Times(S, stamp)
      /\ last_timestamp_lidar' = IF Break THEN S[Parts].start ELSE stamp
      /\ lidar_end_time' = IF Break THEN b + ScanTime ELSE lidar_end_time
      /\ received' = received + Parts
  BY Zenon DEF PclCbk, Queued
<1>8. /\ lidar_type' = lidar_type /\ imu_buffer' = imu_buffer
      /\ last_timestamp_imu' = last_timestamp_imu
      /\ Measures' = Measures /\ scan_num' = scan_num /\ scan_sum' = scan_sum
      /\ feats_undistort' = feats_undistort /\ mapped' = mapped
  BY DEF PclCbk, imuVars, syncVars, procVars
<1>9. lidar_pushed' = lidar_pushed /\ imu_need_init_' = imu_need_init_ /\ starved' = starved
  BY Zenon DEF PclCbk, syncVars, procVars
<1>10. ~overwritten' => ~overwritten /\ ~(Break /\ lidar_pushed)
  BY Zenon DEF PclCbk
<1> HIDE DEF S, T
<1>11. Times(S, stamp) \in Seq(Int) /\ Len(Times(S, stamp)) = Parts
  <2>1. DOMAIN S = 1..Parts BY <1>1, <1>2
  <2>2. \A i \in 1..Parts : (IF Break THEN S[i].start ELSE stamp) \in Int
    BY <1>1, <1>5
  <2> HIDE DEF stamp
  <2>3. Times(S, stamp) \in [1..Parts -> Int] BY <2>1, <2>2 DEF Times
  <2>4. Parts \in Nat BY <1>1
  <2> QED BY <2>3, <2>4
<1>12. Typed'
  <2>1. lidar_buffer' \in Seq(ScanT)
    BY <1>1, <1>2, <1>7
  <2>2. time_buffer' \in Seq(Int)
    BY <1>1, <1>7, <1>11
  <2>3. last_timestamp_lidar' \in Int /\ loops' \in Nat /\ lidar_end_time' \in Int /\ received' \in Nat
    BY <1>1, <1>5, <1>7, SMTT(20) DEF Typed
  <2> QED BY <1>1, <1>8, <2>1, <2>2, <2>3 DEF Typed
<1>13. Averaged' BY <1>1, <1>8 DEF Averaged
<1> HIDE DEF back, stamp
<1>14. ASSUME loops' = 0
       PROVE  /\ loops = 0
              /\ lidar_buffer' = lidar_buffer \o S
              /\ time_buffer' = time_buffer \o T
              /\ last_timestamp_lidar' = StampOf(S[Parts])
              /\ last_timestamp_lidar <= last_timestamp_lidar'
              /\ \A i \in 1..Parts : StampOf(S[i]) <= last_timestamp_lidar'
              /\ \A s \in ScanT, i \in 1..Parts :
                   s = NoScan \/ StampOf(s) <= last_timestamp_lidar => Before(s, S[i])
  BY <1>14, PclQueues DEF S, T
<1>15. ASSUME loops' = 0
       PROVE  /\ Len(lidar_buffer') = Len(lidar_buffer) + Parts
              /\ Len(time_buffer') = Len(time_buffer) + Parts
              /\ Len(lidar_buffer) = Len(time_buffer)
              /\ \A i \in 1..Len(lidar_buffer) : /\ lidar_buffer'[i] = lidar_buffer[i]
                                                 /\ time_buffer'[i] = time_buffer[i]
              /\ \A i \in 1..Len(lidar_buffer') :
                   \/ i \in 1..Len(lidar_buffer)
                   \/ /\ i - Len(lidar_buffer) \in 1..Parts /\ i > Len(lidar_buffer)
                      /\ lidar_buffer'[i] = S[i - Len(lidar_buffer)]
                      /\ time_buffer'[i] = T[i - Len(lidar_buffer)]
  <2>1. loops = 0 /\ lidar_buffer' = lidar_buffer \o S /\ time_buffer' = time_buffer \o T
    BY <1>14, <1>15
  <2>2. Len(lidar_buffer) = Len(time_buffer) BY <1>1, <2>1 DEF Timed
  <2>3. /\ Len(lidar_buffer') = Len(lidar_buffer) + Parts
        /\ \A i \in 1..Len(lidar_buffer) : lidar_buffer'[i] = lidar_buffer[i]
        /\ \A i \in 1..Len(lidar_buffer') :
             \/ i \in 1..Len(lidar_buffer)
             \/ /\ i - Len(lidar_buffer) \in 1..Parts /\ i > Len(lidar_buffer)
                /\ lidar_buffer'[i] = S[i - Len(lidar_buffer)]
    <3>1. lidar_buffer \in Seq(ScanT) /\ S \in Seq(ScanT) /\ Len(S) = Parts BY <1>1, <1>2
    <3>2. /\ Len(lidar_buffer \o S) = Len(lidar_buffer) + Len(S)
          /\ \A i \in 1..Len(lidar_buffer) : (lidar_buffer \o S)[i] = lidar_buffer[i]
      BY <3>1, Appended
    <3>3. \A i \in 1..Len(lidar_buffer \o S) :
            \/ i \in 1..Len(lidar_buffer)
            \/ /\ i - Len(lidar_buffer) \in 1..Len(S) /\ i > Len(lidar_buffer)
               /\ (lidar_buffer \o S)[i] = S[i - Len(lidar_buffer)]
      BY <3>1, Appended
    <3> QED BY <2>1, <3>1, <3>2, <3>3
  <2>4. /\ Len(time_buffer') = Len(time_buffer) + Parts
        /\ \A i \in 1..Len(time_buffer) : time_buffer'[i] = time_buffer[i]
        /\ \A i \in 1..Len(time_buffer') :
             \/ i \in 1..Len(time_buffer)
             \/ /\ i - Len(time_buffer) \in 1..Parts /\ i > Len(time_buffer)
                /\ time_buffer'[i] = T[i - Len(time_buffer)]
    <3>1. time_buffer \in Seq(Int) /\ T \in Seq(Int) /\ Len(T) = Parts BY <1>1, <1>6
    <3>2. /\ Len(time_buffer \o T) = Len(time_buffer) + Len(T)
          /\ \A i \in 1..Len(time_buffer) : (time_buffer \o T)[i] = time_buffer[i]
      BY <3>1, Appended
    <3>3. \A i \in 1..Len(time_buffer \o T) :
            \/ i \in 1..Len(time_buffer)
            \/ /\ i - Len(time_buffer) \in 1..Len(T) /\ i > Len(time_buffer)
               /\ (time_buffer \o T)[i] = T[i - Len(time_buffer)]
      BY <3>1, Appended
    <3> QED BY <2>1, <3>1, <3>2, <3>3
  <2>5. Len(lidar_buffer) \in Nat BY <1>1
  <2> QED BY <2>2, <2>3, <2>4, <2>5
<1>16. Timed'
  <2>1. Len(lidar_buffer') <= Len(time_buffer')
    <3>1. Len(lidar_buffer) \in Nat /\ Len(time_buffer) \in Nat /\ Parts \in Nat BY <1>1
    <3>2. Len(lidar_buffer) <= Len(time_buffer) BY <1>1 DEF Timed
    <3>3. Len(time_buffer') = Len(time_buffer) + Parts
      <4>1. /\ time_buffer \in Seq(Int) /\ Times(S, stamp) \in Seq(Int)
            /\ Len(Times(S, stamp)) = Parts /\ time_buffer' = time_buffer \o Times(S, stamp)
        BY <1>1, <1>7, <1>11
      <4> QED BY <4>1, Appended
    <3>4. Len(lidar_buffer') <= Len(lidar_buffer) + Parts
      <4>1. /\ lidar_buffer \in Seq(ScanT) /\ <<>> \in Seq(ScanT) /\ S \in Seq(ScanT) /\ Len(S) = Parts
            /\ Parts \in Nat /\ Len(lidar_buffer) \in Nat
        BY <1>1, <1>2
      <4>2. lidar_buffer' = <<>> \o S \/ lidar_buffer' = lidar_buffer \o S
        BY <1>7
      <4>3. Len(<<>> \o S) = Len(<<>>) + Len(S)
        BY <4>1, ConcatProperties
      <4>4. Len(lidar_buffer \o S) = Len(lidar_buffer) + Len(S)
        BY <4>1, ConcatProperties
      <4>5. Len(<<>>) = 0 OBVIOUS
      <4> QED BY <4>1, <4>2, <4>3, <4>4, <4>5, SMTT(20)
    <3>5. Len(lidar_buffer') \in Nat BY <1>12 DEF Typed
    <3> QED BY <3>1, <3>2, <3>3, <3>4, <3>5
  <2>2. ASSUME loops' = 0
        PROVE  \A i \in 1..Len(lidar_buffer') : time_buffer'[i] = StampOf(lidar_buffer'[i])
    <3>1. \A i \in 1..Len(lidar_buffer) : time_buffer[i] = StampOf(lidar_buffer[i])
      BY <1>1, <1>14, <2>2 DEF Timed
    <3>2. \A i \in 1..Parts : T[i] = StampOf(S[i]) BY DEF T
    <3> QED BY <1>15, <2>2, <3>1, <3>2
  <2>3. ASSUME loops' = 0
        PROVE  Measures.lidar.id > 0 => Measures.beg = BegOf(Measures.lidar)
    BY <1>1, <1>14, <2>3 DEF Timed
  <2>4. ASSUME loops' = 0
        PROVE  (\A i \in 1..Len(lidar_buffer) : time_buffer[i] = StampOf(lidar_buffer[i]))'
    BY <1>8, <2>2, <2>4 DEF StampOf
  <2>5. ASSUME loops' = 0
        PROVE  (Measures.lidar.id > 0 => Measures.beg = BegOf(Measures.lidar))'
    BY <1>8, <2>3, <2>5 DEF BegOf
  <2>6. loops' = 0 => Len(lidar_buffer') = Len(time_buffer') BY <1>15
  <2> QED BY <2>1, <2>4, <2>5, <2>6 DEF Timed<1>17. Numbered'
  <2> SUFFICES ASSUME loops' = 0 PROVE Numbered'
    BY DEF Numbered
  <2>1. loops = 0 BY <1>14
  <2>2. Len(lidar_buffer) <= received BY <1>1, <2>1 DEF Numbered
  <2>3. Len(lidar_buffer') <= received' BY <1>1, <1>7, <1>15, <2>2
  <2>4. \A i \in 1..Len(lidar_buffer') : lidar_buffer'[i].id = received' - Len(lidar_buffer') + i
    <3> SUFFICES ASSUME NEW i \in 1..Len(lidar_buffer')
                 PROVE  lidar_buffer'[i].id = received' - Len(lidar_buffer') + i
      OBVIOUS
    <3>1. received' - Len(lidar_buffer') = received - Len(lidar_buffer)
      BY <1>1, <1>7, <1>15, SMTT(20)
    <3>2. CASE i \in 1..Len(lidar_buffer)
      BY <1>1, <1>15, <2>1, <3>1, <3>2 DEF Numbered
    <3>3. CASE i - Len(lidar_buffer) \in 1..Parts /\ lidar_buffer'[i] = S[i - Len(lidar_buffer)]
      <4>1. lidar_buffer'[i].id = received + (i - Len(lidar_buffer)) BY <1>3, <3>3
      <4> QED BY <1>1, <3>1, <4>1
    <3> QED BY <1>15, <3>2, <3>3
  <2>5. lidar_pushed => lidar_buffer # <<>> /\ Measures.lidar = lidar_buffer[1]
    BY <1>1, <2>1 DEF Numbered
  <2>6. lidar_pushed' => lidar_buffer' # <<>> /\ Measures'.lidar = lidar_buffer'[1]
    <3> SUFFICES ASSUME lidar_pushed PROVE lidar_buffer' # <<>> /\ Measures'.lidar = lidar_buffer'[1]
      BY <1>9, Zenon
    <3>1. Len(lidar_buffer) >= 1 BY <1>1, <2>5
    <3> QED BY <1>1, <1>8, <1>15, <2>5, <3>1
  <2> QED BY <2>3, <2>4, <2>6 DEF Numbered
<1>18. Ordered'
  <2> SUFFICES ASSUME loops' = 0 PROVE Ordered'
    BY DEF Ordered
  <2>1. loops = 0 BY <1>14
  <2>2. received' # 0 BY <1>1, <1>7
  <2>3. \A i \in 1..Len(lidar_buffer) :
          lidar_buffer[i] \in ScanT /\ StampOf(lidar_buffer[i]) \in Int
            /\ StampOf(lidar_buffer[i]) <= last_timestamp_lidar
    <3>1. \A i \in 1..Len(lidar_buffer) : lidar_buffer[i] \in ScanT BY <1>1
    <3>2. \A s \in ScanT : StampOf(s) \in Int BY <1>1 DEF ScanT, StampOf
    <3> QED BY <1>1, <2>1, <3>1, <3>2 DEF Ordered
  <2>4. Measures.lidar \in ScanT BY <1>1 DEF Typed
  <2>5. last_timestamp_lidar \in Int /\ last_timestamp_lidar' \in Int
    BY <1>1, <1>12 DEF Typed
  <2>6. \A i \in 1..Len(lidar_buffer') : StampOf(lidar_buffer'[i]) <= last_timestamp_lidar'
    <3> SUFFICES ASSUME NEW i \in 1..Len(lidar_buffer')
                 PROVE  StampOf(lidar_buffer'[i]) <= last_timestamp_lidar'
      OBVIOUS
    <3>1. CASE i \in 1..Len(lidar_buffer) BY <1>14, <1>15, <2>3, <2>5, <3>1, SMTT(20)
    <3>2. CASE i - Len(lidar_buffer) \in 1..Parts /\ lidar_buffer'[i] = S[i - Len(lidar_buffer)]
      BY <1>14, <3>2
    <3> QED BY <1>15, <3>1, <3>2
  <2>7. \A i \in 1..Len(lidar_buffer') : ~lidar_pushed => Before(Measures.lidar, lidar_buffer'[i])
    <3> SUFFICES ASSUME NEW i \in 1..Len(lidar_buffer'), ~lidar_pushed
                 PROVE  Before(Measures.lidar, lidar_buffer'[i])
      OBVIOUS
    <3>1. CASE i \in 1..Len(lidar_buffer) BY <1>1, <1>15, <2>1, <3>1 DEF Ordered
    <3>2. CASE i - Len(lidar_buffer) \in 1..Parts /\ lidar_buffer'[i] = S[i - Len(lidar_buffer)]
      <4>1. Measures.lidar = NoScan \/ StampOf(Measures.lidar) <= last_timestamp_lidar
        BY <1>1, <2>1 DEF Ordered
      <4> QED BY <1>14, <2>4, <3>2, <4>1
    <3> QED BY <1>15, <3>1, <3>2
  <2>8. \A i, j \in 1..Len(lidar_buffer') : i < j => Before(lidar_buffer'[i], lidar_buffer'[j])
    <3> SUFFICES ASSUME NEW i \in 1..Len(lidar_buffer'), NEW j \in 1..Len(lidar_buffer'), i < j
                 PROVE  Before(lidar_buffer'[i], lidar_buffer'[j])
      OBVIOUS
    <3>1. CASE i \in 1..Len(lidar_buffer) /\ j \in 1..Len(lidar_buffer)
      BY <1>1, <1>15, <2>1, <3>1 DEF Ordered
    <3>2. CASE /\ i \in 1..Len(lidar_buffer)
               /\ j - Len(lidar_buffer) \in 1..Parts /\ lidar_buffer'[j] = S[j - Len(lidar_buffer)]
      BY <1>14, <1>15, <2>3, <3>2
    <3>3. CASE /\ i - Len(lidar_buffer) \in 1..Parts /\ lidar_buffer'[i] = S[i - Len(lidar_buffer)]
               /\ j - Len(lidar_buffer) \in 1..Parts /\ lidar_buffer'[j] = S[j - Len(lidar_buffer)]
      <4>1. i - Len(lidar_buffer) < j - Len(lidar_buffer) BY <1>1
      <4> QED BY <1>4, <3>3, <4>1
    <3>4. ~(i > Len(lidar_buffer) /\ j \in 1..Len(lidar_buffer)) BY <1>1
    <3> QED BY <1>15, <3>1, <3>2, <3>3, <3>4
  <2>9. \/ Measures.lidar = NoScan
        \/ /\ StampOf(Measures.lidar) <= last_timestamp_lidar'
           /\ Measures.end <= Reach(Measures.lidar)
    <3>1. StampOf(Measures.lidar) \in Int BY <1>1, <2>4, SMTT(20) DEF StampOf, ScanT
    <3> QED BY <1>1, <1>14, <2>1, <2>5, <3>1, SMTT(20) DEF Ordered
  <2>10. (\A i \in 1..Len(lidar_buffer) : StampOf(lidar_buffer[i]) <= last_timestamp_lidar)'
    BY <1>8, <2>6 DEF StampOf
  <2>11. (\A i \in 1..Len(lidar_buffer) : ~lidar_pushed => Before(Measures.lidar, lidar_buffer[i]))'
    <3> SUFFICES ASSUME NEW i \in 1..Len(lidar_buffer'), ~lidar_pushed'
                 PROVE  Before(Measures.lidar, lidar_buffer[i])'
      OBVIOUS
    <3>1. ~lidar_pushed BY <1>9, Zenon
    <3>2. Before(Measures.lidar, lidar_buffer'[i]) BY <2>7, <3>1
    <3> QED BY <1>8, <3>2 DEF Before, Break
  <2>12. (\A i, j \in 1..Len(lidar_buffer) : i < j => Before(lidar_buffer[i], lidar_buffer[j]))'
    BY <1>8, <2>8 DEF Before, Break
  <2>13. (\/ Measures.lidar = NoScan
          \/ /\ StampOf(Measures.lidar) <= last_timestamp_lidar
             /\ Measures.end <= Reach(Measures.lidar))'
    BY <1>8, <2>9 DEF StampOf, Reach, Break, NoScan
  <2> QED BY <2>2, <2>10, <2>11, <2>12, <2>13 DEF Ordered
<1>19. Sampled'
  <2>1. lidar_pushed' => imu_buffer' # <<>>
    <3>1. lidar_pushed => imu_buffer # <<>> BY <1>1 DEF Sampled
    <3> QED BY <1>8, <1>9, <3>1, Zenon
  <2>2. imu_buffer' # <<>> => imu_buffer'[Len(imu_buffer')] = last_timestamp_imu'
    BY <1>1, <1>8 DEF Sampled
  <2>3. ASSUME loops' = 0, ~overwritten'
        PROVE  /\ lidar_pushed' => lidar_end_time' = Measures'.end
               /\ imu_buffer' = <<>> => last_timestamp_imu' <= Reach(Measures.lidar)'
    <3>1. loops = 0 BY <1>14, <2>3
    <3>2. ~overwritten /\ ~(Break /\ lidar_pushed) BY <1>10, <2>3, Zenon
    <3>3. /\ lidar_pushed => lidar_end_time = Measures.end
          /\ imu_buffer = <<>> => last_timestamp_imu <= Reach(Measures.lidar)
      BY <1>1, <3>1, <3>2, Zenon DEF Sampled
    <3>4. lidar_pushed => lidar_end_time' = lidar_end_time
      BY <1>7, <3>2, Zenon
    <3>5. lidar_pushed' => lidar_end_time' = Measures'.end
      BY <1>8, <1>9, <3>3, <3>4, Zenon
    <3>6. Reach(Measures.lidar)' = Reach(Measures.lidar) BY <1>8 DEF Reach, Break
    <3> QED BY <1>8, <3>3, <3>5, <3>6, Zenon
  <2> QED BY <2>1, <2>2, <2>3, Zenon DEF Sampled
<1>20. Added'
  <2>1. imu_need_init_' => feats_undistort' = NoScan'
    BY <1>1, <1>8, <1>9, Zenon DEF Added, NoScan
  <2>2. ASSUME loops' = 0, ~starved'
        PROVE  /\ \A i, j \in DOMAIN mapped : i < j => mapped[i] < mapped[j]
               /\ \A i \in DOMAIN mapped : mapped[i] <= received - Len(lidar_buffer)
    <3>1. loops = 0 /\ ~starved BY <1>9, <1>14, <2>2, Zenon
    <3> QED BY <1>1, <3>1, Zenon DEF Added
  <2>3. loops' = 0 => received' - Len(lidar_buffer') = received - Len(lidar_buffer)
    <3>1. Len(lidar_buffer) \in Nat /\ Parts \in Nat /\ received \in Nat BY <1>1
    <3>2. loops' = 0 => Len(lidar_buffer') = Len(lidar_buffer) + Parts BY <1>15
    <3>3. received' = received + Parts BY <1>7
    <3> QED BY <3>1, <3>2, <3>3
  <2> QED BY <1>8, <2>1, <2>2, <2>3, Zenon DEF Added
<1> QED BY <1>12, <1>13, <1>16, <1>17, <1>18, <1>19, <1>20 DEF SyncInv
LEMMA ImuSync ==
  ASSUME SyncAssumption, SyncInv, NEW t \in 1..MaxTime, ImuCbk(t)
  PROVE  SyncInv'
<1> DEFINE back == t < last_timestamp_imu
<1>1. /\ Typed /\ Averaged /\ Timed /\ Numbered /\ Ordered /\ Sampled /\ Added
      /\ loops \in Nat /\ imu_buffer \in Seq(Int) /\ t \in Int
  BY DEF SyncInv, Typed
<1>2. /\ loops' = IF back THEN loops + 1 ELSE loops
      /\ imu_buffer' = Append(IF back THEN <<>> ELSE imu_buffer, t)
      /\ last_timestamp_imu' = t
  BY DEF ImuCbk
<1>3. /\ lidar_type' = lidar_type /\ lidar_buffer' = lidar_buffer /\ time_buffer' = time_buffer
      /\ last_timestamp_lidar' = last_timestamp_lidar /\ received' = received
      /\ Measures' = Measures /\ scan_num' = scan_num /\ scan_sum' = scan_sum
      /\ lidar_end_time' = lidar_end_time
      /\ feats_undistort' = feats_undistort /\ mapped' = mapped
  BY DEF ImuCbk, lidarVars, syncVars, procVars
<1>4. /\ lidar_pushed' = lidar_pushed /\ imu_need_init_' = imu_need_init_
      /\ starved' = starved /\ overwritten' = overwritten
  BY Zenon DEF ImuCbk, syncVars, procVars
<1>5. loops' \in Nat /\ (loops' = 0 => loops = 0) BY <1>1, <1>2
<1>6. imu_buffer' \in Seq(Int) /\ imu_buffer' # <<>> /\ imu_buffer'[Len(imu_buffer')] = t
  BY <1>1, <1>2
<1>7. Typed' BY <1>1, <1>2, <1>3, <1>5, <1>6 DEF Typed
<1>8. Averaged' BY <1>1, <1>3 DEF Averaged
<1>9. Timed' BY <1>1, <1>3, <1>5 DEF Timed, StampOf, BegOf
<1>10. Numbered' BY <1>1, <1>3, <1>4, <1>5, Zenon DEF Numbered
<1>11. Ordered'
  BY <1>1, <1>3, <1>4, <1>5, Zenon DEF Ordered, StampOf, Before, Reach, Break, NoScan
<1>12. Sampled'
  <2>1. loops = 0 /\ ~overwritten /\ lidar_pushed => lidar_end_time = Measures.end
    BY <1>1, Zenon DEF Sampled
  <2> QED BY <1>2, <1>3, <1>4, <1>5, <1>6, <2>1, Zenon DEF Sampled
<1>13. Added' BY <1>1, <1>3, <1>4, <1>5, Zenon DEF Added, NoScan
<1> QED BY <1>7, <1>8, <1>9, <1>10, <1>11, <1>12, <1>13 DEF SyncInv

\* While sync_packages waits the front scan is pushed, and nothing else changes.
LEMMA WaitSync ==
  ASSUME SyncAssumption, SyncInv, SyncWait
  PROVE  SyncInv'
<1> DEFINE p == Pushed
<1>1. /\ Typed /\ Averaged /\ Timed /\ Numbered /\ Ordered /\ Sampled /\ Added
      /\ lidar_buffer \in Seq(ScanT) /\ imu_buffer # <<>> /\ lidar_buffer # <<>> /\ CanPush
      /\ Len(lidar_buffer) >= 1
  BY DEF SyncInv, Typed, SyncWait, CanPush
<1>2. /\ p.lidar \in ScanT /\ p.beg \in Int /\ p.end \in Int /\ p.until \in Int
      /\ p.num \in Nat /\ p.sum \in Nat /\ p.sum <= ScanTime * p.num
  BY <1>1, PushedFacts
<1>3. ASSUME loops = 0
      PROVE  /\ p.lidar = lidar_buffer[1]
             /\ p.beg = BegOf(p.lidar)
             /\ p.end <= Reach(p.lidar)
             /\ ~overwritten => p.until = p.end
  BY <1>1, <1>3, PushedFacts, Zenon
<1>4. /\ Measures' = [lidar |-> p.lidar, beg |-> p.beg, end |-> p.end]
      /\ lidar_end_time' = p.until
      /\ scan_num' = p.num /\ scan_sum' = p.sum
  BY DEF SyncWait
<1>5. /\ lidar_type' = lidar_type /\ lidar_buffer' = lidar_buffer /\ time_buffer' = time_buffer
      /\ last_timestamp_lidar' = last_timestamp_lidar /\ received' = received
      /\ imu_buffer' = imu_buffer /\ last_timestamp_imu' = last_timestamp_imu
      /\ feats_undistort' = feats_undistort /\ mapped' = mapped /\ loops' = loops
  BY DEF SyncWait, lidarVars, imuVars, procVars
<1>6. /\ lidar_pushed' = TRUE /\ imu_need_init_' = imu_need_init_
      /\ starved' = starved /\ overwritten' = overwritten
  BY Zenon DEF SyncWait, procVars
<1> HIDE DEF p
<1>7. Measures'.lidar = p.lidar /\ Measures'.beg = p.beg /\ Measures'.end = p.end
  BY <1>4
<1>8. Typed'
  <2>1. Measures' \in [lidar : ScanT, beg : Int, end : Int] BY <1>2, <1>4
  <2>2. lidar_end_time' \in Int /\ scan_num' \in Nat /\ scan_sum' \in Nat BY <1>2, <1>4
  <2> QED BY <1>1, <1>5, <2>1, <2>2 DEF Typed
<1>9. Averaged' BY <1>2, <1>4 DEF Averaged
<1>10. Timed'
  <2>1. loops = 0 => p.beg = BegOf(p.lidar) BY <1>3, Zenon
  <2>2. loops = 0 => (Measures.beg = BegOf(Measures.lidar))' BY <1>5, <1>7, <2>1 DEF BegOf
  <2>3. (loops = 0 => \A i \in 1..Len(lidar_buffer) : time_buffer[i] = StampOf(lidar_buffer[i]))'
    BY <1>1, <1>5 DEF Timed, StampOf
  <2>4. Len(lidar_buffer') <= Len(time_buffer') /\ (loops' = 0 => Len(lidar_buffer') = Len(time_buffer'))
    BY <1>1, <1>5 DEF Timed
  <2> QED BY <1>5, <2>2, <2>3, <2>4 DEF Timed
<1>11. Numbered'
  <2>1. loops = 0 => Measures'.lidar = lidar_buffer[1] BY <1>3, <1>7, Zenon
  <2> QED BY <1>1, <1>5, <2>1, Zenon DEF Numbered
<1>12. Ordered'
  <2> SUFFICES ASSUME loops = 0 PROVE Ordered'
    BY <1>5 DEF Ordered
  <2>1. StampOf(p.lidar) <= last_timestamp_lidar /\ p.end <= Reach(p.lidar)
    BY <1>1, <1>3 DEF Ordered
  <2>2. (StampOf(Measures.lidar) <= last_timestamp_lidar /\ Measures.end <= Reach(Measures.lidar))'
    BY <1>5, <1>7, <2>1 DEF StampOf, Reach, Break
  <2>3. (\A i \in 1..Len(lidar_buffer) : StampOf(lidar_buffer[i]) <= last_timestamp_lidar)'
    BY <1>1, <1>5 DEF Ordered, StampOf
  <2>4. (\A i, j \in 1..Len(lidar_buffer) : i < j => Before(lidar_buffer[i], lidar_buffer[j]))'
    BY <1>1, <1>5 DEF Ordered, Before, Break
  <2>5. received' = 0 => last_timestamp_lidar' = 0 BY <1>1, <1>5 DEF Ordered
  <2> QED BY <1>6, <2>2, <2>3, <2>4, <2>5, Zenon DEF Ordered
<1>13. Sampled'
  <2>1. loops = 0 /\ ~overwritten => p.until = p.end BY <1>3, Zenon
  <2>2. imu_buffer' # <<>> /\ imu_buffer'[Len(imu_buffer')] = last_timestamp_imu'
    BY <1>1, <1>5 DEF Sampled
  <2>3. loops' = 0 /\ ~overwritten' => lidar_end_time' = Measures'.end
    BY <1>4, <1>5, <1>6, <1>7, <2>1, Zenon
  <2> QED BY <2>2, <2>3, Zenon DEF Sampled
<1>14. Added' BY <1>1, <1>5, <1>6, Zenon DEF Added, NoScan
<1> QED BY <1>8, <1>9, <1>10, <1>11, <1>12, <1>13, <1>14 DEF SyncInv
\* Of n samples taken, the rest stays, and the last one of it is the last received.
\* Without a rest the last one received is no later than "until".
LEMMA SamplesTaken ==
  ASSUME imu_buffer \in Seq(Int), imu_buffer # <<>>,
         NEW n \in 0..Len(imu_buffer), NEW end \in Int, NEW until \in Int,
         Cover(n, end, until),
         NEW rest, rest = SubSeq(imu_buffer, n + 1, Len(imu_buffer))
  PROVE  /\ rest \in Seq(Int)
         /\ rest # <<>> => rest[Len(rest)] = imu_buffer[Len(imu_buffer)]
         /\ rest = <<>> => imu_buffer[Len(imu_buffer)] <= until
<1>1. Len(imu_buffer) \in Nat \ {0} BY EmptySeq
<1>2. CASE n = Len(imu_buffer)
  <2>1. rest = <<>> BY <1>1, <1>2
  <2>2. imu_buffer[n] <= until
    <3>1. n \in 1..n BY <1>1, <1>2
    <3> QED BY <3>1 DEF Cover
  <2> QED BY <1>2, <2>1, <2>2
<1>3. CASE n < Len(imu_buffer)
  <2>1. Len(imu_buffer) - n \in Nat \ {0} BY <1>1, <1>3
  <2>2. /\ Len(rest) = Len(imu_buffer) - n
        /\ rest \in Seq(Int)
        /\ \A i \in 1..Len(rest) : rest[i] = imu_buffer[n + i]
    BY <1>1, <1>3
  <2>3. Len(rest) \in 1..Len(rest) /\ n + Len(rest) = Len(imu_buffer) BY <1>1, <2>1, <2>2
  <2>4. rest[Len(rest)] = imu_buffer[Len(imu_buffer)] BY <2>2, <2>3
  <2>5. rest # <<>> BY <2>1, <2>2
  <2> QED BY <2>2, <2>4, <2>5
<1>4. n = Len(imu_buffer) \/ n < Len(imu_buffer) BY <1>1
<1> QED BY <1>2, <1>3, <1>4

\* What the rest of the loop does with the scan: it may become the one whose points
\* are held, and then it may be added to the map.
LEMMA ScanProcessed ==
  ASSUME SyncInv, SyncDone,
         NEW s, s = Measures'.lidar
  PROVE  /\ feats_undistort' = feats_undistort \/ feats_undistort' = s
         /\ mapped' = mapped \/ mapped' = Append(mapped, feats_undistort'.id)
         /\ imu_need_init_' => imu_need_init_ /\ feats_undistort' = feats_undistort
         /\ ~starved' => ~starved /\ (mapped' = mapped \/ mapped' = Append(mapped, s.id))
<1>1. imu_need_init_ => feats_undistort = NoScan
  BY DEF SyncInv, Added
<1>2. PICK n \in 0..Len(imu_buffer) :
        IF flg_first_scan
          THEN UNCHANGED <<init_iter_num, imu_need_init_, last_imu_, last_lidar_end_time_,
                           feats_undistort, clock, mapped, starved>>
          ELSE Process(SubSeq(imu_buffer, 1, n)) /\ mapped' = Mapped
  BY Zenon DEF SyncDone
<1>3. CASE flg_first_scan
  <2>1. /\ feats_undistort' = feats_undistort /\ mapped' = mapped
        /\ imu_need_init_' = imu_need_init_ /\ starved' = starved
    BY <1>2, <1>3, Zenon
  <2> QED BY <2>1, Zenon
<1>4. CASE ~flg_first_scan
  <2> DEFINE imu == SubSeq(imu_buffer, 1, n)
  <2>1. Process(imu) /\ mapped' = Mapped BY <1>2, <1>4, Zenon
  <2> HIDE DEF imu
  <2>2. mapped' = mapped \/ mapped' = Append(mapped, feats_undistort'.id)
    BY <2>1, Zenon DEF Mapped
  <2>3. CASE imu = <<>> /\ UNCHANGED <<init_iter_num, imu_need_init_, last_imu_,
                                       last_lidar_end_time_, feats_undistort, clock>>
    <3>1. starved' = (starved \/ imu = <<>>) BY <2>1, Zenon DEF Process
    <3>2. starved' BY <2>3, <3>1, Zenon
    <3>3. feats_undistort' = feats_undistort /\ imu_need_init_' = imu_need_init_
      BY <2>3, Zenon
    <3> QED BY <2>2, <3>2, <3>3, Zenon
  <2>4. CASE imu # <<>> /\ imu_need_init_ /\ ImuInit(imu)
    <3>1. starved' = (starved \/ imu = <<>>) BY <2>1, Zenon DEF Process
    <3>2. ~starved' => ~starved BY <2>4, <3>1, Zenon
    <3>3. feats_undistort' = feats_undistort BY <2>4, Zenon DEF ImuInit
    <3>4. feats_undistort' = NoScan BY <1>1, <2>4, <3>3, Zenon
    <3>5. NoScan.few = TRUE BY Zenon DEF NoScan
    <3>6. mapped' = mapped BY <2>1, <3>4, <3>5, Zenon DEF Mapped
    <3> QED BY <2>4, <3>2, <3>3, <3>6, Zenon
  <2>5. CASE imu # <<>> /\ ~imu_need_init_ /\ UndistortPcl(imu)
    <3>1. starved' = (starved \/ imu = <<>>) BY <2>1, Zenon DEF Process
    <3>2. ~starved' => ~starved BY <2>5, <3>1, Zenon
    <3>3. feats_undistort' = s /\ imu_need_init_' = imu_need_init_
      BY <2>5, Zenon DEF UndistortPcl
    <3> QED BY <2>2, <2>5, <3>2, <3>3, Zenon
  <2> QED BY <2>1, <2>3, <2>4, <2>5, Zenon DEF Process
<1> QED BY <1>3, <1>4

\* When sync_packages is done with a scan, the next one is in front.
LEMMA DoneSync ==
  ASSUME SyncAssumption, SyncInv, SyncDone
  PROVE  SyncInv'
<1> DEFINE p == Pushed
<1>1. /\ Typed /\ Averaged /\ Timed /\ Numbered /\ Ordered /\ Sampled /\ Added
      /\ lidar_buffer \in Seq(ScanT) /\ time_buffer \in Seq(Int) /\ imu_buffer \in Seq(Int)
      /\ imu_buffer # <<>> /\ lidar_buffer # <<>> /\ CanPush
      /\ Len(lidar_buffer) >= 1 /\ Len(time_buffer) >= 1
      /\ loops \in Nat /\ received \in Nat /\ ScanTime \in Nat
  <2>1. Typed /\ Averaged /\ Timed /\ Numbered /\ Ordered /\ Sampled /\ Added BY DEF SyncInv
  <2>2. CanPush /\ imu_buffer # <<>> /\ lidar_buffer # <<>> BY Zenon DEF SyncDone, CanPush
  <2>3. /\ lidar_buffer \in Seq(ScanT) /\ time_buffer \in Seq(Int) /\ imu_buffer \in Seq(Int)
        /\ loops \in Nat /\ received \in Nat
    BY <2>1 DEF Typed
  <2>4. Len(lidar_buffer) <= Len(time_buffer) BY <2>1 DEF Timed
  <2>5. Len(lidar_buffer) >= 1 BY <2>2, <2>3
  <2>6. Len(time_buffer) >= 1 BY <2>3, <2>4, <2>5
  <2>7. ScanTime \in Nat BY DEF SyncAssumption
  <2> QED BY <2>1, <2>2, <2>3, <2>5, <2>6, <2>7
<1>2. /\ p.lidar \in ScanT /\ p.beg \in Int /\ p.end \in Int /\ p.until \in Int
      /\ p.num \in Nat /\ p.sum \in Nat /\ p.sum <= ScanTime * p.num
  BY <1>1, PushedFacts
<1>3. ASSUME loops = 0
      PROVE  /\ p.lidar = lidar_buffer[1]
             /\ p.beg = BegOf(p.lidar)
             /\ p.end <= Reach(p.lidar)
             /\ ~overwritten => p.until = p.end
  BY <1>1, <1>3, PushedFacts, Zenon
<1>4. /\ Measures' = [lidar |-> p.lidar, beg |-> p.beg, end |-> p.end]
      /\ lidar_end_time' = p.until
      /\ scan_num' = p.num /\ scan_sum' = p.sum
      /\ lidar_buffer' = Tail(lidar_buffer) /\ time_buffer' = Tail(time_buffer)
  BY DEF SyncDone
<1>5. /\ lidar_type' = lidar_type
      /\ last_timestamp_lidar' = last_timestamp_lidar /\ received' = received
      /\ last_timestamp_imu' = last_timestamp_imu /\ loops' = loops
  BY DEF SyncDone
<1>6. lidar_pushed' = FALSE /\ overwritten' = overwritten
  BY Zenon DEF SyncDone
<1>7. PICK n \in 0..Len(imu_buffer) :
        /\ Cover(n, p.end, p.until)
        /\ imu_buffer' = SubSeq(imu_buffer, n + 1, Len(imu_buffer))
  BY Zenon DEF SyncDone
<1> HIDE DEF p
<1>8. Measures'.lidar = p.lidar /\ Measures'.beg = p.beg /\ Measures'.end = p.end
  BY <1>4
<1>9. /\ feats_undistort' = feats_undistort \/ feats_undistort' = p.lidar
      /\ mapped' = mapped \/ mapped' = Append(mapped, feats_undistort'.id)
      /\ imu_need_init_' => imu_need_init_ /\ feats_undistort' = feats_undistort
      /\ ~starved' => ~starved /\ (mapped' = mapped \/ mapped' = Append(mapped, p.lidar.id))
  BY <1>8, ScanProcessed, Zenon
<1>10. /\ imu_buffer' \in Seq(Int)
       /\ imu_buffer' # <<>> => imu_buffer'[Len(imu_buffer')] = imu_buffer[Len(imu_buffer)]
       /\ imu_buffer' = <<>> => imu_buffer[Len(imu_buffer)] <= p.until
  BY <1>1, <1>2, <1>7, SamplesTaken
<1>11. /\ Len(lidar_buffer') = Len(lidar_buffer) - 1 /\ Len(time_buffer') = Len(time_buffer) - 1
       /\ lidar_buffer' \in Seq(ScanT) /\ time_buffer' \in Seq(Int)
       /\ \A i \in 1..Len(lidar_buffer') : lidar_buffer'[i] = lidar_buffer[i + 1]
       /\ \A i \in 1..Len(time_buffer') : time_buffer'[i] = time_buffer[i + 1]
  BY <1>1, <1>4, SMTT(20)
<1>12. Len(lidar_buffer) \in Nat /\ Len(time_buffer) \in Nat
  BY <1>1
<1>13. Typed'
  <2>1. Measures' \in [lidar : ScanT, beg : Int, end : Int] BY <1>2, <1>4
  <2>2. lidar_end_time' \in Int /\ scan_num' \in Nat /\ scan_sum' \in Nat BY <1>2, <1>4
  <2>3. feats_undistort' \in ScanT BY <1>1, <1>2, <1>9 DEF Typed
  <2>4. feats_undistort'.id \in Nat BY <2>3 DEF ScanT
  <2>5. mapped' \in Seq(Nat)
    <3>1. mapped \in Seq(Nat) BY <1>1 DEF Typed
    <3>2. CASE mapped' = mapped BY <3>1, <3>2
    <3>3. CASE mapped' = Append(mapped, feats_undistort'.id) BY <2>4, <3>1, <3>3
    <3> QED BY <1>9, <3>2, <3>3, Zenon
  <2> QED BY <1>1, <1>5, <1>10, <1>11, <2>1, <2>2, <2>3, <2>5 DEF Typed
<1>14. Averaged' BY <1>2, <1>4 DEF Averaged
<1>15. \A i \in 1..Len(lidar_buffer') : i + 1 \in 1..Len(lidar_buffer)
  BY <1>11, <1>12, SMTT(20)
<1>16. Timed'
  <2>1. loops = 0 => p.beg = BegOf(p.lidar) BY <1>3, Zenon
  <2>2. loops = 0 => (Measures.beg = BegOf(Measures.lidar))' BY <1>5, <1>8, <2>1 DEF BegOf
  <2>3. ASSUME loops = 0
        PROVE  \A i \in 1..Len(lidar_buffer') : time_buffer'[i] = StampOf(lidar_buffer'[i])
    <3>1. Len(lidar_buffer) = Len(time_buffer) BY <1>1, <2>3 DEF Timed
    <3>2. \A i \in 1..Len(lidar_buffer) : time_buffer[i] = StampOf(lidar_buffer[i])
      BY <1>1, <2>3 DEF Timed
    <3> QED BY <1>11, <1>15, <3>1, <3>2
  <2>4. (loops = 0 => \A i \in 1..Len(lidar_buffer) : time_buffer[i] = StampOf(lidar_buffer[i]))'
    BY <1>5, <2>3 DEF StampOf
  <2>5. Len(lidar_buffer') <= Len(time_buffer') /\ (loops' = 0 => Len(lidar_buffer') = Len(time_buffer'))
    BY <1>1, <1>5, <1>11, <1>12 DEF Timed
  <2> QED BY <1>5, <2>2, <2>4, <2>5 DEF Timed
<1>17. Numbered'
  <2> SUFFICES ASSUME loops = 0 PROVE Numbered'
    BY <1>5 DEF Numbered
  <2>1. Len(lidar_buffer) <= received BY <1>1 DEF Numbered
  <2>2. \A i \in 1..Len(lidar_buffer') : lidar_buffer'[i].id = received' - Len(lidar_buffer') + i
    <3> SUFFICES ASSUME NEW i \in 1..Len(lidar_buffer')
                 PROVE  lidar_buffer'[i].id = received' - Len(lidar_buffer') + i
      OBVIOUS
    <3>1. lidar_buffer[i + 1].id = received - Len(lidar_buffer) + (i + 1)
      BY <1>1, <1>15 DEF Numbered
    <3>2. lidar_buffer'[i] = lidar_buffer[i + 1] /\ Len(lidar_buffer') = Len(lidar_buffer) - 1
      BY <1>11
    <3>3. received' = received /\ received \in Nat BY <1>1, <1>5
    <3> QED BY <1>12, <3>1, <3>2, <3>3
  <2>3. Len(lidar_buffer') <= received' BY <1>1, <1>5, <1>11, <1>12, <2>1
  <2> QED BY <1>6, <2>2, <2>3, Zenon DEF Numbered
<1>18. Ordered'
  <2> SUFFICES ASSUME loops = 0 PROVE Ordered'
    BY <1>5 DEF Ordered
  <2>1. 1 \in 1..Len(lidar_buffer) BY <1>1, <1>12
  <2>2. StampOf(p.lidar) <= last_timestamp_lidar /\ p.end <= Reach(p.lidar)
    BY <1>1, <1>3, <2>1 DEF Ordered
  <2>3. (StampOf(Measures.lidar) <= last_timestamp_lidar /\ Measures.end <= Reach(Measures.lidar))'
    BY <1>5, <1>8, <2>2 DEF StampOf, Reach, Break
  <2>4. \A i \in 1..Len(lidar_buffer') : StampOf(lidar_buffer'[i]) <= last_timestamp_lidar
    BY <1>1, <1>11, <1>15 DEF Ordered
  <2>5. \A i, j \in 1..Len(lidar_buffer') : i < j => Before(lidar_buffer'[i], lidar_buffer'[j])
    <3> SUFFICES ASSUME NEW i \in 1..Len(lidar_buffer'), NEW j \in 1..Len(lidar_buffer'), i < j
                 PROVE  Before(lidar_buffer'[i], lidar_buffer'[j])
      OBVIOUS
    <3>1. i + 1 < j + 1 BY <1>11, <1>12
    <3>2. Before(lidar_buffer[i + 1], lidar_buffer[j + 1]) BY <1>1, <1>15, <3>1 DEF Ordered
    <3> QED BY <1>11, <3>2
  <2>6. \A i \in 1..Len(lidar_buffer') : Before(p.lidar, lidar_buffer'[i])
    <3> SUFFICES ASSUME NEW i \in 1..Len(lidar_buffer')
                 PROVE  Before(p.lidar, lidar_buffer'[i])
      OBVIOUS
    <3>1. 1 < i + 1 BY <1>11, <1>12
    <3>2. Before(lidar_buffer[1], lidar_buffer[i + 1]) BY <1>1, <1>15, <2>1, <3>1 DEF Ordered
    <3>3. p.lidar = lidar_buffer[1] BY <1>3, Zenon
    <3> QED BY <1>11, <3>2, <3>3
  <2>7. (\A i \in 1..Len(lidar_buffer) : StampOf(lidar_buffer[i]) <= last_timestamp_lidar)'
    BY <1>5, <2>4 DEF StampOf
  <2>8. (\A i \in 1..Len(lidar_buffer) : Before(Measures.lidar, lidar_buffer[i]))'
    BY <1>5, <1>8, <2>6 DEF Before, Break
  <2>9. (\A i, j \in 1..Len(lidar_buffer) : i < j => Before(lidar_buffer[i], lidar_buffer[j]))'
    BY <1>5, <2>5 DEF Before, Break
  <2>10. received' = 0 => last_timestamp_lidar' = 0 BY <1>1, <1>5 DEF Ordered
  <2> QED BY <2>3, <2>7, <2>8, <2>9, <2>10, Zenon DEF Ordered
<1>19. Sampled'
  <2>1. imu_buffer[Len(imu_buffer)] = last_timestamp_imu BY <1>1 DEF Sampled
  <2>2. ASSUME loops = 0, ~overwritten
        PROVE  imu_buffer' = <<>> => last_timestamp_imu <= Reach(p.lidar)
    <3>1. p.until = p.end /\ p.end <= Reach(p.lidar) BY <1>3, <2>2, Zenon
    <3>2. last_timestamp_imu \in Int /\ Reach(p.lidar) \in Int
      <4>1. last_timestamp_imu \in Int BY <1>1 DEF Typed
      <4>2. p.lidar.start \in Nat BY <1>2 DEF ScanT
      <4>3. ScanTime \in Nat BY <1>1
      <4> QED BY <4>1, <4>2, <4>3 DEF Reach
    <3> QED BY <1>2, <1>10, <2>1, <3>1, <3>2
  <2>3. Reach(Measures.lidar)' = Reach(p.lidar) BY <1>5, <1>8 DEF Reach, Break
  <2>4. loops' = 0 /\ ~overwritten' => (imu_buffer' = <<>> => last_timestamp_imu' <= Reach(Measures.lidar)')
    BY <1>5, <1>6, <2>2, <2>3, Zenon
  <2>5. imu_buffer' # <<>> => imu_buffer'[Len(imu_buffer')] = last_timestamp_imu'
    BY <1>5, <1>10, <2>1
  <2> QED BY <1>6, <2>4, <2>5, Zenon DEF Sampled
<1>20. Added'
  <2>1. imu_need_init_' => feats_undistort' = NoScan'
    BY <1>1, <1>9, Zenon DEF Added, NoScan
  <2>2. ASSUME loops = 0, ~starved'
        PROVE  (/\ \A i, j \in DOMAIN mapped : i < j => mapped[i] < mapped[j]
                /\ \A i \in DOMAIN mapped : mapped[i] <= received - Len(lidar_buffer))'
    <3>1. ~starved BY <1>9, <2>2, Zenon
    <3>2. /\ \A i, j \in DOMAIN mapped : i < j => mapped[i] < mapped[j]
          /\ \A i \in DOMAIN mapped : mapped[i] <= received - Len(lidar_buffer)
      BY <1>1, <2>2, <3>1, Zenon DEF Added
    <3>3. mapped \in Seq(Nat) BY <1>1 DEF Typed
    <3>4. p.lidar.id = received - Len(lidar_buffer) + 1
      <4>1. p.lidar = lidar_buffer[1] BY <1>3, <2>2, Zenon
      <4> QED BY <1>1, <1>12, <2>2, <4>1 DEF Numbered
    <3>5. received' - Len(lidar_buffer') = received - Len(lidar_buffer) + 1
      BY <1>1, <1>5, <1>11, <1>12
    <3> DEFINE left == received - Len(lidar_buffer)
    <3>6. left \in Int BY <1>1, <1>12
    <3>7. \A i \in DOMAIN mapped : mapped[i] \in Nat BY <3>3
    <3> HIDE DEF left
    <3>8. (\A i \in DOMAIN mapped : mapped[i] <= left) /\ p.lidar.id = left + 1
             /\ received' - Len(lidar_buffer') = left + 1
      BY <3>2, <3>4, <3>5 DEF left
    <3>9. CASE mapped' = mapped
      BY <3>2, <3>9, <3>6, <3>7, <3>8
    <3>10. CASE mapped' = Append(mapped, p.lidar.id)
      <4>1. /\ DOMAIN mapped' = 1..(Len(mapped) + 1) /\ DOMAIN mapped = 1..Len(mapped)
            /\ \A i \in 1..Len(mapped) : mapped'[i] = mapped[i]
            /\ mapped'[Len(mapped) + 1] = left + 1
            /\ Len(mapped) \in Nat
        BY <3>3, <3>10, <3>8
      <4>2. \A i \in DOMAIN mapped' : i \in DOMAIN mapped \/ i = Len(mapped) + 1 BY <4>1
      <4>3. \A i \in DOMAIN mapped' : mapped'[i] <= left + 1
        BY <3>6, <3>7, <3>8, <4>1, <4>2, SMTT(20)
      <4>4. \A i, j \in DOMAIN mapped' : i < j => mapped'[i] < mapped'[j]
        <5> SUFFICES ASSUME NEW i \in DOMAIN mapped', NEW j \in DOMAIN mapped', i < j
                     PROVE  mapped'[i] < mapped'[j]
          OBVIOUS
        <5>1. i \in DOMAIN mapped /\ mapped'[i] = mapped[i] BY <4>1
        <5>2. CASE j \in DOMAIN mapped
          <6>1. mapped[i] < mapped[j] BY <3>2, <5>1, <5>2
          <6> QED BY <4>1, <5>1, <5>2, <6>1
        <5>3. CASE j = Len(mapped) + 1
          <6>1. mapped[i] <= left /\ mapped[i] \in Nat BY <3>7, <3>8, <5>1
          <6>2. mapped'[j] = left + 1 BY <4>1, <5>3
          <6> QED BY <3>6, <5>1, <6>1, <6>2
        <5> QED BY <4>2, <5>2, <5>3
      <4> QED BY <3>8, <4>3, <4>4
    <3> QED BY <1>9, <2>2, <3>9, <3>10, Zenon
  <2> QED BY <1>5, <2>1, <2>2, Zenon DEF Added
<1> QED BY <1>13, <1>14, <1>16, <1>17, <1>18, <1>19, <1>20 DEF SyncInv
-----------------------------------------------------------------------------
(* Theorems *)

LEMMA NextSync == SyncAssumption /\ SyncInv /\ [LioNext]_lioVars => SyncInv'
<1> SUFFICES ASSUME SyncAssumption, SyncInv, [LioNext]_lioVars PROVE SyncInv'
  OBVIOUS
<1>1. CASE Callback
  <2>1. ASSUME NEW b \in 1..(MaxTime - ScanTime), NEW kept \in [1..Parts -> Kept],
               IF received = 0 THEN b = 1 ELSE Follows(b, LastStart, ScanTime),
               PclCbk(b, kept)
        PROVE  SyncInv'
    BY <2>1, PclSync
  <2>2. ASSUME NEW t \in 1..MaxTime, ImuCbk(t)
        PROVE  SyncInv'
    BY <2>2, ImuSync
  <2> QED BY <1>1, <2>1, <2>2 DEF Callback
<1>2. CASE SyncWait BY <1>2, WaitSync
<1>3. CASE SyncDone BY <1>3, DoneSync
<1>4. CASE UNCHANGED lioVars
  <2>1. /\ lidar_type' = lidar_type /\ lidar_buffer' = lidar_buffer /\ time_buffer' = time_buffer
        /\ last_timestamp_lidar' = last_timestamp_lidar /\ received' = received
        /\ imu_buffer' = imu_buffer /\ last_timestamp_imu' = last_timestamp_imu
        /\ Measures' = Measures /\ scan_num' = scan_num /\ scan_sum' = scan_sum
        /\ lidar_end_time' = lidar_end_time /\ loops' = loops
        /\ feats_undistort' = feats_undistort /\ mapped' = mapped
        /\ lidar_pushed' = lidar_pushed /\ imu_need_init_' = imu_need_init_
        /\ starved' = starved /\ overwritten' = overwritten
    BY <1>4, Zenon DEF lioVars, lidarVars, imuVars, syncVars, procVars
  <2>2. Typed' /\ Averaged' BY <2>1, Zenon DEF SyncInv, Typed, Averaged
  <2>3. Timed' BY <2>1, Zenon DEF SyncInv, Timed, StampOf, BegOf
  <2>4. Numbered' /\ Added' BY <2>1, Zenon DEF SyncInv, Numbered, Added, NoScan
  <2>5. Ordered' BY <2>1, Zenon DEF SyncInv, Ordered, StampOf, Before, Reach, Break, NoScan
  <2>6. Sampled' BY <2>1, Zenon DEF SyncInv, Sampled, Reach, Break
  <2> QED BY <2>2, <2>3, <2>4, <2>5, <2>6 DEF SyncInv
<1> QED BY <1>1, <1>2, <1>3, <1>4 DEF LioNext, Loop

\* The buffers of laserMapping and what sync_packages keeps between its calls stay in
\* step: the inductive invariant of the lidar and IMU callbacks and the main loop.
THEOREM SyncInvariance == LioSpec => []SyncInv
<1>1. LioInit => SyncInv BY SyncAssumption, InitSync
<1>2. SyncInv /\ [LioNext]_lioVars => SyncInv' BY SyncAssumption, NextSync
<1> QED BY <1>1, <1>2, PTL DEF LioSpec

\* standard_pcl_cbk and sync_packages keep lidar_buffer and time_buffer together:
\* sync_packages never takes the front of an empty time_buffer, and until the stamps
\* jump back a scan begins at the time of its own message.
THEOREM ScansTimed == LioSpec => []ScanTimes
<1>1. SyncInv => ScanTimes
  <2> SUFFICES ASSUME SyncInv PROVE ScanTimes
    OBVIOUS
  <2>1. Typed /\ Timed BY DEF SyncInv
  <2>2. TimeForEveryScan
    BY <2>1 DEF Typed, Timed, TimeForEveryScan
  <2>3. ScanTimedForward
    BY <2>1 DEF Timed, ScanTimedForward, BegOf
  <2> QED BY <2>2, <2>3 DEF ScanTimes
<1> QED BY <1>1, SyncInvariance, PTL

\* The main loop adds no scan to the map twice, and none before an earlier one,
\* unless Process returned without samples or the stamps jumped back.
THEOREM ScansMappedOnce == LioSpec => []MappedOnce
<1>1. SyncInv => MappedOnce
  BY Zenon DEF SyncInv, Added, MappedOnce
<1> QED BY <1>1, SyncInvariance, PTL

\* Nothing keeps sync_packages from taking the front scan once a sample has come two
\* scan times after its start: there is a sample, and it is late enough, however
\* far the mean of the scan times is from the true one.
THEOREM NoScanWaits == LioSpec => []ScansServed
<1>1. SyncInv => ScansServed
  <2> SUFFICES ASSUME SyncInv, lidar_buffer # <<>>, loops = 0, ~overwritten,
                      last_timestamp_imu >= Head(lidar_buffer).start + 2 * ScanTime
               PROVE  imu_buffer # <<>> /\ last_timestamp_imu >= Pushed.until
    BY Zenon DEF ScansServed
  <2> DEFINE s == lidar_buffer[1]
             m == Measures.lidar
  <2>1. Typed /\ Ordered /\ Sampled /\ lidar_buffer \in Seq(ScanT)
    BY DEF SyncInv, Typed
  <2>2. Head(lidar_buffer) = s /\ 1 \in 1..Len(lidar_buffer) /\ s \in ScanT
    BY <2>1
  <2>3. /\ s.start \in Nat /\ m.start \in Nat /\ ScanTime \in Nat \ {0}
        /\ last_timestamp_imu \in Int
    BY <2>1, <2>2, SyncAssumption DEF Typed, ScanT, SyncAssumption
  <2>4. last_timestamp_imu >= s.start + 2 * ScanTime BY <2>2
  <2>5. imu_buffer # <<>>
    <3> SUFFICES ASSUME imu_buffer = <<>> PROVE FALSE
      OBVIOUS
    <3>1. ~lidar_pushed BY <2>1, Zenon DEF Sampled
    <3>2. last_timestamp_imu <= Reach(m) BY <2>1, Zenon DEF Sampled
    <3>3. Before(m, s) BY <2>1, <2>2, <3>1 DEF Ordered
    <3> HIDE DEF s, m
    <3> QED BY <2>3, <2>4, <3>2, <3>3 DEF Before, Reach, Break
  <2>6. CanPush BY <2>5 DEF CanPush
  <2> DEFINE p == Pushed
  <2>7. /\ p.lidar = s /\ p.end <= Reach(p.lidar) /\ p.until = p.end
    BY <2>6, SyncAssumption, PushedFacts
  <2>8. p.until \in Int BY <2>6, SyncAssumption, PushedFacts
  <2> HIDE DEF p, s
  <2>9. last_timestamp_imu >= p.until
    <3>1. Reach(p.lidar) = Reach(s) BY <2>7
    <3>2. p.until <= Reach(s) BY <2>7, <3>1
    <3> QED BY <2>3, <2>4, <2>8, <3>2 DEF Reach, Break
  <2> QED BY <2>5, <2>9 DEF p
<1> QED BY <1>1, SyncInvariance, PTL

-----------------------------------------------------------------------------
(* The time of the filter's state *)

\* The samples queued are in order, and later than the time the state was moved to:
\* the end of the last scan, or before the first one the last sample of IMU_init.
Clocked ==
  ~overwritten /\ loops = 0 /\ ~wild =>
    /\ clock \in Nat /\ last_imu_ \in Nat /\ last_lidar_end_time_ \in Nat
    /\ last_imu_ <= clock /\ last_lidar_end_time_ <= clock
    /\ feats_undistort.id = 0 => clock = last_imu_ /\ last_lidar_end_time_ = 0
    /\ feats_undistort.id > 0 => clock = last_lidar_end_time_
    /\ clock = 0 \/ clock <= last_timestamp_imu
    /\ \A i \in 1..Len(imu_buffer) : clock < imu_buffer[i] /\ imu_buffer[i] <= last_timestamp_imu
    /\ \A i, j \in 1..Len(imu_buffer) : i < j => imu_buffer[i] < imu_buffer[j]

\* All samples together move the clock to the last one, whether the end of the last
\* scan is later than the last sample of that scan or not.
LEMMA ClockMoved ==
  ASSUME NEW imu \in Seq(Int), imu # <<>>,
         clock \in Nat, last_imu_ \in Nat, last_lidar_end_time_ \in Nat,
         last_imu_ <= clock, last_lidar_end_time_ <= clock,
         clock = last_lidar_end_time_ \/ (clock = last_imu_ /\ last_lidar_end_time_ = 0),
         \A i \in 1..Len(imu) : clock < imu[i],
         \A i, j \in 1..Len(imu) : i < j => imu[i] < imu[j],
         NEW moved,
         moved = [i \in 1..Len(imu) |-> Predicted((<<last_imu_>> \o imu)[i], (<<last_imu_>> \o imu)[i + 1])]
  PROVE  SumFunction(moved) = Last(imu) - clock
<1> DEFINE n == Len(imu)
           v == <<last_imu_>> \o imu
           p == [i \in 0..n |-> IF i = 0 THEN clock ELSE imu[i]]
<1>1. n \in Nat /\ n >= 1 BY EmptySeq
<1>2. /\ v[1] = last_imu_
      /\ \A i \in 1..n : v[i + 1] = imu[i]
  OBVIOUS
<1>3. /\ p \in [0..n -> Int] /\ p[0] = clock
      /\ \A i \in 1..n : p[i] = imu[i] /\ imu[i] \in Int
  BY <1>1
<1>4. \A i \in 1..n : Predicted(v[i], v[i + 1]) = p[i] - p[i - 1]
  <2> HIDE DEF n, v, p
  <2> TAKE i \in 1..n
  <2>1. CASE i = 1
    <3>1. p[i - 1] = clock /\ p[i] = imu[1] /\ v[i] = last_imu_ /\ v[i + 1] = imu[1]
      BY <1>1, <1>2, <1>3, <2>1
    <3>2. clock < imu[1] /\ imu[1] \in Int
      <4>1. 1 \in 1..n BY <1>1
      <4> QED BY <4>1, <1>3 DEF n
    <3> HIDE DEF n
    <3>3. Predicted(last_imu_, imu[1]) = imu[1] - clock
      BY <3>2 DEF Predicted
    <3> QED BY <3>1, <3>3, Zenon
  <2>2. CASE i # 1
    <3>1. i - 1 \in 1..n /\ (i - 1) + 1 = i BY <1>1, <2>2
    <3>2. /\ p[i - 1] = imu[i - 1] /\ p[i] = imu[i]
          /\ v[i] = imu[i - 1] /\ v[i + 1] = imu[i]
      <4>1. v[(i - 1) + 1] = imu[i - 1] BY <1>2, <3>1, Zenon
      <4> QED BY <1>2, <1>3, <3>1, <4>1
    <3>3. imu[i] \in Int /\ imu[i - 1] \in Int BY <1>3, <3>1
    <3>4. clock < imu[i - 1] /\ clock < imu[i] BY <3>1 DEF n
    <3>5. Predicted(imu[i - 1], imu[i]) = imu[i] - imu[i - 1]
      <4> HIDE DEF n
      <4> QED BY <3>3, <3>4 DEF Predicted
    <3> QED BY <3>2, <3>5, Zenon
  <2> QED BY <2>1, <2>2
<1>5. /\ moved \in [1..n -> Int]
      /\ \A i \in 1..n : p[i] = p[i - 1] + moved[i]
  <2>1. DOMAIN moved = 1..n /\ \A i \in 1..n : moved[i] = p[i] - p[i - 1]
    BY <1>4, Zenon
  <2>2. moved = [i \in 1..n |-> moved[i]]
    BY Zenon
  <2>3. \A i \in 1..n : p[i] \in Int /\ p[i - 1] \in Int
    <3> HIDE DEF n, p
    <3> TAKE i \in 1..n
    <3>1. i \in 0..n /\ i - 1 \in 0..n BY <1>1
    <3> QED BY <1>3, <3>1
  <2>4. \A i \in 1..n : moved[i] \in Int /\ p[i] = p[i - 1] + moved[i]
    <3> HIDE DEF p
    <3> QED BY <2>1, <2>3
  <2> QED BY <2>2, <2>4, Zenon
<1>6. SumFunction(moved) = p[n] - p[0]
  <2> HIDE DEF n, p
  <2>1. n \in Nat /\ p \in [0..n -> Int] BY <1>1, <1>3
  <2> QED BY <2>1, <1>5, SumSteps, Zenon
<1>7. p[n] = Last(imu) /\ p[0] = clock
  BY <1>1, <1>3 DEF Last
<1> QED BY <1>6, <1>7, Zenon

SplitAt(n, end, imu, rest) ==
  /\ rest \in Seq(Int) /\ imu \in Seq(Int) /\ Len(imu) = n
  /\ imu # <<>> <=> n > 0
  /\ \A i \in 1..Len(rest) : n + i \in 1..Len(imu_buffer) /\ rest[i] = imu_buffer[n + i]
  /\ \A i \in 1..n : i \in 1..Len(imu_buffer) /\ imu[i] = imu_buffer[i] /\ imu[i] <= end
  /\ n > 0 => /\ Last(imu) = imu_buffer[n]
              /\ \A i \in 1..Len(rest) : end < rest[i] /\ imu_buffer[n] < rest[i]

\* The samples taken for a scan are no later than its end, and if there is one the
\* rest is later.
LEMMA SamplesSplit ==
  ASSUME imu_buffer \in Seq(Int), NEW n \in 0..Len(imu_buffer), NEW end \in Int,
         Cover(n, end, end),
         \A i, j \in 1..Len(imu_buffer) : i < j => imu_buffer[i] < imu_buffer[j],
         NEW rest, rest = SubSeq(imu_buffer, n + 1, Len(imu_buffer)),
         NEW imu, imu = SubSeq(imu_buffer, 1, n)
  PROVE  SplitAt(n, end, imu, rest)
<1>1. Len(imu_buffer) \in Nat /\ n \in Nat /\ n <= Len(imu_buffer)
  OBVIOUS
<1>2. /\ imu \in Seq(Int) /\ Len(imu) = n
      /\ \A i \in 1..n : i \in 1..Len(imu_buffer) /\ imu[i] = imu_buffer[i]
  BY <1>1
<1>3. /\ rest \in Seq(Int) /\ Len(rest) = Len(imu_buffer) - n
      /\ \A i \in 1..Len(rest) : n + i \in 1..Len(imu_buffer) /\ rest[i] = imu_buffer[n + i]
  BY <1>1
<1>4. \A i \in 1..n : imu_buffer[i] <= end
  BY Zenon DEF Cover
<1>5. imu # <<>> <=> n > 0
  <2>1. Len(<<>>) = 0 OBVIOUS
  <2>2. imu # <<>> => Len(imu) \in Nat \ {0} BY <1>2, EmptySeq, Zenon
  <2>3. 0 \notin Nat \ {0} OBVIOUS
  <2>4. imu = <<>> <=> n = 0 BY <1>2, <2>1, <2>2, <2>3, Zenon
  <2>5. n = 0 <=> ~(n > 0) BY <1>1
  <2> QED BY <2>4, <2>5, Zenon
<1>6. ASSUME n > 0 PROVE Last(imu) = imu_buffer[n]
  BY <1>1, <1>2, <1>6 DEF Last
<1>7. ASSUME n > 0, NEW i \in 1..Len(rest)
      PROVE  end < rest[i] /\ imu_buffer[n] < rest[i]
  <2>1. /\ n \in 1..Len(imu_buffer) /\ n + 1 \in 1..Len(imu_buffer)
        /\ n + i \in 1..Len(imu_buffer) /\ n < Len(imu_buffer)
        /\ n + 1 # 1 /\ (n + 1) - 1 = n /\ n < n + 1 /\ n < n + i
        /\ n + 1 = n + i \/ n + 1 < n + i
    BY <1>1, <1>3, <1>7
  <2>2. /\ imu_buffer[n] \in Int /\ imu_buffer[n + 1] \in Int /\ imu_buffer[n + i] \in Int
    BY <2>1
  <2>3. imu_buffer[n] < imu_buffer[n + 1] /\ imu_buffer[n] < imu_buffer[n + i]
    BY <2>1
  <2>4. imu_buffer[n + 1] = imu_buffer[n + i] \/ imu_buffer[n + 1] < imu_buffer[n + i]
    BY <2>1
  <2>5. ~(imu_buffer[n + 1] <= end /\ imu_buffer[n] < end)
    BY <2>1, Zenon DEF Cover
  <2>6. imu_buffer[n] <= end BY <1>1, <1>4, <2>1
  <2>7. rest[i] = imu_buffer[n + i] BY <1>3
  <2> QED BY <2>2, <2>3, <2>4, <2>5, <2>6, <2>7, SMTT(20)
<1> QED BY <1>2, <1>3, <1>4, <1>5, <1>6, <1>7, Zenon DEF SplitAt

\* A step that leaves the filter and the samples alone, and does not undo what was
\* overwritten or jumped back.
LEMMA ClockKept ==
  ASSUME Clocked, wild' = wild, overwritten => overwritten', loops' = 0 => loops = 0,
         UNCHANGED <<clock, last_imu_, last_lidar_end_time_, feats_undistort, imu_buffer,
                     last_timestamp_imu>>
  PROVE  Clocked'
BY Zenon DEF Clocked

LEMMA ImuClock ==
  ASSUME SyncInv, Clocked, NEW t \in 1..MaxTime,
         Follows(t, last_timestamp_imu, 1), ImuCbk(t)
  PROVE  Clocked'
<1>1. SUFFICES ASSUME ~overwritten', loops' = 0, ~wild' PROVE Clocked'
  BY Zenon DEF Clocked
<1>2. /\ loops \in Nat /\ last_timestamp_imu \in Int /\ imu_buffer \in Seq(Int) /\ t \in Int
      /\ 1 <= t
  BY DEF SyncInv, Typed
<1>3. /\ loops' = IF t < last_timestamp_imu THEN loops + 1 ELSE loops
      /\ imu_buffer' = Append(IF t < last_timestamp_imu THEN <<>> ELSE imu_buffer, t)
      /\ last_timestamp_imu' = t
      /\ clock' = clock /\ last_imu_' = last_imu_ /\ last_lidar_end_time_' = last_lidar_end_time_
      /\ feats_undistort' = feats_undistort /\ overwritten' = overwritten /\ wild' = wild
  BY Zenon DEF ImuCbk, procVars
<1>4. ~(t < last_timestamp_imu) /\ loops = 0 BY <1>1, <1>2, <1>3
<1>5. last_timestamp_imu < t BY <1>2, <1>4 DEF Follows
<1>6. imu_buffer' = Append(imu_buffer, t) BY <1>3, <1>4, Zenon
<1>7. /\ clock \in Nat /\ last_imu_ \in Nat /\ last_lidar_end_time_ \in Nat
      /\ last_imu_ <= clock /\ last_lidar_end_time_ <= clock
      /\ feats_undistort.id = 0 => clock = last_imu_ /\ last_lidar_end_time_ = 0
      /\ feats_undistort.id > 0 => clock = last_lidar_end_time_
      /\ clock = 0 \/ clock <= last_timestamp_imu
      /\ \A i \in 1..Len(imu_buffer) : clock < imu_buffer[i] /\ imu_buffer[i] <= last_timestamp_imu
      /\ \A i, j \in 1..Len(imu_buffer) : i < j => imu_buffer[i] < imu_buffer[j]
  BY <1>1, <1>3, <1>4, Zenon DEF Clocked
<1> DEFINE b == Append(imu_buffer, t)
           n == Len(imu_buffer)
<1>8. /\ n \in Nat /\ Len(b) = n + 1 /\ b[n + 1] = t
      /\ \A i \in 1..n : b[i] = imu_buffer[i] /\ imu_buffer[i] \in Int
  BY <1>2
<1>9. clock < t /\ clock <= t
  BY <1>2, <1>5, <1>7
<1>10. \A i \in 1..n : clock < b[i] /\ b[i] < t
  <2> TAKE i \in 1..n
  <2>1. clock < imu_buffer[i] /\ imu_buffer[i] <= last_timestamp_imu BY <1>7
  <2>2. b[i] = imu_buffer[i] /\ imu_buffer[i] \in Int BY <1>8
  <2> HIDE DEF b
  <2> QED BY <1>2, <1>5, <2>1, <2>2
<1>11. \A i, j \in 1..n : i < j => b[i] < b[j]
  BY <1>7, <1>8, Zenon
<1> HIDE DEF b, n
<1>12. \A i \in 1..Len(b) : clock < b[i] /\ b[i] <= t
  <2> TAKE i \in 1..Len(b)
  <2>1. i \in 1..n \/ i = n + 1 BY <1>8
  <2>2. CASE i \in 1..n
    <3>1. b[i] \in Int BY <1>8, <2>2, Zenon
    <3> QED BY <1>2, <1>10, <2>2, <3>1
  <2>3. CASE i = n + 1 BY <1>2, <1>8, <1>9, <2>3
  <2> QED BY <2>1, <2>2, <2>3
<1>13. \A i, j \in 1..Len(b) : i < j => b[i] < b[j]
  <2> SUFFICES ASSUME NEW i \in 1..Len(b), NEW j \in 1..Len(b), i < j PROVE b[i] < b[j] OBVIOUS
  <2>1. i \in 1..n /\ (j \in 1..n \/ j = n + 1) BY <1>8
  <2> QED BY <1>8, <1>10, <1>11, <2>1
<1>14. imu_buffer' = b BY <1>6, Zenon DEF b
<1> QED BY <1>3, <1>7, <1>9, <1>12, <1>13, <1>14, Zenon DEF Clocked

\* sync_packages is done with a scan: the samples it takes move the clock to the last
\* of them, and the last prediction to the end of the scan.
LEMMA DoneClock ==
  ASSUME SyncAssumption, SyncInv, Clocked, SyncDone
  PROVE  Clocked'
<1>1. SUFFICES ASSUME ~overwritten', loops' = 0, ~wild' PROVE Clocked'
  BY Zenon DEF Clocked
<1>2. loops = 0 /\ ~overwritten /\ ~wild /\ last_timestamp_imu' = last_timestamp_imu
  BY <1>1, Zenon DEF SyncDone
<1>3. /\ clock \in Nat /\ last_imu_ \in Nat /\ last_lidar_end_time_ \in Nat
      /\ last_imu_ <= clock /\ last_lidar_end_time_ <= clock
      /\ feats_undistort.id = 0 => clock = last_imu_ /\ last_lidar_end_time_ = 0
      /\ feats_undistort.id > 0 => clock = last_lidar_end_time_
      /\ clock = 0 \/ clock <= last_timestamp_imu
      /\ \A i \in 1..Len(imu_buffer) : clock < imu_buffer[i] /\ imu_buffer[i] <= last_timestamp_imu
      /\ \A i, j \in 1..Len(imu_buffer) : i < j => imu_buffer[i] < imu_buffer[j]
  BY <1>2, Zenon DEF Clocked
<1> DEFINE p == Pushed
<1>4. /\ CanPush /\ last_timestamp_imu >= p.until /\ Measures'.end = p.end /\ Measures'.lidar = p.lidar
  <2>1. Measures' = [lidar |-> Pushed.lidar, beg |-> Pushed.beg, end |-> Pushed.end]
    BY Zenon DEF SyncDone
  <2>2. CanPush /\ last_timestamp_imu >= p.until BY Zenon DEF SyncDone
  <2> HIDE DEF p
  <2>3. Measures' = [lidar |-> p.lidar, beg |-> p.beg, end |-> p.end] BY <2>1, Zenon DEF p
  <2> QED BY <2>2, <2>3
<1> DEFINE end == p.end
<1>5. /\ p.until = end /\ end \in Int /\ p.lidar = lidar_buffer[1] /\ p.lidar \in ScanT
  BY <1>2, <1>4, PushedFacts
<1>6. p.lidar.id > 0 /\ p.lidar.id # 0 /\ feats_undistort.id \in Nat
  <2>1. /\ Len(lidar_buffer) <= received /\ lidar_buffer \in Seq(ScanT) /\ received \in Nat
        /\ lidar_buffer[1].id = received - Len(lidar_buffer) + 1 \/ lidar_buffer = <<>>
    BY <1>2 DEF SyncInv, Typed, Numbered
  <2>2. lidar_buffer # <<>> BY <1>4 DEF CanPush
  <2>3. lidar_buffer[1].id > 0 BY <2>1, <2>2
  <2>4. feats_undistort.id \in Nat BY DEF SyncInv, Typed, ScanT
  <2> HIDE DEF p
  <2> QED BY <1>5, <2>3, <2>4
<1> HIDE DEF p
<1>7. /\ imu_buffer \in Seq(Int) /\ last_timestamp_imu \in Int /\ end <= last_timestamp_imu
      /\ (imu_need_init_ => feats_undistort.id = 0)
  <2>1. imu_need_init_ => feats_undistort = NoScan BY DEF SyncInv, Added
  <2>2. NoScan.id = 0 BY DEF NoScan
  <2>3. imu_buffer \in Seq(Int) /\ last_timestamp_imu \in Int BY DEF SyncInv, Typed
  <2> QED BY <1>4, <1>5, <2>1, <2>2, <2>3
<1>8. PICK n \in 0..Len(imu_buffer) :
        /\ Cover(n, end, end)
        /\ imu_buffer' = SubSeq(imu_buffer, n + 1, Len(imu_buffer))
        /\ IF flg_first_scan
             THEN UNCHANGED <<init_iter_num, imu_need_init_, last_imu_, last_lidar_end_time_,
                              feats_undistort, clock, mapped, starved>>
             ELSE Process(SubSeq(imu_buffer, 1, n)) /\ mapped' = Mapped
  <2>1. PICK n \in 0..Len(imu_buffer) :
        /\ Cover(n, Pushed.end, Pushed.until)
        /\ imu_buffer' = SubSeq(imu_buffer, n + 1, Len(imu_buffer))
        /\ IF flg_first_scan
             THEN UNCHANGED <<init_iter_num, imu_need_init_, last_imu_, last_lidar_end_time_,
                              feats_undistort, clock, mapped, starved>>
             ELSE Process(SubSeq(imu_buffer, 1, n)) /\ mapped' = Mapped
    BY Zenon DEF SyncDone
  <2>2. Pushed.end = end /\ Pushed.until = end BY <1>5, Zenon DEF p
  <2> QED BY <2>1, <2>2, Zenon
<1> DEFINE imu == SubSeq(imu_buffer, 1, n)
           rest == SubSeq(imu_buffer, n + 1, Len(imu_buffer))
<1> HIDE DEF end
<1>9. /\ rest \in Seq(Int) /\ imu \in Seq(Int) /\ Len(imu) = n
      /\ imu # <<>> <=> n > 0
      /\ \A i \in 1..Len(rest) : n + i \in 1..Len(imu_buffer) /\ rest[i] = imu_buffer[n + i]
      /\ \A i \in 1..n : i \in 1..Len(imu_buffer) /\ imu[i] = imu_buffer[i] /\ imu[i] <= end
      /\ n > 0 => /\ Last(imu) = imu_buffer[n]
                  /\ \A i \in 1..Len(rest) : end < rest[i] /\ imu_buffer[n] < rest[i]
  <2>1. imu = SubSeq(imu_buffer, 1, n) /\ rest = SubSeq(imu_buffer, n + 1, Len(imu_buffer))
    BY Zenon
  <2> HIDE DEF imu, rest
  <2>2. imu_buffer \in Seq(Int) /\ n \in 0..Len(imu_buffer) /\ end \in Int /\ Cover(n, end, end)
    BY <1>5, <1>7, <1>8, Zenon
  <2>3. \A i, j \in 1..Len(imu_buffer) : i < j => imu_buffer[i] < imu_buffer[j]
    BY <1>3, Zenon
  <2>4. SplitAt(n, end, imu, rest) BY <2>1, <2>2, <2>3, SamplesSplit, Zenon
  <2> QED BY <2>4, Zenon DEF SplitAt
<1>10. imu_buffer' = rest BY <1>8
<1> HIDE DEF imu, rest
<1>11. /\ \A i \in 1..Len(rest) : clock < rest[i] /\ rest[i] <= last_timestamp_imu
       /\ \A i, j \in 1..Len(rest) : i < j => rest[i] < rest[j]
  <2>1. \A i \in 1..Len(rest) : clock < rest[i] /\ rest[i] <= last_timestamp_imu
    BY <1>3, <1>9, Zenon
  <2>2. \A i, j \in 1..Len(rest) : i < j => n + i < n + j
    OBVIOUS
  <2>3. \A i, j \in 1..Len(rest) : i < j => rest[i] < rest[j]
    BY <1>3, <1>9, <2>2, Zenon
  <2> QED BY <2>1, <2>3
<1>12. CASE UNCHANGED <<clock, last_imu_, last_lidar_end_time_, feats_undistort>>
  BY <1>2, <1>3, <1>10, <1>11, <1>12, Zenon DEF Clocked
<1>13. ASSUME ~flg_first_scan, imu # <<>>
       PROVE  /\ n > 0 /\ n \in 1..n /\ n \in 1..Len(imu_buffer)
              /\ imu_buffer[n] \in Int /\ clock < imu_buffer[n]
              /\ Last(imu) = imu_buffer[n] /\ imu_buffer[n] <= end /\ imu_buffer[n] <= last_timestamp_imu
              /\ \A i \in 1..Len(rest) : end < rest[i] /\ imu_buffer[n] < rest[i]
              /\ Process(imu)
  <2>1. n > 0 /\ n \in 1..n BY <1>9, <1>13
  <2>2. n \in 1..Len(imu_buffer) /\ imu[n] = imu_buffer[n] /\ imu[n] <= end BY <1>9, <2>1
  <2>3. imu_buffer[n] \in Int BY <1>7, <2>2
  <2>4. clock < imu_buffer[n] /\ imu_buffer[n] <= last_timestamp_imu BY <1>3, <2>2
  <2>5. Process(imu) BY <1>8, <1>13, Zenon DEF imu
  <2> QED BY <1>9, <2>1, <2>2, <2>3, <2>4, <2>5, Zenon
<1>14. ASSUME ~flg_first_scan, imu # <<>>, imu_need_init_, ImuInit(imu)
       PROVE  Clocked'
  <2> DEFINE e == imu_buffer[n]
  <2>1. /\ e \in Int /\ clock < e /\ Last(imu) = e /\ e <= last_timestamp_imu
        /\ \A i \in 1..Len(rest) : e < rest[i]
    BY <1>13, <1>14
  <2>2. /\ clock' = Last(imu) /\ last_imu_' = Last(imu)
        /\ last_lidar_end_time_' = last_lidar_end_time_ /\ feats_undistort' = feats_undistort
    BY <1>14, Zenon DEF ImuInit
  <2>3. clock' = e /\ last_imu_' = e BY <2>1, <2>2, Zenon
  <2> HIDE DEF e
  <2>4. e \in Nat /\ e <= e /\ 0 <= e BY <1>3, <2>1
  <2>5. feats_undistort.id = 0 /\ last_lidar_end_time_ = 0 /\ ~(0 > 0)
    BY <1>3, <1>7, <1>14
  <2> QED BY <1>2, <1>3, <1>10, <1>11, <2>1, <2>2, <2>3, <2>4, <2>5, Zenon DEF Clocked
<1>15. ASSUME ~flg_first_scan, imu # <<>>, UndistortPcl(imu)
       PROVE  Clocked'
  <2> DEFINE moved == [i \in 1..Len(imu) |-> Predicted((<<last_imu_>> \o imu)[i], (<<last_imu_>> \o imu)[i + 1])]
             e == imu_buffer[n]
  <2>1. /\ e \in Int /\ clock < e /\ Last(imu) = e /\ e <= end
        /\ \A i \in 1..Len(rest) : end < rest[i]
    BY <1>13, <1>15
  <2>2. /\ clock' = clock + SumFunction(moved) + ToFrameEnd(Last(imu), end)
        /\ last_imu_' = Last(imu) /\ last_lidar_end_time_' = end
        /\ feats_undistort' = p.lidar
    BY <1>4, <1>15, Zenon DEF UndistortPcl, end
  <2>3. \A i \in 1..Len(imu) : clock < imu[i]
    BY <1>3, <1>9, Zenon
  <2>4. \A i, j \in 1..Len(imu) : i < j => imu[i] < imu[j]
    BY <1>3, <1>9, Zenon
  <2>5. clock = last_lidar_end_time_ \/ (clock = last_imu_ /\ last_lidar_end_time_ = 0)
    BY <1>3, <1>6
  <2>6. SumFunction(moved) = Last(imu) - clock
    <3>1. /\ clock \in Nat /\ last_imu_ \in Nat /\ last_lidar_end_time_ \in Nat
          /\ last_imu_ <= clock /\ last_lidar_end_time_ <= clock
          /\ imu \in Seq(Int) /\ imu # <<>>
      BY <1>3, <1>9, <1>15
    <3>2. moved = [i \in 1..Len(imu) |-> Predicted((<<last_imu_>> \o imu)[i], (<<last_imu_>> \o imu)[i + 1])]
      BY Zenon
    <3> HIDE DEF moved
    <3> QED BY <2>3, <2>4, <2>5, <3>1, <3>2, ClockMoved, Zenon
  <2> HIDE DEF moved, e
  <2>7. ToFrameEnd(e, end) = end - e
    BY <1>5, <2>1 DEF ToFrameEnd
  <2>8. clock' = end
    <3>1. SumFunction(moved) = e - clock BY <2>1, <2>6, Zenon
    <3>2. clock' = clock + (e - clock) + (end - e) BY <2>1, <2>2, <2>7, <3>1, Zenon
    <3> QED BY <1>3, <1>5, <2>1, <3>2
  <2>9. last_imu_' = e /\ e \in Nat /\ end \in Nat /\ end <= end
    BY <1>3, <1>5, <2>1, <2>2
  <2>10. ~(p.lidar.id = 0) BY <1>6
  <2> QED BY <1>2, <1>7, <1>10, <1>11, <2>1, <2>2, <2>8, <2>9, <2>10, Zenon DEF Clocked
<1>16. CASE flg_first_scan
  BY <1>8, <1>12, <1>16, Zenon
<1>17. CASE ~flg_first_scan
  <2>1. Process(imu) BY <1>8, <1>17, Zenon DEF imu
  <2> QED BY <1>12, <1>14, <1>15, <1>17, <2>1, Zenon DEF Process
<1> QED BY <1>16, <1>17

LEMMA NextClock == SyncAssumption /\ SyncInv /\ Clocked /\ [LioNext]_lioVars => Clocked'
<1> SUFFICES ASSUME SyncAssumption, SyncInv, Clocked, [LioNext]_lioVars PROVE Clocked'
  OBVIOUS
<1>1. ASSUME NEW b, NEW kept, PclCbk(b, kept) PROVE Clocked'
  <2>1. /\ loops' = loops + 1 \/ loops' = loops
        /\ overwritten => overwritten'
        /\ UNCHANGED <<clock, last_imu_, last_lidar_end_time_, feats_undistort, imu_buffer,
                       last_timestamp_imu, wild>>
    BY <1>1, Zenon DEF PclCbk, imuVars, procVars
  <2>2. loops \in Nat BY DEF SyncInv, Typed
  <2>3. loops' = 0 => loops = 0 BY <2>1, <2>2
  <2> QED BY <2>1, <2>3, ClockKept, Zenon
<1>2. ASSUME NEW t \in 1..MaxTime, Follows(t, last_timestamp_imu, 1), ImuCbk(t) PROVE Clocked'
  BY <1>2, ImuClock
<1>3. CASE SyncWait
  BY <1>3, ClockKept, Zenon DEF SyncWait, imuVars, procVars
<1>4. CASE SyncDone
  BY <1>4, DoneClock
<1>5. CASE UNCHANGED lioVars
  BY <1>5, ClockKept, Zenon DEF lioVars, imuVars, procVars
<1> QED BY <1>1, <1>2, <1>3, <1>4, <1>5, Zenon DEF LioNext, Loop, Callback

\* The state that ImuProcess leaves is at the end of the scan whose points it moved:
\* "calculated the pos and attitude prediction at the frame-end", unless
\* lidar_end_time was overwritten, the stamps jumped back, or the first
\* last_lidar_end_time_ was not 0.
THEOREM StateAtFrameEnd == LioSpec => []AtFrameEndUndisturbed
<1>1. LioInit => Clocked
  <2> SUFFICES ASSUME LioInit, ~wild PROVE Clocked BY Zenon DEF Clocked
  <2>1. /\ clock = 0 /\ last_imu_ = 0 /\ feats_undistort = NoScan /\ imu_buffer = <<>>
        /\ last_lidar_end_time_ = 0 /\ last_timestamp_imu = -1
    BY DEF LioInit
  <2>2. NoScan.id = 0 BY DEF NoScan
  <2> QED BY <2>1, <2>2 DEF Clocked
<1>2. SyncInv /\ Clocked /\ [LioNext]_lioVars => Clocked'
  BY SyncAssumption, NextClock
<1>3. Clocked => AtFrameEndUndisturbed
  BY Zenon DEF Clocked, AtFrameEndUndisturbed, AtFrameEnd
<1> QED BY <1>1, <1>2, <1>3, SyncInvariance, PTL DEF LioSpec

-----------------------------------------------------------------------------
(* IkdRebuild: the inductive invariant *)

\* Where the rebuilding thread is between asking for a rebuild and its end.
Copying == {"waitFlatten", "flatten", "flattened", "unlockFlatten"}
Filling == {"build", "lockDrain", "drain", "run"}
Swapping == {"waitSwap", "swap"}
Rebuilding == Copying \cup Filling \cup Swapping \cup {"dead", "swapped", "clearPtr"}

\* Where it keeps searches out.
Closed == {"flatten", "flattened", "swap", "swapped", "dead"}

\* What the rebuilding thread holds: working_flag_mutex while it copies the tree, while
\* it looks at the log, and from the empty log to the swap; and the two flags.
Held ==
  /\ rpc \in Copying \cup {"drain"} => working
  /\ rpc \in Swapping /\ storage # {} => working
  /\ rpc \in Rebuilding => Rebuild_Ptr /\ rebuild_flag

\* The searches that are in the counter.
Counted == {s \in Searcher : spc[s] = "counted"}

\* The counter is -1 where searches are kept out and their number elsewhere; a search
\* is in the tree that is there now.
Counting ==
  /\ rpc \in Closed <=> search_mutex_counter = -1
  /\ search_mutex_counter = -1 => Counted = {}
  /\ search_mutex_counter # -1 => search_mutex_counter = Cardinality(Counted)
  /\ \A s \in Searcher :
       /\ spc[s] # "off" => mpc = "parallel"
       /\ spc[s] = "counted" => sgen[s] = gen
       /\ spc[s] = "direct" => ~Rebuild_Ptr /\ sgen[s] = gen

\* A log takes one tree to another, operation by operation.
Replayed(from, log, to) ==
  \E h \in [0..Len(log) -> SUBSET Point] :
     /\ h[0] = from /\ h[Len(log)] = to
     /\ \A i \in 1..Len(log) : h[i] = Apply(h[i - 1], log[i])

\* The log takes the copy, or the new tree, to the tree in use.
Logging ==
  missed \/ errors \/
  /\ rpc \in Copying => Rebuild_Logger = <<>>
  /\ rpc \in {"flattened", "unlockFlatten"} => storage = points
  /\ rpc = "build" => Replayed(storage, Rebuild_Logger, points)
  /\ rpc \in {"lockDrain", "drain"} => Replayed(fresh, Rebuild_Logger, points)
  /\ rpc = "run" => Replayed(Apply(fresh, Operation), Rebuild_Logger, points)
  /\ rpc \in Swapping /\ storage # {} => fresh = points

IInv == TypeOK /\ Held /\ Counting /\ Logging

-----------------------------------------------------------------------------
(* Logs *)

LEMMA ApplyType ==
  ASSUME NEW pts \in SUBSET Point, NEW o \in Change PROVE Apply(pts, o) \in SUBSET Point
BY DEF Apply, Change

LEMMA LoggedType == ASSUME NEW o \in Change PROVE Logged(o) \in Seq(Change)
<1>1. [del |-> o.del, add |-> {}] \in Change /\ [del |-> {}, add |-> o.add] \in Change
  BY DEF Change
<1>2. <<>> \in Seq(Change)
  OBVIOUS
<1> DEFINE del == IF o.del = {} THEN <<>> ELSE <<[del |-> o.del, add |-> {}]>>
           add == IF o.add = {} THEN <<>> ELSE <<[del |-> {}, add |-> o.add]>>
<1>3. del \in Seq(Change) /\ add \in Seq(Change)
  BY <1>1, <1>2
<1>4. Logged(o) = del \o add
  BY DEF Logged
<1>5. QED BY <1>3, <1>4, ConcatProperties

\* Nothing is replayed from an empty log.
LEMMA ReplayedNothing ==
  ASSUME NEW from \in SUBSET Point, NEW to
  PROVE  Replayed(from, <<>>, to) <=> from = to
<1>1. Len(<<>>) = 0
  OBVIOUS
<1>2. ASSUME Replayed(from, <<>>, to) PROVE from = to
  BY <1>1, <1>2 DEF Replayed
<1>3. ASSUME from = to PROVE Replayed(from, <<>>, to)
  <2> DEFINE h == [i \in 0..0 |-> from]
  <2>1. h \in [0..Len(<<>>) -> SUBSET Point]
    BY <1>1
  <2>2. h[0] = from /\ h[Len(<<>>)] = to
    BY <1>1, <1>3
  <2>3. \A i \in 1..Len(<<>>) : h[i] = Apply(h[i - 1], <<>>[i])
    BY <1>1
  <2>4. QED BY <2>1, <2>2, <2>3 DEF Replayed
<1>4. QED BY <1>2, <1>3

\* An operation at the end of the log is made on the tree it leads to.
LEMMA ReplayedAppend ==
  ASSUME NEW from \in SUBSET Point, NEW to \in SUBSET Point, NEW log \in Seq(Change),
         NEW o \in Change, Replayed(from, log, to)
  PROVE  Replayed(from, Append(log, o), Apply(to, o))
<1> DEFINE n == Len(log)
           more == Append(log, o)
<1>1. PICK h \in [0..n -> SUBSET Point] :
        /\ h[0] = from /\ h[n] = to
        /\ \A i \in 1..n : h[i] = Apply(h[i - 1], log[i])
  BY DEF Replayed
<1> DEFINE g == [i \in 0..(n + 1) |-> IF i = n + 1 THEN Apply(to, o) ELSE h[i]]
<1>2. /\ n \in Nat /\ Len(more) = n + 1
      /\ \A i \in 1..n : more[i] = log[i]
      /\ more[n + 1] = o
  BY LenProperties, AppendProperties
<1>3. g \in [0..Len(more) -> SUBSET Point]
  <2>1. \A i \in 0..(n + 1) : i # n + 1 => i \in 0..n
    BY <1>2
  <2>2. \A i \in 0..(n + 1) : g[i] \in SUBSET Point
    BY <1>1, <2>1, ApplyType
  <2>3. QED BY <1>2, <2>2
<1>4. g[0] = from /\ g[Len(more)] = Apply(to, o)
  BY <1>1, <1>2
<1>5. \A i \in 1..Len(more) : g[i] = Apply(g[i - 1], more[i])
  <2> SUFFICES ASSUME NEW i \in 1..(n + 1) PROVE g[i] = Apply(g[i - 1], more[i])
    BY <1>2
  <2>1. CASE i = n + 1
    BY <2>1, <1>1, <1>2
  <2>2. CASE i # n + 1
    <3>1. i \in 1..n /\ i - 1 # n + 1 /\ i - 1 \in 0..(n + 1)
      BY <2>2, <1>2
    <3>2. g[i] = h[i] /\ g[i - 1] = h[i - 1]
      BY <2>2, <3>1
    <3>3. QED BY <1>1, <1>2, <3>1, <3>2
  <2>3. QED BY <2>1, <2>2
<1> HIDE DEF g, n, more
<1>6. Replayed(from, more, Apply(to, o))
  BY <1>3, <1>4, <1>5 DEF Replayed
<1>7. QED BY <1>6 DEF more

\* The first operation of the log is made on the tree it starts from.
LEMMA ReplayedHead ==
  ASSUME NEW from \in SUBSET Point, NEW to \in SUBSET Point, NEW log \in Seq(Change),
         log # <<>>, Replayed(from, log, to)
  PROVE  Replayed(Apply(from, Head(log)), Tail(log), to)
<1> DEFINE n == Len(log)
           rest == Tail(log)
<1>1. PICK h \in [0..n -> SUBSET Point] :
        /\ h[0] = from /\ h[n] = to
        /\ \A i \in 1..n : h[i] = Apply(h[i - 1], log[i])
  BY DEF Replayed
<1> DEFINE g == [i \in 0..(n - 1) |-> h[i + 1]]
<1>2. /\ n \in Nat \ {0} /\ Len(rest) = n - 1 /\ Head(log) = log[1]
      /\ \A i \in 1..(n - 1) : rest[i] = log[i + 1]
  BY EmptySeq, LenProperties, HeadTailProperties
<1>3. g \in [0..Len(rest) -> SUBSET Point]
  <2>1. \A i \in 0..(n - 1) : i + 1 \in 0..n
    BY <1>2
  <2>2. QED BY <1>1, <1>2, <2>1
<1>4. g[0] = Apply(from, Head(log)) /\ g[Len(rest)] = to
  BY <1>1, <1>2
<1>5. \A i \in 1..Len(rest) : g[i] = Apply(g[i - 1], rest[i])
  <2> SUFFICES ASSUME NEW i \in 1..(n - 1) PROVE g[i] = Apply(g[i - 1], rest[i])
    BY <1>2
  <2>1. i + 1 \in 1..n /\ i \in 0..(n - 1) /\ i - 1 \in 0..(n - 1) /\ (i + 1) - 1 = i
        /\ (i - 1) + 1 = i
    BY <1>2
  <2>2. g[i] = h[i + 1] /\ g[i - 1] = h[i]
    BY <2>1
  <2>3. QED BY <1>1, <1>2, <2>1, <2>2
<1> HIDE DEF g, n, rest
<1>6. Replayed(Apply(from, Head(log)), rest, to)
  BY <1>3, <1>4, <1>5 DEF Replayed
<1>7. QED BY <1>6 DEF rest

\* What is logged of a call has the effect of the call.
LEMMA ReplayedLogged ==
  ASSUME NEW from \in SUBSET Point, NEW to \in SUBSET Point, NEW log \in Seq(Change),
         NEW o \in Change, Replayed(from, log, to)
  PROVE  /\ log \o Logged(o) \in Seq(Change)
         /\ Replayed(from, log \o Logged(o), Apply(to, o))
<1> DEFINE del == [del |-> o.del, add |-> {}]
           add == [del |-> {}, add |-> o.add]
<1>1. del \in Change /\ add \in Change
  BY DEF Change
<1>2. Apply(Apply(to, del), add) = Apply(to, o)
  BY DEF Apply
<1>3. /\ o.del = {} => Apply(to, del) = to /\ Apply(to, add) = Apply(to, o)
      /\ o.add = {} => Apply(to, del) = Apply(to, o)
  BY DEF Apply
<1>4. Apply(to, del) \in SUBSET Point
  BY <1>1, ApplyType
<1> HIDE DEF del, add
<1>5. CASE o.del = {} /\ o.add = {}
  <2>1. Logged(o) = <<>>
    BY <1>5 DEF Logged
  <2>2. Apply(to, o) = to
    BY <1>3, <1>5
  <2>3. QED BY <2>1, <2>2, ConcatEmptySeq
<1>6. CASE o.del = {} /\ o.add # {}
  <2>1. Logged(o) = <<add>>
    BY <1>6 DEF Logged, add
  <2>2. log \o Logged(o) = Append(log, add)
    BY <1>1, <2>1, AppendIsConcat
  <2>3. QED BY <1>1, <1>3, <1>6, <2>2, ReplayedAppend, AppendProperties
<1>7. CASE o.del # {} /\ o.add = {}
  <2>1. Logged(o) = <<del>>
    <3>1. Logged(o) = <<del>> \o <<>>
      BY <1>7 DEF Logged, del
    <3>2. <<del>> \in Seq(Change)
      BY <1>1
    <3>3. QED BY <3>1, <3>2, ConcatEmptySeq
  <2>2. log \o Logged(o) = Append(log, del)
    BY <1>1, <2>1, AppendIsConcat
  <2>3. QED BY <1>1, <1>3, <1>7, <2>2, ReplayedAppend, AppendProperties
<1>8. CASE o.del # {} /\ o.add # {}
  <2>1. Logged(o) = <<del>> \o <<add>>
    BY <1>8 DEF Logged, del, add
  <2>2. <<del>> \in Seq(Change) /\ <<add>> \in Seq(Change)
    BY <1>1
  <2>3. log \o Logged(o) = (log \o <<del>>) \o <<add>>
    BY <2>1, <2>2, ConcatAssociative
  <2>4. log \o Logged(o) = Append(Append(log, del), add)
    <3>1. Append(log, del) \in Seq(Change) BY <1>1, AppendProperties
    <3>2. Append(log, del) = log \o <<del>> BY <1>1, AppendIsConcat
    <3>3. Append(Append(log, del), add) = Append(log, del) \o <<add>>
      BY <1>1, <3>1, AppendIsConcat
    <3> QED BY <2>3, <3>2, <3>3, Zenon
  <2>5. Append(log, del) \in Seq(Change) /\ Replayed(from, Append(log, del), Apply(to, del))
    BY <1>1, ReplayedAppend, AppendProperties
  <2>6. /\ Append(Append(log, del), add) \in Seq(Change)
        /\ Replayed(from, Append(Append(log, del), add), Apply(Apply(to, del), add))
    BY <1>1, <1>4, <2>5, ReplayedAppend, AppendProperties
  <2>7. QED BY <1>2, <2>4, <2>6
<1>9. QED BY <1>5, <1>6, <1>7, <1>8

-----------------------------------------------------------------------------
(* The types *)

LEMMA SearcherCount == Cardinality(Searcher) \in Nat
BY SearcherAssumption, FS_CardinalityType

LEMMA EmptyChange == None \in Change /\ <<>> \in Seq(Change)
BY DEF Change, None

\* A search that enters, or leaves, makes the number of searches one larger, or smaller.
LEMMA CountedType ==
  /\ IsFiniteSet(Counted) /\ Cardinality(Counted) \in 0..Cardinality(Searcher)
  /\ \A s \in Searcher : s \notin Counted =>
        /\ Cardinality(Counted \cup {s}) = Cardinality(Counted) + 1
        /\ Cardinality(Counted) < Cardinality(Searcher)
  /\ \A s \in Searcher : s \in Counted =>
        /\ Cardinality(Counted \ {s}) = Cardinality(Counted) - 1
        /\ Cardinality(Counted) > 0
<1>1. Counted \in SUBSET Searcher
  BY DEF Counted
<1>2. /\ IsFiniteSet(Counted) /\ Cardinality(Counted) \in 0..Cardinality(Searcher)
  BY <1>1, SearcherAssumption, SearcherCount, FS_Subset, FS_CardinalityType
<1>3. ASSUME NEW s \in Searcher, s \notin Counted
      PROVE  /\ Cardinality(Counted \cup {s}) = Cardinality(Counted) + 1
             /\ Cardinality(Counted) < Cardinality(Searcher)
  <2>1. Cardinality(Counted \cup {s}) = Cardinality(Counted) + 1
    BY <1>2, <1>3, FS_AddElement
  <2>2. Counted \cup {s} \in SUBSET Searcher
    BY <1>1
  <2>3. Cardinality(Counted \cup {s}) <= Cardinality(Searcher)
    BY <2>2, SearcherAssumption, FS_Subset
  <2>4. QED BY <1>2, <2>1, <2>3, SearcherCount
<1>4. ASSUME NEW s \in Searcher, s \in Counted
      PROVE  /\ Cardinality(Counted \ {s}) = Cardinality(Counted) - 1
             /\ Cardinality(Counted) > 0
  <2>1. Cardinality(Counted \ {s}) = Cardinality(Counted) - 1
    BY <1>2, <1>4, FS_RemoveElement
  <2>2. Cardinality(Counted) # 0
    BY <1>2, <1>4, FS_EmptySet
  <2>3. QED BY <1>2, <2>1, <2>2, SearcherCount
<1>5. QED BY <1>2, <1>3, <1>4

LEMMA InitTypes == Init => TypeOK
<1> SUFFICES ASSUME Init PROVE TypeOK
  OBVIOUS
<1>1. spc \in [Searcher -> {"off"}] /\ sgen \in [Searcher -> {0}]
  BY DEF Init
<1>2. sgen \in [Searcher -> 0..gen]
  BY <1>1 DEF Init
<1>3. points \subseteq Point /\ ops \in 0..MaxOps /\ search_mutex_counter \in -1..Cardinality(Searcher)
  BY SearcherCount, PointAssumption DEF Init
<1>4. gen \in Nat /\ freed \in 0..(gen - 1) /\ mgen \in 0..gen
  BY DEF Init
<1>5. Rebuild_Logger \in Seq(Change) /\ Operation \in Change /\ call \in Change
  BY EmptyChange DEF Init
<1>6. spc \in [Searcher -> {"off", "check", "wait", "direct", "counted", "done"}]
  BY <1>1
<1>7. QED BY <1>2, <1>3, <1>4, <1>5, <1>6 DEF Init, TypeOK

LEMMA RebuilderTypes == ASSUME TypeOK, Rebuilder PROVE TypeOK'
<1> USE SearcherCount DEF TypeOK, shared, treeVars, rebuildVars, mainVars, searchVars
<1>1. CASE RebuildPoll
  BY <1>1 DEF RebuildPoll
<1>2. CASE RebuildBegin
  BY <1>2 DEF RebuildBegin
<1>3. CASE LockSearch("waitFlatten", "flatten")
  BY <1>3 DEF LockSearch
<1>4. CASE Flatten
  BY <1>4 DEF Flatten
<1>5. CASE UnlockSearch("flattened", "unlockFlatten")
  BY <1>5 DEF UnlockSearch
<1>6. CASE UnlockWorking("unlockFlatten", "build")
  BY <1>6 DEF UnlockWorking
<1>7. CASE BuildTree
  BY <1>7 DEF BuildTree
<1>8. CASE LockDrain
  BY <1>8 DEF LockDrain
<1>9. CASE DrainOne
  BY <1>9, HeadTailProperties DEF DrainOne
<1>10. CASE RunOperation
  BY <1>10, ApplyType DEF RunOperation
<1>11. CASE Drained
  BY <1>11 DEF Drained
<1>12. CASE LockSearch("waitSwap", "swap")
  BY <1>12 DEF LockSearch
<1>13. CASE Swap
  BY <1>13 DEF Swap
<1>14. CASE UnlockSearch("swapped", "clearPtr")
  BY <1>14 DEF UnlockSearch
<1>15. CASE ClearPtr
  BY <1>15 DEF ClearPtr
<1>16. CASE UnlockWorking("unlockSwap", "clearFlag")
  BY <1>16 DEF UnlockWorking
<1>17. CASE ClearFlag
  BY <1>17 DEF ClearFlag
<1>18. CASE Discard
  BY <1>18 DEF Discard
<1>19. CASE RebuildEnd
  BY <1>19 DEF RebuildEnd
<1>20. QED BY <1>1, <1>2, <1>3, <1>4, <1>5, <1>6, <1>7, <1>8, <1>9, <1>10, <1>11, <1>12, <1>13, <1>14, <1>15, <1>16, <1>17, <1>18, <1>19 DEF Rebuilder

LEMMA CallTypes ==
  ASSUME TypeOK, Counting, CallBegin \/ CallStep \/ (\E s \in Searcher : Search(s))
  PROVE  TypeOK'
<1> USE SearcherCount, EmptyChange, PointAssumption
    DEF TypeOK, shared, treeVars, rebuildVars, mainVars, searchVars, callFrame
<1>1. ASSUME NEW p \in Point, AddPoint(p) PROVE TypeOK'
  BY <1>1 DEF AddPoint, Change
<1>2. ASSUME NEW p \in Point, AddPlain(p) PROVE TypeOK'
  BY <1>2 DEF AddPlain, Change
<1>3. ASSUME NEW box \in Box, DeleteBox(box) PROVE TypeOK'
  BY <1>3 DEF DeleteBox, Change
<1>4. CASE SearchBegin
  BY <1>4 DEF SearchBegin
<1>5. CASE StopThread
  BY <1>5 DEF StopThread
<1>6. CASE RangeDone
  <2>1. call' \in Change
    BY <1>6 DEF RangeDone, Change
  <2>2. QED BY <1>6, <2>1 DEF RangeDone
<1>7. CASE Check
  BY <1>7 DEF Check
<1>8. CASE DirectDelete
  <2>1. call' \in Change
    BY <1>8 DEF DirectDelete, Change
  <2>2. Rebuild_Ptr' \in BOOLEAN
    BY <1>8 DEF DirectDelete, MayRebuild
  <2>3. QED BY <1>8, <2>1, <2>2 DEF DirectDelete
<1>9. CASE DirectAdd
  <2>1. call' \in Change
    BY <1>9 DEF DirectAdd, Change
  <2>2. Rebuild_Ptr' \in BOOLEAN
    BY <1>9 DEF DirectAdd, MayRebuild
  <2>3. points' \subseteq Point
    BY <1>9 DEF DirectAdd, Change
  <2>4. QED BY <1>9, <2>1, <2>2, <2>3, SMTT(20) DEF DirectAdd
<1>10. CASE LockedChange
  <2>1. Rebuild_Logger' \in Seq(Change)
    <3>1. Logged(call) \in Seq(Change)
      BY LoggedType
    <3>2. QED BY <1>10, <3>1, ConcatProperties DEF LockedChange
  <2>2. QED BY <1>10, <2>1, ApplyType DEF LockedChange
<1>11. CASE Join
  BY <1>11 DEF Join
<1>12. CASE SearchEnd
  BY <1>12 DEF SearchEnd
<1>13. ASSUME NEW s \in Searcher, SearchCheck(s) PROVE TypeOK'
  BY <1>13, SMTT(20) DEF SearchCheck
<1>14. ASSUME NEW s \in Searcher, SearchEnter(s) PROVE TypeOK'
  <2>1. search_mutex_counter' \in -1..Cardinality(Searcher)
    <3>1. s \notin Counted /\ search_mutex_counter = Cardinality(Counted)
      BY <1>14 DEF SearchEnter, Counting, Counted
    <3>2. Cardinality(Counted) \in 0..Cardinality(Searcher)
          /\ Cardinality(Counted) < Cardinality(Searcher)
      BY <3>1, CountedType
    <3>3. QED BY <1>14, <3>1, <3>2 DEF SearchEnter
  <2>2. QED BY <1>14, <2>1 DEF SearchEnter
<1>15. ASSUME NEW s \in Searcher, SearchLeave(s) PROVE TypeOK'
  <2>1. search_mutex_counter' \in -1..Cardinality(Searcher)
    BY <1>15, CountedType DEF SearchLeave, Counting, Counted
  <2>2. QED BY <1>15, <2>1 DEF SearchLeave
<1>16. QED BY <1>1, <1>2, <1>3, <1>4, <1>5, <1>6, <1>7, <1>8, <1>9, <1>10, <1>11, <1>12, <1>13, <1>14, <1>15 DEF CallBegin, CallStep, Search

-----------------------------------------------------------------------------
(* The mutex and the flags *)

\* The rebuilding thread.
LEMMA RebuilderHeld ==
  ASSUME TypeOK, Held, Rebuilder
  PROVE  Held'
<1> USE DEF TypeOK, Held, Copying, Filling, Swapping, Rebuilding,
            shared, treeVars, rebuildVars, mainVars, searchVars
<1>1. CASE RebuildPoll
  BY <1>1 DEF RebuildPoll
<1>2. CASE RebuildBegin
  BY <1>2 DEF RebuildBegin
<1>3. CASE LockSearch("waitFlatten", "flatten")
  BY <1>3 DEF LockSearch
<1>4. CASE Flatten
  BY <1>4 DEF Flatten
<1>5. CASE UnlockSearch("flattened", "unlockFlatten")
  BY <1>5 DEF UnlockSearch
<1>6. CASE UnlockWorking("unlockFlatten", "build")
  BY <1>6 DEF UnlockWorking
<1>7. CASE BuildTree
  BY <1>7 DEF BuildTree
<1>8. CASE LockDrain
  BY <1>8 DEF LockDrain
<1>9. CASE DrainOne
  BY <1>9 DEF DrainOne
<1>10. CASE RunOperation
  BY <1>10 DEF RunOperation
<1>11. CASE Drained
  BY <1>11 DEF Drained
<1>12. CASE LockSearch("waitSwap", "swap")
  BY <1>12 DEF LockSearch
<1>13. CASE Swap
  BY <1>13 DEF Swap
<1>14. CASE UnlockSearch("swapped", "clearPtr")
  BY <1>14 DEF UnlockSearch
<1>15. CASE ClearPtr
  BY <1>15 DEF ClearPtr
<1>16. CASE UnlockWorking("unlockSwap", "clearFlag")
  BY <1>16 DEF UnlockWorking
<1>17. CASE ClearFlag
  BY <1>17 DEF ClearFlag
<1>18. CASE Discard
  BY <1>18 DEF Discard
<1>19. CASE RebuildEnd
  BY <1>19 DEF RebuildEnd
<1>20. QED BY <1>1, <1>2, <1>3, <1>4, <1>5, <1>6, <1>7, <1>8, <1>9, <1>10, <1>11, <1>12, <1>13, <1>14, <1>15, <1>16, <1>17, <1>18, <1>19 DEF Rebuilder

\* The other threads leave alone what it holds.
LEMMA CallHeld ==
  ASSUME TypeOK, Held, CallBegin \/ CallStep \/ (\E s \in Searcher : Search(s))
  PROVE  Held'
<1> USE DEF TypeOK, Held, Copying, Filling, Swapping, Rebuilding,
            shared, treeVars, rebuildVars, mainVars, searchVars, callFrame
<1>1. ASSUME NEW p \in Point, AddPoint(p) PROVE Held'
  BY <1>1 DEF AddPoint
<1>2. ASSUME NEW p \in Point, AddPlain(p) PROVE Held'
  BY <1>2 DEF AddPlain
<1>3. ASSUME NEW box \in Box, DeleteBox(box) PROVE Held'
  BY <1>3 DEF DeleteBox
<1>4. CASE SearchBegin
  BY <1>4 DEF SearchBegin
<1>5. CASE StopThread
  BY <1>5 DEF StopThread
<1>6. CASE RangeDone
  BY <1>6 DEF RangeDone
<1>7. CASE Check
  BY <1>7 DEF Check
<1>8. CASE DirectDelete
  BY <1>8 DEF DirectDelete, MayRebuild
<1>9. CASE DirectAdd
  BY <1>9 DEF DirectAdd, MayRebuild
<1>10. CASE LockedChange
  BY <1>10 DEF LockedChange
<1>11. CASE Join
  BY <1>11 DEF Join
<1>12. CASE SearchEnd
  BY <1>12 DEF SearchEnd
<1>13. ASSUME NEW s \in Searcher, SearchCheck(s) PROVE Held'
  BY <1>13 DEF SearchCheck
<1>14. ASSUME NEW s \in Searcher, SearchEnter(s) PROVE Held'
  BY <1>14 DEF SearchEnter
<1>15. ASSUME NEW s \in Searcher, SearchLeave(s) PROVE Held'
  BY <1>15 DEF SearchLeave
<1>16. QED BY <1>1, <1>2, <1>3, <1>4, <1>5, <1>6, <1>7, <1>8, <1>9, <1>10, <1>11, <1>12, <1>13, <1>14, <1>15 DEF CallBegin, CallStep, Search

-----------------------------------------------------------------------------
(* The search counter *)

LEMMA SameCounted == ASSUME spc' = spc PROVE Counted' = Counted
BY DEF Counted

\* The rebuilding thread closes the counter when no search is in it.
LEMMA RebuilderCounting ==
  ASSUME TypeOK, Held, Counting, Rebuilder
  PROVE  Counting'
<1> USE DEF TypeOK, Held, Counting, Closed, Copying, Filling, Swapping, Rebuilding,
            shared, treeVars, rebuildVars, mainVars, searchVars
<1>0. Counted' = Counted
  <2>1. spc' = spc
    BY DEF Rebuilder, RebuildPoll, RebuildBegin, LockSearch, Flatten, UnlockSearch, UnlockWorking,
           BuildTree, LockDrain, DrainOne, RunOperation, Drained, Swap, ClearPtr, ClearFlag, Discard,
           RebuildEnd
  <2>2. QED BY <2>1, SameCounted
<1>1. CASE RebuildPoll
  BY <1>0, <1>1 DEF RebuildPoll
<1>2. CASE RebuildBegin
  BY <1>0, <1>2 DEF RebuildBegin
<1>3. CASE LockSearch("waitFlatten", "flatten")
  <2>1. Counted = {}
    BY <1>0, <1>3, CountedType, FS_EmptySet DEF LockSearch
  <2>2. QED BY <1>0, <1>3, <2>1 DEF LockSearch
<1>4. CASE Flatten
  BY <1>0, <1>4 DEF Flatten
<1>5. CASE UnlockSearch("flattened", "unlockFlatten")
  <2>1. Counted = {} /\ Cardinality(Counted) = 0
    BY <1>0, <1>5, FS_EmptySet DEF UnlockSearch
  <2>2. QED BY <1>0, <1>5, <2>1 DEF UnlockSearch
<1>6. CASE UnlockWorking("unlockFlatten", "build")
  BY <1>0, <1>6 DEF UnlockWorking
<1>7. CASE BuildTree
  BY <1>0, <1>7 DEF BuildTree
<1>8. CASE LockDrain
  BY <1>0, <1>8 DEF LockDrain
<1>9. CASE DrainOne
  BY <1>0, <1>9 DEF DrainOne
<1>10. CASE RunOperation
  BY <1>0, <1>10 DEF RunOperation
<1>11. CASE Drained
  BY <1>0, <1>11 DEF Drained
<1>12. CASE LockSearch("waitSwap", "swap")
  <2>1. Counted = {}
    BY <1>0, <1>12, CountedType, FS_EmptySet DEF LockSearch
  <2>2. QED BY <1>0, <1>12, <2>1 DEF LockSearch
<1>13. CASE Swap
  <2>1. \A s \in Searcher : spc[s] # "counted" /\ spc[s] # "direct"
    BY <1>0, <1>13 DEF Swap, Counted
  <2>2. QED BY <1>0, <1>13, <2>1 DEF Swap
<1>14. CASE UnlockSearch("swapped", "clearPtr")
  <2>1. Counted = {} /\ Cardinality(Counted) = 0
    BY <1>0, <1>14, FS_EmptySet DEF UnlockSearch
  <2>2. QED BY <1>0, <1>14, <2>1 DEF UnlockSearch
<1>15. CASE ClearPtr
  BY <1>0, <1>15 DEF ClearPtr
<1>16. CASE UnlockWorking("unlockSwap", "clearFlag")
  BY <1>0, <1>16 DEF UnlockWorking
<1>17. CASE ClearFlag
  BY <1>0, <1>17 DEF ClearFlag
<1>18. CASE Discard
  BY <1>0, <1>18 DEF Discard
<1>19. CASE RebuildEnd
  BY <1>0, <1>19 DEF RebuildEnd
<1>20. QED BY <1>1, <1>2, <1>3, <1>4, <1>5, <1>6, <1>7, <1>8, <1>9, <1>10, <1>11, <1>12, <1>13, <1>14, <1>15, <1>16, <1>17, <1>18, <1>19 DEF Rebuilder

\* A search enters and leaves with its count; a rebuild is only asked for when none is
\* under way.
LEMMA CallCounting ==
  ASSUME TypeOK, Held, Counting, CallBegin \/ CallStep \/ (\E s \in Searcher : Search(s))
  PROVE  Counting'
<1> USE DEF TypeOK, Held, Counting, Closed, Copying, Filling, Swapping, Rebuilding,
            shared, treeVars, rebuildVars, mainVars, searchVars, callFrame
<1>1. ASSUME NEW p \in Point, AddPoint(p) PROVE Counting'
  <2>1. spc' = spc
    BY <1>1 DEF AddPoint
  <2>2. QED BY <1>1, <2>1, SameCounted DEF AddPoint
<1>2. ASSUME NEW p \in Point, AddPlain(p) PROVE Counting'
  <2>1. spc' = spc
    BY <1>2 DEF AddPlain
  <2>2. QED BY <1>2, <2>1, SameCounted DEF AddPlain
<1>3. ASSUME NEW box \in Box, DeleteBox(box) PROVE Counting'
  <2>1. spc' = spc
    BY <1>3 DEF DeleteBox
  <2>2. QED BY <1>3, <2>1, SameCounted DEF DeleteBox
<1>4. CASE SearchBegin
  <2>1. Counted = {} /\ Counted' = {}
    BY <1>4 DEF SearchBegin, Counted
  <2>2. QED BY <1>4, <2>1 DEF SearchBegin
<1>5. CASE StopThread
  <2>1. spc' = spc
    BY <1>5 DEF StopThread
  <2>2. QED BY <1>5, <2>1, SameCounted DEF StopThread
<1>6. CASE RangeDone
  <2>1. spc' = spc
    BY <1>6 DEF RangeDone
  <2>2. QED BY <1>6, <2>1, SameCounted DEF RangeDone
<1>7. CASE Check
  <2>1. spc' = spc
    BY <1>7 DEF Check
  <2>2. QED BY <1>7, <2>1, SameCounted DEF Check
<1>8. CASE DirectDelete
  <2>1. spc' = spc
    BY <1>8 DEF DirectDelete
  <2>2. QED BY <1>8, <2>1, SameCounted DEF DirectDelete, MayRebuild
<1>9. CASE DirectAdd
  <2>1. spc' = spc
    BY <1>9 DEF DirectAdd
  <2>2. QED BY <1>9, <2>1, SameCounted DEF DirectAdd, MayRebuild
<1>10. CASE LockedChange
  <2>1. spc' = spc
    BY <1>10 DEF LockedChange
  <2>2. QED BY <1>10, <2>1, SameCounted DEF LockedChange
<1>11. CASE Join
  <2>1. spc' = spc
    BY <1>11 DEF Join
  <2>2. QED BY <1>11, <2>1, SameCounted DEF Join
<1>12. CASE SearchEnd
  <2>1. Counted = {} /\ Counted' = {}
    BY <1>12 DEF SearchEnd, Counted
  <2>2. QED BY <1>12, <2>1 DEF SearchEnd
<1>13. ASSUME NEW s \in Searcher, SearchCheck(s) PROVE Counting'
  <2>1. Counted' = Counted
    BY <1>13 DEF SearchCheck, Counted
  <2>2. QED BY <1>13, <2>1 DEF SearchCheck
<1>14. ASSUME NEW s \in Searcher, SearchEnter(s) PROVE Counting'
  <2>1. s \notin Counted /\ Counted' = Counted \cup {s}
    BY <1>14 DEF SearchEnter, Counted
  <2>2. Cardinality(Counted') = search_mutex_counter' /\ search_mutex_counter' # -1
    BY <1>14, <2>1, CountedType DEF SearchEnter
  <2>3. QED BY <1>14, <2>2 DEF SearchEnter
<1>15. ASSUME NEW s \in Searcher, SearchLeave(s) PROVE Counting'
  <2>1. CASE spc[s] = "direct"
    <3>1. Counted' = Counted
      BY <1>15, <2>1 DEF SearchLeave, Counted
    <3>2. QED BY <1>15, <2>1, <3>1 DEF SearchLeave
  <2>2. CASE spc[s] = "counted"
    <3>1. s \in Counted /\ Counted' = Counted \ {s}
      BY <1>15, <2>2 DEF SearchLeave, Counted
    <3>2. Cardinality(Counted') = search_mutex_counter' /\ search_mutex_counter' # -1
          /\ search_mutex_counter # -1
      BY <1>15, <2>2, <3>1, CountedType DEF SearchLeave
    <3>3. QED BY <1>15, <2>2, <3>2 DEF SearchLeave
  <2>3. QED BY <1>15, <2>1, <2>2 DEF SearchLeave
<1>16. QED BY <1>1, <1>2, <1>3, <1>4, <1>5, <1>6, <1>7, <1>8, <1>9, <1>10, <1>11, <1>12, <1>13, <1>14, <1>15 DEF CallBegin, CallStep, Search

-----------------------------------------------------------------------------
(* The log *)

\* The rebuilding thread takes operations from the log one by one.
LEMMA RebuilderLogging ==
  ASSUME TypeOK, Held, Logging, Rebuilder
  PROVE  Logging'
<1> USE DEF TypeOK, Held, Logging, Copying, Filling, Swapping, Rebuilding,
            shared, treeVars, rebuildVars, mainVars, searchVars
<1>1. CASE RebuildPoll
  BY <1>1 DEF RebuildPoll
<1>2. CASE RebuildBegin
  BY <1>2 DEF RebuildBegin
<1>3. CASE LockSearch("waitFlatten", "flatten")
  BY <1>3 DEF LockSearch
<1>4. CASE Flatten
  BY <1>4 DEF Flatten
<1>5. CASE UnlockSearch("flattened", "unlockFlatten")
  BY <1>5 DEF UnlockSearch
<1>6. CASE UnlockWorking("unlockFlatten", "build")
  <2>1. Rebuild_Logger = <<>> /\ storage = points => Replayed(storage, Rebuild_Logger, points)
    BY ReplayedNothing
  <2>2. QED BY <1>6, <2>1 DEF UnlockWorking
<1>7. CASE BuildTree
  BY <1>7 DEF BuildTree
<1>8. CASE LockDrain
  BY <1>8 DEF LockDrain
<1>9. CASE DrainOne
  <2>1. CASE missed \/ errors
    BY <1>9, <2>1 DEF DrainOne
  <2>2. CASE ~missed /\ ~errors
    <3>1. Replayed(Apply(fresh, Head(Rebuild_Logger)), Tail(Rebuild_Logger), points)
      BY <1>9, <2>2, ReplayedHead DEF DrainOne
    <3>2. QED BY <1>9, <3>1 DEF DrainOne
  <2>3. QED BY <2>1, <2>2
<1>10. CASE RunOperation
  BY <1>10 DEF RunOperation
<1>11. CASE Drained
  <2>1. CASE missed \/ errors
    BY <1>11, <2>1 DEF Drained
  <2>2. CASE ~missed /\ ~errors
    <3>1. fresh = points
      BY <1>11, <2>2, ReplayedNothing DEF Drained
    <3>2. QED BY <1>11, <3>1 DEF Drained
  <2>3. QED BY <2>1, <2>2
<1>12. CASE LockSearch("waitSwap", "swap")
  BY <1>12 DEF LockSearch
<1>13. CASE Swap
  BY <1>13 DEF Swap
<1>14. CASE UnlockSearch("swapped", "clearPtr")
  BY <1>14 DEF UnlockSearch
<1>15. CASE ClearPtr
  BY <1>15 DEF ClearPtr
<1>16. CASE UnlockWorking("unlockSwap", "clearFlag")
  BY <1>16 DEF UnlockWorking
<1>17. CASE ClearFlag
  BY <1>17 DEF ClearFlag
<1>18. CASE Discard
  BY <1>18 DEF Discard
<1>19. CASE RebuildEnd
  BY <1>19 DEF RebuildEnd
<1>20. QED BY <1>1, <1>2, <1>3, <1>4, <1>5, <1>6, <1>7, <1>8, <1>9, <1>10, <1>11, <1>12, <1>13, <1>14, <1>15, <1>16, <1>17, <1>18, <1>19 DEF Rebuilder

\* A call changes the tree and the log alike, or it is missed.
LEMMA CallLogging ==
  ASSUME TypeOK, Held, Logging, CallBegin \/ CallStep \/ (\E s \in Searcher : Search(s))
  PROVE  Logging'
<1> USE DEF TypeOK, Held, Logging, Copying, Filling, Swapping, Rebuilding,
            shared, treeVars, rebuildVars, mainVars, searchVars, callFrame
<1>1. ASSUME NEW p \in Point, AddPoint(p) PROVE Logging'
  BY <1>1 DEF AddPoint
<1>2. ASSUME NEW p \in Point, AddPlain(p) PROVE Logging'
  BY <1>2 DEF AddPlain
<1>3. ASSUME NEW box \in Box, DeleteBox(box) PROVE Logging'
  BY <1>3 DEF DeleteBox
<1>4. CASE SearchBegin
  BY <1>4 DEF SearchBegin
<1>5. CASE StopThread
  BY <1>5 DEF StopThread
<1>6. CASE RangeDone
  BY <1>6 DEF RangeDone
<1>7. CASE Check
  BY <1>7 DEF Check
<1>8. CASE DirectDelete
  BY <1>8 DEF DirectDelete, Copied
<1>9. CASE DirectAdd
  BY <1>9 DEF DirectAdd, Copied
<1>10. CASE LockedChange
  <2>1. ASSUME NEW from \in SUBSET Point, Replayed(from, Rebuild_Logger, points)
        PROVE  Replayed(from, Rebuild_Logger \o Logged(call), Apply(points, call))
    BY <2>1, ReplayedLogged
  <2>2. rpc \notin Copying \cup {"drain"} /\ (rpc \in Swapping => storage = {})
    BY <1>10 DEF LockedChange
  <2>3. rpc \in Filling => Rebuild_Logger' = Rebuild_Logger \o Logged(call)
    BY <1>10 DEF LockedChange
  <2>4. Apply(fresh, Operation) \in SUBSET Point
    BY ApplyType
  <2>5. QED BY <1>10, <2>1, <2>2, <2>3, <2>4 DEF LockedChange
<1>11. CASE Join
  BY <1>11 DEF Join
<1>12. CASE SearchEnd
  BY <1>12 DEF SearchEnd
<1>13. ASSUME NEW s \in Searcher, SearchCheck(s) PROVE Logging'
  BY <1>13 DEF SearchCheck
<1>14. ASSUME NEW s \in Searcher, SearchEnter(s) PROVE Logging'
  BY <1>14 DEF SearchEnter
<1>15. ASSUME NEW s \in Searcher, SearchLeave(s) PROVE Logging'
  BY <1>15 DEF SearchLeave
<1>16. QED BY <1>1, <1>2, <1>3, <1>4, <1>5, <1>6, <1>7, <1>8, <1>9, <1>10, <1>11, <1>12, <1>13, <1>14, <1>15 DEF CallBegin, CallStep, Search

-----------------------------------------------------------------------------
(* The theorems *)

LEMMA InitInv == Init => IInv
<1> SUFFICES ASSUME Init PROVE IInv
  OBVIOUS
<1>1. TypeOK
  BY InitTypes
<1>2. Held /\ Logging
  BY DEF Init, Held, Logging, Copying, Filling, Swapping, Rebuilding
<1>3. Counted = {} /\ Cardinality(Counted) = 0
  BY FS_EmptySet DEF Init, Counted
<1>4. Counting
  BY <1>3 DEF Init, Counting, Closed
<1>5. QED BY <1>1, <1>2, <1>4 DEF IInv

LEMMA NextInv == IInv /\ [Next]_vars => IInv'
<1> SUFFICES ASSUME IInv, [Next]_vars PROVE IInv'
  OBVIOUS
<1>1. CASE Rebuilder
  BY <1>1, RebuilderTypes, RebuilderHeld, RebuilderCounting, RebuilderLogging DEF IInv
<1>2. CASE CallBegin \/ CallStep \/ (\E s \in Searcher : Search(s))
  BY <1>2, CallTypes, CallHeld, CallCounting, CallLogging DEF IInv
<1>3. CASE UNCHANGED vars
  BY <1>3 DEF vars, shared, treeVars, rebuildVars, mainVars, searchVars, IInv, TypeOK, Held,
              Counting, Counted, Logging
<1>4. QED BY <1>1, <1>2, <1>3 DEF Next

\* IInv holds in every reachable state: what the rebuilding thread holds while it is
\* where, whom the search counter counts, and where the log leads.
THEOREM Invariance == Spec => []IInv
BY InitInv, NextInv, PTL DEF Spec

\* The variables keep their types for ever; in particular search_mutex_counter stays
\* between -1 and the number of searching threads.
THEOREM TypeCorrect == Spec => []TypeOK
<1>1. IInv => TypeOK
  BY DEF IInv
<1>2. QED BY <1>1, Invariance, PTL

\* Nearest_Search and multi_thread_rebuild: whatever the interleaving of the threads, no
\* search is in the tree while it is copied or replaced, and none walks deleted nodes.
THEOREM SearchesExcluded == Spec => []SearchesExclude
<1>1. IInv => SearchesExclude
  <2> SUFFICES ASSUME IInv PROVE SearchesExclude
    OBVIOUS
  <2>1. SearchLocked
    BY DEF IInv, Counting, Counted, SearchLocked
  <2>2. gen > freed
    BY DEF IInv, TypeOK
  <2>3. SearchersSafe
    BY <2>2 DEF IInv, Counting, SearchersSafe
  <2>4. QED BY <2>1, <2>3 DEF SearchesExclude
<1>2. QED BY <1>1, Invariance, PTL

\* The log of multi_thread_rebuild: unless an operation changed the copied tree without
\* taking the log, the new tree holds what the old one holds at the moment of the swap.
THEOREM LogReplayed == Spec => []LoggedReachNewTree
<1>1. IInv => LoggedReachNewTree
  BY DEF IInv, Logging, LoggedReachNewTree, NothingMissed, Swapping
<1>2. QED BY <1>1, Invariance, PTL
===============================================================================
