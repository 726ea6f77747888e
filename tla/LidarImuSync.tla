----------------------------- MODULE LidarImuSync -----------------------------
(***************************************************************************)
(* laserMapping.cpp and IMU_Processing.hpp of robosense_fast_lio: the      *)
(* callbacks that queue lidar scans and IMU samples, sync_packages, which  *)
(* joins a scan with the samples that cover it, and ImuProcess, which      *)
(* moves the filter from the end of one scan to the end of the next.  One  *)
(* thread runs everything: ros::spinOnce() the callbacks, then the loop.   *)
(* Times are numbers of a common clock; of a scan the model keeps when it  *)
(* began and the offset of its last point, of a sample its time.           *)
(***************************************************************************)
EXTENDS Integers, SequencesExt

CONSTANTS
  LidarTypes,     \* subset of {"VELO16", "RSM1", "RSM1_BREAK"}
  num_sub_cloud,  \* parts a scan is broken into with RSM1_BREAK
  ScanTime,       \* time from the first to the last point of a whole scan
  Spans,          \* offsets of the last point that survives the filters
  MAX_INI_COUNT,  \* samples that initialise the filter
  Garbage,        \* what last_lidar_end_time_ may hold before it is written
  MaxTime,        \* bound on the stamps
  MaxGap,         \* bound on the time from one sample, or scan, to the next
  MaxSkew,        \* bound on how far one topic is ahead of the other
  MaxScans,       \* bound on the scans and parts of scans
  MaxLoops        \* bound on the times the stamps jump back

ASSUME SyncAssumption ==
  /\ LidarTypes \subseteq {"VELO16", "RSM1", "RSM1_BREAK"}
  /\ {num_sub_cloud, ScanTime} \subseteq Nat \ {0} /\ Spans \subseteq 1..ScanTime
  /\ {MAX_INI_COUNT, MaxTime, MaxGap, MaxSkew, MaxScans, MaxLoops} \subseteq Nat /\ Garbage \subseteq Nat

VARIABLES
  lidar_type,
  lidar_buffer, time_buffer, imu_buffer,
  last_timestamp_lidar, last_timestamp_imu,
  lidar_end_time,         \* the global that sync_packages compares with
  lidar_pushed,           \* Measures holds the front scan
  Measures,               \* its scan, lidar_beg_time and lidar_end_time
  scan_num, scan_sum,     \* lidar_mean_scantime is scan_sum / scan_num
  flg_first_scan,
  init_iter_num, imu_need_init_,
  last_imu_, last_lidar_end_time_,
  feats_undistort,        \* the scan its points come from, or NoScan
  clock,                  \* the time the filter's state has been moved to
  mapped,                 \* scans added to the map, in order
  received,               \* scans, or parts of scans, queued so far
  overwritten,            \* lidar_end_time changed while a scan was pushed
  starved,                \* a scan was processed without any sample
  wild,                   \* last_lidar_end_time_ began with another value than 0
  loops                   \* times the stamps jumped back

lidarVars == <<lidar_buffer, time_buffer, last_timestamp_lidar, received>>
imuVars   == <<imu_buffer, last_timestamp_imu>>
syncVars  == <<lidar_pushed, Measures, scan_num, scan_sum>>
procVars  == <<flg_first_scan, init_iter_num, imu_need_init_, last_imu_,
               last_lidar_end_time_, feats_undistort, clock, mapped, starved>>
lioVars == <<lidar_type, lidarVars, imuVars, lidar_end_time, syncVars, procVars,
          overwritten, wild, loops>>

NoScan == [id |-> 0, start |-> 0, span |-> 0, few |-> TRUE]

Break == lidar_type = "RSM1_BREAK"
Parts == IF Break THEN num_sub_cloud ELSE 1
PartTime == ScanTime \div Parts

LioInit ==
  /\ lidar_type \in LidarTypes
  /\ lidar_buffer = <<>> /\ time_buffer = <<>> /\ imu_buffer = <<>>
  /\ last_timestamp_lidar = 0 /\ last_timestamp_imu = -1
  /\ lidar_end_time = 0 /\ lidar_pushed = FALSE
  /\ Measures = [lidar |-> NoScan, beg |-> 0, end |-> 0]
  /\ scan_num = 0 /\ scan_sum = 0
  /\ flg_first_scan = TRUE /\ init_iter_num = 1 /\ imu_need_init_ = TRUE
  /\ last_imu_ = 0 /\ last_lidar_end_time_ \in Garbage
  /\ feats_undistort = NoScan /\ clock = 0 /\ mapped = <<>>
  /\ received = 0 /\ overwritten = FALSE /\ starved = FALSE
  /\ wild = (last_lidar_end_time_ # 0) /\ loops = 0

-----------------------------------------------------------------------------
(* The callbacks *)

\* What process() keeps of a part: the offset of its last point, or at most one point.
Kept == {[span |-> n, few |-> FALSE] : n \in {m \in Spans : m <= PartTime}}
        \cup {[span |-> 0, few |-> TRUE]}

\* Mutation: all parts are timed by the message.
TimesOfMessage(scans, stamp) == [i \in DOMAIN scans |-> stamp]

\* A part is timed by its first point, a whole scan by the stamp of its message.
Times(scans, stamp) ==
  [i \in DOMAIN scans |-> IF Break THEN scans[i].start ELSE stamp]

\* standard_pcl_cbk, for a scan that began at b.  sync_packages takes the stamp of
\* an RSM1 message to be the time of its last point.
PclCbk(b, kept) ==
  LET scans == [i \in 1..Parts |->
                  [id |-> received + i, start |-> b + (i - 1) * PartTime,
                   span |-> kept[i].span, few |-> kept[i].few]]
      stamp == IF lidar_type = "RSM1" THEN b + ScanTime ELSE b
      back  == stamp < last_timestamp_lidar
  IN /\ back => loops < MaxLoops
     /\ loops' = IF back THEN loops + 1 ELSE loops
     /\ lidar_buffer' = (IF back THEN <<>> ELSE lidar_buffer) \o scans
     /\ time_buffer' = time_buffer \o Times(scans, stamp)
     /\ last_timestamp_lidar' = IF Break THEN scans[Parts].start ELSE stamp
     /\ lidar_end_time' = IF Break THEN b + ScanTime ELSE lidar_end_time
     /\ overwritten' = (overwritten \/ (Break /\ lidar_pushed))
     /\ received' = received + Parts
     /\ UNCHANGED <<lidar_type, imuVars, syncVars, procVars, wild>>

ImuCbk(t) ==
  LET back == t < last_timestamp_imu
  IN /\ back => loops < MaxLoops
     /\ loops' = IF back THEN loops + 1 ELSE loops
     /\ imu_buffer' = Append(IF back THEN <<>> ELSE imu_buffer, t)
     /\ last_timestamp_imu' = t
     /\ UNCHANGED <<lidar_type, lidarVars, lidar_end_time, syncVars, procVars,
                    overwritten, wild>>

\* Scans follow each other, samples too, and messages may be lost in between.  Stamps
\* go back to the beginning when a recording is played again.
Follows(t, last, least) == (t = 1 /\ t < last) \/ t - last \in least..MaxGap

\* The start of the last scan, from what last_timestamp_lidar holds of it.
LastStart ==
  last_timestamp_lidar - CASE lidar_type = "RSM1" -> ScanTime
                           [] Break -> ScanTime - PartTime
                           [] OTHER -> 0

Callback ==
  \/ \E b \in 1..(MaxTime - ScanTime) : \E kept \in [1..Parts -> Kept] :
       /\ received + Parts <= MaxScans
       /\ IF received = 0 THEN b = 1 ELSE Follows(b, LastStart, ScanTime)
       /\ b + ScanTime <= last_timestamp_imu + MaxSkew
       /\ PclCbk(b, kept)
  \/ \E t \in 1..MaxTime :
       /\ Follows(t, last_timestamp_imu, 1)
       /\ t <= LastStart + 2 * ScanTime + MaxSkew
       /\ ImuCbk(t)

-----------------------------------------------------------------------------
(* One round of the main loop *)

\* Mutation: the sum of the scan times is not divided.
MeanUndivided == scan_sum

Mean == IF scan_num = 0 THEN 0 ELSE scan_sum \div scan_num

\* Too few points, or the last one too early, to tell when the scan ended.
EndsEarly(scan) == scan.few \/ 2 * scan.span * scan_num < scan_sum

\* The scan sync_packages works on: the one pushed in an earlier call, or the front
\* one.  "until" is the lidar_end_time it compares with.
Pushed ==
  IF lidar_pushed
    THEN [lidar |-> Measures.lidar, beg |-> Measures.beg, end |-> Measures.end,
          until |-> lidar_end_time, num |-> scan_num, sum |-> scan_sum]
    ELSE LET scan  == Head(lidar_buffer)
             beg   == Head(time_buffer) - (IF lidar_type = "RSM1" THEN scan.span ELSE 0)
             early == EndsEarly(scan)
             end   == beg + (IF early THEN Mean ELSE scan.span)
         IN [lidar |-> scan, beg |-> beg, end |-> end, until |-> end,
             num |-> scan_num + (IF early THEN 0 ELSE 1),
             sum |-> scan_sum + (IF early THEN 0 ELSE scan.span)]

CanPush == lidar_buffer # <<>> /\ imu_buffer # <<>>

\* sync_packages returns false: no sample is as late as the end of the scan.
SyncWait ==
  /\ CanPush /\ ~lidar_pushed
  /\ last_timestamp_imu < Pushed.until
  /\ lidar_pushed' = TRUE
  /\ Measures' = [lidar |-> Pushed.lidar, beg |-> Pushed.beg, end |-> Pushed.end]
  /\ lidar_end_time' = Pushed.until
  /\ scan_num' = Pushed.num /\ scan_sum' = Pushed.sum
  /\ UNCHANGED <<lidar_type, lidarVars, imuVars, procVars, overwritten, wild, loops>>

\* The first n samples are those popped: up to "until", as long as the one before is earlier than "end".
Cover(n, end, until) ==
  LET Fits(i) == /\ imu_buffer[i] <= until
                 /\ (IF i = 1 THEN imu_buffer[1] ELSE imu_buffer[i - 1]) < end
  IN /\ \A i \in 1..n : Fits(i)
     /\ n < Len(imu_buffer) => ~Fits(n + 1)

\* What predict() adds to the time of the state between two samples: nothing before
\* the end of the last scan.
Predicted(head, tail) ==
  IF tail < last_lidar_end_time_ THEN 0
  ELSE IF head < last_lidar_end_time_ THEN tail - last_lidar_end_time_
  ELSE tail - head

\* Mutation: the state is left at the last sample.
ToFrameEndNot(imu_end, pcl_end) == 0

\* The last prediction goes from the last sample to the end of the scan, by the
\* size of the difference, whichever of the two is later.
ToFrameEnd(imu_end, pcl_end) ==
  IF pcl_end > imu_end THEN pcl_end - imu_end ELSE imu_end - pcl_end

\* UndistortPcl: from last_imu_ over all samples to the end of the scan.
UndistortPcl(imu) ==
  LET v_imu == <<last_imu_>> \o imu
      moved == [i \in 1..Len(imu) |-> Predicted(v_imu[i], v_imu[i + 1])]
  IN /\ clock' = clock + SumFunction(moved) + ToFrameEnd(Last(imu), Measures'.end)
     /\ last_imu_' = Last(imu)
     /\ last_lidar_end_time_' = Measures'.end
     /\ feats_undistort' = Measures'.lidar
     /\ UNCHANGED <<init_iter_num, imu_need_init_>>

\* IMU_init takes the samples to find the gravity; the state's time is the last one's.
ImuInit(imu) ==
  /\ init_iter_num' = init_iter_num + Len(imu)
  /\ imu_need_init_' = (init_iter_num' <= MAX_INI_COUNT)
  /\ last_imu_' = Last(imu) /\ clock' = Last(imu)
  /\ UNCHANGED <<last_lidar_end_time_, feats_undistort>>

\* ImuProcess::Process: without samples feats_undistort keeps what it holds.
Process(imu) ==
  /\ starved' = (starved \/ imu = <<>>)
  /\ \/ imu = <<>> /\ UNCHANGED <<init_iter_num, imu_need_init_, last_imu_,
                                  last_lidar_end_time_, feats_undistort, clock>>
     \/ imu # <<>> /\ imu_need_init_ /\ ImuInit(imu)
     \/ imu # <<>> /\ ~imu_need_init_ /\ UndistortPcl(imu)

\* Mutation: an empty feats_undistort is not skipped.
MappedUnchecked == Append(mapped, feats_undistort'.id)

\* A scan with enough points left is matched with the map and added to it.
Mapped == IF feats_undistort'.few THEN mapped ELSE Append(mapped, feats_undistort'.id)

\* sync_packages returns true: pop scan and samples, and go through the loop's body,
\* which drops the first scan with its samples.
SyncDone ==
  /\ CanPush
  /\ last_timestamp_imu >= Pushed.until
  /\ Measures' = [lidar |-> Pushed.lidar, beg |-> Pushed.beg, end |-> Pushed.end]
  /\ \E n \in 0..Len(imu_buffer) :
       /\ Cover(n, Pushed.end, Pushed.until)
       /\ imu_buffer' = SubSeq(imu_buffer, n + 1, Len(imu_buffer))
       /\ IF flg_first_scan
            THEN UNCHANGED <<init_iter_num, imu_need_init_, last_imu_, last_lidar_end_time_,
                             feats_undistort, clock, mapped, starved>>
            ELSE Process(SubSeq(imu_buffer, 1, n)) /\ mapped' = Mapped
  /\ lidar_buffer' = Tail(lidar_buffer) /\ time_buffer' = Tail(time_buffer)
  /\ lidar_pushed' = FALSE /\ flg_first_scan' = FALSE
  /\ lidar_end_time' = Pushed.until
  /\ scan_num' = Pushed.num /\ scan_sum' = Pushed.sum
  /\ UNCHANGED <<lidar_type, last_timestamp_lidar, received, last_timestamp_imu,
                 overwritten, wild, loops>>

Loop == SyncWait \/ SyncDone

LioNext == Callback \/ Loop

LioSpec == LioInit /\ [][LioNext]_lioVars

-----------------------------------------------------------------------------
(* Properties *)

Scan == [id : 0..received, start : 0..MaxTime, span : 0..ScanTime, few : BOOLEAN]

\* The values of the variables.
LioTypeOK ==
  /\ lidar_type \in LidarTypes
  /\ lidar_buffer \in Seq(Scan) /\ time_buffer \in Seq(Nat) /\ imu_buffer \in Seq(1..MaxTime)
  /\ {lidar_pushed, flg_first_scan, imu_need_init_, overwritten, starved, wild} \subseteq BOOLEAN
  /\ Measures \in [lidar : Scan, beg : Nat, end : Nat]
  /\ feats_undistort \in Scan
  /\ {scan_num, scan_sum, init_iter_num, last_imu_, last_lidar_end_time_, clock,
      last_timestamp_lidar, lidar_end_time} \subseteq Nat
  /\ last_timestamp_imu \in -1..MaxTime

\* sync_packages never takes the front of an empty time_buffer, even after the
\* stamps jumped back.
TimeForEveryScan == Len(time_buffer) >= Len(lidar_buffer)

\* A scan is put in time by its own stamp: the one of its first point, or with RSM1
\* the time of its last point less its offset.  "fastlio and lio-sam uses the start
\* time of a scan".  It is not so once the stamps have jumped back: lidar_buffer is
\* cleared then and time_buffer is not.
ScanTimedForward ==
  loops = 0 =>
    LET s == Measures.lidar
    IN s.id > 0 => Measures.beg = IF lidar_type = "RSM1" THEN s.start + ScanTime - s.span
                                                         ELSE s.start

\* The queue of stamps goes with the queue of scans.
ScanTimes == TimeForEveryScan /\ ScanTimedForward

\* After a scan the filter's state is at its end: "calculated the pos and attitude
\* prediction at the frame-end".
AtFrameEnd == feats_undistort.id > 0 => clock = last_lidar_end_time_

\* So it is unless lidar_end_time was overwritten while a scan waited for its
\* samples, the stamps jumped back, or the first comparison read garbage.
AtFrameEndUndisturbed == ~overwritten /\ loops = 0 /\ ~wild => AtFrameEnd

\* No scan enters the map twice, and they enter it in order, unless one was
\* processed without samples.
MappedOnce == ~starved /\ loops = 0 => \A i, j \in DOMAIN mapped : i < j => mapped[i] < mapped[j]

\* A scan does not wait for samples that will not come: once there is one two scan
\* times after its start, nothing keeps sync_packages from taking the front scan,
\* unless a later one moved lidar_end_time, or the stamps jumped back.
ScansServed ==
  LET Served(s) == last_timestamp_imu >= s.start + 2 * ScanTime
  IN lidar_buffer # <<>> /\ Served(Head(lidar_buffer)) /\ ~overwritten /\ loops = 0 =>
       imu_buffer # <<>> /\ last_timestamp_imu >= Pushed.until
=============================================================================
