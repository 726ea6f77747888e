------------------------------ MODULE Preprocess ------------------------------
(***************************************************************************)
(* Preprocess of robosense_fast_lio: one handler per lidar turns a message *)
(* into the cloud that the filter reads, point by point: points that are   *)
(* too close or too far are dropped, every point_filter_num-th is kept,    *)
(* and curvature becomes the time of a point since its cloud began.  The   *)
(* M1 handler cuts a message into parts, one per call; the Velodyne        *)
(* handler works the times out from the angles when the message has none.  *)
(* With feature_enabled the points are sorted into rings instead.  Of      *)
(* give_feature the model keeps where it may leave a ring: in front, over  *)
(* the close points, and at the end, behind a plane.                       *)
(*                                                                         *)
(* A point has its ring, its class of range ("close", "above": close when  *)
(* seen from above, "ok", "far"), its time field and, in the message of a  *)
(* spinning lidar, its yaw in steps of which Turn make a turn.  Times have *)
(* the unit of curvature.  Position, of which only AVIA's handler compares *)
(* two, is <<horizontal, vertical>>, and (0, 0) is the sensor.             *)
(***************************************************************************)
EXTENDS Integers, FiniteSets, SequencesExt

CONSTANTS
  LidarTypes,         \* subset of {"AVIA", "VELO16", "OUST64", "RSM1", "RSM1_BREAK"}
  FilterNums,         \* values of point_filter_num
  N_SCANS,            \* rings
  SubClouds,          \* values of num_sub_cloud
  GroupSize,          \* group_size, the points plane_judge looks at at least
  Turn,               \* steps of yaw in a turn
  Messages,           \* what each lidar may send: [width, points]
  Later,              \* bound on the messages after the first one
  MaxMessages         \* bound on the messages

ASSUME PreprocessAssumption ==
  /\ LidarTypes \subseteq {"AVIA", "VELO16", "OUST64", "RSM1", "RSM1_BREAK"}
  /\ FilterNums \cup SubClouds \cup {N_SCANS, GroupSize, Turn} \subseteq Nat \ {0}
  /\ Turn % 2 = 0 /\ MaxMessages \in Nat
  /\ \A l \in LidarTypes : Later[l] \subseteq Messages[l]

VARIABLES
  lidar_type, feature_enabled, point_filter_num, num_sub_cloud,
  msg, received,          \* the message at hand, and how many there were
  i_sub_cloud,            \* parts of it that have been processed
  pl_surf, pl_buff,
  given_offset_time,
  start_time, end_time,   \* the caller's, not initialised for a message
  clouds,                 \* what process() returned for the parts, with their times
  past_end,               \* something was accessed outside of its container
  thrown                  \* an exception has ended the process

conf == <<lidar_type, feature_enabled, point_filter_num, num_sub_cloud>>
vars == <<conf, msg, received, i_sub_cloud, pl_surf, pl_buff,
          given_offset_time, start_time, end_time, clouds, past_end, thrown>>

Unset == -1
NoMsg == [width |-> 0, points |-> <<>>]
Rings == 0..(N_SCANS - 1)
NoRings == [r \in Rings |-> <<>>]

Init ==
  /\ lidar_type \in LidarTypes /\ feature_enabled \in BOOLEAN
  /\ point_filter_num \in FilterNums
  /\ num_sub_cloud \in IF lidar_type = "RSM1_BREAK" THEN SubClouds ELSE {1}
  /\ msg = NoMsg /\ received = 0 /\ i_sub_cloud = num_sub_cloud
  /\ pl_surf = <<>> /\ pl_buff = NoRings /\ given_offset_time = FALSE
  /\ start_time = Unset /\ end_time = Unset /\ clouds = <<>>
  /\ past_end = FALSE /\ thrown = FALSE

-----------------------------------------------------------------------------
(* Points, by their place 1, 2, ... in the message *)

Size(m) == Len(m.points)

\* A point of the cloud: the message and place it comes from, and its time.
Out(i, curvature) == [of |-> received, i |-> i, curvature |-> curvature]

\* i % point_filter_num for a point whose index in the code is one less.
Chosen(i) == (i - 1) % point_filter_num = 0

Close(p) == p.range = "close"
Far(p)   == p.range = "far"

\* orgtype.range is the horizontal distance.
FlatClose(p) == p.range \in {"close", "above"}

\* The elements of s at the places in K.
Picked(s, K) == FlattenSeq([k \in 1..Len(s) |-> IF k \in K THEN <<s[k]>> ELSE <<>>])

\* The M1 handler takes the column of a point for its ring.
RingOf(m, i) ==
  IF lidar_type \in {"RSM1", "RSM1_BREAK"} THEN (i - 1) % m.width ELSE m.points[i].ring

\* The points of s, sorted into rings.
IntoRings(m, s) == [r \in Rings |-> Picked(s, {k \in 1..Len(s) : RingOf(m, s[k].i) = r})]

\* give_feature skips the close points in front without a bound.
OnlyClose(m, s) == s # <<>> /\ \A k \in DOMAIN s : FlatClose(m.points[s[k].i])

\* No point is close from one on that has group_size others after it: plane_judge gets
\* there and, as long as the points are near it and on a line, goes on to the end of the
\* ring.  give_feature then marks types[i_nex], one past the end.
PlaneToEnd(m, s) ==
  /\ Len(s) > GroupSize
  /\ \A k \in (Len(s) - GroupSize)..Len(s) : ~FlatClose(m.points[s[k].i])

\* The loop over the rings: an empty one has linesize -1, and the loop to
\* (unsigned) -1 leaves the ring, unless short rings are passed over.
RingsPastEnd(m, rings, least) ==
  \E r \in Rings : Len(rings[r]) >= least /\ (rings[r] = <<>> \/ OnlyClose(m, rings[r]))

PlanesPastEnd(m, rings, least) ==
  \E r \in Rings : Len(rings[r]) >= least /\ PlaneToEnd(m, rings[r])

\* What a handler leaves: cloud, rings and whether it may have left a container.  Whether
\* a plane ends with its ring depends on distances and on disB, which has no value.
Surf(s, past) == [surf |-> s, buff |-> pl_buff, past |-> {past}]
Features(m, s, least) ==
  LET rings == IntoRings(m, s)
  IN [surf |-> <<>>, buff |-> rings,
      past |-> IF RingsPastEnd(m, rings, least) THEN {TRUE}
               ELSE IF PlanesPastEnd(m, rings, least) THEN BOOLEAN ELSE {FALSE}]

-----------------------------------------------------------------------------
(* avia_handler: the first point is never used. *)

\* All points, each with the time that the message has for it.
Untimed(m) == [i \in 1..Size(m) |-> Out(i, m.points[i].time)]

Tagged(m, i) == i > 1 /\ m.points[i].ring < N_SCANS /\ m.points[i].tag

\* Points of which pl_full gets a copy; elsewhere it holds zeros.
Filled(m, i) ==
  /\ Tagged(m, i)
  /\ \/ feature_enabled
     \/ Cardinality({k \in 1..i : Tagged(m, k)}) % point_filter_num = 0

Full(m, i) == IF Filled(m, i) THEN m.points[i].pos ELSE <<0, 0>>

\* && binds closer than ||: blind counts only when just the height differs.
New(m, i) ==
  LET a == Full(m, i)
      b == Full(m, i - 1)
  IN \/ a[1] # b[1]
     \/ a[2] # b[2] /\ (feature_enabled \/ ~Close(m.points[i]))

Avia(m) ==
  LET s == Picked(Untimed(m), {i \in 1..Size(m) : Filled(m, i) /\ New(m, i)})
  IN IF feature_enabled THEN Features(m, s, 6) ELSE Surf(s, FALSE)

-----------------------------------------------------------------------------
(* oust64_handler *)

Oust64(m) ==
  LET away == {i \in 1..Size(m) : ~Close(m.points[i])}
  IN IF feature_enabled THEN Features(m, Picked(Untimed(m), away), 0)
     ELSE Surf(Picked(Untimed(m), {i \in away : Chosen(i) /\ ~Far(m.points[i])}), FALSE)

-----------------------------------------------------------------------------
(* robosenseM1_handler: rows are firings, columns the channels that fire.  *)

Rows(m)    == IF m.width = 0 THEN 0 ELSE Size(m) \div m.width
PartRows(m) == Rows(m) \div num_sub_cloud

FirstRow(m, k) == PartRows(m) * k

\* Mutation: a part ends with the first row of the next one.
EndRowShared(m, k) == IF PartRows(m) * (k + 1) < Rows(m) THEN PartRows(m) * (k + 1) + 1
                                                         ELSE PartRows(m) * (k + 1)

\* One past the last row; rows that do not fill a part are left out.
EndRow(m, k) == PartRows(m) * (k + 1)

Place(m, col, row) == row * m.width + col + 1
Stamp(m, col, row) == m.points[Place(m, col, row)].time

\* at() of a cloud with one row throws; with no row in the part it is not called.
AtThrows(m, k) == Rows(m) = 1 /\ EndRow(m, k) > FirstRow(m, k)

\* Column after column, as the two loops go.
Cells(m, k) ==
  LET rows == EndRow(m, k) - FirstRow(m, k)
  IN [n \in 1..(m.width * rows) |-> <<(n - 1) \div rows, FirstRow(m, k) + ((n - 1) % rows)>>]

\* start_time is assigned again in every column, and times are relative to it.
Begins(m, col, k) == Stamp(m, col, FirstRow(m, k))

Kept(m, k) ==
  LET cells  == Cells(m, k)
      ok(c)  == LET p == m.points[Place(m, c[1], c[2])]
                IN c[2] % point_filter_num = 0 /\ ~Close(p) /\ ~Far(p)
      out(c) == Out(Place(m, c[1], c[2]), Stamp(m, c[1], c[2]) - Begins(m, c[1], k))
  IN Picked([n \in 1..Len(cells) |-> out(cells[n])], {n \in 1..Len(cells) : ok(cells[n])})

\* An empty message has width 0, by which the size is divided.
RobosenseM1(m, k) ==
  IF m.width = 0 THEN Surf(<<>>, TRUE)
  ELSE IF feature_enabled THEN Features(m, Kept(m, k), 0) ELSE Surf(Kept(m, k), FALSE)

StartTime(m, k) ==
  IF EndRow(m, k) > FirstRow(m, k) THEN Begins(m, m.width - 1, k) ELSE start_time

\* Only a row that is not also the first one is looked at.
EndTime(m, k) ==
  IF EndRow(m, k) > FirstRow(m, k) + 1 THEN Stamp(m, m.width - 1, EndRow(m, k) - 1) ELSE end_time

-----------------------------------------------------------------------------
(* velodyne_handler *)

\* Whether the message has times; it keeps the answer for the message before when empty.
Given(m) == IF Size(m) = 0 THEN given_offset_time ELSE m.points[Size(m)].time > 0

\* Mutation: a full turn is not noticed.
AngleOneTurn(yaw, fp, last) == IF yaw <= fp THEN fp - yaw ELSE fp - yaw + Turn

\* The angle turned since the first point of the ring, in time units: the lidar turns
\* towards smaller angles, and a time before the last one belongs to the next turn.
Angle(yaw, fp, last) ==
  LET a == IF yaw <= fp THEN fp - yaw ELSE fp - yaw + Turn
  IN IF a < last THEN a + Turn ELSE a

\* One point of a message without times.  s has the first yaw and last time of each
\* ring and the points so far; the first point of a ring only starts it.
YawStep(m, s, i) ==
  LET p == m.points[i]
      r == p.ring
  IN IF r \notin Rings THEN s
     ELSE IF s.fp[r] = <<>> THEN [s EXCEPT !.fp[r] = <<p.yaw>>]
     ELSE LET t == Angle(p.yaw, s.fp[r][1], s.last[r])
          IN [s EXCEPT !.last[r] = t, !.out = Append(@, Out(i, t))]

Timed(m) ==
  LET after[i \in 0..Size(m)] ==
        IF i = 0 THEN [fp |-> NoRings, last |-> [r \in Rings |-> 0], out |-> <<>>]
        ELSE YawStep(m, after[i - 1], i)
  IN IF Given(m) THEN Untimed(m) ELSE after[Size(m)].out

\* Every point_filter_num-th of those that are not close.
Thinned(m) ==
  LET s == Timed(m)
  IN Picked(s, {k \in 1..Len(s) : Chosen(s[k].i) /\ ~Close(m.points[s[k].i])})

\* Mutation: rings with one point, and with none, are not passed over.
VelodyneShortRings(m) ==
  IF feature_enabled /\ Size(m) # 0 THEN Features(m, Timed(m), 0)
  ELSE Surf(Thinned(m), FALSE)

\* Without features the ring is an index that nobody checks.
Velodyne(m) ==
  IF Size(m) = 0 THEN Surf(<<>>, FALSE)
  ELSE IF feature_enabled THEN Features(m, Timed(m), 2)
  ELSE Surf(Thinned(m), ~Given(m) /\ \E i \in 1..Size(m) : m.points[i].ring \notin Rings)

-----------------------------------------------------------------------------
(* The callbacks that receive a message, and process(), once for each part *)

Receive(m) ==
  /\ ~past_end /\ ~thrown /\ i_sub_cloud = num_sub_cloud /\ received < MaxMessages
  /\ msg' = m /\ received' = received + 1 /\ i_sub_cloud' = 0 /\ clouds' = <<>>
  /\ start_time' = Unset /\ end_time' = Unset
  /\ UNCHANGED <<conf, pl_surf, pl_buff, given_offset_time, past_end, thrown>>

\* A handler's result, the times and the cloud that is handed back.
Handled(res, start, end) ==
  /\ ~past_end /\ ~thrown /\ i_sub_cloud < num_sub_cloud
  /\ i_sub_cloud' = i_sub_cloud + 1
  /\ pl_surf' = res.surf /\ pl_buff' = res.buff /\ past_end' \in res.past
  /\ start_time' = start /\ end_time' = end
  /\ clouds' = Append(clouds, [surf |-> res.surf, start |-> start, end |-> end])
  /\ UNCHANGED <<conf, msg, received, thrown>>

ProcessAvia ==
  /\ lidar_type = "AVIA"
  /\ Handled(Avia(msg), start_time, end_time) /\ UNCHANGED given_offset_time

ProcessOust64 ==
  /\ lidar_type = "OUST64"
  /\ Handled(Oust64(msg), start_time, end_time) /\ UNCHANGED given_offset_time

ProcessRobosenseM1 ==
  /\ lidar_type \in {"RSM1", "RSM1_BREAK"} /\ ~AtThrows(msg, i_sub_cloud)
  /\ Handled(RobosenseM1(msg, i_sub_cloud), StartTime(msg, i_sub_cloud),
             EndTime(msg, i_sub_cloud))
  /\ UNCHANGED given_offset_time

\* Nobody catches it.
ThrowRobosenseM1 ==
  /\ lidar_type \in {"RSM1", "RSM1_BREAK"}
  /\ ~past_end /\ ~thrown /\ i_sub_cloud < num_sub_cloud /\ AtThrows(msg, i_sub_cloud)
  /\ thrown' = TRUE
  /\ pl_surf' = <<>> /\ pl_buff' = IF feature_enabled THEN NoRings ELSE pl_buff
  /\ UNCHANGED <<conf, msg, received, i_sub_cloud, given_offset_time, start_time, end_time, clouds, past_end>>

ProcessVelodyne ==
  /\ lidar_type = "VELO16"
  /\ Handled(Velodyne(msg), start_time, end_time)
  /\ given_offset_time' = Given(msg)

process ==
  ProcessAvia \/ ProcessOust64 \/ ProcessRobosenseM1 \/ ThrowRobosenseM1 \/ ProcessVelodyne

Next ==
  \/ \E m \in IF received = 0 THEN Messages[lidar_type] ELSE Later[lidar_type] : Receive(m)
  \/ process

Spec == Init /\ [][Next]_vars

-----------------------------------------------------------------------------
(* Messages *)

\* A spinning lidar sends the points in the order in which they were fired.  "at" is
\* the angle it had turned by then, which is the time, if it is in the message, and
\* how much the yaw has decreased, between half a turn and half a turn, if not.
VelodyneMessage(m) ==
  /\ \A i \in 1..Size(m) :
       /\ m.points[i].at \in Nat
       /\ m.points[i].yaw \in (1 - Turn \div 2)..(Turn \div 2)
  /\ \A j \in 1..Size(m) : \A i \in 1..(j - 1) :
       LET turned == m.points[j].at - m.points[i].at
       IN turned >= 0 /\ (turned + m.points[j].yaw - m.points[i].yaw) % Turn = 0
  /\ \/ \A i \in 1..Size(m) : m.points[i].time = m.points[i].at
     \/ \A i \in 1..Size(m) : m.points[i].time = 0

\* An M1 has the same channels in every firing, in the same order and at the same
\* distances in time.  A message without columns has no points.
M1Message(m) ==
  LET Row == 0..(Rows(m) - 1)
      Col == 0..(m.width - 1)
  IN /\ m.width \in Nat
     /\ m.width = 0 => Size(m) = 0
     /\ \A i \in 1..Size(m) : m.points[i].time \in Int
     /\ \A c \in Col, n \in Row : \A e \in Col :
          Stamp(m, c, n) - Stamp(m, e, n) = Stamp(m, c, 0) - Stamp(m, e, 0)
     /\ \A c \in Col, n \in Row : \A l \in 0..n : Stamp(m, c, l) <= Stamp(m, c, n)

ASSUME MessagesAssumption ==
  \A l \in LidarTypes : \A m \in Messages[l] :
    /\ m.points \in Seq(Range(m.points))
    /\ l = "VELO16" => VelodyneMessage(m)
    /\ l \in {"RSM1", "RSM1_BREAK"} => M1Message(m)

-----------------------------------------------------------------------------
(* Properties *)

\* Point i is the first of its ring.
First(m, i) == \A k \in 1..(i - 1) : m.points[k].ring # m.points[i].ring

\* The lidar turned less than once between two returns of a ring, and not twice in all.
Steady(m) ==
  \A j \in 1..Size(m) : \A i \in 1..(j - 1) :
    m.points[i].ring = m.points[j].ring =>
      /\ m.points[j].at - m.points[i].at < 2 * Turn
      /\ (\A k \in (i + 1)..(j - 1) : m.points[k].ring # m.points[j].ring) =>
           m.points[j].at - m.points[i].at < Turn

FirstAt(m, r) == m.points[CHOOSE i \in 1..Size(m) : m.points[i].ring = r /\ First(m, i)].at

\* Points of a Velodyne message get their time since the message began if it has times,
\* and since the first return of their ring if not, also past a full turn, with
\* returns missing, and wherever the angle jumps from -180 to 180 degrees.
VelodyneTimes ==
  (lidar_type = "VELO16" /\ Steady(msg) /\ ~past_end) =>
    \A c \in 1..Len(clouds) : \A k \in 1..Len(clouds[c].surf) :
      LET q == clouds[c].surf[k]
          p == msg.points[q.i]
      IN q.curvature = IF Given(msg) THEN p.at ELSE p.at - FirstAt(msg, p.ring)

M1 == lidar_type \in {"RSM1", "RSM1_BREAK"} /\ msg.width > 0

\* The times that channels of a firing are measured before or after each other.
Skews(m) ==
  {Stamp(m, c, 0) - Stamp(m, e, 0) : c \in 0..(m.width - 1), e \in 0..(m.width - 1)}

\* The start time that the callback queues with a part, plus the time of a point, is
\* when the point was measured, up to the time between channels, though start_time is
\* assigned anew in each column; and no point of the last part is later than the end
\* time that the callback keeps, if the part has two rows.
M1Times ==
  (M1 /\ ~past_end /\ ~feature_enabled) =>
    \A c \in 1..Len(clouds) : \A k \in 1..Len(clouds[c].surf) :
      LET q == clouds[c].surf[k]
          t == msg.points[q.i].time
      IN /\ t - (clouds[c].start + q.curvature) \in Skews(msg)
         /\ q.curvature >= 0
         /\ PartRows(msg) > 1 => \E s \in Skews(msg) : t <= clouds[c].end + s

TimesRight == VelodyneTimes /\ M1Times

\* The points that the parts of an M1 message are to have: those of the rows that fill
\* parts, if they are chosen and in range.
Due(m) ==
  {i \in 1..(PartRows(m) * num_sub_cloud * m.width) :
     /\ ((i - 1) \div m.width) % point_filter_num = 0
     /\ ~Close(m.points[i]) /\ ~Far(m.points[i])}

Places == UNION {{<<c, k>> : k \in 1..Len(clouds[c].surf)} : c \in 1..Len(clouds)}
PointAt(a) == clouds[a[1]].surf[a[2]]
Delivered == {PointAt(a).i : a \in Places}

\* Nothing is delivered twice for a message, be it in two parts or from the message
\* before, and all parts of an M1 message together have its points.
PartsMakeWhole ==
  /\ \A a \in Places : PointAt(a).of = received
  /\ \A a, b \in Places : PointAt(a).i = PointAt(b).i => a = b
  /\ (M1 /\ ~feature_enabled /\ i_sub_cloud = num_sub_cloud) => Delivered = Due(msg)

\* Nothing is accessed outside of its container, except: for an M1 message without points;
\* for a Velodyne ring that scan_line does not count, in a message without times; and, when
\* features are on, for a ring with only close points, one that ends with group_size + 1
\* points that are not close or, with OUST64 and M1, an empty one.  And at() throws for
\* no message but those of an M1 with one row.
ReadsInside ==
  /\ past_end =>
       \/ lidar_type \in {"RSM1", "RSM1_BREAK"} /\ Size(msg) = 0
       \/ ~feature_enabled /\ lidar_type = "VELO16" /\ \E i \in 1..Size(msg) : msg.points[i].ring \notin Rings
       \/ feature_enabled /\ \E r \in Rings :
            \/ OnlyClose(msg, pl_buff[r]) \/ PlaneToEnd(msg, pl_buff[r])
            \/ pl_buff[r] = <<>> /\ lidar_type \in {"OUST64", "RSM1", "RSM1_BREAK"}
  /\ thrown => lidar_type \in {"RSM1", "RSM1_BREAK"} /\ Rows(msg) = 1
===============================================================================
