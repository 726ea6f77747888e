--------------------------- MODULE MechFramesProofs ---------------------------
(***************************************************************************)
(* Proofs about MechFrames: for every mechanical lidar, every set-up that  *)
(* SetupsAssumption allows and any number of packets and faults, a block   *)
(* gets the time it was fired at, a cloud holds one turn and a turn is in  *)
(* one cloud, isNewFrame reports what decodeMsopPkt splits and, for blocks *)
(* with a half-wrong id, no more than one frame too many each, the stamps  *)
(* are in the order of the points, and an ordered cloud is whole columns.  *)
(* The lidar's geometry comes first, then what a packet's iterator and the *)
(* loop over its blocks compute; on those rest the invariants, one for     *)
(* each property: TimelyCloud, TurnsRight, ColumnsRight, StampsRight and   *)
(* PaceRight, each together with MechInv.                                  *)
(***************************************************************************)
EXTENDS MechFrames, FoldTheorems

-----------------------------------------------------------------------------
(* The lidar *)

LidarInv ==
  /\ lidar \in Lidars /\ \E s \in Setups : q = s.q /\ dev = s.dev
  /\ fired \in Nat /\ phase \in {0, 1} /\ (Layout # "ABDual" => phase = 0)
  /\ paced \in Nat /\ splits \in Nat /\ refused \in Nat /\ halves \in Nat /\ faults \in Nat

LEMMA LidarConst ==
  ASSUME lidar \in LidarNames
  PROVE  /\ Const.blocks \in {3, 4, 8} /\ Const.dur \in {1, 2} /\ Const.lasers \in Nat \ {0}
         /\ Const.chans \in {32, 48, 80, 128}
         /\ lidar \in {"RS16", "RSHELIOS_16P"} => Const.blocks = 4 /\ Const.dur = 1
         /\ lidar \in {"RSP128", "RS128"} <=> Const.blocks = 3
         /\ lidar \in {"RSAIRY", "RSFAIRY"} <=> Const.blocks = 8
<1> USE DEF Const
<1>1. CASE lidar = "RS16" BY <1>1 DEF RS16
<1>2. CASE lidar = "RSBP" BY <1>2 DEF RSBP
<1>3. CASE lidar = "RS32" BY <1>3 DEF RS32
<1>4. CASE lidar = "RSHELIOS" BY <1>4 DEF RSHELIOS
<1>5. CASE lidar = "RSHELIOS_16P" BY <1>5 DEF RSHELIOS16P
<1>6. CASE lidar = "RSP128" BY <1>6 DEF RSP128
<1>7. CASE lidar = "RSP80" BY <1>7 DEF RSP80
<1>8. CASE lidar = "RSP48" BY <1>8 DEF RSP48
<1>9. CASE lidar = "RS128" BY <1>9 DEF RS128
<1>10. CASE lidar = "RS80" BY <1>10 DEF RS80
<1>11. CASE lidar = "RS48" BY <1>11 DEF RS48
<1>12. CASE lidar = "RSAIRY" BY <1>12 DEF RSAIRY
<1>13. CASE lidar = "RSFAIRY" BY <1>13 DEF RSFAIRY
<1> QED BY <1>1, <1>2, <1>3, <1>4, <1>5, <1>6, <1>7, <1>8, <1>9, <1>10, <1>11, <1>12, <1>13 DEF LidarNames

LEMMA LayoutConst ==
  ASSUME lidar \in LidarNames
  PROVE  /\ Layout \in IteratorNames
         /\ Layout = "ABDual" => Const.blocks = 3
         /\ Layout \in {"Dual", "TwoInOne"} => Const.blocks \in {4, 8}
         /\ Layout = "FourInOne" => Const.blocks = 8
         /\ Layout = "Rs16Single" => Const.blocks = 4 /\ Const.dur = 1
         /\ Layout \in {"TwoInOne", "FourInOne"} <=> ~BlockIsColumn
<1> DEFINE single == EchoSet = "SINGLE"
<1>1. single \in BOOLEAN OBVIOUS
<1> HIDE DEF single
<1>2. CASE lidar \in {"RS16", "RSHELIOS_16P"}
  <2>1. Layout = IF single THEN "Rs16Single" ELSE "Rs16Dual" BY <1>2 DEF Layout, single
  <2> QED BY <1>1, <1>2, <2>1, LidarConst DEF IteratorNames, BlockIsColumn
<1>3. CASE lidar \in {"RSP128", "RS128"}
  <2>1. Layout = IF single THEN "Single" ELSE "ABDual" BY <1>3 DEF Layout, single
  <2> QED BY <1>1, <1>3, <2>1, LidarConst DEF IteratorNames, BlockIsColumn
<1>4. CASE lidar \in {"RSAIRY", "RSFAIRY"} /\ dev.model # 1
  <2>1. Layout = IF single THEN "TwoInOne" ELSE "FourInOne" BY <1>4 DEF Layout, single
  <2> QED BY <1>1, <1>4, <2>1, LidarConst DEF IteratorNames, BlockIsColumn
<1>5. CASE ~(lidar \in {"RS16", "RSHELIOS_16P"}) /\ ~(lidar \in {"RSP128", "RS128"})
           /\ ~(lidar \in {"RSAIRY", "RSFAIRY"} /\ dev.model # 1)
  <2>1. Layout = IF single THEN "Single" ELSE "Dual" BY <1>5 DEF Layout, single
  <2> QED BY <1>1, <1>5, <2>1, LidarConst DEF IteratorNames, BlockIsColumn
<1> QED BY <1>2, <1>3, <1>4, <1>5

\* How many blocks a firing takes.
Stride ==
  CASE Layout \in {"Single", "Rs16Single", "Rs16Dual"} -> 1
    [] Layout \in {"Dual", "TwoInOne"} -> 2
    [] Layout = "FourInOne" -> 4
    [] Layout = "ABDual" -> 0

LEMMA FiringStride ==
  ASSUME lidar \in LidarNames, Layout # "ABDual"
  PROVE  /\ Stride \in {1, 2, 4} /\ FiringsPerBlock \in {1, 2}
         /\ \A b \in Nat \ {0} : FiringOf(b) = FiringsPerBlock * ((b - 1) \div Stride)
         /\ \E n \in Nat \ {0} : Const.blocks = n * Stride
<1> USE DEF Stride, FiringsPerBlock, FiringOf
<1>1. \A b \in Nat \ {0} : (b - 1) \div 1 = b - 1 /\ b - 1 \in Nat OBVIOUS
<1>2. Const.blocks \in {3, 4, 8} BY LidarConst
<1>3. CASE Layout \in {"Single", "Rs16Dual"}
  <2>1. Const.blocks = Const.blocks * 1 BY <1>2
  <2> QED BY <1>1, <1>2, <1>3, <2>1
<1>4. CASE Layout = "Rs16Single"
  <2>1. Const.blocks = Const.blocks * 1 BY <1>2
  <2> QED BY <1>1, <1>2, <1>4, <2>1
<1>5. CASE Layout \in {"Dual", "TwoInOne"}
  <2>1. Const.blocks \in {4, 8} BY <1>5, LayoutConst
  <2>2. 4 = 2 * 2 /\ 8 = 4 * 2 OBVIOUS
  <2>3. Stride = 2 /\ FiringsPerBlock = 1 BY <1>5
  <2>4. ASSUME NEW b \in Nat \ {0} PROVE FiringOf(b) = FiringsPerBlock * ((b - 1) \div Stride)
    <3>1. b - 1 \in Nat OBVIOUS
    <3>2. (b - 1) \div 2 \in Nat BY <3>1, Division
    <3>3. FiringOf(b) = (b - 1) \div 2 BY <1>5
    <3>4. 1 * ((b - 1) \div 2) = (b - 1) \div 2 BY <3>2
    <3> HIDE DEF FiringOf, Stride, FiringsPerBlock
    <3> QED BY <2>3, <3>3, <3>4, Zenon
  <2>5. \E n \in Nat \ {0} : Const.blocks = n * Stride
    <3>1. \E n \in Nat \ {0} : Const.blocks = n * 2 BY <2>1, <2>2
    <3> HIDE DEF Stride
    <3> QED BY <2>3, <3>1, Zenon
  <2> QED BY <2>3, <2>4, <2>5, Zenon
<1>6. CASE Layout = "FourInOne"
  <2>1. Const.blocks = 8 BY <1>6, LayoutConst
  <2>2. 8 = 2 * 4 OBVIOUS
  <2>3. Stride = 4 /\ FiringsPerBlock = 1 BY <1>6
  <2>4. ASSUME NEW b \in Nat \ {0} PROVE FiringOf(b) = FiringsPerBlock * ((b - 1) \div Stride)
    <3>1. b - 1 \in Nat OBVIOUS
    <3>2. (b - 1) \div 4 \in Nat BY <3>1, Division
    <3>3. FiringOf(b) = (b - 1) \div 4 BY <1>6
    <3>4. 1 * ((b - 1) \div 4) = (b - 1) \div 4 BY <3>2
    <3> HIDE DEF FiringOf, Stride, FiringsPerBlock
    <3> QED BY <2>3, <3>3, <3>4, Zenon
  <2>5. \E n \in Nat \ {0} : Const.blocks = n * Stride
    <3>1. \E n \in Nat \ {0} : Const.blocks = n * 4 BY <2>1, <2>2
    <3> HIDE DEF Stride
    <3> QED BY <2>3, <3>1, Zenon
  <2> QED BY <2>3, <2>4, <2>5, Zenon
<1> QED BY <1>3, <1>4, <1>5, <1>6, LayoutConst DEF IteratorNames

LEMMA Quotient ==
  ASSUME NEW n \in Nat, NEW w \in Nat \ {0}
  PROVE  n \div w \in Nat /\ n % w \in 0..(w - 1) /\ n = (n \div w) * w + (n % w) /\ (n \div w) * w \in Nat
<1>1. n \div w \in Nat /\ n % w \in 0..(w - 1) BY Division, Zenon
<1>2. n = (n \div w) * w + (n % w) BY Division, Zenon
<1>3. \A a, b \in Nat : a * b \in Nat BY SMTT(20)
<1> QED BY <1>1, <1>2, <1>3

LEMMA Configured ==
  ASSUME LidarInv
  PROVE  /\ lidar \in LidarNames
         /\ q.mode \in {"ANGLE", "FIXED", "CUSTOM"} /\ q.angle \in 0..Round /\ q.num \in Nat \ {0}
         /\ q.first \in BOOLEAN /\ q.dense \in BOOLEAN /\ q.wait \in BOOLEAN
         /\ dev.rps \in Nat \ {0} /\ dev.fov \in 1..Round /\ dev.model \in Nat
         /\ TurnsEvenly(dev.rps, dev.fov)
<1>1. PICK s \in Setups : q = s.q /\ dev = s.dev BY DEF LidarInv
<1>2. /\ s.q \in [mode : {"ANGLE", "FIXED", "CUSTOM"}, angle : 0..Round, num : Nat \ {0},
                  first : BOOLEAN, dense : BOOLEAN, wait : BOOLEAN, start : Nat, end : Nat]
      /\ s.dev \in [mode : Nat, rps : Nat, fov : 1..Round, model : Nat,
                    install : {"none", "normal", "side"}, reversed : BOOLEAN]
      /\ TurnsEvenly(s.dev.rps, s.dev.fov)
  BY SetupsAssumption
<1>3. dev.rps \in Nat \ {0} BY <1>1, <1>2 DEF TurnsEvenly
<1> QED BY <1>1, <1>2, <1>3, SetupsAssumption DEF LidarInv

\* A turn is of at least three firings; between two of them the head turns by at most
\* BlindStep, and by more than that across the blind zone.
LEMMA Geometry ==
  ASSUME LidarInv
  PROVE  /\ Turned \in Nat \ {0} /\ Turned = dev.rps * Const.dur /\ 2 * dev.rps <= BlindStep
         /\ Turned <= BlindStep /\ BlindStep \in Nat \ {0} /\ BlindStep <= Round /\ Round \in Nat
         /\ PerTurn \in Nat /\ PerTurn > 2
         /\ (PerTurn - 1) * Turned < dev.fov /\ dev.fov <= PerTurn * Turned
         /\ PerTurn * Turned = Round \/ Round - (PerTurn - 1) * Turned > BlindStep
         /\ (PerTurn - 1) * Turned \in Nat
<1> DEFINE r == dev.rps
           v == dev.fov
<1>1. r \in Nat \ {0} /\ v \in 1..Round /\ TurnsEvenly(r, v) BY Configured
<1>2. Const.dur \in {1, 2} BY Configured, LidarConst
<1>3. PICK T : T = Turned OBVIOUS
<1>4. PICK P : P = PerTurn OBVIOUS
<1>5. T = r * Const.dur BY <1>3 DEF Turned
<1>6. P = (v - 1) \div T + 1 BY <1>3, <1>4 DEF PerTurn
<1> HIDE DEF r, v
<1>7. T \in {r, 2 * r} BY <1>1, <1>2, <1>5
<1>8. 2 * r <= BlindStep /\ BlindStep \in 1..Round /\ Round \in Nat
  BY <1>1, IteratorAssumption DEF TurnsEvenly
<1>9. P > 2 /\ (P * T = Round \/ Round - (P - 1) * T > BlindStep)
  BY <1>1, <1>6, <1>7 DEF TurnsEvenly
<1>10. T \in Nat \ {0} /\ T <= BlindStep BY <1>1, <1>7, <1>8
<1>11. PICK a : a = (v - 1) \div T OBVIOUS
<1>12. v - 1 \in Nat /\ a \in Nat /\ v - 1 = a * T + ((v - 1) % T) /\ (v - 1) % T \in 0..(T - 1)
  <2>1. v - 1 \in Nat BY <1>1
  <2>2. PICK u \in Nat : u = v - 1 BY <2>1
  <2>3. u \div T \in Nat /\ u % T \in 0..(T - 1) /\ u = (u \div T) * T + (u % T) BY <1>10, Quotient
  <2> QED BY <1>11, <2>2, <2>3, Zenon
<1>13. P = a + 1 /\ P - 1 = a BY <1>6, <1>11, <1>12
<1>14. a * T \in Nat BY <1>10, <1>12
<1>15. P * T = a * T + T BY <1>10, <1>12, <1>13
<1>16. P \in Nat BY <1>12, <1>13
<1>17. a * T < v /\ v <= P * T 
  <2>1. PICK A \in Nat : A = a * T BY <1>14
  <2>2. PICK B \in 0..(T - 1) : B = (v - 1) % T BY <1>12
  <2>3. v - 1 = A + B /\ P * T = A + T BY <1>12, <1>15, <2>1, <2>2
  <2> HIDE DEF r, v
  <2>4. A < v /\ v <= A + T BY <1>1, <1>10, <2>1, <2>2, <2>3
  <2> QED BY <2>1, <2>3, <2>4
<1> QED BY <1>3, <1>4, <1>5, <1>8, <1>9, <1>10, <1>13, <1>14, <1>16, <1>17 DEF r, v

\* A firing's turn and place in it, the angle and the time.
LEMMA OneFiring ==
  ASSUME LidarInv, NEW k \in Nat
  PROVE  \E t \in Nat : \E c \in 0..(PerTurn - 1) :
           /\ t = k \div PerTurn /\ c = k % PerTurn /\ k = t * PerTurn + c
           /\ AzOf(k) = c * Turned /\ c * Turned \in Nat /\ AzOf(k) < Round
           /\ TimeOf(k) = t * (Round \div dev.rps) + c * Const.dur
           /\ TimeOf(k) \in Nat
           /\ TimeOf(k) * dev.rps = t * Round + AzOf(k)
<1> DEFINE t == k \div PerTurn
           c == k % PerTurn
           h == Round \div dev.rps
<1>1. PerTurn \in Nat \ {0} BY Geometry
<1>2. t \in Nat /\ c \in 0..(PerTurn - 1) /\ k = t * PerTurn + c BY <1>1, Division
<1>3. AzOf(k) = c * Turned BY DEF AzOf
<1>4. TimeOf(k) = t * h + c * Const.dur BY DEF TimeOf
<1>5. dev.rps \in Nat \ {0} /\ Round % dev.rps = 0 /\ Round \in Nat
  BY Configured, Geometry DEF TurnsEvenly
<1>6. h \in Nat /\ Round = h * dev.rps
  <2>1. h \in Nat /\ Round = h * dev.rps + (Round % dev.rps) /\ h * dev.rps \in Nat BY <1>5, Quotient
  <2> HIDE DEF h
  <2> QED BY <1>5, <2>1
<1>7. Const.dur \in {1, 2} BY Configured, LidarConst
<1>8. Turned \in Nat \ {0} /\ Turned = dev.rps * Const.dur /\ (PerTurn - 1) * Turned < Round
  BY Geometry, Configured
<1> HIDE DEF t, c, h
<1>9. c * Turned <= (PerTurn - 1) * Turned /\ c * Turned \in Nat /\ (PerTurn - 1) * Turned \in Nat
  <2>1. \A x, y, z \in Nat : x <= y => x * z <= y * z /\ x * z \in Nat /\ y * z \in Nat BY SMTT(20)
  <2>2. c \in Nat /\ PerTurn - 1 \in Nat /\ c <= PerTurn - 1 BY <1>1, <1>2
  <2> QED BY <1>8, <2>1, <2>2
<1>10. TimeOf(k) \in Nat
  <2>1. \A x, y, z, u \in Nat : x * y + z * u \in Nat BY SMTT(20)
  <2>2. c \in Nat /\ Const.dur \in Nat BY <1>1, <1>2, <1>7
  <2> QED BY <1>2, <1>4, <1>6, <2>1, <2>2
<1>11. TimeOf(k) * dev.rps = t * Round + AzOf(k)
  <2>1. \A x, y, z, u, r \in Nat : (x * y + z * u) * r = x * (y * r) + z * (r * u) BY SMTT(20)
  <2>2. c \in Nat /\ Const.dur \in Nat /\ dev.rps \in Nat BY <1>1, <1>2, <1>5, <1>7
  <2>3. TimeOf(k) * dev.rps = t * (h * dev.rps) + c * (dev.rps * Const.dur) BY <1>2, <1>4, <1>6, <2>1, <2>2
  <2> QED BY <1>3, <1>6, <1>8, <2>3, Zenon
<1>12. AzOf(k) < Round /\ c * Turned \in Nat
  <2>1. PICK x \in Nat : x = c * Turned BY <1>9
  <2>2. PICK y \in Nat : y = (PerTurn - 1) * Turned BY <1>9
  <2> QED BY <1>3, <1>5, <1>8, <1>9, <2>1, <2>2
<1> QED BY <1>2, <1>3, <1>4, <1>10, <1>11, <1>12, Zenon DEF t, c, h

LEMMA Products ==
  /\ \A x, y \in Nat : x * y \in Nat /\ x * y = y * x
  /\ \A x, y, z \in Nat : x <= y => x * z <= y * z
  /\ \A x, y, z \in Nat : x < y => x * z + z <= y * z
  /\ \A x, y, z \in Nat : (x + y) * z = x * z + y * z
  /\ \A x, y, z \in Nat : z # 0 /\ x * z <= y * z => x <= y
  /\ \A x, y, z \in Nat : z # 0 /\ x * z < y * z => x < y
<1>1. \A x, y \in Nat : x * y \in Nat /\ x * y = y * x BY SMTT(20)
<1>2. \A x, y, z \in Nat : x <= y => x * z <= y * z BY SMTT(20)
<1>3. \A x, y, z \in Nat : x < y => x * z + z <= y * z BY SMTT(20)
<1>4. \A x, y, z \in Nat : (x + y) * z = x * z + y * z BY SMTT(20)
<1>5. \A x, y, z \in Nat : z # 0 /\ x * z <= y * z => x <= y
  <2> SUFFICES ASSUME NEW x \in Nat, NEW y \in Nat, NEW z \in Nat, z # 0, x * z <= y * z, y < x PROVE FALSE OBVIOUS
  <2>1. y * z + z <= x * z BY <1>3, Zenon
  <2>2. y * z \in Nat /\ x * z \in Nat BY <1>1, Zenon
  <2> QED BY <2>1, <2>2
<1>6. \A x, y, z \in Nat : z # 0 /\ x * z < y * z => x < y
  <2> SUFFICES ASSUME NEW x \in Nat, NEW y \in Nat, NEW z \in Nat, z # 0, x * z < y * z, y <= x PROVE FALSE OBVIOUS
  <2>1. y * z <= x * z BY <1>2, Zenon
  <2>2. y * z \in Nat /\ x * z \in Nat BY <1>1, Zenon
  <2> QED BY <2>1, <2>2
<1> QED BY <1>1, <1>2, <1>3, <1>4, <1>5, <1>6, Zenon

\* The place in the turn of a firing not more than a turn later.
LEMMA LaterPlace ==
  ASSUME NEW P \in Nat \ {0}, NEW k \in Nat, NEW m \in 0..(P - 1)
  PROVE  \/ (k + m) \div P = k \div P /\ (k + m) % P = (k % P) + m /\ (k % P) + m < P
         \/ (k + m) \div P = (k \div P) + 1 /\ (k + m) % P = (k % P) + m - P /\ (k % P) + m >= P
<1>1. PICK t \in Nat : t = k \div P BY Quotient
<1>2. PICK c \in 0..(P - 1) : c = k % P BY Quotient
<1>3. k = t * P + c BY <1>1, <1>2, Quotient, Zenon
<1>4. t * P \in Nat /\ (t + 1) * P = t * P + P BY SMTT(20)
<1>5. CASE c + m < P
  <2>1. c + m \in 0..(P - 1) BY <1>5
  <2>2. (t * P + (c + m)) \div P = t /\ (t * P + (c + m)) % P = c + m BY <2>1, Division, Zenon
  <2>3. t * P + (c + m) = k + m BY <1>3, <1>4
  <2> QED BY <1>1, <1>2, <1>5, <2>2, <2>3, Zenon
<1>6. CASE ~(c + m < P)
  <2>1. c + m - P \in 0..(P - 1) BY <1>6
  <2>2. t + 1 \in Nat OBVIOUS
  <2>3. ((t + 1) * P + (c + m - P)) \div P = t + 1 /\ ((t + 1) * P + (c + m - P)) % P = c + m - P
    BY <2>1, <2>2, Division, Zenon
  <2>4. (t + 1) * P + (c + m - P) = k + m BY <1>3, <1>4
  <2>5. c + m >= P BY <1>6
  <2> QED BY <1>1, <1>2, <2>3, <2>4, <2>5, Zenon
<1> QED BY <1>5, <1>6

LEMMA LaterTurn ==
  ASSUME NEW P \in Nat \ {0}, NEW k \in Nat, NEW j \in Nat, k <= j
  PROVE  k \div P < j \div P \/ (k \div P = j \div P /\ k % P <= j % P)
<1>1. PICK t \in Nat, c \in 0..(P - 1) : t = k \div P /\ c = k % P BY Quotient
<1>2. PICK u \in Nat, e \in 0..(P - 1) : u = j \div P /\ e = j % P BY Quotient
<1>3. k = t * P + c /\ j = u * P + e BY <1>1, <1>2, Quotient, Zenon
<1>4. t * P \in Nat /\ u * P \in Nat BY Products
<1>5. u < t => u * P + P <= t * P BY Products, Zenon
<1>6. ~(u < t) BY <1>3, <1>4, <1>5
<1>7. t = u => c <= e BY <1>3, <1>4
<1> QED BY <1>1, <1>2, <1>6, <1>7

LEMMA LaterTime ==
  ASSUME LidarInv, NEW k \in Nat, NEW j \in Nat, k <= j
  PROVE  TimeOf(k) <= TimeOf(j) /\ k \div PerTurn <= j \div PerTurn
<1> DEFINE r == dev.rps
<1>1. PICK t \in Nat, c \in 0..(PerTurn - 1) :
        /\ t = k \div PerTurn /\ c = k % PerTurn /\ AzOf(k) = c * Turned /\ AzOf(k) \in Nat /\ AzOf(k) < Round
        /\ TimeOf(k) \in Nat /\ TimeOf(k) * r = t * Round + AzOf(k)
  BY OneFiring
<1>2. PICK u \in Nat, e \in 0..(PerTurn - 1) :
        /\ u = j \div PerTurn /\ e = j % PerTurn /\ AzOf(j) = e * Turned /\ AzOf(j) \in Nat /\ AzOf(j) < Round
        /\ TimeOf(j) \in Nat /\ TimeOf(j) * r = u * Round + AzOf(j)
  BY OneFiring
<1>3. PerTurn \in Nat \ {0} /\ Turned \in Nat /\ r \in Nat \ {0} /\ Round \in Nat BY Geometry, Configured
<1>4. t < u \/ (t = u /\ c <= e) BY <1>1, <1>2, <1>3, LaterTurn, Zenon
<1>5. t < u => t * Round + Round <= u * Round BY <1>3, Products, Zenon
<1>6. c <= e => c * Turned <= e * Turned
  <2>1. c \in Nat /\ e \in Nat BY <1>3
  <2> QED BY <1>3, <2>1, Products, Zenon
<1>7. t * Round \in Nat /\ u * Round \in Nat BY <1>3, Products
<1> HIDE DEF r
<1>8. TimeOf(k) * r <= TimeOf(j) * r
  <2>1. PICK A \in Nat, X \in Nat, Y \in Nat, a \in 0..(Round - 1), b \in 0..(Round - 1) :
          A = t * Round /\ X = TimeOf(k) * r /\ Y = TimeOf(j) * r /\ a = AzOf(k) /\ b = AzOf(j)
    <3>1. AzOf(k) \in 0..(Round - 1) /\ AzOf(j) \in 0..(Round - 1) BY <1>1, <1>2, <1>3
    <3>2. TimeOf(k) * r \in Nat /\ TimeOf(j) * r \in Nat BY <1>1, <1>2, <1>3, Products
    <3> QED BY <1>7, <3>1, <3>2
  <2>2. X = A + a /\ Y = u * Round + b BY <1>1, <1>2, <2>1, Zenon
  <2>3. CASE t < u BY <1>3, <1>5, <1>7, <2>1, <2>2, <2>3
  <2>4. CASE t = u /\ c <= e
    <3>1. a <= b BY <1>1, <1>2, <1>6, <2>1, <2>4, Zenon
    <3> QED BY <2>1, <2>2, <2>4, <3>1
  <2> QED BY <1>4, <2>3, <2>4
<1>9. TimeOf(k) <= TimeOf(j) BY <1>1, <1>2, <1>3, <1>8, Products
<1> QED BY <1>1, <1>2, <1>4, <1>9

\* From one block's first firing to the next block's: either the head turns on as ever,
\* or it crosses the blind zone.
LEMMA StepRight ==
  ASSUME LidarInv, NEW k \in Nat, NEW m \in {1, 2}, m * Turned <= BlindStep
  PROVE  LET s == AzDiff(AzOf(k), AzOf(k + m))
             B == (Round - dev.fov) \div dev.rps
         IN /\ ~(s > BlindStep) => s = m * Turned /\ TimeOf(k + m) = TimeOf(k) + m * Const.dur
            /\ s > BlindStep => /\ (k + m) \div PerTurn = (k \div PerTurn) + 1
                                /\ TimeOf(k) + B <= TimeOf(k + m)
                                /\ TimeOf(k + m) <= TimeOf(k) + B + m * Const.dur
            /\ B \in Nat
<1> DEFINE s == AzDiff(AzOf(k), AzOf(k + m))
           B == (Round - dev.fov) \div dev.rps
           P == PerTurn
           T == Turned
           r == dev.rps
<1>15. PICK t \in Nat, c \in 0..(P - 1) :
        /\ t = k \div P /\ c = k % P /\ AzOf(k) = c * T
        /\ TimeOf(k) \in Nat /\ TimeOf(k) * r = t * Round + AzOf(k)
  BY OneFiring
<1>1. /\ t = k \div P /\ c = k % P /\ AzOf(k) = c * T
      /\ TimeOf(k) \in Nat /\ TimeOf(k) * r = t * Round + c * T
  BY <1>15, Zenon
<1>2. k + m \in Nat OBVIOUS
<1>16. PICK u \in Nat, e \in 0..(P - 1) :
        /\ u = (k + m) \div P /\ e = (k + m) % P /\ AzOf(k + m) = e * T
        /\ TimeOf(k + m) \in Nat /\ TimeOf(k + m) * r = u * Round + AzOf(k + m)
  BY <1>2, OneFiring
<1>3. /\ u = (k + m) \div P /\ e = (k + m) % P /\ AzOf(k + m) = e * T
      /\ TimeOf(k + m) \in Nat /\ TimeOf(k + m) * r = u * Round + e * T
  BY <1>16, Zenon
<1>4. P \in Nat \ {0} /\ P > 2 /\ T \in Nat \ {0} /\ r \in Nat \ {0} /\ Round \in Nat /\ dev.fov \in 1..Round
  BY Geometry, Configured
<1>5. m \in 0..(P - 1) BY <1>4
<1>6. PICK dur \in {1, 2} : dur = Const.dur BY Configured, LidarConst
<1>7. T = r * dur BY <1>6, Geometry, Zenon
<1>8. B \in Nat /\ B * r \in Nat /\ B * r <= Round - dev.fov /\ Round - dev.fov < B * r + r
  <2>1. PICK n \in Nat : n = Round - dev.fov BY <1>4
  <2>2. n \div r \in Nat /\ n % r \in 0..(r - 1) /\ n = (n \div r) * r + (n % r) /\ (n \div r) * r \in Nat
    BY <1>4, Quotient, Zenon
  <2>3. PICK Q \in Nat, R \in 0..(r - 1) : Q = n \div r /\ R = n % r BY <2>2
  <2>4. B = Q BY <2>1, <2>3, Zenon
  <2>5. PICK Z \in Nat : Z = Q * r BY <1>4, Products
  <2>6. n = Z + R BY <2>2, <2>3, <2>5, Zenon
  <2>7. B * r = Z BY <2>4, <2>5, Zenon
  <2>8. Z <= Round - dev.fov /\ Round - dev.fov < Z + r
    <3> HIDE DEF r
    <3> QED BY <1>4, <2>1, <2>6
  <2> QED BY <2>4, <2>7, <2>8, Zenon
<1>9. t * Round \in Nat /\ u * Round \in Nat /\ c * T \in Nat /\ e * T \in Nat /\ m * T \in Nat /\ m * dur \in Nat
  <2>1. c \in Nat /\ e \in Nat BY <1>4
  <2>2. m * dur \in Nat OBVIOUS
  <2> QED BY <1>4, <2>1, <2>2, Products
<1>10. (TimeOf(k) + m * dur) * r = TimeOf(k) * r + m * T
  <2>1. \A x, y, z, w \in Nat : (x + y * z) * w = x * w + y * (w * z) BY SMTT(20)
  <2>2. m \in Nat /\ dur \in Nat OBVIOUS
  <2>3. (TimeOf(k) + m * dur) * r = TimeOf(k) * r + m * (r * dur) BY <1>1, <1>4, <2>1, <2>2
  <2> QED BY <1>7, <2>3, Zenon
<1>11. \A x, y \in Nat : x * r = y * r => x = y
  <2>1. \A x, y \in Nat, w \in Nat \ {0} : x * w = y * w => x = y BY SMTT(40)
  <2> QED BY <1>4, <2>1, Zenon
<1>12. CASE u = t /\ e = c + m
  <2>1. e * T = c * T + m * T
    <3>1. c \in Nat /\ m \in Nat BY <1>4
    <3> QED BY <1>4, <1>12, <3>1, Products
  <2>2. s = m * T
    <3> HIDE DEF T, r, P
    <3> QED BY <1>1, <1>3, <1>9, <2>1 DEF AzDiff
  <2>3. TimeOf(k + m) * r = (TimeOf(k) + m * dur) * r
    <3> HIDE DEF T, r, P
    <3> QED BY <1>1, <1>3, <1>9, <1>10, <1>12, <2>1
  <2>4. TimeOf(k + m) = TimeOf(k) + m * dur
    <3> HIDE DEF r
    <3>1. TimeOf(k) + m * dur \in Nat BY <1>1, <1>9
    <3> QED BY <1>3, <1>11, <2>3, <3>1
  <2>5. ~(s > BlindStep) BY <2>2, <1>9, IteratorAssumption
  <2> HIDE DEF s, B
  <2> QED BY <1>6, <1>8, <2>2, <2>4, <2>5 DEF s, B
<1>13. CASE u = t + 1 /\ e = c + m - P
  <2>1. PICK X \in Nat : X = t * Round BY <1>9
  <2>2. u * Round = X + Round BY <1>4, <1>13, <2>1, Products
  <2>3. PICK PT \in Nat : PT = P * T BY <1>4, Products
  <2>4. e * T + PT = c * T + m * T
    <3>1. (e + P) * T = e * T + P * T /\ (c + m) * T = c * T + m * T
      <4>1. e \in Nat /\ P \in Nat /\ c \in Nat /\ m \in Nat BY <1>4
      <4> QED BY <1>4, <4>1, Products
    <3>2. e + P = c + m BY <1>4, <1>13
    <3> QED BY <2>3, <3>1, <3>2, Zenon
  <2>5. (P - 1) * T = PT - T
    <3>1. (P - 1 + 1) * T = (P - 1) * T + 1 * T
      <4>1. P - 1 \in Nat /\ 1 \in Nat /\ T \in Nat BY <1>4
      <4>2. \A x, y, z \in Nat : (x + y) * z = x * z + y * z BY Products, Zenon
      <4> HIDE DEF T, P
      <4> QED BY <4>1, <4>2
    <3>2. P - 1 + 1 = P /\ 1 * T = T BY <1>4
    <3>3. (P - 1) * T \in Nat BY Geometry
    <3> QED BY <1>4, <2>3, <3>1, <3>2, <3>3
  <2>6. PT - T < dev.fov /\ dev.fov <= PT /\ (PT = Round \/ Round - (PT - T) > BlindStep)
    BY Geometry, <2>3, <2>5, Zenon
  <2>7. m * T = T \/ m * T = T + T BY <1>4
  <2>8. PICK mT \in Nat : mT = m * T BY <1>9
  <2>9. PICK cT, eT \in Nat : cT = c * T /\ eT = e * T BY <1>9
  <2>10. eT + PT = cT + mT /\ T <= mT BY <1>4, <2>4, <2>7, <2>8, <2>9
  <2>11. AzOf(k) = cT /\ AzOf(k + m) = eT /\ TimeOf(k) * r = X + cT /\ TimeOf(k + m) * r = X + Round + eT
    BY <1>1, <1>3, <2>1, <2>2, <2>9, Zenon
  <2>12. mT < PT /\ mT <= BlindStep /\ BlindStep \in Nat
    <3>1. m + 1 <= P /\ m \in Nat BY <1>4
    <3>2. m * T + T <= P * T BY <1>4, <3>1, Products
    <3> QED BY <1>4, <2>3, <2>8, <3>2, IteratorAssumption
  <2> HIDE DEF P, T, r, B
  <2>13. s = mT + Round - PT
    BY <1>4, <2>6, <2>10, <2>11, <2>12 DEF AzDiff
  <2>14. CASE PT = Round
    <3>1. s = mT /\ ~(s > BlindStep)
      <4>1. s = mT BY <2>13, <2>14, <1>4
      <4> HIDE DEF s
      <4> QED BY <4>1, <2>12
    <3>2. TimeOf(k + m) * r = (TimeOf(k) + m * dur) * r
      BY <1>10, <2>8, <2>10, <2>11, <2>14
    <3>3. TimeOf(k) + m * dur \in Nat BY <1>1, <1>9
    <3>4. TimeOf(k + m) = TimeOf(k) + m * dur BY <1>3, <1>11, <3>2, <3>3
    <3> HIDE DEF s
    <3> QED BY <1>6, <1>8, <2>8, <3>1, <3>4 DEF s, T, B, r
  <2>15. CASE Round - (PT - T) > BlindStep
    <3>1. s > BlindStep BY <1>4, <2>10, <2>12, <2>13, <2>15
    <3>2. (TimeOf(k) + B) * r = TimeOf(k) * r + B * r BY <1>1, <1>4, <1>8, Products
    <3>3. (TimeOf(k) + B) * r <= TimeOf(k + m) * r
      BY <1>4, <1>8, <2>6, <2>10, <2>11, <3>2
    <3>4. TimeOf(k) + B <= TimeOf(k + m)
      <4>1. TimeOf(k) + B \in Nat BY <1>1, <1>8
      <4> QED BY <1>3, <1>4, <3>3, <4>1, Products
    <3>5. (TimeOf(k) + B + m * dur + 1) * r = TimeOf(k) * r + B * r + m * T + r
      <4>1. \A x, y, z, w, v \in Nat : (x + y + z * w + 1) * v = x * v + y * v + z * (v * w) + v BY SMTT(20)
      <4>2. m \in Nat /\ dur \in Nat OBVIOUS
      <4>3. (TimeOf(k) + B + m * dur + 1) * r = TimeOf(k) * r + B * r + m * (r * dur) + r
        BY <1>1, <1>4, <1>8, <4>1, <4>2
      <4> QED BY <1>7, <4>3, Zenon
    <3>6. TimeOf(k + m) * r < (TimeOf(k) + B + m * dur + 1) * r
      BY <1>4, <1>8, <2>6, <2>8, <2>10, <2>11, <3>5
    <3>7. TimeOf(k + m) < TimeOf(k) + B + m * dur + 1
      <4>1. TimeOf(k) + B + m * dur + 1 \in Nat BY <1>1, <1>8, <1>9
      <4> QED BY <1>3, <1>4, <3>6, <4>1, Products
    <3>8. TimeOf(k + m) <= TimeOf(k) + B + m * dur
      BY <1>1, <1>3, <1>8, <1>9, <3>7
    <3> HIDE DEF s
    <3> QED BY <1>1, <1>3, <1>6, <1>8, <1>13, <3>1, <3>4, <3>8 DEF s, B, P, r
  <2> QED BY <2>6, <2>14, <2>15
<1>14. (u = t /\ e = c + m) \/ (u = t + 1 /\ e = c + m - P)
  BY <1>1, <1>3, <1>4, <1>5, LaterPlace
<1> QED BY <1>12, <1>13, <1>14

\* The times Strided adds up, for the groups from 0 to n.
Skipped(az, stride, g) == AzDiff(az[g * stride + 1], az[(g + 1) * stride + 1]) > BlindStep

StridedTs(n, az, stride, dur, blind, ts) ==
  ts = [g \in 0..n |-> IF g = 0 THEN 0 ELSE ts[g - 1] + (IF Skipped(az, stride, g - 1) THEN blind ELSE dur)]

LEMMA StridedTsAt ==
  ASSUME NEW n, NEW az, NEW stride, NEW dur, NEW blind, NEW ts, StridedTs(n, az, stride, dur, blind, ts),
         NEW g \in 0..n
  PROVE  ts[g] = IF g = 0 THEN 0 ELSE ts[g - 1] + (IF Skipped(az, stride, g - 1) THEN blind ELSE dur)
  BY Zenon DEF StridedTs

LEMMA StridedTsNext ==
  ASSUME NEW n \in Nat, NEW az, NEW stride, NEW dur, NEW blind, NEW ts, StridedTs(n, az, stride, dur, blind, ts)
  PROVE  \E h : StridedTs(n + 1, az, stride, dur, blind, h)
<1> DEFINE last == ts[n] + (IF Skipped(az, stride, n) THEN blind ELSE dur)
           h == [g \in 0..(n + 1) |-> IF g = n + 1 THEN last ELSE ts[g]]
<1>1. \A g \in 0..(n + 1) :
        h[g] = IF g = 0 THEN 0 ELSE h[g - 1] + (IF Skipped(az, stride, g - 1) THEN blind ELSE dur)
  <2> TAKE g \in 0..(n + 1)
  <2>1. CASE g = n + 1
    <3>1. n \in 0..(n + 1) /\ n # n + 1 /\ g # 0 /\ g - 1 = n BY <2>1
    <3>2. h[n] = ts[n] /\ h[g] = last BY <2>1, <3>1
    <3> HIDE DEF h
    <3>3. h[g] = h[n] + (IF Skipped(az, stride, n) THEN blind ELSE dur) BY <3>2, Zenon
    <3> QED BY <3>1, <3>3, Zenon
  <2>2. CASE g # n + 1
    <3>1. g \in 0..n /\ (g # 0 => g - 1 \in 0..n) BY <2>2
    <3>2. h[g] = ts[g] /\ (g # 0 => h[g - 1] = ts[g - 1]) BY <2>2, <3>1
    <3>3. ts[g] = IF g = 0 THEN 0 ELSE ts[g - 1] + (IF Skipped(az, stride, g - 1) THEN blind ELSE dur)
      BY <3>1, StridedTsAt
    <3> HIDE DEF h
    <3> QED BY <3>2, <3>3, Zenon
  <2> QED BY <2>1, <2>2
<1>2. h = [g \in 0..(n + 1) |-> h[g]] OBVIOUS
<1> HIDE DEF h
<1>3. StridedTs(n + 1, az, stride, dur, blind, h)
  <2>1. [g \in 0..(n + 1) |-> h[g]]
          = [g \in 0..(n + 1) |-> IF g = 0 THEN 0 ELSE h[g - 1] + (IF Skipped(az, stride, g - 1) THEN blind ELSE dur)]
    BY <1>1, Zenon
  <2> QED BY <1>2, <2>1, Zenon DEF StridedTs
<1> QED BY <1>3

LEMMA StridedTsExist ==
  ASSUME NEW n \in Nat, NEW az, NEW stride, NEW dur, NEW blind
  PROVE  \E ts : StridedTs(n, az, stride, dur, blind, ts)
<1> DEFINE T == {m \in Nat : \E ts : StridedTs(m, az, stride, dur, blind, ts)}
<1>1. 0 \in T
  <2> DEFINE z == [g \in 0..0 |-> 0]
  <2>1. z = [g \in 0..0 |-> IF g = 0 THEN 0 ELSE z[g - 1] + (IF Skipped(az, stride, g - 1) THEN blind ELSE dur)]
    <3>1. \A g \in 0..0 : g = 0 OBVIOUS
    <3> QED BY <3>1, Zenon
  <2> HIDE DEF z
  <2>2. StridedTs(0, az, stride, dur, blind, z) BY <2>1, Zenon DEF StridedTs
  <2> QED BY <2>2
<1>2. \A m \in Nat : m \in T => m + 1 \in T BY StridedTsNext
<1>3. Nat \subseteq T
  <2> HIDE DEF T
  <2> QED BY <1>1, <1>2, Induction
<1> QED BY <1>3

StridedAs(az, stride, dur, daz, blind, n, ts) ==
  /\ StridedTs(n, az, stride, dur, blind, ts)
  /\ \A b \in 1..Len(az) : \A g : g = (b - 1) \div stride =>
       Strided(az, stride, dur, daz, blind)[b]
         = [az |-> IF g = n \/ Skipped(az, stride, g) THEN daz
                   ELSE AzDiff(az[g * stride + 1], az[(g + 1) * stride + 1]),
            ts |-> ts[g]]

LEMMA StridedValue ==
  ASSUME NEW az, NEW stride, NEW dur, NEW daz, NEW blind, NEW n \in Nat, Len(az) \div stride - 1 = n
  PROVE  \E ts : StridedAs(az, stride, dur, daz, blind, n, ts)
<1> DEFINE groups == Len(az) \div stride
           ts[g \in 0..(groups - 1)] ==
             IF g = 0 THEN 0
             ELSE ts[g - 1] + (IF AzDiff(az[(g - 1) * stride + 1], az[((g - 1) + 1) * stride + 1]) > BlindStep THEN blind ELSE dur)
<1>1. StridedTs(n, az, stride, dur, blind, ts)
  <2>1. \E h : StridedTs(groups - 1, az, stride, dur, blind, h) BY StridedTsExist
  <2>2. StridedTs(groups - 1, az, stride, dur, blind, ts) BY <2>1, Zenon DEF StridedTs, Skipped
  <2> QED BY <2>2, Zenon
<1>2. ASSUME NEW b \in 1..Len(az), NEW g, g = (b - 1) \div stride
      PROVE  Strided(az, stride, dur, daz, blind)[b]
               = [az |-> IF g = n \/ Skipped(az, stride, g) THEN daz
                         ELSE AzDiff(az[g * stride + 1], az[(g + 1) * stride + 1]),
                  ts |-> ts[g]]
  BY <1>2, Zenon DEF Strided, Skipped
<1> HIDE DEF ts
<1>3. StridedAs(az, stride, dur, daz, blind, n, ts) BY <1>1, <1>2, Zenon DEF StridedAs
<1> QED BY <1>3, Zenon

\* What BlockTimes says of the offsets of a block, w after the packet's first firing.
Timed(first, w, m, o) ==
  /\ o \in Nat /\ TimeOf(first) + o <= TimeOf(first + w)
  /\ TimeOf(first + w) - (TimeOf(first) + o)
       <= ((first + w) \div PerTurn - first \div PerTurn) * m * Const.dur

LEMMA TimedNext ==
  ASSUME LidarInv, NEW first \in Nat, NEW w \in Nat, NEW m \in {1, 2}, m * Turned <= BlindStep,
         NEW o, Timed(first, w, m, o)
  PROVE  LET skips == AzDiff(AzOf(first + w), AzOf(first + w + m)) > BlindStep
             o2 == o + (IF skips THEN (Round - dev.fov) \div dev.rps ELSE m * Const.dur)
         IN Timed(first, w + m, m, o2) /\ o <= o2
<1> DEFINE k == first + w
           s == AzDiff(AzOf(k), AzOf(k + m))
           B == (Round - dev.fov) \div dev.rps
           P == PerTurn
<1>1. k \in Nat /\ k + m \in Nat /\ first + (w + m) = k + m /\ first \in Nat OBVIOUS
<1>2. PICK D \in {1, 2, 4} : D = m * Const.dur
  <2>1. Const.dur \in {1, 2} BY Configured, LidarConst
  <2> QED BY <2>1
<1>3. /\ ~(s > BlindStep) => TimeOf(k + m) = TimeOf(k) + D
      /\ s > BlindStep => /\ (k + m) \div P = (k \div P) + 1
                          /\ TimeOf(k) + B <= TimeOf(k + m)
                          /\ TimeOf(k + m) <= TimeOf(k) + B + D
      /\ B \in Nat
  BY <1>1, <1>2, StepRight
<1>4. TimeOf(first) \in Nat /\ TimeOf(k) \in Nat /\ TimeOf(k + m) \in Nat BY <1>1, OneFiring
<1>5. PICK x \in Nat : x = k \div P - first \div P
  <2>0. P \in Nat \ {0} BY Geometry
  <2>1. first \div P \in Nat /\ k \div P \in Nat
    <3> HIDE DEF P, k
    <3> QED BY <1>1, <2>0, Quotient
  <2>2. first \div P <= k \div P
    <3>1. first <= k OBVIOUS
    <3> QED BY <1>1, <3>1, LaterTime
  <2> HIDE DEF P, k
  <2> QED BY <2>1, <2>2
<1>6. PICK y \in Nat : y = (k + m) \div P - first \div P /\ y >= x /\ ((k + m) \div P = (k \div P) + 1 => y = x + 1)
  <2>0. P \in Nat \ {0} BY Geometry
  <2>1. first \div P \in Nat /\ k \div P \in Nat /\ (k + m) \div P \in Nat
    <3> HIDE DEF P, k
    <3> QED BY <1>1, <2>0, Quotient
  <2>2. k \div P <= (k + m) \div P
    <3>1. k <= k + m BY <1>1
    <3> QED BY <1>1, <3>1, LaterTime
  <2> HIDE DEF P, k
  <2>3. PICK u \in Nat, v \in Nat, z \in Nat : u = first \div P /\ v = k \div P /\ z = (k + m) \div P BY <2>1
  <2>4. x = v - u /\ v <= z BY <1>5, <2>2, <2>3, Zenon
  <2>5. z - u \in Nat /\ z - u >= x /\ (z = v + 1 => z - u = x + 1) BY <2>3, <2>4
  <2> QED BY <2>3, <2>5, Zenon
<1>7. o \in Nat /\ TimeOf(first) + o <= TimeOf(k) /\ TimeOf(k) - (TimeOf(first) + o) <= x * D
  <2>1. x * m * Const.dur = x * D
    <3>1. Const.dur \in Nat /\ m \in Nat BY Configured, LidarConst
    <3>2. \A a, b, c \in Nat : a * b * c = a * (b * c) BY SMTT(20)
    <3> QED BY <1>2, <3>1, <3>2, Zenon
  <2>2. o \in Nat /\ TimeOf(first) + o <= TimeOf(k) BY Zenon DEF Timed
  <2>3. TimeOf(k) - (TimeOf(first) + o) <= x * m * Const.dur BY <1>5, Zenon DEF Timed
  <2> QED BY <2>1, <2>2, <2>3, Zenon
<1>8. x * D \in Nat /\ y * D \in Nat /\ x * D <= y * D /\ (y = x + 1 => y * D = x * D + D)
  <2>1. D \in Nat BY <1>2
  <2>2. (x + 1) * D = x * D + D BY <2>1
  <2> QED BY <1>6, <2>1, <2>2, Products
<1>9. y * m * Const.dur = y * D
  <2>1. Const.dur \in Nat /\ m \in Nat BY Configured, LidarConst
  <2>2. \A a, b, c \in Nat : a * b * c = a * (b * c) BY SMTT(20)
  <2> QED BY <1>2, <2>1, <2>2, Zenon
<1> DEFINE o2 == o + (IF s > BlindStep THEN B ELSE D)
<1>10. /\ o2 \in Nat /\ o <= o2 /\ TimeOf(first) + o2 <= TimeOf(k + m)
       /\ TimeOf(k + m) - (TimeOf(first) + o2) <= y * D
  <2> HIDE DEF s, B, P, k
  <2>1. PICK X \in Nat, Y \in Nat : X = x * D /\ Y = y * D BY <1>8
  <2>2. X <= Y /\ (y = x + 1 => Y = X + D) BY <1>8, <2>1, Zenon
  <2>3. TimeOf(k) - (TimeOf(first) + o) <= X BY <1>7, <2>1, Zenon
  <2>4. PICK t0 \in Nat, t1 \in Nat, t2 \in Nat : t0 = TimeOf(first) /\ t1 = TimeOf(k) /\ t2 = TimeOf(k + m) BY <1>4
  <2>5. CASE s > BlindStep
    <3>1. y = x + 1 BY <1>3, <1>6, <2>5, Zenon
    <3>2. Y = X + D BY <2>2, <3>1, Zenon
    <3>3. o2 = o + B BY <2>5
    <3>4. t1 + B <= t2 /\ t2 <= t1 + B + D /\ B \in Nat BY <1>3, <2>4, <2>5, Zenon
    <3>5. t0 + o <= t1 /\ t1 - (t0 + o) <= X BY <1>7, <2>3, <2>4, Zenon
    <3> HIDE DEF o2
    <3>6. o2 \in Nat /\ o <= o2 /\ t0 + o2 <= t2 /\ t2 - (t0 + o2) <= Y
      BY <1>2, <1>7, <3>2, <3>3, <3>4, <3>5
    <3> QED BY <2>1, <2>4, <3>6, Zenon
  <2>6. CASE ~(s > BlindStep)
    <3>1. o2 = o + D BY <2>6
    <3>2. t2 = t1 + D BY <1>3, <2>4, <2>6, Zenon
    <3>3. t0 + o <= t1 /\ t1 - (t0 + o) <= X BY <1>7, <2>3, <2>4, Zenon
    <3> HIDE DEF o2
    <3>4. o2 \in Nat /\ o <= o2 /\ t0 + o2 <= t2 /\ t2 - (t0 + o2) <= Y
      BY <1>2, <1>7, <2>2, <3>1, <3>2, <3>3
    <3> QED BY <2>1, <2>4, <3>4, Zenon
  <2> QED BY <2>5, <2>6
<1>11. Timed(first, w + m, m, o2)
  <2> HIDE DEF o2, P
  <2>1. TimeOf(k + m) - (TimeOf(first) + o2) <= ((k + m) \div P - first \div P) * m * Const.dur
    BY <1>6, <1>9, <1>10, Zenon
  <2>2. first + (w + m) = k + m BY <1>1
  <2> HIDE DEF k
  <2> QED BY <1>10, <2>1, <2>2, Zenon DEF Timed, P
<1> HIDE DEF k
<1>12. first + w + m = k + m BY DEF k
<1>13. first + w = k BY DEF k
<1> QED BY <1>2, <1>10, <1>11, <1>12, <1>13, Zenon

\* The offsets an iterator computes for a packet of the lidar that begins with firing
\* "first": each block's angle is right, its time is Timed, and the times do not fall.
OffsetsRight(first, off) ==
  \A b \in 1..Const.blocks :
    /\ off[b].az = Turned * FiringsPerBlock
    /\ Timed(first, FiringOf(b), FiringsPerBlock, off[b].ts)
    /\ b > 1 => off[b - 1].ts <= off[b].ts
    /\ b = 1 => off[b].ts = 0

LEMMA StridedRight ==
  ASSUME LidarInv, Layout # "ABDual", NEW first \in Nat, NEW az, Len(az) = Const.blocks,
         \A b \in 1..Const.blocks : az[b] = AzOf(first + FiringOf(b))
  PROVE  OffsetsRight(first, Strided(az, Stride, FiringsPerBlock * Const.dur, FiringsPerBlock * Turned,
                                     (Round - dev.fov) \div dev.rps))
<1> DEFINE m == FiringsPerBlock
           w == Stride
           B == (Round - dev.fov) \div dev.rps
           off == Strided(az, w, m * Const.dur, m * Turned, B)
<1>1. w \in {1, 2, 4} /\ m \in {1, 2} /\ (\A b \in Nat \ {0} : FiringOf(b) = m * ((b - 1) \div w))
  BY Configured, FiringStride
<1>2. PICK n \in Nat \ {0} : Const.blocks = n * w BY Configured, FiringStride
<1>3. PICK dur \in {1, 2} : dur = Const.dur BY Configured, LidarConst
<1>4. m * Turned <= BlindStep /\ Turned \in Nat \ {0}
  <2>1. CASE Layout = "Rs16Single"
    <3>1. m = 2 /\ dur = 1 BY <2>1, <1>3, LayoutConst, Configured DEF FiringsPerBlock
    <3>2. Turned = dev.rps * 1 BY <1>3, <3>1, Geometry
    <3>3. dev.rps \in Nat /\ 2 * dev.rps <= BlindStep /\ Turned \in Nat \ {0} BY Geometry, Configured
    <3> QED BY <3>1, <3>2, <3>3
  <2>2. CASE Layout # "Rs16Single"
    <3>1. m = 1 BY <2>2 DEF FiringsPerBlock
    <3> QED BY <3>1, Geometry
  <2> QED BY <2>1, <2>2
<1> HIDE DEF m, w
<1>5. Len(az) \div w = n
  <2>1. 0 \in 0..(w - 1) /\ n * w + 0 = n * w BY <1>1
  <2>2. (n * w + 0) \div w = n BY <1>1, <2>1, Division
  <2> QED BY <1>2, <2>1, <2>2
<1>6. PICK ts : StridedAs(az, w, m * Const.dur, m * Turned, B, n - 1, ts)
  <2>1. PICK i \in Nat : i = n - 1 OBVIOUS
  <2>2. Len(az) \div w - 1 = i BY <1>5, <2>1
  <2> HIDE DEF B
  <2>3. \E ts : StridedAs(az, w, m * Const.dur, m * Turned, B, i, ts) BY <2>2, StridedValue, Zenon
  <2> QED BY <2>1, <2>3, Zenon
<1>15. StridedTs(n - 1, az, w, m * Const.dur, B, ts) BY <1>6, Zenon DEF StridedAs
<1> HIDE DEF off
\* The first block of group g.
<1>7. ASSUME NEW g \in 0..(n - 1) PROVE az[g * w + 1] = AzOf(first + m * g)
  <2>1. g * w + 1 \in 1..Const.blocks /\ g * w \in Nat
    <3>1. g * w + w <= n * w /\ g * w \in Nat
      <4>1. g < n /\ g \in Nat /\ w \in Nat BY <1>1
      <4> QED BY <4>1, Products
    <3> QED BY <1>1, <1>2, <3>1
  <2>2. ((g * w + 1) - 1) \div w = g
    <3>1. 0 \in 0..(w - 1) /\ (g * w + 1) - 1 = g * w + 0 /\ g \in Nat BY <1>1, <2>1
    <3>2. (g * w + 0) \div w = g BY <1>1, <3>1, Division
    <3> QED BY <3>1, <3>2
  <2>3. FiringOf(g * w + 1) = m * g
    <3>1. PICK b \in Nat \ {0} : b = g * w + 1 BY <2>1
    <3>2. FiringOf(b) = m * ((b - 1) \div w) BY <1>1
    <3> QED BY <2>2, <3>1, <3>2, Zenon
  <2> QED BY <2>1, <2>3
<1>8. ASSUME NEW g \in Nat, g + 1 <= n - 1
      PROVE  /\ AzDiff(az[g * w + 1], az[(g + 1) * w + 1]) = AzDiff(AzOf(first + m * g), AzOf(first + m * g + m))
             /\ first + m * g \in Nat
  <2>1. m * (g + 1) = m * g + m /\ m * g \in Nat BY <1>1
  <2>2. first + m * (g + 1) = first + m * g + m BY <1>1, <2>1
  <2>3. az[g * w + 1] = AzOf(first + m * g) /\ az[(g + 1) * w + 1] = AzOf(first + m * (g + 1))
    <3>1. g \in 0..(n - 1) /\ g + 1 \in 0..(n - 1) BY <1>8
    <3> QED BY <1>7, <3>1
  <2> QED BY <2>1, <2>2, <2>3
<1> DEFINE Good(g) == Timed(first, m * g, m, ts[g]) /\ (g > 0 => ts[g - 1] <= ts[g]) /\ (g = 0 => ts[g] = 0)
           S == {g \in Nat : g <= n - 1 => Good(g)}
<1>9. 0 \in S
  <2>1. ts[0] = 0
    <3>1. 0 \in 0..(n - 1) OBVIOUS
    <3> QED BY <1>15, <3>1, StridedTsAt
  <2>2. m * 0 = 0 /\ first + 0 = first /\ first \in Nat BY <1>1
  <2>3. TimeOf(first) \in Nat /\ first \div PerTurn \in Nat
    <3>1. PerTurn \in Nat \ {0} BY Geometry
    <3> QED BY <3>1, OneFiring, Quotient
  <2>4. Timed(first, 0, m, 0)
    <3>1. PICK t \in Nat, v \in Nat : t = TimeOf(first) /\ v = first \div PerTurn BY <2>3
    <3>2. (v - v) * m * dur = 0 /\ t + 0 <= t /\ t - (t + 0) <= 0 BY <1>1
    <3>3. TimeOf(first + 0) = t /\ (first + 0) \div PerTurn = v BY <2>2, <3>1, Zenon
    <3>4. 0 \in Nat OBVIOUS
    <3>5. t - (t + 0) <= (v - v) * m * dur BY <3>2, Zenon
    <3> QED BY <1>3, <3>1, <3>2, <3>3, <3>4, <3>5, Zenon DEF Timed
  <2>5. Timed(first, m * 0, m, ts[0]) BY <2>1, <2>2, <2>4, Zenon
  <2>6. ~(0 > 0) OBVIOUS
  <2>7. Good(0) BY <2>1, <2>5, <2>6, Zenon
  <2> HIDE DEF Good
  <2> QED BY <2>7
<1>10. ASSUME NEW g \in Nat, g \in S PROVE g + 1 \in S
  <2> SUFFICES ASSUME g + 1 <= n - 1 PROVE Good(g + 1) OBVIOUS
  <2>1. Timed(first, m * g, m, ts[g]) BY <1>10
  <2>2. m * g \in Nat /\ m * (g + 1) = m * g + m BY <1>1
  <2> DEFINE skips == AzDiff(AzOf(first + m * g), AzOf(first + m * g + m)) > BlindStep
             o2 == ts[g] + (IF skips THEN B ELSE m * Const.dur)
  <2>3. Timed(first, m * g + m, m, o2) /\ ts[g] <= o2
    <3> HIDE DEF B
    <3> QED BY <1>1, <1>4, <2>1, <2>2, TimedNext, ZenonT(30) DEF B
  <2>4. ts[g + 1] = ts[g] + (IF Skipped(az, w, g) THEN B ELSE m * Const.dur)
    <3>1. g + 1 \in 0..(n - 1) /\ g + 1 - 1 = g /\ g + 1 # 0 OBVIOUS
    <3>2. ts[g + 1] = IF g + 1 = 0 THEN 0 ELSE ts[g + 1 - 1] + (IF Skipped(az, w, g + 1 - 1) THEN B ELSE m * Const.dur)
      <4> HIDE DEF B
      <4> QED BY <1>15, <3>1, StridedTsAt
    <3> QED BY <3>1, <3>2, Zenon
  <2>5. Skipped(az, w, g) <=> skips BY <1>8, Zenon DEF Skipped
  <2>6. ts[g + 1] = o2 BY <2>4, <2>5, Zenon
  <2>7. g + 1 - 1 = g /\ g + 1 # 0 OBVIOUS
  <2> HIDE DEF o2
  <2>8. Timed(first, m * (g + 1), m, ts[g + 1]) BY <2>2, <2>3, <2>6, Zenon
  <2>9. ts[g + 1 - 1] <= ts[g + 1] BY <2>3, <2>6, <2>7, Zenon
  <2> QED BY <2>7, <2>8, <2>9
<1>11. \A g \in 0..(n - 1) : Good(g)
  <2>1. Nat \subseteq S
    <3> HIDE DEF S
    <3> QED BY <1>9, <1>10, Induction
  <2> HIDE DEF Good
  <2> QED BY <2>1
<1> HIDE DEF Good, S
<1>12. ASSUME NEW b \in 1..Const.blocks
       PROVE  \E g \in 0..(n - 1) :
                /\ g = (b - 1) \div w /\ FiringOf(b) = m * g /\ off[b].ts = ts[g] /\ off[b].az = m * Turned
  <2>1. b - 1 \in Nat /\ b \in Nat \ {0} /\ w \in Nat \ {0} BY <1>1
  <2>2. PICK g \in Nat : g = (b - 1) \div w BY <2>1, Quotient
  <2>3. g <= n - 1
    <3>1. PICK c \in 0..(w - 1) : b - 1 = g * w + c /\ g * w \in Nat BY <2>1, <2>2, Quotient
    <3>2. g * w + c < n * w
      <4>1. PICK N \in Nat : N = n * w BY <2>1, Products
      <4> QED BY <1>2, <2>1, <3>1, <4>1
    <3>3. c \in Nat /\ n \in Nat BY <2>1
    <3>4. g < n BY <2>1, <3>2, <3>3, Division
    <3> QED BY <3>4
  <2>4. b \in 1..Len(az) OBVIOUS
  <2>5. off[b] = [az |-> IF g = n - 1 \/ Skipped(az, w, g) THEN m * Turned
                         ELSE AzDiff(az[g * w + 1], az[(g + 1) * w + 1]),
                  ts |-> ts[g]]
    BY <1>6, <2>2, <2>4, Zenon DEF StridedAs, off
  <2>6. off[b].ts = ts[g] BY <2>5
  <2>7. off[b].az = m * Turned
    <3>1. CASE g = n - 1 \/ Skipped(az, w, g) BY <2>5, <3>1
    <3>2. CASE ~(g = n - 1 \/ Skipped(az, w, g))
      <4>1. g + 1 <= n - 1 BY <2>3, <3>2
      <4>2. off[b].az = AzDiff(AzOf(first + m * g), AzOf(first + m * g + m)) BY <1>8, <2>5, <3>2, <4>1
      <4>3. ~(AzDiff(AzOf(first + m * g), AzOf(first + m * g + m)) > BlindStep)
        BY <1>8, <3>2, <4>1, Zenon DEF Skipped
      <4>4. first + m * g \in Nat BY <1>8, <4>1
      <4> QED BY <1>1, <1>4, <4>2, <4>3, <4>4, StepRight
    <3> QED BY <3>1, <3>2
  <2>8. FiringOf(b) = m * g BY <1>1, <2>1, <2>2
  <2>9. g \in 0..(n - 1) BY <2>3
  <2> QED BY <2>2, <2>6, <2>7, <2>8, <2>9, Zenon
<1>13. ASSUME NEW b \in 1..Const.blocks
       PROVE  /\ off[b].az = Turned * m
              /\ Timed(first, FiringOf(b), m, off[b].ts)
              /\ b > 1 => off[b - 1].ts <= off[b].ts
              /\ b = 1 => off[b].ts = 0
  <2>1. PICK g \in 0..(n - 1) :
          g = (b - 1) \div w /\ FiringOf(b) = m * g /\ off[b].ts = ts[g] /\ off[b].az = m * Turned
    BY <1>12
  <2>2. off[b].az = Turned * m
    <3>1. m * Turned = Turned * m BY <1>1, <1>4
    <3> QED BY <2>1, <3>1, Zenon
  <2>3. Timed(first, FiringOf(b), m, off[b].ts) BY <1>11, <2>1, Zenon DEF Good
  <2>4. b = 1 => off[b].ts = 0
    <3>1. b = 1 => g = 0
      <4>1. 0 \in 0..(w - 1) /\ 0 * w + 0 = 0 /\ 1 - 1 = 0 BY <1>1
      <4>2. (0 * w + 0) \div w = 0 BY <1>1, <4>1, Division
      <4> QED BY <2>1, <4>1, <4>2
    <3> QED BY <1>11, <2>1, <3>1, Zenon DEF Good
  <2>5. b > 1 => off[b - 1].ts <= off[b].ts
    <3> SUFFICES ASSUME b > 1 PROVE off[b - 1].ts <= off[b].ts OBVIOUS
    <3>1. b - 1 \in 1..Const.blocks BY <1>2, <1>1, <1>3, LidarConst, Configured
    <3>2. PICK h \in 0..(n - 1) : h = (b - 1 - 1) \div w /\ off[b - 1].ts = ts[h] BY <1>12, <3>1
    <3>3. h = g \/ h + 1 = g
      <4>1. b - 1 - 1 \in Nat /\ b - 1 \in Nat /\ b - 1 = (b - 1 - 1) + 1 BY <3>1
      <4>2. w # 1 => 1 \in 0..(w - 1) /\ w \in Nat \ {0} BY <1>1
      <4>3. CASE w # 1
        <5>1. PICK x \in Nat, v \in Nat \ {0} : x = b - 1 - 1 /\ v = w BY <4>1, <4>2, <4>3
        <5>2. 1 \in 0..(v - 1) BY <4>2, <4>3, <5>1, Zenon
        <5>3. (x + 1) \div v = x \div v \/ (x + 1) \div v = (x \div v) + 1 BY <5>2, LaterPlace
        <5>4. b - 1 = x + 1 BY <4>1, <5>1, Zenon
        <5>5. h = x \div v /\ g = (x + 1) \div v BY <2>1, <3>2, <5>1, <5>4, Zenon
        <5> QED BY <5>3, <5>5
      <4>4. CASE w = 1
        <5>1. \A x \in Nat : x \div 1 = x OBVIOUS
        <5> QED BY <2>1, <3>2, <4>1, <4>4, <5>1
      <4> QED BY <4>3, <4>4
    <3>4. CASE h = g
      <4>1. ts[g] \in Nat BY <1>11, Zenon DEF Good, Timed
      <4> QED BY <2>1, <3>2, <3>4, <4>1
    <3>5. CASE h + 1 = g
      <4>1. g > 0 /\ g - 1 = h BY <3>5
      <4>2. ts[g - 1] <= ts[g] BY <1>11, <4>1, Zenon DEF Good
      <4> QED BY <2>1, <3>2, <4>1, <4>2, Zenon
    <3> QED BY <3>3, <3>4, <3>5
  <2> QED BY <2>2, <2>3, <2>4, <2>5
<1>14. OffsetsRight(first, off) BY <1>13, Zenon DEF OffsetsRight, m
<1> QED BY <1>14 DEF off, m, w

\* A packet's first firing is Timed by its own time.
LEMMA TimedFirst ==
  ASSUME LidarInv, NEW first \in Nat, NEW m \in {1, 2}
  PROVE  Timed(first, 0, m, 0)
<1>1. TimeOf(first) \in Nat /\ first \div PerTurn \in Nat /\ Const.dur \in Nat
  <2>1. PerTurn \in Nat \ {0} BY Geometry
  <2>2. TimeOf(first) \in Nat BY OneFiring
  <2>3. first \div PerTurn \in Nat BY <2>1, Quotient
  <2>4. Const.dur \in Nat BY Configured, LidarConst
  <2> QED BY <2>2, <2>3, <2>4
<1>2. PICK t \in Nat, v \in Nat, e \in Nat : t = TimeOf(first) /\ v = first \div PerTurn /\ e = Const.dur BY <1>1
<1>3. v - v = 0 /\ 0 * m = 0 /\ 0 * e = 0 OBVIOUS
<1>4. (v - v) * m * e = 0 BY <1>3, Zenon
<1>5. t + 0 = t /\ t <= t /\ t - t <= 0 /\ first + 0 = first OBVIOUS
<1>6. t - (t + 0) <= (v - v) * m * e BY <1>4, <1>5, Zenon
<1>7. t + 0 <= t BY <1>5, Zenon
<1>8. 0 \in Nat OBVIOUS
<1> QED BY <1>2, <1>5, <1>6, <1>7, <1>8, Zenon DEF Timed

LEMMA ABDualRight ==
  ASSUME LidarInv, Layout = "ABDual", NEW first \in Nat, NEW az,
         \A b \in 1..Const.blocks : az[b] = AzOf(first + FiringOf(b))
  PROVE  OffsetsRight(first, ABDualReturn(az, Const.dur, Turned, (Round - dev.fov) \div dev.rps))
<1> DEFINE B == (Round - dev.fov) \div dev.rps
           o2 == 0 + (IF AzDiff(AzOf(first + 0), AzOf(first + 0 + 1)) > BlindStep THEN B ELSE 1 * Const.dur)
           step == AzDiff(az[1], az[3])
           one == [az |-> IF step > BlindStep THEN Turned ELSE step, ts |-> 0]
           two == [az |-> Turned, ts |-> IF step > BlindStep THEN B ELSE Const.dur]
           off == ABDualReturn(az, Const.dur, Turned, B)
<1>1. Const.blocks = 3 /\ FiringsPerBlock = 1 /\ Const.dur \in {1, 2}
  BY Configured, LayoutConst, LidarConst DEF FiringsPerBlock
<1>2. phase \in {0, 1} /\ FiringOf(1) = 0 /\ FiringOf(2) = phase /\ FiringOf(3) = 1
  <2>1. phase \in {0, 1} BY DEF LidarInv
  <2>2. CASE phase = 0
    <3>1. FiringOf(1) = (1 - 1 + 0) \div 2 /\ FiringOf(2) = (2 - 1 + 0) \div 2 /\ FiringOf(3) = (3 - 1 + 0) \div 2
      BY <2>2 DEF FiringOf
    <3> QED BY <2>2, <3>1
  <2>3. CASE phase = 1
    <3>1. FiringOf(1) = (1 - 1 + 1) \div 2 /\ FiringOf(2) = (2 - 1 + 1) \div 2 /\ FiringOf(3) = (3 - 1 + 1) \div 2
      BY <2>3 DEF FiringOf
    <3> QED BY <2>3, <3>1
  <2> QED BY <2>1, <2>2, <2>3
<1>3. first + 0 = first /\ first + 0 + 1 = first + 1 /\ 0 + 1 = 1 /\ 1 * Const.dur = Const.dur /\ 1 * Turned = Turned
  BY <1>1, Geometry
<1>4. az[1] = AzOf(first) /\ az[2] = AzOf(first + phase) /\ az[3] = AzOf(first + 1)
  <2>1. 1 \in 1..3 /\ 2 \in 1..3 /\ 3 \in 1..3 OBVIOUS
  <2> QED BY <1>1, <1>2, <1>3, <2>1
<1>5. AzOf(first) # AzOf(first + 1)
  <2>1. PerTurn \in Nat \ {0} /\ 1 \in 0..(PerTurn - 1) /\ PerTurn > 2 /\ Turned \in Nat \ {0} BY Geometry
  <2>2. PICK c \in 0..(PerTurn - 1) : c = first % PerTurn BY <2>1, Quotient
  <2>3. PICK e \in 0..(PerTurn - 1) : e = (first + 1) % PerTurn BY <2>1, Quotient
  <2>4. e = c + 1 \/ e = c + 1 - PerTurn BY <2>1, <2>2, <2>3, LaterPlace
  <2>5. c # e BY <2>1, <2>4
  <2>6. c * Turned # e * Turned
    <3>1. c \in Nat /\ e \in Nat BY <2>1
    <3>2. c < e \/ e < c BY <2>5, <3>1
    <3>3. c < e => c * Turned + Turned <= e * Turned BY <2>1, <3>1, Products
    <3>4. e < c => e * Turned + Turned <= c * Turned BY <2>1, <3>1, Products
    <3>5. c * Turned \in Nat /\ e * Turned \in Nat BY <2>1, <3>1, Products
    <3> QED BY <2>1, <3>2, <3>3, <3>4, <3>5
  <2> QED BY <2>2, <2>3, <2>6, Zenon DEF AzOf
<1>6. Timed(first, 0, 1, 0) BY TimedFirst
<1>7. 1 * Turned <= BlindStep BY <1>3, Geometry
<1>8. Timed(first, 1, 1, o2) /\ 0 <= o2
  <2>1. 0 \in Nat /\ 1 \in {1, 2} OBVIOUS
  <2>2. Timed(first, 0 + 1, 1, o2) /\ 0 <= o2
    <3> HIDE DEF B
    <3> QED BY <1>6, <1>7, <2>1, TimedNext, Zenon DEF B
  <2> QED BY <1>3, <2>2, Zenon
<1>9. step = AzDiff(AzOf(first), AzOf(first + 1)) BY <1>4, Zenon
<1>10. one = [az |-> Turned, ts |-> 0]
  <2>1. ~(step > BlindStep) => step = 1 * Turned
    <3>1. 1 \in {1, 2} OBVIOUS
    <3> HIDE DEF step
    <3> QED BY <1>7, <1>9, <3>1, StepRight, Zenon
  <2> QED BY <1>3, <2>1, Zenon
<1>11. two = [az |-> Turned, ts |-> o2]
  <2>1. two.ts = o2
    <3>1. PICK x : x = (IF step > BlindStep THEN B ELSE Const.dur) OBVIOUS
    <3>2. o2 = 0 + x BY <1>3, <1>9, <3>1, Zenon
    <3>3. x \in Nat
      <4>1. 1 \in {1, 2} OBVIOUS
      <4>2. B \in Nat BY <1>7, <4>1, StepRight, Zenon
      <4> HIDE DEF B, step
      <4> QED BY <1>1, <3>1, <4>2
    <3>4. 0 + x = x BY <3>3
    <3> HIDE DEF o2, step, B
    <3> QED BY <3>1, <3>2, <3>4, Zenon
  <2> HIDE DEF o2
  <2> QED BY <2>1
<1>12. off = IF az[1] = az[2] THEN <<one, one, two>> ELSE <<one, two, two>>
  BY Zenon DEF ABDualReturn
<1>13. (phase = 0 => off = <<one, one, two>>) /\ (phase = 1 => off = <<one, two, two>>)
  <2>1. phase = 0 => az[1] = az[2] BY <1>3, <1>4, Zenon
  <2>2. phase = 1 => az[1] # az[2] BY <1>4, <1>5, Zenon
  <2> HIDE DEF off, one, two
  <2> QED BY <1>12, <2>1, <2>2, Zenon
<1> HIDE DEF off, one, two, o2, step, B
<1>14. ASSUME NEW b \in 1..3
       PROVE  /\ off[b].az = Turned
              /\ Timed(first, FiringOf(b), 1, off[b].ts)
              /\ b > 1 => off[b - 1].ts <= off[b].ts
              /\ b = 1 => off[b].ts = 0
  <2>1. CASE phase = 0
    <3>1. off[1] = one /\ off[2] = one /\ off[3] = two BY <1>13, <2>1
    <3>2. b = 1 \/ b = 2 \/ b = 3 OBVIOUS
    <3>3. 2 - 1 = 1 /\ 3 - 1 = 2 /\ 0 <= 0 /\ ~(1 > 1) OBVIOUS
    <3>4. one.ts = 0 /\ one.az = Turned /\ two.ts = o2 /\ two.az = Turned BY <1>10, <1>11
    <3> QED BY <1>2, <1>6, <1>8, <2>1, <3>1, <3>2, <3>3, <3>4, Zenon
  <2>2. CASE phase = 1
    <3>1. off[1] = one /\ off[2] = two /\ off[3] = two BY <1>13, <2>2
    <3>2. b = 1 \/ b = 2 \/ b = 3 OBVIOUS
    <3>3. 2 - 1 = 1 /\ 3 - 1 = 2 /\ ~(1 > 1) OBVIOUS
    <3>4. one.ts = 0 /\ one.az = Turned /\ two.ts = o2 /\ two.az = Turned BY <1>10, <1>11
    <3>5. o2 <= o2 BY <1>8 DEF Timed
    <3> QED BY <1>2, <1>6, <1>8, <2>2, <3>1, <3>2, <3>3, <3>4, <3>5, Zenon
  <2> QED BY <1>2, <2>1, <2>2
<1>15. Turned = Turned * 1 BY Geometry
<1>16. OffsetsRight(first, off) BY <1>1, <1>14, <1>15, Zenon DEF OffsetsRight
<1> QED BY <1>16, Zenon DEF off, B

LEMMA IterateRight ==
  ASSUME LidarInv, NEW first \in Nat, NEW az, Len(az) = Const.blocks,
         \A b \in 1..Const.blocks : az[b] = AzOf(first + FiringOf(b))
  PROVE  OffsetsRight(first, Iterate(Layout, az, Const.dur, Turned, (Round - dev.fov) \div dev.rps))
<1> DEFINE B == (Round - dev.fov) \div dev.rps
<1>1. Const.dur \in {1, 2} /\ Turned \in Nat \ {0} /\ Layout \in IteratorNames
  BY Configured, Geometry, LidarConst, LayoutConst
<1>2. CASE Layout = "ABDual"
  <2>1. Iterate(Layout, az, Const.dur, Turned, B) = ABDualReturn(az, Const.dur, Turned, B)
    BY <1>2 DEF Iterate
  <2> HIDE DEF B
  <2> QED BY <1>2, <2>1, ABDualRight, Zenon DEF B
<1>3. CASE Layout # "ABDual"
  <2>1. OffsetsRight(first, Strided(az, Stride, FiringsPerBlock * Const.dur, FiringsPerBlock * Turned, B))
    BY <1>3, StridedRight, Zenon
  <2>2. 1 * Const.dur = Const.dur /\ 1 * Turned = Turned BY <1>1
  <2> HIDE DEF B
  <2>3. CASE Layout \in {"Single", "Rs16Dual"}
    <3>1. Stride = 1 /\ FiringsPerBlock = 1 BY <2>3 DEF Stride, FiringsPerBlock
    <3>2. Iterate(Layout, az, Const.dur, Turned, B) = Strided(az, 1, Const.dur, Turned, B)
      BY <2>3 DEF Iterate, SingleReturn, Rs16DualReturn
    <3> QED BY <2>1, <2>2, <3>1, <3>2, Zenon DEF B
  <2>4. CASE Layout \in {"Dual", "TwoInOne"}
    <3>1. Stride = 2 /\ FiringsPerBlock = 1 BY <2>4 DEF Stride, FiringsPerBlock
    <3>2. Iterate(Layout, az, Const.dur, Turned, B) = Strided(az, 2, Const.dur, Turned, B)
      BY <2>4 DEF Iterate, DualReturn, TwoInOne
    <3> QED BY <2>1, <2>2, <3>1, <3>2, Zenon DEF B
  <2>5. CASE Layout = "FourInOne"
    <3>1. Stride = 4 /\ FiringsPerBlock = 1 BY <2>5 DEF Stride, FiringsPerBlock
    <3>2. Iterate(Layout, az, Const.dur, Turned, B) = Strided(az, 4, Const.dur, Turned, B)
      BY <2>5 DEF Iterate, FourInOne
    <3> QED BY <2>1, <2>2, <3>1, <3>2, Zenon DEF B
  <2>6. CASE Layout = "Rs16Single"
    <3>1. Stride = 1 /\ FiringsPerBlock = 2 BY <2>6 DEF Stride, FiringsPerBlock
    <3>2. Iterate(Layout, az, Const.dur, Turned, B) = Strided(az, 1, 2 * Const.dur, 2 * Turned, B)
      BY <2>6 DEF Iterate, Rs16SingleReturn
    <3> QED BY <2>1, <3>1, <3>2, Zenon DEF B
  <2> QED BY <1>1, <1>3, <2>3, <2>4, <2>5, <2>6 DEF IteratorNames, B
<1> QED BY <1>2, <1>3

\* The frames that decoding a packet goes through, for the blocks up to n.
DecodeRun(n, q_, e, l, g, p, off, height, error, mirrored, a) ==
  a = [b \in 0..n |-> IF b = 0 THEN [g EXCEPT !.ret = FALSE, !.err = "none"]
                      ELSE DecodeNext(q_, e, l, a[b - 1], p, b, off, height, error, mirrored)]

LEMMA DecodeRunNext ==
  ASSUME NEW n \in Nat, NEW q_, NEW e, NEW l, NEW g, NEW p, NEW off, NEW height, NEW error, NEW mirrored, NEW a,
         DecodeRun(n, q_, e, l, g, p, off, height, error, mirrored, a)
  PROVE  \E h : DecodeRun(n + 1, q_, e, l, g, p, off, height, error, mirrored, h)
<1> DEFINE Begin == [g EXCEPT !.ret = FALSE, !.err = "none"]
           Next1(x, b) == DecodeNext(q_, e, l, x, p, b, off, height, error, mirrored)
           h == [b \in 0..(n + 1) |-> IF b = n + 1 THEN Next1(a[n], n + 1) ELSE a[b]]
<1> HIDE DEF Next1, Begin
<1>1. \A b \in 0..n : a[b] = IF b = 0 THEN Begin ELSE Next1(a[b - 1], b)
  <2> TAKE b \in 0..n
  <2>1. a[b] = IF b = 0 THEN [g EXCEPT !.ret = FALSE, !.err = "none"]
               ELSE DecodeNext(q_, e, l, a[b - 1], p, b, off, height, error, mirrored)
    BY Zenon DEF DecodeRun
  <2> QED BY <2>1, Zenon DEF Next1, Begin
<1>2. \A b \in 0..(n + 1) : h[b] = IF b = 0 THEN Begin ELSE Next1(h[b - 1], b)
  <2> TAKE b \in 0..(n + 1)
  <2>1. CASE b = n + 1
    <3>1. n \in 0..(n + 1) /\ n # n + 1 /\ b # 0 /\ b - 1 = n BY <2>1
    <3>2. h[n] = a[n] /\ h[b] = Next1(a[n], n + 1) BY <2>1, <3>1
    <3> HIDE DEF h
    <3> QED BY <2>1, <3>1, <3>2, Zenon
  <2>2. CASE b # n + 1
    <3>1. b \in 0..n /\ (b # 0 => b - 1 \in 0..n) BY <2>2
    <3>2. h[b] = a[b] /\ (b # 0 => h[b - 1] = a[b - 1]) BY <2>2, <3>1
    <3> HIDE DEF h
    <3> QED BY <1>1, <3>1, <3>2, Zenon
  <2> QED BY <2>1, <2>2
<1>3. h = [b \in 0..(n + 1) |-> h[b]] OBVIOUS
<1> HIDE DEF h
<1>4. h = [b \in 0..(n + 1) |-> IF b = 0 THEN Begin ELSE Next1(h[b - 1], b)]
  <2>1. [b \in 0..(n + 1) |-> h[b]] = [b \in 0..(n + 1) |-> IF b = 0 THEN Begin ELSE Next1(h[b - 1], b)]
    BY <1>2, Zenon
  <2> QED BY <1>3, <2>1, Zenon
<1> QED BY <1>4, Zenon DEF DecodeRun, Next1, Begin

LEMMA DecodeRunExists ==
  ASSUME NEW n \in Nat, NEW q_, NEW e, NEW l, NEW g, NEW p, NEW off, NEW height, NEW error, NEW mirrored
  PROVE  \E a : DecodeRun(n, q_, e, l, g, p, off, height, error, mirrored, a)
<1> DEFINE T == {m \in Nat : \E a : DecodeRun(m, q_, e, l, g, p, off, height, error, mirrored, a)}
<1>1. 0 \in T
  <2> DEFINE Begin == [g EXCEPT !.ret = FALSE, !.err = "none"]
             z == [b \in 0..0 |-> Begin]
  <2>1. z = [b \in 0..0 |-> IF b = 0 THEN Begin
                            ELSE DecodeNext(q_, e, l, z[b - 1], p, b, off, height, error, mirrored)]
    <3>1. \A b \in 0..0 : b = 0 OBVIOUS
    <3> HIDE DEF Begin
    <3> QED BY <3>1, Zenon
  <2> HIDE DEF z
  <2>2. DecodeRun(0, q_, e, l, g, p, off, height, error, mirrored, z) BY <2>1, Zenon DEF DecodeRun
  <2> QED BY <2>2
<1>2. \A m \in Nat : m \in T => m + 1 \in T BY DecodeRunNext
<1>3. Nat \subseteq T
  <2> HIDE DEF T
  <2> QED BY <1>1, <1>2, Induction
<1> QED BY <1>3

LEMMA DecodeBlocksRun ==
  ASSUME NEW q_, NEW e, NEW l, l.blocks \in Nat, NEW g, NEW p, NEW it, NEW height, NEW error, NEW mirrored
  PROVE  \E a : /\ DecodeRun(l.blocks, q_, e, l, g, p, Iterate(it, p.az, l.dur, e.daz, e.blind), height, error, mirrored, a)
                /\ DecodeBlocks(q_, e, l, g, p, it, height, error, mirrored) = a[l.blocks]
<1> DEFINE off == Iterate(it, p.az, l.dur, e.daz, e.blind)
           after[b \in 0..l.blocks] ==
             IF b = 0 THEN [g EXCEPT !.ret = FALSE, !.err = "none"]
             ELSE DecodeNext(q_, e, l, after[b - 1], p, b, off, height, error, mirrored)
<1>1. DecodeRun(l.blocks, q_, e, l, g, p, off, height, error, mirrored, after)
  <2>1. \E a : DecodeRun(l.blocks, q_, e, l, g, p, off, height, error, mirrored, a)
    <3> HIDE DEF off
    <3> QED BY DecodeRunExists
  <2> HIDE DEF off
  <2> QED BY <2>1, Zenon DEF DecodeRun
<1>2. DecodeBlocks(q_, e, l, g, p, it, height, error, mirrored) = after[l.blocks]
  BY Zenon DEF DecodeBlocks
<1> HIDE DEF after
<1> QED BY <1>1, <1>2, Zenon

\* What isNewFrame goes through.
FeedRun(n, q_, e, sp, p, a) ==
  a = [b \in 0..n |-> IF b = 0 THEN [split |-> FALSE, sp |-> sp] ELSE FeedNext(q_, e, a[b - 1], p, b)]

LEMMA FeedRunNext ==
  ASSUME NEW n \in Nat, NEW q_, NEW e, NEW sp, NEW p, NEW a, FeedRun(n, q_, e, sp, p, a)
  PROVE  \E h : FeedRun(n + 1, q_, e, sp, p, h)
<1> DEFINE Begin == [split |-> FALSE, sp |-> sp]
           Next1(x, b) == FeedNext(q_, e, x, p, b)
           h == [b \in 0..(n + 1) |-> IF b = n + 1 THEN Next1(a[n], n + 1) ELSE a[b]]
<1> HIDE DEF Next1, Begin
<1>1. \A b \in 0..n : a[b] = IF b = 0 THEN Begin ELSE Next1(a[b - 1], b)
  <2> TAKE b \in 0..n
  <2>1. a[b] = IF b = 0 THEN [split |-> FALSE, sp |-> sp] ELSE FeedNext(q_, e, a[b - 1], p, b)
    BY Zenon DEF FeedRun
  <2> QED BY <2>1, Zenon DEF Next1, Begin
<1>2. \A b \in 0..(n + 1) : h[b] = IF b = 0 THEN Begin ELSE Next1(h[b - 1], b)
  <2> TAKE b \in 0..(n + 1)
  <2>1. CASE b = n + 1
    <3>1. n \in 0..(n + 1) /\ n # n + 1 /\ b # 0 /\ b - 1 = n BY <2>1
    <3>2. h[n] = a[n] /\ h[b] = Next1(a[n], n + 1) BY <2>1, <3>1
    <3> HIDE DEF h
    <3> QED BY <2>1, <3>1, <3>2, Zenon
  <2>2. CASE b # n + 1
    <3>1. b \in 0..n /\ (b # 0 => b - 1 \in 0..n) BY <2>2
    <3>2. h[b] = a[b] /\ (b # 0 => h[b - 1] = a[b - 1]) BY <2>2, <3>1
    <3> HIDE DEF h
    <3> QED BY <1>1, <3>1, <3>2, Zenon
  <2> QED BY <2>1, <2>2
<1>3. h = [b \in 0..(n + 1) |-> h[b]] OBVIOUS
<1> HIDE DEF h
<1>4. h = [b \in 0..(n + 1) |-> IF b = 0 THEN Begin ELSE Next1(h[b - 1], b)]
  <2>1. [b \in 0..(n + 1) |-> h[b]] = [b \in 0..(n + 1) |-> IF b = 0 THEN Begin ELSE Next1(h[b - 1], b)]
    BY <1>2, Zenon
  <2> QED BY <1>3, <2>1, Zenon
<1> QED BY <1>4, Zenon DEF FeedRun, Next1, Begin

LEMMA FeedRunExists ==
  ASSUME NEW n \in Nat, NEW q_, NEW e, NEW sp, NEW p
  PROVE  \E a : FeedRun(n, q_, e, sp, p, a)
<1> DEFINE T == {m \in Nat : \E a : FeedRun(m, q_, e, sp, p, a)}
<1>1. 0 \in T
  <2> DEFINE Begin == [split |-> FALSE, sp |-> sp]
             z == [b \in 0..0 |-> Begin]
  <2>1. z = [b \in 0..0 |-> IF b = 0 THEN Begin ELSE FeedNext(q_, e, z[b - 1], p, b)]
    <3>1. \A b \in 0..0 : b = 0 OBVIOUS
    <3> HIDE DEF Begin
    <3> QED BY <3>1, Zenon
  <2> HIDE DEF z
  <2>2. FeedRun(0, q_, e, sp, p, z) BY <2>1, Zenon DEF FeedRun
  <2> QED BY <2>2
<1>2. \A m \in Nat : m \in T => m + 1 \in T BY FeedRunNext
<1>3. Nat \subseteq T
  <2> HIDE DEF T
  <2> QED BY <1>1, <1>2, Induction
<1> QED BY <1>3

LEMMA FeedUntilSplitRun ==
  ASSUME NEW q_, NEW e, NEW l, l.blocks \in Nat, NEW sp, NEW p
  PROVE  \E a : FeedRun(l.blocks, q_, e, sp, p, a) /\ FeedUntilSplit(q_, e, l, sp, p) = a[l.blocks]
<1> DEFINE after[b \in 0..l.blocks] ==
             IF b = 0 THEN [split |-> FALSE, sp |-> sp] ELSE FeedNext(q_, e, after[b - 1], p, b)
<1>1. FeedRun(l.blocks, q_, e, sp, p, after)
  <2>1. \E a : FeedRun(l.blocks, q_, e, sp, p, a) BY FeedRunExists
  <2> QED BY <2>1, Zenon DEF FeedRun
<1>2. FeedUntilSplit(q_, e, l, sp, p) = after[l.blocks] BY Zenon DEF FeedUntilSplit
<1> HIDE DEF after
<1> QED BY <1>1, <1>2, Zenon

Blk == [az : Nat, ts : Nat, turn : Nat, n : Nat \ {0}, sent : Nat, gaps : Nat, known : BOOLEAN]

HandedOut == [stamp : Nat, height : Nat \ {0}, blocks : Seq(Blk) \ {<<>>}]

Errors == {"none", "WRONGMSOPBLKID", "WRONGMSOPID", "silent", "UNSUPPORTED"}

Frame == [sp : [prev : Nat, blks : Nat], cloud : Seq(Blk), first : Nat, prev : Nat,
          out : Seq(HandedOut), ret : BOOLEAN, err : Errors, known : BOOLEAN]

\* A cloud has points if it has blocks.
LEMMA CloudHasPoints ==
  ASSUME NEW c \in Seq(Blk)
  PROVE  CloudPoints(c) \in Nat /\ (CloudPoints(c) = 0 <=> c = <<>>)
<1> DEFINE g == [i \in DOMAIN c |-> c[i].n]
<1>1. Len(c) \in Nat /\ DOMAIN c = 1..Len(c) /\ \A i \in 1..Len(c) : c[i] \in Blk OBVIOUS
<1>2. \A i \in 1..Len(c) : c[i].n \in Nat /\ c[i].n # 0 BY <1>1 DEF Blk
<1>3. g \in [1..Len(c) -> Nat] /\ \A i \in 1..Len(c) : g[i] # 0 BY <1>1, <1>2
<1>4. CloudPoints(c) = SumFunction(g) BY DEF CloudPoints
<1> HIDE DEF g
<1>5. SumFunction(g) \in Nat /\ SumFunction(g) >= Len(c) BY <1>1, <1>3, SumBounds
<1>6. c = <<>> => SumFunction(g) = 0
  <2>1. \A i \in 1..0 : g[i] = 0 OBVIOUS
  <2>2. c = <<>> => Len(c) = 0 OBVIOUS
  <2>3. 0 \in Nat /\ 0 * 0 = 0 OBVIOUS
  <2>4. Len(c) = 0 => SumFunction(g) = 0 * 0
    <3> SUFFICES ASSUME Len(c) = 0 PROVE SumFunction(g) = 0 * 0 OBVIOUS
    <3>1. g \in [1..0 -> Nat] BY <1>3
    <3> QED BY <2>1, <2>3, <3>1, SumBounds
  <2> QED BY <2>2, <2>3, <2>4
<1>7. c # <<>> => Len(c) > 0 BY <1>1
<1> QED BY <1>1, <1>4, <1>5, <1>6, <1>7

\* The clouds handed out when a frame begins, or not.
Handed(x, h) ==
  IF x.cloud = <<>> THEN x.out
  ELSE Append(x.out, [stamp |-> CloudTs(q, x), height |-> IF q.dense THEN 1 ELSE h, blocks |-> x.cloud])

LEMMA BeginEffect ==
  ASSUME NEW x \in Frame, NEW h, NEW ts
  PROVE  BeginFrame(q, x, h, ts)
           = [sp |-> x.sp, cloud |-> <<>>, first |-> ts, prev |-> x.prev, out |-> Handed(x, h), ret |-> TRUE,
              err |-> x.err, known |-> x.known]
<1>1. x = [sp |-> x.sp, cloud |-> x.cloud, first |-> x.first, prev |-> x.prev, out |-> x.out, ret |-> x.ret,
           err |-> x.err, known |-> x.known]
  BY DEF Frame
<1>2. x.cloud \in Seq(Blk) BY DEF Frame
<1>3. CASE x.cloud = <<>>
  <2>1. SplitFrame(q, x, h) = x BY <1>2, <1>3, CloudHasPoints DEF SplitFrame
  <2>2. BeginFrame(q, x, h, ts) = [x EXCEPT !.first = ts, !.ret = TRUE] BY <2>1, Zenon DEF BeginFrame
  <2> QED BY <1>1, <1>3, <2>2 DEF Handed
<1>4. CASE x.cloud # <<>>
  <2> DEFINE c == [stamp |-> CloudTs(q, x), height |-> IF q.dense THEN 1 ELSE h, blocks |-> x.cloud]
  <2>1. SplitFrame(q, x, h) = [x EXCEPT !.out = Append(@, c), !.cloud = <<>>]
    BY <1>2, <1>4, CloudHasPoints DEF SplitFrame
  <2>2. Handed(x, h) = Append(x.out, c) BY <1>4 DEF Handed
  <2> HIDE DEF c
  <2>3. SplitFrame(q, x, h) = [sp |-> x.sp, cloud |-> <<>>, first |-> x.first, prev |-> x.prev,
                               out |-> Append(x.out, c), ret |-> x.ret, err |-> x.err, known |-> x.known]
    BY <1>1, <2>1
  <2>4. PICK z : z = SplitFrame(q, x, h) OBVIOUS
  <2>5. BeginFrame(q, x, h, ts) = [z EXCEPT !.first = ts, !.ret = TRUE] BY <2>4, Zenon DEF BeginFrame
  <2>6. z = [sp |-> x.sp, cloud |-> <<>>, first |-> x.first, prev |-> x.prev,
             out |-> Handed(x, h), ret |-> x.ret, err |-> x.err, known |-> x.known]
    BY <2>2, <2>3, <2>4, Zenon
  <2> QED BY <2>5, <2>6
<1> QED BY <1>3, <1>4

\* A block's points come last.
With(c, n, blk) == IF n = 0 THEN c ELSE Append(c, blk)

LEMMA DecodeBlockEffect ==
  ASSUME NEW x \in Frame, NEW e, NEW l, NEW p, NEW b, NEW off, NEW h, NEW mirrored
  PROVE  LET ts  == p.ts + off[b].ts
             s   == NewBlock(q, e, x.sp, p.az[b])
             n   == Points(q, l, p, p.az[b], mirrored)
             blk == [az |-> p.az[b], ts |-> ts, turn |-> off[b].az, n |-> n, sent |-> p.at[b],
                     gaps |-> p.gaps[b], known |-> p.known]
         IN DecodeBlock(q, e, l, x, p, b, off, h, mirrored)
              = IF s.split
                THEN [sp |-> s.sp, cloud |-> With(<<>>, n, blk), first |-> ts, prev |-> ts, out |-> Handed(x, h),
                      ret |-> TRUE, err |-> x.err, known |-> x.known /\ p.known]
                ELSE [sp |-> s.sp, cloud |-> With(x.cloud, n, blk), first |-> x.first, prev |-> ts, out |-> x.out,
                      ret |-> x.ret, err |-> x.err, known |-> x.known /\ p.known]
<1> DEFINE ts  == p.ts + off[b].ts
           s   == NewBlock(q, e, x.sp, p.az[b])
           n   == Points(q, l, p, p.az[b], mirrored)
           blk == [az |-> p.az[b], ts |-> ts, turn |-> off[b].az, n |-> n, sent |-> p.at[b],
                   gaps |-> p.gaps[b], known |-> p.known]
           g   == IF s.split THEN BeginFrame(q, x, h, ts) ELSE x
           y   == DecodeBlock(q, e, l, x, p, b, off, h, mirrored)
<1>1. y = [g EXCEPT !.sp = s.sp, !.cloud = IF n = 0 THEN @ ELSE Append(@, blk), !.prev = ts, !.known = @ /\ p.known]
  BY Zenon DEF DecodeBlock
<1>2. x = [sp |-> x.sp, cloud |-> x.cloud, first |-> x.first, prev |-> x.prev, out |-> x.out, ret |-> x.ret,
           err |-> x.err, known |-> x.known]
  BY DEF Frame
<1>3. PICK k : k = p.known OBVIOUS
<1>4. CASE s.split
  <2>1. g = [sp |-> x.sp, cloud |-> <<>>, first |-> ts, prev |-> x.prev, out |-> Handed(x, h), ret |-> TRUE,
             err |-> x.err, known |-> x.known]
    <3> HIDE DEF ts
    <3> QED BY <1>4, BeginEffect
  <2>2. y = [sp |-> s.sp, cloud |-> With(<<>>, n, blk), first |-> ts, prev |-> ts, out |-> Handed(x, h),
             ret |-> TRUE, err |-> x.err, known |-> x.known /\ p.known]
    <3> HIDE DEF y, g, blk, n, s, ts
    <3> QED BY <1>1, <2>1 DEF With
  <2> HIDE DEF y, n, blk, s
  <2>3. y = IF s.split
            THEN [sp |-> s.sp, cloud |-> With(<<>>, n, blk), first |-> ts, prev |-> ts, out |-> Handed(x, h),
                      ret |-> TRUE, err |-> x.err, known |-> x.known /\ p.known]
            ELSE [sp |-> s.sp, cloud |-> With(x.cloud, n, blk), first |-> x.first, prev |-> ts, out |-> x.out,
                      ret |-> x.ret, err |-> x.err, known |-> x.known /\ p.known]
    BY <1>4, <2>2, Zenon
  <2> QED BY <2>3, Zenon DEF y, n, blk, s
<1>5. CASE ~s.split
  <2>1. g = x BY <1>5
  <2>2. y = [sp |-> s.sp, cloud |-> With(x.cloud, n, blk), first |-> x.first, prev |-> ts, out |-> x.out,
             ret |-> x.ret, err |-> x.err, known |-> x.known /\ p.known]
    <3> HIDE DEF y, g, blk, n, s, ts
    <3> QED BY <1>1, <1>2, <2>1 DEF With
  <2> HIDE DEF y, n, blk, s
  <2>3. y = IF s.split
            THEN [sp |-> s.sp, cloud |-> With(<<>>, n, blk), first |-> ts, prev |-> ts, out |-> Handed(x, h),
                      ret |-> TRUE, err |-> x.err, known |-> x.known /\ p.known]
            ELSE [sp |-> s.sp, cloud |-> With(x.cloud, n, blk), first |-> x.first, prev |-> ts, out |-> x.out,
                      ret |-> x.ret, err |-> x.err, known |-> x.known /\ p.known]
    BY <1>5, <2>2, Zenon
  <2> QED BY <2>3, Zenon DEF y, n, blk, s
<1> QED BY <1>4, <1>5

Begins(prev, az) == (IF az < prev THEN prev - Round ELSE prev) < q.angle /\ q.angle <= az

\* What one block of a packet does to the frame: block k is fired TimeOf(k), o is its
\* offsets, n its points; kn tells whether the decoder knows the lidar.
BlockOf(first, k, o, n, kn) ==
  [az |-> AzOf(k), ts |-> TimeOf(first) + o.ts, turn |-> o.az, n |-> n, sent |-> TimeOf(k),
   gaps |-> k \div PerTurn - first \div PerTurn, known |-> kn]

BlockStep(x, y, h, first, k, o, kn) ==
  \E n \in Nat :
    /\ ~q.dense => n = Const.chans
    /\ q.mode = "ANGLE" => y.sp.prev = AzOf(k)
    /\ y.prev = TimeOf(first) + o.ts /\ y.err = x.err /\ y.known = (x.known /\ kn)
    /\ \/ /\ q.mode = "ANGLE" => ~Begins(x.sp.prev, AzOf(k))
          /\ y.cloud = With(x.cloud, n, BlockOf(first, k, o, n, kn))
          /\ y.out = x.out /\ y.first = x.first /\ y.ret = x.ret
       \/ /\ q.mode = "ANGLE" => Begins(x.sp.prev, AzOf(k))
          /\ y.cloud = With(<<>>, n, BlockOf(first, k, o, n, kn))
          /\ y.out = Handed(x, h) /\ y.first = TimeOf(first) + o.ts /\ y.ret = TRUE

LEMMA NewBlockTyped ==
  ASSUME LidarInv, NEW e, NEW sp \in [prev : Nat, blks : Nat], NEW az \in Nat
  PROVE  /\ NewBlock(q, e, sp, az).sp \in [prev : Nat, blks : Nat]
         /\ q.mode = "ANGLE" => /\ NewBlock(q, e, sp, az).sp.prev = az
                                /\ NewBlock(q, e, sp, az).split <=> Begins(sp.prev, az)
<1>1. sp = [prev |-> sp.prev, blks |-> sp.blks] /\ sp.prev \in Nat /\ sp.blks \in Nat OBVIOUS
<1>2. q.mode \in {"ANGLE", "FIXED", "CUSTOM"} BY Configured
<1>3. CASE q.mode = "ANGLE"
  <2>1. NewBlock(q, e, sp, az) = ByAngle(sp, az, q.angle) BY <1>3 DEF NewBlock
  <2>2. ByAngle(sp, az, q.angle).sp = [sp EXCEPT !.prev = az] BY Zenon DEF ByAngle
  <2>3. ByAngle(sp, az, q.angle).split <=> Begins(sp.prev, az) BY Zenon DEF ByAngle, Begins
  <2>4. [sp EXCEPT !.prev = az] = [prev |-> az, blks |-> sp.blks] BY <1>1
  <2>5. NewBlock(q, e, sp, az).sp = [prev |-> az, blks |-> sp.blks] BY <2>1, <2>2, <2>4, Zenon
  <2>6. NewBlock(q, e, sp, az).sp \in [prev : Nat, blks : Nat] /\ NewBlock(q, e, sp, az).sp.prev = az
    BY <1>1, <2>5
  <2> QED BY <2>1, <2>3, <2>6, Zenon
<1>4. ASSUME NEW m PROVE ByNum(sp, m).sp \in [prev : Nat, blks : Nat]
  <2>1. PICK full \in BOOLEAN : full <=> sp.blks + 1 >= m OBVIOUS
  <2>2. ByNum(sp, m).sp = [sp EXCEPT !.blks = IF full THEN 0 ELSE @ + 1] BY <2>1 DEF ByNum
  <2> QED BY <1>1, <2>2
<1>5. CASE q.mode = "FIXED"
  <2>1. NewBlock(q, e, sp, az) = ByNum(sp, e.split) BY <1>5 DEF NewBlock
  <2> QED BY <1>4, <1>5, <2>1
<1>6. CASE q.mode = "CUSTOM"
  <2>1. NewBlock(q, e, sp, az) = ByNum(sp, q.num) BY <1>6 DEF NewBlock
  <2> QED BY <1>4, <1>6, <2>1
<1> QED BY <1>2, <1>3, <1>5, <1>6

LEMMA PointsTyped ==
  ASSUME LidarInv, NEW p, NEW az, NEW mirrored
  PROVE  Points(q, Const, p, az, mirrored) \in Nat /\ (~q.dense => Points(q, Const, p, az, mirrored) = Const.chans)
<1>1. Const.chans \in {32, 48, 80, 128} /\ q.dense \in BOOLEAN BY Configured, LidarConst
<1>2. CASE ~q.dense BY <1>1, <1>2 DEF Points
<1>3. CASE q.dense
  <2> DEFINE In(o) == p.hit /\ InScanSection(q, IF mirrored THEN Round - (az + o) ELSE az + o)
             S == {o \in {-1, 1} : In(o)}
  <2>1. Points(q, Const, p, az, mirrored) = (Const.chans \div 2) * Cardinality(S) BY <1>3, Zenon DEF Points
  <2>2. IsFiniteSet(S)
    <3>1. {-1, 1} = {-1} \cup {1} OBVIOUS
    <3>2. IsFiniteSet({-1}) /\ IsFiniteSet({1}) BY FS_Singleton
    <3>3. IsFiniteSet({-1, 1}) BY <3>1, <3>2, FS_Union
    <3>4. S \subseteq {-1, 1} BY Zenon
    <3> HIDE DEF S
    <3> QED BY <3>3, <3>4, FS_Subset
  <2>3. Cardinality(S) \in Nat
    <3> HIDE DEF S
    <3> QED BY <2>2, FS_CardinalityType
  <2>4. Const.chans \div 2 \in Nat
    <3>1. Const.chans \in Nat /\ 2 \in Nat \ {0} BY <1>1
    <3> QED BY <3>1, Quotient
  <2> HIDE DEF S
  <2> QED BY <1>3, <2>1, <2>3, <2>4, Products
<1> QED BY <1>1, <1>2, <1>3

LEMMA AzDiffTyped ==
  ASSUME NEW a \in Nat, NEW b \in Nat, a < Round
  PROVE  AzDiff(a, b) \in Nat
  BY IteratorAssumption DEF AzDiff

LEMMA StridedTyped ==
  ASSUME NEW w \in {1, 2, 4}, NEW n \in Nat \ {0}, NEW az, Len(az) = n * w,
         \A b \in 1..(n * w) : az[b] \in Nat /\ az[b] < Round,
         NEW dur \in Nat, NEW daz \in Nat, NEW blind \in Nat
  PROVE  \A b \in 1..(n * w) : /\ Strided(az, w, dur, daz, blind)[b].az \in Nat
                               /\ Strided(az, w, dur, daz, blind)[b].ts \in Nat
<1>1. Len(az) \div w = n
  <2>1. 0 \in 0..(w - 1) /\ n * w + 0 = n * w BY SMTT(20)
  <2>2. (n * w + 0) \div w = n BY <2>1, Division
  <2> QED BY <2>1, <2>2
<1>2. PICK ts : StridedAs(az, w, dur, daz, blind, n - 1, ts)
  <2>1. PICK i \in Nat : i = n - 1 OBVIOUS
  <2>2. Len(az) \div w - 1 = i BY <1>1, <2>1
  <2>3. \E ts : StridedAs(az, w, dur, daz, blind, i, ts) BY <2>2, StridedValue, Zenon
  <2> QED BY <2>1, <2>3, Zenon
<1>3. StridedTs(n - 1, az, w, dur, blind, ts) BY <1>2, Zenon DEF StridedAs
<1> DEFINE T == {g \in Nat : g <= n - 1 => ts[g] \in Nat}
<1>4. 0 \in T
  <2>1. 0 \in 0..(n - 1) OBVIOUS
  <2>2. ts[0] = 0 BY <1>3, <2>1, StridedTsAt
  <2> QED BY <2>2
<1>5. ASSUME NEW g \in Nat, g \in T PROVE g + 1 \in T
  <2> SUFFICES ASSUME g + 1 <= n - 1 PROVE ts[g + 1] \in Nat OBVIOUS
  <2>1. g + 1 \in 0..(n - 1) /\ g + 1 # 0 /\ g + 1 - 1 = g OBVIOUS
  <2>2. ts[g + 1] = IF g + 1 = 0 THEN 0 ELSE ts[g + 1 - 1] + (IF Skipped(az, w, g + 1 - 1) THEN blind ELSE dur)
    BY <1>3, <2>1, StridedTsAt
  <2>3. ts[g] \in Nat BY <1>5
  <2>4. ts[g + 1] = ts[g] + blind \/ ts[g + 1] = ts[g] + dur BY <2>1, <2>2
  <2> QED BY <2>3, <2>4
<1>6. Nat \subseteq T
  <2> HIDE DEF T
  <2> QED BY <1>4, <1>5, Induction
<1>7. ASSUME NEW b \in 1..(n * w)
      PROVE  Strided(az, w, dur, daz, blind)[b].az \in Nat /\ Strided(az, w, dur, daz, blind)[b].ts \in Nat
  <2>0. n * w \in Nat /\ w \in Nat \ {0} OBVIOUS
  <2>1. b - 1 \in Nat /\ b \in 1..Len(az) OBVIOUS
  <2>2. PICK g \in Nat : g = (b - 1) \div w BY <2>0, <2>1, Quotient
  <2>3. PICK c \in 0..(w - 1) : b - 1 = g * w + c /\ g * w \in Nat
    <3>1. (b - 1) % w \in 0..(w - 1) /\ b - 1 = ((b - 1) \div w) * w + ((b - 1) % w) /\ ((b - 1) \div w) * w \in Nat
      BY <2>0, <2>1, Quotient, Zenon
    <3> QED BY <2>2, <3>1, Zenon
  <2>4. g < n
    <3>1. g * w + c < n * w BY <2>0, <2>3
    <3>2. c \in Nat /\ n \in Nat BY <2>0
    <3> QED BY <2>0, <3>1, <3>2, Division
  <2>5. Strided(az, w, dur, daz, blind)[b]
          = [az |-> IF g = n - 1 \/ Skipped(az, w, g) THEN daz ELSE AzDiff(az[g * w + 1], az[(g + 1) * w + 1]),
             ts |-> ts[g]]
    BY <1>2, <2>1, <2>2, Zenon DEF StridedAs
  <2>6. ts[g] \in Nat BY <1>6, <2>4
  <2>7. g # n - 1 => AzDiff(az[g * w + 1], az[(g + 1) * w + 1]) \in Nat
    <3> SUFFICES ASSUME g # n - 1 PROVE AzDiff(az[g * w + 1], az[(g + 1) * w + 1]) \in Nat OBVIOUS
    <3>1. (g + 1) * w + w <= n * w /\ (g + 1) * w \in Nat
      <4>1. g + 1 < n /\ g + 1 \in Nat BY <2>4
      <4> QED BY <2>0, <4>1, Products
    <3>2. (g + 1) * w + 1 \in 1..(n * w) BY <2>0, <3>1
    <3>3. g * w + 1 \in 1..(n * w) BY <2>0, <2>3
    <3> QED BY <3>2, <3>3, AzDiffTyped
  <2> QED BY <2>5, <2>6, <2>7
<1> QED BY <1>7

\* An iterator the lidar's packets can be read with.
Fits(it) ==
  /\ it \in IteratorNames
  /\ Const.blocks = 3 => it \in {"Single", "ABDual"}
  /\ it = "ABDual" => Const.blocks = 3

LEMMA IterateTyped ==
  ASSUME LidarInv, NEW it, Fits(it), NEW az, Len(az) = Const.blocks,
         \A b \in 1..Const.blocks : az[b] \in Nat /\ az[b] < Round,
         NEW daz \in Nat, NEW blind \in Nat
  PROVE  \A b \in 1..Const.blocks : /\ Iterate(it, az, Const.dur, daz, blind)[b].az \in Nat
                                    /\ Iterate(it, az, Const.dur, daz, blind)[b].ts \in Nat
<1>1. Const.blocks \in {3, 4, 8} /\ Const.dur \in Nat BY Configured, LidarConst
<1>2. 3 = 3 * 1 /\ 4 = 4 * 1 /\ 8 = 8 * 1 /\ 4 = 2 * 2 /\ 8 = 4 * 2 /\ 4 = 1 * 4 /\ 8 = 2 * 4
      /\ 2 * Const.dur \in Nat /\ 2 * daz \in Nat
  BY <1>1
<1> DEFINE Good(off) == \A b \in 1..Const.blocks : off[b].az \in Nat /\ off[b].ts \in Nat
<1>3. ASSUME NEW w \in {1, 2, 4}, NEW n \in Nat \ {0}, Const.blocks = n * w, NEW u \in Nat, NEW v \in Nat
      PROVE  Good(Strided(az, w, u, v, blind))
  BY <1>3, StridedTyped
<1> HIDE DEF Good
<1>4. CASE it \in {"Single", "Rs16Dual"}
  <2>1. Iterate(it, az, Const.dur, daz, blind) = Strided(az, 1, Const.dur, daz, blind)
    BY <1>4 DEF Iterate, SingleReturn, Rs16DualReturn
  <2>2. Good(Strided(az, 1, Const.dur, daz, blind)) BY <1>1, <1>2, <1>3
  <2> QED BY <2>1, <2>2, Zenon DEF Good
<1>5. CASE it = "Rs16Single"
  <2>1. Iterate(it, az, Const.dur, daz, blind) = Strided(az, 1, 2 * Const.dur, 2 * daz, blind)
    BY <1>5 DEF Iterate, Rs16SingleReturn
  <2>2. Good(Strided(az, 1, 2 * Const.dur, 2 * daz, blind)) BY <1>1, <1>2, <1>3
  <2> QED BY <2>1, <2>2, Zenon DEF Good
<1>6. CASE it \in {"Dual", "TwoInOne"}
  <2>1. Iterate(it, az, Const.dur, daz, blind) = Strided(az, 2, Const.dur, daz, blind)
    BY <1>6 DEF Iterate, DualReturn, TwoInOne
  <2>2. \E n \in Nat \ {0} : Const.blocks = n * 2
    <3>1. Const.blocks = 4 \/ Const.blocks = 8 BY <1>1, <1>6 DEF Fits
    <3>2. 2 \in Nat \ {0} /\ 4 \in Nat \ {0} OBVIOUS
    <3> QED BY <1>2, <3>1, <3>2
  <2>3. Good(Strided(az, 2, Const.dur, daz, blind)) BY <1>1, <1>3, <2>2
  <2> QED BY <2>1, <2>3, Zenon DEF Good
<1>7. CASE it = "FourInOne"
  <2>1. Iterate(it, az, Const.dur, daz, blind) = Strided(az, 4, Const.dur, daz, blind)
    BY <1>7 DEF Iterate, FourInOne
  <2>2. \E n \in Nat \ {0} : Const.blocks = n * 4
    <3>1. Const.blocks = 4 \/ Const.blocks = 8 BY <1>1, <1>7 DEF Fits
    <3>2. 1 \in Nat \ {0} /\ 2 \in Nat \ {0} OBVIOUS
    <3> QED BY <1>2, <3>1, <3>2
  <2>3. Good(Strided(az, 4, Const.dur, daz, blind)) BY <1>1, <1>3, <2>2
  <2> QED BY <2>1, <2>3, Zenon DEF Good
<1>8. CASE it = "ABDual"
  <2>1. Const.blocks = 3 BY <1>8 DEF Fits
  <2> DEFINE step == AzDiff(az[1], az[3])
             one == [az |-> IF step > BlindStep THEN daz ELSE step, ts |-> 0]
             two == [az |-> daz, ts |-> IF step > BlindStep THEN blind ELSE Const.dur]
             off == Iterate(it, az, Const.dur, daz, blind)
  <2>2. off = IF az[1] = az[2] THEN <<one, one, two>> ELSE <<one, two, two>>
    BY <1>8 DEF Iterate, ABDualReturn
  <2>3. step \in Nat
    <3>1. 1 \in 1..3 /\ 3 \in 1..3 OBVIOUS
    <3> QED BY <2>1, <3>1, AzDiffTyped
  <2>4. one.az \in Nat /\ one.ts \in Nat /\ two.az \in Nat /\ two.ts \in Nat
    <3> HIDE DEF step
    <3> QED BY <1>1, <2>3
  <2> HIDE DEF one, two, off
  <2>5. off = <<one, one, two>> \/ off = <<one, two, two>> BY <2>2
  <2>6. ASSUME NEW b \in 1..3 PROVE off[b] = one \/ off[b] = two
    BY <2>5
  <2>7. Good(off) BY <2>1, <2>4, <2>6 DEF Good
  <2> QED BY <2>7 DEF Good, off
<1> QED BY <1>4, <1>5, <1>6, <1>7, <1>8 DEF Fits, IteratorNames

\* Which firing a block is of, from one to the next.
LEMMA FiringNext ==
  ASSUME LidarInv, NEW b \in 1..Const.blocks
  PROVE  /\ FiringOf(b) \in Nat /\ FiringOf(b + 1) \in Nat
         /\ FiringOf(b) <= FiringOf(b + 1) /\ FiringOf(b + 1) <= FiringOf(b) + 2
         /\ b = 1 => FiringOf(b) = 0
         /\ b = Const.blocks => FiringOf(b + 1) <= PacketFirings
<1>1. Const.blocks \in {3, 4, 8} /\ b \in Nat \ {0} /\ b + 1 \in Nat \ {0} /\ b - 1 \in Nat
  BY Configured, LidarConst
<1>2. CASE Layout = "ABDual"
  <2>1. Const.blocks = 3 /\ phase \in {0, 1} /\ PacketFirings = 2
    BY <1>2, LayoutConst, Configured DEF LidarInv, PacketFirings
  <2>2. CASE phase = 0
    <3>1. \A c \in Nat \ {0} : FiringOf(c) = (c - 1 + 0) \div 2 BY <1>2, <2>2 DEF FiringOf
    <3>2. FiringOf(1) = 0 /\ FiringOf(2) = 0 /\ FiringOf(3) = 1 /\ FiringOf(4) = 1 BY <3>1
    <3>3. b = 1 \/ b = 2 \/ b = 3 BY <2>1
    <3> QED BY <2>1, <3>2, <3>3
  <2>3. CASE phase = 1
    <3>1. \A c \in Nat \ {0} : FiringOf(c) = (c - 1 + 1) \div 2 BY <1>2, <2>3 DEF FiringOf
    <3>2. FiringOf(1) = 0 /\ FiringOf(2) = 1 /\ FiringOf(3) = 1 /\ FiringOf(4) = 2 BY <3>1
    <3>3. b = 1 \/ b = 2 \/ b = 3 BY <2>1
    <3> QED BY <2>1, <3>2, <3>3
  <2> QED BY <2>1, <2>2, <2>3
<1>3. CASE Layout # "ABDual"
  <2>1. PICK w \in {1, 2, 4}, m \in {1, 2} :
          \A c \in Nat \ {0} : FiringOf(c) = m * ((c - 1) \div w)
    BY <1>3, FiringStride, Configured
  <2>2. w \in Nat \ {0} OBVIOUS
  <2>3. PICK x \in Nat : x = (b - 1) \div w BY <1>1, <2>2, Quotient
  <2>4. (b - 1) + 1 \in Nat /\ (b + 1) - 1 = (b - 1) + 1 BY <1>1
  <2>5. ((b - 1) + 1) \div w = x \/ ((b - 1) + 1) \div w = x + 1
    <3>1. CASE w = 1
      <4>1. \A c \in Nat : c \div 1 = c OBVIOUS
      <4> QED BY <1>1, <2>3, <2>4, <3>1, <4>1
    <3>2. CASE w # 1
      <4>1. 1 \in 0..(w - 1) BY <3>2
      <4> QED BY <1>1, <2>2, <2>3, <4>1, LaterPlace
    <3> QED BY <3>1, <3>2
  <2>6. FiringOf(b) = m * x BY <1>1, <2>1, <2>3
  <2>7. FiringOf(b + 1) = m * (((b - 1) + 1) \div w)
    <3>1. PICK c \in Nat \ {0} : c = b + 1 BY <1>1
    <3>2. c - 1 = (b - 1) + 1 BY <1>1, <3>1
    <3>3. FiringOf(c) = m * ((c - 1) \div w) BY <2>1
    <3> QED BY <3>1, <3>2, <3>3, Zenon
  <2>8. FiringOf(b + 1) = m * x \/ FiringOf(b + 1) = m * (x + 1) BY <2>5, <2>7, Zenon
  <2>9. m * x \in Nat /\ m * (x + 1) = m * x + m OBVIOUS
  <2>10. b = 1 => FiringOf(b) = 0
    <3> SUFFICES ASSUME b = 1 PROVE m * x = 0 BY <2>6
    <3>1. 0 \in 0..(w - 1) /\ 0 * w + 0 = 0 /\ 0 \in Nat OBVIOUS
    <3>2. (0 * w + 0) \div w = 0 BY <2>2, <3>1, Division
    <3>3. x = 0 BY <2>3, <3>1, <3>2
    <3> QED BY <3>3
  <2>11. b = Const.blocks => FiringOf(b + 1) <= PacketFirings
    <3> SUFFICES ASSUME b = Const.blocks PROVE FiringOf(b + 1) <= PacketFirings OBVIOUS
    <3>1. PacketFirings = FiringOf(b + 1) BY <1>3 DEF PacketFirings
    <3>2. FiringOf(b + 1) \in Nat BY <2>8, <2>9
    <3> QED BY <3>1, <3>2
  <2> QED BY <2>6, <2>8, <2>9, <2>10, <2>11
<1> QED BY <1>2, <1>3

\* What the decoder keeps.
DecoderFields(e) ==
  e = [echo |-> e.echo, split |-> e.split, blks |-> e.blks, rps |-> e.rps, daz |-> e.daz, blind |-> e.blind,
       ready |-> e.ready, vert |-> e.vert, rings |-> e.rings, init |-> e.init, model |-> e.model,
       install |-> e.install, reversed |-> e.reversed]

DecoderInv ==
  /\ DecoderFields(d)
  /\ d.daz \in Nat /\ d.blind \in Nat
  /\ d.init => /\ lidar = "RSAIRY" => d.model = RSAIRYModel(dev.model)
               /\ lidar = "RSFAIRY" => d.model = RSFAIRYModel(dev.model)

\* The height of an ordered cloud, and how many of a block's channels are a column of it.
Height ==
  CASE lidar = "RSAIRY" -> RSAIRYModel(dev.model)
    [] lidar = "RSFAIRY" -> RSFAIRYModel(dev.model)
    [] OTHER -> Const.lasers

LEMMA HeightTyped ==
  ASSUME lidar \in LidarNames
  PROVE  /\ Height \in Nat \ {0}
         /\ BlockIsColumn => Const.chans = Height \/ Const.chans = 2 * Height
         /\ ~BlockIsColumn => (Height = 96 /\ Const.chans = 48) \/ Height = 192
<1> USE DEF Const, Height
<1>1. CASE lidar = "RS16" BY <1>1 DEF RS16, BlockIsColumn
<1>2. CASE lidar = "RSBP" BY <1>2 DEF RSBP, BlockIsColumn
<1>3. CASE lidar = "RS32" BY <1>3 DEF RS32, BlockIsColumn
<1>4. CASE lidar = "RSHELIOS" BY <1>4 DEF RSHELIOS, BlockIsColumn
<1>5. CASE lidar = "RSHELIOS_16P" BY <1>5 DEF RSHELIOS16P, BlockIsColumn
<1>6. CASE lidar = "RSP128" BY <1>6 DEF RSP128, BlockIsColumn
<1>7. CASE lidar = "RSP80" BY <1>7 DEF RSP80, BlockIsColumn
<1>8. CASE lidar = "RSP48" BY <1>8 DEF RSP48, BlockIsColumn
<1>9. CASE lidar = "RS128" BY <1>9 DEF RS128, BlockIsColumn
<1>10. CASE lidar = "RS80" BY <1>10 DEF RS80, BlockIsColumn
<1>11. CASE lidar = "RS48" BY <1>11 DEF RS48, BlockIsColumn
<1>12. CASE lidar = "RSAIRY" BY <1>12 DEF RSAIRY, RSAIRYModel, BlockIsColumn
<1>13. CASE lidar = "RSFAIRY" BY <1>13 DEF RSFAIRY, RSFAIRYModel, BlockIsColumn
<1> QED BY <1>1, <1>2, <1>3, <1>4, <1>5, <1>6, <1>7, <1>8, <1>9, <1>10, <1>11, <1>12, <1>13 DEF LidarNames

\* What decodeMsopPkt of every lidar is.
DecodesAs(e, g, p) ==
  \E it, err, mirrored :
    /\ Fits(it) /\ (Knows(e) => it = Layout) /\ err \in Errors \ {"none"}
    /\ DecodeMsop(e, g, p) = DecodeBlocks(q, e, Const, g, p, it, Height, err, mirrored)

LEMMA DecodesWith ==
  ASSUME NEW e, NEW g, NEW p, NEW it, NEW err, NEW mirrored,
         Fits(it), Knows(e) => it = Layout, err \in Errors, err # "none",
         DecodeMsop(e, g, p) = DecodeBlocks(q, e, Const, g, p, it, Height, err, mirrored)
  PROVE  DecodesAs(e, g, p)
  BY Zenon DEF DecodesAs

LEMMA MsopDecodes ==
  ASSUME lidar \in LidarNames, NEW e, NEW g, NEW p,
         lidar = "RSAIRY" => e.model = RSAIRYModel(dev.model),
         lidar = "RSFAIRY" => e.model = RSFAIRYModel(dev.model)
  PROVE  \/ lidar = "RSAIRY" /\ DecodeMsop(e, g, p) = [g EXCEPT !.ret = FALSE, !.err = "UNSUPPORTED"]
         \/ DecodesAs(e, g, p)
<1>0. Knows(e) => e.echo = EchoSet /\ (lidar \in {"RSAIRY", "RSFAIRY"} => e.model = RSAIRYModel(dev.model))
  BY DEF Knows
<1>1. CASE lidar = "RS16"
  <2>1. DecodeMsop(e, g, p) = DecodeBlocks(q, e, Const, g, p, RS16Iterator(e), Height, "WRONGMSOPBLKID", FALSE)
    <3>1. DecodeMsop(e, g, p) = RS16Msop(q, e, g, p) BY <1>1 DEF DecodeMsop
    <3>2. Const = RS16 /\ Height = RS16.lasers BY <1>1 DEF Const, Height
    <3> QED BY <3>1, <3>2, Zenon DEF RS16Msop
  <2>2. Fits(RS16Iterator(e)) BY <1>1, LidarConst DEF Fits, RS16Iterator, IteratorNames
  <2>3. Knows(e) => RS16Iterator(e) = Layout
    <3>1. Layout = IF EchoSet = "SINGLE" THEN "Rs16Single" ELSE "Rs16Dual"
      BY <1>1 DEF Layout
    <3> QED BY <1>0, <3>1, Zenon DEF RS16Iterator
  <2>4. "WRONGMSOPBLKID" \in Errors /\ "WRONGMSOPBLKID" # "none" BY DEF Errors
  <2> QED BY <2>1, <2>2, <2>3, <2>4, DecodesWith, Zenon
<1>2. CASE lidar = "RSBP"
  <2>1. DecodeMsop(e, g, p) = DecodeBlocks(q, e, Const, g, p, RSBPIterator(e), Height, "WRONGMSOPBLKID", e.reversed)
    <3>1. DecodeMsop(e, g, p) = RSBPMsop(q, e, g, p) BY <1>2 DEF DecodeMsop
    <3>2. Const = RSBP /\ Height = RSBP.lasers BY <1>2 DEF Const, Height
    <3> QED BY <3>1, <3>2, Zenon DEF RSBPMsop
  <2>2. Fits(RSBPIterator(e)) BY <1>2, LidarConst DEF Fits, RSBPIterator, IteratorNames
  <2>3. Knows(e) => RSBPIterator(e) = Layout
    <3>1. Layout = IF EchoSet = "SINGLE" THEN "Single" ELSE "Dual"
      BY <1>2 DEF Layout
    <3> QED BY <1>0, <3>1, Zenon DEF RSBPIterator
  <2>4. "WRONGMSOPBLKID" \in Errors /\ "WRONGMSOPBLKID" # "none" BY DEF Errors
  <2> QED BY <2>1, <2>2, <2>3, <2>4, DecodesWith, Zenon
<1>3. CASE lidar = "RS32"
  <2>1. DecodeMsop(e, g, p) = DecodeBlocks(q, e, Const, g, p, RS32Iterator(e), Height, "WRONGMSOPID", FALSE)
    <3>1. DecodeMsop(e, g, p) = RS32Msop(q, e, g, p) BY <1>3 DEF DecodeMsop
    <3>2. Const = RS32 /\ Height = RS32.lasers BY <1>3 DEF Const, Height
    <3> QED BY <3>1, <3>2, Zenon DEF RS32Msop
  <2>2. Fits(RS32Iterator(e)) BY <1>3, LidarConst DEF Fits, RS32Iterator, IteratorNames
  <2>3. Knows(e) => RS32Iterator(e) = Layout
    <3>1. Layout = IF EchoSet = "SINGLE" THEN "Single" ELSE "Dual"
      BY <1>3 DEF Layout
    <3> QED BY <1>0, <3>1, Zenon DEF RS32Iterator
  <2>4. "WRONGMSOPID" \in Errors /\ "WRONGMSOPID" # "none" BY DEF Errors
  <2> QED BY <2>1, <2>2, <2>3, <2>4, DecodesWith, Zenon
<1>4. CASE lidar = "RSHELIOS"
  <2>1. DecodeMsop(e, g, p) = DecodeBlocks(q, e, Const, g, p, RSHELIOSIterator(e), Height, "WRONGMSOPBLKID", FALSE)
    <3>1. DecodeMsop(e, g, p) = RSHELIOSMsop(q, e, g, p) BY <1>4 DEF DecodeMsop
    <3>2. Const = RSHELIOS /\ Height = RSHELIOS.lasers BY <1>4 DEF Const, Height
    <3> QED BY <3>1, <3>2, Zenon DEF RSHELIOSMsop
  <2>2. Fits(RSHELIOSIterator(e)) BY <1>4, LidarConst DEF Fits, RSHELIOSIterator, IteratorNames
  <2>3. Knows(e) => RSHELIOSIterator(e) = Layout
    <3>1. Layout = IF EchoSet = "SINGLE" THEN "Single" ELSE "Dual"
      BY <1>4 DEF Layout
    <3> QED BY <1>0, <3>1, Zenon DEF RSHELIOSIterator
  <2>4. "WRONGMSOPBLKID" \in Errors /\ "WRONGMSOPBLKID" # "none" BY DEF Errors
  <2> QED BY <2>1, <2>2, <2>3, <2>4, DecodesWith, Zenon
<1>5. CASE lidar = "RSHELIOS_16P"
  <2>1. DecodeMsop(e, g, p) = DecodeBlocks(q, e, Const, g, p, RSHELIOS16PIterator(e), Height, "WRONGMSOPBLKID", FALSE)
    <3>1. DecodeMsop(e, g, p) = RSHELIOS16PMsop(q, e, g, p) BY <1>5 DEF DecodeMsop
    <3>2. Const = RSHELIOS16P /\ Height = RSHELIOS16P.lasers BY <1>5 DEF Const, Height
    <3> QED BY <3>1, <3>2, Zenon DEF RSHELIOS16PMsop
  <2>2. Fits(RSHELIOS16PIterator(e)) BY <1>5, LidarConst DEF Fits, RSHELIOS16PIterator, IteratorNames
  <2>3. Knows(e) => RSHELIOS16PIterator(e) = Layout
    <3>1. Layout = IF EchoSet = "SINGLE" THEN "Rs16Single" ELSE "Rs16Dual"
      BY <1>5 DEF Layout
    <3> QED BY <1>0, <3>1, Zenon DEF RSHELIOS16PIterator
  <2>4. "WRONGMSOPBLKID" \in Errors /\ "WRONGMSOPBLKID" # "none" BY DEF Errors
  <2> QED BY <2>1, <2>2, <2>3, <2>4, DecodesWith, Zenon
<1>6. CASE lidar = "RSP128"
  <2>1. DecodeMsop(e, g, p) = DecodeBlocks(q, e, Const, g, p, RSP128Iterator(e), Height, "WRONGMSOPBLKID", FALSE)
    <3>1. DecodeMsop(e, g, p) = RSP128Msop(q, e, g, p) BY <1>6 DEF DecodeMsop
    <3>2. Const = RSP128 /\ Height = RSP128.lasers BY <1>6 DEF Const, Height
    <3> QED BY <3>1, <3>2, Zenon DEF RSP128Msop
  <2>2. Fits(RSP128Iterator(e)) BY <1>6, LidarConst DEF Fits, RSP128Iterator, IteratorNames
  <2>3. Knows(e) => RSP128Iterator(e) = Layout
    <3>1. Layout = IF EchoSet = "SINGLE" THEN "Single" ELSE "ABDual"
      BY <1>6 DEF Layout
    <3> QED BY <1>0, <3>1, Zenon DEF RSP128Iterator
  <2>4. "WRONGMSOPBLKID" \in Errors /\ "WRONGMSOPBLKID" # "none" BY DEF Errors
  <2> QED BY <2>1, <2>2, <2>3, <2>4, DecodesWith, Zenon
<1>7. CASE lidar = "RSP80"
  <2>1. DecodeMsop(e, g, p) = DecodeBlocks(q, e, Const, g, p, RSP80Iterator(e), Height, "WRONGMSOPBLKID", FALSE)
    <3>1. DecodeMsop(e, g, p) = RSP80Msop(q, e, g, p) BY <1>7 DEF DecodeMsop
    <3>2. Const = RSP80 /\ Height = RSP80.lasers BY <1>7 DEF Const, Height
    <3> QED BY <3>1, <3>2, Zenon DEF RSP80Msop
  <2>2. Fits(RSP80Iterator(e)) BY <1>7, LidarConst DEF Fits, RSP80Iterator, IteratorNames
  <2>3. Knows(e) => RSP80Iterator(e) = Layout
    <3>1. Layout = IF EchoSet = "SINGLE" THEN "Single" ELSE "Dual"
      BY <1>7 DEF Layout
    <3> QED BY <1>0, <3>1, Zenon DEF RSP80Iterator
  <2>4. "WRONGMSOPBLKID" \in Errors /\ "WRONGMSOPBLKID" # "none" BY DEF Errors
  <2> QED BY <2>1, <2>2, <2>3, <2>4, DecodesWith, Zenon
<1>8. CASE lidar = "RSP48"
  <2>1. DecodeMsop(e, g, p) = DecodeBlocks(q, e, Const, g, p, RSP48Iterator(e), Height, "WRONGMSOPBLKID", FALSE)
    <3>1. DecodeMsop(e, g, p) = RSP48Msop(q, e, g, p) BY <1>8 DEF DecodeMsop
    <3>2. Const = RSP48 /\ Height = RSP48.lasers BY <1>8 DEF Const, Height
    <3> QED BY <3>1, <3>2, Zenon DEF RSP48Msop
  <2>2. Fits(RSP48Iterator(e)) BY <1>8, LidarConst DEF Fits, RSP48Iterator, IteratorNames
  <2>3. Knows(e) => RSP48Iterator(e) = Layout
    <3>1. Layout = IF EchoSet = "SINGLE" THEN "Single" ELSE "Dual"
      BY <1>8 DEF Layout
    <3> QED BY <1>0, <3>1, Zenon DEF RSP48Iterator
  <2>4. "WRONGMSOPBLKID" \in Errors /\ "WRONGMSOPBLKID" # "none" BY DEF Errors
  <2> QED BY <2>1, <2>2, <2>3, <2>4, DecodesWith, Zenon
<1>9. CASE lidar = "RS128"
  <2>1. DecodeMsop(e, g, p) = DecodeBlocks(q, e, Const, g, p, RS128Iterator(e), Height, "silent", FALSE)
    <3>1. DecodeMsop(e, g, p) = RS128Msop(q, e, g, p) BY <1>9 DEF DecodeMsop
    <3>2. Const = RS128 /\ Height = RS128.lasers BY <1>9 DEF Const, Height
    <3> QED BY <3>1, <3>2, Zenon DEF RS128Msop
  <2>2. Fits(RS128Iterator(e)) BY <1>9, LidarConst DEF Fits, RS128Iterator, IteratorNames
  <2>3. Knows(e) => RS128Iterator(e) = Layout
    <3>1. Layout = IF EchoSet = "SINGLE" THEN "Single" ELSE "ABDual"
      BY <1>9 DEF Layout
    <3> QED BY <1>0, <3>1, Zenon DEF RS128Iterator
  <2>4. "silent" \in Errors /\ "silent" # "none" BY DEF Errors
  <2> QED BY <2>1, <2>2, <2>3, <2>4, DecodesWith, Zenon
<1>10. CASE lidar = "RS80"
  <2>1. DecodeMsop(e, g, p) = DecodeBlocks(q, e, Const, g, p, RS80Iterator(e), Height, "silent", FALSE)
    <3>1. DecodeMsop(e, g, p) = RS80Msop(q, e, g, p) BY <1>10 DEF DecodeMsop
    <3>2. Const = RS80 /\ Height = RS80.lasers BY <1>10 DEF Const, Height
    <3> QED BY <3>1, <3>2, Zenon DEF RS80Msop
  <2>2. Fits(RS80Iterator(e)) BY <1>10, LidarConst DEF Fits, RS80Iterator, IteratorNames
  <2>3. Knows(e) => RS80Iterator(e) = Layout
    <3>1. Layout = IF EchoSet = "SINGLE" THEN "Single" ELSE "Dual"
      BY <1>10 DEF Layout
    <3> QED BY <1>0, <3>1, Zenon DEF RS80Iterator
  <2>4. "silent" \in Errors /\ "silent" # "none" BY DEF Errors
  <2> QED BY <2>1, <2>2, <2>3, <2>4, DecodesWith, Zenon
<1>11. CASE lidar = "RS48"
  <2>1. DecodeMsop(e, g, p) = DecodeBlocks(q, e, Const, g, p, RS48Iterator(e), Height, "WRONGMSOPBLKID", FALSE)
    <3>1. DecodeMsop(e, g, p) = RS48Msop(q, e, g, p) BY <1>11 DEF DecodeMsop
    <3>2. Const = RS48 /\ Height = RS48.lasers BY <1>11 DEF Const, Height
    <3> QED BY <3>1, <3>2, Zenon DEF RS48Msop
  <2>2. Fits(RS48Iterator(e)) BY <1>11, LidarConst DEF Fits, RS48Iterator, IteratorNames
  <2>3. Knows(e) => RS48Iterator(e) = Layout
    <3>1. Layout = IF EchoSet = "SINGLE" THEN "Single" ELSE "Dual"
      BY <1>11 DEF Layout
    <3> QED BY <1>0, <3>1, Zenon DEF RS48Iterator
  <2>4. "WRONGMSOPBLKID" \in Errors /\ "WRONGMSOPBLKID" # "none" BY DEF Errors
  <2> QED BY <2>1, <2>2, <2>3, <2>4, DecodesWith, Zenon
<1>12. CASE lidar = "RSAIRY"
  <2>1. e.model = RSAIRYModel(dev.model) /\ Height = e.model /\ Const = RSAIRY BY <1>12 DEF Const, Height
  <2>2. DecodeMsop(e, g, p) = RSAIRYMsop(q, e, g, p) BY <1>12 DEF DecodeMsop
  <2>3. CASE e.model = 192
    <3>1. DecodeMsop(e, g, p) = [g EXCEPT !.ret = FALSE, !.err = "UNSUPPORTED"] BY <2>2, <2>3 DEF RSAIRYMsop
    <3> QED BY <1>12, <3>1, Zenon
  <2>4. CASE e.model # 192
    <3>1. DecodeMsop(e, g, p) = DecodeBlocks(q, e, Const, g, p, RSAIRYIterator(e), Height, "WRONGMSOPBLKID", FALSE)
      BY <2>1, <2>2, <2>4, Zenon DEF RSAIRYMsop
    <3>2. e.model \in {48, 96} /\ (e.model = 48 <=> dev.model = 1) BY <2>1, <2>4 DEF RSAIRYModel
    <3>3. RSAIRYIterator(e) = IF e.model = 48 THEN IF e.echo = "SINGLE" THEN "Single" ELSE "Dual"
                          ELSE IF e.echo = "SINGLE" THEN "TwoInOne" ELSE "FourInOne"
      BY <3>2 DEF RSAIRYIterator
    <3>4. Fits(RSAIRYIterator(e)) BY <1>12, <3>3, LidarConst DEF Fits, IteratorNames
    <3>5. Knows(e) => RSAIRYIterator(e) = Layout
      <4>1. Layout = IF dev.model = 1 THEN IF EchoSet = "SINGLE" THEN "Single" ELSE "Dual"
                     ELSE IF EchoSet = "SINGLE" THEN "TwoInOne" ELSE "FourInOne"
        BY <1>12 DEF Layout
      <4> QED BY <1>0, <3>2, <3>3, <4>1, Zenon
    <3>6. "WRONGMSOPBLKID" \in Errors /\ "WRONGMSOPBLKID" # "none" BY DEF Errors
    <3> QED BY <3>1, <3>4, <3>5, <3>6, DecodesWith, Zenon
  <2> QED BY <2>3, <2>4
<1>13. CASE lidar = "RSFAIRY"
  <2>1. e.model = RSFAIRYModel(dev.model) /\ Height = e.model /\ Const = RSFAIRY BY <1>13 DEF Const, Height
  <2>2. DecodeMsop(e, g, p) = RSFAIRYMsop(q, e, g, p) BY <1>13 DEF DecodeMsop
  <2>3. CASE TRUE
    <3>1. DecodeMsop(e, g, p) = DecodeBlocks(q, e, Const, g, p, RSFAIRYIterator(e), Height, "WRONGMSOPBLKID", FALSE)
      BY <2>1, <2>2, Zenon DEF RSFAIRYMsop
    <3>2. e.model \in {48, 96} /\ (e.model = 48 <=> dev.model = 1) BY <2>1 DEF RSFAIRYModel
    <3>3. RSFAIRYIterator(e) = IF e.model = 48 THEN IF e.echo = "SINGLE" THEN "Single" ELSE "Dual"
                          ELSE IF e.echo = "SINGLE" THEN "TwoInOne" ELSE "FourInOne"
      BY <3>2 DEF RSFAIRYIterator
    <3>4. Fits(RSFAIRYIterator(e)) BY <1>13, <3>3, LidarConst DEF Fits, IteratorNames
    <3>5. Knows(e) => RSFAIRYIterator(e) = Layout
      <4>1. Layout = IF dev.model = 1 THEN IF EchoSet = "SINGLE" THEN "Single" ELSE "Dual"
                     ELSE IF EchoSet = "SINGLE" THEN "TwoInOne" ELSE "FourInOne"
        BY <1>13 DEF Layout
      <4> QED BY <1>0, <3>2, <3>3, <4>1, Zenon
    <3>6. "WRONGMSOPBLKID" \in Errors /\ "WRONGMSOPBLKID" # "none" BY DEF Errors
    <3> QED BY <3>1, <3>4, <3>5, <3>6, DecodesWith, Zenon
  <2> QED BY <2>3
<1> QED BY <1>1, <1>2, <1>3, <1>4, <1>5, <1>6, <1>7, <1>8, <1>9, <1>10, <1>11, <1>12, <1>13 DEF LidarNames

\* A lidar with 192 channels is not decoded.
LEMMA NotSupported ==
  ASSUME lidar \in LidarNames, Height = 192, NEW e, NEW g, NEW p,
         lidar = "RSAIRY" => e.model = RSAIRYModel(dev.model)
  PROVE  DecodeMsop(e, g, p) = [g EXCEPT !.ret = FALSE, !.err = "UNSUPPORTED"]
<1>1. lidar = "RSAIRY"
  <2> SUFFICES ASSUME lidar # "RSAIRY" PROVE FALSE OBVIOUS
  <2>1. CASE lidar = "RSFAIRY" BY <2>1 DEF Height, RSFAIRYModel
  <2>2. CASE lidar # "RSFAIRY"
    <3>1. Const.lasers \in {16, 32, 48, 80, 128}
      BY <2>2 DEF LidarNames, Const, RS16, RSBP, RS32, RSHELIOS, RSHELIOS16P, RSP128, RSP80, RSP48, RS128, RS80, RS48
    <3>2. Height = Const.lasers BY <2>2 DEF Height
    <3> QED BY <3>1, <3>2
  <2> QED BY <2>1, <2>2
<1>2. e.model = 192 BY <1>1 DEF Height
<1>3. DecodeMsop(e, g, p) = RSAIRYMsop(q, e, g, p) BY <1>1 DEF DecodeMsop
<1> QED BY <1>2, <1>3 DEF RSAIRYMsop

\* What isNewFrame looks at.
Seen(p) == IF lidar \in {"RSAIRY", "RSFAIRY"} THEN FirstByteOnly(p) ELSE p

LEMMA NewFrameFeeds ==
  ASSUME lidar \in LidarNames, NEW p, NEW c \in BOOLEAN, p.other = c
  PROVE  /\ ~c => IsNewFrame(p) = FeedUntilSplit(q, d, Const, pre, Seen(p))
         /\ c /\ lidar \in {"RSAIRY", "RSFAIRY"} => IsNewFrame(p).sp = pre /\ ~IsNewFrame(p).split
<1>1. CASE lidar = "RS16"
  <2>1. IsNewFrame(p) = RS16NewFrame(q, d, pre, p) /\ Const = RS16 BY <1>1 DEF IsNewFrame, Const
  <2>2. Seen(p) = p BY <1>1 DEF Seen
  <2> QED BY <1>1, <2>1, <2>2, SMT DEF RS16NewFrame
<1>2. CASE lidar = "RSBP"
  <2>1. IsNewFrame(p) = RSBPNewFrame(q, d, pre, p) /\ Const = RSBP BY <1>2 DEF IsNewFrame, Const
  <2>2. Seen(p) = p BY <1>2 DEF Seen
  <2> QED BY <1>2, <2>1, <2>2, SMT DEF RSBPNewFrame
<1>3. CASE lidar = "RS32"
  <2>1. IsNewFrame(p) = RS32NewFrame(q, d, pre, p) /\ Const = RS32 BY <1>3 DEF IsNewFrame, Const
  <2>2. Seen(p) = p BY <1>3 DEF Seen
  <2> QED BY <1>3, <2>1, <2>2, SMT DEF RS32NewFrame
<1>4. CASE lidar = "RSHELIOS"
  <2>1. IsNewFrame(p) = RSHELIOSNewFrame(q, d, pre, p) /\ Const = RSHELIOS BY <1>4 DEF IsNewFrame, Const
  <2>2. Seen(p) = p BY <1>4 DEF Seen
  <2> QED BY <1>4, <2>1, <2>2, SMT DEF RSHELIOSNewFrame
<1>5. CASE lidar = "RSHELIOS_16P"
  <2>1. IsNewFrame(p) = RSHELIOS16PNewFrame(q, d, pre, p) /\ Const = RSHELIOS16P BY <1>5 DEF IsNewFrame, Const
  <2>2. Seen(p) = p BY <1>5 DEF Seen
  <2> QED BY <1>5, <2>1, <2>2, SMT DEF RSHELIOS16PNewFrame
<1>6. CASE lidar = "RSP128"
  <2>1. IsNewFrame(p) = RSP128NewFrame(q, d, pre, p) /\ Const = RSP128 BY <1>6 DEF IsNewFrame, Const
  <2>2. Seen(p) = p BY <1>6 DEF Seen
  <2> QED BY <1>6, <2>1, <2>2, SMT DEF RSP128NewFrame
<1>7. CASE lidar = "RSP80"
  <2>1. IsNewFrame(p) = RSP80NewFrame(q, d, pre, p) /\ Const = RSP80 BY <1>7 DEF IsNewFrame, Const
  <2>2. Seen(p) = p BY <1>7 DEF Seen
  <2> QED BY <1>7, <2>1, <2>2, SMT DEF RSP80NewFrame
<1>8. CASE lidar = "RSP48"
  <2>1. IsNewFrame(p) = RSP48NewFrame(q, d, pre, p) /\ Const = RSP48 BY <1>8 DEF IsNewFrame, Const
  <2>2. Seen(p) = p BY <1>8 DEF Seen
  <2> QED BY <1>8, <2>1, <2>2, SMT DEF RSP48NewFrame
<1>9. CASE lidar = "RS128"
  <2>1. IsNewFrame(p) = RS128NewFrame(q, d, pre, p) /\ Const = RS128 BY <1>9 DEF IsNewFrame, Const
  <2>2. Seen(p) = p BY <1>9 DEF Seen
  <2> QED BY <1>9, <2>1, <2>2, SMT DEF RS128NewFrame
<1>10. CASE lidar = "RS80"
  <2>1. IsNewFrame(p) = RS80NewFrame(q, d, pre, p) /\ Const = RS80 BY <1>10 DEF IsNewFrame, Const
  <2>2. Seen(p) = p BY <1>10 DEF Seen
  <2> QED BY <1>10, <2>1, <2>2, SMT DEF RS80NewFrame
<1>11. CASE lidar = "RS48"
  <2>1. IsNewFrame(p) = RS48NewFrame(q, d, pre, p) /\ Const = RS48 BY <1>11 DEF IsNewFrame, Const
  <2>2. Seen(p) = p BY <1>11 DEF Seen
  <2> QED BY <1>11, <2>1, <2>2, SMT DEF RS48NewFrame
<1>12. CASE lidar = "RSAIRY"
  <2>1. IsNewFrame(p) = RSAIRYNewFrame(q, d, pre, p) /\ Const = RSAIRY BY <1>12 DEF IsNewFrame, Const
  <2>2. Seen(p) = FirstByteOnly(p) BY <1>12 DEF Seen
  <2> QED BY <1>12, <2>1, <2>2 DEF RSAIRYNewFrame
<1>13. CASE lidar = "RSFAIRY"
  <2>1. IsNewFrame(p) = RSFAIRYNewFrame(q, d, pre, p) /\ Const = RSFAIRY BY <1>13 DEF IsNewFrame, Const
  <2>2. Seen(p) = FirstByteOnly(p) BY <1>13 DEF Seen
  <2> QED BY <1>13, <2>1, <2>2 DEF RSFAIRYNewFrame
<1> QED BY <1>1, <1>2, <1>3, <1>4, <1>5, <1>6, <1>7, <1>8, <1>9, <1>10, <1>11, <1>12, <1>13 DEF LidarNames

\* What a decoder that learns the model m from a packet has of what the proofs use.
Learned(e, m) == DecoderFields(e) /\ e.daz = d.daz /\ e.blind = d.blind /\ e.model = m

LEMMA LearnsFromMsop ==
  ASSUME DecoderInv, NEW echo, NEW m, NEW inits
  PROVE  Learned(LearnEchoFromMsop(d, echo, m, inits), m)
<1> DEFINE x == LearnEchoFromMsop(d, echo, m, inits)
<1>1. PICK y : y = d OBVIOUS
<1>2. PICK s : s = IF echo = "DUAL" THEN 2 * y.blks ELSE y.blks OBVIOUS
<1>3. PICK z : z = [y EXCEPT !.echo = echo, !.split = s] OBVIOUS
<1>4. y = [echo |-> y.echo, split |-> y.split, blks |-> y.blks, rps |-> y.rps, daz |-> y.daz, blind |-> y.blind,
           ready |-> y.ready, vert |-> y.vert, rings |-> y.rings, init |-> y.init, model |-> y.model,
           install |-> y.install, reversed |-> y.reversed]
  BY <1>1, Zenon DEF DecoderInv, DecoderFields
<1>5. z = [echo |-> echo, split |-> s, blks |-> y.blks, rps |-> y.rps, daz |-> y.daz, blind |-> y.blind,
           ready |-> y.ready, vert |-> y.vert, rings |-> y.rings, init |-> y.init, model |-> y.model,
           install |-> y.install, reversed |-> y.reversed]
  BY <1>3, <1>4
<1>6. x = [z EXCEPT !.model = m, !.init = inits]
  BY <1>1, <1>2, <1>3, Zenon DEF LearnEchoFromMsop, LearnEcho
<1>7. x = [echo |-> echo, split |-> s, blks |-> y.blks, rps |-> y.rps, daz |-> y.daz, blind |-> y.blind,
           ready |-> y.ready, vert |-> y.vert, rings |-> y.rings, init |-> inits, model |-> m,
           install |-> y.install, reversed |-> y.reversed]
  BY <1>5, <1>6
<1> HIDE DEF x
<1>8. Learned(x, m) BY <1>1, <1>7 DEF DecoderFields, Learned
<1> QED BY <1>8, Zenon DEF x

LEMMA LearnKeeps ==
  ASSUME LidarInv, DecoderInv, NEW p, p.model = dev.model, NEW e, e = Learn(p)
  PROVE  /\ DecoderFields(e) /\ e.daz = d.daz /\ e.blind = d.blind
         /\ lidar = "RSAIRY" => e.model = RSAIRYModel(dev.model)
         /\ lidar = "RSFAIRY" => e.model = RSFAIRYModel(dev.model)
<1>1. DecoderFields(d) BY DEF DecoderInv
<1>2. CASE lidar = "RSAIRY"
  <2>1. e = RSAIRYLearn(d, p) /\ lidar # "RSFAIRY" BY <1>2 DEF Learn
  <2>2. CASE d.init
    <3>1. e = d BY <2>1, <2>2, Zenon DEF RSAIRYLearn
    <3>2. d.model = RSAIRYModel(dev.model) BY <1>2, <2>2, Zenon DEF DecoderInv
    <3> QED BY <1>1, <1>2, <2>1, <3>1, <3>2, Zenon
  <2>3. CASE ~d.init
    <3>1. \E echo, inits : e = LearnEchoFromMsop(d, echo, RSAIRYModel(p.model), inits) BY <2>1, <2>3, Zenon DEF RSAIRYLearn
    <3>2. Learned(e, RSAIRYModel(p.model)) BY <3>1, LearnsFromMsop, Zenon
    <3> QED BY <1>2, <2>1, <3>2, Zenon DEF Learned
  <2> QED BY <2>2, <2>3, Zenon
<1>3. CASE lidar = "RSFAIRY"
  <2>1. e = RSFAIRYLearn(d, p) /\ lidar # "RSAIRY" BY <1>3 DEF Learn
  <2>2. CASE d.init
    <3>1. e = d BY <2>1, <2>2, Zenon DEF RSFAIRYLearn
    <3>2. d.model = RSFAIRYModel(dev.model) BY <1>3, <2>2, Zenon DEF DecoderInv
    <3> QED BY <1>1, <1>3, <2>1, <3>1, <3>2, Zenon
  <2>3. CASE ~d.init
    <3>1. \E echo, inits : e = LearnEchoFromMsop(d, echo, RSFAIRYModel(p.model), inits) BY <2>1, <2>3, Zenon DEF RSFAIRYLearn
    <3>2. Learned(e, RSFAIRYModel(p.model)) BY <3>1, LearnsFromMsop, Zenon
    <3> QED BY <1>3, <2>1, <3>2, Zenon DEF Learned
  <2> QED BY <2>2, <2>3, Zenon
<1>4. CASE ~(lidar \in {"RSAIRY", "RSFAIRY"})
  <2>1. e = d /\ lidar # "RSAIRY" /\ lidar # "RSFAIRY" BY <1>4 DEF Learn
  <2> QED BY <1>1, <2>1, Zenon
<1> QED BY <1>2, <1>3, <1>4

\* A packet's fields.
LEMMA PacketFields ==
  ASSUME LidarInv, NEW first \in Nat, NEW bad, NEW half, NEW hit, NEW other, NEW kn
  PROVE  LET p == [MsopPkt(first, bad, half, hit, other) EXCEPT !.known = kn]
         IN /\ p.ts = TimeOf(first) /\ Len(p.az) = Const.blocks /\ p.bad = bad /\ p.half = half /\ p.known = kn
            /\ p.mode = dev.mode /\ p.model = dev.model /\ p.other = other
            /\ \A b \in 1..Const.blocks :
                 /\ p.az[b] = AzOf(first + FiringOf(b)) /\ p.at[b] = TimeOf(first + FiringOf(b))
                 /\ p.gaps[b] = (first + FiringOf(b)) \div PerTurn - first \div PerTurn
<1> DEFINE N == Const.blocks
           k == [b \in 1..N |-> first + FiringOf(b)]
           az == [b \in DOMAIN k |-> AzOf(k[b])]
           at == [b \in DOMAIN k |-> TimeOf(k[b])]
           gaps == [b \in DOMAIN k |-> k[b] \div PerTurn - first \div PerTurn]
           p == [MsopPkt(first, bad, half, hit, other) EXCEPT !.known = kn]
<1>1. MsopPkt(first, bad, half, hit, other)
        = [ts |-> TimeOf(first), az |-> az, at |-> at, gaps |-> gaps, mode |-> dev.mode, model |-> dev.model,
           bad |-> bad, half |-> half, hit |-> hit, other |-> other, known |-> FALSE]
  BY Zenon DEF MsopPkt
<1>2. N \in Nat BY Configured, LidarConst
<1>3. \A b \in 1..N : k[b] = first + FiringOf(b) OBVIOUS
<1>4. DOMAIN k = 1..N OBVIOUS
<1> HIDE DEF k
<1>5. \A b \in 1..N : az[b] = AzOf(k[b]) /\ at[b] = TimeOf(k[b]) /\ gaps[b] = k[b] \div PerTurn - first \div PerTurn
  BY <1>4
<1>6. Len(az) = N
  <2>1. DOMAIN az = 1..N BY <1>4
  <2>2. az = [b \in 1..N |-> AzOf(k[b])] BY <1>4, Zenon
  <2> QED BY <1>2, <2>2
<1> HIDE DEF az, at, gaps
<1>7. p = [ts |-> TimeOf(first), az |-> az, at |-> at, gaps |-> gaps, mode |-> dev.mode, model |-> dev.model,
           bad |-> bad, half |-> half, hit |-> hit, other |-> other, known |-> kn]
  BY <1>1
<1> HIDE DEF p, N
<1>8. /\ p.ts = TimeOf(first) /\ p.az = az /\ p.bad = bad /\ p.half = half /\ p.known = kn /\ p.at = at /\ p.gaps = gaps
      /\ p.mode = dev.mode /\ p.model = dev.model /\ p.other = other
  BY <1>7
<1>9. \A b \in 1..N : az[b] = AzOf(first + FiringOf(b)) /\ at[b] = TimeOf(first + FiringOf(b))
                       /\ gaps[b] = (first + FiringOf(b)) \div PerTurn - first \div PerTurn
  BY <1>3, <1>5, Zenon
<1> QED BY <1>6, <1>8, <1>9, Zenon DEF p, N

LEMMA HandedTyped ==
  ASSUME LidarInv, NEW x \in Frame, NEW h \in Nat \ {0}
  PROVE  Handed(x, h) \in Seq(HandedOut)
<1>1. x.cloud \in Seq(Blk) /\ x.out \in Seq(HandedOut) /\ x.first \in Nat /\ x.prev \in Nat BY DEF Frame
<1>2. CASE x.cloud = <<>> BY <1>1, <1>2 DEF Handed
<1>3. CASE x.cloud # <<>>
  <2> DEFINE c == [stamp |-> CloudTs(q, x), height |-> IF q.dense THEN 1 ELSE h, blocks |-> x.cloud]
  <2>1. CloudTs(q, x) \in Nat BY <1>1 DEF CloudTs
  <2>2. (IF q.dense THEN 1 ELSE h) \in Nat \ {0} OBVIOUS
  <2>3. x.cloud \in Seq(Blk) \ {<<>>} BY <1>1, <1>3
  <2>4. c \in HandedOut
    <3>1. PICK u, v : u = CloudTs(q, x) /\ v = IF q.dense THEN 1 ELSE h OBVIOUS
    <3>2. c = [stamp |-> u, height |-> v, blocks |-> x.cloud] BY <3>1, Zenon
    <3>3. u \in Nat /\ v \in Nat \ {0} BY <2>1, <2>2, <3>1, Zenon
    <3> QED BY <2>3, <3>2, <3>3 DEF HandedOut
  <2>5. Handed(x, h) = Append(x.out, c) BY <1>3 DEF Handed
  <2> HIDE DEF c
  <2> QED BY <1>1, <2>4, <2>5
<1> QED BY <1>2, <1>3

\* What the proofs use of a packet.
PacketOf(p, first, bad, kn) ==
  /\ p.ts = TimeOf(first) /\ Len(p.az) = Const.blocks /\ p.bad = bad /\ p.known = kn
  /\ \A b \in 1..Const.blocks :
       /\ p.az[b] = AzOf(first + FiringOf(b)) /\ p.at[b] = TimeOf(first + FiringOf(b))
       /\ p.gaps[b] = (first + FiringOf(b)) \div PerTurn - first \div PerTurn

LEMMA BlockOfTyped ==
  ASSUME LidarInv, NEW first \in Nat, NEW k \in Nat, first <= k, NEW o, o.az \in Nat, o.ts \in Nat,
         NEW n \in Nat \ {0}, NEW kn \in BOOLEAN
  PROVE  BlockOf(first, k, o, n, kn) \in Blk
<1>1. AzOf(k) \in Nat /\ TimeOf(k) \in Nat BY OneFiring
<1>2. TimeOf(first) \in Nat BY OneFiring
<1>3. k \div PerTurn \in Nat /\ first \div PerTurn \in Nat
  <2>1. PerTurn \in Nat \ {0} BY Geometry
  <2> QED BY <2>1, Quotient
<1>4. first \div PerTurn <= k \div PerTurn BY LaterTime
<1>5. PICK u \in Nat, v \in Nat, g \in Nat, t \in Nat :
        u = AzOf(k) /\ v = TimeOf(first) + o.ts /\ g = k \div PerTurn - first \div PerTurn /\ t = TimeOf(k)
  BY <1>1, <1>2, <1>3, <1>4
<1>6. BlockOf(first, k, o, n, kn) = [az |-> u, ts |-> v, turn |-> o.az, n |-> n, sent |-> t, gaps |-> g, known |-> kn]
  BY <1>5, Zenon DEF BlockOf
<1> QED BY <1>5, <1>6 DEF Blk

\* The frame after a block.
AfterBlock(x, s, ts, n, blk, h, kn) ==
  IF s.split
  THEN [sp |-> s.sp, cloud |-> With(<<>>, n, blk), first |-> ts, prev |-> ts, out |-> Handed(x, h),
        ret |-> TRUE, err |-> x.err, known |-> x.known /\ kn]
  ELSE [sp |-> s.sp, cloud |-> With(x.cloud, n, blk), first |-> x.first, prev |-> ts, out |-> x.out,
        ret |-> x.ret, err |-> x.err, known |-> x.known /\ kn]

LEMMA BlockEffect ==
  ASSUME NEW x \in Frame, NEW e, NEW l, NEW p, NEW b, NEW off, NEW h, NEW mirrored
  PROVE  LET ts  == p.ts + off[b].ts
             n   == Points(q, l, p, p.az[b], mirrored)
         IN DecodeBlock(q, e, l, x, p, b, off, h, mirrored)
              = AfterBlock(x, NewBlock(q, e, x.sp, p.az[b]), ts, n,
                  [az |-> p.az[b], ts |-> ts, turn |-> off[b].az, n |-> n, sent |-> p.at[b],
                   gaps |-> p.gaps[b], known |-> p.known], h, p.known)
  BY DecodeBlockEffect DEF AfterBlock

LEMMA OneBlock ==
  ASSUME LidarInv, NEW x \in Frame, NEW e, NEW p, NEW first \in Nat, NEW bad, NEW kn \in BOOLEAN,
         PacketOf(p, first, bad, kn), NEW b \in 1..Const.blocks, NEW off, off[b].az \in Nat, off[b].ts \in Nat,
         NEW h \in Nat \ {0}, NEW mirrored, NEW y, y = DecodeBlock(q, e, Const, x, p, b, off, h, mirrored)
  PROVE  y \in Frame /\ BlockStep(x, y, h, first, first + FiringOf(b), off[b], kn)
<1> DEFINE k == first + FiringOf(b)
<1>1. FiringOf(b) \in Nat BY FiringNext
<1>2. k \in Nat /\ first <= k BY <1>1
<1> HIDE DEF k
<1>3. p.ts = TimeOf(first) /\ p.known = kn /\ p.az[b] = AzOf(k) /\ p.at[b] = TimeOf(k)
      /\ p.gaps[b] = k \div PerTurn - first \div PerTurn
  BY DEF PacketOf, k
<1> DEFINE ts  == p.ts + off[b].ts
           s   == NewBlock(q, e, x.sp, p.az[b])
           n   == Points(q, Const, p, p.az[b], mirrored)
           blk == [az |-> p.az[b], ts |-> ts, turn |-> off[b].az, n |-> n, sent |-> p.at[b],
                   gaps |-> p.gaps[b], known |-> p.known]
<1>4. y = AfterBlock(x, s, ts, n, blk, h, kn)
  <2>1. y = AfterBlock(x, s, ts, n, blk, h, p.known) BY BlockEffect
  <2> HIDE DEF s, ts, n, blk
  <2> QED BY <1>3, <2>1, Zenon
<1>5. n \in Nat /\ (~q.dense => n = Const.chans) BY PointsTyped
<1>6. blk = BlockOf(first, k, off[b], n, kn)
  <2> HIDE DEF n
  <2> QED BY <1>3, Zenon DEF BlockOf
<1>7. n # 0 => blk \in Blk
  <2> HIDE DEF n, blk
  <2> QED BY <1>2, <1>5, <1>6, BlockOfTyped
<1>8. ts \in Nat /\ ts = TimeOf(first) + off[b].ts
  <2>1. TimeOf(first) \in Nat BY OneFiring
  <2> QED BY <1>3, <2>1
<1>9. /\ s.sp \in [prev : Nat, blks : Nat]
      /\ q.mode = "ANGLE" => s.sp.prev = AzOf(k) /\ (s.split <=> Begins(x.sp.prev, AzOf(k)))
  <2>1. x.sp \in [prev : Nat, blks : Nat] /\ p.az[b] \in Nat
    <3>1. AzOf(k) \in Nat BY <1>2, OneFiring
    <3> QED BY <1>3, <3>1 DEF Frame
  <2>2. PICK az \in Nat : az = p.az[b] BY <2>1
  <2>3. s = NewBlock(q, e, x.sp, az) /\ az = AzOf(k) BY <1>3, <2>2
  <2> HIDE DEF s
  <2> QED BY <2>1, <2>3, NewBlockTyped
<1> HIDE DEF ts, s, n, blk
<1>10. ASSUME NEW c \in Seq(Blk) PROVE With(c, n, blk) \in Seq(Blk)
  BY <1>5, <1>7 DEF With
<1>11. /\ x.cloud \in Seq(Blk) /\ x.out \in Seq(HandedOut) /\ x.first \in Nat /\ x.ret \in BOOLEAN
       /\ x.err \in Errors /\ x.known \in BOOLEAN /\ <<>> \in Seq(Blk)
  BY DEF Frame
<1>12. PICK kk \in BOOLEAN : kk = (x.known /\ kn)
  <2>1. (x.known /\ kn) \in BOOLEAN BY Zenon
  <2> QED BY <2>1, Zenon
<1>13. CASE s.split
  <2>1. y = [sp |-> s.sp, cloud |-> With(<<>>, n, blk), first |-> ts, prev |-> ts, out |-> Handed(x, h),
             ret |-> TRUE, err |-> x.err, known |-> kk]
    BY <1>4, <1>12, <1>13, Zenon DEF AfterBlock
  <2>2. With(<<>>, n, blk) \in Seq(Blk) /\ Handed(x, h) \in Seq(HandedOut) BY <1>10, <1>11, HandedTyped
  <2>3. y \in Frame BY <1>8, <1>9, <1>11, <2>1, <2>2 DEF Frame
  <2>4. /\ y.sp = s.sp /\ y.cloud = With(<<>>, n, blk) /\ y.first = ts /\ y.prev = ts /\ y.out = Handed(x, h)
        /\ y.ret = TRUE /\ y.err = x.err /\ y.known = kk
    BY <2>1
  <2>5. BlockStep(x, y, h, first, k, off[b], kn)
    BY <1>5, <1>6, <1>8, <1>9, <1>12, <1>13, <2>4, Zenon DEF BlockStep
  <2> QED BY <2>3, <2>5 DEF k
<1>14. CASE ~s.split
  <2>1. y = [sp |-> s.sp, cloud |-> With(x.cloud, n, blk), first |-> x.first, prev |-> ts, out |-> x.out,
             ret |-> x.ret, err |-> x.err, known |-> kk]
    BY <1>4, <1>12, <1>14, Zenon DEF AfterBlock
  <2>2. With(x.cloud, n, blk) \in Seq(Blk) BY <1>10, <1>11
  <2>3. y \in Frame BY <1>8, <1>9, <1>11, <2>1, <2>2 DEF Frame
  <2>4. /\ y.sp = s.sp /\ y.cloud = With(x.cloud, n, blk) /\ y.first = x.first /\ y.prev = ts /\ y.out = x.out
        /\ y.ret = x.ret /\ y.err = x.err /\ y.known = kk
    BY <2>1
  <2>5. BlockStep(x, y, h, first, k, off[b], kn)
    BY <1>5, <1>6, <1>8, <1>9, <1>12, <1>14, <2>4, Zenon DEF BlockStep
  <2> QED BY <2>3, <2>5 DEF k
<1> QED BY <1>13, <1>14

\* What becomes of a frame at block b.
BlockOutcome(x, y, b, first, bad, off, kn) ==
  \/ x.err # "none" /\ y = x
  \/ x.err = "none" /\ b \in bad /\ \E err \in Errors \ {"none"} : y = [x EXCEPT !.err = err]
  \/ x.err = "none" /\ b \notin bad /\ BlockStep(x, y, Height, first, first + FiringOf(b), off[b], kn)

\* The frames that a packet goes through, one after each block.
Decodes(first, bad, kn, g, a, off) ==
  /\ a[0] = [g EXCEPT !.ret = FALSE, !.err = "none"]
  /\ \A b \in 0..Const.blocks : a[b] \in Frame
  /\ \A b \in 1..Const.blocks :
       off[b].az \in Nat /\ off[b].ts \in Nat /\ BlockOutcome(a[b - 1], a[b], b, first, bad, off, kn)
  /\ kn => OffsetsRight(first, off)

LEMMA BlockDecoded ==
  ASSUME LidarInv, NEW x \in Frame, NEW e, NEW p, NEW first \in Nat, NEW bad, NEW kn \in BOOLEAN,
         PacketOf(p, first, bad, kn), NEW b \in 1..Const.blocks, NEW off, off[b].az \in Nat, off[b].ts \in Nat,
         NEW err \in Errors, err # "none", NEW mirrored, NEW y,
         y = DecodeNext(q, e, Const, x, p, b, off, Height, err, mirrored)
  PROVE  y \in Frame /\ BlockOutcome(x, y, b, first, bad, off, kn)
<1>1. p.bad = bad BY DEF PacketOf
<1>2. CASE x.err # "none"
  <2>1. y = x BY <1>2, Zenon DEF DecodeNext
  <2> QED BY <1>2, <2>1, Zenon DEF BlockOutcome
<1>3. CASE x.err = "none" /\ b \in bad
  <2>1. y = [x EXCEPT !.err = err] BY <1>1, <1>3, Zenon DEF DecodeNext
  <2>2. y \in Frame BY <2>1 DEF Frame
  <2>3. err \in Errors \ {"none"} OBVIOUS
  <2> QED BY <1>3, <2>1, <2>2, <2>3, Zenon DEF BlockOutcome
<1>4. CASE x.err = "none" /\ b \notin bad
  <2>1. y = DecodeBlock(q, e, Const, x, p, b, off, Height, mirrored) BY <1>1, <1>4, Zenon DEF DecodeNext
  <2>2. Height \in Nat \ {0} BY Configured, HeightTyped
  <2>3. y \in Frame /\ BlockStep(x, y, Height, first, first + FiringOf(b), off[b], kn)
    BY <2>1, <2>2, OneBlock
  <2> QED BY <1>4, <2>3, Zenon DEF BlockOutcome
<1> QED BY <1>2, <1>3, <1>4, Zenon

Decoded(y, first, bad, kn, g) ==
  \E a, off : Decodes(first, bad, kn, g, a, off) /\ y = a[Const.blocks]

LEMMA RunDecodes ==
  ASSUME LidarInv, NEW g \in Frame, NEW e, e.daz \in Nat, e.blind \in Nat, NEW p, NEW first \in Nat, NEW bad,
         PacketOf(p, first, bad, Knows(e)), NEW it, Fits(it), Knows(e) => it = Layout,
         NEW err \in Errors, err # "none", NEW mirrored
  PROVE  Decoded(DecodeBlocks(q, e, Const, g, p, it, Height, err, mirrored), first, bad, Knows(e), g)
<1> DEFINE N == Const.blocks
           off == Iterate(it, p.az, Const.dur, e.daz, e.blind)
<1>1. N \in Nat BY Configured, LidarConst
<1>2. PICK a : /\ DecodeRun(N, q, e, Const, g, p, off, Height, err, mirrored, a)
               /\ DecodeBlocks(q, e, Const, g, p, it, Height, err, mirrored) = a[N]
  BY <1>1, DecodeBlocksRun
<1>3. Len(p.az) = N /\ \A b \in 1..N : p.az[b] = AzOf(first + FiringOf(b))
  BY DEF PacketOf
<1>4. \A b \in 1..N : FiringOf(b) \in Nat /\ first + FiringOf(b) \in Nat
  <2> TAKE b \in 1..N
  <2>1. FiringOf(b) \in Nat BY FiringNext
  <2> QED BY <2>1
<1>5. \A b \in 1..N : p.az[b] \in Nat /\ p.az[b] < Round
  <2> TAKE b \in 1..N
  <2>1. PICK k \in Nat : k = first + FiringOf(b) BY <1>4
  <2>2. AzOf(k) \in Nat /\ AzOf(k) < Round BY OneFiring
  <2> QED BY <1>3, <2>1, <2>2
<1>6. \A b \in 1..N : off[b].az \in Nat /\ off[b].ts \in Nat
  BY <1>3, <1>5, IterateTyped
<1>7. Knows(e) => OffsetsRight(first, off)
  <2> SUFFICES ASSUME Knows(e) PROVE OffsetsRight(first, off) OBVIOUS
  <2>1. it = Layout /\ e.daz = Turned /\ e.blind = (Round - dev.fov) \div dev.rps BY DEF Knows
  <2>2. OffsetsRight(first, Iterate(Layout, p.az, Const.dur, Turned, (Round - dev.fov) \div dev.rps))
    BY <1>3, IterateRight
  <2> QED BY <2>1, <2>2, Zenon
<1>8. \A b \in 0..N : a[b] = IF b = 0 THEN [g EXCEPT !.ret = FALSE, !.err = "none"]
                             ELSE DecodeNext(q, e, Const, a[b - 1], p, b, off, Height, err, mirrored)
  BY <1>2, Zenon DEF DecodeRun
<1> HIDE DEF off
<1>9. a[0] = [g EXCEPT !.ret = FALSE, !.err = "none"]
  <2>1. 0 \in 0..N BY <1>1
  <2> QED BY <1>8, <2>1
<1>10. a[0] \in Frame
  <2>1. "none" \in Errors BY DEF Errors
  <2> QED BY <1>9, <2>1 DEF Frame
<1>11. Knows(e) \in BOOLEAN BY Zenon DEF Knows
<1>12. ASSUME NEW b \in 1..N, a[b - 1] \in Frame
       PROVE  a[b] \in Frame /\ BlockOutcome(a[b - 1], a[b], b, first, bad, off, Knows(e))
  <2>1. b \in 0..N /\ b # 0 OBVIOUS
  <2>2. a[b] = DecodeNext(q, e, Const, a[b - 1], p, b, off, Height, err, mirrored) BY <1>8, <2>1
  <2> QED BY <1>6, <1>11, <1>12, <2>2, BlockDecoded
<1> DEFINE T == {b \in Nat : b <= N => a[b] \in Frame}
<1>13. \A b \in 0..N : a[b] \in Frame
  <2>1. 0 \in T BY <1>10
  <2>2. ASSUME NEW b \in Nat, b \in T PROVE b + 1 \in T
    <3> SUFFICES ASSUME b + 1 <= N PROVE a[b + 1] \in Frame OBVIOUS
    <3>1. PICK c \in 1..N : c = b + 1 /\ c - 1 = b BY <1>1
    <3>2. a[c - 1] \in Frame BY <2>2, <3>1, <1>1
    <3> QED BY <1>12, <3>1, <3>2
  <2>3. Nat \subseteq T
    <3> HIDE DEF T
    <3> QED BY <2>1, <2>2, Induction
  <2> QED BY <1>1, <2>3
<1>14. \A b \in 1..N : BlockOutcome(a[b - 1], a[b], b, first, bad, off, Knows(e))
  <2> TAKE b \in 1..N
  <2>1. b - 1 \in 0..N BY <1>1
  <2> QED BY <1>12, <1>13, <2>1
<1>15. Decodes(first, bad, Knows(e), g, a, off)
  BY <1>6, <1>7, <1>9, <1>13, <1>14, Zenon DEF Decodes
<1> QED BY <1>2, <1>15, Zenon DEF Decoded

LEMMA PacketIs ==
  ASSUME LidarInv, NEW first \in Nat, NEW bad, NEW half, NEW hit, NEW other, NEW kn
  PROVE  PacketOf([MsopPkt(first, bad, half, hit, other) EXCEPT !.known = kn], first, bad, kn)
  BY PacketFields DEF PacketOf

\* A packet is not decoded at all, or block by block.
RunsTo(y, kn, first, bad, g) ==
  \/ y = [g EXCEPT !.ret = FALSE, !.err = "UNSUPPORTED"]
  \/ Height # 192 /\ Decoded(y, first, bad, kn, g)

LEMMA PacketRun ==
  ASSUME LidarInv, DecoderInv, NEW g \in Frame, NEW first \in Nat, NEW bad, NEW half, NEW hit, NEW other,
         NEW e, e = Learn(MsopPkt(first, bad, half, hit, other)), NEW y,
         y = DecodeMsop(e, g, [MsopPkt(first, bad, half, hit, other) EXCEPT !.known = Knows(e)])
  PROVE  RunsTo(y, Knows(e), first, bad, g)
<1>1. MsopPkt(first, bad, half, hit, other).model = dev.model BY DEF MsopPkt
<1>2. PICK p : p = [MsopPkt(first, bad, half, hit, other) EXCEPT !.known = Knows(e)] OBVIOUS
<1>3. PacketOf(p, first, bad, Knows(e)) BY <1>2, PacketIs, Zenon
<1>4. /\ DecoderFields(e) /\ e.daz = d.daz /\ e.blind = d.blind
      /\ lidar = "RSAIRY" => e.model = RSAIRYModel(dev.model)
      /\ lidar = "RSFAIRY" => e.model = RSFAIRYModel(dev.model)
  BY <1>1, LearnKeeps, Zenon
<1>5. e.daz \in Nat /\ e.blind \in Nat BY <1>4 DEF DecoderInv
<1>6. y = DecodeMsop(e, g, p) BY <1>2, Zenon
<1>7. \/ lidar = "RSAIRY" /\ DecodeMsop(e, g, p) = [g EXCEPT !.ret = FALSE, !.err = "UNSUPPORTED"]
      \/ DecodesAs(e, g, p)
  BY <1>4, Configured, MsopDecodes, Zenon
<1>9. CASE Height = 192
  <2>1. DecodeMsop(e, g, p) = [g EXCEPT !.ret = FALSE, !.err = "UNSUPPORTED"]
    <3>1. lidar \in LidarNames BY Configured
    <3>2. lidar = "RSAIRY" => e.model = RSAIRYModel(dev.model) BY <1>4, Zenon
    <3> QED BY <1>9, <3>1, <3>2, NotSupported, Zenon
  <2> QED BY <1>6, <2>1, Zenon DEF RunsTo
<1>8. CASE DecodesAs(e, g, p) /\ Height # 192
  <2>1. PICK it, err, mirrored :
          /\ Fits(it) /\ (Knows(e) => it = Layout) /\ err \in Errors \ {"none"}
          /\ DecodeMsop(e, g, p) = DecodeBlocks(q, e, Const, g, p, it, Height, err, mirrored)
    BY <1>8, Zenon DEF DecodesAs
  <2>2. err \in Errors /\ err # "none" BY <2>1
  <2>3. Decoded(DecodeBlocks(q, e, Const, g, p, it, Height, err, mirrored), first, bad, Knows(e), g)
    BY <1>3, <1>5, <2>1, <2>2, RunDecodes
  <2> QED BY <1>6, <1>8, <2>1, <2>3, Zenon DEF RunsTo
<1> QED BY <1>6, <1>7, <1>8, <1>9, Zenon DEF RunsTo

\* What a DIFOP packet leaves as it is.
Kept(x) ==
  DecoderFields(x) /\ x.daz \in Nat /\ x.blind \in Nat /\ x.init = d.init /\ x.model = d.model

LEMMA DifopCommonKeeps ==
  ASSUME DecoderInv, NEW l, l.dur \in Nat, NEW pkt, pkt.rps \in Nat, pkt.fov \in 1..Round
  PROVE  Kept(DifopCommon(d, l, pkt))
<1>1. PICK y : y = LoadFromDifop(d, pkt.cali) OBVIOUS
<1>2. DecoderFields(y) /\ y.init = d.init /\ y.model = d.model
  <2>1. DecoderFields(d) BY DEF DecoderInv
  <2>2. CASE y = d BY <2>1, <2>2
  <2>3. CASE y # d
    <3>1. \E v, r : y = [d EXCEPT !.ready = TRUE, !.vert = v, !.rings = r] BY <1>1, <2>3, Zenon DEF LoadFromDifop
    <3>2. PICK v, r : y = [d EXCEPT !.ready = TRUE, !.vert = v, !.rings = r] BY <3>1
    <3>3. PICK x : x = d OBVIOUS
    <3>4. x = [echo |-> x.echo, split |-> x.split, blks |-> x.blks, rps |-> x.rps, daz |-> x.daz, blind |-> x.blind,
               ready |-> x.ready, vert |-> x.vert, rings |-> x.rings, init |-> x.init, model |-> x.model,
               install |-> x.install, reversed |-> x.reversed]
      BY <2>1, <3>3, Zenon DEF DecoderFields
    <3>5. y = [echo |-> x.echo, split |-> x.split, blks |-> x.blks, rps |-> x.rps, daz |-> x.daz, blind |-> x.blind,
               ready |-> TRUE, vert |-> v, rings |-> r, init |-> x.init, model |-> x.model,
               install |-> x.install, reversed |-> x.reversed]
      BY <3>2, <3>3, <3>4
    <3> QED BY <3>3, <3>5 DEF DecoderFields
  <2> QED BY <2>2, <2>3
<1>3. PICK rps \in Nat \ {0} : rps = IF pkt.rps = 0 THEN 1 ELSE pkt.rps OBVIOUS
<1>4. PICK daz \in Nat : daz = rps * l.dur BY Products
<1>5. PICK blind \in Nat : blind = (Round - pkt.fov) \div rps
  <2>1. Round - pkt.fov \in Nat BY IteratorAssumption
  <2> QED BY <2>1, Quotient
<1>6. PICK z : z = DifopCommon(d, l, pkt) OBVIOUS
<1>7. \E blks : z = [y EXCEPT !.rps = rps, !.blks = blks, !.daz = daz, !.blind = blind]
  BY <1>1, <1>3, <1>4, <1>5, <1>6, Zenon DEF DifopCommon
<1>8. PICK blks : z = [y EXCEPT !.rps = rps, !.blks = blks, !.daz = daz, !.blind = blind] BY <1>7
<1>9. y = [echo |-> y.echo, split |-> y.split, blks |-> y.blks, rps |-> y.rps, daz |-> y.daz, blind |-> y.blind,
           ready |-> y.ready, vert |-> y.vert, rings |-> y.rings, init |-> y.init, model |-> y.model,
           install |-> y.install, reversed |-> y.reversed]
  BY <1>2, Zenon DEF DecoderFields
<1>10. z = [echo |-> y.echo, split |-> y.split, blks |-> blks, rps |-> rps, daz |-> daz, blind |-> blind,
           ready |-> y.ready, vert |-> y.vert, rings |-> y.rings, init |-> y.init, model |-> y.model,
           install |-> y.install, reversed |-> y.reversed]
  BY <1>8, <1>9
<1>11. Kept(z) BY <1>2, <1>10 DEF Kept, DecoderFields
<1> QED BY <1>6, <1>11

LEMMA KeptEcho ==
  ASSUME NEW y, Kept(y), NEW echo, NEW split
  PROVE  Kept([y EXCEPT !.echo = echo, !.split = split])
<1>1. y = [echo |-> y.echo, split |-> y.split, blks |-> y.blks, rps |-> y.rps, daz |-> y.daz, blind |-> y.blind,
           ready |-> y.ready, vert |-> y.vert, rings |-> y.rings, init |-> y.init, model |-> y.model,
           install |-> y.install, reversed |-> y.reversed]
  BY Zenon DEF DecoderFields, Kept
<1>2. PICK z : z = [y EXCEPT !.echo = echo, !.split = split] OBVIOUS
<1>3. z = [echo |-> echo, split |-> split, blks |-> y.blks, rps |-> y.rps, daz |-> y.daz, blind |-> y.blind,
           ready |-> y.ready, vert |-> y.vert, rings |-> y.rings, init |-> y.init, model |-> y.model,
           install |-> y.install, reversed |-> y.reversed]
  BY <1>1, <1>2
<1>4. Kept(z) BY <1>3 DEF DecoderFields, Kept
<1> QED BY <1>2, <1>4

LEMMA LearnEchoKeeps ==
  ASSUME NEW y, Kept(y), NEW echo
  PROVE  Kept(LearnEcho(y, echo)) /\ Kept(LearnEchoOnChange(y, echo))
<1>1. Kept(LearnEcho(y, echo))
  <2>1. PICK split : LearnEcho(y, echo) = [y EXCEPT !.echo = echo, !.split = split] BY Zenon DEF LearnEcho
  <2>2. Kept([y EXCEPT !.echo = echo, !.split = split]) BY KeptEcho
  <2> QED BY <2>1, <2>2, Zenon
<1>2. Kept(LearnEchoOnChange(y, echo))
  <2>1. CASE y.echo = echo BY <2>1, Zenon DEF LearnEchoOnChange
  <2>2. CASE y.echo # echo
    <3>1. PICK split : LearnEchoOnChange(y, echo) = [y EXCEPT !.echo = echo, !.split = split]
      BY <2>2, Zenon DEF LearnEchoOnChange
    <3>2. Kept([y EXCEPT !.echo = echo, !.split = split]) BY KeptEcho
    <3> QED BY <3>1, <3>2, Zenon
  <2> QED BY <2>1, <2>2
<1> QED BY <1>1, <1>2

LEMMA KeptOther ==
  ASSUME NEW y, Kept(y), NEW v
  PROVE  Kept([y EXCEPT !.reversed = v]) /\ Kept([y EXCEPT !.install = v])
<1>1. y = [echo |-> y.echo, split |-> y.split, blks |-> y.blks, rps |-> y.rps, daz |-> y.daz, blind |-> y.blind,
           ready |-> y.ready, vert |-> y.vert, rings |-> y.rings, init |-> y.init, model |-> y.model,
           install |-> y.install, reversed |-> y.reversed]
  BY Zenon DEF DecoderFields, Kept
<1>2. PICK z : z = [y EXCEPT !.reversed = v] OBVIOUS
<1>3. z = [echo |-> y.echo, split |-> y.split, blks |-> y.blks, rps |-> y.rps, daz |-> y.daz, blind |-> y.blind,
           ready |-> y.ready, vert |-> y.vert, rings |-> y.rings, init |-> y.init, model |-> y.model,
           install |-> y.install, reversed |-> v]
  BY <1>1, <1>2
<1>4. PICK w : w = [y EXCEPT !.install = v] OBVIOUS
<1>5. w = [echo |-> y.echo, split |-> y.split, blks |-> y.blks, rps |-> y.rps, daz |-> y.daz, blind |-> y.blind,
           ready |-> y.ready, vert |-> y.vert, rings |-> y.rings, init |-> y.init, model |-> y.model,
           install |-> v, reversed |-> y.reversed]
  BY <1>1, <1>4
<1>6. Kept(z) BY <1>3 DEF DecoderFields, Kept
<1>7. Kept(w) BY <1>5 DEF DecoderFields, Kept
<1> QED BY <1>2, <1>4, <1>6, <1>7

LEMMA DifopKeeps ==
  ASSUME lidar \in LidarNames, DecoderInv, NEW pkt, pkt.rps \in Nat, pkt.fov \in 1..Round
  PROVE  Kept(DecodeDifop(pkt))
<1>0. Const.dur \in Nat BY LidarConst
<1>1. CASE lidar = "RS16"
  <2>1. DecodeDifop(pkt) = RS16Difop(d, pkt) /\ Const = RS16 BY <1>1 DEF DecodeDifop, Const
  <2>2. Kept(DifopCommon(d, RS16, pkt)) BY <1>0, <2>1, DifopCommonKeeps
  <2>3. Kept(RS16Difop(d, pkt)) BY <2>2, LearnEchoKeeps, Zenon DEF RS16Difop
  <2> QED BY <2>1, <2>3, Zenon
<1>2. CASE lidar = "RSBP"
  <2>1. DecodeDifop(pkt) = RSBPDifop(d, pkt) /\ Const = RSBP BY <1>2 DEF DecodeDifop, Const
  <2>2. Kept(DifopCommon(d, RSBP, pkt)) BY <1>0, <2>1, DifopCommonKeeps
  <2>3. Kept(RSBPDifop(d, pkt)) BY <2>2, LearnEchoKeeps, KeptOther, Zenon DEF RSBPDifop
  <2> QED BY <2>1, <2>3, Zenon
<1>3. CASE lidar = "RS32"
  <2>1. DecodeDifop(pkt) = RS32Difop(d, pkt) /\ Const = RS32 BY <1>3 DEF DecodeDifop, Const
  <2>2. Kept(DifopCommon(d, RS32, pkt)) BY <1>0, <2>1, DifopCommonKeeps
  <2>3. Kept(RS32Difop(d, pkt)) BY <2>2, LearnEchoKeeps, Zenon DEF RS32Difop
  <2> QED BY <2>1, <2>3, Zenon
<1>4. CASE lidar = "RSHELIOS"
  <2>1. DecodeDifop(pkt) = RSHELIOSDifop(d, pkt) /\ Const = RSHELIOS BY <1>4 DEF DecodeDifop, Const
  <2>2. Kept(DifopCommon(d, RSHELIOS, pkt)) BY <1>0, <2>1, DifopCommonKeeps
  <2>3. Kept(RSHELIOSDifop(d, pkt)) BY <2>2, LearnEchoKeeps, Zenon DEF RSHELIOSDifop
  <2> QED BY <2>1, <2>3, Zenon
<1>5. CASE lidar = "RSHELIOS_16P"
  <2>1. DecodeDifop(pkt) = RSHELIOS16PDifop(d, pkt) /\ Const = RSHELIOS16P BY <1>5 DEF DecodeDifop, Const
  <2>2. Kept(DifopCommon(d, RSHELIOS16P, pkt)) BY <1>0, <2>1, DifopCommonKeeps
  <2>3. Kept(RSHELIOS16PDifop(d, pkt)) BY <2>2, LearnEchoKeeps, Zenon DEF RSHELIOS16PDifop
  <2> QED BY <2>1, <2>3, Zenon
<1>6. CASE lidar = "RSP128"
  <2>1. DecodeDifop(pkt) = RSP128Difop(d, pkt) /\ Const = RSP128 BY <1>6 DEF DecodeDifop, Const
  <2>2. Kept(DifopCommon(d, RSP128, pkt)) BY <1>0, <2>1, DifopCommonKeeps
  <2>3. Kept(RSP128Difop(d, pkt)) BY <2>2, LearnEchoKeeps, Zenon DEF RSP128Difop
  <2> QED BY <2>1, <2>3, Zenon
<1>7. CASE lidar = "RSP80"
  <2>1. DecodeDifop(pkt) = RSP80Difop(d, pkt) /\ Const = RSP80 BY <1>7 DEF DecodeDifop, Const
  <2>2. Kept(DifopCommon(d, RSP80, pkt)) BY <1>0, <2>1, DifopCommonKeeps
  <2>3. Kept(RSP80Difop(d, pkt)) BY <2>2, LearnEchoKeeps, Zenon DEF RSP80Difop
  <2> QED BY <2>1, <2>3, Zenon
<1>8. CASE lidar = "RSP48"
  <2>1. DecodeDifop(pkt) = RSP48Difop(d, pkt) /\ Const = RSP48 BY <1>8 DEF DecodeDifop, Const
  <2>2. Kept(DifopCommon(d, RSP48, pkt)) BY <1>0, <2>1, DifopCommonKeeps
  <2>3. Kept(RSP48Difop(d, pkt)) BY <2>2, LearnEchoKeeps, Zenon DEF RSP48Difop
  <2> QED BY <2>1, <2>3, Zenon
<1>9. CASE lidar = "RS128"
  <2>1. DecodeDifop(pkt) = RS128Difop(d, pkt) /\ Const = RS128 BY <1>9 DEF DecodeDifop, Const
  <2>2. Kept(DifopCommon(d, RS128, pkt)) BY <1>0, <2>1, DifopCommonKeeps
  <2>3. Kept(RS128Difop(d, pkt)) BY <2>2, LearnEchoKeeps, Zenon DEF RS128Difop
  <2> QED BY <2>1, <2>3, Zenon
<1>10. CASE lidar = "RS80"
  <2>1. DecodeDifop(pkt) = RS80Difop(d, pkt) /\ Const = RS80 BY <1>10 DEF DecodeDifop, Const
  <2>2. Kept(DifopCommon(d, RS80, pkt)) BY <1>0, <2>1, DifopCommonKeeps
  <2>3. Kept(RS80Difop(d, pkt)) BY <2>2, LearnEchoKeeps, Zenon DEF RS80Difop
  <2> QED BY <2>1, <2>3, Zenon
<1>11. CASE lidar = "RS48"
  <2>1. DecodeDifop(pkt) = RS48Difop(d, pkt) /\ Const = RS48 BY <1>11 DEF DecodeDifop, Const
  <2>2. Kept(DifopCommon(d, RS48, pkt)) BY <1>0, <2>1, DifopCommonKeeps
  <2>3. Kept(RS48Difop(d, pkt)) BY <2>2, LearnEchoKeeps, Zenon DEF RS48Difop
  <2> QED BY <2>1, <2>3, Zenon
<1>12. CASE lidar = "RSAIRY"
  <2>1. DecodeDifop(pkt) = RSAIRYDifop(d, pkt) /\ Const = RSAIRY BY <1>12 DEF DecodeDifop, Const
  <2>2. Kept(DifopCommon(d, RSAIRY, pkt)) BY <1>0, <2>1, DifopCommonKeeps
  <2>3. Kept(RSAIRYDifop(d, pkt))
    <3>1. \E v : RSAIRYDifop(d, pkt) = [DifopCommon(d, RSAIRY, pkt) EXCEPT !.install = v] BY Zenon DEF RSAIRYDifop
    <3> QED BY <2>2, <3>1, KeptOther, ZenonT(30)
  <2> QED BY <2>1, <2>3, Zenon
<1>13. CASE lidar = "RSFAIRY"
  <2>1. DecodeDifop(pkt) = RSFAIRYDifop(d, pkt) /\ Const = RSFAIRY BY <1>13 DEF DecodeDifop, Const
  <2>2. Kept(DifopCommon(d, RSFAIRY, pkt)) BY <1>0, <2>1, DifopCommonKeeps
  <2>3. Kept(RSFAIRYDifop(d, pkt)) BY <2>2, Zenon DEF RSFAIRYDifop
  <2> QED BY <2>1, <2>3, Zenon
<1> QED BY <1>1, <1>2, <1>3, <1>4, <1>5, <1>6, <1>7, <1>8, <1>9, <1>10, <1>11, <1>12, <1>13 DEF LidarNames

MechInv == LidarInv /\ DecoderInv /\ f \in Frame

\* The lidar stays what it is.
Same == lidar' = lidar /\ q' = q /\ dev' = dev

LEMMA Fixed ==
  ASSUME Same
  PROVE  /\ Const' = Const /\ Layout' = Layout /\ Turned' = Turned /\ PerTurn' = PerTurn /\ EchoSet' = EchoSet
         /\ FiringsPerBlock' = FiringsPerBlock /\ BlockIsColumn' = BlockIsColumn /\ Height' = Height
         /\ \A k : AzOf(k)' = AzOf(k) /\ TimeOf(k)' = TimeOf(k)
<1>1. Const' = Const BY DEF Same, Const
<1>2. EchoSet' = EchoSet BY Zenon DEF Same, EchoSet
<1>3. Layout' = Layout BY <1>2, Zenon DEF Same, Layout
<1>4. Turned' = Turned BY <1>1, Zenon DEF Same, Turned
<1>5. PerTurn' = PerTurn BY <1>4, Zenon DEF Same, PerTurn
<1>6. FiringsPerBlock' = FiringsPerBlock BY <1>3, Zenon DEF FiringsPerBlock
<1>7. BlockIsColumn' = BlockIsColumn BY Zenon DEF Same, BlockIsColumn
<1>8. Height' = Height BY <1>1, Zenon DEF Same, Height
<1>9. \A k : AzOf(k)' = AzOf(k) /\ TimeOf(k)' = TimeOf(k) BY <1>1, <1>4, <1>5, Zenon DEF Same, AzOf, TimeOf
<1> QED BY <1>1, <1>2, <1>3, <1>4, <1>5, <1>6, <1>7, <1>8, <1>9

LEMMA TypedStart ==
  ASSUME Init
  PROVE  MechInv
<1>1. LidarInv
  <2>1. fired \in Nat BY SetupsAssumption DEF Init
  <2>2. \E s \in Setups : q = s.q /\ dev = s.dev BY DEF Init
  <2> QED BY <2>1, <2>2 DEF Init, LidarInv
<1>2. Const.dur \in {1, 2} BY <1>1, Configured, LidarConst
<1>3. DecoderInv
  <2>1. d = NewDecoder(Const) BY DEF Init
  <2> QED BY <2>1 DEF NewDecoder, DecoderInv, DecoderFields
<1>4. f \in Frame
  <2>1. f = [sp |-> [prev |-> q.angle, blks |-> 0], cloud |-> <<>>, first |-> 0, prev |-> 0,
             out |-> <<>>, ret |-> FALSE, err |-> "none", known |-> TRUE]
    BY DEF Init
  <2>2. PICK a \in Nat : a = q.angle
    <3>1. q.angle \in 0..Round /\ Round \in Nat BY <1>1, Configured, Geometry
    <3> QED BY <3>1
  <2>3. f = [sp |-> [prev |-> a, blks |-> 0], cloud |-> <<>>, first |-> 0, prev |-> 0,
             out |-> <<>>, ret |-> FALSE, err |-> "none", known |-> TRUE]
    BY <2>1, <2>2, Zenon
  <2>4. <<>> \in Seq(Blk) /\ <<>> \in Seq(HandedOut) /\ "none" \in Errors BY DEF Errors
  <2>5. [prev |-> a, blks |-> 0] \in [prev : Nat, blks : Nat] OBVIOUS
  <2> QED BY <2>3, <2>4, <2>5 DEF Frame
<1> QED BY <1>1, <1>3, <1>4 DEF MechInv

LEMMA TypedDifop ==
  ASSUME MechInv, RecvDifop
  PROVE  DecoderInv' /\ Same /\ f' = f /\ fired' = fired /\ LidarInv'
<1>1. lidar' = lidar /\ dev' = dev /\ q' = q /\ f' = f /\ fired' = fired /\ phase' = phase
      /\ paced' = paced /\ splits' = splits /\ refused' = refused /\ halves' = halves /\ faults' = faults
  BY DEF RecvDifop
<1>2. Same BY <1>1 DEF Same
<1>3. LidarInv /\ DecoderInv BY DEF MechInv
<1>4. LidarInv' BY <1>1, <1>2, <1>3, Fixed DEF LidarInv
<1>5. PICK rps, cali : rps \in Nat /\ d' = DecodeDifop(DifopPkt(rps, cali))
  <2>1. dev.rps \in Nat /\ 0 \in Nat BY <1>3, Configured
  <2>2. d' = DecodeDifop(DifopPkt(dev.rps, Angles)) \/ d' = DecodeDifop(DifopPkt(0, Unset)) BY DEF RecvDifop
  <2> QED BY <2>1, <2>2, Zenon
<1>6. PICK pkt : pkt = DifopPkt(rps, cali) OBVIOUS
<1>7. pkt.rps = rps /\ pkt.fov = dev.fov BY <1>6 DEF DifopPkt
<1>12. rps \in Nat BY <1>5
<1>8. Kept(DecodeDifop(pkt)) BY <1>3, <1>7, <1>12, Configured, DifopKeeps
<1>9. PICK x : x = d' OBVIOUS
<1>10. Kept(x) BY <1>5, <1>6, <1>8, <1>9, Zenon
<1>11. DecoderInv'
  <2>1. DecoderFields(x) /\ x.daz \in Nat /\ x.blind \in Nat /\ x.init = d.init /\ x.model = d.model
    BY <1>10, Zenon DEF Kept
  <2>2. DecoderFields(d)' BY <1>9, <2>1, Zenon DEF DecoderFields
  <2>3. d.init => /\ lidar = "RSAIRY" => d.model = RSAIRYModel(dev.model)
                  /\ lidar = "RSFAIRY" => d.model = RSFAIRYModel(dev.model)
    BY <1>3, Zenon DEF DecoderInv
  <2> QED BY <1>1, <1>9, <2>1, <2>2, <2>3, Zenon DEF DecoderInv
<1> QED BY <1>1, <1>2, <1>4, <1>11

\* At least the faults counted are there.
LEMMA FaultsCounted ==
  ASSUME NEW W, W \subseteq {"lost", "bad", "other", "miss"}
  PROVE  /\ Cardinality(W) \in Nat
         /\ Cardinality(W) >= (IF "lost" \in W THEN 1 ELSE 0) + (IF "bad" \in W THEN 1 ELSE 0)
                                + (IF "other" \in W THEN 1 ELSE 0)
<1>1. IsFiniteSet(W)
  <2>1. {"lost", "bad", "other", "miss"} = {"lost"} \cup {"bad"} \cup {"other"} \cup {"miss"} OBVIOUS
  <2>3. IsFiniteSet({"lost"} \cup {"bad"}) BY FS_Singleton, FS_Union
  <2>4. IsFiniteSet({"lost"} \cup {"bad"} \cup {"other"}) BY <2>3, FS_Singleton, FS_Union
  <2>5. IsFiniteSet({"lost"} \cup {"bad"} \cup {"other"} \cup {"miss"}) BY <2>4, FS_Singleton, FS_Union
  <2>2. IsFiniteSet({"lost", "bad", "other", "miss"}) BY <2>1, <2>5
  <2> QED BY <2>2, FS_Subset
<1>2. ASSUME NEW V, IsFiniteSet(V), NEW x
      PROVE  /\ IsFiniteSet(V \ {x}) /\ Cardinality(V) \in Nat
             /\ Cardinality(V) = Cardinality(V \ {x}) + (IF x \in V THEN 1 ELSE 0)
  <2>1. IsFiniteSet(V \ {x}) BY <1>2, FS_Subset
  <2>2. Cardinality(V) \in Nat /\ Cardinality(V \ {x}) \in Nat BY <1>2, <2>1, FS_CardinalityType
  <2>3. CASE x \in V
    <3>1. Cardinality(V \ {x}) = Cardinality(V) - 1 BY <1>2, <2>3, FS_RemoveElement
    <3> QED BY <2>1, <2>2, <2>3, <3>1
  <2>4. CASE x \notin V
    <3>1. V \ {x} = V BY <2>4
    <3>2. Cardinality(V \ {x}) = Cardinality(V) BY <3>1, Zenon
    <3>3. (IF x \in V THEN 1 ELSE 0) = 0 BY <2>4
    <3>4. PICK n \in Nat : n = Cardinality(V) BY <2>2
    <3>5. n = n + 0 OBVIOUS
    <3> QED BY <2>1, <2>2, <3>2, <3>3, <3>4, <3>5, Zenon
  <2> QED BY <2>3, <2>4
<1>3. PICK A : A = W \ {"lost"} OBVIOUS
<1>4. PICK B : B = A \ {"bad"} OBVIOUS
<1>5. PICK C : C = B \ {"other"} OBVIOUS
<1>6. IsFiniteSet(A) /\ Cardinality(W) = Cardinality(A) + (IF "lost" \in W THEN 1 ELSE 0) /\ Cardinality(W) \in Nat
  BY <1>1, <1>2, <1>3
<1>7. IsFiniteSet(B) /\ Cardinality(A) = Cardinality(B) + (IF "bad" \in A THEN 1 ELSE 0) /\ Cardinality(A) \in Nat
  BY <1>2, <1>4, <1>6
<1>8. IsFiniteSet(C) /\ Cardinality(B) = Cardinality(C) + (IF "other" \in B THEN 1 ELSE 0) /\ Cardinality(B) \in Nat
  BY <1>2, <1>5, <1>7
<1>9. Cardinality(C) \in Nat BY <1>2, <1>8
<1>10. ("bad" \in A <=> "bad" \in W) /\ ("other" \in B <=> "other" \in W) BY <1>3, <1>4
<1> QED BY <1>6, <1>7, <1>8, <1>9, <1>10

\* A packet as it is received, and what is decoded of it.
Counts(c) == IF c THEN 1 ELSE 0

\* What isNewFrame reports of it, with the blocks "half" wrong in the last byte.
Reported(p, half) ==
  /\ half # {} => lidar \in {"RSAIRY", "RSFAIRY"}
  /\ pre' = IsNewFrame(p).sp /\ paced' = paced + Counts(IsNewFrame(p).split)
  /\ halves' = halves + Counts(half # {})

Received(lost, first, bad, hit, other, g) ==
  /\ lost \in {0, Lost} /\ first = fired + lost
  /\ fired' = first + FiringOf(Const.blocks + 1)
  /\ g = f \/ g = [f EXCEPT !.cloud = <<>>]
  /\ \/ /\ (q.wait /\ ~d.ready) \/ other
        /\ f' = [g EXCEPT !.ret = FALSE, !.err = "none"]
     \/ /\ ~(q.wait /\ ~d.ready) /\ ~other
        /\ \/ f' = [g EXCEPT !.ret = FALSE, !.err = "UNSUPPORTED"]
           \/ Height # 192 /\ \E kn \in BOOLEAN : Decoded(f', first, bad, kn, g)
  /\ faults' \in Nat /\ faults' >= faults + Counts(lost > 0) + Counts(bad # {}) + Counts(other)
  /\ other => lidar \in {"RSAIRY", "RSFAIRY"}
  /\ \E half \in SUBSET bad : Reported(MsopPkt(first, bad, half, hit, other), half)
  /\ splits' = splits + Counts(f'.ret)
  /\ refused' = refused + Counts((q.wait /\ ~d.ready) \/ f'.err = "UNSUPPORTED")

LEMMA MsopStep ==
  ASSUME MechInv, RecvMsop
  PROVE  /\ \E lost \in Nat, first \in Nat, bad \in SUBSET (1..Const.blocks), hit \in BOOLEAN,
              other \in BOOLEAN, g \in Frame :
              Received(lost, first, bad, hit, other, g)
         /\ Same /\ phase' = (IF Layout = "ABDual" THEN (Const.blocks + phase) % 2 ELSE 0)
         /\ DecoderInv'
<1> DEFINE Went(lost, bad, hit, other) ==
             {w \in {"lost", "bad", "other", "miss"} :
                CASE w = "lost" -> lost > 0 [] w = "bad" -> bad # {}
                  [] w = "other" -> other   [] w = "miss" -> ~hit}
<1>1. PICK lost \in {0, Lost}, bad \in {{}} \cup {{b} : b \in BadBlocks \cap 1..Const.blocks}, other \in BOOLEAN,
           hit \in BOOLEAN :
      \E half \in SUBSET bad :
        LET p == MsopPkt(fired + lost, bad, half, hit, other)
            seen == IsNewFrame(p)
        IN /\ faults' = faults + Cardinality(Went(lost, bad, hit, other)) /\ faults' <= MaxFaults
           /\ other \/ half # {} => lidar \in {"RSAIRY", "RSFAIRY"}
           /\ Process(p)
           /\ pre' = seen.sp /\ paced' = paced + (IF seen.split THEN 1 ELSE 0)
           /\ splits' = splits + (IF f'.ret THEN 1 ELSE 0)
           /\ refused' = refused + (IF (q.wait /\ ~d.ready) \/ f'.err = "UNSUPPORTED" THEN 1 ELSE 0)
           /\ halves' = halves + (IF half # {} THEN 1 ELSE 0)
           /\ fired' = fired + lost + FiringOf(Const.blocks + 1)
           /\ phase' = IF Layout = "ABDual" THEN (Const.blocks + phase) % 2 ELSE 0
           /\ pkts' = pkts + 1
  BY Zenon DEF RecvMsop
<1>16. PICK half \in SUBSET bad :
        LET p == MsopPkt(fired + lost, bad, half, hit, other)
            seen == IsNewFrame(p)
        IN /\ faults' = faults + Cardinality(Went(lost, bad, hit, other)) /\ faults' <= MaxFaults
           /\ other \/ half # {} => lidar \in {"RSAIRY", "RSFAIRY"}
           /\ Process(p)
           /\ pre' = seen.sp /\ paced' = paced + (IF seen.split THEN 1 ELSE 0)
           /\ splits' = splits + (IF f'.ret THEN 1 ELSE 0)
           /\ refused' = refused + (IF (q.wait /\ ~d.ready) \/ f'.err = "UNSUPPORTED" THEN 1 ELSE 0)
           /\ halves' = halves + (IF half # {} THEN 1 ELSE 0)
           /\ fired' = fired + lost + FiringOf(Const.blocks + 1)
           /\ phase' = IF Layout = "ABDual" THEN (Const.blocks + phase) % 2 ELSE 0
           /\ pkts' = pkts + 1
  BY <1>1, Zenon
<1>2. lidar' = lidar /\ q' = q /\ dev' = dev BY DEF RecvMsop
<1>3. LidarInv /\ DecoderInv /\ f \in Frame BY DEF MechInv
<1>4. bad \in SUBSET (1..Const.blocks) OBVIOUS
<1>5. lost \in Nat BY SetupsAssumption
<1>6. PICK first \in Nat : first = fired + lost BY <1>3, <1>5 DEF LidarInv
<1>7. PICK p : p = MsopPkt(first, bad, half, hit, other) OBVIOUS
<1>8. /\ faults' = faults + Cardinality(Went(lost, bad, hit, other))
      /\ other => lidar \in {"RSAIRY", "RSFAIRY"}
      /\ Process(p) /\ Reported(p, half)
      /\ splits' = splits + Counts(f'.ret)
      /\ refused' = refused + Counts((q.wait /\ ~d.ready) \/ f'.err = "UNSUPPORTED")
      /\ fired' = first + FiringOf(Const.blocks + 1)
      /\ phase' = IF Layout = "ABDual" THEN (Const.blocks + phase) % 2 ELSE 0
  BY <1>16, <1>6, <1>7, Zenon DEF Counts, Reported
<1>9. faults' \in Nat /\ faults' >= faults + Counts(lost > 0) + Counts(bad # {}) + Counts(other)
  <2>1. PICK W : W = Went(lost, bad, hit, other) OBVIOUS
  <2>2. /\ W \subseteq {"lost", "bad", "other", "miss"}
        /\ "lost" \in W <=> lost > 0
        /\ "bad" \in W <=> bad # {}
        /\ "other" \in W <=> other
    BY <2>1
  <2>3. faults \in Nat BY <1>3 DEF LidarInv
  <2>4. faults' = faults + Cardinality(W) BY <1>8, <2>1, Zenon
  <2>5. /\ Cardinality(W) \in Nat
        /\ Cardinality(W) >= (IF "lost" \in W THEN 1 ELSE 0) + (IF "bad" \in W THEN 1 ELSE 0)
                                + (IF "other" \in W THEN 1 ELSE 0)
    BY <2>2, FaultsCounted, Zenon
  <2>6. PICK n \in Nat : n = Cardinality(W) BY <2>5
  <2>7. n >= Counts(lost > 0) + Counts(bad # {}) + Counts(other) BY <2>2, <2>5, <2>6, Zenon DEF Counts
  <2>8. Counts(lost > 0) \in {0, 1} /\ Counts(bad # {}) \in {0, 1} /\ Counts(other) \in {0, 1} BY DEF Counts
  <2>9. faults' = faults + n BY <2>4, <2>6, Zenon
  <2> QED BY <2>3, <2>7, <2>8, <2>9
<1>10. PICK g \in Frame : g = DropOverflow(f) /\ (g = f \/ g = [f EXCEPT !.cloud = <<>>])
  <2>1. DropOverflow(f) = f \/ DropOverflow(f) = [f EXCEPT !.cloud = <<>>] BY Zenon DEF DropOverflow
  <2>2. [f EXCEPT !.cloud = <<>>] \in Frame
    <3>1. PICK c \in Frame : c = f BY <1>3
    <3>2. <<>> \in Seq(Blk) OBVIOUS
    <3>3. [c EXCEPT !.cloud = <<>>] \in Frame BY <3>2 DEF Frame
    <3> QED BY <3>1, <3>3
  <2> QED BY <1>3, <2>1, <2>2, Zenon
<1>11. p.model = dev.model /\ p.other = other BY <1>7 DEF MsopPkt
<1>12. IF (q.wait /\ ~d.ready) \/ other
         THEN d' = d /\ f' = [g EXCEPT !.ret = FALSE, !.err = "none"]
         ELSE d' = Learn(p) /\ f' = DecodeMsop(Learn(p), g, [p EXCEPT !.known = Knows(Learn(p))])
  BY <1>8, <1>10, <1>11, Zenon DEF Process
<1>13. \/ /\ (q.wait /\ ~d.ready) \/ other
          /\ f' = [g EXCEPT !.ret = FALSE, !.err = "none"]
       \/ /\ ~(q.wait /\ ~d.ready) /\ ~other
          /\ \/ f' = [g EXCEPT !.ret = FALSE, !.err = "UNSUPPORTED"]
             \/ Height # 192 /\ \E kn \in BOOLEAN : Decoded(f', first, bad, kn, g)
  <2>1. CASE (q.wait /\ ~d.ready) \/ other BY <1>12, <2>1, Zenon
  <2>2. CASE ~((q.wait /\ ~d.ready) \/ other)
    <3>1. PICK e : e = Learn(p) OBVIOUS
    <3>2. PICK y : y = f' OBVIOUS
    <3>3. y = DecodeMsop(e, g, [p EXCEPT !.known = Knows(e)]) BY <1>12, <2>2, <3>1, <3>2, Zenon
    <3>4. e = Learn(MsopPkt(first, bad, half, hit, other)) BY <1>7, <3>1, Zenon
    <3>5. y = DecodeMsop(e, g, [MsopPkt(first, bad, half, hit, other) EXCEPT !.known = Knows(e)]) BY <1>7, <3>3, Zenon
    <3>6. RunsTo(y, Knows(e), first, bad, g) BY <1>3, <3>4, <3>5, PacketRun
    <3>7. Knows(e) \in BOOLEAN BY Zenon DEF Knows
    <3> QED BY <2>2, <3>2, <3>6, <3>7, Zenon DEF RunsTo
  <2> QED BY <2>1, <2>2
<1>14. DecoderInv'
  <2>1. PICK x : x = d' OBVIOUS
  <2>2. PICK e : e = Learn(p) OBVIOUS
  <2>3. x = d \/ x = e BY <1>12, <2>1, <2>2, Zenon
  <2>4. DecoderFields(d) /\ d.daz \in Nat /\ d.blind \in Nat BY <1>3 DEF DecoderInv
  <2>5. /\ DecoderFields(e) /\ e.daz = d.daz /\ e.blind = d.blind
        /\ lidar = "RSAIRY" => e.model = RSAIRYModel(dev.model)
        /\ lidar = "RSFAIRY" => e.model = RSFAIRYModel(dev.model)
    BY <1>3, <1>11, <2>2, LearnKeeps
  <2>6. /\ DecoderFields(x) /\ x.daz \in Nat /\ x.blind \in Nat
        /\ x.init => /\ lidar = "RSAIRY" => x.model = RSAIRYModel(dev.model)
                     /\ lidar = "RSFAIRY" => x.model = RSFAIRYModel(dev.model)
    <3>1. CASE x = d BY <1>3, <3>1, Zenon DEF DecoderInv
    <3>2. CASE x = e
      <4>1. DecoderFields(x) /\ x.daz = d.daz /\ x.blind = d.blind
            /\ (lidar = "RSAIRY" => x.model = RSAIRYModel(dev.model))
            /\ (lidar = "RSFAIRY" => x.model = RSFAIRYModel(dev.model))
        BY <2>5, <3>2, Zenon
      <4> QED BY <2>4, <4>1, Zenon
    <3> QED BY <2>3, <3>1, <3>2
  <2>7. DecoderFields(d)' BY <2>1, <2>6, Zenon DEF DecoderFields
  <2> QED BY <1>2, <2>1, <2>6, <2>7, Zenon DEF DecoderInv
<1>15. Received(lost, first, bad, hit, other, g)
  <2>1. lost \in {0, Lost} OBVIOUS
  <2>2. half \in SUBSET bad OBVIOUS
  <2> QED BY <1>6, <1>7, <1>8, <1>9, <1>10, <1>13, <2>1, <2>2, Zenon DEF Received
<1> QED BY <1>2, <1>4, <1>5, <1>8, <1>14, <1>15, Zenon DEF Same

LEMMA TypedMsop ==
  ASSUME MechInv, RecvMsop
  PROVE  MechInv'
<1>1. LidarInv /\ f \in Frame BY DEF MechInv
<1>2. PICK lost \in Nat, first \in Nat, bad \in SUBSET (1..Const.blocks), hit \in BOOLEAN,
              other \in BOOLEAN, g \in Frame :
        Received(lost, first, bad, hit, other, g)
  BY MsopStep
<1>3. Same /\ phase' = (IF Layout = "ABDual" THEN (Const.blocks + phase) % 2 ELSE 0) /\ DecoderInv' BY MsopStep
<1>4. LidarInv'
  <2>1. FiringOf(Const.blocks + 1) \in Nat
    <3>1. Const.blocks \in 1..Const.blocks BY <1>1, Configured, LidarConst
    <3> QED BY <1>1, <3>1, FiringNext
  <2>2. fired' \in Nat BY <1>2, <2>1 DEF Received
  <2>3. phase' \in {0, 1} /\ (Layout # "ABDual" => phase' = 0)
    <3>1. Layout = "ABDual" => Const.blocks = 3 BY <1>1, Configured, LayoutConst
    <3>2. phase \in {0, 1} BY <1>1 DEF LidarInv
    <3> QED BY <1>3, <3>1, <3>2
  <2>4. Layout' = Layout /\ lidar' = lidar /\ q' = q /\ dev' = dev BY <1>3, Fixed DEF Same
  <2>5. \A c : Counts(c) \in Nat BY DEF Counts
  <2>6. paced' \in Nat /\ splits' \in Nat /\ refused' \in Nat /\ halves' \in Nat /\ faults' \in Nat
    <3>1. paced \in Nat /\ splits \in Nat /\ refused \in Nat /\ halves \in Nat BY <1>1 DEF LidarInv
    <3>2. faults' \in Nat BY <1>2 DEF Received
    <3>3. \E c1, c2, c3, c4 \in Nat :
            paced' = paced + c1 /\ splits' = splits + c2 /\ refused' = refused + c3 /\ halves' = halves + c4
      <4>1. PICK half \in SUBSET bad : Reported(MsopPkt(first, bad, half, hit, other), half)
        BY <1>2, Zenon DEF Received
      <4>2. \E c1, c4 \in Nat : paced' = paced + c1 /\ halves' = halves + c4
        BY <2>5, <4>1, Zenon DEF Reported
      <4>3. \E c2, c3 \in Nat : splits' = splits + c2 /\ refused' = refused + c3
        BY <1>2, <2>5, Zenon DEF Received
      <4> QED BY <4>2, <4>3
    <3> QED BY <3>1, <3>2, <3>3
  <2> QED BY <1>1, <2>2, <2>3, <2>4, <2>6, Zenon DEF LidarInv
<1>5. f' \in Frame
  <2>1. ASSUME NEW err \in Errors, NEW y, y = [g EXCEPT !.ret = FALSE, !.err = err] PROVE y \in Frame
    BY <2>1 DEF Frame
  <2>2. "none" \in Errors /\ "UNSUPPORTED" \in Errors BY DEF Errors
  <2>3. ASSUME NEW kn, Decoded(f', first, bad, kn, g) PROVE f' \in Frame
    <3>1. Const.blocks \in 0..Const.blocks BY <1>1, Configured, LidarConst
    <3> QED BY <2>3, <3>1, Zenon DEF Decoded, Decodes
  <2> QED BY <1>2, <2>1, <2>2, <2>3, Zenon DEF Received
<1> QED BY <1>3, <1>4, <1>5 DEF MechInv

\* What holds before the first block and is kept by each one holds after the last.
LEMMA BlockInduction ==
  ASSUME NEW N \in Nat, NEW S, 0 \in S, \A b \in 1..N : b - 1 \in S => b \in S
  PROVE  \A b \in 0..N : b \in S
<1> DEFINE T == {b \in Nat : b <= N => b \in S}
<1>1. 0 \in T OBVIOUS
<1>2. ASSUME NEW b \in Nat, b \in T PROVE b + 1 \in T
  <2> SUFFICES ASSUME b + 1 <= N PROVE b + 1 \in S OBVIOUS
  <2>1. PICK c \in 1..N : c = b + 1 /\ c - 1 = b OBVIOUS
  <2>2. c - 1 \in S BY <1>2, <2>1
  <2> QED BY <2>1, <2>2
<1>3. Nat \subseteq T
  <2> HIDE DEF T
  <2> QED BY <1>1, <1>2, Induction
<1> QED BY <1>3

\* A frame that a packet leaves as it was, but for what is reported of it.
Outcome(y, first, bad, g) ==
  \/ \E err \in Errors : y = [g EXCEPT !.ret = FALSE, !.err = err]
  \/ \E kn \in BOOLEAN : Decoded(y, first, bad, kn, g)

LEMMA Outcomes ==
  ASSUME NEW lost, NEW first, NEW bad, NEW hit, NEW other, NEW g, Received(lost, first, bad, hit, other, g)
  PROVE  Outcome(f', first, bad, g)
<1>1. "none" \in Errors /\ "UNSUPPORTED" \in Errors BY DEF Errors
<1> QED BY <1>1, Zenon DEF Received, Outcome

-----------------------------------------------------------------------------
(* Times and angles of the blocks *)

Timely(b) ==
  b.known =>
    /\ b.turn = Turned * FiringsPerBlock
    /\ b.ts <= b.sent /\ b.sent - b.ts <= b.gaps * FiringsPerBlock * Const.dur

TimelyCloud(x) == \A i \in DOMAIN x.cloud : Timely(x.cloud[i])

LEMMA BlockOfTimely ==
  ASSUME LidarInv, NEW first \in Nat, NEW b \in 1..Const.blocks, NEW off, NEW kn \in BOOLEAN,
         kn => OffsetsRight(first, off), NEW n
  PROVE  Timely(BlockOf(first, first + FiringOf(b), off[b], n, kn))
<1> DEFINE k == first + FiringOf(b)
           y == BlockOf(first, k, off[b], n, kn)
<1>1. /\ y.turn = off[b].az /\ y.ts = TimeOf(first) + off[b].ts /\ y.sent = TimeOf(k)
      /\ y.gaps = k \div PerTurn - first \div PerTurn /\ y.known = kn
  BY DEF BlockOf
<1> SUFFICES ASSUME kn
             PROVE  /\ y.turn = Turned * FiringsPerBlock
                    /\ y.ts <= y.sent /\ y.sent - y.ts <= y.gaps * FiringsPerBlock * Const.dur
  BY <1>1, Zenon DEF Timely
<1>2. off[b].az = Turned * FiringsPerBlock /\ Timed(first, FiringOf(b), FiringsPerBlock, off[b].ts)
  BY Zenon DEF OffsetsRight
<1> HIDE DEF y
<1> QED BY <1>1, <1>2, Zenon DEF Timed

LEMMA TimelyWith ==
  ASSUME NEW c \in Seq(Blk), \A i \in DOMAIN c : Timely(c[i]), NEW n, NEW blk, Timely(blk)
  PROVE  \A i \in DOMAIN With(c, n, blk) : Timely(With(c, n, blk)[i])
<1>1. CASE n = 0 BY <1>1 DEF With
<1>2. CASE n # 0
  <2>1. With(c, n, blk) = Append(c, blk) BY <1>2 DEF With
  <2>2. Len(c) \in Nat /\ DOMAIN c = 1..Len(c) /\ DOMAIN Append(c, blk) = 1..(Len(c) + 1) OBVIOUS
  <2>3. ASSUME NEW i \in 1..(Len(c) + 1) PROVE Timely(Append(c, blk)[i])
    <3>1. CASE i = Len(c) + 1
      <4>1. Append(c, blk)[i] = blk BY <2>2, <3>1
      <4> QED BY <4>1, Zenon
    <3>2. CASE i # Len(c) + 1
      <4>1. i \in 1..Len(c) BY <2>2, <3>2
      <4>2. Append(c, blk)[i] = c[i] BY <4>1
      <4> QED BY <2>2, <4>1, <4>2, Zenon
    <3> QED BY <3>1, <3>2
  <2> QED BY <2>1, <2>2, <2>3, Zenon
<1> QED BY <1>1, <1>2

LEMMA TimelyDecoded ==
  ASSUME LidarInv, NEW first \in Nat, NEW bad, NEW kn \in BOOLEAN, NEW g, TimelyCloud(g), g \in Frame,
         NEW y, Decoded(y, first, bad, kn, g)
  PROVE  TimelyCloud(y)
<1>1. PICK a, off : Decodes(first, bad, kn, g, a, off) /\ y = a[Const.blocks] BY Zenon DEF Decoded
<1> DEFINE N == Const.blocks
           S == {b \in 0..N : TimelyCloud(a[b])}
<1>2. N \in Nat BY Configured, LidarConst
<1>3. 0 \in S
  <2>1. a[0] = [g EXCEPT !.ret = FALSE, !.err = "none"] BY <1>1, Zenon DEF Decodes
  <2>2. a[0].cloud = g.cloud BY <2>1 DEF Frame
  <2>3. TimelyCloud(a[0]) BY <2>2, Zenon DEF TimelyCloud
  <2> QED BY <1>2, <2>3
<1>4. ASSUME NEW b \in 1..N, b - 1 \in S PROVE b \in S
  <2>1. PICK x \in Frame : x = a[b - 1]
    <3>1. b - 1 \in 0..N BY <1>2
    <3> QED BY <1>1, <3>1, Zenon DEF Decodes
  <2>2. PICK z : z = a[b] OBVIOUS
  <2>3. BlockOutcome(x, z, b, first, bad, off, kn) /\ (kn => OffsetsRight(first, off))
    BY <1>1, <2>1, <2>2, Zenon DEF Decodes
  <2>4. TimelyCloud(x) BY <1>4, <2>1
  <2>5. TimelyCloud(z)
    <3>5. CASE x.err # "none" /\ z = x BY <2>4, <3>5, Zenon
    <3>6. CASE \E err \in Errors \ {"none"} : z = [x EXCEPT !.err = err]
      <4>1. z.cloud = x.cloud BY <3>6 DEF Frame
      <4> QED BY <2>4, <4>1, Zenon DEF TimelyCloud
    <3>7. CASE BlockStep(x, z, Height, first, first + FiringOf(b), off[b], kn)
      <4>1. PICK n : \/ z.cloud = With(x.cloud, n, BlockOf(first, first + FiringOf(b), off[b], n, kn))
                     \/ z.cloud = With(<<>>, n, BlockOf(first, first + FiringOf(b), off[b], n, kn))
        BY <3>7, Zenon DEF BlockStep
      <4>2. Timely(BlockOf(first, first + FiringOf(b), off[b], n, kn)) BY <2>3, BlockOfTimely
      <4>3. x.cloud \in Seq(Blk) /\ <<>> \in Seq(Blk) /\ \A i \in DOMAIN <<>> : FALSE BY DEF Frame
      <4>4. \A i \in DOMAIN x.cloud : Timely(x.cloud[i]) BY <2>4, Zenon DEF TimelyCloud
      <4>5. \A i \in DOMAIN <<>> : Timely(<<>>[i]) BY <4>3, Zenon
      <4> QED BY <4>1, <4>2, <4>3, <4>4, <4>5, TimelyWith, Zenon DEF TimelyCloud
    <3> QED BY <2>3, <3>5, <3>6, <3>7, Zenon DEF BlockOutcome
  <2> QED BY <1>2, <2>2, <2>5
<1>5. \A b \in 0..N : b \in S
  <2> HIDE DEF S
  <2> QED BY <1>2, <1>3, <1>4, BlockInduction
<1>6. N \in 0..N BY <1>2
<1> QED BY <1>1, <1>5, <1>6

LEMMA TimelyKept ==
  ASSUME MechInv, TimelyCloud(f), RecvMsop
  PROVE  TimelyCloud(f)'
<1>1. LidarInv /\ f \in Frame BY DEF MechInv
<1>2. PICK lost \in Nat, first \in Nat, bad \in SUBSET (1..Const.blocks), hit \in BOOLEAN,
           other \in BOOLEAN, g \in Frame : Received(lost, first, bad, hit, other, g)
  BY MsopStep
<1>3. Same BY MsopStep
<1>4. g = f \/ g = [f EXCEPT !.cloud = <<>>] BY <1>2, Zenon DEF Received
<1>5. TimelyCloud(g)
  <2>1. g.cloud = f.cloud \/ g.cloud = <<>> BY <1>1, <1>4 DEF Frame
  <2>2. \A i \in DOMAIN <<>> : Timely(<<>>[i]) OBVIOUS
  <2> QED BY <2>1, <2>2, Zenon DEF TimelyCloud
<1>6. PICK y : y = f' OBVIOUS
<1>7. TimelyCloud(y)
  <2>1. CASE \E err \in Errors : y = [g EXCEPT !.ret = FALSE, !.err = err]
    <3>1. y.cloud = g.cloud BY <2>1 DEF Frame
    <3> QED BY <1>5, <3>1, Zenon DEF TimelyCloud
  <2>2. CASE \E kn \in BOOLEAN : Decoded(y, first, bad, kn, g) BY <1>1, <1>5, <2>2, TimelyDecoded
  <2>3. Outcome(y, first, bad, g) BY <1>2, <1>6, Outcomes, Zenon
  <2> QED BY <2>1, <2>2, <2>3, Zenon DEF Outcome
<1>8. /\ Turned' = Turned /\ FiringsPerBlock' = FiringsPerBlock /\ Const' = Const BY <1>3, Fixed
<1>9. TimelyCloud(y)' BY <1>7, <1>8, Zenon DEF TimelyCloud, Timely
<1> QED BY <1>6, <1>9, Zenon DEF TimelyCloud

\* Once the decoder knows its lidar, every block of a cloud has the time at which it was
\* fired, short by at most a block in the blind zone, and the angle turned meanwhile.
THEOREM BlocksTimed == Spec => []BlockTimes
<1>1. Init => MechInv /\ TimelyCloud(f)
  <2> SUFFICES ASSUME Init PROVE MechInv /\ TimelyCloud(f) OBVIOUS
  <2>1. f.cloud = <<>> BY DEF Init
  <2> QED BY <2>1, TypedStart DEF TimelyCloud
<1>2. MechInv /\ TimelyCloud(f) /\ [Next]_vars => MechInv' /\ TimelyCloud(f)'
  <2> SUFFICES ASSUME MechInv, TimelyCloud(f), [Next]_vars PROVE MechInv' /\ TimelyCloud(f)' OBVIOUS
  <2>1. CASE RecvDifop
    <3>1. DecoderInv' /\ LidarInv' /\ Same /\ f' = f BY <2>1, TypedDifop
    <3>2. /\ Turned' = Turned /\ FiringsPerBlock' = FiringsPerBlock /\ Const' = Const BY <3>1, Fixed
    <3>3. TimelyCloud(f)' BY <3>1, <3>2, Zenon DEF TimelyCloud, Timely
    <3>4. f' \in Frame BY <3>1 DEF MechInv
    <3> QED BY <3>1, <3>3, <3>4 DEF MechInv
  <2>2. CASE RecvMsop BY <2>2, TypedMsop, TimelyKept
  <2>3. CASE UNCHANGED vars
    <3>1. /\ lidar' = lidar /\ q' = q /\ dev' = dev /\ fired' = fired /\ phase' = phase /\ d' = d /\ f' = f
          /\ paced' = paced /\ splits' = splits /\ refused' = refused /\ halves' = halves /\ faults' = faults
      BY <2>3 DEF vars
    <3>2. Same BY <3>1 DEF Same
    <3>3. /\ Turned' = Turned /\ FiringsPerBlock' = FiringsPerBlock /\ Const' = Const /\ Layout' = Layout
      BY <3>2, Fixed
    <3>4. TimelyCloud(f)' BY <3>1, <3>3, Zenon DEF TimelyCloud, Timely
    <3>5. LidarInv' BY <3>1, <3>3, Zenon DEF LidarInv, MechInv
    <3>6. DecoderInv' BY <3>1, Zenon DEF DecoderInv, DecoderFields, MechInv
    <3> QED BY <3>1, <3>4, <3>5, <3>6 DEF MechInv
  <2> QED BY <2>1, <2>2, <2>3 DEF Next
<1>3. MechInv /\ TimelyCloud(f) => BlockTimes BY Zenon DEF TimelyCloud, Timely, BlockTimes
<1> QED BY <1>1, <1>2, <1>3, PTL DEF Spec

-----------------------------------------------------------------------------
(* Turns *)

\* The turn, counted from the split angle, and the angle at a time, and how far apart two
\* times are; as TurnOf and FarApart say it of blocks.
TurnAt(s) == (s * dev.rps + Round - q.angle) \div Round
AzAt(s)   == (s * dev.rps) % Round
Apart(s, u) ==
  \/ (u - s) * dev.rps >= Round
  \/ AzAt(u) < q.angle /\ (u - s) * dev.rps >= Round - q.angle
Joined(s, u) == TurnAt(s) = TurnAt(u) \/ Apart(s, u)

LEMMA TurnValue ==
  ASSUME LidarInv, NEW s \in Nat
  PROVE  \E t \in Nat, z \in 0..(Round - 1) :
           /\ s * dev.rps = t * Round + z /\ s * dev.rps \in Nat /\ t * Round \in Nat
           /\ AzAt(s) = z /\ TurnAt(s) = IF z >= q.angle THEN t + 1 ELSE t
<1>1. Round \in Nat \ {0} /\ dev.rps \in Nat \ {0} /\ q.angle \in 0..Round
  <2>1. BlindStep \in Nat \ {0} /\ BlindStep <= Round /\ Round \in Nat BY Geometry
  <2> QED BY <2>1, Configured
<1>2. PICK X \in Nat : X = s * dev.rps BY <1>1, Products
<1>3. PICK t \in Nat : t = X \div Round BY <1>1, Quotient
<1>4. PICK z \in 0..(Round - 1) : z = X % Round BY <1>1, Quotient
<1>5. X = t * Round + z /\ t * Round \in Nat BY <1>1, <1>3, <1>4, Quotient
<1>6. AzAt(s) = z BY <1>2, <1>4, Zenon DEF AzAt
<1>7. TurnAt(s) = (X + Round - q.angle) \div Round BY <1>2, Zenon DEF TurnAt
<1>8. PICK A \in Nat : A = t * Round BY <1>5
<1>9. CASE z >= q.angle
  <2>1. z - q.angle \in 0..(Round - 1) BY <1>1, <1>9
  <2>2. t + 1 \in Nat /\ (t + 1) * Round = A + Round
    <3>1. 1 * Round = Round BY <1>1
    <3> QED BY <1>1, <1>8, <3>1, Products
  <2>3. ((t + 1) * Round + (z - q.angle)) \div Round = t + 1 BY <1>1, <2>1, <2>2, Division, Zenon
  <2>4. (t + 1) * Round + (z - q.angle) = X + Round - q.angle BY <1>1, <1>5, <1>8, <2>2
  <2> QED BY <1>2, <1>5, <1>6, <1>7, <1>9, <2>3, <2>4, Zenon
<1>10. CASE ~(z >= q.angle)
  <2>1. z + Round - q.angle \in 0..(Round - 1) BY <1>1, <1>10
  <2>2. (t * Round + (z + Round - q.angle)) \div Round = t BY <1>1, <2>1, Division, Zenon
  <2>3. t * Round + (z + Round - q.angle) = X + Round - q.angle BY <1>1, <1>5, <1>8
  <2> QED BY <1>2, <1>5, <1>6, <1>7, <1>10, <2>2, <2>3, Zenon
<1> QED BY <1>9, <1>10

\* What is between two times is told by the angles alone, when less than a turn is.
LEMMA TwoTurns ==
  ASSUME NEW R \in Nat \ {0}, NEW a \in 0..R, NEW t \in Nat, NEW u \in Nat, NEW z \in 0..(R - 1), NEW w \in 0..(R - 1),
         NEW X \in Nat, NEW Y \in Nat, X = t * R + z, Y = u * R + w, X <= Y,
         NEW T, T = IF z >= a THEN t + 1 ELSE t, NEW U, U = IF w >= a THEN u + 1 ELSE u,
         NEW begins \in BOOLEAN, begins <=> (IF w < z THEN z - R ELSE z) < a /\ a <= w
  PROVE  /\ T \in Nat /\ U \in Nat /\ T <= U
         /\ begins => T < U /\ w >= a
         /\ ~begins => T = U \/ Y - X >= R \/ (w < a /\ Y - X >= R - a)
         /\ Y - X < R => (begins <=> T # U /\ w >= a)
         /\ T = U /\ z < a => w < a
<1>1. PICK A \in Nat : A = t * R BY Products
<1>2. PICK B \in Nat : B = u * R BY Products
<1>3. X = A + z /\ Y = B + w BY <1>1, <1>2
<1>4. u < t => B + R <= A BY <1>1, <1>2, Products, Zenon
<1>5. t <= u BY <1>3, <1>4
<1>6. CASE u = t
  <2>1. A = B BY <1>1, <1>2, <1>6
  <2> QED BY <1>3, <1>6, <2>1
<1>7. CASE u = t + 1
  <2>1. B = A + R
    <3>1. 1 * R = R OBVIOUS
    <3>2. (t + 1) * R = t * R + 1 * R BY Products
    <3> QED BY <1>1, <1>2, <1>7, <3>1, <3>2
  <2> QED BY <1>3, <1>7, <2>1
<1>8. CASE u > t + 1
  <2>1. B >= A + R + R
    <3>1. 1 * R = R OBVIOUS
    <3>2. (t + 1) * R = t * R + 1 * R BY Products
    <3>3. (t + 1) * R + R <= u * R BY <1>8, Products
    <3> QED BY <1>1, <1>2, <3>1, <3>2, <3>3
  <2> QED BY <1>3, <1>8, <2>1
<1> QED BY <1>5, <1>6, <1>7, <1>8

LEMMA Between ==
  ASSUME LidarInv, NEW s \in Nat, NEW u \in Nat, s <= u
  PROVE  /\ TurnAt(s) \in Nat /\ TurnAt(u) \in Nat /\ TurnAt(s) <= TurnAt(u) /\ AzAt(u) \in Nat
         /\ Begins(AzAt(s), AzAt(u)) => TurnAt(s) < TurnAt(u) /\ AzAt(u) >= q.angle
         /\ ~Begins(AzAt(s), AzAt(u)) => Joined(s, u)
         /\ (u - s) * dev.rps < Round =>
              (Begins(AzAt(s), AzAt(u)) <=> TurnAt(s) # TurnAt(u) /\ AzAt(u) >= q.angle)
         /\ TurnAt(s) = TurnAt(u) /\ AzAt(s) < q.angle => AzAt(u) < q.angle
<1> DEFINE X == s * dev.rps
           Y == u * dev.rps
           begins == Begins(AzAt(s), AzAt(u))
<1>1. PICK t \in Nat, z \in 0..(Round - 1) :
           /\ X = t * Round + z /\ X \in Nat
           /\ AzAt(s) = z /\ TurnAt(s) = IF z >= q.angle THEN t + 1 ELSE t
  BY TurnValue
<1>2. PICK v \in Nat, w \in 0..(Round - 1) :
           /\ Y = v * Round + w /\ Y \in Nat
           /\ AzAt(u) = w /\ TurnAt(u) = IF w >= q.angle THEN v + 1 ELSE v
  BY TurnValue
<1>3. Round \in Nat \ {0} /\ dev.rps \in Nat \ {0} /\ q.angle \in 0..Round
  <2>1. BlindStep \in Nat \ {0} /\ BlindStep <= Round /\ Round \in Nat BY Geometry
  <2> QED BY <2>1, Configured
<1>4. X <= Y BY <1>3, Products
<1>5. (u - s) * dev.rps = Y - X
  <2>1. PICK m \in Nat : m = u - s OBVIOUS
  <2>2. PICK r \in Nat : r = dev.rps BY <1>3
  <2>3. (s + m) * r = s * r + m * r /\ m * r \in Nat /\ s * r \in Nat BY Products
  <2>4. s + m = u BY <2>1
  <2>5. PICK P \in Nat, S \in Nat, U \in Nat : P = m * r /\ S = s * r /\ U = u * r BY <2>3, <2>4, Products
  <2>6. U = S + P BY <2>3, <2>4, <2>5, Zenon
  <2>7. P = U - S BY <2>6
  <2> QED BY <2>1, <2>2, <2>5, <2>7, Zenon
<1>6. PICK b \in BOOLEAN : b <=> begins OBVIOUS
<1>7. b <=> (IF w < z THEN z - Round ELSE z) < q.angle /\ q.angle <= w BY <1>1, <1>2, <1>6, Zenon DEF Begins
<1> HIDE DEF X, Y, begins
<1>8. PICK T, U : T = TurnAt(s) /\ U = TurnAt(u) OBVIOUS
<1>9. /\ T \in Nat /\ U \in Nat /\ T <= U
      /\ b => T < U /\ w >= q.angle
      /\ ~b => T = U \/ Y - X >= Round \/ (w < q.angle /\ Y - X >= Round - q.angle)
      /\ Y - X < Round => (b <=> T # U /\ w >= q.angle)
      /\ T = U /\ z < q.angle => w < q.angle
  <2>1. T = (IF z >= q.angle THEN t + 1 ELSE t) /\ U = (IF w >= q.angle THEN v + 1 ELSE v)
    BY <1>1, <1>2, <1>8, Zenon
  <2> QED BY <1>1, <1>2, <1>3, <1>4, <1>7, <2>1, TwoTurns
<1>10. ~b => Joined(s, u) BY <1>2, <1>5, <1>8, <1>9, Zenon DEF Joined, Apart
<1>11. AzAt(u) \in Nat BY <1>2, <1>3
<1> QED BY <1>1, <1>2, <1>5, <1>6, <1>8, <1>9, <1>10, <1>11, Zenon DEF begins

\* A time joined with another stays so until a new frame begins.
LEMMA JoinedOn ==
  ASSUME LidarInv, NEW x \in Nat, NEW s \in Nat, NEW u \in Nat, x <= s, s <= u, Joined(x, s),
         ~Begins(AzAt(s), AzAt(u))
  PROVE  Joined(x, u)
<1>1. Joined(s, u) BY Between
<1>2. dev.rps \in Nat \ {0} /\ Round \in Nat /\ q.angle \in 0..Round BY Configured, Geometry
<1>3. PICK A \in Nat, B \in Nat, C \in Nat :
        A = (s - x) * dev.rps /\ B = (u - s) * dev.rps /\ C = (u - x) * dev.rps
  <2>1. s - x \in Nat /\ u - s \in Nat /\ u - x \in Nat OBVIOUS
  <2> QED BY <1>2, <2>1, Products
<1>4. A <= C /\ B <= C
  <2>1. s - x \in Nat /\ u - s \in Nat /\ u - x \in Nat /\ s - x <= u - x /\ u - s <= u - x OBVIOUS
  <2> QED BY <1>2, <1>3, <2>1, Products
<1>5. CASE Apart(s, u)
  <2>1. B >= Round \/ (AzAt(u) < q.angle /\ B >= Round - q.angle) BY <1>3, <1>5, Zenon DEF Apart
  <2>2. C >= Round \/ (AzAt(u) < q.angle /\ C >= Round - q.angle) BY <1>2, <1>4, <2>1
  <2> QED BY <1>3, <2>2, Zenon DEF Joined, Apart
<1>6. CASE TurnAt(s) = TurnAt(u)
  <2>1. CASE TurnAt(x) = TurnAt(s) BY <1>6, <2>1, Zenon DEF Joined
  <2>2. CASE Apart(x, s)
    <3>1. A >= Round \/ (AzAt(s) < q.angle /\ A >= Round - q.angle) BY <1>3, <2>2, Zenon DEF Apart
    <3>2. AzAt(s) < q.angle => AzAt(u) < q.angle BY <1>6, Between
    <3>3. C >= Round \/ (AzAt(u) < q.angle /\ C >= Round - q.angle)
      <4>1. CASE A >= Round BY <1>2, <1>4, <4>1
      <4>2. CASE AzAt(s) < q.angle /\ A >= Round - q.angle
        <5>1. C >= Round - q.angle BY <1>2, <1>4, <4>2
        <5> QED BY <3>2, <4>2, <5>1, Zenon
      <4> QED BY <3>1, <4>1, <4>2
    <3> QED BY <1>3, <3>3, Zenon DEF Joined, Apart
  <2> QED BY <2>1, <2>2 DEF Joined
<1> QED BY <1>1, <1>5, <1>6, Zenon DEF Joined

\* A firing's angle is the one at its time.
LEMMA FiredAt ==
  ASSUME LidarInv, NEW k \in Nat
  PROVE  AzAt(TimeOf(k)) = AzOf(k) /\ TimeOf(k) \in Nat
<1>1. PICK t \in Nat, c \in 0..(PerTurn - 1) :
        /\ AzOf(k) = c * Turned /\ c * Turned \in Nat /\ AzOf(k) < Round /\ TimeOf(k) \in Nat
        /\ TimeOf(k) * dev.rps = t * Round + AzOf(k)
  BY OneFiring
<1>2. Round \in Nat \ {0}
  <2>1. BlindStep \in Nat \ {0} /\ BlindStep <= Round /\ Round \in Nat BY Geometry
  <2> QED BY <2>1
<1>3. AzOf(k) \in 0..(Round - 1) BY <1>1, <1>2
<1>4. (t * Round + AzOf(k)) % Round = AzOf(k) BY <1>2, <1>3, Division, Zenon
<1> QED BY <1>1, <1>4, Zenon DEF AzAt

\* A decoder that has had no block begins no frame with the first.
LEMMA NotFirst ==
  ASSUME LidarInv, NEW z \in Nat
  PROVE  ~Begins(q.angle, z)
<1>1. q.angle \in Nat /\ Round \in Nat BY Configured, Geometry
<1> QED BY <1>1 DEF Begins

\* A cloud split by angle.
TurnCloud(c) ==
  /\ \A i \in 1..Len(c) : c[i].az = AzAt(c[i].sent)
  /\ \A i \in 1..(Len(c) - 1) : Joined(c[i].sent, c[i + 1].sent)

LastTurn(c) == TurnAt(c[Len(c)].sent)

\* The frame as the splitter left it at time s.
TurnInv(g, s) ==
  /\ g.sp.prev = AzAt(s)
  /\ TurnCloud(g.cloud)
  /\ g.cloud # <<>> => g.cloud[Len(g.cloud)].sent <= s /\ Joined(g.cloud[Len(g.cloud)].sent, s)
  /\ \A i \in 1..Len(g.out) : TurnCloud(g.out[i].blocks)
  /\ \A i \in 1..(Len(g.out) - 1) : LastTurn(g.out[i].blocks) < TurnAt(g.out[i + 1].blocks[1].sent)
  /\ g.out # <<>> => /\ LastTurn(g.out[Len(g.out)].blocks) < TurnAt(s)
                     /\ g.cloud # <<>> => LastTurn(g.out[Len(g.out)].blocks) < TurnAt(g.cloud[1].sent)

\* No block has been decoded.
Fresh(g) == g.sp.prev = q.angle /\ g.cloud = <<>> /\ g.out = <<>>

LEMMA CloudAppend ==
  ASSUME NEW c \in Seq(Blk), TurnCloud(c), NEW blk, blk.az = AzAt(blk.sent),
         c # <<>> => Joined(c[Len(c)].sent, blk.sent)
  PROVE  TurnCloud(Append(c, blk))
<1> DEFINE e == Append(c, blk)
           m == Len(c)
<1>1. m \in Nat /\ Len(e) = m + 1 /\ e[m + 1] = blk /\ (\A i \in 1..m : e[i] = c[i]) OBVIOUS
<1>2. c # <<>> <=> m # 0 OBVIOUS
<1> HIDE DEF e
<1>3. ASSUME NEW i \in 1..(m + 1) PROVE e[i].az = AzAt(e[i].sent)
  <2>1. CASE i = m + 1 BY <1>1, <2>1, Zenon
  <2>2. CASE i # m + 1
    <3>1. i \in 1..m BY <1>1, <2>2
    <3>2. e[i] = c[i] BY <1>1, <3>1
    <3>3. c[i].az = AzAt(c[i].sent) BY <3>1, Zenon DEF TurnCloud, m
    <3> QED BY <3>2, <3>3, Zenon
  <2> QED BY <2>1, <2>2
<1>4. ASSUME NEW i \in 1..((m + 1) - 1) PROVE Joined(e[i].sent, e[i + 1].sent)
  <2>1. i \in 1..m BY <1>1
  <2>2. CASE i = m
    <3>1. e[i] = c[m] /\ e[i + 1] = blk /\ m # 0 BY <1>1, <2>1, <2>2
    <3> QED BY <1>2, <3>1, Zenon
  <2>3. CASE i # m
    <3>1. i + 1 \in 1..m /\ i \in 1..(m - 1) BY <1>1, <2>1, <2>3
    <3>2. e[i] = c[i] /\ e[i + 1] = c[i + 1] BY <1>1, <2>1, <3>1
    <3>3. Joined(c[i].sent, c[i + 1].sent) BY <3>1, Zenon DEF TurnCloud, m
    <3> QED BY <3>2, <3>3, Zenon
  <2> QED BY <2>2, <2>3
<1> QED BY <1>1, <1>3, <1>4, Zenon DEF TurnCloud, e

LEMMA NoBlocks ==
  TurnCloud(<<>>)
<1>1. Len(<<>>) = 0 /\ 1..0 = {} /\ 1..(0 - 1) = {} OBVIOUS
<1> QED BY <1>1 DEF TurnCloud

\* What With makes of the cloud that goes on, or of a new one.
LEMMA TurnWith ==
  ASSUME NEW c \in Seq(Blk), TurnCloud(c), NEW blk, blk.az = AzAt(blk.sent),
         c # <<>> => Joined(c[Len(c)].sent, blk.sent), NEW n, NEW e, e = With(c, n, blk)
  PROVE  /\ TurnCloud(e) /\ Len(e) \in Nat
         /\ e # <<>> => (e[Len(e)] = blk \/ (c # <<>> /\ e[Len(e)] = c[Len(c)]))
         /\ e # <<>> => (e[1] = c[1] /\ c # <<>>) \/ (c = <<>> /\ e[1] = blk)
<1>1. CASE n = 0 BY <1>1 DEF With
<1>2. CASE n # 0
  <2>1. e = Append(c, blk) BY <1>2 DEF With
  <2>2. TurnCloud(e) BY <2>1, CloudAppend
  <2>3. Len(e) = Len(c) + 1 /\ e[Len(c) + 1] = blk /\ Len(c) \in Nat BY <2>1
  <2>4. c # <<>> => e[1] = c[1] BY <2>1
  <2>5. c = <<>> => Len(c) = 0 OBVIOUS
  <2>6. c = <<>> => e[1] = blk
    <3>1. c = <<>> => Len(c) + 1 = 1 BY <2>5
    <3> QED BY <2>3, <3>1, Zenon
  <2> QED BY <2>2, <2>3, <2>4, <2>6
<1> QED BY <1>1, <1>2

\* The first block of a cloud.
LEMMA TurnWithNone ==
  ASSUME NEW blk, blk.az = AzAt(blk.sent), NEW n, NEW e, e = With(<<>>, n, blk)
  PROVE  TurnCloud(e) /\ (e # <<>> => e[Len(e)] = blk /\ e[1] = blk)
<1>1. CASE n = 0
  <2>1. e = <<>> BY <1>1 DEF With
  <2> QED BY <2>1, NoBlocks
<1>2. CASE n # 0
  <2>1. e = Append(<<>>, blk) BY <1>2 DEF With
  <2>2. PICK c : c = <<>> OBVIOUS
  <2>3. Len(c) = 0 BY <2>2
  <2>4. e = <<blk>> BY <2>1
  <2>5. Len(e) = 1 /\ e[1] = blk BY <2>4
  <2>6. TurnCloud(e)
    <3>1. 1..(1 - 1) = {} /\ 1..1 = {1} OBVIOUS
    <3> QED BY <2>5, <3>1 DEF TurnCloud
  <2> QED BY <2>5, <2>6
<1> QED BY <1>1, <1>2

\* One block, of firing k, after a frame the splitter left at time s.
LEMMA TurnStep ==
  ASSUME LidarInv, q.mode = "ANGLE", NEW x \in Frame, NEW y \in Frame, NEW s \in Nat, TurnInv(x, s), NEW first, NEW k \in Nat,
         s <= TimeOf(k), NEW o, NEW kn, NEW h, BlockStep(x, y, h, first, k, o, kn)
  PROVE  TurnInv(y, TimeOf(k))
<1> DEFINE u == TimeOf(k)
<1>1. u \in Nat /\ AzAt(u) = AzOf(k) BY FiredAt
<1>2. PICK n \in Nat :
        /\ y.sp.prev = AzOf(k)
        /\ \/ /\ ~Begins(x.sp.prev, AzOf(k))
              /\ y.cloud = With(x.cloud, n, BlockOf(first, k, o, n, kn)) /\ y.out = x.out
           \/ /\ Begins(x.sp.prev, AzOf(k))
              /\ y.cloud = With(<<>>, n, BlockOf(first, k, o, n, kn)) /\ y.out = Handed(x, h)
  BY Zenon DEF BlockStep
<1>3. PICK blk : blk = BlockOf(first, k, o, n, kn) OBVIOUS
<1>4. blk.sent = u /\ blk.az = AzAt(u) BY <1>1, <1>3 DEF BlockOf
<1>5. /\ x.sp.prev = AzAt(s) /\ TurnCloud(x.cloud)
      /\ x.cloud # <<>> => x.cloud[Len(x.cloud)].sent <= s /\ Joined(x.cloud[Len(x.cloud)].sent, s)
      /\ \A i \in 1..Len(x.out) : TurnCloud(x.out[i].blocks)
      /\ \A i \in 1..(Len(x.out) - 1) : LastTurn(x.out[i].blocks) < TurnAt(x.out[i + 1].blocks[1].sent)
      /\ x.out # <<>> => /\ LastTurn(x.out[Len(x.out)].blocks) < TurnAt(s)
                         /\ x.cloud # <<>> => LastTurn(x.out[Len(x.out)].blocks) < TurnAt(x.cloud[1].sent)
  BY Zenon DEF TurnInv
<1>6. x.cloud \in Seq(Blk) /\ y.cloud \in Seq(Blk) /\ x.out \in Seq(HandedOut) /\ y.out \in Seq(HandedOut) BY DEF Frame
<1>7. /\ TurnAt(s) \in Nat /\ TurnAt(u) \in Nat /\ TurnAt(s) <= TurnAt(u)
      /\ Begins(AzAt(s), AzAt(u)) => TurnAt(s) < TurnAt(u)
  BY <1>1, Between
<1>8. ASSUME NEW i \in 1..Len(x.out) PROVE LastTurn(x.out[i].blocks) \in Nat
  <2>1. x.out[i] \in HandedOut BY <1>6
  <2>2. PICK c \in Seq(Blk) : c = x.out[i].blocks /\ c # <<>> BY <2>1 DEF HandedOut
  <2>3. c[Len(c)] \in Blk BY <2>2
  <2>4. c[Len(c)].sent \in Nat BY <2>3 DEF Blk
  <2>5. TurnAt(c[Len(c)].sent) \in Nat
    <3>1. PICK v \in Nat : v = c[Len(c)].sent BY <2>4
    <3>2. v <= v OBVIOUS
    <3> QED BY <3>1, <3>2, Between
  <2> QED BY <2>2, <2>5, Zenon DEF LastTurn
<1> HIDE DEF u
<1>9. y.sp.prev = AzAt(u) BY <1>1, <1>2
<1>10. Joined(u, u) BY Zenon DEF Joined
<1>11. CASE ~Begins(x.sp.prev, AzOf(k)) /\ y.cloud = With(x.cloud, n, blk) /\ y.out = x.out
  <2>1. ~Begins(AzAt(s), AzAt(u)) BY <1>1, <1>5, <1>11, Zenon
  <2>2. x.cloud # <<>> => /\ x.cloud[Len(x.cloud)].sent \in Nat
                          /\ x.cloud[Len(x.cloud)].sent <= u /\ Joined(x.cloud[Len(x.cloud)].sent, u)
    <3> SUFFICES ASSUME x.cloud # <<>>
                 PROVE  /\ x.cloud[Len(x.cloud)].sent \in Nat
                        /\ x.cloud[Len(x.cloud)].sent <= u /\ Joined(x.cloud[Len(x.cloud)].sent, u)
      OBVIOUS
    <3>1. x.cloud[Len(x.cloud)] \in Blk BY <1>6
    <3>2. PICK v \in Nat : v = x.cloud[Len(x.cloud)].sent BY <3>1 DEF Blk
    <3>3. v <= s /\ Joined(v, s) BY <1>5, <3>2
    <3>4. s <= u BY DEF u
    <3>5. Joined(v, u) BY <1>1, <2>1, <3>3, <3>4, JoinedOn
    <3>6. v <= u BY <1>1, <3>3, <3>4
    <3> QED BY <3>2, <3>5, <3>6
  <2>3. /\ TurnCloud(y.cloud)
        /\ y.cloud # <<>> =>
             (y.cloud[Len(y.cloud)] = blk \/ (x.cloud # <<>> /\ y.cloud[Len(y.cloud)] = x.cloud[Len(x.cloud)]))
        /\ y.cloud # <<>> =>
             (y.cloud[1] = x.cloud[1] /\ x.cloud # <<>>) \/ (x.cloud = <<>> /\ y.cloud[1] = blk)
    <3>1. x.cloud # <<>> => Joined(x.cloud[Len(x.cloud)].sent, blk.sent) BY <1>4, <2>2, Zenon
    <3>2. blk.az = AzAt(blk.sent) BY <1>4, Zenon
    <3> QED BY <1>5, <1>6, <1>11, <3>1, <3>2, TurnWith
  <2>4. u <= u BY <1>1
  <2>5. y.cloud # <<>> => y.cloud[Len(y.cloud)].sent <= u /\ Joined(y.cloud[Len(y.cloud)].sent, u)
    BY <1>4, <1>10, <2>2, <2>3, <2>4, Zenon
  <2>6. y.out # <<>> => /\ LastTurn(y.out[Len(y.out)].blocks) < TurnAt(u)
                        /\ y.cloud # <<>> => LastTurn(y.out[Len(y.out)].blocks) < TurnAt(y.cloud[1].sent)
    <3> SUFFICES ASSUME y.out # <<>>
                 PROVE  /\ LastTurn(y.out[Len(y.out)].blocks) < TurnAt(u)
                        /\ y.cloud # <<>> => LastTurn(y.out[Len(y.out)].blocks) < TurnAt(y.cloud[1].sent)
      OBVIOUS
    <3>1. x.out # <<>> /\ Len(x.out) \in 1..Len(x.out) BY <1>6, <1>11
    <3>2. PICK l \in Nat : l = LastTurn(x.out[Len(x.out)].blocks) BY <1>8, <3>1
    <3>3. l < TurnAt(s) /\ (x.cloud # <<>> => l < TurnAt(x.cloud[1].sent)) BY <1>5, <3>1, <3>2, Zenon
    <3>4. l < TurnAt(u) BY <1>7, <3>3
    <3>5. y.cloud # <<>> => l < TurnAt(y.cloud[1].sent) BY <1>4, <2>3, <3>3, <3>4, Zenon
    <3> QED BY <1>11, <3>2, <3>4, <3>5, Zenon
  <2> QED BY <1>5, <1>9, <1>11, <2>3, <2>5, <2>6, Zenon DEF TurnInv, u
<1>12. CASE Begins(x.sp.prev, AzOf(k)) /\ y.cloud = With(<<>>, n, blk) /\ y.out = Handed(x, h)
  <2>1. TurnAt(s) < TurnAt(u) BY <1>1, <1>5, <1>7, <1>12, Zenon
  <2>2. /\ TurnCloud(y.cloud)
        /\ y.cloud # <<>> => y.cloud[Len(y.cloud)] = blk
        /\ y.cloud # <<>> => y.cloud[1] = blk
    <3>1. blk.az = AzAt(blk.sent) BY <1>4, Zenon
    <3>2. PICK e : e = y.cloud OBVIOUS
    <3>3. e = With(<<>>, n, blk) BY <1>12, <3>2, Zenon
    <3>4. TurnCloud(e) /\ (e # <<>> => e[Len(e)] = blk /\ e[1] = blk) BY <3>1, <3>3, TurnWithNone
    <3> QED BY <3>2, <3>4, Zenon
  <2>3. u <= u BY <1>1
  <2>4. y.cloud # <<>> => y.cloud[Len(y.cloud)].sent <= u /\ Joined(y.cloud[Len(y.cloud)].sent, u)
    BY <1>4, <1>10, <2>2, <2>3, Zenon
  <2>5. CASE x.cloud = <<>>
    <3>1. y.out = x.out BY <1>12, <2>5 DEF Handed
    <3>2. y.out # <<>> => /\ LastTurn(y.out[Len(y.out)].blocks) < TurnAt(u)
                          /\ y.cloud # <<>> => LastTurn(y.out[Len(y.out)].blocks) < TurnAt(y.cloud[1].sent)
      <4> SUFFICES ASSUME y.out # <<>>
                   PROVE  /\ LastTurn(y.out[Len(y.out)].blocks) < TurnAt(u)
                          /\ y.cloud # <<>> => LastTurn(y.out[Len(y.out)].blocks) < TurnAt(y.cloud[1].sent)
        OBVIOUS
      <4>1. x.out # <<>> /\ Len(x.out) \in 1..Len(x.out) BY <1>6, <3>1
      <4>2. PICK l \in Nat : l = LastTurn(x.out[Len(x.out)].blocks) BY <1>8, <4>1
      <4>3. l < TurnAt(s) BY <1>5, <4>1, <4>2, Zenon
      <4>4. l < TurnAt(u) BY <1>7, <4>3
      <4> QED BY <1>4, <2>2, <3>1, <4>2, <4>4, Zenon
    <3> QED BY <1>5, <1>9, <2>2, <2>4, <3>1, <3>2, Zenon DEF TurnInv, u
  <2>6. CASE x.cloud # <<>>
    <3>1. PICK c : y.out = Append(x.out, c) /\ c.blocks = x.cloud
      BY <1>12, <2>6 DEF Handed
    <3>2. PICK m \in Nat : m = Len(x.out) /\ Len(y.out) = m + 1 /\ y.out[m + 1] = c
                           /\ \A i \in 1..m : y.out[i] = x.out[i]
      BY <1>6, <3>1
    <3>3. LastTurn(x.cloud) < TurnAt(u)
      <4>1. x.cloud[Len(x.cloud)] \in Blk BY <1>6, <2>6
      <4>2. PICK v \in Nat : v = x.cloud[Len(x.cloud)].sent BY <4>1 DEF Blk
      <4>3. v <= s BY <1>5, <2>6, <4>2
      <4>4. TurnAt(v) <= TurnAt(s) /\ TurnAt(v) \in Nat BY <4>3, Between
      <4>5. TurnAt(v) < TurnAt(u) BY <1>7, <2>1, <4>4
      <4> QED BY <4>2, <4>5, Zenon DEF LastTurn
    <3>4. \A i \in 1..Len(y.out) : TurnCloud(y.out[i].blocks)
      <4> SUFFICES ASSUME NEW i \in 1..(m + 1) PROVE TurnCloud(y.out[i].blocks) BY <3>2
      <4>1. CASE i = m + 1 BY <1>5, <3>1, <3>2, <4>1, Zenon
      <4>2. CASE i # m + 1
        <5>1. i \in 1..m BY <3>2, <4>2
        <5> QED BY <1>5, <3>2, <5>1, Zenon
      <4> QED BY <4>1, <4>2
    <3>5. \A i \in 1..(Len(y.out) - 1) : LastTurn(y.out[i].blocks) < TurnAt(y.out[i + 1].blocks[1].sent)
      <4> SUFFICES ASSUME NEW i \in 1..((m + 1) - 1) PROVE LastTurn(y.out[i].blocks) < TurnAt(y.out[i + 1].blocks[1].sent)
        BY <3>2
      <4>1. i \in 1..m BY <3>2
      <4>2. CASE i = m
        <5>1. x.out # <<>> BY <1>6, <3>2, <4>1
        <5>2. y.out[i] = x.out[Len(x.out)] BY <3>2, <4>1, <4>2
        <5>3. y.out[i + 1] = c BY <3>2, <4>2
        <5> QED BY <1>5, <2>6, <3>1, <5>1, <5>2, <5>3, Zenon
      <4>3. CASE i # m
        <5>1. i + 1 \in 1..m /\ i \in 1..(m - 1) BY <3>2, <4>1, <4>3
        <5>2. y.out[i] = x.out[i] /\ y.out[i + 1] = x.out[i + 1] BY <3>2, <4>1, <5>1
        <5> QED BY <1>5, <3>2, <5>1, <5>2, Zenon
      <4> QED BY <4>2, <4>3
    <3>6. y.out[Len(y.out)] = c BY <3>2
    <3>7. /\ LastTurn(y.out[Len(y.out)].blocks) < TurnAt(u)
          /\ y.cloud # <<>> => LastTurn(y.out[Len(y.out)].blocks) < TurnAt(y.cloud[1].sent)
      BY <1>4, <2>2, <3>1, <3>3, <3>6, Zenon
    <3> QED BY <1>9, <2>2, <2>4, <3>4, <3>5, <3>7, Zenon DEF TurnInv, u
  <2> QED BY <2>5, <2>6
<1> QED BY <1>2, <1>3, <1>11, <1>12, Zenon

\* The first block of all.
LEMMA FreshStep ==
  ASSUME LidarInv, q.mode = "ANGLE", NEW x \in Frame, NEW y \in Frame, Fresh(x), NEW first, NEW k \in Nat,
         NEW o, NEW kn, NEW h, BlockStep(x, y, h, first, k, o, kn)
  PROVE  TurnInv(y, TimeOf(k))
<1> DEFINE u == TimeOf(k)
<1>1. u \in Nat /\ AzAt(u) = AzOf(k) /\ AzOf(k) \in Nat BY FiredAt, OneFiring
<1>2. ~Begins(x.sp.prev, AzOf(k)) BY <1>1, NotFirst DEF Fresh
<1>3. PICK n \in Nat :
        /\ y.sp.prev = AzOf(k)
        /\ y.cloud = With(x.cloud, n, BlockOf(first, k, o, n, kn)) /\ y.out = x.out
  BY <1>2, Zenon DEF BlockStep
<1>4. PICK blk : blk = BlockOf(first, k, o, n, kn) OBVIOUS
<1>5. blk.sent = u /\ blk.az = AzAt(u) BY <1>1, <1>4 DEF BlockOf
<1> HIDE DEF u
<1>6. y.sp.prev = AzAt(u) BY <1>1, <1>3
<1>7. Joined(u, u) BY Zenon DEF Joined
<1>8. x.cloud = <<>> /\ y.out = <<>> BY <1>3 DEF Fresh
<1>9. /\ TurnCloud(y.cloud)
      /\ y.cloud # <<>> => y.cloud[Len(y.cloud)] = blk
  <2>1. blk.az = AzAt(blk.sent) BY <1>5, Zenon
  <2>2. PICK e : e = y.cloud OBVIOUS
  <2>3. e = With(<<>>, n, blk) BY <1>3, <1>4, <1>8, <2>2, Zenon
  <2>4. TurnCloud(e) /\ (e # <<>> => e[Len(e)] = blk /\ e[1] = blk) BY <2>1, <2>3, TurnWithNone
  <2> QED BY <2>2, <2>4, Zenon
<1>10. u <= u BY <1>1
<1>11. y.cloud # <<>> => y.cloud[Len(y.cloud)].sent <= u /\ Joined(y.cloud[Len(y.cloud)].sent, u)
  BY <1>5, <1>7, <1>9, <1>10, Zenon
<1>12. Len(y.out) = 0 /\ 1..0 = {} /\ 1..(0 - 1) = {} BY <1>8
<1> QED BY <1>6, <1>8, <1>9, <1>11, <1>12 DEF TurnInv, u

\* The turns of a frame that the splitter left not after time u.
TurnsTold(g, u) == Fresh(g) \/ \E s \in Nat : s <= u /\ TurnInv(g, s)

LEMMA TurnsEmptied ==
  ASSUME NEW g \in Frame, NEW y \in Frame, NEW u, TurnsTold(g, u), y.sp = g.sp, y.out = g.out,
         y.cloud = g.cloud \/ y.cloud = <<>>
  PROVE  TurnsTold(y, u)
<1>1. CASE Fresh(g)
  <2>1. Fresh(y) BY <1>1, Zenon DEF Fresh
  <2> QED BY <2>1 DEF TurnsTold
<1>2. CASE \E s \in Nat : s <= u /\ TurnInv(g, s)
  <2>1. PICK s \in Nat : s <= u /\ TurnInv(g, s) BY <1>2
  <2>2. TurnCloud(y.cloud) BY <2>1, NoBlocks, Zenon DEF TurnInv
  <2>3. y.cloud # <<>> => y.cloud = g.cloud OBVIOUS
  <2>4. TurnInv(y, s) BY <2>1, <2>2, <2>3, Zenon DEF TurnInv
  <2> QED BY <2>1, <2>4 DEF TurnsTold
<1> QED BY <1>1, <1>2 DEF TurnsTold

LEMMA TurnsDecoded ==
  ASSUME LidarInv, q.mode = "ANGLE", NEW first \in Nat, NEW bad, NEW kn \in BOOLEAN, NEW g \in Frame,
         TurnsTold(g, TimeOf(first)), NEW y, Decoded(y, first, bad, kn, g)
  PROVE  TurnsTold(y, TimeOf(first + FiringOf(Const.blocks + 1)))
<1>1. PICK a, off : Decodes(first, bad, kn, g, a, off) /\ y = a[Const.blocks] BY Zenon DEF Decoded
<1> DEFINE N == Const.blocks
           At(b) == TimeOf(first + FiringOf(b))
           S == {b \in 0..N : TurnsTold(a[b], At(b + 1))}
<1>2. N \in Nat \ {0} BY Configured, LidarConst
<1>3. 0 \in S
  <2>1. 0 + 1 = 1 /\ 1 \in 1..N BY <1>2
  <2>2. FiringOf(1) = 0 BY <2>1, FiringNext
  <2>3. first + 0 = first OBVIOUS
  <2>4. At(0 + 1) = TimeOf(first) BY <2>1, <2>2, <2>3, Zenon
  <2>5. a[0] = [g EXCEPT !.ret = FALSE, !.err = "none"] BY <1>1, Zenon DEF Decodes
  <2>6. a[0].cloud = g.cloud /\ a[0].out = g.out /\ a[0].sp = g.sp BY <2>5 DEF Frame
  <2>7. 0 \in 0..N BY <1>2
  <2>8. a[0] \in Frame BY <1>1, <2>7, Zenon DEF Decodes
  <2>9. TurnsTold(a[0], TimeOf(first)) BY <2>6, <2>8, TurnsEmptied
  <2> QED BY <2>4, <2>7, <2>9, Zenon
<1>4. ASSUME NEW b \in 1..N, b - 1 \in S PROVE b \in S
  <2>1. PICK c \in 0..N : c = b - 1 /\ c + 1 = b BY <1>2
  <2>2. PICK x \in Frame : x = a[c] BY <1>1, Zenon DEF Decodes
  <2>3. b \in 0..N BY <1>2
  <2>4. PICK z \in Frame : z = a[b] BY <1>1, <2>3, Zenon DEF Decodes
  <2>5. BlockOutcome(x, z, b, first, bad, off, kn) BY <1>1, <2>1, <2>2, <2>4, Zenon DEF Decodes
  <2>6. TurnsTold(x, At(b)) BY <1>4, <2>1, <2>2, Zenon
  <2>7. PICK k \in Nat, l \in Nat : k = first + FiringOf(b) /\ l = first + FiringOf(b + 1) /\ k <= l
    <3>1. FiringOf(b) \in Nat /\ FiringOf(b + 1) \in Nat /\ FiringOf(b) <= FiringOf(b + 1) BY FiringNext
    <3> QED BY <3>1
  <2>8. PICK u \in Nat, v \in Nat : u = TimeOf(k) /\ v = TimeOf(l) /\ u <= v
    <3>1. TimeOf(k) \in Nat /\ TimeOf(l) \in Nat BY FiredAt
    <3>2. TimeOf(k) <= TimeOf(l) BY <2>7, LaterTime
    <3> QED BY <3>1, <3>2
  <2>9. At(b) = u /\ At(b + 1) = v BY <2>7, <2>8, Zenon
  <2>10. ASSUME NEW w \in Frame, TurnsTold(w, u) PROVE TurnsTold(w, v)
    <3>1. \A s \in Nat : s <= u => s <= v BY <2>8
    <3> QED BY <2>10, <3>1, Zenon DEF TurnsTold
  <2>11. TurnsTold(x, u) BY <2>6, <2>9, Zenon
  <2>12. TurnsTold(z, v)
    <3>1. CASE x.err # "none" /\ z = x BY <2>2, <2>10, <2>11, <3>1, Zenon
    <3>2. CASE \E err \in Errors \ {"none"} : z = [x EXCEPT !.err = err]
      <4>1. z.cloud = x.cloud /\ z.out = x.out /\ z.sp = x.sp BY <3>2 DEF Frame
      <4>2. TurnsTold(z, u) BY <2>11, <4>1, TurnsEmptied
      <4> QED BY <2>10, <4>2
    <3>3. CASE BlockStep(x, z, Height, first, first + FiringOf(b), off[b], kn)
      <4>1. BlockStep(x, z, Height, first, k, off[b], kn) BY <2>7, <3>3, Zenon
      <4>2. TurnInv(z, u)
        <5>1. CASE Fresh(x) BY <2>8, <4>1, <5>1, FreshStep
        <5>2. CASE \E s \in Nat : s <= u /\ TurnInv(x, s)
          <6>1. PICK s \in Nat : s <= u /\ TurnInv(x, s) BY <5>2
          <6> QED BY <2>8, <4>1, <6>1, TurnStep
        <5> QED BY <2>11, <5>1, <5>2 DEF TurnsTold
      <4> QED BY <2>8, <4>2, Zenon DEF TurnsTold
    <3> QED BY <2>5, <3>1, <3>2, <3>3, Zenon DEF BlockOutcome
  <2> QED BY <2>3, <2>4, <2>9, <2>12, Zenon
<1>5. \A b \in 0..N : b \in S
  <2> HIDE DEF S
  <2> QED BY <1>2, <1>3, <1>4, BlockInduction
<1>6. N \in 0..N BY <1>2
<1>7. TurnsTold(a[N], At(N + 1)) BY <1>5, <1>6, Zenon
<1> QED BY <1>1, <1>7, Zenon

LEMMA TurnsSame ==
  ASSUME Same, NEW g, NEW u, TurnsTold(g, u)
  PROVE  TurnsTold(g, u)'
<1>1. q' = q /\ dev' = dev BY DEF Same
<1>2. \A s : AzAt(s)' = AzAt(s) BY <1>1, Zenon DEF AzAt
<1>3. \A s : TurnAt(s)' = TurnAt(s) BY <1>1, Zenon DEF TurnAt
<1>4. \A s, v : Joined(s, v)' = Joined(s, v) BY <1>1, <1>2, <1>3, Zenon DEF Joined, Apart
<1>5. \A c : TurnCloud(c)' = TurnCloud(c) BY <1>2, <1>4, Zenon DEF TurnCloud
<1>6. \A c : LastTurn(c)' = LastTurn(c) BY <1>3, Zenon DEF LastTurn
<1>7. CASE Fresh(g)
  <2>1. Fresh(g)' BY <1>1, <1>7, Zenon DEF Fresh
  <2> QED BY <2>1, Zenon DEF TurnsTold
<1>8. CASE \E s \in Nat : s <= u /\ TurnInv(g, s)
  <2>1. PICK s \in Nat : s <= u /\ TurnInv(g, s) BY <1>8
  <2>2. TurnInv(g, s)' BY <1>2, <1>3, <1>4, <1>5, <1>6, <2>1, Zenon DEF TurnInv
  <2> QED BY <2>1, <2>2, Zenon DEF TurnsTold
<1> QED BY <1>7, <1>8 DEF TurnsTold

TurnsRight == q.mode = "ANGLE" => TurnsTold(f, TimeOf(fired))

LEMMA TurnsKept ==
  ASSUME MechInv, TurnsRight, RecvMsop
  PROVE  TurnsRight'
<1>1. LidarInv /\ f \in Frame /\ fired \in Nat BY DEF MechInv, LidarInv
<1>2. PICK lost \in Nat, first \in Nat, bad \in SUBSET (1..Const.blocks), hit \in BOOLEAN,
           other \in BOOLEAN, g \in Frame : Received(lost, first, bad, hit, other, g)
  BY MsopStep
<1>3. Same BY MsopStep
<1>4. q' = q BY <1>3 DEF Same
<1> SUFFICES ASSUME q.mode = "ANGLE" PROVE TurnsTold(f, TimeOf(fired))'
  BY <1>4, Zenon DEF TurnsRight
<1>5. TurnsTold(f, TimeOf(fired)) BY DEF TurnsRight
<1>6. PICK l \in Nat : l = first + FiringOf(Const.blocks + 1) /\ first <= l
  <2>1. Const.blocks \in 1..Const.blocks BY <1>1, Configured, LidarConst
  <2>2. FiringOf(Const.blocks + 1) \in Nat BY <1>1, <2>1, FiringNext
  <2> QED BY <2>2
<1>7. PICK t \in Nat, u \in Nat, v \in Nat :
        t = TimeOf(fired) /\ u = TimeOf(first) /\ v = TimeOf(l) /\ t <= u /\ u <= v
  <2>1. fired <= first BY <1>1, <1>2 DEF Received
  <2>2. TimeOf(fired) \in Nat /\ TimeOf(first) \in Nat /\ TimeOf(l) \in Nat BY <1>1, FiredAt
  <2>3. TimeOf(fired) <= TimeOf(first) /\ TimeOf(first) <= TimeOf(l) BY <1>1, <1>6, <2>1, LaterTime
  <2> QED BY <2>2, <2>3
<1>8. ASSUME NEW w, NEW r \in Nat, NEW s \in Nat, r <= s, TurnsTold(w, r) PROVE TurnsTold(w, s)
  <2>1. \A c \in Nat : c <= r => c <= s BY <1>8
  <2> QED BY <1>8, <2>1, Zenon DEF TurnsTold
<1>9. TurnsTold(g, u)
  <2>1. g = f \/ g = [f EXCEPT !.cloud = <<>>] BY <1>2, Zenon DEF Received
  <2>2. (g.cloud = f.cloud \/ g.cloud = <<>>) /\ g.out = f.out /\ g.sp = f.sp BY <1>1, <2>1 DEF Frame
  <2>3. TurnsTold(g, t) BY <1>1, <1>5, <1>7, <2>2, TurnsEmptied
  <2> QED BY <1>7, <1>8, <2>3
<1>10. PICK y : y = f' OBVIOUS
<1>11. TurnsTold(y, v)
  <2>1. CASE \E err \in Errors : y = [g EXCEPT !.ret = FALSE, !.err = err]
    <3>1. y.cloud = g.cloud /\ y.out = g.out /\ y.sp = g.sp /\ y \in Frame BY <2>1 DEF Frame
    <3>2. TurnsTold(y, u) BY <1>9, <3>1, TurnsEmptied
    <3> QED BY <1>7, <1>8, <3>2
  <2>2. CASE \E kn \in BOOLEAN : Decoded(y, first, bad, kn, g)
    <3>1. PICK kn \in BOOLEAN : Decoded(y, first, bad, kn, g) BY <2>2
    <3>2. TurnsTold(g, TimeOf(first)) BY <1>7, <1>9, Zenon
    <3>3. TurnsTold(y, TimeOf(first + FiringOf(Const.blocks + 1))) BY <1>1, <3>1, <3>2, TurnsDecoded
    <3> QED BY <1>6, <1>7, <3>3, Zenon
  <2>3. Outcome(y, first, bad, g) BY <1>2, <1>10, Outcomes, Zenon
  <2> QED BY <2>1, <2>2, <2>3, Zenon DEF Outcome
<1>12. TurnsTold(y, v)' BY <1>3, <1>11, TurnsSame
<1>13. v = TimeOf(fired)'
  <2>1. fired' = l BY <1>2, <1>6, Zenon DEF Received
  <2>2. TimeOf(l)' = TimeOf(l) BY <1>3, Fixed
  <2>3. TimeOf(fired)' = TimeOf(l)' BY <2>1, Zenon DEF TimeOf
  <2> QED BY <1>7, <2>2, <2>3, Zenon
<1> QED BY <1>10, <1>12, <1>13, Zenon DEF TurnsTold, TurnInv, Fresh

LEMMA CloudsAre ==
  ASSUME f \in Frame
  PROVE  /\ Len(Clouds) = Len(f.out) + 1 /\ DOMAIN Clouds = 1..(Len(f.out) + 1) /\ Len(f.out) \in Nat
         /\ \A i \in 1..Len(f.out) : Clouds[i] = f.out[i].blocks /\ f.out[i].blocks \in Seq(Blk) \ {<<>>}
         /\ Clouds[Len(f.out) + 1] = f.cloud /\ f.cloud \in Seq(Blk)
<1>1. f.out \in Seq(HandedOut) /\ f.cloud \in Seq(Blk) BY DEF Frame
<1>2. PICK o \in Seq(HandedOut) : o = f.out BY <1>1
<1>3. PICK c \in Seq(Blk) : c = f.cloud BY <1>1
<1> DEFINE B == Seq(Blk)
           w == [i \in DOMAIN o |-> o[i].blocks]
<1>4. \A i \in 1..Len(o) : o[i].blocks \in B \ {<<>>}
  <2> TAKE i \in 1..Len(o)
  <2>1. o[i] \in HandedOut BY <1>2
  <2> QED BY <2>1 DEF HandedOut
<1>5. DOMAIN o = 1..Len(o) /\ Len(o) \in Nat OBVIOUS
<1>6. \A i \in DOMAIN o : w[i] \in B BY <1>4, <1>5
<1> HIDE DEF B
<1>7. w \in Seq(B) /\ Len(w) = Len(o) /\ \A i \in 1..Len(o) : w[i] = o[i].blocks BY <1>5, <1>6
<1>8. c \in B BY <1>3 DEF B
<1> HIDE DEF w
<1>9. PICK z : z = w \o <<c>> OBVIOUS
<1>10. /\ Len(z) = Len(o) + 1 /\ DOMAIN z = 1..(Len(o) + 1)
       /\ \A i \in 1..Len(o) : z[i] = w[i]
       /\ z[Len(o) + 1] = c
  BY <1>5, <1>7, <1>8, <1>9, SMTT(20)
<1>11. Clouds = z BY <1>2, <1>3, <1>9, Zenon DEF Clouds, w
<1> QED BY <1>1, <1>2, <1>3, <1>4, <1>5, <1>7, <1>10, <1>11, Zenon DEF B

LEMMA TurnCloudHolds ==
  ASSUME LidarInv, NEW c \in Seq(Blk), TurnCloud(c), NEW a \in 1..(Len(c) - 1)
  PROVE  TurnOf(c[a]) = TurnOf(c[a + 1]) \/ FarApart(c[a], c[a + 1])
<1>1. a \in 1..Len(c) /\ a + 1 \in 1..Len(c) OBVIOUS
<1>2. PICK x, y : x = c[a] /\ y = c[a + 1] OBVIOUS
<1>3. y.az = AzAt(y.sent) /\ Joined(x.sent, y.sent) BY <1>1, <1>2, Zenon DEF TurnCloud
<1>4. TurnOf(x) = TurnAt(x.sent) /\ TurnOf(y) = TurnAt(y.sent) BY Zenon DEF TurnOf, TurnAt
<1>5. Apart(x.sent, y.sent) => FarApart(x, y) BY <1>3, Zenon DEF Apart, FarApart
<1> QED BY <1>2, <1>3, <1>4, <1>5, Zenon DEF Joined

LEMMA TurnsPerCloud ==
  ASSUME MechInv, TurnsRight
  PROVE  OneTurnPerCloud
<1> SUFFICES ASSUME q.mode = "ANGLE"
             PROVE  /\ \A i \in DOMAIN Clouds : \A a \in 1..(Len(Clouds[i]) - 1) :
                         TurnOf(Clouds[i][a]) = TurnOf(Clouds[i][a + 1]) \/ FarApart(Clouds[i][a], Clouds[i][a + 1])
                    /\ \A i \in 1..(Len(Clouds) - 1) :
                         Clouds[i + 1] # <<>> => TurnOf(Last(Clouds[i])) # TurnOf(Clouds[i + 1][1])
  BY Zenon DEF OneTurnPerCloud
<1>1. LidarInv /\ f \in Frame BY DEF MechInv
<1>2. PICK m \in Nat :
        /\ m = Len(f.out) /\ Len(Clouds) = m + 1 /\ DOMAIN Clouds = 1..(m + 1)
        /\ \A i \in 1..m : Clouds[i] = f.out[i].blocks /\ f.out[i].blocks \in Seq(Blk) \ {<<>>}
        /\ Clouds[m + 1] = f.cloud /\ f.cloud \in Seq(Blk)
  BY <1>1, CloudsAre, Zenon
<1>3. \A b : TurnOf(b) = TurnAt(b.sent) BY Zenon DEF TurnOf, TurnAt
<1>4. ASSUME NEW c \in Seq(Blk) \ {<<>>}
      PROVE  TurnAt(c[1].sent) \in Nat /\ LastTurn(c) \in Nat /\ TurnOf(Last(c)) = LastTurn(c)
  <2>1. Len(c) \in 1..Len(c) /\ 1 \in 1..Len(c) OBVIOUS
  <2>2. c[1] \in Blk /\ c[Len(c)] \in Blk BY <2>1
  <2>3. PICK u \in Nat, v \in Nat : u = c[1].sent /\ v = c[Len(c)].sent BY <2>2 DEF Blk
  <2>4. u <= u /\ v <= v OBVIOUS
  <2>5. TurnAt(u) \in Nat /\ TurnAt(v) \in Nat BY <1>1, <2>4, Between
  <2> QED BY <1>3, <2>3, <2>5, Zenon DEF LastTurn, Last
<1>5. CASE Fresh(f)
  <2>1. f.out = <<>> /\ f.cloud = <<>> BY <1>5 DEF Fresh
  <2>2. m = 0 BY <1>2, <2>1
  <2>3. Clouds[1] = <<>> /\ DOMAIN Clouds = {1} /\ Len(Clouds) = 1 BY <1>2, <2>1, <2>2
  <2>4. PICK c : c = Clouds[1] OBVIOUS
  <2>5. 1..(Len(c) - 1) = {} BY <2>3, <2>4
  <2>6. 1..(Len(Clouds) - 1) = {} BY <2>3
  <2> QED BY <2>3, <2>4, <2>5, <2>6, Zenon
<1>6. CASE \E s \in Nat : s <= TimeOf(fired) /\ TurnInv(f, s)
  <2>1. PICK s \in Nat : TurnInv(f, s) BY <1>6
  <2>2. /\ TurnCloud(f.cloud)
        /\ \A i \in 1..m : TurnCloud(f.out[i].blocks)
        /\ \A i \in 1..(m - 1) : LastTurn(f.out[i].blocks) < TurnAt(f.out[i + 1].blocks[1].sent)
        /\ f.out # <<>> => (f.cloud # <<>> => LastTurn(f.out[m].blocks) < TurnAt(f.cloud[1].sent))
    BY <1>2, <2>1, Zenon DEF TurnInv
  <2>3. ASSUME NEW i \in 1..(m + 1) PROVE Clouds[i] \in Seq(Blk) /\ TurnCloud(Clouds[i])
    <3>1. CASE i \in 1..m BY <1>2, <2>2, <3>1, Zenon
    <3>2. CASE i = m + 1 BY <1>2, <2>2, <3>2, Zenon
    <3> QED BY <3>1, <3>2
  <2>4. ASSUME NEW i \in DOMAIN Clouds, NEW a \in 1..(Len(Clouds[i]) - 1)
        PROVE  TurnOf(Clouds[i][a]) = TurnOf(Clouds[i][a + 1]) \/ FarApart(Clouds[i][a], Clouds[i][a + 1])
    <3>1. PICK c \in Seq(Blk) : c = Clouds[i] /\ TurnCloud(c) BY <1>2, <2>3
    <3>2. a \in 1..(Len(c) - 1) BY <3>1
    <3>3. TurnOf(c[a]) = TurnOf(c[a + 1]) \/ FarApart(c[a], c[a + 1]) BY <1>1, <3>1, <3>2, TurnCloudHolds
    <3> QED BY <3>1, <3>3, Zenon
  <2>5. ASSUME NEW i \in 1..(Len(Clouds) - 1), Clouds[i + 1] # <<>>
        PROVE  TurnOf(Last(Clouds[i])) # TurnOf(Clouds[i + 1][1])
    <3>1. i \in 1..m BY <1>2
    <3>2. PICK c \in Seq(Blk) \ {<<>>} : c = Clouds[i] /\ c = f.out[i].blocks BY <1>2, <3>1
    <3>3. PICK e \in Seq(Blk) \ {<<>>} : e = Clouds[i + 1]
      <4>1. i + 1 \in 1..(m + 1) BY <3>1
      <4> QED BY <2>3, <2>5, <4>1
    <3>4. LastTurn(c) < TurnAt(e[1].sent)
      <4>1. CASE i = m
        <5>1. e = f.cloud BY <1>2, <3>3, <4>1, Zenon
        <5>2. f.out # <<>> BY <1>2, <3>1
        <5> QED BY <2>2, <3>2, <3>3, <4>1, <5>1, <5>2, Zenon
      <4>2. CASE i # m
        <5>1. i \in 1..(m - 1) /\ i + 1 \in 1..m BY <3>1, <4>2
        <5>2. e = f.out[i + 1].blocks BY <1>2, <3>3, <5>1, Zenon
        <5> QED BY <2>2, <3>2, <5>1, <5>2, Zenon
      <4> QED BY <4>1, <4>2
    <3>5. LastTurn(c) \in Nat /\ TurnAt(e[1].sent) \in Nat BY <1>4
    <3>6. LastTurn(c) # TurnAt(e[1].sent) BY <3>4, <3>5
    <3>7. TurnOf(Last(c)) = LastTurn(c) BY <1>4
    <3> QED BY <1>3, <3>2, <3>3, <3>6, <3>7, Zenon
  <2> QED BY <2>4, <2>5, Zenon
<1> QED BY <1>5, <1>6 DEF TurnsRight, TurnsTold

\* Nothing happens: the invariants stay.
LEMMA Unchanged ==
  ASSUME MechInv, UNCHANGED vars
  PROVE  MechInv' /\ Same /\ f' = f /\ fired' = fired
<1>1. /\ lidar' = lidar /\ q' = q /\ dev' = dev /\ fired' = fired /\ phase' = phase /\ d' = d /\ f' = f
      /\ paced' = paced /\ splits' = splits /\ refused' = refused /\ halves' = halves /\ faults' = faults
  BY DEF vars
<1>2. Same BY <1>1 DEF Same
<1>3. Layout' = Layout BY <1>2, Fixed
<1>4. LidarInv' BY <1>1, <1>3, Zenon DEF LidarInv, MechInv
<1>5. DecoderInv' BY <1>1, Zenon DEF DecoderInv, DecoderFields, MechInv
<1> QED BY <1>1, <1>2, <1>4, <1>5 DEF MechInv

LEMMA TurnsStart ==
  ASSUME Init
  PROVE  TurnsRight
<1>1. f.sp.prev = q.angle /\ f.cloud = <<>> /\ f.out = <<>> BY DEF Init
<1> QED BY <1>1, Zenon DEF TurnsRight, TurnsTold, Fresh

LEMMA TurnsStay ==
  ASSUME TurnsRight, Same, f' = f, fired' = fired
  PROVE  TurnsRight'
<1>1. q' = q BY DEF Same
<1> SUFFICES ASSUME q.mode = "ANGLE" PROVE TurnsTold(f, TimeOf(fired))' BY <1>1, Zenon DEF TurnsRight
<1>2. PICK g, k, u : g = f /\ k = fired /\ u = TimeOf(k) OBVIOUS
<1>3. TurnsTold(g, u) BY <1>2, Zenon DEF TurnsRight
<1>4. TurnsTold(g, u)' BY <1>3, TurnsSame
<1>5. TimeOf(k)' = u BY <1>2, Fixed
<1>6. f' = g /\ TimeOf(fired)' = u BY <1>2, <1>5, Zenon DEF TimeOf
<1> QED BY <1>4, <1>6, Zenon DEF TurnsTold, TurnInv, Fresh

\* Split by angle, a cloud holds one turn and a turn is in one cloud, whatever is lost,
\* corrupted or of another kind, and while the lidar is not yet known.
THEOREM TurnsSplit == Spec => []OneTurnPerCloud
<1>1. Init => MechInv /\ TurnsRight BY TypedStart, TurnsStart
<1>2. MechInv /\ TurnsRight /\ [Next]_vars => MechInv' /\ TurnsRight'
  <2> SUFFICES ASSUME MechInv, TurnsRight, [Next]_vars PROVE MechInv' /\ TurnsRight' OBVIOUS
  <2>1. CASE RecvDifop
    <3>1. DecoderInv' /\ LidarInv' /\ Same /\ f' = f /\ fired' = fired BY <2>1, TypedDifop
    <3>2. f' \in Frame BY <3>1 DEF MechInv
    <3>3. TurnsRight' BY <3>1, TurnsStay
    <3> QED BY <3>1, <3>2, <3>3 DEF MechInv
  <2>2. CASE RecvMsop BY <2>2, TypedMsop, TurnsKept
  <2>3. CASE UNCHANGED vars BY <2>3, Unchanged, TurnsStay
  <2> QED BY <2>1, <2>2, <2>3 DEF Next
<1>3. MechInv /\ TurnsRight => OneTurnPerCloud BY TurnsPerCloud
<1> QED BY <1>1, <1>2, <1>3, PTL DEF Spec

-----------------------------------------------------------------------------
(* Columns *)

\* Every block has all its points, and every cloud handed out the height of an ordered one.
Filled(c) == \A j \in 1..Len(c) : c[j].n = Const.chans

FilledFrame(g) ==
  /\ Filled(g.cloud)
  /\ \A i \in 1..Len(g.out) : Filled(g.out[i].blocks) /\ g.out[i].height = Height

LEMMA FilledWith ==
  ASSUME NEW c \in Seq(Blk), Filled(c), NEW n, NEW blk, blk.n = Const.chans
  PROVE  Filled(With(c, n, blk))
<1>1. CASE n = 0 BY <1>1 DEF With
<1>2. CASE n # 0
  <2>1. With(c, n, blk) = Append(c, blk) BY <1>2 DEF With
  <2>2. PICK m, e : m \in Nat /\ m = Len(c) /\ e = Append(c, blk)
    <3>1. Len(c) \in Nat OBVIOUS
    <3> QED BY <3>1, Zenon
  <2>3. Len(e) = m + 1 /\ e[m + 1] = blk /\ \A j \in 1..m : e[j] = c[j] BY <2>2
  <2>4. ASSUME NEW j \in 1..(m + 1) PROVE e[j].n = Const.chans
    <3>1. CASE j = m + 1 BY <2>3, <3>1, Zenon
    <3>2. CASE j # m + 1
      <4>1. j \in 1..m BY <2>2, <3>2
      <4> QED BY <2>2, <2>3, <4>1, Zenon DEF Filled
    <3> QED BY <3>1, <3>2
  <2> QED BY <2>1, <2>2, <2>3, <2>4, Zenon DEF Filled
<1> QED BY <1>1, <1>2

LEMMA NothingFilled == Filled(<<>>)
<1>1. PICK c : c = <<>> OBVIOUS
<1>2. Len(c) = 0 /\ 1..0 = {} BY <1>1
<1> QED BY <1>1, <1>2, Zenon DEF Filled

LEMMA FilledStep ==
  ASSUME LidarInv, ~q.dense, NEW x \in Frame, NEW y \in Frame, FilledFrame(x), NEW first, NEW k, NEW o, NEW kn,
         BlockStep(x, y, Height, first, k, o, kn)
  PROVE  FilledFrame(y)
<1>1. PICK n \in Nat :
        /\ n = Const.chans
        /\ \/ y.cloud = With(x.cloud, n, BlockOf(first, k, o, n, kn)) /\ y.out = x.out
           \/ y.cloud = With(<<>>, n, BlockOf(first, k, o, n, kn)) /\ y.out = Handed(x, Height)
  BY Zenon DEF BlockStep
<1>2. PICK blk : blk = BlockOf(first, k, o, n, kn) OBVIOUS
<1>3. blk.n = Const.chans BY <1>1, <1>2 DEF BlockOf
<1>4. x.cloud \in Seq(Blk) /\ <<>> \in Seq(Blk) /\ x.out \in Seq(HandedOut) BY DEF Frame
<1>5. Filled(x.cloud) /\ \A i \in 1..Len(x.out) : Filled(x.out[i].blocks) /\ x.out[i].height = Height
  BY Zenon DEF FilledFrame
<1>6. Filled(With(x.cloud, n, blk)) BY <1>3, <1>4, <1>5, FilledWith
<1>7. Filled(With(<<>>, n, blk)) BY <1>3, <1>4, NothingFilled, FilledWith
<1>8. Filled(y.cloud) BY <1>1, <1>2, <1>6, <1>7, Zenon
<1>9. CASE y.out = x.out BY <1>5, <1>8, <1>9, Zenon DEF FilledFrame
<1>10. CASE y.out = Handed(x, Height)
  <2>1. CASE x.cloud = <<>>
    <3>1. y.out = x.out BY <1>10, <2>1 DEF Handed
    <3> QED BY <1>9, <3>1
  <2>2. CASE x.cloud # <<>>
    <3>1. PICK c : y.out = Append(x.out, c) /\ c.blocks = x.cloud /\ c.height = Height
      BY <1>10, <2>2 DEF Handed
    <3>2. PICK m \in Nat : m = Len(x.out) /\ Len(y.out) = m + 1 /\ y.out[m + 1] = c
                           /\ \A i \in 1..m : y.out[i] = x.out[i]
      BY <1>4, <3>1
    <3>3. ASSUME NEW i \in 1..(m + 1) PROVE Filled(y.out[i].blocks) /\ y.out[i].height = Height
      <4>1. CASE i = m + 1 BY <1>5, <3>1, <3>2, <4>1, Zenon
      <4>2. CASE i # m + 1
        <5>1. i \in 1..m BY <4>2
        <5> QED BY <1>5, <3>2, <5>1, Zenon
      <4> QED BY <4>1, <4>2
    <3> QED BY <1>8, <3>2, <3>3, Zenon DEF FilledFrame
  <2> QED BY <2>1, <2>2
<1> QED BY <1>1, <1>9, <1>10

LEMMA FilledDecoded ==
  ASSUME LidarInv, ~q.dense, NEW first \in Nat, NEW bad, NEW kn \in BOOLEAN, NEW g \in Frame, FilledFrame(g),
         NEW y, Decoded(y, first, bad, kn, g)
  PROVE  FilledFrame(y)
<1>1. PICK a, off : Decodes(first, bad, kn, g, a, off) /\ y = a[Const.blocks] BY Zenon DEF Decoded
<1> DEFINE N == Const.blocks
           S == {b \in 0..N : FilledFrame(a[b])}
<1>2. N \in Nat BY Configured, LidarConst
<1>3. 0 \in S
  <2>1. a[0] = [g EXCEPT !.ret = FALSE, !.err = "none"] BY <1>1, Zenon DEF Decodes
  <2>2. a[0].cloud = g.cloud /\ a[0].out = g.out BY <2>1 DEF Frame
  <2>3. FilledFrame(a[0]) BY <2>2, Zenon DEF FilledFrame
  <2>4. 0 \in 0..N BY <1>2
  <2> QED BY <2>3, <2>4, Zenon
<1>4. ASSUME NEW b \in 1..N, b - 1 \in S PROVE b \in S
  <2>1. PICK c \in 0..N : c = b - 1 BY <1>2
  <2>2. PICK x \in Frame : x = a[c] BY <1>1, Zenon DEF Decodes
  <2>3. b \in 0..N BY <1>2
  <2>4. PICK z \in Frame : z = a[b] BY <1>1, <2>3, Zenon DEF Decodes
  <2>5. BlockOutcome(x, z, b, first, bad, off, kn) BY <1>1, <2>1, <2>2, <2>4, Zenon DEF Decodes
  <2>6. FilledFrame(x) BY <1>4, <2>1, <2>2, Zenon
  <2>7. FilledFrame(z)
    <3>1. CASE z = x BY <2>6, <3>1, Zenon
    <3>2. CASE \E err \in Errors \ {"none"} : z = [x EXCEPT !.err = err]
      <4>1. z.cloud = x.cloud /\ z.out = x.out BY <3>2 DEF Frame
      <4> QED BY <2>6, <4>1, Zenon DEF FilledFrame
    <3>3. CASE BlockStep(x, z, Height, first, first + FiringOf(b), off[b], kn) BY <2>6, <3>3, FilledStep
    <3> QED BY <2>5, <3>1, <3>2, <3>3, Zenon DEF BlockOutcome
  <2> QED BY <2>3, <2>4, <2>7, Zenon
<1>5. \A b \in 0..N : b \in S
  <2> HIDE DEF S
  <2> QED BY <1>2, <1>3, <1>4, BlockInduction
<1>6. N \in 0..N BY <1>2
<1> QED BY <1>1, <1>5, <1>6, Zenon

-----------------------------------------------------------------------------
\* Where two blocks make a column.
Even(n) == \E m \in Nat : n = 2 * m
EvenOut(g) == \A i \in 1..Len(g.out) : Even(Len(g.out[i].blocks))

LEMMA TwoBlocks ==
  ASSUME LidarInv, ~BlockIsColumn
  PROVE  Const.blocks = 8 /\ Const.chans = 48 /\ (\A j \in {1, 2, 3, 4} : FiringOf(2 * j) = FiringOf(2 * j - 1))
<1>1. lidar \in {"RSAIRY", "RSFAIRY"} /\ dev.model # 1 BY DEF BlockIsColumn
<1>2. Const.blocks = 8 /\ Const.chans = 48 BY <1>1 DEF Const, RSAIRY, RSFAIRY
<1>3. Layout \in {"TwoInOne", "FourInOne"}
  <2>1. Layout = IF EchoSet = "SINGLE" THEN "TwoInOne" ELSE "FourInOne" BY <1>1 DEF Layout
  <2> QED BY <2>1
<1>4. CASE Layout = "TwoInOne"
  <2>1. \A b \in Nat : FiringOf(b) = (b - 1) \div 2 BY <1>4 DEF FiringOf
  <2> QED BY <1>2, <2>1
<1>5. CASE Layout = "FourInOne"
  <2>1. \A b \in Nat : FiringOf(b) = (b - 1) \div 4 BY <1>5 DEF FiringOf
  <2> QED BY <1>2, <2>1
<1> QED BY <1>3, <1>4, <1>5

LEMMA EvenHanded ==
  ASSUME NEW x \in Frame, EvenOut(x), Even(Len(x.cloud)), NEW y, NEW h, y.out = x.out \/ y.out = Handed(x, h)
  PROVE  EvenOut(y)
<1>1. x.out \in Seq(HandedOut) BY DEF Frame
<1>2. CASE y.out = x.out BY <1>2, Zenon DEF EvenOut
<1>3. CASE y.out = Handed(x, h) /\ x.cloud # <<>>
  <2>1. PICK c : y.out = Append(x.out, c) /\ c.blocks = x.cloud BY <1>3 DEF Handed
  <2>2. PICK m \in Nat : m = Len(x.out) /\ Len(y.out) = m + 1 /\ y.out[m + 1] = c
                         /\ \A i \in 1..m : y.out[i] = x.out[i]
    BY <1>1, <2>1
  <2>3. ASSUME NEW i \in 1..(m + 1) PROVE Even(Len(y.out[i].blocks))
    <3>1. CASE i = m + 1 BY <2>1, <2>2, <3>1, Zenon
    <3>2. CASE i # m + 1
      <4>1. i \in 1..m BY <3>2
      <4> QED BY <2>2, <4>1, Zenon DEF EvenOut
    <3> QED BY <3>1, <3>2
  <2> QED BY <2>2, <2>3, Zenon DEF EvenOut
<1>4. CASE y.out = Handed(x, h) /\ x.cloud = <<>>
  <2>1. y.out = x.out BY <1>4 DEF Handed
  <2> QED BY <1>2, <2>1
<1> QED BY <1>2, <1>3, <1>4

\* Both blocks of a column are in one cloud.
LEMMA PairStep ==
  ASSUME LidarInv, q.mode = "ANGLE", ~q.dense, NEW x \in Frame, NEW y \in Frame, NEW z \in Frame, NEW first, NEW k \in Nat,
         NEW o1, NEW o2, NEW kn, NEW h, BlockStep(x, y, h, first, k, o1, kn), BlockStep(y, z, h, first, k, o2, kn),
         EvenOut(x), Even(Len(x.cloud))
  PROVE  EvenOut(z) /\ Even(Len(z.cloud)) /\ z.err = x.err
<1>1. AzOf(k) \in Nat /\ q.angle \in Nat /\ Round \in Nat
  <2>1. AzOf(k) \in Nat BY OneFiring
  <2>2. q.angle \in 0..Round /\ Round \in Nat BY Configured, Geometry
  <2> QED BY <2>1, <2>2
<1>2. ~Begins(AzOf(k), AzOf(k)) BY <1>1 DEF Begins
<1>3. Const.chans # 0 BY Configured, LidarConst
<1>4. y.sp.prev = AzOf(k) /\ y.err = x.err /\ z.err = y.err BY Zenon DEF BlockStep
<1>5. PICK blk : \/ y.cloud = Append(x.cloud, blk) /\ y.out = x.out
                 \/ y.cloud = Append(<<>>, blk) /\ y.out = Handed(x, h)
  BY <1>3, Zenon DEF BlockStep, With
<1>6. PICK b : z.cloud = Append(y.cloud, b) /\ z.out = y.out
  BY <1>2, <1>3, <1>4, Zenon DEF BlockStep, With
<1>7. x.cloud \in Seq(Blk) /\ y.cloud \in Seq(Blk) BY DEF Frame
<1>8. EvenOut(y) BY <1>5, EvenHanded
<1>9. EvenOut(z) BY <1>6, <1>8, Zenon DEF EvenOut
<1>10. Len(z.cloud) = Len(y.cloud) + 1 BY <1>6, <1>7
<1>11. Len(y.cloud) = Len(x.cloud) + 1 \/ Len(y.cloud) = 1
  <2>1. PICK c : c = <<>> OBVIOUS
  <2>2. Len(Append(c, blk)) = 1 /\ Len(Append(x.cloud, blk)) = Len(x.cloud) + 1 BY <1>7, <2>1
  <2> QED BY <1>5, <2>1, <2>2
<1>12. PICK m \in Nat : Len(x.cloud) = 2 * m BY DEF Even
<1>13. Len(z.cloud) = 2 * (m + 1) \/ Len(z.cloud) = 2 * 1
  <2>1. PICK u, v, w : u = Len(x.cloud) /\ v = Len(y.cloud) /\ w = Len(z.cloud) OBVIOUS
  <2>2. w = v + 1 /\ (v = u + 1 \/ v = 1) /\ u = 2 * m BY <1>10, <1>11, <1>12, <2>1, Zenon
  <2>3. w = 2 * (m + 1) \/ w = 2 * 1 BY <2>2
  <2> QED BY <2>1, <2>3, Zenon
<1>14. m + 1 \in Nat /\ 1 \in Nat BY <1>12
<1>15. Even(Len(z.cloud)) BY <1>13, <1>14, Zenon DEF Even
<1> QED BY <1>4, <1>9, <1>15

\* A packet without a bad block leaves even clouds.
LEMMA EvenDecoded ==
  ASSUME LidarInv, q.mode = "ANGLE", ~q.dense, ~BlockIsColumn, NEW first \in Nat, NEW kn \in BOOLEAN, NEW g \in Frame,
         EvenOut(g), Even(Len(g.cloud)), NEW y, Decoded(y, first, {}, kn, g)
  PROVE  EvenOut(y) /\ Even(Len(y.cloud))
<1>1. PICK a, off : Decodes(first, {}, kn, g, a, off) /\ y = a[Const.blocks] BY Zenon DEF Decoded
<1>2. Const.blocks = 8 /\ \A j \in {1, 2, 3, 4} : FiringOf(2 * j) = FiringOf(2 * j - 1) BY TwoBlocks
<1> DEFINE P(w) == EvenOut(w) /\ Even(Len(w.cloud)) /\ w.err = "none"
<1>3. P(a[0])
  <2>1. a[0] = [g EXCEPT !.ret = FALSE, !.err = "none"] BY <1>1, Zenon DEF Decodes
  <2>2. a[0].cloud = g.cloud /\ a[0].out = g.out /\ a[0].err = "none" BY <2>1 DEF Frame
  <2> QED BY <2>2, Zenon DEF EvenOut
<1>4. ASSUME NEW j \in {1, 2, 3, 4}, P(a[2 * j - 2]) PROVE P(a[2 * j])
  <2>1. PICK c \in 1..8, b \in 1..8 : c = 2 * j - 1 /\ b = 2 * j /\ c - 1 = 2 * j - 2 /\ b - 1 = c /\ c - 1 \in 0..8
    OBVIOUS
  <2>2. c \in 0..8 /\ b \in 0..8 OBVIOUS
  <2>3. PICK x \in Frame, z \in Frame, w \in Frame : x = a[c - 1] /\ z = a[c] /\ w = a[b]
    BY <1>1, <1>2, <2>1, <2>2, Zenon DEF Decodes
  <2>4. BlockOutcome(x, z, c, first, {}, off, kn) /\ BlockOutcome(z, w, b, first, {}, off, kn)
    BY <1>1, <1>2, <2>1, <2>3, Zenon DEF Decodes
  <2>5. P(x) BY <1>4, <2>1, <2>3, Zenon
  <2>6. BlockStep(x, z, Height, first, first + FiringOf(c), off[c], kn) BY <2>4, <2>5, Zenon DEF BlockOutcome
  <2>7. z.err = x.err BY <2>6, Zenon DEF BlockStep
  <2>8. BlockStep(z, w, Height, first, first + FiringOf(b), off[b], kn)
    BY <2>4, <2>5, <2>7, Zenon DEF BlockOutcome
  <2>9. PICK k \in Nat : k = first + FiringOf(c) /\ k = first + FiringOf(b)
    <3>1. FiringOf(b) = FiringOf(c) BY <1>2, <2>1, Zenon
    <3>2. FiringOf(c) \in Nat BY <1>2, FiringNext
    <3> QED BY <3>1, <3>2
  <2>10. BlockStep(x, z, Height, first, k, off[c], kn) /\ BlockStep(z, w, Height, first, k, off[b], kn)
    BY <2>6, <2>8, <2>9, Zenon
  <2>11. EvenOut(w) /\ Even(Len(w.cloud)) /\ w.err = x.err BY <2>5, <2>10, PairStep
  <2> QED BY <2>1, <2>3, <2>5, <2>11, Zenon
<1> HIDE DEF P
<1>5. 2 * 1 - 2 = 0 /\ 2 * 1 = 2 /\ 2 * 2 - 2 = 2 /\ 2 * 2 = 4 /\ 2 * 3 - 2 = 4 /\ 2 * 3 = 6 /\ 2 * 4 - 2 = 6 /\ 2 * 4 = 8
  OBVIOUS
<1>6. 1 \in {1, 2, 3, 4} /\ 2 \in {1, 2, 3, 4} /\ 3 \in {1, 2, 3, 4} /\ 4 \in {1, 2, 3, 4} OBVIOUS
<1>7. P(a[2]) BY <1>3, <1>4, <1>5, <1>6, Zenon
<1>8. P(a[4]) BY <1>4, <1>5, <1>6, <1>7, Zenon
<1>9. P(a[6]) BY <1>4, <1>5, <1>6, <1>8, Zenon
<1>10. P(a[8]) BY <1>4, <1>5, <1>6, <1>9, Zenon
<1> QED BY <1>1, <1>2, <1>10, Zenon DEF P

Paired(g) == EvenOut(g) /\ Even(Len(g.cloud))

ColumnsRight ==
  ~q.dense =>
    /\ FilledFrame(f)
    /\ Height = 192 => f.out = <<>> /\ f.cloud = <<>>
    /\ ~BlockIsColumn /\ q.mode = "ANGLE" /\ faults = 0 => Paired(f)

LEMMA ColumnsEmptied ==
  ASSUME NEW g, FilledFrame(g), NEW y, y.out = g.out, y.cloud = g.cloud \/ y.cloud = <<>>
  PROVE  FilledFrame(y) /\ (Paired(g) => Paired(y))
<1>1. Len(<<>>) = 0 OBVIOUS
<1>2. 0 \in Nat /\ 0 = 2 * 0 OBVIOUS
<1>3. Even(0) BY <1>2, Zenon DEF Even
<1>4. Even(Len(<<>>)) BY <1>1, <1>3, Zenon
<1> QED BY <1>4, NothingFilled, Zenon DEF FilledFrame, Paired, EvenOut

LEMMA ColumnsStart ==
  ASSUME Init
  PROVE  ColumnsRight
<1>1. f.out = <<>> /\ f.cloud = <<>> BY DEF Init
<1>2. PICK c : c = <<>> /\ Len(c) = 0 OBVIOUS
<1>3. 1..0 = {} /\ 0 \in Nat /\ 0 = 2 * 0 OBVIOUS
<1>4. Even(0) BY <1>3, Zenon DEF Even
<1>5. FilledFrame(f) BY <1>1, <1>2, <1>3, NothingFilled, Zenon DEF FilledFrame
<1>6. Paired(f) BY <1>1, <1>2, <1>3, <1>4, Zenon DEF Paired, EvenOut
<1> QED BY <1>1, <1>5, <1>6, Zenon DEF ColumnsRight

LEMMA ColumnsStay ==
  ASSUME ColumnsRight, Same, f' = f, faults' = faults
  PROVE  ColumnsRight'
<1>1. q' = q /\ Const' = Const /\ Height' = Height /\ BlockIsColumn' = BlockIsColumn BY Fixed DEF Same
<1>2. \A c : Filled(c)' = Filled(c) BY <1>1, Zenon DEF Filled
<1>3. FilledFrame(f)' = FilledFrame(f) BY <1>1, <1>2, Zenon DEF FilledFrame
<1>4. Paired(f)' = Paired(f) BY Zenon DEF Paired, EvenOut
<1> QED BY <1>1, <1>3, <1>4, Zenon DEF ColumnsRight

LEMMA ColumnsKept ==
  ASSUME MechInv, ColumnsRight, RecvMsop
  PROVE  ColumnsRight'
<1>1. LidarInv /\ f \in Frame /\ faults \in Nat BY DEF MechInv, LidarInv
<1>2. PICK lost \in Nat, first \in Nat, bad \in SUBSET (1..Const.blocks), hit \in BOOLEAN,
           other \in BOOLEAN, g \in Frame : Received(lost, first, bad, hit, other, g)
  BY MsopStep
<1>3. Same BY MsopStep
<1>4. q' = q /\ Const' = Const /\ Height' = Height /\ BlockIsColumn' = BlockIsColumn BY <1>3, Fixed DEF Same
<1>5. CASE q.dense BY <1>4, <1>5, Zenon DEF ColumnsRight
<1>6. CASE ~q.dense
  <2>1. /\ FilledFrame(f)
        /\ Height = 192 => f.out = <<>> /\ f.cloud = <<>>
        /\ ~BlockIsColumn /\ q.mode = "ANGLE" /\ faults = 0 => Paired(f)
    BY <1>6, Zenon DEF ColumnsRight
  <2>2. g.out = f.out /\ (g.cloud = f.cloud \/ g.cloud = <<>>)
    <3>1. g = f \/ g = [f EXCEPT !.cloud = <<>>] BY <1>2, Zenon DEF Received
    <3> QED BY <1>1, <3>1 DEF Frame
  <2>3. FilledFrame(g) /\ (Paired(f) => Paired(g)) BY <2>1, <2>2, ColumnsEmptied
  <2>4. faults' = 0 => faults = 0 /\ bad = {}
    <3>1. faults' \in Nat /\ faults' >= faults + Counts(lost > 0) + Counts(bad # {}) + Counts(other)
      BY <1>2, Zenon DEF Received
    <3>2. Counts(lost > 0) \in Nat /\ Counts(other) \in Nat /\ Counts(bad # {}) \in {0, 1}
          /\ (bad # {} => Counts(bad # {}) = 1)
      BY DEF Counts
    <3>3. faults' = 0 => faults = 0 /\ Counts(bad # {}) = 0 BY <1>1, <3>1, <3>2
    <3>4. 0 # 1 OBVIOUS
    <3> QED BY <3>2, <3>3, <3>4, Zenon
  <2>5. PICK y : y = f' OBVIOUS
  <2>6. /\ FilledFrame(y)
        /\ Height = 192 => y.out = <<>> /\ y.cloud = <<>>
        /\ ~BlockIsColumn /\ q.mode = "ANGLE" /\ bad = {} /\ Paired(g) => Paired(y)
    <3>1. CASE \E err \in Errors : y = [g EXCEPT !.ret = FALSE, !.err = err]
      <4>1. y.out = g.out /\ y.cloud = g.cloud BY <3>1 DEF Frame
      <4>2. FilledFrame(y) /\ (Paired(g) => Paired(y)) BY <2>3, <4>1, ColumnsEmptied
      <4> QED BY <2>1, <2>2, <4>1, <4>2, Zenon
    <3>2. CASE Height # 192 /\ \E kn \in BOOLEAN : Decoded(y, first, bad, kn, g)
      <4>1. PICK kn \in BOOLEAN : Decoded(y, first, bad, kn, g) BY <3>2
      <4>2. FilledFrame(y) BY <1>1, <1>6, <2>3, <4>1, FilledDecoded
      <4>3. ASSUME ~BlockIsColumn, q.mode = "ANGLE", bad = {}, Paired(g) PROVE Paired(y)
        <5>1. Decoded(y, first, {}, kn, g) BY <4>1, <4>3, Zenon
        <5> QED BY <1>1, <1>6, <4>3, <5>1, EvenDecoded DEF Paired
      <4> QED BY <3>2, <4>2, <4>3, Zenon
    <3>3. "none" \in Errors /\ "UNSUPPORTED" \in Errors BY DEF Errors
    <3>4. \/ \E err \in Errors : y = [g EXCEPT !.ret = FALSE, !.err = err]
          \/ Height # 192 /\ \E kn \in BOOLEAN : Decoded(y, first, bad, kn, g)
      BY <1>2, <2>5, <3>3, Zenon DEF Received
    <3> QED BY <3>1, <3>2, <3>4, Zenon
  <2>7. \A c : Filled(c)' = Filled(c) BY <1>4, Zenon DEF Filled
  <2>8. FilledFrame(f)' BY <1>4, <2>5, <2>6, <2>7, Zenon DEF FilledFrame
  <2>9. ~BlockIsColumn /\ q.mode = "ANGLE" /\ faults' = 0 => Paired(y) BY <2>1, <2>3, <2>4, <2>6, Zenon
  <2>10. Paired(f)' = Paired(y) BY <2>5, Zenon DEF Paired, EvenOut
  <2> QED BY <1>4, <2>5, <2>6, <2>8, <2>9, <2>10, Zenon DEF ColumnsRight
<1> QED BY <1>5, <1>6

LEMMA ColumnsWhole ==
  ASSUME MechInv, ColumnsRight
  PROVE  OrderedCloudsWhole
<1> SUFFICES ASSUME ~q.dense, BlockIsColumn \/ (q.mode = "ANGLE" /\ faults = 0), NEW i \in DOMAIN f.out
             PROVE  CloudPoints(f.out[i].blocks) % f.out[i].height = 0
  BY Zenon DEF OrderedCloudsWhole
<1>1. LidarInv /\ f \in Frame BY DEF MechInv
<1>2. f.out \in Seq(HandedOut) BY <1>1 DEF Frame
<1>3. i \in 1..Len(f.out) /\ f.out[i] \in HandedOut BY <1>2
<1>4. PICK c \in Seq(Blk) : c = f.out[i].blocks BY <1>3 DEF HandedOut
<1>5. PICK m \in Nat : m = Len(c) OBVIOUS
<1>6. Filled(c) /\ f.out[i].height = Height BY <1>3, <1>4, Zenon DEF ColumnsRight, FilledFrame
<1>7. PICK n \in Nat : n = Const.chans BY <1>1, Configured, LidarConst
<1>8. CloudPoints(c) = m * n
  <2> DEFINE g == [j \in DOMAIN c |-> c[j].n]
  <2>1. DOMAIN c = 1..m BY <1>5
  <2>2. \A j \in 1..m : g[j] = n BY <1>5, <1>6, <1>7, <2>1, Zenon DEF Filled
  <2>3. g \in [1..m -> Nat] BY <2>1, <2>2
  <2>4. CloudPoints(c) = SumFunction(g) BY DEF CloudPoints
  <2> HIDE DEF g
  <2>5. SumFunction(g) = m * n BY <2>2, <2>3, SumBounds
  <2> QED BY <2>4, <2>5
<1>9. PICK h \in Nat \ {0} : h = Height BY <1>1, Configured, HeightTyped
<1>10. \E w \in Nat : CloudPoints(c) = w * h
  <2>1. CASE BlockIsColumn
    <3>1. n = h \/ n = 2 * h BY <1>1, <1>7, <1>9, <2>1, Configured, HeightTyped
    <3>2. CASE n = h BY <1>8, <3>2, Zenon
    <3>3. CASE n = 2 * h
      <4>1. 2 * m \in Nat /\ m * (2 * h) = (2 * m) * h BY SMTT(20)
      <4> QED BY <1>8, <3>3, <4>1, Zenon
    <3> QED BY <3>1, <3>2, <3>3
  <2>2. CASE ~BlockIsColumn
    <3>1. Height # 192
      <4> SUFFICES ASSUME Height = 192 PROVE FALSE OBVIOUS
      <4>1. f.out = <<>> BY Zenon DEF ColumnsRight
      <4> QED BY <1>3, <4>1
    <3>2. h = 96 /\ n = 48 BY <1>1, <1>7, <1>9, <2>2, <3>1, Configured, HeightTyped
    <3>3. EvenOut(f) BY <2>2, Zenon DEF ColumnsRight, Paired
    <3>4. PICK w \in Nat : m = 2 * w BY <1>3, <1>4, <1>5, <3>3, Zenon DEF EvenOut, Even
    <3>5. m * n = w * h BY <3>2, <3>4
    <3> QED BY <1>8, <3>5, Zenon
  <2> QED BY <2>1, <2>2
<1>11. PICK w \in Nat : CloudPoints(c) = w * h BY <1>10
<1>12. (w * h) % h = 0
  <2>1. 0 \in 0..(h - 1) /\ w * h + 0 = w * h
    <3>1. PICK x \in Nat : x = w * h BY Products
    <3> QED BY <3>1
  <2>2. (w * h + 0) % h = 0 BY <2>1, Division
  <2> QED BY <2>1, <2>2, Zenon
<1> QED BY <1>4, <1>6, <1>9, <1>11, <1>12, Zenon

\* An ordered cloud is whole columns, for every lidar whose blocks are columns, and where
\* two blocks are one as long as no packet is lost, corrupted or of another kind.
THEOREM OrderedColumns == Spec => []OrderedCloudsWhole
<1>1. Init => MechInv /\ ColumnsRight BY TypedStart, ColumnsStart
<1>2. MechInv /\ ColumnsRight /\ [Next]_vars => MechInv' /\ ColumnsRight'
  <2> SUFFICES ASSUME MechInv, ColumnsRight, [Next]_vars PROVE MechInv' /\ ColumnsRight' OBVIOUS
  <2>1. CASE RecvDifop
    <3>1. DecoderInv' /\ LidarInv' /\ Same /\ f' = f BY <2>1, TypedDifop
    <3>2. f' \in Frame /\ faults' = faults BY <2>1, <3>1 DEF MechInv, RecvDifop
    <3>3. ColumnsRight' BY <3>1, <3>2, ColumnsStay
    <3> QED BY <3>1, <3>2, <3>3 DEF MechInv
  <2>2. CASE RecvMsop BY <2>2, TypedMsop, ColumnsKept
  <2>3. CASE UNCHANGED vars
    <3>1. faults' = faults BY <2>3 DEF vars
    <3> QED BY <2>3, <3>1, Unchanged, ColumnsStay
  <2> QED BY <2>1, <2>2, <2>3 DEF Next
<1>3. MechInv /\ ColumnsRight => OrderedCloudsWhole BY ColumnsWhole
<1> QED BY <1>1, <1>2, <1>3, PTL DEF Spec

-----------------------------------------------------------------------------
(* Stamps *)

\* The first and the last block of a cloud after one more.
LEMMA WithEnds ==
  ASSUME NEW c \in Seq(Blk), NEW n, NEW blk, NEW e, e = With(c, n, blk)
  PROVE  e # <<>> => /\ e[Len(e)] = blk \/ (c # <<>> /\ e[Len(e)] = c[Len(c)])
                     /\ (c # <<>> /\ e[1] = c[1]) \/ (c = <<>> /\ e[1] = blk)
<1>1. CASE n = 0 BY <1>1 DEF With
<1>2. CASE n # 0
  <2>1. e = Append(c, blk) BY <1>2 DEF With
  <2>2. Len(c) \in Nat /\ Len(e) = Len(c) + 1 /\ e[Len(c) + 1] = blk BY <2>1
  <2>3. c # <<>> => e[1] = c[1] BY <2>1
  <2>4. c = <<>> => e[1] = blk
    <3>1. c = <<>> => Len(c) = 0 OBVIOUS
    <3>2. c = <<>> => Len(c) + 1 = 1 BY <3>1
    <3> QED BY <2>2, <3>2, Zenon
  <2> QED BY <2>2, <2>3, <2>4
<1> QED BY <1>1, <1>2

LEMMA TimesTyped ==
  ASSUME NEW c \in Seq(Blk) \ {<<>>}
  PROVE  c[1].ts \in Nat /\ LastOf(c) \in Nat
<1>1. Len(c) \in 1..Len(c) /\ 1 \in 1..Len(c) OBVIOUS
<1>2. c[1] \in Blk /\ c[Len(c)] \in Blk BY <1>1
<1> QED BY <1>2 DEF Blk, LastOf

\* The times that one cloud and the next have to do with each other.
Meet(c, e) ==
  IF q.first THEN LastOf(c.blocks) <= e.stamp /\ e.stamp <= e.blocks[1].ts
             ELSE LastOf(c.blocks) <= c.stamp /\ c.stamp <= e.blocks[1].ts

\* The last cloud handed out and the frame being built.
Hands(c, g) ==
  IF q.first THEN LastOf(c.blocks) <= g.first
             ELSE /\ LastOf(c.blocks) <= c.stamp /\ c.stamp <= g.prev
                  /\ g.cloud # <<>> => c.stamp <= g.cloud[1].ts

Stamped(g) ==
  /\ g.first <= g.prev
  /\ g.cloud # <<>> => LastOf(g.cloud) <= g.prev /\ g.first <= g.cloud[1].ts
  /\ \A i \in 2..Len(g.out) : Meet(g.out[i - 1], g.out[i])
  /\ g.out # <<>> => Hands(g.out[Len(g.out)], g)

\* The frame when no block later than t has been decoded.
StampInv(g, t) == g.known => g.prev <= t /\ Stamped(g)

LEMMA HandsTyped ==
  ASSUME NEW c \in HandedOut
  PROVE  c.stamp \in Nat /\ LastOf(c.blocks) \in Nat /\ c.blocks[1].ts \in Nat
<1>1. c.stamp \in Nat /\ c.blocks \in Seq(Blk) \ {<<>>} BY DEF HandedOut
<1> QED BY <1>1, TimesTyped

LEMMA StampStep ==
  ASSUME LidarInv, NEW x \in Frame, NEW y \in Frame, Stamped(x), NEW h, NEW first, NEW k, NEW o, NEW kn,
         NEW ts \in Nat, ts = TimeOf(first) + o.ts, x.prev <= ts, BlockStep(x, y, h, first, k, o, kn)
  PROVE  Stamped(y) /\ y.prev = ts
<1>1. PICK n \in Nat :
        /\ y.prev = ts
        /\ \/ y.cloud = With(x.cloud, n, BlockOf(first, k, o, n, kn)) /\ y.out = x.out /\ y.first = x.first
           \/ y.cloud = With(<<>>, n, BlockOf(first, k, o, n, kn)) /\ y.out = Handed(x, h) /\ y.first = ts
  BY Zenon DEF BlockStep
<1>2. PICK blk : blk = BlockOf(first, k, o, n, kn) OBVIOUS
<1>3. blk.ts = ts BY <1>2 DEF BlockOf
<1>4. x.cloud \in Seq(Blk) /\ y.cloud \in Seq(Blk) /\ <<>> \in Seq(Blk) /\ x.out \in Seq(HandedOut) /\ y.out \in Seq(HandedOut)
      /\ x.first \in Nat /\ x.prev \in Nat /\ y.first \in Nat
  BY DEF Frame
<1>5. /\ x.first <= x.prev
      /\ x.cloud # <<>> => LastOf(x.cloud) <= x.prev /\ x.first <= x.cloud[1].ts
      /\ \A i \in 2..Len(x.out) : Meet(x.out[i - 1], x.out[i])
      /\ x.out # <<>> => Hands(x.out[Len(x.out)], x)
  BY Zenon DEF Stamped
<1>6. ts <= ts /\ x.first <= ts BY <1>4, <1>5
<1>7. x.cloud # <<>> => /\ LastOf(x.cloud) \in Nat /\ x.cloud[1].ts \in Nat
                        /\ LastOf(x.cloud) <= ts /\ x.first <= x.cloud[1].ts
  <2> SUFFICES ASSUME x.cloud # <<>>
               PROVE  /\ LastOf(x.cloud) \in Nat /\ x.cloud[1].ts \in Nat
                      /\ LastOf(x.cloud) <= ts /\ x.first <= x.cloud[1].ts
    OBVIOUS
  <2>1. LastOf(x.cloud) \in Nat /\ x.cloud[1].ts \in Nat BY <1>4, TimesTyped
  <2> QED BY <1>4, <1>5, <2>1
<1>8. x.out # <<>> => x.out[Len(x.out)] \in HandedOut BY <1>4
<1>9. CASE y.cloud = With(x.cloud, n, blk) /\ y.out = x.out /\ y.first = x.first
  <2>1. y.cloud # <<>> => /\ y.cloud[Len(y.cloud)] = blk \/ (x.cloud # <<>> /\ y.cloud[Len(y.cloud)] = x.cloud[Len(x.cloud)])
                          /\ (x.cloud # <<>> /\ y.cloud[1] = x.cloud[1]) \/ (x.cloud = <<>> /\ y.cloud[1] = blk)
    BY <1>4, <1>9, WithEnds
  <2>2. y.cloud # <<>> => LastOf(y.cloud) <= ts /\ x.first <= y.cloud[1].ts
    BY <1>3, <1>6, <1>7, <2>1, Zenon DEF LastOf
  <2>3. y.out # <<>> => Hands(y.out[Len(y.out)], y)
    <3> SUFFICES ASSUME x.out # <<>> PROVE Hands(x.out[Len(x.out)], y) BY <1>9, Zenon
    <3>1. PICK c \in HandedOut : c = x.out[Len(x.out)] /\ Hands(c, x) BY <1>5, <1>8, Zenon
    <3>2. CASE q.first BY <1>9, <3>1, <3>2, Zenon DEF Hands
    <3>3. CASE ~q.first
      <4>1. LastOf(c.blocks) <= c.stamp /\ c.stamp <= x.prev /\ (x.cloud # <<>> => c.stamp <= x.cloud[1].ts)
        BY <3>1, <3>3, Zenon DEF Hands
      <4>2. c.stamp <= ts
        <5>1. c.stamp \in Nat BY HandsTyped
        <5> QED BY <1>4, <4>1, <5>1
      <4>3. y.cloud # <<>> => c.stamp <= y.cloud[1].ts BY <1>3, <2>1, <4>1, <4>2, Zenon
      <4> QED BY <1>1, <3>1, <3>3, <4>1, <4>2, <4>3, Zenon DEF Hands
    <3> QED BY <3>2, <3>3
  <2> QED BY <1>1, <1>5, <1>6, <1>9, <2>2, <2>3, Zenon DEF Stamped
<1>10. CASE y.cloud = With(<<>>, n, blk) /\ y.out = Handed(x, h) /\ y.first = ts
  <2>1. y.cloud # <<>> => y.cloud[Len(y.cloud)] = blk /\ y.cloud[1] = blk
    <3>1. PICK c, e : c = <<>> /\ e = y.cloud OBVIOUS
    <3>2. e = With(c, n, blk) /\ c \in Seq(Blk) BY <1>4, <1>10, <3>1, Zenon
    <3>3. e # <<>> => /\ e[Len(e)] = blk \/ (c # <<>> /\ e[Len(e)] = c[Len(c)])
                      /\ (c # <<>> /\ e[1] = c[1]) \/ (c = <<>> /\ e[1] = blk)
      BY <3>2, WithEnds
    <3> QED BY <3>1, <3>3, Zenon
  <2>2. y.cloud # <<>> => LastOf(y.cloud) <= ts /\ ts <= y.cloud[1].ts
    BY <1>3, <1>6, <2>1, Zenon DEF LastOf
  <2>3. CASE x.cloud = <<>>
    <3>1. y.out = x.out BY <1>10, <2>3 DEF Handed
    <3>2. y.out # <<>> => Hands(y.out[Len(y.out)], y)
      <4> SUFFICES ASSUME x.out # <<>> PROVE Hands(x.out[Len(x.out)], y) BY <3>1, Zenon
      <4>1. PICK c \in HandedOut : c = x.out[Len(x.out)] /\ Hands(c, x) BY <1>5, <1>8, Zenon
      <4>2. c.stamp \in Nat /\ LastOf(c.blocks) \in Nat BY HandsTyped
      <4>3. CASE q.first
        <5>1. LastOf(c.blocks) <= x.first BY <4>1, <4>3, Zenon DEF Hands
        <5>2. LastOf(c.blocks) <= ts BY <1>4, <1>6, <4>2, <5>1
        <5> QED BY <1>10, <4>1, <4>3, <5>2, Zenon DEF Hands
      <4>4. CASE ~q.first
        <5>1. LastOf(c.blocks) <= c.stamp /\ c.stamp <= x.prev BY <4>1, <4>4, Zenon DEF Hands
        <5>2. c.stamp <= ts BY <1>4, <4>2, <5>1
        <5>3. y.cloud # <<>> => c.stamp <= y.cloud[1].ts BY <1>3, <2>1, <5>2, Zenon
        <5> QED BY <1>1, <4>1, <4>4, <5>1, <5>2, <5>3, Zenon DEF Hands
      <4> QED BY <4>3, <4>4
    <3> QED BY <1>1, <1>5, <1>6, <1>10, <2>2, <3>1, <3>2, Zenon DEF Stamped
  <2>4. CASE x.cloud # <<>>
    <3>1. PICK c : y.out = Append(x.out, c) /\ c.blocks = x.cloud /\ c.stamp = CloudTs(q, x)
      BY <1>10, <2>4 DEF Handed
    <3>2. PICK m \in Nat : m = Len(x.out) /\ Len(y.out) = m + 1 /\ y.out[m + 1] = c
                           /\ \A i \in 1..m : y.out[i] = x.out[i]
      BY <1>4, <3>1
    <3>3. c.stamp = IF q.first THEN x.first ELSE x.prev BY <3>1, Zenon DEF CloudTs
    <3>4. Hands(c, y)
      <4>1. CASE q.first
        <5>1. LastOf(c.blocks) <= ts BY <1>7, <2>4, <3>1, Zenon
        <5> QED BY <1>10, <4>1, <5>1, Zenon DEF Hands
      <4>2. CASE ~q.first
        <5>1. c.stamp = x.prev BY <3>3, <4>2
        <5>2. LastOf(c.blocks) <= c.stamp /\ c.stamp <= ts BY <1>5, <2>4, <3>1, <5>1, Zenon
        <5>3. y.cloud # <<>> => c.stamp <= y.cloud[1].ts BY <1>3, <2>1, <5>2, Zenon
        <5> QED BY <1>1, <4>2, <5>2, <5>3, Zenon DEF Hands
      <4> QED BY <4>1, <4>2
    <3>5. x.out # <<>> => Meet(x.out[m], c)
      <4> SUFFICES ASSUME x.out # <<>> PROVE Meet(x.out[m], c) OBVIOUS
      <4>1. PICK b \in HandedOut : b = x.out[m] /\ Hands(b, x) BY <1>5, <1>8, <3>2, Zenon
      <4>2. CASE q.first
        <5>1. LastOf(b.blocks) <= x.first /\ x.first <= x.cloud[1].ts BY <1>5, <2>4, <4>1, <4>2, Zenon DEF Hands
        <5> QED BY <3>1, <3>3, <4>1, <4>2, <5>1, Zenon DEF Meet
      <4>3. CASE ~q.first
        <5>1. LastOf(b.blocks) <= b.stamp /\ b.stamp <= x.cloud[1].ts BY <2>4, <4>1, <4>3, Zenon DEF Hands
        <5> QED BY <3>1, <4>1, <4>3, <5>1, Zenon DEF Meet
      <4> QED BY <4>2, <4>3
    <3>6. ASSUME NEW i \in 2..(m + 1) PROVE Meet(y.out[i - 1], y.out[i])
      <4>1. i - 1 \in 1..m BY <3>2
      <4>2. CASE i = m + 1
        <5>1. x.out # <<>> BY <3>2, <4>1
        <5>2. i - 1 = m BY <3>2, <4>2
        <5> QED BY <3>2, <3>5, <4>1, <4>2, <5>1, <5>2, Zenon
      <4>3. CASE i # m + 1
        <5>1. i \in 2..m /\ i \in 1..m BY <3>2, <4>3
        <5>2. y.out[i - 1] = x.out[i - 1] /\ y.out[i] = x.out[i] BY <3>2, <4>1, <5>1, Zenon
        <5> QED BY <1>5, <3>2, <5>1, <5>2, Zenon
      <4> QED BY <4>2, <4>3
    <3>7. y.out[Len(y.out)] = c BY <3>2
    <3> QED BY <1>1, <1>6, <1>10, <2>2, <3>2, <3>4, <3>6, <3>7, Zenon DEF Stamped
  <2> QED BY <2>3, <2>4
<1> QED BY <1>1, <1>2, <1>9, <1>10, Zenon

LEMMA StampSame ==
  ASSUME NEW x \in Frame, NEW y, NEW t, StampInv(x, t), y.known = x.known, y.prev = x.prev, y.first = x.first,
         y.out = x.out, y.cloud = x.cloud \/ y.cloud = <<>>
  PROVE  StampInv(y, t)
<1> SUFFICES ASSUME y.known PROVE y.prev <= t /\ Stamped(y) BY Zenon DEF StampInv
<1>1. x.prev <= t /\ Stamped(x) BY Zenon DEF StampInv
<1>2. \A c : Hands(c, x) => Hands(c, y) BY Zenon DEF Hands
<1> QED BY <1>1, <1>2, Zenon DEF Stamped

LEMMA StampLater ==
  ASSUME NEW x \in Frame, NEW t \in Nat, NEW u \in Nat, t <= u, StampInv(x, t)
  PROVE  StampInv(x, u)
<1>1. x.prev \in Nat BY DEF Frame
<1>2. x.prev <= t => x.prev <= u BY <1>1
<1> QED BY <1>2, Zenon DEF StampInv

\* While the decoder does not know its lidar.
LEMMA StampUnknown ==
  ASSUME LidarInv, NEW first \in Nat, NEW bad, NEW g \in Frame, StampInv(g, TimeOf(first)),
         NEW y, Decoded(y, first, bad, FALSE, g)
  PROVE  StampInv(y, TimeOf(first))
<1>1. PICK a, off : Decodes(first, bad, FALSE, g, a, off) /\ y = a[Const.blocks] BY Zenon DEF Decoded
<1> DEFINE N == Const.blocks
           t == TimeOf(first)
           S == {b \in 0..N : StampInv(a[b], t)}
<1>2. N \in Nat BY Configured, LidarConst
<1>3. 0 \in S
  <2>1. a[0] = [g EXCEPT !.ret = FALSE, !.err = "none"] BY <1>1, Zenon DEF Decodes
  <2>2. /\ a[0].cloud = g.cloud /\ a[0].out = g.out /\ a[0].prev = g.prev /\ a[0].first = g.first
        /\ a[0].known = g.known
    BY <2>1 DEF Frame
  <2>3. StampInv(a[0], t) BY <2>2, StampSame
  <2>4. 0 \in 0..N BY <1>2
  <2> QED BY <2>3, <2>4, Zenon
<1>4. ASSUME NEW b \in 1..N, b - 1 \in S PROVE b \in S
  <2>1. PICK c \in 0..N : c = b - 1 BY <1>2
  <2>2. PICK x \in Frame : x = a[c] BY <1>1, Zenon DEF Decodes
  <2>3. b \in 0..N BY <1>2
  <2>4. PICK z \in Frame : z = a[b] BY <1>1, <2>3, Zenon DEF Decodes
  <2>5. BlockOutcome(x, z, b, first, bad, off, FALSE) BY <1>1, <2>1, <2>2, <2>4, Zenon DEF Decodes
  <2>6. StampInv(x, t) BY <1>4, <2>1, <2>2, Zenon
  <2>7. StampInv(z, t)
    <3>1. CASE z = x BY <2>6, <3>1, Zenon
    <3>2. CASE \E err \in Errors \ {"none"} : z = [x EXCEPT !.err = err]
      <4>1. z.cloud = x.cloud /\ z.out = x.out /\ z.prev = x.prev /\ z.first = x.first /\ z.known = x.known
        BY <3>2 DEF Frame
      <4> QED BY <2>6, <4>1, StampSame
    <3>3. CASE BlockStep(x, z, Height, first, first + FiringOf(b), off[b], FALSE)
      <4>1. z.known = (x.known /\ FALSE) BY <3>3, Zenon DEF BlockStep
      <4>2. ~z.known BY <4>1, Zenon
      <4> QED BY <4>2, Zenon DEF StampInv
    <3> QED BY <2>5, <3>1, <3>2, <3>3, Zenon DEF BlockOutcome
  <2> QED BY <2>3, <2>4, <2>7, Zenon
<1>5. \A b \in 0..N : b \in S
  <2> HIDE DEF S
  <2> QED BY <1>2, <1>3, <1>4, BlockInduction
<1>6. N \in 0..N BY <1>2
<1> QED BY <1>1, <1>5, <1>6, Zenon

\* The latest time that a block up to b can have got.
Latest(first, off, b) == IF b = 0 THEN TimeOf(first) ELSE TimeOf(first) + off[b].ts

LEMMA LatestGrows ==
  ASSUME LidarInv, NEW first \in Nat, NEW off, OffsetsRight(first, off), NEW b \in 1..Const.blocks
  PROVE  /\ Latest(first, off, b - 1) \in Nat /\ Latest(first, off, b) \in Nat
         /\ Latest(first, off, b) = TimeOf(first) + off[b].ts
         /\ Latest(first, off, b - 1) <= Latest(first, off, b)
         /\ Latest(first, off, b) <= TimeOf(first + FiringOf(b))
<1>1. PICK t \in Nat : t = TimeOf(first) BY OneFiring
<1>2. \A c \in 1..Const.blocks : off[c].ts \in Nat BY Zenon DEF OffsetsRight, Timed
<1>3. off[b].ts \in Nat /\ t + off[b].ts <= TimeOf(first + FiringOf(b)) BY <1>1, <1>2, Zenon DEF OffsetsRight, Timed
<1>4. Latest(first, off, b) = t + off[b].ts BY <1>1 DEF Latest
<1>5. CASE b = 1
  <2>1. b - 1 = 0 BY <1>5
  <2>2. Latest(first, off, b - 1) = t BY <1>1, <2>1, Zenon DEF Latest
  <2> QED BY <1>1, <1>3, <1>4, <2>2
<1>6. CASE b # 1
  <2>1. PICK c : c = b - 1 OBVIOUS
  <2>2. c \in 1..Const.blocks /\ c # 0 /\ b > 1
    <3>1. Const.blocks \in Nat BY Configured, LidarConst
    <3> QED BY <1>6, <2>1, <3>1
  <2>3. off[c].ts \in Nat /\ off[c].ts <= off[b].ts BY <1>2, <2>1, <2>2, Zenon DEF OffsetsRight
  <2>4. Latest(first, off, c) = t + off[c].ts BY <1>1, <2>2, Zenon DEF Latest
  <2> QED BY <1>1, <1>3, <1>4, <2>1, <2>3, <2>4
<1> QED BY <1>5, <1>6

LEMMA StampKnown ==
  ASSUME LidarInv, NEW first \in Nat, NEW bad, NEW g \in Frame, StampInv(g, TimeOf(first)),
         NEW y, Decoded(y, first, bad, TRUE, g)
  PROVE  StampInv(y, TimeOf(first + FiringOf(Const.blocks + 1)))
<1>1. PICK a, off : Decodes(first, bad, TRUE, g, a, off) /\ y = a[Const.blocks] BY Zenon DEF Decoded
<1>0. OffsetsRight(first, off) BY <1>1, Zenon DEF Decodes
<1> DEFINE N == Const.blocks
           t(b) == Latest(first, off, b)
           S == {b \in 0..N : StampInv(a[b], t(b))}
<1>2. N \in Nat \ {0} BY Configured, LidarConst
<1>3. 0 \in S
  <2>1. a[0] = [g EXCEPT !.ret = FALSE, !.err = "none"] BY <1>1, Zenon DEF Decodes
  <2>2. /\ a[0].cloud = g.cloud /\ a[0].out = g.out /\ a[0].prev = g.prev /\ a[0].first = g.first
        /\ a[0].known = g.known
    BY <2>1 DEF Frame
  <2>3. StampInv(a[0], TimeOf(first)) BY <2>2, StampSame
  <2>4. 0 \in 0..N BY <1>2
  <2>5. t(0) = TimeOf(first) BY DEF Latest
  <2> QED BY <2>3, <2>4, <2>5, Zenon
<1>4. ASSUME NEW b \in 1..N, b - 1 \in S PROVE b \in S
  <2>1. PICK c \in 0..N : c = b - 1 BY <1>2
  <2>2. PICK x \in Frame : x = a[c] BY <1>1, Zenon DEF Decodes
  <2>3. b \in 0..N BY <1>2
  <2>4. PICK z \in Frame : z = a[b] BY <1>1, <2>3, Zenon DEF Decodes
  <2>5. BlockOutcome(x, z, b, first, bad, off, TRUE) BY <1>1, <2>1, <2>2, <2>4, Zenon DEF Decodes
  <2>6. PICK u \in Nat, v \in Nat : u = t(b - 1) /\ v = t(b) /\ v = TimeOf(first) + off[b].ts /\ u <= v
    BY <1>0, LatestGrows
  <2>7. StampInv(x, u) BY <1>4, <2>1, <2>2, <2>6, Zenon
  <2>8. StampInv(z, v)
    <3>1. CASE z = x BY <2>6, <2>7, <3>1, StampLater
    <3>2. CASE \E err \in Errors \ {"none"} : z = [x EXCEPT !.err = err]
      <4>1. z.cloud = x.cloud /\ z.out = x.out /\ z.prev = x.prev /\ z.first = x.first /\ z.known = x.known
        BY <3>2 DEF Frame
      <4>2. StampInv(z, u) BY <2>7, <4>1, StampSame
      <4> QED BY <2>6, <4>2, StampLater
    <3>3. CASE BlockStep(x, z, Height, first, first + FiringOf(b), off[b], TRUE)
      <4>1. z.known = (x.known /\ TRUE) BY <3>3, Zenon DEF BlockStep
      <4> SUFFICES ASSUME z.known PROVE z.prev <= v /\ Stamped(z) BY Zenon DEF StampInv
      <4>2. x.prev <= u /\ Stamped(x) BY <2>7, <4>1, Zenon DEF StampInv
      <4>3. x.prev <= v
        <5>1. x.prev \in Nat BY DEF Frame
        <5> QED BY <2>6, <4>2, <5>1
      <4>4. Stamped(z) /\ z.prev = v
        <5>1. PICK k, o, h, kn : k = first + FiringOf(b) /\ o = off[b] /\ h = Height /\ kn = TRUE OBVIOUS
        <5>2. BlockStep(x, z, h, first, k, o, kn) BY <3>3, <5>1, Zenon
        <5>3. v = TimeOf(first) + o.ts /\ Stamped(x) /\ v \in Nat BY <2>6, <4>2, <5>1, Zenon
        <5> HIDE DEF t, S, N
        <5> QED BY <4>3, <5>2, <5>3, StampStep
      <4>5. v <= v BY <2>6
      <4> QED BY <4>4, <4>5, Zenon
    <3> QED BY <2>5, <3>1, <3>2, <3>3, Zenon DEF BlockOutcome
  <2> QED BY <2>3, <2>4, <2>6, <2>8, Zenon
<1>5. \A b \in 0..N : b \in S
  <2> HIDE DEF S
  <2> QED BY <1>2, <1>3, <1>4, BlockInduction
<1>6. N \in 0..N /\ N \in 1..N BY <1>2
<1>7. StampInv(y, t(N)) BY <1>1, <1>5, <1>6, Zenon
<1>8. y \in Frame BY <1>1, <1>6, Zenon DEF Decodes
<1>9. PICK k \in Nat, l \in Nat : k = first + FiringOf(N) /\ l = first + FiringOf(N + 1) /\ k <= l
  <2>1. FiringOf(N) \in Nat /\ FiringOf(N + 1) \in Nat /\ FiringOf(N) <= FiringOf(N + 1) BY <1>6, FiringNext
  <2> QED BY <2>1
<1>10. PICK r \in Nat, s \in Nat : r = t(N) /\ s = TimeOf(l) /\ r <= s
  <2>1. t(N) \in Nat /\ t(N) <= TimeOf(k) BY <1>0, <1>6, <1>9, LatestGrows
  <2>2. TimeOf(k) <= TimeOf(l) BY <1>9, LaterTime
  <2>3. TimeOf(k) \in Nat /\ TimeOf(l) \in Nat BY FiredAt
  <2>4. t(N) <= TimeOf(l)
    <3> HIDE DEF t
    <3> QED BY <2>1, <2>2, <2>3
  <2> QED BY <2>1, <2>3, <2>4
<1>11. StampInv(y, s) BY <1>7, <1>8, <1>10, StampLater
<1> QED BY <1>9, <1>10, <1>11, Zenon

StampsRight == StampInv(f, TimeOf(fired))

LEMMA StampsStart ==
  ASSUME Init
  PROVE  StampsRight
<1>1. f.out = <<>> /\ f.cloud = <<>> /\ f.first = 0 /\ f.prev = 0 BY DEF Init
<1>2. LidarInv BY TypedStart DEF MechInv
<1>3. TimeOf(fired) \in Nat
  <2>1. fired \in Nat BY <1>2 DEF LidarInv
  <2> QED BY <1>2, <2>1, FiredAt
<1>4. 0 <= 0 /\ 0 <= TimeOf(fired) BY <1>3
<1>5. PICK c : c = <<>> /\ Len(c) = 0 OBVIOUS
<1>6. 2..0 = {} OBVIOUS
<1> QED BY <1>1, <1>4, <1>5, <1>6, Zenon DEF StampsRight, StampInv, Stamped

LEMMA StampInvSame ==
  ASSUME Same, NEW g, NEW t, StampInv(g, t)
  PROVE  StampInv(g, t)'
<1>1. q' = q BY DEF Same
<1>2. \A c, e : Meet(c, e)' = Meet(c, e) BY <1>1, Zenon DEF Meet
<1>3. \A c, x : Hands(c, x)' = Hands(c, x) BY <1>1, Zenon DEF Hands
<1> QED BY <1>2, <1>3, Zenon DEF StampInv, Stamped

LEMMA StampsStay ==
  ASSUME StampsRight, Same, f' = f, fired' = fired
  PROVE  StampsRight'
<1>1. PICK g, k, t : g = f /\ k = fired /\ t = TimeOf(k) OBVIOUS
<1>2. StampInv(g, t) BY <1>1, Zenon DEF StampsRight
<1>3. StampInv(g, t)' BY <1>2, StampInvSame
<1>4. TimeOf(k)' = t BY <1>1, Fixed
<1>5. f' = g /\ TimeOf(fired)' = t BY <1>1, <1>4, Zenon DEF TimeOf
<1> QED BY <1>3, <1>5, Zenon DEF StampsRight, StampInv, Stamped, Hands

LEMMA StampsKept ==
  ASSUME MechInv, StampsRight, RecvMsop
  PROVE  StampsRight'
<1>1. LidarInv /\ f \in Frame /\ fired \in Nat BY DEF MechInv, LidarInv
<1>2. PICK lost \in Nat, first \in Nat, bad \in SUBSET (1..Const.blocks), hit \in BOOLEAN,
           other \in BOOLEAN, g \in Frame : Received(lost, first, bad, hit, other, g)
  BY MsopStep
<1>3. Same BY MsopStep
<1>4. PICK l \in Nat : l = first + FiringOf(Const.blocks + 1) /\ first <= l
  <2>1. Const.blocks \in 1..Const.blocks BY <1>1, Configured, LidarConst
  <2>2. FiringOf(Const.blocks + 1) \in Nat BY <1>1, <2>1, FiringNext
  <2> QED BY <2>2
<1>5. PICK t \in Nat, u \in Nat, v \in Nat :
        t = TimeOf(fired) /\ u = TimeOf(first) /\ v = TimeOf(l) /\ t <= u /\ u <= v
  <2>1. fired <= first BY <1>1, <1>2 DEF Received
  <2>2. TimeOf(fired) \in Nat /\ TimeOf(first) \in Nat /\ TimeOf(l) \in Nat BY <1>1, FiredAt
  <2>3. TimeOf(fired) <= TimeOf(first) /\ TimeOf(first) <= TimeOf(l) BY <1>1, <1>4, <2>1, LaterTime
  <2> QED BY <2>2, <2>3
<1>6. StampInv(g, u)
  <2>1. g = f \/ g = [f EXCEPT !.cloud = <<>>] BY <1>2, Zenon DEF Received
  <2>2. (g.cloud = f.cloud \/ g.cloud = <<>>) /\ g.out = f.out /\ g.prev = f.prev /\ g.first = f.first
        /\ g.known = f.known
    BY <1>1, <2>1 DEF Frame
  <2>3. StampInv(f, t) BY <1>5, Zenon DEF StampsRight
  <2>4. StampInv(g, t) BY <1>1, <2>2, <2>3, StampSame
  <2> QED BY <1>5, <2>4, StampLater
<1>7. PICK y : y = f' OBVIOUS
<1>8. StampInv(y, v)
  <2>1. CASE \E err \in Errors : y = [g EXCEPT !.ret = FALSE, !.err = err]
    <3>1. /\ y.cloud = g.cloud /\ y.out = g.out /\ y.prev = g.prev /\ y.first = g.first /\ y.known = g.known
          /\ y \in Frame
      BY <2>1 DEF Frame
    <3>2. StampInv(y, u) BY <1>6, <3>1, StampSame
    <3> QED BY <1>5, <3>1, <3>2, StampLater
  <2>2. CASE \E kn \in BOOLEAN : Decoded(y, first, bad, kn, g)
    <3>1. StampInv(g, TimeOf(first)) BY <1>5, <1>6, Zenon
    <3>2. CASE Decoded(y, first, bad, TRUE, g)
      <4>1. StampInv(y, TimeOf(first + FiringOf(Const.blocks + 1))) BY <1>1, <3>1, <3>2, StampKnown
      <4> QED BY <1>4, <1>5, <4>1, Zenon
    <3>3. CASE Decoded(y, first, bad, FALSE, g)
      <4>1. StampInv(y, TimeOf(first)) BY <1>1, <3>1, <3>3, StampUnknown
      <4>2. StampInv(y, u) BY <1>5, <4>1, Zenon
      <4>3. y \in Frame
        <5>1. Const.blocks \in 0..Const.blocks BY <1>1, Configured, LidarConst
        <5> QED BY <3>3, <5>1, Zenon DEF Decoded, Decodes
      <4> QED BY <1>5, <4>2, <4>3, StampLater
    <3>4. PICK kn \in BOOLEAN : Decoded(y, first, bad, kn, g) BY <2>2
    <3>5. kn = TRUE \/ kn = FALSE OBVIOUS
    <3> QED BY <3>2, <3>3, <3>4, <3>5, Zenon
  <2>3. Outcome(y, first, bad, g) BY <1>2, <1>7, Outcomes, Zenon
  <2> QED BY <2>1, <2>2, <2>3, Zenon DEF Outcome
<1>9. StampInv(y, v)' BY <1>3, <1>8, StampInvSame
<1>10. v = TimeOf(fired)'
  <2>1. fired' = l BY <1>2, <1>4, Zenon DEF Received
  <2>2. TimeOf(l)' = TimeOf(l) BY <1>3, Fixed
  <2>3. TimeOf(fired)' = TimeOf(l)' BY <2>1, Zenon DEF TimeOf
  <2> QED BY <1>5, <2>2, <2>3, Zenon
<1> QED BY <1>7, <1>9, <1>10, Zenon DEF StampsRight, StampInv, Stamped, Hands

LEMMA StampsOrdered ==
  ASSUME StampsRight
  PROVE  StampsInOrder
<1> SUFFICES ASSUME f.known, NEW i \in 2..Len(f.out)
             PROVE  IF q.first
                    THEN LastOf(f.out[i-1].blocks) <= f.out[i].stamp /\ f.out[i].stamp <= f.out[i].blocks[1].ts
                    ELSE LastOf(f.out[i-1].blocks) <= f.out[i-1].stamp /\ f.out[i-1].stamp <= f.out[i].blocks[1].ts
  BY Zenon DEF StampsInOrder
<1>1. Meet(f.out[i - 1], f.out[i]) BY Zenon DEF StampsRight, StampInv, Stamped
<1> QED BY <1>1, Zenon DEF Meet

\* Once the decoder knows its lidar, the stamps of the clouds are in the order of their
\* points, with the first point's stamp and with the last one's.
THEOREM StampsFollow == Spec => []StampsInOrder
<1>1. Init => MechInv /\ StampsRight BY TypedStart, StampsStart
<1>2. MechInv /\ StampsRight /\ [Next]_vars => MechInv' /\ StampsRight'
  <2> SUFFICES ASSUME MechInv, StampsRight, [Next]_vars PROVE MechInv' /\ StampsRight' OBVIOUS
  <2>1. CASE RecvDifop
    <3>1. DecoderInv' /\ LidarInv' /\ Same /\ f' = f /\ fired' = fired BY <2>1, TypedDifop
    <3>2. f' \in Frame BY <3>1 DEF MechInv
    <3>3. StampsRight' BY <3>1, StampsStay
    <3> QED BY <3>1, <3>2, <3>3 DEF MechInv
  <2>2. CASE RecvMsop BY <2>2, TypedMsop, StampsKept
  <2>3. CASE UNCHANGED vars BY <2>3, Unchanged, StampsStay
  <2> QED BY <2>1, <2>2, <2>3 DEF Next
<1>3. MechInv /\ StampsRight => StampsInOrder BY StampsOrdered
<1> QED BY <1>1, <1>2, <1>3, PTL DEF Spec

-----------------------------------------------------------------------------
(* The pace of a recording *)

\* Two firings less than a turn apart are of one turn or of two, one after the other.
LEMMA WithinATurn ==
  ASSUME LidarInv, NEW r \in Nat, NEW k \in Nat, r <= k, k - r < PerTurn
  PROVE  /\ TurnAt(TimeOf(r)) \in Nat /\ TurnAt(TimeOf(k)) \in Nat
         /\ TurnAt(TimeOf(r)) <= TurnAt(TimeOf(k)) /\ TurnAt(TimeOf(k)) <= TurnAt(TimeOf(r)) + 1
         /\ Begins(AzOf(r), AzOf(k)) <=> TurnAt(TimeOf(r)) # TurnAt(TimeOf(k)) /\ AzOf(k) >= q.angle
<1>1. PICK P \in Nat \ {0} : P = PerTurn BY Geometry
<1>2. PICK m \in 0..(P - 1) : k = r + m
  <2>1. k - r \in 0..(P - 1) /\ k = r + (k - r) BY <1>1
  <2> QED BY <2>1
<1>3. \/ k \div P = r \div P /\ k % P = (r % P) + m /\ (r % P) + m < P
      \/ k \div P = (r \div P) + 1 /\ k % P = (r % P) + m - P /\ (r % P) + m >= P
  BY <1>2, LaterPlace
<1>4. PICK t \in Nat, c \in 0..(P - 1) :
        /\ t = r \div P /\ c = r % P /\ AzOf(r) = c * Turned /\ TimeOf(r) \in Nat
        /\ TimeOf(r) * dev.rps = t * Round + AzOf(r) /\ AzOf(r) \in Nat /\ AzOf(r) < Round
  BY <1>1, OneFiring
<1>5. PICK u \in Nat, w \in 0..(P - 1) :
        /\ u = k \div P /\ w = k % P /\ AzOf(k) = w * Turned /\ TimeOf(k) \in Nat
        /\ TimeOf(k) * dev.rps = u * Round + AzOf(k) /\ AzOf(k) \in Nat /\ AzOf(k) < Round
  BY <1>1, OneFiring
<1>6. (u = t /\ w >= c) \/ (u = t + 1 /\ w < c) BY <1>3, <1>4, <1>5
<1>7. PICK T \in Nat \ {0}, R \in Nat, g \in Nat \ {0} : T = Turned /\ R = Round /\ g = dev.rps
  BY Geometry, Configured
<1>8. PICK x \in Nat, y \in Nat : x = AzOf(r) /\ y = AzOf(k) /\ x < R /\ y < R /\ x = c * T /\ y = w * T
  BY <1>4, <1>5, <1>7
<1>9. w < c => y < x
  <2>1. c \in Nat /\ w \in Nat BY <1>1
  <2>2. w < c => w * T + T <= c * T BY <2>1, <1>7, Products
  <2> QED BY <2>2, <1>7, <1>8
<1>10. PICK s \in Nat, v \in Nat : s = TimeOf(r) /\ v = TimeOf(k) /\ s <= v
  BY <1>4, <1>5, LaterTime
<1>11. t * R \in Nat /\ u * R \in Nat /\ (u = t + 1 => u * R = t * R + R) BY <1>4, <1>5, <1>7, Products, SMTT(20)
<1>12. PICK X \in Nat, Y \in Nat : X = s * g /\ Y = v * g BY <1>7, <1>10, Products
<1>13. X = t * R + x /\ Y = u * R + y BY <1>4, <1>5, <1>7, <1>8, <1>10, <1>12
<1>14. Y - X < R BY <1>6, <1>8, <1>9, <1>11, <1>13
<1>15. (v - s) * g = Y - X BY <1>7, <1>10, <1>12, SMTT(20)
<1>16. (v - s) * dev.rps < Round BY <1>7, <1>14, <1>15
<1>17. AzAt(s) = AzOf(r) /\ AzAt(v) = AzOf(k) BY <1>10, FiredAt
<1>18. /\ TurnAt(s) \in Nat /\ TurnAt(v) \in Nat /\ TurnAt(s) <= TurnAt(v)
       /\ Begins(AzAt(s), AzAt(v)) <=> TurnAt(s) # TurnAt(v) /\ AzAt(v) >= q.angle
  BY <1>10, <1>16, Between
<1>19. TurnAt(v) <= TurnAt(s) + 1
  <2>1. PICK t1 \in Nat, z1 \in 0..(R - 1) :
          X = t1 * R + z1 /\ t1 * R \in Nat /\ TurnAt(s) = IF z1 >= q.angle THEN t1 + 1 ELSE t1
    BY <1>7, <1>10, <1>12, TurnValue
  <2>2. PICK u1 \in Nat, z2 \in 0..(R - 1) :
          Y = u1 * R + z2 /\ u1 * R \in Nat /\ TurnAt(v) = IF z2 >= q.angle THEN u1 + 1 ELSE u1
    BY <1>7, <1>10, <1>12, TurnValue
  <2>3. u1 <= t1 + 1 /\ (u1 = t1 + 1 => z2 < z1)
    <3>1. CASE u1 > t1 + 1
      <4>1. (t1 + 1) * R + R <= u1 * R BY <1>7, <3>1, Products
      <4>2. (t1 + 1) * R = t1 * R + R BY <1>7, SMTT(20)
      <4> QED BY <1>14, <2>1, <2>2, <4>1, <4>2
    <3>2. CASE u1 = t1 + 1
      <4>1. u1 * R = t1 * R + R BY <1>7, <3>2, SMTT(20)
      <4> QED BY <1>14, <2>1, <2>2, <3>2, <4>1
    <3> QED BY <3>1, <3>2
  <2>4. q.angle \in Nat BY Configured, Geometry
  <2> QED BY <2>1, <2>2, <2>3, <2>4
<1> QED BY <1>10, <1>17, <1>18, <1>19

\* The last block's firing is one of the packet's.
LEMMA LastFiring ==
  ASSUME LidarInv
  PROVE  /\ FiringOf(Const.blocks) \in Nat /\ PacketFirings \in Nat
         /\ FiringOf(Const.blocks) < PacketFirings /\ FiringOf(Const.blocks + 1) <= PacketFirings
<1>1. lidar \in LidarNames BY Configured
<1>2. Const.blocks \in {3, 4, 8} /\ Const.blocks \in 1..Const.blocks BY <1>1, LidarConst
<1>3. FiringOf(Const.blocks) \in Nat /\ FiringOf(Const.blocks + 1) \in Nat /\ FiringOf(Const.blocks + 1) <= PacketFirings
  BY <1>2, FiringNext
<1>4. CASE Layout = "ABDual"
  <2>1. Const.blocks = 3 /\ phase \in {0, 1} BY <1>1, <1>4, LayoutConst DEF LidarInv
  <2>2. FiringOf(3) = (3 - 1 + phase) \div 2 BY <1>4 DEF FiringOf
  <2>3. FiringOf(3) = 1 BY <2>1, <2>2
  <2>4. PacketFirings = 2 BY <1>4 DEF PacketFirings
  <2> QED BY <1>3, <2>1, <2>3, <2>4
<1>5. CASE Layout # "ABDual"
  <2>1. /\ Stride \in {1, 2, 4} /\ FiringsPerBlock \in {1, 2}
        /\ \A b \in Nat \ {0} : FiringOf(b) = FiringsPerBlock * ((b - 1) \div Stride)
        /\ \E n \in Nat \ {0} : Const.blocks = n * Stride
    BY <1>1, <1>5, FiringStride
  <2>2. PICK w \in {1, 2, 4}, m \in {1, 2}, n \in Nat \ {0} : w = Stride /\ m = FiringsPerBlock /\ Const.blocks = n * w
    BY <2>1
  <2>3. FiringOf(Const.blocks) = m * ((n * w - 1) \div w) /\ FiringOf(Const.blocks + 1) = m * ((n * w) \div w)
    <3>1. Const.blocks \in Nat \ {0} /\ Const.blocks + 1 \in Nat \ {0} /\ (Const.blocks + 1) - 1 = Const.blocks BY <1>2
    <3>2. FiringOf(Const.blocks) = m * ((Const.blocks - 1) \div w) BY <2>1, <2>2, <3>1
    <3>3. FiringOf(Const.blocks + 1) = m * (Const.blocks \div w)
      <4>1. FiringOf(Const.blocks + 1) = m * (((Const.blocks + 1) - 1) \div w) BY <2>1, <2>2, <3>1
      <4> QED BY <3>1, <4>1
    <3> QED BY <2>2, <3>2, <3>3
  <2>4. (n * w) \div w = n /\ (n * w - 1) \div w = n - 1 BY <2>2, SMTT(20)
  <2>5. m * (n - 1) < m * n BY <2>2
  <2>6. PacketFirings = FiringOf(Const.blocks + 1) BY <1>5 DEF PacketFirings
  <2> QED BY <1>3, <2>3, <2>4, <2>5, <2>6
<1> QED BY <1>4, <1>5

\* The turn a firing is of.
Turn(i) == TurnAt(TimeOf(i))

\* WithinATurn, with what it says of angles before the split angle.
LEMMA TurnNext ==
  ASSUME LidarInv, NEW r \in Nat, NEW k \in Nat, r <= k, k - r < PerTurn
  PROVE  /\ Turn(r) \in Nat /\ Turn(k) \in Nat /\ Turn(r) <= Turn(k) /\ Turn(k) <= Turn(r) + 1
         /\ AzOf(k) \in Nat /\ q.angle \in Nat
         /\ Begins(AzOf(r), AzOf(k)) <=> Turn(r) < Turn(k) /\ AzOf(k) >= q.angle
         /\ Turn(r) = Turn(k) /\ AzOf(r) < q.angle => AzOf(k) < q.angle
<1>1. /\ Turn(r) \in Nat /\ Turn(k) \in Nat /\ Turn(r) <= Turn(k) /\ Turn(k) <= Turn(r) + 1
      /\ Begins(AzOf(r), AzOf(k)) <=> Turn(r) # Turn(k) /\ AzOf(k) >= q.angle
  BY WithinATurn DEF Turn
<1>2. Turn(r) # Turn(k) <=> Turn(r) < Turn(k) BY <1>1
<1>3. Turn(r) = Turn(k) /\ AzOf(r) < q.angle => AzOf(k) < q.angle
  <2>1. PICK s \in Nat, t \in Nat : s = TimeOf(r) /\ t = TimeOf(k) /\ s <= t BY FiredAt, LaterTime
  <2>2. AzAt(s) = AzOf(r) /\ AzAt(t) = AzOf(k) BY <2>1, FiredAt, Zenon
  <2>3. TurnAt(s) = TurnAt(t) /\ AzAt(s) < q.angle => AzAt(t) < q.angle BY <2>1, Between
  <2> QED BY <2>1, <2>2, <2>3, Zenon DEF Turn
<1>4. AzOf(k) \in Nat /\ q.angle \in Nat
  <2>1. q.angle \in Nat BY Configured, Geometry
  <2> QED BY <2>1, OneFiring
<1> QED BY <1>1, <1>2, <1>3, <1>4, Zenon

\* decodeMsopPkt was last fed firing m, isNewFrame firing j and has reported D frames
\* more: it is of the same turn or a later one, which it has reported, unless nothing was
\* fired from the split angle on.
Behind(m, j, D) ==
  Turn(m) <= Turn(j) /\ (Turn(m) < Turn(j) => D >= 1 \/ AzOf(j) < q.angle)

\* Both are fed firing k: what isNewFrame reports decodeMsopPkt begins, and more only when
\* it is behind.
LEMMA BehindBoth ==
  ASSUME LidarInv, NEW m \in Nat, NEW j \in Nat, NEW k \in Nat, m <= k, j <= k, k - m < PerTurn, k - j < PerTurn,
         NEW D \in Nat, Behind(m, j, D)
  PROVE  /\ Begins(AzOf(j), AzOf(k)) => Begins(AzOf(m), AzOf(k))
         /\ Begins(AzOf(m), AzOf(k)) /\ ~Begins(AzOf(j), AzOf(k)) => D >= 1
<1>1. PICK a \in Nat, b \in Nat, c \in Nat, z \in Nat, y \in Nat, g \in Nat :
        a = Turn(m) /\ b = Turn(j) /\ c = Turn(k) /\ z = AzOf(k) /\ y = AzOf(j) /\ g = q.angle
  <2>1. Turn(m) \in Nat /\ Turn(k) \in Nat /\ AzOf(k) \in Nat /\ q.angle \in Nat BY TurnNext
  <2>2. Turn(j) \in Nat BY TurnNext
  <2>3. AzOf(j) \in Nat BY OneFiring
  <2> QED BY <2>1, <2>2, <2>3
<1>2. /\ a <= c /\ c <= a + 1 /\ b <= c
      /\ Begins(AzOf(m), AzOf(k)) <=> a < c /\ z >= g
      /\ Begins(AzOf(j), AzOf(k)) <=> b < c /\ z >= g
      /\ b = c /\ y < g => z < g
  BY <1>1, TurnNext
<1>3. a <= b /\ (a < b => D >= 1 \/ y < g) BY <1>1, Zenon DEF Behind
<1> QED BY <1>1, <1>2, <1>3

\* Only isNewFrame is fed firing k.
LEMMA BehindOne ==
  ASSUME LidarInv, NEW m \in Nat, NEW j \in Nat, NEW k \in Nat, j <= k, k - j < PerTurn, m <= k, k - m < PerTurn,
         NEW D \in Nat, NEW D2 \in Nat, D2 = D + Counts(Begins(AzOf(j), AzOf(k))), Behind(m, j, D)
  PROVE  Behind(m, k, D2)
<1>1. PICK a \in Nat, b \in Nat, c \in Nat, z \in Nat, y \in Nat, g \in Nat :
        a = Turn(m) /\ b = Turn(j) /\ c = Turn(k) /\ z = AzOf(k) /\ y = AzOf(j) /\ g = q.angle
  <2>1. Turn(m) \in Nat /\ Turn(k) \in Nat /\ AzOf(k) \in Nat /\ q.angle \in Nat BY TurnNext
  <2>2. Turn(j) \in Nat BY TurnNext
  <2>3. AzOf(j) \in Nat BY OneFiring
  <2> QED BY <2>1, <2>2, <2>3
<1>2. /\ a <= c /\ b <= c
      /\ Begins(AzOf(j), AzOf(k)) <=> b < c /\ z >= g
      /\ b = c /\ y < g => z < g
  BY <1>1, TurnNext
<1>3. a <= b /\ (a < b => D >= 1 \/ y < g) BY <1>1, Zenon DEF Behind
<1>4. D2 >= D /\ (Begins(AzOf(j), AzOf(k)) => D2 >= 1) BY DEF Counts
<1>5. a <= c /\ (a < c => D2 >= 1 \/ z < g)
  <2>1. CASE b < c /\ z >= g BY <1>2, <1>4, <2>1
  <2>2. CASE b < c /\ z < g BY <1>2, <2>2
  <2>3. CASE b = c BY <1>2, <1>3, <1>4, <2>3
  <2> QED BY <1>1, <1>2, <2>1, <2>2, <2>3
<1> QED BY <1>1, <1>5, Zenon DEF Behind

-----------------------------------------------------------------------------
(* Inside of a packet *)

\* isNewFrame was last fed firing j, decodeMsopPkt firing m, of the firings up to k, of
\* which "last" is the packet's last; fed and clean say whether they have got that far.
FedTo(j, w, split, fed, first, last, k, jlo) ==
  /\ jlo <= j /\ j <= k /\ w = AzOf(j) /\ (fed => first <= j) /\ (split => Turn(last) <= Turn(j))

DecodedTo(m, v, ret, clean, last, k, lo) ==
  /\ lo <= m /\ m <= k /\ v = AzOf(m) /\ (clean => m = k) /\ (ret => Turn(last) <= Turn(m))

\* After a block, with D frames reported more than begun: neither was fed a block so far;
\* only isNewFrame was, from firing e on; or both were.
Unfed(v, w, ret, split, fed, clean, D) ==
  v = q.angle /\ w = q.angle /\ ~ret /\ ~split /\ ~fed /\ ~clean /\ D = 0

Alone(v, w, ret, split, fed, clean, first, last, k, lo, jlo, D, h) ==
  \E e \in Nat, j \in Nat :
    /\ lo <= e /\ e <= j /\ FedTo(j, w, split, fed, first, last, k, jlo)
    /\ v = q.angle /\ ~ret /\ ~clean /\ D + Turn(e) <= Turn(j) /\ h >= 1

Abreast(v, w, ret, split, fed, clean, first, last, k, lo, jlo, D) ==
  \E m \in Nat, j \in Nat :
    /\ DecodedTo(m, v, ret, clean, last, k, lo) /\ FedTo(j, w, split, fed, first, last, k, jlo)
    /\ Behind(m, j, D)

Together(v, w, ret, split, fed, clean, first, last, k, lo, jlo, D, h) ==
  \/ Unfed(v, w, ret, split, fed, clean, D)
  \/ Alone(v, w, ret, split, fed, clean, first, last, k, lo, jlo, D, h)
  \/ Abreast(v, w, ret, split, fed, clean, first, last, k, lo, jlo, D)

\* The firings of a packet: less than a turn from lo to the last one, and from jlo to the first.
Near(first, last, lo, jlo) ==
  /\ first <= last /\ lo <= first /\ jlo <= first
  /\ last - lo < PerTurn /\ last - first < PerTurn /\ first - jlo < PerTurn

\* Neither looks at the block.
LEMMA TogetherNeither ==
  ASSUME NEW v, NEW w, NEW ret \in BOOLEAN, NEW split \in BOOLEAN, NEW fed \in BOOLEAN, NEW clean \in BOOLEAN,
         NEW first \in Nat, NEW last, NEW c \in Nat, NEW k \in Nat, c <= k, NEW lo, NEW jlo, NEW D, NEW h,
         NEW fed2 \in BOOLEAN, fed2 => fed, NEW clean2 \in BOOLEAN, ~clean2,
         Together(v, w, ret, split, fed, clean, first, last, c, lo, jlo, D, h)
  PROVE  Together(v, w, ret, split, fed2, clean2, first, last, k, lo, jlo, D, h)
<1>0. clean2 = FALSE OBVIOUS
<1>1. CASE Unfed(v, w, ret, split, fed, clean, D)
  BY <1>0, <1>1, Zenon DEF Unfed, Together
<1>4. ASSUME NEW j \in Nat, FedTo(j, w, split, fed, first, last, c, jlo)
      PROVE  FedTo(j, w, split, fed2, first, last, k, jlo)
  <2>1. j <= k BY <1>4 DEF FedTo
  <2> QED BY <1>4, <2>1, Zenon DEF FedTo
<1>2. CASE Alone(v, w, ret, split, fed, clean, first, last, c, lo, jlo, D, h)
  <2>1. PICK e \in Nat, j \in Nat :
          /\ lo <= e /\ e <= j /\ FedTo(j, w, split, fed, first, last, c, jlo)
          /\ v = q.angle /\ ~ret /\ ~clean /\ D + Turn(e) <= Turn(j) /\ h >= 1
    BY <1>2, Zenon DEF Alone
  <2>2. FedTo(j, w, split, fed2, first, last, k, jlo) BY <1>4, <2>1
  <2>3. Alone(v, w, ret, split, fed2, FALSE, first, last, k, lo, jlo, D, h) BY <2>1, <2>2, Zenon DEF Alone
  <2> QED BY <1>0, <2>3, Zenon DEF Together
<1>3. CASE Abreast(v, w, ret, split, fed, clean, first, last, c, lo, jlo, D)
  <2>1. PICK m \in Nat, j \in Nat :
          /\ DecodedTo(m, v, ret, clean, last, c, lo) /\ FedTo(j, w, split, fed, first, last, c, jlo)
          /\ Behind(m, j, D)
    BY <1>3, Zenon DEF Abreast
  <2>2. FedTo(j, w, split, fed2, first, last, k, jlo) BY <1>4, <2>1
  <2>3. m <= k BY <2>1 DEF DecodedTo
  <2>4. DecodedTo(m, v, ret, FALSE, last, k, lo) BY <2>1, <2>3, Zenon DEF DecodedTo
  <2>5. Abreast(v, w, ret, split, fed2, FALSE, first, last, k, lo, jlo, D) BY <2>1, <2>2, <2>4, Zenon DEF Abreast
  <2> QED BY <1>0, <2>5, Zenon DEF Together
<1> QED BY <1>1, <1>2, <1>3, Zenon DEF Together

\* Firing k is the next one, in which isNewFrame, unless it has stopped, missed none.
Ready(v, w, ret, split, fed, clean, first, last, c, k, lo, jlo, D, h) ==
  /\ first \in Nat /\ last \in Nat /\ lo \in Nat /\ jlo \in Nat /\ Near(first, last, lo, jlo)
  /\ ret \in BOOLEAN /\ split \in BOOLEAN /\ fed \in BOOLEAN /\ clean \in BOOLEAN /\ D \in Nat /\ h \in Nat
  /\ c \in Nat /\ k \in Nat /\ c <= k /\ first <= k /\ k <= last /\ (split \/ fed \/ k = first)
  /\ Together(v, w, ret, split, fed, clean, first, last, c, lo, jlo, D, h)

\* It begins a frame there if "split", decodeMsopPkt, if it looks at the block, ends with
\* "ret2".
Feeds(w, k, no, split, fed) ==
  ~no /\ split \in BOOLEAN /\ (split <=> Begins(w, AzOf(k))) /\ fed \in BOOLEAN /\ fed

Reads(v, k, ret, ret2, clean) ==
  clean \in BOOLEAN /\ clean /\ ret2 \in BOOLEAN /\ (ret2 <=> ret \/ Begins(v, AzOf(k)))

ReadsNot(clean) == clean \in BOOLEAN /\ ~clean

\* Only isNewFrame looks at the block: its id is wrong in the second byte.
LEMMA TogetherOne ==
  ASSUME LidarInv, NEW v, NEW w, NEW ret, NEW no, NEW fed, NEW clean, NEW first, NEW last, NEW c, NEW k, NEW lo, NEW jlo,
         NEW D, NEW h, Ready(v, w, ret, no, fed, clean, first, last, c, k, lo, jlo, D, h), h >= 1,
         NEW split, NEW fed2, NEW clean2, Feeds(w, k, no, split, fed2), ReadsNot(clean2)
  PROVE  Together(v, AzOf(k), ret, split, fed2, clean2, first, last, k, lo, jlo, D + Counts(split), h)
<1>0. /\ first \in Nat /\ last \in Nat /\ lo \in Nat /\ jlo \in Nat /\ Near(first, last, lo, jlo)
      /\ ret \in BOOLEAN /\ fed \in BOOLEAN /\ clean \in BOOLEAN /\ D \in Nat /\ h \in Nat
      /\ c \in Nat /\ k \in Nat /\ c <= k /\ first <= k /\ k <= last /\ (fed \/ k = first)
      /\ split \in BOOLEAN /\ (split <=> Begins(w, AzOf(k)))
  BY Zenon DEF Ready, Feeds
<1> USE <1>0
<1>10. no = FALSE /\ fed2 = TRUE /\ clean2 = FALSE
  <2>1. no \in BOOLEAN /\ ~no /\ fed2 \in BOOLEAN /\ fed2 /\ clean2 \in BOOLEAN /\ ~clean2
    BY Zenon DEF Ready, Feeds, ReadsNot
  <2> QED BY <2>1
<1>11. PICK D2 \in Nat : D2 = D + Counts(split) BY DEF Counts
<1> SUFFICES Together(v, AzOf(k), ret, split, TRUE, FALSE, first, last, k, lo, jlo, D2, h) BY <1>10, <1>11, Zenon
<1> USE <1>11
<1>9. Together(v, w, ret, FALSE, fed, clean, first, last, c, lo, jlo, D, h) BY <1>10, Zenon DEF Ready
<1>1. PICK P \in Nat : P = PerTurn BY Geometry
<1>2. /\ last - lo < P /\ lo <= first /\ last - first < P /\ jlo <= first /\ first - jlo < P BY <1>1 DEF Near
<1>3. AzOf(k) \in Nat BY OneFiring
<1>4. D2 = D + Counts(Begins(w, AzOf(k))) BY DEF Counts
<1>5. jlo <= k /\ k <= k BY <1>2
<1>6. CASE Unfed(v, w, ret, FALSE, fed, clean, D)
  <2>1. ~split /\ v = q.angle /\ ~ret /\ D = 0 BY <1>3, <1>6, NotFirst, Zenon DEF Unfed
  <2>2. D2 = 0 BY <2>1 DEF Counts
  <2>3. FedTo(k, AzOf(k), split, TRUE, first, last, k, jlo) BY <1>5, <2>1, Zenon DEF FedTo
  <2>4. Turn(k) \in Nat BY <1>1, <1>2, TurnNext
  <2>5. D2 + Turn(k) <= Turn(k) /\ lo <= k BY <1>2, <2>2, <2>4
  <2>6. Alone(v, AzOf(k), ret, split, TRUE, FALSE, first, last, k, lo, jlo, D2, h)
    BY <1>5, <2>1, <2>3, <2>5, Zenon DEF Alone
  <2> QED BY <2>6, Zenon DEF Together
<1>7. CASE Alone(v, w, ret, FALSE, fed, clean, first, last, c, lo, jlo, D, h)
  <2>1. PICK e \in Nat, j \in Nat :
          /\ lo <= e /\ e <= j /\ FedTo(j, w, FALSE, fed, first, last, c, jlo)
          /\ v = q.angle /\ ~ret /\ ~clean /\ D + Turn(e) <= Turn(j) /\ h >= 1
    BY <1>7, Zenon DEF Alone
  <2>2. j <= k /\ k - j < P
    <3>1. j <= c /\ jlo <= j /\ (fed => first <= j) BY <2>1, Zenon DEF FedTo
    <3> QED BY <1>1, <1>2, <3>1
  <2>3. w = AzOf(j) BY <2>1, Zenon DEF FedTo
  <2>4. e <= k /\ e <= last /\ last - e < P /\ last - k < P BY <1>1, <1>2, <2>1, <2>2
  <2>5. /\ Turn(j) \in Nat /\ Turn(k) \in Nat /\ Turn(j) <= Turn(k)
        /\ Begins(AzOf(j), AzOf(k)) <=> Turn(j) < Turn(k) /\ AzOf(k) >= q.angle
    BY <1>1, <2>2, TurnNext
  <2>6. Turn(e) \in Nat /\ Turn(last) \in Nat /\ Turn(last) <= Turn(e) + 1 BY <1>1, <2>4, TurnNext
  <2>7. Turn(e) <= Turn(j)
    <3>1. PICK x \in Nat, y \in Nat : x = Turn(e) /\ y = Turn(j) BY <2>5, <2>6
    <3> QED BY <2>1, <3>1
  <2>8. split => Turn(j) < Turn(k) BY <2>3, <2>5, Zenon
  <2>9. (split => Turn(last) <= Turn(k)) /\ D2 + Turn(e) <= Turn(k)
    <3>1. PICK x \in Nat, y \in Nat, z \in Nat, l \in Nat : x = Turn(e) /\ y = Turn(j) /\ z = Turn(k) /\ l = Turn(last)
      BY <2>5, <2>6
    <3>2. x <= y /\ y <= z /\ l <= x + 1 /\ (split => y < z) /\ D + x <= y BY <2>1, <2>5, <2>6, <2>7, <2>8, <3>1, Zenon
    <3>3. D2 = (IF split THEN D + 1 ELSE D) BY DEF Counts
    <3>4. (split => l <= z) /\ D2 + x <= z BY <3>2, <3>3
    <3> QED BY <3>1, <3>4, Zenon
  <2>10. FedTo(k, AzOf(k), split, TRUE, first, last, k, jlo) BY <1>5, <2>9, Zenon DEF FedTo
  <2>11. Alone(v, AzOf(k), ret, split, TRUE, FALSE, first, last, k, lo, jlo, D2, h)
    BY <2>1, <2>4, <2>9, <2>10, Zenon DEF Alone
  <2> QED BY <2>11, Zenon DEF Together
<1>8. CASE Abreast(v, w, ret, FALSE, fed, clean, first, last, c, lo, jlo, D)
  <2>1. PICK m \in Nat, j \in Nat :
          /\ DecodedTo(m, v, ret, clean, last, c, lo) /\ FedTo(j, w, FALSE, fed, first, last, c, jlo)
          /\ Behind(m, j, D)
    BY <1>8, Zenon DEF Abreast
  <2>2. j <= k /\ k - j < P
    <3>1. j <= c /\ jlo <= j /\ (fed => first <= j) BY <2>1, Zenon DEF FedTo
    <3> QED BY <1>1, <1>2, <3>1
  <2>3. w = AzOf(j) BY <2>1, Zenon DEF FedTo
  <2>4. m <= c /\ lo <= m /\ (ret => Turn(last) <= Turn(m)) /\ v = AzOf(m) BY <2>1, Zenon DEF DecodedTo
  <2>5. m <= k /\ k - m < P /\ m <= last /\ last - m < P BY <1>1, <1>2, <2>4
  <2>6. Behind(m, k, D2) BY <1>1, <1>4, <2>1, <2>2, <2>3, <2>5, BehindOne
  <2>7. split => Turn(last) <= Turn(k)
    <3>1. PICK x \in Nat, y \in Nat, z \in Nat, l \in Nat : x = Turn(m) /\ y = Turn(j) /\ z = Turn(k) /\ l = Turn(last)
      BY <1>1, <2>2, <2>5, TurnNext
    <3>2. l <= x + 1 BY <1>1, <2>5, <3>1, TurnNext
    <3>3. split => y < z BY <1>1, <2>2, <2>3, <3>1, TurnNext
    <3>4. x <= y BY <2>1, <3>1, Zenon DEF Behind
    <3>5. split => l <= z BY <3>2, <3>3, <3>4
    <3> QED BY <3>1, <3>5, Zenon
  <2>8. FedTo(k, AzOf(k), split, TRUE, first, last, k, jlo) BY <1>5, <2>7, Zenon DEF FedTo
  <2>9. DecodedTo(m, v, ret, FALSE, last, k, lo) BY <2>4, <2>5, Zenon DEF DecodedTo
  <2>10. Abreast(v, AzOf(k), ret, split, TRUE, FALSE, first, last, k, lo, jlo, D2) BY <2>6, <2>8, <2>9, Zenon DEF Abreast
  <2> QED BY <2>10, Zenon DEF Together
<1> QED BY <1>6, <1>7, <1>8, <1>9, Zenon DEF Together

\* Only decodeMsopPkt looks at the block: isNewFrame has stopped at the frame it reported.
LEMMA TogetherDecoded ==
  ASSUME LidarInv, NEW v, NEW w, NEW ret, NEW split, NEW fed, NEW clean, NEW first, NEW last, NEW c, NEW k, NEW lo, NEW jlo,
         NEW D, NEW h, Ready(v, w, ret, split, fed, clean, first, last, c, k, lo, jlo, D, h), split, fed, clean
  PROVE  /\ ~Begins(v, AzOf(k))
         /\ Together(AzOf(k), w, ret, split, fed, clean, first, last, k, lo, jlo, D, h)
<1>0. /\ first \in Nat /\ last \in Nat /\ lo \in Nat /\ jlo \in Nat /\ Near(first, last, lo, jlo)
      /\ ret \in BOOLEAN /\ D \in Nat /\ h \in Nat /\ c \in Nat /\ k \in Nat /\ c <= k /\ k <= last
  BY Zenon DEF Ready
<1> USE <1>0
<1>16. split = TRUE /\ fed = TRUE /\ clean = TRUE
  <2>1. split \in BOOLEAN /\ fed \in BOOLEAN /\ clean \in BOOLEAN BY Zenon DEF Ready
  <2> QED BY <2>1
<1> SUFFICES /\ ~Begins(v, AzOf(k))
             /\ Together(AzOf(k), w, ret, TRUE, TRUE, TRUE, first, last, k, lo, jlo, D, h)
  BY <1>16, Zenon
<1>1. PICK P \in Nat : P = PerTurn BY Geometry
<1>2. /\ last - lo < P /\ lo <= first BY <1>1 DEF Near
<1>3. Abreast(v, w, ret, TRUE, TRUE, TRUE, first, last, c, lo, jlo, D)
  <2>1. Together(v, w, ret, TRUE, TRUE, TRUE, first, last, c, lo, jlo, D, h) BY <1>16, Zenon DEF Ready
  <2> QED BY <2>1, Zenon DEF Together, Unfed, Alone
<1>4. PICK m \in Nat, j \in Nat :
        /\ DecodedTo(m, v, ret, TRUE, last, c, lo) /\ FedTo(j, w, TRUE, TRUE, first, last, c, jlo)
        /\ Behind(m, j, D)
  BY <1>3, Zenon DEF Abreast
<1>5. m = c /\ lo <= m /\ v = AzOf(m) /\ (ret => Turn(last) <= Turn(m)) BY <1>4, Zenon DEF DecodedTo
<1>6. j <= c /\ jlo <= j /\ first <= j /\ w = AzOf(j) /\ Turn(last) <= Turn(j) BY <1>4, Zenon DEF FedTo
<1>7. /\ j <= m /\ m - j < P /\ m <= k /\ k - m < P /\ last - k < P /\ lo <= k /\ j <= k
  BY <1>2, <1>5, <1>6
<1>8. PICK x \in Nat, y \in Nat, z \in Nat, l \in Nat :
        /\ x = Turn(m) /\ y = Turn(j) /\ z = Turn(k) /\ l = Turn(last) /\ y <= x /\ x <= z /\ z <= l
        /\ Begins(AzOf(m), AzOf(k)) => x < z
  <2>1. /\ Turn(m) \in Nat /\ Turn(k) \in Nat /\ Turn(m) <= Turn(k)
        /\ Begins(AzOf(m), AzOf(k)) => Turn(m) < Turn(k)
    BY <1>1, <1>7, TurnNext
  <2>2. Turn(j) \in Nat /\ Turn(j) <= Turn(m) BY <1>1, <1>7, TurnNext
  <2>3. Turn(last) \in Nat /\ Turn(k) <= Turn(last) BY <1>1, <1>7, TurnNext
  <2> QED BY <2>1, <2>2, <2>3
<1>9. l <= y BY <1>6, <1>8, Zenon
<1>10. x = y /\ y = z /\ z = l BY <1>8, <1>9
<1>11. ~Begins(v, AzOf(k)) BY <1>5, <1>8, <1>10
<1>12. Behind(k, j, D)
  <2>1. Turn(k) <= Turn(j) /\ ~(Turn(k) < Turn(j)) BY <1>8, <1>10
  <2> QED BY <2>1, Zenon DEF Behind
<1>13. DecodedTo(k, AzOf(k), ret, TRUE, last, k, lo)
  <2>1. Turn(last) <= Turn(k) /\ k <= k BY <1>8, <1>10
  <2> QED BY <1>7, <2>1, Zenon DEF DecodedTo
<1>14. FedTo(j, w, TRUE, TRUE, first, last, k, jlo) BY <1>6, <1>7, Zenon DEF FedTo
<1>15. Abreast(AzOf(k), w, ret, TRUE, TRUE, TRUE, first, last, k, lo, jlo, D) BY <1>12, <1>13, <1>14, Zenon DEF Abreast
<1> QED BY <1>11, <1>15, Zenon DEF Together

\* Both look at the block.
LEMMA TogetherBoth ==
  ASSUME LidarInv, NEW v, NEW w, NEW ret, NEW no, NEW fed, NEW clean, NEW first, NEW last, NEW c, NEW k, NEW lo, NEW jlo,
         NEW D, NEW h, Ready(v, w, ret, no, fed, clean, first, last, c, k, lo, jlo, D, h),
         NEW split, NEW fed2, NEW clean2, Feeds(w, k, no, split, fed2), NEW ret2, Reads(v, k, ret, ret2, clean2)
  PROVE  \E D2 \in Nat : /\ D2 + Counts(ret2) = D + Counts(split) + Counts(ret)
                         /\ D2 <= D \/ D2 <= h
                         /\ Together(AzOf(k), AzOf(k), ret2, split, fed2, clean2, first, last, k, lo, jlo, D2, h)
<1>0. /\ first \in Nat /\ last \in Nat /\ lo \in Nat /\ jlo \in Nat /\ Near(first, last, lo, jlo)
      /\ ret \in BOOLEAN /\ fed \in BOOLEAN /\ clean \in BOOLEAN /\ D \in Nat /\ h \in Nat
      /\ c \in Nat /\ k \in Nat /\ c <= k /\ first <= k /\ k <= last /\ (fed \/ k = first)
      /\ split \in BOOLEAN /\ (split <=> Begins(w, AzOf(k)))
      /\ ret2 \in BOOLEAN /\ (ret2 <=> ret \/ Begins(v, AzOf(k)))
  BY Zenon DEF Ready, Feeds, Reads
<1> USE <1>0
<1>10. no = FALSE /\ fed2 = TRUE /\ clean2 = TRUE
  <2>1. no \in BOOLEAN /\ ~no /\ fed2 \in BOOLEAN /\ fed2 /\ clean2 \in BOOLEAN /\ clean2
    BY Zenon DEF Ready, Feeds, Reads
  <2> QED BY <2>1
<1> SUFFICES \E D2 \in Nat : /\ D2 + Counts(ret2) = D + Counts(split) + Counts(ret)
                             /\ D2 <= D \/ D2 <= h
                             /\ Together(AzOf(k), AzOf(k), ret2, split, TRUE, TRUE, first, last, k, lo, jlo, D2, h)
  BY <1>10, Zenon
<1>9. Together(v, w, ret, FALSE, fed, clean, first, last, c, lo, jlo, D, h) BY <1>10, Zenon DEF Ready
<1>1. PICK P \in Nat : P = PerTurn BY Geometry
<1>2. /\ last - lo < P /\ lo <= first /\ last - first < P /\ jlo <= first /\ first - jlo < P BY <1>1 DEF Near
<1>3. AzOf(k) \in Nat BY OneFiring
<1>4. jlo <= k /\ k <= k /\ lo <= k BY <1>2
<1>5. ASSUME NEW D2 \in Nat, split => Turn(last) <= Turn(k), ret2 => Turn(last) <= Turn(k)
      PROVE  Together(AzOf(k), AzOf(k), ret2, split, TRUE, TRUE, first, last, k, lo, jlo, D2, h)
  <2>1. FedTo(k, AzOf(k), split, TRUE, first, last, k, jlo) BY <1>4, <1>5, Zenon DEF FedTo
  <2>2. DecodedTo(k, AzOf(k), ret2, TRUE, last, k, lo) BY <1>4, <1>5, Zenon DEF DecodedTo
  <2>3. Turn(k) \in Nat BY <1>1, <1>2, TurnNext
  <2>4. Turn(k) <= Turn(k) /\ ~(Turn(k) < Turn(k)) BY <2>3
  <2>5. Behind(k, k, D2) BY <2>4, Zenon DEF Behind
  <2>6. Abreast(AzOf(k), AzOf(k), ret2, split, TRUE, TRUE, first, last, k, lo, jlo, D2)
    BY <2>1, <2>2, <2>5, Zenon DEF Abreast
  <2> QED BY <2>6, Zenon DEF Together
<1>6. CASE Unfed(v, w, ret, FALSE, fed, clean, D)
  <2>1. ~split /\ ~ret /\ ~ret2 /\ D = 0 BY <1>3, <1>6, NotFirst, Zenon DEF Unfed
  <2>2. Counts(split) = 0 /\ Counts(ret) = 0 /\ Counts(ret2) = 0 BY <2>1 DEF Counts
  <2>3. D + Counts(ret2) = D + Counts(split) + Counts(ret) /\ D <= D BY <2>2
  <2>4. Together(AzOf(k), AzOf(k), ret2, split, TRUE, TRUE, first, last, k, lo, jlo, D, h) BY <1>5, <2>1
  <2> QED BY <2>3, <2>4
<1>7. CASE Alone(v, w, ret, FALSE, fed, clean, first, last, c, lo, jlo, D, h)
  <2>1. PICK e \in Nat, j \in Nat :
          /\ lo <= e /\ e <= j /\ FedTo(j, w, FALSE, fed, first, last, c, jlo)
          /\ v = q.angle /\ ~ret /\ ~clean /\ D + Turn(e) <= Turn(j) /\ h >= 1
    BY <1>7, Zenon DEF Alone
  <2>2. j <= k /\ k - j < P
    <3>1. j <= c /\ jlo <= j /\ (fed => first <= j) BY <2>1, Zenon DEF FedTo
    <3> QED BY <1>1, <1>2, <3>1
  <2>3. w = AzOf(j) BY <2>1, Zenon DEF FedTo
  <2>4. e <= k /\ k - e < P /\ e <= last /\ last - e < P BY <1>1, <1>2, <2>1, <2>2
  <2>5. ~ret2 /\ ~ret BY <1>3, <2>1, NotFirst
  <2>6. PICK x \in Nat, y \in Nat, z \in Nat, l \in Nat :
          /\ x = Turn(e) /\ y = Turn(j) /\ z = Turn(k) /\ l = Turn(last) /\ y <= z /\ z <= x + 1 /\ l <= x + 1
          /\ Begins(AzOf(j), AzOf(k)) => y < z
    BY <1>1, <2>2, <2>4, TurnNext
  <2>7. (split => y < z) /\ D + x <= y BY <2>1, <2>3, <2>6, Zenon
  <2>8. PICK D2 \in Nat : D2 = (IF split THEN D + 1 ELSE D) OBVIOUS
  <2>9. D2 <= h BY <2>1, <2>6, <2>7, <2>8
  <2>10. split => l <= z BY <2>6, <2>7
  <2>11. Together(AzOf(k), AzOf(k), ret2, split, TRUE, TRUE, first, last, k, lo, jlo, D2, h)
    BY <1>5, <2>5, <2>6, <2>10
  <2>12. D2 + Counts(ret2) = D + Counts(split) + Counts(ret) BY <2>5, <2>8 DEF Counts
  <2> QED BY <2>9, <2>11, <2>12
<1>8. CASE Abreast(v, w, ret, FALSE, fed, clean, first, last, c, lo, jlo, D)
  <2>1. PICK m \in Nat, j \in Nat :
          /\ DecodedTo(m, v, ret, clean, last, c, lo) /\ FedTo(j, w, FALSE, fed, first, last, c, jlo)
          /\ Behind(m, j, D)
    BY <1>8, Zenon DEF Abreast
  <2>2. j <= k /\ k - j < P
    <3>1. j <= c /\ jlo <= j /\ (fed => first <= j) BY <2>1, Zenon DEF FedTo
    <3> QED BY <1>1, <1>2, <3>1
  <2>3. w = AzOf(j) BY <2>1, Zenon DEF FedTo
  <2>4. m <= c /\ lo <= m /\ (ret => Turn(last) <= Turn(m)) /\ v = AzOf(m) BY <2>1, Zenon DEF DecodedTo
  <2>5. m <= k /\ k - m < P /\ m <= last /\ last - m < P /\ last - k < P BY <1>1, <1>2, <2>4
  <2>6. PICK x \in Nat, z \in Nat, l \in Nat :
          /\ x = Turn(m) /\ z = Turn(k) /\ l = Turn(last) /\ x <= z /\ z <= l /\ l <= x + 1
          /\ Begins(AzOf(m), AzOf(k)) => x < z
    BY <1>1, <2>5, TurnNext
  <2>7. (split => Begins(v, AzOf(k))) /\ (Begins(v, AzOf(k)) /\ ~split => D >= 1)
    BY <1>1, <2>1, <2>2, <2>3, <2>4, <2>5, BehindBoth
  <2>8. Begins(v, AzOf(k)) => x < z BY <2>4, <2>6, Zenon
  <2>9. (ret => l <= x) /\ (ret => ~Begins(v, AzOf(k))) 
    <3>1. ret => l <= x BY <2>4, <2>6, Zenon
    <3>2. ret => ~(x < z) BY <2>6, <3>1
    <3> QED BY <2>8, <3>1, <3>2, Zenon
  <2>10. (split => l <= z) /\ (ret2 => l <= z)
    <3>1. Begins(v, AzOf(k)) => l <= z BY <2>6, <2>8
    <3>2. ret => l <= z BY <2>6, <2>9
    <3> QED BY <2>7, <3>1, <3>2, Zenon
  <2>11. PICK s \in BOOLEAN, b \in BOOLEAN : s = split /\ (b <=> Begins(v, AzOf(k))) OBVIOUS
  <2>12. (s => b) /\ (b /\ ~s => D >= 1) /\ (ret => ~b) /\ (ret2 <=> ret \/ b) BY <2>7, <2>9, <2>11, Zenon
  <2>13. PICK D2 \in Nat : D2 = (IF b /\ ~s THEN D - 1 ELSE D) BY <2>12
  <2>14. D2 + Counts(ret2) = D + Counts(s) + Counts(ret)
    <3>1. Counts(s) = (IF s THEN 1 ELSE 0) /\ Counts(ret) = (IF ret THEN 1 ELSE 0) /\ Counts(ret2) = (IF ret2 THEN 1 ELSE 0)
      BY Zenon DEF Counts
    <3>2. CASE b BY <2>12, <2>13, <3>1, <3>2
    <3>3. CASE ~b BY <2>12, <2>13, <3>1, <3>3
    <3> QED BY <3>2, <3>3
  <2>15. D2 <= D BY <2>12, <2>13
  <2>16. Together(AzOf(k), AzOf(k), ret2, split, TRUE, TRUE, first, last, k, lo, jlo, D2, h) BY <1>5, <2>6, <2>10
  <2> QED BY <2>11, <2>14, <2>15, <2>16
<1> QED BY <1>6, <1>7, <1>8, <1>9, Zenon DEF Together

\* The firings of a packet are in the order of its blocks.
LEMMA FiringsGrow ==
  ASSUME LidarInv, NEW b \in 1..Const.blocks
  PROVE  FiringOf(b) \in Nat /\ FiringOf(Const.blocks) \in Nat /\ FiringOf(b) <= FiringOf(Const.blocks)
<1>1. PICK N \in Nat \ {0} : N = Const.blocks BY Configured, LidarConst
<1>2. \A c \in 1..N : FiringOf(c) \in Nat /\ FiringOf(c + 1) \in Nat /\ FiringOf(c) <= FiringOf(c + 1) BY <1>1, FiringNext
<1> DEFINE S == {m \in Nat : m <= N - 1 => FiringOf(N - m) <= FiringOf(N)}
<1>3. 0 \in S
  <2>1. N \in 1..N /\ N - 0 = N BY <1>1
  <2>2. FiringOf(N) <= FiringOf(N) BY <1>2, <2>1
  <2>3. FiringOf(N - 0) <= FiringOf(N) BY <2>1, <2>2, Zenon
  <2> QED BY <2>3
<1>4. ASSUME NEW m \in 1..(N - 1), m - 1 \in S PROVE m \in S
  <2>1. PICK i \in 1..N, j \in 1..N : i = N - m /\ j = N - (m - 1) /\ i + 1 = j BY <1>1, <1>4
  <2>2. FiringOf(j) <= FiringOf(N)
    <3>1. m - 1 <= N - 1 BY <1>1, <1>4
    <3>2. FiringOf(N - (m - 1)) <= FiringOf(N) BY <1>4, <3>1
    <3> QED BY <2>1, <3>2
  <2>3. FiringOf(i) <= FiringOf(j)
    <3>1. FiringOf(i) <= FiringOf(i + 1) BY <1>2, <2>1
    <3> QED BY <2>1, <3>1
  <2>4. FiringOf(i) \in Nat /\ FiringOf(j) \in Nat /\ FiringOf(N) \in Nat BY <1>1, <1>2, <2>1
  <2>5. FiringOf(i) <= FiringOf(N)
    <3>1. PICK u \in Nat, v \in Nat, w \in Nat : u = FiringOf(i) /\ v = FiringOf(j) /\ w = FiringOf(N) BY <2>4
    <3>2. u <= v /\ v <= w BY <2>2, <2>3, <3>1
    <3> QED BY <3>1, <3>2
  <2>6. FiringOf(N - m) <= FiringOf(N) BY <2>1, <2>5
  <2> QED BY <1>4, <2>6
<1>5. \A m \in 0..(N - 1) : m \in S
  <2>1. PICK M \in Nat : M = N - 1 BY <1>1
  <2>2. \A m \in 1..M : m - 1 \in S => m \in S
    <3> HIDE DEF S
    <3> QED BY <1>4, <2>1
  <2> HIDE DEF S
  <2> QED BY <1>3, <2>1, <2>2, BlockInduction
<1>6. PICK m \in 0..(N - 1) : N - m = b
  <2>1. N - b \in 0..(N - 1) /\ N - (N - b) = b BY <1>1
  <2> QED BY <2>1
<1>7. FiringOf(N - m) <= FiringOf(N) BY <1>5, <1>6
<1> QED BY <1>1, <1>2, <1>6, <1>7

\* The firing that block b of a packet from firing "first" on is of; a block is looked at
\* if it and those before have a good id.
At(first, b) == IF b = 0 THEN first ELSE first + FiringOf(b)

Looked(b, wrong) == b # 0 /\ ~\E c \in wrong : c <= b

\* Frame x of decodeMsopPkt and splitter y of isNewFrame after b blocks: x stops at those
\* of bad, y at those of sn.
InStep(x, y, b, first, bad, sn, lo, jlo, D0, h) ==
  /\ y.sp \in [prev : Nat, blks : Nat] /\ (b = 0 => ~y.split)
  /\ x.err = "none" <=> ~\E c \in bad : c <= b
  /\ \E D \in Nat, split \in BOOLEAN, fed \in BOOLEAN, clean \in BOOLEAN :
       /\ (split <=> y.split) /\ (fed <=> Looked(b, sn)) /\ (clean <=> Looked(b, bad))
       /\ D + Counts(x.ret) = D0 + Counts(split) /\ (sn = bad => D <= h)
       /\ Together(x.sp.prev, y.sp.prev, x.ret, split, fed, clean, first, At(first, Const.blocks), At(first, b),
                   lo, jlo, D, h)

\* isNewFrame goes on from s to t at block b.
FedNext(s, t, b, first, sn) ==
  IF s.split \/ (\E c \in sn : c <= b) THEN t = s
  ELSE /\ t.sp \in [prev : Nat, blks : Nat] /\ t.sp.prev = AzOf(At(first, b))
       /\ t.split <=> Begins(s.sp.prev, AzOf(At(first, b)))

LEMMA AtNext ==
  ASSUME LidarInv, NEW first \in Nat, NEW b \in 1..Const.blocks
  PROVE  /\ At(first, b - 1) \in Nat /\ At(first, b) \in Nat /\ At(first, Const.blocks) \in Nat
         /\ At(first, b - 1) <= At(first, b) /\ first <= At(first, b) /\ At(first, b) <= At(first, Const.blocks)
         /\ (b - 1 = 0 => At(first, b) = first) /\ At(first, b) = first + FiringOf(b)
         /\ At(first, Const.blocks) = first + FiringOf(Const.blocks)
<1>1. PICK N \in Nat \ {0} : N = Const.blocks BY Configured, LidarConst
<1>2. FiringOf(b) \in Nat /\ FiringOf(N) \in Nat /\ FiringOf(b) <= FiringOf(N) /\ (b = 1 => FiringOf(b) = 0)
  BY <1>1, FiringsGrow, FiringNext
<1>3. At(first, b) = first + FiringOf(b) /\ At(first, N) = first + FiringOf(N) BY <1>1 DEF At
<1>4. CASE b = 1
  <2>1. At(first, b - 1) = first BY <1>4 DEF At
  <2> QED BY <1>1, <1>2, <1>3, <1>4, <2>1
<1>5. CASE b # 1
  <2>1. PICK c \in 1..N : c = b - 1 /\ c + 1 = b /\ c # 0 BY <1>1, <1>5
  <2>2. FiringOf(c) \in Nat /\ FiringOf(c) <= FiringOf(c + 1) BY <1>1, <2>1, FiringNext
  <2>3. At(first, c) = first + FiringOf(c) BY <2>1 DEF At
  <2>4. FiringOf(c) <= FiringOf(b) BY <2>1, <2>2
  <2> QED BY <1>1, <1>2, <1>3, <1>5, <2>1, <2>2, <2>3, <2>4
<1> QED BY <1>4, <1>5

\* Whether a block is looked at, after the one before.
LEMMA LookedNext ==
  ASSUME NEW b \in Nat, NEW c \in Nat, c = b - 1, NEW wrong \in SUBSET Nat, ~\E i \in wrong : i <= b
  PROVE  Looked(b, wrong) /\ (c # 0 => Looked(c, wrong))
<1>1. b # 0 BY DEF Looked
<1>2. ~\E i \in wrong : i <= c
  <2>1. \A i \in wrong : i \in Nat OBVIOUS
  <2> QED BY <2>1
<1> QED BY <1>1, <1>2, Zenon DEF Looked

\* One block more.
LEMMA InStepNext ==
  ASSUME LidarInv, q.mode = "ANGLE", NEW first \in Nat, NEW bad \in SUBSET (1..Const.blocks), NEW sn \in SUBSET bad,
         NEW lo \in Nat, NEW jlo \in Nat, Near(first, At(first, Const.blocks), lo, jlo),
         NEW D0 \in Nat, NEW h \in Nat, sn # bad => h >= 1,
         NEW b \in 1..Const.blocks, NEW c \in Nat, c = b - 1, NEW x \in Frame, NEW z \in Frame, NEW kn, NEW off,
         BlockOutcome(x, z, b, first, bad, off, kn), NEW s, NEW t, FedNext(s, t, b, first, sn),
         InStep(x, s, c, first, bad, sn, lo, jlo, D0, h)
  PROVE  InStep(z, t, b, first, bad, sn, lo, jlo, D0, h)
<1>1. PICK D \in Nat, split \in BOOLEAN, fed \in BOOLEAN, clean \in BOOLEAN :
        /\ (split <=> s.split) /\ (fed <=> Looked(c, sn)) /\ (clean <=> Looked(c, bad))
        /\ D + Counts(x.ret) = D0 + Counts(split) /\ (sn = bad => D <= h)
        /\ Together(x.sp.prev, s.sp.prev, x.ret, split, fed, clean, first, At(first, Const.blocks), At(first, c),
                    lo, jlo, D, h)
  BY Zenon DEF InStep
<1>2. PICK k \in Nat, a \in Nat, last \in Nat :
        /\ k = At(first, b) /\ a = At(first, c) /\ last = At(first, Const.blocks) /\ k = first + FiringOf(b)
        /\ a <= k /\ first <= k /\ k <= last /\ (c = 0 => k = first)
  BY AtNext
<1>3. b \in Nat /\ b # 0 /\ bad \in SUBSET Nat /\ sn \in SUBSET Nat
  <2>1. Const.blocks \in Nat BY Configured, LidarConst
  <2> QED BY <2>1
<1>4. x.ret \in BOOLEAN /\ z.ret \in BOOLEAN BY DEF Frame
<1>5. PICK looks \in BOOLEAN, reads \in BOOLEAN :
        (looks <=> ~split /\ ~\E i \in sn : i <= b) /\ (reads <=> ~\E i \in bad : i <= b)
  OBVIOUS
<1>6. /\ s.sp \in [prev : Nat, blks : Nat] /\ (c = 0 => ~s.split) /\ (x.err = "none" <=> ~\E i \in bad : i <= c)
  BY Zenon DEF InStep
<1>7. /\ z.err = "none" <=> reads
      /\ ~reads => z.sp = x.sp /\ (z.ret <=> x.ret)
      /\ reads => BlockStep(x, z, Height, first, k, off[b], kn)
  <2>1. CASE reads
    <3>1. b \notin bad /\ ~\E i \in bad : i <= c
      <4>1. ~\E i \in bad : i <= b BY <1>5, <2>1
      <4>2. \A i \in bad : i \in Nat BY <1>3
      <4> QED BY <1>3, <4>1, <4>2
    <3>2. x.err = "none" BY <1>6, <3>1, Zenon
    <3>3. BlockStep(x, z, Height, first, k, off[b], kn) BY <1>2, <3>1, <3>2, Zenon DEF BlockOutcome
    <3>4. z.err = x.err BY <3>3, Zenon DEF BlockStep
    <3> QED BY <2>1, <3>2, <3>3, <3>4, Zenon
  <2>2. CASE ~reads
    <3>1. CASE x.err # "none" /\ z = x BY <2>2, <3>1, Zenon
    <3>2. CASE \E err \in Errors \ {"none"} : z = [x EXCEPT !.err = err]
      <4>1. z.sp = x.sp /\ (z.ret <=> x.ret) /\ z.err # "none" BY <3>2 DEF Frame
      <4> QED BY <2>2, <4>1, Zenon
    <3>3. CASE x.err = "none" /\ b \notin bad
      <4>1. ~ \E i \in bad : i <= c BY <1>6, <3>3, Zenon
      <4>2. PICK i \in bad : i <= b BY <1>5, <2>2
      <4>3. i \in Nat /\ i # b BY <1>3, <3>3, <4>2
      <4>4. i <= c BY <1>3, <4>2, <4>3
      <4> QED BY <4>1, <4>4
    <3> QED BY <3>1, <3>2, <3>3, Zenon DEF BlockOutcome
  <2> QED BY <2>1, <2>2
<1>8. reads => /\ z.sp.prev = AzOf(k)
               /\ (z.ret <=> x.ret \/ Begins(x.sp.prev, AzOf(k)))
  <2>1. SUFFICES ASSUME reads
                 PROVE  z.sp.prev = AzOf(k) /\ (z.ret <=> x.ret \/ Begins(x.sp.prev, AzOf(k)))
    OBVIOUS
  <2>2. BlockStep(x, z, Height, first, k, off[b], kn) BY <1>7, <2>1
  <2>3. /\ z.sp.prev = AzOf(k)
        /\ \/ ~Begins(x.sp.prev, AzOf(k)) /\ z.ret = x.ret
           \/ Begins(x.sp.prev, AzOf(k)) /\ z.ret = TRUE
    BY <2>2, Zenon DEF BlockStep
  <2> QED BY <1>4, <2>3
<1>9. /\ ~looks => /\ t.sp = s.sp /\ (t.split <=> split)
      /\ looks => /\ t.sp \in [prev : Nat, blks : Nat] /\ t.sp.prev = AzOf(k)
                  /\ t.split <=> Begins(s.sp.prev, AzOf(k))
  BY <1>1, <1>2, <1>5, Zenon DEF FedNext
<1>10. t.sp \in [prev : Nat, blks : Nat] BY <1>6, <1>9
<1>11. PICK split2 \in BOOLEAN, fed2 \in BOOLEAN, clean2 \in BOOLEAN :
         (split2 <=> t.split) /\ (fed2 <=> Looked(b, sn)) /\ (clean2 <=> Looked(b, bad))
  OBVIOUS
<1>24. PICK v, w : v = x.sp.prev /\ w = s.sp.prev OBVIOUS
<1>25. PICK ret \in BOOLEAN, ret2 \in BOOLEAN : ret = x.ret /\ ret2 = z.ret BY <1>4
<1>12. v = x.sp.prev /\ w = s.sp.prev /\ ret = x.ret /\ ret2 = z.ret BY <1>24, <1>25
<1>13. Together(v, w, ret, split, fed, clean, first, last, a, lo, jlo, D, h) BY <1>1, <1>2, <1>12, Zenon
<1>14. D + Counts(ret) = D0 + Counts(split) /\ (sn = bad => D <= h) BY <1>1, <1>12, Zenon
<1>15. /\ clean2 <=> reads
       /\ reads => ~\E i \in sn : i <= b
       /\ fed2 <=> ~\E i \in sn : i <= b
  <2>1. reads => ~\E i \in sn : i <= b
    <3>1. \A i \in sn : i \in bad OBVIOUS
    <3> QED BY <1>5, <3>1, Zenon
  <2> QED BY <1>3, <1>5, <1>11, <2>1, Zenon DEF Looked
<1>16. ASSUME ~\E i \in sn : i <= b
       PROVE  c # 0 => fed
  BY <1>1, <1>3, <1>16, LookedNext
<1>17. reads /\ c # 0 => clean
  <2>1. SUFFICES ASSUME reads PROVE c # 0 => clean OBVIOUS
  <2>2. ~\E i \in bad : i <= b BY <1>5, <2>1
  <2> QED BY <1>1, <1>3, <2>2, LookedNext
<1>18. ASSUME NEW D2 \in Nat, NEW v2, NEW w2, v2 = z.sp.prev, w2 = t.sp.prev,
              D2 + Counts(ret2) = D0 + Counts(split2), sn = bad => D2 <= h,
              Together(v2, w2, ret2, split2, fed2, clean2, first, last, k, lo, jlo, D2, h)
       PROVE  InStep(z, t, b, first, bad, sn, lo, jlo, D0, h)
  <2>1. Together(z.sp.prev, t.sp.prev, z.ret, split2, fed2, clean2, first, At(first, Const.blocks), At(first, b),
                 lo, jlo, D2, h)
    BY <1>2, <1>12, <1>18, Zenon
  <2>2. D2 + Counts(z.ret) = D0 + Counts(split2) BY <1>12, <1>18, Zenon
  <2>3. z.err = "none" <=> ~\E i \in bad : i <= b BY <1>5, <1>7, Zenon
  <2>4. b = 0 => ~t.split BY <1>3
  <2>5. \E D3 \in Nat, s3 \in BOOLEAN, f3 \in BOOLEAN, c3 \in BOOLEAN :
          /\ (s3 <=> t.split) /\ (f3 <=> Looked(b, sn)) /\ (c3 <=> Looked(b, bad))
          /\ D3 + Counts(z.ret) = D0 + Counts(s3) /\ (sn = bad => D3 <= h)
          /\ Together(z.sp.prev, t.sp.prev, z.ret, s3, f3, c3, first, At(first, Const.blocks), At(first, b), lo, jlo, D3, h)
    BY <1>11, <1>18, <2>1, <2>2, Zenon
  <2> QED BY <1>10, <2>3, <2>4, <2>5, Zenon DEF InStep
<1>19. Near(first, last, lo, jlo) BY <1>2
<1>26. ASSUME split \/ fed \/ k = first
       PROVE  Ready(v, w, ret, split, fed, clean, first, last, a, k, lo, jlo, D, h)
  BY <1>1, <1>2, <1>13, <1>19, <1>25, <1>26, Zenon DEF Ready
<1>20. CASE ~looks /\ ~reads
  <2>1. v = z.sp.prev /\ w = t.sp.prev /\ (ret2 <=> ret) /\ (split2 <=> split) /\ clean2 = FALSE
    BY <1>7, <1>9, <1>11, <1>12, <1>15, <1>20, Zenon
  <2>2. ret2 = ret /\ split2 = split BY <2>1
  <2>3. fed2 => fed
    <3>1. fed2 => split BY <1>5, <1>15, <1>20, Zenon
    <3>2. split => c # 0 BY <1>1, <1>6, Zenon
    <3> QED BY <1>15, <1>16, <3>1, <3>2, Zenon
  <2>4. Together(v, w, ret, split, fed2, clean2, first, last, k, lo, jlo, D, h)
    BY <1>1, <1>2, <1>11, <1>13, <1>25, <2>1, <2>3, TogetherNeither
  <2>5. D + Counts(ret2) = D0 + Counts(split2) BY <1>14, <2>2, Zenon
  <2>6. Together(v, w, ret2, split2, fed2, clean2, first, last, k, lo, jlo, D, h) BY <2>1, <2>2, <2>4, Zenon
  <2> QED BY <1>14, <1>18, <2>1, <2>5, <2>6, Zenon
<1>21. CASE looks /\ ~reads
  <2>1. /\ v = z.sp.prev /\ (ret2 <=> ret) /\ t.sp.prev = AzOf(k) /\ (split2 <=> Begins(w, AzOf(k)))
        /\ clean2 = FALSE /\ fed2 = TRUE /\ split = FALSE
    BY <1>5, <1>7, <1>9, <1>11, <1>12, <1>15, <1>21, Zenon
  <2>2. ret2 = ret BY <2>1
  <2>3. sn # bad BY <1>5, <1>21, Zenon
  <2>4. fed \/ k = first BY <1>2, <1>5, <1>16, <1>21, Zenon
  <2>5. PICK D2 \in Nat : D2 = D + Counts(split2) BY DEF Counts
  <2>7. Together(v, AzOf(k), ret, split2, fed2, clean2, first, last, k, lo, jlo, D2, h)
    <3>1. ~split /\ fed2 /\ ~clean2 /\ (split2 <=> Begins(w, AzOf(k))) BY <2>1
    <3>2. h >= 1 BY <2>3
    <3>3. Ready(v, w, ret, split, fed, clean, first, last, a, k, lo, jlo, D, h) BY <1>26, <2>4
    <3>4. Feeds(w, k, split, split2, fed2) /\ ReadsNot(clean2) BY <1>11, <3>1, Zenon DEF Feeds, ReadsNot
    <3>5. Together(v, AzOf(k), ret, split2, fed2, clean2, first, last, k, lo, jlo, D + Counts(split2), h)
      BY <3>2, <3>3, <3>4, TogetherOne, Zenon
    <3> QED BY <2>5, <3>5, Zenon
  <2>8. Counts(split) = 0 BY <2>1 DEF Counts
  <2>9. Counts(ret) \in Nat /\ Counts(split2) \in Nat BY DEF Counts
  <2>10. D2 + Counts(ret2) = D0 + Counts(split2) BY <1>14, <2>2, <2>5, <2>8, <2>9
  <2>11. Together(v, AzOf(k), ret2, split2, fed2, clean2, first, last, k, lo, jlo, D2, h) BY <2>1, <2>2, <2>7, Zenon
  <2> QED BY <1>18, <2>1, <2>3, <2>10, <2>11, Zenon
<1>22. CASE ~looks /\ reads
  <2>1. /\ w = t.sp.prev /\ (split2 <=> split) /\ split = TRUE /\ clean2 = TRUE /\ fed2 = TRUE
        /\ z.sp.prev = AzOf(k) /\ (ret2 <=> ret \/ Begins(v, AzOf(k)))
    BY <1>5, <1>8, <1>9, <1>11, <1>12, <1>15, <1>22, Zenon
  <2>2. c # 0 BY <1>1, <1>6, <2>1, Zenon
  <2>3. fed = TRUE /\ clean = TRUE BY <1>15, <1>16, <1>17, <1>22, <2>2, Zenon
  <2>5. /\ ~Begins(v, AzOf(k))
        /\ Together(AzOf(k), w, ret, split, fed, clean, first, last, k, lo, jlo, D, h)
    <3>1. split /\ fed /\ clean BY <2>1, <2>3
    <3>2. Ready(v, w, ret, split, fed, clean, first, last, a, k, lo, jlo, D, h) BY <1>26, <3>1
    <3> QED BY <3>1, <3>2, TogetherDecoded, Zenon
  <2>6. (ret2 <=> ret) BY <2>1, <2>5, Zenon
  <2>7. ret2 = ret /\ split2 = split BY <2>1, <2>6
  <2>8. D + Counts(ret2) = D0 + Counts(split2) BY <1>14, <2>7, Zenon
  <2>9. Together(AzOf(k), w, ret2, split2, fed2, clean2, first, last, k, lo, jlo, D, h) BY <2>1, <2>3, <2>5, <2>7, Zenon
  <2> QED BY <1>14, <1>18, <2>1, <2>8, <2>9, Zenon
<1>23. CASE looks /\ reads
  <2>1. /\ t.sp.prev = AzOf(k) /\ (split2 <=> Begins(w, AzOf(k))) /\ split = FALSE /\ clean2 = TRUE /\ fed2 = TRUE
        /\ z.sp.prev = AzOf(k) /\ (ret2 <=> ret \/ Begins(v, AzOf(k)))
    BY <1>5, <1>8, <1>9, <1>11, <1>12, <1>15, <1>23, Zenon
  <2>2. fed \/ k = first BY <1>2, <1>5, <1>16, <1>23, Zenon
  <2>4. PICK D2 \in Nat : /\ D2 + Counts(ret2) = D + Counts(split2) + Counts(ret)
                          /\ D2 <= D \/ D2 <= h
                          /\ Together(AzOf(k), AzOf(k), ret2, split2, fed2, clean2, first, last, k, lo, jlo, D2, h)
    <3>1. /\ ~split /\ fed2 /\ clean2 /\ (split2 <=> Begins(w, AzOf(k)))
          /\ ret2 <=> ret \/ Begins(v, AzOf(k))
      BY <2>1
    <3>2. Ready(v, w, ret, split, fed, clean, first, last, a, k, lo, jlo, D, h) BY <1>26, <2>2
    <3>3. Feeds(w, k, split, split2, fed2) BY <1>11, <3>1, Zenon DEF Feeds
    <3>4. Reads(v, k, ret, ret2, clean2) BY <1>11, <1>25, <3>1, Zenon DEF Reads
    <3> QED BY <3>2, <3>3, <3>4, TogetherBoth
  <2>5. D2 + Counts(ret2) = D0 + Counts(split2)
    <3>1. Counts(split) = 0 BY <2>1 DEF Counts
    <3>2. Counts(ret) \in Nat /\ Counts(split2) \in Nat /\ Counts(ret2) \in Nat BY DEF Counts
    <3> QED BY <1>14, <2>4, <3>1, <3>2
  <2>6. sn = bad => D2 <= h BY <1>14, <2>4
  <2>7. Together(AzOf(k), AzOf(k), ret2, split2, fed2, clean2, first, last, k, lo, jlo, D2, h) BY <2>1, <2>4, Zenon
  <2> QED BY <1>18, <2>1, <2>5, <2>6, <2>7, Zenon
<1> QED BY <1>20, <1>21, <1>22, <1>23

\* Before a packet from firing "first" on.
AtStart(v, w, first, bad, sn, lo, jlo, D, h) ==
  /\ lo \in Nat /\ jlo \in Nat /\ D \in Nat /\ h \in Nat /\ Near(first, At(first, Const.blocks), lo, jlo)
  /\ sn \in SUBSET bad /\ (sn # bad => h >= 1) /\ (sn = bad => D <= h)
  /\ \E no \in BOOLEAN :
       ~no /\ Together(v, w, no, no, no, no, first, At(first, Const.blocks), first, lo, jlo, D, h)

\* The splitters after the whole of a packet, of which isNewFrame takes the blocks of sn
\* for wrong.
LEMMA PacketInStep ==
  ASSUME LidarInv, q.mode = "ANGLE", NEW first \in Nat, NEW bad \in SUBSET (1..Const.blocks), NEW kn \in BOOLEAN,
         NEW g \in Frame, NEW y, Decoded(y, first, bad, kn, g), NEW e,
         NEW sp \in [prev : Nat, blks : Nat], NEW p, NEW kp, NEW sn, PacketOf(p, first, sn, kp),
         NEW lo, NEW jlo, NEW D0, NEW h, AtStart(g.sp.prev, sp.prev, first, bad, sn, lo, jlo, D0, h)
  PROVE  InStep(y, FeedUntilSplit(q, e, Const, sp, p), Const.blocks, first, bad, sn, lo, jlo, D0, h)
<1>0. /\ lo \in Nat /\ jlo \in Nat /\ D0 \in Nat /\ h \in Nat /\ Near(first, At(first, Const.blocks), lo, jlo)
      /\ sn \in SUBSET bad /\ (sn # bad => h >= 1) /\ (sn = bad => D0 <= h)
  BY Zenon DEF AtStart
<1>1. PICK a, off : Decodes(first, bad, kn, g, a, off) /\ y = a[Const.blocks] BY Zenon DEF Decoded
<1>2. PICK N \in Nat \ {0} : N = Const.blocks BY Configured, LidarConst
<1>3. PICK u : FeedRun(N, q, e, sp, p, u) /\ FeedUntilSplit(q, e, Const, sp, p) = u[N]
  <2>1. PICK l : l = Const OBVIOUS
  <2>2. l.blocks = N /\ l.blocks \in Nat BY <1>2, <2>1
  <2>3. \E u : FeedRun(l.blocks, q, e, sp, p, u) /\ FeedUntilSplit(q, e, l, sp, p) = u[l.blocks]
    BY <2>2, FeedUntilSplitRun
  <2> QED BY <2>1, <2>2, <2>3, Zenon
<1> DEFINE S == {b \in 0..N : InStep(a[b], u[b], b, first, bad, sn, lo, jlo, D0, h)}
<1>5. bad \in SUBSET Nat /\ sn \in SUBSET Nat BY <1>0, <1>2
<1>6. 0 \in S
  <2>1. 0 \in 0..N BY <1>2
  <2>2. a[0] = [g EXCEPT !.ret = FALSE, !.err = "none"] BY <1>1, Zenon DEF Decodes
  <2>3. a[0].sp = g.sp /\ a[0].err = "none" /\ ~a[0].ret /\ a[0].ret \in BOOLEAN BY <2>2 DEF Frame
  <2>4. u[0] = [split |-> FALSE, sp |-> sp]
    <3> HIDE DEF S
    <3>1. \A n \in 0..N : u[n] = IF n = 0 THEN [split |-> FALSE, sp |-> sp] ELSE FeedNext(q, e, u[n - 1], p, n)
      BY <1>3, Zenon DEF FeedRun
    <3> QED BY <2>1, <3>1, Zenon
  <2>5. u[0].sp = sp /\ ~u[0].split BY <2>4
  <2>6. u[0].sp \in [prev : Nat, blks : Nat] BY <2>5
  <2>7. ~ \E c \in bad : c <= 0
    <3>1. \A c \in bad : c \in Nat /\ c # 0 BY <1>2
    <3> QED BY <3>1
  <2>8. PICK no \in BOOLEAN :
          ~no /\ Together(g.sp.prev, sp.prev, no, no, no, no, first, At(first, Const.blocks), first, lo, jlo, D0, h)
    BY Zenon DEF AtStart
  <2>9. a[0].ret = no BY <2>3, <2>8
  <2>10. (no <=> u[0].split) /\ (no <=> Looked(0, sn)) /\ (no <=> Looked(0, bad)) BY <2>5, <2>8 DEF Looked
  <2>11. Together(a[0].sp.prev, u[0].sp.prev, a[0].ret, no, no, no, first, At(first, Const.blocks), At(first, 0),
                  lo, jlo, D0, h)
    <3>1. At(first, 0) = first BY DEF At
    <3> QED BY <2>3, <2>5, <2>8, <2>9, <3>1, Zenon
  <2>12. D0 + Counts(a[0].ret) = D0 + Counts(no) BY <2>9
  <2>13. InStep(a[0], u[0], 0, first, bad, sn, lo, jlo, D0, h)
    <3>1. a[0].err = "none" <=> ~\E c \in bad : c <= 0 BY <2>3, <2>7
    <3> HIDE DEF S
    <3>2. \E D \in Nat, split \in BOOLEAN, fed \in BOOLEAN, clean \in BOOLEAN :
            /\ (split <=> u[0].split) /\ (fed <=> Looked(0, sn)) /\ (clean <=> Looked(0, bad))
            /\ D + Counts(a[0].ret) = D0 + Counts(split) /\ (sn = bad => D <= h)
            /\ Together(a[0].sp.prev, u[0].sp.prev, a[0].ret, split, fed, clean, first, At(first, Const.blocks),
                        At(first, 0), lo, jlo, D, h)
      BY <1>0, <2>8, <2>10, <2>11, <2>12, Zenon
    <3> QED BY <2>5, <2>6, <3>1, <3>2, Zenon DEF InStep
  <2> QED BY <2>1, <2>13
<1>7. ASSUME NEW b \in 1..N, b - 1 \in S PROVE b \in S
  <2>1. PICK c \in 0..N : c = b - 1 /\ c + 1 = b /\ c \in Nat BY <1>2
  <2>2. b \in 0..N /\ b # 0 /\ b \in Nat BY <1>2
  <2>3. c \in 0..Const.blocks /\ b \in 0..Const.blocks /\ b \in 1..Const.blocks BY <1>2, <2>1, <2>2
  <2>4. PICK x \in Frame : x = a[c] BY <1>1, <2>3, Zenon DEF Decodes
  <2>5. PICK z \in Frame : z = a[b] BY <1>1, <2>3, Zenon DEF Decodes
  <2>6. BlockOutcome(x, z, b, first, bad, off, kn) BY <1>1, <2>1, <2>3, <2>4, <2>5, Zenon DEF Decodes
  <2>7. PICK s, t : s = u[c] /\ t = u[b] OBVIOUS
  <2>8. InStep(x, s, c, first, bad, sn, lo, jlo, D0, h) BY <1>7, <2>1, <2>4, <2>7, Zenon
  <2>9. t = FeedNext(q, e, s, p, b)
    <3>0. PICK k : k = q OBVIOUS
    <3>1. u[b] = IF b = 0 THEN [split |-> FALSE, sp |-> sp] ELSE FeedNext(k, e, u[b - 1], p, b)
      <4>1. FeedRun(N, k, e, sp, p, u) BY <1>3, <3>0, Zenon
      <4> HIDE DEF S
      <4>2. \A n \in 0..N : u[n] = IF n = 0 THEN [split |-> FALSE, sp |-> sp] ELSE FeedNext(k, e, u[n - 1], p, n)
        BY <4>1, Zenon DEF FeedRun
      <4> QED BY <4>2, <2>2, Zenon
    <3> QED BY <2>1, <2>2, <2>7, <3>0, <3>1, Zenon
  <2>10. p.bad = sn /\ p.az[b] = AzOf(first + FiringOf(b)) BY <2>3, Zenon DEF PacketOf
  <2>11. PICK k \in Nat : k = At(first, b) /\ p.az[b] = AzOf(k) /\ AzOf(k) \in Nat
    <3>1. At(first, b) \in Nat /\ At(first, b) = first + FiringOf(b) BY <2>3, AtNext
    <3>2. AzOf(At(first, b)) \in Nat BY <3>1, OneFiring
    <3> QED BY <2>10, <3>1, <3>2
  <2>12. FedNext(s, t, b, first, sn)
    <3>1. PICK n \in Nat : n = AzOf(k) BY <2>11
    <3>2. PICK l : l = NewBlock(q, e, s.sp, n) OBVIOUS
    <3>3. s.sp \in [prev : Nat, blks : Nat] BY <2>8, Zenon DEF InStep
    <3>4. l.sp \in [prev : Nat, blks : Nat] /\ l.sp.prev = n /\ (l.split <=> Begins(s.sp.prev, n))
      BY <3>2, <3>3, NewBlockTyped
    <3>5. t = (IF s.split \/ (\E i \in sn : i <= b) THEN s ELSE l)
      BY <2>9, <2>10, <2>11, <3>1, <3>2, Zenon DEF FeedNext
    <3>6. CASE s.split \/ (\E i \in sn : i <= b) BY <3>5, <3>6, Zenon DEF FedNext
    <3>7. CASE ~(s.split \/ (\E i \in sn : i <= b)) BY <2>11, <3>1, <3>4, <3>5, <3>7, Zenon DEF FedNext
    <3> QED BY <3>6, <3>7
  <2>13. InStep(z, t, b, first, bad, sn, lo, jlo, D0, h)
    <3> HIDE DEF S
    <3> QED BY <1>0, <2>1, <2>3, <2>6, <2>8, <2>12, InStepNext
  <2> QED BY <2>2, <2>5, <2>7, <2>13, Zenon
<1>8. \A b \in 0..N : b \in S
  <2> HIDE DEF S
  <2> QED BY <1>2, <1>6, <1>7, BlockInduction
<1>9. N \in 0..N BY <1>2
<1>10. InStep(a[N], u[N], N, first, bad, sn, lo, jlo, D0, h) BY <1>8, <1>9, Zenon
<1> QED BY <1>1, <1>2, <1>3, <1>10, Zenon

\* What a fault costs at most.
Fault == Max({PacketFirings, Lost})

LEMMA FaultBounds ==
  ASSUME LidarInv
  PROVE  Fault \in Nat /\ Lost \in Nat /\ PacketFirings \in Nat /\ PacketFirings <= Fault /\ Lost <= Fault
<1>1. PICK x \in Nat : x = PacketFirings BY LastFiring
<1>2. PICK y \in Nat : y = Lost BY SetupsAssumption
<1>3. \E m \in {x, y} : \A i \in {x, y} : m >= i
  <2>1. CASE x >= y BY <2>1
  <2>2. CASE ~(x >= y) BY <2>2
  <2> QED BY <2>1, <2>2
<1>4. Max({x, y}) \in {x, y} /\ \A i \in {x, y} : Max({x, y}) >= i BY <1>3 DEF Max
<1> QED BY <1>1, <1>2, <1>4 DEF Fault

\* The firings lost by the faults of a packet.
LEMMA FaultCost ==
  ASSUME LidarInv, NEW n \in Nat, NEW i \in Nat, NEW lost \in {0, Lost}, NEW b \in {0, 1}, i >= n + Counts(lost > 0) + b
  PROVE  /\ lost \in Nat /\ n * Fault \in Nat /\ i * Fault \in Nat
         /\ i * Fault >= n * Fault + lost
         /\ b = 1 => i * Fault >= n * Fault + lost + PacketFirings
<1>1. PICK w \in Nat : w = Fault /\ Lost \in Nat /\ PacketFirings \in Nat /\ PacketFirings <= w /\ Lost <= w
  BY FaultBounds
<1>2. PICK a \in {0, 1} : a = Counts(lost > 0) BY DEF Counts
<1>3. lost = 0 \/ (a = 1 /\ lost <= w) BY <1>1, <1>2 DEF Counts
<1>4. n + a + b <= i /\ n + a + b \in Nat BY <1>2
<1>5. (n + a + b) * w <= i * w BY <1>1, <1>4, Products
<1>6. (n + a + b) * w = n * w + a * w + b * w BY <1>1, <1>2, SMTT(20)
<1>7. n * w \in Nat /\ i * w \in Nat BY <1>1, Products
<1>8. a * w = (IF a = 1 THEN w ELSE 0) /\ b * w = (IF b = 1 THEN w ELSE 0) 
  <2>1. 0 * w = 0 /\ 1 * w = w BY <1>1
  <2>2. (a = 0 \/ a = 1) /\ (b = 0 \/ b = 1) OBVIOUS
  <2> QED BY <2>1, <2>2
<1> QED BY <1>1, <1>2, <1>3, <1>5, <1>6, <1>7, <1>8

\* decodeMsopPkt's splitter is at angle v, as firing m set it or, with m the first firing
\* that isNewFrame was fed, as it was made.
Where(v, m, j, D, h) ==
  \/ v = q.angle /\ m <= j /\ D + Turn(m) <= Turn(j) /\ h >= 1
  \/ v = AzOf(m) /\ Behind(m, j, D)

Lately(m, j, k, n) == m <= k /\ j <= k /\ k - j <= PacketFirings + n * Fault /\ k - m <= 2 + n * Fault

\* After k firings and n faults, decodeMsopPkt's splitter is at angle v, that of isNewFrame
\* at w, both of firings not too long ago, and isNewFrame has reported D frames more.
Compared(v, w, D, h, k, n) ==
  \/ v = q.angle /\ w = q.angle /\ D = 0
  \/ \E m \in Nat, j \in Nat : Lately(m, j, k, n) /\ w = AzOf(j) /\ Where(v, m, j, D, h)

LEMMA WhereLater ==
  ASSUME LidarInv, NEW v, NEW m, NEW j, NEW D, NEW h \in Nat, NEW H \in Nat, h <= H, Where(v, m, j, D, h)
  PROVE  Where(v, m, j, D, H)
<1>1. h >= 1 => H >= 1 OBVIOUS
<1> QED BY <1>1, Zenon DEF Where

LEMMA ComparedLater ==
  ASSUME LidarInv, NEW v, NEW w, NEW D, NEW h \in Nat, NEW H \in Nat, h <= H,
         NEW k \in Nat, NEW l \in Nat, NEW n \in Nat, NEW i \in Nat, Compared(v, w, D, h, k, n), k <= l,
         n * Fault \in Nat, i * Fault \in Nat, l - k + n * Fault <= i * Fault
  PROVE  Compared(v, w, D, H, l, i)
<1>1. CASE v = q.angle /\ w = q.angle /\ D = 0 BY <1>1, Zenon DEF Compared
<1>2. CASE \E m \in Nat, j \in Nat : Lately(m, j, k, n) /\ w = AzOf(j) /\ Where(v, m, j, D, h)
  <2>1. PICK m \in Nat, j \in Nat : Lately(m, j, k, n) /\ w = AzOf(j) /\ Where(v, m, j, D, h) BY <1>2
  <2>2. PICK x \in Nat, y \in Nat, z \in Nat : x = n * Fault /\ y = i * Fault /\ z = PacketFirings BY FaultBounds
  <2>3. m <= k /\ j <= k /\ k - j <= z + x /\ k - m <= 2 + x BY <2>1, <2>2, Zenon DEF Lately
  <2>4. m <= l /\ j <= l /\ l - j <= z + y /\ l - m <= 2 + y BY <2>2, <2>3
  <2>5. Lately(m, j, l, i) BY <2>2, <2>4, Zenon DEF Lately
  <2>6. Where(v, m, j, D, H) BY <2>1, WhereLater
  <2> QED BY <2>1, <2>5, <2>6, Zenon DEF Compared
<1> QED BY <1>1, <1>2, Zenon DEF Compared

\* From k firings and n faults to the packet's and i, less than a turn is lost.
CloseBy(k, n, lost, bad, i) ==
  /\ n * Fault \in Nat /\ i * Fault \in Nat
  /\ i * Fault >= n * Fault + lost /\ (bad # {} => i * Fault >= n * Fault + lost + PacketFirings)
  /\ PacketFirings + i * Fault + 2 <= PerTurn

\* How the splitters start a packet.
LEMMA StartsFrom ==
  ASSUME LidarInv, NEW v, NEW w, NEW D \in Nat, NEW h \in Nat, NEW k \in Nat, NEW n \in Nat, NEW i \in Nat,
         NEW lost \in Nat, NEW first \in Nat, first = k + lost, NEW bad, NEW sn \in SUBSET bad,
         sn # bad => h >= 1, sn = bad => D <= h, Compared(v, w, D, h, k, n), CloseBy(k, n, lost, bad, i)
  PROVE  \E lo \in Nat, jlo \in Nat :
           /\ AtStart(v, w, first, bad, sn, lo, jlo, D, h)
           /\ bad # {} => Lately(lo, jlo, first + FiringOf(Const.blocks + 1), i)
<1>1. PICK a \in Nat, c \in Nat, z \in Nat, P \in Nat :
        a = n * Fault /\ c = i * Fault /\ z = PacketFirings /\ P = PerTurn
  BY FaultBounds, Geometry, Zenon DEF CloseBy
<1>2. c >= a + lost /\ (bad # {} => c >= a + lost + z) /\ z + c + 2 <= P BY <1>1, Zenon DEF CloseBy
<1>3. PICK s \in Nat, t \in Nat : s = FiringOf(Const.blocks) /\ t = FiringOf(Const.blocks + 1) /\ s < z /\ t <= z
  <2>1. Const.blocks \in 1..Const.blocks BY Configured, LidarConst
  <2>2. FiringOf(Const.blocks + 1) \in Nat BY <2>1, FiringNext
  <2> QED BY <1>1, <2>2, LastFiring
<1>4. At(first, Const.blocks) = first + s
  <2>1. Const.blocks # 0 BY Configured, LidarConst
  <2> QED BY <1>3, <2>1 DEF At
<1>5. ASSUME NEW lo \in Nat, NEW jlo \in Nat, lo <= first, jlo <= first, first - jlo <= z + a + lost,
             first - lo <= 2 + a + lost,
             NEW no \in BOOLEAN, ~no, Together(v, w, no, no, no, no, first, first + s, first, lo, jlo, D, h)
      PROVE  /\ AtStart(v, w, first, bad, sn, lo, jlo, D, h)
             /\ bad # {} => Lately(lo, jlo, first + t, i)
  <2>0. lo \in Nat /\ jlo \in Nat /\ lo <= first /\ jlo <= first /\ first - jlo <= z + a + lost /\ first - lo <= 2 + a + lost
    BY <1>5, Zenon
  <2>1. /\ first <= first + s /\ first + s - lo < P /\ first + s - first < P /\ first - jlo < P
    BY <1>2, <1>3, <2>0
  <2>2. Near(first, first + s, lo, jlo) BY <1>1, <2>0, <2>1 DEF Near
  <2>3. AtStart(v, w, first, bad, sn, lo, jlo, D, h) BY <1>4, <1>5, <2>2, Zenon DEF AtStart
  <2>4. bad # {} => lo <= first + t /\ jlo <= first + t /\ first + t - jlo <= z + c /\ first + t - lo <= 2 + c
    BY <1>2, <1>3, <2>0
  <2> QED BY <1>1, <2>3, <2>4 DEF Lately
<1>6. PICK no \in BOOLEAN : ~no OBVIOUS
<1>7. CASE v = q.angle /\ w = q.angle /\ D = 0
  <2>1. Together(v, w, no, no, no, no, first, first + s, first, first, first, D, h)
    BY <1>6, <1>7, Zenon DEF Together, Unfed
  <2>2. first <= first /\ first - first <= z + a + lost /\ first - first <= 2 + a + lost OBVIOUS
  <2>3. /\ AtStart(v, w, first, bad, sn, first, first, D, h)
        /\ bad # {} => Lately(first, first, first + t, i)
    BY <1>5, <1>6, <2>1, <2>2
  <2> QED BY <1>3, <2>3, Zenon
<1>8. CASE \E m \in Nat, j \in Nat : Lately(m, j, k, n) /\ w = AzOf(j) /\ Where(v, m, j, D, h)
  <2>1. PICK m \in Nat, j \in Nat : Lately(m, j, k, n) /\ w = AzOf(j) /\ Where(v, m, j, D, h) BY <1>8
  <2>2. m <= k /\ j <= k /\ k - j <= z + a /\ k - m <= 2 + a BY <1>1, <2>1, Zenon DEF Lately
  <2>3. m <= first /\ j <= first /\ first - j <= z + a + lost /\ first - m <= 2 + a + lost BY <2>2
  <2>4. m <= m /\ j <= j OBVIOUS
  <2>5. FedTo(j, w, no, no, first, first + s, first, j) BY <1>6, <2>1, <2>3, <2>4, Zenon DEF FedTo
  <2>6. Together(v, w, no, no, no, no, first, first + s, first, m, j, D, h)
    <3>1. CASE v = q.angle /\ m <= j /\ D + Turn(m) <= Turn(j) /\ h >= 1
      <4>1. Alone(v, w, no, no, no, no, first, first + s, first, m, j, D, h)
        BY <1>6, <2>4, <2>5, <3>1, Zenon DEF Alone
      <4> QED BY <4>1, Zenon DEF Together
    <3>2. CASE v = AzOf(m) /\ Behind(m, j, D)
      <4>1. DecodedTo(m, v, no, no, first + s, first, m) BY <1>6, <2>3, <2>4, <3>2, Zenon DEF DecodedTo
      <4>2. Abreast(v, w, no, no, no, no, first, first + s, first, m, j, D) BY <2>5, <3>2, <4>1, Zenon DEF Abreast
      <4> QED BY <4>2, Zenon DEF Together
    <3> QED BY <2>1, <3>1, <3>2, Zenon DEF Where
  <2>7. /\ AtStart(v, w, first, bad, sn, m, j, D, h)
        /\ bad # {} => Lately(m, j, first + t, i)
    BY <1>5, <1>6, <2>3, <2>6
  <2> QED BY <1>3, <2>7, Zenon
<1> QED BY <1>7, <1>8, Zenon DEF Compared

\* What isNewFrame found in a packet and what decodeMsopPkt did with it.
MadeOf(u, y, first, i, bad, sn, D0, h) ==
  /\ u.sp \in [prev : Nat, blks : Nat]
  /\ \E D \in Nat, split \in BOOLEAN :
       /\ (split <=> u.split) /\ D + Counts(y.ret) = D0 + Counts(split) /\ (sn = bad => D <= h)
       /\ Compared(y.sp.prev, u.sp.prev, D, h, first + FiringOf(Const.blocks + 1), i)

LEMMA ComparedAfter ==
  ASSUME LidarInv, NEW y, NEW u, NEW first \in Nat, NEW bad \in SUBSET (1..Const.blocks), NEW sn \in SUBSET bad,
         NEW lo \in Nat, NEW jlo \in Nat, NEW D0, NEW h, NEW i \in Nat, i * Fault \in Nat,
         InStep(y, u, Const.blocks, first, bad, sn, lo, jlo, D0, h),
         bad # {} => Lately(lo, jlo, first + FiringOf(Const.blocks + 1), i)
  PROVE  MadeOf(u, y, first, i, bad, sn, D0, h)
<1>1. PICK c \in Nat, z \in Nat : c = i * Fault /\ z = PacketFirings BY FaultBounds
<1>2. PICK N \in Nat \ {0}, s \in Nat, t \in Nat :
        N = Const.blocks /\ s = FiringOf(N) /\ t = FiringOf(N + 1) /\ s <= t /\ t <= s + 2 /\ t <= z
  <2>1. Const.blocks \in Nat \ {0} BY Configured, LidarConst
  <2>2. Const.blocks \in 1..Const.blocks BY <2>1
  <2> QED BY <1>1, <2>1, <2>2, FiringNext, LastFiring
<1>3. PICK last \in Nat, l \in Nat : last = At(first, N) /\ last = first + s /\ l = first + t BY <1>2 DEF At
<1>4. PICK D \in Nat, split \in BOOLEAN, fed \in BOOLEAN, clean \in BOOLEAN :
       /\ (split <=> u.split) /\ (fed <=> Looked(N, sn)) /\ (clean <=> Looked(N, bad))
       /\ D + Counts(y.ret) = D0 + Counts(split) /\ (sn = bad => D <= h)
       /\ Together(y.sp.prev, u.sp.prev, y.ret, split, fed, clean, first, last, last, lo, jlo, D, h)
  BY <1>2, <1>3, Zenon DEF InStep
<1>5. bad = {} => fed /\ clean
  <2>1. bad = {} => sn = {} OBVIOUS
  <2>2. N # 0 OBVIOUS
  <2> QED BY <1>4, <2>1, <2>2 DEF Looked
<1>6. bad # {} => lo <= l /\ jlo <= l /\ l - jlo <= z + c /\ l - lo <= 2 + c
  BY <1>1, <1>2, <1>3, Zenon DEF Lately
<1>7. PICK v, w, ret : v = y.sp.prev /\ w = u.sp.prev /\ ret = y.ret OBVIOUS
<1>8. Together(v, w, ret, split, fed, clean, first, last, last, lo, jlo, D, h) BY <1>4, <1>7, Zenon
<1>9. ASSUME NEW m \in Nat, NEW j \in Nat, lo <= m, m <= last, jlo <= j, j <= last,
             bad = {} => m = last, bad = {} => first <= j
      PROVE  Lately(m, j, l, i)
  <2>1. m <= l /\ j <= l /\ l - j <= z + c /\ l - m <= 2 + c
    <3>1. CASE bad = {} BY <1>2, <1>3, <1>9, <3>1
    <3>2. CASE bad # {} BY <1>2, <1>3, <1>6, <1>9, <3>2
    <3> QED BY <3>1, <3>2
  <2> QED BY <1>1, <2>1, Zenon DEF Lately
<1>10. Compared(v, w, D, h, l, i)
  <2>1. CASE Unfed(v, w, ret, split, fed, clean, D) BY <2>1, Zenon DEF Unfed, Compared
  <2>2. CASE Alone(v, w, ret, split, fed, clean, first, last, last, lo, jlo, D, h)
    <3>1. PICK e \in Nat, j \in Nat :
            /\ lo <= e /\ e <= j /\ FedTo(j, w, split, fed, first, last, last, jlo)
            /\ v = q.angle /\ ~ret /\ ~clean /\ D + Turn(e) <= Turn(j) /\ h >= 1
      BY <2>2, Zenon DEF Alone
    <3>2. jlo <= j /\ j <= last /\ w = AzOf(j) BY <3>1, Zenon DEF FedTo
    <3>3. bad # {} BY <1>5, <3>1
    <3>4. e <= last BY <3>1, <3>2
    <3>5. Lately(e, j, l, i) BY <1>9, <3>1, <3>2, <3>3, <3>4
    <3>6. Where(v, e, j, D, h) BY <3>1, Zenon DEF Where
    <3> QED BY <3>2, <3>5, <3>6, Zenon DEF Compared
  <2>3. CASE Abreast(v, w, ret, split, fed, clean, first, last, last, lo, jlo, D)
    <3>1. PICK m \in Nat, j \in Nat :
            /\ DecodedTo(m, v, ret, clean, last, last, lo) /\ FedTo(j, w, split, fed, first, last, last, jlo)
            /\ Behind(m, j, D)
      BY <2>3, Zenon DEF Abreast
    <3>2. jlo <= j /\ j <= last /\ w = AzOf(j) /\ (fed => first <= j) BY <3>1, Zenon DEF FedTo
    <3>3. lo <= m /\ m <= last /\ v = AzOf(m) /\ (clean => m = last) BY <3>1, Zenon DEF DecodedTo
    <3>4. Lately(m, j, l, i) BY <1>5, <1>9, <3>2, <3>3
    <3>5. Where(v, m, j, D, h) BY <3>1, <3>3, Zenon DEF Where
    <3> QED BY <3>2, <3>4, <3>5, Zenon DEF Compared
  <2> QED BY <1>8, <2>1, <2>2, <2>3, Zenon DEF Together
<1>11. u.sp \in [prev : Nat, blks : Nat] BY Zenon DEF InStep
<1>12. Compared(y.sp.prev, u.sp.prev, D, h, first + FiringOf(Const.blocks + 1), i)
  BY <1>2, <1>3, <1>7, <1>10, Zenon
<1> QED BY <1>4, <1>11, <1>12, Zenon DEF MadeOf

\* They are given the same packet, whose blocks of bad are wrong to decodeMsopPkt, those of
\* sn to isNewFrame.
Given(y, u, g, sp, first, bad, sn) ==
  \E kn \in BOOLEAN : \E e, p, kp :
    /\ Decoded(y, first, bad, kn, g) /\ PacketOf(p, first, sn, kp) /\ u = FeedUntilSplit(q, e, Const, sp, p)

LEMMA ComparedDecoded ==
  ASSUME LidarInv, q.mode = "ANGLE", NEW k \in Nat, NEW n \in Nat, NEW i \in Nat, NEW lost \in Nat, NEW first \in Nat,
         first = k + lost, NEW bad \in SUBSET (1..Const.blocks), NEW sn \in SUBSET bad,
         NEW D0 \in Nat, NEW h \in Nat, sn # bad => h >= 1, sn = bad => D0 <= h,
         NEW g \in Frame, NEW sp \in [prev : Nat, blks : Nat], Compared(g.sp.prev, sp.prev, D0, h, k, n),
         NEW y, NEW u, Given(y, u, g, sp, first, bad, sn), CloseBy(k, n, lost, bad, i)
  PROVE  MadeOf(u, y, first, i, bad, sn, D0, h)
<1>1. PICK kn \in BOOLEAN :
        \E e, p, kp :
          /\ Decoded(y, first, bad, kn, g) /\ PacketOf(p, first, sn, kp)
          /\ u = FeedUntilSplit(q, e, Const, sp, p)
  BY Zenon DEF Given
<1>2. PICK e, p, kp :
         /\ Decoded(y, first, bad, kn, g) /\ PacketOf(p, first, sn, kp)
         /\ u = FeedUntilSplit(q, e, Const, sp, p)
  BY <1>1, Zenon
<1>3. PICK v, w : v = g.sp.prev /\ w = sp.prev OBVIOUS
<1>4. Compared(v, w, D0, h, k, n) BY <1>3, Zenon
<1>5. PICK lo \in Nat, jlo \in Nat :
           /\ AtStart(v, w, first, bad, sn, lo, jlo, D0, h)
           /\ bad # {} => Lately(lo, jlo, first + FiringOf(Const.blocks + 1), i)
  BY <1>4, StartsFrom
<1>6. AtStart(g.sp.prev, sp.prev, first, bad, sn, lo, jlo, D0, h) BY <1>3, <1>5, Zenon
<1>7. InStep(y, FeedUntilSplit(q, e, Const, sp, p), Const.blocks, first, bad, sn, lo, jlo, D0, h)
  BY <1>1, <1>2, <1>6, PacketInStep
<1>8. InStep(y, u, Const.blocks, first, bad, sn, lo, jlo, D0, h) BY <1>2, <1>7, Zenon
<1>9. i * Fault \in Nat BY Zenon DEF CloseBy
<1> QED BY <1>5, <1>8, <1>9, ComparedAfter

\* While every packet could be decoded and less than a turn was lost, split by angle.
Following == q.mode = "ANGLE" /\ refused = 0 /\ LessThanATurnLost

PaceRight ==
  Following =>
    /\ pre \in [prev : Nat, blks : Nat]
    /\ \E D \in Nat : /\ paced = splits + D /\ D <= halves
                     /\ Compared(f.sp.prev, pre.prev, D, halves, fired, faults)

\* A packet of firings after the phase has the same number of firings.
LEMMA FaultSame ==
  ASSUME Same, Layout # "ABDual" => phase' = phase
  PROVE  PacketFirings' = PacketFirings /\ Fault' = Fault
<1>1. Layout' = Layout /\ Const' = Const BY Fixed
<1>2. PacketFirings' = PacketFirings
  <2>1. CASE Layout = "ABDual" BY <1>1, <2>1 DEF PacketFirings
  <2>2. CASE Layout # "ABDual"
    <3>1. \A b : FiringOf(b)' = FiringOf(b) BY <1>1, <2>2, Zenon DEF FiringOf
    <3>2. FiringOf(Const.blocks + 1)' = FiringOf(Const.blocks + 1) BY <1>1, <2>2, Zenon DEF FiringOf
    <3> QED BY <1>1, <2>2, <3>2, Zenon DEF PacketFirings
  <2> QED BY <2>1, <2>2
<1> QED BY <1>2, Zenon DEF Fault

LEMMA ComparedSame ==
  ASSUME Same, Layout # "ABDual" => phase' = phase, NEW v, NEW w, NEW D, NEW h, NEW k, NEW n, Compared(v, w, D, h, k, n)
  PROVE  Compared(v, w, D, h, k, n)'
<1>1. q' = q /\ dev' = dev BY DEF Same
<1>2. \A i : AzOf(i)' = AzOf(i) /\ TimeOf(i)' = TimeOf(i) BY Fixed
<1>3. \A s : TurnAt(s)' = TurnAt(s) BY <1>1, Zenon DEF TurnAt
<1>4. PacketFirings' = PacketFirings /\ Fault' = Fault BY FaultSame
<1>5. \A i : Turn(i)' = Turn(i)
  <2> TAKE i
  <2>1. TimeOf(i)' = TimeOf(i) BY <1>2
  <2> QED BY <1>1, <2>1, Zenon DEF TurnAt, Turn
<1>6. ASSUME NEW m, NEW j PROVE Behind(m, j, D)' <=> Behind(m, j, D)
  <2>1. Turn(m)' = Turn(m) /\ Turn(j)' = Turn(j) /\ AzOf(j)' = AzOf(j) BY <1>2, <1>5, Zenon
  <2> QED BY <1>1, <2>1, Zenon DEF Behind
<1>7. CASE v = q.angle /\ w = q.angle /\ D = 0 BY <1>1, <1>7, Zenon DEF Compared
<1>8. CASE \E m \in Nat, j \in Nat : Lately(m, j, k, n) /\ w = AzOf(j) /\ Where(v, m, j, D, h)
  <2>1. PICK m \in Nat, j \in Nat : Lately(m, j, k, n) /\ w = AzOf(j) /\ Where(v, m, j, D, h) BY <1>8
  <2>2. Lately(m, j, k, n)' BY <1>4, <2>1, Zenon DEF Lately
  <2>3. w = AzOf(j)' /\ AzOf(m)' = AzOf(m) BY <1>2, <2>1, Zenon
  <2>4. Turn(m)' = Turn(m) /\ Turn(j)' = Turn(j) /\ (Behind(m, j, D)' <=> Behind(m, j, D)) BY <1>5, <1>6, Zenon
  <2>5. Where(v, m, j, D, h)' BY <1>1, <2>1, <2>3, <2>4, Zenon DEF Where
  <2> QED BY <2>2, <2>3, <2>5, Zenon DEF Compared
<1> QED BY <1>7, <1>8, Zenon DEF Compared

LEMMA PaceStart ==
  ASSUME Init
  PROVE  PaceRight
<1>1. LidarInv BY TypedStart DEF MechInv
<1>2. q.angle \in Nat BY <1>1, Configured, Geometry
<1>3. pre = [prev |-> q.angle, blks |-> 0] /\ f.sp.prev = q.angle /\ paced = 0 /\ splits = 0 /\ halves = 0
  BY DEF Init
<1>4. pre \in [prev : Nat, blks : Nat] /\ pre.prev = q.angle BY <1>2, <1>3
<1>5. PICK D \in Nat : D = 0 OBVIOUS
<1>6. Compared(f.sp.prev, pre.prev, D, halves, fired, faults) BY <1>3, <1>4, <1>5, Zenon DEF Compared
<1>7. paced = splits + D /\ D <= halves BY <1>3, <1>5
<1> QED BY <1>4, <1>6, <1>7, Zenon DEF PaceRight

LEMMA PaceStay ==
  ASSUME PaceRight, Same, f' = f, fired' = fired, phase' = phase, pre' = pre, paced' = paced, splits' = splits,
         refused' = refused, halves' = halves, faults' = faults
  PROVE  PaceRight'
<1>1. q' = q BY DEF Same
<1>2. PacketFirings' = PacketFirings /\ Fault' = Fault /\ PerTurn' = PerTurn BY FaultSame, Fixed
<1>3. LessThanATurnLost' <=> LessThanATurnLost BY <1>2, Zenon DEF LessThanATurnLost, Fault
<1> SUFFICES ASSUME Following
             PROVE  /\ pre \in [prev : Nat, blks : Nat]
                    /\ \E D \in Nat : /\ paced = splits + D /\ D <= halves
                                     /\ Compared(f.sp.prev, pre.prev, D, halves, fired, faults)'
  BY <1>1, <1>3, Zenon DEF PaceRight, Following
<1>4. PICK D \in Nat : /\ pre \in [prev : Nat, blks : Nat] /\ paced = splits + D /\ D <= halves
                      /\ Compared(f.sp.prev, pre.prev, D, halves, fired, faults)
  BY Zenon DEF PaceRight
<1>5. PICK v, w, h, k, n : v = f.sp.prev /\ w = pre.prev /\ h = halves /\ k = fired /\ n = faults OBVIOUS
<1>6. Compared(v, w, D, h, k, n) BY <1>4, <1>5, Zenon
<1>7. Compared(v, w, D, h, k, n)' BY <1>6, ComparedSame
<1>8. (f.sp.prev)' = v /\ (pre.prev)' = w /\ halves' = h /\ fired' = k /\ faults' = n BY <1>5, Zenon
<1>9. Compared(f.sp.prev, pre.prev, D, halves, fired, faults)' BY <1>7, <1>8, Zenon DEF Compared
<1> QED BY <1>4, <1>9, Zenon

LEMMA PacketSeen ==
  ASSUME LidarInv, NEW first \in Nat, NEW bad, NEW half, NEW hit, NEW other, NEW p, p = MsopPkt(first, bad, half, hit, other),
         half # {} => lidar \in {"RSAIRY", "RSFAIRY"}, NEW sn, sn = bad \ half, NEW no \in BOOLEAN, ~no
  PROVE  PacketOf(Seen(p), first, sn, no)
<1>1. PICK a1, a2, a3, a4, a5, a6 :
        p = [ts |-> a1, az |-> a2, at |-> a3, gaps |-> a4, mode |-> a5, model |-> a6, bad |-> bad, half |-> half,
             hit |-> hit, other |-> other, known |-> no]
  <2>1. FALSE = no OBVIOUS
  <2> QED BY <2>1, Zenon DEF MsopPkt
<1>2. [p EXCEPT !.known = no] = p BY <1>1
<1>3. PacketOf([p EXCEPT !.known = no], first, bad, no) BY PacketIs, Zenon
<1>4. PacketOf(p, first, bad, no) BY <1>2, <1>3, Zenon
<1>5. CASE lidar \in {"RSAIRY", "RSFAIRY"}
  <2>1. Seen(p) = [p EXCEPT !.bad = bad \ half] BY <1>1, <1>5 DEF Seen, FirstByteOnly
  <2>2. PICK s : s = [p EXCEPT !.bad = sn] OBVIOUS
  <2>3. s.ts = p.ts /\ s.az = p.az /\ s.at = p.at /\ s.gaps = p.gaps /\ s.known = p.known /\ s.bad = sn BY <1>1, <2>2
  <2>4. PacketOf(s, first, sn, no) BY <1>4, <2>3, Zenon DEF PacketOf
  <2> QED BY <2>1, <2>2, <2>4, Zenon
<1>6. CASE lidar \notin {"RSAIRY", "RSFAIRY"}
  <2>1. Seen(p) = p BY <1>6 DEF Seen
  <2>2. sn = bad
    <3>1. half = {} BY <1>6
    <3> QED BY <3>1
  <2> QED BY <1>4, <2>1, <2>2, Zenon
<1> QED BY <1>5, <1>6

LEMMA PaceKept ==
  ASSUME MechInv, PaceRight, RecvMsop
  PROVE  PaceRight'
<1>1. LidarInv /\ f \in Frame /\ fired \in Nat /\ faults \in Nat /\ paced \in Nat /\ splits \in Nat /\ refused \in Nat
  BY DEF MechInv, LidarInv
<1>2. PICK lost \in Nat, first \in Nat, bad \in SUBSET (1..Const.blocks), hit \in BOOLEAN,
           other \in BOOLEAN, g \in Frame : Received(lost, first, bad, hit, other, g)
  BY MsopStep
<1>3. Same /\ (Layout # "ABDual" => phase' = phase)
  <2>1. Same /\ phase' = (IF Layout = "ABDual" THEN (Const.blocks + phase) % 2 ELSE 0) BY MsopStep
  <2>2. Layout # "ABDual" => phase = 0 BY <1>1 DEF LidarInv
  <2> QED BY <2>1, <2>2
<1>4. q' = q BY <1>3 DEF Same
<1>5. PacketFirings' = PacketFirings /\ Fault' = Fault /\ PerTurn' = PerTurn BY <1>3, FaultSame, Fixed
<1> SUFFICES ASSUME Following'
             PROVE  /\ pre' \in [prev : Nat, blks : Nat]
                    /\ \E D \in Nat : /\ paced' = splits' + D /\ D <= halves'
                                     /\ Compared(f.sp.prev, pre.prev, D, halves, fired, faults)'
  BY Zenon DEF PaceRight
<1>6. q.mode = "ANGLE" /\ refused' = 0 /\ PacketFirings + faults' * Fault + 2 <= PerTurn
  BY <1>4, <1>5, Zenon DEF Following, LessThanATurnLost, Fault
<1>7. PICK n \in Nat, i \in Nat, b \in {0, 1} :
        /\ n = faults /\ i = faults' /\ b = Counts(bad # {} \/ other) /\ i >= n + Counts(lost > 0) + b
  <2>1. faults' \in Nat /\ faults' >= faults + Counts(lost > 0) + Counts(bad # {}) + Counts(other)
    BY <1>2, Zenon DEF Received
  <2>2. Counts(bad # {} \/ other) \in {0, 1} /\ Counts(lost > 0) \in {0, 1}
        /\ Counts(bad # {}) \in {0, 1} /\ Counts(other) \in {0, 1}
        /\ Counts(bad # {} \/ other) <= Counts(bad # {}) + Counts(other)
    BY DEF Counts
  <2>3. faults' >= faults + Counts(lost > 0) + Counts(bad # {} \/ other) BY <1>1, <2>1, <2>2
  <2> QED BY <1>1, <2>1, <2>2, <2>3
<1>8. /\ n * Fault \in Nat /\ i * Fault \in Nat /\ i * Fault >= n * Fault + lost
      /\ bad # {} \/ other => i * Fault >= n * Fault + lost + PacketFirings
  <2>1. lost \in {0, Lost} BY <1>2, Zenon DEF Received
  <2>2. bad # {} \/ other => b = 1 BY <1>7 DEF Counts
  <2> QED BY <1>1, <1>7, <2>1, <2>2, FaultCost
<1>9. PacketFirings + i * Fault + 2 <= PerTurn BY <1>6, <1>7, Zenon
<1>10. refused = 0 /\ ~(q.wait /\ ~d.ready) /\ f'.err # "UNSUPPORTED"
  <2>1. refused' = refused + Counts((q.wait /\ ~d.ready) \/ f'.err = "UNSUPPORTED") BY <1>2, Zenon DEF Received
  <2>2. PICK c \in {0, 1} : c = Counts((q.wait /\ ~d.ready) \/ f'.err = "UNSUPPORTED") BY DEF Counts
  <2>3. refused = 0 /\ c = 0 BY <1>1, <1>6, <2>1, <2>2
  <2>4. ~((q.wait /\ ~d.ready) \/ f'.err = "UNSUPPORTED") BY <2>2, <2>3 DEF Counts
  <2> QED BY <2>3, <2>4
<1>11. Following
  <2>1. PICK x \in Nat, y \in Nat, P \in Nat, z \in Nat : x = n * Fault /\ y = i * Fault /\ P = PerTurn /\ z = PacketFirings
    BY <1>1, <1>8, FaultBounds, Geometry
  <2>2. z + x + 2 <= P BY <1>8, <1>9, <2>1
  <2>3. PacketFirings + n * Fault + 2 <= PerTurn BY <2>1, <2>2
  <2>4. LessThanATurnLost BY <1>7, <2>3, Zenon DEF LessThanATurnLost, Fault
  <2> QED BY <1>6, <1>10, <2>4 DEF Following
<1>12. PICK D0 \in Nat : /\ pre \in [prev : Nat, blks : Nat] /\ paced = splits + D0 /\ D0 <= halves
                         /\ Compared(f.sp.prev, pre.prev, D0, halves, fired, n)
  BY <1>7, <1>11, Zenon DEF PaceRight
<1>13. PICK l \in Nat : l = first + FiringOf(Const.blocks + 1) /\ first + FiringOf(Const.blocks + 1) \in Nat
                        /\ FiringOf(Const.blocks + 1) \in Nat /\ FiringOf(Const.blocks + 1) <= PacketFirings
  <2>1. Const.blocks \in 1..Const.blocks BY <1>1, Configured, LidarConst
  <2>2. FiringOf(Const.blocks + 1) \in Nat BY <1>1, <2>1, FiringNext
  <2> QED BY <1>1, <2>2, LastFiring
<1>14. PICK half \in SUBSET bad : Reported(MsopPkt(first, bad, half, hit, other), half)
  BY <1>2, Zenon DEF Received
<1>15. PICK p : p = MsopPkt(first, bad, half, hit, other) OBVIOUS
<1>16. PICK y, u : y = f' /\ u = IsNewFrame(p) OBVIOUS
<1>17. PICK sn \in SUBSET bad : sn = bad \ half OBVIOUS
<1>18. /\ half # {} => lidar \in {"RSAIRY", "RSFAIRY"}
       /\ pre' = u.sp /\ paced' = paced + Counts(u.split) /\ halves' = halves + Counts(half # {})
       /\ splits' = splits + Counts(y.ret) /\ fired' = l
  BY <1>2, <1>13, <1>14, <1>15, <1>16, Zenon DEF Received, Reported
<1>19. PICK h \in Nat, H \in Nat :
         h = halves /\ H = halves' /\ h <= H /\ (sn # bad => h + 1 <= H) /\ D0 <= h
  <2>1. halves \in Nat BY <1>1 DEF LidarInv
  <2>2. sn # bad => half # {} BY <1>17
  <2>3. Counts(half # {}) \in {0, 1} /\ (half # {} => Counts(half # {}) = 1) BY DEF Counts
  <2> QED BY <1>12, <1>18, <2>1, <2>2, <2>3
<1>20. PICK k \in Nat : k = fired BY <1>1
<1>21. first = k + lost /\ k <= first
  <2>1. first = k + lost BY <1>2, <1>20, Zenon DEF Received
  <2> QED BY <2>1
<1>22. PICK v, w, sp : v = f.sp.prev /\ w = pre.prev /\ sp = pre OBVIOUS
<1>23. Compared(v, w, D0, h, k, n) BY <1>12, <1>19, <1>20, <1>22, Zenon
<1>24. g.sp = f.sp
  <2>1. g = f \/ g = [f EXCEPT !.cloud = <<>>] BY <1>2, Zenon DEF Received
  <2> QED BY <1>1, <2>1 DEF Frame
<1>25. p.other = other BY <1>15 DEF MsopPkt
<1>26. lidar \in LidarNames BY <1>1, Configured
<1>27. PICK ret \in BOOLEAN : ret <=> y.ret OBVIOUS
<1>28. /\ u.sp \in [prev : Nat, blks : Nat]
       /\ \E D \in Nat, split \in BOOLEAN :
            /\ (split <=> u.split) /\ D + Counts(y.ret) = D0 + Counts(split) /\ (sn = bad => D <= H)
            /\ Compared(y.sp.prev, u.sp.prev, D, H, l, i)
  <2>1. CASE other
    <3>1. lidar \in {"RSAIRY", "RSFAIRY"} BY <1>2, <2>1, Zenon DEF Received
    <3>2. u.sp = pre /\ ~u.split
      <4>1. other /\ lidar \in {"RSAIRY", "RSFAIRY"} => IsNewFrame(p).sp = pre /\ ~IsNewFrame(p).split
        BY <1>25, <1>26, NewFrameFeeds, Zenon
      <4> QED BY <1>16, <2>1, <3>1, <4>1, Zenon
    <3>3. y = [g EXCEPT !.ret = FALSE, !.err = "none"]
      <4>1. y = [g EXCEPT !.ret = FALSE, !.err = "none"] \/ ~other BY <1>2, <1>16, Zenon DEF Received
      <4> QED BY <2>1, <4>1
    <3>4. y.sp = f.sp /\ ~y.ret BY <1>24, <3>3 DEF Frame
    <3>5. k <= l /\ l - k + n * Fault <= i * Fault
      <4>1. PICK c \in Nat, x \in Nat, t \in Nat, z \in Nat :
              c = i * Fault /\ x = n * Fault /\ t = FiringOf(Const.blocks + 1) /\ z = PacketFirings
        BY <1>1, <1>8, <1>13, FaultBounds
      <4>2. c >= x + lost + z BY <1>8, <2>1, <4>1, Zenon
      <4>3. l = first + t /\ t <= z BY <1>13, <4>1, Zenon
      <4> QED BY <1>21, <4>1, <4>2, <4>3
    <3>6. n * Fault \in Nat /\ i * Fault \in Nat /\ h <= H BY <1>8, <1>19
    <3>7. Compared(v, w, D0, H, l, i) BY <1>1, <1>23, <3>5, <3>6, ComparedLater
    <3>8. PICK split \in BOOLEAN : ~split /\ (split <=> u.split) BY <3>2
    <3>9. D0 + Counts(y.ret) = D0 + Counts(split) /\ D0 <= H BY <1>19, <3>4, <3>8 DEF Counts
    <3>10. Compared(y.sp.prev, u.sp.prev, D0, H, l, i) BY <1>22, <3>2, <3>4, <3>7, Zenon
    <3> QED BY <1>12, <3>2, <3>8, <3>9, <3>10, Zenon
  <2>2. CASE ~other
    <3>1. PICK kn \in BOOLEAN : Decoded(y, first, bad, kn, g)
      <4>1. \/ y = [g EXCEPT !.ret = FALSE, !.err = "UNSUPPORTED"]
            \/ \E kn \in BOOLEAN : Decoded(y, first, bad, kn, g)
        BY <1>2, <1>10, <1>16, <2>2, Zenon DEF Received
      <4>2. y # [g EXCEPT !.ret = FALSE, !.err = "UNSUPPORTED"]
        <5>1. [g EXCEPT !.ret = FALSE, !.err = "UNSUPPORTED"].err = "UNSUPPORTED" BY DEF Frame
        <5> QED BY <1>10, <1>16, <5>1, Zenon
      <4> QED BY <4>1, <4>2
    <3>2. PICK s, e : s = Seen(p) /\ e = d OBVIOUS
    <3>3. u = FeedUntilSplit(q, e, Const, sp, s)
      <4>1. ~other => IsNewFrame(p) = FeedUntilSplit(q, d, Const, pre, Seen(p)) BY <1>25, <1>26, NewFrameFeeds, Zenon
      <4> QED BY <1>16, <1>22, <2>2, <3>2, <4>1, Zenon
    <3>4. PICK no \in BOOLEAN : ~no OBVIOUS
    <3>5. PacketOf(s, first, sn, no) BY <1>1, <1>15, <1>17, <1>18, <3>2, <3>4, PacketSeen
    <3>6. Compared(g.sp.prev, sp.prev, D0, H, k, n)
      <4>1. k <= k /\ k - k + n * Fault <= n * Fault /\ n * Fault \in Nat /\ h <= H BY <1>8, <1>19
      <4>2. Compared(v, w, D0, H, k, n) BY <1>1, <1>23, <4>1, ComparedLater
      <4> QED BY <1>22, <1>24, <4>2, Zenon
    <3>7. Given(y, u, g, sp, first, bad, sn) BY <3>1, <3>3, <3>5, Zenon DEF Given
    <3>8. CloseBy(k, n, lost, bad, i) BY <1>8, <1>9, Zenon DEF CloseBy
    <3>9. (sn # bad => H >= 1) /\ (sn = bad => D0 <= H) BY <1>19
    <3>10. MadeOf(u, y, first, i, bad, sn, D0, H)
      <4>1. sp \in [prev : Nat, blks : Nat] BY <1>12, <1>22
      <4> QED BY <1>1, <1>6, <1>21, <3>6, <3>7, <3>8, <3>9, <4>1, ComparedDecoded
    <3> QED BY <1>13, <3>10, Zenon DEF MadeOf
  <2> QED BY <2>1, <2>2
<1>29. PICK D \in Nat, split \in BOOLEAN :
            /\ (split <=> u.split) /\ D + Counts(y.ret) = D0 + Counts(split) /\ (sn = bad => D <= H)
            /\ Compared(y.sp.prev, u.sp.prev, D, H, l, i)
  BY <1>28
<1>30. paced' = splits' + D /\ D <= H
  <2>1. PICK a \in {0, 1}, c \in {0, 1} : a = Counts(split) /\ c = Counts(y.ret) BY DEF Counts
  <2>2. Counts(u.split) = a BY <1>29, <2>1 DEF Counts
  <2>3. D + c = D0 + a /\ paced' = splits + D0 + a /\ splits' = splits + c BY <1>12, <1>18, <1>29, <2>1, <2>2
  <2>4. D <= D0 + 1 BY <2>1, <2>3
  <2>5. paced' = splits' + D BY <1>1, <2>1, <2>3
  <2>6. D <= H
    <3>1. CASE sn = bad BY <1>29, <3>1
    <3>2. CASE sn # bad BY <1>19, <2>4, <3>2
    <3> QED BY <3>1, <3>2
  <2> QED BY <2>5, <2>6
<1>31. PICK v1, w1 : v1 = y.sp.prev /\ w1 = u.sp.prev OBVIOUS
<1>32. Compared(v1, w1, D, H, l, i) BY <1>29, <1>31, Zenon
<1>33. Compared(v1, w1, D, H, l, i)' BY <1>3, <1>32, ComparedSame
<1>34. (f.sp.prev)' = v1 /\ (pre.prev)' = w1 /\ halves' = H /\ fired' = l /\ faults' = i
  BY <1>7, <1>16, <1>18, <1>19, <1>31, Zenon
<1>35. Compared(f.sp.prev, pre.prev, D, halves, fired, faults)' BY <1>33, <1>34, Zenon DEF Compared
<1> QED BY <1>18, <1>19, <1>28, <1>30, <1>35, Zenon

LEMMA PacedRight ==
  ASSUME MechInv, PaceRight
  PROVE  PacedAsSplit
<1>1. splits \in Nat /\ halves \in Nat BY DEF MechInv, LidarInv
<1> SUFFICES ASSUME Following PROVE splits <= paced /\ paced <= splits + halves
  BY Zenon DEF PacedAsSplit, Following
<1>2. PICK D \in Nat : paced = splits + D /\ D <= halves BY Zenon DEF PaceRight
<1> QED BY <1>1, <1>2

\* A turn becomes a cloud, a step of the recording's pace and a stamp: split by angle, a
\* cloud holds one turn and a turn is in one cloud; as long as less than a turn is lost,
\* isNewFrame reports before a packet is decoded what decoding it splits, or will split,
\* never too few frames and at most one too many for each packet with a block whose id
\* only decodeMsopPkt finds wrong; and the stamps are in the order of the points.
THEOREM TurnsBecomeClouds == Spec => []TurnsAreClouds
<1> DEFINE Inv == MechInv /\ TurnsRight /\ StampsRight /\ PaceRight
<1>1. Init => Inv BY TypedStart, TurnsStart, StampsStart, PaceStart
<1>2. Inv /\ [Next]_vars => Inv'
  <2> SUFFICES ASSUME MechInv, TurnsRight, StampsRight, PaceRight, [Next]_vars
               PROVE  MechInv' /\ TurnsRight' /\ StampsRight' /\ PaceRight'
    OBVIOUS
  <2>1. CASE RecvDifop
    <3>1. DecoderInv' /\ LidarInv' /\ Same /\ f' = f /\ fired' = fired BY <2>1, TypedDifop
    <3>2. f' \in Frame BY <3>1 DEF MechInv
    <3>3. TurnsRight' /\ StampsRight' BY <3>1, TurnsStay, StampsStay
    <3>4. /\ phase' = phase /\ pre' = pre /\ paced' = paced /\ splits' = splits /\ refused' = refused
          /\ halves' = halves /\ faults' = faults
      BY <2>1 DEF RecvDifop
    <3>5. PaceRight' BY <3>1, <3>4, PaceStay
    <3> QED BY <3>1, <3>2, <3>3, <3>5 DEF MechInv
  <2>2. CASE RecvMsop BY <2>2, TypedMsop, TurnsKept, StampsKept, PaceKept
  <2>3. CASE UNCHANGED vars
    <3>1. MechInv' /\ Same /\ f' = f /\ fired' = fired BY <2>3, Unchanged
    <3>2. /\ phase' = phase /\ pre' = pre /\ paced' = paced /\ splits' = splits /\ refused' = refused
          /\ halves' = halves /\ faults' = faults
      BY <2>3 DEF vars
    <3> QED BY <3>1, <3>2, TurnsStay, StampsStay, PaceStay
  <2> QED BY <2>1, <2>2, <2>3 DEF Next
<1>3. Inv => TurnsAreClouds BY TurnsPerCloud, StampsOrdered, PacedRight DEF TurnsAreClouds
<1> QED BY <1>1, <1>2, <1>3, PTL DEF Spec
===============================================================================
