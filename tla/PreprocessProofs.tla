--------------------------- MODULE PreprocessProofs ---------------------------
(***************************************************************************)
(* For every choice of messages that MessagesAssumption allows, of rings,  *)
(* parts and point_filter_num: what the handlers keep of a message, at     *)
(* which time, and where they read.                                        *)
(***************************************************************************)
EXTENDS Preprocess, FoldTheorems

-----------------------------------------------------------------------------
(* Picked *)

\* Where the elements of Picked(s, K) are in s.
Picks(s, K, p) ==
  /\ p \in Seq(1..Len(s))
  /\ \A a \in 1..Len(p) : p[a] \in K
  /\ \A a, b \in 1..Len(p) : a < b => p[a] < p[b]
  /\ \A k \in 1..Len(s) : k \in K => \E a \in 1..Len(p) : p[a] = k

Singles(s, K, n) == [k \in 1..n |-> IF k \in K THEN <<s[k]>> ELSE <<>>]
PicksUpTo(s, K, n, p) ==
  /\ p \in Seq(1..n)
  /\ \A a \in 1..Len(p) : p[a] \in K
  /\ \A a, b \in 1..Len(p) : a < b => p[a] < p[b]
  /\ \A k \in 1..n : k \in K => \E a \in 1..Len(p) : p[a] = k
  /\ FlattenSeq(Singles(s, K, n)) = [a \in 1..Len(p) |-> s[p[a]]]

LEMMA PickOneMore ==
  ASSUME NEW S, NEW s \in Seq(S), NEW K, NEW n \in Nat, n + 1 <= Len(s),
         NEW p, PicksUpTo(s, K, n, p)
  PROVE  \E r : PicksUpTo(s, K, n + 1, r)
<1> DEFINE x == IF n + 1 \in K THEN <<s[n + 1]>> ELSE <<>>
           u == Singles(s, K, n)
<1>1. u \in Seq(Seq(S)) /\ x \in Seq(S)
  <2>1. \A k \in 1..(n + 1) : s[k] \in S OBVIOUS
  <2>2. \A k \in 1..n : (IF k \in K THEN <<s[k]>> ELSE <<>>) \in Seq(S)
    <3> TAKE k \in 1..n
    <3>1. k \in 1..(n + 1) OBVIOUS
    <3>2. s[k] \in S BY <3>1, <2>1
    <3> QED BY <3>2
  <2>3. n + 1 \in 1..(n + 1) OBVIOUS
  <2>4. s[n + 1] \in S BY <2>3, <2>1
  <2> QED BY <2>2, <2>4 DEF Singles
<1>2. Singles(s, K, n + 1) = Append(u, x)
  <2>1. Len(u) = n BY DEF Singles
  <2>2. Append(u, x) = [k \in 1..(n + 1) |-> IF k = n + 1 THEN x ELSE u[k]]
    BY <1>1, <2>1
  <2>3. \A k \in 1..n : u[k] = IF k \in K THEN <<s[k]>> ELSE <<>>
    BY DEF Singles
  <2> HIDE DEF u
  <2> QED BY <2>2, <2>3 DEF Singles
<1>3. FlattenSeq(Singles(s, K, n + 1)) = FlattenSeq(u) \o x
  <2> HIDE DEF u, x
  <2> QED BY <1>1, <1>2, FlattenAppend
<1>4. FlattenSeq(u) = [a \in 1..Len(p) |-> s[p[a]]] /\ p \in Seq(1..n)
  BY DEF PicksUpTo
<1>5. /\ \A a \in 1..Len(p) : p[a] \in K /\ p[a] \in 1..n
      /\ \A a, b \in 1..Len(p) : a < b => p[a] < p[b]
      /\ \A k \in 1..n : k \in K => \E a \in 1..Len(p) : p[a] = k
  BY DEF PicksUpTo
<1> HIDE DEF u
<1>6. CASE n + 1 \in K
  <2> DEFINE r == Append(p, n + 1)
  <2>1. /\ r \in Seq(1..(n + 1)) /\ Len(r) = Len(p) + 1 /\ r[Len(p) + 1] = n + 1
        /\ \A a \in 1..Len(p) : r[a] = p[a]
    BY <1>4
  <2>2. \A a \in 1..Len(r) : a \in 1..Len(p) \/ a = Len(p) + 1
    BY <2>1, <1>4
  <2>3. x = <<s[n + 1]>> BY <1>6
  <2>4. FlattenSeq(u) \o x = [a \in 1..(Len(p) + 1) |-> IF a <= Len(p) THEN s[p[a]] ELSE s[n + 1]]
    BY <1>4, <2>3
  <2> HIDE DEF r, x
  <2>5. FlattenSeq(u) \o x = [a \in 1..Len(r) |-> s[r[a]]]
    BY <2>1, <2>2, <2>4, <1>4
  <2>6. \A a \in 1..Len(r) : r[a] \in K
    BY <2>1, <2>2, <1>5, <1>6
  <2>7. \A a, b \in 1..Len(r) : a < b => r[a] < r[b]
    <3> TAKE a, b \in 1..Len(r)
    <3> HAVE a < b
    <3>1. a \in 1..Len(p) /\ Len(p) \in Nat BY <2>1, <1>4
    <3>2. r[a] = p[a] /\ p[a] \in 1..n BY <3>1, <2>1, <1>5
    <3>3. CASE b \in 1..Len(p)
      <4>1. r[b] = p[b] /\ p[a] < p[b] BY <3>1, <3>3, <2>1, <1>5
      <4> QED BY <3>2, <4>1
    <3>4. CASE b = Len(p) + 1
      BY <3>2, <3>4, <2>1
    <3> QED BY <3>3, <3>4, <2>2
  <2>8. \A k \in 1..(n + 1) : k \in K => \E a \in 1..Len(r) : r[a] = k
    <3> TAKE k \in 1..(n + 1)
    <3>1. CASE k = n + 1
      <4>1. Len(p) + 1 \in 1..Len(r) BY <2>1, <1>4
      <4> QED BY <2>1, <3>1, <4>1
    <3>2. CASE k \in 1..n /\ k \in K
      <4>1. PICK a \in 1..Len(p) : p[a] = k BY <3>2, <1>5
      <4>2. a \in 1..Len(r) BY <2>1, <1>4
      <4> QED BY <2>1, <4>1, <4>2
    <3> QED BY <3>1, <3>2
  <2>9. FlattenSeq(Singles(s, K, n + 1)) = [a \in 1..Len(r) |-> s[r[a]]]
    BY <1>3, <2>5, Zenon
  <2>10. PicksUpTo(s, K, n + 1, r)
    BY <2>1, <2>6, <2>7, <2>8, <2>9, Zenon DEF PicksUpTo
  <2> QED BY <2>10
<1>7. CASE n + 1 \notin K
  <2>1. x = <<>> BY <1>7
  <2>2. FlattenSeq(u) \o x = FlattenSeq(u) BY <2>1, <1>4
  <2>3. p \in Seq(1..(n + 1)) BY <1>4
  <2>4. \A k \in 1..(n + 1) : k \in K => k \in 1..n BY <1>7
  <2> HIDE DEF x
  <2>5. FlattenSeq(Singles(s, K, n + 1)) = [a \in 1..Len(p) |-> s[p[a]]]
    BY <1>3, <1>4, <2>2, Zenon
  <2>6. \A k \in 1..(n + 1) : k \in K => \E a \in 1..Len(p) : p[a] = k
    BY <1>5, <2>4
  <2>7. PicksUpTo(s, K, n + 1, p)
    BY <1>5, <2>3, <2>5, <2>6, Zenon DEF PicksUpTo
  <2> QED BY <2>7
<1> QED BY <1>6, <1>7

\* Picked takes the elements at the places in K, in order, and no others.
THEOREM PickedPicks ==
  ASSUME NEW S, NEW s \in Seq(S), NEW K
  PROVE  \E p : Picks(s, K, p) /\ Picked(s, K) = [a \in 1..Len(p) |-> s[p[a]]]
<1> DEFINE T == {n \in Nat : n <= Len(s) => \E p : PicksUpTo(s, K, n, p)}
<1>1. 0 \in T
  <2>1. Singles(s, K, 0) = <<>> BY DEF Singles
  <2>2. FlattenSeq(<<>>) = <<>> BY DEF FlattenSeq
  <2>3. FlattenSeq(Singles(s, K, 0)) = <<>> BY <2>1, <2>2, Zenon
  <2>4. <<>> = [a \in 1..Len(<<>>) |-> s[<<>>[a]]]
    <3>1. <<>> \in Seq(1..0) /\ Len(<<>>) = 0 OBVIOUS
    <3> QED BY <3>1
  <2>5. FlattenSeq(Singles(s, K, 0)) = [a \in 1..Len(<<>>) |-> s[<<>>[a]]]
    BY <2>3, <2>4, Zenon
  <2>6. /\ <<>> \in Seq(1..0)
        /\ \A a \in 1..Len(<<>>) : FALSE
        /\ \A k \in 1..0 : FALSE
    OBVIOUS
  <2>7. PicksUpTo(s, K, 0, <<>>) BY <2>5, <2>6, Zenon DEF PicksUpTo
  <2> QED BY <2>7
<1>2. \A n \in Nat : n \in T => n + 1 \in T
  <2> SUFFICES ASSUME NEW n \in Nat, n \in T, n + 1 <= Len(s)
               PROVE  \E p : PicksUpTo(s, K, n + 1, p)
    OBVIOUS
  <2>1. PICK p : PicksUpTo(s, K, n, p) OBVIOUS
  <2> QED BY <2>1, PickOneMore
<1> HIDE DEF T
<1>3. Len(s) \in T BY <1>1, <1>2, Induction
<1>4. PICK p : PicksUpTo(s, K, Len(s), p) BY <1>3 DEF T
<1>5. Picked(s, K) = FlattenSeq(Singles(s, K, Len(s))) BY DEF Picked, Singles
<1> QED BY <1>4, <1>5 DEF PicksUpTo, Picks

-----------------------------------------------------------------------------
(* Points of a cloud *)

\* The points of s are n's, a message of "size" points, and no two are the same.
OneEach(n, size, s) ==
  /\ Len(s) \in Nat
  /\ \A a \in 1..Len(s) : s[a].of = n /\ s[a].i \in 1..size
  /\ \A a, b \in 1..Len(s) : s[a].i = s[b].i => a = b

\* Every element of t is one of s.
Among(t, s) == \A a \in 1..Len(t) : \E b \in 1..Len(s) : t[a] = s[b]

LEMMA PickedOneEach ==
  ASSUME NEW S, NEW s \in Seq(S), NEW K, NEW n, NEW size, OneEach(n, size, s)
  PROVE  OneEach(n, size, Picked(s, K)) /\ Among(Picked(s, K), s)
<1>1. PICK p : Picks(s, K, p) /\ Picked(s, K) = [a \in 1..Len(p) |-> s[p[a]]]
  BY PickedPicks
<1> DEFINE t == Picked(s, K)
<1>2. /\ p \in Seq(1..Len(s))
      /\ \A a, b \in 1..Len(p) : a < b => p[a] < p[b]
  BY <1>1 DEF Picks
<1>3. /\ Len(p) \in Nat /\ Len(t) = Len(p)
      /\ \A a \in 1..Len(t) : t[a] = s[p[a]] /\ p[a] \in 1..Len(s)
  BY <1>1, <1>2
<1> HIDE DEF t
<1>4. \A a, b \in 1..Len(t) : t[a].i = t[b].i => a = b
  <2> TAKE a, b \in 1..Len(t)
  <2> HAVE t[a].i = t[b].i
  <2>1. p[a] = p[b] BY <1>3 DEF OneEach
  <2>2. p[a] \in Nat /\ p[b] \in Nat BY <1>3
  <2> QED BY <2>1, <2>2, <1>2, <1>3
<1>5. \A a \in 1..Len(t) : t[a].of = n /\ t[a].i \in 1..size
  BY <1>3 DEF OneEach
<1>6. Among(t, s)
  BY <1>3 DEF Among
<1> QED BY <1>3, <1>4, <1>5, <1>6 DEF OneEach, t

\* A message as it came.
LEMMA UntimedOneEach ==
  ASSUME NEW m, Size(m) \in Nat
  PROVE  /\ Untimed(m) \in Seq({Out(i, m.points[i].time) : i \in 1..Size(m)})
         /\ OneEach(received, Size(m), Untimed(m))
         /\ \A a \in 1..Len(Untimed(m)) : Untimed(m)[a].curvature = m.points[Untimed(m)[a].i].time
<1> DEFINE u == Untimed(m)
<1>1. /\ u = [i \in 1..Size(m) |-> Out(i, m.points[i].time)]
      /\ Len(u) = Size(m)
      /\ \A i \in 1..Size(m) : u[i] = Out(i, m.points[i].time)
  BY DEF Untimed
<1>2. u \in Seq({Out(i, m.points[i].time) : i \in 1..Size(m)})
  BY <1>1
<1> HIDE DEF u
<1>3. \A i \in 1..Size(m) :
        u[i].of = received /\ u[i].i = i /\ u[i].curvature = m.points[i].time
  BY <1>1 DEF Out
<1> QED BY <1>1, <1>2, <1>3 DEF OneEach, u

-----------------------------------------------------------------------------
(* The times of a Velodyne message *)

\* What velodyne_handler has worked out of the first n points of m.
Start == [fp |-> NoRings, last |-> [r \in Rings |-> 0], out |-> <<>>]
After(m, n, g) == g = [i \in 0..n |-> IF i = 0 THEN Start ELSE YawStep(m, g[i - 1], i)]

LEMMA AfterAt ==
  ASSUME NEW m, NEW n, NEW g, After(m, n, g), NEW i \in 0..n
  PROVE  g[i] = IF i = 0 THEN Start ELSE YawStep(m, g[i - 1], i)
  BY Zenon DEF After

LEMMA AfterNext ==
  ASSUME NEW m, NEW n \in Nat, NEW g, After(m, n, g)
  PROVE  \E h : After(m, n + 1, h)
<1> DEFINE h == [i \in 0..(n + 1) |-> IF i = n + 1 THEN YawStep(m, g[n], n + 1) ELSE g[i]]
<1>1. \A i \in 0..(n + 1) : h[i] = IF i = 0 THEN Start ELSE YawStep(m, h[i - 1], i)
  <2> TAKE i \in 0..(n + 1)
  <2>1. CASE i = n + 1
    <3>1. n \in 0..(n + 1) /\ n # n + 1 /\ i # 0 /\ i - 1 = n BY <2>1
    <3>2. h[n] = g[n] /\ h[i] = YawStep(m, g[n], n + 1) BY <3>1, <2>1
    <3> HIDE DEF h
    <3>3. h[i] = YawStep(m, h[i - 1], i) BY <3>1, <3>2, <2>1
    <3> QED BY <3>1, <3>3, Zenon
  <2>2. CASE i # n + 1
    <3>1. i \in 0..n /\ (i # 0 => i - 1 \in 0..(n + 1) /\ i - 1 # n + 1) BY <2>2
    <3>2. h[i] = g[i] /\ (i # 0 => h[i - 1] = g[i - 1]) BY <2>2, <3>1
    <3> HIDE DEF h
    <3>3. g[i] = IF i = 0 THEN Start ELSE YawStep(m, g[i - 1], i)
      BY <3>1, AfterAt
    <3>4. CASE i = 0 BY <3>2, <3>3, <3>4
    <3>5. CASE i # 0
      <4>1. g[i] = YawStep(m, g[i - 1], i) BY <3>3, <3>5, Zenon
      <4>2. h[i] = YawStep(m, h[i - 1], i) BY <4>1, <3>2, <3>5
      <4> QED BY <4>2, <3>5, Zenon
    <3> QED BY <3>4, <3>5
  <2> QED BY <2>1, <2>2
<1>2. h = [i \in 0..(n + 1) |-> h[i]] OBVIOUS
<1> HIDE DEF h
<1>3. h = [i \in 0..(n + 1) |-> IF i = 0 THEN Start ELSE YawStep(m, h[i - 1], i)]
  BY <1>1, <1>2, Zenon
<1> QED BY <1>3 DEF After

LEMMA AfterExists ==
  ASSUME NEW m, NEW n \in Nat
  PROVE  \E g : After(m, n, g)
<1> DEFINE T == {k \in Nat : \E g : After(m, k, g)}
<1>1. 0 \in T
  <2> DEFINE g == [i \in 0..0 |-> Start]
  <2>1. After(m, 0, g)
    <3>1. \A i \in 0..0 : i = 0 OBVIOUS
    <3>2. g = [i \in 0..0 |-> IF i = 0 THEN Start ELSE YawStep(m, g[i - 1], i)]
      BY <3>1
    <3> QED BY <3>2 DEF After
  <2> QED BY <2>1
<1>2. \A k \in Nat : k \in T => k + 1 \in T
  BY AfterNext
<1> HIDE DEF T
<1>3. n \in T BY <1>1, <1>2, Induction
<1> QED BY <1>3 DEF T

LEMMA TimedAfter ==
  ASSUME NEW m, Size(m) \in Nat, ~Given(m)
  PROVE  \E g : After(m, Size(m), g) /\ Timed(m) = g[Size(m)].out
<1> DEFINE g == CHOOSE f : f = [i \in 0..Size(m) |->
                  IF i = 0 THEN [fp |-> NoRings, last |-> [r \in Rings |-> 0], out |-> <<>>]
                  ELSE YawStep(m, f[i - 1], i)]
<1>1. \E f : f = [i \in 0..Size(m) |->
                  IF i = 0 THEN [fp |-> NoRings, last |-> [r \in Rings |-> 0], out |-> <<>>]
                  ELSE YawStep(m, f[i - 1], i)]
  BY AfterExists DEF After, Start
<1>2. g = [i \in 0..Size(m) |->
                  IF i = 0 THEN [fp |-> NoRings, last |-> [r \in Rings |-> 0], out |-> <<>>]
                  ELSE YawStep(m, g[i - 1], i)]
  BY <1>1, Zenon
<1>3. After(m, Size(m), g)
  <2> HIDE DEF g
  <2> QED BY <1>2, Zenon DEF After, Start
<1>4. Timed(m) = g[Size(m)].out
  BY Zenon DEF Timed
<1> HIDE DEF g
<1> QED BY <1>3, <1>4

LEMMA Constants ==
  /\ Turn \in Nat /\ Turn > 0 /\ Turn % 2 = 0
  /\ N_SCANS \in Nat /\ N_SCANS > 0
  /\ Rings \subseteq Nat
<1>1. Turn \in Nat \ {0} /\ N_SCANS \in Nat \ {0} /\ Turn % 2 = 0
  BY PreprocessAssumption DEF PreprocessAssumption
<1>2. Rings \subseteq Nat
  <2>1. 0..(N_SCANS - 1) \subseteq Nat BY <1>1
  <2> QED BY <2>1 DEF Rings
<1> QED BY <1>1, <1>2

LEMMA WholeTurns ==
  ASSUME NEW x \in Int, x % Turn = 0, 0 - Turn < x, x < 3 * Turn
  PROVE  x = 0 \/ x = Turn \/ x = 2 * Turn
<1> DEFINE k == x \div Turn
<1>1. k \in Int /\ x = Turn * k
  BY Constants, SMTT(20)
<1> HIDE DEF k
<1>2. k > 0 - 1
  <2> SUFFICES ASSUME k <= 0 - 1 PROVE FALSE
    BY <1>1
  <2>1. Turn * k <= Turn * (0 - 1) BY Constants, <1>1, SMTT(20)
  <2> QED BY <2>1, <1>1, Constants
<1>3. k < 3
  <2> SUFFICES ASSUME k >= 3 PROVE FALSE
    BY <1>1
  <2>1. Turn * k >= Turn * 3 BY Constants, <1>1, SMTT(20)
  <2> QED BY <2>1, <1>1, Constants
<1>4. k = 0 \/ k = 1 \/ k = 2 BY <1>1, <1>2, <1>3
<1> QED BY <1>1, <1>4, Constants

\* The angle between two returns, and a turn if the lidar has passed the last one again,
\* is how far the lidar has turned.
LEMMA AngleTurned ==
  ASSUME NEW yaw \in (1 - Turn \div 2)..(Turn \div 2), NEW fp \in (1 - Turn \div 2)..(Turn \div 2),
         NEW turned \in Nat, NEW last \in Nat,
         (turned + yaw - fp) % Turn = 0,
         last <= turned, turned < last + Turn, turned < 2 * Turn
  PROVE  Angle(yaw, fp, last) = turned
<1>1. /\ yaw \in Int /\ fp \in Int
      /\ fp - yaw < Turn /\ yaw - fp < Turn
  BY Constants
<1> DEFINE x == turned + yaw - fp
<1>2. CASE yaw <= fp
  <2>1. x \in Int /\ 0 - Turn < x /\ x < 3 * Turn BY <1>1, <1>2, Constants
  <2>2. x = 0 \/ x = Turn \/ x = 2 * Turn
    <3> HIDE DEF x
    <3>1. x % Turn = 0 BY DEF x
    <3> QED BY <2>1, <3>1, WholeTurns
  <2>3. x < 2 * Turn BY <1>1, <1>2, Constants
  <2>4. turned = fp - yaw \/ turned = fp - yaw + Turn BY <2>2, <2>3, <1>1, Constants
  <2> QED BY <2>4, <1>1, <1>2, Constants DEF Angle
<1>3. CASE ~(yaw <= fp)
  <2>1. x \in Int /\ 0 - Turn < x /\ x < 3 * Turn /\ x > 0 BY <1>1, <1>3, Constants
  <2>2. x = 0 \/ x = Turn \/ x = 2 * Turn
    <3> HIDE DEF x
    <3>1. x % Turn = 0 BY DEF x
    <3> QED BY <2>1, <3>1, WholeTurns
  <2>4. turned = fp - yaw + Turn \/ turned = fp - yaw + Turn + Turn BY <2>1, <2>2, <1>1, Constants
  <2> QED BY <2>4, <1>1, <1>3, Constants DEF Angle
<1> QED BY <1>2, <1>3

\* Between two points of a ring the lidar has turned by a time that Angle finds.
LEMMA Turned ==
  ASSUME NEW m, Size(m) \in Nat, VelodyneMessage(m), Steady(m),
         NEW f \in 1..Size(m), NEW p \in 1..Size(m), NEW j \in 1..Size(m),
         f <= p, p < j,
         m.points[f].ring = m.points[j].ring, m.points[p].ring = m.points[j].ring,
         \A k \in (p + 1)..(j - 1) : m.points[k].ring # m.points[j].ring
  PROVE  /\ m.points[j].at - m.points[f].at \in Nat
         /\ m.points[p].at - m.points[f].at \in Nat
         /\ Angle(m.points[j].yaw, m.points[f].yaw, m.points[p].at - m.points[f].at)
              = m.points[j].at - m.points[f].at
<1> DEFINE pt(i) == m.points[i]
<1>1. \A i \in 1..Size(m) : pt(i).at \in Nat /\ pt(i).yaw \in (1 - Turn \div 2)..(Turn \div 2)
  BY DEF VelodyneMessage
<1>2. \A n \in 1..Size(m) : \A i \in 1..(n - 1) :
        pt(n).at - pt(i).at >= 0 /\ (pt(n).at - pt(i).at + pt(n).yaw - pt(i).yaw) % Turn = 0
  BY DEF VelodyneMessage
<1>3. \A n \in 1..Size(m) : \A i \in 1..(n - 1) :
        pt(i).ring = pt(n).ring =>
          /\ pt(n).at - pt(i).at < 2 * Turn
          /\ (\A k \in (i + 1)..(n - 1) : pt(k).ring # pt(n).ring) => pt(n).at - pt(i).at < Turn
  BY DEF Steady
<1>4. f \in 1..(j - 1) /\ p \in 1..(j - 1) /\ (f = p \/ f \in 1..(p - 1))
  OBVIOUS
<1> HIDE DEF pt
<1>5. /\ pt(j).at - pt(f).at \in Nat /\ pt(p).at - pt(f).at \in Nat
      /\ pt(p).at - pt(f).at <= pt(j).at - pt(f).at
  BY <1>1, <1>2, <1>4
<1>6. (pt(j).at - pt(f).at + pt(j).yaw - pt(f).yaw) % Turn = 0
  BY <1>2, <1>4
<1>7. pt(f).ring = pt(j).ring /\ pt(p).ring = pt(j).ring
      /\ \A k \in (p + 1)..(j - 1) : pt(k).ring # pt(j).ring
  BY DEF pt
<1>8. pt(j).at - pt(f).at < 2 * Turn
  BY <1>3, <1>4, <1>7
<1>9. pt(j).at - pt(p).at < Turn
  BY <1>3, <1>4, <1>7
<1>10. pt(j).at - pt(f).at < pt(p).at - pt(f).at + Turn
  BY <1>9, <1>1, Constants
<1>11. Angle(pt(j).yaw, pt(f).yaw, pt(p).at - pt(f).at) = pt(j).at - pt(f).at
  BY <1>1, <1>5, <1>6, <1>8, <1>10, AngleTurned
<1> QED BY <1>5, <1>11 DEF pt

\* What is known of a ring after n points: nothing, as none was of it, or the yaw of
\* its first point and how far the lidar has turned from that to its last.
RingSeen(m, n, fp, last, r) ==
  \/ fp = <<>> /\ last = 0 /\ \A k \in 1..n : m.points[k].ring # r
  \/ \E f, p \in 1..n :
       /\ m.points[f].ring = r /\ First(m, f)
       /\ f <= p /\ m.points[p].ring = r /\ \A k \in (p + 1)..n : m.points[k].ring # r
       /\ fp = <<m.points[f].yaw>> /\ last \in Int
       /\ Steady(m) => last = m.points[p].at - m.points[f].at

\* A point that got the time since the first point of its ring.
TimedRight(m, q) ==
  Steady(m) => \E f \in 1..q.i :
    /\ m.points[f].ring = m.points[q.i].ring /\ First(m, f)
    /\ q.curvature = m.points[q.i].at - m.points[f].at

TimedOut(m, n, out) ==
  /\ out \in Seq([of : {received}, i : 1..n, curvature : Int])
  /\ \A a \in 1..Len(out) : TimedRight(m, out[a])
  /\ \A a, b \in 1..Len(out) : out[a].i = out[b].i => a = b

YawInv(m, n, s) ==
  /\ s = [fp |-> s.fp, last |-> s.last, out |-> s.out]
  /\ DOMAIN s.fp = Rings /\ DOMAIN s.last = Rings
  /\ \A r \in Rings : RingSeen(m, n, s.fp[r], s.last[r], r)
  /\ TimedOut(m, n, s.out)

LEMMA YawStart ==
  ASSUME NEW m
  PROVE  YawInv(m, 0, Start)
<1>1. /\ Start = [fp |-> Start.fp, last |-> Start.last, out |-> Start.out]
      /\ Start.fp = NoRings /\ Start.last = [r \in Rings |-> 0] /\ Start.out = <<>>
  BY DEF Start
<1>2. \A r \in Rings : RingSeen(m, 0, Start.fp[r], Start.last[r], r)
  BY <1>1 DEF RingSeen, NoRings
<1>3. /\ Start.out \in Seq([of : {received}, i : 1..0, curvature : Int])
      /\ Len(Start.out) = 0
  BY <1>1
<1>5. TimedOut(m, 0, Start.out)
  BY <1>3 DEF TimedOut
<1>4. DOMAIN Start.fp = Rings /\ DOMAIN Start.last = Rings
  BY <1>1 DEF NoRings
<1> QED BY <1>5, <1>1, <1>2, <1>3, <1>4 DEF YawInv

LEMMA OtherRing ==
  ASSUME NEW m, NEW n \in Nat, NEW fp, NEW last, NEW r, RingSeen(m, n, fp, last, r),
         m.points[n + 1].ring # r
  PROVE  RingSeen(m, n + 1, fp, last, r)
<1>1. CASE fp = <<>> /\ last = 0 /\ \A k \in 1..n : m.points[k].ring # r
  <2>1. \A k \in 1..(n + 1) : m.points[k].ring # r
    <3> TAKE k \in 1..(n + 1)
    <3>1. k \in 1..n \/ k = n + 1 OBVIOUS
    <3> QED BY <1>1, <3>1
  <2> QED BY <1>1, <2>1 DEF RingSeen
<1>2. ASSUME NEW f \in 1..n, NEW p \in 1..n,
             m.points[f].ring = r, First(m, f), f <= p, m.points[p].ring = r,
             \A k \in (p + 1)..n : m.points[k].ring # r,
             fp = <<m.points[f].yaw>>, last \in Int,
             Steady(m) => last = m.points[p].at - m.points[f].at
      PROVE  RingSeen(m, n + 1, fp, last, r)
  <2>1. \A k \in (p + 1)..(n + 1) : m.points[k].ring # r
    <3> TAKE k \in (p + 1)..(n + 1)
    <3>1. k \in (p + 1)..n \/ k = n + 1 OBVIOUS
    <3> QED BY <1>2, <3>1
  <2>2. f \in 1..(n + 1) /\ p \in 1..(n + 1) OBVIOUS
  <2> QED BY <1>2, <2>1, <2>2 DEF RingSeen
<1> QED BY <1>1, <1>2 DEF RingSeen

LEMMA SeqWider ==
  ASSUME NEW A, NEW B, A \subseteq B, NEW s \in Seq(A)
  PROVE  s \in Seq(B) /\ \A a \in 1..Len(s) : s[a] \in A
  OBVIOUS

LEMMA OneWider ==
  ASSUME NEW n \in Nat
  PROVE  [of : {received}, i : 1..n, curvature : Int]
           \subseteq [of : {received}, i : 1..(n + 1), curvature : Int]
<1>1. 1..n \subseteq 1..(n + 1) OBVIOUS

<1> QED BY <1>1

\* A point more in the cloud.
LEMMA OutOneMore ==
  ASSUME NEW m, NEW n \in Nat, NEW out, NEW t \in Int,
         TimedOut(m, n, out), TimedRight(m, Out(n + 1, t))
  PROVE  TimedOut(m, n + 1, Append(out, Out(n + 1, t)))
<1> DEFINE new == Append(out, Out(n + 1, t))
<1>9. /\ out \in Seq([of : {received}, i : 1..n, curvature : Int])
      /\ \A a \in 1..Len(out) : TimedRight(m, out[a])
      /\ \A a, b \in 1..Len(out) : out[a].i = out[b].i => a = b
  BY Zenon DEF TimedOut
<1>1. Out(n + 1, t) = [of |-> received, i |-> n + 1, curvature |-> t] /\ Out(n + 1, t).i = n + 1
  BY DEF Out
<1>2. \A a \in 1..Len(out) : out[a].i # n + 1
  <2> TAKE a \in 1..Len(out)
  <2>1. out[a] \in [of : {received}, i : 1..n, curvature : Int] BY <1>9, SeqWider
  <2>2. out[a].i \in 1..n BY <2>1
  <2> QED BY <2>2
<1>3. out \in Seq([of : {received}, i : 1..(n + 1), curvature : Int])
  BY <1>9, OneWider, SeqWider, ZenonT(40)
<1>4. Out(n + 1, t) \in [of : {received}, i : 1..(n + 1), curvature : Int]
  BY <1>1
<1>5. /\ new \in Seq([of : {received}, i : 1..(n + 1), curvature : Int])
      /\ Len(out) \in Nat /\ Len(new) = Len(out) + 1
      /\ \A a \in 1..Len(out) : new[a] = out[a]
      /\ new[Len(out) + 1] = Out(n + 1, t)
  <2> HIDE DEF new
  <2> DEFINE S == [of : {received}, i : 1..(n + 1), curvature : Int]
  <2> HIDE DEF S
  <2>1. out \in Seq(S) /\ Out(n + 1, t) \in S BY <1>3, <1>4 DEF S
  <2>2. new = Append(out, Out(n + 1, t)) BY DEF new
  <2>3. /\ new \in Seq(S)
        /\ Len(out) \in Nat /\ Len(new) = Len(out) + 1
        /\ \A a \in 1..Len(out) : new[a] = out[a]
        /\ new[Len(out) + 1] = Out(n + 1, t)
    BY <2>1, <2>2
  <2> QED BY <2>3 DEF S
<1> HIDE DEF new
<1>6. \A a \in 1..Len(new) : a \in 1..Len(out) \/ a = Len(out) + 1
  BY <1>5
<1>7. \A a \in 1..Len(new) : TimedRight(m, new[a])
  BY <1>5, <1>6, <1>9
<1>8. \A a, b \in 1..Len(new) : new[a].i = new[b].i => a = b
  <2> TAKE a, b \in 1..Len(new)
  <2> HAVE new[a].i = new[b].i
  <2>1. CASE a \in 1..Len(out) /\ b \in 1..Len(out)
    BY <2>1, <1>5, <1>9
  <2>2. CASE a = Len(out) + 1 /\ b \in 1..Len(out)
    BY <2>2, <1>1, <1>2, <1>5
  <2>3. CASE b = Len(out) + 1 /\ a \in 1..Len(out)
    BY <2>3, <1>1, <1>2, <1>5
  <2> QED BY <2>1, <2>2, <2>3, <1>6
<1>10. TimedOut(m, n + 1, new) BY <1>5, <1>7, <1>8, Zenon DEF TimedOut
<1> QED BY <1>10 DEF new

LEMMA YawStepRight ==
  ASSUME NEW m, Size(m) \in Nat, VelodyneMessage(m),
         NEW n \in Nat, n + 1 <= Size(m), NEW s, YawInv(m, n, s)
  PROVE  YawInv(m, n + 1, YawStep(m, s, n + 1))
<1> DEFINE r == m.points[n + 1].ring
           yaw == m.points[n + 1].yaw
           u == YawStep(m, s, n + 1)
<1>1. /\ s = [fp |-> s.fp, last |-> s.last, out |-> s.out]
      /\ DOMAIN s.fp = Rings /\ DOMAIN s.last = Rings
      /\ \A q \in Rings : RingSeen(m, n, s.fp[q], s.last[q], q)
      /\ TimedOut(m, n, s.out)
  BY Zenon DEF YawInv
<1>2. \A q \in Rings : q # r => RingSeen(m, n + 1, s.fp[q], s.last[q], q)
  BY <1>1, OtherRing
<1>3. TimedOut(m, n + 1, s.out)
  <2>1. s.out \in Seq([of : {received}, i : 1..n, curvature : Int])
    BY <1>1 DEF TimedOut
  <2>2. s.out \in Seq([of : {received}, i : 1..(n + 1), curvature : Int])
    <3> DEFINE A == [of : {received}, i : 1..n, curvature : Int]
               B == [of : {received}, i : 1..(n + 1), curvature : Int]
    <3>1. A \subseteq B BY OneWider
    <3>2. s.out \in Seq(A) BY <2>1
    <3> HIDE DEF A, B
    <3>3. s.out \in Seq(B) BY <3>1, <3>2, SeqWider
    <3> QED BY <3>3 DEF B
  <2> QED BY <1>1, <2>2, Zenon DEF TimedOut
<1>4. CASE r \notin Rings
  <2>1. u = s BY <1>4 DEF YawStep
  <2>2. YawInv(m, n + 1, s) BY <1>1, <1>2, <1>3, <1>4, Zenon DEF YawInv
  <2> QED BY <2>1, <2>2
<1>5. CASE r \in Rings /\ s.fp[r] = <<>>
  <2>1. u = [s EXCEPT !.fp[r] = <<yaw>>] BY <1>5 DEF YawStep
  <2>2. /\ u.fp = [s.fp EXCEPT ![r] = <<yaw>>] /\ u.last = s.last /\ u.out = s.out
        /\ u = [fp |-> u.fp, last |-> u.last, out |-> u.out]
    BY <2>1, <1>1
  <2> HIDE DEF u
  <2>3. DOMAIN u.fp = Rings /\ u.fp[r] = <<yaw>> /\ \A q \in Rings : q # r => u.fp[q] = s.fp[q]
    BY <2>2, <1>1, <1>5
  <2>4. s.last[r] = 0 /\ \A k \in 1..n : m.points[k].ring # r
    <3>1. RingSeen(m, n, s.fp[r], s.last[r], r) BY <1>1, <1>5
    <3>2. \A x : <<x>> # <<>> OBVIOUS
    <3> QED BY <3>1, <3>2, <1>5 DEF RingSeen
  <2>5. RingSeen(m, n + 1, u.fp[r], u.last[r], r)
    <3>1. n + 1 \in 1..(n + 1) /\ n + 1 <= n + 1 /\ n + 1 \in 1..Size(m) OBVIOUS
    <3>2. First(m, n + 1)
      <4>1. 1..((n + 1) - 1) = 1..n OBVIOUS
      <4> QED BY <2>4, <4>1 DEF First
    <3>3. \A k \in (n + 1 + 1)..(n + 1) : m.points[k].ring # r OBVIOUS
    <3>4. m.points[n + 1].at \in Nat BY <3>1 DEF VelodyneMessage
    <3>5. u.last[r] = m.points[n + 1].at - m.points[n + 1].at /\ u.last[r] \in Int BY <2>2, <2>4, <3>4
    <3> QED BY <2>3, <3>1, <3>2, <3>3, <3>5, Zenon DEF RingSeen
  <2>6. \A q \in Rings : RingSeen(m, n + 1, u.fp[q], u.last[q], q)
    <3> TAKE q \in Rings
    <3>1. CASE q = r BY <3>1, <2>5
    <3>2. CASE q # r BY <3>2, <2>2, <2>3, <1>2
    <3> QED BY <3>1, <3>2
  <2>7. YawInv(m, n + 1, u)
    BY <1>1, <1>3, <2>2, <2>3, <2>6, Zenon DEF YawInv
  <2> QED BY <2>7 DEF u
<1>6. CASE r \in Rings /\ s.fp[r] # <<>>
  <2>1. PICK f \in 1..n, p \in 1..n :
          /\ m.points[f].ring = r /\ First(m, f)
          /\ f <= p /\ m.points[p].ring = r /\ \A k \in (p + 1)..n : m.points[k].ring # r
          /\ s.fp[r] = <<m.points[f].yaw>> /\ s.last[r] \in Int
          /\ Steady(m) => s.last[r] = m.points[p].at - m.points[f].at
    <3>1. RingSeen(m, n, s.fp[r], s.last[r], r) BY <1>1, <1>6
    <3> QED BY <3>1, <1>6 DEF RingSeen
  <2> DEFINE t == Angle(yaw, s.fp[r][1], s.last[r])
  <2>2. t \in Int /\ (Steady(m) => t = m.points[n + 1].at - m.points[f].at)
    <3>1. f \in 1..Size(m) /\ p \in 1..Size(m) /\ n + 1 \in 1..Size(m) /\ p < n + 1 OBVIOUS
    <3>2. \A k \in (p + 1)..((n + 1) - 1) : m.points[k].ring # m.points[n + 1].ring
      <4>1. (n + 1) - 1 = n OBVIOUS
      <4> QED BY <2>1, <4>1
    <3>3. s.fp[r][1] = m.points[f].yaw BY <2>1
    <3>4. yaw \in Int /\ m.points[f].yaw \in Int
      <4>1. \A i \in 1..Size(m) : m.points[i].yaw \in (1 - Turn \div 2)..(Turn \div 2)
        BY DEF VelodyneMessage
      <4> QED BY <3>1, <4>1
    <3>5. t \in Int BY <2>1, <3>3, <3>4, Constants DEF Angle
    <3> QED BY <2>1, <3>1, <3>2, <3>3, <3>5, Turned, SMTT(20)
  <2>3. u = [s EXCEPT !.last[r] = t, !.out = Append(s.out, Out(n + 1, t))]
    BY <1>6 DEF YawStep
  <2>4. /\ u.fp = s.fp /\ u.last = [s.last EXCEPT ![r] = t] /\ u.out = Append(s.out, Out(n + 1, t))
        /\ u = [fp |-> u.fp, last |-> u.last, out |-> u.out]
    <3> HIDE DEF u, t
    <3> QED BY <2>3, <1>1
  <2> HIDE DEF u
  <2>5. DOMAIN u.last = Rings /\ u.last[r] = t /\ \A q \in Rings : q # r => u.last[q] = s.last[q]
    <3> HIDE DEF t
    <3> QED BY <2>4, <1>1, <1>6
  <2>6. RingSeen(m, n + 1, u.fp[r], u.last[r], r)
    <3>1. f \in 1..(n + 1) /\ n + 1 \in 1..(n + 1) /\ f <= n + 1 OBVIOUS
    <3>2. \A k \in (n + 1 + 1)..(n + 1) : m.points[k].ring # r OBVIOUS
    <3>3. u.fp[r] = <<m.points[f].yaw>> /\ u.last[r] = t BY <2>1, <2>4, <2>5, Zenon
    <3>4. u.last[r] \in Int /\ (Steady(m) => u.last[r] = m.points[n + 1].at - m.points[f].at)
      BY <2>2, <3>3, Zenon
    <3>5. m.points[n + 1].ring = r OBVIOUS
    <3> HIDE DEF r, yaw, t
    <3> QED BY <2>1, <3>1, <3>2, <3>3, <3>4, <3>5 DEF RingSeen
  <2>7. \A q \in Rings : RingSeen(m, n + 1, u.fp[q], u.last[q], q)
    <3> TAKE q \in Rings
    <3>1. CASE q = r BY <3>1, <2>6
    <3>2. CASE q # r BY <3>2, <2>4, <2>5, <1>2
    <3> QED BY <3>1, <3>2
  <2>8. TimedRight(m, Out(n + 1, t))
    <3>1. Out(n + 1, t).i = n + 1 /\ Out(n + 1, t).curvature = t BY DEF Out
    <3>2. f \in 1..(n + 1) OBVIOUS
    <3>3. SUFFICES ASSUME Steady(m)
                   PROVE  \E h \in 1..(n + 1) :
                            /\ m.points[h].ring = m.points[n + 1].ring /\ First(m, h)
                            /\ t = m.points[n + 1].at - m.points[h].at
      BY <3>1, Zenon DEF TimedRight
    <3>4. t = m.points[n + 1].at - m.points[f].at BY <2>2, <3>3
    <3> HIDE DEF t
    <3> QED BY <2>1, <3>2, <3>4
  <2>9. TimedOut(m, n + 1, u.out)
    <3>1. t \in Int BY <2>2
    <3> HIDE DEF t
    <3>2. TimedOut(m, n + 1, Append(s.out, Out(n + 1, t)))
      BY <1>1, <2>8, <3>1, OutOneMore
    <3> QED BY <2>4, <3>2
  <2>10. YawInv(m, n + 1, u)
    BY <1>1, <2>4, <2>5, <2>7, <2>9, Zenon DEF YawInv
  <2> QED BY <2>10 DEF u
<1> QED BY <1>4, <1>5, <1>6

\* The time that a point gets is the time since the first point of its ring.
LEMMA TimedPoints ==
  ASSUME NEW m, Size(m) \in Nat, VelodyneMessage(m), ~Given(m)
  PROVE  TimedOut(m, Size(m), Timed(m))
<1>1. PICK g : After(m, Size(m), g) /\ Timed(m) = g[Size(m)].out
  BY TimedAfter
<1> DEFINE T == {n \in Nat : n <= Size(m) => YawInv(m, n, g[n])}
<1>2. 0 \in T
  <2>1. 0 \in 0..Size(m) OBVIOUS
  <2>2. g[0] = IF 0 = 0 THEN Start ELSE YawStep(m, g[0 - 1], 0)
    BY <1>1, <2>1, AfterAt
  <2>3. g[0] = Start BY <2>2
  <2> QED BY <2>3, YawStart
<1>3. \A n \in Nat : n \in T => n + 1 \in T
  <2> SUFFICES ASSUME NEW n \in Nat, YawInv(m, n, g[n]), n + 1 <= Size(m)
               PROVE  YawInv(m, n + 1, g[n + 1])
    OBVIOUS
  <2>1. n + 1 \in 0..Size(m) /\ (n + 1) - 1 = n /\ n + 1 # 0 OBVIOUS
  <2>2. g[n + 1] = IF n + 1 = 0 THEN Start ELSE YawStep(m, g[(n + 1) - 1], n + 1)
    BY <1>1, <2>1, AfterAt
  <2>3. g[n + 1] = YawStep(m, g[n], n + 1) BY <2>1, <2>2, Zenon
  <2>4. YawInv(m, n + 1, YawStep(m, g[n], n + 1)) BY YawStepRight
  <2> QED BY <2>3, <2>4
<1> HIDE DEF T
<1>4. Size(m) \in T BY <1>2, <1>3, Induction
<1>5. YawInv(m, Size(m), g[Size(m)]) BY <1>4 DEF T
<1> QED BY <1>1, <1>5, Zenon DEF YawInv

\* A ring has one first point.
LEMMA FirstIsFirst ==
  ASSUME NEW m, Size(m) \in Nat, NEW f \in 1..Size(m), First(m, f)
  PROVE  FirstAt(m, m.points[f].ring) = m.points[f].at
<1> DEFINE P(i) == m.points[i].ring = m.points[f].ring /\ First(m, i)
           c == CHOOSE i \in 1..Size(m) : P(i)
<1>1. P(f) OBVIOUS
<1>2. c \in 1..Size(m) /\ P(c) BY <1>1, Zenon
<1> HIDE DEF c
<1>3. c = f
  <2>1. CASE c < f
    <3>1. c \in 1..(f - 1) BY <1>2, <2>1
    <3> QED BY <1>2, <3>1 DEF First
  <2>2. CASE f < c
    <3>1. f \in 1..(c - 1) BY <1>2, <2>2
    <3> QED BY <1>2, <3>1 DEF First
  <2> QED BY <1>2, <2>1, <2>2
<1> QED BY <1>3 DEF FirstAt, c

\* What velodyne_handler hands back.
VelodyneCloud(m, s) ==
  /\ OneEach(received, Size(m), s)
  /\ Steady(m) => \A a \in 1..Len(s) :
       s[a].curvature = IF Given(m) THEN m.points[s[a].i].at
                        ELSE m.points[s[a].i].at - FirstAt(m, m.points[s[a].i].ring)

LEMMA TimedGood ==
  ASSUME NEW m, Size(m) \in Nat, Size(m) # 0, VelodyneMessage(m)
  PROVE  \E S : Timed(m) \in Seq(S) /\ VelodyneCloud(m, Timed(m))
<1>1. CASE Given(m)
  <2>1. Timed(m) = Untimed(m) BY <1>1 DEF Timed
  <2>2. /\ Untimed(m) \in Seq({Out(i, m.points[i].time) : i \in 1..Size(m)})
        /\ OneEach(received, Size(m), Untimed(m))
        /\ \A a \in 1..Len(Untimed(m)) : Untimed(m)[a].curvature = m.points[Untimed(m)[a].i].time
    BY UntimedOneEach
  <2>3. \A i \in 1..Size(m) : m.points[i].time = m.points[i].at
    <3>1. m.points[Size(m)].time > 0 /\ Size(m) \in 1..Size(m) BY <1>1 DEF Given
    <3>2. ~(m.points[Size(m)].time = 0) BY <3>1
    <3> QED BY <3>1, <3>2 DEF VelodyneMessage
  <2>4. \A a \in 1..Len(Untimed(m)) : Untimed(m)[a].i \in 1..Size(m)
    BY <2>2 DEF OneEach
  <2>5. VelodyneCloud(m, Untimed(m))
    BY <1>1, <2>2, <2>3, <2>4 DEF VelodyneCloud
  <2> QED BY <2>1, <2>2, <2>5
<1>2. CASE ~Given(m)
  <2> DEFINE s == Timed(m)
             S == [of : {received}, i : 1..Size(m), curvature : Int]
  <2>1. TimedOut(m, Size(m), s) BY <1>2, TimedPoints
  <2> HIDE DEF s
  <2>2. s \in Seq(S) /\ \A a \in 1..Len(s) : TimedRight(m, s[a])
    BY <2>1 DEF TimedOut
  <2>3. \A a \in 1..Len(s) : s[a].of = received /\ s[a].i \in 1..Size(m)
    <3> TAKE a \in 1..Len(s)
    <3> HIDE DEF S
    <3>1. s[a] \in S BY <2>2
    <3> QED BY <3>1 DEF S
  <2>4. Len(s) \in Nat
    <3> HIDE DEF S
    <3> QED BY <2>2
  <2>5. OneEach(received, Size(m), s)
    BY <2>1, <2>3, <2>4, Zenon DEF OneEach, TimedOut
  <2>6. ASSUME Steady(m), NEW a \in 1..Len(s)
        PROVE  s[a].curvature = m.points[s[a].i].at - FirstAt(m, m.points[s[a].i].ring)
    <3>1. PICK f \in 1..s[a].i :
             /\ m.points[f].ring = m.points[s[a].i].ring /\ First(m, f)
             /\ s[a].curvature = m.points[s[a].i].at - m.points[f].at
      BY <2>2, <2>6 DEF TimedRight
    <3>2. f \in 1..Size(m) BY <2>3
    <3>3. FirstAt(m, m.points[f].ring) = m.points[f].at BY <3>1, <3>2, FirstIsFirst
    <3> QED BY <3>1, <3>3
  <2>7. VelodyneCloud(m, s)
    BY <1>2, <2>5, <2>6 DEF VelodyneCloud
  <2> QED BY <2>2, <2>7 DEF s
<1> QED BY <1>1, <1>2

LEMMA ThinnedGood ==
  ASSUME NEW m, Size(m) \in Nat, Size(m) # 0, VelodyneMessage(m)
  PROVE  VelodyneCloud(m, Thinned(m))
<1> DEFINE s == Timed(m)
           K == {k \in 1..Len(s) : Chosen(s[k].i) /\ ~Close(m.points[s[k].i])}
           t == Picked(s, K)
<1>1. PICK S : s \in Seq(S) /\ VelodyneCloud(m, s) BY TimedGood
<1>2. Thinned(m) = t BY DEF Thinned
<1> HIDE DEF s, K
<1>3. OneEach(received, Size(m), t) /\ Among(t, s)
  <2>1. OneEach(received, Size(m), s) BY <1>1 DEF VelodyneCloud
  <2> QED BY <1>1, <2>1, PickedOneEach
<1> HIDE DEF t
<1>4. VelodyneCloud(m, t)
  BY <1>1, <1>3 DEF VelodyneCloud, Among
<1> QED BY <1>2, <1>4

-----------------------------------------------------------------------------
(* The points of a part of an M1 message *)

Cols(m) == 0..(m.width - 1)
PartOf(m, k) == FirstRow(m, k)..(EndRow(m, k) - 1)

Wanted(m, col, row) ==
  /\ row % point_filter_num = 0
  /\ ~Close(m.points[Place(m, col, row)]) /\ ~Far(m.points[Place(m, col, row)])

M1Cloud(m, k, s) ==
  /\ OneEach(received, Size(m), s)
  /\ \A a \in 1..Len(s) : \E col \in Cols(m), row \in PartOf(m, k) :
       /\ s[a].i = Place(m, col, row) /\ Wanted(m, col, row)
       /\ s[a].curvature = Stamp(m, col, row) - Begins(m, col, k)
  /\ \A col \in Cols(m), row \in PartOf(m, k) :
       Wanted(m, col, row) => \E a \in 1..Len(s) : s[a].i = Place(m, col, row)

LEMMA Quotient ==
  ASSUME NEW n \in Nat, NEW w \in Nat \ {0}
  PROVE  n \div w \in Nat /\ n % w \in 0..(w - 1) /\ n = (n \div w) * w + (n % w)
  BY Division, Zenon

LEMMA QuotientOf ==
  ASSUME NEW w \in Nat \ {0}, NEW q \in Nat, NEW r \in 0..(w - 1)
  PROVE  (q * w + r) \div w = q /\ (q * w + r) % w = r
  BY Division, Zenon

LEMMA QuotientLess ==
  ASSUME NEW w \in Nat \ {0}, NEW h \in Nat, NEW q \in Nat, NEW r \in Nat, q * w + r < h * w
  PROVE  q < h
  BY Division, Zenon

\* The rows that fill parts.
LEMMA PartsOfRows ==
  ASSUME NEW m, Size(m) \in Nat, m.width \in Nat \ {0}, num_sub_cloud \in Nat \ {0}
  PROVE  /\ Rows(m) \in Nat /\ PartRows(m) \in Nat
         /\ PartRows(m) * num_sub_cloud \in Nat
         /\ PartRows(m) * num_sub_cloud <= Rows(m)
         /\ Rows(m) * m.width \in Nat /\ Rows(m) * m.width <= Size(m)
         /\ \A k \in 0..(num_sub_cloud - 1) :
              /\ FirstRow(m, k) = PartRows(m) * k /\ FirstRow(m, k) \in Nat
              /\ EndRow(m, k) = FirstRow(m, k) + PartRows(m)
              /\ EndRow(m, k) <= PartRows(m) * num_sub_cloud
<1> DEFINE P == PartRows(m)
           R == Rows(m)
<1>1. R = Size(m) \div m.width BY DEF Rows
<1>2. R \in Nat /\ Size(m) = R * m.width + (Size(m) % m.width) /\ Size(m) % m.width \in 0..(m.width - 1)
  BY <1>1, Quotient, Zenon
<1>3. P = R \div num_sub_cloud BY DEF PartRows
<1> HIDE DEF P, R
<1>4. P \in Nat /\ R = P * num_sub_cloud + (R % num_sub_cloud) /\ R % num_sub_cloud \in 0..(num_sub_cloud - 1)
  BY <1>2, <1>3, Quotient, Zenon
<1>5. \A a, b \in Nat : a * b \in Nat BY SMTT(20)
<1>6. R * m.width \in Nat /\ P * num_sub_cloud \in Nat BY <1>2, <1>4, <1>5
<1>7. R * m.width <= Size(m) BY <1>2, <1>6
<1>8. P * num_sub_cloud <= R BY <1>4, <1>6
<1>9. ASSUME NEW k \in 0..(num_sub_cloud - 1)
      PROVE  /\ FirstRow(m, k) = P * k /\ FirstRow(m, k) \in Nat
             /\ EndRow(m, k) = FirstRow(m, k) + P
             /\ EndRow(m, k) <= P * num_sub_cloud
  <2>1. FirstRow(m, k) = P * k /\ EndRow(m, k) = P * (k + 1) BY DEF FirstRow, EndRow, P
  <2>2. P * k \in Nat BY <1>4, <1>5
  <2>3. P * (k + 1) = P * k + P BY <1>4, SMTT(20)
  <2>4. P * (k + 1) <= P * num_sub_cloud
    <3>1. \A a \in Nat, b \in Nat, c \in Nat : b <= c => a * b <= a * c BY SMTT(20)
    <3> QED BY <3>1, <1>4
  <2> QED BY <2>1, <2>2, <2>3, <2>4
<1> QED BY <1>2, <1>4, <1>6, <1>7, <1>8, <1>9 DEF P, R

\* Each channel of each firing is one point.
LEMMA Cell ==
  ASSUME NEW m, Size(m) \in Nat, m.width \in Nat \ {0}, NEW R \in Nat, R * m.width <= Size(m),
         NEW col \in Cols(m), NEW row \in 0..(R - 1)
  PROVE  /\ Place(m, col, row) \in 1..Size(m)
         /\ (Place(m, col, row) - 1) \div m.width = row
         /\ (Place(m, col, row) - 1) % m.width = col
         /\ Place(m, col, row) \in 1..(R * m.width)
<1> DEFINE w == m.width
<1>1. w \in Nat \ {0} /\ col \in 0..(w - 1) /\ row \in Nat BY DEF Cols
<1>2. Place(m, col, row) = row * w + col + 1 BY DEF Place
<1>4. R * w <= Size(m) OBVIOUS
<1> HIDE DEF w
<1>3. row * w + col \in 0..(R * w - 1)
  <2>1. \A q \in 0..(R - 1), r \in 0..(w - 1) : q * w + r \in 0..(R * w - 1)
    BY <1>1, Division, Zenon
  <2>2. row \in 0..(R - 1) OBVIOUS
  <2> QED BY <1>1, <2>1, <2>2, Zenon
<1>5. \A a, b \in Nat : a * b \in Nat BY SMTT(20)
<1>6. row * w \in Nat /\ R * w \in Nat BY <1>1, <1>5
<1>7. Place(m, col, row) - 1 = row * w + col BY <1>1, <1>2, <1>6
<1>8. (row * w + col) \div w = row /\ (row * w + col) % w = col BY <1>1, QuotientOf, Zenon
<1>9. Place(m, col, row) \in 1..(R * w) BY <1>1, <1>2, <1>3, <1>6
<1> QED BY <1>4, <1>6, <1>7, <1>8, <1>9 DEF w

LEMMA SamePair ==
  ASSUME NEW a, NEW b, NEW c, NEW d, <<a, b>> = <<c, d>>
  PROVE  a = c /\ b = d
  OBVIOUS

\* The cells of a part are visited once each.
LEMMA CellsOfPart ==
  ASSUME NEW m, Size(m) \in Nat, m.width \in Nat \ {0}, num_sub_cloud \in Nat \ {0},
         NEW k \in 0..(num_sub_cloud - 1)
  PROVE  /\ Len(Cells(m, k)) \in Nat
         /\ \A n \in 1..Len(Cells(m, k)) : \E col \in Cols(m), row \in PartOf(m, k) :
              Cells(m, k)[n] = <<col, row>>
         /\ \A n, l \in 1..Len(Cells(m, k)) : Cells(m, k)[n] = Cells(m, k)[l] => n = l
         /\ \A col \in Cols(m), row \in PartOf(m, k) :
              \E n \in 1..Len(Cells(m, k)) : Cells(m, k)[n] = <<col, row>>
<1> DEFINE w == m.width
           P == PartRows(m)
           F == FirstRow(m, k)
           C == Cells(m, k)
<1>1. P \in Nat /\ F \in Nat /\ EndRow(m, k) = F + P BY PartsOfRows
<1>2. w \in Nat \ {0} OBVIOUS
<1>3. C = [n \in 1..(w * P) |-> <<(n - 1) \div P, F + ((n - 1) % P)>>]
  <2>1. EndRow(m, k) - FirstRow(m, k) = P BY <1>1
  <2> QED BY <2>1 DEF Cells
<1> HIDE DEF P, F, C, w
<1>4. \A a, b \in Nat : a * b \in Nat BY SMTT(20)
<1>5. w * P \in Nat BY <1>1, <1>2, <1>4
<1>6. Len(C) = w * P /\ \A n \in 1..(w * P) : C[n] = <<(n - 1) \div P, F + ((n - 1) % P)>>
  BY <1>3, <1>5
<1>7. ASSUME NEW n \in 1..(w * P)
      PROVE  /\ P # 0 /\ (n - 1) \div P \in 0..(w - 1) /\ (n - 1) % P \in 0..(P - 1)
             /\ n - 1 = ((n - 1) \div P) * P + ((n - 1) % P)
  <2>1. P # 0 /\ n - 1 \in Nat /\ n - 1 < w * P BY <1>1, <1>2, <1>5
  <2> DEFINE q == (n - 1) \div P
             r == (n - 1) % P
  <2>5. P \in Nat \ {0} BY <1>1, <2>1
  <2>2. q \in Nat /\ r \in 0..(P - 1) /\ n - 1 = q * P + r
    BY <2>5, <2>1, Quotient, Zenon
  <2> HIDE DEF q, r
  <2>3. q * P + r < w * P BY <2>1, <2>2
  <2>6. r \in Nat /\ w \in Nat BY <1>2, <2>2
  <2>4. q < w BY <2>2, <2>3, <2>5, <2>6, QuotientLess, Zenon
  <2> QED BY <1>2, <2>1, <2>2, <2>4 DEF q, r
<1>8. Cols(m) = 0..(w - 1) /\ PartOf(m, k) = F..(F + P - 1)
  BY <1>1 DEF Cols, PartOf, w, F
<1>9. \A n \in 1..Len(C) : \E col \in Cols(m), row \in PartOf(m, k) : C[n] = <<col, row>>
  <2> TAKE n \in 1..Len(C)
  <2>1. n \in 1..(w * P) BY <1>6
  <2> DEFINE q == (n - 1) \div P
             r == (n - 1) % P
  <2>2. q \in 0..(w - 1) /\ r \in 0..(P - 1) BY <1>7, <2>1
  <2>3. C[n] = <<q, F + r>> BY <1>6, <2>1
  <2> HIDE DEF q, r
  <2>4. F + r \in F..(F + P - 1) BY <1>1, <2>2
  <2> QED BY <1>8, <2>2, <2>3, <2>4
<1>10. \A n, l \in 1..Len(C) : C[n] = C[l] => n = l
  <2> TAKE n, l \in 1..Len(C)
  <2> HAVE C[n] = C[l]
  <2>1. n \in 1..(w * P) /\ l \in 1..(w * P) BY <1>6
  <2>2. /\ C[n] = <<(n - 1) \div P, F + ((n - 1) % P)>>
        /\ C[l] = <<(l - 1) \div P, F + ((l - 1) % P)>>
    BY <1>6, <2>1, Zenon
  <2>3. /\ (n - 1) % P \in 0..(P - 1) /\ (l - 1) % P \in 0..(P - 1)
        /\ n - 1 = ((n - 1) \div P) * P + ((n - 1) % P)
        /\ l - 1 = ((l - 1) \div P) * P + ((l - 1) % P)
    BY <1>7, <2>1, Zenon
  <2>4. (n - 1) \div P = (l - 1) \div P /\ F + ((n - 1) % P) = F + ((l - 1) % P)
    <3>1. <<(n - 1) \div P, F + ((n - 1) % P)>> = <<(l - 1) \div P, F + ((l - 1) % P)>>
      BY <2>2, Zenon
    <3> QED BY <3>1, SamePair, Zenon
  <2>5. (n - 1) % P = (l - 1) % P
    <3>1. \A a, b \in 0..(P - 1) : F + a = F + b => a = b BY <1>1
    <3> QED BY <2>3, <2>4, <3>1, Zenon
  <2>6. n - 1 = l - 1 BY <2>3, <2>4, <2>5, Zenon
  <2> QED BY <2>1, <2>6, <1>5
<1>11. ASSUME NEW col \in Cols(m), NEW row \in PartOf(m, k)
       PROVE  \E n \in 1..Len(C) : C[n] = <<col, row>>
  <2> DEFINE r == row - F
             n == col * P + r + 1
  <2>1. col \in 0..(w - 1) /\ r \in 0..(P - 1) /\ row = F + r /\ P # 0 BY <1>1, <1>8
  <2> HIDE DEF r
  <2>2. col * P + r \in 0..(w * P - 1)
    <3>1. \A x \in 0..(w - 1), y \in 0..(P - 1) : x * P + y \in 0..(w * P - 1)
      BY <1>1, <1>2, Division, Zenon
    <3> QED BY <2>1, <3>1, Zenon
  <2>7. P \in Nat \ {0} /\ col \in Nat BY <1>1, <2>1
  <2>3. (col * P + r) \div P = col /\ (col * P + r) % P = r BY <2>1, <2>7, QuotientOf, Zenon
  <2>4. n \in 1..(w * P) /\ n - 1 = col * P + r BY <2>2, <1>5
  <2> HIDE DEF n
  <2>5. C[n] = <<(n - 1) \div P, F + ((n - 1) % P)>> BY <1>6, <2>4
  <2>6. C[n] = <<col, F + r>> BY <2>3, <2>4, <2>5, Zenon
  <2> QED BY <1>6, <2>1, <2>4, <2>6
<1>12. Len(C) \in Nat BY <1>5, <1>6
<1> QED BY <1>9, <1>10, <1>11, <1>12 DEF C

LEMMA KeptGood ==
  ASSUME NEW m, Size(m) \in Nat, m.width \in Nat \ {0}, num_sub_cloud \in Nat \ {0},
         NEW k \in 0..(num_sub_cloud - 1)
  PROVE  M1Cloud(m, k, Kept(m, k))
<1> DEFINE C == Cells(m, k)
           ok(c) == LET p == m.points[Place(m, c[1], c[2])]
                    IN c[2] % point_filter_num = 0 /\ ~Close(p) /\ ~Far(p)
           out(c) == Out(Place(m, c[1], c[2]), Stamp(m, c[1], c[2]) - Begins(m, c[1], k))
           s == [n \in 1..Len(C) |-> out(C[n])]
           K == {n \in 1..Len(C) : ok(C[n])}
           S == {out(C[n]) : n \in 1..Len(C)}
           t == Picked(s, K)
<1>1. Kept(m, k) = t BY DEF Kept
<1>2. /\ Len(C) \in Nat
      /\ \A n \in 1..Len(C) : \E col \in Cols(m), row \in PartOf(m, k) : C[n] = <<col, row>>
      /\ \A n, l \in 1..Len(C) : C[n] = C[l] => n = l
      /\ \A col \in Cols(m), row \in PartOf(m, k) : \E n \in 1..Len(C) : C[n] = <<col, row>>
  BY CellsOfPart, Zenon
<1>3. \A col, row : /\ out(<<col, row>>).of = received
                    /\ out(<<col, row>>).i = Place(m, col, row)
                    /\ out(<<col, row>>).curvature = Stamp(m, col, row) - Begins(m, col, k)
                    /\ ok(<<col, row>>) <=> Wanted(m, col, row)
  BY DEF Out, Wanted
<1> HIDE DEF C, ok, out
<1>4. s \in Seq(S) /\ Len(s) = Len(C) /\ \A n \in 1..Len(C) : s[n] = out(C[n])
  <2>1. \A n \in 1..Len(C) : s[n] = out(C[n]) /\ out(C[n]) \in S BY Zenon
  <2>2. s = [n \in 1..Len(C) |-> s[n]] BY <2>1, Zenon
  <2> HIDE DEF s, S
  <2>3. s \in Seq(S) /\ Len(s) = Len(C) BY <1>2, <2>1, <2>2
  <2> QED BY <2>1, <2>3
<1>5. \A n \in 1..Len(C) : n \in K <=> ok(C[n]) OBVIOUS
<1> HIDE DEF s, S, K, t
<1>6. ASSUME NEW col \in Cols(m), NEW row \in PartOf(m, k)
      PROVE  /\ Place(m, col, row) \in 1..Size(m)
             /\ (Place(m, col, row) - 1) \div m.width = row
             /\ (Place(m, col, row) - 1) % m.width = col
  <2>1. row \in 0..(Rows(m) - 1) /\ Rows(m) \in Nat /\ Rows(m) * m.width <= Size(m)
    <3>1. /\ Rows(m) \in Nat /\ PartRows(m) * num_sub_cloud \in Nat
          /\ PartRows(m) * num_sub_cloud <= Rows(m) /\ Rows(m) * m.width <= Size(m)
          /\ PartRows(m) \in Nat /\ FirstRow(m, k) \in Nat
          /\ EndRow(m, k) = FirstRow(m, k) + PartRows(m)
          /\ EndRow(m, k) <= PartRows(m) * num_sub_cloud
      BY PartsOfRows, Zenon
    <3>2. row \in FirstRow(m, k)..(EndRow(m, k) - 1) BY DEF PartOf
    <3> QED BY <3>1, <3>2
  <2> QED BY <2>1, Cell
<1>7. OneEach(received, Size(m), s)
  <2>1. \A n \in 1..Len(s) : s[n].of = received /\ s[n].i \in 1..Size(m)
    <3> TAKE n \in 1..Len(s)
    <3>1. PICK col \in Cols(m), row \in PartOf(m, k) : C[n] = <<col, row>> BY <1>2, <1>4
    <3>2. s[n] = out(<<col, row>>) BY <1>4, <3>1
    <3> QED BY <1>3, <1>6, <3>2
  <2>2. ASSUME NEW n \in 1..Len(s), NEW l \in 1..Len(s), s[n].i = s[l].i
        PROVE  n = l
    <3>1. PICK col \in Cols(m), row \in PartOf(m, k) : C[n] = <<col, row>> BY <1>2, <1>4
    <3>2. PICK col2 \in Cols(m), row2 \in PartOf(m, k) : C[l] = <<col2, row2>> BY <1>2, <1>4
    <3>3. Place(m, col, row) = Place(m, col2, row2)
      <4>1. s[n] = out(<<col, row>>) /\ s[l] = out(<<col2, row2>>) BY <1>4, <3>1, <3>2
      <4> QED BY <1>3, <2>2, <4>1, Zenon
    <3>4. row = row2 /\ col = col2 BY <1>6, <3>3, Zenon
    <3> QED BY <1>2, <1>4, <3>1, <3>2, <3>4
  <2> QED BY <1>2, <1>4, <2>1, <2>2 DEF OneEach
<1>8. OneEach(received, Size(m), t)
  BY <1>4, <1>7, PickedOneEach DEF t
<1>9. PICK p : Picks(s, K, p) /\ t = [a \in 1..Len(p) |-> s[p[a]]]
  BY <1>4, PickedPicks DEF t
<1>10. /\ p \in Seq(1..Len(s)) /\ \A a \in 1..Len(p) : p[a] \in K
       /\ \A n \in 1..Len(s) : n \in K => \E a \in 1..Len(p) : p[a] = n
  BY <1>9 DEF Picks
<1>11. Len(t) = Len(p) /\ \A a \in 1..Len(p) : t[a] = s[p[a]] /\ p[a] \in 1..Len(s)
  BY <1>9, <1>10
<1>12. ASSUME NEW a \in 1..Len(t)
       PROVE  \E col \in Cols(m), row \in PartOf(m, k) :
                /\ t[a].i = Place(m, col, row) /\ Wanted(m, col, row)
                /\ t[a].curvature = Stamp(m, col, row) - Begins(m, col, k)
  <2>1. t[a] = s[p[a]] /\ p[a] \in 1..Len(C) /\ p[a] \in K BY <1>4, <1>10, <1>11
  <2>2. PICK col \in Cols(m), row \in PartOf(m, k) : C[p[a]] = <<col, row>> BY <1>2, <2>1
  <2>3. t[a] = out(<<col, row>>) /\ ok(<<col, row>>) BY <1>4, <1>5, <2>1, <2>2
  <2> QED BY <1>3, <2>3
<1>13. ASSUME NEW col \in Cols(m), NEW row \in PartOf(m, k), Wanted(m, col, row)
       PROVE  \E a \in 1..Len(t) : t[a].i = Place(m, col, row)
  <2>1. PICK n \in 1..Len(C) : C[n] = <<col, row>> BY <1>2
  <2>2. n \in K
    <3>1. ok(<<col, row>>) BY <1>3, <1>13
    <3> QED BY <1>5, <2>1, <3>1
  <2>3. PICK a \in 1..Len(p) : p[a] = n BY <1>4, <1>10, <2>2
  <2>4. t[a] = out(<<col, row>>) BY <1>4, <1>11, <2>1, <2>3
  <2> QED BY <1>3, <1>11, <2>4, SMTT(20)
<1>14. M1Cloud(m, k, t) BY <1>8, <1>12, <1>13, Zenon DEF M1Cloud
<1> QED BY <1>1, <1>14

-----------------------------------------------------------------------------
(* The invariant *)

Configured ==
  /\ lidar_type \in LidarTypes /\ point_filter_num \in Nat \ {0}
  /\ num_sub_cloud \in Nat \ {0} /\ (lidar_type # "RSM1_BREAK" => num_sub_cloud = 1)

Waiting == received = 0 /\ msg = NoMsg /\ clouds = <<>> /\ i_sub_cloud = num_sub_cloud

Working ==
  /\ received \in Nat \ {0} /\ msg \in Messages[lidar_type]
  /\ i_sub_cloud \in 0..num_sub_cloud /\ i_sub_cloud = Len(clouds) /\ \E S : clouds \in Seq(S)

RSM == lidar_type \in {"RSM1", "RSM1_BREAK"}

\* A cloud handed back for part k of the message.
PartRight(k, cl) ==
  /\ OneEach(received, Size(msg), cl.surf)
  /\ lidar_type = "VELO16" => cl.surf = <<>> \/ VelodyneCloud(msg, cl.surf)
  /\ RSM /\ (feature_enabled \/ msg.width = 0) => cl.surf = <<>>
  /\ RSM /\ msg.width # 0 =>
       /\ ~feature_enabled => M1Cloud(msg, k, cl.surf)
       /\ PartRows(msg) > 0 => cl.start = Begins(msg, msg.width - 1, k)
       /\ PartRows(msg) > 1 => cl.end = Stamp(msg, msg.width - 1, EndRow(msg, k) - 1)

CloudsRight == \A c \in 1..Len(clouds) : PartRight(c - 1, clouds[c])

PreprocessInv == Configured /\ (Waiting \/ Working) /\ CloudsRight /\ ReadsInside

LEMMA PointsOf ==
  ASSUME Configured, Working
  PROVE  /\ Size(msg) \in Nat /\ \E S : msg.points \in Seq(S)
         /\ lidar_type = "VELO16" => VelodyneMessage(msg)
         /\ RSM => M1Message(msg)
<1>1. /\ msg.points \in Seq(Range(msg.points))
      /\ lidar_type = "VELO16" => VelodyneMessage(msg)
      /\ lidar_type \in {"RSM1", "RSM1_BREAK"} => M1Message(msg)
  BY MessagesAssumption, Zenon DEF MessagesAssumption, Configured, Working
<1>2. Len(msg.points) \in Nat
  <2> DEFINE S == Range(msg.points)
  <2>1. msg.points \in Seq(S) BY <1>1
  <2> HIDE DEF S
  <2> QED BY <2>1
<1> QED BY <1>1, <1>2 DEF Size, RSM

LEMMA NothingRight ==
  ASSUME NEW n, NEW size
  PROVE  OneEach(n, size, <<>>)
  BY DEF OneEach

\* avia_handler and oust64_handler
LEMMA AviaRight ==
  ASSUME NEW m, Size(m) \in Nat
  PROVE  OneEach(received, Size(m), Avia(m).surf)
<1> DEFINE K == {i \in 1..Size(m) : Filled(m, i) /\ New(m, i)}
           s == Picked(Untimed(m), K)
<1>1. CASE feature_enabled
  <2>1. Avia(m).surf = <<>> BY <1>1 DEF Avia, Features
  <2> QED BY <2>1, NothingRight
<1>2. CASE ~feature_enabled
  <2>1. Avia(m).surf = s BY <1>2 DEF Avia, Surf
  <2> HIDE DEF K
  <2>2. OneEach(received, Size(m), s) BY UntimedOneEach, PickedOneEach
  <2> QED BY <2>1, <2>2
<1> QED BY <1>1, <1>2

LEMMA OustRight ==
  ASSUME NEW m, Size(m) \in Nat
  PROVE  OneEach(received, Size(m), Oust64(m).surf)
<1> DEFINE away == {i \in 1..Size(m) : ~Close(m.points[i])}
           K == {i \in away : Chosen(i) /\ ~Far(m.points[i])}
           s == Picked(Untimed(m), K)
<1>1. CASE feature_enabled
  <2>1. Oust64(m).surf = <<>> BY <1>1 DEF Oust64, Features
  <2> QED BY <2>1, NothingRight
<1>2. CASE ~feature_enabled
  <2>1. Oust64(m).surf = s BY <1>2 DEF Oust64, Surf
  <2> HIDE DEF K
  <2>2. OneEach(received, Size(m), s) BY UntimedOneEach, PickedOneEach
  <2> QED BY <2>1, <2>2
<1> QED BY <1>1, <1>2

\* velodyne_handler
LEMMA VelodyneRight ==
  ASSUME NEW m, Size(m) \in Nat, VelodyneMessage(m)
  PROVE  /\ OneEach(received, Size(m), Velodyne(m).surf)
         /\ Velodyne(m).surf = <<>> \/ VelodyneCloud(m, Velodyne(m).surf)
<1>1. CASE Size(m) = 0 \/ feature_enabled
  <2>1. Velodyne(m).surf = <<>> BY <1>1 DEF Velodyne, Features, Surf
  <2> QED BY <2>1, NothingRight
<1>2. CASE ~(Size(m) = 0 \/ feature_enabled)
  <2>1. Velodyne(m).surf = Thinned(m) BY <1>2 DEF Velodyne, Surf
  <2>2. VelodyneCloud(m, Thinned(m)) BY <1>2, ThinnedGood
  <2> QED BY <2>1, <2>2 DEF VelodyneCloud
<1> QED BY <1>1, <1>2

\* robosenseM1_handler
LEMMA RobosenseM1Right ==
  ASSUME Configured, RSM, Size(msg) \in Nat, M1Message(msg), NEW k \in 0..(num_sub_cloud - 1),
         NEW cl, cl.surf = RobosenseM1(msg, k).surf,
         cl.start = StartTime(msg, k), cl.end = EndTime(msg, k)
  PROVE  PartRight(k, cl)
<1>1. CASE msg.width = 0
  <2>1. cl.surf = <<>> BY <1>1 DEF RobosenseM1, Surf
  <2>2. lidar_type # "VELO16" BY DEF RSM
  <2> QED BY <1>1, <2>1, <2>2, NothingRight DEF PartRight
<1>2. CASE msg.width # 0
  <2>1. msg.width \in Nat \ {0} /\ num_sub_cloud \in Nat \ {0} BY <1>2 DEF M1Message, Configured
  <2>2. lidar_type # "VELO16" BY DEF RSM
  <2>3. M1Cloud(msg, k, Kept(msg, k)) BY <2>1, KeptGood
  <2>4. cl.surf = IF feature_enabled THEN <<>> ELSE Kept(msg, k)
    BY <1>2 DEF RobosenseM1, Features, Surf
  <2>5. OneEach(received, Size(msg), cl.surf)
    <3>1. OneEach(received, Size(msg), Kept(msg, k)) BY <2>3 DEF M1Cloud
    <3> QED BY <2>4, <3>1, NothingRight
  <2>6. /\ PartRows(msg) \in Nat /\ FirstRow(msg, k) \in Nat
        /\ EndRow(msg, k) = FirstRow(msg, k) + PartRows(msg)
    BY <2>1, PartsOfRows, Zenon
  <2>7. PartRows(msg) > 0 => cl.start = Begins(msg, msg.width - 1, k)
    BY <2>6 DEF StartTime
  <2>8. PartRows(msg) > 1 => cl.end = Stamp(msg, msg.width - 1, EndRow(msg, k) - 1)
    BY <2>6 DEF EndTime
  <2> QED BY <1>2, <2>2, <2>3, <2>4, <2>5, <2>7, <2>8 DEF PartRight
<1> QED BY <1>1, <1>2

-----------------------------------------------------------------------------
(* Where the handlers read *)

\* A ring that give_feature may leave.
PastRing(m, buff, least) ==
  \E r \in Rings :
    OnlyClose(m, buff[r]) \/ PlaneToEnd(m, buff[r]) \/ (buff[r] = <<>> /\ least = 0)

LEMMA FeaturesInside ==
  ASSUME NEW m, NEW s, NEW least \in Nat
  PROVE  /\ Features(m, s, least).past \in SUBSET BOOLEAN
         /\ TRUE \in Features(m, s, least).past => PastRing(m, Features(m, s, least).buff, least)
<1> DEFINE rings == IntoRings(m, s)
<1>1. /\ Features(m, s, least).buff = rings
      /\ Features(m, s, least).past = IF RingsPastEnd(m, rings, least) THEN {TRUE}
                                      ELSE IF PlanesPastEnd(m, rings, least) THEN BOOLEAN ELSE {FALSE}
  BY DEF Features
<1> HIDE DEF rings
<1>2. Features(m, s, least).past \in SUBSET BOOLEAN BY <1>1
<1>3. CASE RingsPastEnd(m, rings, least)
  <2>1. PICK r \in Rings : Len(rings[r]) >= least /\ (rings[r] = <<>> \/ OnlyClose(m, rings[r]))
    BY <1>3 DEF RingsPastEnd
  <2>2. rings[r] = <<>> => least = 0
    <3>1. rings[r] = <<>> => Len(rings[r]) = 0 BY Len(<<>>) = 0
    <3> QED BY <2>1, <3>1
  <2>3. PastRing(m, rings, least) BY <2>1, <2>2, Zenon DEF PastRing
  <2> QED BY <1>1, <1>2, <2>3
<1>4. CASE PlanesPastEnd(m, rings, least)
  <2>1. PastRing(m, rings, least) BY <1>4 DEF PlanesPastEnd, PastRing
  <2> QED BY <1>1, <1>2, <2>1
<1>5. CASE ~RingsPastEnd(m, rings, least) /\ ~PlanesPastEnd(m, rings, least)
  <2>1. Features(m, s, least).past = {FALSE} BY <1>1, <1>5, Zenon
  <2> QED BY <1>2, <2>1
<1> QED BY <1>3, <1>4, <1>5

\* The cases in which a handler that left res accessed something outside of a container.
Excused(res) ==
  \/ RSM /\ Size(msg) = 0
  \/ ~feature_enabled /\ lidar_type = "VELO16" /\ \E i \in 1..Size(msg) : msg.points[i].ring \notin Rings
  \/ feature_enabled /\ \E r \in Rings :
       \/ OnlyClose(msg, res.buff[r]) \/ PlaneToEnd(msg, res.buff[r])
       \/ res.buff[r] = <<>> /\ lidar_type \in {"OUST64", "RSM1", "RSM1_BREAK"}

Inside(res) == res.past \in SUBSET BOOLEAN /\ (TRUE \in res.past => Excused(res))

LEMMA FeaturesExcused ==
  ASSUME NEW s, NEW least \in Nat, feature_enabled,
         least = 0 => lidar_type \in {"OUST64", "RSM1", "RSM1_BREAK"}
  PROVE  Inside(Features(msg, s, least))
<1> DEFINE res == Features(msg, s, least)
<1>1. res.past \in SUBSET BOOLEAN /\ (TRUE \in res.past => PastRing(msg, res.buff, least))
  BY FeaturesInside
<1> HIDE DEF res
<1>2. Inside(res) BY <1>1 DEF PastRing, Excused, Inside
<1> QED BY <1>2 DEF res

LEMMA SurfPast ==
  ASSUME NEW s, NEW past
  PROVE  Surf(s, past).past = {past}
  BY DEF Surf

LEMMA SurfInside ==
  ASSUME NEW s, NEW past, past = FALSE
  PROVE  Inside(Surf(s, past))
<1>1. Surf(s, past).past = {FALSE} BY SurfPast
<1> QED BY <1>1 DEF Inside

LEMMA AviaInside == Inside(Avia(msg))
<1> DEFINE s == Picked(Untimed(msg), {i \in 1..Size(msg) : Filled(msg, i) /\ New(msg, i)})
<1>1. Avia(msg) = IF feature_enabled THEN Features(msg, s, 6) ELSE Surf(s, FALSE)
  BY DEF Avia
<1> HIDE DEF s
<1>2. CASE feature_enabled
  <2>1. 6 \in Nat /\ 6 # 0 OBVIOUS
  <2>2. Inside(Features(msg, s, 6)) BY <1>2, <2>1, FeaturesExcused
  <2> QED BY <1>1, <1>2, <2>2
<1>3. CASE ~feature_enabled
  <2>1. Inside(Surf(s, FALSE)) BY SurfInside
  <2> QED BY <1>1, <1>3, <2>1
<1> QED BY <1>2, <1>3

LEMMA OustInside ==
  ASSUME lidar_type = "OUST64"
  PROVE  Inside(Oust64(msg))
<1> DEFINE away == {i \in 1..Size(msg) : ~Close(msg.points[i])}
           s == Picked(Untimed(msg), away)
           t == Picked(Untimed(msg), {i \in away : Chosen(i) /\ ~Far(msg.points[i])})
<1>1. Oust64(msg) = IF feature_enabled THEN Features(msg, s, 0) ELSE Surf(t, FALSE)
  BY DEF Oust64
<1> HIDE DEF s, t
<1> QED BY <1>1, FeaturesExcused, SurfInside

LEMMA VelodyneInside ==
  ASSUME lidar_type = "VELO16"
  PROVE  Inside(Velodyne(msg))
<1>1. CASE Size(msg) = 0
  <2>1. Velodyne(msg) = Surf(<<>>, FALSE) BY <1>1 DEF Velodyne
  <2> QED BY <2>1, SurfInside
<1>2. CASE Size(msg) # 0 /\ feature_enabled
  <2>1. Velodyne(msg) = Features(msg, Timed(msg), 2) BY <1>2 DEF Velodyne
  <2> QED BY <1>2, <2>1, FeaturesExcused
<1>3. CASE Size(msg) # 0 /\ ~feature_enabled
  <2> DEFINE past == ~Given(msg) /\ \E i \in 1..Size(msg) : msg.points[i].ring \notin Rings
  <2>1. Velodyne(msg) = Surf(Thinned(msg), past) BY <1>3 DEF Velodyne
  <2>2. past \in BOOLEAN /\ (past => Excused(Velodyne(msg))) BY <1>3 DEF Excused
  <2> HIDE DEF past
  <2>3. Velodyne(msg).past = {past} BY <2>1, SurfPast
  <2> QED BY <2>2, <2>3, Zenon DEF Inside
<1> QED BY <1>1, <1>2, <1>3

LEMMA RobosenseM1Inside ==
  ASSUME NEW k, RSM, msg.width = 0 => Size(msg) = 0
  PROVE  Inside(RobosenseM1(msg, k))
<1>1. CASE msg.width = 0
  <2>1. RobosenseM1(msg, k) = Surf(<<>>, TRUE) BY <1>1 DEF RobosenseM1
  <2>2. RobosenseM1(msg, k).past = {TRUE} BY <2>1, SurfPast
  <2> QED BY <1>1, <2>2 DEF Inside, Excused
<1>2. CASE msg.width # 0
  <2>1. RobosenseM1(msg, k) = IF feature_enabled THEN Features(msg, Kept(msg, k), 0)
                              ELSE Surf(Kept(msg, k), FALSE)
    BY <1>2 DEF RobosenseM1
  <2> QED BY <2>1, FeaturesExcused, SurfInside DEF RSM
<1> QED BY <1>1, <1>2

-----------------------------------------------------------------------------
(* The invariant is kept *)

LEMMA InvInit ==
  ASSUME Init
  PROVE  PreprocessInv
<1>1. Configured
  BY PreprocessAssumption DEF PreprocessAssumption, Init, Configured
<1>2. Waiting BY DEF Init, Waiting
<1>3. CloudsRight BY <1>2 DEF Waiting, CloudsRight
<1>4. ReadsInside BY DEF Init, ReadsInside
<1> QED BY <1>1, <1>2, <1>3, <1>4 DEF PreprocessInv

LEMMA InvReceive ==
  ASSUME PreprocessInv, NEW m \in Messages[lidar_type], Receive(m)
  PROVE  PreprocessInv'
<1>1. UNCHANGED conf /\ msg' = m /\ received' = received + 1 /\ i_sub_cloud' = 0
      /\ clouds' = <<>> /\ ~past_end /\ past_end' = past_end /\ ~thrown /\ thrown' = thrown
  BY DEF Receive
<1>2. UNCHANGED <<lidar_type, point_filter_num, num_sub_cloud>> BY <1>1 DEF conf
<1>3. Configured' BY <1>2 DEF PreprocessInv, Configured
<1>4. received \in Nat /\ num_sub_cloud \in Nat BY DEF PreprocessInv, Waiting, Working, Configured
<1>5. Working'
  <2>1. <<>> \in Seq({}) /\ Len(<<>>) = 0 OBVIOUS
  <2> QED BY <1>1, <1>2, <1>4, <2>1 DEF Working
<1>6. CloudsRight' BY <1>1 DEF CloudsRight
<1>7. ReadsInside' BY <1>1 DEF ReadsInside
<1> QED BY <1>3, <1>5, <1>6, <1>7 DEF PreprocessInv

LEMMA RightStays ==
  ASSUME UNCHANGED <<conf, msg, received>>, NEW k, NEW cl, PartRight(k, cl)
  PROVE  PartRight(k, cl)'
<1>1. /\ lidar_type' = lidar_type /\ feature_enabled' = feature_enabled
      /\ point_filter_num' = point_filter_num /\ num_sub_cloud' = num_sub_cloud
      /\ msg' = msg /\ received' = received
  BY DEF conf
<1>2. OneEach(received, Size(msg), cl.surf)'
  BY <1>1, Zenon DEF PartRight, OneEach, Size
<1>3. \A m, s : M1Cloud(m, k, s) => M1Cloud(m, k, s)'
  BY <1>1 DEF M1Cloud, Wanted, OneEach, Size, PartOf, FirstRow, EndRow, PartRows, Rows,
              Cols, Place, Stamp, Begins, Close, Far
<1>4. \A m : PartRows(m)' = PartRows(m) /\ Begins(m, m.width - 1, k)' = Begins(m, m.width - 1, k)
              /\ Stamp(m, m.width - 1, EndRow(m, k) - 1)' = Stamp(m, m.width - 1, EndRow(m, k) - 1)
  BY <1>1 DEF Stamp, Place, EndRow, Begins, FirstRow, PartRows, Rows, Size
<1>5. VelodyneCloud(msg, cl.surf) => VelodyneCloud(msg, cl.surf)'
  <2>1. CASE Size(msg) = 0
    <3>1. Len(cl.surf) = 0 BY <2>1 DEF PartRight, OneEach
    <3> QED BY <1>2, <3>1 DEF VelodyneCloud
  <2>2. CASE Size(msg) # 0
    <3>1. Given(msg)' = Given(msg) BY <1>1, <2>2 DEF Given, Size
    <3> QED BY <1>1, <1>2, <3>1 DEF VelodyneCloud
  <2> QED BY <2>1, <2>2
<1>6. M1Cloud(msg, k, cl.surf) => M1Cloud(msg, k, cl.surf)'
  BY <1>1, <1>3
<1>7. /\ PartRows(msg)' = PartRows(msg) /\ Begins(msg, msg.width - 1, k)' = Begins(msg, msg.width - 1, k)
      /\ Stamp(msg, msg.width - 1, EndRow(msg, k) - 1)' = Stamp(msg, msg.width - 1, EndRow(msg, k) - 1)
  BY <1>1, <1>4
<1>8. RSM' = RSM BY <1>1 DEF RSM
<1> QED BY <1>1, <1>2, <1>5, <1>6, <1>7, <1>8 DEF PartRight

LEMMA AppendAt ==
  ASSUME NEW s, \E S : s \in Seq(S), NEW x
  PROVE  /\ \E S : Append(s, x) \in Seq(S)
         /\ Len(s) \in Nat /\ Len(Append(s, x)) = Len(s) + 1
         /\ \A a \in 1..Len(s) : Append(s, x)[a] = s[a]
         /\ Append(s, x)[Len(s) + 1] = x
<1>1. PICK S : s \in Seq(S) OBVIOUS
<1>2. s \in Seq(S \cup {x}) /\ x \in S \cup {x} BY <1>1
<1>3. Append(s, x) \in Seq(S \cup {x}) BY <1>2
<1> QED BY <1>2, <1>3

LEMMA InvHandled ==
  ASSUME PreprocessInv, NEW res, NEW start, NEW end, Handled(res, start, end),
         Working => PartRight(i_sub_cloud, [surf |-> res.surf, start |-> start, end |-> end]),
         Working => Inside(res)
  PROVE  PreprocessInv'
<1> DEFINE cl == [surf |-> res.surf, start |-> start, end |-> end]
<1>1. /\ i_sub_cloud < num_sub_cloud /\ i_sub_cloud' = i_sub_cloud + 1
      /\ pl_buff' = res.buff /\ past_end' \in res.past /\ ~thrown /\ thrown' = thrown
      /\ clouds' = Append(clouds, cl)
      /\ UNCHANGED <<conf, msg, received>>
  BY DEF Handled
<1>2. Working
  <2>1. ~Waiting
    <3> SUFFICES ASSUME Waiting PROVE FALSE OBVIOUS
    <3>1. i_sub_cloud = num_sub_cloud /\ num_sub_cloud \in Nat BY DEF Waiting, PreprocessInv, Configured
    <3> QED BY <1>1, <3>1
  <2> QED BY <2>1 DEF PreprocessInv
<1>3. PartRight(i_sub_cloud, cl) /\ Inside(res) BY <1>2
<1> HIDE DEF cl
<1>4. UNCHANGED <<lidar_type, feature_enabled, point_filter_num, num_sub_cloud, msg, received>>
  BY <1>1 DEF conf
<1>5. Configured' BY <1>4 DEF PreprocessInv, Configured
<1>6. /\ \E S : clouds' \in Seq(S)
      /\ Len(clouds) \in Nat /\ Len(clouds') = Len(clouds) + 1
      /\ \A c \in 1..Len(clouds) : clouds'[c] = clouds[c]
      /\ clouds'[Len(clouds) + 1] = cl
  <2>1. \E S : clouds \in Seq(S) BY <1>2 DEF Working
  <2> QED BY <1>1, <2>1, AppendAt, ZenonT(40)
<1>7. Working'
  BY <1>1, <1>2, <1>4, <1>6 DEF Working, PreprocessInv, Configured
<1>8. CloudsRight'
  <2> SUFFICES ASSUME NEW c \in 1..Len(clouds')
               PROVE  PartRight(c - 1, clouds[c])'
    BY DEF CloudsRight
  <2>1. PartRight(c - 1, clouds'[c])
    <3>1. CASE c \in 1..Len(clouds)
      <4>1. PartRight(c - 1, clouds[c]) BY <3>1 DEF PreprocessInv, CloudsRight
      <4> QED BY <1>6, <3>1, <4>1
    <3>2. CASE c = Len(clouds) + 1
      <4>1. c - 1 = i_sub_cloud BY <1>2, <1>6, <3>2 DEF Working
      <4> QED BY <1>3, <1>6, <3>2, <4>1
    <3> QED BY <1>6, <3>1, <3>2
  <2> QED BY <1>1, <2>1, RightStays
<1>9. ReadsInside'
  <2>1. past_end' => Excused(res)
    <3>1. past_end' \in BOOLEAN BY <1>1, <1>3 DEF Inside
    <3> QED BY <1>1, <1>3, <3>1, Zenon DEF Inside
  <2>2. \A q : OnlyClose(msg, q) = OnlyClose(msg, q)' /\ PlaneToEnd(msg, q) = PlaneToEnd(msg, q)'
    BY <1>4 DEF OnlyClose, PlaneToEnd, FlatClose
  <2>3. Size(msg) = Size(msg)' BY <1>4 DEF Size
  <2> QED BY <1>1, <1>4, <2>1, <2>2, <2>3, Zenon DEF ReadsInside, Excused, RSM
<1> QED BY <1>5, <1>7, <1>8, <1>9 DEF PreprocessInv

LEMMA InvThrow ==
  ASSUME PreprocessInv, ThrowRobosenseM1
  PROVE  PreprocessInv'
<1>1. /\ RSM /\ ~past_end /\ AtThrows(msg, i_sub_cloud)
      /\ UNCHANGED <<conf, msg, received, i_sub_cloud, clouds, past_end>>
  BY DEF ThrowRobosenseM1, RSM
<1>2. UNCHANGED <<lidar_type, feature_enabled, point_filter_num, num_sub_cloud>>
  BY <1>1 DEF conf
<1>3. Configured' BY <1>2 DEF PreprocessInv, Configured
<1>4. (Waiting \/ Working)' BY <1>1, <1>2 DEF PreprocessInv, Waiting, Working
<1>5. CloudsRight'
  <2> SUFFICES ASSUME NEW c \in 1..Len(clouds')
               PROVE  PartRight(c - 1, clouds[c])'
    BY DEF CloudsRight
  <2>1. PartRight(c - 1, clouds'[c]) BY <1>1 DEF PreprocessInv, CloudsRight
  <2> QED BY <1>1, <2>1, RightStays
<1>6. ReadsInside'
  <2>1. RSM' /\ Rows(msg)' = 1
    BY <1>1, <1>2 DEF AtThrows, RSM, Rows, Size
  <2> QED BY <1>1, <2>1 DEF ReadsInside, RSM
<1> QED BY <1>3, <1>4, <1>5, <1>6 DEF PreprocessInv

LEMMA InvNext ==
  ASSUME PreprocessInv, [Next]_vars
  PROVE  PreprocessInv'
<1>1. ASSUME NEW m \in Messages[lidar_type], Receive(m)
      PROVE  PreprocessInv'
  BY <1>1, InvReceive
<1>2. ASSUME Working
      PROVE  /\ Size(msg) \in Nat /\ (lidar_type = "VELO16" => VelodyneMessage(msg))
             /\ RSM => M1Message(msg)
  BY <1>2, PointsOf DEF PreprocessInv
<1>3. CASE ProcessAvia
  <2>1. lidar_type = "AVIA" /\ Handled(Avia(msg), start_time, end_time) BY <1>3 DEF ProcessAvia
  <2> DEFINE cl == [surf |-> Avia(msg).surf, start |-> start_time, end |-> end_time]
  <2>2. cl.surf = Avia(msg).surf /\ ~RSM /\ lidar_type # "VELO16" BY <2>1 DEF RSM
  <2> HIDE DEF cl
  <2>3. Working => PartRight(i_sub_cloud, cl)
    BY <1>2, <2>2, AviaRight DEF PartRight
  <2>4. Inside(Avia(msg)) BY AviaInside
  <2> QED BY <2>1, <2>3, <2>4, InvHandled DEF cl
<1>4. CASE ProcessOust64
  <2>1. lidar_type = "OUST64" /\ Handled(Oust64(msg), start_time, end_time) BY <1>4 DEF ProcessOust64
  <2> DEFINE cl == [surf |-> Oust64(msg).surf, start |-> start_time, end |-> end_time]
  <2>2. cl.surf = Oust64(msg).surf /\ ~RSM /\ lidar_type # "VELO16" BY <2>1 DEF RSM
  <2> HIDE DEF cl
  <2>3. Working => PartRight(i_sub_cloud, cl)
    BY <1>2, <2>2, OustRight DEF PartRight
  <2>4. Inside(Oust64(msg)) BY <2>1, OustInside
  <2> QED BY <2>1, <2>3, <2>4, InvHandled DEF cl
<1>5. CASE ProcessVelodyne
  <2>1. lidar_type = "VELO16" /\ Handled(Velodyne(msg), start_time, end_time) BY <1>5 DEF ProcessVelodyne
  <2> DEFINE cl == [surf |-> Velodyne(msg).surf, start |-> start_time, end |-> end_time]
  <2>2. cl.surf = Velodyne(msg).surf /\ ~RSM BY <2>1 DEF RSM
  <2> HIDE DEF cl
  <2>3. Working => PartRight(i_sub_cloud, cl)
    BY <1>2, <2>1, <2>2, VelodyneRight DEF PartRight
  <2>4. Inside(Velodyne(msg)) BY <2>1, VelodyneInside
  <2> QED BY <2>1, <2>3, <2>4, InvHandled DEF cl
<1>6. CASE ProcessRobosenseM1
  <2> DEFINE k == i_sub_cloud
  <2>1. RSM /\ Handled(RobosenseM1(msg, k), StartTime(msg, k), EndTime(msg, k))
    BY <1>6 DEF ProcessRobosenseM1, RSM
  <2> DEFINE cl == [surf |-> RobosenseM1(msg, k).surf, start |-> StartTime(msg, k), end |-> EndTime(msg, k)]
  <2>2. cl.surf = RobosenseM1(msg, k).surf /\ cl.start = StartTime(msg, k) /\ cl.end = EndTime(msg, k)
    OBVIOUS
  <2> HIDE DEF cl
  <2>3. Working => PartRight(k, cl)
    <3>1. Working => k \in 0..(num_sub_cloud - 1)
      BY <2>1 DEF Working, Handled, PreprocessInv, Configured
    <3>2. Configured BY DEF PreprocessInv
    <3> QED BY <1>2, <2>1, <2>2, <3>1, <3>2, RobosenseM1Right
  <2>4. Working => Inside(RobosenseM1(msg, k))
    <3>1. Working => (msg.width = 0 => Size(msg) = 0) BY <1>2, <2>1 DEF M1Message
    <3> QED BY <2>1, <3>1, RobosenseM1Inside
  <2> QED BY <2>1, <2>3, <2>4, InvHandled DEF cl
<1>7. CASE UNCHANGED vars
  <2>1. /\ UNCHANGED <<lidar_type, feature_enabled, point_filter_num, num_sub_cloud, msg, received,
                       i_sub_cloud, pl_buff, clouds, past_end, thrown>>
        /\ UNCHANGED <<conf, msg, received>>
    BY <1>7 DEF vars, conf
  <2>2. Configured' BY <2>1 DEF PreprocessInv, Configured
  <2>3. (Waiting \/ Working)' BY <2>1 DEF PreprocessInv, Waiting, Working
  <2>4. CloudsRight'
    <3> SUFFICES ASSUME NEW c \in 1..Len(clouds')
                 PROVE  PartRight(c - 1, clouds[c])'
      BY DEF CloudsRight
    <3>1. PartRight(c - 1, clouds'[c]) BY <2>1 DEF PreprocessInv, CloudsRight
    <3> QED BY <2>1, <3>1, RightStays
  <2>5. ReadsInside' BY <2>1 DEF PreprocessInv, ReadsInside, OnlyClose, PlaneToEnd, FlatClose, Rows, Size
  <2> QED BY <2>2, <2>3, <2>4, <2>5 DEF PreprocessInv
<1>9. CASE ThrowRobosenseM1 BY <1>9, InvThrow
<1>8. Later[lidar_type] \subseteq Messages[lidar_type]
  BY PreprocessAssumption DEF PreprocessAssumption, PreprocessInv, Configured
<1> QED BY <1>1, <1>3, <1>4, <1>5, <1>6, <1>7, <1>8, <1>9 DEF Next, process

\* The invariant of preprocessing: the clouds handed back so far are each right for
\* their part of the message at hand, and nothing was read outside of a container
\* but in the cases that ReadsInside names.
THEOREM PreprocessInvariance == Spec => []PreprocessInv
<1>1. Init => PreprocessInv BY InvInit
<1>2. PreprocessInv /\ [Next]_vars => PreprocessInv' BY InvNext
<1> QED BY <1>1, <1>2, PTL DEF Spec

\* Only for an M1 message without points, a Velodyne ring that is not counted in a
\* message without times, and, with features, rings of close points only, rings that may
\* end with a plane or empty ones does a handler leave a container, and at() throws only
\* for an M1 message of one row, whatever the messages, the rings and the parts.
THEOREM ReadsStayInside == Spec => []ReadsInside
<1>1. PreprocessInv => ReadsInside BY DEF PreprocessInv
<1> QED BY <1>1, PreprocessInvariance, PTL

-----------------------------------------------------------------------------
(* Times *)

LEMMA VelodyneTimed ==
  ASSUME PreprocessInv
  PROVE  VelodyneTimes
<1> SUFFICES ASSUME lidar_type = "VELO16", Steady(msg), NEW c \in 1..Len(clouds),
                    NEW k \in 1..Len(clouds[c].surf)
             PROVE  clouds[c].surf[k].curvature
                      = IF Given(msg) THEN msg.points[clouds[c].surf[k].i].at
                        ELSE msg.points[clouds[c].surf[k].i].at
                               - FirstAt(msg, msg.points[clouds[c].surf[k].i].ring)
  BY DEF VelodyneTimes
<1>1. clouds[c].surf = <<>> \/ VelodyneCloud(msg, clouds[c].surf)
  BY DEF PreprocessInv, CloudsRight, PartRight
<1>2. clouds[c].surf # <<>>
  <2> SUFFICES ASSUME clouds[c].surf = <<>> PROVE FALSE OBVIOUS
  <2>1. Len(clouds[c].surf) = 0 OBVIOUS
  <2> QED BY <2>1
<1> QED BY <1>1, <1>2 DEF VelodyneCloud

LEMMA M1Timed ==
  ASSUME PreprocessInv
  PROVE  M1Times
<1> SUFFICES ASSUME M1, ~feature_enabled, NEW c \in 1..Len(clouds), NEW n \in 1..Len(clouds[c].surf)
             PROVE  LET q == clouds[c].surf[n]
                        t == msg.points[q.i].time
                    IN /\ t - (clouds[c].start + q.curvature) \in Skews(msg)
                       /\ q.curvature >= 0
                       /\ PartRows(msg) > 1 => \E s \in Skews(msg) : t <= clouds[c].end + s
  BY DEF M1Times
<1> DEFINE q == clouds[c].surf[n]
           t == msg.points[q.i].time
           k == c - 1
           w == msg.width
<1>1. Working
  <2>1. ~Waiting
    <3> SUFFICES ASSUME Waiting PROVE FALSE OBVIOUS
    <3>1. Len(clouds) = 0 BY DEF Waiting
    <3> QED BY <3>1
  <2> QED BY <2>1 DEF PreprocessInv
<1>2. Configured /\ RSM /\ w # 0 /\ msg.width > 0 BY DEF PreprocessInv, M1, RSM
<1>3. M1Message(msg) /\ Size(msg) \in Nat BY <1>1, <1>2, PointsOf
<1>4. w \in Nat \ {0} /\ num_sub_cloud \in Nat \ {0} /\ k \in 0..(num_sub_cloud - 1)
  BY <1>1, <1>2, <1>3 DEF M1Message, Configured, Working
<1>5. /\ M1Cloud(msg, k, clouds[c].surf)
      /\ PartRows(msg) > 0 => clouds[c].start = Begins(msg, w - 1, k)
      /\ PartRows(msg) > 1 => clouds[c].end = Stamp(msg, w - 1, EndRow(msg, k) - 1)
  BY <1>2 DEF PreprocessInv, CloudsRight, PartRight
<1>6. PICK col \in Cols(msg), row \in PartOf(msg, k) :
        q.i = Place(msg, col, row) /\ q.curvature = Stamp(msg, col, row) - Begins(msg, col, k)
  BY <1>5 DEF M1Cloud
<1>7. /\ Rows(msg) \in Nat /\ PartRows(msg) \in Nat /\ PartRows(msg) * num_sub_cloud \in Nat
      /\ PartRows(msg) * num_sub_cloud <= Rows(msg) /\ Rows(msg) * msg.width <= Size(msg)
      /\ FirstRow(msg, k) \in Nat /\ EndRow(msg, k) = FirstRow(msg, k) + PartRows(msg)
      /\ EndRow(msg, k) <= PartRows(msg) * num_sub_cloud
  BY <1>3, <1>4, PartsOfRows, Zenon
<1> DEFINE F == FirstRow(msg, k)
           E == EndRow(msg, k) - 1
           R == Rows(msg)
<1>8. /\ row \in F..E /\ F \in 0..(R - 1) /\ E \in 0..(R - 1) /\ row \in 0..(R - 1)
      /\ col \in 0..(w - 1) /\ w - 1 \in 0..(w - 1) /\ PartRows(msg) > 0 /\ F <= row /\ row <= E
      /\ 0 \in 0..(R - 1)
  <2>1. row \in FirstRow(msg, k)..(EndRow(msg, k) - 1) /\ col \in 0..(msg.width - 1)
    BY DEF PartOf, Cols
  <2>2. EndRow(msg, k) <= Rows(msg) BY <1>7
  <2>3. Rows(msg) \in Nat /\ PartRows(msg) \in Nat /\ FirstRow(msg, k) \in Nat
        /\ EndRow(msg, k) = FirstRow(msg, k) + PartRows(msg) /\ msg.width \in Nat \ {0}
    BY <1>4, <1>7
  <2> HIDE DEF k
  <2> QED BY <2>1, <2>2, <2>3
<1>9. \A b \in 0..(w - 1), l \in 0..(R - 1) : Stamp(msg, b, l) \in Int
  <2> TAKE b \in 0..(w - 1), l \in 0..(R - 1)
  <2>1. Place(msg, b, l) \in 1..Size(msg) BY <1>3, <1>4, <1>7, Cell DEF Cols
  <2> QED BY <1>3, <2>1 DEF M1Message, Stamp
<1>10. /\ \A b \in 0..(w - 1), l \in 0..(R - 1) : \A e \in 0..(w - 1) :
            Stamp(msg, b, l) - Stamp(msg, e, l) = Stamp(msg, b, 0) - Stamp(msg, e, 0)
       /\ \A b \in 0..(w - 1), l \in 0..(R - 1) : \A e \in 0..l : Stamp(msg, b, e) <= Stamp(msg, b, l)
  BY <1>3 DEF M1Message
<1>11. t = Stamp(msg, col, row) BY <1>6 DEF Stamp
<1>12. clouds[c].start = Stamp(msg, w - 1, F) /\ q.curvature = Stamp(msg, col, row) - Stamp(msg, col, F)
  BY <1>5, <1>6, <1>8 DEF Begins
<1> DEFINE d == Stamp(msg, col, 0) - Stamp(msg, w - 1, 0)
<1>13. d \in Skews(msg) BY <1>8 DEF Skews
<1> HIDE DEF q, t, F, E, R, w, k
<1>14. /\ Stamp(msg, col, row) \in Int /\ Stamp(msg, col, F) \in Int /\ Stamp(msg, w - 1, F) \in Int
       /\ Stamp(msg, col, E) \in Int /\ Stamp(msg, w - 1, E) \in Int
  BY <1>8, <1>9
<1>15. Stamp(msg, col, F) - Stamp(msg, w - 1, F) = d /\ Stamp(msg, col, E) - Stamp(msg, w - 1, E) = d
  BY <1>8, <1>10
<1>16. Stamp(msg, col, F) <= Stamp(msg, col, row) /\ Stamp(msg, col, row) <= Stamp(msg, col, E)
  <2>1. F \in 0..row /\ row \in 0..E BY <1>8
  <2> QED BY <1>8, <1>10, <2>1
<1> HIDE DEF d
<1>17. t - (clouds[c].start + q.curvature) = d /\ q.curvature >= 0
  BY <1>11, <1>12, <1>14, <1>15, <1>16
<1>18. PartRows(msg) > 1 => t <= clouds[c].end + d
  <2>1. PartRows(msg) > 1 => clouds[c].end = Stamp(msg, w - 1, E) BY <1>5 DEF E, w, k
  <2>2. d \in Int BY <1>14, <1>15
  <2> QED BY <1>11, <1>14, <1>15, <1>16, <2>1, <2>2
<1> QED BY <1>13, <1>17, <1>18 DEF q, t

\* A point's time is when it was measured, for every message: since the first return of
\* its ring when velodyne_handler works it out from angles, past a full turn and where
\* the angle jumps; and with M1's start time, which is assigned anew in every column,
\* up to the time between two channels.
THEOREM TimesAreRight == Spec => []TimesRight
<1>1. PreprocessInv => TimesRight
  BY VelodyneTimed, M1Timed DEF TimesRight
<1> QED BY <1>1, PreprocessInvariance, PTL

-----------------------------------------------------------------------------
(* The points of a message *)

LEMMA PlaceOf ==
  ASSUME NEW a \in Places
  PROVE  /\ a[1] \in 1..Len(clouds) /\ a[2] \in 1..Len(clouds[a[1]].surf) /\ a = <<a[1], a[2]>>
         /\ PointAt(a) = clouds[a[1]].surf[a[2]]
<1>1. PICK c \in 1..Len(clouds) : a \in {<<c, k>> : k \in 1..Len(clouds[c].surf)}
  BY DEF Places
<1>2. PICK k \in 1..Len(clouds[c].surf) : a = <<c, k>> BY <1>1
<1> QED BY <1>2 DEF PointAt

LEMMA PlaceIn ==
  ASSUME NEW c \in 1..Len(clouds), NEW k \in 1..Len(clouds[c].surf)
  PROVE  <<c, k>> \in Places /\ PointAt(<<c, k>>) = clouds[c].surf[k]
  BY DEF Places, PointAt

\* The rows of two parts are different.
LEMMA PartsApart ==
  ASSUME NEW m, Size(m) \in Nat, m.width \in Nat \ {0}, num_sub_cloud \in Nat \ {0},
         NEW k \in 0..(num_sub_cloud - 1), NEW l \in 0..(num_sub_cloud - 1), k < l
  PROVE  PartOf(m, k) \cap PartOf(m, l) = {}
<1>1. /\ PartRows(m) \in Nat
      /\ FirstRow(m, k) = PartRows(m) * k /\ FirstRow(m, l) = PartRows(m) * l
      /\ FirstRow(m, k) \in Nat /\ FirstRow(m, l) \in Nat
      /\ EndRow(m, k) = FirstRow(m, k) + PartRows(m)
  BY PartsOfRows
<1>2. PartRows(m) * (k + 1) <= PartRows(m) * l
  <2>1. \A a \in Nat, b \in Nat, c \in Nat : b <= c => a * b <= a * c BY SMTT(20)
  <2>2. k + 1 \in Nat /\ l \in Nat /\ k + 1 <= l OBVIOUS
  <2> QED BY <1>1, <2>1, <2>2, Zenon
<1>3. PartRows(m) * (k + 1) = PartRows(m) * k + PartRows(m) BY <1>1, SMTT(20)
<1>4. EndRow(m, k) <= FirstRow(m, l) BY <1>1, <1>2, <1>3
<1>5. EndRow(m, k) \in Nat BY <1>1
<1> QED BY <1>1, <1>4, <1>5 DEF PartOf

\* Where a point of an M1 cloud comes from.
LEMMA M1Point ==
  ASSUME PreprocessInv, RSM, NEW a \in Places
  PROVE  /\ Working /\ Configured /\ M1Message(msg) /\ Size(msg) \in Nat
         /\ msg.width \in Nat \ {0} /\ num_sub_cloud \in Nat \ {0} /\ ~feature_enabled
         /\ a[1] - 1 \in 0..(num_sub_cloud - 1)
         /\ \E col \in Cols(msg), row \in PartOf(msg, a[1] - 1) :
              PointAt(a).i = Place(msg, col, row) /\ Wanted(msg, col, row)
<1> DEFINE cl == clouds[a[1]]
           k == a[1] - 1
<1>1. a[1] \in 1..Len(clouds) /\ a[2] \in 1..Len(cl.surf) /\ PointAt(a) = cl.surf[a[2]]
  BY PlaceOf
<1>2. Working
  <2>1. ~Waiting
    <3> SUFFICES ASSUME Waiting PROVE FALSE OBVIOUS
    <3>1. Len(clouds) = 0 BY DEF Waiting
    <3> QED BY <1>1, <3>1
  <2> QED BY <2>1 DEF PreprocessInv
<1>3. Configured /\ PartRight(k, cl) BY <1>1 DEF PreprocessInv, CloudsRight
<1>4. M1Message(msg) /\ Size(msg) \in Nat BY <1>2, <1>3, PointsOf
<1>5. cl.surf # <<>>
  <2> SUFFICES ASSUME cl.surf = <<>> PROVE FALSE OBVIOUS
  <2>1. Len(cl.surf) = 0
    <3> HIDE DEF cl
    <3> QED OBVIOUS
  <2> QED BY <1>1, <2>1
<1>6. ~feature_enabled /\ msg.width # 0 BY <1>3, <1>5 DEF PartRight
<1>7. msg.width \in Nat \ {0} /\ num_sub_cloud \in Nat \ {0} BY <1>3, <1>4, <1>6 DEF M1Message, Configured
<1>8. k \in 0..(num_sub_cloud - 1) BY <1>1, <1>2, <1>7 DEF Working
<1>9. M1Cloud(msg, k, cl.surf) BY <1>3, <1>6 DEF PartRight
<1>10. \E col \in Cols(msg), row \in PartOf(msg, k) :
         cl.surf[a[2]].i = Place(msg, col, row) /\ Wanted(msg, col, row)
  BY <1>1, <1>9 DEF M1Cloud
<1> QED BY <1>1, <1>2, <1>3, <1>4, <1>6, <1>7, <1>8, <1>10

LEMMA RowOfPart ==
  ASSUME NEW m, Size(m) \in Nat, m.width \in Nat \ {0}, num_sub_cloud \in Nat \ {0},
         NEW k \in 0..(num_sub_cloud - 1), NEW col \in Cols(m), NEW row \in PartOf(m, k)
  PROVE  /\ (Place(m, col, row) - 1) \div m.width = row
         /\ Place(m, col, row) \in 1..(PartRows(m) * num_sub_cloud * m.width)
<1> DEFINE R == PartRows(m) * num_sub_cloud
<1>1. /\ PartRows(m) \in Nat /\ R \in Nat /\ R <= Rows(m) /\ Rows(m) \in Nat
      /\ Rows(m) * m.width \in Nat /\ Rows(m) * m.width <= Size(m)
      /\ FirstRow(m, k) \in Nat /\ EndRow(m, k) <= R
      /\ EndRow(m, k) = FirstRow(m, k) + PartRows(m)
  BY PartsOfRows, Zenon
<1> HIDE DEF R
<1>2. row \in 0..(R - 1)
  <2>1. row \in FirstRow(m, k)..(EndRow(m, k) - 1) BY DEF PartOf
  <2> QED BY <1>1, <2>1
<1>3. R * m.width <= Size(m)
  <2>1. \A a \in Nat, b \in Nat, c \in Nat : b <= c => b * a <= c * a /\ b * a \in Nat BY SMTT(20)
  <2>2. R * m.width <= Rows(m) * m.width /\ R * m.width \in Nat BY <1>1, <2>1
  <2> QED BY <1>1, <2>2
<1>4. (Place(m, col, row) - 1) \div m.width = row /\ Place(m, col, row) \in 1..(R * m.width)
  BY <1>1, <1>2, <1>3, Cell
<1> QED BY <1>4 DEF R

LEMMA NothingTwice ==
  ASSUME PreprocessInv, NEW a \in Places, NEW b \in Places
  PROVE  /\ PointAt(a).of = received
         /\ PointAt(a).i = PointAt(b).i => a = b
<1>1. /\ a[1] \in 1..Len(clouds) /\ a[2] \in 1..Len(clouds[a[1]].surf) /\ a = <<a[1], a[2]>>
      /\ b[1] \in 1..Len(clouds) /\ b[2] \in 1..Len(clouds[b[1]].surf) /\ b = <<b[1], b[2]>>
      /\ PointAt(a) = clouds[a[1]].surf[a[2]] /\ PointAt(b) = clouds[b[1]].surf[b[2]]
  BY PlaceOf
<1>2. OneEach(received, Size(msg), clouds[a[1]].surf)
  BY <1>1 DEF PreprocessInv, CloudsRight, PartRight
<1>3. PointAt(a).of = received BY <1>1, <1>2 DEF OneEach
<1>4. ASSUME PointAt(a).i = PointAt(b).i
      PROVE  a = b
  <2>1. CASE a[1] = b[1]
    <3>1. a[2] = b[2] BY <1>1, <1>2, <1>4, <2>1 DEF OneEach
    <3> QED BY <1>1, <2>1, <3>1
  <2>2. CASE a[1] # b[1]
    <3>1. RSM
      <4> SUFFICES ASSUME ~RSM PROVE FALSE OBVIOUS
      <4>1. num_sub_cloud = 1 BY DEF RSM, PreprocessInv, Configured
      <4>2. Len(clouds) <= 1
        <5>1. CASE Waiting
          <6>1. Len(clouds) = 0 BY <5>1 DEF Waiting
          <6> QED BY <6>1
        <5>2. CASE Working BY <4>1, <5>2 DEF Working
        <5> QED BY <5>1, <5>2 DEF PreprocessInv
      <4> QED BY <1>1, <2>2, <4>2
    <3>2. /\ Size(msg) \in Nat /\ msg.width \in Nat \ {0} /\ num_sub_cloud \in Nat \ {0}
          /\ a[1] - 1 \in 0..(num_sub_cloud - 1) /\ b[1] - 1 \in 0..(num_sub_cloud - 1)
      BY <3>1, M1Point, Zenon
    <3>3. PICK col \in Cols(msg), row \in PartOf(msg, a[1] - 1) : PointAt(a).i = Place(msg, col, row)
      BY <3>1, M1Point
    <3>4. PICK col2 \in Cols(msg), row2 \in PartOf(msg, b[1] - 1) : PointAt(b).i = Place(msg, col2, row2)
      BY <3>1, M1Point
    <3>5. row = (PointAt(a).i - 1) \div msg.width /\ row2 = (PointAt(b).i - 1) \div msg.width
      <4>1. (Place(msg, col, row) - 1) \div msg.width = row BY <3>2, RowOfPart, ZenonT(40)
      <4>2. (Place(msg, col2, row2) - 1) \div msg.width = row2 BY <3>2, RowOfPart, ZenonT(40)
      <4> QED BY <3>3, <3>4, <4>1, <4>2
    <3>6. row = row2 BY <1>4, <3>5, Zenon
    <3>7. PartOf(msg, a[1] - 1) \cap PartOf(msg, b[1] - 1) = {}
      <4>1. CASE a[1] < b[1]
        <5>1. a[1] - 1 < b[1] - 1 BY <1>1, <4>1
        <5> QED BY <3>2, <5>1, PartsApart, Zenon
      <4>2. CASE b[1] < a[1]
        <5>1. b[1] - 1 < a[1] - 1 BY <1>1, <4>2
        <5>2. PartOf(msg, b[1] - 1) \cap PartOf(msg, a[1] - 1) = {}
          BY <3>2, <5>1, PartsApart, Zenon
        <5> QED BY <5>2
      <4> QED BY <1>1, <2>2, <4>1, <4>2
    <3> QED BY <3>3, <3>4, <3>6, <3>7
  <2> QED BY <2>1, <2>2
<1> QED BY <1>3, <1>4

LEMMA AllDelivered ==
  ASSUME PreprocessInv, M1, ~feature_enabled, i_sub_cloud = num_sub_cloud
  PROVE  Delivered = Due(msg)
<1> DEFINE w == msg.width
           P == PartRows(msg)
           N == P * num_sub_cloud
<1>1. RSM /\ msg.width > 0 BY DEF M1, RSM
<1>2. Working
  <2>1. Waiting => msg.width = 0 BY DEF Waiting, NoMsg
  <2> QED BY <1>1, <2>1 DEF PreprocessInv
<1>3. M1Message(msg) /\ Size(msg) \in Nat BY <1>1, <1>2, PointsOf DEF PreprocessInv
<1>4. w \in Nat \ {0} /\ num_sub_cloud \in Nat \ {0} /\ Len(clouds) = num_sub_cloud
  BY <1>1, <1>2, <1>3 DEF M1Message, PreprocessInv, Configured, Working
<1>5. P \in Nat /\ N \in Nat /\ N <= Rows(msg) /\ Rows(msg) \in Nat
      /\ Rows(msg) * w \in Nat /\ Rows(msg) * w <= Size(msg)
  BY <1>3, <1>4, PartsOfRows, Zenon
<1>6. Due(msg) = {i \in 1..(N * w) :
                    /\ ((i - 1) \div w) % point_filter_num = 0
                    /\ ~Close(msg.points[i]) /\ ~Far(msg.points[i])}
  BY DEF Due
<1>7. ASSUME NEW a \in Places
      PROVE  PointAt(a).i \in Due(msg)
  <2>1. a[1] - 1 \in 0..(num_sub_cloud - 1) BY <1>1, M1Point
  <2>2. PICK col \in Cols(msg), row \in PartOf(msg, a[1] - 1) :
          PointAt(a).i = Place(msg, col, row) /\ Wanted(msg, col, row)
    BY <1>1, M1Point
  <2>3. /\ Size(msg) \in Nat /\ msg.width \in Nat \ {0} /\ num_sub_cloud \in Nat \ {0}
        /\ a[1] - 1 \in 0..(num_sub_cloud - 1)
    BY <1>1, M1Point, Zenon
  <2>4. /\ (Place(msg, col, row) - 1) \div msg.width = row
        /\ Place(msg, col, row) \in 1..(PartRows(msg) * num_sub_cloud * msg.width)
    BY <2>3, RowOfPart, Zenon
  <2> QED BY <1>6, <2>2, <2>4 DEF Wanted
<1>8. ASSUME NEW i \in Due(msg)
      PROVE  \E a \in Places : PointAt(a).i = i
  <2> DEFINE row == (i - 1) \div w
             col == (i - 1) % w
  <2>1. i \in 1..(N * w) /\ row % point_filter_num = 0
        /\ ~Close(msg.points[i]) /\ ~Far(msg.points[i])
    BY <1>6
  <2> HIDE DEF w, P, N
  <2>2. \A x, y \in Nat : x * y \in Nat BY SMTT(20)
  <2>3. N * w \in Nat /\ i - 1 \in Nat /\ i - 1 < N * w BY <1>4, <1>5, <2>1, <2>2
  <2>4. row \in Nat /\ col \in 0..(w - 1) /\ i - 1 = row * w + col BY <1>4, <2>3, Quotient, Zenon
  <2> HIDE DEF row, col
  <2>5. row < N
    <3>1. row * w + col < N * w BY <2>3, <2>4, Zenon
    <3>2. col \in Nat BY <1>4, <2>4
    <3> QED BY <1>4, <1>5, <2>4, <3>1, <3>2, QuotientLess, Zenon
  <2>6. P # 0
    <3> SUFFICES ASSUME P = 0 PROVE FALSE OBVIOUS
    <3>1. N = 0 BY <1>4 DEF N
    <3> QED BY <2>4, <2>5, <3>1
  <2>7. i = Place(msg, col, row)
    <3>1. row * w \in Nat BY <1>4, <2>2, <2>4
    <3>2. i \in Nat /\ col \in Nat BY <1>4, <1>5, <2>1, <2>3, <2>4
    <3>3. Place(msg, col, row) = row * w + col + 1 BY DEF Place, w
    <3> QED BY <2>4, <3>1, <3>2, <3>3
  <2> DEFINE k == row \div P
             r == row % P
  <2>8. k \in Nat /\ r \in 0..(P - 1) /\ row = k * P + r
    <3>1. P \in Nat \ {0} BY <1>5, <2>6
    <3> QED BY <2>4, <3>1, Quotient, Zenon
  <2> HIDE DEF k, r
  <2>9. k \in 0..(num_sub_cloud - 1)
    <3>1. N = num_sub_cloud * P BY <1>4, <1>5 DEF N
    <3>2. k * P + r < num_sub_cloud * P BY <2>5, <2>8, <3>1, Zenon
    <3>3. r \in Nat /\ P \in Nat \ {0} BY <1>5, <2>6, <2>8
    <3>4. k < num_sub_cloud BY <1>4, <2>8, <3>2, <3>3, QuotientLess, Zenon
    <3> QED BY <1>4, <2>8, <3>4
  <2>10. row \in PartOf(msg, k)
    <3>1. FirstRow(msg, k) = P * k /\ FirstRow(msg, k) \in Nat /\ EndRow(msg, k) = FirstRow(msg, k) + P
      BY <1>3, <1>4, <2>9, PartsOfRows, Zenon DEF P, w
    <3>2. P * k = k * P BY <1>5, <2>8
    <3> QED BY <1>5, <2>8, <3>1, <3>2 DEF PartOf
  <2>11. col \in Cols(msg) BY <2>4 DEF Cols, w
  <2>12. Wanted(msg, col, row) BY <2>1, <2>7 DEF Wanted, row
  <2>13. k + 1 \in 1..Len(clouds) /\ (k + 1) - 1 = k BY <1>4, <2>9
  <2>14. M1Cloud(msg, k, clouds[k + 1].surf)
    <3>1. PartRight((k + 1) - 1, clouds[k + 1]) BY <2>13 DEF PreprocessInv, CloudsRight
    <3>2. PartRight(k, clouds[k + 1]) BY <2>13, <3>1
    <3> QED BY <1>1, <3>2 DEF PartRight
  <2>15. PICK n \in 1..Len(clouds[k + 1].surf) : clouds[k + 1].surf[n].i = Place(msg, col, row)
    BY <2>10, <2>11, <2>12, <2>14 DEF M1Cloud
  <2>16. <<k + 1, n>> \in Places /\ PointAt(<<k + 1, n>>) = clouds[k + 1].surf[n]
    BY <2>13, PlaceIn, Zenon
  <2> QED BY <2>7, <2>15, <2>16
<1> QED BY <1>7, <1>8 DEF Delivered

\* Of every message, in however many parts, each point is handed back at most once
\* and none of another message is; and all parts of an M1 message together have the
\* points of the rows that fill parts, if they are chosen and in range.
THEOREM PartsAreWhole == Spec => []PartsMakeWhole
<1>1. PreprocessInv => PartsMakeWhole
  BY NothingTwice, AllDelivered DEF PartsMakeWhole
<1> QED BY <1>1, PreprocessInvariance, PTL
===============================================================================
