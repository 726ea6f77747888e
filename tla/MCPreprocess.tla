----------------------------- MODULE MCPreprocess -----------------------------
(***************************************************************************)
(* Messages for TLC.  Velodyne: two rings and one that is not counted,     *)
(* seven firings, so up to a turn and a half, from every angle, with every *)
(* choice of returns in the first ring; with and without times.  M1: up to *)
(* five rows of two channels.  The others: six or seven points.            *)
(***************************************************************************)
EXTENDS Preprocess

Blank == [ring |-> 0, range |-> "ok", time |-> 0, yaw |-> 0, at |-> 0,
          tag |-> TRUE, pos |-> <<1, 1>>]

\* -Turn/2 < yaw <= Turn/2, as atan2 gives it.
Wrapped(y) == ((y + Turn \div 2 - 1) % Turn) - Turn \div 2 + 1

\* Returns are numbered firing by firing, three rings to a firing.
Firing(from, returns, timed, range) ==
  LET s == SelectSeq([k \in 1..21 |-> k - 1], LAMBDA x : x \in returns)
  IN [width |-> Len(s),
      points |-> [k \in 1..Len(s) |->
        LET at == s[k] \div 3
        IN [Blank EXCEPT !.ring = s[k] % 3, !.at = at, !.yaw = Wrapped(from - at),
                         !.time = IF timed THEN at ELSE 0,
                         !.range = IF s[k] = range[1] THEN range[2] ELSE "ok"]]]

Second == {{}, {4, 7, 16}, {1, 4, 11}}

VeloMessages ==
  {Firing(y, {3 * k : k \in s} \cup o, t, <<6, r>>) :
     y \in -1..2, s \in SUBSET (0..6), o \in Second, t \in BOOLEAN, r \in {"ok", "close"}}

Grid(rows, skew, bad, range) ==
  [width |-> IF rows = 0 THEN 0 ELSE 2,
   points |-> [k \in 1..(2 * rows) |->
     [Blank EXCEPT !.ring = (k - 1) % 2, !.range = IF k \in bad THEN range ELSE "ok",
                   !.time = 10 * ((k - 1) \div 2) + skew * ((k - 1) % 2)]]]

M1Messages ==
  {Grid(n, s, b, r) : n \in 0..5, s \in {0, 1},
     b \in {{}, {1}, {3}, {6}, {1, 3, 5, 7, 9}}, r \in {"close", "far"}}

OustMessages ==
  {[width |-> 1, points |-> [k \in 1..Len(s) |->
      [Blank EXCEPT !.ring = s[k][1], !.range = s[k][2], !.time = k]]] :
     s \in UNION {[1..n -> {0, 1, 3} \X {"close", "above", "ok", "far"}] : n \in 0..2}}

AviaMessages ==
  {[width |-> 1, points |-> [k \in 1..7 |->
      [Blank EXCEPT !.ring = IF k \in b THEN 3 ELSE 0, !.tag = k \notin g, !.time = k,
                    !.pos = IF k \in s THEN q ELSE <<1, k % 2>>,
                    !.range = IF k \in s /\ q[1] = 0 THEN "close" ELSE r]]] :
     b \in {{}, {3}}, g \in {{}, {4}}, s \in SUBSET {2, 3, 5, 6},
     q \in {<<0, 0>>, <<0, 1>>, <<1, 0>>}, r \in {"ok", "above"}}

MCMessages ==
  [l \in LidarTypes |->
     CASE l = "VELO16" -> VeloMessages
       [] l = "OUST64" -> OustMessages
       [] l = "AVIA"   -> AviaMessages
       [] OTHER        -> M1Messages]

\* Only the empty ones.
MCLater == [l \in LidarTypes |-> {m \in MCMessages[l] : Size(m) = 0}]
===============================================================================
