---------------------------- MODULE BlockIterators ----------------------------
(***************************************************************************)
(* decoder/block_iterator.hpp.  A packet of a mechanical lidar is a        *)
(* sequence of blocks, of which only the azimuth of the first channel is   *)
(* sent.  An iterator says, for each block, how far the head turns while   *)
(* the block is fired and when that is, counted from the packet's time:    *)
(* from the azimuths alone, and from how the lidar puts the returns of one *)
(* firing into blocks.  Azimuths are in units of the angle turned in one   *)
(* RS16 firing at 600 rpm, times in units of that firing.                  *)
(***************************************************************************)
EXTENDS Integers, Sequences

CONSTANTS
  Round,      \* a full turn, RS_ONE_ROUND
  BlindStep   \* a larger step is the blind zone of the FOV: 100 in the code

ASSUME IteratorAssumption == Round \in Nat /\ BlindStep \in 1..Round

IteratorNames ==
  {"Single", "Dual", "TwoInOne", "FourInOne", "ABDual", "Rs16Single", "Rs16Dual"}

\* From azimuth a on to azimuth b.
AzDiff(a, b) == IF b - a < 0 THEN b - a + Round ELSE b - a

\* The loop the iterators share: "stride" blocks belong to one firing, which takes
\* "dur" and turns the head by "daz"; across the blind zone it is "blind".
Strided(az, stride, dur, daz, blind) ==
  LET groups == Len(az) \div stride
      Step(g) == AzDiff(az[g * stride + 1], az[(g + 1) * stride + 1])
      Skips(g) == Step(g) > BlindStep
      ts[g \in 0..(groups - 1)] ==
        IF g = 0 THEN 0 ELSE ts[g - 1] + (IF Skips(g - 1) THEN blind ELSE dur)
      diff(g) == IF g = groups - 1 \/ Skips(g) THEN daz ELSE Step(g)
  IN [b \in 1..Len(az) |-> [az |-> diff((b - 1) \div stride), ts |-> ts[(b - 1) \div stride]]]

SingleReturn(az, dur, daz, blind) == Strided(az, 1, dur, daz, blind)

\* Two blocks are the two returns of a firing.
DualReturn(az, dur, daz, blind) == Strided(az, 2, dur, daz, blind)

\* Two blocks are the two halves of the channels.
TwoInOne(az, dur, daz, blind) == Strided(az, 2, dur, daz, blind)

\* Mutation: the returns of the two halves are taken for firings of their own.
FourInOneAsTwo(az, dur, daz, blind) == Strided(az, 2, dur, daz, blind)

\* Four blocks are the two returns of the two halves.
FourInOne(az, dur, daz, blind) == Strided(az, 4, dur, daz, blind)

\* Three blocks, of which the first two or the last two are returns of one firing.
ABDualReturn(az, dur, daz, blind) ==
  LET step == AzDiff(az[1], az[3])
      skips == step > BlindStep
      first  == [az |-> IF skips THEN daz ELSE step, ts |-> 0]
      second == [az |-> daz, ts |-> IF skips THEN blind ELSE dur]
  IN IF az[1] = az[2] THEN <<first, first, second>> ELSE <<first, second, second>>

\* One block is two firings of sixteen channels.
Rs16SingleReturn(az, dur, daz, blind) == Strided(az, 1, 2 * dur, 2 * daz, blind)

\* One block is two returns of one firing of sixteen channels.
Rs16DualReturn(az, dur, daz, blind) == Strided(az, 1, dur, daz, blind)

\* The offsets of all blocks of a packet, as T_BlockIterator's constructor computes
\* them for get().
Iterate(name, az, dur, daz, blind) ==
  CASE name = "Single"     -> SingleReturn(az, dur, daz, blind)
    [] name = "Dual"       -> DualReturn(az, dur, daz, blind)
    [] name = "TwoInOne"   -> TwoInOne(az, dur, daz, blind)
    [] name = "FourInOne"  -> FourInOne(az, dur, daz, blind)
    [] name = "ABDual"     -> ABDualReturn(az, dur, daz, blind)
    [] name = "Rs16Single" -> Rs16SingleReturn(az, dur, daz, blind)
    [] name = "Rs16Dual"   -> Rs16DualReturn(az, dur, daz, blind)
=============================================================================
