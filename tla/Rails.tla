------------------------------- MODULE Rails -------------------------------
(***************************************************************************)
(* How rails find each other: the shape a rail takes when it is laid, the  *)
(* neighbours that turn towards it, and those that are left behind when    *)
(* one is broken (src/include/mpmpes/block/Rails.hpp).                     *)
(*                                                                         *)
(* A cell is a column of the world with solid ground up to its height and  *)
(* room for a rail on it, so whether a neighbour is level, one up or one   *)
(* down is a matter of the ground.  Whether a special rail is powered has  *)
(* no part in this and is left out.                                        *)
(***************************************************************************)
EXTENDS Integers, FiniteSets

CONSTANTS
  Cells,        \* the columns, as pairs of coordinates
  Grounds       \* the heights the ground may have, each a function of the cell

ConstantsOK ==
  /\ Cells \subseteq Int \X Int
  /\ Grounds \subseteq [Cells -> Nat]

VARIABLES
  ground,       \* the height of the ground
  rail,         \* the blocks: the rails that are there
  shown,        \* the rails as the players of the level were told of them
  \* History.
  broken        \* a rail has been broken, and may have left others turned wrong

vars == <<ground, rail, shown, broken>>

\* BLOCK_RAIL, and the powered, detector and activator rails, which cannot curve.
Kinds == {"normal", "special"}
NoRail == [kind |-> "none", meta |-> 0]
RailBlocks == [kind : {"normal"}, meta : 0 .. 9] \cup [kind : {"special"}, meta : 0 .. 5]

Init ==
  /\ ground \in Grounds
  /\ rail = [c \in Cells |-> NoRail]
  /\ shown = rail
  /\ broken = FALSE
-----------------------------------------------------------------------------
East == <<1, 0>>
South == <<0, 1>>
West == <<-1, 0>>
North == <<0, -1>>

\* The four directions, in the order in which they are looked at.
InOrder == <<East, South, West, North>>
Directions == {InOrder[i] : i \in 1 .. 4}

First(ds) ==
  InOrder[CHOOSE i \in 1 .. 4 :
            InOrder[i] \in ds /\ \A j \in 1 .. (i - 1) : InOrder[j] \notin ds]

FirstTwo(ds) == {d \in ds : d = First(ds) \/ d = First(ds \ {First(ds)})}

Step(c, d) == <<c[1] + d[1], c[2] + d[2]>>
Back(d) == <<-d[1], -d[2]>>

\* railConnTable(): the two ends of a rail.
Ends(r) ==
  CASE r.meta \in {0, 4, 5} -> {South, North}
    [] r.meta \in {1, 2, 3} -> {East, West}
    [] r.meta = 6 -> {East, South}
    [] r.meta = 7 -> {South, West}
    [] r.meta = 8 -> {West, North}
    [] r.meta = 9 -> {North, East}

\* The rail in direction d: level with c, one up or one down.
RailAt(rs, c, d) ==
  LET n == Step(c, d)
  IN /\ n \in Cells /\ rs[n] # NoRail
     /\ ground[n] - ground[c] \in {0, 1, -1}

PointsTo(rs, c, d) == d \in Ends(rs[c])

\* One end of c and one of its neighbour meet.
Linked(rs, c, d) ==
  /\ rs[c] # NoRail /\ PointsTo(rs, c, d)
  /\ RailAt(rs, c, d) /\ PointsTo(rs, Step(c, d), Back(d))

\* railConnectedCount().
Connected(rs, c) == Cardinality({d \in Directions : Linked(rs, c, d)})

\* Variant: a neighbour that faces this way but has no end free is passed over.
PartnersFree(rs, c) ==
  FirstTwo({d \in Directions : RailAt(rs, c, d) /\ Connected(rs, Step(c, d)) < 2})

\* The neighbours recomputeRailMeta() goes by: those with a free end and those
\* that face this way, the first two of them.  railCanAccept() has no say: who
\* is refused by it is taken for its free end.
Partners(rs, c) ==
  FirstTwo({d \in Directions :
              /\ RailAt(rs, c, d)
              /\ \/ Connected(rs, Step(c, d)) < 2
                 \/ PointsTo(rs, Step(c, d), Back(d))})

Rise(c, d) == ground[Step(c, d)] - ground[c]

Slope(d) ==
  CASE d = East -> 2 [] d = West -> 3 [] d = North -> 4 [] d = South -> 5

Straight(d) == IF d[1] = 0 THEN 0 ELSE 1

Curve(ds) ==
  CASE ds = {East, South} -> 6 [] ds = {South, West} -> 7
    [] ds = {West, North} -> 8 [] ds = {North, East} -> 9

\* Variant: any rail may curve.
ShapeCurved(c, ds, curves) ==
  LET up == {d \in ds : Rise(c, d) = 1}
  IN CASE ds = {} -> 0
       [] {0, 1} \subseteq {Straight(d) : d \in ds} /\ \A d \in ds : Rise(c, d) = 0
            -> Curve(ds)
       [] OTHER -> IF up # {} THEN Slope(First(up)) ELSE Straight(First(ds))

\* metaFromConnections().
Shape(c, ds, curves) ==
  LET up == {d \in ds : Rise(c, d) = 1}
  IN CASE ds = {} -> 0
       [] /\ curves /\ {0, 1} \subseteq {Straight(d) : d \in ds}
          /\ \A d \in ds : Rise(c, d) = 0 -> Curve(ds)
       [] OTHER -> IF up # {} THEN Slope(First(up)) ELSE Straight(First(ds))

Meta(rs, c) == Shape(c, Partners(rs, c), rs[c].kind = "normal")

\* Variant: an entry that is on the list is left as it is.
RecomputeToldOnce(u, c) ==
  IF u.rail[c] = NoRail THEN u
  ELSE LET r == [u.rail[c] EXCEPT !.meta = Meta(u.rail, c)]
       IN [rail |-> [u.rail EXCEPT ![c] = r],
           told |-> [n \in DOMAIN u.told \cup {c} |->
                       IF n \in DOMAIN u.told THEN u.told[n] ELSE r]]

\* recomputeRailMeta() of c, and what the caller adds to the list of updates.
\* A cell that is on the list already has its entry overwritten.
Recompute(u, c) ==
  IF u.rail[c] = NoRail THEN u
  ELSE LET r == [u.rail[c] EXCEPT !.meta = Meta(u.rail, c)]
       IN [rail |-> [u.rail EXCEPT ![c] = r],
           told |-> [n \in DOMAIN u.told \cup {c} |-> IF n = c THEN r ELSE u.told[n]]]

Untold(rs) == [rail |-> rs, told |-> [n \in {} |-> NoRail]]

\* The neighbours of c in the directions ds, one after the other.
Around(u, c, ds) ==
  LET turn(v, d) == IF d \in ds THEN Recompute(v, Step(c, d)) ELSE v
  IN turn(turn(turn(turn(u, East), South), West), North)

\* placeRailAuto(): the new rail, then the neighbours that had a free end when
\* it was put down, these once more, and the new rail.
Laid(c, k) ==
  LET put == [rail EXCEPT ![c] = [kind |-> k, meta |-> 0]]
      open == {d \in Directions : RailAt(put, c, d) /\ Connected(put, Step(c, d)) < 2}
  IN Recompute(Around(Around(Recompute(Untold(put), c), c, open), c, open), c)

\* updateRailsAround(), after the rail at c is gone.
Left(c) ==
  LET gone == [rail EXCEPT ![c] = NoRail]
  IN Around(Untold(gone), c, {d \in Directions : RailAt(gone, c, d)})

\* What the players see after they were told of some rails.
Seen(before, told) ==
  [c \in Cells |-> IF c \in DOMAIN told THEN told[c] ELSE before[c]]

Place(c, k) ==
  /\ rail[c] = NoRail
  /\ rail' = Laid(c, k).rail
  /\ shown' = Seen(shown, Laid(c, k).told)
  /\ UNCHANGED <<ground, broken>>

Break(c) ==
  /\ rail[c] # NoRail
  /\ rail' = Left(c).rail
  /\ shown' = Seen([shown EXCEPT ![c] = NoRail], Left(c).told)
  /\ broken' = TRUE
  /\ UNCHANGED ground

Next == \E c \in Cells : Break(c) \/ \E k \in Kinds : Place(c, k)

Spec == Init /\ [][Next]_vars
-----------------------------------------------------------------------------
TypeOK ==
  /\ ground \in Grounds
  /\ rail \in [Cells -> RailBlocks \cup {NoRail}]
  /\ broken \in BOOLEAN

Links(rs) == {l \in Cells \X Directions : Linked(rs, l[1], l[2])}

Near(rs, c) == {d \in Directions : RailAt(rs, c, d)}

\* On level ground and with rails that can curve, the rules of laying are
\* expected to work.
Plain(rs) ==
  /\ \A c, n \in Cells : ground[c] = ground[n]
  /\ \A c \in Cells : rs[c].kind # "special"

\* Laying and breaking rails turns others: the players have been told of every
\* one that was turned (the updates of placeRailAuto() and updateRailsAround()).
ShownAsLaid == shown = rail

\* A rail that is laid takes no link from those that lie, placeRailAuto()
\* turns only those with an end free, and while it has an end free itself it
\* meets every neighbour that has one.
Laying(c) ==
  /\ Links(rail) \subseteq Links(rail')
  /\ \/ Connected(rail', c) = 2
     \/ \A d \in Directions :
          RailAt(rail', c, d) /\ Connected(rail, Step(c, d)) < 2 => Linked(rail', c, d)

\* A rail that is broken parts nothing but its own links, as long as none lies
\* next to more than two: at a crossing updateRailsAround() goes by the order of
\* the directions, and a rail may give up the link it has left for another.
Breaking(c) ==
  (\A n \in Cells : Cardinality(Near(rail, n)) <= 2)
    => {l \in Links(rail) : l[1] # c /\ Step(l[1], l[2]) # c} \subseteq Links(rail')

\* No track comes apart because of what is done beside it.
LinksAreKept ==
  [][\A c \in Cells :
       /\ (rail[c] = NoRail /\ rail'[c] # NoRail /\ Plain(rail') /\ ~broken => Laying(c))
       /\ (rail[c] # NoRail /\ rail'[c] = NoRail => Breaking(c))]_vars

\* railCanAccept(): "special rails: refuse pure 90 degree turn off existing
\* straight axis when already connected once".
\* No run checks it, for it does not hold (README, section 4).
SpecialKeepsAxis ==
  [][\A n \in Cells :
       rail[n].kind = "special" /\ Connected(rail, n) = 1
       /\ (\E c \in Cells : rail[c] = NoRail /\ rail'[c] # NoRail)
         => {Straight(d) : d \in Ends(rail'[n])} = {Straight(d) : d \in Ends(rail[n])}]_vars
=============================================================================
