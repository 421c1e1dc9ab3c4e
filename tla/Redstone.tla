------------------------------ MODULE Redstone ------------------------------
(***************************************************************************)
(* Redstone: wires, the blocks that feed them, the blocks they switch, and *)
(* the flips of repeaters that the server carries out some ticks later     *)
(* (src/include/mpmpes/block/Redstone.hpp and the schedules of             *)
(* src/src/server/Server.cpp).                                             *)
(*                                                                         *)
(* The cells are a line: what reaches a cell from above, below and the two *)
(* other sides reaches it from its two neighbours here.  A lever that is   *)
(* on also stands for a redstone block and a lit torch, a lamp for         *)
(* whatever a current switches.  Detector rails, which a cart switches on  *)
(* and nothing switches off again, and what a comparator makes of the fill *)
(* of a chest behind it are left out.                                      *)
(***************************************************************************)
EXTENDS Integers, Sequences

CONSTANTS
  Length,        \* of the line
  Radius,        \* of the box that is computed anew around a change: 16
  NarrowRadius,  \* the same after a repeater was set: 12
  MaxPower,      \* 15
  MaxDelay,      \* of a repeater, 4; a level of it lasts a tick here, not two
  MaxActs        \* bound on the changes that are not the tick's

ConstantsOK ==
  /\ {Length, Radius, NarrowRadius, MaxPower, MaxDelay, MaxActs}
       \subseteq Nat \ {0}
  /\ NarrowRadius <= Radius

VARIABLES
  block,    \* the world
  pending,  \* redstone_schedules_
  stale,    \* history: something was changed and not followed up
  acts      \* history: how many changes there were

vars == <<block, pending, stale, acts>>

Cells == 1 .. Length
Sides == {-1, 1}
Kinds == {"air", "wire", "lever", "lamp", "repeater", "comparator"}

\* The id and the meta of a block.  side is where a repeater or a comparator
\* takes its input from; its output is on the other side.
Blocks == [kind : Kinds, on : BOOLEAN, power : 0 .. MaxPower,
           side : Sides, delay : 1 .. MaxDelay]

Air == [kind |-> "air", on |-> FALSE, power |-> 0, side |-> 1, delay |-> 1]

Flips == [cell : Cells, on : BOOLEAN, side : Sides, delay : 1 .. MaxDelay,
          left : 1 .. MaxDelay]

TypeOK ==
  /\ block \in [Cells -> Blocks]
  /\ pending \in Seq(Flips)
  /\ stale \in BOOLEAN
  /\ acts \in 0 .. MaxActs

Init ==
  /\ block = [c \in Cells |-> Air]
  /\ pending = <<>>
  /\ stale = FALSE
  /\ acts = 0
-----------------------------------------------------------------------------
At(b, c) == IF c \in Cells THEN b[c] ELSE Air

Largest(S) == CHOOSE m \in S \cup {0} : \A n \in S \cup {0} : n <= m

\* comparatorInputStrength(): a wire gives what it carries, anything else that
\* is on gives all, a repeater in whatever direction it points.  What a chest
\* gives by its fill is left out.
ComparatorInput(b, c) ==
  LET i == At(b, c + b[c].side)
  IN CASE i.kind = "wire" -> i.power
       [] i.kind \in {"lever", "repeater"} /\ i.on -> MaxPower
       [] OTHER -> 0

\* sourcePowerAt(); a comparator that is on gives 1 at least.
SourcePower(b, c) ==
  LET i == At(b, c)
  IN CASE i.kind \in {"lever", "repeater"} /\ i.on -> MaxPower
       [] i.kind = "comparator" /\ i.on -> Largest({1, ComparatorInput(b, c)})
       [] OTHER -> 0

\* adjacentSourcePower(): repeaters and comparators feed their output only.
AdjacentPower(b, w) ==
  Largest({SourcePower(b, n) : n \in
    {n \in {w - 1, w + 1} : At(b, n).kind \in {"repeater", "comparator"}
                              => n - b[n].side = w}})

Box(o, r) == {c \in Cells : o - r <= c /\ c <= o + r}

\* Variant: nothing is lost on the way.
StrengthUndamped(b, o, r) ==
  LET after[k \in 0 .. MaxPower] ==
        IF k = 0
        THEN [w \in Cells |-> IF b[w].kind = "wire" /\ w \in Box(o, r)
                              THEN AdjacentPower(b, w) ELSE 0]
        ELSE LET s == after[k - 1]
             IN [w \in Cells |->
                   IF b[w].kind = "wire"
                   THEN Largest({s[w]} \cup {s[n] : n \in {w - 1, w + 1} \cap Cells})
                   ELSE 0]
  IN after[MaxPower]

\* The search from all fed wires of the box at once: it runs along wires,
\* outside the box as well, and loses one on each.
Strength(b, o, r) ==
  LET after[k \in 0 .. MaxPower] ==
        IF k = 0
        THEN [w \in Cells |-> IF b[w].kind = "wire" /\ w \in Box(o, r)
                              THEN AdjacentPower(b, w) ELSE 0]
        ELSE LET s == after[k - 1]
             IN [w \in Cells |->
                   IF b[w].kind = "wire"
                   THEN Largest({s[w]} \cup {s[n] - 1 : n \in {w - 1, w + 1} \cap Cells})
                   ELSE 0]
  IN after[MaxPower]

\* poweredAt(): a source here, or a wire here or beside.
PoweredAt(b, c) ==
  \/ SourcePower(b, c) > 0
  \/ \E n \in {c - 1, c, c + 1} : At(b, n).kind = "wire" /\ At(b, n).power > 0

LampPowered(b, c) == \E n \in {c - 1, c, c + 1} : PoweredAt(b, n)

RepeaterPowered(b, c) == PoweredAt(b, c + b[c].side)

\* What a cell of the box becomes when the scan comes to it.  Repeaters are
\* left to the schedule.
Scanned(b, c) ==
  CASE b[c].kind = "lamp" -> [b[c] EXCEPT !.on = LampPowered(b, c)]
    [] b[c].kind = "comparator" -> [b[c] EXCEPT !.on = ComparatorInput(b, c) > 0]
    [] OTHER -> b[c]

\* recomputeRedstone(): first the wires of the box, then the rest of it, cell by
\* cell, each seeing what the ones before it became.  Scan(b, o, r)[c] is the
\* world when c has been visited.
Scan(b, o, r) ==
  LET strength == Strength(b, o, r)
      wired == [c \in Cells |-> IF b[c].kind = "wire" /\ c \in Box(o, r)
                                THEN [b[c] EXCEPT !.power = strength[c]]
                                ELSE b[c]]
      scan[c \in 0 .. Length] ==
        IF c = 0 THEN wired
        ELSE LET before == scan[c - 1]
             IN IF c \in Box(o, r)
                THEN [before EXCEPT ![c] = Scanned(before, c)]
                ELSE before
  IN scan

\* A flip is asked for where a repeater does not show its input.
Asks(b, before, c) == b[c].kind = "repeater" /\ RepeaterPowered(before, c) # b[c].on

FlipOf(b, c) == [cell |-> c, on |-> ~b[c].on, side |-> b[c].side,
                 delay |-> b[c].delay, left |-> b[c].delay]

\* Variant: one entry for each cell.
EnqueueOnePerCell(pd, f) ==
  IF \E i \in DOMAIN pd : pd[i].cell = f.cell THEN pd ELSE Append(pd, f)

\* enqueueRedstoneSchedule(): one entry for each cell and target state.
Enqueue(pd, f) ==
  LET same == {i \in DOMAIN pd : pd[i].cell = f.cell /\ pd[i].on = f.on}
  IN IF same = {} THEN Append(pd, f) ELSE [i \in DOMAIN pd |-> IF i \in same THEN f ELSE pd[i]]

\* The schedule with the flips of a box, in the order of the scan.
Enqueued(b, scan, box, pd) ==
  LET after[c \in 0 .. Length] ==
        IF c = 0 THEN pd
        ELSE IF c \in box /\ Asks(b, scan[c - 1], c)
             THEN Enqueue(after[c - 1], FlipOf(b, c))
             ELSE after[c - 1]
  IN after[Length]

\* recomputeAndBroadcastRedstone(): the world and the schedule.  It falls short
\* of the line where the box does, and a comparator feeds a wire by what its
\* input was before.
Recomputed(b, pd, o, r) ==
  LET scan == Scan(b, o, r)
      after == scan[Length]
  IN [block |-> after,
      pending |-> Enqueued(b, scan, Box(o, r), pd),
      stale |-> \/ Cells \ Box(o, r) # {}
                \/ \E c \in Cells :
                     /\ b[c].kind = "comparator"
                     /\ \/ after[c] # b[c]
                        \/ ComparatorInput(after, c) # ComparatorInput(b, c)]

Become(s) ==
  /\ block' = s.block
  /\ pending' = s.pending
  /\ stale' = s.stale
-----------------------------------------------------------------------------
\* What placeBlock() puts down: it is off, and faces as the player does.
NewBlocks(k) ==
  {[Air EXCEPT !.kind = k, !.side = s] :
     s \in IF k \in {"repeater", "comparator"} THEN Sides ELSE {1}}

Place(c, k) ==
  /\ block[c].kind = "air" /\ k # "air"
  /\ \E n \in NewBlocks(k) :
       Become(Recomputed([block EXCEPT ![c] = n], pending, c, Radius))

\* breakBlock(): what is scheduled for the cell stays scheduled.
Break(c) ==
  /\ block[c].kind # "air"
  /\ Become(Recomputed([block EXCEPT ![c] = Air], pending, c, Radius))

\* handleUseItem() on a lever.
Switch(c) ==
  /\ block[c].kind = "lever"
  /\ Become(Recomputed([block EXCEPT ![c].on = ~@], pending, c, Radius))

\* Variant: the delay does not start again from one.
TurnOn(c) ==
  /\ block[c].kind = "repeater"
  /\ Become(Recomputed([block EXCEPT ![c].delay = @ + 1], pending, c, NarrowRadius))

\* handleUseItem() on a repeater: the next delay.
Turn(c) ==
  /\ block[c].kind = "repeater"
  /\ Become(Recomputed([block EXCEPT ![c].delay = (@ % MaxDelay) + 1],
                       pending, c, NarrowRadius))

\* handleUseItem() on a comparator: its mode, which nothing reads, and a
\* recompute.
Toggle(c) ==
  /\ block[c].kind = "comparator"
  /\ Become(Recomputed(block, pending, c, NarrowRadius))

\* A flip that is due is carried out if a repeater is still, or again, in the
\* cell, with the direction and the delay of the one it was scheduled for.
Flip(s, f) ==
  IF s.block[f.cell].kind = "repeater" /\ s.block[f.cell].on # f.on
  THEN Recomputed([s.block EXCEPT ![f.cell].on = f.on, ![f.cell].side = f.side,
                                  ![f.cell].delay = f.delay],
                  s.pending, f.cell, Radius)
  ELSE s

\* What is due of a schedule, carried out in order.
Flipped(s, fs) ==
  LET after[i \in 0 .. Len(fs)] ==
        IF i = 0 THEN s
        ELSE IF fs[i].left <= 0 THEN Flip(after[i - 1], fs[i]) ELSE after[i - 1]
  IN after[Len(fs)]

\* The rest of it.
Waiting(fs) ==
  LET kept[i \in 0 .. Len(fs)] ==
        IF i = 0 THEN <<>>
        ELSE IF fs[i].left > 0 THEN Append(kept[i - 1], fs[i]) ELSE kept[i - 1]
  IN kept[Len(fs)]

\* tickRedstoneSchedules(): what the flips that are due schedule waits its full
\* delay.
Tick ==
  LET elapsed == [i \in DOMAIN pending |-> [pending[i] EXCEPT !.left = @ - 1]]
  IN /\ pending # <<>>
     /\ Become(Flipped([block |-> block, pending |-> Waiting(elapsed), stale |-> stale],
                       elapsed))

\* An explosion, and setBlock() of a plugin: no recompute.
Explode(c) ==
  /\ block[c].kind # "air"
  /\ block' = [block EXCEPT ![c] = Air]
  /\ stale' = TRUE
  /\ UNCHANGED pending

\* The schedule is in no file.
Restart ==
  /\ pending # <<>>
  /\ pending' = <<>>
  /\ stale' = TRUE
  /\ UNCHANGED block

Act ==
  \/ \E c \in Cells :
       \/ \E k \in Kinds : Place(c, k)
       \/ Break(c) \/ Switch(c) \/ Turn(c) \/ Toggle(c) \/ Explode(c)
  \/ Restart

Next ==
  \/ acts < MaxActs /\ Act /\ acts' = acts + 1
  \/ Tick /\ UNCHANGED acts

Spec == Init /\ [][Next]_vars
-----------------------------------------------------------------------------
\* Whatever was built, switched and broken, and while repeaters are still to
\* flip: every wire carries what its neighbours leave it, no more (a wire that
\* went on feeding itself) and no less, and the lamps show it, if the last box
\* that was recomputed covers the line and no comparator has changed since.
CurrentIsTrue ==
  ~stale =>
    \A c \in Cells :
      /\ block[c].kind = "wire" =>
           block[c].power =
             Largest({AdjacentPower(block, c)} \cup
                     {At(block, n).power - 1 : n \in
                        {n \in {c - 1, c + 1} : At(block, n).kind = "wire"}})
      /\ block[c].kind = "lamp" => (block[c].on <=> LampPowered(block, c))

\* A repeater that does not show its input is on the schedule to do so:
\* no order of changes and due flips leaves one behind for ever.
RepeatersCatchUp ==
  ~stale =>
    \A c \in Cells :
      block[c].kind = "repeater" /\ RepeaterPowered(block, c) # block[c].on
        => \E i \in DOMAIN pending :
             pending[i].cell = c /\ pending[i].on = ~block[c].on

\* "Preserve current delay bits if meta stale" (Server.cpp:136): a flip leaves
\* a repeater's direction and delay as they are.
\* No run checks it, for it does not hold (README, section 4).
DelayIsPreserved ==
  [][Tick => \A c \in Cells :
       block[c].kind = "repeater" =>
         block'[c].delay = block[c].delay /\ block'[c].side = block[c].side]_vars
=============================================================================
