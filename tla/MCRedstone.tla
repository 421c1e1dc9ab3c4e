----------------------------- MODULE MCRedstone -----------------------------
\* Redstone under names that are nowhere else, for TLC, and for the module of
\* proofs that is also about another component.
EXTENDS Integers

CONSTANTS LineLength, BoxRadius, NarrowBoxRadius, MaxPower, MaxDelay, MaxActs

VARIABLES line, flips, stale, acts

W == INSTANCE Redstone WITH
       Length <- LineLength, Radius <- BoxRadius, NarrowRadius <- NarrowBoxRadius,
       block <- line, pending <- flips

ASSUME RedstoneAssumption == W!ConstantsOK

RedstoneSpec == W!Spec

RedstoneTypeOK == W!TypeOK

\* Every wire carries what its neighbours leave it, and the lamps show it.
CurrentIsTrue == W!CurrentIsTrue

\* A repeater that does not show its input is on the schedule to do so.
RepeatersCatchUp == W!RepeatersCatchUp
=============================================================================
