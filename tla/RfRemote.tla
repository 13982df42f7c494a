------------------------------ MODULE RfRemote ------------------------------
(***************************************************************************)
(* How the RF adapter picks the button of a fan remote                     *)
(* (fanTx in internal/rf/driver.go).  The configured speeds are a Go map   *)
(* from level to button; lowestSpeed and nearestSpeed range over it in     *)
(* whatever order the runtime picks, so each loop is a state machine that  *)
(* takes any of the levels that are left.  A button follows its level.     *)
(***************************************************************************)
EXTENDS Integers

CONSTANT Top   \* highest level (100 percent in the code)

ASSUME TopAssumption == Top \in Nat \ {0}

Level == 1..Top   \* config.Load refuses speeds outside 1..100

VARIABLES
  speeds,   \* levels that have a button, at least one (config.Load)
  want,     \* the level asked for; 0 stands for a bare "on"
  todo,     \* levels that the range loop has not visited
  best,     \* nearestSpeed: distance of the best level so far, or -1
  level     \* the best level so far; 0 when there is none

remoteVars == <<speeds, want, todo, best, level>>

RemoteTypeOK ==
  /\ speeds \in SUBSET Level /\ speeds # {}
  /\ todo \in SUBSET speeds
  /\ want \in 0..Top
  /\ best \in -1..Top
  /\ level \in 0..Top

Distance(l) == IF l < want THEN want - l ELSE l - want

RemoteInit ==
  /\ speeds \in SUBSET Level /\ speeds # {}
  /\ want \in 0..Top
  /\ todo = speeds
  /\ best = -1
  /\ level = 0

\* One iteration of lowestSpeed.
LowestSpeed(l) ==
  /\ want = 0 /\ l \in todo
  /\ todo' = todo \ {l}
  /\ level' = IF level = 0 \/ l < level THEN l ELSE level
  /\ UNCHANGED <<speeds, want, best>>

\* Mutant of Better: ties go to the level that was visited last.
BetterLastTie(l) == best = -1 \/ Distance(l) <= best

\* nearestSpeed prefers a closer level, and the higher one of two as close.
Better(l) == best = -1 \/ Distance(l) < best \/ (Distance(l) = best /\ l > level)

\* One iteration of nearestSpeed.
NearestSpeed(l) ==
  /\ want > 0 /\ l \in todo
  /\ todo' = todo \ {l}
  /\ IF Better(l) THEN best' = Distance(l) /\ level' = l ELSE UNCHANGED <<best, level>>
  /\ UNCHANGED <<speeds, want>>

RemoteNext == \E l \in Level : LowestSpeed(l) \/ NearestSpeed(l)

RemoteSpec == RemoteInit /\ [][RemoteNext]_remoteVars

-----------------------------------------------------------------------------

\* A bare "on" presses the lowest configured speed; a level snaps to the nearest
\* one, and a tie goes up - in whatever order the map is ranged over, so that
\* repeated commands press the same button.
ButtonDetermined ==
  todo = {} =>
     /\ level \in speeds
     /\ want = 0 => \A l \in speeds : level <= l
     /\ want > 0 => \A l \in speeds :
            Distance(level) < Distance(l) \/ (Distance(level) = Distance(l) /\ level >= l)

\* The same of the levels visited so far, which makes it inductive.
PickedSoFar ==
  LET done == speeds \ todo
  IN  /\ done = {} => best = -1 /\ level = 0
      /\ done # {} => level \in done
      /\ want = 0 => \A l \in done : level <= l
      /\ (want > 0 /\ done # {}) =>
            /\ best = Distance(level)
            /\ \A l \in done : \/ best < Distance(l)
                               \/ best = Distance(l) /\ level >= l

=============================================================================
