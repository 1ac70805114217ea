------------------------------ MODULE WallClock -------------------------------
(***************************************************************************)
(* The wall clock that the off-chain services read (Date.now, NOW()), in   *)
(* ticks.  Nothing happens between two readings of one step.               *)
(***************************************************************************)
EXTENDS Integers

CONSTANTS
  None,      \* no value
  MaxClock   \* bound on the clock

ASSUME ClockAssumption == None \notin Int /\ MaxClock \in Nat

VARIABLE clock

ClockInit == clock = 1

tick == clock < MaxClock /\ clock' = clock + 1

===============================================================================
