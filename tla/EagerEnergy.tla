---------------------------- MODULE EagerEnergy ----------------------------
(***************************************************************************)
(* What the energy bar promises: a point comes back after every full       *)
(* interval spent below the maximum, wherever readings and writings fall.  *)
(* `waited` is the time spent towards the next point; a stamp from a clock *)
(* that runs ahead makes it negative.                                      *)
(***************************************************************************)
EXTENDS Integers

CONSTANTS Full,      \* the bar's maximum
          Interval,  \* time per point
          Cost,      \* of a match
          Grants     \* the amounts a refill may give

VARIABLES energy, waited

Capped(n) == IF n < Full THEN n ELSE Full

Tick ==
  LET next == waited + 1 IN
  IF energy = Full THEN UNCHANGED <<energy, waited>>
  ELSE IF next < Interval THEN energy' = energy /\ waited' = next
  ELSE energy' = energy + 1 /\ waited' = 0

\* Leaving a full bar starts the wait from nothing.
Spend ==
  /\ energy >= Cost
  /\ energy' = energy - Cost
  /\ waited' = IF energy = Full THEN 0 ELSE waited

Refill(n) ==
  /\ energy' = Capped(energy + n)
  /\ waited' = IF energy' = Full THEN 0 ELSE waited

Init == energy \in 0..Full /\ waited \in Int /\ waited < Interval /\ (energy = Full => waited = 0)
Next == Tick \/ Spend \/ \E n \in Grants : Refill(n)
Spec == Init /\ [][Next]_<<energy, waited>>
=============================================================================
