----------------------------- MODULE MCDuoFight -----------------------------
(* Small fights: short decks, short combos, a clock of a few units.         *)
EXTENDS DuoFight, TLC

CONSTANTS p1, p2, keep, more, peek

Keep(rounds) == [effect |-> "COMBO_KEEP", cost |-> 30, magnitude |-> 1, rounds |-> rounds]
Bonus        == [effect |-> "TIME_BONUS", cost |-> 20, magnitude |-> 2, rounds |-> 1]
Reveal       == [effect |-> "REMOVE_OPTIONS", cost |-> 30, magnitude |-> 1, rounds |-> 0]

AllThree       == keep :> Keep(2) @@ more :> Bonus @@ peek :> Reveal
AllEquipped    == p1 :> {keep} @@ p2 :> {more, peek}
=============================================================================
