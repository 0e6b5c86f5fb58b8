--------------------------- MODULE MCLessonFight ---------------------------
(* A boss of two blows against a player of two, with two skills equipped.   *)
EXTENDS LessonFight, TLC

CONSTANTS keep, extend

Boss == [tier |-> 1, boss |-> TRUE, hp |-> 40, attack |-> 6, reduction |-> 100,
         enrageAfter |-> 3, enrage |-> 1500]

Catalog == keep   :> [effect |-> "COMBO_KEEP", cost |-> 20, magnitude |-> 0, rounds |-> 2]
           @@ extend :> [effect |-> "TIME_BONUS", cost |-> 15, magnitude |-> 1, rounds |-> 1]
=============================================================================
