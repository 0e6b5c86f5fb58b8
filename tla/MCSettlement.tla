---------------------------- MODULE MCSettlement ----------------------------
(* Two matches that share a player, settled by three calls.                 *)
EXTENDS Settlement, TLC

CONSTANTS ua, ub, uc, m1, m2, c1, c2, c3

SharedSeats == m1 :> <<ua, ub>> @@ m2 :> <<ub, uc>>
TwiceOnOne  == c1 :> m1 @@ c2 :> m2 @@ c3 :> m1
OneMonth    == [d \in 0..1 |-> 1]
Retries     == Permutations({c1, c3})
=============================================================================
