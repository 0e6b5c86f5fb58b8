------------------------------ MODULE MCWallet ------------------------------
(* Three requests of one player at a time, on a small catalog.              *)
EXTENDS Wallet, TLC

CONSTANTS q1, q2, q3, start, hit, ulti, hat, duelist, scholar, match1, battle1, battle2,
          lesson1, quest1, bronze

Row(class, parent, price, exp) == [class |-> class, parent |-> parent, price |-> price, exp |-> exp]

Catalog == start :> Row(None, None, 0, 0) @@ hit :> Row(duelist, start, 2, 0)
           @@ ulti :> Row(None, None, 0, 1)
Prices   == hat :> 2
Lessons  == battle1 :> lesson1 @@ battle2 :> lesson1
Gold     == match1 :> 0 @@ battle1 :> 2 @@ battle2 :> 2 @@ quest1 :> 1 @@ bronze :> 1
Points1  == quest1 :> 30
Chests   == bronze :> 30

All == [kind : {"match"}, ref : {match1}] \cup [kind : {"battle"}, ref : {battle1, battle2}]
       \cup [kind : {"buy", "skin"}, ref : {hat}] \cup [kind : {"unlock"}, ref : {hit, ulti}]
       \cup [kind : {"class"}, ref : {duelist, scholar}] \cup [kind : {"bar"}, ref : {hit}]
       \cup [kind : {"quest"}, ref : {quest1}] \cup [kind : {"chest"}, ref : {bronze}]

Anyone == Permutations({q1, q2, q3})

=============================================================================
