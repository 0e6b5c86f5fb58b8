------------------------------ MODULE Wardrobe ------------------------------
(***************************************************************************)
(* The items the catalog seeds (services/game/catalog.py), the two ways to *)
(* come by one (services/game/loot.py, repository/game/item_repository.py) *)
(* and what wearing it is worth.  Items that differ in name and picture    *)
(* alone are one here.  Wallet has the gold that buys, Settlement the once *)
(* per match of a chest, Growth what a bonus does to a reward.             *)
(***************************************************************************)
EXTENDS Naturals, FiniteSets, Functions

CONSTANTS Retirements,  \* sets of items that may be out of the catalog
          MaxItems,     \* bound: copies a player has
          None          \* no slot, nothing worn, nothing dropped

VARIABLES retired,
          owned,   \* user_items: item -> quantity
          worn,    \* user_equipment: slot -> item
          bought,  \* history: what came from the shop
          dropped  \* history: what came out of chests

vars == <<retired, owned, worn, bought, dropped>>

-----------------------------------------------------------------------------
Rarities == {"COMMON", "RARE", "EPIC", "LEGENDARY"}
Slots    == {"WEAPON", "ARMOR", "TRINKET"}

Gear(slot, rarity, exp, gold) ==
  [kind |-> "EQUIPMENT", slot |-> slot, rarity |-> rarity, exp |-> exp, gold |-> gold, price |-> 0]
Show(kind, rarity, price) ==
  [kind |-> kind, slot |-> None, rarity |-> rarity, exp |-> 0, gold |-> 0, price |-> price]

ITEMS ==
  {Gear("WEAPON",  "COMMON", 0, 20),  Gear("WEAPON",  "RARE", 0, 45),
   Gear("WEAPON",  "EPIC",   0, 70),
   Gear("ARMOR",   "COMMON", 20, 0),  Gear("ARMOR",   "RARE", 45, 0),
   Gear("ARMOR",   "LEGENDARY", 70, 30),
   Gear("TRINKET", "COMMON", 10, 10), Gear("TRINKET", "RARE", 15, 15),
   Gear("TRINKET", "EPIC",   25, 25), Gear("TRINKET", "LEGENDARY", 35, 35),
   Show("SKIN", "COMMON", 120), Show("SKIN", "RARE", 250),
   Show("SKIN", "EPIC",   450), Show("SKIN", "LEGENDARY", 800),
   Show("CARD", "COMMON", 0),   Show("CARD", "RARE", 0),
   Show("CARD", "EPIC",   0),   Show("CARD", "LEGENDARY", 0)}

\* What is out of the catalog was in it.
WardrobeAssumption == UNION Retirements \subseteq ITEMS

Active           == ITEMS \ retired
list_purchasable == {item \in Active : item.price > 0}
drop_pool        == {item \in Active : item.price = 0}

MAX_BONUS_EXP_PERMILLE  == 150
MAX_BONUS_GOLD_PERMILLE == 150

TypeOK ==
  /\ retired \subseteq ITEMS
  /\ DOMAIN owned \subseteq ITEMS /\ \A item \in DOMAIN owned : owned[item] \in Nat \ {0}
  /\ DOMAIN worn \subseteq Slots
  /\ bought \cup dropped = DOMAIN owned

Init == /\ retired \in Retirements
        /\ owned = [item \in {} |-> 0] /\ worn = [slot \in {} |-> None]
        /\ bought = {} /\ dropped = {}

-----------------------------------------------------------------------------
Copies == FoldFunction(+, 0, owned)

\* add_to_inventory: one copy more, in the row there is.
add_to_inventory(item) ==
  /\ Copies < MaxItems
  /\ owned' = [i \in DOMAIN owned \cup {item} |->
                 (IF i \in DOMAIN owned THEN owned[i] ELSE 0) + (IF i = item THEN 1 ELSE 0)]

\* roll_item: what may come out once a rarity is rolled; the whole pool when it
\* has none of that rarity.
Rolled(rarity) ==
  LET candidates == {item \in drop_pool : item.rarity = rarity}
  IN IF candidates = {} THEN drop_pool ELSE candidates

OpenChest(rarity) ==
  /\ IF drop_pool = {} THEN UNCHANGED <<owned, dropped>>
     ELSE \E item \in Rolled(rarity) : add_to_inventory(item) /\ dropped' = dropped \cup {item}
  /\ UNCHANGED <<retired, worn, bought>>

purchase_item(item) ==
  /\ item \in Active /\ item.price > 0
  /\ item \notin DOMAIN owned
  /\ add_to_inventory(item)
  /\ bought' = bought \cup {item}
  /\ UNCHANGED <<retired, worn, dropped>>

\* What is worn is what was asked for, every slot at once.
set_equipment(requested) ==
  /\ \A slot \in DOMAIN requested :
       /\ requested[slot] \in DOMAIN owned
       /\ requested[slot].kind = "EQUIPMENT"
       /\ requested[slot].slot = slot
  /\ worn' = requested
  /\ UNCHANGED <<retired, owned, bought, dropped>>

Next ==
  \/ \E rarity \in Rarities : OpenChest(rarity)
  \/ \E item \in ITEMS : purchase_item(item)
  \/ \E slots \in SUBSET Slots : \E requested \in [slots -> DOMAIN owned] : set_equipment(requested)

Spec == Init /\ [][Next]_vars

-----------------------------------------------------------------------------
\* A slot is worth its item's label.
Label(slot, field) == IF slot \in DOMAIN worn THEN worn[slot][field] ELSE 0
Labels(field) == Label("WEAPON", field) + Label("ARMOR", field) + Label("TRINKET", field)

\* total_bonus.
Capped(sum, ceiling) == IF sum > ceiling THEN ceiling ELSE sum
total_bonus == [exp  |-> Capped(Labels("exp"),  MAX_BONUS_EXP_PERMILLE),
                gold |-> Capped(Labels("gold"), MAX_BONUS_GOLD_PERMILLE)]

(* An item has one way in and no other: no chest hands over what is sold,   *)
(* the shelf shows all that is sold, nothing is sold twice, and nothing     *)
(* bought moves a number.                                                   *)
OneWayIn ==
  /\ bought \cap dropped = {} /\ bought \subseteq list_purchasable
  /\ \A item \in bought : /\ owned[item] = 1
                          /\ item.exp = 0 /\ item.gold = 0 /\ item \notin Range(worn)

(* Whatever is worn is owned, each piece in its own slot, and is worth what *)
(* its labels say: no set of it reaches the ceilings.                       *)
WornIsWorthItsLabels ==
  /\ \A slot \in DOMAIN worn : worn[slot] \in dropped /\ worn[slot].slot = slot
  /\ total_bonus = [exp |-> Labels("exp"), gold |-> Labels("gold")]
=============================================================================
