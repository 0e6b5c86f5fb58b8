----------------------------- MODULE GoldLedger -----------------------------
(***************************************************************************)
(* What the gold ledger promises about one player's balance                *)
(* (models/game/gold_transaction.py): a row for every movement, never two  *)
(* for one reason and reference, and the balance each row left.  It does   *)
(* not promise that a row starts from the balance before it: whoever moves *)
(* gold may have read any balance that was ever current.                   *)
(***************************************************************************)
EXTENDS Integers, Sequences

CONSTANTS Reasons, Refs,
          Opening  \* the balance before the first row

VARIABLES gold, log

Entry == [reason : Reasons, ref : Refs, amount : Int, after : Nat]

Balances == {Opening} \cup {log[i].after : i \in DOMAIN log}
Free(reason, ref) == \A i \in DOMAIN log : ~(log[i].reason = reason /\ log[i].ref = ref)

LedgerInit == gold = Opening /\ log = <<>>

\* A row and the balance it leaves, from some balance that was once current;
\* a row that moves nothing leaves the balance that stands.
Post(e, base) ==
  /\ e \in Entry
  /\ Free(e.reason, e.ref)
  /\ e.after = IF base + e.amount > 0 THEN base + e.amount ELSE 0
  /\ log' = Append(log, e)
  /\ gold' = IF e.after = base THEN gold ELSE e.after

\* A step posts one row: the one its trail has and the trail before had not.
LedgerNext == \E i \in DOMAIN log', base \in Balances : Post(log'[i], base)

LedgerSpec == LedgerInit /\ [][LedgerNext]_<<gold, log>>

-----------------------------------------------------------------------------
\* No payment is ever recorded twice: one row per reason and reference.
PaidAtMostOnce ==
  \A i, j \in DOMAIN log : log[i].reason = log[j].reason /\ log[i].ref = log[j].ref => i = j

\* The balance is always one the trail names.
BalanceIsOnRecord == gold \in Balances
=============================================================================
