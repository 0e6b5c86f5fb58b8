------------------------------- MODULE Wallet -------------------------------
(***************************************************************************)
(* One player's game account under concurrent requests: every transaction  *)
(* that moves gold or hands out what gold buys (services/game:             *)
(* game_service.py, settlement.py, daily_quest_service.py, starters.py).   *)
(*                                                                         *)
(* A session reads, checks, stages rows and commits them together; what it *)
(* writes to the balance is computed from the profile it read first.  A    *)
(* session may vanish between any two steps (an exception, a dropped       *)
(* request, the process): nothing staged survives.  Rows inserted under a  *)
(* unique constraint, or locked, make a second session wait for the first. *)
(*                                                                         *)
(* An UPDATE names only the columns the session changed.                   *)
(***************************************************************************)
EXTENDS Integers, Sequences, FiniteSets, SequencesExt

CONSTANTS Sessions,
          Requests,        \* records [kind, ref]
          Opening,         \* the balance everything starts from
          Skills, SkillOf, \* the catalog: class, parent, price and exp of each skill
          Starter,         \* the skill with unlock kind STARTER
          Items, PriceOf,  \* the shop's shelf
          Classes, ClassPrice,
          LessonOf,        \* the lesson of each battle
          Boss,            \* the battles that roll a chest
          GoldOf,          \* what each match, battle, quest and chest pays
          ReplayGold,
          QuestsDone, PointsOf, MilestoneOf, \* today's finished quests, the chests
          None

Kinds == {"match", "battle", "buy", "unlock", "class", "bar", "skin", "quest", "chest"}
InGame == {"buy", "unlock", "class", "bar", "skin"}
Reasons == {"MATCH", "BATTLE_WIN", "BATTLE_REPLAY", "ITEM_PURCHASE", "SKILL_UNLOCK",
            "CLASS_CHANGE", "DAILY_QUEST", "ACTIVITY_CHEST"}
Payouts == {r.ref : r \in {q \in Requests : q.kind \in {"match", "battle", "quest", "chest"}}}
Refs    == {r.ref : r \in Requests} \cup {LessonOf[b] : b \in DOMAIN LessonOf} \cup Sessions

ASSUME WalletAssumption ==
  /\ Opening \in Nat /\ ClassPrice \in Nat \ {0} /\ ReplayGold \in Nat
  /\ None \notin Requests
  /\ \A r \in Requests : /\ r.kind \in Kinds
                         /\ r.kind \in {"buy", "skin"} => r.ref \in Items
                         /\ r.kind \in {"unlock", "bar"} => r.ref \in Skills
                         /\ r.kind = "class" => r.ref \in Classes
                         /\ r.kind = "battle" => r.ref \in DOMAIN LessonOf
  /\ SkillOf \in [Skills -> [class : Classes \cup {None}, parent : Skills \cup {None},
                             price : Nat, exp : Nat]]
  /\ Starter \in Skills /\ SkillOf[Starter].class = None
  /\ PriceOf \in [Items -> Nat \ {0}]
  /\ GoldOf \in [Payouts -> Nat]
  /\ None \notin Classes \cup Skills \cup Items

VARIABLES profile,   \* the user_game_profiles row
          log,       \* gold_transactions, in order of commit
          skills,    \* user_skills
          bar,       \* user_skill_loadout
          items,     \* user_items bought
          chests,    \* loot_grants
          claimed,   \* user_daily_quests.claimed_at and user_daily_activity_chests
          session,
          changes    \* class changes made after the first choice

vars == <<profile, log, skills, bar, items, chests, claimed, session, changes>>

Profile == [gold : Nat, exp : Nat, class : Classes \cup {None}, skin : Items \cup {None}]
NoProfile == [gold |-> 0, exp |-> 0, class |-> None, skin |-> None]

\* held is the profile the session read; locked says it holds the claim's row.
Session == [at : {"idle", "starters", "grant", "equip", "fill", "check", "lock", "commit",
                  "clear", "switch", "loot", "done"},
            req : Requests \cup {None}, held : Profile, locked : BOOLEAN]

TypeOK == /\ profile \in Profile
          /\ log \in Seq([reason : Reasons, ref : Refs, amount : Int, after : Nat])
          /\ skills \subseteq Skills /\ bar \subseteq Skills
          /\ items \subseteq Items
          /\ chests \subseteq Payouts /\ claimed \subseteq Payouts
          /\ session \in [Sessions -> Session]
          /\ changes \in Nat

Init == /\ profile = [NoProfile EXCEPT !.gold = Opening]
        /\ log = <<>> /\ skills = {} /\ bar = {} /\ items = {} /\ chests = {} /\ claimed = {}
        /\ session = [s \in Sessions |-> [at |-> "idle", req |-> None, held |-> NoProfile,
                                          locked |-> FALSE]]
        /\ changes = 0

-----------------------------------------------------------------------------
(* The ledger.                                                              *)

Free(reason, ref) == \A i \in DOMAIN log : ~(log[i].reason = reason /\ log[i].ref = ref)
Held(s) == session[s].held
Ref(s)  == session[s].req.ref
At(s, p) == session[s].at = p
Is(s, kind) == session[s].req # None /\ session[s].req.kind = kind

After(s, amount) == IF Held(s).gold + amount > 0 THEN Held(s).gold + amount ELSE 0

\* `grant': the row, unless the reference was paid already.
Grant(s, reason, ref, amount) ==
  /\ Free(reason, ref)
  /\ log' = Append(log, [reason |-> reason, ref |-> ref, amount |-> amount, after |-> After(s, amount)])

\* Mutant: the amount is added in the database, to whatever stands there.
MovedInPlace(s, amount, exp) ==
  [profile EXCEPT !.gold = @ + amount, !.exp = IF exp > 0 THEN Held(s).exp + exp ELSE @]

\* The profile after the session's own write of gold and experience.
Moved(s, amount, exp) ==
  [profile EXCEPT !.gold = IF After(s, amount) # Held(s).gold THEN After(s, amount) ELSE @,
                  !.exp = IF exp > 0 THEN Held(s).exp + exp ELSE @]

Goes(s, p) == session' = [session EXCEPT ![s].at = p]
Ends(s)    == session' = [session EXCEPT ![s] = [@ EXCEPT !.at = "done", !.held = NoProfile,
                                                          !.locked = FALSE]]
\* save refreshes the row it wrote.
Refreshed(s, p) == session' = [session EXCEPT ![s].at = p, ![s].held = profile']

-----------------------------------------------------------------------------
(* Reading.                                                                 *)

\* Mutant: whoever comes is taken for a player without a profile.
ArriveAsNew(s, r) == /\ At(s, "idle")
                     /\ session' = [session EXCEPT ![s] =
                          [at |-> IF r.kind \in InGame THEN "starters"
                                  ELSE IF r.kind \in {"quest", "chest"} THEN "check" ELSE "commit",
                           req |-> r, held |-> NoProfile, locked |-> FALSE]]
                     /\ UNCHANGED <<profile, log, skills, bar, items, chests, claimed, changes>>

Arrive(s, r) == /\ At(s, "idle")
                /\ session' = [session EXCEPT ![s] =
                     [at |-> CASE r.kind \in InGame -> "starters"
                               [] r.kind \in {"quest", "chest"} -> "check"
                               [] OTHER -> "commit",
                      req |-> r, held |-> profile, locked |-> FALSE]]
                /\ UNCHANGED <<profile, log, skills, bar, items, chests, claimed, changes>>

\* ensure_starters: owned? granted? an empty bar is then filled, in a commit of its own.
LookForStarter(s) == /\ At(s, "starters")
                     /\ Goes(s, IF Starter \in skills THEN "check" ELSE "grant")
                     /\ UNCHANGED <<profile, log, skills, bar, items, chests, claimed, changes>>

GrantStarter(s) == /\ At(s, "grant")
                   /\ IF Starter \in skills THEN Ends(s) /\ UNCHANGED skills
                      ELSE skills' = skills \cup {Starter} /\ Goes(s, "equip")
                   /\ UNCHANGED <<profile, log, bar, items, chests, claimed, changes>>

LookAtBar(s) == /\ At(s, "equip")
                /\ Goes(s, IF bar = {} THEN "fill" ELSE "check")
                /\ UNCHANGED <<profile, log, skills, bar, items, chests, claimed, changes>>

FillBar(s) == /\ At(s, "fill")
              /\ bar' = {Starter}
              /\ Goes(s, "check")
              /\ UNCHANGED <<profile, log, skills, items, chests, claimed, changes>>

\* `_lock_reason'.
Unlockable(s, k) == /\ SkillOf[k].class \in {None, Held(s).class}
                    /\ SkillOf[k].parent \in {None} \cup skills
                    /\ Held(s).exp >= SkillOf[k].exp
                    /\ Held(s).gold >= SkillOf[k].price

Points == LET Sum[S \in SUBSET QuestsDone] ==
                IF S = {} THEN 0 ELSE LET q == CHOOSE x \in S : TRUE IN PointsOf[q] + Sum[S \ {q}]
          IN Sum[QuestsDone]

\* Every refusal, before anything is staged.
Allowed(s) ==
  LET ref == Ref(s)
  IN CASE Is(s, "buy")    -> ref \notin items /\ Held(s).gold >= PriceOf[ref]
       [] Is(s, "unlock") -> ref \notin skills /\ Unlockable(s, ref)
       [] Is(s, "class")  -> /\ Held(s).class # ref
                             /\ Held(s).class # None => Held(s).gold >= ClassPrice
       [] Is(s, "bar")    -> ref \in skills /\ SkillOf[ref].class \in {None, Held(s).class}
       [] Is(s, "skin")   -> ref \in items
       [] Is(s, "quest")  -> ref \in QuestsDone /\ ref \notin claimed
       [] Is(s, "chest")  -> Points >= MilestoneOf[ref]

Check(s) == /\ At(s, "check")
            /\ IF Allowed(s)
               THEN Goes(s, IF session[s].req.kind \in {"quest", "chest"} THEN "lock" ELSE "commit")
               ELSE Ends(s)
            /\ UNCHANGED <<profile, log, skills, bar, items, chests, claimed, changes>>

\* mark_claimed and open_chest: the first to write the row holds it until its
\* commit; the profile is read under that lock.
LockClaim(s) ==
  /\ At(s, "lock")
  /\ \A t \in Sessions : ~(session[t].locked /\ session[t].req = session[s].req)
  /\ IF Ref(s) \in claimed THEN Ends(s)
     ELSE session' = [session EXCEPT ![s].at = "commit", ![s].held = profile, ![s].locked = TRUE]
  /\ UNCHANGED <<profile, log, skills, bar, items, chests, claimed, changes>>

-----------------------------------------------------------------------------
(* Committing.                                                              *)

\* _settle_player's gold: nothing when the match has paid already.
PayMatch(s) == /\ At(s, "commit") /\ Is(s, "match")
               /\ IF Free("MATCH", Ref(s))
                  THEN Grant(s, "MATCH", Ref(s), GoldOf[Ref(s)]) /\ profile' = Moved(s, GoldOf[Ref(s)], 1)
                  ELSE UNCHANGED <<log, profile>>
               /\ Ends(s)
               /\ UNCHANGED <<skills, bar, items, chests, claimed, changes>>

\* Mutant: a replay's share is tried before the full price.
PayBattleReplayFirst(s) ==
  /\ At(s, "commit") /\ Is(s, "battle")
  /\ IF Free("BATTLE_REPLAY", Ref(s))
     THEN Grant(s, "BATTLE_REPLAY", Ref(s), ReplayGold) /\ profile' = Moved(s, ReplayGold, 1)
     ELSE UNCHANGED <<log, profile>>
  /\ Ends(s)
  /\ UNCHANGED <<skills, bar, items, chests, claimed, changes>>

\* settle_battle: the full price once per lesson, a share once per battle.
PayBattle(s) ==
  LET lesson == LessonOf[Ref(s)]
      Paid   == IF Ref(s) \in Boss THEN Goes(s, "loot") ELSE Ends(s)
  IN /\ At(s, "commit") /\ Is(s, "battle")
     /\ CASE Free("BATTLE_WIN", lesson) ->
               /\ Grant(s, "BATTLE_WIN", lesson, GoldOf[Ref(s)])
               /\ profile' = Moved(s, GoldOf[Ref(s)], 1) /\ Paid
          [] ~Free("BATTLE_WIN", lesson) /\ Free("BATTLE_REPLAY", Ref(s)) ->
               /\ Grant(s, "BATTLE_REPLAY", Ref(s), ReplayGold)
               /\ profile' = Moved(s, ReplayGold, 1) /\ Paid
          [] OTHER -> UNCHANGED <<log, profile>> /\ Ends(s)
     /\ UNCHANGED <<skills, bar, items, chests, claimed, changes>>

\* The boss's chest is staged after the payout and lands with a later commit.
TakeLoot(s) == /\ At(s, "loot")
               /\ chests' = chests \cup {Ref(s)}
               /\ Ends(s)
               /\ UNCHANGED <<profile, log, skills, bar, items, claimed, changes>>

\* Mutant: the charge is one commit and the goods another.
BuySpendingFirst(s) ==
  /\ At(s, "commit") /\ Is(s, "buy")
  /\ IF Free("ITEM_PURCHASE", Ref(s))
     THEN /\ Grant(s, "ITEM_PURCHASE", Ref(s), -PriceOf[Ref(s)])
          /\ profile' = Moved(s, -PriceOf[Ref(s)], 0)
          /\ session' = session /\ UNCHANGED items
     ELSE items' = items \cup {Ref(s)} /\ Ends(s) /\ UNCHANGED <<log, profile>>
  /\ UNCHANGED <<skills, bar, chests, claimed, changes>>

\* purchase_item: the item, the row and the balance, or nothing of them.
Buy(s) == /\ At(s, "commit") /\ Is(s, "buy")
          /\ IF Free("ITEM_PURCHASE", Ref(s))
             THEN /\ items' = items \cup {Ref(s)}
                  /\ Grant(s, "ITEM_PURCHASE", Ref(s), -PriceOf[Ref(s)])
                  /\ profile' = Moved(s, -PriceOf[Ref(s)], 0)
             ELSE UNCHANGED <<items, log, profile>>
          /\ Ends(s)
          /\ UNCHANGED <<skills, bar, chests, claimed, changes>>

\* unlock_skill: a skill without a price is earned by its unit and has no row.
Unlock(s) == LET price == SkillOf[Ref(s)].price
             IN /\ At(s, "commit") /\ Is(s, "unlock")
                /\ IF Ref(s) \in skills THEN UNCHANGED <<skills, log, profile>>
                   ELSE /\ skills' = skills \cup {Ref(s)}
                        /\ IF price > 0
                           THEN Grant(s, "SKILL_UNLOCK", Ref(s), -price) /\ profile' = Moved(s, -price, 0)
                           ELSE UNCHANGED <<log, profile>>
                /\ Ends(s)
                /\ UNCHANGED <<bar, items, chests, claimed, changes>>

\* choose_class: the first choice is one commit; a change is paid for under a
\* fresh reference, then clears the bar, then writes the class.
ChooseFirst(s) == /\ At(s, "commit") /\ Is(s, "class") /\ Held(s).class = None
                  /\ profile' = [profile EXCEPT !.class = Ref(s)]
                  /\ Ends(s)
                  /\ UNCHANGED <<log, skills, bar, items, chests, claimed, changes>>

\* Mutant: the bar is cleared and the class written before the charge is.
PayChangeLater(s) == /\ At(s, "commit") /\ Is(s, "class") /\ Held(s).class # None
                     /\ Goes(s, "clear")
                     /\ UNCHANGED <<profile, log, skills, bar, items, chests, claimed, changes>>

PayChange(s) == /\ At(s, "commit") /\ Is(s, "class") /\ Held(s).class # None
                /\ Grant(s, "CLASS_CHANGE", s, -ClassPrice)
                /\ profile' = Moved(s, -ClassPrice, 0)
                /\ Refreshed(s, "clear")
                /\ UNCHANGED <<skills, bar, items, chests, claimed, changes>>

ClearBar(s) == /\ At(s, "clear")
               /\ bar' = {}
               /\ Goes(s, "switch")
               /\ UNCHANGED <<profile, log, skills, items, chests, claimed, changes>>

Switch(s) == /\ At(s, "switch")
             /\ profile' = [profile EXCEPT !.class = IF Held(s).class # Ref(s) THEN Ref(s) ELSE @]
             /\ changes' = changes + 1
             /\ Ends(s)
             /\ UNCHANGED <<log, skills, bar, items, chests, claimed>>

\* set_loadout, for a bar of the one skill asked for.
SetBar(s) == /\ At(s, "commit") /\ Is(s, "bar")
             /\ bar' = {Ref(s)}
             /\ Ends(s)
             /\ UNCHANGED <<profile, log, skills, items, chests, claimed, changes>>

WearSkin(s) == /\ At(s, "commit") /\ Is(s, "skin")
               /\ profile' = [profile EXCEPT !.skin = IF Held(s).skin # Ref(s) THEN Ref(s) ELSE @]
               /\ Ends(s)
               /\ UNCHANGED <<log, skills, bar, items, chests, claimed, changes>>

\* `_pay': the claim, the row, the item and the balance in one commit.
PayClaim(s, kind, reason) ==
  /\ At(s, "commit") /\ Is(s, kind)
  /\ IF Free(reason, Ref(s))
     THEN /\ Grant(s, reason, Ref(s), GoldOf[Ref(s)])
          /\ profile' = Moved(s, GoldOf[Ref(s)], 1)
          /\ claimed' = claimed \cup {Ref(s)}
          /\ chests' = IF kind = "chest" THEN chests \cup {Ref(s)} ELSE chests
     ELSE UNCHANGED <<log, profile, claimed, chests>>
  /\ Ends(s)
  /\ UNCHANGED <<skills, bar, items, changes>>

ClaimQuest(s) == PayClaim(s, "quest", "DAILY_QUEST")
ClaimChest(s) == PayClaim(s, "chest", "ACTIVITY_CHEST")

Vanish(s) == /\ session[s].at \notin {"idle", "done"}
             /\ Ends(s)
             /\ UNCHANGED <<profile, log, skills, bar, items, chests, claimed, changes>>

Step(s) == \/ \E r \in Requests : Arrive(s, r)
           \/ LookForStarter(s) \/ GrantStarter(s) \/ LookAtBar(s) \/ FillBar(s) \/ Check(s)
           \/ LockClaim(s) \/ PayMatch(s) \/ PayBattle(s) \/ TakeLoot(s) \/ Buy(s) \/ Unlock(s)
           \/ ChooseFirst(s) \/ PayChange(s) \/ ClearBar(s) \/ Switch(s) \/ SetBar(s)
           \/ WearSkin(s) \/ ClaimQuest(s) \/ ClaimChest(s) \/ Vanish(s)

Next == \E s \in Sessions : Step(s)

Spec == Init /\ [][Next]_vars

-----------------------------------------------------------------------------
(* Properties.                                                              *)

Entries(reason) == {i \in DOMAIN log : log[i].reason = reason}
Paid(reason)    == {log[i].ref : i \in Entries(reason)}

\* What gold buys and what was paid for are the same things, however double
\* taps, rival requests and half-done sessions fall: nobody pays for nothing
\* and nobody holds what they did not pay for.
GoodsArePaidFor == /\ items = Paid("ITEM_PURCHASE")
                   /\ {k \in skills : k # Starter /\ SkillOf[k].price > 0} = Paid("SKILL_UNLOCK")

\* A quest or chest is marked as claimed exactly when it has been paid, and
\* only a finished quest pays.
ClaimedIsPaid == /\ claimed = Paid("DAILY_QUEST") \cup Paid("ACTIVITY_CHEST")
                 /\ Paid("DAILY_QUEST") \subseteq QuestsDone

\* A replay is paid only for a lesson that has paid its first clear, and a
\* chest only where a payout has gone before it.
ReplaysFollowClears ==
  /\ \A b \in Paid("BATTLE_REPLAY") : LessonOf[b] \in Paid("BATTLE_WIN")
  /\ \A x \in chests : x \in claimed \/ (x \in Boss /\ LessonOf[x] \in Paid("BATTLE_WIN"))

\* A class never changes without being paid for, although the change is three
\* commits; dying in between costs the player, never the shop.
ClassChangesArePaid == changes <= Cardinality(Entries("CLASS_CHANGE"))

\* The balance is what the last row that moved gold says it left, even when
\* that row was computed from a balance long gone.
BalanceIsLast ==
  LET moves == {i \in DOMAIN log : log[i].amount # 0}
  IN \/ moves = {} /\ profile.gold = Opening
     \/ \E i \in moves : profile.gold = log[i].after /\ \A j \in moves : j <= i

\* Whatever stands on the bar or is worn is owned, although each is checked
\* in one step and written in another.
WornIsOwned == bar \subseteq skills /\ profile.skin \in items \cup {None}

\* The ledger's promise, kept by all of the requests together.
Ledger == INSTANCE GoldLedger WITH gold <- profile.gold
LedgerKept == Ledger!LedgerSpec

=============================================================================
