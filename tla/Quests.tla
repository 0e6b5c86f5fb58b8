------------------------------- MODULE Quests -------------------------------
(***************************************************************************)
(* One player's daily quests and activity chests through one day           *)
(* (services/game/daily_quest_service.py, its repository, the unique       *)
(* constraints of its tables and of the gold ledger).                      *)
(*                                                                         *)
(* Drawing, counting and claiming run in requests and after-match tasks    *)
(* with a session each; one step is one statement or commit.  Every        *)
(* statement names the day its request began on, so days do not meet.      *)
(* A quest stands for its type, of which a day has at most one.            *)
(* Experience and the item move in the commit that pays the gold, and are  *)
(* left out.                                                               *)
(*                                                                         *)
(* How a day's four quests are drawn, and the chests they open             *)
(* (daily_quests.py over the catalog of quest_catalog.py), is a state      *)
(* machine of its own at the end: an attempt fills the slots one by one,   *)
(* each with any template that fits.                                       *)
(***************************************************************************)
EXTENDS Integers, Sequences, FiniteSets

CONSTANTS Requests,
          Quests,   \* of the day's draw, numbered in the order of QuestType
          Peak,     \* the PEAK_TYPES among them
          Target, Points,       \* of each quest
          Chests, Milestone,    \* the chests, and the points each opens at
          MaxAmount,            \* bound: what one activity counts toward a quest
          Retired,       \* quest types no template is active for, or none at all
          DRAW_ATTEMPTS, \* bound: 50 in the code
          None

UserDailyQuest == [progress : Nat, completed : BOOLEAN, claimed : BOOLEAN]

QuestsAssumption ==
  /\ Quests \subseteq Nat /\ IsFiniteSet(Quests) /\ Peak \subseteq Quests
  /\ Target \in [Quests -> Nat \ {0}] /\ Points \in [Quests -> Nat]
  /\ Milestone \in [Chests -> Nat \ {0}] /\ MaxAmount \in Nat
  /\ Quests \cap Chests = {} /\ None \notin Quests \cup Chests
  /\ None \notin UserDailyQuest

VARIABLES quest,    \* user_daily_quests of the day, None where there is no row
          opened,   \* user_daily_activity_chests of the day
          ledger,   \* gold_transactions: the quests and chests that were paid
          profile,  \* is there a user_game_profiles row?
          request,  \* what every session does, and what it has written uncommitted
          counted,  \* history: what the day's activity adds up to, up to the target
          stranded  \* history: claims committed by the profile's creation

vars == <<quest, opened, ledger, profile, request, counted, stranded>>

Claims  == Quests \cup Chests
Request == [at : {"idle", "today", "inserting", "advancing", "points", "marking", "opening",
                  "profile", "paying"},
            for : {"track", "chest"}, event : [Quests -> Nat], todo : SUBSET Quests,
            claim : Claims \cup {None}, \* what is being claimed
            held : BOOLEAN]             \* and whether that is written and not yet committed

TypeOK == /\ \A q \in Quests : quest[q] # None => quest[q] \in UserDailyQuest
          /\ opened \subseteq Chests /\ ledger \subseteq Claims /\ stranded \subseteq Claims
          /\ profile \in BOOLEAN
          /\ request \in [Requests -> Request]
          /\ \A q \in Quests : counted[q] \in 0..Target[q]

Nothing == [q \in Quests |-> 0]
Idle == [at |-> "idle", for |-> "track", event |-> Nothing, todo |-> {}, claim |-> None,
         held |-> FALSE]

Init == /\ quest = [q \in Quests |-> None]
        /\ opened = {} /\ ledger = {} /\ stranded = {} /\ profile = FALSE
        /\ request = [r \in Requests |-> Idle]
        /\ counted = Nothing

Becomes(r, state) == request' = [request EXCEPT ![r] = state]
Goes(r, to)       == Becomes(r, [request[r] EXCEPT !.at = to])
Ends(r)           == Becomes(r, Idle)
Keeps             == UNCHANGED <<quest, opened, ledger, profile, counted, stranded>>
Drawn             == {q \in Quests : quest[q] # None}
Lesser(m, n)      == IF m < n THEN m ELSE n
Greater(m, n)     == IF m < n THEN n ELSE m

\* What another session has written of a claim makes a statement on it wait.
Unlocked(r, c) == \A s \in Requests \ {r} : ~(request[s].claim = c /\ request[s].held)

-----------------------------------------------------------------------------
(* today: read the day's set, draw it if there is none, and read it again.  *)

\* The end of a battle, a match, a lesson or a conversation.
track(r, event) ==
  /\ request[r].at = "idle" /\ event # Nothing
  /\ Becomes(r, [Idle EXCEPT !.at = "today", !.event = event])
  /\ Keeps

Touched(r) == {q \in Drawn : request[r].event[q] > 0}
Read(r)    == IF request[r].for = "chest" THEN Goes(r, "points")
              ELSE IF Touched(r) = {} THEN Ends(r)
              ELSE Becomes(r, [request[r] EXCEPT !.at = "advancing", !.todo = Touched(r)])

quests_for_day(r) ==
  /\ request[r].at = "today"
  /\ IF Drawn = {} THEN Goes(r, "inserting") ELSE Read(r)
  /\ Keeps

Unstarted == [progress |-> 0, completed |-> FALSE, claimed |-> FALSE]

\* On conflict do nothing: whoever drew first, drew the same.
insert_quests(r) ==
  /\ request[r].at = "inserting"
  /\ quest' = [q \in Quests |-> IF quest[q] = None THEN Unstarted ELSE quest[q]]
  /\ Goes(r, "today")
  /\ UNCHANGED <<opened, ledger, profile, counted, stranded>>

progress_after(q, current, amount) ==
  Lesser(Target[q], IF q \in Peak THEN Greater(current, amount) ELSE current + amount)

\* One statement and one commit for every type touched, in their order; only a quest
\* not yet finished is moved.
advance(r) ==
  LET me == request[r]
      q  == CHOOSE t \in me.todo : \A u \in me.todo : t <= u
      progressed == progress_after(q, quest[q].progress, me.event[q])
  IN /\ me.at = "advancing"
     /\ quest' = IF quest[q].completed THEN quest
                 ELSE [quest EXCEPT ![q].progress = progressed,
                                    ![q].completed = progressed >= Target[q]]
     /\ counted' = [counted EXCEPT ![q] = progress_after(q, @, me.event[q])]
     /\ IF me.todo = {q} THEN Ends(r) ELSE Becomes(r, [me EXCEPT !.todo = @ \ {q}])
     /\ UNCHANGED <<opened, ledger, profile, stranded>>

-----------------------------------------------------------------------------
(* The two claims, to where they pay.                                       *)

\* The checks of claim_quest, on the row as it is read.
claim_quest(r, q) ==
  /\ request[r].at = "idle"
  /\ quest[q] # None /\ quest[q].completed /\ ~quest[q].claimed
  /\ Becomes(r, [Idle EXCEPT !.at = "marking", !.claim = q])
  /\ Keeps

\* Written, not committed; a quest claimed meanwhile is refused.
mark_claimed(r) ==
  LET q == request[r].claim IN
  /\ request[r].at = "marking" /\ Unlocked(r, q)
  /\ IF quest[q].claimed THEN Ends(r)
     ELSE Becomes(r, [request[r] EXCEPT !.at = "profile", !.held = TRUE])
  /\ Keeps

claim_chest(r, c) ==
  /\ request[r].at = "idle"
  /\ Becomes(r, [Idle EXCEPT !.at = "today", !.for = "chest", !.claim = c])
  /\ Keeps

\* activity_points of daily_quests: those of finished quests, added up.
PointsOf(some) == Cardinality(UNION {{<<q, i>> : i \in 1..Points[q]} : q \in some})
activity_points == PointsOf({q \in Drawn : quest[q].completed})

\* Mutant: the chest's milestone is not looked at.
chest_unlocked_always(r) ==
  /\ request[r].at = "points"
  /\ Goes(r, "opening")
  /\ Keeps

chest_unlocked(r) ==
  /\ request[r].at = "points"
  /\ IF activity_points >= Milestone[request[r].claim] THEN Goes(r, "opening") ELSE Ends(r)
  /\ Keeps

open_chest(r) ==
  LET c == request[r].claim IN
  /\ request[r].at = "opening" /\ Unlocked(r, c)
  /\ IF c \in opened THEN Ends(r)
     ELSE Becomes(r, [request[r] EXCEPT !.at = "profile", !.held = TRUE])
  /\ Keeps

-----------------------------------------------------------------------------
(* `_pay'.                                                                  *)

\* What this session has written takes effect with whatever it commits.
Committed(r) ==
  LET c == request[r].claim IN
  /\ quest' = IF request[r].held /\ c \in Quests THEN [quest EXCEPT ![c].claimed = TRUE] ELSE quest
  /\ opened' = IF request[r].held /\ c \in Chests THEN opened \cup {c} ELSE opened

\* A player without a profile gets one, in a commit that takes the claim along.
get_or_create(r) ==
  /\ request[r].at = "profile"
  /\ \/ /\ profile
        /\ Goes(r, "paying")
        /\ UNCHANGED <<quest, opened, profile, stranded>>
     \/ /\ ~profile /\ profile' = TRUE
        /\ Committed(r)
        /\ stranded' = stranded \cup {request[r].claim}
        /\ Becomes(r, [request[r] EXCEPT !.at = "paying", !.held = FALSE])
  /\ UNCHANGED <<ledger, counted>>

\* The ledger's row and the profile, with the claim if it is still uncommitted.
Pay(r) ==
  LET c == request[r].claim IN
  /\ request[r].at = "paying"
  /\ IF c \in ledger THEN UNCHANGED <<quest, opened, ledger>>
     ELSE ledger' = ledger \cup {c} /\ Committed(r)
  /\ Ends(r)
  /\ UNCHANGED <<profile, counted, stranded>>

\* A statement raises (`track_quietly' logs it and rolls back) or the process dies.
Raises(r) == request[r].at # "idle" /\ Ends(r) /\ Keeps

Next == \E r \in Requests :
          \/ \E event \in [Quests -> 0..MaxAmount] : track(r, event)
          \/ quests_for_day(r) \/ insert_quests(r) \/ advance(r)
          \/ \E q \in Quests : claim_quest(r, q)
          \/ \E c \in Chests : claim_chest(r, c)
          \/ mark_claimed(r) \/ chest_unlocked(r) \/ open_chest(r)
          \/ get_or_create(r) \/ Pay(r) \/ Raises(r)

Spec == Init /\ [][Next]_vars

-----------------------------------------------------------------------------
(* Every activity counted stays counted: a quest stands where the day's     *)
(* commits add up to, with draws, counts and claims racing each other, and  *)
(* is complete exactly when that reaches its target.                        *)
ProgressAddsUp ==
  \A q \in Drawn : quest[q].progress = counted[q] /\ (quest[q].completed <=> counted[q] = Target[q])

(* Only what was earned is paid, a claim is never unpaid for good unless    *)
(* the payment had to create the profile, and what is paid is claimed.      *)
ClaimsSettle ==
  LET claimed == {q \in Drawn : quest[q].claimed} \cup opened IN
  /\ \A c \in claimed : c \in Quests => quest[c].completed
  /\ \A c \in claimed : c \in Chests => activity_points >= Milestone[c]
  /\ ledger \subseteq claimed
  /\ claimed \subseteq ledger \cup stranded

-----------------------------------------------------------------------------
(* The draw.                                                                *)

VARIABLES templates,  \* the active ones
          chosen,     \* of the attempt under way
          slot,       \* the slot it fills next
          best, attempts

draw_vars == <<templates, chosen, slot, best, attempts>>

QuestTemplate(type, difficulty) == [quest_type |-> type, difficulty |-> difficulty]

QUEST_TEMPLATES ==
  {QuestTemplate(type, "EASY") : type \in {"CORRECT_ANSWERS", "BEST_COMBO", "WIN_BATTLES"}} \cup
  {QuestTemplate(type, "MEDIUM") : type \in {"CORRECT_ANSWERS", "BEST_COMBO", "WIN_BATTLES", "NEW_LESSONS",
                                             "PLAY_PVP", "AI_CONVERSATION"}} \cup
  {QuestTemplate(type, "HARD") : type \in {"CORRECT_ANSWERS", "BEST_COMBO", "WIN_BATTLES", "FLAWLESS_WIN",
                                           "NEW_LESSONS", "WIN_PVP"}}

POINTS_BY_DIFFICULTY == [EASY |-> 20, MEDIUM |-> 25, HARD |-> 30]
DAILY_SLOTS == <<"HARD", "MEDIUM", "MEDIUM", "EASY">>
PVP_TYPES == {"PLAY_PVP", "WIN_PVP"}
MAX_PVP_QUESTS_PER_DAY == 1
CHESTS == {30, 60, 100}

TypesOf(quests) == {quests[i].quest_type : i \in DOMAIN quests}
PvpIn(quests)   == Cardinality({i \in DOMAIN quests : quests[i].quest_type \in PVP_TYPES})

DrawInit == /\ templates \in {{t \in QUEST_TEMPLATES : t.quest_type \notin some} : some \in Retired}
            /\ chosen = <<>> /\ slot = 1 /\ best = <<>> /\ attempts = 1

fits(template, quests) ==
  /\ template.quest_type \notin TypesOf(quests)
  /\ template.quest_type \in PVP_TYPES => PvpIn(quests) < MAX_PVP_QUESTS_PER_DAY

Candidates == {t \in templates : t.difficulty = DAILY_SLOTS[slot] /\ fits(t, chosen)}

FillSlot ==
  /\ slot <= Len(DAILY_SLOTS)
  /\ IF Candidates = {} THEN UNCHANGED chosen
     ELSE \E t \in Candidates : chosen' = Append(chosen, t)
  /\ slot' = slot + 1
  /\ UNCHANGED <<templates, best, attempts>>

Full == Len(chosen) = Len(DAILY_SLOTS)

\* An attempt that leaves a slot empty: another one, until there have been enough.
TryAgain ==
  /\ slot > Len(DAILY_SLOTS) /\ ~Full /\ attempts < DRAW_ATTEMPTS
  /\ attempts' = attempts + 1 /\ slot' = 1 /\ chosen' = <<>>
  /\ best' = IF Len(chosen) > Len(best) THEN chosen ELSE best
  /\ UNCHANGED templates

DrawNext == FillSlot \/ TryAgain

DrawSpec == DrawInit /\ [][DrawNext]_draw_vars

\* What the day gets, once the draw is over.
Over  == slot > Len(DAILY_SLOTS) /\ (Full \/ attempts = DRAW_ATTEMPTS)
DaysQuests == IF Full \/ Len(chosen) > Len(best) THEN chosen ELSE best

SumOf(quests) == LET f[i \in 0..Len(quests)] ==
                       IF i = 0 THEN 0 ELSE f[i - 1] + POINTS_BY_DIFFICULTY[quests[i].difficulty]
                 IN f[Len(quests)]

chests_reached(points) == {milestone \in CHESTS : points >= milestone}

-----------------------------------------------------------------------------
(* Whatever the draw, no two quests count the same, one at most needs an    *)
(* opponent, and no attempt was fuller.  With every template active only    *)
(* the easy slot can stay empty, when the others took all easy types, and   *)
(* a full day opens every chest with no quest to spare.                     *)
DayIsFair ==
  /\ \A i, j \in DOMAIN DaysQuests : i # j => DaysQuests[i].quest_type # DaysQuests[j].quest_type
  /\ PvpIn(DaysQuests) <= 1
  /\ Len(best) <= Len(DaysQuests) /\ Len(chosen) <= Len(DaysQuests)
  /\ Over /\ templates = QUEST_TEMPLATES =>
       \/ Len(DaysQuests) = Len(DAILY_SLOTS)
       \/ TypesOf(DaysQuests) = {t.quest_type : t \in {u \in templates : u.difficulty = "EASY"}}
  /\ Over /\ Len(DaysQuests) = Len(DAILY_SLOTS) =>
       /\ chests_reached(SumOf(DaysQuests)) = CHESTS
       /\ \A i \in DOMAIN DaysQuests :
            SumOf(DaysQuests) - POINTS_BY_DIFFICULTY[DaysQuests[i].difficulty] < 100
       \* Any two open the first, any three the second.
       /\ \A i, j \in DOMAIN DaysQuests :
            i # j => chests_reached(SumOf(<<DaysQuests[i], DaysQuests[j]>>)) = {30}
       /\ \A i \in DOMAIN DaysQuests :
            60 \in chests_reached(SumOf(DaysQuests) - POINTS_BY_DIFFICULTY[DaysQuests[i].difficulty])

=============================================================================
