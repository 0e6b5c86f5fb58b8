----------------------------- MODULE MCStudy -----------------------------
(***************************************************************************)
(* What a learner does away from the fights, checked side by side: lesson  *)
(* progress, the Benchmark Exam, conversations, daily quests, the skills   *)
(* and items a player comes by and carries, and the arithmetic of levels,  *)
(* quest draws and the AI's client.  They share no row here, so one of     *)
(* them moves in a behaviour and the others stay where they start.         *)
(***************************************************************************)
EXTENDS Progress, TLC

CONSTANTS r1, r2, c1, c2, e1, e2, b1, b2

CONSTANTS Sittings, Questions, Caps, RawLevel, PassPercent, TimeLimit, MaxClock,
          MaxTurns, SessionsPerDay, MaxLines,
          Quests, Peak, Target, Points, Chests, Milestone, MaxAmount,
          Starts, Corrects, Bonuses, MaxMatches,
          Retired, DRAW_ATTEMPTS,
          MaxHistory, HISTORY_MESSAGES, HINT_COUNT, Scores,
          Levels, SkillsOut, ItemsOut, MaxUnlocks, MaxChanges, WishSizes, MaxItems

\* Around what each cap and the first levels cost.
MCStarts   == {0, 90, 4490, 5500, 29990, 122500, 285000, 418560, 500000}
MCBonuses  == {-50, 0, 100, 400}
MCScores   == {-5, 80, 130}
MCRetired  == {{}, {"WIN_BATTLES"}, {"CORRECT_ANSWERS", "BEST_COMBO"}, {"PLAY_PVP", "NEW_LESSONS"}}

MCTarget    == [q \in {1, 2} |-> 2]
MCPoints    == [q \in {1, 2} |-> q]
MCMilestone == [c \in {b1, b2} |-> IF c = b1 THEN 1 ELSE 3]

MCSkillsOut == {{}, {"WAR_GUARD", "SHIELD"}}

\* All the items of one rarity that a chest may hold.
Epic(kind, slot, bonus) ==
  [kind |-> kind, slot |-> slot, rarity |-> "EPIC", exp |-> bonus[1], gold |-> bonus[2], price |-> 0]
MCItemsOut ==
  {{}, {Epic("EQUIPMENT", "WEAPON", <<0, 70>>), Epic("EQUIPMENT", "TRINKET", <<25, 25>>),
        Epic("CARD", None, <<0, 0>>)}}

VARIABLES subject,  \* the service that moves
          clock, sitting, cleared, holder, exam_request,
          session, lines, started, talk_request, tracked,
          quest, opened, ledger, profile, quest_request, counted, stranded,
          total_exp, benchmark_cleared_level, finished, credited,
          templates, chosen, slot, best, attempts,
          said, purpose, llm_attempt, asked, posts, response, outcome,
          out, held, class, skills, bar, setting, changing, entering, carried, changes, raced, bared,
          inventory, worn, bought, dropped

exam_vars  == <<clock, sitting, cleared, holder, exam_request>>
talk_vars  == <<session, lines, started, talk_request, tracked>>
daily_vars == <<quest, opened, ledger, profile, quest_request, counted, stranded>>
growth_vars == <<total_exp, benchmark_cleared_level, finished, credited>>
draw_vars   == <<templates, chosen, slot, best, attempts>>
llm_vars    == <<said, purpose, llm_attempt, asked, posts, response, outcome>>
tree_vars   == <<held, class, skills, bar, setting, changing, entering, carried, changes, raced, bared>>
item_vars   == <<inventory, worn, bought, dropped>>
goods_vars  == <<out, tree_vars, item_vars>>
rest_vars   == <<growth_vars, draw_vars, llm_vars, goods_vars>>

Exam  == INSTANCE BenchmarkExam WITH request <- exam_request
Talk  == INSTANCE Conversation WITH request <- talk_request
Daily == INSTANCE Quests WITH request <- quest_request
Learner == INSTANCE Growth
Llm     == INSTANCE LlmClient WITH attempt <- llm_attempt
Tree    == INSTANCE SkillTree WITH Retirements <- SkillsOut, retired <- out, level <- held
Goods   == INSTANCE Wardrobe WITH Retirements <- ItemsOut, retired <- out, owned <- inventory

\* Their assumptions, which an INSTANCE does not evaluate.
ASSUME StudyAssumption ==
  /\ Exam!ExamAssumption
  /\ Talk!ConversationAssumption
  /\ Daily!QuestsAssumption
  /\ Learner!GrowthAssumption
  /\ Llm!LlmAssumption
  /\ Tree!SkillTreeAssumption
  /\ Goods!WardrobeAssumption

StudyInit ==
  /\ subject \in {"progress", "exam", "talk", "quest", "growth", "draw", "llm", "tree", "goods"}
  /\ Init /\ Exam!Init /\ Talk!Init /\ Daily!Init
  /\ IF subject = "growth" THEN Learner!Init
     ELSE total_exp = 0 /\ benchmark_cleared_level = None /\ finished = 0 /\ credited = 1
  /\ IF subject = "draw" THEN Daily!DrawInit
     ELSE templates = {} /\ chosen = <<>> /\ slot = 1 /\ best = <<>> /\ attempts = 1
  /\ IF subject = "llm" THEN Llm!Init
     ELSE /\ said = <<>> /\ purpose = "reply" /\ llm_attempt = 0 /\ asked = 0 /\ posts = 0
          /\ response = None /\ outcome = None
  /\ IF subject = "tree" THEN Tree!Init
     ELSE /\ held = 1 /\ class = None /\ skills = {} /\ bar = {} /\ setting = None /\ changing = None
          /\ entering = None /\ carried = None /\ changes = 0 /\ raced = FALSE /\ bared = "nobody"
  /\ IF subject = "goods" THEN Goods!Init
     ELSE /\ inventory = <<>> /\ worn = <<>> /\ bought = {} /\ dropped = {}
          /\ subject # "tree" => out = {}

StudyNext ==
  \/ /\ subject = "progress" /\ Next
     /\ UNCHANGED <<subject, exam_vars, talk_vars, daily_vars, rest_vars>>
  \/ /\ subject = "exam" /\ Exam!Next
     /\ UNCHANGED <<subject, vars, talk_vars, daily_vars, rest_vars>>
  \/ /\ subject = "talk" /\ Talk!Next
     /\ UNCHANGED <<subject, vars, exam_vars, daily_vars, rest_vars>>
  \/ /\ subject = "quest" /\ Daily!Next
     /\ UNCHANGED <<subject, vars, exam_vars, talk_vars, rest_vars>>
  \/ /\ subject = "growth" /\ Learner!Next
     /\ UNCHANGED <<subject, vars, exam_vars, talk_vars, daily_vars, draw_vars, llm_vars, goods_vars>>
  \/ /\ subject = "draw" /\ Daily!DrawNext
     /\ UNCHANGED <<subject, vars, exam_vars, talk_vars, daily_vars, growth_vars, llm_vars, goods_vars>>
  \/ /\ subject = "llm" /\ Llm!Next
     /\ UNCHANGED <<subject, vars, exam_vars, talk_vars, daily_vars, growth_vars, draw_vars, goods_vars>>
  \/ /\ subject = "tree" /\ Tree!Next
     /\ UNCHANGED <<subject, vars, exam_vars, talk_vars, daily_vars, growth_vars, draw_vars, llm_vars,
                    item_vars>>
  \/ /\ subject = "goods" /\ Goods!Next
     /\ UNCHANGED <<subject, vars, exam_vars, talk_vars, daily_vars, growth_vars, draw_vars, llm_vars,
                    tree_vars>>

StudySpec == StudyInit /\ [][StudyNext]_<<subject, vars, exam_vars, talk_vars, daily_vars, rest_vars>>

-----------------------------------------------------------------------------
(* Every service keeps its state in its types.                              *)
TypesOK ==
  /\ subject = "progress" => TypeOK
  /\ subject = "exam" => Exam!TypeOK
  /\ subject = "talk" => Talk!TypeOK
  /\ subject = "quest" => Daily!TypeOK
  /\ subject = "growth" => Learner!TypeOK
  /\ subject = "llm" => Llm!TypeOK
  /\ subject = "tree" => Tree!TypeOK
  /\ subject = "goods" => Goods!TypeOK

(* Nobody passes the exam, or has a cap lifted, on answers that do not      *)
(* pass; and a level is what experience has paid for up to the cap, is      *)
(* never lost, and never gained by walking out.                             *)
CapsAreEarned ==
  /\ subject = "exam" => Exam!CapsAreEarned
  /\ subject = "growth" => /\ Learner!LevelsAreKept /\ Learner!LevelsArePaidFor
                           /\ Learner!BandsArePassed /\ Learner!QuittingNeverPays

(* Learner and AI take turns, whatever races for a position, also in what   *)
(* the AI is sent of them; and it is asked no more often than it takes.     *)
LinesAlternate == /\ subject = "talk" => Talk!LinesAlternate
                  /\ subject = "llm" => Llm!SentAlternates /\ Llm!AskedInReason

(* A quest stands where the activity of the day adds up to, and pays when,  *)
(* and only when, it was finished and claimed; the day's quests were drawn  *)
(* by the rules and add up to every chest.                                  *)
QuestsAddUp == /\ subject = "quest" => Daily!ProgressAddsUp /\ Daily!ClaimsSettle
               /\ subject = "draw" => Daily!DayIsFair

(* Skills are climbed to, and a bar is empty, or another school's, only for *)
(* a reason; an item has one way in, and what is worn is owned and worth    *)
(* what its labels say.                                                     *)
KitIsEarned ==
  /\ subject = "tree" => Tree!BarIsCastable /\ Tree!EmptyByChoice /\ Tree!TreeIsClimbed
  /\ subject = "goods" => Goods!OneWayIn /\ Goods!WornIsWorthItsLabels

(* What is mastered or completed stays so, an exam answer taken is kept as  *)
(* it was given, and a finished conversation is not reopened by what was    *)
(* still on its way.                                                        *)
KeptAsGiven == NothingIsUnlearnt /\ Exam!AnswersAreKept /\ Talk!FinishedStays

Sym == Permutations({r1, r2}) \cup Permutations({c1, c2})
=============================================================================
