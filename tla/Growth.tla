------------------------------- MODULE Growth -------------------------------
(***************************************************************************)
(* One player's experience, and what it is read as: levels, the caps of    *)
(* the Benchmark Exam, CEFR bands and the TOEIC estimate, under the        *)
(* rewards of duo matches (services/game/leveling.py, cefr.py, rewards.py  *)
(* and the bonus of loot.py).                                              *)
(*                                                                         *)
(* The numbers are the code's.  Gold follows the same rules; who settles a *)
(* match and when is Settlement's, the exam itself BenchmarkExam's.        *)
(***************************************************************************)
EXTENDS Integers

CONSTANTS Starts,      \* the totals a player is first seen with
          Corrects,    \* how many answers of a match may be right
          Bonuses,     \* what equipment adds, in thousandths, before the ceiling
          MaxMatches,  \* bound: how many matches are finished
          None

GrowthAssumption == /\ Starts \subseteq Nat /\ Corrects \subseteq Nat /\ Bonuses \subseteq Int
                    /\ MaxMatches \in Nat /\ None \notin Int

VARIABLES total_exp, benchmark_cleared_level,
          finished,  \* matches finished
          credited   \* history: the highest level ever shown

vars == <<total_exp, benchmark_cleared_level, finished, credited>>

Lesser(m, n)  == IF m < n THEN m ELSE n
Greater(m, n) == IF m < n THEN n ELSE m

-----------------------------------------------------------------------------
(* cefr.py.                                                                 *)

\* Each band with the level it opens at, the highest first.
BAND_FLOORS == <<<<"C2", 93>>, <<"C1", 76>>, <<"B2", 51>>, <<"B1", 26>>, <<"A2", 11>>, <<"A1", 1>>>>
Bands       == {BAND_FLOORS[i] : i \in DOMAIN BAND_FLOORS}
LEVEL_CAPS  == {band[2] - 1 : band \in {b \in Bands : b[2] > 1}}

TOEIC_FLOOR    == 10
TOEIC_CEILING  == 990
MAX_CEFR_LEVEL == 100
TOEIC_ANCHORS  == <<<<1, TOEIC_FLOOR>>, <<11, 225>>, <<26, 550>>, <<51, 785>>, <<76, 945>>,
                    <<93, TOEIC_CEILING>>>>

cefr_for_level(level) ==
  IF level < 1 THEN "A1"
  ELSE (CHOOSE b \in Bands : b[2] <= level /\ \A c \in Bands : c[2] <= level => c[2] <= b[2])[1]

cefr_floor(band) == (CHOOSE b \in Bands : b[1] = band)[2]

next_cefr_at_level(level) ==
  LET higher == {b \in Bands : b[2] > cefr_floor(cefr_for_level(level))} IN
  IF higher = {} THEN None ELSE CHOOSE b \in higher : \A c \in higher : b[2] <= c[2]

toeic_estimate_for_level(level) ==
  LET capped == Greater(1, Lesser(level, MAX_CEFR_LEVEL))
      above  == {i \in (DOMAIN TOEIC_ANCHORS) \ {1} : capped < TOEIC_ANCHORS[i][1]}
  IN IF above = {} THEN TOEIC_CEILING
     ELSE LET next  == CHOOSE i \in above : \A j \in above : i <= j
              start == TOEIC_ANCHORS[next - 1]
              end   == TOEIC_ANCHORS[next]
          IN start[2] + (((end[2] - start[2]) * (capped - start[1])) \div (end[1] - start[1]))

-----------------------------------------------------------------------------
(* leveling.py.                                                             *)

exp_for_level(level) == IF level <= 1 THEN 0 ELSE (100 * (level - 1) * level) \div 2

\* math.isqrt: the greatest integer whose square is not above n.
isqrt[n \in Nat] ==
  IF n = 0 THEN 0
  ELSE LET r == 2 * isqrt[n \div 4] IN IF (r + 1) * (r + 1) <= n THEN r + 1 ELSE r

level_for_exp(total) == IF total <= 0 THEN 1 ELSE (50 + isqrt[2500 + 200 * total]) \div 100

exp_to_next_level(total) == exp_for_level(level_for_exp(total) + 1) - Greater(0, total)

next_level_cap(cleared) ==
  LET ahead == {cap \in LEVEL_CAPS : cap > (IF cleared = None THEN 0 ELSE cleared)} IN
  IF ahead = {} THEN None ELSE CHOOSE cap \in ahead : \A c \in ahead : cap <= c

pending_benchmark_level(total, cleared) ==
  LET cap == next_level_cap(cleared) IN
  IF cap = None THEN None ELSE IF level_for_exp(total) < cap THEN None ELSE cap

effective_level(total, cleared) ==
  LET raw == level_for_exp(total)
      cap == next_level_cap(cleared)
  IN IF cap = None THEN raw ELSE Lesser(raw, cap)

\* With floor_at_current_level, as every settlement calls it.
apply_exp(total, delta) == Greater(0, Greater(total + delta, exp_for_level(level_for_exp(total))))

-----------------------------------------------------------------------------
(* rewards.py and loot.py.                                                  *)

MAX_BONUS_EXP_PERMILLE == 150
capped(permille) == Greater(0, Lesser(permille, MAX_BONUS_EXP_PERMILLE))

apply_bonus(amount, permille) ==
  IF amount <= 0 THEN amount ELSE amount + ((amount * Greater(0, permille)) \div 1000)

RewardInput == [outcome : {"WIN", "DRAW", "LOSE"}, opponent_quit : BOOLEAN, forfeited : BOOLEAN,
                correct_count : Corrects, knockout : BOOLEAN]

compute_reward(data) ==
  IF data.forfeited THEN -30
  ELSE IF data.outcome = "DRAW" THEN 25
  ELSE IF data.outcome = "LOSE" THEN 15
  ELSE IF data.opponent_quit THEN 40
  ELSE 50 + 5 * data.correct_count + (IF data.knockout THEN 25 ELSE 0)

-----------------------------------------------------------------------------
Level == effective_level(total_exp, benchmark_cleared_level)

TypeOK == /\ total_exp \in Nat /\ benchmark_cleared_level \in LEVEL_CAPS \cup {None}
          /\ finished \in 0..MaxMatches /\ credited \in Nat

Init == /\ total_exp \in Starts
        /\ benchmark_cleared_level \in LEVEL_CAPS \cup {None}
        /\ finished = 0 /\ credited = Level

\* A match is settled: `permille' is what the player wears.
SettleMatch(data, permille) ==
  LET delta == apply_bonus(compute_reward(data), capped(permille)) IN
  /\ finished < MaxMatches /\ finished' = finished + 1
  /\ total_exp' = apply_exp(total_exp, delta)
  /\ credited' = Greater(credited, effective_level(total_exp', benchmark_cleared_level))
  /\ UNCHANGED benchmark_cleared_level

\* An exam is passed: it is the pending cap's, and clears it.
ClearBenchmark ==
  LET cap == pending_benchmark_level(total_exp, benchmark_cleared_level) IN
  /\ cap # None
  /\ benchmark_cleared_level' = cap
  /\ credited' = Greater(credited, effective_level(total_exp, cap))
  /\ UNCHANGED <<total_exp, finished>>

Next == \/ \E data \in RewardInput, permille \in Bonuses : SettleMatch(data, permille)
        \/ ClearBenchmark

Spec == Init /\ [][Next]_vars

-----------------------------------------------------------------------------
(* No level once shown is lost, to a forfeit or to an exam.                 *)
LevelsAreKept == Level = credited

(* The level is the one the total has paid for, no more and no less, and    *)
(* stops at the first cap not cleared, where an exam is pending exactly if  *)
(* there is one to pass.                                                    *)
LevelsArePaidFor ==
  LET raw     == level_for_exp(total_exp)
      pending == pending_benchmark_level(total_exp, benchmark_cleared_level)
  IN /\ exp_for_level(raw) <= total_exp /\ total_exp < exp_for_level(raw + 1)
     /\ exp_to_next_level(total_exp) \in 1..(100 * raw)
     /\ Level # raw => pending = Level
     /\ pending # None => pending = Level /\ (benchmark_cleared_level # None => pending > benchmark_cleared_level)

(* A band above A1 is only reached past a cleared cap, and the estimate     *)
(* stays between those of the band and the next.                            *)
BandsArePassed ==
  LET band == cefr_for_level(Level)
      next == next_cefr_at_level(Level)
  IN /\ band # "A1" => benchmark_cleared_level # None /\ cefr_floor(band) <= benchmark_cleared_level + 1
     /\ toeic_estimate_for_level(Level) >= toeic_estimate_for_level(cefr_floor(band))
     /\ next # None => /\ Level < next[2] /\ cefr_for_level(next[2]) = next[1]
                       /\ toeic_estimate_for_level(Level) < toeic_estimate_for_level(next[2])

\* What a match adds to this player's total.
Gain(data, permille) == apply_exp(total_exp, apply_bonus(compute_reward(data), capped(permille))) - total_exp

(* Staying to the end pays more than walking out whatever the score, and    *)
(* what is worn never makes it less, nor more than the ceiling allows.      *)
QuittingNeverPays ==
  \A data \in RewardInput, permille \in Bonuses :
    LET plain == Gain(data, 0) IN
    IF data.forfeited THEN Gain(data, permille) = plain /\ plain <= 0
    ELSE plain > 0 /\ Gain(data, permille) \in plain..((plain * 115) \div 100)

=============================================================================
