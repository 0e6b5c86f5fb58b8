----------------------------- MODULE Settlement -----------------------------
(***************************************************************************)
(* Settling duo matches, commit by commit: save_result of                  *)
(* services/duo/persistence.py, the payout of services/game/settlement.py  *)
(* it calls, and the season roll-over that the same tables take part in.   *)
(*                                                                         *)
(* One step is one commit, or one read whose value a later commit is       *)
(* computed from.  A counter that is read, added to and written back       *)
(* (rating, gold, ladder) is the set of matches it reflects, so a write    *)
(* over a stale read is visible as a match gone missing.  An UPDATE names  *)
(* only the columns the session changed.                                   *)
(***************************************************************************)
EXTENDS Integers, Sequences, FiniteSets

CONSTANTS Users, Matches,
          Seats,         \* per match, player one and player two
          Calls, CallOn, \* the save_result calls and the match each is about
          Days, MonthOf, \* bound: the calendar, and the month each day is in
          SeasonLength,  \* SEASON_LENGTH_DAYS
          MaxErrors, MaxCrashes, None

ASSUME SettlementAssumption ==
  /\ Seats \in [Matches -> Users \X Users]
  /\ \A m \in Matches : Seats[m][1] # Seats[m][2]
  /\ CallOn \in [Calls -> Matches]
  /\ Days \in Nat \ {0} /\ SeasonLength \in Nat \ {0}
  /\ MaxErrors \in Nat /\ MaxCrashes \in Nat
  /\ \A S \in SUBSET Matches : S # None

Calendar == 0..Days
Months   == {MonthOf[d] : d \in Calendar}
Players(m) == {Seats[m][1], Seats[m][2]}

VARIABLES day,
          match,     \* the duo_matches rows
          rated,     \* duo_ratings: the matches each all-time rating reflects
          ledger,    \* gold_transactions: pairs of user and match
          profile,   \* user_game_profiles
          activity,  \* user_daily_activity: the days with a row
          chests,    \* loot_grants: pairs of user and match
          seasons,   \* game_seasons, by their unique code
          ladder,    \* season_ratings: the matches a standing reflects, by code and user
          achieved,  \* user_achievements: how many wins' worth is unlocked
          quests,    \* user_daily_quests: the matches counted
          call,      \* where each save_result is, and what its session holds
          sweep,     \* the roll-over riding on the housekeeping sweep
          errors, crashes,
          overlapped \* matches whose settlement ran beside another of one of its players

tables == <<match, rated, ledger, profile, activity, chests, seasons, ladder, achieved, quests>>
vars   == <<day, tables, call, sweep, errors, crashes, overlapped>>

Status  == {"IN_PROGRESS", "FINISHED", "ABANDONED"}
Profile == [paid : SUBSET Matches, streak : Nat, last : Calendar]
Season  == [starts : Calendar, ends : Nat, active : BOOLEAN]

Settling == {"ratings", "ratingTwo", "rateOne", "rateTwo", "profile", "pay", "refresh",
             "activity", "streak", "season", "found", "standing", "open", "climb", "achieve",
             "quests", "finish"}

\* who is the player being settled; loot is a chest inserted but not committed.
Call == [at : {"new", "over"} \cup Settling, who : 1..2,
         rating : [Users -> SUBSET Matches], profile : Profile, today : Calendar,
         season : Months \cup {None}, standing : SUBSET Matches, loot : BOOLEAN]

Sweep == [at : {"idle", "open"}, starts : Calendar]

TypeOK == /\ day \in Calendar
          /\ match \in [Matches -> [status : Status, result : BOOLEAN]]
          /\ rated \in [Users -> SUBSET Matches]
          /\ ledger \subseteq Users \X Matches
          /\ profile \in [Users -> Profile]
          /\ activity \in [Users -> SUBSET Calendar]
          /\ chests \subseteq Users \X Matches
          /\ seasons \in [Months -> Season \cup {None}]
          /\ ladder \in [Months \X Users -> (SUBSET Matches) \cup {None}]
          /\ achieved \in [Users -> Nat]
          /\ quests \subseteq Users \X Matches
          /\ call \in [Calls -> Call]
          /\ sweep \in Sweep
          /\ errors \in 0..MaxErrors /\ crashes \in 0..MaxCrashes
          /\ overlapped \subseteq Matches

NoProfile == [paid |-> {}, streak |-> 0, last |-> 0]
Idle == [at |-> "new", who |-> 1, rating |-> [u \in Users |-> {}], profile |-> NoProfile,
         today |-> 0, season |-> None, standing |-> {}, loot |-> FALSE]

NewSeason(starts) == [starts |-> starts, ends |-> starts + SeasonLength, active |-> TRUE]

\* Everybody last played on day 0, in the season that opened then or before
\* there was any.
Init == /\ day = 0
        /\ match = [m \in Matches |-> [status |-> "IN_PROGRESS", result |-> FALSE]]
        /\ rated = [u \in Users |-> {}]
        /\ ledger = {} /\ chests = {} /\ quests = {}
        /\ profile = [u \in Users |-> [NoProfile EXCEPT !.streak = 1]]
        /\ activity = [u \in Users |-> {0}]
        /\ \/ seasons = [s \in Months |-> None]
           \/ seasons = [s \in Months |-> IF s = MonthOf[0] THEN NewSeason(0) ELSE None]
        /\ ladder = [cu \in Months \X Users |-> None]
        /\ achieved = [u \in Users |-> 0]
        /\ call = [c \in Calls |-> Idle]
        /\ sweep = [at |-> "idle", starts |-> 0]
        /\ errors = 0 /\ crashes = 0 /\ overlapped = {}

-----------------------------------------------------------------------------
(* The tables.                                                              *)

Active(c) == seasons[c] # None /\ seasons[c].active

\* `active': of several, the one that started last.
active == {c \in Months : Active(c) /\ \A d \in Months : Active(d) => seasons[d].starts <= seasons[c].starts}

season_code(d)    == MonthOf[d]

streak_after(streak, last, today) ==
  CASE today = last -> IF streak > 1 THEN streak ELSE 1
    [] today = last + 1 -> (IF streak > 1 THEN streak ELSE 1) + 1
    [] OTHER -> 1

-----------------------------------------------------------------------------
(* One call.  `Commit' ends a transaction: a pending chest goes with it.    *)

M(c)     == CallOn[c]
U(c)     == Seats[M(c)][call[c].who]
At(c, p) == call[c].at = p

GoTo(c, p)   == call' = [call EXCEPT ![c].at = p]
Return(c)    == call' = [call EXCEPT ![c] = [Idle EXCEPT !.at = "over"]]
CommitLoot(c) == chests' = IF call[c].loot THEN chests \cup {<<U(c), M(c)>>} ELSE chests

InFlight(c) == call[c].at \in Settling
Beside(c)   == {M(d) : d \in {d \in Calls \ {c} : InFlight(d) /\ Players(M(d)) \cap Players(M(c)) # {}}}

\* claim_for_settlement: whoever flips the row goes on, anybody else returns.
Claim(c) == /\ At(c, "new")
            /\ IF match[M(c)].status = "IN_PROGRESS"
               THEN /\ match' = [match EXCEPT ![M(c)].status = "FINISHED"]
                    /\ GoTo(c, "ratings")
                    /\ overlapped' = IF Beside(c) = {} THEN overlapped
                                     ELSE overlapped \cup Beside(c) \cup {M(c)}
               ELSE Return(c) /\ UNCHANGED <<match, overlapped>>
            /\ UNCHANGED <<day, rated, ledger, profile, activity, chests, seasons, ladder,
                           achieved, quests, sweep, errors, crashes>>

\* One after the other.
ReadRatings(c) == /\ At(c, "ratings") \/ At(c, "ratingTwo")
                  /\ LET i == IF At(c, "ratings") THEN 1 ELSE 2
                         u == Seats[M(c)][i]
                     IN call' = [call EXCEPT ![c].at = IF i = 1 THEN "ratingTwo" ELSE "rateOne",
                                             ![c].rating[u] = rated[u]]
                  /\ UNCHANGED <<day, tables, sweep, errors, crashes, overlapped>>

\* Mutant: the update starts from a fresh row.
RatedFresh(c, i) == {M(c)}

\* Both updates were computed from the two ratings read before either.
Rated(c, i) == call[c].rating[Seats[M(c)][i]] \cup {M(c)}

SaveRating(c) == /\ At(c, "rateOne") \/ At(c, "rateTwo")
                 /\ LET i == IF At(c, "rateOne") THEN 1 ELSE 2
                        u == Seats[M(c)][i]
                    IN /\ rated' = [rated EXCEPT ![u] = Rated(c, i)]
                       /\ call' = [call EXCEPT ![c].at = IF i = 1 THEN "rateTwo" ELSE "profile",
                                               ![c].rating[u] = Rated(c, i)]
                 /\ UNCHANGED <<day, match, ledger, profile, activity, chests, seasons, ladder,
                                achieved, quests, sweep, errors, crashes, overlapped>>

ReadProfile(c) == /\ At(c, "profile") \/ At(c, "refresh")
                  /\ call' = [call EXCEPT ![c].at = IF At(c, "profile") THEN "pay" ELSE "activity",
                                          ![c].profile = profile[U(c)]]
                  /\ UNCHANGED <<day, tables, sweep, errors, crashes, overlapped>>

Paid(c) == [profile[U(c)] EXCEPT !.paid = call[c].profile.paid \cup {M(c)}]

\* First both are settled, then the quests of both are counted.
NextPlayer(c) ==
  CASE call[c].who = 1 -> [call[c] EXCEPT !.who = 2, !.at = IF @ = "quests" THEN @ ELSE "profile"]
    [] call[c].who = 2 /\ ~At(c, "quests") -> [Idle EXCEPT !.at = "quests"]
    [] OTHER -> [Idle EXCEPT !.at = "finish"]

\* The ledger row and the balance land together, unless the row is there already.
Pay(c) == /\ At(c, "pay")
          /\ IF <<U(c), M(c)>> \in ledger
             THEN call' = [call EXCEPT ![c] = NextPlayer(c)] /\ UNCHANGED <<ledger, profile>>
             ELSE /\ ledger' = ledger \cup {<<U(c), M(c)>>}
                  /\ profile' = [profile EXCEPT ![U(c)] = Paid(c)]
                  /\ call' = [call EXCEPT ![c].at = "refresh", ![c].profile = NoProfile]
          /\ UNCHANGED <<day, match, rated, activity, chests, seasons, ladder, achieved, quests,
                         sweep, errors, crashes, overlapped>>

RecordActivity(c) == /\ At(c, "activity")
                     /\ activity' = [activity EXCEPT ![U(c)] = @ \cup {day}]
                     /\ call' = [call EXCEPT ![c].at = "streak", ![c].today = day]
                     /\ UNCHANGED <<day, match, rated, ledger, profile, chests, seasons, ladder,
                                    achieved, quests, sweep, errors, crashes, overlapped>>

SaveStreak(c) ==
  /\ At(c, "streak")
  /\ LET held == call[c].profile
         new  == streak_after(held.streak, held.last, call[c].today)
     IN profile' = [profile EXCEPT ![U(c)].streak = IF new # held.streak THEN new ELSE @,
                                   ![U(c)].last = IF call[c].today # held.last THEN call[c].today ELSE @]
  /\ call' = [call EXCEPT ![c].at = "season", ![c].profile = NoProfile, ![c].today = 0]
  /\ UNCHANGED <<day, match, rated, ledger, activity, chests, seasons, ladder, achieved, quests,
                 sweep, errors, crashes, overlapped>>

\* The chest is rolled and inserted, and the running season looked up.
RollChest(c) ==
  /\ At(c, "season")
  /\ \/ \E s \in active : call' = [call EXCEPT ![c].at = "standing", ![c].loot = TRUE, ![c].season = s]
     \/ /\ active = {}
        /\ call' = [call EXCEPT ![c].at = "found", ![c].loot = TRUE,
                                ![c].season = season_code(day), ![c].today = day]
  /\ UNCHANGED <<day, tables, sweep, errors, crashes, overlapped>>

\* A season of that code exists: the insert violates the unique code and
\* save_result is over, the open transaction with it.
Raises(c) == Return(c) /\ UNCHANGED <<chests, seasons, ladder>>

Found(c) == /\ At(c, "found")
            /\ IF seasons[call[c].season] # None THEN Raises(c)
               ELSE /\ seasons' = [seasons EXCEPT ![call[c].season] = NewSeason(call[c].today)]
                    /\ CommitLoot(c)
                    /\ call' = [call EXCEPT ![c].at = "standing", ![c].loot = FALSE, ![c].today = 0]
                    /\ UNCHANGED ladder
            /\ UNCHANGED <<day, match, rated, ledger, profile, activity, achieved, quests, sweep,
                           errors, crashes, overlapped>>

Standing(c) == ladder[<<call[c].season, U(c)>>]

ReadStanding(c) ==
  /\ At(c, "standing")
  /\ call' = IF Standing(c) = None THEN [call EXCEPT ![c].at = "open"]
             ELSE [call EXCEPT ![c].at = "climb", ![c].standing = Standing(c)]
  /\ UNCHANGED <<day, tables, sweep, errors, crashes, overlapped>>

\* Somebody else may have opened the standing: seen by the second look, or
\* met by the insert.
OpenStanding(c) ==
  /\ At(c, "open")
  /\ IF Standing(c) = None
     THEN /\ ladder' = [ladder EXCEPT ![<<call[c].season, U(c)>>] = {}]
          /\ CommitLoot(c)
          /\ call' = [call EXCEPT ![c].at = "climb", ![c].standing = {}, ![c].loot = FALSE]
          /\ UNCHANGED seasons
     ELSE \/ /\ call' = [call EXCEPT ![c].at = "climb", ![c].standing = Standing(c)]
             /\ UNCHANGED <<chests, seasons, ladder>>
          \/ Raises(c)
  /\ UNCHANGED <<day, match, rated, ledger, profile, activity, achieved, quests, sweep, errors,
                 crashes, overlapped>>

Climb(c) == /\ At(c, "climb")
            /\ ladder' = [ladder EXCEPT ![<<call[c].season, U(c)>>] = call[c].standing \cup {M(c)}]
            /\ CommitLoot(c)
            /\ call' = [call EXCEPT ![c].at = "achieve", ![c].loot = FALSE,
                                    ![c].season = None, ![c].standing = {}]
            /\ UNCHANGED <<day, match, rated, ledger, profile, activity, seasons, achieved, quests,
                           sweep, errors, crashes, overlapped>>

\* sync: measured against the rating row the session holds.
Reached(c) == Cardinality(call[c].rating[U(c)])

SyncAchievements(c) ==
  /\ At(c, "achieve")
  /\ achieved' = [achieved EXCEPT ![U(c)] = IF Reached(c) > @ THEN Reached(c) ELSE @]
  /\ call' = [call EXCEPT ![c] = NextPlayer(c)]
  /\ UNCHANGED <<day, match, rated, ledger, profile, activity, chests, seasons, ladder, quests,
                 sweep, errors, crashes, overlapped>>

\* track_quietly: what raises in here costs the count and nothing else.
TrackQuests(c) == /\ At(c, "quests")
                  /\ \/ quests' = quests \cup {<<U(c), M(c)>>} /\ UNCHANGED errors
                     \/ errors < MaxErrors /\ errors' = errors + 1 /\ UNCHANGED quests
                  /\ call' = [call EXCEPT ![c] = NextPlayer(c)]
                  /\ UNCHANGED <<day, match, rated, ledger, profile, activity, chests, seasons,
                                 ladder, achieved, sweep, crashes, overlapped>>

FinishRow(c) == /\ At(c, "finish")
                /\ match' = [match EXCEPT ![M(c)].result = TRUE]
                /\ Return(c)
                /\ UNCHANGED <<day, rated, ledger, profile, activity, chests, seasons, ladder,
                               achieved, quests, sweep, errors, crashes, overlapped>>

\* Mutant: a failing player is skipped and the settlement goes on.
DbFailsQuietly(c) == /\ InFlight(c) /\ ~At(c, "quests") /\ errors < MaxErrors
                     /\ errors' = errors + 1
                     /\ call' = [call EXCEPT ![c] = NextPlayer(c)]
                     /\ UNCHANGED <<day, tables, sweep, crashes, overlapped>>

\* A statement of an open transaction fails: nothing of it lands.
DbFails(c) == /\ InFlight(c) /\ ~At(c, "quests") /\ errors < MaxErrors
              /\ errors' = errors + 1
              /\ Return(c)
              /\ UNCHANGED <<day, tables, sweep, crashes, overlapped>>

Step(c) == \/ Claim(c) \/ ReadRatings(c) \/ SaveRating(c) \/ ReadProfile(c) \/ Pay(c)
           \/ RecordActivity(c) \/ SaveStreak(c) \/ RollChest(c) \/ Found(c) \/ ReadStanding(c)
           \/ OpenStanding(c) \/ Climb(c) \/ SyncAchievements(c) \/ TrackQuests(c)
           \/ FinishRow(c) \/ DbFails(c)

-----------------------------------------------------------------------------
(* Everything else.                                                         *)

\* roll_over_if_due closes what is due, or finds nothing to close.
RollOver == /\ sweep.at = "idle"
            /\ \/ \E s \in active :
                    /\ day >= seasons[s].ends
                    /\ seasons' = [seasons EXCEPT ![s].active = FALSE]
                    /\ sweep' = [at |-> "open", starts |-> seasons[s].ends]
               \/ /\ active = {}
                  /\ sweep' = [at |-> "open", starts |-> day]
                  /\ UNCHANGED seasons
            /\ UNCHANGED <<day, match, rated, ledger, profile, activity, chests, ladder, achieved,
                           quests, call, errors, crashes, overlapped>>

\* The next one, in a commit of its own; a clash of codes fails this sweep.
OpenSeason == /\ sweep.at = "open"
              /\ LET code == season_code(sweep.starts)
                 IN seasons' = IF seasons[code] = None
                               THEN [seasons EXCEPT ![code] = NewSeason(sweep.starts)]
                               ELSE seasons
              /\ sweep' = [at |-> "idle", starts |-> 0]
              /\ UNCHANGED <<day, match, rated, ledger, profile, activity, chests, ladder, achieved,
                             quests, call, errors, crashes, overlapped>>

NextDay == /\ day < Days
           /\ day' = day + 1
           /\ UNCHANGED <<tables, call, sweep, errors, crashes, overlapped>>

\* The process dies and starts again: matches still running are abandoned,
\* and nobody is left to settle them.
Crash == /\ crashes < MaxCrashes
         /\ crashes' = crashes + 1
         /\ call' = [c \in Calls |-> [Idle EXCEPT !.at = "over"]]
         /\ sweep' = [at |-> "idle", starts |-> 0]
         /\ match' = [m \in Matches |-> IF match[m].status = "IN_PROGRESS"
                                        THEN [match[m] EXCEPT !.status = "ABANDONED"] ELSE match[m]]
         /\ UNCHANGED <<day, rated, ledger, profile, activity, chests, seasons, ladder, achieved,
                        quests, errors, overlapped>>

Next == (\E c \in Calls : Step(c)) \/ RollOver \/ OpenSeason \/ NextDay \/ Crash

Spec == Init /\ [][Next]_vars

-----------------------------------------------------------------------------
(* Properties.                                                              *)

\* Whatever a crash, a failed statement or a clash over seasons cuts off, what
\* has been committed of a settlement is a beginning of it: the chest after the
\* gold, player two after player one, quests and the result after both.
SettledInOrder ==
  \A m \in Matches :
    LET one == <<Seats[m][1], m>>
        two == <<Seats[m][2], m>>
    IN /\ two \in ledger => one \in chests
       /\ \A e \in {one, two} : e \in chests => e \in ledger
       /\ {one, two} \cap quests # {} \/ match[m].result => {one, two} \subseteq chests
       /\ match[m].status # "FINISHED" => one \notin ledger /\ m \notin rated[one[1]]

\* What is counted is what was played.  A rating, a balance or a standing loses a
\* settled match only when another settlement of one of its players ran beside it:
\* every other write starts from what is stored.  The streak of a player whose
\* settlements never ran beside one another claims no day without activity, though the
\* two are separate commits and settlements straddle midnight, and an achievement for
\* n matches belongs to somebody with n matches settled.
CountsAreTrue ==
  /\ \A m \in Matches \ overlapped : \A u \in Players(m) :
       /\ <<u, m>> \in ledger => m \in profile[u].paid /\ m \in rated[u]
       /\ match[m].result => \E s \in Months : ladder[<<s, u>>] # None /\ m \in ladder[<<s, u>>]
  /\ \A u \in Users :
       /\ (\A m \in overlapped : u \notin Players(m)) =>
            \A k \in 0..(profile[u].streak - 1) : profile[u].last - k \in activity[u]
       /\ achieved[u] <= Cardinality({m \in Matches : match[m].status = "FINISHED"
                                                        /\ u \in Players(m)})
=============================================================================
