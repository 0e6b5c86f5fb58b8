-------------------------- MODULE SettlementProofs --------------------------
(***************************************************************************)
(* Theorems about the settlement of duo matches, for any number of users,  *)
(* matches and calls, any calendar, failures and crashes anywhere.         *)
(*                                                                         *)
(* Order says how far a call is and what of its match the tables hold by   *)
(* then: a step adds what comes next, so whatever cuts a call off leaves a *)
(* beginning.  Counts says what a session holds: it is what is stored, as  *)
(* far as the matches go that no other settlement of their players ran     *)
(* beside, because a write to a player somebody else is settling is about  *)
(* a match that raced.                                                     *)
(***************************************************************************)
EXTENDS Settlement, FiniteSetTheorems, TLAPS

USE SettlementAssumption

\* The rows of either player about a match.
One(m) == <<Seats[m][1], m>>
Two(m) == <<Seats[m][2], m>>

\* Where a call is: rating, before the player's gold, after it, counting quests.
First  == {"ratings", "ratingTwo", "rateOne", "rateTwo"}
Owed   == First \cup {"profile", "pay"}
Paying == {"refresh", "activity", "streak", "season", "found", "standing", "open", "climb", "achieve"}
Last   == {"quests", "finish"}
Dated  == {"found", "standing", "open", "climb"}

\* No two calls settle one match.
Alone == \A c, d \in Calls : InFlight(c) /\ InFlight(d) /\ M(c) = M(d) => c = d

\* How far a call is, and what of its match is in the tables by then.
Here(c) ==
  /\ InFlight(c) => match[M(c)].status = "FINISHED"
  /\ call[c].at \in First \cup {"new"} => call[c].who = 1
  /\ call[c].at \in Last => {One(M(c)), Two(M(c))} \subseteq chests
  /\ call[c].at \in Owed => <<U(c), M(c)>> \notin ledger
  /\ call[c].at \in Paying => <<U(c), M(c)>> \in ledger
  /\ call[c].at \in Owed \cup Paying =>
       /\ call[c].who = 1 => Two(M(c)) \notin ledger
       /\ call[c].who = 2 => One(M(c)) \in chests
  /\ call[c].at \in Dated => call[c].season \in Months
  /\ call[c].at \in Dated => call[c].loot \/ <<U(c), M(c)>> \in chests
  /\ call[c].at = "achieve" => <<U(c), M(c)>> \in chests
  /\ call[c].loot => call[c].at \in Dated

\* Everything counted was settled, by whoever it is counted for.
Played(u) == {m \in Matches : match[m].status = "FINISHED" /\ u \in Players(m)}
RatedPlayed == \A u \in Users : /\ rated[u] \subseteq Played(u)
                                /\ \A c \in Calls : call[c].rating[u] \subseteq Played(u)

\* The settlements are in order.
Order == Alone /\ (\A c \in Calls : Here(c)) /\ RatedPlayed /\ SettledInOrder

(* Who plays a match, and what a call is made of.                            *)
LEMMA Seating ==
  ASSUME TypeOK, NEW c \in Calls
  PROVE  /\ M(c) \in Matches /\ U(c) \in Users /\ U(c) \in Players(M(c))
         /\ \A i \in 1..2 : Seats[M(c)][i] \in Players(M(c))
         /\ Players(M(c)) \subseteq Users
         /\ call[c].at \in {"new", "over"} \cup Settling
         /\ call[c].who \in 1..2
         /\ call[c].rating \in [Users -> SUBSET Matches]
         /\ call[c].profile \in Profile
         /\ call[c].today \in Calendar
         /\ call[c].season \in Months \cup {None}
         /\ call[c].standing \in SUBSET Matches
         /\ call[c].loot \in BOOLEAN
         /\ call[c] \in Call
<1>1. call[c] \in Call
  BY DEF TypeOK
<1>2. M(c) \in Matches
  BY DEF M
<1>3. /\ Seats[M(c)] \in Users \X Users /\ Seats[M(c)][1] \in Users /\ Seats[M(c)][2] \in Users
  BY <1>2
<1>4. call[c].who \in 1..2
  BY <1>1 DEF Call
<1>5. call[c].who = 1 \/ call[c].who = 2
  BY <1>4
<1>6. U(c) \in Users /\ U(c) \in Players(M(c))
  BY <1>3, <1>5 DEF U, Players
<1>7. /\ \A i \in 1..2 : Seats[M(c)][i] \in Players(M(c))
      /\ Players(M(c)) \subseteq Users
  BY <1>3 DEF Players
<1> QED BY <1>1, <1>2, <1>4, <1>6, <1>7 DEF Call

(* An idle call has its type.                                                *)
LEMMA IdleCall ==
  /\ NoProfile \in Profile /\ Idle \in Call
  /\ Idle.who = 1 /\ Idle.loot = FALSE /\ Idle.rating = [u \in Users |-> {}]
<1>1. NoProfile \in Profile /\ 0 \in Calendar
  BY DEF NoProfile, Profile, Calendar
<1> QED BY <1>1 DEF Idle, Call

(* Going on to the next player leaves a call.                                *)
LEMMA NextPlayerCall ==
  ASSUME TypeOK, NEW c \in Calls
  PROVE  NextPlayer(c) \in Call
<1>1. call[c] \in Call
  BY Seating
<1>2. CASE call[c].who = 1
  <2>1. NextPlayer(c) = [call[c] EXCEPT !.who = 2, !.at = IF @ = "quests" THEN @ ELSE "profile"]
    BY <1>2 DEF NextPlayer
  <2>2. [call[c] EXCEPT !.who = 2] \in Call
    BY <1>1 DEF Call
  <2>3. CASE call[c].at = "quests"
    <3>1. NextPlayer(c) = [[call[c] EXCEPT !.who = 2] EXCEPT !.at = "quests"]
      BY <1>1, <2>1, <2>3 DEF Call
    <3> QED BY <2>2, <3>1 DEF Call, Settling
  <2>4. CASE call[c].at # "quests"
    <3>1. NextPlayer(c) = [[call[c] EXCEPT !.who = 2] EXCEPT !.at = "profile"]
      BY <1>1, <2>1, <2>4 DEF Call
    <3> QED BY <2>2, <3>1 DEF Call, Settling
  <2> QED BY <2>3, <2>4
<1>3. CASE call[c].who # 1
  <2>1. NextPlayer(c) \in {[Idle EXCEPT !.at = "quests"], [Idle EXCEPT !.at = "finish"]}
    BY <1>3 DEF NextPlayer
  <2> QED BY <2>1, IdleCall DEF Call, Settling
<1> QED BY <1>2, <1>3

(* A step leaves every call in its type.                                     *)
LEMMA CallsTyped ==
  ASSUME TypeOK, NEW c \in Calls, Here(c), Step(c)
  PROVE  call' \in [Calls -> Call]
<1>1. call \in [Calls -> Call] /\ call[c] \in Call
  BY DEF TypeOK
<1>2. Idle \in Call /\ NoProfile \in Profile /\ NextPlayer(c) \in Call
  BY IdleCall, NextPlayerCall
<1>3. /\ M(c) \in Matches /\ U(c) \in Users /\ day \in Calendar
      /\ rated \in [Users -> SUBSET Matches]
      /\ profile \in [Users -> Profile]
      /\ ladder \in [Months \X Users -> (SUBSET Matches) \cup {None}]
  BY Seating DEF TypeOK
<1>4. [Idle EXCEPT !.at = "over"] \in Call
  BY <1>2 DEF Call
<1>5. ASSUME Return(c) PROVE call' \in [Calls -> Call]
  BY <1>1, <1>4, <1>5 DEF Return
<1>6. ASSUME NEW p \in Settling, GoTo(c, p) PROVE call' \in [Calls -> Call]
  BY <1>1, <1>6 DEF GoTo, Call
<1>7. ASSUME call[c].at \in {"standing", "open", "climb"}, Standing(c) # None
      PROVE  Standing(c) \in SUBSET Matches
  <2>1. call[c].at \in Dated => call[c].season \in Months
    BY DEF Here
  <2>2. call[c].season \in Months => Standing(c) \in (SUBSET Matches) \cup {None}
    BY <1>3 DEF Standing
  <2>3. call[c].season \in Months
    BY <1>7, <2>1 DEF Dated
  <2> QED BY <1>7, <2>2, <2>3
<1>8. 0 \in Calendar
  BY DEF Calendar
<1>11. CASE Claim(c)
  BY <1>5, <1>6, <1>11 DEF Claim, Settling
<1>12. CASE ReadRatings(c)
  <2> DEFINE i == IF At(c, "ratings") THEN 1 ELSE 2
             x == [call[c] EXCEPT !.rating[Seats[M(c)][i]] = rated[Seats[M(c)][i]]]
             p == IF i = 1 THEN "ratingTwo" ELSE "rateOne"
  <2>1. /\ Seats[M(c)][i] \in Users /\ i \in 1..2 /\ p \in Settling
    BY Seating DEF Settling
  <2>2. call[c].rating \in [Users -> SUBSET Matches]
    BY <1>1 DEF Call
  <2>3. rated[Seats[M(c)][i]] \in SUBSET Matches
    BY <1>3, <2>1
  <2>4. x \in Call
    BY <1>1, <2>1, <2>2, <2>3 DEF Call
  <2>5. [x EXCEPT !.at = p] \in Call
    BY <2>1, <2>4 DEF Call
  <2>6. call' = [call EXCEPT ![c] = [x EXCEPT !.at = p]]
    BY <1>1, <1>12 DEF ReadRatings, Call
  <2> QED BY <1>1, <2>5, <2>6
<1>13. CASE SaveRating(c)
  <2> DEFINE i == IF At(c, "rateOne") THEN 1 ELSE 2
             x == [call[c] EXCEPT !.rating[Seats[M(c)][i]] = Rated(c, i)]
             p == IF i = 1 THEN "rateTwo" ELSE "profile"
  <2>1. /\ Seats[M(c)][i] \in Users /\ i \in 1..2 /\ p \in Settling
    BY Seating DEF Settling
  <2>2. call[c].rating \in [Users -> SUBSET Matches]
    BY <1>1 DEF Call
  <2>3. Rated(c, i) \in SUBSET Matches
    BY <1>3, <2>1, <2>2 DEF Rated
  <2>4. x \in Call
    BY <1>1, <2>1, <2>2, <2>3 DEF Call
  <2>5. [x EXCEPT !.at = p] \in Call
    BY <2>1, <2>4 DEF Call
  <2>6. [x EXCEPT !.at = p] = [call[c] EXCEPT !.at = p, !.rating[Seats[M(c)][i]] = Rated(c, i)]
    BY <1>1 DEF Call
  <2>7. call' = [call EXCEPT ![c] = [call[c] EXCEPT !.at = p, !.rating[Seats[M(c)][i]] = Rated(c, i)]]
    BY <1>13 DEF SaveRating
  <2> HIDE DEF x, p
  <2> QED BY <1>1, <2>5, <2>6, <2>7
<1>14. CASE ReadProfile(c)
  <2> DEFINE p == IF At(c, "profile") THEN "pay" ELSE "activity"
             x == [call[c] EXCEPT !.at = p, !.profile = profile[U(c)]]
  <2>1. p \in Settling
    BY DEF Settling
  <2> HIDE DEF p
  <2>2. x \in Call
    BY <1>1, <1>3, <2>1 DEF Call
  <2>3. call' = [call EXCEPT ![c] = x]
    BY <1>14 DEF ReadProfile, p
  <2> HIDE DEF x
  <2> QED BY <1>1, <2>2, <2>3
<1>15. CASE Pay(c)
  <2>1. CASE <<U(c), M(c)>> \in ledger
    BY <1>1, <1>2, <1>15, <2>1 DEF Pay
  <2>2. CASE <<U(c), M(c)>> \notin ledger
    <3>1. call' = [call EXCEPT ![c].at = "refresh", ![c].profile = NoProfile]
      BY <1>15, <2>2 DEF Pay
    <3> QED BY <1>1, <1>2, <3>1 DEF Call, Settling
  <2> QED BY <2>1, <2>2
<1>16. CASE RecordActivity(c)
  BY <1>1, <1>2, <1>3, <1>16 DEF Call, Settling, RecordActivity
<1>17. CASE SaveStreak(c)
  <2>1. call' = [call EXCEPT ![c].at = "season", ![c].profile = NoProfile, ![c].today = 0]
    BY <1>17 DEF SaveStreak
  <2> QED BY <1>1, <1>2, <1>8, <2>1 DEF Call, Settling
<1>18. CASE RollChest(c)
  <2>1. CASE active = {}
    <3>1. call' = [call EXCEPT ![c].at = "found", ![c].loot = TRUE, ![c].season = MonthOf[day], ![c].today = day]
      BY <1>18, <2>1 DEF RollChest, season_code
    <3>2. MonthOf[day] \in Months
      BY <1>3 DEF Months
    <3> QED BY <1>1, <1>3, <3>1, <3>2 DEF Call, Settling
  <2>2. ASSUME NEW s \in active, call' = [call EXCEPT ![c].at = "standing", ![c].loot = TRUE, ![c].season = s]
        PROVE  call' \in [Calls -> Call]
    <3>1. s \in Months
      BY <2>2 DEF active
    <3> QED BY <1>1, <2>2, <3>1 DEF Call, Settling
  <2> QED BY <1>18, <2>1, <2>2 DEF RollChest
<1>19. CASE Found(c)
  <2>1. CASE Raises(c)
    BY <1>5, <2>1 DEF Raises
  <2>2. CASE call' = [call EXCEPT ![c].at = "standing", ![c].loot = FALSE, ![c].today = 0]
    BY <1>1, <1>8, <2>2 DEF Call, Settling
  <2> QED BY <1>19, <2>1, <2>2 DEF Found
<1>20. CASE ReadStanding(c)
  <2>1. CASE call' = [call EXCEPT ![c].at = "open"]
    BY <1>1, <2>1 DEF Call, Settling
  <2>2. CASE Standing(c) # None /\ call' = [call EXCEPT ![c].at = "climb", ![c].standing = Standing(c)]
    <3>1. Standing(c) \in SUBSET Matches
      BY <1>7, <1>20, <2>2 DEF ReadStanding, At
    <3> QED BY <1>1, <2>2, <3>1 DEF Call, Settling
  <2> QED BY <1>20, <2>1, <2>2 DEF ReadStanding
<1>21. CASE OpenStanding(c)
  <2>1. CASE Raises(c)
    BY <1>5, <2>1 DEF Raises
  <2>2. CASE Standing(c) # None /\ call' = [call EXCEPT ![c].at = "climb", ![c].standing = Standing(c)]
    <3>1. Standing(c) \in SUBSET Matches
      BY <1>7, <1>21, <2>2 DEF OpenStanding, At
    <3> QED BY <1>1, <2>2, <3>1 DEF Call, Settling
  <2>3. CASE call' = [call EXCEPT ![c].at = "climb", ![c].standing = {}, ![c].loot = FALSE]
    BY <1>1, <2>3 DEF Call, Settling
  <2> QED BY <1>21, <2>1, <2>2, <2>3 DEF OpenStanding
<1>22. CASE Climb(c)
  BY <1>1, <1>2, <1>3, <1>22 DEF Call, Settling, Climb
<1>23. CASE SyncAchievements(c)
  BY <1>1, <1>2, <1>3, <1>23 DEF Call, Settling, SyncAchievements
<1>24. CASE TrackQuests(c)
  BY <1>1, <1>2, <1>3, <1>24 DEF Call, Settling, TrackQuests
<1>25. CASE FinishRow(c)
  BY <1>5, <1>25 DEF FinishRow
<1>26. CASE DbFails(c)
  BY <1>5, <1>26 DEF DbFails
<1> QED BY <1>11, <1>12, <1>13, <1>14, <1>15, <1>16, <1>17, <1>18, <1>19, <1>20, <1>21, <1>22,
           <1>23, <1>24, <1>25, <1>26 DEF Step

(* A step of one call leaves the others where they are, and adds to the      *)
(* tables only what is its own player's in its own match.                    *)
LEMMA Effects ==
  ASSUME TypeOK, NEW c \in Calls, Step(c)
  PROVE  /\ \A d \in Calls \ {c} : call'[d] = call[d]
         /\ ledger' \in {ledger, ledger \cup {<<U(c), M(c)>>}}
         /\ chests' \in {chests, chests \cup {<<U(c), M(c)>>}}
         /\ quests' \in {quests, quests \cup {<<U(c), M(c)>>}}
         /\ ledger' # ledger => call[c].at = "pay"
         /\ chests' # chests => call[c].loot
         /\ quests' # quests => call[c].at = "quests"
         /\ sweep' = sweep /\ day' = day
<1>1. call \in [Calls -> Call]
  BY DEF TypeOK
<1>11. CASE Claim(c)
  BY <1>1, <1>11 DEF tables, Claim, GoTo, Return
<1>12. CASE ReadRatings(c)
  BY <1>1, <1>12 DEF tables, ReadRatings
<1>13. CASE SaveRating(c)
  BY <1>1, <1>13 DEF tables, SaveRating
<1>14. CASE ReadProfile(c)
  BY <1>1, <1>14 DEF tables, ReadProfile
<1>15. CASE Pay(c)
  BY <1>1, <1>15 DEF tables, At, Pay
<1>16. CASE RecordActivity(c)
  BY <1>1, <1>16 DEF tables, RecordActivity
<1>17. CASE SaveStreak(c)
  BY <1>1, <1>17 DEF tables, SaveStreak
<1>18. CASE RollChest(c)
  BY <1>1, <1>18 DEF tables, RollChest
<1>19. CASE Found(c)
  BY <1>1, <1>19 DEF tables, Found, Raises, Return, CommitLoot
<1>20. CASE ReadStanding(c)
  BY <1>1, <1>20 DEF tables, ReadStanding
<1>21. CASE OpenStanding(c)
  BY <1>1, <1>21 DEF tables, OpenStanding, Raises, Return, CommitLoot
<1>22. CASE Climb(c)
  BY <1>1, <1>22 DEF tables, Climb, CommitLoot
<1>23. CASE SyncAchievements(c)
  BY <1>1, <1>23 DEF tables, SyncAchievements
<1>24. CASE TrackQuests(c)
  BY <1>1, <1>24 DEF tables, At, TrackQuests
<1>25. CASE FinishRow(c)
  BY <1>1, <1>25 DEF tables, FinishRow, Return
<1>26. CASE DbFails(c)
  BY <1>1, <1>26 DEF tables, DbFails, Return
<1> QED BY <1>11, <1>12, <1>13, <1>14, <1>15, <1>16, <1>17, <1>18, <1>19, <1>20, <1>21, <1>22,
           <1>23, <1>24, <1>25, <1>26 DEF Step

(* A match once finished stays so, and only the call that finishes it takes  *)
(* off with it.                                                              *)
LEMMA Starting ==
  ASSUME TypeOK, NEW c \in Calls, Step(c)
  PROVE  \/ InFlight(c) /\ match' = match
         \/ InFlight(c) /\ At(c, "finish") /\ call'[c] = [Idle EXCEPT !.at = "over"]
              /\ match' = [match EXCEPT ![M(c)].result = TRUE]
         \/ /\ At(c, "new") /\ ledger' = ledger /\ chests' = chests /\ quests' = quests /\ rated' = rated
            /\ \/ match' = match /\ call'[c] = [Idle EXCEPT !.at = "over"]
               \/ /\ match' = [match EXCEPT ![M(c)].status = "FINISHED"]
                  /\ match[M(c)].status = "IN_PROGRESS"
                  /\ call'[c] = [call[c] EXCEPT !.at = "ratings"]
<1>1. call \in [Calls -> Call]
  BY DEF TypeOK
<1>2. (InFlight(c) /\ match' = match) \/ Claim(c) \/ FinishRow(c)
  BY DEF Step, InFlight, Settling, At, tables, ReadRatings, SaveRating, ReadProfile, Pay,
     RecordActivity,
         SaveStreak, RollChest, Found, ReadStanding, OpenStanding, Climb, SyncAchievements,
         TrackQuests,
         DbFails
<1>3. CASE Claim(c)
  BY <1>1, <1>3 DEF Claim, Return, GoTo
<1>4. CASE FinishRow(c)
  BY <1>1, <1>4 DEF FinishRow, Return, InFlight, Settling, At
<1> QED BY <1>2, <1>3, <1>4

(* Only a claim finishes a match, only the last step gives it a result.      *)
LEMMA Finishing ==
  ASSUME TypeOK, NEW c \in Calls, Step(c)
  PROVE  /\ match' \in [Matches -> [status : Status, result : BOOLEAN]]
         /\ \A m \in Matches : match[m].status = "FINISHED" => match'[m].status = "FINISHED"
         /\ \A m \in Matches : match'[m].status = "FINISHED" =>
              \/ match[m].status = "FINISHED"
              \/ At(c, "new") /\ m = M(c) /\ match[m].status = "IN_PROGRESS"
         /\ \A m \in Matches : match'[m].result =>
              match[m].result \/ (At(c, "finish") /\ m = M(c))
<1>1. match \in [Matches -> [status : Status, result : BOOLEAN]] /\ M(c) \in Matches
  BY Seating DEF TypeOK
<1>2. "FINISHED" \in Status
  BY DEF Status
<1>3. CASE match' = match
  BY <1>1, <1>3
<1>4. CASE match' = [match EXCEPT ![M(c)].result = TRUE] /\ At(c, "finish")
  BY <1>1, <1>4
<1>5. CASE match' = [match EXCEPT ![M(c)].status = "FINISHED"] /\ At(c, "new")
             /\ match[M(c)].status = "IN_PROGRESS"
  BY <1>1, <1>2, <1>5
<1> QED BY <1>3, <1>4, <1>5, Starting

(* A call in flight is alone on its match: the row was still in progress     *)
(* when it came.                                                             *)
LEMMA AloneKept ==
  ASSUME TypeOK, Order, NEW c \in Calls, Step(c)
  PROVE  Alone'
<1>1. /\ \A d \in Calls : InFlight(d) => match[M(d)].status = "FINISHED"
      /\ \A d, e \in Calls : InFlight(d) /\ InFlight(e) /\ M(d) = M(e) => d = e
  BY DEF Order, Alone, Here
<1>2. \A d \in Calls \ {c} : InFlight(d)' <=> InFlight(d)
  BY Effects DEF InFlight
<1>3. InFlight(c)' => InFlight(c) \/ match[M(c)].status = "IN_PROGRESS"
  <2>1. ~[Idle EXCEPT !.at = "over"].at \in Settling
    BY IdleCall DEF Call, Settling
  <2> QED BY Starting, <2>1 DEF InFlight
<1>4. SUFFICES ASSUME NEW d \in Calls, NEW e \in Calls, d # e, InFlight(d)', InFlight(e)', M(d) = M(e)
               PROVE  FALSE
  BY DEF Alone, M
<1>5. CASE d # c /\ e # c
  BY <1>1, <1>2, <1>4, <1>5
<1>6. CASE d = c
  BY <1>1, <1>2, <1>3, <1>4, <1>6
<1>7. CASE e = c
  BY <1>1, <1>2, <1>3, <1>4, <1>7
<1> QED BY <1>5, <1>6, <1>7

(* What one call does is not seen by the others, who are about other matches.*)
LEMMA OthersKept ==
  ASSUME TypeOK, Order, NEW c \in Calls, Step(c), NEW d \in Calls, d # c
  PROVE  Here(d)'
<1>1. call'[d] = call[d] /\ Here(d) /\ M(d) \in Matches
  BY Effects, Seating DEF Order
<1>2. /\ ledger' \in {ledger, ledger \cup {<<U(c), M(c)>>}}
      /\ chests \subseteq chests'
  BY Effects
<1>3. InFlight(d) /\ ~UNCHANGED ledger => M(d) # M(c)
  BY Starting, <1>1 DEF Order, Alone
<1>4. InFlight(d) => \A u : <<u, M(d)>> \in ledger' <=> <<u, M(d)>> \in ledger
  BY <1>2, <1>3
<1>5. InFlight(d) => match'[M(d)].status = "FINISHED"
  BY <1>1, Finishing DEF Here
<1>6. /\ M(d)' = M(d) /\ U(d)' = U(d) /\ One(M(d))' = One(M(d)) /\ Two(M(d))' = Two(M(d)) /\ Months' = Months
  BY <1>1 DEF M, U, One, Two, Months
<1>7. InFlight(d)' = InFlight(d)
  BY <1>1 DEF InFlight
<1> QED
  BY <1>1, <1>2, <1>4, <1>5, <1>6, <1>7 DEF Here, One, Two, InFlight, Settling, Owed, First, Paying,
     Last

(* The call itself goes on as far as its step takes it.                      *)
LEMMA OwnKept ==
  ASSUME TypeOK, Order, NEW c \in Calls, Step(c)
  PROVE  Here(c)'
<1>1. /\ call \in [Calls -> Call] /\ call[c] \in Call /\ Idle \in Call
      /\ call[c].at \in {"new", "over"} \cup Settling /\ call[c].who \in 1..2 /\ call[c].loot \in BOOLEAN
      /\ M(c) \in Matches /\ M(c)' = M(c)
  BY Seating, IdleCall DEF TypeOK, M
<1>2. Here(c) /\ SettledInOrder
  BY DEF Order
<1>3. call'[c] \in Call /\ call'[c].who \in 1..2
  <2>1. call' \in [Calls -> Call]
    BY CallsTyped, <1>2
  <2> QED BY <2>1 DEF Call
<1>4. /\ U(c) = IF call[c].who = 1 THEN Seats[M(c)][1] ELSE Seats[M(c)][2]
      /\ U(c)' = IF call'[c].who = 1 THEN Seats[M(c)][1] ELSE Seats[M(c)][2]
  BY <1>1, <1>3 DEF U
<1>5. call[c].who = 1 => One(M(c)) = <<U(c), M(c)>>
  BY <1>4 DEF One
<1>6. call[c].who = 2 => Two(M(c)) = <<U(c), M(c)>>
  BY <1>4 DEF Two
<1>7. One(M(c)) # Two(M(c)) /\ One(M(c))' = One(M(c)) /\ Two(M(c))' = Two(M(c)) /\ Months' = Months
  BY <1>1 DEF One, Two, Months
<1>8. /\ call'[c].who = 1 => One(M(c)) = <<U(c)', M(c)>>
      /\ call'[c].who = 2 => Two(M(c)) = <<U(c)', M(c)>>
  BY <1>4 DEF One, Two
<1>9. InFlight(c) => match'[M(c)].status = "FINISHED"
  BY Finishing, <1>1, <1>2 DEF Here
<1> HIDE DEF One, Two
<1>10. ASSUME Return(c) PROVE Here(c)'
  <2>1. call'[c] = [Idle EXCEPT !.at = "over"]
    BY <1>1, <1>10 DEF Return
  <2>2. call'[c].at = "over" /\ call'[c].loot = FALSE
    BY <1>1, <2>1, IdleCall DEF Call
  <2> QED BY <2>2 DEF Here, Settling, InFlight, Owed, First, Paying, Last, Dated
<1>11. CASE Claim(c)
  <2>1. CASE match[M(c)].status = "IN_PROGRESS"
    <3>1. /\ call' = [call EXCEPT ![c].at = "ratings"] /\ call[c].at = "new"
          /\ match' = [match EXCEPT ![M(c)].status = "FINISHED"]
          /\ ledger' = ledger /\ chests' = chests
      BY <1>11, <2>1 DEF Claim, GoTo, At
    <3>2. call'[c] = [call[c] EXCEPT !.at = "ratings"]
      BY <1>1, <3>1
    <3>3. call'[c].at = "ratings" /\ call'[c].who = call[c].who /\ call'[c].loot = call[c].loot
      BY <1>1, <3>2 DEF Call
    <3>4. call[c].who = 1 /\ call[c].loot = FALSE
      BY <1>1, <1>2, <3>1 DEF Here, Dated
    <3>5. One(M(c)) \notin ledger /\ Two(M(c)) \notin ledger
      BY <1>1, <1>2, <2>1 DEF SettledInOrder, One, Two
    <3>6. match'[M(c)].status = "FINISHED"
      BY <1>1, <3>1 DEF TypeOK
    <3> QED BY <1>1, <1>7, <1>8, <3>1, <3>3, <3>4, <3>5, <3>6 DEF Here, Settling, InFlight, Owed,
               First, Paying, Last, Dated
  <2>2. CASE match[M(c)].status # "IN_PROGRESS"
    BY <1>10, <1>11, <2>2 DEF Claim
  <2> QED BY <2>1, <2>2
<1>12. CASE ReadRatings(c)
  BY <1>1, <1>2, <1>4, <1>5, <1>6, <1>7, <1>8, <1>9, <1>12 DEF tables, At, Here, Settling, InFlight,
     Owed, First, Paying, Last, Dated, ReadRatings
<1>13. CASE SaveRating(c)
  BY <1>1, <1>2, <1>4, <1>5, <1>6, <1>7, <1>8, <1>9, <1>13 DEF tables, At, Here, Settling, InFlight,
     Owed, First, Paying, Last, Dated, SaveRating
<1>14. CASE ReadProfile(c)
  BY <1>1, <1>2, <1>4, <1>5, <1>6, <1>7, <1>8, <1>9, <1>14 DEF tables, At, Here, Settling, InFlight,
     Owed, First, Paying, Last, Dated, ReadProfile
<1>15. CASE Pay(c)
  <2>1. At(c, "pay") /\ <<U(c), M(c)>> \notin ledger
    BY <1>2, <1>15 DEF Pay, Here, At, Owed
  <2>2. /\ call' = [call EXCEPT ![c].at = "refresh", ![c].profile = NoProfile]
        /\ ledger' = ledger \cup {<<U(c), M(c)>>} /\ chests' = chests
    BY <1>15, <2>1 DEF Pay
  <2>3. call'[c].at = "refresh" /\ call'[c].who = call[c].who /\ call'[c].loot = call[c].loot
    BY <1>1, <2>2 DEF Call
  <2> QED BY <1>1, <1>2, <1>4, <1>5, <1>6, <1>7, <1>8, <1>9, <2>1, <2>2, <2>3 DEF At, Here,
             Settling, InFlight, Owed, First, Paying, Last, Dated
<1>16. CASE RecordActivity(c)
  BY <1>1, <1>2, <1>4, <1>5, <1>6, <1>7, <1>8, <1>9, <1>16 DEF tables, At, Here, Settling, InFlight,
     Owed, First, Paying, Last, Dated, RecordActivity
<1>17. CASE SaveStreak(c)
  BY <1>1, <1>2, <1>4, <1>5, <1>6, <1>7, <1>8, <1>9, <1>17 DEF tables, At, Here, Settling, InFlight,
     Owed, First, Paying, Last, Dated, SaveStreak
<1>18. CASE RollChest(c)
  <2>1. day \in Calendar
    BY DEF TypeOK
  <2>2. \E p \in {"standing", "found"}, s \in Months :
          call'[c].at = p /\ call'[c].who = call[c].who /\ call'[c].loot = TRUE /\ call'[c].season = s
    <3>1. CASE active = {}
      <4>1. call' = [call EXCEPT ![c].at = "found", ![c].loot = TRUE, ![c].season = MonthOf[day], ![c].today = day]
        BY <1>18, <3>1 DEF RollChest, season_code
      <4>2. MonthOf[day] \in Months
        BY <2>1 DEF Months
      <4> QED BY <1>1, <4>1, <4>2 DEF Call
    <3>2. ASSUME NEW s \in active, call' = [call EXCEPT ![c].at = "standing", ![c].loot = TRUE, ![c].season = s]
          PROVE  call'[c].at = "standing" /\ call'[c].who = call[c].who /\ call'[c].loot = TRUE /\ call'[c].season = s
                   /\ s \in Months
      BY <1>1, <3>2 DEF Call, active
    <3> QED BY <1>18, <3>1, <3>2 DEF RollChest
  <2>3. At(c, "season") /\ ledger' = ledger /\ chests' = chests
    BY <1>18 DEF RollChest, tables
  <2> QED BY <1>1, <1>2, <1>4, <1>5, <1>6, <1>7, <1>8, <1>9, <2>2, <2>3 DEF At, Here, Settling,
             InFlight, Owed, First, Paying, Last, Dated
<1>19. CASE Found(c)
  <2>1. CASE Raises(c)
    BY <1>10, <2>1 DEF Raises
  <2>2. CASE call' = [call EXCEPT ![c].at = "standing", ![c].loot = FALSE, ![c].today = 0]
    <3>1. /\ call'[c].at = "standing" /\ call'[c].who = call[c].who /\ call'[c].loot = FALSE
          /\ call'[c].season = call[c].season
      BY <1>1, <2>2 DEF Call
    <3>2. chests' = IF call[c].loot THEN chests \cup {<<U(c), M(c)>>} ELSE chests
      BY <1>1, <1>19, <2>2, <3>1, IdleCall DEF Found, CommitLoot, Raises, Return, Call
    <3>3. At(c, "found") /\ ledger' = ledger
      BY <1>19 DEF Found
    <3> QED BY <1>1, <1>2, <1>4, <1>5, <1>6, <1>7, <1>8, <1>9, <3>1, <3>2, <3>3 DEF At, Here,
               Settling, InFlight, Owed, First, Paying, Last, Dated
  <2> QED BY <1>19, <2>1, <2>2 DEF Found
<1>20. CASE ReadStanding(c)
  BY <1>1, <1>2, <1>4, <1>5, <1>6, <1>7, <1>8, <1>9, <1>20 DEF tables, At, Here, Settling, InFlight,
     Owed, First, Paying, Last, Dated, ReadStanding
<1>21. CASE OpenStanding(c)
  <2>1. CASE Raises(c)
    BY <1>10, <2>1 DEF Raises
  <2>2. CASE call' = [call EXCEPT ![c].at = "climb", ![c].standing = {}, ![c].loot = FALSE]
    <3>1. /\ call'[c].at = "climb" /\ call'[c].who = call[c].who /\ call'[c].loot = FALSE
          /\ call'[c].season = call[c].season
      BY <1>1, <2>2 DEF Call
    <3>2. chests' = IF call[c].loot THEN chests \cup {<<U(c), M(c)>>} ELSE chests
      BY <1>1, <1>21, <2>2, <3>1, IdleCall DEF OpenStanding, CommitLoot, Raises, Return, Call
    <3>3. At(c, "open") /\ ledger' = ledger
      BY <1>21 DEF OpenStanding
    <3> QED BY <1>1, <1>2, <1>4, <1>5, <1>6, <1>7, <1>8, <1>9, <3>1, <3>2, <3>3 DEF At, Here,
               Settling, InFlight, Owed, First, Paying, Last, Dated
  <2>3. CASE call' = [call EXCEPT ![c].at = "climb", ![c].standing = Standing(c)] /\ chests' = chests
    <3>1. /\ call'[c].at = "climb" /\ call'[c].who = call[c].who /\ call'[c].loot = call[c].loot
          /\ call'[c].season = call[c].season
      BY <1>1, <2>3 DEF Call
    <3>3. At(c, "open") /\ ledger' = ledger
      BY <1>21 DEF OpenStanding
    <3> QED BY <1>1, <1>2, <1>4, <1>5, <1>6, <1>7, <1>8, <1>9, <2>3, <3>1, <3>3 DEF At, Here,
               Settling, InFlight, Owed, First, Paying, Last, Dated
  <2> QED BY <1>21, <2>1, <2>2, <2>3 DEF OpenStanding
<1>22. CASE Climb(c)
  BY <1>1, <1>2, <1>4, <1>5, <1>6, <1>7, <1>8, <1>9, <1>22 DEF tables, At, Here, Settling, InFlight,
     Owed, First, Paying, Last, Dated, Climb, CommitLoot
<1>23. CASE SyncAchievements(c)
  <2>1. /\ At(c, "achieve") /\ ledger' = ledger /\ chests' = chests /\ call'[c] = NextPlayer(c)
    BY <1>1, <1>23 DEF SyncAchievements
  <2>2. CASE call[c].who = 1
    <3>1. call'[c] = [call[c] EXCEPT !.who = 2, !.at = "profile"]
      BY <1>1, <2>1, <2>2 DEF NextPlayer, At, Call
    <3>2. call'[c].at = "profile" /\ call'[c].who = 2 /\ call'[c].loot = call[c].loot
      BY <1>1, <3>1 DEF Call
    <3> QED BY <1>1, <1>2, <1>4, <1>5, <1>6, <1>7, <1>8, <1>9, <2>1, <2>2, <3>2 DEF At, Here,
               Settling, InFlight, Owed, First, Paying, Last, Dated
  <2>3. CASE call[c].who # 1
    <3>1. call'[c] = [Idle EXCEPT !.at = "quests"]
      BY <1>1, <2>1, <2>3 DEF NextPlayer, At
    <3>2. call'[c].at = "quests" /\ call'[c].loot = FALSE
      BY <1>1, <3>1, IdleCall DEF Call
    <3> QED BY <1>1, <1>2, <1>4, <1>5, <1>6, <1>7, <1>8, <1>9, <2>1, <2>3, <3>2 DEF At, Here,
               Settling, InFlight, Owed, First, Paying, Last, Dated
  <2> QED BY <2>2, <2>3
<1>24. CASE TrackQuests(c)
  <2>1. /\ At(c, "quests") /\ chests' = chests /\ call'[c] = NextPlayer(c)
    BY <1>1, <1>24 DEF TrackQuests
  <2>2. CASE call[c].who = 1
    <3>1. call'[c] = [call[c] EXCEPT !.who = 2, !.at = "quests"]
      BY <1>1, <2>1, <2>2 DEF NextPlayer, At, Call
    <3>2. call'[c].at = "quests" /\ call'[c].loot = call[c].loot
      BY <1>1, <3>1 DEF Call
    <3> QED BY <1>1, <1>2, <1>7, <1>9, <2>1, <3>2 DEF At, Here, Settling, InFlight, Owed, First,
               Paying, Last, Dated
  <2>3. CASE call[c].who # 1
    <3>1. call'[c] = [Idle EXCEPT !.at = "finish"]
      BY <1>1, <2>1, <2>3 DEF NextPlayer, At
    <3>2. call'[c].at = "finish" /\ call'[c].loot = FALSE
      BY <1>1, <3>1, IdleCall DEF Call
    <3> QED BY <1>1, <1>2, <1>7, <1>9, <2>1, <3>2 DEF At, Here, Settling, InFlight, Owed, First,
               Paying, Last, Dated
  <2> QED BY <2>2, <2>3
<1>25. CASE FinishRow(c)
  BY <1>10, <1>25 DEF FinishRow
<1>26. CASE DbFails(c)
  BY <1>10, <1>26 DEF DbFails
<1> QED BY <1>11, <1>12, <1>13, <1>14, <1>15, <1>16, <1>17, <1>18, <1>19, <1>20, <1>21, <1>22,
           <1>23, <1>24, <1>25, <1>26 DEF Step

(* Ratings: a step writes one of its two players' and holds what it wrote,   *)
(* or writes none and holds what it held, read or nothing.                   *)
LEMMA RatingEffects ==
  ASSUME TypeOK, NEW c \in Calls, Step(c)
  PROVE  \/ /\ rated' = rated
            /\ \/ call'[c].rating = call[c].rating
               \/ call'[c].rating = [u \in Users |-> {}]
               \/ \E i \in 1..2 :
                    call'[c].rating = [call[c].rating EXCEPT ![Seats[M(c)][i]] = rated[Seats[M(c)][i]]]
         \/ \E i \in 1..2 :
              /\ call[c].at \in First
              /\ rated' = [rated EXCEPT ![Seats[M(c)][i]] = Rated(c, i)]
              /\ call'[c].rating = [call[c].rating EXCEPT ![Seats[M(c)][i]] = Rated(c, i)]
<1>1. call \in [Calls -> Call] /\ call[c] \in Call /\ call[c].rating \in [Users -> SUBSET Matches]
  BY Seating DEF TypeOK
<1>2. Idle \in Call /\ Idle.rating = [u \in Users |-> {}]
  BY IdleCall
<1>3. ASSUME Return(c) PROVE call'[c].rating = [u \in Users |-> {}]
  <2>1. call'[c] = [Idle EXCEPT !.at = "over"]
    BY <1>1, <1>3 DEF Return
  <2> QED BY <1>2, <2>1 DEF Call
<1>4. NextPlayer(c).rating \in {call[c].rating, [u \in Users |-> {}]}
  <2>1. CASE call[c].who = 1
    BY <1>1, <2>1 DEF NextPlayer, Call
  <2>2. CASE call[c].who # 1
    <3>1. NextPlayer(c) \in {[Idle EXCEPT !.at = "quests"], [Idle EXCEPT !.at = "finish"]}
      BY <2>2 DEF NextPlayer
    <3> QED BY <1>2, <3>1 DEF Call
  <2> QED BY <2>1, <2>2
<1>11. CASE Claim(c)
  BY <1>1, <1>3, <1>11 DEF GoTo, Raises, Claim, Call
<1>12. CASE ReadRatings(c)
  <2> DEFINE i == IF At(c, "ratings") THEN 1 ELSE 2
             u == Seats[M(c)][i]
             p == IF i = 1 THEN "ratingTwo" ELSE "rateOne"
  <2>1. call' = [call EXCEPT ![c].at = p, ![c].rating[u] = rated[u]] /\ rated' = rated
    BY <1>12 DEF ReadRatings, tables
  <2>2. call'[c] = [call[c] EXCEPT !.at = p, !.rating[u] = rated[u]]
    BY <1>1, <2>1
  <2>3. call'[c].rating = [call[c].rating EXCEPT ![u] = rated[u]]
    BY <1>1, <2>2 DEF Call
  <2>4. i \in 1..2
    OBVIOUS
  <2> HIDE DEF i, p
  <2> QED BY <2>1, <2>3, <2>4
<1>13. CASE SaveRating(c)
  <2> DEFINE i == IF At(c, "rateOne") THEN 1 ELSE 2
             x == [call[c].rating EXCEPT ![Seats[M(c)][i]] = Rated(c, i)]
             p == IF i = 1 THEN "rateTwo" ELSE "profile"
  <2>1. /\ call' = [call EXCEPT ![c].at = p, ![c].rating[Seats[M(c)][i]] = Rated(c, i)]
        /\ rated' = [rated EXCEPT ![Seats[M(c)][i]] = Rated(c, i)] /\ call[c].at \in First
    BY <1>13 DEF SaveRating, At, First
  <2>2. call'[c] = [call[c] EXCEPT !.at = p, !.rating[Seats[M(c)][i]] = Rated(c, i)]
    BY <1>1, <2>1
  <2>3. call'[c].rating = x
    BY <1>1, <2>2 DEF Call
  <2>4. i \in 1..2
    OBVIOUS
  <2> HIDE DEF i, p
  <2> QED BY <2>1, <2>3, <2>4
<1>14. CASE ReadProfile(c)
  BY <1>1, <1>14 DEF tables, ReadProfile, Call
<1>15. CASE Pay(c)
  <2>1. CASE <<U(c), M(c)>> \in ledger
    BY <1>1, <1>4, <1>15, <2>1 DEF Pay
  <2>2. CASE <<U(c), M(c)>> \notin ledger
    <3>1. call' = [call EXCEPT ![c].at = "refresh", ![c].profile = NoProfile] /\ rated' = rated
      BY <1>15, <2>2 DEF Pay
    <3> QED BY <1>1, <3>1 DEF Call
  <2> QED BY <2>1, <2>2
<1>16. CASE RecordActivity(c)
  BY <1>1, <1>16 DEF tables, RecordActivity, Call
<1>17. CASE SaveStreak(c)
  BY <1>1, <1>17 DEF tables, SaveStreak, Call
<1>18. CASE RollChest(c)
  BY <1>1, <1>18 DEF tables, RollChest, Call
<1>19. CASE Found(c)
  BY <1>1, <1>3, <1>19 DEF GoTo, Raises, Found, Call
<1>20. CASE ReadStanding(c)
  BY <1>1, <1>20 DEF tables, ReadStanding, Call
<1>21. CASE OpenStanding(c)
  BY <1>1, <1>3, <1>21 DEF GoTo, Raises, OpenStanding, Call
<1>22. CASE Climb(c)
  BY <1>1, <1>22 DEF tables, Climb, Call
<1>23. CASE SyncAchievements(c)
  BY <1>1, <1>4, <1>23 DEF SyncAchievements, Call
<1>24. CASE TrackQuests(c)
  BY <1>1, <1>4, <1>24 DEF TrackQuests, Call
<1>25. CASE FinishRow(c)
  BY <1>3, <1>25 DEF tables, FinishRow
<1>26. CASE DbFails(c)
  BY <1>3, <1>26 DEF tables, DbFails
<1> QED BY <1>11, <1>12, <1>13, <1>14, <1>15, <1>16, <1>17, <1>18, <1>19, <1>20, <1>21, <1>22,
           <1>23, <1>24, <1>25, <1>26 DEF Step

(* A rating still counts only matches played.                                *)
LEMMA RatedKept ==
  ASSUME TypeOK, Order, NEW c \in Calls, Step(c)
  PROVE  RatedPlayed'
<1>1. \A u \in Users : Played(u) \subseteq Played(u)'
  BY Finishing DEF Played, Players
<1>2. /\ M(c) \in Matches /\ call[c].rating \in [Users -> SUBSET Matches]
      /\ rated \in [Users -> SUBSET Matches]
  BY Seating DEF TypeOK
<1>3. /\ \A u \in Users : rated[u] \subseteq Played(u)
      /\ \A d \in Calls, u \in Users : call[d].rating[u] \subseteq Played(u)
  BY DEF Order, RatedPlayed
<1>4. \A d \in Calls \ {c}, u \in Users : call'[d].rating[u] \subseteq Played(u)'
  BY <1>1, <1>3, Effects
<1>5. ASSUME \A u \in Users : rated'[u] \subseteq Played(u) /\ call'[c].rating[u] \subseteq Played(u)
      PROVE  RatedPlayed'
  BY <1>1, <1>4, <1>5 DEF RatedPlayed
<1>6. CASE rated' = rated /\ call'[c].rating = call[c].rating
  BY <1>3, <1>5, <1>6
<1>7. CASE rated' = rated /\ call'[c].rating = [u \in Users |-> {}]
  BY <1>3, <1>5, <1>7
<1>8. ASSUME NEW i \in 1..2, rated' = rated,
             call'[c].rating = [call[c].rating EXCEPT ![Seats[M(c)][i]] = rated[Seats[M(c)][i]]]
      PROVE  RatedPlayed'
  <2> DEFINE v == Seats[M(c)][i]
  <2>1. v \in Users
    BY Seating
  <2>2. \A u \in Users : call'[c].rating[u] = IF u = v THEN rated[v] ELSE call[c].rating[u]
    BY <1>2, <1>8
  <2> HIDE DEF v
  <2> QED BY <1>3, <1>5, <1>8, <2>1, <2>2
<1>9. ASSUME NEW i \in 1..2, call[c].at \in First,
             rated' = [rated EXCEPT ![Seats[M(c)][i]] = Rated(c, i)],
             call'[c].rating = [call[c].rating EXCEPT ![Seats[M(c)][i]] = Rated(c, i)]
      PROVE  RatedPlayed'
  <2> DEFINE v == Seats[M(c)][i]
  <2>1. v \in Users /\ v \in Players(M(c))
    BY Seating
  <2>2. match[M(c)].status = "FINISHED"
    BY <1>9 DEF Order, Here, InFlight, Settling, First
  <2>3. Rated(c, i) \subseteq Played(v)
    BY <1>2, <1>3, <2>1, <2>2 DEF Rated, Played
  <2>4. \A u \in Users : rated'[u] = IF u = v THEN Rated(c, i) ELSE rated[u]
    BY <1>2, <1>9
  <2>5. \A u \in Users : call'[c].rating[u] = IF u = v THEN Rated(c, i) ELSE call[c].rating[u]
    BY <1>2, <1>9
  <2> HIDE DEF v
  <2> QED BY <1>3, <1>5, <2>3, <2>4, <2>5
<1> QED BY RatingEffects, <1>6, <1>7, <1>8, <1>9

(* What a step adds to the tables continues what is there.                   *)
LEMMA InOrderKept ==
  ASSUME TypeOK, Order, NEW c \in Calls, Step(c)
  PROVE  SettledInOrder'
<1>1. /\ M(c) \in Matches /\ Here(c) /\ SettledInOrder
      /\ U(c) = IF call[c].who = 1 THEN Seats[M(c)][1] ELSE Seats[M(c)][2]
      /\ call[c].at \in {"new", "over"} \cup Settling /\ call[c].who \in 1..2
  BY Seating DEF Order, U
<1>2. ASSUME NEW m \in Matches, m # M(c)
      PROVE  /\ <<Seats[m][2], m>> \in ledger' => <<Seats[m][1], m>> \in chests'
             /\ \A e \in {<<Seats[m][1], m>>, <<Seats[m][2], m>>} : e \in chests' => e \in ledger'
             /\ ({<<Seats[m][1], m>>, <<Seats[m][2], m>>} \cap quests' # {} \/ match'[m].result)
                  => {<<Seats[m][1], m>>, <<Seats[m][2], m>>} \subseteq chests'
             /\ match'[m].status # "FINISHED" => <<Seats[m][1], m>> \notin ledger' /\ m \notin rated'[Seats[m][1]]
  <2>1. \A u : /\ <<u, m>> \in ledger' <=> <<u, m>> \in ledger
               /\ <<u, m>> \in chests' <=> <<u, m>> \in chests
               /\ <<u, m>> \in quests' <=> <<u, m>> \in quests
    BY <1>2, Effects
  <2>2. /\ match'[m].result => match[m].result
        /\ match'[m].status # "FINISHED" => match[m].status # "FINISHED"
    BY <1>2, Finishing
  <2>3. Seats[m][1] \in Users /\ m \in rated'[Seats[m][1]] => match'[m].status = "FINISHED"
    BY RatedKept DEF RatedPlayed, Played
  <2>4. Seats[m][1] \in Users
    OBVIOUS
  <2> QED BY <1>1, <2>1, <2>2, <2>3, <2>4 DEF SettledInOrder
<1>3. <<Seats[M(c)][1], M(c)>> = One(M(c)) /\ <<Seats[M(c)][2], M(c)>> = Two(M(c))
  BY DEF One, Two
<1>4. One(M(c)) # Two(M(c)) /\ Seats[M(c)][1] \in Users
  BY <1>1 DEF One, Two
<1>5. /\ call[c].who = 1 => <<U(c), M(c)>> = One(M(c))
      /\ call[c].who = 2 => <<U(c), M(c)>> = Two(M(c))
  BY <1>1, <1>3
<1> HIDE DEF One, Two
<1>6. Two(M(c)) \in ledger' => One(M(c)) \in chests'
  BY <1>1, <1>3, <1>4, <1>5, Effects DEF SettledInOrder, Here, Owed, First
<1>7. \A e \in {One(M(c)), Two(M(c))} : e \in chests' => e \in ledger'
  BY <1>1, <1>3, <1>4, <1>5, Effects DEF SettledInOrder, Here, Dated, Paying
<1>8. ({One(M(c)), Two(M(c))} \cap quests' # {} \/ match'[M(c)].result)
        => {One(M(c)), Two(M(c))} \subseteq chests'
  <2>1. CASE call[c].at \in Last
    BY <1>1, <2>1, Effects DEF Here
  <2>2. CASE call[c].at \notin Last
    <3>1. quests' = quests /\ (match'[M(c)].result => match[M(c)].result)
      BY <1>1, <2>2, Effects, Finishing DEF Last, At
    <3>2. chests \subseteq chests'
      BY Effects
    <3> QED BY <1>1, <1>3, <3>1, <3>2 DEF SettledInOrder
  <2> QED BY <2>1, <2>2
<1>9. match'[M(c)].status # "FINISHED" => One(M(c)) \notin ledger' /\ M(c) \notin rated'[Seats[M(c)][1]]
  <2>1. M(c) \in rated'[Seats[M(c)][1]] => match'[M(c)].status = "FINISHED"
    BY <1>1, <1>4, RatedKept DEF RatedPlayed, Played
  <2>2. match'[M(c)].status # "FINISHED" => match[M(c)].status # "FINISHED"
    BY <1>1, Finishing
  <2>3. match[M(c)].status # "FINISHED" => ledger' = ledger
    BY <1>1, Effects DEF Here, InFlight, Settling
  <2> QED BY <1>1, <1>3, <2>1, <2>2, <2>3 DEF SettledInOrder
<1> QED
  <2>1. ASSUME NEW m \in Matches
        PROVE  /\ <<Seats[m][2], m>> \in ledger' => <<Seats[m][1], m>> \in chests'
               /\ \A e \in {<<Seats[m][1], m>>, <<Seats[m][2], m>>} : e \in chests' => e \in ledger'
               /\ ({<<Seats[m][1], m>>, <<Seats[m][2], m>>} \cap quests' # {} \/ match'[m].result)
                    => {<<Seats[m][1], m>>, <<Seats[m][2], m>>} \subseteq chests'
               /\ match'[m].status # "FINISHED" => <<Seats[m][1], m>> \notin ledger' /\ m \notin rated'[Seats[m][1]]
    BY <1>2, <1>3, <1>6, <1>7, <1>8, <1>9
  <2> QED BY <2>1 DEF SettledInOrder

(* The tables of a settlement after one of its steps.                        *)
LEMMA OrderStep ==
  ASSUME TypeOK, Order, NEW c \in Calls, Step(c)
  PROVE  Order'
<1>1. \A d \in Calls : Here(d)'
  BY OthersKept, OwnKept
<1> QED BY <1>1, AloneKept, RatedKept, InOrderKept DEF Order

\* A match is finished one at a time.
Finite == IsFiniteSet({m \in Matches : match[m].status = "FINISHED"})

(* Of finitely many matches, a part counts no more than the whole.           *)
LEMMA PlayedCounts ==
  ASSUME TypeOK, Finite, NEW u \in Users, NEW S, S \subseteq Played(u)
  PROVE  /\ IsFiniteSet(S) /\ Cardinality(S) \in Nat
         /\ IsFiniteSet(Played(u)) /\ Cardinality(Played(u)) \in Nat
         /\ Cardinality(S) <= Cardinality(Played(u))
<1>1. Played(u) \subseteq {m \in Matches : match[m].status = "FINISHED"}
  BY DEF Played
<1>2. IsFiniteSet(Played(u))
  BY <1>1, FS_Subset DEF Finite
<1>3. IsFiniteSet(S) /\ Cardinality(S) <= Cardinality(Played(u))
  BY <1>2, FS_Subset
<1> QED BY <1>2, <1>3, FS_CardinalityType

(* The other tables and histories keep their types.                          *)
LEMMA RowsTyped ==
  ASSUME TypeOK, Order, Finite, NEW c \in Calls, Step(c)
  PROVE  /\ profile' \in [Users -> Profile]
         /\ activity' \in [Users -> SUBSET Calendar]
         /\ seasons' \in [Months -> Season \cup {None}]
         /\ ladder' \in [Months \X Users -> (SUBSET Matches) \cup {None}]
         /\ achieved' \in [Users -> Nat]
         /\ errors' \in 0..MaxErrors /\ crashes' \in 0..MaxCrashes
         /\ overlapped' \subseteq Matches
<1>1. /\ profile \in [Users -> Profile]
      /\ activity \in [Users -> SUBSET Calendar]
      /\ seasons \in [Months -> Season \cup {None}]
      /\ ladder \in [Months \X Users -> (SUBSET Matches) \cup {None}]
      /\ achieved \in [Users -> Nat]
      /\ errors \in 0..MaxErrors /\ crashes \in 0..MaxCrashes
      /\ overlapped \subseteq Matches /\ day \in Calendar
  BY DEF TypeOK
<1>2. /\ U(c) \in Users /\ M(c) \in Matches /\ call[c].profile \in Profile /\ call[c].today \in Calendar
      /\ call[c].standing \in SUBSET Matches
  BY Seating
<1>3. \A d \in Calendar : NewSeason(d) \in Season
  BY DEF NewSeason, Season, Calendar
<1>11. CASE Claim(c)
  <2>1. overlapped' \in {overlapped, overlapped \cup Beside(c) \cup {M(c)}}
    BY <1>11 DEF Claim
  <2>2. Beside(c) \subseteq Matches
    BY Seating DEF Beside
  <2> QED BY <1>1, <1>2, <1>11, <2>1, <2>2 DEF Claim
<1>12. CASE ReadRatings(c)
  BY <1>1, <1>12 DEF tables, ReadRatings
<1>13. CASE SaveRating(c)
  BY <1>1, <1>13 DEF tables, SaveRating
<1>14. CASE ReadProfile(c)
  BY <1>1, <1>14 DEF tables, ReadProfile
<1>15. CASE Pay(c)
  <2>1. Paid(c) \in Profile
    BY <1>1, <1>2 DEF Paid, Profile
  <2> QED BY <1>1, <1>2, <1>15, <2>1 DEF Pay
<1>16. CASE RecordActivity(c)
  BY <1>1, <1>2, <1>16 DEF RecordActivity
<1>17. CASE SaveStreak(c)
  <2> DEFINE held == call[c].profile
             new == streak_after(held.streak, held.last, call[c].today)
             p == [profile[U(c)] EXCEPT !.streak = IF new # held.streak THEN new ELSE @]
             q == [p EXCEPT !.last = IF call[c].today # held.last THEN call[c].today ELSE @]
  <2>1. held.streak \in Nat /\ new \in Nat
    BY <1>2 DEF Profile, streak_after
  <2>2. p \in Profile
    <3> HIDE DEF new
    <3> QED BY <1>1, <1>2, <2>1 DEF Profile
  <2>3. q \in Profile
    BY <1>2, <2>2 DEF Profile
  <2>4. profile' = [profile EXCEPT ![U(c)] = q]
    <3>1. profile' = [profile EXCEPT ![U(c)].streak = IF new # held.streak THEN new ELSE @,
                                     ![U(c)].last = IF call[c].today # held.last THEN call[c].today ELSE @]
      BY <1>17 DEF SaveStreak
    <3> HIDE DEF new, held
    <3> QED BY <1>1, <1>2, <3>1 DEF Profile
  <2> HIDE DEF q
  <2>5. profile' \in [Users -> Profile]
    BY <1>1, <2>3, <2>4
  <2> QED BY <1>1, <1>17, <2>5 DEF SaveStreak
<1>18. CASE RollChest(c)
  BY <1>1, <1>18 DEF tables, RollChest
<1>19. CASE Found(c)
  <2>1. seasons' \in {seasons, [seasons EXCEPT ![call[c].season] = NewSeason(call[c].today)]}
    BY <1>19 DEF Found, Raises
  <2>2. seasons' \in [Months -> Season \cup {None}]
    BY <1>1, <1>2, <1>3, <2>1
  <2> QED BY <1>1, <1>19, <2>2 DEF Found, Raises
<1>20. CASE ReadStanding(c)
  BY <1>1, <1>20 DEF tables, ReadStanding
<1>21. CASE OpenStanding(c)
  <2>1. ladder' \in {ladder, [ladder EXCEPT ![<<call[c].season, U(c)>>] = {}]} /\ seasons' = seasons
    BY <1>21 DEF OpenStanding, Raises
  <2> QED BY <1>1, <1>21, <2>1 DEF OpenStanding
<1>22. CASE Climb(c)
  <2>1. call[c].standing \cup {M(c)} \in SUBSET Matches
    BY <1>2
  <2> QED BY <1>1, <1>22, <2>1 DEF Climb
<1>23. CASE SyncAchievements(c)
  <2>1. Reached(c) \in Nat
    BY <1>2, PlayedCounts DEF Reached, Order, RatedPlayed
  <2> QED BY <1>1, <1>2, <1>23, <2>1 DEF SyncAchievements
<1>24. CASE TrackQuests(c)
  BY <1>1, <1>24 DEF tables, TrackQuests
<1>25. CASE FinishRow(c)
  BY <1>1, <1>25 DEF tables, FinishRow
<1>26. CASE DbFails(c)
  BY <1>1, <1>26 DEF tables, DbFails
<1> QED BY <1>11, <1>12, <1>13, <1>14, <1>15, <1>16, <1>17, <1>18, <1>19, <1>20, <1>21, <1>22,
           <1>23, <1>24, <1>25, <1>26 DEF Step

(* A step keeps the types.                                                   *)
LEMMA TypesStep ==
  ASSUME TypeOK, Order, Finite, NEW c \in Calls, Step(c)
  PROVE  TypeOK'
<1>1. call' \in [Calls -> Call]
  BY CallsTyped DEF Order
<1>2. rated' \in [Users -> SUBSET Matches]
  <2>1. /\ M(c) \in Matches /\ call[c].rating \in [Users -> SUBSET Matches]
        /\ rated \in [Users -> SUBSET Matches]
    BY Seating DEF TypeOK
  <2>2. \A i \in 1..2 : Rated(c, i) \in SUBSET Matches
    BY <2>1, Seating DEF Rated
  <2>3. CASE rated' = rated
    BY <2>1, <2>3
  <2>4. ASSUME NEW i \in 1..2, rated' = [rated EXCEPT ![Seats[M(c)][i]] = Rated(c, i)]
        PROVE  rated' \in [Users -> SUBSET Matches]
    BY <2>1, <2>2, <2>4
  <2> QED BY <2>3, <2>4, RatingEffects
<1>3. <<U(c), M(c)>> \in Users \X Matches
  BY Seating
<1>4. ledger' \subseteq Users \X Matches /\ chests' \subseteq Users \X Matches /\ quests' \subseteq Users \X Matches
  <2>1. ledger \subseteq Users \X Matches /\ chests \subseteq Users \X Matches /\ quests \subseteq Users \X Matches
    BY DEF TypeOK
  <2>2. \A S, T : T \in {S, S \cup {<<U(c), M(c)>>}} /\ S \subseteq Users \X Matches => T \subseteq Users \X Matches
    BY <1>3
  <2> QED BY <2>1, <2>2, Effects
<1>5. Months' = Months
  BY DEF Months
<1> QED BY <1>1, <1>2, <1>4, <1>5, RowsTyped, Finishing, Effects DEF TypeOK

(* A step finishes one match at most.                                        *)
LEMMA FiniteStep ==
  ASSUME TypeOK, Finite, NEW c \in Calls, Step(c)
  PROVE  Finite'
<1> DEFINE Done == {m \in Matches : match[m].status = "FINISHED"}
<1>1. Done' \subseteq Done \cup {M(c)}
  BY Finishing
<1>2. IsFiniteSet(Done \cup {M(c)})
  BY FS_AddElement DEF Finite
<1>3. IsFiniteSet(Done')
  BY <1>1, <1>2, FS_Subset
<1> QED BY <1>3 DEF Finite

(* What goes on beside the calls.                                            *)
Around == RollOver \/ OpenSeason \/ NextDay \/ Crash

(* It keeps the types.                                                       *)
LEMMA AroundTypes ==
  ASSUME TypeOK, Around
  PROVE  TypeOK'
<1>1. CASE RollOver
  <2>1. CASE active = {} /\ sweep' = [at |-> "open", starts |-> day] /\ seasons' = seasons
    BY <1>1, <2>1 DEF RollOver, TypeOK, Sweep, Months
  <2>2. ASSUME NEW s \in active, day >= seasons[s].ends,
               seasons' = [seasons EXCEPT ![s].active = FALSE],
               sweep' = [at |-> "open", starts |-> seasons[s].ends]
        PROVE  TypeOK'
    <3>1. s \in Months /\ seasons[s] \in Season /\ day \in Calendar
      BY <2>2 DEF active, Active, TypeOK
    <3>2. seasons[s].ends \in Calendar /\ [seasons[s] EXCEPT !.active = FALSE] \in Season
      <4>1. seasons[s].ends \in Nat /\ seasons[s].ends <= day
        BY <2>2, <3>1 DEF Season, Calendar
      <4>2. seasons[s].ends \in Calendar
        BY <3>1, <4>1 DEF Calendar
      <4>3. [seasons[s] EXCEPT !.active = FALSE] \in Season
        BY <3>1 DEF Season
      <4> QED BY <4>2, <4>3
    <3>3. seasons' \in [Months -> Season \cup {None}] /\ sweep' \in Sweep
      BY <2>2, <3>1, <3>2 DEF TypeOK, Sweep
    <3> QED BY <1>1, <3>3 DEF RollOver, TypeOK, Months
  <2> QED BY <1>1, <2>1, <2>2 DEF RollOver
<1>2. CASE OpenSeason
  <2>1. sweep.starts \in Calendar /\ 0 \in Calendar
    BY DEF TypeOK, Sweep, Calendar
  <2>2. NewSeason(sweep.starts) \in Season
    BY <2>1 DEF NewSeason, Season, Calendar
  <2>3. seasons' \in [Months -> Season \cup {None}] /\ sweep' \in Sweep
    BY <1>2, <2>1, <2>2 DEF OpenSeason, TypeOK, Sweep
  <2> QED BY <1>2, <2>3 DEF OpenSeason, TypeOK, Months
<1>3. CASE NextDay
  <2>1. day' \in Calendar
    BY <1>3 DEF NextDay, TypeOK, Calendar
  <2> QED BY <1>3, <2>1 DEF NextDay, TypeOK, tables
<1>4. CASE Crash
  <2>1. 0 \in Calendar
    BY DEF Calendar
  <2>2. [Idle EXCEPT !.at = "over"] \in Call
    BY IdleCall DEF Call
  <2>3. call' \in [Calls -> Call] /\ sweep' \in Sweep
    BY <1>4, <2>1, <2>2 DEF Crash, Sweep
  <2>4. \A m \in Matches : [match[m] EXCEPT !.status = "ABANDONED"] \in [status : Status, result : BOOLEAN]
    BY DEF TypeOK, Status
  <2>5. match' \in [Matches -> [status : Status, result : BOOLEAN]]
    BY <1>4, <2>4 DEF Crash, TypeOK
  <2>6. crashes' \in 0..MaxCrashes
    BY <1>4 DEF Crash, TypeOK
  <2> QED BY <1>4, <2>3, <2>5, <2>6 DEF Crash, TypeOK, Months
<1> QED BY <1>1, <1>2, <1>3, <1>4 DEF Around

(* It leaves what is in the tables.                                          *)
LEMMA AroundOrder ==
  ASSUME TypeOK, Order, Around
  PROVE  Order' /\ {m \in Matches : match[m].status = "FINISHED"}' = {m \in Matches : match[m].status = "FINISHED"}
<1>1. Months' = Months
  BY DEF Months
<1>2. CASE UNCHANGED <<match, rated, ledger, chests, quests, call>>
  BY <1>1, <1>2 DEF Order, Alone, Here, RatedPlayed, SettledInOrder, InFlight, M, U, Played, One,
     Two, Players
<1>3. CASE Crash
  <2>1. \A c \in Calls : call'[c].at = "over" /\ call'[c].loot = FALSE /\ call'[c].rating = [u \in Users |-> {}]
    <3>1. \A c \in Calls : call'[c] = [Idle EXCEPT !.at = "over"]
      BY <1>3 DEF Crash
    <3>2. \A i \in Call : LET o == [i EXCEPT !.at = "over"]
                          IN o.at = "over" /\ o.loot = i.loot /\ o.rating = i.rating
      BY DEF Call
    <3> QED BY <3>1, <3>2, IdleCall
  <2>2. /\ UNCHANGED <<rated, ledger, chests, quests>>
        /\ \A m \in Matches : /\ match'[m].status = "FINISHED" <=> match[m].status = "FINISHED"
                              /\ match'[m].result = match[m].result
    BY <1>3 DEF Crash, TypeOK, Status
  <2>3. \A u \in Users : Played(u)' = Played(u)
    BY <2>2 DEF Played, Players
  <2>4. Alone' /\ \A c \in Calls : Here(c)'
    BY <2>1 DEF Alone, Here, InFlight, Settling, First, Last, Owed, Paying, Dated
  <2>5. RatedPlayed'
    BY <2>1, <2>2, <2>3 DEF Order, RatedPlayed
  <2>6. SettledInOrder'
    BY <2>2 DEF Order, SettledInOrder
  <2> QED BY <2>2, <2>4, <2>5, <2>6 DEF Order
<1>4. CASE RollOver \/ OpenSeason \/ NextDay
  BY <1>2, <1>4 DEF RollOver, OpenSeason, NextDay, tables
<1> QED BY <1>3, <1>4 DEF Around

-----------------------------------------------------------------------------
\* Two calls in flight that share a player have raced, and so have their matches.
Raced == \A c, d \in Calls : /\ c # d /\ InFlight(c) /\ InFlight(d)
                            /\ Players(M(c)) \cap Players(M(d)) # {}
                            => M(c) \in overlapped /\ M(d) \in overlapped

\* The same, as far as the matches go that nobody raced.
Agree(S, T) == S \ overlapped = T \ overlapped
Calm(u)     == \A m \in overlapped : u \notin Players(m)

\* What a session holds is what is stored.
Fresh(c) ==
  /\ call[c].at = "ratingTwo" =>
       Agree(call[c].rating[Seats[M(c)][1]], rated[Seats[M(c)][1]])
  /\ call[c].at \in {"rateOne", "rateTwo"} =>
       \A u \in Players(M(c)) : Agree(call[c].rating[u], rated[u])
  /\ call[c].at = "pay" => Agree(call[c].profile.paid, profile[U(c)].paid)
  /\ call[c].at = "climb" => Standing(c) # None /\ Agree(call[c].standing, Standing(c))
  /\ call[c].at \in {"activity", "streak"} /\ Calm(U(c)) =>
       call[c].profile.streak = profile[U(c)].streak /\ call[c].profile.last = profile[U(c)].last
  /\ call[c].at = "streak" => call[c].today \in activity[U(c)]

\* Some standing of the player reflects the match.
Climbed(u, m) == \E s \in Months : ladder[<<s, u>>] # None /\ m \in ladder[<<s, u>>]

\* What a match nobody raced has brought its players so far.
Stands(c) ==
  M(c) \notin overlapped =>
    /\ call[c].at = "rateTwo" => M(c) \in rated[Seats[M(c)][1]]
    /\ call[c].at \in {"profile", "pay"} \cup Paying \cup Last => \A u \in Players(M(c)) : M(c) \in rated[u]
    /\ call[c].at = "achieve" => Climbed(U(c), M(c))
    /\ call[c].at \in Owed \cup Paying /\ call[c].who = 2 => Climbed(Seats[M(c)][1], M(c))
    /\ call[c].at \in Last => \A u \in Players(M(c)) : Climbed(u, M(c))

\* What the sessions hold, and what the tables then count.
Counts == /\ Raced
          /\ \A c \in Calls : Fresh(c) /\ Stands(c)
          /\ \A u \in Users : profile[u].streak >= 1
          /\ CountsAreTrue

(* Only a claim races anybody.                                               *)
LEMMA RacedKept ==
  ASSUME TypeOK, Order, Raced, NEW c \in Calls, Step(c)
  PROVE  /\ Raced' /\ overlapped \subseteq overlapped'
         /\ InFlight(c) => overlapped' = overlapped
<1>1. call \in [Calls -> Call] /\ M(c) \in Matches
  BY Seating DEF TypeOK
<1>2. \A d \in Calls : d # c => (InFlight(d)' <=> InFlight(d))
  BY Effects DEF InFlight
<1>3. \A d \in Calls : M(d)' = M(d) /\ Players(M(d))' = Players(M(d))
  BY DEF M, Players
<1>4. CASE Claim(c)
  <2>1. ~InFlight(c) /\ overlapped \subseteq overlapped'
    BY <1>4 DEF Claim, At, InFlight, Settling
  <2>2. CASE InFlight(c)'
    <3>1. match[M(c)].status = "IN_PROGRESS"
      <4>1. ~[Idle EXCEPT !.at = "over"].at \in Settling
        BY IdleCall DEF Call, Settling
      <4> QED BY <2>1, <2>2, <4>1, Starting DEF InFlight
    <3>2. overlapped' = IF Beside(c) = {} THEN overlapped ELSE overlapped \cup Beside(c) \cup {M(c)}
      BY <1>4, <3>1 DEF Claim
    <3>3. ASSUME NEW d \in Calls, d # c, InFlight(d), Players(M(d)) \cap Players(M(c)) # {}
          PROVE  M(d) \in overlapped' /\ M(c) \in overlapped'
      <4>1. M(d) \in Beside(c)
        BY <3>3 DEF Beside
      <4> QED BY <3>2, <4>1
    <3>4. ASSUME NEW d \in Calls, NEW e \in Calls, d # e, InFlight(d)', InFlight(e)',
                 Players(M(d)) \cap Players(M(e)) # {}
          PROVE  M(d) \in overlapped' /\ M(e) \in overlapped'
      <4>1. CASE d # c /\ e # c
        BY <1>2, <2>1, <3>4, <4>1 DEF Raced
      <4>2. CASE d = c
        BY <1>2, <3>3, <3>4, <4>2
      <4>3. CASE e = c
        BY <1>2, <3>3, <3>4, <4>3
      <4> QED BY <4>1, <4>2, <4>3
    <3> QED BY <1>3, <2>1, <3>4 DEF Raced
  <2>3. CASE ~InFlight(c)'
    BY <1>2, <1>3, <2>1, <2>3 DEF Raced
  <2> QED BY <2>1, <2>2, <2>3
<1>5. CASE ~Claim(c)
  <2>1. overlapped' = overlapped /\ InFlight(c)
    BY <1>5 DEF Step, InFlight, Settling, At, tables, ReadRatings, SaveRating, ReadProfile, Pay,
                RecordActivity, SaveStreak, RollChest, Found, ReadStanding, OpenStanding, Climb,
                SyncAchievements, TrackQuests, FinishRow, DbFails
  <2> QED BY <1>2, <1>3, <2>1 DEF Raced
<1> QED BY <1>4, <1>5

(* A write starts from what is stored and adds the match it is for.          *)
LEMMA RatingWrites ==
  ASSUME TypeOK, Order, Counts, NEW c \in Calls, Step(c), NEW u \in Users, rated'[u] # rated[u]
  PROVE  /\ InFlight(c) /\ u \in Players(M(c))
         /\ rated'[u] \ overlapped = (rated[u] \cup {M(c)}) \ overlapped
<1>1. PICK i \in 1..2 : /\ call[c].at \in First
                        /\ rated' = [rated EXCEPT ![Seats[M(c)][i]] = Rated(c, i)]
  BY RatingEffects
<1>2. SaveRating(c)
  BY <1>1 DEF Step, First, At, tables, Claim, ReadRatings, ReadProfile, Pay, RecordActivity,
     SaveStreak,
              RollChest, Found, ReadStanding, OpenStanding, Climb, SyncAchievements, TrackQuests,
              FinishRow, DbFails
<1>3. call[c].at \in {"rateOne", "rateTwo"}
  BY <1>2 DEF SaveRating, At
<1>4. rated \in [Users -> SUBSET Matches] /\ Seats[M(c)][i] \in Users /\ Seats[M(c)][i] \in Players(M(c))
  BY Seating DEF TypeOK
<1>5. u = Seats[M(c)][i] /\ rated'[u] = call[c].rating[u] \cup {M(c)}
  BY <1>1, <1>4 DEF Rated
<1>6. call[c].rating[u] \ overlapped = rated[u] \ overlapped
  BY <1>3, <1>4, <1>5 DEF Counts, Fresh, Agree
<1>7. InFlight(c)
  BY <1>3 DEF InFlight, Settling
<1> QED BY <1>4, <1>5, <1>6, <1>7

(* So does a balance.                                                        *)
LEMMA PaidWrites ==
  ASSUME TypeOK, Order, Counts, NEW c \in Calls, Step(c), NEW u \in Users, profile'[u] # profile[u]
  PROVE  /\ InFlight(c) /\ u = U(c)
         /\ profile'[u].paid = profile[u].paid
              \/ profile'[u].paid \ overlapped = (profile[u].paid \cup {M(c)}) \ overlapped
<1>1. profile \in [Users -> Profile] /\ U(c) \in Users
  BY Seating DEF TypeOK
<1>2. CASE Pay(c)
  <2>1. /\ profile' = [profile EXCEPT ![U(c)] = Paid(c)] /\ call[c].at = "pay"
    BY <1>2 DEF Pay, At
  <2>2. u = U(c) /\ profile'[u] = Paid(c)
    BY <1>1, <2>1
  <2>3. profile'[u].paid = call[c].profile.paid \cup {M(c)}
    BY <1>1, <2>2 DEF Paid, Profile
  <2>4. call[c].profile.paid \ overlapped = profile[u].paid \ overlapped
    BY <2>1, <2>2 DEF Counts, Fresh, Agree
  <2> QED BY <2>1, <2>2, <2>3, <2>4 DEF InFlight, Settling
<1>3. CASE SaveStreak(c)
  <2> DEFINE x == LET held == call[c].profile
                      new  == streak_after(held.streak, held.last, call[c].today)
                  IN [profile[U(c)] EXCEPT !.streak = IF new # held.streak THEN new ELSE @,
                                           !.last = IF call[c].today # held.last THEN call[c].today ELSE @]
  <2>1. profile' = [profile EXCEPT ![U(c)] = x] /\ call[c].at = "streak"
    BY <1>1, <1>3 DEF SaveStreak, At
  <2>2. x.paid = profile[U(c)].paid
    BY <1>1 DEF Profile
  <2> HIDE DEF x
  <2>3. u = U(c) /\ profile'[u] = x
    BY <1>1, <2>1
  <2> QED BY <2>1, <2>2, <2>3 DEF InFlight, Settling
<1>4. Pay(c) \/ SaveStreak(c)
  BY DEF Step, tables, Claim, ReadRatings, SaveRating, ReadProfile, RecordActivity,
         RollChest, Found, ReadStanding, OpenStanding, Climb, SyncAchievements, TrackQuests,
         FinishRow, DbFails
<1> QED BY <1>2, <1>3, <1>4

(* So does a standing.                                                       *)
LEMMA LadderWrites ==
  ASSUME TypeOK, Order, Counts, NEW c \in Calls, Step(c), NEW s \in Months, NEW u \in Users,
         ladder'[<<s, u>>] # ladder[<<s, u>>]
  PROVE  /\ InFlight(c) /\ u = U(c) /\ ladder'[<<s, u>>] # None
         /\ ladder[<<s, u>>] # None =>
              ladder'[<<s, u>>] \ overlapped = (ladder[<<s, u>>] \cup {M(c)}) \ overlapped
<1>1. /\ ladder \in [Months \X Users -> (SUBSET Matches) \cup {None}] /\ U(c) \in Users /\ M(c) \in Matches
      /\ call[c].standing \in SUBSET Matches
  BY Seating DEF TypeOK
<1>2. CASE Climb(c)
  <2>1. ladder' = [ladder EXCEPT ![<<call[c].season, U(c)>>] = call[c].standing \cup {M(c)}] /\ call[c].at = "climb"
    BY <1>2 DEF Climb, At
  <2>2. call[c].season = s /\ u = U(c) /\ ladder'[<<s, u>>] = call[c].standing \cup {M(c)}
    BY <1>1, <2>1
  <2>3. call[c].standing \ overlapped = ladder[<<s, u>>] \ overlapped
    BY <2>1, <2>2 DEF Counts, Fresh, Agree, Standing
  <2>4. ladder'[<<s, u>>] # None
    BY <1>1, <2>2
  <2> QED BY <2>1, <2>2, <2>3, <2>4 DEF InFlight, Settling
<1>3. CASE OpenStanding(c)
  <2>1. /\ ladder' = [ladder EXCEPT ![<<call[c].season, U(c)>>] = {}] /\ call[c].at = "open"
        /\ ladder[<<call[c].season, U(c)>>] = None
    BY <1>3 DEF OpenStanding, At, Raises, Standing
  <2>2. call[c].season = s /\ u = U(c) /\ ladder'[<<s, u>>] = {}
    BY <1>1, <2>1
  <2>3. {} # None
    OBVIOUS
  <2> QED BY <2>1, <2>2, <2>3 DEF InFlight, Settling
<1>4. Climb(c) \/ OpenStanding(c)
  BY DEF Step, tables, Claim, ReadRatings, SaveRating, ReadProfile, Pay, RecordActivity, SaveStreak,
         RollChest, Found, Raises, ReadStanding, SyncAchievements, TrackQuests, FinishRow, DbFails
<1> QED BY <1>2, <1>3, <1>4

(* A day with a row keeps it.                                                *)
LEMMA ActivityGrows ==
  ASSUME TypeOK, NEW c \in Calls, Step(c), NEW u \in Users
  PROVE  activity[u] \subseteq activity'[u]
<1>1. activity \in [Users -> SUBSET Calendar]
  BY DEF TypeOK
<1>2. CASE RecordActivity(c)
  BY <1>1, <1>2 DEF RecordActivity
<1>3. activity' = activity \/ RecordActivity(c)
  BY DEF Step, tables, Claim, ReadRatings, SaveRating, ReadProfile, Pay, SaveStreak, RollChest,
     Found,
         ReadStanding, OpenStanding, Climb, SyncAchievements, TrackQuests, FinishRow, DbFails
<1> QED BY <1>2, <1>3

(* What a match nobody raced has brought its players is not lost again.      *)
LEMMA CalmIsKept ==
  ASSUME TypeOK, Order, Counts, NEW c \in Calls, Step(c), NEW u \in Users, NEW m \in Matches, m \notin overlapped
  PROVE  /\ m \in rated[u] => m \in rated'[u]
         /\ m \in profile[u].paid => m \in profile'[u].paid
         /\ Climbed(u, m) => Climbed(u, m)'
<1>1. m \in rated[u] => m \in rated'[u]
  BY RatingWrites
<1>2. m \in profile[u].paid => m \in profile'[u].paid
  BY PaidWrites
<1>3. Climbed(u, m) => Climbed(u, m)'
  <2>1. ASSUME NEW s \in Months, ladder[<<s, u>>] # None, m \in ladder[<<s, u>>]
        PROVE  ladder'[<<s, u>>] # None /\ m \in ladder'[<<s, u>>]
    BY <2>1, LadderWrites
  <2> QED BY <2>1 DEF Climbed, Months
<1> QED BY <1>1, <1>2, <1>3

(* The others hold what is stored as before: a write to one of their players *)
(* is about a match that raced theirs.                                       *)
LEMMA OthersFresh ==
  ASSUME TypeOK, Order, Counts, NEW c \in Calls, Step(c), NEW d \in Calls, d # c
  PROVE  Fresh(d)' /\ Stands(d)'
<1>1. /\ call'[d] = call[d] /\ Fresh(d) /\ Stands(d)
      /\ M(d) \in Matches /\ U(d) \in Users /\ U(d) \in Players(M(d)) /\ Players(M(d)) \subseteq Users
      /\ Seats[M(d)][1] \in Players(M(d))
  BY Effects, Seating DEF Counts
<1>2. M(d)' = M(d) /\ U(d)' = U(d) /\ Players(M(d))' = Players(M(d)) /\ Months' = Months
  BY <1>1 DEF M, U, Players, Months
<1>3. overlapped \subseteq overlapped' /\ (InFlight(c) => overlapped' = overlapped)
  BY RacedKept DEF Counts
<1>4. ASSUME NEW u \in Players(M(d)), InFlight(d), InFlight(c), u \in Players(M(c))
      PROVE  M(c) \in overlapped /\ M(d) \in overlapped
  BY <1>4 DEF Counts, Raced
<1>5. ASSUME NEW u \in Players(M(d)), InFlight(d)
      PROVE  rated'[u] \ overlapped' = rated[u] \ overlapped'
  BY <1>1, <1>3, <1>4, <1>5, RatingWrites DEF Agree
<1>6. ASSUME InFlight(d)
      PROVE  profile'[U(d)].paid \ overlapped' = profile[U(d)].paid \ overlapped'
  <2>1. U(c) \in Players(M(c))
    BY Seating
  <2> QED BY <1>1, <1>3, <1>4, <1>6, <2>1, PaidWrites DEF Agree
<1>7. ASSUME InFlight(d), Calm(U(d))' PROVE profile'[U(d)] = profile[U(d)] /\ Calm(U(d))
  <2>1. U(c) \in Players(M(c))
    BY Seating
  <2>2. Calm(U(d))
    BY <1>1, <1>3, <1>7 DEF Calm, Players, U, M
  <2> QED BY <1>1, <1>4, <1>7, <2>1, <2>2, PaidWrites DEF Calm
<1>8. ASSUME InFlight(d), NEW s \in Months, ladder[<<s, U(d)>>] # None
      PROVE  /\ ladder'[<<s, U(d)>>] # None
             /\ ladder'[<<s, U(d)>>] \ overlapped' = ladder[<<s, U(d)>>] \ overlapped'
  <2>1. U(c) \in Players(M(c))
    BY Seating
  <2> QED BY <1>1, <1>3, <1>4, <1>8, <2>1, LadderWrites DEF Agree
<1>10. activity[U(d)] \subseteq activity'[U(d)]
  BY <1>1, ActivityGrows
<1>11. Fresh(d)'
  <2>0. CASE call[d].at = "ratingTwo"
    <3> DEFINE u == Seats[M(d)][1]
    <3>1. InFlight(d) /\ u \in Players(M(d)) /\ M(d)' = M(d)
      BY <2>0, Seating DEF InFlight, Settling, M, Players
    <3>2. call[d].rating[u] \ overlapped' = rated'[u] \ overlapped'
      <4>1. call[d].rating[u] \ overlapped = rated[u] \ overlapped
        BY <1>1, <2>0 DEF Fresh, Agree
      <4>2. rated'[u] \ overlapped' = rated[u] \ overlapped'
        BY <1>5, <3>1
      <4> QED BY <1>3, <4>1, <4>2
    <3> QED BY <1>1, <1>2, <2>0, <3>1, <3>2 DEF Fresh, Agree
  <2>1. CASE call[d].at \in {"rateOne", "rateTwo"}
    <3>1. InFlight(d)
      BY <2>1 DEF InFlight, Settling
    <3>2. ASSUME NEW u \in Players(M(d)) PROVE call[d].rating[u] \ overlapped' = rated'[u] \ overlapped'
      <4>1. call[d].rating[u] \ overlapped = rated[u] \ overlapped
        BY <1>1, <2>1 DEF Fresh, Agree
      <4>2. rated'[u] \ overlapped' = rated[u] \ overlapped'
        BY <1>5, <3>1
      <4> QED BY <1>3, <4>1, <4>2
    <3> QED BY <1>1, <1>2, <2>1, <3>2 DEF Fresh, Agree
  <2>2. CASE call[d].at = "pay"
    <3>1. InFlight(d)
      BY <2>2 DEF InFlight, Settling
    <3>2. call[d].profile.paid \ overlapped' = profile'[U(d)].paid \ overlapped'
      <4>1. call[d].profile.paid \ overlapped = profile[U(d)].paid \ overlapped
        BY <1>1, <2>2 DEF Fresh, Agree
      <4>2. profile'[U(d)].paid \ overlapped' = profile[U(d)].paid \ overlapped'
        BY <1>6, <3>1
      <4> QED BY <1>3, <4>1, <4>2
    <3> QED BY <1>1, <1>2, <2>2, <3>2 DEF Fresh, Agree
  <2>3. CASE call[d].at = "climb"
    <3>1. InFlight(d) /\ call[d].season \in Months
      BY <2>3 DEF InFlight, Settling, Order, Here, Dated
    <3>2. Standing(d)' # None /\ call[d].standing \ overlapped' = Standing(d)' \ overlapped'
      <4>1. /\ Standing(d) = ladder[<<call[d].season, U(d)>>]
            /\ Standing(d)' = ladder'[<<call[d].season, U(d)>>]
        BY <1>1, <1>2 DEF Standing
      <4>2. Standing(d) # None /\ call[d].standing \ overlapped = Standing(d) \ overlapped
        BY <1>1, <2>3 DEF Fresh, Agree
      <4>3. /\ ladder'[<<call[d].season, U(d)>>] # None
            /\ ladder'[<<call[d].season, U(d)>>] \ overlapped' = ladder[<<call[d].season, U(d)>>] \ overlapped'
        BY <1>8, <3>1, <4>1, <4>2
      <4> QED BY <1>3, <4>1, <4>2, <4>3
    <3> QED BY <1>1, <1>2, <2>3, <3>2 DEF Fresh, Agree
  <2>4. CASE call[d].at \in {"activity", "streak"}
    <3>1. InFlight(d)
      BY <2>4 DEF InFlight, Settling
    <3>2. Calm(U(d))' => call[d].profile.streak = profile'[U(d)].streak /\ call[d].profile.last = profile'[U(d)].last
      BY <1>1, <1>7, <2>4, <3>1 DEF Fresh
    <3>3. call[d].at = "streak" => call[d].today \in activity'[U(d)]
      BY <1>1, <1>10 DEF Fresh
    <3> QED BY <1>1, <1>2, <2>4, <3>2, <3>3 DEF Fresh, Calm, Players
  <2> QED BY <1>1, <2>0, <2>1, <2>2, <2>3, <2>4 DEF Fresh
<1>12. Stands(d)'
  <2>1. SUFFICES ASSUME M(d) \notin overlapped' PROVE Stands(d)'
    BY <1>2 DEF Stands
  <2> DEFINE Up == {u \in Users : \E s \in Months : ladder'[<<s, u>>] # None /\ M(d) \in ladder'[<<s, u>>]}
             Was == {u \in Users : Climbed(u, M(d))}
  <2>2. \A u \in Players(M(d)) : M(d) \in rated[u] => M(d) \in rated'[u]
    BY <1>1, <1>3, <2>1, CalmIsKept
  <2>3. Was \subseteq Up
    <3>1. SUFFICES ASSUME NEW u \in Users, NEW m \in Matches, m = M(d)
                   PROVE  Climbed(u, m) => \E s \in Months : ladder'[<<s, u>>] # None /\ m \in ladder'[<<s, u>>]
      BY <1>1
    <3>2. Climbed(u, m) => Climbed(u, m)'
      BY <1>1, <1>3, <2>1, <3>1, CalmIsKept
    <3> QED BY <1>2, <3>2 DEF Climbed
  <2>4. \A u \in Players(M(d)) : Climbed(u, M(d)) <=> u \in Was
    BY <1>1
  <2> HIDE DEF Was
  <2>5. /\ call[d].at = "rateTwo" => M(d) \in rated[Seats[M(d)][1]]
        /\ call[d].at \in {"profile", "pay"} \cup Paying \cup Last => \A u \in Players(M(d)) : M(d) \in rated[u]
        /\ call[d].at = "achieve" => U(d) \in Was
        /\ call[d].at \in Owed \cup Paying /\ call[d].who = 2 => Seats[M(d)][1] \in Was
        /\ call[d].at \in Last => \A u \in Players(M(d)) : u \in Was
    BY <1>1, <1>3, <2>1, <2>4 DEF Stands
  <2> HIDE DEF Up
  <2>6. /\ call[d].at = "rateTwo" => M(d) \in rated'[Seats[M(d)][1]]
        /\ call[d].at \in {"profile", "pay"} \cup Paying \cup Last => \A u \in Players(M(d)) : M(d) \in rated'[u]
    BY <1>1, <2>2, <2>5
  <2>7. /\ call[d].at = "achieve" => U(d) \in Up
        /\ call[d].at \in Owed \cup Paying /\ call[d].who = 2 => Seats[M(d)][1] \in Up
        /\ call[d].at \in Last => \A u \in Players(M(d)) : u \in Up
    BY <1>1, <2>3, <2>5
  <2> QED BY <1>1, <1>2, <2>6, <2>7 DEF Stands, Climbed, Up
<1> QED BY <1>11, <1>12

(* Where a step takes its call, and what the session holds there.            *)
LEMMA Moves ==
  ASSUME TypeOK, Order, NEW c \in Calls, Step(c)
  PROVE  \/ call'[c].at = "over"
         \/ Claim(c) /\ call'[c].at = "ratings" /\ call'[c].who = call[c].who
         \/ /\ ReadRatings(c) /\ call'[c].who = call[c].who /\ rated' = rated
            /\ call[c].at = "ratings" /\ call'[c].at = "ratingTwo"
            /\ call'[c].rating = [call[c].rating EXCEPT ![Seats[M(c)][1]] = rated[Seats[M(c)][1]]]
         \/ /\ ReadRatings(c) /\ call'[c].who = call[c].who /\ rated' = rated
            /\ call[c].at = "ratingTwo" /\ call'[c].at = "rateOne"
            /\ call'[c].rating = [call[c].rating EXCEPT ![Seats[M(c)][2]] = rated[Seats[M(c)][2]]]
         \/ /\ SaveRating(c) /\ call[c].at = "rateOne" /\ call'[c].at = "rateTwo" /\ call'[c].who = call[c].who
            /\ rated' = [rated EXCEPT ![Seats[M(c)][1]] = Rated(c, 1)]
            /\ call'[c].rating = [call[c].rating EXCEPT ![Seats[M(c)][1]] = Rated(c, 1)]
         \/ /\ SaveRating(c) /\ call[c].at = "rateTwo" /\ call'[c].at = "profile" /\ call'[c].who = call[c].who
            /\ rated' = [rated EXCEPT ![Seats[M(c)][2]] = Rated(c, 2)]
         \/ /\ ReadProfile(c) /\ call'[c].who = call[c].who
            /\ call'[c].profile = profile[U(c)] /\ profile' = profile
            /\ \/ call[c].at = "profile" /\ call'[c].at = "pay"
               \/ call[c].at = "refresh" /\ call'[c].at = "activity"
         \/ Pay(c) /\ call[c].at = "pay" /\ call'[c].at = "refresh" /\ call'[c].who = call[c].who
         \/ /\ RecordActivity(c) /\ call[c].at = "activity" /\ call'[c].at = "streak"
            /\ call'[c].who = call[c].who /\ call'[c].today = day
            /\ call'[c].profile = call[c].profile /\ profile' = profile
         \/ SaveStreak(c) /\ call[c].at = "streak" /\ call'[c].at = "season" /\ call'[c].who = call[c].who
         \/ RollChest(c) /\ call[c].at = "season" /\ call'[c].at \in {"standing", "found"} /\ call'[c].who = call[c].who
         \/ Found(c) /\ call[c].at = "found" /\ call'[c].at = "standing" /\ call'[c].who = call[c].who
         \/ /\ ReadStanding(c) /\ call[c].at = "standing" /\ call'[c].at = "open" /\ call'[c].who = call[c].who
         \/ /\ ReadStanding(c) \/ OpenStanding(c)
            /\ call[c].at \in {"standing", "open"} /\ call'[c].at = "climb" /\ call'[c].who = call[c].who
            /\ call'[c].season = call[c].season
            /\ call'[c].standing # None /\ call'[c].standing = ladder'[<<call[c].season, U(c)>>]
         \/ Climb(c) /\ call[c].at = "climb" /\ call'[c].at = "achieve" /\ call'[c].who = call[c].who
         \/ /\ SyncAchievements(c) /\ call[c].at = "achieve"
            /\ \/ call[c].who = 1 /\ call'[c].who = 2 /\ call'[c].at = "profile"
               \/ call[c].who = 2 /\ call'[c].who = 1 /\ call'[c].at = "quests"
         \/ TrackQuests(c) /\ call[c].at = "quests" /\ call'[c].at \in Last
<1>1. /\ call \in [Calls -> Call] /\ call[c] \in Call /\ Here(c)
      /\ ladder \in [Months \X Users -> (SUBSET Matches) \cup {None}] /\ U(c) \in Users
      /\ call[c].who \in 1..2
  BY Seating DEF TypeOK, Order
<1>2. /\ Idle \in Call /\ Idle.who = 1
      /\ [Idle EXCEPT !.at = "over"].at = "over"
      /\ [Idle EXCEPT !.at = "quests"].at = "quests" /\ [Idle EXCEPT !.at = "quests"].who = 1
      /\ [Idle EXCEPT !.at = "finish"].at = "finish"
  BY IdleCall DEF Call
<1>3. ASSUME Return(c) PROVE call'[c].at = "over"
  BY <1>1, <1>2, <1>3 DEF Return
<1>4. call[c].at \in Dated => call[c].season \in Months
  BY <1>1 DEF Here
<1>5. call[c].at \in {"standing", "open"} => Standing(c) \in (SUBSET Matches) \cup {None}
  BY <1>1, <1>4 DEF Standing, Dated
<1>11. CASE Claim(c)
  BY <1>1, <1>3, <1>11 DEF Claim, GoTo, Call
<1>12. CASE ReadRatings(c)
  <2>1. CASE At(c, "ratings")
    BY <1>1, <1>12, <2>1 DEF ReadRatings, tables, At, Call
  <2>2. CASE ~At(c, "ratings")
    BY <1>1, <1>12, <2>2 DEF ReadRatings, tables, At, Call
  <2> QED BY <2>1, <2>2
<1>13. CASE SaveRating(c)
  <2>1. CASE At(c, "rateOne")
    BY <1>1, <1>13, <2>1 DEF SaveRating, At, Call
  <2>2. CASE ~At(c, "rateOne")
    BY <1>1, <1>13, <2>2 DEF SaveRating, At, Call
  <2> QED BY <2>1, <2>2
<1>14. CASE ReadProfile(c)
  BY <1>1, <1>14 DEF ReadProfile, tables, At, Call
<1>15. CASE Pay(c)
  <2>1. call[c].at = "pay" /\ <<U(c), M(c)>> \notin ledger
    BY <1>1, <1>15 DEF Pay, At, Here, Owed
  <2> QED BY <1>1, <1>15, <2>1 DEF Pay, Call
<1>16. CASE RecordActivity(c)
  BY <1>1, <1>16 DEF RecordActivity, At, Call
<1>17. CASE SaveStreak(c)
  BY <1>1, <1>17 DEF SaveStreak, At, Call
<1>18. CASE RollChest(c)
  BY <1>1, <1>18 DEF RollChest, At, Call
<1>19. CASE Found(c)
  BY <1>1, <1>3, <1>19 DEF Found, Raises, At, Call
<1>20. CASE ReadStanding(c)
  <2>1. call[c].at = "standing" /\ ladder' = ladder
    BY <1>20 DEF ReadStanding, At, tables
  <2>2. CASE Standing(c) = None
    BY <1>1, <1>20, <2>1, <2>2 DEF ReadStanding, Call
  <2>3. CASE Standing(c) # None
    <3>1. call'[c] = [call[c] EXCEPT !.at = "climb", !.standing = Standing(c)]
      BY <1>1, <1>20, <2>3 DEF ReadStanding
    <3>2. /\ call'[c].at = "climb" /\ call'[c].standing = Standing(c)
          /\ call'[c].who = call[c].who /\ call'[c].season = call[c].season
      BY <1>1, <3>1 DEF Call
    <3> QED BY <1>20, <2>1, <2>3, <3>2 DEF Standing
  <2> QED BY <2>2, <2>3
<1>21. CASE OpenStanding(c)
  <2>1. call[c].at = "open"
    BY <1>21 DEF OpenStanding, At
  <2>2. CASE Standing(c) = None
    <3>1. /\ call'[c] = [call[c] EXCEPT !.at = "climb", !.standing = {}, !.loot = FALSE]
          /\ ladder' = [ladder EXCEPT ![<<call[c].season, U(c)>>] = {}]
      BY <1>1, <1>21, <2>2 DEF OpenStanding
    <3>2. /\ call'[c].at = "climb" /\ call'[c].standing = {}
          /\ call'[c].who = call[c].who /\ call'[c].season = call[c].season
      BY <1>1, <3>1 DEF Call
    <3>3. ladder'[<<call[c].season, U(c)>>] = {} /\ {} # None
      BY <1>1, <1>4, <2>1, <3>1 DEF Dated
    <3> QED BY <1>21, <2>1, <3>2, <3>3
  <2>3. CASE Standing(c) # None /\ ~Raises(c)
    <3>1. /\ call'[c] = [call[c] EXCEPT !.at = "climb", !.standing = Standing(c)]
          /\ ladder' = ladder
      BY <1>1, <1>21, <2>3 DEF OpenStanding
    <3>2. /\ call'[c].at = "climb" /\ call'[c].standing = Standing(c)
          /\ call'[c].who = call[c].who /\ call'[c].season = call[c].season
      BY <1>1, <3>1 DEF Call
    <3> QED BY <1>21, <2>1, <2>3, <3>1, <3>2 DEF Standing
  <2>4. CASE Raises(c)
    BY <1>3, <2>4 DEF Raises
  <2> QED BY <2>2, <2>3, <2>4
<1>22. CASE Climb(c)
  BY <1>1, <1>22 DEF Climb, At, Call
<1>23. CASE SyncAchievements(c)
  <2>1. call[c].at = "achieve" /\ call'[c] = NextPlayer(c)
    BY <1>1, <1>23 DEF SyncAchievements, At
  <2>2. CASE call[c].who = 1
    <3>1. call'[c] = [call[c] EXCEPT !.who = 2, !.at = "profile"]
      BY <1>1, <2>1, <2>2 DEF NextPlayer
    <3> QED BY <1>1, <1>23, <2>1, <2>2, <3>1 DEF Call
  <2>3. CASE call[c].who = 2
    <3>1. call'[c] = [Idle EXCEPT !.at = "quests"]
      BY <2>1, <2>3 DEF NextPlayer, At
    <3> QED BY <1>2, <1>23, <2>1, <2>3, <3>1
  <2> QED BY <1>1, <2>2, <2>3
<1>24. CASE TrackQuests(c)
  <2>1. call[c].at = "quests" /\ call'[c] = NextPlayer(c)
    BY <1>1, <1>24 DEF TrackQuests, At
  <2>2. CASE call[c].who = 1
    <3>1. call'[c] = [call[c] EXCEPT !.who = 2, !.at = "quests"]
      BY <1>1, <2>1, <2>2 DEF NextPlayer
    <3> QED BY <1>1, <1>24, <2>1, <3>1 DEF Call, Last
  <2>3. CASE call[c].who = 2
    <3>1. call'[c] = [Idle EXCEPT !.at = "finish"]
      BY <2>1, <2>3 DEF NextPlayer, At
    <3> QED BY <1>2, <1>24, <2>1, <3>1 DEF Last
  <2> QED BY <1>1, <2>2, <2>3
<1>25. CASE FinishRow(c)
  BY <1>3, <1>25 DEF FinishRow
<1>26. CASE DbFails(c)
  BY <1>3, <1>26 DEF DbFails
<1> QED BY <1>11, <1>12, <1>13, <1>14, <1>15, <1>16, <1>17, <1>18, <1>19, <1>20, <1>21, <1>22,
           <1>23, <1>24, <1>25, <1>26 DEF Step

(* What the session has just read or written is what is stored.              *)
LEMMA OwnFresh ==
  ASSUME TypeOK, Order, Counts, NEW c \in Calls, Step(c)
  PROVE  Fresh(c)'
<1>1. /\ M(c)' = M(c) /\ Players(M(c))' = Players(M(c)) /\ Players(M(c)) \subseteq Users
      /\ U(c) \in Users /\ U(c) \in Players(M(c))
      /\ Seats[M(c)][1] \in Players(M(c)) /\ Seats[M(c)][2] \in Players(M(c))
      /\ call[c].rating \in [Users -> SUBSET Matches] /\ rated \in [Users -> SUBSET Matches]
      /\ activity \in [Users -> SUBSET Calendar] /\ day \in Calendar
  BY Seating DEF M, Players, TypeOK
<1>2. call'[c].who = call[c].who => U(c)' = U(c)
  BY <1>1 DEF U, M
<1>3. Fresh(c)
  BY DEF Counts
<1>4. ASSUME call'[c].at \notin {"ratingTwo", "rateOne", "rateTwo", "pay", "climb", "activity", "streak"} PROVE Fresh(c)'
  BY <1>4 DEF Fresh
<1>10. CASE /\ call'[c].at = "ratingTwo" /\ rated' = rated
            /\ call'[c].rating = [call[c].rating EXCEPT ![Seats[M(c)][1]] = rated[Seats[M(c)][1]]]
  <2>1. call'[c].rating[Seats[M(c)][1]] = rated'[Seats[M(c)][1]]
    BY <1>1, <1>10
  <2> QED BY <1>1, <1>10, <2>1 DEF Fresh, Agree
<1>11. CASE /\ ReadRatings(c) /\ call[c].at = "ratingTwo" /\ call'[c].at = "rateOne" /\ rated' = rated
            /\ call'[c].rating = [call[c].rating EXCEPT ![Seats[M(c)][2]] = rated[Seats[M(c)][2]]]
  <2>1. overlapped' = overlapped
    BY <1>11 DEF ReadRatings
  <2>2. call[c].rating[Seats[M(c)][1]] \ overlapped = rated[Seats[M(c)][1]] \ overlapped
    BY <1>3, <1>11 DEF Fresh, Agree
  <2>3. Players(M(c)) = {Seats[M(c)][1], Seats[M(c)][2]}
    BY DEF Players
  <2>4. \A u \in Players(M(c)) : call'[c].rating[u] \ overlapped' = rated'[u] \ overlapped'
    BY <1>1, <1>11, <2>1, <2>2, <2>3
  <2> QED BY <1>1, <1>11, <2>4 DEF Fresh, Agree
<1>12. CASE /\ call[c].at = "rateOne" /\ call'[c].at = "rateTwo"
            /\ rated' = [rated EXCEPT ![Seats[M(c)][1]] = Rated(c, 1)]
            /\ call'[c].rating = [call[c].rating EXCEPT ![Seats[M(c)][1]] = Rated(c, 1)]
  <2>1. overlapped' = overlapped
    BY <1>12, RacedKept DEF Counts, InFlight, Settling
  <2>2. \A u \in Players(M(c)) : call[c].rating[u] \ overlapped = rated[u] \ overlapped
    BY <1>3, <1>12 DEF Fresh, Agree
  <2>3. \A u \in Players(M(c)) : call'[c].rating[u] \ overlapped' = rated'[u] \ overlapped'
    BY <1>1, <1>12, <2>1, <2>2
  <2> QED BY <1>1, <1>12, <2>3 DEF Fresh, Agree
<1>13. CASE call'[c].at = "pay" /\ call'[c].who = call[c].who /\ call'[c].profile = profile[U(c)] /\ profile' = profile
  BY <1>2, <1>13 DEF Fresh, Agree
<1>14. CASE call'[c].at = "activity" /\ call'[c].who = call[c].who /\ call'[c].profile = profile[U(c)] /\ profile' = profile
  BY <1>2, <1>14 DEF Fresh, Agree
<1>15. CASE /\ RecordActivity(c) /\ call[c].at = "activity" /\ call'[c].at = "streak"
            /\ call'[c].who = call[c].who /\ call'[c].today = day
            /\ call'[c].profile = call[c].profile /\ profile' = profile
  <2>1. overlapped' = overlapped
    BY <1>15, RacedKept DEF Counts, InFlight, Settling
  <2>2. day \in activity'[U(c)]
    BY <1>1, <1>15 DEF RecordActivity
  <2>3. Calm(U(c)) => call[c].profile.streak = profile[U(c)].streak /\ call[c].profile.last = profile[U(c)].last
    BY <1>3, <1>15 DEF Fresh
  <2>4. Calm(U(c))' => Calm(U(c))
    BY <1>2, <1>15, <2>1 DEF Calm, Players
  <2> QED BY <1>2, <1>15, <2>2, <2>3, <2>4 DEF Fresh
<1>16. CASE /\ call'[c].at = "climb" /\ call'[c].who = call[c].who /\ call'[c].season = call[c].season
            /\ call'[c].standing # None /\ call'[c].standing = ladder'[<<call[c].season, U(c)>>]
  BY <1>2, <1>16 DEF Fresh, Agree, Standing
<1>17. ASSUME call'[c].at \in {"ratingTwo", "rateOne", "rateTwo"} PROVE Fresh(c)'
  BY <1>10, <1>11, <1>12, <1>17, Moves DEF Last
<1>18. ASSUME call'[c].at \in {"pay", "activity"} PROVE Fresh(c)'
  BY <1>13, <1>14, <1>18, Moves DEF Last
<1>19. ASSUME call'[c].at \in {"streak", "climb"} PROVE Fresh(c)'
  BY <1>15, <1>16, <1>19, Moves DEF Last
<1> QED BY <1>4, <1>17, <1>18, <1>19

(* What the call has brought its players is there when it goes on from it.   *)
LEMMA OwnStands ==
  ASSUME TypeOK, Order, Counts, NEW c \in Calls, Step(c)
  PROVE  Stands(c)'
<1> DEFINE one == Seats[M(c)][1]
           two == Seats[M(c)][2]
           Up  == {u \in Users : \E s \in Months : ladder'[<<s, u>>] # None /\ M(c) \in ladder'[<<s, u>>]}
           Was == {u \in Users : Climbed(u, M(c))}
<1>1. /\ M(c) \in Matches /\ M(c)' = M(c) /\ Players(M(c))' = Players(M(c)) /\ Months' = Months
      /\ one \in Users /\ two \in Users /\ one # two /\ Players(M(c)) = {one, two}
      /\ U(c) = IF call[c].who = 1 THEN one ELSE two
      /\ call[c].who \in 1..2
      /\ call[c].rating \in [Users -> SUBSET Matches] /\ rated \in [Users -> SUBSET Matches]
      /\ ladder \in [Months \X Users -> (SUBSET Matches) \cup {None}]
      /\ call[c].standing \in SUBSET Matches
  <2>1. Seats[M(c)] \in Users \X Users /\ M(c) \in Matches
    BY Seating
  <2>2. /\ M(c)' = M(c) /\ Players(M(c))' = Players(M(c)) /\ Months' = Months /\ Players(M(c)) = {one, two}
    BY DEF M, Players, Months
  <2>3. U(c) = IF call[c].who = 1 THEN one ELSE two
    BY Seating DEF U
  <2> QED BY <2>1, <2>2, <2>3, Seating DEF TypeOK
<1>2. U(c)' = IF call'[c].who = 1 THEN one ELSE IF call'[c].who = 2 THEN two ELSE U(c)'
  BY <1>1 DEF U
<1> SUFFICES ASSUME M(c) \notin overlapped' PROVE Stands(c)'
  BY <1>1 DEF Stands
<1>3. M(c) \notin overlapped
  BY RacedKept DEF Counts
<1>4. \A u \in Players(M(c)) : M(c) \in rated[u] => M(c) \in rated'[u]
  BY <1>1, <1>3, CalmIsKept
<1>5. Was \subseteq Up
  <2>1. SUFFICES ASSUME NEW u \in Users, NEW m \in Matches, m = M(c)
                 PROVE  Climbed(u, m) => \E s \in Months : ladder'[<<s, u>>] # None /\ m \in ladder'[<<s, u>>]
    BY <1>1
  <2>2. Climbed(u, m) => Climbed(u, m)'
    BY <1>1, <1>3, <2>1, CalmIsKept
  <2> QED BY <1>1, <2>2 DEF Climbed
<1>6. /\ call[c].at = "rateTwo" => M(c) \in rated[one]
      /\ call[c].at \in {"profile", "pay"} \cup Paying \cup Last => \A u \in {one, two} : M(c) \in rated[u]
      /\ call[c].at = "achieve" => U(c) \in Was
      /\ call[c].at \in Owed \cup Paying /\ call[c].who = 2 => one \in Was
      /\ call[c].at \in Last => {one, two} \subseteq Was
  <2>1. \A u \in {one, two} : Climbed(u, M(c)) <=> u \in Was
    BY <1>1
  <2>2. Stands(c)
    BY DEF Counts
  <2> HIDE DEF Was
  <2> QED BY <1>1, <1>3, <2>1, <2>2 DEF Stands
<1>7. ASSUME /\ call'[c].at = "rateTwo" => M(c) \in rated'[one]
             /\ call'[c].at \in {"profile", "pay"} \cup Paying \cup Last => \A u \in {one, two} : M(c) \in rated'[u]
             /\ call'[c].at = "achieve" => U(c)' \in Up
             /\ call'[c].at \in Owed \cup Paying /\ call'[c].who = 2 => one \in Up
             /\ call'[c].at \in Last => {one, two} \subseteq Up
      PROVE  Stands(c)'
  BY <1>1, <1>7 DEF Stands, Climbed
<1> HIDE DEF one, two, Up, Was
<1>8. CASE call'[c].at = "over"
  BY <1>7, <1>8 DEF Owed, First, Paying, Last
<1>9. ASSUME call'[c].at \in {"ratings", "ratingTwo", "rateOne"}, call'[c].who = call[c].who, call[c].at \in First \cup {"new"}
      PROVE  Stands(c)'
  <2>1. call[c].who = 1
    BY <1>9 DEF Order, Here
  <2> QED BY <1>7, <1>9, <2>1 DEF Paying, Last
<1>10. ASSUME call[c].at \in {"profile", "pay"} \cup Paying, call'[c].who = call[c].who,
              call'[c].at \in {"profile", "pay"} \cup (Paying \ {"achieve"})
       PROVE  Stands(c)'
  <2>1. /\ \A u \in {one, two} : M(c) \in rated'[u]
        /\ call[c].who = 2 => one \in Up
    BY <1>1, <1>4, <1>5, <1>6, <1>10 DEF Owed
  <2>2. call'[c].at \notin Last /\ call'[c].at # "rateTwo" /\ call'[c].at # "achieve"
    BY <1>10 DEF Paying, Last
  <2> QED BY <1>7, <1>10, <2>1, <2>2
<1>11. CASE /\ call[c].at = "rateOne" /\ call'[c].at = "rateTwo" /\ call'[c].who = call[c].who
            /\ rated' = [rated EXCEPT ![Seats[M(c)][1]] = Rated(c, 1)]
  <2>1. call[c].who = 1
    BY <1>11 DEF Order, Here, First
  <2>2. M(c) \in rated'[one]
    BY <1>1, <1>11 DEF Rated, one
  <2> QED BY <1>7, <1>11, <2>1, <2>2 DEF Paying, Last
<1>12. CASE /\ call[c].at = "rateTwo" /\ call'[c].at = "profile" /\ call'[c].who = call[c].who
            /\ rated' = [rated EXCEPT ![Seats[M(c)][2]] = Rated(c, 2)]
  <2>1. call[c].who = 1
    BY <1>12 DEF Order, Here, First
  <2>2. M(c) \in rated'[two]
    BY <1>1, <1>12 DEF Rated, two
  <2>3. M(c) \in rated'[one]
    BY <1>1, <1>4, <1>6, <1>12
  <2> QED BY <1>7, <1>12, <2>1, <2>2, <2>3 DEF Paying, Last
<1>13. CASE Climb(c) /\ call[c].at = "climb" /\ call'[c].at = "achieve" /\ call'[c].who = call[c].who
  <2>1. /\ \A u \in {one, two} : M(c) \in rated'[u]
        /\ call[c].who = 2 => one \in Up
    BY <1>1, <1>4, <1>5, <1>6, <1>13 DEF Owed, Paying
  <2>2. U(c)' = U(c) /\ U(c) \in Users
    BY <1>1, <1>2, <1>13
  <2>3. call[c].season \in Months
    BY <1>13 DEF Order, Here, Dated
  <2>4. ladder' = [ladder EXCEPT ![<<call[c].season, U(c)>>] = call[c].standing \cup {M(c)}]
    BY <1>13 DEF Climb
  <2>5. ladder'[<<call[c].season, U(c)>>] = call[c].standing \cup {M(c)}
    BY <1>1, <2>2, <2>3, <2>4
  <2>6. call[c].standing \cup {M(c)} # None
    BY <1>1
  <2>7. U(c)' \in Up
    BY <2>2, <2>3, <2>5, <2>6 DEF Up
  <2> QED BY <1>7, <1>13, <2>1, <2>7 DEF Last
<1>14. CASE /\ call[c].at = "achieve"
            /\ \/ call[c].who = 1 /\ call'[c].who = 2 /\ call'[c].at = "profile"
               \/ call[c].who = 2 /\ call'[c].who = 1 /\ call'[c].at = "quests"
  <2>1. /\ \A u \in {one, two} : M(c) \in rated'[u]
        /\ call[c].who = 2 => one \in Up
        /\ U(c) \in Up
    BY <1>1, <1>4, <1>5, <1>6, <1>14 DEF Owed, Paying
  <2>2. call[c].who = 1 => one \in Up
    BY <1>1, <2>1
  <2>3. call[c].who = 2 => two \in Up
    BY <1>1, <2>1
  <2>4. CASE call[c].who = 1
    BY <1>7, <1>14, <2>1, <2>2, <2>4 DEF Last, Owed, First
  <2>5. CASE call[c].who = 2
    BY <1>7, <1>14, <2>1, <2>3, <2>5 DEF Last, Owed, First, Paying
  <2> QED BY <1>14, <2>4, <2>5
<1>15. CASE call[c].at = "quests" /\ call'[c].at \in Last
  <2>1. /\ \A u \in {one, two} : M(c) \in rated'[u]
        /\ {one, two} \subseteq Up
    BY <1>1, <1>4, <1>5, <1>6, <1>15 DEF Last
  <2> QED BY <1>7, <1>15, <2>1 DEF Last, Owed, First, Paying
<1>16. Claim(c) => call[c].at = "new"
  BY DEF Claim, At
<1>17. ReadRatings(c) => call[c].at \in {"ratings", "ratingTwo"}
  BY DEF ReadRatings, At
<1> QED BY <1>8, <1>9, <1>10, <1>11, <1>12, <1>13, <1>14, <1>15, <1>16, <1>17, Moves DEF Paying,
           First

-----------------------------------------------------------------------------
(* The ledger and the results, for matches nobody raced.                     *)
LEMMA LedgerKept ==
  ASSUME TypeOK, Order, Counts, NEW c \in Calls, Step(c),
         NEW m \in Matches, m \notin overlapped', NEW u \in Players(m)
  PROVE  /\ <<u, m>> \in ledger' => m \in profile'[u].paid /\ m \in rated'[u]
         /\ match'[m].result => \E s \in Months : ladder'[<<s, u>>] # None /\ m \in ladder'[<<s, u>>]
<1>1. m \notin overlapped /\ u \in Users
  BY RacedKept DEF Counts, Players
<1>2. /\ m \in rated[u] => m \in rated'[u]
      /\ m \in profile[u].paid => m \in profile'[u].paid
      /\ Climbed(u, m) => \E s \in Months : ladder'[<<s, u>>] # None /\ m \in ladder'[<<s, u>>]
  BY <1>1, CalmIsKept DEF Climbed, Months
<1>3. Stands(c)
  BY DEF Counts
<1>4. ASSUME <<u, m>> \in ledger' PROVE m \in profile'[u].paid /\ m \in rated'[u]
  <2>1. CASE <<u, m>> \in ledger
    BY <1>1, <1>2, <2>1 DEF Counts, CountsAreTrue
  <2>2. CASE <<u, m>> \notin ledger
    <3>1. u = U(c) /\ m = M(c) /\ call[c].at = "pay"
      BY <1>4, <2>2, Effects
    <3>2. Pay(c) /\ profile' = [profile EXCEPT ![U(c)] = Paid(c)]
      BY <1>4, <2>2, <3>1 DEF Step, At, tables, Claim, ReadRatings, SaveRating, ReadProfile, Pay,
         RecordActivity,
              SaveStreak, RollChest, Found, ReadStanding, OpenStanding, Climb, SyncAchievements,
              TrackQuests, FinishRow, DbFails
    <3>3. profile \in [Users -> Profile] /\ profile[u] \in Profile
      BY <1>1 DEF TypeOK
    <3>4. Paid(c).paid = call[c].profile.paid \cup {M(c)}
      BY <3>1, <3>3 DEF Paid, Profile
    <3>5. m \in profile'[u].paid
      BY <1>1, <3>1, <3>2, <3>3, <3>4
    <3>6. m \in rated[u]
      BY <1>1, <1>3, <3>1 DEF Stands
    <3> QED BY <1>2, <3>5, <3>6
  <2> QED BY <2>1, <2>2
<1>5. ASSUME match'[m].result PROVE Climbed(u, m)
  <2>1. CASE match[m].result
    BY <1>1, <2>1 DEF Counts, CountsAreTrue, Climbed
  <2>2. CASE ~match[m].result
    <3>1. call[c].at = "finish" /\ m = M(c)
      BY <1>5, <2>2, Finishing DEF At
    <3> QED BY <1>1, <1>3, <3>1 DEF Stands, Last
  <2> QED BY <2>1, <2>2
<1> QED BY <1>2, <1>4, <1>5

(* The streak is saved from what is stored, for a day that has its row.      *)
LEMMA StreakKept ==
  ASSUME TypeOK, Order, Counts, NEW c \in Calls, Step(c), NEW u \in Users
  PROVE  /\ profile'[u].streak >= 1
         /\ Calm(u)' => \A k \in 0..(profile'[u].streak - 1) : profile'[u].last - k \in activity'[u]
<1>1. /\ profile \in [Users -> Profile] /\ profile[u] \in Profile /\ U(c) \in Users
      /\ call[c].profile \in Profile /\ call[c].today \in Calendar
  BY Seating DEF TypeOK
<1>2. profile[u].streak >= 1 /\ profile[u].streak \in Nat /\ profile[u].last \in Int
  BY <1>1 DEF Counts, Profile, Calendar
<1>3. Calm(u)' => Calm(u)
  BY RacedKept DEF Counts, Calm, Players
<1>4. activity[u] \subseteq activity'[u]
  BY ActivityGrows
<1>5. Calm(u) => \A k \in 0..(profile[u].streak - 1) : profile[u].last - k \in activity[u]
  BY DEF Counts, CountsAreTrue, Calm
<1>6. CASE profile'[u].streak = profile[u].streak /\ profile'[u].last = profile[u].last
  BY <1>2, <1>3, <1>4, <1>5, <1>6
<1>7. CASE SaveStreak(c) /\ u = U(c)
  <2> DEFINE s == call[c].profile.streak
             l == call[c].profile.last
             t == call[c].today
             new == streak_after(s, l, t)
  <2>1. s \in Nat /\ l \in Int /\ t \in Int
    BY <1>1 DEF Profile, Calendar
  <2>2. call[c].at = "streak"
    BY <1>7 DEF SaveStreak, At
  <2>3. /\ profile'[u].streak = IF new # s THEN new ELSE profile[u].streak
        /\ profile'[u].last = IF t # l THEN t ELSE profile[u].last
    <3> DEFINE a == IF new # s THEN new ELSE profile[u].streak
               b == IF t # l THEN t ELSE profile[u].last
    <3>1. profile'[u] = [profile[u] EXCEPT !.streak = a, !.last = b]
      BY <1>1, <1>7 DEF SaveStreak
    <3> HIDE DEF a, b
    <3>2. profile'[u].streak = a /\ profile'[u].last = b
      BY <1>1, <3>1 DEF Profile
    <3> QED BY <3>2 DEF a, b
  <2>4. /\ t = l => new = (IF s > 1 THEN s ELSE 1)
        /\ t = l + 1 => new = (IF s > 1 THEN s ELSE 1) + 1
        /\ t # l /\ t # l + 1 => new = 1
    BY <2>1 DEF streak_after
  <2>5. Fresh(c) /\ (Calm(u) => s = profile[u].streak /\ l = profile[u].last) /\ t \in activity[u]
    BY <1>7, <2>2 DEF Counts, Fresh
  <2> HIDE DEF s, l, t, new
  <2>6. profile'[u].streak >= 1
    BY <1>2, <2>1, <2>3, <2>4
  <2>7. ASSUME Calm(u), NEW k \in 0..(profile'[u].streak - 1)
        PROVE  profile'[u].last - k \in activity'[u]
    <3>1. s = profile[u].streak /\ l = profile[u].last /\ s >= 1
      BY <1>2, <2>5, <2>7
    <3>2. profile'[u].streak = new /\ profile'[u].last = t
      BY <2>3, <3>1
    <3>3. \A j \in 0..(s - 1) : l - j \in activity[u]
      BY <1>5, <2>7, <3>1
    <3>4. CASE t = l
      <4>1. new = s
        BY <2>1, <2>4, <3>1, <3>4
      <4>2. k \in 0..(s - 1)
        BY <2>7, <3>2, <4>1
      <4> QED BY <1>4, <3>2, <3>3, <3>4, <4>2
    <3>5. CASE t = l + 1
      <4>1. new = s + 1
        BY <2>1, <2>4, <3>1, <3>5
      <4>2. k \in 0..s
        BY <2>1, <2>7, <3>2, <4>1
      <4>3. CASE k = 0
        BY <1>4, <2>1, <2>5, <3>2, <4>3
      <4>4. CASE k # 0
        <5>1. k - 1 \in 0..(s - 1) /\ t - k = l - (k - 1)
          BY <2>1, <3>5, <4>2, <4>4
        <5> QED BY <1>4, <3>2, <3>3, <5>1
      <4> QED BY <4>3, <4>4
    <3>6. CASE t # l /\ t # l + 1
      <4>1. new = 1
        BY <2>4, <3>6
      <4>2. k = 0
        BY <2>7, <3>2, <4>1
      <4> QED BY <1>4, <2>1, <2>5, <3>2, <4>2
    <3> QED BY <3>4, <3>5, <3>6
  <2> QED BY <1>3, <2>6, <2>7
<1>8. (profile'[u].streak = profile[u].streak /\ profile'[u].last = profile[u].last) \/ (SaveStreak(c) /\ u = U(c))
  <2>1. CASE Pay(c)
    <3>1. profile' = profile \/ profile' = [profile EXCEPT ![U(c)] = Paid(c)]
      BY <2>1 DEF Pay
    <3>2. Paid(c).streak = profile[U(c)].streak /\ Paid(c).last = profile[U(c)].last
      BY <1>1 DEF Paid, Profile
    <3> QED BY <1>1, <3>1, <3>2
  <2>2. CASE SaveStreak(c)
    BY <1>1, <2>2 DEF SaveStreak
  <2>3. profile' = profile \/ Pay(c) \/ SaveStreak(c)
    BY DEF Step, tables, Claim, ReadRatings, SaveRating, ReadProfile, RecordActivity,
           RollChest, Found, ReadStanding, OpenStanding, Climb, SyncAchievements, TrackQuests,
           FinishRow, DbFails
  <2> QED BY <2>1, <2>2, <2>3
<1> QED BY <1>6, <1>7, <1>8

(* What is unlocked was measured on a rating, which only counts the played.  *)
LEMMA AchievedKept ==
  ASSUME TypeOK, Order, Counts, Finite, NEW c \in Calls, Step(c), NEW u \in Users
  PROVE  achieved'[u] <= Cardinality(Played(u)')
<1>1. /\ achieved \in [Users -> Nat] /\ U(c) \in Users
      /\ call[c].rating[u] \subseteq Played(u)
  BY Seating DEF TypeOK, Order, RatedPlayed
<1>2. achieved[u] <= Cardinality(Played(u))
  BY DEF Counts, CountsAreTrue, Played
<1>3. Cardinality(Played(u)) <= Cardinality(Played(u)') /\ Cardinality(Played(u)') \in Nat
      /\ Cardinality(Played(u)) \in Nat
  <2>1. Played(u) \subseteq Played(u)' /\ Played(u)' \subseteq {m \in Matches : match'[m].status = "FINISHED"}
    BY Finishing DEF Played, Players
  <2>2. IsFiniteSet({m \in Matches : match'[m].status = "FINISHED"})
    BY FiniteStep DEF Finite
  <2>3. IsFiniteSet(Played(u)')
    BY <2>1, <2>2, FS_Subset
  <2> QED BY <2>1, <2>3, FS_Subset, FS_CardinalityType
<1>4. /\ Cardinality(call[c].rating[u]) \in Nat
      /\ Cardinality(call[c].rating[u]) <= Cardinality(Played(u))
  BY <1>1, PlayedCounts
<1>5. achieved'[u] \in {achieved[u], Cardinality(call[c].rating[u])}
  <2>1. CASE SyncAchievements(c)
    BY <1>1, <2>1 DEF SyncAchievements, Reached
  <2>2. achieved' = achieved \/ SyncAchievements(c)
    BY DEF Step, tables, Claim, ReadRatings, SaveRating, ReadProfile, Pay, RecordActivity,
       SaveStreak,
           RollChest, Found, ReadStanding, OpenStanding, Climb, TrackQuests, FinishRow, DbFails
  <2> QED BY <2>1, <2>2
<1> QED BY <1>1, <1>2, <1>3, <1>4, <1>5

(* A step keeps what is counted.                                             *)
LEMMA CountsStep ==
  ASSUME TypeOK, Order, Counts, Finite, NEW c \in Calls, Step(c)
  PROVE  Counts'
<1>1. \A d \in Calls : Fresh(d)' /\ Stands(d)'
  BY OthersFresh, OwnFresh, OwnStands
<1>2. Raced'
  BY RacedKept DEF Counts
<1>3. \A u \in Users : profile'[u].streak >= 1
  BY StreakKept
<1>4. ASSUME NEW u \in Users
      PROVE  /\ (\A m \in overlapped' : u \notin Players(m)) =>
                  \A k \in 0..(profile'[u].streak - 1) : profile'[u].last - k \in activity'[u]
             /\ achieved'[u] <= Cardinality({m \in Matches : match'[m].status = "FINISHED" /\ u \in Players(m)})
  BY StreakKept, AchievedKept DEF Calm, Played, Players
<1>5. ASSUME NEW m \in Matches \ overlapped', NEW u \in Players(m)
      PROVE  /\ <<u, m>> \in ledger' => m \in profile'[u].paid /\ m \in rated'[u]
             /\ match'[m].result => \E s \in Months : ladder'[<<s, u>>] # None /\ m \in ladder'[<<s, u>>]
  BY LedgerKept
<1>6. CountsAreTrue'
  BY <1>4, <1>5 DEF CountsAreTrue, Players, Months
<1> QED BY <1>1, <1>2, <1>3, <1>6 DEF Counts

(* Nothing is counted where nothing is written.                              *)
LEMMA CountsUnchanged ==
  ASSUME Counts, UNCHANGED <<match, rated, ledger, profile, activity, ladder, achieved, call, overlapped>>
  PROVE  Counts'
<1>1. \A c \in Calls : /\ M(c)' = M(c) /\ U(c)' = U(c) /\ Standing(c)' = Standing(c)
                       /\ Players(M(c))' = Players(M(c)) /\ InFlight(c)' = InFlight(c)
  BY DEF M, U, Standing, Players, InFlight
<1>2. CountsAreTrue'
  BY DEF Counts, CountsAreTrue, Players, Months
<1>3. Raced'
  BY <1>1 DEF Counts, Raced
<1>4. \A c \in Calls : Fresh(c)'
  <2>1. \A c \in Calls : Fresh(c)
    BY DEF Counts
  <2> QED BY <1>1, <2>1 DEF Fresh, Agree, Calm, Players
<1>5. \A c \in Calls : Stands(c)'
  <2>1. \A c \in Calls : Stands(c)
    BY DEF Counts
  <2> QED BY <1>1, <2>1 DEF Stands, Climbed, Months
<1>6. \A u \in Users : profile'[u].streak >= 1
  BY DEF Counts
<1> QED BY <1>2, <1>3, <1>4, <1>5, <1>6 DEF Counts

(* The calendar and the seasons take nothing back, and a crash drops what    *)
(* was in flight.                                                            *)
LEMMA AroundCounts ==
  ASSUME TypeOK, Order, Counts, Around
  PROVE  Counts'
<1>1. Months' = Months
  BY DEF Months
<1>2. CASE UNCHANGED <<match, rated, ledger, profile, activity, ladder, achieved, call, overlapped>>
  BY <1>2, CountsUnchanged
<1>3. CASE Crash
  <2>1. \A c \in Calls : call'[c].at = "over"
    <3>1. \A c \in Calls : call'[c] = [Idle EXCEPT !.at = "over"]
      BY <1>3 DEF Crash
    <3> QED BY <3>1, IdleCall DEF Call
  <2>2. /\ UNCHANGED <<rated, ledger, profile, activity, ladder, achieved, overlapped>>
        /\ \A m \in Matches : /\ match'[m].status = "FINISHED" <=> match[m].status = "FINISHED"
                              /\ match'[m].result = match[m].result
    BY <1>3 DEF Crash, TypeOK, Status
  <2>3. \A u \in Users : {m \in Matches : match'[m].status = "FINISHED" /\ u \in Players(m)}
                          = {m \in Matches : match[m].status = "FINISHED" /\ u \in Players(m)}
    BY <2>2
  <2>4. CountsAreTrue'
    BY <1>1, <2>2, <2>3 DEF Counts, CountsAreTrue, Players
  <2>5. Raced' /\ \A c \in Calls : Fresh(c)' /\ Stands(c)'
    BY <2>1 DEF Raced, Fresh, Stands, InFlight, Settling, First, Last, Owed, Paying
  <2>6. \A u \in Users : profile'[u].streak >= 1
    BY <2>2 DEF Counts
  <2> QED BY <2>4, <2>5, <2>6 DEF Counts
<1>4. CASE RollOver \/ OpenSeason \/ NextDay
  BY <1>2, <1>4 DEF RollOver, OpenSeason, NextDay, tables
<1> QED BY <1>3, <1>4 DEF Around

-----------------------------------------------------------------------------
\* The inductive invariant.
IInv == TypeOK /\ Finite /\ Order /\ Counts

(* The first state has its types.                                            *)
LEMMA InitTypes ==
  ASSUME Init
  PROVE  TypeOK
<1>1. NoProfile \in Profile /\ Idle \in Call /\ 0 \in Calendar /\ NewSeason(0) \in Season
  BY IdleCall DEF Calendar, NewSeason, Season
<1>2. [NoProfile EXCEPT !.streak = 1] \in Profile
  BY <1>1 DEF Profile
<1>3. seasons \in [Months -> Season \cup {None}]
  BY <1>1 DEF Init
<1>4. match \in [Matches -> [status : Status, result : BOOLEAN]]
  BY DEF Init, Status
<1>5. sweep \in Sweep /\ errors \in 0..MaxErrors /\ crashes \in 0..MaxCrashes
  BY <1>1 DEF Init, Sweep
<1> QED BY <1>1, <1>2, <1>3, <1>4, <1>5 DEF Init, TypeOK

(* Nothing is settled in it.                                                 *)
LEMMA InitHolds ==
  ASSUME Init
  PROVE  IInv
<1>1. TypeOK
  BY InitTypes
<1>2. \A c \in Calls : call[c] = Idle
  BY DEF Init
<1>3. Idle.at = "new" /\ Idle.who = 1 /\ Idle.loot = FALSE /\ Idle.rating = [u \in Users |-> {}]
  BY DEF Idle
<1>4. \A m \in Matches : match[m].status = "IN_PROGRESS" /\ match[m].result = FALSE
  BY DEF Init
<1>5. {m \in Matches : match[m].status = "FINISHED"} = {}
  BY <1>4
<1>6. Finite
  BY <1>5, FS_EmptySet DEF Finite
<1>7. Order
  <2>1. Alone /\ \A c \in Calls : Here(c)
    BY <1>2, <1>3 DEF Alone, Here, InFlight, Settling, First, Last, Owed, Paying, Dated
  <2>2. RatedPlayed
    BY <1>2, <1>3 DEF RatedPlayed, Init
  <2>3. SettledInOrder
    <3>1. ledger = {} /\ chests = {} /\ quests = {} /\ rated = [u \in Users |-> {}]
      BY DEF Init
    <3>2. \A m \in Matches : Seats[m][1] \in Users
      OBVIOUS
    <3> QED BY <1>4, <3>1, <3>2 DEF SettledInOrder
  <2> QED BY <2>1, <2>2, <2>3 DEF Order
<1>8. Counts
  <2>1. Raced /\ \A c \in Calls : Fresh(c) /\ Stands(c)
    BY <1>2, <1>3 DEF Raced, Fresh, Stands, InFlight, Settling, First, Last, Owed, Paying
  <2>2. \A u \in Users : profile[u] = [NoProfile EXCEPT !.streak = 1] /\ activity[u] = {0} /\ achieved[u] = 0
    BY DEF Init
  <2>3. \A u \in Users : profile[u].streak = 1 /\ profile[u].last = 0
    BY <2>2 DEF NoProfile
  <2>4. CountsAreTrue
    <3>1. ledger = {}
      BY DEF Init
    <3>2. ASSUME NEW u \in Users
          PROVE  /\ \A k \in 0..(profile[u].streak - 1) : profile[u].last - k \in activity[u]
                 /\ achieved[u] <= Cardinality({m \in Matches : match[m].status = "FINISHED" /\ u \in Players(m)})
      <4>1. {m \in Matches : match[m].status = "FINISHED" /\ u \in Players(m)} = {}
        BY <1>4
      <4>2. achieved[u] <= Cardinality({m \in Matches : match[m].status = "FINISHED" /\ u \in Players(m)})
        <5>1. Cardinality({m \in Matches : match[m].status = "FINISHED" /\ u \in Players(m)}) = 0
          BY <4>1, FS_EmptySet
        <5> QED BY <2>2, <5>1
      <4>3. ASSUME NEW k \in 0..(profile[u].streak - 1)
            PROVE  profile[u].last - k \in activity[u]
        <5>1. k = 0
          BY <2>3, <4>3
        <5>2. profile[u].last - k = 0
          BY <2>3, <5>1
        <5> QED BY <2>2, <5>2
      <4> QED BY <4>2, <4>3
    <3> QED BY <1>4, <3>1, <3>2 DEF CountsAreTrue
  <2> QED BY <2>1, <2>3, <2>4 DEF Counts
<1> QED BY <1>1, <1>6, <1>7, <1>8 DEF IInv

(* Every step keeps the invariant.                                           *)
LEMMA StepHolds ==
  ASSUME IInv, [Next]_vars
  PROVE  IInv'
<1> USE DEF IInv
<1>1. CASE \E c \in Calls : Step(c)
  BY <1>1, TypesStep, FiniteStep, OrderStep, CountsStep
<1>2. CASE Around
  BY <1>2, AroundTypes, AroundOrder, AroundCounts DEF Finite
<1>3. CASE UNCHANGED vars
  <2>1. /\ UNCHANGED <<day, match, rated, ledger, profile, activity, chests, seasons, ladder, achieved, quests>>
        /\ UNCHANGED <<call, sweep, errors, crashes, overlapped>>
    BY <1>3 DEF vars, tables
  <2>2. \A c \in Calls : /\ M(c)' = M(c) /\ U(c)' = U(c) /\ Standing(c)' = Standing(c)
                         /\ Players(M(c))' = Players(M(c)) /\ InFlight(c)' = InFlight(c)
    BY <2>1 DEF M, U, Standing, Players, InFlight
  <2>3. TypeOK' /\ Finite'
    BY <2>1 DEF TypeOK, Finite, Months
  <2>4. Order'
    BY <2>1, <2>2 DEF Order, Alone, Here, RatedPlayed, SettledInOrder, Played, One, Two, Players,
       Months
  <2>5. Counts'
    BY <2>1, CountsUnchanged
  <2> QED BY <2>3, <2>4, <2>5
<1> QED BY <1>1, <1>2, <1>3 DEF Next, Around

(* What is inductive: types, finitely many matches finished, Order, Counts. *)
THEOREM InvariantHolds == Spec => []IInv
<1>1. Init => IInv
  BY InitHolds
<1>2. IInv /\ [Next]_vars => IInv'
  BY StepHolds
<1> QED BY <1>1, <1>2, PTL DEF Spec

(* The tables and the sessions keep their types.                            *)
THEOREM TypesHold == Spec => []TypeOK
<1>1. IInv => TypeOK
  BY DEF IInv
<1> QED BY <1>1, InvariantHolds, PTL

(* What has been committed of a settlement is a beginning of it: the gold    *)
(* before the chest, player one before player two, quests and the result     *)
(* after both, whatever save_result is cut off by.                           *)
THEOREM SettlementInOrder == Spec => []SettledInOrder
<1>1. IInv => SettledInOrder
  BY DEF IInv, Order
<1> QED BY <1>1, InvariantHolds, PTL

(* What is counted is what was played: a match nobody's settlement raced is  *)
(* in the rating, the balance and the standing of both its players, a streak *)
(* claims only days with a row, and achievements only matches that ended.    *)
THEOREM CountsHold == Spec => []CountsAreTrue
<1>1. IInv => CountsAreTrue
  BY DEF IInv, Counts
<1> QED BY <1>1, InvariantHolds, PTL

=============================================================================
