----------------------------- MODULE MCAccounts -----------------------------
(***************************************************************************)
(* What stands around the game, checked side by side: sign-ins, avatars,   *)
(* pushes, the admin's edits, quizzes, rate limits, the energy bar that    *)
(* refills by the clock, and the order of the learn path.  They share no   *)
(* row, so one of them moves in a behaviour and the others stay where they *)
(* start.                                                                  *)
(***************************************************************************)
EXTENDS Sessions, TLC

CONSTANTS r1, r2, x1, x2, t1, t2, t3

CONSTANTS Files,
          Users, Devices, Processes, Batch, Kinds,
          Options, Orders,
          Lessons, Filters, Banks, MaxCount, OverFetch, QUESTIONS_PER_LESSON,
          Rules, MaxKeyClock, Rate, Burst, MaxSocketClock,
          MAX_ENERGY, REGEN_INTERVAL, MATCH_COST, REVIEW_REFILL, MaxSkew, MaxTime,
          Opening, Deck, Extra, Guards, ORDER_OFFSET, MaxScripts, MaxEdits, MaxStarts, Absent

MCRules == [limit : 1..3, window_seconds : 2..4]

\* Tiles whose solution is not in the order of their ids, and repeats a word.
Tile(id, text, correct) == [id |-> id, text |-> text, correct |-> correct]
MCOptions ==
  <<<<"SELECT", <<Tile(1, "a", TRUE), Tile(2, "b", FALSE)>>>>,
    <<"SELECT", <<Tile(1, "a", FALSE), Tile(2, "b", FALSE)>>>>,
    <<"ASSIST", <<Tile(2, "a", TRUE), Tile(1, "b", FALSE), Tile(3, "c", TRUE)>>>>,
    <<"ORDER", <<Tile(2, "a", TRUE), Tile(1, "b", TRUE), Tile(3, "a", TRUE)>>>>,
    <<"ORDER", <<>>>>>>
MCChallenge(n) == LET o == MCOptions[1 + (n \div 4)] IN
  [lesson |-> 1 + (n % 2), filter |-> 1 + ((n \div 2) % 2), type |-> o[1], options |-> o[2]]

\* Which challenge has which id means nothing.
MCBanks == {[c \in 1..3 |-> MCChallenge(n[c])] :
              n \in {m \in [1..3 -> 0..19] : m[1] <= m[2] /\ m[2] <= m[3]}}

MCOpening == <<"t1", "t2">>
MCDeck    == <<"v1", "v2">>
MCGuards  == <<"OVERDRIVE", "AEGIS">>

VARIABLES subject,  \* the service that moves
          avatar_file_id, files, change,
          device, dead, due, studied, left, dispatched, sweep, sent,
          challenge, option, edit, overlapped,
          bank, drawn,
          rule, now, window, accepted,
          socket_now, tokens, last, warned, frames, told,
          stored, updated_at, energy_now,
          units, script, starting, bound, completed, owned, spent, calm, admin, guarded

pictures_vars == <<avatar_file_id, files, change>>
pushes_vars   == <<device, dead, due, studied, left, dispatched, sweep, sent>>
admin_vars    == <<challenge, option, edit, overlapped>>
quiz_vars     == <<bank, drawn>>
limiter_vars  == <<rule, now, window, accepted>>
throttle_vars == <<socket_now, tokens, last, warned, frames, told>>
energy_vars   == <<stored, updated_at, energy_now>>
path_vars     == <<units, script, starting, bound, completed, owned, spent, calm, admin, guarded>>
rest_vars     == <<limiter_vars, throttle_vars, energy_vars, path_vars>>

Pictures == INSTANCE Avatars
Pushes   == INSTANCE Notifications
Admin    == INSTANCE Content
Quiz     == INSTANCE QuizDraw
Limits   == INSTANCE RateLimit
Energy   == INSTANCE EnergyBar WITH now <- energy_now
Way      == INSTANCE LearnPath WITH ULTIMATES <- Guards

\* The assumptions, which an INSTANCE does not evaluate.
ASSUME AccountsAssumption ==
       /\ SessionsAssumption
       /\ Pictures!AvatarsAssumption
       /\ Pushes!NotificationsAssumption
       /\ Admin!ContentAssumption
       /\ Quiz!QuizAssumption
       /\ Limits!RateLimitAssumption
       /\ Energy!EnergyAssumption
       /\ Way!LearnPathAssumption

AccountsInit ==
  /\ subject \in {"account", "avatar", "push", "content", "quiz", "limit", "frame", "energy", "path"}
  /\ Init /\ Pictures!Init /\ Pushes!Init /\ Admin!Init
  /\ Limits!KeyInit /\ Limits!SocketInit /\ Energy!Init /\ Way!Init
  /\ IF subject = "quiz" THEN Quiz!Init ELSE bank = <<>> /\ drawn = Quiz!NoSet
  /\ subject # "energy" => stored = MAX_ENERGY /\ updated_at = 0
  /\ subject # "limit" => rule = CHOOSE some \in Rules : TRUE

AccountsNext ==
  \/ /\ subject = "account" /\ Next
     /\ UNCHANGED <<subject, pictures_vars, pushes_vars, admin_vars, quiz_vars, rest_vars>>
  \/ /\ subject = "avatar" /\ Pictures!Next
     /\ UNCHANGED <<subject, vars, pushes_vars, admin_vars, quiz_vars, rest_vars>>
  \/ /\ subject = "push" /\ Pushes!Next
     /\ UNCHANGED <<subject, vars, pictures_vars, admin_vars, quiz_vars, rest_vars>>
  \/ /\ subject = "content" /\ Admin!Next
     /\ UNCHANGED <<subject, vars, pictures_vars, pushes_vars, quiz_vars, rest_vars>>
  \/ /\ subject = "quiz" /\ Quiz!Next
     /\ UNCHANGED <<subject, vars, pictures_vars, pushes_vars, admin_vars, rest_vars>>
  \/ /\ subject = "limit" /\ Limits!KeyNext
     /\ UNCHANGED <<subject, vars, pictures_vars, pushes_vars, admin_vars, quiz_vars,
                    throttle_vars, energy_vars, path_vars>>
  \/ /\ subject = "frame" /\ Limits!SocketNext
     /\ UNCHANGED <<subject, vars, pictures_vars, pushes_vars, admin_vars, quiz_vars,
                    limiter_vars, energy_vars, path_vars>>
  \/ /\ subject = "energy" /\ Energy!Next
     /\ UNCHANGED <<subject, vars, pictures_vars, pushes_vars, admin_vars, quiz_vars,
                    limiter_vars, throttle_vars, path_vars>>
  \/ /\ subject = "path" /\ Way!Next
     /\ UNCHANGED <<subject, vars, pictures_vars, pushes_vars, admin_vars, quiz_vars,
                    limiter_vars, throttle_vars, energy_vars>>

AccountsSpec ==
  AccountsInit /\ [][AccountsNext]_<<subject, vars, pictures_vars, pushes_vars, admin_vars, quiz_vars, rest_vars>>

-----------------------------------------------------------------------------
(* Every service keeps its state in its types.                              *)
TypesOK ==
  /\ subject = "account" => TypeOK
  /\ subject = "avatar" => Pictures!TypeOK
  /\ subject = "push" => Pushes!TypeOK
  /\ subject = "content" => Admin!TypeOK
  /\ subject = "quiz" => Quiz!TypeOK
  /\ subject = "limit" => Limits!KeyTypeOK
  /\ subject = "frame" => Limits!SocketTypeOK
  /\ subject = "path" => Way!TypeOK

(* The file a profile names is in the store.                                *)
AvatarIsStored == subject = "avatar" => Pictures!AvatarIsStored

(* Nobody gets the same occasion twice, and no live device is switched off. *)
SentOnce == subject = "push" => Pushes!SentOnce

(* A challenge edited by one request at a time can always be asked, and its *)
(* options are shown in one order only; what is drawn from the bank is as   *)
(* many as can be, can be answered right, is graded alike everywhere and    *)
(* does not show its answer.                                                *)
ContentIsAskable ==
  /\ subject = "content" => Admin!AskableUnlessRaced /\ Admin!OneOrder
  /\ subject = "quiz" => /\ Quiz!DrawIsFull /\ Quiz!RoundsCanBeWon
                        /\ Quiz!OneVerdict /\ Quiz!ViewKeepsSecret

(* No limit is outrun: a window accepts no more than its limit and no       *)
(* stretch of its length twice as much, Retry-After is exact, and a socket  *)
(* stays within its burst and its rate.                                     *)
LimitsHold == /\ subject = "limit" => Limits!RetryIsExact /\ Limits!WithinLimits
              /\ subject = "frame" => Limits!FramesArePaced

(* The vocabulary deck is woven in whole and taken out whole, whatever an   *)
(* admin has made of the path before, and the opening units guard the       *)
(* ultimates in order.                                                      *)
PathIsKept == subject = "path" => Way!DeckIsWoven /\ Way!OpeningIsGuarded

(* The bar computed on reading is the one that refills by the clock, and    *)
(* the time it promises for the next point is kept.                         *)
LazyIsEager == Energy!LazyIsEager /\ [](Energy!TypeOK /\ Energy!PromiseIsKept)

Sym == Permutations({r1, r2}) \cup Permutations({x1, x2})
=============================================================================
