# Quiz-game backend: the verification project

TLA+ modules, model-checked with TLC and proved about with TLAPS, for the backend
under `src/` (FastAPI, one asyncio process, PostgreSQL). They cover the realtime
engines (duo matches, lesson battles), everything a result, a claim or a purchase
writes, the learner's progress, exams, quests and conversations, accounts, pushes and
content edits, the schema with its migrations, and the scripts that import content.

Paths below are relative to `src/app/` unless they start with `docs/`, `alembic/` or
`scripts/`.

## 1. The system: inventory

| Part | State it keeps | Operations | Hard because | Correct when |
|---|---|---|---|---|
| Duo registry `services/duo/registry.py` | waiting queue, live matches, user → match index, room codes (process memory) | enqueue, dequeue, find_opponent, register, bind_player, unregister, stale entries | three containers must agree; entries are keyed by user but hold a socket | seats and index agree; nobody queued and seated at once |
| Duo engine, lifecycle `services/duo/match_runtime.py`, `state.py`, `api/routes/duo/duo_ws.py` | `LiveMatch`: status, host, sockets, tasks, `energy_spent`, `persisted` | connect, disconnect, re-attach, queue, rooms, start, leave, grace timer, finish, abort, teardown | every `await` is a point where another handler runs; tasks cancel each other | a match is started once, charged once, ended once, paid once, always torn down |
| Duo engine, the fight: same file, `scoring.py`, `clock.py`, `services/game/loadout.py` | per player: deck, open question and token, lockout, stun, hp, mana, combo, score, effects, cooldowns | tick, push, answer, use skill, end | answers land between the awaits of a tick; replays and double taps | decks are conserved; one verdict |
| Duo persistence `services/duo/persistence.py`, `repository/duo/` | `duo_matches` rows, results, rating rows | start_players, create, save_result, cancel, refund, abandon_orphaned | several commits per operation | a claim serialises settlement; a refund happens once |
| Housekeeping `services/duo/housekeeping.py`, `main.py` | none of its own | sweep of queue and lobbies, orphaned rows, season roll-over, reminders, seeding at start-up | runs between a handler's awaits; the process may die | orphans are closed and refunded before anyone is served |
| Combat rules `services/game/combat.py`, `combat_stats.py` | none | damage, mana, combo, strike, defence | rounding and bounds | hp and mana stay in range; a gate can be beaten |
| Energy `services/game/energy.py`, `energy_service.py` | energy and its timestamp per profile | spend, refund, regeneration | one commit per player; regeneration is computed on reading | the bar is the one that would refill by the clock |
| Settlement, gold ledger, levels, loot `services/game/settlement.py`, `rewards.py`, `leveling.py`, `loot.py` | experience, gold, ledger rows, items | settle a match or a battle; pay a lesson; spend | read-modify-write next to an append-only ledger | every movement has one row; no reward twice |
| Daily quests `services/game/daily_quest*.py`, `quest_catalog.py` | rows per user and day, chests | draw, count, claim | count, claim and the change of day race | each quest counts what was done and pays once |
| Achievements, streaks, activity | counters and unlocked rows | record activity, unlock | separate commits | a streak has activity on each of its days |
| Seasons `services/game/season*.py` | active season, standings | roll over, add results | two commits to roll over | a result lands in a season |
| Shop, classes, skills, loadout `services/game/game_service.py`, `loadout_builder.py`, `starters.py`, `catalog.py` | owned skills and items, bar, equipment, class | buy, unlock, equip, choose class, enter a fight | balance read without a lock; class change in three commits; the catalogue is re-seeded at every start | nothing unpaid is owned, nothing unowned is carried |
| Benchmark exam `services/game/benchmark_exam*.py`, `cefr.py` | sittings, cleared cap | start, answer, submit, expire, grade | read before the lock | one open sitting; a cap lifts only on a pass |
| PvE battles `services/pve/` | one live battle per user, its task, grading tasks | start, answer, skill, tick, leave, settle | like the duo engine, and graded answers are recorded by tasks of their own | a battle ends; a lesson completes only after its answers are recorded |
| Lesson progress `services/progress/`, `content/grading.py` | attempts, completion rows | submit, recount, complete | two answers recompute one row | completion is kept and rewarded once |
| Content and quizzes `services/content/` | courses, units, lessons, challenges, options | edit under ETags, draw, present, grade | check-then-commit; three graders | what is asked can be answered, and is judged alike |
| Authentication, password reset `services/auth/` | refresh-token and reset-token rows | register, login, Google login, refresh, logout, reset | a retry while a token rotates | a token is exchanged once |
| Avatars `services/auth/user_service.py` | a row and a file elsewhere | replace, remove | two stores, no common transaction | the file a row names exists |
| Notifications `services/notification/` | devices, dispatch claims | register, due, claim, send | claim before send; sweeps may overlap | an occasion is sent once |
| Conversation practice `services/conversation/`, `services/ai/` | conversations, lines | start, reply, retry, hint, finish | slow calls, retries | learner and AI alternate |
| Rate limiting `core/rate_limit*.py`, `api/rate_limit.py` | window counters, token buckets | hit, prune, allow | window edges | never more than the limit allows |
| Schema and migrations `alembic/`, `models/` | tables, keys, enums | upgrade, downgrade | refusals, leftovers, drift from the models | the schema is the one its version stands for |
| Content imports `scripts/import_quiz_bank.py`, `scripts/import_vocab_deck.py` | courses, lessons, challenges | plan, write in batches, weave into the path | cut off between commits; an admin edits meanwhile | a run that ends has stored the whole |
| Elo arithmetic, leaderboards, profile reads, wire schemas, wiring, other scripts | - | reads and pure functions | - | - |

`PROJECT.json` lists each part with its files and what is modelled of it, and, under
`hazards`, the line where each of the risks above bites.

### How a duo match runs

A socket is accepted (`duo_websocket`), `on_connect` looks up whether its user has a
match and re-attaches them. A user joins the queue and is paired, or creates a friend
room that another joins. The host (or the pairing) starts the match task: a countdown,
then `_prepare` draws questions, charges both players (`start_players`, one commit
each), loads their builds, flips the status to IN_PROGRESS and writes the match row.
The task then ticks until a knockout, a cleared deck or the clock; a player may also
leave, or drop and fail to return within the grace time. Any of these calls `_finish`,
which cancels the match task and the grace timers, claims the row (one UPDATE guarded
by its status), hands out rewards, and tears the match down. A start that fails goes
to `_abort`, a lobby that loses a player to `_cancel_waiting_room`. If the process
dies, the next start-up closes rows left IN_PROGRESS and refunds their players before
it serves anyone.

### How a lesson battle runs

The player asks for a battle with the monster of a lesson; under the registry's lock the
engine checks that they are free, then loads their build, draws questions, registers the
battle and writes its row. The battle's task ticks: a fallen monster or player ends it,
the monster swings when its cast bar is full, and a question is pushed when none is open
and the lockout is over. An answer is judged on the spot and its grading is recorded by
a task of its own. `_finish` waits for those tasks, claims the row, pays, closes the row,
completes the lesson on a win, and lets the player go.

### What meets where

Both engines, the quests, the shop and the class change move one gold balance
(`Wallet`). Settlements of two matches meet at the rows of a shared player
(`Settlement`). Battles and study answers meet at the lesson's completion (`PveEngine`
sees it as one row, `Progress` has its statements). Exams and experience meet at the cap
(`BenchmarkExam` lifts it, `Growth` says what a lifted cap does). Import scripts, admin
and start-up meet at the order of units (`LearnPath`).

## 2. Modules

| Module | Models | Checked in |
|---|---|---|
| `DuoRegistry` | the registry's containers and operations | `duo_*` |
| `DuoEngine` | the life of a match, around the registry | `duo_reconnect`, `duo_start`, `duo_progress`, `duo_double_start` (through `MCDuoEngine`) |
| `DuoFight` | one duo fight, from the first question to the verdict | `duo_fight` (`MCDuoFight`) |
| `CombatRules` | points, mana, damage, combo, strike, outcome as operators | used by the three fights |
| `Settlement` | the commits that follow a duo claim, and the season roll-over | `settle` (`MCSettlement`) |
| `Wallet` | every transaction on one player's gold and goods | `wallet` (`MCWallet`) |
| `GoldLedger` | abstract: what the ledger promises about a balance; `Wallet` implements it | `wallet` |
| `PveEngine` | a player's lesson battles as tasks, from opening to teardown | `pve` |
| `LessonFight` | one lesson battle's clock, blows and skills | `lesson` (`MCLessonFight`) |
| `Progress`, `BenchmarkExam`, `Conversation`, `Quests` | lesson progress, the exam, practice conversations, daily quests (and how a day's are drawn): one player's concurrent requests each | `study` (`MCStudy`) |
| `Growth`, `LlmClient` | levels and caps; what the AI client is sent and how often it asks | `study` |
| `SkillTree`, `Wardrobe` | the seeded skills and the bar; the seeded items and their worth | `study` |
| `Sessions`, `Avatars`, `Notifications`, `Content` | sign-ins and resets, the avatar in two stores, pushes, the admin's edits | `accounts` (`MCAccounts`) |
| `QuizDraw`, `RateLimit` | drawing, presenting and grading questions; the window limiter and a socket's token bucket | `accounts` |
| `EnergyBar`, `EagerEnergy` | energy computed on reading; abstract: a bar that refills by the clock, which it implements | `accounts` |
| `Schema`, `Migrations` | the schema as facts; the revisions statement by statement, and `alembic` commands against a database with rows | `upkeep` (`MCUpkeep`) |
| `LearnPath` | the order of units at which the vocabulary import, the admin and the start-up meet | `accounts` |
| `BankImport`, `VocabDeck` | what the two import scripts plan and write | `upkeep` |
| `Gates` | the seeded monsters against real paces | `upkeep` |
| `DuoEngineProofs`, `DuoFightProofs`, `SettlementProofs`, `WalletProofs`, `PveEngineProofs`, `StudyProofs`, `AccountsProofs` | theorems and their proofs (`LessonFight`'s one theorem stands in the module itself) | TLAPS |

`MCStudy`, `MCAccounts` and `MCUpkeep` put services side by side that share no row. The
variable `subject`, chosen at the start, says which of them moves; a property of such a
run is the conjunction of the services' own (`subject = "exam" => Exam!...`), and the
comment above it says which. Each service is explored completely; nothing is claimed of
two of them at once.

All service modules read the same way. A request has a session of its own, and a step is
one statement or commit of it, or its wait for something outside; what a request has read
it keeps until it reads again, and a commit writes the columns the session changed.
Uniqueness constraints and row locks are guards: the second writer waits or is refused, as
PostgreSQL does under READ COMMITTED. Variables marked `history` (among them `overlapped`,
`owed`, `counted`, `sent`, `tracked`, `raced`, `bared`) record what happened for the
properties and decide nothing.

### DuoEngine and the code

The two halves of the duo engine meet at `_finish`. `DuoEngine` treats what happens inside
a fight as unknown: any tick of a running match may end it (`EndFight`), any player may
leave it. `DuoFight` starts when the match task begins to push questions, follows what
the players do, and stops at the verdict; leaving and a lapsed grace timer are its
`Forfeit`.

The server is one event loop, so control changes hands only at an `await`. Each await
whose interleaving can be observed is a *point* at which a task rests, and each action
is the run from one point to the next:

| Point | The await it stands for |
|---|---|
| `greeting` | `on_connect` loading the standing, with the match it has already read |
| `announcing` | sending MATCH_FOUND before the match task is created |
| `notifying` | telling the opponent of a drop before the grace timer is created |
| `countdown`, `charging`, `building`, `creating`, `created` | `_run_match` and `_prepare`: the sleep, each energy commit, the reads after it, in front of and behind `create_match`'s commit |
| `running` | the sleep between ticks |
| `sleeping` | a grace timer's sleep |
| `closing` | the sweep's broadcast to an idle lobby |
| `claiming`, `paying` | in front of the claim, and behind it, inside the shielded `save_result` |
| `refunding`, `unsaving`, `teardown` | `refund_start` (a commit per player), `cancel_match`, the wait for the lock in `_teardown` |
| `failed` | a socket handler that an exception has unwound to `on_disconnect` |

`match[m]` holds the fields of `LiveMatch` that decide control. A player's `websocket
is None` and `connected = False` always change together and are one field. `row`,
`charged`, `refunded` and `paid` are the database: the row's status and, as counts,
what each player was charged, given back and paid. Cancelling a task
(`Stopped`) drops it at the point where it rests, except in `claiming`/`paying`, where
the save is shielded and runs on without its caller. `Crash` loses memory and keeps
the database.

Abstracted: ratings, bands and settings (they choose *which* waiting entry is found, so
any may be); room codes; payloads; refused requests, which change nothing; the
cancellation of grace timers in `_teardown`, which happens in the step that unregisters;
a `LiveMatch` no task refers to any more (it becomes GONE, so that equal situations are
equal states); a shutdown, which is a `Crash` that happens between steps. `Loops` and
`Graces` are pools of tasks: they bound how many run at once.

### DuoFight and the code

`player[u]` is `PlayerConn` during a fight; `question_token`, `current_index` and
`question_pushed_at` are set and cleared together and are one field, `screen`. A token
is the number of its showing: it is never used again, and a client may submit any it
has been sent. `now` is the monotonic clock in arbitrary units and advances at any
moment; `loop` is where `_run_match` rests. A tick runs to its first await as one step:
effects age, empty decks are latched, the end is checked, and the first due question is
pushed. The second player is judged later, in `PushSecond`, with the `now` the tick
started with. Nothing bounds how late a tick comes. Whether an answer is right is the
player's free choice.

`CombatRules` computes what the code computes, with exact fractions where the code has
floats and Python's rounding (half to even) at the end. A value whose fraction is
exactly a half could round the other way in floats; no property depends on it.

Left out of the fight: effects that no active skill of the catalogue grants (HEAL,
MANA_BURN, TIME_PENALTY, DOUBLE_DAMAGE, DAMAGE_REDUCTION, EXECUTE; the loadout builder
drops inactive skills); `best_combo`, the skill log and snapshots, which nothing reads
back; a second match task on the same match, which is `DuoEngine`'s subject (there,
`ChargedOnce` shows how it comes about; a second `_prepare` would also reset the fight
in the middle).

### Settlement, Wallet and the code

`Settlement` follows `save_result` commit by commit: claim, ratings, then per player the
payout (experience, gold row and profile in one commit), the chest, and after both the
quests, achievements, streak and result, with `ensure_current_season` beside it. A counter
that is read, added to and written back is the *set* of matches it reflects, so a lost
update shows as a match missing from the set, and `overlapped` remembers which settlements
of one player ran at once. Calls may be cut off by a raised statement or a crash at every
point.

`Wallet` has one player and any number of requests: match and battle payouts, purchases,
unlocks, class changes, bar and skin, quests and chests. A session `held`s the profile it
read first; what it writes is computed from that. `Grant` is `GoldLedger.grant`, which
checks for the reference before it stages the row; the unique constraint is why the check
and the commit are one step. A class change is three commits (`PayChange`, `ClearBar`,
`Switch`). A balance that a concurrent request overwrites is lost here as in the code:
`BalanceIsLast` says what remains true, and `GoldLedger` is the promise that both keep.

### PveEngine, LessonFight and the code

`task[t]` says where every socket's handler, every battle's loop and the sweep rest:
`loading`, `creating`, `announcing` are the awaits of `start_battle`; `answered` the send
in `_settle_answer`, after which the grading task is created; `sleeping` and `swung` the
loop; `drain`, `claim`, `pay`, `close`, `complete`, `read`, `teardown` the awaits of
`_finish`, in whichever task brings the end. `grading[b]` is the set of grading tasks
under way. A statement may raise at each of these (`StartFails`, `FinishFails`,
`GradeFails`) and the process may die. Every blow takes one point here; `LessonFight` has
the damage, mana, combo, skills, lockouts and the cast bar, with every instant kept as the
time left until it, so that no bound on the fight's length is needed.

### What the others abstract

* `Progress`: right and wrong stand for the grading, which is `QuizDraw`'s; hearts, texts
  and rewards' amounts are left out.
* `Quests`: a quest is its type (a day has at most one of each); which types a day gets is
  the state machine `DrawSpec` at the end of the module. `Conversation`: texts are left out, and conversations after the first
  are counted only against the daily limit. `LlmClient`: an answer is one of a few kinds.
* `Sessions`: tokens and passwords are opaque; expiry is an event that may happen any time.
* `Content` has one challenge and its options; units, lessons and topics are edited by the
  same check before the same kind of constraint.
* `Schema`: SQL types, lengths and server defaults are left out; a fact is a table, a
  column, NOT NULL, a reference, a key, an enum value.
* `BankImport`, `VocabDeck`, `LearnPath`: questions and words are model values with a band,
  a kind, a passage, a spelling; texts are left out.
* `Gates` uses the catalogue's real numbers and milliseconds.

## 3. What is checked

Every passing run explores its instance completely, and each of its properties has a
mutant, a plausible bug in one mapped definition, that the same run catches.

| Run | Instance | States | Properties |
|---|---|---|---|
| `duo_reconnect` | 2 users, one with two sockets, 1 match, 2 grace timers, 1 crash, 1 database error | 560 000 | QueueIsListening, AbsentIsWatched, EnergyIsFair |
| `duo_start` | 3 users, 1 match, 2 match tasks, 1 grace timer, double starts, 1 crash | 460 000 | SeatsAgree, PairedOnce, PaidOnce, RowTellsEnergy |
| `duo_progress` | 2 users, the sweep, fair scheduling | 29 000 | EveryMatchEnds, ClaimedIsPaid |
| `duo_fight` | 2 players, 2 questions each, 5 units of time, a two-round combo shield, a time lifeline, a reveal | 1 650 000 | DeckIsConserved, ShownOnceAnsweredOnce, NoPushWhileLocked, FightEnds |
| `settle` | 2 matches that share a player, 3 calls (one repeated), 1 error, 1 crash, midnight, a season's end | 1 210 000 | SettledInOrder, CountsAreTrue |
| `wallet` | 3 concurrent requests out of all kinds, 3 skills, 1 item, 2 classes | 125 000 | GoodsArePaidFor, ReplaysFollowClears, ClassChangesArePaid, BalanceIsLast, LedgerKept |
| `pve` | 2 battles, 2 sockets of the player, the sweep, 1 fault, fair scheduling | 640 000 | OnlyOnce, SettledAsFought, EveryFightEnds |
| `lesson` | a boss of two blows, a player of two, 2 skills, fair scheduling | 280 000 | VerdictIsEarned, FightEnds |
| `study` | 2 requests at a time in each of four services; the numbers around every cap; all draws; the catalogue's skills and items | 1 240 000 | CompletionIsHonoured, CapsAreEarned, LinesAlternate, QuestsAddUp, KitIsEarned, KeptAsGiven |
| `accounts` | 2 requests at a time; 3 refresh tokens, 3 files, 3 options; all banks of 3 challenges; 9 rules of a key; a path of 2 units, a deck of 2, 2 scripts, 1 edit, 2 starts | 1 210 000 | ExchangedOnce, AvatarIsStored, SentOnce, ContentIsAskable, LimitsHold, PathIsKept, LazyIsEager |
| `upkeep` | 4 alembic commands over all revisions; 18 questions in 2 bands, 3 runs of the import; 3 vocabulary books; the catalogue's monsters | 690 000 | SchemaHolds, ContentIsWhole |

**What the runs show.** In the duo engine: memory and registry agree, nobody is
paired or paid twice nor, if matches are started once, charged twice, a match's row tells
whether its energy is kept, an absent player has a timer coming or running, every match
ends, and a fight that had begun is paid when it ends. In settlement: what is committed is always a beginning of the
whole, and what is counted is what was played except where settlements of one player
overlap. In the shop: nothing unpaid is had, whatever is retried or doubled. In lesson
battles: one battle at a time, settled as it was fought, for any leaver, late answer or
fault, after the answers handed to the study path have been counted, and the fight ends although nobody answers. In study: a completion is paid once and
kept, an exam answer stays, a cap lifts only on answers that pass, learner and AI
alternate, and so does what of a history is sent to the AI, quests add up, a bar is empty
or another school's only for a reason, and an item has one way in. Around the game: a
refresh token is exchanged once, the named avatar exists, a push is sent once, a question
can be answered and is judged alike in all three graders, limits hold at their window's
edge, the lazy energy bar is the eager one, and the deck is woven into the learn path
whole and taken out whole. In upkeep: the schema is its version's after any refused or
cut-off command, and at the head what the models declare; an import that ends has stored
the whole; every gate can be beaten at a reading pace.

**Why the bounds are enough.** A duo match is two people; a third user is what it takes
to be paired with somebody already taken. Two sockets of one user are what a reconnect
racing a late disconnect needs, two timers what a stale timer next to a new one needs, two
match tasks what a double start needs. Two matches at once are left to the theorem
`NeverPairedTwice`. One crash and one database error hit every point. In the fight, two
questions make a miss go round behind another question, and the combo tiers are scaled
down (1 and 2 instead of 3 and 5) so that two answers in a row reach the stun; the clock
is long enough for two castings of one skill and for a lockout, a stun and the cap to
overlap. Services that handle one player's requests need two of them to race, three where
one waits for a lock the other two compete for. Scaled down so that the edge is met within
a few steps: OverFetch (1 for 5), DRAW_ATTEMPTS (2 for 50), HISTORY_MESSAGES (3 for 20),
PerLesson, BATCH_SIZE and LessonsPerUnit, MAX_ENERGY and its interval (3 and 3), the
limiter's windows (limits 1 to 3, windows 2 to 4, clock to 9). `Gates` has real numbers,
six matchups from the first unit to the last, paces of 2 and 5 seconds and at most one
miss. `SkillTree` stands at level 5 with two unlocks and one class change, bars of none,
one and four. `Wardrobe` has the catalogue's 18 different items and up to three copies.

**Left out of an instance, on purpose.** Clients in `duo_reconnect` start a match once
(`DoubleStart = FALSE`): with a double start, energy is charged twice, which is the
finding of `duo_double_start`. The sweep is left out of `duo_start`: a sweep that saw a
lobby just before it started cancels the fight that follows. `RowTellsEnergy` says what
the row promises, and no more: who was paid stays charged and their row is never one that
a restart refunds, and a row that a restart closed is refunded before anybody is served. It
does not say that every charge leads to a payout or a refund, for that is false of the code:
whoever leaves between the energy commits and `energy_spent`, or between IN_PROGRESS and
`persisted`, has a match that is neither. The first charge is lost for good; the second
match keeps a row that is IN_PROGRESS, and only the next start-up hands its energy back,
which is what the second part of the property is about. For fights that had begun,
`ClaimedIsPaid` adds that they are paid when they end. The refund of an abandoned match is
promised up to the first death of the process: a second one, between the commit that closes
orphaned rows and the refunds, loses those refunds, because the next start-up no longer
finds the rows IN_PROGRESS. The row of a paid match may be CANCELLED only by a second start
that charged again, or where the sweep closed the lobby under it. With a second start *and*
a sweep even a paid match may be refunded; with single starts, the sweep and two crashes TLC
finds nothing (2 800 000 states), and the theorem covers the rest. `CountsAreTrue` excuses settlements of one player
that overlap, and `AskableUnlessRaced` edits that do: there the code does lose updates. The
streak is among what is lost: two settlements of one player that overlap across two
midnights leave a streak that claims a day without activity. The run's two days are too
few to show it; the attempt to prove the clause for any calendar did, and the clause now
excuses such players (TLC finds nothing with `Days = 3` and two calls, 3 900 000 states). `EveryFightEnds` excuses faults: a raising statement
leaves the player in their battle, see below.

**Fairness.** `DuoEngine` assumes that the event loop resumes every task whose await has
completed, that sleeps end and database calls return, that the match clock runs out
(`clock.match_time_cap`), and that the sweep runs (`run_housekeeping` is an endless loop)
and a lobby eventually outlives its time to live. `DuoFight` and `LessonFight` assume that
the clock advances and the loop is resumed. `PveEngine` assumes one weak fairness for
everything that runs without the player: the event loop always runs something that is
ready. Nothing is assumed of clients, who may never answer, leave or start, and
`EveryFightEnds` does not rely on the sweep. All are weak: each is asked of a step that
stays possible until it is taken.

**Deadlock** is checked in the duo lifecycle runs. Everywhere else a behaviour may really
stop: a fight has its verdict, every request of the instance is done.

## 4. Where the code and its documentation disagree

One run expects a violation, with its entry under `findings`:

* `duo_double_start`: the status stays WAITING through the countdown and the charge, so
  a second `match.start` charges both players again.

Seen while modelling, and not kept as runs of their own.

Duo matches:

* A lobby cancelled while MATCH_FOUND is being sent is started anyway.
* A player who returns while their opponent is being told of the drop leaves a grace timer
  that nothing cancels; it forfeits their next drop early.
* Leaving between the energy commits and the moment `energy_spent` is set costs the energy
  of a match that never took place. `docs/DESIGN.md:281` names two windows that need
  compensating; this is a third, and a leave before `persisted` (below) a fourth.
* A second start may cancel a match already paid for.
* An error while a leaving player's match is settled skips the teardown, and nothing
  collects the match.
* A player who leaves between IN_PROGRESS and `persisted` ends a match whose row stays
  IN_PROGRESS until the next restart refunds it; until then it is neither paid nor refunded.
* `create_match` commits and then refreshes. If the refresh raises, `_abort` refunds, but the
  row stays IN_PROGRESS (`persisted` is not set yet) and the next start-up refunds again. In
  `DuoEngine` a statement that raises has not committed, so EnergyIsFair does not speak of it.
* The sweep awaits a broadcast between seeing WAITING and cancelling: a lobby that starts
  meanwhile is cancelled.
* Messages are sent while the registry lock is held (`match_runtime.py:281`).
* A cleared deck counts only once the player's lockout and stun are over; a combo landing
  within the last lockout delays it, and the opponent, finishing later, wins.
* A combo shield sold as "the next two rounds" is spent by one miss.
* `clock.match_time_cap` and the comment on TIME_UP in `models/duo/duo_match.py` say health
  decides a fight that runs out of time; `decide_outcome` never reads health. Both decks
  can be latched in one tick, which the comment in `scoring.py` on `deck_cleared` rules out.
* `docs/DESIGN.md:304-305` opens a player at a soft reset of their previous season; the
  caller of `opening_rating` (`settlement.py:397`) passes the all-time rating.

Lesson battles and progress:

* A statement raising in `_finish` on a socket or the sweep leaves the player in a battle
  that is over; nothing tears it down until a restart.
* The progress in `battle.finished` may be read before the last grade is stored: an answer
  is handed to the study path only when its result has been sent, and the drain waits for
  what was handed over by then.

The game around them:

* Two roll-overs at once can leave two active seasons or clash on the season's code.
* `daily_quests.py:6-8` says the day's points always add up to the last chest, and that the
  chests line up with one, two or all quests; `quest_catalog.py:56-57` that every slot can
  be filled. The easy slot may stay empty when the other three took every easy type, and a
  full day opens the first chest with two quests, the second with three.
* `catalog.py:8-10` says that retiring is `is_active = false`, but every seeded row is set
  active again at each start. A retired parent skill blocks its children for its owner.
* After a class change a fight is entered with an empty bar, although `loadout_builder.py:60`
  and `starters.py` say that nobody does; a crash between the starter's grant and the
  filling of the bar has the same effect. `set_loadout` racing `choose_class` leaves the old
  class's skill on the bar, and `LoadoutBuilder` does not filter by class.
* Two concurrent `finish` calls of a conversation are both counted
  (`conversation_service.py:210`: "only the first finish gets here"). `llm_client.py:65-66`
  promises AiUnavailableError on any failure; a body that is not JSON raises its own error.

Schema and scripts:

* The index on `lesson_battles(user_id, lesson_id)` is made by migration 0018 and declared
  by no model.
* A bank import cut off half-way blocks the next run without `--reset`; a band it cannot
  plan ends it by `SystemExit` in the middle of the import.
* Two concurrent runs of the vocabulary import weave the deck in twice. A word without an
  example is asked by its definition (`import_vocab_deck.py:16-25` has one kind per lesson), and
  whether the asked word has a picture is not looked at. A unit created meanwhile stays
  above ORDER_OFFSET, and a reorder is lost. Weaving moves units between tiers and ultimates
  to other units at the next start; with fewer units than ultimates two stand on one unit.

## 5. What is proved

Proved by TLAPS for every number of users, sockets, matches, tasks, battles, requests and
faults, for decks, lockouts, skills, histories, banks, paths and clocks of any size, and for any
catalogue; only `KitAlwaysEarned` is about the skills and items that are seeded, whatever
of them is retired.

| Theorem | Property | Says |
|---|---|---|
| `TypeCorrect` | - | every field of the duo lifecycle keeps its type |
| `SeatsAlwaysAgree` | SeatsAgree | index and seats agree |
| `NeverPairedTwice` | PairedOnce | nobody is queued twice or while seated; no match seats three |
| `QueueAlwaysListens` | QueueIsListening | a queue entry's socket is open |
| `NeverPaidTwice` | PaidOnce | rewards go out at most once per match |
| `DecksAreConserved` | DeckIsConserved | a question leaves a deck only by a right answer |
| `ShowingsAnsweredOnce` | ShownOnceAnsweredOnce | each showing is resolved once or still open |
| `VerdictsAreFinal` | - | nothing moves after the verdict |
| `NobodyPushedWhileLocked` | NoPushWhileLocked | no question is pushed into a lockout or a stun |
| `TypesKept` | - | the account keeps its types; no balance goes below zero |
| `PurchasesPaid` | GoodsArePaidFor | what was handed out is what was paid for |
| `ClaimsPaid` | - | a claim is marked exactly when it is paid, and only for a finished quest |
| `ReplaysLate` | ReplaysFollowClears | replays and boss chests follow the lesson's first clear |
| `LastRowStands` | BalanceIsLast | the balance is what the last row that moved it left |
| `WearingOwned` | - | skills on the bar and the skin on show are owned |
| `ChangesPaid` | ClassChangesArePaid | a class changes no more often than a change was charged |
| `BalanceRecorded` | - | the balance is one that the trail names |
| `NoPaymentTwice` | - | one row per reason and reference |
| `WalletImplementsLedger` | LedgerKept | `Wallet` implements `GoldLedger`, step by step |
| `EnergyAlwaysFair` | EnergyIsFair | with one start a match, energy is taken once and given back at most once |
| `AbsentAlwaysWatched` | AbsentIsWatched | with one start a match, a fighter without a socket has a grace timer coming or running |
| `RowAlwaysTells` | RowTellsEnergy | with one start a match, who was paid stays charged and is out of a restart's reach; a row a restart closed is refunded before anybody is served |
| `InvariantHolds`, `TypesHold` (`SettlementProofs`) | - | the invariant behind the next two; tables and sessions keep their types |
| `SettlementInOrder` | SettledInOrder | what is committed of a settlement is a beginning of it |
| `CountsHold` | CountsAreTrue | what is counted is what was played, but for settlements that overlapped |
| `TypesHold` (`PveEngineProofs`) | - | battles, tasks, rows and payouts keep their types |
| `NothingTwice` | OnlyOnce | one battle at a time, the registry's; one blow per showing |
| `SettledTrue` | SettledAsFought | a settled row says what was fought; only a win pays, once; unless a statement raised, answers handed over in time are counted first |
| `VerdictAlwaysEarned` | VerdictIsEarned | a lesson battle is won only with the monster down and the player standing |
| `TypesAlwaysHold` | - | the services of `study` keep their types |
| `CompletionAlwaysHonoured` | CompletionIsHonoured | a completed lesson is paid, part by part, and once but where requests stored it together |
| `CapsAlwaysEarned` | CapsAreEarned | a cap is lifted by a pass only; the level is the one paid for, at every total of experience |
| `LinesAlwaysAlternate` | LinesAlternate | learner and AI take turns; of a history of any length the AI is sent the last lines, each once and in turns, and it is asked no more often than it takes |
| `QuestsAlwaysAddUp` | QuestsAddUp | quests add up, claims pay once what was earned, and a draw is fair |
| `KitAlwaysEarned` | KitIsEarned | skills are climbed to, the bar is empty or another school's only for a reason; an item has one way in, and what is worn is owned and worth its labels |
| `AlwaysKeptAsGiven` | KeptAsGiven | nothing learnt, answered or finished is undone by a step |
| `ExchangedOnceHolds` | ExchangedOnce | a refresh token gets one successor |
| `AvatarHolds` | AvatarIsStored | the file the profile names is in the store |
| `SentOnceHolds` | SentOnce | nobody gets one occasion twice; no live device is switched off |
| `TypesHold` (`AccountsProofs`) | - | the services of `accounts` keep their types |
| `ContentAlwaysAskable` | ContentIsAskable | options stay in one order, and a challenge whose edits did not overlap can be asked; for any bank, a draw is as full as the bank allows, can be answered right, and is graded alike everywhere |
| `LimitsAlwaysHold` | LimitsHold | for any limit, window, rate and burst: a window takes no more than its limit, Retry-After is exact, a socket keeps to its pace |
| `PathAlwaysKept` | PathIsKept | for any opening, deck and ultimates: unless an edit overtook the script or came after it, the deck is on the path whole, woven from the first unit on, or not at all, and the rest as the admin ordered it; a start-up that went through has bound the opening units in order |
| `LazyAlwaysEager` | LazyIsEager | the bar computed on reading implements the one that refills by the clock, and the next point comes when it was promised |

Assumptions: `OwnerAssumption`, `NoneAssumption`, `TaskAssumption`, `BoundAssumption`
(identities are distinct, bounds are numbers), `ComboAssumption` (a stun takes a combo of
two or more), `FightAssumption` (two players, positive durations, `None` is no question),
`WalletAssumption` (a catalogue of the right types, positive prices),
`PveAssumption` (finitely many battles, distinct identities, positive healths),
`StudyAssumption`, `AccountsAssumption` and the assumptions of the services they
instantiate, and that of `Settlement` (constants of the right types, and `None` is none of
the rows, users, tokens, files, windows, places or steps it stands in for the absence of).
Among these, `EnergyAssumption` wants an interval and a cap of at least one,
`RateLimitAssumption` rules with a limit and a window of at least one second, as
`core/rate_limit_policies.py` has them, `QuizAssumption` finitely many lessons and banks of the
right types, `LearnPathAssumption` that no unit is on a line twice, that an admin adds none of
the deck's, and that ORDER_OFFSET is out of the path's way, `WardrobeAssumption` that what
is retired was in the catalogue. `MCUpkeep`'s assumption is used by no proof. TLC evaluates each of them in the runs.

The three theorems about the lifecycle that say "with one start a match" are stated as
`~DoubleStart => (Spec => []...)`: `DoubleStart` says whether clients may send
`match.start` again while the first is under way. The server does not refuse it, so this is
a promise of the clients, and EnergyIsFair is false without it (`duo_double_start`);
RowTellsEnergy is checked by TLC with double starts as well (`duo_start`).

The arguments:

* **Lifecycle types.** `TypeInv` is TypeOK together with what every task between two
  points relies on: it holds a real match. Without it, a step that updates
  `match[job[t].on]` could leave the type.
* **Lobby.** `LobbyInv` adds to SeatsAgree and PairedOnce that an unused match has no
  seats (`FreshIsNew`: registering cannot collide), that a registered match has at most two
  (`SeatsAreFew`), and that a queued user has an open socket and is not seated
  (`QueueIsOpen`). PairedOnce alone is not inductive: a step that registers a match
  preserves it only if the match was unused and its players were unseated.
* **Payment.** PaidOnce is not inductive, since a claim followed by a payment spans two
  steps. `PayInv` says that a match is paid or about to be paid by at most one task, and
  only while its row says it has been claimed; the claim is the only step into that
  state and needs a row that is IN_PROGRESS.
* **Energy.** `StartInv` says that a match has at most one *starter* (the handler announcing
  it, then its `_run_match`), and that how far the starter has come says exactly who was
  charged and who refunded (`Staged`); once it is gone the row and `energy_spent` say it,
  and what a dead process left `stranded` was charged once and not refunded. The promise of
  single starts enters here, in `OneStarter`.
* **Absence.** `WatchInv` says that everybody sits in a lobby with a socket, that a fighter
  without one is awaited or the match is leaving, and that a lobby closed under a starter
  that goes on, and makes it IN_PROGRESS again, still has the handler that will tear it
  down. That handler goes straight there because `persisted` is never set before the row is.
* **Refunds.** `SettleInv` says that a billed row stands for one energy taken from each
  player and none given back, that an abandoned match is over, unpaid, and owes its players
  (until a second death, the refund is stranded or made), and that without the sweep nobody
  takes a row back: a lobby has none yet, and what aborts is either before its row or
  already settled.
* **Decks.** `DeckInv` says of each player that what is to come, on screen and mastered
  adds up and that nothing is held twice, and that nobody has been shown anything before
  the opening pushes, which pop a deck without looking. A push is a rotation of the
  sequence (lemma `Rotation`), a right answer drops its last element (`Prefix`), a miss is a
  step from "on screen" to "at the back" that leaves the sequence as it was.
* **Lockouts.** `LockInv` adds that a tick's reading of the clock is never ahead of it, so
  a due player is due now, and that nobody can be stunned before the second opening push,
  since one answer makes a combo of at most one.
* **The account.** What a session checked in one step it writes in another. `Ready` says
  that it still stands: what was owned is owned, what was enough gold in the profile it
  read is what it computes from, and that balance is one the trail names. Owned things and
  rows only accumulate, so no session spoils another's readiness; the lemmas about one
  posting (`Posting`, `PaidGrows`) then cover every request alike.
* **The ledger.** Each request's commit is one `Post` of the abstract ledger from the
  balance the session held, which `Ready` says was once current, or leaves balance and
  trail alone.
* **Class changes.** ClassChangesArePaid counts over a trail and over three commits.
  `ChangeInv` counts only *settled* charges, whose session no longer stands between the
  charge and the switch: a switch turns its own pending charge into a settled one, and
  every other step only adds.
* **Lesson battles.** Only `FinishIn` ends a battle and it needs one that is being fought,
  so a battle has one settling task for good (`Alone`). `Holds` says, for each point a task
  can stand at, what row and payout are by then; `Sound` that an unborn battle has neither,
  that a win stands over a fallen monster, and that an open question is one more shown than
  answered. Each action has a lemma per conjunct of this invariant that it can disturb.
  `Counting` is the drain: what is owed is mastered or still with a grading task, the task
  that drains holds on to those it found, and nothing is added to what is owed once the
  battle is over.
* **Settlement.** `Order` says that at most one call stands behind the claim of a match
  (`Alone`), what the tables hold of a match by the point where that call stands (`Here`),
  and that only claimed matches are rated. `Counts` adds that two calls in flight that share
  a player have raced (`Raced`), that a session therefore still holds what is stored as far
  as unraced matches go (`Fresh`), and what an unraced match has brought its players by each
  point (`Stands`).
* **Lesson battle.** `FightInv` adds one line to VerdictIsEarned: the loop sleeps only while
  the player stands, for the tick that told of a swing has looked at what it did.
* **Completion.** `ProgressInv` counts. A part of a completion has been paid, or is owed by a
  request on its way; payments and debts together are no more than the requests that
  stored the lesson side by side, and a completed lesson has at least one.
* **Exam.** `ExamInv` says that the answers a request holds are part of those stored, for an
  answer once stored is never changed, so what it grades as passing passes; and that a cap
  that is cleared belongs to a sitting that passes.
* **Conversation.** `TalkInv` says that lines alternate, that a position counted by a request
  is the learner's or the AI's by its parity whoever takes it first, that a turn count it
  holds is never above what has been said, and that a finished conversation has its
  feedback. While the conversation is there, lines are only added.
* **Quests.** `DailyInv` says that whatever a request holds to be earned is earned, which
  lasts because points only grow. `DrawInv` says that an attempt has a quest a slot, of
  types of its own, and that with nothing retired only the last slot can stay empty: three
  slots cannot exhaust the types of the first three.
* **Levels.** The level of a total of experience is an integer square root, computed by
  recursion on a quarter of it. `IsqrtIsRoot` proves it for every number, by well-founded
  induction stated without an operator parameter (lemma `Smallest`: a non-empty set of
  naturals has a least member). `LevelIsPaid` sandwiches a total between the costs of its
  level and of the next, `EffectiveGrows` makes more experience never a lower level, and
  `BandsPassed` finds the band of every level and cap. `GrowthInv` then only adds that no
  level once shown is lost.
* **AI client.** `LlmInv` bounds the requests sent by the attempts begun: two for a call, one
  pair for each retry. What is sent is built by a recursion on the history, about which no
  induction theorem can be cited; two least counterexamples stand in for it (`MergedTold`).
  The first shows that the recursion has a solution at all, the second that what it has
  built after n lines are those n lines in turns (`Told`), which a line more keeps so,
  whether it goes on a turn or opens one (`LineJoined`).
* **Skills.** BarIsCastable and EmptyByChoice are not inductive: between the two commits of
  a class change the bar already belongs to the next class, and between the grant of the
  starters and the filling an empty bar has an owner who has them. `TreeInv` says that a
  bar not raced fits the class, and holds neutral skills alone while a switch is pending;
  that what a `set_loadout` has checked fits the class it read; and that, with the starters
  owned, a bar nobody emptied is empty only while it is being filled.
* **Items.** `GoodsInv` says where each item came from by its price: what was bought has
  one, what came out of a chest has none, and only that has labels (`Labelled`, from the
  catalogue), so nothing bought is ever worn or worth a bonus.
* **Side by side.** `StudyInv` and `SideInv` are the conjunctions of the services' own
  invariants. A step of one leaves the variables of the others unchanged (`StudyMoves`), so
  each service takes a step of its own or none.
* **Accounts.** `SessionInv` says that a token with a successor is revoked and has no other
  (`Chain`), and that a request between the locked read and the commit of a rotation holds
  the lock of a token nobody revoked. `PictureInv` says that a file stored but not yet named
  is nobody's previous one, and that what is being deleted is not what the row names.
  `PushInv` says that a sweep past its claim has its recipients to itself and has sent to
  none of them. `OptionsInv` says that, while no edits have overlapped, every edit in flight
  still passes the checks it has made.
* **Quizzes.** `QuizInv` says that the last draw is as full as its bank allowed (`FullDraw`)
  and that what a fight or an exam drew has a key (`Keyed`). A duo over-fetches and drops
  what cannot be tapped, so its fullness is a count of what is left; that an exam paper has
  a share of each lesson is a least counterexample over the lessons. That a round can be
  won and is graded alike rests on ids being distinct, so that an id names one option, and
  on an answer key being a set.
* **Limits.** The window limiter keeps two counters, not the hits. `CountedInv` relates them
  to the hits there were: whenever the key is read, its entry shows the hits of the reading's
  window and of the one before it. A window then takes its limit at most, and less than
  that after one that took any, so the two windows a stretch of that length lies in took
  less than twice the limit. For Retry-After the weighing of the previous window is
  solved for the first second at which a hit is taken. `PacedInv` says of a socket that the
  frames since any moment, together with the tokens left, are within the burst and what
  the time since then brought; the earliest such moment gives the pace.
* **Energy.** What a write leaves is read as it was written (`ReadAsWritten`), and time only
  adds whole intervals to a reading, so every step of the lazy bar is one of the eager bar's
  or, where the clock moves within an interval, none. The refinement maps the eager bar to
  the reading.
* **Learn path.** A path is a map from units to places, read as a sequence. `Sorted` says what
  reading it gives (the n-th unit has n - 1 ahead of it), `NumberedIs` that numbering a
  sequence and reading it again gives the sequence, `WithoutIs` that taking units out of a
  path leaves the rest in order, `WovenAt` where each unit goes when two sequences are woven.
  They replace an induction over the sequence by counting: a place is the number of those
  ahead. DeckIsWoven is not inductive, for it says nothing of what a script under way will
  write. `WovenInv` adds that the admin's order is always the path without the deck, even
  while edits overtake scripts, that a calm path is that order numbered from one, with the
  deck woven in or not, and that a script nobody has overtaken holds the path as it is.
  `GuardedInv` says that a start-up the path has not moved under has bound the units up to
  the one it has come to.

The invariants were checked by TLC on the small instances before they were proved.

**Only model-checked**: liveness (EveryMatchEnds, ClaimedIsPaid, both FightEnds,
EveryFightEnds), which with fairness is out of the prover's reach; RowTellsEnergy where
clients start a match twice; SchemaHolds (the revisions are one fixed list, which the run
walks through up, down and cut off at every statement: a finite computation, with nothing
to generalise); ContentIsWhole (the gates are numbers of a fixed catalogue; for the imports
see section 6); and the fight's types (its effects are filtered with `SelectSeq`, a
recursion over sequences). That a request completes, where nothing is raised, is not
claimed: the theorems about services are about what is committed.

## 6. Not modelled, and what is left

Not modelled, with the reason:

* Reads: profile, leaderboards, histories, standings. They change nothing.
* Elo arithmetic (`services/duo/rating.py`): floats; `Settlement` has when it is applied.
* Routes, wire schemas, configuration, logging, locale: wiring without a protocol.
* E-mail, push and Google clients beyond whether a call succeeds; the AI beyond the kinds of
  answer it gives.
* The smoke tests, wire captures and one-off repairs under `scripts/`, which are run by
  hand against a server or a file.
* Two processes serving at once: registries, limiters and live battles are process-local
  by design (`registry.py`). Pushes, whose claims are made for it, have two in
  `Notifications`.

Left for later, in order:

1. `BankImport`: an import that ends has stored the whole, for any bank. The plan of an import
   is a fold over its bank, so the theorem needs what the fold builds for every bank, as
   `MergedTold` does for a history.
2. An abstract battle (offered, fought, ended, settled) that both engines implement.
3. Compositions of services that share the lesson's completion row (`PveEngine` with
   `Progress`) and the profile (`Settlement` with `Wallet`), each too large for one run as
   they stand.
