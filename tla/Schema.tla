------------------------------- MODULE Schema -------------------------------
(***************************************************************************)
(* The database schema as a set of facts, and the statements alembic's     *)
(* `op` sends that change it.  A fact is a tuple: a table, a column of a   *)
(* table, that it is NOT NULL, that it refers to another table (and what   *)
(* deleting the row there does), a key over columns, an enum type, a value *)
(* of it, and that a column is of it.  Names of indexes and constraints    *)
(* follow one convention in the code, so a key is known by what it covers. *)
(* SQL types, lengths and server defaults are left out.                    *)
(***************************************************************************)
EXTENDS Naturals, SequencesExt

TableFact(t)          == <<"table", t>>
Column(t, c)          == <<"column", t, c>>
NotNull(t, c)         == <<"required", t, c>>
Reference(t, c, u, g) == <<"refers", t, c, u, g>>
Key(t, kind, cs)      == <<"key", t, kind, cs>>
TypeFact(ty)          == <<"type", ty>>
ValueFact(ty, v)      == <<"value", ty, v>>
TypedColumn(t, c, ty) == <<"uses", t, c, ty>>

-----------------------------------------------------------------------------
(* Statements.  "add" needs facts, is refused by others, and adds its own;  *)
(* "take" removes facts that must be there.                                 *)
Adding(needs, bars, adds) == [do |-> "add", needs |-> needs, bars |-> bars, adds |-> adds]
Taking(facts) == [do |-> "take", facts |-> facts]

\* op.create_table: its NOT NULL columns and its nullable ones.
Table(t, need, may) ==
  Adding({}, {TableFact(t)},
         {TableFact(t)} \cup {Column(t, c) : c \in need \cup may} \cup {NotNull(t, c) : c \in need})

\* op.add_column: a NOT NULL one always comes with a server default, so rows
\* already there do not stand in its way.
Add(t, need, may) ==
  Adding({TableFact(t)}, {Column(t, c) : c \in need \cup may},
         {Column(t, c) : c \in need \cup may} \cup {NotNull(t, c) : c \in need})

\* Foreign keys to the id (or code) of a table, ON DELETE CASCADE or SET NULL.
Refers(t, refs, gone) ==
  Adding({Column(t, r[1]) : r \in refs} \cup {TableFact(r[2]) : r \in refs}, {},
         {Reference(t, r[1], r[2], gone) : r \in refs})
Cascade(t, refs) == Refers(t, refs, "CASCADE")
SetNull(t, refs) == Refers(t, refs, "SET NULL")

\* An index or a unique constraint: one per column, or one over all of them.
OneKey(t, kind, cs)   == Adding({Column(t, c) : c \in cs}, {Key(t, kind, cs)}, {Key(t, kind, cs)})
EachKey(t, kind, cs)  == Adding({Column(t, c) : c \in cs}, {Key(t, kind, {c}) : c \in cs},
                                {Key(t, kind, {c}) : c \in cs})
Index(t, cs)          == EachKey(t, "index", cs)
IndexOver(t, cs)      == OneKey(t, "index", cs)
UniqueIndex(t, cs)    == EachKey(t, "unique index", cs)
Unique(t, cs)         == EachKey(t, "unique", cs)
UniqueOver(t, cs)     == OneKey(t, "unique", cs)
OneInProgress(t, cs)  == OneKey(t, "unique while IN_PROGRESS", cs)

DropIndex(t, cs)         == Taking({Key(t, "index", {c}) : c \in cs})
DropIndexOver(t, cs)     == Taking({Key(t, "index", cs)})
DropUniqueIndex(t, cs)   == Taking({Key(t, "unique index", {c}) : c \in cs})
DropUniqueOver(t, cs)    == Taking({Key(t, "unique", cs)})
DropOneInProgress(t, cs) == Taking({Key(t, "unique while IN_PROGRESS", cs)})
Optional(t, c)           == Taking({NotNull(t, c)})
Required(t, c)           == Adding({Column(t, c)}, {}, {NotNull(t, c)})

DropReference(t, c) == [do |-> "dropreference", table |-> t, column |-> c]
DropColumns(t, cs)  == [do |-> "dropcolumns", table |-> t, columns |-> cs]
DropTable(t)        == [do |-> "droptable", table |-> t]

\* Enum(...).create(checkfirst=True), a column whose type create_table makes,
\* a column of a type that is there, Enum.drop(checkfirst=True), ALTER TYPE
\* ADD VALUE IF NOT EXISTS, and an UPDATE that writes a value.
Type(ty, vs)        == [do |-> "type", type |-> ty, values |-> vs]
Enum(t, c, ty, vs)  == [do |-> "enum", table |-> t, column |-> c, type |-> ty, values |-> vs]
Uses(t, c, ty)      == Adding({Column(t, c), TypeFact(ty)}, {}, {TypedColumn(t, c, ty)})
DropType(ty)        == [do |-> "droptype", type |-> ty]
Value(ty, v)        == [do |-> "value", type |-> ty, value |-> v]
UsesValue(ty, v)    == [do |-> "write", type |-> ty, value |-> v]

-----------------------------------------------------------------------------
(* What PostgreSQL makes of a statement.  `tx` holds the facts as the       *)
(* transaction sees them, the types create_table has made in this command   *)
(* (SQLAlchemy keeps a memo), the types made in this transaction, and the   *)
(* values it added to older types, which it may not write yet.              *)
Begun(facts) == [facts |-> facts, memo |-> {}, made |-> {}, fresh |-> {}]

TypeOf(ty, vs) == {TypeFact(ty)} \cup {ValueFact(ty, v) : v \in vs}
OfTable(s, t)  == {f \in s : f[1] \notin {"type", "value"} /\ f[2] = t}
OfColumn(s, t, cs) ==
  {f \in OfTable(s, t) : \/ f[1] \in {"column", "required", "refers", "uses"} /\ f[3] \in cs
                         \/ f[1] = "key" /\ f[4] \cap cs # {}}

Fits(tx, op) ==
  LET s == tx.facts IN
  CASE op.do = "add" -> op.needs \subseteq s /\ op.bars \cap s = {}
    [] op.do = "take" -> op.facts \subseteq s
    [] op.do = "dropreference" -> \E f \in s : f[1] = "refers" /\ f[2] = op.table /\ f[3] = op.column
    [] op.do = "dropcolumns" -> {Column(op.table, c) : c \in op.columns} \subseteq s
    [] op.do = "droptable" -> /\ TableFact(op.table) \in s
                              /\ \A f \in s : f[1] = "refers" /\ f[4] = op.table => f[2] = op.table
    [] op.do = "type" -> TRUE
    [] op.do = "enum" -> /\ Column(op.table, op.column) \in s
                         /\ TypeFact(op.type) \in s => op.type \in tx.memo
    [] op.do = "droptype" -> ~ \E f \in s : f[1] = "uses" /\ f[4] = op.type
    [] op.do = "value" -> TypeFact(op.type) \in s
    [] op.do = "write" -> ValueFact(op.type, op.value) \in s \ tx.fresh

After(tx, op) ==
  LET s == tx.facts
      Now(facts) == [tx EXCEPT !.facts = facts]
  IN
  CASE op.do = "add" -> Now(s \cup op.adds)
    [] op.do = "take" -> Now(s \ op.facts)
    [] op.do = "dropreference" -> Now({f \in s : ~ (f[1] = "refers" /\ f[2] = op.table /\ f[3] = op.column)})
    [] op.do = "dropcolumns" -> Now(s \ OfColumn(s, op.table, op.columns))
    [] op.do = "droptable" -> Now(s \ OfTable(s, op.table))
    [] op.do = "type" -> IF TypeFact(op.type) \in s THEN tx
                         ELSE [Now(s \cup TypeOf(op.type, op.values)) EXCEPT !.made = @ \cup {op.type}]
    [] op.do = "enum" ->
         LET typed == [Now(s \cup {TypedColumn(op.table, op.column, op.type)}) EXCEPT !.memo = @ \cup {op.type}]
         IN IF TypeFact(op.type) \in s THEN typed
            ELSE [typed EXCEPT !.facts = @ \cup TypeOf(op.type, op.values), !.made = @ \cup {op.type}]
    [] op.do = "droptype" -> Now({f \in s : ~ (f[1] \in {"type", "value"} /\ f[2] = op.type)})
    [] op.do = "value" -> IF ValueFact(op.type, op.value) \in s THEN tx
                          ELSE [Now(s \cup {ValueFact(op.type, op.value)}) EXCEPT
                                  !.fresh = IF op.type \in tx.made THEN @
                                            ELSE @ \cup {ValueFact(op.type, op.value)}]
    [] op.do = "write" -> tx

\* The statements of a script in order: the transaction after them, or the
\* first one that is refused, after which nothing runs.
RunAll(tx, ops) ==
  FoldLeft(LAMBDA r, op : IF r.ok /\ Fits(r.tx, op) THEN [r EXCEPT !.tx = After(@, op)]
                          ELSE [r EXCEPT !.ok = FALSE],
           [ok |-> TRUE, tx |-> tx], ops)

-----------------------------------------------------------------------------
(* The tables the ORM classes of app/models declare: what the program       *)
(* reads and writes, whatever the migrations built.  Relationships, column  *)
(* types and Python-side defaults are left out.                             *)

PasswordResetToken ==
  << Table("password_reset_tokens", {"id", "user_id", "token_hash", "expires_at",
       "created_at"}, {"used_at", "revoked_at"}),
     Cascade("password_reset_tokens", {<<"user_id", "users">>}),
     UniqueIndex("password_reset_tokens", {"token_hash"}),
     Index("password_reset_tokens", {"user_id"}) >>

RefreshToken ==
  << Table("refresh_tokens", {"id", "user_id", "token_hash", "expires_at",
       "created_at"}, {"revoked_at", "device_name"}),
     Cascade("refresh_tokens", {<<"user_id", "users">>}),
     UniqueIndex("refresh_tokens", {"token_hash"}),
     Index("refresh_tokens", {"user_id"}) >>

User ==
  << Table("users", {"id", "email", "is_active", "is_admin", "created_at"},
       {"username", "bio", "avatar_file_id", "avatar_url", "hashed_password",
       "google_subject"}),
     UniqueIndex("users", {"email", "google_subject"}) >>

Challenge ==
  << Table("challenges", {"id", "lesson_id", "type", "question", "difficulty",
       "order_index"}, {"explanation", "topic_id", "passage_id", "source_ref",
       "correct_text", "tags", "cefr_level", "toeic_band", "toeic_min_score"}),
     Enum("challenges", "type", "challenge_type", {"SELECT", "ASSIST", "ORDER"}),
     Enum("challenges", "difficulty", "challenge_difficulty", {"EASY", "MEDIUM",
       "HARD"}),
     Cascade("challenges", {<<"lesson_id", "lessons">>}),
     SetNull("challenges", {<<"topic_id", "topics">>, <<"passage_id", "passages">>}),
     Index("challenges", {"lesson_id", "topic_id", "passage_id", "source_ref"}),
     UniqueOver("challenges", {"lesson_id", "order_index"}) >>

ChallengeOption ==
  << Table("challenge_options", {"id", "challenge_id", "text", "correct",
       "order_index"}, {"image_src", "audio_src"}),
     Cascade("challenge_options", {<<"challenge_id", "challenges">>}),
     Index("challenge_options", {"challenge_id"}),
     UniqueOver("challenge_options", {"challenge_id", "order_index"}) >>

Course ==
  << Table("courses", {"id", "title", "image_src"}, {}) >>

Lesson ==
  << Table("lessons", {"id", "title", "unit_id", "order_index", "is_bank"}, {}),
     Cascade("lessons", {<<"unit_id", "units">>}),
     Index("lessons", {"unit_id", "is_bank"}),
     UniqueOver("lessons", {"unit_id", "order_index"}) >>

Passage ==
  << Table("passages", {"id", "source_ref", "content"}, {"level_grade"}),
     Unique("passages", {"source_ref"}) >>

Topic ==
  << Table("topics", {"id", "name"}, {}),
     Unique("topics", {"name"}) >>

Unit ==
  << Table("units", {"id", "title", "description", "course_id", "order_index"}, {}),
     Cascade("units", {<<"course_id", "courses">>}),
     Index("units", {"course_id"}),
     UniqueOver("units", {"course_id", "order_index"}) >>

ConversationMessage ==
  << Table("conversation_messages", {"id", "session_id", "seq", "role", "content",
       "created_at"}, {"translation_vi"}),
     Enum("conversation_messages", "role", "conversation_message_role", {"USER",
       "ASSISTANT"}),
     Cascade("conversation_messages", {<<"session_id", "conversation_sessions">>}),
     UniqueOver("conversation_messages", {"session_id", "seq"}) >>

ConversationSession ==
  << Table("conversation_sessions", {"id", "user_id", "scenario_code", "cefr",
       "status", "user_turns", "goal_reached", "started_at"}, {"feedback", "score",
       "finished_at"}),
     Enum("conversation_sessions", "status", "conversation_status", {"ACTIVE",
       "FINISHED"}),
     Cascade("conversation_sessions", {<<"user_id", "users">>}),
     IndexOver("conversation_sessions", {"user_id", "started_at"}) >>

DuoMatch ==
  << Table("duo_matches", {"id", "mode", "status", "player_one_id",
       "player_one_score", "player_two_score", "player_one_correct",
       "player_two_correct", "player_one_hp_left", "player_two_hp_left",
       "question_count", "time_per_question", "created_at"}, {"room_code",
       "end_reason", "player_two_id", "winner_id", "topic_id", "difficulty",
       "started_at", "finished_at", "duration_seconds"}),
     Enum("duo_matches", "mode", "duo_match_mode", {"RANDOM", "FRIEND"}),
     Enum("duo_matches", "status", "duo_match_status", {"WAITING", "IN_PROGRESS",
       "FINISHED", "ABANDONED", "CANCELLED"}),
     Enum("duo_matches", "end_reason", "duo_match_end_reason", {"COMPLETED",
       "OPPONENT_LEFT", "OPPONENT_TIMEOUT", "CANCELLED", "KNOCKOUT", "DECK_CLEARED",
       "TIME_UP"}),
     Enum("duo_matches", "difficulty", "challenge_difficulty", {"EASY", "MEDIUM",
       "HARD"}),
     Cascade("duo_matches", {<<"player_one_id", "users">>, <<"player_two_id",
       "users">>}),
     SetNull("duo_matches", {<<"winner_id", "users">>, <<"topic_id", "topics">>}),
     UniqueIndex("duo_matches", {"room_code"}),
     Index("duo_matches", {"player_one_id", "player_two_id", "winner_id"}) >>

DuoMatchRound ==
  << Table("duo_match_rounds", {"id", "match_id", "round_index",
       "player_one_correct", "player_two_correct", "player_one_points",
       "player_two_points", "player_one_damage", "player_two_damage",
       "player_one_hp_after", "player_two_hp_after", "player_one_combo",
       "player_two_combo"}, {"challenge_id", "player_one_option_id",
       "player_two_option_id", "player_one_elapsed_ms", "player_two_elapsed_ms"}),
     Cascade("duo_match_rounds", {<<"match_id", "duo_matches">>}),
     SetNull("duo_match_rounds", {<<"challenge_id", "challenges">>,
       <<"player_one_option_id", "challenge_options">>, <<"player_two_option_id",
       "challenge_options">>}),
     Index("duo_match_rounds", {"match_id", "challenge_id"}),
     UniqueOver("duo_match_rounds", {"match_id", "round_index"}) >>

DuoRating ==
  << Table("duo_ratings", {"id", "user_id", "rating", "matches_played", "wins",
       "losses", "draws", "current_streak", "best_streak", "updated_at"}, {}),
     Cascade("duo_ratings", {<<"user_id", "users">>}),
     UniqueIndex("duo_ratings", {"user_id"}),
     Index("duo_ratings", {"rating"}) >>

Achievement ==
  << Table("achievements", {"id", "code", "name", "description", "category",
       "metric", "threshold", "icon_code", "sort_order", "is_hidden", "is_active"},
       {}),
     Enum("achievements", "category", "achievement_category", {"PROGRESSION",
       "LEARNING", "PVP", "PVE"}),
     Enum("achievements", "metric", "achievement_metric", {"LEVEL", "DAY_STREAK",
       "BEST_DAY_STREAK", "CHALLENGES_MASTERED", "TOTAL_ATTEMPTS",
       "LESSONS_COMPLETED", "PVP_WINS", "PVP_RATING", "PVP_BEST_STREAK",
       "BATTLES_WON"}),
     UniqueIndex("achievements", {"code"}) >>

UserAchievement ==
  << Table("user_achievements", {"id", "user_id", "achievement_id", "unlocked_at"},
       {}),
     Cascade("user_achievements", {<<"user_id", "users">>, <<"achievement_id",
       "achievements">>}),
     Index("user_achievements", {"user_id"}),
     UniqueOver("user_achievements", {"user_id", "achievement_id"}) >>

BenchmarkExamAttempt ==
  << Table("benchmark_exam_attempts", {"id", "user_id", "cap_level", "status",
       "question_ids", "answers", "total_count", "pass_percent", "started_at",
       "expires_at"}, {"correct_count", "submitted_at"}),
     Enum("benchmark_exam_attempts", "status", "benchmark_attempt_status",
       {"IN_PROGRESS", "PASSED", "FAILED", "ABANDONED"}),
     Cascade("benchmark_exam_attempts", {<<"user_id", "users">>}),
     Index("benchmark_exam_attempts", {"user_id"}),
     OneInProgress("benchmark_exam_attempts", {"user_id"}) >>

DailyQuestTemplate ==
  << Table("daily_quest_templates", {"id", "code", "quest_type", "difficulty",
       "title", "target", "activity_points", "reward_gold", "reward_exp",
       "sort_order", "is_active"}, {}),
     UniqueIndex("daily_quest_templates", {"code"}) >>

UserDailyQuest ==
  << Table("user_daily_quests", {"id", "user_id", "template_id", "quest_date",
       "quest_type", "difficulty", "target", "activity_points", "reward_gold",
       "reward_exp", "slot", "progress", "created_at"}, {"completed_at",
       "claimed_at"}),
     Cascade("user_daily_quests", {<<"user_id", "users">>, <<"template_id",
       "daily_quest_templates">>}),
     UniqueOver("user_daily_quests", {"user_id", "template_id", "quest_date"}),
     IndexOver("user_daily_quests", {"user_id", "quest_date"}) >>

UserDailyActivityChest ==
  << Table("user_daily_activity_chests", {"id", "user_id", "quest_date",
       "milestone", "claimed_at"}, {}),
     Cascade("user_daily_activity_chests", {<<"user_id", "users">>}),
     Index("user_daily_activity_chests", {"user_id"}),
     UniqueOver("user_daily_activity_chests", {"user_id", "quest_date",
       "milestone"}) >>

DuoMatchSkillUse ==
  << Table("duo_match_skill_uses", {"id", "match_id", "round_index", "user_id",
       "skill_code", "mana_spent", "created_at"}, {"skill_id"}),
     Cascade("duo_match_skill_uses", {<<"match_id", "duo_matches">>, <<"user_id",
       "users">>}),
     SetNull("duo_match_skill_uses", {<<"skill_id", "skills">>}),
     Index("duo_match_skill_uses", {"match_id", "user_id", "skill_id"}) >>

GameClass ==
  << Table("game_classes", {"id", "code", "name", "description", "max_hp",
       "damage_permille", "starting_mana", "defence", "sort_order", "is_active"},
       {}),
     UniqueIndex("game_classes", {"code"}) >>

GameItem ==
  << Table("game_items", {"id", "code", "name", "kind", "rarity",
       "bonus_exp_permille", "bonus_gold_permille", "gold_price", "is_active"},
       {"slot", "image_src"}),
     Enum("game_items", "kind", "item_kind", {"EQUIPMENT", "SKIN", "CARD"}),
     Enum("game_items", "slot", "equipment_slot", {"WEAPON", "ARMOR", "TRINKET"}),
     Enum("game_items", "rarity", "item_rarity", {"COMMON", "RARE", "EPIC",
       "LEGENDARY"}),
     UniqueIndex("game_items", {"code"}) >>

GoldTransaction ==
  << Table("gold_transactions", {"id", "user_id", "amount", "reason", "ref_id",
       "balance_after", "created_at"}, {}),
     Enum("gold_transactions", "reason", "gold_reason", {"MATCH_WIN", "MATCH_LOSS",
       "MATCH_DRAW", "SKILL_UNLOCK", "ITEM_PURCHASE", "CLASS_CHANGE", "LOOT_CHEST",
       "BATTLE_WIN", "BATTLE_REPLAY", "DAILY_QUEST", "ACTIVITY_CHEST"}),
     Cascade("gold_transactions", {<<"user_id", "users">>}),
     Index("gold_transactions", {"user_id"}),
     UniqueOver("gold_transactions", {"user_id", "reason", "ref_id"}) >>

Monster ==
  << Table("monsters", {"id", "code", "name", "description", "tier", "max_hp",
       "attack_damage", "damage_reduction_permille", "enrage_after_rounds",
       "enrage_multiplier_permille", "is_boss", "art_code", "sort_order",
       "is_active"}, {"weak_topic_id"}),
     SetNull("monsters", {<<"weak_topic_id", "topics">>}),
     UniqueIndex("monsters", {"code"}) >>

GameSeason ==
  << Table("game_seasons", {"id", "code", "name", "starts_at", "ends_at",
       "is_active"}, {}),
     UniqueIndex("game_seasons", {"code"}),
     Index("game_seasons", {"is_active"}) >>

SeasonRating ==
  << Table("season_ratings", {"id", "season_id", "user_id", "rating", "peak_rating",
       "matches_played", "wins", "losses", "draws"}, {}),
     Cascade("season_ratings", {<<"season_id", "game_seasons">>, <<"user_id",
       "users">>}),
     Index("season_ratings", {"season_id", "user_id", "rating"}),
     UniqueOver("season_ratings", {"season_id", "user_id"}) >>

Skill ==
  << Table("skills", {"id", "code", "name", "description", "effect", "tier",
       "mana_cost", "magnitude", "duration_rounds", "unlock_kind", "unlock_level",
       "gold_price", "is_active", "sort_order"}, {"class_code", "parent_code",
       "unlock_unit_id"}),
     Enum("skills", "effect", "skill_effect", {"DOUBLE_DAMAGE", "DAMAGE_REDUCTION",
       "HEAL", "TIME_PENALTY", "REMOVE_OPTIONS", "MANA_BURN", "COMBO_KEEP",
       "EXECUTE", "TIME_BONUS"}),
     Enum("skills", "unlock_kind", "skill_unlock_kind", {"STARTER", "LEVEL_GOLD",
       "UNIT_COMPLETION"}),
     Cascade("skills", {<<"class_code", "game_classes">>}),
     SetNull("skills", {<<"unlock_unit_id", "units">>}),
     UniqueIndex("skills", {"code"}),
     Index("skills", {"class_code", "unlock_unit_id"}) >>

UserDailyActivity ==
  << Table("user_daily_activity", {"id", "user_id", "activity_date",
       "lessons_completed", "matches_played"}, {}),
     Cascade("user_daily_activity", {<<"user_id", "users">>}),
     Index("user_daily_activity", {"user_id"}),
     UniqueOver("user_daily_activity", {"user_id", "activity_date"}) >>

UserGameProfile ==
  << Table("user_game_profiles", {"id", "user_id", "total_exp", "level",
       "benchmark_cleared_level", "gold", "energy", "energy_updated_at",
       "day_streak", "best_day_streak", "updated_at"}, {"class_code",
       "class_chosen_at", "skin_code", "last_active_date"}),
     Cascade("user_game_profiles", {<<"user_id", "users">>}),
     SetNull("user_game_profiles", {<<"class_code", "game_classes">>}),
     UniqueIndex("user_game_profiles", {"user_id"}) >>

UserItem ==
  << Table("user_items", {"id", "user_id", "item_id", "quantity", "acquired_at"},
       {}),
     Cascade("user_items", {<<"user_id", "users">>, <<"item_id", "game_items">>}),
     Index("user_items", {"user_id", "item_id"}),
     UniqueOver("user_items", {"user_id", "item_id"}) >>

UserEquipment ==
  << Table("user_equipment", {"id", "user_id", "slot", "item_id"}, {}),
     Enum("user_equipment", "slot", "equipment_slot", {"WEAPON", "ARMOR",
       "TRINKET"}),
     Cascade("user_equipment", {<<"user_id", "users">>, <<"item_id",
       "game_items">>}),
     Index("user_equipment", {"user_id", "item_id"}),
     UniqueOver("user_equipment", {"user_id", "slot"}) >>

LootGrant ==
  << Table("loot_grants", {"id", "user_id", "ref_id", "created_at"}, {"item_id"}),
     Cascade("loot_grants", {<<"user_id", "users">>}),
     SetNull("loot_grants", {<<"item_id", "game_items">>}),
     Index("loot_grants", {"user_id"}),
     UniqueOver("loot_grants", {"user_id", "ref_id"}) >>

UserSkill ==
  << Table("user_skills", {"id", "user_id", "skill_id", "acquired_at"}, {}),
     Cascade("user_skills", {<<"user_id", "users">>, <<"skill_id", "skills">>}),
     Index("user_skills", {"user_id", "skill_id"}),
     UniqueOver("user_skills", {"user_id", "skill_id"}) >>

UserSkillLoadout ==
  << Table("user_skill_loadouts", {"id", "user_id", "slot_index", "skill_id"}, {}),
     Cascade("user_skill_loadouts", {<<"user_id", "users">>, <<"skill_id",
       "skills">>}),
     Index("user_skill_loadouts", {"user_id", "skill_id"}),
     UniqueOver("user_skill_loadouts", {"user_id", "slot_index"}) >>

NotificationDispatch ==
  << Table("notification_dispatches", {"id", "user_id", "kind", "dedupe_key",
       "sent_at"}, {}),
     Cascade("notification_dispatches", {<<"user_id", "users">>}),
     UniqueOver("notification_dispatches", {"user_id", "kind", "dedupe_key"}) >>

UserDeviceToken ==
  << Table("user_device_tokens", {"id", "user_id", "fcm_token", "device_type",
       "is_active", "created_at", "updated_at"}, {}),
     Enum("user_device_tokens", "device_type", "device_type", {"ANDROID", "IOS"}),
     Cascade("user_device_tokens", {<<"user_id", "users">>}),
     Index("user_device_tokens", {"user_id"}),
     Unique("user_device_tokens", {"fcm_token"}) >>

UserChallengeProgress ==
  << Table("user_challenge_progress", {"id", "user_id", "challenge_id", "lesson_id",
       "mastered", "attempts_count", "last_attempted_at"},
       {"last_selected_option_id", "mastered_at"}),
     Cascade("user_challenge_progress", {<<"user_id", "users">>, <<"challenge_id",
       "challenges">>, <<"lesson_id", "lessons">>}),
     SetNull("user_challenge_progress", {<<"last_selected_option_id",
       "challenge_options">>}),
     Index("user_challenge_progress", {"user_id", "challenge_id", "lesson_id"}),
     UniqueOver("user_challenge_progress", {"user_id", "challenge_id"}) >>

UserLessonProgress ==
  << Table("user_lesson_progress", {"id", "user_id", "lesson_id", "status",
       "correct_challenge_count", "total_challenge_count", "updated_at"},
       {"completed_at"}),
     Enum("user_lesson_progress", "status", "lesson_progress_status",
       {"NOT_STARTED", "IN_PROGRESS", "COMPLETED"}),
     Cascade("user_lesson_progress", {<<"user_id", "users">>, <<"lesson_id",
       "lessons">>}),
     Index("user_lesson_progress", {"user_id", "lesson_id"}),
     UniqueOver("user_lesson_progress", {"user_id", "lesson_id"}) >>

LessonBattle ==
  << Table("lesson_battles", {"id", "user_id", "lesson_id", "monster_code",
       "status", "player_hp_left", "monster_hp_left", "rounds_played",
       "correct_count", "best_combo", "exp_awarded", "gold_awarded", "first_clear",
       "started_at"}, {"end_reason", "finished_at"}),
     Enum("lesson_battles", "status", "battle_status", {"IN_PROGRESS", "WON",
       "LOST", "ABANDONED"}),
     Enum("lesson_battles", "end_reason", "battle_end_reason", {"MONSTER_DOWN",
       "PLAYER_DOWN", "OUT_OF_QUESTIONS", "LEFT", "CANCELLED"}),
     Cascade("lesson_battles", {<<"user_id", "users">>, <<"lesson_id", "lessons">>}),
     Index("lesson_battles", {"user_id", "lesson_id"}) >>

-----------------------------------------------------------------------------
\* The classes app/models/__init__.py registers.
Registered ==
  << PasswordResetToken, RefreshToken, User, Challenge, ChallengeOption,
     Course, Lesson, Passage, Topic, Unit, ConversationMessage,
     ConversationSession, DuoMatch, DuoMatchRound, DuoRating, Achievement,
     UserAchievement, BenchmarkExamAttempt, DailyQuestTemplate, UserDailyQuest,
     UserDailyActivityChest, DuoMatchSkillUse, GameClass, GameItem,
     GoldTransaction, Monster, GameSeason, SeasonRating, Skill,
     UserDailyActivity, UserGameProfile, UserItem, UserEquipment, LootGrant,
     UserSkill, UserSkillLoadout, NotificationDispatch, UserDeviceToken,
     UserChallengeProgress, UserLessonProgress, LessonBattle >>

\* The facts they declare together.
FactsOf(op) ==
  CASE op.do = "add" -> op.adds
    [] op.do = "enum" -> TypeOf(op.type, op.values) \cup {TypedColumn(op.table, op.column, op.type)}

Declared == UNION {FactsOf(op) : op \in Range(FlattenSeq(Registered))}
=============================================================================
