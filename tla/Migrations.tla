----------------------------- MODULE Migrations -----------------------------
(***************************************************************************)
(* `alembic upgrade` and `alembic downgrade` against one database, as      *)
(* alembic/env.py runs them: a command opens one transaction, applies one  *)
(* revision after another and commits once at the end, so a refused        *)
(* statement or a lost connection leaves the database as it was.  Only a   *)
(* revision with an autocommit block commits on the way.  Between commands *)
(* the program writes rows, and two kinds of them stand in the way of a    *)
(* statement.                                                              *)
(*                                                                         *)
(* First the revisions of alembic/versions, oldest first, statement by     *)
(* statement.  Columns are kept by name and by whether they are NOT NULL.  *)
(***************************************************************************)
EXTENDS Schema

\* Create users table.
R0001_up ==
  << Table("users", {"id", "email", "hashed_password", "is_active", "created_at"},
       {}),
     UniqueIndex("users", {"email"}) >>
R0001_down ==
  << DropUniqueIndex("users", {"email"}),
     DropTable("users") >>

\* Add user profile fields and refresh tokens.
R0002_up ==
  << Add("users", {}, {"username", "avatar_url", "google_subject"}),
     Optional("users", "hashed_password"),
     UniqueIndex("users", {"google_subject"}),
     Table("refresh_tokens", {"id", "user_id", "token_hash", "expires_at",
       "created_at"}, {"revoked_at", "device_name"}),
     Cascade("refresh_tokens", {<<"user_id", "users">>}),
     UniqueIndex("refresh_tokens", {"token_hash"}),
     Index("refresh_tokens", {"user_id"}) >>
R0002_down ==
  << DropIndex("refresh_tokens", {"user_id"}),
     DropUniqueIndex("refresh_tokens", {"token_hash"}),
     DropTable("refresh_tokens"),
     DropUniqueIndex("users", {"google_subject"}),
     DropColumns("users", {"google_subject"}),
     Required("users", "hashed_password"),
     DropColumns("users", {"avatar_url", "username"}) >>

\* Add password reset tokens.
ResetTokens_up ==
  << Table("password_reset_tokens", {"id", "user_id", "token_hash", "expires_at",
       "created_at"}, {"used_at", "revoked_at"}),
     Cascade("password_reset_tokens", {<<"user_id", "users">>}),
     UniqueIndex("password_reset_tokens", {"token_hash"}),
     Index("password_reset_tokens", {"user_id"}) >>
ResetTokens_down ==
  << DropIndex("password_reset_tokens", {"user_id"}),
     DropUniqueIndex("password_reset_tokens", {"token_hash"}),
     DropTable("password_reset_tokens") >>

\* Create course content tables (courses, units, lessons, challenges,
\* challenge_options).
R0003_up ==
  << Table("courses", {"id", "title", "image_src"}, {}),
     Table("units", {"id", "title", "description", "course_id", "order_index"}, {}),
     Cascade("units", {<<"course_id", "courses">>}),
     Index("units", {"course_id"}),
     Table("lessons", {"id", "title", "unit_id", "order_index"}, {}),
     Cascade("lessons", {<<"unit_id", "units">>}),
     Index("lessons", {"unit_id"}),
     Table("challenges", {"id", "lesson_id", "type", "question", "order_index"}, {}),
     Enum("challenges", "type", "challenge_type", {"SELECT", "ASSIST"}),
     Cascade("challenges", {<<"lesson_id", "lessons">>}),
     Index("challenges", {"lesson_id"}),
     Table("challenge_options", {"id", "challenge_id", "text", "correct"},
       {"image_src", "audio_src"}),
     Cascade("challenge_options", {<<"challenge_id", "challenges">>}),
     Index("challenge_options", {"challenge_id"}) >>
R0003_down ==
  << DropIndex("challenge_options", {"challenge_id"}),
     DropTable("challenge_options"),
     DropIndex("challenges", {"lesson_id"}),
     DropTable("challenges"),
     DropType("challenge_type"),
     DropIndex("lessons", {"unit_id"}),
     DropTable("lessons"),
     DropIndex("units", {"course_id"}),
     DropTable("units"),
     DropTable("courses") >>

\* Add is_admin flag to users.
R0004_up ==
  << Add("users", {"is_admin"}, {}) >>
R0004_down ==
  << DropColumns("users", {"is_admin"}) >>

\* Add challenge explanation, challenge_options.order_index, and one row per
\* place everywhere in a course.
R0005_up ==
  << Add("challenges", {}, {"explanation"}),
     Add("challenge_options", {}, {"order_index"}),
     Required("challenge_options", "order_index"),
     UniqueOver("units", {"course_id", "order_index"}),
     UniqueOver("lessons", {"unit_id", "order_index"}),
     UniqueOver("challenges", {"lesson_id", "order_index"}),
     UniqueOver("challenge_options", {"challenge_id", "order_index"}) >>
R0005_down ==
  << DropUniqueOver("challenge_options", {"challenge_id", "order_index"}),
     DropUniqueOver("challenges", {"lesson_id", "order_index"}),
     DropUniqueOver("lessons", {"unit_id", "order_index"}),
     DropUniqueOver("units", {"course_id", "order_index"}),
     DropColumns("challenge_options", {"order_index"}),
     DropColumns("challenges", {"explanation"}) >>

\* Add difficulty level (EASY/MEDIUM/HARD) to challenges.
R0006_up ==
  << Type("challenge_difficulty", {"EASY", "MEDIUM", "HARD"}),
     Add("challenges", {"difficulty"}, {}),
     Uses("challenges", "difficulty", "challenge_difficulty") >>
\* Mutant: the type stays behind, so a later upgrade finds it there.
R0006_down_keeping_type ==
  << DropColumns("challenges", {"difficulty"}) >>

R0006_down ==
  << DropColumns("challenges", {"difficulty"}),
     DropType("challenge_difficulty") >>

\* Add topics table and challenges.topic_id so questions can be filtered
\* and drawn by topic.
R0007_up ==
  << Table("topics", {"id", "name"}, {}),
     Unique("topics", {"name"}),
     Add("challenges", {}, {"topic_id"}),
     Index("challenges", {"topic_id"}),
     SetNull("challenges", {<<"topic_id", "topics">>}) >>
R0007_down ==
  << DropReference("challenges", "topic_id"),
     DropIndex("challenges", {"topic_id"}),
     DropColumns("challenges", {"topic_id"}),
     DropTable("topics") >>

\* Add passages table plus challenges.passage_id/source_ref for reading
\* questions.
R0008_up ==
  << Table("passages", {"id", "source_ref", "content"}, {"level_grade"}),
     Unique("passages", {"source_ref"}),
     Add("challenges", {}, {"passage_id", "source_ref"}),
     Index("challenges", {"passage_id"}),
     Index("challenges", {"source_ref"}),
     SetNull("challenges", {<<"passage_id", "passages">>}) >>
R0008_down ==
  << DropReference("challenges", "passage_id"),
     DropIndex("challenges", {"source_ref"}),
     DropIndex("challenges", {"passage_id"}),
     DropColumns("challenges", {"source_ref", "passage_id"}),
     DropTable("passages") >>

\* Add admin-only metadata columns to challenges.
R0009_up ==
  << Add("challenges", {}, {"correct_text", "tags", "cefr_level", "toeic_band",
       "toeic_min_score"}) >>
R0009_down ==
  << DropColumns("challenges", {"toeic_min_score", "toeic_band", "cefr_level",
       "tags", "correct_text"}) >>

\* Add user_challenge_progress and user_lesson_progress.
R0010_up ==
  << Table("user_challenge_progress", {"id", "user_id", "challenge_id", "lesson_id",
       "mastered", "attempts_count", "last_attempted_at"},
       {"last_selected_option_id", "mastered_at"}),
     Cascade("user_challenge_progress", {<<"user_id", "users">>, <<"challenge_id",
       "challenges">>, <<"lesson_id", "lessons">>}),
     SetNull("user_challenge_progress", {<<"last_selected_option_id",
       "challenge_options">>}),
     UniqueOver("user_challenge_progress", {"user_id", "challenge_id"}),
     Index("user_challenge_progress", {"user_id"}),
     Index("user_challenge_progress", {"challenge_id"}),
     Index("user_challenge_progress", {"lesson_id"}),
     Table("user_lesson_progress", {"id", "user_id", "lesson_id", "status",
       "correct_challenge_count", "total_challenge_count", "updated_at"},
       {"completed_at"}),
     Enum("user_lesson_progress", "status", "lesson_progress_status",
       {"NOT_STARTED", "IN_PROGRESS", "COMPLETED"}),
     Cascade("user_lesson_progress", {<<"user_id", "users">>, <<"lesson_id",
       "lessons">>}),
     UniqueOver("user_lesson_progress", {"user_id", "lesson_id"}),
     Index("user_lesson_progress", {"user_id"}),
     Index("user_lesson_progress", {"lesson_id"}) >>
R0010_down ==
  << DropIndex("user_lesson_progress", {"lesson_id"}),
     DropIndex("user_lesson_progress", {"user_id"}),
     DropTable("user_lesson_progress"),
     DropType("lesson_progress_status"),
     DropIndex("user_challenge_progress", {"lesson_id"}),
     DropIndex("user_challenge_progress", {"challenge_id"}),
     DropIndex("user_challenge_progress", {"user_id"}),
     DropTable("user_challenge_progress") >>

\* Add duo_matches, duo_match_rounds and duo_ratings tables for 1v1 PvP.
R0011_up ==
  << Table("duo_matches", {"id", "mode", "status", "player_one_id",
       "player_one_score", "player_two_score", "player_one_correct",
       "player_two_correct", "question_count", "time_per_question", "created_at"},
       {"room_code", "end_reason", "player_two_id", "winner_id", "topic_id",
       "difficulty", "started_at", "finished_at", "duration_seconds"}),
     Enum("duo_matches", "mode", "duo_match_mode", {"RANDOM", "FRIEND"}),
     Enum("duo_matches", "status", "duo_match_status", {"WAITING", "IN_PROGRESS",
       "FINISHED", "ABANDONED", "CANCELLED"}),
     Enum("duo_matches", "end_reason", "duo_match_end_reason", {"COMPLETED",
       "OPPONENT_LEFT", "OPPONENT_TIMEOUT", "CANCELLED"}),
     Uses("duo_matches", "difficulty", "challenge_difficulty"),
     Cascade("duo_matches", {<<"player_one_id", "users">>, <<"player_two_id",
       "users">>}),
     SetNull("duo_matches", {<<"winner_id", "users">>, <<"topic_id", "topics">>}),
     UniqueIndex("duo_matches", {"room_code"}),
     Index("duo_matches", {"player_one_id"}),
     Index("duo_matches", {"player_two_id"}),
     Index("duo_matches", {"winner_id"}),
     Table("duo_match_rounds", {"id", "match_id", "round_index",
       "player_one_correct", "player_two_correct", "player_one_points",
       "player_two_points"}, {"challenge_id", "player_one_option_id",
       "player_two_option_id", "player_one_elapsed_ms", "player_two_elapsed_ms"}),
     Cascade("duo_match_rounds", {<<"match_id", "duo_matches">>}),
     SetNull("duo_match_rounds", {<<"challenge_id", "challenges">>,
       <<"player_one_option_id", "challenge_options">>, <<"player_two_option_id",
       "challenge_options">>}),
     UniqueOver("duo_match_rounds", {"match_id", "round_index"}),
     Index("duo_match_rounds", {"match_id"}),
     Index("duo_match_rounds", {"challenge_id"}),
     Table("duo_ratings", {"id", "user_id", "rating", "matches_played", "wins",
       "losses", "draws", "current_streak", "best_streak", "updated_at"}, {}),
     Cascade("duo_ratings", {<<"user_id", "users">>}),
     UniqueIndex("duo_ratings", {"user_id"}),
     Index("duo_ratings", {"rating"}) >>
R0011_down ==
  << DropIndex("duo_ratings", {"rating"}),
     DropUniqueIndex("duo_ratings", {"user_id"}),
     DropTable("duo_ratings"),
     DropIndex("duo_match_rounds", {"challenge_id"}),
     DropIndex("duo_match_rounds", {"match_id"}),
     DropTable("duo_match_rounds"),
     DropIndex("duo_matches", {"winner_id"}),
     DropIndex("duo_matches", {"player_two_id"}),
     DropIndex("duo_matches", {"player_one_id"}),
     DropUniqueIndex("duo_matches", {"room_code"}),
     DropTable("duo_matches"),
     DropType("duo_match_end_reason"),
     DropType("duo_match_status"),
     DropType("duo_match_mode") >>

\* Add lessons.is_bank so overflow question-bank lessons stay off the course
\* tree.
R0012_up ==
  << Add("lessons", {"is_bank"}, {}),
     Index("lessons", {"is_bank"}) >>
R0012_down ==
  << DropIndex("lessons", {"is_bank"}),
     DropColumns("lessons", {"is_bank"}) >>

\* Add user bio and the Drive file id backing an uploaded avatar.
R0013_up ==
  << Add("users", {}, {"bio", "avatar_file_id"}) >>
R0013_down ==
  << DropColumns("users", {"avatar_file_id", "bio"}) >>

\* Add user_game_profiles and gold_transactions for the game economy.
R0014_up ==
  << Table("user_game_profiles", {"id", "user_id", "total_exp", "level", "gold",
       "updated_at"}, {}),
     Cascade("user_game_profiles", {<<"user_id", "users">>}),
     UniqueIndex("user_game_profiles", {"user_id"}),
     Table("gold_transactions", {"id", "user_id", "amount", "reason", "ref_id",
       "balance_after", "created_at"}, {}),
     Enum("gold_transactions", "reason", "gold_reason", {"MATCH_WIN", "MATCH_LOSS",
       "MATCH_DRAW", "SKILL_UNLOCK", "ITEM_PURCHASE", "CLASS_CHANGE", "LOOT_CHEST"}),
     Cascade("gold_transactions", {<<"user_id", "users">>}),
     UniqueOver("gold_transactions", {"user_id", "reason", "ref_id"}),
     Index("gold_transactions", {"user_id"}) >>
R0014_down ==
  << DropIndex("gold_transactions", {"user_id"}),
     DropTable("gold_transactions"),
     DropUniqueIndex("user_game_profiles", {"user_id"}),
     DropTable("user_game_profiles"),
     DropType("gold_reason") >>

\* Add health, damage and combo tracking to duo matches, plus the KNOCKOUT
\* end reason.
R0015_up ==
  << Value("duo_match_end_reason", "KNOCKOUT"),
     Add("duo_matches", {"player_one_hp_left", "player_two_hp_left"}, {}),
     Add("duo_match_rounds", {"player_one_damage", "player_two_damage",
       "player_one_hp_after", "player_two_hp_after", "player_one_combo",
       "player_two_combo"}, {}) >>
R0015_down ==
  << DropColumns("duo_match_rounds", {"player_two_combo", "player_one_combo",
       "player_two_hp_after", "player_one_hp_after", "player_two_damage",
       "player_one_damage"}),
     DropColumns("duo_matches", {"player_two_hp_left", "player_one_hp_left"}) >>

\* Add character classes, the skill tree, loadouts and the in-match skill
\* log.
R0016_up ==
  << Table("game_classes", {"id", "code", "name", "description", "max_hp",
       "damage_permille", "starting_mana", "sort_order", "is_active"}, {}),
     UniqueIndex("game_classes", {"code"}),
     Table("skills", {"id", "code", "name", "description", "effect", "tier",
       "mana_cost", "magnitude", "duration_rounds", "unlock_kind", "unlock_level",
       "gold_price", "is_active", "sort_order"}, {"class_code", "parent_code",
       "unlock_unit_id"}),
     Enum("skills", "effect", "skill_effect", {"DOUBLE_DAMAGE", "DAMAGE_REDUCTION",
       "HEAL", "TIME_PENALTY", "REMOVE_OPTIONS", "MANA_BURN", "COMBO_KEEP",
       "EXECUTE"}),
     Enum("skills", "unlock_kind", "skill_unlock_kind", {"STARTER", "LEVEL_GOLD",
       "UNIT_COMPLETION"}),
     Cascade("skills", {<<"class_code", "game_classes">>}),
     SetNull("skills", {<<"unlock_unit_id", "units">>}),
     UniqueIndex("skills", {"code"}),
     Index("skills", {"class_code"}),
     Index("skills", {"unlock_unit_id"}),
     Table("user_skills", {"id", "user_id", "skill_id", "acquired_at"}, {}),
     Cascade("user_skills", {<<"user_id", "users">>, <<"skill_id", "skills">>}),
     UniqueOver("user_skills", {"user_id", "skill_id"}),
     Index("user_skills", {"user_id"}),
     Index("user_skills", {"skill_id"}),
     Table("user_skill_loadouts", {"id", "user_id", "slot_index", "skill_id"}, {}),
     Cascade("user_skill_loadouts", {<<"user_id", "users">>, <<"skill_id",
       "skills">>}),
     UniqueOver("user_skill_loadouts", {"user_id", "slot_index"}),
     Index("user_skill_loadouts", {"user_id"}),
     Index("user_skill_loadouts", {"skill_id"}),
     Table("duo_match_skill_uses", {"id", "match_id", "round_index", "user_id",
       "skill_code", "mana_spent", "created_at"}, {"skill_id"}),
     Cascade("duo_match_skill_uses", {<<"match_id", "duo_matches">>, <<"user_id",
       "users">>}),
     SetNull("duo_match_skill_uses", {<<"skill_id", "skills">>}),
     Index("duo_match_skill_uses", {"match_id"}),
     Index("duo_match_skill_uses", {"user_id"}),
     Index("duo_match_skill_uses", {"skill_id"}),
     Add("user_game_profiles", {}, {"class_code", "class_chosen_at"}),
     SetNull("user_game_profiles", {<<"class_code", "game_classes">>}) >>
R0016_down ==
  << DropReference("user_game_profiles", "class_code"),
     DropColumns("user_game_profiles", {"class_chosen_at", "class_code"}),
     DropTable("duo_match_skill_uses"),
     DropTable("user_skill_loadouts"),
     DropTable("user_skills"),
     DropTable("skills"),
     DropTable("game_classes"),
     DropType("skill_unlock_kind"),
     DropType("skill_effect") >>

\* Add energy, daily streaks, loot items and ladder seasons.
R0017_up ==
  << Add("user_game_profiles", {"energy", "energy_updated_at", "day_streak",
       "best_day_streak"}, {"last_active_date"}),
     Table("user_daily_activity", {"id", "user_id", "activity_date",
       "lessons_completed", "matches_played"}, {}),
     Cascade("user_daily_activity", {<<"user_id", "users">>}),
     UniqueOver("user_daily_activity", {"user_id", "activity_date"}),
     Index("user_daily_activity", {"user_id"}),
     Table("game_items", {"id", "code", "name", "kind", "rarity", "bonus_max_hp",
       "bonus_damage_permille", "bonus_starting_mana", "is_active"}, {"slot",
       "image_src"}),
     Enum("game_items", "kind", "item_kind", {"EQUIPMENT", "SKIN", "CARD"}),
     Enum("game_items", "slot", "equipment_slot", {"WEAPON", "ARMOR", "TRINKET"}),
     Enum("game_items", "rarity", "item_rarity", {"COMMON", "RARE", "EPIC",
       "LEGENDARY"}),
     UniqueIndex("game_items", {"code"}),
     Table("user_items", {"id", "user_id", "item_id", "quantity", "acquired_at"},
       {}),
     Cascade("user_items", {<<"user_id", "users">>, <<"item_id", "game_items">>}),
     UniqueOver("user_items", {"user_id", "item_id"}),
     Index("user_items", {"user_id"}),
     Index("user_items", {"item_id"}),
     Table("user_equipment", {"id", "user_id", "slot", "item_id"}, {}),
     Enum("user_equipment", "slot", "equipment_slot", {"WEAPON", "ARMOR",
       "TRINKET"}),
     Cascade("user_equipment", {<<"user_id", "users">>, <<"item_id",
       "game_items">>}),
     UniqueOver("user_equipment", {"user_id", "slot"}),
     Index("user_equipment", {"user_id"}),
     Index("user_equipment", {"item_id"}),
     Table("loot_grants", {"id", "user_id", "ref_id", "created_at"}, {"item_id"}),
     Cascade("loot_grants", {<<"user_id", "users">>}),
     SetNull("loot_grants", {<<"item_id", "game_items">>}),
     UniqueOver("loot_grants", {"user_id", "ref_id"}),
     Index("loot_grants", {"user_id"}),
     Table("game_seasons", {"id", "code", "name", "starts_at", "ends_at",
       "is_active"}, {}),
     UniqueIndex("game_seasons", {"code"}),
     Index("game_seasons", {"is_active"}),
     Table("season_ratings", {"id", "season_id", "user_id", "rating", "peak_rating",
       "matches_played", "wins", "losses", "draws"}, {}),
     Cascade("season_ratings", {<<"season_id", "game_seasons">>, <<"user_id",
       "users">>}),
     UniqueOver("season_ratings", {"season_id", "user_id"}),
     Index("season_ratings", {"season_id"}),
     Index("season_ratings", {"user_id"}),
     Index("season_ratings", {"rating"}) >>
R0017_down ==
  << DropTable("season_ratings"),
     DropTable("game_seasons"),
     DropTable("loot_grants"),
     DropTable("user_equipment"),
     DropTable("user_items"),
     DropTable("game_items"),
     DropTable("user_daily_activity"),
     DropColumns("user_game_profiles", {"last_active_date", "best_day_streak",
       "day_streak", "energy_updated_at", "energy"}),
     DropType("item_rarity"),
     DropType("equipment_slot"),
     DropType("item_kind") >>

\* Add the monster catalog and PvE lesson battles.
R0018_up ==
  << Value("gold_reason", "BATTLE_WIN"),
     Value("gold_reason", "BATTLE_REPLAY"),
     Table("monsters", {"id", "code", "name", "description", "tier", "max_hp",
       "attack_damage", "damage_reduction_permille", "enrage_after_rounds",
       "enrage_multiplier_permille", "is_boss", "art_code", "sort_order",
       "is_active"}, {"weak_topic_id"}),
     SetNull("monsters", {<<"weak_topic_id", "topics">>}),
     UniqueIndex("monsters", {"code"}),
     Table("lesson_battles", {"id", "user_id", "lesson_id", "monster_code",
       "status", "player_hp_left", "monster_hp_left", "rounds_played",
       "correct_count", "best_combo", "exp_awarded", "gold_awarded", "first_clear",
       "started_at"}, {"end_reason", "finished_at"}),
     Enum("lesson_battles", "status", "battle_status", {"IN_PROGRESS", "WON",
       "LOST", "ABANDONED"}),
     Enum("lesson_battles", "end_reason", "battle_end_reason", {"MONSTER_DOWN",
       "PLAYER_DOWN", "OUT_OF_QUESTIONS", "LEFT", "CANCELLED"}),
     Cascade("lesson_battles", {<<"user_id", "users">>, <<"lesson_id", "lessons">>}),
     Index("lesson_battles", {"user_id"}),
     Index("lesson_battles", {"lesson_id"}),
     IndexOver("lesson_battles", {"user_id", "lesson_id"}) >>
R0018_down ==
  << DropTable("lesson_battles"),
     DropUniqueIndex("monsters", {"code"}),
     DropTable("monsters"),
     DropType("battle_end_reason"),
     DropType("battle_status") >>

\* Add the ORDER challenge type and move the imported sentence builders onto
\* it.
R0019_outside ==
  << Value("challenge_type", "ORDER") >>
R0019_up ==
  << UsesValue("challenge_type", "ORDER") >>
R0019_down ==
  << UsesValue("challenge_type", "ASSIST") >>

\* Add DECK_CLEARED and TIME_UP to duo_match_end_reason.
R0020_up ==
  << Value("duo_match_end_reason", "DECK_CLEARED"),
     Value("duo_match_end_reason", "TIME_UP") >>
R0020_down == << >>

\* Add the DEF stat to classes and equipment.
R0021_up ==
  << Add("game_classes", {"defence"}, {}),
     Add("game_items", {"bonus_defence"}, {}) >>
R0021_down ==
  << DropColumns("game_items", {"bonus_defence"}),
     DropColumns("game_classes", {"defence"}) >>

\* Add the achievement catalog and who has unlocked what.
R0022_up ==
  << Table("achievements", {"id", "code", "name", "description", "category",
       "metric", "threshold", "icon_code", "sort_order", "is_hidden", "is_active"},
       {}),
     Enum("achievements", "category", "achievement_category", {"PROGRESSION",
       "LEARNING", "PVP", "PVE"}),
     Enum("achievements", "metric", "achievement_metric", {"LEVEL", "DAY_STREAK",
       "BEST_DAY_STREAK", "CHALLENGES_MASTERED", "TOTAL_ATTEMPTS",
       "LESSONS_COMPLETED", "PVP_WINS", "PVP_RATING", "PVP_BEST_STREAK",
       "BATTLES_WON"}),
     UniqueIndex("achievements", {"code"}),
     Table("user_achievements", {"id", "user_id", "achievement_id", "unlocked_at"},
       {}),
     Cascade("user_achievements", {<<"user_id", "users">>, <<"achievement_id",
       "achievements">>}),
     UniqueOver("user_achievements", {"user_id", "achievement_id"}),
     Index("user_achievements", {"user_id"}) >>
R0022_down ==
  << DropIndex("user_achievements", {"user_id"}),
     DropTable("user_achievements"),
     DropUniqueIndex("achievements", {"code"}),
     DropTable("achievements"),
     DropType("achievement_metric"),
     DropType("achievement_category") >>

\* Add TIME_BONUS to skill_effect.
R0023_up ==
  << Value("skill_effect", "TIME_BONUS") >>
R0023_down == << >>

\* Replace game_items' RPG stat bonuses with EdTech reward buffs.
R0024_up ==
  << Add("game_items", {"bonus_exp_permille", "bonus_gold_permille"}, {}),
     DropColumns("game_items", {"bonus_max_hp", "bonus_damage_permille",
       "bonus_starting_mana", "bonus_defence"}) >>
R0024_down ==
  << Add("game_items", {"bonus_max_hp", "bonus_damage_permille",
       "bonus_starting_mana", "bonus_defence"}, {}),
     DropColumns("game_items", {"bonus_exp_permille", "bonus_gold_permille"}) >>

\* Add benchmark_cleared_level to user_game_profiles.
R0025_up ==
  << Add("user_game_profiles", {"benchmark_cleared_level"}, {}) >>
R0025_down ==
  << DropColumns("user_game_profiles", {"benchmark_cleared_level"}) >>

\* Add gold_price to game_items, so a cosmetic can be bought rather than only
\* dropped.
R0026_up ==
  << Add("game_items", {"gold_price"}, {}) >>
R0026_down ==
  << DropColumns("game_items", {"gold_price"}) >>

\* Add skin_code to user_game_profiles: which cosmetic the player is wearing.
R0027_up ==
  << Add("user_game_profiles", {}, {"skin_code"}) >>
R0027_down ==
  << DropColumns("user_game_profiles", {"skin_code"}) >>

\* Add benchmark_exam_attempts: the Benchmark Exam, drawn and graded server-
\* side.
R0028_up ==
  << Type("benchmark_attempt_status", {"IN_PROGRESS", "PASSED", "FAILED",
       "ABANDONED"}),
     Table("benchmark_exam_attempts", {"id", "user_id", "cap_level", "status",
       "question_ids", "answers", "total_count", "pass_percent", "started_at",
       "expires_at"}, {"correct_count", "submitted_at"}),
     Uses("benchmark_exam_attempts", "status", "benchmark_attempt_status"),
     Cascade("benchmark_exam_attempts", {<<"user_id", "users">>}),
     Index("benchmark_exam_attempts", {"user_id"}),
     OneInProgress("benchmark_exam_attempts", {"user_id"}) >>
R0028_down ==
  << DropOneInProgress("benchmark_exam_attempts", {"user_id"}),
     DropIndex("benchmark_exam_attempts", {"user_id"}),
     DropTable("benchmark_exam_attempts"),
     DropType("benchmark_attempt_status") >>

\* Add push notifications: device tokens and a record of what was sent.
R0029_up ==
  << Type("device_type", {"ANDROID", "IOS"}),
     Table("user_device_tokens", {"id", "user_id", "fcm_token", "device_type",
       "is_active", "created_at", "updated_at"}, {}),
     Uses("user_device_tokens", "device_type", "device_type"),
     Cascade("user_device_tokens", {<<"user_id", "users">>}),
     Unique("user_device_tokens", {"fcm_token"}),
     Index("user_device_tokens", {"user_id"}),
     Table("notification_dispatches", {"id", "user_id", "kind", "dedupe_key",
       "sent_at"}, {}),
     Cascade("notification_dispatches", {<<"user_id", "users">>}),
     UniqueOver("notification_dispatches", {"user_id", "kind", "dedupe_key"}) >>
R0029_down ==
  << DropTable("notification_dispatches"),
     DropIndex("user_device_tokens", {"user_id"}),
     DropTable("user_device_tokens"),
     DropType("device_type") >>

\* Add AI conversation practice: sessions and their messages.
R0030_up ==
  << Type("conversation_status", {"ACTIVE", "FINISHED"}),
     Type("conversation_message_role", {"USER", "ASSISTANT"}),
     Table("conversation_sessions", {"id", "user_id", "scenario_code", "cefr",
       "status", "user_turns", "goal_reached", "started_at"}, {"feedback", "score",
       "finished_at"}),
     Uses("conversation_sessions", "status", "conversation_status"),
     Cascade("conversation_sessions", {<<"user_id", "users">>}),
     IndexOver("conversation_sessions", {"user_id", "started_at"}),
     Table("conversation_messages", {"id", "session_id", "seq", "role", "content",
       "created_at"}, {"translation_vi"}),
     Uses("conversation_messages", "role", "conversation_message_role"),
     Cascade("conversation_messages", {<<"session_id", "conversation_sessions">>}),
     UniqueOver("conversation_messages", {"session_id", "seq"}) >>
R0030_down ==
  << DropTable("conversation_messages"),
     DropIndexOver("conversation_sessions", {"user_id", "started_at"}),
     DropTable("conversation_sessions"),
     DropType("conversation_message_role"),
     DropType("conversation_status") >>

\* Add daily quests: the quest catalog, each player's quests per day and the
\* chests.
R0031_up ==
  << Value("gold_reason", "DAILY_QUEST"),
     Value("gold_reason", "ACTIVITY_CHEST"),
     Table("daily_quest_templates", {"id", "code", "quest_type", "difficulty",
       "title", "target", "activity_points", "reward_gold", "reward_exp",
       "sort_order", "is_active"}, {}),
     UniqueIndex("daily_quest_templates", {"code"}),
     Table("user_daily_quests", {"id", "user_id", "template_id", "quest_date",
       "quest_type", "difficulty", "target", "activity_points", "reward_gold",
       "reward_exp", "slot", "progress", "created_at"}, {"completed_at",
       "claimed_at"}),
     Cascade("user_daily_quests", {<<"user_id", "users">>, <<"template_id",
       "daily_quest_templates">>}),
     UniqueOver("user_daily_quests", {"user_id", "template_id", "quest_date"}),
     IndexOver("user_daily_quests", {"user_id", "quest_date"}),
     Table("user_daily_activity_chests", {"id", "user_id", "quest_date",
       "milestone", "claimed_at"}, {}),
     Cascade("user_daily_activity_chests", {<<"user_id", "users">>}),
     UniqueOver("user_daily_activity_chests", {"user_id", "quest_date",
       "milestone"}),
     Index("user_daily_activity_chests", {"user_id"}) >>
R0031_down ==
  << DropIndex("user_daily_activity_chests", {"user_id"}),
     DropTable("user_daily_activity_chests"),
     DropIndexOver("user_daily_quests", {"user_id", "quest_date"}),
     DropTable("user_daily_quests"),
     DropUniqueIndex("daily_quest_templates", {"code"}),
     DropTable("daily_quest_templates") >>

-----------------------------------------------------------------------------
\* What runs in autocommit first, then in the transaction, then on the way back.
Revision(outside, up, down) == [outside |-> outside, up |-> up, down |-> down]

\* The chain down_revision spells.
Revisions ==
  << Revision(<< >>, R0001_up, R0001_down),
     Revision(<< >>, R0002_up, R0002_down),
     Revision(<< >>, ResetTokens_up, ResetTokens_down),
     Revision(<< >>, R0003_up, R0003_down),
     Revision(<< >>, R0004_up, R0004_down),
     Revision(<< >>, R0005_up, R0005_down),
     Revision(<< >>, R0006_up, R0006_down),
     Revision(<< >>, R0007_up, R0007_down),
     Revision(<< >>, R0008_up, R0008_down),
     Revision(<< >>, R0009_up, R0009_down),
     Revision(<< >>, R0010_up, R0010_down),
     Revision(<< >>, R0011_up, R0011_down),
     Revision(<< >>, R0012_up, R0012_down),
     Revision(<< >>, R0013_up, R0013_down),
     Revision(<< >>, R0014_up, R0014_down),
     Revision(<< >>, R0015_up, R0015_down),
     Revision(<< >>, R0016_up, R0016_down),
     Revision(<< >>, R0017_up, R0017_down),
     Revision(<< >>, R0018_up, R0018_down),
     Revision(R0019_outside, R0019_up, R0019_down),
     Revision(<< >>, R0020_up, R0020_down),
     Revision(<< >>, R0021_up, R0021_down),
     Revision(<< >>, R0022_up, R0022_down),
     Revision(<< >>, R0023_up, R0023_down),
     Revision(<< >>, R0024_up, R0024_down),
     Revision(<< >>, R0025_up, R0025_down),
     Revision(<< >>, R0026_up, R0026_down),
     Revision(<< >>, R0027_up, R0027_down),
     Revision(<< >>, R0028_up, R0028_down),
     Revision(<< >>, R0029_up, R0029_down),
     Revision(<< >>, R0030_up, R0030_down),
     Revision(<< >>, R0031_up, R0031_down) >>

HeadRevision == Len(Revisions)

-----------------------------------------------------------------------------
(* The commands.                                                            *)

CONSTANTS NoCommand,    \* no command is running
          MaxCommands   \* bound: commands of a behaviour

VARIABLES facts,     \* the committed schema
          version,   \* the committed alembic_version, as a position in Revisions
          rows,      \* the rows that matter: see RowKinds
          command,   \* the command that runs, or NoCommand
          refused,   \* the last refusal: where, and by which rows; or NoCommand
          commands   \* how many have been started

vars == <<facts, version, rows, command, refused, commands>>

\* An account without a password, and two units of a course on one place.
GoogleUser == <<"null", "users", "hashed_password">>
SamePlace  == <<"twice", "units", {"course_id", "order_index"}>>
RowKinds   == {GoogleUser, SamePlace}

\* The schema lets such a row be written.
Writable(s, row) ==
  CASE row = GoogleUser -> Column("users", "google_subject") \in s /\ NotNull("users", "hashed_password") \notin s
    [] row = SamePlace -> TableFact("units") \in s /\ Key("units", "unique", row[3]) \notin s

\* The rows a statement cannot be applied over.
Blocking(op, held) ==
  IF op.do # "add" THEN {}
  ELSE {row \in held : \/ row[1] = "null" /\ op.adds = {NotNull(row[2], row[3])}
                       \/ row[1] = "twice" /\ Key(row[2], "unique", row[3]) \in op.adds}

BlockingAll(ops, held) == UNION {Blocking(op, held) : op \in Range(ops)}

TypeOK ==
  /\ version \in 0..HeadRevision
  /\ rows \subseteq RowKinds
  /\ command # NoCommand => /\ command.to \in 0..HeadRevision /\ command.at \in 0..HeadRevision
                            /\ command.left \in BOOLEAN
  /\ commands \in 0..MaxCommands

Init ==
  /\ facts = {} /\ version = 0 /\ rows = {}
  /\ command = NoCommand /\ refused = NoCommand /\ commands = 0

-----------------------------------------------------------------------------
Running    == command # NoCommand
GoingUp    == Running /\ command.at < command.to
GoingDown  == Running /\ command.at > command.to
Coming     == Revisions[command.at + 1]
Leaving    == Revisions[command.at]

\* alembic upgrade or downgrade to a revision: run_async_migrations connects,
\* do_run_migrations begins the transaction.
Begin(to) ==
  /\ ~ Running /\ to # version /\ commands < MaxCommands
  /\ command' = [to |-> to, at |-> version, left |-> FALSE, tx |-> Begun(facts)]
  /\ commands' = commands + 1
  /\ refused' = NoCommand
  /\ UNCHANGED <<facts, version, rows>>

\* A refused statement: the transaction rolls back.
Refuse(ops) ==
  /\ command' = NoCommand
  /\ refused' = [at |-> command.at, by |-> BlockingAll(ops, rows)]
  /\ UNCHANGED <<facts, version, rows, commands>>

\* The statements of one revision, run within the transaction.
Apply(ops, at) ==
  LET run == RunAll(command.tx, ops) IN
  IF run.ok /\ BlockingAll(ops, rows) = {}
  THEN /\ command' = [command EXCEPT !.tx = run.tx, !.at = at, !.left = FALSE]
       /\ UNCHANGED <<facts, version, rows, refused, commands>>
  ELSE Refuse(ops)

\* An autocommit block: what the transaction did is committed, with the
\* version it had come to, the block runs by itself and a new one begins.
LeaveTransaction ==
  /\ GoingUp /\ ~ command.left /\ Coming.outside # << >>
  /\ LET run == RunAll(Begun(command.tx.facts), Coming.outside) IN
     IF run.ok
     THEN /\ facts' = run.tx.facts
          /\ version' = command.at
          /\ command' = [command EXCEPT !.left = TRUE,
                                        !.tx = [Begun(run.tx.facts) EXCEPT !.memo = command.tx.memo]]
          /\ UNCHANGED <<rows, refused, commands>>
     ELSE Refuse(Coming.outside)

Upgrade ==
  /\ GoingUp /\ (command.left \/ Coming.outside = << >>)
  /\ Apply(Coming.up, command.at + 1)

Downgrade ==
  /\ GoingDown
  /\ Apply(Leaving.down, command.at - 1)

\* Rows of a dropped table or column go with it.
Finish ==
  /\ Running /\ command.at = command.to
  /\ facts' = command.tx.facts
  /\ version' = command.at
  /\ rows' = {row \in rows : Writable(facts', row)}
  /\ command' = NoCommand
  /\ UNCHANGED <<refused, commands>>

\* The process or its connection goes: PostgreSQL rolls back.
Crash ==
  /\ Running
  /\ command' = NoCommand
  /\ UNCHANGED <<facts, version, rows, refused, commands>>

\* The program, between commands.
WriteRow(row) ==
  /\ ~ Running /\ row \notin rows /\ Writable(facts, row)
  /\ rows' = rows \cup {row}
  /\ UNCHANGED <<facts, version, command, refused, commands>>

Next ==
  \/ \E to \in {0, version - 1, version + 1, HeadRevision} \cap (0..HeadRevision) : Begin(to)
  \/ LeaveTransaction \/ Upgrade \/ Downgrade \/ Finish \/ Crash
  \/ \E row \in RowKinds : WriteRow(row)

Spec == Init /\ [][Next]_vars

-----------------------------------------------------------------------------
\* The schema of each version, built straight from nothing.
Straight ==
  FoldLeft(LAMBDA acc, r : Append(acc, RunAll(Begun(RunAll(Begun(acc[Len(acc)]), r.outside).tx.facts), r.up).tx.facts),
           << {} >>, Revisions)

IsValue(fact) == fact[1] = "value"

(* Whatever was upgraded, downgraded, refused or cut off on the way, the    *)
(* committed schema is the one its version stands for, but for enum values  *)
(* a downgrade cannot take back.                                            *)
SchemaIsItsVersion ==
  LET straight == Straight[version + 1] IN
  /\ straight \subseteq facts
  /\ \A f \in facts \ straight : IsValue(f) /\ TypeFact(f[2]) \in straight

(* No revision is refused in either direction unless rows are in its way:   *)
(* in particular no enum value is written in the transaction that adds it.  *)
OnlyRowsRefuse == refused # NoCommand => refused.by # {}

(* A migrated database has every table, column, key, reference and enum     *)
(* value the models declare, and beyond them one index.                     *)
HeadIsTheModels ==
  version = HeadRevision =>
    facts = Declared \cup {Key("lesson_battles", "index", {"user_id", "lesson_id"})}
=============================================================================
