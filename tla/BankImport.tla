----------------------------- MODULE BankImport -----------------------------
(***************************************************************************)
(* scripts/import_quiz_bank.py: the question bank laid out as a path and   *)
(* written in batches, each with its own commit.  Questions of one kind    *)
(* and band are packed into lessons of exactly `PerLesson`, articles in    *)
(* one piece; units take the kinds in turn; what fits nowhere goes to the  *)
(* band's bank lesson.  The script may die between two commits, stop at a  *)
(* band it cannot plan, and be started again with or without --reset.      *)
(***************************************************************************)
EXTENDS Naturals, SequencesExt

CONSTANTS Items,       \* questions
          Sources,     \* what the source files may hold: sets of questions
          Bands,       \* the score bands, lowest first: a sequence
          Kinds,       \* the kinds of question, in a unit's order: a sequence
          BandOf,      \* item -> its band, or NoBand when BANDS has none for it
          KindOf,      \* item -> its kind
          PassageOf,   \* item -> its article, or NoPassage
          Answerable,  \* the items with a correct option
          NoBand, NoPassage, Idle,
          PerLesson, LessonsPerUnit, MaxUnits,   \* PathLayout
          BATCH_SIZE,
          MaxRuns      \* bound: runs of the script

VARIABLES source,      \* the files as they lie on disk
          course,      \* the course is there
          lessons,     \* stored lessons: [band, unit, place, kind, bank]
          challenges,  \* stored challenges: [item, lesson, order]
          passages,    \* stored passages
          run,         \* the run of the script, or Idle
          runs,        \* how many were started
          outcome      \* how the last one ended

vars == <<source, course, lessons, challenges, passages, run, runs, outcome>>

\* A pool before packing: blocks that must not be split, and what is packed.
Pool(items) ==
  [blocks |-> {SetToSeq({i \in items : PassageOf[i] = PassageOf[j]}) :
                 j \in {k \in items : PassageOf[k] # NoPassage}}
              \cup {<<i>> : i \in {k \in items : PassageOf[k] = NoPassage}},
   open |-> << >>, lessons |-> << >>, leftover |-> << >>]

\* _collect_pools: by band and kind; items without an answer are dropped.
PoolItems(b, k) == {i \in source \cap Answerable : BandOf[i] = b /\ KindOf[i] = k}
Unbanded        == {i \in source \cap Answerable : BandOf[i] = NoBand}
KindsOf(b)      == SelectSeq(Kinds, LAMBDA k : PoolItems(b, k) # {})

\* An article longer than a lesson never goes on the path.
TooLong(pool) == {block \in pool.blocks : Len(block) > PerLesson}
Collected(b, k) ==
  LET pool == Pool(PoolItems(b, k)) IN
  [pool EXCEPT !.blocks = @ \ TooLong(pool), !.leftover = FlattenSeq(SetToSeq(TooLong(pool)))]

-----------------------------------------------------------------------------
TypeOK ==
  /\ course \in BOOLEAN /\ runs \in 0..MaxRuns
  /\ passages \subseteq {PassageOf[i] : i \in Items} \ {NoPassage}
  /\ \A c \in challenges : c.item \in Items /\ c.lesson \in lessons /\ c.order \in Nat \ {0}
  /\ outcome \in {"none", "exists", "whole", "unplanned", "refused", "died"}

Init ==
  /\ source \in Sources
  /\ course = FALSE /\ lessons = {} /\ challenges = {} /\ passages = {}
  /\ run = Idle /\ runs = 0 /\ outcome = "none"

Ends(how) == run' = Idle /\ outcome' = how

\* main: an existing course is left alone without --reset.
Start(reset) ==
  /\ run = Idle /\ runs < MaxRuns
  /\ runs' = runs + 1
  /\ UNCHANGED <<source, course, lessons, challenges, passages>>
  /\ IF course /\ ~ reset THEN Ends("exists")
     ELSE /\ run' = [at |-> IF reset THEN "delete course" ELSE "create"]
          /\ outcome' = "none"

\* --reset: the course goes with everything under it, then every passage.
DeleteCourse ==
  /\ run # Idle /\ run.at = "delete course"
  /\ course' = FALSE /\ lessons' = {} /\ challenges' = {}
  /\ run' = [at |-> "delete passages"]
  /\ UNCHANGED <<source, passages, runs, outcome>>

DeletePassages ==
  /\ run # Idle /\ run.at = "delete passages"
  /\ passages' = {}
  /\ run' = [at |-> "create"]
  /\ UNCHANGED <<source, course, lessons, challenges, runs, outcome>>

\* The course row; the source is read into pools.
CreateCourse ==
  /\ run # Idle /\ run.at = "create"
  /\ course' = TRUE
  /\ run' = [at |-> "pack", band |-> 1, todo |-> << >>, batch |-> << >>, articles |-> {}, known |-> {},
             pools |-> [b \in Range(Bands) |-> [k \in Range(KindsOf(b)) |-> Collected(b, k)]]]
  /\ UNCHANGED <<source, lessons, challenges, passages, runs, outcome>>

\* _pack_pool, one block at a time: the largest that fits what the open lesson
\* has left, any one of that size; when none fits, the pool is spent.
Fitting(pool) == {block \in pool.blocks : Len(block) <= PerLesson - Len(pool.open)}
Largest(pool) == {block \in Fitting(pool) : \A other \in Fitting(pool) : Len(other) <= Len(block)}

Placed(pool, block) ==
  LET open == pool.open \o block
      full == Len(open) = PerLesson
  IN [pool EXCEPT !.blocks = @ \ {block}, !.open = IF full THEN << >> ELSE open,
                  !.lessons = IF full THEN Append(@, open) ELSE @]

\* Mutant: the lesson that cannot be closed is lost with its questions.
SpentWithoutOpen(pool) ==
  [pool EXCEPT !.leftover = @ \o FlattenSeq(SetToSeq(pool.blocks)), !.open = << >>, !.blocks = {}]

Spent(pool) ==
  [pool EXCEPT !.leftover = @ \o pool.open \o FlattenSeq(SetToSeq(pool.blocks)),
               !.open = << >>, !.blocks = {}]

Unpacked == {<<b, k>> \in Range(Bands) \X Range(Kinds) :
               k \in Range(KindsOf(b)) /\ LET pool == run.pools[b][k]
                                          IN pool.blocks # {} \/ pool.open # << >>}

Pack ==
  /\ run # Idle /\ run.at = "pack"
  /\ IF Unpacked = {} THEN run' = [run EXCEPT !.at = "plan"]
     ELSE LET bk   == CHOOSE x \in Unpacked : TRUE
              pool == run.pools[bk[1]][bk[2]]
          IN \/ /\ Fitting(pool) = {}
                /\ run' = [run EXCEPT !.pools[bk[1]][bk[2]] = Spent(pool)]
             \/ \E block \in Largest(pool) :
                  run' = [run EXCEPT !.pools[bk[1]][bk[2]] = Placed(pool, block)]
  /\ UNCHANGED <<source, course, lessons, challenges, passages, runs, outcome>>

-----------------------------------------------------------------------------
\* _plan_band: a unit's lessons split between the band's kinds, the first of
\* them taking what does not divide, and as many units as the scarcest fills.
PerKind(kinds, n) ==
  LessonsPerUnit \div Len(kinds) + IF n <= LessonsPerUnit % Len(kinds) THEN 1 ELSE 0

Units(b, pools) ==
  LET kinds == KindsOf(b) IN
  IF kinds = << >> \/ LessonsPerUnit < Len(kinds) THEN 0
  ELSE Min({MaxUnits} \cup {Len(pools[kinds[n]].lessons) \div PerKind(kinds, n) : n \in DOMAIN kinds})

\* unit_kind_order: the kinds in turn until each has had its lessons.
UnitKind(kinds, place) == kinds[((place - 1) % Len(kinds)) + 1]

PathLesson(b, unit, place) ==
  [band |-> b, unit |-> unit, place |-> place, kind |-> UnitKind(KindsOf(b), place), bank |-> FALSE]
BankLesson(b, units) ==
  [band |-> b, unit |-> units, place |-> LessonsPerUnit + 1, kind |-> NoBand, bank |-> TRUE]

\* How many lessons of its kind come before a path lesson.
Before(lesson) ==
  LET same(places) == Cardinality({p \in places : UnitKind(KindsOf(lesson.band), p) = lesson.kind})
  IN (lesson.unit - 1) * same(1..LessonsPerUnit) + same(1..(lesson.place - 1))

Writes(lesson, items) == [n \in DOMAIN items |-> [item |-> items[n], lesson |-> lesson, order |-> n]]

\* The path's questions in the order they are written, then the bank's: the
\* lessons and leftovers no unit took and, in the last band, the unbanded.
PathWrites(b, units, pools) ==
  FlattenSeq([n \in 1..(units * LessonsPerUnit) |->
    LET lesson == PathLesson(b, (n - 1) \div LessonsPerUnit + 1, ((n - 1) % LessonsPerUnit) + 1)
    IN Writes(lesson, pools[lesson.kind].lessons[Before(lesson) + 1])])

BankWrites(b, units, pools) ==
  LET kinds == KindsOf(b)
      Rest(n) == FlattenSeq(SubSeq(pools[kinds[n]].lessons, units * PerKind(kinds, n) + 1,
                                   Len(pools[kinds[n]].lessons))) \o pools[kinds[n]].leftover
      extra == IF b = Bands[Len(Bands)] THEN SetToSeq(Unbanded) ELSE << >>
  IN Writes(BankLesson(b, units), FlattenSeq([n \in DOMAIN kinds |-> Rest(n)]) \o extra)

\* import_band: its units and lessons, committed before any question.  A band
\* that fills no unit ends the script where it stands.
PlanBand ==
  /\ run # Idle /\ run.at = "plan"
  /\ LET b     == Bands[run.band]
         pools == run.pools[b]
         units == Units(b, pools)
     IN IF units = 0
        THEN Ends("unplanned") /\ UNCHANGED lessons
        ELSE /\ lessons' = lessons \cup {BankLesson(b, units)}
                             \cup {PathLesson(b, u, p) : u \in 1..units, p \in 1..LessonsPerUnit}
             /\ run' = [run EXCEPT !.at = "write",
                                   !.todo = PathWrites(b, units, pools) \o BankWrites(b, units, pools)]
             /\ UNCHANGED outcome
  /\ UNCHANGED <<source, course, challenges, passages, runs>>

\* _ChallengeWriter.add: the question joins the batch, its article too unless
\* this run has met it.
AddNext ==
  /\ run # Idle /\ run.at = "write" /\ Len(run.batch) < BATCH_SIZE /\ run.todo # << >>
  /\ LET write == Head(run.todo)
         article == {PassageOf[write.item]} \ {NoPassage}
     IN run' = [run EXCEPT !.todo = Tail(@), !.batch = Append(@, write),
                           !.articles = @ \cup (article \ run.known), !.known = @ \cup article]
  /\ UNCHANGED <<source, course, lessons, challenges, passages, runs, outcome>>

\* flush, when the batch is full or the band is written: articles first.
MustFlush == run.at = "write" /\ (Len(run.batch) = BATCH_SIZE \/ run.todo = << >>)

FlushPassages ==
  /\ run # Idle /\ MustFlush /\ run.articles # {}
  /\ IF run.articles \cap passages # {}
     THEN Ends("refused") /\ UNCHANGED passages        \* source_ref is unique
     ELSE /\ passages' = passages \cup run.articles
          /\ run' = [run EXCEPT !.articles = {}]
          /\ UNCHANGED outcome
  /\ UNCHANGED <<source, course, lessons, challenges, runs>>

FlushChallenges ==
  /\ run # Idle /\ MustFlush /\ run.articles = {} /\ run.batch # << >>
  /\ challenges' = challenges \cup Range(run.batch)
  /\ run' = [run EXCEPT !.batch = << >>]
  /\ UNCHANGED <<source, course, lessons, passages, runs, outcome>>

NextBand ==
  /\ run # Idle /\ run.at = "write" /\ run.todo = << >> /\ run.batch = << >>
  /\ IF run.band = Len(Bands) THEN Ends("whole")
     ELSE run' = [run EXCEPT !.at = "plan", !.band = @ + 1] /\ UNCHANGED outcome
  /\ UNCHANGED <<source, course, lessons, challenges, passages, runs>>

\* The process dies; what it had committed stays.
Die ==
  /\ run # Idle
  /\ Ends("died")
  /\ UNCHANGED <<source, course, lessons, challenges, passages, runs>>

Next ==
  \/ \E reset \in BOOLEAN : Start(reset)
  \/ DeleteCourse \/ DeletePassages \/ CreateCourse \/ Pack \/ PlanBand
  \/ AddNext \/ FlushPassages \/ FlushChallenges \/ NextBand \/ Die

Spec == Init /\ [][Next]_vars

-----------------------------------------------------------------------------
InLesson(lesson) == {c.item : c \in {d \in challenges : d.lesson = lesson}}
Path == {lesson \in lessons : ~ lesson.bank}

\* Every question that can be answered is stored once, in order of its lesson.
NothingLost ==
  /\ {c.item : c \in challenges} = source \cap Answerable
  /\ \A c, d \in challenges : c.item = d.item \/ (c.lesson = d.lesson /\ c.order = d.order) => c = d
  /\ passages = {PassageOf[i] : i \in source \cap Answerable} \ {NoPassage}

\* A lesson of the path has its full count, of one kind and band, no article
\* lies half on it, and its neighbour in the unit is of another kind.
PathIsSound ==
  \A lesson \in Path :
    /\ Cardinality(InLesson(lesson)) = PerLesson
    /\ \A i \in InLesson(lesson) : KindOf[i] = lesson.kind /\ BandOf[i] = lesson.band
    /\ \A i \in InLesson(lesson), j \in source \cap Answerable :
         PassageOf[i] # NoPassage /\ PassageOf[j] = PassageOf[i] => j \in InLesson(lesson)
    /\ \A other \in Path : /\ other.band = lesson.band /\ other.unit = lesson.unit
                           /\ other.place = lesson.place + 1 /\ Len(KindsOf(lesson.band)) > 1
                           => other.kind # lesson.kind

(* An import that reaches its end has stored the whole bank on a sound path *)
(* whatever earlier runs left behind; and no question is ever stored before *)
(* its article.                                                             *)
BankIsWhole ==
  /\ outcome = "whole" => NothingLost /\ PathIsSound
  /\ \A c \in challenges : PassageOf[c.item] \in passages \cup {NoPassage}
=============================================================================
