----------------------------- MODULE MCUpkeep -----------------------------
(***************************************************************************)
(* What keeps the game running between the players' requests, checked side *)
(* by side: the migrations of the schema, the import of the question bank, *)
(* the planning of the vocabulary deck, and the gates that the seeded      *)
(* catalog sets on lessons.  They share no row here, so one of them moves  *)
(* in a behaviour and the others stay where they start.                    *)
(***************************************************************************)
EXTENDS Migrations, TLC

CONSTANTS m1, m2, m3, m4, m5, r1, r2, r3, r4, l1, l2, l3, h1, h2, h3, h4, u1, x1,
          mc, reading, artA, artB, artC, artD, artE

CONSTANTS Items, Sources, Bands, Kinds, BandOf, KindOf, PassageOf, Answerable,
          NoBand, NoPassage, Idle, PerLesson, LessonsPerUnit, MaxUnits, BATCH_SIZE, MaxRuns,
          Books, AnswerOf, Pictured, WORDS_PER_LESSON, OPTIONS_PER_QUESTION, None,
          ComboTier1, ComboTier2, QuickTime, Matchups, Streaks, Paces, MaxMisses

\* Seventeen questions that can be answered and one that cannot, in two bands,
\* with articles of two and of three questions; `u1` has no band.  Without h4
\* the high band fills no unit.
MCItems   == {m1, m2, m3, m4, m5, r1, r2, r3, r4, l1, l2, l3, h1, h2, h3, h4, u1, x1}
MCSources == {MCItems, MCItems \ {h4}}
MCBands   == <<"low", "high">>
MCBandOf  == [i \in MCItems |-> IF i = u1 THEN NoBand ELSE IF i \in {h1, h2, h3, h4} THEN "high" ELSE "low"]
MCKinds   == <<mc, reading>>
MCKindOf  == [i \in MCItems |-> IF i \in {r1, r2, r3, r4, l1, l2, l3, h1, h2, h3, h4} THEN reading ELSE mc]
MCPassageOf ==
  [i \in MCItems |-> CASE i \in {r1, r2} -> artA
                       [] i \in {r3, r4} -> artB
                       [] i \in {l1, l2, l3} -> artC
                       [] i \in {h1, h2} -> artD
                       [] i \in {h3, h4} -> artE
                       [] OTHER -> NoPassage]

\* `d' is spelt like `a', `b' has no example, `g' no picture.
Words      == {"a", "b", "c", "d", "e", "f", "g", "h", "i"}
MCAnswerOf == [w \in Words |-> [text |-> IF w = "d" THEN "a" ELSE w, form |-> IF w = "b" THEN None ELSE w]]
MCBooks    == {<<<<"a", "b", "c", "d", "e">>, <<"f", "h", "i">>>>,
               <<<<"a", "b", "c", "e", "g">>>>, <<<<"a", "b">>>>}

MCMatchups == {<<1, {}>>, <<24, {}>>, <<47, {}>>, <<99, {"DRAGON"}>>, <<9, {"GOBLIN"}>>, <<5, {"SLIME"}>>}

VARIABLES subject,  \* what moves
          source, course, lessons, challenges, passages, import, imports, outcome,
          book, planned, question, asked, broken,
          gate, build, fight

bank_vars   == <<source, course, lessons, challenges, passages, import, imports, outcome>>
deck_vars   == <<book, planned, question, asked, broken>>
gate_vars   == <<gate, build, fight>>
content_vars == <<deck_vars, gate_vars>>

Bank   == INSTANCE BankImport WITH run <- import, runs <- imports
Vocab  == INSTANCE VocabDeck WITH lessons <- planned
Gate   == INSTANCE Gates

ASSUME UpkeepAssumption == Gate!ComboAssumption

UpkeepInit ==
  /\ subject \in {"schema", "bank", "deck", "gate"}
  /\ Init /\ Bank!Init
  /\ subject # "bank" => source = Items
  /\ IF subject = "deck" THEN Vocab!Init
     ELSE book = <<>> /\ planned = <<>> /\ question = None /\ asked = 0 /\ broken = FALSE
  /\ IF subject = "gate" THEN Gate!Init
     ELSE gate = None /\ build = None /\ fight = None

UpkeepNext ==
  \/ /\ subject = "schema" /\ Next
     /\ UNCHANGED <<subject, bank_vars, content_vars>>
  \/ /\ subject = "bank" /\ Bank!Next
     /\ UNCHANGED <<subject, vars, content_vars>>
  \/ /\ subject = "deck" /\ Vocab!Next
     /\ UNCHANGED <<subject, vars, bank_vars, gate_vars>>
  \/ /\ subject = "gate" /\ Gate!Next
     /\ UNCHANGED <<subject, vars, bank_vars, deck_vars>>

UpkeepSpec == UpkeepInit /\ [][UpkeepNext]_<<subject, vars, bank_vars, content_vars>>

-----------------------------------------------------------------------------
(* Whatever was upgraded, downgraded, refused or cut off, the schema is the *)
(* one its version stands for; only rows can refuse a revision; and at the  *)
(* head it is what the models declare, with one index more.                 *)
SchemaHolds ==
  subject = "schema" => TypeOK /\ SchemaIsItsVersion /\ OnlyRowsRefuse /\ HeadIsTheModels

(* An import that reaches its end has stored the whole bank on a sound      *)
(* path, whatever earlier runs left behind; the vocabulary deck is planned  *)
(* whole, with questions of one answer; and every lesson has its monster,   *)
(* which falls to a lesson's worth of answers.                              *)
ContentIsWhole ==
  /\ subject = "bank" => Bank!TypeOK /\ Bank!BankIsWhole
  /\ subject = "deck" => Vocab!TypeOK /\ Vocab!OneAnswer /\ Vocab!LessonsAlternate
  /\ subject = "gate" => /\ Gate!TypeOK /\ Gate!GuardsStand /\ Gate!GatesAreFair
                         /\ Gate!ReplayPaysLess /\ Gate!CardAddsUp
=============================================================================
