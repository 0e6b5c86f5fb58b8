------------------------------ MODULE VocabDeck ------------------------------
(***************************************************************************)
(* How scripts/import_vocab_deck.py plans a book: its units' words taken a *)
(* group at a time, each group asked by picture, by definition and by      *)
(* example.  The random choice of wrong answers is any choice.  LearnPath  *)
(* has what becomes of the units the lessons are cut into.                 *)
(***************************************************************************)
EXTENDS Naturals, SequencesExt

CONSTANTS Books,     \* the books that may be planned: sequences of units, each a sequence of words
          AnswerOf,  \* word -> its text and its form in the example, None without an example
          Pictured,  \* the words with an image
          WORDS_PER_LESSON, OPTIONS_PER_QUESTION,
          None

LESSON_CYCLE == <<"picture", "definition", "example">>

VARIABLES book,
          lessons,  \* [kind, group] of every lesson finished, in order
          question, \* the last question built, or None
          asked,    \* how many questions the open lesson has
          broken    \* the plan ended in an exception

vars == <<book, lessons, question, asked, broken>>

\* The groups of words in the order lessons are made of them.
Groups ==
  LET Cut(words) == [n \in 1..((Len(words) + WORDS_PER_LESSON - 1) \div WORDS_PER_LESSON) |->
                       SubSeq(words, (n - 1) * WORDS_PER_LESSON + 1,
                              Min({n * WORDS_PER_LESSON, Len(words)}))]
  IN FlattenSeq([u \in DOMAIN book |-> [n \in DOMAIN Cut(book[u]) |->
       [unit |-> book[u], words |-> Cut(book[u])[n]]]])

Planned     == Len(Groups) * Len(LESSON_CYCLE)
KindAt(n)   == LESSON_CYCLE[((n - 1) % Len(LESSON_CYCLE)) + 1]
GroupAt(n)  == Groups[(n - 1) \div Len(LESSON_CYCLE) + 1]
Open        == Len(lessons) + 1

answer_text(word, kind) == IF kind = "example" THEN AnswerOf[word].form ELSE AnswerOf[word].text

\* A word with no example is asked by its definition instead.
KindFor(word, kind) == IF kind = "example" /\ AnswerOf[word].form = None THEN "definition" ELSE kind

\* The other words of the unit, the first with each text that is not the word's own.
Candidates(word, kind, unit) ==
  LET Text(o)   == answer_text(o, kind)
      eligible  == {n \in DOMAIN unit : /\ unit[n] # word /\ Text(unit[n]) \notin {None, Text(word)}
                                        /\ kind = "picture" => unit[n] \in Pictured}
  IN {unit[n] : n \in {m \in eligible : \A k \in eligible : Text(unit[k]) = Text(unit[m]) => m <= k}}

Wrong(word, kind, unit) == kSubset(OPTIONS_PER_QUESTION - 1, Candidates(word, kind, unit))

-----------------------------------------------------------------------------
TypeOK == /\ Len(lessons) <= Planned /\ asked \in 0..WORDS_PER_LESSON
          /\ broken \in BOOLEAN

Init == /\ book \in Books
        /\ lessons = <<>> /\ question = None /\ asked = 0 /\ broken = FALSE

\* build_question for the next word of the open lesson: too few wrong answers, or
\* no picture of the word itself, and the script ends before it has touched a row.
build_question ==
  /\ ~broken /\ Open <= Planned /\ asked < Len(GroupAt(Open).words)
  /\ LET word  == GroupAt(Open).words[asked + 1]
         kind  == KindFor(word, KindAt(Open))
         wrong == Wrong(word, kind, GroupAt(Open).unit)
     IN IF wrong = {} \/ (kind = "picture" /\ word \notin Pictured)
        THEN broken' = TRUE /\ UNCHANGED <<question, asked>>
        ELSE /\ \E S \in wrong : question' = [word |-> word, kind |-> kind, options |-> S \cup {word}]
             /\ asked' = asked + 1
             /\ UNCHANGED broken
  /\ UNCHANGED <<book, lessons>>

CloseLesson ==
  /\ ~broken /\ Open <= Planned /\ asked = Len(GroupAt(Open).words)
  /\ lessons' = Append(lessons, [kind |-> KindAt(Open), words |-> GroupAt(Open).words])
  /\ asked' = 0 /\ question' = None
  /\ UNCHANGED <<book, broken>>

Next == build_question \/ CloseLesson

Spec == Init /\ [][Next]_vars

-----------------------------------------------------------------------------
(* A question has its full count of options that nobody could confuse, one  *)
(* of them the word asked, and a picture question shows a picture of each.  *)
OneAnswer ==
  question # None =>
    /\ Cardinality({answer_text(o, question.kind) : o \in question.options}) = OPTIONS_PER_QUESTION
    /\ Cardinality(question.options) = OPTIONS_PER_QUESTION
    /\ question.word \in question.options
    /\ question.kind = "picture" => question.options \subseteq Pictured

(* Two neighbouring lessons are never of one kind, and a whole plan has    *)
(* every word once in a lesson of each kind.                                *)
LessonsAlternate ==
  /\ \A n \in 1..(Len(lessons) - 1) : lessons[n].kind # lessons[n + 1].kind
  /\ Len(lessons) = Planned =>
       \A w \in UNION {Range(unit) : unit \in Range(book)}, kind \in Range(LESSON_CYCLE) :
         Cardinality({n \in DOMAIN lessons : lessons[n].kind = kind /\ w \in Range(lessons[n].words)}) = 1
=============================================================================
