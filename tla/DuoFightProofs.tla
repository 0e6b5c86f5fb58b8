--------------------------- MODULE DuoFightProofs ---------------------------
(***************************************************************************)
(* Theorems about the decks of a fight, for decks of any size, any         *)
(* lockouts, skills and combo tiers, and a clock of any length.            *)
(*                                                                         *)
(* A state of one player is good when their questions are all accounted    *)
(* for; pushing, answering, being struck, casting and ageing each keep a   *)
(* player good, and an action of the fight is one of these per player.     *)
(***************************************************************************)
EXTENDS DuoFight, SequenceTheorems, TLAPS

Fields == {"hp", "mana", "combo", "score", "correct", "given", "elapsed", "deck", "screen",
           "shown", "pushedAt", "lockout", "stunned", "deckCleared", "effects", "readyAgain"}

Good(p) == /\ DOMAIN p = Fields
           /\ p.deck \in Seq(Questions) /\ p.screen \in Questions \cup {None}
           /\ p.correct \in Nat /\ p.given \in Nat /\ p.shown \in Nat
           /\ p.correct <= p.given
           /\ p.given + (IF p.screen = None THEN 0 ELSE 1) = p.shown
           /\ IsInjective(Hand(p))
           /\ Len(Hand(p)) + p.correct = DeckSize

(* Before a player's first question nothing of theirs has moved, so the     *)
(* opening pushes, which do not look at the deck, find it full.             *)
DeckInv == /\ DOMAIN player = Players
           /\ \A u \in Players : Good(player[u])
           /\ loop.point = "starting" => player[One].shown = 0
           /\ loop.point \in {"starting", "opening"} => player[Two].shown = 0

-----------------------------------------------------------------------------
(* A question moved from the front of a deck to the screen is a rotation.   *)
LEMMA Rotation ==
  ASSUME NEW d \in Seq(Questions), d # <<>>, IsInjective(d)
  PROVE  /\ Append(Tail(d), Head(d)) \in Seq(Questions)
         /\ IsInjective(Append(Tail(d), Head(d)))
         /\ Len(Append(Tail(d), Head(d))) = Len(d)
<1> DEFINE r == Append(Tail(d), Head(d))
<1>1. Len(d) \in Nat \ {0} /\ Head(d) \in Questions /\ Head(d) = d[1]
  OBVIOUS
<1>2. /\ Tail(d) \in Seq(Questions) /\ Len(Tail(d)) = Len(d) - 1
      /\ \A i \in 1..(Len(d) - 1) : Tail(d)[i] = d[i + 1]
  OBVIOUS
<1>3. /\ r \in Seq(Questions) /\ Len(r) = Len(d)
      /\ \A i \in 1..(Len(d) - 1) : r[i] = d[i + 1]
      /\ r[Len(d)] = d[1]
  <2>1. /\ r \in Seq(Questions) /\ Len(r) = Len(Tail(d)) + 1
        /\ \A i \in 1..Len(Tail(d)) : r[i] = Tail(d)[i]
        /\ r[Len(Tail(d)) + 1] = Head(d)
    BY <1>1, <1>2, AppendProperties
  <2> QED BY <2>1, <1>1, <1>2
<1> HIDE DEF r
<1>4. \A i \in 1..Len(d) : r[i] = IF i = Len(d) THEN d[1] ELSE d[i + 1]
  <2> SUFFICES ASSUME NEW i \in 1..Len(d), i # Len(d)
               PROVE  r[i] = d[i + 1]
    BY <1>3
  <2>1. i \in 1..(Len(d) - 1)
    BY <1>1
  <2> QED BY <2>1, <1>3
<1>5. DOMAIN r = 1..Len(d) /\ DOMAIN d = 1..Len(d)
  BY <1>3
<1>6. IsInjective(r)
  <2> SUFFICES ASSUME NEW a \in 1..Len(d), NEW b \in 1..Len(d), r[a] = r[b]
               PROVE  a = b
    BY <1>5 DEF IsInjective
  <2> DEFINE from(i) == IF i = Len(d) THEN 1 ELSE i + 1
  <2>1. d[from(a)] = d[from(b)]
    BY <1>4
  <2>2. from(a) \in DOMAIN d /\ from(b) \in DOMAIN d
    <3>1. Len(d) \in Nat \ {0}
      BY <1>1
    <3>2. from(a) \in 1..Len(d) /\ from(b) \in 1..Len(d)
      BY <3>1
    <3> HIDE DEF from
    <3> QED BY <3>2, <1>5
  <2>3. from(a) = from(b)
    <3> HIDE DEF from
    <3>1. \A x, y \in DOMAIN d : d[x] = d[y] => x = y
      BY DEF IsInjective
    <3> QED BY <3>1, <2>1, <2>2
  <2> QED BY <2>3, <1>1
<1> QED BY <1>3, <1>6 DEF r

(* What is left when the last of a sequence goes is still injective.        *)
LEMMA Prefix ==
  ASSUME NEW d \in Seq(Questions), NEW q \in Questions, IsInjective(Append(d, q))
  PROVE  IsInjective(d) /\ Len(Append(d, q)) = Len(d) + 1
<1>1. Len(Append(d, q)) = Len(d) + 1 /\ \A i \in 1..Len(d) : Append(d, q)[i] = d[i]
  OBVIOUS
<1>2. DOMAIN d = 1..Len(d) /\ DOMAIN Append(d, q) = 1..(Len(d) + 1) /\ Len(d) \in Nat
  OBVIOUS
<1> QED BY <1>1, <1>2 DEF IsInjective

LEMMA NoneIsNoQuestion == None \notin Questions
BY FightAssumption

-----------------------------------------------------------------------------
(* `_push_question' of a player with nothing on screen and a deck to draw.  *)
LEMMA ShownGood ==
  ASSUME NEW p, NEW at, Good(p), p.screen = None, p.deck # <<>>
  PROVE  Good(Shown(p, at))
<1> DEFINE n == Shown(p, at)
<1>1. Hand(p) = p.deck
  BY DEF Hand
<1>2. Head(p.deck) \in Questions /\ Tail(p.deck) \in Seq(Questions)
  BY DEF Good
<1>3. /\ DOMAIN n = Fields /\ n.deck = Tail(p.deck) /\ n.screen = Head(p.deck)
      /\ n.shown = p.shown + 1 /\ n.correct = p.correct /\ n.given = p.given
  BY DEF Good, Shown, Fields
<1>4. n.screen # None /\ Hand(n) = Append(Tail(p.deck), Head(p.deck))
  BY <1>2, <1>3, NoneIsNoQuestion DEF Hand
<1>5. IsInjective(Hand(n)) /\ Len(Hand(n)) = Len(Hand(p))
  BY <1>1, <1>4, Rotation DEF Good
<1> QED BY <1>2, <1>3, <1>4, <1>5 DEF Good

(* An answer: a hit leaves the deck for good, a miss goes to its back.      *)
LEMMA AnsweredGood ==
  ASSUME NEW p, NEW right \in BOOLEAN, Good(p), p.screen # None
  PROVE  Good(Answered(p, right)) /\ Answered(p, right).shown = p.shown
<1> DEFINE n == Answered(p, right)
<1>1. p.screen \in Questions /\ Hand(p) = Append(p.deck, p.screen)
  BY DEF Good, Hand
<1>2. /\ DOMAIN n = Fields /\ n.screen = None /\ n.shown = p.shown /\ n.given = p.given + 1
      /\ n.correct = IF right THEN p.correct + 1 ELSE p.correct
      /\ n.deck = IF right THEN p.deck ELSE Append(p.deck, p.screen)
  BY DEF Good, Answered, Fields
<1>3. n.deck \in Seq(Questions) /\ Hand(n) = n.deck
  BY <1>1, <1>2 DEF Good, Hand
<1> HIDE DEF n
<1>4. IsInjective(n.deck) /\ Len(n.deck) + n.correct = DeckSize
  <2>1. CASE right
    <3>1. IsInjective(p.deck) /\ Len(Hand(p)) = Len(p.deck) + 1
      BY <1>1, Prefix DEF Good
    <3>2. p.correct \in Nat /\ Len(p.deck) \in Nat /\ Len(Hand(p)) + p.correct = DeckSize
      BY DEF Good
    <3> QED BY <2>1, <1>2, <3>1, <3>2
  <2>2. CASE ~right
    BY <2>2, <1>1, <1>2 DEF Good
  <2> QED BY <2>1, <2>2
<1>5. Good(n)
  BY <1>2, <1>3, <1>4 DEF Good
<1> QED BY <1>2, <1>5 DEF n

(* A change of other fields leaves a player as good as they were.           *)
LEMMA SameDeck ==
  ASSUME NEW p, NEW n, Good(p), DOMAIN n = Fields,
         n.deck = p.deck, n.screen = p.screen, n.correct = p.correct,
         n.given = p.given, n.shown = p.shown
  PROVE  Good(n)
BY DEF Good, Hand

LEMMA StruckGood ==
  ASSUME NEW p, NEW foe, NEW combo, Good(foe)
  PROVE  Good(Struck(foe, p, combo)) /\ Struck(foe, p, combo).shown = foe.shown
<1> DEFINE n == Struck(foe, p, combo)
<1>1. /\ DOMAIN n = Fields /\ n.deck = foe.deck /\ n.screen = foe.screen
      /\ n.correct = foe.correct /\ n.given = foe.given /\ n.shown = foe.shown
  BY DEF Good, Struck, Fields
<1> QED BY <1>1, SameDeck

LEMMA CastGood ==
  ASSUME NEW p, NEW s, Good(p)
  PROVE  Good(Cast(p, s)) /\ Cast(p, s).shown = p.shown
<1> DEFINE n == Cast(p, s)
<1>1. /\ DOMAIN n = Fields /\ n.deck = p.deck /\ n.screen = p.screen
      /\ n.correct = p.correct /\ n.given = p.given /\ n.shown = p.shown
  BY DEF Good, Cast, Fields
<1> QED BY <1>1, SameDeck

LEMMA LatchedGood ==
  ASSUME NEW p, Good(p)
  PROVE  /\ Good(Latched(p)) /\ Latched(p).shown = p.shown
         /\ Latched(p).screen = p.screen /\ Latched(p).deck = p.deck
<1> DEFINE n == Latched(p)
<1>1. /\ DOMAIN n = Fields /\ n.deck = p.deck /\ n.screen = p.screen
      /\ n.correct = p.correct /\ n.given = p.given /\ n.shown = p.shown
  BY DEF Good, Latched, Pruned, Fields
<1> QED BY <1>1, SameDeck

(* A player who has been shown nothing still has the whole deck to draw.    *)
LEMMA UnshownIsFull ==
  ASSUME NEW p, Good(p), p.shown = 0
  PROVE  p.screen = None /\ p.deck # <<>>
<1>1. p.screen = None /\ p.given = 0 /\ p.correct = 0
  BY DEF Good
<1>2. Len(p.deck) = DeckSize
  BY <1>1 DEF Good, Hand
<1>3. Len(<<>>) = 0 /\ DeckSize # 0
  BY FightAssumption
<1> QED BY <1>1, <1>2, <1>3

-----------------------------------------------------------------------------
LEMMA InitDeck == Init => DeckInv
<1> SUFFICES ASSUME Init PROVE DeckInv
  OBVIOUS
<1> DEFINE p == Fresh
<1>1. /\ DOMAIN p = Fields /\ p.deck = [i \in Questions |-> i] /\ p.screen = None
      /\ p.correct = 0 /\ p.given = 0 /\ p.shown = 0
  BY DEF Fresh, Fields
<1>2. DeckSize \in Nat
  BY FightAssumption
<1>3. p.deck \in Seq(Questions) /\ Len(p.deck) = DeckSize
  BY <1>1, <1>2 DEF Questions
<1>4. IsInjective(p.deck)
  BY <1>1 DEF IsInjective
<1>5. Hand(p) = p.deck
  BY <1>1 DEF Hand
<1> HIDE DEF p
<1>6. Good(p)
  BY <1>1, <1>2, <1>3, <1>4, <1>5 DEF Good
<1>7. \A u \in Players : player[u] = p
  BY DEF Init, p
<1>8. DOMAIN player = Players /\ One \in Players /\ Two \in Players
  BY DEF Init, Players
<1> QED BY <1>1, <1>6, <1>7, <1>8 DEF DeckInv

(* A step that changes one player to a good one, and shows nobody anything  *)
(* while the opening pushes are still to come.                              *)
LEMMA OneMoves ==
  ASSUME DeckInv, NEW u \in Players, NEW n, Good(n),
         player' = [player EXCEPT ![u] = n]
  PROVE  DOMAIN player' = Players /\ \A v \in Players : Good(player'[v])
BY DEF DeckInv

LEMMA StartKeeps == DeckInv /\ Start => DeckInv'
<1> SUFFICES ASSUME DeckInv, Start PROVE DeckInv'
  OBVIOUS
<1> USE DEF Players
<1>1. Good(player[One]) /\ player[One].shown = 0 /\ player[Two].shown = 0
  BY DEF DeckInv, Start
<1>2. Good(Shown(player[One], now))
  BY <1>1, UnshownIsFull, ShownGood
<1>3. player' = [player EXCEPT ![One] = Shown(player[One], now)] /\ loop'.point = "opening"
  BY DEF Start
<1>4. player'[Two] = player[Two]
  BY <1>3, FightAssumption DEF DeckInv
<1>5. DOMAIN player' = Players /\ \A v \in Players : Good(player'[v])
  BY <1>2, <1>3, OneMoves
<1> QED BY <1>1, <1>3, <1>4, <1>5 DEF DeckInv

LEMMA StartSecondKeeps == DeckInv /\ StartSecond => DeckInv'
<1> SUFFICES ASSUME DeckInv, StartSecond PROVE DeckInv'
  OBVIOUS
<1> USE DEF Players
<1>1. Good(player[Two]) /\ player[Two].shown = 0
  BY DEF DeckInv, StartSecond
<1>2. Good(Shown(player[Two], loop.at))
  BY <1>1, UnshownIsFull, ShownGood
<1>3. player' = [player EXCEPT ![Two] = Shown(player[Two], loop.at)]
  BY DEF StartSecond
<1>4. loop'.point = "sleeping"
  BY DEF StartSecond, Rest
<1>5. DOMAIN player' = Players /\ \A v \in Players : Good(player'[v])
  BY <1>2, <1>3, OneMoves
<1> QED BY <1>4, <1>5 DEF DeckInv

LEMMA AgingGood ==
  ASSUME DeckInv
  PROVE  /\ DOMAIN AfterAging = Players
         /\ \A u \in Players : /\ Good(AfterAging[u])
                               /\ AfterAging[u].shown = player[u].shown
BY LatchedGood DEF DeckInv, AfterAging

(* Whoever ends the fight hands over good players and stops the loop.       *)
LEMMA FinishKeeps ==
  ASSUME NEW reason, NEW conns, NEW outcomes, Finish(reason, conns, outcomes),
         DOMAIN conns = Players, \A u \in Players : Good(conns[u])
  PROVE  DeckInv'
<1>1. player' = conns /\ loop'.point = "over"
  BY DEF Finish
<1> QED BY <1>1 DEF DeckInv

LEMMA TickPushesKeeps == DeckInv /\ TickPushes => DeckInv'
<1> SUFFICES ASSUME DeckInv, TickPushes PROVE DeckInv'
  OBVIOUS
<1>1. loop.point = "sleeping" /\ One \in Players /\ Two \in Players
  BY DEF TickPushes, Players
<1>2. \A u \in Players : Due(AfterAging[u], now) => Good(Shown(AfterAging[u], now))
  BY AgingGood, ShownGood DEF Due
<1>3. loop'.point \in {"sleeping", "pushing"}
  BY <1>1 DEF TickPushes
<1>4. DOMAIN player' = Players /\ \A u \in Players : Good(player'[u])
  <2> HIDE DEF Players
  <2>1. CASE Due(AfterAging[One], now)
    <3>1. player' = [AfterAging EXCEPT ![One] = Shown(AfterAging[One], now)]
      BY <2>1 DEF TickPushes
    <3> QED BY <3>1, <2>1, <1>1, <1>2, AgingGood
  <2>2. CASE ~Due(AfterAging[One], now) /\ Due(AfterAging[Two], now)
    <3>1. player' = [AfterAging EXCEPT ![Two] = Shown(AfterAging[Two], now)]
      BY <2>2 DEF TickPushes
    <3> QED BY <3>1, <2>2, <1>1, <1>2, AgingGood
  <2>3. CASE ~Due(AfterAging[One], now) /\ ~Due(AfterAging[Two], now)
    <3>1. player' = AfterAging
      BY <2>3 DEF TickPushes
    <3> QED BY <3>1, AgingGood
  <2> QED BY <2>1, <2>2, <2>3
<1> QED BY <1>3, <1>4 DEF DeckInv

LEMMA PushSecondKeeps == DeckInv /\ PushSecond => DeckInv'
<1> SUFFICES ASSUME DeckInv, PushSecond PROVE DeckInv'
  OBVIOUS
<1>1. loop'.point = "sleeping" /\ Two \in Players
  BY DEF PushSecond, Rest, Players
<1>2. Due(player[Two], loop.at) => Good(Shown(player[Two], loop.at))
  BY <1>1, ShownGood DEF Due, DeckInv
<1>3. DOMAIN player' = Players /\ \A u \in Players : Good(player'[u])
  <2>1. CASE Due(player[Two], loop.at)
    BY <2>1, <1>1, <1>2, OneMoves DEF PushSecond
  <2>2. CASE ~Due(player[Two], loop.at)
    BY <2>2 DEF PushSecond, DeckInv
  <2> QED BY <2>1, <2>2
<1> QED BY <1>1, <1>3 DEF DeckInv

LEMMA AnswerMoves ==
  ASSUME DeckInv, NEW u \in Players, NEW k, NEW right \in BOOLEAN, Answer(u, k, right)
  PROVE  /\ DOMAIN player' = Players /\ loop' = loop
         /\ \A w \in Players : Good(player'[w]) /\ player'[w].shown = player[w].shown
<1> DEFINE v  == Opponent(u)
           me == Answered(player[u], right)
           it == IF right THEN Struck(player[v], player[u], me.combo) ELSE player[v]
<1>1. v \in Players /\ v # u
  BY FightAssumption DEF Opponent, Players
<1>2. Good(me) /\ me.shown = player[u].shown
  BY AnsweredGood DEF Answer, DeckInv
<1>3. Good(it) /\ it.shown = player[v].shown
  BY <1>1, StruckGood DEF DeckInv
<1>4. player' = [player EXCEPT ![u] = me, ![v] = it]
  BY <1>1 DEF Answer
<1> HIDE DEF me, it, v
<1>5. /\ DOMAIN player' = Players
      /\ \A w \in Players : Good(player'[w]) /\ player'[w].shown = player[w].shown
  BY <1>1, <1>2, <1>3, <1>4 DEF DeckInv
<1>6. loop' = loop
  BY DEF Answer
<1> QED BY <1>5, <1>6

LEMMA AnswerKeeps ==
  ASSUME DeckInv, NEW u \in Players, NEW k, NEW right \in BOOLEAN, Answer(u, k, right)
  PROVE  DeckInv'
<1>1. One \in Players /\ Two \in Players
  BY DEF Players
<1> QED BY <1>1, AnswerMoves DEF DeckInv

LEMMA UseSkillKeeps ==
  ASSUME DeckInv, NEW u \in Players, NEW s \in Skills, UseSkill(u, s)
  PROVE  DeckInv'
<1>1. Good(Cast(player[u], s)) /\ Cast(player[u], s).shown = player[u].shown
  BY CastGood DEF DeckInv
<1>2. player' = [player EXCEPT ![u] = Cast(player[u], s)]
  BY DEF UseSkill
<1>3. DOMAIN player' = Players /\ \A w \in Players : Good(player'[w])
  BY <1>1, <1>2, OneMoves
<1>4. \A w \in Players : player'[w].shown = player[w].shown
  BY <1>1, <1>2 DEF DeckInv
<1>5. loop' = loop /\ One \in Players /\ Two \in Players
  BY DEF UseSkill, Players
<1> QED BY <1>3, <1>4, <1>5 DEF DeckInv

(* One step of the fight, whoever takes it.                                 *)
LEMMA NextDeck == DeckInv /\ [Next]_vars => DeckInv'
<1> SUFFICES ASSUME DeckInv, [Next]_vars PROVE DeckInv'
  OBVIOUS
<1>1. CASE TimePasses
  BY <1>1 DEF TimePasses, DeckInv
<1>2. CASE LoopStep
  <2>1. CASE TickEnds
    BY <2>1, AgingGood, FinishKeeps DEF TickEnds
  <2> QED BY <1>2, <2>1, StartKeeps, StartSecondKeeps, TickPushesKeeps, PushSecondKeeps DEF LoopStep
<1>3. ASSUME NEW u \in Players, PlayerStep(u) PROVE DeckInv'
  <2>1. CASE Forfeit(u)
    BY <2>1, FinishKeeps DEF Forfeit, DeckInv
  <2>2. ASSUME NEW k, NEW right \in BOOLEAN, Answer(u, k, right) PROVE DeckInv'
    BY <2>2, AnswerKeeps
  <2>3. ASSUME NEW s \in Skills, UseSkill(u, s) PROVE DeckInv'
    BY <2>3, UseSkillKeeps
  <2> QED BY <1>3, <2>1, <2>2, <2>3 DEF PlayerStep
<1>4. CASE UNCHANGED vars
  BY <1>4 DEF vars, DeckInv
<1> QED BY <1>1, <1>2, <1>3, <1>4 DEF Next

(* A question leaves a deck only by being answered correctly, whatever the  *)
(* lockouts, the skills and the interleaving of pushes with answers.        *)
THEOREM DecksAreConserved == Spec => []DeckIsConserved
<1>1. DeckInv => DeckIsConserved
  BY DEF DeckInv, DeckIsConserved, Good
<1> QED BY <1>1, InitDeck, NextDeck, PTL DEF Spec

(* Every showing is resolved exactly once or still open: no replayed token  *)
(* and no double tap is ever resolved again.                                *)
THEOREM ShowingsAnsweredOnce == Spec => []ShownOnceAnsweredOnce
<1>1. DeckInv => ShownOnceAnsweredOnce
  BY DEF DeckInv, ShownOnceAnsweredOnce, Good
<1> QED BY <1>1, InitDeck, NextDeck, PTL DEF Spec

(* A verdict is final: every step after it leaves the players, the reason   *)
(* and the outcome alone.  It needs the loop to be over by then.            *)
LoopStops == ~InProgress => loop.point = "over"

LEMMA LoopIsStopped == Spec => []LoopStops
<1>1. Init => LoopStops
  BY DEF Init, LoopStops, InProgress
<1>2. LoopStops /\ [Next]_vars => LoopStops'
  <2> SUFFICES ASSUME LoopStops, [Next]_vars PROVE LoopStops'
    OBVIOUS
  <2> USE DEF LoopStops, InProgress
  <2>1. ASSUME NEW reason, NEW conns, NEW outcomes, Finish(reason, conns, outcomes)
        PROVE  LoopStops'
    BY <2>1 DEF Finish
  <2>2. CASE LoopStep
    <3>1. CASE TickEnds
      BY <3>1, <2>1 DEF TickEnds
    <3> QED BY <2>2, <3>1 DEF LoopStep, Start, StartSecond, TickPushes, PushSecond
  <2>3. ASSUME NEW u \in Players, PlayerStep(u) PROVE LoopStops'
    BY <2>1, <2>3 DEF PlayerStep, Forfeit, Answer, UseSkill
  <2> QED BY <2>2, <2>3 DEF Next, TimePasses, vars
<1> QED BY <1>1, <1>2, PTL DEF Spec

THEOREM VerdictsAreFinal == Spec => VerdictIsFinal
<1>1. LoopStops /\ [Next]_vars => (~InProgress => UNCHANGED <<player, verdict>>)
  <2> SUFFICES ASSUME LoopStops, [Next]_vars, ~InProgress
               PROVE  UNCHANGED <<player, verdict>>
    OBVIOUS
  <2>1. ~LoopStep
    BY DEF LoopStep, Start, StartSecond, TickEnds, TickPushes, PushSecond, LoopStops
  <2>2. \A u \in Players : ~PlayerStep(u)
    BY DEF PlayerStep, Forfeit, Finish, Answer, UseSkill
  <2> QED BY <2>1, <2>2 DEF Next, TimePasses, vars
<1> QED BY <1>1, LoopIsStopped, PTL DEF Spec, VerdictIsFinal

-----------------------------------------------------------------------------
(* Nobody is handed a question while locked out.  A tick checks this with   *)
(* its own `now', which is never ahead of the clock.  The two opening       *)
(* pushes check nothing: they are safe because one answer makes no combo    *)
(* that stuns, so that Two cannot be stunned before their first question.   *)
Timed(p) == /\ p.lockout \in Nat /\ p.stunned \in Nat
            /\ p.combo \in Nat /\ p.combo <= p.given

LockInv == /\ now \in Nat /\ loop.at \in Nat /\ loop.at <= now
           /\ \A u \in Players : Timed(player[u])
           /\ loop.point = "starting" =>
                \A u \in Players : player[u].lockout = 0 /\ player[u].stunned = 0
           /\ loop.point = "opening" =>
                player[Two].lockout = 0 /\ player[Two].stunned = 0 /\ player[One].shown = 1

LEMMA TimesArePositive ==
  /\ CorrectLockout \in Nat /\ WrongLockout \in Nat /\ StunTime \in Nat
BY FightAssumption

LEMMA AnsweredTimed ==
  ASSUME NEW p, NEW right \in BOOLEAN, Good(p), Timed(p), now \in Nat
  PROVE  /\ Timed(Answered(p, right)) /\ Answered(p, right).combo <= p.given + 1
         /\ Answered(p, right).stunned = p.stunned
<1> DEFINE n == Answered(p, right)
<1>1. /\ n.given = p.given + 1 /\ n.stunned = p.stunned
      /\ n.lockout = now + (IF right THEN CorrectLockout ELSE WrongLockout)
      /\ n.combo \in {p.combo, combo_after(p.combo, right)}
  BY DEF Good, Answered, Fields
<1>2. n.combo \in Nat /\ n.combo <= p.given + 1
  BY <1>1 DEF combo_after, Timed, Good
<1>3. n.lockout \in Nat
  BY <1>1, TimesArePositive
<1> HIDE DEF n
<1>4. Timed(n)
  BY <1>1, <1>2, <1>3 DEF Timed
<1> QED BY <1>1, <1>2, <1>4 DEF n

LEMMA StruckTimed ==
  ASSUME NEW p, NEW foe, NEW combo, Good(foe), Timed(foe), now \in Nat
  PROVE  /\ Timed(Struck(foe, p, combo)) /\ Struck(foe, p, combo).lockout = foe.lockout
         /\ ~Stuns(combo) => Struck(foe, p, combo).stunned = foe.stunned
<1> DEFINE n == Struck(foe, p, combo)
<1>1. /\ n.lockout = foe.lockout /\ n.combo = foe.combo /\ n.given = foe.given
      /\ n.stunned = IF Stuns(combo) THEN Greater(foe.stunned, now + StunTime) ELSE foe.stunned
  BY DEF Good, Struck, Fields
<1>2. n.stunned \in Nat
  BY <1>1, TimesArePositive DEF Greater, Timed
<1> QED BY <1>1, <1>2 DEF Timed

(* Pushing, casting and ageing touch neither the times nor the combo.       *)
LEMMA OthersKeepTimes ==
  ASSUME NEW p, Good(p), NEW at, NEW s
  PROVE  /\ Timed(p) => Timed(Shown(p, at)) /\ Timed(Cast(p, s)) /\ Timed(Latched(p))
         /\ \A n \in {Shown(p, at), Cast(p, s), Latched(p)} :
              n.lockout = p.lockout /\ n.stunned = p.stunned
<1>1. DOMAIN p = Fields
  BY DEF Good
<1>2. \A n \in {Shown(p, at), Cast(p, s), Latched(p)} :
        /\ n.lockout = p.lockout /\ n.stunned = p.stunned
        /\ n.combo = p.combo /\ n.given = p.given
  BY ONLY <1>1 DEF Shown, Cast, Latched, Pruned, Fields
<1> QED BY <1>2 DEF Timed

LEMMA InitLock == Init => LockInv
<1> SUFFICES ASSUME Init PROVE LockInv
  OBVIOUS
<1>1. \A u \in Players : player[u] = Fresh
  BY DEF Init
<1>2. Fresh.lockout = 0 /\ Fresh.stunned = 0 /\ Fresh.combo = 0 /\ Fresh.given = 0
  BY DEF Fresh
<1>3. now = 0 /\ loop.at = 0 /\ loop.point = "starting"
  BY DEF Init
<1> QED BY <1>1, <1>2, <1>3 DEF LockInv, Timed

LEMMA AnswerKeepsLock ==
  ASSUME DeckInv, LockInv, NEW u \in Players, NEW k, NEW right \in BOOLEAN, Answer(u, k, right)
  PROVE  LockInv'
<1> DEFINE v  == Opponent(u)
           me == Answered(player[u], right)
           it == IF right THEN Struck(player[v], player[u], me.combo) ELSE player[v]
<1>1. v \in Players /\ v # u /\ One \in Players /\ Two \in Players /\ (u = One <=> v = Two)
  BY FightAssumption DEF Opponent, Players
<1>2. /\ Good(player[u]) /\ Timed(player[u]) /\ Good(player[v]) /\ Timed(player[v])
      /\ now \in Nat
  BY <1>1 DEF DeckInv, LockInv
<1>3. Timed(me) /\ me.combo <= player[u].given + 1 /\ me.shown = player[u].shown
  BY <1>2, AnsweredTimed, AnsweredGood DEF Answer
<1>4. /\ Timed(it) /\ it.lockout = player[v].lockout /\ it.shown = player[v].shown
      /\ ~Stuns(me.combo) => it.stunned = player[v].stunned
  BY <1>2, StruckTimed, StruckGood
<1>5. /\ player' = [player EXCEPT ![u] = me, ![v] = it]
      /\ loop' = loop /\ now' = now /\ player[u].screen # None
  BY <1>1 DEF Answer
<1>6. player[u].shown = player[u].given + 1 /\ player[u].given \in Nat
  BY <1>2, <1>5 DEF Good
<1> HIDE DEF me, it, v
<1>7. player'[u] = me /\ player'[v] = it /\ Players = {u, v}
  BY <1>1, <1>5 DEF DeckInv, Players
<1>8. loop.point # "starting"
  BY <1>1, <1>6 DEF DeckInv, Players
<1>9. ASSUME loop.point = "opening"
      PROVE  /\ player'[Two].lockout = 0 /\ player'[Two].stunned = 0 /\ player'[One].shown = 1
  <2>1. player[Two].shown = 0 /\ player[One].shown = 1
    BY <1>9 DEF DeckInv, LockInv
  <2>2. u = One /\ v = Two
    BY <2>1, <1>1, <1>6 DEF Players
  <2>3. ~Stuns(me.combo)
    BY <2>1, <2>2, <1>3, <1>6, ComboAssumption DEF Stuns, Timed
  <2> QED BY <1>9, <2>1, <2>2, <2>3, <1>3, <1>4, <1>7 DEF LockInv
<1> QED BY <1>3, <1>4, <1>5, <1>7, <1>8, <1>9 DEF LockInv

(* A step of the loop hands each player on as they were, aged or shown.     *)
LoopResult(p) == {p, Latched(p)} \cup {Shown(p, at) : at \in {now, loop.at}}
                   \cup {Shown(Latched(p), now)}

LEMMA LoopMoves ==
  ASSUME DeckInv, LoopStep
  PROVE  \A u \in Players : player'[u] \in LoopResult(player[u])
<1> USE DEF LoopResult
<1>1. One \in Players /\ Two \in Players /\ DOMAIN player = Players
  BY DEF Players, DeckInv
<1>2. DOMAIN AfterAging = Players /\ \A u \in Players : AfterAging[u] = Latched(player[u])
  BY DEF AfterAging
<1> HIDE DEF Players
<1>3. CASE Start
  BY <1>1, <1>3 DEF Start
<1>4. CASE StartSecond
  BY <1>1, <1>4 DEF StartSecond
<1>5. CASE TickEnds
  BY <1>2, <1>5 DEF TickEnds, Finish
<1>6. CASE TickPushes
  BY <1>1, <1>2, <1>6 DEF TickPushes
<1>7. CASE PushSecond
  BY <1>1, <1>7 DEF PushSecond
<1> QED BY <1>3, <1>4, <1>5, <1>6, <1>7 DEF LoopStep

LEMMA LoopKeepsTimes ==
  ASSUME DeckInv, LockInv, LoopStep
  PROVE  \A u \in Players : /\ Timed(player'[u])
                            /\ player'[u].lockout = player[u].lockout
                            /\ player'[u].stunned = player[u].stunned
<1> SUFFICES ASSUME NEW u \in Players
             PROVE  /\ Timed(player'[u])
                    /\ player'[u].lockout = player[u].lockout
                    /\ player'[u].stunned = player[u].stunned
  OBVIOUS
<1> DEFINE p == player[u]
<1>1. Good(p) /\ Timed(p) /\ Good(Latched(p))
  BY LatchedGood DEF DeckInv, LockInv
<1>2. \A n \in LoopResult(p) : /\ Timed(n) /\ n.lockout = p.lockout /\ n.stunned = p.stunned
  BY <1>1, OthersKeepTimes DEF LoopResult
<1> QED BY <1>2, LoopMoves

LEMMA LoopKeepsLock == DeckInv /\ LockInv /\ LoopStep => LockInv'
<1> SUFFICES ASSUME DeckInv, LockInv, LoopStep PROVE LockInv'
  OBVIOUS
<1>1. now' = now /\ now \in Nat
  BY DEF LoopStep, Start, StartSecond, TickEnds, TickPushes, PushSecond, Finish, LockInv
<1>2. LockInv'
  <2>1. CASE Start
    <3>1. loop' = [point |-> "opening", at |-> now]
      BY <2>1 DEF Start
    <3>2. player' = [player EXCEPT ![One] = Shown(player[One], now)]
      BY <2>1 DEF Start
    <3>3. Good(player[One]) /\ player[One].shown = 0 /\ One \in Players /\ Two \in Players
      BY <2>1 DEF Start, DeckInv, Players
    <3>4. player'[One].shown = 1
      BY <3>2, <3>3 DEF DeckInv, Shown, Good, Fields
    <3>5. player[Two].lockout = 0 /\ player[Two].stunned = 0
      BY <2>1, <3>3 DEF Start, LockInv
    <3> QED BY <1>1, <3>1, <3>3, <3>4, <3>5, LoopKeepsTimes DEF LockInv
  <2>2. CASE ~Start
    <3> DEFINE moved == loop'.point \notin {"starting", "opening"} /\ loop'.at \in {loop.at, now}
    <3>1. StartSecond => moved
      BY DEF StartSecond, Rest
    <3>2. TickEnds => moved
      BY DEF TickEnds, Finish
    <3>3. TickPushes => moved
      BY DEF TickPushes
    <3>4. PushSecond => moved
      BY DEF PushSecond, Rest
    <3>5. moved
      BY <2>2, <3>1, <3>2, <3>3, <3>4 DEF LoopStep
    <3> QED BY <1>1, <3>5, LoopKeepsTimes DEF LockInv
  <2> QED BY <2>1, <2>2
<1> QED BY <1>2

LEMMA NextLock == DeckInv /\ LockInv /\ [Next]_vars => LockInv'
<1> SUFFICES ASSUME DeckInv, LockInv, [Next]_vars PROVE LockInv'
  OBVIOUS
<1>1. CASE TimePasses
  BY <1>1 DEF TimePasses, LockInv
<1>2. CASE LoopStep
  BY <1>2, LoopKeepsLock
<1>3. ASSUME NEW u \in Players, Forfeit(u) PROVE LockInv'
  <2>1. player' = player /\ now' = now /\ loop'.point = "over" /\ loop'.at = loop.at
    BY <1>3 DEF Forfeit, Finish
  <2> QED BY <2>1 DEF LockInv
<1>4. ASSUME NEW u \in Players, NEW k, NEW right \in BOOLEAN, Answer(u, k, right) PROVE LockInv'
  BY <1>4, AnswerKeepsLock
<1>5. ASSUME NEW u \in Players, NEW s \in Skills, UseSkill(u, s) PROVE LockInv'
  <2>1. /\ player' = [player EXCEPT ![u] = Cast(player[u], s)]
        /\ now' = now /\ loop' = loop /\ One \in Players /\ Two \in Players
    BY <1>5 DEF UseSkill, Players
  <2>2. Good(player[u]) /\ Timed(player[u])
    BY <1>5 DEF DeckInv, LockInv
  <2>3. /\ Timed(Cast(player[u], s)) /\ Cast(player[u], s).lockout = player[u].lockout
        /\ Cast(player[u], s).stunned = player[u].stunned
        /\ Cast(player[u], s).shown = player[u].shown
    BY <2>2, OthersKeepTimes, CastGood
  <2>4. \A v \in Players : /\ Timed(player'[v]) /\ player'[v].lockout = player[v].lockout
                           /\ player'[v].stunned = player[v].stunned
                           /\ player'[v].shown = player[v].shown
    BY <2>1, <2>3 DEF DeckInv, LockInv
  <2> QED BY <2>1, <2>4 DEF LockInv
<1>6. CASE UNCHANGED vars
  BY <1>6 DEF vars, LockInv
<1> QED BY <1>1, <1>2, <1>3, <1>4, <1>5, <1>6 DEF Next, PlayerStep

THEOREM NobodyPushedWhileLocked == Spec => NoPushWhileLocked
<1>1. DeckInv /\ LockInv /\ [Next]_vars
        => \A u \in Players : player'[u].shown # player[u].shown => now >= ReadyAt(player[u])
  <2> SUFFICES ASSUME DeckInv, LockInv, [Next]_vars, NEW u \in Players,
                      player'[u].shown # player[u].shown
               PROVE  now >= ReadyAt(player[u])
    OBVIOUS
  <2>1. One \in Players /\ Two \in Players /\ DOMAIN player = Players
    BY DEF Players, DeckInv
  <2>2. Good(player[u]) /\ Timed(player[u]) /\ now \in Nat /\ loop.at \in Nat /\ loop.at <= now
    BY DEF DeckInv, LockInv
  <2>3. ReadyAt(player[u]) \in Nat
    BY <2>2 DEF ReadyAt, Greater, Timed
  <2>4. CASE Start \/ StartSecond
    BY <2>1, <2>2, <2>4 DEF Start, StartSecond, LockInv, ReadyAt, Greater
  <2>5. CASE TickPushes
    <3>1. Due(AfterAging[u], now)
      BY <2>1, <2>5, AgingGood DEF TickPushes
    <3>2. ReadyAt(AfterAging[u]) = ReadyAt(player[u])
      BY <2>2, OthersKeepTimes DEF AfterAging, ReadyAt
    <3> QED BY <3>1, <3>2 DEF Due
  <2>6. CASE PushSecond
    <3>1. Due(player[u], loop.at)
      BY <2>1, <2>6 DEF PushSecond
    <3> QED BY <3>1, <2>2, <2>3 DEF Due
  <2>7. CASE TickEnds
    BY <2>7, AgingGood DEF TickEnds, Finish
  <2>8. ASSUME NEW v \in Players, PlayerStep(v) PROVE FALSE
    <3>1. CASE Forfeit(v)
      BY <3>1 DEF Forfeit, Finish
    <3>2. ASSUME NEW k, NEW right \in BOOLEAN, Answer(v, k, right) PROVE FALSE
      BY <3>2, AnswerMoves
    <3>3. ASSUME NEW s \in Skills, UseSkill(v, s) PROVE FALSE
      BY <3>3, <2>1, CastGood DEF UseSkill, DeckInv
    <3> QED BY <2>8, <3>1, <3>2, <3>3 DEF PlayerStep
  <2> QED BY <2>4, <2>5, <2>6, <2>7, <2>8 DEF Next, LoopStep, TimePasses, vars
<1> QED BY <1>1, InitDeck, NextDeck, InitLock, NextLock, PTL DEF Spec, NoPushWhileLocked
=============================================================================
