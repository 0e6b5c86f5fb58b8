------------------------------ MODULE LearnPath ------------------------------
(***************************************************************************)
(* The order of the units on the learn path, and who depends on it: the    *)
(* vocabulary deck woven in and taken out again                            *)
(* (scripts/import_vocab_deck.py), the admin's edits of units meanwhile    *)
(* (services/content/course_content_service.py), and the start-up that     *)
(* binds one ultimate to each of the opening units                         *)
(* (services/game/catalog.py), which a learner unlocks by finishing it.    *)
(*                                                                         *)
(* The deck moves in one transaction, READ COMMITTED: what is taken here   *)
(* as a step is what its locks let nobody see half of.  One course, one    *)
(* learner, one run of the script at a time.                               *)
(***************************************************************************)
EXTENDS Naturals, SequencesExt

CONSTANTS Opening,       \* the units the path starts with, in order
          Deck,          \* the units the deck is planned as, in order
          Extra,         \* units an admin may add
          ULTIMATES,     \* in the order of the catalog
          ORDER_OFFSET,
          MaxScripts, MaxEdits, MaxStarts,  \* bounds
          Absent         \* no row; as an ultimate's unit, NULL

\* A unit is on the path once, and an admin adds none of the deck's.
LearnPathAssumption ==
  /\ {MaxScripts, MaxEdits, MaxStarts, ORDER_OFFSET} \subseteq Nat
  /\ ORDER_OFFSET > Len(Opening) + Len(Deck) + MaxEdits
  /\ \A line \in {Opening, Deck, ULTIMATES} : line \in Seq(Range(line)) /\ IsInjective(line)
  /\ (Range(Opening) \cup Extra) \cap Range(Deck) = {}
  /\ Absent \notin [ids : Seq(Range(Opening) \cup Range(Deck) \cup Extra), next : Nat]

VARIABLES units,     \* order_index of every unit that has a row
          script,    \* the deck's transaction, or Absent
          starting,  \* the start-up under way, or Absent
          bound,     \* unlock_unit_id of every ultimate that has a row
          completed, \* units the learner has finished
          owned,     \* ultimates the learner has
          spent,     \* how many scripts, edits and starts there were
          calm,      \* history: no admin has touched the path since the script behind it read it
          admin,     \* history: the units that are not the deck's, as an admin (or a
                     \* script an admin raced) ordered them last
          guarded    \* history: the path has not moved since the last whole start-up

vars == <<units, script, starting, bound, completed, owned, spent, calm, admin, guarded>>

Vocab      == Range(Deck)
Places     == 1..(Len(Opening) + Len(Deck) + MaxEdits)
InOrder(m) == [n \in 1..Cardinality(DOMAIN m) |->
                 CHOOSE u \in DOMAIN m : Cardinality({v \in DOMAIN m : m[v] < m[u]}) = n - 1]
Numbered(s) == [u \in Range(s) |-> CHOOSE n \in DOMAIN s : s[n] = u]
Only(m, S)  == [u \in DOMAIN m \cap S |-> m[u]]
Without(s, S) == InOrder(Only(Numbered(s), Range(s) \ S))

TypeOK ==
  /\ DOMAIN units \subseteq Range(Opening) \cup Vocab \cup Extra
  /\ \A u, v \in DOMAIN units : units[u] = units[v] => u = v  \* uq_units_course_id_order_index
  /\ completed \subseteq DOMAIN units
  /\ owned \subseteq DOMAIN bound /\ DOMAIN bound \subseteq Range(ULTIMATES)
  /\ \A code \in DOMAIN bound : bound[code] \in DOMAIN units \cup {Absent}

Init ==
  /\ units = Numbered(Opening)
  /\ script = Absent /\ starting = Absent
  /\ bound = [code \in {} |-> Absent]
  /\ completed = {} /\ owned = {}
  /\ spent = [scripts |-> 0, edits |-> 0, starts |-> 0]
  /\ calm = TRUE /\ admin = Opening /\ guarded = FALSE

-----------------------------------------------------------------------------
(* scripts/import_vocab_deck.py.                                            *)

\* Mutant: what is left of the longer one is dropped.
interleave_zipped(first, second) ==
  [n \in 1..(2 * Min({Len(first), Len(second)})) |->
     IF n % 2 = 1 THEN first[(n + 1) \div 2] ELSE second[n \div 2]]

\* a1, b1, a2, b2, ... and then what is left of the longer one.
interleave(first, second) ==
  LET both == Min({Len(first), Len(second)})
      merged == [n \in 1..(2 * both) |-> IF n % 2 = 1 THEN first[(n + 1) \div 2] ELSE second[n \div 2]]
  IN merged \o SubSeq(first, both + 1, Len(first)) \o SubSeq(second, both + 1, Len(second))

\* The path as it stands is read; a deck that is there already, or is not there
\* to be removed, ends the run.
Read(doing) ==
  /\ script = Absent /\ spent.scripts < MaxScripts
  /\ (doing = "import") = (Vocab \cap DOMAIN units = {})
  /\ script' = [doing |-> doing, at |-> "read", existing |-> InOrder(units), moved |-> {},
                calm |-> TRUE]
  /\ spent' = [spent EXCEPT !.scripts = @ + 1]
  /\ UNCHANGED <<units, starting, bound, completed, owned, calm, admin, guarded>>

\* The deck's rows are inserted or deleted and every unit of the course is moved
\* out of the way; from here on these rows are locked.
Shift ==
  /\ script # Absent /\ script.at = "read"
  /\ script' = [script EXCEPT !.at = "shifted", !.moved = DOMAIN units]
  /\ UNCHANGED <<units, starting, bound, completed, owned, spent, calm, admin, guarded>>

\* The rows as `_renumber' leaves them: the path it planned from what it read is
\* given 1..n, and a row it did not read stays where it was moved to.
Renumbered ==
  LET vocab == Vocab \cap Range(script.existing)
      path  == IF script.doing = "import" THEN interleave(script.existing, Deck)
               ELSE Without(script.existing, vocab)
      rows  == IF script.doing = "import" THEN DOMAIN units \cup Vocab ELSE DOMAIN units \ vocab
      order == Numbered(path)
  IN [u \in rows |-> IF u \in Range(path) THEN order[u]
                     ELSE IF u \in script.moved THEN units[u] + ORDER_OFFSET ELSE units[u]]

\* A unit that was created in between may sit on a place the path needs: the
\* unique key refuses, and the transaction is gone.
Commit ==
  /\ script # Absent /\ script.at = "shifted"
  /\ script' = Absent
  /\ LET rows == Renumbered IN
     IF \E u, v \in DOMAIN rows : u # v /\ rows[u] = rows[v]
     THEN UNCHANGED <<units, bound, completed, calm, admin, guarded>>
     ELSE /\ units' = rows
          /\ bound' = [code \in DOMAIN bound |->
                         IF bound[code] \in DOMAIN rows THEN bound[code] ELSE Absent]
          /\ completed' = completed \cap DOMAIN rows
          /\ calm' = script.calm
          /\ admin' = IF script.calm THEN admin ELSE Without(InOrder(rows), Vocab)
          /\ guarded' = FALSE
  /\ UNCHANGED <<starting, owned, spent>>

\* The script dies or is cut off: nothing of it stays.
Die == /\ script # Absent
       /\ script' = Absent
       /\ UNCHANGED <<units, starting, bound, completed, owned, spent, calm, admin, guarded>>

-----------------------------------------------------------------------------
(* What an admin does to units; a row the script holds makes them wait.     *)

Held == IF script # Absent /\ script.at = "shifted" THEN script.moved ELSE {}
Free(place) == \A u \in DOMAIN units : units[u] # place

Edits(rows) ==
  /\ spent.edits < MaxEdits
  /\ units' = rows
  /\ spent' = [spent EXCEPT !.edits = @ + 1]
  /\ script' = IF script = Absent THEN Absent ELSE [script EXCEPT !.calm = FALSE]
  /\ calm' = FALSE /\ guarded' = FALSE
  /\ admin' = Without(InOrder(rows), Vocab)
  /\ UNCHANGED <<starting, owned>>

create_unit(u, place) ==
  /\ u \notin DOMAIN units /\ Free(place)
  /\ Edits([v \in DOMAIN units \cup {u} |-> IF v = u THEN place ELSE units[v]])
  /\ UNCHANGED <<bound, completed>>

update_unit(u, place) ==
  /\ u \in DOMAIN units \ Held /\ Free(place)
  /\ Edits([units EXCEPT ![u] = place])
  /\ UNCHANGED <<bound, completed>>

delete_unit(u) ==
  /\ u \in DOMAIN units \ Held
  /\ Edits(Only(units, DOMAIN units \ {u}))
  /\ bound' = [code \in DOMAIN bound |-> IF bound[code] = u THEN Absent ELSE bound[code]]
  /\ completed' = completed \ {u}

-----------------------------------------------------------------------------
(* The start-up: seed_game_catalog, one ultimate and one commit at a time.  *)

first_unit_ids(n) == SubSeq(InOrder(units), 1, Min({n, Cardinality(DOMAIN units)}))

Start ==
  /\ starting = Absent /\ spent.starts < MaxStarts
  /\ starting' = [ids |-> first_unit_ids(Len(ULTIMATES)), next |-> 1]
  /\ spent' = [spent EXCEPT !.starts = @ + 1]
  /\ guarded' = TRUE
  /\ UNCHANGED <<units, script, bound, completed, owned, calm, admin>>

\* A unit that is gone by now is refused by its foreign key, and the start fails.
UpsertUltimate ==
  /\ starting # Absent /\ starting.next <= Len(starting.ids)
  /\ LET unit == starting.ids[starting.next]
         code == ULTIMATES[starting.next]
     IN /\ unit \in Held => code \in DOMAIN bound /\ bound[code] = unit
        /\ IF unit \in DOMAIN units
           THEN /\ bound' = [c \in DOMAIN bound \cup {code} |-> IF c = code THEN unit ELSE bound[c]]
                /\ starting' = [starting EXCEPT !.next = @ + 1]
                /\ UNCHANGED guarded
           ELSE starting' = Absent /\ guarded' = FALSE /\ UNCHANGED bound
  /\ UNCHANGED <<units, script, completed, owned, spent, calm, admin>>

Started ==
  /\ starting # Absent /\ starting.next > Len(starting.ids)
  /\ starting' = Absent
  /\ UNCHANGED <<units, script, bound, completed, owned, spent, calm, admin, guarded>>

Crash ==
  /\ starting # Absent
  /\ starting' = Absent /\ guarded' = FALSE
  /\ UNCHANGED <<units, script, bound, completed, owned, spent, calm, admin>>

-----------------------------------------------------------------------------
(* The learner finishes a unit, and takes the ultimate bound to it.         *)

Complete(u) ==
  /\ u \in DOMAIN units \ completed
  /\ u \in Held => script.doing = "import" \/ u \notin Vocab
  /\ completed' = completed \cup {u}
  /\ UNCHANGED <<units, script, starting, bound, owned, spent, calm, admin, guarded>>

unlock_skill(code) ==
  /\ code \in DOMAIN bound \ owned
  /\ bound[code] \in completed
  /\ owned' = owned \cup {code}
  /\ UNCHANGED <<units, script, starting, bound, completed, spent, calm, admin, guarded>>

Next ==
  \/ \E doing \in {"import", "remove"} : Read(doing)
  \/ Shift \/ Commit \/ Die
  \/ \E u \in Extra, place \in Places : create_unit(u, place)
  \/ \E u \in DOMAIN units, place \in Places : update_unit(u, place)
  \/ \E u \in DOMAIN units : delete_unit(u) \/ Complete(u)
  \/ Start \/ UpsertUltimate \/ Started \/ Crash
  \/ \E code \in Range(ULTIMATES) : unlock_skill(code)

Spec == Init /\ [][Next]_vars

-----------------------------------------------------------------------------
Path == InOrder(units)

(* The deck is on the path whole or not at all, woven from the first unit   *)
(* on, and leaves no gap behind; what the admin ordered keeps its order.    *)
(* That holds of what a script commits that no admin's edit overtook since  *)
(* it read, and until an admin edits the path again.                        *)
DeckIsWoven ==
  calm => /\ Without(Path, Vocab) = admin
          /\ Without(Path, Range(admin)) \in {Deck, <<>>}
          /\ Vocab \cap DOMAIN units # {} =>
               \A n \in 1..(2 * Min({Len(admin), Len(Deck)})) : Path[n] \in Vocab <=> n % 2 = 0
          /\ units = Numbered(Path)

(* Once a start-up has gone through, and until the path moves, the opening  *)
(* units guard one ultimate each, in order.                                 *)
OpeningIsGuarded ==
  guarded /\ starting = Absent =>
    \A n \in 1..Min({Len(ULTIMATES), Len(Path)}) :
      ULTIMATES[n] \in DOMAIN bound /\ bound[ULTIMATES[n]] = Path[n]
=============================================================================
