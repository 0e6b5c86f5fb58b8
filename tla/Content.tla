------------------------------- MODULE Content -------------------------------
(***************************************************************************)
(* One challenge and its options under the admin's edits                   *)
(* (services/content/course_content_service.py, the option and challenge   *)
(* repositories and the unique (challenge_id, order_index)).               *)
(*                                                                         *)
(* Every edit checks what it has read and then commits: a request is       *)
(* between those two steps while it is not idle.  Its reads are one step:  *)
(* what changes between them changes while the two requests overlap, of    *)
(* which nothing is claimed but that orders stay distinct.  Texts, images, *)
(* and the challenge's place in its lesson are left out; units, lessons    *)
(* and topics are edited by the same check before the same kind of unique  *)
(* constraint.                                                             *)
(***************************************************************************)
EXTENDS Naturals, FiniteSets

CONSTANTS Requests,
          Options,  \* ids, given out from the least
          Orders,   \* the order_index values in use
          None

ContentAssumption == /\ Options \subseteq Nat /\ Orders \subseteq Nat
                     /\ IsFiniteSet(Options) /\ IsFiniteSet(Orders)
                     /\ None \notin Options \cup Orders /\ None \notin BOOLEAN
                     /\ None \notin [order_index : Orders, correct : BOOLEAN]

VARIABLES challenge,  \* its type, None while there is no such row
          option,     \* challenge_options, None where there is no row
          edit,       \* what every request does, and holds of what it has read
          overlapped  \* history: an edit of it was committed while another was under way

vars == <<challenge, option, edit, overlapped>>

ChallengeType   == {"SELECT", "ASSIST", "ORDER"}
ChallengeOption == [order_index : Orders, correct : BOOLEAN]
Table           == [Options -> ChallengeOption \cup {None}]

Edit == [at : {"idle", "inserting", "updating", "deleting", "switching"},
         option : Options \cup {None}, order : Orders \cup {None}, correct : BOOLEAN \cup {None},
         type : ChallengeType \cup {None}]

TypeOK == /\ challenge \in ChallengeType \cup {None}
          /\ option \in Table
          /\ edit \in [Requests -> Edit]
          /\ overlapped \in BOOLEAN

NoOptions == [o \in Options |-> None]
Idle == [at |-> "idle", option |-> None, order |-> None, correct |-> None, type |-> None]

Init == /\ challenge = None /\ option = NoOptions
        /\ edit = [r \in Requests |-> Idle]
        /\ overlapped = FALSE

Rows(table) == {o \in Options : table[o] # None}
Correct(table) == {o \in Rows(table) : table[o].correct}

-----------------------------------------------------------------------------
(* What an edit checks.                                                     *)

\* `_validate_correct_flags'.
validate_correct_flags(type, table) ==
  /\ Correct(table) # {}
  /\ type = "SELECT" => Cardinality(Correct(table)) = 1
  /\ type = "ORDER"  => Correct(table) = Rows(table)

validate_unique_option_orders(table) ==
  \A o, p \in Rows(table) : table[o].order_index = table[p].order_index => o = p

Taken(table, order) == \E o \in Rows(table) : table[o].order_index = order

Idles(r)         == edit[r].at = "idle" /\ challenge # None
Goes(r, state)   == edit' = [edit EXCEPT ![r] = state]
Ends(r)          == Goes(r, Idle)
Checks           == UNCHANGED <<challenge, option, overlapped>>
Commits(r)       == overlapped' = (overlapped \/ \E s \in Requests \ {r} : edit[s].at # "idle")

\* The constraint: a statement that would break it raises, and the edit ends.
uq_challenge_options(table) == validate_unique_option_orders(table)

Writes(table) == option' = IF uq_challenge_options(table) THEN table ELSE option

-----------------------------------------------------------------------------
\* The id a new row takes: which one it is means nothing.
Fresh == LET free == Options \ (Rows(option) \cup {edit[r].option : r \in Requests})
         IN {o \in free : \A p \in free : o <= p}

\* Ids are never used again, so edits of a challenge that is gone are over by then.
create_challenge ==
  /\ challenge = None /\ \A r \in Requests : edit[r].at = "idle"
  /\ \E type \in ChallengeType, table \in Table :
       /\ Cardinality(Rows(table)) >= 2
       /\ \A o \in Rows(table), p \in Options :
            p < o => p \in Rows(table) /\ table[p].order_index < table[o].order_index
       /\ validate_correct_flags(type, table) /\ validate_unique_option_orders(table)
       /\ challenge' = type /\ option' = table
  /\ overlapped' = FALSE
  /\ UNCHANGED edit

\* The options go with it.
delete_challenge(r) ==
  /\ Idles(r)
  /\ challenge' = None /\ option' = NoOptions
  /\ Commits(r)
  /\ UNCHANGED edit

\* Type and options are one read.
update_challenge(r, type) ==
  /\ Idles(r) /\ type # challenge
  /\ validate_correct_flags(type, option)
  /\ Goes(r, [Idle EXCEPT !.at = "switching", !.type = type])
  /\ Checks

update(r) ==
  /\ edit[r].at = "switching"
  /\ challenge' = IF challenge = None THEN None ELSE edit[r].type
  /\ Ends(r) /\ Commits(r)
  /\ UNCHANGED option

-----------------------------------------------------------------------------
create_challenge_option(r, o, order, correct) ==
  LET added == [option EXCEPT ![o] = [order_index |-> order, correct |-> correct]] IN
  /\ Idles(r) /\ o \in Fresh /\ ~Taken(option, order)
  /\ validate_correct_flags(challenge, added)
  /\ Goes(r, [Idle EXCEPT !.at = "inserting", !.option = o, !.order = order, !.correct = correct])
  /\ Checks

\* A challenge that is gone leaves the new row without its foreign key.
create(r) ==
  LET me == edit[r] IN
  /\ me.at = "inserting"
  /\ IF challenge = None THEN UNCHANGED option
     ELSE Writes([option EXCEPT ![me.option] = [order_index |-> me.order, correct |-> me.correct]])
  /\ Ends(r) /\ Commits(r)
  /\ UNCHANGED challenge

-----------------------------------------------------------------------------
\* The order is checked if it is to change, and the flags of all siblings if `correct'
\* is given; only what differs from the row as it was read is written.
update_challenge_option(r, o, order, correct) ==
  LET moves   == order # None /\ order # option[o].order_index
      flagged == [option EXCEPT ![o].correct = correct]
      changes == correct # option[o].correct
  IN /\ Idles(r) /\ option[o] # None
     /\ order # None \/ correct # None
     /\ moves => ~Taken(option, order)
     /\ correct # None => validate_correct_flags(challenge, flagged)
     /\ Goes(r, [Idle EXCEPT !.at = "updating", !.option = o,
                             !.order = IF moves THEN order ELSE None,
                             !.correct = IF changes THEN correct ELSE None])
     /\ Checks

\* A row that is gone is an error; otherwise the columns given are set.
UpdateOption(r) ==
  LET me  == edit[r]
      row == option[me.option]
  IN /\ me.at = "updating"
     /\ IF row = None THEN UNCHANGED option
        ELSE Writes([option EXCEPT ![me.option] =
               [order_index |-> IF me.order = None THEN row.order_index ELSE me.order,
                correct     |-> IF me.correct = None THEN row.correct ELSE me.correct]])
     /\ Ends(r) /\ Commits(r)
     /\ UNCHANGED challenge

-----------------------------------------------------------------------------
\* Mutant: the last option but one may go.
delete_any_option(r, o) ==
  /\ Idles(r) /\ option[o] # None
  /\ validate_correct_flags(challenge, [option EXCEPT ![o] = None])
  /\ Goes(r, [Idle EXCEPT !.at = "deleting", !.option = o])
  /\ Checks

delete_challenge_option(r, o) ==
  /\ Idles(r) /\ option[o] # None
  /\ Cardinality(Rows(option) \ {o}) >= 2
  /\ validate_correct_flags(challenge, [option EXCEPT ![o] = None])
  /\ Goes(r, [Idle EXCEPT !.at = "deleting", !.option = o])
  /\ Checks

delete(r) ==
  /\ edit[r].at = "deleting"
  /\ option' = [option EXCEPT ![edit[r].option] = None]
  /\ Ends(r) /\ Commits(r)
  /\ UNCHANGED challenge

Next == \/ create_challenge
        \/ \E r \in Requests :
             \/ delete_challenge(r)
             \/ \E type \in ChallengeType : update_challenge(r, type)
             \/ update(r)
             \/ \E o \in Options, order \in Orders, correct \in BOOLEAN :
                  create_challenge_option(r, o, order, correct)
             \/ create(r)
             \/ \E o \in Options, order \in Orders \cup {None}, correct \in BOOLEAN \cup {None} :
                  update_challenge_option(r, o, order, correct)
             \/ UpdateOption(r)
             \/ \E o \in Options : delete_challenge_option(r, o)
             \/ delete(r)

Spec == Init /\ [][Next]_vars

-----------------------------------------------------------------------------
(* A challenge can always be asked and graded after any edits that do not   *)
(* overlap: two options or more, and the correct ones its type needs.       *)
Answerable == /\ Cardinality(Rows(option)) >= 2
              /\ validate_correct_flags(challenge, option)

AskableUnlessRaced == challenge # None /\ ~overlapped => Answerable

(* Options are shown in one order only, however edits overlap: an ORDER     *)
(* challenge's key is the sequence of these numbers.                        *)
OneOrder ==
  \A o, p \in Rows(option) : option[o].order_index = option[p].order_index => o = p

=============================================================================
