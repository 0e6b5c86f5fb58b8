---------------------------- MODULE WalletProofs ----------------------------
(***************************************************************************)
(* Theorems about one player's account, for any catalog, any requests and  *)
(* any number of sessions: what is bought is paid for, and all of them     *)
(* together implement the gold ledger.                                     *)
(*                                                                         *)
(* A session is ready when what it checked still stands: what was owned is *)
(* owned, and the balance it read is one the trail knows.  Owned things    *)
(* and rows only accumulate, so no session spoils another's readiness.     *)
(***************************************************************************)
EXTENDS Wallet, SequenceTheorems, FiniteSetTheorems, TLAPS

USE WalletAssumption

Row == [reason : Reasons, ref : Refs, amount : Int, after : Nat]

Ready(s) ==
  \/ session[s].at \in {"idle", "done"}
  \/ /\ session[s].req \in Requests
     /\ Held(s).gold \in Ledger!Balances
     /\ Is(s, "match") \/ Is(s, "battle") \/ Is(s, "quest") \/ Is(s, "chest")
          \/ session[s].at \in {"starters", "grant"} \/ Starter \in skills
     /\ session[s].at = "commit" =>
          /\ Is(s, "buy")    => Held(s).gold >= PriceOf[Ref(s)]
          /\ Is(s, "unlock") => Held(s).gold >= SkillOf[Ref(s)].price
          /\ Is(s, "class") /\ Held(s).class # None => Held(s).gold >= ClassPrice
          /\ Is(s, "bar")    => Ref(s) \in skills
          /\ Is(s, "skin")   => Ref(s) \in items
     /\ session[s].at = "lock" => Is(s, "quest") \/ Is(s, "chest")
     /\ session[s].at \in {"lock", "commit"} /\ Is(s, "quest") => Ref(s) \in QuestsDone
     /\ session[s].at \in {"equip", "fill"} => Starter \in skills
     /\ session[s].at \in {"clear", "switch"} => Is(s, "class")
     /\ session[s].at = "loot" => /\ Is(s, "battle") /\ Ref(s) \in Boss
                                  /\ LessonOf[Ref(s)] \in Paid("BATTLE_WIN")

Account == /\ GoodsArePaidFor /\ ClaimedIsPaid /\ ReplaysFollowClears /\ WornIsOwned
           /\ BalanceIsLast /\ Ledger!PaidAtMostOnce

IInv == TypeOK /\ Account /\ \A s \in Sessions : Ready(s)

-----------------------------------------------------------------------------
(* A row put at the end of the trail.                                       *)
LEMMA Appended ==
  ASSUME NEW e \in Row, log \in Seq(Row), log' = Append(log, e)
  PROVE  /\ log' \in Seq(Row)
         /\ DOMAIN log' = DOMAIN log \cup {Len(log) + 1}
         /\ Len(log) + 1 \notin DOMAIN log
         /\ \A i \in DOMAIN log : log'[i] = log[i]
         /\ log'[Len(log) + 1] = e
<1>1. Len(log) \in Nat /\ DOMAIN log = 1..Len(log)
  OBVIOUS
<1>2. Len(log') = Len(log) + 1 /\ log' \in Seq(Row)
  OBVIOUS
<1>3. DOMAIN log' = 1..(Len(log) + 1)
  BY <1>2
<1>4. \A i \in 1..Len(log) : log'[i] = log[i]
  BY <1>1
<1>5. log'[Len(log) + 1] = e
  BY <1>1
<1> QED BY <1>1, <1>2, <1>3, <1>4, <1>5

(* What the trail says was paid, and the balances it names, only grow.      *)
LEMMA PaidGrows ==
  ASSUME NEW e \in Row, log \in Seq(Row), log' = Append(log, e)
  PROVE  /\ \A r : Paid(r)' = IF r = e.reason THEN Paid(r) \cup {e.ref} ELSE Paid(r)
         /\ Ledger!Balances' = Ledger!Balances \cup {e.after}
<1>3. ASSUME NEW r PROVE Paid(r)' = IF r = e.reason THEN Paid(r) \cup {e.ref} ELSE Paid(r)
  <2> DEFINE E == Entries(r)
  <2>1. /\ E' = IF r = e.reason THEN E \cup {Len(log) + 1} ELSE E
        /\ \A i \in E : log'[i] = log[i]
    BY Appended DEF Entries
  <2>2. Paid(r)' = {log'[i].ref : i \in E'} /\ Paid(r) = {log[i].ref : i \in E}
    BY DEF Paid
  <2>3. log'[Len(log) + 1] = e
    BY Appended
  <2> HIDE DEF E
  <2>4. {log'[i].ref : i \in E} = {log[i].ref : i \in E}
    <3>1. \A i \in E : log'[i].ref = log[i].ref
      BY <2>1
    <3> QED BY ONLY <3>1
  <2>5. CASE r = e.reason
    <3>1. E' = E \cup {Len(log) + 1}
      BY <2>1, <2>5
    <3>2. {log'[i].ref : i \in E \cup {Len(log) + 1}} = {log'[i].ref : i \in E} \cup {log'[Len(log) + 1].ref}
      OBVIOUS
    <3>3. Paid(r)' = {log'[i].ref : i \in E \cup {Len(log) + 1}}
      BY <2>2, <3>1
    <3>4. Paid(r)' = Paid(r) \cup {e.ref}
      BY <2>2, <2>3, <2>4, <3>2, <3>3
    <3> QED BY <2>5, <3>4
  <2>6. CASE r # e.reason
    <3>1. E' = E
      BY <2>1, <2>6
    <3>2. Paid(r)' = Paid(r)
      BY <2>2, <2>4, <3>1
    <3> QED BY <2>6, <3>2
  <2> QED BY <2>5, <2>6
<1>4. Ledger!Balances' = Ledger!Balances \cup {e.after}
  BY Appended DEF Ledger!Balances
<1> QED BY <1>3, <1>4

(* The balance a movement leaves.                                           *)
LEMMA Moves ==
  ASSUME TypeOK, NEW s \in Sessions, NEW amount \in Int, NEW exp \in Nat,
         profile' = Moved(s, amount, exp)
  PROVE  /\ After(s, amount) \in Nat
         /\ profile' \in Profile
         /\ profile'.gold = IF After(s, amount) = Held(s).gold THEN profile.gold ELSE After(s, amount)
         /\ profile'.class = profile.class /\ profile'.skin = profile.skin
<1>1. Held(s) \in Profile
  BY DEF TypeOK, Session, Held
<1>2. profile \in Profile
  BY DEF TypeOK
<1>3. After(s, amount) \in Nat
  BY <1>1 DEF After, Profile
<1> DEFINE g == IF After(s, amount) # Held(s).gold THEN After(s, amount) ELSE profile.gold
           x == IF exp > 0 THEN Held(s).exp + exp ELSE profile.exp
           p == [profile EXCEPT !.gold = g]
<1>4. p \in Profile /\ p.gold = g /\ p.exp = profile.exp /\ p.class = profile.class /\ p.skin = profile.skin
  BY <1>2, <1>3 DEF Profile
<1>5. x \in Nat
  BY <1>1, <1>2 DEF Profile
<1>6. profile' = [p EXCEPT !.exp = x]
  BY <1>4 DEF Moved
<1> HIDE DEF p, x
<1>7. profile' \in Profile /\ profile'.gold = p.gold /\ profile'.class = p.class /\ profile'.skin = p.skin
  BY <1>4, <1>5, <1>6 DEF Profile
<1> QED BY <1>3, <1>4, <1>7

(* One posting: a row, and the balance with it.                             *)
LEMMA Posting ==
  ASSUME IInv, NEW s \in Sessions, session[s].at \notin {"idle", "done"},
         NEW reason \in Reasons, NEW ref \in Refs, NEW amount \in Int, NEW exp \in Nat,
         amount < 0 => Held(s).gold + amount >= 0,
         Grant(s, reason, ref, amount), profile' = Moved(s, amount, exp)
  PROVE  /\ profile' \in Profile /\ profile'.skin = profile.skin
         /\ log' \in Seq(Row)
         /\ Ledger!Balances \subseteq Ledger!Balances'
         /\ profile'.gold \in Ledger!Balances'
         /\ \A r : Paid(r)' = IF r = reason THEN Paid(r) \cup {ref} ELSE Paid(r)
         /\ Ledger!PaidAtMostOnce' /\ BalanceIsLast'
         /\ Ledger!LedgerNext
<1> DEFINE e == [reason |-> reason, ref |-> ref, amount |-> amount, after |-> After(s, amount)]
<1>1. /\ After(s, amount) \in Nat /\ profile' \in Profile
      /\ profile'.gold = IF After(s, amount) = Held(s).gold THEN profile.gold ELSE After(s, amount)
      /\ profile'.skin = profile.skin
  BY Moves DEF IInv
<1>2. e \in Row /\ log' = Append(log, e) /\ Free(reason, ref) /\ log \in Seq(Row)
  BY <1>1 DEF Grant, Row, IInv, TypeOK
<1>3. /\ log' \in Seq(Row) /\ DOMAIN log' = DOMAIN log \cup {Len(log) + 1}
      /\ Len(log) + 1 \notin DOMAIN log
      /\ \A i \in DOMAIN log : log'[i] = log[i]
      /\ log'[Len(log) + 1] = e
  BY <1>2, Appended
<1>4. /\ \A r : Paid(r)' = IF r = e.reason THEN Paid(r) \cup {e.ref} ELSE Paid(r)
      /\ Ledger!Balances' = Ledger!Balances \cup {e.after}
  BY <1>2, PaidGrows
<1>5. Held(s).gold \in Ledger!Balances
  BY DEF IInv, Ready
<1>6. Held(s).gold \in Nat /\ profile.gold \in Nat
  BY DEF IInv, TypeOK, Session, Profile, Held
<1>7. Ledger!PaidAtMostOnce'
  <2>1. \A i \in DOMAIN log : ~(log'[i].reason = e.reason /\ log'[i].ref = e.ref)
    BY <1>2, <1>3 DEF Free
  <2>2. \A i, j \in DOMAIN log : log'[i].reason = log'[j].reason /\ log'[i].ref = log'[j].ref => i = j
    BY <1>3 DEF IInv, Account, Ledger!PaidAtMostOnce
  <2> QED BY <2>1, <2>2, <1>3 DEF Ledger!PaidAtMostOnce
<1>8. BalanceIsLast'
  <2> DEFINE moves == {i \in DOMAIN log : log[i].amount # 0}
  <2>1. CASE amount = 0
    <3>1. moves' = moves
      BY <2>1, <1>3
    <3>2. profile'.gold = profile.gold
      BY <2>1, <1>1, <1>6 DEF After
    <3>3. \A i \in moves : log'[i] = log[i]
      BY <1>3
    <3> QED BY <3>1, <3>2, <3>3 DEF IInv, Account, BalanceIsLast
  <2>2. CASE amount # 0
    <3>1. moves' = moves \cup {Len(log) + 1}
      BY <2>2, <1>3
    <3>2. \A j \in moves : j < Len(log) + 1 /\ j \in Nat
      BY <1>2
    <3>3. Len(log) + 1 \in moves' /\ \A j \in moves' : j <= Len(log) + 1
      BY <3>1, <3>2, <1>2
    <3>4. After(s, amount) # Held(s).gold
      BY <2>2, <1>6 DEF After
    <3> QED BY <3>1, <3>3, <3>4, <1>1, <1>3 DEF BalanceIsLast
  <2> QED BY <2>1, <2>2
<1>9. Ledger!LedgerNext
  <2>1. log'[Len(log) + 1] = e /\ Len(log) + 1 \in DOMAIN log'
    BY <1>3
  <2>2. Ledger!Post(e, Held(s).gold)
    <3>1. e \in Ledger!Entry
      BY <1>2 DEF Ledger!Entry, Row
    <3>2. Ledger!Free(e.reason, e.ref)
      BY <1>2 DEF Ledger!Free, Free
    <3> QED BY <3>1, <3>2, <1>1, <1>2 DEF Ledger!Post, After
  <2> QED BY <2>1, <2>2, <1>5 DEF Ledger!LedgerNext
<1>10. profile.gold \in Ledger!Balances
  BY DEF IInv, Account, BalanceIsLast, Ledger!Balances
<1> QED BY <1>1, <1>3, <1>4, <1>7, <1>8, <1>9, <1>10

-----------------------------------------------------------------------------
(* What is owned, paid and on record only accumulates.                      *)
Accumulates == /\ skills \subseteq skills' /\ items \subseteq items'
               /\ Ledger!Balances \subseteq Ledger!Balances'
               /\ Paid("BATTLE_WIN") \subseteq Paid("BATTLE_WIN")'

(* A session that does not move stays ready.                                *)
LEMMA Waits ==
  ASSUME NEW t \in Sessions, Ready(t), session'[t] = session[t], Accumulates
  PROVE  Ready(t)'
<1>1. /\ Held(t)' = Held(t) /\ Ref(t)' = Ref(t) /\ session'[t].at = session[t].at
      /\ session'[t].req = session[t].req
      /\ \A k \in Kinds : Is(t, k)' = Is(t, k)
  BY DEF Held, Ref, Is
<1>2. CASE session[t].at \in {"idle", "done"}
  BY <1>1, <1>2 DEF Ready
<1>3. CASE session[t].at \notin {"idle", "done"}
  BY <1>1, <1>3 DEF Ready, Accumulates, Kinds
<1> QED BY <1>2, <1>3

(* One session moves: the rest of the invariant follows.                    *)
LEMMA OneMoves ==
  ASSUME IInv, NEW s \in Sessions, NEW r \in Session,
         session' = [session EXCEPT ![s] = r],
         profile' \in Profile, log' \in Seq(Row), skills' \subseteq Skills, bar' \subseteq Skills,
         items' \subseteq Items, chests' \subseteq Payouts, claimed' \subseteq Payouts,
         changes' \in Nat, Account', Ready(s)', Accumulates
  PROVE  IInv'
<1>1. session' \in [Sessions -> Session] /\ \A t \in Sessions \ {s} : session'[t] = session[t]
  BY DEF IInv, TypeOK
<1>2. TypeOK'
  BY <1>1 DEF TypeOK, Row
<1>3. \A t \in Sessions : Ready(t)'
  BY <1>1, Waits DEF IInv
<1> QED BY <1>2, <1>3 DEF IInv

(* Nothing on record moves; skills that cost gold are not handed out.       *)
LEMMA NothingPaid ==
  ASSUME IInv, UNCHANGED <<log, items, chests, claimed>>, profile'.gold = profile.gold,
         profile'.skin \in items \cup {None},
         skills' \in {skills, skills \cup {Starter}}, bar' \subseteq skills'
  PROVE  Account' /\ Accumulates /\ Ledger!Balances' = Ledger!Balances
         /\ \A x : Paid(x)' = Paid(x)
<1>1. \A x : Paid(x)' = Paid(x)
  BY DEF Paid, Entries
<1>2. Ledger!Balances' = Ledger!Balances
  BY DEF Ledger!Balances
<1>3. GoodsArePaidFor'
  BY <1>1 DEF IInv, Account, GoodsArePaidFor
<1>4. ClaimedIsPaid' /\ ReplaysFollowClears'
  BY <1>1 DEF IInv, Account, ClaimedIsPaid, ReplaysFollowClears
<1>5. WornIsOwned' /\ BalanceIsLast' /\ Ledger!PaidAtMostOnce'
  BY DEF IInv, Account, WornIsOwned, BalanceIsLast, Ledger!PaidAtMostOnce
<1> QED BY <1>1, <1>2, <1>3, <1>4, <1>5 DEF Account, Accumulates

(* The acting session ends, or goes on to its next point.                   *)
LEMMA Ending ==
  ASSUME IInv, NEW s \in Sessions, Ends(s)
  PROVE  /\ Ready(s)'
         /\ \E r \in Session : session' = [session EXCEPT ![s] = r]
<1> DEFINE r == [session[s] EXCEPT !.at = "done", !.held = NoProfile, !.locked = FALSE]
<1>1. NoProfile \in Profile
  BY DEF NoProfile, Profile
<1>2. session[s] \in Session /\ session \in [Sessions -> Session]
  BY DEF IInv, TypeOK
<1>3. r \in Session
  BY <1>1, <1>2 DEF Session
<1>4. session' = [session EXCEPT ![s] = r] /\ session'[s].at = "done"
  BY <1>2 DEF Ends, Session
<1> QED BY <1>3, <1>4 DEF Ready

LEMMA Going ==
  ASSUME IInv, NEW s \in Sessions,
         NEW p \in {"grant", "equip", "fill", "check", "lock", "commit", "clear", "switch", "loot"}, Goes(s, p)
  PROVE  /\ \E r \in Session : session' = [session EXCEPT ![s] = r]
         /\ session'[s].at = p /\ session'[s].req = session[s].req
         /\ Held(s)' = Held(s) /\ Ref(s)' = Ref(s)
         /\ \A k : Is(s, k)' = Is(s, k)
<1> DEFINE r == [session[s] EXCEPT !.at = p]
<1>1. session[s] \in Session /\ session \in [Sessions -> Session]
  BY DEF IInv, TypeOK
<1>2. r \in Session
  BY <1>1 DEF Session
<1>3. session' = [session EXCEPT ![s] = r] /\ session'[s] = r
  BY <1>1 DEF Goes
<1>4. session'[s].at = p /\ session'[s].req = session[s].req /\ session'[s].held = session[s].held
  BY <1>1, <1>3 DEF Session
<1> QED BY <1>2, <1>3, <1>4 DEF Held, Ref, Is

(* The steps that only read, and those that write the bar.                  *)
LEMMA ReadingSteps ==
  ASSUME IInv, NEW s \in Sessions,
         \/ \E r \in Requests : Arrive(s, r)
         \/ LookForStarter(s) \/ GrantStarter(s) \/ LookAtBar(s) \/ FillBar(s) \/ Check(s)
         \/ LockClaim(s) \/ ClearBar(s) \/ SetBar(s) \/ Vanish(s)
  PROVE  IInv' /\ UNCHANGED <<profile, log>>
<1>1. /\ session[s] \in Session /\ session \in [Sessions -> Session] /\ profile \in Profile
      /\ Ready(s) /\ skills \subseteq Skills /\ bar \subseteq skills
      /\ profile.skin \in items \cup {None}
      /\ items \subseteq Items /\ chests \subseteq Payouts /\ claimed \subseteq Payouts
      /\ log \in Seq(Row) /\ changes \in Nat
  BY DEF IInv, TypeOK, Account, WornIsOwned, Row
<1>2. profile.gold \in Ledger!Balances
  BY DEF IInv, Account, BalanceIsLast, Ledger!Balances
<1> DEFINE Frame == UNCHANGED <<profile, log, items, chests, claimed, changes>>
<1>3. ASSUME NEW r \in Session, session' = [session EXCEPT ![s] = r], Ready(s)', Frame,
             skills' \in {skills, skills \cup {Starter}}, bar' \subseteq skills'
      PROVE  IInv'
  <2>1. Account' /\ Accumulates
    BY <1>1, <1>3, NothingPaid
  <2> QED BY <1>1, <1>3, <2>1, OneMoves
<1>4. Frame => Accumulates \/ ~(skills \subseteq skills')
  BY DEF Accumulates, Ledger!Balances, Paid, Entries
<1>5. ASSUME Ends(s), Frame, skills' \in {skills, skills \cup {Starter}}, bar' \subseteq skills'
      PROVE  IInv'
  BY <1>3, <1>5, Ending
<1>6. ASSUME NEW r \in Requests, Arrive(s, r) PROVE IInv'
  <2> DEFINE p == CASE r.kind \in InGame -> "starters"
                    [] r.kind \in {"quest", "chest"} -> "check"
                    [] OTHER -> "commit"
             x == [at |-> p, req |-> r, held |-> profile, locked |-> FALSE]
  <2>0. p = IF r.kind \in InGame THEN "starters"
            ELSE IF r.kind \in {"quest", "chest"} THEN "check" ELSE "commit"
    BY DEF InGame
  <2>1. x \in Session /\ session' = [session EXCEPT ![s] = x] /\ x.req = r /\ x.held = profile
        /\ x.at = IF r.kind \in InGame THEN "starters"
                  ELSE IF r.kind \in {"quest", "chest"} THEN "check" ELSE "commit"
    BY <2>0, <1>1, <1>6 DEF Arrive, Session
  <2>2. r.kind \in Kinds /\ r # None
    OBVIOUS
  <2>3. Frame /\ UNCHANGED <<skills, bar>>
    BY <1>6 DEF Arrive
  <2>4. Ready(s)'
    <3>1. session'[s] = x
      BY <2>1, <1>1
    <3> HIDE DEF x
    <3> QED BY <3>1, <2>1, <2>2, <2>3, <1>2, <1>4 DEF Ready, Is, Held, Accumulates, Kinds, InGame
  <2> QED BY <2>1, <2>3, <2>4, <1>1, <1>3
<1>7. CASE LookForStarter(s)
  <2>1. PICK p \in {"check", "grant"} : Goes(s, p) /\ (p = "check" => Starter \in skills)
    BY <1>7 DEF LookForStarter
  <2>2. Ready(s)'
    BY <2>1, <1>1, <1>4, <1>7, Going DEF Ready, LookForStarter, At, Accumulates
  <2> QED BY <2>1, <2>2, <1>1, <1>3, <1>7, Going DEF LookForStarter
<1>8. CASE GrantStarter(s)
  <2>1. CASE Starter \in skills
    BY <2>1, <1>1, <1>5, <1>8 DEF GrantStarter
  <2>2. CASE Starter \notin skills
    <3>1. Goes(s, "equip") /\ skills' = skills \cup {Starter} /\ Frame /\ bar' = bar
      BY <2>2, <1>8 DEF GrantStarter
    <3>2. Ready(s)'
      BY <3>1, <1>1, <1>4, <1>8, Going DEF Ready, GrantStarter, At, Accumulates
    <3> QED BY <3>1, <3>2, <1>1, <1>3, Going
  <2> QED BY <2>1, <2>2
<1>9. CASE LookAtBar(s)
  <2>1. PICK p \in {"check", "fill"} : Goes(s, p)
    BY <1>9 DEF LookAtBar
  <2>2. Ready(s)'
    BY <2>1, <1>1, <1>4, <1>9, Going DEF Ready, LookAtBar, At, Accumulates
  <2> QED BY <2>1, <2>2, <1>1, <1>3, <1>9, Going DEF LookAtBar
<1>10. CASE FillBar(s)
  <2>1. Goes(s, "check") /\ Starter \in skills /\ Frame /\ skills' = skills /\ bar' = {Starter}
    BY <1>1, <1>10 DEF FillBar, Ready, At
  <2>2. Ready(s)'
    BY <2>1, <1>1, <1>4, <1>10, Going DEF Ready, FillBar, At, Accumulates
  <2> QED BY <2>1, <2>2, <1>1, <1>3, Going
<1>11. CASE Check(s)
  <2>1. CASE Allowed(s)
    <3>1. PICK p \in {"lock", "commit"} : Goes(s, p) /\ (p = "lock" => Is(s, "quest") \/ Is(s, "chest"))
      BY <2>1, <1>1, <1>11 DEF Check, Ready, At, Is
    <3>2. /\ Is(s, "buy")    => Held(s).gold >= PriceOf[Ref(s)]
          /\ Is(s, "unlock") => Held(s).gold >= SkillOf[Ref(s)].price
          /\ Is(s, "class") /\ Held(s).class # None => Held(s).gold >= ClassPrice
          /\ Is(s, "bar")    => Ref(s) \in skills
          /\ Is(s, "skin")   => Ref(s) \in items
          /\ Is(s, "quest")  => Ref(s) \in QuestsDone
      BY <2>1 DEF Allowed, Unlockable, Is
    <3>3. Frame /\ UNCHANGED <<skills, bar>>
      BY <1>11 DEF Check
    <3>4. Ready(s)'
      <4>1. Is(s, "match") \/ Is(s, "battle") \/ Is(s, "quest") \/ Is(s, "chest") \/ Starter \in skills
        BY <1>1, <1>11 DEF Check, At, Ready
      <4>2. session[s].req \in Requests /\ Held(s).gold \in Ledger!Balances
        BY <1>1, <1>11 DEF Check, At, Ready
      <4> QED BY <3>1, <3>2, <3>3, <4>1, <4>2, <1>4, Going DEF Ready, Accumulates
    <3> QED BY <3>1, <3>3, <3>4, <1>1, <1>3, Going
  <2>2. CASE ~Allowed(s)
    BY <2>2, <1>1, <1>5, <1>11 DEF Check
  <2> QED BY <2>1, <2>2
<1>12. CASE LockClaim(s)
  <2>1. CASE Ref(s) \in claimed
    BY <2>1, <1>1, <1>5, <1>12 DEF LockClaim
  <2>2. CASE Ref(s) \notin claimed
    <3> DEFINE x == [session[s] EXCEPT !.at = "commit", !.held = profile, !.locked = TRUE]
    <3>1. session' = [session EXCEPT ![s] = x] /\ session'[s] = x
      BY <2>2, <1>1, <1>12 DEF LockClaim
    <3>2. x \in Session /\ x.at = "commit" /\ x.held = profile /\ x.req = session[s].req
      BY <1>1 DEF Session
    <3>3. Frame /\ UNCHANGED <<skills, bar>>
      BY <1>12 DEF LockClaim
    <3>4. Is(s, "quest") \/ Is(s, "chest")
      BY <1>1, <1>12 DEF LockClaim, Ready, At
    <3>5. Ready(s)'
      BY <3>1, <3>2, <3>3, <1>1, <1>2, <1>4, <1>12 DEF Ready, Is, Held, Ref, LockClaim, At, Accumulates
    <3> QED BY <3>1, <3>2, <3>3, <3>5, <1>1, <1>3
  <2> QED BY <2>1, <2>2
<1>13. CASE ClearBar(s)
  <2>1. Goes(s, "switch") /\ Frame /\ skills' = skills /\ bar' = {}
    BY <1>13 DEF ClearBar
  <2>2. Ready(s)'
    BY <2>1, <1>1, <1>4, <1>13, Going DEF Ready, ClearBar, At, Accumulates
  <2> QED BY <2>1, <2>2, <1>1, <1>3, Going
<1>14. CASE SetBar(s)
  BY <1>1, <1>5, <1>14 DEF SetBar, Ready, At
<1>15. CASE Vanish(s)
  BY <1>1, <1>5, <1>15 DEF Vanish
<1>16. UNCHANGED <<profile, log>>
  BY DEF Arrive, LookForStarter, GrantStarter, LookAtBar, FillBar, Check, LockClaim, ClearBar, SetBar, Vanish
<1> QED BY <1>6, <1>7, <1>8, <1>9, <1>10, <1>11, <1>12, <1>13, <1>14, <1>15, <1>16

(* The steps that write the profile and leave its gold.                     *)
LEMMA ProfileSteps ==
  ASSUME IInv, NEW s \in Sessions, ChooseFirst(s) \/ Switch(s) \/ WearSkin(s)
  PROVE  IInv' /\ UNCHANGED <<profile.gold, log>>
<1>1. /\ session[s] \in Session /\ profile \in Profile /\ Ready(s)
      /\ skills \subseteq Skills /\ bar \subseteq skills
      /\ profile.skin \in items \cup {None}
      /\ items \subseteq Items /\ chests \subseteq Payouts /\ claimed \subseteq Payouts
      /\ log \in Seq(Row) /\ changes \in Nat
  BY DEF IInv, TypeOK, Account, WornIsOwned, Row
<1>2. ASSUME Ends(s), UNCHANGED <<log, skills, bar, items, chests, claimed>>, changes' \in Nat,
             profile' \in Profile, profile'.gold = profile.gold, profile'.skin \in items \cup {None}
      PROVE  IInv'
  <2>1. Account' /\ Accumulates
    BY <1>1, <1>2, NothingPaid
  <2> QED BY <1>1, <1>2, <2>1, Ending, OneMoves
<1>3. CASE ChooseFirst(s)
  <2>1. Ref(s) \in Classes
    BY <1>1, <1>3 DEF ChooseFirst, Ready, At, Is, Ref
  <2>2. profile' \in Profile /\ profile'.gold = profile.gold /\ profile'.skin = profile.skin
    BY <1>1, <1>3, <2>1 DEF ChooseFirst, Profile
  <2>3. Ends(s) /\ UNCHANGED <<log, skills, bar, items, chests, claimed, changes>>
    BY <1>3 DEF ChooseFirst
  <2> QED BY <1>1, <1>2, <2>2, <2>3
<1>4. CASE Switch(s)
  <2>1. Ref(s) \in Classes
    BY <1>1, <1>4 DEF Switch, Ready, At, Is, Ref
  <2>2. profile' \in Profile /\ profile'.gold = profile.gold /\ profile'.skin = profile.skin
    BY <1>1, <1>4, <2>1 DEF Switch, Profile
  <2>3. Ends(s) /\ UNCHANGED <<log, skills, bar, items, chests, claimed>> /\ changes' = changes + 1
    BY <1>4 DEF Switch
  <2> QED BY <1>1, <1>2, <2>2, <2>3
<1>5. CASE WearSkin(s)
  <2>1. Ref(s) \in Items /\ Ref(s) \in items
    BY <1>1, <1>5 DEF WearSkin, Ready, At, Is, Ref
  <2>2. profile' \in Profile /\ profile'.gold = profile.gold
        /\ profile'.skin \in {profile.skin, Ref(s)}
    BY <1>1, <1>5, <2>1 DEF WearSkin, Profile
  <2>3. Ends(s) /\ UNCHANGED <<log, skills, bar, items, chests, claimed, changes>>
    BY <1>5 DEF WearSkin
  <2> QED BY <1>1, <1>2, <2>1, <2>2, <2>3
<1>6. UNCHANGED <<profile.gold, log>>
  BY <1>1 DEF ChooseFirst, Switch, WearSkin, Profile
<1> QED BY <1>3, <1>4, <1>5, <1>6

(* The boss's chest.                                                        *)
LEMMA LootStep ==
  ASSUME IInv, NEW s \in Sessions, TakeLoot(s)
  PROVE  IInv' /\ UNCHANGED <<profile.gold, log>>
<1>1. /\ profile \in Profile /\ skills \subseteq Skills /\ bar \subseteq skills
      /\ items \subseteq Items /\ chests \subseteq Payouts /\ claimed \subseteq Payouts
      /\ log \in Seq(Row) /\ changes \in Nat
  BY DEF IInv, TypeOK, Account, WornIsOwned, Row
<1>2. /\ Is(s, "battle") /\ Ref(s) \in Boss /\ LessonOf[Ref(s)] \in Paid("BATTLE_WIN")
      /\ session[s].req \in Requests
  BY DEF IInv, Ready, TakeLoot, At
<1>3. Ref(s) \in Payouts
  BY <1>2 DEF Payouts, Is, Ref
<1>4. Ends(s) /\ chests' = chests \cup {Ref(s)}
      /\ UNCHANGED <<profile, log, skills, bar, items, claimed, changes>>
  BY DEF TakeLoot
<1>5. (\A x : Paid(x)' = Paid(x)) /\ Ledger!Balances' = Ledger!Balances
  BY <1>4 DEF Paid, Entries, Ledger!Balances
<1>6. Account'
  <2>1. ReplaysFollowClears'
    BY <1>2, <1>4, <1>5 DEF IInv, Account, ReplaysFollowClears
  <2>2. GoodsArePaidFor' /\ ClaimedIsPaid'
    BY <1>4, <1>5 DEF IInv, Account, GoodsArePaidFor, ClaimedIsPaid
  <2>3. WornIsOwned' /\ BalanceIsLast' /\ Ledger!PaidAtMostOnce'
    BY <1>4 DEF IInv, Account, WornIsOwned, BalanceIsLast, Ledger!PaidAtMostOnce
  <2> QED BY <2>1, <2>2, <2>3 DEF Account
<1>7. Accumulates
  BY <1>4, <1>5 DEF Accumulates
<1> QED BY <1>1, <1>3, <1>4, <1>6, <1>7, Ending, OneMoves

(* The steps that post a row: each delivers in the same step what it posts. *)
LEMMA PostingSteps ==
  ASSUME IInv, NEW s \in Sessions,
         \/ PayMatch(s) \/ PayBattle(s) \/ Buy(s) \/ Unlock(s) \/ PayChange(s)
         \/ ClaimQuest(s) \/ ClaimChest(s)
  PROVE  IInv' /\ (Ledger!LedgerNext \/ UNCHANGED <<profile.gold, log>>)
<1>1. /\ session[s] \in Session /\ session \in [Sessions -> Session] /\ profile \in Profile
      /\ Ready(s) /\ skills \subseteq Skills /\ bar \subseteq skills
      /\ profile.skin \in items \cup {None}
      /\ items \subseteq Items /\ chests \subseteq Payouts /\ claimed \subseteq Payouts
      /\ log \in Seq(Row) /\ changes \in Nat /\ Held(s).gold \in Nat
  BY DEF IInv, TypeOK, Account, WornIsOwned, Row, Session, Profile, Held
<1>2. /\ session[s].req \in Requests /\ session[s].at = "commit" /\ session[s].req # None
      /\ session[s].at \notin {"idle", "done"}
  BY <1>1 DEF PayMatch, PayBattle, Buy, Unlock, PayChange, ClaimQuest, ClaimChest, PayClaim, At, Ready
<1>3. Ref(s) \in Refs
  BY <1>2 DEF Refs, Ref
<1>4. /\ Is(s, "buy")    => Ref(s) \in Items /\ Held(s).gold >= PriceOf[Ref(s)]
      /\ Is(s, "unlock") => /\ Ref(s) \in Skills /\ Held(s).gold >= SkillOf[Ref(s)].price
                            /\ Starter \in skills
      /\ Is(s, "class") /\ Held(s).class # None => Held(s).gold >= ClassPrice
      /\ Is(s, "quest")  => Ref(s) \in QuestsDone
      /\ Is(s, "battle") => Ref(s) \in DOMAIN LessonOf
      /\ Is(s, "match") \/ Is(s, "battle") \/ Is(s, "quest") \/ Is(s, "chest") => Ref(s) \in Payouts
  BY <1>1, <1>2 DEF Ready, Is, Ref, Payouts
<1>5. \A x \in Payouts : GoldOf[x] \in Nat
  OBVIOUS
<1>6. ASSUME UNCHANGED <<profile, log, skills, bar, items, chests, claimed, changes>>, Ends(s)
      PROVE  IInv'
  <2>1. Account' /\ Accumulates
    BY <1>1, <1>6, NothingPaid
  <2> QED BY <1>1, <1>6, <2>1, Ending, OneMoves
<1>7. ASSUME NEW reason \in Reasons, NEW ref \in Refs, NEW amount \in Int, NEW exp \in Nat,
             amount < 0 => Held(s).gold + amount >= 0,
             Grant(s, reason, ref, amount), profile' = Moved(s, amount, exp),
             skills \subseteq skills', skills' \subseteq Skills, items \subseteq items', items' \subseteq Items,
             bar' = bar, chests' \subseteq Payouts, claimed' \subseteq Payouts, changes' = changes,
             GoodsArePaidFor', ClaimedIsPaid', ReplaysFollowClears',
             NEW r \in Session, session' = [session EXCEPT ![s] = r], Ready(s)'
      PROVE  IInv' /\ Ledger!LedgerNext
  <2> USE <1>7
  <2>1. /\ profile' \in Profile /\ profile'.skin = profile.skin /\ log' \in Seq(Row)
        /\ Ledger!Balances \subseteq Ledger!Balances'
        /\ \A x : Paid(x)' = IF x = reason THEN Paid(x) \cup {ref} ELSE Paid(x)
        /\ Ledger!PaidAtMostOnce' /\ BalanceIsLast' /\ Ledger!LedgerNext
    <3>1. IInv /\ session[s].at \notin {"idle", "done"}
      BY <1>2
    <3>2. Grant(s, reason, ref, amount) /\ profile' = Moved(s, amount, exp)
      OBVIOUS
    <3> HIDE <1>7
    <3>3. amount < 0 => Held(s).gold + amount >= 0
      BY <1>7
    <3> QED BY <3>1, <3>2, <3>3, Posting
  <2>2. WornIsOwned'
    BY <1>1, <1>7, <2>1 DEF WornIsOwned
  <2>3. Accumulates
    BY <1>7, <2>1 DEF Accumulates
  <2> QED BY <1>1, <1>7, <2>1, <2>2, <2>3, OneMoves DEF Account
<1>8. ASSUME NEW reason \in Reasons, NEW ref \in Refs, NEW amount \in Int, NEW exp \in Nat,
             amount < 0 => Held(s).gold + amount >= 0,
             Grant(s, reason, ref, amount), profile' = Moved(s, amount, exp)
      PROVE  /\ \A x : Paid(x)' = IF x = reason THEN Paid(x) \cup {ref} ELSE Paid(x)
             /\ profile'.gold \in Ledger!Balances'
  BY <1>2, <1>8, Posting
<1>9. /\ GoodsArePaidFor /\ ClaimedIsPaid /\ ReplaysFollowClears
  BY DEF IInv, Account
<1>10. CASE PayMatch(s)
  <2>1. CASE ~Free("MATCH", Ref(s))
    BY <1>6, <1>10, <2>1 DEF PayMatch
  <2>2. CASE Free("MATCH", Ref(s))
    <3> DEFINE g == GoldOf[Ref(s)]
    <3>1. /\ Grant(s, "MATCH", Ref(s), g) /\ profile' = Moved(s, g, 1) /\ Ends(s)
          /\ UNCHANGED <<skills, bar, items, chests, claimed, changes>>
      BY <2>2, <1>10 DEF PayMatch
    <3>2. g \in Int /\ ~(g < 0) /\ "MATCH" \in Reasons
      BY <1>4, <1>5, <1>10 DEF PayMatch, Reasons
    <3> HIDE DEF g
    <3>3. \A x : x # "MATCH" => Paid(x)' = Paid(x)
      BY <3>1, <3>2, <1>3, <1>8
    <3>4. GoodsArePaidFor' /\ ClaimedIsPaid' /\ ReplaysFollowClears'
      BY <3>1, <3>3, <1>9 DEF GoodsArePaidFor, ClaimedIsPaid, ReplaysFollowClears
    <3> QED BY <3>1, <3>2, <3>4, <1>1, <1>3, <1>7, Ending
  <2> QED BY <2>1, <2>2, <1>10 DEF PayMatch
<1>11. CASE PayBattle(s)
  <2> DEFINE lesson == LessonOf[Ref(s)]
  <2>1. lesson \in Refs
    BY <1>4, <1>11 DEF PayBattle, Refs
  <2>2. CASE Free("BATTLE_WIN", lesson)
    <3> DEFINE g == GoldOf[Ref(s)]
    <3>1. /\ Grant(s, "BATTLE_WIN", lesson, g) /\ profile' = Moved(s, g, 1)
          /\ IF Ref(s) \in Boss THEN Goes(s, "loot") ELSE Ends(s)
          /\ UNCHANGED <<skills, bar, items, chests, claimed, changes>>
      BY <2>2, <1>11 DEF PayBattle
    <3>2. g \in Int /\ ~(g < 0) /\ "BATTLE_WIN" \in Reasons
      BY <1>4, <1>5, <1>11 DEF PayBattle, Reasons
    <3> HIDE DEF g
    <3>3. \A x : Paid(x)' = IF x = "BATTLE_WIN" THEN Paid(x) \cup {lesson} ELSE Paid(x)
      BY <3>1, <3>2, <2>1, <1>8
    <3>4. GoodsArePaidFor' /\ ClaimedIsPaid' /\ ReplaysFollowClears'
      BY <3>1, <3>3, <1>9 DEF GoodsArePaidFor, ClaimedIsPaid, ReplaysFollowClears
    <3>5. Ledger!Balances \subseteq Ledger!Balances'
      BY <3>1, <3>2, <2>1, <1>2, Posting
    <3>6. CASE Ref(s) \in Boss
      <4>1. Ready(s)'
        BY <3>1, <3>3, <3>5, <3>6, <1>1, <1>2, <1>11, Going DEF Ready, PayBattle
      <4> QED BY <3>1, <3>2, <3>4, <3>6, <4>1, <2>1, <1>1, <1>7, Going
    <3>7. CASE Ref(s) \notin Boss
      BY <3>1, <3>2, <3>4, <3>7, <2>1, <1>1, <1>7, Ending
    <3> QED BY <3>6, <3>7
  <2>3. CASE ~Free("BATTLE_WIN", lesson) /\ Free("BATTLE_REPLAY", Ref(s))
    <3> DEFINE g == ReplayGold
    <3>1. /\ Grant(s, "BATTLE_REPLAY", Ref(s), g) /\ profile' = Moved(s, g, 1)
          /\ IF Ref(s) \in Boss THEN Goes(s, "loot") ELSE Ends(s)
          /\ UNCHANGED <<skills, bar, items, chests, claimed, changes>>
      BY <2>3, <1>11 DEF PayBattle
    <3>2. g \in Int /\ ~(g < 0) /\ "BATTLE_REPLAY" \in Reasons
      BY DEF Reasons
    <3> HIDE DEF g
    <3>3. \A x : Paid(x)' = IF x = "BATTLE_REPLAY" THEN Paid(x) \cup {Ref(s)} ELSE Paid(x)
      BY <3>1, <3>2, <1>3, <1>8
    <3>4. lesson \in Paid("BATTLE_WIN")
      BY <2>3 DEF Free, Paid, Entries
    <3>5. GoodsArePaidFor' /\ ClaimedIsPaid' /\ ReplaysFollowClears'
      BY <3>1, <3>3, <3>4, <1>9 DEF GoodsArePaidFor, ClaimedIsPaid, ReplaysFollowClears
    <3>6. Ledger!Balances \subseteq Ledger!Balances'
      BY <3>1, <3>2, <1>3, <1>2, Posting
    <3>7. CASE Ref(s) \in Boss
      <4>1. Ready(s)'
        BY <3>1, <3>3, <3>4, <3>6, <3>7, <1>1, <1>2, <1>11, Going DEF Ready, PayBattle
      <4> QED BY <3>1, <3>2, <3>5, <3>7, <4>1, <1>3, <1>1, <1>7, Going
    <3>8. CASE Ref(s) \notin Boss
      BY <3>1, <3>2, <3>5, <3>8, <1>3, <1>1, <1>7, Ending
    <3> QED BY <3>7, <3>8
  <2>4. CASE ~Free("BATTLE_WIN", lesson) /\ ~Free("BATTLE_REPLAY", Ref(s))
    <3>1. UNCHANGED <<profile, log, skills, bar, items, chests, claimed, changes>> /\ Ends(s)
      BY <2>4, <1>11 DEF PayBattle
    <3> QED BY <3>1, <1>6
  <2> QED BY <2>2, <2>3, <2>4
<1>12. CASE Buy(s)
  <2>1. CASE ~Free("ITEM_PURCHASE", Ref(s))
    BY <1>6, <1>12, <2>1 DEF Buy
  <2>2. CASE Free("ITEM_PURCHASE", Ref(s))
    <3> DEFINE g == -PriceOf[Ref(s)]
    <3>1. /\ Grant(s, "ITEM_PURCHASE", Ref(s), g) /\ profile' = Moved(s, g, 0) /\ Ends(s)
          /\ items' = items \cup {Ref(s)}
          /\ UNCHANGED <<skills, bar, chests, claimed, changes>>
      BY <2>2, <1>12 DEF Buy
    <3>2. g \in Int /\ Held(s).gold + g >= 0 /\ "ITEM_PURCHASE" \in Reasons /\ Ref(s) \in Items
      BY <1>1, <1>4, <1>12 DEF Buy, Reasons
    <3>3. \A x : Paid(x)' = IF x = "ITEM_PURCHASE" THEN Paid(x) \cup {Ref(s)} ELSE Paid(x)
      BY <3>1, <3>2, <1>3, <1>8
    <3>4. GoodsArePaidFor' /\ ClaimedIsPaid' /\ ReplaysFollowClears'
      BY <3>1, <3>3, <1>9 DEF GoodsArePaidFor, ClaimedIsPaid, ReplaysFollowClears
    <3> QED BY <3>1, <3>2, <3>4, <1>1, <1>3, <1>7, Ending
  <2> QED BY <2>1, <2>2, <1>12 DEF Buy
<1>13. CASE Unlock(s)
  <2> DEFINE g == -SkillOf[Ref(s)].price
  <2>1. Ref(s) \in Skills /\ SkillOf[Ref(s)].price \in Nat /\ Held(s).gold + g >= 0 /\ Starter \in skills
    BY <1>1, <1>4, <1>13 DEF Unlock
  <2>2. CASE Ref(s) \in skills
    BY <1>6, <1>13, <2>2 DEF Unlock
  <2>3. CASE Ref(s) \notin skills /\ SkillOf[Ref(s)].price > 0
    <3>1. /\ Grant(s, "SKILL_UNLOCK", Ref(s), g) /\ profile' = Moved(s, g, 0) /\ Ends(s)
          /\ skills' = skills \cup {Ref(s)}
          /\ UNCHANGED <<bar, items, chests, claimed, changes>>
      BY <2>3, <1>13 DEF Unlock
    <3>2. g \in Int /\ "SKILL_UNLOCK" \in Reasons
      BY <2>1 DEF Reasons
    <3>3. \A x : Paid(x)' = IF x = "SKILL_UNLOCK" THEN Paid(x) \cup {Ref(s)} ELSE Paid(x)
      BY <3>1, <3>2, <2>1, <1>3, <1>8
    <3>4. Ref(s) # Starter
      BY <2>1, <2>3
    <3>5. GoodsArePaidFor' /\ ClaimedIsPaid' /\ ReplaysFollowClears'
      BY <3>1, <3>3, <3>4, <2>3, <1>9 DEF GoodsArePaidFor, ClaimedIsPaid, ReplaysFollowClears
    <3> QED BY <3>1, <3>2, <3>5, <2>1, <1>1, <1>3, <1>7, Ending
  <2>4. CASE Ref(s) \notin skills /\ ~(SkillOf[Ref(s)].price > 0)
    <3>1. /\ Ends(s) /\ skills' = skills \cup {Ref(s)}
          /\ UNCHANGED <<profile, log, bar, items, chests, claimed, changes>>
      BY <2>4, <1>13 DEF Unlock
    <3>2. (\A x : Paid(x)' = Paid(x)) /\ Ledger!Balances' = Ledger!Balances
      BY <3>1 DEF Paid, Entries, Ledger!Balances
    <3>3. GoodsArePaidFor' /\ ClaimedIsPaid' /\ ReplaysFollowClears'
      BY <3>1, <3>2, <2>4, <1>9 DEF GoodsArePaidFor, ClaimedIsPaid, ReplaysFollowClears
    <3>4. WornIsOwned' /\ BalanceIsLast' /\ Ledger!PaidAtMostOnce'
      BY <3>1 DEF IInv, Account, WornIsOwned, BalanceIsLast, Ledger!PaidAtMostOnce
    <3>5. Account' /\ Accumulates
      BY <3>1, <3>2, <3>3, <3>4 DEF Account, Accumulates
    <3> QED BY <3>1, <3>5, <2>1, <1>1, Ending, OneMoves
  <2> QED BY <2>2, <2>3, <2>4
<1>14. CASE PayChange(s)
  <2> DEFINE g == -ClassPrice
             r == [session[s] EXCEPT !.at = "clear", !.held = profile']
  <2>1. /\ Grant(s, "CLASS_CHANGE", s, g) /\ profile' = Moved(s, g, 0)
        /\ session' = [session EXCEPT ![s].at = "clear", ![s].held = profile']
        /\ UNCHANGED <<skills, bar, items, chests, claimed, changes>>
    BY <1>14 DEF PayChange, Refreshed
  <2>2. g \in Int /\ Held(s).gold + g >= 0 /\ "CLASS_CHANGE" \in Reasons /\ s \in Refs
    BY <1>1, <1>4, <1>14 DEF PayChange, Reasons, Refs
  <2>3. \A x : x # "CLASS_CHANGE" => Paid(x)' = Paid(x)
    BY <2>1, <2>2, <1>8
  <2>4. GoodsArePaidFor' /\ ClaimedIsPaid' /\ ReplaysFollowClears'
    BY <2>1, <2>3, <1>9 DEF GoodsArePaidFor, ClaimedIsPaid, ReplaysFollowClears
  <2>5. profile' \in Profile /\ profile'.gold \in Ledger!Balances'
    BY <2>1, <2>2, <1>2, Posting
  <2>6. r \in Session /\ session' = [session EXCEPT ![s] = r] /\ session'[s] = r
    BY <2>1, <2>5, <1>1 DEF Session
  <2>7. r.at = "clear" /\ r.held = profile' /\ r.req = session[s].req
    BY <1>1 DEF Session
  <2>8. Ready(s)'
    <3>1. Held(s)' = profile' /\ Is(s, "class")' /\ session'[s].at = "clear"
          /\ session'[s].req \in Requests
      BY <2>6, <2>7, <1>2, <1>14 DEF Held, Is, PayChange
    <3>2. Starter \in skills'
      BY <2>1, <1>1, <1>2, <1>14 DEF Ready, PayChange, Is
    <3> QED BY <3>1, <3>2, <2>5 DEF Ready
  <2> HIDE DEF r
  <2> QED BY <2>1, <2>2, <2>4, <2>6, <2>8, <1>1, <1>7
<1>15. ASSUME NEW kind \in {"quest", "chest"},
              NEW reason \in {"DAILY_QUEST", "ACTIVITY_CHEST"}, PayClaim(s, kind, reason),
              reason = "DAILY_QUEST" => kind = "quest"
       PROVE  IInv' /\ (Ledger!LedgerNext \/ UNCHANGED <<profile.gold, log>>)
  <2>1. CASE ~Free(reason, Ref(s))
    BY <1>6, <1>15, <2>1 DEF PayClaim
  <2>2. CASE Free(reason, Ref(s))
    <3> DEFINE g == GoldOf[Ref(s)]
    <3>1. /\ Grant(s, reason, Ref(s), g) /\ profile' = Moved(s, g, 1) /\ Ends(s)
          /\ claimed' = claimed \cup {Ref(s)}
          /\ chests' \in {chests, chests \cup {Ref(s)}}
          /\ UNCHANGED <<skills, bar, items, changes>>
      BY <2>2, <1>15 DEF PayClaim
    <3>2. g \in Int /\ ~(g < 0) /\ reason \in Reasons /\ Ref(s) \in Payouts
      BY <1>4, <1>5, <1>15 DEF PayClaim, Reasons
    <3> HIDE DEF g
    <3>3. \A x : Paid(x)' = IF x = reason THEN Paid(x) \cup {Ref(s)} ELSE Paid(x)
      BY <3>1, <3>2, <1>3, <1>8
    <3>4. reason = "DAILY_QUEST" => Ref(s) \in QuestsDone
      BY <1>4, <1>15 DEF PayClaim
    <3>5. ClaimedIsPaid'
      BY <3>1, <3>3, <3>4, <1>9 DEF ClaimedIsPaid
    <3>6. GoodsArePaidFor' /\ ReplaysFollowClears'
      BY <3>1, <3>3, <1>9 DEF GoodsArePaidFor, ReplaysFollowClears
    <3> QED BY <3>1, <3>2, <3>5, <3>6, <1>1, <1>3, <1>7, Ending
  <2> QED BY <2>1, <2>2
<1>16. CASE ClaimQuest(s)
  BY <1>15, <1>16 DEF ClaimQuest
<1>17. CASE ClaimChest(s)
  BY <1>15, <1>17 DEF ClaimChest
<1> QED BY <1>10, <1>11, <1>12, <1>13, <1>14, <1>16, <1>17

-----------------------------------------------------------------------------
LEMMA Initially == Init => IInv
<1> SUFFICES ASSUME Init PROVE IInv
  OBVIOUS
<1>1. NoProfile \in Profile
  BY DEF NoProfile, Profile
<1>2. TypeOK
  <2>1. profile \in Profile
    BY <1>1 DEF Init, Profile, NoProfile
  <2>2. session \in [Sessions -> Session]
    BY <1>1 DEF Init, Session
  <2>3. log \in Seq([reason : Reasons, ref : Refs, amount : Int, after : Nat])
    BY DEF Init
  <2> QED BY <2>1, <2>2, <2>3 DEF Init, TypeOK
<1>3. \A x : Paid(x) = {}
  BY DEF Init, Paid, Entries
<1>4. profile.gold = Opening /\ profile.skin = None
  BY DEF Init, NoProfile
<1>5. Account
  BY <1>3, <1>4 DEF Init, Account, GoodsArePaidFor, ClaimedIsPaid, ReplaysFollowClears, WornIsOwned,
     BalanceIsLast, Ledger!PaidAtMostOnce
<1> QED BY <1>2, <1>5 DEF Init, IInv, Ready

LEMMA EveryStep ==
  ASSUME IInv, [Next]_vars
  PROVE  IInv' /\ (Ledger!LedgerNext \/ UNCHANGED <<profile.gold, log>>)
<1>1. CASE UNCHANGED vars
  <2>1. TypeOK' /\ \A s \in Sessions : Ready(s)'
    BY <1>1 DEF vars, IInv, TypeOK, Ready, Held, Ref, Is, Paid, Entries, Ledger!Balances
  <2>2. Account'
    BY <1>1 DEF vars, IInv, Account, GoodsArePaidFor, ClaimedIsPaid, ReplaysFollowClears, WornIsOwned,
       BalanceIsLast, Ledger!PaidAtMostOnce, Paid, Entries
  <2> QED BY <1>1, <2>1, <2>2 DEF IInv, vars
<1>2. ASSUME NEW s \in Sessions, Step(s)
      PROVE  IInv' /\ (Ledger!LedgerNext \/ UNCHANGED <<profile.gold, log>>)
  BY <1>2, ReadingSteps, ProfileSteps, LootStep, PostingSteps DEF Step
<1> QED BY <1>1, <1>2 DEF Next

LEMMA Kept == Spec => []IInv
<1>1. IInv /\ [Next]_vars => IInv'
  BY EveryStep
<1> QED BY <1>1, Initially, PTL DEF Spec

(* Every variable keeps its type: balances never go below zero.             *)
THEOREM TypesKept == Spec => []TypeOK
<1>1. IInv => TypeOK
  BY DEF IInv, Account
<1> QED BY <1>1, Kept, PTL

(* What the shop and the skill tree handed out is what was paid for.        *)
THEOREM PurchasesPaid == Spec => []GoodsArePaidFor
<1>1. IInv => GoodsArePaidFor
  BY DEF IInv, Account
<1> QED BY <1>1, Kept, PTL

(* Claims are marked exactly when paid, and only finished quests pay.       *)
THEOREM ClaimsPaid == Spec => []ClaimedIsPaid
<1>1. IInv => ClaimedIsPaid
  BY DEF IInv, Account
<1> QED BY <1>1, Kept, PTL

(* Replays and boss chests follow the first clear of their lesson.          *)
THEOREM ReplaysLate == Spec => []ReplaysFollowClears
<1>1. IInv => ReplaysFollowClears
  BY DEF IInv, Account
<1> QED BY <1>1, Kept, PTL

(* The balance is what the last row that moved it left.                     *)
THEOREM LastRowStands == Spec => []BalanceIsLast
<1>1. IInv => BalanceIsLast
  BY DEF IInv, Account
<1> QED BY <1>1, Kept, PTL

(* Skills on the bar and the skin on show are owned.                        *)
THEOREM WearingOwned == Spec => []WornIsOwned
<1>1. IInv => WornIsOwned
  BY DEF IInv, Account
<1> QED BY <1>1, Kept, PTL

(* No payment is recorded twice, whatever is retried or doubled.            *)
THEOREM NoPaymentTwice == Spec => []Ledger!PaidAtMostOnce
<1>1. IInv => Ledger!PaidAtMostOnce
  BY DEF IInv, Account
<1> QED BY <1>1, Kept, PTL

(* All the requests together implement the gold ledger.                      *)
THEOREM WalletImplementsLedger == Spec => LedgerKept
<1>1. Init => Ledger!LedgerInit
  BY DEF Init, NoProfile, Ledger!LedgerInit
<1>2. IInv /\ [Next]_vars => IInv' /\ [Ledger!LedgerNext]_<<profile.gold, log>>
  BY EveryStep
<1> QED BY <1>1, <1>2, Initially, PTL DEF Spec, LedgerKept, Ledger!LedgerSpec
-----------------------------------------------------------------------------
(* Class changes.  A change that is paid for and not yet made has its row    *)
(* and its session between the charge and the switch; the rows of the others *)
(* are settled, and there are at least as many of them as changes.           *)
Changing == {"clear", "switch"}
Changes  == Entries("CLASS_CHANGE")
Settled  == {i \in Changes : log[i].ref \in Sessions => session[log[i].ref].at \notin Changing}
Pending(s) == \E i \in Changes : log[i].ref = s

ChangeInv == /\ TypeOK
             /\ \A s \in Sessions : session[s].at \in Changing => Pending(s)
             /\ changes <= Cardinality(Settled)

LEMMA ChangesAreFinite ==
  ASSUME TypeOK
  PROVE  IsFiniteSet(Changes) /\ IsFiniteSet(Settled) /\ Settled \subseteq Changes
         /\ Cardinality(Changes) \in Nat /\ Cardinality(Settled) \in Nat
<1>1. Changes \subseteq 1..Len(log) /\ Len(log) \in Nat
  BY DEF TypeOK, Changes, Entries
<1>2. IsFiniteSet(Changes)
  <2>1. 1 \in Int /\ Len(log) \in Int
    BY <1>1
  <2>2. IsFiniteSet(1..Len(log))
    BY <2>1, FS_Interval
  <2> QED BY <1>1, <2>2, FS_Subset
<1>3. Settled \subseteq Changes
  BY DEF Settled
<1> QED BY <1>2, <1>3, FS_Subset, FS_CardinalityType

(* A row of any form at the end of the trail.                                *)
LEMMA AppendedTo ==
  ASSUME NEW S, NEW q \in Seq(S), NEW e
  PROVE  /\ DOMAIN Append(q, e) = 1..(Len(q) + 1)
         /\ Append(q, e)[Len(q) + 1] = e
         /\ \A i \in 1..Len(q) : Append(q, e)[i] = q[i]
<1> DEFINE T == S \cup {e}
<1>1. q \in [1..Len(q) -> S] /\ Len(q) \in Nat
  OBVIOUS
<1>2. q \in [1..Len(q) -> T]
  BY <1>1
<1>3. q \in Seq(T) /\ e \in T
  BY <1>1, <1>2
<1> HIDE DEF T
<1> QED BY <1>3, AppendProperties

(* What a step may do to the trail of class changes.                         *)
LEMMA StepShape ==
  ASSUME TypeOK, NEW s \in Sessions, Step(s)
  PROVE  /\ \A i \in DOMAIN log : i \in DOMAIN log' /\ log'[i] = log[i]
         /\ \A t \in Sessions : t # s => session'[t] = session[t]
         /\ session'[s].at \in Changing =>
              \/ session[s].at \in Changing
              \/ /\ Free("CLASS_CHANGE", s)
                 /\ \E i \in DOMAIN log' : log'[i].reason = "CLASS_CHANGE" /\ log'[i].ref = s
         /\ \/ changes' = changes
            \/ changes' = changes + 1 /\ session[s].at = "switch" /\ session'[s].at = "done"
<1> DEFINE Kept1 == \A i \in DOMAIN log : i \in DOMAIN log' /\ log'[i] = log[i]
           Kept2 == \A t \in Sessions : t # s => session'[t] = session[t]
<1>1. ASSUME NEW reason, NEW ref, NEW amount, Grant(s, reason, ref, amount)
      PROVE  /\ Kept1 /\ Free(reason, ref)
             /\ \E i \in DOMAIN log' : log'[i].reason = reason /\ log'[i].ref = ref
  <2> DEFINE e == [reason |-> reason, ref |-> ref, amount |-> amount, after |-> After(s, amount)]
  <2>1. log' = Append(log, e) /\ Free(reason, ref)
    BY <1>1 DEF Grant
  <2>2. e.reason = reason /\ e.ref = ref
    OBVIOUS
  <2> HIDE DEF e
  <2>3. Len(log) \in Nat /\ DOMAIN log = 1..Len(log)
    BY DEF TypeOK
  <2>4. /\ DOMAIN log' = 1..(Len(log) + 1) /\ log'[Len(log) + 1] = e
        /\ \A i \in 1..Len(log) : log'[i] = log[i]
    <3>1. log \in Seq(Row)
      BY DEF TypeOK, Row
    <3> QED BY <2>1, <2>3, <3>1, AppendedTo
  <2>5. Kept1
    BY <2>3, <2>4
  <2>6. Len(log) + 1 \in DOMAIN log' /\ log'[Len(log) + 1] = e
    BY <2>3, <2>4
  <2>7. \E i \in DOMAIN log' : log'[i].reason = reason /\ log'[i].ref = ref
    <3>1. log'[Len(log) + 1].reason = reason /\ log'[Len(log) + 1].ref = ref
      BY <2>2, <2>6, Zenon
    <3> HIDE DEF Kept1
    <3> QED BY <2>6, <3>1, Zenon
  <2>8. Free(reason, ref)
    BY <2>1
  <2> HIDE DEF Kept1
  <2> QED BY <2>5, <2>7, <2>8, Zenon
<1>2. UNCHANGED log => Kept1
  OBVIOUS
<1>3. ASSUME NEW p \in {"grant", "equip", "fill", "check", "lock", "commit", "switch", "loot"}, Goes(s, p)
      PROVE  Kept2 /\ session'[s].at = p
  BY <1>3 DEF Goes, TypeOK, Session
<1>4. Ends(s) => Kept2 /\ session'[s].at = "done"
  BY DEF Ends, TypeOK, Session
<1>5. CASE (\E r \in Requests : Arrive(s, r)) \/ LockClaim(s)
  <2>1. Kept2 /\ session'[s].at \notin Changing /\ UNCHANGED <<log, changes>>
    BY <1>5, <1>4 DEF Arrive, LockClaim, TypeOK, Session, Changing
  <2> QED BY <2>1, <1>2
<1>6. CASE LookForStarter(s) \/ GrantStarter(s) \/ LookAtBar(s) \/ FillBar(s) \/ Check(s)
           \/ SetBar(s) \/ Vanish(s) \/ WearSkin(s) \/ ChooseFirst(s) \/ TakeLoot(s)
  <2>1. Kept2 /\ session'[s].at \notin Changing /\ UNCHANGED <<log, changes>>
    BY <1>6, <1>3, <1>4 DEF LookForStarter, GrantStarter, LookAtBar, FillBar, Check, SetBar, Vanish,
       WearSkin, ChooseFirst, TakeLoot, Changing
  <2> QED BY <2>1, <1>2
<1>7. CASE PayMatch(s) \/ PayBattle(s) \/ Buy(s) \/ Unlock(s) \/ ClaimQuest(s) \/ ClaimChest(s)
  <2>1. Kept2 /\ session'[s].at \notin Changing /\ UNCHANGED changes
    BY <1>7, <1>3, <1>4 DEF PayMatch, PayBattle, Buy, Unlock, ClaimQuest, ClaimChest, PayClaim, Changing
  <2>2. Kept1
    BY <1>7, <1>1, <1>2 DEF PayMatch, PayBattle, Buy, Unlock, ClaimQuest, ClaimChest, PayClaim
  <2> QED BY <2>1, <2>2
<1>8. CASE PayChange(s)
  <2>1. Kept2 /\ UNCHANGED changes
    BY <1>8 DEF PayChange, Refreshed, TypeOK, Session
  <2> QED BY <2>1, <1>8, <1>1 DEF PayChange
<1>9. CASE ClearBar(s)
  <2>1. Kept2 /\ UNCHANGED <<log, changes>> /\ session[s].at \in Changing
    BY <1>9, <1>3 DEF ClearBar, Changing, At
  <2> QED BY <2>1, <1>2
<1>10. CASE Switch(s)
  <2>1. Kept2 /\ UNCHANGED log /\ changes' = changes + 1
        /\ session[s].at = "switch" /\ session'[s].at = "done"
    BY <1>10, <1>4 DEF Switch, At
  <2> QED BY <2>1, <1>2 DEF Changing
<1> QED BY <1>5, <1>6, <1>7, <1>8, <1>9, <1>10 DEF Step

LEMMA ChangeStep ==
  ASSUME ChangeInv, TypeOK', [Next]_vars
  PROVE  ChangeInv'
<1>1. CASE UNCHANGED vars
  BY <1>1 DEF vars, ChangeInv, Pending, Changes, Settled, Entries
<1>2. ASSUME NEW s \in Sessions, Step(s)
      PROVE  ChangeInv'
  <2>1. /\ \A i \in DOMAIN log : i \in DOMAIN log' /\ log'[i] = log[i]
        /\ \A t \in Sessions : t # s => session'[t] = session[t]
        /\ session'[s].at \in Changing =>
             \/ session[s].at \in Changing
             \/ /\ Free("CLASS_CHANGE", s)
                /\ \E i \in DOMAIN log' : log'[i].reason = "CLASS_CHANGE" /\ log'[i].ref = s
        /\ \/ changes' = changes
           \/ changes' = changes + 1 /\ session[s].at = "switch" /\ session'[s].at = "done"
    BY <1>2, StepShape DEF ChangeInv
  <2>2. ASSUME NEW t \in Sessions, session'[t].at \in Changing
        PROVE  Pending(t)'
    BY <2>1, <2>2 DEF ChangeInv, Pending, Changes, Entries
  <2>3. Settled \subseteq Settled'
    <3> SUFFICES ASSUME NEW i \in Settled
                 PROVE  i \in Settled'
      OBVIOUS
    <3>1. i \in Changes' /\ log'[i] = log[i] /\ i \in DOMAIN log /\ log[i].reason = "CLASS_CHANGE"
      BY <2>1 DEF Settled, Changes, Entries
    <3>2. log[i].ref \in Sessions => session[log[i].ref].at \notin Changing
      BY DEF Settled
    <3>3. CASE log[i].ref = s
      BY <2>1, <3>1, <3>2, <3>3 DEF Settled, Free, Changing
    <3>4. CASE log[i].ref # s
      BY <2>1, <3>1, <3>2, <3>4 DEF Settled, Changing
    <3> QED BY <3>3, <3>4
  <2>4. /\ IsFiniteSet(Settled) /\ Cardinality(Settled) \in Nat
        /\ IsFiniteSet(Settled') /\ Cardinality(Settled') \in Nat
    <3>1. IsFiniteSet(Settled) /\ Cardinality(Settled) \in Nat
      BY ChangesAreFinite DEF ChangeInv
    <3>2. (IsFiniteSet(Settled) /\ Cardinality(Settled) \in Nat)'
      BY ChangesAreFinite, PTL
    <3> QED BY <3>1, <3>2
  <2>5. changes' <= Cardinality(Settled')
    <3>1. CASE changes' = changes
      <4>1. Cardinality(Settled) <= Cardinality(Settled')
        BY <2>3, <2>4, FS_Subset
      <4> QED BY <3>1, <4>1, <2>4 DEF ChangeInv, TypeOK
    <3>2. CASE changes' = changes + 1 /\ session[s].at = "switch" /\ session'[s].at = "done"
      <4>1. PICK i \in Changes : log[i].ref = s
        BY <3>2 DEF ChangeInv, Pending, Changing
      <4>2. i \notin Settled /\ i \in Settled'
        BY <4>1, <3>2, <2>1 DEF Settled, Changing, Changes, Entries
      <4>3. Cardinality(Settled \cup {i}) = Cardinality(Settled) + 1 /\ IsFiniteSet(Settled \cup {i})
        BY <4>2, <2>4, FS_AddElement
      <4>4. Cardinality(Settled \cup {i}) <= Cardinality(Settled')
        BY <4>2, <2>3, <2>4, FS_Subset
      <4> QED BY <3>2, <4>3, <4>4, <2>4 DEF ChangeInv, TypeOK
    <3> QED BY <2>1, <3>1, <3>2
  <2> QED BY <2>2, <2>5 DEF ChangeInv
<1> QED BY <1>1, <1>2 DEF Next

(* A class never changes without a charge, whatever the three commits of a  *)
(* change are interleaved with.                                             *)
THEOREM ChangesPaid == Spec => []ClassChangesArePaid
<1>1. Init => ChangeInv
  <2> SUFFICES ASSUME Init PROVE ChangeInv
    OBVIOUS
  <2>1. TypeOK
    BY Initially DEF IInv
  <2>2. changes = 0 /\ \A s \in Sessions : session[s].at \notin Changing
    BY DEF Init, Changing
  <2> QED BY <2>1, <2>2, ChangesAreFinite DEF ChangeInv
<1>2. IInv => TypeOK
  BY DEF IInv
<1>3. ChangeInv /\ TypeOK' /\ [Next]_vars => ChangeInv'
  BY ChangeStep
<1>4. ChangeInv => ClassChangesArePaid
  <2> SUFFICES ASSUME ChangeInv PROVE ClassChangesArePaid
    OBVIOUS
  <2>1. /\ IsFiniteSet(Changes) /\ Settled \subseteq Changes
        /\ Cardinality(Changes) \in Nat /\ Cardinality(Settled) \in Nat
    BY ChangesAreFinite DEF ChangeInv
  <2>2. Cardinality(Settled) <= Cardinality(Changes)
    BY <2>1, FS_Subset
  <2> QED BY <2>1, <2>2 DEF ChangeInv, ClassChangesArePaid, Changes, TypeOK
<1> QED BY <1>1, <1>2, <1>3, <1>4, Kept, PTL DEF Spec

(* The balance is always one that the trail names.                           *)
THEOREM BalanceRecorded == Spec => []Ledger!BalanceIsOnRecord
<1>1. IInv => Ledger!BalanceIsOnRecord
  BY DEF IInv, Account, BalanceIsLast, Ledger!BalanceIsOnRecord, Ledger!Balances
<1> QED BY <1>1, Kept, PTL
=============================================================================
