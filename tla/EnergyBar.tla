----------------------------- MODULE EnergyBar -----------------------------
(***************************************************************************)
(* services/game/energy.py: the bar as it is stored, two numbers read      *)
(* against the clock.  Nothing runs in the background; a write stores what *)
(* `regenerate` makes of the time that passed.                             *)
(***************************************************************************)
EXTENDS Integers

CONSTANTS MAX_ENERGY, REGEN_INTERVAL, MATCH_COST, REVIEW_REFILL,
          MaxSkew,   \* bound: how far ahead another process's clock may be
          MaxTime    \* bound: the last instant

EnergyAssumption == /\ {MAX_ENERGY, REGEN_INTERVAL} \subseteq Nat \ {0}
                    /\ {MATCH_COST, REVIEW_REFILL, MaxSkew, MaxTime} \subseteq Nat

VARIABLES stored,      \* UserGameProfile.energy
          updated_at,  \* UserGameProfile.energy_updated_at
          now          \* the clock

vars == <<stored, updated_at, now>>

Lower(a, b) == IF a < b THEN a ELSE b

\* Mutant: the stamp moves to the reading, so the rest of an interval is lost.
regenerate_forgetting(s, stamp, t) ==
  LET ticks == (t - stamp) \div REGEN_INTERVAL
      full  == s >= MAX_ENERGY \/ (ticks > 0 /\ s + ticks >= MAX_ENERGY)
  IN [energy |-> IF full THEN MAX_ENERGY ELSE IF ticks > 0 THEN s + ticks ELSE s,
      stamp  |-> IF full \/ ticks > 0 THEN t ELSE stamp]

\* The energy accrued by `t` and the stamp to store with it.
regenerate(s, stamp, t) ==
  LET elapsed == t - stamp
      gained  == Lower(elapsed \div REGEN_INTERVAL, MAX_ENERGY - s)
  IN
  IF s >= MAX_ENERGY \/ (elapsed >= REGEN_INTERVAL /\ s + gained >= MAX_ENERGY)
  THEN [energy |-> MAX_ENERGY, stamp |-> t]
  ELSE IF elapsed < REGEN_INTERVAL THEN [energy |-> s, stamp |-> stamp]
  ELSE [energy |-> s + gained, stamp |-> stamp + REGEN_INTERVAL * gained]

current_energy(s, stamp, t) == regenerate(s, stamp, t).energy

\* When the next point arrives; -1 for a full bar.
next_regen_at(s, stamp, t) ==
  LET bar == regenerate(s, stamp, t) IN
  IF bar.energy >= MAX_ENERGY THEN -1 ELSE bar.stamp + REGEN_INTERVAL

Spendable(s, stamp, t, amount) == current_energy(s, stamp, t) >= amount

spend(s, stamp, t, amount) ==
  LET bar == regenerate(s, stamp, t) IN
  [energy |-> bar.energy - amount,
   stamp |-> IF bar.energy >= MAX_ENERGY THEN t ELSE bar.stamp]

refill(s, stamp, t, amount) ==
  LET bar == regenerate(s, stamp, t)
      restored == Lower(MAX_ENERGY, bar.energy + amount)
  IN [energy |-> restored, stamp |-> IF restored >= MAX_ENERGY THEN t ELSE bar.stamp]

-----------------------------------------------------------------------------
\* get_or_create gives a full bar; an older row may hold anything, written by
\* a clock that ran ahead.
Init ==
  /\ now = 0
  /\ stored \in 0..MAX_ENERGY
  /\ updated_at \in (1 - REGEN_INTERVAL)..MaxSkew

Save(bar) == stored' = bar.energy /\ updated_at' = bar.stamp

Pass == now < MaxTime /\ now' = now + 1 /\ UNCHANGED <<stored, updated_at>>

\* EnergyService.spend_for_match, after who_is_out_of_energy found enough.
SpendForMatch ==
  /\ Spendable(stored, updated_at, now, MATCH_COST)
  /\ Save(spend(stored, updated_at, now, MATCH_COST))
  /\ UNCHANGED now

\* refund_match gives a match's cost back, grant_for_lesson a lesson's refill.
Grant(amount) ==
  /\ Save(refill(stored, updated_at, now, amount))
  /\ UNCHANGED now

Next == Pass \/ SpendForMatch \/ Grant(MATCH_COST) \/ Grant(REVIEW_REFILL)

Spec == Init /\ [][Next]_vars

TypeOK == stored \in 0..MAX_ENERGY /\ updated_at \in Int /\ now \in 0..MaxTime

-----------------------------------------------------------------------------
Read == regenerate(stored, updated_at, now)

Eager == INSTANCE EagerEnergy WITH
  Full <- MAX_ENERGY, Interval <- REGEN_INTERVAL, Cost <- MATCH_COST, Grants <- {MATCH_COST, REVIEW_REFILL},
  energy <- Read.energy, waited <- IF Read.energy = MAX_ENERGY THEN 0 ELSE now - Read.stamp

(* The lazy bar is the eager one: no reading, spending or refill loses part *)
(* of an interval or counts it twice.                                       *)
LazyIsEager == Eager!Spec

(* The time promised for the next point is the first one that brings it.    *)
PromiseIsKept ==
  LET at == next_regen_at(stored, updated_at, now) IN
  at # -1 => /\ current_energy(stored, updated_at, at) = Read.energy + 1
             /\ at = now + 1 \/ current_energy(stored, updated_at, at - 1) = Read.energy
=============================================================================
