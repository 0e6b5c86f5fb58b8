--------------------------- MODULE Notifications ---------------------------
(***************************************************************************)
(* Scheduled pushes through one evening                                    *)
(* (services/notification/notification_service.py, push_sender.py, the     *)
(* device and dispatch repositories, and send_scheduled_pushes of          *)
(* services/duo/housekeeping.py).  A sweep looks for recipients of each    *)
(* kind in turn, claims them, sends, and switches dead devices off; a      *)
(* sweep that dies is followed by another, in this process or the next.    *)
(***************************************************************************)
EXTENDS Integers, FiniteSets

CONSTANTS Users, Devices,  \* FCM registration tokens
          Processes,       \* at most one sweep runs in each
          Batch,           \* RECIPIENTS_PER_SWEEP
          Kinds,           \* bound: the kinds whose hour comes tonight
          None

NotificationsAssumption == Batch \in Nat \ {0} /\ None \notin Users

VARIABLES device,      \* user_device_tokens: who holds it, and whether it is active
          dead,        \* external: devices FCM has given up on
          due,         \* the kinds whose hour has come
          studied,     \* who has studied today
          left,        \* who has quests or chests left today
          dispatched,  \* notification_dispatches of today: <<user, kind>>
          sweep,       \* what every process does
          sent         \* history: how often a user was sent a kind

vars == <<device, dead, due, studied, left, dispatched, sweep, sent>>

\* In the order of send_scheduled_pushes.
NotificationKind == {"STREAK_REMINDER", "QUEST_REMINDER", "SEASON_STARTED"}
Following == [STREAK_REMINDER |-> "QUEST_REMINDER", QUEST_REMINDER |-> "SEASON_STARTED",
              SEASON_STARTED |-> "idle"]

UserDeviceToken == [user : Users \cup {None}, is_active : BOOLEAN]
Sweep == [at : {"idle", "pending", "claiming", "reading", "sending", "deactivating"},
          kind : NotificationKind, users : SUBSET Users, tokens : SUBSET (Devices \X Users)]

TypeOK == /\ device \in [Devices -> UserDeviceToken] /\ dead \in SUBSET Devices
          /\ due \in SUBSET NotificationKind
          /\ studied \in SUBSET Users /\ left \in SUBSET Users
          /\ dispatched \in SUBSET (Users \X NotificationKind)
          /\ sweep \in [Processes -> Sweep]
          /\ sent \in [Users \X NotificationKind -> Nat]

Rest == [at |-> "idle", kind |-> "STREAK_REMINDER", users |-> {}, tokens |-> {}]

Init == /\ device = [d \in Devices |-> [user |-> None, is_active |-> FALSE]]
        /\ dead = {} /\ due = {} /\ studied = {} /\ left = {} /\ dispatched = {}
        /\ sweep = [p \in Processes |-> Rest]
        /\ sent = [x \in Users \X NotificationKind |-> 0]

day == <<due, studied, left>>

-----------------------------------------------------------------------------
(* Devices, and the day going by.                                           *)

\* upsert: a second account that signs in on the phone takes the token over.
register_device(u, d) ==
  /\ d \notin dead
  /\ device' = [device EXCEPT ![d] = [user |-> u, is_active |-> TRUE]]
  /\ UNCHANGED <<dead, day, dispatched, sweep, sent>>

unregister_device(u, d) ==
  /\ device[d].user = u
  /\ device' = [device EXCEPT ![d] = [user |-> None, is_active |-> FALSE]]
  /\ UNCHANGED <<dead, day, dispatched, sweep, sent>>

Uninstalled(d) == /\ device[d].user # None /\ d \notin dead
                  /\ dead' = dead \cup {d}
                  /\ UNCHANGED <<device, day, dispatched, sweep, sent>>

HourComes(k) == /\ k \in Kinds \ due
                /\ due' = due \cup {k}
                /\ UNCHANGED <<device, dead, studied, left, dispatched, sweep, sent>>

Studies(u, done) == /\ done => u \in studied
                    /\ studied' = studied \cup {u}
                    /\ left' = IF done THEN left \ {u} ELSE left \cup {u}
                    /\ <<studied', left'>> # <<studied, left>>
                    /\ UNCHANGED <<device, dead, due, dispatched, sweep, sent>>

-----------------------------------------------------------------------------
(* The sweep.                                                               *)

Becomes(p, state) == sweep' = [sweep EXCEPT ![p] = state]
NextKind(p) == Becomes(p, IF Following[sweep[p].kind] = "idle" THEN Rest
                          ELSE [Rest EXCEPT !.at = "pending", !.kind = Following[sweep[p].kind]])

send_scheduled_pushes(p) ==
  /\ sweep[p].at = "idle" /\ due # {}
  /\ Becomes(p, [Rest EXCEPT !.at = "pending"])
  /\ UNCHANGED <<device, dead, day, dispatched, sent>>

HasLiveDevice(u) == \E d \in Devices : device[d] = [user |-> u, is_active |-> TRUE]

\* `not_active_on' for the streak; studied, with something left, for the quests.
Wanted(u, k) == CASE k = "STREAK_REMINDER" -> u \notin studied
                  [] k = "QUEST_REMINDER"  -> u \in studied \cap left
                  [] k = "SEASON_STARTED"  -> TRUE

Pending(k) == {u \in Users : HasLiveDevice(u) /\ Wanted(u, k) /\ <<u, k>> \notin dispatched}

pending_recipients(p) ==
  LET k == sweep[p].kind IN
  /\ sweep[p].at = "pending"
  /\ IF k \notin due \/ Pending(k) = {} THEN NextKind(p)
     ELSE \E some \in SUBSET Pending(k) :
            /\ Cardinality(some) = IF Cardinality(Pending(k)) < Batch THEN Cardinality(Pending(k))
                                   ELSE Batch
            /\ Becomes(p, [sweep[p] EXCEPT !.at = "claiming", !.users = some])
  /\ UNCHANGED <<device, dead, day, dispatched, sent>>

\* Mutant: whoever was found is sent to, claimed by another or not.
claim_all(p) ==
  LET me == sweep[p] IN
  /\ me.at = "claiming"
  /\ dispatched' = dispatched \cup (me.users \X {me.kind})
  /\ Becomes(p, [me EXCEPT !.at = "reading"])
  /\ UNCHANGED <<device, dead, day, sent>>

\* Inserted where the unique constraint lets it; the rest is another's.
claim(p) ==
  LET me == sweep[p] IN
  /\ me.at = "claiming"
  /\ dispatched' = dispatched \cup (me.users \X {me.kind})
  /\ Becomes(p, [me EXCEPT !.at = "reading",
                           !.users = {u \in @ : <<u, me.kind>> \notin dispatched}])
  /\ UNCHANGED <<device, dead, day, sent>>

active_tokens_by_user(p) ==
  LET me == sweep[p] IN
  /\ me.at = "reading"
  /\ Becomes(p, [me EXCEPT !.at = "sending", !.tokens =
       {<<d, device[d].user>> : d \in {e \in Devices : device[e].is_active
                                                       /\ device[e].user \in me.users}}])
  /\ UNCHANGED <<device, dead, day, dispatched, sent>>

\* is_dead_token_error, of the devices a batch went to.
refused(tokens) == {x[1] : x \in tokens} \cap dead

\* One request for every distinct wording: a batch that raises is logged, not sent
\* again, and says nothing of its devices.
send(p) ==
  LET me == sweep[p] IN
  /\ me.at = "sending"
  /\ \E told \in SUBSET {x[2] : x \in me.tokens} :
       /\ sent' = [x \in DOMAIN sent |-> IF x[1] \in told /\ x[2] = me.kind THEN sent[x] + 1
                                         ELSE sent[x]]
       /\ Becomes(p, [me EXCEPT !.at = "deactivating", !.users = {},
                                !.tokens = {x \in @ : x[2] \in told}])
  /\ UNCHANGED <<device, dead, day, dispatched>>

deactivate(p) ==
  /\ sweep[p].at = "deactivating"
  /\ device' = [d \in Devices |-> IF d \in refused(sweep[p].tokens)
                                  THEN [device[d] EXCEPT !.is_active = FALSE] ELSE device[d]]
  /\ NextKind(p)
  /\ UNCHANGED <<dead, day, dispatched, sent>>

\* The database or the process fails: the next sweep starts afresh.
SweepDies(p) == /\ sweep[p].at # "idle"
                /\ Becomes(p, Rest)
                /\ UNCHANGED <<device, dead, day, dispatched, sent>>

Next == \/ \E u \in Users, d \in Devices : register_device(u, d) \/ unregister_device(u, d)
        \/ \E d \in Devices : Uninstalled(d)
        \/ \E k \in NotificationKind : HourComes(k)
        \/ \E u \in Users, done \in BOOLEAN : Studies(u, done)
        \/ \E p \in Processes :
             \/ send_scheduled_pushes(p) \/ pending_recipients(p) \/ claim(p)
             \/ active_tokens_by_user(p) \/ send(p) \/ deactivate(p) \/ SweepDies(p)

Spec == Init /\ [][Next]_vars

-----------------------------------------------------------------------------
(* "Nobody gets the same occasion twice", whichever sweeps overlap or die,  *)
(* and a device is only switched off once it is dead: one that is alive,    *)
(* moved to another account or not, keeps getting pushes.                   *)
SentOnce == /\ \A x \in DOMAIN sent : sent[x] <= 1
            /\ \A d \in Devices : device[d].user # None /\ d \notin dead => device[d].is_active

=============================================================================
