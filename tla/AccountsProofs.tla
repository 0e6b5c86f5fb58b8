--------------------------- MODULE AccountsProofs ---------------------------
(***************************************************************************)
(* What stands around the game keeps its promises, for any number of       *)
(* requests, tokens, files, users, devices, processes and options, beside  *)
(* one another: sign-ins, avatars, pushes, the admin's edits, the quizzes  *)
(* drawn from any bank, the rate limits, and the order of the learn path   *)
(* with any opening and any deck.  The energy bar computed on reading      *)
(* implements the one that refills by the clock.                           *)
(*                                                                         *)
(* Each service has an inductive invariant of its own; they share no       *)
(* variable, so their conjunction SideInv is kept by every step.           *)
(***************************************************************************)
EXTENDS MCAccounts, Sequences, FiniteSetTheorems, TLAPS

-----------------------------------------------------------------------------
(* One account's avatar.                                                    *)

\* A stored file that no row names yet is nobody's previous one, and what is
\* being deleted is not what the row names.
PictureInv ==
  /\ Pictures!TypeOK
  /\ Pictures!AvatarIsStored
  /\ \A r \in Requests : change[r].at = "replacing" =>
       /\ change[r].file \in files /\ change[r].file # avatar_file_id
       /\ \A s \in Requests : change[s].previous # change[r].file
       /\ \A s \in Requests \ {r} : change[s].at = "replacing" => change[s].file # change[r].file
  /\ \A r \in Requests : change[r].at = "deleting" /\ avatar_file_id # None =>
       change[r].previous # avatar_file_id

(* The first state is one, and every step leads to another.                 *)
LEMMA PictureStart ==
  ASSUME Pictures!Init
  PROVE  PictureInv
<1>1. /\ Pictures!Idle \in Pictures!Change /\ Pictures!Idle.at = "idle"
  BY DEF Pictures!Idle, Pictures!Change
<1> QED BY <1>1 DEF Pictures!Init, Pictures!TypeOK, Pictures!AvatarIsStored, PictureInv

LEMMA PictureStep ==
  ASSUME PictureInv, [Pictures!Next]_(Pictures!vars)
  PROVE  PictureInv'
<1> USE DEF PictureInv
<1>1. None \notin Files
  BY AccountsAssumption DEF Pictures!AvatarsAssumption
<1>2. /\ change \in [Requests -> Pictures!Change] /\ files \in SUBSET Files
      /\ avatar_file_id \in Files \cup {None}
  BY DEF Pictures!TypeOK
<1>3. /\ Pictures!Idle \in Pictures!Change /\ Pictures!Idle.at = "idle"
      /\ Pictures!Idle.previous = None /\ Pictures!Idle.file = None
  BY DEF Pictures!Idle, Pictures!Change
<1>4. ASSUME NEW r \in Requests, NEW x, Pictures!Becomes(r, x)
      PROVE  \A s \in Requests : change'[s] = IF s = r THEN x ELSE change[s]
  BY <1>2, <1>4 DEF Pictures!Becomes
<1>5. ASSUME NEW r \in Requests, NEW x \in Pictures!Change, Pictures!Becomes(r, x)
      PROVE  change' \in [Requests -> Pictures!Change]
  BY <1>2, <1>5 DEF Pictures!Becomes
<1>6. CASE UNCHANGED Pictures!vars
  BY <1>6 DEF Pictures!vars, Pictures!TypeOK, Pictures!AvatarIsStored
<1>7. ASSUME NEW r \in Requests, Pictures!validate_avatar(r) PROVE PictureInv'
  <2> DEFINE x == [Pictures!Idle EXCEPT !.at = "uploading", !.previous = avatar_file_id]
  <2>1. x \in Pictures!Change /\ x.at = "uploading" /\ x.previous = avatar_file_id
    BY <1>2, <1>3 DEF Pictures!Change
  <2>2. Pictures!Becomes(r, x) /\ avatar_file_id' = avatar_file_id /\ files' = files
    BY <1>7 DEF Pictures!validate_avatar
  <2> HIDE DEF x
  <2> QED BY <1>2, <1>4, <1>5, <2>1, <2>2 DEF Pictures!TypeOK, Pictures!AvatarIsStored
<1>8. ASSUME NEW r \in Requests, Pictures!upload(r) PROVE PictureInv'
  <2>1. PICK f \in Pictures!New :
          /\ files' = files \cup {f} /\ avatar_file_id' = avatar_file_id
          /\ Pictures!Becomes(r, [change[r] EXCEPT !.at = "replacing", !.file = f])
    BY <1>8 DEF Pictures!upload
  <2>2. f \in Files /\ f \notin files /\ f # avatar_file_id /\ f # None
    BY <1>1, <2>1 DEF Pictures!New, Pictures!Named
  <2>3. \A s \in Requests : f # change[s].previous /\ f # change[s].file
    BY <2>1 DEF Pictures!New, Pictures!Named
  <2> DEFINE x == [change[r] EXCEPT !.at = "replacing", !.file = f]
  <2>4. /\ x \in Pictures!Change /\ x.at = "replacing" /\ x.file = f
        /\ x.previous = change[r].previous
    BY <1>2, <2>2 DEF Pictures!Change
  <2>5. Pictures!Becomes(r, x)
    BY <2>1
  <2> HIDE DEF x
  <2> QED BY <1>2, <1>4, <1>5, <2>1, <2>2, <2>3, <2>4, <2>5
          DEF Pictures!TypeOK, Pictures!AvatarIsStored
<1>9. ASSUME NEW r \in Requests, Pictures!UploadLost(r) PROVE PictureInv'
  <2>1. PICK f \in Pictures!New : files' = files \cup {f}
    BY <1>9 DEF Pictures!UploadLost
  <2>2. f \in Files /\ f # None
    BY <1>1, <2>1 DEF Pictures!New
  <2>3. Pictures!Becomes(r, Pictures!Idle) /\ avatar_file_id' = avatar_file_id
    BY <1>9 DEF Pictures!UploadLost
  <2> QED BY <1>1, <1>2, <1>3, <1>4, <1>5, <2>1, <2>2, <2>3
          DEF Pictures!TypeOK, Pictures!AvatarIsStored
<1>10. ASSUME NEW r \in Requests, Pictures!replace_avatar(r) PROVE PictureInv'
  <2>1. /\ change[r].at = "replacing" /\ avatar_file_id' = change[r].file /\ files' = files
    BY <1>10 DEF Pictures!replace_avatar
  <2> DEFINE x == IF change[r].previous = None THEN Pictures!Idle
                  ELSE [change[r] EXCEPT !.at = "deleting"]
  <2>2. /\ x \in Pictures!Change /\ x.at \in {"idle", "deleting"} /\ x.previous = change[r].previous
    BY <1>2, <1>3 DEF Pictures!Change
  <2>3. Pictures!Becomes(r, x)
    BY <1>10 DEF Pictures!replace_avatar
  <2> HIDE DEF x
  <2>4. change[r].file \in Files
    BY <1>2, <2>1
  <2> QED BY <1>2, <1>4, <1>5, <2>1, <2>2, <2>3, <2>4 DEF Pictures!TypeOK, Pictures!AvatarIsStored
<1>11. ASSUME NEW r \in Requests, Pictures!SendRemoval(r) PROVE PictureInv'
  <2> DEFINE x == [Pictures!Idle EXCEPT !.at = "removing", !.previous = avatar_file_id]
  <2>1. x \in Pictures!Change /\ x.at = "removing" /\ x.previous = avatar_file_id
    BY <1>2, <1>3 DEF Pictures!Change
  <2>2. Pictures!Becomes(r, x) /\ avatar_file_id' = avatar_file_id /\ files' = files
    BY <1>11 DEF Pictures!SendRemoval
  <2> HIDE DEF x
  <2> QED BY <1>2, <1>4, <1>5, <2>1, <2>2 DEF Pictures!TypeOK, Pictures!AvatarIsStored
<1>12. ASSUME NEW r \in Requests, Pictures!remove_avatar(r) PROVE PictureInv'
  <2> DEFINE x == [change[r] EXCEPT !.at = "deleting"]
  <2>1. x \in Pictures!Change /\ x.at = "deleting" /\ x.previous = change[r].previous
    BY <1>2 DEF Pictures!Change
  <2>2. Pictures!Becomes(r, x) /\ avatar_file_id' = None /\ files' = files
    BY <1>12 DEF Pictures!remove_avatar
  <2> HIDE DEF x
  <2> QED BY <1>1, <1>2, <1>4, <1>5, <2>1, <2>2 DEF Pictures!TypeOK, Pictures!AvatarIsStored
<1>13. ASSUME NEW r \in Requests, Pictures!delete(r) PROVE PictureInv'
  <2>1. /\ change[r].at = "deleting" /\ files' = files \ {change[r].previous}
        /\ Pictures!Becomes(r, Pictures!Idle) /\ avatar_file_id' = avatar_file_id
    BY <1>13 DEF Pictures!delete
  <2> QED BY <1>1, <1>2, <1>3, <1>4, <1>5, <2>1 DEF Pictures!TypeOK, Pictures!AvatarIsStored
<1>14. ASSUME NEW r \in Requests, Pictures!Raises(r) PROVE PictureInv'
  <2>1. Pictures!Becomes(r, Pictures!Idle) /\ avatar_file_id' = avatar_file_id /\ files' = files
    BY <1>14 DEF Pictures!Raises
  <2> QED BY <1>1, <1>2, <1>3, <1>4, <1>5, <2>1 DEF Pictures!TypeOK, Pictures!AvatarIsStored
<1> QED BY <1>6, <1>7, <1>8, <1>9, <1>10, <1>11, <1>12, <1>13, <1>14 DEF Pictures!Next

-----------------------------------------------------------------------------
(* The pushes of one evening.                                               *)

\* Past its claim a sweep has its recipients to itself, and none was sent to.
Taken(p) == sweep[p].at \in {"reading", "sending"}

PushInv ==
  /\ Pushes!TypeOK
  /\ Pushes!SentOnce
  /\ \A x \in Users \X Pushes!NotificationKind : sent[x] # 0 => x \in dispatched
  /\ \A p \in Processes : Taken(p) =>
       \A u \in sweep[p].users : /\ <<u, sweep[p].kind>> \in dispatched
                                 /\ sent[<<u, sweep[p].kind>>] = 0
  /\ \A p, q \in Processes : p # q /\ Taken(p) /\ Taken(q) /\ sweep[p].kind = sweep[q].kind
                             => sweep[p].users \cap sweep[q].users = {}
  /\ \A p \in Processes : sweep[p].at = "sending" => \A x \in sweep[p].tokens : x[2] \in sweep[p].users

(* A sweep at rest, and one on its way to the next kind, claim nobody.      *)
LEMMA Resting ==
  /\ Pushes!Rest \in Pushes!Sweep /\ Pushes!Rest.at = "idle"
  /\ \A k \in Pushes!NotificationKind, a \in {"idle", "pending"} :
       LET x == [Pushes!Rest EXCEPT !.at = a, !.kind = k] IN x \in Pushes!Sweep /\ x.at = a
  BY DEF Pushes!Rest, Pushes!Sweep, Pushes!NotificationKind

LEMMA PushStart ==
  ASSUME Pushes!Init
  PROVE  PushInv
<1>1. /\ \A p \in Processes : sweep[p] = Pushes!Rest
      /\ \A x \in Users \X Pushes!NotificationKind : sent[x] = 0
      /\ sent \in [Users \X Pushes!NotificationKind -> Nat]
      /\ sweep \in [Processes -> Pushes!Sweep]
  BY Resting DEF Pushes!Init
<1>2. device \in [Devices -> Pushes!UserDeviceToken] /\ \A d \in Devices : device[d].user = None
  BY DEF Pushes!Init, Pushes!UserDeviceToken
<1>3. Pushes!TypeOK
  BY <1>1, <1>2 DEF Pushes!Init, Pushes!TypeOK
<1>4. Pushes!SentOnce
  BY <1>1, <1>2 DEF Pushes!SentOnce
<1> QED BY <1>1, <1>3, <1>4, Resting DEF PushInv, Taken

(* A step of a sweep that claims nobody new and sends nothing.              *)
LEMMA PushBack ==
  ASSUME PushInv, NEW p \in Processes, NEW x \in Pushes!Sweep, Pushes!Becomes(p, x),
         x.at \notin {"reading", "sending"},
         dispatched' = dispatched, sent' = sent, dead' = dead, UNCHANGED Pushes!day,
         device' \in [Devices -> Pushes!UserDeviceToken],
         \A d \in Devices : device'[d].user # None /\ d \notin dead => device'[d].is_active
  PROVE  PushInv'
<1>1. sweep \in [Processes -> Pushes!Sweep] /\ sweep' = [sweep EXCEPT ![p] = x]
  BY DEF Pushes!Becomes, PushInv, Pushes!TypeOK
<1>2. \A q \in Processes : sweep'[q] = IF q = p THEN x ELSE sweep[q]
  BY <1>1
<1>3. sweep' \in [Processes -> Pushes!Sweep]
  BY <1>1
<1>4. Pushes!TypeOK'
  BY <1>3 DEF PushInv, Pushes!TypeOK, Pushes!day
<1>5. Pushes!SentOnce'
  BY DEF PushInv, Pushes!SentOnce
<1> QED BY <1>2, <1>4, <1>5 DEF PushInv, Taken

(* The day, and the devices, between the sweeps.                            *)
LEMMA PushBeside ==
  ASSUME PushInv, dispatched' = dispatched, sent' = sent, sweep' = sweep,
         Pushes!TypeOK', \A d \in Devices : device'[d].user # None /\ d \notin dead' => device'[d].is_active
  PROVE  PushInv'
<1>1. Pushes!SentOnce'
  BY DEF PushInv, Pushes!SentOnce
<1> QED BY <1>1 DEF PushInv, Taken

LEMMA PushStep ==
  ASSUME PushInv, [Pushes!Next]_(Pushes!vars)
  PROVE  PushInv'
<1>1. /\ device \in [Devices -> Pushes!UserDeviceToken] /\ dead \in SUBSET Devices
      /\ sweep \in [Processes -> Pushes!Sweep]
      /\ dispatched \in SUBSET (Users \X Pushes!NotificationKind)
      /\ sent \in [Users \X Pushes!NotificationKind -> Nat]
      /\ \A d \in Devices : device[d].user # None /\ d \notin dead => device[d].is_active
      /\ \A x \in Users \X Pushes!NotificationKind : sent[x] <= 1
  BY DEF PushInv, Pushes!TypeOK, Pushes!SentOnce
<1>2. None \notin Users
  BY AccountsAssumption DEF Pushes!NotificationsAssumption
<1>3. CASE UNCHANGED Pushes!vars
  BY <1>3 DEF Pushes!vars, Pushes!day, PushInv, Pushes!TypeOK, Pushes!SentOnce, Taken
<1>4. ASSUME NEW u \in Users, NEW d \in Devices, Pushes!register_device(u, d) PROVE PushInv'
  <2>1. [user |-> u, is_active |-> TRUE] \in Pushes!UserDeviceToken
    BY DEF Pushes!UserDeviceToken
  <2>2. /\ device' = [device EXCEPT ![d] = [user |-> u, is_active |-> TRUE]]
        /\ UNCHANGED <<dead, due, studied, left, dispatched, sweep, sent>>
    BY <1>4 DEF Pushes!register_device, Pushes!day
  <2>3. Pushes!TypeOK'
    BY <1>1, <2>1, <2>2 DEF PushInv, Pushes!TypeOK
  <2> QED BY <1>1, <2>2, <2>3, PushBeside
<1>5. ASSUME NEW u \in Users, NEW d \in Devices, Pushes!unregister_device(u, d) PROVE PushInv'
  <2>1. [user |-> None, is_active |-> FALSE] \in Pushes!UserDeviceToken
    BY DEF Pushes!UserDeviceToken
  <2>2. /\ device' = [device EXCEPT ![d] = [user |-> None, is_active |-> FALSE]]
        /\ UNCHANGED <<dead, due, studied, left, dispatched, sweep, sent>>
    BY <1>5 DEF Pushes!unregister_device, Pushes!day
  <2>3. Pushes!TypeOK'
    BY <1>1, <2>1, <2>2 DEF PushInv, Pushes!TypeOK
  <2> QED BY <1>1, <2>2, <2>3, PushBeside
<1>6. ASSUME NEW d \in Devices, Pushes!Uninstalled(d) PROVE PushInv'
  <2>1. dead' = dead \cup {d} /\ UNCHANGED <<device, due, studied, left, dispatched, sweep, sent>>
    BY <1>6 DEF Pushes!Uninstalled, Pushes!day
  <2>2. Pushes!TypeOK'
    BY <1>1, <2>1 DEF PushInv, Pushes!TypeOK
  <2> QED BY <1>1, <2>1, <2>2, PushBeside
<1>7. ASSUME NEW k \in Pushes!NotificationKind, Pushes!HourComes(k) PROVE PushInv'
  <2>1. due' = due \cup {k} /\ UNCHANGED <<device, dead, studied, left, dispatched, sweep, sent>>
    BY <1>7 DEF Pushes!HourComes
  <2>2. Pushes!TypeOK'
    BY <1>1, <2>1 DEF PushInv, Pushes!TypeOK
  <2> QED BY <1>1, <2>1, <2>2, PushBeside
<1>8. ASSUME NEW u \in Users, NEW done \in BOOLEAN, Pushes!Studies(u, done) PROVE PushInv'
  <2>1. /\ studied' = studied \cup {u} /\ left' \in {left \ {u}, left \cup {u}}
        /\ UNCHANGED <<device, dead, due, dispatched, sweep, sent>>
    BY <1>8 DEF Pushes!Studies
  <2>2. Pushes!TypeOK'
    BY <1>1, <2>1 DEF PushInv, Pushes!TypeOK
  <2> QED BY <1>1, <2>1, <2>2, PushBeside
<1>9. ASSUME NEW p \in Processes, Pushes!NextKind(p)
      PROVE  \E x \in Pushes!Sweep : Pushes!Becomes(p, x) /\ x.at \notin {"reading", "sending"}
  <2>1. sweep[p].kind \in Pushes!NotificationKind
    BY <1>1 DEF Pushes!Sweep
  <2> DEFINE k == Pushes!Following[sweep[p].kind]
  <2>2. CASE k = "idle"
    BY <1>9, <2>2, Resting DEF Pushes!NextKind
  <2>3. CASE k # "idle"
    <3>1. k \in Pushes!NotificationKind
      BY <2>1, <2>3 DEF Pushes!Following, Pushes!NotificationKind
    <3>2. Pushes!Becomes(p, [Pushes!Rest EXCEPT !.at = "pending", !.kind = k])
      BY <1>9, <2>3 DEF Pushes!NextKind
    <3> HIDE DEF k
    <3> QED BY <3>1, <3>2, Resting
  <2> QED BY <2>2, <2>3
<1>10. ASSUME NEW p \in Processes, Pushes!send_scheduled_pushes(p) PROVE PushInv'
  <2> DEFINE x == [Pushes!Rest EXCEPT !.at = "pending"]
  <2>1. x \in Pushes!Sweep /\ x.at = "pending"
    BY DEF Pushes!Rest, Pushes!Sweep, Pushes!NotificationKind
  <2>2. Pushes!Becomes(p, x) /\ UNCHANGED <<device, dead, Pushes!day, dispatched, sent>>
    BY <1>10 DEF Pushes!send_scheduled_pushes
  <2> HIDE DEF x
  <2> QED BY <1>1, <2>1, <2>2, PushBack
<1>11. ASSUME NEW p \in Processes, Pushes!pending_recipients(p) PROVE PushInv'
  <2>1. UNCHANGED <<device, dead, Pushes!day, dispatched, sent>>
    BY <1>11 DEF Pushes!pending_recipients
  <2>2. CASE Pushes!NextKind(p)
    BY <1>1, <1>9, <2>1, <2>2, PushBack
  <2>3. ASSUME NEW some \in SUBSET Users,
               Pushes!Becomes(p, [sweep[p] EXCEPT !.at = "claiming", !.users = some])
        PROVE  PushInv'
    <3> DEFINE x == [sweep[p] EXCEPT !.at = "claiming", !.users = some]
    <3>1. x \in Pushes!Sweep /\ x.at = "claiming"
      BY <1>1 DEF Pushes!Sweep
    <3>2. Pushes!Becomes(p, x)
      BY <2>3
    <3> HIDE DEF x
    <3> QED BY <1>1, <2>1, <3>1, <3>2, PushBack
  <2>4. \A k : Pushes!Pending(k) \subseteq Users
    BY DEF Pushes!Pending
  <2> QED BY <1>11, <2>2, <2>3, <2>4 DEF Pushes!pending_recipients
<1>12. ASSUME NEW p \in Processes, Pushes!claim(p) PROVE PushInv'
  <2> DEFINE x == [sweep[p] EXCEPT !.at = "reading",
                     !.users = {u \in sweep[p].users : <<u, sweep[p].kind>> \notin dispatched}]
  <2>1. /\ x \in Pushes!Sweep /\ x.at = "reading" /\ x.kind = sweep[p].kind
        /\ x.users = {u \in sweep[p].users : <<u, sweep[p].kind>> \notin dispatched}
        /\ sweep[p].users \subseteq Users /\ sweep[p].kind \in Pushes!NotificationKind
    BY <1>1 DEF Pushes!Sweep
  <2>2. /\ sweep' = [sweep EXCEPT ![p] = x]
        /\ dispatched' = dispatched \cup (sweep[p].users \X {sweep[p].kind})
        /\ UNCHANGED <<device, dead, due, studied, left, sent>>
    BY <1>1, <1>12 DEF Pushes!claim, Pushes!Becomes, Pushes!day
  <2> HIDE DEF x
  <2>3. \A q \in Processes : sweep'[q] = IF q = p THEN x ELSE sweep[q]
    BY <1>1, <2>2
  <2>4. Pushes!TypeOK'
    <3>1. dispatched' \in SUBSET (Users \X Pushes!NotificationKind)
      BY <1>1, <2>1, <2>2
    <3>2. sweep' \in [Processes -> Pushes!Sweep]
      BY <1>1, <2>1, <2>2
    <3> QED BY <2>2, <3>1, <3>2 DEF PushInv, Pushes!TypeOK
  <2>5. Pushes!SentOnce'
    BY <2>2 DEF PushInv, Pushes!SentOnce
  <2>6. \A u \in x.users : /\ <<u, x.kind>> \in dispatched' /\ <<u, x.kind>> \notin dispatched
                           /\ sent'[<<u, x.kind>>] = 0
    BY <2>1, <2>2 DEF PushInv
  <2>7. ASSUME NEW q \in Processes, q # p, Taken(q), sweep[q].kind = x.kind
        PROVE  sweep[q].users \cap x.users = {}
    BY <2>6, <2>7 DEF PushInv
  <2>8. \A q \in Processes : Taken(q)' =>
          \A u \in sweep'[q].users : /\ <<u, sweep'[q].kind>> \in dispatched'
                                     /\ sent'[<<u, sweep'[q].kind>>] = 0
    BY <2>2, <2>3, <2>6 DEF PushInv, Taken
  <2>9. \A q, r \in Processes : q # r /\ Taken(q)' /\ Taken(r)' /\ sweep'[q].kind = sweep'[r].kind
                               => sweep'[q].users \cap sweep'[r].users = {}
    BY <2>3, <2>7 DEF PushInv, Taken
  <2>10. \A q \in Processes : sweep'[q].at = "sending" => \A y \in sweep'[q].tokens : y[2] \in sweep'[q].users
    BY <2>1, <2>3 DEF PushInv
  <2>11. \A y \in Users \X Pushes!NotificationKind : sent'[y] # 0 => y \in dispatched'
    BY <2>2 DEF PushInv
  <2> QED BY <2>4, <2>5, <2>8, <2>9, <2>10, <2>11 DEF PushInv
<1>13. ASSUME NEW p \in Processes, Pushes!active_tokens_by_user(p) PROVE PushInv'
  <2> DEFINE to == {<<d, device[d].user>> : d \in {e \in Devices : device[e].is_active
                                                       /\ device[e].user \in sweep[p].users}}
             x == [sweep[p] EXCEPT !.at = "sending", !.tokens = to]
  <2>1. /\ to \in SUBSET (Devices \X Users) /\ \A y \in to : y[2] \in sweep[p].users
    BY <1>1 DEF Pushes!Sweep
  <2> HIDE DEF to
  <2>2. /\ x \in Pushes!Sweep /\ x.at = "sending" /\ x.kind = sweep[p].kind
        /\ x.users = sweep[p].users /\ x.tokens = to
    BY <1>1, <2>1 DEF Pushes!Sweep
  <2>3. /\ sweep' = [sweep EXCEPT ![p] = x] /\ sweep[p].at = "reading"
        /\ UNCHANGED <<device, dead, due, studied, left, dispatched, sent>>
    BY <1>1, <1>13 DEF Pushes!active_tokens_by_user, Pushes!Becomes, Pushes!day, to
  <2> HIDE DEF x
  <2>4. \A q \in Processes : sweep'[q] = IF q = p THEN x ELSE sweep[q]
    BY <1>1, <2>3
  <2>5. Pushes!TypeOK' /\ Pushes!SentOnce'
    BY <1>1, <2>2, <2>3 DEF PushInv, Pushes!TypeOK, Pushes!SentOnce
  <2>6. Taken(p)
    BY <2>3 DEF Taken
  <2>7. \A q \in Processes : /\ Taken(q)' => Taken(q)
                             /\ sweep'[q].kind = sweep[q].kind /\ sweep'[q].users = sweep[q].users
    BY <2>2, <2>4, <2>6 DEF Taken
  <2>8. \A q \in Processes : sweep'[q].at = "sending" => \A y \in sweep'[q].tokens : y[2] \in sweep'[q].users
    BY <2>1, <2>2, <2>4 DEF PushInv
  <2> QED BY <2>3, <2>5, <2>7, <2>8 DEF PushInv
<1>14. ASSUME NEW p \in Processes, Pushes!send(p) PROVE PushInv'
  <2>1. PICK reached \in SUBSET {y[2] : y \in sweep[p].tokens} :
          /\ sent' = [y \in DOMAIN sent |-> IF y[1] \in reached /\ y[2] = sweep[p].kind THEN sent[y] + 1
                                            ELSE sent[y]]
          /\ sweep' = [sweep EXCEPT ![p] =
               [sweep[p] EXCEPT !.at = "deactivating", !.users = {},
                                !.tokens = {y \in @ : y[2] \in reached}]]
    BY <1>14 DEF Pushes!send, Pushes!Becomes
  <2> DEFINE x == [sweep[p] EXCEPT !.at = "deactivating", !.users = {},
                                   !.tokens = {y \in @ : y[2] \in reached}]
  <2>2. x \in Pushes!Sweep /\ x.at = "deactivating"
    <3>1. sweep[p] \in Pushes!Sweep
      BY <1>1
    <3>2. {y \in sweep[p].tokens : y[2] \in reached} \subseteq sweep[p].tokens
      OBVIOUS
    <3> QED BY <3>1, <3>2 DEF Pushes!Sweep
  <2> HIDE DEF x
  <2>3. sweep' = [sweep EXCEPT ![p] = x]
    BY <2>1 DEF x
  <2>4. /\ sweep[p].at = "sending"
        /\ UNCHANGED <<device, dead, due, studied, left, dispatched>>
    BY <1>14 DEF Pushes!send, Pushes!day
  <2>5. reached \subseteq sweep[p].users /\ Taken(p)
    BY <2>3, <2>4 DEF PushInv, Taken
  <2>6. \A q \in Processes : sweep'[q] = IF q = p THEN x ELSE sweep[q]
    BY <1>1, <2>3, <2>4
  <2>7. sent' \in [Users \X Pushes!NotificationKind -> Nat]
    BY <1>1, <2>1
  <2>8. ASSUME NEW u \in Users, NEW k \in Pushes!NotificationKind, sent'[<<u, k>>] # sent[<<u, k>>]
        PROVE  /\ u \in sweep[p].users /\ k = sweep[p].kind /\ <<u, k>> \in dispatched
               /\ sent'[<<u, k>>] = 1
    <3>1. sent'[<<u, k>>] = IF u \in reached /\ k = sweep[p].kind THEN sent[<<u, k>>] + 1 ELSE sent[<<u, k>>]
      BY <1>1, <2>1
    <3>2. u \in reached /\ k = sweep[p].kind /\ sent'[<<u, k>>] = sent[<<u, k>>] + 1
      BY <2>8, <3>1
    <3>3. <<u, k>> \in dispatched /\ sent[<<u, k>>] = 0
      BY <2>5, <3>2 DEF PushInv
    <3> QED BY <2>5, <3>2, <3>3
  <2>9. Pushes!TypeOK'
    BY <1>1, <2>2, <2>3, <2>4, <2>7 DEF PushInv, Pushes!TypeOK
  <2>10. \A y \in Users \X Pushes!NotificationKind : sent'[y] <= 1 /\ (sent'[y] # 0 => y \in dispatched')
    <3> SUFFICES ASSUME NEW u \in Users, NEW k \in Pushes!NotificationKind
                 PROVE  sent'[<<u, k>>] <= 1 /\ (sent'[<<u, k>>] # 0 => <<u, k>> \in dispatched')
      OBVIOUS
    <3> QED BY <1>1, <2>3, <2>4, <2>8 DEF PushInv
  <2>11. Pushes!SentOnce'
    BY <1>1, <2>3, <2>4, <2>7, <2>10 DEF Pushes!SentOnce
  <2>12. ASSUME NEW q \in Processes, Taken(q)'
        PROVE  q # p /\ Taken(q) /\ sweep'[q] = sweep[q]
    BY <2>2, <2>6, <2>12 DEF Taken
  <2>13. \A q \in Processes : Taken(q)' =>
          \A u \in sweep'[q].users : /\ <<u, sweep'[q].kind>> \in dispatched'
                                     /\ sent'[<<u, sweep'[q].kind>>] = 0
    <3> SUFFICES ASSUME NEW q \in Processes, Taken(q)', NEW u \in sweep[q].users
                 PROVE  <<u, sweep[q].kind>> \in dispatched /\ sent'[<<u, sweep[q].kind>>] = 0
      BY <2>3, <2>4, <2>12
    <3>1. u \in Users /\ sweep[q].kind \in Pushes!NotificationKind
      BY <1>1 DEF Pushes!Sweep
    <3>2. <<u, sweep[q].kind>> \in dispatched /\ sent[<<u, sweep[q].kind>>] = 0
      BY <2>12 DEF PushInv
    <3>3. ~(u \in sweep[p].users /\ sweep[q].kind = sweep[p].kind)
      BY <2>5, <2>12 DEF PushInv
    <3> QED BY <2>8, <3>1, <3>2, <3>3
  <2>14. \A q, r \in Processes : q # r /\ Taken(q)' /\ Taken(r)' /\ sweep'[q].kind = sweep'[r].kind
                               => sweep'[q].users \cap sweep'[r].users = {}
    BY <2>12 DEF PushInv
  <2>15. \A q \in Processes : sweep'[q].at = "sending" => \A y \in sweep'[q].tokens : y[2] \in sweep'[q].users
    BY <2>2, <2>6 DEF PushInv
  <2> QED BY <2>9, <2>10, <2>11, <2>13, <2>14, <2>15 DEF PushInv
<1>15. ASSUME NEW p \in Processes, Pushes!deactivate(p) PROVE PushInv'
  <2>1. device' = [d \in Devices |-> IF d \in Pushes!refused(sweep[p].tokens)
                                     THEN [device[d] EXCEPT !.is_active = FALSE] ELSE device[d]]
    BY <1>15 DEF Pushes!deactivate
  <2>2. Pushes!refused(sweep[p].tokens) \subseteq dead
    BY DEF Pushes!refused
  <2>3. \A d \in Devices : [device[d] EXCEPT !.is_active = FALSE] \in Pushes!UserDeviceToken
    BY <1>1 DEF Pushes!UserDeviceToken
  <2>4. device' \in [Devices -> Pushes!UserDeviceToken]
    BY <1>1, <2>1, <2>3
  <2>5. \A d \in Devices : d \notin dead => device'[d] = device[d]
    BY <2>1, <2>2
  <2>6. PICK x \in Pushes!Sweep : Pushes!Becomes(p, x) /\ x.at \notin {"reading", "sending"}
    BY <1>9, <1>15 DEF Pushes!deactivate
  <2>7. dispatched' = dispatched /\ sent' = sent /\ dead' = dead /\ UNCHANGED Pushes!day
    BY <1>15 DEF Pushes!deactivate
  <2> QED BY <1>1, <2>4, <2>5, <2>6, <2>7, PushBack
<1>16. ASSUME NEW p \in Processes, Pushes!SweepDies(p) PROVE PushInv'
  <2>1. Pushes!Becomes(p, Pushes!Rest) /\ UNCHANGED <<device, dead, Pushes!day, dispatched, sent>>
    BY <1>16 DEF Pushes!SweepDies
  <2> QED BY <1>1, <2>1, PushBack, Resting
<1> QED BY <1>3, <1>4, <1>5, <1>6, <1>7, <1>8, <1>10, <1>11, <1>12, <1>13, <1>14, <1>15, <1>16
        DEF Pushes!Next

-----------------------------------------------------------------------------
(* One account's sign-ins.                                                  *)

\* What a request rests on between two of its statements: a rotation holds
\* the lock of a row nobody revoked, and a reset has somebody to reset.
Fits(r) ==
  LET me == session[r] IN
  /\ me.at = "rotating" => /\ me.token \in Tokens /\ holder[me.token] = r
                           /\ token[me.token].state \in {"live", "expired"}
  /\ me.at \in {"locking", "revoking"} => me.token \in Tokens /\ token[me.token].state # "new"
  /\ me.at \in {"signing out", "resetting"} => me.reset \in Resets
  /\ me.at = "resetting" => \A t \in me.seen : t \in Tokens /\ token[t].state # "new"
  /\ me.at \in {"storing", "replacing", "signing out", "resetting"} => user \in User

\* What was exchanged is revoked, for one successor, which is in the store.
Chain ==
  \A t \in Tokens : token[t].from # None =>
    /\ token[t].state # "new" /\ token[token[t].from].state = "revoked"
    /\ \A u \in Tokens : token[u].from = token[t].from => u = t

SessionInv ==
  /\ TypeOK
  /\ Chain
  /\ \A r \in Requests : Fits(r)
  /\ \A p \in Resets : reset[p] # "new" => user \in User

LEMMA SessionStart ==
  ASSUME Init
  PROVE  SessionInv
<1>1. Idle \in Session /\ Idle.at = "idle"
  BY DEF Idle, Session, Places
<1>2. /\ \A t \in Tokens : token[t] = [state |-> "new", from |-> None]
      /\ token \in [Tokens -> RefreshToken]
  BY DEF Init, RefreshToken
<1>3. TypeOK
  BY <1>1, <1>2 DEF Init, TypeOK, PasswordResetToken
<1> QED BY <1>1, <1>2, <1>3 DEF Init, SessionInv, Chain, Fits

(* Tokens that keep their predecessor, and are neither unrevoked nor taken  *)
(* out of the store, keep the chain.                                        *)
LEMMA ChainKept ==
  ASSUME Chain, token \in [Tokens -> RefreshToken], token' \in [Tokens -> RefreshToken],
         \A t \in Tokens : /\ token'[t].from = token[t].from
                           /\ token[t].state # "new" => token'[t].state # "new"
                           /\ token[t].state = "revoked" => token'[t].state = "revoked"
  PROVE  Chain'
<1>1. \A t \in Tokens : token[t].from \in Tokens \cup {None}
  BY DEF RefreshToken
<1> QED BY <1>1 DEF Chain

(* Whoever keeps its place, its locked rows and the tokens in store, fits.  *)
LEMMA FitsKept ==
  ASSUME NEW s \in Requests, Fits(s), session'[s] = session[s], user \in User => user' \in User,
         \A t \in Tokens : token[t].state # "new" => token'[t].state # "new",
         \A t \in Tokens : holder[t] = s /\ token[t].state \in {"live", "expired"}
                            => holder'[t] = s /\ token'[t].state \in {"live", "expired"}
  PROVE  Fits(s)'
  BY DEF Fits

(* A step of one request: the others keep the rows they hold locked.        *)
LEMMA RequestStep ==
  ASSUME SessionInv, NEW r \in Requests, NEW x \in Session, Becomes(r, x),
         user' \in User \cup {None}, user \in User => user' \in User,
         token' \in [Tokens -> RefreshToken], reset' \in [Resets -> PasswordResetToken],
         holder' \in [Tokens -> Requests \cup {None}],
         \A t \in Tokens : token[t].state # "new" => token'[t].state # "new",
         \A s \in Requests \ {r}, t \in Tokens :
           holder[t] = s => holder'[t] = s /\ token'[t].state = token[t].state,
         \A p \in Resets : reset'[p] # "new" => reset[p] # "new" \/ user' \in User,
         x.at = "rotating" => /\ x.token \in Tokens /\ holder'[x.token] = r
                              /\ token'[x.token].state \in {"live", "expired"},
         x.at \in {"locking", "revoking"} => x.token \in Tokens /\ token'[x.token].state # "new",
         x.at \in {"signing out", "resetting"} => x.reset \in Resets,
         x.at = "resetting" => \A t \in x.seen : t \in Tokens /\ token'[t].state # "new",
         x.at \in {"storing", "replacing", "signing out", "resetting"} => user' \in User,
         Chain'
  PROVE  SessionInv'
<1>1. session' = [session EXCEPT ![r] = x] /\ session \in [Requests -> Session]
  BY DEF Becomes, SessionInv, TypeOK
<1>2. \A s \in Requests : session'[s] = IF s = r THEN x ELSE session[s]
  BY <1>1
<1>3. TypeOK'
  BY <1>1 DEF TypeOK
<1>4. Fits(r)'
  BY <1>2 DEF Fits
<1>5. ASSUME NEW s \in Requests, s # r
      PROVE  Fits(s)'
  <2>1. session'[s] = session[s] /\ Fits(s)
    BY <1>2, <1>5 DEF SessionInv
  <2>2. \A t \in Tokens : holder[t] = s => holder'[t] = s /\ token'[t].state = token[t].state
    BY <1>5
  <2> QED BY <2>1, <2>2, FitsKept
<1>6. \A p \in Resets : reset'[p] # "new" => user' \in User
  BY DEF SessionInv
<1> QED BY <1>3, <1>4, <1>5, <1>6 DEF SessionInv

(* A request that changes no token and no link, and at most signs up.       *)
LEMMA RequestMoves ==
  ASSUME SessionInv, NEW r \in Requests, NEW x \in Session, Becomes(r, x),
         user' \in User \cup {None}, user \in User => user' \in User,
         UNCHANGED <<token, reset>>, holder' \in {holder, Freed(r)},
         x.at \notin {"rotating", "locking", "revoking", "signing out", "resetting"},
         x.at \in {"storing", "replacing"} => user' \in User
  PROVE  SessionInv'
<1>1. /\ token \in [Tokens -> RefreshToken] /\ reset \in [Resets -> PasswordResetToken]
      /\ holder \in [Tokens -> Requests \cup {None}]
  BY DEF SessionInv, TypeOK
<1>2. /\ holder' \in [Tokens -> Requests \cup {None}]
      /\ \A s \in Requests \ {r}, t \in Tokens : holder[t] = s => holder'[t] = s
  BY <1>1 DEF Freed
<1>3. Chain'
  BY DEF SessionInv, Chain
<1> QED BY <1>1, <1>2, <1>3, RequestStep

(* The first token and the first link not drawn yet are new.                *)
LEMMA Drawing ==
  /\ \A t \in Minted : t \in Tokens /\ token[t].state = "new"
  /\ \A p \in Drawn : p \in Resets /\ reset[p] = "new"
  BY DEF Minted, Unused, Drawn

LEMMA SessionStep ==
  ASSUME SessionInv, [Next]_vars
  PROVE  SessionInv'
<1>1. /\ user \in User \cup {None} /\ token \in [Tokens -> RefreshToken]
      /\ reset \in [Resets -> PasswordResetToken]
      /\ holder \in [Tokens -> Requests \cup {None}] /\ session \in [Requests -> Session]
  BY DEF SessionInv, TypeOK
<1>2. None \notin Requests /\ None \notin Tokens /\ None \notin Resets
  BY AccountsAssumption DEF SessionsAssumption
<1>3. \A a \in Places : LET x == [Idle EXCEPT !.at = a] IN x \in Session /\ x.at = a
  BY DEF Idle, Session
<1>4. Idle \in Session /\ Idle.at = "idle"
  BY DEF Idle, Session, Places
<1>5. \A r \in Requests, a \in Places :
        LET x == [session[r] EXCEPT !.at = a] IN
        /\ x \in Session /\ x.at = a /\ x.token = session[r].token /\ x.reset = session[r].reset
        /\ x.seen = session[r].seen /\ x.password = session[r].password
  BY <1>1 DEF Session
<1>6. ASSUME NEW r \in Requests
      PROVE  /\ Freed(r) \in [Tokens -> Requests \cup {None}]
             /\ \A s \in Requests \ {r}, t \in Tokens : holder[t] = s => Freed(r)[t] = s
  BY <1>1 DEF Freed
<1>7. CASE UNCHANGED vars
  BY <1>7 DEF vars, SessionInv, TypeOK, Chain, Fits
<1>8. CASE expires_at
  <2>1. UNCHANGED <<user, holder, session>>
    BY <1>8 DEF expires_at
  <2>2. ASSUME NEW t \in Tokens, token[t].state = "live",
               token' = [token EXCEPT ![t].state = "expired"], UNCHANGED reset
        PROVE  SessionInv'
    <3>1. \A u \in Tokens : /\ token'[u].from = token[u].from
                            /\ token'[u].state = IF u = t THEN "expired" ELSE token[u].state
      BY <1>1, <2>2 DEF RefreshToken
    <3>2. token' \in [Tokens -> RefreshToken]
      BY <1>1, <2>2 DEF RefreshToken
    <3>3. Chain'
      BY <1>1, <2>2, <3>1, <3>2, ChainKept DEF SessionInv
    <3>4. ASSUME NEW r \in Requests PROVE Fits(r)'
      BY <2>1, <3>1, FitsKept DEF SessionInv
    <3> QED BY <2>1, <2>2, <3>2, <3>3, <3>4 DEF SessionInv, TypeOK
  <2>3. ASSUME NEW p \in Resets, reset[p] = "active", reset' = [reset EXCEPT ![p] = "expired"],
               UNCHANGED token
        PROVE  SessionInv'
    <3>1. reset' \in [Resets -> PasswordResetToken]
      BY <1>1, <2>3 DEF PasswordResetToken
    <3>2. \A q \in Resets : reset'[q] # "new" => reset[q] # "new"
      BY <1>1, <2>3
    <3>3. ASSUME NEW r \in Requests PROVE Fits(r)'
      BY <2>1, <2>3, FitsKept DEF SessionInv
    <3>4. TypeOK' /\ Chain'
      BY <2>1, <2>3, <3>1 DEF SessionInv, TypeOK, Chain
    <3> QED BY <2>1, <3>2, <3>3, <3>4 DEF SessionInv
  <2> QED BY <1>8, <2>2, <2>3 DEF expires_at
<1>9. ASSUME NEW r \in Requests, NEW password \in Passwords, register(r, password) PROVE SessionInv'
  <2> DEFINE x == [Idle EXCEPT !.at = "registering", !.password = password]
  <2>1. x \in Session /\ x.at = "registering"
    BY DEF Idle, Session, Places
  <2>2. Becomes(r, x) /\ UNCHANGED <<user, token, reset, holder>>
    BY <1>9 DEF register, Waits
  <2> HIDE DEF x
  <2> QED BY <1>1, <2>1, <2>2, RequestMoves
<1>10. ASSUME NEW r \in Requests, create_user(r) PROVE SessionInv'
  <2>1. [hashed_password |-> session[r].password, google_subject |-> FALSE] \in User
    BY <1>1 DEF User, Session
  <2>2. user' \in User \cup {None} /\ (user \in User => user' \in User)
    BY <1>1, <1>10, <2>1 DEF create_user
  <2>3. Becomes(r, Idle) /\ holder' = Freed(r) /\ UNCHANGED <<token, reset>>
    BY <1>10 DEF create_user, Ends
  <2> QED BY <1>4, <2>2, <2>3, RequestMoves
<1>11. ASSUME NEW r \in Requests, NEW password \in Passwords, login(r, password) PROVE SessionInv'
  <2>1. Becomes(r, [Idle EXCEPT !.at = "issuing"]) /\ UNCHANGED <<user, token, reset, holder>>
    BY <1>11 DEF login, Waits
  <2>2. "issuing" \in Places
    BY DEF Places
  <2> QED BY <1>1, <1>3, <2>1, <2>2, RequestMoves
<1>12. ASSUME NEW r \in Requests, issue_token_pair(r) PROVE SessionInv'
  <2>1. PICK t \in Minted : token' = [token EXCEPT ![t].state = "live"]
    BY <1>12 DEF issue_token_pair
  <2>2. t \in Tokens /\ token[t].state = "new"
    BY <2>1, Drawing
  <2>3. /\ token' \in [Tokens -> RefreshToken]
        /\ \A u \in Tokens : /\ token'[u].from = token[u].from
                             /\ token'[u].state = IF u = t THEN "live" ELSE token[u].state
    BY <1>1, <2>1, <2>2 DEF RefreshToken
  <2>4. Chain'
    BY <1>1, <2>2, <2>3, ChainKept DEF SessionInv
  <2>5. Becomes(r, Idle) /\ holder' = Freed(r) /\ UNCHANGED <<user, reset>>
    BY <1>12 DEF issue_token_pair, Ends
  <2>6. ASSUME NEW s \in Requests, s # r
        PROVE  Fits(s)'
    <3>1. session'[s] = session[s] /\ Fits(s)
      BY <1>1, <2>5, <2>6 DEF SessionInv, Becomes
    <3>2. \A u \in Tokens : holder[u] = s => holder'[u] = s
      BY <1>6, <2>5, <2>6
    <3> QED BY <2>2, <2>3, <2>5, <3>1, <3>2, FitsKept
  <2>7. session' \in [Requests -> Session] /\ session'[r] = Idle
    BY <1>1, <1>4, <2>5 DEF Becomes
  <2>8. Fits(r)'
    BY <1>4, <2>7 DEF Fits
  <2>9. TypeOK'
    BY <1>1, <1>6, <2>3, <2>5, <2>7 DEF TypeOK
  <2> QED BY <2>4, <2>5, <2>6, <2>8, <2>9 DEF SessionInv
<1>13. ASSUME NEW r \in Requests, NEW t \in Tokens, refresh(r, t) PROVE SessionInv'
  <2> DEFINE x == [Idle EXCEPT !.at = "locking", !.token = t]
  <2>1. x \in Session /\ x.at = "locking" /\ x.token = t
    BY DEF Idle, Session, Places
  <2>2. /\ Becomes(r, x) /\ UNCHANGED <<user, token, reset, holder>> /\ token[t].state # "new"
    BY <1>13 DEF refresh, Waits
  <2>3. Chain'
    BY <2>2 DEF SessionInv, Chain
  <2> HIDE DEF x
  <2> QED BY <1>1, <2>1, <2>2, <2>3, RequestStep
<1>14. ASSUME NEW r \in Requests, NEW t \in Tokens, logout(r, t) PROVE SessionInv'
  <2> DEFINE x == [Idle EXCEPT !.at = "revoking", !.token = t]
  <2>1. x \in Session /\ x.at = "revoking" /\ x.token = t
    BY DEF Idle, Session, Places
  <2>2. /\ Becomes(r, x) /\ UNCHANGED <<user, token, reset, holder>> /\ token[t].state # "new"
    BY <1>14 DEF logout, Waits, Live
  <2>3. Chain'
    BY <2>2 DEF SessionInv, Chain
  <2> HIDE DEF x
  <2> QED BY <1>1, <2>1, <2>2, <2>3, RequestStep
<1>15. ASSUME NEW r \in Requests, get_refresh_token_by_hash(r) PROVE SessionInv'
  <2> DEFINE t == session[r].token
             x == [session[r] EXCEPT !.at = "rotating"]
  <2>1. /\ t \in Tokens /\ Unlocked(r, t) /\ UNCHANGED <<user, token, reset>>
    BY <1>15 DEF get_refresh_token_by_hash, SessionInv, Fits
  <2>2. CASE token[t].state = "live"
    <3>1. "rotating" \in Places
      BY DEF Places
    <3>2. x \in Session /\ x.at = "rotating" /\ x.token = t
      BY <1>5, <3>1
    <3>3. Becomes(r, x) /\ holder' = [holder EXCEPT ![t] = r]
      BY <1>15, <2>2 DEF get_refresh_token_by_hash, Goes
    <3> HIDE DEF x, t
    <3>4. /\ holder' \in [Tokens -> Requests \cup {None}] /\ holder'[t] = r
          /\ \A s \in Requests \ {r}, u \in Tokens : holder[u] = s => holder'[u] = s
      BY <1>1, <1>2, <2>1, <3>3 DEF Unlocked
    <3>5. Chain'
      BY <2>1 DEF SessionInv, Chain
    <3> QED BY <1>1, <2>1, <2>2, <3>2, <3>3, <3>4, <3>5, RequestStep
  <2>3. CASE token[t].state # "live"
    <3>1. Becomes(r, Idle) /\ holder' = Freed(r)
      BY <1>15, <2>3 DEF get_refresh_token_by_hash, Ends
    <3> QED BY <1>1, <1>4, <2>1, <3>1, RequestMoves
  <2> QED BY <2>2, <2>3
<1>16. ASSUME NEW r \in Requests, rotate(r) PROVE SessionInv'
  <2> DEFINE old == session[r].token
  <2>1. /\ old \in Tokens /\ holder[old] = r /\ token[old].state \in {"live", "expired"}
    BY <1>16 DEF rotate, SessionInv, Fits
  <2>2. PICK t \in Minted : token' = [token EXCEPT ![old].state = "revoked",
                                                   ![t] = [state |-> "live", from |-> old]]
    BY <1>16 DEF rotate
  <2>3. t \in Tokens /\ token[t].state = "new" /\ t # old
    BY <2>1, <2>2, Drawing
  <2>4. Becomes(r, Idle) /\ holder' = Freed(r) /\ UNCHANGED <<user, reset>>
    BY <1>16 DEF rotate, Ends
  <2> HIDE DEF old
  <2>5. /\ token' \in [Tokens -> RefreshToken]
        /\ \A u \in Tokens : token'[u] = IF u = t THEN [state |-> "live", from |-> old]
                                         ELSE IF u = old THEN [token[u] EXCEPT !.state = "revoked"]
                                         ELSE token[u]
    BY <1>1, <2>1, <2>2, <2>3 DEF RefreshToken
  <2>6. \A u \in Tokens : /\ token'[u].from = IF u = t THEN old ELSE token[u].from
                          /\ token'[u].state = IF u = t THEN "live"
                                               ELSE IF u = old THEN "revoked" ELSE token[u].state
    BY <1>1, <2>3, <2>5 DEF RefreshToken
  <2>7. Chain'
    <3>1. \A u \in Tokens : token[u].from \in Tokens \cup {None} /\ token[u].from # old
      BY <1>1, <1>2, <2>1 DEF SessionInv, Chain, RefreshToken
    <3> QED BY <1>2, <2>1, <2>3, <2>6, <3>1 DEF SessionInv, Chain
  <2>8. \A s \in Requests \ {r}, u \in Tokens : holder[u] = s => u # old
    BY <2>1
  <2>9. ASSUME NEW s \in Requests, s # r
        PROVE  Fits(s)'
    <3>1. session'[s] = session[s] /\ Fits(s)
      BY <1>1, <2>4, <2>9 DEF SessionInv, Becomes
    <3>2. \A u \in Tokens : holder[u] = s => holder'[u] = s /\ u # old
      BY <1>6, <2>4, <2>8, <2>9
    <3> QED BY <2>3, <2>4, <2>6, <3>1, <3>2, FitsKept
  <2>10. session' \in [Requests -> Session] /\ session'[r] = Idle
    BY <1>1, <1>4, <2>4 DEF Becomes
  <2>11. Fits(r)'
    BY <1>4, <2>10 DEF Fits
  <2>12. TypeOK'
    BY <1>1, <1>6, <2>4, <2>5, <2>10 DEF TypeOK
  <2> QED BY <2>4, <2>7, <2>9, <2>11, <2>12 DEF SessionInv
<1>17. ASSUME NEW r \in Requests, revoke(r) PROVE SessionInv'
  <2> DEFINE t == session[r].token
  <2>1. /\ t \in Tokens /\ Unlocked(r, t) /\ token[t].state # "new"
        /\ token' = [token EXCEPT ![t].state = "revoked"]
    BY <1>17 DEF revoke, SessionInv, Fits
  <2>2. Becomes(r, Idle) /\ holder' = Freed(r) /\ UNCHANGED <<user, reset>>
    BY <1>17 DEF revoke, Ends
  <2> HIDE DEF t
  <2>3. /\ token' \in [Tokens -> RefreshToken]
        /\ \A u \in Tokens : /\ token'[u].from = token[u].from
                             /\ token'[u].state = IF u = t THEN "revoked" ELSE token[u].state
    BY <1>1, <2>1 DEF RefreshToken
  <2>4. Chain'
    BY <1>1, <2>1, <2>3, ChainKept DEF SessionInv
  <2>5. \A s \in Requests \ {r}, u \in Tokens :
          holder[u] = s => holder'[u] = s /\ token'[u].state = token[u].state
    BY <1>2, <1>6, <2>1, <2>2, <2>3 DEF Unlocked
  <2>6. /\ \A u \in Tokens : token[u].state # "new" => token'[u].state # "new"
        /\ holder' \in [Tokens -> Requests \cup {None}]
    BY <1>6, <2>2, <2>3
  <2> QED BY <1>1, <1>4, <2>2, <2>3, <2>4, <2>5, <2>6, RequestStep
<1>18. ASSUME NEW r \in Requests, login_with_google(r) PROVE SessionInv'
  <2>1. Becomes(r, [Idle EXCEPT !.at = "subject"]) /\ UNCHANGED <<user, token, reset, holder>>
    BY <1>18 DEF login_with_google, Waits
  <2>2. "subject" \in Places
    BY DEF Places
  <2> QED BY <1>1, <1>3, <2>1, <2>2, RequestMoves
<1>19. ASSUME NEW r \in Requests, NEW a \in Places, Goes(r, a), UNCHANGED <<token, reset, holder>>,
              user' \in User \cup {None}, user \in User => user' \in User,
              a \in {"issuing", "address", "joining", "rereading"}
       PROVE  SessionInv'
  <2> DEFINE x == [session[r] EXCEPT !.at = a]
  <2>1. x \in Session /\ x.at = a
    BY <1>5
  <2>2. Becomes(r, x)
    BY <1>19 DEF Goes
  <2> HIDE DEF x
  <2> QED BY <1>19, <2>1, <2>2, RequestMoves
<1>20. {"issuing", "address", "joining", "rereading"} \subseteq Places
  BY DEF Places
<1>21. ASSUME NEW r \in Requests, Ends(r), UNCHANGED <<user, token, reset>> PROVE SessionInv'
  BY <1>1, <1>4, <1>21, RequestMoves DEF Ends
<1>22. ASSUME NEW r \in Requests, get_user_by_google_subject(r) PROVE SessionInv'
  BY <1>1, <1>19, <1>20, <1>21, <1>22 DEF get_user_by_google_subject
<1>23. ASSUME NEW r \in Requests, get_user_by_email(r) PROVE SessionInv'
  BY <1>1, <1>19, <1>20, <1>21, <1>23 DEF get_user_by_email
<1>24. ASSUME NEW r \in Requests, create_google_user(r) PROVE SessionInv'
  <2>1. [hashed_password |-> None, google_subject |-> TRUE] \in User
    BY DEF User
  <2>2. user' \in User \cup {None} /\ (user \in User => user' \in User)
    BY <1>1, <1>24, <2>1 DEF create_google_user
  <2> QED BY <1>19, <1>20, <1>24, <2>2 DEF create_google_user
<1>25. ASSUME NEW r \in Requests, request_password_reset(r) PROVE SessionInv'
  <2>1. /\ Becomes(r, [Idle EXCEPT !.at = "storing"]) /\ UNCHANGED <<user, token, reset, holder>>
        /\ user \in User
    BY <1>1, <1>25 DEF request_password_reset, Waits
  <2>2. "storing" \in Places
    BY DEF Places
  <2> QED BY <1>1, <1>3, <2>1, <2>2, RequestMoves
<1>26. ASSUME NEW r \in Requests, revoke_active(r) PROVE SessionInv'
  <2> DEFINE x == [session[r] EXCEPT !.at = "replacing",
                                     !.seen = {p \in Resets : reset[p] \in {"active", "expired"}}]
  <2>1. x \in Session /\ x.at = "replacing"
    BY <1>1 DEF Session, Places
  <2>2. Becomes(r, x) /\ UNCHANGED <<user, token, reset, holder>> /\ user \in User
    BY <1>26 DEF revoke_active, Waits, SessionInv, Fits
  <2> HIDE DEF x
  <2> QED BY <1>1, <2>1, <2>2, RequestMoves
<1>27. ASSUME NEW r \in Requests, replace_active_token(r) PROVE SessionInv'
  <2>1. reset' \in [Resets -> PasswordResetToken]
    BY <1>1, <1>27 DEF replace_active_token, PasswordResetToken
  <2>2. user \in User /\ user' = user /\ token' = token /\ Becomes(r, Idle) /\ holder' = Freed(r)
    BY <1>27 DEF replace_active_token, Ends, SessionInv, Fits
  <2>3. Chain'
    BY <2>2 DEF SessionInv, Chain
  <2>4. /\ holder' \in [Tokens -> Requests \cup {None}]
        /\ \A s \in Requests \ {r}, t \in Tokens : holder[t] = s => holder'[t] = s /\ token'[t].state = token[t].state
    BY <1>6, <2>2
  <2> QED BY <1>1, <1>4, <2>1, <2>2, <2>3, <2>4, RequestStep
<1>28. ASSUME NEW r \in Requests, NEW p \in Resets, NEW password \in Passwords,
              reset_password(r, p, password)
       PROVE  SessionInv'
  <2> DEFINE x == [Idle EXCEPT !.at = "signing out", !.reset = p, !.password = password]
  <2>1. x \in Session /\ x.at = "signing out" /\ x.reset = p
    BY DEF Idle, Session, Places
  <2>2. /\ Becomes(r, x) /\ UNCHANGED <<user, token, reset, holder>> /\ user \in User
    BY <1>28 DEF reset_password, Waits, SessionInv
  <2>3. Chain'
    BY <2>2 DEF SessionInv, Chain
  <2> HIDE DEF x
  <2> QED BY <1>1, <2>1, <2>2, <2>3, RequestStep
<1>29. ASSUME NEW r \in Requests, revoke_all_for_user(r) PROVE SessionInv'
  <2> DEFINE x == [session[r] EXCEPT !.at = "resetting", !.seen = Live]
  <2>1. /\ x \in Session /\ x.at = "resetting" /\ x.reset = session[r].reset
        /\ \A t \in x.seen : t \in Tokens /\ token[t].state # "new"
    BY <1>1 DEF Session, Places, Live
  <2>2. /\ Becomes(r, x) /\ UNCHANGED <<user, token, reset, holder>> /\ user \in User
        /\ session[r].reset \in Resets
    BY <1>29 DEF revoke_all_for_user, Waits, SessionInv, Fits
  <2>3. Chain'
    BY <2>2 DEF SessionInv, Chain
  <2> HIDE DEF x
  <2> QED BY <1>1, <2>1, <2>2, <2>3, RequestStep
<1>30. ASSUME NEW r \in Requests, commit_reset(r) PROVE SessionInv'
  <2> DEFINE me == session[r]
  <2>1. /\ user \in User /\ me.reset \in Resets /\ me.password \in Passwords \cup {None}
        /\ \A t \in me.seen : t \in Tokens /\ token[t].state # "new" /\ Unlocked(r, t)
    BY <1>1, <1>30 DEF commit_reset, SessionInv, Fits, Session
  <2>2. /\ user' = [user EXCEPT !.hashed_password = me.password]
        /\ reset' = [reset EXCEPT ![me.reset] = "used"]
        /\ token' = [t \in Tokens |-> IF t \in me.seen THEN [token[t] EXCEPT !.state = "revoked"]
                                      ELSE token[t]]
        /\ Becomes(r, Idle) /\ holder' = Freed(r)
    BY <1>30 DEF commit_reset, Ends
  <2> HIDE DEF me
  <2>3. user' \in User
    BY <2>1, <2>2 DEF User
  <2>4. reset' \in [Resets -> PasswordResetToken]
    BY <1>1, <2>1, <2>2 DEF PasswordResetToken
  <2>5. /\ token' \in [Tokens -> RefreshToken]
        /\ \A t \in Tokens : /\ token'[t].from = token[t].from
                             /\ token'[t].state = IF t \in me.seen THEN "revoked" ELSE token[t].state
    BY <1>1, <2>2 DEF RefreshToken
  <2>6. Chain'
    BY <1>1, <2>1, <2>5, ChainKept DEF SessionInv
  <2>7. \A s \in Requests \ {r}, t \in Tokens :
          holder[t] = s => holder'[t] = s /\ token'[t].state = token[t].state
    BY <1>2, <1>6, <2>1, <2>2, <2>5 DEF Unlocked
  <2>8. /\ \A t \in Tokens : token[t].state # "new" => token'[t].state # "new"
        /\ holder' \in [Tokens -> Requests \cup {None}]
    BY <1>6, <2>2, <2>5
  <2> QED BY <1>4, <2>2, <2>3, <2>4, <2>5, <2>6, <2>7, <2>8, RequestStep
<1>31. ASSUME NEW r \in Requests, Raises(r) PROVE SessionInv'
  BY <1>21, <1>31 DEF Raises
<1> QED BY <1>7, <1>8, <1>9, <1>10, <1>11, <1>12, <1>13, <1>14, <1>15, <1>16, <1>17, <1>18,
           <1>22, <1>23, <1>24, <1>25, <1>26, <1>27, <1>28, <1>29, <1>30, <1>31 DEF Next

-----------------------------------------------------------------------------
(* A challenge under the admin's edits.                                     *)

\* What a request carries to its commit, whatever happened since it read.
Carries(me) ==
  /\ me.at = "switching" => me.type \in Admin!ChallengeType
  /\ me.at = "inserting" => me.option \in Options /\ me.order \in Orders /\ me.correct \in BOOLEAN
  /\ me.at \in {"updating", "deleting"} => me.option \in Options

\* What it has checked, while nothing was committed beside it.
Sound(me) ==
  /\ me.at = "switching" => Admin!validate_correct_flags(me.type, option)
  /\ me.at = "inserting" =>
       Admin!validate_correct_flags(challenge,
         [option EXCEPT ![me.option] = [order_index |-> me.order, correct |-> me.correct]])
  /\ me.at = "updating" /\ me.correct # None =>
       Admin!validate_correct_flags(challenge, [option EXCEPT ![me.option].correct = me.correct])
  /\ me.at = "deleting" =>
       /\ Cardinality(Admin!Rows(option) \ {me.option}) >= 2
       /\ Admin!validate_correct_flags(challenge, [option EXCEPT ![me.option] = None])

OptionsInv ==
  /\ Admin!TypeOK
  /\ Admin!OneOrder
  /\ \A r \in Requests : Carries(edit[r])
  /\ challenge # None /\ ~overlapped => Admin!Answerable /\ \A r \in Requests : Sound(edit[r])

(* The instance counts as this module does.                                 *)
LEMMA Counting ==
  /\ \A S : Admin!Cardinality(S) = Cardinality(S)
  /\ \A S : Admin!IsFiniteSet(S) <=> IsFiniteSet(S)
<1>1. \A S : Admin!Cardinality(S) = Cardinality(S)
  BY DEF Admin!Cardinality, Cardinality
<1>2. \A S : Admin!IsFiniteSet(S) <=> IsFiniteSet(S)
  BY DEF Admin!IsFiniteSet, IsFiniteSet
<1> QED BY <1>1, <1>2

LEMMA OptionsStart ==
  ASSUME Admin!Init
  PROVE  OptionsInv
<1>1. Admin!Idle \in Admin!Edit /\ Admin!Idle.at = "idle"
  BY DEF Admin!Idle, Admin!Edit
<1>2. Admin!NoOptions \in Admin!Table /\ Admin!Rows(Admin!NoOptions) = {}
  BY DEF Admin!NoOptions, Admin!Table, Admin!Rows
<1> QED BY <1>1, <1>2 DEF Admin!Init, Admin!TypeOK, Admin!OneOrder, OptionsInv, Carries

(* A step that ends in a read.                                              *)
LEMMA CheckStep ==
  ASSUME OptionsInv, NEW r \in Requests, NEW x \in Admin!Edit, Admin!Goes(r, x), Admin!Checks,
         Carries(x), challenge # None /\ ~overlapped => Sound(x)
  PROVE  OptionsInv'
<1>1. edit \in [Requests -> Admin!Edit] /\ edit' = [edit EXCEPT ![r] = x]
      /\ UNCHANGED <<challenge, option, overlapped>>
  BY DEF OptionsInv, Admin!TypeOK, Admin!Goes, Admin!Checks
<1>2. \A s \in Requests : edit'[s] = IF s = r THEN x ELSE edit[s]
  BY <1>1
<1>3. Admin!TypeOK'
  BY <1>1 DEF OptionsInv, Admin!TypeOK
<1>4. \A s \in Requests : Carries(edit'[s])
  BY <1>2 DEF OptionsInv
<1>5. Admin!OneOrder' /\ (Admin!Answerable => Admin!Answerable')
  BY <1>1 DEF OptionsInv, Admin!OneOrder, Admin!Answerable, Admin!Rows,
              Admin!validate_correct_flags, Admin!Correct
<1>6. ASSUME challenge # None, ~overlapped, NEW s \in Requests
      PROVE  Sound(edit[s])' /\ Admin!Answerable
  <2>1. Sound(edit'[s]) /\ Admin!Answerable
    BY <1>2, <1>6 DEF OptionsInv
  <2> QED BY <1>1, <2>1 DEF Sound, Admin!validate_correct_flags, Admin!Rows, Admin!Correct
<1>7. challenge # None /\ ~overlapped => Admin!Answerable
  BY DEF OptionsInv
<1> QED BY <1>1, <1>3, <1>4, <1>5, <1>6, <1>7 DEF OptionsInv

(* A step that ends in a commit.                                            *)
LEMMA CommitStep ==
  ASSUME OptionsInv, NEW r \in Requests, Admin!Commits(r), option' \in Admin!Table,
         Admin!OneOrder', challenge' \in Admin!ChallengeType \cup {None},
         (edit' = edit /\ edit[r].at = "idle") \/ Admin!Ends(r),
         challenge' # None /\ ~overlapped' => Admin!Answerable'
  PROVE  OptionsInv'
<1>1. Admin!Idle \in Admin!Edit /\ Admin!Idle.at = "idle"
  BY DEF Admin!Idle, Admin!Edit
<1>2. edit \in [Requests -> Admin!Edit] /\ overlapped \in BOOLEAN
  BY DEF OptionsInv, Admin!TypeOK
<1>3. edit' \in [Requests -> Admin!Edit] /\ edit'[r].at = "idle"
      /\ \A s \in Requests \ {r} : edit'[s] = edit[s]
  BY <1>1, <1>2 DEF Admin!Ends, Admin!Goes
<1>4. overlapped' \in BOOLEAN /\ (~overlapped' => \A s \in Requests \ {r} : edit[s].at = "idle")
  BY <1>2 DEF Admin!Commits
<1>5. Admin!TypeOK'
  BY <1>3, <1>4 DEF Admin!TypeOK
<1>6. ASSUME NEW s \in Requests PROVE Carries(edit[s])'
  <2>1. CASE s = r
    BY <1>3, <2>1 DEF Carries
  <2>2. CASE s # r
    <3>1. edit'[s] = edit[s] /\ Carries(edit[s])
      BY <1>3, <2>2 DEF OptionsInv
    <3> QED BY <3>1 DEF Carries
  <2> QED BY <2>1, <2>2
<1>7. ASSUME ~overlapped', NEW s \in Requests PROVE Sound(edit[s])'
  <2>1. edit'[s].at = "idle"
    BY <1>3, <1>4, <1>7
  <2> QED BY <2>1 DEF Sound
<1> QED BY <1>5, <1>6, <1>7 DEF OptionsInv

(* Tables with the same rows correct pass the same checks.                  *)
LEMMA SameFlags ==
  ASSUME NEW type, NEW a \in Admin!Table, NEW b \in Admin!Table,
         \A o \in Options : (a[o] = None <=> b[o] = None) /\ (a[o] # None => a[o].correct = b[o].correct)
  PROVE  /\ Admin!Rows(a) = Admin!Rows(b)
         /\ Admin!validate_correct_flags(type, a) <=> Admin!validate_correct_flags(type, b)
<1>1. Admin!Rows(a) = Admin!Rows(b)
  BY DEF Admin!Rows
<1>2. Admin!Correct(a) = Admin!Correct(b)
  BY <1>1 DEF Admin!Correct, Admin!Rows
<1> QED BY <1>1, <1>2 DEF Admin!validate_correct_flags

(* More rows are no fewer.                                                  *)
LEMMA MoreRows ==
  ASSUME NEW a \in Admin!Table, NEW b \in Admin!Table, Admin!Rows(a) \subseteq Admin!Rows(b),
         Cardinality(Admin!Rows(a)) >= 2
  PROVE  Cardinality(Admin!Rows(b)) >= 2
<1>1. IsFiniteSet(Options)
  BY AccountsAssumption, Counting DEF Admin!ContentAssumption
<1>2. IsFiniteSet(Admin!Rows(b))
  BY <1>1, FS_Subset DEF Admin!Rows
<1>3. /\ Cardinality(Admin!Rows(a)) \in Nat /\ Cardinality(Admin!Rows(b)) \in Nat
      /\ Cardinality(Admin!Rows(a)) <= Cardinality(Admin!Rows(b))
  BY <1>2, FS_Subset, FS_CardinalityType
<1> QED BY <1>3

LEMMA OptionsStep ==
  ASSUME OptionsInv, [Admin!Next]_(Admin!vars)
  PROVE  OptionsInv'
<1>1. /\ challenge \in Admin!ChallengeType \cup {None} /\ option \in Admin!Table
      /\ edit \in [Requests -> Admin!Edit] /\ overlapped \in BOOLEAN
  BY DEF OptionsInv, Admin!TypeOK
<1>2. None \notin Admin!ChallengeOption /\ None \notin Orders /\ None \notin Options /\ None \notin BOOLEAN
  BY AccountsAssumption DEF Admin!ContentAssumption, Admin!ChallengeOption
<1>3. CASE UNCHANGED Admin!vars
  <2>1. UNCHANGED <<challenge, option, edit, overlapped>>
    BY <1>3 DEF Admin!vars
  <2>2. Admin!TypeOK' /\ Admin!OneOrder'
    BY <2>1 DEF OptionsInv, Admin!TypeOK, Admin!OneOrder, Admin!Rows
  <2>3. Admin!Answerable => Admin!Answerable'
    BY <2>1 DEF Admin!Answerable, Admin!Rows, Admin!validate_correct_flags, Admin!Correct
  <2>4. ASSUME NEW r \in Requests
        PROVE  Carries(edit[r])' /\ (Sound(edit[r]) => Sound(edit[r])')
    <3>1. edit'[r] = edit[r] /\ Carries(edit[r])
      BY <2>1 DEF OptionsInv
    <3> QED BY <2>1, <3>1 DEF Carries, Sound, Admin!Rows, Admin!validate_correct_flags,
               Admin!Correct
  <2> QED BY <2>1, <2>2, <2>3, <2>4 DEF OptionsInv
<1>4. CASE Admin!create_challenge
  <2>1. PICK type \in Admin!ChallengeType, table \in Admin!Table :
          /\ Cardinality(Admin!Rows(table)) >= 2
          /\ Admin!validate_correct_flags(type, table)
          /\ Admin!validate_unique_option_orders(table)
          /\ challenge' = type /\ option' = table
    BY <1>4, Counting DEF Admin!create_challenge
  <2>2. edit' = edit /\ overlapped' = FALSE /\ \A r \in Requests : edit[r].at = "idle"
    BY <1>4 DEF Admin!create_challenge
  <2>3. Admin!TypeOK'
    BY <1>1, <2>1, <2>2 DEF Admin!TypeOK
  <2>4. Admin!OneOrder'
    BY <2>1 DEF Admin!OneOrder, Admin!validate_unique_option_orders, Admin!Rows
  <2>5. Admin!Answerable'
    BY <2>1, Counting DEF Admin!Answerable, Admin!Rows, Admin!validate_correct_flags, Admin!Correct
  <2>6. \A r \in Requests : Carries(edit[r])' /\ Sound(edit[r])'
    BY <2>2 DEF Carries, Sound
  <2> QED BY <2>3, <2>4, <2>5, <2>6 DEF OptionsInv
<1>5. ASSUME NEW r \in Requests, Admin!delete_challenge(r) PROVE OptionsInv'
  <2>1. /\ challenge' = None /\ option' = Admin!NoOptions /\ Admin!Commits(r)
        /\ edit' = edit /\ edit[r].at = "idle"
    BY <1>5 DEF Admin!delete_challenge, Admin!Idles
  <2>2. Admin!NoOptions \in Admin!Table /\ Admin!OneOrder'
    BY <2>1 DEF Admin!NoOptions, Admin!Table, Admin!OneOrder, Admin!Rows
  <2> QED BY <2>1, <2>2, CommitStep
<1>6. ASSUME NEW r \in Requests, NEW type \in Admin!ChallengeType, Admin!update_challenge(r, type)
      PROVE  OptionsInv'
  <2> DEFINE x == [Admin!Idle EXCEPT !.at = "switching", !.type = type]
  <2>1. x \in Admin!Edit /\ x.at = "switching" /\ x.type = type
    BY DEF Admin!Idle, Admin!Edit
  <2>2. Admin!Goes(r, x) /\ Admin!Checks /\ Admin!validate_correct_flags(type, option)
    BY <1>6 DEF Admin!update_challenge
  <2> HIDE DEF x
  <2>3. Carries(x) /\ Sound(x)
    BY <2>1, <2>2 DEF Carries, Sound
  <2> QED BY <2>1, <2>2, <2>3, CheckStep
<1>7. ASSUME NEW r \in Requests, Admin!update(r) PROVE OptionsInv'
  <2>1. /\ edit[r].at = "switching" /\ option' = option /\ Admin!Ends(r) /\ Admin!Commits(r)
        /\ challenge' = IF challenge = None THEN None ELSE edit[r].type
    BY <1>7 DEF Admin!update
  <2>2. edit[r].type \in Admin!ChallengeType
    BY <2>1 DEF OptionsInv, Carries
  <2>3. Admin!OneOrder'
    BY <2>1 DEF OptionsInv, Admin!OneOrder, Admin!Rows
  <2>4. ASSUME challenge' # None, ~overlapped' PROVE Admin!Answerable'
    <3>1. challenge # None /\ ~overlapped /\ challenge' = edit[r].type
      BY <2>1, <2>4 DEF Admin!Commits
    <3>2. Admin!Answerable /\ Admin!validate_correct_flags(edit[r].type, option)
      BY <2>1, <3>1 DEF OptionsInv, Sound
    <3> QED BY <2>1, <3>1, <3>2 DEF Admin!Answerable, Admin!Rows, Admin!validate_correct_flags,
                                   Admin!Correct
  <2> QED BY <1>1, <2>1, <2>2, <2>3, <2>4, CommitStep
<1>8. ASSUME NEW r \in Requests, NEW o \in Options, NEW order \in Orders, NEW correct \in BOOLEAN,
             Admin!create_challenge_option(r, o, order, correct)
      PROVE  OptionsInv'
  <2> DEFINE x == [Admin!Idle EXCEPT !.at = "inserting", !.option = o, !.order = order,
                                     !.correct = correct]
  <2>1. /\ x \in Admin!Edit /\ x.at = "inserting" /\ x.option = o /\ x.order = order
        /\ x.correct = correct
    BY DEF Admin!Idle, Admin!Edit
  <2>2. /\ Admin!Goes(r, x) /\ Admin!Checks
        /\ Admin!validate_correct_flags(challenge,
             [option EXCEPT ![o] = [order_index |-> order, correct |-> correct]])
    BY <1>8 DEF Admin!create_challenge_option
  <2> HIDE DEF x
  <2>3. Carries(x)
    BY <2>1 DEF Carries
  <2>4. Sound(x)
    BY <2>1, <2>2 DEF Sound
  <2> QED BY <2>1, <2>2, <2>3, <2>4, CheckStep
<1>9. ASSUME NEW r \in Requests, NEW o \in Options, NEW order \in Orders \cup {None},
             NEW correct \in BOOLEAN \cup {None}, Admin!update_challenge_option(r, o, order, correct)
      PROVE  OptionsInv'
  <2>1. PICK moved \in Orders \cup {None}, flag \in BOOLEAN \cup {None} :
          /\ Admin!Goes(r, [Admin!Idle EXCEPT !.at = "updating", !.option = o, !.order = moved,
                                              !.correct = flag])
          /\ flag # None => flag = correct
    <3> DEFINE moves == order # None /\ order # option[o].order_index
               changes == correct # option[o].correct
    <3>1. Admin!Goes(r, [Admin!Idle EXCEPT !.at = "updating", !.option = o,
                           !.order = IF moves THEN order ELSE None,
                           !.correct = IF changes THEN correct ELSE None])
      BY <1>9 DEF Admin!update_challenge_option
    <3> HIDE DEF moves, changes
    <3> QED BY <3>1
  <2> DEFINE x == [Admin!Idle EXCEPT !.at = "updating", !.option = o, !.order = moved,
                                     !.correct = flag]
  <2>2. x \in Admin!Edit /\ x.at = "updating" /\ x.option = o /\ x.correct = flag
    BY DEF Admin!Idle, Admin!Edit
  <2>3. /\ Admin!Goes(r, x) /\ Admin!Checks
        /\ flag # None => Admin!validate_correct_flags(challenge, [option EXCEPT ![o].correct = flag])
    BY <1>9, <2>1 DEF Admin!update_challenge_option
  <2> HIDE DEF x
  <2>4. Carries(x)
    BY <2>2 DEF Carries
  <2>5. Sound(x)
    BY <2>2, <2>3 DEF Sound
  <2> QED BY <2>2, <2>3, <2>4, <2>5, CheckStep
<1>10. ASSUME NEW r \in Requests, NEW o \in Options, Admin!delete_challenge_option(r, o)
       PROVE  OptionsInv'
  <2> DEFINE x == [Admin!Idle EXCEPT !.at = "deleting", !.option = o]
  <2>1. x \in Admin!Edit /\ x.at = "deleting" /\ x.option = o
    BY DEF Admin!Idle, Admin!Edit
  <2>2. /\ Admin!Goes(r, x) /\ Admin!Checks /\ Cardinality(Admin!Rows(option) \ {o}) >= 2
        /\ Admin!validate_correct_flags(challenge, [option EXCEPT ![o] = None])
    BY <1>10, Counting DEF Admin!delete_challenge_option
  <2> HIDE DEF x
  <2>3. Carries(x)
    BY <2>1 DEF Carries
  <2>4. Sound(x)
    BY <2>1, <2>2 DEF Sound
  <2> QED BY <2>1, <2>2, <2>3, <2>4, CheckStep
<1>11. ASSUME NEW r \in Requests, Admin!Ends(r), Admin!Commits(r), challenge' = challenge,
              option' = option
       PROVE  OptionsInv'
  <2>1. Admin!OneOrder'
    BY <1>11 DEF OptionsInv, Admin!OneOrder, Admin!Rows
  <2>2. ASSUME challenge' # None, ~overlapped' PROVE Admin!Answerable'
    <3>1. Admin!Answerable
      BY <1>11, <2>2 DEF OptionsInv, Admin!Commits
    <3> QED BY <1>11, <3>1 DEF Admin!Answerable, Admin!Rows, Admin!validate_correct_flags,
                              Admin!Correct
  <2> QED BY <1>1, <1>11, <2>1, <2>2, CommitStep
<1>12. ASSUME NEW r \in Requests, Admin!Ends(r), Admin!Commits(r), challenge' = challenge,
              NEW table \in Admin!Table, Admin!Writes(table),
              Admin!Rows(option) \subseteq Admin!Rows(table),
              challenge # None /\ ~overlapped => Admin!validate_correct_flags(challenge, table)
       PROVE  OptionsInv'
  <2>1. CASE option' = option
    BY <1>11, <1>12, <2>1
  <2>2. CASE option' = table /\ Admin!validate_unique_option_orders(table)
    <3>1. Admin!OneOrder'
      BY <2>2 DEF Admin!OneOrder, Admin!validate_unique_option_orders, Admin!Rows
    <3>2. ASSUME challenge' # None, ~overlapped' PROVE Admin!Answerable'
      <4>1. challenge # None /\ ~overlapped
        BY <1>12, <3>2 DEF Admin!Commits
      <4>2. Admin!validate_correct_flags(challenge, table) /\ Cardinality(Admin!Rows(option)) >= 2
        BY <1>12, <4>1, Counting DEF OptionsInv, Admin!Answerable
      <4>3. Cardinality(Admin!Rows(table)) >= 2
        BY <1>1, <1>12, <4>2, MoreRows
      <4> QED BY <1>12, <2>2, <4>2, <4>3, Counting
              DEF Admin!Answerable, Admin!Rows, Admin!validate_correct_flags, Admin!Correct
    <3> QED BY <1>1, <1>12, <2>2, <3>1, <3>2, CommitStep
  <2> QED BY <1>12, <2>1, <2>2 DEF Admin!Writes, Admin!uq_challenge_options
<1>13. ASSUME NEW r \in Requests, Admin!create(r) PROVE OptionsInv'
  <2> DEFINE me == edit[r]
             row == [order_index |-> me.order, correct |-> me.correct]
             table == [option EXCEPT ![me.option] = row]
  <2>1. /\ me.at = "inserting" /\ challenge' = challenge /\ Admin!Ends(r) /\ Admin!Commits(r)
        /\ option' = option \/ Admin!Writes(table)
    BY <1>13 DEF Admin!create
  <2>2. me.option \in Options /\ row \in Admin!ChallengeOption
    BY <2>1 DEF OptionsInv, Carries, Admin!ChallengeOption
  <2>3. challenge # None /\ ~overlapped => Admin!validate_correct_flags(challenge, table)
    BY <2>1 DEF OptionsInv, Sound
  <2>4. table \in Admin!Table /\ Admin!Rows(option) \subseteq Admin!Rows(table)
    <3> HIDE DEF row, me
    <3> QED BY <1>1, <1>2, <2>2 DEF Admin!Table, Admin!Rows
  <2> HIDE DEF table
  <2> QED BY <1>11, <1>12, <2>1, <2>3, <2>4
<1>14. ASSUME NEW r \in Requests, Admin!UpdateOption(r) PROVE OptionsInv'
  <2> DEFINE me == edit[r]
             row == option[me.option]
             new == [order_index |-> IF me.order = None THEN row.order_index ELSE me.order,
                     correct     |-> IF me.correct = None THEN row.correct ELSE me.correct]
             table == [option EXCEPT ![me.option] = new]
  <2>1. /\ me.at = "updating" /\ challenge' = challenge /\ Admin!Ends(r) /\ Admin!Commits(r)
        /\ IF row = None THEN option' = option ELSE Admin!Writes(table)
    BY <1>14 DEF Admin!UpdateOption
  <2>2. CASE row = None
    BY <1>11, <2>1, <2>2
  <2>3. CASE row # None
    <3>1. me.option \in Options /\ row \in Admin!ChallengeOption
          /\ me.order \in Orders \cup {None} /\ me.correct \in BOOLEAN \cup {None}
      BY <1>1, <2>1, <2>3 DEF OptionsInv, Carries, Admin!Table, Admin!Edit
    <3>2. new \in Admin!ChallengeOption
          /\ new.correct = IF me.correct = None THEN row.correct ELSE me.correct
      BY <3>1 DEF Admin!ChallengeOption
    <3>3. table \in Admin!Table
          /\ \A o \in Options : table[o] = IF o = me.option THEN new ELSE option[o]
      BY <1>1, <3>1, <3>2 DEF Admin!Table
    <3>4. Admin!Rows(option) \subseteq Admin!Rows(table)
      <4> HIDE DEF table, new
      <4> QED BY <1>1, <1>2, <3>2, <3>3 DEF Admin!Rows
    <3>5. ASSUME challenge # None, ~overlapped
          PROVE  Admin!validate_correct_flags(challenge, table)
      <4>1. CASE me.correct = None
        <5>1. Admin!validate_correct_flags(challenge, option)
          BY <3>5 DEF OptionsInv, Admin!Answerable
        <5>2. \A o \in Options : /\ table[o] = None <=> option[o] = None
                                 /\ table[o] # None => table[o].correct = option[o].correct
          <6> HIDE DEF table, new
          <6> QED BY <1>2, <2>3, <3>1, <3>2, <3>3, <4>1
        <5> HIDE DEF table
        <5> QED BY <1>1, <3>3, <5>1, <5>2, SameFlags
      <4>2. CASE me.correct # None
        <5> DEFINE flagged == [option EXCEPT ![me.option].correct = me.correct]
        <5>1. Admin!validate_correct_flags(challenge, flagged)
          BY <2>1, <3>5, <4>2 DEF OptionsInv, Sound
        <5>2. /\ [row EXCEPT !.correct = me.correct] \in Admin!ChallengeOption
              /\ [row EXCEPT !.correct = me.correct].correct = me.correct
          BY <3>1, <4>2 DEF Admin!ChallengeOption
        <5>3. flagged \in Admin!Table
              /\ \A o \in Options : flagged[o] = IF o = me.option THEN [row EXCEPT !.correct = me.correct]
                                                 ELSE option[o]
          BY <1>1, <3>1, <5>2 DEF Admin!Table
        <5>4. \A o \in Options : /\ table[o] = None <=> flagged[o] = None
                                 /\ table[o] # None => table[o].correct = flagged[o].correct
          <6> HIDE DEF table, new, flagged, row
          <6> QED BY <1>2, <3>2, <3>3, <4>2, <5>2, <5>3
        <5> HIDE DEF table, flagged
        <5> QED BY <3>3, <5>1, <5>3, <5>4, SameFlags
      <4> QED BY <4>1, <4>2
    <3> HIDE DEF table
    <3> QED BY <1>12, <2>1, <2>3, <3>3, <3>4, <3>5
  <2> QED BY <2>2, <2>3
<1>15. ASSUME NEW r \in Requests, Admin!delete(r) PROVE OptionsInv'
  <2> DEFINE o == edit[r].option
  <2>1. /\ edit[r].at = "deleting" /\ challenge' = challenge /\ Admin!Ends(r) /\ Admin!Commits(r)
        /\ option' = [option EXCEPT ![o] = None]
    BY <1>15 DEF Admin!delete
  <2>2. o \in Options
    BY <2>1 DEF OptionsInv, Carries
  <2>3. /\ option' \in Admin!Table
        /\ \A p \in Options : option'[p] = IF p = o THEN None ELSE option[p]
    BY <1>1, <2>1, <2>2 DEF Admin!Table
  <2>4. Admin!Rows(option') = Admin!Rows(option) \ {o}
    <3> HIDE DEF o
    <3> QED BY <2>3 DEF Admin!Rows
  <2>5. Admin!OneOrder'
    BY <2>3 DEF OptionsInv, Admin!OneOrder, Admin!Rows
  <2>6. ASSUME challenge' # None, ~overlapped' PROVE Admin!Answerable'
    <3>1. challenge # None /\ ~overlapped
      BY <2>1, <2>6 DEF Admin!Commits
    <3>2. /\ Cardinality(Admin!Rows(option) \ {o}) >= 2
          /\ Admin!validate_correct_flags(challenge, [option EXCEPT ![o] = None])
      BY <2>1, <3>1 DEF OptionsInv, Sound
    <3>3. Cardinality(Admin!Rows(option')) >= 2 /\ Admin!validate_correct_flags(challenge', option')
      BY <2>1, <2>4, <3>2
    <3> QED BY <3>3, Counting DEF Admin!Answerable, Admin!Rows, Admin!validate_correct_flags,
                                  Admin!Correct
  <2> QED BY <1>1, <2>1, <2>3, <2>5, <2>6, CommitStep
<1> QED BY <1>3, <1>4, <1>5, <1>6, <1>7, <1>8, <1>9, <1>10, <1>13, <1>14, <1>15 DEF Admin!Next

-----------------------------------------------------------------------------
(* The quizzes: how many are drawn.                                         *)

LEMMA SameSets == \A S : Quiz!IsFiniteSet(S) <=> IsFiniteSet(S)
  BY DEF Quiz!IsFiniteSet, IsFiniteSet

LEMMA SameSizes == \A S : Quiz!Cardinality(S) = Cardinality(S)
  BY DEF Quiz!Cardinality, Cardinality

LEMMA BankIs ==
  ASSUME Quiz!TypeOK
  PROVE  /\ IsFiniteSet(DOMAIN bank)
         /\ \A c \in DOMAIN bank : bank[c] \in Quiz!Challenge
         /\ OverFetch \in Nat \ {0} /\ QUESTIONS_PER_LESSON \in Nat /\ IsFiniteSet(Lessons)
         /\ MaxCount \in Nat
<1>1. Quiz!QuizAssumption
  BY AccountsAssumption
<1>2. Quiz!IsBank(bank)
  BY DEF Quiz!TypeOK
<1>3. /\ OverFetch \in Nat \ {0} /\ QUESTIONS_PER_LESSON \in Nat /\ IsFiniteSet(Lessons)
      /\ MaxCount \in Nat
  BY <1>1, SameSets DEF Quiz!QuizAssumption
<1> QED BY <1>2, <1>3, SameSets DEF Quiz!IsBank

LEMMA RowsAreFinite ==
  ASSUME Quiz!TypeOK, NEW rows, rows \subseteq DOMAIN bank
  PROVE  IsFiniteSet(rows)
  BY BankIs, FS_Subset

LEMMA LimitedRows ==
  ASSUME NEW rows, NEW limit, NEW some \in Quiz!Limited(rows, limit)
  PROVE  some \subseteq rows
  BY DEF Quiz!Limited, Quiz!kSubset

LEMMA LimitedIs ==
  ASSUME NEW rows, IsFiniteSet(rows), NEW limit \in Nat, NEW some \in Quiz!Limited(rows, limit)
  PROVE  /\ some \subseteq rows /\ IsFiniteSet(some)
         /\ Cardinality(some) \in Nat /\ Cardinality(rows) \in Nat
         /\ Cardinality(some) = Quiz!Lesser(limit, Cardinality(rows))
         /\ Cardinality(rows) <= limit => some = rows
         /\ Cardinality(rows) > limit => Cardinality(some) = limit
<1> DEFINE k == Quiz!Lesser(limit, Cardinality(rows))
<1>0. some \in {s \in SUBSET rows : Cardinality(s) = k}
  BY SameSizes DEF Quiz!Limited, Quiz!kSubset
<1>1. some \subseteq rows /\ Cardinality(some) = k
  <2> HIDE DEF k
  <2> QED BY <1>0
<1>2. IsFiniteSet(some)
  BY <1>1, FS_Subset
<1>3. Cardinality(some) \in Nat /\ Cardinality(rows) \in Nat
  BY <1>2, FS_CardinalityType
<1>4. Cardinality(rows) <= limit => some = rows
  <2> SUFFICES ASSUME Cardinality(rows) <= limit
               PROVE  some = rows
    OBVIOUS
  <2>1. Cardinality(rows) = Cardinality(some)
    BY <1>1, <1>3 DEF Quiz!Lesser
  <2> QED BY <1>1, <2>1, FS_Subset
<1>5. Cardinality(rows) > limit => Cardinality(some) = limit
  BY <1>1, <1>3 DEF Quiz!Lesser
<1> QED BY <1>1, <1>2, <1>3, <1>4, <1>5

\* A pool large enough for the excluded ones fills the draw.
LEMMA DrawFills ==
  ASSUME NEW rows, IsFiniteSet(rows), NEW exclude, IsFiniteSet(exclude), NEW count \in Nat,
         NEW limit \in Nat, count + Cardinality(exclude) <= limit,
         NEW pool \in Quiz!Limited(rows, limit),
         NEW some \in Quiz!Limited(pool \ exclude, count)
  PROVE  /\ some \subseteq rows \ exclude
         /\ Cardinality(some) = Quiz!Lesser(count, Cardinality(rows \ exclude))
<1> DEFINE n == Cardinality(exclude)
           left0 == Cardinality(pool \ exclude)
           all0 == Cardinality(rows \ exclude)
<1>1. /\ pool \subseteq rows /\ IsFiniteSet(pool) /\ Cardinality(pool) \in Nat
      /\ Cardinality(rows) \in Nat
      /\ Cardinality(rows) <= limit => pool = rows
      /\ Cardinality(rows) > limit => Cardinality(pool) = limit
  BY LimitedIs
<1>2. IsFiniteSet(pool \ exclude) /\ IsFiniteSet(rows \ exclude) /\ pool \ exclude \subseteq rows \ exclude
  BY <1>1, FS_Difference
<1>3. n \in Nat /\ left0 \in Nat /\ all0 \in Nat /\ left0 <= all0
  BY <1>2, FS_CardinalityType, FS_Subset
<1>4. some \subseteq pool \ exclude /\ Cardinality(some) = Quiz!Lesser(count, left0)
  BY <1>2, LimitedIs
<1>5. Cardinality(rows) > limit => left0 >= count
  <2> SUFFICES ASSUME Cardinality(rows) > limit
               PROVE  left0 >= count
    OBVIOUS
  <2>1. left0 = Cardinality(pool) - Cardinality(pool \cap exclude)
    BY <1>1, FS_Difference
  <2>2. Cardinality(pool \cap exclude) <= n /\ Cardinality(pool \cap exclude) \in Nat
    BY FS_Intersection, FS_CardinalityType
  <2> HIDE DEF n, left0
  <2> QED BY <1>1, <1>3, <2>1, <2>2 DEF n
<1>6. Cardinality(some) = Quiz!Lesser(count, all0)
  <2>1. CASE Cardinality(rows) <= limit
    BY <1>1, <1>4, <2>1
  <2>2. CASE Cardinality(rows) > limit
    <3>1. left0 >= count /\ all0 >= count
      BY <1>3, <1>5, <2>2
    <3> HIDE DEF left0, all0
    <3> QED BY <1>3, <1>4, <3>1 DEF Quiz!Lesser
  <2> QED BY <1>1, <2>1, <2>2
<1> QED BY <1>2, <1>4, <1>6

\* A pool with room for the useless ones fills the draw.
LEMMA SpareFills ==
  ASSUME NEW rows, IsFiniteSet(rows), NEW useful, useful \subseteq rows, NEW count \in Nat,
         NEW spare \in Nat, NEW pool \in Quiz!Limited(rows, count + spare),
         NEW some \in Quiz!Limited(pool \cap useful, count),
         Cardinality(rows \ useful) <= spare
  PROVE  Cardinality(some) >= Quiz!Lesser(count, Cardinality(useful))
<1> DEFINE got  == Cardinality(pool \cap useful)
           all0 == Cardinality(useful)
           rest == Cardinality(rows \ useful)
<1>0. count + spare \in Nat
  OBVIOUS
<1>1. /\ pool \subseteq rows /\ IsFiniteSet(pool) /\ Cardinality(pool) \in Nat
      /\ Cardinality(rows) \in Nat
      /\ Cardinality(rows) <= count + spare => pool = rows
      /\ Cardinality(rows) > count + spare => Cardinality(pool) = count + spare
  BY <1>0, LimitedIs
<1>2. IsFiniteSet(pool \cap useful) /\ IsFiniteSet(useful) /\ IsFiniteSet(rows \ useful)
  BY <1>1, FS_Intersection, FS_Subset, FS_Difference
<1>3. got \in Nat /\ all0 \in Nat /\ rest \in Nat
  BY <1>2, FS_CardinalityType
<1>4. Cardinality(some) = Quiz!Lesser(count, got)
  BY <1>2, LimitedIs
<1>5. CASE Cardinality(rows) <= count + spare
  <2>1. pool \cap useful = useful
    BY <1>1, <1>5
  <2> QED BY <1>3, <1>4, <2>1 DEF Quiz!Lesser
<1>6. CASE Cardinality(rows) > count + spare
  <2>1. Cardinality(pool \ useful) = Cardinality(pool) - got
    BY <1>1, FS_Difference
  <2>2. Cardinality(pool \ useful) <= rest /\ Cardinality(pool \ useful) \in Nat
    <3>1. pool \ useful \subseteq rows \ useful /\ IsFiniteSet(pool \ useful)
      BY <1>1, FS_Difference
    <3> QED BY <1>2, <3>1, FS_Subset, FS_CardinalityType
  <2>3. rest <= spare
    OBVIOUS
  <2> HIDE DEF got, all0, rest
  <2>4. got >= count
    BY <1>1, <1>3, <1>6, <2>1, <2>2, <2>3
  <2> QED BY <1>3, <1>4, <2>4 DEF Quiz!Lesser, all0
<1> QED BY <1>1, <1>5, <1>6

\* What a lesson has in some categories, without some of it.
Unseen(lesson, filters, exclude) ==
  {c \in Quiz!Of(lesson) \ exclude : bank[c].filter \in filters}

LEMMA OverFetched ==
  ASSUME NEW count \in Nat, NEW factor \in Nat \ {0}
  PROVE  count * factor \in Nat /\ count <= count * factor
<1>1. count * (factor - 1) \in Nat
  OBVIOUS
<1>2. count * (factor - 1) = count * factor - count
  OBVIOUS
<1>3. count * factor \in Nat
  OBVIOUS
<1> QED BY <1>1, <1>2, <1>3

LEMMA OfIs ==
  \A lesson : Quiz!Of(lesson) = {c \in DOMAIN bank : bank[c].lesson = lesson}
  BY DEF Quiz!Of

LEMMA QuestionsFill ==
  ASSUME Quiz!TypeOK, NEW lesson, NEW filters, NEW exclude \in SUBSET DOMAIN bank, NEW count \in Nat,
         NEW questions \in Quiz!draw_questions(lesson, count, filters, exclude)
  PROVE  /\ questions \subseteq Unseen(lesson, filters, exclude)
         /\ Cardinality(questions) = Quiz!Lesser(count, Cardinality(Unseen(lesson, filters, exclude)))
<1> DEFINE rows  == {c \in DOMAIN bank : bank[c].lesson = lesson /\ bank[c].filter \in filters}
           limit == count * OverFetch + Cardinality(exclude)
<1>1. PICK pool \in Quiz!Limited(rows, limit) : questions \in Quiz!Limited(pool \ exclude, count)
  BY SameSizes DEF Quiz!draw_questions, Quiz!list_by_lesson_filtered, Quiz!pool_limit
<1>2. IsFiniteSet(rows) /\ IsFiniteSet(exclude)
  BY RowsAreFinite
<1>3. limit \in Nat /\ count + Cardinality(exclude) <= limit
  <2>1. Cardinality(exclude) \in Nat
    BY <1>2, FS_CardinalityType
  <2>2. count * OverFetch \in Nat /\ count <= count * OverFetch
    BY BankIs, OverFetched
  <2> DEFINE read == count * OverFetch
  <2> HIDE DEF read
  <2>3. read \in Nat /\ count <= read
    BY <2>2 DEF read
  <2>4. limit = read + Cardinality(exclude)
    BY DEF read
  <2> QED BY <2>1, <2>3, <2>4
<1>4. rows \ exclude = Unseen(lesson, filters, exclude)
  BY DEF Unseen, Quiz!Of
<1> HIDE DEF rows, limit
<1>5. /\ questions \subseteq rows \ exclude
      /\ Cardinality(questions) = Quiz!Lesser(count, Cardinality(rows \ exclude))
  BY <1>1, <1>2, <1>3, DrawFills
<1> QED BY <1>4, <1>5

\* Drawn lesson by lesson, what a lesson has is what was drawn from it.
LEMMA PartIsWhole ==
  ASSUME NEW part \in [Lessons -> SUBSET DOMAIN bank],
         \A lesson \in Lessons : part[lesson] \subseteq Quiz!Of(lesson),
         NEW lesson \in Lessons
  PROVE  (UNION Quiz!Range(part)) \cap Quiz!Of(lesson) = part[lesson]
<1>1. Quiz!Range(part) = {part[l] : l \in Lessons}
  BY DEF Quiz!Range
<1>2. \A l \in Lessons : \A c \in part[l] : c \in Quiz!Of(lesson) => l = lesson
  BY DEF Quiz!Of
<1>3. part[lesson] \subseteq UNION {part[l] : l \in Lessons}
  OBVIOUS
<1>4. ASSUME NEW c \in UNION {part[l] : l \in Lessons}, c \in Quiz!Of(lesson)
      PROVE  c \in part[lesson]
  <2>1. PICK l \in Lessons : c \in part[l]
    BY <1>4
  <2> QED BY <1>2, <1>4, <2>1
<1> DEFINE every == UNION {part[l] : l \in Lessons}
<1>5. /\ UNION Quiz!Range(part) = every
      /\ part[lesson] \subseteq every /\ part[lesson] \subseteq Quiz!Of(lesson)
      /\ \A c \in every : c \in Quiz!Of(lesson) => c \in part[lesson]
  BY <1>1, <1>3, <1>4
<1> HIDE DEF every
<1> QED BY <1>5

\* So many lessons have no more than so many questions each.
LEMMA PaperIsBounded ==
  ASSUME NEW L, IsFiniteSet(L), NEW most \in Nat, NEW f,
         \A l \in L : IsFiniteSet(f[l]) /\ Cardinality(f[l]) <= most
  PROVE  Cardinality(UNION {f[l] : l \in L}) <= most * Cardinality(L)
<1> DEFINE all0(S) == UNION {f[l] : l \in S}
           more    == {S \in SUBSET L : ~(Cardinality(all0(S)) <= most * Cardinality(S))}
<1>1. \A S \in SUBSET L : IsFiniteSet(S) /\ Cardinality(S) \in Nat
  BY FS_Subset, FS_CardinalityType
<1>2. \A S \in SUBSET L : IsFiniteSet(all0(S)) /\ Cardinality(all0(S)) \in Nat
  <2> SUFFICES ASSUME NEW S \in SUBSET L
               PROVE  IsFiniteSet(all0(S))
    BY FS_CardinalityType
  <2>1. IsFiniteSet({f[l] : l \in S})
    <3>1. IsFiniteSet(S)
      BY <1>1
    <3> DEFINE g == [l \in S |-> f[l]]
    <3>2. g \in Surjection(S, {f[l] : l \in S})
      BY DEF Surjection
    <3> QED BY <3>1, <3>2, FS_Surjection
  <2>2. \A T \in {f[l] : l \in S} : IsFiniteSet(T)
    OBVIOUS
  <2> QED BY <2>1, <2>2, FS_UNION
<1>3. SUFFICES ASSUME more # {}
               PROVE  FALSE
  OBVIOUS
<1>4. IsWellFoundedOn(StrictSubsetOrdering(L), SUBSET L)
  BY FS_StrictSubsetOrderingWellFounded, FS_FiniteSubsetsOfFinite
<1>5. PICK S \in more : \A T \in more : ~(<<T, S>> \in StrictSubsetOrdering(L))
  <2>1. more \subseteq SUBSET L
    OBVIOUS
  <2> HIDE DEF more
  <2> QED BY <1>3, <1>4, <2>1, WFMin
<1>6. S # {}
  <2> SUFFICES ASSUME S = {}
               PROVE  FALSE
    OBVIOUS
  <2>1. all0(S) = {} /\ Cardinality(all0(S)) = 0 /\ Cardinality(S) = 0
    BY FS_EmptySet
  <2> QED BY <2>1, <1>5
<1>7. PICK l \in S : TRUE
  BY <1>6
<1> DEFINE T == S \ {l}
<1>8. T \in SUBSET L /\ T \notin more
  BY <1>5, <1>7 DEF StrictSubsetOrdering
<1>9. Cardinality(all0(T)) <= most * Cardinality(T)
  BY <1>8
<1>10. Cardinality(T) = Cardinality(S) - 1
  BY <1>1, <1>7, FS_RemoveElement
<1>11. Cardinality(all0(S)) <= Cardinality(all0(T)) + Cardinality(f[l])
  <2>1. all0(S) = all0(T) \cup f[l]
    BY <1>7
  <2>2. IsFiniteSet(all0(T)) /\ IsFiniteSet(f[l])
    BY <1>2, <1>7, <1>8
  <2>3. Cardinality(all0(T) \cup f[l])
          = Cardinality(all0(T)) + Cardinality(f[l]) - Cardinality(all0(T) \cap f[l])
    BY <2>2, FS_Union
  <2>4. /\ Cardinality(all0(T) \cap f[l]) \in Nat /\ Cardinality(all0(T)) \in Nat
        /\ Cardinality(f[l]) \in Nat
    BY <2>2, FS_Intersection, FS_CardinalityType
  <2> HIDE DEF all0, T
  <2> QED BY <2>1, <2>3, <2>4
<1> DEFINE n == Cardinality(S)
<1>12. n \in Nat /\ n - 1 \in Nat
  BY <1>1, <1>8, <1>10
<1>13. most * (n - 1) = most * n - most /\ most * n \in Nat
  BY <1>12
<1>14. /\ Cardinality(f[l]) <= most /\ Cardinality(f[l]) \in Nat
       /\ Cardinality(all0(S)) \in Nat /\ Cardinality(all0(T)) \in Nat
  BY <1>2, <1>7, <1>8, FS_CardinalityType
<1>15. ~(Cardinality(all0(S)) <= most * n)
  BY <1>5
<1>16. Cardinality(all0(T)) <= most * (n - 1)
  BY <1>9, <1>10
<1> HIDE DEF all0, T, n
<1> QED BY <1>11, <1>12, <1>13, <1>14, <1>15, <1>16

------------------------------------------------------------

Enough(questions, rows, useful, count, spare) ==
  Cardinality(rows \ useful) <= spare =>
    Cardinality(questions) >= Quiz!Lesser(count, Cardinality(useful))

Filtered(filters) == {c \in DOMAIN bank : bank[c].filter \in filters}
Tapped(rows)      == {c \in rows : Quiz!duo_takes(c)}
Asked(rows)       == {c \in rows : Quiz!Answerable(c)}

\* That a set is full, and that what fights and exams draw has a key.
FullLessons(d) ==
  /\ d.questions \subseteq UNION {Unseen(lesson, d.filters, d.exclude) : lesson \in Lessons}
  /\ \A lesson \in IF d.for = "unit" THEN Lessons ELSE {d.lesson} :
       Cardinality(d.questions \cap Quiz!Of(lesson))
         = Quiz!Lesser(d.count, Cardinality(Unseen(lesson, d.filters, d.exclude)))

FullPaper(d) ==
  \A lesson \in Lessons :
    Enough(d.questions \cap Quiz!Of(lesson), Quiz!Of(lesson), Asked(Quiz!Of(lesson)),
           QUESTIONS_PER_LESSON, QUESTIONS_PER_LESSON)

FullDraw(d) ==
  /\ d.for \in {"lesson", "unit"} => FullLessons(d)
  /\ d.for = "duo" =>
       Enough(d.questions, Filtered(d.filters), Tapped(Filtered(d.filters)), d.count, 2 * d.count)
  /\ d.for = "battle" =>
       Enough(d.questions, Quiz!Of(d.lesson), Asked(Quiz!Of(d.lesson)), d.count, d.count)
  /\ d.for = "benchmark" /\ d.count >= QUESTIONS_PER_LESSON * Cardinality(Lessons) => FullPaper(d)

Keyed(d) ==
  /\ d.for = "duo" => \A c \in d.questions : Quiz!duo_takes(c)
  /\ d.for \in {"battle", "benchmark"} => \A c \in d.questions : Quiz!Answerable(c)

QuizInv == Quiz!TypeOK /\ FullDraw(drawn) /\ Keyed(drawn)

LEMMA BankStays ==
  ASSUME bank' = bank, Quiz!TypeOK, drawn'.for \in {"lesson", "unit", "duo", "battle", "benchmark"},
         drawn'.questions \subseteq DOMAIN bank, FullDraw(drawn'), Keyed(drawn')
  PROVE  QuizInv'
<1>1. Quiz!TypeOK'
  BY DEF Quiz!TypeOK, Quiz!IsBank
<1>2. FullDraw(drawn)'
  BY DEF FullDraw, FullLessons, FullPaper, Filtered, Tapped, Asked, Unseen, Quiz!Of,
         Quiz!duo_takes, Quiz!Answerable
<1>3. Keyed(drawn)'
  BY DEF Keyed, Quiz!duo_takes, Quiz!Answerable
<1> QED BY <1>1, <1>2, <1>3 DEF QuizInv

LEMMA FullIsFull ==
  ASSUME FullDraw(drawn)
  PROVE  Quiz!DrawIsFull
<1> USE SameSizes DEF FullDraw, FullLessons, FullPaper, Enough
<1>1. \A lesson : Unseen(lesson, drawn.filters, drawn.exclude)
                    = {c \in Quiz!Of(lesson) \ drawn.exclude : bank[c].filter \in drawn.filters}
  BY DEF Unseen
<1>2. /\ Filtered(drawn.filters) = {c \in DOMAIN bank : bank[c].filter \in drawn.filters}
      /\ \A rows : Tapped(rows) = {c \in rows : Quiz!duo_takes(c)}
      /\ \A rows : Asked(rows) = {c \in rows : Quiz!Answerable(c)}
  BY DEF Filtered, Tapped, Asked
<1> QED BY <1>1, <1>2 DEF Quiz!DrawIsFull, Quiz!Filled, Quiz!Number

LEMMA QuizStart ==
  ASSUME AccountsInit
  PROVE  QuizInv
<1>1. drawn = Quiz!NoSet /\ drawn.for = "nobody" /\ drawn.questions = {}
  BY DEF AccountsInit, Quiz!Init, Quiz!NoSet
<1>2. Quiz!IsBank(bank)
  <2>1. CASE subject = "quiz"
    BY <2>1, AccountsAssumption DEF AccountsInit, Quiz!Init, Quiz!QuizAssumption
  <2>2. CASE subject # "quiz"
    <3>1. bank = <<>>
      BY <2>2 DEF AccountsInit
    <3>2. DOMAIN bank = {}
      BY <3>1
    <3> QED BY <3>2, FS_EmptySet, SameSets DEF Quiz!IsBank
  <2> QED BY <2>1, <2>2
<1> QED BY <1>1, <1>2 DEF QuizInv, Quiz!TypeOK, FullDraw, Keyed

\* What each kind of quiz draws.
LEMMA LessonFull ==
  ASSUME QuizInv, NEW lesson \in Lessons, NEW count \in Nat, NEW filters,
         NEW exclude \in SUBSET DOMAIN bank,
         Quiz!generate_for_lesson(lesson, count, filters, exclude)
  PROVE  QuizInv'
<1>1. PICK questions \in Quiz!draw_questions(lesson, count, filters, exclude) :
        /\ bank' = bank
        /\ drawn' = [for |-> "lesson", lesson |-> lesson, filters |-> filters, exclude |-> exclude,
                     count |-> count, questions |-> questions]
  BY DEF Quiz!generate_for_lesson, Quiz!Serves, Quiz!NoSet
<1>2. /\ drawn'.for = "lesson" /\ drawn'.lesson = lesson /\ drawn'.filters = filters
      /\ drawn'.exclude = exclude /\ drawn'.count = count /\ drawn'.questions = questions
  BY <1>1
<1>3. /\ questions \subseteq Unseen(lesson, filters, exclude)
      /\ Cardinality(questions) = Quiz!Lesser(count, Cardinality(Unseen(lesson, filters, exclude)))
  BY QuestionsFill DEF QuizInv
<1>4. questions \subseteq DOMAIN bank /\ questions \cap Quiz!Of(lesson) = questions
  BY <1>3 DEF Unseen, Quiz!Of
<1>5. questions \subseteq UNION {Unseen(other, filters, exclude) : other \in Lessons}
  BY <1>3
<1>6. FullLessons(drawn')
  BY <1>2, <1>3, <1>4, <1>5 DEF FullLessons
<1> QED BY <1>1, <1>2, <1>4, <1>6, BankStays DEF QuizInv, FullDraw, Keyed

LEMMA UnitFull ==
  ASSUME QuizInv, NEW count \in Nat, NEW filters, NEW exclude \in SUBSET DOMAIN bank,
         Quiz!generate_for_unit(count, filters, exclude)
  PROVE  QuizInv'
<1>1. PICK part \in [Lessons -> SUBSET DOMAIN bank] :
        /\ \A lesson \in Lessons : part[lesson] \in Quiz!draw_questions(lesson, count, filters, exclude)
        /\ bank' = bank
        /\ drawn' = [for |-> "unit", lesson |-> None, filters |-> filters, exclude |-> exclude,
                     count |-> count, questions |-> UNION Quiz!Range(part)]
  BY DEF Quiz!generate_for_unit, Quiz!Serves, Quiz!NoSet
<1> DEFINE questions == UNION Quiz!Range(part)
<1>2. /\ drawn'.for = "unit" /\ drawn'.filters = filters
      /\ drawn'.exclude = exclude /\ drawn'.count = count /\ drawn'.questions = questions
  BY <1>1
<1>3. ASSUME NEW lesson \in Lessons
      PROVE  /\ part[lesson] \subseteq Unseen(lesson, filters, exclude)
             /\ part[lesson] \subseteq Quiz!Of(lesson)
             /\ Cardinality(part[lesson])
                  = Quiz!Lesser(count, Cardinality(Unseen(lesson, filters, exclude)))
  <2>1. part[lesson] \in Quiz!draw_questions(lesson, count, filters, exclude)
    BY <1>1
  <2>2. /\ part[lesson] \subseteq Unseen(lesson, filters, exclude)
        /\ Cardinality(part[lesson])
             = Quiz!Lesser(count, Cardinality(Unseen(lesson, filters, exclude)))
    BY <2>1, QuestionsFill DEF QuizInv
  <2> QED BY <2>2 DEF Unseen
<1>4. \A lesson \in Lessons : questions \cap Quiz!Of(lesson) = part[lesson]
  BY <1>3, PartIsWhole
<1>5. questions = UNION {part[l] : l \in Lessons}
  BY DEF Quiz!Range
<1> HIDE DEF questions
<1>6. questions \subseteq UNION {Unseen(lesson, filters, exclude) : lesson \in Lessons}
  <2> SUFFICES ASSUME NEW c \in questions
               PROVE  \E lesson \in Lessons : c \in Unseen(lesson, filters, exclude)
    OBVIOUS
  <2>1. PICK l \in Lessons : c \in part[l]
    BY <1>5
  <2> QED BY <1>3, <2>1
<1>7. questions \subseteq DOMAIN bank
  BY <1>5
<1>8. FullLessons(drawn')
  BY <1>2, <1>3, <1>4, <1>6 DEF FullLessons
<1> QED BY <1>1, <1>2, <1>7, <1>8, BankStays DEF QuizInv, FullDraw, Keyed

LEMMA DuoFull ==
  ASSUME QuizInv, NEW count \in Nat, NEW filters, Quiz!generate_for_duo(count, filters)
  PROVE  QuizInv'
<1> DEFINE rows == Filtered(filters)
<1>1. PICK pool \in Quiz!Limited(rows, count * 3) :
        \E questions \in Quiz!Limited({c \in pool : Quiz!duo_takes(c)}, count) :
          Quiz!Serves([Quiz!NoSet EXCEPT !.for = "duo", !.filters = filters, !.count = count], questions)
  BY DEF Quiz!generate_for_duo, Quiz!list_random_filtered, Filtered
<1>2. PICK questions \in Quiz!Limited({c \in pool : Quiz!duo_takes(c)}, count) :
        /\ bank' = bank
        /\ drawn' = [for |-> "duo", lesson |-> None, filters |-> filters, exclude |-> {},
                     count |-> count, questions |-> questions]
  BY <1>1 DEF Quiz!Serves, Quiz!NoSet
<1>3. /\ drawn'.for = "duo" /\ drawn'.filters = filters
      /\ drawn'.count = count /\ drawn'.questions = questions
  BY <1>2
<1>4. IsFiniteSet(rows) /\ rows \subseteq DOMAIN bank
  BY RowsAreFinite DEF QuizInv, Filtered
<1>5. Tapped(rows) \subseteq rows
  BY DEF Tapped
<1>6. pool \subseteq rows /\ questions \subseteq {c \in pool : Quiz!duo_takes(c)}
  BY <1>1, LimitedRows
<1>7. {c \in pool : Quiz!duo_takes(c)} = pool \cap Tapped(rows)
  BY <1>6 DEF Tapped
<1>8. count * 3 = count + 2 * count /\ 2 * count \in Nat
  OBVIOUS
<1> HIDE DEF rows
<1>9. Enough(questions, rows, Tapped(rows), count, 2 * count)
  BY <1>1, <1>2, <1>4, <1>5, <1>7, <1>8, SpareFills DEF Enough
<1>10. FullDraw(drawn') /\ Keyed(drawn')
  BY <1>3, <1>6, <1>9 DEF FullDraw, Keyed, rows
<1> QED BY <1>2, <1>3, <1>4, <1>6, <1>10, BankStays DEF QuizInv

LEMMA BattleFull ==
  ASSUME QuizInv, NEW lesson, NEW count \in Nat, Quiz!generate_for_battle(lesson, count)
  PROVE  QuizInv'
<1> DEFINE rows  == {c \in DOMAIN bank : bank[c].lesson = lesson /\ bank[c].filter \in Filters}
           whole == Quiz!Of(lesson)
<1>1. PICK pool \in Quiz!Limited(rows, count * 2) :
        \E questions \in Quiz!Limited({c \in pool : Quiz!Answerable(c)}, count) :
          Quiz!Serves([Quiz!NoSet EXCEPT !.for = "battle", !.lesson = lesson, !.count = count], questions)
  BY DEF Quiz!generate_for_battle, Quiz!list_by_lesson_filtered
<1>2. PICK questions \in Quiz!Limited({c \in pool : Quiz!Answerable(c)}, count) :
        /\ bank' = bank
        /\ drawn' = [for |-> "battle", lesson |-> lesson, filters |-> Filters, exclude |-> {},
                     count |-> count, questions |-> questions]
  BY <1>1 DEF Quiz!Serves, Quiz!NoSet
<1>3. /\ drawn'.for = "battle" /\ drawn'.lesson = lesson
      /\ drawn'.count = count /\ drawn'.questions = questions
  BY <1>2
<1>4. IsFiniteSet(whole) /\ whole \subseteq DOMAIN bank
  BY RowsAreFinite DEF QuizInv, Quiz!Of
<1>5. Asked(whole) \subseteq whole
  BY DEF Asked
<1>6. rows = whole
  BY BankIs DEF QuizInv, Quiz!Challenge, Quiz!Of
<1>7. pool \subseteq whole /\ questions \subseteq {c \in pool : Quiz!Answerable(c)}
  BY <1>1, <1>6, LimitedRows
<1>8. {c \in pool : Quiz!Answerable(c)} = pool \cap Asked(whole)
  BY <1>7 DEF Asked
<1>9. count * 2 = count + count
  OBVIOUS
<1> HIDE DEF rows, whole
<1>10. Enough(questions, whole, Asked(whole), count, count)
  BY <1>1, <1>2, <1>4, <1>5, <1>6, <1>8, <1>9, SpareFills DEF Enough
<1>11. FullDraw(drawn') /\ Keyed(drawn')
  BY <1>3, <1>7, <1>10 DEF FullDraw, Keyed, whole
<1> QED BY <1>2, <1>3, <1>4, <1>7, <1>11, BankStays DEF QuizInv

LEMMA PaperFull ==
  ASSUME QuizInv, NEW count \in Nat, Quiz!draw_for_benchmark(count)
  PROVE  QuizInv'
<1> DEFINE most == QUESTIONS_PER_LESSON
           whole(lesson) == Quiz!Of(lesson)
           rows(lesson) == {c \in DOMAIN bank : bank[c].lesson = lesson /\ bank[c].filter \in Filters}
<1>0. /\ most \in Nat /\ IsFiniteSet(Lessons) /\ Cardinality(Lessons) \in Nat
      /\ most * Cardinality(Lessons) \in Nat
  <2>1. most \in Nat /\ IsFiniteSet(Lessons) /\ Cardinality(Lessons) \in Nat
    BY BankIs, FS_CardinalityType DEF QuizInv
  <2> QED BY <2>1
<1>1. PICK part \in [Lessons -> SUBSET DOMAIN bank] :
        /\ \A lesson \in Lessons : part[lesson] \in Quiz!lesson_paper(lesson)
        /\ \E questions \in Quiz!Limited(UNION Quiz!Range(part), count) :
             Quiz!Serves([Quiz!NoSet EXCEPT !.for = "benchmark", !.count = count], questions)
  BY DEF Quiz!draw_for_benchmark
<1> DEFINE paper == UNION Quiz!Range(part)
<1>2. PICK questions \in Quiz!Limited(paper, count) :
        /\ bank' = bank
        /\ drawn' = [for |-> "benchmark", lesson |-> None, filters |-> Filters, exclude |-> {},
                     count |-> count, questions |-> questions]
  BY <1>1 DEF Quiz!Serves, Quiz!NoSet
<1>3. drawn'.for = "benchmark" /\ drawn'.count = count /\ drawn'.questions = questions
  BY <1>2
<1>4. ASSUME NEW lesson \in Lessons
      PROVE  /\ part[lesson] \subseteq Asked(whole(lesson))
             /\ part[lesson] \subseteq whole(lesson)
             /\ IsFiniteSet(part[lesson]) /\ Cardinality(part[lesson]) <= most
             /\ Enough(part[lesson], whole(lesson), Asked(whole(lesson)), most, most)
  <2>1. rows(lesson) = whole(lesson)
    BY BankIs DEF QuizInv, Quiz!Challenge, Quiz!Of
  <2>2. part[lesson] \in Quiz!lesson_paper(lesson)
    BY <1>1
  <2>3. PICK pool \in Quiz!Limited(rows(lesson), most * 2) :
          part[lesson] \in Quiz!Limited({c \in pool : Quiz!Answerable(c)}, most)
    BY <2>2 DEF Quiz!lesson_paper, Quiz!list_by_lesson_filtered
  <2>4. IsFiniteSet(whole(lesson)) /\ Asked(whole(lesson)) \subseteq whole(lesson)
    BY RowsAreFinite DEF QuizInv, Quiz!Of, Asked
  <2> HIDE DEF rows, whole
  <2>5. pool \subseteq whole(lesson) /\ part[lesson] \subseteq {c \in pool : Quiz!Answerable(c)}
    BY <2>1, <2>3, LimitedRows
  <2>6. {c \in pool : Quiz!Answerable(c)} = pool \cap Asked(whole(lesson))
    BY <2>5 DEF Asked
  <2>7. most * 2 = most + most /\ most \in Nat
    BY <1>0
  <2>8. IsFiniteSet(pool \cap Asked(whole(lesson)))
    BY <2>4, FS_Subset
  <2>9. IsFiniteSet(part[lesson]) /\ Cardinality(part[lesson]) <= most
    <3>1. part[lesson] \in Quiz!Limited(pool \cap Asked(whole(lesson)), most)
      BY <2>3, <2>6
    <3> HIDE DEF most
    <3>2. /\ IsFiniteSet(part[lesson]) /\ Cardinality(part[lesson]) \in Nat
          /\ Cardinality(part[lesson])
               = Quiz!Lesser(most, Cardinality(pool \cap Asked(whole(lesson))))
          /\ Cardinality(pool \cap Asked(whole(lesson))) \in Nat
      BY <2>7, <2>8, <3>1, LimitedIs
    <3> QED BY <2>7, <3>2 DEF Quiz!Lesser
  <2>10. Enough(part[lesson], whole(lesson), Asked(whole(lesson)), most, most)
    <3>1. /\ pool \in Quiz!Limited(whole(lesson), most + most)
          /\ part[lesson] \in Quiz!Limited(pool \cap Asked(whole(lesson)), most)
      BY <2>1, <2>3, <2>6, <2>7
    <3> HIDE DEF most
    <3> QED BY <2>4, <2>7, <3>1, SpareFills DEF Enough
  <2> QED BY <2>5, <2>6, <2>9, <2>10
<1>5. /\ paper = UNION {part[l] : l \in Lessons} /\ paper \subseteq DOMAIN bank
      /\ IsFiniteSet(paper) /\ Cardinality(paper) \in Nat
  <2>1. paper = UNION {part[l] : l \in Lessons}
    BY DEF Quiz!Range
  <2>2. paper \subseteq DOMAIN bank
    BY <2>1
  <2> HIDE DEF paper
  <2> QED BY <2>1, <2>2, RowsAreFinite, FS_CardinalityType DEF QuizInv
<1>6. Cardinality(paper) <= most * Cardinality(Lessons)
  <2>1. \A l \in Lessons : IsFiniteSet(part[l]) /\ Cardinality(part[l]) <= most
    BY <1>4
  <2> HIDE DEF paper, most
  <2> QED BY <1>0, <1>5, <2>1, PaperIsBounded
<1>7. \A lesson \in Lessons : paper \cap Quiz!Of(lesson) = part[lesson]
  BY <1>4, PartIsWhole
<1> HIDE DEF paper
<1>8. questions \subseteq paper /\ (Cardinality(paper) <= count => questions = paper)
  BY <1>2, <1>5, LimitedIs
<1>9. ASSUME count >= most * Cardinality(Lessons)
      PROVE  FullPaper(drawn')
  <2>1. questions = paper
    <3> DEFINE limit == most * Cardinality(Lessons)
    <3>1. limit \in Nat /\ Cardinality(paper) <= limit /\ count >= limit
      BY <1>0, <1>6, <1>9
    <3> HIDE DEF limit
    <3> QED BY <1>5, <1>8, <3>1
  <2> QED BY <1>3, <1>4, <1>7, <2>1 DEF FullPaper
<1>10. FullDraw(drawn')
  BY <1>3, <1>9 DEF FullDraw
<1>11. Keyed(drawn')
  <2>1. ASSUME NEW c \in questions
        PROVE  Quiz!Answerable(c)
    <3>1. PICK l \in Lessons : c \in part[l]
      BY <1>5, <1>8
    <3> QED BY <1>4, <3>1 DEF Asked
  <2> QED BY <1>3, <2>1 DEF Keyed
<1> QED BY <1>2, <1>3, <1>5, <1>8, <1>10, <1>11, BankStays DEF QuizInv

LEMMA QuizStep ==
  ASSUME QuizInv, [Quiz!Next]_(Quiz!vars)
  PROVE  QuizInv'
<1>1. CASE UNCHANGED Quiz!vars
  <2>1. bank' = bank /\ drawn' = drawn
    BY <1>1 DEF Quiz!vars
  <2>2. Quiz!TypeOK'
    BY <2>1 DEF QuizInv, Quiz!TypeOK
  <2>3. FullDraw(drawn)' /\ Keyed(drawn)'
    BY <2>1 DEF QuizInv, FullDraw, FullLessons, FullPaper, Filtered, Tapped, Asked, Unseen, Quiz!Of,
                Quiz!duo_takes, Quiz!Answerable, Keyed
  <2> QED BY <2>2, <2>3 DEF QuizInv
<1>2. CASE Quiz!Next
  <2>1. PICK count \in 1..MaxCount :
          \/ \E filters \in SUBSET Filters \ {{}} :
               \/ Quiz!generate_for_duo(count, filters)
               \/ \E exclude \in SUBSET DOMAIN bank :
                    \/ Quiz!generate_for_unit(count, filters, exclude)
                    \/ \E lesson \in Lessons :
                         Quiz!generate_for_lesson(lesson, count, filters, exclude)
          \/ \E lesson \in Lessons : Quiz!generate_for_battle(lesson, count)
          \/ Quiz!draw_for_benchmark(count)
    BY <1>2 DEF Quiz!Next
  <2>2. count \in Nat
    BY <2>1, BankIs DEF QuizInv
  <2> QED BY <2>1, <2>2, LessonFull, UnitFull, DuoFull, BattleFull, PaperFull
<1> QED BY <1>1, <1>2

-----------------------------------------------------------------------------
(* The quizzes: how they are graded and shown.                              *)

LEMMA OptionsAre ==
  ASSUME NEW q \in Quiz!Challenge
  PROVE  /\ q.type \in {"SELECT", "ASSIST", "ORDER"} /\ q.options \in Seq(Quiz!ChallengeOption)
         /\ Len(q.options) \in Nat /\ DOMAIN q.options = 1..Len(q.options)
         /\ \A i \in DOMAIN q.options : q.options[i].id \in Nat /\ q.options[i].correct \in BOOLEAN
         /\ \A i, j \in DOMAIN q.options : q.options[i].id = q.options[j].id => i = j
<1>1. /\ q.type \in {"SELECT", "ASSIST", "ORDER"} /\ q.options \in Seq(Quiz!ChallengeOption)
      /\ Quiz!IsInjective(Quiz!Ids(q.options))
  BY DEF Quiz!Challenge
<1>2. Len(q.options) \in Nat /\ DOMAIN q.options = 1..Len(q.options)
  BY <1>1
<1>3. \A i \in DOMAIN q.options : q.options[i] \in Quiz!ChallengeOption
  BY <1>1
<1>4. \A i, j \in DOMAIN q.options : q.options[i].id = q.options[j].id => i = j
  BY <1>1 DEF Quiz!IsInjective, Quiz!Ids
<1> QED BY <1>1, <1>2, <1>3, <1>4 DEF Quiz!ChallengeOption

LEMMA IdsAre ==
  ASSUME NEW q \in Quiz!Challenge
  PROVE  /\ Quiz!Ids(q.options) \in [1..Len(q.options) -> Nat]
         /\ Quiz!Ids(q.options) \in Seq(Nat) /\ Len(Quiz!Ids(q.options)) = Len(q.options)
         /\ Quiz!IsInjective(Quiz!Ids(q.options))
         /\ \A id : id \in Quiz!ToSet(Quiz!Ids(q.options))
                      <=> \E i \in DOMAIN q.options : id = q.options[i].id
         /\ Quiz!ToSet(Quiz!Ids(q.options)) \subseteq Nat
<1> DEFINE ids == Quiz!Ids(q.options)
<1>1. Len(q.options) \in Nat /\ ids \in [1..Len(q.options) -> Nat]
  BY OptionsAre DEF Quiz!Ids
<1>2. Quiz!IsInjective(ids)
  BY DEF Quiz!Challenge
<1>3. \A id : id \in Quiz!ToSet(ids) <=> \E i \in DOMAIN q.options : id = q.options[i].id
  BY DEF Quiz!ToSet, Quiz!Ids
<1>4. Quiz!ToSet(ids) \subseteq Nat
  BY <1>3, OptionsAre
<1> HIDE DEF ids
<1>5. ids \in Seq(Nat) /\ Len(ids) = Len(q.options)
  BY <1>1
<1> QED BY <1>1, <1>2, <1>3, <1>4, <1>5 DEF ids

\* An id is one option's.
LEMMA OptionOf ==
  ASSUME NEW q \in Quiz!Challenge, NEW i \in DOMAIN q.options
  PROVE  Quiz!OfId(q, q.options[i].id) = q.options[i]
<1>1. \A o \in Quiz!ToSet(q.options) : o.id = q.options[i].id => o = q.options[i]
  BY OptionsAre DEF Quiz!ToSet
<1>2. q.options[i] \in Quiz!ToSet(q.options)
  BY DEF Quiz!ToSet
<1> QED BY <1>1, <1>2 DEF Quiz!OfId

\* A tap is right when it is in the key.
LEMMA TapGraded ==
  ASSUME NEW q \in Quiz!Challenge, q.type # "ORDER", NEW tiles,
         NEW id \in Quiz!ToSet(Quiz!Ids(q.options))
  PROVE  Quiz!grade(q, id, tiles) = "CORRECT" <=> id \in Quiz!answer_key(q)
<1>1. PICK i \in DOMAIN q.options : id = q.options[i].id
  <2>1. \A x : x \in Quiz!ToSet(Quiz!Ids(q.options))
                 <=> \E i \in DOMAIN q.options : x = q.options[i].id
    BY IdsAre
  <2> QED BY <2>1
<1>2. id \in Nat /\ id # None
  BY IdsAre, AccountsAssumption DEF Quiz!QuizAssumption
<1>3. Quiz!OfId(q, id) = q.options[i]
  BY <1>1, OptionOf
<1>4. Quiz!grade(q, id, tiles) = IF q.options[i].correct THEN "CORRECT" ELSE "WRONG"
  <2>1. Quiz!grade(q, id, tiles) = Quiz!grade_single_choice(q, id)
    BY DEF Quiz!grade
  <2> QED BY <1>2, <1>3, <2>1 DEF Quiz!grade_single_choice
<1>5. Quiz!answer_key(q) = {o.id : o \in {option0 \in Quiz!ToSet(q.options) : option0.correct}}
  BY DEF Quiz!answer_key
<1>6. id \in Quiz!answer_key(q) <=> q.options[i].correct
  <2>1. ASSUME q.options[i].correct
        PROVE  id \in Quiz!answer_key(q)
    BY <1>1, <1>5, <2>1 DEF Quiz!ToSet
  <2>2. ASSUME id \in Quiz!answer_key(q)
        PROVE  q.options[i].correct
    <3>1. PICK j \in DOMAIN q.options : q.options[j].correct /\ q.options[j].id = id
      BY <1>5, <2>2 DEF Quiz!ToSet
    <3> QED BY <1>1, <3>1, OptionsAre
  <2> QED BY <2>1, <2>2
<1> QED BY <1>4, <1>6

LEMMA KeyIsThere ==
  ASSUME NEW q \in Quiz!Challenge, q.type # "ORDER"
  PROVE  Quiz!answer_key(q) \subseteq Quiz!ToSet(Quiz!Ids(q.options))
<1> SUFFICES ASSUME NEW id \in Quiz!answer_key(q)
             PROVE  id \in Quiz!ToSet(Quiz!Ids(q.options))
  OBVIOUS
<1>1. PICK j \in DOMAIN q.options : q.options[j].id = id
  BY DEF Quiz!answer_key, Quiz!ToSet
<1> QED BY <1>1, IdsAre

\* Tiles are right when their words are.
LEMMA TilesGraded ==
  ASSUME NEW q \in Quiz!Challenge, q.type = "ORDER", NEW tap, NEW ids \in Seq(Nat),
         Quiz!ToSet(ids) \subseteq Quiz!ToSet(Quiz!Ids(q.options)), Quiz!IsInjective(ids)
  PROVE  Quiz!grade(q, tap, ids) = "CORRECT"
           <=> Quiz!Words(q, ids) = Quiz!Words(q, Quiz!Ids(q.options))
<1>1. ids # None
  BY AccountsAssumption DEF Quiz!QuizAssumption
<1>2. ~(\E i \in DOMAIN ids : ids[i] \notin Quiz!ToSet(Quiz!Ids(q.options)))
  BY DEF Quiz!ToSet
<1> QED BY <1>1, <1>2 DEF Quiz!grade, Quiz!grade_ordered

LEMMA OrderingIs ==
  ASSUME NEW c, bank[c] \in Quiz!Challenge, NEW ids \in Quiz!Orderings(c)
  PROVE  /\ ids \in Seq(Nat) /\ Quiz!IsInjective(ids)
         /\ Quiz!ToSet(ids) \subseteq Quiz!ToSet(Quiz!Ids(bank[c].options))
<1> DEFINE S == Quiz!ToSet(Quiz!Ids(bank[c].options))
<1>1. Quiz!IsInjective(ids) /\ ids \in Quiz!SeqOf(S, Len(bank[c].options))
  BY DEF Quiz!Orderings
<1>2. Len(bank[c].options) \in Nat /\ S \subseteq Nat
  BY OptionsAre, IdsAre
<1> HIDE DEF S
<1>3. PICK m \in 0..Len(bank[c].options) : ids \in [1..m -> S]
  BY <1>1 DEF Quiz!SeqOf
<1>4. m \in Nat
  BY <1>2, <1>3
<1>5. ids \in Seq(Nat)
  <2>1. ids \in [1..m -> Nat]
    BY <1>2, <1>3
  <2> QED BY <1>4, <2>1
<1>6. Quiz!ToSet(ids) \subseteq S
  BY <1>3 DEF Quiz!ToSet
<1> QED BY <1>1, <1>5, <1>6 DEF S

\* The solution is an ordering, and so is to tap nothing.
LEMMA SolutionIs ==
  ASSUME NEW c, bank[c] \in Quiz!Challenge
  PROVE  Quiz!Ids(bank[c].options) \in Quiz!Orderings(c) /\ <<>> \in Quiz!Orderings(c)
<1> DEFINE ids == Quiz!Ids(bank[c].options)
           n   == Len(bank[c].options)
<1>1. n \in Nat /\ ids \in [1..n -> Nat] /\ Quiz!IsInjective(ids)
  BY OptionsAre, IdsAre
<1> HIDE DEF ids, n
<1>2. ids \in [1..n -> Quiz!ToSet(ids)]
  BY <1>1 DEF Quiz!ToSet
<1>3. ids \in Quiz!SeqOf(Quiz!ToSet(ids), n)
  BY <1>1, <1>2 DEF Quiz!SeqOf
<1>4. <<>> \in Quiz!SeqOf(Quiz!ToSet(ids), n) /\ Quiz!IsInjective(<<>>)
  <2>1. <<>> \in [1..0 -> Quiz!ToSet(ids)] /\ 0 \in 0..n
    BY <1>1
  <2> QED BY <2>1 DEF Quiz!SeqOf, Quiz!IsInjective
<1> QED BY <1>1, <1>3, <1>4 DEF Quiz!Orderings, ids, n

\* As many ids as options.
LEMMA AsManyIds ==
  ASSUME NEW q \in Quiz!Challenge
  PROVE  Quiz!Cardinality(Quiz!ToSet(Quiz!Ids(q.options))) = Len(q.options)
<1> DEFINE ids == Quiz!Ids(q.options)
           n   == Len(q.options)
<1>1. n \in Nat /\ ids \in [1..n -> Nat] /\ Quiz!IsInjective(ids)
  BY OptionsAre, IdsAre
<1> HIDE DEF ids, n
<1>2. ids \in Bijection(1..n, Quiz!ToSet(ids))
  BY <1>1 DEF Quiz!ToSet, Quiz!IsInjective, Bijection, Injection, Surjection, IsInjective
<1>3. Cardinality(1..n) = n /\ IsFiniteSet(1..n)
  BY <1>1, FS_Interval
<1>4. Cardinality(Quiz!ToSet(ids)) = n
  BY <1>2, <1>3, FS_Bijection DEF ExistsBijection
<1> QED BY <1>4, SameSizes DEF ids, n

LEMMA DrawnIs ==
  ASSUME QuizInv, NEW c \in drawn.questions
  PROVE  bank[c] \in Quiz!Challenge
  BY BankIs DEF QuizInv, Quiz!TypeOK

(* Every round of a fight or an exam can be won, a duo's tap is right       *)
(* exactly when the key has it.                                             *)
LEMMA RoundsAreWinnable ==
  ASSUME QuizInv
  PROVE  Quiz!RoundsCanBeWon
<1> SUFFICES ASSUME NEW c \in drawn.questions
             PROVE  LET ids == Quiz!ToSet(Quiz!Ids(bank[c].options)) IN
                    /\ drawn.for = "duo" =>
                         /\ \E id \in ids : Quiz!grade(bank[c], id, None) = "CORRECT"
                         /\ \A id \in ids : id \in Quiz!answer_key(bank[c])
                                              <=> Quiz!grade(bank[c], id, None) = "CORRECT"
                    /\ drawn.for \in {"battle", "benchmark"} =>
                         \E id \in ids, tiles \in Quiz!Orderings(c) :
                           Quiz!grade(bank[c], id, tiles) = "CORRECT"
  BY DEF Quiz!RoundsCanBeWon
<1> DEFINE q   == bank[c]
           ids == Quiz!ToSet(Quiz!Ids(q.options))
           key == Quiz!answer_key(q)
<1>1. q \in Quiz!Challenge
  BY DrawnIs
<1>2. ASSUME drawn.for = "duo"
      PROVE  q.type # "ORDER" /\ key # {}
  <2>1. q.type # "ORDER" /\ \E o \in Quiz!ToSet(q.options) : o.correct
    BY <1>2 DEF QuizInv, Keyed, Quiz!duo_takes
  <2> QED BY <2>1 DEF Quiz!answer_key
<1>3. ASSUME drawn.for \in {"battle", "benchmark"}
      PROVE  key # (IF q.type = "ORDER" THEN <<>> ELSE {})
  BY <1>3 DEF QuizInv, Keyed, Quiz!Answerable, Quiz!HasKey
<1> HIDE DEF q, key
<1>4. ASSUME q.type # "ORDER"
      PROVE  /\ key \subseteq ids
             /\ \A id \in ids : \A tiles : Quiz!grade(q, id, tiles) = "CORRECT" <=> id \in key
  BY <1>1, <1>4, KeyIsThere, TapGraded DEF key
<1>5. <<>> \in Quiz!Orderings(c) /\ Quiz!Ids(q.options) \in Quiz!Orderings(c)
  BY <1>1, SolutionIs DEF q
<1>6. ASSUME q.type = "ORDER", key # <<>>
      PROVE  \E id \in ids : Quiz!grade(q, id, Quiz!Ids(q.options)) = "CORRECT"
  <2>1. Quiz!Ids(q.options) # <<>> /\ Quiz!Ids(q.options) \in Seq(Nat)
    BY <1>1, <1>6, IdsAre DEF key, Quiz!answer_key
  <2>2. Quiz!Ids(q.options)[1] \in ids
    BY <2>1 DEF Quiz!ToSet
  <2>3. \A tap : Quiz!grade(q, tap, Quiz!Ids(q.options)) = "CORRECT"
    BY <1>1, <1>6, <2>1, IdsAre, TilesGraded
  <2> QED BY <2>2, <2>3
<1> HIDE DEF ids
<1>7. drawn.for = "duo" =>
        /\ \E id \in ids : Quiz!grade(q, id, None) = "CORRECT"
        /\ \A id \in ids : id \in key <=> Quiz!grade(q, id, None) = "CORRECT"
  BY <1>2, <1>4
<1>8. drawn.for \in {"battle", "benchmark"} =>
        \E id \in ids : \E tiles \in Quiz!Orderings(c) : Quiz!grade(q, id, tiles) = "CORRECT"
  BY <1>3, <1>4, <1>5, <1>6
<1> QED BY <1>7, <1>8 DEF q, ids, key

(* The engine of a lesson battle and the study path give one verdict, and   *)
(* the key revealed is an answer the engine takes.                          *)
LEMMA VerdictIsOne ==
  ASSUME QuizInv
  PROVE  Quiz!OneVerdict
<1> SUFFICES ASSUME drawn.for = "battle", NEW c \in drawn.questions
             PROVE  LET key == Quiz!answer_key(bank[c]) IN
                    /\ \A ids \in IF bank[c].type = "ORDER" THEN {key} ELSE {<<id>> : id \in key} :
                         Quiz!answer_fits(bank[c], ids)
                    /\ \A ids \in Quiz!Orderings(c) :
                         Quiz!answer_fits(bank[c], ids) =>
                           (Quiz!is_correct(bank[c], key, ids)
                              <=> Quiz!grade(bank[c], ids[1], ids) = "CORRECT")
  BY DEF Quiz!OneVerdict
<1> DEFINE q         == bank[c]
           key       == Quiz!answer_key(q)
           available == Quiz!ToSet(Quiz!Ids(q.options))
<1>1. q \in Quiz!Challenge
  BY DrawnIs
<1>2. key # (IF q.type = "ORDER" THEN <<>> ELSE {})
  BY DEF QuizInv, Keyed, Quiz!Answerable, Quiz!HasKey
<1>3. ASSUME NEW ids \in Quiz!Orderings(c)
      PROVE  ids \in Seq(Nat) /\ Quiz!IsInjective(ids) /\ Quiz!ToSet(ids) \subseteq available
  BY <1>1, OrderingIs
<1> HIDE DEF q
<1>4. CASE q.type = "ORDER"
  <2>1. key = Quiz!Ids(q.options) /\ key # <<>>
    BY <1>2, <1>4 DEF Quiz!answer_key
  <2>2. Len(key) = Quiz!Cardinality(available) /\ Quiz!IsInjective(key)
    BY <1>1, <2>1, IdsAre, AsManyIds
  <2>3. Quiz!ToSet(key) \subseteq available
    BY <2>1
  <2>4. Quiz!answer_fits(q, key)
    BY <1>4, <2>1, <2>2, <2>3 DEF Quiz!answer_fits
  <2>5. \A ids \in Quiz!Orderings(c) :
          Quiz!is_correct(q, key, ids) <=> Quiz!grade(q, ids[1], ids) = "CORRECT"
    <3> SUFFICES ASSUME NEW ids \in Quiz!Orderings(c)
                 PROVE  Quiz!is_correct(q, key, ids) <=> Quiz!grade(q, ids[1], ids) = "CORRECT"
      OBVIOUS
    <3>1. Quiz!grade(q, ids[1], ids) = "CORRECT" <=> Quiz!Words(q, ids) = Quiz!Words(q, key)
      BY <1>1, <1>3, <1>4, <2>1, TilesGraded
    <3>2. Quiz!is_correct(q, key, ids) <=> Quiz!Words(q, ids) = Quiz!Words(q, key)
      BY <1>4 DEF Quiz!is_correct
    <3> QED BY <3>1, <3>2
  <2> HIDE DEF key
  <2> QED BY <1>4, <2>4, <2>5 DEF q, key
<1>5. CASE q.type # "ORDER"
  <2>1. key \subseteq available
    BY <1>1, <1>5, KeyIsThere
  <2>2. ASSUME NEW id \in key
        PROVE  Quiz!answer_fits(q, <<id>>)
    <3>1. Quiz!ToSet(<<id>>) \subseteq available /\ <<id>> # <<>> /\ Len(<<id>>) = 1
      BY <2>1, <2>2 DEF Quiz!ToSet
    <3> QED BY <1>5, <3>1 DEF Quiz!answer_fits
  <2>3. ASSUME NEW ids \in Quiz!Orderings(c), Quiz!answer_fits(q, ids)
        PROVE  Quiz!is_correct(q, key, ids) <=> Quiz!grade(q, ids[1], ids) = "CORRECT"
    <3>1. Len(ids) = 1 /\ ids \in Seq(Nat)
      BY <1>3, <1>5, <2>3 DEF Quiz!answer_fits
    <3>2. ids[1] \in Quiz!ToSet(ids)
      BY <3>1 DEF Quiz!ToSet
    <3>3. ids[1] \in available
      BY <1>3, <3>2
    <3>4. Quiz!grade(q, ids[1], ids) = "CORRECT" <=> ids[1] \in key
      BY <1>1, <1>5, <3>3, TapGraded
    <3> QED BY <1>5, <3>4 DEF Quiz!is_correct
  <2> HIDE DEF key
  <2> QED BY <1>5, <2>2, <2>3 DEF q, key
<1> QED BY <1>4, <1>5

LEMMA SameEntries ==
  ASSUME NEW f, NEW g, \A i \in DOMAIN f : \E j \in DOMAIN g : f[i] = g[j]
  PROVE  Quiz!ToSet(f) \subseteq Quiz!ToSet(g)
  BY DEF Quiz!ToSet

(* Tiles look the same whatever their order.                                *)
LEMMA SecretIsKept ==
  ASSUME QuizInv
  PROVE  Quiz!ViewKeepsSecret
<1> SUFFICES ASSUME NEW c \in drawn.questions, bank[c].type = "ORDER"
             PROVE  Quiz!Views(bank[c])
                      = Quiz!Views([bank[c] EXCEPT !.options = Quiz!Reverse(bank[c].options)])
  BY DEF Quiz!ViewKeepsSecret
<1> DEFINE q == bank[c]
           w == [q EXCEPT !.options = Quiz!Reverse(q.options)]
<1>1. q \in Quiz!Challenge
  BY DrawnIs
<1>2. /\ Len(q.options) \in Nat /\ DOMAIN q.options = 1..Len(q.options)
      /\ q.options \in Seq(Quiz!ChallengeOption)
  BY <1>1, OptionsAre
<1>3. w.type = "ORDER" /\ w.options = Quiz!Reverse(q.options)
  BY <1>1 DEF Quiz!Challenge
<1> HIDE DEF q, w
<1> DEFINE n == Len(q.options)
<1>4. /\ Len(w.options) = n /\ DOMAIN w.options = 1..n
      /\ \A i \in 1..n : w.options[i] = q.options[(n - i) + 1]
  <2>1. w.options = [i \in 1..n |-> q.options[(n - i) + 1]]
    BY <1>3 DEF Quiz!Reverse
  <2>2. \A i \in 1..n : (n - i) + 1 \in 1..n
    BY <1>2
  <2>3. w.options \in [1..n -> Quiz!ChallengeOption]
    BY <1>2, <2>1, <2>2
  <2> HIDE DEF n
  <2>4. w.options \in Seq(Quiz!ChallengeOption) /\ Len(w.options) = n
    BY <1>2, <2>3 DEF n
  <2> QED BY <2>1, <2>3, <2>4
<1>5. Quiz!ToSet(w.options) = Quiz!ToSet(q.options)
  <2>1. \A i \in 1..n : (n - i) + 1 \in 1..n /\ (n - ((n - i) + 1)) + 1 = i
    BY <1>2
  <2>2. \A i \in 1..n : q.options[i] = w.options[(n - i) + 1]
    BY <1>4, <2>1
  <2>3. DOMAIN q.options = 1..n
    BY <1>2
  <2> HIDE DEF n
  <2> DEFINE opposite(i) == (n - i) + 1
  <2>4. /\ \A i \in 1..n : opposite(i) \in 1..n /\ w.options[i] = q.options[opposite(i)]
        /\ \A i \in 1..n : q.options[i] = w.options[opposite(i)]
    BY <1>4, <2>1, <2>2
  <2> HIDE DEF opposite
  <2>5. \A i \in DOMAIN w.options : \E j \in DOMAIN q.options : w.options[i] = q.options[j]
    BY <1>4, <2>3, <2>4
  <2>6. \A i \in DOMAIN q.options : \E j \in DOMAIN w.options : q.options[i] = w.options[j]
    BY <1>4, <2>3, <2>4
  <2>7. Quiz!ToSet(w.options) \subseteq Quiz!ToSet(q.options)
    BY <2>5, SameEntries
  <2>8. Quiz!ToSet(q.options) \subseteq Quiz!ToSet(w.options)
    BY <2>6, SameEntries
  <2> QED BY <2>7, <2>8
<1>6. \A shuffled : Quiz!to_public_challenge(w, shuffled) = Quiz!to_public_challenge(q, shuffled)
  <2>1. q.type = "ORDER"
    BY DEF q
  <2> QED BY <1>3, <2>1 DEF Quiz!to_public_challenge
<1>7. Quiz!Views(w) = Quiz!Views(q)
  BY <1>4, <1>5, <1>6 DEF Quiz!Views
<1> QED BY <1>7 DEF q, w

LEMMA QuizHolds ==
  ASSUME QuizInv
  PROVE  /\ Quiz!DrawIsFull /\ Quiz!RoundsCanBeWon
         /\ Quiz!OneVerdict /\ Quiz!ViewKeepsSecret
  BY FullIsFull, RoundsAreWinnable, VerdictIsOne, SecretIsKept DEF QuizInv

-----------------------------------------------------------------------------
(* What \div gives: the quotient, and no other.                             *)

LEMMA Product ==
  ASSUME NEW a \in Nat, NEW b \in Nat
  PROVE  a * b \in Nat
OBVIOUS

LEMMA Times ==
  ASSUME NEW n \in Int, NEW q \in Int
  PROVE  n * q \in Int /\ n * (q + 1) = n * q + n
OBVIOUS

LEMMA Monotone ==
  ASSUME NEW n \in Nat, NEW p \in Int, NEW q \in Int, p <= q
  PROVE  n * p \in Int /\ n * q \in Int /\ n * p <= n * q
<1>1. n * (q - p) \in Nat
  BY Product
<1>2. n * (q - p) = n * q - n * p
  OBVIOUS
<1> QED BY <1>1, <1>2

LEMMA Quotient ==
  ASSUME NEW n \in Nat \ {0}, NEW e \in Int
  PROVE  /\ e \div n \in Int
         /\ n * (e \div n) <= e /\ e < n * (e \div n) + n
OBVIOUS

LEMMA OneQuotient ==
  ASSUME NEW n \in Nat \ {0}, NEW e \in Int, NEW q \in Int, n * q <= e, e < n * q + n
  PROVE  e \div n = q
<1> DEFINE p == e \div n
<1>1. p \in Int /\ n * p <= e /\ e < n * p + n
  BY Quotient
<1> HIDE DEF p
<1>2. n * p \in Int /\ n * q \in Int /\ n * (p + 1) = n * p + n /\ n * (q + 1) = n * q + n
  BY <1>1, Times
<1>3. ASSUME p + 1 <= q PROVE FALSE
  <2>1. n * (p + 1) <= n * q
    BY <1>1, <1>3, Monotone
  <2> QED BY <1>1, <1>2, <2>1
<1>4. ASSUME q + 1 <= p PROVE FALSE
  <2>1. n * (q + 1) <= n * p
    BY <1>1, <1>4, Monotone
  <2> QED BY <1>1, <1>2, <2>1
<1> QED BY <1>1, <1>3, <1>4 DEF p

-----------------------------------------------------------------------------
(* The two limits.                                                          *)

\* A window's start is no later than the clock.
LEMMA StartIsPast ==
  ASSUME Limits!KeyTypeOK
  PROVE  Limits!StartOf(now) \in 0..MaxKeyClock
<1>1. rule.window_seconds \in Nat \ {0} /\ now \in 0..MaxKeyClock /\ MaxKeyClock \in Nat
  BY AccountsAssumption DEF Limits!RateLimitAssumption, Limits!KeyTypeOK, Limits!RateLimit,
     Limits!Second
<1>2. \A w \in Nat \ {0}, t \in Nat : t % w \in 0..t
  <2> SUFFICES ASSUME NEW w \in Nat \ {0}, NEW t \in Nat
               PROVE  t % w \in 0..t
    OBVIOUS
  <2>1. t % w \in 0..(w - 1)
    OBVIOUS
  <2>2. CASE t < w
    BY <2>1, <2>2
  <2>3. CASE t >= w
    BY <2>1, <2>3
  <2> QED BY <2>2, <2>3
<1> QED BY <1>1, <1>2 DEF Limits!StartOf, Limits!WindowSeconds

LEMMA LimitsStart ==
  ASSUME AccountsInit
  PROVE  Limits!KeyTypeOK /\ Limits!SocketTypeOK
<1>1. /\ {Rate, Burst, MaxSocketClock} \subseteq Nat \ {0} /\ MaxKeyClock \in Nat
      /\ Limits!KeyInit /\ Limits!SocketInit
  BY AccountsAssumption DEF AccountsInit, Limits!RateLimitAssumption
<1>2. Limits!KeyTypeOK
  BY <1>1 DEF Limits!KeyInit, Limits!KeyTypeOK, Limits!Second
<1>3. Limits!SocketTypeOK
  <2>1. /\ socket_now = 0 /\ tokens = Burst /\ last = 0 /\ warned = FALSE /\ told = 0
        /\ frames = [t \in 0..MaxSocketClock |-> 0]
    BY <1>1 DEF Limits!SocketInit, Limits!Tick
  <2>2. frames \in [0..MaxSocketClock -> Nat] /\ 0 \in 0..MaxSocketClock /\ Burst \in 0..Burst
    BY <1>1, <2>1
  <2> QED BY <2>1, <2>2 DEF Limits!SocketTypeOK, Limits!Tick
<1> QED BY <1>2, <1>3

\* What one more adds to a count.
LEMMA OneMoreTyped ==
  ASSUME NEW m \in Nat, NEW f \in [0..m -> Nat], NEW x \in 0..m
  PROVE  /\ Limits!OneMore(f, x) \in [0..m -> Nat]
         /\ \A s \in 0..m : s >= x => Limits!OneMore(f, x)[s] = f[s] + 1
         /\ \A s \in 0..m : s < x => Limits!OneMore(f, x)[s] = f[s]
<1>1. Limits!OneMore(f, x) = [s \in 0..m |-> IF s >= x THEN f[s] + 1 ELSE f[s]]
  BY DEF Limits!OneMore
<1> QED BY <1>1

LEMMA KeyStep ==
  ASSUME Limits!KeyTypeOK, [Limits!KeyNext]_(Limits!key_vars)
  PROVE  Limits!KeyTypeOK'
<1>1. /\ window \in Limits!Window \cup {None} /\ now \in 0..MaxKeyClock /\ MaxKeyClock \in Nat
      /\ accepted \in [0..MaxKeyClock -> Nat]
  BY AccountsAssumption DEF Limits!RateLimitAssumption, Limits!KeyTypeOK, Limits!Second
<1>2. CASE UNCHANGED Limits!key_vars
  BY <1>2 DEF Limits!key_vars, Limits!KeyTypeOK
<1>3. CASE Limits!hit
  <2> DEFINE w == Limits!CurrentWindow(window, now)
  <2>1. w \in Limits!Window
    BY <1>1, StartIsPast DEF Limits!CurrentWindow, Limits!Window
  <2>2. /\ rule' = rule /\ now' = now
        /\ \/ window' = [w EXCEPT !.current = @ + 1] /\ accepted' = Limits!OneMore(accepted, now)
           \/ window' = w /\ accepted' = accepted
    BY <1>3 DEF Limits!hit
  <2> HIDE DEF w
  <2>3. window' \in Limits!Window /\ accepted' \in [0..MaxKeyClock -> Nat]
    <3>1. [w EXCEPT !.current = @ + 1] \in Limits!Window
      BY <2>1 DEF Limits!Window
    <3>2. Limits!OneMore(accepted, now) \in [0..MaxKeyClock -> Nat]
      BY <1>1, OneMoreTyped
    <3> QED BY <1>1, <2>1, <2>2, <3>1, <3>2
  <2> QED BY <2>2, <2>3 DEF Limits!KeyTypeOK, Limits!Second
<1>4. CASE Limits!prune
  BY <1>4 DEF Limits!prune, Limits!KeyTypeOK
<1>5. CASE Limits!KeyTick
  BY <1>1, <1>5 DEF Limits!KeyTick, Limits!KeyTypeOK, Limits!Second
<1> QED BY <1>2, <1>3, <1>4, <1>5 DEF Limits!KeyNext

LEMMA OneMoreAt ==
  ASSUME NEW m \in Nat, NEW f \in [0..m -> Nat], NEW x \in 0..m, NEW s \in 0..m
  PROVE  /\ s >= x => Limits!OneMore(f, x)[s] = f[s] + 1
         /\ s < x => Limits!OneMore(f, x)[s] = f[s]
<1>1. Limits!OneMore(f, x) = [y \in 0..m |-> IF y >= x THEN f[y] + 1 ELSE f[y]]
  BY DEF Limits!OneMore
<1>2. Limits!OneMore(f, x)[s] = IF s >= x THEN f[s] + 1 ELSE f[s]
  BY <1>1
<1>3. s < x => ~(s >= x)
  OBVIOUS
<1> QED BY ONLY <1>2, <1>3

LEMMA Sums ==
  ASSUME NEW p \in Int, NEW q \in Int
  PROVE  (p + 1) - (q + 1) = p - q /\ (p + 1) - q = (p - q) + 1
OBVIOUS

LEMMA TotalIs ==
  ASSUME NEW m \in Nat, NEW f \in [0..m -> Nat], NEW a \in 0..m, NEW b \in 0..m
  PROVE  /\ a = 0 => Limits!Total(f, a, b) = f[b]
         /\ a # 0 => Limits!Total(f, a, b) = f[b] - f[a - 1]
         /\ Limits!Total(f, a, b) \in Int
<1>1. b \in Int /\ a \in Int /\ ~(b < 0) /\ f[b] \in Nat
  OBVIOUS
<1>2. Limits!Upto(f, b) = f[b]
  BY <1>1 DEF Limits!Upto
<1>3. CASE a = 0
  <2>1. a - 1 < 0
    BY <1>3
  <2>2. Limits!Upto(f, a - 1) = 0
    BY <2>1 DEF Limits!Upto
  <2>3. Limits!Total(f, a, b) = f[b] - 0
    BY <1>2, <2>2 DEF Limits!Total
  <2> QED BY <1>1, <1>3, <2>3
<1>4. CASE a # 0
  <2>1. a - 1 \in 0..m /\ ~(a - 1 < 0)
    BY <1>1, <1>4
  <2>2. Limits!Upto(f, a - 1) = f[a - 1] /\ f[a - 1] \in Nat
    BY <2>1 DEF Limits!Upto
  <2>3. Limits!Total(f, a, b) = f[b] - f[a - 1]
    BY <1>2, <2>2 DEF Limits!Total
  <2> QED BY <1>1, <1>4, <2>2, <2>3
<1> QED BY <1>3, <1>4

LEMMA OneMoreIn ==
  ASSUME NEW m \in Nat, NEW f \in [0..m -> Nat], NEW x \in 0..m, NEW a \in 0..m, NEW b \in 0..m, a <= b
  PROVE  /\ a <= x /\ x <= b
              => Limits!Total(Limits!OneMore(f, x), a, b) = Limits!Total(f, a, b) + 1
         /\ x < a \/ b < x
              => Limits!Total(Limits!OneMore(f, x), a, b) = Limits!Total(f, a, b)
<1> DEFINE g == Limits!OneMore(f, x)
           F == Limits!Total(f, a, b)
           H == Limits!Total(g, a, b)
           p == f[b]
           q == f[a - 1]
<1> SUFFICES (a <= x /\ x <= b => H = F + 1) /\ (x < a \/ b < x => H = F)
  OBVIOUS
<1>0. g \in [0..m -> Nat]
  BY OneMoreTyped
<1>1. a \in Int /\ b \in Int /\ x \in Int /\ 0 <= a /\ 0 <= x /\ p \in Nat
  OBVIOUS
<1>2. (b >= x => g[b] = p + 1) /\ (b < x => g[b] = p)
  BY OneMoreAt
<1> HIDE DEF g
<1>3. CASE a = 0
  <2>1. F = p /\ H = g[b]
    BY <1>0, <1>3, TotalIs
  <2> HIDE DEF F, H, p
  <2> QED BY ONLY <1>1, <1>2, <1>3, <2>1
<1>4. CASE a # 0
  <2>1. a - 1 \in 0..m
    BY <1>1, <1>4
  <2>2. F = p - q /\ H = g[b] - g[a - 1] /\ q \in Nat
    BY <1>0, <1>4, <2>1, TotalIs
  <2>3. (a - 1 >= x => g[a - 1] = q + 1) /\ (a - 1 < x => g[a - 1] = q)
    BY <2>1, OneMoreAt DEF g
  <2> HIDE DEF F, H, p, q
  <2>4. CASE x < a
    <3>1. b >= x /\ a - 1 >= x
      BY <1>1, <2>4
    <3>2. H = (p + 1) - (q + 1)
      BY <1>2, <2>2, <2>3, <3>1
    <3>3. (p + 1) - (q + 1) = p - q
      BY <1>1, <2>2, Sums
    <3>4. H = F
      BY ONLY <2>2, <3>2, <3>3
    <3>5. ~(a <= x)
      BY <1>1, <2>4
    <3> QED BY ONLY <3>4, <3>5
  <2>5. CASE a <= x /\ x <= b
    <3>1. b >= x /\ a - 1 < x
      BY <1>1, <2>5
    <3>2. H = (p + 1) - q
      BY <1>2, <2>2, <2>3, <3>1
    <3>3. (p + 1) - q = (p - q) + 1
      BY <1>1, <2>2, Sums
    <3>4. H = F + 1
      BY ONLY <2>2, <3>2, <3>3
    <3>5. ~(x < a) /\ ~(b < x)
      BY <1>1, <2>5
    <3> QED BY ONLY <3>4, <3>5
  <2>6. CASE b < x
    <3>1. a - 1 < x
      BY <1>1, <2>6
    <3> QED BY <1>1, <1>2, <2>2, <2>3, <2>6, <3>1
  <2> QED BY <1>1, <2>4, <2>5, <2>6
<1> QED BY <1>3, <1>4

\* What a time is worth.
Gain(d) == d * Rate

LEMMA SocketTyped == Rate \in Nat /\ Burst \in Nat /\ MaxSocketClock \in Nat
  BY AccountsAssumption DEF Limits!RateLimitAssumption

LEMMA Worth ==
  ASSUME NEW d \in Nat
  PROVE  Gain(d) \in Nat
  BY SocketTyped, Product DEF Gain

LEMMA Passing ==
  ASSUME NEW a \in Int, NEW b \in Int, NEW c \in Int, a <= b, b <= c
  PROVE  Gain(b - a) \in Nat /\ Gain(c - b) \in Nat /\ Gain(c - a) = Gain(b - a) + Gain(c - b)
<1>1. \A n \in Nat, p \in Int, q \in Int : (p + q) * n = p * n + q * n
  OBVIOUS
<1>2. b - a \in Nat /\ c - b \in Nat /\ (b - a) + (c - b) = c - a
  OBVIOUS
<1>3. ((b - a) + (c - b)) * Rate = (b - a) * Rate + (c - b) * Rate
  BY <1>1, <1>2, SocketTyped
<1>4. (b - a) * Rate \in Nat /\ (c - b) * Rate \in Nat
  BY <1>2, SocketTyped, Product
<1> QED BY <1>2, <1>3, <1>4 DEF Gain

\* What is saved, spent and still to come: no frame is counted after the last
\* one asked for, and up to it the tokens left are within what the time gave.
PacedInv ==
  /\ last <= socket_now
  /\ \A t \in Limits!Tick : t >= last => frames[t] = frames[last]
  /\ \A a \in Limits!Tick :
       a <= last => Limits!Total(frames, a, last) + tokens <= Burst + (last - a) * Rate
  /\ Limits!FramesArePaced
  /\ ~warned => told = 0

\* The same, told apart.
LEMMA PacedMeans ==
  PacedInv <=>
    /\ last <= socket_now
    /\ \A t \in 0..MaxSocketClock : t >= last => frames[t] = frames[last]
    /\ \A a \in 0..MaxSocketClock :
         a <= last => Limits!Total(frames, a, last) + tokens <= Burst + Gain(last - a)
    /\ \A a, b \in 0..MaxSocketClock :
         a <= b => Limits!Total(frames, a, b) <= Burst + Gain(b - a)
    /\ told <= 1 /\ (~warned => told = 0)
  BY DEF PacedInv, Limits!FramesArePaced, Limits!Tick, Gain

\* And of the state a step leads to.
LEMMA PacedBecomes ==
  PacedInv' <=>
    /\ last' <= socket_now'
    /\ \A t \in 0..MaxSocketClock : t >= last' => frames'[t] = frames'[last']
    /\ \A a \in 0..MaxSocketClock :
         a <= last' => Limits!Total(frames', a, last') + tokens' <= Burst + Gain(last' - a)
    /\ \A a, b \in 0..MaxSocketClock :
         a <= b => Limits!Total(frames', a, b) <= Burst + Gain(b - a)
    /\ told' <= 1 /\ (~warned' => told' = 0)
  BY DEF PacedInv, Limits!FramesArePaced, Limits!Tick, Gain, Limits!Total, Limits!Upto

LEMMA SocketIs ==
  ASSUME Limits!SocketTypeOK
  PROVE  /\ socket_now \in 0..MaxSocketClock /\ last \in 0..MaxSocketClock /\ tokens \in 0..Burst
         /\ told \in Nat /\ warned \in BOOLEAN /\ frames \in [0..MaxSocketClock -> Nat]
         /\ socket_now \in Int /\ last \in Int /\ tokens \in Int /\ Burst \in Nat
         /\ MaxSocketClock \in Nat
  BY SocketTyped DEF Limits!SocketTypeOK, Limits!Tick

LEMMA RefilledIs ==
  ASSUME Limits!SocketTypeOK, last <= socket_now
  PROVE  /\ Limits!Refilled \in 0..Burst
         /\ Limits!Refilled <= tokens + Gain(socket_now - last)
<1>1. Gain(socket_now - last) \in Nat
  <2>1. socket_now - last \in Nat
    BY SocketIs
  <2> QED BY <2>1, Worth
<1>2. Limits!Refilled = IF tokens + Gain(socket_now - last) > Burst THEN Burst
                        ELSE tokens + Gain(socket_now - last)
  BY DEF Limits!Refilled, Gain
<1>3. tokens \in Nat /\ Burst \in Nat
  BY SocketIs
<1> QED BY <1>1, <1>2, <1>3

\* The bucket as it is found keeps within the bound as well.
LEMMA Caught ==
  ASSUME Limits!SocketTypeOK, PacedInv, NEW a \in 0..MaxSocketClock, a <= socket_now
  PROVE  /\ Limits!Total(frames, a, socket_now) \in Int
         /\ Limits!Total(frames, a, socket_now) + Limits!Refilled <= Burst + Gain(socket_now - a)
<1> DEFINE T == socket_now
           G == Limits!Refilled
           A == Limits!Total(frames, a, T)
<1> SUFFICES A \in Int /\ A + G <= Burst + Gain(T - a)
  OBVIOUS
<1>1. T \in Int /\ last \in Int /\ a \in Int /\ last <= T /\ a <= T /\ Burst \in Int /\ tokens \in Int
  BY SocketIs, PacedMeans
<1>2. G \in Int /\ G <= Burst /\ G <= tokens + Gain(T - last)
  BY <1>1, RefilledIs, SocketIs
<1>3. frames[T] = frames[last] /\ frames[T] \in Int
  <2>1. T \in 0..MaxSocketClock /\ frames[T] \in Nat
    BY SocketIs
  <2> QED BY <1>1, <2>1, PacedMeans
<1>4. A \in Int
  BY SocketIs, TotalIs
<1> HIDE DEF G, T
<1>5. CASE a <= last
  <2> DEFINE B == Limits!Total(frames, a, last)
  <2>1. A = B
    <3>1. Limits!Upto(frames, T) = Limits!Upto(frames, last)
      <4>1. T \in Int /\ last \in Int /\ 0 <= T /\ 0 <= last
        BY SocketIs DEF T
      <4>2. ~(T < 0) /\ ~(last < 0)
        BY <4>1
      <4> QED BY <1>3, <4>2 DEF Limits!Upto
    <3> QED BY <3>1 DEF Limits!Total
  <2>2. B + tokens <= Burst + Gain(last - a)
    <3>1. last \in 0..MaxSocketClock
      BY SocketIs
    <3> QED BY <1>5, PacedMeans
  <2>3. Gain(last - a) \in Nat /\ Gain(T - last) \in Nat /\ Gain(T - a) = Gain(last - a) + Gain(T - last)
    <3>1. a \in Int /\ last \in Int /\ T \in Int /\ a <= last /\ last <= T
      BY <1>1, <1>5
    <3> QED BY ONLY <3>1, SocketTyped, Passing
  <2> HIDE DEF A, B
  <2> QED BY ONLY <1>1, <1>2, <1>4, <2>1, <2>2, <2>3
<1>6. CASE a > last
  <2>1. a - 1 \in 0..MaxSocketClock /\ a - 1 >= last /\ ~(T < 0) /\ ~(a - 1 < 0)
    BY <1>1, <1>6, SocketIs DEF T
  <2>2. frames[a - 1] = frames[last]
    BY <2>1, PacedMeans
  <2>3. A = frames[T] - frames[a - 1]
    <3>1. a # 0
      BY <1>1, <2>1
    <3> QED BY <3>1, SocketIs, TotalIs DEF T
  <2>4. A = 0
    BY ONLY <1>3, <2>2, <2>3
  <2>5. Gain(T - a) \in Nat
    BY <1>1, Passing
  <2> HIDE DEF A
  <2> QED BY ONLY <1>1, <1>2, <2>4, <2>5
<1> QED BY <1>1, <1>4, <1>5, <1>6

LEMMA SocketTypes ==
  ASSUME Limits!SocketTypeOK, PacedInv, [Limits!SocketNext]_(Limits!socket_vars)
  PROVE  Limits!SocketTypeOK'
<1>1. /\ MaxSocketClock \in Nat /\ Burst \in Nat /\ socket_now \in 0..MaxSocketClock
      /\ last \in 0..MaxSocketClock /\ told \in Nat /\ tokens \in 0..Burst
      /\ frames \in [0..MaxSocketClock -> Nat] /\ warned \in BOOLEAN
  BY SocketIs
<1>2. Limits!Refilled \in 0..Burst
  BY RefilledIs, PacedMeans
<1>3. CASE UNCHANGED Limits!socket_vars
  BY <1>3 DEF Limits!socket_vars, Limits!SocketTypeOK
<1>4. CASE Limits!allow
  <2>1. Limits!OneMore(frames, socket_now) \in [0..MaxSocketClock -> Nat]
    BY <1>1, OneMoreTyped
  <2>2. Limits!Refilled - 1 \in 0..Burst /\ Limits!Refilled >= 1
    BY <1>1, <1>2, <1>4 DEF Limits!allow
  <2>3. /\ tokens' = Limits!Refilled - 1 /\ last' = socket_now /\ warned' = FALSE /\ told' = 0
        /\ frames' = Limits!OneMore(frames, socket_now) /\ socket_now' = socket_now
    BY <1>4 DEF Limits!allow
  <2>4. tokens' \in 0..Burst /\ frames' \in [0..MaxSocketClock -> Nat]
    BY <2>1, <2>2, <2>3
  <2>5. socket_now' \in 0..MaxSocketClock /\ last' \in 0..MaxSocketClock
    BY <1>1, <2>3
  <2> QED BY <2>3, <2>4, <2>5 DEF Limits!SocketTypeOK, Limits!Tick
<1>5. CASE Limits!should_warn
  BY <1>1, <1>2, <1>5 DEF Limits!should_warn, Limits!SocketTypeOK, Limits!Tick
<1>6. CASE Limits!SocketTick
  BY <1>1, <1>6 DEF Limits!SocketTick, Limits!SocketTypeOK, Limits!Tick
<1> QED BY <1>3, <1>4, <1>5, <1>6 DEF Limits!SocketNext

LEMMA PacedStart ==
  ASSUME AccountsInit
  PROVE  PacedInv
<1>1. /\ socket_now = 0 /\ tokens = Burst /\ last = 0 /\ told = 0
      /\ frames = [t \in 0..MaxSocketClock |-> 0] /\ Burst \in Nat
  BY SocketTyped DEF AccountsInit, Limits!SocketInit, Limits!Tick
<1>2. \A t \in 0..MaxSocketClock : frames[t] = 0
  BY <1>1
<1>3. ASSUME NEW a \in 0..MaxSocketClock, NEW b \in 0..MaxSocketClock, a <= b
      PROVE  Limits!Total(frames, a, b) = 0 /\ Gain(b - a) \in Nat
  <2>1. a \in Int /\ b \in Int /\ (a - 1 < 0 \/ a - 1 \in 0..MaxSocketClock)
    BY <1>3, SocketTyped
  <2>2. Limits!Upto(frames, b) = 0 /\ Limits!Upto(frames, a - 1) = 0
    BY <1>2, <1>3, <2>1 DEF Limits!Upto
  <2>3. Gain(b - a) \in Nat
    BY <1>3, <2>1, Passing
  <2> QED BY <2>2, <2>3 DEF Limits!Total
<1>4. ASSUME NEW a \in 0..MaxSocketClock, NEW b \in 0..MaxSocketClock, a <= b
      PROVE  Limits!Total(frames, a, b) <= Burst + Gain(b - a)
  <2>1. Limits!Total(frames, a, b) = 0 /\ Gain(b - a) \in Nat
    BY <1>3, <1>4
  <2> QED BY ONLY <1>1, <2>1
<1>5. ASSUME NEW a \in 0..MaxSocketClock, a <= 0
      PROVE  Limits!Total(frames, a, 0) + Burst <= Burst + Gain(0 - a)
  <2>1. 0 \in 0..MaxSocketClock
    BY SocketTyped
  <2>2. Limits!Total(frames, a, 0) = 0 /\ Gain(0 - a) \in Nat
    BY <1>3, <1>5, <2>1
  <2> QED BY ONLY <1>1, <2>2
<1>6. \A t \in 0..MaxSocketClock : frames[t] = frames[0]
  BY <1>2, SocketTyped
<1>7. /\ \A a \in 0..MaxSocketClock :
           a <= last => Limits!Total(frames, a, last) + tokens <= Burst + Gain(last - a)
  BY <1>1, <1>5
<1>8. \A a, b \in 0..MaxSocketClock : a <= b => Limits!Total(frames, a, b) <= Burst + Gain(b - a)
  BY <1>4
<1>9. last <= socket_now /\ told <= 1
  BY <1>1
<1> HIDE <1>2
<1> QED BY <1>1, <1>6, <1>7, <1>8, <1>9, PacedMeans

LEMMA PacedStep ==
  ASSUME Limits!SocketTypeOK, PacedInv, [Limits!SocketNext]_(Limits!socket_vars)
  PROVE  PacedInv'
<1> DEFINE T == socket_now
           G == Limits!Refilled
           A(a, b) == Limits!Total(frames, a, b)
<1>1. /\ T \in 0..MaxSocketClock /\ T \in Int /\ last \in Int /\ last <= T /\ Burst \in Int
      /\ told \in Nat /\ warned \in BOOLEAN
  BY SocketIs, PacedMeans
<1>2. G \in Int
  BY <1>1, RefilledIs, SocketIs
<1>3. \A t \in 0..MaxSocketClock : t >= T => frames[t] = frames[T]
  <2> SUFFICES ASSUME NEW t \in 0..MaxSocketClock, t >= T PROVE frames[t] = frames[T]
    OBVIOUS
  <2>1. t >= last /\ T >= last
    BY <1>1, SocketTyped
  <2> QED BY <1>1, <2>1, PacedMeans
<1>4. \A a \in 0..MaxSocketClock : a <= T => A(a, T) \in Int /\ A(a, T) + G <= Burst + Gain(T - a)
  BY Caught
<1>5. told <= 1 /\ (~warned => told = 0)
  BY PacedMeans
<1>6. \A a, b \in 0..MaxSocketClock : a <= b => A(a, b) <= Burst + Gain(b - a)
  BY PacedMeans
<1>7. CASE UNCHANGED Limits!socket_vars
  BY <1>7 DEF Limits!socket_vars, PacedInv, Limits!FramesArePaced, Limits!Total, Limits!Upto
<1>8. CASE Limits!allow
  <2> DEFINE f == Limits!OneMore(frames, T)
             B(a, b) == Limits!Total(f, a, b)
  <2>1. /\ tokens' = G - 1 /\ last' = T /\ warned' = FALSE /\ told' = 0
        /\ frames' = f /\ socket_now' = T /\ G >= 1
    BY <1>8 DEF Limits!allow
  <2>2. ASSUME NEW a \in 0..MaxSocketClock, NEW b \in 0..MaxSocketClock, a <= b
        PROVE  /\ A(a, b) \in Int
               /\ a <= T /\ T <= b => B(a, b) = A(a, b) + 1
               /\ T < a \/ b < T => B(a, b) = A(a, b)
    <3>1. /\ frames \in [0..MaxSocketClock -> Nat] /\ T \in 0..MaxSocketClock
          /\ MaxSocketClock \in Nat
      BY SocketIs
    <3> HIDE DEF T
    <3>2. A(a, b) \in Int
      BY <3>1, TotalIs
    <3> QED BY <2>2, <3>1, <3>2, OneMoreIn
  <2>3. \A t \in 0..MaxSocketClock : t >= T => f[t] = f[T]
    <3>2. \A t \in 0..MaxSocketClock : t >= T => f[t] = frames[t] + 1
      BY SocketIs, OneMoreTyped
    <3>3. T >= T
      BY <1>1
    <3> HIDE DEF f, T
    <3> QED BY <1>1, <1>3, <3>2, <3>3
  <2>4. ASSUME NEW a \in 0..MaxSocketClock, a <= T
        PROVE  B(a, T) + (G - 1) <= Burst + Gain(T - a) /\ B(a, T) \in Int
    <3>1. T <= T /\ Gain(T - a) \in Nat
      BY <1>1, <2>4, SocketTyped, Passing
    <3>2. B(a, T) = A(a, T) + 1
      BY <1>1, <2>2, <2>4, <3>1
    <3>3. A(a, T) + G <= Burst + Gain(T - a) /\ A(a, T) \in Int
      BY <1>4, <2>4
    <3> HIDE DEF A, B, G, T
    <3> QED BY ONLY <1>1, <1>2, <3>1, <3>2, <3>3
  <2>5. ASSUME NEW a \in 0..MaxSocketClock, NEW b \in 0..MaxSocketClock, a <= b
        PROVE  B(a, b) <= Burst + Gain(b - a)
    <3>0. a \in Int /\ b \in Int
      BY SocketTyped
    <3>1. CASE a <= T /\ T <= b
      <4>1. B(a, b) = B(a, T)
        <5>1. b >= T
          BY <1>1, <3>0, <3>1
        <5>2. f[b] = f[T]
          BY <2>3, <5>1
        <5>3. ~(b < 0) /\ ~(T < 0)
          <6> HIDE DEF T
          <6> QED BY <1>1, SocketTyped
        <5>4. Limits!Upto(f, b) = Limits!Upto(f, T)
          BY ONLY <5>2, <5>3 DEF Limits!Upto
        <5> QED BY ONLY <5>4 DEF Limits!Total
      <4>2. Gain(T - a) \in Nat /\ Gain(b - T) \in Nat /\ Gain(b - a) = Gain(T - a) + Gain(b - T)
        <5>1. T \in Int /\ a <= T /\ T <= b
          BY <1>1, <3>1
        <5> HIDE DEF T
        <5> QED BY ONLY <3>0, <5>1, Passing
      <4>3. B(a, T) + (G - 1) <= Burst + Gain(T - a) /\ B(a, T) \in Int
        BY <2>4, <3>1
      <4>4. G >= 1
        BY <2>1
      <4> HIDE DEF B, G, T
      <4> QED BY ONLY <1>1, <1>2, <4>1, <4>2, <4>3, <4>4
    <3>2. CASE T < a \/ b < T
      <4>1. B(a, b) = A(a, b)
        BY <2>2, <2>5, <3>2
      <4>2. A(a, b) <= Burst + Gain(b - a)
        BY <1>6, <2>5
      <4> HIDE DEF A, B
      <4> QED BY <4>1, <4>2
    <3> QED BY <1>1, <3>0, <3>1, <3>2
  <2>6. told' <= 1 /\ last' <= socket_now'
    BY <1>1, <2>1
  <2>7. \A a \in 0..MaxSocketClock :
          a <= last' => Limits!Total(frames', a, last') + tokens' <= Burst + Gain(last' - a)
    BY <2>1, <2>4
  <2>8. \A a, b \in 0..MaxSocketClock : a <= b => Limits!Total(frames', a, b) <= Burst + Gain(b - a)
    BY <2>1, <2>5
  <2> HIDE DEF f, G, T
  <2>9. \A t \in 0..MaxSocketClock : t >= last' => frames'[t] = frames'[last']
    BY <2>1, <2>3
  <2> QED BY <2>1, <2>6, <2>7, <2>8, <2>9, PacedBecomes
<1>9. CASE Limits!should_warn
  <2>1. /\ tokens' = G /\ last' = T /\ warned' = TRUE /\ frames' = frames /\ socket_now' = T
        /\ told' = IF warned THEN told ELSE told + 1
    BY <1>9 DEF Limits!should_warn
  <2>2. told' <= 1 /\ last' <= socket_now'
    BY <1>1, <1>5, <2>1
  <2>3. \A t \in 0..MaxSocketClock : t >= last' => frames'[t] = frames'[last']
    BY <1>3, <2>1
  <2>4. \A a \in 0..MaxSocketClock :
          a <= last' => Limits!Total(frames', a, last') + tokens' <= Burst + Gain(last' - a)
    BY <1>4, <2>1
  <2>5. \A a, b \in 0..MaxSocketClock : a <= b => Limits!Total(frames', a, b) <= Burst + Gain(b - a)
    BY <1>6, <2>1
  <2> QED BY <2>1, <2>2, <2>3, <2>4, <2>5, PacedBecomes
<1>10. CASE Limits!SocketTick
  <2>1. /\ socket_now' = T + 1 /\ tokens' = tokens /\ last' = last /\ warned' = warned
        /\ frames' = frames /\ told' = told
    BY <1>10 DEF Limits!SocketTick
  <2>2. last' <= socket_now'
    BY <1>1, <2>1
  <2> QED BY <2>1, <2>2, PacedMeans, PacedBecomes
<1> QED BY <1>7, <1>8, <1>9, <1>10 DEF Limits!SocketNext

-----------------------------------------------------------------------------
(* The windows of a key.  The k-th runs from WS * k up to the next.         *)

WS       == rule.window_seconds
Edge(k)  == WS * k
Index(t) == t \div WS

Seen(k, c, p) == [start |-> Edge(k), current |-> c, previous |-> p]

\* Whether a hit is let in d seconds into a window.
Room(c, p, d) == p * (WS - d) + (c + 1) * WS <= Limits!Limit * WS

LEMMA KeyIs ==
  ASSUME Limits!KeyTypeOK
  PROVE  /\ WS \in Nat \ {0} /\ Limits!Limit \in Nat \ {0}
         /\ now \in 0..MaxKeyClock /\ MaxKeyClock \in Nat /\ now \in Nat
         /\ window \in Limits!Window \cup {None} /\ None \notin Limits!Window
         /\ accepted \in [0..MaxKeyClock -> Nat]
<1>1. /\ rule \in Limits!RateLimit /\ MaxKeyClock \in Nat /\ None \notin Limits!Window
      /\ now \in 0..MaxKeyClock /\ window \in Limits!Window \cup {None}
      /\ accepted \in [0..MaxKeyClock -> Nat]
  BY AccountsAssumption DEF Limits!RateLimitAssumption, Limits!KeyTypeOK, Limits!Second
<1>2. rule.window_seconds \in Nat \ {0} /\ rule.limit \in Nat \ {0}
  BY <1>1 DEF Limits!RateLimit
<1>3. now \in Nat
  BY <1>1
<1> QED BY <1>1, <1>2, <1>3 DEF WS, Limits!Limit

LEMMA EdgeIs ==
  ASSUME Limits!KeyTypeOK, NEW k \in Int
  PROVE  Edge(k) \in Int /\ Edge(k + 1) = Edge(k) + WS
  BY KeyIs, Times DEF Edge

LEMMA EdgesRise ==
  ASSUME Limits!KeyTypeOK, NEW j \in Int, NEW k \in Int, j <= k
  PROVE  Edge(j) <= Edge(k)
<1>1. WS \in Nat
  BY KeyIs
<1> QED BY <1>1, Monotone DEF Edge

LEMMA InWindow ==
  ASSUME Limits!KeyTypeOK, NEW t \in Int
  PROVE  Index(t) \in Int /\ Edge(Index(t)) <= t /\ t < Edge(Index(t)) + WS
  BY KeyIs, Quotient DEF Index, Edge

LEMMA OneWindow ==
  ASSUME Limits!KeyTypeOK, NEW t \in Int, NEW k \in Int, Edge(k) <= t, t < Edge(k) + WS
  PROVE  Index(t) = k
<1>1. WS \in Nat \ {0} /\ WS * k <= t /\ t < WS * k + WS
  BY KeyIs DEF Edge
<1> HIDE DEF WS
<1> QED BY <1>1, OneQuotient DEF Index

LEMMA LaterWindow ==
  ASSUME Limits!KeyTypeOK, NEW s \in Int, NEW t \in Int, s <= t
  PROVE  Index(s) <= Index(t)
<1> DEFINE i == Index(s)
           j == Index(t)
<1>1. i \in Int /\ j \in Int /\ Edge(i) <= s /\ t < Edge(j) + WS
  BY InWindow
<1>2. Edge(i) \in Int /\ Edge(j) \in Int /\ Edge(j + 1) = Edge(j) + WS /\ WS \in Nat
  BY <1>1, EdgeIs, KeyIs
<1> HIDE DEF i, j
<1>3. ASSUME j + 1 <= i PROVE FALSE
  <2>1. Edge(j + 1) <= Edge(i)
    BY <1>1, <1>3, EdgesRise
  <2> QED BY <1>1, <1>2, <2>1
<1>4. i <= j
  BY <1>1, <1>3
<1> QED BY <1>4 DEF i, j

LEMMA Division ==
  ASSUME NEW n \in Nat \ {0}, NEW e \in Int
  PROVE  e - (e % n) = n * (e \div n)
OBVIOUS

LEMMA StartIs ==
  ASSUME Limits!KeyTypeOK, NEW t \in Int
  PROVE  Limits!StartOf(t) = Edge(Index(t))
<1>1. WS \in Nat \ {0}
  BY KeyIs
<1> QED BY <1>1, Division DEF Limits!StartOf, Limits!WindowSeconds, WS, Edge, Index

\* What a window is, seen later.
LEMMA Rolls ==
  ASSUME Limits!KeyTypeOK, NEW k \in Int, NEW c \in Nat, NEW p \in Nat, NEW t \in Int, k <= Index(t),
         Seen(k, c, p) # None
  PROVE  /\ Index(t) = k => Limits!CurrentWindow(Seen(k, c, p), t) = Seen(k, c, p)
         /\ Index(t) = k + 1 => Limits!CurrentWindow(Seen(k, c, p), t) = Seen(k + 1, 0, c)
         /\ Index(t) > k + 1 => Limits!CurrentWindow(Seen(k, c, p), t) = Seen(Index(t), 0, 0)
<1> DEFINE j == Index(t)
           w == Seen(k, c, p)
           s == Edge(k)
           u == Edge(j)
<1>1. /\ j \in Int /\ u \in Int /\ s \in Int /\ WS \in Nat \ {0}
      /\ Edge(k + 1) = s + WS /\ Edge(k + 2) = s + WS + WS
  <2>1. j \in Int /\ k + 1 \in Int /\ (k + 1) + 1 = k + 2
    BY InWindow
  <2>2. /\ u \in Int /\ s \in Int /\ Edge(k + 1) = s + WS
        /\ Edge((k + 1) + 1) = Edge(k + 1) + WS
    BY <2>1, EdgeIs
  <2> QED BY <2>1, <2>2, KeyIs
<1>2. Limits!StartOf(t) = u /\ Limits!WindowSeconds = WS
  BY StartIs DEF Limits!WindowSeconds, WS
<1>3. w.start = s /\ w.current = c
  BY DEF Seen
<1>4. Limits!CurrentWindow(w, t) =
        IF s = u THEN w
        ELSE [start |-> u, current |-> 0, previous |-> IF u - s = WS THEN c ELSE 0]
  BY <1>2, <1>3 DEF Limits!CurrentWindow
<1> HIDE DEF w
<1>5. j = k => Limits!CurrentWindow(w, t) = w
  BY <1>4
<1>6. j = k + 1 => Limits!CurrentWindow(w, t) = Seen(k + 1, 0, c)
  <2> SUFFICES ASSUME j = k + 1
               PROVE  Limits!CurrentWindow(w, t) = Seen(k + 1, 0, c)
    OBVIOUS
  <2>1. u - s = WS /\ s # u
    BY <1>1
  <2> QED BY <1>4, <2>1 DEF Seen
<1>7. j > k + 1 => Limits!CurrentWindow(w, t) = Seen(j, 0, 0)
  <2> SUFFICES ASSUME j > k + 1
               PROVE  Limits!CurrentWindow(w, t) = Seen(j, 0, 0)
    OBVIOUS
  <2>1. Edge(k + 2) <= u
    <3>1. k + 2 <= j /\ k + 2 \in Int
      BY <1>1
    <3> QED BY <1>1, <3>1, EdgesRise
  <2>2. u - s # WS /\ s # u
    BY <1>1, <2>1
  <2> QED BY <1>4, <2>2 DEF Seen
<1> QED BY <1>5, <1>6, <1>7 DEF w

LEMMA AdmitsIs ==
  ASSUME NEW k \in Int, NEW c \in Nat, NEW p \in Nat, NEW t \in Int
  PROVE  Limits!Admits(Seen(k, c, p), t) <=> Room(c, p, t - Edge(k))
  BY DEF Limits!Admits, Limits!WindowSeconds, Seen, Room, WS

-----------------------------------------------------------------------------
(* Retry-After.                                                             *)

LEMMA CeilIs ==
  ASSUME NEW a \in Int, NEW b \in Nat \ {0}
  PROVE  /\ Limits!Ceil(a, b) \in Int
         /\ a <= b * Limits!Ceil(a, b) /\ b * Limits!Ceil(a, b) < a + b
<1> DEFINE d == (a + b - 1) \div b
           m == b * d
<1>1. a + b - 1 \in Int
  OBVIOUS
<1>2. d \in Int /\ m <= a + b - 1 /\ a + b - 1 < m + b
  BY <1>1, Quotient
<1>3. m \in Int
  BY <1>2, Times
<1> HIDE DEF m, d
<1>4. a <= m /\ m < a + b
  BY <1>2, <1>3
<1>5. Limits!Ceil(a, b) = d
  BY DEF Limits!Ceil, d
<1> QED BY <1>2, <1>4, <1>5 DEF m

LEMMA Apart ==
  ASSUME NEW n \in Int, NEW p \in Int, NEW q \in Int
  PROVE  n * (p - q) = n * p - n * q /\ n * p \in Int /\ n * q \in Int
OBVIOUS

LEMMA Turned ==
  ASSUME NEW p \in Int, NEW q \in Int
  PROVE  p * q = q * p /\ p * q \in Int
OBVIOUS

\* Of two multiples of what is not negative, the larger is that of the larger.
LEMMA Larger ==
  ASSUME NEW n \in Nat, NEW p \in Int, NEW q \in Int, n * p < n * q
  PROVE  p < q
<1>1. ASSUME q <= p PROVE FALSE
  <2>1. n * q <= n * p /\ n * q \in Int /\ n * p \in Int
    BY <1>1, Monotone
  <2> QED BY <2>1
<1> QED BY <1>1

\* The room d seconds into a window, multiplied out.
LEMMA RoomIs ==
  ASSUME Limits!KeyTypeOK, NEW c \in Int, NEW p \in Int, NEW d \in Int
  PROVE  /\ Room(c, p, d) <=> p * WS - p * d + c * WS + WS <= Limits!Limit * WS
         /\ p * WS \in Int /\ p * d \in Int /\ c * WS \in Int /\ Limits!Limit * WS \in Int
<1>1. WS \in Int /\ Limits!Limit \in Int
  BY KeyIs
<1> HIDE DEF WS
<1>2. p * (WS - d) = p * WS - p * d /\ p * WS \in Int /\ p * d \in Int
  BY <1>1, Apart
<1>3. (c + 1) * WS = c * WS + WS /\ c * WS \in Int
  <2>1. WS * (c + 1) = WS * c + WS
    BY <1>1, Times
  <2>2. c + 1 \in Int
    OBVIOUS
  <2>3. (c + 1) * WS = WS * (c + 1) /\ c * WS = WS * c /\ c * WS \in Int
    BY <1>1, <2>2, Turned
  <2> QED BY <2>1, <2>3
<1>4. Limits!Limit * WS \in Int
  BY <1>1, Turned
<1> QED BY <1>1, <1>2, <1>3, <1>4 DEF Room

\* The wait for a full window to decay, counted from the start of the next.
LEMMA FullWaits ==
  ASSUME Limits!KeyTypeOK
  PROVE  LET d == Limits!Ceil(WS, Limits!Limit)
         IN /\ d \in 1..WS
            /\ Room(0, Limits!Limit, d) /\ ~Room(0, Limits!Limit, d - 1)
            /\ Room(0, 0, 0)
<1> DEFINE l == Limits!Limit
           d == Limits!Ceil(WS, l)
           lw == l * WS
           ld == l * d
<1>1. WS \in Nat \ {0} /\ l \in Nat \ {0} /\ WS \in Int /\ l \in Int
  BY KeyIs
<1> HIDE DEF l, WS
<1>2. d \in Int /\ WS <= ld /\ ld < WS + l
  BY <1>1, CeilIs
<1> HIDE DEF d
<1>3. lw \in Int /\ ld \in Int /\ l * (d - 1) = ld - l /\ 0 * WS = 0 /\ 0 * 0 = 0 /\ d - 1 \in Int
  <2>1. l * (d - 1) = l * d - l * 1 /\ l * 1 = l
    BY <1>1, <1>2, Apart
  <2> QED BY <1>1, <1>2, <2>1, Turned
<1>4. WS <= lw
  <2>1. WS * 1 <= WS * l /\ WS * 1 = WS
    BY <1>1, Monotone
  <2> QED BY <1>1, <2>1, Turned
<1>5. Room(0, l, d) <=> lw - ld + 0 * WS + WS <= lw
  BY <1>1, <1>2, RoomIs DEF l
<1>6. Room(0, l, d - 1) <=> lw - l * (d - 1) + 0 * WS + WS <= lw
  BY <1>1, <1>3, RoomIs DEF l
<1>7. Room(0, 0, 0) <=> 0 * WS - 0 * 0 + 0 * WS + WS <= lw
  BY RoomIs DEF l
<1> HIDE DEF lw
<1>8. Room(0, l, d)
  BY <1>1, <1>2, <1>3, <1>5
<1>9. ~Room(0, l, d - 1)
  BY <1>1, <1>2, <1>3, <1>6
<1>10. Room(0, 0, 0)
  BY <1>1, <1>3, <1>4, <1>7
<1>11. 0 < d
  <2>1. l * 0 < ld /\ l * 0 = 0
    BY <1>1, <1>2
  <2> QED BY <1>1, <1>2, <2>1, Larger
<1>12. d - 1 < WS
  <2>1. l * (d - 1) < l * WS
    BY <1>1, <1>2, <1>3, <1>4 DEF lw
  <2> QED BY <1>1, <1>3, <2>1, Larger
<1>13. d \in 1..WS
  BY <1>1, <1>2, <1>11, <1>12
<1> QED BY <1>8, <1>9, <1>10, <1>13 DEF d, l

\* The wait for the previous window to decay, counted from the window's start.
LEMMA PartWaits ==
  ASSUME Limits!KeyTypeOK, NEW c \in Nat, NEW p \in Nat, NEW e \in Nat,
         c + 1 <= Limits!Limit, e < WS, ~Room(c, p, e)
  PROVE  LET d == Limits!Ceil(WS * (p - (Limits!Limit - 1 - c)), p)
         IN /\ d \in (e + 1)..WS
            /\ Room(c, p, d) /\ ~Room(c, p, d - 1)
            /\ Room(0, c, 0)
<1> DEFINE l == Limits!Limit
           a == WS * (p - (l - 1 - c))
           d == Limits!Ceil(a, p)
           pw == p * WS
           cw == c * WS
           lw == l * WS
<1>1. WS \in Nat \ {0} /\ l \in Nat \ {0} /\ WS \in Int /\ l \in Int /\ c \in Int /\ p \in Int /\ e \in Int
  BY KeyIs
<1>2. c + 1 <= l /\ e < WS
  OBVIOUS
<1> HIDE DEF l, WS
<1>3. pw \in Int /\ cw \in Int /\ lw \in Int
  BY <1>1, Turned
<1>4. a = pw - lw + WS + cw /\ a \in Int
  <2>1. p - (l - 1 - c) = (p + c) - (l - 1) /\ p + c \in Int /\ l - 1 \in Int
    BY <1>1
  <2>2. a = WS * (p + c) - WS * (l - 1)
    BY <1>1, <2>1, Apart
  <2>3. WS * (l - 1) = WS * l - WS * 1 /\ WS * 1 = WS
    BY <1>1, Apart
  <2>4. WS * (p + c) = WS * p + WS * c
    BY <1>1
  <2>5. WS * p = pw /\ WS * c = cw /\ WS * l = lw
    BY <1>1, Turned
  <2> QED BY <1>1, <1>3, <2>2, <2>3, <2>4, <2>5
<1> HIDE DEF a
<1>5. cw + WS <= lw
  <2>1. WS * (c + 1) <= WS * l /\ WS * (c + 1) = WS * c + WS
    BY <1>1, <1>2, Monotone, Times
  <2> QED BY <1>1, <2>1, Turned
<1>6. ~(pw - p * e + cw + WS <= lw) /\ p * e \in Int
  BY <1>1, RoomIs DEF l
<1>7. p # 0
  <2>1. ASSUME p = 0 PROVE FALSE
    <3>1. pw = 0 /\ p * e = 0
      BY <1>1, <2>1
    <3> QED BY <1>1, <1>3, <1>5, <1>6, <3>1
  <2> QED BY <2>1
<1> DEFINE pd == p * d
<1>8. d \in Int /\ a <= pd /\ pd < a + p
  BY <1>1, <1>4, <1>7, CeilIs
<1> HIDE DEF d
<1>9. pd \in Int /\ p * (d - 1) = pd - p /\ d - 1 \in Int
  <2>1. p * (d - 1) = p * d - p * 1 /\ p * 1 = p
    BY <1>1, <1>8, Apart
  <2> QED BY <1>1, <1>8, <2>1, Turned
<1>10. Room(c, p, d) <=> pw - pd + cw + WS <= lw
  BY <1>1, <1>8, RoomIs DEF l
<1>11. Room(c, p, d - 1) <=> pw - p * (d - 1) + cw + WS <= lw
  BY <1>1, <1>9, RoomIs DEF l
<1>12. Room(0, c, 0) <=> cw - c * 0 + 0 * WS + WS <= lw
  BY <1>1, RoomIs DEF l
<1>13. c * 0 = 0 /\ 0 * WS = 0
  BY <1>1
<1>14. e < d
  <2>1. p * e < pd
    BY <1>1, <1>3, <1>4, <1>6, <1>8, <1>9
  <2> QED BY <1>1, <1>8, <2>1, Larger
<1>15. d - 1 < WS
  <2>1. p * (d - 1) < p * WS
    <3> HIDE DEF pd
    <3>1. pd - p < pw
      BY <1>1, <1>3, <1>4, <1>5, <1>8, <1>9
    <3> QED BY <1>9, <3>1
  <2> QED BY <1>1, <1>9, <2>1, Larger
<1> HIDE DEF pw, cw, lw, pd
<1>16. Room(c, p, d)
  BY <1>1, <1>3, <1>4, <1>8, <1>9, <1>10
<1>17. ~Room(c, p, d - 1)
  BY <1>1, <1>3, <1>4, <1>8, <1>9, <1>11
<1>18. Room(0, c, 0)
  BY <1>1, <1>3, <1>5, <1>12, <1>13
<1>19. d \in (e + 1)..WS
  BY <1>1, <1>8, <1>14, <1>15
<1> QED BY <1>16, <1>17, <1>18, <1>19 DEF d, a, l

\* Whether a window seen later lets a hit in.
LEMMA AdmitsLater ==
  ASSUME Limits!KeyTypeOK, NEW k \in Int, NEW c \in Nat, NEW p \in Nat, NEW t \in Int,
         Seen(k, c, p) # None
  PROVE  LET Then == Limits!Admits(Limits!CurrentWindow(Seen(k, c, p), t), t)
         IN /\ Index(t) = k => (Then <=> Room(c, p, t - Edge(k)))
            /\ Index(t) = k + 1 => (Then <=> Room(0, c, t - Edge(k + 1)))
            /\ Index(t) = k + 2 => (Then <=> Room(0, 0, t - Edge(k + 2)))
<1>0. k + 1 \in Int /\ k + 2 \in Int /\ 0 \in Nat /\ k <= k /\ k <= k + 1 /\ k <= k + 2 /\ k + 2 > k + 1
  OBVIOUS
<1>1. ASSUME Index(t) = k
      PROVE  Limits!Admits(Limits!CurrentWindow(Seen(k, c, p), t), t) <=> Room(c, p, t - Edge(k))
  <2>1. Limits!CurrentWindow(Seen(k, c, p), t) = Seen(k, c, p)
    BY <1>0, <1>1, Rolls
  <2> QED BY <2>1, AdmitsIs
<1>2. ASSUME Index(t) = k + 1
      PROVE  Limits!Admits(Limits!CurrentWindow(Seen(k, c, p), t), t) <=> Room(0, c, t - Edge(k + 1))
  <2>1. Limits!CurrentWindow(Seen(k, c, p), t) = Seen(k + 1, 0, c)
    BY <1>0, <1>2, Rolls
  <2> QED BY <1>0, <2>1, AdmitsIs
<1>3. ASSUME Index(t) = k + 2
      PROVE  Limits!Admits(Limits!CurrentWindow(Seen(k, c, p), t), t) <=> Room(0, 0, t - Edge(k + 2))
  <2>1. Limits!CurrentWindow(Seen(k, c, p), t) = Seen(k + 2, 0, 0)
    BY <1>0, <1>3, Rolls
  <2> QED BY <1>0, <2>1, AdmitsIs
<1> QED BY <1>1, <1>2, <1>3

\* A refused hit is let in when it was told to come back, and no second sooner.
LEMMA RetryHolds ==
  ASSUME Limits!KeyTypeOK, NEW c \in Nat, NEW p \in Nat, c <= Limits!Limit,
         Seen(Index(now), c, p) # None,
         ~Limits!Admits(Seen(Index(now), c, p), now)
  PROVE  LET w == Seen(Index(now), c, p)
             AdmitsAt(t) == Limits!Admits(Limits!CurrentWindow(w, t), t)
             r == Limits!retry_after(w, now)
         IN AdmitsAt(now + r) /\ (r > 1 => ~AdmitsAt(now + r - 1))
<1> DEFINE k  == Index(now)
           k1 == k + 1
           k2 == k + 2
           w  == Seen(k, c, p)
           s  == Edge(k)
           e  == now - s
           l  == Limits!Limit
           r  == Limits!retry_after(w, now)
           x  == now + r
           y  == now + r - 1
           AdmitsAt(t) == Limits!Admits(Limits!CurrentWindow(w, t), t)
<1>0. WS \in Nat \ {0} /\ l \in Nat \ {0} /\ now \in Int
  BY KeyIs
<1>1. k \in Int /\ s \in Int /\ s <= now /\ now < s + WS
  <2>1. k \in Int /\ s <= now /\ now < s + WS
    BY <1>0, InWindow
  <2> QED BY <2>1, EdgeIs
<1>2. Edge(k1) = s + WS /\ Edge(k2) = s + WS + WS /\ k1 \in Int /\ k2 \in Int
  <2>1. k + 1 \in Int /\ k + 2 \in Int /\ (k + 1) + 1 = k + 2
    BY <1>1
  <2>2. Edge(k + 1) = s + WS /\ Edge((k + 1) + 1) = Edge(k + 1) + WS
    BY <1>1, <2>1, EdgeIs
  <2> QED BY <2>1, <2>2
<1>3. e \in Nat /\ e < WS /\ ~Room(c, p, e)
  <2>1. ~Room(c, p, e)
    BY <1>0, <1>1, AdmitsIs
  <2> QED BY <1>0, <1>1, <2>1
<1>4. c <= l /\ w # None /\ w.start = s /\ w.current = c /\ w.previous = p
  BY DEF Seen
<1>5. \A t \in Int : /\ Index(t) = k => (AdmitsAt(t) <=> Room(c, p, t - s))
                     /\ Index(t) = k1 => (AdmitsAt(t) <=> Room(0, c, t - Edge(k1)))
                     /\ Index(t) = k2 => (AdmitsAt(t) <=> Room(0, 0, t - Edge(k2)))
  BY <1>1, <1>4, AdmitsLater
<1> SUFFICES AdmitsAt(x) /\ (r > 1 => ~AdmitsAt(y))
  OBVIOUS
<1> HIDE DEF AdmitsAt, w, s, k, k1, k2, l, WS
<1>6. r = Limits!AtLeast1(IF c + 1 > l
                          THEN s + WS - now + (IF c = 0 THEN 0 ELSE Limits!Ceil(WS * (c - (l - 1)), c))
                          ELSE s - now + Limits!Ceil(WS * (p - (l - 1 - c)), p))
  BY ONLY <1>4 DEF Limits!retry_after, Limits!WindowSeconds, WS, l
<1> HIDE DEF r
<1>7. ASSUME c + 1 > l
      PROVE  AdmitsAt(x) /\ (r > 1 => ~AdmitsAt(y))
  <2> DEFINE d == Limits!Ceil(WS, l)
  <2>1. c = l /\ c # 0 /\ WS * (c - (l - 1)) = WS
    <3>1. c = l /\ c # 0 /\ c - (l - 1) = 1
      BY <1>0, <1>1, <1>4, <1>7
    <3> QED BY <1>0, <1>1, <3>1
  <2>2. d \in 1..WS /\ Room(0, l, d) /\ ~Room(0, l, d - 1) /\ Room(0, 0, 0)
    BY FullWaits DEF l
  <2>3. r = Limits!AtLeast1(s + WS - now + d)
    BY <1>6, <1>7, <2>1
  <2> HIDE DEF d, e
  <2>4. d \in Int /\ 1 <= d /\ d <= WS
    BY <1>0, <1>1, <2>2
  <2>5. s + WS - now + d >= 1 /\ s + WS - now + d \in Int
    BY <1>0, <1>1, <2>4
  <2>6. r = s + WS - now + d
    BY <2>3, <2>5 DEF Limits!AtLeast1
  <2>7. x = s + WS + d /\ y = s + WS + d - 1 /\ x \in Int /\ y \in Int
    BY <1>0, <1>1, <2>4, <2>6
  <2> HIDE DEF x, y
  <2>8. AdmitsAt(x)
    <3>1. CASE d < WS
      <4>1. Edge(k1) <= x /\ x < Edge(k1) + WS
        BY <1>0, <1>1, <1>2, <2>4, <2>7, <3>1
      <4>2. Index(x) = k1
        BY <1>2, <2>7, <4>1, OneWindow
      <4>3. x - Edge(k1) = d
        BY <1>0, <1>1, <1>2, <2>4, <2>7
      <4> QED BY <1>5, <2>1, <2>2, <2>7, <4>2, <4>3
    <3>2. CASE d = WS
      <4>1. Edge(k2) <= x /\ x < Edge(k2) + WS
        BY <1>0, <1>1, <1>2, <2>4, <2>7, <3>2
      <4>2. Index(x) = k2
        BY <1>2, <2>7, <4>1, OneWindow
      <4>3. x - Edge(k2) = 0
        BY <1>0, <1>1, <1>2, <2>4, <2>7, <3>2
      <4> QED BY <1>5, <2>2, <2>7, <4>2, <4>3
    <3> QED BY <1>0, <1>1, <2>4, <3>1, <3>2
  <2>9. ~AdmitsAt(y)
    <3>1. Edge(k1) <= y /\ y < Edge(k1) + WS
      BY <1>0, <1>1, <1>2, <2>4, <2>7
    <3>2. Index(y) = k1
      BY <1>2, <2>7, <3>1, OneWindow
    <3>3. y - Edge(k1) = d - 1
      BY <1>0, <1>1, <1>2, <2>4, <2>7
    <3> QED BY <1>5, <2>1, <2>2, <2>7, <3>2, <3>3
  <2> QED BY <2>8, <2>9
<1>8. ASSUME ~(c + 1 > l)
      PROVE  AdmitsAt(x) /\ (r > 1 => ~AdmitsAt(y))
  <2> DEFINE d == Limits!Ceil(WS * (p - (l - 1 - c)), p)
  <2>1. c + 1 <= l
    BY <1>0, <1>1, <1>8
  <2>2. d \in (e + 1)..WS /\ Room(c, p, d) /\ ~Room(c, p, d - 1) /\ Room(0, c, 0)
    BY <1>3, <2>1, PartWaits DEF l
  <2>3. r = Limits!AtLeast1(s - now + d)
    BY <1>6, <1>8
  <2> HIDE DEF d
  <2>4. d \in Int /\ now - s + 1 <= d /\ d <= WS
    BY <1>0, <1>1, <2>2
  <2> HIDE DEF e
  <2>5. s - now + d >= 1 /\ s - now + d \in Int
    BY <1>0, <1>1, <2>4
  <2>6. r = s - now + d
    BY <2>3, <2>5 DEF Limits!AtLeast1
  <2>7. x = s + d /\ y = s + d - 1 /\ x \in Int /\ y \in Int
    BY <1>0, <1>1, <2>4, <2>6
  <2> HIDE DEF x, y
  <2>8. AdmitsAt(x)
    <3>1. CASE d < WS
      <4>1. Edge(k) <= x /\ x < Edge(k) + WS
        BY <1>0, <1>1, <2>4, <2>7, <3>1 DEF s, k
      <4>2. Index(x) = k
        BY <1>0, <1>1, <2>7, <4>1, OneWindow
      <4>3. x - s = d
        BY <1>0, <1>1, <2>4, <2>7
      <4> QED BY <1>5, <2>2, <2>7, <4>2, <4>3
    <3>2. CASE d = WS
      <4>1. Edge(k1) <= x /\ x < Edge(k1) + WS
        BY <1>0, <1>1, <1>2, <2>4, <2>7, <3>2
      <4>2. Index(x) = k1
        BY <1>2, <2>7, <4>1, OneWindow
      <4>3. x - Edge(k1) = 0
        BY <1>0, <1>1, <1>2, <2>4, <2>7, <3>2
      <4> QED BY <1>5, <2>2, <2>7, <4>2, <4>3
    <3> QED BY <1>0, <1>1, <2>4, <3>1, <3>2
  <2>9. ~AdmitsAt(y)
    <3>1. Edge(k) <= y /\ y < Edge(k) + WS
      BY <1>0, <1>1, <2>4, <2>7 DEF s, k
    <3>2. Index(y) = k
      BY <1>0, <1>1, <2>7, <3>1, OneWindow
    <3>3. y - s = d - 1
      BY <1>0, <1>1, <2>4, <2>7
    <3> QED BY <1>5, <2>2, <2>7, <3>2, <3>3
  <2> QED BY <2>8, <2>9
<1> QED BY <1>7, <1>8

-----------------------------------------------------------------------------
(* The hits of each window.                                                 *)

\* The hits accepted up to t, before the k-th window, and in it.
By(f, t)     == IF t < 0 THEN 0 ELSE f[IF t < MaxKeyClock THEN t ELSE MaxKeyClock]
Before(f, k) == By(f, Edge(k) - 1)
Hits(f, k)   == Before(f, k + 1) - Before(f, k)

\* What is within the limit: no window takes more hits than it, and none as many
\* as it after one that took any.
Measured(f) == \A k \in Int : /\ Hits(f, k) <= Limits!Limit
                              /\ \/ Hits(f, k) = 0
                                 \/ Hits(f, k - 1) = 0
                                 \/ Hits(f, k) < Limits!Limit

Rising(f)   == \A a, b \in 0..MaxKeyClock : a <= b => f[a] <= f[b]
Quiet(f, t) == \A k \in Int : k > Index(t) => Hits(f, k) = 0

\* The entry counts, from t on, the hits of the window and of the one before it.
Counts(w, f, t) == \A x \in Int :
  x >= t => Limits!CurrentWindow(w, x) = Seen(Index(x), Hits(f, Index(x)), Hits(f, Index(x) - 1))

Counted(w, f, t) == Measured(f) /\ Rising(f) /\ Quiet(f, t) /\ Counts(w, f, t)
CountedInv       == Counted(window, accepted, now)

LEMMA CountedBecomes ==
  ASSUME rule' = rule
  PROVE  CountedInv' <=> Counted(window', accepted', now')
  BY DEF CountedInv, Counted, Measured, Rising, Quiet, Counts, Hits, Before, By, Edge, Index, WS,
         Seen, Limits!Limit, Limits!CurrentWindow, Limits!StartOf, Limits!WindowSeconds

LEMMA ByTyped ==
  ASSUME MaxKeyClock \in Nat, NEW f \in [0..MaxKeyClock -> Nat], NEW t \in Int
  PROVE  By(f, t) \in Nat
  BY DEF By

LEMMA HitsTyped ==
  ASSUME Limits!KeyTypeOK, NEW f \in [0..MaxKeyClock -> Nat], NEW k \in Int
  PROVE  /\ Before(f, k) \in Nat /\ Before(f, k + 1) \in Nat /\ Hits(f, k) \in Int
         /\ Before(f, k + 1) = Before(f, k) + Hits(f, k)
<1>1. Edge(k) - 1 \in Int /\ Edge(k + 1) - 1 \in Int /\ MaxKeyClock \in Nat
  <2>1. k + 1 \in Int
    OBVIOUS
  <2>2. Edge(k) \in Int /\ Edge(k + 1) \in Int
    BY <2>1, EdgeIs
  <2> QED BY <2>2, KeyIs
<1>2. Before(f, k) \in Nat /\ Before(f, k + 1) \in Nat
  BY <1>1, ByTyped DEF Before
<1> QED BY <1>2 DEF Hits

\* One more at x is counted from x on.
LEMMA ByMore ==
  ASSUME MaxKeyClock \in Nat, NEW f \in [0..MaxKeyClock -> Nat], NEW x \in 0..MaxKeyClock, NEW t \in Int
  PROVE  /\ t >= x => By(Limits!OneMore(f, x), t) = By(f, t) + 1
         /\ t < x => By(Limits!OneMore(f, x), t) = By(f, t)
<1> DEFINE g == Limits!OneMore(f, x)
           u == IF t < MaxKeyClock THEN t ELSE MaxKeyClock
<1> HIDE DEF g
<1>1. CASE t < 0
  BY <1>1 DEF By
<1>2. CASE t >= 0
  <2>1. u \in 0..MaxKeyClock /\ (t >= x => u >= x) /\ (t < x => u < x)
    BY <1>2
  <2>2. By(f, t) = f[u] /\ By(g, t) = g[u]
    BY <1>2 DEF By
  <2> HIDE DEF u
  <2>3. (u >= x => g[u] = f[u] + 1) /\ (u < x => g[u] = f[u])
    BY <2>1, OneMoreAt DEF g
  <2> QED BY <2>1, <2>2, <2>3 DEF g
<1> QED BY <1>1, <1>2

LEMMA BeforeMore ==
  ASSUME Limits!KeyTypeOK, NEW f \in [0..MaxKeyClock -> Nat], NEW k \in Int
  PROVE  /\ k > Index(now) => Before(Limits!OneMore(f, now), k) = Before(f, k) + 1
         /\ k <= Index(now) => Before(Limits!OneMore(f, now), k) = Before(f, k)
<1> DEFINE n == Index(now)
<1>1. /\ n \in Int /\ Edge(n) <= now /\ now < Edge(n) + WS /\ Edge(n) \in Int /\ Edge(k) \in Int
      /\ Edge(n + 1) = Edge(n) + WS /\ n + 1 \in Int
  <2>1. n \in Int /\ Edge(n) <= now /\ now < Edge(n) + WS /\ n + 1 \in Int
    BY KeyIs, InWindow
  <2> QED BY <2>1, EdgeIs
<1>2. WS \in Nat /\ now \in 0..MaxKeyClock /\ MaxKeyClock \in Nat /\ now \in Int
  BY KeyIs
<1> HIDE DEF n, WS
<1>3. k > n => Edge(k) - 1 >= now
  <2> SUFFICES ASSUME k > n
               PROVE  Edge(k) - 1 >= now
    OBVIOUS
  <2>1. n + 1 <= k
    BY <1>1
  <2>2. Edge(n + 1) <= Edge(k)
    BY <1>1, <2>1, EdgesRise
  <2> QED BY <1>1, <1>2, <2>2
<1>4. k <= n => Edge(k) - 1 < now
  <2> SUFFICES ASSUME k <= n
               PROVE  Edge(k) - 1 < now
    OBVIOUS
  <2>1. Edge(k) <= Edge(n)
    BY <1>1, EdgesRise
  <2> QED BY <1>1, <1>2, <2>1
<1>5. Edge(k) - 1 \in Int
  BY <1>1
<1>6. /\ Edge(k) - 1 >= now => By(Limits!OneMore(f, now), Edge(k) - 1) = By(f, Edge(k) - 1) + 1
      /\ Edge(k) - 1 < now => By(Limits!OneMore(f, now), Edge(k) - 1) = By(f, Edge(k) - 1)
  BY <1>2, <1>5, ByMore
<1> QED BY <1>3, <1>4, <1>6 DEF Before, n

\* It is a hit of the current window.
LEMMA HitsMore ==
  ASSUME Limits!KeyTypeOK, NEW f \in [0..MaxKeyClock -> Nat], NEW k \in Int
  PROVE  /\ k = Index(now) => Hits(Limits!OneMore(f, now), k) = Hits(f, k) + 1
         /\ k # Index(now) => Hits(Limits!OneMore(f, now), k) = Hits(f, k)
<1> DEFINE n == Index(now)
           g == Limits!OneMore(f, now)
           a == Before(f, k)
           b == Before(f, k + 1)
           c == Before(g, k)
           d == Before(g, k + 1)
<1>1. n \in Int /\ k + 1 \in Int
  BY KeyIs, InWindow
<1>2. a \in Nat /\ b \in Nat
  BY HitsTyped
<1>3. (k > n => c = a + 1) /\ (k <= n => c = a)
  BY BeforeMore
<1>4. (k + 1 > n => d = b + 1) /\ (k + 1 <= n => d = b)
  BY <1>1, BeforeMore
<1>5. Hits(f, k) = b - a /\ Hits(g, k) = d - c
  BY DEF Hits
<1> SUFFICES (k = n => Hits(g, k) = Hits(f, k) + 1) /\ (k # n => Hits(g, k) = Hits(f, k))
  OBVIOUS
<1> HIDE DEF n, g, a, b, c, d
<1>6. k = n => d - c = (b - a) + 1
  BY <1>1, <1>2, <1>3, <1>4
<1>7. k # n => d - c = b - a
  BY <1>1, <1>2, <1>3, <1>4
<1> QED BY ONLY <1>5, <1>6, <1>7

LEMMA OneMoreRises ==
  ASSUME MaxKeyClock \in Nat, NEW f \in [0..MaxKeyClock -> Nat], NEW x \in 0..MaxKeyClock, Rising(f)
  PROVE  Rising(Limits!OneMore(f, x))
<1> DEFINE g == Limits!OneMore(f, x)
<1> SUFFICES ASSUME NEW a \in 0..MaxKeyClock, NEW b \in 0..MaxKeyClock, a <= b
             PROVE  g[a] <= g[b]
  BY DEF Rising
<1>1. f[a] <= f[b] /\ f[a] \in Nat /\ f[b] \in Nat
  BY DEF Rising
<1>2. (a >= x => g[a] = f[a] + 1) /\ (a < x => g[a] = f[a])
  BY OneMoreAt
<1>3. (b >= x => g[b] = f[b] + 1) /\ (b < x => g[b] = f[b])
  BY OneMoreAt
<1> HIDE DEF g
<1> QED BY <1>1, <1>2, <1>3

LEMMA CountedStart ==
  ASSUME AccountsInit
  PROVE  CountedInv
<1>0. Limits!KeyTypeOK
  BY LimitsStart
<1>1. window = None /\ accepted = [s \in 0..MaxKeyClock |-> 0]
  BY DEF AccountsInit, Limits!KeyInit, Limits!Second
<1>2. \A k \in Int : Hits(accepted, k) = 0
  <2> SUFFICES ASSUME NEW k \in Int
               PROVE  Hits(accepted, k) = 0
    OBVIOUS
  <2>1. \A t \in Int : By(accepted, t) = 0
    <3>1. MaxKeyClock \in Nat
      BY <1>0, KeyIs
    <3> QED BY <1>1, <3>1 DEF By
  <2>2. Edge(k) - 1 \in Int /\ Edge(k + 1) - 1 \in Int
    <3>1. k + 1 \in Int
      OBVIOUS
    <3>2. Edge(k) \in Int /\ Edge(k + 1) \in Int
      BY <1>0, <3>1, EdgeIs
    <3> QED BY <3>2
  <2> QED BY <2>1, <2>2 DEF Hits, Before
<1>3. Measured(accepted)
  <2>1. Limits!Limit \in Nat
    BY <1>0, KeyIs
  <2> QED BY <1>2, <2>1 DEF Measured
<1>4. Rising(accepted)
  BY <1>1 DEF Rising
<1>5. Quiet(accepted, now)
  BY <1>2 DEF Quiet
<1>6. Counts(window, accepted, now)
  <2> SUFFICES ASSUME NEW x \in Int
               PROVE  Limits!CurrentWindow(window, x)
                        = Seen(Index(x), Hits(accepted, Index(x)), Hits(accepted, Index(x) - 1))
    BY DEF Counts
  <2>1. Index(x) \in Int /\ Index(x) - 1 \in Int
    BY <1>0, InWindow
  <2>2. Hits(accepted, Index(x)) = 0 /\ Hits(accepted, Index(x) - 1) = 0
    BY <1>2, <2>1
  <2>3. Limits!CurrentWindow(window, x) = [start |-> Limits!StartOf(x), current |-> 0, previous |-> 0]
    BY <1>1 DEF Limits!CurrentWindow
  <2>4. Limits!StartOf(x) = Edge(Index(x))
    BY <1>0, StartIs
  <2> QED BY <2>2, <2>3, <2>4 DEF Seen
<1> QED BY <1>3, <1>4, <1>5, <1>6 DEF CountedInv, Counted

\* What the entry says now.
LEMMA CountedNow ==
  ASSUME Limits!KeyTypeOK, CountedInv
  PROVE  LET n == Index(now)
             c == Hits(accepted, n)
             p == Hits(accepted, n - 1)
         IN /\ n \in Int /\ n - 1 \in Int
            /\ Limits!CurrentWindow(window, now) = Seen(n, c, p)
            /\ c \in Nat /\ p \in Nat /\ c <= Limits!Limit
            /\ Seen(n, c, p) # None
<1> DEFINE n == Index(now)
           c == Hits(accepted, n)
           p == Hits(accepted, n - 1)
<1>1. now \in Int /\ n \in Int /\ n - 1 \in Int
  <2>1. now \in Int
    BY KeyIs
  <2>2. n \in Int
    BY <2>1, InWindow
  <2> QED BY <2>1, <2>2
<1>2. Limits!CurrentWindow(window, now) = Seen(n, c, p)
  BY <1>1 DEF CountedInv, Counted, Counts
<1>3. Limits!CurrentWindow(window, now) \in Limits!Window
  <2>1. window \in Limits!Window \cup {None}
    BY KeyIs
  <2> QED BY <2>1, StartIsPast DEF Limits!CurrentWindow, Limits!Window
<1>4. Seen(n, c, p) # None
  <2>1. None \notin Limits!Window
    BY KeyIs
  <2> QED BY <1>2, <1>3, <2>1
<1>5. c \in Nat /\ p \in Nat
  <2>1. Seen(n, c, p).current \in Nat /\ Seen(n, c, p).previous \in Nat
    BY <1>2, <1>3 DEF Limits!Window
  <2> QED BY <2>1 DEF Seen
<1>6. c <= Limits!Limit
  BY <1>1 DEF CountedInv, Counted, Measured
<1> QED BY <1>1, <1>2, <1>4, <1>5, <1>6

\* The entry written by a hit counts what it and those before it took.
LEMMA WrittenCounts ==
  ASSUME Limits!KeyTypeOK, NEW f \in [0..MaxKeyClock -> Nat], Quiet(f, now),
         Hits(f, Index(now)) \in Nat, Hits(f, Index(now) - 1) \in Nat,
         Seen(Index(now), Hits(f, Index(now)), Hits(f, Index(now) - 1)) # None
  PROVE  Counts(Seen(Index(now), Hits(f, Index(now)), Hits(f, Index(now) - 1)), f, now)
<1> DEFINE n == Index(now)
           c == Hits(f, n)
           p == Hits(f, n - 1)
<1> SUFFICES ASSUME NEW x \in Int, x >= now
             PROVE  Limits!CurrentWindow(Seen(n, c, p), x)
                      = Seen(Index(x), Hits(f, Index(x)), Hits(f, Index(x) - 1))
  BY DEF Counts
<1> DEFINE j == Index(x)
<1>1. n \in Int /\ j \in Int /\ n <= j
  <2>1. now \in Int /\ now <= x
    BY KeyIs
  <2>2. n \in Int /\ j \in Int
    BY <2>1, InWindow
  <2> QED BY <2>1, <2>2, LaterWindow
<1>2. /\ j = n => Limits!CurrentWindow(Seen(n, c, p), x) = Seen(n, c, p)
      /\ j = n + 1 => Limits!CurrentWindow(Seen(n, c, p), x) = Seen(n + 1, 0, c)
      /\ j > n + 1 => Limits!CurrentWindow(Seen(n, c, p), x) = Seen(j, 0, 0)
  BY <1>1, Rolls
<1>3. \A k \in Int : k > n => Hits(f, k) = 0
  BY DEF Quiet
<1> HIDE DEF n, j
<1>4. CASE j = n
  BY <1>2, <1>4 DEF j
<1>5. CASE j = n + 1
  <2>1. Hits(f, j) = 0 /\ j - 1 = n
    BY <1>1, <1>3, <1>5
  <2> QED BY <1>2, <1>5, <2>1 DEF j
<1>6. CASE j > n + 1
  <2>1. j - 1 \in Int /\ j > n /\ j - 1 > n
    BY <1>1, <1>6
  <2>2. Hits(f, j) = 0 /\ Hits(f, j - 1) = 0
    BY <1>1, <1>3, <2>1
  <2> QED BY <1>2, <1>6, <2>2 DEF j
<1> QED BY <1>1, <1>4, <1>5, <1>6

\* What a hit let in leaves within the limit.
LEMMA RoomMeans ==
  ASSUME Limits!KeyTypeOK, NEW c \in Nat, NEW p \in Nat, NEW e \in Nat, e < WS, Room(c, p, e)
  PROVE  c + 1 <= Limits!Limit /\ (p = 0 \/ c + 1 < Limits!Limit)
<1> DEFINE l == Limits!Limit
           m == p * (WS - e)
<1>1. WS \in Nat \ {0} /\ l \in Nat \ {0} /\ c + 1 \in Int /\ e < WS
  BY KeyIs
<1>2. m + (c + 1) * WS <= l * WS
  BY DEF Room
<1> HIDE DEF l, WS
<1>3. WS - e \in Nat \ {0}
  BY <1>1
<1>4. m \in Nat /\ (p # 0 => m # 0)
  <2>1. m \in Nat
    BY <1>3, Product
  <2>2. p # 0 => m # 0
    <3> SUFFICES ASSUME p # 0
                 PROVE  m # 0
      OBVIOUS
    <3>1. WS - e <= m
      <4>1. (WS - e) * 1 <= (WS - e) * p /\ (WS - e) * 1 = WS - e
        BY <1>3, Monotone
      <4> QED BY <1>3, <4>1, Turned
    <3> QED BY <1>3, <2>1, <3>1
  <2> QED BY <2>1, <2>2
<1> HIDE DEF m
<1>5. (c + 1) * WS = WS * (c + 1) /\ l * WS = WS * l /\ (c + 1) * WS \in Int /\ l * WS \in Int
  BY <1>1, Turned
<1>6. c + 1 <= l
  <2>1. ASSUME l < c + 1 PROVE FALSE
    <3>1. l + 1 \in Int /\ l + 1 <= c + 1
      BY <1>1, <2>1
    <3>2. WS * (l + 1) <= WS * (c + 1) /\ WS * (l + 1) = WS * l + WS
      BY <1>1, <3>1, Monotone, Times
    <3> QED BY <1>1, <1>2, <1>4, <1>5, <3>2
  <2> QED BY <1>1, <2>1
<1>7. p # 0 => c + 1 < l
  <2> SUFFICES ASSUME p # 0
               PROVE  c + 1 < l
    OBVIOUS
  <2>1. m + WS * (c + 1) <= WS * l /\ m # 0
    BY <1>2, <1>4, <1>5
  <2>2. WS * (c + 1) < WS * l
    BY <1>4, <1>5, <2>1
  <2> QED BY <1>1, <2>2, Larger
<1> QED BY <1>6, <1>7 DEF l

\* A hit let in keeps within the limit.
LEMMA AdmittedKeeps ==
  ASSUME Limits!KeyTypeOK, CountedInv, Limits!Admits(Limits!CurrentWindow(window, now), now)
  PROVE  Counted([Limits!CurrentWindow(window, now) EXCEPT !.current = @ + 1],
                 Limits!OneMore(accepted, now), now)
<1> DEFINE f == accepted
           g == Limits!OneMore(f, now)
           n == Index(now)
           c == Hits(f, n)
           p == Hits(f, n - 1)
           v == [Limits!CurrentWindow(window, now) EXCEPT !.current = @ + 1]
<1>0. /\ f \in [0..MaxKeyClock -> Nat] /\ now \in 0..MaxKeyClock /\ MaxKeyClock \in Nat
      /\ g \in [0..MaxKeyClock -> Nat] /\ now \in Int /\ Limits!Limit \in Int
  <2>1. /\ f \in [0..MaxKeyClock -> Nat] /\ now \in 0..MaxKeyClock /\ MaxKeyClock \in Nat
        /\ now \in Int /\ Limits!Limit \in Int
    BY KeyIs
  <2>2. g \in [0..MaxKeyClock -> Nat]
    BY <2>1, OneMoreTyped
  <2> QED BY <2>1, <2>2
<1>1. /\ n \in Int /\ n - 1 \in Int /\ c \in Nat /\ p \in Nat
      /\ Limits!CurrentWindow(window, now) = Seen(n, c, p)
  BY CountedNow
<1>2. v = Seen(n, c + 1, p)
  BY <1>1 DEF Seen
<1>3. c + 1 <= Limits!Limit /\ (p = 0 \/ c + 1 < Limits!Limit)
  <2>1. Room(c, p, now - Edge(n))
    BY <1>0, <1>1, AdmitsIs
  <2>2. now - Edge(n) \in Nat /\ now - Edge(n) < WS
    <3>1. Edge(n) <= now /\ now < Edge(n) + WS /\ Edge(n) \in Int /\ WS \in Int
      BY <1>0, <1>1, InWindow, EdgeIs, KeyIs
    <3> QED BY <1>0, <3>1
  <2> QED BY <1>1, <2>1, <2>2, RoomMeans
<1>4. \A k \in Int : /\ k = n => Hits(g, k) = Hits(f, k) + 1
                     /\ k # n => Hits(g, k) = Hits(f, k)
  BY <1>0, HitsMore
<1>5. Measured(f) /\ Rising(f) /\ Quiet(f, now)
  BY DEF CountedInv, Counted
<1>6. Hits(g, n) = c + 1 /\ Hits(g, n - 1) = p /\ n - 1 # n
  BY <1>1, <1>4
<1>7. Quiet(g, now)
  BY <1>1, <1>4, <1>5 DEF Quiet
<1>8. Rising(g)
  BY <1>0, <1>5, OneMoreRises
<1>9. Measured(g)
  <2> SUFFICES ASSUME NEW k \in Int
               PROVE  /\ Hits(g, k) <= Limits!Limit
                      /\ Hits(g, k) = 0 \/ Hits(g, k - 1) = 0 \/ Hits(g, k) < Limits!Limit
    BY DEF Measured
  <2>1. CASE k = n
    BY <1>3, <1>6, <2>1
  <2>2. CASE k = n + 1
    <3>1. Hits(g, k) = 0
      <4>1. k > n
        BY <1>1, <2>2
      <4> QED BY <1>7, <4>1 DEF Quiet
    <3>2. 0 <= Limits!Limit
      BY KeyIs
    <3> QED BY <3>1, <3>2
  <2>3. CASE k # n /\ k # n + 1
    <3>1. k - 1 \in Int /\ k - 1 # n
      BY <1>1, <2>3
    <3>2. Hits(g, k) = Hits(f, k) /\ Hits(g, k - 1) = Hits(f, k - 1)
      BY <1>4, <2>3, <3>1
    <3> QED BY <1>5, <3>2 DEF Measured
  <2> QED BY <2>1, <2>2, <2>3
<1>10. Counts(v, g, now)
  <2>1. v = Seen(n, Hits(g, n), Hits(g, n - 1)) /\ Hits(g, n) \in Nat /\ Hits(g, n - 1) \in Nat
    BY <1>1, <1>2, <1>6
  <2>2. v # None
    <3>1. v \in Limits!Window
      <4>1. Limits!CurrentWindow(window, now) \in Limits!Window
        <5>1. window \in Limits!Window \cup {None}
          BY KeyIs
        <5> QED BY <5>1, StartIsPast DEF Limits!CurrentWindow, Limits!Window
      <4> QED BY <4>1 DEF Limits!Window
    <3>2. None \notin Limits!Window
      BY KeyIs
    <3> QED BY <3>1, <3>2
  <2> HIDE DEF v, g
  <2> QED BY <1>0, <1>7, <2>1, <2>2, WrittenCounts
<1> QED BY <1>7, <1>8, <1>9, <1>10 DEF Counted

\* An entry pruned counts nothing any more.
LEMMA PrunedKeeps ==
  ASSUME Limits!KeyTypeOK, CountedInv, Limits!IsStale(window, now)
  PROVE  Counted(None, accepted, now)
<1>1. Measured(accepted) /\ Rising(accepted) /\ Quiet(accepted, now) /\ Counts(window, accepted, now)
  BY DEF CountedInv, Counted
<1>2. Counts(None, accepted, now)
  <2> SUFFICES ASSUME NEW x \in Int, x >= now
               PROVE  Limits!CurrentWindow(None, x) = Limits!CurrentWindow(window, x)
    BY <1>1 DEF Counts
  <2> DEFINE s == window.start
             u == Limits!StartOf(x)
  <2>1. window # None /\ now >= s + 2 * WS
    BY DEF Limits!IsStale, Limits!WindowSeconds, WS
  <2>2. WS \in Nat \ {0} /\ s \in Int /\ now \in Int
    <3>1. window \in Limits!Window
      BY <2>1, KeyIs
    <3>2. window.start \in 0..MaxKeyClock
      BY <3>1 DEF Limits!Window
    <3> QED BY <3>2, KeyIs
  <2>3. u \in Int /\ x < u + WS
    <3>1. u = Edge(Index(x))
      BY StartIs
    <3> QED BY <3>1, InWindow, EdgeIs
  <2>4. s # u /\ u - s # WS
    <3> HIDE DEF WS, s, u
    <3> QED BY <2>1, <2>2, <2>3
  <2>5. Limits!WindowSeconds = WS
    BY DEF Limits!WindowSeconds, WS
  <2> QED BY <2>1, <2>4, <2>5 DEF Limits!CurrentWindow
<1> QED BY <1>1, <1>2 DEF Counted

LEMMA CountedStep ==
  ASSUME Limits!KeyTypeOK, CountedInv, [Limits!KeyNext]_(Limits!key_vars)
  PROVE  CountedInv'
<1>1. rule' = rule
  BY DEF Limits!KeyNext, Limits!key_vars, Limits!hit, Limits!prune, Limits!KeyTick
<1>2. SUFFICES Counted(window', accepted', now')
  BY <1>1, CountedBecomes
<1>3. CASE UNCHANGED Limits!key_vars
  BY <1>3 DEF Limits!key_vars, CountedInv
<1>4. CASE Limits!hit
  <2> DEFINE w == Limits!CurrentWindow(window, now)
  <2>1. CASE Limits!Admits(w, now)
    <3>1. /\ window' = [w EXCEPT !.current = @ + 1] /\ accepted' = Limits!OneMore(accepted, now)
          /\ now' = now
      BY <1>4, <2>1 DEF Limits!hit
    <3> QED BY <2>1, <3>1, AdmittedKeeps
  <2>2. CASE ~Limits!Admits(w, now)
    <3>1. window' = w /\ accepted' = accepted /\ now' = now
      BY <1>4, <2>2 DEF Limits!hit
    <3>2. Measured(accepted) /\ Rising(accepted) /\ Quiet(accepted, now)
      BY DEF CountedInv, Counted
    <3>3. Counts(w, accepted, now)
      <4>1. accepted \in [0..MaxKeyClock -> Nat]
        BY KeyIs
      <4> QED BY <3>2, <4>1, CountedNow, WrittenCounts
    <3> QED BY <3>1, <3>2, <3>3 DEF Counted
  <2> QED BY <2>1, <2>2
<1>5. CASE Limits!prune
  <2>1. Limits!IsStale(window, now) /\ window' = None /\ accepted' = accepted /\ now' = now
    BY <1>5 DEF Limits!prune
  <2> QED BY <2>1, PrunedKeeps
<1>6. CASE Limits!KeyTick
  <2>1. now' = now + 1 /\ window' = window /\ accepted' = accepted
    BY <1>6 DEF Limits!KeyTick
  <2>2. now \in Int /\ now + 1 \in Int /\ now <= now + 1
    <3>1. now \in Int
      BY KeyIs
    <3> QED BY <3>1
  <2>3. Measured(accepted) /\ Rising(accepted) /\ Quiet(accepted, now) /\ Counts(window, accepted, now)
    BY DEF CountedInv, Counted
  <2>4. Quiet(accepted, now + 1)
    <3>1. Index(now) \in Int /\ Index(now + 1) \in Int /\ Index(now) <= Index(now + 1)
      BY <2>2, InWindow, LaterWindow
    <3>2. \A k \in Int : k > Index(now + 1) => k > Index(now)
      BY <3>1
    <3> QED BY <2>3, <3>2 DEF Quiet
  <2>5. Counts(window, accepted, now + 1)
    <3>1. \A x \in Int : x >= now + 1 => x >= now
      BY <2>2
    <3> QED BY <2>3, <3>1 DEF Counts
  <2> QED BY <2>1, <2>3, <2>4, <2>5 DEF Counted
<1> QED BY <1>3, <1>4, <1>5, <1>6 DEF Limits!KeyNext

LEMMA ByRises ==
  ASSUME MaxKeyClock \in Nat, NEW f \in [0..MaxKeyClock -> Nat], Rising(f),
         NEW t \in Int, NEW u \in Int, t <= u
  PROVE  By(f, t) <= By(f, u)
<1> DEFINE a == IF t < MaxKeyClock THEN t ELSE MaxKeyClock
           b == IF u < MaxKeyClock THEN u ELSE MaxKeyClock
<1>1. CASE t < 0
  <2>1. By(f, t) = 0
    BY <1>1 DEF By
  <2>2. By(f, u) \in Nat
    BY ByTyped
  <2> QED BY <2>1, <2>2
<1>2. CASE ~(t < 0)
  <2>1. a \in 0..MaxKeyClock /\ b \in 0..MaxKeyClock /\ a <= b /\ ~(u < 0)
    BY <1>2
  <2>2. By(f, t) = f[a] /\ By(f, u) = f[b]
    BY <1>2, <2>1 DEF By
  <2> HIDE DEF a, b
  <2> QED BY <2>1, <2>2 DEF Rising
<1> QED BY <1>1, <1>2

\* What a count up to an instant is.
LEMMA UptoIs ==
  ASSUME MaxKeyClock \in Nat, NEW f, NEW t \in Int, t <= MaxKeyClock
  PROVE  Limits!Upto(f, t) = By(f, t)
<1>1. (IF t < MaxKeyClock THEN t ELSE MaxKeyClock) = t
  OBVIOUS
<1> QED BY <1>1 DEF Limits!Upto, By

\* What is counted is within the limits.
LEMMA CountedHolds ==
  ASSUME Limits!KeyTypeOK, CountedInv
  PROVE  Limits!RetryIsExact /\ Limits!WithinLimits
<1>1. Limits!RetryIsExact
  <2> DEFINE c == Hits(accepted, Index(now))
             p == Hits(accepted, Index(now) - 1)
             w == Seen(Index(now), c, p)
  <2>1. /\ Limits!CurrentWindow(window, now) = w /\ c \in Nat /\ p \in Nat /\ c <= Limits!Limit
        /\ w # None
    BY CountedNow
  <2> HIDE DEF c, p
  <2>2. ASSUME ~Limits!Admits(w, now)
        PROVE  /\ Limits!Admits(Limits!CurrentWindow(w, now + Limits!retry_after(w, now)),
                                now + Limits!retry_after(w, now))
               /\ Limits!retry_after(w, now) > 1
                    => ~Limits!Admits(Limits!CurrentWindow(w, now + Limits!retry_after(w, now) - 1),
                                      now + Limits!retry_after(w, now) - 1)
    BY <2>1, <2>2, RetryHolds
  <2> HIDE DEF w
  <2> QED BY <2>1, <2>2 DEF Limits!RetryIsExact
<1>2. accepted \in [0..MaxKeyClock -> Nat] /\ MaxKeyClock \in Nat /\ WS \in Nat \ {0} /\ Limits!Limit \in Nat \ {0}
  BY KeyIs
<1>3. Measured(accepted) /\ Rising(accepted)
  BY DEF CountedInv, Counted
<1>4. \A s \in 0..MaxKeyClock : s + WS - 1 \in 0..MaxKeyClock =>
        Limits!Total(accepted, s, s + WS - 1) = By(accepted, s + WS - 1) - By(accepted, s - 1)
  <2> SUFFICES ASSUME NEW s \in 0..MaxKeyClock, s + WS - 1 \in 0..MaxKeyClock
               PROVE  Limits!Total(accepted, s, s + WS - 1) = By(accepted, s + WS - 1) - By(accepted, s - 1)
    OBVIOUS
  <2> DEFINE t == s + WS - 1
             u == s - 1
  <2>1. t \in Int /\ t <= MaxKeyClock /\ u \in Int /\ u <= MaxKeyClock
    BY <1>2
  <2>2. Limits!Total(accepted, s, t) = Limits!Upto(accepted, t) - Limits!Upto(accepted, u)
    BY DEF Limits!Total
  <2> HIDE DEF t, u
  <2>3. Limits!Upto(accepted, t) = By(accepted, t) /\ Limits!Upto(accepted, u) = By(accepted, u)
    BY <1>2, <2>1, UptoIs
  <2> QED BY <2>2, <2>3 DEF t, u
<1>5. ASSUME NEW s \in 0..MaxKeyClock, s % WS = 0, s + WS - 1 \in 0..MaxKeyClock
      PROVE  Limits!Total(accepted, s, s + WS - 1) <= Limits!Limit
  <2> DEFINE k == Index(s)
  <2>1. k \in Int /\ k + 1 \in Int /\ s \in Int
    <3>1. s \in Int
      BY <1>2
    <3>2. k \in Int
      BY <3>1, InWindow
    <3> HIDE DEF k
    <3> QED BY <3>1, <3>2
  <2>2. s = Edge(k)
    <3>1. s - (s % WS) = WS * (s \div WS)
      BY <1>2, <2>1, Division
    <3>2. s - (s % WS) = s
      BY <1>5, <2>1
    <3> QED BY ONLY <3>1, <3>2 DEF Edge, Index
  <2>3. s + WS - 1 = Edge(k + 1) - 1
    <3>1. Edge(k + 1) = Edge(k) + WS
      BY <2>1, EdgeIs
    <3> DEFINE x == Edge(k + 1)
               y == Edge(k)
    <3> HIDE DEF k, x, y, WS
    <3>2. x = s + WS
      BY ONLY <2>2, <3>1 DEF x, y
    <3>3. x \in Int /\ s \in Int /\ WS \in Int
      BY <1>2, <2>1, <3>2
    <3> QED BY ONLY <3>2, <3>3 DEF x
  <2>4. Limits!Total(accepted, s, s + WS - 1) = Hits(accepted, k)
    <3>1. Limits!Total(accepted, s, s + WS - 1) = By(accepted, s + WS - 1) - By(accepted, s - 1)
      BY <1>4, <1>5
    <3>2. By(accepted, s + WS - 1) = Before(accepted, k + 1)
      BY ONLY <2>3 DEF Before
    <3>3. By(accepted, s - 1) = Before(accepted, k)
      BY ONLY <2>2 DEF Before
    <3> QED BY ONLY <3>1, <3>2, <3>3 DEF Hits
  <2>5. Hits(accepted, k) <= Limits!Limit
    BY <1>3, <2>1 DEF Measured
  <2> QED BY <2>4, <2>5
<1>6. ASSUME NEW s \in 0..MaxKeyClock, s + WS - 1 \in 0..MaxKeyClock
      PROVE  Limits!Total(accepted, s, s + WS - 1) < 2 * Limits!Limit
  <2> DEFINE t == s + WS - 1
             k == Index(t)
             a == Hits(accepted, k)
             b == Hits(accepted, k - 1)
  <2>1. k \in Int /\ k - 1 \in Int /\ k + 1 \in Int /\ s \in Int /\ t \in Int /\ (k - 1) + 1 = k
    <3>1. t \in Int
      BY <1>2
    <3>2. k \in Int
      BY <3>1, InWindow
    <3> QED BY <3>1, <3>2
  <2>2. /\ Edge(k) <= t /\ t < Edge(k) + WS /\ Edge(k) \in Int /\ Edge(k - 1) \in Int
        /\ Edge(k + 1) = Edge(k) + WS /\ Edge(k) = Edge(k - 1) + WS
    <3>1. Edge(k - 1) \in Int /\ Edge((k - 1) + 1) = Edge(k - 1) + WS
      BY <2>1, EdgeIs
    <3>2. Edge(k) <= t /\ t < Edge(k) + WS
      BY <2>1, InWindow
    <3> QED BY <2>1, <3>1, <3>2, EdgeIs
  <2>3. By(accepted, t) <= Before(accepted, k + 1)
    <3> DEFINE x == Edge(k + 1) - 1
               y == Edge(k)
    <3>0. WS \in Int /\ y \in Int /\ t < y + WS /\ x = y + WS - 1
      BY <1>2, <2>2
    <3> HIDE DEF t, x, y
    <3>1. x \in Int /\ t <= x
      BY <2>1, <3>0
    <3>2. By(accepted, t) <= By(accepted, x)
      BY <1>2, <1>3, <2>1, <3>1, ByRises DEF x
    <3> QED BY <3>2 DEF Before, x
  <2>4. Before(accepted, k - 1) <= By(accepted, s - 1)
    <3> DEFINE x == Edge(k - 1) - 1
               y == s - 1
               z == Edge(k - 1)
               e == Edge(k)
    <3>1. WS \in Int /\ e <= s + WS - 1 /\ e = z + WS /\ z \in Int /\ e \in Int /\ s \in Int
      BY <1>2, <2>1, <2>2
    <3> HIDE DEF z, e, WS
    <3>2. x \in Int /\ y \in Int /\ x <= y
      BY ONLY <3>1 DEF x, y, z
    <3> HIDE DEF x, y
    <3>3. By(accepted, x) <= By(accepted, y)
      BY <1>2, <1>3, <3>2, ByRises
    <3> QED BY <3>3 DEF Before, x, y
  <2>5. /\ Before(accepted, k) = Before(accepted, k - 1) + b
        /\ Before(accepted, k + 1) = Before(accepted, k) + a
        /\ a \in Int /\ b \in Int /\ Before(accepted, k - 1) \in Int /\ Before(accepted, k) \in Int
    <3>1. /\ Before(accepted, k - 1) \in Nat /\ b \in Int
          /\ Before(accepted, (k - 1) + 1) = Before(accepted, k - 1) + b
      BY <1>2, <2>1, HitsTyped
    <3>2. /\ Before(accepted, k) \in Nat /\ a \in Int
          /\ Before(accepted, k + 1) = Before(accepted, k) + a
      BY <1>2, <2>1, HitsTyped
    <3> QED BY <2>1, <3>1, <3>2
  <2>6. /\ a <= Limits!Limit /\ b <= Limits!Limit
        /\ a = 0 \/ b = 0 \/ a < Limits!Limit
    BY <1>3, <2>1 DEF Measured
  <2>7. Limits!Total(accepted, s, t) = By(accepted, t) - By(accepted, s - 1)
    BY <1>4, <1>6
  <2>8. By(accepted, t) \in Int /\ By(accepted, s - 1) \in Int
    <3>1. s - 1 \in Int
      BY <2>1
    <3> HIDE DEF t
    <3> QED BY <1>2, <2>1, <3>1, ByTyped
  <2> HIDE DEF t, k, a, b
  <2>9. a + b < 2 * Limits!Limit
    BY <1>2, <2>5, <2>6
  <2>10. By(accepted, t) - By(accepted, s - 1) <= a + b
    BY <2>3, <2>4, <2>5, <2>8
  <2>11. Limits!Total(accepted, s, t) < 2 * Limits!Limit
    <3> DEFINE x == By(accepted, t) - By(accepted, s - 1)
               y == a + b
    <3>1. x \in Int /\ y \in Int /\ 2 * Limits!Limit \in Int
      BY <1>2, <2>5, <2>8
    <3> HIDE DEF x, y
    <3>2. x < 2 * Limits!Limit
      BY <2>9, <2>10, <3>1 DEF x, y
    <3> QED BY <2>7, <3>2 DEF x
  <2> QED BY <2>11 DEF t
<1>7. Limits!WithinLimits
  BY <1>5, <1>6 DEF Limits!WithinLimits, Limits!Second, Limits!WindowSeconds, WS
<1> QED BY <1>1, <1>7

-----------------------------------------------------------------------------
(* The reading, told apart by what the time that passed brings.             *)

\* g points came back by t and the bar is not full; or it is.
Grew(s, u, t, g) == /\ g \in Nat /\ s + g < MAX_ENERGY
                    /\ g = 0 \/ u + REGEN_INTERVAL * g <= t
                    /\ t < u + REGEN_INTERVAL * g + REGEN_INTERVAL

Filled(s, u, t) == s = MAX_ENERGY \/ t >= u + REGEN_INTERVAL * (MAX_ENERGY - s)

LEMMA ConstantsTyped ==
  /\ MAX_ENERGY \in Nat \ {0} /\ REGEN_INTERVAL \in Nat \ {0}
  /\ MATCH_COST \in Nat /\ REVIEW_REFILL \in Nat /\ MaxSkew \in Nat /\ MaxTime \in Nat
  BY AccountsAssumption DEF Energy!EnergyAssumption

LEMMA EitherWay ==
  ASSUME NEW s \in 0..MAX_ENERGY, NEW u \in Int, NEW t \in Int
  PROVE  Filled(s, u, t) \/ \E g \in Nat : Grew(s, u, t, g)
<1> DEFINE I == REGEN_INTERVAL
           g == (t - u) \div I
<1>1. I \in Nat \ {0} /\ MAX_ENERGY \in Nat
  BY ConstantsTyped
<1>2. g \in Int /\ I * g <= t - u /\ t - u < I * g + I /\ I * g \in Int
  BY <1>1, Quotient, Times
<1> HIDE DEF I, g
<1>3. CASE s = MAX_ENERGY
  BY <1>3 DEF Filled
<1>4. CASE s # MAX_ENERGY /\ g <= 0
  <2>1. I * 0 = 0 /\ I * g <= I * 0
    BY <1>1, <1>2, <1>4, Monotone
  <2>2. t < u + I * 0 + I
    <3>1. CASE g = 0
      BY <1>1, <1>2, <2>1, <3>1
    <3>2. CASE g < 0
      BY <1>1, <1>2, <2>1, <3>2
    <3> QED BY <1>2, <1>4, <3>1, <3>2
  <2>3. Grew(s, u, t, 0)
    BY <1>1, <1>4, <2>2 DEF Grew, I
  <2> QED BY <2>3
<1>5. CASE g > 0 /\ s + g < MAX_ENERGY
  <2>1. Grew(s, u, t, g)
    BY <1>1, <1>2, <1>5 DEF Grew, I
  <2> QED BY <1>2, <1>5, <2>1
<1>6. CASE g > 0 /\ s + g >= MAX_ENERGY
  <2>1. I * (MAX_ENERGY - s) <= I * g /\ I * (MAX_ENERGY - s) \in Int
    BY <1>1, <1>2, <1>6, Monotone
  <2> QED BY <1>2, <2>1 DEF Filled, I
<1> QED BY <1>1, <1>2, <1>3, <1>4, <1>5, <1>6

LEMMA WhenFilled ==
  ASSUME NEW s \in 0..MAX_ENERGY, NEW u \in Int, NEW t \in Int, Filled(s, u, t)
  PROVE  Energy!regenerate(s, u, t) = [energy |-> MAX_ENERGY, stamp |-> t]
<1> DEFINE I == REGEN_INTERVAL
           g == (t - u) \div I
<1>1. I \in Nat \ {0} /\ MAX_ENERGY \in Nat
  BY ConstantsTyped
<1>2. g \in Int /\ I * g <= t - u /\ t - u < I * g + I /\ I * g \in Int
  BY <1>1, Quotient, Times
<1> HIDE DEF I, g
<1>3. CASE s = MAX_ENERGY
  BY <1>1, <1>3 DEF Energy!regenerate
<1>4. CASE s # MAX_ENERGY
  <2> DEFINE n == MAX_ENERGY - s
  <2>1. n \in Nat \ {0} /\ I * n \in Int /\ I * 1 <= I * n /\ I * 1 = I
    BY <1>1, <1>4, Monotone
  <2>2. t - u >= I * n
    BY <1>1, <1>4, <2>1 DEF Filled, I
  <2> HIDE DEF n
  <2>3. g >= n
    <3>1. ASSUME g + 1 <= n PROVE FALSE
      <4>1. I * (g + 1) <= I * n /\ I * (g + 1) = I * g + I
        BY <1>1, <1>2, <2>1, <3>1, Monotone, Times
      <4> QED BY <1>1, <1>2, <2>1, <2>2, <4>1
    <3> QED BY <1>2, <2>1, <3>1
  <2>4. t - u >= I
    BY <1>1, <2>1, <2>2
  <2> QED BY <1>1, <1>2, <1>4, <2>3, <2>4 DEF Energy!regenerate, Energy!Lower, I, g, n
<1> QED BY <1>3, <1>4

LEMMA WhenGrew ==
  ASSUME NEW s \in 0..MAX_ENERGY, NEW u \in Int, NEW t \in Int, NEW g, Grew(s, u, t, g)
  PROVE  Energy!regenerate(s, u, t) = [energy |-> s + g, stamp |-> u + REGEN_INTERVAL * g]
<1> DEFINE I == REGEN_INTERVAL
           q == (t - u) \div I
<1>1. /\ I \in Nat \ {0} /\ MAX_ENERGY \in Nat /\ g \in Nat /\ I * g \in Int
      /\ s + g < MAX_ENERGY
  BY ConstantsTyped, Times DEF Grew
<1>2. t < u + I * g + I /\ (g = 0 \/ u + I * g <= t)
  BY DEF Grew, I
<1> HIDE DEF I
<1>3. CASE g = 0
  <2>1. I * g = 0 /\ t - u < I
    BY <1>1, <1>2, <1>3
  <2> QED BY <1>1, <1>3, <2>1 DEF Energy!regenerate, I
<1>4. CASE g # 0
  <2>1. I * 1 <= I * g /\ I * 1 = I
    BY <1>1, <1>4, Monotone
  <2>2. q = g
    BY <1>1, <1>2, <1>4, OneQuotient
  <2>3. t - u >= I
    BY <1>1, <1>2, <1>4, <2>1
  <2> HIDE DEF q
  <2> QED BY <1>1, <2>2, <2>3 DEF Energy!regenerate, Energy!Lower, I, q
<1> QED BY <1>3, <1>4

\* What every reading is like.
LEMMA ReadingIs ==
  ASSUME NEW s \in 0..MAX_ENERGY, NEW u \in Int, NEW t \in Int
  PROVE  LET held == Energy!regenerate(s, u, t)
         IN /\ held.energy \in 0..MAX_ENERGY /\ held.stamp \in Int
            /\ held.energy = MAX_ENERGY => held.stamp = t
            /\ held.energy < MAX_ENERGY => t < held.stamp + REGEN_INTERVAL
<1> DEFINE I   == REGEN_INTERVAL
           held == Energy!regenerate(s, u, t)
<1>1. I \in Nat \ {0} /\ MAX_ENERGY \in Nat
  BY ConstantsTyped
<1>2. CASE Filled(s, u, t)
  <2>1. held = [energy |-> MAX_ENERGY, stamp |-> t]
    BY <1>2, WhenFilled
  <2> HIDE DEF held
  <2>2. held.energy = MAX_ENERGY /\ held.stamp = t
    BY <2>1
  <2> QED BY <1>1, <2>2 DEF held
<1>3. CASE \E g \in Nat : Grew(s, u, t, g)
  <2>1. PICK g \in Nat : Grew(s, u, t, g)
    BY <1>3
  <2>2. held = [energy |-> s + g, stamp |-> u + I * g]
    BY <2>1, WhenGrew
  <2>3. I * g \in Int /\ s + g < MAX_ENERGY /\ t < u + I * g + I
    BY <1>1, <2>1, Times DEF Grew
  <2> HIDE DEF held, I
  <2>4. held.energy = s + g /\ held.stamp = u + I * g
    BY <2>2
  <2> QED BY <1>1, <2>3, <2>4 DEF held, I
<1> QED BY <1>2, <1>3, EitherWay

\* A second later the held stands, or is one interval and one point further.
LEMMA OneLater ==
  ASSUME NEW s \in 0..MAX_ENERGY, NEW u \in Int, NEW t \in Int
  PROVE  LET held   == Energy!regenerate(s, u, t)
             later == Energy!regenerate(s, u, t + 1)
         IN \/ /\ held.energy = MAX_ENERGY
               /\ later = [energy |-> MAX_ENERGY, stamp |-> t + 1]
            \/ /\ held.energy < MAX_ENERGY /\ t + 1 < held.stamp + REGEN_INTERVAL
               /\ later = [energy |-> held.energy, stamp |-> held.stamp]
            \/ /\ held.energy < MAX_ENERGY /\ t + 1 = held.stamp + REGEN_INTERVAL
               /\ later = [energy |-> held.energy + 1, stamp |-> t + 1]
<1> DEFINE I     == REGEN_INTERVAL
           held   == Energy!regenerate(s, u, t)
           later == Energy!regenerate(s, u, t + 1)
<1>1. I \in Nat \ {0} /\ MAX_ENERGY \in Nat /\ t + 1 \in Int
  BY ConstantsTyped
<1>2. ASSUME Filled(s, u, t)
      PROVE  held.energy = MAX_ENERGY /\ later = [energy |-> MAX_ENERGY, stamp |-> t + 1]
  <2>1. Filled(s, u, t + 1)
    <3>1. I * (MAX_ENERGY - s) \in Int
      BY <1>1, Times
    <3> QED BY <1>2, <3>1 DEF Filled, I
  <2>2. held = [energy |-> MAX_ENERGY, stamp |-> t] /\ later = [energy |-> MAX_ENERGY, stamp |-> t + 1]
    BY <1>1, <1>2, <2>1, WhenFilled
  <2> QED BY <2>2
<1>3. ASSUME NEW g \in Nat, Grew(s, u, t, g)
      PROVE  \/ /\ held.energy < MAX_ENERGY /\ t + 1 < held.stamp + I
                /\ later = [energy |-> held.energy, stamp |-> held.stamp]
             \/ /\ held.energy < MAX_ENERGY /\ t + 1 = held.stamp + I
                /\ later = [energy |-> held.energy + 1, stamp |-> t + 1]
  <2>1. held = [energy |-> s + g, stamp |-> u + I * g]
    BY <1>3, WhenGrew
  <2>2. I * g \in Int /\ I * (g + 1) = I * g + I /\ s + g < MAX_ENERGY /\ t < u + I * g + I
        /\ (g = 0 \/ u + I * g <= t)
    BY <1>1, <1>3, Times DEF Grew
  <2> HIDE DEF held, I
  <2>3. held.energy = s + g /\ held.stamp = u + I * g
    BY <2>1
  <2>4. CASE t + 1 < u + I * g + I
    <3>1. Grew(s, u, t + 1, g)
      BY <1>1, <2>2, <2>4 DEF Grew, I
    <3>2. later = [energy |-> s + g, stamp |-> u + I * g]
      BY <3>1, WhenGrew DEF I
    <3> QED BY <2>2, <2>3, <2>4, <3>2
  <2>5. CASE t + 1 = u + I * g + I
    <3>1. CASE s + g + 1 < MAX_ENERGY
      <4>1. Grew(s, u, t + 1, g + 1)
        BY <1>1, <2>2, <2>5, <3>1 DEF Grew, I
      <4>2. later = [energy |-> s + (g + 1), stamp |-> u + I * (g + 1)]
        BY <4>1, WhenGrew DEF I
      <4>3. s + (g + 1) = held.energy + 1 /\ u + I * (g + 1) = t + 1
        BY <1>1, <2>2, <2>3, <2>5
      <4> QED BY <2>2, <2>3, <2>5, <4>2, <4>3
    <3>2. CASE s + g + 1 >= MAX_ENERGY
      <4>1. MAX_ENERGY - s = g + 1
        BY <1>1, <2>2, <3>2
      <4>2. I * (MAX_ENERGY - s) = I * g + I
        BY <2>2, <4>1
      <4>3. Filled(s, u, t + 1)
        BY <1>1, <2>2, <2>5, <4>2 DEF Filled, I
      <4>4. later = [energy |-> MAX_ENERGY, stamp |-> t + 1]
        BY <1>1, <4>3, WhenFilled
      <4>5. held.energy + 1 = MAX_ENERGY
        BY <1>1, <2>2, <2>3, <4>1
      <4> QED BY <2>2, <2>3, <2>5, <4>4, <4>5
    <3> QED BY <1>1, <3>1, <3>2
  <2> QED BY <1>1, <2>2, <2>4, <2>5
<1> QED BY <1>2, <1>3, EitherWay

-----------------------------------------------------------------------------
(* The refinement.                                                          *)

Waited == IF Energy!Read.energy = MAX_ENERGY THEN 0 ELSE energy_now - Energy!Read.stamp

LEMMA EagerStart ==
  ASSUME Energy!Init
  PROVE  Energy!TypeOK /\ Energy!Eager!Init
<1>0. energy_now = 0 /\ energy_now \in Int
  BY DEF Energy!Init
<1>1. stored \in 0..MAX_ENERGY /\ updated_at \in Int /\ energy_now \in Int /\ energy_now \in 0..MaxTime
  BY <1>0, ConstantsTyped DEF Energy!Init
<1> DEFINE read == Energy!Read
<1>2. /\ read.energy \in 0..MAX_ENERGY /\ read.stamp \in Int
      /\ read.energy < MAX_ENERGY => energy_now < read.stamp + REGEN_INTERVAL
  BY <1>1, ReadingIs DEF Energy!Read
<1> HIDE DEF read
<1>3. Energy!TypeOK
  BY <1>1 DEF Energy!TypeOK
<1> QED BY <1>1, <1>2, <1>3, ConstantsTyped DEF Energy!Eager!Init, read

\* What a write leaves is read as it was written.
LEMMA ReadAsWritten ==
  ASSUME NEW s \in 0..MAX_ENERGY, NEW u \in Int, NEW t \in Int,
         s = MAX_ENERGY => u = t, t < u + REGEN_INTERVAL
  PROVE  Energy!regenerate(s, u, t) = [energy |-> s, stamp |-> u]
<1>1. CASE s = MAX_ENERGY
  BY <1>1, WhenFilled DEF Filled
<1>2. CASE s < MAX_ENERGY
  <2>1. REGEN_INTERVAL * 0 = 0
    BY ConstantsTyped
  <2>2. Grew(s, u, t, 0)
    BY <1>2, <2>1, ConstantsTyped DEF Grew
  <2>3. s + 0 = s /\ u + REGEN_INTERVAL * 0 = u
    BY <2>1
  <2> QED BY <2>2, <2>3, WhenGrew
<1> QED BY <1>1, <1>2, ConstantsTyped

LEMMA Written ==
  ASSUME Energy!TypeOK, NEW e \in 0..MAX_ENERGY, NEW u \in Int, stored' = e, updated_at' = u,
         energy_now' = energy_now,
         e = MAX_ENERGY => u = energy_now, energy_now < u + REGEN_INTERVAL
  PROVE  Energy!TypeOK' /\ Energy!Read' = [energy |-> e, stamp |-> u]
<1>1. Energy!TypeOK'
  BY DEF Energy!TypeOK
<1>2. energy_now \in Int
  BY ConstantsTyped DEF Energy!TypeOK
<1>3. Energy!regenerate(e, u, energy_now) = [energy |-> e, stamp |-> u]
  BY <1>2, ReadAsWritten
<1> QED BY <1>1, <1>3 DEF Energy!Read, Energy!regenerate, Energy!Lower

LEMMA EagerStep ==
  ASSUME Energy!TypeOK, [Energy!Next]_(Energy!vars)
  PROVE  Energy!TypeOK' /\ [Energy!Eager!Next]_<<Energy!Read.energy, Waited>>
<1> DEFINE read == Energy!Read
<1>1. /\ stored \in 0..MAX_ENERGY /\ updated_at \in Int /\ energy_now \in 0..MaxTime /\ energy_now \in Int
      /\ MAX_ENERGY \in Nat \ {0} /\ REGEN_INTERVAL \in Nat \ {0} /\ MATCH_COST \in Nat
      /\ REVIEW_REFILL \in Nat /\ MaxTime \in Nat
  BY ConstantsTyped DEF Energy!TypeOK
<1>2. /\ read.energy \in 0..MAX_ENERGY /\ read.stamp \in Int
      /\ read.energy = MAX_ENERGY => read.stamp = energy_now
      /\ read.energy < MAX_ENERGY => energy_now < read.stamp + REGEN_INTERVAL
  BY <1>1, ReadingIs DEF Energy!Read
<1>3. energy_now < read.stamp + REGEN_INTERVAL
  BY <1>1, <1>2
<1> HIDE DEF read
<1>4. CASE UNCHANGED Energy!vars
  <2>1. Energy!Read' = Energy!Read /\ Waited' = Waited
    BY <1>4 DEF Energy!vars, Energy!Read, Waited, Energy!regenerate, Energy!Lower
  <2>2. Energy!TypeOK'
    BY <1>4 DEF Energy!vars, Energy!TypeOK
  <2> QED BY <2>1, <2>2
<1>5. CASE Energy!Pass
  <2>1. /\ energy_now < MaxTime /\ energy_now' = energy_now + 1 /\ stored' = stored /\ updated_at' = updated_at
    BY <1>5 DEF Energy!Pass
  <2>2. Energy!TypeOK'
    BY <1>1, <2>1 DEF Energy!TypeOK
  <2> DEFINE later == Energy!regenerate(stored, updated_at, energy_now + 1)
  <2>3. Energy!Read' = later
    BY <2>1 DEF Energy!Read, Energy!regenerate, Energy!Lower
  <2>4. \/ /\ read.energy = MAX_ENERGY
           /\ later = [energy |-> MAX_ENERGY, stamp |-> energy_now + 1]
        \/ /\ read.energy < MAX_ENERGY /\ energy_now + 1 < read.stamp + REGEN_INTERVAL
           /\ later = [energy |-> read.energy, stamp |-> read.stamp]
        \/ /\ read.energy < MAX_ENERGY /\ energy_now + 1 = read.stamp + REGEN_INTERVAL
           /\ later = [energy |-> read.energy + 1, stamp |-> energy_now + 1]
    BY <1>1, OneLater DEF Energy!Read, read
  <2> HIDE DEF later
  <2> DEFINE e == Energy!Read'.energy
             w == Waited'
  <2>5. e = later.energy /\ w = IF later.energy = MAX_ENERGY THEN 0 ELSE energy_now' - later.stamp
    <3> DEFINE x == Energy!Read'
    <3>1. w = IF x.energy = MAX_ENERGY THEN 0 ELSE energy_now' - x.stamp
      BY DEF Waited
    <3>2. x = later /\ e = x.energy
      BY <2>3
    <3> HIDE DEF e, w, x
    <3>3. w = IF later.energy = MAX_ENERGY THEN 0 ELSE energy_now' - later.stamp
      BY <3>1, <3>2
    <3>4. e = later.energy
      BY <3>2
    <3> QED BY <3>3, <3>4
  <2>6. Waited = IF read.energy = MAX_ENERGY THEN 0 ELSE energy_now - read.stamp
    BY DEF Waited, read
  <2> HIDE DEF e, w
  <2>7. \/ read.energy = MAX_ENERGY /\ e = read.energy /\ w = Waited
        \/ /\ read.energy # MAX_ENERGY /\ Waited + 1 < REGEN_INTERVAL
           /\ e = read.energy /\ w = Waited + 1
        \/ /\ read.energy # MAX_ENERGY /\ ~(Waited + 1 < REGEN_INTERVAL)
           /\ e = read.energy + 1 /\ w = 0
    BY <1>1, <1>2, <2>1, <2>4, <2>5, <2>6
  <2>8. Energy!Eager!Tick
    BY <2>7 DEF Energy!Eager!Tick, e, w, read, Waited
  <2> QED BY <2>2, <2>8 DEF Energy!Eager!Next
<1>6. CASE Energy!SpendForMatch
  <2> DEFINE rest  == read.energy - MATCH_COST
             stamp == IF read.energy >= MAX_ENERGY THEN energy_now ELSE read.stamp
  <2>1. /\ read.energy >= MATCH_COST /\ energy_now' = energy_now /\ stored' = rest /\ updated_at' = stamp
    BY <1>6 DEF Energy!SpendForMatch, Energy!Spendable, Energy!current_energy, Energy!Save,
       Energy!spend,
                Energy!Read, read
  <2>2. /\ rest \in 0..MAX_ENERGY /\ stamp \in Int
        /\ rest = MAX_ENERGY => stamp = energy_now
        /\ energy_now < stamp + REGEN_INTERVAL
    BY <1>1, <1>2, <1>3, <2>1
  <2> HIDE DEF rest, stamp
  <2>3. Energy!TypeOK' /\ Energy!Read' = [energy |-> rest, stamp |-> stamp]
    BY <2>1, <2>2, Written
  <2>4. Energy!Read'.energy = rest /\ Waited' = IF rest = MAX_ENERGY THEN 0 ELSE energy_now - stamp
    BY <2>1, <2>3 DEF Waited
  <2>5. Waited = IF read.energy = MAX_ENERGY THEN 0 ELSE energy_now - read.stamp
    BY DEF Waited, read
  <2>6. Waited' = IF read.energy = MAX_ENERGY THEN 0 ELSE Waited
    BY <1>1, <1>2, <2>1, <2>4, <2>5 DEF rest, stamp
  <2>7. Energy!Eager!Spend
    BY <2>1, <2>4, <2>6 DEF rest, Energy!Eager!Spend, read, Waited
  <2> QED BY <2>3, <2>7 DEF Energy!Eager!Next
<1>7. ASSUME NEW n \in {MATCH_COST, REVIEW_REFILL}, Energy!Grant(n)
      PROVE  Energy!TypeOK' /\ Energy!Eager!Next
  <2> DEFINE full  == IF MAX_ENERGY < read.energy + n THEN MAX_ENERGY ELSE read.energy + n
             stamp == IF full >= MAX_ENERGY THEN energy_now ELSE read.stamp
  <2>1. energy_now' = energy_now /\ stored' = full /\ updated_at' = stamp
    BY <1>7 DEF Energy!Grant, Energy!Save, Energy!refill, Energy!Lower, Energy!Read, read
  <2>2. /\ full \in 0..MAX_ENERGY /\ stamp \in Int
        /\ full = MAX_ENERGY => stamp = energy_now
        /\ energy_now < stamp + REGEN_INTERVAL
    BY <1>1, <1>2, <1>3, <2>1
  <2> HIDE DEF full, stamp
  <2>3. Energy!TypeOK' /\ Energy!Read' = [energy |-> full, stamp |-> stamp]
    BY <2>1, <2>2, Written
  <2>4. Energy!Read'.energy = full /\ Waited' = IF full = MAX_ENERGY THEN 0 ELSE energy_now - stamp
    BY <2>1, <2>3 DEF Waited
  <2>5. Waited = IF read.energy = MAX_ENERGY THEN 0 ELSE energy_now - read.stamp
    BY DEF Waited, read
  <2>6. full = IF read.energy + n < MAX_ENERGY THEN read.energy + n ELSE MAX_ENERGY
    BY <1>1, <1>2 DEF full
  <2>7. Waited' = IF full = MAX_ENERGY THEN 0 ELSE Waited
    BY <1>1, <1>2, <2>1, <2>4, <2>5, <2>6 DEF stamp
  <2>8. Energy!Eager!Refill(n)
    BY <2>4, <2>6, <2>7 DEF Energy!Eager!Refill, Energy!Eager!Capped, read, Waited
  <2> QED BY <1>7, <2>3, <2>8 DEF Energy!Eager!Next
<1> QED BY <1>4, <1>5, <1>6, <1>7 DEF Energy!Next

-----------------------------------------------------------------------------
(* The promise.                                                             *)

LEMMA PromiseKept ==
  ASSUME Energy!TypeOK
  PROVE  Energy!PromiseIsKept
<1> DEFINE I    == REGEN_INTERVAL
           s    == stored
           u    == updated_at
           read == Energy!Read
           at   == Energy!next_regen_at(s, u, energy_now)
           On(t) == Energy!current_energy(s, u, t)
<1>1. /\ s \in 0..MAX_ENERGY /\ u \in Int /\ energy_now \in Int
      /\ MAX_ENERGY \in Nat \ {0} /\ I \in Nat \ {0}
  BY ConstantsTyped DEF Energy!TypeOK
<1>2. SUFFICES ASSUME at # -1
               PROVE  On(at) = read.energy + 1 /\ On(at - 1) = read.energy
  BY DEF Energy!PromiseIsKept
<1>3. at = IF read.energy >= MAX_ENERGY THEN -1 ELSE read.stamp + I
  BY DEF Energy!next_regen_at, Energy!Read
<1>4. ~Filled(s, u, energy_now)
  <2>1. ASSUME Filled(s, u, energy_now) PROVE FALSE
    <3>1. read = [energy |-> MAX_ENERGY, stamp |-> energy_now]
      BY <1>1, <2>1, WhenFilled DEF Energy!Read
    <3> HIDE DEF read, at
    <3>2. read.energy = MAX_ENERGY
      BY <3>1
    <3> QED BY <1>1, <1>2, <1>3, <3>2
  <2> QED BY <2>1
<1>5. PICK g \in Nat : Grew(s, u, energy_now, g)
  BY <1>1, <1>4, EitherWay
<1>6. read = [energy |-> s + g, stamp |-> u + I * g]
  BY <1>1, <1>5, WhenGrew DEF Energy!Read
<1> HIDE DEF read, at, s, u, I
<1>7. read.energy = s + g /\ read.stamp = u + I * g
  BY <1>6
<1>8. /\ I * g \in Int /\ I * (g + 1) = I * g + I /\ s + g < MAX_ENERGY
      /\ energy_now < u + I * g + I /\ (g = 0 \/ u + I * g <= energy_now)
  BY <1>1, <1>5, Times DEF Grew, I
<1>9. at = u + I * g + I /\ at \in Int
  BY <1>1, <1>3, <1>7, <1>8
<1>10. On(at - 1) = s + g
  <2>1. Grew(s, u, at - 1, g)
    BY <1>1, <1>8, <1>9 DEF Grew, I
  <2>2. at - 1 \in Int
    BY <1>9
  <2>3. Energy!regenerate(s, u, at - 1) = [energy |-> s + g, stamp |-> u + REGEN_INTERVAL * g]
    BY <1>1, <2>1, <2>2, WhenGrew
  <2> QED BY <2>3 DEF Energy!current_energy
<1>11. On(at) = s + g + 1
  <2>1. CASE s + g + 1 < MAX_ENERGY
    <3>1. Grew(s, u, at, g + 1)
      BY <1>1, <1>8, <1>9, <2>1 DEF Grew, I
    <3>2. Energy!regenerate(s, u, at) = [energy |-> s + (g + 1), stamp |-> u + REGEN_INTERVAL * (g + 1)]
      BY <1>1, <1>9, <3>1, WhenGrew
    <3>3. s + (g + 1) = s + g + 1
      BY <1>1
    <3> QED BY <3>2, <3>3 DEF Energy!current_energy
  <2>2. CASE s + g + 1 >= MAX_ENERGY
    <3>1. MAX_ENERGY - s = g + 1 /\ MAX_ENERGY = s + g + 1
      BY <1>1, <1>8, <2>2
    <3>2. I * (MAX_ENERGY - s) = I * g + I
      BY <1>8, <3>1
    <3>3. Filled(s, u, at)
      BY <1>1, <1>8, <1>9, <3>2 DEF Filled, I
    <3>4. Energy!regenerate(s, u, at) = [energy |-> MAX_ENERGY, stamp |-> at]
      BY <1>1, <1>9, <3>3, WhenFilled
    <3> QED BY <3>1, <3>4 DEF Energy!current_energy
  <2> QED BY <1>1, <2>1, <2>2
<1> QED BY <1>7, <1>10, <1>11

-----------------------------------------------------------------------------
(* The order of the learn path: what is sorted by place, and what two        *)
(* sequences are woven into.                                                *)

Ordered(m) ==
  /\ IsFiniteSet(DOMAIN m) /\ \A u \in DOMAIN m : m[u] \in Nat
  /\ \A u, v \in DOMAIN m : m[u] = m[v] => u = v

Line(s) == s \in Seq(Way!Range(s)) /\ \A i, j \in DOMAIN s : s[i] = s[j] => i = j

Ahead(m, u) == {v \in DOMAIN m : m[v] < m[u]}
Rank(m, u)  == Cardinality(Ahead(m, u))
Size(m)     == Cardinality(DOMAIN m)
Nth(m, n)   == CHOOSE u \in DOMAIN m : Rank(m, u) = n - 1

LEMMA WayCounts == \A S : Way!Cardinality(S) = Cardinality(S)
BY DEF Way!Cardinality, Cardinality

\* What InOrder chooses, in the words above.
LEMMA InOrderIs ==
  ASSUME NEW m
  PROVE  Way!InOrder(m) = [n \in 1..Size(m) |-> Nth(m, n)]
<1> DEFINE C(n) == CHOOSE u \in DOMAIN m : Way!Cardinality({v \in DOMAIN m : m[v] < m[u]}) = n - 1
<1>1. Way!InOrder(m) = [n \in 1..Size(m) |-> C(n)]
  BY WayCounts DEF Way!InOrder, Size
<1>2. \A n : C(n) = Nth(m, n)
  <2>1. \A u, n : Way!Cardinality({v \in DOMAIN m : m[v] < m[u]}) = n - 1 <=> Rank(m, u) = n - 1
    BY WayCounts DEF Rank, Ahead
  <2> QED BY <2>1 DEF Nth
<1> HIDE DEF C
<1> QED BY <1>1, <1>2

\* Whoever is ahead of somebody has fewer ahead of them.
LEMMA Ranked ==
  ASSUME NEW m, Ordered(m)
  PROVE  /\ \A u \in DOMAIN m : Rank(m, u) \in 0..(Size(m) - 1)
         /\ \A u, v \in DOMAIN m : m[u] < m[v] => Rank(m, u) < Rank(m, v)
         /\ \A u, v \in DOMAIN m : Rank(m, u) = Rank(m, v) => u = v
<1>1. \A u \in DOMAIN m : IsFiniteSet(Ahead(m, u)) /\ Rank(m, u) \in Nat
  BY FS_Subset, FS_CardinalityType DEF Ordered, Ahead, Rank
<1>2. \A u \in DOMAIN m : m[u] \in Nat
  BY DEF Ordered
<1>3. ASSUME NEW u \in DOMAIN m, NEW S, IsFiniteSet(S), Ahead(m, u) \cup {u} \subseteq S
      PROVE  Rank(m, u) + 1 <= Cardinality(S) /\ Cardinality(S) \in Nat
  <2>1. u \notin Ahead(m, u)
    BY <1>2 DEF Ahead
  <2>2. Cardinality(Ahead(m, u) \cup {u}) = Rank(m, u) + 1
    BY <1>1, <2>1, FS_AddElement DEF Rank
  <2>3. Cardinality(Ahead(m, u) \cup {u}) <= Cardinality(S) /\ Cardinality(S) \in Nat
    BY <1>3, FS_Subset, FS_CardinalityType
  <2> QED BY <2>2, <2>3
<1>4. ASSUME NEW u \in DOMAIN m
      PROVE  Rank(m, u) \in 0..(Size(m) - 1)
  <2>1. Ahead(m, u) \cup {u} \subseteq DOMAIN m /\ IsFiniteSet(DOMAIN m)
    BY DEF Ahead, Ordered
  <2>2. Rank(m, u) + 1 <= Size(m) /\ Size(m) \in Nat
    BY <1>3, <2>1 DEF Size
  <2> QED BY <1>1, <2>2
<1>5. ASSUME NEW u \in DOMAIN m, NEW v \in DOMAIN m, m[u] < m[v]
      PROVE  Rank(m, u) < Rank(m, v)
  <2>1. Ahead(m, u) \cup {u} \subseteq Ahead(m, v)
    BY <1>2, <1>5 DEF Ahead
  <2>2. Rank(m, u) + 1 <= Rank(m, v)
    BY <1>1, <1>3, <2>1 DEF Rank
  <2> QED BY <1>1, <2>2
<1>6. ASSUME NEW u \in DOMAIN m, NEW v \in DOMAIN m, Rank(m, u) = Rank(m, v)
      PROVE  u = v
  <2>1. ~(m[u] < m[v]) /\ ~(m[v] < m[u])
    BY <1>1, <1>5, <1>6
  <2>2. m[u] = m[v]
    BY <1>2, <2>1
  <2> QED BY <2>2 DEF Ordered
<1> QED BY <1>4, <1>5, <1>6

\* Sorted by place: the n-th has n - 1 ahead.
LEMMA Sorted ==
  ASSUME NEW m, Ordered(m)
  PROVE  LET s == Way!InOrder(m) IN
         /\ Size(m) \in Nat /\ DOMAIN s = 1..Size(m) /\ Len(s) = Size(m) /\ s \in Seq(DOMAIN m)
         /\ \A n \in 1..Size(m) : s[n] \in DOMAIN m /\ Rank(m, s[n]) = n - 1
         /\ \A u \in DOMAIN m : Rank(m, u) + 1 \in 1..Size(m) /\ s[Rank(m, u) + 1] = u
         /\ Way!Range(s) = DOMAIN m /\ Line(s)
         /\ \A i, j \in 1..Size(m) : m[s[i]] < m[s[j]] <=> i < j
<1> DEFINE s == Way!InOrder(m)
           f == [u \in DOMAIN m |-> Rank(m, u) + 1]
<1>1. Size(m) \in Nat /\ IsFiniteSet(DOMAIN m)
  BY FS_CardinalityType DEF Ordered, Size
<1>2. /\ \A u \in DOMAIN m : Rank(m, u) \in 0..(Size(m) - 1) /\ Rank(m, u) + 1 \in 1..Size(m)
      /\ \A u, v \in DOMAIN m : Rank(m, u) = Rank(m, v) => u = v
  BY <1>1, Ranked
<1>3. f \in Injection(DOMAIN m, 1..Size(m))
  <2>1. f \in [DOMAIN m -> 1..Size(m)]
    BY <1>2
  <2>2. \A u, v \in DOMAIN m : f[u] = f[v] => u = v
    BY <1>2
  <2> QED BY <2>1, <2>2 DEF Injection, IsInjective
<1>4. f \in Surjection(DOMAIN m, 1..Size(m))
  <2>1. IsFiniteSet(1..Size(m)) /\ Cardinality(1..Size(m)) = Size(m)
    BY <1>1, FS_Interval
  <2>2. Cardinality(DOMAIN m) = Cardinality(1..Size(m))
    BY <2>1 DEF Size
  <2> HIDE DEF f
  <2> QED BY <1>3, <2>1, <2>2, FS_Injection
<1>5. \A n \in 1..Size(m) : \E u \in DOMAIN m : Rank(m, u) = n - 1
  <2>1. \A n \in 1..Size(m) : \E u \in DOMAIN m : f[u] = n
    <3> HIDE DEF f
    <3> QED BY <1>4 DEF Surjection
  <2> QED BY <1>2, <2>1
<1>6. s = [n \in 1..Size(m) |-> Nth(m, n)]
  BY InOrderIs
<1> HIDE DEF f, s
<1>7. \A n \in 1..Size(m) : s[n] \in DOMAIN m /\ Rank(m, s[n]) = n - 1
  <2> TAKE n \in 1..Size(m)
  <2>1. s[n] = CHOOSE u \in DOMAIN m : Rank(m, u) = n - 1
    BY <1>6 DEF Nth
  <2> QED BY <1>5, <2>1
<1>8. /\ DOMAIN s = 1..Size(m) /\ s \in [1..Size(m) -> DOMAIN m]
  BY <1>6, <1>7
<1>9. s \in Seq(DOMAIN m) /\ Len(s) = Size(m)
  BY <1>1, <1>8
<1>10. \A u \in DOMAIN m : Rank(m, u) + 1 \in 1..Size(m) /\ s[Rank(m, u) + 1] = u
  <2> TAKE u \in DOMAIN m
  <2>1. Rank(m, u) + 1 \in 1..Size(m) /\ Rank(m, u) \in Int
    BY <1>2
  <2>2. s[Rank(m, u) + 1] \in DOMAIN m /\ Rank(m, s[Rank(m, u) + 1]) = Rank(m, u)
    BY <1>7, <2>1
  <2> QED BY <1>2, <2>1, <2>2
<1>11. Way!Range(s) = DOMAIN m
  BY <1>7, <1>8, <1>10 DEF Way!Range
<1>12. \A i, j \in 1..Size(m) : s[i] = s[j] => i = j
  <2> SUFFICES ASSUME NEW i \in 1..Size(m), NEW j \in 1..Size(m), s[i] = s[j] PROVE i = j
    OBVIOUS
  <2>1. Rank(m, s[i]) = i - 1 /\ Rank(m, s[j]) = j - 1
    BY <1>7
  <2> QED BY <2>1
<1>13. Line(s)
  BY <1>8, <1>9, <1>11, <1>12 DEF Line
<1>14. \A i, j \in 1..Size(m) : m[s[i]] < m[s[j]] <=> i < j
  <2> SUFFICES ASSUME NEW i \in 1..Size(m), NEW j \in 1..Size(m)
               PROVE  m[s[i]] < m[s[j]] <=> i < j
    OBVIOUS
  <2>1. /\ s[i] \in DOMAIN m /\ Rank(m, s[i]) = i - 1 /\ m[s[i]] \in Nat
        /\ s[j] \in DOMAIN m /\ Rank(m, s[j]) = j - 1 /\ m[s[j]] \in Nat
    BY <1>7 DEF Ordered
  <2>2. m[s[i]] < m[s[j]] => i < j
    BY <2>1, Ranked
  <2>3. m[s[j]] < m[s[i]] => j < i
    BY <2>1, Ranked
  <2>4. m[s[i]] = m[s[j]] => i = j
    BY <2>1 DEF Ordered
  <2> DEFINE a == m[s[i]]
             b == m[s[j]]
  <2>5. a \in Nat /\ b \in Nat /\ (a < b => i < j) /\ (b < a => j < i) /\ (a = b => i = j)
    BY <2>1, <2>2, <2>3, <2>4
  <2> HIDE DEF a, b
  <2>6. a < b <=> i < j
    BY ONLY <2>5, i \in Nat, j \in Nat
  <2> QED BY <2>6 DEF a, b
<1> QED BY <1>1, <1>7, <1>8, <1>9, <1>10, <1>11, <1>13, <1>14 DEF s

\* Who is ahead of whom decides the order.
LEMMA SameOrder ==
  ASSUME NEW m, NEW k, DOMAIN m = DOMAIN k, \A u, v \in DOMAIN m : m[u] < m[v] <=> k[u] < k[v]
  PROVE  Way!InOrder(m) = Way!InOrder(k)
<1>1. \A u \in DOMAIN m : Ahead(m, u) = Ahead(k, u)
  BY DEF Ahead
<1>2. \A u \in DOMAIN m : Rank(m, u) = Rank(k, u)
  BY <1>1 DEF Rank
<1>3. \A n : Nth(m, n) = Nth(k, n)
  BY <1>2 DEF Nth
<1>4. Size(m) = Size(k)
  BY DEF Size
<1> QED BY <1>3, <1>4, InOrderIs

\* k different members of a sequence are a set of k.
LEMMA CountedOff ==
  ASSUME NEW s, NEW k \in Nat, \A i, j \in 1..k : s[i] = s[j] => i = j,
         NEW T, T = {s[i] : i \in 1..k}
  PROVE  IsFiniteSet(T) /\ Cardinality(T) = k
<1> DEFINE f == [i \in 1..k |-> s[i]]
<1>1. IsFiniteSet(1..k) /\ Cardinality(1..k) = k
  BY FS_Interval
<1>2. f \in Bijection(1..k, T)
  <2>1. f \in [1..k -> T] /\ (\A t \in T : \E i \in 1..k : f[i] = t)
    OBVIOUS
  <2>2. \A i, j \in 1..k : f[i] = f[j] => i = j
    OBVIOUS
  <2> HIDE DEF f
  <2> QED BY <2>1, <2>2 DEF Bijection, Injection, Surjection, IsInjective
<1> HIDE DEF f
<1>3. IsFiniteSet(T) /\ Cardinality(T) = Cardinality(1..k)
  BY <1>1, <1>2, FS_Bijection DEF ExistsBijection
<1> QED BY <1>1, <1>3

\* The places of a line, and that sorting by them gives the line back.
LEMMA NumberedIs ==
  ASSUME NEW s, Line(s)
  PROVE  LET m == Way!Numbered(s) IN
         /\ DOMAIN m = Way!Range(s) /\ Ordered(m)
         /\ \A n \in DOMAIN s : s[n] \in Way!Range(s) /\ m[s[n]] = n
         /\ \A u \in Way!Range(s) : m[u] \in DOMAIN s /\ s[m[u]] = u
         /\ Way!InOrder(m) = s
<1> DEFINE m == Way!Numbered(s)
           t == Way!InOrder(m)
<1>1. s \in Seq(Way!Range(s)) /\ DOMAIN s = 1..Len(s) /\ Len(s) \in Nat
  BY DEF Line
<1>2. /\ DOMAIN m = Way!Range(s)
      /\ \A u \in Way!Range(s) : m[u] = CHOOSE n \in DOMAIN s : s[n] = u
  BY DEF Way!Numbered
<1> HIDE DEF m
<1>3. \A u \in Way!Range(s) : m[u] \in DOMAIN s /\ s[m[u]] = u
  <2> TAKE u \in Way!Range(s)
  <2>1. \E n \in DOMAIN s : s[n] = u
    BY DEF Way!Range
  <2> QED BY <1>2, <2>1
<1>4. \A n \in DOMAIN s : s[n] \in Way!Range(s) /\ m[s[n]] = n
  <2> TAKE n \in DOMAIN s
  <2>1. s[n] \in Way!Range(s)
    BY DEF Way!Range
  <2> QED BY <1>3, <2>1 DEF Line
<1>5. \A i, j \in 1..Len(s) : s[i] = s[j] => i = j
  BY <1>1 DEF Line
<1>6. IsFiniteSet(Way!Range(s)) /\ Cardinality(Way!Range(s)) = Len(s)
  <2>1. Way!Range(s) = {s[i] : i \in 1..Len(s)}
    BY <1>1 DEF Way!Range
  <2> HIDE DEF m
  <2> QED BY ONLY <1>1, <1>5, <2>1, CountedOff
<1>7. Ordered(m)
  <2>1. \A u \in DOMAIN m : m[u] \in Nat
    BY <1>1, <1>2, <1>3
  <2>2. \A u, v \in DOMAIN m : m[u] = m[v] => u = v
    BY <1>2, <1>3
  <2> QED BY <1>2, <1>6, <2>1, <2>2 DEF Ordered
<1>8. \A n \in DOMAIN s : Rank(m, s[n]) = n - 1
  <2> TAKE n \in DOMAIN s
  <2>1. Ahead(m, s[n]) = {s[i] : i \in 1..(n - 1)}
    <3>1. \A i \in 1..(n - 1) : i \in DOMAIN s /\ i < n
      BY <1>1
    <3>2. ASSUME NEW v \in DOMAIN m, m[v] < m[s[n]]
          PROVE  \E i \in 1..(n - 1) : v = s[i]
      <4>1. m[v] \in 1..Len(s) /\ s[m[v]] = v /\ m[s[n]] = n
        BY <1>1, <1>2, <1>3, <1>4
      <4>2. m[v] \in 1..(n - 1)
        BY <1>1, <3>2, <4>1
      <4> QED BY <4>1, <4>2
    <3>3. ASSUME NEW i \in 1..(n - 1)
          PROVE  s[i] \in DOMAIN m /\ m[s[i]] < m[s[n]]
      <4>1. s[i] \in DOMAIN m /\ m[s[i]] = i /\ m[s[n]] = n
        BY <1>2, <1>4, <3>1
      <4> QED BY <3>1, <4>1
    <3>4. Ahead(m, s[n]) \subseteq {s[i] : i \in 1..(n - 1)}
      BY <3>2 DEF Ahead
    <3>5. {s[i] : i \in 1..(n - 1)} \subseteq Ahead(m, s[n])
      BY <3>3 DEF Ahead
    <3> QED BY <3>4, <3>5
  <2>2. n - 1 \in Nat /\ \A i, j \in 1..(n - 1) : i \in 1..Len(s) /\ j \in 1..Len(s)
    BY <1>1
  <2>3. \A i, j \in 1..(n - 1) : s[i] = s[j] => i = j
    BY <1>5, <2>2
  <2>4. Cardinality(Ahead(m, s[n])) = n - 1
    BY ONLY <2>1, <2>2, <2>3, CountedOff
  <2> QED BY <2>4 DEF Rank
<1>9. t = s
  <2>1. Size(m) = Len(s)
    BY <1>2, <1>6 DEF Size
  <2>2. DOMAIN t = 1..Len(s) /\ t \in Seq(DOMAIN m)
    BY <1>7, <2>1, Sorted
  <2>3. ASSUME NEW n \in 1..Len(s) PROVE t[n] = s[n]
    <3>1. s[n] \in DOMAIN m /\ Rank(m, s[n]) = n - 1
      BY <1>1, <1>2, <1>4, <1>8
    <3>2. t[Rank(m, s[n]) + 1] = s[n]
      BY <1>7, <3>1, Sorted
    <3>3. Rank(m, s[n]) + 1 = n
      BY <1>1, <3>1
    <3> QED BY <3>2, <3>3
  <2> HIDE DEF t
  <2>4. t \in [1..Len(s) -> DOMAIN m] /\ s \in [1..Len(s) -> Way!Range(s)]
    BY <1>1, <2>2
  <2> QED BY <2>3, <2>4
<1> QED BY <1>2, <1>3, <1>4, <1>7, <1>9 DEF m

\* What is taken out of a sorted path leaves the rest sorted.
LEMMA WithoutIs ==
  ASSUME NEW m, Ordered(m), NEW S
  PROVE  Way!Without(Way!InOrder(m), S) = Way!InOrder(Way!Only(m, DOMAIN m \ S))
<1> DEFINE s == Way!InOrder(m)
           k == Way!Numbered(s)
<1>1. Line(s) /\ Way!Range(s) = DOMAIN m
  BY Sorted
<1>2. /\ \A u \in DOMAIN m : Rank(m, u) + 1 \in 1..Size(m) /\ s[Rank(m, u) + 1] = u
      /\ DOMAIN s = 1..Size(m)
  BY Sorted
<1> HIDE DEF s
<1>3. DOMAIN k = DOMAIN m
  BY <1>1, NumberedIs
<1>4. \A u \in DOMAIN m : k[u] = Rank(m, u) + 1
  <2> TAKE u \in DOMAIN m
  <2>1. k[s[Rank(m, u) + 1]] = Rank(m, u) + 1
    BY <1>1, <1>2, NumberedIs
  <2> QED BY <1>2, <2>1
<1>5. \A u, v \in DOMAIN m : m[u] < m[v] <=> k[u] < k[v]
  <2> TAKE u \in DOMAIN m, v \in DOMAIN m
  <2>1. /\ m[u] \in Nat /\ m[v] \in Nat
        /\ Rank(m, u) \in Int /\ Rank(m, v) \in Int
        /\ m[u] < m[v] => Rank(m, u) < Rank(m, v)
        /\ m[v] < m[u] => Rank(m, v) < Rank(m, u)
        /\ m[u] = m[v] => u = v
    BY Ranked DEF Ordered
  <2>2. k[u] = Rank(m, u) + 1 /\ k[v] = Rank(m, v) + 1
    BY <1>4
  <2> DEFINE a == m[u]
             b == m[v]
             x == Rank(m, u)
             y == Rank(m, v)
  <2>3. /\ a \in Nat /\ b \in Nat /\ x \in Int /\ y \in Int
        /\ (a < b => x < y) /\ (b < a => y < x) /\ (a = b => x = y)
    BY <2>1
  <2> HIDE DEF a, b, x, y
  <2>4. a < b <=> x + 1 < y + 1
    BY ONLY <2>3
  <2> QED BY <2>2, <2>4 DEF a, b, x, y
<1> HIDE DEF k
<1> DEFINE rest == DOMAIN m \ S
<1>6. Way!InOrder(Way!Only(k, rest)) = Way!InOrder(Way!Only(m, rest))
  <2>1. /\ DOMAIN Way!Only(k, rest) = rest /\ DOMAIN Way!Only(m, rest) = rest
        /\ \A u \in rest : Way!Only(k, rest)[u] = k[u] /\ Way!Only(m, rest)[u] = m[u]
    BY <1>3 DEF Way!Only
  <2> HIDE DEF rest
  <2>2. rest \subseteq DOMAIN m
    BY DEF rest
  <2>3. \A u, v \in rest : Way!Only(k, rest)[u] < Way!Only(k, rest)[v]
                            <=> Way!Only(m, rest)[u] < Way!Only(m, rest)[v]
    BY <1>5, <2>1, <2>2
  <2> QED BY <2>1, <2>3, SameOrder
<1> QED BY <1>1, <1>6 DEF Way!Without, s, k

\* A part of a line that keeps its order is what is left when the rest goes.
LEMMA KeptIs ==
  ASSUME NEW w, Line(w), NEW t, Line(t), NEW S, Way!Range(t) = Way!Range(w) \ S,
         NEW p, \A i \in DOMAIN t : p[i] \in DOMAIN w /\ w[p[i]] = t[i],
         \A i, j \in DOMAIN t : i < j => p[i] < p[j]
  PROVE  Way!Without(w, S) = t
<1> DEFINE k == Way!Numbered(t)
           m == Way!Only(Way!Numbered(w), Way!Range(t))
<1>1. DOMAIN m = Way!Range(t) /\ DOMAIN k = Way!Range(t)
  BY NumberedIs DEF Way!Only
<1>2. \A i \in DOMAIN t : t[i] \in Way!Range(t) /\ k[t[i]] = i /\ m[t[i]] = p[i]
  <2> TAKE i \in DOMAIN t
  <2>1. t[i] \in Way!Range(t) /\ k[t[i]] = i
    BY NumberedIs
  <2>2. Way!Numbered(w)[w[p[i]]] = p[i]
    BY NumberedIs
  <2>3. m[t[i]] = Way!Numbered(w)[t[i]]
    BY <1>1, <2>1 DEF Way!Only
  <2> QED BY <2>1, <2>2, <2>3
<1> HIDE DEF m, k
<1>3. \A u, v \in Way!Range(t) : m[u] < m[v] <=> k[u] < k[v]
  <2> SUFFICES ASSUME NEW i \in DOMAIN t, NEW j \in DOMAIN t
               PROVE  m[t[i]] < m[t[j]] <=> k[t[i]] < k[t[j]]
    BY DEF Way!Range
  <2>1. i \in Nat /\ j \in Nat /\ p[i] \in Nat /\ p[j] \in Nat
    BY DEF Line
  <2>2. (i < j => p[i] < p[j]) /\ (j < i => p[j] < p[i]) /\ (i = j => p[i] = p[j])
    OBVIOUS
  <2> DEFINE a == p[i]
             b == p[j]
  <2>3. a \in Nat /\ b \in Nat /\ (i < j => a < b) /\ (j < i => b < a) /\ (i = j => a = b)
    BY <2>1, <2>2
  <2> HIDE DEF a, b
  <2>4. a < b <=> i < j
    BY ONLY <2>1, <2>3
  <2> QED BY <1>2, <2>4 DEF a, b
<1>4. Way!InOrder(m) = Way!InOrder(k)
  BY <1>1, <1>3, SameOrder
<1>5. Way!InOrder(k) = t
  BY NumberedIs DEF k
<1> QED BY <1>4, <1>5 DEF Way!Without, m

\* Weaving: what stands on an odd place of the common part, and behind it what
\* is left of the longer one.
LEMMA LeastOfTwo ==
  ASSUME NEW a \in Nat, NEW b \in Nat
  PROVE  Way!Min({a, b}) = IF a <= b THEN a ELSE b
<1> DEFINE c == IF a <= b THEN a ELSE b
<1>1. c \in {a, b} /\ \A y \in {a, b} : c <= y
  OBVIOUS
<1>2. \A x \in {a, b} : (\A y \in {a, b} : x <= y) => x = c
  OBVIOUS
<1> HIDE DEF c
<1>3. Way!Min({a, b}) = c
  BY <1>1, <1>2 DEF Way!Min
<1> QED BY <1>3 DEF c

Both(first, second) == Way!Min({Len(first), Len(second)})
Odd(first, second) ==
  [i \in DOMAIN first |-> IF i <= Both(first, second) THEN 2 * i - 1 ELSE Both(first, second) + i]
Even(first, second) ==
  [j \in DOMAIN second |-> IF j <= Both(first, second) THEN 2 * j ELSE Both(first, second) + j]

LEMMA JoinedAt ==
  ASSUME NEW S, NEW x \in Seq(S), NEW y \in Seq(S), NEW v, v = x \o y
  PROVE  /\ v \in Seq(S) /\ Len(v) = Len(x) + Len(y)
         /\ \A n \in 1..Len(x) : v[n] = x[n]
         /\ \A k \in 1..Len(y) : v[Len(x) + k] = y[k]
  OBVIOUS

LEMMA TailAt ==
  ASSUME NEW S, NEW s \in Seq(S), NEW k \in Nat, k <= Len(s)
  PROVE  /\ SubSeq(s, k + 1, Len(s)) \in Seq(S) /\ Len(SubSeq(s, k + 1, Len(s))) = Len(s) - k
         /\ \A i \in 1..(Len(s) - k) : SubSeq(s, k + 1, Len(s))[i] = s[k + i]
  OBVIOUS

LEMMA WovenAt ==
  ASSUME NEW S, NEW first \in Seq(S), NEW second \in Seq(S)
  PROVE  LET w == Way!interleave(first, second)
             both == Both(first, second)
             p == Odd(first, second)
             q == Even(first, second)
         IN
         /\ w \in Seq(S) /\ Len(w) = Len(first) + Len(second)
         /\ both \in Nat /\ both <= Len(first) /\ both <= Len(second)
         /\ \A i \in DOMAIN first : p[i] \in 1..Len(w) /\ w[p[i]] = first[i]
         /\ \A j \in DOMAIN second : q[j] \in 1..Len(w) /\ w[q[j]] = second[j]
         /\ \A n \in 1..Len(w) : \/ \E i \in DOMAIN first : n = p[i]
                                 \/ \E j \in DOMAIN second : n = q[j]
         /\ \A i, j \in DOMAIN first : i < j => p[i] < p[j]
         /\ \A i, j \in DOMAIN second : i < j => q[i] < q[j]
<1> DEFINE w == Way!interleave(first, second)
           both == Both(first, second)
           p == Odd(first, second)
           q == Even(first, second)
           a == Len(first)
           b == Len(second)
           x == [n \in 1..(2 * both) |-> IF n % 2 = 1 THEN first[(n + 1) \div 2] ELSE second[n \div 2]]
           y == SubSeq(first, both + 1, a)
           z == SubSeq(second, both + 1, b)
<1>1. a \in Nat /\ b \in Nat /\ DOMAIN first = 1..a /\ DOMAIN second = 1..b
  OBVIOUS
<1>2. both \in Nat /\ both <= a /\ both <= b /\ (both = a \/ both = b)
  <2>1. both = IF a <= b THEN a ELSE b
    BY <1>1, LeastOfTwo DEF Both
  <2> HIDE DEF both, a, b
  <2> QED BY ONLY <1>1, <2>1
<1>3. w = x \o y \o z
  BY DEF Way!interleave, Both
<1>4. /\ \A i \in DOMAIN first : p[i] = IF i <= both THEN 2 * i - 1 ELSE both + i
      /\ \A j \in DOMAIN second : q[j] = IF j <= both THEN 2 * j ELSE both + j
  BY DEF Odd, Even
<1> HIDE DEF both, w, p, q, a, b
<1>5. x \in Seq(S) /\ Len(x) = 2 * both
  <2>1. ASSUME NEW n \in 1..(2 * both) PROVE x[n] \in S
    <3>1. CASE n % 2 = 1
      <4>1. (n + 1) \div 2 \in 1..a
        BY ONLY <1>1, <1>2, <3>1, n \in 1..(2 * both)
      <4>2. first[(n + 1) \div 2] \in S /\ x[n] = first[(n + 1) \div 2]
        BY <1>1, <3>1, <4>1
      <4> QED BY <4>2
    <3>2. CASE n % 2 # 1
      <4>1. n \div 2 \in 1..b
        BY ONLY <1>1, <1>2, <3>2, n \in 1..(2 * both)
      <4>2. second[n \div 2] \in S /\ x[n] = second[n \div 2]
        BY <1>1, <3>2, <4>1
      <4> QED BY <4>2
    <3> QED BY <3>1, <3>2
  <2>2. x \in [1..(2 * both) -> S]
    BY <2>1
  <2>3. 2 * both \in Nat
    BY ONLY <1>2
  <2> HIDE DEF x
  <2> QED BY ONLY <2>2, <2>3
<1>6. ASSUME NEW i \in 1..both
      PROVE  /\ 2 * i - 1 \in 1..(2 * both) /\ x[2 * i - 1] = first[i]
             /\ 2 * i \in 1..(2 * both) /\ x[2 * i] = second[i]
  <2>1. 2 * i - 1 \in 1..(2 * both) /\ (2 * i - 1) % 2 = 1 /\ (2 * i - 1 + 1) \div 2 = i
    BY ONLY <1>2, i \in 1..both
  <2>2. 2 * i \in 1..(2 * both) /\ (2 * i) % 2 # 1 /\ (2 * i) \div 2 = i
    BY ONLY <1>2, i \in 1..both
  <2>3. x[2 * i - 1] = first[(2 * i - 1 + 1) \div 2]
    BY ONLY <2>1 DEF x
  <2>4. x[2 * i] = second[(2 * i) \div 2]
    BY ONLY <2>2 DEF x
  <2> QED BY ONLY <2>1, <2>2, <2>3, <2>4
<1> HIDE DEF x
<1>7. y \in Seq(S) /\ Len(y) = a - both /\ \A k \in 1..(a - both) : y[k] = first[both + k]
  BY <1>2, TailAt DEF a
<1>8. z \in Seq(S) /\ Len(z) = b - both /\ \A k \in 1..(b - both) : z[k] = second[both + k]
  BY <1>2, TailAt DEF b
<1> HIDE DEF y, z
<1> DEFINE v == x \o y
<1>9. /\ v \in Seq(S) /\ Len(v) = 2 * both + (a - both)
      /\ \A n \in 1..(2 * both) : v[n] = x[n]
      /\ \A k \in 1..(a - both) : v[2 * both + k] = y[k]
  <2>1. v = x \o y
    OBVIOUS
  <2> HIDE DEF v
  <2>2. /\ v \in Seq(S) /\ Len(v) = Len(x) + Len(y)
        /\ \A n \in 1..Len(x) : v[n] = x[n]
        /\ \A k \in 1..Len(y) : v[Len(x) + k] = y[k]
    <3>1. x \in Seq(S) /\ y \in Seq(S)
      BY ONLY <1>5, <1>7
    <3> QED BY ONLY <2>1, <3>1, JoinedAt
  <2> QED BY ONLY <1>5, <1>7, <2>2
<1>10. Len(v) = a + both
  BY ONLY <1>1, <1>2, <1>9
<1> HIDE DEF v
<1>11. /\ w \in Seq(S) /\ Len(w) = a + both + (b - both)
       /\ \A n \in 1..(a + both) : w[n] = v[n]
       /\ \A k \in 1..(b - both) : w[a + both + k] = z[k]
  <2>1. w = v \o z
    BY <1>3 DEF v
  <2>2. /\ w \in Seq(S) /\ Len(w) = Len(v) + Len(z)
        /\ \A n \in 1..Len(v) : w[n] = v[n]
        /\ \A k \in 1..Len(z) : w[Len(v) + k] = z[k]
    <3>1. v \in Seq(S) /\ z \in Seq(S)
      BY ONLY <1>8, <1>9
    <3> QED BY ONLY <2>1, <3>1, JoinedAt
  <2> QED BY ONLY <1>8, <1>10, <2>2
<1>12. w \in Seq(S) /\ Len(w) = a + b
  BY ONLY <1>1, <1>2, <1>11
<1>13. ASSUME NEW n \in 1..(2 * both) PROVE n \in 1..(a + b) /\ w[n] = x[n]
  <2>1. n \in 1..(a + both) /\ n \in 1..(a + b)
    BY ONLY <1>1, <1>2, n \in 1..(2 * both)
  <2> QED BY <1>9, <1>11, <2>1
<1>14. ASSUME NEW i \in DOMAIN first PROVE p[i] \in 1..(a + b) /\ w[p[i]] = first[i]
  <2>1. CASE i <= both
    <3>1. p[i] = 2 * i - 1
      BY <1>4, <2>1
    <3>2. i \in 1..both
      BY ONLY <1>1, <1>2, <2>1, i \in DOMAIN first
    <3> QED BY <1>6, <1>13, <3>1, <3>2
  <2>2. CASE ~(i <= both)
    <3>1. p[i] = both + i
      BY <1>4, <2>2
    <3>2. /\ i - both \in 1..(a - both) /\ both + (i - both) = i
          /\ 2 * both + (i - both) = both + i
          /\ both + i \in 1..(a + both) /\ both + i \in 1..(a + b)
      BY ONLY <1>1, <1>2, <2>2, i \in DOMAIN first
    <3>3. v[2 * both + (i - both)] = y[i - both] /\ y[i - both] = first[both + (i - both)]
      BY <1>7, <1>9, <3>2
    <3>4. w[both + i] = v[both + i]
      BY <1>11, <3>2
    <3> QED BY ONLY <3>1, <3>2, <3>3, <3>4
  <2> QED BY <2>1, <2>2
<1>15. ASSUME NEW j \in DOMAIN second PROVE q[j] \in 1..(a + b) /\ w[q[j]] = second[j]
  <2>1. CASE j <= both
    <3>1. q[j] = 2 * j
      BY <1>4, <2>1
    <3>2. j \in 1..both
      BY ONLY <1>1, <1>2, <2>1, j \in DOMAIN second
    <3> QED BY <1>6, <1>13, <3>1, <3>2
  <2>2. CASE ~(j <= both)
    <3>1. q[j] = both + j
      BY <1>4, <2>2
    <3>2. both = a
      BY ONLY <1>1, <1>2, <2>2, j \in DOMAIN second
    <3>3. /\ j - both \in 1..(b - both) /\ both + (j - both) = j
          /\ a + both + (j - both) = both + j /\ both + j \in 1..(a + b)
      BY ONLY <1>1, <1>2, <2>2, <3>2, j \in DOMAIN second
    <3>4. w[a + both + (j - both)] = z[j - both] /\ z[j - both] = second[both + (j - both)]
      BY <1>8, <1>11, <3>3
    <3> QED BY ONLY <3>1, <3>3, <3>4
  <2> QED BY <2>1, <2>2
<1>16. ASSUME NEW n \in 1..(a + b)
       PROVE  (\E i \in DOMAIN first : n = p[i]) \/ \E j \in DOMAIN second : n = q[j]
  <2>1. CASE n <= 2 * both /\ n % 2 = 1
    <3>1. /\ (n + 1) \div 2 \in 1..a /\ (n + 1) \div 2 <= both
          /\ n = 2 * ((n + 1) \div 2) - 1
      BY ONLY <1>1, <1>2, <2>1, n \in 1..(a + b)
    <3>2. (n + 1) \div 2 \in DOMAIN first /\ p[(n + 1) \div 2] = 2 * ((n + 1) \div 2) - 1
      BY <1>1, <1>4, <3>1
    <3> QED BY <3>1, <3>2
  <2>2. CASE n <= 2 * both /\ n % 2 # 1
    <3>1. n \div 2 \in 1..b /\ n \div 2 <= both /\ n = 2 * (n \div 2)
      BY ONLY <1>1, <1>2, <2>2, n \in 1..(a + b)
    <3>2. n \div 2 \in DOMAIN second /\ q[n \div 2] = 2 * (n \div 2)
      BY <1>1, <1>4, <3>1
    <3> QED BY <3>1, <3>2
  <2>3. CASE ~(n <= 2 * both) /\ both = b
    <3>1. n - both \in 1..a /\ ~(n - both <= both) /\ both + (n - both) = n
      BY ONLY <1>1, <1>2, <2>3, n \in 1..(a + b)
    <3>2. n - both \in DOMAIN first /\ p[n - both] = both + (n - both)
      BY <1>1, <1>4, <3>1
    <3> QED BY <3>1, <3>2
  <2>4. CASE ~(n <= 2 * both) /\ both = a
    <3>1. n - both \in 1..b /\ ~(n - both <= both) /\ both + (n - both) = n
      BY ONLY <1>1, <1>2, <2>4, n \in 1..(a + b)
    <3>2. n - both \in DOMAIN second /\ q[n - both] = both + (n - both)
      BY <1>1, <1>4, <3>1
    <3> QED BY <3>1, <3>2
  <2> QED BY ONLY <1>2, <2>1, <2>2, <2>3, <2>4
<1>17. \A i, j \in DOMAIN first : i < j => p[i] < p[j]
  <2> TAKE i \in DOMAIN first, j \in DOMAIN first
  <2>1. /\ p[i] = IF i <= both THEN 2 * i - 1 ELSE both + i
        /\ p[j] = IF j <= both THEN 2 * j - 1 ELSE both + j
    BY <1>4
  <2> QED BY ONLY <1>1, <1>2, <2>1, i \in DOMAIN first, j \in DOMAIN first
<1>18. \A i, j \in DOMAIN second : i < j => q[i] < q[j]
  <2> TAKE i \in DOMAIN second, j \in DOMAIN second
  <2>1. /\ q[i] = IF i <= both THEN 2 * i ELSE both + i
        /\ q[j] = IF j <= both THEN 2 * j ELSE both + j
    BY <1>4
  <2> QED BY ONLY <1>1, <1>2, <2>1, i \in DOMAIN second, j \in DOMAIN second
<1> QED BY <1>1, <1>2, <1>12, <1>14, <1>15, <1>16, <1>17, <1>18 DEF w, both, p, q, a, b

\* Two lines without a common member, woven: each keeps its order.
LEMMA WovenIs ==
  ASSUME NEW first, NEW second, Line(first), Line(second),
         Way!Range(first) \cap Way!Range(second) = {}
  PROVE  LET w == Way!interleave(first, second) IN
         /\ Line(w) /\ Way!Range(w) = Way!Range(first) \cup Way!Range(second)
         /\ \A T : T \cap Way!Range(first) = {} /\ Way!Range(second) \subseteq T =>
                     Way!Without(w, T) = first
         /\ \A T : T \cap Way!Range(second) = {} /\ Way!Range(first) \subseteq T =>
                     Way!Without(w, T) = second
         /\ \A n \in 1..(2 * Both(first, second)) : w[n] \in Way!Range(second) <=> n % 2 = 0
<1> DEFINE S == Way!Range(first) \cup Way!Range(second)
           w == Way!interleave(first, second)
           both == Both(first, second)
           p == Odd(first, second)
           q == Even(first, second)
<1>1. first \in Seq(S) /\ second \in Seq(S)
  <2>1. first \in Seq(Way!Range(first)) /\ second \in Seq(Way!Range(second))
    BY DEF Line
  <2>2. \A U, V, s : s \in Seq(U) => s \in Seq(U \cup V) /\ s \in Seq(V \cup U)
    OBVIOUS
  <2> QED BY ONLY <2>1, <2>2
<1>2. /\ w \in Seq(S) /\ Len(w) \in Nat /\ DOMAIN w = 1..Len(w)
      /\ both \in Nat /\ both <= Len(first) /\ both <= Len(second)
      /\ Len(w) = Len(first) + Len(second)
  BY <1>1, WovenAt
<1>3. \A i \in DOMAIN first : p[i] \in DOMAIN w /\ w[p[i]] = first[i]
  BY <1>1, <1>2, WovenAt
<1>4. \A j \in DOMAIN second : q[j] \in DOMAIN w /\ w[q[j]] = second[j]
  BY <1>1, <1>2, WovenAt
<1>5. \A n \in DOMAIN w : (\E i \in DOMAIN first : n = p[i]) \/ \E j \in DOMAIN second : n = q[j]
  BY <1>1, <1>2, WovenAt
<1>6. \A i, j \in DOMAIN first : i < j => p[i] < p[j]
  BY <1>1, WovenAt
<1>7. \A i, j \in DOMAIN second : i < j => q[i] < q[j]
  BY <1>1, WovenAt
<1>8. /\ \A i \in DOMAIN first : p[i] = IF i <= both THEN 2 * i - 1 ELSE both + i
      /\ \A j \in DOMAIN second : q[j] = IF j <= both THEN 2 * j ELSE both + j
      /\ \A i \in DOMAIN first : i \in Nat /\ i >= 1
      /\ \A j \in DOMAIN second : j \in Nat /\ j >= 1
  <2>1. /\ \A i \in DOMAIN first : i \in Nat /\ i >= 1
        /\ \A j \in DOMAIN second : j \in Nat /\ j >= 1
    BY ONLY <1>1
  <2> QED BY <2>1 DEF Odd, Even
<1> HIDE DEF w, both, p, q
<1>9. /\ \A i \in DOMAIN first : first[i] \in Way!Range(first) /\ first[i] \notin Way!Range(second)
      /\ \A j \in DOMAIN second : second[j] \in Way!Range(second) /\ second[j] \notin Way!Range(first)
  BY DEF Way!Range
<1>10. Way!Range(w) = S
  <2>1. ASSUME NEW n \in DOMAIN w PROVE w[n] \in S
    BY <1>3, <1>4, <1>5, <1>9
  <2>2. \A u \in Way!Range(first) : \E n \in DOMAIN w : w[n] = u
    BY <1>3 DEF Way!Range
  <2>3. \A u \in Way!Range(second) : \E n \in DOMAIN w : w[n] = u
    BY <1>4 DEF Way!Range
  <2> QED BY <2>1, <2>2, <2>3 DEF Way!Range
<1>11. ASSUME NEW m \in DOMAIN w, NEW n \in DOMAIN w, w[m] = w[n]
       PROVE  m = n
  <2>1. CASE \E i \in DOMAIN first : m = p[i]
    <3>1. PICK i \in DOMAIN first : m = p[i]
      BY <2>1
    <3>2. PICK k \in DOMAIN first : n = p[k]
      BY <1>3, <1>4, <1>5, <1>9, <1>11, <3>1
    <3>3. first[i] = first[k]
      BY <1>3, <1>11, <3>1, <3>2
    <3> QED BY <3>1, <3>2, <3>3 DEF Line
  <2>2. CASE \E j \in DOMAIN second : m = q[j]
    <3>1. PICK j \in DOMAIN second : m = q[j]
      BY <2>2
    <3>2. PICK k \in DOMAIN second : n = q[k]
      BY <1>3, <1>4, <1>5, <1>9, <1>11, <3>1
    <3>3. second[j] = second[k]
      BY <1>4, <1>11, <3>1, <3>2
    <3> QED BY <3>1, <3>2, <3>3 DEF Line
  <2> QED BY <1>5, <2>1, <2>2
<1>12. Line(w)
  BY <1>2, <1>10, <1>11 DEF Line
<1>13. ASSUME NEW T, T \cap Way!Range(first) = {}, Way!Range(second) \subseteq T
       PROVE  Way!Without(w, T) = first
  <2>1. Way!Range(first) = Way!Range(w) \ T
    BY <1>10, <1>13
  <2> HIDE DEF S
  <2> QED BY <1>3, <1>6, <1>12, <2>1, KeptIs
<1>14. ASSUME NEW T, T \cap Way!Range(second) = {}, Way!Range(first) \subseteq T
       PROVE  Way!Without(w, T) = second
  <2>1. Way!Range(second) = Way!Range(w) \ T
    BY <1>10, <1>14
  <2> HIDE DEF S
  <2> QED BY <1>4, <1>7, <1>12, <2>1, KeptIs
<1>15. ASSUME NEW n \in 1..(2 * both)
       PROVE  w[n] \in Way!Range(second) <=> n % 2 = 0
  <2>1. n \in DOMAIN w
    <3> DEFINE a == Len(first)
               b == Len(second)
               c == Len(w)
    <3>1. c = a + b /\ a \in Nat /\ b \in Nat /\ both <= a /\ both <= b /\ both \in Nat
      BY <1>1, <1>2
    <3> HIDE DEF a, b, c
    <3>2. n \in 1..c
      BY ONLY <3>1, n \in 1..(2 * both)
    <3> QED BY <1>2, <3>2 DEF c
  <2>2. CASE \E i \in DOMAIN first : n = p[i]
    <3>1. PICK i \in DOMAIN first : n = p[i]
      BY <2>2
    <3>2. i \in Nat /\ n = (IF i <= both THEN 2 * i - 1 ELSE both + i) /\ both \in Nat
      BY <1>2, <1>8, <3>1
    <3>3. n % 2 # 0
      BY ONLY <3>2, n \in 1..(2 * both)
    <3> QED BY <1>3, <1>9, <3>1, <3>3
  <2>3. CASE \E j \in DOMAIN second : n = q[j]
    <3>1. PICK j \in DOMAIN second : n = q[j]
      BY <2>3
    <3>2. j \in Nat /\ n = (IF j <= both THEN 2 * j ELSE both + j) /\ both \in Nat
      BY <1>2, <1>8, <3>1
    <3>3. n % 2 = 0
      BY ONLY <3>2, n \in 1..(2 * both)
    <3> QED BY <1>4, <1>9, <3>1, <3>3
  <2> QED BY <1>5, <2>1, <2>2, <2>3
<1> QED BY <1>10, <1>12, <1>13, <1>14, <1>15 DEF w, both

\* A line without what it does not hold, and without all it holds.
LEMMA WholeIs ==
  ASSUME NEW s, Line(s), NEW S
  PROVE  /\ S \cap Way!Range(s) = {} => Way!Without(s, S) = s
         /\ Way!Range(s) \subseteq S => Way!Without(s, S) = << >>
<1>1. ASSUME S \cap Way!Range(s) = {} PROVE Way!Without(s, S) = s
  <2> DEFINE p == [i \in DOMAIN s |-> i]
  <2>1. Way!Range(s) = Way!Range(s) \ S
    BY <1>1
  <2>2. (\A i \in DOMAIN s : p[i] \in DOMAIN s /\ s[p[i]] = s[i])
        /\ \A i, j \in DOMAIN s : i < j => p[i] < p[j]
    OBVIOUS
  <2> HIDE DEF p
  <2> QED BY <2>1, <2>2, KeptIs
<1>2. ASSUME Way!Range(s) \subseteq S PROVE Way!Without(s, S) = << >>
  <2> DEFINE p == << >>
  <2>1. DOMAIN << >> = {}
    OBVIOUS
  <2>2. Way!Range(<< >>) = {}
    BY <2>1 DEF Way!Range
  <2>3. Line(<< >>)
    BY <2>1, <2>2 DEF Line
  <2>4. Way!Range(<< >>) = Way!Range(s) \ S
    BY <1>2, <2>2
  <2>5. (\A i \in DOMAIN << >> : p[i] \in DOMAIN s /\ s[p[i]] = << >>[i])
        /\ \A i, j \in DOMAIN << >> : i < j => p[i] < p[j]
    BY <2>1
  <2> HIDE DEF p
  <2> QED BY <2>3, <2>4, <2>5, KeptIs
<1> QED BY <1>1, <1>2

\* What is left of a sorted path is a line of what is left.
LEMMA LeftIs ==
  ASSUME NEW m, Ordered(m), NEW S
  PROVE  LET s == Way!Without(Way!InOrder(m), S) IN
         Line(s) /\ Way!Range(s) = DOMAIN m \ S
<1> DEFINE k == Way!Only(m, DOMAIN m \ S)
<1>1. DOMAIN k = DOMAIN m \ S /\ \A u \in DOMAIN k : k[u] = m[u]
  BY DEF Way!Only
<1> HIDE DEF k
<1>2. IsFiniteSet(DOMAIN k)
  BY <1>1, FS_Subset DEF Ordered
<1>3. Ordered(k)
  BY <1>1, <1>2 DEF Ordered
<1>4. Line(Way!InOrder(k)) /\ Way!Range(Way!InOrder(k)) = DOMAIN k
  BY <1>3, Sorted
<1> QED BY <1>1, <1>4, WithoutIs DEF k

\* The opening and the deck are lines with nothing in common, and no ultimate
\* is guarded twice.
LEMMA LinesGiven ==
  /\ Line(Opening) /\ Line(Deck) /\ Line(Guards)
  /\ Way!Range(Deck) = Way!Vocab /\ IsFiniteSet(Way!Vocab)
  /\ (Way!Range(Opening) \cup Extra) \cap Way!Vocab = {}
<1>1. \A s \in {Opening, Deck, Guards} : s \in Seq(Way!Range(s)) /\ Way!IsInjective(s)
  BY AccountsAssumption DEF Way!LearnPathAssumption
<1>2. Line(Opening) /\ Line(Deck) /\ Line(Guards)
  BY <1>1 DEF Line, Way!IsInjective
<1>3. (Way!Range(Opening) \cup Extra) \cap Way!Range(Deck) = {}
  BY AccountsAssumption DEF Way!LearnPathAssumption
<1>4. IsFiniteSet(Way!Range(Deck))
  BY <1>2, NumberedIs DEF Ordered
<1> QED BY <1>2, <1>3, <1>4 DEF Way!Vocab

OnPath == Way!Range(Opening) \cup Way!Vocab \cup Extra
Firsts == Way!first_unit_ids(Len(Guards))
BoundUpTo(k) == \A n \in 1..k : Guards[n] \in DOMAIN bound /\ bound[Guards[n]] = Firsts[n]

Runs   == [doing : {"import", "remove"}, at : {"read", "shifted"},
           existing : Seq(OnPath), moved : SUBSET OnPath, calm : BOOLEAN]
Starts == {start \in [ids : Seq(OnPath), next : Nat \ {0}] : Len(start.ids) <= Len(Guards)}

PathTyped ==
  /\ Way!TypeOK /\ Ordered(units)
  /\ script # Absent => script \in Runs
  /\ starting # Absent => starting \in Starts

\* The admin's order is what the path is without the deck; while nobody is in
\* the way the path is that order, with the deck woven in or not, and so is
\* what a script has read that nobody has overtaken.
WovenInv ==
  /\ admin = Way!Without(Way!Path, Way!Vocab)
  /\ calm => units \in {Way!Numbered(admin), Way!Numbered(Way!interleave(admin, Deck))}
  /\ script # Absent /\ script.calm =>
       /\ script.existing = Way!Path
       /\ script.doing = "import" <=> Way!Vocab \cap DOMAIN units = {}

\* A start-up the path has not moved under has bound the units up to the one
\* it has come to.
GuardedInv ==
  guarded =>
    IF starting = Absent THEN BoundUpTo(Len(Firsts))
    ELSE /\ starting.ids = Firsts /\ starting.next <= Len(Firsts) + 1
         /\ BoundUpTo(starting.next - 1)

PathInv == PathTyped /\ WovenInv /\ GuardedInv

LEMMA FirstsIs ==
  ASSUME Ordered(units)
  PROVE  /\ Way!Path \in Seq(DOMAIN units) /\ Len(Way!Path) \in Nat
         /\ Line(Way!Path) /\ Way!Range(Way!Path) = DOMAIN units
         /\ Firsts \in Seq(DOMAIN units) /\ Len(Firsts) <= Len(Guards)
         /\ Len(Firsts) = Way!Min({Len(Guards), Len(Way!Path)})
         /\ \A n \in 1..Len(Firsts) : Firsts[n] = Way!Path[n]
<1> DEFINE path == Way!Path
           least == Way!Min({Len(Guards), Len(path)})
<1>1. path \in Seq(DOMAIN units) /\ Len(path) = Size(units) /\ Line(path) /\ Way!Range(path) = DOMAIN units
  BY Sorted DEF Way!Path
<1>2. Way!Cardinality(DOMAIN units) = Len(path)
  BY <1>1, WayCounts DEF Size
<1>3. Firsts = SubSeq(path, 1, least)
  BY <1>2 DEF Firsts, Way!first_unit_ids, Way!Path
<1>4. Len(path) \in Nat /\ Len(Guards) \in Nat
  BY <1>1, LinesGiven DEF Line
<1>5. least \in Nat /\ least <= Len(path) /\ least <= Len(Guards)
  BY <1>4, LeastOfTwo
<1> HIDE DEF path, least
<1>6. /\ SubSeq(path, 1, least) \in Seq(DOMAIN units) /\ Len(SubSeq(path, 1, least)) = least
      /\ \A n \in 1..least : SubSeq(path, 1, least)[n] = path[n]
  BY <1>1, <1>4, <1>5
<1> QED BY <1>1, <1>3, <1>4, <1>5, <1>6 DEF path, least

(* The first state.                                                         *)
LEMMA PathStart ==
  ASSUME Way!Init
  PROVE  PathInv
<1>1. /\ units = Way!Numbered(Opening) /\ script = Absent /\ starting = Absent
      /\ bound = [code \in {} |-> Absent] /\ completed = {} /\ owned = {}
      /\ admin = Opening /\ guarded = FALSE
  BY DEF Way!Init
<1>2. DOMAIN units = Way!Range(Opening) /\ Ordered(units) /\ Way!Path = Opening
  BY <1>1, LinesGiven, NumberedIs DEF Way!Path
<1>3. Way!TypeOK
  BY <1>1, <1>2 DEF Way!TypeOK, Ordered
<1>4. Way!Without(Opening, Way!Vocab) = Opening
  <2>1. Way!Vocab \cap Way!Range(Opening) = {}
    BY LinesGiven
  <2> QED BY <2>1, LinesGiven, WholeIs
<1> QED BY <1>1, <1>2, <1>3, <1>4 DEF PathInv, PathTyped, WovenInv, GuardedInv

(* The rows a script leaves: places the path has, or out of its way.        *)
LEMMA PlaceIs ==
  ASSUME NEW s, DOMAIN s \subseteq Nat, NEW u \in Way!Range(s)
  PROVE  Way!Numbered(s)[u] \in Nat
<1>1. \E n \in DOMAIN s : s[n] = u
  BY DEF Way!Range
<1> QED BY <1>1 DEF Way!Numbered

LEMMA RowsAre ==
  ASSUME PathTyped, script # Absent
  PROVE  /\ DOMAIN Way!Renumbered \subseteq OnPath /\ IsFiniteSet(DOMAIN Way!Renumbered)
         /\ \A u \in DOMAIN Way!Renumbered : Way!Renumbered[u] \in Nat
<1> DEFINE vocab == Way!Vocab \cap Way!Range(script.existing)
           path == IF script.doing = "import" THEN Way!interleave(script.existing, Deck)
                   ELSE Way!Without(script.existing, vocab)
           held == IF script.doing = "import" THEN DOMAIN units \cup Way!Vocab ELSE DOMAIN units \ vocab
           order == Way!Numbered(path)
<1>1. Way!Renumbered = [u \in held |-> IF u \in Way!Range(path) THEN order[u]
                                       ELSE IF u \in script.moved THEN units[u] + ORDER_OFFSET ELSE units[u]]
  BY DEF Way!Renumbered
<1>2. DOMAIN units \subseteq OnPath /\ Way!Vocab \subseteq OnPath /\ ORDER_OFFSET \in Nat
      /\ IsFiniteSet(DOMAIN units) /\ IsFiniteSet(Way!Vocab) /\ \A u \in DOMAIN units : units[u] \in Nat
  BY LinesGiven, AccountsAssumption
     DEF PathTyped, Way!TypeOK, Ordered, OnPath, Way!Vocab, Way!LearnPathAssumption
<1>3. IsFiniteSet(held) /\ held \subseteq OnPath
  <2>1. IsFiniteSet(DOMAIN units \cup Way!Vocab) /\ IsFiniteSet(DOMAIN units \ vocab)
    BY <1>2, FS_Union, FS_Subset
  <2> QED BY <1>2, <2>1
<1>4. DOMAIN path \subseteq Nat /\ \A u \in held : u \in Way!Range(path) \/ u \in DOMAIN units
  <2>1. CASE script.doing = "import"
    <3> DEFINE w == Way!interleave(script.existing, Deck)
               q == Even(script.existing, Deck)
    <3>1. script.existing \in Seq(OnPath) /\ Deck \in Seq(OnPath)
      <4>1. Deck \in Seq(Way!Vocab)
        BY LinesGiven DEF Line
      <4>2. \A U, V, s : s \in Seq(U) /\ U \subseteq V => s \in Seq(V)
        OBVIOUS
      <4>3. script.existing \in Seq(OnPath)
        BY DEF PathTyped, Runs
      <4> QED BY ONLY <1>2, <4>1, <4>2, <4>3
    <3>2. w \in Seq(OnPath) /\ \A j \in DOMAIN Deck : q[j] \in 1..Len(w) /\ w[q[j]] = Deck[j]
      BY <3>1, WovenAt
    <3> HIDE DEF w, q
    <3>3. DOMAIN w \subseteq Nat /\ DOMAIN w = 1..Len(w)
      BY <3>2
    <3>4. \A u \in Way!Vocab : u \in Way!Range(w)
      BY <3>2, <3>3 DEF Way!Range, Way!Vocab
    <3>5. path = w /\ held = DOMAIN units \cup Way!Vocab
      BY <2>1 DEF w
    <3> QED BY <3>3, <3>4, <3>5
  <2>2. CASE script.doing # "import"
    <3>1. \A m : DOMAIN Way!InOrder(m) \subseteq Nat
      BY DEF Way!InOrder
    <3> QED BY <2>2, <3>1 DEF Way!Without
  <2> QED BY <2>1, <2>2
<1> HIDE DEF path, held
<1>5. \A u \in Way!Range(path) : order[u] \in Nat
  BY <1>4, PlaceIs
<1> HIDE DEF order
<1> QED BY <1>1, <1>2, <1>3, <1>4, <1>5

(* Types.                                                                   *)
LEMMA PathTypes ==
  ASSUME PathTyped, [Way!Next]_(Way!vars)
  PROVE  PathTyped'
<1>1. /\ DOMAIN units \subseteq OnPath /\ completed \subseteq DOMAIN units
      /\ owned \subseteq DOMAIN bound /\ DOMAIN bound \subseteq Way!Range(Guards)
      /\ \A code \in DOMAIN bound : bound[code] \in DOMAIN units \cup {Absent}
  BY DEF PathTyped, Way!TypeOK, OnPath
<1>2. Ordered(units)
  BY DEF PathTyped
<1>3. (script # Absent => script \in Runs) /\ (starting # Absent => starting \in Starts)
  BY DEF PathTyped
<1>4. (script # Absent => script \in Runs)'
  <2>1. ASSUME NEW doing \in {"import", "remove"}, Way!Read(doing) PROVE script' \in Runs
    <3>1. Way!InOrder(units) \in Seq(DOMAIN units)
      BY <1>2, Sorted
    <3>2. \A U, V, s : s \in Seq(U) /\ U \subseteq V => s \in Seq(V)
      OBVIOUS
    <3>3. Way!InOrder(units) \in Seq(OnPath)
      BY ONLY <1>1, <3>1, <3>2
    <3> QED BY <2>1, <3>3 DEF Way!Read, Runs
  <2>2. ASSUME Way!Shift PROVE script' \in Runs
    BY <1>1, <1>3, <2>2 DEF Way!Shift, Runs
  <2>3. ASSUME Way!Commit \/ Way!Die PROVE script' = Absent
    BY <2>3 DEF Way!Commit, Way!Die
  <2>4. ASSUME NEW rows, Way!Edits(rows) PROVE script' # Absent => script' \in Runs
    BY <1>3, <2>4 DEF Way!Edits, Runs
  <2>5. ASSUME NEW u, NEW place, Way!create_unit(u, place) \/ Way!update_unit(u, place) \/ Way!delete_unit(u)
        PROVE  script' # Absent => script' \in Runs
    BY <2>4, <2>5 DEF Way!create_unit, Way!update_unit, Way!delete_unit
  <2>6. ASSUME NEW u, Way!Complete(u) \/ Way!unlock_skill(u) \/ Way!Start \/ Way!UpsertUltimate
                      \/ Way!Started \/ Way!Crash \/ UNCHANGED Way!vars
        PROVE  script' = script
    BY <2>6 DEF Way!Complete, Way!unlock_skill, Way!Start, Way!UpsertUltimate, Way!Started, Way!Crash,
                Way!vars
  <2> QED BY <1>3, <2>1, <2>2, <2>3, <2>5, <2>6 DEF Way!Next
<1>5. (starting # Absent => starting \in Starts)'
  <2>1. ASSUME Way!Start PROVE starting' \in Starts
    <3>1. Firsts \in Seq(DOMAIN units) /\ Len(Firsts) <= Len(Guards)
      BY <1>2, FirstsIs
    <3>2. \A U, V, s : s \in Seq(U) /\ U \subseteq V => s \in Seq(V)
      OBVIOUS
    <3>3. Firsts \in Seq(OnPath)
      BY ONLY <1>1, <3>1, <3>2
    <3>4. starting' = [ids |-> Firsts, next |-> 1]
      BY <2>1 DEF Way!Start, Firsts
    <3> QED BY <3>1, <3>3, <3>4 DEF Starts
  <2>2. ASSUME Way!UpsertUltimate PROVE starting' \in Starts \/ starting' = Absent
    <3>1. starting \in Starts
      BY <1>3, <2>2 DEF Way!UpsertUltimate
    <3>2. [starting EXCEPT !.next = @ + 1] \in Starts
      BY <3>1 DEF Starts
    <3> QED BY <2>2, <3>2 DEF Way!UpsertUltimate
  <2>3. ASSUME Way!Started \/ Way!Crash PROVE starting' = Absent
    BY <2>3 DEF Way!Started, Way!Crash
  <2>4. ASSUME NEW u, NEW place,
               \/ Way!Read(u) \/ Way!Shift \/ Way!Commit \/ Way!Die \/ Way!create_unit(u, place)
               \/ Way!update_unit(u, place) \/ Way!delete_unit(u) \/ Way!Complete(u)
               \/ Way!unlock_skill(u) \/ UNCHANGED Way!vars
        PROVE  starting' = starting
    BY <2>4 DEF Way!Read, Way!Shift, Way!Commit, Way!Die, Way!create_unit, Way!update_unit,
                Way!delete_unit, Way!Edits, Way!Complete, Way!unlock_skill, Way!vars
  <2> QED BY <1>3, <2>1, <2>2, <2>3, <2>4 DEF Way!Next
<1>6. ASSUME Way!Commit PROVE (Way!TypeOK /\ Ordered(units))'
  <2> DEFINE rows == Way!Renumbered
  <2>1. CASE units' = units /\ bound' = bound /\ completed' = completed
    BY <1>1, <1>2, <1>6, <2>1 DEF Way!Commit, Way!TypeOK, Ordered, OnPath
  <2>2. CASE ~(units' = units /\ bound' = bound /\ completed' = completed)
    <3>1. /\ units' = rows /\ completed' = completed \cap DOMAIN rows /\ owned' = owned
          /\ bound' = [code \in DOMAIN bound |->
                         IF bound[code] \in DOMAIN rows THEN bound[code] ELSE Absent]
          /\ \A u, v \in DOMAIN rows : rows[u] = rows[v] => u = v
      BY <1>6, <2>2 DEF Way!Commit
    <3>2. /\ DOMAIN rows \subseteq OnPath /\ IsFiniteSet(DOMAIN rows)
          /\ \A u \in DOMAIN rows : rows[u] \in Nat
      BY <1>6, RowsAre DEF Way!Commit
    <3> HIDE DEF rows
    <3> QED BY <1>1, <3>1, <3>2 DEF Way!TypeOK, Ordered, OnPath
  <2> QED BY <2>1, <2>2
<1>7. ASSUME NEW u \in Extra, NEW place \in Way!Places, Way!create_unit(u, place)
      PROVE  (Way!TypeOK /\ Ordered(units))'
  <2>1. /\ units' = [v \in DOMAIN units \cup {u} |-> IF v = u THEN place ELSE units[v]]
        /\ u \notin DOMAIN units /\ \A v \in DOMAIN units : units[v] # place
        /\ bound' = bound /\ completed' = completed /\ owned' = owned
    BY <1>7 DEF Way!create_unit, Way!Edits, Way!Free
  <2>2. place \in Nat /\ u \in OnPath
    BY DEF Way!Places, OnPath
  <2>3. IsFiniteSet(DOMAIN units')
    BY <1>2, <2>1, FS_AddElement DEF Ordered
  <2>4. Ordered(units')
    BY <1>2, <2>1, <2>2, <2>3 DEF Ordered
  <2> QED BY <1>1, <2>1, <2>2, <2>4 DEF Way!TypeOK, Ordered, OnPath
<1>8. ASSUME NEW u, NEW place \in Way!Places, Way!update_unit(u, place)
      PROVE  (Way!TypeOK /\ Ordered(units))'
  <2>1. /\ units' = [units EXCEPT ![u] = place] /\ DOMAIN units' = DOMAIN units
        /\ u \in DOMAIN units /\ \A v \in DOMAIN units : units[v] # place
        /\ bound' = bound /\ completed' = completed /\ owned' = owned
    BY <1>8 DEF Way!update_unit, Way!Edits, Way!Free
  <2>2. place \in Nat
    BY DEF Way!Places
  <2>3. Ordered(units')
    BY <1>2, <2>1, <2>2 DEF Ordered
  <2> QED BY <1>1, <2>1, <2>3 DEF Way!TypeOK, Ordered, OnPath
<1>9. ASSUME NEW u, Way!delete_unit(u)
      PROVE  (Way!TypeOK /\ Ordered(units))'
  <2>1. /\ units' = Way!Only(units, DOMAIN units \ {u}) /\ DOMAIN units' = DOMAIN units \ {u}
        /\ \A v \in DOMAIN units' : units'[v] = units[v]
        /\ bound' = [code \in DOMAIN bound |-> IF bound[code] = u THEN Absent ELSE bound[code]]
        /\ completed' = completed \ {u} /\ owned' = owned
    BY <1>9 DEF Way!delete_unit, Way!Edits, Way!Only
  <2>2. IsFiniteSet(DOMAIN units')
    BY <1>2, <2>1, FS_Subset DEF Ordered
  <2>3. Ordered(units')
    BY <1>2, <2>1, <2>2 DEF Ordered
  <2> QED BY <1>1, <2>1, <2>3 DEF Way!TypeOK, Ordered, OnPath
<1>10. ASSUME Way!UpsertUltimate PROVE (Way!TypeOK /\ Ordered(units))'
  <2> DEFINE unit == starting.ids[starting.next]
             code == Guards[starting.next]
  <2>1. /\ units' = units /\ completed' = completed /\ owned' = owned
        /\ \/ bound' = bound
           \/ /\ unit \in DOMAIN units
              /\ bound' = [c \in DOMAIN bound \cup {code} |-> IF c = code THEN unit ELSE bound[c]]
    BY <1>10 DEF Way!UpsertUltimate
  <2>2. starting \in Starts /\ starting.next <= Len(starting.ids)
    BY <1>3, <1>10 DEF Way!UpsertUltimate
  <2>3. starting.next \in DOMAIN Guards
    BY <2>2, LinesGiven DEF Line, Starts
  <2>4. code \in Way!Range(Guards)
    BY <2>3 DEF Way!Range
  <2> HIDE DEF unit, code
  <2> QED BY <1>1, <1>2, <2>1, <2>4 DEF Way!TypeOK, Ordered, OnPath
<1>11. ASSUME NEW u, Way!Complete(u) PROVE (Way!TypeOK /\ Ordered(units))'
  BY <1>1, <1>2, <1>11 DEF Way!Complete, Way!TypeOK, Ordered, OnPath
<1>12. ASSUME NEW code, Way!unlock_skill(code) PROVE (Way!TypeOK /\ Ordered(units))'
  BY <1>1, <1>2, <1>12 DEF Way!unlock_skill, Way!TypeOK, Ordered, OnPath
<1>13. ASSUME NEW doing, \/ Way!Read(doing) \/ Way!Shift \/ Way!Die \/ Way!Start \/ Way!Started
                         \/ Way!Crash \/ UNCHANGED Way!vars
       PROVE  (Way!TypeOK /\ Ordered(units))'
  <2>1. units' = units /\ bound' = bound /\ completed' = completed /\ owned' = owned
    BY <1>13 DEF Way!Read, Way!Shift, Way!Die, Way!Start, Way!Started, Way!Crash, Way!vars
  <2> QED BY <1>1, <1>2, <2>1 DEF Way!TypeOK, Ordered, OnPath
<1>14. (Way!TypeOK /\ Ordered(units))'
  BY <1>6, <1>7, <1>8, <1>9, <1>10, <1>11, <1>12, <1>13 DEF Way!Next
<1> QED BY <1>4, <1>5, <1>14 DEF PathTyped

\* A script nobody has overtaken leaves the admin's order, with the deck woven
\* in or without it.
LEMMA CalmRows ==
  ASSUME PathInv, script # Absent, script.calm
  PROVE  /\ script.doing = "import" => Way!Renumbered = Way!Numbered(Way!interleave(admin, Deck))
         /\ script.doing # "import" => Way!Renumbered = Way!Numbered(admin)
<1>1. /\ Ordered(units) /\ script.existing = Way!Path /\ admin = Way!Without(Way!Path, Way!Vocab)
      /\ script.doing = "import" <=> Way!Vocab \cap DOMAIN units = {}
  BY DEF PathInv, PathTyped, WovenInv
<1>2. Line(Way!Path) /\ Way!Range(Way!Path) = DOMAIN units
  BY <1>1, FirstsIs
<1>3. Line(admin) /\ Way!Range(admin) = DOMAIN units \ Way!Vocab
  BY <1>1, LeftIs DEF Way!Path
<1>4. ASSUME script.doing = "import"
      PROVE  Way!Renumbered = Way!Numbered(Way!interleave(admin, Deck))
  <2> DEFINE path == Way!interleave(admin, Deck)
  <2>1. Way!Vocab \cap Way!Range(Way!Path) = {}
    BY <1>1, <1>2, <1>4
  <2>2. admin = Way!Path
    BY <1>1, <1>2, <2>1, WholeIs
  <2>3. Way!Range(admin) \cap Way!Range(Deck) = {} /\ Line(Deck) /\ Way!Range(Deck) = Way!Vocab
    BY <1>3, LinesGiven
  <2>4. Way!Range(path) = DOMAIN units \cup Way!Vocab
    BY <1>2, <1>3, <2>2, <2>3, WovenIs
  <2>5. path = Way!interleave(script.existing, Deck)
    BY <1>1, <2>2
  <2> HIDE DEF path
  <2>6. Way!Renumbered = [u \in DOMAIN units \cup Way!Vocab |-> Way!Numbered(path)[u]]
    BY <1>4, <2>4, <2>5 DEF Way!Renumbered
  <2>7. Way!Numbered(path) = [u \in DOMAIN units \cup Way!Vocab |-> Way!Numbered(path)[u]]
    BY <2>4 DEF Way!Numbered
  <2> QED BY <2>6, <2>7 DEF path
<1>5. ASSUME script.doing # "import"
      PROVE  Way!Renumbered = Way!Numbered(admin)
  <2> DEFINE vocab == Way!Vocab \cap Way!Range(script.existing)
  <2>1. Way!Range(Way!Path) \ vocab = Way!Range(Way!Path) \ Way!Vocab
    BY <1>1
  <2>2. Way!Without(script.existing, vocab) = admin
    BY <1>1, <2>1 DEF Way!Without
  <2>3. DOMAIN units \ vocab = Way!Range(admin)
    BY <1>1, <1>2, <1>3
  <2> HIDE DEF vocab
  <2>4. Way!Renumbered = [u \in Way!Range(admin) |-> Way!Numbered(admin)[u]]
    BY <1>5, <2>2, <2>3 DEF Way!Renumbered, vocab
  <2>5. Way!Numbered(admin) = [u \in Way!Range(admin) |-> Way!Numbered(admin)[u]]
    BY DEF Way!Numbered
  <2> QED BY <2>4, <2>5
<1> QED BY <1>4, <1>5

\* Either way, what is not the deck's is as the admin ordered it.
LEMMA CalmPath ==
  ASSUME NEW s, Line(s), Way!Range(s) \cap Way!Vocab = {},
         NEW m, m \in {Way!Numbered(s), Way!Numbered(Way!interleave(s, Deck))}
  PROVE  /\ Way!Without(Way!InOrder(m), Way!Vocab) = s
         /\ Way!InOrder(m) \in {s, Way!interleave(s, Deck)}
         /\ Way!Numbered(Way!InOrder(m)) = m
<1> DEFINE w == Way!interleave(s, Deck)
<1>1. Line(Deck) /\ Way!Range(Deck) = Way!Vocab
  BY LinesGiven
<1>2. Line(w) /\ Way!Without(w, Way!Vocab) = s
  BY <1>1, WovenIs
<1>3. Way!Without(s, Way!Vocab) = s
  <2>1. Way!Vocab \cap Way!Range(s) = {}
    OBVIOUS
  <2> QED BY <2>1, WholeIs
<1> HIDE DEF w
<1>4. Way!InOrder(Way!Numbered(s)) = s /\ Way!InOrder(Way!Numbered(w)) = w
  BY <1>2, NumberedIs
<1>5. CASE m = Way!Numbered(s)
  BY <1>3, <1>4, <1>5
<1>6. CASE m = Way!Numbered(w)
  BY <1>2, <1>4, <1>6 DEF w
<1> QED BY <1>5, <1>6 DEF w

(* The deck and the admin's order.                                          *)
LEMMA WovenStep ==
  ASSUME PathInv, [Way!Next]_(Way!vars)
  PROVE  WovenInv'
<1>1. /\ Ordered(units) /\ WovenInv
      /\ script # Absent => script \in Runs
  BY DEF PathInv, PathTyped
<1>2. ASSUME NEW doing \in {"import", "remove"}, Way!Read(doing) PROVE WovenInv'
  <2>1. /\ units' = units /\ calm' = calm /\ admin' = admin
        /\ script'.existing = Way!Path /\ script'.doing = doing
        /\ doing = "import" <=> Way!Vocab \cap DOMAIN units = {}
    BY <1>2 DEF Way!Read, Way!Path
  <2> QED BY <1>1, <2>1 DEF WovenInv, Way!Path
<1>3. ASSUME Way!Shift PROVE WovenInv'
  <2>1. /\ units' = units /\ calm' = calm /\ admin' = admin /\ script # Absent
        /\ script' = [script EXCEPT !.at = "shifted", !.moved = DOMAIN units]
    BY <1>3 DEF Way!Shift
  <2>2. script'.existing = script.existing /\ script'.calm = script.calm /\ script'.doing = script.doing
    BY <1>1, <2>1 DEF Runs
  <2> QED BY <1>1, <2>1, <2>2 DEF WovenInv, Way!Path
<1>4. ASSUME Way!Commit, ~(units' = units /\ calm' = calm /\ admin' = admin) PROVE WovenInv'
  <2> DEFINE rows == Way!Renumbered
  <2>1. /\ script # Absent /\ script' = Absent /\ units' = rows /\ calm' = script.calm
        /\ admin' = IF script.calm THEN admin ELSE Way!Without(Way!InOrder(rows), Way!Vocab)
    BY <1>4 DEF Way!Commit
  <2>2. CASE script.calm
    <3>1. Line(admin) /\ Way!Range(admin) \cap Way!Vocab = {}
      BY <1>1, LeftIs DEF WovenInv, Way!Path
    <3>2. rows \in {Way!Numbered(admin), Way!Numbered(Way!interleave(admin, Deck))}
      BY <2>1, <2>2, CalmRows
    <3> HIDE DEF rows
    <3>3. Way!Without(Way!InOrder(rows), Way!Vocab) = admin
      BY <3>1, <3>2, CalmPath
    <3> QED BY <2>1, <2>2, <3>2, <3>3 DEF WovenInv, Way!Path
  <2>3. CASE ~script.calm
    <3> HIDE DEF rows
    <3> QED BY <2>1, <2>3 DEF WovenInv, Way!Path
  <2> QED BY <2>2, <2>3
<1>5. ASSUME NEW rows, Way!Edits(rows) PROVE WovenInv'
  <2>1. /\ units' = rows /\ calm' = FALSE /\ admin' = Way!Without(Way!InOrder(rows), Way!Vocab)
        /\ script' = IF script = Absent THEN Absent ELSE [script EXCEPT !.calm = FALSE]
    BY <1>5 DEF Way!Edits
  <2>2. script' # Absent => ~script'.calm
    BY <1>1, <2>1 DEF Runs
  <2> QED BY <2>1, <2>2 DEF WovenInv, Way!Path
<1>6. ASSUME NEW u, NEW place,
             Way!create_unit(u, place) \/ Way!update_unit(u, place) \/ Way!delete_unit(u)
      PROVE  WovenInv'
  BY <1>5, <1>6 DEF Way!create_unit, Way!update_unit, Way!delete_unit
<1>7. ASSUME units' = units /\ calm' = calm /\ admin' = admin /\ script' \in {script, Absent}
      PROVE  WovenInv'
  BY <1>1, <1>7 DEF WovenInv, Way!Path
<1>8. ASSUME Way!Commit \/ Way!Die PROVE script' = Absent
  BY <1>8 DEF Way!Commit, Way!Die
<1>9. ASSUME Way!Die PROVE units' = units /\ calm' = calm /\ admin' = admin
  BY <1>9 DEF Way!Die
<1>10. ASSUME NEW u, Way!Complete(u) \/ Way!unlock_skill(u) \/ Way!Start \/ Way!UpsertUltimate
                      \/ Way!Started \/ Way!Crash \/ UNCHANGED Way!vars
       PROVE  units' = units /\ calm' = calm /\ admin' = admin /\ script' = script
  BY <1>10 DEF Way!Complete, Way!unlock_skill, Way!Start, Way!UpsertUltimate, Way!Started, Way!Crash,
               Way!vars
<1> QED BY <1>2, <1>3, <1>4, <1>6, <1>7, <1>8, <1>9, <1>10 DEF Way!Next

\* A start-up under way is one.
LEMMA StartsAre == \A start \in Starts : start # Absent
<1>1. Starts \subseteq [ids : Seq(Way!Range(Opening) \cup Way!Range(Deck) \cup Extra), next : Nat]
  BY DEF Starts, OnPath, Way!Vocab
<1>2. Absent \notin [ids : Seq(Way!Range(Opening) \cup Way!Range(Deck) \cup Extra), next : Nat]
  BY AccountsAssumption DEF Way!LearnPathAssumption
<1> QED BY <1>1, <1>2

(* The opening's guards.                                                    *)
LEMMA GuardedStep ==
  ASSUME PathInv, [Way!Next]_(Way!vars)
  PROVE  GuardedInv'
<1>1. /\ Ordered(units) /\ GuardedInv
      /\ starting # Absent => starting \in Starts
  BY DEF PathInv, PathTyped
<1>2. /\ Firsts \in Seq(DOMAIN units) /\ Len(Firsts) \in Nat /\ Len(Firsts) <= Len(Guards)
      /\ DOMAIN Guards = 1..Len(Guards) /\ Len(Guards) \in Nat
  BY <1>1, FirstsIs, LinesGiven DEF Line
<1>3. ASSUME units' = units PROVE Firsts' = Firsts
  BY <1>3 DEF Firsts, Way!first_unit_ids, Way!InOrder
<1>4. ASSUME Way!Start PROVE GuardedInv'
  <2>1. units' = units /\ bound' = bound /\ starting' = [ids |-> Firsts, next |-> 1]
    BY <1>4 DEF Way!Start, Firsts
  <2>2. starting' # Absent
    <3>1. Firsts \in Seq(OnPath)
      <4>1. DOMAIN units \subseteq OnPath
        BY DEF PathInv, PathTyped, Way!TypeOK, OnPath
      <4>2. \A U, V, s : s \in Seq(U) /\ U \subseteq V => s \in Seq(V)
        OBVIOUS
      <4> QED BY ONLY <1>2, <4>1, <4>2
    <3>2. starting' \in Starts
      BY <1>2, <2>1, <3>1 DEF Starts
    <3> QED BY <3>2, StartsAre
  <2>3. starting'.ids = Firsts' /\ starting'.next = 1 /\ 1 <= Len(Firsts') + 1
    BY <1>2, <1>3, <2>1
  <2>4. BoundUpTo(0)'
    BY DEF BoundUpTo
  <2>5. starting'.next - 1 = 0
    BY <2>3
  <2> QED BY <2>2, <2>3, <2>4, <2>5 DEF GuardedInv
<1>5. ASSUME Way!UpsertUltimate, guarded' PROVE GuardedInv'
  <2> DEFINE next == starting.next
             unit == starting.ids[next]
             code == Guards[next]
  <2>1. /\ starting # Absent /\ starting.next <= Len(starting.ids) /\ units' = units /\ guarded' = guarded
        /\ starting' = [starting EXCEPT !.next = @ + 1]
        /\ bound' = [c \in DOMAIN bound \cup {code} |-> IF c = code THEN unit ELSE bound[c]]
    BY <1>5 DEF Way!UpsertUltimate
  <2>2. /\ starting \in Starts /\ starting.ids = Firsts /\ BoundUpTo(starting.next - 1)
    BY <1>1, <1>5, <2>1 DEF GuardedInv
  <2>3. /\ next \in Nat \ {0} /\ next <= Len(Firsts)
        /\ starting'.ids = Firsts /\ starting'.next = next + 1 /\ starting' \in Starts
    BY <2>1, <2>2 DEF Starts
  <2>4. unit = Firsts[next]
    BY <2>2
  <2>5. ASSUME NEW n \in 1..next
        PROVE  Guards[n] \in DOMAIN bound' /\ bound'[Guards[n]] = Firsts[n]
    <3> HIDE DEF next
    <3>1. n \in DOMAIN Guards /\ next \in DOMAIN Guards /\ (n = next \/ n \in 1..(next - 1))
      BY <1>2, <2>3
    <3>2. n # next => Guards[n] # code
      BY <3>1, LinesGiven DEF Line
    <3>3. n # next => Guards[n] \in DOMAIN bound /\ bound[Guards[n]] = Firsts[n]
      BY <2>2, <3>1 DEF BoundUpTo, next
    <3> HIDE DEF code, unit
    <3>4. CASE n # next
      BY <2>1, <3>2, <3>3, <3>4
    <3>5. CASE n = next
      BY <2>1, <2>4, <3>5 DEF code
    <3> QED BY <3>4, <3>5
  <2> HIDE DEF next
  <2>6. \A n \in 1..next : Guards[n] \in DOMAIN bound' /\ bound'[Guards[n]] = Firsts'[n]
    BY <1>3, <2>1, <2>5
  <2>7. starting' # Absent
    BY <2>3, StartsAre
  <2>8. starting'.ids = Firsts' /\ starting'.next <= Len(Firsts') + 1 /\ starting'.next - 1 = next
    BY <1>2, <1>3, <2>1, <2>3
  <2>9. BoundUpTo(starting.next - 1)'
    BY <2>6, <2>8 DEF BoundUpTo
  <2> QED BY <2>7, <2>8, <2>9 DEF GuardedInv
<1>6. ASSUME Way!Started PROVE GuardedInv'
  <2>1. /\ starting # Absent /\ starting.next > Len(starting.ids) /\ starting' = Absent
        /\ units' = units /\ bound' = bound /\ guarded' = guarded
    BY <1>6 DEF Way!Started
  <2>2. ASSUME guarded PROVE BoundUpTo(Len(Firsts))
    <3>1. /\ starting \in Starts /\ starting.ids = Firsts /\ starting.next <= Len(Firsts) + 1
          /\ BoundUpTo(starting.next - 1)
      BY <1>1, <2>1, <2>2 DEF GuardedInv
    <3>2. starting.next \in Nat
      BY <3>1 DEF Starts
    <3>3. starting.next - 1 = Len(Firsts)
      BY <1>2, <2>1, <3>1, <3>2
    <3> QED BY <3>1, <3>3
  <2>3. guarded => BoundUpTo(Len(Firsts))'
    BY <1>3, <2>1, <2>2 DEF BoundUpTo
  <2> QED BY <2>1, <2>3 DEF GuardedInv
<1>7. ASSUME ~guarded' PROVE GuardedInv'
  BY <1>7 DEF GuardedInv
<1>8. ASSUME units' = units, bound' = bound, starting' = starting, guarded' = guarded
      PROVE  GuardedInv'
  BY <1>1, <1>3, <1>8 DEF GuardedInv, BoundUpTo
<1>9. ASSUME NEW u, NEW place,
             Way!create_unit(u, place) \/ Way!update_unit(u, place) \/ Way!delete_unit(u) \/ Way!Crash
      PROVE  ~guarded'
  BY <1>9 DEF Way!create_unit, Way!update_unit, Way!delete_unit, Way!Edits, Way!Crash
<1>10. ASSUME Way!Commit
       PROVE  ~guarded' \/ (units' = units /\ bound' = bound /\ starting' = starting /\ guarded' = guarded)
  BY <1>10 DEF Way!Commit
<1>11. ASSUME NEW u, \/ Way!Read(u) \/ Way!Shift \/ Way!Die \/ Way!Complete(u) \/ Way!unlock_skill(u)
                     \/ UNCHANGED Way!vars
       PROVE  units' = units /\ bound' = bound /\ starting' = starting /\ guarded' = guarded
  BY <1>11 DEF Way!Read, Way!Shift, Way!Die, Way!Complete, Way!unlock_skill, Way!vars
<1> QED BY <1>4, <1>5, <1>6, <1>7, <1>8, <1>9, <1>10, <1>11 DEF Way!Next

LEMMA PathStep ==
  ASSUME PathInv, [Way!Next]_(Way!vars)
  PROVE  PathInv'
  BY PathTypes, WovenStep, GuardedStep DEF PathInv

(* What follows from it.                                                    *)
LEMMA PathHolds ==
  ASSUME PathInv
  PROVE  Way!TypeOK /\ Way!DeckIsWoven /\ Way!OpeningIsGuarded
<1>1. Ordered(units) /\ WovenInv /\ GuardedInv /\ Way!TypeOK
  BY DEF PathInv, PathTyped
<1>2. /\ Line(Way!Path) /\ Way!Range(Way!Path) = DOMAIN units /\ Len(Way!Path) \in Nat
      /\ Len(Firsts) = Way!Min({Len(Guards), Len(Way!Path)})
      /\ \A n \in 1..Len(Firsts) : Firsts[n] = Way!Path[n]
  BY <1>1, FirstsIs
<1>3. ASSUME calm
      PROVE  /\ Way!Without(Way!Path, Way!Vocab) = admin
             /\ Way!Without(Way!Path, Way!Range(admin)) \in {Deck, << >>}
             /\ Way!Vocab \cap DOMAIN units # {} =>
                  \A n \in 1..(2 * Way!Min({Len(admin), Len(Deck)})) :
                    Way!Path[n] \in Way!Vocab <=> n % 2 = 0
             /\ units = Way!Numbered(Way!Path)
  <2> DEFINE w == Way!interleave(admin, Deck)
  <2>1. Line(admin) /\ Way!Range(admin) \cap Way!Vocab = {}
    BY <1>1, LeftIs DEF WovenInv, Way!Path
  <2>2. units \in {Way!Numbered(admin), Way!Numbered(w)}
    BY <1>1, <1>3 DEF WovenInv
  <2>3. Way!Path \in {admin, w} /\ Way!Numbered(Way!Path) = units
    BY <2>1, <2>2, CalmPath DEF Way!Path
  <2>4. Line(Deck) /\ Way!Range(Deck) = Way!Vocab
    BY LinesGiven
  <2>5. /\ Way!Without(w, Way!Range(admin)) = Deck
        /\ \A n \in 1..(2 * Way!Min({Len(admin), Len(Deck)})) : w[n] \in Way!Vocab <=> n % 2 = 0
    <3>1. Way!Range(admin) \cap Way!Range(Deck) = {}
      BY <2>1, <2>4
    <3> QED BY <2>1, <2>4, <3>1, WovenIs DEF Both
  <2>6. Way!Without(admin, Way!Range(admin)) = << >>
    BY <2>1, WholeIs
  <2> HIDE DEF w
  <2>7. Way!Without(Way!Path, Way!Vocab) = admin
    BY <1>1 DEF WovenInv
  <2>8. CASE Way!Path = admin
    <3>1. Way!Vocab \cap DOMAIN units = {}
      BY <1>2, <2>1, <2>8
    <3> QED BY <2>3, <2>6, <2>7, <2>8, <3>1
  <2>9. CASE Way!Path = w
    BY <2>3, <2>5, <2>7, <2>9
  <2> QED BY <2>3, <2>8, <2>9
<1>4. Way!DeckIsWoven
  BY <1>3 DEF Way!DeckIsWoven
<1>5. ASSUME guarded, starting = Absent,
             NEW n \in 1..Way!Min({Len(Guards), Len(Way!Path)})
      PROVE  Guards[n] \in DOMAIN bound /\ bound[Guards[n]] = Way!Path[n]
  <2>1. BoundUpTo(Len(Firsts)) /\ n \in 1..Len(Firsts)
    BY <1>1, <1>2, <1>5 DEF GuardedInv
  <2> QED BY <1>2, <2>1 DEF BoundUpTo
<1>6. Way!OpeningIsGuarded
  BY <1>5 DEF Way!OpeningIsGuarded
<1> QED BY <1>1, <1>4, <1>6

-----------------------------------------------------------------------------
(* Side by side.                                                            *)

\* What holds of every service.
SideInv == /\ SessionInv /\ PictureInv /\ PushInv /\ OptionsInv
           /\ QuizInv /\ Limits!KeyTypeOK /\ Limits!SocketTypeOK /\ PacedInv /\ CountedInv
           /\ PathInv

LEMMA SideStart ==
  ASSUME AccountsInit
  PROVE  SideInv
  BY SessionStart, PictureStart, PushStart, OptionsStart, QuizStart, LimitsStart, PacedStart,
     CountedStart, PathStart
     DEF AccountsInit, SideInv

LEMMA SideStep ==
  ASSUME SideInv, [AccountsNext]_<<subject, vars, pictures_vars, pushes_vars, admin_vars, quiz_vars,
                                   rest_vars>>
  PROVE  SideInv'
<1>1. [Next]_vars
  BY DEF AccountsNext
<1>2. [Pictures!Next]_(Pictures!vars)
  BY DEF AccountsNext, pictures_vars, Pictures!vars
<1>3. [Pushes!Next]_(Pushes!vars)
  BY DEF AccountsNext, pushes_vars, Pushes!vars, Pushes!day
<1>4. [Admin!Next]_(Admin!vars)
  BY DEF AccountsNext, admin_vars, Admin!vars
<1>5. [Quiz!Next]_(Quiz!vars)
  BY DEF AccountsNext, quiz_vars, Quiz!vars
<1>6. [Limits!KeyNext]_(Limits!key_vars)
  BY DEF AccountsNext, rest_vars, limiter_vars, Limits!key_vars
<1>7. [Limits!SocketNext]_(Limits!socket_vars)
  BY DEF AccountsNext, rest_vars, throttle_vars, Limits!socket_vars
<1>8. [Way!Next]_(Way!vars)
  BY DEF AccountsNext, rest_vars, path_vars, Way!vars
<1> QED BY <1>1, <1>2, <1>3, <1>4, <1>5, <1>6, <1>7, <1>8, SessionStep, PictureStep, PushStep,
           OptionsStep, QuizStep, KeyStep, SocketTypes, PacedStep, CountedStep, PathStep DEF SideInv

LEMMA SideBySide == AccountsSpec => []SideInv
  BY SideStart, SideStep, PTL DEF AccountsSpec

(* However many requests present it at once, and whatever logs out or       *)
(* resets the password meanwhile, a refresh token gets one successor        *)
(* (get_refresh_token_by_hash's for_update).                                *)
THEOREM ExchangedOnceHolds == AccountsSpec => []ExchangedOnce
<1>1. SideInv => ExchangedOnce
  BY DEF SideInv, SessionInv, Chain, ExchangedOnce
<1> QED BY <1>1, SideBySide, PTL

(* Whatever order two requests upload, replace and delete in, and whichever *)
(* of them fails, the file the profile names is in the store                *)
(* (change_avatar_image).                                                   *)
THEOREM AvatarHolds == AccountsSpec => []AvatarIsStored
<1>1. SideInv => AvatarIsStored
  BY DEF SideInv, PictureInv, AvatarIsStored
<1> QED BY <1>1, SideBySide, PTL

(* However many processes sweep, in whatever order, and whichever of them   *)
(* dies, nobody gets one occasion twice, and no live device is switched off *)
(* (NotificationRepository.claim, deactivate).                              *)
THEOREM SentOnceHolds == AccountsSpec => []SentOnce
<1>1. SideInv => SentOnce
  BY DEF SideInv, PushInv, SentOnce
<1> QED BY <1>1, SideBySide, PTL

(* Every service keeps its state in its types.                              *)
THEOREM TypesHold == AccountsSpec => []TypesOK
<1>1. SideInv => TypesOK
  <2>1. SideInv => Way!TypeOK
    BY PathHolds DEF SideInv
  <2> QED BY <2>1 DEF SideInv, SessionInv, PictureInv, PushInv, OptionsInv, QuizInv, TypesOK
<1> QED BY <1>1, SideBySide, PTL

(* However the admin's edits overlap, the options of a challenge are shown  *)
(* in one order only; and as long as no edit was committed while another    *)
(* was under way, a challenge keeps two options and the correct ones its    *)
(* type needs (`_validate_correct_flags', the unique order_index).          *)
(* Whatever the bank holds, a quiz is as full as the bank allows although   *)
(* only a part of it is read (`_draw_questions', `draw_for_benchmark'),     *)
(* every round of a fight or an exam can be won, the battle engine and the  *)
(* study path give one verdict (`_is_correct', `grade_challenge'), and      *)
(* tiles are shown without their order (`to_public_challenge').             *)
THEOREM ContentAlwaysAskable == AccountsSpec => []ContentIsAskable
<1>1. SideInv => ContentIsAskable
  <2>1. SideInv => Admin!OneOrder /\ Admin!AskableUnlessRaced
    BY DEF SideInv, OptionsInv, Admin!AskableUnlessRaced
  <2> QED BY <2>1, QuizHolds DEF SideInv, ContentIsAskable
<1> QED BY <1>1, SideBySide, PTL

(* However the hits of a key fall, whichever of them are refused and        *)
(* whenever its entry is pruned, no window takes more than the limit, no    *)
(* stretch of its length twice the limit, and Retry-After is the first      *)
(* second that lets a refused caller in (SlidingWindowLimiter); and no      *)
(* stretch of time lets through more frames of a socket than the burst and  *)
(* what the rate adds over it (TokenBucket).                                *)
THEOREM LimitsAlwaysHold == AccountsSpec => []LimitsHold
<1>1. SideInv => LimitsHold
  <2>1. SideInv => Limits!RetryIsExact /\ Limits!WithinLimits
    BY CountedHolds DEF SideInv
  <2>2. SideInv => Limits!FramesArePaced
    BY DEF SideInv, PacedInv
  <2> QED BY <2>1, <2>2 DEF LimitsHold
<1> QED BY <1>1, SideBySide, PTL

(* Whatever an admin has made of the path before and wherever a script or   *)
(* a start-up dies, from the commit of a script that no edit has overtaken  *)
(* until the next edit the deck is on the path whole, every second unit     *)
(* from the first on, or not at all, and what is not the deck's is in the   *)
(* admin's order without a gap (`interleave', `_renumber'); and once a     *)
(* start-up has gone through, the opening units guard one ultimate each, in *)
(* order, until the path moves (`seed_game_catalog').                       *)
THEOREM PathAlwaysKept == AccountsSpec => []PathIsKept
<1>1. SideInv => PathIsKept
  BY PathHolds DEF SideInv, PathIsKept
<1> QED BY <1>1, SideBySide, PTL

(* Whatever is read, spent and given back in between, and however far the   *)
(* clock that wrote the bar ran ahead, the bar computed on reading          *)
(* (`regenerate') is the one that refills by the clock, and the time        *)
(* promised for the next point (`next_regen_at') is the first that brings   *)
(* it.                                                                      *)
THEOREM LazyAlwaysEager == AccountsSpec => LazyIsEager
<1>1. AccountsInit => Energy!TypeOK /\ Energy!Eager!Init
  BY EagerStart DEF AccountsInit
<1>2. Energy!TypeOK /\ [AccountsNext]_<<subject, vars, pictures_vars, pushes_vars, admin_vars,
                                         quiz_vars, rest_vars>>
        => Energy!TypeOK' /\ [Energy!Eager!Next]_<<Energy!Read.energy, Waited>>
  <2> SUFFICES ASSUME Energy!TypeOK,
                      [AccountsNext]_<<subject, vars, pictures_vars, pushes_vars, admin_vars,
                                       quiz_vars, rest_vars>>
               PROVE  Energy!TypeOK' /\ [Energy!Eager!Next]_<<Energy!Read.energy, Waited>>
    OBVIOUS
  <2>1. [Energy!Next]_(Energy!vars)
    BY DEF AccountsNext, rest_vars, energy_vars, Energy!vars
  <2> QED BY <2>1, EagerStep
<1>3. Energy!TypeOK => Energy!PromiseIsKept
  BY PromiseKept
<1> QED BY <1>1, <1>2, <1>3, PTL DEF AccountsSpec, LazyIsEager, Energy!LazyIsEager,
           Energy!Eager!Spec, Waited

=============================================================================
