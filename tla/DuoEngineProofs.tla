-------------------------- MODULE DuoEngineProofs --------------------------
(***************************************************************************)
(* Theorems about DuoEngine, for every number of users, sockets, matches   *)
(* and tasks, any ownership of sockets and any number of crashes:          *)
(* types; who sits where (LobbyInv); rewards paid once (PayInv); and, with *)
(* clients that start a lobby once, energy (StartInv), absence (WatchInv)  *)
(* and what becomes of the energy and the row (SettleInv).                 *)
(***************************************************************************)
EXTENDS DuoEngine, FiniteSetTheorems, TLAPS

\* Between points where a task rests with nothing to do, it works on a match.
Unbound == {"closed", "greeting", "open", "failed", "idle"}
Working == {j \in Job : j.at \notin Unbound => j.on \in Matches}

TypeInv == TypeOK /\ job \in [Tasks -> Working]

-----------------------------------------------------------------------------
(* The records tasks rest with are well typed.                              *)
Thens == {"closed", "open", "idle", "lost"}

LEMMA AtTyped ==
  ASSUME NEW p \in Points, NEW m \in Matches, NEW n \in Thens
  PROVE  At(p, m, n) \in Working
  BY DEF At, Working, Job, Thens

LEMMA AtTypedLeft ==
  ASSUME NEW p \in Points, NEW m \in Matches, NEW n \in Thens, NEW L \in SUBSET Users
  PROVE  [At(p, m, n) EXCEPT !.left = L] \in Working
  BY DEF At, Working, Job, Thens

LEMMA RestTyped == \A t : Rest(t) \in Working
  BY DEF Rest, At, Working, Job, Points, Unbound

LEMMA OpenTyped == Open \in Working
  BY DEF Open, At, Working, Job, Points, Unbound

LEMMA AfterTyped == \A t : After(t) \in Working
  BY RestTyped, OpenTyped DEF After

LEMMA StoppedTyped ==
  ASSUME TypeInv, NEW S
  PROVE  Stopped(S) \in [Tasks -> Working]
  BY RestTyped DEF Stopped, TypeInv, Working, Job

LEMMA BlankTyped ==
  ASSUME NEW st \in MatchStatus PROVE Blank(st) \in LiveMatch
  BY DEF Blank, LiveMatch, NoOne

LEMMA InitTyped == Init => TypeInv
  <1> SUFFICES ASSUME Init PROVE TypeInv
    OBVIOUS
  <1>1. RegistryTypeOK BY DEF Init, RegistryInit, RegistryTypeOK
  <1>2. match \in [Matches -> LiveMatch] BY BlankTyped DEF Init, MatchStatus
  <1>3. job \in [Tasks -> Working] BY RestTyped DEF Init
  <1>4. row \in [Matches -> RowStatus] BY DEF Init, RowStatus
  <1>5. charged \in [Matches -> [Users -> Nat]] /\ refunded \in [Matches -> [Users -> Nat]] BY DEF Init, Nothing
  <1>6. crashes \in 0..MaxCrashes /\ dbErrors \in 0..MaxDbErrors BY BoundAssumption DEF Init
  <1> QED BY <1>1, <1>2, <1>3, <1>4, <1>5, <1>6 DEF TypeInv, TypeOK, Init, Working

LEMMA MoveTyped ==
  ASSUME TypeInv, NEW t \in Tasks, NEW j \in Working, Move(t, j)
  PROVE  job' \in [Tasks -> Working]
  BY DEF Move, TypeInv

\* A step that leaves registry, database and process alone is typed if its
\* matches and tasks are.
LEMMA MemoryTyped ==
  ASSUME TypeInv, job' \in [Tasks -> Working], match' \in [Matches -> LiveMatch],
         UNCHANGED registryVars, MemoryOnly
  PROVE  TypeInv'
  BY DEF TypeInv, TypeOK, Working, MemoryOnly, dbVars, procVars, registryVars, RegistryTypeOK

LEMMA TasksTyped ==
  ASSUME TypeInv, job' \in [Tasks -> Working], TasksOnly
  PROVE  TypeInv'
  BY DEF TypeInv, TypeOK, Working, TasksOnly, dbVars, procVars, registryVars, RegistryTypeOK

LEMMA FinishTyped ==
  ASSUME TypeInv, NEW t \in Tasks, NEW m \in Matches, NEW n \in Thens, Finish(t, m, n)
  PROVE  TypeInv'
  <1>1. job' \in [Tasks -> Working]
    <2> DEFINE S == LoopOf(m, t) \cup TimersOf(m, t)
    <2>1. Stopped(S) \in [Tasks -> Working] BY StoppedTyped
    <2>2. At(IF match[m].persisted THEN "claiming" ELSE "teardown", m, n) \in Working
      BY AtTyped DEF Points
    <2> QED BY <2>1, <2>2 DEF Finish
  <1>2. match' \in [Matches -> LiveMatch]
    <2>1. match[m] \in LiveMatch BY DEF TypeInv, TypeOK
    <2>2. [match[m] EXCEPT !.status = "FINISHED", !.task = IF @ = t THEN t ELSE None,
                           !.grace = NoOne] \in LiveMatch
      BY <2>1 DEF LiveMatch, MatchStatus, NoOne
    <2> QED BY <2>2 DEF Finish, TypeInv, TypeOK
  <1> QED BY <1>1, <1>2, MemoryTyped DEF Finish

LEMMA CancelRoomTyped ==
  ASSUME TypeInv, NEW t \in Tasks, NEW m \in Matches, NEW n \in Thens, CancelRoom(t, m, n)
  PROVE  TypeInv'
  <1>1. job' \in [Tasks -> Working]
    <2>1. Stopped(LoopOf(m, t)) \in [Tasks -> Working] BY StoppedTyped
    <2>2. At(IF match[m].persisted THEN "unsaving" ELSE "teardown", m, n) \in Working
      BY AtTyped DEF Points
    <2> QED BY <2>1, <2>2 DEF CancelRoom
  <1>2. match' \in [Matches -> LiveMatch]
    <2>1. match[m] \in LiveMatch BY DEF TypeInv, TypeOK
    <2>2. [match[m] EXCEPT !.status = "CANCELLED", !.task = IF @ = t THEN t ELSE None]
            \in LiveMatch
      BY <2>1 DEF LiveMatch, MatchStatus
    <2> QED BY <2>2 DEF CancelRoom, TypeInv, TypeOK
  <1> QED BY <1>1, <1>2, MemoryTyped DEF CancelRoom

LEMMA AbortTyped ==
  ASSUME TypeInv, NEW t \in Tasks, NEW m \in Matches, Abort(t, m)
  PROVE  job' \in [Tasks -> Working] /\ match' \in [Matches -> LiveMatch]
  <1>0. match[m] \in LiveMatch /\ players[m] \in SUBSET Users
    BY DEF TypeInv, TypeOK, RegistryTypeOK
  <1>1. CASE Status(m) = "FINISHED"
    <2>1. At("teardown", m, "idle") \in Working BY AtTyped DEF Points, Thens
    <2> QED BY <1>1, <2>1, MoveTyped DEF Abort, TypeInv, TypeOK
  <1>2. CASE Status(m) # "FINISHED"
    <2>1. [At("refunding", m, "idle") EXCEPT !.left = players[m]] \in Working
      BY <1>0, AtTypedLeft DEF Points, Thens
    <2>2. At(IF match[m].persisted THEN "unsaving" ELSE "teardown", m, "idle") \in Working
      BY AtTyped DEF Points, Thens
    <2>3. job' \in [Tasks -> Working]
      BY <1>2, <2>1, <2>2, MoveTyped DEF Abort
    <2>4. [match[m] EXCEPT !.status = "CANCELLED", !.energySpent = FALSE] \in LiveMatch
      BY <1>0 DEF LiveMatch, MatchStatus
    <2> QED BY <1>2, <2>3, <2>4 DEF Abort, TypeInv, TypeOK
  <1> QED BY <1>1, <1>2

-----------------------------------------------------------------------------
(* Type correctness, one lemma per family of actions.                       *)

\* The match a user sits in is a match or None, and the one a task holds is real.
LEMMA MatchOfTyped ==
  ASSUME TypeInv, NEW s \in Sockets
  PROVE  /\ Owner[s] \in Users
         /\ MatchOf(Owner[s]) \in Matches \cup {None}
  BY OwnerAssumption DEF TypeInv, TypeOK, RegistryTypeOK, MatchOf

LEMMA OnTyped ==
  ASSUME TypeInv, NEW t \in Tasks
  PROVE  /\ job[t] \in Working
         /\ job[t].at \notin Unbound => job[t].on \in Matches
         /\ job[t].on \in Matches \cup {None}
         /\ job[t].left \in SUBSET Users
         /\ job[t].then \in Thens
  BY DEF TypeInv, Working, Job, Thens

LEMMA SocketsAreTasks == Sockets \subseteq Tasks /\ Loops \subseteq Tasks
                           /\ Graces \subseteq Tasks /\ Sweepers \subseteq Tasks
  BY DEF Tasks

LEMMA ConnectTyped ==
  ASSUME TypeInv, NEW s \in Sockets, Connect(s) \/ Greet(s)
  PROVE  TypeInv'
  <1> DEFINE u == Owner[s]
  <1>0. u \in Users /\ s \in Tasks BY MatchOfTyped, SocketsAreTasks
  <1>1. CASE Connect(s)
    <2>1. At("greeting", MatchOf(u), "open") \in Working
      BY MatchOfTyped DEF At, Working, Job, Points, Unbound
    <2> QED BY <1>0, <1>1, <2>1, MoveTyped, TasksTyped DEF Connect
  <1>2. CASE Greet(s)
    <2> DEFINE m == job[s].on
    <2>1. CASE m = None
      BY <1>0, <1>2, <2>1, MoveTyped, OpenTyped, MemoryTyped DEF Greet, TypeInv, TypeOK
    <2>2. CASE m # None
      <3>0. m \in Matches BY <1>0, <2>2, OnTyped
      <3>1. match' \in [Matches -> LiveMatch]
        <4>1. match[m] \in LiveMatch BY <3>0 DEF TypeInv, TypeOK
        <4> DEFINE greeted == [match[m] EXCEPT !.socket[u] = s, !.grace[u] = None]
        <4>2. greeted \in LiveMatch
          BY <1>0, <4>1 DEF LiveMatch
        <4>3. match' = [match EXCEPT ![m] = greeted]
          BY <1>2, <2>2 DEF Greet
        <4> HIDE DEF greeted
        <4> QED BY <4>2, <4>3 DEF TypeInv, TypeOK
      <3>2. job' \in [Tasks -> Working]
        BY <1>2, <2>2, OpenTyped, RestTyped DEF Greet, TypeInv
      <3> QED BY <1>2, <3>1, <3>2, MemoryTyped DEF Greet
    <2> QED BY <2>1, <2>2
  <1> QED BY <1>1, <1>2

LEMMA DropTyped ==
  ASSUME TypeInv, NEW s \in Sockets,
         DropQueued(s) \/ DropQuietly(s) \/ DropFromLobby(s) \/ DropFromFight(s)
  PROVE  TypeInv'
  <1> DEFINE u == Owner[s]
             m == MatchOf(u)
  <1>0. u \in Users /\ s \in Tasks /\ m \in Matches \cup {None}
    BY MatchOfTyped, SocketsAreTasks
  <1>1. CASE DropQueued(s)
    <2>1. job' \in [Tasks -> Working] BY <1>0, <1>1, MoveTyped, RestTyped DEF DropQueued
    <2>2. queue' \subseteq Sockets
      BY <1>1 DEF DropQueued, Dequeue, TypeInv, TypeOK, RegistryTypeOK
    <2> QED BY <1>1, <2>1, <2>2
        DEF DropQueued, MemoryOnly, dbVars, procVars, TypeInv, TypeOK, RegistryTypeOK, Working
  <1>2. CASE DropQuietly(s)
    <2>1. match' \in [Matches -> LiveMatch]
      <3>1. CASE AttachedTo(s, m)
        <4>1. m \in Matches BY <1>0, <3>1 DEF AttachedTo
        <4>2. match[m] \in LiveMatch BY <4>1 DEF TypeInv, TypeOK
        <4>3. [match[m] EXCEPT !.socket[u] = None] \in LiveMatch
          BY <1>0, <4>2 DEF LiveMatch
        <4> QED BY <1>2, <3>1, <4>3 DEF DropQuietly, TypeInv, TypeOK
      <3>2. CASE ~AttachedTo(s, m)
        BY <1>2, <3>2 DEF DropQuietly, TypeInv, TypeOK
      <3> QED BY <3>1, <3>2
    <2>2. job' \in [Tasks -> Working] BY <1>0, <1>2, MoveTyped, RestTyped DEF DropQuietly
    <2> QED BY <1>2, <2>1, <2>2, MemoryTyped DEF DropQuietly
  <1>3. CASE DropFromLobby(s)
    <2>1. m \in Matches BY <1>0, <1>3 DEF DropFromLobby, AttachedTo
    <2> QED BY <1>0, <1>3, <2>1, CancelRoomTyped DEF DropFromLobby, Thens
  <1>4. CASE DropFromFight(s)
    <2>1. m \in Matches BY <1>0, <1>4 DEF DropFromFight, AttachedTo
    <2>2. match' \in [Matches -> LiveMatch]
      <3>1. match[m] \in LiveMatch BY <2>1 DEF TypeInv, TypeOK
      <3>2. [match[m] EXCEPT !.socket[u] = None] \in LiveMatch
        BY <1>0, <3>1 DEF LiveMatch
      <3> QED BY <1>4, <3>2 DEF DropFromFight, TypeInv, TypeOK
    <2>3. [At("notifying", m, "closed") EXCEPT !.who = u] \in Working
      BY <1>0, <2>1 DEF At, Working, Job, Points
    <2>4. job' \in [Tasks -> Working] BY <1>0, <1>4, <2>3, MoveTyped DEF DropFromFight
    <2> QED BY <1>4, <2>2, <2>4, MemoryTyped DEF DropFromFight
  <1> QED BY <1>1, <1>2, <1>3, <1>4

LEMMA GraceTyped ==
  ASSUME TypeInv, NEW g \in Graces,
         GraceStep(g) \/ \E s \in Sockets : StartGrace(s, g)
  PROVE  TypeInv'
  <1>0. g \in Tasks BY SocketsAreTasks
  <1>1. CASE \E s \in Sockets : StartGrace(s, g)
    <2> PICK s \in Sockets : StartGrace(s, g) BY <1>1
    <2> DEFINE m == job[s].on
    <2>0. s \in Tasks /\ Owner[s] \in Users BY MatchOfTyped, SocketsAreTasks
    <2>1. m \in Matches BY <2>0, OnTyped DEF StartGrace, IsAt, Unbound
    <2>2. match' \in [Matches -> LiveMatch]
      <3>1. match[m] \in LiveMatch BY <2>1 DEF TypeInv, TypeOK
      <3>2. [match[m] EXCEPT !.grace[Owner[s]] = g] \in LiveMatch
        BY <2>0, <3>1 DEF LiveMatch
      <3> QED BY <3>2 DEF StartGrace, TypeInv, TypeOK
    <2>3. [job[s] EXCEPT !.at = "sleeping", !.then = "idle"] \in Working
      BY <2>0, <2>1, OnTyped DEF Working, Job, Points
    <2>4. job' \in [Tasks -> Working] BY <2>3, RestTyped DEF StartGrace, TypeInv
    <2> QED BY <2>2, <2>4, MemoryTyped DEF StartGrace
  <1>2. CASE GraceLapses(g)
    BY <1>0, <1>2, MoveTyped, RestTyped, TasksTyped DEF GraceLapses
  <1>3. CASE GraceForfeits(g)
    <2>1. job[g].on \in Matches BY <1>0, <1>3, OnTyped DEF GraceForfeits, IsAt, Unbound
    <2> QED BY <1>0, <1>3, <2>1, FinishTyped DEF GraceForfeits, Thens
  <1> QED BY <1>1, <1>2, <1>3 DEF GraceStep

LEMMA SeatingTyped ==
  ASSUME TypeInv, NEW m \in Matches, NEW seated \in SUBSET Users, Register(m, seated)
  PROVE  live' \subseteq Matches /\ seat' \in [Users -> Matches \cup {None}]
           /\ players' \in [Matches -> SUBSET Users]
  BY DEF Register, TypeInv, TypeOK, RegistryTypeOK

LEMMA QueueTyped ==
  ASSUME TypeInv, NEW s \in Sockets, JoinQueue(s) \/ LeaveQueue(s)
  PROVE  TypeInv'
  <1>1. queue' \subseteq Sockets
    BY DEF JoinQueue, LeaveQueue, Enqueue, Dequeue, TypeInv, TypeOK, RegistryTypeOK
  <1> QED BY <1>1 DEF JoinQueue, LeaveQueue, MemoryOnly, dbVars, procVars, TypeInv, TypeOK,
                      RegistryTypeOK, Working

LEMMA PairTyped ==
  ASSUME TypeInv, NEW s \in Sockets, NEW e \in Sockets, NEW m \in Matches,
         JoinQueueAndPair(s, e, m)
  PROVE  TypeInv'
  <1> DEFINE u == Owner[s]
             v == Owner[e]
  <1>0. u \in Users /\ v \in Users /\ s \in Tasks BY MatchOfTyped, SocketsAreTasks
  <1>1. RegistryTypeOK'
    <2>1. queue' \subseteq Sockets
      BY DEF JoinQueueAndPair, TypeInv, TypeOK, RegistryTypeOK
    <2> QED BY <1>0, <2>1, SeatingTyped DEF JoinQueueAndPair, RegistryTypeOK
  <1>2. match' \in [Matches -> LiveMatch]
    <2>1. Blank("WAITING") \in LiveMatch BY BlankTyped DEF MatchStatus
    <2>2. [NoOne EXCEPT ![u] = s, ![v] = e] \in [Users -> Sockets \cup {None}]
      BY <1>0 DEF NoOne
    <2>3. [Blank("WAITING") EXCEPT !.host = v, !.socket = [NoOne EXCEPT ![u] = s, ![v] = e]]
            \in LiveMatch
      BY <1>0, <2>1, <2>2 DEF LiveMatch
    <2> QED BY <2>3 DEF JoinQueueAndPair, TypeInv, TypeOK
  <1>3. job' \in [Tasks -> Working]
    BY <1>0, AtTyped, MoveTyped DEF JoinQueueAndPair, Points, Thens
  <1> QED BY <1>1, <1>2, <1>3
      DEF JoinQueueAndPair, MemoryOnly, dbVars, procVars, TypeInv, TypeOK, Working

LEMMA RoomTyped ==
  ASSUME TypeInv, NEW s \in Sockets, NEW m \in Matches, CreateRoom(s, m) \/ JoinRoom(s, m)
  PROVE  TypeInv'
  <1> DEFINE u == Owner[s]
  <1>0. u \in Users /\ s \in Tasks BY MatchOfTyped, SocketsAreTasks
  <1>1. CASE CreateRoom(s, m)
    <2>1. RegistryTypeOK'
      BY <1>0, <1>1, SeatingTyped DEF CreateRoom, TypeInv, TypeOK, RegistryTypeOK
    <2>2. Blank("WAITING") \in LiveMatch BY BlankTyped DEF MatchStatus
    <2>3. [Blank("WAITING") EXCEPT !.host = u, !.socket = [NoOne EXCEPT ![u] = s]] \in LiveMatch
      BY <1>0, <2>2 DEF LiveMatch, NoOne
    <2>4. match' \in [Matches -> LiveMatch] BY <1>1, <2>3 DEF CreateRoom, TypeInv, TypeOK
    <2> QED BY <1>1, <2>1, <2>4
        DEF CreateRoom, MemoryOnly, dbVars, procVars, TypeInv, TypeOK, Working
  <1>2. CASE JoinRoom(s, m)
    <2>1. RegistryTypeOK'
      BY <1>0, <1>2 DEF JoinRoom, Bind, TypeInv, TypeOK, RegistryTypeOK
    <2>2. match[m] \in LiveMatch BY DEF TypeInv, TypeOK
    <2>3. [match[m] EXCEPT !.socket[u] = s] \in LiveMatch BY <1>0, <2>2 DEF LiveMatch
    <2>4. match' \in [Matches -> LiveMatch] BY <1>2, <2>3 DEF JoinRoom, TypeInv, TypeOK
    <2> QED BY <1>2, <2>1, <2>4
        DEF JoinRoom, MemoryOnly, dbVars, procVars, TypeInv, TypeOK, Working
  <1> QED BY <1>1, <1>2

LEMMA SpawnTyped ==
  ASSUME TypeInv, NEW s \in Sockets, NEW l \in Loops, NEW m \in Matches, Spawn(s, l, m)
  PROVE  TypeInv'
  <1>0. s \in Tasks /\ l \in Tasks BY SocketsAreTasks
  <1>1. match' \in [Matches -> LiveMatch]
    <2>1. match[m] \in LiveMatch BY DEF TypeInv, TypeOK
    <2>2. [match[m] EXCEPT !.task = l] \in LiveMatch BY <2>1 DEF LiveMatch
    <2> QED BY <2>2 DEF Spawn, TypeInv, TypeOK
  <1>2. At("countdown", m, "idle") \in Working BY AtTyped DEF Points, Thens
  <1>3. job' \in [Tasks -> Working] BY <1>0, <1>2, OpenTyped DEF Spawn, TypeInv
  <1> QED BY <1>1, <1>3, MemoryTyped DEF Spawn

LEMMA MatchStartTyped ==
  ASSUME TypeInv, NEW s \in Sockets,
         \/ \E l \in Loops : Launch(s, l)
         \/ \E m \in Matches, l \in Loops : StartMatch(s, l, m)
         \/ \E m \in Matches : LeaveMatch(s, m)
  PROVE  TypeInv'
  <1>0. s \in Tasks BY SocketsAreTasks
  <1>1. CASE \E l \in Loops : Launch(s, l)
    <2>1. job[s].on \in Matches BY <1>0, <1>1, OnTyped DEF Launch, IsAt, Unbound
    <2> QED BY <1>1, <2>1, SpawnTyped DEF Launch
  <1>2. CASE \E m \in Matches, l \in Loops : StartMatch(s, l, m)
    BY <1>2, SpawnTyped DEF StartMatch
  <1>3. CASE \E m \in Matches : LeaveMatch(s, m)
    BY <1>0, <1>3, CancelRoomTyped, FinishTyped DEF LeaveMatch, Thens
  <1> QED BY <1>1, <1>2, <1>3

LEMMA TallyTyped ==
  ASSUME TypeInv, NEW t \in Tasks, NEW u, NEW next \in Working,
         NEW tally, NEW tallied, tally \in [Matches -> [Users -> Nat]],
         job[t].on \in Matches,
         u \in job[t].left, tallied = [tally EXCEPT ![job[t].on][u] = @ + 1],
         Move(t, IF job[t].left = {u} THEN next ELSE [job[t] EXCEPT !.left = @ \ {u}])
  PROVE  tallied \in [Matches -> [Users -> Nat]] /\ job' \in [Tasks -> Working]
  <1>1. u \in Users BY OnTyped
  <1>2. tallied \in [Matches -> [Users -> Nat]] BY <1>1
  <1>3. [job[t] EXCEPT !.left = @ \ {u}] \in Working BY OnTyped DEF Working, Job
  <1> QED BY <1>2, <1>3, MoveTyped

LEMMA ChargeTyped ==
  ASSUME TypeInv, NEW l \in Loops, NEW u \in Users, Charge(l, u)
  PROVE  TypeInv'
  <1>0. l \in Tasks /\ job[l].on \in Matches
    BY SocketsAreTasks, OnTyped DEF Charge, LoopAt, IsAt, Unbound
  <1> DEFINE next == [job[l] EXCEPT !.at = "building", !.left = {}]
  <1>1. next \in Working BY <1>0, OnTyped DEF Working, Job, Points
  <1>2. charged' \in [Matches -> [Users -> Nat]] /\ job' \in [Tasks -> Working]
    <2>1. OneOf(l, u, charged, next) BY DEF Charge
    <2>2. charged \in [Matches -> [Users -> Nat]] BY DEF TypeInv, TypeOK
    <2> HIDE DEF next
    <2>3. /\ u \in job[l].left
          /\ charged' = [charged EXCEPT ![job[l].on][u] = @ + 1]
          /\ Move(l, IF job[l].left = {u} THEN next ELSE [job[l] EXCEPT !.left = @ \ {u}])
      BY <2>1 DEF OneOf
    <2>4. charged' \in [Matches -> [Users -> Nat]] BY <1>0, <2>2, <2>3
    <2>5. [job[l] EXCEPT !.left = @ \ {u}] \in Working BY <1>0, OnTyped DEF Working, Job
    <2>6. job' \in [Tasks -> Working] BY <1>0, <1>1, <2>3, <2>5, MoveTyped
    <2> QED BY <2>4, <2>6
  <1> QED BY <1>2
      DEF Charge, registryVars, procVars, TypeInv, TypeOK, RegistryTypeOK, Working

LEMMA LoopTyped ==
  ASSUME TypeInv, NEW l \in Loops, LoopStep(l)
  PROVE  TypeInv'
  <1> DEFINE m == job[l].on
  <1>0. l \in Tasks BY SocketsAreTasks
  <1>m. ASSUME job[l].at \notin Unbound
        PROVE  m \in Matches /\ match[m] \in LiveMatch /\ players[m] \in SUBSET Users
    BY <1>0, <1>m, OnTyped DEF TypeInv, TypeOK, RegistryTypeOK
  <1>1. CASE Reject(l)
    BY <1>0, <1>1, <1>m, AbortTyped, MemoryTyped DEF Reject, LoopAt, IsAt, Unbound
  <1>2. CASE BeginCharge(l)
    <2>1. [job[l] EXCEPT !.at = "charging", !.left = players[m]] \in Working
      BY <1>0, <1>2, <1>m, OnTyped DEF BeginCharge, LoopAt, IsAt, Unbound, Working, Job, Points
    <2> QED BY <1>0, <1>2, <2>1, MoveTyped, TasksTyped DEF BeginCharge
  <1>3. CASE Build(l)
    <2>0. m \in Matches /\ match[m] \in LiveMatch
      BY <1>3, <1>m DEF Build, LoopAt, IsAt, Unbound
    <2>1. [match[m] EXCEPT !.energySpent = TRUE, !.status = "IN_PROGRESS"] \in LiveMatch
      BY <2>0 DEF LiveMatch, MatchStatus
    <2>2. match' \in [Matches -> LiveMatch] BY <1>3, <2>1 DEF Build, TypeInv, TypeOK
    <2>3. [job[l] EXCEPT !.at = "creating"] \in Working
      BY <1>0, <2>0, OnTyped DEF Working, Job, Points
    <2> QED BY <1>0, <1>3, <2>2, <2>3, MoveTyped, MemoryTyped DEF Build
  <1>4. CASE CreateRow(l)
    <2>0. m \in Matches BY <1>4, <1>m DEF CreateRow, LoopAt, IsAt, Unbound
    <2>1. [job[l] EXCEPT !.at = "created"] \in Working
      BY <1>0, <2>0, OnTyped DEF Working, Job, Points
    <2>2. job' \in [Tasks -> Working] BY <1>0, <1>4, <2>1, MoveTyped DEF CreateRow
    <2>3. row' \in [Matches -> RowStatus] BY <1>4 DEF CreateRow, TypeInv, TypeOK, RowStatus
    <2> QED BY <1>4, <2>2, <2>3
        DEF CreateRow, registryVars, procVars, TypeInv, TypeOK, RegistryTypeOK, Working
  <1>5. CASE CreateRowClash(l)
    BY <1>0, <1>5, <1>m, AbortTyped, MemoryTyped DEF CreateRowClash, LoopAt, IsAt, Unbound
  <1>6. CASE Begin(l)
    <2>0. m \in Matches /\ match[m] \in LiveMatch
      BY <1>6, <1>m DEF Begin, LoopAt, IsAt, Unbound
    <2>1. [match[m] EXCEPT !.persisted = TRUE] \in LiveMatch BY <2>0 DEF LiveMatch
    <2>2. match' \in [Matches -> LiveMatch] BY <1>6, <2>1 DEF Begin, TypeInv, TypeOK
    <2>3. [job[l] EXCEPT !.at = "running"] \in Working
      BY <1>0, <2>0, OnTyped DEF Working, Job, Points
    <2> QED BY <1>0, <1>6, <2>2, <2>3, MoveTyped, MemoryTyped DEF Begin
  <1>7. CASE EndFight(l)
    BY <1>0, <1>7, <1>m, FinishTyped DEF EndFight, LoopAt, IsAt, Unbound, Thens
  <1>8. CASE ExitLoop(l)
    BY <1>0, <1>8, MoveTyped, RestTyped, TasksTyped DEF ExitLoop
  <1>9. CASE \E u \in Users : Charge(l, u)
    BY <1>9, ChargeTyped
  <1> QED BY <1>1, <1>2, <1>3, <1>4, <1>5, <1>6, <1>7, <1>8, <1>9 DEF LoopStep

LEMMA ContinueTyped ==
  ASSUME TypeInv, NEW t \in Tasks, Continue(t)
  PROVE  TypeInv'
  <1> DEFINE m == job[t].on
  <1>0. m \in Matches /\ match[m] \in LiveMatch
    BY OnTyped DEF Continue, Claim, Pay, Unsave, Teardown, Refund, IsAt, Unbound, TypeInv, TypeOK
  <1>j. \A p \in Points : [job[t] EXCEPT !.at = p] \in Working
    BY <1>0, OnTyped DEF Working, Job
  <1>a. AfterSave(t) \in Working
    BY <1>j, RestTyped DEF AfterSave, Points
  <1>1. CASE Claim(t)
    <2>1. job' \in [Tasks -> Working]
      BY <1>1, <1>a, <1>j, MoveTyped DEF Claim, Points
    <2>2. row' \in [Matches -> RowStatus] BY <1>1 DEF Claim, TypeInv, TypeOK, RowStatus
    <2> QED BY <1>1, <2>1, <2>2
        DEF Claim, registryVars, procVars, TypeInv, TypeOK, RegistryTypeOK, Working
  <1>2. CASE Pay(t)
    <2>1. job' \in [Tasks -> Working] BY <1>2, <1>a, MoveTyped DEF Pay
    <2>2. paid' \in [Matches -> Nat] BY <1>0, <1>2 DEF Pay, TypeInv, TypeOK
    <2> QED BY <1>2, <2>1, <2>2
        DEF Pay, registryVars, procVars, TypeInv, TypeOK, RegistryTypeOK, Working
  <1>3. CASE Unsave(t)
    <2>1. job' \in [Tasks -> Working] BY <1>3, <1>j, MoveTyped DEF Unsave, Points
    <2>2. row' \in [Matches -> RowStatus] BY <1>3 DEF Unsave, TypeInv, TypeOK, RowStatus
    <2> QED BY <1>3, <2>1, <2>2
        DEF Unsave, registryVars, procVars, TypeInv, TypeOK, RegistryTypeOK, Working
  <1>4. CASE Teardown(t)
    <2>1. Stopped(TimersOf(m, t)) \in [Tasks -> Working] BY StoppedTyped
    <2>2. job' \in [Tasks -> Working] BY <1>4, <2>1, AfterTyped DEF Teardown
    <2>3. Blank("GONE") \in LiveMatch /\ [match[m] EXCEPT !.grace = NoOne] \in LiveMatch
      BY <1>0, BlankTyped DEF LiveMatch, MatchStatus, NoOne
    <2>4. match' \in [Matches -> LiveMatch] BY <1>4, <2>3 DEF Teardown, TypeInv, TypeOK
    <2>5. RegistryTypeOK'
      BY <1>4 DEF Teardown, Unregister, TypeInv, TypeOK, RegistryTypeOK
    <2> QED BY <1>4, <2>2, <2>4, <2>5
        DEF Teardown, MemoryOnly, dbVars, procVars, TypeInv, TypeOK, Working
  <1>5. CASE \E u \in Users : Refund(t, u)
    <2>1. At(IF match[m].persisted THEN "unsaving" ELSE "teardown", m, "idle") \in Working
      BY <1>0, AtTyped DEF Points, Thens
    <2>2. refunded' \in [Matches -> [Users -> Nat]] /\ job' \in [Tasks -> Working]
      BY <1>0, <1>5, <2>1, TallyTyped DEF Refund, OneOf, TypeInv, TypeOK
    <2> QED BY <1>5, <2>2
        DEF Refund, registryVars, procVars, TypeInv, TypeOK, RegistryTypeOK, Working
  <1> QED BY <1>1, <1>2, <1>3, <1>4, <1>5 DEF Continue

LEMMA DbFailsTyped ==
  ASSUME TypeInv, NEW t \in Tasks, DbFails(t)
  PROVE  TypeInv'
  <1>1. job' \in [Tasks -> Working] /\ match' \in [Matches -> LiveMatch]
    <2>1. job[t].on \in Matches BY OnTyped DEF DbFails, Unbound
    <2>2. At("failed", None, "idle") \in Working
      BY DEF At, Working, Job, Points, Unbound
    <2> QED BY <2>1, <2>2, RestTyped, MoveTyped, AbortTyped DEF DbFails, TypeInv, TypeOK
  <1>2. dbErrors' \in 0..MaxDbErrors
    BY BoundAssumption DEF DbFails, TypeInv, TypeOK
  <1> QED BY <1>1, <1>2
      DEF DbFails, registryVars, dbVars, TypeInv, TypeOK, RegistryTypeOK, Working

LEMMA HousekeepingTyped ==
  ASSUME TypeInv, NEW w \in Sweepers, Housekeeping(w)
  PROVE  TypeInv'
  <1>0. w \in Tasks BY SocketsAreTasks
  <1>1. CASE SweepQueue(w)
    BY <1>1 DEF SweepQueue, DropStale, MemoryOnly, dbVars, procVars, TypeInv, TypeOK,
                RegistryTypeOK, Working
  <1>2. CASE \E m \in Matches : SweepRoom(w, m)
    <2>1. \A m \in Matches : At("closing", m, "idle") \in Working
      BY AtTyped DEF Points, Thens
    <2> QED BY <1>0, <1>2, <2>1, MoveTyped, TasksTyped DEF SweepRoom
  <1>3. CASE CloseIdleRoom(w)
    <2>1. job[w].on \in Matches BY <1>0, <1>3, OnTyped DEF CloseIdleRoom, IsAt, Unbound
    <2> QED BY <1>0, <1>3, <2>1, CancelRoomTyped DEF CloseIdleRoom, Thens
  <1> QED BY <1>1, <1>2, <1>3 DEF Housekeeping

LEMMA ProcessTyped ==
  ASSUME TypeInv, Crash \/ Restarting
  PROVE  TypeInv'
  <1>1. CASE Crash
    <2>1. match' \in [Matches -> LiveMatch]
      BY <1>1, BlankTyped DEF Crash, TypeInv, TypeOK, MatchStatus
    <2>2. job' \in [Tasks -> Working] BY <1>1, RestTyped DEF Crash
    <2>3. crashes' \in 0..MaxCrashes BY <1>1, BoundAssumption DEF Crash, TypeInv, TypeOK
    <2>4. RegistryTypeOK' BY <1>1 DEF Crash, ForgetRegistry, TypeInv, TypeOK, RegistryTypeOK
    <2> QED BY <1>1, <2>1, <2>2, <2>3, <2>4 DEF Crash, dbVars, TypeInv, TypeOK, Working
  <1>2. CASE Boot
    <2>1. row' \in [Matches -> RowStatus] BY <1>2 DEF Boot, TypeInv, TypeOK, RowStatus
    <2> QED BY <1>2, <2>1 DEF Boot, registryVars, TypeInv, TypeOK, RegistryTypeOK, Working
  <1>3. CASE Serve
    BY <1>3 DEF Serve, registryVars, dbVars, TypeInv, TypeOK, RegistryTypeOK, Working
  <1>4. CASE \E m \in Matches, u \in Users : BootRefund(m, u)
    <2>1. refunded' \in [Matches -> [Users -> Nat]] /\ stranded' \in SUBSET (Matches \X Users)
      BY <1>4 DEF BootRefund, TypeInv, TypeOK
    <2> QED BY <1>4, <2>1
        DEF BootRefund, registryVars, TypeInv, TypeOK, RegistryTypeOK, Working
  <1> QED BY <1>1, <1>2, <1>3, <1>4 DEF Restarting

LEMMA NextTyped == TypeInv /\ [Next]_vars => TypeInv'
  <1> SUFFICES ASSUME TypeInv, [Next]_vars PROVE TypeInv'
    OBVIOUS
  <1>1. ASSUME NEW s \in Sockets, SocketStep(s) PROVE TypeInv'
    BY <1>1, ConnectTyped, DropTyped, QueueTyped, RoomTyped, PairTyped, MatchStartTyped,
       GraceTyped DEF SocketStep
  <1>2. CASE UNCHANGED vars
    BY <1>2, TasksTyped
       DEF vars, TasksOnly, TypeInv
  <1> QED BY <1>1, <1>2, LoopTyped, GraceTyped, ContinueTyped, DbFailsTyped,
             HousekeepingTyped, ProcessTyped DEF Next

(* Every field of every match, task and row keeps its type, whatever order  *)
(* the tasks of match_runtime.py resume in and whenever the process dies;   *)
(* and a task between two points is always working on a real match.         *)
THEOREM TypeCorrect == Spec => []TypeOK
  <1>1. Spec => []TypeInv BY InitTyped, NextTyped, PTL DEF Spec
  <1>2. TypeInv => TypeOK BY DEF TypeInv
  <1> QED BY <1>1, <1>2, PTL

-----------------------------------------------------------------------------
(* The lobby.  What the registry promises rests on three facts it does not  *)
(* keep itself: a registered match is not a fresh one, its seats are a      *)
(* finite set, and whoever is queued is doing nothing else.                 *)
FreshIsNew   == \A m \in live : Status(m) # "NEW"
SeatsAreFew  == \A m \in Matches : IsFiniteSet(players[m])
QueueIsOpen  == \A e \in queue : IsAt(e, "open")

LobbyInv == SeatsAgree /\ PairedOnce /\ FreshIsNew /\ SeatsAreFew /\ QueueIsOpen

LEMMA LobbyInit == Init => LobbyInv
  <1> SUFFICES ASSUME Init PROVE LobbyInv
    OBVIOUS
  <1>1. SeatsAgree BY NoneAssumption DEF Init, RegistryInit, SeatsAgree
  <1>2. SeatsAreFew BY FS_EmptySet DEF Init, RegistryInit, SeatsAreFew
  <1> QED BY <1>1, <1>2 DEF Init, RegistryInit, LobbyInv, PairedOnce, FreshIsNew, QueueIsOpen

\* A step that leaves the registry alone keeps the lobby in order if no registered
\* match becomes fresh and nobody who is queued does anything.
LEMMA LobbyStays ==
  ASSUME TypeInv, LobbyInv, UNCHANGED registryVars,
         \A m \in Matches : Status(m) # "NEW" => match'[m].status # "NEW",
         \A e \in queue : job'[e].at = "open"
  PROVE  LobbyInv'
  <1>1. UNCHANGED <<queue, live, seat, players>> BY DEF registryVars
  <1>2. SeatsAgree' BY <1>1 DEF LobbyInv, SeatsAgree
  <1>3. PairedOnce' BY <1>1 DEF LobbyInv, PairedOnce
  <1>4. FreshIsNew'
    BY <1>1 DEF LobbyInv, FreshIsNew, Status, TypeInv, TypeOK, RegistryTypeOK
  <1>5. SeatsAreFew' BY <1>1 DEF LobbyInv, SeatsAreFew
  <1>6. QueueIsOpen' BY <1>1 DEF LobbyInv, QueueIsOpen, IsAt
  <1> QED BY <1>2, <1>3, <1>4, <1>5, <1>6 DEF LobbyInv

\* Nobody in the queue has a seat, holds a match, or is a background task.
LEMMA QueuedIsIdle ==
  ASSUME TypeInv, LobbyInv
  PROVE  /\ queue \subseteq Sockets
         /\ queue \cap (Loops \cup Graces \cup Sweepers) = {}
         /\ \A e \in queue : job[e].at = "open" /\ seat[Owner[e]] = None
                               /\ MatchOf(Owner[e]) = None
  BY TaskAssumption, NoneAssumption
  DEF TypeInv, TypeOK, RegistryTypeOK, LobbyInv, QueueIsOpen, IsAt, PairedOnce, MatchOf

\* Cancelled tasks are never sockets, so cancelling leaves the queue's listeners alone.
LEMMA StoppedSpares ==
  ASSUME TypeInv, LobbyInv, NEW m, NEW t, NEW e \in queue
  PROVE  /\ Stopped(LoopOf(m, t))[e] = job[e]
         /\ Stopped(TimersOf(m, t))[e] = job[e]
         /\ Stopped(LoopOf(m, t) \cup TimersOf(m, t))[e] = job[e]
  <1>1. e \in Tasks /\ e \notin Loops /\ e \notin Graces
    BY QueuedIsIdle, SocketsAreTasks
  <1>2. LoopOf(m, t) \subseteq Loops /\ TimersOf(m, t) \subseteq Graces
    BY DEF LoopOf, TimersOf, TimerOf
  <1> QED BY <1>1, <1>2 DEF Stopped

LEMMA FinishLobby ==
  ASSUME TypeInv, LobbyInv, NEW t \in Tasks, t \notin queue, NEW m \in Matches, NEW n,
         Finish(t, m, n) \/ CancelRoom(t, m, n)
  PROVE  LobbyInv'
  <1>1. \A x \in Matches : Status(x) # "NEW" => match'[x].status # "NEW"
    <2>1. match'[m].status # "NEW" /\ \A x \in Matches \ {m} : match'[x] = match[x]
      BY DEF Finish, CancelRoom, TypeInv, TypeOK, LiveMatch
    <2> QED BY <2>1 DEF Status
  <1>2. \A e \in queue : job'[e] = job[e]
    <2> TAKE e \in queue
    <2>1. e \in Tasks /\ e # t BY QueuedIsIdle, SocketsAreTasks
    <2>2. CASE Finish(t, m, n)
      <3>1. job'[e] = Stopped(LoopOf(m, t) \cup TimersOf(m, t))[e]
        BY <2>1, <2>2 DEF Finish, Stopped
      <3> QED BY <3>1, StoppedSpares
    <2>3. CASE CancelRoom(t, m, n)
      <3>1. job'[e] = Stopped(LoopOf(m, t))[e] BY <2>1, <2>3 DEF CancelRoom, Stopped
      <3> QED BY <3>1, StoppedSpares
    <2> QED BY <2>2, <2>3
  <1> QED BY <1>1, <1>2, QueuedIsIdle, LobbyStays DEF Finish, CancelRoom

LEMMA AbortLobby ==
  ASSUME TypeInv, LobbyInv, NEW l \in Loops, NEW m \in Matches, Abort(l, m)
  PROVE  /\ \A x \in Matches : Status(x) # "NEW" => match'[x].status # "NEW"
         /\ \A e \in queue : job'[e] = job[e]
  BY QueuedIsIdle, SocketsAreTasks DEF Abort, Move, Status, TypeInv, TypeOK, LiveMatch

LEMMA ConnectLobby ==
  ASSUME TypeInv, LobbyInv, NEW s \in Sockets, Connect(s) \/ Greet(s)
  PROVE  LobbyInv'
  <1>0. s \in Tasks /\ s \notin queue
    BY QueuedIsIdle, SocketsAreTasks DEF Connect, Greet, IsAt
  <1>1. CASE Connect(s)
    BY <1>0, <1>1, QueuedIsIdle, SocketsAreTasks, LobbyStays
    DEF Connect, TasksOnly, Move, Status, TypeInv
  <1>2. CASE Greet(s)
    <2>1. \A x \in Matches : match'[x].status = match[x].status
      <3> TAKE x \in Matches
      <3>1. match[x] \in LiveMatch BY DEF TypeInv, TypeOK
      <3>2. \/ match'[x] = match[x]
            \/ match'[x] = [match[x] EXCEPT !.socket[Owner[s]] = s, !.grace[Owner[s]] = None]
        <4>1. CASE match' = match BY <4>1
        <4>2. CASE match' = [match EXCEPT ![job[s].on].socket[Owner[s]] = s,
                                          ![job[s].on].grace[Owner[s]] = None]
          <5>1. CASE x # job[s].on BY <4>2, <5>1 DEF TypeInv, TypeOK
          <5>2. CASE x = job[s].on BY <3>1, <4>2, <5>2 DEF TypeInv, TypeOK, LiveMatch
          <5> QED BY <5>1, <5>2
        <4> QED BY <1>2, <4>1, <4>2 DEF Greet
      <3> QED BY <3>1, <3>2 DEF LiveMatch
    <2>2. \A e \in queue : job'[e].at = "open"
      <3> TAKE e \in queue
      <3>1. e \in Tasks /\ e # s /\ job[e].at = "open" /\ e \notin Graces
        BY <1>0, QueuedIsIdle, SocketsAreTasks
      <3>2. job[e] \in Job /\ \A m, u : e \notin TimerOf(m, u)
        BY <3>1 DEF TypeInv, TypeOK, TimerOf
      <3> QED BY <1>2, <3>1, <3>2 DEF Greet, Move, TypeInv
    <2> QED BY <1>2, <2>1, <2>2, LobbyStays DEF Greet, Status
  <1> QED BY <1>1, <1>2

LEMMA DropLobby ==
  ASSUME TypeInv, LobbyInv, NEW s \in Sockets,
         DropQueued(s) \/ DropQuietly(s) \/ DropFromLobby(s) \/ DropFromFight(s)
  PROVE  LobbyInv'
  <1> DEFINE u == Owner[s]
             m == MatchOf(u)
  <1>0. u \in Users /\ s \in Tasks /\ m \in Matches \cup {None}
    BY MatchOfTyped, SocketsAreTasks
  <1>1. CASE DropQueued(s)
    <2>1. PICK e \in queue : Owner[e] = u /\ queue' = queue \ {e}
      BY <1>1 DEF DropQueued, Dequeue, EntriesOf
    <2>2. s \notin queue' BY <2>1, OwnerAssumption DEF LobbyInv, PairedOnce
    <2>3. QueueIsOpen'
      BY <1>0, <1>1, <2>1, <2>2, QueuedIsIdle, SocketsAreTasks
      DEF DropQueued, Move, QueueIsOpen, IsAt, TypeInv
    <2>4. PairedOnce' BY <1>1, <2>1 DEF DropQueued, LobbyInv, PairedOnce
    <2> QED BY <1>1, <2>3, <2>4
        DEF DropQueued, LobbyInv, SeatsAgree, FreshIsNew, SeatsAreFew, Status
  <1>2. ASSUME ~IsQueued(u) PROVE s \notin queue
    BY <1>2 DEF IsQueued, EntriesOf
  <1>3. CASE DropQuietly(s)
    <2>1. \A x \in Matches : match'[x].status = match[x].status
      BY <1>3 DEF DropQuietly, TypeInv, TypeOK, LiveMatch
    <2>2. \A e \in queue : job'[e].at = "open"
      BY <1>0, <1>2, <1>3, QueuedIsIdle, SocketsAreTasks DEF DropQuietly, Move, TypeInv
    <2> QED BY <1>3, <2>1, <2>2, LobbyStays DEF DropQuietly, Status
  <1>4. CASE DropFromLobby(s)
    BY <1>0, <1>2, <1>4, FinishLobby DEF DropFromLobby, AttachedTo
  <1>5. CASE DropFromFight(s)
    <2>1. \A x \in Matches : match'[x].status = match[x].status
      BY <1>5 DEF DropFromFight, TypeInv, TypeOK, LiveMatch
    <2>2. \A e \in queue : job'[e].at = "open"
      BY <1>0, <1>2, <1>5, QueuedIsIdle, SocketsAreTasks DEF DropFromFight, Move, TypeInv
    <2> QED BY <1>5, <2>1, <2>2, LobbyStays DEF DropFromFight, Status
  <1> QED BY <1>1, <1>3, <1>4, <1>5

LEMMA GraceLobby ==
  ASSUME TypeInv, LobbyInv, NEW g \in Graces,
         GraceStep(g) \/ \E s \in Sockets : StartGrace(s, g)
  PROVE  LobbyInv'
  <1>0. g \in Tasks /\ g \notin queue BY QueuedIsIdle, SocketsAreTasks
  <1>1. CASE \E s \in Sockets : StartGrace(s, g)
    <2> PICK s \in Sockets : StartGrace(s, g) BY <1>1
    <2>1. \A x \in Matches : match'[x].status = match[x].status
      <3> TAKE x \in Matches
      <3>1. match[x] \in LiveMatch BY DEF TypeInv, TypeOK
      <3>2. match'[x] = match[x] \/ match'[x] = [match[x] EXCEPT !.grace[Owner[s]] = g]
        BY DEF StartGrace, TypeInv, TypeOK
      <3> QED BY <3>1, <3>2 DEF LiveMatch
    <2>2. s \notin queue BY QueuedIsIdle DEF StartGrace, IsAt
    <2>3. \A e \in queue : job'[e] = job[e]
      BY <1>0, <2>2, QueuedIsIdle, SocketsAreTasks DEF StartGrace, TypeInv
    <2> QED BY <2>1, <2>3, QueuedIsIdle, LobbyStays DEF StartGrace, Status
  <1>2. CASE GraceLapses(g)
    <2>1. \A e \in queue : job'[e] = job[e]
      BY <1>0, <1>2, QueuedIsIdle, SocketsAreTasks DEF GraceLapses, Move, TypeInv
    <2> QED BY <1>2, <2>1, QueuedIsIdle, LobbyStays DEF GraceLapses, TasksOnly, Status
  <1>3. CASE GraceForfeits(g)
    <2>1. job[g].on \in Matches BY <1>0, <1>3, OnTyped DEF GraceForfeits, IsAt, Unbound
    <2> QED BY <1>0, <1>3, <2>1, FinishLobby DEF GraceForfeits
  <1> QED BY <1>1, <1>2, <1>3 DEF GraceStep

\* Whoever may sit down has no seat in any registered match.
LEMMA FreeHasNoSeat ==
  ASSUME TypeInv, LobbyInv, NEW u \in Users, MatchOf(u) = None \/ ~IsBusy(u)
  PROVE  seat[u] = None
  BY NoneAssumption DEF MatchOf, IsBusy, TypeInv, TypeOK, RegistryTypeOK, LobbyInv, SeatsAgree

LEMMA QueueLobby ==
  ASSUME TypeInv, LobbyInv, NEW s \in Sockets, JoinQueue(s) \/ LeaveQueue(s)
  PROVE  LobbyInv'
  <1>0. Owner[s] \in Users BY MatchOfTyped
  <1>1. CASE JoinQueue(s)
    <2>1. seat[Owner[s]] = None BY <1>0, <1>1, FreeHasNoSeat DEF JoinQueue
    <2>2. PairedOnce'
      BY <1>1, <2>1 DEF JoinQueue, Enqueue, IsQueued, EntriesOf, LobbyInv, PairedOnce
    <2> QED BY <1>1, <2>2
        DEF JoinQueue, Enqueue, LobbyInv, SeatsAgree, FreshIsNew, SeatsAreFew, QueueIsOpen,
            IsAt, Status
  <1>2. CASE LeaveQueue(s)
    <2>1. queue' \subseteq queue BY <1>2 DEF LeaveQueue, Dequeue
    <2>2. PairedOnce' BY <1>2, <2>1 DEF LeaveQueue, LobbyInv, PairedOnce
    <2> QED BY <1>2, <2>1, <2>2
        DEF LeaveQueue, LobbyInv, SeatsAgree, FreshIsNew, SeatsAreFew, QueueIsOpen, IsAt, Status
  <1> QED BY <1>1, <1>2

\* Registering a fresh match with at most two players who hold no seat.
LEMMA RegisterSeats ==
  ASSUME TypeInv, LobbyInv, NEW m \in Matches, Fresh(m), NEW seated \in SUBSET Users,
         \A u \in seated : seat[u] = None,
         Register(m, seated)
  PROVE  SeatsAgree'
  <1>1. m \notin live BY DEF LobbyInv, FreshIsNew, Fresh
  <1>2. \A u \in Users : seat[u] # m BY <1>1 DEF LobbyInv, SeatsAgree
  <1>3. live' = live \cup {m} BY DEF Register
  <1>4. \A u \in Users : seat'[u] = IF u \in seated THEN m ELSE seat[u]
    BY DEF Register
  <1>5. /\ players'[m] = seated
        /\ \A x \in Matches \ {m} : players'[x] = players[x]
    BY DEF Register, TypeInv, TypeOK, RegistryTypeOK
  <1>6. ASSUME NEW u \in Users, NEW x \in Matches
        PROVE  seat'[u] = x <=> x \in live' /\ u \in players'[x]
    <2>1. m # None /\ x # None BY NoneAssumption
    <2>2. CASE x = m BY <1>2, <1>3, <1>4, <1>5, <2>2
    <2>3. CASE x # m
      <3>1. seat[u] = x <=> x \in live /\ u \in players[x] BY DEF LobbyInv, SeatsAgree
      <3> QED BY <1>3, <1>4, <1>5, <2>1, <2>3, <3>1
    <2> QED BY <2>2, <2>3
  <1> QED BY <1>6 DEF SeatsAgree

LEMMA PairLobby ==
  ASSUME TypeInv, LobbyInv, NEW s \in Sockets, NEW e \in Sockets, NEW m \in Matches,
         JoinQueueAndPair(s, e, m)
  PROVE  LobbyInv'
  <1> DEFINE u == Owner[s]
             v == Owner[e]
  <1>0. u \in Users /\ v \in Users /\ s \in Tasks /\ e \in queue /\ s \notin queue
    BY MatchOfTyped, SocketsAreTasks DEF JoinQueueAndPair, IsQueued, EntriesOf
  <1>1. seat[u] = None /\ seat[v] = None
    BY <1>0, FreeHasNoSeat, QueuedIsIdle DEF JoinQueueAndPair
  <1>2. SeatsAgree'
    BY <1>0, <1>1, RegisterSeats DEF JoinQueueAndPair
  <1>3. \A x \in Matches : players'[x] = IF x = m THEN {u, v} ELSE players[x]
    BY DEF JoinQueueAndPair, Register, TypeInv, TypeOK, RegistryTypeOK
  <1>4. IsFiniteSet({u, v}) /\ Cardinality({u, v}) <= 2
    <2>1. IsFiniteSet({u}) /\ Cardinality({u}) = 1 BY FS_Singleton
    <2>2. {u} \cup {v} = {u, v} OBVIOUS
    <2> QED BY <2>1, <2>2, FS_AddElement
  <1>5. SeatsAreFew' BY <1>3, <1>4 DEF LobbyInv, SeatsAreFew
  <1>6. queue' = queue \ {e} BY DEF JoinQueueAndPair
  <1>7. PairedOnce'
    <2>1. \A f \in queue' : Owner[f] # u /\ Owner[f] # v
      BY <1>0, <1>6 DEF JoinQueueAndPair, IsQueued, EntriesOf, LobbyInv, PairedOnce
    <2>2. \A f \in queue' : seat'[Owner[f]] = None
      BY <1>6, <2>1, QueuedIsIdle, OwnerAssumption
      DEF JoinQueueAndPair, Register
    <2>3. \A x \in live' : Cardinality(players'[x]) <= 2
      BY <1>3, <1>4 DEF JoinQueueAndPair, Register, LobbyInv, PairedOnce, TypeInv, TypeOK,
                        RegistryTypeOK
    <2> QED BY <1>6, <2>2, <2>3 DEF LobbyInv, PairedOnce
  <1>8. FreshIsNew'
    <2>1. match'[m].status = "WAITING" /\ \A x \in Matches \ {m} : match'[x] = match[x]
      BY DEF JoinQueueAndPair, Blank, TypeInv, TypeOK
    <2> QED BY <2>1 DEF JoinQueueAndPair, Register, LobbyInv, FreshIsNew, Status, TypeInv,
                        TypeOK, RegistryTypeOK
  <1>9. QueueIsOpen'
    BY <1>0, <1>6, QueuedIsIdle, SocketsAreTasks
    DEF JoinQueueAndPair, Move, QueueIsOpen, IsAt, TypeInv
  <1> QED BY <1>2, <1>5, <1>7, <1>8, <1>9 DEF LobbyInv

LEMMA RoomLobby ==
  ASSUME TypeInv, LobbyInv, NEW s \in Sockets, NEW m \in Matches,
         CreateRoom(s, m) \/ JoinRoom(s, m)
  PROVE  LobbyInv'
  <1> DEFINE u == Owner[s]
  <1>0. u \in Users /\ ~IsQueued(u) /\ seat[u] = None
    BY MatchOfTyped, FreeHasNoSeat DEF CreateRoom, JoinRoom, IsBusy
  <1>1. CASE CreateRoom(s, m)
    <2>1. SeatsAgree' BY <1>0, <1>1, RegisterSeats DEF CreateRoom
    <2>2. \A x \in Matches : players'[x] = IF x = m THEN {u} ELSE players[x]
      BY <1>1 DEF CreateRoom, Register, TypeInv, TypeOK, RegistryTypeOK
    <2>3. IsFiniteSet({u}) /\ Cardinality({u}) <= 2
      <3>1. IsFiniteSet({u}) /\ Cardinality({u}) = 1 BY FS_Singleton
      <3> QED BY <3>1
    <2>4. SeatsAreFew' BY <2>2, <2>3 DEF LobbyInv, SeatsAreFew
    <2>5. PairedOnce'
      <3>1. \A e \in queue : seat'[Owner[e]] = None
        BY <1>0, <1>1, QueuedIsIdle, OwnerAssumption
        DEF CreateRoom, Register, IsQueued, EntriesOf
      <3>2. \A x \in live' : Cardinality(players'[x]) <= 2
        BY <1>1, <2>2, <2>3 DEF CreateRoom, Register, LobbyInv, PairedOnce, TypeInv, TypeOK,
                                RegistryTypeOK
      <3> QED BY <1>1, <3>1, <3>2 DEF CreateRoom, LobbyInv, PairedOnce
    <2>6. FreshIsNew'
      <3>1. match'[m].status = "WAITING" /\ \A x \in Matches \ {m} : match'[x] = match[x]
        BY <1>1 DEF CreateRoom, Blank, TypeInv, TypeOK
      <3> QED BY <1>1, <3>1 DEF CreateRoom, Register, LobbyInv, FreshIsNew, Status, TypeInv,
                                TypeOK, RegistryTypeOK
    <2>7. QueueIsOpen' BY <1>1 DEF CreateRoom, LobbyInv, QueueIsOpen, IsAt
    <2> QED BY <2>1, <2>4, <2>5, <2>6, <2>7 DEF LobbyInv
  <1>2. CASE JoinRoom(s, m)
    <2>1. m \in live /\ Cardinality(players[m]) < 2 /\ IsFiniteSet(players[m])
      <3>1. IsFiniteSet(players[m]) BY DEF LobbyInv, SeatsAreFew
      <3>2. Cardinality(players[m]) \in Nat BY <3>1, FS_CardinalityType
      <3> QED BY <1>2, <3>1, <3>2 DEF JoinRoom, IsFull
    <2>2. /\ players'[m] = players[m] \cup {u}
          /\ \A x \in Matches \ {m} : players'[x] = players[x]
          /\ seat'[u] = m
          /\ \A v \in Users \ {u} : seat'[v] = seat[v]
          /\ live' = live
      BY <1>0, <1>2 DEF JoinRoom, Bind, TypeInv, TypeOK, RegistryTypeOK
    <2>3. SeatsAgree'
      <3> SUFFICES ASSUME NEW v \in Users, NEW x \in Matches
                   PROVE  seat'[v] = x <=> x \in live' /\ v \in players'[x]
        BY DEF SeatsAgree
      <3>1. seat[v] = x <=> x \in live /\ v \in players[x] BY DEF LobbyInv, SeatsAgree
      <3>2. x # None BY NoneAssumption
      <3> QED BY <1>0, <2>1, <2>2, <3>1, <3>2
    <2>4. IsFiniteSet(players'[m]) /\ Cardinality(players'[m]) <= 2
      <3> DEFINE P == players[m]
      <3>1. /\ IsFiniteSet(P \cup {u})
            /\ Cardinality(P \cup {u}) = IF u \in P THEN Cardinality(P) ELSE Cardinality(P) + 1
        BY <2>1, FS_AddElement
      <3>2. Cardinality(P) \in Nat BY <2>1, FS_CardinalityType
      <3> QED BY <2>1, <2>2, <3>1, <3>2
    <2>5. SeatsAreFew' BY <2>2, <2>4 DEF LobbyInv, SeatsAreFew
    <2>6. PairedOnce'
      <3>1. \A e \in queue : seat'[Owner[e]] = None
        BY <1>0, <2>2, QueuedIsIdle, OwnerAssumption DEF IsQueued, EntriesOf
      <3>2. \A x \in live' : Cardinality(players'[x]) <= 2
        BY <2>2, <2>4 DEF LobbyInv, PairedOnce, TypeInv, TypeOK, RegistryTypeOK
      <3> QED BY <1>2, <3>1, <3>2 DEF JoinRoom, LobbyInv, PairedOnce
    <2>7. FreshIsNew'
      <3>1. match[m] \in LiveMatch BY DEF TypeInv, TypeOK
      <3>2. match'[m].status = match[m].status /\ \A x \in Matches \ {m} : match'[x] = match[x]
        BY <1>2, <3>1 DEF JoinRoom, TypeInv, TypeOK, LiveMatch
      <3> QED BY <2>2, <3>2 DEF LobbyInv, FreshIsNew, Status, TypeInv, TypeOK, RegistryTypeOK
    <2>8. QueueIsOpen' BY <1>2 DEF JoinRoom, LobbyInv, QueueIsOpen, IsAt
    <2> QED BY <2>3, <2>5, <2>6, <2>7, <2>8 DEF LobbyInv
  <1> QED BY <1>1, <1>2

LEMMA SpawnLobby ==
  ASSUME TypeInv, LobbyInv, NEW s \in Sockets, s \notin queue, NEW l \in Loops,
         NEW m \in Matches, Spawn(s, l, m)
  PROVE  LobbyInv'
  <1>1. \A x \in Matches : match'[x].status = match[x].status
    <2> TAKE x \in Matches
    <2>1. match[x] \in LiveMatch BY DEF TypeInv, TypeOK
    <2>2. match'[x] = match[x] \/ match'[x] = [match[x] EXCEPT !.task = l]
      BY DEF Spawn, TypeInv, TypeOK
    <2> QED BY <2>1, <2>2 DEF LiveMatch
  <1>2. \A e \in queue : job'[e] = job[e]
    BY QueuedIsIdle, SocketsAreTasks DEF Spawn, TypeInv
  <1> QED BY <1>1, <1>2, QueuedIsIdle, LobbyStays DEF Spawn, Status

LEMMA MatchStartLobby ==
  ASSUME TypeInv, LobbyInv, NEW s \in Sockets,
         \/ \E l \in Loops : Launch(s, l)
         \/ \E m \in Matches, l \in Loops : StartMatch(s, l, m)
         \/ \E m \in Matches : LeaveMatch(s, m)
  PROVE  LobbyInv'
  <1>0. s \in Tasks BY SocketsAreTasks
  <1>1. s \notin queue
    BY QueuedIsIdle DEF Launch, StartMatch, LeaveMatch, IsAt
  <1>2. CASE \E l \in Loops : Launch(s, l)
    <2>1. job[s].on \in Matches BY <1>0, <1>2, OnTyped DEF Launch, IsAt, Unbound
    <2> QED BY <1>1, <1>2, <2>1, SpawnLobby DEF Launch
  <1>3. CASE \E m \in Matches, l \in Loops : StartMatch(s, l, m)
    BY <1>1, <1>3, SpawnLobby DEF StartMatch
  <1>4. CASE \E m \in Matches : LeaveMatch(s, m)
    BY <1>0, <1>1, <1>4, FinishLobby DEF LeaveMatch
  <1> QED BY <1>2, <1>3, <1>4

LEMMA LoopLobby ==
  ASSUME TypeInv, LobbyInv, NEW l \in Loops, LoopStep(l)
  PROVE  LobbyInv'
  <1> DEFINE m == job[l].on
  <1>0. l \in Tasks /\ l \notin queue BY SocketsAreTasks, QueuedIsIdle
  <1>m. ASSUME job[l].at \notin Unbound PROVE m \in Matches BY <1>0, <1>m, OnTyped
  <1>j. ASSUME NEW j, Move(l, j) PROVE \A e \in queue : job'[e] = job[e]
    BY <1>0, <1>j, QueuedIsIdle, SocketsAreTasks DEF Move, TypeInv
  <1>1. CASE Reject(l) \/ CreateRowClash(l)
    <2>1. m \in Matches
      BY <1>1, <1>m DEF Reject, CreateRowClash, LoopAt, IsAt, Unbound
    <2>2. Abort(l, m) /\ UNCHANGED registryVars BY <1>1 DEF Reject, CreateRowClash
    <2>3. /\ \A x \in Matches : Status(x) # "NEW" => match'[x].status # "NEW"
          /\ \A e \in queue : job'[e] = job[e]
      BY <2>1, <2>2, AbortLobby
    <2> QED BY <2>2, <2>3, QueuedIsIdle, LobbyStays
  <1>2. CASE BeginCharge(l) \/ CreateRow(l) \/ ExitLoop(l) \/ \E u \in Users : Charge(l, u)
    <2>1. UNCHANGED <<registryVars, match>>
      BY <1>2 DEF BeginCharge, CreateRow, ExitLoop, Charge, TasksOnly
    <2>2. \A e \in queue : job'[e] = job[e]
      BY <1>2, <1>j DEF BeginCharge, CreateRow, ExitLoop, Charge, OneOf
    <2> QED BY <2>1, <2>2, QueuedIsIdle, LobbyStays DEF Status
  <1>3. CASE Build(l) \/ Begin(l)
    <2>1. \A e \in queue : job'[e] = job[e] BY <1>3, <1>j DEF Build, Begin
    <2>2. \A x \in Matches : Status(x) # "NEW" => match'[x].status # "NEW"
      <3> TAKE x \in Matches
      <3>1. match[x] \in LiveMatch BY DEF TypeInv, TypeOK
      <3>2. \/ match'[x] = match[x]
            \/ match'[x] = [match[x] EXCEPT !.persisted = TRUE]
            \/ match'[x] = [match[x] EXCEPT !.energySpent = TRUE, !.status = "IN_PROGRESS"]
        <4>1. CASE Begin(l) BY <4>1 DEF Begin, TypeInv, TypeOK
        <4>2. CASE Build(l)
          <5>1. CASE x # m BY <4>2, <5>1 DEF Build, TypeInv, TypeOK
          <5>2. CASE x = m BY <3>1, <4>2, <5>2 DEF Build, TypeInv, TypeOK, LiveMatch
          <5> QED BY <5>1, <5>2
        <4> QED BY <1>3, <4>1, <4>2
      <3> QED BY <3>1, <3>2 DEF LiveMatch, Status
    <2> QED BY <1>3, <2>1, <2>2, QueuedIsIdle, LobbyStays DEF Build, Begin
  <1>4. CASE EndFight(l)
    BY <1>0, <1>4, <1>m, FinishLobby DEF EndFight, LoopAt, IsAt, Unbound
  <1> QED BY <1>1, <1>2, <1>3, <1>4 DEF LoopStep

LEMMA ContinueLobby ==
  ASSUME TypeInv, LobbyInv, NEW t \in Tasks, Continue(t)
  PROVE  LobbyInv'
  <1> DEFINE m == job[t].on
  <1>0. t \notin queue
    BY QueuedIsIdle DEF Continue, Claim, Pay, Unsave, Teardown, Refund, IsAt
  <1>1. CASE Claim(t) \/ Pay(t) \/ Unsave(t) \/ \E u \in Users : Refund(t, u)
    <2>1. UNCHANGED <<registryVars, match>> BY <1>1 DEF Claim, Pay, Unsave, Refund
    <2>2. \E j : Move(t, j) BY <1>1 DEF Claim, Pay, Unsave, Refund, OneOf
    <2>3. \A e \in queue : job'[e] = job[e]
      BY <1>0, <2>2, QueuedIsIdle, SocketsAreTasks DEF Move, TypeInv
    <2> QED BY <2>1, <2>3, QueuedIsIdle, LobbyStays DEF Status
  <1>2. CASE Teardown(t)
    <2>0. m \in Matches BY <1>2, OnTyped DEF Teardown, IsAt, Unbound
    <2>1. SeatsAgree'
      <3> SUFFICES ASSUME NEW u \in Users, NEW x \in Matches
                   PROVE  seat'[u] = x <=> x \in live' /\ u \in players'[x]
        BY DEF SeatsAgree
      <3>1. /\ seat[u] = x <=> x \in live /\ u \in players[x]
            /\ seat[u] = m <=> m \in live /\ u \in players[m]
        BY <2>0 DEF LobbyInv, SeatsAgree
      <3>2. players' = players /\ live' = live \ {m} BY <1>2 DEF Teardown, Unregister
      <3>3. CASE m \notin live BY <1>2, <3>1, <3>2, <3>3 DEF Teardown, Unregister
      <3>4. CASE m \in live
        <4>1. seat'[u] = IF u \in players[m] /\ seat[u] = m THEN None ELSE seat[u]
          BY <1>2, <3>4 DEF Teardown, Unregister
        <4> QED BY <2>0, <3>1, <3>2, <3>4, <4>1, NoneAssumption
      <3> QED BY <3>3, <3>4
    <2>2. players' = players /\ live' \subseteq live /\ queue' = queue
      BY <1>2 DEF Teardown, Unregister
    <2>3. \A e \in queue : seat'[Owner[e]] = None
      BY <1>2, QueuedIsIdle, OwnerAssumption DEF Teardown, Unregister
    <2>4. PairedOnce' BY <2>2, <2>3 DEF LobbyInv, PairedOnce
    <2>5. \A x \in Matches : Status(x) # "NEW" => match'[x].status # "NEW"
      <3> TAKE x \in Matches
      <3>1. match[x] \in LiveMatch BY DEF TypeInv, TypeOK
      <3>2. \/ match'[x] = match[x]
            \/ match'[x] = [match[x] EXCEPT !.grace = NoOne]
            \/ match'[x] = Blank("GONE")
        BY <1>2 DEF Teardown, TypeInv, TypeOK
      <3> QED BY <3>1, <3>2 DEF LiveMatch, Status, Blank
    <2>6. FreshIsNew'
      BY <2>2, <2>5 DEF LobbyInv, FreshIsNew, Status, TypeInv, TypeOK, RegistryTypeOK
    <2>7. QueueIsOpen'
      <3> SUFFICES ASSUME NEW e \in queue PROVE job'[e] = job[e]
        BY <2>2 DEF LobbyInv, QueueIsOpen, IsAt
      <3>1. job'[e] = Stopped(TimersOf(m, t))[e]
        BY <1>0, <1>2, QueuedIsIdle, SocketsAreTasks DEF Teardown, Stopped
      <3> QED BY <3>1, StoppedSpares
    <2>8. SeatsAreFew' BY <2>2 DEF LobbyInv, SeatsAreFew
    <2> QED BY <2>1, <2>4, <2>6, <2>7, <2>8 DEF LobbyInv
  <1> QED BY <1>1, <1>2 DEF Continue

LEMMA DbFailsLobby ==
  ASSUME TypeInv, LobbyInv, NEW t \in Tasks, DbFails(t)
  PROVE  LobbyInv'
  <1>1. t \notin queue BY QueuedIsIdle DEF DbFails
  <1>2. CASE t \in Loops /\ Abort(t, job[t].on)
    <2>1. job[t].on \in Matches BY OnTyped DEF DbFails, Unbound
    <2>2. /\ \A x \in Matches : Status(x) # "NEW" => match'[x].status # "NEW"
          /\ \A e \in queue : job'[e] = job[e]
      BY <1>2, <2>1, AbortLobby
    <2> QED BY <2>2, QueuedIsIdle, LobbyStays DEF DbFails
  <1>3. CASE UNCHANGED match /\ \E j : Move(t, j)
    <2>1. \A e \in queue : job'[e] = job[e]
      BY <1>1, <1>3, QueuedIsIdle, SocketsAreTasks DEF Move, TypeInv
    <2> QED BY <1>3, <2>1, QueuedIsIdle, LobbyStays DEF DbFails, Status
  <1> QED BY <1>2, <1>3 DEF DbFails

LEMMA HousekeepingLobby ==
  ASSUME TypeInv, LobbyInv, NEW w \in Sweepers, Housekeeping(w)
  PROVE  LobbyInv'
  <1>0. w \in Tasks /\ w \notin queue BY SocketsAreTasks, QueuedIsIdle
  <1>1. CASE SweepQueue(w)
    <2>1. queue' \subseteq queue BY <1>1 DEF SweepQueue, DropStale
    <2>2. PairedOnce' BY <1>1, <2>1 DEF SweepQueue, LobbyInv, PairedOnce
    <2> QED BY <1>1, <2>1, <2>2
        DEF SweepQueue, LobbyInv, SeatsAgree, FreshIsNew, SeatsAreFew, QueueIsOpen, IsAt, Status
  <1>2. CASE \E m \in Matches : SweepRoom(w, m)
    <2>1. \A e \in queue : job'[e] = job[e]
      BY <1>0, <1>2, QueuedIsIdle, SocketsAreTasks DEF SweepRoom, Move, TypeInv
    <2> QED BY <1>2, <2>1, QueuedIsIdle, LobbyStays DEF SweepRoom, TasksOnly, Status
  <1>3. CASE CloseIdleRoom(w)
    <2>1. job[w].on \in Matches BY <1>0, <1>3, OnTyped DEF CloseIdleRoom, IsAt, Unbound
    <2> QED BY <1>0, <1>3, <2>1, FinishLobby DEF CloseIdleRoom
  <1> QED BY <1>1, <1>2, <1>3 DEF Housekeeping

LEMMA ProcessLobby ==
  ASSUME TypeInv, LobbyInv, Crash \/ Restarting
  PROVE  LobbyInv'
  <1>1. CASE Crash
    <2>1. queue' = {} /\ live' = {} /\ players' = players /\ \A u \in Users : seat'[u] = None
      BY <1>1 DEF Crash, ForgetRegistry
    <2>2. SeatsAgree' BY <2>1, NoneAssumption DEF SeatsAgree
    <2> QED BY <2>1, <2>2 DEF LobbyInv, PairedOnce, FreshIsNew, SeatsAreFew, QueueIsOpen
  <1>2. CASE Restarting
    <2>1. UNCHANGED <<registryVars, match, job>>
      BY <1>2 DEF Restarting, Boot, Serve, BootRefund
    <2> QED BY <2>1, QueuedIsIdle, LobbyStays DEF Status
  <1> QED BY <1>1, <1>2

LEMMA NextLobby == TypeInv /\ LobbyInv /\ [Next]_vars => LobbyInv'
  <1> SUFFICES ASSUME TypeInv, LobbyInv, [Next]_vars PROVE LobbyInv'
    OBVIOUS
  <1>1. ASSUME NEW s \in Sockets, SocketStep(s) PROVE LobbyInv'
    BY <1>1, ConnectLobby, DropLobby, QueueLobby, RoomLobby, PairLobby, MatchStartLobby,
       GraceLobby DEF SocketStep
  <1>2. CASE UNCHANGED vars
    BY <1>2, QueuedIsIdle, LobbyStays DEF vars, Status
  <1> QED BY <1>1, <1>2, LoopLobby, GraceLobby, ContinueLobby, DbFailsLobby,
             HousekeepingLobby, ProcessLobby DEF Next

LEMMA LobbyAlways == Spec => [](TypeInv /\ LobbyInv)
  <1>1. Spec => []TypeInv BY InitTyped, NextTyped, PTL DEF Spec
  <1>2. Spec => []LobbyInv BY <1>1, LobbyInit, NextLobby, PTL DEF Spec
  <1> QED BY <1>1, <1>2, PTL

(* The index of users and the seats of the registered matches agree in every *)
(* reachable state: nobody plays two matches, and nobody stays "busy" with a *)
(* match that is gone (register, bind_player, unregister under the lock).    *)
THEOREM SeatsAlwaysAgree == Spec => []SeatsAgree
  <1>1. LobbyInv => SeatsAgree BY DEF LobbyInv
  <1> QED BY <1>1, LobbyAlways, PTL

(* No interleaving of joins, room requests, drops and teardowns queues a     *)
(* user twice, queues one who is seated, or seats a third player.            *)
THEOREM NeverPairedTwice == Spec => []PairedOnce
  <1>1. LobbyInv => PairedOnce BY DEF LobbyInv
  <1> QED BY <1>1, LobbyAlways, PTL

(* Whoever waits in the queue is listening: no opponent is ever taken from   *)
(* the queue whose socket has closed, although entries are found by user.    *)
THEOREM QueueAlwaysListens == Spec => []QueueIsListening
  <1>1. LobbyInv => QueueIsListening
    BY DEF LobbyInv, QueueIsOpen, QueueIsListening, IsAt
  <1> QED BY <1>1, LobbyAlways, PTL

-----------------------------------------------------------------------------
(* Payment.  The claim in save_result is what makes it safe to re-enter:    *)
(* until a row is claimed nothing was paid for it, and whoever claimed it   *)
(* is the only task that will ever pay.                                     *)
Unclaimed == {"none", "IN_PROGRESS"}
Paying(t, m) == job[t].at = "paying" /\ job[t].on = m

PayInv ==
  /\ \A m \in Matches : row[m] \in Unclaimed => paid[m] = 0 /\ \A t \in Tasks : ~Paying(t, m)
  /\ \A m \in Matches : \A t, x \in Tasks : Paying(t, m) /\ Paying(x, m) => t = x
  /\ \A m \in Matches : \A t \in Tasks : Paying(t, m) => paid[m] = 0
  /\ PaidOnce

\* No task starts to pay in this step.
NobodyNewPays == \A t \in Tasks : job'[t].at = "paying"
                                    => job[t].at = "paying" /\ job'[t].on = job[t].on

LEMMA PayInit == Init => PayInv
  BY DEF Init, Rest, At, PayInv, Paying, PaidOnce

LEMMA PayStays ==
  ASSUME TypeInv, PayInv, UNCHANGED paid, NobodyNewPays,
         \A m \in Matches : row'[m] \in Unclaimed => row[m] \in Unclaimed
  PROVE  PayInv'
  BY DEF PayInv, Paying, NobodyNewPays, PaidOnce

LEMMA MovePays ==
  ASSUME TypeInv, NEW t \in Tasks, NEW j, Move(t, j), j.at # "paying"
  PROVE  NobodyNewPays
  BY DEF Move, NobodyNewPays, TypeInv

LEMMA RestAt == /\ \A t : Rest(t).at # "paying"
                /\ \A t : After(t).at # "paying"
                /\ Open.at # "paying"
                /\ \A p, m, n : At(p, m, n).at = p
                /\ \A p, m, n, L : [At(p, m, n) EXCEPT !.left = L].at = p
  BY DEF Rest, After, Open, At

LEMMA StoppedPays ==
  ASSUME TypeInv, NEW S, NEW t \in Tasks, Stopped(S)[t].at = "paying"
  PROVE  job[t].at = "paying" /\ Stopped(S)[t].on = job[t].on
  BY RestAt DEF Stopped, TypeInv, Working, Job

LEMMA FinishPays ==
  ASSUME TypeInv, NEW t \in Tasks, NEW m, NEW n, Finish(t, m, n) \/ CancelRoom(t, m, n)
  PROVE  NobodyNewPays
  <1> SUFFICES ASSUME NEW x \in Tasks, job'[x].at = "paying"
               PROVE  job[x].at = "paying" /\ job'[x].on = job[x].on
    BY DEF NobodyNewPays
  <1>1. CASE Finish(t, m, n)
    <2> DEFINE S == LoopOf(m, t) \cup TimersOf(m, t)
    <2>1. x # t BY <1>1, RestAt DEF Finish, Stopped
    <2>2. job'[x] = Stopped(S)[x] BY <1>1, <2>1 DEF Finish, Stopped
    <2> QED BY <2>2, StoppedPays
  <1>2. CASE CancelRoom(t, m, n)
    <2>1. x # t BY <1>2, RestAt DEF CancelRoom, Stopped
    <2>2. job'[x] = Stopped(LoopOf(m, t))[x] BY <1>2, <2>1 DEF CancelRoom, Stopped
    <2> QED BY <2>2, StoppedPays
  <1> QED BY <1>1, <1>2

LEMMA AbortPays ==
  ASSUME TypeInv, NEW t \in Tasks, NEW m, Abort(t, m)
  PROVE  NobodyNewPays
  <1> DEFINE aside == At(IF match[m].persisted THEN "unsaving" ELSE "teardown", m, "idle")
             back  == [At("refunding", m, "idle") EXCEPT !.left = players[m]]
  <1>1. At("teardown", m, "idle").at # "paying" /\ aside.at # "paying" /\ back.at # "paying"
    BY RestAt
  <1>2. \E j \in {At("teardown", m, "idle"), aside, back} : Move(t, j)
    BY DEF Abort
  <1> QED BY <1>1, <1>2, MovePays

\* Nothing a socket does starts a payment: only the claim does.
LEMMA SocketPays ==
  ASSUME TypeInv, NEW s \in Sockets, SocketStep(s)
  PROVE  NobodyNewPays
  <1>0. s \in Tasks BY SocketsAreTasks
  <1>1. CASE Connect(s) BY <1>0, <1>1, MovePays, RestAt DEF Connect
  <1>2. CASE Greet(s)
    <2>1. CASE job[s].on = None BY <1>0, <1>2, <2>1, MovePays, RestAt DEF Greet
    <2>2. CASE job[s].on # None
      <3> SUFFICES ASSUME NEW x \in Tasks, job'[x].at = "paying"
                   PROVE  job[x].at = "paying" /\ job'[x].on = job[x].on
        BY DEF NobodyNewPays
      <3>1. job[x] \in Job BY DEF TypeInv, TypeOK
      <3>2. job'[x] \in {Open, Rest(x), job[x]}
        BY <1>2, <2>2 DEF Greet
      <3> QED BY <3>1, <3>2, RestAt DEF Job
    <2> QED BY <2>1, <2>2
  <1>3. CASE DropQueued(s) BY <1>0, <1>3, MovePays, RestAt DEF DropQueued
  <1>4. CASE DropQuietly(s) BY <1>0, <1>4, MovePays, RestAt DEF DropQuietly
  <1>5. CASE DropFromLobby(s) BY <1>0, <1>5, FinishPays DEF DropFromLobby
  <1>6. CASE DropFromFight(s)
    <2>1. [At("notifying", MatchOf(Owner[s]), "closed") EXCEPT !.who = Owner[s]].at # "paying"
      BY DEF At
    <2> QED BY <1>0, <1>6, <2>1, MovePays DEF DropFromFight
  <1>7. CASE \/ JoinQueue(s) \/ LeaveQueue(s)
             \/ \E m \in Matches : CreateRoom(s, m) \/ JoinRoom(s, m)
    BY <1>7 DEF JoinQueue, LeaveQueue, CreateRoom, JoinRoom, NobodyNewPays
  <1>8. CASE \E m \in Matches, e \in Sockets : JoinQueueAndPair(s, e, m)
    BY <1>0, <1>8, MovePays, RestAt DEF JoinQueueAndPair
  <1>9. CASE \/ \E l \in Loops : Launch(s, l)
             \/ \E m \in Matches, l \in Loops : StartMatch(s, l, m)
    <2>1. \E l \in Loops : \E m : Spawn(s, l, m) BY <1>9 DEF Launch, StartMatch
    <2> PICK l \in Loops : \E m : Spawn(s, l, m) BY <2>1
    <2> PICK m : Spawn(s, l, m) OBVIOUS
    <2> QED BY <1>0, SocketsAreTasks, RestAt DEF Spawn, NobodyNewPays, TypeInv
  <1>10. CASE \E m \in Matches : LeaveMatch(s, m) BY <1>0, <1>10, FinishPays DEF LeaveMatch
  <1>11. CASE \E g \in Graces : StartGrace(s, g)
    <2> PICK g \in Graces : StartGrace(s, g) BY <1>11
    <2>1. [job[s] EXCEPT !.at = "sleeping", !.then = "idle"].at # "paying"
      BY <1>0 DEF TypeInv, Working, Job
    <2> QED BY <1>0, <2>1, SocketsAreTasks, RestAt DEF StartGrace, NobodyNewPays, TypeInv
  <1> QED BY <1>1, <1>2, <1>3, <1>4, <1>5, <1>6, <1>7, <1>8, <1>9, <1>10, <1>11 DEF SocketStep

LEMMA SocketKeepsRows ==
  ASSUME NEW s \in Sockets, SocketStep(s)
  PROVE  UNCHANGED <<row, paid>>
  BY DEF SocketStep, Connect, Greet, DropQueued, DropQuietly, DropFromLobby, DropFromFight,
         JoinQueue, LeaveQueue, CreateRoom, JoinRoom, LeaveMatch, JoinQueueAndPair, StartMatch,
         Launch, Spawn, StartGrace, CancelRoom, Finish, TasksOnly, MemoryOnly, dbVars

LEMMA LoopPays ==
  ASSUME TypeInv, NEW l \in Loops, LoopStep(l)
  PROVE  NobodyNewPays
  <1>0. l \in Tasks /\ job[l] \in Job BY SocketsAreTasks DEF TypeInv, TypeOK
  <1>1. CASE Reject(l) \/ CreateRowClash(l) BY <1>0, <1>1, AbortPays DEF Reject, CreateRowClash
  <1>2. CASE BeginCharge(l)
    <2>1. [job[l] EXCEPT !.at = "charging", !.left = players[job[l].on]].at # "paying"
      BY <1>0 DEF Job
    <2> QED BY <1>0, <1>2, <2>1, MovePays DEF BeginCharge
  <1>3. CASE Build(l) \/ CreateRow(l) \/ Begin(l)
    <2>1. \A p \in Points : [job[l] EXCEPT !.at = p].at = p BY <1>0 DEF Job
    <2> QED BY <1>0, <1>3, <2>1, MovePays DEF Build, CreateRow, Begin, Points
  <1>4. CASE EndFight(l) BY <1>0, <1>4, FinishPays DEF EndFight
  <1>5. CASE ExitLoop(l) BY <1>0, <1>5, MovePays, RestAt DEF ExitLoop
  <1>6. CASE \E u \in Users : Charge(l, u)
    <2> PICK u \in Users : Charge(l, u) BY <1>6
    <2>1. [job[l] EXCEPT !.at = "building", !.left = {}].at # "paying"
          /\ [job[l] EXCEPT !.left = @ \ {u}].at = "charging"
      BY <1>0 DEF Job, Charge, LoopAt, IsAt
    <2> QED BY <1>0, <2>1, MovePays DEF Charge, OneOf
  <1> QED BY <1>1, <1>2, <1>3, <1>4, <1>5, <1>6 DEF LoopStep

LEMMA LoopKeepsRows ==
  ASSUME TypeInv, NEW l \in Loops, LoopStep(l)
  PROVE  /\ UNCHANGED paid
         /\ \A m \in Matches : row'[m] \in Unclaimed => row[m] \in Unclaimed
  <1>1. CASE CreateRow(l) BY <1>1 DEF CreateRow, Unclaimed, TypeInv, TypeOK
  <1>2. CASE ~CreateRow(l)
    BY <1>2 DEF LoopStep, Reject, BeginCharge, Build, CreateRowClash, Begin, EndFight, ExitLoop,
                Charge, Finish, TasksOnly, MemoryOnly, dbVars
  <1> QED BY <1>1, <1>2

LEMMA GracePays ==
  ASSUME TypeInv, NEW g \in Graces, GraceStep(g)
  PROVE  NobodyNewPays /\ UNCHANGED <<row, paid>>
  <1>0. g \in Tasks BY SocketsAreTasks
  <1>1. CASE GraceLapses(g)
    BY <1>0, <1>1, MovePays, RestAt DEF GraceLapses, TasksOnly, dbVars
  <1>2. CASE GraceForfeits(g)
    BY <1>0, <1>2, FinishPays DEF GraceForfeits, Finish, MemoryOnly, dbVars
  <1> QED BY <1>1, <1>2 DEF GraceStep

\* The claim: the row leaves the unclaimed states as its one payer appears.
LEMMA ClaimPays ==
  ASSUME TypeInv, PayInv, NEW t \in Tasks, Claim(t)
  PROVE  PayInv'
  <1> DEFINE m == job[t].on
  <1>0. m \in Matches /\ job[t] \in Job
    BY OnTyped DEF Claim, IsAt, Unbound, TypeInv, TypeOK
  <1>1. CASE row[m] = "IN_PROGRESS"
    <2>1. paid[m] = 0 /\ \A x \in Tasks : ~Paying(x, m)
      BY <1>0, <1>1 DEF PayInv, Unclaimed
    <2>2. row'[m] = "FINISHED" /\ paid' = paid /\ \A x \in Matches \ {m} : row'[x] = row[x]
      BY <1>0, <1>1 DEF Claim, TypeInv, TypeOK
    <2>3. job' = [job EXCEPT ![t] = [job[t] EXCEPT !.at = "paying"]]
      BY <1>1 DEF Claim, Move
    <2>4. job'[t].on = m BY <1>0, <2>3 DEF TypeInv, Job
    <2>5. \A x \in Tasks \ {t} : job'[x] = job[x] BY <2>3
    <2>6. \A x \in Tasks, y \in Matches :
            Paying(x, y)' => IF x = t THEN y = m ELSE Paying(x, y)
      BY <2>4, <2>5 DEF Paying
    <2>7. \A y \in Matches : row'[y] \in Unclaimed
                               => paid'[y] = 0 /\ \A x \in Tasks : ~Paying(x, y)'
      BY <2>1, <2>2, <2>6 DEF PayInv, Unclaimed
    <2>8. \A y \in Matches : \A x, z \in Tasks : Paying(x, y)' /\ Paying(z, y)' => x = z
      BY <2>1, <2>6 DEF PayInv
    <2>9. \A y \in Matches : \A x \in Tasks : Paying(x, y)' => paid'[y] = 0
      BY <2>1, <2>2, <2>6 DEF PayInv
    <2>10. PaidOnce' BY <2>2 DEF PayInv, PaidOnce
    <2> QED BY <2>7, <2>8, <2>9, <2>10 DEF PayInv
  <1>2. CASE row[m] # "IN_PROGRESS"
    <2>1. [job[t] EXCEPT !.at = "teardown"].at # "paying" BY <1>0 DEF Job
    <2>2. AfterSave(t).at # "paying" BY <2>1, RestAt DEF AfterSave
    <2> QED BY <1>2, <2>2, MovePays, PayStays DEF Claim
  <1> QED BY <1>1, <1>2

\* The payment: the one payer of a match pays it and is done.
LEMMA PayPays ==
  ASSUME TypeInv, PayInv, NEW t \in Tasks, Pay(t)
  PROVE  PayInv'
  <1> DEFINE m == job[t].on
  <1>0. m \in Matches /\ job[t] \in Job
    BY OnTyped DEF Pay, IsAt, Unbound, TypeInv, TypeOK
  <1>1. Paying(t, m) /\ paid[m] = 0 /\ row[m] \notin Unclaimed
    BY <1>0 DEF Pay, IsAt, Paying, PayInv
  <1>2. NobodyNewPays /\ job'[t].at # "paying"
    <2>1. [job[t] EXCEPT !.at = "teardown"].at # "paying" BY <1>0 DEF Job
    <2>2. AfterSave(t).at # "paying" BY <2>1, RestAt DEF AfterSave
    <2> QED BY <2>2, MovePays DEF Pay, Move, TypeInv
  <1>3. paid'[m] = 1 /\ row' = row /\ \A x \in Matches \ {m} : paid'[x] = paid[x]
    BY <1>0, <1>1 DEF Pay, TypeInv, TypeOK
  <1>4. \A x \in Tasks, y \in Matches : Paying(x, y)' => Paying(x, y) /\ y # m
    <2> TAKE x \in Tasks, y \in Matches
    <2>1. Paying(x, y)' => Paying(x, y) /\ x # t BY <1>2 DEF Paying, NobodyNewPays
    <2>2. Paying(x, m) => x = t BY <1>0, <1>1 DEF PayInv
    <2> QED BY <2>1, <2>2
  <1>5. \A y \in Matches : row'[y] \in Unclaimed
                             => paid'[y] = 0 /\ \A x \in Tasks : ~Paying(x, y)'
    BY <1>1, <1>3, <1>4 DEF PayInv
  <1>6. \A y \in Matches : \A x, z \in Tasks : Paying(x, y)' /\ Paying(z, y)' => x = z
    BY <1>4 DEF PayInv
  <1>7. \A y \in Matches : \A x \in Tasks : Paying(x, y)' => paid'[y] = 0
    BY <1>3, <1>4 DEF PayInv
  <1>8. PaidOnce' BY <1>3 DEF PayInv, PaidOnce
  <1> QED BY <1>5, <1>6, <1>7, <1>8 DEF PayInv

LEMMA ContinuePays ==
  ASSUME TypeInv, PayInv, NEW t \in Tasks, Continue(t)
  PROVE  PayInv'
  <1>0. job[t] \in Job BY DEF TypeInv, TypeOK
  <1>1. CASE Unsave(t)
    <2>1. [job[t] EXCEPT !.at = "teardown"].at # "paying" BY <1>0 DEF Job
    <2>2. \A m \in Matches : row'[m] \in Unclaimed => row[m] \in Unclaimed
      BY <1>1 DEF Unsave, Unclaimed, TypeInv, TypeOK
    <2> QED BY <1>1, <2>1, <2>2, MovePays, PayStays DEF Unsave
  <1>2. CASE \E u \in Users : Refund(t, u)
    <2> PICK u \in Users : Refund(t, u) BY <1>2
    <2>1. [job[t] EXCEPT !.left = @ \ {u}].at # "paying" BY <1>0 DEF Job, Refund, IsAt
    <2> DEFINE next == At(IF match[job[t].on].persisted THEN "unsaving" ELSE "teardown",
                          job[t].on, "idle")
    <2>2. next.at # "paying" BY RestAt
    <2>3. \E j \in {next, [job[t] EXCEPT !.left = @ \ {u}]} : Move(t, j)
      BY DEF Refund, OneOf
    <2>4. NobodyNewPays BY <2>1, <2>2, <2>3, MovePays
    <2> QED BY <2>4, PayStays DEF Refund
  <1>3. CASE Teardown(t)
    <2>1. NobodyNewPays
      <3> SUFFICES ASSUME NEW x \in Tasks, job'[x].at = "paying"
                   PROVE  job[x].at = "paying" /\ job'[x].on = job[x].on
        BY DEF NobodyNewPays
      <3>1. x # t BY <1>3, RestAt DEF Teardown, Stopped
      <3>2. job'[x] = Stopped(TimersOf(job[t].on, t))[x] BY <1>3, <3>1 DEF Teardown, Stopped
      <3> QED BY <3>2, StoppedPays
    <2> QED BY <1>3, <2>1, PayStays DEF Teardown, MemoryOnly, dbVars
  <1> QED BY <1>1, <1>2, <1>3, ClaimPays, PayPays DEF Continue

LEMMA DbFailsPays ==
  ASSUME TypeInv, NEW t \in Tasks, DbFails(t)
  PROVE  NobodyNewPays /\ UNCHANGED <<row, paid>>
  BY AbortPays, MovePays, RestAt DEF DbFails, dbVars

LEMMA HousekeepingPays ==
  ASSUME TypeInv, NEW w \in Sweepers, Housekeeping(w)
  PROVE  NobodyNewPays /\ UNCHANGED <<row, paid>>
  <1>0. w \in Tasks BY SocketsAreTasks
  <1>1. CASE SweepQueue(w) BY <1>1 DEF SweepQueue, MemoryOnly, dbVars, NobodyNewPays
  <1>2. CASE \E m \in Matches : SweepRoom(w, m)
    BY <1>0, <1>2, MovePays, RestAt DEF SweepRoom, TasksOnly, dbVars
  <1>3. CASE CloseIdleRoom(w)
    BY <1>0, <1>3, FinishPays DEF CloseIdleRoom, CancelRoom, MemoryOnly, dbVars
  <1> QED BY <1>1, <1>2, <1>3 DEF Housekeeping

LEMMA ProcessPays ==
  ASSUME TypeInv, Crash \/ Restarting
  PROVE  /\ NobodyNewPays /\ UNCHANGED paid
         /\ \A m \in Matches : row'[m] \in Unclaimed => row[m] \in Unclaimed
  <1>1. CASE Crash BY <1>1, RestAt DEF Crash, NobodyNewPays, dbVars
  <1>2. CASE Restarting
    BY <1>2 DEF Restarting, Boot, Serve, BootRefund, NobodyNewPays, dbVars, Unclaimed, TypeInv,
                TypeOK
  <1> QED BY <1>1, <1>2

LEMMA NextPays == TypeInv /\ PayInv /\ [Next]_vars => PayInv'
  <1> SUFFICES ASSUME TypeInv, PayInv, [Next]_vars PROVE PayInv'
    OBVIOUS
  <1>1. ASSUME NobodyNewPays, UNCHANGED <<row, paid>> PROVE PayInv'
    BY <1>1, PayStays
  <1>2. ASSUME NEW s \in Sockets, SocketStep(s) PROVE PayInv'
    BY <1>1, <1>2, SocketPays, SocketKeepsRows
  <1>3. ASSUME NEW l \in Loops, LoopStep(l) PROVE PayInv'
    BY <1>3, LoopPays, LoopKeepsRows, PayStays
  <1>4. CASE Crash \/ Restarting BY <1>4, ProcessPays, PayStays
  <1>5. CASE UNCHANGED vars BY <1>1, <1>5 DEF vars, dbVars, NobodyNewPays
  <1> QED BY <1>1, <1>2, <1>3, <1>4, <1>5, GracePays, ContinuePays, DbFailsPays,
             HousekeepingPays DEF Next

(* However often a match is started, forfeited, aborted or re-entered, in   *)
(* whatever order its tasks are cancelled and whenever the process dies,    *)
(* save_result hands out its rewards at most once.                          *)
THEOREM NeverPaidTwice == Spec => []PaidOnce
  <1>1. Spec => []TypeInv BY InitTyped, NextTyped, PTL DEF Spec
  <1>2. Spec => []PayInv BY <1>1, PayInit, NextPays, PTL DEF Spec
  <1>3. PayInv => PaidOnce BY DEF PayInv
  <1> QED BY <1>2, <1>3, PTL

-----------------------------------------------------------------------------
(* Energy.  With clients that start a match once (~DoubleStart), a match    *)
(* has at most one STARTER: the handler that is still telling the players   *)
(* about a pairing, or the `_run_match' it spawned.  How far the starter    *)
(* has come says exactly who was charged and who was refunded; when it is   *)
(* gone, the row and `energy_spent' do.                                     *)
Starter(t, m) == job[t].on = m /\ (t \in Loops \/ job[t].at = "announcing")

Early  == {"announcing", "countdown", "charging", "building"}
Before == Early \cup {"creating", "refunding"}

\* Exactly the players in S count one, everybody else none.
Once(tally, S) == \A u \in Users : tally[u] = IF u \in S THEN 1 ELSE 0

Untouched(m) == /\ Once(charged[m], {}) /\ Once(refunded[m], {})
                /\ row[m] = "none" /\ ~match[m].energySpent
AllTaken(m)  == Once(charged[m], players[m]) /\ Once(refunded[m], {})

\* Whom the starter has charged, and whom it has handed the energy back.
Took(t) == IF job[t].at \in {"announcing", "countdown"} THEN {}
           ELSE IF job[t].at = "charging" THEN players[job[t].on] \ job[t].left
           ELSE players[job[t].on]
GaveBack(t) == IF job[t].at = "refunding" THEN players[job[t].on] \ job[t].left ELSE {}

Staged(t, m) ==
  job[t].at \in Before =>
    /\ row[m] = "none" /\ Once(charged[m], Took(t)) /\ Once(refunded[m], GaveBack(t))
    /\ job[t].at # "creating" => ~match[m].energySpent
    /\ job[t].at \in {"charging", "refunding"} => job[t].left \subseteq players[m]

OneStarter(m) == \A t, x \in Tasks : Starter(t, m) /\ Starter(x, m) => t = x
StartersAreStaged(m) == \A t \in Tasks : Starter(t, m) => Staged(t, m) /\ IsFull(m)
FreshIsUntouched(m) ==
  Status(m) = "NEW" => Untouched(m) /\ \A t \in Tasks : ~Starter(t, m)
LobbyIsEarly(m) ==
  Status(m) = "WAITING" => /\ \A t \in Tasks : Starter(t, m) => job[t].at \in Early
                           /\ (\A t \in Tasks : ~Starter(t, m)) => Untouched(m)
RunningIsTaken(m) == row[m] = "IN_PROGRESS" \/ match[m].energySpent => AllTaken(m)

\* A match task is the one its match refers to, until it is cancelled inside the
\* shielded save; and it saves only what is FINISHED.
TaskIsKnown(m) ==
  \A l \in Loops : job[l].on = m =>
    IF job[l].then = "lost" THEN job[l].at \in {"claiming", "paying"}
    ELSE /\ match[m].task = l
         /\ job[l].at \in {"claiming", "paying"} => Status(m) = "FINISHED"

FairTo(m) == \A u \in Users : refunded[m][u] <= charged[m][u] /\ charged[m][u] <= 1

StartOK(m) == /\ OneStarter(m) /\ StartersAreStaged(m) /\ FreshIsUntouched(m)
              /\ LobbyIsEarly(m) /\ RunningIsTaken(m) /\ TaskIsKnown(m) /\ FairTo(m)

EachAtItsPlace ==
  \A t \in Tasks :
    /\ job[t].at = "announcing" => t \in Sockets /\ job[t] = At("announcing", job[t].on, "open")
    /\ job[t].at = "refunding"  => t \in Loops
DeadIsStill == proc # "up" => /\ \A t \in Tasks : job[t] = Rest(t)
                              /\ \A m \in Matches : ~match[m].energySpent
StrandedIsOwed ==
  \A m \in Matches, u \in Users : <<m, u>> \in stranded =>
    /\ proc = "booting" /\ row[m] = "ABANDONED"
    /\ charged[m][u] = 1 /\ refunded[m][u] = 0

StartInv == /\ \A m \in Matches : StartOK(m)
            /\ EachAtItsPlace /\ DeadIsStill /\ StrandedIsOwed

LEMMA RestOf == /\ \A t : Rest(t).on = None /\ Rest(t).at \in {"closed", "idle"} /\ Rest(t).left = {}
                /\ Open.on = None /\ Open.at = "open"
                /\ \A t : After(t).on = None /\ After(t).at \in {"closed", "idle", "open"}
                /\ \A p, m, n : /\ At(p, m, n).at = p /\ At(p, m, n).on = m
                                /\ At(p, m, n).then = n /\ At(p, m, n).left = {}
                /\ \A p, m, n, L : LET j == [At(p, m, n) EXCEPT !.left = L]
                                   IN j.at = p /\ j.on = m /\ j.then = n /\ j.left = L
  BY DEF Rest, After, Open, At

LEMMA StartInit == Init => StartInv
  <1> SUFFICES ASSUME Init PROVE StartInv
    OBVIOUS
  <1>1. \A t \in Tasks : job[t] = Rest(t) BY DEF Init
  <1>2. ASSUME NEW m \in Matches PROVE StartOK(m)
    <2>0. m # None BY NoneAssumption
    <2>1. \A t \in Tasks : ~Starter(t, m) /\ job[t].on # m
      BY <1>1, <2>0, RestOf DEF Starter
    <2>2. Untouched(m) BY DEF Init, Untouched, Once, Nothing, Blank
    <2>3. FairTo(m) BY <2>2 DEF Untouched, Once, FairTo
    <2>4. row[m] = "none" /\ ~match[m].energySpent BY <2>2 DEF Untouched
    <2>5. TaskIsKnown(m) BY <2>1, SocketsAreTasks DEF TaskIsKnown
    <2> QED BY <2>1, <2>2, <2>3, <2>4, <2>5
        DEF StartOK, OneStarter, StartersAreStaged, FreshIsUntouched, LobbyIsEarly, RunningIsTaken
  <1>3. EachAtItsPlace BY <1>1, RestOf DEF EachAtItsPlace
  <1>4. DeadIsStill /\ StrandedIsOwed BY DEF Init, DeadIsStill, StrandedIsOwed
  <1> QED BY <1>2, <1>3, <1>4 DEF StartInv

\* A match whose books stay as they are, and whose starter stays where it is, goes
\* past the start, or leaves the match.
LEMMA StartShrinks ==
  ASSUME NEW m \in Matches, StartOK(m),
         players'[m] = players[m], charged'[m] = charged[m], refunded'[m] = refunded[m],
         match'[m].energySpent => match[m].energySpent,
         row'[m] = row[m] \/ (row[m] # "none" /\ row'[m] \notin {"none", "IN_PROGRESS"}),
         match'[m].status \in {"NEW", "WAITING"} => match'[m].status = match[m].status,
         \A t \in Tasks : Starter(t, m)'
                            => Starter(t, m) /\ (job'[t] = job[t] \/ job'[t].at \notin Before),
         \A t \in Tasks : Starter(t, m) => \/ job'[t] = job[t] \/ job[t].at \notin Early
                                           \/ match'[m].status # "WAITING",
         TaskIsKnown(m)'
  PROVE  StartOK(m)'
  <1>1. OneStarter(m)' BY DEF StartOK, OneStarter
  <1>2. StartersAreStaged(m)'
    <2> SUFFICES ASSUME NEW t \in Tasks, Starter(t, m)' PROVE Staged(t, m)' /\ IsFull(m)'
      BY DEF StartersAreStaged
    <2>1. Starter(t, m) /\ Staged(t, m) /\ IsFull(m) BY DEF StartOK, StartersAreStaged
    <2>2. IsFull(m)' BY <2>1 DEF IsFull
    <2>3. CASE job'[t] = job[t]
      <3>1. job[t].on = m BY <2>1 DEF Starter
      <3>2. Took(t)' = Took(t) /\ GaveBack(t)' = GaveBack(t)
        BY <2>3, <3>1 DEF Took, GaveBack
      <3> QED BY <2>1, <2>2, <2>3, <3>2 DEF Staged, Once
    <2>4. CASE job'[t].at \notin Before BY <2>2, <2>4 DEF Staged
    <2> QED BY <2>3, <2>4
  <1>3. FreshIsUntouched(m)'
    BY DEF StartOK, FreshIsUntouched, Untouched, Once, Status
  <1>4. LobbyIsEarly(m)'
    <2> SUFFICES ASSUME match'[m].status = "WAITING"
                 PROVE  /\ \A t \in Tasks : Starter(t, m)' => job'[t].at \in Early
                        /\ (\A t \in Tasks : ~Starter(t, m)') => Untouched(m)'
      BY DEF LobbyIsEarly, Status
    <2>1. /\ \A t \in Tasks : Starter(t, m) => job[t].at \in Early
          /\ (\A t \in Tasks : ~Starter(t, m)) => Untouched(m)
      BY DEF StartOK, LobbyIsEarly, Status
    <2>2. \A t \in Tasks : Starter(t, m) => job'[t] = job[t] BY <2>1
    <2>3. \A t \in Tasks : Starter(t, m)' => job'[t].at \in Early BY <2>1, <2>2
    <2>4. (\A t \in Tasks : ~Starter(t, m)') => \A t \in Tasks : ~Starter(t, m)
      BY <2>2 DEF Starter
    <2> QED BY <2>1, <2>3, <2>4 DEF Untouched, Once
  <1>5. RunningIsTaken(m)'
    BY DEF StartOK, RunningIsTaken, AllTaken, Once
  <1>6. FairTo(m)' BY DEF StartOK, FairTo
  <1> QED BY <1>1, <1>2, <1>3, <1>4, <1>5, <1>6 DEF StartOK

\* In particular a match nothing happens to.
LEMMA StartStays ==
  ASSUME NEW m \in Matches, StartOK(m),
         players'[m] = players[m], charged'[m] = charged[m], refunded'[m] = refunded[m],
         row'[m] = row[m], match'[m].energySpent = match[m].energySpent,
         match'[m].status = match[m].status, match'[m].task = match[m].task,
         \A t \in Tasks : Starter(t, m) \/ Starter(t, m)' => job'[t] = job[t]
  PROVE  StartOK(m)'
  <1>1. \A t \in Tasks : Starter(t, m)' => Starter(t, m) BY DEF Starter
  <1>2. TaskIsKnown(m)'
    <2> SUFFICES ASSUME NEW l \in Loops, job'[l].on = m
                 PROVE  IF job'[l].then = "lost" THEN job'[l].at \in {"claiming", "paying"}
                        ELSE /\ match'[m].task = l
                             /\ job'[l].at \in {"claiming", "paying"} => match'[m].status = "FINISHED"
      BY DEF TaskIsKnown, Status
    <2>1. job'[l] = job[l] BY SocketsAreTasks DEF Starter
    <2> QED BY <2>1 DEF StartOK, TaskIsKnown, Status
  <1> QED BY <1>1, <1>2, StartShrinks

\* Where the starter goes on with the start, only what it did has to be looked at.
LEMMA StartAdvances ==
  ASSUME NEW m \in Matches, NEW a \in Tasks,
         \A t \in Tasks : Starter(t, m)' <=> t = a,
         Staged(a, m)', IsFull(m)', RunningIsTaken(m)', FairTo(m)',
         match'[m].status # "NEW",
         match'[m].status = "WAITING" => job'[a].at \in Early,
         a \in Loops => /\ job'[a].then # "lost" /\ match'[m].task = a
                        /\ job'[a].at \notin {"claiming", "paying"}
  PROVE  StartOK(m)'
  <1>1. OneStarter(m)' BY DEF OneStarter
  <1>2. StartersAreStaged(m)' BY DEF StartersAreStaged
  <1>3. FreshIsUntouched(m)' BY DEF FreshIsUntouched, Status
  <1>4. LobbyIsEarly(m)' BY DEF LobbyIsEarly, Status
  <1>5. TaskIsKnown(m)'
    <2> SUFFICES ASSUME NEW l \in Loops, job'[l].on = m
                 PROVE  /\ job'[l].then # "lost" /\ match'[m].task = l
                        /\ job'[l].at \notin {"claiming", "paying"}
      BY DEF TaskIsKnown
    <2>1. l = a BY SocketsAreTasks DEF Starter
    <2> QED BY <2>1
  <1> QED BY <1>1, <1>2, <1>3, <1>4, <1>5 DEF StartOK

\* Every task that moves goes to a point behind the start, or leaves its match.
Receding ==
  \A t \in Tasks : \/ job'[t] = job[t]
                   \/ /\ job'[t].at \notin Before
                      /\ t \in Loops => job'[t].on \in {job[t].on, None}

LEMMA RecedesAt ==
  ASSUME Receding, NEW m \in Matches, NEW t \in Tasks, Starter(t, m)'
  PROVE  Starter(t, m) /\ (job'[t] = job[t] \/ job'[t].at \notin Before)
  BY NoneAssumption DEF Receding, Starter, Before, Early

LEMMA RecedingAnnounces ==
  ASSUME StartInv, Receding PROVE EachAtItsPlace'
  BY DEF StartInv, EachAtItsPlace, Receding, Before, Early

LEMMA MoveRecedes ==
  ASSUME TypeInv, NEW t \in Tasks, NEW j, Move(t, j), j.at \notin Before,
         t \in Loops => j.on \in {job[t].on, None}
  PROVE  Receding
  BY DEF Move, Receding, TypeInv

\* What a cancelled task does, and that it worked on the match that cancels it.
LEMMA StoppedOf ==
  ASSUME TypeInv, NEW S, NEW x \in Tasks
  PROVE  /\ x \notin S => Stopped(S)[x] = job[x]
         /\ x \in S => IF job[x].at \in {"claiming", "paying"}
                       THEN /\ Stopped(S)[x].at = job[x].at /\ Stopped(S)[x].on = job[x].on
                            /\ Stopped(S)[x].then = "lost"
                       ELSE Stopped(S)[x] = Rest(x)
  BY DEF Stopped, TypeInv, Working, Job

LEMMA ReachedOf ==
  ASSUME NEW m, NEW t, NEW x, x \in LoopOf(m, t) \cup TimersOf(m, t)
  PROVE  x # t /\ job[x].on = m /\ (x \in Loops => x \in LoopOf(m, t))
  BY TaskAssumption DEF LoopOf, TimersOf, TimerOf

\* Ending a match moves its own task, the match task and the grace timers, no other.
LEMMA EndingTasks ==
  ASSUME TypeInv, NEW t \in Tasks, NEW m \in Matches, NEW n,
         Finish(t, m, n) \/ CancelRoom(t, m, n)
  PROVE  /\ job'[t].at \in {"claiming", "unsaving", "teardown"}
         /\ ~match[m].persisted => job'[t].at = "teardown"
         /\ job'[t].on = m /\ job'[t].then = n
         /\ \A x \in Tasks \ {t} :
              /\ job[x].on # m => job'[x] = job[x]
              /\ x \in Sockets \cup Sweepers => job'[x] = job[x]
              /\ job'[x] = job[x] \/ job'[x].on = None
                   \/ (job'[x].at = job[x].at /\ job'[x].at \in {"claiming", "paying"}
                         /\ job'[x].on = job[x].on /\ job'[x].then = "lost")
              /\ job'[x].at \in Before => job'[x] = job[x]
              /\ x \in LoopOf(m, t) => job'[x].on = None
                   \/ (job'[x].at \in {"claiming", "paying"} /\ job'[x].then = "lost")
  <1> DEFINE S == IF Finish(t, m, n) THEN LoopOf(m, t) \cup TimersOf(m, t) ELSE LoopOf(m, t)
  <1>1. /\ job'[t].at \in {"claiming", "unsaving", "teardown"}
        /\ ~match[m].persisted => job'[t].at = "teardown"
        /\ job'[t].on = m /\ job'[t].then = n
        /\ \A x \in Tasks \ {t} : job'[x] = Stopped(S)[x]
    <2>1. CASE Finish(t, m, n)
      <3>1. job' = [Stopped(S) EXCEPT
                      ![t] = At(IF match[m].persisted THEN "claiming" ELSE "teardown", m, n)]
        BY <2>1 DEF Finish
      <3> HIDE DEF S
      <3> QED BY <3>1, RestOf DEF Stopped
    <2>2. CASE ~Finish(t, m, n)
      <3>1. job' = [Stopped(S) EXCEPT
                      ![t] = At(IF match[m].persisted THEN "unsaving" ELSE "teardown", m, n)]
        BY <2>2 DEF CancelRoom
      <3> HIDE DEF S
      <3> QED BY <3>1, RestOf DEF Stopped
    <2> QED BY <2>1, <2>2
  <1>2. S \subseteq LoopOf(m, t) \cup TimersOf(m, t) /\ LoopOf(m, t) \subseteq S
    OBVIOUS
  <1> HIDE DEF S
  <1>3. \A x \in Tasks \ {t} :
          /\ job[x].on # m => job'[x] = job[x]
          /\ x \in Sockets \cup Sweepers => job'[x] = job[x]
          /\ job'[x] = job[x] \/ job'[x].on = None
               \/ (job'[x].at = job[x].at /\ job'[x].at \in {"claiming", "paying"}
                     /\ job'[x].on = job[x].on /\ job'[x].then = "lost")
          /\ job'[x].at \in Before => job'[x] = job[x]
          /\ x \in LoopOf(m, t) => job'[x].on = None
               \/ (job'[x].at \in {"claiming", "paying"} /\ job'[x].then = "lost")
    <2> TAKE x \in Tasks \ {t}
    <2>1. job'[x] = Stopped(S)[x] BY <1>1
    <2>2. CASE x \notin S BY <1>2, <2>1, <2>2, StoppedOf
    <2>3. CASE x \in S
      <3>1. job[x].on = m /\ x \notin Sockets \cup Sweepers
        BY <1>2, <2>3, ReachedOf, TaskAssumption DEF LoopOf, TimersOf, TimerOf
      <3> QED BY <2>1, <2>3, <3>1, StoppedOf, RestOf DEF Before, Early
    <2> QED BY <2>2, <2>3
  <1> QED BY <1>1, <1>3

\* Ending a match: the loop that ends it keeps its match task, any other is cancelled.
LEMMA EndingStarts ==
  ASSUME TypeInv, StartInv, NEW t \in Tasks, NEW m \in Matches, NEW n,
         Finish(t, m, n) \/ CancelRoom(t, m, n),
         t \in Loops => /\ job[t].on = m /\ job[t].at = "running"
                        /\ n = "idle" /\ Finish(t, m, n),
         job[t].at # "announcing"
  PROVE  (\A x \in Matches : StartOK(x)') /\ Receding
  <1>0. m # None BY NoneAssumption
  <1>1. /\ job'[t].at \in {"claiming", "unsaving", "teardown"}
        /\ job'[t].on = m /\ job'[t].then = n
    BY EndingTasks
  <1>3. \A x \in Tasks \ {t} :
          /\ job[x].on # m => job'[x] = job[x]
          /\ job'[x] = job[x] \/ job'[x].on = None
               \/ (job'[x].at = job[x].at /\ job'[x].at \in {"claiming", "paying"}
                     /\ job'[x].on = job[x].on /\ job'[x].then = "lost")
          /\ job'[x].at \in Before => job'[x] = job[x]
          /\ x \in LoopOf(m, t) => job'[x].on = None
               \/ (job'[x].at \in {"claiming", "paying"} /\ job'[x].then = "lost")
    BY EndingTasks
  <1>4. Receding BY <1>1, <1>3 DEF Receding, Before, Early
  <1>5. /\ match'[m].status \in {"FINISHED", "CANCELLED"}
        /\ t \in Loops => match'[m].status = "FINISHED"
        /\ match'[m].energySpent = match[m].energySpent
        /\ match[m].task = t => match'[m].task = t
        /\ \A x \in Matches \ {m} : match'[x] = match[x]
    BY DEF Finish, CancelRoom, TypeInv, TypeOK, LiveMatch
  <1>6. \A x \in Matches : /\ players'[x] = players[x] /\ charged'[x] = charged[x]
                           /\ refunded'[x] = refunded[x] /\ row'[x] = row[x]
    BY DEF Finish, CancelRoom, MemoryOnly, dbVars, registryVars
  <1>7. TaskIsKnown(m)'
    <2> SUFFICES ASSUME NEW l \in Loops, job'[l].on = m
                 PROVE  IF job'[l].then = "lost" THEN job'[l].at \in {"claiming", "paying"}
                        ELSE /\ match'[m].task = l
                             /\ job'[l].at \in {"claiming", "paying"} => match'[m].status = "FINISHED"
      BY DEF TaskIsKnown, Status
    <2>0. l \in Tasks BY SocketsAreTasks
    <2>1. CASE l = t
      <3>1. match[m].task = t
        BY <2>1 DEF StartInv, StartOK, TaskIsKnown
      <3> QED BY <1>1, <1>5, <2>1, <3>1
    <2>2. CASE l # t
      <3>1. job[l].on = m BY <1>0, <1>3, <2>0, <2>2
      <3>2. CASE match[m].task = l
        <4>1. l \in LoopOf(m, t) BY <2>2, <3>1, <3>2 DEF LoopOf
        <4> QED BY <1>0, <1>3, <2>0, <2>2, <4>1
      <3>3. CASE match[m].task # l
        <4>1. job[l].then = "lost" /\ job[l].at \in {"claiming", "paying"}
          BY <3>1, <3>3 DEF StartInv, StartOK, TaskIsKnown
        <4> QED BY <1>0, <1>3, <2>0, <2>2, <4>1
      <3> QED BY <3>2, <3>3
    <2> QED BY <2>1, <2>2
  <1>8. StartOK(m)'
    <2>1. StartOK(m) BY DEF StartInv
    <2>2. \A x \in Tasks : Starter(x, m)'
                             => Starter(x, m) /\ (job'[x] = job[x] \/ job'[x].at \notin Before)
      BY <1>4, RecedesAt
    <2> QED BY <1>5, <1>6, <1>7, <2>1, <2>2, StartShrinks
  <1>9. ASSUME NEW x \in Matches \ {m} PROVE StartOK(x)'
    <2>1. StartOK(x) BY DEF StartInv
    <2>2. \A y \in Tasks : Starter(y, x) => y # t
      BY <1>9 DEF Starter
    <2>3. \A y \in Tasks : Starter(y, x) => job'[y] = job[y]
      BY <1>3, <1>9, <2>2 DEF Starter
    <2>4. \A y \in Tasks : Starter(y, x)' => y # t BY <1>1, <1>9 DEF Starter
    <2>5. x # None BY NoneAssumption
    <2>6. \A y \in Tasks : Starter(y, x)' => job'[y] = job[y]
      <3> SUFFICES ASSUME NEW y \in Tasks, Starter(y, x)' PROVE job'[y] = job[y]
        OBVIOUS
      <3>1. y # t /\ job'[y].on = x BY <2>4 DEF Starter
      <3> QED BY <1>3, <1>9, <2>5, <3>1
    <2> QED BY <1>5, <1>6, <2>1, <2>3, <2>6, StartStays
  <1> QED BY <1>4, <1>8, <1>9

\* A start that fails: nothing was taken and the match is torn down, or the energy
\* was spent and the refunds begin.
LEMMA AbortStarts ==
  ASSUME TypeInv, StartInv, NEW l \in Loops, NEW m \in Matches, job[l].on = m,
         job[l].then # "lost", Abort(l, m),
         job[l].at \in Early \cup {"creating", "claiming", "paying"},
         UNCHANGED <<registryVars, dbVars>>
  PROVE  (\A x \in Matches : StartOK(x)') /\ EachAtItsPlace'
  <1> DEFINE aside == At(IF match[m].persisted THEN "unsaving" ELSE "teardown", m, "idle")
             back  == [At("refunding", m, "idle") EXCEPT !.left = players[m]]
  <1>0. l \in Tasks /\ l \notin Sockets /\ m # None BY NoneAssumption, TaskAssumption, SocketsAreTasks
  <1>1. StartOK(m) /\ Starter(l, m) /\ match[m].task = l BY DEF StartInv, StartOK, TaskIsKnown, Starter
  <1>2. \A x \in Matches : /\ players'[x] = players[x] /\ charged'[x] = charged[x]
                           /\ refunded'[x] = refunded[x] /\ row'[x] = row[x]
    BY DEF dbVars, registryVars
  <1>3. /\ \A x \in Matches \ {m} : match'[x] = match[x]
        /\ match'[m].task = l
        /\ match'[m].status \in {"FINISHED", "CANCELLED"}
        /\ match'[m].energySpent => match[m].energySpent
        /\ Status(m) = "FINISHED" => match'[m].status = "FINISHED"
    BY <1>1 DEF Abort, Status, TypeInv, TypeOK, LiveMatch
  <1>4. job'[l].on = m /\ job'[l].then = "idle" /\ \A t \in Tasks \ {l} : job'[t] = job[t]
    <2>1. \E j \in {At("teardown", m, "idle"), aside, back} : Move(l, j) BY DEF Abort
    <2>2. /\ At("teardown", m, "idle").on = m /\ At("teardown", m, "idle").then = "idle"
          /\ aside.on = m /\ aside.then = "idle" /\ back.on = m /\ back.then = "idle"
      BY RestOf
    <2> HIDE DEF aside, back
    <2> QED BY <1>0, <2>1, <2>2 DEF Move, TypeInv
  <1>5. \A x \in Matches \ {m} : StartOK(x)'
    <2> TAKE x \in Matches \ {m}
    <2>1. \A t \in Tasks : Starter(t, x) \/ Starter(t, x)' => job'[t] = job[t]
      BY <1>4 DEF Starter
    <2> QED BY <1>2, <1>3, <2>1, StartStays DEF StartInv
  <1>6. CASE Status(m) = "FINISHED" \/ ~match[m].energySpent
    <2>1. job'[l].at \in {"unsaving", "teardown"}
      BY <1>0, <1>6, RestOf DEF Abort, Move, TypeInv
    <2>2. Receding BY <1>4, <2>1 DEF Receding, Before, Early
    <2>3. TaskIsKnown(m)'
      <3> SUFFICES ASSUME NEW k \in Loops, job'[k].on = m
                   PROVE  IF job'[k].then = "lost" THEN job'[k].at \in {"claiming", "paying"}
                          ELSE /\ match'[m].task = k
                               /\ job'[k].at \in {"claiming", "paying"} => match'[m].status = "FINISHED"
        BY DEF TaskIsKnown, Status
      <3>1. CASE k = l BY <1>3, <1>4, <2>1, <3>1
      <3>2. CASE k # l
        <4>1. Starter(k, m) /\ k \in Tasks BY <1>4, <3>2, SocketsAreTasks DEF Starter
        <4>2. k = l BY <1>0, <1>1, <4>1 DEF StartOK, OneStarter
        <4> QED BY <3>2, <4>2
      <3> QED BY <3>1, <3>2
    <2>4. \A x \in Tasks : Starter(x, m)'
                             => Starter(x, m) /\ (job'[x] = job[x] \/ job'[x].at \notin Before)
      BY <2>2, RecedesAt
    <2>5. StartOK(m)' BY <1>1, <1>2, <1>3, <2>3, <2>4, StartShrinks
    <2> QED BY <1>5, <2>2, <2>5, RecedingAnnounces
  <1>7. CASE Status(m) # "FINISHED" /\ match[m].energySpent
    <2>1. job'[l] = back BY <1>0, <1>7 DEF Abort, Move, TypeInv
    <2>2. ~match'[m].energySpent BY <1>7 DEF Abort, TypeInv, TypeOK, LiveMatch
    <2>3. AllTaken(m) BY <1>1, <1>7 DEF StartOK, RunningIsTaken
    <2>4. \A t \in Tasks : Starter(t, m) => t = l BY <1>0, <1>1 DEF StartOK, OneStarter
    <2>5. \A t \in Tasks : Starter(t, m)' <=> t = l BY <1>0, <1>4, <2>4 DEF Starter
    <2>6. IsFull(m) /\ Staged(l, m) BY <1>0, <1>1 DEF StartOK, StartersAreStaged
    <2>7. row[m] = "none"
      <3>1. job[l].at \notin {"claiming", "paying"}
        BY <1>1, <1>7 DEF StartOK, TaskIsKnown, Status
      <3> QED BY <2>6, <3>1 DEF Staged, Before
    <2>8. back.at = "refunding" /\ back.left = players[m] BY RestOf
    <2> HIDE DEF back
    <2>9. Took(l)' = players[m] /\ GaveBack(l)' = {}
      BY <1>2, <1>4, <2>1, <2>8 DEF Took, GaveBack
    <2>10. Once(charged'[m], players[m]) /\ Once(refunded'[m], {})
      BY <1>2, <2>3 DEF AllTaken, Once
    <2>11. Staged(l, m)' BY <1>2, <2>1, <2>2, <2>7, <2>8, <2>9, <2>10 DEF Staged
    <2>12. RunningIsTaken(m)' BY <1>2, <2>2, <2>7 DEF RunningIsTaken
    <2>13. FairTo(m)' BY <1>1, <1>2 DEF StartOK, FairTo
    <2>14. IsFull(m)' BY <1>2, <2>6 DEF IsFull
    <2>15. StartOK(m)'
      BY <1>0, <1>3, <1>4, <2>1, <2>5, <2>8, <2>11, <2>12, <2>13, <2>14, StartAdvances
    <2>16. EachAtItsPlace'
      <3>1. job'[l].at # "announcing" BY <2>1, <2>8
      <3> QED BY <1>4, <3>1 DEF StartInv, EachAtItsPlace
    <2> QED BY <1>5, <2>15, <2>16
  <1> QED BY <1>6, <1>7

\* What every step but a start, an end and a refund does to the books of the matches.
SameBooks ==
  \A m \in Matches :
    /\ players'[m] = players[m] /\ charged'[m] = charged[m] /\ refunded'[m] = refunded[m]
    /\ row'[m] = row[m] \/ (row[m] # "none" /\ row'[m] \notin {"none", "IN_PROGRESS"})
SameMatches ==
  \A m \in Matches : /\ match'[m].status = match[m].status /\ match'[m].task = match[m].task
                     /\ match'[m].energySpent = match[m].energySpent

\* A task that moves was not starting a match, and moves within its save or on from it.
Carries(t) ==
  \/ job'[t] = job[t]
  \/ /\ job[t].at # "announcing" /\ job'[t].at \notin Before
     /\ t \in Loops => job[t].at \notin Early
     /\ t \in Loops => \/ job'[t].on = None
                       \/ /\ job'[t].on = job[t].on /\ job'[t].then = job[t].then
                          /\ IF job[t].at \in {"claiming", "paying"}
                             THEN job[t].then = "lost" => job'[t].at = "paying"
                             ELSE job'[t].at \notin {"claiming", "paying"}

LEMMA QuietStarts ==
  ASSUME TypeInv, StartInv, SameBooks, SameMatches, \A t \in Tasks : Carries(t)
  PROVE  (\A m \in Matches : StartOK(m)') /\ EachAtItsPlace'
  <1>1. Receding BY DEF Carries, Receding
  <1>2. ASSUME NEW m \in Matches PROVE StartOK(m)'
    <2>0. StartOK(m) /\ m # None BY NoneAssumption DEF StartInv
    <2>1. TaskIsKnown(m)'
      <3> SUFFICES ASSUME NEW l \in Loops, job'[l].on = m
                   PROVE  IF job'[l].then = "lost" THEN job'[l].at \in {"claiming", "paying"}
                          ELSE /\ match'[m].task = l
                               /\ job'[l].at \in {"claiming", "paying"} => match'[m].status = "FINISHED"
        BY DEF TaskIsKnown, Status
      <3>1. Carries(l) BY SocketsAreTasks
      <3>2. job[l].on = m BY <2>0, <3>1 DEF Carries
      <3>3. IF job[l].then = "lost" THEN job[l].at \in {"claiming", "paying"}
            ELSE /\ match[m].task = l
                 /\ job[l].at \in {"claiming", "paying"} => match[m].status = "FINISHED"
        BY <2>0, <3>2 DEF StartOK, TaskIsKnown, Status
      <3> QED BY <2>0, <3>1, <3>3 DEF Carries, SameMatches
    <2>2. \A x \in Tasks : Starter(x, m)'
                             => Starter(x, m) /\ (job'[x] = job[x] \/ job'[x].at \notin Before)
      BY <1>1, RecedesAt
    <2>3. \A x \in Tasks : Starter(x, m) => job'[x] = job[x] \/ job[x].at \notin Early
      BY DEF Carries, Starter
    <2> QED BY <2>0, <2>1, <2>2, <2>3, StartShrinks DEF SameBooks, SameMatches
  <1> QED BY <1>1, <1>2, RecedingAnnounces

LEMMA MoveCarries ==
  ASSUME TypeInv, NEW t \in Tasks, NEW j, Move(t, j), job[t].at # "announcing",
         j.at \notin Before, t \in Loops => job[t].at \notin Early /\ j.on = None
  PROVE  \A x \in Tasks : Carries(x)
  BY DEF Move, Carries, TypeInv

LEMMA QuietBooks ==
  ASSUME UNCHANGED players, UNCHANGED dbVars
  PROVE  SameBooks
  BY DEF SameBooks, dbVars

LEMMA ConnectStarts ==
  ASSUME TypeInv, StartInv, NEW s \in Sockets, Connect(s) \/ Greet(s)
  PROVE  (\A m \in Matches : StartOK(m)') /\ EachAtItsPlace'
  <1>0. s \in Tasks /\ s \notin Loops /\ Owner[s] \in Users
    BY MatchOfTyped, SocketsAreTasks, TaskAssumption
  <1>1. SameBooks BY QuietBooks DEF Connect, Greet, TasksOnly, MemoryOnly, registryVars
  <1>2. CASE Connect(s)
    <2>1. \A x \in Tasks : Carries(x)
      BY <1>0, <1>2, MoveCarries, RestOf DEF Connect, IsAt, Early, Before
    <2>2. SameMatches BY <1>2 DEF Connect, TasksOnly, SameMatches
    <2> QED BY <1>1, <2>1, <2>2, QuietStarts
  <1>3. CASE Greet(s)
    <2>1. SameMatches
      <3>1. CASE job[s].on = None BY <1>3, <3>1 DEF Greet, SameMatches
      <3>2. CASE job[s].on # None
        <4> SUFFICES ASSUME NEW m \in Matches
                     PROVE  /\ match'[m].status = match[m].status /\ match'[m].task = match[m].task
                            /\ match'[m].energySpent = match[m].energySpent
          BY DEF SameMatches
        <4>1. match[m] \in LiveMatch BY DEF TypeInv, TypeOK
        <4>2. match' = [match EXCEPT ![job[s].on].socket[Owner[s]] = s,
                                     ![job[s].on].grace[Owner[s]] = None]
          BY <1>3, <3>2 DEF Greet
        <4>3. \/ match'[m] = match[m]
              \/ match'[m] = [match[m] EXCEPT !.socket[Owner[s]] = s, !.grace[Owner[s]] = None]
          <5>1. CASE m # job[s].on BY <4>2, <5>1 DEF TypeInv, TypeOK
          <5>2. CASE m = job[s].on BY <4>1, <4>2, <5>2 DEF TypeInv, TypeOK, LiveMatch
          <5> QED BY <5>1, <5>2
        <4> QED BY <4>1, <4>3 DEF LiveMatch
      <3> QED BY <3>1, <3>2
    <2>2. \A x \in Tasks : Carries(x)
      <3>1. CASE job[s].on = None
        BY <1>0, <1>3, <3>1, MoveCarries, RestOf DEF Greet, IsAt, Early, Before
      <3>2. CASE job[s].on # None
        <4> SUFFICES ASSUME NEW x \in Tasks PROVE Carries(x)
          OBVIOUS
        <4>1. CASE x = s
          BY <1>0, <1>3, <3>2, <4>1, RestOf DEF Greet, IsAt, Early, Before, Carries
        <4>2. CASE x # s /\ x \in TimerOf(job[s].on, Owner[s])
          <5>1. x \notin Loops /\ x \in Graces BY <4>2, TaskAssumption DEF TimerOf
          <5>2. job'[x] = Rest(x) BY <1>3, <3>2, <4>2 DEF Greet
          <5>3. job[x].at # "announcing"
            BY <5>1, TaskAssumption DEF StartInv, EachAtItsPlace
          <5> QED BY <5>1, <5>2, <5>3, RestOf DEF Carries, Before, Early
        <4>3. CASE x # s /\ x \notin TimerOf(job[s].on, Owner[s])
          BY <1>3, <3>2, <4>3 DEF Greet, Carries
        <4> QED BY <4>1, <4>2, <4>3
      <3> QED BY <3>1, <3>2
    <2> QED BY <1>1, <2>1, <2>2, QuietStarts
  <1> QED BY <1>2, <1>3

LEMMA DropStarts ==
  ASSUME TypeInv, StartInv, NEW s \in Sockets,
         DropQueued(s) \/ DropQuietly(s) \/ DropFromLobby(s) \/ DropFromFight(s)
  PROVE  (\A m \in Matches : StartOK(m)') /\ EachAtItsPlace'
  <1> DEFINE m == MatchOf(Owner[s])
  <1>0. /\ s \in Tasks /\ s \notin Loops /\ m \in Matches \cup {None} /\ Owner[s] \in Users
        /\ job[s].at # "announcing"
    BY MatchOfTyped, SocketsAreTasks, TaskAssumption
    DEF DropQueued, DropQuietly, DropFromLobby, DropFromFight, Disconnecting
  <1>1. CASE DropQueued(s)
    <2>1. SameBooks /\ SameMatches
      BY <1>1, QuietBooks DEF DropQueued, MemoryOnly, SameMatches
    <2>2. \A x \in Tasks : Carries(x)
      BY <1>0, <1>1, MoveCarries, RestOf DEF DropQueued, Early, Before
    <2> QED BY <2>1, <2>2, QuietStarts
  <1>2. CASE DropQuietly(s)
    <2>1. SameBooks BY <1>2, QuietBooks DEF DropQuietly, MemoryOnly, registryVars
    <2>2. \A x \in Tasks : Carries(x)
      BY <1>0, <1>2, MoveCarries, RestOf DEF DropQuietly, Early, Before
    <2>3. SameMatches BY <1>2 DEF DropQuietly, SameMatches, TypeInv, TypeOK, LiveMatch
    <2> QED BY <2>1, <2>2, <2>3, QuietStarts
  <1>3. CASE DropFromLobby(s)
    <2>1. m \in Matches BY <1>0, <1>3 DEF DropFromLobby, AttachedTo
    <2>2. (\A x \in Matches : StartOK(x)') /\ Receding
      BY <1>0, <1>3, <2>1, EndingStarts DEF DropFromLobby
    <2> QED BY <2>2, RecedingAnnounces
  <1>4. CASE DropFromFight(s)
    <2>1. SameBooks BY <1>4, QuietBooks DEF DropFromFight, MemoryOnly, registryVars
    <2>2. [At("notifying", m, "closed") EXCEPT !.who = Owner[s]].at = "notifying"
      BY DEF At
    <2>3. \A x \in Tasks : Carries(x)
      BY <1>0, <1>4, <2>2, MoveCarries DEF DropFromFight, Early, Before
    <2>4. SameMatches BY <1>4 DEF DropFromFight, SameMatches, TypeInv, TypeOK, LiveMatch
    <2> QED BY <2>1, <2>3, <2>4, QuietStarts
  <1> QED BY <1>1, <1>2, <1>3, <1>4

LEMMA GraceStarts ==
  ASSUME TypeInv, StartInv, NEW g \in Graces,
         GraceStep(g) \/ \E s \in Sockets : StartGrace(s, g)
  PROVE  (\A m \in Matches : StartOK(m)') /\ EachAtItsPlace'
  <1>0. g \in Tasks /\ g \notin Loops /\ g \notin Sockets /\ job[g].at # "announcing"
    BY SocketsAreTasks, TaskAssumption DEF StartInv, EachAtItsPlace
  <1>1. CASE \E s \in Sockets : StartGrace(s, g)
    <2> PICK s \in Sockets : StartGrace(s, g) BY <1>1
    <2>0. s \in Tasks /\ s \notin Loops /\ job[s].at = "notifying" /\ job[s] \in Job
      BY SocketsAreTasks, TaskAssumption DEF StartGrace, IsAt, TypeInv, TypeOK
    <2>1. SameBooks BY QuietBooks DEF StartGrace, MemoryOnly, registryVars
    <2>2. SameMatches
      <3> SUFFICES ASSUME NEW m \in Matches
                   PROVE  /\ match'[m].status = match[m].status /\ match'[m].task = match[m].task
                          /\ match'[m].energySpent = match[m].energySpent
        BY DEF SameMatches
      <3>1. match[m] \in LiveMatch BY DEF TypeInv, TypeOK
      <3>2. match'[m] = match[m] \/ match'[m] = [match[m] EXCEPT !.grace[Owner[s]] = g]
        BY DEF StartGrace, TypeInv, TypeOK
      <3> QED BY <3>1, <3>2 DEF LiveMatch
    <2>3. [job[s] EXCEPT !.at = "sleeping", !.then = "idle"].at = "sleeping"
      BY <2>0 DEF Job
    <2>4. \A x \in Tasks : Carries(x)
      BY <1>0, <2>0, <2>3, RestOf DEF StartGrace, Carries, Early, Before, TypeInv
    <2> QED BY <2>1, <2>2, <2>4, QuietStarts
  <1>2. CASE GraceLapses(g)
    <2>1. SameBooks /\ SameMatches
      BY <1>2, QuietBooks DEF GraceLapses, TasksOnly, registryVars, SameMatches
    <2>2. \A x \in Tasks : Carries(x)
      BY <1>0, <1>2, MoveCarries, RestOf DEF GraceLapses, Early, Before
    <2> QED BY <2>1, <2>2, QuietStarts
  <1>3. CASE GraceForfeits(g)
    <2>1. job[g].on \in Matches BY <1>0, <1>3, OnTyped DEF GraceForfeits, IsAt, Unbound
    <2>2. (\A x \in Matches : StartOK(x)') /\ Receding
      BY <1>0, <1>3, <2>1, EndingStarts DEF GraceForfeits
    <2> QED BY <2>2, RecedingAnnounces
  <1> QED BY <1>1, <1>2, <1>3 DEF GraceStep

LEMMA QueueStarts ==
  ASSUME TypeInv, StartInv, NEW s \in Sockets, JoinQueue(s) \/ LeaveQueue(s)
  PROVE  (\A m \in Matches : StartOK(m)') /\ EachAtItsPlace'
  <1>1. SameBooks /\ SameMatches
    BY QuietBooks DEF JoinQueue, LeaveQueue, MemoryOnly, SameMatches
  <1>2. \A x \in Tasks : Carries(x) BY DEF JoinQueue, LeaveQueue, Carries
  <1> QED BY <1>1, <1>2, QuietStarts

LEMMA HousekeepingStarts ==
  ASSUME TypeInv, StartInv, NEW w \in Sweepers, Housekeeping(w)
  PROVE  (\A m \in Matches : StartOK(m)') /\ EachAtItsPlace'
  <1>0. w \in Tasks /\ w \notin Loops /\ w \notin Sockets /\ job[w].at # "announcing"
    BY SocketsAreTasks, TaskAssumption DEF StartInv, EachAtItsPlace
  <1>1. CASE SweepQueue(w)
    <2>1. SameBooks /\ SameMatches
      BY <1>1, QuietBooks DEF SweepQueue, MemoryOnly, SameMatches
    <2>2. \A x \in Tasks : Carries(x) BY <1>1 DEF SweepQueue, Carries
    <2> QED BY <2>1, <2>2, QuietStarts
  <1>2. CASE \E m \in Matches : SweepRoom(w, m)
    <2>1. SameBooks /\ SameMatches
      BY <1>2, QuietBooks DEF SweepRoom, TasksOnly, registryVars, SameMatches
    <2>2. \A x \in Tasks : Carries(x)
      BY <1>0, <1>2, MoveCarries, RestOf DEF SweepRoom, Early, Before
    <2> QED BY <2>1, <2>2, QuietStarts
  <1>3. CASE CloseIdleRoom(w)
    <2>1. job[w].on \in Matches BY <1>0, <1>3, OnTyped DEF CloseIdleRoom, IsAt, Unbound
    <2>2. (\A x \in Matches : StartOK(x)') /\ Receding
      BY <1>0, <1>3, <2>1, EndingStarts DEF CloseIdleRoom
    <2> QED BY <2>2, RecedingAnnounces
  <1> QED BY <1>1, <1>2, <1>3 DEF Housekeeping

-----------------------------------------------------------------------------
\* Seating players: a fresh match, a room that still waits for its second player.

\* Of a match nobody starts, whose books nobody has touched.
LEMMA UntouchedStarts ==
  ASSUME NEW m \in Matches, Untouched(m)', \A t \in Tasks : ~Starter(t, m)',
         match'[m].status # "NEW"
  PROVE  StartOK(m)'
  <1>1. FairTo(m)' BY DEF Untouched, Once, FairTo
  <1>2. RunningIsTaken(m)' BY DEF Untouched, RunningIsTaken
  <1>3. TaskIsKnown(m)' BY SocketsAreTasks DEF TaskIsKnown, Starter
  <1> QED BY <1>1, <1>2, <1>3
      DEF StartOK, OneStarter, StartersAreStaged, FreshIsUntouched, LobbyIsEarly, Status

LEMMA RoomStarts ==
  ASSUME TypeInv, StartInv, NEW s \in Sockets, NEW m \in Matches,
         CreateRoom(s, m) \/ JoinRoom(s, m)
  PROVE  (\A x \in Matches : StartOK(x)') /\ EachAtItsPlace'
  <1>0. job' = job /\ UNCHANGED dbVars BY DEF CreateRoom, JoinRoom, MemoryOnly
  <1>1. \A x \in Matches \ {m} : players'[x] = players[x] /\ match'[x] = match[x]
    BY DEF CreateRoom, JoinRoom, Register, Bind, TypeInv, TypeOK, RegistryTypeOK
  <1>2. EachAtItsPlace' BY <1>0 DEF StartInv, EachAtItsPlace
  <1>3. ASSUME NEW x \in Matches \ {m} PROVE StartOK(x)'
    BY <1>0, <1>1, StartStays DEF StartInv, dbVars
  <1>4. Untouched(m) /\ \A t \in Tasks : ~Starter(t, m)
    <2>0. StartOK(m) BY DEF StartInv
    <2>1. CASE CreateRoom(s, m) BY <2>0, <2>1 DEF CreateRoom, Fresh, StartOK, FreshIsUntouched
    <2>2. CASE JoinRoom(s, m)
      BY <2>0, <2>2 DEF JoinRoom, StartOK, StartersAreStaged, LobbyIsEarly
    <2> QED BY <2>1, <2>2
  <1>5. match'[m].status # "NEW" /\ ~match'[m].energySpent
    <2>1. CASE CreateRoom(s, m) BY <2>1 DEF CreateRoom, Blank, TypeInv, TypeOK
    <2>2. CASE JoinRoom(s, m)
      BY <1>4, <2>2 DEF JoinRoom, Untouched, Status, TypeInv, TypeOK, LiveMatch
    <2> QED BY <2>1, <2>2
  <1>6. Untouched(m)' BY <1>0, <1>4, <1>5 DEF Untouched, Once, dbVars
  <1>7. \A t \in Tasks : ~Starter(t, m)' BY <1>0, <1>4 DEF Starter
  <1> QED BY <1>2, <1>3, <1>5, <1>6, <1>7, UntouchedStarts

\* The one who starts a match nobody has charged for.
LEMMA FirstStarts ==
  ASSUME NEW m \in Matches, NEW a \in Tasks,
         \A t \in Tasks : Starter(t, m)' <=> t = a,
         Untouched(m)', IsFull(m)', match'[m].status # "NEW",
         job'[a].at \in {"announcing", "countdown"},
         a \in Loops => job'[a].then # "lost" /\ match'[m].task = a
  PROVE  StartOK(m)'
  <1>1. Took(a)' = {} /\ GaveBack(a)' = {} BY DEF Took, GaveBack
  <1>2. Staged(a, m)' BY <1>1 DEF Untouched, Staged
  <1>3. RunningIsTaken(m)' /\ FairTo(m)'
    BY DEF Untouched, Once, FairTo, RunningIsTaken
  <1> QED BY <1>2, <1>3, StartAdvances DEF Early

LEMMA PairStarts ==
  ASSUME TypeInv, StartInv, NEW s \in Sockets, NEW e \in Sockets, NEW m \in Matches,
         JoinQueueAndPair(s, e, m)
  PROVE  (\A x \in Matches : StartOK(x)') /\ EachAtItsPlace'
  <1> DEFINE u == Owner[s]
             v == Owner[e]
  <1>0. u \in Users /\ v \in Users /\ u # v /\ s \in Tasks /\ s \notin Loops
    BY MatchOfTyped, SocketsAreTasks, TaskAssumption DEF JoinQueueAndPair
  <1>1. /\ \A x \in Matches \ {m} : players'[x] = players[x] /\ match'[x] = match[x]
        /\ players'[m] = {u, v}
        /\ match'[m].status = "WAITING" /\ ~match'[m].energySpent
    BY DEF JoinQueueAndPair, Register, Blank, TypeInv, TypeOK, RegistryTypeOK
  <1>2. UNCHANGED dbVars BY DEF JoinQueueAndPair, MemoryOnly
  <1>3. /\ job'[s] = At("announcing", m, "open")
        /\ \A t \in Tasks \ {s} : job'[t] = job[t]
    BY <1>0 DEF JoinQueueAndPair, Move, TypeInv
  <1>4. job[s].at = "open" BY DEF JoinQueueAndPair, IsAt
  <1>5. EachAtItsPlace'
    BY <1>3, RestOf DEF StartInv, EachAtItsPlace
  <1>6. ASSUME NEW x \in Matches \ {m} PROVE StartOK(x)'
    <2>1. \A t \in Tasks : Starter(t, x) \/ Starter(t, x)' => job'[t] = job[t]
      BY <1>0, <1>3, <1>4, RestOf DEF Starter
    <2> QED BY <1>1, <1>2, <2>1, StartStays DEF StartInv, dbVars
  <1>7. Untouched(m) /\ \A t \in Tasks : ~Starter(t, m)
    BY DEF JoinQueueAndPair, Fresh, StartInv, StartOK, FreshIsUntouched
  <1>8. Untouched(m)' BY <1>1, <1>2, <1>7 DEF Untouched, Once, dbVars
  <1>9. \A t \in Tasks : Starter(t, m)' <=> t = s
    BY <1>0, <1>3, <1>7, RestOf DEF Starter
  <1>10. IsFull(m)'
    <2>1. IsFiniteSet({u}) /\ Cardinality({u}) = 1 BY FS_Singleton
    <2>2. {u} \cup {v} = {u, v} /\ v \notin {u} BY <1>0
    <2> HIDE DEF u, v
    <2>3. Cardinality({u} \cup {v}) = 2 BY <2>1, <2>2, FS_AddElement
    <2>4. Cardinality({u, v}) = 2 BY <2>2, <2>3, Zenon
    <2> QED BY <1>1, <2>4 DEF IsFull
  <1>11. StartOK(m)'
    BY <1>0, <1>1, <1>3, <1>8, <1>9, <1>10, RestOf, FirstStarts
  <1> QED BY <1>5, <1>6, <1>11

LEMMA SpawnStarts ==
  ASSUME TypeInv, StartInv, NEW s \in Sockets, NEW l \in Loops, NEW m \in Matches,
         Spawn(s, l, m), Untouched(m), IsFull(m), Status(m) # "NEW",
         \A t \in Tasks : Starter(t, m) => t = s,
         job[s].at = "open" \/ (job[s].at = "announcing" /\ job[s].on = m)
  PROVE  (\A x \in Matches : StartOK(x)') /\ EachAtItsPlace'
  <1>0. s \in Tasks /\ l \in Tasks /\ s # l /\ s \notin Loops
    BY SocketsAreTasks, TaskAssumption
  <1>1. /\ job'[l] = At("countdown", m, "idle") /\ job'[s] = Open
        /\ \A t \in Tasks \ {s, l} : job'[t] = job[t]
    BY <1>0 DEF Spawn, TypeInv
  <1>2. /\ \A x \in Matches \ {m} : match'[x] = match[x]
        /\ match'[m].status = match[m].status /\ match'[m].task = l
        /\ match'[m].energySpent = match[m].energySpent
    BY DEF Spawn, TypeInv, TypeOK, LiveMatch
  <1>3. UNCHANGED <<players, dbVars>> BY DEF Spawn, MemoryOnly, registryVars
  <1>4. EachAtItsPlace'
    BY <1>0, <1>1, RestOf DEF StartInv, EachAtItsPlace
  <1>5. ASSUME NEW x \in Matches \ {m} PROVE StartOK(x)'
    <2>0. StartOK(x) /\ x # None BY NoneAssumption DEF StartInv
    <2>1. \A t \in Tasks : Starter(t, x)' => Starter(t, x) /\ job'[t] = job[t]
      BY <1>0, <1>1, <2>0, RestOf DEF Starter
    <2>2. \A t \in Tasks : Starter(t, x) => job'[t] = job[t] \/ job[t].at \notin Early
      BY <1>0, <1>1 DEF Spawn, IsAt, Starter, Early
    <2>3. TaskIsKnown(x)'
      <3> SUFFICES ASSUME NEW k \in Loops, job'[k].on = x
                   PROVE  IF job'[k].then = "lost" THEN job'[k].at \in {"claiming", "paying"}
                          ELSE /\ match'[x].task = k
                               /\ job'[k].at \in {"claiming", "paying"} => match'[x].status = "FINISHED"
        BY DEF TaskIsKnown, Status
      <3>1. job'[k] = job[k] BY <2>1, SocketsAreTasks DEF Starter
      <3> QED BY <1>2, <2>0, <3>1 DEF StartOK, TaskIsKnown, Status
    <2> QED BY <1>2, <1>3, <2>0, <2>1, <2>2, <2>3, StartShrinks DEF dbVars
  <1>6. \A t \in Tasks : Starter(t, m)' <=> t = l
    BY <1>0, <1>1, RestOf, NoneAssumption DEF Starter
  <1>7. Untouched(m)' /\ IsFull(m)' BY <1>2, <1>3 DEF Untouched, Once, dbVars, IsFull
  <1>8. StartOK(m)'
    BY <1>0, <1>1, <1>2, <1>6, <1>7, RestOf, FirstStarts DEF Status
  <1> QED BY <1>4, <1>5, <1>8

LEMMA MatchStartStarts ==
  ASSUME TypeInv, StartInv, ~DoubleStart, NEW s \in Sockets,
         \/ \E l \in Loops : Launch(s, l)
         \/ \E m \in Matches, l \in Loops : StartMatch(s, l, m)
         \/ \E m \in Matches : LeaveMatch(s, m)
  PROVE  (\A x \in Matches : StartOK(x)') /\ EachAtItsPlace'
  <1>0. s \in Tasks /\ s \notin Loops BY SocketsAreTasks, TaskAssumption
  <1>1. CASE \E l \in Loops : Launch(s, l)
    <2> PICK l \in Loops : Launch(s, l) BY <1>1
    <2> DEFINE m == job[s].on
    <2>1. m \in Matches BY <1>0, OnTyped DEF Launch, IsAt, Unbound
    <2>2. StartOK(m) /\ Starter(s, m) BY <2>1 DEF StartInv, Starter, Launch, IsAt
    <2>3. \A t \in Tasks : Starter(t, m) => t = s BY <1>0, <2>2 DEF StartOK, OneStarter
    <2>4. Staged(s, m) /\ IsFull(m) /\ Status(m) # "NEW"
      BY <1>0, <2>2 DEF StartOK, StartersAreStaged, FreshIsUntouched
    <2>5. Untouched(m)
      BY <2>4 DEF Staged, Launch, IsAt, Took, GaveBack, Untouched, Before, Early
    <2> QED BY <2>1, <2>3, <2>4, <2>5, SpawnStarts DEF Launch, IsAt
  <1>2. CASE \E m \in Matches, l \in Loops : StartMatch(s, l, m)
    <2> PICK m \in Matches, l \in Loops : StartMatch(s, l, m) BY <1>2
    <2>1. StartOK(m) /\ m # None BY NoneAssumption DEF StartInv
    <2>2. \A t \in Tasks : ~Starter(t, m)
      <3> SUFFICES ASSUME NEW t \in Tasks, Starter(t, m) PROVE FALSE
        OBVIOUS
      <3>1. match[m].task = None /\ \A x \in Sockets : job[x] # At("announcing", m, "open")
        BY DEF StartMatch
      <3>2. CASE t \in Loops
        <4>1. job[t].at \in Early
          BY <2>1, <3>2 DEF StartMatch, StartOK, LobbyIsEarly
        <4>2. match[m].task = t
          BY <2>1, <3>2, <4>1 DEF Starter, StartOK, TaskIsKnown, Early
        <4> QED BY <3>1, <3>2, <4>2, TaskAssumption
      <3>3. CASE t \notin Loops
        BY <3>1, <3>3 DEF StartInv, EachAtItsPlace, Starter
      <3> QED BY <3>2, <3>3
    <2>3. Untouched(m) BY <2>1, <2>2 DEF StartMatch, StartOK, LobbyIsEarly
    <2> QED BY <2>2, <2>3, SpawnStarts DEF StartMatch, IsAt
  <1>3. CASE \E m \in Matches : LeaveMatch(s, m)
    <2> PICK m \in Matches : LeaveMatch(s, m) BY <1>3
    <2>1. (\A x \in Matches : StartOK(x)') /\ Receding
      BY <1>0, EndingStarts DEF LeaveMatch, IsAt
    <2> QED BY <2>1, RecedingAnnounces
  <1> QED BY <1>1, <1>2, <1>3

\* One step of `_run_match' on its way through the start: it alone moves, and the
\* books of the other matches stay as they are.
LEMMA LoopAdvances ==
  ASSUME TypeInv, StartInv, NEW l \in Loops, NEW m \in Matches, job[l].on = m,
         job[l].at \in Before, \A t \in Tasks \ {l} : job'[t] = job[t],
         job'[l].on = m, job'[l].then \in {job[l].then, "idle"},
         job'[l].at \notin {"claiming", "paying", "announcing"},
         UNCHANGED players,
         \A x \in Matches \ {m} : /\ charged'[x] = charged[x] /\ refunded'[x] = refunded[x]
                                  /\ row'[x] = row[x] /\ match'[x] = match[x],
         match'[m].task = match[m].task,
         match'[m].status = "NEW" => Status(m) = "NEW",
         match'[m].status = "WAITING" => Status(m) = "WAITING" /\ job'[l].at \in Early,
         Staged(l, m)', RunningIsTaken(m)', FairTo(m)'
  PROVE  (\A x \in Matches : StartOK(x)') /\ EachAtItsPlace'
  <1>0. l \in Tasks /\ l \notin Sockets BY SocketsAreTasks, TaskAssumption
  <1>1. StartOK(m) /\ Starter(l, m) BY DEF StartInv, Starter
  <1>2. match[m].task = l /\ job[l].then # "lost"
    BY <1>1 DEF StartOK, TaskIsKnown, Before, Early
  <1>3. \A t \in Tasks : Starter(t, m) => t = l BY <1>0, <1>1 DEF StartOK, OneStarter
  <1>4. \A t \in Tasks : Starter(t, m)' <=> t = l BY <1>0, <1>3 DEF Starter
  <1>5. IsFull(m)' /\ Status(m) # "NEW"
    BY <1>0, <1>1 DEF StartOK, StartersAreStaged, IsFull, FreshIsUntouched
  <1>6. StartOK(m)' BY <1>0, <1>2, <1>4, <1>5, StartAdvances
  <1>7. ASSUME NEW x \in Matches \ {m} PROVE StartOK(x)'
    <2>1. \A t \in Tasks : Starter(t, x) \/ Starter(t, x)' => job'[t] = job[t]
      BY <1>0 DEF Starter
    <2> QED BY <2>1, StartStays DEF StartInv
  <1>8. EachAtItsPlace' BY <1>0 DEF StartInv, EachAtItsPlace
  <1> QED BY <1>6, <1>7, <1>8

LEMMA ChargeStarts ==
  ASSUME TypeInv, StartInv, NEW l \in Loops, NEW u \in Users, Charge(l, u),
         NEW m \in Matches, job[l].on = m
  PROVE  (\A x \in Matches : StartOK(x)') /\ EachAtItsPlace'
  <1> DEFINE last == [job[l] EXCEPT !.at = "building", !.left = {}]
             rest == [job[l] EXCEPT !.left = @ \ {u}]
  <1>0. l \in Tasks /\ m \in Matches /\ job[l].at = "charging" /\ job[l] \in Job /\ u \in job[l].left
    BY SocketsAreTasks, OnTyped
    DEF Charge, LoopAt, IsAt, Unbound, OneOf, TypeInv, TypeOK
  <1>1. StartOK(m) /\ Starter(l, m) BY <1>0 DEF StartInv, Starter
  <1>2. Staged(l, m) BY <1>0, <1>1 DEF StartOK, StartersAreStaged
  <1>3. /\ row[m] = "none" /\ ~match[m].energySpent /\ job[l].left \subseteq players[m]
        /\ Once(charged[m], players[m] \ job[l].left) /\ Once(refunded[m], {})
    BY <1>0, <1>2 DEF Staged, Before, Early, Took, GaveBack
  <1>4. UNCHANGED <<players, match, row, refunded>> BY DEF Charge, registryVars
  <1>5. job'[l] = (IF job[l].left = {u} THEN last ELSE rest) /\ \A t \in Tasks \ {l} : job'[t] = job[t]
    BY <1>0 DEF Charge, OneOf, Move, TypeInv
  <1>6. /\ job'[l].on = m /\ job'[l].then = job[l].then
        /\ job'[l].at = IF job[l].left = {u} THEN "building" ELSE "charging"
        /\ job'[l].left = job[l].left \ {u}
    BY <1>0, <1>5 DEF Job
  <1>7. /\ \A x \in Matches \ {m} : charged'[x] = charged[x]
        /\ Once(charged'[m], players[m] \ job'[l].left)
    <2>1. charged' = [charged EXCEPT ![m][u] = @ + 1] BY DEF Charge, OneOf
    <2>2. charged \in [Matches -> [Users -> Nat]] BY DEF TypeInv, TypeOK
    <2>3. \A v \in Users : charged'[m][v] = IF v = u THEN charged[m][u] + 1 ELSE charged[m][v]
      BY <1>0, <2>1, <2>2
    <2> QED BY <1>0, <1>3, <1>6, <2>1, <2>2, <2>3 DEF Once
  <1>8. Took(l)' = players[m] \ job'[l].left /\ GaveBack(l)' = {}
    BY <1>4, <1>6 DEF Took, GaveBack
  <1>9. Staged(l, m)' BY <1>3, <1>4, <1>6, <1>7, <1>8 DEF Staged
  <1>10. RunningIsTaken(m)' BY <1>3, <1>4 DEF RunningIsTaken
  <1>11. FairTo(m)' BY <1>3, <1>4, <1>7 DEF Once, FairTo
  <1> QED BY <1>0, <1>4, <1>5, <1>6, <1>7, <1>9, <1>10, <1>11, LoopAdvances DEF Before, Early,
             Status

LEMMA RefundStarts ==
  ASSUME TypeInv, StartInv, NEW l \in Tasks, NEW u \in Users, Refund(l, u),
         NEW m \in Matches, job[l].on = m
  PROVE  (\A x \in Matches : StartOK(x)') /\ EachAtItsPlace'
  <1> DEFINE next == At(IF match[m].persisted THEN "unsaving" ELSE "teardown", m, "idle")
             rest == [job[l] EXCEPT !.left = @ \ {u}]
  <1>0. job[l].at = "refunding" /\ job[l] \in Job /\ u \in job[l].left /\ l \in Loops
    BY DEF Refund, IsAt, OneOf, TypeInv, TypeOK, StartInv, EachAtItsPlace
  <1>1. StartOK(m) /\ Starter(l, m) BY <1>0 DEF StartInv, Starter
  <1>2. Staged(l, m) BY <1>0, <1>1 DEF StartOK, StartersAreStaged
  <1>3. /\ row[m] = "none" /\ ~match[m].energySpent /\ job[l].left \subseteq players[m]
        /\ Once(charged[m], players[m]) /\ Once(refunded[m], players[m] \ job[l].left)
    BY <1>0, <1>2 DEF Staged, Before, Early, Took, GaveBack
  <1>4. UNCHANGED <<players, match, row, charged>> BY DEF Refund, registryVars
  <1>5. job'[l] = (IF job[l].left = {u} THEN next ELSE rest) /\ \A t \in Tasks \ {l} : job'[t] = job[t]
    BY <1>0 DEF Refund, OneOf, Move, TypeInv
  <1>6. /\ job'[l].on = m /\ job'[l].then \in {job[l].then, "idle"}
        /\ IF job[l].left = {u} THEN job'[l].at \in {"unsaving", "teardown"}
           ELSE job'[l].at = "refunding" /\ job'[l].left = job[l].left \ {u}
    <2>1. next.on = m /\ next.then = "idle" /\ next.at \in {"unsaving", "teardown"} BY RestOf
    <2>2. rest.on = m /\ rest.then = job[l].then /\ rest.at = "refunding" /\ rest.left = job[l].left \ {u}
      BY <1>0 DEF Job
    <2> HIDE DEF next, rest
    <2> QED BY <1>5, <2>1, <2>2
  <1>7. /\ \A x \in Matches \ {m} : refunded'[x] = refunded[x]
        /\ Once(refunded'[m], players[m] \ (job[l].left \ {u}))
    <2>1. refunded' = [refunded EXCEPT ![m][u] = @ + 1] BY DEF Refund, OneOf
    <2>2. refunded \in [Matches -> [Users -> Nat]] BY DEF TypeInv, TypeOK
    <2>3. \A v \in Users : refunded'[m][v] = IF v = u THEN refunded[m][u] + 1 ELSE refunded[m][v]
      BY <1>0, <2>1, <2>2
    <2> QED BY <1>0, <1>3, <2>1, <2>2, <2>3 DEF Once
  <1>8. Staged(l, m)'
    <2>1. CASE job[l].left = {u} BY <1>6, <2>1 DEF Staged, Before, Early
    <2>2. CASE job[l].left # {u}
      <3>1. Took(l)' = players[m] /\ GaveBack(l)' = players[m] \ (job[l].left \ {u})
        BY <1>4, <1>6, <2>2 DEF Took, GaveBack
      <3> QED BY <1>3, <1>4, <1>6, <1>7, <2>2, <3>1 DEF Staged
    <2> QED BY <2>1, <2>2
  <1>9. RunningIsTaken(m)' BY <1>3, <1>4 DEF RunningIsTaken
  <1>10. FairTo(m)' BY <1>3, <1>4, <1>7 DEF Once, FairTo
  <1>11. Status(m) # "WAITING"
    BY <1>0, <1>1 DEF StartOK, LobbyIsEarly, Early
  <1>12. job'[l].at \notin {"claiming", "paying", "announcing"} BY <1>6
  <1> QED BY <1>0, <1>4, <1>5, <1>6, <1>7, <1>8, <1>9, <1>10, <1>11, <1>12, LoopAdvances
      DEF Before, Early, Status

LEMMA LoopStarts ==
  ASSUME TypeInv, StartInv, NEW l \in Loops, LoopStep(l)
  PROVE  (\A x \in Matches : StartOK(x)') /\ EachAtItsPlace'
  <1>0. l \in Tasks /\ l \notin Sockets /\ job[l] \in Job
    BY SocketsAreTasks, TaskAssumption DEF TypeInv, TypeOK
  <1>1. job[l].on \in Matches
    <2>1. job[l].at \notin Unbound
      BY DEF LoopStep, Reject, BeginCharge, Build, CreateRow, CreateRowClash, Begin, EndFight,
             ExitLoop, Charge, LoopAt, IsAt, Unbound
    <2> QED BY <1>0, <2>1, OnTyped
  <1> PICK m \in Matches : m = job[l].on BY <1>1
  <1>m. /\ match[m] \in LiveMatch /\ StartOK(m) /\ Starter(l, m) /\ Staged(l, m)
        /\ job[l].at \notin {"claiming", "paying"} => job[l].then # "lost"
    <2>1. StartOK(m) /\ Starter(l, m) BY DEF StartInv, Starter
    <2>2. Staged(l, m) BY <1>0, <2>1 DEF StartOK, StartersAreStaged
    <2>3. job[l].at \notin {"claiming", "paying"} => job[l].then # "lost"
      BY <2>1 DEF StartOK, TaskIsKnown
    <2> QED BY <2>1, <2>2, <2>3 DEF TypeInv, TypeOK
  <1>p. \A p \in Points : /\ [job[l] EXCEPT !.at = p].at = p /\ [job[l] EXCEPT !.at = p].on = m
                          /\ [job[l] EXCEPT !.at = p].then = job[l].then
                          /\ [job[l] EXCEPT !.at = p].left = job[l].left
    BY <1>0 DEF Job
  <1>2. CASE Reject(l)
    BY <1>0, <1>2, <1>m, AbortStarts
    DEF Reject, LoopAt, IsAt, Unbound, MemoryOnly, dbVars, Early
  <1>3. CASE BeginCharge(l)
    <2>0. job[l].at = "countdown" /\ m \in Matches /\ StartOK(m) /\ Staged(l, m)
      BY <1>3, <1>m DEF BeginCharge, LoopAt, IsAt, Unbound
    <2>1. job'[l] = [job[l] EXCEPT !.at = "charging", !.left = players[m]]
      BY <1>0, <1>3 DEF BeginCharge, Move, TypeInv
    <2>2. /\ job'[l].at = "charging" /\ job'[l].on = m /\ job'[l].then = job[l].then
          /\ job'[l].left = players[m]
      BY <1>0, <2>1 DEF Job
    <2>3. \A t \in Tasks \ {l} : job'[t] = job[t] BY <1>3 DEF BeginCharge, Move, TypeInv
    <2>4. UNCHANGED <<players, match, row, charged, refunded>>
      BY <1>3 DEF BeginCharge, TasksOnly, registryVars, dbVars
    <2>5. Took(l)' = {} /\ GaveBack(l)' = {} /\ Took(l) = {} /\ GaveBack(l) = {}
      BY <2>0, <2>2, <2>4 DEF Took, GaveBack
    <2>6. Staged(l, m)' BY <2>0, <2>2, <2>4, <2>5 DEF Staged, Before, Early
    <2>7. RunningIsTaken(m)' /\ FairTo(m)'
      BY <2>0, <2>4 DEF StartOK, RunningIsTaken, FairTo, AllTaken
    <2> QED BY <2>0, <2>2, <2>3, <2>4, <2>6, <2>7, LoopAdvances DEF Before, Early, Status
  <1>4. CASE Build(l)
    <2>0. /\ job[l].at = "building" /\ m \in Matches /\ StartOK(m) /\ Staged(l, m)
          /\ match[m] \in LiveMatch
      BY <1>4, <1>m DEF Build, LoopAt, IsAt, Unbound
    <2>1. job'[l] = [job[l] EXCEPT !.at = "creating"] BY <1>0, <1>4 DEF Build, Move, TypeInv
    <2>2. job'[l].at = "creating" /\ job'[l].on = m /\ job'[l].then = job[l].then
      BY <1>p, <2>1 DEF Points
    <2>3. \A t \in Tasks \ {l} : job'[t] = job[t] BY <1>4 DEF Build, Move, TypeInv
    <2>4. UNCHANGED <<players, row, charged, refunded>>
      BY <1>4 DEF Build, MemoryOnly, registryVars, dbVars
    <2>5. /\ match'[m].status = "IN_PROGRESS" /\ match'[m].task = match[m].task
          /\ \A x \in Matches \ {m} : match'[x] = match[x]
      BY <1>4, <2>0 DEF Build, TypeInv, TypeOK, LiveMatch
    <2>6. Took(l)' = players[m] /\ GaveBack(l)' = {} /\ Took(l) = players[m] /\ GaveBack(l) = {}
      BY <2>0, <2>2, <2>4 DEF Took, GaveBack
    <2>7. AllTaken(m)' /\ row[m] = "none"
      BY <2>0, <2>4, <2>6 DEF Staged, Before, Early, AllTaken
    <2>8. Staged(l, m)' BY <2>2, <2>4, <2>6, <2>7 DEF Staged, AllTaken
    <2>9. RunningIsTaken(m)' /\ FairTo(m)'
      BY <2>0, <2>4, <2>7 DEF StartOK, RunningIsTaken, FairTo
    <2> QED BY <2>0, <2>2, <2>3, <2>4, <2>5, <2>8, <2>9, LoopAdvances DEF Before, Early, Status
  <1>5. CASE CreateRow(l)
    <2>0. /\ job[l].at = "creating" /\ m \in Matches /\ StartOK(m) /\ Staged(l, m)
      BY <1>5, <1>m DEF CreateRow, LoopAt, IsAt, Unbound
    <2>1. job'[l] = [job[l] EXCEPT !.at = "created"] BY <1>0, <1>5 DEF CreateRow, Move, TypeInv
    <2>2. job'[l].at = "created" /\ job'[l].on = m /\ job'[l].then = job[l].then
      BY <1>p, <2>1 DEF Points
    <2>3. \A t \in Tasks \ {l} : job'[t] = job[t] BY <1>5 DEF CreateRow, Move, TypeInv
    <2>4. UNCHANGED <<players, match, charged, refunded>>
      BY <1>5 DEF CreateRow, registryVars
    <2>5. \A x \in Matches \ {m} : row'[x] = row[x]
      BY <1>5 DEF CreateRow, TypeInv, TypeOK
    <2>6. Took(l) = players[m] /\ GaveBack(l) = {}
      BY <2>0 DEF Took, GaveBack
    <2>7. AllTaken(m)'
      BY <2>0, <2>4, <2>6 DEF Staged, Before, Early, AllTaken
    <2>8. Staged(l, m)' BY <2>2 DEF Staged, Before, Early
    <2>9. RunningIsTaken(m)' /\ FairTo(m)'
      BY <2>0, <2>4, <2>7 DEF StartOK, RunningIsTaken, FairTo
    <2>10. Status(m) # "WAITING"
      BY <1>0, <1>m, <2>0 DEF StartOK, LobbyIsEarly, Early, Unbound
    <2> QED BY <2>0, <2>2, <2>3, <2>4, <2>5, <2>8, <2>9, <2>10, LoopAdvances DEF Before, Early,
               Status
  <1>6. CASE CreateRowClash(l)
    BY <1>0, <1>6, <1>m, AbortStarts
    DEF CreateRowClash, LoopAt, IsAt, Unbound, MemoryOnly, dbVars, Early
  <1>7. CASE Begin(l)
    <2>0. job[l].at = "created" /\ m \in Matches /\ match[m] \in LiveMatch
      BY <1>7, <1>m DEF Begin, LoopAt, IsAt, Unbound
    <2>1. job' = [job EXCEPT ![l] = [job[l] EXCEPT !.at = "running"]] BY <1>7 DEF Begin, Move
    <2>2. \A x \in Tasks : Carries(x)
      BY <1>0, <1>p, <2>0, <2>1 DEF Carries, Points, Before, Early, TypeInv
    <2>3. SameMatches
      BY <1>7, <2>0 DEF Begin, SameMatches, TypeInv, TypeOK, LiveMatch
    <2>4. SameBooks BY <1>7, QuietBooks DEF Begin, MemoryOnly, registryVars
    <2> QED BY <2>2, <2>3, <2>4, QuietStarts
  <1>8. CASE EndFight(l)
    <2>1. (\A x \in Matches : StartOK(x)') /\ Receding
      BY <1>0, <1>8, <1>m, EndingStarts DEF EndFight, LoopAt, IsAt, Unbound
    <2> QED BY <2>1, RecedingAnnounces
  <1>9. CASE ExitLoop(l)
    <2>1. SameBooks /\ SameMatches
      BY <1>9, QuietBooks DEF ExitLoop, TasksOnly, registryVars, SameMatches
    <2>2. \A x \in Tasks : Carries(x)
      BY <1>0, <1>9, MoveCarries, RestOf DEF ExitLoop, LoopAt, IsAt, Early, Before
    <2> QED BY <2>1, <2>2, QuietStarts
  <1>10. CASE \E u \in Users : Charge(l, u) BY <1>10, ChargeStarts
  <1> QED BY <1>2, <1>3, <1>4, <1>5, <1>6, <1>7, <1>8, <1>9, <1>10 DEF LoopStep

LEMMA TeardownStarts ==
  ASSUME TypeInv, StartInv, NEW t \in Tasks, NEW m \in Matches, job[t].on = m, Teardown(t)
  PROVE  (\A x \in Matches : StartOK(x)') /\ EachAtItsPlace'
  <1> DEFINE S == TimersOf(m, t)
  <1>0. job[t].at = "teardown" /\ t \notin S BY DEF Teardown, IsAt, TimersOf
  <1>1. job'[t] = After(t) /\ \A x \in Tasks \ {t} : job'[x] = Stopped(S)[x]
    BY DEF Teardown, Stopped
  <1>2. \A x \in S : x \notin Loops /\ job[x].on = m
    BY TaskAssumption DEF TimersOf, TimerOf
  <1>3. SameBooks BY QuietBooks DEF Teardown, Unregister, MemoryOnly
  <1>4. \A x \in Tasks : Carries(x)
    <2> SUFFICES ASSUME NEW x \in Tasks PROVE Carries(x)
      OBVIOUS
    <2>1. CASE x = t
      BY <1>0, <1>1, <2>1, RestOf DEF Carries, Before, Early
    <2>2. CASE x # t /\ x \notin S BY <1>1, <2>2, StoppedOf DEF Carries
    <2>3. CASE x # t /\ x \in S
      <3>1. x \notin Loops /\ x \notin Sockets
        BY <2>3, TaskAssumption DEF TimersOf, TimerOf
      <3>2. job[x].at \notin {"announcing", "refunding"}
        BY <3>1 DEF StartInv, EachAtItsPlace
      <3>3. job'[x].at \notin Before
        BY <1>1, <2>3, <3>2, StoppedOf, RestOf DEF Before, Early
      <3> QED BY <3>1, <3>2, <3>3 DEF Carries
    <2> QED BY <2>1, <2>2, <2>3
  <1>5. CASE HeldByOthers(m, t)
    <2>1. SameMatches
      BY <1>5 DEF Teardown, SameMatches, TypeInv, TypeOK, LiveMatch
    <2> QED BY <1>3, <1>4, <2>1, QuietStarts
  <1>6. CASE ~HeldByOthers(m, t)
    <2>1. /\ match'[m] = Blank("GONE")
          /\ \A x \in Matches \ {m} : match'[x] = match[x]
      BY <1>6 DEF Teardown, TypeInv, TypeOK
    <2>2. match'[m].status = "GONE" /\ ~match'[m].energySpent BY <2>1 DEF Blank
    <2>3. Receding BY <1>4 DEF Carries, Receding
    <2>4. \A x \in Tasks : ~Starter(x, m)'
      <3> SUFFICES ASSUME NEW x \in Tasks, Starter(x, m)' PROVE FALSE
        OBVIOUS
      <3>1. Starter(x, m) BY <2>3, RecedesAt
      <3>2. x # t BY <1>1, RestOf, NoneAssumption DEF Starter
      <3>3. x \notin Loops => job[x].at = "announcing" /\ x \in Sockets
        BY <3>1 DEF Starter, StartInv, EachAtItsPlace
      <3>4. x \notin S BY <1>2, <3>3, TaskAssumption DEF TimersOf, TimerOf
      <3> QED BY <1>6, <3>1, <3>2, <3>4 DEF HeldByOthers, Starter
    <2>5. TaskIsKnown(m)' BY <2>4, SocketsAreTasks DEF TaskIsKnown, Starter
    <2>6. StartOK(m)'
      <3>1. StartOK(m) BY DEF StartInv
      <3> QED BY <1>3, <2>2, <2>4, <2>5, <3>1, StartShrinks DEF SameBooks
    <2>7. ASSUME NEW x \in Matches \ {m} PROVE StartOK(x)'
      <3>1. StartOK(x) /\ x # None BY NoneAssumption DEF StartInv
      <3>2. \A y \in Tasks : Starter(y, x) \/ Starter(y, x)' => job'[y] = job[y]
        <4> SUFFICES ASSUME NEW y \in Tasks, Starter(y, x) \/ Starter(y, x)' PROVE job'[y] = job[y]
          OBVIOUS
        <4>1. Starter(y, x) BY <2>3, RecedesAt
        <4>2. y # t /\ y \notin S BY <1>2, <2>7, <4>1 DEF Starter
        <4> QED BY <1>1, <4>2, StoppedOf
      <3> QED BY <1>3, <2>1, <3>1, <3>2, StartStays DEF SameBooks, Teardown, MemoryOnly, dbVars
    <2> QED BY <2>3, <2>6, <2>7, RecedingAnnounces
  <1> QED BY <1>5, <1>6

LEMMA ContinueStarts ==
  ASSUME TypeInv, StartInv, NEW t \in Tasks, Continue(t)
  PROVE  (\A x \in Matches : StartOK(x)') /\ EachAtItsPlace'
  <1>0. job[t] \in Job BY DEF TypeInv, TypeOK
  <1>1. job[t].on \in Matches
    BY OnTyped DEF Continue, Claim, Pay, Unsave, Teardown, Refund, IsAt, Unbound
  <1> PICK m \in Matches : m = job[t].on BY <1>1
  <1>p. \A p \in Points : /\ [job[t] EXCEPT !.at = p].at = p /\ [job[t] EXCEPT !.at = p].on = m
                          /\ [job[t] EXCEPT !.at = p].then = job[t].then
    BY <1>0 DEF Job
  <1>a. \/ AfterSave(t) = Rest(t)
        \/ AfterSave(t) = [job[t] EXCEPT !.at = "teardown"] /\ job[t].then # "lost"
    BY DEF AfterSave
  <1>2. ASSUME NEW j, Move(t, j), IsAt(t, "claiming") \/ IsAt(t, "paying"),
               \/ j = AfterSave(t) \/ (j = [job[t] EXCEPT !.at = "paying"])
        PROVE  \A x \in Tasks : Carries(x)
    <2>1. job' = [job EXCEPT ![t] = j] BY <1>2 DEF Move
    <2>2. \A x \in Tasks \ {t} : job'[x] = job[x] BY <2>1
    <2>3. job'[t] = j BY <2>1 DEF TypeInv
    <2> SUFFICES Carries(t) BY <2>2 DEF Carries
    <2>4. job[t].at \in {"claiming", "paying"} BY <1>2 DEF IsAt
    <2>5. CASE j = Rest(t)
      BY <2>3, <2>4, <2>5, RestOf DEF Carries, Before, Early
    <2>6. CASE \/ j = [job[t] EXCEPT !.at = "paying"]
               \/ j = [job[t] EXCEPT !.at = "teardown"] /\ job[t].then # "lost"
      <3>1. /\ j.at \in {"paying", "teardown"} /\ j.on = job[t].on /\ j.then = job[t].then
            /\ job[t].then = "lost" => j.at = "paying"
        BY <1>p, <2>6 DEF Points
      <3> QED BY <2>3, <2>4, <3>1 DEF Carries, Before, Early
    <2> QED BY <1>2, <1>a, <2>5, <2>6
  <1>3. CASE Claim(t)
    <2>1. \A x \in Tasks : Carries(x)
      <3>1. \E j \in {AfterSave(t), [job[t] EXCEPT !.at = "paying"]} : Move(t, j) BY <1>3 DEF Claim
      <3> QED BY <1>2, <1>3, <3>1 DEF Claim
    <2>2. SameBooks BY <1>3 DEF Claim, SameBooks, registryVars, TypeInv, TypeOK
    <2>3. SameMatches BY <1>3 DEF Claim, SameMatches
    <2> QED BY <2>1, <2>2, <2>3, QuietStarts
  <1>4. CASE Pay(t)
    <2>1. \A x \in Tasks : Carries(x) BY <1>2, <1>4 DEF Pay
    <2>2. SameBooks BY <1>4 DEF Pay, SameBooks, registryVars
    <2>3. SameMatches BY <1>4 DEF Pay, SameMatches
    <2> QED BY <2>1, <2>2, <2>3, QuietStarts
  <1>5. CASE Unsave(t)
    <2>1. \A x \in Tasks : Carries(x)
      <3>1. job' = [job EXCEPT ![t] = [job[t] EXCEPT !.at = "teardown"]] BY <1>5 DEF Unsave, Move
      <3>2. \A x \in Tasks \ {t} : job'[x] = job[x] BY <3>1
      <3>3. job'[t] = [job[t] EXCEPT !.at = "teardown"] BY <3>1 DEF TypeInv
      <3>4. Carries(t)
        BY <1>5, <1>p, <3>3 DEF Unsave, Carries, IsAt, Points, Before, Early
      <3> QED BY <3>2, <3>4 DEF Carries
    <2>2. SameBooks BY <1>5 DEF Unsave, SameBooks, registryVars, TypeInv, TypeOK
    <2>3. SameMatches BY <1>5 DEF Unsave, SameMatches
    <2> QED BY <2>1, <2>2, <2>3, QuietStarts
  <1> QED BY <1>3, <1>4, <1>5, TeardownStarts, RefundStarts DEF Continue

LEMMA DbFailsStarts ==
  ASSUME TypeInv, StartInv, NEW t \in Tasks, DbFails(t)
  PROVE  (\A x \in Matches : StartOK(x)') /\ EachAtItsPlace'
  <1>1. job[t].on \in Matches BY OnTyped DEF DbFails, Unbound
  <1>2. CASE t \in Loops /\ job[t].then # "lost" /\ job[t].at \notin {"refunding", "unsaving"}
    BY <1>1, <1>2, AbortStarts DEF DbFails, Early
  <1>3. CASE ~(t \in Loops /\ job[t].then # "lost" /\ job[t].at \notin {"refunding", "unsaving"})
    <2>1. SameBooks /\ SameMatches
      BY <1>3, QuietBooks DEF DbFails, SameMatches, registryVars
    <2>2. t \in Loops => job[t].at \notin Early
      BY <1>1, <1>3 DEF StartInv, StartOK, TaskIsKnown, Early
    <2>3. \A x \in Tasks : Carries(x)
      <3>1. At("failed", None, "idle").at = "failed" /\ At("failed", None, "idle").on = None
        BY RestOf
      <3> QED BY <1>3, <2>2, <3>1, MoveCarries, RestOf DEF DbFails, Before, Early
    <2> QED BY <2>1, <2>3, QuietStarts
  <1> QED BY <1>2, <1>3

LEMMA ProcessStarts ==
  ASSUME TypeInv, StartInv, Crash \/ Restarting
  PROVE  StartInv'
  <1>1. CASE Crash
    <2>1. \A t \in Tasks : job'[t] = Rest(t) BY <1>1 DEF Crash
    <2>2. Receding BY <2>1, RestOf DEF Receding, Before, Early
    <2>3. ASSUME NEW m \in Matches PROVE StartOK(m)' /\ ~match'[m].energySpent
      <3>0. StartOK(m) /\ m # None BY NoneAssumption DEF StartInv
      <3>1. \A t \in Tasks : ~Starter(t, m)' BY <2>1, <3>0, RestOf DEF Starter
      <3>2. TaskIsKnown(m)' BY <3>1, SocketsAreTasks DEF TaskIsKnown, Starter
      <3>3. /\ match'[m].status \in {"NEW", "GONE"}
            /\ match'[m].status = "NEW" => match'[m] = match[m]
            /\ ~match'[m].energySpent
        <4>1. CASE Fresh(m)
          BY <1>1, <3>0, <4>1 DEF Crash, Fresh, Status, StartOK, FreshIsUntouched, Untouched
        <4>2. CASE ~Fresh(m) BY <1>1, <4>2 DEF Crash, Blank
        <4> QED BY <4>1, <4>2
      <3> QED BY <1>1, <3>0, <3>1, <3>2, <3>3, StartShrinks
          DEF Crash, ForgetRegistry, dbVars
    <2>4. DeadIsStill' BY <2>1, <2>3, RestOf DEF DeadIsStill, Rest, At
    <2>5. StrandedIsOwed' BY <1>1 DEF Crash, StrandedIsOwed
    <2>6. EachAtItsPlace' BY <2>2, RecedingAnnounces
    <2> QED BY <2>3, <2>4, <2>5, <2>6 DEF StartInv
  <1>2. CASE Boot \/ Serve
    <2>0. UNCHANGED <<players, match, job, charged, refunded>>
      BY <1>2 DEF Boot, Serve, registryVars, dbVars
    <2>1. SameBooks
      BY <1>2, <2>0 DEF Boot, Serve, SameBooks, dbVars, TypeInv, TypeOK
    <2>2. SameMatches BY <2>0 DEF SameMatches
    <2>3. \A t \in Tasks : Carries(t) BY <2>0 DEF Carries
    <2>4. (\A m \in Matches : StartOK(m)') /\ EachAtItsPlace' BY <2>1, <2>2, <2>3, QuietStarts
    <2>5. DeadIsStill' BY <1>2, <2>0 DEF StartInv, DeadIsStill, Boot, Serve, Rest
    <2>6. StrandedIsOwed'
      <3>1. CASE Boot
        <4> SUFFICES ASSUME NEW m \in Matches, NEW u \in Users, <<m, u>> \in stranded'
                     PROVE  proc' = "booting" /\ row'[m] = "ABANDONED"
                              /\ charged'[m][u] = 1 /\ refunded'[m][u] = 0
          BY DEF StrandedIsOwed
        <4>1. row[m] = "IN_PROGRESS" /\ u \in players[m] BY <3>1 DEF Boot
        <4>2. AllTaken(m) BY <4>1 DEF StartInv, StartOK, RunningIsTaken
        <4> QED BY <2>0, <3>1, <4>1, <4>2 DEF Boot, AllTaken, Once
      <3>2. CASE Serve BY <3>2 DEF Serve, StrandedIsOwed
      <3> QED BY <1>2, <3>1, <3>2
    <2> QED BY <2>4, <2>5, <2>6 DEF StartInv
  <1>3. CASE \E m \in Matches, u \in Users : BootRefund(m, u)
    <2> PICK m \in Matches, u \in Users : BootRefund(m, u) BY <1>3
    <2>0. /\ proc = "booting" /\ row[m] = "ABANDONED" /\ charged[m][u] = 1 /\ refunded[m][u] = 0
          /\ UNCHANGED <<players, match, job, row, charged, proc>>
      BY DEF BootRefund, StartInv, StrandedIsOwed, registryVars
    <2>1. StartOK(m) /\ m # None BY NoneAssumption DEF StartInv
    <2>2. \A t \in Tasks : ~Starter(t, m)
      BY <2>0, <2>1, RestOf DEF StartInv, DeadIsStill, Starter
    <2>3. ~match[m].energySpent BY <2>0 DEF StartInv, DeadIsStill
    <2>4. /\ \A x \in Matches \ {m} : refunded'[x] = refunded[x]
          /\ \A v \in Users : refunded'[m][v] = IF v = u THEN 1 ELSE refunded[m][v]
      BY <2>0 DEF BootRefund, TypeInv, TypeOK
    <2>5. StartOK(m)'
      <3>1. Status(m) \notin {"NEW", "WAITING"}
        BY <2>0, <2>1, <2>2 DEF StartOK, FreshIsUntouched, LobbyIsEarly, Untouched
      <3>2. FairTo(m)' BY <2>0, <2>1, <2>4 DEF StartOK, FairTo
      <3>3. \A t \in Tasks : ~Starter(t, m)' BY <2>0, <2>2 DEF Starter
      <3>4. TaskIsKnown(m)' BY <3>3, SocketsAreTasks DEF TaskIsKnown, Starter
      <3>5. RunningIsTaken(m)' BY <2>0, <2>3 DEF RunningIsTaken
      <3> QED BY <2>0, <3>1, <3>2, <3>3, <3>4, <3>5
          DEF StartOK, OneStarter, StartersAreStaged, FreshIsUntouched, LobbyIsEarly, Status
    <2>6. ASSUME NEW x \in Matches \ {m} PROVE StartOK(x)'
      BY <2>0, <2>4, StartStays DEF StartInv
    <2>7. DeadIsStill' BY <2>0 DEF StartInv, DeadIsStill, Rest
    <2>8. StrandedIsOwed'
      <3> SUFFICES ASSUME NEW x \in Matches, NEW v \in Users, <<x, v>> \in stranded'
                   PROVE  proc' = "booting" /\ row'[x] = "ABANDONED"
                            /\ charged'[x][v] = 1 /\ refunded'[x][v] = 0
        BY DEF StrandedIsOwed
      <3>1. <<x, v>> \in stranded /\ (x # m \/ v # u) BY DEF BootRefund
      <3> QED BY <2>0, <2>4, <3>1 DEF StartInv, StrandedIsOwed
    <2>9. EachAtItsPlace' BY <2>0 DEF StartInv, EachAtItsPlace, At
    <2> QED BY <2>5, <2>6, <2>7, <2>8, <2>9 DEF StartInv
  <1> QED BY <1>1, <1>2, <1>3 DEF Restarting

\* Whatever a task does, it does in a living process.
LEMMA TasksLive ==
  ASSUME StartInv,
         \/ \E s \in Sockets : SocketStep(s)
         \/ \E l \in Loops   : LoopStep(l)
         \/ \E g \in Graces  : GraceStep(g)
         \/ \E t \in Tasks   : Continue(t) \/ DbFails(t)
         \/ \E w \in Sweepers : Housekeeping(w)
  PROVE  proc = "up" /\ proc' = proc /\ stranded' = stranded
  <1>1. ASSUME NEW t \in Tasks, job[t].at \notin {"closed", "idle"} PROVE proc = "up"
    BY <1>1, RestOf DEF StartInv, DeadIsStill
  <1>2. ASSUME NEW s \in Sockets, SocketStep(s) PROVE proc = "up" /\ proc' = proc /\ stranded' = stranded
    <2>0. s \in Tasks BY SocketsAreTasks
    <2>1. CASE Connect(s) BY <2>1 DEF Connect, TasksOnly, procVars
    <2>2. CASE ~Connect(s)
      <3>1. job[s].at \notin {"closed", "idle"}
        BY <1>2, <2>2 DEF SocketStep, Greet, DropQueued, DropQuietly, DropFromLobby, DropFromFight,
             Disconnecting, JoinQueue, LeaveQueue, CreateRoom, JoinRoom, LeaveMatch,
             JoinQueueAndPair, StartMatch, Launch, StartGrace, IsAt
      <3>2. proc' = proc /\ stranded' = stranded
        BY <1>2 DEF SocketStep, Connect, Greet, DropQueued, DropQuietly, DropFromLobby,
           DropFromFight,
             JoinQueue, LeaveQueue, CreateRoom, JoinRoom, LeaveMatch, JoinQueueAndPair, StartMatch,
             Launch, Spawn, StartGrace, CancelRoom, Finish, TasksOnly, MemoryOnly, procVars
      <3> QED BY <1>1, <2>0, <3>1, <3>2
    <2> QED BY <2>1, <2>2
  <1>3. ASSUME NEW l \in Loops, LoopStep(l) PROVE proc = "up" /\ proc' = proc /\ stranded' = stranded
    <2>1. job[l].at \notin {"closed", "idle"}
      BY <1>3 DEF LoopStep, Reject, BeginCharge, Build, CreateRow, CreateRowClash, Begin, EndFight,
             ExitLoop, Charge, LoopAt, IsAt
    <2>2. proc' = proc /\ stranded' = stranded
      BY <1>3 DEF LoopStep, Reject, BeginCharge, Build, CreateRow, CreateRowClash, Begin, EndFight,
             ExitLoop, Charge, Finish, TasksOnly, MemoryOnly, procVars
    <2> QED BY <1>1, <2>1, <2>2, SocketsAreTasks
  <1>4. ASSUME NEW g \in Graces, GraceStep(g) PROVE proc = "up" /\ proc' = proc /\ stranded' = stranded
    <2>1. job[g].at \notin {"closed", "idle"} BY <1>4 DEF GraceStep, GraceLapses, GraceForfeits, IsAt
    <2>2. proc' = proc /\ stranded' = stranded
      BY <1>4 DEF GraceStep, GraceLapses, GraceForfeits, Finish, TasksOnly, MemoryOnly, procVars
    <2> QED BY <1>1, <2>1, <2>2, SocketsAreTasks
  <1>5. ASSUME NEW t \in Tasks, Continue(t) \/ DbFails(t)
        PROVE  proc = "up" /\ proc' = proc /\ stranded' = stranded
    <2>1. job[t].at \notin {"closed", "idle"}
      BY <1>5 DEF Continue, Claim, Pay, Unsave, Teardown, Refund, DbFails, IsAt
    <2>2. proc' = proc /\ stranded' = stranded
      BY <1>5 DEF Continue, Claim, Pay, Unsave, Teardown, Refund, DbFails, MemoryOnly, procVars
    <2> QED BY <1>1, <2>1, <2>2
  <1>6. ASSUME NEW w \in Sweepers, Housekeeping(w)
        PROVE  proc = "up" /\ proc' = proc /\ stranded' = stranded
    <2>1. proc = "up" \/ job[w].at \notin {"closed", "idle"}
      BY <1>6 DEF Housekeeping, SweepQueue, SweepRoom, CloseIdleRoom, IsAt
    <2>2. proc' = proc /\ stranded' = stranded
      BY <1>6 DEF Housekeeping, SweepQueue, SweepRoom, CloseIdleRoom, CancelRoom, TasksOnly,
                  MemoryOnly, procVars
    <2> QED BY <1>1, <2>1, <2>2, SocketsAreTasks
  <1> QED BY <1>2, <1>3, <1>4, <1>5, <1>6

LEMMA NextStarts == ~DoubleStart /\ TypeInv /\ StartInv /\ [Next]_vars => StartInv'
  <1> SUFFICES ASSUME ~DoubleStart, TypeInv, StartInv, [Next]_vars PROVE StartInv'
    OBVIOUS
  <1> DEFINE Rests == (\A x \in Matches : StartOK(x)') /\ EachAtItsPlace'
  <1>1. ASSUME NEW s \in Sockets, SocketStep(s) PROVE Rests
    <2>1. CASE Connect(s) \/ Greet(s) BY <2>1, ConnectStarts
    <2>2. CASE DropQueued(s) \/ DropQuietly(s) \/ DropFromLobby(s) \/ DropFromFight(s)
      BY <2>2, DropStarts
    <2>3. CASE JoinQueue(s) \/ LeaveQueue(s) BY <2>3, QueueStarts
    <2>4. CASE \E m \in Matches : CreateRoom(s, m) \/ JoinRoom(s, m) BY <2>4, RoomStarts
    <2>5. CASE \E m \in Matches, e \in Sockets : JoinQueueAndPair(s, e, m) BY <2>5, PairStarts
    <2>6. CASE \/ \E l \in Loops : Launch(s, l)
               \/ \E m \in Matches, l \in Loops : StartMatch(s, l, m)
               \/ \E m \in Matches : LeaveMatch(s, m)
      BY <2>6, MatchStartStarts
    <2>7. CASE \E g \in Graces : StartGrace(s, g) BY <2>7, GraceStarts
    <2> QED BY <1>1, <2>1, <2>2, <2>3, <2>4, <2>5, <2>6, <2>7 DEF SocketStep
  <1>2. ASSUME Rests, proc = "up" /\ proc' = proc /\ stranded' = stranded PROVE StartInv'
    <2>1. stranded = {}
      <3>1. \A m \in Matches, u \in Users : <<m, u>> \notin stranded
        BY <1>2 DEF StartInv, StrandedIsOwed
      <3> QED BY <3>1 DEF TypeInv, TypeOK
    <2> QED BY <1>2, <2>1 DEF StartInv, DeadIsStill, StrandedIsOwed
  <1>3. CASE UNCHANGED vars
    <2>1. SameBooks /\ SameMatches /\ (\A t \in Tasks : Carries(t))
      BY <1>3 DEF vars, registryVars, dbVars, SameBooks, SameMatches, Carries
    <2>2. Rests BY <2>1, QuietStarts
    <2>3. DeadIsStill' BY <1>3 DEF vars, procVars, StartInv, DeadIsStill, Rest
    <2>4. StrandedIsOwed' BY <1>3 DEF vars, procVars, dbVars, StartInv, StrandedIsOwed
    <2> QED BY <2>2, <2>3, <2>4 DEF StartInv
  <1>4. CASE Crash \/ Restarting BY <1>4, ProcessStarts
  <1>5. CASE \E s \in Sockets : SocketStep(s) BY <1>1, <1>2, <1>5, TasksLive
  <1>6. CASE \E l \in Loops : LoopStep(l)
    <2>1. Rests BY <1>6, LoopStarts
    <2> QED BY <1>2, <1>6, <2>1, TasksLive
  <1>7. CASE \E g \in Graces : GraceStep(g)
    <2>1. Rests BY <1>7, GraceStarts
    <2> QED BY <1>2, <1>7, <2>1, TasksLive
  <1>8. CASE \E t \in Tasks : Continue(t) \/ DbFails(t)
    <2>1. Rests BY <1>8, ContinueStarts, DbFailsStarts
    <2> QED BY <1>2, <1>8, <2>1, TasksLive
  <1>9. CASE \E w \in Sweepers : Housekeeping(w)
    <2>1. Rests BY <1>9, HousekeepingStarts
    <2> QED BY <1>2, <1>9, <2>1, TasksLive
  <1> QED BY <1>3, <1>4, <1>5, <1>6, <1>7, <1>8, <1>9 DEF Next

LEMMA StartsAlways == ~DoubleStart => (Spec => [](TypeInv /\ StartInv))
  <1> SUFFICES ASSUME ~DoubleStart PROVE Spec => [](TypeInv /\ StartInv)
    OBVIOUS
  <1>1. TypeInv /\ StartInv /\ [Next]_vars => (TypeInv /\ StartInv)'
    BY NextTyped, NextStarts
  <1> QED BY <1>1, InitTyped, StartInit, PTL DEF Spec

(* A match costs each of its players one energy at most, and gives back no  *)
(* more than it took, however the charge, the failed start, the refunds and *)
(* the refunds of a restart fall together -- as long as clients start a     *)
(* lobby once (with a second start the code does charge twice).             *)
THEOREM EnergyAlwaysFair == ~DoubleStart => (Spec => []EnergyIsFair)
  <1>1. StartInv => EnergyIsFair
    BY DEF StartInv, StartOK, FairTo, EnergyIsFair, ChargedOnce
  <1> QED BY <1>1, StartsAlways, PTL

-----------------------------------------------------------------------------
(* Who is absent is watched.  Everybody sits in a lobby with a socket; a    *)
(* lobby that was closed under a starter that goes on (the loop then makes  *)
(* it IN_PROGRESS again) still has the handler that will tear it down; and  *)
(* a row is there before `persisted' says so, which is why that handler     *)
(* goes straight to the teardown.                                           *)
Leaving(m) == \E t \in Sockets \cup Sweepers : job[t].on = m /\ job[t].at = "teardown"
Watching(t, u, m) ==
  job[t].on = m /\ job[t].at \in {"notifying", "sleeping"} /\ job[t].who = u
StartsEarly(t, m) == Starter(t, m) /\ job[t].at \in Early

LobbyIsPresent(m) == Status(m) = "WAITING" => \A u \in players[m] : match[m].socket[u] # None
AbsentIsAwaited(m) ==
  Status(m) = "IN_PROGRESS" =>
    \A u \in players[m] : match[m].socket[u] = None
                            => Leaving(m) \/ \E t \in Tasks : Watching(t, u, m)
ClosedIsLeaving(m) ==
  Status(m) # "WAITING" /\ (\E t \in Tasks : StartsEarly(t, m)) => Leaving(m)
SavedHasRow(m) ==
  match[m].persisted \/ (\E l \in Loops : job[l].on = m /\ job[l].at = "created")
    => row[m] # "none"

WatchOK(m) == /\ SavedHasRow(m)
              /\ m \in live => LobbyIsPresent(m) /\ AbsentIsAwaited(m) /\ ClosedIsLeaving(m)
WatchInv == \A m \in Matches : WatchOK(m)

LEMMA WatchInit == Init => WatchInv
  <1> SUFFICES ASSUME Init PROVE WatchInv
    OBVIOUS
  <1>1. live = {} /\ \A m \in Matches : ~match[m].persisted
    BY DEF Init, RegistryInit, Blank
  <1>2. \A l \in Loops : job[l].at # "created" BY SocketsAreTasks, RestOf DEF Init
  <1> QED BY <1>1, <1>2 DEF WatchInv, WatchOK, SavedHasRow

LEMMA WatchKept ==
  ASSUME NEW m \in Matches, WatchOK(m),
         m \in live' => m \in live, players'[m] = players[m], players[m] \subseteq Users,
         match'[m].status = match[m].status \/ match'[m].status \notin {"WAITING", "IN_PROGRESS"},
         \A u \in Users :
           m \in live' /\ match'[m].socket[u] = None => \/ match[m].socket[u] = None
                                         \/ match'[m].status \notin {"WAITING", "IN_PROGRESS"}
                                         \/ /\ match'[m].status = "IN_PROGRESS"
                                            /\ \E x \in Tasks : Watching(x, u, m)',
         m \in live' /\ Leaving(m) => Leaving(m)',
         \A u \in Users :
           m \in live' /\ match'[m].socket[u] = None /\ match'[m].status = "IN_PROGRESS"
             => \A t \in Tasks : Watching(t, u, m) => \E x \in Tasks : Watching(x, u, m)',
         \A t \in Tasks : StartsEarly(t, m)' => StartsEarly(t, m),
         m \in live' /\ match'[m].status # match[m].status
           => Leaving(m)' \/ \A t \in Tasks : ~StartsEarly(t, m)',
         SavedHasRow(m)'
  PROVE  WatchOK(m)'
  <1> SUFFICES ASSUME m \in live'
               PROVE  LobbyIsPresent(m)' /\ AbsentIsAwaited(m)' /\ ClosedIsLeaving(m)'
    BY DEF WatchOK
  <1>2. m \in live' OBVIOUS
  <1>3. LobbyIsPresent(m) /\ AbsentIsAwaited(m) /\ ClosedIsLeaving(m) BY <1>2 DEF WatchOK
  <1>4. LobbyIsPresent(m)' BY <1>2, <1>3 DEF LobbyIsPresent, Status
  <1>5. AbsentIsAwaited(m)'
    <2> SUFFICES ASSUME match'[m].status = "IN_PROGRESS", NEW u \in players[m], match'[m].socket[u] = None
                 PROVE  Leaving(m)' \/ \E t \in Tasks : Watching(t, u, m)'
      BY DEF AbsentIsAwaited, Status
    <2>1. CASE match[m].socket[u] = None
      <3>1. Leaving(m) \/ \E t \in Tasks : Watching(t, u, m)
        BY <1>3, <2>1 DEF AbsentIsAwaited, Status
      <3> QED BY <1>2, <3>1
    <2>2. CASE match[m].socket[u] # None BY <1>2, <2>2
    <2> QED BY <2>1, <2>2
  <1>6. ClosedIsLeaving(m)'
    <2> SUFFICES ASSUME match'[m].status # "WAITING", NEW t \in Tasks, StartsEarly(t, m)'
                 PROVE  Leaving(m)'
      BY DEF ClosedIsLeaving, Status
    <2>1. CASE match'[m].status = match[m].status
      BY <1>2, <1>3, <2>1 DEF ClosedIsLeaving, Status
    <2>2. CASE match'[m].status # match[m].status BY <1>2, <2>2
    <2> QED BY <2>1, <2>2
  <1> QED BY <1>4, <1>5, <1>6

\* What the tasks of a step may do for a match they leave alone: one that watches or
\* tears down stays, and nobody newly starts a match or gets past its row.
Stays(t) == \/ job'[t] = job[t]
            \/ /\ job[t].at \notin {"teardown", "notifying", "sleeping"}
               /\ job'[t].at \notin Early \cup {"created"}

LEMMA StaysOn ==
  ASSUME NEW m \in Matches, \A t \in Tasks : Stays(t)
  PROVE  /\ Leaving(m) => Leaving(m)'
         /\ \A t \in Tasks : \A u : Watching(t, u, m) => Watching(t, u, m)'
         /\ \A t \in Tasks : StartsEarly(t, m)' => StartsEarly(t, m)
         /\ \A l \in Loops : job'[l].on = m /\ job'[l].at = "created"
                               => job[l].on = m /\ job[l].at = "created"
  <1>1. Leaving(m) => Leaving(m)'
    BY SocketsAreTasks DEF Leaving, Stays
  <1>2. \A t \in Tasks : \A u : Watching(t, u, m) => Watching(t, u, m)' BY DEF Watching, Stays
  <1>3. \A t \in Tasks : StartsEarly(t, m)' => StartsEarly(t, m)
    BY DEF StartsEarly, Starter, Stays
  <1>4. \A l \in Loops : job'[l].on = m /\ job'[l].at = "created"
                           => job[l].on = m /\ job[l].at = "created"
    BY SocketsAreTasks DEF Stays
  <1> QED BY <1>1, <1>2, <1>3, <1>4

\* A step whose tasks stay and whose matches keep their status, sockets and rows.
QuietMatch(m) ==
  /\ match'[m].status = match[m].status /\ match'[m].persisted = match[m].persisted
  /\ players'[m] = players[m] /\ (m \in live' => m \in live)
  /\ row[m] # "none" => row'[m] # "none"

LEMMA WatchStays ==
  ASSUME TypeInv, NEW m \in Matches, WatchOK(m), QuietMatch(m), \A t \in Tasks : Stays(t),
         \A u \in Users : match'[m].socket[u] = None
                            => \/ match[m].socket[u] = None
                               \/ match'[m].status \notin {"WAITING", "IN_PROGRESS"}
  PROVE  WatchOK(m)'
  <1>1. players[m] \subseteq Users BY DEF TypeInv, TypeOK, RegistryTypeOK
  <1>2. /\ Leaving(m) => Leaving(m)'
        /\ \A t \in Tasks, u \in Users : Watching(t, u, m) => Watching(t, u, m)'
        /\ \A t \in Tasks : StartsEarly(t, m)' => StartsEarly(t, m)
        /\ \A l \in Loops : job'[l].on = m /\ job'[l].at = "created"
                              => job[l].on = m /\ job[l].at = "created"
    BY StaysOn
  <1>3. match'[m].status = match[m].status /\ match'[m].persisted = match[m].persisted
    BY DEF QuietMatch
  <1>4. SavedHasRow(m)'
    BY <1>2 DEF QuietMatch, WatchOK, SavedHasRow
  <1> QED BY <1>1, <1>2, <1>3, <1>4, WatchKept DEF QuietMatch

LEMMA MoveStays ==
  ASSUME TypeInv, NEW t \in Tasks, NEW j, Move(t, j),
         job[t].at \notin {"teardown", "notifying", "sleeping"},
         j.at \notin Early \cup {"created"}
  PROVE  \A x \in Tasks : Stays(x)
  BY DEF Move, Stays, TypeInv

LEMMA QuietWatch ==
  ASSUME TypeInv, WatchInv, UNCHANGED <<live, players, match>>, \A t \in Tasks : Stays(t),
         \A m \in Matches : row[m] # "none" => row'[m] # "none"
  PROVE  WatchInv'
  <1> SUFFICES ASSUME NEW m \in Matches PROVE WatchOK(m)'
    BY DEF WatchInv
  <1>1. QuietMatch(m) /\ WatchOK(m) BY DEF QuietMatch, WatchInv
  <1>2. \A u \in Users : match'[m].socket[u] = match[m].socket[u] OBVIOUS
  <1> QED BY <1>1, <1>2, WatchStays

LEMMA ConnectWatch ==
  ASSUME TypeInv, StartInv, WatchInv, NEW s \in Sockets, Connect(s) \/ Greet(s)
  PROVE  WatchInv'
  <1>0. s \in Tasks /\ Owner[s] \in Users BY MatchOfTyped, SocketsAreTasks
  <1>1. UNCHANGED <<live, players, row>>
    BY DEF Connect, Greet, TasksOnly, MemoryOnly, registryVars, dbVars
  <1>2. CASE Connect(s)
    <2>1. \A x \in Tasks : Stays(x)
      BY <1>0, <1>2, MoveStays, RestOf DEF Connect, IsAt, Early
    <2>2. UNCHANGED match BY <1>2 DEF Connect, TasksOnly
    <2> QED BY <1>1, <2>1, <2>2, QuietWatch
  <1>3. CASE Greet(s) /\ job[s].on = None
    <2>1. \A x \in Tasks : Stays(x)
      BY <1>0, <1>3, MoveStays, RestOf DEF Greet, IsAt, Early
    <2> QED BY <1>1, <1>3, <2>1, QuietWatch DEF Greet
  <1>4. CASE Greet(s) /\ job[s].on # None
    <2> SUFFICES ASSUME NEW m \in Matches PROVE WatchOK(m)'
      BY DEF WatchInv
    <2> DEFINE k == job[s].on
               u == Owner[s]
    <2>1. k \in Matches /\ job[s].at = "greeting" BY <1>0, <1>4, OnTyped DEF Greet, IsAt
    <2>2. match' = [match EXCEPT ![k].socket[u] = s, ![k].grace[u] = None]
      BY <1>4 DEF Greet
    <2>3. match[m] \in LiveMatch /\ match[k] \in LiveMatch BY <2>1 DEF TypeInv, TypeOK
    <2>4. /\ match'[m].status = match[m].status /\ match'[m].persisted = match[m].persisted
          /\ \A v \in Users : match'[m].socket[v] = IF m = k /\ v = u THEN s ELSE match[m].socket[v]
      <3>1. CASE m = k BY <1>0, <2>1, <2>2, <2>3, <3>1 DEF TypeInv, TypeOK, LiveMatch
      <3>2. CASE m # k BY <2>2, <3>2 DEF TypeInv, TypeOK
      <3> QED BY <3>1, <3>2
    <2>5. job' = [x \in Tasks |-> CASE x = s -> Open [] x \in TimerOf(k, u) -> Rest(x)
                                    [] OTHER -> job[x]]
      BY <1>4 DEF Greet
    <2>6. \A x \in Tasks : \/ job'[x] = job[x]
                           \/ x = s /\ job'[x] = Open
                           \/ x \in TimerOf(k, u) /\ job'[x] = Rest(x)
      BY <2>5
    <2>7. \A x \in TimerOf(k, u) : x \notin Sockets \cup Sweepers /\ job[x].on = k /\ job[x].who = u
      BY TaskAssumption DEF TimerOf
    <2>8. Leaving(m) => Leaving(m)'
      BY <2>1, <2>6, <2>7, SocketsAreTasks DEF Leaving
    <2>9. \A v \in Users : match'[m].socket[v] = None =>
            \A t \in Tasks : Watching(t, v, m) => Watching(t, v, m)'
      <3> SUFFICES ASSUME NEW v \in Users, match'[m].socket[v] = None,
                          NEW t \in Tasks, Watching(t, v, m)
                   PROVE  job'[t] = job[t]
        BY DEF Watching
      <3>1. ~(m = k /\ v = u) BY <2>4, NoneAssumption
      <3>2. t \notin TimerOf(k, u) BY <2>7, <3>1 DEF Watching
      <3>3. t # s BY <2>1 DEF Watching
      <3> QED BY <2>6, <3>2, <3>3
    <2>10. \A t \in Tasks : StartsEarly(t, m)' => StartsEarly(t, m)
      BY <2>6, RestOf DEF StartsEarly, Starter, Early
    <2>11. SavedHasRow(m)'
      BY <1>1, <2>4, <2>6, RestOf, SocketsAreTasks DEF WatchInv, WatchOK, SavedHasRow
    <2>12. WatchOK(m) /\ players[m] \subseteq Users
      BY DEF WatchInv, TypeInv, TypeOK, RegistryTypeOK
    <2>13. \A v \in Users : match'[m].socket[v] = None => match[m].socket[v] = None
      BY <2>4, NoneAssumption
    <2> QED BY <1>1, <2>4, <2>8, <2>9, <2>10, <2>11, <2>12, <2>13, WatchKept
  <1> QED BY <1>2, <1>3, <1>4

\* Ending a match whose starter goes on leaves a task at its teardown.
LEMMA EndingWatch ==
  ASSUME TypeInv, StartInv, WatchInv, NEW t \in Tasks, NEW m \in Matches, NEW n,
         \/ Finish(t, m, n) /\ Status(m) = "IN_PROGRESS"
         \/ CancelRoom(t, m, n) /\ t \in Sockets \cup Sweepers,
         job[t].at \in {"open", "failed", "sleeping", "running", "closing"},
         job[t].at = "sleeping" => job[t].on = m
  PROVE  WatchInv'
  <1> SUFFICES ASSUME NEW x \in Matches PROVE WatchOK(x)'
    BY DEF WatchInv
  <1>1. /\ job'[t].at \in {"claiming", "unsaving", "teardown"}
        /\ ~match[m].persisted => job'[t].at = "teardown"
        /\ job'[t].on = m
        /\ \A y \in Tasks \ {t} :
              /\ job[y].on # m => job'[y] = job[y]
              /\ y \in Sockets \cup Sweepers => job'[y] = job[y]
              /\ job'[y] = job[y] \/ job'[y].on = None
                   \/ (job'[y].at = job[y].at /\ job'[y].at \in {"claiming", "paying"}
                         /\ job'[y].on = job[y].on /\ job'[y].then = "lost")
              /\ job'[y].at \in Before => job'[y] = job[y]
    BY EndingTasks
  <1>2. UNCHANGED <<live, players, row>>
    BY DEF Finish, CancelRoom, MemoryOnly, registryVars, dbVars
  <1>3. /\ match'[m].status \in {"FINISHED", "CANCELLED"}
        /\ match'[m].persisted = match[m].persisted /\ match'[m].socket = match[m].socket
        /\ \A y \in Matches \ {m} : match'[y] = match[y]
    BY DEF Finish, CancelRoom, TypeInv, TypeOK, LiveMatch
  <1>4. WatchOK(x) /\ players[x] \subseteq Users /\ x # None /\ m # None
    BY NoneAssumption DEF WatchInv, TypeInv, TypeOK, RegistryTypeOK
  <1>5. SavedHasRow(x)'
    <2>1. \A l \in Loops : job'[l].on = x /\ job'[l].at = "created"
                             => job[l].on = x /\ job[l].at = "created"
      <3> SUFFICES ASSUME NEW l \in Loops, job'[l].on = x, job'[l].at = "created"
                   PROVE  job[l].on = x /\ job[l].at = "created"
        OBVIOUS
      <3>1. l # t BY <1>1
      <3> QED BY <1>1, <1>4, <3>1, SocketsAreTasks
    <2> QED BY <1>2, <1>3, <1>4, <2>1 DEF WatchOK, SavedHasRow
  <1>6. \A y \in Tasks : StartsEarly(y, x)' => StartsEarly(y, x)
    <2> SUFFICES ASSUME NEW y \in Tasks, StartsEarly(y, x)' PROVE StartsEarly(y, x)
      OBVIOUS
    <2>1. y # t BY <1>1 DEF StartsEarly, Early
    <2>2. job'[y] = job[y] BY <1>1, <2>1 DEF StartsEarly, Before
    <2> QED BY <2>2 DEF StartsEarly, Starter
  <1>7. Leaving(x) => Leaving(x)'
    <2> SUFFICES ASSUME NEW y \in Sockets \cup Sweepers, job[y].on = x, job[y].at = "teardown"
                 PROVE  job'[y] = job[y]
      BY DEF Leaving
    <2>1. y \in Tasks /\ y # t BY SocketsAreTasks
    <2> QED BY <1>1, <2>1
  <1>8. CASE x # m
    <2>1. \A u \in Users, y \in Tasks : Watching(y, u, x) => Watching(y, u, x)'
      <3> SUFFICES ASSUME NEW u \in Users, NEW y \in Tasks, Watching(y, u, x)
                   PROVE  job'[y] = job[y]
        BY DEF Watching
      <3>1. CASE y # t BY <1>1, <1>8, <3>1 DEF Watching
      <3>2. CASE y = t BY <1>8, <3>2 DEF Watching
      <3> QED BY <3>1, <3>2
    <2> QED BY <1>2, <1>3, <1>4, <1>5, <1>6, <1>7, <1>8, <2>1, WatchKept
  <1>9. CASE x = m
    <2>1. ASSUME m \in live, NEW y \in Tasks, StartsEarly(y, m)' PROVE Leaving(m)'
      <3>1. StartsEarly(y, m) BY <1>6, <1>9, <2>1
      <3>2. CASE Status(m) # "WAITING"
        BY <1>4, <1>7, <1>9, <2>1, <3>1, <3>2 DEF WatchOK, ClosedIsLeaving
      <3>3. CASE Status(m) = "WAITING"
        <4>1. t \in Sockets \cup Sweepers BY <3>3
        <4>2. row[m] = "none"
          BY <3>1 DEF StartInv, StartOK, StartersAreStaged, Staged, StartsEarly, Before
        <4>3. ~match[m].persisted BY <1>4, <1>9, <4>2 DEF WatchOK, SavedHasRow
        <4> QED BY <1>1, <4>1, <4>3 DEF Leaving
      <3> QED BY <3>2, <3>3
    <2>2. match'[x].status \notin {"WAITING", "IN_PROGRESS"} BY <1>3, <1>9
    <2> QED BY <1>2, <1>3, <1>4, <1>5, <1>6, <1>7, <1>9, <2>1, <2>2, WatchKept
  <1> QED BY <1>8, <1>9

LEMMA DropWatch ==
  ASSUME TypeInv, StartInv, WatchInv, NEW s \in Sockets,
         DropQueued(s) \/ DropQuietly(s) \/ DropFromLobby(s) \/ DropFromFight(s)
  PROVE  WatchInv'
  <1>0. s \in Tasks /\ Owner[s] \in Users /\ MatchOf(Owner[s]) \in Matches \cup {None}
    BY MatchOfTyped, SocketsAreTasks
  <1> PICK k \in Matches \cup {None} : k = MatchOf(Owner[s]) BY <1>0
  <1> PICK u \in Users : u = Owner[s] BY <1>0
  <1>1. job[s].at \in {"open", "failed"}
    BY DEF DropQueued, DropQuietly, DropFromLobby, DropFromFight, Disconnecting
  <1>2. CASE DropQueued(s)
    <2>1. \A x \in Tasks : Stays(x)
      BY <1>0, <1>1, <1>2, MoveStays, RestOf DEF DropQueued, Early
    <2> QED BY <1>2, <2>1, QuietWatch DEF DropQueued, MemoryOnly, dbVars
  <1>3. CASE DropQuietly(s)
    <2> SUFFICES ASSUME NEW m \in Matches PROVE WatchOK(m)'
      BY DEF WatchInv
    <2>1. \A x \in Tasks : Stays(x)
      BY <1>0, <1>1, <1>3, MoveStays, RestOf DEF DropQuietly, Early
    <2>2. QuietMatch(m)
      BY <1>3 DEF DropQuietly, MemoryOnly, dbVars, registryVars, QuietMatch, TypeInv, TypeOK,
                  LiveMatch
    <2>3. \A v \in Users : match'[m].socket[v] = None
                             => \/ match[m].socket[v] = None
                                \/ match'[m].status \notin {"WAITING", "IN_PROGRESS"}
      <3>1. CASE AttachedTo(s, k)
        <4>1. Status(k) \notin {"WAITING", "IN_PROGRESS"} BY <1>3, <3>1 DEF DropQuietly
        <4>2. match' = [match EXCEPT ![k].socket[u] = None] BY <1>3, <3>1 DEF DropQuietly
        <4>3. CASE m = k BY <2>2, <4>1, <4>3 DEF QuietMatch, Status
        <4>4. CASE m # k BY <4>2, <4>4 DEF TypeInv, TypeOK
        <4> QED BY <4>3, <4>4
      <3>2. CASE ~AttachedTo(s, k) BY <1>3, <3>2 DEF DropQuietly
      <3> QED BY <3>1, <3>2
    <2> QED BY <2>1, <2>2, <2>3, WatchStays DEF WatchInv
  <1>4. CASE DropFromLobby(s)
    <2>1. k \in Matches BY <1>4 DEF DropFromLobby, AttachedTo
    <2> QED BY <1>0, <1>1, <1>4, <2>1, EndingWatch DEF DropFromLobby
  <1>5. CASE DropFromFight(s)
    <2> SUFFICES ASSUME NEW m \in Matches PROVE WatchOK(m)'
      BY DEF WatchInv
    <2>1. k \in Matches /\ Status(k) = "IN_PROGRESS" BY <1>5 DEF DropFromFight, AttachedTo
    <2>2. job'[s] = [At("notifying", k, "closed") EXCEPT !.who = u]
      BY <1>0, <1>5 DEF DropFromFight, Move, TypeInv
    <2>3. job'[s].at = "notifying" /\ job'[s].on = k /\ job'[s].who = u
      BY <2>2 DEF At
    <2>4. \A x \in Tasks : Stays(x)
      BY <1>0, <1>1, <1>5, <2>3, MoveStays DEF DropFromFight, Move, Stays, Early, TypeInv
    <2>5. match' = [match EXCEPT ![k].socket[u] = None] BY <1>5 DEF DropFromFight
    <2>6. /\ match'[m].status = match[m].status /\ match'[m].persisted = match[m].persisted
          /\ \A v \in Users : match'[m].socket[v] = IF m = k /\ v = u THEN None ELSE match[m].socket[v]
      BY <2>1, <2>5 DEF TypeInv, TypeOK, LiveMatch
    <2>7. UNCHANGED <<live, players, row>>
      BY <1>5 DEF DropFromFight, MemoryOnly, registryVars, dbVars
    <2>8. WatchOK(m) /\ players[m] \subseteq Users
      BY DEF WatchInv, TypeInv, TypeOK, RegistryTypeOK
    <2>9. /\ Leaving(m) => Leaving(m)'
          /\ \A t \in Tasks : \A v \in Users : Watching(t, v, m) => Watching(t, v, m)'
          /\ \A t \in Tasks : StartsEarly(t, m)' => StartsEarly(t, m)
          /\ \A l \in Loops : job'[l].on = m /\ job'[l].at = "created"
                                => job[l].on = m /\ job[l].at = "created"
      BY <2>4, StaysOn
    <2>10. Watching(s, u, k)' BY <2>3 DEF Watching
    <2>11. \A v \in Users : match'[m].socket[v] = None => match[m].socket[v] = None \/ (m = k /\ v = u)
      BY <2>6
    <2>12. m = k => match'[m].status = "IN_PROGRESS" BY <2>1, <2>6 DEF Status
    <2>13. SavedHasRow(m)' BY <2>6, <2>7, <2>8, <2>9 DEF WatchOK, SavedHasRow
    <2> QED BY <1>0, <2>6, <2>7, <2>8, <2>9, <2>10, <2>11, <2>12, <2>13, WatchKept
  <1> QED BY <1>2, <1>3, <1>4, <1>5

LEMMA GraceWatch ==
  ASSUME TypeInv, StartInv, WatchInv, NEW g \in Graces,
         GraceStep(g) \/ \E s \in Sockets : StartGrace(s, g)
  PROVE  WatchInv'
  <1>0. g \in Tasks /\ g \notin Sockets \cup Sweepers \cup Loops BY SocketsAreTasks, TaskAssumption
  <1>1. CASE \E s \in Sockets : StartGrace(s, g)
    <2> PICK s \in Sockets : StartGrace(s, g) BY <1>1
    <2> SUFFICES ASSUME NEW m \in Matches PROVE WatchOK(m)'
      BY DEF WatchInv
    <2>0. s \in Tasks /\ s # g /\ job[s].at = "notifying" /\ job[g].at = "idle" /\ job[s] \in Job
      BY <1>0, SocketsAreTasks DEF StartGrace, IsAt, TypeInv, TypeOK
    <2>1. /\ job'[s] = Rest(s) /\ job'[g] = [job[s] EXCEPT !.at = "sleeping", !.then = "idle"]
          /\ \A t \in Tasks \ {s, g} : job'[t] = job[t]
      BY <1>0, <2>0 DEF StartGrace, TypeInv
    <2>2. job'[g].at = "sleeping" /\ job'[g].on = job[s].on /\ job'[g].who = job[s].who
      BY <2>0, <2>1 DEF Job
    <2>3. UNCHANGED <<live, players, row>>
      BY DEF StartGrace, MemoryOnly, registryVars, dbVars
    <2>4. /\ match'[m].status = match[m].status /\ match'[m].persisted = match[m].persisted
          /\ match'[m].socket = match[m].socket
      <3>1. match[m] \in LiveMatch BY DEF TypeInv, TypeOK
      <3>2. match'[m] = match[m] \/ match'[m] = [match[m] EXCEPT !.grace[Owner[s]] = g]
        BY DEF StartGrace, TypeInv, TypeOK
      <3> QED BY <3>1, <3>2 DEF LiveMatch
    <2>5. Leaving(m) => Leaving(m)'
      BY <1>0, <2>0, <2>1, SocketsAreTasks DEF Leaving
    <2>6. \A u \in Users, t \in Tasks : Watching(t, u, m) => \E x \in Tasks : Watching(x, u, m)'
      <3> SUFFICES ASSUME NEW u \in Users, NEW t \in Tasks, Watching(t, u, m)
                   PROVE  \E x \in Tasks : Watching(x, u, m)'
        OBVIOUS
      <3>1. CASE t = s BY <1>0, <2>2, <3>1 DEF Watching
      <3>2. CASE t # s
        <4>1. t # g BY <2>0 DEF Watching
        <4> QED BY <2>1, <3>2, <4>1 DEF Watching
      <3> QED BY <3>1, <3>2
    <2>7. \A t \in Tasks : StartsEarly(t, m)' => StartsEarly(t, m)
      <3> SUFFICES ASSUME NEW t \in Tasks, StartsEarly(t, m)' PROVE StartsEarly(t, m)
        OBVIOUS
      <3>1. job'[t].at \in Early BY DEF StartsEarly
      <3>2. job'[s].at \notin Early BY <2>1, RestOf DEF Early
      <3>3. job'[g].at \notin Early BY <2>2 DEF Early
      <3>4. job'[t] = job[t] BY <2>1, <3>1, <3>2, <3>3
      <3> QED BY <3>4 DEF StartsEarly, Starter
    <2>8. SavedHasRow(m)'
      <3>1. \A l \in Loops : l # s /\ l # g /\ job'[l] = job[l]
        BY <1>0, <2>1, SocketsAreTasks, TaskAssumption
      <3> QED BY <2>3, <2>4, <3>1 DEF WatchInv, WatchOK, SavedHasRow
    <2>9. WatchOK(m) /\ players[m] \subseteq Users
      BY DEF WatchInv, TypeInv, TypeOK, RegistryTypeOK
    <2> QED BY <2>3, <2>4, <2>5, <2>6, <2>7, <2>8, <2>9, WatchKept
  <1>2. CASE GraceLapses(g)
    <2> SUFFICES ASSUME NEW m \in Matches PROVE WatchOK(m)'
      BY DEF WatchInv
    <2>1. job[g].at = "sleeping" /\ job' = [job EXCEPT ![g] = Rest(g)]
      BY <1>2 DEF GraceLapses, IsAt, Move
    <2>2. job'[g] = Rest(g) /\ \A t \in Tasks \ {g} : job'[t] = job[t]
      BY <1>0, <2>1 DEF TypeInv
    <2>3. UNCHANGED <<live, players, row, match>>
      BY <1>2 DEF GraceLapses, TasksOnly, registryVars, dbVars
    <2>4. \A u \in Users : match[m].socket[u] = None /\ Status(m) = "IN_PROGRESS" => ~Watching(g, u, m)
      BY <1>2 DEF GraceLapses, Spared, Watching
    <2>5. Leaving(m) => Leaving(m)' BY <1>0, <2>2, SocketsAreTasks DEF Leaving
    <2>6. \A u \in Users, t \in Tasks : Watching(t, u, m) /\ t # g => Watching(t, u, m)'
      BY <2>2 DEF Watching
    <2>7. \A t \in Tasks : StartsEarly(t, m)' => StartsEarly(t, m)
      BY <2>2, RestOf DEF StartsEarly, Starter, Early
    <2>8. SavedHasRow(m)'
      <3>1. \A l \in Loops : l # g /\ job'[l] = job[l]
        BY <1>0, <2>2, SocketsAreTasks
      <3> QED BY <2>3, <3>1 DEF WatchInv, WatchOK, SavedHasRow
    <2>9. WatchOK(m) /\ players[m] \subseteq Users
      BY DEF WatchInv, TypeInv, TypeOK, RegistryTypeOK
    <2> QED BY <2>3, <2>4, <2>5, <2>6, <2>7, <2>8, <2>9, WatchKept DEF Status
  <1>3. CASE GraceForfeits(g)
    <2>1. job[g].on \in Matches BY <1>0, <1>3, OnTyped DEF GraceForfeits, IsAt, Unbound
    <2> QED BY <1>0, <1>3, <2>1, EndingWatch DEF GraceForfeits, IsAt, Spared
  <1> QED BY <1>1, <1>2, <1>3 DEF GraceStep

LEMMA QueueWatch ==
  ASSUME TypeInv, WatchInv, NEW s \in Sockets, JoinQueue(s) \/ LeaveQueue(s)
  PROVE  WatchInv'
  BY QuietWatch DEF JoinQueue, LeaveQueue, MemoryOnly, dbVars, Stays

LEMMA HousekeepingWatch ==
  ASSUME TypeInv, StartInv, WatchInv, NEW w \in Sweepers, Housekeeping(w)
  PROVE  WatchInv'
  <1>0. w \in Tasks BY SocketsAreTasks
  <1>1. CASE SweepQueue(w)
    BY <1>1, QuietWatch DEF SweepQueue, MemoryOnly, dbVars, Stays
  <1>2. CASE \E m \in Matches : SweepRoom(w, m)
    <2>1. \A x \in Tasks : Stays(x)
      BY <1>0, <1>2, MoveStays, RestOf DEF SweepRoom, IsAt, Early
    <2> QED BY <1>2, <2>1, QuietWatch DEF SweepRoom, TasksOnly, registryVars, dbVars
  <1>3. CASE CloseIdleRoom(w)
    <2>1. job[w].on \in Matches /\ job[w].at = "closing"
      BY <1>0, <1>3, OnTyped DEF CloseIdleRoom, IsAt, Unbound
    <2> QED BY <1>0, <1>3, <2>1, EndingWatch DEF CloseIdleRoom
  <1> QED BY <1>1, <1>2, <1>3 DEF Housekeeping

\* A match somebody just opened, or took the second seat of.
LEMMA RoomWatch ==
  ASSUME TypeInv, StartInv, WatchInv, NEW s \in Sockets, NEW m \in Matches,
         CreateRoom(s, m) \/ JoinRoom(s, m)
  PROVE  WatchInv'
  <1>0. Owner[s] \in Users /\ s # None BY MatchOfTyped, NoneAssumption
  <1> PICK u \in Users : u = Owner[s] BY <1>0
  <1>1. job' = job /\ row' = row BY DEF CreateRoom, JoinRoom, MemoryOnly, dbVars
  <1>2. \A x \in Matches \ {m} : /\ players'[x] = players[x] /\ match'[x] = match[x]
                                 /\ x \in live' => x \in live
    BY DEF CreateRoom, JoinRoom, Register, Bind, TypeInv, TypeOK, RegistryTypeOK
  <1>3. ASSUME NEW x \in Matches \ {m} PROVE WatchOK(x)'
    <2>1. QuietMatch(x) /\ WatchOK(x) /\ \A t \in Tasks : Stays(t)
      BY <1>1, <1>2 DEF QuietMatch, WatchInv, Stays
    <2> QED BY <1>2, <2>1, WatchStays
  <1>4. /\ match'[m].status = "WAITING"
        /\ match'[m].persisted => match[m].persisted
        /\ \A v \in players'[m] : match'[m].socket[v] # None
    <2>1. CASE CreateRoom(s, m)
      <3>1. match'[m] = [Blank("WAITING") EXCEPT !.host = u, !.socket = [NoOne EXCEPT ![u] = s]]
        BY <2>1 DEF CreateRoom, TypeInv, TypeOK
      <3>2. players'[m] = {u}
        BY <2>1 DEF CreateRoom, Register, TypeInv, TypeOK, RegistryTypeOK
      <3> QED BY <1>0, <3>1, <3>2 DEF Blank, NoOne
    <2>2. CASE JoinRoom(s, m)
      <3>0. match[m] \in LiveMatch /\ players[m] \subseteq Users
        BY DEF TypeInv, TypeOK, RegistryTypeOK
      <3>1. match'[m] = [match[m] EXCEPT !.socket[u] = s]
        BY <2>2 DEF JoinRoom, TypeInv, TypeOK
      <3>2. players'[m] = players[m] \cup {u}
        BY <2>2 DEF JoinRoom, Bind, TypeInv, TypeOK, RegistryTypeOK
      <3>3. \A v \in players[m] : match[m].socket[v] # None
        BY <2>2 DEF JoinRoom, WatchInv, WatchOK, LobbyIsPresent
      <3> QED BY <1>0, <2>2, <3>0, <3>1, <3>2, <3>3 DEF JoinRoom, Status, LiveMatch
    <2> QED BY <2>1, <2>2
  <1>5. SavedHasRow(m)' BY <1>1, <1>4 DEF WatchInv, WatchOK, SavedHasRow
  <1>6. WatchOK(m)'
    BY <1>4, <1>5 DEF WatchOK, LobbyIsPresent, AbsentIsAwaited, ClosedIsLeaving, Status
  <1> QED BY <1>3, <1>6 DEF WatchInv

LEMMA PairWatch ==
  ASSUME TypeInv, StartInv, WatchInv, NEW s \in Sockets, NEW e \in Sockets, NEW m \in Matches,
         JoinQueueAndPair(s, e, m)
  PROVE  WatchInv'
  <1>0. s \in Tasks /\ Owner[s] \in Users /\ Owner[e] \in Users /\ s # None /\ e # None /\ s \notin Loops
    BY MatchOfTyped, NoneAssumption, SocketsAreTasks, TaskAssumption
  <1> PICK u \in Users : u = Owner[s] BY <1>0
  <1> PICK v \in Users : v = Owner[e] BY <1>0
  <1>1. row' = row BY DEF JoinQueueAndPair, MemoryOnly, dbVars
  <1>2. \A x \in Matches \ {m} : /\ players'[x] = players[x] /\ match'[x] = match[x]
                                 /\ x \in live' => x \in live
    BY DEF JoinQueueAndPair, Register, TypeInv, TypeOK, RegistryTypeOK
  <1>3. /\ job[s].at = "open" /\ job'[s].at = "announcing" /\ job'[s].on = m
        /\ \A t \in Tasks \ {s} : job'[t] = job[t]
    BY <1>0, RestOf DEF JoinQueueAndPair, IsAt, Move, TypeInv
  <1>4. ASSUME NEW x \in Matches \ {m} PROVE WatchOK(x)'
    <2>1. Leaving(x) => Leaving(x)' BY <1>3, SocketsAreTasks DEF Leaving
    <2>2. \A t \in Tasks : \A w \in Users : Watching(t, w, x) => Watching(t, w, x)'
      BY <1>3 DEF Watching
    <2>3. \A t \in Tasks : StartsEarly(t, x)' => StartsEarly(t, x)
      BY <1>3 DEF StartsEarly, Starter
    <2>4. SavedHasRow(x)'
      BY <1>0, <1>1, <1>2, <1>3, SocketsAreTasks DEF WatchInv, WatchOK, SavedHasRow
    <2>5. WatchOK(x) /\ players[x] \subseteq Users
      BY DEF WatchInv, TypeInv, TypeOK, RegistryTypeOK
    <2> QED BY <1>2, <2>1, <2>2, <2>3, <2>4, <2>5, WatchKept
  <1>5. /\ match'[m].status = "WAITING" /\ ~match'[m].persisted
        /\ \A w \in players'[m] : match'[m].socket[w] # None
    <2>1. match'[m] = [Blank("WAITING") EXCEPT !.host = v, !.socket = [NoOne EXCEPT ![u] = s, ![v] = e]]
      BY DEF JoinQueueAndPair, TypeInv, TypeOK
    <2>2. players'[m] = {u, v}
      BY DEF JoinQueueAndPair, Register, TypeInv, TypeOK, RegistryTypeOK
    <2> QED BY <1>0, <2>1, <2>2 DEF Blank, NoOne
  <1>6. SavedHasRow(m)'
    BY <1>0, <1>1, <1>3, <1>5, SocketsAreTasks DEF WatchInv, WatchOK, SavedHasRow
  <1>7. WatchOK(m)'
    BY <1>5, <1>6 DEF WatchOK, LobbyIsPresent, AbsentIsAwaited, ClosedIsLeaving, Status
  <1> QED BY <1>4, <1>7 DEF WatchInv

\* The handler that spawns `_run_match'; the lobby still waits, or it spawned for the
\* pairing it was already announcing.
LEMMA SpawnWatch ==
  ASSUME TypeInv, StartInv, WatchInv, NEW s \in Sockets, NEW l \in Loops, NEW k \in Matches,
         Spawn(s, l, k), (job[s].at = "open" /\ Status(k) = "WAITING") \/ StartsEarly(s, k),
         job[s].at \in {"open", "announcing"}
  PROVE  WatchInv'
  <1> SUFFICES ASSUME NEW m \in Matches PROVE WatchOK(m)'
    BY DEF WatchInv
  <1>0. s \in Tasks /\ l \in Tasks /\ s # l /\ job[l].at = "idle" /\ l \notin Sockets \cup Sweepers
    BY SocketsAreTasks, TaskAssumption DEF Spawn, IsAt
  <1>1. /\ job'[l] = At("countdown", k, "idle") /\ job'[s] = Open
        /\ \A t \in Tasks \ {s, l} : job'[t] = job[t]
    BY <1>0 DEF Spawn, TypeInv
  <1>2. job'[l].at = "countdown" /\ job'[l].on = k /\ job'[s].at = "open" BY <1>1, RestOf
  <1>3. UNCHANGED <<live, players, row>> BY DEF Spawn, MemoryOnly, registryVars, dbVars
  <1>4. /\ match'[m].status = match[m].status /\ match'[m].persisted = match[m].persisted
        /\ match'[m].socket = match[m].socket
    <2>1. match[m] \in LiveMatch BY DEF TypeInv, TypeOK
    <2>2. match'[m] = match[m] \/ match'[m] = [match[m] EXCEPT !.task = l]
      BY DEF Spawn, TypeInv, TypeOK
    <2> QED BY <2>1, <2>2 DEF LiveMatch
  <1>5. Leaving(m) => Leaving(m)'
    <2> SUFFICES ASSUME NEW y \in Sockets \cup Sweepers, job[y].on = m, job[y].at = "teardown"
                 PROVE  job'[y] = job[y]
      BY DEF Leaving
    <2> QED BY <1>0, <1>1, SocketsAreTasks
  <1>6. \A t \in Tasks : \A u \in Users : Watching(t, u, m) => Watching(t, u, m)'
    <2> SUFFICES ASSUME NEW t \in Tasks, NEW u \in Users, Watching(t, u, m) PROVE job'[t] = job[t]
      BY DEF Watching
    <2> QED BY <1>0, <1>1 DEF Watching
  <1>7. SavedHasRow(m)'
    <2>1. \A y \in Loops : job'[y].at = "created" => job'[y] = job[y]
      BY <1>0, <1>1, <1>2, SocketsAreTasks, TaskAssumption
    <2> QED BY <1>3, <1>4, <2>1 DEF WatchInv, WatchOK, SavedHasRow
  <1>8. WatchOK(m) /\ players[m] \subseteq Users
    BY DEF WatchInv, TypeInv, TypeOK, RegistryTypeOK
  <1>9. \A t \in Tasks : StartsEarly(t, m)' => StartsEarly(t, m) \/ (t = l /\ m = k)
    <2> SUFFICES ASSUME NEW t \in Tasks, StartsEarly(t, m)', ~(t = l /\ m = k)
                 PROVE  StartsEarly(t, m)
      OBVIOUS
    <2>1. t # s BY <1>2 DEF StartsEarly, Early
    <2>2. t # l BY <1>2 DEF StartsEarly, Starter
    <2> QED BY <1>1, <2>1, <2>2 DEF StartsEarly, Starter
  <1>10. ASSUME m \in live' PROVE ClosedIsLeaving(m)'
    <2> SUFFICES ASSUME Status(m) # "WAITING", NEW t \in Tasks, StartsEarly(t, m)'
                 PROVE  Leaving(m)
      BY <1>4, <1>5 DEF ClosedIsLeaving, Status
    <2>1. \E y \in Tasks : StartsEarly(y, m) BY <1>0, <1>9
    <2> QED BY <1>3, <1>8, <1>10, <2>1 DEF WatchOK, ClosedIsLeaving
  <1>11. ASSUME m \in live' PROVE LobbyIsPresent(m)' /\ AbsentIsAwaited(m)'
    <2>1. LobbyIsPresent(m) /\ AbsentIsAwaited(m) BY <1>3, <1>8, <1>11 DEF WatchOK
    <2>2. LobbyIsPresent(m)' BY <1>3, <1>4, <2>1 DEF LobbyIsPresent, Status
    <2>3. AbsentIsAwaited(m)'
      BY <1>3, <1>4, <1>5, <1>6, <1>8, <2>1 DEF AbsentIsAwaited, Status
    <2> QED BY <2>2, <2>3
  <1> QED BY <1>7, <1>10, <1>11 DEF WatchOK

LEMMA MatchStartWatch ==
  ASSUME TypeInv, StartInv, WatchInv, NEW s \in Sockets,
         \/ \E l \in Loops : Launch(s, l)
         \/ \E m \in Matches, l \in Loops : StartMatch(s, l, m)
         \/ \E m \in Matches : LeaveMatch(s, m)
  PROVE  WatchInv'
  <1>0. s \in Tasks BY SocketsAreTasks
  <1>1. CASE \E l \in Loops : Launch(s, l)
    <2> PICK l \in Loops : Launch(s, l) BY <1>1
    <2>1. job[s].on \in Matches /\ job[s].at = "announcing"
      BY <1>0, OnTyped DEF Launch, IsAt, Unbound
    <2> PICK k \in Matches : k = job[s].on BY <2>1
    <2>2. StartsEarly(s, k) BY <2>1 DEF StartsEarly, Starter, Early
    <2>3. Spawn(s, l, k) BY DEF Launch
    <2> QED BY <2>1, <2>2, <2>3, SpawnWatch
  <1>2. CASE \E m \in Matches, l \in Loops : StartMatch(s, l, m)
    BY <1>2, SpawnWatch DEF StartMatch, IsAt
  <1>3. CASE \E m \in Matches : LeaveMatch(s, m)
    <2> PICK m \in Matches : LeaveMatch(s, m) BY <1>3
    <2>1. job[s].at = "open" BY DEF LeaveMatch, IsAt
    <2>2. \/ Finish(s, m, "open") /\ Status(m) = "IN_PROGRESS"
          \/ CancelRoom(s, m, "open") /\ s \in Sockets \cup Sweepers
      BY DEF LeaveMatch
    <2> QED BY <1>0, <2>1, <2>2, EndingWatch
  <1> QED BY <1>1, <1>2, <1>3

\* A step of the loop l of match k that leaves live, players and sockets alone, and takes
\* the match nowhere but into the fight.
LEMMA LoopWatch ==
  ASSUME TypeInv, StartInv, WatchInv, NEW l \in Loops, NEW k \in Matches, job[l].on = k,
         job[l].at \notin {"notifying", "sleeping"}, \A t \in Tasks \ {l} : job'[t] = job[t],
         job'[l].at \in Early => job[l].at \in Early /\ job'[l].on = k,
         UNCHANGED <<live, players>>,
         \A m \in Matches \ {k} : match'[m] = match[m],
         match'[k].socket = match[k].socket,
         \/ match'[k].status = match[k].status
         \/ /\ job'[l].at \notin Early
            /\ \/ match'[k].status \notin {"WAITING", "IN_PROGRESS"}
               \/ match'[k].status = "IN_PROGRESS" /\ StartsEarly(l, k),
         \A m \in Matches : SavedHasRow(m)'
  PROVE  WatchInv'
  <1> SUFFICES ASSUME NEW m \in Matches PROVE WatchOK(m)'
    BY DEF WatchInv
  <1>0. l \in Tasks /\ l \notin Sockets \cup Sweepers BY SocketsAreTasks, TaskAssumption
  <1>1. WatchOK(m) /\ players[m] \subseteq Users
    BY DEF WatchInv, TypeInv, TypeOK, RegistryTypeOK
  <1>2. Leaving(m) => Leaving(m)'
    <2> SUFFICES ASSUME NEW y \in Sockets \cup Sweepers, job[y].on = m, job[y].at = "teardown"
                 PROVE  job'[y] = job[y]
      BY DEF Leaving
    <2> QED BY <1>0, SocketsAreTasks
  <1>3. \A t \in Tasks : \A u \in Users : Watching(t, u, m) => Watching(t, u, m)'
    BY DEF Watching
  <1>4. \A t \in Tasks : StartsEarly(t, m)' => StartsEarly(t, m)
    <2> SUFFICES ASSUME NEW t \in Tasks, StartsEarly(t, m)' PROVE StartsEarly(t, m)
      OBVIOUS
    <2>1. CASE t = l BY <2>1 DEF StartsEarly, Starter
    <2>2. CASE t # l BY <2>2 DEF StartsEarly, Starter
    <2> QED BY <2>1, <2>2
  <1>5. CASE m # k \/ match'[m].status = match[m].status
    <2>1. match'[m].status = match[m].status /\ match'[m].socket = match[m].socket BY <1>5
    <2> QED BY <1>1, <1>2, <1>3, <1>4, <2>1, WatchKept
  <1>6. CASE m = k /\ match'[m].status # match[m].status
    <2>1. StartOK(k) /\ Starter(l, k) BY DEF StartInv, Starter
    <2>2. job'[l].at \notin Early BY <1>6
    <2>3. \A t \in Tasks : ~StartsEarly(t, k)'
      <3> SUFFICES ASSUME NEW t \in Tasks, StartsEarly(t, k)' PROVE FALSE
        OBVIOUS
      <3>1. t # l BY <2>2 DEF StartsEarly
      <3>2. Starter(t, k) BY <1>4, <1>6 DEF StartsEarly
      <3> QED BY <1>0, <2>1, <3>1, <3>2 DEF StartOK, OneStarter
    <2>4. ClosedIsLeaving(m)' BY <1>6, <2>3 DEF ClosedIsLeaving
    <2>5. CASE match'[k].status \notin {"WAITING", "IN_PROGRESS"}
      BY <1>6, <2>4, <2>5 DEF WatchOK, LobbyIsPresent, AbsentIsAwaited, Status
    <2>6. CASE match'[k].status = "IN_PROGRESS"
      <3>1. ASSUME k \in live, NEW u \in players[k], match[k].socket[u] = None PROVE Leaving(k)'
        <4>1. Status(k) # "WAITING"
          BY <1>1, <1>6, <3>1 DEF WatchOK, LobbyIsPresent
        <4>2. StartsEarly(l, k) BY <1>6, <2>6
        <4> QED BY <1>0, <1>1, <1>2, <1>6, <3>1, <4>1, <4>2 DEF WatchOK, ClosedIsLeaving
      <3> QED BY <1>6, <2>4, <2>6, <3>1 DEF WatchOK, LobbyIsPresent, AbsentIsAwaited, Status
    <2> QED BY <1>6, <2>5, <2>6
  <1> QED BY <1>5, <1>6

LEMMA SavedStays ==
  ASSUME WatchInv, NEW m \in Matches, match'[m].persisted => match[m].persisted,
         row[m] # "none" => row'[m] # "none",
         \A l \in Loops : job'[l].on = m /\ job'[l].at = "created"
                            => job[l].on = m /\ job[l].at = "created"
  PROVE  SavedHasRow(m)'
  BY DEF WatchInv, WatchOK, SavedHasRow

LEMMA AbortWatch ==
  ASSUME TypeInv, StartInv, WatchInv, NEW l \in Loops, NEW k \in Matches, job[l].on = k,
         job[l].at \notin {"notifying", "sleeping"}, Abort(l, k),
         UNCHANGED <<live, players, row>>
  PROVE  WatchInv'
  <1>0. l \in Tasks BY SocketsAreTasks
  <1>1. /\ job'[l].at \in {"teardown", "refunding", "unsaving"}
        /\ \A t \in Tasks \ {l} : job'[t] = job[t]
    <2> DEFINE gone   == At("teardown", k, "idle")
               unsave == At("unsaving", k, "idle")
               refund == [At("refunding", k, "idle") EXCEPT !.left = players[k]]
    <2>1. gone.at = "teardown" /\ unsave.at = "unsaving" /\ refund.at = "refunding"
      BY DEF At
    <2>2. Move(l, gone) \/ Move(l, unsave) \/ Move(l, refund)
      BY DEF Abort, Move
    <2> HIDE DEF gone, unsave, refund
    <2> QED BY <1>0, <2>1, <2>2 DEF Move, TypeInv
  <1>2. /\ \A m \in Matches \ {k} : match'[m] = match[m]
        /\ match'[k].socket = match[k].socket /\ match'[k].persisted = match[k].persisted
        /\ match'[k].status = match[k].status \/ match'[k].status = "CANCELLED"
    BY DEF Abort, TypeInv, TypeOK, LiveMatch
  <1>3. ASSUME NEW m \in Matches PROVE SavedHasRow(m)'
    <2>1. match'[m].persisted = match[m].persisted BY <1>2
    <2>2. \A x \in Loops : job'[x].at = "created" => job'[x] = job[x]
      BY <1>1, SocketsAreTasks
    <2> QED BY <2>1, <2>2, SavedStays
  <1>4. job'[l].at \notin Early BY <1>1 DEF Early
  <1> QED BY <1>1, <1>2, <1>3, <1>4, LoopWatch

LEMMA LoopStepWatch ==
  ASSUME TypeInv, StartInv, WatchInv, NEW l \in Loops, LoopStep(l)
  PROVE  WatchInv'
  <1>0. l \in Tasks /\ l \notin Sockets /\ job[l] \in Job
    BY SocketsAreTasks, TaskAssumption DEF TypeInv, TypeOK
  <1>1. job[l].at \in {"countdown", "charging", "building", "creating", "created", "running"}
    BY DEF LoopStep, Reject, BeginCharge, Build, CreateRow, CreateRowClash, Begin, EndFight,
           ExitLoop, Charge, LoopAt, IsAt
  <1>2. job[l].on \in Matches BY <1>0, <1>1, OnTyped DEF Unbound
  <1> PICK k \in Matches : k = job[l].on BY <1>2
  <1>p. \A p \in Points, L \in SUBSET Users :
          /\ [job[l] EXCEPT !.at = p].at = p /\ [job[l] EXCEPT !.at = p].on = k
          /\ [job[l] EXCEPT !.at = p, !.left = L].at = p
          /\ [job[l] EXCEPT !.at = p, !.left = L].on = k
          /\ [job[l] EXCEPT !.left = L].at = job[l].at /\ [job[l] EXCEPT !.left = L].on = k
    BY <1>0 DEF Job
  <1>m. match[k] \in LiveMatch /\ players[k] \subseteq Users /\ job[l].left \subseteq Users
    BY <1>0 DEF TypeInv, TypeOK, RegistryTypeOK, Job
  <1>3. CASE Reject(l)
    BY <1>1, <1>3, AbortWatch DEF Reject, MemoryOnly, dbVars, registryVars
  <1>4. CASE CreateRowClash(l)
    BY <1>1, <1>4, AbortWatch DEF CreateRowClash, MemoryOnly, dbVars, registryVars
  <1>5. CASE EndFight(l)
    BY <1>0, <1>5, EndingWatch DEF EndFight, LoopAt, IsAt
  <1>6. CASE ExitLoop(l)
    <2>1. \A x \in Tasks : Stays(x)
      BY <1>0, <1>6, MoveStays, RestOf DEF ExitLoop, LoopAt, IsAt, Early
    <2> QED BY <1>6, <2>1, QuietWatch DEF ExitLoop, TasksOnly, registryVars, dbVars
  <1>7. CASE BeginCharge(l) \/ \E u \in Users : Charge(l, u)
    <2>1. /\ job[l].at \in Early /\ job'[l].at \in Early /\ job'[l].on = k
          /\ \A t \in Tasks \ {l} : job'[t] = job[t]
      <3>1. CASE BeginCharge(l)
        <4>1. job' = [job EXCEPT ![l] = [job[l] EXCEPT !.at = "charging", !.left = players[k]]]
          BY <3>1 DEF BeginCharge, Move
        <4> QED BY <1>0, <1>p, <1>m, <3>1, <4>1
            DEF BeginCharge, LoopAt, IsAt, Early, Points, TypeInv
      <3>2. CASE \E u \in Users : Charge(l, u)
        <4> PICK u \in Users : Charge(l, u) BY <3>2
        <4>1. job' = [job EXCEPT ![l] = IF job[l].left = {u}
                        THEN [job[l] EXCEPT !.at = "building", !.left = {}]
                        ELSE [job[l] EXCEPT !.left = @ \ {u}]]
          BY DEF Charge, OneOf, Move
        <4>2. job[l].at = "charging" BY DEF Charge, LoopAt, IsAt
        <4>3. /\ [job[l] EXCEPT !.at = "building", !.left = {}].at = "building"
              /\ [job[l] EXCEPT !.at = "building", !.left = {}].on = k
              /\ [job[l] EXCEPT !.left = @ \ {u}].at = "charging"
              /\ [job[l] EXCEPT !.left = @ \ {u}].on = k
          BY <1>0, <4>2 DEF Job
        <4> QED BY <1>0, <4>1, <4>2, <4>3 DEF Early, TypeInv
      <3> QED BY <1>7, <3>1, <3>2
    <2>2. UNCHANGED <<live, players, match, row>>
      BY <1>7 DEF BeginCharge, Charge, TasksOnly, registryVars, dbVars
    <2>3. ASSUME NEW m \in Matches PROVE SavedHasRow(m)'
      <3>1. job'[l].at # "created" BY <2>1 DEF Early
      <3>2. \A x \in Loops : job'[x].at = "created" => job'[x] = job[x]
        BY <2>1, <3>1, SocketsAreTasks
      <3> QED BY <2>2, <3>2, SavedStays
    <2> QED BY <1>1, <2>1, <2>2, <2>3, LoopWatch
  <1>8. CASE Build(l)
    <2>1. /\ job[l].at = "building" /\ job'[l].at = "creating"
          /\ \A t \in Tasks \ {l} : job'[t] = job[t]
      BY <1>0, <1>p, <1>8 DEF Build, LoopAt, IsAt, Move, TypeInv, Points
    <2>2. UNCHANGED <<live, players, row>> BY <1>8 DEF Build, MemoryOnly, registryVars, dbVars
    <2>3. /\ match'[k].status = "IN_PROGRESS" /\ match'[k].socket = match[k].socket
          /\ match'[k].persisted = match[k].persisted
          /\ \A m \in Matches \ {k} : match'[m] = match[m]
      BY <1>8, <1>m DEF Build, TypeInv, TypeOK, LiveMatch
    <2>4. ASSUME NEW m \in Matches PROVE SavedHasRow(m)'
      <3>1. match'[m].persisted = match[m].persisted BY <2>3
      <3>2. \A x \in Loops : job'[x].at = "created" => job'[x] = job[x]
        BY <2>1, SocketsAreTasks
      <3> QED BY <2>2, <3>1, <3>2, SavedStays
    <2>5. StartsEarly(l, k) /\ job'[l].at \notin Early
      BY <2>1 DEF StartsEarly, Starter, Early
    <2> QED BY <2>1, <2>2, <2>3, <2>4, <2>5, LoopWatch
  <1>9. CASE CreateRow(l)
    <2>1. /\ job[l].at = "creating" /\ job'[l].at = "created" /\ job'[l].on = k
          /\ \A t \in Tasks \ {l} : job'[t] = job[t]
      BY <1>0, <1>p, <1>9 DEF CreateRow, LoopAt, IsAt, Move, TypeInv, Points
    <2>2. UNCHANGED <<live, players, match>> BY <1>9 DEF CreateRow, registryVars
    <2>3. row'[k] = "IN_PROGRESS" /\ \A m \in Matches \ {k} : row'[m] = row[m]
      BY <1>9 DEF CreateRow, TypeInv, TypeOK
    <2>4. ASSUME NEW m \in Matches PROVE SavedHasRow(m)'
      <3>1. CASE m = k BY <2>3, <3>1 DEF SavedHasRow
      <3>2. CASE m # k
        <4>1. \A x \in Loops : job'[x].on = m /\ job'[x].at = "created" => job'[x] = job[x]
          BY <2>1, <3>2, SocketsAreTasks
        <4> QED BY <2>2, <2>3, <3>2, <4>1, SavedStays
      <3> QED BY <3>1, <3>2
    <2>5. job'[l].at \notin Early BY <2>1 DEF Early
    <2> QED BY <2>1, <2>2, <2>4, <2>5, LoopWatch
  <1>10. CASE Begin(l)
    <2>1. /\ job[l].at = "created" /\ job'[l].at = "running"
          /\ \A t \in Tasks \ {l} : job'[t] = job[t]
      BY <1>0, <1>p, <1>10 DEF Begin, LoopAt, IsAt, Move, TypeInv, Points
    <2>2. UNCHANGED <<live, players, row>> BY <1>10 DEF Begin, MemoryOnly, registryVars, dbVars
    <2>3. /\ match'[k].status = match[k].status /\ match'[k].socket = match[k].socket
          /\ \A m \in Matches \ {k} : match'[m] = match[m]
      BY <1>10, <1>m DEF Begin, TypeInv, TypeOK, LiveMatch
    <2>4. ASSUME NEW m \in Matches PROVE SavedHasRow(m)'
      <3>1. CASE m = k
        <4>1. row[k] # "none" BY <2>1 DEF WatchInv, WatchOK, SavedHasRow
        <4> QED BY <2>2, <3>1, <4>1 DEF SavedHasRow
      <3>2. CASE m # k
        <4>1. \A x \in Loops : job'[x].at = "created" => job'[x] = job[x]
          BY <2>1, SocketsAreTasks
        <4> QED BY <2>2, <2>3, <3>2, <4>1, SavedStays
      <3> QED BY <3>1, <3>2
    <2>5. job'[l].at \notin Early BY <2>1 DEF Early
    <2> QED BY <2>1, <2>2, <2>3, <2>4, <2>5, LoopWatch
  <1> QED BY <1>3, <1>4, <1>5, <1>6, <1>7, <1>8, <1>9, <1>10 DEF LoopStep

LEMMA TeardownWatch ==
  ASSUME TypeInv, StartInv, WatchInv, NEW t \in Tasks, NEW k \in Matches, job[t].on = k,
         Teardown(t)
  PROVE  WatchInv'
  <1> SUFFICES ASSUME NEW m \in Matches PROVE WatchOK(m)'
    BY DEF WatchInv
  <1>1. row' = row /\ players' = players /\ live' = live \ {k}
    BY DEF Teardown, Unregister, MemoryOnly, dbVars
  <1>2. /\ match'[m].persisted => match[m].persisted
        /\ m # k => match'[m] = match[m]
    <2>1. match[m] \in LiveMatch BY DEF TypeInv, TypeOK
    <2>2. \/ match' = [match EXCEPT ![k].grace = NoOne]
          \/ match' = [match EXCEPT ![k] = Blank("GONE")]
      BY DEF Teardown
    <2>3. CASE match' = [match EXCEPT ![k].grace = NoOne]
      BY <2>1, <2>3 DEF TypeInv, TypeOK, LiveMatch
    <2>4. CASE match' = [match EXCEPT ![k] = Blank("GONE")]
      BY <2>1, <2>4 DEF TypeInv, TypeOK, Blank
    <2> QED BY <2>2, <2>3, <2>4
  <1> DEFINE S == TimersOf(k, t)
  <1>3. \A x \in S : x # t /\ job[x].on = k
    BY ReachedOf
  <1>4. job'[t] = After(t) /\ \A x \in Tasks \ {t} : job'[x] = Stopped(S)[x]
    BY DEF Teardown, Stopped, TypeInv
  <1> HIDE DEF S
  <1>5. \A x \in Tasks \ {t} : \/ job'[x] = job[x]
                               \/ job'[x].at \in {"claiming", "paying", "closed", "idle"} /\ job[x].on = k
    BY <1>3, <1>4, StoppedOf, RestOf
  <1>6. /\ job'[t].at \notin Early \cup {"created"}
        /\ \A x \in Tasks : job'[x] = job[x] \/ job'[x].at \notin Early \cup {"created"}
    BY <1>4, <1>5, RestOf DEF Early
  <1>7. SavedHasRow(m)'
    BY <1>1, <1>2, <1>6, SavedStays, SocketsAreTasks
  <1>8. CASE m = k BY <1>1, <1>7, <1>8 DEF WatchOK
  <1>9. CASE m # k
    <2>1. \A x \in Tasks : job[x].on = m => job'[x] = job[x] BY <1>5, <1>9
    <2>2. Leaving(m) => Leaving(m)' BY <2>1, SocketsAreTasks DEF Leaving
    <2>3. \A x \in Tasks : \A u \in Users : Watching(x, u, m) => Watching(x, u, m)'
      BY <2>1 DEF Watching
    <2>4. \A x \in Tasks : StartsEarly(x, m)' => StartsEarly(x, m)
      BY <1>6 DEF StartsEarly, Starter
    <2>5. WatchOK(m) /\ players[m] \subseteq Users
      BY DEF WatchInv, TypeInv, TypeOK, RegistryTypeOK
    <2> QED BY <1>1, <1>2, <1>7, <1>9, <2>2, <2>3, <2>4, <2>5, WatchKept
  <1> QED BY <1>8, <1>9

LEMMA ContinueWatch ==
  ASSUME TypeInv, StartInv, WatchInv, NEW t \in Tasks, Continue(t)
  PROVE  WatchInv'
  <1>0. job[t] \in Job /\ t \in Tasks BY DEF TypeInv, TypeOK
  <1>1. job[t].on \in Matches
    <2>1. job[t].at \notin Unbound
      BY DEF Continue, Claim, Pay, Unsave, Teardown, Refund, IsAt, Unbound
    <2> QED BY <2>1, OnTyped
  <1>2. CASE Teardown(t) BY <1>1, <1>2, TeardownWatch
  <1>3. CASE Claim(t) \/ Pay(t) \/ Unsave(t) \/ \E u \in Users : Refund(t, u)
    <2>1. AfterSave(t).at \in {"closed", "idle", "teardown"}
      BY <1>0, RestOf DEF AfterSave, Job
    <2>2. /\ [job[t] EXCEPT !.at = "paying"].at = "paying"
          /\ [job[t] EXCEPT !.at = "teardown"].at = "teardown"
          /\ \A u : [job[t] EXCEPT !.left = @ \ {u}].at = job[t].at
      BY <1>0 DEF Job
    <2>3. \A x \in Tasks : Stays(x)
      <3>1. CASE Claim(t)
        <4>1. job[t].at = "claiming" BY <3>1 DEF Claim, IsAt
        <4>2. Move(t, [job[t] EXCEPT !.at = "paying"]) \/ Move(t, AfterSave(t))
          BY <3>1 DEF Claim
        <4> QED BY <2>1, <2>2, <4>1, <4>2, MoveStays DEF Early
      <3>2. CASE Pay(t) BY <2>1, <3>2, MoveStays DEF Pay, IsAt, Early
      <3>3. CASE Unsave(t) BY <2>2, <3>3, MoveStays DEF Unsave, IsAt, Early
      <3>4. CASE \E u \in Users : Refund(t, u)
        <4> PICK u \in Users : Refund(t, u) BY <3>4
        <4> DEFINE next == At(IF match[job[t].on].persisted THEN "unsaving" ELSE "teardown",
                              job[t].on, "idle")
        <4>1. job[t].at = "refunding" BY DEF Refund, IsAt
        <4>2. next.at \in {"unsaving", "teardown"} BY RestOf
        <4>3. Move(t, next) \/ Move(t, [job[t] EXCEPT !.left = @ \ {u}])
          BY DEF Refund, OneOf, Move
        <4> HIDE DEF next
        <4> QED BY <2>2, <4>1, <4>2, <4>3, MoveStays DEF Early
      <3> QED BY <1>3, <3>1, <3>2, <3>3, <3>4
    <2>4. UNCHANGED <<live, players, match>>
      BY <1>3 DEF Claim, Pay, Unsave, Refund, registryVars
    <2>5. \A m \in Matches : row[m] # "none" => row'[m] # "none"
      BY <1>3 DEF Claim, Pay, Unsave, Refund, TypeInv, TypeOK
    <2> QED BY <2>3, <2>4, <2>5, QuietWatch
  <1> QED BY <1>2, <1>3 DEF Continue

LEMMA DbFailsWatch ==
  ASSUME TypeInv, StartInv, WatchInv, NEW t \in Tasks, DbFails(t)
  PROVE  WatchInv'
  <1>0. /\ job[t].at \in {"charging", "building", "creating", "claiming", "paying", "refunding",
                          "unsaving"}
        /\ UNCHANGED <<live, players, row>>
    BY DEF DbFails, registryVars, dbVars
  <1>1. job[t].on \in Matches BY <1>0, OnTyped DEF Unbound
  <1>2. CASE t \in Loops /\ job[t].then # "lost" /\ job[t].at \notin {"refunding", "unsaving"}
    BY <1>0, <1>1, <1>2, AbortWatch DEF DbFails
  <1>3. CASE ~(t \in Loops /\ job[t].then # "lost" /\ job[t].at \notin {"refunding", "unsaving"})
    <2>1. Move(t, At("failed", None, "idle")) \/ Move(t, Rest(t)) BY <1>3 DEF DbFails
    <2>2. \A x \in Tasks : Stays(x) BY <1>0, <2>1, MoveStays, RestOf DEF Early
    <2> QED BY <1>0, <1>3, <2>2, QuietWatch DEF DbFails
  <1> QED BY <1>2, <1>3

LEMMA ProcessWatch ==
  ASSUME TypeInv, StartInv, WatchInv, Crash \/ Restarting
  PROVE  WatchInv'
  <1>1. CASE Crash
    <2> SUFFICES ASSUME NEW m \in Matches PROVE WatchOK(m)'
      BY DEF WatchInv
    <2>1. live' = {} /\ row' = row BY <1>1 DEF Crash, ForgetRegistry, dbVars
    <2>2. match'[m].persisted => match[m].persisted BY <1>1 DEF Crash, Blank
    <2>3. \A l \in Loops : job'[l].at # "created"
      BY <1>1, RestOf, SocketsAreTasks DEF Crash, Rest, At
    <2>4. SavedHasRow(m)' BY <2>1, <2>2, <2>3, SavedStays
    <2> QED BY <2>1, <2>4 DEF WatchOK
  <1>2. CASE Restarting
    <2>1. UNCHANGED <<live, players, match>> /\ \A t \in Tasks : Stays(t)
      BY <1>2 DEF Restarting, Boot, Serve, BootRefund, registryVars, Stays
    <2>2. \A m \in Matches : row[m] # "none" => row'[m] # "none"
      BY <1>2 DEF Restarting, Boot, Serve, BootRefund, dbVars, TypeInv, TypeOK
    <2> QED BY <2>1, <2>2, QuietWatch
  <1> QED BY <1>1, <1>2

LEMMA NextWatch == TypeInv /\ StartInv /\ WatchInv /\ [Next]_vars => WatchInv'
  <1> SUFFICES ASSUME TypeInv, StartInv, WatchInv, [Next]_vars PROVE WatchInv'
    OBVIOUS
  <1>1. ASSUME NEW s \in Sockets, SocketStep(s) PROVE WatchInv'
    <2>1. CASE Connect(s) \/ Greet(s) BY <2>1, ConnectWatch
    <2>2. CASE DropQueued(s) \/ DropQuietly(s) \/ DropFromLobby(s) \/ DropFromFight(s)
      BY <2>2, DropWatch
    <2>3. CASE JoinQueue(s) \/ LeaveQueue(s) BY <2>3, QueueWatch
    <2>4. CASE \E m \in Matches : CreateRoom(s, m) \/ JoinRoom(s, m) BY <2>4, RoomWatch
    <2>5. CASE \E m \in Matches, e \in Sockets : JoinQueueAndPair(s, e, m) BY <2>5, PairWatch
    <2>6. CASE \/ \E l \in Loops : Launch(s, l)
               \/ \E m \in Matches, l \in Loops : StartMatch(s, l, m)
               \/ \E m \in Matches : LeaveMatch(s, m)
      BY <2>6, MatchStartWatch
    <2>7. CASE \E g \in Graces : StartGrace(s, g) BY <2>7, GraceWatch
    <2> QED BY <1>1, <2>1, <2>2, <2>3, <2>4, <2>5, <2>6, <2>7 DEF SocketStep
  <1>2. CASE UNCHANGED vars
    BY <1>2, QuietWatch DEF vars, registryVars, dbVars, Stays
  <1>3. CASE Crash \/ Restarting BY <1>3, ProcessWatch
  <1>4. CASE \E l \in Loops : LoopStep(l) BY <1>4, LoopStepWatch
  <1>5. CASE \E g \in Graces : GraceStep(g) BY <1>5, GraceWatch
  <1>6. CASE \E t \in Tasks : Continue(t) \/ DbFails(t) BY <1>6, ContinueWatch, DbFailsWatch
  <1>7. CASE \E w \in Sweepers : Housekeeping(w) BY <1>7, HousekeepingWatch
  <1> QED BY <1>1, <1>2, <1>3, <1>4, <1>5, <1>6, <1>7 DEF Next

(* Whoever is absent from a running fight is being waited for: the handler  *)
(* that will start their grace timer, the timer itself, or a teardown that  *)
(* has begun -- for any number of sockets per player, whatever order their  *)
(* drops and reconnects resume in, as long as clients start a lobby once.   *)
THEOREM AbsentAlwaysWatched == ~DoubleStart => (Spec => []AbsentIsWatched)
  <1> SUFFICES ASSUME ~DoubleStart PROVE Spec => []AbsentIsWatched
    OBVIOUS
  <1>1. TypeInv /\ StartInv /\ [Next]_vars /\ WatchInv => WatchInv'
    BY NextWatch
  <1>2. TypeInv /\ WatchInv => AbsentIsWatched
    <2> SUFFICES ASSUME TypeInv, WatchInv, NEW m \in live, NEW u \in players[m],
                        Status(m) = "IN_PROGRESS", match[m].socket[u] = None
                 PROVE  \E t \in Tasks : /\ job[t].on = m
                                         /\ \/ /\ job[t].at \in {"notifying", "sleeping"}
                                               /\ job[t].who = u
                                            \/ job[t].at = "teardown"
      BY DEF AbsentIsWatched
    <2>1. m \in Matches BY DEF TypeInv, TypeOK, RegistryTypeOK
    <2>2. Leaving(m) \/ \E t \in Tasks : Watching(t, u, m)
      BY <2>1 DEF WatchInv, WatchOK, AbsentIsAwaited
    <2> QED BY <2>2, SocketsAreTasks DEF Leaving, Watching
  <1>3. Spec => [](TypeInv /\ StartInv) BY StartsAlways
  <1> QED BY <1>1, <1>2, <1>3, WatchInit, PTL DEF Spec

-----------------------------------------------------------------------------
(* Settlement.  Once a match has a row, its players stay charged once and   *)
(* refunded never, unless a restart abandons it; an abandoned match is over *)
(* for good, unpaid, and owes its players a refund until they have it.      *)
(* Without the sweep nobody ever takes a row back: a lobby has no row yet,  *)
(* and what aborts is either before its row or already settled.             *)
Billed == {"IN_PROGRESS", "FINISHED", "CANCELLED"}

IsOver(m) == m \notin live /\ \A t \in Tasks : job[t].on # m
OwedBack(m) ==
  crashes = 1 => /\ proc # "down"
                 /\ \A u \in players[m] : refunded[m][u] > 0 \/ <<m, u>> \in stranded
SettleOK(m) ==
  /\ row[m] \in Billed => AllTaken(m)
  /\ row[m] = "ABANDONED" => IsOver(m) /\ paid[m] = 0 /\ crashes > 0 /\ OwedBack(m)
NobodyUnsaves ==
  Sweepers = {} => /\ \A t \in Tasks : job[t].at # "unsaving"
                   /\ \A m \in Matches : row[m] # "CANCELLED"
SettleInv == /\ \A m \in Matches : SettleOK(m)
             /\ NobodyUnsaves
             /\ proc # "up" => crashes > 0 /\ live = {}

LEMMA SettleInit == Init => SettleInv
  <1> SUFFICES ASSUME Init PROVE SettleInv
    OBVIOUS
  <1>1. \A t \in Tasks : job[t].at # "unsaving" BY RestOf DEF Init
  <1> QED BY <1>1 DEF Init, SettleInv, SettleOK, NobodyUnsaves, Billed

\* A step that leaves the process alone may change the books of one match at most.
SameBill(m) == /\ row'[m] = row[m] /\ paid'[m] = paid[m]
               /\ charged'[m] = charged[m] /\ refunded'[m] = refunded[m]
               /\ row[m] # "none" => players'[m] = players[m]

LEMMA SettleStays ==
  ASSUME SettleInv, UNCHANGED <<proc, stranded, crashes>>, NobodyUnsaves',
         proc' # "up" => live' = live,
         \A m \in Matches : SameBill(m) \/ (row'[m] \in Billed /\ AllTaken(m)') \/ row'[m] = "none",
         \A m \in Matches : row[m] = "ABANDONED" => IsOver(m)'
  PROVE  SettleInv'
  <1> SUFFICES ASSUME NEW m \in Matches PROVE SettleOK(m)'
    BY DEF SettleInv
  <1>0. SettleOK(m) BY DEF SettleInv
  <1>1. CASE row'[m] = "none" BY <1>1 DEF SettleOK, Billed
  <1>2. CASE row'[m] \in Billed /\ AllTaken(m)' BY <1>2 DEF SettleOK, Billed
  <1>3. CASE SameBill(m) /\ row[m] # "none"
    <2>1. players'[m] = players[m] BY <1>3 DEF SameBill
    <2>2. row'[m] \in Billed => AllTaken(m)'
      BY <1>0, <1>3, <2>1 DEF SameBill, SettleOK, AllTaken, Once
    <2>3. row'[m] = "ABANDONED" => OwedBack(m)'
      BY <1>0, <1>3, <2>1 DEF SameBill, SettleOK, OwedBack
    <2> QED BY <1>0, <1>3, <2>2, <2>3 DEF SameBill, SettleOK
  <1> QED BY <1>1, <1>2, <1>3 DEF SameBill

\* A lobby has no row, and `persisted' is not set before there is one.
LEMMA LobbyHasNoRow ==
  ASSUME StartInv, WatchInv, NEW m \in Matches, Status(m) \in {"NEW", "WAITING"}
  PROVE  row[m] = "none" /\ ~match[m].persisted
  <1>0. StartOK(m) BY DEF StartInv
  <1>1. row[m] = "none"
    <2>1. CASE Status(m) = "NEW" BY <1>0, <2>1 DEF StartOK, FreshIsUntouched, Untouched
    <2>2. CASE Status(m) = "WAITING" /\ \E t \in Tasks : Starter(t, m)
      <3> PICK t \in Tasks : Starter(t, m) BY <2>2
      <3>1. job[t].at \in Early /\ Staged(t, m)
        BY <1>0, <2>2 DEF StartOK, LobbyIsEarly, StartersAreStaged
      <3> QED BY <3>1 DEF Staged, Before
    <2>3. CASE Status(m) = "WAITING" /\ \A t \in Tasks : ~Starter(t, m)
      BY <1>0, <2>3 DEF StartOK, LobbyIsEarly, Untouched
    <2> QED BY <2>1, <2>2, <2>3
  <1> QED BY <1>1 DEF WatchInv, WatchOK, SavedHasRow

LEMMA NewIsUnsaved ==
  ASSUME StartInv, WatchInv, NEW m \in Matches, NEW l \in Tasks, Starter(l, m),
         job[l].at \in Before
  PROVE  row[m] = "none" /\ ~match[m].persisted
  BY DEF StartInv, StartOK, StartersAreStaged, Staged, WatchInv, WatchOK, SavedHasRow

-----------------------------------------------------------------------------
(* Nobody comes back to a match that is over.                               *)
LEMMA OverMatch ==
  ASSUME StartInv, SettleInv, NEW m \in Matches, row[m] = "ABANDONED"
  PROVE  IsOver(m) /\ ~Fresh(m) /\ m # None
  BY NoneAssumption DEF StartInv, StartOK, FreshIsUntouched, Untouched, SettleInv, SettleOK, Fresh

LEMMA MoveOver ==
  ASSUME TypeInv, NEW m \in Matches, IsOver(m), NEW t \in Tasks, NEW j, Move(t, j), j.on # m,
         live' \subseteq live
  PROVE  IsOver(m)'
  BY DEF Move, IsOver, TypeInv

LEMMA EndingOver ==
  ASSUME TypeInv, NEW m \in Matches, IsOver(m), m # None, NEW t \in Tasks, NEW k \in Matches \ {m},
         NEW n, Finish(t, k, n) \/ CancelRoom(t, k, n)
  PROVE  IsOver(m)'
  <1>1. live' = live BY DEF Finish, CancelRoom, registryVars
  <1>2. job'[t].on = k /\ \A x \in Tasks \ {t} : job'[x] = job[x] \/ job'[x].on \in {None, job[x].on}
    BY EndingTasks
  <1> QED BY <1>1, <1>2 DEF IsOver

LEMMA AbortOver ==
  ASSUME TypeInv, NEW m \in Matches, IsOver(m), m # None, NEW l \in Tasks,
         NEW k \in Matches \ {m}, Abort(l, k), live' = live
  PROVE  IsOver(m)'
  <1> DEFINE gone   == At("teardown", k, "idle")
             unsave == At("unsaving", k, "idle")
             refund == [At("refunding", k, "idle") EXCEPT !.left = players[k]]
  <1>1. gone.on = k /\ unsave.on = k /\ refund.on = k BY DEF At
  <1>2. Move(l, gone) \/ Move(l, unsave) \/ Move(l, refund)
    BY DEF Abort, Move
  <1> HIDE DEF gone, unsave, refund
  <1> QED BY <1>1, <1>2, MoveOver

LEMMA SocketOver ==
  ASSUME TypeInv, NEW s \in Sockets, SocketStep(s), NEW m \in Matches, IsOver(m), ~Fresh(m), m # None
  PROVE  IsOver(m)'
  <1>0. s \in Tasks /\ MatchOf(Owner[s]) # m BY SocketsAreTasks DEF IsOver, MatchOf
  <1>1. MatchOf(Owner[s]) \in Matches \cup {None} /\ job[s] \in Job
    BY <1>0, MatchOfTyped DEF TypeInv, TypeOK
  <1>2. CASE Connect(s)
    BY <1>0, <1>2, MoveOver, RestOf DEF Connect, TasksOnly, registryVars
  <1>3. CASE Greet(s)
    <2>1. live' = live BY <1>3 DEF Greet, registryVars
    <2>2. \A x \in Tasks : job'[x] = job[x] \/ job'[x] = Open \/ job'[x] = Rest(x)
      BY <1>0, <1>3 DEF Greet, Move, TypeInv
    <2> QED BY <2>1, <2>2, RestOf DEF IsOver
  <1>4. CASE DropQueued(s) \/ DropQuietly(s)
    BY <1>0, <1>4, MoveOver, RestOf DEF DropQueued, DropQuietly, registryVars
  <1>5. CASE DropFromLobby(s)
    <2>1. MatchOf(Owner[s]) \in Matches \ {m} BY <1>0, <1>1, <1>5 DEF DropFromLobby, AttachedTo
    <2> QED BY <1>0, <1>5, <2>1, EndingOver DEF DropFromLobby
  <1>6. CASE DropFromFight(s)
    <2>1. [At("notifying", MatchOf(Owner[s]), "closed") EXCEPT !.who = Owner[s]].on # m
      BY <1>0 DEF At
    <2> QED BY <1>0, <1>6, <2>1, MoveOver DEF DropFromFight, registryVars
  <1>7. CASE JoinQueue(s) \/ LeaveQueue(s)
    BY <1>7 DEF JoinQueue, LeaveQueue, IsOver
  <1>8. CASE \E k \in Matches : CreateRoom(s, k) \/ JoinRoom(s, k)
    BY <1>8 DEF CreateRoom, JoinRoom, Register, Bind, IsOver
  <1>9. CASE \E k \in Matches : LeaveMatch(s, k)
    <2> PICK k \in Matches : LeaveMatch(s, k) BY <1>9
    <2>1. k \in Matches \ {m} BY <1>0 DEF LeaveMatch
    <2> QED BY <1>0, <2>1, EndingOver DEF LeaveMatch
  <1>10. CASE \E k \in Matches, e \in Sockets : JoinQueueAndPair(s, e, k)
    <2> PICK k \in Matches, e \in Sockets : JoinQueueAndPair(s, e, k) BY <1>10
    <2>1. k # m BY DEF JoinQueueAndPair
    <2>2. live' = live \cup {k} BY DEF JoinQueueAndPair, Register
    <2>3. \A x \in Tasks : job'[x] = job[x] \/ job'[x].on = k
      BY <1>0, RestOf DEF JoinQueueAndPair, Move, TypeInv
    <2> QED BY <2>1, <2>2, <2>3 DEF IsOver
  <1>11. ASSUME NEW k \in Matches, NEW l \in Loops, Spawn(s, l, k), k # m PROVE IsOver(m)'
    <2>1. live' = live BY <1>11 DEF Spawn, registryVars
    <2>2. \A x \in Tasks : job'[x] = job[x] \/ job'[x].on = k \/ job'[x].on = None
      BY <1>0, <1>11, RestOf, SocketsAreTasks DEF Spawn, TypeInv
    <2> QED BY <1>11, <2>1, <2>2 DEF IsOver
  <1>12. CASE \E k \in Matches, l \in Loops : StartMatch(s, l, k)
    BY <1>0, <1>11, <1>12 DEF StartMatch
  <1>13. CASE \E l \in Loops : Launch(s, l)
    <2> PICK l \in Loops : Launch(s, l) BY <1>13
    <2>1. job[s].on \in Matches BY <1>0, OnTyped DEF Launch, IsAt, Unbound
    <2>2. job[s].on # m BY <1>0 DEF IsOver
    <2> QED BY <1>11, <2>1, <2>2 DEF Launch
  <1>14. CASE \E g \in Graces : StartGrace(s, g)
    <2> PICK g \in Graces : StartGrace(s, g) BY <1>14
    <2>1. live' = live BY DEF StartGrace, registryVars
    <2>2. [job[s] EXCEPT !.at = "sleeping", !.then = "idle"].on = job[s].on BY <1>1 DEF Job
    <2>3. \A x \in Tasks : job'[x] = job[x] \/ job'[x].on \in {None, job[s].on}
      BY <1>0, <2>2, RestOf, SocketsAreTasks DEF StartGrace, TypeInv
    <2> QED BY <1>0, <2>1, <2>3 DEF IsOver
  <1> QED BY <1>2, <1>3, <1>4, <1>5, <1>6, <1>7, <1>8, <1>9, <1>10, <1>12, <1>13, <1>14
      DEF SocketStep

LEMMA LoopOver ==
  ASSUME TypeInv, NEW l \in Loops, LoopStep(l), NEW m \in Matches, IsOver(m), m # None
  PROVE  IsOver(m)'
  <1>0. l \in Tasks /\ job[l] \in Job BY SocketsAreTasks DEF TypeInv, TypeOK
  <1>1. job[l].on \in Matches \ {m}
    <2>1. job[l].at \notin Unbound
      BY DEF LoopStep, Reject, BeginCharge, Build, CreateRow, CreateRowClash, Begin, EndFight,
             ExitLoop, Charge, LoopAt, IsAt, Unbound
    <2> QED BY <1>0, <2>1, OnTyped DEF IsOver
  <1> PICK k \in Matches \ {m} : k = job[l].on BY <1>1
  <1>2. CASE Reject(l) \/ CreateRowClash(l)
    BY <1>0, <1>2, AbortOver DEF Reject, CreateRowClash, registryVars
  <1>3. CASE EndFight(l) BY <1>0, <1>3, EndingOver DEF EndFight
  <1>4. CASE ExitLoop(l)
    BY <1>0, <1>4, MoveOver, RestOf DEF ExitLoop, TasksOnly, registryVars
  <1>5. CASE BeginCharge(l) \/ Build(l) \/ CreateRow(l) \/ Begin(l) \/ \E u \in Users : Charge(l, u)
    <2>1. live' = live
      BY <1>5 DEF BeginCharge, Build, CreateRow, Begin, Charge, TasksOnly, registryVars
    <2>2. \A p, L : /\ [job[l] EXCEPT !.at = p].on = k
                    /\ [job[l] EXCEPT !.at = p, !.left = L].on = k
                    /\ [job[l] EXCEPT !.left = L].on = k
      BY <1>0 DEF Job
    <2>3. \E p, L : \/ Move(l, [job[l] EXCEPT !.at = p])
                    \/ Move(l, [job[l] EXCEPT !.at = p, !.left = L])
                    \/ Move(l, [job[l] EXCEPT !.left = L])
      <3>1. CASE BeginCharge(l) BY <3>1 DEF BeginCharge
      <3>2. CASE Build(l) \/ CreateRow(l) \/ Begin(l) BY <3>2 DEF Build, CreateRow, Begin
      <3>3. CASE \E u \in Users : Charge(l, u)
        <4> PICK u \in Users : Charge(l, u) BY <3>3
        <4>1. \/ Move(l, [job[l] EXCEPT !.at = "building", !.left = {}])
              \/ Move(l, [job[l] EXCEPT !.left = job[l].left \ {u}])
          BY <1>0 DEF Charge, OneOf, Move, Job
        <4> QED BY <4>1
      <3> QED BY <1>5, <3>1, <3>2, <3>3
    <2> QED BY <1>0, <2>1, <2>2, <2>3, MoveOver
  <1> QED BY <1>2, <1>3, <1>4, <1>5 DEF LoopStep

LEMMA ContinueOver ==
  ASSUME TypeInv, NEW t \in Tasks, Continue(t), NEW m \in Matches, IsOver(m), m # None
  PROVE  IsOver(m)' /\ job[t].on \in Matches \ {m}
  <1>0. job[t] \in Job BY DEF TypeInv, TypeOK
  <1>1. job[t].on \in Matches \ {m}
    <2>1. job[t].at \notin Unbound
      BY DEF Continue, Claim, Pay, Unsave, Teardown, Refund, IsAt, Unbound
    <2> QED BY <2>1, OnTyped DEF IsOver
  <1> PICK k \in Matches \ {m} : k = job[t].on BY <1>1
  <1>2. CASE Teardown(t)
    <2>1. live' \subseteq live BY <1>2 DEF Teardown, Unregister
    <2> DEFINE S == TimersOf(k, t)
    <2>2. job'[t] = After(t) /\ \A x \in Tasks \ {t} : job'[x] = Stopped(S)[x]
      BY <1>2 DEF Teardown, Stopped, TypeInv
    <2> HIDE DEF S
    <2>3. \A x \in Tasks : job'[x].on \in {None, job[x].on}
      BY <2>2, StoppedOf, RestOf
    <2> QED BY <1>1, <2>1, <2>3 DEF IsOver
  <1>3. CASE Claim(t) \/ Pay(t) \/ Unsave(t) \/ \E u \in Users : Refund(t, u)
    <2>1. live' = live BY <1>3 DEF Claim, Pay, Unsave, Refund, registryVars
    <2>2. /\ AfterSave(t).on \in {None, k}
          /\ \A p, L : [job[t] EXCEPT !.at = p].on = k /\ [job[t] EXCEPT !.left = L].on = k
      BY <1>0, RestOf DEF AfterSave, Job
    <2>3. \/ Move(t, AfterSave(t))
          \/ \E p, L : \/ Move(t, [job[t] EXCEPT !.at = p])
                       \/ Move(t, [job[t] EXCEPT !.left = L])
                       \/ Move(t, At(p, k, "idle"))
      <3>1. CASE Claim(t) \/ Pay(t) \/ Unsave(t) BY <3>1 DEF Claim, Pay, Unsave
      <3>2. CASE \E u \in Users : Refund(t, u)
        <4> PICK u \in Users : Refund(t, u) BY <3>2
        <4>1. \/ Move(t, At(IF match[k].persisted THEN "unsaving" ELSE "teardown", k, "idle"))
              \/ Move(t, [job[t] EXCEPT !.left = job[t].left \ {u}])
          BY <1>0 DEF Refund, OneOf, Move, Job
        <4> QED BY <4>1
      <3> QED BY <1>3, <3>1, <3>2
    <2>4. \A p : At(p, k, "idle").on = k BY RestOf
    <2> QED BY <1>1, <2>1, <2>2, <2>3, <2>4, MoveOver
  <1> QED BY <1>1, <1>2, <1>3 DEF Continue

LEMMA DbFailsOver ==
  ASSUME TypeInv, NEW t \in Tasks, DbFails(t), NEW m \in Matches, IsOver(m), m # None
  PROVE  IsOver(m)'
  <1>1. job[t].on \in Matches \ {m}
    <2>1. job[t].at \notin Unbound BY DEF DbFails, Unbound
    <2> QED BY <2>1, OnTyped DEF IsOver
  <1>2. live' = live BY DEF DbFails, registryVars
  <1>3. \/ Abort(t, job[t].on)
        \/ Move(t, At("failed", None, "idle")) \/ Move(t, Rest(t))
    BY DEF DbFails
  <1> QED BY <1>1, <1>2, <1>3, AbortOver, MoveOver, RestOf

LEMMA OtherOver ==
  ASSUME TypeInv, NEW m \in Matches, IsOver(m), m # None,
         (\E g \in Graces : GraceStep(g)) \/ (\E w \in Sweepers : Housekeeping(w))
  PROVE  IsOver(m)'
  <1>1. ASSUME NEW g \in Graces, GraceStep(g) PROVE IsOver(m)'
    <2>0. g \in Tasks BY SocketsAreTasks
    <2>1. job[g].on \in Matches \ {m}
      BY <1>1, <2>0, OnTyped DEF GraceStep, GraceLapses, GraceForfeits, IsAt, Unbound, IsOver
    <2>2. CASE GraceLapses(g)
      BY <2>0, <2>2, MoveOver, RestOf DEF GraceLapses, TasksOnly, registryVars
    <2>3. CASE GraceForfeits(g) BY <2>0, <2>1, <2>3, EndingOver DEF GraceForfeits
    <2> QED BY <1>1, <2>2, <2>3 DEF GraceStep
  <1>2. ASSUME NEW w \in Sweepers, Housekeeping(w) PROVE IsOver(m)'
    <2>0. w \in Tasks BY SocketsAreTasks
    <2>1. CASE SweepQueue(w) BY <2>1 DEF SweepQueue, IsOver
    <2>2. CASE CloseIdleRoom(w)
      <3>1. job[w].on \in Matches \ {m}
        BY <2>0, <2>2, OnTyped DEF CloseIdleRoom, IsAt, Unbound, IsOver
      <3> QED BY <2>0, <2>2, <3>1, EndingOver DEF CloseIdleRoom
    <2>3. CASE \E k \in Matches : SweepRoom(w, k)
      <3> PICK k \in Matches : SweepRoom(w, k) BY <2>3
      <3>1. k # m BY DEF SweepRoom, IsOver
      <3> QED BY <2>0, <3>1, MoveOver, RestOf DEF SweepRoom, TasksOnly, registryVars
    <2> QED BY <1>2, <2>1, <2>2, <2>3 DEF Housekeeping
  <1> QED BY <1>1, <1>2

-----------------------------------------------------------------------------
(* Without the sweep nobody takes a row back.                               *)
NewlyUnsaves == \E t \in Tasks : job'[t].at = "unsaving" /\ job[t].at # "unsaving"

LEMMA EndingKeeps ==
  ASSUME TypeInv, StartInv, WatchInv, NEW t \in Tasks, NEW m \in Matches, NEW n,
         Finish(t, m, n) \/ (CancelRoom(t, m, n) /\ Status(m) = "WAITING")
  PROVE  ~NewlyUnsaves
  <1>1. job'[t].at # "unsaving"
    <2>1. CASE Finish(t, m, n)
      <3>1. job'[t] = At(IF match[m].persisted THEN "claiming" ELSE "teardown", m, n)
        BY <2>1 DEF Finish, Stopped, TypeInv
      <3> QED BY <3>1, RestOf
    <2>2. CASE CancelRoom(t, m, n) /\ Status(m) = "WAITING"
      <3>1. ~match[m].persisted BY <2>2, LobbyHasNoRow
      <3> QED BY <2>2, <3>1, EndingTasks
    <2> QED BY <2>1, <2>2
  <1>2. PICK S \in {LoopOf(m, t), LoopOf(m, t) \cup TimersOf(m, t)} :
          \A x \in Tasks \ {t} : job'[x] = Stopped(S)[x]
    BY DEF Finish, CancelRoom, Stopped, TypeInv
  <1>3. \A x \in Tasks \ {t} : job'[x].at = "unsaving" => job[x].at = "unsaving"
    BY <1>2, StoppedOf, RestOf
  <1> QED BY <1>1, <1>3 DEF NewlyUnsaves

LEMMA AbortKeeps ==
  ASSUME TypeInv, StartInv, WatchInv, NEW l \in Loops, NEW m \in Matches, job[l].on = m,
         job[l].then # "lost",
         job[l].at \in {"countdown", "charging", "building", "creating", "claiming", "paying"},
         Abort(l, m)
  PROVE  ~NewlyUnsaves
  <1>0. l \in Tasks /\ Starter(l, m) /\ StartOK(m) BY SocketsAreTasks DEF Starter, StartInv
  <1>1. Status(m) = "FINISHED" \/ ~match[m].persisted
    <2>1. CASE job[l].at \in {"claiming", "paying"} BY <1>0, <2>1 DEF StartOK, TaskIsKnown
    <2>2. CASE job[l].at \notin {"claiming", "paying"}
      <3>1. job[l].at \in Before BY <2>2 DEF Before, Early
      <3> QED BY <1>0, <3>1, NewIsUnsaved
    <2> QED BY <2>1, <2>2
  <1> DEFINE gone   == At("teardown", m, "idle")
             refund == [At("refunding", m, "idle") EXCEPT !.left = players[m]]
  <1>2. gone.at = "teardown" /\ refund.at = "refunding" BY DEF At
  <1>3. Move(l, gone) \/ Move(l, refund)
    BY <1>1 DEF Abort, Move
  <1> HIDE DEF gone, refund
  <1> QED BY <1>0, <1>2, <1>3 DEF Move, NewlyUnsaves, TypeInv

LEMMA MoveKeeps ==
  ASSUME TypeInv, NEW t \in Tasks, NEW j, Move(t, j), j.at # "unsaving"
  PROVE  ~NewlyUnsaves
  BY DEF Move, NewlyUnsaves, TypeInv

LEMMA SocketKeeps ==
  ASSUME TypeInv, StartInv, WatchInv, NEW s \in Sockets, SocketStep(s)
  PROVE  ~NewlyUnsaves
  <1>0. s \in Tasks /\ job[s] \in Job /\ MatchOf(Owner[s]) \in Matches \cup {None}
    BY SocketsAreTasks, MatchOfTyped DEF TypeInv, TypeOK
  <1>1. CASE Connect(s) BY <1>0, <1>1, MoveKeeps, RestOf DEF Connect
  <1>2. CASE Greet(s)
    <2>1. \A x \in Tasks : job'[x] = job[x] \/ job'[x] = Open \/ job'[x] = Rest(x)
      BY <1>0, <1>2 DEF Greet, Move, TypeInv
    <2> QED BY <2>1, RestOf DEF NewlyUnsaves
  <1>3. CASE DropQueued(s) \/ DropQuietly(s)
    BY <1>0, <1>3, MoveKeeps, RestOf DEF DropQueued, DropQuietly
  <1>4. CASE DropFromLobby(s)
    <2>1. MatchOf(Owner[s]) \in Matches BY <1>0, <1>4 DEF DropFromLobby, AttachedTo
    <2> QED BY <1>0, <1>4, <2>1, EndingKeeps DEF DropFromLobby
  <1>5. CASE DropFromFight(s)
    <2>1. [At("notifying", MatchOf(Owner[s]), "closed") EXCEPT !.who = Owner[s]].at = "notifying"
      BY DEF At
    <2> QED BY <1>0, <1>5, <2>1, MoveKeeps DEF DropFromFight
  <1>6. CASE \/ JoinQueue(s) \/ LeaveQueue(s)
             \/ \E k \in Matches : CreateRoom(s, k) \/ JoinRoom(s, k)
    BY <1>6 DEF JoinQueue, LeaveQueue, CreateRoom, JoinRoom, NewlyUnsaves
  <1>7. CASE \E k \in Matches : LeaveMatch(s, k)
    BY <1>0, <1>7, EndingKeeps DEF LeaveMatch
  <1>8. CASE \E k \in Matches, e \in Sockets : JoinQueueAndPair(s, e, k)
    BY <1>0, <1>8, MoveKeeps, RestOf DEF JoinQueueAndPair
  <1>9. ASSUME NEW k, NEW l \in Loops, Spawn(s, l, k) PROVE ~NewlyUnsaves
    <2>1. \A x \in Tasks : job'[x] = job[x] \/ job'[x].at \in {"countdown", "open"}
      BY <1>0, <1>9, RestOf, SocketsAreTasks DEF Spawn, TypeInv
    <2> QED BY <2>1 DEF NewlyUnsaves
  <1>10. CASE \/ \E k \in Matches, l \in Loops : StartMatch(s, l, k)
              \/ \E l \in Loops : Launch(s, l)
    BY <1>9, <1>10 DEF StartMatch, Launch
  <1>11. CASE \E g \in Graces : StartGrace(s, g)
    <2> PICK g \in Graces : StartGrace(s, g) BY <1>11
    <2>1. [job[s] EXCEPT !.at = "sleeping", !.then = "idle"].at = "sleeping" BY <1>0 DEF Job
    <2>2. \A x \in Tasks : job'[x] = job[x] \/ job'[x].at \in {"closed", "idle", "sleeping"}
      BY <1>0, <2>1, RestOf, SocketsAreTasks DEF StartGrace, TypeInv
    <2> QED BY <2>2 DEF NewlyUnsaves
  <1> QED BY <1>1, <1>2, <1>3, <1>4, <1>5, <1>6, <1>7, <1>8, <1>10, <1>11 DEF SocketStep

LEMMA LoopKeeps ==
  ASSUME TypeInv, StartInv, WatchInv, NEW l \in Loops, LoopStep(l)
  PROVE  ~NewlyUnsaves
  <1>0. l \in Tasks /\ job[l] \in Job BY SocketsAreTasks DEF TypeInv, TypeOK
  <1>1. job[l].at \in {"countdown", "charging", "building", "creating", "created", "running"}
    BY DEF LoopStep, Reject, BeginCharge, Build, CreateRow, CreateRowClash, Begin, EndFight,
           ExitLoop, Charge, LoopAt, IsAt
  <1>2. job[l].on \in Matches BY <1>0, <1>1, OnTyped DEF Unbound
  <1> PICK k \in Matches : k = job[l].on BY <1>2
  <1>3. StartOK(k) /\ job[l].then # "lost"
    BY <1>1 DEF StartInv, StartOK, TaskIsKnown
  <1>4. CASE Reject(l) \/ CreateRowClash(l)
    BY <1>1, <1>3, <1>4, AbortKeeps DEF Reject, CreateRowClash, LoopAt, IsAt
  <1>5. CASE EndFight(l) BY <1>0, <1>5, EndingKeeps DEF EndFight
  <1>6. CASE ExitLoop(l) BY <1>0, <1>6, MoveKeeps, RestOf DEF ExitLoop
  <1>7. CASE BeginCharge(l) \/ Build(l) \/ CreateRow(l) \/ Begin(l)
    <2>1. \A p, L : /\ [job[l] EXCEPT !.at = p].at = p
                    /\ [job[l] EXCEPT !.at = p, !.left = L].at = p
      BY <1>0 DEF Job
    <2>2. CASE BeginCharge(l)
      <3> DEFINE j == [job[l] EXCEPT !.at = "charging", !.left = players[job[l].on]]
      <3>1. Move(l, j) BY <2>2 DEF BeginCharge
      <3>2. j.at # "unsaving" BY <2>1
      <3> HIDE DEF j
      <3> QED BY <1>0, <3>1, <3>2, MoveKeeps
    <2>3. CASE Build(l) BY <1>0, <2>1, <2>3, MoveKeeps DEF Build
    <2>4. CASE CreateRow(l) BY <1>0, <2>1, <2>4, MoveKeeps DEF CreateRow
    <2>5. CASE Begin(l) BY <1>0, <2>1, <2>5, MoveKeeps DEF Begin
    <2> QED BY <1>7, <2>2, <2>3, <2>4, <2>5
  <1>8. CASE \E u \in Users : Charge(l, u)
    <2> PICK u \in Users : Charge(l, u) BY <1>8
    <2> DEFINE last == [job[l] EXCEPT !.at = "building", !.left = {}]
               rest == [job[l] EXCEPT !.left = @ \ {u}]
    <2>1. last.at = "building" /\ rest.at = job[l].at BY <1>0 DEF Job
    <2>2. Move(l, last) \/ Move(l, rest) BY DEF Charge, OneOf, Move
    <2> HIDE DEF last, rest
    <2> QED BY <1>0, <1>1, <2>1, <2>2, MoveKeeps
  <1> QED BY <1>4, <1>5, <1>6, <1>7, <1>8 DEF LoopStep

LEMMA ContinueKeeps ==
  ASSUME TypeInv, StartInv, WatchInv, NEW t \in Tasks, Continue(t)
  PROVE  ~NewlyUnsaves
  <1>0. job[t] \in Job BY DEF TypeInv, TypeOK
  <1>1. job[t].on \in Matches
    <2>1. job[t].at \notin Unbound
      BY DEF Continue, Claim, Pay, Unsave, Teardown, Refund, IsAt, Unbound
    <2> QED BY <2>1, OnTyped
  <1> PICK k \in Matches : k = job[t].on BY <1>1
  <1>2. CASE Claim(t) \/ Pay(t) \/ Unsave(t)
    <2> DEFINE pay == [job[t] EXCEPT !.at = "paying"]
               end == [job[t] EXCEPT !.at = "teardown"]
    <2>1. AfterSave(t).at # "unsaving" /\ pay.at = "paying" /\ end.at = "teardown"
      BY <1>0, RestOf DEF AfterSave, Job
    <2>2. Move(t, AfterSave(t)) \/ Move(t, pay) \/ Move(t, end)
      BY <1>2 DEF Claim, Pay, Unsave
    <2> HIDE DEF pay, end
    <2> QED BY <2>1, <2>2, MoveKeeps
  <1>3. CASE \E u \in Users : Refund(t, u)
    <2> PICK u \in Users : Refund(t, u) BY <1>3
    <2> DEFINE last == At("teardown", k, "idle")
               rest == [job[t] EXCEPT !.left = @ \ {u}]
    <2>1. job[t].at = "refunding" /\ t \in Loops BY DEF Refund, IsAt, StartInv, EachAtItsPlace
    <2>2. ~match[k].persisted
      BY <2>1, NewIsUnsaved DEF Starter, Before
    <2>3. last.at = "teardown" /\ rest.at = "refunding" BY <1>0, <2>1, RestOf DEF Job
    <2>4. Move(t, last) \/ Move(t, rest) BY <2>2 DEF Refund, OneOf, Move
    <2> HIDE DEF last, rest
    <2> QED BY <2>3, <2>4, MoveKeeps
  <1>4. CASE Teardown(t)
    <2> DEFINE S == TimersOf(k, t)
    <2>1. job'[t] = After(t) /\ \A x \in Tasks \ {t} : job'[x] = Stopped(S)[x]
      BY <1>4 DEF Teardown, Stopped, TypeInv
    <2> HIDE DEF S
    <2>2. \A x \in Tasks : job'[x].at = "unsaving" => job[x].at = "unsaving"
      BY <2>1, StoppedOf, RestOf
    <2> QED BY <2>2 DEF NewlyUnsaves
  <1> QED BY <1>2, <1>3, <1>4 DEF Continue

LEMMA DbFailsKeeps ==
  ASSUME TypeInv, StartInv, WatchInv, NEW t \in Tasks, DbFails(t)
  PROVE  ~NewlyUnsaves
  <1>1. job[t].on \in Matches
    <2>1. job[t].at \notin Unbound BY DEF DbFails, Unbound
    <2> QED BY <2>1, OnTyped
  <1>2. CASE t \in Loops /\ job[t].then # "lost" /\ job[t].at \notin {"refunding", "unsaving"}
    BY <1>1, <1>2, AbortKeeps DEF DbFails
  <1>3. CASE ~(t \in Loops /\ job[t].then # "lost" /\ job[t].at \notin {"refunding", "unsaving"})
    <2>1. Move(t, At("failed", None, "idle")) \/ Move(t, Rest(t)) BY <1>3 DEF DbFails
    <2> QED BY <2>1, MoveKeeps, RestOf
  <1> QED BY <1>2, <1>3

LEMMA GraceKeeps ==
  ASSUME TypeInv, StartInv, WatchInv, NEW g \in Graces, GraceStep(g)
  PROVE  ~NewlyUnsaves
  <1>0. g \in Tasks BY SocketsAreTasks
  <1>1. CASE GraceLapses(g) BY <1>0, <1>1, MoveKeeps, RestOf DEF GraceLapses
  <1>2. CASE GraceForfeits(g)
    <2>1. job[g].on \in Matches BY <1>0, <1>2, OnTyped DEF GraceForfeits, IsAt, Unbound
    <2> QED BY <1>0, <1>2, <2>1, EndingKeeps DEF GraceForfeits
  <1> QED BY <1>1, <1>2 DEF GraceStep

-----------------------------------------------------------------------------
(* What each step does to the books.                                        *)
BooksKept == \/ \A m \in Matches : SameBill(m)
             \/ \E k \in Matches : /\ \A m \in Matches \ {k} : SameBill(m)
                                   /\ row'[k] = "none" \/ (row'[k] \in Billed /\ AllTaken(k)')
TimeKept == UNCHANGED <<proc, stranded, crashes>>

LEMMA SocketBooks ==
  ASSUME TypeInv, StartInv, WatchInv, NEW s \in Sockets, SocketStep(s)
  PROVE  BooksKept /\ TimeKept
  <1>1. UNCHANGED <<dbVars, procVars>>
    BY DEF SocketStep, Connect, Greet, DropQueued, DropQuietly, DropFromLobby, DropFromFight,
           JoinQueue, LeaveQueue, CreateRoom, JoinRoom, LeaveMatch, JoinQueueAndPair, StartMatch,
           Launch, Spawn, StartGrace, CancelRoom, Finish, TasksOnly, MemoryOnly
  <1>2. ASSUME NEW m \in Matches, row[m] # "none" PROVE players'[m] = players[m]
    <2>0. Status(m) \notin {"NEW", "WAITING"} BY <1>2, LobbyHasNoRow
    <2>1. CASE UNCHANGED players BY <2>1
    <2>2. CASE \E k \in Matches : CreateRoom(s, k) \/ JoinRoom(s, k)
      BY <2>0, <2>2 DEF CreateRoom, JoinRoom, Register, Bind, Fresh, TypeInv, TypeOK, RegistryTypeOK
    <2>3. CASE \E k \in Matches, e \in Sockets : JoinQueueAndPair(s, e, k)
      BY <2>0, <2>3 DEF JoinQueueAndPair, Register, Fresh, TypeInv, TypeOK, RegistryTypeOK
    <2>4. \/ UNCHANGED players
          \/ \E k \in Matches : CreateRoom(s, k) \/ JoinRoom(s, k)
          \/ \E k \in Matches, e \in Sockets : JoinQueueAndPair(s, e, k)
      BY DEF SocketStep, Connect, Greet, DropQueued, DropQuietly, DropFromLobby, DropFromFight,
             JoinQueue, LeaveQueue, LeaveMatch, StartMatch, Launch, Spawn, StartGrace, CancelRoom,
             Finish, TasksOnly, registryVars
    <2> QED BY <2>1, <2>2, <2>3, <2>4
  <1> QED BY <1>1, <1>2 DEF BooksKept, TimeKept, SameBill, dbVars, procVars

LEMMA LoopBooks ==
  ASSUME TypeInv, StartInv, WatchInv, NEW l \in Loops, LoopStep(l)
  PROVE  BooksKept /\ TimeKept
  <1>0. l \in Tasks /\ job[l] \in Job BY SocketsAreTasks DEF TypeInv, TypeOK
  <1>1. job[l].on \in Matches
    <2>1. job[l].at \notin Unbound
      BY DEF LoopStep, Reject, BeginCharge, Build, CreateRow, CreateRowClash, Begin, EndFight,
             ExitLoop, Charge, LoopAt, IsAt, Unbound
    <2> QED BY <1>0, <2>1, OnTyped
  <1> PICK k \in Matches : k = job[l].on BY <1>1
  <1>2. Starter(l, k) BY DEF Starter
  <1>3. TimeKept /\ UNCHANGED players
    BY DEF LoopStep, Reject, BeginCharge, Build, CreateRow, CreateRowClash, Begin, EndFight,
           ExitLoop, Charge, Finish, TasksOnly, MemoryOnly, TimeKept, procVars, registryVars
  <1>4. CASE CreateRow(l)
    <2>1. Staged(l, k) /\ job[l].at = "creating"
      BY <1>0, <1>2, <1>4 DEF StartInv, StartOK, StartersAreStaged, CreateRow, LoopAt, IsAt
    <2>2. AllTaken(k) BY <2>1 DEF Staged, Before, Took, GaveBack, AllTaken
    <2>3. AllTaken(k)' BY <1>3, <1>4, <2>2 DEF CreateRow, AllTaken
    <2>4. row'[k] = "IN_PROGRESS" /\ \A m \in Matches \ {k} : SameBill(m)
      BY <1>3, <1>4 DEF CreateRow, SameBill, TypeInv, TypeOK
    <2> QED BY <1>3, <2>3, <2>4 DEF BooksKept, Billed
  <1>5. CASE \E u \in Users : Charge(l, u)
    <2>1. row[k] = "none" BY <1>0, <1>2, <1>5, NewIsUnsaved DEF Charge, LoopAt, IsAt, Before, Early
    <2>2. row' = row /\ \A m \in Matches \ {k} : SameBill(m)
      BY <1>3, <1>5 DEF Charge, OneOf, SameBill, TypeInv, TypeOK
    <2> QED BY <1>3, <2>1, <2>2 DEF BooksKept
  <1>6. CASE ~CreateRow(l) /\ ~\E u \in Users : Charge(l, u)
    <2>1. UNCHANGED dbVars
      BY <1>6 DEF LoopStep, Reject, BeginCharge, Build, CreateRowClash, Begin, EndFight,
           ExitLoop, Finish, TasksOnly, MemoryOnly
    <2> QED BY <1>3, <2>1 DEF BooksKept, SameBill, dbVars
  <1> QED BY <1>4, <1>5, <1>6

LEMMA ContinueBooks ==
  ASSUME TypeInv, StartInv, WatchInv, SettleInv, NEW t \in Tasks, Continue(t)
  PROVE  BooksKept /\ TimeKept
  <1>0. job[t] \in Job BY DEF TypeInv, TypeOK
  <1>1. job[t].on \in Matches
    <2>1. job[t].at \notin Unbound
      BY DEF Continue, Claim, Pay, Unsave, Teardown, Refund, IsAt, Unbound
    <2> QED BY <2>1, OnTyped
  <1> PICK k \in Matches : k = job[t].on BY <1>1
  <1>2. SettleOK(k) /\ row[k] # "ABANDONED" /\ row[k] \in RowStatus
    <2>1. ~IsOver(k) BY DEF IsOver
    <2> QED BY <2>1 DEF SettleInv, SettleOK, TypeInv, TypeOK
  <1>3. TimeKept /\ UNCHANGED players
    BY DEF Continue, Claim, Pay, Unsave, Teardown, Refund, Unregister, MemoryOnly, TimeKept,
           procVars, registryVars
  <1>4. CASE Claim(t) \/ Unsave(t)
    <2>1. \A m \in Matches \ {k} : SameBill(m)
      BY <1>3, <1>4 DEF Claim, Unsave, SameBill, TypeInv, TypeOK
    <2>2. row'[k] = "none" \/ (row[k] \in Billed /\ row'[k] \in Billed)
      BY <1>2, <1>4 DEF Claim, Unsave, Billed, RowStatus, TypeInv, TypeOK
    <2>3. row[k] \in Billed => AllTaken(k)'
      BY <1>2, <1>3, <1>4 DEF SettleOK, Claim, Unsave, AllTaken
    <2> QED BY <1>3, <2>1, <2>2, <2>3 DEF BooksKept
  <1>5. CASE Pay(t)
    <2>1. row' = row /\ \A m \in Matches \ {k} : SameBill(m)
      BY <1>3, <1>5 DEF Pay, SameBill, TypeInv, TypeOK
    <2>2. row[k] \in Billed => AllTaken(k)'
      BY <1>2, <1>3, <1>5 DEF SettleOK, Pay, AllTaken
    <2> QED BY <1>2, <1>3, <2>1, <2>2 DEF BooksKept, Billed, RowStatus
  <1>6. CASE \E u \in Users : Refund(t, u)
    <2>1. job[t].at = "refunding" /\ t \in Loops
      BY <1>6 DEF Refund, IsAt, StartInv, EachAtItsPlace
    <2>2. row[k] = "none" BY <2>1, NewIsUnsaved DEF Starter, Before
    <2>3. row' = row /\ \A m \in Matches \ {k} : SameBill(m)
      BY <1>3, <1>6 DEF Refund, OneOf, SameBill, TypeInv, TypeOK
    <2> QED BY <1>3, <2>2, <2>3 DEF BooksKept
  <1>7. CASE Teardown(t)
    BY <1>3, <1>7 DEF Teardown, MemoryOnly, dbVars, BooksKept, SameBill
  <1> QED BY <1>4, <1>5, <1>6, <1>7 DEF Continue

LEMMA OtherBooks ==
  ASSUME \/ \E t \in Tasks : DbFails(t)
         \/ \E g \in Graces : GraceStep(g)
         \/ \E w \in Sweepers : Housekeeping(w)
         \/ UNCHANGED vars
  PROVE  BooksKept /\ TimeKept
  <1>1. UNCHANGED <<dbVars, players, proc, stranded, crashes>>
    BY DEF DbFails, GraceStep, GraceLapses, GraceForfeits, Finish, Housekeeping, SweepQueue,
           SweepRoom, CloseIdleRoom, CancelRoom, TasksOnly, MemoryOnly, registryVars, procVars, vars
  <1> QED BY <1>1 DEF BooksKept, TimeKept, SameBill, dbVars

\* A task's step: nobody comes back to a match that is over, and without the sweep
\* nobody newly takes a row back.
LEMMA TaskSettles ==
  ASSUME SettleInv, BooksKept, TimeKept, proc' # "up" => live' = live,
         Sweepers = {} => ~NewlyUnsaves,
         \A m \in Matches : row'[m] = "CANCELLED" /\ row[m] # "CANCELLED"
                              => \E t \in Tasks : job[t].at = "unsaving",
         \A m \in Matches : row[m] = "ABANDONED" => IsOver(m)'
  PROVE  SettleInv'
  <1>1. NobodyUnsaves'
    BY DEF SettleInv, NobodyUnsaves, NewlyUnsaves
  <1>2. \A m \in Matches : SameBill(m) \/ (row'[m] \in Billed /\ AllTaken(m)') \/ row'[m] = "none"
    BY DEF BooksKept
  <1> QED BY <1>1, <1>2, SettleStays DEF TimeKept

LEMMA CancelledByUnsave ==
  ASSUME TypeInv, NEW m \in Matches, row'[m] = "CANCELLED", row[m] # "CANCELLED",
         \/ \E s \in Sockets : SocketStep(s)
         \/ \E l \in Loops   : LoopStep(l)
         \/ \E g \in Graces  : GraceStep(g)
         \/ \E t \in Tasks   : Continue(t) \/ DbFails(t)
         \/ \E w \in Sweepers : Housekeeping(w)
         \/ UNCHANGED vars
  PROVE  \E t \in Tasks : job[t].at = "unsaving"
  <1>1. CASE \E s \in Sockets : SocketStep(s) BY <1>1, SocketKeepsRows
  <1>2. CASE \E g \in Graces : GraceStep(g) BY <1>2, GracePays
  <1>3. CASE \E l \in Loops : LoopStep(l)
    <2> PICK l \in Loops : LoopStep(l) BY <1>3
    <2>1. row' = row \/ row' = [row EXCEPT ![job[l].on] = "IN_PROGRESS"]
      BY DEF LoopStep, Reject, BeginCharge, Build, CreateRow, CreateRowClash, Begin, EndFight,
             ExitLoop, Charge, Finish, TasksOnly, MemoryOnly, dbVars
    <2> QED BY <2>1 DEF TypeInv, TypeOK
  <1>4. CASE \E t \in Tasks : Continue(t)
    BY <1>4 DEF Continue, Claim, Pay, Unsave, Teardown, Refund, MemoryOnly, dbVars, IsAt, TypeInv,
                TypeOK
  <1>5. CASE \E t \in Tasks : DbFails(t) BY <1>5 DEF DbFails, dbVars
  <1>6. CASE \E w \in Sweepers : Housekeeping(w) BY <1>6, HousekeepingPays
  <1>7. CASE UNCHANGED vars BY <1>7 DEF vars, dbVars
  <1> QED BY <1>1, <1>2, <1>3, <1>4, <1>5, <1>6, <1>7

LEMMA ProcessSettles ==
  ASSUME TypeInv, StartInv, PayInv, SettleInv, Crash \/ Restarting
  PROVE  SettleInv'
  <1>0. crashes \in Nat /\ \A m \in Matches : players[m] \subseteq Users /\ m # None
    BY NoneAssumption, BoundAssumption DEF TypeInv, TypeOK, RegistryTypeOK
  <1>1. CASE Crash
    <2>0. /\ UNCHANGED <<row, charged, refunded, paid, players>>
          /\ live' = {} /\ crashes' = crashes + 1 /\ proc' = "down"
          /\ \A t \in Tasks : job'[t] = Rest(t)
      BY <1>1 DEF Crash, ForgetRegistry, dbVars, Rest, At
    <2>1. ASSUME NEW m \in Matches PROVE SettleOK(m)'
      <3>1. SettleOK(m) BY DEF SettleInv
      <3>2. row'[m] \in Billed => AllTaken(m)'
        BY <2>0, <3>1 DEF SettleOK, AllTaken, Once
      <3>3. ASSUME row[m] = "ABANDONED"
            PROVE  IsOver(m)' /\ paid'[m] = 0 /\ crashes' > 0 /\ crashes' # 1
        <4>1. paid[m] = 0 /\ crashes > 0 BY <3>1, <3>3 DEF SettleOK
        <4>2. IsOver(m)' BY <1>0, <2>0, RestOf DEF IsOver
        <4> QED BY <1>0, <2>0, <4>1, <4>2
      <3> QED BY <2>0, <3>2, <3>3 DEF SettleOK, OwedBack
    <2>2. NobodyUnsaves' BY <2>0, RestOf DEF SettleInv, NobodyUnsaves
    <2> QED BY <1>0, <2>0, <2>1, <2>2 DEF SettleInv
  <1>2. CASE Boot
    <2>0. /\ UNCHANGED <<live, job, charged, refunded, paid, players, crashes>>
          /\ proc = "down" /\ proc' = "booting" /\ crashes > 0 /\ live = {}
          /\ \A m \in Matches :
               row'[m] = IF row[m] = "IN_PROGRESS" THEN "ABANDONED" ELSE row[m]
      BY <1>2 DEF Boot, registryVars, SettleInv
    <2>1. ASSUME NEW m \in Matches PROVE SettleOK(m)'
      <3>1. SettleOK(m) BY DEF SettleInv
      <3>2. row'[m] \in Billed => AllTaken(m)'
        BY <2>0, <3>1 DEF SettleOK, AllTaken, Once, Billed
      <3>3. CASE row[m] = "IN_PROGRESS"
        <4>1. IsOver(m)' BY <1>0, <2>0, RestOf DEF StartInv, DeadIsStill, IsOver
        <4>2. paid'[m] = 0 BY <2>0, <3>3 DEF PayInv, Unclaimed
        <4>3. \A u \in players[m] : <<m, u>> \in stranded' BY <1>0, <1>2, <3>3 DEF Boot
        <4>4. OwedBack(m)' BY <2>0, <4>3 DEF OwedBack
        <4> QED BY <2>0, <3>2, <4>1, <4>2, <4>4 DEF SettleOK
      <3>4. CASE row[m] # "IN_PROGRESS"
        <4>1. row[m] = "ABANDONED" => crashes # 1 BY <2>0, <3>1 DEF SettleOK, OwedBack
        <4>2. row[m] = "ABANDONED" => OwedBack(m)' BY <2>0, <4>1 DEF OwedBack
        <4>3. IsOver(m) => IsOver(m)' BY <2>0 DEF IsOver
        <4> QED BY <2>0, <3>1, <3>2, <3>4, <4>2, <4>3 DEF SettleOK
      <3> QED BY <3>3, <3>4
    <2>2. NobodyUnsaves' BY <2>0 DEF SettleInv, NobodyUnsaves
    <2> QED BY <2>0, <2>1, <2>2 DEF SettleInv
  <1>3. CASE Serve
    <2>0. /\ UNCHANGED <<live, job, row, charged, refunded, paid, players, crashes, stranded>>
          /\ proc' = "up"
      BY <1>3 DEF Serve, registryVars, dbVars
    <2>1. ASSUME NEW m \in Matches PROVE SettleOK(m)'
      <3>1. SettleOK(m) BY DEF SettleInv
      <3> QED BY <2>0, <3>1 DEF SettleOK, AllTaken, Once, OwedBack, IsOver
    <2>2. NobodyUnsaves' BY <2>0 DEF SettleInv, NobodyUnsaves
    <2> QED BY <2>0, <2>1, <2>2 DEF SettleInv
  <1>4. CASE \E m \in Matches, u \in Users : BootRefund(m, u)
    <2> PICK k \in Matches, u \in Users : BootRefund(k, u) BY <1>4
    <2>0. /\ UNCHANGED <<live, job, row, charged, paid, players, crashes, proc>>
          /\ row[k] = "ABANDONED" /\ stranded' = stranded \ {<<k, u>>}
      BY DEF BootRefund, registryVars, StartInv, StrandedIsOwed
    <2>1. /\ \A m \in Matches \ {k} : refunded'[m] = refunded[m]
          /\ \A v \in Users : refunded'[k][v] = IF v = u THEN refunded[k][u] + 1 ELSE refunded[k][v]
          /\ refunded[k][u] \in Nat
      BY DEF BootRefund, TypeInv, TypeOK
    <2>2. ASSUME NEW m \in Matches PROVE SettleOK(m)'
      <3>1. SettleOK(m) BY DEF SettleInv
      <3>2. row'[m] \in Billed => AllTaken(m)'
        BY <2>0, <2>1, <3>1 DEF SettleOK, AllTaken, Once, Billed
      <3>3. OwedBack(m) => OwedBack(m)'
        <4> SUFFICES ASSUME OwedBack(m), crashes = 1, NEW v \in players[m]
                     PROVE  proc # "down" /\ (refunded'[m][v] > 0 \/ <<m, v>> \in stranded')
          BY <2>0 DEF OwedBack
        <4>1. v \in Users /\ (refunded[m][v] > 0 \/ <<m, v>> \in stranded) /\ proc # "down"
          BY <1>0 DEF OwedBack
        <4> QED BY <2>0, <2>1, <4>1
      <3>4. IsOver(m) => IsOver(m)' BY <2>0 DEF IsOver
      <3> QED BY <2>0, <3>1, <3>2, <3>3, <3>4 DEF SettleOK
    <2>3. NobodyUnsaves' BY <2>0 DEF SettleInv, NobodyUnsaves
    <2> QED BY <2>0, <2>2, <2>3 DEF SettleInv
  <1> QED BY <1>1, <1>2, <1>3, <1>4 DEF Restarting

LEMMA NextSettles ==
  TypeInv /\ StartInv /\ WatchInv /\ PayInv /\ SettleInv /\ [Next]_vars => SettleInv'
  <1> SUFFICES ASSUME TypeInv, StartInv, WatchInv, PayInv, SettleInv, [Next]_vars PROVE SettleInv'
    OBVIOUS
  <1>1. CASE Crash \/ Restarting BY <1>1, ProcessSettles
  <1>2. CASE UNCHANGED vars
    <2>1. BooksKept /\ TimeKept BY <1>2, OtherBooks
    <2>2. live' = live /\ job' = job BY <1>2 DEF vars, registryVars
    <2>3. \A m \in Matches : row[m] = "ABANDONED" => IsOver(m)'
      BY <2>2 DEF SettleInv, SettleOK, IsOver
    <2>4. ~NewlyUnsaves BY <2>2 DEF NewlyUnsaves
    <2> QED BY <1>2, <2>1, <2>2, <2>3, <2>4, TaskSettles, CancelledByUnsave
  <1>3. CASE \/ \E s \in Sockets : SocketStep(s)
             \/ \E l \in Loops   : LoopStep(l)
             \/ \E g \in Graces  : GraceStep(g)
             \/ \E t \in Tasks   : Continue(t) \/ DbFails(t)
             \/ \E w \in Sweepers : Housekeeping(w)
    <2>1. BooksKept /\ TimeKept
      <3>1. CASE \E s \in Sockets : SocketStep(s) BY <3>1, SocketBooks
      <3>2. CASE \E l \in Loops : LoopStep(l) BY <3>2, LoopBooks
      <3>3. CASE \E t \in Tasks : Continue(t) BY <3>3, ContinueBooks
      <3>4. CASE \/ \E g \in Graces : GraceStep(g)
                 \/ \E t \in Tasks : DbFails(t)
                 \/ \E w \in Sweepers : Housekeeping(w)
        BY <3>4, OtherBooks
      <3> QED BY <1>3, <3>1, <3>2, <3>3, <3>4
    <2>2. ASSUME NEW m \in Matches, row[m] = "ABANDONED" PROVE IsOver(m)'
      <3>0. IsOver(m) /\ ~Fresh(m) /\ m # None BY <2>2, OverMatch
      <3>1. CASE \E s \in Sockets : SocketStep(s) BY <3>0, <3>1, SocketOver
      <3>2. CASE \E l \in Loops : LoopStep(l) BY <3>0, <3>2, LoopOver
      <3>3. CASE \E t \in Tasks : Continue(t) BY <3>0, <3>3, ContinueOver
      <3>4. CASE \E t \in Tasks : DbFails(t) BY <3>0, <3>4, DbFailsOver
      <3>5. CASE (\E g \in Graces : GraceStep(g)) \/ (\E w \in Sweepers : Housekeeping(w))
        BY <3>0, <3>5, OtherOver
      <3> QED BY <1>3, <3>1, <3>2, <3>3, <3>4, <3>5
    <2>3. ASSUME Sweepers = {} PROVE ~NewlyUnsaves
      <3>1. CASE \E s \in Sockets : SocketStep(s) BY <3>1, SocketKeeps
      <3>2. CASE \E l \in Loops : LoopStep(l) BY <3>2, LoopKeeps
      <3>3. CASE \E t \in Tasks : Continue(t) BY <3>3, ContinueKeeps
      <3>4. CASE \E t \in Tasks : DbFails(t) BY <3>4, DbFailsKeeps
      <3>5. CASE \E g \in Graces : GraceStep(g) BY <3>5, GraceKeeps
      <3> QED BY <1>3, <2>3, <3>1, <3>2, <3>3, <3>4, <3>5
    <2>4. proc' = "up" BY <1>3, TasksLive
    <2> QED BY <1>3, <2>1, <2>2, <2>3, <2>4, TaskSettles, CancelledByUnsave
  <1> QED BY <1>1, <1>2, <1>3 DEF Next

LEMMA SettlesNow ==
  ASSUME TypeInv, StartInv, PayInv, SettleInv
  PROVE  RowTellsEnergy
  <1> SUFFICES ASSUME NEW m \in Matches, NEW u \in players[m]
               PROVE  /\ paid[m] > 0 =>
                           /\ charged[m][u] > refunded[m][u]
                           /\ \/ row[m] = "FINISHED"
                              \/ row[m] = "CANCELLED" /\ (charged[m][u] > 1 \/ Sweepers # {})
                      /\ proc = "up" /\ crashes <= 1 /\ row[m] = "ABANDONED" => refunded[m][u] > 0
    BY DEF RowTellsEnergy
  <1>0. u \in Users /\ SettleOK(m) /\ row[m] \in RowStatus /\ crashes \in Nat
    BY BoundAssumption DEF TypeInv, TypeOK, RegistryTypeOK, SettleInv
  <1>1. ASSUME paid[m] > 0
        PROVE  /\ charged[m][u] > refunded[m][u]
               /\ row[m] = "FINISHED" \/ (row[m] = "CANCELLED" /\ Sweepers # {})
    <2>1. row[m] \notin Unclaimed BY <1>1 DEF PayInv
    <2>2. row[m] # "ABANDONED" BY <1>0, <1>1 DEF SettleOK
    <2>3. row[m] \in {"FINISHED", "CANCELLED"} BY <1>0, <2>1, <2>2 DEF Unclaimed, RowStatus
    <2>4. AllTaken(m) BY <1>0, <2>3 DEF SettleOK, Billed
    <2>5. charged[m][u] = 1 /\ refunded[m][u] = 0 BY <1>0, <2>4 DEF AllTaken, Once
    <2> QED BY <2>3, <2>5 DEF SettleInv, NobodyUnsaves
  <1>2. ASSUME proc = "up", crashes <= 1, row[m] = "ABANDONED" PROVE refunded[m][u] > 0
    <2>1. crashes = 1 /\ OwedBack(m) BY <1>0, <1>2 DEF SettleOK
    <2>2. <<m, u>> \notin stranded BY <1>0, <1>2 DEF StartInv, StrandedIsOwed
    <2> QED BY <2>1, <2>2 DEF OwedBack
  <1> QED BY <1>1, <1>2

(* Whoever is paid for a match was charged for it and not refunded, and its *)
(* row stays settled unless a sweep closed the lobby it once was; and the   *)
(* restart after the first death hands back the energy of every match it    *)
(* abandons before a client is served -- for any tasks, matches and errors  *)
(* of the database, as long as clients start a lobby once.                  *)
THEOREM RowAlwaysTells == ~DoubleStart => (Spec => []RowTellsEnergy)
  <1> SUFFICES ASSUME ~DoubleStart PROVE Spec => []RowTellsEnergy
    OBVIOUS
  <1>1. TypeInv /\ StartInv /\ WatchInv /\ PayInv /\ SettleInv /\ [Next]_vars
          => SettleInv'
    BY NextSettles
  <1>2. TypeInv /\ StartInv /\ WatchInv /\ [Next]_vars => WatchInv' BY NextWatch
  <1>3. TypeInv /\ PayInv /\ [Next]_vars => PayInv' BY NextPays
  <1>4. Spec => [](TypeInv /\ StartInv) BY StartsAlways
  <1>5. TypeInv /\ StartInv /\ PayInv /\ SettleInv => RowTellsEnergy BY SettlesNow
  <1> QED BY <1>1, <1>2, <1>3, <1>4, <1>5, SettleInit, WatchInit, PayInit, PTL DEF Spec

=============================================================================
