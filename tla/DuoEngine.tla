----------------------------- MODULE DuoEngine -----------------------------
(***************************************************************************)
(* The life of a duo match (services/duo/match_runtime.py): sockets,       *)
(* matchmaking, friend rooms, the countdown and charge, the match task,    *)
(* disconnect grace, settlement, abort, teardown, the housekeeping sweep,  *)
(* and a process that may die and come back.                               *)
(*                                                                         *)
(* The server is one asyncio event loop, so control moves between tasks    *)
(* only where the code awaits.  Every await that can be observed is a      *)
(* POINT a task rests at; an action is the run from one point to the next. *)
(* A database call is the point in front of its commit and the point       *)
(* behind it.  What happens inside a fight is DuoFight's subject: here a   *)
(* running match simply may end at any tick.                               *)
(***************************************************************************)
EXTENDS DuoRegistry

CONSTANTS Loops,        \* tasks running `_run_match'   (a bound on how many at once)
          Graces,       \* tasks running `_grace_timer' (a bound on how many at once)
          Sweepers,     \* the task running `run_housekeeping' (or none, to leave it out)
          DoubleStart,  \* TRUE: clients may send match.start to a started countdown
          MaxCrashes,   \* bound on process deaths
          MaxDbErrors   \* bound on database calls that raise

ASSUME TaskAssumption ==
  /\ None \notin Loops \cup Graces \cup Sweepers
  /\ Sockets \cap (Loops \cup Graces \cup Sweepers) = {}
  /\ Loops \cap (Graces \cup Sweepers) = {} /\ Graces \cap Sweepers = {}
ASSUME BoundAssumption ==
  MaxCrashes \in Nat /\ MaxDbErrors \in Nat /\ DoubleStart \in BOOLEAN

VARIABLES match,      \* the LiveMatch objects
          job,        \* where each task rests
          row,        \* duo_matches.status, "none" before create_match
          charged,    \* energy taken from each player for each match
          refunded,   \* energy handed back
          paid,       \* times save_result handed out rewards for the match
          proc,       \* "up", "down", or "booting" (start-up refunds)
          stranded,   \* refunds abandon_orphaned_matches still has to make
          crashes, dbErrors

dbVars    == <<row, charged, refunded, paid>>
procVars  == <<proc, stranded, crashes, dbErrors>>
vars      == <<registryVars, match, job, dbVars, procVars>>

Tasks == Sockets \cup Loops \cup Graces \cup Sweepers

MatchStatus == {"NEW", "WAITING", "IN_PROGRESS", "FINISHED", "CANCELLED", "GONE"}
RowStatus   == {"none", "IN_PROGRESS", "FINISHED", "CANCELLED", "ABANDONED"}

\* LiveMatch.  A player's `websocket is None' and `not connected' are set and
\* cleared together, so `socket[u] = None' stands for both.
LiveMatch == [status : MatchStatus, host : Users \cup {None},
              socket : [Users -> Sockets \cup {None}],
              task   : Loops \cup {None},
              grace  : [Users -> Graces \cup {None}],
              energySpent : BOOLEAN, persisted : BOOLEAN]

\* Points: "closed" "greeting" "open" "announcing" "notifying" "failed" belong to
\* socket handlers, "countdown" .. "refunding" to `_run_match', "sleeping" to a
\* grace timer, "closing" to the sweep; the last four are shared continuations.
Points == {"closed", "greeting", "open", "announcing", "notifying", "failed",
           "idle", "countdown", "charging", "building", "creating", "created",
           "running", "refunding", "sleeping", "closing",
           "claiming", "paying", "unsaving", "teardown"}

\* on: the match the task holds; then: where it rests afterwards ("lost" when its
\* caller was cancelled); left: players a per-player loop has yet to reach; who:
\* the player a grace timer watches.
Job == [at : Points, on : Matches \cup {None}, then : {"closed", "open", "idle", "lost"},
        left : SUBSET Users, who : Users \cup {None}]

TypeOK ==
  /\ RegistryTypeOK
  /\ match    \in [Matches -> LiveMatch]
  /\ job      \in [Tasks -> Job]
  /\ row      \in [Matches -> RowStatus]
  /\ charged  \in [Matches -> [Users -> Nat]]
  /\ refunded \in [Matches -> [Users -> Nat]]
  /\ paid     \in [Matches -> Nat]
  /\ proc     \in {"up", "down", "booting"}
  /\ stranded \in SUBSET (Matches \X Users)
  /\ crashes  \in 0..MaxCrashes /\ dbErrors \in 0..MaxDbErrors

-----------------------------------------------------------------------------
NoOne   == [u \in Users |-> None]
Nothing == [u \in Users |-> 0]

Blank(status) == [status |-> status, host |-> None, socket |-> NoOne, task |-> None,
                  grace |-> NoOne, energySpent |-> FALSE, persisted |-> FALSE]

At(point, m, next) == [at |-> point, on |-> m, then |-> next,
                       left |-> {}, who |-> None]
Rest(t) == At(IF t \in Sockets THEN "closed" ELSE "idle", None, "idle")
Open    == At("open", None, "open")
After(t) == CASE job[t].then = "open" -> Open [] OTHER -> Rest(t)

Init == /\ RegistryInit
        /\ match    = [m \in Matches |-> Blank("NEW")]
        /\ job      = [t \in Tasks |-> Rest(t)]
        /\ row      = [m \in Matches |-> "none"]
        /\ charged  = [m \in Matches |-> Nothing]
        /\ refunded = [m \in Matches |-> Nothing]
        /\ paid     = [m \in Matches |-> 0]
        /\ proc = "up" /\ stranded = {} /\ crashes = 0 /\ dbErrors = 0

IsAt(t, point) == job[t].at = point
Status(m)      == match[m].status
Fresh(m)       == Status(m) = "NEW"
Idle(pool)     == {t \in pool : IsAt(t, "idle")}

\* The pools bound the state space; a step that will need a task waits for one.
SpareLoop  == Cardinality(Idle(Loops))  > Cardinality({s \in Sockets : IsAt(s, "announcing")})
SpareGrace == Cardinality(Idle(Graces)) > Cardinality({s \in Sockets : IsAt(s, "notifying")})

-----------------------------------------------------------------------------
(* What the handlers and tasks share.                                       *)

Move(t, rest)  == job' = [job EXCEPT ![t] = rest]
MemoryOnly     == UNCHANGED <<dbVars, procVars>>
TasksOnly      == UNCHANGED <<registryVars, match, dbVars, procVars>>

\* The tasks `_cancel_task' and `_cancel_grace_timers' reach: the ones the match
\* still refers to, never the task that is running the call.
LoopOf(m, t)   == {l \in Loops : match[m].task = l /\ job[l].on = m} \ {t}
TimerOf(m, u)  == {g \in Graces : match[m].grace[u] = g /\ job[g].on = m /\ job[g].who = u}
TimersOf(m, t) == (UNION {TimerOf(m, u) : u \in Users}) \ {t}

\* Mutant: save_result is not shielded.
StoppedUnshielded(S) == [x \in Tasks |-> IF x \in S THEN Rest(x) ELSE job[x]]

\* task.cancel(): the await the task rests at raises, so nothing behind it runs.
\* save_result alone is shielded: it runs on, but its caller never hears of it.
Stopped(S) ==
  [x \in Tasks |->
     IF x \notin S THEN job[x]
     ELSE IF job[x].at \in {"claiming", "paying"} THEN [job[x] EXCEPT !.then = "lost"]
     ELSE Rest(x)]

\* Mutant: `_finish' cancels the very grace timer it runs in.
FinishCancellingItself(t, m, next) ==
  /\ match' = [match EXCEPT ![m].status = "FINISHED", ![m].task = None, ![m].grace = NoOne]
  /\ job' = IF t \in Graces
            THEN Stopped(LoopOf(m, t) \cup TimersOf(m, None))
            ELSE [Stopped(LoopOf(m, t) \cup TimersOf(m, t)) EXCEPT
                    ![t] = At(IF match[m].persisted THEN "claiming" ELSE "teardown", m, next)]
  /\ UNCHANGED registryVars /\ MemoryOnly

\* `_finish': every caller has just seen IN_PROGRESS; the guard is its own.
Finish(t, m, next) ==
  /\ Status(m) # "FINISHED"
  /\ match' = [match EXCEPT ![m].status = "FINISHED",
                            ![m].task   = IF @ = t THEN t ELSE None,
                            ![m].grace  = NoOne]
  /\ job' = [Stopped(LoopOf(m, t) \cup TimersOf(m, t)) EXCEPT
               ![t] = At(IF match[m].persisted THEN "claiming" ELSE "teardown", m, next)]
  /\ UNCHANGED registryVars /\ MemoryOnly

\* `_cancel_waiting_room'
CancelRoom(t, m, next) ==
  /\ match' = [match EXCEPT ![m].status = "CANCELLED",
                            ![m].task   = IF @ = t THEN t ELSE None]
  /\ job' = [Stopped(LoopOf(m, t)) EXCEPT
               ![t] = At(IF match[m].persisted THEN "unsaving" ELSE "teardown", m, next)]
  /\ UNCHANGED registryVars /\ MemoryOnly

\* `_abort' up to its first database call; a settled match is only torn down.
Abort(t, m) ==
  IF Status(m) = "FINISHED"
  THEN /\ Move(t, At("teardown", m, "idle"))
       /\ UNCHANGED match
  ELSE /\ match' = [match EXCEPT ![m].status = "CANCELLED", ![m].energySpent = FALSE]
       /\ Move(t, IF match[m].energySpent
                  THEN [At("refunding", m, "idle") EXCEPT !.left = players[m]]
                  ELSE At(IF match[m].persisted THEN "unsaving" ELSE "teardown", m, "idle"))

-----------------------------------------------------------------------------
(* Connections: on_connect, on_disconnect, _reattach.                       *)

\* on_connect reads the user's match, then awaits load_standing ...
Connect(s) ==
  /\ proc = "up" /\ IsAt(s, "closed")
  /\ Move(s, At("greeting", MatchOf(Owner[s]), "open"))
  /\ TasksOnly

\* ... and re-attaches to the match it read, whatever became of it since.
Greet(s) ==
  LET m == job[s].on
      u == Owner[s]
  IN /\ IsAt(s, "greeting")
     /\ IF m = None
        THEN Move(s, Open) /\ UNCHANGED match
        ELSE /\ match' = [match EXCEPT ![m].socket[u] = s, ![m].grace[u] = None]
             /\ job' = [x \in Tasks |->
                          CASE x = s              -> Open
                            [] x \in TimerOf(m, u) -> Rest(x)
                            [] OTHER -> job[x]]
     /\ UNCHANGED registryVars /\ MemoryOnly

Disconnecting(s) == job[s].at \in {"open", "failed"}
AttachedTo(s, m) == m # None /\ match[m].socket[Owner[s]] = s

\* Mutant: a closing socket leaves its queue entry behind.
DropQueuedKeeping(s) ==
  /\ Disconnecting(s) /\ IsQueued(Owner[s])
  /\ Move(s, Rest(s))
  /\ TasksOnly

\* on_disconnect, one action per way out.  A queued user is dequeued, by user id.
DropQueued(s) ==
  /\ Disconnecting(s) /\ IsQueued(Owner[s])
  /\ Dequeue(Owner[s])
  /\ Move(s, Rest(s))
  /\ UNCHANGED <<live, seat, players, match>> /\ MemoryOnly

\* Not in a match, replaced by a newer socket, or in a match that has ended.
DropQuietly(s) ==
  LET m == MatchOf(Owner[s])
  IN /\ Disconnecting(s) /\ ~IsQueued(Owner[s])
     /\ AttachedTo(s, m) => Status(m) \notin {"WAITING", "IN_PROGRESS"}
     /\ match' = IF AttachedTo(s, m)
                 THEN [match EXCEPT ![m].socket[Owner[s]] = None] ELSE match
     /\ Move(s, Rest(s))
     /\ UNCHANGED registryVars /\ MemoryOnly

\* The room is torn down next: that its player no longer has a socket shows nowhere.
DropFromLobby(s) ==
  LET m == MatchOf(Owner[s])
  IN /\ Disconnecting(s) /\ ~IsQueued(Owner[s])
     /\ AttachedTo(s, m) /\ Status(m) = "WAITING"
     /\ CancelRoom(s, m, "closed")

\* The opponent is told first: an await between the drop and the grace timer.
DropFromFight(s) ==
  LET m == MatchOf(Owner[s])
  IN /\ Disconnecting(s) /\ ~IsQueued(Owner[s])
     /\ AttachedTo(s, m) /\ Status(m) = "IN_PROGRESS"
     /\ SpareGrace
     /\ match' = [match EXCEPT ![m].socket[Owner[s]] = None]
     /\ Move(s, [At("notifying", m, "closed") EXCEPT !.who = Owner[s]])
     /\ UNCHANGED registryVars /\ MemoryOnly

\* Mutant: no timer is started while the last one is still referred to.
StartGraceOnce(s, g) ==
  LET m == job[s].on
      spare == match[m].grace[Owner[s]] = None
  IN /\ IsAt(s, "notifying") /\ IsAt(g, "idle")
     /\ match' = IF spare THEN [match EXCEPT ![m].grace[Owner[s]] = g] ELSE match
     /\ job' = IF spare THEN [job EXCEPT ![s] = Rest(s),
                                ![g] = [job[s] EXCEPT !.at = "sleeping", !.then = "idle"]]
               ELSE [job EXCEPT ![s] = Rest(s)]
     /\ UNCHANGED registryVars /\ MemoryOnly

StartGrace(s, g) ==
  LET m == job[s].on
  IN /\ IsAt(s, "notifying") /\ IsAt(g, "idle")
     /\ match' = [match EXCEPT ![m].grace[Owner[s]] = g]
     /\ job' = [job EXCEPT ![s] = Rest(s),
                           ![g] = [job[s] EXCEPT !.at = "sleeping", !.then = "idle"]]
     /\ UNCHANGED registryVars /\ MemoryOnly

\* `_grace_timer' after its sleep: the player is back, or the fight is over ...
Spared(g) == LET m == job[g].on
             IN match[m].socket[job[g].who] # None \/ Status(m) # "IN_PROGRESS"

GraceLapses(g) == IsAt(g, "sleeping") /\ Spared(g) /\ Move(g, Rest(g)) /\ TasksOnly

\* ... or they are not, and forfeit.
GraceForfeits(g) == IsAt(g, "sleeping") /\ ~Spared(g) /\ Finish(g, job[g].on, "idle")

-----------------------------------------------------------------------------
(* Matchmaking and friend rooms.                                            *)

JoinQueue(s) ==
  /\ IsAt(s, "open")
  /\ MatchOf(Owner[s]) = None /\ ~IsQueued(Owner[s])
  /\ Enqueue(s)
  /\ UNCHANGED <<live, seat, players, match, job>> /\ MemoryOnly

\* The opponent is dequeued and the match registered under one lock; the task
\* that runs it is created only after both players have been told.
JoinQueueAndPair(s, e, m) ==
  LET u == Owner[s]
      v == Owner[e]
  IN /\ IsAt(s, "open") /\ SpareLoop
     /\ MatchOf(u) = None /\ ~IsQueued(u)
     /\ e \in queue /\ v # u /\ Fresh(m)
     /\ queue' = queue \ {e}
     /\ Register(m, {u, v})
     /\ match' = [match EXCEPT ![m] = [Blank("WAITING") EXCEPT
                    !.host = v, !.socket = [NoOne EXCEPT ![u] = s, ![v] = e]]]
     /\ Move(s, At("announcing", m, "open"))
     /\ MemoryOnly

\* match.task = asyncio.create_task(self._run_match(match))
Spawn(s, l, m) ==
  /\ IsAt(l, "idle")
  /\ match' = [match EXCEPT ![m].task = l]
  /\ job'   = [job EXCEPT ![l] = At("countdown", m, "idle"), ![s] = Open]
  /\ UNCHANGED registryVars /\ MemoryOnly

Launch(s, l) == IsAt(s, "announcing") /\ Spawn(s, l, job[s].on)

LeaveQueue(s) ==
  /\ IsAt(s, "open") /\ Dequeue(Owner[s])
  /\ UNCHANGED <<live, seat, players, match, job>> /\ MemoryOnly

\* Mutant: only a seat refuses a new room, not a place in the queue.
CreateRoomWhileQueued(s, m) ==
  LET u == Owner[s]
  IN /\ IsAt(s, "open") /\ MatchOf(u) = None /\ Fresh(m)
     /\ Register(m, {u})
     /\ match' = [match EXCEPT ![m] = [Blank("WAITING") EXCEPT
                    !.host = u, !.socket = [NoOne EXCEPT ![u] = s]]]
     /\ UNCHANGED <<queue, job>> /\ MemoryOnly

CreateRoom(s, m) ==
  LET u == Owner[s]
  IN /\ IsAt(s, "open") /\ ~IsBusy(u) /\ Fresh(m)
     /\ Register(m, {u})
     /\ match' = [match EXCEPT ![m] = [Blank("WAITING") EXCEPT
                    !.host = u, !.socket = [NoOne EXCEPT ![u] = s]]]
     /\ UNCHANGED <<queue, job>> /\ MemoryOnly

\* Any registered match can be asked for: one paired at random is always full.
JoinRoom(s, m) ==
  LET u == Owner[s]
  IN /\ IsAt(s, "open") /\ ~IsBusy(u)
     /\ m \in live /\ Status(m) = "WAITING" /\ ~IsFull(m)
     /\ Bind(m, u)
     /\ match' = [match EXCEPT ![m].socket[u] = s]
     /\ UNCHANGED <<queue, job>> /\ MemoryOnly

\* The status stays WAITING through the countdown and the charge, so nothing in
\* the code refuses a second start; ~DoubleStart is a promise of the clients.
StartMatch(s, l, m) ==
  /\ IsAt(s, "open") /\ SpareLoop
  /\ m = MatchOf(Owner[s]) /\ m # None
  /\ match[m].host = Owner[s] /\ Status(m) = "WAITING" /\ IsFull(m)
  /\ DoubleStart \/ (match[m].task = None /\ \A x \in Sockets : job[x] # At("announcing", m, "open"))
  /\ Spawn(s, l, m)

LeaveMatch(s, m) ==
  /\ IsAt(s, "open") /\ m = MatchOf(Owner[s]) /\ m # None
  /\ \/ Status(m) = "WAITING"     /\ CancelRoom(s, m, "open")
     \/ Status(m) = "IN_PROGRESS" /\ Finish(s, m, "open")

-----------------------------------------------------------------------------
(* The match task: `_run_match', `_prepare', `_tick', `_abort'.             *)

LoopAt(l, point) == l \in Loops /\ IsAt(l, point)

\* Too few questions, a player without energy, or a failed read: nothing is charged.
Reject(l) ==
  /\ LoopAt(l, "countdown") /\ Abort(l, job[l].on)
  /\ UNCHANGED registryVars /\ MemoryOnly

BeginCharge(l) ==
  /\ LoopAt(l, "countdown")
  /\ Move(l, [job[l] EXCEPT !.at = "charging", !.left = players[job[l].on]])
  /\ TasksOnly

\* A per-player loop that commits one player at a time and then goes on.
OneOf(t, u, tally, next) ==
  /\ u \in job[t].left
  /\ tally' = [tally EXCEPT ![job[t].on][u] = @ + 1]
  /\ Move(t, IF job[t].left = {u} THEN next ELSE [job[t] EXCEPT !.left = @ \ {u}])

\* spend_for_match
Charge(l, u) ==
  /\ LoopAt(l, "charging")
  /\ OneOf(l, u, charged, [job[l] EXCEPT !.at = "building", !.left = {}])
  /\ UNCHANGED <<registryVars, match, row, refunded, paid, procVars>>

\* The builds are read and the match flips to IN_PROGRESS, whatever it was.
Build(l) ==
  LET m == job[l].on
  IN /\ LoopAt(l, "building")
     /\ match' = [match EXCEPT ![m].energySpent = TRUE, ![m].status = "IN_PROGRESS"]
     /\ Move(l, [job[l] EXCEPT !.at = "creating"])
     /\ UNCHANGED registryVars /\ MemoryOnly

\* create_match commits the row, or meets the row of an earlier start and raises.
CreateRow(l) ==
  /\ LoopAt(l, "creating") /\ row[job[l].on] = "none"
  /\ row' = [row EXCEPT ![job[l].on] = "IN_PROGRESS"]
  /\ Move(l, [job[l] EXCEPT !.at = "created"])
  /\ UNCHANGED <<registryVars, match, charged, refunded, paid, procVars>>

CreateRowClash(l) ==
  /\ LoopAt(l, "creating") /\ row[job[l].on] # "none"
  /\ Abort(l, job[l].on)
  /\ UNCHANGED registryVars /\ MemoryOnly

Begin(l) ==
  /\ LoopAt(l, "created")
  /\ match' = [match EXCEPT ![job[l].on].persisted = TRUE]
  /\ Move(l, [job[l] EXCEPT !.at = "running"])
  /\ UNCHANGED registryVars /\ MemoryOnly

\* The tick that sees a knockout, a cleared deck or the time cap settles the match.
EndFight(l) ==
  /\ LoopAt(l, "running") /\ Status(job[l].on) = "IN_PROGRESS"
  /\ Finish(l, job[l].on, "idle")

\* Someone else ended it: the loop notices at its next tick.
ExitLoop(l) ==
  /\ LoopAt(l, "running") /\ Status(job[l].on) # "IN_PROGRESS"
  /\ Move(l, Rest(l)) /\ TasksOnly

-----------------------------------------------------------------------------
(* Continuations any task may rest at: persistence, refund, teardown.       *)

AfterSave(t) == IF job[t].then = "lost" THEN Rest(t) ELSE [job[t] EXCEPT !.at = "teardown"]

\* Mutant: the claim does not look at the status it replaces.
ClaimAnyRow(t) ==
  LET m == job[t].on
      won == row[m] # "none"
  IN /\ IsAt(t, "claiming")
     /\ row' = IF won THEN [row EXCEPT ![m] = "FINISHED"] ELSE row
     /\ Move(t, IF won THEN [job[t] EXCEPT !.at = "paying"] ELSE AfterSave(t))
     /\ UNCHANGED <<registryVars, match, charged, refunded, paid, procVars>>

\* save_result's first commit: only the caller that finds the row IN_PROGRESS
\* may hand out rewards; any other gets an empty reward set.
Claim(t) ==
  LET m == job[t].on
      won == row[m] = "IN_PROGRESS"
  IN /\ IsAt(t, "claiming")
     /\ row' = IF won THEN [row EXCEPT ![m] = "FINISHED"] ELSE row
     /\ Move(t, IF won THEN [job[t] EXCEPT !.at = "paying"] ELSE AfterSave(t))
     /\ UNCHANGED <<registryVars, match, charged, refunded, paid, procVars>>

Pay(t) ==
  /\ IsAt(t, "paying")
  /\ paid' = [paid EXCEPT ![job[t].on] = @ + 1]
  /\ Move(t, AfterSave(t))
  /\ UNCHANGED <<registryVars, match, row, charged, refunded, procVars>>

\* refund_start, one player's commit at a time; `persisted' is read afterwards.
Refund(t, u) ==
  LET m == job[t].on
  IN /\ IsAt(t, "refunding")
     /\ OneOf(t, u, refunded, At(IF match[m].persisted THEN "unsaving" ELSE "teardown", m, "idle"))
     /\ UNCHANGED <<registryVars, match, row, charged, paid, procVars>>

\* cancel_match writes CANCELLED over whatever the row says.
Unsave(t) ==
  LET m == job[t].on
  IN /\ IsAt(t, "unsaving")
     /\ row' = IF row[m] = "none" THEN row ELSE [row EXCEPT ![m] = "CANCELLED"]
     /\ Move(t, [job[t] EXCEPT !.at = "teardown"])
     /\ UNCHANGED <<registryVars, match, charged, refunded, paid, procVars>>

\* Unregistered and held by no task, the LiveMatch object is garbage.
HeldByOthers(m, t) == \E x \in Tasks \ ({t} \cup TimersOf(m, t)) : job[x].on = m

\* `_teardown': the wait for the lock is the point, the rest is one step.
Teardown(t) ==
  LET m == job[t].on
  IN /\ IsAt(t, "teardown")
     /\ Unregister(m)
     /\ match' = IF HeldByOthers(m, t) THEN [match EXCEPT ![m].grace = NoOne]
                 ELSE [match EXCEPT ![m] = Blank("GONE")]
     /\ job'   = [Stopped(TimersOf(m, t)) EXCEPT ![t] = After(t)]
     /\ UNCHANGED queue /\ MemoryOnly

\* Mutant: a start that fails while reading the builds is tried again.
DbFailsRetrying(t) ==
  /\ dbErrors < MaxDbErrors /\ dbErrors' = dbErrors + 1
  /\ IsAt(t, "building") /\ Move(t, At("countdown", job[t].on, "idle"))
  /\ UNCHANGED <<registryVars, match, dbVars, proc, stranded, crashes>>

\* A database call raises.  `_run_match' aborts; a socket's handler unwinds into
\* on_disconnect; a refund, a grace timer or the sweep just dies where it was.
DbFails(t) ==
  /\ dbErrors < MaxDbErrors
  /\ dbErrors' = dbErrors + 1
  /\ job[t].at \in {"charging", "building", "creating", "claiming", "paying", "refunding", "unsaving"}
  /\ IF t \in Loops /\ job[t].then # "lost" /\ job[t].at \notin {"refunding", "unsaving"}
     THEN Abort(t, job[t].on)
     ELSE /\ Move(t, IF t \in Sockets THEN At("failed", None, "idle") ELSE Rest(t))
          /\ UNCHANGED match
  /\ UNCHANGED <<registryVars, dbVars, proc, stranded, crashes>>

-----------------------------------------------------------------------------
(* Housekeeping and the process.                                            *)

SweepQueue(w) == \E stale \in SUBSET queue \ {{}} :
                /\ proc = "up" /\ IsAt(w, "idle")
                /\ DropStale(stale)
                /\ UNCHANGED <<live, seat, players, match, job>> /\ MemoryOnly

\* close_idle_room tells whoever sits in the lobby first ...
SweepRoom(w, m) ==
  /\ proc = "up" /\ IsAt(w, "idle")
  /\ m \in live /\ Status(m) = "WAITING"
  /\ Move(w, At("closing", m, "idle"))
  /\ TasksOnly

\* ... and then cancels it without looking at its status again.
CloseIdleRoom(w) == IsAt(w, "closing") /\ CancelRoom(w, job[w].on, "idle")

\* The process dies (a crash, a kill, or a shutdown, which only cancels tasks).
Crash ==
  /\ proc # "down" /\ crashes < MaxCrashes
  /\ proc' = "down" /\ crashes' = crashes + 1 /\ stranded' = {}
  /\ ForgetRegistry
  /\ match' = [m \in Matches |-> IF Fresh(m) THEN match[m] ELSE Blank("GONE")]
  /\ job'   = [t \in Tasks |-> Rest(t)]
  /\ UNCHANGED <<dbVars, dbErrors>>

\* abandon_orphaned_matches: one commit closes the rows ...
Boot ==
  /\ proc = "down" /\ proc' = "booting"
  /\ row' = [m \in Matches |-> IF row[m] = "IN_PROGRESS" THEN "ABANDONED" ELSE row[m]]
  /\ stranded' = {p \in Matches \X Users : row[p[1]] = "IN_PROGRESS" /\ p[2] \in players[p[1]]}
  /\ UNCHANGED <<registryVars, match, job, charged, refunded, paid, crashes, dbErrors>>

\* ... and each stranded player is refunded in a commit of its own.
BootRefund(m, u) ==
  /\ proc = "booting" /\ <<m, u>> \in stranded
  /\ refunded' = [refunded EXCEPT ![m][u] = @ + 1]
  /\ stranded' = stranded \ {<<m, u>>}
  /\ UNCHANGED <<registryVars, match, job, row, charged, paid, proc, crashes, dbErrors>>

\* Mutant: clients are served while refunds are still owed.
ServeEarly ==
  /\ proc = "booting" /\ proc' = "up"
  /\ UNCHANGED <<registryVars, match, job, dbVars, stranded, crashes, dbErrors>>

Serve ==
  /\ proc = "booting" /\ stranded = {}
  /\ proc' = "up"
  /\ UNCHANGED <<registryVars, match, job, dbVars, stranded, crashes, dbErrors>>

-----------------------------------------------------------------------------
SocketStep(s) ==
  \/ Connect(s) \/ Greet(s)
  \/ DropQueued(s) \/ DropQuietly(s) \/ DropFromLobby(s) \/ DropFromFight(s)
  \/ JoinQueue(s) \/ LeaveQueue(s)
  \/ \E m \in Matches : CreateRoom(s, m) \/ JoinRoom(s, m) \/ LeaveMatch(s, m)
  \/ \E m \in Matches, e \in Sockets : JoinQueueAndPair(s, e, m)
  \/ \E m \in Matches, l \in Loops   : StartMatch(s, l, m)
  \/ \E l \in Loops  : Launch(s, l)
  \/ \E g \in Graces : StartGrace(s, g)

LoopStep(l) ==
  \/ Reject(l) \/ BeginCharge(l) \/ Build(l) \/ CreateRow(l) \/ CreateRowClash(l)
  \/ Begin(l) \/ EndFight(l) \/ ExitLoop(l)
  \/ \E u \in Users : Charge(l, u)

GraceStep(g) == GraceLapses(g) \/ GraceForfeits(g)

Continue(t) == Claim(t) \/ Pay(t) \/ Unsave(t) \/ Teardown(t) \/ \E u \in Users : Refund(t, u)

Housekeeping(w) == SweepQueue(w) \/ CloseIdleRoom(w) \/ \E m \in Matches : SweepRoom(w, m)

Restarting == Boot \/ Serve \/ \E m \in Matches, u \in Users : BootRefund(m, u)

Next ==
  \/ \E s \in Sockets : SocketStep(s)
  \/ \E l \in Loops   : LoopStep(l)
  \/ \E g \in Graces  : GraceStep(g)
  \/ \E t \in Tasks   : Continue(t) \/ DbFails(t)
  \/ \E w \in Sweepers : Housekeeping(w)
  \/ Crash \/ Restarting

Spec == Init /\ [][Next]_vars

(* Scheduling.  The event loop resumes every task whose await has completed;*)
(* sleeps end, database calls return, the match clock runs out              *)
(* (clock.match_time_cap), a lobby grows old (WAITING_ROOM_TTL_SECONDS).    *)
(* Nothing is assumed of the clients.                                       *)
Fairness ==
  /\ \A s \in Sockets : /\ WF_vars(Greet(s))
                        /\ WF_vars(\E l \in Loops : Launch(s, l))
                        /\ WF_vars(\E g \in Graces : StartGrace(s, g))
  /\ \A l \in Loops  : WF_vars(LoopStep(l))
  /\ \A g \in Graces : WF_vars(GraceStep(g))
  /\ \A t \in Tasks  : WF_vars(Continue(t))
  /\ \A w \in Sweepers : /\ WF_vars(CloseIdleRoom(w))
                         /\ WF_vars(\E m \in Matches : SweepRoom(w, m))
  /\ WF_vars(Restarting)

FairSpec == Spec /\ Fairness

-----------------------------------------------------------------------------
(* A waiting entry always has a listener: no closed socket stays queued,    *)
(* to be paired with a player who is not there (on_disconnect dequeues by   *)
(* user id, so this survives a user with several sockets).                  *)
QueueIsListening == \A e \in queue : job[e].at \notin {"closed", "greeting", "notifying"}

(* Rewards are handed out at most once per match, through double starts,    *)
(* forfeits racing the clock, revived rooms and crashes: the claim in       *)
(* save_result is the serialization point.                                  *)
PaidOnce == \A m \in Matches : paid[m] <= 1

(* While a fight runs, a player without a socket is being waited for: the   *)
(* handler that will start the grace timer, or a timer, is there, whatever  *)
(* order drops and reconnects of several sockets resume in -- unless the    *)
(* match is already on its way out.                                         *)
AbsentIsWatched ==
  \A m \in live : \A u \in players[m] :
    Status(m) = "IN_PROGRESS" /\ match[m].socket[u] = None
      => \E t \in Tasks : /\ job[t].on = m
                          /\ \/ job[t].at \in {"notifying", "sleeping"} /\ job[t].who = u
                             \/ job[t].at = "teardown"

(* The row of a match tells what became of its energy.  A match that was    *)
(* paid out keeps what it took, and its row is never again one that a       *)
(* restart refunds: it stays FINISHED, or is CANCELLED later by a second    *)
(* start that charged again or by a sweep that saw the lobby it once was.   *)
(* And a row closed by a restart is refunded before the first client is     *)
(* served (a second death before that may lose refunds): that is also how   *)
(* a match left between IN_PROGRESS and `persisted', whose row nobody       *)
(* settles, gets its energy back.  Neither a payout nor a refund is claimed *)
(* for a match that is left while it starts and whose process lives on.     *)
RowTellsEnergy ==
  \A m \in Matches : \A u \in players[m] :
    /\ paid[m] > 0 =>
         /\ charged[m][u] > refunded[m][u]
         /\ \/ row[m] = "FINISHED"
            \/ row[m] = "CANCELLED" /\ (charged[m][u] > 1 \/ Sweepers # {})
    /\ proc = "up" /\ crashes <= 1 /\ row[m] = "ABANDONED" => refunded[m][u] > 0

(* "A match costs one energy."                                              *)
ChargedOnce == \A m \in Matches, u \in Users : charged[m][u] <= 1

(* Energy is taken at most once a match and never given back twice, with    *)
(* retried statements, aborted starts and start-up refunds.                 *)
EnergyIsFair == /\ ChargedOnce
                /\ \A m \in Matches, u \in Users : refunded[m][u] <= charged[m][u]

(* Every registered match, lobby or fight, is eventually torn down, so its  *)
(* players can play again.                                                  *)
EveryMatchEnds == \A m \in Matches : m \in live ~> m \notin live

(* A settlement that was claimed is carried through, even when the task     *)
(* that asked for it is cancelled meanwhile (asyncio.shield); and a fight   *)
(* that had begun (`persisted') when it ended, by a leaver, a forfeit or    *)
(* the clock, is paid -- unless a sweep that saw its lobby cancels its row. *)
ClaimedIsPaid ==
  \A m \in Matches :
    /\ row[m] = "FINISHED" ~> paid[m] > 0
    /\ Status(m) = "FINISHED" /\ match[m].persisted
         ~> paid[m] > 0 \/ row[m] = "CANCELLED"
=============================================================================
