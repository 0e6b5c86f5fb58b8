---------------------------- MODULE DuoRegistry ----------------------------
(***************************************************************************)
(* The process-local registry of live duo matches and the matchmaking      *)
(* queue (services/duo/registry.py).  Its methods are plain synchronous    *)
(* mutations, so each is one operator here; DuoEngine calls them from its  *)
(* handlers, always inside the step that holds the registry lock.          *)
(*                                                                         *)
(* A queue entry is the socket that joined: `Owner' says whose it is, and  *)
(* the code keys every queue lookup by user.  Ratings, bands and settings  *)
(* only decide WHICH waiting entry `find_opponent' returns; any entry of   *)
(* another user, or none, is possible for some ratings and waiting times.  *)
(***************************************************************************)
EXTENDS FiniteSets, Naturals

CONSTANTS Users,    \* user ids
          Sockets,  \* websockets, each authenticated as one user
          Owner,    \* the user a socket is authenticated as
          Matches,  \* match ids (uuid4: never reused)
          None      \* Python's None

ASSUME OwnerAssumption == Owner \in [Sockets -> Users]
ASSUME NoneAssumption  == None \notin Users \cup Sockets \cup Matches

VARIABLES queue,    \* _queue, as the set of sockets that are waiting
          live,     \* the keys of _matches
          seat,     \* _user_match
          players   \* LiveMatch.players of each match

registryVars == <<queue, live, seat, players>>

RegistryTypeOK == /\ queue   \subseteq Sockets
                  /\ live    \subseteq Matches
                  /\ seat    \in [Users -> Matches \cup {None}]
                  /\ players \in [Matches -> SUBSET Users]

RegistryInit == /\ queue   = {}
                /\ live    = {}
                /\ seat    = [u \in Users |-> None]
                /\ players = [m \in Matches |-> {}]

-----------------------------------------------------------------------------
EntriesOf(u) == {s \in queue : Owner[s] = u}
IsQueued(u)  == EntriesOf(u) # {}

\* match_of_user: the index entry counts only while the match is registered.
MatchOf(u) == IF seat[u] \in live THEN seat[u] ELSE None

\* is_busy looks at the raw index, registered or not.
IsBusy(u) == seat[u] # None \/ IsQueued(u)

IsFull(m) == Cardinality(players[m]) >= 2

-----------------------------------------------------------------------------

Enqueue(s) == queue' = queue \cup {s}

\* dequeue pops the first entry of the user, whichever socket queued it.
Dequeue(u) == \E e \in EntriesOf(u) : queue' = queue \ {e}

\* The sweep drops every entry that has waited too long, under one lock.
DropStale(stale) == queue' = queue \ stale

\* register a new match (what happens to the queue is the caller's).
Register(m, seated) ==
  /\ live'    = live \cup {m}
  /\ seat'    = [u \in Users |-> IF u \in seated THEN m ELSE seat[u]]
  /\ players' = [players EXCEPT ![m] = seated]

\* A second player takes a seat in a registered room, and is bound to it.
Bind(m, u) == /\ players' = [players EXCEPT ![m] = @ \cup {u}]
              /\ seat'    = [seat EXCEPT ![u] = m]
              /\ UNCHANGED live

\* Mutant: the room goes but its players stay bound to it.
UnregisterRoomOnly(m) == live' = live \ {m} /\ UNCHANGED <<seat, players>>

\* unregister is idempotent, and clears only index entries that still point here.
Unregister(m) ==
  /\ live' = live \ {m}
  /\ seat' = IF m \in live
             THEN [u \in Users |-> IF u \in players[m] /\ seat[u] = m
                                   THEN None ELSE seat[u]]
             ELSE seat
  /\ UNCHANGED players

\* The process dies: everything the registry held is gone.
ForgetRegistry == /\ queue' = {}
                  /\ live'  = {}
                  /\ seat'  = [u \in Users |-> None]
                  /\ UNCHANGED players

-----------------------------------------------------------------------------
(* A user's index entry and the seats of the registered matches tell the   *)
(* same story.  In particular nobody holds a seat in two registered        *)
(* matches, and nobody is left "busy" by a match that is gone              *)
(* (registry.py register/bind_player/unregister, under the engine's lock). *)
SeatsAgree ==
  \A u \in Users, m \in Matches :
    seat[u] = m <=> m \in live /\ u \in players[m]

(* "Two players joining at the same instant can never be paired twice":    *)
(* a user waits in the queue at most once, never while seated, and a       *)
(* registered match never seats a third player.                            *)
PairedOnce ==
  /\ \A e, f \in queue : Owner[e] = Owner[f] => e = f
  /\ \A e \in queue : seat[Owner[e]] = None
  /\ \A m \in live : Cardinality(players[m]) <= 2
=============================================================================
