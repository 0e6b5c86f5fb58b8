---------------------------- MODULE MCDuoEngine ----------------------------
(* Small instances of DuoEngine: who owns which socket, and the symmetry    *)
(* among interchangeable ids (safety runs only).                            *)
EXTENDS DuoEngine, TLC

CONSTANTS u1, u2, u3, s1, s2, s3

\* Three users with one socket each.
OneEach == s1 :> u1 @@ s2 :> u2 @@ s3 :> u3

OnePair == s1 :> u1 @@ s2 :> u2

\* Two users, the first of whom may hold two sockets (a reconnect races a drop).
Reconnecting == s1 :> u1 @@ s2 :> u1 @@ s3 :> u2

Pools == Permutations(Loops) \cup Permutations(Graces) \cup Permutations(Matches)

\* With one socket each, a user and their socket are renamed together.
Together(p) == p @@ [s \in Sockets |-> CHOOSE t \in Sockets : Owner[t] = p[Owner[s]]]
PoolsAndPairs == Pools \cup {Together(p) : p \in Permutations(Users)}
=============================================================================
