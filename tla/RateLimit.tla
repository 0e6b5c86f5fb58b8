------------------------------ MODULE RateLimit ------------------------------
(***************************************************************************)
(* The two limits of core/rate_limit.py.                                   *)
(*                                                                         *)
(* The sliding-window counter of one key (SlidingWindowLimiter).  Nothing  *)
(* awaits, so a hit and a prune are one step each.  The clock counts whole *)
(* seconds from a window's start, and weights are multiples of             *)
(* 1 / window_seconds.                                                     *)
(*                                                                         *)
(* Flood control of one socket's frames (TokenBucket, and FrameThrottle of *)
(* api/rate_limit.py), on a clock of its own that counts whole ticks.      *)
(***************************************************************************)
EXTENDS Integers

CONSTANTS Rules,     \* what keys may be limited to
          MaxKeyClock,     \* bound: how far the clock of the key runs
          Rate, Burst,     \* tokens a tick, and at most
          MaxSocketClock,  \* bound: how far the clock of the socket runs
          None

RateLimit == [limit : Nat \ {0}, window_seconds : Nat \ {0}]

Window == [start : 0..MaxKeyClock, current : Nat, previous : Nat]

RateLimitAssumption == /\ Rules \subseteq RateLimit /\ MaxKeyClock \in Nat
                       /\ {Rate, Burst, MaxSocketClock} \subseteq Nat \ {0}
                       /\ None \notin Window

VARIABLES rule,      \* of the key
          now,
          window,    \* of the key, None without an entry
          accepted,  \* history: hits accepted up to each second
          socket_now, tokens, last, warned,
          frames,    \* history: frames allowed up to each tick
          told       \* history: warnings sent since a frame was last allowed

key_vars    == <<rule, now, window, accepted>>
socket_vars == <<socket_now, tokens, last, warned, frames, told>>

Limit         == rule.limit
WindowSeconds == rule.window_seconds

Second == 0..MaxKeyClock

KeyTypeOK == /\ rule \in Rules /\ now \in Second
             /\ window \in Window \cup {None}
             /\ accepted \in [Second -> Nat]

KeyInit == rule \in Rules /\ now = 0 /\ window = None /\ accepted = [s \in Second |-> 0]

\* One more from t on in a count f of what there was up to each instant.
OneMore(f, t) == [s \in DOMAIN f |-> IF s >= t THEN f[s] + 1 ELSE f[s]]

\* What f counts from instant a to instant b.
Upto(f, t)     == IF t < 0 THEN 0 ELSE f[t]
Total(f, a, b) == Upto(f, b) - Upto(f, a - 1)

-----------------------------------------------------------------------------
(* One key.                                                                 *)

StartOf(t) == t - (t % WindowSeconds)

\* The window a hit at t counts in.
CurrentWindow(w, t) ==
  IF w = None THEN [start |-> StartOf(t), current |-> 0, previous |-> 0]
  ELSE IF w.start = StartOf(t) THEN w
  ELSE [start |-> StartOf(t), current |-> 0,
        previous |-> IF StartOf(t) - w.start = WindowSeconds THEN w.current ELSE 0]

\* previous * weight + current + 1 <= limit
Admits(w, t) ==
  w.previous * (WindowSeconds - (t - w.start)) + (w.current + 1) * WindowSeconds
    <= Limit * WindowSeconds

Ceil(a, b)    == (a + b - 1) \div b
AtLeast1(n)   == IF n < 1 THEN 1 ELSE n

\* A full window becomes the previous one and decays; otherwise the previous one does.
retry_after(w, t) ==
  AtLeast1(IF w.current + 1 > Limit
           THEN w.start + WindowSeconds - t
                  + (IF w.current = 0 THEN 0
                     ELSE Ceil(WindowSeconds * (w.current - (Limit - 1)), w.current))
           ELSE w.start - t + Ceil(WindowSeconds * (w.previous - (Limit - 1 - w.current)), w.previous))

hit == LET w == CurrentWindow(window, now) IN
       /\ IF Admits(w, now)
          THEN /\ window' = [w EXCEPT !.current = @ + 1]
               /\ accepted' = OneMore(accepted, now)
          ELSE window' = w /\ UNCHANGED accepted
       /\ UNCHANGED <<rule, now>>

\* Mutant: an entry goes as soon as its window is over.
IsStale_early(w, t) == w # None /\ t >= w.start + WindowSeconds

IsStale(w, t) == w # None /\ t >= w.start + 2 * WindowSeconds

prune == /\ IsStale(window, now)
         /\ window' = None
         /\ UNCHANGED <<rule, now, accepted>>

-----------------------------------------------------------------------------
KeyTick == now < MaxKeyClock /\ now' = now + 1 /\ UNCHANGED <<rule, window, accepted>>

KeyNext == hit \/ prune \/ KeyTick

-----------------------------------------------------------------------------
(* One socket.                                                              *)

Tick == 0..MaxSocketClock

SocketTypeOK == /\ socket_now \in Tick /\ last \in Tick
                /\ tokens \in 0..Burst
                /\ warned \in BOOLEAN
                /\ frames \in [Tick -> Nat] /\ told \in Nat

SocketInit == /\ socket_now = 0 /\ tokens = Burst /\ last = 0 /\ warned = FALSE
              /\ frames = [t \in Tick |-> 0] /\ told = 0

Refilled == LET saved == tokens + (socket_now - last) * Rate
            IN IF saved > Burst THEN Burst ELSE saved

allow == /\ Refilled >= 1
         /\ tokens' = Refilled - 1 /\ last' = socket_now /\ warned' = FALSE
         /\ frames' = OneMore(frames, socket_now) /\ told' = 0
         /\ UNCHANGED socket_now

\* A refused frame, and the one warning of a run of them.
should_warn == /\ Refilled < 1
               /\ tokens' = Refilled /\ last' = socket_now /\ warned' = TRUE
               /\ told' = IF warned THEN told ELSE told + 1
               /\ UNCHANGED <<socket_now, frames>>

SocketTick == /\ socket_now < MaxSocketClock /\ socket_now' = socket_now + 1
              /\ UNCHANGED <<tokens, last, warned, frames, told>>

SocketNext == allow \/ should_warn \/ SocketTick

-----------------------------------------------------------------------------
(* A refused caller that waits as long as it is told is let in, and not a   *)
(* second later than it could have been.                                    *)
RetryIsExact ==
  LET w == CurrentWindow(window, now)
      AdmitsAt(t) == Admits(CurrentWindow(w, t), t)
  IN ~Admits(w, now) => /\ AdmitsAt(now + retry_after(w, now))
                        /\ retry_after(w, now) > 1 => ~AdmitsAt(now + retry_after(w, now) - 1)

(* Neither a boundary between windows nor a pruned entry lets more in: any  *)
(* window_seconds in a row accept less than twice the limit, and any window *)
(* by itself at most the limit.                                             *)
WithinLimits ==
  /\ \A s \in Second : (s % WindowSeconds = 0 /\ s + WindowSeconds - 1 \in Second)
                         => Total(accepted, s, s + WindowSeconds - 1) <= Limit
  /\ \A s \in Second : s + WindowSeconds - 1 \in Second
                         => Total(accepted, s, s + WindowSeconds - 1) < 2 * Limit

(* No stretch of time lets more frames through than the burst and what the  *)
(* rate adds over it, however long the socket was silent before, and a run  *)
(* of refused frames is answered once.                                      *)
FramesArePaced ==
  /\ \A a, b \in Tick : a <= b => Total(frames, a, b) <= Burst + (b - a) * Rate
  /\ told <= 1
=============================================================================
