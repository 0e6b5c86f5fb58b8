------------------------------ MODULE Sessions ------------------------------
(***************************************************************************)
(* One account and its sign-ins (services/auth/auth_service.py,            *)
(* password_reset_service.py, their repositories, and the unique columns   *)
(* of users): registration, password and Google logins, rotation of        *)
(* refresh tokens, logout and the password reset.                          *)
(*                                                                         *)
(* One step is one statement or commit of a request.  Tokens, passwords    *)
(* and the account's one address are opaque; expiry is an event.           *)
(***************************************************************************)
EXTENDS Integers, FiniteSets

CONSTANTS Requests, Tokens, Resets, Passwords, None

SessionsAssumption ==
  None \notin Requests \cup Tokens \cup Resets \cup Passwords

VARIABLES user,     \* the row with the address, None before it exists
          token,    \* refresh_tokens
          reset,    \* password_reset_tokens
          holder,   \* which request holds a token's row lock past a statement
          session   \* what every request does and holds

vars == <<user, token, reset, holder, session>>

User == [hashed_password : Passwords \cup {None}, google_subject : BOOLEAN]
RefreshToken == [state : {"new", "live", "expired", "revoked"}, from : Tokens \cup {None}]
PasswordResetToken == {"new", "active", "used", "revoked", "expired"}
Places == {"idle", "registering", "issuing", "locking", "rotating", "revoking", "subject", "address",
           "joining", "rereading", "storing", "replacing", "signing out", "resetting"}
Session == [at : Places, token : Tokens \cup {None}, reset : Resets \cup {None},
            password : Passwords \cup {None}, seen : SUBSET (Tokens \cup Resets)]

TypeOK == /\ user \in User \cup {None}
          /\ token \in [Tokens -> RefreshToken]
          /\ reset \in [Resets -> PasswordResetToken]
          /\ holder \in [Tokens -> Requests \cup {None}]
          /\ session \in [Requests -> Session]

Idle == [at |-> "idle", token |-> None, reset |-> None, password |-> None, seen |-> {}]

Init == /\ user = None
        /\ token = [t \in Tokens |-> [state |-> "new", from |-> None]]
        /\ reset = [p \in Resets |-> "new"]
        /\ holder = [t \in Tokens |-> None]
        /\ session = [r \in Requests |-> Idle]

Becomes(r, state) == session' = [session EXCEPT ![r] = state]
Goes(r, to)       == Becomes(r, [session[r] EXCEPT !.at = to])
Freed(r)          == [t \in Tokens |-> IF holder[t] = r THEN None ELSE holder[t]]
Ends(r)           == Becomes(r, Idle) /\ holder' = Freed(r)
Unlocked(r, t)    == holder[t] \in {None, r}
Waits             == UNCHANGED <<user, token, reset, holder>>

Unused == {t \in Tokens : token[t].state = "new"}
Live   == {t \in Tokens : token[t].state \in {"live", "expired"}}
Minted == {t \in Unused : t = CHOOSE u \in Unused : TRUE}
Drawn  == LET new == {p \in Resets : reset[p] = "new"} IN {p \in new : p = CHOOSE q \in new : TRUE}

-----------------------------------------------------------------------------
(* register, login, and the token pair they end in.                         *)

register(r, password) ==
  /\ session[r].at = "idle" /\ user = None
  /\ Becomes(r, [Idle EXCEPT !.at = "registering", !.password = password])
  /\ Waits

\* The address is unique: a request that lost the race is refused.
create_user(r) ==
  /\ session[r].at = "registering"
  /\ user' = IF user = None THEN [hashed_password |-> session[r].password, google_subject |-> FALSE]
             ELSE user
  /\ Ends(r)
  /\ UNCHANGED <<token, reset>>

login(r, password) ==
  /\ session[r].at = "idle" /\ user # None /\ user.hashed_password = password
  /\ Becomes(r, [Idle EXCEPT !.at = "issuing"])
  /\ Waits

issue_token_pair(r) ==
  /\ session[r].at = "issuing"
  /\ \E t \in Minted : token' = [token EXCEPT ![t].state = "live"]
  /\ Ends(r)
  /\ UNCHANGED <<user, reset>>

-----------------------------------------------------------------------------
(* refresh and logout.                                                      *)

refresh(r, t) ==
  /\ session[r].at = "idle" /\ token[t].state # "new"
  /\ Becomes(r, [Idle EXCEPT !.at = "locking", !.token = t])
  /\ Waits

\* Mutant: the row is read without its lock.
get_refresh_token_unlocked(r) ==
  /\ session[r].at = "locking"
  /\ IF token[session[r].token].state = "live" THEN Goes(r, "rotating") ELSE Becomes(r, Idle)
  /\ Waits

\* `for_update': the row is read once whoever held it is done.
get_refresh_token_by_hash(r) ==
  LET t == session[r].token IN
  /\ session[r].at = "locking" /\ Unlocked(r, t)
  /\ IF token[t].state = "live"
     THEN Goes(r, "rotating") /\ holder' = [holder EXCEPT ![t] = r]
     ELSE Ends(r)
  /\ UNCHANGED <<user, token, reset>>

\* The old row is revoked and the new one stored in one commit.
rotate(r) ==
  LET old == session[r].token IN
  /\ session[r].at = "rotating" /\ Unlocked(r, old)
  /\ \E t \in Minted : token' = [token EXCEPT ![old].state = "revoked",
                                              ![t] = [state |-> "live", from |-> old]]
  /\ Ends(r)
  /\ UNCHANGED <<user, reset>>

\* No lock: what it read may be revoked by another before it is revoked here.
logout(r, t) ==
  /\ session[r].at = "idle" /\ t \in Live
  /\ Becomes(r, [Idle EXCEPT !.at = "revoking", !.token = t])
  /\ Waits

revoke(r) ==
  /\ session[r].at = "revoking" /\ Unlocked(r, session[r].token)
  /\ token' = [token EXCEPT ![session[r].token].state = "revoked"]
  /\ Ends(r)
  /\ UNCHANGED <<user, reset>>

-----------------------------------------------------------------------------
(* login_with_google: by subject, by address, a new account, by subject.    *)

login_with_google(r) ==
  /\ session[r].at = "idle"
  /\ Becomes(r, [Idle EXCEPT !.at = "subject"])
  /\ Waits

get_user_by_google_subject(r) ==
  /\ session[r].at \in {"subject", "rereading"}
  /\ IF user # None /\ user.google_subject THEN Goes(r, "issuing") /\ UNCHANGED holder
     ELSE IF session[r].at = "subject" THEN Goes(r, "address") /\ UNCHANGED holder
     ELSE Ends(r)
  /\ UNCHANGED <<user, token, reset>>

\* AccountLinkRequired if the address has an owner.
get_user_by_email(r) ==
  /\ session[r].at = "address"
  /\ IF user = None THEN Goes(r, "joining") /\ UNCHANGED holder ELSE Ends(r)
  /\ UNCHANGED <<user, token, reset>>

create_google_user(r) ==
  /\ session[r].at = "joining"
  /\ IF user = None
     THEN user' = [hashed_password |-> None, google_subject |-> TRUE] /\ Goes(r, "issuing")
     ELSE UNCHANGED user /\ Goes(r, "rereading")
  /\ UNCHANGED <<token, reset, holder>>

-----------------------------------------------------------------------------
(* Password reset.                                                          *)

request_password_reset(r) ==
  /\ session[r].at = "idle" /\ user # None /\ user.hashed_password # None
  /\ Becomes(r, [Idle EXCEPT !.at = "storing"])
  /\ Waits

\* The update of the links still open, not yet committed.
revoke_active(r) ==
  /\ session[r].at = "storing"
  /\ Becomes(r, [session[r] EXCEPT !.at = "replacing",
                                   !.seen = {p \in Resets : reset[p] \in {"active", "expired"}}])
  /\ Waits

Claimed(p) == \E r \in Requests : session[r].reset = p

\* What was claimed meanwhile is waited for, and left alone if it was used.
replace_active_token(r) ==
  LET open == {p \in session[r].seen : reset[p] \in {"active", "expired"}} IN
  /\ session[r].at = "replacing" /\ \A p \in open : ~Claimed(p)
  /\ \E new \in Drawn :
       reset' = [p \in Resets |-> IF p = new THEN "active"
                                  ELSE IF p \in open THEN "revoked" ELSE reset[p]]
  /\ Ends(r)
  /\ UNCHANGED <<user, token>>

Replaced(p) == \E r \in Requests : session[r].at = "replacing" /\ p \in session[r].seen

\* The link's row lock is held to the end.
reset_password(r, p, password) ==
  /\ session[r].at = "idle" /\ reset[p] = "active" /\ ~Claimed(p) /\ ~Replaced(p)
  /\ Becomes(r, [Idle EXCEPT !.at = "signing out", !.reset = p, !.password = password])
  /\ Waits

\* The rows the update finds; those a rotation holds are waited for.
revoke_all_for_user(r) ==
  /\ session[r].at = "signing out"
  /\ Becomes(r, [session[r] EXCEPT !.at = "resetting", !.seen = Live])
  /\ Waits

commit_reset(r) ==
  LET me == session[r] IN
  /\ me.at = "resetting" /\ \A t \in me.seen : Unlocked(r, t)
  /\ user' = [user EXCEPT !.hashed_password = me.password]
  /\ reset' = [reset EXCEPT ![me.reset] = "used"]
  /\ token' = [t \in Tokens |-> IF t \in me.seen THEN [token[t] EXCEPT !.state = "revoked"]
                                ELSE token[t]]
  /\ Ends(r)

\* A statement raises or the process dies: nothing uncommitted stays.
Raises(r) == /\ session[r].at # "idle"
             /\ Ends(r)
             /\ UNCHANGED <<user, token, reset>>

expires_at == /\ \/ \E t \in Tokens : /\ token[t].state = "live"
                                      /\ token' = [token EXCEPT ![t].state = "expired"]
                                      /\ UNCHANGED reset
                 \/ \E p \in Resets : /\ reset[p] = "active"
                                      /\ reset' = [reset EXCEPT ![p] = "expired"]
                                      /\ UNCHANGED token
              /\ UNCHANGED <<user, holder, session>>

Next == \/ expires_at
        \/ \E r \in Requests :
             \/ \E password \in Passwords : register(r, password) \/ login(r, password)
             \/ create_user(r) \/ issue_token_pair(r)
             \/ \E t \in Tokens : refresh(r, t) \/ logout(r, t)
             \/ get_refresh_token_by_hash(r) \/ rotate(r) \/ revoke(r)
             \/ login_with_google(r) \/ get_user_by_google_subject(r) \/ get_user_by_email(r)
             \/ create_google_user(r)
             \/ request_password_reset(r) \/ revoke_active(r)
             \/ replace_active_token(r)
             \/ \E p \in Resets, password \in Passwords : reset_password(r, p, password)
             \/ revoke_all_for_user(r) \/ commit_reset(r) \/ Raises(r)

Spec == Init /\ [][Next]_vars

-----------------------------------------------------------------------------
(* A refresh token is exchanged for one successor at most, however many     *)
(* requests present it at once, and is no longer live once it was.          *)
ExchangedOnce ==
  \A t \in Tokens : token[t].from # None
    => /\ token[token[t].from].state = "revoked"
       /\ \A u \in Tokens : token[u].from = token[t].from => u = t

=============================================================================
