-------------------------------- MODULE Login --------------------------------
(***************************************************************************)
(* Login of Web users on one server: the lockout and rate-limit tables of  *)
(* server/controllers/login_lockout.go, LoginHandler and                   *)
(* RefreshTokenHandler (auth.go), the check of tokens (middleware.go) and  *)
(* the administration of the account (tenants.go).                         *)
(*                                                                         *)
(* The tables are keyed by the client's address and entries of different   *)
(* addresses never meet, so one address and one account are modelled.      *)
(* LoginHandler takes a mutex for each access to a table and not across    *)
(* them; every access is an action and Slot requests may be under way at   *)
(* once.  Times are ages in ticks, kept no further than they matter.       *)
(***************************************************************************)
EXTENDS Integers, FiniteSets

CONSTANTS
    Slot,       \* login requests that may be under way at once
    Max,        \* security.max_login_attempts
    Lockout,    \* security.login_lockout_sec
    Clean,      \* the age main passes to CleanExpiredAttempts
    RateMax,    \* security.rate_limit_per_min, 0 for none
    RateWindow, \* rateWindowSec
    Expire,     \* jwt.expire_hour
    None

ASSUME LoginAssumption ==
    /\ Max \in Nat \ {0} /\ Lockout \in Nat \ {0}
    /\ Clean \in Nat /\ Clean >= Lockout
    /\ RateMax \in Nat /\ RateWindow \in Nat /\ Expire \in Nat
    /\ IsFiniteSet(Slot)
    /\ None \notin Nat /\ None \notin [count : Nat, age : Nat]

Role == {"admin", "member"}

VARIABLES
    failed,  \* the entry of failedAttempts, or None
    rate,    \* the entries of rateCounters and rateWindows, or None
    req,     \* req[h]: where request h is, and the role it has read
    account, \* the role in the users row, or "deleted"
    tokens,  \* the signed tokens that clients hold and that have not expired
    lock     \* history: age of the failure that last reached Max, or None

vars == <<failed, rate, req, account, tokens, lock>>

Idle == [at |-> "idle", role |-> None]

Ages(n) == 0 .. n + 1

TypeOK ==
    /\ failed \in [count : Nat \ {0}, age : Ages(Clean)] \cup {None}
    /\ rate \in [count : 1 .. RateMax + 1, age : Ages(RateWindow)] \cup {None}
    /\ req \in [Slot -> [at : {"idle", "rate", "find", "compare", "wrong", "reset", "clear"},
                         role : Role \cup {None}]]
    /\ account \in Role \cup {"deleted"}
    /\ tokens \subseteq [role : Role, age : 0 .. Expire]
    /\ lock \in Ages(Clean) \cup {None}

\* The account that seeding creates.
Init ==
    /\ failed = None /\ rate = None
    /\ req = [h \in Slot |-> Idle]
    /\ account = "admin"
    /\ tokens = {}
    /\ lock = None

Goto(h, at) == req' = [req EXCEPT ![h].at = at]

Leave(h) == req' = [req EXCEPT ![h] = Idle]

-----------------------------------------------------------------------------
\* LoginHandler.

\* Mutant: one failure more is needed.
LockedLate == failed # None /\ failed.age <= Lockout /\ failed.count > Max

Locked == failed # None /\ failed.age <= Lockout /\ failed.count >= Max

\* Mutant: a refused request counts as another failure.
CheckLoginLockoutExtending(h) ==
    /\ req[h].at = "idle"
    /\ IF Locked
       THEN failed' = [failed EXCEPT !.age = 0] /\ UNCHANGED req
       ELSE /\ failed' = IF failed # None /\ failed.age > Lockout THEN None ELSE failed
            /\ Goto(h, "rate")
    /\ UNCHANGED <<rate, account, tokens, lock>>

\* A request arrives.  A locked address is refused and the entry is left as it
\* is; an entry past its time is removed.
CheckLoginLockout(h) ==
    /\ req[h].at = "idle"
    /\ IF Locked
       THEN UNCHANGED <<failed, req>>
       ELSE /\ failed' = IF failed # None /\ failed.age > Lockout THEN None ELSE failed
            /\ Goto(h, "rate")
    /\ UNCHANGED <<rate, account, tokens, lock>>

\* Mutant: the request that opens a window is not counted.
CheckRateLimitFromZero(h) ==
    /\ req[h].at = "rate"
    /\ IF rate = None \/ (rate # None /\ rate.age > RateWindow)
       THEN rate' = [count |-> 0, age |-> 0] /\ Goto(h, "find")
       ELSE /\ rate' = [rate EXCEPT !.count = IF @ > RateMax THEN @ ELSE @ + 1]
            /\ IF rate.count + 1 > RateMax THEN Leave(h) ELSE Goto(h, "find")
    /\ UNCHANGED <<failed, account, tokens, lock>>

\* The window is fixed: it starts with the first request after the last one
\* ended.  The counter is kept no further than one past the limit.
CheckRateLimit(h) ==
    /\ req[h].at = "rate"
    /\ IF RateMax = 0
       THEN UNCHANGED rate /\ Goto(h, "find")
       ELSE IF rate = None \/ (rate # None /\ rate.age > RateWindow)
       THEN rate' = [count |-> 1, age |-> 0] /\ Goto(h, "find")
       ELSE /\ rate' = [rate EXCEPT !.count = IF @ > RateMax THEN @ ELSE @ + 1]
            /\ IF rate.count + 1 > RateMax THEN Leave(h) ELSE Goto(h, "find")
    /\ UNCHANGED <<failed, account, tokens, lock>>

\* The body is decoded and the user is read.  A malformed request and a name
\* that is not found are answered at once and are not recorded as failures.
FindUser(h) ==
    /\ req[h].at = "find"
    /\ \/ Leave(h)
       \/ /\ account # "deleted"
          /\ req' = [req EXCEPT ![h] = [at |-> "compare", role |-> account]]
    /\ UNCHANGED <<failed, rate, account, tokens, lock>>

ComparePassword(h, at) ==
    /\ req[h].at = "compare"
    /\ Goto(h, at)
    /\ UNCHANGED <<failed, rate, account, tokens, lock>>

RecordLoginFailure(h) ==
    /\ req[h].at = "wrong"
    /\ LET n == IF failed = None THEN 1 ELSE failed.count + 1
       IN  /\ failed' = [count |-> n, age |-> 0]
           /\ lock' = IF n >= Max THEN 0 ELSE lock
    /\ Leave(h)
    /\ UNCHANGED <<rate, account, tokens>>

ResetRateLimit(h) ==
    /\ req[h].at = "reset"
    /\ rate' = None
    /\ Goto(h, "clear")
    /\ UNCHANGED <<failed, account, tokens, lock>>

\* The failures are forgotten and the token is signed, with the role that was
\* read with the user.
ClearLoginAttempts(h) ==
    /\ req[h].at = "clear"
    /\ failed' = None /\ lock' = None
    /\ tokens' = tokens \cup {[role |-> req[h].role, age |-> 0]}
    /\ Leave(h)
    /\ UNCHANGED <<rate, account>>

-----------------------------------------------------------------------------
\* Requests with a token.

\* AuthMiddleware accepts any token whose signature and time are good; neither
\* it nor the user handlers look at the users row of the caller.
Authenticated == tokens # {}

\* Mutant: the handler has the claims of the old token and signs new ones.
RefreshTokenServed(t) ==
    /\ t \in tokens /\ account # "deleted"
    /\ tokens' = tokens \cup {[role |-> t.role, age |-> 0]}
    /\ UNCHANGED <<failed, rate, req, account, lock>>

\* The path is public, so AuthMiddleware puts no user into the context, the
\* type assertion panics and RecoveryMiddleware answers 500.
RefreshToken(t) ==
    /\ t \in tokens
    /\ UNCHANGED vars

UpdateUser(r) ==
    /\ Authenticated /\ account # "deleted"
    /\ account' = r
    /\ UNCHANGED <<failed, rate, req, tokens, lock>>

\* A soft deletion.  The unique index on the name covers deleted rows, so the
\* account cannot be created again.
DeleteUser ==
    /\ Authenticated /\ account # "deleted"
    /\ account' = "deleted"
    /\ UNCHANGED <<failed, rate, req, tokens, lock>>

-----------------------------------------------------------------------------

\* Mutant: the sweep drops entries a tick before their time.
CleanExpiredAttemptsEarly ==
    /\ failed # None /\ failed.age >= Lockout
    /\ failed' = None
    /\ UNCHANGED <<rate, req, account, tokens, lock>>

\* The sweep of main, every five minutes.
CleanExpiredAttempts ==
    /\ failed # None /\ failed.age > Clean
    /\ failed' = None
    /\ UNCHANGED <<rate, req, account, tokens, lock>>

Older(a, n) == IF a > n THEN a ELSE a + 1

Tick ==
    /\ failed' = IF failed = None THEN None ELSE [failed EXCEPT !.age = Older(@, Clean)]
    /\ rate' = IF rate = None THEN None ELSE [rate EXCEPT !.age = Older(@, RateWindow)]
    /\ tokens' = {[t EXCEPT !.age = @ + 1] : t \in {u \in tokens : u.age < Expire}}
    /\ lock' = IF lock = None THEN None ELSE Older(lock, Clean)
    /\ UNCHANGED <<req, account>>

\* The tables and the requests under way are lost; signed tokens stay good.
Restart ==
    /\ failed' = None /\ rate' = None /\ lock' = None
    /\ req' = [h \in Slot |-> Idle]
    /\ UNCHANGED <<account, tokens>>

-----------------------------------------------------------------------------

LoginStep(h) ==
    \/ CheckLoginLockout(h)
    \/ CheckRateLimit(h)
    \/ FindUser(h)
    \/ \E at \in {"wrong", "reset"} : ComparePassword(h, at)
    \/ RecordLoginFailure(h)
    \/ ResetRateLimit(h)
    \/ ClearLoginAttempts(h)

Next ==
    \/ \E h \in Slot : LoginStep(h)
    \/ \E t \in tokens : RefreshToken(t)
    \/ \E r \in Role : UpdateUser(r)
    \/ DeleteUser
    \/ CleanExpiredAttempts
    \/ Tick
    \/ Restart

\* Time passes, handlers run to their end, and the client keeps sending.
Fairness == WF_vars(Tick) /\ \A h \in Slot : WF_vars(LoginStep(h))

Spec == Init /\ [][Next]_vars /\ Fairness

-----------------------------------------------------------------------------
\* Properties.

\* However requests overlap, an address gets at most Max wrong passwords
\* compared before it is locked, and one more for each further request that had
\* passed checkLoginLockout by then.
BoundedGuesses ==
    failed # None => failed.count <= Max - 1 + Cardinality(Slot)

\* A lockout lasts: while login_lockout_sec have not passed since the failure
\* that reached the limit, no request gets past checkLoginLockout, unless the
\* process restarted or a login that was already under way succeeded.
LockoutLasts ==
    [][\A h \in Slot :
          req[h].at = "idle" /\ req'[h].at = "rate" => lock = None \/ lock > Lockout]_vars

GoodLoginsOnly ==
    [][/\ \A h \in Slot : ~ComparePassword(h, "wrong")
       /\ \A h \in Slot : ~(FindUser(h) /\ req'[h].at = "idle")
       /\ ~Restart]_vars

\* Neither lockout nor rate limit shuts a client out for good: when from some
\* time on only complete requests with the right password arrive, logins
\* succeed again and again, though refused requests keep coming as well.
RightPasswordGetsIn ==
    <>[](account # "deleted") /\ <>GoodLoginsOnly
        => []<><<\E h \in Slot : ClearLoginAttempts(h)>>_vars

\* A change of role and a deletion take effect: though AuthMiddleware trusts the
\* claims alone, no token with other claims is good for ever.
ChangesTakeEffect ==
    \A r \in Role \cup {"deleted"} :
        <>[](account = r) => <>[](\A t \in tokens : t.role = r)

=============================================================================
