------------------------------ MODULE Login_proofs ------------------------------
(***************************************************************************)
(* Proofs about the login of one address for any number of concurrent      *)
(* requests and any limits and periods.                                    *)
(***************************************************************************)
EXTENDS Login, FiniteSetTheorems, TLAPS

\* Ages stay within their bounds, and grow while they do.
LEMMA OlderFacts ==
  ASSUME NEW n \in Nat, NEW a \in Ages(n)
  PROVE  /\ Older(a, n) \in Ages(n)
         /\ a <= n => Older(a, n) = a + 1
         /\ a > n => Older(a, n) = a
         /\ 0 \in Ages(n)
  BY DEF Older, Ages

\* A request that has found its user has read a role.
RoleRead ==
  \A h \in Slot : req[h].at \in {"compare", "wrong", "reset", "clear"} => req[h].role \in Role

\* Every step keeps RoleRead.
LEMMA RoleStep == TypeOK /\ RoleRead /\ [Next]_vars => RoleRead'
  <1> SUFFICES ASSUME TypeOK, RoleRead, [Next]_vars PROVE RoleRead'
    OBVIOUS
  <1>1. ASSUME NEW h \in Slot, LoginStep(h) PROVE RoleRead'
    BY <1>1 DEF LoginStep, CheckLoginLockout, CheckRateLimit, FindUser, ComparePassword,
                RecordLoginFailure, ResetRateLimit, ClearLoginAttempts, Goto, Leave, Idle,
                RoleRead, TypeOK
  <1>2. CASE Restart
    BY <1>2 DEF Restart, Idle, RoleRead
  <1>3. ASSUME UNCHANGED req PROVE RoleRead'
    BY <1>3 DEF RoleRead
  <1>4. QED
    BY <1>1, <1>2, <1>3 DEF Next, vars, RefreshToken, UpdateUser, DeleteUser,
                            CleanExpiredAttempts, Tick

\* Every step keeps TypeOK.
LEMMA TypeStep == TypeOK /\ RoleRead /\ [Next]_vars => TypeOK'
  <1> SUFFICES ASSUME TypeOK, RoleRead, [Next]_vars PROVE TypeOK'
    OBVIOUS
  <1> USE LoginAssumption
  <1>0. None \notin [count : Nat \ {0}, age : Ages(Clean)]
        /\ None \notin [count : 1 .. RateMax + 1, age : Ages(RateWindow)]
        /\ None \notin Ages(Clean) /\ 0 \in Ages(Clean) /\ 0 \in Ages(RateWindow)
    BY DEF Ages
  <1>1. ASSUME NEW h \in Slot, CheckLoginLockout(h) PROVE TypeOK'
    BY <1>1 DEF CheckLoginLockout, Goto, TypeOK
  <1>2. ASSUME NEW h \in Slot, CheckRateLimit(h) PROVE TypeOK'
    <2>1. rate' \in [count : 1 .. RateMax + 1, age : Ages(RateWindow)] \cup {None}
      <3>1. CASE RateMax = 0
        BY <1>2, <3>1 DEF CheckRateLimit, TypeOK
      <3>2. CASE RateMax # 0 /\ (rate = None \/ (rate # None /\ rate.age > RateWindow))
        BY <1>0, <1>2, <3>2 DEF CheckRateLimit
      <3>3. CASE RateMax # 0 /\ ~(rate = None \/ (rate # None /\ rate.age > RateWindow))
        <4>1. rate \in [count : 1 .. RateMax + 1, age : Ages(RateWindow)]
          BY <3>3 DEF TypeOK
        <4>2. rate' = [rate EXCEPT !.count = IF @ > RateMax THEN @ ELSE @ + 1]
          BY <1>2, <3>3 DEF CheckRateLimit
        <4>3. (IF rate.count > RateMax THEN rate.count ELSE rate.count + 1) \in 1 .. RateMax + 1
          BY <4>1
        <4>4. QED  BY <4>1, <4>2, <4>3
      <3>4. QED  BY <3>1, <3>2, <3>3
    <2>2. req' \in [Slot -> [at : {"idle", "rate", "find", "compare", "wrong", "reset", "clear"},
                             role : Role \cup {None}]]
      BY <1>2 DEF CheckRateLimit, Goto, Leave, Idle, TypeOK
    <2>3. QED  BY <1>2, <2>1, <2>2 DEF CheckRateLimit, TypeOK
  <1>3. ASSUME NEW h \in Slot, FindUser(h) PROVE TypeOK'
    BY <1>3 DEF FindUser, Leave, Idle, TypeOK
  <1>4. ASSUME NEW h \in Slot, NEW at \in {"wrong", "reset"}, ComparePassword(h, at)
        PROVE  TypeOK'
    BY <1>4 DEF ComparePassword, Goto, TypeOK
  <1>5. ASSUME NEW h \in Slot, RecordLoginFailure(h) PROVE TypeOK'
    <2> DEFINE n == IF failed = None THEN 1 ELSE failed.count + 1
    <2>1. n \in Nat \ {0}
      BY DEF TypeOK
    <2>2. failed' = [count |-> n, age |-> 0] /\ lock' = IF n >= Max THEN 0 ELSE lock
      BY <1>5 DEF RecordLoginFailure
    <2> HIDE DEF n
    <2>3. failed' \in [count : Nat \ {0}, age : Ages(Clean)] /\ lock' \in Ages(Clean) \cup {None}
      BY <1>0, <2>1, <2>2 DEF TypeOK
    <2>4. QED  BY <1>5, <2>3 DEF RecordLoginFailure, Leave, Idle, TypeOK
  <1>6. ASSUME NEW h \in Slot, ResetRateLimit(h) PROVE TypeOK'
    BY <1>6 DEF ResetRateLimit, Goto, TypeOK
  <1>7. ASSUME NEW h \in Slot, ClearLoginAttempts(h) PROVE TypeOK'
    <2>0. req[h].role \in Role /\ 0 \in 0 .. Expire
      BY <1>7 DEF ClearLoginAttempts, RoleRead
    <2>1. tokens' \subseteq [role : Role, age : 0 .. Expire]
      BY <1>7, <2>0 DEF ClearLoginAttempts, TypeOK
    <2>2. QED  BY <1>7, <2>1 DEF ClearLoginAttempts, Leave, Idle, TypeOK
  <1>8. ASSUME NEW t \in tokens, RefreshToken(t) PROVE TypeOK'
    BY <1>8 DEF RefreshToken, vars, TypeOK
  <1>9. ASSUME NEW r \in Role, UpdateUser(r) \/ DeleteUser PROVE TypeOK'
    BY <1>9 DEF UpdateUser, DeleteUser, TypeOK
  <1>10. CASE CleanExpiredAttempts
    BY <1>10 DEF CleanExpiredAttempts, TypeOK
  <1>11. CASE Tick
    <2>1. failed' \in [count : Nat \ {0}, age : Ages(Clean)] \cup {None}
      BY <1>0, <1>11, OlderFacts DEF Tick, TypeOK
    <2>2. rate' \in [count : 1 .. RateMax + 1, age : Ages(RateWindow)] \cup {None}
      BY <1>0, <1>11, OlderFacts DEF Tick, TypeOK
    <2>3. tokens' \subseteq [role : Role, age : 0 .. Expire]
      BY <1>11 DEF Tick, TypeOK
    <2>4. lock' \in Ages(Clean) \cup {None}
      BY <1>11, OlderFacts DEF Tick, TypeOK
    <2>5. QED  BY <1>11, <2>1, <2>2, <2>3, <2>4 DEF Tick, TypeOK
  <1>12. CASE Restart
    BY <1>12 DEF Restart, Idle, TypeOK
  <1>13. CASE UNCHANGED vars
    BY <1>13 DEF vars, TypeOK
  <1>14. QED
    BY <1>1, <1>2, <1>3, <1>4, <1>5, <1>6, <1>7, <1>8, <1>9, <1>10, <1>11, <1>12, <1>13
       DEF Next, LoginStep, Role

\* Type correctness of the tables, the requests and the tokens.
THEOREM TypeCorrect == Spec => []TypeOK
  <1>1. Init => TypeOK /\ RoleRead
    BY LoginAssumption DEF Init, TypeOK, RoleRead, Idle, Role
  <1>2. QED  BY <1>1, TypeStep, RoleStep, PTL DEF Spec

-----------------------------------------------------------------------------

\* The requests that have passed checkLoginLockout and may still record a failure.
InFlight == {h \in Slot : req[h].at # "idle"}

\* The failures on record and those that may still follow.  A request passes
\* the check only while there are fewer than Max, so they cannot exceed what all
\* slots together may add to Max - 1.
GuessInv == failed # None => failed.count + Cardinality(InFlight) <= Max - 1 + Cardinality(Slot)

LEMMA InFlightFinite ==
  /\ IsFiniteSet(Slot) /\ Cardinality(Slot) \in Nat
  /\ IsFiniteSet(InFlight) /\ Cardinality(InFlight) \in Nat
  /\ Cardinality(InFlight) <= Cardinality(Slot)
  <1>1. IsFiniteSet(Slot)  BY LoginAssumption
  <1>2. InFlight \in SUBSET Slot  BY DEF InFlight
  <1>3. QED  BY <1>1, <1>2, FS_Subset, FS_CardinalityType

LEMMA InFlightFinitePrime ==
  /\ IsFiniteSet(InFlight') /\ Cardinality(InFlight') \in Nat
  /\ Cardinality(InFlight') <= Cardinality(Slot)
  <1>1. IsFiniteSet(Slot)  BY LoginAssumption
  <1>2. InFlight' \in SUBSET Slot  BY DEF InFlight
  <1>3. QED  BY <1>1, <1>2, FS_Subset, FS_CardinalityType

\* A step that lets no request past the check and adds no failure keeps GuessInv.
LEMMA GuessQuiet ==
  ASSUME TypeOK, GuessInv, InFlight' \subseteq InFlight, failed' # None,
         failed # None, failed'.count = failed.count
  PROVE  GuessInv'
  <1>1. Cardinality(InFlight') <= Cardinality(InFlight)
    BY InFlightFinite, FS_Subset
  <1>2. failed.count \in Nat
    BY DEF TypeOK
  <1>3. QED
    BY <1>1, <1>2, InFlightFinite, InFlightFinitePrime, LoginAssumption DEF GuessInv

\* Every step keeps GuessInv.
LEMMA GuessStep == TypeOK /\ GuessInv /\ [Next]_vars => GuessInv'
  <1> SUFFICES ASSUME TypeOK, GuessInv, [Next]_vars, failed' # None PROVE GuessInv'
    BY DEF GuessInv
  <1> USE LoginAssumption
  <1>1. ASSUME NEW h \in Slot, CheckLoginLockout(h) PROVE GuessInv'
    <2>1. CASE Locked
      <3>1. InFlight' = InFlight /\ failed' = failed
        BY <1>1, <2>1 DEF CheckLoginLockout, InFlight
      <3>2. QED  BY <3>1, GuessQuiet
    <2>2. CASE ~Locked
      <3>1. failed' = failed /\ failed.count < Max
        BY <1>1, <2>2 DEF CheckLoginLockout, Locked, TypeOK, Ages
      <3>2. failed.count \in Nat
        BY <3>1 DEF TypeOK
      <3>3. QED  BY <3>1, <3>2, InFlightFinitePrime, InFlightFinite DEF GuessInv
    <2>3. QED  BY <2>1, <2>2
  <1>2. ASSUME NEW h \in Slot,
               \/ CheckRateLimit(h) \/ FindUser(h) \/ ResetRateLimit(h)
               \/ \E at \in {"wrong", "reset"} : ComparePassword(h, at)
        PROVE  GuessInv'
    <2>1. failed' = failed
      BY <1>2 DEF CheckRateLimit, FindUser, ResetRateLimit, ComparePassword
    <2>2. req[h].at # "idle" /\ \A k \in Slot \ {h} : req'[k] = req[k]
      BY <1>2 DEF CheckRateLimit, FindUser, ResetRateLimit, ComparePassword, Goto, Leave, TypeOK
    <2>3. InFlight' \subseteq InFlight
      BY <2>2 DEF InFlight
    <2>4. QED  BY <2>1, <2>3, GuessQuiet
  <1>3. ASSUME NEW h \in Slot, RecordLoginFailure(h) PROVE GuessInv'
    <2>1. InFlight' = InFlight \ {h} /\ h \in InFlight
      BY <1>3 DEF RecordLoginFailure, Leave, Idle, InFlight, TypeOK
    <2>2. Cardinality(InFlight') = Cardinality(InFlight) - 1
      BY <2>1, InFlightFinite, FS_RemoveElement
    <2>3. CASE failed = None
      <3>1. failed'.count = 1
        BY <1>3, <2>3 DEF RecordLoginFailure
      <3>2. QED  BY <2>2, <3>1, InFlightFinite DEF GuessInv
    <2>4. CASE failed # None
      <3>1. failed'.count = failed.count + 1
        BY <1>3, <2>4 DEF RecordLoginFailure
      <3>2. failed.count \in Nat
        BY <2>4 DEF TypeOK
      <3>3. QED  BY <2>2, <2>4, <3>1, <3>2, InFlightFinite DEF GuessInv
    <2>5. QED  BY <2>3, <2>4
  <1>4. ASSUME NEW h \in Slot, ClearLoginAttempts(h) PROVE GuessInv'
    BY <1>4 DEF ClearLoginAttempts
  <1>5. CASE CleanExpiredAttempts \/ Restart
    BY <1>5 DEF CleanExpiredAttempts, Restart
  <1>6. CASE Tick
    <2>1. failed # None /\ failed' = [failed EXCEPT !.age = Older(@, Clean)]
      BY <1>6 DEF Tick
    <2>2. failed'.count = failed.count
      BY <2>1 DEF TypeOK
    <2>3. InFlight' = InFlight
      BY <1>6 DEF Tick, InFlight
    <2>4. QED  BY <2>1, <2>2, <2>3, GuessQuiet
  <1>7. ASSUME NEW r \in Role,
               \/ UNCHANGED vars \/ (\E t \in tokens : RefreshToken(t))
               \/ UpdateUser(r) \/ DeleteUser
        PROVE  GuessInv'
    <2>1. failed' = failed /\ req' = req
      BY <1>7 DEF vars, RefreshToken, UpdateUser, DeleteUser
    <2>2. InFlight' = InFlight
      BY <2>1 DEF InFlight
    <2>3. QED  BY <2>1, <2>2, GuessQuiet
  <1>8. QED
    BY <1>1, <1>2, <1>3, <1>4, <1>5, <1>6, <1>7 DEF Next, LoginStep, Role

\* For any number of requests at once, an address gets at most Max - 1 wrong
\* passwords and one for each slot compared before it is locked.
THEOREM GuessesBounded == Spec => []BoundedGuesses
  <1>1. Init => GuessInv
    BY DEF Init, GuessInv
  <1>2. TypeOK /\ GuessInv => BoundedGuesses
    <2> SUFFICES ASSUME TypeOK, GuessInv, failed # None
                 PROVE  failed.count <= Max - 1 + Cardinality(Slot)
      BY DEF BoundedGuesses
    <2>1. failed.count \in Nat
      BY DEF TypeOK
    <2>2. QED  BY <2>1, InFlightFinite, LoginAssumption DEF GuessInv
  <1>3. QED  BY <1>1, <1>2, TypeCorrect, GuessStep, PTL DEF Spec

-----------------------------------------------------------------------------

\* While a lockout has not run out, its entry is in the table and as young as
\* the failure that caused it.
LockInv ==
  lock # None /\ lock <= Lockout => failed # None /\ failed.count >= Max /\ failed.age <= lock

\* Every step keeps LockInv.
LEMMA LockStep == TypeOK /\ LockInv /\ [Next]_vars => LockInv'
  <1> SUFFICES ASSUME TypeOK, LockInv, [Next]_vars, lock' # None, lock' <= Lockout
               PROVE  failed' # None /\ failed'.count >= Max /\ failed'.age <= lock'
    BY DEF LockInv
  <1> DEFINE Goal == failed' # None /\ failed'.count >= Max /\ failed'.age <= lock'
  <1> USE LoginAssumption
  <1>0. lock = None \/ lock \in Nat
    BY DEF TypeOK, Ages
  <1>1. ASSUME NEW h \in Slot, CheckLoginLockout(h) PROVE Goal
    <2>1. lock # None /\ lock <= Lockout /\ failed # None /\ failed.age <= lock /\ failed.count >= Max
      BY <1>1 DEF CheckLoginLockout, LockInv
    <2>2. failed.age \in Nat
      BY <2>1 DEF TypeOK, Ages
    <2>3. failed.age <= Lockout
      BY <1>0, <2>1, <2>2
    <2>4. Locked
      BY <2>1, <2>3 DEF Locked
    <2>5. failed' = failed /\ lock' = lock
      BY <1>1, <2>4 DEF CheckLoginLockout
    <2>6. QED  BY <2>1, <2>5
  <1>2. ASSUME NEW h \in Slot, RecordLoginFailure(h) PROVE Goal
    <2> DEFINE n == IF failed = None THEN 1 ELSE failed.count + 1
    <2>1. failed' = [count |-> n, age |-> 0] /\ lock' = IF n >= Max THEN 0 ELSE lock
      BY <1>2 DEF RecordLoginFailure
    <2>2. n >= Max
      <3> SUFFICES ASSUME ~(n >= Max) PROVE FALSE
        OBVIOUS
      <3>1. lock' = lock
        BY <2>1
      <3>2. failed # None /\ failed.count >= Max
        BY <3>1 DEF LockInv
      <3>3. failed.count \in Nat
        BY <3>2 DEF TypeOK
      <3>4. QED  BY <3>2, <3>3
    <2> HIDE DEF n
    <2>3. failed'.count = n /\ failed'.age = 0 /\ lock' = 0
      BY <2>1, <2>2
    <2>4. failed' # None
      <3>1. n \in Nat
        BY DEF n, TypeOK
      <3>2. [count |-> n, age |-> 0] \in [count : Nat, age : Nat]
        BY <3>1
      <3>3. QED  BY <2>1, <3>2
    <2>5. QED  BY <2>2, <2>3, <2>4
  <1>3. ASSUME NEW h \in Slot, ClearLoginAttempts(h) PROVE Goal
    BY <1>3 DEF ClearLoginAttempts
  <1>4. CASE CleanExpiredAttempts
    <2>1. lock' = lock /\ failed # None /\ failed.age > Clean
      BY <1>4 DEF CleanExpiredAttempts
    <2>2. failed.age \in Nat
      BY <2>1 DEF TypeOK, Ages
    <2>3. lock \in Nat /\ lock <= Lockout /\ failed.age <= lock
      BY <1>0, <2>1 DEF LockInv
    <2>4. QED  BY <2>1, <2>2, <2>3
  <1>5. CASE Tick
    <2>1. lock # None /\ lock' = Older(lock, Clean) /\ lock \in Ages(Clean)
      BY <1>5 DEF Tick, TypeOK
    <2>2. lock \in Nat /\ lock' = lock + 1 /\ lock < Lockout
      <3>1. lock \in Nat /\ lock <= Clean + 1
        BY <2>1 DEF Ages
      <3>2. CASE lock <= Clean
        <4>1. lock' = lock + 1
          BY <2>1, <3>2, OlderFacts
        <4>2. QED  BY <3>1, <4>1
      <3>3. CASE lock > Clean
        <4>1. lock' = lock
          BY <2>1, <3>3, OlderFacts
        <4>2. QED  BY <3>1, <3>3, <4>1
      <3>4. QED  BY <3>1, <3>2, <3>3
    <2>3. failed # None /\ failed.count >= Max /\ failed.age <= lock
      BY <2>1, <2>2 DEF LockInv
    <2>4. failed \in [count : Nat \ {0}, age : Ages(Clean)]
      BY <2>3 DEF TypeOK
    <2>5. failed' = [failed EXCEPT !.age = Older(@, Clean)]
      BY <1>5, <2>3 DEF Tick
    <2>6. failed.age \in Ages(Clean) /\ failed.age \in Nat /\ failed.age <= Clean
      BY <2>2, <2>3, <2>4 DEF Ages
    <2>7. Older(failed.age, Clean) = failed.age + 1
      BY <2>6, OlderFacts
    <2>8. failed' \in [count : Nat, age : Nat] /\ failed'.count = failed.count /\ failed'.age = failed.age + 1
      BY <2>4, <2>5, <2>6, <2>7
    <2>9. QED  BY <2>2, <2>3, <2>6, <2>8
  <1>6. CASE Restart
    BY <1>6 DEF Restart
  <1>7. ASSUME NEW h \in Slot, NEW r \in Role,
               \/ UNCHANGED vars \/ (\E t \in tokens : RefreshToken(t))
               \/ UpdateUser(r) \/ DeleteUser
               \/ CheckRateLimit(h) \/ FindUser(h) \/ ResetRateLimit(h)
               \/ \E at \in {"wrong", "reset"} : ComparePassword(h, at)
        PROVE  Goal
    <2>1. failed' = failed /\ lock' = lock
      BY <1>7 DEF vars, RefreshToken, UpdateUser, DeleteUser, CheckRateLimit, FindUser,
                  ResetRateLimit, ComparePassword
    <2>2. QED  BY <2>1 DEF LockInv
  <1>8. ASSUME NEW r \in Role,
               \/ UNCHANGED vars \/ (\E t \in tokens : RefreshToken(t))
               \/ UpdateUser(r) \/ DeleteUser
        PROVE  Goal
    <2>1. failed' = failed /\ lock' = lock
      BY <1>8 DEF vars, RefreshToken, UpdateUser, DeleteUser
    <2>2. QED  BY <2>1 DEF LockInv
  <1>9. QED
    BY <1>1, <1>2, <1>3, <1>4, <1>5, <1>6, <1>7, <1>8 DEF Next, LoginStep, Role

\* No request passes the check before the lockout is over, for any limits and
\* any number of requests at once.
THEOREM LockoutHolds == Spec => LockoutLasts
  <1>1. Init => LockInv
    BY DEF Init, LockInv
  <1>2. ASSUME TypeOK, LockInv, [Next]_vars
        PROVE  \A h \in Slot :
                  req[h].at = "idle" /\ req'[h].at = "rate" => lock = None \/ lock > Lockout
    <2> SUFFICES ASSUME NEW h \in Slot, req[h].at = "idle", req'[h].at = "rate",
                        lock # None, ~(lock > Lockout)
                 PROVE  FALSE
      OBVIOUS
    <2>0. lock \in Ages(Clean)
      BY <1>2 DEF TypeOK
    <2>1. lock \in Nat /\ lock <= Lockout
      BY <2>0, LoginAssumption DEF Ages
    <2>2. failed # None /\ failed.count >= Max /\ failed.age <= lock
      BY <1>2, <2>1 DEF LockInv
    <2>3. failed.age \in Nat
      BY <1>2, <2>2 DEF TypeOK, Ages
    <2>4. Locked
      BY <2>1, <2>2, <2>3, LoginAssumption DEF Locked
    <2>5. \A k \in Slot : CheckLoginLockout(k) => req' = req
      BY <2>4 DEF CheckLoginLockout
    <2>6. \A k \in Slot : LoginStep(k) => req' = req \/ (req[k].at # "idle" /\ req'[h] = req[h])
      BY <1>2, <2>5 DEF LoginStep, CheckRateLimit, FindUser, ComparePassword, RecordLoginFailure,
                  ResetRateLimit, ClearLoginAttempts, Goto, Leave, TypeOK
    <2>7. CASE Restart
      BY <2>7 DEF Restart, Idle
    <2>8. CASE ~Restart
      <3>1. req'[h] = req[h]
        BY <1>2, <2>6, <2>8 DEF Next, vars, RefreshToken, UpdateUser, DeleteUser,
                          CleanExpiredAttempts, Tick
      <3>2. QED  BY <3>1
    <2>9. QED  BY <2>7, <2>8
  <1>3. QED  BY <1>1, <1>2, TypeCorrect, LockStep, PTL DEF Spec, LockoutLasts

=============================================================================
