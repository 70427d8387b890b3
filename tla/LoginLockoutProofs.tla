------------------------- MODULE LoginLockoutProofs -------------------------
(***************************************************************************)
(* Proofs, for any number of logins, any limit and any duration of lock    *)
(* and login, of the invariants of LoginLockout.                           *)
(***************************************************************************)
EXTENDS LoginLockout, TLAPS

IInv == TypeOK /\ CountIsExactUnlessRaced

LEMMA InitCorrect == Init => IInv
<1> SUFFICES ASSUME Init PROVE IInv
  OBVIOUS
<1>1. limit \in Nat \ {0} /\ LockTicks \in Nat \ {0} /\ RequestTicks \in Nat
  BY LimitsAssumption, LockTicksAssumption, RequestTicksAssumption DEF Init
<1>2. /\ 0 \in 0..(limit - 1) /\ 0 \in 0..limit
      /\ 0 \in 0..LockTicks /\ 0 \in 0..RequestTicks
  BY <1>1
<1>3. QED
  BY <1>2 DEF Init, IInv, TypeOK, CountIsExactUnlessRaced, Idle

\* The outcome of a failure keeps the counter below the limit, and tells a lock
\* from a count.
LEMMA RecordedBounds ==
    ASSUME limit \in Nat \ {0}, NEW n \in 0..(limit - 1)
    PROVE  /\ Recorded(n).attempts \in 0..(limit - 1)
           /\ Recorded(n).lock \in {0, LockTicks}
           /\ Recorded(n).lock = 0 => Recorded(n).attempts = n + 1
BY LockTicksAssumption DEF Recorded

LEMMA NextCorrect == IInv /\ [Next]_vars => IInv'
<1> SUFFICES ASSUME IInv, [Next]_vars PROVE IInv'
  OBVIOUS
<1>1. limit \in Nat \ {0} /\ LockTicks \in Nat \ {0} /\ RequestTicks \in Nat
  BY LimitsAssumption, LockTicksAssumption, RequestTicksAssumption DEF IInv, TypeOK
<1> DEFINE Login == [step : {"idle", "verify"}, attempts : 0..(limit - 1),
                     lock : 0..LockTicks, age : 0..RequestTicks]
<1>2. /\ 0 \in 0..(limit - 1) /\ 0 \in 0..limit
      /\ 0 \in 0..LockTicks /\ 0 \in 0..RequestTicks
      /\ Idle \in Login
  BY <1>1 DEF Idle
<1>3. ASSUME NEW r \in Requests, ReadUser(r) PROVE IInv'
  <2>1. [step |-> "verify", attempts |-> attempts, lock |-> lock, age |-> 0] \in Login
    BY <1>1 DEF IInv, TypeOK
  <2>2. QED BY <1>3, <2>1 DEF ReadUser, IInv, TypeOK, CountIsExactUnlessRaced
<1>4. ASSUME NEW r \in Requests, RecordFailedLogin(r) PROVE IInv'
  <2> DEFINE n == request[r].attempts
             row == Recorded(n)
  <2>1. /\ attempts' = row.attempts
        /\ lock' = row.lock
        /\ streak' = IF row.lock > 0 THEN 0
                     ELSE IF streak < limit THEN streak + 1 ELSE streak
        /\ locked' = IF row.lock > 0 THEN locked ELSE 0
        /\ raced' = (row.lock = 0 /\ (raced \/ n # attempts))
        /\ request' = [request EXCEPT ![r] = Idle] /\ limit' = limit
    BY <1>4 DEF RecordFailedLogin, Finish
  <2>2. n \in 0..(limit - 1) /\ attempts \in 0..(limit - 1) /\ streak \in 0..limit
    BY DEF IInv, TypeOK
  <2>3. /\ row.attempts \in 0..(limit - 1)
        /\ row.lock \in {0, LockTicks}
        /\ row.lock = 0 => row.attempts = n + 1
    BY <1>1, <2>2, RecordedBounds
  <2> HIDE DEF row, n
  <2>4. TypeOK'
    BY <1>1, <1>2, <2>1, <2>2, <2>3 DEF IInv, TypeOK
  <2>5. CASE row.lock = 0
    <3>1. ASSUME ~raced' PROVE attempts' = streak'
      <4>1. attempts = streak /\ n = attempts
        BY <2>1, <2>5, <3>1 DEF IInv, CountIsExactUnlessRaced
      <4>2. QED BY <1>1, <2>1, <2>2, <2>3, <2>5, <4>1
    <3>2. QED BY <2>4, <3>1 DEF IInv, CountIsExactUnlessRaced
  <2>6. CASE row.lock # 0
    <3>1. row.lock > 0 /\ row.attempts = 0
      BY <1>1, <2>3, <2>6 DEF Recorded, row
    <3>2. QED BY <2>1, <2>4, <3>1 DEF IInv, CountIsExactUnlessRaced
  <2>7. QED BY <2>5, <2>6
<1>5. ASSUME NEW r \in Requests, Refuse(r) \/ Abort(r) PROVE IInv'
  BY <1>2, <1>5 DEF Refuse, Abort, Finish, IInv, TypeOK, CountIsExactUnlessRaced
<1>6. ASSUME NEW r \in Requests, LoginSucceeds(r) PROVE IInv'
  BY <1>2, <1>6 DEF LoginSucceeds, Clear, Finish, IInv, TypeOK, CountIsExactUnlessRaced
<1>7. CASE ClearedElsewhere
  BY <1>2, <1>7 DEF ClearedElsewhere, Clear, IInv, TypeOK, CountIsExactUnlessRaced
<1>8. CASE Tick
  <2>1. \A k \in 0..LockTicks : Less(k) \in 0..LockTicks
    BY <1>1 DEF Less
  <2>2. ASSUME NEW r \in Requests PROVE request'[r] \in Login
    <3>1. CASE r \in Verifying
      <4>1. request'[r] = [request[r] EXCEPT !.lock = Less(request[r].lock),
                                             !.age = request[r].age + 1]
        BY <1>8, <3>1 DEF Tick
      <4>2. request[r] \in Login /\ request[r].age < RequestTicks
        BY <1>8, <3>1 DEF Tick, IInv, TypeOK
      <4>3. request[r].age + 1 \in 0..RequestTicks /\ Less(request[r].lock) \in 0..LockTicks
        BY <1>1, <2>1, <4>2
      <4>4. QED BY <4>1, <4>2, <4>3
    <3>2. CASE r \notin Verifying
      BY <1>8, <3>2 DEF Tick, IInv, TypeOK
    <3>3. QED BY <3>1, <3>2
  <2>3. request' \in [Requests -> Login]
    BY <1>8, <2>2 DEF Tick
  <2>4. /\ lock' \in 0..LockTicks /\ locked' \in Nat
        /\ UNCHANGED <<limit, attempts, streak, raced>>
    <3>1. lock \in 0..LockTicks /\ locked \in Nat
      BY DEF IInv, TypeOK
    <3>2. /\ lock' = Less(lock)
          /\ locked' = IF lock > 1 THEN Longer(locked) ELSE 0
          /\ UNCHANGED <<limit, attempts, streak, raced>>
      BY <1>8 DEF Tick
    <3>3. QED BY <2>1, <3>1, <3>2 DEF Longer
  <2>5. QED BY <2>3, <2>4 DEF IInv, TypeOK, CountIsExactUnlessRaced
<1>9. CASE UNCHANGED vars
  BY <1>9 DEF vars, IInv, TypeOK, CountIsExactUnlessRaced
<1>10. QED BY <1>3, <1>4, <1>5, <1>6, <1>7, <1>8, <1>9 DEF Next

LEMMA InvariantHolds == Spec => []IInv
BY InitCorrect, NextCorrect, PTL DEF Spec

(***************************************************************************)
(* How long a lock lasts                                                   *)
(***************************************************************************)

\* What a login that is being served knows of the lock that stands: it read the
\* row before the lock began, or it read the lock as it is, or it read it
\* before the last renewal, which was at most one login's time after it began.
KnowsLock(r) ==
    \/ request[r].age >= locked
    \/ request[r].lock >= lock
    \/ /\ request[r].lock + locked >= LockTicks
       /\ locked <= RequestTicks + request[r].age

LockInv ==
    /\ lock = 0 => locked = 0
    /\ lock > 0 => LockTicks <= locked + lock
    /\ LockIsBounded
    /\ lock > 0 => \A r \in Verifying : KnowsLock(r)

LEMMA LockInit == Init => LockInv
BY DEF Init, LockInv, LockIsBounded

\* A login that may still record a failure read the row no later than one
\* login's time after the lock began.
LEMMA RecordsEarly ==
    ASSUME TypeOK, LockInv, 2 * RequestTicks < LockTicks, lock > 0,
           NEW r \in Verifying, ~LockedOut(r)
    PROVE  locked <= RequestTicks
<1>1. /\ LockTicks \in Nat \ {0} /\ RequestTicks \in Nat
      /\ lock \in Nat /\ locked \in Nat
      /\ request[r].lock \in Nat /\ request[r].age \in 0..RequestTicks
  BY LockTicksAssumption, RequestTicksAssumption DEF TypeOK, Verifying
<1>2. request[r].lock = 0
  BY <1>1 DEF LockedOut
<1>3. KnowsLock(r)
  BY DEF LockInv
<1>4. QED BY <1>1, <1>2, <1>3 DEF KnowsLock

\* A login that is over leaves the others what they knew.
LEMMA OthersKnow ==
    ASSUME LockInv, NEW r \in Requests, Finish(r), UNCHANGED <<lock, locked>>
    PROVE  LockInv'
<1>1. \A q \in Verifying' : q \in Verifying /\ request'[q] = request[q]
  BY DEF Finish, Verifying, Idle
<1>2. QED BY <1>1 DEF LockInv, LockIsBounded, KnowsLock

LEMMA LockStep ==
    ASSUME 2 * RequestTicks < LockTicks, TypeOK, LockInv, [Next]_vars
    PROVE  LockInv'
<1>1. /\ LockTicks \in Nat \ {0} /\ RequestTicks \in Nat
      /\ limit \in Nat \ {0} /\ lock \in 0..LockTicks /\ locked \in Nat
  BY LimitsAssumption, LockTicksAssumption, RequestTicksAssumption DEF TypeOK
<1>2. \A q \in Requests : /\ request[q].attempts \in 0..(limit - 1)
                          /\ request[q].lock \in Nat
                          /\ request[q].age \in 0..RequestTicks
  BY <1>1 DEF TypeOK
<1>3. ASSUME NEW r \in Requests, ReadUser(r) PROVE LockInv'
  <2>1. \A q \in Verifying' : q = r \/ (q \in Verifying /\ request'[q] = request[q])
    BY <1>3 DEF ReadUser, Verifying, TypeOK
  <2>2. request'[r].lock = lock /\ UNCHANGED <<lock, locked>>
    BY <1>3 DEF ReadUser, TypeOK
  <2>3. QED BY <1>1, <2>1, <2>2 DEF LockInv, LockIsBounded, KnowsLock
<1>4. ASSUME NEW r \in Requests, Refuse(r) \/ Abort(r) PROVE LockInv'
  BY <1>4, OthersKnow DEF Refuse, Abort
<1>5. ASSUME NEW r \in Requests, RecordFailedLogin(r) PROVE LockInv'
  <2> DEFINE row == Recorded(request[r].attempts)
  <2>1. /\ r \in Verifying /\ ~LockedOut(r) /\ Finish(r)
        /\ lock' = row.lock
        /\ locked' = IF row.lock > 0 THEN locked ELSE 0
    BY <1>5 DEF RecordFailedLogin, Verifying
  <2>2. row.lock \in {0, LockTicks}
    BY <1>1, <1>2, RecordedBounds
  <2> HIDE DEF row
  <2>3. CASE row.lock = 0
    BY <1>1, <2>1, <2>3 DEF LockInv, LockIsBounded
  <2>4. CASE row.lock = LockTicks
    <3>1. lock' = LockTicks /\ locked' = locked
      BY <1>1, <2>1, <2>4
    <3>2. locked <= RequestTicks
      BY <1>1, <2>1, RecordsEarly DEF LockInv
    <3>3. \A q \in Verifying' : q \in Verifying /\ request'[q] = request[q]
      BY <2>1 DEF Finish, Verifying, Idle
    <3>4. ASSUME NEW q \in Verifying' PROVE KnowsLock(q)'
      <4>1. q \in Requests /\ q \in Verifying /\ request'[q] = request[q]
        BY <3>3 DEF Verifying
      <4>2. CASE lock = 0
        BY <1>1, <1>2, <3>1, <4>1, <4>2 DEF LockInv, KnowsLock
      <4>3. CASE lock > 0
        BY <1>1, <1>2, <3>1, <3>2, <4>1, <4>3 DEF LockInv, KnowsLock
      <4>4. QED BY <1>1, <4>2, <4>3
    <3>5. QED BY <1>1, <3>1, <3>2, <3>4 DEF LockInv, LockIsBounded
  <2>5. QED BY <2>2, <2>3, <2>4
<1>6. ASSUME NEW r \in Requests, LoginSucceeds(r) PROVE LockInv'
  BY <1>6 DEF LoginSucceeds, Clear, LockInv, LockIsBounded
<1>7. CASE ClearedElsewhere
  BY <1>7 DEF ClearedElsewhere, Clear, LockInv, LockIsBounded
<1>8. CASE Tick
  <2>1. /\ lock' = Less(lock)
        /\ locked' = IF lock > 1 THEN Longer(locked) ELSE 0
    BY <1>8 DEF Tick
  <2>2. /\ lock > 1 => lock' = lock - 1 /\ locked' = locked + 1
        /\ lock <= 1 => lock' = 0 /\ locked' = 0
    BY <1>1, <2>1 DEF Less, Longer, LockInv, LockIsBounded
  <2>3. ASSUME NEW q \in Verifying', lock > 1 PROVE KnowsLock(q)'
    <3>1. q \in Verifying /\ q \in Requests
      BY <1>8 DEF Tick, Verifying
    <3>2. /\ request'[q].lock = Less(request[q].lock)
          /\ request'[q].age = request[q].age + 1
      BY <1>8, <3>1 DEF Tick, TypeOK, Verifying
    <3>3. request'[q].lock + 1 >= request[q].lock
      BY <1>2, <3>1, <3>2 DEF Less
    <3>4. KnowsLock(q)
      BY <1>1, <2>3, <3>1 DEF LockInv
    <3>5. request'[q].lock \in Nat
      BY <1>2, <3>1, <3>2 DEF Less
    <3>6. QED BY <1>1, <1>2, <2>1, <2>2, <2>3, <3>1, <3>2, <3>3, <3>4, <3>5 DEF KnowsLock
  <2>4. QED BY <1>1, <2>1, <2>2, <2>3 DEF LockInv, LockIsBounded
<1>9. CASE UNCHANGED vars
  BY <1>9 DEF vars, LockInv, LockIsBounded, KnowsLock, Verifying
<1>10. QED BY <1>3, <1>4, <1>5, <1>6, <1>7, <1>8, <1>9 DEF Next

(***************************************************************************)
(* The theorems                                                            *)
(***************************************************************************)

\* The counter never reaches the limit and the lock never passes its length,
\* however many failures are recorded at a time (AuthService.recordFailedLogin).
THEOREM TypeCorrect == Spec => []TypeOK
<1>1. IInv => TypeOK
  BY DEF IInv
<1>2. QED BY <1>1, InvariantHolds, PTL

\* Every failure counts unless one was recorded over a row that had changed
\* since it was read (AuthService.loginForRole, recordFailedLogin).
THEOREM CountIsExact == Spec => []CountIsExactUnlessRaced
<1>1. IInv => CountIsExactUnlessRaced
  BY DEF IInv
<1>2. QED BY <1>1, InvariantHolds, PTL

\* Where a lock lasts longer than two logins take, no lock is renewed for longer
\* than one login takes: guessing on many connections keeps the owner out no
\* longer (AuthService.loginForRole, which refuses a login that read the lock).
THEOREM LockBound ==
    ASSUME 2 * RequestTicks < LockTicks
    PROVE  Spec => []LockIsBounded
<1>1. TypeOK /\ LockInv /\ [Next]_vars => LockInv'
  BY LockStep
<1>2. LockInv => LockIsBounded
  BY DEF LockInv
<1>3. QED BY <1>1, <1>2, LockInit, TypeCorrect, PTL DEF Spec

(***************************************************************************)
(* Logins that do not overlap                                              *)
(***************************************************************************)

\* One login is served at a time.
Serial == \A q, r \in Verifying : q = r

\* Nobody clears the counter while one is.
ClearedBetween == [][ClearedElsewhere => Verifying = {}]_vars

\* What a login has read is still in the row.
ReadIsCurrent ==
    /\ ~raced
    /\ \A r \in Verifying : request[r].attempts = attempts /\ request[r].lock = lock

LEMMA SerialStep ==
    ASSUME TypeOK, Serial, ReadIsCurrent, [Next]_vars, ClearedElsewhere => Verifying = {}
    PROVE  ReadIsCurrent'
<1> USE DEF ReadIsCurrent
<1>1. request \in [Requests -> [step : {"idle", "verify"}, attempts : 0..(limit - 1),
                                lock : 0..LockTicks, age : 0..RequestTicks]]
  BY DEF TypeOK
<1>2. ASSUME NEW r \in Requests, ReadUser(r) PROVE ReadIsCurrent'
  BY <1>1, <1>2 DEF ReadUser, Verifying
<1>3. ASSUME NEW r \in Requests, Finish(r), UNCHANGED <<attempts, lock, raced>>
      PROVE  ReadIsCurrent'
  BY <1>1, <1>3 DEF Finish, Verifying, Idle
<1>4. ASSUME NEW r \in Verifying, Finish(r), ~raced' PROVE ReadIsCurrent'
  <2>1. Verifying' = {}
    BY <1>1, <1>4 DEF Finish, Verifying, Idle, Serial
  <2>2. QED BY <1>4, <2>1
<1>5. ASSUME NEW r \in Requests, RecordFailedLogin(r) \/ LoginSucceeds(r)
      PROVE  ReadIsCurrent'
  <2>1. r \in Verifying /\ Finish(r)
    BY <1>5 DEF RecordFailedLogin, LoginSucceeds, Verifying
  <2>2. ~raced'
    BY <1>5, <2>1 DEF RecordFailedLogin, LoginSucceeds, Clear
  <2>3. QED BY <1>4, <2>1, <2>2
<1>6. CASE ClearedElsewhere
  BY <1>6 DEF ClearedElsewhere, Clear, Verifying
<1>7. CASE Tick
  <2>1. /\ lock' = Less(lock) /\ attempts' = attempts /\ raced' = raced
        /\ \A r \in Requests : request'[r] = IF r \in Verifying
              THEN [request[r] EXCEPT !.lock = Less(@), !.age = @ + 1]
              ELSE request[r]
    BY <1>7 DEF Tick
  <2>2. Verifying' = Verifying
    BY <1>1, <2>1 DEF Verifying
  <2>3. ASSUME NEW r \in Verifying
        PROVE  request'[r].lock = Less(request[r].lock)
               /\ request'[r].attempts = request[r].attempts
    BY <1>1, <2>1, <2>3 DEF Verifying
  <2>4. QED BY <2>1, <2>2, <2>3
<1>8. CASE UNCHANGED vars
  BY <1>8 DEF vars, Verifying
<1>9. QED
  BY <1>2, <1>3, <1>5, <1>6, <1>7, <1>8 DEF Next, Refuse, Abort

\* Where no two logins overlap, and none with a clearing, every failure counts
\* and none is recorded while the account is locked: both increments that are
\* lost and locks that are written over are a matter of overlap.
THEOREM ExactWhenSerial ==
    Spec /\ []Serial /\ ClearedBetween =>
        /\ [](attempts = streak)
        /\ [][\A r \in Requests : RecordFailedLogin(r) => lock = 0]_vars
<1>1. Init => ReadIsCurrent
  BY DEF Init, ReadIsCurrent, Verifying, Idle
<1>2. /\ TypeOK /\ Serial /\ ReadIsCurrent /\ [Next]_vars
      /\ [ClearedElsewhere => Verifying = {}]_vars
      => ReadIsCurrent'
  <2>1. UNCHANGED vars /\ ReadIsCurrent => ReadIsCurrent'
    BY DEF vars, ReadIsCurrent, Verifying
  <2>2. QED BY <2>1, SerialStep
<1>3. Spec /\ []Serial /\ ClearedBetween => []ReadIsCurrent
  BY <1>1, <1>2, TypeCorrect, PTL DEF Spec, ClearedBetween
<1>4. ReadIsCurrent /\ CountIsExactUnlessRaced => attempts = streak
  BY DEF ReadIsCurrent, CountIsExactUnlessRaced
<1>5. ASSUME TypeOK, ReadIsCurrent, NEW r \in Requests, RecordFailedLogin(r)
      PROVE  lock = 0
  BY <1>5 DEF TypeOK, ReadIsCurrent, RecordFailedLogin, LockedOut, Verifying
<1>6. TypeOK /\ ReadIsCurrent
      => [\A r \in Requests : RecordFailedLogin(r) => lock = 0]_vars
  BY <1>5
<1>7. QED BY <1>3, <1>4, <1>6, TypeCorrect, CountIsExact, PTL
=============================================================================
