---------------------------- MODULE LoginLockout ----------------------------
(***************************************************************************)
(* The failed-login counter and the temporary lock of one account.         *)
(*                                                                         *)
(* A login reads the user row, spends a long time verifying the password,  *)
(* and then writes the row from what it read: the counter is incremented   *)
(* in memory, not in the database.  Logins run concurrently, and password  *)
(* resets, password changes and unblocking clear both columns.             *)
(***************************************************************************)
EXTENDS Naturals

CONSTANTS
    Requests,      \* slots for the logins being served at one time
    Limits,        \* the values AUTH_MAX_FAILED_LOGIN_ATTEMPTS may have
    LockTicks,     \* AUTH_ACCOUNT_LOCK_SECONDS, in ticks
    RequestTicks   \* bound on how long one login takes, in ticks

ASSUME LimitsAssumption == Limits \subseteq Nat \ {0}
ASSUME LockTicksAssumption == LockTicks \in Nat \ {0}
ASSUME RequestTicksAssumption == RequestTicks \in Nat

VARIABLES
    limit,      \* AUTH_MAX_FAILED_LOGIN_ATTEMPTS, read when the process starts
    attempts,   \* user.failedLoginAttempts
    lock,       \* time left until user.lockedUntil; 0 when it is null or past
    request,    \* the row as each login read it, while it verifies
    \* What the columns are meant to record; not part of the program.
    streak,     \* failures recorded since the counter was last cleared
    locked,     \* time for which the account has been locked without a break,
                \* counted until it is longer than any lock may last
    raced       \* whether one of them was recorded over a newer row

vars == <<limit, attempts, lock, request, streak, locked, raced>>

Idle == [step |-> "idle", attempts |-> 0, lock |-> 0, age |-> 0]

Init ==
    /\ limit \in Limits
    /\ attempts = 0
    /\ lock = 0
    /\ request = [r \in Requests |-> Idle]
    /\ streak = 0
    /\ locked = 0
    /\ raced = FALSE

Finish(r) == request' = [request EXCEPT ![r] = Idle] /\ UNCHANGED limit

\* A login finds the account and goes on to verify the password.
ReadUser(r) ==
    /\ request[r] = Idle
    /\ request' = [request EXCEPT ![r] =
           [step |-> "verify", attempts |-> attempts, lock |-> lock, age |-> 0]]
    /\ UNCHANGED <<limit, attempts, lock, streak, locked, raced>>

\* Mutant: a locked account is not refused.
NeverLockedOut(r) == FALSE

\* The lock as read decides, against the time of the decision.
LockedOut(r) == request[r].lock > 0

Refuse(r) ==
    /\ request[r].step = "verify"
    /\ LockedOut(r)
    /\ Finish(r)
    /\ UNCHANGED <<attempts, lock, streak, locked, raced>>

\* Mutants: the limit is exceeded before it locks; the counter survives a lock;
\* a failure that finds the row changed starts the count afresh.
RecordedLate(n) ==
    IF n + 1 > limit THEN [attempts |-> 0, lock |-> LockTicks]
                           ELSE [attempts |-> n + 1, lock |-> 0]

RecordedKeeping(n) ==
    IF n + 1 >= limit THEN [attempts |-> n, lock |-> LockTicks]
                            ELSE [attempts |-> n + 1, lock |-> 0]

RecordedAfresh(n) ==
    IF n + 1 >= limit THEN [attempts |-> 0, lock |-> LockTicks]
    ELSE [attempts |-> IF n = attempts THEN n + 1 ELSE 0, lock |-> 0]

\* The outcome of recordFailedLogin for a row that was read with n attempts.
Recorded(n) ==
    IF n + 1 >= limit THEN [attempts |-> 0, lock |-> LockTicks]
                            ELSE [attempts |-> n + 1, lock |-> 0]

RecordFailedLogin(r) ==
    LET row == Recorded(request[r].attempts) IN
    /\ request[r].step = "verify"
    /\ ~LockedOut(r)
    /\ attempts' = row.attempts
    /\ lock' = row.lock
    /\ locked' = IF row.lock > 0 THEN locked ELSE 0
    /\ streak' = IF row.lock > 0 THEN 0 ELSE IF streak < limit
                                             THEN streak + 1 ELSE streak
    /\ raced' = (row.lock = 0 /\ (raced \/ request[r].attempts # attempts))
    /\ Finish(r)

\* Both columns are cleared by the transaction of a successful login ...
Clear ==
    /\ attempts' = 0
    /\ lock' = 0
    /\ streak' = 0
    /\ locked' = 0
    /\ raced' = FALSE

LoginSucceeds(r) ==
    /\ request[r].step = "verify"
    /\ ~LockedOut(r)
    /\ Clear
    /\ Finish(r)

\* ... and by a password reset or change, a local password set, or an unblock.
ClearedElsewhere == Clear /\ UNCHANGED <<limit, request>>

\* The role or the account's state refuses the login after the password
\* matched, the database fails, or the process dies.
Abort(r) ==
    /\ request[r].step = "verify"
    /\ Finish(r)
    /\ UNCHANGED <<attempts, lock, streak, locked, raced>>

Less(n) == IF n > 0 THEN n - 1 ELSE 0

\* Counts up to the first number above LockTicks + RequestTicks.
Longer(n) == IF n <= LockTicks + RequestTicks THEN n + 1 ELSE n

Verifying == {r \in Requests : request[r].step = "verify"}

\* No login is still being served after RequestTicks.
Tick ==
    /\ lock > 0 \/ Verifying # {}
    /\ \A r \in Verifying : request[r].age < RequestTicks
    /\ lock' = Less(lock)
    /\ locked' = IF lock > 1 THEN Longer(locked) ELSE 0
    /\ request' = [r \in Requests |->
           IF r \in Verifying
           THEN [request[r] EXCEPT !.lock = Less(@), !.age = @ + 1]
           ELSE request[r]]
    /\ UNCHANGED <<limit, attempts, streak, raced>>

Next ==
    \/ \E r \in Requests : \/ ReadUser(r)
                           \/ Refuse(r)
                           \/ RecordFailedLogin(r)
                           \/ LoginSucceeds(r)
                           \/ Abort(r)
    \/ ClearedElsewhere
    \/ Tick

Spec == Init /\ [][Next]_vars

\* A login that is being served ends, and time passes, whatever clients do.
Serve(r) == Refuse(r) \/ RecordFailedLogin(r) \/ LoginSucceeds(r) \/ Abort(r)

FairSpec == Spec /\ SF_vars(Tick) /\ \A r \in Requests : WF_vars(Serve(r))

-----------------------------------------------------------------------------
(* Properties *)

\* The counter stays below the limit that turns it into a lock, the lock below
\* its length, and what requests remember was once in the row.
TypeOK ==
    /\ limit \in Limits
    /\ attempts \in 0..(limit - 1)
    /\ lock \in 0..LockTicks
    /\ request \in [Requests -> [step : {"idle", "verify"},
                                 attempts : 0..(limit - 1),
                                 lock : 0..LockTicks,
                                 age : 0..RequestTicks]]
    /\ streak \in 0..limit
    /\ locked \in Nat
    /\ raced \in BOOLEAN

\* As long as no failure was written over a newer row, every failure counts:
\* the counter is the number of failures since it was cleared.
CountIsExactUnlessRaced == ~raced => attempts = streak

\* A lock may be renewed by logins that read the row before it was locked, but
\* by no other: however many guesses are made at once, and however they are
\* timed, the account is open again at most one login's time after a lock
\* would have run out.
LockIsBounded == lock > 0 => locked + lock <= LockTicks + RequestTicks

\* No stream of wrong passwords keeps the rightful owner out for ever: a login
\* that reads the lock is refused before it could renew it.
LockEnds == lock > 0 ~> lock = 0

\* Guessing on many logins at a time loses increments, and a failure that was
\* slow writes an old counter, or no lock, over a new one; but whoever goes on
\* failing is locked out again and again, unless the counter is cleared.
GuessingLocks ==
    (/\ []<><<\E r \in Requests : RecordFailedLogin(r)>>_vars
     /\ <>[][~(ClearedElsewhere \/ \E r \in Requests : LoginSucceeds(r))]_vars)
    => []<>(lock > 0)
=============================================================================
