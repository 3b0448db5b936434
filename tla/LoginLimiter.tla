---------------------------- MODULE LoginLimiter ----------------------------
(***************************************************************************)
(* Rate limit and lockout of logins and recoveries (RateLimiter of         *)
(* internal/handler and the endpoints that ask it).                        *)
(*                                                                         *)
(* Every method of RateLimiter holds its mutex, so a step is one call. An  *)
(* attempt makes several: it is admitted by address, the lock of the       *)
(* account is looked at, the password is verified outside the mutex, and   *)
(* the outcome recorded; attempts on one account interleave.               *)
(***************************************************************************)
EXTENDS Naturals, FiniteSets, Sequences

CONSTANTS
  Addresses,
  Accounts,      \* keys of userLocks: action and name
  Attempts,      \* requests under way
  Window,        \* ipRateLimitWindow
  MaxRequests,   \* ipRateLimitMax
  LockWindow,    \* userLockoutWindow
  MaxFailures,   \* userLockoutMaxFail
  MaxTime        \* bound on the clock

ASSUME LimiterAssumption ==
  /\ IsFiniteSet(Attempts)
  /\ Window \in Nat /\ MaxRequests \in Nat
  /\ LockWindow \in Nat \ {0} /\ MaxFailures \in Nat \ {0} /\ MaxTime \in Nat \ {0}

VARIABLES
  clock,
  seen,          \* ipRequests: when an address was admitted
  lock,          \* userLocks: [failures, until, last], or none
  attempt,       \* what each attempt is doing
  granted,       \* history: when each address was admitted, ever
  guesses        \* history: failures since a success, a lock or a lapse

limiterVars == <<clock, seen, lock, attempt, granted, guesses>>

NoLock    == [failures |-> 0, until |-> 0, last |-> 0, there |-> FALSE]
NoAttempt == [step |-> "idle", address |-> "", account |-> ""]

Proceed(a, s) == attempt' = [attempt EXCEPT ![a].step = s]

(* A zero time is before every other.                                      *)
Locked(k) == clock < lock[k].until

(* The times of an address are in their order: those that are still in the *)
(* window come last.                                                       *)
Recent(times) ==
  LET old == CHOOSE n \in 0 .. Len(times) :
               \A j \in 1 .. Len(times) : j <= n <=> times[j] + Window <= clock
  IN  SubSeq(times, old + 1, Len(times))

-----------------------------------------------------------------------------
LimiterInit ==
  /\ clock = 1
  /\ seen = [i \in Addresses |-> <<>>]
  /\ lock = [k \in Accounts |-> NoLock]
  /\ attempt = [a \in Attempts |-> NoAttempt]
  /\ granted = [i \in Addresses |-> <<>>]
  /\ guesses = [k \in Accounts |-> 0]

(* Mutant: an admission at the limit counts too few.                       *)
AllowOneMore(a, i, k) ==
  /\ attempt[a].step = "idle" /\ Len(Recent(seen[i])) <= MaxRequests
  /\ seen' = [seen EXCEPT ![i] = Append(Recent(seen[i]), clock)]
  /\ granted' = [granted EXCEPT ![i] = Append(granted[i], clock)]
  /\ attempt' = [attempt EXCEPT ![a] = [step |-> "admitted", address |-> i, account |-> k]]
  /\ UNCHANGED <<clock, lock, guesses>>

(* checkIPLimit.                                                           *)
AllowIP(a, i, k) ==
  /\ attempt[a].step = "idle" /\ Len(Recent(seen[i])) < MaxRequests
  /\ seen' = [seen EXCEPT ![i] = Append(Recent(seen[i]), clock)]
  /\ granted' = [granted EXCEPT ![i] = Append(granted[i], clock)]
  /\ attempt' = [attempt EXCEPT ![a] = [step |-> "admitted", address |-> i, account |-> k]]
  /\ UNCHANGED <<clock, lock, guesses>>

RefuseIP(a, i) ==
  /\ attempt[a].step = "idle" /\ Len(Recent(seen[i])) >= MaxRequests
  /\ seen' = [seen EXCEPT ![i] = Recent(seen[i])]
  /\ UNCHANGED <<clock, lock, attempt, granted, guesses>>

(* What IsUserLocked and RecordUserFailure make of a lock that has ended.  *)
Lapsed(s) == IF s.until # 0 THEN [s EXCEPT !.failures = 0, !.until = 0] ELSE s

(* Mutant: the lock is not looked at.                                      *)
VerifyAnyway(a) ==
  /\ attempt[a].step = "admitted"
  /\ Proceed(a, "verify")
  /\ UNCHANGED <<clock, seen, lock, granted, guesses>>

(* IsUserLocked: a locked account is refused before its password is        *)
(* verified.                                                               *)
IsUserLocked(a) ==
  LET k == attempt[a].account
  IN  /\ attempt[a].step = "admitted"
      /\ IF Locked(k)
         THEN attempt' = [attempt EXCEPT ![a] = NoAttempt] /\ UNCHANGED lock
         ELSE Proceed(a, "verify") /\ lock' = [lock EXCEPT ![k] = Lapsed(@)]
      /\ UNCHANGED <<clock, seen, granted, guesses>>

(* It is malformed or names nobody, or only asks for a recovery question.  *)
EndEarly(a) ==
  /\ attempt[a].step = "admitted"
  /\ attempt' = [attempt EXCEPT ![a] = NoAttempt]
  /\ UNCHANGED <<clock, seen, lock, granted, guesses>>

(* auth.Login or RecoverPassword, which may also fail for other reasons.   *)
Check(a) ==
  /\ attempt[a].step = "verify"
  /\ \E s \in {"right", "wrong"} : Proceed(a, s)
  /\ UNCHANGED <<clock, seen, lock, granted, guesses>>

(* Mutant: failures from before a lock count again after it.               *)
RecordKeepsFailures(a) ==
  LET k == attempt[a].account
      n == lock[k].failures + 1
  IN  /\ attempt[a].step = "wrong"
      /\ lock' = [lock EXCEPT ![k] =
           [failures |-> n, last |-> clock, there |-> TRUE,
            until |-> IF n >= MaxFailures THEN clock + LockWindow ELSE 0]]
      /\ guesses' = [guesses EXCEPT ![k] = @ + 1]
      /\ attempt' = [attempt EXCEPT ![a] = NoAttempt]
      /\ UNCHANGED <<clock, seen, granted>>

RecordUserFailure(a) ==
  LET k == attempt[a].account
      n == Lapsed(lock[k]).failures + 1
  IN  /\ attempt[a].step = "wrong"
      /\ lock' = [lock EXCEPT ![k] =
           IF Locked(k) THEN [@ EXCEPT !.last = clock]
           ELSE [failures |-> n, last |-> clock, there |-> TRUE,
                 until |-> IF n >= MaxFailures THEN clock + LockWindow ELSE 0]]
      /\ guesses' = [guesses EXCEPT ![k] = @ + 1]
      /\ attempt' = [attempt EXCEPT ![a] = NoAttempt]
      /\ UNCHANGED <<clock, seen, granted>>

RecordUserSuccess(a) ==
  LET k == attempt[a].account
  IN  /\ attempt[a].step = "right"
      /\ lock' = [lock EXCEPT ![k] = NoLock]
      /\ guesses' = [guesses EXCEPT ![k] = 0]
      /\ attempt' = [attempt EXCEPT ![a] = NoAttempt]
      /\ UNCHANGED <<clock, seen, granted>>

Outdated(k) == lock[k].there /\ ~ Locked(k) /\ clock - lock[k].last > LockWindow

(* Mutant: locks are dropped whatever their age.                           *)
CleanupDropsAll ==
  /\ seen' = [i \in Addresses |-> Recent(seen[i])]
  /\ lock' = [k \in Accounts |-> NoLock]
  /\ UNCHANGED <<clock, attempt, granted, guesses>>

(* Every two minutes: what no longer matters is dropped.                   *)
Cleanup ==
  /\ seen' = [i \in Addresses |-> Recent(seen[i])]
  /\ lock' = [k \in Accounts |-> IF Outdated(k) THEN NoLock ELSE lock[k]]
  /\ guesses' = [k \in Accounts |-> IF Outdated(k) THEN 0 ELSE guesses[k]]
  /\ UNCHANGED <<clock, attempt, granted>>

(* With the lock its failures end (history).                               *)
ClockTicks ==
  /\ clock < MaxTime
  /\ clock' = clock + 1
  /\ guesses' = [k \in Accounts |-> IF lock[k].until = clock' THEN 0 ELSE guesses[k]]
  /\ UNCHANGED <<seen, lock, attempt, granted>>

LimiterNext ==
  \/ \E a \in Attempts, i \in Addresses, k \in Accounts : AllowIP(a, i, k)
  \/ \E a \in Attempts, i \in Addresses : RefuseIP(a, i)
  \/ \E a \in Attempts :
       EndEarly(a) \/ IsUserLocked(a) \/ Check(a) \/ RecordUserFailure(a) \/ RecordUserSuccess(a)
  \/ Cleanup \/ ClockTicks

LimiterSpec == LimiterInit /\ [][LimiterNext]_limiterVars

-----------------------------------------------------------------------------
LockSet == [failures : 0 .. MaxFailures, until : Nat, last : Nat, there : BOOLEAN]

AttemptSet ==
  [step : {"idle", "admitted", "verify", "right", "wrong"},
   address : Addresses \cup {""}, account : Accounts \cup {""}]

LimiterTypeOK ==
  /\ clock \in 1 .. MaxTime
  /\ seen \in [Addresses -> Seq(1 .. MaxTime)]
  /\ lock \in [Accounts -> LockSet]
  /\ attempt \in [Attempts -> AttemptSet]
  /\ granted \in [Addresses -> Seq(1 .. MaxTime)]
  /\ guesses \in [Accounts -> Nat]

(* However refusals, cleanups and the clock interleave, no stretch of time *)
(* as long as the window sees an address admitted more than the maximum.   *)
AddressesLimited ==
  \A i \in Addresses : \A n \in 1 .. Len(granted[i]) - MaxRequests :
    granted[i][n + MaxRequests] >= granted[i][n] + Window

(* The lockout bounds guessing: between two locks, successes or lapses of  *)
(* the account, no more passwords are refused than the maximum and one for *)
(* every other attempt that was verifying when the lock closed.            *)
GuessesBounded ==
  \A k \in Accounts : guesses[k] <= MaxFailures + Cardinality(Attempts) - 1

(* A lock ends when its time is over, or by an attempt that was let in     *)
(* before it and turned out right; no cleanup and no failure shortens it.  *)
LocksLast ==
  [][ \A k \in Accounts : Locked(k) /\ ~ (clock' < lock'[k].until) =>
        clock' >= lock[k].until \/ \E a \in Attempts : attempt[a].step = "right" /\ attempt'[a] = NoAttempt ]_limiterVars

(* "5 failed attempts": a lock that has ended leaves no failures behind,   *)
(* so it takes the full number of them to close it again.                  *)
LocksAreEarned ==
  [][ \A k \in Accounts : lock'[k].until > lock[k].until => guesses'[k] >= MaxFailures ]_limiterVars

(* All of these, for one run.                                              *)
GuessingIsLimited == [](AddressesLimited /\ GuessesBounded) /\ LocksLast /\ LocksAreEarned
=============================================================================
