------------------------------ MODULE Accounts -------------------------------
(***************************************************************************)
(* Login (auth/service.py, lockout.py, cache.py; add_user of               *)
(* api/routers/account.py) for one account.  A request authenticates in    *)
(* steps that interleave with other requests, with an administrator who    *)
(* replaces the account, and with a restart of the process, which loses    *)
(* the cache of verified credentials and the requests.                     *)
(*                                                                         *)
(* A hash is its password and its salt, fresh for every hash_password.     *)
(* The ORM writes the columns a session changed from what it read.         *)
(***************************************************************************)
EXTENDS Naturals

CONSTANTS
  Logins,        \* requests in flight
  Passwords,
  MaxFailures,   \* login_max_failures
  LockTime,      \* login_lockout_minutes
  CacheTime,     \* auth_verify_cache_ttl_s
  MaxLogins, MaxResets, AccountEnd   \* bounds: requests, replacements, time

\* "none" is the password of an account that is not there.
ASSUME AccountAssumption == "none" \notin Passwords /\ LockTime \in Nat /\ CacheTime \in Nat

VARIABLES
  accUser,       \* the hash of the account's row, or NoHash without a row
  accLock,       \* its auth_lockout row
  accCache,      \* the cached verification
  accLogin,      \* the requests; held and lockSeen: what was true while they ran
  accAdmin,      \* the replacement under way
  accNow, accLogins, accSalt

accVars == <<accUser, accLock, accCache, accLogin, accAdmin, accNow, accLogins, accSalt>>

NoHash == [password |-> "none", salt |-> 0]
NoLock == [row |-> FALSE, count |-> 0, until |-> 0]
NoEntry == [token |-> "none", hash |-> NoHash, expiry |-> 0]
NoLogin == [phase |-> "idle", password |-> "none", hash |-> NoHash, lock |-> NoLock,
            held |-> {}, lockSeen |-> FALSE]
NoReset == [busy |-> FALSE, password |-> "none", lock |-> NoLock]

AccountInit ==
  /\ accUser = NoHash /\ accLock = NoLock /\ accCache = NoEntry
  /\ accLogin = [q \in Logins |-> NoLogin]
  /\ accAdmin = NoReset
  /\ accNow = 0 /\ accLogins = MaxLogins /\ accSalt = 0

-----------------------------------------------------------------------------
(* lockout.py *)

(* is_locked *)
LockedOut(lock) == lock.row /\ lock.until > accNow

(* record_failure, from the row read: another insert of the row fails. *)
FailureCollides(lock) == ~lock.row /\ accLock.row
RecordFailure(lock) ==
  [row |-> TRUE, count |-> lock.count + 1,
   until |-> IF lock.count + 1 >= MaxFailures THEN accNow + LockTime ELSE accLock.until]

(* clear: the columns that differ from what was read. *)
Clear(lock) == [accLock EXCEPT !.count = IF lock.count # 0 THEN 0 ELSE @,
                               !.until = IF lock.until # 0 THEN 0 ELSE @]

-----------------------------------------------------------------------------
(* cache.py *)

TokenOnly(password, hash) == accCache.expiry > accNow /\ accCache.token = password
(* check *)
Cached(password, hash) ==
  accCache.expiry > accNow /\ accCache.hash = hash /\ accCache.token = password

(* store *)
CacheEntry(password, hash) == [token |-> password, hash |-> hash, expiry |-> accNow + CacheTime]

-----------------------------------------------------------------------------
(* authenticate *)

Running(x) == x.phase \notin {"idle", "accepted", "refused", "failed"}

(* What became true while a request ran: the passwords the account had, and
   whether it was locked. *)
Watch(logins) ==
  accLogin' = [q \in Logins |->
                 IF Running(logins[q])
                 THEN [logins[q] EXCEPT !.held = @ \cup {accUser'.password},
                                        !.lockSeen = @ \/ (accLock'.row /\ accLock'.until > accNow')]
                 ELSE logins[q]]

BeginLogin(q, password) ==
  /\ ~Running(accLogin[q]) /\ accLogins > 0
  /\ accLogins' = accLogins - 1
  /\ UNCHANGED <<accUser, accLock, accCache, accAdmin, accNow, accSalt>>
  /\ Watch([accLogin EXCEPT ![q] = [NoLogin EXCEPT !.phase = "user", !.password = password]])

ReadUser(q) ==
  /\ accLogin[q].phase = "user"
  /\ UNCHANGED <<accUser, accLock, accCache, accAdmin, accNow, accLogins, accSalt>>
  /\ Watch([accLogin EXCEPT ![q].hash = accUser,
                            ![q].phase = IF accUser = NoHash THEN "refused" ELSE "lock"])

(* The lockout row, then the cache. *)
CheckLogin(q) ==
  /\ accLogin[q].phase = "lock"
  /\ UNCHANGED <<accUser, accLock, accCache, accAdmin, accNow, accLogins, accSalt>>
  /\ Watch([accLogin EXCEPT ![q].lock = accLock,
                            ![q].phase = IF LockedOut(accLock) THEN "refused"
                                         ELSE IF Cached(accLogin[q].password, accLogin[q].hash)
                                              THEN "accepted" ELSE "verify"])

(* verify_password, and what follows from it, to the commit. *)
VerifyLogin(q) ==
  LET x == accLogin[q]
      right == x.password = x.hash.password
      collides == ~right /\ FailureCollides(x.lock)
  IN
  /\ x.phase = "verify"
  /\ accCache' = IF right THEN CacheEntry(x.password, x.hash) ELSE accCache
  /\ accLock' = IF right THEN Clear(x.lock) ELSE IF collides THEN accLock ELSE RecordFailure(x.lock)
  /\ UNCHANGED <<accUser, accAdmin, accNow, accLogins, accSalt>>
  /\ Watch([accLogin EXCEPT ![q].phase = IF right THEN "accepted"
                                         ELSE IF collides THEN "failed" ELSE "refused"])

-----------------------------------------------------------------------------
(* add_user and create_user by a site-less administrator. *)

BeginReset(password) ==
  /\ ~accAdmin.busy /\ accSalt < MaxResets
  /\ accAdmin' = [busy |-> TRUE, password |-> password, lock |-> accLock]
  /\ accCache' = NoEntry
  /\ UNCHANGED <<accUser, accLock, accNow, accLogins, accSalt>>
  /\ Watch(accLogin)

CommitReset ==
  /\ accAdmin.busy
  /\ accSalt' = accSalt + 1
  /\ accUser' = [password |-> accAdmin.password, salt |-> accSalt + 1]
  /\ accLock' = Clear(accAdmin.lock)
  /\ accAdmin' = NoReset
  /\ UNCHANGED <<accCache, accNow, accLogins>>
  /\ Watch(accLogin)

-----------------------------------------------------------------------------
(* The process restarts, time passes. *)

RestartApi ==
  /\ accCache # NoEntry \/ accAdmin.busy \/ \E q \in Logins : Running(accLogin[q])
  /\ accCache' = NoEntry /\ accAdmin' = NoReset
  /\ accLogin' = [q \in Logins |-> IF Running(accLogin[q]) THEN NoLogin ELSE accLogin[q]]
  /\ UNCHANGED <<accUser, accLock, accNow, accLogins, accSalt>>

AccountTick ==
  /\ accNow < AccountEnd
  /\ accNow' = accNow + 1
  /\ UNCHANGED <<accUser, accLock, accCache, accAdmin, accLogins, accSalt>>
  /\ Watch(accLogin)

AccountNext ==
  \/ \E q \in Logins :
       \/ \E p \in Passwords : BeginLogin(q, p)
       \/ ReadUser(q) \/ CheckLogin(q) \/ VerifyLogin(q)
  \/ \E p \in Passwords : BeginReset(p)
  \/ CommitReset \/ RestartApi \/ AccountTick

AccountSpec == AccountInit /\ [][AccountNext]_accVars

-----------------------------------------------------------------------------
(* A login is answered by what the account was while the request ran: it is
   accepted only with a password the account had at some moment of it, so a
   replaced password is not accepted from the cache, whatever a request that
   verified it late left there; and it is refused only if the account had
   another password, or none, or was locked, at some moment of it
   (authenticate, create_user). *)
AnswersMatchAccount ==
  \A q \in Logins :
    /\ accLogin[q].phase = "accepted" => accLogin[q].password \in accLogin[q].held
    /\ accLogin[q].phase = "refused" => \/ accLogin[q].lockSeen
                                        \/ accLogin[q].held # {accLogin[q].password}
=============================================================================
