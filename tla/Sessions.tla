------------------------------ MODULE Sessions ------------------------------
(***************************************************************************)
(* The session table of nexus-idp and everything that writes it: logins    *)
(* with their per-device and per-user limits, the refresh-token guard, the *)
(* refresh and logout handlers, and the bulk terminators of the admin API  *)
(* and of the scheduled clean-up.                                          *)
(*                                                                         *)
(* A request works on entities it read once and keeps across awaits; a     *)
(* flush writes, by primary key, exactly the columns the request changed.  *)
(* So every handler is split at its database calls, and what it read       *)
(* earlier travels in its record in login, req or job.  A login is one     *)
(* READ COMMITTED transaction: its writes appear at LoginCommit.           *)
(***************************************************************************)
EXTENDS Naturals, FiniteSets

CONSTANTS
    Users, Devices,
    Sids,                  \* session ids randomUUID may return; bounds the table
    LoginReqs,             \* slots of login requests served at the same time
    Reqs,                  \* slots of refresh and logout requests
    Jobs,                  \* slots of admin and cron bulk terminations
    None,                  \* a value that is no user and no device
    MaxSessionsPerUser, MaxSessionsPerDevice,
    SessionTTL, MaxTTL,    \* defaults of expiresAt (15 d) and maxExpiresAt (90 d)
    RefreshTTL,            \* jwt.refreshExpiresIn
    Cleanups,              \* clean-ups started: every day, every week, by an admin
    IatUnit,               \* resolution at which bcrypt still sees a token's iat
    AdminReasons,          \* reasons an admin passes, NoReason when the body has none
    MaxTime, MaxTokens, MaxFailures  \* bounds: clock, tokens per session, crashes

NoReason == "none"
TerminationReasons == {"LOGOUT", "TIMEOUT", "REVOKED", "LIMIT", "ADMIN"}

ASSUME LimitsAssumption ==
    /\ MaxSessionsPerUser \in Nat \ {0}
    /\ MaxSessionsPerDevice \in Nat \ {0}

ASSUME TimesAssumption ==
    /\ SessionTTL \in Nat /\ MaxTTL \in Nat /\ RefreshTTL \in Nat
    /\ IatUnit \in Nat \ {0}
    /\ MaxTime \in Nat /\ MaxTokens \in Nat /\ MaxFailures \in Nat

(* maxExpiredDays and maxInactiveDays of a clean-up.  A dry run terminates   *)
(* nothing and is none.                                                     *)
Cleanup == [expired : Nat, inactive : Nat]

ASSUME CleanupsAssumption == Cleanups \subseteq Cleanup

ASSUME SetsAssumption ==
    /\ IsFiniteSet(Sids) /\ IsFiniteSet(LoginReqs)
    /\ None \notin Users \cup Devices
    /\ AdminReasons \subseteq TerminationReasons \cup {NoReason}

VARIABLES
    now,       \* the clock every process reads
    sess,      \* the sessions table
    held,      \* refresh tokens clients of a session have been handed
    revoked,   \* the revoked_tokens table: <<session, token>>, unique
    blocked,   \* devices whose blockedAt is set by a logout
    login,     \* login requests in flight
    req,       \* refresh and logout requests in flight
    job,       \* bulk terminations in flight
    failures,  \* crashes, aborted jobs and answers lost so far
    revived,   \* history: sessions a refresh extended after they had expired
    cut        \* history: sessions of which a failure cut a request short

vars == <<now, sess, held, revoked, blocked, login, req, job, failures, revived, cut>>
-----------------------------------------------------------------------------
(* A refresh token is the time it was issued at; n numbers its bcrypt hash, *)
(* which is salted, so that two hashes of equal tokens differ.              *)
Token == [n : Nat, iat : Nat]
NoToken == [n |-> 0, iat |-> 0]

(* A row of revoked_tokens: the hash of a token is unique, and salted, so   *)
(* that it tells its session.  Nobody reads the other columns.              *)
Revocation == Sids \X Token

Session == [state : {"absent", "open", "terminated"},
            terminationReason : TerminationReasons \cup {NoReason},
            user : Users \cup {None}, device : Devices \cup {None},
            lastActivityAt : Nat, expiresAt : Nat, maxExpiresAt : Nat,
            refreshTokenHash : Token]

Absent == [state |-> "absent", terminationReason |-> NoReason,
           user |-> None, device |-> None,
           lastActivityAt |-> 0, expiresAt |-> 0, maxExpiresAt |-> 0,
           refreshTokenHash |-> NoToken]

LoginState == [pc : {"idle", "device", "user", "commit"},
               user : Users \cup {None}, device : Devices \cup {None},
               reactivated : SUBSET Devices, victims : SUBSET Sids, at : Nat]

IdleLogin == [pc |-> "idle", user |-> None, device |-> None,
              reactivated |-> {}, victims |-> {}, at |-> 0]

ReqState == [pc : {"idle", "refresh", "logout", "block", "revoke",
                   "compromised", "close", "answer"},
             sid : Sids \cup {None}, hash : Token,
             reason : TerminationReasons \cup {NoReason}]

IdleReq == [pc |-> "idle", sid |-> None, hash |-> NoToken, reason |-> NoReason]

JobState == [pc : {"idle", "expired", "last"}, todo : SUBSET Sids,
             reason : TerminationReasons \cup {NoReason}, at : Nat, inactive : Nat]

IdleJob == [pc |-> "idle", todo |-> {}, reason |-> NoReason, at |-> 0,
            inactive |-> 0]

Init ==
    /\ now = 0
    /\ sess = [s \in Sids |-> Absent]
    /\ held = [s \in Sids |-> {}]
    /\ revoked = {}
    /\ blocked = {}
    /\ login = [r \in LoginReqs |-> IdleLogin]
    /\ req = [q \in Reqs |-> IdleReq]
    /\ job = [j \in Jobs |-> IdleJob]
    /\ failures = 0
    /\ revived = {}
    /\ cut = {}
-----------------------------------------------------------------------------
(* Queries of the session repository. *)

Open(s) == sess[s].state = "open"

Active(s) == Open(s) /\ sess[s].expiresAt > now

ActiveOfUser(u) == {s \in Sids : Active(s) /\ sess[s].user = u}

ActiveOnDevice(d) == {s \in Sids : Active(s) /\ sess[s].device = d}

(* Faulty: a reason the enumeration of the column does not list. *)
TerminatedUnlisted(x, reason) ==
    [x EXCEPT !.state = "terminated", !.terminationReason = "limit reached"]

(* What terminating a session writes: a reason left undefined writes nothing. *)
Terminated(x, reason) ==
    [x EXCEPT !.state = "terminated",
              !.terminationReason = IF reason = NoReason THEN @ ELSE reason]

(* Faulty: makes room for none, slice(0, n - max). *)
OldestOneShort(A, max) ==
    IF Cardinality(A) < max THEN {{}}
    ELSE {V \in SUBSET A :
            /\ Cardinality(V) = Cardinality(A) - max
            /\ \A v \in V, w \in A \ V :
                    sess[v].lastActivityAt <= sess[w].lastActivityAt}

(* The sets a login may terminate among the active sessions A so that one   *)
(* more fits under max: the least recently used, in any order among equals. *)
Oldest(A, max) ==
    IF Cardinality(A) < max THEN {{}}
    ELSE {V \in SUBSET A :
            /\ Cardinality(V) = Cardinality(A) - max + 1
            /\ \A v \in V, w \in A \ V :
                    sess[v].lastActivityAt <= sess[w].lastActivityAt}

(* Faulty: a lock taken before the row is written waits for itself. *)
HoldsLockEarly(r) == login[r].pc # "idle"

(* A login holds the row lock of its device from the UPDATE of createDevice *)
(* to its commit.                                                           *)
HoldsLock(r) == login[r].pc \in {"user", "commit"}

Locked(d) == \E r \in LoginReqs : HoldsLock(r) /\ login[r].device = d
-----------------------------------------------------------------------------
(* Login: the database steps of executeLoginTransaction, after the OTP was  *)
(* accepted and the user found.  The device d is the one createDevice hands *)
(* back; a device transferred between users may carry sessions of both.     *)

(* createDevice looks the device up; no lock yet.  The bound Sids leaves an *)
(* id for every login in flight.                                            *)
LoginBegin(r, u, d) ==
    /\ login[r].pc = "idle"
    /\ Cardinality({p \in LoginReqs : login[p].pc # "idle"})
         < Cardinality({s \in Sids : sess[s].state = "absent"})
    /\ login' = [login EXCEPT ![r] =
                    [IdleLogin EXCEPT !.pc = "device", !.user = u, !.device = d,
                                      !.reactivated = {d} \cap blocked]]
    /\ UNCHANGED <<now, sess, held, revoked, blocked, req, job, failures, revived, cut>>

(* Faulty: createDevice returns a known device without writing its row. *)
EnforceDeviceLimitUnlocked(r) ==
    /\ login[r].pc = "device"
    /\ \E V \in Oldest(ActiveOnDevice(login[r].device), MaxSessionsPerDevice) :
          login' = [login EXCEPT ![r].pc = "user", ![r].victims = V]
    /\ UNCHANGED <<now, sess, held, revoked, blocked, req, job, failures, revived, cut>>

(* createDevice updates the row, waiting for its lock, and the device limit *)
(* is enforced on a fresh read.                                             *)
EnforceDeviceSessionLimit(r) ==
    /\ login[r].pc = "device"
    /\ ~Locked(login[r].device)
    /\ \E V \in Oldest(ActiveOnDevice(login[r].device), MaxSessionsPerDevice) :
          login' = [login EXCEPT ![r].pc = "user", ![r].victims = V]
    /\ UNCHANGED <<now, sess, held, revoked, blocked, req, job, failures, revived, cut>>

(* The user limit, on a later read that sees this transaction's own writes, *)
(* and the new entity with its default expiry dates.                        *)
EnforceSessionLimit(r) ==
    /\ login[r].pc = "user"
    /\ \E V \in Oldest(ActiveOfUser(login[r].user) \ login[r].victims,
                       MaxSessionsPerUser) :
          login' = [login EXCEPT ![r].pc = "commit", ![r].at = now,
                                 ![r].victims = @ \cup V]
    /\ UNCHANGED <<now, sess, held, revoked, blocked, req, job, failures, revived, cut>>

NewSession(l, t) ==
    [state |-> "open", terminationReason |-> NoReason,
     user |-> l.user, device |-> l.device,
     lastActivityAt |-> l.at, expiresAt |-> l.at + SessionTTL,
     maxExpiresAt |-> l.at + MaxTTL, refreshTokenHash |-> t]

(* The tokens are issued and everything the transaction wrote appears. *)
LoginCommit(r, s) ==
    LET l == login[r]
        t == [n |-> 1, iat |-> now]
    IN  /\ l.pc = "commit"
        /\ sess[s].state = "absent"
        /\ sess' = [x \in Sids |-> IF x = s THEN NewSession(l, t)
                                   ELSE IF x \in l.victims
                                   THEN Terminated(sess[x], "LIMIT")
                                   ELSE sess[x]]
        /\ held' = [held EXCEPT ![s] = {t}]
        /\ blocked' = blocked \ l.reactivated
        /\ login' = [login EXCEPT ![r] = IdleLogin]
        /\ UNCHANGED <<now, revoked, req, job, failures, revived, cut>>

(* Any error inside the transaction, a deadlock Postgres breaks included. *)
LoginRollback(r) ==
    /\ login[r].pc # "idle"
    /\ login' = [login EXCEPT ![r] = IdleLogin]
    /\ UNCHANGED <<now, sess, held, revoked, blocked, req, job, failures, revived, cut>>
-----------------------------------------------------------------------------
(* The refresh-token guard of both handlers.  A request presents any token  *)
(* its session was handed whose JWT has not expired.                        *)

(* bcrypt reads 72 bytes of the JWT: a number of leading digits of iat that *)
(* depends on the length of the issuer's name.                              *)
Compare(t, hash) == t.iat \div IatUnit = hash.iat \div IatUnit

Expired(x) == now > x.expiresAt \/ now > x.maxExpiresAt

(* Faulty: the query does not ask for sessions without terminatedAt. *)
PresentsClosed(q, s, t) ==
    /\ req[q].pc = "idle"
    /\ t \in held[s]
    /\ now < t.iat + RefreshTTL

Presents(q, s, t) ==
    /\ req[q].pc = "idle"
    /\ t \in held[s]
    /\ now < t.iat + RefreshTTL
    /\ Open(s)

(* The guard hands the session it read on; of its columns only the hash is  *)
(* used later, when it is to be recorded as compromised.                    *)
GuardStep(q, s, pc, reason, hash) ==
    /\ req' = [req EXCEPT ![q] = [pc |-> pc, sid |-> s, reason |-> reason,
                                  hash |-> hash]]
    /\ UNCHANGED <<now, sess, held, revoked, blocked, login, job, failures, revived, cut>>

GuardExpired(q, s, t) ==
    /\ Presents(q, s, t)
    /\ Expired(sess[s])
    /\ GuardStep(q, s, "close", "TIMEOUT", NoToken)

GuardMismatch(q, s, t) ==
    /\ Presents(q, s, t)
    /\ ~Expired(sess[s])
    /\ ~Compare(t, sess[s].refreshTokenHash)
    /\ GuardStep(q, s, "compromised", "REVOKED", sess[s].refreshTokenHash)

(* The bound MaxTokens leaves room for the refreshes already admitted. *)
GuardAccept(q, s, t, handler) ==
    /\ Presents(q, s, t)
    /\ ~Expired(sess[s])
    /\ Compare(t, sess[s].refreshTokenHash)
    /\ handler = "refresh" =>
          sess[s].refreshTokenHash.n
            + Cardinality({p \in Reqs : req[p].pc = "refresh" /\ req[p].sid = s})
            < MaxTokens
    /\ GuardStep(q, s, handler, NoReason, NoToken)

(* Faulty: answers 401 as soon as the token is recorded. *)
RevokeCompromisedOnly(q) ==
    /\ req[q].pc = "compromised"
    /\ revoked' = revoked \cup {<<req[q].sid, req[q].hash>>}
    /\ req' = [req EXCEPT ![q] = IdleReq]
    /\ UNCHANGED <<now, sess, held, blocked, login, job, failures, revived, cut>>

(* createRevokedToken of a mismatch: a hash already there is an error, and  *)
(* the request ends before it terminates the session.                       *)
RevokeCompromised(q) ==
    LET row == <<req[q].sid, req[q].hash>>
    IN  /\ req[q].pc = "compromised"
        /\ revoked' = revoked \cup {row}
        /\ req' = IF row \in revoked THEN [req EXCEPT ![q] = IdleReq]
                                     ELSE [req EXCEPT ![q].pc = "close"]
        /\ UNCHANGED <<now, sess, held, blocked, login, job, failures, revived, cut>>

(* The guard terminates the session it read and answers 401. *)
GuardClose(q) ==
    /\ req[q].pc = "close"
    /\ sess' = [sess EXCEPT ![req[q].sid] = Terminated(@, req[q].reason)]
    /\ req' = [req EXCEPT ![q] = IdleReq]
    /\ UNCHANGED <<now, held, revoked, blocked, login, job, failures, revived, cut>>
-----------------------------------------------------------------------------
NextToken(s) == [n |-> sess[s].refreshTokenHash.n + 1, iat |-> now]

(* Faulty: saves the whole entity as the guard read it. *)
RefreshedWholeRow(x, t) ==
    [x EXCEPT !.state = "open", !.terminationReason = NoReason,
              !.expiresAt = now + RefreshTTL, !.lastActivityAt = now,
              !.refreshTokenHash = t]

(* Faulty: renews the absolute maximum together with the expiry. *)
RefreshedForever(x, t) ==
    [x EXCEPT !.expiresAt = now + RefreshTTL, !.maxExpiresAt = now + MaxTTL,
              !.lastActivityAt = now, !.refreshTokenHash = t]

(* Faulty: the hash of the token that is handed out is not stored. *)
RefreshedUnsaved(x, t) ==
    [x EXCEPT !.expiresAt = now + RefreshTTL, !.lastActivityAt = now]

(* The columns refreshToken changes. *)
Refreshed(x, t) ==
    [x EXCEPT !.expiresAt = now + RefreshTTL, !.lastActivityAt = now,
              !.refreshTokenHash = t]

(* refreshToken issues a token and stores its hash ... *)
RefreshToken(q) ==
    LET s == req[q].sid
        t == NextToken(s)
    IN  /\ req[q].pc = "refresh"
        /\ sess' = [sess EXCEPT ![s] = Refreshed(@, t)]
        /\ revived' = IF Active(s) THEN revived ELSE revived \cup {s}
        /\ req' = [req EXCEPT ![q].pc = "answer", ![q].hash = t]
        /\ UNCHANGED <<now, held, revoked, blocked, login, job, failures, cut>>

(* ... and hands it out once its security event is recorded ... *)
RefreshAnswer(q) ==
    /\ req[q].pc = "answer"
    /\ held' = [held EXCEPT ![req[q].sid] = @ \cup {req[q].hash}]
    /\ req' = [req EXCEPT ![q] = IdleReq]
    /\ UNCHANGED <<now, sess, revoked, blocked, login, job, failures, revived, cut>>

(* ... or answers 401 when that fails, with the hash already stored. *)
RefreshFails(q) ==
    /\ req[q].pc = "answer"
    /\ failures < MaxFailures
    /\ failures' = failures + 1
    /\ cut' = cut \cup {req[q].sid}
    /\ req' = [req EXCEPT ![q] = IdleReq]
    /\ UNCHANGED <<now, sess, held, revoked, blocked, login, job, revived>>

(* validateUserStatus: the user may not sign in any more. *)
RequestRefused(q) ==
    /\ req[q].pc \in {"refresh", "logout"}
    /\ req' = [req EXCEPT ![q] = IdleReq]
    /\ UNCHANGED <<now, sess, held, revoked, blocked, login, job, failures, revived, cut>>

(* logout, write by write.  updateBySessionId reads the row again, which    *)
(* refreshes the columns the request has not changed.                       *)
LogoutTerminate(q) ==
    LET s == req[q].sid
    IN  /\ req[q].pc = "logout"
        /\ sess' = [sess EXCEPT ![s] = Terminated(@, "LOGOUT")]
        /\ req' = [req EXCEPT ![q].pc = "block",
                              ![q].hash = sess[s].refreshTokenHash]
        /\ UNCHANGED <<now, held, revoked, blocked, login, job, failures, revived, cut>>

(* Faulty: returns when another logout has blocked the device. *)
LogoutBlockDeviceOnce(q) ==
    LET d == sess[req[q].sid].device
    IN  /\ req[q].pc = "block"
        /\ ~Locked(d)
        /\ blocked' = blocked \cup {d}
        /\ req' = IF d \in blocked THEN [req EXCEPT ![q] = IdleReq]
                                  ELSE [req EXCEPT ![q].pc = "revoke"]
        /\ UNCHANGED <<now, sess, held, revoked, login, job, failures, revived, cut>>

LogoutBlockDevice(q) ==
    LET d == sess[req[q].sid].device
    IN  /\ req[q].pc = "block"
        /\ ~Locked(d)
        /\ blocked' = blocked \cup {d}
        /\ req' = [req EXCEPT ![q].pc = "revoke"]
        /\ UNCHANGED <<now, sess, held, revoked, login, job, failures, revived, cut>>

LogoutRevokeToken(q) ==
    /\ req[q].pc = "revoke"
    /\ revoked' = revoked \cup {<<req[q].sid, req[q].hash>>}
    /\ req' = [req EXCEPT ![q] = IdleReq]
    /\ UNCHANGED <<now, sess, held, blocked, login, job, failures, revived, cut>>
-----------------------------------------------------------------------------
(* Bulk termination: one read, then one UPDATE per session of the list.     *)
(* Runs overlap: the clean-up of the week starts on Sunday at midnight, that*)
(* of the day at two, an admin's at any time.                               *)

StartJob(j, pc, list, reason, inactive) ==
    /\ job[j].pc = "idle"
    /\ job' = [job EXCEPT ![j] = [pc |-> pc, todo |-> list, reason |-> reason,
                                  at |-> IF pc = "expired" THEN now ELSE 0,
                                  inactive |-> inactive]]
    /\ UNCHANGED <<now, sess, held, revoked, blocked, login, req, failures, revived, cut>>

TerminateAllUserSessions(j, u, reason) ==
    StartJob(j, "last", ActiveOfUser(u), reason, 0)

TerminateAllDeviceSessions(j, d, reason) ==
    StartJob(j, "last", ActiveOnDevice(d), reason, 0)

LongExpired(s, t, age) == Open(s) /\ sess[s].expiresAt + age < t

LongInactive(s, t, age) ==
    Open(s) /\ sess[s].lastActivityAt + age < t /\ sess[s].expiresAt > t

(* cleanupOrphanedSessions, first the sessions that expired long ago ... *)
CleanupExpired(j, c) ==
    StartJob(j, "expired", {s \in Sids : LongExpired(s, now, c.expired)}, "TIMEOUT",
             c.inactive)

(* Faulty: the second list replaces the first before its end. *)
CleanupInactiveEarly(j) ==
    /\ job[j].pc = "expired"
    /\ job' = [job EXCEPT ![j].pc = "last", ![j].at = 0,
                          ![j].todo = {s \in Sids :
                                          LongInactive(s, job[j].at, job[j].inactive)}]
    /\ UNCHANGED <<now, sess, held, revoked, blocked, login, req, failures, revived, cut>>

(* ... then those not used for long, both relative to when it started. *)
CleanupInactive(j) ==
    /\ job[j].pc = "expired"
    /\ job[j].todo = {}
    /\ job' = [job EXCEPT ![j].pc = "last", ![j].at = 0,
                          ![j].todo = {s \in Sids :
                                          LongInactive(s, job[j].at, job[j].inactive)}]
    /\ UNCHANGED <<now, sess, held, revoked, blocked, login, req, failures, revived, cut>>

TerminateNext(j, s) ==
    /\ s \in job[j].todo
    /\ sess' = [sess EXCEPT ![s] = Terminated(@, job[j].reason)]
    /\ job' = [job EXCEPT ![j].todo = @ \ {s}]
    /\ UNCHANGED <<now, held, revoked, blocked, login, req, failures, revived, cut>>

JobEnd(j) ==
    /\ job[j].pc = "last"
    /\ job[j].todo = {}
    /\ job' = [job EXCEPT ![j] = IdleJob]
    /\ UNCHANGED <<now, sess, held, revoked, blocked, login, req, failures, revived, cut>>
-----------------------------------------------------------------------------
(* The API process stops: nothing in flight there ends, no login commits. *)
ApiCrash ==
    /\ failures < MaxFailures
    /\ failures' = failures + 1
    /\ cut' = cut \cup {req[q].sid : q \in {p \in Reqs : req[p].pc # "idle"}}
    /\ login' = [r \in LoginReqs |-> IdleLogin]
    /\ req' = [q \in Reqs |-> IdleReq]
    /\ UNCHANGED <<now, sess, held, revoked, blocked, job, revived>>

(* A bulk termination fails between two of its UPDATEs. *)
JobAbort(j) ==
    /\ failures < MaxFailures
    /\ job[j].pc # "idle"
    /\ failures' = failures + 1
    /\ job' = [job EXCEPT ![j] = IdleJob]
    /\ UNCHANGED <<now, sess, held, revoked, blocked, login, req, revived, cut>>

Tick ==
    /\ now < MaxTime
    /\ now' = now + 1
    /\ UNCHANGED <<sess, held, revoked, blocked, login, req, job, failures, revived, cut>>

LoginStep(r) ==
    \/ EnforceDeviceSessionLimit(r)
    \/ EnforceSessionLimit(r)
    \/ \E s \in Sids : LoginCommit(r, s)

ReqStep(q) ==
    \/ RevokeCompromised(q)
    \/ GuardClose(q)
    \/ RequestRefused(q)
    \/ RefreshToken(q)
    \/ RefreshAnswer(q)
    \/ LogoutTerminate(q)
    \/ LogoutBlockDevice(q)
    \/ LogoutRevokeToken(q)

JobStep(j) ==
    \/ CleanupInactive(j)
    \/ \E s \in Sids : TerminateNext(j, s)
    \/ JobEnd(j)

Next ==
    \/ Tick
    \/ \E r \in LoginReqs :
          \/ \E u \in Users, d \in Devices : LoginBegin(r, u, d)
          \/ LoginStep(r)
          \/ LoginRollback(r)
    \/ \E q \in Reqs :
          \/ \E s \in Sids : \E t \in held[s] :
                \/ GuardExpired(q, s, t)
                \/ GuardMismatch(q, s, t)
                \/ \E handler \in {"refresh", "logout"} : GuardAccept(q, s, t, handler)
          \/ ReqStep(q)
          \/ RefreshFails(q)
    \/ \E j \in Jobs :
          \/ \E reason \in AdminReasons :
                \/ \E u \in Users : TerminateAllUserSessions(j, u, reason)
                \/ \E d \in Devices : TerminateAllDeviceSessions(j, d, reason)
          \/ \E c \in Cleanups : CleanupExpired(j, c)
          \/ JobStep(j)
          \/ JobAbort(j)
    \/ ApiCrash

Spec == Init /\ [][Next]_vars

(* Requests and jobs that started are run to their end, and the row lock of *)
(* a device is granted to each login and logout that waits for it (Postgres *)
(* queues them).  Nothing is assumed of clients, admins, the cron and time. *)
Fairness ==
    /\ \A r \in LoginReqs : SF_vars(EnforceDeviceSessionLimit(r))
    /\ \A r \in LoginReqs : WF_vars(EnforceSessionLimit(r)
                                      \/ \E s \in Sids : LoginCommit(r, s))
    /\ \A q \in Reqs : WF_vars(ReqStep(q)) /\ SF_vars(LogoutBlockDevice(q))
    /\ \A j \in Jobs : WF_vars(JobStep(j))

FairSpec == Spec /\ Fairness
-----------------------------------------------------------------------------
(* Every variable holds values of the columns and records it models. *)
TypeOK ==
    /\ now \in Nat
    /\ sess \in [Sids -> Session]
    /\ held \in [Sids -> SUBSET Token]
    /\ revoked \subseteq Revocation
    /\ blocked \subseteq Devices \cup {None}
    /\ login \in [LoginReqs -> LoginState]
    /\ req \in [Reqs -> ReqState]
    /\ job \in [Jobs -> JobState]
    /\ failures \in Nat
    /\ revived \subseteq Sids
    /\ cut \subseteq Sids

(* However many logins run at once, a device never has more active sessions *)
(* than maxSessionsPerDevice: the lock createDevice takes on the device row *)
(* makes the check and the insert of createSessionWithLimits one step.      *)
(* Sessions that a refresh brought back after they had expired are not      *)
(* seen by the count and are left out.                                      *)
DeviceLimit ==
    \A d \in Devices :
        Cardinality(ActiveOnDevice(d) \ revived) <= MaxSessionsPerDevice

(* Nothing makes the user's check and insert one step, so logins from       *)
(* several devices overshoot maxSessionsPerUser, but only by the number of  *)
(* logins in flight beside the one that commits, and never cumulatively.    *)
UserOvershoot ==
    \A u \in Users :
        Cardinality(ActiveOfUser(u) \ revived)
            <= MaxSessionsPerUser - 1 + Cardinality(LoginReqs)

(* What the session limit is documented to be. *)
UserLimit ==
    \A u \in Users : Cardinality(ActiveOfUser(u)) <= MaxSessionsPerUser

(* A terminated session is never open again, whatever handlers that read it *)
(* before its termination still write to it: a refresh in flight writes     *)
(* expiry, activity and hash, never terminatedAt.                           *)
TerminatedForGood ==
    [][\A s \in Sids : sess[s].state = "terminated"
                          => sess'[s].state = "terminated"]_vars

(* A session whose current token was recorded as compromised is closed or   *)
(* some request is about to close it.  Only a failure that cuts a request on*)
(* that session short loses the second write; the unique hash then makes    *)
(* the guard fail before it could close the session.                        *)
CompromisedClosed ==
    \A s \in Sids :
        Open(s) /\ <<s, sess[s].refreshTokenHash>> \in revoked
            => \/ \E q \in Reqs : req[q].pc = "close" /\ req[q].sid = s
               \/ s \in cut

(* Requests with one token may all be admitted, each stores the hash of     *)
(* another token, and only later hands it out, or fails.  Whoever keeps an  *)
(* older answer presents a token that the guard takes for compromised; but  *)
(* never is a client's token refused for one that nobody is to have: the    *)
(* one that replaced it is held by a client, or about to be handed out, or  *)
(* its answer was cut short.                                                *)
OnlyReplacedMismatch ==
    \A s \in Sids : \A t \in held[s] :
        Open(s) /\ ~Compare(t, sess[s].refreshTokenHash)
            => \/ \E u \in held[s] :
                     u.n > t.n /\ Compare(u, sess[s].refreshTokenHash)
               \/ \E q \in Reqs : /\ req[q].pc = "answer" /\ req[q].sid = s
                                   /\ req[q].hash = sess[s].refreshTokenHash
               \/ s \in cut

(* logout is three transactions, and other handlers write the session and   *)
(* the device between them.  What it started it finishes unless a failure   *)
(* cuts a request on that session short: a session that carries its reason  *)
(* has a token on record, or a logout of it is still on its way there.      *)
(* (Unless an admin passes that reason for a termination of his own.)       *)
LogoutRecorded ==
    \A s \in Sids :
        sess[s].terminationReason = "LOGOUT" /\ "LOGOUT" \notin AdminReasons
            => \/ \E row \in revoked : row[1] = s
               \/ \E q \in Reqs : req[q].pc \in {"block", "revoke"} /\ req[q].sid = s
               \/ s \in cut

(* The guard admits no request whose session carries a revoked token. *)
RevokedNeverAdmitted ==
    [][\A q \in Reqs :
          req[q].pc = "idle" /\ req'[q].pc \in {"refresh", "logout"}
             => <<req'[q].sid, sess[req'[q].sid].refreshTokenHash>> \notin revoked]_vars

(* What a bulk termination has listed it terminates, one UPDATE after the   *)
(* other, whatever is written to the rows meanwhile, unless it fails: the   *)
(* second list of a clean-up never displaces what is left of the first, and *)
(* it does not end before its list does.                                    *)
ListedAreEnded ==
    [][\A j \in Jobs, s \in Sids :
          s \in job[j].todo /\ s \notin job'[j].todo
             => sess'[s].state = "terminated" \/ failures' > failures]_vars

(* Logins and logouts that wait for a device's row lock get it: no two of   *)
(* them wait for each other.                                                *)
RequestsEnd ==
    /\ \A r \in LoginReqs : login[r].pc # "idle" ~> login[r].pc = "idle"
    /\ \A q \in Reqs : req[q].pc # "idle" ~> req[q].pc = "idle"
=============================================================================
