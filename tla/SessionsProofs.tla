--------------------------- MODULE SessionsProofs ---------------------------
(* Proofs about Sessions, for every value of its constants. *)
EXTENDS Sessions, FiniteSetTheorems, TLAPS

(* What the types of Sessions rest on: a request past its guard names a     *)
(* session of the table.                                                    *)
WellFormed == \A q \in Reqs : req[q].pc # "idle" => req[q].sid \in Sids

TypeInv == TypeOK /\ WellFormed

LEMMA OldestSubset ==
    ASSUME NEW A, NEW max, NEW V \in Oldest(A, max)
    PROVE  V \subseteq A
BY DEF Oldest

LEMMA TerminatedType ==
    ASSUME NEW x \in Session, NEW reason \in TerminationReasons \cup {NoReason}
    PROVE  /\ Terminated(x, reason) \in Session
           /\ Terminated(x, reason).state = "terminated"
           /\ Terminated(x, reason).refreshTokenHash = x.refreshTokenHash
BY DEF Terminated, Session

(* A refresh changes expiry, activity and hash, and no other column. *)
LEMMA RefreshedIs ==
    ASSUME NEW x \in Session, NEW t \in Token, now \in Nat
    PROVE  /\ Refreshed(x, t) \in Session
           /\ Refreshed(x, t).state = x.state
           /\ Refreshed(x, t).terminationReason = x.terminationReason
           /\ Refreshed(x, t).user = x.user /\ Refreshed(x, t).device = x.device
           /\ Refreshed(x, t).expiresAt = now + RefreshTTL
           /\ Refreshed(x, t).maxExpiresAt = x.maxExpiresAt
           /\ Refreshed(x, t).refreshTokenHash = t
<1>1. now + RefreshTTL \in Nat
    BY TimesAssumption
<1> QED
    BY <1>1 DEF Refreshed, Session

LEMMA NextTokenType ==
    ASSUME TypeOK, NEW s \in Sids
    PROVE  NextToken(s) \in Token
BY DEF TypeOK, NextToken, Session, Token

LEMMA NoTokenType == NoToken \in Token
<1> QED
    BY DEF NoToken, Token

LEMMA InitTypes == Init => TypeInv
<1> SUFFICES ASSUME Init PROVE TypeInv
    OBVIOUS
<1>1. NoToken \in Token
    BY DEF NoToken, Token
<1>2. Absent \in Session
    BY <1>1 DEF Absent, Session
<1>3. IdleLogin \in LoginState
    BY DEF IdleLogin, LoginState
<1>4. IdleReq \in ReqState
    BY <1>1 DEF IdleReq, ReqState
<1>5. IdleJob \in JobState
    BY DEF IdleJob, JobState
<1>6. TypeOK
    BY <1>2, <1>3, <1>4, <1>5 DEF Init, TypeOK
<1>7. WellFormed
    BY DEF Init, WellFormed, IdleReq
<1> QED
    BY <1>6, <1>7 DEF TypeInv

LEMMA LoginTypes ==
    ASSUME TypeInv, NEW r \in LoginReqs,
           \/ \E u \in Users, d \in Devices : LoginBegin(r, u, d)
           \/ LoginStep(r)
           \/ LoginRollback(r)
    PROVE  TypeInv'
<1> USE DEF TypeInv
<1>1. ASSUME NEW u \in Users, NEW d \in Devices, LoginBegin(r, u, d)
      PROVE  TypeInv'
    BY <1>1 DEF LoginBegin, TypeOK, WellFormed, IdleLogin, LoginState
<1>2. CASE EnforceDeviceSessionLimit(r)
  <2>1. PICK V \in Oldest(ActiveOnDevice(login[r].device), MaxSessionsPerDevice) :
            login' = [login EXCEPT ![r].pc = "user", ![r].victims = V]
    BY <1>2 DEF EnforceDeviceSessionLimit
  <2>2. V \in SUBSET Sids
    BY OldestSubset DEF ActiveOnDevice
  <2>3. [login[r] EXCEPT !.pc = "user", !.victims = V] \in LoginState
    BY <2>2 DEF TypeOK, LoginState
  <2>4. login' = [login EXCEPT ![r] = [@ EXCEPT !.pc = "user", !.victims = V]]
    BY <2>1
  <2>5. login' \in [LoginReqs -> LoginState]
    BY <2>3, <2>4 DEF TypeOK
  <2> QED
    BY <1>2, <2>5 DEF EnforceDeviceSessionLimit, TypeOK, WellFormed
<1>3. CASE EnforceSessionLimit(r)
  <2>1. PICK V \in Oldest(ActiveOfUser(login[r].user) \ login[r].victims,
                          MaxSessionsPerUser) :
            login' = [login EXCEPT ![r].pc = "commit", ![r].at = now,
                                   ![r].victims = @ \cup V]
    BY <1>3 DEF EnforceSessionLimit
  <2>2. V \in SUBSET Sids
    BY OldestSubset DEF ActiveOfUser
  <2> DEFINE l == [login[r] EXCEPT !.pc = "commit", !.at = now,
                                   !.victims = login[r].victims \cup V]
  <2>3. l \in LoginState
    BY <2>2 DEF TypeOK, LoginState
  <2>4. login' = [login EXCEPT ![r] = l]
    BY <2>1 DEF TypeOK, LoginState
  <2>5. login' \in [LoginReqs -> LoginState]
    BY <2>3, <2>4 DEF TypeOK
  <2> QED
    BY <1>3, <2>5 DEF EnforceSessionLimit, TypeOK, WellFormed
<1>4. ASSUME NEW s \in Sids, LoginCommit(r, s)
      PROVE  TypeInv'
  <2> DEFINE t == [n |-> 1, iat |-> now]
  <2>1. t \in Token
    BY DEF TypeOK, Token
  <2>2. NewSession(login[r], t) \in Session
    BY <2>1, TimesAssumption DEF NewSession, Session, TypeOK, LoginState
  <2>3. \A x \in Sids : Terminated(sess[x], "LIMIT") \in Session
    BY TerminatedType DEF TypeOK, TerminationReasons
  <2>4. sess' \in [Sids -> Session]
    BY <1>4, <2>2, <2>3 DEF LoginCommit, TypeOK
  <2>5. held' \in [Sids -> SUBSET Token]
    BY <1>4, <2>1 DEF LoginCommit, TypeOK
  <2>7. login' \in [LoginReqs -> LoginState]
    BY <1>4 DEF LoginCommit, TypeOK, IdleLogin, LoginState
  <2>8. blocked' \subseteq Devices \cup {None}
    BY <1>4 DEF LoginCommit, TypeOK
  <2> QED
    BY <1>4, <2>4, <2>5, <2>7, <2>8 DEF LoginCommit, TypeOK, WellFormed
<1>5. CASE LoginRollback(r)
    BY <1>5 DEF LoginRollback, TypeOK, WellFormed, IdleLogin, LoginState
<1> QED
    BY <1>1, <1>2, <1>3, <1>4, <1>5 DEF LoginStep

LEMMA RequestTypes ==
    ASSUME TypeInv, NEW q \in Reqs,
           \/ \E s \in Sids : \E t \in held[s] :
                 \/ GuardExpired(q, s, t)
                 \/ GuardMismatch(q, s, t)
                 \/ \E handler \in {"refresh", "logout"} :
                       GuardAccept(q, s, t, handler)
           \/ ReqStep(q)
           \/ RefreshFails(q)
    PROVE  TypeInv'
<1> USE DEF TypeInv
<1>1. ASSUME NEW s \in Sids,
             NEW pc \in {"refresh", "logout", "compromised", "close"},
             NEW reason \in TerminationReasons \cup {NoReason}, NEW hash \in Token,
             GuardStep(q, s, pc, reason, hash)
      PROVE  TypeInv'
    BY <1>1 DEF GuardStep, TypeOK, WellFormed, ReqState, Session
<1>2. ASSUME NEW s \in Sids, NEW t \in held[s], GuardExpired(q, s, t)
      PROVE  TypeInv'
    BY <1>1, <1>2, NoTokenType DEF GuardExpired, TerminationReasons
<1>3. ASSUME NEW s \in Sids, NEW t \in held[s], GuardMismatch(q, s, t)
      PROVE  TypeInv'
    BY <1>1, <1>3 DEF GuardMismatch, TerminationReasons, TypeOK, Session
<1>4. ASSUME NEW s \in Sids, NEW t \in held[s],
             NEW handler \in {"refresh", "logout"}, GuardAccept(q, s, t, handler)
      PROVE  TypeInv'
    BY <1>1, <1>4, NoTokenType DEF GuardAccept
<1>5. IdleReq \in ReqState
    BY DEF IdleReq, ReqState, NoToken, Token
<1>6. CASE RevokeCompromised(q)
  <2>1. req[q].sid \in Sids /\ req[q].hash \in Token
    BY <1>6 DEF RevokeCompromised, TypeOK, WellFormed, ReqState
  <2>2. revoked' \subseteq Sids \X Token
    BY <1>6, <2>1 DEF RevokeCompromised, TypeOK, Revocation
  <2>3. /\ req' \in [Reqs -> ReqState]
        /\ \A p \in Reqs : req'[p].pc # "idle" => req'[p].sid \in Sids
    BY <1>5, <1>6 DEF RevokeCompromised, TypeOK, WellFormed, ReqState, IdleReq
  <2> QED
    BY <1>6, <2>2, <2>3 DEF RevokeCompromised, TypeOK, Revocation, WellFormed
<1>7. CASE GuardClose(q)
  <2>1. Terminated(sess[req[q].sid], req[q].reason) \in Session
    BY <1>7, TerminatedType DEF GuardClose, TypeOK, WellFormed, ReqState
  <2>2. sess' \in [Sids -> Session]
    BY <1>7, <2>1 DEF GuardClose, TypeOK
  <2>3. /\ req' \in [Reqs -> ReqState]
        /\ \A p \in Reqs : req'[p].pc # "idle" => req'[p].sid \in Sids
    BY <1>5, <1>7 DEF GuardClose, TypeOK, WellFormed, IdleReq
  <2> QED
    BY <1>7, <2>2, <2>3 DEF GuardClose, TypeOK, WellFormed
<1>8. CASE RefreshToken(q)
  <2> DEFINE s == req[q].sid
             t == NextToken(s)
  <2>1. s \in Sids
    BY <1>8 DEF RefreshToken, WellFormed
  <2>2. t \in Token
    BY <2>1 DEF NextToken, TypeOK, Session, Token
  <2>3. Refreshed(sess[s], t) \in Session
    BY <2>1, <2>2, RefreshedIs DEF TypeOK
  <2>4. sess' \in [Sids -> Session]
    BY <1>8, <2>3 DEF RefreshToken, TypeOK
  <2>5. revived' \subseteq Sids
    BY <1>8, <2>1 DEF RefreshToken, TypeOK
  <2>6. req' \in [Reqs -> ReqState]
    <3> DEFINE l == [req[q] EXCEPT !.pc = "answer", !.hash = t]
    <3>1. l \in ReqState
      <4> HIDE DEF t
      <4> QED
        BY <2>2 DEF TypeOK, ReqState
    <3>2. req' = [req EXCEPT ![q] = l]
      BY <1>8 DEF RefreshToken, TypeOK, ReqState
    <3> HIDE DEF l
    <3> QED
      BY <3>1, <3>2 DEF TypeOK
  <2>7. \A p \in Reqs : req'[p].pc # "idle" => req'[p].sid \in Sids
    BY <1>8, <2>1 DEF RefreshToken, TypeOK, WellFormed, ReqState
  <2> QED
    BY <1>8, <2>4, <2>5, <2>6, <2>7 DEF RefreshToken, TypeOK, WellFormed
<1>12. CASE RefreshAnswer(q)
  <2>1. req[q].sid \in Sids /\ req[q].hash \in Token
    BY <1>12 DEF RefreshAnswer, TypeOK, WellFormed, ReqState
  <2>2. held' \in [Sids -> SUBSET Token]
    BY <1>12, <2>1 DEF RefreshAnswer, TypeOK
  <2> QED
    BY <1>5, <1>12, <2>2 DEF RefreshAnswer, TypeOK, WellFormed, IdleReq
<1>13. CASE RefreshFails(q)
  <2>1. cut' \subseteq Sids
    BY <1>13 DEF RefreshFails, TypeOK, WellFormed
  <2> QED
    BY <1>5, <1>13, <2>1 DEF RefreshFails, TypeOK, WellFormed, IdleReq
<1>14. CASE RequestRefused(q)
  BY <1>5, <1>14 DEF RequestRefused, TypeOK, WellFormed, IdleReq
<1>9. CASE LogoutTerminate(q)
  <2>1. req[q].sid \in Sids
    BY <1>9 DEF LogoutTerminate, WellFormed
  <2>2. Terminated(sess[req[q].sid], "LOGOUT") \in Session
    BY <2>1, TerminatedType DEF TypeOK, TerminationReasons
  <2>3. sess' \in [Sids -> Session]
    BY <1>9, <2>1, <2>2 DEF LogoutTerminate, TypeOK
  <2>4. sess[req[q].sid].refreshTokenHash \in Token
    BY <2>1 DEF TypeOK, Session
  <2>5. req' \in [Reqs -> ReqState]
    <3> DEFINE l == [req[q] EXCEPT !.pc = "block",
                                   !.hash = sess[req[q].sid].refreshTokenHash]
    <3>1. l \in ReqState
      BY <2>4 DEF TypeOK, ReqState
    <3>2. req' = [req EXCEPT ![q] = l]
      BY <1>9 DEF LogoutTerminate, TypeOK, ReqState
    <3> HIDE DEF l
    <3> QED
      BY <3>1, <3>2 DEF TypeOK
  <2>6. \A p \in Reqs : req'[p].pc # "idle" => req'[p].sid \in Sids
    BY <1>9, <2>1 DEF LogoutTerminate, TypeOK, WellFormed, ReqState
  <2> QED
    BY <1>9, <2>3, <2>5, <2>6 DEF LogoutTerminate, TypeOK, WellFormed
<1>10. CASE LogoutBlockDevice(q)
  <2>1. sess[req[q].sid].device \in Devices \cup {None}
    BY <1>10 DEF LogoutBlockDevice, TypeOK, WellFormed, Session
  <2> QED
    BY <1>10, <2>1 DEF LogoutBlockDevice, TypeOK, WellFormed, ReqState
<1>11. CASE LogoutRevokeToken(q)
  <2>1. req[q].sid \in Sids /\ req[q].hash \in Token
    BY <1>11 DEF LogoutRevokeToken, TypeOK, WellFormed, ReqState
  <2> QED
    BY <1>5, <1>11, <2>1 DEF LogoutRevokeToken, TypeOK, Revocation, WellFormed, IdleReq
<1> QED
    BY <1>2, <1>3, <1>4, <1>6, <1>7, <1>8, <1>9, <1>10, <1>11, <1>12, <1>13, <1>14
    DEF ReqStep

LEMMA JobTypes ==
    ASSUME TypeInv, NEW j \in Jobs,
           \/ \E reason \in AdminReasons :
                 \/ \E u \in Users : TerminateAllUserSessions(j, u, reason)
                 \/ \E d \in Devices : TerminateAllDeviceSessions(j, d, reason)
           \/ \E c \in Cleanups : CleanupExpired(j, c)
           \/ JobStep(j)
           \/ JobAbort(j)
    PROVE  TypeInv'
<1> USE DEF TypeInv
<1>1. ASSUME NEW pc \in {"expired", "last"}, NEW list \in SUBSET Sids,
             NEW reason \in TerminationReasons \cup {NoReason}, NEW age \in Nat,
             StartJob(j, pc, list, reason, age)
      PROVE  TypeInv'
    BY <1>1 DEF StartJob, TypeOK, WellFormed, JobState
<1>2. ASSUME NEW reason \in AdminReasons, NEW u \in Users,
             TerminateAllUserSessions(j, u, reason)
      PROVE  TypeInv'
    BY <1>1, <1>2, SetsAssumption DEF TerminateAllUserSessions, ActiveOfUser
<1>3. ASSUME NEW reason \in AdminReasons, NEW d \in Devices,
             TerminateAllDeviceSessions(j, d, reason)
      PROVE  TypeInv'
    BY <1>1, <1>3, SetsAssumption DEF TerminateAllDeviceSessions, ActiveOnDevice
<1>4. ASSUME NEW c \in Cleanups, CleanupExpired(j, c) PROVE TypeInv'
    BY <1>1, <1>4, CleanupsAssumption DEF CleanupExpired, Cleanup, TerminationReasons
<1>5. CASE CleanupInactive(j)
  <2> DEFINE l == [job[j] EXCEPT !.pc = "last", !.at = 0,
                                 !.todo = {s \in Sids : LongInactive(s, job[j].at, job[j].inactive)}]
  <2>1. l \in JobState
    BY DEF TypeOK, JobState
  <2>2. job' = [job EXCEPT ![j] = l]
    BY <1>5 DEF CleanupInactive, TypeOK, JobState
  <2>3. job' \in [Jobs -> JobState]
    <3> HIDE DEF l
    <3> QED
      BY <2>1, <2>2 DEF TypeOK
  <2> QED
    BY <1>5, <2>3 DEF CleanupInactive, TypeOK, WellFormed
<1>6. ASSUME NEW s \in Sids, TerminateNext(j, s)
      PROVE  TypeInv'
  <2>1. Terminated(sess[s], job[j].reason) \in Session
    BY <1>6, TerminatedType DEF TypeOK, JobState
  <2> QED
    BY <1>6, <2>1 DEF TerminateNext, TypeOK, WellFormed, JobState
<1>7. IdleJob \in JobState
    BY DEF IdleJob, JobState
<1>8. CASE JobEnd(j)
    BY <1>7, <1>8 DEF JobEnd, TypeOK, WellFormed
<1>9. CASE JobAbort(j)
    BY <1>7, <1>9 DEF JobAbort, TypeOK, WellFormed
<1> QED
    BY <1>2, <1>3, <1>4, <1>5, <1>6, <1>8, <1>9 DEF JobStep

LEMMA TypeStep == TypeInv /\ [Next]_vars => TypeInv'
<1> SUFFICES ASSUME TypeInv, [Next]_vars PROVE TypeInv'
    OBVIOUS
<1>1. CASE Tick
    BY <1>1 DEF Tick, TypeInv, TypeOK, WellFormed
<1>2. CASE ApiCrash
  <2>1. IdleLogin \in LoginState
    BY DEF IdleLogin, LoginState
  <2>2. IdleReq \in ReqState
    BY DEF IdleReq, ReqState, NoToken, Token
  <2> QED
    BY <1>2, <2>1, <2>2 DEF ApiCrash, TypeInv, TypeOK, WellFormed, IdleReq
<1>3. CASE UNCHANGED vars
    BY <1>3 DEF vars, TypeInv, TypeOK, WellFormed
<1> QED
    BY <1>1, <1>2, <1>3, LoginTypes, RequestTypes, JobTypes DEF Next

(* Whatever the limits, expiry dates and number of requests, every value    *)
(* written to the session table and kept by a request is of its type.       *)
THEOREM TypeCorrect == Spec => []TypeOK
<1>1. TypeInv => TypeOK
    BY DEF TypeInv
<1> QED
    BY <1>1, InitTypes, TypeStep, PTL DEF Spec
-----------------------------------------------------------------------------
LEMMA TerminatedStays ==
    ASSUME TypeInv, Next, NEW x \in Sids, sess[x].state = "terminated"
    PROVE  sess'[x].state = "terminated"
<1> USE DEF TypeInv, TypeOK
<1>1. ASSUME NEW y \in Session, NEW reason
      PROVE  Terminated(y, reason).state = "terminated"
    BY DEF Terminated, Session
<1>2. CASE UNCHANGED sess
    BY <1>2
<1>3. ASSUME NEW r \in LoginReqs, NEW s \in Sids, LoginCommit(r, s)
      PROVE  sess'[x].state = "terminated"
    BY <1>1, <1>3 DEF LoginCommit
<1>4. ASSUME NEW q \in Reqs, GuardClose(q)
      PROVE  sess'[x].state = "terminated"
    BY <1>1, <1>4 DEF GuardClose, WellFormed
<1>5. ASSUME NEW q \in Reqs, RefreshToken(q)
      PROVE  sess'[x].state = "terminated"
  <2>1. \A y \in Session : Refreshed(y, NextToken(req[q].sid)).state = y.state
    BY DEF Refreshed, Session
  <2> QED
    BY <1>5, <2>1 DEF RefreshToken
<1>6. ASSUME NEW q \in Reqs, LogoutTerminate(q)
      PROVE  sess'[x].state = "terminated"
    BY <1>1, <1>6 DEF LogoutTerminate, WellFormed
<1>7. ASSUME NEW j \in Jobs, NEW s \in Sids, TerminateNext(j, s)
      PROVE  sess'[x].state = "terminated"
    BY <1>1, <1>7 DEF TerminateNext
<1>8. ASSUME NEW r \in LoginReqs,
             \/ \E u \in Users, d \in Devices : LoginBegin(r, u, d)
             \/ EnforceDeviceSessionLimit(r)
             \/ EnforceSessionLimit(r)
             \/ LoginRollback(r)
      PROVE  UNCHANGED sess
    BY <1>8 DEF LoginBegin, EnforceDeviceSessionLimit, EnforceSessionLimit,
                LoginRollback
<1>9. ASSUME NEW q \in Reqs,
             \/ \E s \in Sids : \E t \in held[s] :
                   \/ GuardExpired(q, s, t)
                   \/ GuardMismatch(q, s, t)
                   \/ \E handler \in {"refresh", "logout"} :
                         GuardAccept(q, s, t, handler)
             \/ RevokeCompromised(q)
             \/ RequestRefused(q)
             \/ RefreshAnswer(q)
             \/ RefreshFails(q)
             \/ LogoutBlockDevice(q)
             \/ LogoutRevokeToken(q)
      PROVE  UNCHANGED sess
    BY <1>9 DEF GuardExpired, GuardMismatch, GuardAccept, GuardStep,
                RevokeCompromised, RequestRefused, RefreshAnswer, RefreshFails,
                LogoutBlockDevice, LogoutRevokeToken
<1>10. ASSUME NEW j \in Jobs,
              \/ \E reason \in AdminReasons :
                    \/ \E u \in Users : TerminateAllUserSessions(j, u, reason)
                    \/ \E d \in Devices : TerminateAllDeviceSessions(j, d, reason)
              \/ \E c \in Cleanups : CleanupExpired(j, c)
              \/ CleanupInactive(j)
              \/ JobEnd(j)
              \/ JobAbort(j)
       PROVE  UNCHANGED sess
    BY <1>10 DEF TerminateAllUserSessions, TerminateAllDeviceSessions, StartJob,
                 CleanupExpired, CleanupInactive, JobEnd, JobAbort
<1>11. Tick \/ ApiCrash => UNCHANGED sess
    BY DEF Tick, ApiCrash
<1> QED
    BY <1>2, <1>3, <1>4, <1>5, <1>6, <1>7, <1>8, <1>9, <1>10, <1>11
    DEF Next, LoginStep, ReqStep, JobStep

(* No handler, however stale what it read, opens a terminated session again *)
(* for any number of requests, jobs and crashes.                            *)
THEOREM TerminationIsFinal == Spec => TerminatedForGood
<1>1. TypeInv /\ [Next]_vars =>
         [\A s \in Sids : sess[s].state = "terminated"
                             => sess'[s].state = "terminated"]_vars
  <2> SUFFICES ASSUME TypeInv, Next, NEW s \in Sids, sess[s].state = "terminated"
               PROVE  sess'[s].state = "terminated"
    BY DEF vars
  <2> QED
    BY TerminatedStays
<1> QED
    BY <1>1, InitTypes, TypeStep, PTL DEF Spec, TerminatedForGood
-----------------------------------------------------------------------------
(* What keeps a compromised token from being the current one again: hashes  *)
(* are numbered in the order they are stored, so a refresh makes one that   *)
(* nobody can have recorded, and whoever records one at logout has closed   *)
(* the session first.                                                       *)

Numbered(s, h) == h.n <= sess[s].refreshTokenHash.n

RevokedInv ==
    /\ \A s \in Sids : \A t \in held[s] : Numbered(s, t)
    /\ \A s \in Sids, h \in Token : <<s, h>> \in revoked => Numbered(s, h)
    /\ \A s \in Sids : sess[s].state = "absent"
                          => held[s] = {} /\ sess[s].refreshTokenHash.n = 0
    /\ \A q \in Reqs : req[q].pc # "idle" =>
          Numbered(req[q].sid, req[q].hash) /\ sess[req[q].sid].state # "absent"
    /\ \A q \in Reqs : req[q].pc \in {"block", "revoke"} =>
          sess[req[q].sid].state = "terminated"
    /\ CompromisedClosed

RInv == TypeInv /\ RevokedInv

LEMMA InitRevoked == Init => RevokedInv
<1> SUFFICES ASSUME Init PROVE RevokedInv
    OBVIOUS
<1> QED
    BY DEF Init, RevokedInv, Numbered, CompromisedClosed, Open, Absent, NoToken,
                IdleReq

(* Steps that write no session: only a request may move, keeping its session*)
(* and hash, and not out of "close"; a token may be handed out.             *)
LEMMA SameTokens ==
    ASSUME RInv, TypeInv', UNCHANGED <<sess, revoked>>,
           \A s \in Sids : \A t \in held'[s] :
               t \in held[s] \/ (Numbered(s, t) /\ sess[s].state # "absent"),
           \A q \in Reqs : \/ req'[q] = req[q]
                           \/ /\ req'[q].pc # "idle"
                              /\ Numbered(req'[q].sid, req'[q].hash)
                              /\ sess[req'[q].sid].state # "absent"
                              /\ req[q].pc # "close"
                              /\ req'[q].pc \in {"block", "revoke"} =>
                                    sess[req'[q].sid].state = "terminated"
                           \/ req'[q].pc = "idle" /\ req[q].pc # "close",
           cut \subseteq cut'
    PROVE  RevokedInv'
<1> USE DEF RInv, RevokedInv, Numbered
<1>1. \A q \in Reqs : req[q].pc = "close" => req'[q] = req[q]
    OBVIOUS
<1>2. CompromisedClosed'
    BY <1>1 DEF CompromisedClosed, Open, TypeInv, TypeOK
<1>3. \A s \in Sids : \A t \in held'[s] : Numbered(s, t)'
    OBVIOUS
<1>4. \A s \in Sids : sess'[s].state = "absent" => held'[s] = {}
    OBVIOUS
<1> QED
    BY <1>2, <1>3, <1>4

(* Terminating a session leaves its tokens as they are. *)
LEMMA TerminateTokens ==
    ASSUME RInv, NEW s \in Sids, NEW reason \in TerminationReasons \cup {NoReason},
           sess' = [sess EXCEPT ![s] = Terminated(sess[s], reason)],
           UNCHANGED held
    PROVE  /\ \A y \in Sids : sess'[y].refreshTokenHash = sess[y].refreshTokenHash
           /\ sess'[s].state = "terminated"
           /\ \A y \in Sids : y # s => sess'[y] = sess[y]
<1> DEFINE x == Terminated(sess[s], reason)
<1>1. x.state = "terminated" /\ x.refreshTokenHash = sess[s].refreshTokenHash
    BY TerminatedType DEF RInv, TypeInv, TypeOK
<1>2. sess' = [sess EXCEPT ![s] = x]
    OBVIOUS
<1> HIDE DEF x
<1>3. \A y \in Sids : sess'[y] = IF y = s THEN x ELSE sess[y]
    BY <1>2 DEF RInv, TypeInv, TypeOK
<1> QED
    BY <1>1, <1>3

LEMMA LoginRevoked ==
    ASSUME RInv, TypeInv', NEW r \in LoginReqs,
           \/ \E u \in Users, d \in Devices : LoginBegin(r, u, d)
           \/ LoginStep(r)
           \/ LoginRollback(r)
    PROVE  RevokedInv'
<1>1. ASSUME UNCHANGED <<sess, held, revoked, req, cut>>
      PROVE  RevokedInv'
    BY <1>1, SameTokens DEF RInv, TypeInv, TypeOK
<1>2. ASSUME NEW s \in Sids, LoginCommit(r, s)
      PROVE  RevokedInv'
  <2> DEFINE t == [n |-> 1, iat |-> now]
             V == login[r].victims
             made == [y \in Sids |-> sess[y].refreshTokenHash.n]
  <2>1. sess[s].state = "absent" /\ held[s] = {} /\ made[s] = 0
    BY <1>2 DEF LoginCommit, RInv, RevokedInv
  <2>2. \A y \in Sids : held'[y] = IF y = s THEN {t} ELSE held[y]
    BY <1>2 DEF LoginCommit, RInv, TypeInv, TypeOK
  <2>4. sess'[s].state = "open" /\ sess'[s].refreshTokenHash = t
    BY <1>2 DEF LoginCommit, NewSession
  <2>5. \A y \in Sids : y # s =>
           \/ sess'[y] = sess[y]
           \/ /\ sess'[y].state = "terminated"
              /\ sess'[y].refreshTokenHash = sess[y].refreshTokenHash
    <3>1. \A y \in Sids : /\ Terminated(sess[y], "LIMIT").state = "terminated"
                          /\ Terminated(sess[y], "LIMIT").refreshTokenHash
                               = sess[y].refreshTokenHash
      BY TerminatedType DEF TerminationReasons, RInv, TypeInv, TypeOK
    <3> QED
      BY <1>2, <3>1 DEF LoginCommit
  <2>3. \A y \in Sids : made'[y] = IF y = s THEN 1 ELSE made[y]
    BY <2>4, <2>5
  <2>6. t \in Token /\ t.n = 1
    BY DEF Token, RInv, TypeInv, TypeOK
  <2>7. UNCHANGED <<revoked, req, cut>>
    BY <1>2 DEF LoginCommit
  <2>8. /\ \A y \in Sids : made[y] \in Nat
        /\ \A y \in Sids : \A h \in held[y] : h.n <= made[y]
        /\ \A y \in Sids, h \in Token : <<y, h>> \in revoked => h.n <= made[y]
        /\ \A y \in Sids : sess[y].state = "absent" => held[y] = {} /\ made[y] = 0
        /\ \A q \in Reqs : req[q].pc # "idle" =>
              /\ req[q].sid \in Sids /\ req[q].hash.n <= made[req[q].sid]
              /\ sess[req[q].sid].state # "absent"
        /\ \A q \in Reqs : req[q].pc \in {"block", "revoke"} =>
              sess[req[q].sid].state = "terminated"
    BY DEF RInv, RevokedInv, Numbered, TypeInv, TypeOK, Session, Token, WellFormed
  <2>9. \A y \in Sids : made[y] <= made'[y]
    BY <2>1, <2>3, <2>8
  <2>10. \A h \in Token : h.n \in Nat
    BY DEF Token
  <2>11. /\ \A y \in Sids : held[y] \subseteq Token
         /\ \A q \in Reqs : req[q].hash \in Token
    BY DEF RInv, TypeInv, TypeOK, ReqState
  <2>12. \A y \in Sids : made'[y] \in Nat
    BY <2>3, <2>8
  <2>13. <<s, t>> \notin revoked
    BY <2>1, <2>6, <2>8
  <2>21. \A y \in Sids : made'[y] = sess'[y].refreshTokenHash.n
    OBVIOUS
  <2> HIDE DEF made, t
  <2>14. \A y \in Sids : \A h \in held'[y] : h.n <= made'[y]
    BY <2>2, <2>3, <2>6, <2>8
  <2>15. \A y \in Sids, h \in Token : <<y, h>> \in revoked' => h.n <= made'[y]
    BY <2>7, <2>8, <2>9, <2>10, <2>12
  <2>17. \A q \in Reqs : req'[q].pc # "idle" =>
           req'[q].hash.n <= made'[req'[q].sid] /\ sess'[req'[q].sid].state # "absent"
    BY <2>4, <2>5, <2>7, <2>8, <2>9, <2>10, <2>11, <2>12
  <2>18. \A q \in Reqs : req'[q].pc \in {"block", "revoke"} =>
           sess'[req'[q].sid].state = "terminated"
    BY <2>1, <2>5, <2>7, <2>8
  <2>19. \A y \in Sids : sess'[y].state = "absent" => held'[y] = {} /\ made'[y] = 0
    BY <2>2, <2>3, <2>4, <2>5, <2>8
  <2>20. CompromisedClosed'
    BY <2>4, <2>5, <2>7, <2>13 DEF CompromisedClosed, Open, RInv, RevokedInv
  <2>22. \A q \in Reqs : req'[q].pc # "idle" => req'[q].sid \in Sids
    BY <2>7, <2>8
  <2> QED
    BY <2>14, <2>15, <2>17, <2>18, <2>19, <2>20, <2>21, <2>22
    DEF RevokedInv, Numbered
<1> QED
    BY <1>1, <1>2 DEF LoginStep, LoginBegin, EnforceDeviceSessionLimit,
                      EnforceSessionLimit, LoginRollback

(* One session is terminated; a request may end, or go on to block the      *)
(* device of that session.                                                  *)
LEMMA TerminatingRevoked ==
    ASSUME RInv, TypeInv', NEW s \in Sids,
           NEW reason \in TerminationReasons \cup {NoReason},
           sess' = [sess EXCEPT ![s] = Terminated(sess[s], reason)],
           UNCHANGED <<held, revoked, cut>>,
           \A q \in Reqs : \/ req'[q] = req[q]
                           \/ /\ req[q].sid = s /\ req'[q].sid = s
                              /\ req'[q].pc = "block"
                              /\ req'[q].hash = sess[s].refreshTokenHash
                           \/ req[q].sid = s /\ req'[q].pc = "idle"
    PROVE  RevokedInv'
<1>1. /\ \A y \in Sids : sess'[y].refreshTokenHash = sess[y].refreshTokenHash
      /\ sess'[s].state = "terminated"
      /\ \A y \in Sids : y # s => sess'[y] = sess[y]
    BY TerminateTokens
<1>2. \A q \in Reqs : req[q].pc # "idle" => req[q].sid \in Sids
    BY DEF RInv, TypeInv, WellFormed
<1>6. \A y \in Sids : sess[y].refreshTokenHash.n \in Nat
    BY DEF RInv, TypeInv, TypeOK, Session, Token
<1>3. \A q \in Reqs : req'[q].pc # "idle" =>
         /\ req'[q].hash.n <= sess'[req'[q].sid].refreshTokenHash.n
         /\ sess'[req'[q].sid].state # "absent"
    BY <1>1, <1>2, <1>6 DEF RInv, RevokedInv, Numbered
<1>4. \A q \in Reqs : req'[q].pc \in {"block", "revoke"} =>
         sess'[req'[q].sid].state = "terminated"
    BY <1>1, <1>2 DEF RInv, RevokedInv
<1>5. CompromisedClosed'
    BY <1>1, <1>2 DEF CompromisedClosed, Open, RInv, RevokedInv
<1> QED
    BY <1>1, <1>3, <1>4, <1>5 DEF RInv, RevokedInv, Numbered

(* The request holds no hash as long as it has nothing to record. *)
LEMMA NoTokenNumbered ==
    ASSUME RInv, NEW s \in Sids
    PROVE  Numbered(s, NoToken)
BY DEF Numbered, NoToken, RInv, TypeInv, TypeOK, Session, Token

LEMMA RequestRevoked ==
    ASSUME RInv, TypeInv', NEW q \in Reqs,
           \/ \E s \in Sids : \E t \in held[s] :
                 \/ GuardExpired(q, s, t)
                 \/ GuardMismatch(q, s, t)
                 \/ \E handler \in {"refresh", "logout"} :
                       GuardAccept(q, s, t, handler)
           \/ ReqStep(q)
           \/ RefreshFails(q)
    PROVE  RevokedInv'
<1>2. IdleReq.pc = "idle"
    BY DEF IdleReq
<1>3. ASSUME NEW s \in Sids, Open(s),
             NEW pc \in {"refresh", "logout", "compromised", "close"}, NEW reason,
             NEW hash, Numbered(s, hash),
             req[q].pc = "idle", GuardStep(q, s, pc, reason, hash)
      PROVE  RevokedInv'
  <2> DEFINE x == [pc |-> pc, sid |-> s, reason |-> reason,
                   hash |-> hash]
  <2>1. /\ x.pc = pc /\ x.sid = s /\ x.hash = hash
        /\ req' = [req EXCEPT ![q] = x]
        /\ UNCHANGED <<sess, held, revoked, cut>>
    BY <1>3 DEF GuardStep
  <2> HIDE DEF x
  <2>2. \A p \in Reqs : req'[p] = IF p = q THEN x ELSE req[p]
    BY <2>1 DEF RInv, TypeInv, TypeOK
  <2>3. Numbered(s, x.hash)
    BY <1>3, <2>1
  <2> QED
    BY <1>3, <2>1, <2>2, <2>3, SameTokens DEF Open
<1>4. ASSUME NEW s \in Sids, NEW t \in held[s], GuardExpired(q, s, t)
      PROVE  RevokedInv'
    BY <1>3, <1>4, NoTokenNumbered DEF GuardExpired, Presents
<1>5. ASSUME NEW s \in Sids, NEW t \in held[s], GuardMismatch(q, s, t)
      PROVE  RevokedInv'
  <2>1. Numbered(s, sess[s].refreshTokenHash)
    BY DEF Numbered, RInv, TypeInv, TypeOK, Session, Token
  <2> QED
    BY <1>3, <1>5, <2>1 DEF GuardMismatch, Presents
<1>6. ASSUME NEW s \in Sids, NEW t \in held[s],
             NEW handler \in {"refresh", "logout"}, GuardAccept(q, s, t, handler)
      PROVE  RevokedInv'
    BY <1>3, <1>6, NoTokenNumbered DEF GuardAccept, Presents
<1>7. CASE RevokeCompromised(q)
  <2> DEFINE row == <<req[q].sid, req[q].hash>>
  <2>1. CASE row \in revoked
    <3>1. revoked' = revoked /\ req' = [req EXCEPT ![q] = IdleReq]
      BY <1>7, <2>1 DEF RevokeCompromised
    <3>2. \A p \in Reqs : req'[p] = IF p = q THEN IdleReq ELSE req[p]
      BY <3>1 DEF RInv, TypeInv, TypeOK
    <3> QED
      BY <1>2, <1>7, <3>1, <3>2, SameTokens DEF RevokeCompromised
  <2>2. CASE row \notin revoked
    <3> DEFINE x == [req[q] EXCEPT !.pc = "close"]
    <3>1. /\ x.pc = "close" /\ x.sid = req[q].sid /\ x.hash = req[q].hash
          /\ req' = [req EXCEPT ![q] = x]
      BY <1>7, <2>2 DEF RevokeCompromised, RInv, TypeInv, TypeOK, ReqState
    <3>2. /\ revoked' = revoked \cup {row} /\ req[q].pc = "compromised"
          /\ UNCHANGED <<sess, held, cut>>
      BY <1>7 DEF RevokeCompromised
    <3> HIDE DEF x
    <3>3. \A p \in Reqs : req'[p] = IF p = q THEN x ELSE req[p]
      BY <3>1 DEF RInv, TypeInv, TypeOK
    <3>4. Numbered(req[q].sid, req[q].hash) /\ sess[req[q].sid].state # "absent"
      BY <3>2 DEF RInv, RevokedInv
    <3>5. CompromisedClosed'
      BY <3>1, <3>2, <3>3 DEF CompromisedClosed, Open, RInv, RevokedInv
    <3>6. \A y \in Sids, h \in Token : <<y, h>> \in revoked' =>
             h.n <= sess[y].refreshTokenHash.n
      BY <3>2, <3>4 DEF RInv, RevokedInv, Numbered
    <3>7. \A p \in Reqs : req'[p].pc # "idle" =>
             /\ req'[p].hash.n <= sess[req'[p].sid].refreshTokenHash.n
             /\ sess[req'[p].sid].state # "absent"
      BY <3>1, <3>3, <3>4 DEF RInv, RevokedInv, Numbered
    <3>8. \A p \in Reqs : req'[p].pc \in {"block", "revoke"} =>
             sess[req'[p].sid].state = "terminated"
      BY <3>1, <3>3 DEF RInv, RevokedInv
    <3> QED
      BY <3>2, <3>5, <3>6, <3>7, <3>8 DEF RInv, RevokedInv, Numbered
  <2> QED
    BY <2>1, <2>2
<1>8. CASE GuardClose(q)
  <2>1. req[q].sid \in Sids /\ req[q].reason \in TerminationReasons \cup {NoReason}
    BY <1>8 DEF GuardClose, RInv, TypeInv, TypeOK, WellFormed, ReqState
  <2>2. /\ sess' = [sess EXCEPT ![req[q].sid] = Terminated(sess[req[q].sid], req[q].reason)]
        /\ UNCHANGED <<held, revoked, cut>>
        /\ \A p \in Reqs : req'[p] = IF p = q THEN IdleReq ELSE req[p]
    BY <1>8 DEF GuardClose, RInv, TypeInv, TypeOK
  <2> QED
    BY <1>2, <2>1, <2>2, TerminatingRevoked
<1>9. CASE LogoutTerminate(q)
  <2> DEFINE x == [req[q] EXCEPT !.pc = "block",
                                 !.hash = sess[req[q].sid].refreshTokenHash]
  <2>1. /\ x.pc = "block" /\ x.sid = req[q].sid
        /\ x.hash = sess[req[q].sid].refreshTokenHash
        /\ req' = [req EXCEPT ![q] = x]
    BY <1>9 DEF LogoutTerminate, RInv, TypeInv, TypeOK, ReqState
  <2> HIDE DEF x
  <2>2. req[q].sid \in Sids /\ "LOGOUT" \in TerminationReasons \cup {NoReason}
    BY <1>9 DEF LogoutTerminate, RInv, TypeInv, WellFormed, TerminationReasons
  <2>3. /\ sess' = [sess EXCEPT ![req[q].sid] = Terminated(sess[req[q].sid], "LOGOUT")]
        /\ UNCHANGED <<held, revoked, cut>>
    BY <1>9 DEF LogoutTerminate
  <2>4. \A p \in Reqs : req'[p] = IF p = q THEN x ELSE req[p]
    BY <2>1 DEF RInv, TypeInv, TypeOK
  <2> QED
    BY <2>1, <2>2, <2>3, <2>4, TerminatingRevoked
<1>10. CASE LogoutBlockDevice(q)
  <2> DEFINE x == [req[q] EXCEPT !.pc = "revoke"]
  <2>1. /\ x.pc = "revoke" /\ x.sid = req[q].sid /\ x.hash = req[q].hash
        /\ req' = [req EXCEPT ![q] = x]
    BY <1>10 DEF LogoutBlockDevice, RInv, TypeInv, TypeOK, ReqState
  <2> HIDE DEF x
  <2>2. req[q].pc = "block" /\ UNCHANGED <<sess, held, revoked, cut>>
    BY <1>10 DEF LogoutBlockDevice
  <2>3. \A p \in Reqs : req'[p] = IF p = q THEN x ELSE req[p]
    BY <2>1 DEF RInv, TypeInv, TypeOK
  <2>4. /\ Numbered(req[q].sid, req[q].hash)
        /\ sess[req[q].sid].state = "terminated"
    BY <2>2 DEF RInv, RevokedInv
  <2> QED
    BY <2>1, <2>2, <2>3, <2>4, SameTokens
<1>11. CASE LogoutRevokeToken(q)
  <2>1. /\ req[q].pc = "revoke" /\ UNCHANGED <<sess, held, cut>>
        /\ revoked' = revoked \cup {<<req[q].sid, req[q].hash>>}
        /\ \A p \in Reqs : req'[p] = IF p = q THEN IdleReq ELSE req[p]
    BY <1>11 DEF LogoutRevokeToken, RInv, TypeInv, TypeOK
  <2>2. /\ Numbered(req[q].sid, req[q].hash)
        /\ sess[req[q].sid].state = "terminated"
    BY <2>1 DEF RInv, RevokedInv
  <2>3. CompromisedClosed'
    BY <1>2, <2>1, <2>2 DEF CompromisedClosed, Open, RInv, RevokedInv
  <2>4. \A y \in Sids, h \in Token : <<y, h>> \in revoked' =>
           h.n <= sess[y].refreshTokenHash.n
    BY <2>1, <2>2 DEF RInv, RevokedInv, Numbered
  <2> QED
    BY <1>2, <2>1, <2>3, <2>4 DEF RInv, RevokedInv, Numbered
<1>12. CASE RefreshToken(q)
  <2> DEFINE s == req[q].sid
             t == NextToken(s)
             made == [y \in Sids |-> sess[y].refreshTokenHash.n]
             row == Refreshed(sess[s], t)
             l == [req[q] EXCEPT !.pc = "answer", !.hash = t]
  <2>1. s \in Sids /\ sess[s] \in Session /\ now \in Nat
    BY <1>12 DEF RefreshToken, RInv, TypeInv, TypeOK, WellFormed
  <2>6. \A y \in Sids : made[y] \in Nat
    BY DEF RInv, TypeInv, TypeOK, Session, Token
  <2>7. t \in Token /\ t.n = made[s] + 1
    BY <2>1, <2>6 DEF NextToken, Token
  <2>2. row.refreshTokenHash = t /\ row.state = sess[s].state
    BY <2>1, <2>7, RefreshedIs
  <2>3. \A y \in Sids : sess'[y] = IF y = s THEN row ELSE sess[y]
    BY <1>12 DEF RefreshToken, RInv, TypeInv, TypeOK
  <2>4. /\ l.pc = "answer" /\ l.sid = s /\ l.hash = t
        /\ \A p \in Reqs : req'[p] = IF p = q THEN l ELSE req[p]
    BY <1>12 DEF RefreshToken, RInv, TypeInv, TypeOK, ReqState
  <2>5. req[q].pc = "refresh" /\ UNCHANGED <<held, revoked, cut>>
    BY <1>12 DEF RefreshToken
  <2> HIDE DEF row, l
  <2>10. \A y \in Sids : made'[y] = IF y = s THEN made[y] + 1 ELSE made[y]
    BY <2>2, <2>3, <2>7
  <2>11. /\ \A y \in Sids : \A h \in held[y] : h.n <= made[y]
         /\ \A y \in Sids, h \in Token : <<y, h>> \in revoked => h.n <= made[y]
         /\ \A y \in Sids : sess[y].state = "absent" => held[y] = {} /\ made[y] = 0
         /\ \A p \in Reqs : req[p].pc # "idle" =>
               /\ req[p].sid \in Sids /\ req[p].hash.n <= made[req[p].sid]
               /\ sess[req[p].sid].state # "absent"
         /\ \A p \in Reqs : req[p].pc \in {"block", "revoke"} =>
               sess[req[p].sid].state = "terminated"
    BY DEF RInv, RevokedInv, Numbered, TypeInv, WellFormed
  <2>12. \A h \in Token : h.n \in Nat
    BY DEF Token
  <2>13. /\ \A y \in Sids : held[y] \subseteq Token
         /\ \A p \in Reqs : req[p].hash \in Token
    BY DEF RInv, TypeInv, TypeOK, ReqState
  <2>15. <<s, t>> \notin revoked
    BY <2>1, <2>6, <2>7, <2>11
  <2>16. sess[s].state # "absent"
    BY <2>5, <2>11
  <2>17. \A y \in Sids : made'[y] = sess'[y].refreshTokenHash.n
    OBVIOUS
  <2> HIDE DEF made, t, s
  <2>18. \A y \in Sids : \A h \in held'[y] : h.n <= made'[y]
    BY <2>5, <2>6, <2>10, <2>11, <2>12, <2>13
  <2>19. \A y \in Sids, h \in Token : <<y, h>> \in revoked' => h.n <= made'[y]
    BY <2>5, <2>6, <2>10, <2>11, <2>12
  <2>21. \A y \in Sids : sess'[y].state = "absent" => held'[y] = {} /\ made'[y] = 0
    BY <2>2, <2>3, <2>5, <2>10, <2>11, <2>16
  <2>22. \A p \in Reqs : req'[p].pc # "idle" =>
           /\ req'[p].hash.n <= made'[req'[p].sid] /\ req'[p].sid \in Sids
           /\ sess'[req'[p].sid].state # "absent"
    <3>1. ASSUME NEW p \in Reqs, p # q, req'[p].pc # "idle"
          PROVE  /\ req'[p].hash.n <= made'[req'[p].sid] /\ req'[p].sid \in Sids
                 /\ sess'[req'[p].sid].state # "absent"
      BY <2>2, <2>3, <2>4, <2>6, <2>10, <2>11, <2>12, <2>13, <3>1
    <3>2. /\ req'[q].hash.n <= made'[req'[q].sid] /\ req'[q].sid \in Sids
          /\ sess'[req'[q].sid].state # "absent"
      BY <2>1, <2>2, <2>3, <2>4, <2>6, <2>7, <2>10, <2>16
    <3> QED
      BY <3>1, <3>2
  <2>23. \A p \in Reqs : req'[p].pc \in {"block", "revoke"} =>
           sess'[req'[p].sid].state = "terminated"
    BY <2>2, <2>3, <2>4, <2>11
  <2>24. CompromisedClosed'
    BY <2>2, <2>3, <2>4, <2>5, <2>15 DEF CompromisedClosed, Open, RInv, RevokedInv
  <2> QED
    BY <2>17, <2>18, <2>19, <2>21, <2>22, <2>23, <2>24
    DEF RevokedInv, Numbered
<1>13. CASE RefreshAnswer(q)
  <2>1. /\ req[q].pc = "answer" /\ UNCHANGED <<sess, revoked, cut>>
        /\ \A y \in Sids : \A t \in held'[y] :
              t \in held[y] \/ (y = req[q].sid /\ t = req[q].hash)
        /\ \A p \in Reqs : req'[p] = IF p = q THEN IdleReq ELSE req[p]
    BY <1>13 DEF RefreshAnswer, RInv, TypeInv, TypeOK
  <2>2. Numbered(req[q].sid, req[q].hash) /\ sess[req[q].sid].state # "absent"
    BY <2>1 DEF RInv, RevokedInv
  <2> QED
    BY <1>2, <2>1, <2>2, SameTokens
<1>14. CASE RefreshFails(q) \/ RequestRefused(q)
  <2>1. /\ req[q].pc # "close" /\ UNCHANGED <<sess, held, revoked>>
        /\ cut \subseteq cut'
        /\ \A p \in Reqs : req'[p] = IF p = q THEN IdleReq ELSE req[p]
    BY <1>14 DEF RefreshFails, RequestRefused, RInv, TypeInv, TypeOK
  <2> QED
    BY <1>2, <2>1, SameTokens
<1> QED
    BY <1>4, <1>5, <1>6, <1>7, <1>8, <1>9, <1>10, <1>11, <1>12, <1>13, <1>14 DEF ReqStep

LEMMA JobRevoked ==
    ASSUME RInv, TypeInv', NEW j \in Jobs,
           \/ \E reason \in AdminReasons :
                 \/ \E u \in Users : TerminateAllUserSessions(j, u, reason)
                 \/ \E d \in Devices : TerminateAllDeviceSessions(j, d, reason)
           \/ \E c \in Cleanups : CleanupExpired(j, c)
           \/ JobStep(j)
           \/ JobAbort(j)
    PROVE  RevokedInv'
<1>1. ASSUME UNCHANGED <<sess, held, revoked, req, cut>>
      PROVE  RevokedInv'
    BY <1>1, SameTokens
<1>2. ASSUME NEW s \in Sids, TerminateNext(j, s) PROVE RevokedInv'
  <2>1. /\ sess' = [sess EXCEPT ![s] = Terminated(sess[s], job[j].reason)]
        /\ UNCHANGED <<held, revoked, cut, req>>
    BY <1>2 DEF TerminateNext
  <2>2. job[j].reason \in TerminationReasons \cup {NoReason}
    BY DEF RInv, TypeInv, TypeOK, JobState
  <2> QED
    BY <2>1, <2>2, TerminatingRevoked
<1> QED
    BY <1>1, <1>2 DEF TerminateAllUserSessions, TerminateAllDeviceSessions, StartJob,
                      CleanupExpired, JobStep, CleanupInactive, JobEnd, JobAbort

LEMMA RevokedStep == RInv /\ [Next]_vars => RInv'
<1> SUFFICES ASSUME RInv, [Next]_vars PROVE RInv'
    OBVIOUS
<1>1. TypeInv'
    BY TypeStep DEF RInv
<1>2. CASE ApiCrash
  <2>1. /\ \A q \in Reqs : req'[q] = IdleReq
        /\ \A q \in Reqs : req[q].pc # "idle" => req[q].sid \in cut'
        /\ cut \subseteq cut' /\ UNCHANGED <<sess, held, revoked>>
    BY <1>2 DEF ApiCrash
  <2>2. CompromisedClosed'
    BY <2>1 DEF CompromisedClosed, Open, RInv, RevokedInv
  <2> QED
    BY <1>1, <2>1, <2>2 DEF RInv, RevokedInv, Numbered, IdleReq
<1>3. CASE Tick \/ UNCHANGED vars
  <2>1. UNCHANGED <<sess, held, revoked, req, cut>>
    BY <1>3 DEF Tick, vars
  <2> QED
    BY <1>1, <2>1, SameTokens DEF RInv
<1> QED
    BY <1>1, <1>2, <1>3, LoginRevoked, RequestRevoked, JobRevoked DEF RInv, Next

(* A session whose current token was recorded as compromised is closed or a *)
(* request is about to close it, unless a failure cut a request on it short:*)
(* for any number of requests that present old tokens, refresh and log out. *)
THEOREM CompromisedIsClosed == Spec => []CompromisedClosed
<1>1. Init => RInv
    BY InitTypes, InitRevoked DEF RInv
<1>2. RInv => CompromisedClosed
    BY DEF RInv, RevokedInv
<1> QED
    BY <1>1, <1>2, RevokedStep, PTL DEF Spec

(* The guard never asks revoked_tokens, so RevokedNeverAdmitted fails; but   *)
(* it fails in two cases only: another request has recorded the token and is *)
(* about to close the session, or a failure cut a request on it short.       *)
RevokedAdmittedInRace ==
    [][\A q \in Reqs :
          /\ req[q].pc = "idle" /\ req'[q].pc \in {"refresh", "logout"}
          /\ <<req'[q].sid, sess[req'[q].sid].refreshTokenHash>> \in revoked
          => \/ \E p \in Reqs \ {q} : req[p].pc = "close" /\ req[p].sid = req'[q].sid
             \/ req'[q].sid \in cut]_vars

(* A guard that lets a request pass has read its session open. *)
LEMMA AdmittedIsOpen ==
    ASSUME TypeInv, [Next]_vars, NEW q \in Reqs,
           req[q].pc = "idle", req'[q].pc \in {"refresh", "logout"}
    PROVE  req'[q].sid \in Sids /\ Open(req'[q].sid)
<1> USE DEF TypeInv, TypeOK
<1>1. ASSUME UNCHANGED req PROVE FALSE
    BY <1>1
<1>2. ASSUME NEW p \in Reqs, ReqStep(p) \/ RefreshFails(p) PROVE FALSE
  <2>1. req[p].pc # "idle" /\ \A x \in Reqs : x # p => req'[x] = req[x]
    BY <1>2 DEF ReqStep, RevokeCompromised, GuardClose, RequestRefused, RefreshToken,
                RefreshAnswer, RefreshFails, LogoutTerminate, LogoutBlockDevice,
                LogoutRevokeToken
  <2>2. req'[p].pc \notin {"refresh", "logout"}
    BY <1>2 DEF ReqStep, RevokeCompromised, GuardClose, RequestRefused, RefreshToken,
                RefreshAnswer, RefreshFails, LogoutTerminate, LogoutBlockDevice,
                LogoutRevokeToken, IdleReq, ReqState
  <2> QED
    BY <2>1, <2>2
<1>3. ASSUME NEW p \in Reqs, NEW s \in Sids, NEW t \in held[s],
             \/ GuardExpired(p, s, t)
             \/ GuardMismatch(p, s, t)
             \/ \E handler \in {"refresh", "logout"} : GuardAccept(p, s, t, handler)
      PROVE  req'[q].sid \in Sids /\ Open(req'[q].sid)
  <2>1. PICK pc, reason, hash : GuardStep(p, s, pc, reason, hash)
    BY <1>3 DEF GuardExpired, GuardMismatch, GuardAccept
  <2>2. Open(s)
    BY <1>3 DEF GuardExpired, GuardMismatch, GuardAccept, Presents
  <2>3. p = q /\ req'[q].sid = s
    BY <2>1 DEF GuardStep
  <2> QED
    BY <2>2, <2>3
<1>4. ASSUME ApiCrash PROVE FALSE
    BY <1>4 DEF ApiCrash, IdleReq
<1>5. \/ UNCHANGED req
      \/ ApiCrash
      \/ \E p \in Reqs : ReqStep(p) \/ RefreshFails(p)
      \/ \E p \in Reqs, s \in Sids : \E t \in held[s] :
            \/ GuardExpired(p, s, t)
            \/ GuardMismatch(p, s, t)
            \/ \E handler \in {"refresh", "logout"} : GuardAccept(p, s, t, handler)
    BY DEF Next, vars, Tick, LoginBegin, LoginStep, EnforceDeviceSessionLimit,
           EnforceSessionLimit, LoginCommit, LoginRollback, TerminateAllUserSessions,
           TerminateAllDeviceSessions, StartJob, CleanupExpired, JobStep,
           CleanupInactive, TerminateNext, JobEnd, JobAbort
<1> QED
    BY <1>1, <1>2, <1>3, <1>4, <1>5

(* The promise of RevokedNeverAdmitted, with exactly its two gaps: unless a  *)
(* failure cut a request on the session short, a recorded token is let       *)
(* through only while the request that recorded it has yet to write the      *)
(* termination of the session.                                               *)
THEOREM AdmittedInRaceOnly == Spec => RevokedAdmittedInRace
<1>1. ASSUME RInv, [Next]_vars, NEW q \in Reqs,
             req[q].pc = "idle", req'[q].pc \in {"refresh", "logout"},
             <<req'[q].sid, sess[req'[q].sid].refreshTokenHash>> \in revoked
      PROVE  \/ \E p \in Reqs \ {q} : req[p].pc = "close" /\ req[p].sid = req'[q].sid
             \/ req'[q].sid \in cut
  <2>1. req'[q].sid \in Sids /\ Open(req'[q].sid)
    BY <1>1, AdmittedIsOpen DEF RInv
  <2> QED
    BY <1>1, <2>1 DEF RInv, RevokedInv, CompromisedClosed
<1>2. Init => RInv
    BY InitTypes, InitRevoked DEF RInv
<1>3. RInv /\ [Next]_vars =>
        [\A q \in Reqs :
            /\ req[q].pc = "idle" /\ req'[q].pc \in {"refresh", "logout"}
            /\ <<req'[q].sid, sess[req'[q].sid].refreshTokenHash>> \in revoked
            => \/ \E p \in Reqs \ {q} :
                      req[p].pc = "close" /\ req[p].sid = req'[q].sid
               \/ req'[q].sid \in cut]_vars
    BY <1>1
<1> QED
    BY <1>2, <1>3, RevokedStep, PTL DEF Spec, RevokedAdmittedInRace
-----------------------------------------------------------------------------
(* What a step may do to the table of sessions and to the tokens: it commits*)
(* a login, refreshes, hands a token out, or at most terminates sessions and*)
(* loses answers in a failure.                                              *)
Terminates(x) ==
    /\ sess'[x].state = "terminated"
    /\ sess'[x].refreshTokenHash = sess[x].refreshTokenHash

Answering(q, s) == req[q].pc = "answer" /\ req[q].sid = s

AnswersKept ==
    /\ cut \subseteq cut'
    /\ \A q \in Reqs : /\ req'[q].pc = "answer" => req'[q] = req[q]
                       /\ req[q].pc = "answer" =>
                             req'[q] = req[q] \/ req[q].sid \in cut'

Reticent ==
    /\ UNCHANGED held
    /\ \A x \in Sids : sess'[x] = sess[x] \/ Terminates(x)
    /\ AnswersKept

LEMMA TableSteps ==
    ASSUME TypeInv, [Next]_vars
    PROVE  \/ \E r \in LoginReqs, s \in Sids : LoginCommit(r, s)
           \/ \E q \in Reqs : RefreshToken(q) \/ RefreshAnswer(q)
           \/ Reticent
<1>1. ASSUME NEW s \in Sids, NEW reason \in TerminationReasons \cup {NoReason},
             sess' = [sess EXCEPT ![s] = Terminated(@, reason)], UNCHANGED held,
             AnswersKept
      PROVE  Reticent
    BY <1>1, TerminatedType DEF Reticent, Terminates, TypeInv, TypeOK
<1>2. ASSUME UNCHANGED <<sess, held>>, AnswersKept PROVE Reticent
    BY <1>2 DEF Reticent
<1>3. ASSUME UNCHANGED <<req, cut>> PROVE AnswersKept
    BY <1>3 DEF AnswersKept
<1>4. ASSUME NEW q \in Reqs, UNCHANGED cut, req[q].pc # "answer", req'[q].pc # "answer",
             \A p \in Reqs : p # q => req'[p] = req[p]
      PROVE  AnswersKept
    BY <1>4 DEF AnswersKept
<1>5. ASSUME NEW r \in LoginReqs,
             \/ \E u \in Users, d \in Devices : LoginBegin(r, u, d)
             \/ EnforceDeviceSessionLimit(r)
             \/ EnforceSessionLimit(r)
             \/ LoginRollback(r)
      PROVE  Reticent
    BY <1>2, <1>3, <1>5 DEF LoginBegin, EnforceDeviceSessionLimit, EnforceSessionLimit,
                            LoginRollback
<1>6. ASSUME NEW q \in Reqs, NEW s \in Sids, NEW t \in held[s],
             \/ GuardExpired(q, s, t)
             \/ GuardMismatch(q, s, t)
             \/ \E handler \in {"refresh", "logout"} : GuardAccept(q, s, t, handler)
      PROVE  Reticent
  <2>1. PICK pc, reason, hash : /\ pc \in {"refresh", "logout", "compromised", "close"}
                                /\ GuardStep(q, s, pc, reason, hash)
    BY <1>6 DEF GuardExpired, GuardMismatch, GuardAccept
  <2>2. req[q].pc = "idle"
    BY <1>6 DEF GuardExpired, GuardMismatch, GuardAccept, Presents
  <2>3. AnswersKept
    BY <1>4, <2>1, <2>2 DEF GuardStep, TypeInv, TypeOK
  <2> QED
    BY <1>2, <2>1, <2>3 DEF GuardStep
<1>7. ASSUME NEW q \in Reqs,
             \/ RevokeCompromised(q) \/ LogoutBlockDevice(q)
             \/ LogoutRevokeToken(q) \/ RequestRefused(q)
      PROVE  Reticent
  <2>1. AnswersKept
    BY <1>4, <1>7 DEF RevokeCompromised, LogoutBlockDevice, LogoutRevokeToken,
                      RequestRefused, TypeInv, TypeOK, ReqState, IdleReq
  <2> QED
    BY <1>2, <1>7, <2>1 DEF RevokeCompromised, LogoutBlockDevice, LogoutRevokeToken,
                            RequestRefused
<1>8. ASSUME NEW q \in Reqs, RefreshFails(q)
      PROVE  Reticent
  <2>1. AnswersKept
    BY <1>8 DEF RefreshFails, AnswersKept, TypeInv, TypeOK, IdleReq
  <2> QED
    BY <1>2, <1>8, <2>1 DEF RefreshFails
<1>9. ASSUME NEW q \in Reqs, GuardClose(q)
      PROVE  Reticent
  <2>1. AnswersKept
    BY <1>4, <1>9 DEF GuardClose, TypeInv, TypeOK, IdleReq
  <2> QED
    BY <1>1, <1>9, <2>1 DEF GuardClose, TypeInv, TypeOK, WellFormed, ReqState
<1>10. ASSUME NEW q \in Reqs, LogoutTerminate(q)
       PROVE  Reticent
  <2>1. AnswersKept
    BY <1>4, <1>10 DEF LogoutTerminate, TypeInv, TypeOK, ReqState
  <2> QED
    BY <1>1, <1>10, <2>1 DEF LogoutTerminate, TypeInv, WellFormed, TerminationReasons
<1>11. ASSUME NEW j \in Jobs,
             \/ \E reason \in AdminReasons :
                   \/ \E u \in Users : TerminateAllUserSessions(j, u, reason)
                   \/ \E d \in Devices : TerminateAllDeviceSessions(j, d, reason)
             \/ \E c \in Cleanups : CleanupExpired(j, c)
             \/ CleanupInactive(j)
             \/ JobEnd(j)
             \/ JobAbort(j)
      PROVE  Reticent
    BY <1>2, <1>3, <1>11
    DEF TerminateAllUserSessions, TerminateAllDeviceSessions, StartJob,
        CleanupExpired, CleanupInactive, JobEnd, JobAbort
<1>12. ASSUME NEW j \in Jobs, NEW s \in Sids, TerminateNext(j, s)
       PROVE  Reticent
    BY <1>1, <1>3, <1>12 DEF TerminateNext, TypeInv, TypeOK, JobState
<1>13. CASE Tick \/ UNCHANGED vars
    BY <1>2, <1>3, <1>13 DEF Tick, vars
<1>14. CASE ApiCrash
  <2>1. AnswersKept
    BY <1>14 DEF ApiCrash, AnswersKept, IdleReq
  <2> QED
    BY <1>2, <1>14, <2>1 DEF ApiCrash
<1> QED
    BY <1>5, <1>6, <1>7, <1>8, <1>9, <1>10, <1>11, <1>12, <1>13, <1>14
    DEF Next, LoginStep, ReqStep, JobStep

(* The row of an open session holds the hash stored last: a client holds    *)
(* its token, or an answer carries it, or that answer was lost.             *)
Newest ==
    \A s \in Sids : Open(s) =>
        LET hash == sess[s].refreshTokenHash
        IN  /\ \/ hash \in held[s]
               \/ \E q \in Reqs : Answering(q, s) /\ req[q].hash = hash
               \/ s \in cut
            /\ \A t \in held[s] : t # hash => t.n < hash.n
            /\ \A q \in Reqs : Answering(q, s) /\ req[q].hash # hash
                                  => req[q].hash.n < hash.n

LEMMA NewestStep ==
    ASSUME RInv, Newest, [Next]_vars
    PROVE  Newest'
<1> USE DEF RInv, TypeInv, TypeOK
<1>1. ASSUME NEW r \in LoginReqs, NEW s \in Sids, LoginCommit(r, s)
      PROVE  Newest'
  <2> DEFINE t == [n |-> 1, iat |-> now]
  <2>1. sess'[s].refreshTokenHash = t /\ held'[s] = {t}
    BY <1>1 DEF LoginCommit, NewSession
  <2>2. \A x \in Sids \ {s} : held'[x] = held[x]
    BY <1>1 DEF LoginCommit
  <2>3. \A x \in Sids \ {s} : Open(x)' => sess'[x] = sess[x]
    <3>1. \A x \in Sids : Terminated(sess[x], "LIMIT").state = "terminated"
      BY TerminatedType DEF TerminationReasons
    <3> QED
      BY <1>1, <3>1 DEF LoginCommit, Open
  <2>4. UNCHANGED <<req, cut>>
    BY <1>1 DEF LoginCommit
  <2>5. \A q \in Reqs : ~Answering(q, s)
    BY <1>1 DEF LoginCommit, Answering, RevokedInv
  <2> HIDE DEF t
  <2> QED
    BY <2>1, <2>2, <2>3, <2>4, <2>5 DEF Newest, Open, Answering
<1>2. ASSUME NEW q \in Reqs, RefreshToken(q)
      PROVE  Newest'
  <2> DEFINE s == req[q].sid
             t == NextToken(s)
             l == [req[q] EXCEPT !.pc = "answer", !.hash = t]
  <2>1. s \in Sids
    BY <1>2 DEF RefreshToken, WellFormed
  <2>2. t \in Token /\ t.n = sess[s].refreshTokenHash.n + 1
    BY <2>1 DEF NextToken, Token, Session
  <2>3. sess'[s].refreshTokenHash = t
    BY <1>2, <2>1, <2>2, RefreshedIs DEF RefreshToken
  <2>4. \A x \in Sids \ {s} : sess'[x] = sess[x]
    BY <1>2 DEF RefreshToken
  <2>5. /\ l.pc = "answer" /\ l.sid = s /\ l.hash = t
        /\ \A p \in Reqs : req'[p] = IF p = q THEN l ELSE req[p]
    BY <1>2 DEF RefreshToken, ReqState
  <2>6. req[q].pc = "refresh" /\ UNCHANGED <<held, cut>>
    BY <1>2 DEF RefreshToken
  <2>7. \A u \in held[s] : u.n < t.n
    BY <2>1, <2>2 DEF RevokedInv, Numbered, Token, Session
  <2>8. \A p \in Reqs : Answering(p, s) => req[p].hash.n < t.n
    BY <2>1, <2>2 DEF RevokedInv, Numbered, Token, Session, ReqState, Answering
  <2> HIDE DEF t, s, l
  <2> QED
    BY <2>3, <2>4, <2>5, <2>6, <2>7, <2>8 DEF Newest, Open, Answering
<1>3. ASSUME NEW q \in Reqs, RefreshAnswer(q)
      PROVE  Newest'
  <2>1. /\ req[q].pc = "answer" /\ req[q].sid \in Sids /\ UNCHANGED <<sess, cut>>
        /\ \A p \in Reqs : req'[p] = IF p = q THEN IdleReq ELSE req[p]
        /\ \A x \in Sids : held'[x] = IF x = req[q].sid
                                     THEN held[x] \cup {req[q].hash} ELSE held[x]
    BY <1>3 DEF RefreshAnswer, WellFormed
  <2>2. ASSUME NEW x \in Sids, Open(x)'
        PROVE  LET hash == sess[x].refreshTokenHash
               IN  /\ \/ hash \in held'[x]
                      \/ \E p \in Reqs : Answering(p, x)' /\ req'[p].hash = hash
                      \/ x \in cut
                   /\ \A t \in held'[x] : t # hash => t.n < hash.n
                   /\ \A p \in Reqs : Answering(p, x)' /\ req'[p].hash # hash
                                         => req'[p].hash.n < hash.n
    <3> DEFINE hash == sess[x].refreshTokenHash
    <3>1. Open(x)
      BY <2>1, <2>2 DEF Open
    <3>2. /\ \/ hash \in held[x]
             \/ \E p \in Reqs : Answering(p, x) /\ req[p].hash = hash
             \/ x \in cut
          /\ \A t \in held[x] : t # hash => t.n < hash.n
          /\ \A p \in Reqs : Answering(p, x) /\ req[p].hash # hash
                                => req[p].hash.n < hash.n
      BY <3>1 DEF Newest
    <3>3. \A p \in Reqs : Answering(p, x)' =>
                Answering(p, x) /\ req'[p] = req[p]
      BY <2>1 DEF Answering, IdleReq
    <3>4. \A p \in Reqs : Answering(p, x) =>
                \/ Answering(p, x)' /\ req'[p] = req[p]
                \/ req[p].hash \in held'[x]
      BY <2>1 DEF Answering
    <3>5. \A t \in held'[x] : t \in held[x] \/ (Answering(q, x) /\ t = req[q].hash)
      BY <2>1 DEF Answering
    <3>6. held[x] \subseteq held'[x]
      BY <2>1
    <3> HIDE DEF hash
    <3>7. \/ hash \in held'[x]
          \/ \E p \in Reqs : Answering(p, x)' /\ req'[p].hash = hash
          \/ x \in cut
      BY <3>2, <3>4, <3>6
    <3>8. \A t \in held'[x] : t # hash => t.n < hash.n
      BY <3>2, <3>5
    <3>9. \A p \in Reqs : Answering(p, x)' /\ req'[p].hash # hash
                                => req'[p].hash.n < hash.n
      BY <3>2, <3>3
    <3> QED
      BY <3>7, <3>8, <3>9 DEF hash
  <2> QED
    BY <2>1, <2>2 DEF Newest
<1>4. CASE Reticent
  <2>1. ASSUME NEW x \in Sids, Open(x)'
        PROVE  Open(x) /\ sess'[x] = sess[x]
    BY <1>4, <2>1 DEF Reticent, Terminates, Open
  <2>2. UNCHANGED held /\ cut \subseteq cut'
    BY <1>4 DEF Reticent, AnswersKept
  <2>3. ASSUME NEW x \in Sids, NEW p \in Reqs
        PROVE  /\ Answering(p, x)' => Answering(p, x) /\ req'[p] = req[p]
               /\ Answering(p, x) =>
                     (Answering(p, x)' /\ req'[p] = req[p]) \/ x \in cut'
    <3>1. /\ req'[p].pc = "answer" => req'[p] = req[p]
          /\ req[p].pc = "answer" => req'[p] = req[p] \/ req[p].sid \in cut'
      BY <1>4 DEF Reticent, AnswersKept
    <3> QED
      BY ONLY <3>1 DEF Answering
  <2>4. ASSUME NEW x \in Sids, Open(x)'
        PROVE  LET hash == sess[x].refreshTokenHash
               IN  /\ \/ hash \in held[x]
                      \/ \E p \in Reqs : Answering(p, x)' /\ req'[p].hash = hash
                      \/ x \in cut'
                   /\ \A t \in held[x] : t # hash => t.n < hash.n
                   /\ \A p \in Reqs : Answering(p, x)' /\ req'[p].hash # hash
                                         => req'[p].hash.n < hash.n
    <3> DEFINE hash == sess[x].refreshTokenHash
    <3>1. /\ \/ hash \in held[x]
             \/ \E p \in Reqs : Answering(p, x) /\ req[p].hash = hash
             \/ x \in cut
          /\ \A t \in held[x] : t # hash => t.n < hash.n
          /\ \A p \in Reqs : Answering(p, x) /\ req[p].hash # hash
                                => req[p].hash.n < hash.n
      BY <2>1, <2>4 DEF Newest
    <3> HIDE DEF hash
    <3>2. /\ \/ hash \in held[x]
             \/ \E p \in Reqs : Answering(p, x)' /\ req'[p].hash = hash
             \/ x \in cut'
          /\ \A t \in held[x] : t # hash => t.n < hash.n
          /\ \A p \in Reqs : Answering(p, x)' /\ req'[p].hash # hash
                                => req'[p].hash.n < hash.n
      BY <2>2, <2>3, <3>1
    <3> QED
      BY <3>2 DEF hash
  <2> QED
    BY <2>1, <2>2, <2>4 DEF Newest
<1> QED
    BY <1>1, <1>2, <1>3, <1>4, TableSteps

(* A client's token is refused as compromised only when it was replaced by  *)
(* one a client holds, or is about to be handed, or whose answer a failure  *)
(* lost: for any number of requests that present one token at once, any     *)
(* number of refreshes that store before they answer, and whatever part of  *)
(* the issue time bcrypt sees.                                              *)
THEOREM OnlyReplacedLooksCompromised == Spec => []OnlyReplacedMismatch
<1>1. Init => RInv /\ Newest
    BY InitTypes, InitRevoked DEF RInv, Init, Newest, Answering, Open, Absent
<1>2. RInv /\ Newest => OnlyReplacedMismatch
    BY DEF RInv, TypeInv, TypeOK, Newest, Answering, OnlyReplacedMismatch, Compare,
           Session, Token
<1>3. RInv /\ Newest /\ [Next]_vars => RInv' /\ Newest'
    BY RevokedStep, NewestStep
<1> QED
    BY <1>1, <1>2, <1>3, PTL DEF Spec
-----------------------------------------------------------------------------
(* Neither the guard nor a job writes the reason of a logout. *)
LogoutInv ==
    /\ \A q \in Reqs : req[q].pc \in {"compromised", "close"}
                          => req[q].reason # "LOGOUT"
    /\ "LOGOUT" \notin AdminReasons => \A j \in Jobs : job[j].reason # "LOGOUT"
    /\ LogoutRecorded

(* A step that gives no session the reason of a logout, forgets no record   *)
(* and takes no logout off its way.                                         *)
NoLogout ==
    /\ \A s \in Sids : sess'[s].terminationReason = "LOGOUT"
                          => sess[s].terminationReason = "LOGOUT"
    /\ revoked \subseteq revoked'
    /\ \A q \in Reqs : req[q].pc \in {"block", "revoke"}
          => req'[q].pc \in {"block", "revoke"} /\ req'[q].sid = req[q].sid
    /\ cut \subseteq cut'

LEMMA NoLogoutRecorded ==
    ASSUME TypeInv, TypeInv', LogoutRecorded, NoLogout
    PROVE  LogoutRecorded'
BY DEF LogoutRecorded, NoLogout, TypeInv, TypeOK

LEMMA TerminatedReason ==
    ASSUME TypeInv, NEW s \in Sids, NEW reason \in TerminationReasons \cup {NoReason},
           sess' = [sess EXCEPT ![s] = Terminated(@, reason)]
    PROVE  \A x \in Sids : sess'[x].terminationReason = sess[x].terminationReason
                           \/ (x = s /\ sess'[x].terminationReason = reason)
BY DEF TypeInv, TypeOK, Terminated, Session

LEMMA LogoutStep ==
    ASSUME TypeInv, TypeInv', LogoutInv, [Next]_vars
    PROVE  LogoutInv'
<1> USE DEF TypeInv, TypeOK
<1>2. ASSUME NEW r \in LoginReqs, NEW s \in Sids, LoginCommit(r, s)
      PROVE  LogoutInv'
  <2>1. \A x \in Sids : sess'[x].terminationReason = "LOGOUT"
                           => sess[x].terminationReason = "LOGOUT"
    <3>1. \A x \in Sids : Terminated(sess[x], "LIMIT").terminationReason = "LIMIT"
      BY DEF Terminated, Session, NoReason
    <3>2. sess'[s].terminationReason = NoReason
      BY <1>2 DEF LoginCommit, NewSession
    <3> QED
      BY <1>2, <3>1, <3>2 DEF LoginCommit, NoReason
  <2>2. NoLogout
    BY <1>2, <2>1 DEF LoginCommit, NoLogout
  <2> QED
    BY <1>2, <2>2, NoLogoutRecorded DEF LoginCommit, LogoutInv
<1>3. ASSUME NEW r \in LoginReqs,
             \/ \E u \in Users, d \in Devices : LoginBegin(r, u, d)
             \/ EnforceDeviceSessionLimit(r)
             \/ EnforceSessionLimit(r)
             \/ LoginRollback(r)
      PROVE  LogoutInv'
  <2>1. UNCHANGED <<sess, revoked, req, job, cut>>
    BY <1>3 DEF LoginBegin, EnforceDeviceSessionLimit, EnforceSessionLimit, LoginRollback
  <2> QED
    BY <2>1 DEF LogoutInv, LogoutRecorded
<1>4. ASSUME NEW q \in Reqs, NEW s \in Sids, NEW t \in held[s],
             \/ GuardExpired(q, s, t)
             \/ GuardMismatch(q, s, t)
             \/ \E handler \in {"refresh", "logout"} : GuardAccept(q, s, t, handler)
      PROVE  LogoutInv'
  <2>1. PICK pc \in {"refresh", "logout", "compromised", "close"},
             reason \in {"TIMEOUT", "REVOKED", NoReason},
             hash \in {NoToken, sess[s].refreshTokenHash} :
                GuardStep(q, s, pc, reason, hash)
    BY <1>4 DEF GuardExpired, GuardMismatch, GuardAccept
  <2>2. req[q].pc = "idle"
    BY <1>4 DEF GuardExpired, GuardMismatch, GuardAccept, Presents
  <2>3. /\ UNCHANGED <<sess, revoked, job, cut>>
        /\ \A p \in Reqs : p # q => req'[p] = req[p]
        /\ req'[q].pc = pc /\ req'[q].reason = reason
    BY <2>1 DEF GuardStep
  <2>4. reason # "LOGOUT"
    BY DEF NoReason
  <2>5. NoLogout
    BY <2>2, <2>3 DEF NoLogout
  <2> QED
    BY <2>3, <2>4, <2>5, NoLogoutRecorded DEF LogoutInv
<1>5. ASSUME NEW q \in Reqs, RevokeCompromised(q)
      PROVE  LogoutInv'
  <2>1. /\ UNCHANGED <<sess, job, cut>> /\ revoked \subseteq revoked'
        /\ req[q].pc = "compromised"
        /\ \A p \in Reqs : p # q => req'[p] = req[p]
        /\ req'[q].pc \in {"idle", "close"} /\ req'[q].reason \in {NoReason, req[q].reason}
    BY <1>5 DEF RevokeCompromised, IdleReq, ReqState
  <2>2. NoLogout
    BY <2>1 DEF NoLogout
  <2> QED
    BY <2>1, <2>2, NoLogoutRecorded DEF LogoutInv, NoReason
<1>6. ASSUME NEW q \in Reqs, GuardClose(q)
      PROVE  LogoutInv'
  <2>1. /\ UNCHANGED <<job, cut, revoked>>
        /\ req[q].pc = "close" /\ req[q].sid \in Sids
        /\ \A p \in Reqs : req'[p] = IF p = q THEN IdleReq ELSE req[p]
    BY <1>6 DEF GuardClose, WellFormed
  <2>2. \A x \in Sids : sess'[x].terminationReason = "LOGOUT"
                           => sess[x].terminationReason = "LOGOUT"
    <3>1. /\ req[q].reason \in TerminationReasons \cup {NoReason}
          /\ req[q].reason # "LOGOUT"
      BY <2>1 DEF LogoutInv, ReqState
    <3>2. sess' = [sess EXCEPT ![req[q].sid] = Terminated(@, req[q].reason)]
      BY <1>6 DEF GuardClose
    <3> QED
      BY <2>1, <3>1, <3>2, TerminatedReason
  <2>3. NoLogout
    BY <2>1, <2>2 DEF NoLogout
  <2> QED
    BY <2>1, <2>3, NoLogoutRecorded DEF LogoutInv, IdleReq
<1>7. ASSUME NEW q \in Reqs, RefreshToken(q)
      PROVE  LogoutInv'
  <2> DEFINE s == req[q].sid
             l == [req[q] EXCEPT !.pc = "answer", !.hash = NextToken(s)]
  <2>1. /\ UNCHANGED <<job, cut, revoked>>
        /\ req[q].pc = "refresh" /\ s \in Sids
        /\ \A p \in Reqs : req'[p] = IF p = q THEN l ELSE req[p]
    BY <1>7 DEF RefreshToken, WellFormed
  <2>2. l.pc = "answer"
    BY DEF ReqState
  <2>3. \A x \in Sids : sess'[x].terminationReason = sess[x].terminationReason
    <3>1. NextToken(s) \in Token
      BY <2>1 DEF NextToken, Session, Token
    <3> QED
      BY <1>7, <2>1, <3>1, RefreshedIs DEF RefreshToken
  <2> HIDE DEF l, s
  <2>4. NoLogout
    BY <2>1, <2>2, <2>3 DEF NoLogout
  <2> QED
    BY <2>1, <2>2, <2>4, NoLogoutRecorded DEF LogoutInv
<1>15. ASSUME NEW q \in Reqs, RefreshAnswer(q) \/ RefreshFails(q) \/ RequestRefused(q)
      PROVE  LogoutInv'
  <2>1. /\ UNCHANGED <<sess, job, revoked>> /\ cut \subseteq cut'
        /\ req[q].pc \in {"answer", "refresh", "logout"}
        /\ \A p \in Reqs : req'[p] = IF p = q THEN IdleReq ELSE req[p]
    BY <1>15 DEF RefreshAnswer, RefreshFails, RequestRefused
  <2>2. NoLogout
    BY <2>1 DEF NoLogout
  <2> QED
    BY <2>1, <2>2, NoLogoutRecorded DEF LogoutInv, IdleReq
<1>8. ASSUME NEW q \in Reqs, LogoutTerminate(q)
      PROVE  LogoutInv'
  <2>1. /\ UNCHANGED <<job, cut, revoked>>
        /\ req[q].pc = "logout" /\ req[q].sid \in Sids
        /\ req'[q].pc = "block" /\ req'[q].sid = req[q].sid
        /\ \A p \in Reqs : p # q => req'[p] = req[p]
    BY <1>8 DEF LogoutTerminate, WellFormed, ReqState
  <2>2. \A x \in Sids : sess'[x].terminationReason = sess[x].terminationReason
                        \/ x = req[q].sid
    BY <1>8, <2>1, TerminatedReason DEF LogoutTerminate, TerminationReasons
  <2> QED
    BY <2>1, <2>2 DEF LogoutInv, LogoutRecorded
<1>9. ASSUME NEW q \in Reqs, LogoutBlockDevice(q)
      PROVE  LogoutInv'
  <2>1. /\ UNCHANGED <<sess, job, cut, revoked>>
        /\ req'[q].pc = "revoke" /\ req'[q].sid = req[q].sid
        /\ \A p \in Reqs : p # q => req'[p] = req[p]
    BY <1>9 DEF LogoutBlockDevice, ReqState
  <2>2. NoLogout
    BY <2>1 DEF NoLogout
  <2> QED
    BY <2>1, <2>2, NoLogoutRecorded DEF LogoutInv
<1>10. ASSUME NEW q \in Reqs, LogoutRevokeToken(q)
       PROVE  LogoutInv'
  <2>1. /\ UNCHANGED <<sess, job, cut>>
        /\ revoked' = revoked \cup {<<req[q].sid, req[q].hash>>}
        /\ \A p \in Reqs : req'[p] = IF p = q THEN IdleReq ELSE req[p]
    BY <1>10 DEF LogoutRevokeToken
  <2>2. ASSUME NEW s \in Sids, sess[s].terminationReason = "LOGOUT",
               "LOGOUT" \notin AdminReasons, s \notin cut
        PROVE  \/ \E row \in revoked' : row[1] = s
               \/ \E p \in Reqs : req'[p].pc \in {"block", "revoke"} /\ req'[p].sid = s
    <3>1. CASE \E row \in revoked : row[1] = s
      BY <2>1, <3>1
    <3>2. CASE \E p \in Reqs : req[p].pc \in {"block", "revoke"} /\ req[p].sid = s
      <4>1. PICK p \in Reqs : req[p].pc \in {"block", "revoke"} /\ req[p].sid = s
        BY <3>2
      <4>2. p = q => <<s, req[q].hash>> \in revoked'
        BY <2>1, <4>1
      <4>3. p # q => req'[p] = req[p]
        BY <2>1
      <4>4. <<s, req[q].hash>>[1] = s
        OBVIOUS
      <4> QED
        BY <4>1, <4>2, <4>3, <4>4
    <3> QED
      BY <2>2, <3>1, <3>2 DEF LogoutInv, LogoutRecorded
  <2>3. LogoutRecorded'
    BY <2>1, <2>2 DEF LogoutRecorded
  <2> QED
    BY <2>1, <2>3 DEF LogoutInv, IdleReq
<1>11. ASSUME NEW j \in Jobs,
             \/ \E reason \in AdminReasons :
                   \/ \E u \in Users : TerminateAllUserSessions(j, u, reason)
                   \/ \E d \in Devices : TerminateAllDeviceSessions(j, d, reason)
             \/ \E c \in Cleanups : CleanupExpired(j, c)
             \/ CleanupInactive(j)
             \/ JobEnd(j)
             \/ JobAbort(j)
       PROVE  LogoutInv'
  <2>1. UNCHANGED <<sess, revoked, req>> /\ cut' = cut
    BY <1>11 DEF TerminateAllUserSessions, TerminateAllDeviceSessions, StartJob,
                 CleanupExpired, CleanupInactive, JobEnd, JobAbort
  <2>2. \A i \in Jobs : job'[i].reason \in AdminReasons \cup {"TIMEOUT", NoReason, job[i].reason}
    BY <1>11 DEF TerminateAllUserSessions, TerminateAllDeviceSessions, StartJob, IdleJob,
                 CleanupExpired, CleanupInactive, JobEnd, JobAbort, JobState
  <2>3. NoLogout
    BY <2>1 DEF NoLogout
  <2> QED
    BY <2>1, <2>2, <2>3, NoLogoutRecorded DEF LogoutInv, NoReason
<1>12. ASSUME NEW j \in Jobs, NEW s \in Sids, TerminateNext(j, s)
       PROVE  LogoutInv'
  <2>1. /\ UNCHANGED <<req, revoked, cut>>
        /\ \A i \in Jobs : job'[i].reason = job[i].reason
    BY <1>12 DEF TerminateNext, JobState
  <2>2. "LOGOUT" \notin AdminReasons =>
           \A x \in Sids : sess'[x].terminationReason = "LOGOUT"
                              => sess[x].terminationReason = "LOGOUT"
    <3>1. /\ job[j].reason \in TerminationReasons \cup {NoReason}
          /\ "LOGOUT" \notin AdminReasons => job[j].reason # "LOGOUT"
      BY DEF LogoutInv, JobState
    <3>2. sess' = [sess EXCEPT ![s] = Terminated(@, job[j].reason)]
      BY <1>12 DEF TerminateNext
    <3> QED
      BY <3>1, <3>2, TerminatedReason
  <2>3. "LOGOUT" \notin AdminReasons => NoLogout
    BY <2>1, <2>2 DEF NoLogout
  <2>4. LogoutRecorded'
    BY <2>3, NoLogoutRecorded DEF LogoutInv, LogoutRecorded
  <2> QED
    BY <2>1, <2>4 DEF LogoutInv
<1>13. CASE ApiCrash
  <2>1. /\ UNCHANGED <<sess, revoked, job>> /\ cut \subseteq cut'
        /\ \A q \in Reqs : req'[q] = IdleReq
        /\ \A q \in Reqs : req[q].pc # "idle" => req[q].sid \in cut'
    BY <1>13 DEF ApiCrash
  <2> QED
    BY <2>1 DEF LogoutInv, LogoutRecorded, IdleReq
<1>14. CASE Tick \/ UNCHANGED vars
  <2>1. UNCHANGED <<sess, revoked, req, job, cut>>
    BY <1>14 DEF Tick, vars
  <2> QED
    BY <2>1 DEF LogoutInv, LogoutRecorded
<1> QED
    BY <1>2, <1>3, <1>4, <1>5, <1>6, <1>7, <1>8, <1>9, <1>10, <1>11, <1>12, <1>13, <1>14, <1>15
    DEF Next, LoginStep, ReqStep, JobStep

(* A logout that has terminated its session gets its token on record, or is *)
(* still under way, or a failure cut it short: for any number of logouts,   *)
(* refreshes, logins and bulk terminations between its three transactions.  *)
THEOREM LogoutIsRecorded == Spec => []LogoutRecorded
<1>1. Init => LogoutInv
    BY DEF Init, LogoutInv, LogoutRecorded, Absent, IdleReq, IdleJob, NoReason
<1>2. LogoutInv => LogoutRecorded
    BY DEF LogoutInv
<1>3. TypeInv /\ LogoutInv /\ [Next]_vars => LogoutInv'
    BY TypeStep, LogoutStep
<1> QED
    BY <1>1, <1>2, <1>3, InitTypes, TypeStep, PTL DEF Spec
-----------------------------------------------------------------------------
(* A slot that runs no job has nothing left on its list. *)
Unlisted == \A j \in Jobs : job[j].pc = "idle" => job[j].todo = {}

Worked == \A j \in Jobs, s \in Sids :
             s \in job[j].todo /\ s \notin job'[j].todo
                => sess'[s].state = "terminated" \/ failures' > failures

LEMMA WorkedStep ==
    ASSUME TypeInv, Unlisted, [Next]_vars
    PROVE  Unlisted' /\ Worked
<1> USE DEF TypeInv, TypeOK
<1>1. ASSUME UNCHANGED job PROVE Unlisted' /\ Worked
    BY <1>1 DEF Unlisted, Worked
<1>2. ASSUME NEW j \in Jobs, NEW pc \in {"expired", "last"}, NEW list, NEW reason,
             NEW inactive, StartJob(j, pc, list, reason, inactive)
      PROVE  Unlisted' /\ Worked
  <2>1. /\ job[j].todo = {}
        /\ job'[j].pc = pc
        /\ \A i \in Jobs : i # j => job'[i] = job[i]
    BY <1>2 DEF StartJob, Unlisted
  <2> QED
    BY <2>1 DEF Unlisted, Worked
<1>3. ASSUME NEW j \in Jobs, CleanupInactive(j)
      PROVE  Unlisted' /\ Worked
  <2>1. /\ job[j].todo = {}
        /\ job'[j].pc = "last"
        /\ \A i \in Jobs : i # j => job'[i] = job[i]
    BY <1>3 DEF CleanupInactive, JobState
  <2> QED
    BY <2>1 DEF Unlisted, Worked
<1>4. ASSUME NEW j \in Jobs, NEW s \in Sids, TerminateNext(j, s)
      PROVE  Unlisted' /\ Worked
  <2>1. /\ job'[j].todo = job[j].todo \ {s} /\ job'[j].pc = job[j].pc
        /\ \A i \in Jobs : i # j => job'[i] = job[i]
    BY <1>4 DEF TerminateNext, JobState
  <2>2. sess'[s].state = "terminated"
    BY <1>4, TerminatedType DEF TerminateNext, JobState
  <2> QED
    BY <2>1, <2>2 DEF Unlisted, Worked
<1>5. ASSUME NEW j \in Jobs, JobEnd(j) PROVE Unlisted' /\ Worked
  <2>1. /\ job[j].todo = {} /\ job'[j] = IdleJob
        /\ \A i \in Jobs : i # j => job'[i] = job[i]
    BY <1>5 DEF JobEnd
  <2> QED
    BY <2>1 DEF Unlisted, Worked, IdleJob
<1>6. ASSUME NEW j \in Jobs, JobAbort(j) PROVE Unlisted' /\ Worked
  <2>1. /\ failures' > failures /\ job'[j] = IdleJob
        /\ \A i \in Jobs : i # j => job'[i] = job[i]
    BY <1>6 DEF JobAbort
  <2> QED
    BY <2>1 DEF Unlisted, Worked, IdleJob
<1>7. ASSUME NEW j \in Jobs,
             \/ \E reason \in AdminReasons :
                   \/ \E u \in Users : TerminateAllUserSessions(j, u, reason)
                   \/ \E d \in Devices : TerminateAllDeviceSessions(j, d, reason)
             \/ \E c \in Cleanups : CleanupExpired(j, c)
      PROVE  Unlisted' /\ Worked
    BY <1>2, <1>7 DEF TerminateAllUserSessions, TerminateAllDeviceSessions,
                      CleanupExpired
<1>8. CASE Tick \/ ApiCrash \/ UNCHANGED vars
    BY <1>1, <1>8 DEF Tick, ApiCrash, vars
<1>9. ASSUME NEW r \in LoginReqs,
             \/ \E u \in Users, d \in Devices : LoginBegin(r, u, d)
             \/ LoginStep(r)
             \/ LoginRollback(r)
      PROVE  Unlisted' /\ Worked
    BY <1>1, <1>9 DEF LoginBegin, LoginStep, EnforceDeviceSessionLimit,
                      EnforceSessionLimit, LoginCommit, LoginRollback
<1>10. ASSUME NEW q \in Reqs,
              \/ \E s \in Sids : \E t \in held[s] :
                    \/ GuardExpired(q, s, t)
                    \/ GuardMismatch(q, s, t)
                    \/ \E handler \in {"refresh", "logout"} :
                          GuardAccept(q, s, t, handler)
              \/ ReqStep(q)
              \/ RefreshFails(q)
       PROVE  Unlisted' /\ Worked
    BY <1>1, <1>10 DEF GuardExpired, GuardMismatch, GuardAccept, GuardStep, ReqStep,
        RevokeCompromised, GuardClose, RequestRefused, RefreshToken, RefreshAnswer,
        RefreshFails, LogoutTerminate, LogoutBlockDevice, LogoutRevokeToken
<1> QED
    BY <1>3, <1>4, <1>5, <1>6, <1>7, <1>8, <1>9, <1>10 DEF Next, JobStep

(* Whatever a bulk termination has listed it terminates unless it fails: for*)
(* any number of them at once, and whatever is written meanwhile.           *)
THEOREM ListedIsEnded == Spec => ListedAreEnded
<1>1. Init => Unlisted
    BY DEF Init, Unlisted, IdleJob
<1>2. TypeInv /\ Unlisted /\ [Next]_vars => [Worked]_vars
    BY WorkedStep
<1>3. TypeInv /\ Unlisted /\ [Next]_vars => Unlisted'
    BY WorkedStep
<1> QED
    BY <1>1, <1>2, <1>3, InitTypes, TypeStep, PTL DEF Spec, ListedAreEnded, Worked
=============================================================================
