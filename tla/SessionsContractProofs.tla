----------------------- MODULE SessionsContractProofs -----------------------
(* Sessions implements SessionContract, for every value of the constants:   *)
(* each of its steps is one step of the contract or leaves it unchanged.    *)
EXTENDS SessionsRefinement, SessionsProofs

(* A login dates its session by a clock it has read, never a later one. *)
DatedByNow == \A r \in LoginReqs : login[r].at <= now

RefineInv == TypeInv /\ DatedByNow

LEMMA InitContract == Init => Contract!Init
<1> SUFFICES ASSUME Init PROVE Contract!Init
    OBVIOUS
<1>1. Granted = {}
    BY DEF Init, Granted, IdleReq
<1>2. Condemned = {}
    BY DEF Init, Condemned, Victims, Listed, Closing, IdleReq, IdleLogin, IdleJob
<1> QED
    BY <1>1, <1>2 DEF Init, Contract!Init, Absent

LEMMA InitDated == Init => DatedByNow
BY DEF Init, DatedByNow, IdleLogin

LEMMA DatedStep == TypeInv /\ DatedByNow /\ [Next]_vars => DatedByNow'
<1> SUFFICES ASSUME TypeInv, DatedByNow, [Next]_vars PROVE DatedByNow'
    OBVIOUS
<1> USE DEF TypeInv, TypeOK, DatedByNow
<1>1. CASE Tick
    BY <1>1 DEF Tick, LoginState
<1>2. CASE ApiCrash
    BY <1>2 DEF ApiCrash, IdleLogin
<1>3. ASSUME UNCHANGED <<now, login>> PROVE DatedByNow'
    BY <1>3
<1>4. ASSUME NEW r \in LoginReqs, NEW u \in Users, NEW d \in Devices,
             LoginBegin(r, u, d)
      PROVE  DatedByNow'
    BY <1>4 DEF LoginBegin, IdleLogin
<1>5. ASSUME NEW r \in LoginReqs, EnforceDeviceSessionLimit(r) PROVE DatedByNow'
    BY <1>5 DEF EnforceDeviceSessionLimit, LoginState
<1>6. ASSUME NEW r \in LoginReqs, EnforceSessionLimit(r) PROVE DatedByNow'
    BY <1>6 DEF EnforceSessionLimit, LoginState
<1>7. ASSUME NEW r \in LoginReqs, NEW s \in Sids, LoginCommit(r, s)
      PROVE  DatedByNow'
    BY <1>7 DEF LoginCommit, IdleLogin
<1>8. ASSUME NEW r \in LoginReqs, LoginRollback(r) PROVE DatedByNow'
    BY <1>8 DEF LoginRollback, IdleLogin
<1>9. ASSUME NEW q \in Reqs,
             \/ \E s \in Sids : \E t \in held[s] :
                   \/ GuardExpired(q, s, t)
                   \/ GuardMismatch(q, s, t)
                   \/ \E handler \in {"refresh", "logout"} :
                         GuardAccept(q, s, t, handler)
             \/ ReqStep(q)
             \/ RefreshFails(q)
      PROVE  UNCHANGED <<now, login>>
    BY <1>9 DEF GuardExpired, GuardMismatch, GuardAccept, GuardStep, ReqStep,
                RevokeCompromised, GuardClose, RequestRefused, RefreshToken,
                RefreshAnswer, RefreshFails, LogoutTerminate, LogoutBlockDevice,
                LogoutRevokeToken
<1>10. ASSUME NEW j \in Jobs,
              \/ \E reason \in AdminReasons :
                    \/ \E u \in Users : TerminateAllUserSessions(j, u, reason)
                    \/ \E d \in Devices : TerminateAllDeviceSessions(j, d, reason)
              \/ \E c \in Cleanups : CleanupExpired(j, c)
              \/ JobStep(j)
              \/ JobAbort(j)
       PROVE  UNCHANGED <<now, login>>
    BY <1>10 DEF TerminateAllUserSessions, TerminateAllDeviceSessions, StartJob,
                 CleanupExpired, JobStep, CleanupInactive, TerminateNext, JobEnd,
                 JobAbort
<1>11. CASE UNCHANGED vars
    BY <1>11 DEF vars
<1> QED
    BY <1>1, <1>2, <1>3, <1>4, <1>5, <1>6, <1>7, <1>8, <1>9, <1>10, <1>11
    DEF Next, LoginStep

-----------------------------------------------------------------------------
(* The four kinds of step a handler takes. *)

LEMMA JudgeStep ==
    ASSUME TypeInv, UNCHANGED <<now, sess>>,
           Granted' \subseteq Granted \cup {s \in Sids : Open(s) /\ ~Expired(sess[s])},
           Condemned' \subseteq Condemned \cup {s \in Sids : Open(s)}
    PROVE  Contract!Judge
<1>1. \A s \in Sids : Open(s) /\ ~Expired(sess[s]) => Contract!Usable(s)
    BY DEF TypeInv, TypeOK, Session, Open, Expired, Contract!Usable, Contract!IsOpen
<1>2. \A s \in Sids : Open(s) => Contract!IsOpen(s)
    BY DEF Open, Contract!IsOpen
<1> QED
    BY <1>1, <1>2 DEF Contract!Judge

LEMMA TerminateStep ==
    ASSUME TypeInv, NEW s \in Sids, NEW reason \in TerminationReasons \cup {NoReason},
           s \in Condemned, now' = now,
           sess' = [sess EXCEPT ![s] = Terminated(@, reason)],
           Granted' = Granted, Condemned' \subseteq Condemned
    PROVE  Contract!Terminate(s)
<1> DEFINE x == Terminated(sess[s], reason)
<1>1. x.state = "terminated" /\ x.expiresAt = sess[s].expiresAt
        /\ x.maxExpiresAt = sess[s].maxExpiresAt
    BY DEF TypeInv, TypeOK, Session, Terminated
<1>2. sess' = [sess EXCEPT ![s] = x]
    OBVIOUS
<1> HIDE DEF x
<1>3. \A y \in Sids : sess'[y] = IF y = s THEN x ELSE sess[y]
    BY <1>2 DEF TypeInv, TypeOK
<1>4. [y \in Sids |-> sess'[y].state]
         = [[y \in Sids |-> sess[y].state] EXCEPT ![s] = "terminated"]
  <2> DEFINE f == [y \in Sids |-> sess[y].state]
             g == [y \in Sids |-> sess'[y].state]
  <2>1. \A y \in Sids : g[y] = IF y = s THEN "terminated" ELSE f[y]
    BY <1>1, <1>3
  <2>2. f = [y \in Sids |-> f[y]] /\ g = [y \in Sids |-> g[y]]
    OBVIOUS
  <2> HIDE DEF f, g
  <2>3. g = [f EXCEPT ![s] = "terminated"]
    BY <2>1, <2>2
  <2> QED
    BY <2>3 DEF f, g
<1>5. /\ [y \in Sids |-> sess'[y].expiresAt] = [y \in Sids |-> sess[y].expiresAt]
      /\ [y \in Sids |-> sess'[y].maxExpiresAt] = [y \in Sids |-> sess[y].maxExpiresAt]
    BY <1>1, <1>3
<1> QED
    BY <1>4, <1>5 DEF Contract!Terminate

LEMMA ExtendStep ==
    ASSUME TypeInv, NEW q \in Reqs, RefreshToken(q),
           NEW s \in Sids, s = req[q].sid,
           Granted' \subseteq Granted, Condemned' \subseteq Condemned
    PROVE  Contract!Extend(s)
<1> DEFINE row == Refreshed(sess[s], NextToken(s))
<1>1. s \in Granted /\ now' = now
    BY DEF RefreshToken, TypeInv, WellFormed, Granted
<1>2. sess[s] \in Session
    BY <1>1 DEF TypeInv, TypeOK
<1>3. row.state = sess[s].state /\ row.expiresAt = now + RefreshTTL
        /\ row.maxExpiresAt = sess[s].maxExpiresAt
    BY <1>1, <1>2, RefreshedIs, NextTokenType DEF TypeInv, TypeOK
<1>4. sess' = [sess EXCEPT ![s] = row]
    BY <1>1 DEF RefreshToken
<1> HIDE DEF row
<1>5. \A y \in Sids : sess'[y] = IF y = s THEN row ELSE sess[y]
    BY <1>1, <1>4 DEF TypeInv, TypeOK
<1>6. [y \in Sids |-> sess'[y].expiresAt]
         = [[y \in Sids |-> sess[y].expiresAt] EXCEPT ![s] = now + RefreshTTL]
    BY <1>1, <1>3, <1>5
<1>7. /\ [y \in Sids |-> sess'[y].state] = [y \in Sids |-> sess[y].state]
      /\ [y \in Sids |-> sess'[y].maxExpiresAt] = [y \in Sids |-> sess[y].maxExpiresAt]
    BY <1>1, <1>3, <1>5
<1> QED
    BY <1>1, <1>6, <1>7 DEF Contract!Extend

LEMMA OpenStep ==
    ASSUME RefineInv, NEW r \in LoginReqs, NEW s \in Sids, LoginCommit(r, s),
           NEW V \in SUBSET Sids, V = login[r].victims,
           Granted' = Granted, Condemned' \subseteq Condemned
    PROVE  Contract!Open(s, V)
<1> DEFINE new == NewSession(login[r], [n |-> 1, iat |-> now])
<1>1. login[r] \in LoginState /\ V \subseteq Sids /\ login[r].at <= now
         /\ now \in Nat /\ now' = now /\ sess[s].state = "absent"
    BY DEF RefineInv, TypeInv, TypeOK, LoginState, DatedByNow, LoginCommit
<1>2. V \subseteq Condemned
    BY DEF Condemned, Victims, Listed, Closing
<1>3. new.state = "open" /\ new.expiresAt <= now + SessionTTL
        /\ new.maxExpiresAt <= now + MaxTTL
    BY <1>1, TimesAssumption DEF NewSession, LoginState
<1>4. \A y \in Sids : sess'[y] = IF y = s THEN new
                                 ELSE IF y \in V THEN Terminated(sess[y], "LIMIT")
                                 ELSE sess[y]
    BY DEF LoginCommit
<1> HIDE DEF new
<1>5. \A y \in Sids : LET x == Terminated(sess[y], "LIMIT")
                      IN  x.state = "terminated" /\ x.expiresAt = sess[y].expiresAt
                            /\ x.maxExpiresAt = sess[y].maxExpiresAt
    BY DEF RefineInv, TypeInv, TypeOK, Session, Terminated
<1>6. [y \in Sids |-> sess'[y].state]
        = [y \in Sids |-> IF y = s THEN "open"
                          ELSE IF y \in V THEN "terminated"
                          ELSE [x \in Sids |-> sess[x].state][y]]
    BY <1>3, <1>4, <1>5
<1>7. \A y \in Sids \ {s} : /\ sess'[y].expiresAt = sess[y].expiresAt
                             /\ sess'[y].maxExpiresAt = sess[y].maxExpiresAt
    BY <1>4, <1>5
<1>8. sess'[s].expiresAt <= now + SessionTTL /\ sess'[s].maxExpiresAt <= now + MaxTTL
    BY <1>3, <1>4
<1> QED
    BY <1>1, <1>2, <1>6, <1>7, <1>8 DEF Contract!Open
-----------------------------------------------------------------------------
LEMMA LoginSimulates ==
    ASSUME RefineInv, NEW r \in LoginReqs,
           \/ \E u \in Users, d \in Devices : LoginBegin(r, u, d)
           \/ LoginStep(r)
           \/ LoginRollback(r)
    PROVE  Contract!Next
<1> USE DEF RefineInv, TypeInv, TypeOK
<1>1. ASSUME UNCHANGED <<now, sess, req, job>>,
             NEW l, login' = [login EXCEPT ![r] = l],
             l.victims \subseteq login[r].victims \cup {s \in Sids : Open(s)}
      PROVE  Contract!Next
  <2>1. Granted' = Granted
    BY <1>1 DEF Granted
  <2>2. Condemned' \subseteq Condemned \cup {s \in Sids : Open(s)}
    BY <1>1 DEF Condemned, Victims, Listed, Closing
  <2> QED
    BY <1>1, <2>1, <2>2, JudgeStep DEF Contract!Next
<1>2. ASSUME NEW u \in Users, NEW d \in Devices, LoginBegin(r, u, d)
      PROVE  Contract!Next
  <2> DEFINE l == [IdleLogin EXCEPT !.pc = "device", !.user = u, !.device = d,
                                    !.reactivated = {d} \cap blocked]
  <2>1. l.victims = {}
    BY DEF IdleLogin
  <2>2. login' = [login EXCEPT ![r] = l] /\ UNCHANGED <<now, sess, req, job>>
    BY <1>2 DEF LoginBegin
  <2> HIDE DEF l
  <2> QED
    BY <1>1, <2>1, <2>2
<1>3. CASE EnforceDeviceSessionLimit(r)
  <2>1. PICK V \in Oldest(ActiveOnDevice(login[r].device), MaxSessionsPerDevice) :
            login' = [login EXCEPT ![r].pc = "user", ![r].victims = V]
    BY <1>3 DEF EnforceDeviceSessionLimit
  <2> DEFINE l == [login[r] EXCEPT !.pc = "user", !.victims = V]
  <2>2. V \subseteq {s \in Sids : Open(s)}
    BY OldestSubset DEF ActiveOnDevice, Active
  <2>3. l.victims = V /\ login' = [login EXCEPT ![r] = l]
    BY <2>1 DEF LoginState
  <2>4. UNCHANGED <<now, sess, req, job>>
    BY <1>3 DEF EnforceDeviceSessionLimit
  <2> HIDE DEF l
  <2> QED
    BY <1>1, <2>2, <2>3, <2>4
<1>4. CASE EnforceSessionLimit(r)
  <2>1. PICK V \in Oldest(ActiveOfUser(login[r].user) \ login[r].victims,
                          MaxSessionsPerUser) :
            login' = [login EXCEPT ![r].pc = "commit", ![r].at = now,
                                   ![r].victims = @ \cup V]
    BY <1>4 DEF EnforceSessionLimit
  <2> DEFINE l == [login[r] EXCEPT !.pc = "commit", !.at = now,
                                   !.victims = login[r].victims \cup V]
  <2>2. V \subseteq {s \in Sids : Open(s)}
    BY OldestSubset DEF ActiveOfUser, Active
  <2>3. l.victims = login[r].victims \cup V /\ login' = [login EXCEPT ![r] = l]
    BY <2>1 DEF LoginState
  <2>4. UNCHANGED <<now, sess, req, job>>
    BY <1>4 DEF EnforceSessionLimit
  <2> HIDE DEF l
  <2> QED
    BY <1>1, <2>2, <2>3, <2>4
<1>5. ASSUME NEW s \in Sids, LoginCommit(r, s)
      PROVE  Contract!Next
  <2>1. Granted' = Granted
    BY <1>5 DEF LoginCommit, Granted
  <2>2. Condemned' \subseteq Condemned
    BY <1>5 DEF LoginCommit, Condemned, Victims, Listed, Closing, IdleLogin
  <2>3. PICK V \in SUBSET Sids : V = login[r].victims
    BY DEF LoginState
  <2>4. Contract!Open(s, V)
    BY <1>5, <2>1, <2>2, <2>3, OpenStep
  <2> QED
    BY <2>4 DEF Contract!Next
<1>6. CASE LoginRollback(r)
  <2>1. IdleLogin.victims = {}
    BY DEF IdleLogin
  <2> QED
    BY <1>1, <1>6, <2>1 DEF LoginRollback
<1> QED
    BY <1>2, <1>3, <1>4, <1>5, <1>6 DEF LoginStep

LEMMA RequestSimulates ==
    ASSUME RefineInv, NEW q \in Reqs,
           \/ \E s \in Sids : \E t \in held[s] :
                 \/ GuardExpired(q, s, t)
                 \/ GuardMismatch(q, s, t)
                 \/ \E handler \in {"refresh", "logout"} :
                       GuardAccept(q, s, t, handler)
           \/ ReqStep(q)
           \/ RefreshFails(q)
    PROVE  Contract!Next
<1> USE DEF RefineInv, TypeInv, TypeOK
<1>1. ASSUME NEW s \in Sids, NEW pc, NEW reason, NEW hash,
             GuardStep(q, s, pc, reason, hash),
             Open(s), pc = "refresh" => ~Expired(sess[s])
      PROVE  Contract!Next
  <2> DEFINE x == [pc |-> pc, sid |-> s, reason |-> reason,
                   hash |-> hash]
  <2>1. /\ req' = [req EXCEPT ![q] = x]
        /\ x.pc = pc /\ x.sid = s
        /\ UNCHANGED <<now, sess, login, job>>
    BY <1>1 DEF GuardStep
  <2> HIDE DEF x
  <2>2. Granted' \subseteq Granted \cup {y \in Sids : Open(y) /\ ~Expired(sess[y])}
    <3>1. \A p \in Reqs : req'[p] = IF p = q THEN x ELSE req[p]
      BY <2>1
    <3> QED
      BY <1>1, <2>1, <3>1 DEF Granted
  <2>3. Condemned' \subseteq Condemned \cup {y \in Sids : Open(y)}
    <3>1. \A p \in Reqs : req'[p] = IF p = q THEN x ELSE req[p]
      BY <2>1
    <3>2. Closing' \subseteq Closing \cup {y \in Sids : Open(y)}
      BY <1>1, <2>1, <3>1 DEF Closing
    <3> QED
      BY <2>1, <3>2 DEF Condemned, Victims, Listed
  <2> QED
    BY <2>1, <2>2, <2>3, JudgeStep DEF Contract!Next
<1>2. ASSUME NEW s \in Sids, NEW t \in held[s], GuardExpired(q, s, t)
      PROVE  Contract!Next
    BY <1>1, <1>2 DEF GuardExpired, Presents
<1>3. ASSUME NEW s \in Sids, NEW t \in held[s], GuardMismatch(q, s, t)
      PROVE  Contract!Next
    BY <1>1, <1>3 DEF GuardMismatch, Presents
<1>4. ASSUME NEW s \in Sids, NEW t \in held[s],
             NEW handler \in {"refresh", "logout"}, GuardAccept(q, s, t, handler)
      PROVE  Contract!Next
    BY <1>1, <1>4 DEF GuardAccept, Presents
<1>5. ASSUME UNCHANGED <<login, job>>, NEW x, req' = [req EXCEPT ![q] = x],
             x.pc # "refresh",
             x.pc \in {"logout", "compromised", "close"}
                => x.sid = req[q].sid
                     /\ req[q].pc \in {"logout", "compromised", "close"}
      PROVE  /\ Granted' \subseteq Granted
             /\ Condemned' \subseteq Condemned
             /\ req[q].pc # "refresh" => Granted' = Granted
  <2>1. \A p \in Reqs : req'[p] = IF p = q THEN x ELSE req[p]
    BY <1>5
  <2>2. Closing' \subseteq Closing
    BY <1>5, <2>1 DEF Closing
  <2>3. Condemned' \subseteq Condemned
    BY <1>5, <2>2 DEF Condemned, Victims, Listed
  <2>4. Granted' \subseteq Granted
    BY <1>5, <2>1 DEF Granted
  <2>5. ASSUME req[q].pc # "refresh" PROVE Granted \subseteq Granted'
    BY <1>5, <2>1, <2>5 DEF Granted
  <2> QED
    BY <2>3, <2>4, <2>5
<1>6. IdleReq.pc = "idle"
    BY DEF IdleReq
<1>7. CASE RevokeCompromised(q)
  <2> DEFINE x == IF <<req[q].sid, req[q].hash>> \in revoked THEN IdleReq
                  ELSE [req[q] EXCEPT !.pc = "close"]
  <2>1. /\ req' = [req EXCEPT ![q] = x]
        /\ x.pc # "refresh"
        /\ x.pc \in {"logout", "compromised", "close"} => x.sid = req[q].sid
    BY <1>6, <1>7 DEF RevokeCompromised, ReqState
  <2> HIDE DEF x
  <2>2. req[q].pc = "compromised" /\ UNCHANGED <<now, sess, login, job>>
    BY <1>7 DEF RevokeCompromised
  <2>3. Granted' \subseteq Granted /\ Condemned' \subseteq Condemned
    BY <1>5, <2>1, <2>2
  <2> QED
    BY <2>2, <2>3, JudgeStep DEF Contract!Next
<1>8. CASE GuardClose(q)
  <2>1. /\ req[q].reason \in TerminationReasons \cup {NoReason}
        /\ req[q].pc = "close"
    BY <1>8 DEF GuardClose, ReqState
  <2>2. PICK s \in Sids : s = req[q].sid
    BY <2>1 DEF WellFormed
  <2>5. s \in Condemned
    BY <2>1, <2>2 DEF Condemned, Closing
  <2>3. Granted' = Granted /\ Condemned' \subseteq Condemned
    BY <1>5, <1>6, <1>8 DEF GuardClose
  <2>4. sess' = [sess EXCEPT ![s] = Terminated(sess[s], req[q].reason)]
    BY <1>8, <2>2 DEF GuardClose
  <2>6. Contract!Terminate(s)
    BY <1>8, <2>1, <2>5, <2>3, <2>4, TerminateStep DEF GuardClose
  <2> QED
    BY <2>6 DEF Contract!Next
<1>9. CASE RefreshToken(q)
  <2>1. PICK s \in Sids : s = req[q].sid
    BY <1>9 DEF RefreshToken, WellFormed
  <2> DEFINE x == [req[q] EXCEPT !.pc = "answer", !.hash = NextToken(s)]
  <2>4. x.pc = "answer" /\ req' = [req EXCEPT ![q] = x]
    BY <1>9, <2>1 DEF RefreshToken, ReqState
  <2> HIDE DEF x
  <2>2. Granted' \subseteq Granted /\ Condemned' \subseteq Condemned
    BY <1>5, <1>9, <2>4 DEF RefreshToken
  <2>3. Contract!Extend(s)
    BY <1>9, <2>1, <2>2, ExtendStep
  <2> QED
    BY <2>3 DEF Contract!Next
<1>10. CASE LogoutTerminate(q)
  <2> DEFINE x == [req[q] EXCEPT !.pc = "block",
                                 !.hash = sess[req[q].sid].refreshTokenHash]
  <2>1. PICK s \in Sids : s = req[q].sid
    BY <1>10 DEF LogoutTerminate, WellFormed
  <2>2. s \in Condemned
    BY <1>10, <2>1 DEF LogoutTerminate, Condemned, Closing
  <2>3. x.pc = "block" /\ req' = [req EXCEPT ![q] = x]
    BY <1>10 DEF LogoutTerminate, ReqState
  <2> HIDE DEF x
  <2>4. Granted' = Granted /\ Condemned' \subseteq Condemned
    BY <1>5, <1>10, <2>3 DEF LogoutTerminate
  <2>5. sess' = [sess EXCEPT ![s] = Terminated(sess[s], "LOGOUT")]
    BY <1>10, <2>1 DEF LogoutTerminate
  <2>6. Contract!Terminate(s)
    BY <1>10, <2>2, <2>4, <2>5, TerminateStep DEF LogoutTerminate, TerminationReasons
  <2> QED
    BY <2>6 DEF Contract!Next
<1>11. CASE LogoutBlockDevice(q)
  <2> DEFINE x == [req[q] EXCEPT !.pc = "revoke"]
  <2>1. x.pc = "revoke" /\ req' = [req EXCEPT ![q] = x]
    BY <1>11 DEF LogoutBlockDevice, ReqState
  <2> HIDE DEF x
  <2>2. Granted' \subseteq Granted /\ Condemned' \subseteq Condemned
    BY <1>5, <1>11, <2>1 DEF LogoutBlockDevice
  <2> QED
    BY <1>11, <2>2, JudgeStep DEF LogoutBlockDevice, Contract!Next
<1>12. CASE LogoutRevokeToken(q)
  <2>1. Granted' \subseteq Granted /\ Condemned' \subseteq Condemned
    BY <1>5, <1>6, <1>12 DEF LogoutRevokeToken
  <2> QED
    BY <1>12, <2>1, JudgeStep DEF LogoutRevokeToken, Contract!Next
<1>13. CASE RefreshAnswer(q) \/ RefreshFails(q) \/ RequestRefused(q)
  <2>1. req' = [req EXCEPT ![q] = IdleReq] /\ UNCHANGED <<now, sess, login, job>>
    BY <1>13 DEF RefreshAnswer, RefreshFails, RequestRefused
  <2>2. Granted' \subseteq Granted /\ Condemned' \subseteq Condemned
    BY <1>5, <1>6, <2>1
  <2> QED
    BY <2>1, <2>2, JudgeStep DEF Contract!Next
<1> QED
    BY <1>2, <1>3, <1>4, <1>7, <1>8, <1>9, <1>10, <1>11, <1>12, <1>13 DEF ReqStep

LEMMA JobSimulates ==
    ASSUME RefineInv, NEW j \in Jobs,
           \/ \E reason \in AdminReasons :
                 \/ \E u \in Users : TerminateAllUserSessions(j, u, reason)
                 \/ \E d \in Devices : TerminateAllDeviceSessions(j, d, reason)
           \/ \E c \in Cleanups : CleanupExpired(j, c)
           \/ JobStep(j)
           \/ JobAbort(j)
    PROVE  Contract!Next
<1> USE DEF RefineInv, TypeInv, TypeOK
<1>1. ASSUME UNCHANGED <<login, req>>, NEW x, job' = [job EXCEPT ![j] = x],
             NEW S, x.todo \subseteq job[j].todo \cup S
      PROVE  Condemned' \subseteq Condemned \cup S
  <2>1. \A i \in Jobs : job'[i] = IF i = j THEN x ELSE job[i]
    BY <1>1
  <2>2. Listed' \subseteq Listed \cup S
    BY <1>1, <2>1 DEF Listed
  <2> QED
    BY <1>1, <2>2 DEF Condemned, Victims, Closing
<1>2. ASSUME UNCHANGED <<now, sess, login, req>>, NEW x, job' = [job EXCEPT ![j] = x],
             x.todo \subseteq job[j].todo \cup {s \in Sids : Open(s)}
      PROVE  Contract!Next
  <2>1. Granted' = Granted
    BY <1>2 DEF Granted
  <2>2. Condemned' \subseteq Condemned \cup {s \in Sids : Open(s)}
    BY <1>1, <1>2
  <2> QED
    BY <1>2, <2>1, <2>2, JudgeStep DEF Contract!Next
<1>3. ASSUME NEW pc, NEW list, NEW reason, NEW age, StartJob(j, pc, list, reason, age),
             list \subseteq {s \in Sids : Open(s)}
      PROVE  Contract!Next
  <2> DEFINE x == [pc |-> pc, todo |-> list, reason |-> reason,
                   at |-> IF pc = "expired" THEN now ELSE 0, inactive |-> age]
  <2>1. x.todo = list
    OBVIOUS
  <2>2. job' = [job EXCEPT ![j] = x] /\ UNCHANGED <<now, sess, login, req>>
    BY <1>3 DEF StartJob
  <2> HIDE DEF x
  <2> QED
    BY <1>2, <1>3, <2>1, <2>2
<1>4. ASSUME NEW reason \in AdminReasons, NEW u \in Users,
             TerminateAllUserSessions(j, u, reason)
      PROVE  Contract!Next
    BY <1>3, <1>4 DEF TerminateAllUserSessions, ActiveOfUser, Active
<1>5. ASSUME NEW reason \in AdminReasons, NEW d \in Devices,
             TerminateAllDeviceSessions(j, d, reason)
      PROVE  Contract!Next
    BY <1>3, <1>5 DEF TerminateAllDeviceSessions, ActiveOnDevice, Active
<1>6. ASSUME NEW c \in Cleanups, CleanupExpired(j, c) PROVE Contract!Next
    BY <1>3, <1>6 DEF CleanupExpired, LongExpired
<1>7. CASE CleanupInactive(j)
  <2> DEFINE x == [job[j] EXCEPT !.pc = "last", !.at = 0,
                                 !.todo = {s \in Sids : LongInactive(s, job[j].at, job[j].inactive)}]
  <2>1. x.todo \subseteq {s \in Sids : Open(s)}
    BY DEF JobState, LongInactive
  <2>2. job' = [job EXCEPT ![j] = x] /\ UNCHANGED <<now, sess, login, req>>
    BY <1>7 DEF CleanupInactive, JobState
  <2> HIDE DEF x
  <2> QED
    BY <1>2, <2>1, <2>2
<1>8. ASSUME NEW s \in Sids, TerminateNext(j, s)
      PROVE  Contract!Next
  <2> DEFINE x == [job[j] EXCEPT !.todo = job[j].todo \ {s}]
  <2>1. x.todo \subseteq job[j].todo \cup {}
    BY DEF JobState
  <2>2. job' = [job EXCEPT ![j] = x] /\ UNCHANGED <<now, login, req>>
    BY <1>8 DEF TerminateNext, JobState
  <2> HIDE DEF x
  <2>3. Condemned' \subseteq Condemned
    BY <1>1, <2>1, <2>2
  <2>4. Granted' = Granted
    BY <2>2 DEF Granted
  <2>5. s \in Condemned
    BY <1>8 DEF TerminateNext, Condemned, Listed
  <2>6. sess' = [sess EXCEPT ![s] = Terminated(sess[s], job[j].reason)]
    BY <1>8 DEF TerminateNext
  <2>7. job[j].reason \in TerminationReasons \cup {NoReason}
    BY DEF JobState
  <2>8. Contract!Terminate(s)
    BY <2>2, <2>3, <2>4, <2>5, <2>6, <2>7, TerminateStep
  <2> QED
    BY <2>8 DEF Contract!Next
<1>9. ASSUME JobEnd(j) \/ JobAbort(j) PROVE Contract!Next
  <2>1. IdleJob.todo = {}
    BY DEF IdleJob
  <2>2. job' = [job EXCEPT ![j] = IdleJob] /\ UNCHANGED <<now, sess, login, req>>
    BY <1>9 DEF JobEnd, JobAbort
  <2> QED
    BY <1>2, <2>1, <2>2
<1> QED
    BY <1>4, <1>5, <1>6, <1>7, <1>8, <1>9 DEF JobStep

LEMMA Simulation ==
    RefineInv /\ [Next]_vars => [Contract!Next]_(Contract!vars)
<1> SUFFICES ASSUME RefineInv, [Next]_vars
             PROVE  Contract!Next \/ UNCHANGED Contract!vars
    OBVIOUS
<1>1. CASE Tick
  <2>1. Granted' = Granted /\ Condemned' = Condemned
    BY <1>1 DEF Tick, Granted, Condemned, Victims, Listed, Closing
  <2>2. Contract!Tick
    BY <1>1, <2>1 DEF Tick, Contract!Tick
  <2> QED
    BY <2>2 DEF Contract!Next
<1>2. CASE ApiCrash
  <2>1. Granted' = {}
    BY <1>2 DEF ApiCrash, Granted, IdleReq
  <2>2. Condemned' \subseteq Condemned
    BY <1>2 DEF ApiCrash, Condemned, Victims, Listed, Closing, IdleLogin, IdleReq
  <2> QED
    BY <1>2, <2>1, <2>2, JudgeStep DEF ApiCrash, RefineInv, Contract!Next
<1>3. CASE UNCHANGED vars
  <2>1. Granted' = Granted /\ Condemned' = Condemned
    BY <1>3 DEF vars, Granted, Condemned, Victims, Listed, Closing
  <2> QED
    BY <1>3, <2>1 DEF vars, Contract!vars
<1> QED
    BY <1>1, <1>2, <1>3, LoginSimulates, RequestSimulates, JobSimulates DEF Next

(* The sessions table implements its contract for every number of logins,   *)
(* requests, jobs and crashes and every choice of limits and lifetimes.     *)
THEOREM ContractImplemented == Spec => ImplementsContract
<1>1. Init => RefineInv
    BY InitTypes, InitDated DEF RefineInv
<1>2. RefineInv /\ [Next]_vars => RefineInv'
    BY TypeStep, DatedStep DEF RefineInv
<1> QED
    BY <1>1, <1>2, InitContract, Simulation, PTL DEF Spec, ImplementsContract, Contract!Spec
-----------------------------------------------------------------------------
(* What the contract implies. *)
LEMMA DeadStep ==
    ASSUME TypeInv, TypeInv', Contract!Next, NEW s \in Sids, Contract!Dead(s)
    PROVE  Contract!Dead(s)'
<1> DEFINE phase == [y \in Sids |-> sess[y].state]
           expires == [y \in Sids |-> sess[y].expiresAt]
           most == [y \in Sids |-> sess[y].maxExpiresAt]
<1>1. /\ now \in Nat /\ expires[s] \in Nat /\ most[s] \in Nat
      /\ DOMAIN phase = Sids /\ DOMAIN expires = Sids
    BY DEF TypeInv, TypeOK, Session
<1>2. /\ phase[s] # "absent" /\ s \notin Granted
      /\ ~(phase[s] = "open" /\ now <= expires[s] /\ now <= most[s])
    BY DEF Contract!Dead, Contract!Usable, Contract!IsOpen
<1>3. SUFFICES /\ phase'[s] # "absent" /\ s \notin Granted'
               /\ ~(phase'[s] = "open" /\ now' <= expires'[s] /\ now' <= most'[s])
    BY DEF Contract!Dead, Contract!Usable, Contract!IsOpen
<1>4. CASE Contract!Judge
  <2>1. phase' = phase /\ expires' = expires /\ most' = most /\ now' = now
    BY <1>4 DEF Contract!Judge
  <2>2. s \notin Granted'
    BY <1>2, <1>4 DEF Contract!Judge, Contract!Usable, Contract!IsOpen
  <2> QED
    BY <1>2, <2>1, <2>2
<1>5. ASSUME NEW x \in Sids, NEW V \in SUBSET Sids, Contract!Open(x, V)
      PROVE  /\ phase'[s] # "absent" /\ s \notin Granted'
             /\ ~(phase'[s] = "open" /\ now' <= expires'[s] /\ now' <= most'[s])
  <2>1. phase[x] = "absent" /\ Granted' = Granted /\ now' = now
    BY <1>5 DEF Contract!Open
  <2>2. \A y \in Sids : phase'[y] = IF y = x THEN "open"
                                    ELSE IF y \in V THEN "terminated" ELSE phase[y]
    BY <1>5 DEF Contract!Open
  <2>3. \A y \in Sids \ {x} : expires'[y] = expires[y] /\ most'[y] = most[y]
    BY <1>5 DEF Contract!Open
  <2> HIDE DEF phase, expires, most
  <2> QED
    BY <1>2, <2>1, <2>2, <2>3
<1>6. ASSUME NEW x \in Sids, Contract!Extend(x)
      PROVE  /\ phase'[s] # "absent" /\ s \notin Granted'
             /\ ~(phase'[s] = "open" /\ now' <= expires'[s] /\ now' <= most'[s])
  <2>1. /\ x \in Granted /\ Granted' \subseteq Granted
        /\ phase' = phase /\ most' = most /\ now' = now
        /\ expires' = [expires EXCEPT ![x] = now + RefreshTTL]
    BY <1>6 DEF Contract!Extend
  <2> HIDE DEF phase, expires, most
  <2> QED
    BY <1>1, <1>2, <2>1
<1>7. ASSUME NEW x \in Sids, Contract!Terminate(x)
      PROVE  /\ phase'[s] # "absent" /\ s \notin Granted'
             /\ ~(phase'[s] = "open" /\ now' <= expires'[s] /\ now' <= most'[s])
  <2>1. /\ phase' = [phase EXCEPT ![x] = "terminated"]
        /\ expires' = expires /\ most' = most /\ now' = now /\ Granted' = Granted
    BY <1>7 DEF Contract!Terminate
  <2> HIDE DEF phase, expires, most
  <2> QED
    BY <1>1, <1>2, <2>1
<1>8. CASE Contract!Tick
  <2>1. /\ phase' = phase /\ expires' = expires /\ most' = most
        /\ now' = now + 1 /\ Granted' = Granted
    BY <1>8 DEF Contract!Tick
  <2> HIDE DEF phase, expires, most
  <2> QED
    BY <1>1, <1>2, <2>1
<1> QED
    BY <1>4, <1>5, <1>6, <1>7, <1>8 DEF Contract!Next

(* A session out of use is out of use for ever, for any lifetimes: also     *)
(* when a refresh has set its expiry past its absolute maximum.             *)
THEOREM DeadStaysDead == Spec => DeadForGood
<1>1. Init => RefineInv
    BY InitTypes, InitDated DEF RefineInv
<1>2. RefineInv /\ [Next]_vars => RefineInv'
    BY TypeStep, DatedStep DEF RefineInv
<1>3. RefineInv /\ RefineInv' /\ [Next]_vars
        => [\A s \in Sids : Contract!Dead(s) => Contract!Dead(s)']_(Contract!vars)
    BY Simulation, DeadStep DEF RefineInv
<1> QED
    BY <1>1, <1>2, <1>3, PTL DEF Spec, DeadForGood, Contract!DeadForGood
=============================================================================
