------------------------ MODULE SessionsLimitProofs ------------------------
(* The session limits of Sessions, for every value of its constants.       *)
(*                                                                         *)
(* Neither limit is inductive: a login that has counted the sessions and   *)
(* chosen its victims inserts later, when others may have inserted too.    *)
(* The invariants speak of the room each login in flight has made: the     *)
(* sessions that count, less its victims, leave a place.  The device lock  *)
(* lets one login at a time hold room on a device; on a user several may,  *)
(* and each takes one from what is left to the others.                     *)
EXTENDS SessionsProofs

Counts(x) == Active(x) /\ x \notin revived

CountedOnDevice(d) == {x \in Sids : Counts(x) /\ sess[x].device = d}

CountedOfUser(u) == {x \in Sids : Counts(x) /\ sess[x].user = u}

Committing(u) == {r \in LoginReqs : login[r].pc = "commit" /\ login[r].user = u}

Spared(A, S) == {x \in A : \A r \in S : x \notin login[r].victims}

OneLockHolder ==
    \A r, p \in LoginReqs :
        HoldsLock(r) /\ HoldsLock(p) /\ login[r].device = login[p].device => r = p

DeviceRoom ==
    \A r \in LoginReqs :
        HoldsLock(r) => Cardinality(Spared(CountedOnDevice(login[r].device), {r}))
                            < MaxSessionsPerDevice

DeviceCount ==
    \A d \in Devices : Cardinality(CountedOnDevice(d)) <= MaxSessionsPerDevice

UserRoom ==
    \A u \in Users : \A S \in SUBSET Committing(u) :
        Cardinality(Spared(CountedOfUser(u), S)) + Cardinality(S)
            <= MaxSessionsPerUser - 1 + Cardinality(LoginReqs)

DeviceInv == OneLockHolder /\ DeviceRoom /\ DeviceCount

(* Every step but the three of a login that make room and use it: nothing   *)
(* begins to count, no login gains a lock and no login changes its victims. *)
Quiet ==
    /\ \A x \in Sids :
          Counts(x)' => Counts(x) /\ sess'[x].device = sess[x].device
                                  /\ sess'[x].user = sess[x].user
    /\ \A r \in LoginReqs :
          login'[r] = login[r] \/ login'[r].pc \in {"idle", "device"}

LEMMA QuietLogin ==
    ASSUME TypeInv, NEW r \in LoginReqs,
           \/ \E u \in Users, d \in Devices : LoginBegin(r, u, d)
           \/ LoginRollback(r)
    PROVE  Quiet
<1> USE DEF TypeInv, TypeOK
<1>1. ASSUME NEW u \in Users, NEW d \in Devices, LoginBegin(r, u, d)
      PROVE  Quiet
    BY <1>1 DEF LoginBegin, IdleLogin, Quiet, Counts, Active, Open
<1>2. CASE LoginRollback(r)
    BY <1>2 DEF LoginRollback, IdleLogin, Quiet, Counts, Active, Open
<1> QED
    BY <1>1, <1>2

LEMMA QuietTermination ==
    ASSUME TypeInv, NEW s \in Sids, NEW reason,
           sess' = [sess EXCEPT ![s] = Terminated(@, reason)],
           UNCHANGED <<now, login, revived>>
    PROVE  Quiet
<1>1. sess'[s].state # "open"
    BY DEF Terminated, Session, TypeInv, TypeOK
<1>2. \A x \in Sids : x # s => sess'[x] = sess[x]
    BY DEF TypeInv, TypeOK
<1> QED
    BY <1>1, <1>2 DEF Quiet, Counts, Active, Open

LEMMA QuietRequest ==
    ASSUME TypeInv, NEW q \in Reqs,
           \/ \E s \in Sids : \E t \in held[s] :
                 \/ GuardExpired(q, s, t)
                 \/ GuardMismatch(q, s, t)
                 \/ \E handler \in {"refresh", "logout"} :
                       GuardAccept(q, s, t, handler)
           \/ ReqStep(q)
           \/ RefreshFails(q)
    PROVE  Quiet
<1>1. CASE UNCHANGED <<now, sess, login, revived>>
    BY <1>1 DEF Quiet, Counts, Active, Open
<1>2. CASE \E s \in Sids : \E t \in held[s] :
              \/ GuardExpired(q, s, t)
              \/ GuardMismatch(q, s, t)
              \/ \E handler \in {"refresh", "logout"} : GuardAccept(q, s, t, handler)
    BY <1>1, <1>2 DEF GuardExpired, GuardMismatch, GuardAccept, GuardStep
<1>3. CASE \/ RevokeCompromised(q) \/ LogoutBlockDevice(q) \/ LogoutRevokeToken(q)
           \/ RequestRefused(q) \/ RefreshAnswer(q) \/ RefreshFails(q)
    BY <1>1, <1>3 DEF RevokeCompromised, LogoutBlockDevice, LogoutRevokeToken,
                      RequestRefused, RefreshAnswer, RefreshFails
<1>4. CASE GuardClose(q)
    BY <1>4, QuietTermination DEF GuardClose, TypeInv, WellFormed
<1>5. CASE LogoutTerminate(q)
    BY <1>5, QuietTermination DEF LogoutTerminate, TypeInv, WellFormed
<1>6. CASE RefreshToken(q)
  <2> DEFINE s == req[q].sid
  <2>1. s \in Sids
    BY <1>6 DEF RefreshToken, TypeInv, WellFormed
  <2>2. UNCHANGED <<now, login>>
    BY <1>6 DEF RefreshToken
  <2>3. \A x \in Sids : /\ sess'[x].state = sess[x].state
                        /\ sess'[x].device = sess[x].device
                        /\ sess'[x].user = sess[x].user
                        /\ x # s => sess'[x] = sess[x]
    <3>1. sess' = [sess EXCEPT ![s] = Refreshed(@, NextToken(s))]
      BY <1>6 DEF RefreshToken
    <3>2. NextToken(s) \in Token
      BY <2>1, NextTokenType DEF TypeInv
    <3> QED
      BY <2>1, <3>1, <3>2, RefreshedIs DEF TypeInv, TypeOK
  <2>4. s \in revived' \/ (Active(s) /\ revived' = revived)
    BY <1>6 DEF RefreshToken
  <2>5. revived \subseteq revived'
    BY <1>6 DEF RefreshToken
  <2> QED
    BY <2>1, <2>2, <2>3, <2>4, <2>5 DEF Quiet, Counts, Active, Open
<1> QED
    BY <1>2, <1>3, <1>4, <1>5, <1>6 DEF ReqStep

LEMMA QuietJob ==
    ASSUME TypeInv, NEW j \in Jobs,
           \/ \E reason \in AdminReasons :
                 \/ \E u \in Users : TerminateAllUserSessions(j, u, reason)
                 \/ \E d \in Devices : TerminateAllDeviceSessions(j, d, reason)
           \/ \E c \in Cleanups : CleanupExpired(j, c)
           \/ JobStep(j)
           \/ JobAbort(j)
    PROVE  Quiet
<1>1. ASSUME NEW s \in Sids, TerminateNext(j, s)
      PROVE  Quiet
    BY <1>1, QuietTermination DEF TerminateNext
<1>2. CASE UNCHANGED <<now, sess, login, revived>>
    BY <1>2 DEF Quiet, Counts, Active, Open
<1> QED
    BY <1>1, <1>2 DEF JobStep, TerminateAllUserSessions, TerminateAllDeviceSessions,
                      StartJob, CleanupExpired, CleanupInactive, JobEnd, JobAbort

LEMMA StepKinds ==
    ASSUME TypeInv, Next
    PROVE  \/ \E r \in LoginReqs : \/ EnforceDeviceSessionLimit(r)
                                   \/ EnforceSessionLimit(r)
                                   \/ \E s \in Sids : LoginCommit(r, s)
           \/ Quiet
<1>1. CASE Tick
  <2>1. \A x \in Sids : sess[x].expiresAt \in Nat
    BY DEF TypeInv, TypeOK, Session
  <2> QED
    BY <1>1, <2>1 DEF Tick, Quiet, Counts, Active, Open, TypeInv, TypeOK
<1>2. CASE ApiCrash
    BY <1>2 DEF ApiCrash, IdleLogin, Quiet, Counts, Active, Open, TypeInv, TypeOK
<1> QED
    BY <1>1, <1>2, QuietLogin, QuietRequest, QuietJob DEF Next, LoginStep
-----------------------------------------------------------------------------
LEMMA SidsCardinality ==
    ASSUME NEW A \in SUBSET Sids
    PROVE  IsFiniteSet(A) /\ Cardinality(A) \in Nat
BY SetsAssumption, FS_Subset, FS_CardinalityType

LEMMA SubsetCardinality ==
    ASSUME NEW B \in SUBSET Sids, NEW A \in SUBSET B
    PROVE  /\ Cardinality(A) <= Cardinality(B)
           /\ \A n \in Nat : /\ Cardinality(B) < n => Cardinality(A) < n
                             /\ Cardinality(B) <= n => Cardinality(A) <= n
<1>1. IsFiniteSet(B) /\ Cardinality(B) \in Nat /\ Cardinality(A) \in Nat
    BY SidsCardinality
<1>2. Cardinality(A) <= Cardinality(B)
    BY <1>1, FS_Subset
<1> QED
    BY <1>1, <1>2

(* What enforceSessionLimit and enforceDeviceSessionLimit leave: less than  *)
(* the maximum, so that one more session fits.                              *)
LEMMA OldestLeavesRoom ==
    ASSUME NEW A \in SUBSET Sids, NEW max \in Nat \ {0}, NEW V \in Oldest(A, max)
    PROVE  Cardinality(A \ V) < max
<1>1. Cardinality(A) \in Nat /\ IsFiniteSet(A)
    BY SidsCardinality
<1>2. CASE Cardinality(A) < max
  <2>1. V = {}
    BY <1>2 DEF Oldest
  <2> QED
    BY <1>2, <2>1
<1>3. CASE ~(Cardinality(A) < max)
  <2>1. V \subseteq A /\ Cardinality(V) = Cardinality(A) - max + 1
    BY <1>3 DEF Oldest
  <2>2. A \cap V = V
    BY <2>1
  <2>3. Cardinality(A \ V) = Cardinality(A) - Cardinality(V)
    BY <1>1, <2>2, FS_Difference
  <2> QED
    BY <1>1, <2>1, <2>3
<1> QED
    BY <1>2, <1>3

(* The login that commits uses the room it made: what counts afterwards is  *)
(* what its victims left, and the new session.                              *)
LEMMA CommitCounts ==
    ASSUME TypeInv, NEW r \in LoginReqs, NEW s \in Sids, LoginCommit(r, s)
    PROVE  /\ sess'[s].user = login[r].user /\ sess'[s].device = login[r].device
           /\ \A x \in Sids \ {s} :
                 Counts(x)' => /\ Counts(x) /\ x \notin login[r].victims
                               /\ sess'[x] = sess[x]
           /\ login' = [login EXCEPT ![r] = IdleLogin]
           /\ login[r].pc = "commit"
<1>1. \A x \in Sids \ {s} :
         sess'[x] = IF x \in login[r].victims THEN Terminated(sess[x], "LIMIT")
                                              ELSE sess[x]
    BY DEF LoginCommit
<1>2. \A x \in Sids : Terminated(sess[x], "LIMIT").state # "open"
    BY DEF Terminated, TypeInv, TypeOK, Session
<1>3. UNCHANGED <<now, revived>>
    BY DEF LoginCommit
<1>4. \A x \in Sids \ {s} :
         Counts(x)' => /\ Counts(x) /\ x \notin login[r].victims
                       /\ sess'[x] = sess[x]
    BY <1>1, <1>2, <1>3 DEF Counts, Active, Open
<1>5. sess'[s].user = login[r].user /\ sess'[s].device = login[r].device
    BY DEF LoginCommit, NewSession
<1> QED
    BY <1>4, <1>5 DEF LoginCommit

LEMMA DeviceInvStep ==
    ASSUME TypeInv, DeviceInv, [Next]_vars
    PROVE  DeviceInv'
<1> USE DEF DeviceInv
<1>1. ASSUME NEW r \in LoginReqs, EnforceDeviceSessionLimit(r)
      PROVE  DeviceInv'
  <2> DEFINE d == login[r].device
  <2>1. PICK V \in Oldest(ActiveOnDevice(d), MaxSessionsPerDevice) :
            login' = [login EXCEPT ![r] = [@ EXCEPT !.pc = "user", !.victims = V]]
    BY <1>1 DEF EnforceDeviceSessionLimit
  <2>2. /\ login'[r].pc = "user"
        /\ login'[r].device = d
        /\ login'[r].victims = V
        /\ \A p \in LoginReqs \ {r} : login'[p] = login[p]
    BY <2>1 DEF TypeInv, TypeOK, LoginState
  <2>3. \A p \in LoginReqs : HoldsLock(p) => login[p].device # d
    BY <1>1 DEF EnforceDeviceSessionLimit, Locked
  <2>4. OneLockHolder'
    BY <2>2, <2>3 DEF OneLockHolder, HoldsLock
  <2>5. \A e : CountedOnDevice(e)' = CountedOnDevice(e)
    BY <1>1 DEF EnforceDeviceSessionLimit, CountedOnDevice, Counts, Active, Open
  <2>6. Cardinality(ActiveOnDevice(d) \ V) < MaxSessionsPerDevice
    BY OldestLeavesRoom, LimitsAssumption DEF ActiveOnDevice
  <2>7. Spared(CountedOnDevice(d), {r})' \subseteq ActiveOnDevice(d) \ V
    BY <2>2, <2>5 DEF Spared, CountedOnDevice, Counts, ActiveOnDevice
  <2>8. Cardinality(Spared(CountedOnDevice(d), {r})') < MaxSessionsPerDevice
    <3>1. ActiveOnDevice(d) \ V \in SUBSET Sids
      BY DEF ActiveOnDevice
    <3> QED
      BY <2>6, <2>7, <3>1, SubsetCardinality, SidsCardinality, LimitsAssumption
  <2>9. DeviceRoom'
    <3> SUFFICES ASSUME NEW p \in LoginReqs, HoldsLock(p)'
                 PROVE  Cardinality(Spared(CountedOnDevice(login[p].device), {p}))'
                            < MaxSessionsPerDevice
      BY DEF DeviceRoom
    <3>1. CASE p = r
      BY <2>2, <2>5, <2>8, <3>1 DEF Spared
    <3>2. CASE p # r
      <4>1. login'[p] = login[p] /\ HoldsLock(p)
        BY <2>2, <3>2 DEF HoldsLock
      <4>2. Spared(CountedOnDevice(login[p].device), {p})'
              = Spared(CountedOnDevice(login[p].device), {p})
        BY <2>5, <4>1 DEF Spared
      <4> QED
        BY <4>1, <4>2 DEF DeviceRoom
    <3> QED
      BY <3>1, <3>2
  <2>10. DeviceCount'
    BY <2>5 DEF DeviceCount
  <2> QED
    BY <2>4, <2>9, <2>10
<1>2. ASSUME NEW r \in LoginReqs, EnforceSessionLimit(r)
      PROVE  DeviceInv'
  <2>1. PICK V : login' = [login EXCEPT ![r] = [@ EXCEPT !.pc = "commit", !.at = now,
                                            !.victims = login[r].victims \cup V]]
    BY <1>2 DEF EnforceSessionLimit, TypeInv, TypeOK, LoginState
  <2>2. /\ \A p \in LoginReqs : /\ login'[p].device = login[p].device
                                /\ HoldsLock(p)' <=> HoldsLock(p)
                                /\ login[p].victims \subseteq login'[p].victims
    <3>1. login[r].pc = "user"
      BY <1>2 DEF EnforceSessionLimit
    <3> QED
      BY <2>1, <3>1 DEF HoldsLock, TypeInv, TypeOK, LoginState
  <2>3. \A e : CountedOnDevice(e)' = CountedOnDevice(e)
    BY <1>2 DEF EnforceSessionLimit, CountedOnDevice, Counts, Active, Open
  <2>4. OneLockHolder'
    BY <2>2 DEF OneLockHolder
  <2>5. DeviceRoom'
    <3> SUFFICES ASSUME NEW p \in LoginReqs, HoldsLock(p)'
                 PROVE  Cardinality(Spared(CountedOnDevice(login[p].device), {p}))'
                            < MaxSessionsPerDevice
      BY DEF DeviceRoom
    <3> DEFINE A == Spared(CountedOnDevice(login[p].device), {p})
    <3>1. A' \subseteq A
      BY <2>2, <2>3 DEF Spared
    <3>2. A \in SUBSET Sids
      BY DEF Spared, CountedOnDevice
    <3>3. Cardinality(A) < MaxSessionsPerDevice
      BY <2>2 DEF DeviceRoom
    <3> QED
      BY <3>1, <3>2, <3>3, SubsetCardinality, LimitsAssumption
  <2>6. DeviceCount'
    BY <2>3 DEF DeviceCount
  <2> QED
    BY <2>4, <2>5, <2>6
<1>3. ASSUME NEW r \in LoginReqs, NEW s \in Sids, LoginCommit(r, s)
      PROVE  DeviceInv'
  <2>0. PICK d : d = login[r].device
    OBVIOUS
  <2> DEFINE room == Spared(CountedOnDevice(d), {r})
  <2>1. \A p \in LoginReqs : HoldsLock(p)' => p # r /\ login'[p] = login[p] /\ HoldsLock(p)
    <3>1. login' = [login EXCEPT ![r] = IdleLogin]
      BY <1>3, CommitCounts
    <3>2. login'[r] = IdleLogin /\ \A p \in LoginReqs \ {r} : login'[p] = login[p]
      BY <3>1 DEF TypeInv, TypeOK
    <3>3. IdleLogin.pc = "idle"
      BY DEF IdleLogin
    <3>4. \A p \in LoginReqs : HoldsLock(p)' => p # r
      BY <3>2, <3>3 DEF HoldsLock
    <3>5. \A p \in LoginReqs \ {r} : HoldsLock(p)' <=> HoldsLock(p)
      BY <3>2 DEF HoldsLock
    <3> QED
      BY <3>2, <3>4, <3>5
  <2>2. \A e : CountedOnDevice(e)' \subseteq CountedOnDevice(e) \/ e = d
    BY <1>3, <2>0, CommitCounts DEF CountedOnDevice
  <2>3. CountedOnDevice(d)' \subseteq room \cup {s}
    BY <1>3, <2>0, CommitCounts DEF CountedOnDevice, Spared
  <2>4. OneLockHolder'
    BY <2>1 DEF OneLockHolder
  <2>5. HoldsLock(r)
    BY <1>3, CommitCounts DEF HoldsLock
  <2>6. DeviceRoom'
    <3> SUFFICES ASSUME NEW p \in LoginReqs, HoldsLock(p)'
                 PROVE  Cardinality(Spared(CountedOnDevice(login[p].device), {p}))'
                            < MaxSessionsPerDevice
      BY DEF DeviceRoom
    <3> DEFINE A == Spared(CountedOnDevice(login[p].device), {p})
    <3>1. login'[p] = login[p] /\ HoldsLock(p) /\ login[p].device # d
      BY <2>0, <2>1, <2>5 DEF OneLockHolder
    <3>2. A' \subseteq A
      BY <2>2, <3>1 DEF Spared
    <3>3. Cardinality(A) < MaxSessionsPerDevice
      BY <3>1 DEF DeviceRoom
    <3>4. A \in SUBSET Sids
      BY DEF Spared, CountedOnDevice
    <3> QED
      BY <3>2, <3>3, <3>4, SubsetCardinality, LimitsAssumption
  <2>7. DeviceCount'
    <3> SUFFICES ASSUME NEW e \in Devices
                 PROVE  Cardinality(CountedOnDevice(e)') <= MaxSessionsPerDevice
      BY DEF DeviceCount
    <3>1. CASE e = d
      <4>1. room \in SUBSET Sids /\ room \cup {s} \in SUBSET Sids
        BY DEF Spared, CountedOnDevice
      <4>2. Cardinality(room) < MaxSessionsPerDevice
        BY <2>0, <2>5 DEF DeviceRoom
      <4>3. Cardinality(room \cup {s}) <= Cardinality(room) + 1
        <5>1. IsFiniteSet(room) /\ Cardinality(room) \in Nat
          BY <4>1, SidsCardinality
        <5>2. Cardinality(room \cup {s})
                = IF s \in room THEN Cardinality(room) ELSE Cardinality(room) + 1
          BY <5>1, FS_AddElement
        <5> HIDE DEF room
        <5> QED
          BY <5>1, <5>2
      <4>4. Cardinality(CountedOnDevice(d)') <= Cardinality(room \cup {s})
        BY <2>3, <4>1, SubsetCardinality
      <4>5. /\ Cardinality(room) \in Nat /\ Cardinality(room \cup {s}) \in Nat
            /\ Cardinality(CountedOnDevice(d)') \in Nat
        BY <2>3, <4>1, SidsCardinality
      <4> HIDE DEF room
      <4>6. Cardinality(CountedOnDevice(d)') <= MaxSessionsPerDevice
        BY <4>2, <4>3, <4>4, <4>5, LimitsAssumption
      <4>7. CountedOnDevice(e)' = CountedOnDevice(d)'
        BY <3>1
      <4> QED
        BY <4>6, <4>7
    <3>2. CASE e # d
      <4>1. CountedOnDevice(e)' \in SUBSET CountedOnDevice(e)
        BY <2>2, <3>2
      <4>2. CountedOnDevice(e) \in SUBSET Sids
        BY DEF CountedOnDevice
      <4>3. Cardinality(CountedOnDevice(e)) <= MaxSessionsPerDevice
        BY DEF DeviceCount
      <4> QED
        BY <4>1, <4>2, <4>3, SubsetCardinality, LimitsAssumption
    <3> QED
      BY <3>1, <3>2
  <2> QED
    BY <2>4, <2>6, <2>7
<1>4. CASE Quiet
  <2>1. \A p \in LoginReqs : HoldsLock(p)' => login'[p] = login[p] /\ HoldsLock(p)
    BY <1>4 DEF Quiet, HoldsLock
  <2>2. \A e : CountedOnDevice(e)' \subseteq CountedOnDevice(e)
    BY <1>4 DEF Quiet, CountedOnDevice
  <2>3. OneLockHolder'
    BY <2>1 DEF OneLockHolder
  <2>4. DeviceRoom'
    <3> SUFFICES ASSUME NEW p \in LoginReqs, HoldsLock(p)'
                 PROVE  Cardinality(Spared(CountedOnDevice(login[p].device), {p}))'
                            < MaxSessionsPerDevice
      BY DEF DeviceRoom
    <3> DEFINE A == Spared(CountedOnDevice(login[p].device), {p})
    <3>1. login'[p] = login[p] /\ HoldsLock(p)
      BY <2>1
    <3>2. A' \subseteq A
      BY <2>2, <3>1 DEF Spared
    <3>3. Cardinality(A) < MaxSessionsPerDevice
      BY <3>1 DEF DeviceRoom
    <3>4. A \in SUBSET Sids
      BY DEF Spared, CountedOnDevice
    <3> QED
      BY <3>2, <3>3, <3>4, SubsetCardinality, LimitsAssumption
  <2>5. DeviceCount'
    <3> SUFFICES ASSUME NEW e \in Devices
                 PROVE  Cardinality(CountedOnDevice(e)') <= MaxSessionsPerDevice
      BY DEF DeviceCount
    <3>1. CountedOnDevice(e) \in SUBSET Sids
      BY DEF CountedOnDevice
    <3>2. CountedOnDevice(e)' \in SUBSET CountedOnDevice(e)
      BY <2>2
    <3>3. Cardinality(CountedOnDevice(e)) <= MaxSessionsPerDevice
      BY DEF DeviceCount
    <3> QED
      BY <3>1, <3>2, <3>3, SubsetCardinality, LimitsAssumption
  <2> QED
    BY <2>3, <2>4, <2>5
<1>5. UNCHANGED vars => Quiet
  BY DEF vars, Quiet, Counts, Active, Open
<1> QED
    BY <1>1, <1>2, <1>3, <1>4, <1>5, StepKinds

(* The maximum of sessions per device holds in every reachable state, for   *)
(* every number of users, devices and logins at once and for every limit.   *)
THEOREM DeviceLimitHolds == Spec => []DeviceLimit
<1>1. Init => DeviceInv
  <2> SUFFICES ASSUME Init PROVE DeviceInv
    OBVIOUS
  <2>1. \A r \in LoginReqs : ~HoldsLock(r)
    BY DEF Init, HoldsLock, IdleLogin
  <2>2. \A d : CountedOnDevice(d) = {}
    BY DEF Init, CountedOnDevice, Counts, Active, Open, Absent
  <2>3. DeviceCount
    BY <2>2, FS_EmptySet, LimitsAssumption DEF DeviceCount
  <2> QED
    BY <2>1, <2>3 DEF DeviceInv, OneLockHolder, DeviceRoom
<1>2. DeviceInv => DeviceLimit
  <2>1. \A d : CountedOnDevice(d) = ActiveOnDevice(d) \ revived
    BY DEF CountedOnDevice, Counts, ActiveOnDevice
  <2> QED
    BY <2>1 DEF DeviceInv, DeviceCount, DeviceLimit
<1> QED
    BY <1>1, <1>2, InitTypes, TypeStep, DeviceInvStep, PTL DEF Spec
-----------------------------------------------------------------------------
LEMMA LoginsCardinality ==
    ASSUME NEW S \in SUBSET LoginReqs
    PROVE  /\ IsFiniteSet(S) /\ Cardinality(S) \in Nat
           /\ Cardinality(LoginReqs) \in Nat
           /\ Cardinality(S) <= Cardinality(LoginReqs)
BY SetsAssumption, FS_Subset, FS_CardinalityType

LEMMA UserRoomStep ==
    ASSUME TypeInv, UserRoom, [Next]_vars
    PROVE  UserRoom'
<1> DEFINE Bound == MaxSessionsPerUser - 1 + Cardinality(LoginReqs)
<1>0. /\ MaxSessionsPerUser \in Nat \ {0}
      /\ Cardinality(LoginReqs) \in Nat
    BY LimitsAssumption, LoginsCardinality
<1>1. ASSUME NEW r \in LoginReqs, EnforceSessionLimit(r),
             NEW u \in Users, NEW S \in SUBSET Committing(u)'
      PROVE  Cardinality(Spared(CountedOfUser(u), S)') + Cardinality(S) <= Bound
  <2>1. PICK V \in Oldest(ActiveOfUser(login[r].user) \ login[r].victims,
                          MaxSessionsPerUser) :
            login' = [login EXCEPT ![r] = [@ EXCEPT !.pc = "commit", !.at = now,
                                            !.victims = login[r].victims \cup V]]
    BY <1>1 DEF EnforceSessionLimit, TypeInv, TypeOK, LoginState
  <2>2. /\ login'[r].pc = "commit"
        /\ login'[r].user = login[r].user
        /\ login'[r].victims = login[r].victims \cup V
        /\ \A p \in LoginReqs \ {r} : login'[p] = login[p]
    BY <2>1 DEF TypeInv, TypeOK, LoginState
  <2>3. CountedOfUser(u)' = CountedOfUser(u)
    BY <1>1 DEF EnforceSessionLimit, CountedOfUser, Counts, Active, Open
  <2>4. S \in SUBSET LoginReqs
    BY DEF Committing
  <2>5. CASE r \in S
    <3> DEFINE A == ActiveOfUser(u) \ login[r].victims
    <3>1. login[r].user = u
      BY <2>2, <2>5 DEF Committing
    <3>2. A \in SUBSET Sids
      BY DEF ActiveOfUser
    <3>3. Cardinality(A \ V) < MaxSessionsPerUser
      BY <1>0, <2>1, <3>1, <3>2, OldestLeavesRoom
    <3>4. Spared(CountedOfUser(u), S)' \subseteq A \ V
      BY <2>2, <2>3, <2>5 DEF Spared, CountedOfUser, Counts, ActiveOfUser
    <3>5. A \ V \in SUBSET Sids
      BY <3>2
    <3>6. Cardinality(Spared(CountedOfUser(u), S)') < MaxSessionsPerUser
      BY <1>0, <3>3, <3>4, <3>5, SubsetCardinality
    <3>7. Cardinality(Spared(CountedOfUser(u), S)') \in Nat
      BY <3>4, <3>5, SidsCardinality
    <3> QED
      BY <1>0, <2>4, <3>6, <3>7, LoginsCardinality
  <2>6. CASE r \notin S
    <3>1. \A p \in S : login'[p] = login[p]
      BY <2>2, <2>4, <2>6
    <3>2. S \in SUBSET Committing(u)
      BY <2>4, <3>1 DEF Committing
    <3>3. Spared(CountedOfUser(u), S)' = Spared(CountedOfUser(u), S)
      BY <2>3, <3>1 DEF Spared
    <3> QED
      BY <3>2, <3>3 DEF UserRoom
  <2> QED
    BY <2>5, <2>6
<1>2. ASSUME NEW r \in LoginReqs, NEW s \in Sids, LoginCommit(r, s),
             NEW u \in Users, NEW S \in SUBSET Committing(u)'
      PROVE  Cardinality(Spared(CountedOfUser(u), S)') + Cardinality(S) <= Bound
  <2>1. login'[r] = IdleLogin /\ \A p \in LoginReqs \ {r} : login'[p] = login[p]
    <3>1. login' = [login EXCEPT ![r] = IdleLogin]
      BY <1>2, CommitCounts
    <3> QED
      BY <3>1 DEF TypeInv, TypeOK
  <2>2. r \notin S
    BY <2>1 DEF Committing, IdleLogin
  <2>3. S \in SUBSET LoginReqs
    BY DEF Committing
  <2>4. \A p \in S : login'[p] = login[p]
    BY <2>1, <2>2, <2>3
  <2>5. S \in SUBSET Committing(u)
    BY <2>3, <2>4 DEF Committing
  <2>6. CASE login[r].user = u
    <3> DEFINE T == S \cup {r}
               A == Spared(CountedOfUser(u), T)
    <3>1. T \in SUBSET Committing(u)
      BY <1>2, <2>5, <2>6, CommitCounts DEF Committing
    <3>2. Cardinality(A) + Cardinality(T) <= Bound
      BY <3>1 DEF UserRoom
    <3>3. Cardinality(T) = Cardinality(S) + 1
      BY <2>2, <2>3, LoginsCardinality, FS_AddElement
    <3>4. Spared(CountedOfUser(u), S)' \subseteq A \cup {s}
      BY <1>2, <2>4, CommitCounts DEF Spared, CountedOfUser
    <3>5. A \in SUBSET Sids /\ A \cup {s} \in SUBSET Sids
      BY DEF Spared, CountedOfUser
    <3> HIDE DEF A, T
    <3>6. IsFiniteSet(A) /\ Cardinality(A) \in Nat /\ Cardinality(A \cup {s}) \in Nat
      BY <3>5, SidsCardinality
    <3>7. Cardinality(A \cup {s}) <= Cardinality(A) + 1
      <4>1. Cardinality(A \cup {s})
              = IF s \in A THEN Cardinality(A) ELSE Cardinality(A) + 1
        BY <3>6, FS_AddElement
      <4> QED
        BY <3>6, <4>1
    <3>8. Cardinality(Spared(CountedOfUser(u), S)') <= Cardinality(A \cup {s})
      BY <3>4, <3>5, SubsetCardinality
    <3>9. /\ Cardinality(Spared(CountedOfUser(u), S)') \in Nat
          /\ Cardinality(S) \in Nat
      BY <2>3, <3>4, <3>5, SidsCardinality, LoginsCardinality
    <3> QED
      BY <1>0, <3>2, <3>3, <3>6, <3>7, <3>8, <3>9
  <2>7. CASE login[r].user # u
    <3>1. Spared(CountedOfUser(u), S)' \in SUBSET Spared(CountedOfUser(u), S)
      BY <1>2, <2>4, <2>7, CommitCounts DEF Spared, CountedOfUser
    <3>2. Spared(CountedOfUser(u), S) \in SUBSET Sids
      BY DEF Spared, CountedOfUser
    <3>3. Cardinality(Spared(CountedOfUser(u), S)')
            <= Cardinality(Spared(CountedOfUser(u), S))
      BY <3>1, <3>2, SubsetCardinality
    <3>4. /\ Cardinality(Spared(CountedOfUser(u), S)') \in Nat
          /\ Cardinality(Spared(CountedOfUser(u), S)) \in Nat
          /\ Cardinality(S) \in Nat
      BY <2>3, <3>1, <3>2, SidsCardinality, LoginsCardinality
    <3>5. Cardinality(Spared(CountedOfUser(u), S)) + Cardinality(S) <= Bound
      BY <2>5 DEF UserRoom
    <3> QED
      BY <1>0, <3>3, <3>4, <3>5
  <2> QED
    BY <2>6, <2>7
<1>3. ASSUME /\ \A x \in Sids : Counts(x)' => Counts(x) /\ sess'[x].user = sess[x].user
             /\ \A r \in LoginReqs :
                   login'[r] = login[r] \/ login'[r].pc # "commit",
             NEW u \in Users, NEW S \in SUBSET Committing(u)'
      PROVE  Cardinality(Spared(CountedOfUser(u), S)') + Cardinality(S) <= Bound
  <2>1. S \in SUBSET LoginReqs /\ \A p \in S : login'[p] = login[p]
    BY <1>3 DEF Committing
  <2>2. S \in SUBSET Committing(u)
    BY <2>1 DEF Committing
  <2>3. Spared(CountedOfUser(u), S)' \in SUBSET Spared(CountedOfUser(u), S)
    BY <1>3, <2>1 DEF Spared, CountedOfUser
  <2>4. Spared(CountedOfUser(u), S) \in SUBSET Sids
    BY DEF Spared, CountedOfUser
  <2>5. Cardinality(Spared(CountedOfUser(u), S)')
          <= Cardinality(Spared(CountedOfUser(u), S))
    BY <2>3, <2>4, SubsetCardinality
  <2>6. /\ Cardinality(Spared(CountedOfUser(u), S)') \in Nat
        /\ Cardinality(Spared(CountedOfUser(u), S)) \in Nat
        /\ Cardinality(S) \in Nat
    BY <2>1, <2>3, <2>4, SidsCardinality, LoginsCardinality
  <2>7. Cardinality(Spared(CountedOfUser(u), S)) + Cardinality(S) <= Bound
    BY <2>2 DEF UserRoom
  <2> QED
    BY <1>0, <2>5, <2>6, <2>7
<1>4. Quiet =>
        /\ \A x \in Sids : Counts(x)' => Counts(x) /\ sess'[x].user = sess[x].user
        /\ \A r \in LoginReqs : login'[r] = login[r] \/ login'[r].pc # "commit"
    BY DEF Quiet
<1>5. ASSUME NEW r \in LoginReqs, EnforceDeviceSessionLimit(r)
      PROVE  /\ \A x \in Sids : Counts(x)' => Counts(x) /\ sess'[x].user = sess[x].user
             /\ \A p \in LoginReqs : login'[p] = login[p] \/ login'[p].pc # "commit"
  <2>1. UNCHANGED <<now, sess, revived>>
    BY <1>5 DEF EnforceDeviceSessionLimit
  <2>2. PICK V : login' = [login EXCEPT ![r] = [@ EXCEPT !.pc = "user", !.victims = V]]
    BY <1>5 DEF EnforceDeviceSessionLimit
  <2>3. login'[r].pc = "user" /\ \A p \in LoginReqs \ {r} : login'[p] = login[p]
    BY <2>2 DEF TypeInv, TypeOK, LoginState
  <2> QED
    BY <2>1, <2>3 DEF Counts, Active, Open
<1>6. CASE UNCHANGED vars
    BY <1>3, <1>6 DEF vars, UserRoom, Counts, Active, Open
<1> QED
    BY <1>1, <1>2, <1>3, <1>4, <1>5, <1>6, StepKinds DEF UserRoom

(* A user never has more active sessions than the limit and one for each    *)
(* login in flight beside the one that commits: the overshoot that missing  *)
(* locks allow does not accumulate from one round of logins to the next.    *)
THEOREM UserOvershootHolds == Spec => []UserOvershoot
<1>1. Init => UserRoom
  <2> SUFFICES ASSUME Init, NEW u \in Users, NEW S \in SUBSET Committing(u)
               PROVE  Cardinality(Spared(CountedOfUser(u), S)) + Cardinality(S)
                        <= MaxSessionsPerUser - 1 + Cardinality(LoginReqs)
    BY DEF UserRoom
  <2>1. S = {}
    BY DEF Init, Committing, IdleLogin
  <2>2. Spared(CountedOfUser(u), S) = {}
    BY DEF Init, Spared, CountedOfUser, Counts, Active, Open, Absent
  <2> QED
    BY <2>1, <2>2, FS_EmptySet, LimitsAssumption, LoginsCardinality
<1>2. UserRoom => UserOvershoot
  <2> SUFFICES ASSUME UserRoom, NEW u \in Users
               PROVE  Cardinality(ActiveOfUser(u) \ revived)
                        <= MaxSessionsPerUser - 1 + Cardinality(LoginReqs)
    BY DEF UserOvershoot
  <2>1. Spared(CountedOfUser(u), {}) = ActiveOfUser(u) \ revived
    BY DEF Spared, CountedOfUser, Counts, ActiveOfUser
  <2>2. Cardinality(Spared(CountedOfUser(u), {})) + Cardinality({})
          <= MaxSessionsPerUser - 1 + Cardinality(LoginReqs)
    BY DEF UserRoom
  <2>3. Cardinality(Spared(CountedOfUser(u), {})) \in Nat
    BY <2>1, SidsCardinality DEF ActiveOfUser
  <2>4. Cardinality({}) = 0
    BY FS_EmptySet
  <2>5. /\ MaxSessionsPerUser \in Nat
        /\ Cardinality(LoginReqs) \in Nat
    BY LimitsAssumption, LoginsCardinality
  <2>6. Cardinality(Spared(CountedOfUser(u), {}))
          <= MaxSessionsPerUser - 1 + Cardinality(LoginReqs)
    BY <2>2, <2>3, <2>4, <2>5
  <2> QED
    BY <2>1, <2>6
<1> QED
    BY <1>1, <1>2, InitTypes, TypeStep, UserRoomStep, PTL DEF Spec

(* The documented limit of sessions per user holds where logins come one    *)
(* after another, but for sessions that a refresh brought back: overlapping *)
(* logins are what breaks UserLimit.                                        *)
THEOREM UserLimitOneAtATime ==
    ASSUME Cardinality(LoginReqs) = 1
    PROVE  Spec => [](\A u \in Users :
                        Cardinality(ActiveOfUser(u) \ revived) <= MaxSessionsPerUser)
<1>1. UserOvershoot => \A u \in Users :
                          Cardinality(ActiveOfUser(u) \ revived) <= MaxSessionsPerUser
    BY LimitsAssumption DEF UserOvershoot
<1> QED
    BY <1>1, UserOvershootHolds, PTL
=============================================================================
