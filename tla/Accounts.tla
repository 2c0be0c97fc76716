------------------------------ MODULE Accounts ------------------------------
(***************************************************************************)
(* The users table of nexus-idp: logins that find or register an account,  *)
(* and the operations of AccountManagementService.                         *)
(*                                                                         *)
(* A session is here what the account operations see of it: open, or ended *)
(* by its expiry or by a termination.  Limits, logout and refresh, with    *)
(* the sessions a late refresh brings back after their expiry, are in      *)
(* module Sessions.  An operation reads the row, updateUser reads it again *)
(* and writes the columns in which its copy changed, and the operation     *)
(* lists the sessions to terminate and terminates them one at a time, each *)
(* step a transaction of its own.                                          *)
(***************************************************************************)
EXTENDS Naturals, FiniteSets

CONSTANTS
    Ids,          \* account ids, taken from a sequence and never reused
    Sids,         \* session ids, likewise; bound on the logins
    Phones,       \* phone numbers, as country code and number
    Emails,       \* normalised e-mail addresses
    LoginReqs,    \* slots of login requests
    Admins,       \* slots of account operations
    None,
    LockTime,     \* how long a lock lasts: 30 minutes, or what is asked for
    MaxCrashes    \* bound on the operations that die half-way

ASSUME LockAssumption == LockTime \in Nat \ {0}

ASSUME NamesAssumption == /\ Phones \cap Emails = {}
                          /\ None \notin Phones \cup Emails \cup Ids \cup Nat
                          /\ IsFiniteSet(LoginReqs) /\ MaxCrashes \in Nat

Idents == Phones \cup Emails

Operations == {"suspend", "delete", "lock", "unlock", "reactivate"}

(* lock is what is left of lockedUntil, 0 when it has passed.  ident is the *)
(* phone or the e-mail the account logs in with.                            *)
Row == [state : {"absent", "live", "deleted"}, ident : Idents \cup {None},
        status : {"ACTIVE", "SUSPENDED"}, lock : {None} \cup 0 .. LockTime]

NoRow == [state |-> "absent", ident |-> None, status |-> "ACTIVE", lock |-> None]

Session == [acc : Ids \cup {None}, state : {"absent", "open", "closed"}]

NoSession == [acc |-> None, state |-> "absent"]

LoginState == [pc : {"idle", "commit", "register"},
               ident : Idents \cup {None}, id : Ids \cup {None}]

IdleLogin == [pc |-> "idle", ident |-> None, id |-> None]

(* Of the row it has read, an operation uses the status and the lock. *)
Copy == [status : {"ACTIVE", "SUSPENDED"}, lock : {None} \cup 0 .. LockTime]

NoCopy == [status |-> "ACTIVE", lock |-> None]

AdminState == [pc : {"idle", "look", "flush", "list", "close"},
               op : Operations \cup {None}, id : Ids \cup {None},
               copy : Copy, sids : SUBSET Sids]

IdleAdmin == [pc |-> "idle", op |-> None, id |-> None, copy |-> NoCopy, sids |-> {}]

VARIABLES
    acc,      \* the users table
    sess,     \* the sessions table
    login,    \* login requests in flight
    admin,    \* account operations in flight
    spared,   \* history: sessions an operation could not know of, or left
    crashes   \* operations that died so far

vars == <<acc, sess, login, admin, spared, crashes>>

Init ==
    /\ acc = [id \in Ids |-> NoRow]
    /\ sess = [s \in Sids |-> NoSession]
    /\ login = [r \in LoginReqs |-> IdleLogin]
    /\ admin = [a \in Admins |-> IdleAdmin]
    /\ spared = {}
    /\ crashes = 0
-----------------------------------------------------------------------------
(* Logins. *)

(* Faulty: leaves out the suspended accounts as well. *)
FoundActive(i) ==
    {id \in Ids : /\ acc[id].state = "live" /\ acc[id].status = "ACTIVE"
                 /\ acc[id].ident = i}

(* findUserByPhone and getUserByEmail: the accounts not deleted. *)
Found(i) == {id \in Ids : acc[id].state = "live" /\ acc[id].ident = i}

Locked(row) == row.lock \notin {None, 0}

(* validateUserStatus.  It does not look at deletedAt, and no code sets the *)
(* status DELETED.                                                          *)
StatusValid(row) == row.status = "ACTIVE" /\ ~Locked(row)

(* The login transaction finds an account, or none.  Of two with the same   *)
(* phone the database returns either.                                       *)
LoginFinds(r, i) ==
    /\ login[r].pc = "idle"
    /\ \/ \E id \in Found(i) :
             /\ StatusValid(acc[id])
             /\ login' = [login EXCEPT ![r] =
                             [pc |-> "commit", ident |-> i, id |-> id]]
       \/ /\ Found(i) = {}
          /\ login' = [login EXCEPT ![r] =
                          [pc |-> "register", ident |-> i, id |-> None]]
    /\ UNCHANGED <<acc, sess, admin, spared, crashes>>

(* The serial ids, in the order of the commits. *)
NextSession(s) == sess[s].state = "absent" /\ \A t \in Sids : t < s => sess[t].state # "absent"

NextAccount(id) == acc[id].state = "absent" /\ \A j \in Ids : j < id => acc[j].state # "absent"

(* The session appears with the commit, whatever the account is by now. *)
LoginCommit(r, s) ==
    LET id == login[r].id
    IN  /\ login[r].pc = "commit" /\ NextSession(s)
        /\ sess' = [sess EXCEPT ![s] = [acc |-> id, state |-> "open"]]
        /\ spared' = IF acc[id].state = "live" /\ acc[id].status = "ACTIVE"
                     THEN spared ELSE spared \cup {s}
        /\ login' = [login EXCEPT ![r] = IdleLogin]
        /\ UNCHANGED <<acc, admin, crashes>>

(* users_email_normalized_unique counts the deleted accounts too, whose     *)
(* e-mails have been replaced.  The phone has an index, and no key.          *)
KeyRefuses(i) == i \in Emails /\ \E id \in Ids : acc[id].ident = i

(* createUser, with the session of the first login. *)
RegisterCommit(r, id, s) ==
    LET i == login[r].ident
    IN  /\ login[r].pc = "register" /\ ~KeyRefuses(i)
        /\ NextAccount(id) /\ NextSession(s)
        /\ acc' = [acc EXCEPT ![id] = [NoRow EXCEPT !.state = "live", !.ident = i]]
        /\ sess' = [sess EXCEPT ![s] = [acc |-> id, state |-> "open"]]
        /\ login' = [login EXCEPT ![r] = IdleLogin]
        /\ UNCHANGED <<admin, spared, crashes>>

(* The key, the device or any other error rolls the login back. *)
LoginFails(r) ==
    /\ login[r].pc # "idle"
    /\ login' = [login EXCEPT ![r] = IdleLogin]
    /\ UNCHANGED <<acc, sess, admin, spared, crashes>>
-----------------------------------------------------------------------------
(* Account operations. *)

(* getUserByIdWithDeleted, or getUserById for the locks. *)
MayFind(op, row) ==
    IF op \in {"suspend", "delete", "reactivate"}
    THEN row.state # "absent" ELSE row.state = "live"

AdminFinds(a, op, id) ==
    /\ admin[a].pc = "idle" /\ MayFind(op, acc[id])
    /\ admin' = [admin EXCEPT ![a] = [IdleAdmin EXCEPT !.pc = "look", !.op = op, !.id = id]]
    /\ UNCHANGED <<acc, sess, login, spared, crashes>>

(* What the operation makes of a row. *)
Changed(op, row) ==
    CASE op = "suspend" -> [row EXCEPT !.status = "SUSPENDED"]
      [] op = "reactivate" -> [row EXCEPT !.status = "ACTIVE"]
      [] op = "delete" -> [row EXCEPT !.state = "deleted",
                              !.ident = IF @ \in Emails THEN None ELSE @]
      [] op = "lock" -> [row EXCEPT !.lock = LockTime]
      [] op = "unlock" -> [row EXCEPT !.lock = None]

(* Faulty: writes the copy back as a whole. *)
FlushedWhole(row, copy, op) ==
    Changed(op, [row EXCEPT !.status = copy.status, !.lock = copy.lock])

(* The flush writes the columns that the operation changes in its copy: not *)
(* the status if it had it already, nor an empty lock.  A date always       *)
(* differs.                                                                 *)
Flushed(row, copy, op) ==
    IF \/ op = "suspend" /\ copy.status = "SUSPENDED"
       \/ op = "reactivate" /\ copy.status = "ACTIVE"
       \/ op = "unlock" /\ copy.lock = None
    THEN row ELSE Changed(op, row)

(* After updateUser: the sessions, if the operation terminates them.        *)
Updated(m) ==
    IF m.op \in {"suspend", "delete"}
    THEN [m EXCEPT !.pc = "list", !.copy = NoCopy] ELSE IdleAdmin

(* updateUser looks the account up among those not deleted, and does        *)
(* nothing if it is not there.  The ORM merges what it finds into the       *)
(* entity that the operation has loaded, which is unchanged so far.         *)
AdminLooks(a) ==
    LET m == admin[a]
        row == acc[m.id]
    IN  /\ m.pc = "look"
        /\ admin' = [admin EXCEPT ![a] =
                        IF row.state # "live" THEN Updated(m)
                        ELSE [m EXCEPT !.pc = "flush",
                                       !.copy = [status |-> row.status, lock |-> row.lock]]]
        /\ UNCHANGED <<acc, sess, login, spared, crashes>>

(* The flush writes by the key, also the row of an account that has been    *)
(* deleted since.                                                           *)
AdminFlushes(a) ==
    LET m == admin[a]
    IN  /\ m.pc = "flush"
        /\ acc' = [acc EXCEPT ![m.id] = Flushed(@, m.copy, m.op)]
        /\ admin' = [admin EXCEPT ![a] = Updated(m)]
        /\ UNCHANGED <<sess, login, spared, crashes>>

(* Faulty: terminateAllExcept, which keeps one of the sessions. *)
ActiveExceptOne(id) ==
    LET open == {s \in Sids : sess[s].acc = id /\ sess[s].state = "open"}
    IN  {s \in open : \E t \in open : t < s}

(* findActiveByUser: neither terminated nor past its expiry. *)
ActiveByUser(id) == {s \in Sids : sess[s].acc = id /\ sess[s].state = "open"}

AdminLists(a) ==
    LET sids == ActiveByUser(admin[a].id)
    IN  /\ admin[a].pc = "list"
        /\ admin' = [admin EXCEPT ![a] =
                        IF sids = {} THEN IdleAdmin
                        ELSE [@ EXCEPT !.pc = "close", !.sids = sids]]
        /\ UNCHANGED <<acc, sess, login, spared, crashes>>

(* One turn of terminateSessions. *)
AdminCloses(a, s) ==
    LET m == admin[a]
    IN  /\ m.pc = "close" /\ s \in m.sids
        /\ sess' = [sess EXCEPT ![s].state = "closed"]
        /\ admin' = [admin EXCEPT ![a] =
                        IF m.sids = {s} THEN IdleAdmin
                        ELSE [m EXCEPT !.sids = m.sids \ {s}]]
        /\ UNCHANGED <<acc, login, spared, crashes>>

(* The operation dies, or the database fails it; what it has written stays. *)
AdminDies(a) ==
    /\ admin[a].pc # "idle" /\ crashes < MaxCrashes
    /\ crashes' = crashes + 1
    /\ spared' = CASE admin[a].pc = "list" -> spared \cup ActiveByUser(admin[a].id)
                   [] admin[a].pc = "close" -> spared \cup admin[a].sids
                   [] admin[a].pc \in {"look", "flush"} -> spared
    /\ admin' = [admin EXCEPT ![a] = IdleAdmin]
    /\ UNCHANGED <<acc, sess, login>>
-----------------------------------------------------------------------------
(* automatedSecurityResponse.  Scores are counted in tenths, and a total is *)
(* three times the average the code compares.                               *)

analyzeFailedLoginRisk(failed) ==
    CASE failed >= 10 -> 10
      [] failed \in 7 .. 9 -> 8
      [] failed \in 5 .. 6 -> 6
      [] failed \in 3 .. 4 -> 4
      [] OTHER -> 1

(* By the days since the last login. *)
Idleness == {"never", "recent", "30 days", "90 days", "365 days"}

analyzeActivityRisk(idle) ==
    CASE idle = "never" -> 3
      [] idle = "365 days" -> 8
      [] idle = "90 days" -> 6
      [] idle = "30 days" -> 4
      [] idle = "recent" -> 1

SecurityEventRisk == 2

(* Faulty: the sum of the scores instead of their average. *)
TotalNotAveraged(failed, idle) ==
    3 * (analyzeFailedLoginRisk(failed) + analyzeActivityRisk(idle) + SecurityEventRisk)

SecurityTotal(failed, idle) ==
    analyzeFailedLoginRisk(failed) + analyzeActivityRisk(idle) + SecurityEventRisk

Response(failed, idle) ==
    LET total == SecurityTotal(failed, idle)
    IN  CASE total >= 24 -> "suspend"
          [] total \in 18 .. 23 -> "lock"
          [] OTHER -> "none"

Responses == {Response(f, i) : f \in 0 .. 10, i \in Idleness}

(* Of an account that is not deleted; the operation then finds it again.    *)
AutomatedFinds(a, id) ==
    /\ acc[id].state = "live"
    /\ \E op \in Responses \cap Operations : AdminFinds(a, op, id)
-----------------------------------------------------------------------------
(* Time. *)

(* Faulty: time lengthens a lock. *)
AgedLockForever(lock) == IF lock = None THEN lock ELSE lock + 1

AgedLock(lock) == IF lock \in {None, 0} THEN lock ELSE lock - 1

Tick ==
    /\ \E id \in Ids : Locked(acc[id])
    /\ acc' = [id \in Ids |-> [acc[id] EXCEPT !.lock = AgedLock(@)]]
    /\ UNCHANGED <<sess, login, admin, spared, crashes>>

(* A session runs out, or a logout, a limit or a clean-up ends it. *)
SessionEnds(s) ==
    /\ sess[s].state = "open"
    /\ sess' = [sess EXCEPT ![s].state = "closed"]
    /\ UNCHANGED <<acc, login, admin, spared, crashes>>

LoginStep(r) ==
    \/ \E i \in Idents : LoginFinds(r, i)
    \/ \E s \in Sids : LoginCommit(r, s) \/ \E id \in Ids : RegisterCommit(r, id, s)
    \/ LoginFails(r)

AdminStep(a) ==
    \/ AdminLooks(a) \/ AdminFlushes(a)
    \/ AdminLists(a) \/ \E s \in Sids : AdminCloses(a, s)

AdminBegin(a, id) ==
    AutomatedFinds(a, id) \/ \E op \in Operations : AdminFinds(a, op, id)

Next ==
    \/ \E r \in LoginReqs : LoginStep(r)
    \/ \E a \in Admins : \/ \E id \in Ids : AdminBegin(a, id)
                         \/ AdminStep(a) \/ AdminDies(a)
    \/ \E s \in Sids : SessionEnds(s)
    \/ Tick

Spec == Init /\ [][Next]_vars
-----------------------------------------------------------------------------
TypeOK ==
    /\ acc \in [Ids -> Row]
    /\ sess \in [Sids -> Session]
    /\ login \in [LoginReqs -> LoginState]
    /\ admin \in [Admins -> AdminState]
    /\ spared \subseteq Sids
    /\ crashes \in 0 .. MaxCrashes

(* An operation on the account that has yet to terminate s. *)
ToClose(a, s) ==
    /\ admin[a].id = sess[s].acc
    /\ \/ admin[a].pc = "list"
       \/ admin[a].pc = "close" /\ s \in admin[a].sids

(* A suspension or a deletion ends with no session of the account open, but *)
(* those it could not know of: a login had read the account before it was   *)
(* written and committed after, or the operation died.                      *)
NoneLeftOpen ==
    \A s \in Sids :
        /\ sess[s].state = "open"
        /\ acc[sess[s].acc].state = "deleted" \/ acc[sess[s].acc].status = "SUSPENDED"
        => s \in spared \/ \E a \in Admins : ToClose(a, s)

(* First logins with a phone that overlap register an account each; but the *)
(* twins do not add up, for a later login finds one of them whatever became *)
(* of it, short of its deletion.                                            *)
TwinsBounded ==
    \A i \in Phones : Cardinality(Found(i)) <= Cardinality(LoginReqs)

(* UserEntity says of the phone that it prevents duplicate phone numbers.   *)
PhonesUnique == \A i \in Phones : Cardinality(Found(i)) <= 1

(* The automated response locks an account and never suspends it: with the  *)
(* constant the code returns for the security events, the average of the    *)
(* scores stays below the threshold of the level critical.                  *)
ResponseOnlyLocks ==
    \A id \in Ids : acc[id].state = "live" => Responses = {"none", "lock"}

(* An operation that works on an outdated copy undoes nothing: the status   *)
(* changes by a suspension or a reactivation only, a lock by a lock, an     *)
(* unlock and time, and a deleted account does not come back.               *)
ColumnsKept ==
    [][\A id \in Ids :
          acc[id].state # "absent" =>
            LET by(ops) == \E a \in Admins :
                              /\ admin[a].pc = "flush" /\ admin[a].id = id
                              /\ admin[a].op \in ops /\ admin'[a] # admin[a]
            IN  /\ acc'[id].status # acc[id].status => by({"suspend", "reactivate"})
                /\ acc'[id].lock \notin {acc[id].lock, AgedLock(acc[id].lock)}
                      => by({"lock", "unlock"})
                /\ acc[id].state = "deleted" => acc'[id].state = "deleted"]_vars
=============================================================================
