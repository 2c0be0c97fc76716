---------------------------- MODULE AccountsProofs ----------------------------
(* Safety of Accounts, for any accounts, sessions, slots and lock time.     *)
EXTENDS Accounts, FiniteSetTheorems, TLAPS

-----------------------------------------------------------------------------
(* The values that rows and slots take. *)

Locks == {None} \cup 0 .. LockTime

LEMMA LocksAre ==
    /\ None \in Locks /\ LockTime \in Locks /\ None \notin 0 .. LockTime
    /\ \A n \in Locks : AgedLock(n) \in Locks
BY LockAssumption, NamesAssumption DEF Locks, AgedLock

LEMMA RowIs == Row = [state : {"absent", "live", "deleted"}, ident : Idents \cup {None},
                      status : {"ACTIVE", "SUSPENDED"}, lock : Locks]
BY DEF Row, Locks

LEMMA CopyIs == Copy = [status : {"ACTIVE", "SUSPENDED"}, lock : Locks]
BY DEF Copy, Locks

(* What an operation makes of a row: nothing but the columns of its own.    *)
LEMMA ChangedType ==
    ASSUME NEW row \in Row, NEW op \in Operations, NEW new, new = Changed(op, row)
    PROVE  /\ new \in Row
           /\ new.status # row.status => op \in {"suspend", "reactivate"}
           /\ new.lock # row.lock => op \in {"lock", "unlock"}
           /\ new.status = "SUSPENDED" => op = "suspend" \/ row.status = "SUSPENDED"
           /\ IF op = "delete" THEN new.state = "deleted" ELSE new.state = row.state
           /\ new.ident # row.ident => op = "delete"
<1> USE RowIs
<1>1. CASE op = "suspend"
  <2>1. new = [row EXCEPT !.status = "SUSPENDED"]
    BY <1>1 DEF Changed
  <2> QED
    BY <1>1, <2>1
<1>2. CASE op = "reactivate"
  <2>1. new = [row EXCEPT !.status = "ACTIVE"]
    BY <1>2 DEF Changed
  <2> QED
    BY <1>2, <2>1
<1>3. CASE op = "delete"
  <2> DEFINE i == IF row.ident \in Emails THEN None ELSE row.ident
  <2>1. i \in Idents \cup {None} /\ new = [row EXCEPT !.state = "deleted", !.ident = i]
    BY <1>3 DEF Changed
  <2> HIDE DEF i
  <2> QED
    BY <1>3, <2>1
<1>4. CASE op = "lock"
  <2>1. new = [row EXCEPT !.lock = LockTime]
    BY <1>4 DEF Changed
  <2> QED
    BY <1>4, <2>1, LocksAre
<1>5. CASE op = "unlock"
  <2>1. new = [row EXCEPT !.lock = None]
    BY <1>5 DEF Changed
  <2> QED
    BY <1>5, <2>1, LocksAre
<1> QED
  BY <1>1, <1>2, <1>3, <1>4, <1>5 DEF Operations

LEMMA FlushedIs ==
    ASSUME NEW row, NEW copy, NEW op
    PROVE  Flushed(row, copy, op) \in {row, Changed(op, row)}
BY DEF Flushed

LEMMA FlushedType ==
    ASSUME NEW row \in Row, NEW copy, NEW op \in Operations,
           NEW new, new = Flushed(row, copy, op)
    PROVE  /\ new \in Row
           /\ new.status # row.status => op \in {"suspend", "reactivate"}
           /\ new.lock # row.lock => op \in {"lock", "unlock"}
           /\ new.status = "SUSPENDED" => op = "suspend" \/ row.status = "SUSPENDED"
           /\ new.state = "deleted" => op = "delete" \/ row.state = "deleted"
           /\ row.state = "deleted" => new.state = "deleted"
           /\ new.state = "live" => row.state = "live" /\ new.ident = row.ident
BY FlushedIs, ChangedType

LEMMA AgedRow ==
    ASSUME NEW row \in Row, NEW new, new = [row EXCEPT !.lock = AgedLock(row.lock)]
    PROVE  /\ new \in Row /\ new.state = row.state /\ new.ident = row.ident
           /\ new.status = row.status /\ new.lock = AgedLock(row.lock)
<1>1. AgedLock(row.lock) \in Locks
  BY LocksAre, RowIs
<1> QED
  BY <1>1, RowIs
-----------------------------------------------------------------------------
(* Types. *)

Named ==
    /\ \A s \in Sids : sess[s].state = "open" => sess[s].acc \in Ids
    /\ \A r \in LoginReqs :
          /\ login[r].pc = "commit" => login[r].id \in Ids
          /\ login[r].pc = "register" => login[r].ident \in Idents
    /\ \A a \in Admins : admin[a].pc # "idle" =>
          admin[a].op \in Operations /\ admin[a].id \in Ids

TypeInv == TypeOK /\ Named

LEMMA IdleTypes ==
    /\ NoRow \in Row /\ NoRow.state = "absent"
    /\ NoSession \in Session /\ NoSession.state = "absent"
    /\ IdleLogin \in LoginState /\ IdleLogin.pc = "idle"
    /\ NoCopy \in Copy
    /\ IdleAdmin \in AdminState /\ IdleAdmin.pc = "idle"
<1>1. NoRow \in Row /\ NoRow.state = "absent" /\ NoCopy \in Copy
  BY LocksAre, RowIs, CopyIs DEF NoRow, NoCopy
<1> QED
  BY <1>1 DEF NoSession, Session, IdleLogin, LoginState, IdleAdmin, AdminState

LEMMA InitType == Init => TypeInv
BY IdleTypes, NamesAssumption DEF Init, TypeInv, TypeOK, Named
-----------------------------------------------------------------------------
(* The steps, slot by slot. *)

LEMMA LoginFindsIs ==
    ASSUME TypeInv, NEW r \in LoginReqs, NEW i \in Idents, LoginFinds(r, i)
    PROVE  /\ UNCHANGED <<acc, sess, admin, spared, crashes>>
           /\ login' \in [LoginReqs -> LoginState]
           /\ \A q \in LoginReqs : q # r => login'[q] = login[q]
           /\ login[r].pc = "idle"
           /\ \/ login'[r].pc = "commit" /\ login'[r].id \in Ids
              \/ /\ login'[r].pc = "register" /\ login'[r].ident = i
                 /\ Found(i) = {}
<1>1. PICK l \in LoginState :
         /\ login' = [login EXCEPT ![r] = l]
         /\ \/ l.pc = "commit" /\ l.id \in Ids
            \/ l.pc = "register" /\ l.ident = i /\ Found(i) = {}
  <2>1. CASE \E id \in Found(i) :
                login' = [login EXCEPT ![r] = [pc |-> "commit", ident |-> i, id |-> id]]
    <3>1. PICK id \in Ids :
             login' = [login EXCEPT ![r] = [pc |-> "commit", ident |-> i, id |-> id]]
      BY <2>1 DEF Found
    <3> DEFINE l == [pc |-> "commit", ident |-> i, id |-> id]
    <3>2. l \in LoginState /\ l.pc = "commit" /\ l.id \in Ids
      BY DEF LoginState
    <3> QED
      BY <3>1, <3>2
  <2>2. CASE /\ Found(i) = {}
             /\ login' = [login EXCEPT ![r] = [pc |-> "register", ident |-> i, id |-> None]]
    <3> DEFINE l == [pc |-> "register", ident |-> i, id |-> None]
    <3>1. l \in LoginState /\ l.pc = "register" /\ l.ident = i
      BY DEF LoginState
    <3> QED
      BY <2>2, <3>1
  <2> QED
    BY <2>1, <2>2 DEF LoginFinds
<1>2. UNCHANGED <<acc, sess, admin, spared, crashes>> /\ login[r].pc = "idle"
  BY DEF LoginFinds
<1> QED
  BY <1>1, <1>2 DEF TypeInv, TypeOK

LEMMA LoginLeaves ==
    ASSUME TypeInv, NEW r \in LoginReqs, login' = [login EXCEPT ![r] = IdleLogin]
    PROVE  /\ login' \in [LoginReqs -> LoginState]
           /\ login'[r].pc = "idle"
           /\ \A q \in LoginReqs : q # r => login'[q] = login[q]
BY IdleTypes DEF TypeInv, TypeOK

LEMMA NewSession ==
    ASSUME TypeInv, NEW s \in Sids, NEW id \in Ids,
           sess' = [sess EXCEPT ![s] = [acc |-> id, state |-> "open"]]
    PROVE  /\ sess' \in [Sids -> Session]
           /\ sess'[s].acc = id /\ sess'[s].state = "open"
           /\ \A t \in Sids : t # s => sess'[t] = sess[t]
BY DEF TypeInv, TypeOK, Session

LEMMA SessionMoves ==
    ASSUME TypeInv, NEW s \in Sids, sess' = [sess EXCEPT ![s].state = "closed"]
    PROVE  /\ sess' \in [Sids -> Session]
           /\ sess'[s].acc = sess[s].acc /\ sess'[s].state = "closed"
           /\ \A t \in Sids : t # s => sess'[t] = sess[t]
BY DEF TypeInv, TypeOK, Session

LEMMA RegisterIs ==
    ASSUME TypeInv, NEW r \in LoginReqs, NEW id \in Ids, NEW s \in Sids,
           RegisterCommit(r, id, s)
    PROVE  /\ login[r].pc = "register" /\ login[r].ident \in Idents
           /\ ~KeyRefuses(login[r].ident)
           /\ acc[id].state = "absent" /\ sess[s].state = "absent"
           /\ acc' \in [Ids -> Row]
           /\ acc'[id].state = "live" /\ acc'[id].ident = login[r].ident
           /\ acc'[id].status = "ACTIVE"
           /\ \A j \in Ids : j # id => acc'[j] = acc[j]
<1> DEFINE i == login[r].ident
           row == [NoRow EXCEPT !.state = "live", !.ident = i]
<1>1. i \in Idents /\ login[r].pc = "register" /\ ~KeyRefuses(i)
  BY DEF RegisterCommit, TypeInv, Named
<1>2. row \in Row /\ row.state = "live" /\ row.ident = i /\ row.status = "ACTIVE"
  BY <1>1, LocksAre, RowIs DEF NoRow
<1>3. /\ acc' = [acc EXCEPT ![id] = row]
      /\ acc[id].state = "absent" /\ sess[s].state = "absent"
  BY DEF RegisterCommit, NextAccount, NextSession
<1> HIDE DEF row, i
<1> QED
  BY <1>1, <1>2, <1>3 DEF TypeInv, TypeOK, i

LEMMA AdminFindsIs ==
    ASSUME TypeInv, NEW a \in Admins, NEW op \in Operations, NEW id \in Ids,
           AdminFinds(a, op, id)
    PROVE  /\ UNCHANGED <<acc, sess, login, spared, crashes>>
           /\ admin' \in [Admins -> AdminState]
           /\ admin[a].pc = "idle" /\ admin'[a].pc = "look"
           /\ admin'[a].op = op /\ admin'[a].id = id
           /\ \A b \in Admins : b # a => admin'[b] = admin[b]
<1> DEFINE m == [IdleAdmin EXCEPT !.pc = "look", !.op = op, !.id = id]
<1>1. m \in AdminState /\ m.pc = "look" /\ m.op = op /\ m.id = id
  BY IdleTypes DEF IdleAdmin, AdminState
<1>2. /\ UNCHANGED <<acc, sess, login, spared, crashes>>
      /\ admin' = [admin EXCEPT ![a] = m] /\ admin[a].pc = "idle"
  BY DEF AdminFinds
<1> HIDE DEF m
<1> QED
  BY <1>1, <1>2 DEF TypeInv, TypeOK

LEMMA UpdatedIs ==
    ASSUME NEW m \in AdminState, NEW n, n = Updated(m)
    PROVE  /\ n \in AdminState /\ n.pc \in {"idle", "list"}
           /\ n.pc = "list" => n.op = m.op /\ n.id = m.id
           /\ m.op \in {"suspend", "delete"} => n.pc = "list"
<1> DEFINE l == [m EXCEPT !.pc = "list", !.copy = NoCopy]
<1>1. l \in AdminState /\ l.pc = "list" /\ l.op = m.op /\ l.id = m.id
  BY IdleTypes DEF AdminState
<1>2. n = IF m.op \in {"suspend", "delete"} THEN l ELSE IdleAdmin
  BY DEF Updated
<1> HIDE DEF l
<1> QED
  BY <1>1, <1>2, IdleTypes

LEMMA AdminLooksIs ==
    ASSUME TypeInv, NEW a \in Admins, AdminLooks(a)
    PROVE  /\ UNCHANGED <<acc, sess, login, spared, crashes>>
           /\ admin[a].pc = "look"
           /\ admin' \in [Admins -> AdminState]
           /\ \A b \in Admins : b # a => admin'[b] = admin[b]
           /\ admin'[a].pc # "idle" => admin'[a].op = admin[a].op /\ admin'[a].id = admin[a].id
<1> DEFINE m == admin[a]
           copy == [status |-> acc[m.id].status, lock |-> acc[m.id].lock]
           f == [m EXCEPT !.pc = "flush", !.copy = copy]
           n == IF acc[m.id].state # "live" THEN Updated(m) ELSE f
<1>1. /\ UNCHANGED <<acc, sess, login, spared, crashes>> /\ m.pc = "look"
      /\ admin' = [admin EXCEPT ![a] = n] /\ m \in AdminState /\ acc[m.id] \in Row
  BY DEF AdminLooks, TypeInv, TypeOK, Named
<1>2. copy \in Copy
  BY <1>1, RowIs, CopyIs
<1> HIDE DEF copy
<1>3. f \in AdminState /\ f.op = m.op /\ f.id = m.id
  BY <1>1, <1>2 DEF AdminState
<1> HIDE DEF f
<1>4. n \in AdminState /\ (n.pc # "idle" => n.op = m.op /\ n.id = m.id)
  BY <1>1, <1>3, UpdatedIs
<1> HIDE DEF n
<1> QED
  BY <1>1, <1>4 DEF TypeInv, TypeOK

LEMMA AdminFlushesIs ==
    ASSUME TypeInv, NEW a \in Admins, AdminFlushes(a)
    PROVE  /\ UNCHANGED <<sess, login, spared, crashes>>
           /\ admin[a].pc = "flush" /\ admin[a].op \in Operations /\ admin[a].id \in Ids
           /\ acc' \in [Ids -> Row]
           /\ acc'[admin[a].id] = Flushed(acc[admin[a].id], admin[a].copy, admin[a].op)
           /\ \A j \in Ids : j # admin[a].id => acc'[j] = acc[j]
           /\ admin' \in [Admins -> AdminState]
           /\ \A b \in Admins : b # a => admin'[b] = admin[b]
           /\ admin'[a].pc \in {"idle", "list"}
           /\ admin'[a].pc = "list" => admin'[a].op = admin[a].op /\ admin'[a].id = admin[a].id
           /\ admin[a].op \in {"suspend", "delete"} => admin'[a].pc = "list"
<1> DEFINE m == admin[a]
           n == Updated(m)
           new == Flushed(acc[m.id], m.copy, m.op)
<1>1. /\ m \in AdminState /\ m.pc = "flush" /\ m.op \in Operations /\ m.id \in Ids
      /\ acc[m.id] \in Row
  BY DEF AdminFlushes, TypeInv, TypeOK, Named
<1>2. /\ UNCHANGED <<sess, login, spared, crashes>>
      /\ acc' = [acc EXCEPT ![m.id] = new] /\ admin' = [admin EXCEPT ![a] = n]
  BY DEF AdminFlushes
<1>3. new \in Row
  BY <1>1, FlushedType
<1> HIDE DEF new
<1>4. /\ n \in AdminState /\ n.pc \in {"idle", "list"}
      /\ n.pc = "list" => n.op = m.op /\ n.id = m.id
      /\ m.op \in {"suspend", "delete"} => n.pc = "list"
  BY <1>1, UpdatedIs
<1> HIDE DEF n
<1> QED
  BY <1>1, <1>2, <1>3, <1>4 DEF TypeInv, TypeOK, new

LEMMA AdminListsIs ==
    ASSUME TypeInv, NEW a \in Admins, AdminLists(a)
    PROVE  /\ UNCHANGED <<acc, sess, login, spared, crashes>>
           /\ admin[a].pc = "list"
           /\ admin' \in [Admins -> AdminState]
           /\ \A b \in Admins : b # a => admin'[b] = admin[b]
           /\ \/ ActiveByUser(admin[a].id) = {} /\ admin'[a].pc = "idle"
              \/ /\ admin'[a].pc = "close" /\ admin'[a].op = admin[a].op
                 /\ admin'[a].id = admin[a].id
                 /\ admin'[a].sids = ActiveByUser(admin[a].id)
<1> DEFINE m == admin[a]
           sids == ActiveByUser(m.id)
           l == [m EXCEPT !.pc = "close", !.sids = sids]
           n == IF sids = {} THEN IdleAdmin ELSE l
<1>1. /\ UNCHANGED <<acc, sess, login, spared, crashes>>
      /\ m.pc = "list" /\ admin' = [admin EXCEPT ![a] = n] /\ m \in AdminState
  BY DEF AdminLists, TypeInv, TypeOK
<1>2. sids \in SUBSET Sids
  BY DEF ActiveByUser
<1> HIDE DEF sids
<1>3. l \in AdminState /\ l.pc = "close" /\ l.op = m.op /\ l.id = m.id /\ l.sids = sids
  BY <1>1, <1>2 DEF AdminState
<1> HIDE DEF l
<1>4. /\ n \in AdminState
      /\ (sids = {} /\ n.pc = "idle") \/ n = l
  BY <1>3, IdleTypes
<1> HIDE DEF n
<1>5. /\ admin' \in [Admins -> AdminState] /\ admin'[a] = n
      /\ \A b \in Admins : b # a => admin'[b] = admin[b]
  BY <1>1, <1>4 DEF TypeInv, TypeOK
<1> QED
  BY <1>1, <1>3, <1>4, <1>5 DEF sids

LEMMA AdminClosesIs ==
    ASSUME TypeInv, NEW a \in Admins, NEW s \in Sids, AdminCloses(a, s)
    PROVE  /\ UNCHANGED <<acc, login, spared, crashes>>
           /\ admin[a].pc = "close"
           /\ sess' = [sess EXCEPT ![s].state = "closed"]
           /\ admin' \in [Admins -> AdminState]
           /\ \A b \in Admins : b # a => admin'[b] = admin[b]
           /\ \/ admin[a].sids \subseteq {s} /\ admin'[a].pc = "idle"
              \/ /\ admin'[a].pc = "close" /\ admin'[a].op = admin[a].op
                 /\ admin'[a].id = admin[a].id
                 /\ admin'[a].sids = admin[a].sids \ {s}
<1> DEFINE m == admin[a]
           sids == m.sids \ {s}
           l == [m EXCEPT !.sids = sids]
           n == IF m.sids = {s} THEN IdleAdmin ELSE l
<1>1. /\ UNCHANGED <<acc, login, spared, crashes>>
      /\ m.pc = "close" /\ admin' = [admin EXCEPT ![a] = n] /\ m \in AdminState
      /\ sess' = [sess EXCEPT ![s].state = "closed"]
  BY DEF AdminCloses, TypeInv, TypeOK
<1>2. sids \in SUBSET Sids
  BY <1>1 DEF AdminState
<1> HIDE DEF sids
<1>3. l \in AdminState /\ l.pc = "close" /\ l.op = m.op /\ l.id = m.id /\ l.sids = sids
  BY <1>1, <1>2 DEF AdminState
<1> HIDE DEF l
<1>4. /\ n \in AdminState
      /\ (m.sids = {s} /\ n.pc = "idle") \/ n = l
  BY <1>3, IdleTypes
<1> HIDE DEF n
<1>5. /\ admin' \in [Admins -> AdminState] /\ admin'[a] = n
      /\ \A b \in Admins : b # a => admin'[b] = admin[b]
  BY <1>1, <1>4 DEF TypeInv, TypeOK
<1> QED
  BY <1>1, <1>3, <1>4, <1>5 DEF sids

LEMMA AdminDiesIs ==
    ASSUME TypeInv, NEW a \in Admins, AdminDies(a)
    PROVE  /\ UNCHANGED <<acc, sess, login>>
           /\ crashes' \in 0 .. MaxCrashes
           /\ spared' \subseteq Sids /\ spared \subseteq spared'
           /\ admin[a].pc = "list" => ActiveByUser(admin[a].id) \subseteq spared'
           /\ admin[a].pc = "close" => admin[a].sids \subseteq spared'
           /\ admin' \in [Admins -> AdminState] /\ admin'[a].pc = "idle"
           /\ \A b \in Admins : b # a => admin'[b] = admin[b]
<1>1. /\ UNCHANGED <<acc, sess, login>> /\ crashes' = crashes + 1 /\ crashes < MaxCrashes
      /\ admin' = [admin EXCEPT ![a] = IdleAdmin]
      /\ admin[a].pc \in {"look", "flush", "list", "close"} /\ admin[a].sids \subseteq Sids
      /\ spared' = CASE admin[a].pc = "list" -> spared \cup ActiveByUser(admin[a].id)
                     [] admin[a].pc = "close" -> spared \cup admin[a].sids
                     [] admin[a].pc \in {"look", "flush"} -> spared
  BY DEF AdminDies, TypeInv, TypeOK, AdminState
<1>2. /\ spared' \subseteq Sids /\ spared \subseteq spared'
      /\ admin[a].pc = "list" => ActiveByUser(admin[a].id) \subseteq spared'
      /\ admin[a].pc = "close" => admin[a].sids \subseteq spared'
  <2>1. ActiveByUser(admin[a].id) \subseteq Sids /\ spared \subseteq Sids
    BY DEF TypeInv, TypeOK, ActiveByUser
  <2>2. CASE admin[a].pc = "list"
    BY <1>1, <2>1, <2>2
  <2>3. CASE admin[a].pc = "close"
    BY <1>1, <2>1, <2>3
  <2>4. CASE admin[a].pc \in {"look", "flush"}
    BY <1>1, <2>1, <2>4
  <2> QED
    BY <1>1, <2>2, <2>3, <2>4
<1>3. crashes' \in 0 .. MaxCrashes
  BY <1>1, NamesAssumption DEF TypeInv, TypeOK
<1> QED
  BY <1>1, <1>2, <1>3, IdleTypes DEF TypeInv, TypeOK

LEMMA TickIs ==
    ASSUME TypeInv, Tick
    PROVE  /\ UNCHANGED <<sess, login, admin, spared, crashes>>
           /\ acc' \in [Ids -> Row]
           /\ \A id \in Ids : /\ acc'[id].state = acc[id].state
                              /\ acc'[id].ident = acc[id].ident
                              /\ acc'[id].status = acc[id].status
                              /\ acc'[id].lock = AgedLock(acc[id].lock)
<1>1. /\ UNCHANGED <<sess, login, admin, spared, crashes>>
      /\ acc' = [id \in Ids |-> [acc[id] EXCEPT !.lock = AgedLock(acc[id].lock)]]
  BY DEF Tick
<1>2. \A id \in Ids : acc[id] \in Row
  BY DEF TypeInv, TypeOK
<1> DEFINE Old(id) == [acc[id] EXCEPT !.lock = AgedLock(acc[id].lock)]
<1>3. \A id \in Ids : /\ Old(id) \in Row /\ Old(id).state = acc[id].state
                      /\ Old(id).ident = acc[id].ident
                      /\ Old(id).status = acc[id].status
                      /\ Old(id).lock = AgedLock(acc[id].lock)
  BY <1>2, AgedRow
<1>4. acc' = [id \in Ids |-> Old(id)]
  BY <1>1
<1> HIDE DEF Old
<1> QED
  BY <1>1, <1>3, <1>4
-----------------------------------------------------------------------------
(* The disjuncts of Next, by what they are for the proofs.                  *)
LEMMA NextIs ==
    ASSUME TypeInv, [Next]_vars
    PROVE  \/ \E r \in LoginReqs, i \in Idents : LoginFinds(r, i)
           \/ \E r \in LoginReqs, s \in Sids : LoginCommit(r, s)
           \/ \E r \in LoginReqs, id \in Ids, s \in Sids : RegisterCommit(r, id, s)
           \/ \E r \in LoginReqs : LoginFails(r)
           \/ \E a \in Admins, op \in Operations, id \in Ids : AdminFinds(a, op, id)
           \/ \E a \in Admins : AdminLooks(a)
           \/ \E a \in Admins : AdminFlushes(a)
           \/ \E a \in Admins : AdminLists(a)
           \/ \E a \in Admins, s \in Sids : AdminCloses(a, s)
           \/ \E a \in Admins : AdminDies(a)
           \/ \E s \in Sids : SessionEnds(s)
           \/ Tick
           \/ UNCHANGED vars
BY DEF Next, LoginStep, AdminStep, AdminBegin, AutomatedFinds

LEMMA LoginCommitIs ==
    ASSUME TypeInv, NEW r \in LoginReqs, NEW s \in Sids, LoginCommit(r, s)
    PROVE  \E id \in Ids :
              /\ UNCHANGED <<acc, admin, crashes>> /\ sess[s].state = "absent"
              /\ sess' = [sess EXCEPT ![s] = [acc |-> id, state |-> "open"]]
              /\ spared \subseteq spared' /\ spared' \subseteq Sids
              /\ (acc[id].state = "live" /\ acc[id].status = "ACTIVE") \/ s \in spared'
              /\ login' = [login EXCEPT ![r] = IdleLogin]
<1>1. PICK id \in Ids : id = login[r].id
  BY DEF LoginCommit, TypeInv, Named
<1> QED
  BY <1>1 DEF LoginCommit, NextSession, TypeInv, TypeOK

LEMMA TypeStep == TypeInv /\ [Next]_vars => TypeInv'
<1> SUFFICES ASSUME TypeInv, [Next]_vars PROVE TypeInv'
  OBVIOUS
<1> USE DEF TypeInv, TypeOK, Named
<1>1. ASSUME NEW r \in LoginReqs, NEW i \in Idents, LoginFinds(r, i) PROVE TypeInv'
  BY <1>1, LoginFindsIs
<1>2. ASSUME NEW r \in LoginReqs, NEW s \in Sids, LoginCommit(r, s) PROVE TypeInv'
  BY <1>2, LoginCommitIs, NewSession, LoginLeaves
<1>3. ASSUME NEW r \in LoginReqs, NEW id \in Ids, NEW s \in Sids, RegisterCommit(r, id, s)
      PROVE  TypeInv'
  <2>1. /\ login' = [login EXCEPT ![r] = IdleLogin] /\ UNCHANGED <<admin, spared, crashes>>
        /\ sess' = [sess EXCEPT ![s] = [acc |-> id, state |-> "open"]]
    BY <1>3 DEF RegisterCommit
  <2>2. acc' \in [Ids -> Row]
    BY <1>3, RegisterIs
  <2> QED
    BY <2>1, <2>2, NewSession, LoginLeaves
<1>4. ASSUME NEW r \in LoginReqs, LoginFails(r) PROVE TypeInv'
  BY <1>4, LoginLeaves DEF LoginFails
<1>5. ASSUME NEW a \in Admins, NEW op \in Operations, NEW id \in Ids, AdminFinds(a, op, id)
      PROVE  TypeInv'
  BY <1>5, AdminFindsIs
<1>6. ASSUME NEW a \in Admins, AdminLooks(a) PROVE TypeInv'
  <2>1. /\ UNCHANGED <<acc, sess, login, spared, crashes>> /\ admin[a].pc = "look"
        /\ admin' \in [Admins -> AdminState]
        /\ \A b \in Admins : b # a => admin'[b] = admin[b]
        /\ admin'[a].pc # "idle" =>
              admin'[a].op = admin[a].op /\ admin'[a].id = admin[a].id
    BY <1>6, AdminLooksIs
  <2> QED
    BY <2>1
<1>13. ASSUME NEW a \in Admins, AdminFlushes(a) PROVE TypeInv'
  BY <1>13, AdminFlushesIs
<1>7. ASSUME NEW a \in Admins, AdminLists(a) PROVE TypeInv'
  BY <1>7, AdminListsIs
<1>8. ASSUME NEW a \in Admins, NEW s \in Sids, AdminCloses(a, s) PROVE TypeInv'
  <2>1. /\ sess' = [sess EXCEPT ![s].state = "closed"]
        /\ UNCHANGED <<acc, login, spared, crashes>> /\ admin[a].pc = "close"
        /\ admin' \in [Admins -> AdminState]
        /\ \A b \in Admins : b # a => admin'[b] = admin[b]
        /\ admin'[a].pc # "idle" =>
              admin'[a].op = admin[a].op /\ admin'[a].id = admin[a].id
    BY <1>8, AdminClosesIs
  <2> QED
    BY <2>1, SessionMoves
<1>9. ASSUME NEW a \in Admins, AdminDies(a) PROVE TypeInv'
  BY <1>9, AdminDiesIs
<1>10. ASSUME NEW s \in Sids, SessionEnds(s) PROVE TypeInv'
  BY <1>10, SessionMoves DEF SessionEnds
<1>11. CASE Tick
  BY <1>11, TickIs
<1>12. CASE UNCHANGED vars
  BY <1>12 DEF vars
<1> QED
  BY <1>1, <1>2, <1>3, <1>4, <1>5, <1>6, <1>7, <1>8, <1>9, <1>10, <1>11, <1>12, <1>13, NextIs

LEMMA TypesHold == Spec => []TypeInv
BY InitType, TypeStep, PTL DEF Spec

(* Accounts, sessions and slots keep their types, and what is in flight     *)
(* names accounts that can be.                                              *)
THEOREM TypeCorrect == Spec => []TypeOK
BY TypesHold, PTL DEF TypeInv
-----------------------------------------------------------------------------
(* The response.                                                            *)

LEMMA TotalAtMost ==
    \A failed \in Nat, idle \in Idleness : SecurityTotal(failed, idle) \in 0 .. 20
<1> SUFFICES ASSUME NEW failed \in Nat, NEW idle \in Idleness
             PROVE  SecurityTotal(failed, idle) \in 0 .. 20
  OBVIOUS
<1>1. analyzeFailedLoginRisk(failed) \in 0 .. 10
  <2>1. CASE failed >= 10
    <3>1. failed \notin 7 .. 9 /\ failed \notin 5 .. 6 /\ failed \notin 3 .. 4
      BY <2>1
    <3> QED
      BY <2>1, <3>1 DEF analyzeFailedLoginRisk
  <2>2. CASE failed \in 7 .. 9
    <3>1. ~(failed >= 10) /\ failed \notin 5 .. 6 /\ failed \notin 3 .. 4
      BY <2>2
    <3> QED
      BY <2>2, <3>1 DEF analyzeFailedLoginRisk
  <2>3. CASE failed \in 5 .. 6
    <3>1. ~(failed >= 10) /\ failed \notin 7 .. 9 /\ failed \notin 3 .. 4
      BY <2>3
    <3> QED
      BY <2>3, <3>1 DEF analyzeFailedLoginRisk
  <2>4. CASE failed \in 3 .. 4
    <3>1. ~(failed >= 10) /\ failed \notin 7 .. 9 /\ failed \notin 5 .. 6
      BY <2>4
    <3> QED
      BY <2>4, <3>1 DEF analyzeFailedLoginRisk
  <2>5. CASE /\ ~(failed >= 10) /\ failed \notin 7 .. 9
             /\ failed \notin 5 .. 6 /\ failed \notin 3 .. 4
    BY <2>5 DEF analyzeFailedLoginRisk
  <2> QED
    BY <2>1, <2>2, <2>3, <2>4, <2>5
<1>2. analyzeActivityRisk(idle) \in 0 .. 8
  <2>1. /\ analyzeActivityRisk("never") = 3 /\ analyzeActivityRisk("365 days") = 8
        /\ analyzeActivityRisk("90 days") = 6 /\ analyzeActivityRisk("30 days") = 4
        /\ analyzeActivityRisk("recent") = 1
    BY DEF analyzeActivityRisk
  <2>2. \/ idle = "never" \/ idle = "365 days" \/ idle = "90 days"
        \/ idle = "30 days" \/ idle = "recent"
    BY DEF Idleness
  <2> DEFINE n == analyzeActivityRisk(idle)
  <2>3. n = 3 \/ n = 8 \/ n = 6 \/ n = 4 \/ n = 1
    BY <2>1, <2>2
  <2> HIDE DEF n
  <2>4. n \in 0 .. 8
    BY <2>3
  <2> QED
    BY <2>4 DEF n
<1> QED
  BY <1>1, <1>2 DEF SecurityTotal, SecurityEventRisk

(* Whatever the counts and the dates, the response is a lock at most.       *)
THEOREM LocksOnly == Spec => []ResponseOnlyLocks
<1>1. ASSUME NEW f \in 0 .. 10, NEW i \in Idleness PROVE Response(f, i) \in {"none", "lock"}
  <2> DEFINE total == SecurityTotal(f, i)
  <2>1. total \in 0 .. 20
    BY TotalAtMost
  <2> HIDE DEF total
  <2>2. total \in 18 .. 23 \/ total < 18
    BY <2>1
  <2>3. ~(total >= 24)
    BY <2>1
  <2>4. CASE total \in 18 .. 23
    BY <2>3, <2>4 DEF Response, total
  <2>5. CASE total < 18
    <3>1. ~(total \in 18 .. 23)
      BY <2>1, <2>5
    <3> QED
      BY <2>3, <3>1 DEF Response, total
  <2> QED
    BY <2>2, <2>4, <2>5
<1>2. Response(10, "365 days") = "lock" /\ Response(0, "recent") = "none"
  <2>0. 10 \notin 7 .. 9 /\ 10 \notin 5 .. 6 /\ 10 \notin 3 .. 4
    OBVIOUS
  <2>3. 0 \notin 7 .. 9 /\ 0 \notin 5 .. 6 /\ 0 \notin 3 .. 4 /\ ~(0 >= 10)
    OBVIOUS
  <2>4. analyzeFailedLoginRisk(10) = 10
    BY <2>0 DEF analyzeFailedLoginRisk
  <2>5. analyzeFailedLoginRisk(0) = 1
    BY <2>3 DEF analyzeFailedLoginRisk
  <2>1. SecurityTotal(10, "365 days") = 20
    BY <2>4 DEF SecurityTotal, analyzeActivityRisk, SecurityEventRisk
  <2>2. SecurityTotal(0, "recent") = 4
    BY <2>5 DEF SecurityTotal, analyzeActivityRisk, SecurityEventRisk
  <2>6. /\ 20 \in 18 .. 23 /\ ~(20 >= 24)
        /\ 4 \notin 18 .. 23 /\ ~(4 >= 24)
    OBVIOUS
  <2>7. Response(10, "365 days") = "lock"
    BY <2>1, <2>6 DEF Response
  <2>8. Response(0, "recent") = "none"
    BY <2>2, <2>6 DEF Response
  <2> QED
    BY <2>7, <2>8
<1>3. Responses = {"none", "lock"}
  <2>1. /\ Response(10, "365 days") \in Responses /\ Response(0, "recent") \in Responses
    BY DEF Responses, Idleness
  <2>2. Responses \subseteq {"none", "lock"}
    BY <1>1 DEF Responses
  <2> QED
    BY <1>2, <2>1, <2>2
<1>4. ResponseOnlyLocks
  BY <1>3 DEF ResponseOnlyLocks
<1> QED
  BY <1>4, PTL
-----------------------------------------------------------------------------
(* The columns. *)

(* The status changes by a suspension or a reactivation, a lock by a lock,  *)
(* an unlock and time, and no deletion is undone, however outdated the      *)
(* copies of the operations are.                                            *)
THEOREM ColumnsAreKept == Spec => ColumnsKept
<1> DEFINE Kept(id) ==
              acc[id].state # "absent" =>
                LET by(ops) == \E a \in Admins :
                                  /\ admin[a].pc = "flush" /\ admin[a].id = id
                                  /\ admin[a].op \in ops /\ admin'[a] # admin[a]
                IN  /\ acc'[id].status # acc[id].status => by({"suspend", "reactivate"})
                    /\ acc'[id].lock \notin {acc[id].lock, AgedLock(acc[id].lock)}
                          => by({"lock", "unlock"})
                    /\ acc[id].state = "deleted" => acc'[id].state = "deleted"
<1>1. ASSUME TypeInv, [Next]_vars, NEW id \in Ids PROVE Kept(id)
  <2> USE <1>1
  <2>1. ASSUME NEW r \in LoginReqs, NEW j \in Ids, NEW s \in Sids, RegisterCommit(r, j, s)
        PROVE  Kept(id)
    <3>1. acc[j].state = "absent" /\ (id # j => acc'[id] = acc[id])
      BY <2>1, RegisterIs
    <3> QED
      BY <3>1
  <2>2. ASSUME NEW a \in Admins, AdminFlushes(a) PROVE Kept(id)
    <3> DEFINE m == admin[a]
               new == Flushed(acc[m.id], m.copy, m.op)
    <3>1. /\ m.pc = "flush" /\ m.op \in Operations /\ m.id \in Ids
          /\ acc'[m.id] = new /\ (id # m.id => acc'[id] = acc[id])
          /\ admin'[a] # admin[a]
      BY <2>2, AdminFlushesIs
    <3>2. acc[m.id] \in Row
      BY <3>1 DEF TypeInv, TypeOK
    <3>3. /\ new.status # acc[m.id].status => m.op \in {"suspend", "reactivate"}
          /\ new.lock # acc[m.id].lock => m.op \in {"lock", "unlock"}
          /\ acc[m.id].state = "deleted" => new.state = "deleted"
      BY <3>1, <3>2, FlushedType
    <3> HIDE DEF new
    <3> QED
      BY <3>1, <3>3
  <2>3. CASE Tick
    BY <2>3, TickIs
  <2>4. ASSUME UNCHANGED acc PROVE Kept(id)
    BY <2>4
  <2>5. \/ \E r \in LoginReqs, j \in Ids, s \in Sids : RegisterCommit(r, j, s)
        \/ \E a \in Admins : AdminFlushes(a)
        \/ Tick
        \/ UNCHANGED acc
    BY NextIs DEF LoginFinds, LoginCommit, LoginFails, AdminFinds, AdminLooks,
       AdminLists, AdminCloses, AdminDies, SessionEnds, vars
  <2> QED
    BY <2>1, <2>2, <2>3, <2>4, <2>5
<1>2. TypeInv /\ [Next]_vars => [\A id \in Ids : Kept(id)]_vars
  BY <1>1
<1> QED
  BY <1>2, TypesHold, PTL DEF Spec, ColumnsKept
-----------------------------------------------------------------------------
(* The sessions left open. *)

(* Not open, or of an account that is neither suspended nor deleted, or     *)
(* spared, or known to an operation that has yet to terminate it.           *)
Accounted(s) ==
    sess[s].state = "open" =>
        \/ /\ acc[sess[s].acc].state # "deleted"
           /\ acc[sess[s].acc].status # "SUSPENDED"
        \/ s \in spared
        \/ \E a \in Admins : ToClose(a, s)

OpenInv == \A s \in Sids : Accounted(s)

LEMMA InitOpen == Init => OpenInv
BY DEF Init, OpenInv, Accounted, NoSession

(* A slot that was not to close anything starts, or goes on to the sessions.*)
LEMMA SlotMoves ==
    ASSUME UNCHANGED <<acc, sess, spared>>, OpenInv, NEW a \in Admins,
           \A b \in Admins : b # a => admin'[b] = admin[b],
           admin[a].pc \in {"idle", "look"}
    PROVE  OpenInv'
<1>1. ASSUME NEW s \in Sids, NEW b \in Admins, ToClose(b, s) PROVE ToClose(b, s)'
  BY <1>1 DEF ToClose
<1> QED
  BY <1>1 DEF OpenInv, Accounted

LEMMA OpenStep == TypeInv /\ OpenInv /\ [Next]_vars => OpenInv'
<1> SUFFICES ASSUME TypeInv, OpenInv, [Next]_vars PROVE OpenInv'
  OBVIOUS
<1>0. \A s \in Sids : sess[s].state = "open" => sess[s].acc \in Ids
  BY DEF TypeInv, Named
<1>1. ASSUME NEW r \in LoginReqs, NEW s \in Sids, LoginCommit(r, s) PROVE OpenInv'
  <2>1. PICK id \in Ids :
           /\ UNCHANGED <<acc, admin>>
           /\ sess' = [sess EXCEPT ![s] = [acc |-> id, state |-> "open"]]
           /\ spared \subseteq spared'
           /\ (acc[id].state = "live" /\ acc[id].status = "ACTIVE") \/ s \in spared'
    BY <1>1, LoginCommitIs
  <2>2. sess'[s].acc = id /\ \A t \in Sids : t # s => sess'[t] = sess[t]
    BY <2>1, NewSession
  <2>3. Accounted(s)'
    BY <2>1, <2>2 DEF Accounted
  <2>4. ASSUME NEW t \in Sids, t # s PROVE Accounted(t)'
    BY <2>1, <2>2, <2>4 DEF OpenInv, Accounted, ToClose
  <2> QED
    BY <2>3, <2>4 DEF OpenInv
<1>2. ASSUME NEW r \in LoginReqs, NEW id \in Ids, NEW s \in Sids, RegisterCommit(r, id, s)
      PROVE  OpenInv'
  <2>1. /\ sess' = [sess EXCEPT ![s] = [acc |-> id, state |-> "open"]]
        /\ UNCHANGED <<admin, spared>>
    BY <1>2 DEF RegisterCommit
  <2>2. sess'[s].acc = id /\ \A t \in Sids : t # s => sess'[t] = sess[t]
    BY <2>1, NewSession
  <2>3. /\ acc'[id].state = "live" /\ acc'[id].status = "ACTIVE"
        /\ \A j \in Ids : j # id => acc'[j] = acc[j]
    BY <1>2, RegisterIs
  <2>4. Accounted(s)'
    BY <2>2, <2>3 DEF Accounted
  <2>5. ASSUME NEW t \in Sids, t # s PROVE Accounted(t)'
    BY <1>0, <2>1, <2>2, <2>3, <2>5 DEF OpenInv, Accounted, ToClose
  <2> QED
    BY <2>4, <2>5 DEF OpenInv
<1>3. ASSUME NEW a \in Admins, NEW op \in Operations, NEW id \in Ids, AdminFinds(a, op, id)
      PROVE  OpenInv'
  BY <1>3, AdminFindsIs, SlotMoves
<1>11. ASSUME NEW a \in Admins, AdminLooks(a) PROVE OpenInv'
  BY <1>11, AdminLooksIs, SlotMoves
<1>4. ASSUME NEW a \in Admins, AdminFlushes(a) PROVE OpenInv'
  <2> DEFINE m == admin[a]
             new == Flushed(acc[m.id], m.copy, m.op)
  <2>1. /\ UNCHANGED <<sess, spared>> /\ m.pc = "flush" /\ m.op \in Operations /\ m.id \in Ids
        /\ acc'[m.id] = new /\ \A j \in Ids : j # m.id => acc'[j] = acc[j]
        /\ \A b \in Admins : b # a => admin'[b] = admin[b]
        /\ admin'[a].pc = "list" => admin'[a].id = m.id
        /\ m.op \in {"suspend", "delete"} => admin'[a].pc = "list"
    BY <1>4, AdminFlushesIs
  <2>2. acc[m.id] \in Row
    BY <2>1 DEF TypeInv, TypeOK
  <2>3. /\ new.status = "SUSPENDED" => m.op = "suspend" \/ acc[m.id].status = "SUSPENDED"
        /\ new.state = "deleted" => m.op = "delete" \/ acc[m.id].state = "deleted"
    BY <2>1, <2>2, FlushedType
  <2> HIDE DEF new
  <2>4. ASSUME NEW s \in Sids PROVE Accounted(s)'
    <3>1. \A b \in Admins : ToClose(b, s) => ToClose(b, s)'
      BY <2>1 DEF ToClose
    <3>2. CASE sess[s].acc # m.id \/ sess[s].state # "open"
      BY <1>0, <2>1, <3>1, <3>2 DEF OpenInv, Accounted
    <3>3. CASE sess[s].acc = m.id /\ m.op \in {"suspend", "delete"}
      <4>1. ToClose(a, s)'
        BY <2>1, <3>3 DEF ToClose
      <4> QED
        BY <4>1 DEF Accounted
    <3>4. CASE sess[s].acc = m.id /\ m.op \notin {"suspend", "delete"}
      BY <2>1, <2>3, <3>1, <3>4 DEF OpenInv, Accounted
    <3> QED
      BY <3>2, <3>3, <3>4
  <2> QED
    BY <2>4 DEF OpenInv
<1>5. ASSUME NEW a \in Admins, AdminLists(a) PROVE OpenInv'
  <2>1. /\ UNCHANGED <<acc, sess, spared>> /\ admin[a].pc = "list"
        /\ \A b \in Admins : b # a => admin'[b] = admin[b]
        /\ \/ ActiveByUser(admin[a].id) = {}
           \/ /\ admin'[a].pc = "close" /\ admin'[a].id = admin[a].id
              /\ admin'[a].sids = ActiveByUser(admin[a].id)
    BY <1>5, AdminListsIs
  <2>2. ASSUME NEW s \in Sids, sess[s].state = "open", ToClose(a, s) PROVE ToClose(a, s)'
    BY <2>1, <2>2 DEF ToClose, ActiveByUser
  <2>3. ASSUME NEW s \in Sids, NEW b \in Admins, b # a, ToClose(b, s) PROVE ToClose(b, s)'
    BY <2>1, <2>3 DEF ToClose
  <2> QED
    BY <2>1, <2>2, <2>3 DEF OpenInv, Accounted
<1>6. ASSUME NEW a \in Admins, NEW s \in Sids, AdminCloses(a, s) PROVE OpenInv'
  <2>1. /\ UNCHANGED <<acc, spared>> /\ admin[a].pc = "close"
        /\ sess' = [sess EXCEPT ![s].state = "closed"]
        /\ \A b \in Admins : b # a => admin'[b] = admin[b]
        /\ \/ admin[a].sids \subseteq {s}
           \/ /\ admin'[a].pc = "close" /\ admin'[a].id = admin[a].id
              /\ admin'[a].sids = admin[a].sids \ {s}
    BY <1>6, AdminClosesIs
  <2>2. sess'[s].state = "closed" /\ \A t \in Sids : t # s => sess'[t] = sess[t]
    BY <2>1, SessionMoves
  <2>3. Accounted(s)'
    BY <2>2 DEF Accounted
  <2>4. ASSUME NEW t \in Sids, t # s PROVE Accounted(t)'
    <3>1. \A b \in Admins : ToClose(b, t) => ToClose(b, t)'
      BY <2>1, <2>2, <2>4 DEF ToClose
    <3> QED
      BY <2>1, <2>2, <2>4, <3>1 DEF OpenInv, Accounted
  <2> QED
    BY <2>3, <2>4 DEF OpenInv
<1>7. ASSUME NEW a \in Admins, AdminDies(a) PROVE OpenInv'
  <2>1. /\ UNCHANGED <<acc, sess>> /\ spared \subseteq spared'
        /\ admin[a].pc = "list" => ActiveByUser(admin[a].id) \subseteq spared'
        /\ admin[a].pc = "close" => admin[a].sids \subseteq spared'
        /\ \A b \in Admins : b # a => admin'[b] = admin[b]
    BY <1>7, AdminDiesIs
  <2>2. ASSUME NEW s \in Sids, sess[s].state = "open", ToClose(a, s) PROVE s \in spared'
    BY <2>1, <2>2 DEF ToClose, ActiveByUser
  <2>3. ASSUME NEW s \in Sids, NEW b \in Admins, b # a, ToClose(b, s) PROVE ToClose(b, s)'
    BY <2>1, <2>3 DEF ToClose
  <2> QED
    BY <2>1, <2>2, <2>3 DEF OpenInv, Accounted
<1>8. ASSUME NEW s \in Sids, SessionEnds(s) PROVE OpenInv'
  <2>1. sess' = [sess EXCEPT ![s].state = "closed"] /\ UNCHANGED <<acc, admin, spared>>
    BY <1>8 DEF SessionEnds
  <2>2. sess'[s].state = "closed" /\ \A t \in Sids : t # s => sess'[t] = sess[t]
    BY <2>1, SessionMoves
  <2> QED
    BY <2>1, <2>2 DEF OpenInv, Accounted, ToClose
<1>9. CASE Tick
  BY <1>0, <1>9, TickIs DEF OpenInv, Accounted, ToClose
<1>10. ASSUME UNCHANGED <<acc, sess, admin, spared>> PROVE OpenInv'
  BY <1>10 DEF OpenInv, Accounted, ToClose
<1> QED
  BY <1>1, <1>2, <1>3, <1>4, <1>5, <1>6, <1>7, <1>8, <1>9, <1>10, <1>11, NextIs
  DEF LoginFinds, LoginFails, vars

(* A suspension or a deletion leaves open no session but those it could not *)
(* know of and those of an operation that died.                             *)
THEOREM NoneIsLeftOpen == Spec => []NoneLeftOpen
<1>1. TypeInv /\ OpenInv /\ [Next]_vars => OpenInv'
  BY OpenStep
<1>2. OpenInv => NoneLeftOpen
  BY DEF OpenInv, Accounted, NoneLeftOpen
<1> QED
  BY <1>1, <1>2, InitOpen, TypesHold, PTL DEF Spec
-----------------------------------------------------------------------------
(* The accounts of one phone, and the logins about to register it.          *)

FoundIn(f, i) == {id \in Ids : f[id].state = "live" /\ f[id].ident = i}

PendingIn(g, i) == {r \in LoginReqs : g[r].pc = "register" /\ g[r].ident = i}

Slots == Cardinality(LoginReqs)

(* Every account but the first was registered by a login that had found     *)
(* none, and that login has left the count of the pending ones.             *)
Twins(f, g, i) ==
    /\ IsFiniteSet(FoundIn(f, i))
    /\ Cardinality(FoundIn(f, i)) + Cardinality(PendingIn(g, i)) <= Slots

TwinInv == \A i \in Phones : Twins(acc, login, i)

LEMMA PendingFinite ==
    ASSUME NEW g, NEW i
    PROVE  /\ IsFiniteSet(PendingIn(g, i)) /\ Cardinality(PendingIn(g, i)) \in Nat
           /\ Cardinality(PendingIn(g, i)) <= Slots /\ Slots \in Nat
<1>1. PendingIn(g, i) \subseteq LoginReqs /\ IsFiniteSet(LoginReqs)
  BY NamesAssumption DEF PendingIn
<1>2. IsFiniteSet(PendingIn(g, i)) /\ Cardinality(PendingIn(g, i)) <= Cardinality(LoginReqs)
  BY <1>1, FS_Subset
<1> QED
  BY <1>1, <1>2, FS_CardinalityType DEF Slots

(* Fewer accounts and fewer pending logins keep the bound.                  *)
LEMMA TwinsFewer ==
    ASSUME NEW f, NEW g, NEW h, NEW k, NEW i, Twins(f, g, i),
           FoundIn(h, i) \subseteq FoundIn(f, i),
           PendingIn(k, i) \subseteq PendingIn(g, i)
    PROVE  Twins(h, k, i)
<1>1. /\ IsFiniteSet(FoundIn(h, i))
      /\ Cardinality(FoundIn(h, i)) <= Cardinality(FoundIn(f, i))
  BY FS_Subset DEF Twins
<1>2. Cardinality(PendingIn(k, i)) <= Cardinality(PendingIn(g, i))
  BY PendingFinite, FS_Subset
<1>3. /\ Cardinality(FoundIn(h, i)) \in Nat /\ Cardinality(FoundIn(f, i)) \in Nat
      /\ Cardinality(PendingIn(k, i)) \in Nat /\ Cardinality(PendingIn(g, i)) \in Nat
      /\ Slots \in Nat
  BY <1>1, FS_CardinalityType, PendingFinite DEF Twins
<1> QED
  BY <1>1, <1>2, <1>3 DEF Twins

(* A login that has found no account is the only kind that starts counting. *)
LEMMA TwinsNone ==
    ASSUME NEW f, NEW g, NEW i, FoundIn(f, i) = {}
    PROVE  Twins(f, g, i)
<1>1. IsFiniteSet(FoundIn(f, i)) /\ Cardinality(FoundIn(f, i)) = 0
  BY FS_EmptySet
<1> QED
  BY <1>1, PendingFinite DEF Twins

(* A pending login registers its account.                                   *)
LEMMA TwinsMore ==
    ASSUME NEW f, NEW g, NEW h, NEW k, NEW i, Twins(f, g, i),
           NEW id, NEW r \in PendingIn(g, i),
           FoundIn(h, i) = FoundIn(f, i) \cup {id},
           PendingIn(k, i) = PendingIn(g, i) \ {r}
    PROVE  Twins(h, k, i)
<1> DEFINE F == FoundIn(f, i)
           P == PendingIn(g, i)
<1>1. IsFiniteSet(F) /\ IsFiniteSet(P) /\ Cardinality(F) \in Nat /\ Cardinality(P) \in Nat
  BY PendingFinite, FS_CardinalityType DEF Twins
<1>2. Cardinality(F) + Cardinality(P) <= Slots /\ Slots \in Nat
  BY PendingFinite DEF Twins
<1> HIDE DEF F, P
<1>7. /\ IsFiniteSet(F \cup {id})
      /\ Cardinality(F \cup {id}) = IF id \in F THEN Cardinality(F) ELSE Cardinality(F) + 1
  BY <1>1, FS_AddElement
<1>4. /\ IsFiniteSet(F \cup {id}) /\ Cardinality(F \cup {id}) <= Cardinality(F) + 1
      /\ Cardinality(F \cup {id}) \in Nat
  BY <1>1, <1>7
<1>0. r \in P
  BY DEF P
<1>5. Cardinality(P \ {r}) = Cardinality(P) - 1
  BY <1>0, <1>1, FS_RemoveElement
<1>6. Cardinality(F \cup {id}) + Cardinality(P \ {r}) <= Slots
  BY <1>1, <1>2, <1>4, <1>5
<1> QED
  BY <1>4, <1>6 DEF Twins, F, P

LEMMA InitTwins == Init => TwinInv
<1>1. Init => \A i \in Phones : FoundIn(acc, i) = {}
  BY DEF Init, FoundIn, NoRow
<1> QED
  BY <1>1, TwinsNone DEF TwinInv

LEMMA TwinsStep == TypeInv /\ TwinInv /\ [Next]_vars => TwinInv'
<1> SUFFICES ASSUME TypeInv, TwinInv, [Next]_vars, NEW i \in Phones
             PROVE  Twins(acc', login', i)
  BY DEF TwinInv
<1>0. Twins(acc, login, i)
  BY DEF TwinInv
<1>1. ASSUME NEW r \in LoginReqs, NEW j \in Idents, LoginFinds(r, j)
      PROVE  Twins(acc', login', i)
  <2>1. /\ acc' = acc /\ \A q \in LoginReqs : q # r => login'[q] = login[q]
        /\ \/ login'[r].pc = "commit"
           \/ login'[r].pc = "register" /\ login'[r].ident = j /\ Found(j) = {}
    BY <1>1, LoginFindsIs
  <2>2. CASE FoundIn(acc, i) = {}
    BY <2>1, <2>2, TwinsNone
  <2>3. CASE FoundIn(acc, i) # {}
    <3>1. ~(login'[r].pc = "register" /\ login'[r].ident = i)
      BY <2>1, <2>3 DEF Found, FoundIn
    <3>2. PendingIn(login', i) \subseteq PendingIn(login, i)
      BY <2>1, <3>1 DEF PendingIn
    <3>3. FoundIn(acc', i) \subseteq FoundIn(acc, i)
      BY <2>1
    <3> QED
      BY <1>0, <3>2, <3>3, TwinsFewer
  <2> QED
    BY <2>2, <2>3
<1>2. ASSUME NEW r \in LoginReqs, NEW id \in Ids, NEW s \in Sids, RegisterCommit(r, id, s)
      PROVE  Twins(acc', login', i)
  <2>1. /\ login[r].pc = "register" /\ ~KeyRefuses(login[r].ident)
        /\ acc[id].state = "absent"
        /\ acc'[id].state = "live" /\ acc'[id].ident = login[r].ident
        /\ \A j \in Ids : j # id => acc'[j] = acc[j]
    BY <1>2, RegisterIs
  <2>2. login'[r].pc = "idle" /\ \A q \in LoginReqs : q # r => login'[q] = login[q]
    BY <1>2, LoginLeaves DEF RegisterCommit
  <2>3. CASE login[r].ident = i
    <3>1. r \in PendingIn(login, i)
      BY <2>1, <2>3 DEF PendingIn
    <3>2. PendingIn(login', i) = PendingIn(login, i) \ {r}
      BY <2>2 DEF PendingIn
    <3>3. FoundIn(acc', i) = FoundIn(acc, i) \cup {id}
      BY <2>1, <2>3 DEF FoundIn
    <3> QED
      BY <1>0, <3>1, <3>2, <3>3, TwinsMore
  <2>4. CASE login[r].ident # i
    <3>1. PendingIn(login', i) \subseteq PendingIn(login, i)
      BY <2>2 DEF PendingIn
    <3>2. FoundIn(acc', i) \subseteq FoundIn(acc, i)
      BY <2>1, <2>4 DEF FoundIn
    <3> QED
      BY <1>0, <3>1, <3>2, TwinsFewer
  <2> QED
    BY <2>3, <2>4
<1>3. ASSUME NEW a \in Admins, AdminFlushes(a) PROVE Twins(acc', login', i)
  <2> DEFINE m == admin[a]
             new == Flushed(acc[m.id], m.copy, m.op)
  <2>1. /\ UNCHANGED login /\ m.op \in Operations /\ m.id \in Ids
        /\ acc'[m.id] = new /\ \A j \in Ids : j # m.id => acc'[j] = acc[j]
    BY <1>3, AdminFlushesIs
  <2>2. acc[m.id] \in Row
    BY <2>1 DEF TypeInv, TypeOK
  <2>3. new.state = "live" => acc[m.id].state = "live" /\ new.ident = acc[m.id].ident
    BY <2>1, <2>2, FlushedType
  <2> HIDE DEF new
  <2>4. FoundIn(acc', i) \subseteq FoundIn(acc, i)
    BY <2>1, <2>3 DEF FoundIn
  <2>5. PendingIn(login', i) \subseteq PendingIn(login, i)
    BY <2>1
  <2> QED
    BY <1>0, <2>4, <2>5, TwinsFewer
<1>4. CASE Tick
  <2>1. FoundIn(acc', i) \subseteq FoundIn(acc, i)
    BY <1>4, TickIs DEF FoundIn
  <2>2. PendingIn(login', i) \subseteq PendingIn(login, i)
    BY <1>4, TickIs
  <2> QED
    BY <1>0, <2>1, <2>2, TwinsFewer
<1>5. ASSUME NEW r \in LoginReqs, login' = [login EXCEPT ![r] = IdleLogin], UNCHANGED acc
      PROVE  Twins(acc', login', i)
  <2>1. PendingIn(login', i) \subseteq PendingIn(login, i)
    BY <1>5, LoginLeaves DEF PendingIn
  <2>2. FoundIn(acc', i) \subseteq FoundIn(acc, i)
    BY <1>5
  <2> QED
    BY <1>0, <2>1, <2>2, TwinsFewer
<1>6. ASSUME UNCHANGED <<acc, login>> PROVE Twins(acc', login', i)
  BY <1>0, <1>6
<1>7. \/ \E r \in LoginReqs, j \in Idents : LoginFinds(r, j)
      \/ \E r \in LoginReqs, id \in Ids, s \in Sids : RegisterCommit(r, id, s)
      \/ \E a \in Admins : AdminFlushes(a)
      \/ Tick
      \/ \E r \in LoginReqs : login' = [login EXCEPT ![r] = IdleLogin] /\ UNCHANGED acc
      \/ UNCHANGED <<acc, login>>
  BY NextIs DEF LoginCommit, LoginFails, AdminFinds, AdminLooks, AdminLists, AdminCloses,
     AdminDies, SessionEnds, vars
<1> QED
  BY <1>1, <1>2, <1>3, <1>4, <1>5, <1>6, <1>7

(* A phone names as many accounts at most as there are logins at a time:    *)
(* twins come from first logins that overlap, and do not add up.            *)
THEOREM TwinsAreBounded == Spec => []TwinsBounded
<1>1. TypeInv /\ TwinInv /\ [Next]_vars => TwinInv'
  BY TwinsStep
<1>2. TwinInv => TwinsBounded
  <2> SUFFICES ASSUME TwinInv, NEW i \in Phones
               PROVE  Cardinality(Found(i)) <= Cardinality(LoginReqs)
    BY DEF TwinsBounded
  <2>1. Found(i) = FoundIn(acc, i) /\ Twins(acc, login, i)
    BY DEF Found, FoundIn, TwinInv
  <2>2. Cardinality(FoundIn(acc, i)) \in Nat /\ Cardinality(PendingIn(login, i)) \in Nat
    BY <2>1, FS_CardinalityType, PendingFinite DEF Twins
  <2>3. Slots \in Nat
    BY PendingFinite
  <2> QED
    BY <2>1, <2>2, <2>3 DEF Twins, Slots
<1> QED
  BY <1>1, <1>2, InitTwins, TypesHold, PTL DEF Spec
=============================================================================
