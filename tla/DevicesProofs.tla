---------------------------- MODULE DevicesProofs ----------------------------
(* Safety of Devices, for any users, clients, slots and waiting times.      *)
EXTENDS DevicesRefinement, FiniteSetTheorems, TLAPS

-----------------------------------------------------------------------------
(* The values that rows and copies take. *)

LEMMA AgesAre ==
    0 \in Ages /\ \A n \in Ages : n \in Nat /\ (n <= Cooldown => n + 1 \in Ages)
BY WaitAssumption DEF Ages

LEMMA ReasonsAre == "none" \in Reasons /\ "Manual logout" \in Reasons
BY DEF Reasons

LEMMA NoRowType == NoRow \in Row
BY AgesAre, ReasonsAre DEF NoRow, Row

LEMMA AgedType ==
    ASSUME NEW row \in Row
    PROVE  /\ Aged(row) \in Row
           /\ Aged(row).user = row.user /\ Aged(row).state = row.state
           /\ Aged(row).blockReason = row.blockReason /\ Aged(row).trust = row.trust
           /\ row.blockedFor > Cooldown => Aged(row).blockedFor > Cooldown
<1>1. CASE row.state = "blocked" /\ row.blockedFor <= Cooldown
  <2> DEFINE n == row.blockedFor + 1
  <2>1. n \in Ages /\ Aged(row) = [row EXCEPT !.blockedFor = n]
    BY <1>1, AgesAre DEF Aged, Row
  <2>2. ~(row.blockedFor > Cooldown)
    BY <1>1, AgesAre, WaitAssumption DEF Row
  <2> HIDE DEF n
  <2> QED
    BY <2>1, <2>2 DEF Row
<1>2. CASE ~(row.state = "blocked" /\ row.blockedFor <= Cooldown)
  BY <1>2 DEF Aged
<1> QED
  BY <1>1, <1>2

LEMMA FlushedType ==
    ASSUME NEW row \in Row, NEW copy \in Row, NEW new \in Row, NEW dated \in BOOLEAN
    PROVE  Flushed(row, copy, new, dated) \in Row
BY DEF Flushed, Column, Row

LEMMA BlockedType ==
    ASSUME NEW row \in Row
    PROVE  /\ Blocked(row) \in Row
           /\ Blocked(row).user = row.user /\ Blocked(row).state = "blocked"
           /\ Blocked(row).blockReason = "Manual logout"
           /\ Blocked(row).trust = "untrusted"
BY AgesAre, ReasonsAre DEF Blocked, Row

LEMMA TrustType ==
    ASSUME NEW row \in Row, NEW trust \in {"trusted", "untrusted"},
           NEW new, new = [row EXCEPT !.trust = trust]
    PROVE  /\ new \in Row /\ new.user = row.user /\ new.state = row.state
           /\ new.blockReason = row.blockReason /\ new.trust = trust
BY DEF Row

(* What a device that belongs to another may have been, and what it becomes.*)
Passes(copy, new) ==
    \/ new.user = copy.user
    \/ copy.state = "absent"
    \/ /\ copy.state = "blocked" /\ copy.blockedFor > Cooldown
       /\ new.state = "active" /\ new.trust = "untrusted"

(* A row no request has written from an outdated copy. *)
Sound(row) ==
    /\ row.trust = "trusted" => row.state = "active"
    /\ row.state = "blocked" => row.blockReason = "Manual logout"

LEMMA NewRowType ==
    ASSUME NEW row \in Row, NEW u \in Users, Admitted(row, u)
    PROVE  /\ NewRow(row, u) \in Row
           /\ NewRow(row, u).state = "active"
           /\ Passes(row, NewRow(row, u))
<1> USE DEF Row, Passes
<1>1. CASE row.state = "absent"
  <2>1. NewRow(row, u) = Created(u)
    BY <1>1 DEF NewRow
  <2> QED
    BY <2>1, <1>1, AgesAre, ReasonsAre DEF Created, NoRow
<1>2. CASE row.state # "absent" /\ row.user # u
  <2>1. NewRow(row, u) = Transferred(row, u)
    BY <1>2 DEF NewRow
  <2>2. row.state = "blocked" /\ row.blockedFor > Cooldown
    BY <1>2 DEF Admitted, MayTransfer
  <2> QED
    BY <2>1, <2>2, AgesAre, ReasonsAre DEF Transferred
<1>3. CASE row.state = "active" /\ row.user = u
  <2>1. NewRow(row, u) = row
    BY <1>3 DEF NewRow
  <2> QED
    BY <2>1, <1>3
<1>4. CASE row.state = "blocked" /\ row.user = u
  <2> DEFINE trust == IF row.blockReason = "Manual logout"
                      THEN "trusted" ELSE "untrusted"
  <2>1. NewRow(row, u) = Reactivated(row, trust)
    BY <1>4 DEF NewRow
  <2>2. trust \in {"trusted", "untrusted"}
    OBVIOUS
  <2> HIDE DEF trust
  <2> QED
    BY <2>1, <2>2, <1>4, AgesAre, ReasonsAre DEF Reactivated
<1> QED
  BY <1>1, <1>2, <1>3, <1>4

(* A write from a copy that is not outdated leaves the row it intended. *)
LEMMA FlushedSound ==
    ASSUME NEW row \in Row, NEW new \in Row, NEW dated \in BOOLEAN,
           NEW flushed, flushed = Flushed(row, row, new, dated)
    PROVE  /\ flushed.user = new.user /\ flushed.state = new.state
           /\ flushed.blockReason = new.blockReason /\ flushed.trust = new.trust
BY DEF Flushed, Column, Row
-----------------------------------------------------------------------------
(* Types. *)

(* A request in flight names a device. *)
Named ==
    /\ \A r \in LoginReqs : login[r].pc # "idle" => login[r].print \in Prints
    /\ \A q \in Reqs : req[q].pc # "idle" => req[q].print \in Prints

TypeInv == TypeOK /\ Named

LEMMA InitType == Init => TypeInv
BY NoRowType DEF Init, TypeInv, TypeOK, Named, LoginState, IdleLogin, ReqState, IdleReq

LEMMA WriteType ==
    ASSUME TypeOK, NEW p \in Prints, NEW copy \in Row, NEW new \in Row,
           NEW dated \in BOOLEAN, Write(p, copy, new, dated)
    PROVE  dev' \in [Prints -> Row] /\ stale' \subseteq Prints /\ stale \subseteq stale'
<1>1. Flushed(dev[p], copy, new, dated) \in Row
  BY FlushedType DEF TypeOK
<1> QED
  BY <1>1 DEF Write, TypeOK

LEMMA LoginType ==
    ASSUME TypeInv, NEW r \in LoginReqs, NEW l \in LoginState,
           l.pc # "idle" => l.print \in Prints,
           login' = [login EXCEPT ![r] = l], UNCHANGED <<dev, req, stale>>
    PROVE  TypeInv'
BY DEF TypeInv, TypeOK, Named

LEMMA ReqType ==
    ASSUME TypeInv, NEW q \in Reqs, NEW m \in ReqState,
           m.pc # "idle" => m.print \in Prints,
           req' = [req EXCEPT ![q] = m], UNCHANGED <<dev, login, stale>>
    PROVE  TypeInv'
BY DEF TypeInv, TypeOK, Named

LEMMA IdleTypes ==
    /\ IdleLogin \in LoginState /\ IdleLogin.pc = "idle"
    /\ IdleReq \in ReqState /\ IdleReq.pc = "idle"
BY NoRowType DEF IdleLogin, LoginState, IdleReq, ReqState

LEMMA PrintOfClient == \A c \in Clients : createPrimaryFingerprint(c) \in Prints
BY DEF Prints

LEMMA TypeStep == TypeInv /\ [Next]_vars => TypeInv'
<1> SUFFICES ASSUME TypeInv, [Next]_vars PROVE TypeInv'
  OBVIOUS
<1> USE DEF TypeInv, TypeOK
<1>1. ASSUME NEW r \in LoginReqs, NEW c \in Clients, LoginFindsActive(r, c)
      PROVE  TypeInv'
  <2> DEFINE p == createPrimaryFingerprint(c)
             own == dev[p].state = "active" /\ dev[p].user = Caller[r]
             row == IF own THEN dev[p] ELSE NoRow
             l == [pc |-> IF own THEN "commit" ELSE "any", print |-> p,
                   copy |-> row, new |-> row]
  <2>1. p \in Prints
    BY PrintOfClient
  <2>2. row \in Row
    BY <2>1, NoRowType
  <2>3. login' = [login EXCEPT ![r] = l] /\ UNCHANGED <<dev, req, stale>>
    BY <1>1 DEF LoginFindsActive
  <2>4. l \in LoginState /\ l.print \in Prints
    BY <2>1, <2>2 DEF LoginState
  <2> HIDE DEF l
  <2> QED
    BY <2>3, <2>4, LoginType
<1>2. ASSUME NEW r \in LoginReqs, LoginFindsAny(r) PROVE TypeInv'
  <2> DEFINE row == dev[login[r].print]
             l == IF Admitted(row, Caller[r])
                  THEN [login[r] EXCEPT !.pc = "commit", !.copy = row,
                                        !.new = NewRow(row, Caller[r])]
                  ELSE [login[r] EXCEPT !.pc = "refused", !.copy = row]
  <2>1. login[r].print \in Prints /\ row \in Row /\ Caller[r] \in Users
    BY <1>2, UsersAssumption DEF LoginFindsAny, Named
  <2>2. login' = [login EXCEPT ![r] = l] /\ UNCHANGED <<dev, req, stale>>
    BY <1>2 DEF LoginFindsAny
  <2>3. l \in LoginState /\ l.print \in Prints
    BY <2>1, NewRowType DEF LoginState
  <2> HIDE DEF l
  <2> QED
    BY <2>2, <2>3, LoginType
<1>3. ASSUME NEW r \in LoginReqs, LoginCommit(r) PROVE TypeInv'
  <2>1. /\ login[r].print \in Prints /\ login[r].copy \in Row /\ login[r].new \in Row
        /\ Write(login[r].print, login[r].copy, login[r].new, FALSE)
        /\ login' = [login EXCEPT ![r] = IdleLogin] /\ UNCHANGED req
    BY <1>3 DEF LoginCommit, LoginState, Named
  <2>2. dev' \in [Prints -> Row] /\ stale' \subseteq Prints
    BY <2>1, WriteType
  <2> QED
    BY <2>1, <2>2, IdleTypes DEF Named
<1>4. ASSUME NEW r \in LoginReqs, LoginFails(r) PROVE TypeInv'
  BY <1>4, IdleTypes, LoginType DEF LoginFails
<1>5. ASSUME NEW q \in Reqs, NEW p \in Prints, LogoutFinds(q, p) PROVE TypeInv'
  <2> DEFINE m == [pc |-> "block", print |-> p, copy |-> dev[p], new |-> Blocked(dev[p])]
  <2>1. m \in ReqState /\ m.print \in Prints
    BY BlockedType DEF ReqState
  <2>2. req' = [req EXCEPT ![q] = m] /\ UNCHANGED <<dev, login, stale>>
    BY <1>5 DEF LogoutFinds
  <2> HIDE DEF m
  <2> QED
    BY <2>1, <2>2, ReqType
<1>6. ASSUME NEW q \in Reqs, NEW p \in Prints, NEW u \in Users,
             TrustFinds(q, p, u) \/ UntrustFinds(q, p, u)
      PROVE  TypeInv'
  <2>1. PICK trust \in {"trusted", "untrusted"} :
           /\ req' = [req EXCEPT ![q] = [pc |-> "write", print |-> p, copy |-> dev[p],
                                         new |-> [dev[p] EXCEPT !.trust = trust]]]
           /\ UNCHANGED <<dev, login, stale>>
    BY <1>6 DEF TrustFinds, UntrustFinds
  <2> DEFINE m == [pc |-> "write", print |-> p, copy |-> dev[p],
                   new |-> [dev[p] EXCEPT !.trust = trust]]
  <2>2. m \in ReqState /\ m.print \in Prints
    BY TrustType DEF ReqState
  <2>3. req' = [req EXCEPT ![q] = m] /\ UNCHANGED <<dev, login, stale>>
    BY <2>1
  <2> HIDE DEF m
  <2> QED
    BY <2>2, <2>3, ReqType
<1>7. ASSUME NEW q \in Reqs, ReqWrites(q) PROVE TypeInv'
  <2>1. /\ req[q].print \in Prints /\ req[q].copy \in Row /\ req[q].new \in Row
        /\ Write(req[q].print, req[q].copy, req[q].new, req[q].pc = "block")
        /\ req' = [req EXCEPT ![q] = IdleReq] /\ UNCHANGED login
    BY <1>7 DEF ReqWrites, ReqState, Named
  <2>2. dev' \in [Prints -> Row] /\ stale' \subseteq Prints
    BY <2>1, WriteType
  <2> QED
    BY <2>1, <2>2, IdleTypes DEF Named
<1>8. ASSUME NEW q \in Reqs, ReqDies(q) PROVE TypeInv'
  BY <1>8, IdleTypes, ReqType DEF ReqDies
<1>9. CASE Tick
  <2>1. \A p \in Prints : Aged(dev[p]) \in Row
    BY AgedType
  <2>2. \A r \in LoginReqs :
           LET l == [login[r] EXCEPT !.copy = Aged(@), !.new = Aged(@)]
           IN  l \in LoginState /\ l.pc = login[r].pc /\ l.print = login[r].print
    BY AgedType DEF LoginState
  <2>3. \A q \in Reqs :
           LET m == [req[q] EXCEPT !.copy = Aged(@), !.new = Aged(@)]
           IN  m \in ReqState /\ m.pc = req[q].pc /\ m.print = req[q].print
    BY AgedType DEF ReqState
  <2>4. TypeOK'
    BY <1>9, <2>1, <2>2, <2>3 DEF Tick
  <2>5. /\ \A r \in LoginReqs :
              login'[r].pc = login[r].pc /\ login'[r].print = login[r].print
        /\ \A q \in Reqs : req'[q].pc = req[q].pc /\ req'[q].print = req[q].print
    BY <1>9, <2>2, <2>3 DEF Tick
  <2> QED
    BY <2>4, <2>5 DEF Named
<1>10. CASE UNCHANGED vars
  BY <1>10 DEF vars, Named
<1> QED
  BY <1>1, <1>2, <1>3, <1>4, <1>5, <1>6, <1>7, <1>8, <1>9, <1>10
  DEF Next, LoginStep, ReqFinds

(* Rows and requests keep the types of their columns, and a request in      *)
(* flight names a device of the table.                                      *)
THEOREM TypeCorrect == Spec => []TypeOK
<1>1. Spec => []TypeInv
  BY InitType, TypeStep, PTL DEF Spec
<1> QED
  BY <1>1, PTL DEF TypeInv
-----------------------------------------------------------------------------
(* What the requests in flight are about to write.  A login leaves a device *)
(* active; one that is refused its own device met a row that lost its       *)
(* reason.                                                                  *)
RowsSound == \A p \in Prints : p \notin stale => Sound(dev[p])

LoginGood(r) ==
    /\ login[r].pc = "commit" =>
          login[r].new.state = "active" /\ Passes(login[r].copy, login[r].new)
    /\ login[r].pc = "refused" /\ login[r].copy.user = Caller[r]
          => login[r].print \in stale

ReqGood(q) ==
    req[q].pc # "idle" =>
        /\ req[q].new.user = req[q].copy.user
        /\ req[q].print \notin stale => Sound(req[q].new)

Good ==
    /\ RowsSound
    /\ \A r \in LoginReqs : LoginGood(r)
    /\ \A q \in Reqs : ReqGood(q)

Inv == TypeInv /\ Good

LEMMA InitGood == Init => Good
<1>1. Sound(NoRow)
  BY DEF Sound, NoRow
<1> QED
  BY <1>1, IdleTypes DEF Init, Good, RowsSound, LoginGood, ReqGood

(* The only row a write changes; unless the copy was outdated, it becomes   *)
(* the row the request intended.                                            *)
LEMMA WriteSound ==
    ASSUME TypeOK, RowsSound, NEW p \in Prints, NEW copy \in Row, NEW new \in Row,
           NEW dated \in BOOLEAN, Write(p, copy, new, dated),
           p \notin stale => Sound(new)
    PROVE  /\ RowsSound' /\ stale \subseteq stale'
           /\ \A o \in Prints : o # p => dev'[o] = dev[o]
           /\ p \notin stale' =>
                 /\ dev[p] = copy /\ dev'[p].user = new.user
                 /\ dev'[p].state = new.state /\ dev'[p].trust = new.trust
<1> DEFINE flushed == Flushed(dev[p], copy, new, dated)
<1>1. /\ dev' = [dev EXCEPT ![p] = flushed] /\ dev \in [Prints -> Row]
      /\ stale' = IF dev[p] = copy THEN stale ELSE stale \cup {p}
  BY DEF Write, TypeOK
<1>2. dev[p] = copy =>
         /\ flushed.user = new.user /\ flushed.state = new.state
         /\ flushed.blockReason = new.blockReason /\ flushed.trust = new.trust
  <2> SUFFICES ASSUME dev[p] = copy
               PROVE  /\ flushed.user = new.user /\ flushed.state = new.state
                      /\ flushed.blockReason = new.blockReason
                      /\ flushed.trust = new.trust
    OBVIOUS
  <2>1. flushed = Flushed(copy, copy, new, dated)
    OBVIOUS
  <2> HIDE DEF flushed
  <2> QED
    BY <2>1, FlushedSound
<1> HIDE DEF flushed
<1>3. dev'[p] = flushed /\ \A o \in Prints : o # p => dev'[o] = dev[o]
  BY <1>1
<1>4. stale \subseteq stale' /\ (p \notin stale' => dev[p] = copy /\ p \notin stale)
  BY <1>1
<1>5. p \notin stale' => Sound(dev'[p])
  BY <1>2, <1>3, <1>4 DEF Sound
<1>6. \A o \in Prints : o \notin stale' => Sound(dev'[o])
  BY <1>3, <1>4, <1>5 DEF RowsSound
<1> QED
  BY <1>2, <1>3, <1>4, <1>6 DEF RowsSound

LEMMA LoginGoodStep ==
    ASSUME Inv, NEW r \in LoginReqs, NEW l,
           l.pc = "commit" => l.new.state = "active" /\ Passes(l.copy, l.new),
           l.pc = "refused" /\ l.copy.user = Caller[r] => l.print \in stale,
           login' = [login EXCEPT ![r] = l], UNCHANGED <<dev, req, stale>>
    PROVE  Good'
<1>1. \A s \in LoginReqs : login'[s] = IF s = r THEN l ELSE login[s]
  BY DEF Inv, TypeInv, TypeOK
<1> QED
  BY <1>1 DEF Inv, Good, RowsSound, LoginGood, ReqGood

LEMMA ReqGoodStep ==
    ASSUME Inv, NEW q \in Reqs, NEW m,
           m.pc # "idle" => /\ m.new.user = m.copy.user
                            /\ m.print \notin stale => Sound(m.new),
           req' = [req EXCEPT ![q] = m], UNCHANGED <<dev, login, stale>>
    PROVE  Good'
<1>1. \A s \in Reqs : req'[s] = IF s = q THEN m ELSE req[s]
  BY DEF Inv, TypeInv, TypeOK
<1> QED
  BY <1>1 DEF Inv, Good, RowsSound, LoginGood, ReqGood

(* What a commit and a write of a request have in common.                   *)
LEMMA CommitWrites ==
    ASSUME Inv, NEW r \in LoginReqs, LoginCommit(r)
    PROVE  LET l == login[r]
           IN  /\ l.print \in Prints /\ l.copy \in Row /\ l.new \in Row
               /\ Write(l.print, l.copy, l.new, FALSE)
               /\ l.new.state = "active" /\ Passes(l.copy, l.new)
               /\ Sound(l.new)
               /\ login' = [login EXCEPT ![r] = IdleLogin] /\ UNCHANGED req
BY DEF Inv, TypeInv, TypeOK, Named, Good, LoginGood, LoginCommit, LoginState, Sound

LEMMA ReqWriteIs ==
    ASSUME Inv, NEW q \in Reqs, ReqWrites(q)
    PROVE  LET m == req[q]
           IN  /\ m.print \in Prints /\ m.copy \in Row /\ m.new \in Row
               /\ Write(m.print, m.copy, m.new, m.pc = "block")
               /\ m.new.user = m.copy.user
               /\ m.print \notin stale => Sound(m.new)
               /\ req' = [req EXCEPT ![q] = IdleReq] /\ UNCHANGED login
BY DEF Inv, TypeInv, TypeOK, Named, Good, ReqGood, ReqWrites, ReqState

LEMMA GoodStep == Inv /\ [Next]_vars => Good'
<1> SUFFICES ASSUME Inv, [Next]_vars PROVE Good'
  OBVIOUS
<1> USE DEF Inv, TypeInv, TypeOK
<1>1. ASSUME NEW r \in LoginReqs, NEW c \in Clients, LoginFindsActive(r, c)
      PROVE  Good'
  <2> DEFINE p == createPrimaryFingerprint(c)
             own == dev[p].state = "active" /\ dev[p].user = Caller[r]
             row == IF own THEN dev[p] ELSE NoRow
             l == [pc |-> IF own THEN "commit" ELSE "any", print |-> p,
                   copy |-> row, new |-> row]
  <2>1. login' = [login EXCEPT ![r] = l] /\ UNCHANGED <<dev, req, stale>>
    BY <1>1 DEF LoginFindsActive
  <2>2. /\ l.pc = "commit" => l.new.state = "active" /\ Passes(l.copy, l.new)
        /\ l.pc # "refused"
    BY DEF Passes
  <2> HIDE DEF l
  <2> QED
    BY <2>1, <2>2, LoginGoodStep
<1>2. ASSUME NEW r \in LoginReqs, LoginFindsAny(r) PROVE Good'
  <2> DEFINE row == dev[login[r].print]
             new == NewRow(row, Caller[r])
             yes == [login[r] EXCEPT !.pc = "commit", !.copy = row, !.new = new]
             no == [login[r] EXCEPT !.pc = "refused", !.copy = row]
             l == IF Admitted(row, Caller[r]) THEN yes ELSE no
  <2>1. /\ login[r] \in LoginState /\ login[r].print \in Prints /\ row \in Row
        /\ Caller[r] \in Users /\ Caller[r] # None
    BY <1>2, UsersAssumption DEF LoginFindsAny, Named
  <2>2. login' = [login EXCEPT ![r] = l] /\ UNCHANGED <<dev, req, stale>>
    BY <1>2 DEF LoginFindsAny
  <2>3. /\ yes.pc = "commit" /\ yes.copy = row /\ yes.new = new
        /\ no.pc = "refused" /\ no.copy = row /\ no.print = login[r].print
    BY <2>1 DEF LoginState
  <2>4. Admitted(row, Caller[r]) => new.state = "active" /\ Passes(row, new)
    BY <2>1, NewRowType
  <2>5. ~Admitted(row, Caller[r]) /\ row.user = Caller[r] => login[r].print \in stale
    BY <2>1 DEF Good, RowsSound, Sound, Admitted, MayReactivate, Row
  <2> HIDE DEF row, new, yes, no
  <2>6. /\ l.pc = "commit" => l.new.state = "active" /\ Passes(l.copy, l.new)
        /\ l.pc = "refused" /\ l.copy.user = Caller[r] => l.print \in stale
    BY <2>3, <2>4, <2>5
  <2> HIDE DEF l
  <2> QED
    BY <2>2, <2>6, LoginGoodStep
<1>3. ASSUME NEW r \in LoginReqs, LoginCommit(r) PROVE Good'
  <2>1. /\ RowsSound' /\ stale \subseteq stale'
        /\ login' = [login EXCEPT ![r] = IdleLogin] /\ UNCHANGED req
    BY <1>3, CommitWrites, WriteSound DEF Good
  <2>2. \A s \in LoginReqs : login'[s] = IF s = r THEN IdleLogin ELSE login[s]
    BY <2>1
  <2> QED
    BY <2>1, <2>2, IdleTypes DEF Good, LoginGood, ReqGood
<1>4. ASSUME NEW r \in LoginReqs, LoginFails(r) PROVE Good'
  BY <1>4, IdleTypes, LoginGoodStep DEF LoginFails
<1>5. ASSUME NEW q \in Reqs, NEW p \in Prints, LogoutFinds(q, p) PROVE Good'
  <2> DEFINE m == [pc |-> "block", print |-> p, copy |-> dev[p], new |-> Blocked(dev[p])]
  <2>1. m.new.user = m.copy.user /\ Sound(m.new)
    BY BlockedType DEF Sound
  <2>2. req' = [req EXCEPT ![q] = m] /\ UNCHANGED <<dev, login, stale>>
    BY <1>5 DEF LogoutFinds
  <2> HIDE DEF m
  <2> QED
    BY <2>1, <2>2, ReqGoodStep
<1>6. ASSUME NEW q \in Reqs, NEW p \in Prints, NEW u \in Users,
             TrustFinds(q, p, u) \/ UntrustFinds(q, p, u)
      PROVE  Good'
  <2>1. PICK trust \in {"trusted", "untrusted"} :
           /\ trust = "trusted" => dev[p].state = "active"
           /\ req' = [req EXCEPT ![q] = [pc |-> "write", print |-> p, copy |-> dev[p],
                                         new |-> [dev[p] EXCEPT !.trust = trust]]]
           /\ UNCHANGED <<dev, login, stale>>
    BY <1>6 DEF TrustFinds, UntrustFinds, MayTrust
  <2> DEFINE m == [pc |-> "write", print |-> p, copy |-> dev[p],
                   new |-> [dev[p] EXCEPT !.trust = trust]]
  <2> DEFINE new == [dev[p] EXCEPT !.trust = trust]
  <2>4. /\ dev[p] \in Row /\ (p \notin stale => Sound(dev[p]))
        /\ new.user = dev[p].user /\ new.state = dev[p].state
        /\ new.blockReason = dev[p].blockReason /\ new.trust = trust
    BY TrustType DEF Good, RowsSound
  <2> HIDE DEF new
  <2>5. p \notin stale => Sound(new)
    BY <2>1, <2>4 DEF Sound
  <2>2. /\ m.new.user = m.copy.user
        /\ m.print \notin stale => Sound(m.new)
    BY <2>4, <2>5 DEF new
  <2>3. req' = [req EXCEPT ![q] = m] /\ UNCHANGED <<dev, login, stale>>
    BY <2>1
  <2> HIDE DEF m
  <2> QED
    BY <2>2, <2>3, ReqGoodStep
<1>7. ASSUME NEW q \in Reqs, ReqWrites(q) PROVE Good'
  <2>1. /\ RowsSound' /\ stale \subseteq stale'
        /\ req' = [req EXCEPT ![q] = IdleReq] /\ UNCHANGED login
    BY <1>7, ReqWriteIs, WriteSound DEF Good
  <2>2. \A s \in Reqs : req'[s] = IF s = q THEN IdleReq ELSE req[s]
    BY <2>1
  <2> QED
    BY <2>1, <2>2, IdleTypes DEF Good, LoginGood, ReqGood
<1>8. ASSUME NEW q \in Reqs, ReqDies(q) PROVE Good'
  BY <1>8, IdleTypes, ReqGoodStep DEF ReqDies
<1>9. CASE Tick
  <2>1. \A p \in Prints : Sound(dev[p]) => Sound(Aged(dev[p]))
    BY AgedType DEF Sound
  <2>2. \A r \in LoginReqs :
           LET l == login'[r]
           IN  /\ l.pc = login[r].pc /\ l.print = login[r].print
               /\ l.copy = Aged(login[r].copy) /\ l.new = Aged(login[r].new)
               /\ login[r].copy \in Row /\ login[r].new \in Row
    BY <1>9 DEF Tick, LoginState
  <2>3. \A q \in Reqs :
           LET m == req'[q]
           IN  /\ m.pc = req[q].pc /\ m.print = req[q].print
               /\ m.copy = Aged(req[q].copy) /\ m.new = Aged(req[q].new)
               /\ req[q].copy \in Row /\ req[q].new \in Row
    BY <1>9 DEF Tick, ReqState
  <2>4. RowsSound'
    BY <1>9, <2>1 DEF Tick, Good, RowsSound
  <2>5. ASSUME NEW r \in LoginReqs PROVE LoginGood(r)'
    <3>1. /\ login'[r].pc = login[r].pc /\ login'[r].print = login[r].print
          /\ login'[r].copy.user = login[r].copy.user
          /\ login'[r].new.state = login[r].new.state /\ stale' = stale
      BY <1>9, <2>2, AgedType DEF Tick
    <3>2. Passes(login[r].copy, login[r].new) => Passes(login'[r].copy, login'[r].new)
      BY <2>2, AgedType DEF Passes
    <3> QED
      BY <3>1, <3>2 DEF Good, LoginGood
  <2>6. ASSUME NEW q \in Reqs PROVE ReqGood(q)'
    <3>1. /\ req'[q].pc = req[q].pc /\ req'[q].print = req[q].print
          /\ req'[q].copy.user = req[q].copy.user
          /\ req'[q].new.user = req[q].new.user /\ stale' = stale
      BY <1>9, <2>3, AgedType DEF Tick
    <3>2. Sound(req[q].new) => Sound(req'[q].new)
      <4> DEFINE new == req[q].new
      <4>1. new \in Row /\ req'[q].new = Aged(new)
        BY <2>3
      <4> HIDE DEF new
      <4>2. Sound(new) => Sound(Aged(new))
        BY <4>1, AgedType DEF Sound
      <4> QED
        BY <4>1, <4>2 DEF new
    <3> QED
      BY <3>1, <3>2 DEF Good, ReqGood
  <2> QED
    BY <2>4, <2>5, <2>6 DEF Good
<1>10. CASE UNCHANGED vars
  BY <1>10 DEF vars, Good, RowsSound, LoginGood, ReqGood
<1> QED
  BY <1>1, <1>2, <1>3, <1>4, <1>5, <1>6, <1>7, <1>8, <1>9, <1>10
  DEF Next, LoginStep, ReqFinds

(* Rows are sound unless written from an outdated copy, and every request in *)
(* flight intends a write that keeps them so.                               *)
THEOREM InvCorrect == Spec => []Inv
<1>1. Init => Inv
  BY InitType, InitGood DEF Inv
<1>2. Inv /\ [Next]_vars => Inv'
  BY TypeStep, GoodStep DEF Inv
<1> QED
  BY <1>1, <1>2, PTL DEF Spec

(* The list of trusted devices and the trust status agree on every device   *)
(* that no request wrote from an outdated copy.                             *)
THEOREM TrustAgrees == Spec => []TrustViewsAgree
<1>1. Inv => TrustViewsAgree
  BY DEF Inv, Good, RowsSound, Sound, TrustViewsAgree, Listed, TrustStatus
<1> QED
  BY <1>1, InvCorrect, PTL

(* The owner of a device is refused it only if a logout lost the reason of  *)
(* its block.                                                               *)
THEOREM OwnerIsReadmitted == Spec => []OwnerReadmitted
<1>1. Inv => OwnerReadmitted
  BY DEF Inv, Good, LoginGood, OwnerReadmitted
<1> QED
  BY <1>1, InvCorrect, PTL

(* A device changes hands only after the cooldown and without its trust,    *)
(* unless the logins overlap.                                               *)
THEOREM HandedOverLate == Spec => HandedOver
<1> DEFINE Late(p) ==
              dev'[p].user # dev[p].user /\ p \notin stale' =>
                \/ dev[p].state = "absent"
                \/ /\ dev[p].state = "blocked" /\ dev[p].blockedFor > Cooldown
                   /\ dev'[p].state = "active" /\ dev'[p].trust = "untrusted"
<1>1. ASSUME Inv, [Next]_vars, NEW p \in Prints PROVE Late(p)
  <2> USE <1>1 DEF Inv, TypeInv, TypeOK
  <2>1. ASSUME NEW r \in LoginReqs, LoginCommit(r) PROVE Late(p)
    <3> DEFINE l == login[r]
    <3>1. /\ l.print \in Prints /\ l.copy \in Row /\ l.new \in Row
          /\ Write(l.print, l.copy, l.new, FALSE) /\ Sound(l.new) /\ Passes(l.copy, l.new)
      BY <2>1, CommitWrites
    <3>2. RowsSound
      BY DEF Good
    <3> HIDE DEF l
    <3>3. /\ \A o \in Prints : o # l.print => dev'[o] = dev[o]
          /\ l.print \notin stale' =>
                /\ dev[l.print] = l.copy /\ dev'[l.print].user = l.new.user
                /\ dev'[l.print].state = l.new.state
                /\ dev'[l.print].trust = l.new.trust
      BY <3>1, <3>2, WriteSound
    <3> QED
      BY <3>1, <3>3 DEF Passes
  <2>2. ASSUME NEW q \in Reqs, ReqWrites(q) PROVE Late(p)
    <3> DEFINE m == req[q]
    <3>1. /\ m.print \in Prints /\ m.copy \in Row /\ m.new \in Row
          /\ Write(m.print, m.copy, m.new, m.pc = "block")
          /\ m.new.user = m.copy.user /\ (m.print \notin stale => Sound(m.new))
      BY <2>2, ReqWriteIs
    <3>2. RowsSound
      BY DEF Good
    <3> DEFINE dated == m.pc = "block"
    <3>3. dated \in BOOLEAN /\ Write(m.print, m.copy, m.new, dated)
      BY <3>1
    <3> HIDE DEF m, dated
    <3>4. /\ \A o \in Prints : o # m.print => dev'[o] = dev[o]
          /\ m.print \notin stale' =>
                dev[m.print] = m.copy /\ dev'[m.print].user = m.new.user
      BY <3>1, <3>2, <3>3, WriteSound
    <3> QED
      BY <3>1, <3>4
  <2>3. CASE Tick
    BY <2>3, AgedType DEF Tick
  <2>4. ASSUME UNCHANGED dev PROVE Late(p)
    BY <2>4
  <2> QED
    BY <2>1, <2>2, <2>3, <2>4 DEF Next, vars, LoginStep, ReqFinds, LoginFindsActive,
       LoginFindsAny, LoginFails, LogoutFinds, TrustFinds, UntrustFinds, ReqDies
<1>2. Inv /\ [Next]_vars => [\A p \in Prints : Late(p)]_vars
  BY <1>1
<1> QED
  BY <1>2, InvCorrect, PTL DEF Spec, HandedOver
-----------------------------------------------------------------------------
(* The contract.  What a request in flight will do to the row if the row is *)
(* still what its copy says: an operation of the contract.                  *)

(* A login enrols a device, uses its own, returns to it or takes it over.   *)
Enters(copy, new) ==
    \/ copy.state = "absent" /\ new.trust = "untrusted"
    \/ copy.state = "active" /\ new = copy
    \/ copy.state = "blocked" /\ new.user = copy.user /\ new.trust = "trusted"
    \/ /\ copy.state = "blocked" /\ new.user # copy.user
       /\ copy.blockedFor > Cooldown /\ new.trust = "untrusted"

(* A logout leaves it, and an admin gives or takes its trust.               *)
Leaves(copy, new) ==
    copy.state # "absent" /\ new.state = "blocked" /\ new.trust = "untrusted"

Judges(copy, new) ==
    /\ new.state = copy.state
    /\ new.trust = "trusted" => copy.state = "active"

LoginIntent(r) ==
    login[r].pc = "commit" /\ login[r].print \notin stale
        => Enters(login[r].copy, login[r].new)

ReqIntent(q) ==
    /\ req[q].pc = "block" => Leaves(req[q].copy, req[q].new)
    /\ req[q].pc = "write" => Judges(req[q].copy, req[q].new)

Intent ==
    /\ \A r \in LoginReqs : LoginIntent(r)
    /\ \A q \in Reqs : ReqIntent(q)

LEMMA NewRowEnters ==
    ASSUME NEW row \in Row, NEW u \in Users, Admitted(row, u), Sound(row)
    PROVE  Enters(row, NewRow(row, u))
<1> USE DEF Row, Enters
<1>1. CASE row.state = "absent"
  <2>1. NewRow(row, u) = Created(u)
    BY <1>1 DEF NewRow
  <2> QED
    BY <2>1, <1>1 DEF Created, NoRow
<1>2. CASE row.state # "absent" /\ row.user # u
  <2>1. NewRow(row, u) = Transferred(row, u)
    BY <1>2 DEF NewRow
  <2>2. row.state = "blocked" /\ row.blockedFor > Cooldown
    BY <1>2 DEF Admitted, MayTransfer
  <2> QED
    BY <2>1, <2>2, <1>2 DEF Transferred
<1>3. CASE row.state = "active" /\ row.user = u
  BY <1>3 DEF NewRow
<1>4. CASE row.state = "blocked" /\ row.user = u
  <2>1. NewRow(row, u) = Reactivated(row, "trusted")
    BY <1>4 DEF NewRow, Sound
  <2> QED
    BY <2>1, <1>4 DEF Reactivated
<1> QED
  BY <1>1, <1>2, <1>3, <1>4

LEMMA AgedIntent ==
    ASSUME NEW copy \in Row, NEW new \in Row
    PROVE  /\ Enters(copy, new) => Enters(Aged(copy), Aged(new))
           /\ Leaves(copy, new) => Leaves(Aged(copy), Aged(new))
           /\ Judges(copy, new) => Judges(Aged(copy), Aged(new))
<1>1. Enters(copy, new) => Enters(Aged(copy), Aged(new))
  BY AgedType DEF Enters
<1>2. Leaves(copy, new) => Leaves(Aged(copy), Aged(new))
  BY AgedType DEF Leaves
<1>3. Judges(copy, new) => Judges(Aged(copy), Aged(new))
  BY AgedType DEF Judges
<1> QED
  BY <1>1, <1>2, <1>3

LEMMA LoginIntentStep ==
    ASSUME Inv, Intent, NEW r \in LoginReqs, NEW l,
           l.pc = "commit" /\ l.print \notin stale => Enters(l.copy, l.new),
           login' = [login EXCEPT ![r] = l], stale \subseteq stale', UNCHANGED req
    PROVE  Intent'
<1>1. \A s \in LoginReqs : login'[s] = IF s = r THEN l ELSE login[s]
  BY DEF Inv, TypeInv, TypeOK
<1> QED
  BY <1>1 DEF Intent, LoginIntent, ReqIntent

LEMMA ReqIntentStep ==
    ASSUME Inv, Intent, NEW q \in Reqs, NEW m,
           m.pc = "block" => Leaves(m.copy, m.new),
           m.pc = "write" => Judges(m.copy, m.new),
           req' = [req EXCEPT ![q] = m], stale \subseteq stale', UNCHANGED login
    PROVE  Intent'
<1>1. \A s \in Reqs : req'[s] = IF s = q THEN m ELSE req[s]
  BY DEF Inv, TypeInv, TypeOK
<1> QED
  BY <1>1 DEF Intent, LoginIntent, ReqIntent

LEMMA IntentStep == Inv /\ Intent /\ [Next]_vars => Intent'
<1> SUFFICES ASSUME Inv, Intent, [Next]_vars PROVE Intent'
  OBVIOUS
<1> USE DEF Inv, TypeInv, TypeOK
<1>1. ASSUME NEW r \in LoginReqs, NEW c \in Clients, LoginFindsActive(r, c)
      PROVE  Intent'
  <2> DEFINE p == createPrimaryFingerprint(c)
             own == dev[p].state = "active" /\ dev[p].user = Caller[r]
             row == IF own THEN dev[p] ELSE NoRow
             l == [pc |-> IF own THEN "commit" ELSE "any", print |-> p,
                   copy |-> row, new |-> row]
  <2>1. login' = [login EXCEPT ![r] = l] /\ UNCHANGED <<dev, req, stale>>
    BY <1>1 DEF LoginFindsActive
  <2>2. l.pc = "commit" => Enters(l.copy, l.new)
    BY DEF Enters
  <2> HIDE DEF l
  <2> QED
    BY <2>1, <2>2, LoginIntentStep
<1>2. ASSUME NEW r \in LoginReqs, LoginFindsAny(r) PROVE Intent'
  <2> DEFINE row == dev[login[r].print]
             new == NewRow(row, Caller[r])
             yes == [login[r] EXCEPT !.pc = "commit", !.copy = row, !.new = new]
             no == [login[r] EXCEPT !.pc = "refused", !.copy = row]
             l == IF Admitted(row, Caller[r]) THEN yes ELSE no
  <2>1. /\ login[r] \in LoginState /\ login[r].print \in Prints /\ row \in Row
        /\ Caller[r] \in Users
    BY <1>2, UsersAssumption DEF LoginFindsAny, Named
  <2>2. login' = [login EXCEPT ![r] = l] /\ UNCHANGED <<dev, req, stale>>
    BY <1>2 DEF LoginFindsAny
  <2>3. /\ yes.pc = "commit" /\ yes.copy = row /\ yes.new = new
        /\ yes.print = login[r].print /\ no.pc = "refused"
    BY <2>1 DEF LoginState
  <2>4. login[r].print \notin stale => Sound(row)
    BY <2>1 DEF Good, RowsSound
  <2>5. Admitted(row, Caller[r]) /\ Sound(row) => Enters(row, new)
    BY <2>1, NewRowEnters
  <2> HIDE DEF row, new, yes, no
  <2>6. l.pc = "commit" /\ l.print \notin stale => Enters(l.copy, l.new)
    BY <2>3, <2>4, <2>5
  <2> HIDE DEF l
  <2> QED
    BY <2>2, <2>6, LoginIntentStep
<1>3. ASSUME NEW r \in LoginReqs, LoginCommit(r) \/ LoginFails(r) PROVE Intent'
  <2>1. /\ login' = [login EXCEPT ![r] = IdleLogin] /\ UNCHANGED req
        /\ stale \subseteq stale'
    BY <1>3 DEF LoginCommit, LoginFails, Write
  <2> QED
    BY <2>1, IdleTypes, LoginIntentStep
<1>4. ASSUME NEW q \in Reqs, NEW p \in Prints, LogoutFinds(q, p) PROVE Intent'
  <2> DEFINE m == [pc |-> "block", print |-> p, copy |-> dev[p], new |-> Blocked(dev[p])]
  <2>1. m.pc = "block" /\ Leaves(m.copy, m.new)
    BY <1>4, BlockedType DEF Leaves, LogoutFinds
  <2>2. req' = [req EXCEPT ![q] = m] /\ UNCHANGED <<login, stale>>
    BY <1>4 DEF LogoutFinds
  <2> HIDE DEF m
  <2> QED
    BY <2>1, <2>2, ReqIntentStep
<1>5. ASSUME NEW q \in Reqs, NEW p \in Prints, NEW u \in Users,
             TrustFinds(q, p, u) \/ UntrustFinds(q, p, u)
      PROVE  Intent'
  <2>1. PICK trust \in {"trusted", "untrusted"} :
           /\ trust = "trusted" => dev[p].state = "active"
           /\ req' = [req EXCEPT ![q] = [pc |-> "write", print |-> p, copy |-> dev[p],
                                         new |-> [dev[p] EXCEPT !.trust = trust]]]
           /\ UNCHANGED <<dev, login, stale>>
    BY <1>5 DEF TrustFinds, UntrustFinds, MayTrust
  <2> DEFINE new == [dev[p] EXCEPT !.trust = trust]
             m == [pc |-> "write", print |-> p, copy |-> dev[p], new |-> new]
  <2>2. dev[p] \in Row /\ new.state = dev[p].state /\ new.trust = trust
    BY TrustType
  <2>3. req' = [req EXCEPT ![q] = m] /\ UNCHANGED <<login, stale>>
    BY <2>1
  <2> HIDE DEF new
  <2>4. m.pc = "write" /\ Judges(m.copy, m.new)
    BY <2>1, <2>2 DEF Judges
  <2> HIDE DEF m
  <2> QED
    BY <2>3, <2>4, ReqIntentStep
<1>6. ASSUME NEW q \in Reqs, ReqWrites(q) \/ ReqDies(q) PROVE Intent'
  <2>1. /\ req' = [req EXCEPT ![q] = IdleReq] /\ UNCHANGED login
        /\ stale \subseteq stale'
    BY <1>6 DEF ReqWrites, ReqDies, Write
  <2> QED
    BY <2>1, IdleTypes, ReqIntentStep
<1>7. CASE Tick
  <2>1. ASSUME NEW r \in LoginReqs PROVE LoginIntent(r)'
    <3>1. /\ login'[r].pc = login[r].pc /\ login'[r].print = login[r].print
          /\ login'[r].copy = Aged(login[r].copy)
          /\ login'[r].new = Aged(login[r].new)
          /\ login[r].copy \in Row /\ login[r].new \in Row /\ stale' = stale
      BY <1>7 DEF Tick, LoginState
    <3> QED
      BY <3>1, AgedIntent DEF Intent, LoginIntent
  <2>2. ASSUME NEW q \in Reqs PROVE ReqIntent(q)'
    <3>1. /\ req'[q].pc = req[q].pc
          /\ req'[q].copy = Aged(req[q].copy) /\ req'[q].new = Aged(req[q].new)
          /\ req[q].copy \in Row /\ req[q].new \in Row
      BY <1>7 DEF Tick, ReqState
    <3> QED
      BY <3>1, AgedIntent DEF Intent, ReqIntent
  <2> QED
    BY <2>1, <2>2 DEF Intent
<1>8. CASE UNCHANGED vars
  BY <1>8 DEF vars, Intent, LoginIntent, ReqIntent
<1> QED
  BY <1>1, <1>2, <1>3, <1>4, <1>5, <1>6, <1>7, <1>8 DEF Next, LoginStep, ReqFinds
-----------------------------------------------------------------------------
(* How the state of the contract moves with a row, and with a write.        *)

LEMMA OneMoves ==
    ASSUME NEW S, NEW p \in S, NEW x, NEW f, NEW g,
           f = [o \in S |-> f[o]], g = [o \in S |-> g[o]],
           \A o \in S : g[o] = IF o = p THEN x ELSE f[o]
    PROVE  g = [f EXCEPT ![p] = x]
OBVIOUS

LEMMA RowMoves ==
    ASSUME TypeOK, NEW p \in Prints, NEW row \in Row,
           dev' = [dev EXCEPT ![p] = row]
    PROVE  /\ Phase' = [Phase EXCEPT ![p] = PhaseOf(row)]
           /\ Owner' = [Owner EXCEPT ![p] = row.user]
           /\ Trusted' = IF row.trust = "trusted"
                         THEN Trusted \cup {p} ELSE Trusted \ {p}
           /\ LeftFor' = [LeftFor EXCEPT ![p] = IF row.state = "blocked"
                                                THEN row.blockedFor ELSE 0]
<1>1. \A o \in Prints : dev'[o] = IF o = p THEN row ELSE dev[o]
  BY DEF TypeOK
<1>2. Phase' = [Phase EXCEPT ![p] = PhaseOf(row)]
  <2>1. \A o \in Prints : PhaseOf(dev'[o]) = IF o = p THEN PhaseOf(row)
                                             ELSE PhaseOf(dev[o])
    BY <1>1
  <2>2. \A o \in Prints : Phase'[o] = IF o = p THEN PhaseOf(row) ELSE Phase[o]
    BY <2>1 DEF Phase
  <2>3. Phase = [o \in Prints |-> Phase[o]] /\ Phase' = [o \in Prints |-> Phase'[o]]
    BY DEF Phase
  <2> QED
    BY <2>2, <2>3, OneMoves
<1>3. Owner' = [Owner EXCEPT ![p] = row.user]
  <2>1. \A o \in Prints : Owner'[o] = IF o = p THEN row.user ELSE Owner[o]
    BY <1>1 DEF Owner
  <2>2. Owner = [o \in Prints |-> Owner[o]] /\ Owner' = [o \in Prints |-> Owner'[o]]
    BY DEF Owner
  <2> QED
    BY <2>1, <2>2, OneMoves
<1>4. Trusted' = IF row.trust = "trusted" THEN Trusted \cup {p} ELSE Trusted \ {p}
  BY <1>1 DEF Trusted
<1>5. LeftFor' = [LeftFor EXCEPT ![p] = IF row.state = "blocked"
                                        THEN row.blockedFor ELSE 0]
  <2> DEFINE x == IF row.state = "blocked" THEN row.blockedFor ELSE 0
  <2>1. \A o \in Prints : LeftFor'[o] = IF o = p THEN x ELSE LeftFor[o]
    BY <1>1 DEF LeftFor
  <2>2. /\ LeftFor = [o \in Prints |-> LeftFor[o]]
        /\ LeftFor' = [o \in Prints |-> LeftFor'[o]]
    BY DEF LeftFor
  <2> HIDE DEF x
  <2>3. LeftFor' = [LeftFor EXCEPT ![p] = x]
    BY <2>1, <2>2, OneMoves
  <2> QED
    BY <2>3 DEF x
<1> QED
  BY <1>2, <1>3, <1>4, <1>5

(* Where a row is what it was, so is the state of the contract.             *)
LEMMA RowStays ==
    ASSUME UNCHANGED dev PROVE UNCHANGED <<Phase, Owner, Trusted, LeftFor>>
BY DEF Phase, Owner, Trusted, LeftFor

LEMMA RowKeeps ==
    ASSUME TypeOK, NEW p \in Prints, NEW row \in Row,
           dev' = [dev EXCEPT ![p] = row]
    PROVE  /\ row.user = dev[p].user => Owner' = Owner
           /\ row.state = dev[p].state => Phase' = Phase
           /\ row.state = dev[p].state /\ row.blockedFor = dev[p].blockedFor
                 => LeftFor' = LeftFor
<1>1. \A o \in Prints : dev'[o] = IF o = p THEN row ELSE dev[o]
  BY DEF TypeOK
<1>2. row.user = dev[p].user => Owner' = Owner
  BY <1>1 DEF Owner
<1>3. ASSUME row.state = dev[p].state PROVE Phase' = Phase
  <2>1. \A o \in Prints : PhaseOf(dev'[o]) = PhaseOf(dev[o])
    BY <1>1, <1>3 DEF PhaseOf
  <2> QED
    BY <2>1 DEF Phase
<1>4. row.state = dev[p].state /\ row.blockedFor = dev[p].blockedFor
         => LeftFor' = LeftFor
  BY <1>1 DEF LeftFor
<1> QED
  BY <1>2, <1>3, <1>4

LEMMA StateOfRow ==
    ASSUME TypeOK, NEW p \in Prints
    PROVE  /\ dev[p].state = "absent" <=> Phase[p] = "new"
           /\ dev[p].state = "active" <=> Phase[p] = "active"
           /\ dev[p].state = "blocked" <=> Phase[p] = "left"
           /\ Phase[p] = PhaseOf(dev[p])
           /\ Owner[p] = dev[p].user
           /\ LeftFor[p] = IF dev[p].state = "blocked" THEN dev[p].blockedFor ELSE 0
           /\ Phase = [o \in Prints |-> Phase[o]]
           /\ Owner = [o \in Prints |-> Owner[o]]
           /\ LeftFor = [o \in Prints |-> LeftFor[o]]
<1>1. dev[p].state \in {"absent", "active", "blocked"}
  BY DEF TypeOK, Row
<1>2. /\ dev[p].state = "absent" <=> PhaseOf(dev[p]) = "new"
      /\ dev[p].state = "active" <=> PhaseOf(dev[p]) = "active"
      /\ dev[p].state = "blocked" <=> PhaseOf(dev[p]) = "left"
  BY <1>1 DEF PhaseOf
<1>3. Phase[p] = PhaseOf(dev[p]) /\ Phase = [o \in Prints |-> Phase[o]]
  BY DEF Phase
<1>4. Owner[p] = dev[p].user /\ Owner = [o \in Prints |-> Owner[o]]
  BY DEF Owner
<1>5. /\ LeftFor[p] = IF dev[p].state = "blocked" THEN dev[p].blockedFor ELSE 0
      /\ LeftFor = [o \in Prints |-> LeftFor[o]]
  BY DEF LeftFor
<1> QED
  BY <1>2, <1>3, <1>4, <1>5

(* A write from an outdated copy is the contract's Spoil, and one from a    *)
(* copy that is not makes the row the request intended.                     *)
LEMMA WriteIs ==
    ASSUME TypeOK, NEW p \in Prints, NEW copy \in Row, NEW new \in Row,
           NEW dated \in BOOLEAN, Write(p, copy, new, dated)
    PROVE  \/ Contract!Spoil(p)
           \/ /\ p \notin stale /\ stale' = stale /\ dev[p] = copy
              /\ \E row \in Row :
                    /\ dev' = [dev EXCEPT ![p] = row]
                    /\ row = Flushed(copy, copy, new, dated)
                    /\ row.user = new.user /\ row.state = new.state
                    /\ row.trust = new.trust
<1> DEFINE row == Flushed(dev[p], copy, new, dated)
<1>1. /\ row \in Row /\ dev' = [dev EXCEPT ![p] = row]
      /\ stale' = IF dev[p] = copy THEN stale ELSE stale \cup {p}
  BY FlushedType DEF Write, TypeOK
<1>2. CASE p \in stale'
  <2>1. stale' = stale \cup {p}
    BY <1>1, <1>2
  <2> HIDE DEF row
  <2>2. \A o \in Prints \ {p} : dev'[o] = dev[o]
    BY <1>1
  <2>3. /\ Trusted' \ {p} = Trusted \ {p}
        /\ \A o \in Prints \ {p} : /\ Phase'[o] = Phase[o] /\ Owner'[o] = Owner[o]
                                   /\ LeftFor'[o] = LeftFor[o]
    BY <2>2 DEF Trusted, Phase, Owner, LeftFor
  <2> QED
    BY <2>1, <2>3 DEF Contract!Spoil
<1>3. CASE p \notin stale'
  <2>1. p \notin stale /\ stale' = stale /\ dev[p] = copy
    BY <1>1, <1>3
  <2>2. row = Flushed(copy, copy, new, dated)
    BY <2>1
  <2> HIDE DEF row
  <2>3. row.user = new.user /\ row.state = new.state /\ row.trust = new.trust
    BY <2>2, FlushedSound
  <2> QED
    BY <1>1, <2>1, <2>2, <2>3
<1> QED
  BY <1>2, <1>3

LEMMA CommitSimulates ==
    ASSUME Inv, Intent, NEW r \in LoginReqs, LoginCommit(r)
    PROVE  Contract!Next \/ UNCHANGED <<Phase, Owner, Trusted, LeftFor, stale>>
<1> DEFINE p == login[r].print
           copy == login[r].copy
           new == login[r].new
           u == Caller[r]
           dated == FALSE
<1>1. /\ p \in Prints /\ copy \in Row /\ new \in Row
      /\ Write(p, copy, new, dated) /\ dated \in BOOLEAN
  BY CommitWrites
<1>2. /\ new.state = "active" /\ new.user = u /\ u \in Users
      /\ p \notin stale => Enters(copy, new)
      /\ TypeOK
  BY UsersAssumption DEF LoginCommit, SafeForAuth, Intent, LoginIntent, Inv, TypeInv
<1> HIDE DEF p, copy, new, u, dated
<1>3. CASE Contract!Spoil(p)
  BY <1>1, <1>3 DEF Contract!Next
<1>4. CASE ~Contract!Spoil(p)
  <2>0. PICK row \in Row :
           /\ p \notin stale /\ stale' = stale /\ dev[p] = copy
           /\ dev' = [dev EXCEPT ![p] = row]
           /\ row = Flushed(copy, copy, new, dated)
           /\ row.user = new.user /\ row.state = new.state
           /\ row.trust = new.trust
    BY <1>1, <1>2, <1>4, WriteIs
  <2>1. /\ Phase' = [Phase EXCEPT ![p] = "active"]
        /\ Owner' = [Owner EXCEPT ![p] = u]
        /\ LeftFor' = [LeftFor EXCEPT ![p] = 0]
        /\ Trusted' = IF new.trust = "trusted" THEN Trusted \cup {p} ELSE Trusted \ {p}
    <3>1. PhaseOf(row) = "active" /\ row.state = "active" /\ row.user = u
      BY <1>2, <2>0 DEF PhaseOf
    <3> DEFINE left == IF row.state = "blocked" THEN row.blockedFor ELSE 0
    <3>2. /\ Phase' = [Phase EXCEPT ![p] = PhaseOf(row)]
          /\ Owner' = [Owner EXCEPT ![p] = row.user]
          /\ Trusted' = IF row.trust = "trusted"
                        THEN Trusted \cup {p} ELSE Trusted \ {p}
          /\ LeftFor' = [LeftFor EXCEPT ![p] = left]
      BY <1>1, <1>2, <2>0, RowMoves
    <3>3. left = 0
      BY <3>1
    <3> HIDE DEF left
    <3> QED
      BY <2>0, <3>1, <3>2, <3>3
  <2>2. Contract!UsedBy(p, u)
    BY <2>0, <2>1 DEF Contract!UsedBy
  <2>3. CASE copy.state = "absent" /\ new.trust = "untrusted"
    <3>1. Contract!Enrol(p, u)
      BY <1>1, <1>2, <2>0, <2>1, <2>2, <2>3, StateOfRow DEF Contract!Enrol
    <3> QED
      BY <1>1, <1>2, <3>1 DEF Contract!Next
  <2>4. CASE copy.state = "active" /\ new = copy
    <3>1. row = copy
      BY <2>0, <1>1, <2>4 DEF Flushed, Column, Row
    <3>2. dev' = dev
      BY <1>1, <1>2, <2>0, <3>1 DEF TypeOK
    <3> QED
      BY <2>0, <3>2, RowStays
  <2>5. CASE copy.state = "blocked" /\ new.user = copy.user /\ new.trust = "trusted"
    <3>1. Contract!Return(p)
      BY <1>1, <1>2, <2>0, <2>1, <2>2, <2>5, StateOfRow DEF Contract!Return
    <3> QED
      BY <1>1, <3>1 DEF Contract!Next
  <2>6. CASE /\ copy.state = "blocked" /\ new.user # copy.user
             /\ copy.blockedFor > Cooldown /\ new.trust = "untrusted"
    <3>1. Contract!TakeOver(p, u)
      BY <1>1, <1>2, <2>0, <2>1, <2>2, <2>6, StateOfRow DEF Contract!TakeOver
    <3> QED
      BY <1>1, <1>2, <3>1 DEF Contract!Next
  <2> QED
    BY <1>2, <2>0, <2>3, <2>4, <2>5, <2>6 DEF Enters
<1> QED
  BY <1>3, <1>4

LEMMA ReqWriteSimulates ==
    ASSUME Inv, Intent, NEW q \in Reqs, ReqWrites(q)
    PROVE  Contract!Next
<1> DEFINE p == req[q].print
           copy == req[q].copy
           new == req[q].new
           dated == req[q].pc = "block"
<1>1. /\ p \in Prints /\ copy \in Row /\ new \in Row /\ dated \in BOOLEAN
      /\ Write(p, copy, new, dated) /\ new.user = copy.user
  BY ReqWriteIs
<1>2. /\ dated => Leaves(copy, new)
      /\ ~dated => Judges(copy, new)
      /\ TypeOK
  BY DEF ReqWrites, Intent, ReqIntent, Inv, TypeInv
<1> HIDE DEF p, copy, new, dated
<1>3. CASE Contract!Spoil(p)
  BY <1>1, <1>3 DEF Contract!Next
<1>4. CASE ~Contract!Spoil(p)
  <2>0. PICK row \in Row :
           /\ p \notin stale /\ stale' = stale /\ dev[p] = copy
           /\ dev' = [dev EXCEPT ![p] = row]
           /\ row = Flushed(copy, copy, new, dated)
           /\ row.user = new.user /\ row.state = new.state
           /\ row.trust = new.trust
    BY <1>1, <1>2, <1>4, WriteIs
  <2>1. Owner' = Owner
    BY <1>1, <1>2, <2>0, RowKeeps
  <2>2. CASE dated
    <3>1. copy.state # "absent" /\ new.state = "blocked" /\ new.trust = "untrusted"
      BY <1>2, <2>2 DEF Leaves
    <3>2. /\ Phase' = [Phase EXCEPT ![p] = "left"]
          /\ Trusted' = Trusted \ {p}
          /\ LeftFor' = [LeftFor EXCEPT ![p] = row.blockedFor]
      BY <1>1, <1>2, <2>0, <3>1, RowMoves DEF PhaseOf
    <3>3. row.blockedFor \in Nat
      BY <2>0, AgesAre DEF Row
    <3>4. LeftFor'[p] = row.blockedFor
      BY <1>1, <1>2, <3>2, StateOfRow
    <3>5. Contract!Leave(p)
      BY <1>1, <1>2, <2>0, <2>1, <3>1, <3>2, <3>3, <3>4, StateOfRow DEF Contract!Leave
    <3> QED
      BY <1>1, <3>5 DEF Contract!Next
  <2>3. CASE ~dated
    <3>1. new.state = copy.state /\ (new.trust = "trusted" => copy.state = "active")
      BY <1>2, <2>3 DEF Judges
    <3>2. row.state = copy.state /\ row.blockedFor = copy.blockedFor
      BY <1>1, <2>0, <2>3, <3>1 DEF Flushed, Row
    <3>3. Phase' = Phase /\ LeftFor' = LeftFor
      BY <1>1, <1>2, <2>0, <3>2, RowKeeps
    <3>4. CASE new.trust = "trusted"
      <4>1. Trusted' = Trusted \cup {p}
        BY <1>1, <1>2, <2>0, <3>4, RowMoves
      <4>2. Phase[p] = "active"
        BY <1>1, <1>2, <2>0, <3>1, <3>4, StateOfRow
      <4>3. Contract!Trust(p)
        BY <2>0, <2>1, <3>3, <4>1, <4>2 DEF Contract!Trust
      <4> QED
        BY <1>1, <4>3 DEF Contract!Next
    <3>5. CASE new.trust # "trusted"
      <4>1. Contract!Untrust(p)
        BY <1>1, <1>2, <2>0, <2>1, <3>3, <3>5, RowMoves DEF Contract!Untrust
      <4> QED
        BY <1>1, <4>1 DEF Contract!Next
    <3> QED
      BY <3>4, <3>5
  <2> QED
    BY <2>2, <2>3
<1> QED
  BY <1>3, <1>4

LEMMA TickSimulates ==
    ASSUME TypeOK, Tick
    PROVE  Contract!Tick
<1>1. \A p \in Prints : dev'[p] = Aged(dev[p]) /\ dev[p] \in Row
  BY DEF Tick, TypeOK
<1>2. \A p \in Prints : /\ dev'[p].user = dev[p].user /\ dev'[p].state = dev[p].state
                        /\ dev'[p].trust = dev[p].trust
  BY <1>1, AgedType
<1>3. UNCHANGED <<Phase, Owner, Trusted, stale>>
  <2>1. \A p \in Prints : PhaseOf(dev'[p]) = PhaseOf(dev[p])
    BY <1>2 DEF PhaseOf
  <2> QED
    BY <1>2, <2>1 DEF Phase, Owner, Trusted, Tick
<1>4. ASSUME NEW p \in Prints
      PROVE  \/ LeftFor'[p] = LeftFor[p] + (IF Phase[p] = "left" THEN 1 ELSE 0)
             \/ LeftFor'[p] = LeftFor[p] /\ LeftFor[p] > Cooldown
  <2> DEFINE row == dev[p]
  <2>1. /\ row \in Row /\ row.blockedFor \in Nat
        /\ LeftFor[p] = IF row.state = "blocked" THEN row.blockedFor ELSE 0
        /\ LeftFor'[p] = IF row.state = "blocked" THEN Aged(row).blockedFor ELSE 0
        /\ Phase[p] = "left" <=> row.state = "blocked"
    BY <1>1, <1>2, StateOfRow, AgesAre DEF LeftFor, Row
  <2> HIDE DEF row
  <2>2. CASE row.state = "blocked" /\ row.blockedFor <= Cooldown
    BY <2>1, <2>2 DEF Aged, Row
  <2>3. CASE row.state = "blocked" /\ ~(row.blockedFor <= Cooldown)
    BY <2>1, <2>3, WaitAssumption DEF Aged
  <2>4. CASE row.state # "blocked"
    BY <2>1, <2>4
  <2> QED
    BY <2>2, <2>3, <2>4
<1> QED
  BY <1>3, <1>4 DEF Contract!Tick

LEMMA ContractInit == Init => Contract!Init
<1> SUFFICES ASSUME Init PROVE Contract!Init
  OBVIOUS
<1>1. \A p \in Prints : /\ dev[p].state = "absent" /\ dev[p].user = None
                        /\ dev[p].trust = "untrusted"
  BY DEF Init, NoRow
<1>2. \A p \in Prints : PhaseOf(dev[p]) = "new"
  BY <1>1 DEF PhaseOf
<1> QED
  BY <1>1, <1>2 DEF Init, Phase, Owner, Trusted, LeftFor, Contract!Init

LEMMA ContractStep == Inv /\ Intent /\ [Next]_vars => [Contract!Next]_(Contract!vars)
<1> SUFFICES ASSUME Inv, Intent, [Next]_vars
             PROVE  \/ Contract!Next
                    \/ UNCHANGED <<Phase, Owner, Trusted, LeftFor, stale>>
  BY DEF Contract!vars
<1>1. ASSUME NEW r \in LoginReqs, LoginCommit(r)
      PROVE  Contract!Next \/ UNCHANGED <<Phase, Owner, Trusted, LeftFor, stale>>
  BY <1>1, CommitSimulates
<1>2. ASSUME NEW q \in Reqs, ReqWrites(q) PROVE Contract!Next
  BY <1>2, ReqWriteSimulates
<1>3. CASE Tick
  BY <1>3, TickSimulates DEF Inv, TypeInv, Contract!Next
<1>4. ASSUME UNCHANGED <<dev, stale>>
      PROVE  UNCHANGED <<Phase, Owner, Trusted, LeftFor, stale>>
  BY <1>4, RowStays
<1> QED
  BY <1>1, <1>2, <1>3, <1>4 DEF Next, vars, LoginStep, ReqFinds, LoginFindsActive,
     LoginFindsAny, LoginFails, LogoutFinds, TrustFinds, UntrustFinds, ReqDies

(* Devices implements its contract: a handler that decides on a copy and    *)
(* writes later is, on a device no other wrote meanwhile, one atomic        *)
(* enrolment, return, take-over, logout or judgement of trust.              *)
THEOREM DeviceContractImplemented == Spec => ImplementsDeviceContract
<1>1. Init => Contract!Init
  BY ContractInit
<1>2. Init => Intent
  BY IdleTypes DEF Init, Intent, LoginIntent, ReqIntent
<1>3. Inv /\ Intent /\ [Next]_vars => Intent'
  BY IntentStep
<1>4. Inv /\ Intent /\ [Next]_vars => [Contract!Next]_(Contract!vars)
  BY ContractStep
<1> QED
  BY <1>1, <1>2, <1>3, <1>4, InvCorrect, PTL
  DEF Spec, ImplementsDeviceContract, Contract!Spec
=============================================================================
