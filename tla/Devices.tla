------------------------------- MODULE Devices -------------------------------
(***************************************************************************)
(* The devices table of nexus-idp and the requests that write it: logins   *)
(* (create, update, reactivate or take over a device), logouts (block it)  *)
(* and the trust endpoints of the admin API.                               *)
(*                                                                         *)
(* A request decides on the row it has read and, later, writes by primary  *)
(* key the columns in which its copy differs from what it read.  Every     *)
(* handler is therefore split between its reads and its flush, and its     *)
(* copy travels in login or req.  What a login writes appears when its     *)
(* transaction commits; one that rolls back leaves nothing.                *)
(***************************************************************************)
EXTENDS Detection

CONSTANTS
    Users,
    Clients,       \* apps and browsers: the headers they send
    LoginReqs,     \* slots of login requests
    Caller,        \* the user whose logins a slot serves
    Persistent,    \* slots whose user, when not let in, tries again
    Reqs,          \* slots of logout, trust and untrust requests
    None,          \* no user
    UnknownWait,   \* 1 hour: wait after a block of unknown reason
    Cooldown       \* 30 days: a device blocked longer may change hands

(* A block's age counts in these steps and stops at the first age that      *)
(* exceeds every limit, where nothing distinguishes it from older ones.     *)
ASSUME WaitAssumption ==
    /\ UnknownWait \in Nat \ {0} /\ Cooldown \in Nat \ {0}
    /\ UnknownWait <= Cooldown

ASSUME UsersAssumption == None \notin Users /\ Caller \in [LoginReqs -> Users]
                   /\ Persistent \subseteq LoginReqs

Prints == {createPrimaryFingerprint(c) : c \in Clients}

Ages == 0 .. Cooldown + 1

Reasons == {"none", "Manual logout"}

VARIABLES
    dev,     \* the devices table, one row per fingerprint: it is unique
    login,   \* login requests in flight
    req,     \* logout, trust and untrust requests in flight
    stale    \* history: devices some request wrote from an outdated copy

vars == <<dev, login, req, stale>>

(* A row.  blockedFor is the age of blockedAt and counts while blocked. *)
Row == [user : Users \cup {None}, state : {"absent", "active", "blocked"},
        blockedFor : Ages, blockReason : Reasons,
        trust : {"trusted", "untrusted"}]

NoRow == [user |-> None, state |-> "absent", blockedFor |-> 0,
          blockReason |-> "none", trust |-> "untrusted"]

LoginState == [pc : {"idle", "any", "commit", "refused"},
               print : Prints \cup {<<>>}, copy : Row, new : Row]

IdleLogin == [pc |-> "idle", print |-> <<>>, copy |-> NoRow, new |-> NoRow]

ReqState == [pc : {"idle", "block", "write"}, print : Prints \cup {<<>>},
             copy : Row, new : Row]

IdleReq == [pc |-> "idle", print |-> <<>>, copy |-> NoRow, new |-> NoRow]

Init ==
    /\ dev = [p \in Prints |-> NoRow]
    /\ login = [r \in LoginReqs |-> IdleLogin]
    /\ req = [q \in Reqs |-> IdleReq]
    /\ stale = {}
-----------------------------------------------------------------------------
(* What a flush writes. *)

Column(row, copy, new) == IF new # copy THEN new ELSE row

(* blockedAt (state and blockedFor here) is a date: a request that sets it   *)
(* always writes it, one that leaves it alone never does.                   *)
Flushed(row, copy, new, dated) ==
    LET moved == dated \/ new.state # copy.state
    IN  [user        |-> Column(row.user, copy.user, new.user),
         state       |-> IF moved THEN new.state ELSE row.state,
         blockedFor  |-> IF moved THEN new.blockedFor ELSE row.blockedFor,
         blockReason |-> Column(row.blockReason, copy.blockReason, new.blockReason),
         trust       |-> Column(row.trust, copy.trust, new.trust)]

(* Writes to the row of p, and notes that the copy was outdated. *)
Write(p, copy, new, dated) ==
    /\ dev' = [dev EXCEPT ![p] = Flushed(@, copy, new, dated)]
    /\ stale' = IF dev[p] = copy THEN stale ELSE stale \cup {p}
-----------------------------------------------------------------------------
(* Login: DevicesService.createDevice inside the login transaction. *)

(* reactivateDevice *)
Reactivated(row, trust) ==
    [row EXCEPT !.state = "active", !.blockedFor = 0, !.blockReason = "none",
                !.trust = trust]

(* handleCrossUserDeviceConflict, for a device blocked long enough. *)
Transferred(row, u) ==
    [row EXCEPT !.user = u, !.state = "active", !.blockedFor = 0,
                !.blockReason = "none", !.trust = "untrusted"]

(* Faulty: a new device starts trusted. *)
CreatedTrusted(u) ==
    [NoRow EXCEPT !.user = u, !.state = "active", !.trust = "trusted"]

Created(u) == [NoRow EXCEPT !.user = u, !.state = "active"]

(* Faulty: a day-old block of unknown reason is never lifted. *)
MayReactivateNever(row) == row.blockReason = "Manual logout"

(* handleBlockedDeviceReactivation.  Of the reasons it lists, the code      *)
(* writes only "Manual logout".                                             *)
MayReactivate(row) ==
    row.blockReason = "Manual logout" \/ row.blockedFor >= UnknownWait

(* Faulty: hands over a device as soon as it is blocked. *)
MayTransferAnyBlocked(row) == row.state = "blocked"

MayTransfer(row) == row.state = "blocked" /\ row.blockedFor > Cooldown

(* isDeviceSafeForAuth, on the copy the identity map holds. *)
SafeForAuth(row, u) == row.user = u /\ row.state = "active"

(* The row a login makes of the row it found, or refuses to. *)
Admitted(row, u) ==
    \/ row.state = "absent"
    \/ row.user = u /\ (row.state = "blocked" => MayReactivate(row))
    \/ row.user \notin {u, None} /\ MayTransfer(row)

NewRow(row, u) ==
    CASE row.state = "absent" -> Created(u)
      [] row.state # "absent" /\ row.user # u -> Transferred(row, u)
      [] row.state = "active" /\ row.user = u -> row
      [] row.state = "blocked" /\ row.user = u ->
            Reactivated(row, IF row.blockReason = "Manual logout"
                             THEN "trusted" ELSE "untrusted")

(* applySecurityMeasures lets the request pass, and                         *)
(* findActiveByFingerprintAndUser looks for an active device of this user.  *)
LoginFindsActive(r, c) ==
    LET p   == createPrimaryFingerprint(c)
        own == dev[p].state = "active" /\ dev[p].user = Caller[r]
    IN  /\ login[r].pc = "idle"
        /\ ~RefusedForRisk(c)
        /\ login' = [login EXCEPT ![r] =
                        [pc |-> IF own THEN "commit" ELSE "any",
                         print |-> p,
                         copy |-> IF own THEN dev[p] ELSE NoRow,
                         new |-> IF own THEN dev[p] ELSE NoRow]]
        /\ UNCHANGED <<dev, req, stale>>

(* findByFingerprint, and the policy for what it finds. *)
LoginFindsAny(r) ==
    LET row == dev[login[r].print]
        u   == Caller[r]
    IN  /\ login[r].pc = "any"
        /\ login' = [login EXCEPT ![r] =
                        IF Admitted(row, u)
                        THEN [@ EXCEPT !.pc = "commit", !.copy = row,
                                       !.new = NewRow(row, u)]
                        ELSE [@ EXCEPT !.pc = "refused", !.copy = row]]
        /\ UNCHANGED <<dev, req, stale>>

(* The login commits the row, and the session on it.  isDeviceSafeForAuth   *)
(* has been asked about the entity the login holds.                         *)
LoginCommit(r) ==
    LET l == login[r]
    IN  /\ l.pc = "commit"
        /\ l.copy.state = "absent" => dev[l.print].state = "absent"
        /\ SafeForAuth(l.new, Caller[r])
        /\ Write(l.print, l.copy, l.new, FALSE)
        /\ login' = [login EXCEPT ![r] = IdleLogin]
        /\ UNCHANGED req

(* The unique key refuses the insert of a device that exists by now, or the *)
(* login was refused: the transaction rolls back.                           *)
LoginFails(r) ==
    /\ \/ login[r].pc = "refused"
       \/ /\ login[r].pc = "commit" /\ login[r].copy.state = "absent"
          /\ dev[login[r].print].state # "absent"
    /\ login' = [login EXCEPT ![r] = IdleLogin]
    /\ UNCHANGED <<dev, req, stale>>
-----------------------------------------------------------------------------
(* Logout and trust: the request finds the device, then writes it. *)

(* Faulty: leaves the trust of a blocked device. *)
BlockedTrustKept(row) ==
    [row EXCEPT !.state = "blocked", !.blockedFor = 0,
                !.blockReason = "Manual logout"]

(* Faulty: a reason the reactivation policy does not list. *)
BlockedUnlisted(row) ==
    [row EXCEPT !.state = "blocked", !.blockedFor = 0, !.trust = "untrusted"]

(* The device of a session that logs out. *)
Blocked(row) ==
    [row EXCEPT !.state = "blocked", !.blockedFor = 0,
                !.blockReason = "Manual logout", !.trust = "untrusted"]

(* logout has terminated a session of the device, and updateDevice finds    *)
(* it.  The sessions are those of module Sessions: a device that has a row  *)
(* may have several, left open when it was blocked or changed hands.        *)
LogoutFinds(q, p) ==
    /\ req[q].pc = "idle" /\ dev[p].state # "absent"
    /\ req' = [req EXCEPT ![q] = [pc |-> "block", print |-> p, copy |-> dev[p],
                                  new |-> Blocked(dev[p])]]
    /\ UNCHANGED <<dev, login, stale>>

(* trustDevice: findById, and the checks on what it returns. *)
MayTrust(row, u) == row.user = u /\ row.state = "active"

TrustFinds(q, p, u) ==
    /\ req[q].pc = "idle" /\ MayTrust(dev[p], u)
    /\ req' = [req EXCEPT ![q] = [pc |-> "write", print |-> p, copy |-> dev[p],
                                  new |-> [dev[p] EXCEPT !.trust = "trusted"]]]
    /\ UNCHANGED <<dev, login, stale>>

(* untrustDevice *)
UntrustFinds(q, p, u) ==
    /\ req[q].pc = "idle" /\ dev[p].user = u
    /\ req' = [req EXCEPT ![q] = [pc |-> "write", print |-> p, copy |-> dev[p],
                                  new |-> [dev[p] EXCEPT !.trust = "untrusted"]]]
    /\ UNCHANGED <<dev, login, stale>>

(* updateDevice of the repository: the entity is the copy the request has   *)
(* read, and the flush writes what differs.                                 *)
ReqWrites(q) ==
    /\ req[q].pc \in {"block", "write"}
    /\ Write(req[q].print, req[q].copy, req[q].new, req[q].pc = "block")
    /\ req' = [req EXCEPT ![q] = IdleReq]
    /\ UNCHANGED login

(* A request dies before its flush.  A logout has terminated the session by  *)
(* then, and leaves the device as it is.                                    *)
ReqDies(q) ==
    /\ req[q].pc # "idle"
    /\ req' = [req EXCEPT ![q] = IdleReq]
    /\ UNCHANGED <<dev, login, stale>>
-----------------------------------------------------------------------------
(* Faulty: a device that is not blocked has an age too. *)
AgedAlways(row) == [row EXCEPT !.blockedFor = @ + 1]

(* Time passes for a row that is blocked, and for the copies of it. *)
Aged(row) ==
    IF row.state = "blocked" /\ row.blockedFor <= Cooldown
    THEN [row EXCEPT !.blockedFor = @ + 1] ELSE row

Tick ==
    /\ dev' = [p \in Prints |-> Aged(dev[p])]
    /\ login' = [r \in LoginReqs |->
                    [login[r] EXCEPT !.copy = Aged(@), !.new = Aged(@)]]
    /\ req' = [q \in Reqs |->
                    [req[q] EXCEPT !.copy = Aged(@), !.new = Aged(@)]]
    /\ UNCHANGED stale

LoginStep(r) == LoginFindsAny(r) \/ LoginCommit(r) \/ LoginFails(r)

ReqFinds(q) ==
    \E p \in Prints :
        \/ LogoutFinds(q, p)
        \/ \E u \in Users : TrustFinds(q, p, u) \/ UntrustFinds(q, p, u)

Next ==
    \/ \E r \in LoginReqs :
          LoginStep(r) \/ \E c \in Clients : LoginFindsActive(r, c)
    \/ \E q \in Reqs : ReqFinds(q) \/ ReqWrites(q) \/ ReqDies(q)
    \/ Tick

Spec == Init /\ [][Next]_vars

(* A login from a client whose fingerprint is p. *)
Tries(r, p) ==
    \E c \in Clients :
        createPrimaryFingerprint(c) = p /\ LoginFindsActive(r, c)

(* The process serves its requests and time passes; of the users, some are  *)
(* assumed to try again.                                                    *)
Fairness ==
    /\ \A r \in LoginReqs : WF_vars(LoginStep(r))
    /\ \A r \in Persistent, p \in Prints : SF_vars(Tries(r, p))
    /\ WF_vars(Tick)

FairSpec == Spec /\ Fairness
-----------------------------------------------------------------------------
TypeOK ==
    /\ dev \in [Prints -> Row]
    /\ login \in [LoginReqs -> LoginState]
    /\ req \in [Reqs -> ReqState]
    /\ stale \subseteq Prints

(* The two endpoints an admin asks about trust. *)

(* isDeviceTrustedForAuth *)
TrustStatus(p, u) ==
    dev[p].user = u /\ dev[p].state = "active" /\ dev[p].trust = "trusted"

(* getUserTrustedDevices *)
Listed(p, u) == dev[p].user = u /\ dev[p].trust = "trusted"

(* The list of a user's trusted devices holds exactly the devices whose     *)
(* trust status is trusted: no logout, trust request and login leave a      *)
(* device blocked and trusted, unless one wrote from an outdated copy.      *)
TrustViewsAgree ==
    \A p \in Prints \ stale, u \in Users : Listed(p, u) <=> TrustStatus(p, u)

(* A logout never locks its user out: the owner of a device is refused only *)
(* if a logout wrote from an outdated copy and lost the reason of its block.*)
OwnerReadmitted ==
    \A r \in LoginReqs :
        login[r].pc = "refused" /\ login[r].copy.user = Caller[r]
            => login[r].print \in stale

(* A device changes hands only when its owner has been logged out for       *)
(* longer than the cooldown, and its new owner starts without trust, unless *)
(* the two logins overlap.                                                  *)
HandedOver ==
    [][\A p \in Prints :
          dev'[p].user # dev[p].user /\ p \notin stale' =>
            \/ dev[p].state = "absent"
            \/ /\ dev[p].state = "blocked" /\ dev[p].blockedFor > Cooldown
               /\ dev'[p].state = "active" /\ dev'[p].trust = "untrusted"]_vars

(* "CRITICAL (0.9+): Block immediately", and a request of curl is given as   *)
(* critical: no login registers the device of a client whose user agent     *)
(* names a tool and no browser.  (The levels of DeviceDetectionService,     *)
(* their effect in applySecurityMeasures.)                                  *)
AutomatedBlocked ==
    \A c \in Clients :
        isAutomatedUserAgent(c.ua) /\ ~isDefinitelyBrowser(c.ua)
            => dev[createPrimaryFingerprint(c)].state = "absent"

(* An owner who keeps trying gets in again after a logout, whatever reason  *)
(* the row has by then, unless the device has changed hands.                *)
OwnerReturns ==
    \A p \in Prints, r \in Persistent :
        dev[p].state = "blocked" /\ dev[p].user = Caller[r]
            ~> dev[p].state # "blocked" \/ dev[p].user # Caller[r]
=============================================================================
