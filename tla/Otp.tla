-------------------------------- MODULE Otp --------------------------------
(***************************************************************************)
(* One-time passwords and the rate limits in front of them: the requests   *)
(* that send a code (sendOtpPhone, sendOtpEmail) and the part of a login    *)
(* (loginPhone, loginEmail) that runs before the login transaction.  The    *)
(* phone and the e-mail handlers differ in one thing, which codes a lookup  *)
(* matches, so an address stands for either.                                *)
(*                                                                         *)
(* Nothing here is locked.  A request reads a row, awaits, and writes the   *)
(* row back: updateOtp writes every column of the copy, a flush writes the  *)
(* columns that differ from the copy.  Each handler is split at its         *)
(* database calls; its copies travel in send and login.                     *)
(***************************************************************************)
EXTENDS Naturals, FiniteSets

CONSTANTS
    Addrs,                 \* telephone numbers and e-mail addresses
    Phones,                \* the addresses that are telephone numbers
    Purposes,              \* what codes are sent for; "login" is one of them
    OtpIds,                \* primary keys of otps; bounds the codes sent
    SendReqs, LoginReqs,   \* slots of requests served at the same time
    None,                  \* no row, no address, no code
    OtpTTL,                \* life of a code (2 min)
    Grace,                 \* findOtp looks this far behind expiresAt (2 min)
    ResendAge,             \* findRecentOtp (2 min)
    WipeAge,               \* deleteOtp (5 min)
    MaxAttempts,           \* wrong guesses per code (5)
    MaxSends, SendWindow,  \* codes per window (5 in 15 min)
    MaxFails, FailWindow,  \* failed logins per window (10 in 60 min)
    MaxTime, MaxFailures   \* bounds: clock, requests that die half-way

ASSUME NumbersAssumption ==
    /\ OtpTTL \in Nat /\ Grace \in Nat /\ ResendAge \in Nat /\ WipeAge \in Nat
    /\ MaxAttempts \in Nat \ {0}
    /\ MaxSends \in Nat \ {0} /\ SendWindow \in Nat
    /\ MaxFails \in Nat \ {0} /\ FailWindow \in Nat
    /\ MaxTime \in Nat /\ MaxFailures \in Nat

ASSUME SetsAssumption ==
    /\ Phones \subseteq Addrs /\ "login" \in Purposes
    /\ IsFiniteSet(OtpIds) /\ IsFiniteSet(SendReqs) /\ IsFiniteSet(LoginReqs)
    /\ None \notin Addrs \cup OtpIds

Otp == [addr : Addrs, purpose : Purposes, createdAt : Nat, expiresAt : Nat,
        attempts : Nat, isUsed : {0, 1}]

RateLimit == [attempts : Nat, windowEnd : Nat]

Keys == Addrs \X {"otp", "login"}

ASSUME NoneIsNoRow == None \notin Otp /\ None \notin RateLimit

VARIABLES
    now,       \* the clock
    otps,      \* the otps table
    born,      \* primary keys handed out so far
    rate,      \* the rate_limits table
    send,      \* send requests in flight
    login,     \* login requests in flight
    failures,  \* requests that died half-way so far
    accepted,  \* history: how often each code was accepted
    wrong,     \* history: how many guesses were refused against each code
    counted,   \* history: codes sent, or logins failed, in this window
    stale      \* history: rows written, or acted on, from an outdated copy

history == <<accepted, wrong, counted, stale>>

vars == <<now, otps, born, rate, send, login, failures, history>>
-----------------------------------------------------------------------------
SendState == [pc : {"idle", "count", "check", "wipe", "create", "deliver"},
              addr : Addrs \cup {None}, purpose : Purposes,
              row : RateLimit \cup {None}, at : Nat]

IdleSend == [pc |-> "idle", addr |-> None, purpose |-> "login", row |-> None,
             at |-> 0]

(* otp is the row as it was read, edit the row as the handler changed it. *)
LoginState == [pc : {"idle", "reset", "find", "compare", "limit", "penalise",
                     "login"},
               addr : Addrs \cup {None}, row : RateLimit \cup {None}, at : Nat,
               id : OtpIds \cup {None}, otp : Otp \cup {None},
               edit : Otp \cup {None}]

IdleLogin == [pc |-> "idle", addr |-> None, row |-> None, at |-> 0,
              id |-> None, otp |-> None, edit |-> None]

Init ==
    /\ now = 0
    /\ otps = [o \in OtpIds |-> None]
    /\ born = {}
    /\ rate = [k \in Keys |-> None]
    /\ send = [r \in SendReqs |-> IdleSend]
    /\ login = [r \in LoginReqs |-> IdleLogin]
    /\ failures = 0
    /\ accepted = [o \in OtpIds |-> 0]
    /\ wrong = [o \in OtpIds |-> 0]
    /\ counted = [k \in Keys |-> 0]
    /\ stale = {}
-----------------------------------------------------------------------------
(* Queries. *)

Stored == {o \in OtpIds : otps[o] # None}

(* A lookup for a phone filters on the number; one for an e-mail has no     *)
(* filter, so it sees the codes of every e-mail address.                    *)
Matches(a, b) == a = b \/ {a, b} \cap Phones = {}

(* What findOtp finds for a login, which asks for codes sent for logins. *)
Findable(a) == {o \in Stored : /\ Matches(otps[o].addr, a)
                               /\ otps[o].purpose = "login"
                               /\ otps[o].expiresAt + Grace > now
                               /\ otps[o].isUsed = 0}

Recent(a, purpose) == {o \in Stored : /\ Matches(otps[o].addr, a)
                                      /\ otps[o].purpose = purpose
                                      /\ otps[o].createdAt + ResendAge > now}

Newest(S) == {o \in S : \A p \in S : otps[p].createdAt <= otps[o].createdAt}

Wiped == {o \in Stored : otps[o].expiresAt + WipeAge > now}

(* Histories speak of rows every write of which saw the previous one: they  *)
(* are dropped when the row turns stale.                                    *)
Tally(tally, x, n) ==
    [tally EXCEPT ![x] = IF x \in stale' THEN 0 ELSE n]

(* The row a flush leaves: the columns the request changed in its copy. *)
Flush(row, copy, edit) ==
    IF row = None THEN None
    ELSE [c \in DOMAIN row |-> IF edit[c] = copy[c] THEN row[c] ELSE edit[c]]
-----------------------------------------------------------------------------
(* The counters.  The window is over when the copy says so. *)

Over(row, at) == at > row.windowEnd

(* Faulty: blocked one request late. *)
BlockedLate(row, max, at) ==
    row # None /\ ~Over(row, at) /\ row.attempts > max

Blocked(row, max, at) ==
    row # None /\ ~Over(row, at) /\ row.attempts >= max

Counted(row, at, window) ==
    IF Over(row, at) THEN [attempts |-> 1, windowEnd |-> at + window]
                     ELSE [row EXCEPT !.attempts = @ + 1]

(* createRateLimit ignores the attempts it is given and stores zero; an     *)
(* insert that meets a row of the same key fails and rolls its flush back.  *)
InsertRate(k, window) ==
    /\ rate[k] = None
    /\ rate' = [rate EXCEPT ![k] = [attempts |-> 0, windowEnd |-> now + window]]
    /\ counted' = [counted EXCEPT ![k] = @ + 1]

(* n requests have been counted if this write opens a window. *)
WriteRate(k, copy, edit, n) ==
    /\ rate' = [rate EXCEPT ![k] = Flush(@, copy, edit)]
    /\ counted' = Tally(counted, k, IF edit.windowEnd # copy.windowEnd THEN n
                                    ELSE counted[k] + 1)

Outdated(row, copy, x) == IF row = copy THEN {} ELSE {x}
-----------------------------------------------------------------------------
(* Sending a code. *)

(* enforceOtpRateLimit reads the counter and refuses a blocked address. *)
SendBegin(r, a, purpose) ==
    LET row == rate[<<a, "otp">>]
    IN /\ send[r].pc = "idle"
       /\ Cardinality(born) + Cardinality({q \in SendReqs : send[q].pc # "idle"})
             < Cardinality(OtpIds)
       /\ ~Blocked(row, MaxSends, now)
       /\ send' = [send EXCEPT ![r] =
                      [pc |-> "count", addr |-> a, purpose |-> purpose,
                       row |-> row, at |-> now]]
       /\ UNCHANGED <<now, failures, otps, born, rate, login, history>>

SendRefuse(r, a) ==
    /\ send[r].pc = "idle"
    /\ Blocked(rate[<<a, "otp">>], MaxSends, now)
    /\ UNCHANGED vars

(* The request passes on to the next step, or ends, leaving its copies. *)
SendAt(r, pc) ==
    send' = [send EXCEPT ![r] = IF pc = "idle" THEN IdleSend
                                ELSE [send[r] EXCEPT !.pc = pc, !.row = None, !.at = 0]]

SendInsert(r) ==
    LET k == <<send[r].addr, "otp">>
    IN /\ send[r].pc = "count" /\ send[r].row = None
       /\ \/ InsertRate(k, SendWindow) /\ SendAt(r, "check")
          \/ rate[k] # None /\ SendAt(r, "idle") /\ UNCHANGED <<rate, counted>>
       /\ UNCHANGED <<now, failures, otps, born, login, accepted, wrong, stale>>

SendCount(r) ==
    LET k == <<send[r].addr, "otp">>
        copy == send[r].row
    IN /\ send[r].pc = "count" /\ copy # None
       /\ stale' = stale \cup Outdated(rate[k], copy, k)
       /\ WriteRate(k, copy, Counted(copy, send[r].at, SendWindow), 1)
       /\ SendAt(r, "check")
       /\ UNCHANGED <<now, failures, otps, born, login, accepted, wrong>>

(* createOtp: otp_limit when a code was created a moment ago for the same   *)
(* purpose.                                                                 *)
SendCheckRecent(r) ==
    /\ send[r].pc = "check"
    /\ SendAt(r, IF Recent(send[r].addr, send[r].purpose) = {} THEN "wipe" ELSE "idle")
    /\ UNCHANGED <<now, failures, otps, born, rate, login, history>>

SendWipe(r) ==
    /\ send[r].pc = "wipe"
    /\ otps' = [o \in OtpIds |-> IF o \in Wiped THEN None ELSE otps[o]]
    /\ SendAt(r, "create")
    /\ UNCHANGED <<now, failures, born, rate, login, history>>

SendCreate(r) ==
    /\ send[r].pc = "create"
    /\ \E o \in OtpIds \ born :
          /\ otps' = [otps EXCEPT ![o] =
                        [addr |-> send[r].addr, purpose |-> send[r].purpose,
                         createdAt |-> now,
                         expiresAt |-> now + OtpTTL, attempts |-> 0, isUsed |-> 0]]
          /\ born' = born \cup {o}
    /\ SendAt(r, "deliver")
    /\ UNCHANGED <<now, failures, rate, login, history>>

(* Delivered or not: the deletion of the code whose delivery failed runs    *)
(* inside the transaction the failure aborts, so the tables stay.           *)
SendDeliver(r) ==
    /\ send[r].pc = "deliver"
    /\ SendAt(r, "idle")
    /\ UNCHANGED <<now, failures, otps, born, rate, login, history>>
-----------------------------------------------------------------------------
(* Logging in with a code. *)

LoginEnds(r) == login' = [login EXCEPT ![r] = IdleLogin]

(* enforceLoginRateLimit; a window that is over is reset before the code is *)
(* looked up, without counting this attempt.                                *)
LoginBegin(r, a) ==
    LET row == rate[<<a, "login">>]
    IN /\ login[r].pc = "idle"
       /\ ~Blocked(row, MaxFails, now)
       /\ login' = [login EXCEPT ![r] =
             IF row # None /\ Over(row, now)
             THEN [IdleLogin EXCEPT !.pc = "reset", !.addr = a, !.row = row, !.at = now]
             ELSE [IdleLogin EXCEPT !.pc = "find", !.addr = a]]
       /\ UNCHANGED <<now, failures, otps, born, rate, send, history>>

LoginRefuse(r, a) ==
    /\ login[r].pc = "idle"
    /\ Blocked(rate[<<a, "login">>], MaxFails, now)
    /\ UNCHANGED vars

LoginReset(r) ==
    LET k == <<login[r].addr, "login">>
        copy == login[r].row
    IN /\ login[r].pc = "reset"
       /\ stale' = stale \cup Outdated(rate[k], copy, k)
       /\ WriteRate(k, copy,
                    [attempts |-> 0, windowEnd |-> login[r].at + FailWindow], 0)
       /\ login' = [login EXCEPT ![r] =
                       [IdleLogin EXCEPT !.pc = "find", !.addr = login[r].addr]]
       /\ UNCHANGED <<now, failures, otps, born, send, accepted, wrong>>

LoginFind(r) ==
    LET found == Newest(Findable(login[r].addr))
    IN /\ login[r].pc = "find"
       /\ \/ found = {} /\ LoginEnds(r)
          \/ \E o \in found :
                login' = [login EXCEPT ![r].pc = "compare", ![r].id = o,
                                       ![r].otp = otps[o], ![r].edit = otps[o]]
       /\ UNCHANGED <<now, failures, otps, born, rate, send, history>>

(* nativeUpdate by primary key; a row that is gone stays gone. *)
UpdateOtp(id, row) == [otps EXCEPT ![id] = IF @ = None THEN None ELSE row]

(* Faulty: the last attempt is not noticed. *)
AttemptedLate(otp) ==
    [otp EXCEPT !.attempts = @ + 1,
                !.expiresAt = IF otp.attempts >= MaxAttempts THEN now ELSE @]

(* Faulty: the column counts down. *)
AttemptsLeft(otp) == [otp EXCEPT !.attempts = @ - 1]

Attempted(otp) ==
    [otp EXCEPT !.attempts = @ + 1,
                !.expiresAt = IF otp.attempts + 1 >= MaxAttempts THEN now ELSE @]

(* The code differs: the attempt is written on the code... *)
RecordWrong(r) ==
    LET o == login[r].id
        edit == Attempted(login[r].otp)
    IN /\ login[r].pc = "compare"
       /\ otps' = UpdateOtp(o, edit)
       /\ stale' = stale \cup Outdated(otps[o], login[r].otp, o)
       /\ wrong' = Tally(wrong, o, wrong[o] + 1)
       /\ accepted' = Tally(accepted, o, accepted[o])
       /\ login' = [login EXCEPT ![r].pc = "limit", ![r].edit = edit]
       /\ UNCHANGED <<now, failures, born, rate, send, counted>>

(* ...then incrementLoginRateLimit reads the counter... *)
LimitRead(r) ==
    /\ login[r].pc = "limit"
    /\ login' = [login EXCEPT ![r].pc = "penalise", ![r].at = now,
                              ![r].row = rate[<<login[r].addr, "login">>]]
    /\ UNCHANGED <<now, failures, otps, born, rate, send, history>>

(* ...and the flush that writes it writes the changed columns of the code   *)
(* once more: the code is an entity of the same unit of work.  An insert    *)
(* that meets another request's writes nothing, and this failure is not     *)
(* counted in the row.                                                      *)
RecordFailure(r) ==
    LET k == <<login[r].addr, "login">>
        o == login[r].id
        copy == login[r].row
        again == Flush(otps[o], login[r].otp, login[r].edit)
        clash == copy = None /\ rate[k] # None
    IN /\ login[r].pc = "penalise"
       /\ stale' = stale \cup IF clash THEN {}
                             ELSE Outdated(rate[k], copy, k) \cup Outdated(otps[o], again, o)
       /\ otps' = IF clash THEN otps ELSE [otps EXCEPT ![o] = again]
       /\ \/ copy = None /\ InsertRate(k, FailWindow)
          \/ copy # None /\ WriteRate(k, copy, Counted(copy, login[r].at, FailWindow), 1)
          \/ clash /\ counted' = [counted EXCEPT ![k] = @ + 1] /\ UNCHANGED rate
       /\ wrong' = Tally(wrong, o, wrong[o])
       /\ accepted' = Tally(accepted, o, accepted[o])
       /\ LoginEnds(r)
       /\ UNCHANGED <<now, failures, born, send>>

(* Faulty: the code is not marked. *)
UsedNever(otp) == otp

Used(otp) == [otp EXCEPT !.isUsed = 1]

(* The code matches. *)
MarkUsed(r) ==
    LET o == login[r].id
        edit == Used(login[r].otp)
    IN /\ login[r].pc = "compare"
       /\ otps' = UpdateOtp(o, edit)
       /\ stale' = stale \cup Outdated(otps[o], login[r].otp, o)
       /\ accepted' = Tally(accepted, o, accepted[o] + 1)
       /\ wrong' = Tally(wrong, o, wrong[o])
       /\ login' = [login EXCEPT ![r].pc = "login", ![r].edit = edit]
       /\ UNCHANGED <<now, failures, born, rate, send, counted>>

(* The login transaction (module Sessions) commits, and its flush writes    *)
(* the changed column of the code again; or it rolls back.                  *)
LoginDone(r) ==
    LET o == login[r].id
    IN /\ login[r].pc = "login"
       /\ \/ otps' = [otps EXCEPT ![o] = Flush(@, login[r].otp, login[r].edit)]
          \/ UNCHANGED otps
       /\ LoginEnds(r)
       /\ UNCHANGED <<now, failures, born, rate, send, history>>
-----------------------------------------------------------------------------
(* The process dies, or a statement fails: the request ends where it is. *)
Abandon ==
    /\ \/ \E r \in SendReqs : send[r].pc # "idle" /\ SendAt(r, "idle")
                                                  /\ UNCHANGED login
       \/ \E r \in LoginReqs : login[r].pc # "idle" /\ LoginEnds(r)
                                                    /\ UNCHANGED send
    /\ failures < MaxFailures
    /\ failures' = failures + 1
    /\ UNCHANGED <<now, otps, born, rate, history>>

Tick ==
    /\ now < MaxTime
    /\ now' = now + 1
    /\ UNCHANGED <<failures, otps, born, rate, send, login, history>>

Next ==
    \/ \E r \in SendReqs, a \in Addrs :
          SendRefuse(r, a) \/ \E purpose \in Purposes : SendBegin(r, a, purpose)
    \/ \E r \in SendReqs : \/ SendInsert(r) \/ SendCount(r) \/ SendCheckRecent(r)
                           \/ SendWipe(r) \/ SendCreate(r) \/ SendDeliver(r)
    \/ \E r \in LoginReqs, a \in Addrs : LoginBegin(r, a) \/ LoginRefuse(r, a)
    \/ \E r \in LoginReqs : \/ LoginReset(r) \/ LoginFind(r) \/ RecordWrong(r)
                            \/ LimitRead(r) \/ RecordFailure(r) \/ MarkUsed(r)
                            \/ LoginDone(r)
    \/ Abandon
    \/ Tick

Spec == Init /\ [][Next]_vars
-----------------------------------------------------------------------------
(* Every variable stays in its domain, and only codes that were sent are    *)
(* stored, copied, guessed or accepted.                                     *)
TypeOK ==
    /\ now \in Nat
    /\ otps \in [OtpIds -> Otp \cup {None}]
    /\ born \subseteq OtpIds
    /\ rate \in [Keys -> RateLimit \cup {None}]
    /\ send \in [SendReqs -> SendState]
    /\ login \in [LoginReqs -> LoginState]
    /\ failures \in Nat
    /\ accepted \in [OtpIds -> Nat]
    /\ wrong \in [OtpIds -> Nat]
    /\ counted \in [Keys -> Nat]
    /\ stale \subseteq OtpIds \cup Keys

(* A code logs in once, whatever wrong guesses, re-flushes, wipes and       *)
(* crashes come between, as long as no request wrote its row from a copy    *)
(* that another request had outdated.  (isUsed of findOtp and loginPhone.)  *)
OnceUnlessStale == \A o \in OtpIds \ stale : accepted[o] <= 1

(* No wrong guess is forgotten, and the guess that reaches maxAttempts      *)
(* brings the expiry forward, unless a write came from an outdated copy.    *)
GuessesCounted ==
    \A o \in Stored \ stale :
        /\ otps[o].attempts = wrong[o]
        /\ IF wrong[o] >= MaxAttempts THEN otps[o].expiresAt <= now
           ELSE otps[o].expiresAt = otps[o].createdAt + OtpTTL

(* How many requests one window admits: the insert stores zero, so the      *)
(* first window takes one more than the limit.  Failed logins are checked   *)
(* long before they are counted: of those that find no row all but one      *)
(* clash and are counted by none, and when the limit is reached all but one *)
(* in flight may have passed it.  Either adds as many as are served at once.*)
WindowBound ==
    \A a \in Addrs :
        /\ <<a, "otp">> \in stale \/ counted[<<a, "otp">>] <= MaxSends + 1
        /\ \/ <<a, "login">> \in stale
           \/ counted[<<a, "login">>] <= MaxFails + 2 * Cardinality(LoginReqs) - 1

(* "Maximum allowed verification attempts before OTP is invalidated": no    *)
(* code is accepted after maxAttempts wrong guesses (entity OtpEntity).     *)
ExhaustedNeverAccepted ==
    [][\A o \in OtpIds : accepted'[o] > accepted[o] => wrong[o] < MaxAttempts]_vars

(* "Delete expired OTPs": a row leaves the table only after its expiry      *)
(* (createOtp of the OTP service).                                          *)
OnlyExpiredDeleted ==
    [][\A o \in Stored : otps'[o] = None => otps[o].expiresAt <= now]_vars
=============================================================================
