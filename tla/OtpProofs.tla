----------------------------- MODULE OtpProofs -----------------------------
(* Proofs about Otp, for every value of its constants. *)
EXTENDS Otp, FiniteSetTheorems, TLAPS

HoldsCode == {"compare", "limit", "penalise", "login"}

(* What the types of Otp rest on: keys of codes are not handed out twice,   *)
(* and a request carries what the step it has reached needs.                *)
WellFormed ==
    /\ Stored \subseteq born
    /\ \A r \in SendReqs : send[r].pc # "idle" => send[r].addr \in Addrs
    /\ \A r \in LoginReqs :
          /\ login[r].pc # "idle" => login[r].addr \in Addrs
          /\ login[r].pc = "reset" => login[r].row \in RateLimit
          /\ login[r].pc \in HoldsCode => /\ login[r].id \in born
                                          /\ login[r].otp \in Otp
                                          /\ login[r].edit \in Otp

TypeInv == TypeOK /\ WellFormed

LEMMA FlushRateType ==
    ASSUME NEW row \in RateLimit \cup {None},
           NEW copy \in RateLimit, NEW edit \in RateLimit
    PROVE  Flush(row, copy, edit) \in RateLimit \cup {None}
<1>1. CASE row = None
    BY <1>1 DEF Flush
<1>2. CASE row # None
  <2> DEFINE w == [attempts |-> IF edit.attempts = copy.attempts THEN row.attempts
                                ELSE edit.attempts,
                   windowEnd |-> IF edit.windowEnd = copy.windowEnd
                                 THEN row.windowEnd ELSE edit.windowEnd]
  <2>1. DOMAIN row = {"attempts", "windowEnd"}
    BY <1>2 DEF RateLimit
  <2>2. w \in RateLimit
    BY <1>2 DEF RateLimit
  <2>3. Flush(row, copy, edit) = w
    BY <1>2, <2>1 DEF Flush, RateLimit
  <2> QED
    BY <2>2, <2>3
<1> QED
    BY <1>1, <1>2

(* A flush of a code: the columns it changed, the rest as it finds them. *)
LEMMA FlushOtpType ==
    ASSUME NEW row \in Otp, NEW copy \in Otp, NEW edit \in Otp
    PROVE  /\ Flush(row, copy, edit) \in Otp
           /\ \A c \in {"addr", "purpose", "createdAt", "expiresAt", "attempts", "isUsed"} :
                 Flush(row, copy, edit)[c] = IF edit[c] = copy[c] THEN row[c]
                                             ELSE edit[c]
<1> DEFINE col(e, c, x) == IF e = c THEN x ELSE e
           w == [addr |-> col(edit.addr, copy.addr, row.addr),
                 purpose |-> col(edit.purpose, copy.purpose, row.purpose),
                 createdAt |-> col(edit.createdAt, copy.createdAt, row.createdAt),
                 expiresAt |-> col(edit.expiresAt, copy.expiresAt, row.expiresAt),
                 attempts |-> col(edit.attempts, copy.attempts, row.attempts),
                 isUsed |-> col(edit.isUsed, copy.isUsed, row.isUsed)]
<1>1. DOMAIN row = {"addr", "purpose", "createdAt", "expiresAt", "attempts", "isUsed"}
    BY DEF Otp
<1>2. w \in Otp
    BY DEF Otp
<1>3. row # None
    BY NoneIsNoRow
<1>4. Flush(row, copy, edit) = w
    BY <1>1, <1>3 DEF Flush, Otp
<1> QED
    BY <1>1, <1>2, <1>3, <1>4 DEF Flush

LEMMA CountedType ==
    ASSUME NEW row \in RateLimit, NEW at \in Nat, NEW window \in Nat
    PROVE  Counted(row, at, window) \in RateLimit
BY DEF Counted, Over, RateLimit

LEMMA AttemptedType ==
    ASSUME NEW otp \in Otp, now \in Nat
    PROVE  /\ Attempted(otp) \in Otp
           /\ Attempted(otp).isUsed = otp.isUsed
           /\ Attempted(otp).createdAt = otp.createdAt
           /\ Attempted(otp).attempts = otp.attempts + 1
           /\ Attempted(otp).expiresAt =
                 IF otp.attempts + 1 >= MaxAttempts THEN now ELSE otp.expiresAt
<1>1. \A x \in Nat, e \in Nat :
          /\ [otp EXCEPT !.attempts = x, !.expiresAt = e] \in Otp
          /\ [otp EXCEPT !.attempts = x, !.expiresAt = e].isUsed = otp.isUsed
          /\ [otp EXCEPT !.attempts = x, !.expiresAt = e].createdAt = otp.createdAt
          /\ [otp EXCEPT !.attempts = x, !.expiresAt = e].attempts = x
          /\ [otp EXCEPT !.attempts = x, !.expiresAt = e].expiresAt = e
    BY DEF Otp
<1>2. /\ otp.attempts + 1 \in Nat
      /\ (IF otp.attempts + 1 >= MaxAttempts THEN now ELSE otp.expiresAt) \in Nat
    BY DEF Otp
<1> QED
    BY <1>1, <1>2 DEF Attempted

LEMMA UsedType ==
    ASSUME NEW otp \in Otp
    PROVE  /\ Used(otp) \in Otp
           /\ Used(otp).isUsed = 1
           /\ Used(otp).addr = otp.addr
           /\ Used(otp).createdAt = otp.createdAt
           /\ Used(otp).expiresAt = otp.expiresAt
           /\ Used(otp).attempts = otp.attempts
BY DEF Used, Otp

LEMMA TallyType ==
    ASSUME NEW S, NEW tally \in [S -> Nat], NEW x, NEW n \in Nat
    PROVE  Tally(tally, x, n) \in [S -> Nat]
BY DEF Tally

LEMMA InitTypes == Init => TypeInv
<1> SUFFICES ASSUME Init PROVE TypeInv
    OBVIOUS
<1>1. IdleSend \in SendState
    BY SetsAssumption DEF IdleSend, SendState
<1>2. IdleLogin \in LoginState
    BY DEF IdleLogin, LoginState
<1>3. TypeOK
    BY <1>1, <1>2 DEF Init, TypeOK
<1>4. WellFormed
    BY DEF Init, WellFormed, Stored, IdleSend, IdleLogin, HoldsCode
<1> QED
    BY <1>3, <1>4 DEF TypeInv

LEMMA SendAtType ==
    ASSUME TypeInv, NEW r \in SendReqs,
           NEW pc \in {"idle", "check", "wipe", "create", "deliver"},
           send[r].pc # "idle", SendAt(r, pc)
    PROVE  /\ send' \in [SendReqs -> SendState]
           /\ \A q \in SendReqs : send'[q].pc # "idle" => send'[q].addr \in Addrs
<1> DEFINE s == IF pc = "idle" THEN IdleSend
                ELSE [send[r] EXCEPT !.pc = pc, !.row = None, !.at = 0]
<1>1. send[r].addr \in Addrs /\ send[r] \in SendState
    BY DEF TypeInv, TypeOK, WellFormed
<1>2. s \in SendState /\ (s.pc # "idle" => s.addr \in Addrs)
    BY <1>1, SetsAssumption DEF IdleSend, SendState
<1>3. send' = [send EXCEPT ![r] = s]
    BY DEF SendAt
<1> QED
    BY <1>2, <1>3 DEF TypeInv, TypeOK, WellFormed

LEMMA RateTypes ==
    ASSUME TypeInv, NEW k \in Keys
    PROVE  /\ \A window \in Nat : InsertRate(k, window) =>
                 /\ rate' \in [Keys -> RateLimit \cup {None}]
                 /\ counted' \in [Keys -> Nat]
           /\ \A copy \in RateLimit, edit \in RateLimit, n \in Nat :
                 WriteRate(k, copy, edit, n) =>
                 /\ rate' \in [Keys -> RateLimit \cup {None}]
                 /\ counted' \in [Keys -> Nat]
<1>1. ASSUME NEW window \in Nat, InsertRate(k, window)
      PROVE  /\ rate' \in [Keys -> RateLimit \cup {None}]
             /\ counted' \in [Keys -> Nat]
  <2>1. [attempts |-> 0, windowEnd |-> now + window] \in RateLimit
    BY DEF TypeInv, TypeOK, RateLimit
  <2> QED
    BY <1>1, <2>1 DEF InsertRate, TypeInv, TypeOK
<1>2. ASSUME NEW copy \in RateLimit, NEW edit \in RateLimit, NEW n \in Nat,
             WriteRate(k, copy, edit, n)
      PROVE  /\ rate' \in [Keys -> RateLimit \cup {None}]
             /\ counted' \in [Keys -> Nat]
  <2>1. Flush(rate[k], copy, edit) \in RateLimit \cup {None}
    BY FlushRateType DEF TypeInv, TypeOK
  <2>2. rate' \in [Keys -> RateLimit \cup {None}]
    BY <1>2, <2>1 DEF WriteRate, TypeInv, TypeOK
  <2>3. (IF edit.windowEnd # copy.windowEnd THEN n ELSE counted[k] + 1) \in Nat
    BY DEF TypeInv, TypeOK
  <2>4. counted' \in [Keys -> Nat]
    BY <1>2, <2>3, TallyType DEF WriteRate, TypeInv, TypeOK
  <2> QED
    BY <2>2, <2>4
<1> QED
    BY <1>1, <1>2

LEMMA SendTypes ==
    ASSUME TypeInv, NEW r \in SendReqs,
           \/ \E a \in Addrs, purpose \in Purposes : SendBegin(r, a, purpose)
           \/ SendInsert(r) \/ SendCount(r) \/ SendCheckRecent(r)
           \/ SendWipe(r) \/ SendCreate(r) \/ SendDeliver(r)
    PROVE  TypeInv'
<1> USE DEF TypeInv
<1> DEFINE k == <<send[r].addr, "otp">>
<1>1. send[r].pc # "idle" => k \in Keys
    BY DEF WellFormed, Keys
<1>2. ASSUME NEW a \in Addrs, NEW purpose \in Purposes, SendBegin(r, a, purpose)
      PROVE  TypeInv'
  <2> DEFINE s == [pc |-> "count", addr |-> a, purpose |-> purpose, row |-> rate[<<a, "otp">>], at |-> now]
  <2>1. <<a, "otp">> \in Keys
    BY DEF Keys
  <2>2. rate[<<a, "otp">>] \in RateLimit \cup {None}
    BY <2>1 DEF TypeOK
  <2>3. s \in SendState /\ s.addr = a
    BY <2>2 DEF TypeOK, SendState
  <2>4. send' = [send EXCEPT ![r] = s]
    BY <1>2 DEF SendBegin
  <2>5. /\ send' \in [SendReqs -> SendState]
        /\ \A q \in SendReqs : send'[q].pc # "idle" => send'[q].addr \in Addrs
    BY <2>3, <2>4 DEF TypeOK, WellFormed
  <2>6. UNCHANGED <<now, failures, otps, born, rate, login, history>>
    BY <1>2 DEF SendBegin
  <2> QED
    BY <2>5, <2>6 DEF TypeOK, WellFormed, Stored, history
<1>3. CASE SendInsert(r)
  <2>1. send[r].pc # "idle"
    BY <1>3 DEF SendInsert
  <2>2. /\ send' \in [SendReqs -> SendState]
        /\ \A q \in SendReqs : send'[q].pc # "idle" => send'[q].addr \in Addrs
    BY <1>3, <2>1, SendAtType DEF SendInsert
  <2>3. rate' \in [Keys -> RateLimit \cup {None}] /\ counted' \in [Keys -> Nat]
    BY <1>1, <1>3, <2>1, RateTypes, NumbersAssumption DEF SendInsert, TypeOK
  <2> QED
    BY <1>3, <2>2, <2>3 DEF SendInsert, TypeOK, WellFormed, Stored
<1>4. CASE SendCount(r)
  <2>1. send[r].pc # "idle"
    BY <1>4 DEF SendCount
  <2>2. /\ send' \in [SendReqs -> SendState]
        /\ \A q \in SendReqs : send'[q].pc # "idle" => send'[q].addr \in Addrs
    BY <1>4, <2>1, SendAtType DEF SendCount
  <2>3. send[r].row \in RateLimit /\ send[r].at \in Nat
    BY <1>4 DEF SendCount, TypeOK, SendState
  <2>4. Counted(send[r].row, send[r].at, SendWindow) \in RateLimit
    BY <2>3, CountedType, NumbersAssumption
  <2>5. rate' \in [Keys -> RateLimit \cup {None}] /\ counted' \in [Keys -> Nat]
    BY <1>1, <1>4, <2>1, <2>3, <2>4, RateTypes DEF SendCount
  <2>6. stale' \subseteq OtpIds \cup Keys
    BY <1>1, <1>4, <2>1 DEF SendCount, Outdated, TypeOK
  <2> QED
    BY <1>4, <2>2, <2>5, <2>6 DEF SendCount, TypeOK, WellFormed, Stored
<1>5. CASE SendCheckRecent(r)
  <2>1. /\ send' \in [SendReqs -> SendState]
        /\ \A q \in SendReqs : send'[q].pc # "idle" => send'[q].addr \in Addrs
    BY <1>5, SendAtType DEF SendCheckRecent
  <2> QED
    BY <1>5, <2>1 DEF SendCheckRecent, TypeOK, WellFormed, Stored, history
<1>6. CASE SendWipe(r)
  <2>1. /\ send' \in [SendReqs -> SendState]
        /\ \A q \in SendReqs : send'[q].pc # "idle" => send'[q].addr \in Addrs
    BY <1>6, SendAtType DEF SendWipe
  <2> QED
    BY <1>6, <2>1 DEF SendWipe, TypeOK, WellFormed, Stored, history
<1>7. CASE SendCreate(r)
  <2>1. /\ send' \in [SendReqs -> SendState]
        /\ \A q \in SendReqs : send'[q].pc # "idle" => send'[q].addr \in Addrs
    BY <1>7, SendAtType DEF SendCreate
  <2>2. send[r].addr \in Addrs /\ send[r].purpose \in Purposes
    BY <1>7 DEF SendCreate, WellFormed, TypeOK, SendState
  <2>3. [addr |-> send[r].addr, purpose |-> send[r].purpose, createdAt |-> now,
         expiresAt |-> now + OtpTTL, attempts |-> 0, isUsed |-> 0] \in Otp
    BY <2>2, NumbersAssumption DEF Otp, TypeOK
  <2> QED
    BY <1>7, <2>1, <2>3 DEF SendCreate, TypeOK, WellFormed, Stored, history
<1>8. CASE SendDeliver(r)
  <2>1. /\ send' \in [SendReqs -> SendState]
        /\ \A q \in SendReqs : send'[q].pc # "idle" => send'[q].addr \in Addrs
    BY <1>8, SendAtType DEF SendDeliver
  <2> QED
    BY <1>8, <2>1 DEF SendDeliver, TypeOK, WellFormed, Stored, history
<1> QED
    BY <1>2, <1>3, <1>4, <1>5, <1>6, <1>7, <1>8

LEMMA LoginEndsType ==
    ASSUME TypeInv, NEW r \in LoginReqs, LoginEnds(r)
    PROVE  /\ login' \in [LoginReqs -> LoginState]
           /\ \A q \in LoginReqs : login'[q] = IF q = r THEN IdleLogin ELSE login[q]
BY DEF LoginEnds, TypeInv, TypeOK, IdleLogin, LoginState

LEMMA LoginTypes ==
    ASSUME TypeInv, NEW r \in LoginReqs,
           \/ \E a \in Addrs : LoginBegin(r, a)
           \/ LoginReset(r) \/ LoginFind(r) \/ RecordWrong(r) \/ LimitRead(r)
           \/ RecordFailure(r) \/ MarkUsed(r) \/ LoginDone(r)
    PROVE  TypeInv'
<1> USE DEF TypeInv
<1> DEFINE k == <<login[r].addr, "login">>
           o == login[r].id
<1>1. login[r].pc # "idle" => k \in Keys
    BY DEF WellFormed, Keys
<1>2. login[r].pc \in HoldsCode => /\ o \in OtpIds /\ o \in born
                                   /\ login[r].otp \in Otp /\ login[r].edit \in Otp
    BY DEF WellFormed, TypeOK
<1>3. ASSUME NEW a \in Addrs, LoginBegin(r, a)
      PROVE  TypeInv'
  <2> DEFINE row == rate[<<a, "login">>]
             l == IF row # None /\ Over(row, now)
                  THEN [IdleLogin EXCEPT !.pc = "reset", !.addr = a,
                                         !.row = row, !.at = now]
                  ELSE [IdleLogin EXCEPT !.pc = "find", !.addr = a]
  <2>1. row \in RateLimit \cup {None}
    BY DEF TypeOK, Keys
  <2>2. l \in LoginState /\ l.addr = a /\ l.pc \in {"reset", "find"}
    BY <2>1 DEF IdleLogin, LoginState, TypeOK
  <2>3. l.pc = "reset" => l.row \in RateLimit
    BY <2>1 DEF IdleLogin
  <2>4. login' = [login EXCEPT ![r] = l]
    BY <1>3 DEF LoginBegin
  <2>5. WellFormed' /\ login' \in [LoginReqs -> LoginState]
    BY <1>3, <2>2, <2>3, <2>4
       DEF LoginBegin, TypeOK, WellFormed, HoldsCode, Stored
  <2> QED
    BY <1>3, <2>5 DEF LoginBegin, TypeOK, history
<1>4. CASE LoginReset(r)
  <2> DEFINE l == [IdleLogin EXCEPT !.pc = "find", !.addr = login[r].addr]
             edit == [attempts |-> 0, windowEnd |-> login[r].at + FailWindow]
  <2>1. /\ login[r].pc = "reset" /\ login[r].addr \in Addrs
        /\ login[r].row \in RateLimit /\ login[r].at \in Nat
    BY <1>4 DEF LoginReset, WellFormed, TypeOK, LoginState
  <2>2. edit \in RateLimit
    BY <2>1, NumbersAssumption DEF RateLimit
  <2>3. WriteRate(k, login[r].row, edit, 0)
    BY <1>4 DEF LoginReset
  <2>4. rate' \in [Keys -> RateLimit \cup {None}] /\ counted' \in [Keys -> Nat]
    BY <1>1, <2>1, <2>2, <2>3, RateTypes
  <2>5. l \in LoginState /\ l.pc = "find" /\ l.addr \in Addrs
    BY <2>1 DEF IdleLogin, LoginState
  <2>6. login' = [login EXCEPT ![r] = l]
    BY <1>4 DEF LoginReset
  <2>7. WellFormed' /\ login' \in [LoginReqs -> LoginState]
    BY <1>4, <2>5, <2>6 DEF LoginReset, TypeOK, WellFormed, HoldsCode, Stored
  <2>8. stale' \subseteq OtpIds \cup Keys
    BY <1>1, <1>4, <2>1 DEF LoginReset, Outdated, TypeOK
  <2> QED
    BY <1>4, <2>4, <2>7, <2>8 DEF LoginReset, TypeOK
<1>5. CASE LoginFind(r)
  <2>1. CASE LoginEnds(r)
    <3>1. UNCHANGED <<now, failures, otps, born, rate, send, history>>
      BY <1>5 DEF LoginFind
    <3>2. WellFormed'
      BY <2>1, <3>1, LoginEndsType DEF WellFormed, HoldsCode, Stored, IdleLogin
    <3> QED
      BY <2>1, <3>1, <3>2, LoginEndsType DEF TypeOK, history
  <2>2. ASSUME NEW p \in Newest(Findable(login[r].addr)),
               login' = [login EXCEPT ![r].pc = "compare", ![r].id = p,
                                      ![r].otp = otps[p], ![r].edit = otps[p]]
        PROVE  TypeInv'
    <3>1. p \in OtpIds /\ p \in born /\ otps[p] \in Otp
      BY DEF Newest, Findable, Stored, TypeOK, WellFormed
    <3> DEFINE l == [login[r] EXCEPT !.pc = "compare", !.id = p,
                                     !.otp = otps[p], !.edit = otps[p]]
    <3>2. /\ l \in LoginState /\ l.pc = "compare" /\ l.addr = login[r].addr
          /\ l.id = p /\ l.otp = otps[p] /\ l.edit = otps[p]
      BY <3>1 DEF TypeOK, LoginState
    <3>3. login' = [login EXCEPT ![r] = l]
      BY <2>2 DEF TypeOK, LoginState
    <3>4. login' \in [LoginReqs -> LoginState]
      BY <3>2, <3>3 DEF TypeOK
    <3>5. login[r].addr \in Addrs
      BY <1>5 DEF LoginFind, WellFormed
    <3>6. \A q \in LoginReqs : login'[q] = IF q = r THEN l ELSE login[q]
      BY <3>3 DEF TypeOK
    <3>7. UNCHANGED <<now, failures, otps, born, rate, send, history>>
      BY <1>5 DEF LoginFind
    <3>8. WellFormed'
      BY <3>1, <3>2, <3>5, <3>6, <3>7 DEF WellFormed, Stored, HoldsCode
    <3> QED
      BY <3>4, <3>7, <3>8 DEF TypeOK, history
  <2> QED
    BY <1>5, <2>1, <2>2 DEF LoginFind
<1>6. \A p \in OtpIds, row \in Otp :
         /\ UpdateOtp(p, row) \in [OtpIds -> Otp \cup {None}]
         /\ \A q \in OtpIds : UpdateOtp(p, row)[q] # None => otps[q] # None
    BY DEF UpdateOtp, TypeOK
<1>7. CASE RecordWrong(r)
  <2> DEFINE edit == Attempted(login[r].otp)
             l == [login[r] EXCEPT !.pc = "limit", !.edit = edit]
  <2>1. login[r].pc = "compare"
    BY <1>7 DEF RecordWrong
  <2>2. o \in OtpIds /\ o \in born /\ login[r].otp \in Otp /\ edit \in Otp
    BY <1>2, <2>1, AttemptedType DEF HoldsCode, TypeOK
  <2>3. /\ l \in LoginState /\ l.pc = "limit" /\ l.addr = login[r].addr
        /\ l.id = o /\ l.otp = login[r].otp /\ l.edit = edit
    BY <2>2 DEF TypeOK, LoginState
  <2>4. login' = [login EXCEPT ![r] = l]
    BY <1>7 DEF RecordWrong, TypeOK, LoginState
  <2>5. /\ login' \in [LoginReqs -> LoginState]
        /\ \A q \in LoginReqs : login'[q] = IF q = r THEN l ELSE login[q]
    BY <2>3, <2>4 DEF TypeOK
  <2>6. otps' = UpdateOtp(o, edit)
    BY <1>7 DEF RecordWrong
  <2>7. otps' \in [OtpIds -> Otp \cup {None}] /\ Stored' \subseteq Stored
    BY <1>6, <2>2, <2>6 DEF Stored
  <2>8. UNCHANGED <<now, failures, born, rate, send, counted>>
    BY <1>7 DEF RecordWrong
  <2>9. WellFormed'
    BY <2>1, <2>2, <2>3, <2>5, <2>7, <2>8 DEF WellFormed, HoldsCode
  <2>10. /\ wrong[o] + 1 \in Nat /\ accepted[o] \in Nat
         /\ wrong' = Tally(wrong, o, wrong[o] + 1)
         /\ accepted' = Tally(accepted, o, accepted[o])
    BY <1>7, <2>2 DEF RecordWrong, TypeOK
  <2>11. wrong' \in [OtpIds -> Nat] /\ accepted' \in [OtpIds -> Nat]
    BY <2>10, TallyType DEF TypeOK
  <2>12. stale' \subseteq OtpIds \cup Keys
    BY <1>7, <2>2 DEF RecordWrong, Outdated, TypeOK
  <2> QED
    BY <2>5, <2>7, <2>8, <2>9, <2>11, <2>12 DEF TypeOK
<1>8. CASE MarkUsed(r)
  <2> DEFINE edit == Used(login[r].otp)
             l == [login[r] EXCEPT !.pc = "login", !.edit = edit]
  <2>1. login[r].pc = "compare"
    BY <1>8 DEF MarkUsed
  <2>2. o \in OtpIds /\ o \in born /\ login[r].otp \in Otp /\ edit \in Otp
    BY <1>2, <2>1, UsedType DEF HoldsCode, TypeOK
  <2>3. /\ l \in LoginState /\ l.pc = "login" /\ l.addr = login[r].addr
        /\ l.id = o /\ l.otp = login[r].otp /\ l.edit = edit
    BY <2>2 DEF TypeOK, LoginState
  <2>4. login' = [login EXCEPT ![r] = l]
    BY <1>8 DEF MarkUsed, TypeOK, LoginState
  <2>5. /\ login' \in [LoginReqs -> LoginState]
        /\ \A q \in LoginReqs : login'[q] = IF q = r THEN l ELSE login[q]
    BY <2>3, <2>4 DEF TypeOK
  <2>6. otps' = UpdateOtp(o, edit)
    BY <1>8 DEF MarkUsed
  <2>7. otps' \in [OtpIds -> Otp \cup {None}] /\ Stored' \subseteq Stored
    BY <1>6, <2>2, <2>6 DEF Stored
  <2>8. UNCHANGED <<now, failures, born, rate, send, counted>>
    BY <1>8 DEF MarkUsed
  <2>9. WellFormed'
    BY <2>1, <2>2, <2>3, <2>5, <2>7, <2>8 DEF WellFormed, HoldsCode
  <2>10. /\ wrong[o] \in Nat /\ accepted[o] + 1 \in Nat
         /\ wrong' = Tally(wrong, o, wrong[o])
         /\ accepted' = Tally(accepted, o, accepted[o] + 1)
    BY <1>8, <2>2 DEF MarkUsed, TypeOK
  <2>11. wrong' \in [OtpIds -> Nat] /\ accepted' \in [OtpIds -> Nat]
    BY <2>10, TallyType DEF TypeOK
  <2>12. stale' \subseteq OtpIds \cup Keys
    BY <1>8, <2>2 DEF MarkUsed, Outdated, TypeOK
  <2> QED
    BY <2>5, <2>7, <2>8, <2>9, <2>11, <2>12 DEF TypeOK
<1>9. CASE LimitRead(r)
  <2> DEFINE row == rate[k]
             l == [login[r] EXCEPT !.pc = "penalise", !.at = now, !.row = row]
  <2>1. login[r].pc = "limit"
    BY <1>9 DEF LimitRead
  <2>2. row \in RateLimit \cup {None}
    BY <1>1, <2>1 DEF TypeOK
  <2>3. /\ l \in LoginState /\ l.pc = "penalise" /\ l.addr = login[r].addr
        /\ l.id = o /\ l.otp = login[r].otp /\ l.edit = login[r].edit
    BY <2>2 DEF TypeOK, LoginState
  <2>4. login' = [login EXCEPT ![r] = l]
    BY <1>9 DEF LimitRead, TypeOK, LoginState
  <2>5. /\ login' \in [LoginReqs -> LoginState]
        /\ \A q \in LoginReqs : login'[q] = IF q = r THEN l ELSE login[q]
    BY <2>3, <2>4 DEF TypeOK
  <2>6. UNCHANGED <<now, failures, otps, born, rate, send, history>>
    BY <1>9 DEF LimitRead
  <2>7. WellFormed'
    BY <2>1, <2>3, <2>5, <2>6 DEF WellFormed, HoldsCode, Stored
  <2> QED
    BY <2>5, <2>6, <2>7 DEF TypeOK, history
<1>10. ASSUME o \in OtpIds, login[r].otp \in Otp, login[r].edit \in Otp
       PROVE  Flush(otps[o], login[r].otp, login[r].edit) \in Otp \cup {None}
  <2>1. CASE otps[o] = None
    BY <2>1 DEF Flush
  <2>2. CASE otps[o] # None
    <3>1. otps[o] \in Otp
      BY <1>10, <2>2 DEF TypeOK
    <3>2. Flush(otps[o], login[r].otp, login[r].edit) \in Otp
      BY <1>10, <3>1, FlushOtpType
    <3> QED
      BY <3>2
  <2> QED
    BY <2>1, <2>2
<1>11. ASSUME o \in OtpIds
       PROVE  otps[o] = None => Flush(otps[o], login[r].otp, login[r].edit) = None
    BY DEF Flush
<1>12. CASE RecordFailure(r)
  <2>1. login[r].pc = "penalise"
    BY <1>12 DEF RecordFailure
  <2>2. /\ o \in OtpIds /\ o \in born /\ login[r].otp \in Otp /\ login[r].edit \in Otp
        /\ k \in Keys /\ login[r].at \in Nat
        /\ login[r].row \in RateLimit \cup {None}
    BY <1>1, <1>2, <2>1 DEF HoldsCode, TypeOK, LoginState
  <2>3. otps' \in [OtpIds -> Otp \cup {None}] /\ Stored' \subseteq Stored
    BY <1>10, <1>11, <1>12, <2>2 DEF RecordFailure, TypeOK, Stored
  <2>4. rate' \in [Keys -> RateLimit \cup {None}] /\ counted' \in [Keys -> Nat]
    <3>1. CASE InsertRate(k, FailWindow)
      BY <2>2, <3>1, RateTypes, NumbersAssumption
    <3>2. CASE /\ login[r].row # None
               /\ WriteRate(k, login[r].row,
                            Counted(login[r].row, login[r].at, FailWindow), 1)
      BY <2>2, <3>2, RateTypes, CountedType, NumbersAssumption
    <3>3. CASE counted' = [counted EXCEPT ![k] = @ + 1] /\ UNCHANGED rate
      BY <2>2, <3>3 DEF TypeOK
    <3> QED
      BY <1>12, <3>1, <3>2, <3>3 DEF RecordFailure
  <2>5. wrong' \in [OtpIds -> Nat] /\ accepted' \in [OtpIds -> Nat]
    <3>1. wrong[o] \in Nat /\ accepted[o] \in Nat
      BY <2>2 DEF TypeOK
    <3> QED
      BY <1>12, <3>1, TallyType DEF RecordFailure, TypeOK
  <2>6. stale' \subseteq OtpIds \cup Keys
    BY <1>12, <2>2 DEF RecordFailure, Outdated, TypeOK
  <2>7. UNCHANGED <<now, failures, born, send>> /\ LoginEnds(r)
    BY <1>12 DEF RecordFailure
  <2>8. WellFormed'
    BY <2>3, <2>7, LoginEndsType DEF WellFormed, HoldsCode, IdleLogin
  <2> QED
    BY <2>3, <2>4, <2>5, <2>6, <2>7, <2>8, LoginEndsType DEF TypeOK
<1>13. CASE LoginDone(r)
  <2>1. login[r].pc = "login"
    BY <1>13 DEF LoginDone
  <2>2. o \in OtpIds /\ login[r].otp \in Otp /\ login[r].edit \in Otp
    BY <1>2, <2>1 DEF HoldsCode
  <2>3. otps' \in [OtpIds -> Otp \cup {None}] /\ Stored' \subseteq Stored
    BY <1>10, <1>11, <1>13, <2>2 DEF LoginDone, TypeOK, Stored
  <2>4. UNCHANGED <<now, failures, born, rate, send, history>> /\ LoginEnds(r)
    BY <1>13 DEF LoginDone
  <2>5. WellFormed'
    BY <2>3, <2>4, LoginEndsType DEF WellFormed, HoldsCode, IdleLogin
  <2> QED
    BY <2>3, <2>4, <2>5, LoginEndsType DEF TypeOK, history
<1> QED
    BY <1>3, <1>4, <1>5, <1>7, <1>8, <1>9, <1>12, <1>13

LEMMA TypeStep == TypeInv /\ [Next]_vars => TypeInv'
<1> SUFFICES ASSUME TypeInv, [Next]_vars PROVE TypeInv'
    OBVIOUS
<1>1. CASE UNCHANGED vars
    BY <1>1 DEF vars, history, TypeInv, TypeOK, WellFormed, Stored
<1>2. CASE Tick
    BY <1>2 DEF Tick, history, TypeInv, TypeOK, WellFormed, Stored
<1>3. CASE Abandon
  <2>1. /\ failures' \in Nat
        /\ UNCHANGED <<now, otps, born, rate, history>>
    BY <1>3 DEF Abandon, TypeInv, TypeOK
  <2>2. ASSUME NEW r \in SendReqs, send[r].pc # "idle", SendAt(r, "idle"),
               UNCHANGED login
        PROVE  TypeInv'
    <3>1. /\ send' \in [SendReqs -> SendState]
          /\ \A q \in SendReqs : send'[q].pc # "idle" => send'[q].addr \in Addrs
      BY <2>2, SendAtType
    <3> QED
      BY <2>1, <2>2, <3>1 DEF TypeInv, TypeOK, WellFormed, Stored, history
  <2>3. ASSUME NEW r \in LoginReqs, LoginEnds(r), UNCHANGED send
        PROVE  TypeInv'
    <3>1. WellFormed'
      BY <2>1, <2>3, LoginEndsType
         DEF TypeInv, WellFormed, HoldsCode, IdleLogin, Stored
    <3> QED
      BY <2>1, <2>3, <3>1, LoginEndsType DEF TypeInv, TypeOK, history
  <2> QED
    BY <1>3, <2>2, <2>3 DEF Abandon
<1> QED
    BY <1>1, <1>2, <1>3, SendTypes, LoginTypes DEF Next, SendRefuse, LoginRefuse

(* Every variable of the tables and of the requests keeps its type.         *)
THEOREM TypeCorrect == Spec => []TypeOK
<1>1. Init => TypeInv
    BY InitTypes
<1>2. TypeInv /\ [Next]_vars => TypeInv'
    BY TypeStep
<1>3. TypeInv => TypeOK
    BY DEF TypeInv
<1> QED
    BY <1>1, <1>2, <1>3, PTL DEF Spec
-----------------------------------------------------------------------------
(* Why a code is accepted once and its guesses are counted.  Of a code no   *)
(* request wrote from an outdated copy, the row shows what has happened:    *)
(* the acceptance in isUsed, every wrong guess in attempts.                 *)
RowTells(o) ==
    o \in stale \/ /\ o \notin born => accepted[o] = 0 /\ wrong[o] = 0
                   /\ accepted[o] <= 1
                   /\ otps[o] # None =>
                        /\ accepted[o] = 1 => otps[o].isUsed = 1
                        /\ otps[o].attempts = wrong[o]
                        /\ IF wrong[o] >= MaxAttempts THEN otps[o].expiresAt <= now
                           ELSE otps[o].expiresAt = otps[o].createdAt + OtpTTL

(* What a request holds: a code it found unused, and its own edit of it.    *)
CopyTells(r) ==
    /\ login[r].pc \in HoldsCode => login[r].otp.isUsed = 0
    /\ login[r].pc \in {"limit", "penalise"} =>
          login[r].edit.isUsed = login[r].otp.isUsed
    /\ login[r].pc = "login" => login[r].edit = Used(login[r].otp)

CodeInv == /\ \A o \in OtpIds : RowTells(o)
           /\ \A r \in LoginReqs : CopyTells(r)

LEMMA InitCodes == Init => CodeInv
BY DEF Init, CodeInv, RowTells, CopyTells, IdleLogin, HoldsCode

(* A step that leaves a code alone keeps what its row tells. *)
LEMMA RowQuiet ==
    ASSUME TypeInv, TypeInv', NEW o \in OtpIds, RowTells(o),
           otps'[o] = otps[o], accepted'[o] = accepted[o], wrong'[o] = wrong[o],
           stale \subseteq stale', born \subseteq born', now <= now'
    PROVE  RowTells(o)'
<1>1. otps[o] # None => otps[o].expiresAt \in Nat
    BY DEF TypeInv, TypeOK, Otp
<1>2. now \in Nat /\ now' \in Nat
    BY DEF TypeInv, TypeOK
<1> QED
    BY <1>1, <1>2 DEF RowTells

LEMMA SendCodes ==
    ASSUME TypeInv, TypeInv', CodeInv, NEW r \in SendReqs,
           \/ \E a \in Addrs, purpose \in Purposes : SendBegin(r, a, purpose)
           \/ SendInsert(r) \/ SendCount(r) \/ SendCheckRecent(r)
           \/ SendWipe(r) \/ SendCreate(r) \/ SendDeliver(r)
    PROVE  CodeInv'
<1>1. /\ UNCHANGED <<now, login, accepted, wrong>>
      /\ stale \subseteq stale' /\ born \subseteq born'
    BY DEF SendBegin, SendInsert, SendCount, SendCheckRecent, SendWipe, SendCreate,
           SendDeliver, history
<1>2. now <= now'
    BY <1>1 DEF TypeInv, TypeOK
<1>3. \A q \in LoginReqs : CopyTells(q)'
    BY <1>1 DEF CodeInv, CopyTells
<1>4. CASE UNCHANGED otps
    BY <1>1, <1>2, <1>3, <1>4, RowQuiet DEF CodeInv
<1>5. CASE SendWipe(r)
  <2>1. \A o \in OtpIds : otps'[o] = otps[o] \/ otps'[o] = None
    BY <1>5 DEF SendWipe
  <2>2. ASSUME NEW o \in OtpIds, otps'[o] = None
        PROVE  RowTells(o)'
    BY <1>1, <2>2 DEF CodeInv, RowTells
  <2> QED
    BY <1>1, <1>2, <1>3, <2>1, <2>2, RowQuiet DEF CodeInv
<1>6. CASE SendCreate(r)
  <2>1. PICK o \in OtpIds \ born :
            otps' = [otps EXCEPT ![o] =
                        [addr |-> send[r].addr, purpose |-> send[r].purpose,
                         createdAt |-> now, expiresAt |-> now + OtpTTL,
                         attempts |-> 0, isUsed |-> 0]]
    BY <1>6 DEF SendCreate
  <2>2. \A p \in OtpIds \ {o} : otps'[p] = otps[p]
    BY <2>1 DEF TypeInv, TypeOK
  <2>3. /\ otps'[o].createdAt = now /\ otps'[o].expiresAt = now + OtpTTL
        /\ otps'[o].attempts = 0
    BY <2>1 DEF TypeInv, TypeOK
  <2>4. o \in stale \/ (accepted[o] = 0 /\ wrong[o] = 0)
    BY DEF CodeInv, RowTells
  <2>5. RowTells(o)'
    BY <1>1, <2>3, <2>4, NumbersAssumption DEF RowTells
  <2> QED
    BY <1>1, <1>2, <1>3, <2>2, <2>5, RowQuiet DEF CodeInv
<1> QED
    BY <1>4, <1>5, <1>6
       DEF SendBegin, SendInsert, SendCount, SendCheckRecent, SendDeliver

(* updateOtp: only the code the request holds changes. *)
LEMMA UpdateOtherCodes ==
    ASSUME TypeInv, NEW o \in OtpIds, NEW p \in OtpIds \ {o}, NEW row,
           NEW n, NEW m,
           otps' = UpdateOtp(o, row),
           accepted' = Tally(accepted, o, n), wrong' = Tally(wrong, o, m)
    PROVE  otps'[p] = otps[p] /\ accepted'[p] = accepted[p] /\ wrong'[p] = wrong[p]
BY DEF UpdateOtp, Tally, TypeInv, TypeOK

LEMMA RecordWrongCodes ==
    ASSUME TypeInv, TypeInv', CodeInv, NEW r \in LoginReqs, RecordWrong(r),
           NEW o \in OtpIds, o = login[r].id
    PROVE  CodeInv'
<1> DEFINE copy == login[r].otp
           edit == Attempted(login[r].otp)
<1>1. /\ login[r].pc = "compare" /\ otps' = UpdateOtp(o, edit)
      /\ stale' = stale \cup Outdated(otps[o], copy, o)
      /\ wrong' = Tally(wrong, o, wrong[o] + 1)
      /\ accepted' = Tally(accepted, o, accepted[o])
      /\ UNCHANGED <<now, born>>
    BY DEF RecordWrong
<1>2. o \in OtpIds /\ o \in born /\ copy \in Otp /\ now \in Nat
    BY <1>1 DEF TypeInv, TypeOK, WellFormed, HoldsCode
<1>3. copy.isUsed = 0
    BY <1>1 DEF CodeInv, CopyTells, HoldsCode
<1>4. /\ edit \in Otp /\ edit.isUsed = copy.isUsed
      /\ edit.createdAt = copy.createdAt /\ edit.attempts = copy.attempts + 1
      /\ edit.expiresAt = IF copy.attempts + 1 >= MaxAttempts THEN now
                          ELSE copy.expiresAt
    BY <1>2, AttemptedType
<1>5. \A q \in LoginReqs : CopyTells(q)'
  <2> DEFINE l == [login[r] EXCEPT !.pc = "limit", !.edit = edit]
  <2>1. login' = [login EXCEPT ![r] = l]
    BY DEF RecordWrong, TypeInv, TypeOK, LoginState
  <2>2. l.pc = "limit" /\ l.otp = copy /\ l.edit = edit
    BY DEF TypeInv, TypeOK, LoginState
  <2>3. \A q \in LoginReqs : login'[q] = IF q = r THEN l ELSE login[q]
    BY <2>1 DEF TypeInv, TypeOK
  <2>4. l.otp.isUsed = 0 /\ l.edit.isUsed = l.otp.isUsed
    BY <1>3, <1>4, <2>2
  <2> HIDE DEF l
  <2> QED
    BY <2>2, <2>3, <2>4 DEF CodeInv, CopyTells
<1>6. \A p \in OtpIds \ {o} : RowTells(p)'
  <2> TAKE p \in OtpIds \ {o}
  <2>1. otps'[p] = otps[p] /\ accepted'[p] = accepted[p] /\ wrong'[p] = wrong[p]
    BY <1>1, <1>2, UpdateOtherCodes
  <2> QED
    BY <1>1, <1>2, <2>1, RowQuiet DEF CodeInv
<1>7. RowTells(o)'
  <2>1. CASE o \in stale'
    BY <2>1 DEF RowTells
  <2>2. CASE o \notin stale'
    <3>1. otps[o] = copy /\ o \notin stale
      BY <1>1, <2>2 DEF Outdated
    <3>2. otps[o] # None
      BY <1>2, <3>1, NoneIsNoRow
    <3>3. otps'[o] = edit
      BY <1>1, <1>2, <3>2 DEF UpdateOtp, TypeInv, TypeOK
    <3>4. wrong'[o] = wrong[o] + 1 /\ accepted'[o] = accepted[o]
      BY <1>1, <1>2, <2>2 DEF Tally, TypeInv, TypeOK
    <3>5. /\ accepted[o] <= 1 /\ accepted[o] # 1 /\ copy.attempts = wrong[o]
          /\ IF wrong[o] >= MaxAttempts THEN copy.expiresAt <= now
             ELSE copy.expiresAt = copy.createdAt + OtpTTL
      BY <1>2, <1>3, <3>1, <3>2 DEF CodeInv, RowTells
    <3>6. wrong[o] \in Nat
      BY <1>2 DEF TypeInv, TypeOK
    <3> QED
      BY <1>1, <1>2, <1>4, <3>3, <3>4, <3>5, <3>6, NumbersAssumption DEF RowTells
  <2> QED
    BY <2>1, <2>2
<1> QED
    BY <1>5, <1>6, <1>7 DEF CodeInv

LEMMA MarkUsedCodes ==
    ASSUME TypeInv, TypeInv', CodeInv, NEW r \in LoginReqs, MarkUsed(r),
           NEW o \in OtpIds, o = login[r].id
    PROVE  CodeInv'
<1> DEFINE copy == login[r].otp
           edit == Used(login[r].otp)
<1>1. /\ login[r].pc = "compare" /\ otps' = UpdateOtp(o, edit)
      /\ stale' = stale \cup Outdated(otps[o], copy, o)
      /\ wrong' = Tally(wrong, o, wrong[o])
      /\ accepted' = Tally(accepted, o, accepted[o] + 1)
      /\ UNCHANGED <<now, born>>
    BY DEF MarkUsed
<1>2. o \in OtpIds /\ o \in born /\ copy \in Otp /\ now \in Nat
    BY <1>1 DEF TypeInv, TypeOK, WellFormed, HoldsCode
<1>3. copy.isUsed = 0
    BY <1>1 DEF CodeInv, CopyTells, HoldsCode
<1>4. /\ edit.isUsed = 1 /\ edit.createdAt = copy.createdAt
      /\ edit.attempts = copy.attempts /\ edit.expiresAt = copy.expiresAt
    BY <1>2, UsedType
<1>5. \A q \in LoginReqs : CopyTells(q)'
  <2> DEFINE l == [login[r] EXCEPT !.pc = "login", !.edit = edit]
  <2>1. login' = [login EXCEPT ![r] = l]
    BY DEF MarkUsed, TypeInv, TypeOK, LoginState
  <2>2. l.pc = "login" /\ l.otp = copy /\ l.edit = edit
    BY DEF TypeInv, TypeOK, LoginState
  <2>3. \A q \in LoginReqs : login'[q] = IF q = r THEN l ELSE login[q]
    BY <2>1 DEF TypeInv, TypeOK
  <2>4. l.otp.isUsed = 0 /\ l.edit = Used(l.otp)
    BY <1>3, <2>2
  <2> HIDE DEF l
  <2> QED
    BY <2>2, <2>3, <2>4 DEF CodeInv, CopyTells
<1>6. \A p \in OtpIds \ {o} : RowTells(p)'
  <2> TAKE p \in OtpIds \ {o}
  <2>1. otps'[p] = otps[p] /\ accepted'[p] = accepted[p] /\ wrong'[p] = wrong[p]
    BY <1>1, <1>2, UpdateOtherCodes
  <2> QED
    BY <1>1, <1>2, <2>1, RowQuiet DEF CodeInv
<1>7. RowTells(o)'
  <2>1. CASE o \in stale'
    BY <2>1 DEF RowTells
  <2>2. CASE o \notin stale'
    <3>1. otps[o] = copy /\ o \notin stale
      BY <1>1, <2>2 DEF Outdated
    <3>2. otps[o] # None
      BY <1>2, <3>1, NoneIsNoRow
    <3>3. otps'[o] = edit
      BY <1>1, <1>2, <3>2 DEF UpdateOtp, TypeInv, TypeOK
    <3>4. wrong'[o] = wrong[o] /\ accepted'[o] = accepted[o] + 1
      BY <1>1, <1>2, <2>2 DEF Tally, TypeInv, TypeOK
    <3>5. /\ accepted[o] <= 1 /\ accepted[o] # 1 /\ copy.attempts = wrong[o]
          /\ IF wrong[o] >= MaxAttempts THEN copy.expiresAt <= now
             ELSE copy.expiresAt = copy.createdAt + OtpTTL
      BY <1>2, <1>3, <3>1, <3>2 DEF CodeInv, RowTells
    <3>6. accepted[o] = 0
      BY <1>2, <3>5 DEF TypeInv, TypeOK
    <3> QED
      BY <1>1, <1>2, <1>4, <3>3, <3>4, <3>5, <3>6 DEF RowTells
  <2> QED
    BY <2>1, <2>2
<1> QED
    BY <1>5, <1>6, <1>7 DEF CodeInv

(* A request that ends, or that goes on without a code, tells nothing. *)
LEMMA CopiesQuiet ==
    ASSUME TypeInv, CodeInv, NEW r \in LoginReqs, NEW l,
           login' = [login EXCEPT ![r] = l], l.pc \in {"idle", "reset", "find"}
    PROVE  \A q \in LoginReqs : CopyTells(q)'
<1>1. \A q \in LoginReqs : login'[q] = IF q = r THEN l ELSE login[q]
    BY DEF TypeInv, TypeOK
<1> QED
    BY <1>1 DEF CodeInv, CopyTells, HoldsCode

(* The flush that counts a failed login writes the attempt once more: on a  *)
(* row nobody else wrote, the same columns with the same values.            *)
LEMMA RecordFailureCodes ==
    ASSUME TypeInv, TypeInv', CodeInv, NEW r \in LoginReqs, RecordFailure(r),
           NEW o \in OtpIds, o = login[r].id
    PROVE  CodeInv'
<1> DEFINE k == <<login[r].addr, "login">>
           copy == login[r].row
           again == Flush(otps[o], login[r].otp, login[r].edit)
           clash == copy = None /\ rate[k] # None
<1>1. /\ stale' = stale \cup IF clash THEN {}
                              ELSE Outdated(rate[k], copy, k) \cup Outdated(otps[o], again, o)
      /\ otps' = IF clash THEN otps ELSE [otps EXCEPT ![o] = again]
      /\ wrong' = Tally(wrong, o, wrong[o])
      /\ accepted' = Tally(accepted, o, accepted[o])
      /\ LoginEnds(r) /\ UNCHANGED <<now, born>>
    BY DEF RecordFailure
<1>2. stale \subseteq stale' /\ now \in Nat
    BY <1>1 DEF TypeInv, TypeOK
<1>3. \A q \in LoginReqs : CopyTells(q)'
    BY <1>1, CopiesQuiet DEF LoginEnds, IdleLogin
<1>4. \A p \in OtpIds : p # o =>
          /\ otps'[p] = otps[p] /\ accepted'[p] = accepted[p] /\ wrong'[p] = wrong[p]
    BY <1>1 DEF Tally, TypeInv, TypeOK
<1>5. o \notin stale' => otps'[o] = otps[o]
    BY <1>1 DEF Outdated, TypeInv, TypeOK
<1>6. o \notin stale' => accepted'[o] = accepted[o] /\ wrong'[o] = wrong[o]
    BY <1>1 DEF Tally, TypeInv, TypeOK
<1>7. \A p \in OtpIds : RowTells(p)'
  <2> TAKE p \in OtpIds
  <2>1. CASE p \in stale'
    BY <2>1 DEF RowTells
  <2>2. CASE p \notin stale'
    <3>1. otps'[p] = otps[p] /\ accepted'[p] = accepted[p] /\ wrong'[p] = wrong[p]
      BY <1>4, <1>5, <1>6, <2>2
    <3>2. born \subseteq born' /\ now <= now' /\ RowTells(p)
      BY <1>1, <1>2 DEF CodeInv
    <3> QED
      BY <1>2, <3>1, <3>2, RowQuiet
  <2> QED
    BY <2>1, <2>2
<1> QED
    BY <1>3, <1>7 DEF CodeInv

(* The login transaction's flush marks a used code as used, nothing else. *)
LEMMA LoginDoneCodes ==
    ASSUME TypeInv, TypeInv', CodeInv, NEW r \in LoginReqs, LoginDone(r),
           NEW o \in OtpIds, o = login[r].id
    PROVE  CodeInv'
<1> DEFINE copy == login[r].otp
           edit == login[r].edit
<1>1. /\ login[r].pc = "login" /\ LoginEnds(r)
      /\ \/ otps' = [otps EXCEPT ![o] = Flush(@, copy, edit)]
         \/ UNCHANGED otps
      /\ UNCHANGED <<now, born, accepted, wrong, stale>>
    BY DEF LoginDone, history
<1>2. copy \in Otp /\ now \in Nat
    BY <1>1 DEF TypeInv, TypeOK, WellFormed, HoldsCode
<1>3. edit = Used(copy) /\ copy.isUsed = 0
    BY <1>1 DEF CodeInv, CopyTells, HoldsCode
<1>4. \A q \in LoginReqs : CopyTells(q)'
    BY <1>1, CopiesQuiet DEF LoginEnds, IdleLogin
<1>5. CASE UNCHANGED otps
    BY <1>1, <1>2, <1>4, <1>5, RowQuiet DEF CodeInv
<1>6. CASE otps' = [otps EXCEPT ![o] = Flush(@, copy, edit)]
  <2>1. \A p \in OtpIds : p # o => otps'[p] = otps[p]
    BY <1>6 DEF TypeInv, TypeOK
  <2>2. RowTells(o)'
    <3>1. CASE otps[o] = None
      <4>1. otps'[o] = otps[o]
        BY <1>6, <3>1 DEF Flush, TypeInv, TypeOK
      <4> QED
        BY <1>1, <1>2, <4>1, RowQuiet DEF CodeInv
    <3>2. CASE otps[o] # None
      <4>1. otps[o] \in Otp /\ edit \in Otp
        BY <1>2, <1>3, <3>2, UsedType DEF TypeInv, TypeOK
      <4>2. /\ edit.addr = copy.addr /\ edit.createdAt = copy.createdAt
            /\ edit.expiresAt = copy.expiresAt /\ edit.attempts = copy.attempts
            /\ edit.isUsed = 1 /\ copy.isUsed = 0
        BY <1>2, <1>3, UsedType
      <4>3. otps'[o] = Flush(otps[o], copy, edit)
        BY <1>6 DEF TypeInv, TypeOK
      <4>4. /\ otps'[o].isUsed = 1 /\ otps'[o].attempts = otps[o].attempts
            /\ otps'[o].expiresAt = otps[o].expiresAt
            /\ otps'[o].createdAt = otps[o].createdAt
        <5> HIDE DEF copy, edit
        <5> QED
          BY <1>2, <4>1, <4>2, <4>3, FlushOtpType
      <4> QED
        BY <1>1, <3>2, <4>4 DEF CodeInv, RowTells
    <3> QED
      BY <3>1, <3>2
  <2> QED
    BY <1>1, <1>2, <1>4, <2>1, <2>2, RowQuiet DEF CodeInv
<1> QED
    BY <1>1, <1>5, <1>6

LEMMA LoginQuietCodes ==
    ASSUME TypeInv, TypeInv', CodeInv, NEW r \in LoginReqs,
           \/ \E a \in Addrs : LoginBegin(r, a)
           \/ LoginReset(r) \/ LoginFind(r) \/ LimitRead(r)
    PROVE  CodeInv'
<1>1. /\ UNCHANGED <<now, born, otps, accepted, wrong>> /\ stale \subseteq stale'
    BY DEF LoginBegin, LoginReset, LoginFind, LimitRead, history
<1>2. \A o \in OtpIds : RowTells(o)'
    BY <1>1, RowQuiet DEF CodeInv, TypeInv, TypeOK
<1>3. \A q \in LoginReqs : CopyTells(q)'
  <2>1. CASE \E a \in Addrs : LoginBegin(r, a)
    BY <2>1, CopiesQuiet DEF LoginBegin, IdleLogin
  <2>2. CASE LoginReset(r)
    BY <2>2, CopiesQuiet DEF LoginReset, IdleLogin
  <2>3. CASE LoginFind(r)
    <3>1. CASE LoginEnds(r)
      BY <3>1, CopiesQuiet DEF LoginEnds, IdleLogin
    <3>2. CASE ~LoginEnds(r)
      <4>1. PICK o \in Findable(login[r].addr) :
                login' = [login EXCEPT ![r].pc = "compare", ![r].id = o,
                                       ![r].otp = otps[o], ![r].edit = otps[o]]
        BY <2>3, <3>2 DEF LoginFind, Newest
      <4> DEFINE l == [login[r] EXCEPT !.pc = "compare", !.id = o,
                                       !.otp = otps[o], !.edit = otps[o]]
      <4>2. otps[o].isUsed = 0
        BY DEF Findable
      <4>3. l.pc = "compare" /\ l.otp = otps[o]
        BY DEF TypeInv, TypeOK, LoginState
      <4>4. \A q \in LoginReqs : login'[q] = IF q = r THEN l ELSE login[q]
        BY <4>1 DEF TypeInv, TypeOK, LoginState
      <4> HIDE DEF l
      <4> QED
        BY <4>2, <4>3, <4>4 DEF CodeInv, CopyTells
    <3> QED
      BY <3>1, <3>2
  <2>4. CASE LimitRead(r)
    <3> DEFINE l == [login[r] EXCEPT !.pc = "penalise", !.at = now,
                                     !.row = rate[<<login[r].addr, "login">>]]
    <3>1. /\ login[r].pc = "limit" /\ l.pc = "penalise"
          /\ l.otp = login[r].otp /\ l.edit = login[r].edit
      BY <2>4 DEF LimitRead, TypeInv, TypeOK, LoginState
    <3>2. \A q \in LoginReqs : login'[q] = IF q = r THEN l ELSE login[q]
      BY <2>4 DEF LimitRead, TypeInv, TypeOK, LoginState
    <3>3. l.otp.isUsed = 0 /\ l.edit.isUsed = l.otp.isUsed
      BY <3>1 DEF CodeInv, CopyTells, HoldsCode
    <3> HIDE DEF l
    <3> QED
      BY <3>1, <3>2, <3>3 DEF CodeInv, CopyTells
  <2> QED
    BY <2>1, <2>2, <2>3, <2>4
<1> QED
    BY <1>2, <1>3 DEF CodeInv

LEMMA CodeStep == TypeInv /\ CodeInv /\ [Next]_vars => CodeInv'
<1> SUFFICES ASSUME TypeInv, CodeInv, [Next]_vars PROVE CodeInv'
    OBVIOUS
<1>1. TypeInv'
    BY TypeStep
<1>2. \A r \in LoginReqs :
          login[r].pc \in HoldsCode => \E o \in OtpIds : o = login[r].id
  <2>1. \A r \in LoginReqs : login[r].pc \in HoldsCode => login[r].id \in OtpIds
    BY DEF TypeInv, TypeOK, WellFormed
  <2> QED
    BY <2>1
<1>3. CASE UNCHANGED vars
    BY <1>3 DEF vars, history, CodeInv, RowTells, CopyTells
<1>4. CASE Tick
  <2>1. now <= now' /\ UNCHANGED <<otps, born, login, accepted, wrong, stale>>
    BY <1>4 DEF Tick, history, TypeInv, TypeOK
  <2> QED
    BY <1>1, <2>1, RowQuiet DEF CodeInv, CopyTells
<1>5. CASE Abandon
  <2>1. now <= now' /\ UNCHANGED <<otps, born, accepted, wrong, stale>>
    BY <1>5 DEF Abandon, history, TypeInv, TypeOK
  <2>2. \A q \in LoginReqs : CopyTells(q)'
    <3>1. CASE UNCHANGED login
      BY <3>1 DEF CodeInv, CopyTells
    <3>2. ASSUME NEW r \in LoginReqs, LoginEnds(r)
          PROVE  \A q \in LoginReqs : CopyTells(q)'
      BY <3>2, CopiesQuiet DEF LoginEnds, IdleLogin
    <3> QED
      BY <1>5, <3>1, <3>2 DEF Abandon
  <2> QED
    BY <1>1, <2>1, <2>2, RowQuiet DEF CodeInv
<1>6. ASSUME NEW r \in LoginReqs,
             \/ LoginReset(r) \/ LoginFind(r) \/ RecordWrong(r) \/ LimitRead(r)
             \/ RecordFailure(r) \/ MarkUsed(r) \/ LoginDone(r)
      PROVE  CodeInv'
  <2>1. CASE LoginReset(r) \/ LoginFind(r) \/ LimitRead(r)
    BY <1>1, <2>1, LoginQuietCodes
  <2>2. CASE RecordWrong(r)
    BY <1>1, <1>2, <2>2, RecordWrongCodes DEF RecordWrong, HoldsCode
  <2>3. CASE RecordFailure(r)
    BY <1>1, <1>2, <2>3, RecordFailureCodes DEF RecordFailure, HoldsCode
  <2>4. CASE MarkUsed(r)
    BY <1>1, <1>2, <2>4, MarkUsedCodes DEF MarkUsed, HoldsCode
  <2>5. CASE LoginDone(r)
    BY <1>1, <1>2, <2>5, LoginDoneCodes DEF LoginDone, HoldsCode
  <2> QED
    BY <1>6, <2>1, <2>2, <2>3, <2>4, <2>5
<1> QED
    BY <1>1, <1>3, <1>4, <1>5, <1>6, SendCodes, LoginQuietCodes
       DEF Next, SendRefuse, LoginRefuse

LEMMA CodesHold == Spec => [](TypeInv /\ CodeInv)
<1>1. Init => TypeInv /\ CodeInv
    BY InitTypes, InitCodes
<1>2. TypeInv /\ CodeInv /\ [Next]_vars => (TypeInv /\ CodeInv)'
    BY TypeStep, CodeStep
<1> QED
    BY <1>1, <1>2, PTL DEF Spec

(* A code no request wrote from an outdated copy logs in at most once.      *)
THEOREM AcceptedOnce == Spec => []OnceUnlessStale
<1>1. CodeInv => OnceUnlessStale
    BY DEF CodeInv, RowTells, OnceUnlessStale
<1> QED
    BY <1>1, CodesHold, PTL

(* Every wrong guess against such a code is in its attempts column, and the *)
(* guess that reaches maxAttempts has brought its expiry forward.           *)
THEOREM GuessesRemembered == Spec => []GuessesCounted
<1>1. CodeInv => GuessesCounted
    BY DEF CodeInv, RowTells, GuessesCounted, Stored
<1> QED
    BY <1>1, CodesHold, PTL
=============================================================================
