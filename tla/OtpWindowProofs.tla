--------------------------- MODULE OtpWindowProofs ---------------------------
(* How many requests a window of the rate limits admits, for every value of *)
(* the constants of Otp.                                                    *)
EXTENDS OtpProofs

(* Logins for a that have passed the limit and may yet be counted. *)
InFlight(f, a) ==
    {r \in LoginReqs : /\ f[r].pc \in {"find", "compare", "limit", "penalise"}
                       /\ f[r].addr = a}

(* Of these, the ones that found no row of the counter to write. *)
Inserting(f, a) ==
    {r \in LoginReqs : /\ f[r].pc = "penalise" /\ f[r].row = None
                       /\ f[r].addr = a}

(* The counter of codes sent, unless a request wrote it from an outdated    *)
(* copy, is at most one behind: the insert stores zero.                     *)
SendKeyGood(a) ==
    LET k == <<a, "otp">>
    IN k \notin stale => IF rate[k] = None THEN counted[k] = 0
                         ELSE /\ counted[k] <= rate[k].attempts + 1
                              /\ rate[k].attempts <= MaxSends

(* That of failed logins is behind by those that found no row as well: one  *)
(* inserts it, the others meet it and are not counted in it.                *)
LoginRowGood(a) ==
    LET k == <<a, "login">>
    IN k \notin stale => IF rate[k] = None THEN counted[k] = 0
                         ELSE counted[k] + Cardinality(Inserting(login, a))
                                 <= rate[k].attempts + Cardinality(LoginReqs)

(* A login in flight has its place in the count.                            *)
LoginKeyGood(a) ==
    <<a, "login">> \notin stale =>
        counted[<<a, "login">>] + Cardinality(InFlight(login, a))
            <= MaxFails + 2 * Cardinality(LoginReqs) - 1

SendCopyGood(r) ==
    send[r].pc = "count" => ~Blocked(send[r].row, MaxSends, send[r].at)

LoginCopyGood(r) ==
    login[r].pc = "reset" => Over(login[r].row, login[r].at)

WindowInv ==
    /\ \A a \in Addrs : SendKeyGood(a) /\ LoginRowGood(a) /\ LoginKeyGood(a)
    /\ \A r \in SendReqs : SendCopyGood(r)
    /\ \A r \in LoginReqs : LoginCopyGood(r)
-----------------------------------------------------------------------------
(* Counting logins. *)

LEMMA LoginsCount ==
    ASSUME NEW S \in SUBSET LoginReqs
    PROVE  /\ IsFiniteSet(S) /\ Cardinality(S) \in Nat
           /\ Cardinality(LoginReqs) \in Nat
           /\ Cardinality(S) <= Cardinality(LoginReqs)
<1>1. IsFiniteSet(S) /\ Cardinality(S) <= Cardinality(LoginReqs)
    BY SetsAssumption, FS_Subset
<1> QED
    BY <1>1, SetsAssumption, FS_CardinalityType

LEMMA SomeLogin ==
    ASSUME NEW r \in LoginReqs
    PROVE  Cardinality(LoginReqs) \in Nat \ {0}
BY LoginsCount, SetsAssumption, FS_EmptySet

LEMMA FlightFinite ==
    ASSUME NEW f, NEW a
    PROVE  /\ Cardinality(InFlight(f, a)) \in Nat
           /\ Cardinality(Inserting(f, a)) \in Nat
           /\ Cardinality(LoginReqs) \in Nat
           /\ Cardinality(InFlight(f, a)) <= Cardinality(LoginReqs)
           /\ Cardinality(Inserting(f, a)) <= Cardinality(LoginReqs)
<1>1. InFlight(f, a) \in SUBSET LoginReqs /\ Inserting(f, a) \in SUBSET LoginReqs
    BY DEF InFlight, Inserting
<1> QED
    BY <1>1, LoginsCount

(* One login moves: the number grows by one at most, not at all when it was *)
(* counted already, and falls when it is counted no more.                   *)
LEMMA OneMoves ==
    ASSUME NEW S \in SUBSET LoginReqs, NEW T \in SUBSET LoginReqs, NEW r,
           T \ {r} = S \ {r}
    PROVE  /\ (r \in T => r \in S) => Cardinality(T) <= Cardinality(S)
           /\ r \in S /\ r \notin T => Cardinality(T) + 1 <= Cardinality(S)
<1>1. IsFiniteSet(S) /\ Cardinality(S) \in Nat
    BY LoginsCount
<1>2. IsFiniteSet(T) /\ Cardinality(T) \in Nat
    BY LoginsCount
<1>3. /\ Cardinality(S \ {r}) = IF r \in S THEN Cardinality(S) - 1 ELSE Cardinality(S)
      /\ Cardinality(T \ {r}) = IF r \in T THEN Cardinality(T) - 1 ELSE Cardinality(T)
    BY <1>1, <1>2, FS_RemoveElement
<1>4. Cardinality(S \ {r}) = Cardinality(T \ {r})
    OBVIOUS
<1> QED
    BY <1>1, <1>2, <1>3, <1>4

LEMMA FlightMoves ==
    ASSUME NEW f, NEW g, NEW a, NEW r \in LoginReqs,
           \A q \in LoginReqs : q # r => g[q] = f[q]
    PROVE  LET F == Cardinality(InFlight(f, a))
               G == Cardinality(InFlight(g, a))
           IN  /\ (r \in InFlight(g, a) => r \in InFlight(f, a)) => G <= F
               /\ r \in InFlight(f, a) /\ r \notin InFlight(g, a) => G + 1 <= F
<1>1. InFlight(g, a) \ {r} = InFlight(f, a) \ {r}
    BY DEF InFlight
<1>2. InFlight(f, a) \in SUBSET LoginReqs /\ InFlight(g, a) \in SUBSET LoginReqs
    BY DEF InFlight
<1> QED
    BY <1>1, <1>2, OneMoves

LEMMA InsertingMoves ==
    ASSUME NEW f, NEW g, NEW a, NEW r \in LoginReqs,
           \A q \in LoginReqs : q # r => g[q] = f[q]
    PROVE  LET F == Cardinality(Inserting(f, a))
               G == Cardinality(Inserting(g, a))
           IN  /\ (r \in Inserting(g, a) => r \in Inserting(f, a)) => G <= F
               /\ r \in Inserting(f, a) /\ r \notin Inserting(g, a) => G + 1 <= F
<1>1. Inserting(g, a) \ {r} = Inserting(f, a) \ {r}
    BY DEF Inserting
<1>2. Inserting(f, a) \in SUBSET LoginReqs /\ Inserting(g, a) \in SUBSET LoginReqs
    BY DEF Inserting
<1> QED
    BY <1>1, <1>2, OneMoves
-----------------------------------------------------------------------------
(* Writing a counter. *)

LEMMA FlushOwnCopy ==
    ASSUME NEW copy \in RateLimit, NEW edit \in RateLimit
    PROVE  Flush(copy, copy, edit) = edit
<1>1. copy # None /\ DOMAIN copy = {"attempts", "windowEnd"}
    BY NoneIsNoRow DEF RateLimit
<1>2. Flush(copy, copy, edit) =
         [c \in {"attempts", "windowEnd"} |-> IF edit[c] = copy[c] THEN copy[c] ELSE edit[c]]
    BY <1>1 DEF Flush
<1> QED
    BY <1>2 DEF RateLimit

(* What a write does to a key that it does not leave stale.                 *)
LEMMA WriteRateIs ==
    ASSUME TypeInv, NEW k \in Keys, NEW copy \in RateLimit, NEW edit \in RateLimit,
           NEW n \in Nat, WriteRate(k, copy, edit, n),
           stale \cup Outdated(rate[k], copy, k) \subseteq stale'
    PROVE  /\ \A j \in Keys : j # k => rate'[j] = rate[j] /\ counted'[j] = counted[j]
           /\ k \notin stale' =>
                 /\ rate[k] = copy /\ rate'[k] = edit
                 /\ counted'[k] = IF edit.windowEnd # copy.windowEnd THEN n
                                  ELSE counted[k] + 1
<1>1. k \notin stale' => rate[k] = copy
    BY DEF Outdated
<1>2. /\ rate \in [Keys -> RateLimit \cup {None}] /\ counted \in [Keys -> Nat]
      /\ rate' = [rate EXCEPT ![k] = Flush(rate[k], copy, edit)]
      /\ counted' = Tally(counted, k, IF edit.windowEnd # copy.windowEnd THEN n
                                      ELSE counted[k] + 1)
    BY DEF WriteRate, TypeInv, TypeOK
<1>3. /\ \A j \in Keys : j # k => rate'[j] = rate[j] /\ counted'[j] = counted[j]
      /\ rate'[k] = Flush(rate[k], copy, edit)
      /\ k \notin stale' => counted'[k] = IF edit.windowEnd # copy.windowEnd THEN n
                                          ELSE counted[k] + 1
    BY <1>2 DEF Tally
<1>4. k \notin stale' => rate'[k] = edit
    BY <1>1, <1>3, FlushOwnCopy
<1> QED
    BY <1>1, <1>3, <1>4

LEMMA InsertRateIs ==
    ASSUME TypeInv, NEW k \in Keys, NEW window \in Nat, InsertRate(k, window)
    PROVE  /\ \A j \in Keys : j # k => rate'[j] = rate[j] /\ counted'[j] = counted[j]
           /\ rate[k] = None /\ rate'[k] # None /\ rate'[k].attempts = 0
           /\ counted'[k] = counted[k] + 1
<1> DEFINE row == [attempts |-> 0, windowEnd |-> now + window]
<1>1. row \in RateLimit /\ row.attempts = 0 /\ row # None
    BY NoneIsNoRow DEF RateLimit, TypeInv, TypeOK
<1>2. rate' = [rate EXCEPT ![k] = row]
    BY DEF InsertRate
<1> HIDE DEF row
<1> QED
    BY <1>1, <1>2 DEF InsertRate, TypeInv, TypeOK

(* Counting a request, unless its window is over.                           *)
LEMMA CountedIs ==
    ASSUME NEW row \in RateLimit, NEW at \in Nat, NEW window \in Nat
    PROVE  LET edit == Counted(row, at, window)
           IN  /\ edit \in RateLimit
               /\ Over(row, at) => edit.attempts = 1 /\ edit.windowEnd # row.windowEnd
               /\ ~Over(row, at) => /\ edit.attempts = row.attempts + 1
                                    /\ edit.windowEnd = row.windowEnd
<1>1. CASE Over(row, at)
  <2>1. Counted(row, at, window) = [attempts |-> 1, windowEnd |-> at + window]
    BY <1>1 DEF Counted
  <2> QED
    BY <1>1, <2>1 DEF Over, RateLimit
<1>2. CASE ~Over(row, at)
  <2> DEFINE n == row.attempts + 1
  <2>1. Counted(row, at, window) = [row EXCEPT !.attempts = n] /\ n \in Nat
    BY <1>2 DEF Counted, RateLimit
  <2> HIDE DEF n
  <2>2. /\ [row EXCEPT !.attempts = n] \in RateLimit
        /\ [row EXCEPT !.attempts = n].attempts = n
        /\ [row EXCEPT !.attempts = n].windowEnd = row.windowEnd
    BY <2>1 DEF RateLimit
  <2> QED
    BY <1>2, <2>1, <2>2 DEF n
<1> QED
    BY <1>1, <1>2
-----------------------------------------------------------------------------
(* Steps that leave the counters alone. *)

LEMMA InitWindow == Init => WindowInv
<1> SUFFICES ASSUME Init PROVE WindowInv
    OBVIOUS
<1>1. \A a : InFlight(login, a) = {}
    BY DEF Init, InFlight, IdleLogin
<1>2. ASSUME NEW a \in Addrs PROVE SendKeyGood(a) /\ LoginRowGood(a) /\ LoginKeyGood(a)
  <2>1. <<a, "otp">> \in Keys /\ <<a, "login">> \in Keys
    BY DEF Keys
  <2>2. /\ rate[<<a, "otp">>] = None /\ counted[<<a, "otp">>] = 0
        /\ rate[<<a, "login">>] = None /\ counted[<<a, "login">>] = 0
    BY <2>1 DEF Init
  <2>3. Cardinality(InFlight(login, a)) = 0 /\ Cardinality(LoginReqs) \in Nat
    BY <1>1, FS_EmptySet, FlightFinite
  <2>4. Cardinality(InFlight(login, a)) <= MaxFails + 2 * Cardinality(LoginReqs) - 1
    BY <2>3, NumbersAssumption
  <2> QED
    BY <2>2, <2>3, <2>4 DEF SendKeyGood, LoginRowGood, LoginKeyGood
<1>3. /\ \A r \in SendReqs : SendCopyGood(r)
      /\ \A r \in LoginReqs : LoginCopyGood(r)
    BY DEF Init, SendCopyGood, LoginCopyGood, IdleSend, IdleLogin
<1> QED
    BY <1>2, <1>3 DEF WindowInv

LEMMA CountersQuiet ==
    ASSUME WindowInv, UNCHANGED <<rate, counted>>, stale \subseteq stale'
    PROVE  \A a \in Addrs : SendKeyGood(a)'
BY DEF WindowInv, SendKeyGood

(* A login moves, the counters of a do not: it must not enter the counts,   *)
(* unless the limit let it or the row is not there.                         *)
LEMMA LoginMoves ==
    ASSUME TypeInv, WindowInv, NEW r \in LoginReqs, NEW a \in Addrs,
           rate'[<<a, "login">>] = rate[<<a, "login">>],
           counted'[<<a, "login">>] = counted[<<a, "login">>],
           stale \subseteq stale',
           \A q \in LoginReqs : q # r => login'[q] = login[q],
           r \in InFlight(login', a) =>
              \/ r \in InFlight(login, a)
              \/ <<a, "login">> \in stale
              \/ counted[<<a, "login">>] + 1 <= MaxFails + Cardinality(LoginReqs),
           r \in Inserting(login', a) =>
              r \in Inserting(login, a) \/ rate[<<a, "login">>] = None
    PROVE  LoginRowGood(a)' /\ LoginKeyGood(a)'
<1> DEFINE k == <<a, "login">>
           F == Cardinality(InFlight(login, a))
           G == Cardinality(InFlight(login', a))
           C == Cardinality(Inserting(login, a))
           D == Cardinality(Inserting(login', a))
           L == Cardinality(LoginReqs)
<1>1. /\ (r \in InFlight(login', a) => r \in InFlight(login, a)) => G <= F
      /\ (r \in Inserting(login', a) => r \in Inserting(login, a)) => D <= C
    BY FlightMoves, InsertingMoves
<1>2. /\ F \in Nat /\ G \in Nat /\ L \in Nat /\ G <= L
      /\ C \in Nat /\ D \in Nat
    BY FlightFinite
<1>3. /\ k \in Keys /\ counted[k] \in Nat
      /\ rate[k] # None => rate[k].attempts \in Nat
    BY DEF Keys, TypeInv, TypeOK, RateLimit
<1>4. /\ k \notin stale => counted[k] + F <= MaxFails + 2 * L - 1
      /\ k \notin stale => IF rate[k] = None THEN counted[k] = 0
                           ELSE counted[k] + C <= rate[k].attempts + L
    BY DEF WindowInv, LoginKeyGood, LoginRowGood
<1> HIDE DEF F, G, C, D, L
<1>5. k \notin stale' => counted[k] + G <= MaxFails + 2 * L - 1
  <2>1. CASE r \in InFlight(login', a) => r \in InFlight(login, a)
    BY <1>1, <1>2, <1>3, <1>4, <2>1, NumbersAssumption
  <2>2. CASE k \notin stale /\ counted[k] + 1 <= MaxFails + L
    BY <1>2, <1>3, <2>2, NumbersAssumption
  <2> QED
    BY <2>1, <2>2 DEF L
<1>6. k \notin stale' /\ rate[k] # None => counted[k] + D <= rate[k].attempts + L
    BY <1>1, <1>2, <1>3, <1>4
<1> QED
    BY <1>4, <1>5, <1>6 DEF LoginKeyGood, LoginRowGood, G, D, L

LEMMA LoginsQuiet ==
    ASSUME TypeInv, WindowInv, UNCHANGED <<rate, login, counted>>, stale \subseteq stale'
    PROVE  /\ \A a \in Addrs : LoginRowGood(a)' /\ LoginKeyGood(a)'
           /\ \A r \in LoginReqs : LoginCopyGood(r)'
BY DEF WindowInv, LoginRowGood, LoginKeyGood, LoginCopyGood, InFlight, Inserting

LEMMA SendAtIs ==
    ASSUME TypeInv, WindowInv, NEW r \in SendReqs, NEW pc, pc # "count", SendAt(r, pc)
    PROVE  \A q \in SendReqs : SendCopyGood(q)'
<1> DEFINE s == IF pc = "idle" THEN IdleSend
                ELSE [send[r] EXCEPT !.pc = pc, !.row = None, !.at = 0]
<1>1. \A q \in SendReqs : send'[q] = IF q = r THEN s ELSE send[q]
    BY DEF SendAt, TypeInv, TypeOK
<1>2. s.pc # "count"
    BY DEF IdleSend, SendState, TypeInv, TypeOK
<1> HIDE DEF s
<1> QED
    BY <1>1, <1>2 DEF WindowInv, SendCopyGood
-----------------------------------------------------------------------------
(* The codes. *)

(* A write of the counter of a for sending codes.                           *)
LEMMA SendKeyWritten ==
    ASSUME TypeInv, WindowInv, NEW a \in Addrs, stale \subseteq stale',
           \A j \in Keys : j # <<a, "otp">> =>
              rate'[j] = rate[j] /\ counted'[j] = counted[j],
           SendKeyGood(a)', UNCHANGED login
    PROVE  /\ \A b \in Addrs : SendKeyGood(b)' /\ LoginRowGood(b)' /\ LoginKeyGood(b)'
           /\ \A r \in LoginReqs : LoginCopyGood(r)'
<1>1. \A b \in Addrs : /\ <<b, "otp">> \in Keys /\ <<b, "login">> \in Keys
                       /\ <<b, "login">> # <<a, "otp">>
                       /\ <<b, "otp">> = <<a, "otp">> => b = a
    BY DEF Keys
<1>2. ASSUME NEW b \in Addrs PROVE SendKeyGood(b)'
    BY <1>1 DEF WindowInv, SendKeyGood
<1>3. ASSUME NEW b \in Addrs PROVE LoginRowGood(b)' /\ LoginKeyGood(b)'
    BY <1>1 DEF WindowInv, LoginRowGood, LoginKeyGood, InFlight, Inserting
<1>4. \A r \in LoginReqs : LoginCopyGood(r)'
    BY DEF WindowInv, LoginCopyGood
<1> QED
    BY <1>2, <1>3, <1>4

LEMMA SendCountWindow ==
    ASSUME TypeInv, WindowInv, NEW r \in SendReqs, SendCount(r)
    PROVE  WindowInv'
<1>0. PICK a \in Addrs : a = send[r].addr
    BY DEF SendCount, TypeInv, WellFormed
<1> DEFINE k == <<a, "otp">>
           copy == send[r].row
           edit == Counted(copy, send[r].at, SendWindow)
<1>1. /\ a \in Addrs /\ k \in Keys /\ copy \in RateLimit /\ send[r].at \in Nat
      /\ ~Blocked(copy, MaxSends, send[r].at) /\ copy # None
  <2>1. /\ send[r] \in SendState /\ send[r].pc = "count" /\ copy # None
        /\ ~Blocked(copy, MaxSends, send[r].at)
    BY DEF SendCount, TypeInv, TypeOK, WellFormed, WindowInv, SendCopyGood
  <2> QED
    BY <2>1 DEF SendState, Keys
<1>2. /\ edit \in RateLimit
      /\ Over(copy, send[r].at) => edit.attempts = 1 /\ edit.windowEnd # copy.windowEnd
      /\ ~Over(copy, send[r].at) => /\ edit.attempts = copy.attempts + 1
                                    /\ edit.windowEnd = copy.windowEnd
    BY <1>1, CountedIs, NumbersAssumption
<1>3. /\ WriteRate(k, copy, edit, 1) /\ stale' = stale \cup Outdated(rate[k], copy, k)
      /\ SendAt(r, "check") /\ UNCHANGED login
    BY <1>0 DEF SendCount
<1>4. ~Over(copy, send[r].at) => copy.attempts + 1 <= MaxSends
    BY <1>1, NumbersAssumption DEF Blocked, RateLimit
<1>5. copy.attempts \in Nat /\ counted[k] \in Nat /\ SendKeyGood(a) /\ edit # None
    BY <1>1, <1>2, NoneIsNoRow DEF RateLimit, TypeInv, TypeOK, WindowInv
<1> DEFINE at == send[r].at
<1> HIDE DEF edit, copy, at
<1>6. /\ \A j \in Keys : j # k => rate'[j] = rate[j] /\ counted'[j] = counted[j]
      /\ k \notin stale' =>
            /\ rate[k] = copy /\ rate'[k] = edit
            /\ counted'[k] = IF edit.windowEnd # copy.windowEnd THEN 1
                             ELSE counted[k] + 1
    BY <1>1, <1>2, <1>3, WriteRateIs
<1>7. k \notin stale' => /\ counted'[k] <= rate'[k].attempts + 1
                         /\ rate'[k].attempts <= MaxSends /\ rate'[k] # None
    BY <1>1, <1>2, <1>3, <1>4, <1>5, <1>6, NumbersAssumption DEF SendKeyGood, at
<1>8. SendKeyGood(a)'
    BY <1>7 DEF SendKeyGood
<1>9. stale \subseteq stale'
    BY <1>3
<1>10. \A q \in SendReqs : SendCopyGood(q)'
    BY <1>3, SendAtIs
<1> QED
    BY <1>1, <1>3, <1>6, <1>8, <1>9, <1>10, SendKeyWritten DEF WindowInv

LEMMA SendInsertWindow ==
    ASSUME TypeInv, WindowInv, NEW r \in SendReqs, SendInsert(r)
    PROVE  WindowInv'
<1>0. PICK a \in Addrs : a = send[r].addr
    BY DEF SendInsert, TypeInv, WellFormed
<1> DEFINE k == <<a, "otp">>
<1>1. k \in Keys /\ stale' = stale /\ UNCHANGED login
    BY DEF SendInsert, Keys
<1>2. \A q \in SendReqs : SendCopyGood(q)'
    BY SendAtIs DEF SendInsert
<1>3. CASE InsertRate(k, SendWindow)
  <2>1. /\ \A j \in Keys : j # k => rate'[j] = rate[j] /\ counted'[j] = counted[j]
        /\ rate[k] = None /\ rate'[k] # None /\ rate'[k].attempts = 0
        /\ counted'[k] = counted[k] + 1
    BY <1>1, <1>3, InsertRateIs, NumbersAssumption
  <2>2. SendKeyGood(a) /\ counted[k] \in Nat
    BY <1>1 DEF WindowInv, TypeInv, TypeOK
  <2>3. SendKeyGood(a)'
    BY <1>1, <2>1, <2>2, NumbersAssumption DEF SendKeyGood
  <2> QED
    BY <1>1, <1>2, <2>1, <2>3, SendKeyWritten DEF WindowInv
<1>4. CASE UNCHANGED <<rate, counted>>
    BY <1>1, <1>2, <1>4, CountersQuiet, LoginsQuiet DEF WindowInv
<1> QED
    BY <1>0, <1>3, <1>4 DEF SendInsert
-----------------------------------------------------------------------------
(* The failed logins. *)

(* A write of the counter of a for logins, by a login for a.                *)
LEMMA LoginKeyWritten ==
    ASSUME TypeInv, WindowInv, NEW a \in Addrs, stale \subseteq stale',
           NEW r \in LoginReqs, \A q \in LoginReqs : q # r => login'[q] = login[q],
           login'[r].pc # "reset", UNCHANGED send,
           \A b : b # a => r \notin InFlight(login', b),
           \A b : r \notin Inserting(login', b),
           \A j \in Keys : j # <<a, "login">> =>
              rate'[j] = rate[j] /\ counted'[j] = counted[j],
           LoginRowGood(a)', LoginKeyGood(a)'
    PROVE  WindowInv'
<1>1. \A b \in Addrs : /\ <<b, "otp">> \in Keys /\ <<b, "login">> \in Keys
                       /\ <<b, "otp">> # <<a, "login">>
                       /\ <<b, "login">> = <<a, "login">> => b = a
    BY DEF Keys
<1>2. ASSUME NEW b \in Addrs PROVE SendKeyGood(b)'
    BY <1>1 DEF WindowInv, SendKeyGood
<1>3. ASSUME NEW b \in Addrs, b # a PROVE LoginRowGood(b)' /\ LoginKeyGood(b)'
  <2>1. /\ rate'[<<b, "login">>] = rate[<<b, "login">>]
        /\ counted'[<<b, "login">>] = counted[<<b, "login">>]
    BY <1>1, <1>3
  <2> QED
    BY <1>3, <2>1, LoginMoves
<1>4. \A q \in LoginReqs : LoginCopyGood(q)'
    BY DEF WindowInv, LoginCopyGood
<1>5. \A q \in SendReqs : SendCopyGood(q)'
    BY DEF WindowInv, SendCopyGood
<1> QED
    BY <1>2, <1>3, <1>4, <1>5 DEF WindowInv

LEMMA LoginResetWindow ==
    ASSUME TypeInv, WindowInv, NEW r \in LoginReqs, LoginReset(r)
    PROVE  WindowInv'
<1>0. PICK a \in Addrs : a = login[r].addr
    BY DEF LoginReset, TypeInv, WellFormed
<1> DEFINE k == <<a, "login">>
           copy == login[r].row
           at == login[r].at
           edit == [attempts |-> 0, windowEnd |-> at + FailWindow]
           l == [IdleLogin EXCEPT !.pc = "find", !.addr = a]
<1>1. /\ k \in Keys /\ copy \in RateLimit /\ at \in Nat /\ Over(copy, at)
  <2>1. /\ login[r] \in LoginState /\ login[r].pc = "reset"
        /\ copy \in RateLimit /\ Over(copy, at)
    BY DEF LoginReset, TypeInv, TypeOK, WellFormed, WindowInv, LoginCopyGood
  <2> QED
    BY <2>1 DEF LoginState, Keys
<1>2. edit \in RateLimit /\ edit.attempts = 0 /\ edit.windowEnd # copy.windowEnd
    BY <1>1, NumbersAssumption DEF Over, RateLimit
<1>3. /\ WriteRate(k, copy, edit, 0) /\ stale' = stale \cup Outdated(rate[k], copy, k)
      /\ login' = [login EXCEPT ![r] = l] /\ UNCHANGED send
    BY <1>0 DEF LoginReset
<1>4. \A q \in LoginReqs : login'[q] = IF q = r THEN l ELSE login[q]
    BY <1>3 DEF TypeInv, TypeOK
<1>5. l.pc = "find" /\ l.addr = a
    BY DEF IdleLogin
<1> HIDE DEF edit, copy, at, l
<1>6. /\ \A j \in Keys : j # k => rate'[j] = rate[j] /\ counted'[j] = counted[j]
      /\ k \notin stale' => rate'[k] = edit /\ counted'[k] = 0
    BY <1>1, <1>2, <1>3, WriteRateIs
<1>7. LoginRowGood(a)' /\ LoginKeyGood(a)'
  <2> DEFINE G == Cardinality(InFlight(login', a))
             D == Cardinality(Inserting(login', a))
             L == Cardinality(LoginReqs)
  <2>1. G <= L /\ G \in Nat /\ D <= L /\ D \in Nat /\ L \in Nat \ {0}
    BY FlightFinite, SomeLogin
  <2>2. edit # None
    BY <1>2, NoneIsNoRow
  <2> HIDE DEF G, D, L
  <2>3. k \notin stale' => counted'[k] + G <= MaxFails + 2 * L - 1
    BY <1>6, <2>1, NumbersAssumption
  <2>4. k \notin stale' => rate'[k] # None /\ counted'[k] + D <= rate'[k].attempts + L
    BY <1>2, <1>6, <2>1, <2>2
  <2> QED
    BY <2>3, <2>4 DEF LoginKeyGood, LoginRowGood, G, D, L
<1>8. /\ login'[r].pc # "reset" /\ \A b : b # a => r \notin InFlight(login', b)
      /\ \A b : r \notin Inserting(login', b)
    BY <1>4, <1>5 DEF InFlight, Inserting
<1>9. stale \subseteq stale' /\ \A q \in LoginReqs : q # r => login'[q] = login[q]
    BY <1>3, <1>4
<1> QED
    BY <1>3, <1>6, <1>7, <1>8, <1>9, LoginKeyWritten

(* A failed login is counted in the row it read, inserts the row, or meets  *)
(* the row another one inserted.                                            *)
LEMMA RecordFailureWindow ==
    ASSUME TypeInv, WindowInv, NEW r \in LoginReqs, RecordFailure(r)
    PROVE  WindowInv'
<1>0. PICK a \in Addrs : a = login[r].addr
    BY DEF RecordFailure, TypeInv, WellFormed
<1> DEFINE k == <<a, "login">>
           copy == login[r].row
           at == login[r].at
           edit == Counted(copy, at, FailWindow)
<1>1. /\ k \in Keys /\ copy \in RateLimit \cup {None} /\ at \in Nat
      /\ login[r].pc = "penalise"
  <2>1. login[r] \in LoginState /\ login[r].pc = "penalise"
    BY DEF RecordFailure, TypeInv, TypeOK
  <2> QED
    BY <2>1 DEF LoginState, Keys
<1>2. /\ stale \subseteq stale' /\ LoginEnds(r) /\ UNCHANGED send
      /\ \/ copy = None /\ InsertRate(k, FailWindow)
         \/ /\ copy # None /\ WriteRate(k, copy, edit, 1)
            /\ stale \cup Outdated(rate[k], copy, k) \subseteq stale'
         \/ /\ copy = None /\ rate[k] # None
            /\ counted' = [counted EXCEPT ![k] = @ + 1] /\ UNCHANGED rate
    BY <1>0 DEF RecordFailure
<1>3. /\ \A q \in LoginReqs : login'[q] = IF q = r THEN IdleLogin ELSE login[q]
      /\ IdleLogin.pc = "idle"
    BY <1>2, LoginEndsType DEF IdleLogin
<1>4. /\ r \in InFlight(login, a) /\ \A b : r \notin InFlight(login', b)
      /\ copy = None => r \in Inserting(login, a)
      /\ \A b : r \notin Inserting(login', b)
    BY <1>0, <1>1, <1>3 DEF InFlight, Inserting
<1> DEFINE F == Cardinality(InFlight(login, a))
           G == Cardinality(InFlight(login', a))
           C == Cardinality(Inserting(login, a))
           D == Cardinality(Inserting(login', a))
           L == Cardinality(LoginReqs)
<1>5. /\ G + 1 <= F /\ F \in Nat /\ G \in Nat /\ L \in Nat /\ F <= L
      /\ D <= C /\ C \in Nat /\ D \in Nat /\ C <= L
      /\ copy = None => D + 1 <= C
    BY <1>3, <1>4, FlightMoves, InsertingMoves, FlightFinite
<1>6. /\ counted[k] \in Nat
      /\ k \notin stale => counted[k] + F <= MaxFails + 2 * L - 1
      /\ k \notin stale => IF rate[k] = None THEN counted[k] = 0
                           ELSE counted[k] + C <= rate[k].attempts + L
      /\ rate[k] # None => rate[k].attempts \in Nat
    BY <1>1 DEF WindowInv, LoginKeyGood, LoginRowGood, TypeInv, TypeOK, RateLimit
<1> HIDE DEF copy, at, edit, F, G, C, D, L
<1>7. /\ \A j \in Keys : j # k => rate'[j] = rate[j] /\ counted'[j] = counted[j]
      /\ k \notin stale' => /\ rate'[k] # None
                            /\ counted'[k] + D <= rate'[k].attempts + L
                            /\ counted'[k] = 1 \/ counted'[k] = counted[k] + 1
  <2>1. CASE copy = None /\ InsertRate(k, FailWindow)
    <3>1. /\ \A j \in Keys : j # k => rate'[j] = rate[j] /\ counted'[j] = counted[j]
          /\ rate[k] = None /\ rate'[k] # None /\ rate'[k].attempts = 0
          /\ counted'[k] = counted[k] + 1
      BY <1>1, <2>1, InsertRateIs, NumbersAssumption
    <3>2. k \notin stale' => counted[k] = 0
      BY <1>2, <1>6, <3>1
    <3> QED
      BY <1>5, <2>1, <3>1, <3>2
  <2>2. CASE /\ copy # None /\ WriteRate(k, copy, edit, 1)
             /\ stale \cup Outdated(rate[k], copy, k) \subseteq stale'
    <3>1. copy \in RateLimit
      BY <1>1, <2>2
    <3>2. /\ edit \in RateLimit
          /\ Over(copy, at) => edit.attempts = 1 /\ edit.windowEnd # copy.windowEnd
          /\ ~Over(copy, at) => /\ edit.attempts = copy.attempts + 1
                                /\ edit.windowEnd = copy.windowEnd
      BY <1>1, <3>1, CountedIs, NumbersAssumption DEF edit
    <3>3. /\ \A j \in Keys : j # k => rate'[j] = rate[j] /\ counted'[j] = counted[j]
          /\ k \notin stale' =>
                /\ rate[k] = copy /\ rate'[k] = edit
                /\ counted'[k] = IF edit.windowEnd # copy.windowEnd THEN 1
                                 ELSE counted[k] + 1
      BY <1>1, <2>2, <3>1, <3>2, WriteRateIs
    <3>4. edit # None /\ copy.attempts \in Nat
      BY <3>1, <3>2, NoneIsNoRow DEF RateLimit
    <3>5. k \notin stale' => counted[k] + C <= copy.attempts + L
      BY <1>2, <1>6, <2>2, <3>3
    <3> QED
      BY <1>5, <1>6, <3>2, <3>3, <3>4, <3>5
  <2>3. CASE /\ copy = None /\ rate[k] # None
             /\ counted' = [counted EXCEPT ![k] = @ + 1] /\ UNCHANGED rate
    <3>1. /\ counted'[k] = counted[k] + 1
          /\ \A j \in Keys : j # k => counted'[j] = counted[j]
      BY <1>1, <2>3 DEF TypeInv, TypeOK
    <3>2. k \notin stale' => counted[k] + C <= rate[k].attempts + L
      BY <1>2, <1>6, <2>3
    <3> QED
      BY <1>5, <1>6, <2>3, <3>1, <3>2
  <2> QED
    BY <1>2, <2>1, <2>2, <2>3
<1>8. LoginRowGood(a)'
    BY <1>7 DEF LoginRowGood, D, L
<1>9. k \notin stale' => counted'[k] + G <= MaxFails + 2 * L - 1
    BY <1>2, <1>5, <1>6, <1>7, NumbersAssumption
<1>10. LoginKeyGood(a)'
    BY <1>9 DEF LoginKeyGood, G, L
<1>11. /\ login'[r].pc # "reset" /\ \A q \in LoginReqs : q # r => login'[q] = login[q]
    BY <1>3
<1> QED
    BY <1>2, <1>4, <1>7, <1>8, <1>10, <1>11, LoginKeyWritten
-----------------------------------------------------------------------------
(* The limit lets a login pass: its address may be counted once more.       *)
LEMMA LoginBeginWindow ==
    ASSUME TypeInv, WindowInv, NEW r \in LoginReqs, NEW a \in Addrs, LoginBegin(r, a)
    PROVE  WindowInv'
<1> DEFINE k == <<a, "login">>
           row == rate[k]
           l == IF row # None /\ Over(row, now)
                THEN [IdleLogin EXCEPT !.pc = "reset", !.addr = a,
                                       !.row = row, !.at = now]
                ELSE [IdleLogin EXCEPT !.pc = "find", !.addr = a]
<1>1. /\ ~Blocked(row, MaxFails, now) /\ login' = [login EXCEPT ![r] = l]
      /\ UNCHANGED <<rate, counted, send>> /\ stale' = stale
    BY DEF LoginBegin, history
<1>2. \A q \in LoginReqs : login'[q] = IF q = r THEN l ELSE login[q]
    BY <1>1 DEF TypeInv, TypeOK
<1>3. /\ l.addr = a
      /\ l.pc = "reset" => l.row = row /\ l.at = now /\ Over(row, now)
      /\ l.pc = "find" => row = None \/ ~Over(row, now)
      /\ l.pc \in {"reset", "find"}
    BY DEF IdleLogin
<1>4. /\ k \in Keys /\ counted[k] \in Nat /\ LoginRowGood(a)
      /\ row \in RateLimit \cup {None} /\ Cardinality(LoginReqs) \in Nat \ {0}
      /\ Cardinality(Inserting(login, a)) \in Nat
    BY SomeLogin, FlightFinite DEF Keys, TypeInv, TypeOK, WindowInv
<1> HIDE DEF l
<1>5. l.pc = "find" =>
         k \in stale \/ counted[k] + 1 <= MaxFails + Cardinality(LoginReqs)
  <2>1. CASE row = None
    BY <1>4, <2>1, NumbersAssumption DEF LoginRowGood
  <2>2. CASE row # None /\ ~Over(row, now)
    <3>1. row.attempts \in Nat /\ row.attempts < MaxFails
      BY <1>1, <1>4, <2>2, NumbersAssumption DEF Blocked, RateLimit
    <3>2. k \in stale \/ counted[k] + Cardinality(Inserting(login, a))
                            <= row.attempts + Cardinality(LoginReqs)
      BY <1>4, <2>2 DEF LoginRowGood
    <3> QED
      BY <1>4, <3>1, <3>2, NumbersAssumption
  <2> QED
    BY <1>3, <2>1, <2>2
<1>6. ASSUME NEW b \in Addrs PROVE LoginRowGood(b)' /\ LoginKeyGood(b)'
  <2>1. /\ r \in InFlight(login', b) => b = a /\ l.pc = "find"
        /\ r \notin Inserting(login', b)
    BY <1>2, <1>3 DEF InFlight, Inserting
  <2>2. r \in InFlight(login', b) =>
           \/ <<b, "login">> \in stale
           \/ counted[<<b, "login">>] + 1 <= MaxFails + Cardinality(LoginReqs)
    BY <1>5, <2>1
  <2> QED
    BY <1>1, <1>2, <2>1, <2>2, LoginMoves
<1>7. \A q \in LoginReqs : LoginCopyGood(q)'
    BY <1>2, <1>3 DEF WindowInv, LoginCopyGood
<1>8. \A q \in SendReqs : SendCopyGood(q)'
    BY <1>1 DEF WindowInv, SendCopyGood
<1> QED
    BY <1>1, <1>6, <1>7, <1>8, CountersQuiet DEF WindowInv

(* A login past the limit goes on, or ends.                                 *)
LEMMA LoginGoesOn ==
    ASSUME TypeInv, WindowInv, UNCHANGED <<rate, counted, send>>, stale \subseteq stale',
           NEW r \in LoginReqs, \A q \in LoginReqs : q # r => login'[q] = login[q],
           \/ login'[r].pc \in {"idle", "login"}
           \/ /\ login[r].pc \in {"find", "compare", "limit"}
              /\ login'[r].pc \in {"compare", "limit", "penalise"}
              /\ login'[r].addr = login[r].addr
              /\ login'[r].pc = "penalise" =>
                    login'[r].row = rate[<<login[r].addr, "login">>]
    PROVE  WindowInv'
<1>1. \A b \in Addrs :
          /\ r \in InFlight(login', b) => r \in InFlight(login, b)
          /\ r \in Inserting(login', b) => rate[<<b, "login">>] = None
    BY DEF InFlight, Inserting
<1>2. ASSUME NEW b \in Addrs PROVE LoginRowGood(b)' /\ LoginKeyGood(b)'
    BY <1>1, LoginMoves
<1>3. \A q \in LoginReqs : LoginCopyGood(q)'
    BY DEF WindowInv, LoginCopyGood
<1>4. \A q \in SendReqs : SendCopyGood(q)'
    BY DEF WindowInv, SendCopyGood
<1> QED
    BY <1>2, <1>3, <1>4, CountersQuiet DEF WindowInv

LEMMA LoginStepsWindow ==
    ASSUME TypeInv, WindowInv, NEW r \in LoginReqs,
           LoginFind(r) \/ RecordWrong(r) \/ LimitRead(r) \/ MarkUsed(r) \/ LoginDone(r)
    PROVE  WindowInv'
<1>1. UNCHANGED <<rate, counted, send>> /\ stale \subseteq stale'
    BY DEF LoginFind, RecordWrong, LimitRead, MarkUsed, LoginDone, history
<1>2. login[r] \in LoginState /\ login \in [LoginReqs -> LoginState]
    BY DEF TypeInv, TypeOK
<1>3. CASE LoginEnds(r)
  <2>1. \A q \in LoginReqs : login'[q] = IF q = r THEN IdleLogin ELSE login[q]
    BY <1>3, LoginEndsType
  <2>2. IdleLogin.pc = "idle"
    BY DEF IdleLogin
  <2> QED
    BY <1>1, <2>1, <2>2, LoginGoesOn
<1>4. ASSUME NEW p, login[r].pc = "find",
             login' = [login EXCEPT ![r].pc = "compare", ![r].id = p,
                                    ![r].otp = otps[p], ![r].edit = otps[p]]
      PROVE  WindowInv'
  <2>1. /\ login'[r].pc = "compare" /\ login'[r].addr = login[r].addr
        /\ \A q \in LoginReqs : q # r => login'[q] = login[q]
    BY <1>2, <1>4 DEF LoginState
  <2> QED
    BY <1>1, <1>4, <2>1, LoginGoesOn
<1>5. CASE RecordWrong(r)
  <2>1. /\ login[r].pc = "compare"
        /\ login' = [login EXCEPT ![r].pc = "limit", ![r].edit = Attempted(login[r].otp)]
    BY <1>5 DEF RecordWrong
  <2>2. /\ login'[r].pc = "limit" /\ login'[r].addr = login[r].addr
        /\ \A q \in LoginReqs : q # r => login'[q] = login[q]
    BY <1>2, <2>1 DEF LoginState
  <2> QED
    BY <1>1, <2>1, <2>2, LoginGoesOn
<1>6. CASE LimitRead(r)
  <2>1. /\ login[r].pc = "limit"
        /\ login' = [login EXCEPT ![r].pc = "penalise", ![r].at = now,
                                  ![r].row = rate[<<login[r].addr, "login">>]]
    BY <1>6 DEF LimitRead
  <2>2. /\ login'[r].pc = "penalise" /\ login'[r].addr = login[r].addr
        /\ login'[r].row = rate[<<login[r].addr, "login">>]
        /\ \A q \in LoginReqs : q # r => login'[q] = login[q]
    BY <1>2, <2>1 DEF LoginState
  <2> QED
    BY <1>1, <2>1, <2>2, LoginGoesOn
<1>7. CASE MarkUsed(r)
  <2>1. login' = [login EXCEPT ![r].pc = "login", ![r].edit = Used(login[r].otp)]
    BY <1>7 DEF MarkUsed
  <2>2. /\ login'[r].pc = "login"
        /\ \A q \in LoginReqs : q # r => login'[q] = login[q]
    BY <1>2, <2>1 DEF LoginState
  <2> QED
    BY <1>1, <2>2, LoginGoesOn
<1> QED
    BY <1>3, <1>4, <1>5, <1>6, <1>7 DEF LoginFind, LoginDone

LEMMA SendStepsWindow ==
    ASSUME TypeInv, WindowInv, NEW r \in SendReqs,
           \/ \E a \in Addrs, purpose \in Purposes : SendBegin(r, a, purpose)
           \/ SendCheckRecent(r) \/ SendWipe(r) \/ SendCreate(r) \/ SendDeliver(r)
    PROVE  WindowInv'
<1>1. UNCHANGED <<rate, counted, login>> /\ stale \subseteq stale'
    BY DEF SendBegin, SendCheckRecent, SendWipe, SendCreate, SendDeliver, history
<1>2. \A q \in SendReqs : SendCopyGood(q)'
  <2>1. ASSUME NEW a \in Addrs, NEW purpose \in Purposes, SendBegin(r, a, purpose)
        PROVE  \A q \in SendReqs : SendCopyGood(q)'
    <3> DEFINE row == rate[<<a, "otp">>]
               s == [pc |-> "count", addr |-> a, purpose |-> purpose,
                     row |-> row, at |-> now]
    <3>1. ~Blocked(row, MaxSends, now) /\ send' = [send EXCEPT ![r] = s]
      BY <2>1 DEF SendBegin
    <3>2. \A q \in SendReqs : send'[q] = IF q = r THEN s ELSE send[q]
      BY <3>1 DEF TypeInv, TypeOK
    <3>3. s.row = row /\ s.at = now
      OBVIOUS
    <3> HIDE DEF s
    <3> QED
      BY <3>1, <3>2, <3>3 DEF WindowInv, SendCopyGood
  <2>2. CASE SendCheckRecent(r) \/ SendWipe(r) \/ SendCreate(r) \/ SendDeliver(r)
    <3>1. PICK pc \in {"idle", "wipe", "create", "deliver"} : SendAt(r, pc)
      BY <2>2 DEF SendCheckRecent, SendWipe, SendCreate, SendDeliver
    <3> QED
      BY <3>1, SendAtIs
  <2> QED
    BY <2>1, <2>2
<1> QED
    BY <1>1, <1>2, CountersQuiet, LoginsQuiet DEF WindowInv

LEMMA WindowStep == TypeInv /\ WindowInv /\ [Next]_vars => WindowInv'
<1> SUFFICES ASSUME TypeInv, WindowInv, [Next]_vars PROVE WindowInv'
    OBVIOUS
<1>1. CASE UNCHANGED vars \/ Tick
  <2>1. UNCHANGED <<rate, counted, send, login, stale>>
    BY <1>1 DEF vars, history, Tick
  <2>2. \A q \in SendReqs : SendCopyGood(q)'
    BY <2>1 DEF WindowInv, SendCopyGood
  <2> QED
    BY <2>1, <2>2, CountersQuiet, LoginsQuiet DEF WindowInv
<1>2. CASE Abandon
  <2>1. UNCHANGED <<rate, counted, stale>>
    BY <1>2 DEF Abandon, history
  <2>2. ASSUME NEW r \in SendReqs, SendAt(r, "idle"), UNCHANGED login PROVE WindowInv'
    BY <2>1, <2>2, SendAtIs, CountersQuiet, LoginsQuiet DEF WindowInv
  <2>3. ASSUME NEW r \in LoginReqs, LoginEnds(r), UNCHANGED send PROVE WindowInv'
    <3>1. /\ \A q \in LoginReqs : login'[q] = IF q = r THEN IdleLogin ELSE login[q]
          /\ IdleLogin.pc = "idle"
      BY <2>3, LoginEndsType DEF IdleLogin
    <3> QED
      BY <2>1, <2>3, <3>1, LoginGoesOn
  <2> QED
    BY <1>2, <2>2, <2>3 DEF Abandon
<1> QED
    BY <1>1, <1>2, SendStepsWindow, SendCountWindow, SendInsertWindow, LoginBeginWindow,
       LoginResetWindow, RecordFailureWindow, LoginStepsWindow
    DEF Next, SendRefuse, LoginRefuse

(* A window of an address, unless one of its requests wrote the counter     *)
(* from an outdated copy, admits one code more than the limit; of failed    *)
(* logins it admits fewer than twice as many more as are served at a time:  *)
(* those that met an insert are not in the row, those in flight not yet.    *)
THEOREM WindowIsBounded == Spec => []WindowBound
<1>1. Init => TypeInv /\ WindowInv
    BY InitTypes, InitWindow
<1>2. TypeInv /\ WindowInv /\ [Next]_vars => (TypeInv /\ WindowInv)'
    BY TypeStep, WindowStep
<1>3. ASSUME TypeInv, WindowInv PROVE WindowBound
  <2>1. ASSUME NEW a \in Addrs, <<a, "otp">> \notin stale
        PROVE  counted[<<a, "otp">>] <= MaxSends + 1
    <3> DEFINE k == <<a, "otp">>
    <3>1. /\ k \in Keys /\ counted[k] \in Nat /\ SendKeyGood(a)
          /\ rate[k] \in RateLimit \cup {None}
      BY <1>3 DEF Keys, TypeInv, TypeOK, WindowInv
    <3>2. rate[k] # None => rate[k].attempts \in Nat
      BY <3>1 DEF RateLimit
    <3> QED
      BY <2>1, <3>1, <3>2, NumbersAssumption DEF SendKeyGood
  <2>2. ASSUME NEW a \in Addrs, <<a, "login">> \notin stale
        PROVE  counted[<<a, "login">>] <= MaxFails + 2 * Cardinality(LoginReqs) - 1
    <3> DEFINE F == Cardinality(InFlight(login, a))
               n == counted[<<a, "login">>]
    <3>1. F \in Nat /\ Cardinality(LoginReqs) \in Nat
      BY FlightFinite
    <3>2. n \in Nat /\ n + F <= MaxFails + 2 * Cardinality(LoginReqs) - 1
      BY <1>3, <2>2 DEF WindowInv, LoginKeyGood, TypeInv, TypeOK, Keys
    <3> HIDE DEF F, n
    <3>3. n <= MaxFails + 2 * Cardinality(LoginReqs) - 1
      BY <3>1, <3>2, NumbersAssumption
    <3> QED
      BY <3>3 DEF n
  <2> QED
    BY <2>1, <2>2 DEF WindowBound
<1> QED
    BY <1>1, <1>2, <1>3, PTL DEF Spec
=============================================================================
