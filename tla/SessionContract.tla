--------------------------- MODULE SessionContract ---------------------------
(***************************************************************************)
(* What the session table promises, with no word about requests, locks or  *)
(* transactions.  A session is opened once and terminated for good.  Two   *)
(* judgements stand between a decision and its effect, because the code    *)
(* decides on what it read and writes later: granted holds the sessions a  *)
(* refresh was granted on while they were usable, condemned those somebody *)
(* has decided to end while they were open.  Only a grant extends a        *)
(* session, only a sentence ends one, and either may come to nothing.      *)
(***************************************************************************)
EXTENDS Naturals

CONSTANTS Sids, SessionTTL, MaxTTL, RefreshTTL

VARIABLES now, phase, expiresAt, maxExpiresAt, granted, condemned

vars == <<now, phase, expiresAt, maxExpiresAt, granted, condemned>>

IsOpen(s) == phase[s] = "open"

Usable(s) == IsOpen(s) /\ now <= expiresAt[s] /\ now <= maxExpiresAt[s]

Init ==
    /\ now = 0
    /\ phase = [s \in Sids |-> "absent"]
    /\ expiresAt = [s \in Sids |-> 0]
    /\ maxExpiresAt = [s \in Sids |-> 0]
    /\ granted = {}
    /\ condemned = {}

(* A judgement is passed on a session as it is now; any may be dropped. *)
Judge ==
    /\ granted' \subseteq granted \cup {s \in Sids : Usable(s)}
    /\ condemned' \subseteq condemned \cup {s \in Sids : IsOpen(s)}
    /\ UNCHANGED <<now, phase, expiresAt, maxExpiresAt>>

(* A login opens s and ends the sessions V that have to make room for it. *)
Open(s, V) ==
    /\ phase[s] = "absent"
    /\ V \subseteq condemned
    /\ phase' = [x \in Sids |-> IF x = s THEN "open"
                                ELSE IF x \in V THEN "terminated" ELSE phase[x]]
    /\ expiresAt'[s] <= now + SessionTTL
    /\ maxExpiresAt'[s] <= now + MaxTTL
    /\ \A x \in Sids \ {s} : /\ expiresAt'[x] = expiresAt[x]
                             /\ maxExpiresAt'[x] = maxExpiresAt[x]
    /\ condemned' \subseteq condemned
    /\ UNCHANGED <<now, granted>>

(* The answer to a granted refresh; the absolute maximum does not move. *)
Extend(s) ==
    /\ s \in granted
    /\ expiresAt' = [expiresAt EXCEPT ![s] = now + RefreshTTL]
    /\ granted' \subseteq granted
    /\ condemned' \subseteq condemned
    /\ UNCHANGED <<now, phase, maxExpiresAt>>

Terminate(s) ==
    /\ s \in condemned
    /\ phase' = [phase EXCEPT ![s] = "terminated"]
    /\ condemned' \subseteq condemned
    /\ UNCHANGED <<now, expiresAt, maxExpiresAt, granted>>

Tick == now' = now + 1 /\ UNCHANGED <<phase, expiresAt, maxExpiresAt, granted, condemned>>

Next ==
    \/ Tick
    \/ Judge
    \/ \E s \in Sids : Extend(s) \/ Terminate(s)
    \/ \E s \in Sids, V \in SUBSET Sids : Open(s, V)

Spec == Init /\ [][Next]_vars
-----------------------------------------------------------------------------
Dead(s) == phase[s] # "absent" /\ ~Usable(s) /\ s \notin granted

(* What has run out, or was terminated, with no refresh granted before, is  *)
(* out of use for ever: no request is admitted to it and nothing extends it.*)
DeadForGood == [][\A s \in Sids : Dead(s) => Dead(s)']_vars
=============================================================================
