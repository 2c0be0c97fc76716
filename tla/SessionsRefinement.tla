------------------------- MODULE SessionsRefinement -------------------------
(***************************************************************************)
(* Sessions implements SessionContract.  The judgements of the contract    *)
(* are what requests in flight have read: a refresh past the guard is a    *)
(* grant; a sentence is a victim of a login not yet committed, a request   *)
(* about to close its session, or a row a bulk termination has listed.     *)
(***************************************************************************)
EXTENDS Sessions

Granted == {req[q].sid : q \in {p \in Reqs : req[p].pc = "refresh"}}

Victims == UNION {login[r].victims : r \in LoginReqs}

Listed == UNION {job[j].todo : j \in Jobs}

Closing == {req[q].sid : q \in {p \in Reqs : req[p].pc \in
                                     {"logout", "compromised", "close"}}}

Condemned == Victims \cup Listed \cup Closing

Contract == INSTANCE SessionContract WITH
    phase <- [s \in Sids |-> sess[s].state],
    expiresAt <- [s \in Sids |-> sess[s].expiresAt],
    maxExpiresAt <- [s \in Sids |-> sess[s].maxExpiresAt],
    granted <- Granted,
    condemned <- Condemned

(* Every step of every handler is a step of the contract or none: sessions  *)
(* are opened once, extended only for a refresh that was admitted while     *)
(* they were usable, and ended only by who had read them open, whatever     *)
(* else was written between the read and the write.                         *)
ImplementsContract == Contract!Spec

(* A session that ran out, or was terminated, with no refresh past its      *)
(* guard is never admitted or extended again, on either of its two dates:   *)
(* a refresh may set expiresAt later than maxExpiresAt, and gains nothing.  *)
DeadForGood == Contract!DeadForGood
=============================================================================
