-------------------------- MODULE DevicesRefinement --------------------------
(***************************************************************************)
(* Devices implements DeviceContract.  A request decides on a copy of the  *)
(* row and writes it later; where the row is still what the copy says,     *)
(* that is the operation of the contract, at the time of the write.        *)
(***************************************************************************)
EXTENDS Devices

PhaseOf(row) ==
    CASE row.state = "absent"  -> "new"
      [] row.state = "active"  -> "active"
      [] row.state = "blocked" -> "left"

Phase == [p \in Prints |-> PhaseOf(dev[p])]

Owner == [p \in Prints |-> dev[p].user]

Trusted == {p \in Prints : dev[p].trust = "trusted"}

LeftFor == [p \in Prints |-> IF dev[p].state = "blocked"
                              THEN dev[p].blockedFor ELSE 0]

Contract == INSTANCE DeviceContract WITH
    phase <- Phase, owner <- Owner, trusted <- Trusted, leftFor <- LeftFor,
    spoiled <- stale

(* Every step of every handler is a step of the contract or none: although  *)
(* logins, logouts and trust requests act on what they read some time ago,  *)
(* each device that no two of them wrote at once behaves as if each had     *)
(* been one step, in the order of their writes.                             *)
ImplementsDeviceContract == Contract!Spec
=============================================================================
