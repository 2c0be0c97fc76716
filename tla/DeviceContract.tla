--------------------------- MODULE DeviceContract ---------------------------
(***************************************************************************)
(* What the table of devices promises, with every operation one step on    *)
(* the row as it is then, and no word about requests and their copies.  A  *)
(* device is enrolled by the first user who logs in with it, left when its *)
(* owner logs out, and used again when he returns; after the cooldown      *)
(* another may take it over.  Trust is an admin's to give and take; it     *)
(* ends with a logout, comes back with the owner and passes to nobody.     *)
(*                                                                         *)
(* Nothing is promised of spoiled devices, which two requests wrote at     *)
(* once.                                                                   *)
(***************************************************************************)
EXTENDS Naturals

CONSTANTS Users, None, Prints, Cooldown

VARIABLES
    phase,      \* "new", "active" or "left"
    owner, trusted,
    leftFor,    \* how long ago the owner logged out
    spoiled

vars == <<phase, owner, trusted, leftFor, spoiled>>

Init ==
    /\ phase = [p \in Prints |-> "new"]
    /\ owner = [p \in Prints |-> None]
    /\ trusted = {}
    /\ leftFor = [p \in Prints |-> 0]
    /\ spoiled = {}

(* p is used by u from now on. *)
UsedBy(p, u) ==
    /\ phase' = [phase EXCEPT ![p] = "active"]
    /\ owner' = [owner EXCEPT ![p] = u]
    /\ leftFor' = [leftFor EXCEPT ![p] = 0]
    /\ UNCHANGED spoiled

Enrol(p, u) ==
    /\ phase[p] = "new"
    /\ UsedBy(p, u)
    /\ trusted' = trusted \ {p}

Return(p) ==
    /\ phase[p] = "left"
    /\ UsedBy(p, owner[p])
    /\ trusted' = trusted \cup {p}

TakeOver(p, u) ==
    /\ phase[p] = "left" /\ u # owner[p] /\ leftFor[p] > Cooldown
    /\ UsedBy(p, u)
    /\ trusted' = trusted \ {p}

(* The logout dates from its decision, which may be a while ago. *)
Leave(p) ==
    /\ phase[p] # "new"
    /\ phase' = [phase EXCEPT ![p] = "left"]
    /\ leftFor'[p] \in Nat
    /\ leftFor' = [leftFor EXCEPT ![p] = leftFor'[p]]
    /\ trusted' = trusted \ {p}
    /\ UNCHANGED <<owner, spoiled>>

Trust(p) ==
    /\ phase[p] = "active"
    /\ trusted' = trusted \cup {p}
    /\ UNCHANGED <<phase, owner, leftFor, spoiled>>

Untrust(p) ==
    /\ trusted' = trusted \ {p}
    /\ UNCHANGED <<phase, owner, leftFor, spoiled>>

(* A write that overlaps another: whatever comes of it, it touches p only. *)
Spoil(p) ==
    /\ spoiled' = spoiled \cup {p}
    /\ trusted' \ {p} = trusted \ {p}
    /\ \A o \in Prints \ {p} : /\ phase'[o] = phase[o] /\ owner'[o] = owner[o]
                               /\ leftFor'[o] = leftFor[o]

(* Time passes for the devices that were left; it stops mattering at some   *)
(* age past the cooldown.                                                   *)
Tick ==
    /\ \A p \in Prints :
          \/ leftFor'[p] = leftFor[p] + (IF phase[p] = "left" THEN 1 ELSE 0)
          \/ leftFor'[p] = leftFor[p] /\ leftFor[p] > Cooldown
    /\ UNCHANGED <<phase, owner, trusted, spoiled>>

Next ==
    \/ \E p \in Prints :
          \/ \E u \in Users : Enrol(p, u) \/ TakeOver(p, u)
          \/ Return(p) \/ Leave(p) \/ Trust(p) \/ Untrust(p) \/ Spoil(p)
    \/ Tick

Spec == Init /\ [][Next]_vars
=============================================================================
