------------------------------ MODULE MCAccounts ------------------------------
(* Small instances of Accounts for TLC. *)
EXTENDS Accounts, TLC

CONSTANTS phone, email, l1, l2, a1, a2

OnePhone == {phone}
OneEmail == {email}

(* Slots are interchangeable. *)
Slots == Permutations(LoginReqs) \cup Permutations(Admins)
=============================================================================
