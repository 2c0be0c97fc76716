------------------------------- MODULE MCOtp -------------------------------
(* Small instances of Otp for TLC. *)
EXTENDS Otp, TLC

CONSTANTS a1, a2, o1, o2, r1, r2, q1

OneAddr == {a1}
TwoAddrs == {a1, a2}
OnePhone == {a1}
OnlyLogin == {"login"}
TwoPurposes == {"login", "verify"}
OneOtp == {o1}
TwoOtps == {o1, o2}
OneSend == {q1}
OneLogin == {r1}
TwoLogins == {r1, r2}

(* Codes are interchangeable, and so are request slots. *)
Symmetry == Permutations(OtpIds) \cup Permutations(SendReqs)
              \cup Permutations(LoginReqs)
=============================================================================
