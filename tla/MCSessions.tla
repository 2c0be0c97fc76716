---------------------------- MODULE MCSessions ----------------------------
(* Small instances of Sessions for TLC. *)
EXTENDS SessionsRefinement, TLC

CONSTANTS u1, d1, d2, s1, s2, s3, r1, r2, q1, q2, j1

OneUser == {u1}
OneDevice == {d1}
TwoDevices == {d1, d2}
TwoSids == {s1, s2}
ThreeSids == {s1, s2, s3}
OneLogin == {r1}
TwoLogins == {r1, r2}
OneReq == {q1}
TwoReqs == {q1, q2}
OneJob == {j1}
Nobody == {}
(* maxExpiredDays and maxInactiveDays, in steps of the clock. *)
Prompt == [expired |-> 0, inactive |-> 0]
Usual == [expired |-> 1, inactive |-> 1]
OnlyPrompt == {Prompt}
OnlyUsual == {Usual}
ByRequest == {"ADMIN", NoReason}
NoneGiven == {NoReason}

(* Ids and slots are interchangeable: nothing but equality tells them apart. *)
Symmetry == Permutations(Sids) \cup Permutations(Devices)
              \cup Permutations(LoginReqs) \cup Permutations(Reqs)
=============================================================================
