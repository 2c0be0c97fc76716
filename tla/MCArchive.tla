----------------------------- MODULE MCArchive -----------------------------
(* Small instances of Archive for TLC. *)
EXTENDS Archive, TLC

CONSTANTS s1, a1, a2, a3, j1, j2, q1, timeout, invented

OneSession == {s1}
ThreeArchives == {a1, a2, a3}
TwoJobs == {j1, j2}
OneRestore == {q1}
TwoReasons == {timeout, invented}
TimeoutOnly == timeout :> 1
OneOwner == {Sids}
LongerRetention == {1}
ZeroOrOne == {0, 1}

Symmetry == Permutations(ArchiveIds) \cup Permutations(Jobs)
=============================================================================
