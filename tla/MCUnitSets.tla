----------------------------- MODULE MCUnitSets -----------------------------
(* Three calls at a time; they are alike, and so are the artifacts.        *)
EXTENDS UnitSets, TLC

CONSTANTS p1, p2, p3, a1, a2

MCProcess == {p1, p2, p3}
MCArtifact == {a1, a2}

Permuted == Permutations(MCProcess) \cup Permutations(MCArtifact)
=============================================================================
