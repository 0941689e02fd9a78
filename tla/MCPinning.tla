----------------------------- MODULE MCPinning -----------------------------
(* Instances of Pinning for TLC. *)
EXTENDS PinningProperties, TLC

CONSTANTS a, b, q1, q2

OnePath == {a}
TwoPaths == {a, b}
OneQueue == {q1}
TwoQueues == {q1, q2}

Refusals == {"api"}
AllFaults == FaultKinds

Symmetry == Permutations(Paths) \union Permutations(QNames)
=============================================================================
