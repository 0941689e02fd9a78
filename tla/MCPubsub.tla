------------------------------ MODULE MCPubsub ------------------------------
(* Instances of PubsubService for TLC. *)
EXTENDS PubsubProperties

CONSTANTS l1, l2, l3, p1, p2, m1, m2

ThreeLoops == {l1, l2, l3}
TwoProcs == {p1, p2}
OneMsg == {m1}
TwoMsgs == {m1, m2}

AllEvents == EventKinds
=============================================================================
