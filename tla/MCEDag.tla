------------------------------- MODULE MCEDag -------------------------------
(* Instances of EDag for TLC. *)
EXTENDS EDagProperties, TLC

CONSTANTS e1, e2, w1, r1, r2

NoTasks == {}
OneEditor == {e1}
TwoEditors == {e1, e2}
OneRewinder == {w1}
OneReader == {r1}
TwoReaders == {r1, r2}

GetFault == {"get", "crash"}
AllButWrites == {"get", "put", "metaread", "crash"}
StoreFaults == {"get", "put"}

Symmetry == Permutations(Editors) \union Permutations(Readers)
=============================================================================
