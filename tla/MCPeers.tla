------------------------------ MODULE MCPeers ------------------------------
(* Instances of Peers for TLC. *)
EXTENDS PeersProperties, TLC

CONSTANTS t1, t2, d1, d2, h1, h2, alice, bob

TwoTasks == {t1, t2}
TwoDids == {d1, d2}
TwoHandles == {h1, h2}
FirstHandle == {h1}

IdentOf(h, d) == [handle |-> h, did |-> d]

\* Every DID has a handle of its own.
OwnHandles == {IdentOf(h1, d1), IdentOf(h2, d2)}
\* A peer gives its handle with two DIDs; the second has another handle too.
SharedHandle == OwnHandles \union {IdentOf(h1, d2)}

OnePeer == [h \in TwoHandles |-> alice]
TwoPeers == [h \in TwoHandles |-> IF h = h1 THEN alice ELSE bob]

Loaded == FailureKinds \ {"graph", "save"}
InTheGraph == {"auth", "graph", "save"}

Symmetry == Permutations(Tasks)
=============================================================================
