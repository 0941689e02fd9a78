---------------------------- MODULE VersionChain ----------------------------
(* What an evolving document promises: versions are immutable and each names *)
(* its parent; the current version moves to a new child or back to its       *)
(* parent; a restart resumes from the version recorded last.                 *)
EXTENDS Naturals, Sequences

CONSTANT MaxVersions

VARIABLES
    parent,   \* parent[v] is the version that v replaced, 0 for none
    current,  \* the version in use, 0 for none
    recorded  \* the version a restart resumes from

vars == <<parent, current, recorded>>

Init == parent = <<>> /\ current = 0 /\ recorded = 0

(* A version is identified by its content, which includes its parent: the    *)
(* same content again is the same version.                                   *)
Commit ==
    /\ current' \in 1..MaxVersions
    /\ \/ current' \in DOMAIN parent /\ parent[current'] = current /\ UNCHANGED parent
       \/ current' = Len(parent) + 1 /\ parent' = Append(parent, current)
    /\ UNCHANGED recorded

Rewind ==
    /\ current # 0 /\ parent[current] # 0
    /\ current' = parent[current]
    /\ UNCHANGED <<parent, recorded>>

Record  == recorded' = current /\ UNCHANGED <<parent, current>>
Restart == current' = recorded /\ UNCHANGED <<parent, recorded>>

Next == Commit \/ Rewind \/ Record \/ Restart

Spec == Init /\ [][Next]_vars
=============================================================================
