------------------------------- MODULE MCIpid -------------------------------
(* Instances of IPIdentifier for TLC. *)
EXTENDS IPIdentifierProperties

CONSTANTS u1, l1, p1, p2

OneUpdate == {u1}
OneLoader == {l1}
TwoPublishers == {p1, p2}
=============================================================================
