------------------------------ MODULE MCSearch ------------------------------
(* Instances of IpfsSearch for TLC. *)
EXTENDS IpfsSearchProperties

AllFaults == FaultKinds
=============================================================================
