---------------------------- MODULE MCLinkLock ----------------------------
(* LinkLock on a few processes: two hosts, the first process of each alone  *)
(* with a heartbeat.                                                        *)
EXTENDS LinkLock, TLC

CONSTANTS a1, a2, b1, hostA, hostB

TwoAndOne == (a1 :> hostA) @@ (a2 :> hostA) @@ (b1 :> hostB)
OneAndOne == (a1 :> hostA) @@ (b1 :> hostB)
=============================================================================
