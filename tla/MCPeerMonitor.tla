---------------------------- MODULE MCPeerMonitor ----------------------------
(***************************************************************************)
(* Instances of PeerMonitor for TLC: the constants are given in the .cfg   *)
(* files.  The nonces are compared only for equality and the peers are     *)
(* alike; there is no symmetry because liveness is checked.                *)
(***************************************************************************)
EXTENDS PeerMonitor

=============================================================================
