--------------------------- MODULE MCControlPeers ---------------------------
(***************************************************************************)
(* ControlPeers for TLC: no peer is named by a specification, so they may  *)
(* be exchanged.                                                           *)
(***************************************************************************)
EXTENDS ControlPeers, TLC

PeerSymmetry == Permutations(Peers)
=============================================================================
