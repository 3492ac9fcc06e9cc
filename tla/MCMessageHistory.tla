-------------------------- MODULE MCMessageHistory --------------------------
(* Instances of MessageHistory: contacts and statuses as model values.     *)
EXTENDS MessageHistory, TLC

CONSTANTS k1, k2, pending, delivered

PeerSymmetry == Permutations(Peers)
=============================================================================
