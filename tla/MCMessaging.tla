---------------------------- MODULE MCMessaging ----------------------------
(* Instances of Messaging: identities and aliases as model values.         *)
EXTENDS Messaging, TLC

CONSTANTS q1, q2, me, bob, self, noalias, pending

PeerSymmetry == Permutations(Peers)
=============================================================================
