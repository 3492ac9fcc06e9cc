-------------------------------- MODULE Nodes --------------------------------
(* The nodes a node of Radix Relay deals with.  The fingerprint, the Nostr  *)
(* public key and the identity key of a node are derived from one another,  *)
(* so that one value stands for all three.                                  *)

CONSTANTS
    Peers,          \* the other nodes
    None            \* no value: an absent row, record or handler
==============================================================================
