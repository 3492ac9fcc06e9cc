---------------------------- MODULE StorageTypes ----------------------------
(***************************************************************************)
(* What the storages of rust/signal_bridge/src have in common: the five    *)
(* stores of storage_trait.rs, what they are keyed by and what they hold.  *)
(*                                                                         *)
(* A record (a session, an identity key, a pre-key record) is an opaque    *)
(* value: libsignal serialises it and gives the same value back.  The      *)
(* storages look into one only for its time stamp.                         *)
(***************************************************************************)
EXTENDS Integers, FiniteSets

CONSTANTS
    Addresses,      \* ProtocolAddress, a name and a device number
    Ids,            \* PreKeyId, SignedPreKeyId, KyberPreKeyId
    Records,        \* what the stores hold
    Pairs,          \* local identity key pairs
    CreatedAt,      \* CreatedAt[r]: record.timestamp(), in milliseconds
    Registrations,  \* registration ids (u32)
    Times,          \* times asked for, in milliseconds
    MILLIS,         \* milliseconds in a second
    None,           \* Option::None, or the error that nothing is stored
    Error,          \* any other error
    Blank           \* X'', the key column of a row without a key pair

Stores == {"session", "identity", "pre", "signed", "kyber"}

\* The stores whose records have an age.
AgedStores == {"signed", "kyber"}

Keys == Addresses \cup Ids

KeysOf(s) == IF s \in {"session", "identity"} THEN Addresses ELSE Ids

ASSUME StorageAssumption ==
    /\ Ids \subseteq Nat
    /\ Addresses \cap Ids = {}
    /\ IsFiniteSet(Keys)
    /\ CreatedAt \in [Records -> Nat]
    /\ Registrations \subseteq Nat
    /\ 0 \in Registrations
    /\ Times \subseteq Nat
    /\ MILLIS \in Nat \ {0}
    /\ None \notin Records \cup Pairs \cup Registrations
    /\ Error # None
    /\ Blank \notin Pairs

Secs(ms) == ms \div MILLIS

\* The largest of a set of ids; None for the empty set.
Largest(S) == IF S = {} THEN None ELSE CHOOSE i \in S : \A j \in S : j <= i

\* SELECT ... COUNT(*), HashMap::len.
Occupied(f) == {k \in DOMAIN f : f[k] # None}
=============================================================================
