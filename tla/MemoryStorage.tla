---------------------------- MODULE MemoryStorage ----------------------------
(***************************************************************************)
(* memory_storage.rs: the storage without a database ("Data is lost when   *)
(* the process terminates").  A store is a HashMap behind a lock, the      *)
(* local identity two separate Options, and no call fails.                 *)
(***************************************************************************)
EXTENDS StorageTypes, Functions

VARIABLES
    maps,           \* maps[s]: the HashMap of store s
    identityPair,   \* local_identity_key_pair
    registrationId, \* local_registration_id
    called,         \* the last call: the method and the store
    answer          \* what it answered

vars == <<maps, identityPair, registrationId, called, answer>>

EmptyMaps == [s \in Stores |-> [k \in {} |-> None]]

Init ==
    /\ maps = EmptyMaps
    /\ identityPair = None
    /\ registrationId = None
    /\ called = <<"open", "storage">>
    /\ answer = "ok"

-----------------------------------------------------------------------------
(* HashMap.                                                                *)

Answer(call, s, a) ==
    /\ called' = <<call, s>>
    /\ answer' = a

Reads(call, s, a) ==
    /\ Answer(call, s, a)
    /\ UNCHANGED <<maps, identityPair, registrationId>>

Lookup(s, k) == IF k \in DOMAIN maps[s] THEN maps[s][k] ELSE None

Becomes(call, s, map, a) ==
    /\ maps' = [maps EXCEPT ![s] = map]
    /\ Answer(call, s, a)
    /\ UNCHANGED <<identityPair, registrationId>>

Inserted(s, k, r) == [j \in DOMAIN maps[s] \cup {k} |-> IF j = k THEN r ELSE maps[s][j]]

Insert(s, k, r) == Becomes("put", s, Inserted(s, k, r), "ok")

Remove(s, k) == Becomes("delete", s, Restrict(maps[s], DOMAIN maps[s] \ {k}), "ok")

Wipe(s) == Becomes("clear", s, [k \in {} |-> None], "ok")

Len(s) == Reads("count", s, Cardinality(DOMAIN maps[s]))

MaxKey(s) == Reads("max", s, Largest(DOMAIN maps[s]))

\* The time stamps are compared in milliseconds.
Expired(s, t) == Reads("older", s, {k \in DOMAIN maps[s] : CreatedAt[maps[s][k]] < t})

-----------------------------------------------------------------------------
(* MemorySessionStore.                                                     *)

LoadSession(a) == Reads("get", "session", Lookup("session", a))

StoreSession(a, r) == Insert("session", a, r)

SessionCalls(a) ==
    \/ LoadSession(a)
    \/ \E r \in Records : StoreSession(a, r)
    \/ Remove("session", a) \/ Wipe("session") \/ Len("session")

-----------------------------------------------------------------------------
(* MemoryIdentityStore.                                                    *)

SaveIdentity(a, r) ==
    Becomes("save", "identity", Inserted("identity", a, r),
            IF Lookup("identity", a) \in {None, r} THEN "NewOrUnchanged" ELSE "ReplacedExisting")

IsTrustedIdentity(a, r) ==
    Reads("trusted", "identity", a \in DOMAIN maps["identity"] => maps["identity"][a] = r)

IdentityCalls(a) ==
    \/ Reads("get", "identity", Lookup("identity", a))
    \/ \E r \in Records : SaveIdentity(a, r) \/ IsTrustedIdentity(a, r)
    \/ Remove("identity", a) \/ Wipe("identity") \/ Len("identity")

GetIdentityKeyPair == Reads("get", "local", identityPair)

GetLocalRegistrationId ==
    Reads("registration", "local", IF registrationId = None THEN Error ELSE registrationId)

SetLocalIdentityKeyPair(p) ==
    /\ identityPair' = p
    /\ Answer("put", "local", "ok")
    /\ UNCHANGED <<maps, registrationId>>

SetLocalRegistrationId(n) ==
    /\ registrationId' = n
    /\ Answer("register", "local", "ok")
    /\ UNCHANGED <<maps, identityPair>>

\* Mutant: the registration id is left.
ClearLocalPair ==
    /\ identityPair' = None
    /\ Answer("clear", "local", "ok")
    /\ UNCHANGED <<maps, registrationId>>

ClearLocalIdentity ==
    /\ identityPair' = None
    /\ registrationId' = None
    /\ Answer("clear", "local", "ok")
    /\ UNCHANGED maps

-----------------------------------------------------------------------------
(* MemoryPreKeyStore, MemorySignedPreKeyStore, MemoryKyberPreKeyStore.     *)

PreKeyCalls(i) ==
    \/ Reads("get", "pre", Lookup("pre", i))
    \/ \E r \in Records : Insert("pre", i, r)
    \/ Remove("pre", i) \/ Wipe("pre") \/ Len("pre") \/ MaxKey("pre")

SignedPreKeyCalls(i) ==
    \/ Reads("get", "signed", Lookup("signed", i))
    \/ \E r \in Records : Insert("signed", i, r)
    \/ Remove("signed", i) \/ Wipe("signed") \/ Len("signed") \/ MaxKey("signed")
    \/ \E t \in Times : Expired("signed", t)

KyberPreKeyCalls(i) ==
    \/ Reads("get", "kyber", Lookup("kyber", i))
    \/ \E r \in Records : Insert("kyber", i, r)
    \/ Reads("mark", "kyber", "ok")
    \/ Remove("kyber", i) \/ Wipe("kyber") \/ Len("kyber") \/ MaxKey("kyber")
    \/ \E t \in Times : Expired("kyber", t)

-----------------------------------------------------------------------------
(* The container: initialize and close do nothing.                         *)

Close == Reads("close", "storage", "ok")

\* The process ends and MemoryStorage::new makes empty stores.
New ==
    /\ maps' = EmptyMaps
    /\ identityPair' = None
    /\ registrationId' = None
    /\ Answer("open", "storage", "ok")

Next ==
    \/ \E a \in Addresses : SessionCalls(a) \/ IdentityCalls(a)
    \/ \E i \in Ids : PreKeyCalls(i) \/ SignedPreKeyCalls(i) \/ KyberPreKeyCalls(i)
    \/ \E p \in Pairs : SetLocalIdentityKeyPair(p)
    \/ \E n \in Registrations : SetLocalRegistrationId(n)
    \/ GetIdentityKeyPair \/ GetLocalRegistrationId \/ ClearLocalIdentity
    \/ Close \/ New

Spec == Init /\ [][Next]_vars

-----------------------------------------------------------------------------
(* The promise of storage_trait.rs.                                        *)

Promise == INSTANCE Storage WITH
    content <- [s \in Stores |-> [k \in Keys |-> Lookup(s, k)]],
    pair <- identityPair,
    registration <- IF registrationId = None THEN 0 ELSE registrationId,
    Durable <- FALSE,
    Fallible <- FALSE

\* The maps keep the promise of the traits too, so what is tested against
\* the memory storage is what the database promises, failures and restarts
\* aside.
MemoryKeepsPromise == Promise!Spec
=============================================================================
