---------------------------- MODULE SqliteStorage ----------------------------
(***************************************************************************)
(* sqlite_storage.rs: the storage of the program.  A store is a table, a   *)
(* set of rows with a primary key, and each method is one or two SQL       *)
(* statements on it; the local identity is a table of at most one row      *)
(* whose two columns are set by two separate statements.                   *)
(*                                                                         *)
(* Any statement may fail (a full disk, a busy database).  The methods     *)
(* pass the error on, except the counts, which answer 0 (unwrap_or(0)),    *)
(* and the maxima, which answer None (ok()).                               *)
(***************************************************************************)
EXTENDS StorageTypes

VARIABLES
    rows,       \* rows[s]: the table of store s
    local,      \* the table local_identity
    status,     \* SqliteStorage: new, open (initialize has run) or closed
    called,     \* the last call: the method and the store
    answer      \* what it answered

vars == <<rows, local, status, called, answer>>

NoTable == [s \in Stores |-> {}]

Init ==
    /\ rows = NoTable
    /\ local = {}
    /\ status = "new"
    /\ called = <<"open", "storage">>
    /\ answer = "ok"

-----------------------------------------------------------------------------
(* SQL.                                                                    *)

\* The accessors of the container: a call on a storage that is not open
\* panics, and the process ends.
Accessible == status = "open"

Answer(call, s, a) ==
    /\ called' = <<call, s>>
    /\ answer' = a

Reads(call, s, a) ==
    /\ Accessible
    /\ Answer(call, s, a)
    /\ UNCHANGED <<rows, local, status>>

\* query_row: the row of the key, or QueryReturnedNoRows.
QueryRow(call, s, k) ==
    \/ \E r \in rows[s] : r.key = k /\ Reads(call, s, r.data)
    \/ (\A r \in rows[s] : r.key # k) /\ Reads(call, s, None)
    \/ Reads(call, s, Error)

\* query_row, taken as an option: the record of the row, or None.
Found(T, k) == IF \E r \in T : r.key = k THEN (CHOOSE r \in T : r.key = k).data ELSE None

\* Mutant: the table has no primary key.
ReplacedNothing(T, row) == T \cup {row}

\* INSERT OR REPLACE: the rows with the key of the new one go.
Replaced(T, row) == {r \in T : r.key # row.key} \cup {row}

Row(k, data, created) == [key |-> k, data |-> data, created |-> created]

\* A statement that leaves the table T: executed, or failed.
Execute(call, s, T, a) ==
    \/ /\ Accessible
       /\ rows' = [rows EXCEPT ![s] = T]
       /\ Answer(call, s, a)
       /\ UNCHANGED <<local, status>>
    \/ Reads(call, s, Error)

DeleteWhere(s, k) == Execute("delete", s, {r \in rows[s] : r.key # k}, "ok")

DeleteAll(s) == Execute("clear", s, {}, "ok")

CountRows(s) == Reads("count", s, Cardinality(rows[s])) \/ Reads("count", s, 0)

MaxKey(s) == Reads("max", s, Largest({r.key : r \in rows[s]})) \/ Reads("max", s, None)

SelectOlder(s, t) ==
    \/ Reads("older", s, {r.key : r \in {q \in rows[s] : q.created < Secs(t)}})
    \/ Reads("older", s, Error)

-----------------------------------------------------------------------------
(* SqliteSessionStore.                                                     *)

LoadSession(a) == QueryRow("get", "session", a)

StoreSession(a, r) ==
    Execute("put", "session", Replaced(rows["session"], Row(a, r, 0)), "ok")

SessionCount == CountRows("session")

ClearAllSessions == DeleteAll("session")

DeleteSession(a) == DeleteWhere("session", a)

-----------------------------------------------------------------------------
(* SqliteIdentityStore.                                                    *)

GetIdentity(a) == QueryRow("get", "identity", a)

GetPeerIdentity(a) == QueryRow("get", "identity", a)

\* One statement looks for the key there is, the next replaces it.
SaveIdentity(a, r) ==
    \E change \in {"NewOrUnchanged", "ReplacedExisting"} :
        /\ change = "ReplacedExisting" <=> \E q \in rows["identity"] : q.key = a /\ q.data # r
        /\ Execute("save", "identity", Replaced(rows["identity"], Row(a, r, 0)), change)

IsTrustedIdentity(a, r) ==
    \/ Reads("trusted", "identity", Found(rows["identity"], a) \in {None, r})
    \/ Reads("trusted", "identity", Error)

IdentityCount == CountRows("identity")

DeleteIdentity(a) == DeleteWhere("identity", a)

ClearAllIdentities == DeleteAll("identity")

\* An empty key column does not deserialise.
GetIdentityKeyPair ==
    \/ \E q \in local : q.pair # Blank /\ Reads("get", "local", q.pair)
    \/ (\A q \in local : q.pair = Blank) /\ Reads("get", "local", None)
    \/ Reads("get", "local", Error)

GetLocalRegistrationId ==
    \/ \E q \in local : Reads("registration", "local", q.registration)
    \/ Reads("registration", "local", Error)

\* INSERT OR REPLACE INTO local_identity, the id of the row being 1.
ExecuteLocal(call, T) ==
    \/ /\ Accessible
       /\ local' = T
       /\ Answer(call, "local", "ok")
       /\ UNCHANGED <<rows, status>>
    \/ Reads(call, "local", Error)

\* COALESCE((SELECT registration_id ...), 0)
SetLocalIdentityKeyPair(p) ==
    \E n \in IF local = {} THEN {0} ELSE {q.registration : q \in local} :
        ExecuteLocal("put", {[pair |-> p, registration |-> n]})

\* COALESCE((SELECT private_key ...), X'')
SetLocalRegistrationId(n) ==
    \E p \in IF local = {} THEN {Blank} ELSE {q.pair : q \in local} :
        ExecuteLocal("register", {[pair |-> p, registration |-> n]})

ClearLocalIdentity == ExecuteLocal("clear", {})

-----------------------------------------------------------------------------
(* SqlitePreKeyStore.                                                      *)

GetPreKey(i) == QueryRow("get", "pre", i)

SavePreKey(i, r) == Execute("put", "pre", Replaced(rows["pre"], Row(i, r, 0)), "ok")

RemovePreKey(i) == DeleteWhere("pre", i)

PreKeyCount == CountRows("pre")

ClearAllPreKeys == DeleteAll("pre")

GetMaxPreKeyId == MaxKey("pre")

DeletePreKey(i) == DeleteWhere("pre", i)

-----------------------------------------------------------------------------
(* SqliteSignedPreKeyStore and SqliteKyberPreKeyStore: created_at holds    *)
(* the record's time stamp in seconds.                                     *)

GetSignedPreKey(i) == QueryRow("get", "signed", i)

SaveSignedPreKey(i, r) ==
    Execute("put", "signed", Replaced(rows["signed"], Row(i, r, Secs(CreatedAt[r]))), "ok")

SignedPreKeyCount == CountRows("signed")

ClearAllSignedPreKeys == DeleteAll("signed")

GetMaxSignedPreKeyId == MaxKey("signed")

DeleteSignedPreKey(i) == DeleteWhere("signed", i)

GetSignedPreKeysOlderThan(t) == SelectOlder("signed", t)

GetKyberPreKey(i) == QueryRow("get", "kyber", i)

SaveKyberPreKey(i, r) ==
    Execute("put", "kyber", Replaced(rows["kyber"], Row(i, r, Secs(CreatedAt[r]))), "ok")

\* UPDATE kyber_pre_keys SET is_current = FALSE, a column nothing reads.
MarkKyberPreKeyUsed(i) == Reads("mark", "kyber", "ok") \/ Reads("mark", "kyber", Error)

KyberPreKeyCount == CountRows("kyber")

ClearAllKyberPreKeys == DeleteAll("kyber")

GetMaxKyberPreKeyId == MaxKey("kyber")

DeleteKyberPreKey(i) == DeleteWhere("kyber", i)

GetKyberPreKeysOlderThan(t) == SelectOlder("kyber", t)

-----------------------------------------------------------------------------
(* The container.                                                          *)

\* initialize: the tables are created unless they exist.
Initialize ==
    /\ status = "new"
    /\ status' = "open"
    /\ Answer("open", "storage", "ok")
    /\ UNCHANGED <<rows, local>>

\* PRAGMA optimize may fail, which leaves the storage open; closing again
\* changes nothing.
Close ==
    /\ status # "new"
    /\ \/ status' = "closed" /\ Answer("close", "storage", "ok")
       \/ status = "open" /\ status' = status /\ Answer("close", "storage", Error)
    /\ UNCHANGED <<rows, local>>

\* The process ends, by itself or in the middle of anything, and
\* SqliteStorage::new opens the file again.
New ==
    /\ status' = "new"
    /\ Answer("open", "storage", "ok")
    /\ UNCHANGED <<rows, local>>

AddressCalls(a) ==
    \/ LoadSession(a) \/ DeleteSession(a)
    \/ GetIdentity(a) \/ GetPeerIdentity(a) \/ DeleteIdentity(a)
    \/ \E r \in Records : StoreSession(a, r) \/ SaveIdentity(a, r) \/ IsTrustedIdentity(a, r)

IdCalls(i) ==
    \/ GetPreKey(i) \/ RemovePreKey(i) \/ DeletePreKey(i)
    \/ GetSignedPreKey(i) \/ DeleteSignedPreKey(i)
    \/ GetKyberPreKey(i) \/ DeleteKyberPreKey(i) \/ MarkKyberPreKeyUsed(i)
    \/ \E r \in Records : SavePreKey(i, r) \/ SaveSignedPreKey(i, r) \/ SaveKyberPreKey(i, r)

StoreCalls ==
    \/ SessionCount \/ ClearAllSessions \/ IdentityCount \/ ClearAllIdentities
    \/ PreKeyCount \/ ClearAllPreKeys \/ GetMaxPreKeyId
    \/ SignedPreKeyCount \/ ClearAllSignedPreKeys \/ GetMaxSignedPreKeyId
    \/ KyberPreKeyCount \/ ClearAllKyberPreKeys \/ GetMaxKyberPreKeyId
    \/ \E t \in Times : GetSignedPreKeysOlderThan(t) \/ GetKyberPreKeysOlderThan(t)

LocalCalls ==
    \/ GetIdentityKeyPair \/ GetLocalRegistrationId \/ ClearLocalIdentity
    \/ \E p \in Pairs : SetLocalIdentityKeyPair(p)
    \/ \E n \in Registrations : SetLocalRegistrationId(n)

Next ==
    \/ \E a \in Addresses : AddressCalls(a)
    \/ \E i \in Ids : IdCalls(i)
    \/ StoreCalls
    \/ LocalCalls
    \/ Initialize \/ Close \/ New

Spec == Init /\ [][Next]_vars

-----------------------------------------------------------------------------
(* The promise of storage_trait.rs.                                        *)

KeyPairs == {q.pair : q \in local} \ {Blank}

Promise == INSTANCE Storage WITH
    content <- [s \in Stores |-> [k \in Keys |-> Found(rows[s], k)]],
    pair <- IF KeyPairs = {} THEN None ELSE CHOOSE p \in KeyPairs : TRUE,
    registration <- IF local = {} THEN 0 ELSE CHOOSE n \in {q.registration : q \in local} : TRUE,
    Durable <- TRUE,
    Fallible <- TRUE

\* The tables keep the promise of the traits: one record per key, the answers
\* the bridge relies on, and everything there again when the process comes
\* back, however it ended.
SqliteKeepsPromise == Promise!Spec
=============================================================================
