---------------------------- MODULE SignalBridge ----------------------------
(***************************************************************************)
(* The life of the bridge (lib.rs) over its two files: the key file of     *)
(* db_encryption.rs and the encrypted database of sqlite_storage.rs.       *)
(*                                                                         *)
(* A call of the bridge is a sequence of file operations and SQL           *)
(* statements, each durable on its own; "todo" is what the call under way  *)
(* has yet to run.  The process may end between any two of them, and any   *)
(* of them may fail, which ends the call with an error: during a start     *)
(* there is then no bridge and the program exits, later the program goes   *)
(* on with whatever the statements before have done.                       *)
(*                                                                         *)
(* Identities, registration ids and database keys are drawn at random, so  *)
(* they are numbered in the order they are drawn.  A pre-key or a session  *)
(* is known by the identity that signed or made it.  Ages and ids of keys  *)
(* are in KeyMaintenance, contacts in ContactBook.                         *)
(***************************************************************************)
EXTENDS Integers, Sequences

CONSTANTS
    Peers,          \* the other nodes
    MaxStarts,      \* bound on the starts of the program
    MaxDrawn,       \* bound on the identities and registration ids ever drawn
    Misreads        \* may reading the key file, the identity or a count fail?

ASSUME BridgeAssumption ==
    /\ MaxStarts \in Nat
    /\ MaxDrawn \in Nat
    /\ Misreads \in BOOLEAN

VARIABLES
    keyFile,    \* db_path.key: absent, short, or the key in it
    dbKey,      \* the key the database is encrypted with, 0 while it is empty
    versions,   \* the rows of schema_info
    tables,     \* the tables that exist
    local,      \* local_identity: the identity and the registration id
    preKeys,    \* are there one-time pre-keys?
    signed,     \* the identities that signed the stored signed pre-keys
    kyber,      \* the identities that signed the stored Kyber pre-keys
    sessions,   \* sessions[p]: the identity of ours the session is made with
    peerKeys,   \* the peers whose identity key is stored
    process,    \* down, starting or running
    key,        \* PRAGMA key of the connection
    todo,       \* what the call under way has yet to run
    starts,     \* starts of the program
    drawn,      \* identities and registration ids drawn
    misread,    \* history: something that is there was not read
    published,  \* history: the bundles announced
    retired     \* history: the identities a reset has replaced

files == <<keyFile, dbKey>>
schema == <<versions, tables>>
ownKeys == <<preKeys, signed, kyber>>
peers == <<sessions, peerKeys>>
history == <<misread, published, retired>>
vars == <<files, schema, local, ownKeys, peers, process, key, todo, starts, drawn, history>>

\* What the key file may be instead of a key.
Absent == 0

Short == -1

\* initialize_schema: the tables in the order they are created, and those of
\* migrate_to_v2.
BaseTables == <<"identity", "session", "pre", "signed", "kyber", "contacts", "settings", "bundle">>

HistoryTables == <<"conversations", "messages">>

Create(names) == [i \in DOMAIN names |-> <<"create", names[i]>>]

\* Mutant: the version is set before the tables are there.
MigrationVersionFirst == <<<<"update_version">>>> \o Create(HistoryTables)

Migration == Create(HistoryTables) \o <<<<"update_version">>>>

\* ensure_keys_exist
EnsureKeys == <<<<"identity">>, <<"pre_keys">>, <<"signed_pre_key">>, <<"kyber_pre_key">>>>

Opening == <<<<"retrieve_key">>, <<"schema_info">>, <<"insert_version">>, <<"select_version">>>>

NoIdentity == [identity |-> 0, registration |-> 0]

Init ==
    /\ keyFile = Absent
    /\ dbKey = 0
    /\ versions = <<>>
    /\ tables = {}
    /\ local = NoIdentity
    /\ preKeys = FALSE
    /\ signed = {}
    /\ kyber = {}
    /\ sessions = [p \in Peers |-> 0]
    /\ peerKeys = {}
    /\ process = "down"
    /\ key = 0
    /\ todo = <<>>
    /\ starts = 0
    /\ drawn = 0
    /\ misread = FALSE
    /\ published = {}
    /\ retired = {}

Doing(op) == todo # <<>> /\ todo[1][1] = op

\* The call goes on with the statements of rest; a start that has run its last
\* statement leaves a running bridge.
GoOn(rest) ==
    /\ todo' = rest
    /\ process' = IF rest = <<>> THEN "running" ELSE process

Done == GoOn(Tail(todo))

Ready == process = "running" /\ todo = <<>>

-----------------------------------------------------------------------------
(* SignalBridge::new.                                                      *)

Start ==
    /\ process = "down"
    /\ starts < MaxStarts
    /\ starts' = starts + 1
    /\ process' = "starting"
    /\ todo' = Opening
    /\ UNCHANGED <<files, schema, local, ownKeys, peers, key, drawn, history>>

\* retrieve_db_key
RetrieveKey ==
    /\ Doing("retrieve_key")
    /\ keyFile \notin {Absent, Short}
    /\ key' = keyFile
    /\ Done
    /\ UNCHANGED <<files, schema, local, ownKeys, peers, starts, drawn, history>>

\* Mutant: a new key is stored once the database has been opened with it.
KeyNotReadStoredLast ==
    /\ Doing("retrieve_key")
    /\ keyFile \in {Absent, Short} \/ Misreads
    /\ misread' = (misread \/ keyFile \notin {Absent, Short})
    /\ key' = starts
    /\ GoOn(<<<<"schema_info">>, <<"create_key_file">>, <<"write_key_file">>>> \o Tail(Tail(todo)))
    /\ UNCHANGED <<files, schema, local, ownKeys, peers, starts, drawn,
                   published, retired>>

\* get_or_create_db_key takes every error of retrieve_db_key for a missing
\* file, one of a file that is there included.
KeyNotRead ==
    /\ Doing("retrieve_key")
    /\ keyFile \in {Absent, Short} \/ Misreads
    /\ misread' = (misread \/ keyFile \notin {Absent, Short})
    /\ GoOn(<<<<"create_key_file">>, <<"write_key_file">>>> \o Tail(todo))
    /\ UNCHANGED <<files, schema, local, ownKeys, peers, key, starts, drawn,
                   published, retired>>

\* store_db_key: File::create truncates the file, write_all fills it.
CreateKeyFile ==
    /\ Doing("create_key_file")
    /\ keyFile' = Short
    /\ Done
    /\ UNCHANGED <<dbKey, schema, local, ownKeys, peers, key, starts, drawn, history>>

WriteKeyFile ==
    /\ Doing("write_key_file")
    /\ keyFile' = starts
    /\ key' = starts
    /\ Done
    /\ UNCHANGED <<dbKey, schema, local, ownKeys, peers, starts, drawn, history>>

\* The first statement on the database: an empty one takes the key, one with
\* another key is not a database.
SchemaInfo ==
    /\ Doing("schema_info")
    /\ dbKey \in {0, key}
    /\ dbKey' = key
    /\ tables' = tables \cup {"schema_info"}
    /\ Done
    /\ UNCHANGED <<keyFile, versions, local, ownKeys, peers, key, starts, drawn, history>>

NotADatabase ==
    /\ Doing("schema_info")
    /\ dbKey \notin {0, key}
    /\ process' = "down"
    /\ todo' = <<>>
    /\ key' = 0
    /\ UNCHANGED <<files, schema, local, ownKeys, peers, starts, drawn, history>>

\* INSERT OR IGNORE ignores nothing, the table having no key: every start adds
\* a row.
InsertVersion ==
    /\ Doing("insert_version")
    /\ versions' = Append(versions, 1)
    /\ Done
    /\ UNCHANGED <<files, tables, local, ownKeys, peers, key, starts, drawn, history>>

\* query_row takes the first row.
SelectVersion ==
    /\ Doing("select_version")
    /\ GoOn(Create(BaseTables) \o (IF versions[1] < 2 THEN Migration ELSE <<>>) \o EnsureKeys)
    /\ UNCHANGED <<files, schema, local, ownKeys, peers, key, starts, drawn, history>>

\* Mutant: CREATE TABLE, which fails when the table exists.
CreateTableOnce ==
    /\ Doing("create")
    /\ todo[1][2] \notin tables
    /\ tables' = tables \cup {todo[1][2]}
    /\ Done
    /\ UNCHANGED <<files, versions, local, ownKeys, peers, key, starts, drawn, history>>

\* CREATE TABLE IF NOT EXISTS
CreateTable ==
    /\ Doing("create")
    /\ tables' = tables \cup {todo[1][2]}
    /\ Done
    /\ UNCHANGED <<files, versions, local, ownKeys, peers, key, starts, drawn, history>>

\* UPDATE schema_info SET version = 2, every row.
UpdateVersion ==
    /\ Doing("update_version")
    /\ versions' = [i \in DOMAIN versions |-> 2]
    /\ Done
    /\ UNCHANGED <<files, tables, local, ownKeys, peers, key, starts, drawn, history>>

-----------------------------------------------------------------------------
(* ensure_keys_exist, the tail of a start and of a reset.                  *)

\* Mutant: every start draws a registration id.
IdentityThereRegisters ==
    /\ Doing("identity")
    /\ local.identity # 0
    /\ drawn < MaxDrawn
    /\ GoOn(<<<<"registration">>>> \o Tail(todo))
    /\ UNCHANGED <<files, schema, local, ownKeys, peers, key, starts, drawn, history>>

IdentityThere ==
    /\ Doing("identity")
    /\ local.identity # 0
    /\ Done
    /\ UNCHANGED <<files, schema, local, ownKeys, peers, key, starts, drawn, history>>

\* Every error of get_identity_key_pair makes a new identity;
\* set_local_identity_key_pair keeps the registration id of the row.
NewIdentity ==
    /\ Doing("identity")
    /\ local.identity = 0 \/ Misreads
    /\ drawn + 1 < MaxDrawn
    /\ drawn' = drawn + 1
    /\ misread' = (misread \/ local.identity # 0)
    /\ local' = [local EXCEPT !.identity = drawn + 1]
    /\ GoOn(<<<<"registration">>>> \o Tail(todo))
    /\ UNCHANGED <<files, schema, ownKeys, peers, key, starts, published, retired>>

SetRegistrationId ==
    /\ Doing("registration")
    /\ drawn' = drawn + 1
    /\ local' = [local EXCEPT !.registration = drawn + 1]
    /\ Done
    /\ UNCHANGED <<files, schema, ownKeys, peers, key, starts, history>>

EnsurePreKeys ==
    /\ Doing("pre_keys")
    /\ preKeys' = TRUE
    /\ Done
    /\ UNCHANGED <<files, schema, local, signed, kyber, peers, key, starts, drawn, history>>

\* A new key, known by the identity that signs it.
Generated == {local.identity}

\* A key is made only when there is none.
EnsureSigned ==
    /\ Doing("signed_pre_key")
    /\ signed' = IF signed = {} THEN Generated ELSE signed
    /\ Done
    /\ UNCHANGED <<files, schema, local, preKeys, kyber, peers, key, starts, drawn, history>>

EnsureKyber ==
    /\ Doing("kyber_pre_key")
    /\ kyber' = IF kyber = {} THEN Generated ELSE kyber
    /\ Done
    /\ UNCHANGED <<files, schema, local, preKeys, signed, peers, key, starts, drawn, history>>

-----------------------------------------------------------------------------
(* The calls of a running bridge.                                          *)

\* A function of the interface runs one call to its end (block_on).
Call(statements) ==
    /\ Ready
    /\ todo' = statements
    /\ UNCHANGED <<files, schema, local, ownKeys, peers, process, key, starts, drawn, history>>

\* establish_session: process_prekey_bundle stores the peer's identity key,
\* then the session, made with ours.
EstablishSession(p) ==
    /\ local.identity # 0
    /\ Call(<<<<"save_identity", p>>, <<"store_session", p>>>>)

\* decrypt_message of a pre-key message: message_decrypt stores the peer's
\* identity key, removes the one-time pre-key and stores the session, the last
\* two in an order of its own.
Decrypt(p) ==
    /\ local.identity # 0
    /\ preKeys
    /\ \E i \in {2, 3} :
          Call([j \in 1 .. 3 |-> IF j = 1 THEN <<"save_identity", p>>
                                ELSE IF j = i THEN <<"store_session", p>> ELSE <<"remove_pre_key">>])

SaveIdentity ==
    /\ Doing("save_identity")
    /\ peerKeys' = peerKeys \cup {todo[1][2]}
    /\ Done
    /\ UNCHANGED <<files, schema, local, ownKeys, sessions, key, starts, drawn, history>>

StoreSession ==
    /\ Doing("store_session")
    /\ sessions' = [sessions EXCEPT ![todo[1][2]] = local.identity]
    /\ Done
    /\ UNCHANGED <<files, schema, local, ownKeys, peerKeys, key, starts, drawn, history>>

\* It may have been the last one.
RemovePreKey ==
    /\ Doing("remove_pre_key")
    /\ preKeys' \in {TRUE, FALSE}
    /\ Done
    /\ UNCHANGED <<files, schema, local, signed, kyber, peers, key, starts, drawn, history>>

\* encrypt_message needs a session, and message_encrypt stores the identity key
\* of its peer again; then create_and_sign_encrypted_message makes the event.
Send(p) ==
    /\ local.identity # 0
    /\ sessions[p] # 0
    /\ Call(<<<<"save_identity", p>>, <<"event", p>>>>)

\* derive_peer_nostr_key: the address is derived from the peer's identity key.
Addressed(p) == p \in peerKeys

\* sign_nostr_event: the signature is by a key derived from our identity.
Signing == local.identity # 0

CreateAndSign ==
    /\ Doing("event")
    /\ Addressed(todo[1][2])
    /\ Signing
    /\ Done
    /\ UNCHANGED <<files, schema, local, ownKeys, peers, key, starts, drawn, history>>

\* perform_key_maintenance: the keys that are due are made and signed with the
\* identity read first.  It makes a key where there is none.
Maintenance ==
    /\ local.identity # 0
    /\ Call(<<<<"rotate_signed">>, <<"rotate_kyber">>, <<"pre_keys">>>>)

RotateSigned ==
    /\ Doing("rotate_signed")
    /\ signed' = signed \cup Generated
    /\ Done
    /\ UNCHANGED <<files, schema, local, preKeys, kyber, peers, key, starts, drawn, history>>

RotateKyber ==
    /\ Doing("rotate_kyber")
    /\ kyber' = kyber \cup Generated
    /\ Done
    /\ UNCHANGED <<files, schema, local, preKeys, signed, peers, key, starts, drawn, history>>

\* generate_prekey_bundle_announcement: fails unless every kind of key is
\* there.
Publish ==
    /\ Ready
    /\ local.identity # 0
    /\ preKeys
    /\ \E s \in signed, k \in kyber :
          published' = published \cup {[identity |-> local.identity, signed |-> s, kyber |-> k,
                                        registration |-> local.registration]}
    /\ UNCHANGED <<files, schema, local, ownKeys, peers, process, key, todo, starts, drawn,
                   misread, retired>>

-----------------------------------------------------------------------------
(* clear_peer_session, clear_all_sessions, reset_identity.                 *)

\* Mutant: the identity key goes first.
ClearPeerIdentityFirst(p) ==
    Call(<<<<"delete_identity", p>>, <<"delete_session", p>>>>)

ClearPeerSession(p) ==
    Call(<<<<"delete_session", p>>, <<"delete_identity", p>>>>)

\* Nothing is cleared when there is nothing.
ClearAll ==
    IF peerKeys = {} /\ \A p \in Peers : sessions[p] = 0
    THEN <<>>
    ELSE <<<<"clear_sessions">>, <<"clear_identities">>>>

ClearAllSessions == ClearAll # <<>> /\ Call(ClearAll)

CleanupAllSessions ==
    /\ \E p \in Peers : sessions[p] # 0
    /\ Call(<<<<"clear_sessions">>>>)

\* Mutant: the identity goes before the keys it signed.
ResettingIdentityFirst ==
    <<<<"clear_local">>, <<"clear_pre_keys">>, <<"clear_signed">>, <<"clear_kyber">>>>

\* Mutant: the Kyber pre-keys are left.
ResettingKeepsKyber == <<<<"clear_pre_keys">>, <<"clear_signed">>, <<"clear_local">>>>

Resetting ==
    <<<<"clear_pre_keys">>, <<"clear_signed">>, <<"clear_kyber">>, <<"clear_local">>>>

ResetIdentity ==
    /\ drawn + 1 < MaxDrawn
    /\ Call(ClearAll \o Resetting \o EnsureKeys \o <<<<"returned", local.identity>>>>)

\* The two counts fail, which says that there is nothing to clear.
ResetUncounted ==
    /\ Misreads
    /\ ClearAll # <<>>
    /\ drawn + 1 < MaxDrawn
    /\ Ready
    /\ todo' = Resetting \o EnsureKeys \o <<<<"returned", local.identity>>>>
    /\ misread' = TRUE
    /\ UNCHANGED <<files, schema, local, ownKeys, peers, process, key, starts, drawn,
                   published, retired>>

DeleteSession ==
    /\ Doing("delete_session")
    /\ sessions' = [sessions EXCEPT ![todo[1][2]] = 0]
    /\ Done
    /\ UNCHANGED <<files, schema, local, ownKeys, peerKeys, key, starts, drawn, history>>

DeleteIdentity ==
    /\ Doing("delete_identity")
    /\ peerKeys' = peerKeys \ {todo[1][2]}
    /\ Done
    /\ UNCHANGED <<files, schema, local, ownKeys, sessions, key, starts, drawn, history>>

ClearSessions ==
    /\ Doing("clear_sessions")
    /\ sessions' = [p \in Peers |-> 0]
    /\ Done
    /\ UNCHANGED <<files, schema, local, ownKeys, peerKeys, key, starts, drawn, history>>

ClearIdentities ==
    /\ Doing("clear_identities")
    /\ peerKeys' = {}
    /\ Done
    /\ UNCHANGED <<files, schema, local, ownKeys, sessions, key, starts, drawn, history>>

ClearPreKeys ==
    /\ Doing("clear_pre_keys")
    /\ preKeys' = FALSE
    /\ Done
    /\ UNCHANGED <<files, schema, local, signed, kyber, peers, key, starts, drawn, history>>

ClearSigned ==
    /\ Doing("clear_signed")
    /\ signed' = {}
    /\ Done
    /\ UNCHANGED <<files, schema, local, preKeys, kyber, peers, key, starts, drawn, history>>

ClearKyber ==
    /\ Doing("clear_kyber")
    /\ kyber' = {}
    /\ Done
    /\ UNCHANGED <<files, schema, local, preKeys, signed, peers, key, starts, drawn, history>>

ClearLocal ==
    /\ Doing("clear_local")
    /\ local' = NoIdentity
    /\ Done
    /\ UNCHANGED <<files, schema, ownKeys, peers, key, starts, drawn, history>>

\* The reset of the identity todo[1][2] returns.
ResetReturns ==
    /\ Doing("returned")
    /\ retired' = retired \cup ({todo[1][2]} \ {0})
    /\ Done
    /\ UNCHANGED <<files, schema, local, ownKeys, peers, key, starts, drawn,
                   misread, published>>

-----------------------------------------------------------------------------
(* Faults.                                                                 *)

\* A file operation or a statement fails and the call returns the error.
Fail ==
    /\ todo # <<>>
    /\ ~Doing("returned")
    /\ process = "starting" => starts < MaxStarts
    /\ todo' = <<>>
    /\ process' = IF process = "starting" THEN "down" ELSE process
    /\ key' = IF process = "starting" THEN 0 ELSE key
    /\ UNCHANGED <<files, schema, local, ownKeys, peers, starts, drawn, history>>

\* The process ends.
End ==
    /\ process # "down"
    /\ starts < MaxStarts
    /\ process' = "down"
    /\ todo' = <<>>
    /\ key' = 0
    /\ UNCHANGED <<files, schema, local, ownKeys, peers, starts, drawn, history>>

-----------------------------------------------------------------------------
Opens ==
    \/ RetrieveKey \/ KeyNotRead \/ CreateKeyFile \/ WriteKeyFile
    \/ SchemaInfo \/ NotADatabase \/ InsertVersion \/ SelectVersion
    \/ CreateTable \/ UpdateVersion

Ensures ==
    \/ IdentityThere \/ NewIdentity \/ SetRegistrationId
    \/ EnsurePreKeys \/ EnsureSigned \/ EnsureKyber

Stores ==
    \/ SaveIdentity \/ StoreSession \/ RemovePreKey \/ CreateAndSign
    \/ RotateSigned \/ RotateKyber

Clears ==
    \/ DeleteSession \/ DeleteIdentity \/ ClearSessions \/ ClearIdentities
    \/ ClearPreKeys \/ ClearSigned \/ ClearKyber \/ ClearLocal \/ ResetReturns

\* The thread of the call under way runs its next statement.
Statement == Opens \/ Ensures \/ Stores \/ Clears

Calls ==
    \/ \E p \in Peers : EstablishSession(p) \/ Decrypt(p) \/ Send(p) \/ ClearPeerSession(p)
    \/ Maintenance \/ Publish
    \/ ClearAllSessions \/ CleanupAllSessions \/ ResetIdentity \/ ResetUncounted

Next == Start \/ Statement \/ Calls \/ Fail \/ End

Spec == Init /\ [][Next]_vars

\* The program is started again when it is down, and a call under way goes on.
FairSpec == Spec /\ WF_vars(Start) /\ WF_vars(Statement)

-----------------------------------------------------------------------------
(* Properties.                                                             *)

\* Every bundle announced verifies: its signed and its Kyber pre-key are signed
\* by the identity key the bundle carries, whatever point a start or a reset
\* was interrupted at (unless an identity that was there was not read).
BundlesVerify ==
    ~misread => \A b \in published : b.signed = b.identity /\ b.kyber = b.identity

\* Once reset_identity has returned, nothing of the identity it replaced is
\* left: not the identity, no key it signed, no session made with it.
ResetIsFinal ==
    ~misread =>
        retired \cap ({local.identity} \cup signed \cup kyber \cup {sessions[p] : p \in Peers}) = {}

\* Every session can be used, wherever a clear, a reset or a start was cut short:
\* the identity key of its peer is stored, which derive_peer_nostr_key addresses
\* events with and is_trusted_identity compares with, and it was made with the
\* identity that signs our events (unless that one was not read, and replaced).
SessionsUsable ==
    \A p \in Peers : sessions[p] # 0 =>
        p \in peerKeys /\ (misread \/ sessions[p] = local.identity)

\* The registration id announced with an identity never changes, though it is
\* set by a statement of its own that a start may not reach.
RegistrationStable ==
    \A b, c \in published : b.identity = c.identity => b.registration = c.registration

\* The key file opens the database (unless a key file that was there was not
\* read, and replaced).
KeyFileOpensDatabase == ~misread /\ dbKey # 0 => keyFile = dbKey

\* The bridge hands out its stores only when every table exists, though a
\* migration may have been cut short by an earlier start and the version that
\* decides is the one of the oldest row.
SchemaComplete ==
    process = "running" =>
        {BaseTables[i] : i \in DOMAIN BaseTables} \cup {HistoryTables[i] : i \in DOMAIN HistoryTables}
            \subseteq tables

\* However often it is interrupted, the bridge comes up again and again.
ComesUp == []~misread => []<>(process = "running")
=============================================================================
