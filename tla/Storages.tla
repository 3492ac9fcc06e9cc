------------------------------ MODULE Storages ------------------------------
(***************************************************************************)
(* The two storages side by side: the one chosen when the storage is made  *)
(* takes the calls, of which MaxWrites at most change what is stored.      *)
(***************************************************************************)
EXTENDS StorageTypes

CONSTANT
    MaxWrites   \* bound on the calls that change what is stored

ASSUME WritesAssumption == MaxWrites \in Nat

VARIABLES
    kind, writes,                                       \* the choice; the calls counted
    rows, local, status, asked, told,                   \* SqliteStorage
    maps, identityPair, registrationId, called, answer  \* MemoryStorage

sqliteVars == <<rows, local, status, asked, told>>

memoryVars == <<maps, identityPair, registrationId, called, answer>>

vars == <<kind, writes, sqliteVars, memoryVars>>

Sqlite == INSTANCE SqliteStorage WITH called <- asked, answer <- told

Memory == INSTANCE MemoryStorage

Init ==
    /\ kind \in {"sqlite", "memory"}
    /\ writes = 0
    /\ Sqlite!Init
    /\ Memory!Init

SqliteCall ==
    /\ kind = "sqlite"
    /\ Sqlite!Next
    /\ UNCHANGED memoryVars

MemoryCall ==
    /\ kind = "memory"
    /\ Memory!Next
    /\ UNCHANGED sqliteVars

data == <<rows, local, maps, identityPair, registrationId>>

Next ==
    /\ SqliteCall \/ MemoryCall
    /\ writes' = IF UNCHANGED data THEN writes ELSE writes + 1
    /\ writes' <= MaxWrites
    /\ UNCHANGED kind

Spec == Init /\ [][Next]_vars

\* The tables of sqlite_storage.rs keep the promise of storage_trait.rs: one
\* record per key, the answers the bridge relies on, a call that fails
\* changes nothing, and everything is there again when the process comes
\* back, however it ended.
SqliteKeepsPromise == Sqlite!SqliteKeepsPromise

\* The maps of memory_storage.rs keep the same promise, so that a test against
\* them tells what the database does, failures and restarts aside.
MemoryKeepsPromise == Memory!MemoryKeepsPromise
=============================================================================
