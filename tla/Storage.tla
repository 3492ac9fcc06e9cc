------------------------------- MODULE Storage -------------------------------
(***************************************************************************)
(* What storage_trait.rs (with libsignal's own store traits) promises the  *)
(* bridge: five maps, a local identity and the answer to every call.  The  *)
(* trait is there for "dependency injection of different storage           *)
(* implementations"; this is what the bridge may rely on whichever one it  *)
(* is given.                                                               *)
(*                                                                         *)
(* The two implementations differ in two places, and the promise is wide   *)
(* enough for both: a key of the very second asked for may or may not      *)
(* count as older, and an identity without a registration id may answer 0  *)
(* or an error.  A Fallible storage may fail a call, which then changes    *)
(* nothing; a count that fails answers 0 and a maximum that fails answers  *)
(* None, which the caller cannot tell from an empty store.                 *)
(***************************************************************************)
EXTENDS StorageTypes

CONSTANTS
    Durable,    \* the data outlives the process
    Fallible    \* a call may fail

VARIABLES
    content,        \* content[s][k]: what store s holds under k, or None
    pair,           \* the local identity key pair, or None
    registration,   \* the local registration id, 0 when there is none
    called,         \* the last call: the method and the store
    answer          \* what it answered

vars == <<content, pair, registration, called, answer>>

Empty == [s \in Stores |-> [k \in Keys |-> None]]

Init ==
    /\ content = Empty
    /\ pair = None
    /\ registration = 0
    /\ called = <<"open", "storage">>
    /\ answer = "ok"

Answer(call, s, a) ==
    /\ called' = <<call, s>>
    /\ answer' = a

Reads(call, s, a) ==
    /\ Answer(call, s, a)
    /\ UNCHANGED <<content, pair, registration>>

Get(s, k) == Reads("get", s, content[s][k])

Count(s) == Reads("count", s, Cardinality(Occupied(content[s])))

MaxId(s) == Reads("max", s, Largest(Occupied(content[s])))

\* Between the keys a whole second older and the keys a millisecond older.
OlderThan(s, t) ==
    \E old \in SUBSET {k \in Occupied(content[s]) : CreatedAt[content[s][k]] < t} :
        /\ \A k \in Occupied(content[s]) :
               Secs(CreatedAt[content[s][k]]) < Secs(t) => k \in old
        /\ Reads("older", s, old)

Put(s, k, r) ==
    /\ Answer("put", s, "ok")
    /\ content' = [content EXCEPT ![s][k] = r]
    /\ UNCHANGED <<pair, registration>>

Delete(s, k) ==
    /\ Answer("delete", s, "ok")
    /\ content' = [content EXCEPT ![s][k] = None]
    /\ UNCHANGED <<pair, registration>>

Clear(s) ==
    /\ Answer("clear", s, "ok")
    /\ content' = [content EXCEPT ![s] = [k \in Keys |-> None]]
    /\ UNCHANGED <<pair, registration>>

SaveIdentity(a, r) ==
    /\ Answer("save", "identity",
              IF content["identity"][a] \in {None, r} THEN "NewOrUnchanged"
                                                      ELSE "ReplacedExisting")
    /\ content' = [content EXCEPT !["identity"][a] = r]
    /\ UNCHANGED <<pair, registration>>

\* Trust on first use: the first key of an address, and after it no other.
IsTrusted(a, r) ==
    Reads("trusted", "identity", content["identity"][a] \in {None, r})

\* Kyber pre-keys are last-resort keys: using one leaves it in the store.
MarkUsed == Reads("mark", "kyber", "ok")

GetPair == Reads("get", "local", pair)

GetRegistration ==
    \/ Reads("registration", "local", registration)
    \/ registration = 0 /\ Reads("registration", "local", Error)

SetPair(p) ==
    /\ Answer("put", "local", "ok")
    /\ pair' = p
    /\ UNCHANGED <<content, registration>>

SetRegistration(n) ==
    /\ Answer("register", "local", "ok")
    /\ registration' = n
    /\ UNCHANGED <<content, pair>>

ClearLocal ==
    /\ Answer("clear", "local", "ok")
    /\ pair' = None
    /\ registration' = 0
    /\ UNCHANGED content

\* A statement of the database fails: the call returns an error, or, for a
\* count and a maximum, the answer of an empty store.
Fails ==
    /\ Fallible
    /\ \/ \E call \in {"get", "older", "put", "delete", "clear", "save", "trusted",
                       "registration", "register", "mark", "close"},
                 s \in Stores \cup {"local", "storage"} :
              Reads(call, s, Error)
       \/ \E s \in Stores : Reads("count", s, 0) \/ Reads("max", s, None)

Close == Reads("close", "storage", "ok")

\* The process ends and the storage is opened again.
Reopen ==
    /\ Answer("open", "storage", "ok")
    /\ IF Durable
       THEN UNCHANGED <<content, pair, registration>>
       ELSE content' = Empty /\ pair' = None /\ registration' = 0

Next ==
    \/ \E s \in Stores :
          \/ Count(s) \/ Clear(s)
          \/ \E k \in KeysOf(s) : Get(s, k) \/ Delete(s, k)
          \/ \E k \in KeysOf(s), r \in Records : Put(s, k, r)
    \/ \E s \in {"pre", "signed", "kyber"} : MaxId(s)
    \/ \E s \in AgedStores, t \in Times : OlderThan(s, t)
    \/ \E a \in Addresses, r \in Records : SaveIdentity(a, r) \/ IsTrusted(a, r)
    \/ \E p \in Pairs : SetPair(p)
    \/ \E n \in Registrations : SetRegistration(n)
    \/ GetPair \/ GetRegistration \/ ClearLocal \/ MarkUsed
    \/ Fails
    \/ Close \/ Reopen

Spec == Init /\ [][Next]_vars
=============================================================================
