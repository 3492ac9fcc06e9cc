------------------------ MODULE SqliteStorageProofs ------------------------
(***************************************************************************)
(* The tables of sqlite_storage.rs keep the promise of storage_trait.rs,   *)
(* for any addresses, ids, records and times, with statements that fail    *)
(* and restarts at any point.                                              *)
(***************************************************************************)
EXTENDS SqliteStorage, FiniteSetTheorems, TLAPS

\* The primary key: no two rows of a table have the same key.
KeyedOnce(T) == \A r, q \in T : r.key = q.key => r = q

\* A table holds records, under keys of its store, with their age in seconds.
Holds(s, T) ==
    /\ KeyedOnce(T)
    /\ \A r \in T : r.key \in KeysOf(s) /\ r.data \in Records
    /\ s \in AgedStores => \A r \in T : r.created = Secs(CreatedAt[r.data])

\* local_identity has at most one row.
OneRow ==
    \/ local = {}
    \/ \E p \in Pairs \cup {Blank}, n \in Registrations :
          local = {[pair |-> p, registration |-> n]}

\* What every statement keeps, executed or failed.
TablesInv ==
    /\ DOMAIN rows = Stores
    /\ \A s \in Stores : Holds(s, rows[s])
    /\ OneRow

\* What the promise sees of the tables.
Content == [s \in Stores |-> [k \in Keys |-> Found(rows[s], k)]]

ThePair == IF KeyPairs = {} THEN None ELSE CHOOSE p \in KeyPairs : TRUE

TheRegistration ==
    IF local = {} THEN 0 ELSE CHOOSE n \in {q.registration : q \in local} : TRUE

-----------------------------------------------------------------------------
\* The keys of a store are keys.
LEMMA KeysOfKeys == \A s \in Stores : KeysOf(s) \subseteq Keys
BY DEF KeysOf, Keys

\* query_row finds the one row of a key.
LEMMA FoundRow ==
    ASSUME NEW T, KeyedOnce(T), NEW r \in T
    PROVE  Found(T, r.key) = r.data
<1>1. \A q \in T : q.key = r.key => q = r
  BY DEF KeyedOnce
<1>2. (CHOOSE q \in T : q.key = r.key) = r
  BY <1>1
<1> QED
  BY <1>2 DEF Found

\* It finds nothing under a key no row has.
LEMMA FoundNothing ==
    ASSUME NEW T, NEW k, \A r \in T : r.key # k
    PROVE  Found(T, k) = None
BY DEF Found

\* INSERT OR REPLACE keeps the table keyed and changes what is found under the
\* new row's key only.
LEMMA ReplacedFound ==
    ASSUME NEW T, KeyedOnce(T), NEW row
    PROVE  /\ KeyedOnce(Replaced(T, row))
           /\ Found(Replaced(T, row), row.key) = row.data
           /\ \A k : k # row.key => Found(Replaced(T, row), k) = Found(T, k)
<1>1. KeyedOnce(Replaced(T, row))
  BY DEF KeyedOnce, Replaced
<1>2. Found(Replaced(T, row), row.key) = row.data
  BY <1>1, FoundRow DEF Replaced
<1>3. ASSUME NEW k, k # row.key
      PROVE  Found(Replaced(T, row), k) = Found(T, k)
  <2>1. CASE \E r \in T : r.key = k
    <3>1. PICK r \in T : r.key = k
      BY <2>1
    <3>2. r \in Replaced(T, row)
      BY <1>3, <3>1 DEF Replaced
    <3> QED
      BY <1>1, <3>1, <3>2, FoundRow
  <2>2. CASE \A r \in T : r.key # k
    <3>1. \A r \in Replaced(T, row) : r.key # k
      BY <1>3, <2>2 DEF Replaced
    <3> QED
      BY <2>2, <3>1, FoundNothing
  <2> QED
    BY <2>1, <2>2
<1> QED
  BY <1>1, <1>2, <1>3

\* DELETE ... WHERE changes what is found under the key only.
LEMMA DeletedFound ==
    ASSUME NEW T, KeyedOnce(T), NEW k, NEW D, D = {r \in T : r.key # k}
    PROVE  /\ KeyedOnce(D)
           /\ Found(D, k) = None
           /\ \A j : j # k => Found(D, j) = Found(T, j)
<1>1. KeyedOnce(D)
  BY DEF KeyedOnce
<1>2. Found(D, k) = None
  BY FoundNothing
<1>3. ASSUME NEW j, j # k
      PROVE  Found(D, j) = Found(T, j)
  <2>1. CASE \E r \in T : r.key = j
    <3>1. PICK r \in T : r.key = j
      BY <2>1
    <3>2. r \in D
      BY <1>3, <3>1
    <3> QED
      BY <1>1, <3>1, <3>2, FoundRow
  <2>2. CASE \A r \in T : r.key # j
    BY <2>2, FoundNothing
  <2> QED
    BY <2>1, <2>2
<1> QED
  BY <1>1, <1>2, <1>3

\* The keys of a table are the keys its content has something under, and there
\* are as many of them as rows.
LEMMA RowsOccupied ==
    ASSUME TablesInv, NEW s \in Stores
    PROVE  /\ Occupied(Content[s]) = {r.key : r \in rows[s]}
           /\ Cardinality(Occupied(Content[s])) = Cardinality(rows[s])
<1>1. Holds(s, rows[s])
  BY DEF TablesInv
<1>2. \A r \in rows[s] : r.key \in Keys /\ Found(rows[s], r.key) = r.data /\ r.data # None
  BY <1>1, KeysOfKeys, FoundRow, StorageAssumption DEF Holds
<1>3. \A k \in Keys : (\A r \in rows[s] : r.key # k) => Found(rows[s], k) = None
  BY FoundNothing
<1>4. Content[s] = [k \in Keys |-> Found(rows[s], k)]
  BY DEF Content
<1>5. Occupied(Content[s]) = {r.key : r \in rows[s]}
  BY <1>2, <1>3, <1>4 DEF Occupied
<1> DEFINE K == {r.key : r \in rows[s]}
           f == [k \in K |-> CHOOSE r \in rows[s] : r.key = k]
<1>6. \A k \in K : f[k] \in rows[s] /\ f[k].key = k
  OBVIOUS
<1>7. \A r \in rows[s] : f[r.key] = r
  BY <1>1, <1>6 DEF Holds, KeyedOnce
<1>8. f \in Bijection(K, rows[s])
  <2>1. f \in [K -> rows[s]]
    BY <1>6
  <2>2. \A j, k \in K : f[j] = f[k] => j = k
    BY <1>6
  <2>3. \A r \in rows[s] : \E k \in K : f[k] = r
    BY <1>7
  <2> HIDE DEF f, K
  <2> QED
    BY <2>1, <2>2, <2>3 DEF Bijection, Injection, Surjection, IsInjective
<1>9. IsFiniteSet(K)
  <2>1. K \in SUBSET Keys
    BY <1>2
  <2> HIDE DEF K
  <2> QED
    BY <2>1, FS_Subset, StorageAssumption
<1>10. Cardinality(rows[s]) = Cardinality(K)
  <2> HIDE DEF K, f
  <2>1. ExistsBijection(K, rows[s])
    BY <1>8 DEF ExistsBijection
  <2> QED
    BY <1>9, <2>1, FS_Bijection
<1> QED
  BY <1>5, <1>10

-----------------------------------------------------------------------------
(* Every statement does to the content what the promise says, or fails.    *)

\* What leaves the tables alone leaves what the promise sees of them alone.
LEMMA SameTables ==
    ASSUME UNCHANGED <<rows, local>>
    PROVE  /\ UNCHANGED <<Content, ThePair, TheRegistration>>
           /\ TablesInv => TablesInv'
BY DEF Content, Found, ThePair, KeyPairs, TheRegistration, TablesInv, Holds, KeyedOnce, OneRow

\* A read answers and changes nothing.
LEMMA ReadsPromised ==
    ASSUME TablesInv, NEW call, NEW s, NEW a, Reads(call, s, a)
    PROVE  Promise!Reads(call, s, a) /\ TablesInv'
BY SameTables DEF Reads, Answer, Promise!Reads, Promise!Answer, Content, ThePair, TheRegistration

\* A statement that fails answers an error and changes nothing.
LEMMA ErrorPromised ==
    ASSUME TablesInv,
           NEW call \in {"get", "older", "put", "delete", "clear", "save", "trusted",
                         "registration", "register", "mark"},
           NEW s \in Stores \cup {"local"},
           Reads(call, s, Error)
    PROVE  Promise!Fails /\ TablesInv'
<1>1. Promise!Reads(call, s, Error) /\ TablesInv'
  BY ReadsPromised
<1> QED
  BY <1>1 DEF Promise!Fails, Promise!Stores, Stores

\* A statement on one table changes what is found in this table only.
LEMMA TableChange ==
    ASSUME TablesInv, NEW s \in Stores, NEW T, Holds(s, T),
           rows' = [rows EXCEPT ![s] = T], UNCHANGED local
    PROVE  /\ TablesInv'
           /\ Content' = [Content EXCEPT ![s] = [k \in Keys |-> Found(T, k)]]
           /\ UNCHANGED <<ThePair, TheRegistration>>
<1>1. /\ DOMAIN rows' = Stores
      /\ rows'[s] = T
      /\ \A t \in Stores \ {s} : rows'[t] = rows[t]
  BY DEF TablesInv
<1>2. \A t \in Stores : Holds(t, rows'[t])
  BY <1>1 DEF TablesInv
<1>3. OneRow'
  BY DEF TablesInv, OneRow
<1>4. TablesInv'
  BY <1>1, <1>2, <1>3 DEF TablesInv, Holds, KeyedOnce
<1>5. Content' = [t \in Stores |-> [k \in Keys |-> Found(rows'[t], k)]]
  BY DEF Content, Found
<1>6. Content' = [Content EXCEPT ![s] = [k \in Keys |-> Found(T, k)]]
  BY <1>1, <1>5 DEF Content
<1>7. UNCHANGED <<ThePair, TheRegistration>>
  BY DEF ThePair, KeyPairs, TheRegistration
<1> QED
  BY <1>4, <1>6, <1>7

\* INSERT OR REPLACE puts a record.
LEMMA PutPromised ==
    ASSUME TablesInv, NEW s \in Stores, NEW k \in KeysOf(s), NEW r \in Records, NEW c,
           s \in AgedStores => c = Secs(CreatedAt[r]),
           Execute("put", s, Replaced(rows[s], Row(k, r, c)), "ok")
    PROVE  (Promise!Put(s, k, r) \/ Promise!Fails) /\ TablesInv'
<1> DEFINE T == Replaced(rows[s], Row(k, r, c))
<1>1. CASE Reads("put", s, Error)
  BY <1>1, ErrorPromised
<1>2. CASE rows' = [rows EXCEPT ![s] = T] /\ Answer("put", s, "ok") /\ UNCHANGED <<local, status>>
  <2>1. k \in Keys /\ Row(k, r, c).key = k /\ Row(k, r, c).data = r /\ Row(k, r, c).created = c
    BY KeysOfKeys DEF Row
  <2>2. Holds(s, rows[s])
    BY DEF TablesInv
  <2>3. /\ KeyedOnce(T)
        /\ Found(T, k) = r
        /\ \A j : j # k => Found(T, j) = Found(rows[s], j)
    BY <2>1, <2>2, ReplacedFound DEF Holds
  <2>4. Holds(s, T)
    BY <2>1, <2>2, <2>3 DEF Holds, Replaced
  <2> HIDE DEF T
  <2>5. /\ TablesInv'
        /\ Content' = [Content EXCEPT ![s] = [j \in Keys |-> Found(T, j)]]
        /\ UNCHANGED <<ThePair, TheRegistration>>
    BY <1>2, <2>4, TableChange
  <2>6. [j \in Keys |-> Found(T, j)] = [Content[s] EXCEPT ![k] = r]
    BY <2>1, <2>3 DEF Content
  <2>7. Content' = [Content EXCEPT ![s][k] = r]
    BY <2>5, <2>6 DEF Content
  <2> QED
    BY <1>2, <2>5, <2>7
       DEF Answer, Promise!Put, Promise!Answer, Content, ThePair, TheRegistration
<1> QED
  BY <1>1, <1>2 DEF Execute

\* DELETE ... WHERE removes what is under a key, DELETE everything.
LEMMA DeletePromised ==
    ASSUME TablesInv, NEW s \in Stores, NEW k \in KeysOf(s), DeleteWhere(s, k)
    PROVE  (Promise!Delete(s, k) \/ Promise!Fails) /\ TablesInv'
<1> DEFINE T == {r \in rows[s] : r.key # k}
<1>1. CASE Reads("delete", s, Error)
  BY <1>1, ErrorPromised
<1>2. CASE rows' = [rows EXCEPT ![s] = T] /\ Answer("delete", s, "ok") /\ UNCHANGED <<local, status>>
  <2>1. k \in Keys
    BY KeysOfKeys
  <2>2. Holds(s, rows[s])
    BY DEF TablesInv
  <2>3. /\ Found(T, k) = None
        /\ \A j : j # k => Found(T, j) = Found(rows[s], j)
    <3>1. KeyedOnce(rows[s]) /\ T = {r \in rows[s] : r.key # k}
      BY <2>2 DEF Holds
    <3> HIDE DEF T
    <3> QED
      BY <3>1, DeletedFound
  <2>4. Holds(s, T)
    BY <2>2 DEF Holds, KeyedOnce
  <2> HIDE DEF T
  <2>5. /\ TablesInv'
        /\ Content' = [Content EXCEPT ![s] = [j \in Keys |-> Found(T, j)]]
        /\ UNCHANGED <<ThePair, TheRegistration>>
    BY <1>2, <2>4, TableChange
  <2>6. [j \in Keys |-> Found(T, j)] = [Content[s] EXCEPT ![k] = None]
    BY <2>1, <2>3 DEF Content
  <2>7. Content' = [Content EXCEPT ![s][k] = None]
    BY <2>5, <2>6 DEF Content
  <2> QED
    BY <1>2, <2>5, <2>7
       DEF Answer, Promise!Delete, Promise!Answer, Content, ThePair, TheRegistration
<1> QED
  BY <1>1, <1>2 DEF DeleteWhere, Execute

\* A DELETE without a WHERE clause empties the store.
LEMMA ClearPromised ==
    ASSUME TablesInv, NEW s \in Stores, DeleteAll(s)
    PROVE  (Promise!Clear(s) \/ Promise!Fails) /\ TablesInv'
<1>1. CASE Reads("clear", s, Error)
  BY <1>1, ErrorPromised
<1>2. CASE rows' = [rows EXCEPT ![s] = {}] /\ Answer("clear", s, "ok") /\ UNCHANGED <<local, status>>
  <2>1. Holds(s, {}) /\ \A j \in Keys : Found({}, j) = None
    BY FoundNothing DEF Holds, KeyedOnce
  <2>2. /\ TablesInv'
        /\ Content' = [Content EXCEPT ![s] = [j \in Keys |-> Found({}, j)]]
        /\ UNCHANGED <<ThePair, TheRegistration>>
    BY <1>2, <2>1, TableChange
  <2>3. Content' = [Content EXCEPT ![s] = [j \in Keys |-> None]]
    BY <2>1, <2>2
  <2> QED
    BY <1>2, <2>2, <2>3
       DEF Answer, Promise!Clear, Promise!Answer, Promise!Keys, Keys, Content, ThePair,
           TheRegistration
<1> QED
  BY <1>1, <1>2 DEF DeleteAll, Execute

\* SELECT ... WHERE answers the record there is, or that there is none.
LEMMA GetPromised ==
    ASSUME TablesInv, NEW s \in Stores, NEW k \in KeysOf(s), QueryRow("get", s, k)
    PROVE  (Promise!Get(s, k) \/ Promise!Fails) /\ TablesInv'
<1>1. k \in Keys /\ Content[s][k] = Found(rows[s], k) /\ KeyedOnce(rows[s])
  BY KeysOfKeys DEF Content, TablesInv, Holds
<1>2. CASE \E r \in rows[s] : r.key = k /\ Reads("get", s, r.data)
  BY <1>1, <1>2, FoundRow, ReadsPromised DEF Promise!Get, Content
<1>3. CASE (\A r \in rows[s] : r.key # k) /\ Reads("get", s, None)
  BY <1>1, <1>3, FoundNothing, ReadsPromised DEF Promise!Get, Content
<1>4. CASE Reads("get", s, Error)
  BY <1>4, ErrorPromised
<1> QED
  BY <1>2, <1>3, <1>4 DEF QueryRow

\* A count or a maximum is right, or the one of an empty store.
LEMMA CountPromised ==
    ASSUME TablesInv, NEW s \in Stores
    PROVE  /\ CountRows(s) => (Promise!Count(s) \/ Promise!Fails) /\ TablesInv'
           /\ MaxKey(s) => (Promise!MaxId(s) \/ Promise!Fails) /\ TablesInv'
<1>1. /\ Occupied(Content[s]) = {r.key : r \in rows[s]}
      /\ Cardinality(Occupied(Content[s])) = Cardinality(rows[s])
  BY RowsOccupied
<1>2. ASSUME Reads("count", s, Cardinality(rows[s]))
      PROVE  Promise!Count(s) /\ TablesInv'
  BY <1>1, <1>2, ReadsPromised
     DEF Promise!Count, Promise!Cardinality, Cardinality, Promise!Occupied, Occupied, Content
<1>3. ASSUME Reads("max", s, Largest({r.key : r \in rows[s]}))
      PROVE  Promise!MaxId(s) /\ TablesInv'
  BY <1>1, <1>3, ReadsPromised
     DEF Promise!MaxId, Promise!Largest, Largest, Promise!Occupied, Occupied, Content
<1>4. ASSUME Reads("count", s, 0) \/ Reads("max", s, None)
      PROVE  Promise!Fails /\ TablesInv'
  <2>1. (Promise!Reads("count", s, 0) \/ Promise!Reads("max", s, None)) /\ TablesInv'
    BY <1>4, ReadsPromised
  <2> QED
    BY <2>1 DEF Promise!Fails, Promise!Stores, Stores
<1> QED
  BY <1>2, <1>3, <1>4 DEF CountRows, MaxKey

\* created_at < t in seconds: some keys of the same second are left out, which
\* the promise allows.
LEMMA OlderPromised ==
    ASSUME TablesInv, NEW s \in AgedStores, NEW t \in Times, SelectOlder(s, t)
    PROVE  (Promise!OlderThan(s, t) \/ Promise!Fails) /\ TablesInv'
<1> DEFINE old == {r.key : r \in {q \in rows[s] : q.created < Secs(t)}}
<1>1. s \in Stores
  BY DEF AgedStores, Stores
<1>2. Holds(s, rows[s])
  BY <1>1 DEF TablesInv
<1>3. \A r \in rows[s] : /\ r.key \in Keys
                         /\ Content[s][r.key] = r.data
                         /\ r.data \in Records
                         /\ r.created = Secs(CreatedAt[r.data])
  BY <1>1, <1>2, KeysOfKeys, FoundRow DEF Content, Holds
<1>4. \A c \in Nat : Secs(c) < Secs(t) => c < t
  BY StorageAssumption DEF Secs
<1>5. Occupied(Content[s]) = {r.key : r \in rows[s]}
  BY <1>1, RowsOccupied
<1>6. old \in SUBSET {k \in Occupied(Content[s]) : CreatedAt[Content[s][k]] < t}
  BY <1>3, <1>4, <1>5, StorageAssumption
<1>7. \A k \in Occupied(Content[s]) : Secs(CreatedAt[Content[s][k]]) < Secs(t) => k \in old
  BY <1>3, <1>5
<1>8. CASE Reads("older", s, Error)
  BY <1>1, <1>8, ErrorPromised
<1>9. CASE Reads("older", s, old)
  <2>1. Promise!Reads("older", s, old) /\ TablesInv'
    BY <1>9, ReadsPromised
  <2> HIDE DEF old
  <2> QED
    BY <1>6, <1>7, <2>1
       DEF Promise!OlderThan, Promise!Occupied, Occupied, Promise!Secs, Secs, Content
<1> QED
  BY <1>8, <1>9 DEF SelectOlder

\* Trust on first use.
LEMMA SavePromised ==
    ASSUME TablesInv, NEW a \in Addresses, NEW r \in Records, SaveIdentity(a, r)
    PROVE  (Promise!SaveIdentity(a, r) \/ Promise!Fails) /\ TablesInv'
<1> DEFINE s == "identity"
           T == Replaced(rows[s], Row(a, r, 0))
<1>1. /\ s \in Stores /\ s \notin AgedStores /\ a \in KeysOf(s) /\ a \in Keys
      /\ Row(a, r, 0).key = a /\ Row(a, r, 0).data = r
  BY DEF Stores, AgedStores, KeysOf, Keys, Row
<1>2. Holds(s, rows[s])
  BY <1>1 DEF TablesInv
<1>3. PICK change \in {"NewOrUnchanged", "ReplacedExisting"} :
        /\ change = "ReplacedExisting" <=> \E q \in rows[s] : q.key = a /\ q.data # r
        /\ Execute("save", s, T, change)
  BY DEF SaveIdentity
<1>4. change = IF Content[s][a] \in {None, r} THEN "NewOrUnchanged" ELSE "ReplacedExisting"
  <2>1. Content[s][a] = Found(rows[s], a)
    BY <1>1 DEF Content
  <2>2. CASE \E q \in rows[s] : q.key = a
    <3>1. PICK q \in rows[s] : q.key = a
      BY <2>2
    <3>2. Content[s][a] = q.data /\ q.data # None
      BY <1>2, <2>1, <3>1, FoundRow, StorageAssumption DEF Holds
    <3>3. \A p \in rows[s] : p.key = a => p = q
      BY <1>2, <3>1 DEF Holds, KeyedOnce
    <3> QED
      BY <1>3, <3>1, <3>2, <3>3
  <2>3. CASE \A q \in rows[s] : q.key # a
    BY <1>3, <2>1, <2>3, FoundNothing
  <2> QED
    BY <2>2, <2>3
<1>5. CASE Reads("save", s, Error)
  BY <1>1, <1>5, ErrorPromised
<1>6. CASE rows' = [rows EXCEPT ![s] = T] /\ Answer("save", s, change) /\ UNCHANGED <<local, status>>
  <2>1. /\ KeyedOnce(T)
        /\ Found(T, a) = r
        /\ \A j : j # a => Found(T, j) = Found(rows[s], j)
    BY <1>1, <1>2, ReplacedFound DEF Holds
  <2>2. Holds(s, T)
    BY <1>1, <1>2, <2>1 DEF Holds, Replaced
  <2> HIDE DEF T
  <2>3. /\ TablesInv'
        /\ Content' = [Content EXCEPT ![s] = [j \in Keys |-> Found(T, j)]]
        /\ UNCHANGED <<ThePair, TheRegistration>>
    BY <1>1, <1>6, <2>2, TableChange
  <2>4. [j \in Keys |-> Found(T, j)] = [Content[s] EXCEPT ![a] = r]
    BY <1>1, <2>1 DEF Content
  <2>5. Content' = [Content EXCEPT ![s][a] = r]
    BY <1>1, <2>3, <2>4 DEF Content
  <2> QED
    BY <1>4, <1>6, <2>3, <2>5
       DEF Answer, Promise!SaveIdentity, Promise!Answer, Content, ThePair, TheRegistration
<1> QED
  BY <1>3, <1>5, <1>6 DEF Execute

\* is_trusted_identity compares with the stored record, when there is one.
LEMMA TrustPromised ==
    ASSUME TablesInv, NEW a \in Addresses, NEW r \in Records, IsTrustedIdentity(a, r)
    PROVE  (Promise!IsTrusted(a, r) \/ Promise!Fails) /\ TablesInv'
<1>1. "identity" \in Stores /\ Content["identity"][a] = Found(rows["identity"], a)
  BY DEF Stores, Keys, Content
<1>2. CASE Reads("trusted", "identity", Found(rows["identity"], a) \in {None, r})
  BY <1>1, <1>2, ReadsPromised DEF Promise!IsTrusted, Content
<1>3. CASE Reads("trusted", "identity", Error)
  BY <1>1, <1>3, ErrorPromised
<1> QED
  BY <1>2, <1>3 DEF IsTrustedIdentity

-----------------------------------------------------------------------------
(* The table of one row.                                                   *)

\* What the promise sees of a row.
LEMMA RowSeen ==
    ASSUME NEW p \in Pairs \cup {Blank}, NEW n,
           local = {[pair |-> p, registration |-> n]}
    PROVE  ThePair = (IF p = Blank THEN None ELSE p) /\ TheRegistration = n
<1>1. KeyPairs = {p} \ {Blank}
  BY DEF KeyPairs
<1>2. {q.registration : q \in local} = {n} /\ local # {}
  OBVIOUS
<1>3. TheRegistration = n
  BY <1>2 DEF TheRegistration
<1>4. CASE p = Blank
  BY <1>1, <1>3, <1>4 DEF ThePair
<1>5. CASE p # Blank
  <2>1. KeyPairs = {p}
    BY <1>1, <1>5
  <2> QED
    BY <1>3, <1>5, <2>1 DEF ThePair
<1> QED
  BY <1>4, <1>5

\* Without a row there is no record.
LEMMA NoRowSeen ==
    ASSUME local = {}
    PROVE  ThePair = None /\ TheRegistration = 0
BY DEF ThePair, TheRegistration, KeyPairs

\* The same, of the row a statement leaves.
LEMMA RowLeft ==
    ASSUME TablesInv, UNCHANGED rows, NEW p \in Pairs \cup {Blank}, NEW n \in Registrations,
           local' = {[pair |-> p, registration |-> n]}
    PROVE  /\ ThePair' = (IF p = Blank THEN None ELSE p) /\ TheRegistration' = n
           /\ Content' = Content /\ TablesInv'
<1>1. KeyPairs' = {p} \ {Blank}
  BY DEF KeyPairs
<1>2. {q.registration : q \in local'} = {n} /\ local' # {}
  OBVIOUS
<1>3. TheRegistration' = n
  BY <1>2 DEF TheRegistration
<1>4. ThePair' = (IF p = Blank THEN None ELSE p)
  <2>1. CASE p = Blank
    BY <1>1, <2>1 DEF ThePair
  <2>2. CASE p # Blank
    <3>1. KeyPairs' = {p}
      BY <1>1, <2>2
    <3> QED
      BY <2>2, <3>1 DEF ThePair
  <2> QED
    BY <2>1, <2>2
<1>5. Content' = Content
  BY DEF Content, Found
<1>6. TablesInv'
  BY DEF TablesInv, OneRow, Holds, KeyedOnce
<1> QED
  BY <1>3, <1>4, <1>5, <1>6

\* The two columns are read and written one at a time.
LEMMA ReadLocalPromised ==
    ASSUME TablesInv
    PROVE  /\ GetIdentityKeyPair => (Promise!GetPair \/ Promise!Fails) /\ TablesInv'
           /\ GetLocalRegistrationId => (Promise!GetRegistration \/ Promise!Fails) /\ TablesInv'
<1>1. ASSUME GetIdentityKeyPair
      PROVE  (Promise!GetPair \/ Promise!Fails) /\ TablesInv'
  <2>1. CASE Reads("get", "local", Error)
    BY <2>1, ErrorPromised
  <2>2. CASE ~Reads("get", "local", Error)
    <3>1. Reads("get", "local", ThePair)
      <4>1. CASE local = {}
        BY <1>1, <2>2, <4>1, NoRowSeen DEF GetIdentityKeyPair
      <4>2. CASE local # {}
        <5>1. PICK p \in Pairs \cup {Blank}, n \in Registrations :
                local = {[pair |-> p, registration |-> n]}
          BY <4>2 DEF TablesInv, OneRow
        <5>2. ThePair = IF p = Blank THEN None ELSE p
          BY <5>1, RowSeen
        <5> QED
          BY <1>1, <2>2, <5>1, <5>2 DEF GetIdentityKeyPair
      <4> QED
        BY <4>1, <4>2
    <3> QED
      BY <3>1, ReadsPromised DEF Promise!GetPair, ThePair
  <2> QED
    BY <2>1, <2>2
<1>2. ASSUME GetLocalRegistrationId
      PROVE  (Promise!GetRegistration \/ Promise!Fails) /\ TablesInv'
  <2>1. CASE Reads("registration", "local", Error)
    BY <2>1, ErrorPromised
  <2>2. CASE \E q \in local : Reads("registration", "local", q.registration)
    <3>1. PICK p \in Pairs \cup {Blank}, n \in Registrations :
            local = {[pair |-> p, registration |-> n]}
      BY <2>2 DEF TablesInv, OneRow
    <3>2. Reads("registration", "local", TheRegistration)
      BY <2>2, <3>1, RowSeen
    <3> QED
      BY <3>2, ReadsPromised DEF Promise!GetRegistration, TheRegistration
  <2> QED
    BY <1>2, <2>1, <2>2 DEF GetLocalRegistrationId
<1> QED
  BY <1>1, <1>2

\* A column of the local row is set and the other kept, or the row is deleted.
LEMMA WriteLocalPromised ==
    ASSUME TablesInv
    PROVE  /\ \A p \in Pairs : SetLocalIdentityKeyPair(p) =>
                 (Promise!SetPair(p) \/ Promise!Fails) /\ TablesInv'
           /\ \A n \in Registrations : SetLocalRegistrationId(n) =>
                 (Promise!SetRegistration(n) \/ Promise!Fails) /\ TablesInv'
           /\ ClearLocalIdentity => (Promise!ClearLocal \/ Promise!Fails) /\ TablesInv'
<1>1. ASSUME NEW p \in Pairs, SetLocalIdentityKeyPair(p)
      PROVE  (Promise!SetPair(p) \/ Promise!Fails) /\ TablesInv'
  <2>1. CASE Reads("put", "local", Error)
    BY <2>1, ErrorPromised
  <2>2. CASE ~Reads("put", "local", Error)
    <3>1. /\ local' = {[pair |-> p, registration |-> TheRegistration]}
          /\ TheRegistration \in Registrations
          /\ Answer("put", "local", "ok") /\ UNCHANGED rows
      <4>1. CASE local = {}
        BY <1>1, <2>2, <4>1, NoRowSeen, StorageAssumption DEF SetLocalIdentityKeyPair, ExecuteLocal
      <4>2. CASE local # {}
        <5>1. PICK q \in Pairs \cup {Blank}, n \in Registrations :
                local = {[pair |-> q, registration |-> n]}
          BY <4>2 DEF TablesInv, OneRow
        <5> QED
          BY <1>1, <2>2, <5>1, RowSeen DEF SetLocalIdentityKeyPair, ExecuteLocal
      <4> QED
        BY <4>1, <4>2
    <3>2. ThePair' = p /\ UNCHANGED <<Content, TheRegistration>> /\ TablesInv'
      BY <3>1, RowLeft, StorageAssumption
    <3> QED
      BY <3>1, <3>2
         DEF Answer, Promise!SetPair, Promise!Answer, Content, ThePair, TheRegistration
  <2> QED
    BY <2>1, <2>2
<1>2. ASSUME NEW n \in Registrations, SetLocalRegistrationId(n)
      PROVE  (Promise!SetRegistration(n) \/ Promise!Fails) /\ TablesInv'
  <2>1. CASE Reads("register", "local", Error)
    BY <2>1, ErrorPromised
  <2>2. CASE ~Reads("register", "local", Error)
    <3>1. PICK p \in Pairs \cup {Blank} :
            /\ local' = {[pair |-> p, registration |-> n]}
            /\ ThePair = (IF p = Blank THEN None ELSE p)
            /\ Answer("register", "local", "ok") /\ UNCHANGED rows
      <4>1. CASE local = {}
        BY <1>2, <2>2, <4>1, NoRowSeen DEF SetLocalRegistrationId, ExecuteLocal
      <4>2. CASE local # {}
        <5>1. PICK q \in Pairs \cup {Blank}, m \in Registrations :
                local = {[pair |-> q, registration |-> m]}
          BY <4>2 DEF TablesInv, OneRow
        <5> QED
          BY <1>2, <2>2, <5>1, RowSeen DEF SetLocalRegistrationId, ExecuteLocal
      <4> QED
        BY <4>1, <4>2
    <3>2. TheRegistration' = n /\ UNCHANGED <<Content, ThePair>> /\ TablesInv'
      BY <3>1, RowLeft
    <3> QED
      BY <3>1, <3>2
         DEF Answer, Promise!SetRegistration, Promise!Answer, Content, ThePair, TheRegistration
  <2> QED
    BY <2>1, <2>2
<1>3. ASSUME ClearLocalIdentity
      PROVE  (Promise!ClearLocal \/ Promise!Fails) /\ TablesInv'
  <2>1. CASE Reads("clear", "local", Error)
    BY <2>1, ErrorPromised
  <2>2. CASE local' = {} /\ Answer("clear", "local", "ok") /\ UNCHANGED <<rows, status>>
    <3>1. ThePair' = None /\ TheRegistration' = 0
      BY <2>2 DEF ThePair, TheRegistration, KeyPairs
    <3>2. Content' = Content
      BY <2>2 DEF Content, Found
    <3>3. TablesInv'
      BY <2>2 DEF TablesInv, OneRow, Holds, KeyedOnce
    <3> QED
      BY <2>2, <3>1, <3>2, <3>3
         DEF Answer, Promise!ClearLocal, Promise!Answer, Content, ThePair, TheRegistration
  <2> QED
    BY <1>3, <2>1, <2>2 DEF ClearLocalIdentity, ExecuteLocal
<1> QED
  BY <1>1, <1>2, <1>3

\* initialize and a restart find what was there, closing leaves it there.
LEMMA ContainerPromised ==
    ASSUME TablesInv, Initialize \/ Close \/ New
    PROVE  (Promise!Close \/ Promise!Reopen \/ Promise!Fails) /\ TablesInv'
<1>1. UNCHANGED <<rows, local>>
  BY DEF Initialize, Close, New
<1>2. TablesInv' /\ UNCHANGED <<Content, ThePair, TheRegistration>>
  BY <1>1, SameTables
<1>3. CASE Answer("open", "storage", "ok")
  BY <1>2, <1>3
     DEF Answer, Promise!Reopen, Promise!Answer, Content, ThePair, TheRegistration
<1>4. CASE Answer("close", "storage", "ok")
  BY <1>2, <1>4
     DEF Answer, Promise!Close, Promise!Reads, Promise!Answer, Content, ThePair, TheRegistration
<1>5. CASE Answer("close", "storage", Error)
  <2>1. Promise!Reads("close", "storage", Error)
    BY <1>2, <1>5 DEF Answer, Promise!Reads, Promise!Answer, Content, ThePair, TheRegistration
  <2> QED
    BY <1>2, <2>1 DEF Promise!Fails
<1> QED
  BY <1>3, <1>4, <1>5 DEF Initialize, Close, New

-----------------------------------------------------------------------------
\* Every call of sqlite_storage.rs is a call the promise allows.
LEMMA StepPromised ==
    ASSUME TablesInv, Next
    PROVE  Promise!Next /\ TablesInv'
<1> USE DEF Promise!Stores, Promise!AgedStores, Promise!KeysOf
<1>1. ASSUME NEW s \in Stores, NEW k \in KeysOf(s), QueryRow("get", s, k) \/ DeleteWhere(s, k)
      PROVE  Promise!Next /\ TablesInv'
  BY <1>1, GetPromised, DeletePromised DEF Promise!Next, Stores, KeysOf
<1>2. ASSUME NEW s \in Stores, NEW k \in KeysOf(s), NEW r \in Records, NEW c,
             s \in AgedStores => c = Secs(CreatedAt[r]),
             Execute("put", s, Replaced(rows[s], Row(k, r, c)), "ok")
      PROVE  Promise!Next /\ TablesInv'
  BY <1>2, PutPromised DEF Promise!Next, Stores, KeysOf
<1>3. ASSUME NEW s \in Stores, CountRows(s) \/ DeleteAll(s)
      PROVE  Promise!Next /\ TablesInv'
  BY <1>3, CountPromised, ClearPromised DEF Promise!Next, Stores
<1>4. ASSUME NEW s \in {"pre", "signed", "kyber"}, MaxKey(s)
      PROVE  Promise!Next /\ TablesInv'
  BY <1>4, CountPromised DEF Promise!Next, Stores
<1>5. ASSUME NEW s \in AgedStores, NEW t \in Times, SelectOlder(s, t)
      PROVE  Promise!Next /\ TablesInv'
  BY <1>5, OlderPromised DEF Promise!Next, AgedStores
<1>6. CASE \E a \in Addresses : AddressCalls(a)
  <2>1. PICK a \in Addresses : AddressCalls(a)
    BY <1>6
  <2>2. CASE \E r \in Records : StoreSession(a, r)
    BY <2>2, <1>2 DEF StoreSession, Stores, AgedStores, KeysOf
  <2>3. CASE \E r \in Records : SaveIdentity(a, r) \/ IsTrustedIdentity(a, r)
    BY <2>3, SavePromised, TrustPromised DEF Promise!Next
  <2>4. CASE \/ LoadSession(a) \/ DeleteSession(a)
             \/ GetIdentity(a) \/ GetPeerIdentity(a) \/ DeleteIdentity(a)
    BY <2>4, <1>1 DEF LoadSession, DeleteSession, GetIdentity, GetPeerIdentity, DeleteIdentity,
       Stores, KeysOf
  <2> QED
    BY <2>1, <2>2, <2>3, <2>4 DEF AddressCalls
<1>7. CASE \E i \in Ids : IdCalls(i)
  <2>1. PICK i \in Ids : IdCalls(i)
    BY <1>7
  <2>2. CASE \E r \in Records : SavePreKey(i, r)
    BY <2>2, <1>2 DEF SavePreKey, Stores, AgedStores, KeysOf
  <2>3. CASE \E r \in Records : SaveSignedPreKey(i, r) \/ SaveKyberPreKey(i, r)
    BY <2>3, <1>2 DEF SaveSignedPreKey, SaveKyberPreKey, Stores, KeysOf
  <2>4. CASE MarkKyberPreKeyUsed(i)
    BY <2>4, ReadsPromised, ErrorPromised
       DEF MarkKyberPreKeyUsed, Stores, Promise!Next, Promise!MarkUsed
  <2>5. CASE \/ GetPreKey(i) \/ RemovePreKey(i) \/ DeletePreKey(i)
             \/ GetSignedPreKey(i) \/ DeleteSignedPreKey(i)
             \/ GetKyberPreKey(i) \/ DeleteKyberPreKey(i)
    BY <2>5, <1>1 DEF GetPreKey, RemovePreKey, DeletePreKey, GetSignedPreKey, DeleteSignedPreKey,
       GetKyberPreKey, DeleteKyberPreKey, Stores, KeysOf
  <2> QED
    BY <2>1, <2>2, <2>3, <2>4, <2>5 DEF IdCalls
<1>8. CASE StoreCalls
  <2>1. CASE \E t \in Times : GetSignedPreKeysOlderThan(t) \/ GetKyberPreKeysOlderThan(t)
    BY <2>1, <1>5 DEF GetSignedPreKeysOlderThan, GetKyberPreKeysOlderThan, AgedStores
  <2>2. CASE GetMaxPreKeyId \/ GetMaxSignedPreKeyId \/ GetMaxKyberPreKeyId
    BY <2>2, <1>4 DEF GetMaxPreKeyId, GetMaxSignedPreKeyId, GetMaxKyberPreKeyId
  <2> QED
    BY <1>8, <2>1, <2>2, <1>3 DEF StoreCalls, SessionCount, ClearAllSessions, IdentityCount,
       ClearAllIdentities, PreKeyCount, ClearAllPreKeys, SignedPreKeyCount, ClearAllSignedPreKeys,
       KyberPreKeyCount, ClearAllKyberPreKeys, Stores
<1>9. CASE LocalCalls
  BY <1>9, ReadLocalPromised, WriteLocalPromised DEF LocalCalls, Promise!Next
<1>10. CASE Initialize \/ Close \/ New
  BY <1>10, ContainerPromised DEF Promise!Next
<1> QED
  BY <1>6, <1>7, <1>8, <1>9, <1>10 DEF Next

\* The tables of sqlite_storage.rs keep the promise of storage_trait.rs, whatever
\* statement fails and wherever the process ends.
THEOREM SqliteRefines == Spec => SqliteKeepsPromise
<1>1. Init => Promise!Init /\ TablesInv
  <2> SUFFICES ASSUME Init PROVE Promise!Init /\ TablesInv
    OBVIOUS
  <2>1. DOMAIN rows = Stores /\ \A s \in Stores : rows[s] = {}
    BY DEF Init, NoTable
  <2>2. local = {}
    BY DEF Init
  <2>3. TablesInv
    BY <2>1, <2>2 DEF TablesInv, Holds, KeyedOnce, OneRow
  <2>4. Content = [s \in Stores |-> [k \in Keys |-> None]]
    BY <2>1, FoundNothing DEF Content
  <2>5. ThePair = None /\ TheRegistration = 0
    BY <2>2, NoRowSeen
  <2> QED
    BY <2>3, <2>4, <2>5 DEF Init, Promise!Init, Promise!Empty, Promise!Stores, Stores,
       Promise!Keys, Keys, Content, ThePair, TheRegistration
<1>2. TablesInv /\ [Next]_vars => [Promise!Next]_(Promise!vars) /\ TablesInv'
  <2> SUFFICES ASSUME TablesInv, UNCHANGED vars
               PROVE  UNCHANGED Promise!vars /\ TablesInv'
    BY StepPromised
  <2>1. UNCHANGED <<rows, local, called, answer>>
    BY DEF vars
  <2> QED
    BY <2>1, SameTables DEF Promise!vars, Content, ThePair, TheRegistration
<1> QED
  BY <1>1, <1>2, PTL DEF Spec, SqliteKeepsPromise, Promise!Spec
=============================================================================
