------------------------ MODULE MemoryStorageProofs ------------------------
(***************************************************************************)
(* The maps of memory_storage.rs keep the promise of storage_trait.rs, for *)
(* any addresses, ids, records and times.                                  *)
(***************************************************************************)
EXTENDS MemoryStorage, TLAPS

\* A map holds records, under keys of its store.
MapsTyped ==
    /\ DOMAIN maps = Stores
    /\ \A s \in Stores :
          /\ DOMAIN maps[s] \subseteq KeysOf(s)
          /\ \A k \in DOMAIN maps[s] : maps[s][k] \in Records

\* The content the maps stand for.
Content == [s \in Stores |-> [k \in Keys |-> Lookup(s, k)]]

-----------------------------------------------------------------------------
\* The keys of a store are keys.
LEMMA KeysOfKeys == \A s \in Stores : KeysOf(s) \subseteq Keys
BY DEF KeysOf, Keys

\* The keys of a map are the keys its content has something under.
LEMMA DomainOccupied ==
    ASSUME MapsTyped, NEW s \in Stores
    PROVE  Occupied(Content[s]) = DOMAIN maps[s]
<1>1. \A k \in DOMAIN maps[s] : k \in Keys /\ maps[s][k] # None
  BY KeysOfKeys, StorageAssumption DEF MapsTyped
<1>2. Content[s] = [k \in Keys |-> Lookup(s, k)]
  BY DEF Content
<1> QED
  BY <1>1, <1>2 DEF Occupied, Lookup

\* What inserting, removing and wiping do to the content.
LEMMA InsertContent ==
    ASSUME MapsTyped, NEW s \in Stores, NEW k \in KeysOf(s), NEW r \in Records,
           maps' = [maps EXCEPT ![s] = Inserted(s, k, r)]
    PROVE  /\ Content' = [Content EXCEPT ![s][k] = r]
           /\ MapsTyped'
<1>1. k \in Keys
  BY KeysOfKeys
<1>2. /\ DOMAIN maps' = Stores
      /\ maps'[s] = Inserted(s, k, r)
      /\ \A t \in Stores \ {s} : maps'[t] = maps[t]
  BY DEF MapsTyped
<1>3. /\ DOMAIN maps'[s] = DOMAIN maps[s] \cup {k}
      /\ maps'[s][k] = r
      /\ \A j \in DOMAIN maps[s] \ {k} : maps'[s][j] = maps[s][j]
  BY <1>2 DEF Inserted
<1>4. MapsTyped'
  BY <1>2, <1>3 DEF MapsTyped
<1>5. \A t \in Stores, j \in Keys :
        Lookup(t, j)' = IF t = s /\ j = k THEN r ELSE Lookup(t, j)
  BY <1>2, <1>3 DEF Lookup
<1>6. Content' = [Content EXCEPT ![s][k] = r]
  BY <1>1, <1>5 DEF Content
<1> QED
  BY <1>4, <1>6

\* HashMap::remove takes one record away.
LEMMA RemoveContent ==
    ASSUME MapsTyped, NEW s \in Stores, NEW k \in KeysOf(s),
           maps' = [maps EXCEPT ![s] = Restrict(maps[s], DOMAIN maps[s] \ {k})]
    PROVE  /\ Content' = [Content EXCEPT ![s][k] = None]
           /\ MapsTyped'
<1>1. k \in Keys
  BY KeysOfKeys
<1>2. /\ DOMAIN maps' = Stores
      /\ maps'[s] = [j \in DOMAIN maps[s] \ {k} |-> maps[s][j]]
      /\ \A t \in Stores \ {s} : maps'[t] = maps[t]
  BY DEF MapsTyped, Restrict
<1>3. /\ DOMAIN maps'[s] = DOMAIN maps[s] \ {k}
      /\ \A j \in DOMAIN maps[s] \ {k} : maps'[s][j] = maps[s][j]
  BY <1>2
<1>4. MapsTyped'
  BY <1>2, <1>3 DEF MapsTyped
<1>5. \A t \in Stores, j \in Keys :
        Lookup(t, j)' = IF t = s /\ j = k THEN None ELSE Lookup(t, j)
  BY <1>2, <1>3 DEF Lookup
<1>6. Content' = [Content EXCEPT ![s][k] = None]
  BY <1>1, <1>5 DEF Content
<1> QED
  BY <1>4, <1>6

\* HashMap::clear takes every record away.
LEMMA WipeContent ==
    ASSUME MapsTyped, NEW s \in Stores,
           maps' = [maps EXCEPT ![s] = [k \in {} |-> None]]
    PROVE  /\ Content' = [Content EXCEPT ![s] = [k \in Keys |-> None]]
           /\ MapsTyped'
<1>2. /\ DOMAIN maps' = Stores
      /\ maps'[s] = [j \in {} |-> None]
      /\ \A t \in Stores \ {s} : maps'[t] = maps[t]
  BY DEF MapsTyped
<1>3. DOMAIN maps'[s] = {}
  BY <1>2
<1>4. MapsTyped'
  BY <1>2, <1>3 DEF MapsTyped
<1>5. \A t \in Stores, j \in Keys : Lookup(t, j)' = IF t = s THEN None ELSE Lookup(t, j)
  BY <1>2, <1>3 DEF Lookup
<1>6. Content' = [Content EXCEPT ![s] = [k \in Keys |-> None]]
  BY <1>5 DEF Content
<1> QED
  BY <1>4, <1>6

\* A step that leaves the maps alone leaves their content alone.
LEMMA SameContent ==
    ASSUME maps' = maps
    PROVE  Content' = Content /\ (MapsTyped => MapsTyped')
BY DEF Content, MapsTyped, Lookup

-----------------------------------------------------------------------------
(* Every call does to the content what the promise says, and answers so.   *)

\* Reading a key, the number of keys, the largest key.
LEMMA ReadPromised ==
    ASSUME MapsTyped, NEW s \in Stores, NEW k \in KeysOf(s)
    PROVE  /\ Reads("get", s, Lookup(s, k)) => Promise!Get(s, k) /\ MapsTyped'
           /\ Len(s) => Promise!Count(s) /\ MapsTyped'
           /\ MaxKey(s) => Promise!MaxId(s) /\ MapsTyped'
<1>1. k \in Keys /\ Content[s][k] = Lookup(s, k)
  BY KeysOfKeys DEF Content
<1>2. Occupied(Content[s]) = DOMAIN maps[s]
  BY DomainOccupied
<1>3. ASSUME NEW call, NEW a, Reads(call, s, a)
      PROVE  Promise!Reads(call, s, a) /\ MapsTyped'
  BY <1>3, SameContent DEF Reads, Answer, Promise!Reads, Promise!Answer, Content
<1>4. Reads("get", s, Lookup(s, k)) => Promise!Get(s, k) /\ MapsTyped'
  BY <1>1, <1>3 DEF Promise!Get, Content
<1>5. Len(s) => Promise!Count(s) /\ MapsTyped'
  BY <1>2, <1>3 DEF Len, Promise!Count, Content, Occupied, Promise!Occupied, Cardinality, Promise!Cardinality
<1>6. MaxKey(s) => Promise!MaxId(s) /\ MapsTyped'
  BY <1>2, <1>3 DEF MaxKey, Promise!MaxId, Content, Occupied, Promise!Occupied, Largest, Promise!Largest
<1> QED
  BY <1>4, <1>5, <1>6

\* Every read answers what the promise answers and leaves the content alone.
LEMMA ReadsPromised ==
    ASSUME MapsTyped, NEW call, NEW s, NEW a, Reads(call, s, a)
    PROVE  Promise!Reads(call, s, a) /\ MapsTyped'
BY SameContent DEF Reads, Answer, Promise!Reads, Promise!Answer, Content

\* Writing a key, removing one, clearing a store.
LEMMA WritePromised ==
    ASSUME MapsTyped, NEW s \in Stores, NEW k \in KeysOf(s)
    PROVE  /\ \A r \in Records : Insert(s, k, r) => Promise!Put(s, k, r) /\ MapsTyped'
           /\ Remove(s, k) => Promise!Delete(s, k) /\ MapsTyped'
           /\ Wipe(s) => Promise!Clear(s) /\ MapsTyped'
<1>1. ASSUME NEW r \in Records, Insert(s, k, r) PROVE Promise!Put(s, k, r) /\ MapsTyped'
  <2>1. maps' = [maps EXCEPT ![s] = Inserted(s, k, r)]
    BY <1>1 DEF Insert, Becomes
  <2>2. Content' = [Content EXCEPT ![s][k] = r] /\ MapsTyped'
    BY <2>1, InsertContent
  <2> QED
    BY <1>1, <2>2 DEF Insert, Becomes, Answer, Promise!Put, Promise!Answer, Content
<1>2. ASSUME Remove(s, k) PROVE Promise!Delete(s, k) /\ MapsTyped'
  BY <1>2, RemoveContent
     DEF Remove, Becomes, Answer, Promise!Delete, Promise!Answer, Content
<1>3. ASSUME Wipe(s) PROVE Promise!Clear(s) /\ MapsTyped'
  <2>1. maps' = [maps EXCEPT ![s] = [j \in {} |-> None]]
    BY <1>3 DEF Wipe, Becomes
  <2>2. Content' = [Content EXCEPT ![s] = [j \in Keys |-> None]] /\ MapsTyped'
    BY <2>1, WipeContent
  <2> QED
    BY <1>3, <2>2 DEF Wipe, Becomes, Answer, Promise!Clear, Promise!Answer, Promise!Keys, Keys,
                      Content
<1> QED
  BY <1>1, <1>2, <1>3

\* Trust on first use.
LEMMA IdentityPromised ==
    ASSUME MapsTyped, NEW a \in Addresses, NEW r \in Records
    PROVE  /\ SaveIdentity(a, r) => Promise!SaveIdentity(a, r) /\ MapsTyped'
           /\ IsTrustedIdentity(a, r) => Promise!IsTrusted(a, r) /\ MapsTyped'
<1>1. "identity" \in Stores /\ a \in KeysOf("identity") /\ a \in Keys
  BY DEF Stores, KeysOf, Keys
<1>2. Content["identity"][a] = Lookup("identity", a)
  BY <1>1 DEF Content
<1>3. ASSUME SaveIdentity(a, r) PROVE Promise!SaveIdentity(a, r) /\ MapsTyped'
  <2>1. maps' = [maps EXCEPT !["identity"] = Inserted("identity", a, r)]
    BY <1>3 DEF SaveIdentity, Becomes
  <2>2. Content' = [Content EXCEPT !["identity"][a] = r] /\ MapsTyped'
    BY <1>1, <2>1, InsertContent
  <2> QED
    BY <1>2, <1>3, <2>2
       DEF SaveIdentity, Becomes, Answer, Promise!SaveIdentity, Promise!Answer, Content
<1>4. (a \in DOMAIN maps["identity"] => maps["identity"][a] = r)
        = (Content["identity"][a] \in {None, r})
  BY <1>1, <1>2, StorageAssumption DEF Lookup, MapsTyped
<1>5. ASSUME IsTrustedIdentity(a, r) PROVE Promise!IsTrusted(a, r) /\ MapsTyped'
  BY <1>4, <1>5, ReadsPromised DEF IsTrustedIdentity, Promise!IsTrusted, Content
<1> QED
  BY <1>3, <1>5

\* The keys made before a time, compared to the millisecond, are among those
\* the promise allows: a whole second older is older.
LEMMA ExpiredPromised ==
    ASSUME MapsTyped, NEW s \in AgedStores, NEW t \in Times, Expired(s, t)
    PROVE  Promise!OlderThan(s, t) /\ MapsTyped'
<1> DEFINE old == {k \in DOMAIN maps[s] : CreatedAt[maps[s][k]] < t}
<1>1. s \in Stores
  BY DEF AgedStores, Stores
<1>2. Occupied(Content[s]) = DOMAIN maps[s]
  BY <1>1, DomainOccupied
<1>3. \A k \in DOMAIN maps[s] : k \in Keys /\ Content[s][k] = maps[s][k] /\ maps[s][k] \in Records
  BY <1>1, KeysOfKeys DEF Content, Lookup, MapsTyped
<1>4. old = {k \in Occupied(Content[s]) : CreatedAt[Content[s][k]] < t}
  BY <1>2, <1>3
<1>5. \A c \in Nat : Secs(c) < Secs(t) => c < t
  BY StorageAssumption DEF Secs
<1>6. \A k \in Occupied(Content[s]) : Secs(CreatedAt[Content[s][k]]) < Secs(t) => k \in old
  BY <1>2, <1>3, <1>4, <1>5, StorageAssumption
<1>7. Promise!Reads("older", s, old) /\ MapsTyped'
  BY ReadsPromised DEF Expired
<1> HIDE DEF old
<1> QED
  BY <1>4, <1>6, <1>7 DEF Promise!OlderThan, Promise!Occupied, Occupied, Promise!Secs, Secs, Content

\* The local identity: two options, of which the promise has 0 for a missing
\* registration id.
LEMMA LocalPromised ==
    ASSUME MapsTyped
    PROVE  /\ GetIdentityKeyPair => Promise!GetPair /\ MapsTyped'
           /\ GetLocalRegistrationId => Promise!GetRegistration /\ MapsTyped'
           /\ \A p \in Pairs : SetLocalIdentityKeyPair(p) => Promise!SetPair(p) /\ MapsTyped'
           /\ \A n \in Registrations :
                 SetLocalRegistrationId(n) => Promise!SetRegistration(n) /\ MapsTyped'
           /\ ClearLocalIdentity => Promise!ClearLocal /\ MapsTyped'
<1>1. ASSUME GetIdentityKeyPair PROVE Promise!GetPair /\ MapsTyped'
  BY <1>1, ReadsPromised DEF GetIdentityKeyPair, Promise!GetPair
<1>2. ASSUME GetLocalRegistrationId PROVE Promise!GetRegistration /\ MapsTyped'
  BY <1>2, ReadsPromised DEF GetLocalRegistrationId, Promise!GetRegistration
<1>3. ASSUME NEW p \in Pairs, SetLocalIdentityKeyPair(p) PROVE Promise!SetPair(p) /\ MapsTyped'
  BY <1>3, SameContent DEF SetLocalIdentityKeyPair, Answer, Promise!SetPair, Promise!Answer, Content
<1>4. ASSUME NEW n \in Registrations, SetLocalRegistrationId(n)
      PROVE  Promise!SetRegistration(n) /\ MapsTyped'
  BY <1>4, SameContent, StorageAssumption
     DEF SetLocalRegistrationId, Answer, Promise!SetRegistration, Promise!Answer, Content
<1>5. ASSUME ClearLocalIdentity PROVE Promise!ClearLocal /\ MapsTyped'
  BY <1>5, SameContent DEF ClearLocalIdentity, Answer, Promise!ClearLocal, Promise!Answer, Content
<1> QED
  BY <1>1, <1>2, <1>3, <1>4, <1>5

\* Closing does nothing, and a new process finds nothing.
LEMMA ContainerPromised ==
    ASSUME MapsTyped
    PROVE  /\ Close => Promise!Close /\ MapsTyped'
           /\ New => Promise!Reopen /\ MapsTyped'
<1>1. ASSUME Close PROVE Promise!Close /\ MapsTyped'
  BY <1>1, ReadsPromised DEF Close, Promise!Close
<1>2. ASSUME New PROVE Promise!Reopen /\ MapsTyped'
  <2>1. DOMAIN maps' = Stores /\ \A s \in Stores : DOMAIN maps'[s] = {}
    BY <1>2 DEF New, EmptyMaps
  <2>2. MapsTyped'
    BY <2>1 DEF MapsTyped
  <2>3. \A s \in Stores, k \in Keys : Lookup(s, k)' = None
    BY <2>1 DEF Lookup
  <2>4. Content' = [s \in Stores |-> [k \in Keys |-> None]]
    BY <2>3 DEF Content
  <2> QED
    BY <1>2, <2>2, <2>4 DEF New, Answer, Promise!Reopen, Promise!Answer, Promise!Empty,
       Promise!Stores, Stores, Promise!Keys, Keys, Content
<1> QED
  BY <1>1, <1>2

-----------------------------------------------------------------------------
\* Every call of memory_storage.rs is a call the promise allows.
LEMMA StepPromised ==
    ASSUME MapsTyped, Next
    PROVE  Promise!Next /\ MapsTyped'
<1> USE DEF Promise!Stores, Promise!AgedStores, Promise!KeysOf
<1>1. ASSUME NEW s \in Stores, NEW k \in KeysOf(s),
             \/ Reads("get", s, Lookup(s, k))
             \/ \E r \in Records : Insert(s, k, r)
             \/ Remove(s, k) \/ Wipe(s) \/ Len(s)
      PROVE  Promise!Next /\ MapsTyped'
  BY <1>1, ReadPromised, WritePromised DEF Promise!Next, Stores, KeysOf
<1>2. ASSUME NEW s \in {"pre", "signed", "kyber"}, MaxKey(s), Ids # {}
      PROVE  Promise!Next /\ MapsTyped'
  BY <1>2, ReadPromised DEF Promise!Next, Stores, KeysOf
<1>3. ASSUME NEW s \in AgedStores, NEW t \in Times, Expired(s, t)
      PROVE  Promise!Next /\ MapsTyped'
  BY <1>3, ExpiredPromised DEF Promise!Next, AgedStores
<1>4. ASSUME Reads("mark", "kyber", "ok")
      PROVE  Promise!Next /\ MapsTyped'
  BY <1>4, ReadsPromised DEF Promise!Next, Promise!MarkUsed
<1>5. CASE \E a \in Addresses : SessionCalls(a)
  BY <1>5, <1>1 DEF SessionCalls, LoadSession, StoreSession, Stores, KeysOf
<1>6. CASE \E a \in Addresses : IdentityCalls(a)
  <2>1. PICK a \in Addresses : IdentityCalls(a)
    BY <1>6
  <2>2. CASE \E r \in Records : SaveIdentity(a, r) \/ IsTrustedIdentity(a, r)
    BY <2>2, IdentityPromised DEF Promise!Next
  <2> QED
    BY <2>1, <2>2, <1>1 DEF IdentityCalls, Stores, KeysOf
<1>7. CASE \E i \in Ids : PreKeyCalls(i)
  BY <1>7, <1>1, <1>2 DEF PreKeyCalls, Stores, KeysOf
<1>8. CASE \E i \in Ids : SignedPreKeyCalls(i)
  BY <1>8, <1>1, <1>2, <1>3 DEF SignedPreKeyCalls, Stores, AgedStores, KeysOf
<1>9. CASE \E i \in Ids : KyberPreKeyCalls(i)
  BY <1>9, <1>1, <1>2, <1>3, <1>4 DEF KyberPreKeyCalls, Stores, AgedStores, KeysOf
<1>10. CASE \/ \E p \in Pairs : SetLocalIdentityKeyPair(p)
            \/ \E n \in Registrations : SetLocalRegistrationId(n)
  BY <1>10, LocalPromised, StorageAssumption DEF Promise!Next
<1>11. CASE GetIdentityKeyPair \/ GetLocalRegistrationId \/ ClearLocalIdentity
  BY <1>11, LocalPromised DEF Promise!Next
<1>12. CASE Close \/ New
  BY <1>12, ContainerPromised DEF Promise!Next
<1> QED
  BY <1>5, <1>6, <1>7, <1>8, <1>9, <1>10, <1>11, <1>12 DEF Next

\* The maps of memory_storage.rs keep the promise of storage_trait.rs.
THEOREM MemoryRefines == Spec => MemoryKeepsPromise
<1>1. Init => Promise!Init /\ MapsTyped
  BY DEF Init, EmptyMaps, MapsTyped, Lookup, Promise!Init, Promise!Empty, Promise!Stores, Stores,
         Promise!Keys, Keys
<1>2. MapsTyped /\ [Next]_vars => [Promise!Next]_(Promise!vars) /\ MapsTyped'
  BY StepPromised, SameContent DEF vars, Promise!vars, Content
<1> QED
  BY <1>1, <1>2, PTL DEF Spec, MemoryKeepsPromise, Promise!Spec
=============================================================================
