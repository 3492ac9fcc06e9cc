------------------------ MODULE KeyMaintenanceProofs ------------------------
(***************************************************************************)
(* Proofs about KeyMaintenance for every choice of the thresholds, the     *)
(* intervals and the bounds: no id of a signed or Kyber pre-key is used    *)
(* twice, the current one is never deleted, and a one-time pre-key is kept *)
(* until it is used and opens at most one session.                         *)
(***************************************************************************)
EXTENDS KeyMaintenance, WellFoundedInduction, TLAPS

USE KeysAssumption

\* SELECT MAX(id) of a store that is not empty is one of its ids, and the
\* highest.  (The ids are bounded, so the distance to the bound has a minimum.)
LEMMA MaxIdFact ==
    ASSUME NEW n \in Nat, NEW S \in SUBSET (1 .. n), S # {}
    PROVE  MaxId(S) \in S /\ \A i \in S : i <= MaxId(S)
<1> DEFINE T == {n - i : i \in S}
<1>1. T \subseteq Nat /\ T # {}
  <2>1. PICK i : i \in S
    OBVIOUS
  <2>2. n - i \in T
    BY <2>1
  <2>3. \A j \in S : n - j \in Nat
    OBVIOUS
  <2> QED
    BY <2>2, <2>3
<1>2. PICK x \in T : \A y \in T : ~(<<y, x>> \in OpToRel(<, Nat))
  BY <1>1, WFMin, NatLessThanWellFounded, Zenon
<1>3. \A y \in T : ~(y < x)
  BY <1>1, <1>2 DEF OpToRel
<1>4. PICK m \in S : x = n - m
  OBVIOUS
<1>5. \A i \in S : i <= m
  <2> SUFFICES ASSUME NEW i \in S PROVE i <= m
    OBVIOUS
  <2>1. n - i \in T /\ i \in Nat /\ m \in Nat
    OBVIOUS
  <2>2. ~(n - i < n - m)
    BY <1>3, <1>4, <2>1
  <2> HIDE DEF T
  <2> QED
    BY <2>1, <2>2
<1> QED
  BY <1>5 DEF MaxId

\* Dividing milliseconds down to seconds keeps the order.
LEMMA SecsMonotone ==
    ASSUME NEW s \in Nat, NEW t \in Nat, s <= t
    PROVE  Secs(s) \in Nat /\ Secs(s) <= Secs(t)
BY DEF Secs
-----------------------------------------------------------------------------
(* Types.                                                                  *)

\* What a bundle names when there is a key of every sort.
LEMMA BundleFact ==
    ASSUME TypeOK, pre # {}, Stored("signed") # {}, Stored("kyber") # {}
    PROVE  Bundle \in Bundles /\ Bundle.preGen = preGen[Bundle.pre]
<1>1. MaxId(pre) \in PreIds
  BY MaxIdFact DEF TypeOK, PreIds
<1>2. MaxId(Stored("signed")) \in KeyIds /\ MaxId(Stored("kyber")) \in KeyIds
  <2>1. \A k \in Kinds : Stored(k) \in SUBSET (1 .. MaxKeyId)
    BY DEF Stored, KeyIds
  <2> QED
    BY <2>1, MaxIdFact DEF Kinds, KeyIds
<1> QED
  BY <1>1, <1>2 DEF Bundle, Bundles, TypeOK

\* Generating a key under an id keeps the types of the store.
LEMMA SaveType ==
    ASSUME TypeOK, NEW k \in Kinds, NEW i \in KeyIds, Save(k, i)
    PROVE  /\ created' \in [Kinds -> [KeyIds -> Nat \cup {None}]]
           /\ gen' \in [Kinds -> [KeyIds -> Nat]]
BY DEF TypeOK, Save

\* So does generating one-time pre-keys.
LEMMA SavePreType ==
    ASSUME TypeOK, NEW S \in SUBSET PreIds, SavePreKeys(S)
    PROVE  pre' \subseteq PreIds /\ preGen' \in [PreIds -> Nat]
BY DEF TypeOK, SavePreKeys

\* The coroutine of a publication changes, what it sent does not.
LEMMA CoType ==
    ASSUME NEW x \in Publications, NEW c \in {"unused", "spawned", "waiting", "done", "failed"}
    PROVE  /\ [x EXCEPT !.co = c] \in Publications
           /\ [x EXCEPT !.co = c].wire = x.wire
           /\ [x EXCEPT !.co = c].bundle = x.bundle
BY DEF Publications

\* Ending the coroutines changes nothing that was sent.
LEMMA KilledType ==
    ASSUME TypeOK, publish' = Killed(publish)
    PROVE  /\ publish' \in [Publishes -> Publications]
           /\ \A p \in Publishes : publish'[p].wire = publish[p].wire
                                  /\ publish'[p].bundle = publish[p].bundle
<1> publish \in [Publishes -> Publications]
  BY DEF TypeOK
<1>1. ASSUME NEW p \in Publishes
      PROVE  /\ publish'[p] \in Publications
             /\ publish'[p].wire = publish[p].wire
             /\ publish'[p].bundle = publish[p].bundle
  <2>1. publish'[p] \in {publish[p], [publish[p] EXCEPT !.co = "failed"]}
    BY DEF Killed
  <2>2. CASE publish'[p] = publish[p]
    BY <2>2
  <2>3. CASE publish'[p] = [publish[p] EXCEPT !.co = "failed"]
    BY <2>3, CoType, ZenonT(30)
  <2> QED
    BY <2>1, <2>2, <2>3
<1>2. publish' = [p \in Publishes |-> publish'[p]]
  BY DEF Killed
<1> QED
  BY <1>1, <1>2

\* Nor does a step of one coroutine that sends nothing.
LEMMA CoStepType ==
    ASSUME TypeOK, NEW p \in Publishes, NEW c \in {"unused", "spawned", "waiting", "done", "failed"},
           publish' = [publish EXCEPT ![p].co = c]
    PROVE  /\ publish' \in [Publishes -> Publications]
           /\ \A r \in Publishes : publish'[r].wire = publish[r].wire
                                  /\ publish'[r].bundle = publish[r].bundle
<1> publish \in [Publishes -> Publications]
  BY DEF TypeOK
<1>1. publish' = [publish EXCEPT ![p] = [publish[p] EXCEPT !.co = c]]
  OBVIOUS
<1>2. ASSUME NEW r \in Publishes
      PROVE  /\ publish'[r] \in Publications
             /\ publish'[r].wire = publish[r].wire
             /\ publish'[r].bundle = publish[r].bundle
  <2>1. CASE r = p
    <3>1. publish'[r] = [publish[p] EXCEPT !.co = c] /\ publish[p] \in Publications
      BY <1>1, <2>1
    <3> QED
      BY <2>1, <3>1, CoType, ZenonT(30)
  <2>2. CASE r # p
    BY <1>1, <2>2
  <2> QED
    BY <2>1, <2>2
<1>3. publish' = [r \in Publishes |-> publish'[r]]
  BY <1>1
<1> QED
  BY <1>2, <1>3

\* The type invariant holds of a fresh database and a relay without a bundle.
LEMMA InitType == Init => TypeInv
<1> SUFFICES ASSUME Init PROVE TypeInv
  OBVIOUS
<1>1. Unused \in Publications
  BY DEF Unused, Publications
<1>2. [st |-> "none", bundle |-> None] \in Messages
  BY DEF Messages
<1>3. publish \in [Publishes -> Publications] /\ peer \in [Peers -> Messages]
  BY <1>1, <1>2 DEF Init
<1>4. TypeOK
  BY <1>3 DEF Init, TypeOK, Kinds, Stages
<1>5. SentHasBundle
  BY DEF Init, SentHasBundle, Unused
<1> QED
  BY <1>4, <1>5 DEF TypeInv

\* The announcement of a publication and its answer keep the types.
LEMMA PublicationTypes ==
    ASSUME TypeInv, NEW p \in Publishes,
           GenerateAndSend(p) \/ RelayStore(p) \/ RelayRefuse(p) \/ PublishAnswered(p)
    PROVE  TypeInv'
<1> publish \in [Publishes -> Publications] /\ publish[p] \in Publications
  BY DEF TypeInv, TypeOK
<1>1. CASE GenerateAndSend(p)
  <2>1. CASE publish' = [publish EXCEPT ![p].co = "failed"]
    BY <1>1, <2>1, CoStepType DEF GenerateAndSend, TypeInv, TypeOK, SentHasBundle, keyVars
  <2>2. CASE /\ pre # {} /\ Stored("signed") # {} /\ Stored("kyber") # {}
             /\ publish' = [publish EXCEPT ![p] =
                   [co |-> "waiting", wire |-> "sent", bundle |-> Bundle, at |-> Secs(now)]]
    <3>1. Bundle \in Bundles /\ Secs(now) \in Nat
      BY <2>2, BundleFact, SecsMonotone DEF TypeInv, TypeOK
    <3>2. [co |-> "waiting", wire |-> "sent", bundle |-> Bundle, at |-> Secs(now)] \in Publications
      BY <3>1 DEF Publications
    <3>3. publish' \in [Publishes -> Publications]
      BY <2>2, <3>2
    <3>4. TypeOK'
      BY <1>1, <3>3 DEF GenerateAndSend, TypeInv, TypeOK, keyVars
    <3>5. SentHasBundle'
      BY <1>1, <2>2, <3>1 DEF GenerateAndSend, TypeInv, SentHasBundle
    <3> QED
      BY <3>4, <3>5 DEF TypeInv
  <2> QED
    BY <1>1, <2>1, <2>2 DEF GenerateAndSend
<1>2. CASE RelayStore(p)
  <2>1. publish[p].bundle \in Bundles /\ publish[p].at \in Nat
    BY <1>2 DEF RelayStore, TypeInv, SentHasBundle, Publications
  <2>2. relay' \in [bundle : Bundles, at : Nat] \cup {None}
    BY <1>2, <2>1 DEF RelayStore, TypeInv, TypeOK
  <2>3. publish' \in [Publishes -> Publications]
    BY <1>2 DEF RelayStore, Publications
  <2>4. TypeOK'
    BY <1>2, <2>2, <2>3 DEF RelayStore, TypeInv, TypeOK, keyVars
  <2>5. SentHasBundle'
    BY <1>2, <2>1 DEF RelayStore, TypeInv, SentHasBundle, Publications
  <2> QED
    BY <2>4, <2>5 DEF TypeInv
<1>3. CASE RelayRefuse(p)
  <2>1. publish' \in [Publishes -> Publications]
    BY <1>3 DEF RelayRefuse, Publications
  <2>2. TypeOK'
    BY <1>3, <2>1 DEF RelayRefuse, TypeInv, TypeOK, keyVars
  <2>3. SentHasBundle'
    BY <1>3 DEF RelayRefuse, TypeInv, SentHasBundle, Publications
  <2> QED
    BY <2>2, <2>3 DEF TypeInv
<1>4. CASE PublishAnswered(p)
  <2>1. publish[p].bundle \in Bundles
    BY <1>4 DEF PublishAnswered, TypeInv, SentHasBundle
  <2>2. metadata' \in Bundles \cup {None}
    BY <1>4, <2>1 DEF PublishAnswered, TypeInv, TypeOK
  <2>3. publish' = [publish EXCEPT ![p].co = "done"]
    BY <1>4 DEF PublishAnswered
  <2> QED
    BY <1>4, <2>2, <2>3, CoStepType DEF PublishAnswered, TypeInv, TypeOK, SentHasBundle, keyVars
<1> QED
  BY <1>1, <1>2, <1>3, <1>4

\* Pre-key messages keep the types.
LEMMA MessageTypes ==
    ASSUME TypeInv, NEW q \in Peers,
           PeerSends(q) \/ ReceivePreKeyMessage(q) \/ RejectPreKeyMessage(q)
    PROVE  TypeInv'
<1> peer \in [Peers -> Messages] /\ peer[q] \in Messages
  BY DEF TypeInv, TypeOK
<1>1. CASE PeerSends(q)
  <2>1. relay.bundle \in Bundles
    BY <1>1 DEF PeerSends, TypeInv, TypeOK
  <2>2. peer' \in [Peers -> Messages]
    BY <1>1, <2>1 DEF PeerSends, Messages
  <2> QED
    BY <1>1, <2>1, <2>2 DEF PeerSends, TypeInv, TypeOK, SentHasBundle, keyVars
<1>2. CASE ReceivePreKeyMessage(q)
  <2>1. peer' \in [Peers -> Messages]
    BY <1>2 DEF ReceivePreKeyMessage, Messages
  <2>2. PICK p \in Publishes : publish' = [publish EXCEPT ![p].co = "spawned"]
    BY <1>2 DEF ReceivePreKeyMessage, Spawn
  <2>3. publish' \in [Publishes -> Publications]
        /\ \A r \in Publishes : publish'[r].wire = publish[r].wire
                             /\ publish'[r].bundle = publish[r].bundle
    BY <2>2, CoStepType DEF TypeInv
  <2>4. TypeOK'
    BY <1>2, <2>1, <2>3 DEF ReceivePreKeyMessage, TypeInv, TypeOK
  <2>5. SentHasBundle'
    BY <1>2, <2>3 DEF ReceivePreKeyMessage, TypeInv, SentHasBundle, Messages
  <2> QED
    BY <2>4, <2>5 DEF TypeInv
<1>3. CASE RejectPreKeyMessage(q)
  <2>1. peer' \in [Peers -> Messages]
    BY <1>3 DEF RejectPreKeyMessage, Messages
  <2>2. TypeOK'
    BY <1>3, <2>1 DEF RejectPreKeyMessage, TypeInv, TypeOK, keyVars
  <2>3. SentHasBundle'
    BY <1>3 DEF RejectPreKeyMessage, TypeInv, SentHasBundle, Messages
  <2> QED
    BY <2>2, <2>3 DEF TypeInv
<1> QED
  BY <1>1, <1>2, <1>3

\* Rotation and cleanup of one kind of key keep the types of the store.
LEMMA RotateType ==
    ASSUME TypeOK, NEW k \in Kinds, Rotate(k)
    PROVE  /\ created' \in [Kinds -> [KeyIds -> Nat \cup {None}]]
           /\ gen' \in [Kinds -> [KeyIds -> Nat]]
           /\ rotated' \in BOOLEAN
<1>1. CASE NeedsRotation(k)
  <2>1. /\ MaxOrZero(Stored(k)) + 1 \in KeyIds
        /\ Save(k, MaxOrZero(Stored(k)) + 1)
        /\ rotated' = TRUE
    BY <1>1 DEF Rotate
  <2> QED
    BY <2>1, SaveType
<1>2. CASE ~NeedsRotation(k)
  BY <1>2 DEF Rotate, TypeOK
<1> QED
  BY <1>1, <1>2

\* Deleting expired keys keeps the types of the store.
LEMMA CleanupType ==
    ASSUME TypeInv, NEW k \in Kinds, NEW next \in Stages, Cleanup(k, next)
    PROVE  TypeInv'
<1>1. created' \in [Kinds -> [KeyIds -> Nat \cup {None}]]
  BY DEF Cleanup, TypeInv, TypeOK
<1>2. pc' \in Stages
  BY DEF Cleanup, Stages
<1>3. CASE publish' = Killed(publish)
  BY <1>1, <1>2, <1>3, KilledType DEF Cleanup, TypeInv, TypeOK, SentHasBundle
<1>4. CASE UNCHANGED publish
  BY <1>1, <1>2, <1>4 DEF Cleanup, TypeInv, TypeOK, SentHasBundle
<1> QED
  BY <1>3, <1>4 DEF Cleanup

\* Replenishing stores ids above every id there is.
LEMMA NextPreIdsFact ==
    ASSUME TypeOK
    PROVE  \A i \in NextPreIds, j \in pre : j < i
<1>1. CASE pre = {}
  BY <1>1
<1>2. CASE pre # {}
  <2>1. MaxId(pre) \in pre /\ \A j \in pre : j <= MaxId(pre)
    BY <1>2, MaxIdFact DEF TypeOK, PreIds
  <2>2. pre \subseteq Nat
    BY DEF TypeOK, PreIds
  <2>3. NextPreIds = (MaxId(pre) + 1) .. (MaxId(pre) + 1 + REPLENISH_COUNT - 1)
    BY <1>2 DEF NextPreIds, MaxOrZero
  <2>4. \A i \in NextPreIds : MaxId(pre) + 1 <= i /\ i \in Int
    BY <2>1, <2>2, <2>3
  <2>5. SUFFICES ASSUME NEW i \in NextPreIds, NEW j \in pre PROVE j < i
    OBVIOUS
  <2>6. j \in Nat /\ MaxId(pre) \in Nat /\ i \in Int /\ j <= MaxId(pre) /\ MaxId(pre) + 1 <= i
    BY <2>1, <2>2, <2>4
  <2> QED
    BY <2>6
<1> QED
  BY <1>1, <1>2

\* replenish_pre_keys keeps the types, ids within the bound included.
LEMMA ReplenishType ==
    ASSUME TypeInv, Replenish
    PROVE  TypeInv'
<1>1. pre' \subseteq PreIds /\ preGen' \in [PreIds -> Nat]
  <2>1. PICK done \in SUBSET PreIds : SavePreKeys(done)
    BY DEF Replenish, Prefixes
  <2> QED
    BY <2>1, SavePreType DEF TypeInv
<1>2. pc' \in Stages
  BY DEF Replenish, Stages
<1>3. /\ publish' \in [Publishes -> Publications]
      /\ \A r \in Publishes : publish'[r].wire = publish[r].wire
                           /\ publish'[r].bundle = publish[r].bundle
  <2>1. \/ publish' = Killed(publish)
        \/ UNCHANGED publish
        \/ \E p \in Publishes : publish' = [publish EXCEPT ![p].co = "spawned"]
    BY DEF Replenish, Spawn
  <2>2. CASE publish' = Killed(publish)
    BY <2>2, KilledType DEF TypeInv
  <2>3. CASE UNCHANGED publish
    BY <2>3 DEF TypeInv, TypeOK
  <2>4. ASSUME NEW p \in Publishes, publish' = [publish EXCEPT ![p].co = "spawned"]
        PROVE  /\ publish' \in [Publishes -> Publications]
               /\ \A r \in Publishes : publish'[r].wire = publish[r].wire
                                    /\ publish'[r].bundle = publish[r].bundle
    BY <2>4, CoStepType DEF TypeInv
  <2> QED
    BY <2>1, <2>2, <2>3, <2>4
<1>4. TypeOK'
  BY <1>1, <1>2, <1>3 DEF Replenish, TypeInv, TypeOK
<1>5. SentHasBundle'
  BY <1>3 DEF Replenish, TypeInv, SentHasBundle
<1> QED
  BY <1>4, <1>5 DEF TypeInv

\* Every step of the node, the relay and the peers keeps the types.
LEMMA NextType == TypeInv /\ [Next]_vars => TypeInv'
<1> SUFFICES ASSUME TypeInv, [Next]_vars PROVE TypeInv'
  OBVIOUS
<1> USE DEF keyVars, outside
<1>1. CASE Start
  BY <1>1 DEF Start, TypeInv, TypeOK, SentHasBundle, Stages
<1>2. CASE EnsureIdentity
  BY <1>2 DEF EnsureIdentity, TypeInv, TypeOK, SentHasBundle, Stages
<1>3. CASE SetRegistrationId
  BY <1>3 DEF SetRegistrationId, TypeInv, TypeOK, SentHasBundle, Stages
<1>4. CASE EnsurePreKeys
  <2>1. PICK done \in SUBSET PreIds : SavePreKeys(done)
    BY <1>4 DEF EnsurePreKeys, Prefixes, PreIds
  <2>2. pre' \subseteq PreIds /\ preGen' \in [PreIds -> Nat]
    BY <2>1, SavePreType DEF TypeInv
  <2> QED
    BY <1>4, <2>2 DEF EnsurePreKeys, TypeInv, TypeOK, SentHasBundle, Stages
<1>5. CASE EnsureSigned
  <2>1. /\ created' \in [Kinds -> [KeyIds -> Nat \cup {None}]]
        /\ gen' \in [Kinds -> [KeyIds -> Nat]]
    <3>1. 1 \in KeyIds /\ "signed" \in Kinds
      BY DEF KeyIds, Kinds
    <3>2. CASE Save("signed", 1)
      BY <3>1, <3>2, SaveType DEF TypeInv
    <3>3. CASE UNCHANGED <<created, gen>>
      BY <3>3 DEF TypeInv, TypeOK
    <3> QED
      BY <1>5, <3>2, <3>3 DEF EnsureSigned
  <2> QED
    BY <1>5, <2>1 DEF EnsureSigned, TypeInv, TypeOK, SentHasBundle, Stages
<1>6. CASE EnsureKyber
  <2>1. /\ created' \in [Kinds -> [KeyIds -> Nat \cup {None}]]
        /\ gen' \in [Kinds -> [KeyIds -> Nat]]
    <3>1. 1 \in KeyIds /\ "kyber" \in Kinds
      BY DEF KeyIds, Kinds
    <3>2. CASE Save("kyber", 1)
      BY <3>1, <3>2, SaveType DEF TypeInv
    <3>3. CASE UNCHANGED <<created, gen>>
      BY <3>3 DEF TypeInv, TypeOK
    <3> QED
      BY <1>6, <3>2, <3>3 DEF EnsureKyber
  <2> QED
    BY <1>6, <2>1 DEF EnsureKyber, TypeInv, TypeOK, SentHasBundle, Stages
<1>7. CASE Connected
  BY <1>7 DEF Connected, TypeInv, TypeOK, SentHasBundle, Stages
<1>8. CASE RotateSigned
  BY <1>8, RotateType DEF RotateSigned, TypeInv, TypeOK, SentHasBundle, Stages, Kinds
<1>9. CASE RotateKyber
  BY <1>9, RotateType DEF RotateKyber, TypeInv, TypeOK, SentHasBundle, Stages, Kinds
<1>10. CASE CleanupSigned
  BY <1>10, CleanupType DEF CleanupSigned, Stages, Kinds
<1>11. CASE CleanupKyber
  BY <1>11, CleanupType DEF CleanupKyber, Stages, Kinds
<1>12. CASE Replenish
  BY <1>12, ReplenishType
<1>13. ASSUME NEW p \in Publishes, PublishIdentity(p) \/ PublishTimeout(p)
       PROVE  TypeInv'
  <2>1. PICK c \in {"spawned", "failed"} : publish' = [publish EXCEPT ![p].co = c]
    BY <1>13 DEF PublishIdentity, PublishTimeout, Spawn
  <2> QED
    BY <1>13, <2>1, CoStepType
       DEF PublishIdentity, PublishTimeout, TypeInv, TypeOK, SentHasBundle
<1>14. CASE Tick
  <2>1. now' \in Nat
    BY <1>14 DEF Tick, TypeInv, TypeOK
  <2>2. UNCHANGED <<starts, pc, rotated, identity, keyVars, outside>>
    BY <1>14, Zenon DEF Tick
  <2>3. TypeOK'
    BY <2>1, <2>2 DEF keyVars, outside, TypeInv, TypeOK
  <2>4. SentHasBundle'
    BY <2>2 DEF outside, TypeInv, SentHasBundle
  <2> QED
    BY <2>3, <2>4 DEF TypeInv
<1>15. CASE Crash
  BY <1>15, KilledType DEF Crash, TypeInv, TypeOK, SentHasBundle, Stages
<1>16. CASE UNCHANGED vars
  BY <1>16 DEF vars, TypeInv, TypeOK, SentHasBundle
<1> QED
  BY <1>1, <1>2, <1>3, <1>4, <1>5, <1>6, <1>7, <1>8, <1>9, <1>10, <1>11, <1>12, <1>13,
     <1>14, <1>15, <1>16, PublicationTypes, MessageTypes DEF Next

-----------------------------------------------------------------------------
(* Signed and Kyber pre-keys.                                              *)

\* The highest id of a store that is not empty.
LEMMA MaxStored ==
    ASSUME NEW k \in Kinds, Stored(k) # {}
    PROVE  /\ MaxId(Stored(k)) \in Stored(k)
           /\ \A i \in Stored(k) : i <= MaxId(Stored(k))
<1>1. Stored(k) \in SUBSET (1 .. MaxKeyId)
  BY DEF Stored, KeyIds
<1> QED
  BY <1>1, MaxIdFact

\* The current key of every kind is still stored after a step.
MaxKept == \A k \in Kinds : Stored(k) # {} => MaxId(Stored(k)) \in Stored(k)'

\* A key saved under an id above every id stored keeps the invariant.
LEMMA SaveKeeps ==
    ASSUME TypeOK, KeyInv, now' = now,
           NEW k \in Kinds, NEW i \in KeyIds, Save(k, i), \A j \in Stored(k) : j < i
    PROVE  KeyInv' /\ MaxKept
<1> /\ created \in [Kinds -> [KeyIds -> Nat \cup {None}]]
    /\ gen \in [Kinds -> [KeyIds -> Nat]]
    /\ now \in Nat
  BY DEF TypeOK
<1>1. /\ created' = [created EXCEPT ![k] = [created[k] EXCEPT ![i] = now]]
      /\ gen' = [gen EXCEPT ![k] = [gen[k] EXCEPT ![i] = gen[k][i] + 1]]
  BY DEF Save
<1>2. \A m \in Kinds : Stored(m)' = IF m = k THEN Stored(k) \cup {i} ELSE Stored(m)
  BY <1>1 DEF Stored
<1>3. gen[k][i] = 0
  BY DEF KeyInv, UsedIds, Stored, KeyIds
<1>4. UsedIds'
  <2> SUFFICES ASSUME NEW m \in Kinds, NEW j \in KeyIds
               PROVE  /\ gen'[m][j] <= 1
                      /\ gen'[m][j] # 0 => \E l \in Stored(m)' : j <= l
    BY DEF UsedIds
  <2>1. CASE m = k /\ j = i
    <3>1. gen'[k][i] = 1
      BY <1>1, <1>3
    <3>2. i \in Stored(k)' /\ i <= i
      BY <1>2 DEF KeyIds
    <3> QED
      BY <2>1, <3>1, <3>2
  <2>2. CASE ~(m = k /\ j = i)
    <3>1. gen'[m][j] = gen[m][j] /\ Stored(m) \subseteq Stored(m)'
      BY <1>1, <1>2, <2>2
    <3> QED
      BY <3>1 DEF KeyInv, UsedIds
  <2> QED
    BY <2>1, <2>2
<1>5. CreatedInOrder'
  <2> SUFFICES ASSUME NEW m \in Kinds, NEW j \in Stored(m)', NEW l \in Stored(m)'
               PROVE  /\ created'[m][j] <= now
                      /\ j <= l => created'[m][j] <= created'[m][l]
    BY DEF CreatedInOrder
  <2>1. CASE m # k
    BY <1>1, <1>2, <2>1 DEF KeyInv, CreatedInOrder
  <2>2. CASE m = k
    <3>1. \A x \in Stored(k) : x # i /\ created'[k][x] = created[k][x] /\ created[k][x] <= now
      <4> SUFFICES ASSUME NEW x \in Stored(k)
                   PROVE  x # i /\ created'[k][x] = created[k][x] /\ created[k][x] <= now
        OBVIOUS
      <4>1. x \in KeyIds /\ x < i
        BY DEF Stored
      <4>2. x # i
        BY <4>1 DEF KeyIds
      <4> QED
        BY <1>1, <4>1, <4>2 DEF KeyInv, CreatedInOrder
    <3>2. created'[k][i] = now
      BY <1>1
    <3>3. ASSUME NEW x \in Stored(k) PROVE ~(i <= x)
      <4>1. x \in Int /\ i \in Int /\ x < i
        BY DEF Stored, KeyIds
      <4> QED
        BY <4>1
    <3>4. CASE j = i
      BY <1>2, <2>2, <3>2, <3>3, <3>4
    <3>5. CASE j # i /\ l = i
      BY <1>2, <2>2, <3>1, <3>2, <3>5
    <3>6. CASE j # i /\ l # i
      BY <1>2, <2>2, <3>1, <3>6 DEF KeyInv, CreatedInOrder
    <3> QED
      BY <3>4, <3>5, <3>6
  <2> QED
    BY <2>1, <2>2
<1>6. MaxKept
  BY <1>2, MaxStored DEF MaxKept
<1> QED
  BY <1>4, <1>5, <1>6 DEF KeyInv

\* Cleanup spares the current key: when some key is not expired the current
\* one, the youngest, is not; when all are, the loop stops before it.
LEMMA CurrentNotDoomed ==
    ASSUME TypeOK, KeyInv, NEW k \in Kinds, Stored(k) # {}
    PROVE  MaxId(Stored(k)) \notin Doomed(k)
<1> DEFINE m == MaxId(Stored(k))
<1>0. m \in Stored(k) /\ \A i \in Stored(k) : i <= m
  BY MaxStored
<1>1. CASE Expired(k) = Stored(k)
  BY <1>1 DEF Doomed, MaxOrZero
<1>2. CASE Expired(k) # Stored(k)
  <2>1. PICK i \in Stored(k) : ~(Secs(created[k][i]) + GRACE_PERIOD_SECS < Secs(now))
    BY <1>2 DEF Expired
  <2>2. created[k][i] \in Nat /\ created[k][m] \in Nat /\ now \in Nat
    BY <1>0 DEF TypeOK, Stored
  <2>3. created[k][i] <= created[k][m]
    BY <1>0 DEF KeyInv, CreatedInOrder
  <2>4. Secs(created[k][i]) <= Secs(created[k][m])
    BY <2>2, <2>3, SecsMonotone
  <2>5. Secs(created[k][i]) \in Nat /\ Secs(created[k][m]) \in Nat /\ Secs(now) \in Nat
    BY <2>2, SecsMonotone
  <2>6. m \notin Expired(k)
    BY <2>1, <2>4, <2>5 DEF Expired
  <2> QED
    BY <1>2, <2>6 DEF Doomed
<1> QED
  BY <1>1, <1>2

\* cleanup_expired_* keeps the key invariant and spares the current key.
LEMMA CleanupKeeps ==
    ASSUME TypeOK, KeyInv, NEW k \in Kinds, NEW next, Cleanup(k, next)
    PROVE  KeyInv' /\ MaxKept
<1> /\ created \in [Kinds -> [KeyIds -> Nat \cup {None}]]
    /\ gen \in [Kinds -> [KeyIds -> Nat]]
    /\ now \in Nat
  BY DEF TypeOK
<1>1. PICK done \in SUBSET Doomed(k) :
         created' = [created EXCEPT ![k] = [i \in KeyIds |->
                        IF i \in done THEN None ELSE created[k][i]]]
  BY DEF Cleanup, Prefixes
<1>2. now' = now /\ gen' = gen
  BY DEF Cleanup
<1>3. \A m \in Kinds : Stored(m)' = IF m = k THEN Stored(k) \ done ELSE Stored(m)
  BY <1>1 DEF Stored
<1>4. MaxKept
  BY <1>3, MaxStored, CurrentNotDoomed DEF MaxKept
<1>5. \A m \in Kinds : \A i \in Stored(m) : \E j \in Stored(m)' : i <= j
  BY <1>4, MaxStored DEF MaxKept
<1>6. UsedIds'
  <2> SUFFICES ASSUME NEW m \in Kinds, NEW i \in KeyIds
               PROVE  /\ gen[m][i] <= 1
                      /\ gen[m][i] # 0 => \E j \in Stored(m)' : i <= j
    BY <1>2 DEF UsedIds
  <2>1. gen[m][i] <= 1
    BY DEF KeyInv, UsedIds
  <2>2. ASSUME gen[m][i] # 0 PROVE \E j \in Stored(m)' : i <= j
    <3>1. PICK j \in Stored(m) : i <= j
      BY <2>2 DEF KeyInv, UsedIds
    <3>2. PICK l \in Stored(m)' : j <= l
      BY <1>5, <3>1
    <3>3. i \in Int /\ j \in Int /\ l \in Int
      BY <1>3 DEF KeyIds, Stored
    <3> QED
      BY <3>1, <3>2, <3>3
  <2> QED
    BY <2>1, <2>2
<1>7. CreatedInOrder'
  <2>1. \A m \in Kinds : \A i \in Stored(m)' : i \in Stored(m) /\ created'[m][i] = created[m][i]
    BY <1>1, <1>3 DEF Stored
  <2> QED
    BY <1>2, <2>1 DEF KeyInv, CreatedInOrder
<1> QED
  BY <1>4, <1>6, <1>7 DEF KeyInv

\* Rotation stores the new key above the highest id.
LEMMA RotateKeeps ==
    ASSUME TypeOK, KeyInv, now' = now, NEW k \in Kinds, Rotate(k)
    PROVE  KeyInv' /\ MaxKept
<1>1. CASE NeedsRotation(k)
  <2>1. /\ MaxOrZero(Stored(k)) + 1 \in KeyIds
        /\ Save(k, MaxOrZero(Stored(k)) + 1)
    BY <1>1 DEF Rotate
  <2>2. ASSUME NEW j \in Stored(k) PROVE j < MaxOrZero(Stored(k)) + 1
    <3>1. j <= MaxId(Stored(k)) /\ MaxId(Stored(k)) \in Stored(k)
      BY MaxStored
    <3>2. j \in Int /\ MaxId(Stored(k)) \in Int /\ MaxOrZero(Stored(k)) = MaxId(Stored(k))
      BY <3>1 DEF Stored, KeyIds, MaxOrZero
    <3> QED
      BY <3>1, <3>2
  <2> QED
    BY <2>1, <2>2, SaveKeeps
<1>2. CASE ~NeedsRotation(k)
  <2>1. UNCHANGED <<created, gen>>
    BY <1>2 DEF Rotate
  <2> QED
    BY <2>1, MaxStored DEF KeyInv, UsedIds, CreatedInOrder, Stored, MaxKept
<1> QED
  BY <1>1, <1>2

\* The key invariant holds initially: no key has been generated.
LEMMA InitKey == Init => KeyInv
BY DEF Init, KeyInv, UsedIds, CreatedInOrder, Stored

\* Every step keeps the key invariant and the current key of each kind.
LEMMA NextKey == TypeInv /\ KeyInv /\ [Next]_vars => KeyInv' /\ MaxKept
<1> SUFFICES ASSUME TypeInv, KeyInv, [Next]_vars PROVE KeyInv' /\ MaxKept
  OBVIOUS
<1> TypeOK
  BY DEF TypeInv
<1>1. CASE EnsureSigned
  <2>1. CASE Stored("signed") = {}
    <3>1. Save("signed", 1) /\ now' = now
      BY <1>1, <2>1 DEF EnsureSigned
    <3>2. "signed" \in Kinds /\ 1 \in KeyIds
      BY DEF Kinds, KeyIds
    <3> QED
      BY <2>1, <3>1, <3>2, SaveKeeps
  <2>2. CASE UNCHANGED <<created, gen, now>>
    BY <2>2, MaxStored DEF KeyInv, UsedIds, CreatedInOrder, Stored, MaxKept
  <2> QED
    BY <1>1, <2>1, <2>2 DEF EnsureSigned
<1>2. CASE EnsureKyber
  <2>1. CASE Stored("kyber") = {}
    <3>1. Save("kyber", 1) /\ now' = now
      BY <1>2, <2>1 DEF EnsureKyber
    <3>2. "kyber" \in Kinds /\ 1 \in KeyIds
      BY DEF Kinds, KeyIds
    <3> QED
      BY <2>1, <3>1, <3>2, SaveKeeps
  <2>2. CASE UNCHANGED <<created, gen, now>>
    BY <2>2, MaxStored DEF KeyInv, UsedIds, CreatedInOrder, Stored, MaxKept
  <2> QED
    BY <1>2, <2>1, <2>2 DEF EnsureKyber
<1>3. CASE RotateSigned
  BY <1>3, RotateKeeps DEF RotateSigned, Kinds
<1>4. CASE RotateKyber
  BY <1>4, RotateKeeps DEF RotateKyber, Kinds
<1>5. CASE CleanupSigned
  BY <1>5, CleanupKeeps DEF CleanupSigned, Kinds
<1>6. CASE CleanupKyber
  BY <1>6, CleanupKeeps DEF CleanupKyber, Kinds
<1>7. CASE Tick
  <2>1. UNCHANGED <<created, gen>> /\ now \in Nat /\ now' = now + 1
    BY <1>7 DEF Tick, keyVars, TypeOK
  <2>2. UsedIds' /\ MaxKept
    BY <2>1, MaxStored DEF KeyInv, UsedIds, Stored, MaxKept
  <2>3. \A k \in Kinds : \A i \in Stored(k) : created[k][i] \in Nat
    BY DEF Stored, TypeOK
  <2>4. CreatedInOrder'
    BY <2>1, <2>3 DEF KeyInv, CreatedInOrder, Stored
  <2> QED
    BY <2>2, <2>4 DEF KeyInv
<1>8. CASE UNCHANGED <<created, gen, now>>
  BY <1>8, MaxStored DEF KeyInv, UsedIds, CreatedInOrder, Stored, MaxKept
<1>9. \/ UNCHANGED <<created, gen, now>>
      \/ EnsureSigned \/ EnsureKyber \/ RotateSigned \/ RotateKyber
      \/ CleanupSigned \/ CleanupKyber \/ Tick
  BY DEF Next, vars, keyVars, Start, EnsureIdentity, SetRegistrationId, EnsurePreKeys,
     Connected, Replenish, PublishIdentity, GenerateAndSend, RelayStore, RelayRefuse,
     PublishAnswered, PublishTimeout, PeerSends, ReceivePreKeyMessage,
     RejectPreKeyMessage, Crash
<1> QED
  BY <1>1, <1>2, <1>3, <1>4, <1>5, <1>6, <1>7, <1>8, <1>9

\* A signed or Kyber pre-key id names one key for ever (rotation takes the id
\* after the highest, restarts and crashes included).
THEOREM UsedOnce == Spec => [](TypeOK /\ KeyIdsUsedOnce)
<1>1. TypeInv /\ KeyInv => TypeOK /\ KeyIdsUsedOnce
  BY DEF TypeInv, KeyInv, UsedIds, KeyIdsUsedOnce
<1> QED
  BY <1>1, InitType, NextType, InitKey, NextKey, PTL DEF Spec

\* The current signed and Kyber pre-key, which bundles name, is never deleted.
THEOREM KeepsCurrent == Spec => CurrentKeyKept
<1>1. TypeInv /\ KeyInv /\ [Next]_vars => KeepsCurrentKey
  <2> SUFFICES ASSUME TypeInv, KeyInv, [Next]_vars, NEW k \in Kinds, Stored(k) # {}
               PROVE  Stored(k)' # {} /\ MaxId(Stored(k)) <= MaxId(Stored(k)')
    BY DEF KeepsCurrentKey
  <2>1. MaxId(Stored(k)) \in Stored(k)'
    BY NextKey DEF MaxKept
  <2>2. Stored(k)' \in SUBSET (1 .. MaxKeyId)
    BY DEF Stored, KeyIds
  <2> QED
    BY <2>1, <2>2, MaxIdFact
<1> QED
  BY <1>1, InitType, NextType, InitKey, NextKey, PTL DEF Spec, CurrentKeyKept

-----------------------------------------------------------------------------
(* One-time pre-keys.                                                      *)

\* Bundles and messages stay no newer than the store while keys are generated,
\* and a used key does not come back: generating it again makes it a new key.
LEMMA SavePreKeeps ==
    ASSUME TypeInv, PreInv, NEW S \in SUBSET PreIds, SavePreKeys(S),
           UNCHANGED <<relay, peer>>,
           \A p \in Publishes : publish'[p].wire = publish[p].wire
                             /\ publish'[p].bundle = publish[p].bundle
    PROVE  PreInv'
<1> preGen \in [PreIds -> Nat]
  BY DEF TypeInv, TypeOK
<1>1. /\ pre' = pre \cup S
      /\ \A i \in PreIds : preGen'[i] = IF i \in S THEN preGen[i] + 1 ELSE preGen[i]
  BY DEF SavePreKeys
<1>2. ASSUME NEW b \in Bundles, NotNewer(b)
      PROVE  /\ b.preGen <= preGen'[b.pre]
             /\ ~(b.pre \in pre /\ preGen[b.pre] = b.preGen)
                => ~(b.pre \in pre' /\ preGen'[b.pre] = b.preGen)
  <2>1. b.pre \in PreIds /\ b.preGen \in Nat /\ preGen[b.pre] \in Nat
    BY DEF Bundles
  <2>2. CASE b.pre \in S
    BY <1>1, <1>2, <2>1, <2>2 DEF NotNewer
  <2>3. CASE b.pre \notin S
    BY <1>1, <1>2, <2>1, <2>3 DEF NotNewer
  <2> QED
    BY <2>2, <2>3
<1>3. ASSUME NEW p \in Publishes, publish[p].wire # "none"
      PROVE  publish[p].bundle.preGen <= preGen'[publish[p].bundle.pre]
  BY <1>2, <1>3 DEF TypeInv, SentHasBundle, PreInv, UsedNotStored
<1>4. relay # None => relay.bundle.preGen <= preGen'[relay.bundle.pre]
  <2>1. relay # None => relay.bundle \in Bundles
    BY DEF TypeInv, TypeOK
  <2> QED
    BY <1>2, <2>1 DEF PreInv, UsedNotStored
<1>5. ASSUME NEW q \in Peers, peer[q].st # "none"
      PROVE  /\ peer[q].bundle.preGen <= preGen'[peer[q].bundle.pre]
             /\ peer[q].st = "received" =>
                  ~(peer[q].bundle.pre \in pre' /\ preGen'[peer[q].bundle.pre] = peer[q].bundle.preGen)
  BY <1>2, <1>5 DEF TypeInv, SentHasBundle, PreInv, UsedNotStored
<1>6. UsedNotStored'
  BY <1>3, <1>4, <1>5 DEF UsedNotStored, NotNewer
<1> QED
  BY <1>6 DEF PreInv, PreKeyUsedOnce

\* A step that only moves the coroutines of publications keeps what was sent.
LEMMA SentUnchanged ==
    ASSUME TypeOK,
           \/ publish' = Killed(publish)
           \/ UNCHANGED publish
           \/ \E p \in Publishes, c \in {"spawned", "done", "failed"} :
                 publish' = [publish EXCEPT ![p].co = c]
    PROVE  \A r \in Publishes : publish'[r].wire = publish[r].wire
                             /\ publish'[r].bundle = publish[r].bundle
<1>1. CASE publish' = Killed(publish)
  BY <1>1, KilledType
<1>2. CASE UNCHANGED publish
  BY <1>2
<1>3. ASSUME NEW p \in Publishes, NEW c \in {"spawned", "done", "failed"},
             publish' = [publish EXCEPT ![p].co = c]
      PROVE  \A r \in Publishes : publish'[r].wire = publish[r].wire
                               /\ publish'[r].bundle = publish[r].bundle
  BY <1>3, CoStepType
<1> QED
  BY <1>1, <1>2, <1>3

\* The invariant of one-time pre-keys holds initially.
LEMMA InitPre == Init => PreInv
<1> SUFFICES ASSUME Init PROVE PreInv
  OBVIOUS
<1>1. \A p \in Publishes : publish[p].wire = "none"
  BY DEF Init, Unused
<1>2. relay = None /\ \A q \in Peers : peer[q].st = "none"
  BY DEF Init
<1>3. UsedNotStored
  BY <1>1, <1>2 DEF UsedNotStored
<1>4. PreKeyUsedOnce
  BY <1>2 DEF PreKeyUsedOnce
<1> QED
  BY <1>3, <1>4 DEF PreInv

\* Every step keeps the invariant of one-time pre-keys.
LEMMA NextPre == TypeInv /\ PreInv /\ [Next]_vars => PreInv'
<1> SUFFICES ASSUME TypeInv, PreInv, [Next]_vars PROVE PreInv'
  OBVIOUS
<1> TypeOK /\ publish \in [Publishes -> Publications] /\ peer \in [Peers -> Messages]
  BY DEF TypeInv, TypeOK
<1>1. CASE EnsurePreKeys
  <2>1. PICK done \in SUBSET PreIds : SavePreKeys(done)
    BY <1>1 DEF EnsurePreKeys, Prefixes, PreIds
  <2> QED
    BY <1>1, <2>1, SavePreKeeps DEF EnsurePreKeys, outside
<1>2. CASE Replenish
  <2>1. PICK done \in SUBSET PreIds : SavePreKeys(done)
    BY <1>2 DEF Replenish, Prefixes
  <2>2. \/ publish' = Killed(publish)
        \/ UNCHANGED publish
        \/ \E p \in Publishes : publish' = [publish EXCEPT ![p].co = "spawned"]
    BY <1>2 DEF Replenish, Spawn
  <2>3. \A p \in Publishes : publish'[p].wire = publish[p].wire
                          /\ publish'[p].bundle = publish[p].bundle
    BY <2>2, SentUnchanged
  <2> QED
    BY <1>2, <2>1, <2>3, SavePreKeeps DEF Replenish
<1>3. ASSUME NEW p \in Publishes, GenerateAndSend(p)
      PROVE  PreInv'
  <2>1. CASE publish' = [publish EXCEPT ![p].co = "failed"]
    BY <1>3, <2>1, CoStepType
       DEF GenerateAndSend, keyVars, PreInv, UsedNotStored, NotNewer, PreKeyUsedOnce
  <2>2. CASE /\ pre # {} /\ Stored("signed") # {} /\ Stored("kyber") # {}
             /\ publish' = [publish EXCEPT ![p] =
                   [co |-> "waiting", wire |-> "sent", bundle |-> Bundle, at |-> Secs(now)]]
    <3>1. Bundle \in Bundles /\ Bundle.preGen = preGen[Bundle.pre]
      BY <2>2, BundleFact
    <3>2. Bundle.preGen <= preGen[Bundle.pre]
      BY <3>1 DEF Bundles
    <3> QED
      BY <1>3, <2>2, <3>2 DEF GenerateAndSend, keyVars, PreInv, UsedNotStored, NotNewer, PreKeyUsedOnce
  <2> QED
    BY <1>3, <2>1, <2>2 DEF GenerateAndSend
<1>4. ASSUME NEW p \in Publishes, RelayStore(p) \/ RelayRefuse(p)
      PROVE  PreInv'
  <2>1. /\ publish[p].wire # "none"
        /\ \A r \in Publishes : publish'[r].bundle = publish[r].bundle
                             /\ (publish'[r].wire # "none" => publish[r].wire # "none")
    BY <1>4 DEF RelayStore, RelayRefuse, Publications
  <2>2. relay' = relay \/ relay'.bundle = publish[p].bundle
    BY <1>4 DEF RelayStore, RelayRefuse
  <2>3. UNCHANGED <<pre, preGen, peer>>
    BY <1>4 DEF RelayStore, RelayRefuse, keyVars
  <2> QED
    BY <2>1, <2>2, <2>3 DEF PreInv, UsedNotStored, NotNewer, PreKeyUsedOnce
<1>5. ASSUME NEW q \in Peers, PeerSends(q)
      PROVE  PreInv'
  BY <1>5 DEF PeerSends, keyVars, PreInv, UsedNotStored, NotNewer, PreKeyUsedOnce, Messages
<1>6. ASSUME NEW q \in Peers, RejectPreKeyMessage(q)
      PROVE  PreInv'
  BY <1>6 DEF RejectPreKeyMessage, keyVars, PreInv, UsedNotStored, NotNewer, PreKeyUsedOnce, Messages
<1>7. ASSUME NEW q \in Peers, ReceivePreKeyMessage(q)
      PROVE  PreInv'
  <2>1. PICK p \in Publishes : publish' = [publish EXCEPT ![p].co = "spawned"]
    BY <1>7 DEF ReceivePreKeyMessage, Spawn
  <2>2. \A r \in Publishes : publish'[r].wire = publish[r].wire
                          /\ publish'[r].bundle = publish[r].bundle
    BY <2>1, CoStepType
  <2>3. /\ pre' = pre \ {peer[q].bundle.pre}
        /\ UNCHANGED <<preGen, relay>>
        /\ \A r \in Peers : peer'[r].bundle = peer[r].bundle
        /\ \A r \in Peers : peer'[r].st = IF r = q THEN "received" ELSE peer[r].st
    BY <1>7 DEF ReceivePreKeyMessage, Messages
  <2>4. UsedNotStored'
    <3>1. ASSUME NEW r \in Publishes, publish'[r].wire # "none"
          PROVE  publish'[r].bundle.preGen <= preGen'[publish'[r].bundle.pre]
      BY <2>2, <2>3, <3>1 DEF PreInv, UsedNotStored, NotNewer
    <3>2. relay' # None => relay'.bundle.preGen <= preGen'[relay'.bundle.pre]
      BY <2>3 DEF PreInv, UsedNotStored, NotNewer
    <3>3. ASSUME NEW r \in Peers, peer'[r].st # "none"
          PROVE  peer'[r].bundle.preGen <= preGen'[peer'[r].bundle.pre]
      <4>1. peer[r].st # "none"
        BY <1>7, <2>3, <3>3 DEF ReceivePreKeyMessage
      <4> QED
        BY <2>3, <4>1 DEF PreInv, UsedNotStored, NotNewer
    <3>4. ASSUME NEW r \in Peers, peer'[r].st = "received"
          PROVE  ~(peer'[r].bundle.pre \in pre' /\ preGen'[peer'[r].bundle.pre] = peer'[r].bundle.preGen)
      <4>1. CASE r = q
        BY <2>3, <4>1
      <4>2. CASE r # q
        <5>1. peer[r].st = "received"
          BY <2>3, <3>4, <4>2
        <5> QED
          BY <2>3, <5>1 DEF PreInv, UsedNotStored
      <4> QED
        BY <4>1, <4>2
    <3> QED
      BY <3>1, <3>2, <3>3, <3>4 DEF UsedNotStored, NotNewer
  <2>5. PreKeyUsedOnce'
    BY <1>7, <2>3 DEF PreInv, UsedNotStored, PreKeyUsedOnce, ReceivePreKeyMessage, Decryptable
  <2> QED
    BY <2>4, <2>5 DEF PreInv
<1>8. CASE /\ UNCHANGED <<pre, preGen, relay, peer>>
           /\ \/ publish' = Killed(publish)
              \/ UNCHANGED publish
              \/ \E p \in Publishes, c \in {"spawned", "done", "failed"} :
                    publish' = [publish EXCEPT ![p].co = c]
  <2>1. \A r \in Publishes : publish'[r].wire = publish[r].wire
                          /\ publish'[r].bundle = publish[r].bundle
    BY <1>8, SentUnchanged
  <2> QED
    BY <1>8, <2>1 DEF PreInv, UsedNotStored, NotNewer, PreKeyUsedOnce
<1> QED
  BY <1>1, <1>2, <1>3, <1>4, <1>5, <1>6, <1>7, <1>8 DEF Next, vars, keyVars, outside,
     Start, EnsureIdentity, SetRegistrationId, EnsureSigned, EnsureKyber, Connected,
     RotateSigned, RotateKyber, CleanupSigned, CleanupKyber, Cleanup, PublishIdentity,
     PublishAnswered, PublishTimeout, Spawn, Tick, Crash

\* A one-time pre-key opens at most one session, for any number of peers,
\* publications, restarts and crashes.
THEOREM OneSession == Spec => []PreKeyUsedOnce
<1>1. PreInv => PreKeyUsedOnce
  BY DEF PreInv
<1> QED
  BY <1>1, InitType, NextType, InitPre, NextPre, PTL DEF Spec

\* Only the message that uses a one-time pre-key removes it, and only a start
\* that finds too few of them writes over one.
THEOREM KeepsUnused == Spec => PreKeyKept
<1>1. TypeInv /\ [Next]_vars => KeepsPreKeys
  <2> SUFFICES ASSUME TypeInv, [Next]_vars, NEW i \in pre
               PROVE  \/ i \in pre' /\ preGen'[i] = preGen[i]
                      \/ pc = "idle" /\ pre' = pre \ {i}
                      \/ pc = "ensure_pre" /\ Cardinality(pre) < ENSURE_MIN
    BY DEF KeepsPreKeys
  <2> i \in PreIds
    BY DEF TypeInv, TypeOK
  <2>1. CASE EnsurePreKeys
    <3>1. CASE Cardinality(pre) < ENSURE_MIN
      BY <2>1, <3>1 DEF EnsurePreKeys
    <3>2. CASE ~(Cardinality(pre) < ENSURE_MIN)
      BY <2>1, <3>2 DEF EnsurePreKeys, Prefixes, SavePreKeys
    <3> QED
      BY <3>1, <3>2
  <2>2. CASE Replenish
    <3>1. PICK done \in SUBSET NextPreIds : SavePreKeys(done)
      BY <2>2 DEF Replenish, Prefixes
    <3>2. i \notin NextPreIds
      <4>1. i \in NextPreIds => i < i
        BY NextPreIdsFact DEF TypeInv
      <4> QED
        BY <4>1 DEF PreIds
    <3> QED
      BY <3>1, <3>2 DEF SavePreKeys
  <2>3. ASSUME NEW q \in Peers, ReceivePreKeyMessage(q)
        PROVE  \/ i \in pre' /\ preGen'[i] = preGen[i]
               \/ pc = "idle" /\ pre' = pre \ {i}
    BY <2>3 DEF ReceivePreKeyMessage
  <2>4. CASE UNCHANGED <<pre, preGen>>
    BY <2>4
  <2> QED
    BY <2>1, <2>2, <2>3, <2>4 DEF Next, vars, keyVars,
       Start, EnsureIdentity, SetRegistrationId, EnsureSigned, EnsureKyber, Connected,
       RotateSigned, RotateKyber, CleanupSigned, CleanupKyber, Cleanup, PublishIdentity,
       GenerateAndSend, RelayStore, RelayRefuse, PublishAnswered, PublishTimeout,
       PeerSends, RejectPreKeyMessage, Tick, Crash
<1> QED
  BY <1>1, InitType, NextType, PTL DEF Spec, PreKeyKept
=============================================================================
