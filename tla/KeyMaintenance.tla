--------------------------- MODULE KeyMaintenance ---------------------------
(***************************************************************************)
(* The keys of the local node from creation to use: ensure_keys_exist at   *)
(* every start and perform_key_maintenance at every connection             *)
(* (rust/signal_bridge/src/lib.rs, key_rotation.rs, sqlite_storage.rs),    *)
(* the publication of bundles by session_orchestrator, and the pre-key     *)
(* messages peers build from the bundle a relay serves them.               *)
(*                                                                         *)
(* Every SQL statement commits on its own, so a crash may fall between any *)
(* two: the stages of the two procedures are separate actions, only the    *)
(* crash can come between them (both run in one blocking call of the       *)
(* bridge), and a loop over rows may stop after any of them.               *)
(*                                                                         *)
(* Signed and Kyber pre-keys follow the same code twice, so the two stores *)
(* are one function of the kind.  Key material is abstracted to how often  *)
(* a key was generated under its id.                                       *)
(***************************************************************************)
EXTENDS Naturals, FiniteSets

CONSTANTS
    MaxKeyId,                \* bound on the ids of signed and Kyber pre-keys
    MaxPreId,                \* bound on the ids of one-time pre-keys
    ENSURE_MIN,              \* 5: ensure_keys_exist regenerates below it
    INITIAL_COUNT,           \* 100: how many it generates
    MIN_PRE_KEY_COUNT,       \* 50
    REPLENISH_COUNT,         \* 100
    ROTATION_INTERVAL_SECS,  \* 7 days
    GRACE_PERIOD_SECS,       \* 7 days
    MILLIS,                  \* milliseconds in a second
    MaxTime,                 \* bound on the clock
    MaxStarts,               \* bound on the starts of the process
    Publishes,               \* bound: runs of the publish_identity coroutine
    Peers,                   \* peers that start a session from our bundle
    None

Kinds == {"signed", "kyber"}
KeyIds == 1 .. MaxKeyId
PreIds == 1 .. MaxPreId

ASSUME KeysAssumption ==
    /\ {MaxKeyId, MaxPreId} \subseteq Nat \ {0}
    /\ {ENSURE_MIN, INITIAL_COUNT, MIN_PRE_KEY_COUNT, REPLENISH_COUNT} \subseteq Nat
    /\ INITIAL_COUNT <= MaxPreId
    /\ {ROTATION_INTERVAL_SECS, GRACE_PERIOD_SECS, MaxTime, MaxStarts} \subseteq Nat
    /\ MILLIS \in Nat \ {0}
    /\ None \notin Nat

VARIABLES
    now,        \* the system clock in milliseconds
    starts,     \* how often the process was started
    pc,         \* what the process is doing; "down" when it does not run
    rotated,    \* signed_pre_key_rotated or kyber_pre_key_rotated of this call
    identity,   \* local_identity: none, keys (registration id 0), full
    pre,        \* pre_keys: the ids stored
    created,    \* created[k][i]: timestamp of the key stored under i, or None
    preGen,     \* preGen[i]: how often a one-time pre-key was generated under i
    gen,        \* gen[k][i]: how often a key of kind k was generated under i
    publish,    \* publish[p]: a publish_identity coroutine and its announcement
    relay,      \* the announcement the relay serves, or None (external)
    metadata,   \* bundle_metadata: the bundle recorded as published, or None
    peer        \* peer[q]: a peer and the pre-key message it sends (external)

vars == <<now, starts, pc, rotated, identity, pre, preGen, created, gen, publish, relay, metadata, peer>>
keyVars == <<pre, preGen, created, gen>>
outside == <<publish, relay, metadata, peer>>

Stages == {"down", "identity", "registration", "ensure_pre", "ensure_signed",
           "ensure_kyber", "idle", "rotate_signed", "rotate_kyber",
           "cleanup_signed", "cleanup_kyber", "replenish"}

-----------------------------------------------------------------------------
(* The stores.                                                             *)

Stored(k) == {i \in KeyIds : created[k][i] # None}

\* SELECT MAX(id), for a store that is not empty.
MaxId(S) == CHOOSE m \in S : \A i \in S : i <= m

\* get_max_pre_key_id and its two siblings, with 0 for no key.
MaxOrZero(S) == IF S = {} THEN 0 ELSE MaxId(S)

\* The rows a loop in ascending id order has handled when it stops.
Prefixes(S) == {T \in SUBSET S : \A i \in T, j \in S : j < i => j \in T}

Secs(t) == t \div MILLIS

\* signed_pre_key_needs_rotation, kyber_pre_key_needs_rotation: the age of the
\* key with the highest id, in milliseconds, divided down to seconds.
NeedsRotation(k) ==
    Stored(k) = {} \/ Secs(now - created[k][MaxId(Stored(k))]) > ROTATION_INTERVAL_SECS

\* get_*_older_than(now - grace): created_at is kept in seconds.  (The real
\* clock is past the first grace period; so is the cutoff of the model.)
Expired(k) ==
    {i \in Stored(k) : Secs(created[k][i]) + GRACE_PERIOD_SECS < Secs(now)}

\* Mutant: the last key is not spared.
DoomedAll(k) == Expired(k)

\* The loop of cleanup_expired_*: in ascending order of id (the order of the
\* table scan), as long as more than one key is left.
Doomed(k) == IF Expired(k) = Stored(k) THEN Expired(k) \ {MaxOrZero(Stored(k))}
                                       ELSE Expired(k)

\* A key generated and saved under an id, replacing the one stored there.
Save(k, i) ==
    /\ created' = [created EXCEPT ![k][i] = now]
    /\ gen' = [gen EXCEPT ![k][i] = @ + 1]

\* save_pre_key for every id of S.
SavePreKeys(S) ==
    /\ pre' = pre \cup S
    /\ preGen' = [i \in PreIds |-> IF i \in S THEN preGen[i] + 1 ELSE preGen[i]]

-----------------------------------------------------------------------------
(* Start: SignalBridge::new and ensure_keys_exist.                         *)

Start ==
    /\ pc = "down"
    /\ starts < MaxStarts
    /\ starts' = starts + 1
    /\ pc' = "identity"
    /\ UNCHANGED <<now, rotated, identity, keyVars, outside>>

EnsureIdentity ==
    /\ pc = "identity"
    /\ \/ identity # "none" /\ pc' = "ensure_pre" /\ UNCHANGED identity
       \/ identity = "none" /\ pc' = "registration" /\ identity' = "keys"
    /\ UNCHANGED <<now, starts, rotated, keyVars, outside>>

SetRegistrationId ==
    /\ pc = "registration"
    /\ identity' = "full"
    /\ pc' = "ensure_pre"
    /\ UNCHANGED <<now, starts, rotated, keyVars, outside>>

EnsurePreKeys ==
    LET batch == IF Cardinality(pre) < ENSURE_MIN THEN 1 .. INITIAL_COUNT ELSE {} IN
    /\ pc = "ensure_pre"
    /\ \E done \in Prefixes(batch) :
          /\ SavePreKeys(done)
          /\ pc' = IF done = batch THEN "ensure_signed" ELSE "down"
    /\ UNCHANGED <<now, starts, rotated, identity, created, gen, outside>>

\* Mutant: a key is generated at every start.
EnsureSignedAlways ==
    /\ pc = "ensure_signed"
    /\ pc' = "ensure_kyber"
    /\ Save("signed", 1)
    /\ UNCHANGED <<now, starts, rotated, identity, pre, preGen, outside>>

EnsureSigned ==
    /\ pc = "ensure_signed"
    /\ pc' = "ensure_kyber"
    /\ IF Stored("signed") = {} THEN Save("signed", 1) ELSE UNCHANGED <<created, gen>>
    /\ UNCHANGED <<now, starts, rotated, identity, pre, preGen, outside>>

EnsureKyber ==
    /\ pc = "ensure_kyber"
    /\ pc' = "idle"
    /\ IF Stored("kyber") = {} THEN Save("kyber", 1) ELSE UNCHANGED <<created, gen>>
    /\ UNCHANGED <<now, starts, rotated, identity, pre, preGen, outside>>

-----------------------------------------------------------------------------
(* Publication: publish_identity of session_orchestrator.                  *)

Unused == [co |-> "unused", wire |-> "none", bundle |-> None, at |-> 0]

\* co_spawn: one more run of the coroutine is queued.
Spawn(pub, p) == [pub EXCEPT ![p].co = "spawned"]

\* The process ends and its coroutines with it; what they sent is on its way.
Killed(pub) ==
    [p \in Publishes |-> IF pub[p].co \in {"spawned", "waiting"}
                         THEN [pub[p] EXCEPT !.co = "failed"] ELSE pub[p]]

\* Requested publications: the user's /publish.
PublishIdentity(p) ==
    /\ pc = "idle"
    /\ publish[p].co = "unused"
    /\ publish' = Spawn(publish, p)
    /\ UNCHANGED <<now, starts, pc, rotated, identity, keyVars, relay, metadata, peer>>

\* generate_pre_key_bundle: the highest id of every store.
Bundle == [pre |-> MaxId(pre), preGen |-> preGen[MaxId(pre)],
           signed |-> MaxId(Stored("signed")), kyber |-> MaxId(Stored("kyber"))]

\* The coroutine up to async_track.  With no one-time pre-key left, or no other
\* key, bundle generation fails and the coroutine ends without an event.
GenerateAndSend(p) ==
    /\ pc = "idle"
    /\ publish[p].co = "spawned"
    /\ IF pre = {} \/ Stored("signed") = {} \/ Stored("kyber") = {}
       THEN publish' = [publish EXCEPT ![p].co = "failed"]
       ELSE publish' = [publish EXCEPT ![p] =
               [co |-> "waiting", wire |-> "sent", bundle |-> Bundle, at |-> Secs(now)]]
    /\ UNCHANGED <<now, starts, pc, rotated, identity, keyVars, relay, metadata, peer>>

\* The relay keeps the announcement with the later created_at (in seconds); of
\* two with the same it keeps either.  It answers OK true in both cases.
RelayStore(p) ==
    /\ publish[p].wire = "sent"
    /\ publish' = [publish EXCEPT ![p].wire = "stored"]
    /\ \/ /\ relay # None => relay.at <= publish[p].at
          /\ relay' = [bundle |-> publish[p].bundle, at |-> publish[p].at]
       \/ /\ relay # None /\ relay.at >= publish[p].at
          /\ UNCHANGED relay
    /\ UNCHANGED <<now, starts, pc, rotated, identity, keyVars, metadata, peer>>

\* The relay refuses it, or it is lost with the connection.
RelayRefuse(p) ==
    /\ publish[p].wire = "sent"
    /\ \E w \in {"refused", "lost"} : publish' = [publish EXCEPT ![p].wire = w]
    /\ UNCHANGED <<now, starts, pc, rotated, identity, keyVars, relay, metadata, peer>>

\* The coroutine resumes with the relay's OK; an accepted bundle is recorded.
PublishAnswered(p) ==
    /\ pc = "idle"
    /\ publish[p].co = "waiting"
    /\ publish[p].wire \in {"stored", "refused"}
    /\ publish' = [publish EXCEPT ![p].co = "done"]
    /\ metadata' = IF publish[p].wire = "stored" THEN publish[p].bundle ELSE metadata
    /\ UNCHANGED <<now, starts, pc, rotated, identity, keyVars, relay, peer>>

\* The coroutine resumes with "Request timeout".
PublishTimeout(p) ==
    /\ pc = "idle"
    /\ publish[p].co = "waiting"
    /\ publish' = [publish EXCEPT ![p].co = "failed"]
    /\ UNCHANGED <<now, starts, pc, rotated, identity, keyVars, relay, metadata, peer>>

-----------------------------------------------------------------------------
(* Maintenance: perform_key_maintenance, on transport::connected.          *)

Connected ==
    /\ pc = "idle"
    /\ pc' = "rotate_signed"
    /\ rotated' = FALSE
    /\ UNCHANGED <<now, starts, identity, keyVars, outside>>

\* rotate_signed_pre_key, rotate_kyber_pre_key.
Rotate(k) ==
    IF NeedsRotation(k)
    THEN /\ MaxOrZero(Stored(k)) + 1 \in KeyIds
         /\ Save(k, MaxOrZero(Stored(k)) + 1)
         /\ rotated' = TRUE
    ELSE UNCHANGED <<created, gen, rotated>>

RotateSigned ==
    /\ pc = "rotate_signed"
    /\ pc' = "rotate_kyber"
    /\ Rotate("signed")
    /\ UNCHANGED <<now, starts, identity, pre, preGen, outside>>

RotateKyber ==
    /\ pc = "rotate_kyber"
    /\ pc' = "cleanup_signed"
    /\ Rotate("kyber")
    /\ UNCHANGED <<now, starts, identity, pre, preGen, outside>>

\* cleanup_expired_signed_pre_keys, cleanup_expired_kyber_pre_keys.
Cleanup(k, next) ==
    /\ \E done \in Prefixes(Doomed(k)) :
          /\ created' = [created EXCEPT ![k] = [i \in KeyIds |->
                            IF i \in done THEN None ELSE created[k][i]]]
          /\ \/ done = Doomed(k) /\ pc' = next /\ UNCHANGED publish
             \/ done # Doomed(k) /\ pc' = "down" /\ publish' = Killed(publish)
    /\ UNCHANGED <<now, starts, rotated, identity, pre, preGen, gen, relay, metadata, peer>>

CleanupSigned == pc = "cleanup_signed" /\ Cleanup("signed", "cleanup_kyber")

CleanupKyber == pc = "cleanup_kyber" /\ Cleanup("kyber", "replenish")

\* Mutant: the first id is the highest, not the one after it.
NextPreIdsFromMax == MaxOrZero(pre) .. (MaxOrZero(pre) + REPLENISH_COUNT - 1)

\* The ids replenish_pre_keys generates.
NextPreIds == LET next == MaxOrZero(pre) + 1 IN next .. (next + REPLENISH_COUNT - 1)

\* Replenish, return to the orchestrator and publish if a key was rotated.
\* (Subscribing to identities and messages is not about keys.)
Replenish ==
    LET batch == IF Cardinality(pre) < MIN_PRE_KEY_COUNT THEN NextPreIds ELSE {} IN
    /\ pc = "replenish"
    /\ batch \subseteq PreIds
    /\ \E done \in Prefixes(batch) :
          /\ SavePreKeys(done)
          /\ IF done = batch
             THEN /\ pc' = "idle"
                  /\ IF rotated
                     THEN \E p \in Publishes : publish[p].co = "unused" /\ publish' = Spawn(publish, p)
                     ELSE UNCHANGED publish
             ELSE pc' = "down" /\ publish' = Killed(publish)
    /\ UNCHANGED <<now, starts, rotated, identity, created, gen, relay, metadata, peer>>

-----------------------------------------------------------------------------
(* Peers: pre-key messages made from the relay's bundle.                   *)

PeerSends(q) ==
    /\ peer[q].st = "none"
    /\ relay # None
    /\ peer' = [peer EXCEPT ![q] = [st |-> "sent", bundle |-> relay.bundle]]
    /\ UNCHANGED <<now, starts, pc, rotated, identity, keyVars, publish, relay, metadata>>

\* The three keys the message names are stored, and the one-time key is the
\* one the bundle had.
Decryptable(b) ==
    /\ b.pre \in pre /\ preGen[b.pre] = b.preGen
    /\ b.signed \in Stored("signed")
    /\ b.kyber \in Stored("kyber")

\* Mutant: the one-time pre-key is not removed.
ReceiveKeepsPreKey(q) ==
    /\ pc = "idle"
    /\ peer[q].st = "sent"
    /\ Decryptable(peer[q].bundle)
    /\ peer' = [peer EXCEPT ![q].st = "received"]
    /\ \E p \in Publishes : publish[p].co = "unused" /\ publish' = Spawn(publish, p)
    /\ UNCHANGED <<now, starts, pc, rotated, identity, pre, preGen, created, gen, relay, metadata>>

\* decrypt_message of a pre-key message: the session is made, the one-time
\* pre-key removed (by the library, through remove_pre_key) and the bundle
\* published again.
ReceivePreKeyMessage(q) ==
    /\ pc = "idle"
    /\ peer[q].st = "sent"
    /\ Decryptable(peer[q].bundle)
    /\ pre' = pre \ {peer[q].bundle.pre}
    /\ peer' = [peer EXCEPT ![q].st = "received"]
    /\ \E p \in Publishes : publish[p].co = "unused" /\ publish' = Spawn(publish, p)
    /\ UNCHANGED <<now, starts, pc, rotated, identity, preGen, created, gen, relay, metadata>>

\* Decryption fails: no key changes, the message is reported as unknown.
RejectPreKeyMessage(q) ==
    /\ pc = "idle"
    /\ peer[q].st = "sent"
    /\ ~Decryptable(peer[q].bundle)
    /\ peer' = [peer EXCEPT ![q].st = "rejected"]
    /\ UNCHANGED <<now, starts, pc, rotated, identity, keyVars, publish, relay, metadata>>

-----------------------------------------------------------------------------
(* The environment.                                                        *)

Tick ==
    /\ now < MaxTime
    /\ now' = now + 1
    /\ UNCHANGED <<starts, pc, rotated, identity, keyVars, outside>>

\* The process ends, by a crash or by shutdown: its coroutines are gone.
Crash ==
    /\ pc # "down"
    /\ pc' = "down"
    /\ publish' = Killed(publish)
    /\ UNCHANGED <<now, starts, rotated, identity, keyVars, relay, metadata, peer>>

Init ==
    /\ now = 0
    /\ starts = 0
    /\ pc = "down"
    /\ rotated = FALSE
    /\ identity = "none"
    /\ pre = {}
    /\ created = [k \in Kinds |-> [i \in KeyIds |-> None]]
    /\ preGen = [i \in PreIds |-> 0]
    /\ gen = [k \in Kinds |-> [i \in KeyIds |-> 0]]
    /\ publish = [p \in Publishes |-> Unused]
    /\ relay = None
    /\ metadata = None
    /\ peer = [q \in Peers |-> [st |-> "none", bundle |-> None]]

Next ==
    \/ Start \/ EnsureIdentity \/ SetRegistrationId
    \/ EnsurePreKeys \/ EnsureSigned \/ EnsureKyber
    \/ Connected \/ RotateSigned \/ RotateKyber
    \/ CleanupSigned \/ CleanupKyber \/ Replenish
    \/ \E p \in Publishes :
          \/ PublishIdentity(p) \/ GenerateAndSend(p)
          \/ RelayStore(p) \/ RelayRefuse(p)
          \/ PublishAnswered(p) \/ PublishTimeout(p)
    \/ \E q \in Peers :
          PeerSends(q) \/ ReceivePreKeyMessage(q) \/ RejectPreKeyMessage(q)
    \/ Tick
    \/ Crash

Spec == Init /\ [][Next]_vars

-----------------------------------------------------------------------------
(* Properties.                                                             *)

Bundles == [pre : PreIds, preGen : Nat, signed : KeyIds, kyber : KeyIds]

Publications ==
    [co : {"unused", "spawned", "waiting", "done", "failed"},
     wire : {"none", "sent", "stored", "refused", "lost"},
     bundle : Bundles \cup {None}, at : Nat]

Messages == [st : {"none", "sent", "received", "rejected"}, bundle : Bundles \cup {None}]

TypeOK ==
    /\ now \in Nat
    /\ starts \in Nat
    /\ pc \in Stages
    /\ rotated \in BOOLEAN
    /\ identity \in {"none", "keys", "full"}
    /\ pre \subseteq PreIds
    /\ created \in [Kinds -> [KeyIds -> Nat \cup {None}]]
    /\ preGen \in [PreIds -> Nat]
    /\ gen \in [Kinds -> [KeyIds -> Nat]]
    /\ publish \in [Publishes -> Publications]
    /\ relay \in [bundle : Bundles, at : Nat] \cup {None}
    /\ metadata \in Bundles \cup {None}
    /\ peer \in [Peers -> Messages]

\* A signed or Kyber pre-key id names one key for ever: rotation, restart and
\* crash never generate a second key under an id, so a message built from an
\* old bundle can only meet the key it was built for or none.
KeyIdsUsedOnce == \A k \in Kinds, i \in KeyIds : gen[k][i] <= 1

\* Once there is a signed (Kyber) pre-key there always is one, and the current
\* one (the highest id, which bundles name) is never deleted, not even when
\* cleanup finds every key expired: the rotation test rounds the age, the
\* cleanup rounds both timestamps.
KeepsCurrentKey ==
    \A k \in Kinds : Stored(k) # {} =>
        /\ Stored(k)' # {}
        /\ MaxId(Stored(k)) <= MaxId(Stored(k)')
CurrentKeyKept == [][KeepsCurrentKey]_vars

\* A one-time pre-key stays as it is until a message uses it, except that a
\* start that finds fewer than ENSURE_MIN keys writes new ones over them.
KeepsPreKeys ==
    \A i \in pre :
        \/ i \in pre' /\ preGen'[i] = preGen[i]
        \/ pc = "idle" /\ pre' = pre \ {i}
        \/ pc = "ensure_pre" /\ Cardinality(pre) < ENSURE_MIN
PreKeyKept == [][KeepsPreKeys]_vars

\* A one-time pre-key opens at most one session ("Single-use keys for
\* establishing individual sessions", docs/architecture/signal-protocol.md),
\* although ids are reused and two peers may hold the same bundle.
PreKeyUsedOnce ==
    \A q, r \in Peers :
        /\ q # r /\ peer[q].st = "received" /\ peer[r].st = "received"
        => \/ peer[q].bundle.pre # peer[r].bundle.pre
           \/ peer[q].bundle.preGen # peer[r].bundle.preGen

\* "Grace period before deleting old keys" (key_rotation.rs:19): a key that was
\* superseded less than the grace period ago is still stored.
SupersededKeyInGrace ==
    pc = "idle" => \A k \in Kinds : \A i, j \in KeyIds :
        i + 1 = j /\ j \in Stored(k) /\ now < created[k][j] + GRACE_PERIOD_SECS * MILLIS
        => i \in Stored(k)

\* "ensuring your peers always have fresh keys for establishing new sessions"
\* (docs/architecture/signal-protocol.md:43): when no publication is under way,
\* the bundle peers get from the relay names stored signed and Kyber keys.
RelayBundleUsable ==
    pc = "idle" /\ relay # None /\ (\A p \in Publishes : publish[p].co \notin {"spawned", "waiting"})
    => relay.bundle.signed \in Stored("signed") /\ relay.bundle.kyber \in Stored("kyber")

-----------------------------------------------------------------------------
(* What the proofs add to make the properties inductive.                   *)

\* Whatever was sent carries a bundle.
SentHasBundle ==
    /\ \A p \in Publishes : publish[p].wire # "none" => publish[p].bundle \in Bundles
    /\ \A q \in Peers : peer[q].st # "none" => peer[q].bundle \in Bundles

\* No id was used twice, and none above the highest id stored.
UsedIds ==
    \A k \in Kinds, i \in KeyIds :
        /\ gen[k][i] <= 1
        /\ gen[k][i] # 0 => \E j \in Stored(k) : i <= j

\* Keys were created in the order of their ids, none in the future.
CreatedInOrder ==
    \A k \in Kinds : \A i, j \in Stored(k) :
        /\ created[k][i] <= now
        /\ i <= j => created[k][i] <= created[k][j]

\* No bundle is newer than the store, and a used one-time key is not stored.
NotNewer(b) == b.preGen <= preGen[b.pre]
UsedNotStored ==
    /\ \A p \in Publishes : publish[p].wire # "none" => NotNewer(publish[p].bundle)
    /\ relay # None => NotNewer(relay.bundle)
    /\ \A q \in Peers : peer[q].st # "none" => NotNewer(peer[q].bundle)
    /\ \A q \in Peers : peer[q].st = "received" =>
          ~(peer[q].bundle.pre \in pre /\ preGen[peer[q].bundle.pre] = peer[q].bundle.preGen)

TypeInv == TypeOK /\ SentHasBundle
KeyInv == UsedIds /\ CreatedInOrder
PreInv == UsedNotStored /\ PreKeyUsedOnce

=============================================================================
