------------------------ MODULE SignalBridgeProofs -------------------------
(***************************************************************************)
(* Proofs about SignalBridge, for any peers and any bounds on starts and   *)
(* draws: the key file and the database, the schema, sessions, announced   *)
(* bundles and the reset.                                                  *)
(*                                                                         *)
(* What holds between two statements depends on the statements to come.    *)
(* The parts of the invariant speak of the set of them, and the order they *)
(* come in is used through the stage of a statement alone.                 *)
(***************************************************************************)
EXTENDS SignalBridge, SequenceTheorems, TLAPS

BaseNames == {"identity", "session", "pre", "signed", "kyber", "contacts", "settings", "bundle"}

HistoryNames == {"conversations", "messages"}

\* The statements, by what they are about.
PeerOps == {"save_identity", "store_session", "event", "delete_session", "delete_identity"}

PlainOps ==
    {"retrieve_key", "create_key_file", "write_key_file", "schema_info", "insert_version",
     "select_version", "update_version", "identity", "registration", "pre_keys",
     "signed_pre_key", "kyber_pre_key", "rotate_signed", "rotate_kyber", "remove_pre_key",
     "clear_sessions", "clear_identities", "clear_pre_keys", "clear_signed", "clear_kyber",
     "clear_local"}

Statements ==
    {<<op>> : op \in PlainOps}
        \cup ({"create"} \X (BaseNames \cup HistoryNames))
        \cup (PeerOps \X Peers)
        \cup ({"returned"} \X Nat)

\* Of two statements of one call, the one of the lower stage comes first.
Stage(op) ==
    IF op \in {"save_identity", "delete_session", "retrieve_key"} THEN 1
    ELSE IF op \in {"store_session", "remove_pre_key", "event", "delete_identity",
                    "create_key_file"} THEN 2
    ELSE IF op = "write_key_file" THEN 3
    ELSE IF op = "schema_info" THEN 4
    ELSE IF op = "insert_version" THEN 5
    ELSE IF op = "select_version" THEN 6
    ELSE IF op = "create" THEN 7
    ELSE IF op = "update_version" THEN 8
    ELSE IF op = "clear_sessions" THEN 9
    ELSE IF op = "clear_identities" THEN 10
    ELSE IF op \in {"clear_pre_keys", "clear_signed", "clear_kyber"} THEN 11
    ELSE IF op = "clear_local" THEN 12
    ELSE IF op \in {"identity", "registration"} THEN 13
    ELSE IF op = "returned" THEN 15
    ELSE 14

Staged(s) == \A i, j \in 1 .. Len(s) : i < j => Stage(s[i][1]) <= Stage(s[j][1])

\* A call: a sequence of statements in the order of their stages.
Programs == {s \in Seq(Statements) : Staged(s)}

\* The statements of a sequence, and what they do.
Of(s) == {s[i] : i \in 1 .. Len(s)}

Ops(s) == {e[1] : e \in Of(s)}

-----------------------------------------------------------------------------
(* The invariant, in parts.                                                *)

\* The statements to come are in order, and a call that stores a session
\* clears nothing.
ProgramInv ==
    /\ todo \in Programs
    /\ process \in {"down", "starting", "running"}
    /\ process = "down" => todo = <<>>
    /\ process = "starting" => todo # <<>>
    /\ "retrieve_key" \in Ops(todo) => todo = Opening
    /\ "store_session" \in Ops(todo) =>
          Ops(todo) \subseteq {"save_identity", "store_session", "remove_pre_key"}

\* The database is only opened with the key of the file, and a new key is only
\* stored while there is no database.
KeyInv ==
    /\ keyFile \in Nat \cup {Short} /\ dbKey \in Nat /\ key \in Nat /\ starts \in Nat
    /\ misread \in BOOLEAN
    /\ KeyFileOpensDatabase
    /\ "create_key_file" \in Ops(todo) => "write_key_file" \in Ops(todo)
    /\ Ops(todo) \cap {"create_key_file", "write_key_file"} # {} => misread \/ dbKey = 0
    /\ "schema_info" \in Ops(todo) =>
          key = keyFile \/ Ops(todo) \cap {"retrieve_key", "write_key_file"} # {}

\* A table that is missing is one the start is yet to create, and the version
\* is 2 when the tables of the history are there.
SchemaInv ==
    /\ versions \in Seq({1, 2})
    /\ SchemaComplete
    /\ versions # <<>> /\ versions[1] = 2 => HistoryNames \subseteq tables
    /\ "select_version" \in Ops(todo) => "insert_version" \in Ops(todo) \/ versions # <<>>
    /\ "update_version" \in Ops(todo) =>
          \A t \in HistoryNames : t \in tables \/ <<"create", t>> \in Of(todo)
    /\ process = "starting" =>
          \/ "select_version" \in Ops(todo)
          \/ \A t \in BaseNames \cup HistoryNames : t \in tables \/ <<"create", t>> \in Of(todo)

\* Identities are drawn once, and a reset that is to return has replaced its
\* identity or is about to.
DrawnInv ==
    /\ drawn \in Nat
    /\ local \in [identity : Nat, registration : Nat]
    /\ local.identity <= drawn
    /\ \A b \in published : b.identity \in 1 .. drawn
    /\ \A i \in retired : i \in 1 .. drawn /\ i # local.identity
    /\ \A e \in Of(todo) : e[1] = "returned" =>
          /\ e[2] \in 0 .. drawn
          /\ e[2] = 0 \/ e[2] # local.identity \/ "clear_local" \in Ops(todo)

\* The identity in place signed every key, the identity goes after the keys, and
\* there is one whenever a key is made.
SigningOps == {"signed_pre_key", "kyber_pre_key", "rotate_signed", "rotate_kyber"}

BundleInv ==
    /\ misread \in BOOLEAN
    /\ BundlesVerify
    /\ ~misread => \A i \in signed \cup kyber : i = local.identity /\ i # 0
    /\ Ops(todo) \cap SigningOps # {} =>
          "identity" \in Ops(todo) \/ (local.identity # 0 /\ "clear_local" \notin Ops(todo))
    /\ "clear_local" \in Ops(todo) =>
          /\ signed = {} \/ "clear_signed" \in Ops(todo)
          /\ kyber = {} \/ "clear_kyber" \in Ops(todo)

\* The session with a peer goes before its identity key and before ours.
NoSessions == \A p \in Peers : sessions[p] = 0

SessionInv ==
    /\ misread \in BOOLEAN
    /\ sessions \in [Peers -> Nat]
    /\ SessionsUsable
    /\ \A e \in Of(todo) : e[1] = "store_session" =>
          e[2] \in peerKeys \/ <<"save_identity", e[2]>> \in Of(todo)
    /\ \A e \in Of(todo) : e[1] = "delete_identity" =>
          sessions[e[2]] = 0 \/ <<"delete_session", e[2]>> \in Of(todo)
    /\ "clear_identities" \in Ops(todo) => NoSessions \/ "clear_sessions" \in Ops(todo)
    /\ "clear_local" \in Ops(todo) => misread \/ NoSessions \/ "clear_sessions" \in Ops(todo)

\* A registration id that is yet to be set has not been announced.
RegistrationInv ==
    /\ RegistrationStable
    /\ \A b \in published : b.identity = local.identity => b.registration = local.registration
    /\ "registration" \in Ops(todo) => \A b \in published : b.identity # local.identity

BridgeInv ==
    /\ ProgramInv /\ KeyInv /\ SchemaInv /\ DrawnInv
    /\ BundleInv /\ SessionInv /\ RegistrationInv

-----------------------------------------------------------------------------
\* A stage is a number.
LEMMA StageNat == \A op : Stage(op) \in Nat
BY DEF Stage

\* The first statement has the lowest stage, and the others are what is left.
LEMMA TailOf ==
    ASSUME NEW s \in Programs, s # <<>>
    PROVE  /\ s[1] \in Statements
           /\ Tail(s) \in Programs
           /\ Of(s) = {s[1]} \cup Of(Tail(s))
           /\ Ops(s) = {s[1][1]} \cup Ops(Tail(s))
           /\ \A op \in Ops(Tail(s)) : Stage(s[1][1]) <= Stage(op)
<1>1. s \in Seq(Statements) /\ Len(s) \in Nat /\ Len(s) >= 1 /\ Staged(s)
  BY EmptySeq DEF Programs
<1>2. /\ Tail(s) \in Seq(Statements) /\ Len(Tail(s)) = Len(s) - 1
      /\ \A i \in 1 .. Len(Tail(s)) : Tail(s)[i] = s[i + 1]
  BY <1>1
<1>3. s[1] \in Statements
  BY <1>1
<1>4. Tail(s) \in Programs
  <2>1. Staged(Tail(s))
    BY <1>1, <1>2 DEF Staged
  <2> QED
    BY <1>2, <2>1 DEF Programs
<1>5. Of(s) = {s[1]} \cup Of(Tail(s))
  <2>1. \A i \in 1 .. Len(s) : i = 1 \/ (i - 1 \in 1 .. Len(Tail(s)) /\ s[i] = Tail(s)[i - 1])
    BY <1>1, <1>2
  <2>2. \A i \in 1 .. Len(Tail(s)) : i + 1 \in 1 .. Len(s)
    BY <1>1, <1>2
  <2>3. Of(s) \subseteq {s[1]} \cup Of(Tail(s))
    <3>1. ASSUME NEW i \in 1 .. Len(s) PROVE s[i] \in {s[1]} \cup Of(Tail(s))
      BY <2>1 DEF Of
    <3> QED
      BY <3>1 DEF Of
  <2>4. s[1] \in Of(s)
    BY <1>1 DEF Of
  <2>5. Of(Tail(s)) \subseteq Of(s)
    BY <1>2, <2>2 DEF Of
  <2> QED
    BY <2>3, <2>4, <2>5
<1>6. Ops(s) = {s[1][1]} \cup Ops(Tail(s))
  BY <1>5 DEF Ops
<1>7. ASSUME NEW op \in Ops(Tail(s)) PROVE Stage(s[1][1]) <= Stage(op)
  <2>1. PICK i \in 1 .. Len(Tail(s)) : op = Tail(s)[i][1]
    BY DEF Ops, Of
  <2>2. i + 1 \in 1 .. Len(s) /\ 1 \in 1 .. Len(s) /\ 1 < i + 1 /\ op = s[i + 1][1]
    BY <1>1, <1>2, <2>1
  <2> QED
    BY <1>1, <2>2 DEF Staged
<1> QED
  BY <1>3, <1>4, <1>5, <1>6, <1>7

\* Two calls make one when the second goes on where the first stops.
LEMMA ConcatOf ==
    ASSUME NEW s \in Programs, NEW t \in Programs,
           \A a \in Ops(s), b \in Ops(t) : Stage(a) <= Stage(b)
    PROVE  /\ s \o t \in Programs
           /\ Of(s \o t) = Of(s) \cup Of(t)
           /\ Ops(s \o t) = Ops(s) \cup Ops(t)
<1> DEFINE u == s \o t
<1>1. /\ s \in Seq(Statements) /\ t \in Seq(Statements) /\ Staged(s) /\ Staged(t)
      /\ Len(s) \in Nat /\ Len(t) \in Nat
  BY DEF Programs
<1>2. /\ u \in Seq(Statements) /\ Len(u) = Len(s) + Len(t)
      /\ \A i \in 1 .. Len(s) + Len(t) : u[i] = IF i <= Len(s) THEN s[i] ELSE t[i - Len(s)]
  BY <1>1, ConcatProperties
<1> HIDE DEF u
<1>3. \A i \in 1 .. Len(s) : i \in 1 .. Len(u) /\ u[i] = s[i]
  BY <1>1, <1>2
<1>4. \A i \in 1 .. Len(t) : i + Len(s) \in 1 .. Len(u) /\ u[i + Len(s)] = t[i]
  <2>1. ASSUME NEW i \in 1 .. Len(t)
        PROVE  /\ i + Len(s) \in 1 .. Len(u) /\ ~(i + Len(s) <= Len(s))
               /\ (i + Len(s)) - Len(s) = i
    BY <1>1, <1>2
  <2> QED
    BY <1>2, <2>1
<1>5. \A i \in 1 .. Len(u) : \/ i \in 1 .. Len(s) /\ u[i] = s[i]
                             \/ i > Len(s) /\ i - Len(s) \in 1 .. Len(t) /\ u[i] = t[i - Len(s)]
  BY <1>1, <1>2
<1>6. Of(u) = Of(s) \cup Of(t)
  <2>1. Of(u) \subseteq Of(s) \cup Of(t)
    BY <1>5 DEF Of
  <2>2. Of(s) \subseteq Of(u)
    BY <1>3 DEF Of
  <2>3. Of(t) \subseteq Of(u)
    <3>1. ASSUME NEW i \in 1 .. Len(t) PROVE t[i] \in Of(u)
      BY <1>4 DEF Of
    <3> QED
      BY <3>1 DEF Of
  <2> QED
    BY <2>1, <2>2, <2>3
<1>7. Ops(u) = Ops(s) \cup Ops(t)
  BY <1>6 DEF Ops
<1>8. Staged(u)
  <2> SUFFICES ASSUME NEW i \in 1 .. Len(u), NEW j \in 1 .. Len(u), i < j
               PROVE  Stage(u[i][1]) <= Stage(u[j][1])
    BY DEF Staged
  <2>1. CASE j \in 1 .. Len(s) /\ u[j] = s[j]
    <3>1. i \in 1 .. Len(s) /\ u[i] = s[i]
      BY <1>1, <1>3, <2>1
    <3> QED
      BY <1>1, <2>1, <3>1 DEF Staged
  <2>2. CASE j > Len(s) /\ j - Len(s) \in 1 .. Len(t) /\ u[j] = t[j - Len(s)]
    <3>1. CASE i \in 1 .. Len(s) /\ u[i] = s[i]
      <4>1. u[i][1] \in Ops(s) /\ u[j][1] \in Ops(t)
        BY <2>2, <3>1 DEF Ops, Of
      <4> QED
        BY <4>1
    <3>2. CASE i > Len(s) /\ i - Len(s) \in 1 .. Len(t) /\ u[i] = t[i - Len(s)]
      <4>1. i - Len(s) < j - Len(s)
        BY <1>1, <1>2
      <4> QED
        BY <1>1, <2>2, <3>2, <4>1 DEF Staged
    <3> QED
      BY <1>5, <3>1, <3>2
  <2> QED
    BY <1>5, <2>1, <2>2
<1> QED
  BY <1>2, <1>6, <1>7, <1>8 DEF Programs, u

-----------------------------------------------------------------------------
(* What the calls of the bridge consist of.                                *)

\* No statements.
LEMMA NothingOf == <<>> \in Programs /\ Of(<<>>) = {} /\ Ops(<<>>) = {}
<1>1. Of(<<>>) = {}
  BY DEF Of
<1>2. <<>> \in Programs
  BY DEF Programs, Staged
<1> QED
  BY <1>1, <1>2 DEF Ops

\* One statement.
LEMMA OneOf ==
    ASSUME NEW e \in Statements
    PROVE  <<e>> \in Programs /\ Of(<<e>>) = {e} /\ Ops(<<e>>) = {e[1]}
<1>1. /\ <<e>> \in Seq(Statements) /\ Len(<<e>>) = 1 /\ <<e>>[1] = e
  OBVIOUS
<1>2. Of(<<e>>) = {e}
  BY <1>1 DEF Of
<1>3. Staged(<<e>>)
  BY <1>1 DEF Staged
<1> QED
  BY <1>1, <1>2, <1>3 DEF Programs, Ops

\* Two statements.
LEMMA TwoOf ==
    ASSUME NEW e \in Statements, NEW f \in Statements, Stage(e[1]) <= Stage(f[1])
    PROVE  <<e, f>> \in Programs /\ Of(<<e, f>>) = {e, f} /\ Ops(<<e, f>>) = {e[1], f[1]}
<1>1. /\ <<e, f>> \in Seq(Statements) /\ Len(<<e, f>>) = 2
      /\ <<e, f>>[1] = e /\ <<e, f>>[2] = f
  OBVIOUS
<1>2. Of(<<e, f>>) = {e, f}
  BY <1>1 DEF Of
<1>3. Staged(<<e, f>>)
  BY <1>1 DEF Staged
<1> QED
  BY <1>1, <1>2, <1>3 DEF Programs, Ops

\* Three statements.
LEMMA ThreeOf ==
    ASSUME NEW e \in Statements, NEW f \in Statements, NEW g \in Statements,
           Stage(e[1]) <= Stage(f[1]), Stage(f[1]) <= Stage(g[1])
    PROVE  /\ <<e, f, g>> \in Programs /\ Of(<<e, f, g>>) = {e, f, g}
           /\ Ops(<<e, f, g>>) = {e[1], f[1], g[1]}
<1>1. /\ <<e, f, g>> \in Seq(Statements) /\ Len(<<e, f, g>>) = 3
      /\ <<e, f, g>>[1] = e /\ <<e, f, g>>[2] = f /\ <<e, f, g>>[3] = g
  OBVIOUS
<1>2. Of(<<e, f, g>>) = {e, f, g}
  BY <1>1 DEF Of
<1>3. Staged(<<e, f, g>>)
  BY <1>1, StageNat DEF Staged
<1> QED
  BY <1>1, <1>2, <1>3 DEF Programs, Ops

\* Four statements.
LEMMA FourOf ==
    ASSUME NEW e \in Statements, NEW f \in Statements, NEW g \in Statements, NEW h \in Statements,
           Stage(e[1]) <= Stage(f[1]), Stage(f[1]) <= Stage(g[1]), Stage(g[1]) <= Stage(h[1])
    PROVE  /\ <<e, f, g, h>> \in Programs /\ Of(<<e, f, g, h>>) = {e, f, g, h}
           /\ Ops(<<e, f, g, h>>) = {e[1], f[1], g[1], h[1]}
<1>1. /\ <<e, f, g, h>> \in Seq(Statements) /\ Len(<<e, f, g, h>>) = 4
      /\ <<e, f, g, h>>[1] = e /\ <<e, f, g, h>>[2] = f /\ <<e, f, g, h>>[3] = g
      /\ <<e, f, g, h>>[4] = h
  OBVIOUS
<1>2. Of(<<e, f, g, h>>) = {e, f, g, h}
  BY <1>1 DEF Of
<1>3. Staged(<<e, f, g, h>>)
  BY <1>1, StageNat DEF Staged
<1> QED
  BY <1>1, <1>2, <1>3 DEF Programs, Ops

\* A statement without an argument.
LEMMA PlainStatement == \A op \in PlainOps : <<op>> \in Statements /\ <<op>>[1] = op
BY DEF Statements

\* The start of SignalBridge::new.
LEMMA OpeningOf ==
    /\ Opening \in Programs
    /\ Ops(Opening) = {"retrieve_key", "schema_info", "insert_version", "select_version"}
<1> DEFINE e == <<"retrieve_key">>
           f == <<"schema_info">>
           g == <<"insert_version">>
           h == <<"select_version">>
<1>1. e \in Statements /\ f \in Statements /\ g \in Statements /\ h \in Statements
  BY PlainStatement DEF PlainOps
<1>2. /\ e[1] = "retrieve_key" /\ Stage("retrieve_key") = 1
      /\ f[1] = "schema_info" /\ Stage("schema_info") = 4
      /\ g[1] = "insert_version" /\ Stage("insert_version") = 5
      /\ h[1] = "select_version" /\ Stage("select_version") = 6
  BY DEF Stage
<1> HIDE DEF e, f, g, h
<1>3. /\ <<e, f, g, h>> \in Programs /\ Of(<<e, f, g, h>>) = {e, f, g, h}
      /\ Ops(<<e, f, g, h>>) = {e[1], f[1], g[1], h[1]}
  BY <1>1, <1>2, FourOf
<1> QED
  BY <1>2, <1>3 DEF Opening, e, f, g, h

\* ensure_keys_exist.
LEMMA EnsureKeysOf ==
    /\ EnsureKeys \in Programs
    /\ Ops(EnsureKeys) = {"identity", "pre_keys", "signed_pre_key", "kyber_pre_key"}
    /\ Of(EnsureKeys) = {<<"identity">>, <<"pre_keys">>, <<"signed_pre_key">>, <<"kyber_pre_key">>}
<1> DEFINE e == <<"identity">>
           f == <<"pre_keys">>
           g == <<"signed_pre_key">>
           h == <<"kyber_pre_key">>
<1>1. e \in Statements /\ f \in Statements /\ g \in Statements /\ h \in Statements
  BY PlainStatement DEF PlainOps
<1>2. /\ e[1] = "identity" /\ Stage("identity") = 13
      /\ f[1] = "pre_keys" /\ Stage("pre_keys") = 14
      /\ g[1] = "signed_pre_key" /\ Stage("signed_pre_key") = 14
      /\ h[1] = "kyber_pre_key" /\ Stage("kyber_pre_key") = 14
  BY DEF Stage
<1> HIDE DEF e, f, g, h
<1>3. /\ <<e, f, g, h>> \in Programs /\ Of(<<e, f, g, h>>) = {e, f, g, h}
      /\ Ops(<<e, f, g, h>>) = {e[1], f[1], g[1], h[1]}
  BY <1>1, <1>2, FourOf
<1> QED
  BY <1>2, <1>3 DEF EnsureKeys, e, f, g, h

\* The deletions of reset_identity.
LEMMA ResettingOf ==
    /\ Resetting \in Programs
    /\ Ops(Resetting) = {"clear_pre_keys", "clear_signed", "clear_kyber", "clear_local"}
    /\ Of(Resetting) =
          {<<"clear_pre_keys">>, <<"clear_signed">>, <<"clear_kyber">>, <<"clear_local">>}
<1> DEFINE e == <<"clear_pre_keys">>
           f == <<"clear_signed">>
           g == <<"clear_kyber">>
           h == <<"clear_local">>
<1>1. e \in Statements /\ f \in Statements /\ g \in Statements /\ h \in Statements
  BY PlainStatement DEF PlainOps
<1>2. /\ e[1] = "clear_pre_keys" /\ Stage("clear_pre_keys") = 11
      /\ f[1] = "clear_signed" /\ Stage("clear_signed") = 11
      /\ g[1] = "clear_kyber" /\ Stage("clear_kyber") = 11
      /\ h[1] = "clear_local" /\ Stage("clear_local") = 12
  BY DEF Stage
<1> HIDE DEF e, f, g, h
<1>3. /\ <<e, f, g, h>> \in Programs /\ Of(<<e, f, g, h>>) = {e, f, g, h}
      /\ Ops(<<e, f, g, h>>) = {e[1], f[1], g[1], h[1]}
  BY <1>1, <1>2, FourOf
<1> QED
  BY <1>2, <1>3 DEF Resetting, e, f, g, h

\* clear_all_sessions.
LEMMA ClearAllOf ==
    /\ ClearAll \in Programs
    /\ \/ /\ Ops(ClearAll) = {} /\ ClearAll = <<>> /\ Of(ClearAll) = {}
          /\ peerKeys = {} /\ \A p \in Peers : sessions[p] = 0
       \/ /\ Ops(ClearAll) = {"clear_sessions", "clear_identities"}
          /\ Of(ClearAll) = {<<"clear_sessions">>, <<"clear_identities">>}
<1>1. <<"clear_sessions">> \in Statements /\ <<"clear_identities">> \in Statements
  BY PlainStatement DEF PlainOps
<1>2. Stage("clear_sessions") = 9 /\ Stage("clear_identities") = 10
  BY DEF Stage
<1>3. CASE peerKeys = {} /\ \A p \in Peers : sessions[p] = 0
  BY <1>3, NothingOf DEF ClearAll
<1>4. CASE ~(peerKeys = {} /\ \A p \in Peers : sessions[p] = 0)
  <2>1. ClearAll = <<<<"clear_sessions">>, <<"clear_identities">>>>
    BY <1>4 DEF ClearAll
  <2> QED
    BY <1>1, <1>2, <2>1, TwoOf
<1> QED
  BY <1>3, <1>4

\* The tables of a fresh database.
LEMMA BaseOf ==
    /\ Create(BaseTables) \in Programs
    /\ Of(Create(BaseTables)) = {<<"create", t>> : t \in BaseNames}
    /\ Ops(Create(BaseTables)) = {"create"}
<1> DEFINE c == Create(BaseTables)
<1>1. /\ Len(BaseTables) = 8 /\ DOMAIN BaseTables = 1 .. 8
      /\ {BaseTables[i] : i \in 1 .. 8} = BaseNames
  BY DEF BaseTables, BaseNames
<1>2. c = [i \in 1 .. 8 |-> <<"create", BaseTables[i]>>]
  BY <1>1 DEF Create
<1>3. \A i \in 1 .. 8 : BaseTables[i] \in BaseNames
  BY <1>1
<1>4. \A t \in BaseNames : <<"create", t>> \in Statements /\ <<"create", t>>[1] = "create"
  BY DEF Statements
<1>5. c \in Seq(Statements) /\ Len(c) = 8 /\ \A i \in 1 .. 8 : c[i] = <<"create", BaseTables[i]>>
  BY <1>2, <1>3, <1>4
<1> HIDE DEF c
<1>6. Of(c) = {<<"create", t>> : t \in BaseNames}
  <2>1. ASSUME NEW i \in 1 .. 8 PROVE c[i] \in {<<"create", t>> : t \in BaseNames}
    BY <1>3, <1>5, Zenon
  <2>2. ASSUME NEW t \in BaseNames PROVE <<"create", t>> \in Of(c)
    <3>1. PICK i \in 1 .. 8 : t = BaseTables[i]
      BY <1>1
    <3> QED
      BY <1>5, <3>1 DEF Of
  <2> QED
    BY <1>5, <2>1, <2>2, Zenon DEF Of
<1>7. Ops(c) = {"create"}
  BY <1>4, <1>6 DEF Ops, BaseNames
<1>8. Staged(c)
  BY <1>5, StageNat DEF Staged
<1> QED
  BY <1>5, <1>6, <1>7, <1>8 DEF Programs, c

\* migrate_to_v2.
LEMMA MigrationOf ==
    /\ Migration \in Programs
    /\ Of(Migration) = {<<"create", t>> : t \in HistoryNames} \cup {<<"update_version">>}
    /\ Ops(Migration) = {"create", "update_version"}
<1> DEFINE e == <<"create", "conversations">>
           f == <<"create", "messages">>
           g == <<"update_version">>
<1>1. Migration = <<e, f>> \o <<g>>
  <2>1. Create(HistoryTables) = <<e, f>>
    BY DEF Create, HistoryTables
  <2> QED
    BY <2>1 DEF Migration
<1>2. e \in Statements /\ f \in Statements /\ g \in Statements
  BY DEF Statements, HistoryNames, PlainOps
<1>3. e[1] = "create" /\ f[1] = "create" /\ g[1] = "update_version"
  OBVIOUS
<1>4. Stage("create") = 7 /\ Stage("update_version") = 8
  BY DEF Stage
<1>5. {<<"create", t>> : t \in HistoryNames} = {e, f}
  BY DEF HistoryNames
<1> HIDE DEF e, f, g
<1>6. /\ <<e, f>> \in Programs /\ Of(<<e, f>>) = {e, f} /\ Ops(<<e, f>>) = {e[1], f[1]}
      /\ <<g>> \in Programs /\ Of(<<g>>) = {g} /\ Ops(<<g>>) = {g[1]}
  BY <1>2, <1>3, <1>4, OneOf, TwoOf
<1>7. /\ <<e, f>> \o <<g>> \in Programs
      /\ Of(<<e, f>> \o <<g>>) = {e, f} \cup {g}
      /\ Ops(<<e, f>> \o <<g>>) = {e[1], f[1]} \cup {g[1]}
  BY <1>3, <1>4, <1>6, ConcatOf
<1> QED
  BY <1>1, <1>3, <1>5, <1>7 DEF g

\* The statements about one peer.
LEMMA PeerStatement ==
    \A op \in PeerOps, p \in Peers : <<op, p>> \in Statements /\ <<op, p>>[1] = op /\ <<op, p>>[2] = p
BY DEF Statements

\* Two statements about one peer: establish_session, sending, clear_peer_session.
LEMMA PeerCallOf ==
    ASSUME NEW p \in Peers, NEW a \in PeerOps, NEW b \in PeerOps, Stage(a) <= Stage(b)
    PROVE  /\ <<<<a, p>>, <<b, p>>>> \in Programs
           /\ Of(<<<<a, p>>, <<b, p>>>>) = {<<a, p>>, <<b, p>>}
           /\ Ops(<<<<a, p>>, <<b, p>>>>) = {a, b}
<1> DEFINE e == <<a, p>>
           f == <<b, p>>
<1>1. e \in Statements /\ f \in Statements /\ e[1] = a /\ f[1] = b
  BY PeerStatement
<1> HIDE DEF e, f
<1>2. <<e, f>> \in Programs /\ Of(<<e, f>>) = {e, f} /\ Ops(<<e, f>>) = {e[1], f[1]}
  BY <1>1, TwoOf
<1> QED
  BY <1>1, <1>2 DEF e, f

\* decrypt_message, in either order of its last two statements.
LEMMA DecryptOf ==
    ASSUME NEW p \in Peers, Decrypt(p)
    PROVE  /\ todo' \in Programs
           /\ Of(todo') = {<<"save_identity", p>>, <<"store_session", p>>, <<"remove_pre_key">>}
           /\ Ops(todo') = {"save_identity", "store_session", "remove_pre_key"}
<1> DEFINE e == <<"save_identity", p>>
           f == <<"store_session", p>>
           g == <<"remove_pre_key">>
<1>1. e \in Statements /\ f \in Statements /\ g \in Statements
  BY PeerStatement, PlainStatement DEF PeerOps, PlainOps
<1>2. /\ e[1] = "save_identity" /\ f[1] = "store_session" /\ g[1] = "remove_pre_key"
      /\ Stage("save_identity") = 1 /\ Stage("store_session") = 2 /\ Stage("remove_pre_key") = 2
  BY DEF Stage
<1>3. todo' = <<e, f, g>> \/ todo' = <<e, g, f>>
  <2>1. PICK i \in {2, 3} : todo' = [j \in 1 .. 3 |-> IF j = 1 THEN e ELSE IF j = i THEN f ELSE g]
    BY DEF Decrypt, Call
  <2> HIDE DEF e, f, g
  <2>2. CASE i = 2
    BY <2>1, <2>2
  <2>3. CASE i = 3
    BY <2>1, <2>3
  <2> QED
    BY <2>2, <2>3
<1> HIDE DEF e, f, g
<1>4. /\ <<e, f, g>> \in Programs /\ Of(<<e, f, g>>) = {e, f, g}
      /\ Ops(<<e, f, g>>) = {e[1], f[1], g[1]}
  BY <1>1, <1>2, ThreeOf
<1>5. /\ <<e, g, f>> \in Programs /\ Of(<<e, g, f>>) = {e, g, f}
      /\ Ops(<<e, g, f>>) = {e[1], g[1], f[1]}
  BY <1>1, <1>2, ThreeOf
<1>6. todo' \in Programs /\ Of(todo') = {e, f, g} /\ Ops(todo') = {e[1], f[1], g[1]}
  BY <1>3, <1>4, <1>5
<1> QED
  BY <1>2, <1>6 DEF e, f, g

\* perform_key_maintenance.
LEMMA MaintenanceOf ==
    ASSUME Maintenance
    PROVE  todo' \in Programs /\ Ops(todo') = {"rotate_signed", "rotate_kyber", "pre_keys"}
<1> DEFINE e == <<"rotate_signed">>
           f == <<"rotate_kyber">>
           g == <<"pre_keys">>
<1>1. e \in Statements /\ f \in Statements /\ g \in Statements
  BY PlainStatement DEF PlainOps
<1>2. /\ e[1] = "rotate_signed" /\ f[1] = "rotate_kyber" /\ g[1] = "pre_keys"
      /\ Stage("rotate_signed") = 14 /\ Stage("rotate_kyber") = 14 /\ Stage("pre_keys") = 14
  BY DEF Stage
<1>3. todo' = <<e, f, g>>
  BY DEF Maintenance, Call
<1> HIDE DEF e, f, g
<1>4. <<e, f, g>> \in Programs /\ Ops(<<e, f, g>>) = {e[1], f[1], g[1]}
  BY <1>1, <1>2, ThreeOf
<1> QED
  BY <1>2, <1>3, <1>4

\* cleanup_all_sessions.
LEMMA CleanupOf ==
    <<<<"clear_sessions">>>> \in Programs /\ Ops(<<<<"clear_sessions">>>>) = {"clear_sessions"}
<1> DEFINE e == <<"clear_sessions">>
<1>1. e \in Statements /\ e[1] = "clear_sessions"
  BY PlainStatement DEF PlainOps
<1> HIDE DEF e
<1>2. <<e>> \in Programs /\ Ops(<<e>>) = {e[1]}
  BY <1>1, OneOf
<1> QED
  BY <1>1, <1>2 DEF e

\* The end of reset_identity.
LEMMA ReturnedOf ==
    ASSUME NEW i \in Nat
    PROVE  /\ <<<<"returned", i>>>> \in Programs
           /\ Of(<<<<"returned", i>>>>) = {<<"returned", i>>}
           /\ Ops(<<<<"returned", i>>>>) = {"returned"}
<1> DEFINE e == <<"returned", i>>
<1>1. e \in Statements /\ e[1] = "returned"
  BY DEF Statements
<1> HIDE DEF e
<1>2. <<e>> \in Programs /\ Of(<<e>>) = {e} /\ Ops(<<e>>) = {e[1]}
  BY <1>1, OneOf
<1> QED
  BY <1>1, <1>2 DEF e

\* What reset_identity does after clear_all_sessions.
ResetOps ==
    {"clear_pre_keys", "clear_signed", "clear_kyber", "clear_local",
     "identity", "pre_keys", "signed_pre_key", "kyber_pre_key", "returned"}

\* reset_identity, once sessions are dealt with.
LEMMA ResetTailOf ==
    ASSUME NEW i \in Nat, NEW c \in Programs, Ops(c) \subseteq {"clear_sessions", "clear_identities"}
    PROVE  LET s == c \o Resetting \o EnsureKeys \o <<<<"returned", i>>>>
           IN  /\ s \in Programs
               /\ Ops(s) = Ops(c) \cup ResetOps
               /\ \A e \in Of(s) : e[1] = "returned" => e = <<"returned", i>>
<1> DEFINE r == <<<<"returned", i>>>>
           u == c \o Resetting
           v == u \o EnsureKeys
           w == v \o r
<1>1. /\ Stage("clear_sessions") = 9 /\ Stage("clear_identities") = 10
      /\ Stage("clear_pre_keys") = 11 /\ Stage("clear_signed") = 11 /\ Stage("clear_kyber") = 11
      /\ Stage("clear_local") = 12 /\ Stage("identity") = 13 /\ Stage("pre_keys") = 14
      /\ Stage("signed_pre_key") = 14 /\ Stage("kyber_pre_key") = 14 /\ Stage("returned") = 15
  BY DEF Stage
<1>2. u \in Programs /\ Of(u) = Of(c) \cup Of(Resetting) /\ Ops(u) = Ops(c) \cup Ops(Resetting)
  BY <1>1, ResettingOf, ConcatOf
<1> HIDE DEF u
<1>3. /\ v \in Programs /\ Of(v) = Of(u) \cup Of(EnsureKeys)
      /\ Ops(v) = Ops(u) \cup Ops(EnsureKeys)
  BY <1>1, <1>2, ResettingOf, EnsureKeysOf, ConcatOf
<1>4. r \in Programs /\ Of(r) = {<<"returned", i>>} /\ Ops(r) = {"returned"}
  BY ReturnedOf
<1> HIDE DEF v, r
<1>5. w \in Programs /\ Of(w) = Of(v) \cup Of(r) /\ Ops(w) = Ops(v) \cup Ops(r)
  BY <1>1, <1>2, <1>3, <1>4, ResettingOf, EnsureKeysOf, ConcatOf
<1> HIDE DEF w
<1>6. Ops(w) = Ops(c) \cup ResetOps
  BY <1>2, <1>3, <1>4, <1>5, ResettingOf, EnsureKeysOf DEF ResetOps
<1>7. ASSUME NEW e \in Of(w), e[1] = "returned" PROVE e = <<"returned", i>>
  <2>1. \A f \in Of(v) : f[1] \in Ops(v)
    BY DEF Ops
  <2>2. "returned" \notin Ops(v)
    BY <1>2, <1>3, ResettingOf, EnsureKeysOf
  <2> QED
    BY <1>4, <1>5, <1>7, <2>1, <2>2
<1> QED
  BY <1>5, <1>6, <1>7 DEF w, v, u, r

\* The identities of the calls of reset_identity.
LEMMA ResetOf ==
    ASSUME ResetIdentity \/ ResetUncounted, local.identity \in Nat
    PROVE  /\ todo' \in Programs
           /\ Ops(todo') \in {ResetOps, ResetOps \cup {"clear_sessions", "clear_identities"}}
           /\ \A e \in Of(todo') : e[1] = "returned" => e = <<"returned", local.identity>>
           /\ "clear_sessions" \in Ops(todo') \/ NoSessions \/ misread'
<1> DEFINE r == <<<<"returned", local.identity>>>>
<1>1. CASE ResetIdentity
  <2> DEFINE s == ClearAll \o Resetting \o EnsureKeys \o r
  <2>1. todo' = s
    BY <1>1 DEF ResetIdentity, Call
  <2>2. Ops(ClearAll) \subseteq {"clear_sessions", "clear_identities"} /\ ClearAll \in Programs
    BY ClearAllOf
  <2>3. /\ s \in Programs
        /\ Ops(s) = Ops(ClearAll) \cup ResetOps
        /\ \A e \in Of(s) : e[1] = "returned" => e = <<"returned", local.identity>>
    BY <2>2, ResetTailOf
  <2>4. \/ Ops(ClearAll) = {} /\ NoSessions
        \/ Ops(ClearAll) = {"clear_sessions", "clear_identities"}
    BY ClearAllOf DEF NoSessions
  <2> HIDE DEF s, r
  <2> QED
    BY <2>1, <2>3, <2>4
<1>2. CASE ResetUncounted
  <2> DEFINE s == <<>> \o Resetting \o EnsureKeys \o r
  <2>1. <<>> \o Resetting = Resetting
    BY ResettingOf DEF Programs
  <2>2. todo' = s
    BY <1>2, <2>1 DEF ResetUncounted
  <2>3. /\ s \in Programs
        /\ Ops(s) = Ops(<<>>) \cup ResetOps
        /\ \A e \in Of(s) : e[1] = "returned" => e = <<"returned", local.identity>>
    BY NothingOf, ResetTailOf, Zenon
  <2>4. misread'
    BY <1>2 DEF ResetUncounted
  <2> HIDE DEF s, r
  <2> QED
    BY <2>2, <2>3, <2>4, NothingOf
<1> QED
  BY <1>1, <1>2

\* What the calls of a running bridge consist of.
CallOps ==
    ResetOps \cup {"clear_sessions", "clear_identities", "save_identity", "store_session",
                   "event", "remove_pre_key", "delete_session", "delete_identity",
                   "rotate_signed", "rotate_kyber"}

\* Of these, a call that stores a session has its own only.
StoreOps == {"save_identity", "store_session", "remove_pre_key"}

\* The calls of a running bridge are programs.
LEMMA CallsOf ==
    ASSUME Calls, local.identity \in Nat
    PROVE  \/ todo' = todo
           \/ /\ todo' \in Programs
              /\ Ops(todo') \subseteq CallOps
              /\ "store_session" \in Ops(todo') => Ops(todo') \subseteq StoreOps
              /\ \/ Ops(todo') \cap (SigningOps \cup {"returned", "clear_local"}) = {}
                 \/ Maintenance \/ ResetIdentity \/ ResetUncounted
<1>1. ASSUME NEW p \in Peers, EstablishSession(p)
      PROVE  todo' \in Programs /\ Ops(todo') = {"save_identity", "store_session"}
  <2>1. Stage("save_identity") <= Stage("store_session")
    BY DEF Stage
  <2> QED
    BY <1>1, <2>1, PeerCallOf, Zenon DEF EstablishSession, Call, PeerOps
<1>2. ASSUME NEW p \in Peers, Send(p)
      PROVE  todo' \in Programs /\ Ops(todo') = {"save_identity", "event"}
  <2>1. Stage("save_identity") <= Stage("event")
    BY DEF Stage
  <2> QED
    BY <1>2, <2>1, PeerCallOf, Zenon DEF Send, Call, PeerOps
<1>3. ASSUME NEW p \in Peers, ClearPeerSession(p)
      PROVE  todo' \in Programs /\ Ops(todo') = {"delete_session", "delete_identity"}
  <2>1. Stage("delete_session") <= Stage("delete_identity")
    BY DEF Stage
  <2> QED
    BY <1>3, <2>1, PeerCallOf, Zenon DEF ClearPeerSession, Call, PeerOps
<1>4. ASSUME NEW p \in Peers, Decrypt(p)
      PROVE  todo' \in Programs /\ Ops(todo') = {"save_identity", "store_session", "remove_pre_key"}
  BY <1>4, DecryptOf
<1>5. ASSUME ClearAllSessions
      PROVE  todo' \in Programs /\ Ops(todo') \subseteq {"clear_sessions", "clear_identities"}
  BY <1>5, ClearAllOf DEF ClearAllSessions, Call
<1>6. ASSUME CleanupAllSessions PROVE todo' \in Programs /\ Ops(todo') = {"clear_sessions"}
  BY <1>6, CleanupOf DEF CleanupAllSessions, Call
<1>7. ASSUME Publish PROVE todo' = todo
  BY <1>7 DEF Publish
<1>8. ASSUME ResetIdentity \/ ResetUncounted
      PROVE  /\ todo' \in Programs
             /\ Ops(todo') \subseteq ResetOps \cup {"clear_sessions", "clear_identities"}
  BY <1>8, ResetOf
<1>9. \/ \E p \in Peers : EstablishSession(p) \/ Decrypt(p) \/ Send(p) \/ ClearPeerSession(p)
      \/ Maintenance \/ Publish \/ ClearAllSessions \/ CleanupAllSessions
      \/ ResetIdentity \/ ResetUncounted
  BY DEF Calls
<1> QED
  BY <1>1, <1>2, <1>3, <1>4, <1>5, <1>6, <1>7, <1>8, <1>9, MaintenanceOf
     DEF CallOps, ResetOps, StoreOps, SigningOps

\* The statements that follow select_version.
LEMMA SelectOf ==
    ASSUME SelectVersion
    PROVE  /\ todo' \in Programs /\ todo' # <<>>
           /\ Ops(todo') \subseteq {"create", "update_version", "identity", "pre_keys",
                                    "signed_pre_key", "kyber_pre_key"}
           /\ "identity" \in Ops(todo')
           /\ \A t \in BaseNames : <<"create", t>> \in Of(todo')
           /\ \/ \A t \in HistoryNames : <<"create", t>> \in Of(todo')
              \/ ~(versions[1] < 2) /\ "update_version" \notin Ops(todo')
<1> DEFINE m == IF versions[1] < 2 THEN Migration ELSE <<>>
           u == Create(BaseTables) \o m
           v == u \o EnsureKeys
<1>1. /\ Stage("create") = 7 /\ Stage("update_version") = 8 /\ Stage("identity") = 13
      /\ Stage("pre_keys") = 14 /\ Stage("signed_pre_key") = 14 /\ Stage("kyber_pre_key") = 14
  BY DEF Stage
<1>2. /\ m \in Programs /\ Ops(m) \subseteq {"create", "update_version"}
      /\ \/ \A t \in HistoryNames : <<"create", t>> \in Of(m)
         \/ ~(versions[1] < 2) /\ Ops(m) = {}
  BY MigrationOf, NothingOf
<1>3. todo' = v
  BY DEF SelectVersion, GoOn
<1> HIDE DEF m
<1>4. u \in Programs /\ Of(u) = Of(Create(BaseTables)) \cup Of(m) /\ Ops(u) = {"create"} \cup Ops(m)
  BY <1>1, <1>2, BaseOf, ConcatOf
<1> HIDE DEF u
<1>5. v \in Programs /\ Of(v) = Of(u) \cup Of(EnsureKeys) /\ Ops(v) = Ops(u) \cup Ops(EnsureKeys)
  BY <1>1, <1>2, <1>4, EnsureKeysOf, ConcatOf
<1> HIDE DEF v
<1>6. v # <<>>
  BY <1>5, EnsureKeysOf, NothingOf
<1> QED
  BY <1>2, <1>3, <1>4, <1>5, <1>6, BaseOf, EnsureKeysOf

\* What a start runs once it has the key.
LEMMA OpeningTail ==
    /\ Tail(Opening) \in Programs
    /\ Ops(Tail(Opening)) = {"schema_info", "insert_version", "select_version"}
<1>1. Tail(Opening) = <<<<"schema_info">>, <<"insert_version">>, <<"select_version">>>>
  BY DEF Opening
<1> DEFINE a == <<"schema_info">>
           b == <<"insert_version">>
           c == <<"select_version">>
<1>2. a \in Statements /\ b \in Statements /\ c \in Statements
  BY PlainStatement DEF PlainOps
<1>3. /\ a[1] = "schema_info" /\ b[1] = "insert_version" /\ c[1] = "select_version"
      /\ Stage("schema_info") = 4 /\ Stage("insert_version") = 5 /\ Stage("select_version") = 6
  BY DEF Stage
<1> HIDE DEF a, b, c
<1>4. <<a, b, c>> \in Programs /\ Ops(<<a, b, c>>) = {a[1], b[1], c[1]}
  BY <1>2, <1>3, ThreeOf
<1> QED
  BY <1>1, <1>3, <1>4, Zenon DEF a, b, c

\* get_or_create_db_key stores a new key before the database is opened.
LEMMA KeyNotReadOf ==
    ASSUME ProgramInv, KeyNotRead
    PROVE  /\ todo' \in Programs /\ todo' # <<>>
           /\ Ops(todo') = {"create_key_file", "write_key_file", "schema_info", "insert_version",
                            "select_version"}
<1> DEFINE e == <<"create_key_file">>
           f == <<"write_key_file">>
<1>1. todo # <<>> /\ todo \in Programs /\ todo[1][1] = "retrieve_key"
  BY DEF KeyNotRead, Doing, ProgramInv
<1>2. todo = Opening
  BY <1>1, TailOf DEF ProgramInv
<1>3. /\ Tail(todo) \in Programs
      /\ Ops(Tail(todo)) = {"schema_info", "insert_version", "select_version"}
  BY <1>2, OpeningTail
<1>4. e \in Statements /\ f \in Statements /\ e[1] = "create_key_file" /\ f[1] = "write_key_file"
  BY PlainStatement DEF PlainOps
<1>5. /\ Stage("create_key_file") = 2 /\ Stage("write_key_file") = 3 /\ Stage("schema_info") = 4
      /\ Stage("insert_version") = 5 /\ Stage("select_version") = 6
  BY DEF Stage
<1>6. todo' = <<e, f>> \o Tail(todo)
  BY DEF KeyNotRead, GoOn
<1> HIDE DEF e, f
<1>7. <<e, f>> \in Programs /\ Ops(<<e, f>>) = {"create_key_file", "write_key_file"}
  BY <1>4, <1>5, TwoOf
<1>8. /\ todo' \in Programs
      /\ Ops(todo') = {"create_key_file", "write_key_file"}
                          \cup {"schema_info", "insert_version", "select_version"}
  BY <1>3, <1>5, <1>6, <1>7, ConcatOf
<1>9. todo' # <<>>
  BY <1>8, NothingOf
<1> QED
  BY <1>8, <1>9

\* A new identity is followed by its registration id.
LEMMA NewIdentityOf ==
    ASSUME ProgramInv, NewIdentity
    PROVE  /\ todo' \in Programs /\ todo' # <<>>
           /\ Of(todo') = {<<"registration">>} \cup Of(Tail(todo))
           /\ Ops(todo') = {"registration"} \cup Ops(Tail(todo))
<1> DEFINE e == <<"registration">>
<1>1. todo # <<>> /\ todo \in Programs /\ todo[1][1] = "identity"
  BY DEF NewIdentity, Doing, ProgramInv
<1>2. e \in Statements /\ e[1] = "registration"
  BY PlainStatement DEF PlainOps
<1>3. Stage("identity") = 13 /\ Stage("registration") = 13
  BY DEF Stage
<1>4. todo' = <<e>> \o Tail(todo)
  BY DEF NewIdentity, GoOn
<1> HIDE DEF e
<1>5. <<e>> \in Programs /\ Of(<<e>>) = {e} /\ Ops(<<e>>) = {"registration"}
  BY <1>2, OneOf
<1>6. Tail(todo) \in Programs /\ \A op \in Ops(Tail(todo)) : Stage("registration") <= Stage(op)
  BY <1>1, <1>3, TailOf
<1>7. /\ todo' \in Programs
      /\ Of(todo') = {e} \cup Of(Tail(todo))
      /\ Ops(todo') = {"registration"} \cup Ops(Tail(todo))
  BY <1>4, <1>5, <1>6, ConcatOf
<1>8. todo' # <<>>
  BY <1>7, NothingOf
<1> QED
  BY <1>7, <1>8 DEF e

-----------------------------------------------------------------------------
(* Steps.                                                                  *)

\* The stages of the statements.
LEMMA Stages ==
    /\ Stage("save_identity") = 1 /\ Stage("delete_session") = 1
    /\ Stage("retrieve_key") = 1 /\ Stage("store_session") = 2
    /\ Stage("remove_pre_key") = 2 /\ Stage("event") = 2
    /\ Stage("delete_identity") = 2 /\ Stage("create_key_file") = 2
    /\ Stage("write_key_file") = 3 /\ Stage("schema_info") = 4
    /\ Stage("insert_version") = 5 /\ Stage("select_version") = 6
    /\ Stage("create") = 7 /\ Stage("update_version") = 8
    /\ Stage("clear_sessions") = 9 /\ Stage("clear_identities") = 10
    /\ Stage("clear_pre_keys") = 11 /\ Stage("clear_signed") = 11
    /\ Stage("clear_kyber") = 11 /\ Stage("clear_local") = 12
    /\ Stage("identity") = 13 /\ Stage("registration") = 13
    /\ Stage("pre_keys") = 14 /\ Stage("signed_pre_key") = 14
    /\ Stage("kyber_pre_key") = 14 /\ Stage("rotate_signed") = 14
    /\ Stage("rotate_kyber") = 14 /\ Stage("returned") = 15
BY DEF Stage

\* What is stored or deleted of a peer, in its order.
LEMMA PeerStages ==
    /\ Stage("save_identity") <= Stage("store_session")
    /\ Stage("save_identity") <= Stage("event")
    /\ Stage("delete_session") <= Stage("delete_identity")
BY Stages

\* The statement a call runs is the first of those to come.
LEMMA DoneOf ==
    ASSUME ProgramInv, NEW op, Doing(op), Done
    PROVE  /\ todo' \in Programs /\ todo # <<>>
           /\ todo[1] \in Statements /\ todo[1][1] = op
           /\ Of(todo) = {todo[1]} \cup Of(todo')
           /\ Ops(todo) = {op} \cup Ops(todo')
           /\ \A o \in Ops(todo') : Stage(op) <= Stage(o)
BY TailOf DEF ProgramInv, Doing, Done, GoOn

\* The steps that run one statement and go on with the next.
OpenRuns ==
    RetrieveKey \/ CreateKeyFile \/ WriteKeyFile \/ SchemaInfo \/ InsertVersion \/ CreateTable
        \/ UpdateVersion

EnsureRuns == IdentityThere \/ SetRegistrationId \/ EnsurePreKeys \/ EnsureSigned \/ EnsureKyber

\* A call that stops, by its end or an error.
Stops == Fail \/ End \/ NotADatabase

\* The steps there are.
LEMMA Cases ==
    ASSUME [Next]_vars
    PROVE  \/ OpenRuns \/ EnsureRuns \/ Stores \/ Clears
           \/ KeyNotRead \/ SelectVersion \/ NewIdentity
           \/ Start \/ Calls \/ Stops \/ UNCHANGED vars
BY DEF Next, Statement, Opens, Ensures, OpenRuns, EnsureRuns, Stops

\* A call that stops has nothing to run.
LEMMA StopsOf ==
    ASSUME Stops
    PROVE  /\ todo' = <<>> /\ todo' \in Programs /\ Of(todo') = {} /\ Ops(todo') = {}
           /\ process' # "starting"
           /\ process' \in {process, "down"}
           /\ UNCHANGED <<files, schema, local, ownKeys, peers, starts, drawn, history>>
BY NothingOf DEF Stops, Fail, End, NotADatabase

\* A call that begins changes nothing else; Publish and ResetUncounted change
\* history variables.
LEMMA CallsFrame ==
    ASSUME Calls
    PROVE  /\ UNCHANGED <<files, schema, local, ownKeys, peers, process, key, starts, drawn, retired>>
           /\ misread' = misread \/ (misread' /\ ResetUncounted)
           /\ published' = published \/ Publish
           /\ process = "running"
BY Zenon DEF Calls, EstablishSession, Decrypt, Send, ClearPeerSession, Maintenance, Publish,
       ClearAllSessions, CleanupAllSessions, ResetIdentity, ResetUncounted, Call, Ready, history

\* A bundle that is published is the identity's, with keys that are stored.
LEMMA PublishOf ==
    ASSUME Publish
    PROVE  /\ local.identity # 0 /\ todo = <<>> /\ todo' = todo
           /\ \A b \in published' : \/ b \in published
                                    \/ /\ b.identity = local.identity
                                       /\ b.registration = local.registration
                                       /\ b.signed \in signed /\ b.kyber \in kyber
<1>1. local.identity # 0 /\ todo = <<>> /\ todo' = todo
  BY DEF Publish, Ready
<1>2. PICK s \in signed, k \in kyber :
         published' = published \cup {[identity |-> local.identity, signed |-> s, kyber |-> k,
                                       registration |-> local.registration]}
  BY Zenon DEF Publish
<1>3. ASSUME NEW b \in published', b \notin published
      PROVE  /\ b.identity = local.identity /\ b.registration = local.registration
             /\ b.signed \in signed /\ b.kyber \in kyber
  <2>1. b = [identity |-> local.identity, signed |-> s, kyber |-> k,
             registration |-> local.registration]
    BY <1>2, <1>3, Zenon
  <2> QED
    BY <2>1
<1> QED
  BY <1>1, <1>3, Zenon

\* The statements to come stay in order.
LEMMA ProgramStep ==
    ASSUME ProgramInv, local.identity \in Nat, [Next]_vars
    PROVE  ProgramInv'
<1>1. ASSUME NEW op, Doing(op), Done PROVE ProgramInv'
  <2>1. /\ todo' \in Programs /\ Ops(todo') \subseteq Ops(todo)
    BY <1>1, DoneOf
  <2>2. /\ process' = "starting" => todo' # <<>>
        /\ process' \in {"starting", "running"}
    BY <1>1 DEF Done, GoOn, Doing, ProgramInv
  <2>3. "retrieve_key" \notin Ops(todo')
    <3>1. SUFFICES ASSUME "retrieve_key" \in Ops(todo') PROVE FALSE
      OBVIOUS
    <3>2. todo = Opening
      BY <2>1, <3>1 DEF ProgramInv
    <3>3. todo' = Tail(Opening)
      BY <1>1, <3>2 DEF Done, GoOn
    <3> QED
      BY <3>1, <3>3, OpeningTail
  <2> QED
    BY <2>1, <2>2, <2>3 DEF ProgramInv
<1>2. CASE OpenRuns
  BY <1>1, <1>2 DEF OpenRuns, RetrieveKey, CreateKeyFile, WriteKeyFile, SchemaInfo, InsertVersion,
                    CreateTable, UpdateVersion
<1>3. CASE EnsureRuns
  BY <1>1, <1>3 DEF EnsureRuns, IdentityThere, SetRegistrationId, EnsurePreKeys, EnsureSigned,
                    EnsureKyber
<1>4. CASE Stores
  BY <1>1, <1>4, Zenon DEF Stores, SaveIdentity, StoreSession, RemovePreKey, CreateAndSign, RotateSigned,
                    RotateKyber
<1>5. CASE Clears
  BY <1>1, <1>5 DEF Clears, DeleteSession, DeleteIdentity, ClearSessions, ClearIdentities,
                    ClearPreKeys, ClearSigned, ClearKyber, ClearLocal, ResetReturns
<1>6. CASE KeyNotRead
  BY <1>6, KeyNotReadOf, Zenon DEF ProgramInv, KeyNotRead, GoOn, Doing
<1>7. CASE SelectVersion
  BY <1>7, SelectOf, Zenon DEF ProgramInv, SelectVersion, GoOn, Doing
<1>8. CASE NewIdentity
  <2>1. /\ todo' \in Programs /\ todo' # <<>> /\ Ops(todo') = {"registration"} \cup Ops(Tail(todo))
    BY <1>8, NewIdentityOf
  <2>2. /\ Ops(todo) = {"identity"} \cup Ops(Tail(todo))
        /\ \A o \in Ops(Tail(todo)) : Stage("identity") <= Stage(o)
    BY <1>8, TailOf DEF ProgramInv, NewIdentity, Doing
  <2>3. "retrieve_key" \notin Ops(todo') /\ "store_session" \notin Ops(todo')
    BY <2>1, <2>2, Stages
  <2>4. process' \in {"starting", "running"}
    BY <1>8, <2>1 DEF ProgramInv, NewIdentity, GoOn, Doing
  <2> QED
    BY <2>1, <2>3, <2>4 DEF ProgramInv
<1>9. CASE Start
  BY <1>9, OpeningOf, NothingOf DEF Start, ProgramInv
<1>10. CASE Calls
  <2>1. CASE todo' = todo
    BY <1>10, <2>1, CallsFrame DEF ProgramInv
  <2>2. CASE /\ todo' \in Programs
             /\ Ops(todo') \subseteq CallOps
             /\ "store_session" \in Ops(todo') => Ops(todo') \subseteq StoreOps
    <3>1. process' = "running"
      BY <1>10, CallsFrame
    <3> QED
      BY <2>2, <3>1 DEF ProgramInv, CallOps, ResetOps, StoreOps
  <2> QED
    BY <1>10, <2>1, <2>2, CallsOf
<1>11. CASE Stops
  BY <1>11, StopsOf DEF ProgramInv
<1>12. CASE UNCHANGED vars
  BY <1>12 DEF vars, ProgramInv
<1> QED
  BY <1>2, <1>3, <1>4, <1>5, <1>6, <1>7, <1>8, <1>9, <1>10, <1>11, <1>12, Cases

-----------------------------------------------------------------------------
(* The key file and the database.                                          *)

\* The key file keeps opening the database.
LEMMA KeyStep ==
    ASSUME ProgramInv, KeyInv, local.identity \in Nat, [Next]_vars
    PROVE  KeyInv'
<1> USE DEF files, schema, history
<1>1. CASE RetrieveKey
  <2>1. /\ Ops(todo) = {"retrieve_key"} \cup Ops(todo')
        /\ key' = keyFile /\ keyFile \notin {Absent, Short}
        /\ UNCHANGED <<files, starts, misread>>
    BY <1>1, DoneOf DEF RetrieveKey
  <2> QED
    BY <2>1 DEF Absent, Short, KeyInv, KeyFileOpensDatabase
<1>2. CASE KeyNotRead
  <2>1. Ops(todo') = {"create_key_file", "write_key_file", "schema_info", "insert_version",
                      "select_version"}
    BY <1>2, KeyNotReadOf
  <2>2. UNCHANGED <<files, key, starts>> /\ misread' = (misread \/ keyFile \notin {Absent, Short})
    BY <1>2 DEF KeyNotRead
  <2>3. misread' \/ dbKey = 0
    <3>1. keyFile \notin {Absent, Short} => misread'
      BY <2>2, Zenon
    <3>2. misread => misread'
      BY <2>2, Zenon
    <3>3. keyFile \in {Absent, Short} => misread \/ dbKey = 0
      BY DEF Absent, Short, KeyInv, KeyFileOpensDatabase
    <3> QED
      BY <3>1, <3>2, <3>3
  <2>4. misread' \in BOOLEAN /\ (misread => misread')
    BY <2>2 DEF KeyInv, KeyFileOpensDatabase
  <2> QED
    BY <2>1, <2>2, <2>3, <2>4 DEF KeyInv, KeyFileOpensDatabase
<1>3. CASE CreateKeyFile
  <2>1. /\ Ops(todo) = {"create_key_file"} \cup Ops(todo')
        /\ \A o \in Ops(todo') : Stage("create_key_file") <= Stage(o)
        /\ keyFile' = Short /\ UNCHANGED <<dbKey, key, starts, misread>>
    BY <1>3, DoneOf DEF CreateKeyFile
  <2>2. "write_key_file" \in Ops(todo') /\ (misread \/ dbKey = 0)
    BY <2>1 DEF KeyInv, KeyFileOpensDatabase
  <2> QED
    BY <2>1, <2>2 DEF KeyInv, KeyFileOpensDatabase
<1>4. CASE WriteKeyFile
  <2>1. /\ Ops(todo) = {"write_key_file"} \cup Ops(todo')
        /\ \A o \in Ops(todo') : Stage("write_key_file") <= Stage(o)
        /\ keyFile' = starts /\ key' = starts /\ UNCHANGED <<dbKey, starts, misread>>
    BY <1>4, DoneOf DEF WriteKeyFile
  <2>2. "create_key_file" \notin Ops(todo')
    <3>1. Stage("write_key_file") = 3 /\ Stage("create_key_file") = 2
      BY Stages, Zenon
    <3> QED
      BY <2>1, <3>1
  <2> QED
    BY <2>1, <2>2 DEF KeyInv, KeyFileOpensDatabase
<1>5. CASE SchemaInfo
  <2>1. /\ Ops(todo) = {"schema_info"} \cup Ops(todo')
        /\ \A o \in Ops(todo') : Stage("schema_info") <= Stage(o)
        /\ dbKey' = key /\ UNCHANGED <<keyFile, key, starts, misread>>
    BY <1>5, DoneOf DEF SchemaInfo
  <2>2. Ops(todo') \cap {"create_key_file", "write_key_file", "retrieve_key"} = {}
    <3>1. /\ Stage("schema_info") = 4 /\ Stage("create_key_file") = 2 /\ Stage("write_key_file") = 3
          /\ Stage("retrieve_key") = 1
      BY Stages, Zenon
    <3> QED
      BY <2>1, <3>1
  <2>3. key = keyFile
    BY <2>1, <2>2 DEF KeyInv, KeyFileOpensDatabase
  <2> QED
    BY <2>1, <2>2, <2>3 DEF KeyInv, KeyFileOpensDatabase
<1>6. ASSUME NEW op,
             op \notin {"retrieve_key", "create_key_file", "write_key_file", "schema_info"},
             Doing(op), Done, UNCHANGED <<files, key, starts, misread>>
      PROVE  KeyInv'
  <2>1. Ops(todo) = {op} \cup Ops(todo')
    BY <1>6, DoneOf
  <2> QED
    BY <1>6, <2>1 DEF KeyInv, KeyFileOpensDatabase
<1>7. CASE InsertVersion \/ CreateTable \/ UpdateVersion
  BY <1>6, <1>7 DEF InsertVersion, CreateTable, UpdateVersion
<1>8. CASE EnsureRuns
  BY <1>6, <1>8 DEF EnsureRuns, IdentityThere, SetRegistrationId, EnsurePreKeys, EnsureSigned,
                    EnsureKyber
<1>9. CASE Stores
  BY <1>6, <1>9, Zenon DEF Stores, SaveIdentity, StoreSession, RemovePreKey, CreateAndSign, RotateSigned,
                    RotateKyber
<1>10. CASE Clears
  BY <1>6, <1>10 DEF Clears, DeleteSession, DeleteIdentity, ClearSessions, ClearIdentities,
                     ClearPreKeys, ClearSigned, ClearKyber, ClearLocal, ResetReturns
<1>11. CASE SelectVersion
  BY <1>11, SelectOf DEF SelectVersion, KeyInv, KeyFileOpensDatabase
<1>12. CASE NewIdentity
  <2>1. Ops(todo') = {"registration"} \cup Ops(Tail(todo))
    BY <1>12, NewIdentityOf
  <2>2. Ops(todo) = {"identity"} \cup Ops(Tail(todo))
    BY <1>12, TailOf DEF ProgramInv, NewIdentity, Doing
  <2>3. UNCHANGED <<files, key, starts>> /\ misread' = (misread \/ local.identity # 0)
    BY <1>12 DEF NewIdentity
  <2>4. misread' \in BOOLEAN /\ (misread => misread')
    BY <2>3 DEF KeyInv, KeyFileOpensDatabase
  <2> QED
    BY <2>1, <2>2, <2>3, <2>4 DEF KeyInv, KeyFileOpensDatabase
<1>13. CASE Start
  BY <1>13, OpeningOf DEF Start, KeyInv, KeyFileOpensDatabase
<1>14. CASE Calls
  <2>1. UNCHANGED <<files, key, starts>> /\ misread' \in BOOLEAN /\ (misread => misread')
    BY <1>14, CallsFrame, Zenon DEF ResetUncounted, KeyInv, KeyFileOpensDatabase
  <2>2. CASE todo' = todo
    BY <2>1, <2>2 DEF KeyInv, KeyFileOpensDatabase
  <2>3. CASE Ops(todo') \subseteq CallOps
    BY <2>1, <2>3 DEF CallOps, ResetOps, KeyInv, KeyFileOpensDatabase
  <2> QED
    BY <1>14, <2>2, <2>3, CallsOf
<1>15. CASE Stops
  <2>1. key' \in Nat
    BY <1>15 DEF Stops, Fail, End, NotADatabase, KeyInv
  <2> QED
    BY <1>15, <2>1, StopsOf DEF KeyInv, KeyFileOpensDatabase
<1>16. CASE UNCHANGED vars
  BY <1>16 DEF vars, KeyInv, KeyFileOpensDatabase
<1> QED
  BY <1>1, <1>2, <1>3, <1>4, <1>5, <1>7, <1>8, <1>9, <1>10, <1>11, <1>12, <1>13, <1>14, <1>15, <1>16,
     Cases, Zenon DEF OpenRuns

-----------------------------------------------------------------------------
(* The schema.                                                             *)

\* The tables there should be.
LEMMA TableNames ==
    /\ {BaseTables[i] : i \in DOMAIN BaseTables} = BaseNames
    /\ {HistoryTables[i] : i \in DOMAIN HistoryTables} = HistoryNames
BY DEF BaseTables, BaseNames, HistoryTables, HistoryNames

\* A start that has run its last statement has every table.
LEMMA TablesAtEnd ==
    ASSUME ProgramInv, SchemaInv, NEW op, Doing(op), Done, op # "select_version",
           tables \subseteq tables', op = "create" => todo[1][2] \in tables'
    PROVE  SchemaComplete'
<1> SUFFICES ASSUME process' = "running" PROVE BaseNames \cup HistoryNames \subseteq tables'
  BY TableNames DEF SchemaComplete
<1>1. CASE process = "running"
  BY <1>1, TableNames DEF SchemaInv, SchemaComplete
<1>2. CASE process = "starting"
  <2>1. todo' = <<>>
    BY <1>2 DEF Done, GoOn
  <2>2. Of(todo) = {todo[1]} /\ Ops(todo) = {op} /\ todo[1][1] = op
    BY <2>1, DoneOf, NothingOf
  <2>3. \A t \in BaseNames \cup HistoryNames : t \in tables \/ <<"create", t>> = todo[1]
    BY <1>2, <2>2 DEF SchemaInv
  <2>4. \A t \in BaseNames \cup HistoryNames : <<"create", t>> = todo[1] => t \in tables'
    BY <2>2
  <2> QED
    BY <2>3, <2>4
<1>3. process # "down"
  BY DEF ProgramInv, Doing
<1> QED
  BY <1>1, <1>2, <1>3 DEF ProgramInv

\* Tables are there or to be created, and the version tells which.
LEMMA SchemaStep ==
    ASSUME ProgramInv, SchemaInv, local.identity \in Nat, [Next]_vars
    PROVE  SchemaInv'
<1> USE DEF files, schema
<1>1. ASSUME NEW op, op \notin {"insert_version", "select_version", "create", "update_version"},
             Doing(op), Done, versions' = versions, tables \subseteq tables'
      PROVE  SchemaInv'
  <2>1. Ops(todo) = {op} \cup Ops(todo') /\ Of(todo) = {todo[1]} \cup Of(todo') /\ todo[1][1] = op
    BY <1>1, DoneOf
  <2>2. SchemaComplete'
    BY <1>1, TablesAtEnd
  <2>3. \A t : <<"create", t>> \in Of(todo) => <<"create", t>> \in Of(todo')
    BY <1>1, <2>1
  <2>4. process' = "starting" => process = "starting"
    BY <1>1 DEF Done, GoOn
  <2> QED
    BY <1>1, <2>1, <2>2, <2>3, <2>4 DEF SchemaInv
<1>2. CASE InsertVersion
  <2>1. /\ Ops(todo) = {"insert_version"} \cup Ops(todo')
        /\ Of(todo) = {todo[1]} \cup Of(todo') /\ todo[1][1] = "insert_version"
    BY <1>2, DoneOf DEF InsertVersion
  <2>2. versions' = Append(versions, 1) /\ tables' = tables
    BY <1>2 DEF InsertVersion
  <2>3. SchemaComplete'
    BY <1>2, <2>2, TablesAtEnd DEF InsertVersion
  <2>4. \A t : <<"create", t>> \in Of(todo) => <<"create", t>> \in Of(todo')
    BY <2>1
  <2>5. process' = "starting" => process = "starting"
    BY <1>2 DEF InsertVersion, Done, GoOn
  <2>6. /\ versions' \in Seq({1, 2}) /\ versions' # <<>>
        /\ versions'[1] = 2 => versions # <<>> /\ versions[1] = 2
    BY <2>2 DEF SchemaInv
  <2> QED
    BY <2>1, <2>2, <2>3, <2>4, <2>5, <2>6 DEF SchemaInv
<1>3. CASE CreateTable
  <2>1. /\ Ops(todo) = {"create"} \cup Ops(todo')
        /\ Of(todo) = {todo[1]} \cup Of(todo') /\ todo[1][1] = "create"
    BY <1>3, DoneOf DEF CreateTable
  <2>2. versions' = versions /\ tables' = tables \cup {todo[1][2]}
    BY <1>3 DEF CreateTable
  <2>3. SchemaComplete'
    BY <1>3, <2>2, TablesAtEnd DEF CreateTable
  <2>4. ASSUME NEW t, <<"create", t>> \in Of(todo)
        PROVE  <<"create", t>> \in Of(todo') \/ t \in tables'
    <3>1. <<"create", t>> = todo[1] => t = todo[1][2]
      OBVIOUS
    <3> QED
      BY <2>1, <2>2, <2>4, <3>1
  <2>5. process' = "starting" => process = "starting"
    BY <1>3 DEF CreateTable, Done, GoOn
  <2> QED
    BY <2>1, <2>2, <2>3, <2>4, <2>5 DEF SchemaInv
<1>4. CASE UpdateVersion
  <2>1. /\ Ops(todo) = {"update_version"} \cup Ops(todo')
        /\ Of(todo) = {todo[1]} \cup Of(todo') /\ todo[1][1] = "update_version"
        /\ \A o \in Ops(todo') : Stage("update_version") <= Stage(o)
    BY <1>4, DoneOf DEF UpdateVersion
  <2>2. versions' = [i \in DOMAIN versions |-> 2] /\ tables' = tables
    BY <1>4 DEF UpdateVersion
  <2>3. SchemaComplete'
    BY <1>4, <2>2, TablesAtEnd DEF UpdateVersion
  <2>4. \A t : <<"create", t>> \notin Of(todo)
    <3>1. "create" \notin Ops(todo')
      <4>1. Stage("update_version") = 8 /\ Stage("create") = 7
        BY Stages, Zenon
      <4> QED
        BY <2>1, <4>1
    <3>2. \A t : <<"create", t>> \in Of(todo') => "create" \in Ops(todo')
      BY DEF Ops
    <3>3. \A t : <<"create", t>> # todo[1]
      BY <2>1
    <3> QED
      BY <2>1, <3>1, <3>2, <3>3
  <2>5. process' = "starting" => process = "starting"
    BY <1>4 DEF UpdateVersion, Done, GoOn
  <2>6. HistoryNames \subseteq tables'
    BY <2>1, <2>2, <2>4, Zenon DEF SchemaInv
  <2>7. versions' \in Seq({1, 2}) /\ (versions # <<>> => versions' # <<>>)
    <3>1. versions \in Seq({1, 2}) /\ DOMAIN versions = 1 .. Len(versions) /\ Len(versions) \in Nat
      BY DEF SchemaInv
    <3>2. versions' = [i \in 1 .. Len(versions) |-> 2]
      BY <2>2, <3>1
    <3>3. versions' \in Seq({1, 2}) /\ Len(versions') = Len(versions)
      BY <3>1, <3>2
    <3> QED
      BY <3>1, <3>3
  <2>8. /\ "select_version" \in Ops(todo') => "select_version" \in Ops(todo)
        /\ "insert_version" \in Ops(todo) => "insert_version" \in Ops(todo')
    BY <2>1
  <2> QED
    BY <2>2, <2>3, <2>4, <2>5, <2>6, <2>7, <2>8, <2>1 DEF SchemaInv
<1>5. CASE SelectVersion
  <2>1. /\ todo # <<>> /\ todo \in Programs /\ todo[1][1] = "select_version"
        /\ versions' = versions /\ tables' = tables /\ process' = process
    BY <1>5, SelectOf DEF SelectVersion, Doing, ProgramInv, GoOn
  <2>2. /\ Ops(todo) = {"select_version"} \cup Ops(Tail(todo))
        /\ \A o \in Ops(Tail(todo)) : Stage("select_version") <= Stage(o)
    BY <2>1, TailOf
  <2>3. "insert_version" \notin Ops(todo)
    <3>1. Stage("select_version") = 6 /\ Stage("insert_version") = 5
      BY Stages, Zenon
    <3> QED
      BY <2>2, <3>1
  <2>4. versions # <<>> /\ versions[1] \in {1, 2}
    <3>1. versions # <<>> /\ versions \in Seq({1, 2})
      BY <2>2, <2>3 DEF SchemaInv
    <3> QED
      BY <3>1
  <2>5. \/ \A t \in HistoryNames : <<"create", t>> \in Of(todo')
        \/ HistoryNames \subseteq tables
    BY <1>5, <2>4, SelectOf DEF SchemaInv
  <2>6. /\ "select_version" \notin Ops(todo')
        /\ \A t \in BaseNames : <<"create", t>> \in Of(todo')
    BY <1>5, SelectOf
  <2>7. SchemaComplete'
    BY <2>1 DEF SchemaInv, SchemaComplete
  <2> QED
    BY <2>1, <2>4, <2>5, <2>6, <2>7 DEF SchemaInv
<1>6. CASE RetrieveKey \/ CreateKeyFile \/ WriteKeyFile \/ SchemaInfo
  BY <1>1, <1>6 DEF RetrieveKey, CreateKeyFile, WriteKeyFile, SchemaInfo
<1>7. CASE EnsureRuns
  BY <1>1, <1>7 DEF EnsureRuns, IdentityThere, SetRegistrationId, EnsurePreKeys, EnsureSigned,
                    EnsureKyber
<1>8. CASE Stores
  BY <1>1, <1>8, Zenon DEF Stores, SaveIdentity, StoreSession, RemovePreKey, CreateAndSign, RotateSigned,
                    RotateKyber
<1>9. CASE Clears
  BY <1>1, <1>9, Zenon DEF Clears, DeleteSession, DeleteIdentity, ClearSessions, ClearIdentities,
                    ClearPreKeys, ClearSigned, ClearKyber, ClearLocal, ResetReturns
<1>10. CASE KeyNotRead
  <2>1. /\ todo # <<>> /\ todo \in Programs /\ todo[1][1] = "retrieve_key"
        /\ versions' = versions /\ tables' = tables /\ process' = process
    BY <1>10, KeyNotReadOf, Zenon DEF KeyNotRead, Doing, ProgramInv, GoOn
  <2>2. Ops(todo') = {"create_key_file", "write_key_file", "schema_info", "insert_version",
                      "select_version"}
    BY <1>10, KeyNotReadOf
  <2> QED
    BY <2>1, <2>2, Zenon DEF SchemaInv, SchemaComplete
<1>11. CASE NewIdentity
  <2>1. /\ Ops(todo') = {"registration"} \cup Ops(Tail(todo)) /\ todo' # <<>>
        /\ Of(todo') = {<<"registration">>} \cup Of(Tail(todo))
    BY <1>11, NewIdentityOf
  <2>2. /\ Ops(todo) = {"identity"} \cup Ops(Tail(todo)) /\ Of(todo) = {todo[1]} \cup Of(Tail(todo))
        /\ todo[1][1] = "identity"
    BY <1>11, TailOf DEF ProgramInv, NewIdentity, Doing
  <2>3. versions' = versions /\ tables' = tables /\ process' = process
    BY <1>11, <2>1 DEF NewIdentity, GoOn
  <2>4. \A t : <<"create", t>> \in Of(todo) => <<"create", t>> \in Of(todo')
    BY <2>1, <2>2
  <2> QED
    BY <2>1, <2>2, <2>3, <2>4 DEF SchemaInv, SchemaComplete
<1>12. CASE Start
  <2>1. process' = "starting" /\ todo' = Opening /\ versions' = versions /\ tables' = tables
    BY <1>12 DEF Start
  <2> QED
    BY <2>1, OpeningOf DEF SchemaInv, SchemaComplete
<1>13. CASE Calls
  <2>1. versions' = versions /\ tables' = tables /\ process' = process /\ process = "running"
    BY <1>13, CallsFrame
  <2>2. CASE todo' = todo
    BY <2>1, <2>2 DEF SchemaInv, SchemaComplete
  <2>3. CASE Ops(todo') \subseteq CallOps
    BY <2>1, <2>3 DEF CallOps, ResetOps, SchemaInv, SchemaComplete
  <2> QED
    BY <1>13, <2>2, <2>3, CallsOf
<1>14. CASE Stops
  BY <1>14, StopsOf DEF SchemaInv, SchemaComplete
<1>15. CASE UNCHANGED vars
  BY <1>15 DEF vars, SchemaInv, SchemaComplete
<1> QED
  BY <1>2, <1>3, <1>4, <1>5, <1>6, <1>7, <1>8, <1>9, <1>10, <1>11, <1>12, <1>13, <1>14, <1>15,
     Cases DEF OpenRuns

-----------------------------------------------------------------------------
(* Identities.                                                             *)

\* The identity in place is none a reset has replaced.
LEMMA DrawnStep ==
    ASSUME ProgramInv, DrawnInv, [Next]_vars
    PROVE  DrawnInv'
<1>1. ASSUME NEW op, op # "clear_local", Doing(op), Done, UNCHANGED <<local, drawn, published, retired>>
      PROVE  DrawnInv'
  <2>1. Ops(todo) = {op} \cup Ops(todo') /\ Of(todo') \subseteq Of(todo)
    BY <1>1, DoneOf
  <2> QED
    BY <1>1, <2>1 DEF DrawnInv
<1>2. CASE OpenRuns
  BY <1>1, <1>2 DEF OpenRuns, RetrieveKey, CreateKeyFile, WriteKeyFile, SchemaInfo, InsertVersion,
                    CreateTable, UpdateVersion, history
<1>3. CASE IdentityThere \/ EnsurePreKeys \/ EnsureSigned \/ EnsureKyber
  BY <1>1, <1>3 DEF IdentityThere, EnsurePreKeys, EnsureSigned, EnsureKyber, history
<1>4. CASE SetRegistrationId
  <2>1. Ops(todo) = {"registration"} \cup Ops(todo') /\ Of(todo') \subseteq Of(todo)
    BY <1>4, DoneOf DEF SetRegistrationId
  <2>2. /\ drawn' = drawn + 1 /\ local' = [local EXCEPT !.registration = drawn + 1]
        /\ UNCHANGED <<published, retired>>
    BY <1>4 DEF SetRegistrationId, history
  <2>3. local' \in [identity : Nat, registration : Nat] /\ local'.identity = local.identity
    BY <2>2 DEF DrawnInv
  <2> QED
    BY <2>1, <2>2, <2>3 DEF DrawnInv
<1>5. CASE Stores
  BY <1>1, <1>5, Zenon DEF Stores, SaveIdentity, StoreSession, RemovePreKey, CreateAndSign, RotateSigned,
                    RotateKyber, history
<1>6. CASE DeleteSession \/ DeleteIdentity \/ ClearSessions \/ ClearIdentities
              \/ ClearPreKeys \/ ClearSigned \/ ClearKyber
  BY <1>1, <1>6 DEF DeleteSession, DeleteIdentity, ClearSessions, ClearIdentities, ClearPreKeys,
                    ClearSigned, ClearKyber, history
<1>7. CASE ClearLocal
  <2>1. Of(todo') \subseteq Of(todo)
    BY <1>7, DoneOf DEF ClearLocal
  <2>2. local' = NoIdentity /\ UNCHANGED <<drawn, published, retired>>
    BY <1>7 DEF ClearLocal, history
  <2>3. local' \in [identity : Nat, registration : Nat] /\ local'.identity = 0
    BY <2>2 DEF NoIdentity
  <2>4. \A i \in retired : i \in 1 .. drawn /\ i # local'.identity
    BY <2>3 DEF DrawnInv
  <2>5. ASSUME NEW e \in Of(todo'), e[1] = "returned"
        PROVE  e[2] \in 0 .. drawn /\ (e[2] = 0 \/ e[2] # local'.identity)
    <3>1. e[2] \in 0 .. drawn
      BY <2>1, <2>5 DEF DrawnInv
    <3> QED
      BY <2>3, <3>1
  <2>6. drawn' \in Nat /\ local'.identity <= drawn'
    BY <2>2, <2>3 DEF DrawnInv
  <2>7. \A b \in published' : b.identity \in 1 .. drawn'
    BY <2>2 DEF DrawnInv
  <2> QED
    BY <2>2, <2>3, <2>4, <2>5, <2>6, <2>7, Zenon DEF DrawnInv
<1>8. CASE ResetReturns
  <2>1. /\ Ops(todo) = {"returned"} \cup Ops(todo') /\ Of(todo) = {todo[1]} \cup Of(todo')
        /\ todo[1][1] = "returned" /\ \A o \in Ops(todo') : Stage("returned") <= Stage(o)
    BY <1>8, DoneOf DEF ResetReturns
  <2>2. retired' = retired \cup ({todo[1][2]} \ {0}) /\ UNCHANGED <<local, drawn, published>>
    BY <1>8 DEF ResetReturns
  <2>3. "clear_local" \notin Ops(todo)
    <3>1. Stage("returned") = 15 /\ Stage("clear_local") = 12
      BY Stages, Zenon
    <3> QED
      BY <2>1, <3>1
  <2>4. todo[1][2] \in 0 .. drawn /\ (todo[1][2] = 0 \/ todo[1][2] # local.identity)
    BY <2>1, <2>3 DEF DrawnInv
  <2>5. \A i \in retired' : i \in 1 .. drawn /\ i # local.identity
    BY <2>2, <2>4 DEF DrawnInv
  <2> QED
    BY <2>1, <2>2, <2>3, <2>5 DEF DrawnInv
<1>9. CASE KeyNotRead
  <2>1. Ops(todo') = {"create_key_file", "write_key_file", "schema_info", "insert_version",
                      "select_version"}
    BY <1>9, KeyNotReadOf
  <2>2. \A e \in Of(todo') : e[1] # "returned"
    BY <2>1 DEF Ops
  <2> QED
    BY <1>9, <2>2 DEF KeyNotRead, DrawnInv
<1>10. CASE SelectVersion
  <2>1. "returned" \notin Ops(todo')
    BY <1>10, SelectOf
  <2>2. \A e \in Of(todo') : e[1] # "returned"
    BY <2>1 DEF Ops
  <2> QED
    BY <1>10, <2>2 DEF SelectVersion, DrawnInv, history
<1>11. CASE NewIdentity
  <2>1. Of(todo') = {<<"registration">>} \cup Of(Tail(todo))
    BY <1>11, NewIdentityOf
  <2>2. Of(todo) = {todo[1]} \cup Of(Tail(todo))
    BY <1>11, TailOf DEF ProgramInv, NewIdentity, Doing
  <2>3. /\ drawn' = drawn + 1 /\ local' = [local EXCEPT !.identity = drawn + 1]
        /\ UNCHANGED <<published, retired>>
    BY <1>11 DEF NewIdentity
  <2>4. local' \in [identity : Nat, registration : Nat] /\ local'.identity = drawn + 1
    BY <2>3 DEF DrawnInv
  <2>5. ASSUME NEW e \in Of(todo'), e[1] = "returned" PROVE e \in Of(todo)
    BY <2>1, <2>2, <2>5
  <2> QED
    BY <2>3, <2>4, <2>5 DEF DrawnInv
<1>12. CASE Start
  <2>1. \A e \in Of(todo') : e[1] # "returned"
    BY <1>12, OpeningOf DEF Start, Ops
  <2> QED
    BY <1>12, <2>1 DEF Start, DrawnInv, history
<1>13. CASE Calls
  <2>1. UNCHANGED <<local, drawn, retired>> /\ local.identity \in Nat
    BY <1>13, CallsFrame DEF DrawnInv
  <2>2. \A b \in published' : b.identity \in 1 .. drawn
    <3>1. CASE Publish
      <4>1. local.identity \in 1 .. drawn
        BY <2>1, <3>1, PublishOf DEF DrawnInv
      <4>2. \A b \in published : b.identity \in 1 .. drawn
        BY DEF DrawnInv
      <4> QED
        BY <3>1, <4>1, <4>2, PublishOf, Zenon
    <3> QED
      BY <1>13, <3>1, CallsFrame DEF DrawnInv
  <2>3. \A e \in Of(todo') : e[1] = "returned" =>
            /\ e[2] \in 0 .. drawn
            /\ e[2] = 0 \/ e[2] # local.identity \/ "clear_local" \in Ops(todo')
    <3>1. CASE todo' = todo
      BY <3>1 DEF DrawnInv
    <3>2. CASE ResetIdentity \/ ResetUncounted
      <4>1. /\ "clear_local" \in Ops(todo')
            /\ \A e \in Of(todo') : e[1] = "returned" => e = <<"returned", local.identity>>
        BY <2>1, <3>2, ResetOf DEF ResetOps
      <4>2. local.identity \in 0 .. drawn
        BY DEF DrawnInv
      <4> QED
        BY <4>1, <4>2
    <3>3. CASE "returned" \notin Ops(todo')
      BY <3>3 DEF Ops
    <3> QED
      BY <1>13, <2>1, <3>1, <3>2, <3>3, CallsOf, MaintenanceOf
  <2> QED
    BY <2>1, <2>2, <2>3 DEF DrawnInv
<1>14. CASE Stops
  BY <1>14, StopsOf DEF DrawnInv, history
<1>15. CASE UNCHANGED vars
  BY <1>15 DEF vars, DrawnInv, history
<1> QED
  BY <1>2, <1>3, <1>4, <1>5, <1>6, <1>7, <1>8, <1>9, <1>10, <1>11, <1>12, <1>13, <1>14, <1>15,
     Cases DEF EnsureRuns, Clears

\* What a registration id was announced with stays.
LEMMA RegistrationStep ==
    ASSUME ProgramInv, DrawnInv, RegistrationInv, [Next]_vars
    PROVE  RegistrationInv'
<1>1. ASSUME NEW op, Doing(op), Done, UNCHANGED <<local, published>>
      PROVE  RegistrationInv'
  <2>1. Ops(todo) = {op} \cup Ops(todo')
    BY <1>1, DoneOf
  <2> QED
    BY <1>1, <2>1 DEF RegistrationInv, RegistrationStable
<1>2. CASE OpenRuns
  BY <1>1, <1>2 DEF OpenRuns, RetrieveKey, CreateKeyFile, WriteKeyFile, SchemaInfo, InsertVersion,
                    CreateTable, UpdateVersion, history
<1>3. CASE IdentityThere \/ EnsurePreKeys \/ EnsureSigned \/ EnsureKyber
  BY <1>1, <1>3, Zenon DEF IdentityThere, EnsurePreKeys, EnsureSigned, EnsureKyber, history
<1>4. CASE SetRegistrationId
  <2>1. Ops(todo) = {"registration"} \cup Ops(todo')
    BY <1>4, DoneOf DEF SetRegistrationId
  <2>2. local' = [local EXCEPT !.registration = drawn + 1] /\ published' = published
    BY <1>4 DEF SetRegistrationId, history
  <2>3. local'.identity = local.identity
    BY <2>2 DEF DrawnInv
  <2>4. \A b \in published : b.identity # local.identity
    BY <2>1 DEF RegistrationInv, RegistrationStable
  <2> QED
    BY <2>2, <2>3, <2>4 DEF RegistrationInv, RegistrationStable
<1>5. CASE Stores
  BY <1>1, <1>5, Zenon DEF Stores, SaveIdentity, StoreSession, RemovePreKey, CreateAndSign, RotateSigned,
                    RotateKyber, history
<1>6. CASE Clears /\ ~ClearLocal
  BY <1>1, <1>6, Zenon DEF Clears, DeleteSession, DeleteIdentity, ClearSessions, ClearIdentities,
                    ClearPreKeys, ClearSigned, ClearKyber, ResetReturns, history
<1>7. CASE ClearLocal
  <2>1. local'.identity = 0 /\ published' = published
    BY <1>7, Zenon DEF ClearLocal, NoIdentity, history
  <2>2. \A b \in published : b.identity # 0
    BY DEF DrawnInv
  <2> QED
    BY <2>1, <2>2 DEF RegistrationInv, RegistrationStable
<1>8. CASE KeyNotRead
  <2>1. "registration" \notin Ops(todo')
    BY <1>8, KeyNotReadOf
  <2>2. UNCHANGED <<local, published>>
    BY <1>8 DEF KeyNotRead
  <2> QED
    BY <2>1, <2>2 DEF RegistrationInv, RegistrationStable
<1>9. CASE SelectVersion
  <2>1. "registration" \notin Ops(todo')
    BY <1>9, SelectOf
  <2>2. UNCHANGED <<local, published>>
    BY <1>9 DEF SelectVersion, history
  <2> QED
    BY <2>1, <2>2 DEF RegistrationInv, RegistrationStable
<1>10. CASE NewIdentity
  <2>1. local' = [local EXCEPT !.identity = drawn + 1] /\ published' = published
    BY <1>10 DEF NewIdentity
  <2>2. local'.identity = drawn + 1
    BY <2>1 DEF DrawnInv
  <2>3. \A b \in published : b.identity # drawn + 1
    BY DEF DrawnInv
  <2> QED
    BY <2>1, <2>2, <2>3 DEF RegistrationInv, RegistrationStable
<1>11. CASE Start
  BY <1>11, OpeningOf, Zenon DEF Start, history, RegistrationInv, RegistrationStable
<1>12. CASE Calls
  <2>1. local' = local /\ local.identity \in Nat
    BY <1>12, CallsFrame DEF DrawnInv
  <2>2. CASE Publish
    <3>1. "registration" \notin Ops(todo')
      BY <2>2, PublishOf, NothingOf
    <3>2. \A b \in published' :
             \/ b \in published
             \/ b.identity = local.identity /\ b.registration = local.registration
      BY <2>2, PublishOf, Zenon
    <3>3. \A b \in published' : b.identity = local.identity => b.registration = local.registration
      BY <3>2, Zenon DEF RegistrationInv
    <3>4. RegistrationStable'
      <4> SUFFICES ASSUME NEW b \in published', NEW c \in published', b.identity = c.identity
                   PROVE  b.registration = c.registration
        BY Zenon DEF RegistrationStable
      <4>1. CASE b \in published /\ c \in published
        BY <4>1, Zenon DEF RegistrationInv, RegistrationStable
      <4>2. CASE b.identity = local.identity
        BY <3>3, <4>2, Zenon
      <4> QED
        BY <3>2, <4>1, <4>2, Zenon
    <3> QED
      BY <2>1, <3>1, <3>3, <3>4, Zenon DEF RegistrationInv
  <2>3. CASE published' = published
    <3>1. "registration" \in Ops(todo') => "registration" \in Ops(todo)
      BY <1>12, <2>1, CallsOf DEF CallOps, ResetOps
    <3> QED
      BY <2>1, <2>3, <3>1, Zenon DEF RegistrationInv, RegistrationStable
  <2> QED
    BY <1>12, <2>2, <2>3, CallsFrame
<1>13. CASE Stops
  BY <1>13, StopsOf DEF history, RegistrationInv, RegistrationStable
<1>14. CASE UNCHANGED vars
  BY <1>14 DEF vars, history, RegistrationInv, RegistrationStable
<1> QED
  BY <1>2, <1>3, <1>4, <1>5, <1>6, <1>7, <1>8, <1>9, <1>10, <1>11, <1>12, <1>13, <1>14, Cases, Zenon
     DEF EnsureRuns

-----------------------------------------------------------------------------
(* Announced keys.                                                         *)

\* Every stored key stays signed by the identity in place.
LEMMA BundleStep ==
    ASSUME ProgramInv, DrawnInv, BundleInv, [Next]_vars
    PROVE  BundleInv'
<1>1. ASSUME NEW op, op \notin {"identity", "clear_signed", "clear_kyber", "clear_local"},
             Doing(op), Done, local'.identity = local.identity,
             UNCHANGED <<signed, kyber, misread, published>>
      PROVE  BundleInv'
  <2>1. Ops(todo) = {op} \cup Ops(todo')
    BY <1>1, DoneOf
  <2> QED
    BY <1>1, <2>1 DEF BundleInv, BundlesVerify
<1>2. ASSUME NEW op \in SigningOps, Doing(op), Done, UNCHANGED <<local, misread, published>>,
             signed' \subseteq signed \cup Generated, kyber' \subseteq kyber \cup Generated
      PROVE  BundleInv'
  <2>1. Ops(todo) = {op} \cup Ops(todo') /\ \A o \in Ops(todo') : Stage(op) <= Stage(o)
    BY <1>2, DoneOf, Zenon
  <2>2. Stage(op) = 14
    BY Stages DEF SigningOps
  <2>3. "identity" \notin Ops(todo)
    BY <2>1, <2>2, Stages DEF SigningOps
  <2>4. local.identity # 0 /\ "clear_local" \notin Ops(todo)
    BY <2>1, <2>3 DEF BundleInv, BundlesVerify
  <2> QED
    BY <1>2, <2>1, <2>4 DEF Generated, BundleInv, BundlesVerify
<1>3. CASE OpenRuns
  BY <1>1, <1>3, Zenon DEF OpenRuns, RetrieveKey, CreateKeyFile, WriteKeyFile, SchemaInfo, InsertVersion,
                    CreateTable, UpdateVersion, ownKeys, history
<1>4. CASE IdentityThere
  <2>1. /\ Ops(todo) = {"identity"} \cup Ops(todo')
        /\ \A o \in Ops(todo') : Stage("identity") <= Stage(o)
        /\ local.identity # 0 /\ UNCHANGED <<local, signed, kyber, misread, published>>
    BY <1>4, DoneOf DEF IdentityThere, ownKeys, history
  <2>2. "clear_local" \notin Ops(todo')
    <3>1. Stage("identity") = 13 /\ Stage("clear_local") = 12
      BY Stages, Zenon
    <3> QED
      BY <2>1, <3>1
  <2> QED
    BY <2>1, <2>2, Zenon DEF BundleInv, BundlesVerify
<1>5. CASE SetRegistrationId
  <2>1. local'.identity = local.identity
    BY <1>5 DEF SetRegistrationId, DrawnInv
  <2> QED
    BY <1>1, <1>5, <2>1 DEF SetRegistrationId, ownKeys, history
<1>6. CASE EnsurePreKeys
  BY <1>1, <1>6 DEF EnsurePreKeys, history
<1>7. CASE EnsureSigned \/ EnsureKyber
  BY <1>2, <1>7, Zenon DEF EnsureSigned, EnsureKyber, SigningOps, history
<1>8. CASE SaveIdentity \/ StoreSession \/ RemovePreKey \/ CreateAndSign
  BY <1>1, <1>8, Zenon DEF SaveIdentity, StoreSession, RemovePreKey, CreateAndSign, ownKeys, history
<1>9. CASE RotateSigned \/ RotateKyber
  BY <1>2, <1>9, Zenon DEF RotateSigned, RotateKyber, SigningOps, history
<1>10. CASE DeleteSession \/ DeleteIdentity \/ ClearSessions \/ ClearIdentities \/ ClearPreKeys
               \/ ResetReturns
  BY <1>1, <1>10, Zenon DEF DeleteSession, DeleteIdentity, ClearSessions, ClearIdentities, ClearPreKeys,
                     ResetReturns, ownKeys, history
<1>11. CASE ClearSigned
  <2>1. Ops(todo) = {"clear_signed"} \cup Ops(todo')
    BY <1>11, DoneOf DEF ClearSigned
  <2>2. signed' = {} /\ UNCHANGED <<local, kyber, misread, published>>
    BY <1>11 DEF ClearSigned, history
  <2> QED
    BY <2>1, <2>2, Zenon DEF SigningOps, BundleInv, BundlesVerify
<1>12. CASE ClearKyber
  <2>1. Ops(todo) = {"clear_kyber"} \cup Ops(todo')
    BY <1>12, DoneOf DEF ClearKyber
  <2>2. kyber' = {} /\ UNCHANGED <<local, signed, misread, published>>
    BY <1>12 DEF ClearKyber, history
  <2> QED
    BY <2>1, <2>2 DEF SigningOps, BundleInv, BundlesVerify
<1>13. CASE ClearLocal
  <2>1. /\ Ops(todo) = {"clear_local"} \cup Ops(todo')
        /\ \A o \in Ops(todo') : Stage("clear_local") <= Stage(o)
        /\ UNCHANGED <<signed, kyber, misread, published>>
    BY <1>13, DoneOf DEF ClearLocal, ownKeys, history
  <2>2. "clear_signed" \notin Ops(todo') /\ "clear_kyber" \notin Ops(todo')
    <3>1. Stage("clear_local") = 12 /\ Stage("clear_signed") = 11 /\ Stage("clear_kyber") = 11
      BY Stages, Zenon
    <3> QED
      BY <2>1, <3>1
  <2>3. signed = {} /\ kyber = {}
    BY <2>1, <2>2 DEF BundleInv, BundlesVerify
  <2>4. Ops(todo') \cap SigningOps # {} => "identity" \in Ops(todo')
    BY <2>1 DEF BundleInv, BundlesVerify
  <2> QED
    BY <2>1, <2>3, <2>4 DEF BundleInv, BundlesVerify
<1>14. CASE KeyNotRead
  <2>1. Ops(todo') = {"create_key_file", "write_key_file", "schema_info", "insert_version",
                      "select_version"}
    BY <1>14, KeyNotReadOf
  <2>2. /\ UNCHANGED <<local, signed, kyber, published>>
        /\ misread' = (misread \/ keyFile \notin {Absent, Short})
    BY <1>14 DEF KeyNotRead, ownKeys
  <2>3. misread' \in BOOLEAN /\ (misread => misread')
    BY <2>2 DEF BundleInv, BundlesVerify
  <2> QED
    BY <2>1, <2>2, <2>3 DEF SigningOps, BundleInv, BundlesVerify
<1>15. CASE SelectVersion
  <2>1. "identity" \in Ops(todo') /\ "clear_local" \notin Ops(todo')
    BY <1>15, SelectOf
  <2>2. UNCHANGED <<local, signed, kyber, misread, published>>
    BY <1>15 DEF SelectVersion, ownKeys, history
  <2> QED
    BY <2>1, <2>2 DEF BundleInv, BundlesVerify
<1>16. CASE NewIdentity
  <2>1. Ops(todo') = {"registration"} \cup Ops(Tail(todo))
    BY <1>16, NewIdentityOf
  <2>2. \A o \in Ops(Tail(todo)) : Stage("identity") <= Stage(o)
    BY <1>16, TailOf DEF ProgramInv, NewIdentity, Doing
  <2>3. "clear_local" \notin Ops(todo')
    <3>1. Stage("identity") = 13 /\ Stage("clear_local") = 12
      BY Stages, Zenon
    <3> QED
      BY <2>1, <2>2, <3>1
  <2>4. /\ local' = [local EXCEPT !.identity = drawn + 1] /\ UNCHANGED <<signed, kyber, published>>
        /\ misread' = (misread \/ local.identity # 0)
    BY <1>16 DEF NewIdentity, ownKeys
  <2>5. local'.identity = drawn + 1 /\ drawn + 1 # 0
    BY <2>4 DEF DrawnInv
  <2>6. misread' \in BOOLEAN /\ (~misread' => ~misread /\ local.identity = 0)
    BY <2>4, Zenon DEF BundleInv, BundlesVerify
  <2>7. ~misread' => signed \cup kyber = {}
    BY <2>6 DEF BundleInv, BundlesVerify
  <2> QED
    BY <2>3, <2>4, <2>5, <2>6, <2>7 DEF BundleInv, BundlesVerify
<1>17. CASE Start
  BY <1>17, OpeningOf, Zenon DEF Start, ownKeys, history, SigningOps, BundleInv, BundlesVerify
<1>18. CASE Calls
  <2>1. /\ UNCHANGED <<local, signed, kyber>> /\ local.identity \in Nat
        /\ misread' \in BOOLEAN /\ (misread => misread')
    BY <1>18, CallsFrame, Zenon DEF DrawnInv, ResetUncounted, ownKeys, BundleInv
  <2>2. BundlesVerify'
    <3>1. CASE Publish
      <4> SUFFICES ASSUME ~misread', NEW b \in published'
                   PROVE  b.signed = b.identity /\ b.kyber = b.identity
        BY Zenon DEF BundlesVerify
      <4>1. ~misread
        BY <2>1
      <4>2. CASE b \in published
        BY <4>1, <4>2, Zenon DEF BundleInv, BundlesVerify
      <4>3. CASE /\ b.identity = local.identity
                 /\ b.signed \in signed /\ b.kyber \in kyber
        <5>1. \A i \in signed \cup kyber : i = local.identity
          BY <4>1, Zenon DEF BundleInv
        <5> QED
          BY <4>3, <5>1
      <4> QED
        BY <3>1, <4>2, <4>3, PublishOf, Zenon
    <3> QED
      BY <1>18, <2>1, <3>1, CallsFrame DEF BundleInv, BundlesVerify
  <2>3. CASE todo' = todo
    BY <2>1, <2>2, <2>3 DEF BundleInv, BundlesVerify
  <2>4. CASE Ops(todo') \cap (SigningOps \cup {"returned", "clear_local"}) = {}
    BY <2>1, <2>2, <2>4, Zenon DEF BundleInv, BundlesVerify
  <2>5. CASE Maintenance
    <3>1. local.identity # 0
      BY <2>5 DEF Maintenance
    <3> QED
      BY <2>1, <2>2, <2>5, <3>1, MaintenanceOf DEF BundleInv, BundlesVerify
  <2>6. CASE ResetIdentity \/ ResetUncounted
    <3>1. {"identity", "clear_signed", "clear_kyber"} \subseteq Ops(todo')
      BY <2>1, <2>6, ResetOf DEF ResetOps
    <3> QED
      BY <2>1, <2>2, <3>1, Zenon DEF BundleInv, BundlesVerify
  <2> QED
    BY <1>18, <2>1, <2>3, <2>4, <2>5, <2>6, CallsOf, Zenon
<1>19. CASE Stops
  BY <1>19, StopsOf DEF ownKeys, history, BundleInv, BundlesVerify
<1>20. CASE UNCHANGED vars
  BY <1>20, Zenon DEF vars, ownKeys, history, BundleInv, BundlesVerify
<1> QED
  BY <1>3, <1>4, <1>5, <1>6, <1>7, <1>8, <1>9, <1>10, <1>11, <1>12, <1>13, <1>14, <1>15, <1>16,
     <1>17, <1>18, <1>19, <1>20, Cases, Zenon DEF EnsureRuns, Stores, Clears

-----------------------------------------------------------------------------
(* Sessions.                                                               *)

\* A statement about a peer names one.
LEMMA PeerArgument ==
    \A e \in Statements : e[1] \in PeerOps => e[2] \in Peers /\ e = <<e[1], e[2]>>
<1> SUFFICES ASSUME NEW e \in Statements, e[1] \in PeerOps
             PROVE  e[2] \in Peers /\ e = <<e[1], e[2]>>
  OBVIOUS
<1>1. e \notin {<<op>> : op \in PlainOps}
  BY DEF PlainOps, PeerOps
<1>2. e \notin {"create"} \X (BaseNames \cup HistoryNames) /\ e \notin {"returned"} \X Nat
  BY DEF PeerOps
<1>3. e \in PeerOps \X Peers
  BY <1>1, <1>2 DEF Statements
<1> QED
  BY <1>3

\* Every session stays usable.
LEMMA SessionStep ==
    ASSUME ProgramInv, DrawnInv, SessionInv, [Next]_vars
    PROVE  SessionInv'
<1> USE DEF SessionsUsable, NoSessions
<1>1. ASSUME NEW op, op \notin {"save_identity", "delete_session", "clear_sessions"},
             Doing(op), Done, local'.identity = local.identity,
             UNCHANGED <<sessions, peerKeys, misread>>
      PROVE  SessionInv'
  <2>1. /\ Ops(todo) = {op} \cup Ops(todo') /\ Of(todo) = {todo[1]} \cup Of(todo') /\ todo[1][1] = op
    BY <1>1, DoneOf, Zenon
  <2>2. ASSUME NEW q
        PROVE  /\ <<"save_identity", q>> \in Of(todo) => <<"save_identity", q>> \in Of(todo')
               /\ <<"delete_session", q>> \in Of(todo) => <<"delete_session", q>> \in Of(todo')
    <3>1. <<"save_identity", q>>[1] = "save_identity" /\ <<"delete_session", q>>[1] = "delete_session"
      OBVIOUS
    <3>2. op # "save_identity" /\ op # "delete_session"
      BY <1>1
    <3>3. <<"save_identity", q>> # todo[1] /\ <<"delete_session", q>> # todo[1]
      BY <2>1, <3>1, <3>2, Zenon
    <3> QED
      BY <2>1, <3>3, Zenon
  <2> QED
    BY <1>1, <2>1, <2>2, Zenon DEF SessionInv
<1>2. CASE SaveIdentity
  <2>1. /\ Ops(todo) = {"save_identity"} \cup Ops(todo') /\ Of(todo) = {todo[1]} \cup Of(todo')
        /\ todo[1][1] = "save_identity"
    BY <1>2, DoneOf DEF SaveIdentity
  <2>2. peerKeys' = peerKeys \cup {todo[1][2]} /\ UNCHANGED <<local, sessions, misread>>
    BY <1>2 DEF SaveIdentity, history
  <2>3. ASSUME NEW q, <<"save_identity", q>> \in Of(todo)
        PROVE  <<"save_identity", q>> \in Of(todo') \/ q \in peerKeys'
    <3>1. <<"save_identity", q>> = todo[1] => q = todo[1][2]
      OBVIOUS
    <3> QED
      BY <2>1, <2>2, <2>3, <3>1
  <2>4. \A q : <<"delete_session", q>> \in Of(todo) => <<"delete_session", q>> \in Of(todo')
    BY <2>1
  <2> QED
    BY <2>1, <2>2, <2>3, <2>4, Zenon DEF SessionInv
<1>3. CASE StoreSession
  <2> DEFINE p == todo[1][2]
  <2>1. /\ Ops(todo) = {"store_session"} \cup Ops(todo') /\ Of(todo) = {todo[1]} \cup Of(todo')
        /\ todo[1] \in Statements /\ todo[1][1] = "store_session"
        /\ \A o \in Ops(todo') : Stage("store_session") <= Stage(o)
    BY <1>3, DoneOf DEF StoreSession
  <2>2. /\ sessions' = [sessions EXCEPT ![p] = local.identity]
        /\ UNCHANGED <<local, peerKeys, misread>>
    BY <1>3 DEF StoreSession, history
  <2>3. p \in Peers
    BY <2>1, PeerArgument DEF PeerOps
  <2>4. \A q : <<"save_identity", q>> \notin Of(todo)
    <3>1. "save_identity" \notin Ops(todo')
      <4>1. Stage("store_session") = 2 /\ Stage("save_identity") = 1
        BY Stages, Zenon
      <4> QED
        BY <2>1, <4>1
    <3>2. \A q : <<"save_identity", q>> \in Of(todo') => "save_identity" \in Ops(todo')
      BY DEF Ops
    <3>3. \A q : <<"save_identity", q>> # todo[1]
      BY <2>1
    <3> QED
      BY <2>1, <3>1, <3>2, <3>3
  <2>5. p \in peerKeys
    BY <2>1, <2>4, Zenon DEF SessionInv
  <2>6. Ops(todo') \subseteq StoreOps
    BY <2>1 DEF ProgramInv, StoreOps
  <2>7. \A e \in Of(todo') : e[1] \in Ops(todo')
    BY DEF Ops
  <2>8. sessions' \in [Peers -> Nat] /\ \A q \in Peers : sessions'[q] =
            IF q = p THEN local.identity ELSE sessions[q]
    BY <2>2, <2>3, Zenon DEF SessionInv, DrawnInv
  <2> HIDE DEF p
  <2> QED
    BY <2>1, <2>2, <2>4, <2>5, <2>6, <2>7, <2>8, Zenon DEF SessionInv, StoreOps
<1>4. CASE DeleteSession
  <2> DEFINE p == todo[1][2]
  <2>1. /\ Ops(todo) = {"delete_session"} \cup Ops(todo') /\ Of(todo) = {todo[1]} \cup Of(todo')
        /\ todo[1] \in Statements /\ todo[1][1] = "delete_session"
    BY <1>4, DoneOf DEF DeleteSession
  <2>2. sessions' = [sessions EXCEPT ![p] = 0] /\ UNCHANGED <<local, peerKeys, misread>>
    BY <1>4 DEF DeleteSession, history
  <2>3. p \in Peers
    BY <2>1, PeerArgument DEF PeerOps
  <2>4. sessions' \in [Peers -> Nat] /\ \A q \in Peers : sessions'[q] = IF q = p THEN 0 ELSE sessions[q]
    BY <2>2, <2>3 DEF SessionInv
  <2>5. ASSUME NEW q, <<"delete_session", q>> \in Of(todo)
        PROVE  <<"delete_session", q>> \in Of(todo') \/ q = p
    BY <2>1, <2>5
  <2>6. \A q : <<"save_identity", q>> \in Of(todo) => <<"save_identity", q>> \in Of(todo')
    BY <2>1
  <2>7. todo' \in Seq(Statements)
    BY <1>4, DoneOf DEF DeleteSession, Programs
  <2>8. ASSUME NEW e \in Of(todo'), e[1] = "delete_identity" PROVE e[2] \in Peers
    <3>1. e \in Statements
      BY <2>7, <2>8 DEF Of
    <3> QED
      BY <2>8, <3>1, PeerArgument DEF PeerOps
  <2> HIDE DEF p
  <2> QED
    BY <2>1, <2>2, <2>3, <2>4, <2>5, <2>6, <2>8, Zenon DEF SessionInv
<1>5. CASE DeleteIdentity
  <2> DEFINE p == todo[1][2]
  <2>1. /\ Ops(todo) = {"delete_identity"} \cup Ops(todo') /\ Of(todo) = {todo[1]} \cup Of(todo')
        /\ todo[1] \in Statements /\ todo[1][1] = "delete_identity"
        /\ \A o \in Ops(todo') : Stage("delete_identity") <= Stage(o)
    BY <1>5, DoneOf DEF DeleteIdentity
  <2>2. peerKeys' = peerKeys \ {p} /\ UNCHANGED <<local, sessions, misread>>
    BY <1>5 DEF DeleteIdentity, history
  <2>3. \A q : <<"delete_session", q>> \notin Of(todo)
    <3>1. "delete_session" \notin Ops(todo')
      <4>1. Stage("delete_identity") = 2 /\ Stage("delete_session") = 1
        BY Stages, Zenon
      <4> QED
        BY <2>1, <4>1
    <3>2. \A q : <<"delete_session", q>> \in Of(todo') => "delete_session" \in Ops(todo')
      BY DEF Ops
    <3>3. \A q : <<"delete_session", q>> # todo[1]
      BY <2>1
    <3> QED
      BY <2>1, <3>1, <3>2, <3>3
  <2>4. sessions[p] = 0
    BY <2>1, <2>3, Zenon DEF SessionInv
  <2>5. \A e \in Of(todo') : e[1] # "store_session"
    <3>1. "store_session" \notin Ops(todo')
      BY <2>1 DEF ProgramInv
    <3> QED
      BY <3>1 DEF Ops
  <2> HIDE DEF p
  <2> QED
    BY <2>1, <2>2, <2>3, <2>4, <2>5, Zenon DEF SessionInv
<1>6. CASE ClearSessions
  <2>1. /\ Ops(todo) = {"clear_sessions"} \cup Ops(todo') /\ Of(todo) = {todo[1]} \cup Of(todo')
        /\ todo[1][1] = "clear_sessions" /\ todo' \in Seq(Statements)
    BY <1>6, DoneOf DEF ClearSessions, Programs
  <2>2. sessions' = [p \in Peers |-> 0] /\ UNCHANGED <<local, peerKeys, misread>>
    BY <1>6 DEF ClearSessions, history
  <2>3. \A q : <<"save_identity", q>> \in Of(todo) => <<"save_identity", q>> \in Of(todo')
    BY <2>1
  <2>4. ASSUME NEW e \in Of(todo'), e[1] = "delete_identity" PROVE e[2] \in Peers
    <3>1. e \in Statements
      BY <2>1, <2>4 DEF Of
    <3> QED
      BY <2>4, <3>1, PeerArgument DEF PeerOps
  <2> QED
    BY <2>1, <2>2, <2>3, <2>4 DEF SessionInv
<1>7. CASE ClearIdentities
  <2>1. /\ Ops(todo) = {"clear_identities"} \cup Ops(todo') /\ Of(todo) = {todo[1]} \cup Of(todo')
        /\ todo[1][1] = "clear_identities"
        /\ \A o \in Ops(todo') : Stage("clear_identities") <= Stage(o)
    BY <1>7, DoneOf DEF ClearIdentities
  <2>a. \A o \in Ops(todo') : Stage("clear_identities") <= Stage(o)
    BY <2>1
  <2>2. peerKeys' = {} /\ UNCHANGED <<local, sessions, misread>>
    BY <1>7 DEF ClearIdentities, history
  <2>3. NoSessions
    <3>1. "clear_sessions" \notin Ops(todo')
      <4>1. Stage("clear_identities") = 10 /\ Stage("clear_sessions") = 9
        BY Stages, Zenon
      <4> QED
        BY <2>a, <4>1
    <3> QED
      BY <2>1, <3>1 DEF SessionInv
  <2>4. \A e \in Of(todo') : e[1] # "store_session" /\ e[1] # "delete_identity"
    <3>1. "store_session" \notin Ops(todo') /\ "delete_identity" \notin Ops(todo')
      <4>1. Stage("clear_identities") = 10 /\ Stage("store_session") = 2 /\ Stage("delete_identity") = 2
        BY Stages, Zenon
      <4>2. "store_session" \notin Ops(todo')
        BY <2>a, <4>1
      <4>3. "delete_identity" \notin Ops(todo')
        BY <2>a, <4>1
      <4> QED
        BY <4>2, <4>3
    <3> QED
      BY <3>1 DEF Ops
  <2> QED
    BY <2>1, <2>2, <2>3, <2>4, Zenon DEF SessionInv
<1>8. CASE ClearLocal
  <2>1. /\ Ops(todo) = {"clear_local"} \cup Ops(todo') /\ Of(todo) = {todo[1]} \cup Of(todo')
        /\ todo[1][1] = "clear_local"
        /\ \A o \in Ops(todo') : Stage("clear_local") <= Stage(o)
    BY <1>8, DoneOf DEF ClearLocal
  <2>2. UNCHANGED <<sessions, peerKeys, misread>>
    BY <1>8 DEF ClearLocal, peers, history
  <2>3. misread \/ NoSessions
    <3>1. "clear_sessions" \notin Ops(todo')
      <4>1. Stage("clear_local") = 12 /\ Stage("clear_sessions") = 9
        BY Stages, Zenon
      <4> QED
        BY <2>1, <4>1
    <3> QED
      BY <2>1, <3>1 DEF SessionInv
  <2>4. \A q : /\ <<"save_identity", q>> \in Of(todo) => <<"save_identity", q>> \in Of(todo')
               /\ <<"delete_session", q>> \in Of(todo) => <<"delete_session", q>> \in Of(todo')
    BY <2>1
  <2> QED
    BY <2>1, <2>2, <2>3, <2>4 DEF SessionInv
<1>9. CASE OpenRuns
  BY <1>1, <1>9 DEF OpenRuns, RetrieveKey, CreateKeyFile, WriteKeyFile, SchemaInfo, InsertVersion,
                    CreateTable, UpdateVersion, peers, history
<1>10. CASE EnsureRuns
  <2>1. SetRegistrationId => local'.identity = local.identity
    BY DEF SetRegistrationId, DrawnInv
  <2> QED
    BY <1>1, <1>10, <2>1 DEF EnsureRuns, IdentityThere, SetRegistrationId, EnsurePreKeys,
                             EnsureSigned, EnsureKyber, peers, history
<1>11. CASE RemovePreKey \/ CreateAndSign \/ RotateSigned \/ RotateKyber
  BY <1>1, <1>11, Zenon DEF RemovePreKey, CreateAndSign, RotateSigned, RotateKyber, peers, history
<1>12. CASE ClearPreKeys \/ ClearSigned \/ ClearKyber \/ ResetReturns
  BY <1>1, <1>12, Zenon DEF ClearPreKeys, ClearSigned, ClearKyber, ResetReturns, peers, history
<1>13. ASSUME Ops(todo') \cap {"store_session", "delete_identity", "clear_identities", "clear_local"} = {},
              local'.identity = local.identity, UNCHANGED <<sessions, peerKeys>>,
              misread' \in BOOLEAN, misread => misread'
       PROVE  SessionInv'
  <2>1. \A e \in Of(todo') : e[1] # "store_session" /\ e[1] # "delete_identity"
    BY <1>13 DEF Ops
  <2> QED
    BY <1>13, <2>1, Zenon DEF SessionInv
<1>14. CASE KeyNotRead
  <2>1. misread' = (misread \/ keyFile \notin {Absent, Short})
    BY <1>14 DEF KeyNotRead
  <2>2. misread' \in BOOLEAN /\ (misread => misread')
    BY <2>1, Zenon
  <2> QED
    BY <1>13, <1>14, <2>2, KeyNotReadOf DEF KeyNotRead, peers
<1>15. CASE SelectVersion
  BY <1>13, <1>15, SelectOf, Zenon DEF SelectVersion, peers, history, SessionInv
<1>16. CASE Start
  BY <1>13, <1>16, OpeningOf, Zenon DEF Start, peers, history, SessionInv
<1>17. CASE Stops
  BY <1>13, <1>17, StopsOf, Zenon DEF peers, history, SessionInv
<1>18. CASE NewIdentity
  <2>1. /\ Ops(todo') = {"registration"} \cup Ops(Tail(todo))
        /\ \A o \in Ops(Tail(todo)) : Stage("identity") <= Stage(o)
    BY <1>18, NewIdentityOf, TailOf DEF ProgramInv, NewIdentity, Doing
  <2>2. Ops(todo') \cap {"store_session", "delete_identity", "clear_identities", "clear_local"} = {}
    <3>1. /\ Stage("identity") = 13 /\ Stage("store_session") = 2 /\ Stage("delete_identity") = 2
          /\ Stage("clear_identities") = 10 /\ Stage("clear_local") = 12
      BY Stages, Zenon
    <3> QED
      BY <2>1, <3>1
  <2>3. \A e \in Of(todo') : e[1] # "store_session" /\ e[1] # "delete_identity"
    BY <2>2 DEF Ops
  <2>4. UNCHANGED <<sessions, peerKeys>> /\ misread' = (misread \/ local.identity # 0)
    BY <1>18 DEF NewIdentity, peers
  <2>5. misread' \in BOOLEAN /\ (~misread' => ~misread /\ local.identity = 0)
    BY <2>4, Zenon
  <2> QED
    BY <2>2, <2>3, <2>4, <2>5 DEF SessionInv
<1>19. CASE UNCHANGED vars
  BY <1>19 DEF vars, peers, history, SessionInv
<1>20. CASE Calls
  <2>1. /\ local' = local /\ UNCHANGED <<sessions, peerKeys>> /\ local.identity \in Nat
        /\ misread' \in BOOLEAN /\ (misread => misread')
    BY <1>20, CallsFrame, Zenon DEF DrawnInv, ResetUncounted, SessionInv, peers
  <2>2. CASE Publish
    BY <2>1, <2>2, Zenon DEF Publish, SessionInv
  <2>3. ASSUME NEW p \in Peers, EstablishSession(p) PROVE SessionInv'
    <3>1. Stage("save_identity") <= Stage("store_session")
      BY PeerStages, Zenon
    <3>2. /\ Of(todo') = {<<"save_identity", p>>, <<"store_session", p>>}
          /\ Ops(todo') = {"save_identity", "store_session"}
      BY <2>3, <3>1, PeerCallOf, Zenon DEF EstablishSession, Call, PeerOps
    <3>3. \A e \in Of(todo') : e[1] = "store_session" => <<"save_identity", e[2]>> \in Of(todo')
      BY <3>2
    <3>4. \A e \in Of(todo') : e[1] # "delete_identity"
      BY <3>2
    <3>5. "clear_identities" \notin Ops(todo') /\ "clear_local" \notin Ops(todo')
      BY <3>2
    <3>6. SessionsUsable'
      BY <2>1 DEF SessionInv, SessionsUsable
    <3> QED
      BY <2>1, <3>3, <3>4, <3>5, <3>6, Zenon DEF SessionInv
  <2>4. ASSUME NEW p \in Peers, Decrypt(p) PROVE SessionInv'
    <3>1. /\ Of(todo') = {<<"save_identity", p>>, <<"store_session", p>>, <<"remove_pre_key">>}
          /\ Ops(todo') = {"save_identity", "store_session", "remove_pre_key"}
      BY <2>4, DecryptOf
    <3>2. \A e \in Of(todo') : e[1] = "store_session" => <<"save_identity", e[2]>> \in Of(todo')
      BY <3>1
    <3>3. \A e \in Of(todo') : e[1] # "delete_identity"
      BY <3>1
    <3>4. "clear_identities" \notin Ops(todo') /\ "clear_local" \notin Ops(todo')
      BY <3>1
    <3>5. SessionsUsable'
      BY <2>1 DEF SessionInv, SessionsUsable
    <3> QED
      BY <2>1, <3>2, <3>3, <3>4, <3>5, Zenon DEF SessionInv
  <2>5. ASSUME NEW p \in Peers, Send(p) PROVE SessionInv'
    <3>1. Stage("save_identity") <= Stage("event")
      BY PeerStages, Zenon
    <3>2. Ops(todo') = {"save_identity", "event"}
      BY <2>5, <3>1, PeerCallOf, Zenon DEF Send, Call, PeerOps
    <3> QED
      BY <1>13, <2>1, <3>2
  <2>6. ASSUME NEW p \in Peers, ClearPeerSession(p) PROVE SessionInv'
    <3>1. Stage("delete_session") <= Stage("delete_identity")
      BY PeerStages, Zenon
    <3>2. /\ Of(todo') = {<<"delete_session", p>>, <<"delete_identity", p>>}
          /\ Ops(todo') = {"delete_session", "delete_identity"}
      BY <2>6, <3>1, PeerCallOf, Zenon DEF ClearPeerSession, Call, PeerOps
    <3>3. \A e \in Of(todo') : e[1] # "store_session"
      BY <3>2
    <3>4. \A e \in Of(todo') : e[1] = "delete_identity" => <<"delete_session", e[2]>> \in Of(todo')
      BY <3>2
    <3>5. "clear_identities" \notin Ops(todo') /\ "clear_local" \notin Ops(todo')
      BY <3>2
    <3>6. SessionsUsable'
      BY <2>1 DEF SessionInv, SessionsUsable
    <3> QED
      BY <2>1, <3>3, <3>4, <3>5, <3>6, Zenon DEF SessionInv
  <2>7. CASE Maintenance
    BY <1>13, <2>1, <2>7, MaintenanceOf
  <2>8. ASSUME Ops(todo') \cap {"store_session", "delete_identity"} = {},
               "clear_local" \in Ops(todo') =>
                  "clear_sessions" \in Ops(todo') \/ NoSessions \/ misread',
               "clear_identities" \in Ops(todo') => "clear_sessions" \in Ops(todo')
        PROVE  SessionInv'
    <3>1. \A e \in Of(todo') : e[1] # "store_session" /\ e[1] # "delete_identity"
      BY <2>8 DEF Ops
    <3> QED
      BY <2>1, <2>8, <3>1 DEF SessionInv
  <2>9. CASE ClearAllSessions
    <3>1. todo' = ClearAll
      BY <2>9 DEF ClearAllSessions, Call
    <3> QED
      BY <2>8, <3>1, ClearAllOf
  <2>10. CASE CleanupAllSessions
    BY <1>13, <2>1, <2>10, CleanupOf DEF CleanupAllSessions, Call
  <2>11. CASE ResetIdentity \/ ResetUncounted
    BY <2>1, <2>8, <2>11, ResetOf DEF ResetOps
  <2> QED
    BY <1>20, <2>2, <2>3, <2>4, <2>5, <2>6, <2>7, <2>9, <2>10, <2>11 DEF Calls
<1> QED
  BY <1>2, <1>3, <1>4, <1>5, <1>6, <1>7, <1>8, <1>9, <1>10, <1>11, <1>12, <1>14, <1>15, <1>16, <1>17,
     <1>18, <1>19, <1>20, Cases DEF Stores, Clears

-----------------------------------------------------------------------------
(* The invariant, and what follows.                                        *)

\* Before the first start there is nothing.
LEMMA InitInv == Init => BridgeInv
<1> SUFFICES ASSUME Init PROVE BridgeInv
  OBVIOUS
<1>1. todo = <<>> /\ Of(todo) = {} /\ Ops(todo) = {} /\ todo \in Programs
  BY NothingOf DEF Init
<1>2. ProgramInv
  BY <1>1 DEF Init, ProgramInv
<1>3. KeyInv
  BY <1>1, Zenon DEF Init, KeyInv, KeyFileOpensDatabase, Absent
<1>4. SchemaInv
  <2>1. versions = <<>> /\ tables = {} /\ process = "down"
    BY DEF Init
  <2> QED
    BY <1>1, <2>1 DEF SchemaInv, SchemaComplete
<1>5. DrawnInv
  <2>1. /\ drawn = 0 /\ published = {} /\ retired = {}
        /\ local \in [identity : Nat, registration : Nat] /\ local.identity = 0
    BY DEF Init, NoIdentity
  <2> QED
    BY <1>1, <2>1 DEF DrawnInv
<1>6. BundleInv
  BY <1>1, Zenon DEF Init, BundleInv, BundlesVerify
<1>7. SessionInv
  BY <1>1, Zenon DEF Init, SessionInv, SessionsUsable, NoSessions
<1>8. RegistrationInv
  BY <1>1, Zenon DEF Init, RegistrationInv, RegistrationStable
<1> QED
  BY <1>2, <1>3, <1>4, <1>5, <1>6, <1>7, <1>8 DEF BridgeInv

\* Every statement, every interruption and every error keeps the invariant.
LEMMA StepInv == BridgeInv /\ [Next]_vars => BridgeInv'
<1> SUFFICES ASSUME BridgeInv, [Next]_vars PROVE BridgeInv'
  OBVIOUS
<1>1. /\ ProgramInv /\ KeyInv /\ SchemaInv /\ DrawnInv
      /\ BundleInv /\ SessionInv /\ RegistrationInv
  BY DEF BridgeInv
<1>2. local.identity \in Nat
  BY <1>1 DEF DrawnInv
<1>3. ProgramInv' /\ KeyInv' /\ SchemaInv'
  BY <1>1, <1>2, ProgramStep, KeyStep, SchemaStep
<1>4. DrawnInv' /\ RegistrationInv' /\ BundleInv' /\ SessionInv'
  BY <1>1, DrawnStep, RegistrationStep, BundleStep, SessionStep
<1> QED
  BY <1>3, <1>4 DEF BridgeInv

\* The invariant holds of every run of the bridge.
THEOREM BridgeInvariant == Spec => []BridgeInv
BY InitInv, StepInv, PTL DEF Spec

\* The key file always opens the database, wherever get_or_create_db_key or
\* SignalBridge::new is interrupted.
THEOREM KeyFileOpens == Spec => []KeyFileOpensDatabase
<1>1. BridgeInv => KeyFileOpensDatabase
  BY DEF BridgeInv, KeyInv
<1> QED
  BY <1>1, BridgeInvariant, PTL

\* A running bridge has every table, wherever initialize_schema and
\* migrate_to_v2 were interrupted before.
THEOREM TablesThere == Spec => []SchemaComplete
<1>1. BridgeInv => SchemaComplete
  BY DEF BridgeInv, SchemaInv
<1> QED
  BY <1>1, BridgeInvariant, PTL

\* Every announced bundle verifies, wherever ensure_keys_exist,
\* perform_key_maintenance or reset_identity is interrupted.
THEOREM AnnouncedVerify == Spec => []BundlesVerify
<1>1. BridgeInv => BundlesVerify
  BY DEF BridgeInv, BundleInv
<1> QED
  BY <1>1, BridgeInvariant, PTL

\* Every session can be used, wherever clear_peer_session, clear_all_sessions
\* or reset_identity is interrupted.
THEOREM SessionsStayUsable == Spec => []SessionsUsable
<1>1. BridgeInv => SessionsUsable
  BY DEF BridgeInv, SessionInv
<1> QED
  BY <1>1, BridgeInvariant, PTL

\* The registration id announced with an identity never changes.
THEOREM RegistrationKept == Spec => []RegistrationStable
<1>1. BridgeInv => RegistrationStable
  BY DEF BridgeInv, RegistrationInv
<1> QED
  BY <1>1, BridgeInvariant, PTL

\* Nothing of an identity is left once reset_identity has replaced it, at once
\* or at a later start.
THEOREM ResetReplaces == Spec => []ResetIsFinal
<1>1. BridgeInv => ResetIsFinal
  <2> SUFFICES ASSUME BridgeInv, ~misread, NEW i \in retired
               PROVE  i \notin {local.identity} \cup signed \cup kyber \cup {sessions[p] : p \in Peers}
    BY DEF ResetIsFinal
  <2>1. i # 0 /\ i # local.identity
    <3>1. i \in 1 .. drawn /\ i # local.identity /\ drawn \in Nat
      BY Zenon DEF BridgeInv, DrawnInv
    <3> QED
      BY <3>1
  <2>2. i \notin signed \cup kyber
    BY <2>1 DEF BridgeInv, BundleInv
  <2>3. \A p \in Peers : sessions[p] # i
    BY <2>1 DEF BridgeInv, SessionInv, SessionsUsable
  <2> QED
    BY <2>1, <2>2, <2>3
<1> QED
  BY <1>1, BridgeInvariant, PTL
=============================================================================
