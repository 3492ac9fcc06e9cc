-------------------------- MODULE MessagingProofs --------------------------
(***************************************************************************)
(* Proofs about MessageHistory and Messaging, for any peers, aliases and   *)
(* messages and any faults: the counters and the order of the history; the *)
(* contacts and their sessions; that the program uses the history only     *)
(* through its operations; and what becomes of the messages a relay serves.*)
(***************************************************************************)
EXTENDS Messaging, FiniteSetTheorems, TLAPS

(***************************************************************************)
(* MessageHistory.                                                         *)
(***************************************************************************)

\* Every message belongs to a conversation that exists, and a conversation
\* being deleted has none left.
Owned ==
    /\ \A m \in messages :
          \E c \in Peers : conversations[c] # None /\ conversations[c].id = m.conv
    /\ call.stage # "idle" => conversations[call.contact] # None
    /\ call.stage = "delete" => Listed(call.contact) = {}

\* Rows are numbered and dated in the order of their insertion; the row about
\* to be inserted is the latest.
Ordered ==
    /\ ListedInStoreOrder
    /\ \A m \in messages : m.id < nextMsg /\ m.at <= clock
    /\ call.stage = "insert" => call.at <= clock /\ \A m \in messages : m.at <= call.at

\* The counter and what it counts, also between the row and its counter.
Counted ==
    /\ \A c \in Peers : \A i \in fresh[c] : i < nextMsg
    /\ \A c \in Peers :
          conversations[c] # None /\ c \notin drift =>
              Cardinality(fresh[c]) =
                  IF call.stage = "update" /\ call.incoming /\ call.contact = c
                  THEN conversations[c].unread + 1
                  ELSE conversations[c].unread
    /\ \A c \in Peers : conversations[c] = None => fresh[c] = {}
    /\ call.stage = "delete" => call.contact \in drift /\ fresh[call.contact] = {}

HistoryIInv == HistoryTypeOK /\ Owned /\ Ordered /\ Counted

-----------------------------------------------------------------------------
\* Ids below the next one are finitely many.
LEMMA BelowFinite ==
    ASSUME NEW S \in SUBSET Nat, NEW n \in Nat, \A i \in S : i < n
    PROVE  IsFiniteSet(S) /\ Cardinality(S) \in Nat
<1>1. S \subseteq 0 .. n
  OBVIOUS
<1>2. IsFiniteSet(0 .. n)
  BY FS_Interval
<1>3. IsFiniteSet(S)
  BY <1>1, <1>2, FS_Subset
<1> QED
  BY <1>3, FS_CardinalityType

\* What a mark leaves unread are ids of rows, so the counter it writes is a
\* number.
LEMMA LaterIds ==
    ASSUME HistoryTypeOK, Ordered, NEW c \in Peers, NEW upTo \in Nat
    PROVE  /\ Later(c, upTo) \subseteq Nat
           /\ \A i \in Later(c, upTo) : i < nextMsg
           /\ Cardinality(Later(c, upTo)) \in Nat
<1>1. /\ Later(c, upTo) \subseteq Nat
      /\ \A i \in Later(c, upTo) : i < nextMsg
  BY DEF Later, Listed, HistoryTypeOK, Ordered
<1> QED
  BY <1>1, BelowFinite DEF HistoryTypeOK

\* The empty tables satisfy the inductive invariant.
LEMMA InitIInv == HistoryInit => HistoryIInv
<1> SUFFICES ASSUME HistoryInit PROVE HistoryIInv
  OBVIOUS
<1>1. HistoryTypeOK
  BY HistoryAssumption DEF HistoryInit, HistoryTypeOK, Calls, Idle
<1>2. Owned
  BY DEF HistoryInit, Owned, Idle
<1>3. Ordered
  BY DEF HistoryInit, Ordered, ListedInStoreOrder, Idle
<1>4. Counted
  BY DEF HistoryInit, Counted, Idle
<1> QED
  BY <1>1, <1>2, <1>3, <1>4 DEF HistoryIInv

-----------------------------------------------------------------------------
(* Each operation preserves the invariant.                                 *)

\* The conversation row: new, and then with nothing to count, or as it was.
LEMMA GetOrCreateStep ==
    ASSUME HistoryIInv, NEW c \in Peers, NEW incoming \in BOOLEAN, GetOrCreate(c, incoming)
    PROVE  HistoryIInv'
<1> USE DEF HistoryIInv
<1> DEFINE row == [id |-> nextConv, last |-> 0, unread |-> 0]
<1>1. /\ call = Idle
      /\ call' = Storing("insert", c, incoming, clock)
      /\ UNCHANGED <<messages, nextMsg, clock, fresh, drift>>
      /\ \A d \in Peers : conversations'[d] =
             IF d = c /\ conversations[c] = None THEN row ELSE conversations[d]
  BY DEF GetOrCreate, HistoryTypeOK
<1>2. row \in Rows /\ row # None
  BY HistoryAssumption DEF Rows, HistoryTypeOK
<1>3. HistoryTypeOK'
  <2>1. conversations' \in [Peers -> Rows \cup {None}]
    BY <1>2 DEF GetOrCreate, HistoryTypeOK
  <2>2. nextConv' \in Nat
    BY DEF GetOrCreate, HistoryTypeOK
  <2>3. call' \in Calls
    BY <1>1 DEF Storing, Calls, HistoryTypeOK
  <2> QED
    BY <1>1, <2>1, <2>2, <2>3 DEF HistoryTypeOK
<1>4. Owned'
  BY <1>1, <1>2 DEF Owned, Storing
<1>5. Ordered'
  BY <1>1 DEF Ordered, ListedInStoreOrder, Storing, HistoryTypeOK
<1>6. Counted'
  <2>1. ASSUME NEW d \in Peers, conversations'[d] # None, d \notin drift
        PROVE  Cardinality(fresh[d]) = conversations'[d].unread
    <3>1. CASE d = c /\ conversations[c] = None
      <4>1. fresh[d] = {} /\ conversations'[d] = row
        BY <3>1, <1>1 DEF Counted
      <4> QED
        BY <4>1, FS_EmptySet
    <3>2. CASE ~(d = c /\ conversations[c] = None)
      BY <3>2, <1>1, <2>1 DEF Counted, Idle
    <3> QED
      BY <3>1, <3>2
  <2>2. \A d \in Peers : conversations'[d] = None => fresh[d] = {}
    BY <1>1, <1>2 DEF Counted
  <2>3. call'.stage = "insert"
    BY <1>1 DEF Storing
  <2> QED
    BY <1>1, <2>1, <2>2, <2>3 DEF Counted
<1> QED
  BY <1>3, <1>4, <1>5, <1>6

\* The message row: its id is new to what the counter has to count.
LEMMA InsertMessageStep ==
    ASSUME HistoryIInv, InsertMessage
    PROVE  HistoryIInv'
<1> USE DEF HistoryIInv
<1> DEFINE c == call.contact
           row == [id |-> nextMsg, conv |-> conversations[c].id,
                   incoming |-> call.incoming, at |-> call.at, status |-> Pending]
<1>1. /\ call.stage = "insert"
      /\ c \in Peers
      /\ call.incoming \in BOOLEAN
      /\ call.at \in Nat
      /\ call' = [call EXCEPT !.stage = "update"]
      /\ call'.stage = "update"
      /\ call'.contact = c
      /\ call'.incoming = call.incoming
      /\ call' \in Calls
  BY DEF InsertMessage, HistoryTypeOK, Calls, Idle
<1>2. /\ messages' = messages \cup {row}
      /\ nextMsg' = nextMsg + 1
      /\ UNCHANGED <<conversations, nextConv, clock, drift>>
  BY DEF InsertMessage
<1>3. conversations[c] # None /\ conversations[c] \in Rows
  BY <1>1 DEF Owned, HistoryTypeOK
<1>4. row \in [id : Nat, conv : Nat, incoming : BOOLEAN, at : Nat, status : Statuses]
  BY <1>1, <1>3, HistoryAssumption DEF Rows, HistoryTypeOK
<1>5. \A d \in Peers : fresh'[d] =
          IF call.incoming /\ d = c THEN fresh[d] \cup {nextMsg} ELSE fresh[d]
  BY <1>1 DEF InsertMessage, HistoryTypeOK
<1>6. HistoryTypeOK'
  <2>1. fresh' \in [Peers -> SUBSET Nat]
    BY <1>1 DEF InsertMessage, HistoryTypeOK
  <2> QED
    BY <1>1, <1>2, <1>4, <2>1 DEF HistoryTypeOK
<1>7. Owned'
  BY <1>1, <1>2, <1>3 DEF Owned
<1>8. Ordered'
  BY <1>1, <1>2, <1>4 DEF Ordered, ListedInStoreOrder, HistoryTypeOK
<1>9. Counted'
  <2>1. \A d \in Peers : \A i \in fresh'[d] : i < nextMsg'
    <3> SUFFICES ASSUME NEW d \in Peers, NEW i \in fresh'[d] PROVE i < nextMsg + 1
      BY <1>2
    <3>1. i \in fresh[d] \/ i = nextMsg
      BY <1>5
    <3>2. fresh[d] \subseteq Nat /\ nextMsg \in Nat
      BY DEF HistoryTypeOK
    <3>3. i \in fresh[d] => i < nextMsg
      BY DEF Counted
    <3> QED
      BY <3>1, <3>2, <3>3
  <2>2. ASSUME NEW d \in Peers, conversations[d] # None, d \notin drift
        PROVE  Cardinality(fresh'[d]) =
                   IF call.incoming /\ c = d THEN conversations[d].unread + 1
                                             ELSE conversations[d].unread
    <3>1. Cardinality(fresh[d]) = conversations[d].unread
      BY <1>1, <2>2 DEF Counted
    <3>2. IsFiniteSet(fresh[d]) /\ nextMsg \notin fresh[d]
      <4>1. fresh[d] \in SUBSET Nat /\ nextMsg \in Nat
        BY DEF HistoryTypeOK
      <4>2. \A i \in fresh[d] : i < nextMsg
        BY DEF Counted
      <4> QED
        BY <4>1, <4>2, BelowFinite
    <3>3. Cardinality(fresh[d] \cup {nextMsg}) = Cardinality(fresh[d]) + 1
      BY <3>2, FS_AddElement
    <3> QED
      BY <3>1, <3>3, <1>5
  <2>3. \A d \in Peers : conversations[d] = None => fresh'[d] = {}
    BY <1>3, <1>5 DEF Counted
  <2> QED
    BY <1>1, <1>2, <2>1, <2>2, <2>3 DEF Counted
<1> QED
  BY <1>6, <1>7, <1>8, <1>9

\* The counters catch up with the row.
LEMMA UpdateConversationStep ==
    ASSUME HistoryIInv, UpdateConversation
    PROVE  HistoryIInv'
<1> USE DEF HistoryIInv
<1> DEFINE c == call.contact
<1>1. /\ call.stage = "update"
      /\ c \in Peers
      /\ call.incoming \in BOOLEAN
      /\ call.at \in Nat
      /\ call' = Idle
      /\ UNCHANGED <<messages, nextConv, nextMsg, clock, fresh, drift>>
  BY DEF UpdateConversation, HistoryTypeOK, Calls, Idle
<1>2. conversations[c] # None /\ conversations[c] \in Rows
  BY <1>1 DEF Owned, HistoryTypeOK
<1>3. /\ conversations'[c] \in Rows
      /\ conversations'[c].id = conversations[c].id
      /\ conversations'[c].unread =
             IF call.incoming THEN conversations[c].unread + 1 ELSE conversations[c].unread
      /\ \A d \in Peers \ {c} : conversations'[d] = conversations[d]
      /\ conversations' \in [Peers -> Rows \cup {None}]
  <2> DEFINE old == conversations[c]
             new == [id |-> old.id, last |-> call.at,
                     unread |-> IF call.incoming THEN old.unread + 1 ELSE old.unread]
  <2>1. conversations' = [conversations EXCEPT ![c] = new]
    BY DEF UpdateConversation
  <2>2. /\ new \in Rows
        /\ new.id = conversations[c].id
        /\ new.unread = IF call.incoming THEN conversations[c].unread + 1
                                         ELSE conversations[c].unread
    BY <1>1, <1>2 DEF Rows
  <2> HIDE DEF new
  <2> QED
    BY <1>1, <2>1, <2>2 DEF HistoryTypeOK
<1>4. conversations'[c] # None
  BY <1>3, HistoryAssumption DEF Rows
<1>5. HistoryTypeOK'
  BY <1>1, <1>3 DEF HistoryTypeOK, Calls
<1>6. Owned'
  BY <1>1, <1>2, <1>3, <1>4 DEF Owned, Idle
<1>7. Ordered'
  BY <1>1 DEF Ordered, ListedInStoreOrder, Idle
<1>8. Counted'
  BY <1>1, <1>2, <1>3, <1>4 DEF Counted, Idle
<1> QED
  BY <1>5, <1>6, <1>7, <1>8

\* What the two marks have in common: "left" stays unread.
Marks(c, left) ==
    /\ call = Idle
    /\ conversations[c] # None
    /\ conversations' = [conversations EXCEPT ![c].unread = Cardinality(left)]
    /\ fresh' = [fresh EXCEPT ![c] = left]
    /\ drift' = drift \ {c}
    /\ UNCHANGED <<messages, nextConv, nextMsg, call, clock>>

\* A mark writes the number of what it leaves unread, and so ends any drift.
LEMMA MarkStep ==
    ASSUME HistoryIInv, NEW c \in Peers, NEW left \in SUBSET Nat,
           \A i \in left : i < nextMsg, Marks(c, left)
    PROVE  HistoryIInv'
<1> USE DEF HistoryIInv, Marks
<1>1. Cardinality(left) \in Nat
  BY BelowFinite DEF HistoryTypeOK
<1>2. conversations[c] \in Rows
  BY DEF HistoryTypeOK
<1>3. /\ conversations' \in [Peers -> Rows \cup {None}]
      /\ conversations'[c] \in Rows
      /\ conversations'[c].id = conversations[c].id
      /\ conversations'[c].unread = Cardinality(left)
      /\ \A d \in Peers \ {c} : conversations'[d] = conversations[d]
  BY <1>1, <1>2 DEF HistoryTypeOK, Rows
<1>4. conversations'[c] # None
  BY <1>3, HistoryAssumption DEF Rows
<1>5. HistoryTypeOK'
  BY <1>3 DEF HistoryTypeOK
<1>6. Owned'
  BY <1>3, <1>4 DEF Owned, Idle
<1>7. Ordered'
  BY DEF Ordered, ListedInStoreOrder
<1>8. Counted'
  <2>1. fresh'[c] = left /\ \A d \in Peers \ {c} : fresh'[d] = fresh[d]
    BY DEF HistoryTypeOK
  <2> QED
    BY <1>3, <1>4, <2>1 DEF Counted, Idle
<1> QED
  BY <1>5, <1>6, <1>7, <1>8

\* mark_conversation_read
LEMMA MarkReadStep ==
    ASSUME HistoryIInv, NEW c \in Peers, MarkRead(c)
    PROVE  HistoryIInv'
<1>1. Cardinality({}) = 0
  BY FS_EmptySet
<1>2. Marks(c, {})
  BY <1>1 DEF MarkRead, Marks
<1> QED
  BY <1>2, MarkStep

\* mark_conversation_read_up_to
LEMMA MarkReadUpToStep ==
    ASSUME HistoryIInv, NEW c \in Peers, NEW upTo \in Nat, MarkReadUpTo(c, upTo)
    PROVE  HistoryIInv'
<1>1. /\ Later(c, upTo) \subseteq Nat
      /\ \A i \in Later(c, upTo) : i < nextMsg
  BY LaterIds DEF HistoryIInv
<1>2. Marks(c, Later(c, upTo))
  BY DEF MarkReadUpTo, Marks
<1> QED
  BY <1>1, <1>2, MarkStep

\* /chat: the time of the newest row is a time.
LEMMA MarkShownStep ==
    ASSUME HistoryIInv, NEW c \in Peers, MarkShown(c)
    PROVE  HistoryIInv'
<1>1. CASE MarkRead(c)
  BY <1>1, MarkReadStep
<1>2. ASSUME NEW m \in Newest(c), MarkReadUpTo(c, m.at)
      PROVE  HistoryIInv'
  <2>1. m.at \in Nat
    BY DEF Newest, Listed, HistoryIInv, HistoryTypeOK
  <2> QED
    BY <1>2, <2>1, MarkReadUpToStep
<1> QED
  BY <1>1, <1>2 DEF MarkShown

\* update_delivery_status changes no id, time or conversation.
LEMMA UpdateDeliveryStatusStep ==
    ASSUME HistoryIInv, NEW m \in messages, NEW s \in Statuses, UpdateDeliveryStatus(m, s)
    PROVE  HistoryIInv'
<1> USE DEF HistoryIInv
<1> DEFINE new == [m EXCEPT !.status = s]
<1>1. m \in [id : Nat, conv : Nat, incoming : BOOLEAN, at : Nat, status : Statuses]
  BY DEF HistoryTypeOK
<1>2. /\ new \in [id : Nat, conv : Nat, incoming : BOOLEAN, at : Nat, status : Statuses]
      /\ new.id = m.id /\ new.conv = m.conv /\ new.at = m.at
  BY <1>1
<1>3. /\ call = Idle
      /\ messages' = (messages \ {m}) \cup {new}
      /\ UNCHANGED <<conversations, nextConv, nextMsg, call, clock, fresh, drift>>
  BY DEF UpdateDeliveryStatus
<1> HIDE DEF new
<1>4. HistoryTypeOK'
  BY <1>2, <1>3 DEF HistoryTypeOK
<1>5. Owned'
  BY <1>2, <1>3 DEF Owned, Idle
<1>6. Ordered'
  BY <1>2, <1>3 DEF Ordered, ListedInStoreOrder, Idle
<1>7. Counted'
  BY <1>3 DEF Counted
<1> QED
  BY <1>4, <1>5, <1>6, <1>7

\* delete_message: the counter stays, and drifts when the message was unread.
LEMMA DeleteMessageStep ==
    ASSUME HistoryIInv, NEW m \in messages, DeleteMessage(m)
    PROVE  HistoryIInv'
<1> USE DEF HistoryIInv
<1> DEFINE o == Owner(m)
<1>1. o \in Peers /\ conversations[o] # None
  BY DEF Owned, Owner
<1>2. /\ call = Idle
      /\ messages' = messages \ {m}
      /\ fresh' = [fresh EXCEPT ![o] = fresh[o] \ {m.id}]
      /\ drift' = IF m.id \in fresh[o] THEN drift \cup {o} ELSE drift
      /\ UNCHANGED <<conversations, nextConv, nextMsg, call, clock>>
  BY DEF DeleteMessage
<1> HIDE DEF o
<1>3. /\ fresh' \in [Peers -> SUBSET Nat]
      /\ \A d \in Peers : fresh'[d] \subseteq fresh[d]
      /\ \A d \in Peers : d \notin drift' => fresh'[d] = fresh[d]
  BY <1>1, <1>2 DEF HistoryTypeOK
<1>4. HistoryTypeOK'
  BY <1>1, <1>2, <1>3 DEF HistoryTypeOK
<1>5. Owned'
  BY <1>2 DEF Owned, Idle
<1>6. Ordered'
  BY <1>2 DEF Ordered, ListedInStoreOrder, Idle
<1>7. Counted'
  BY <1>2, <1>3 DEF Counted, Idle
<1> QED
  BY <1>4, <1>5, <1>6, <1>7

\* delete_conversation, first statement.
LEMMA DeleteMessagesStep ==
    ASSUME HistoryIInv, NEW c \in Peers, DeleteMessages(c)
    PROVE  HistoryIInv'
<1> USE DEF HistoryIInv
<1>1. /\ call = Idle
      /\ conversations[c] # None
      /\ messages' = messages \ Listed(c)
      /\ fresh' = [fresh EXCEPT ![c] = {}]
      /\ drift' = drift \cup {c}
      /\ call' = [stage |-> "delete", contact |-> c]
      /\ UNCHANGED <<conversations, nextConv, nextMsg, clock>>
  BY DEF DeleteMessages
<1>2. HistoryTypeOK'
  BY <1>1 DEF HistoryTypeOK, Calls
<1>3. Owned'
  BY <1>1 DEF Owned, Listed
<1>4. Ordered'
  BY <1>1 DEF Ordered, ListedInStoreOrder
<1>5. Counted'
  BY <1>1 DEF Counted, Idle, HistoryTypeOK
<1> QED
  BY <1>2, <1>3, <1>4, <1>5

\* delete_conversation, second statement: no message is left without a row.
LEMMA DeleteRowStep ==
    ASSUME HistoryIInv, DeleteRow
    PROVE  HistoryIInv'
<1> USE DEF HistoryIInv
<1> DEFINE c == call.contact
<1>1. /\ call.stage = "delete"
      /\ c \in Peers
      /\ conversations' = [conversations EXCEPT ![c] = None]
      /\ drift' = drift \ {c}
      /\ call' = Idle
      /\ UNCHANGED <<messages, nextConv, nextMsg, clock, fresh>>
  BY DEF DeleteRow, HistoryTypeOK, Calls, Idle
<1>2. HistoryTypeOK'
  BY <1>1 DEF HistoryTypeOK, Calls
<1>3. Owned'
  BY <1>1 DEF Owned, Listed, Idle, HistoryTypeOK
<1>4. Ordered'
  BY <1>1 DEF Ordered, ListedInStoreOrder, Idle
<1>5. Counted'
  BY <1>1 DEF Counted, Idle, HistoryTypeOK
<1> QED
  BY <1>2, <1>3, <1>4, <1>5
\* The process ends: a row whose counter is missing makes the counter drift.
LEMMA CrashStep ==
    ASSUME HistoryIInv, Crash
    PROVE  HistoryIInv'
<1> USE DEF HistoryIInv
<1>1. /\ call' = Idle
      /\ drift' = IF call.stage = "update" /\ call.incoming
                  THEN drift \cup {call.contact} ELSE drift
      /\ UNCHANGED <<conversations, messages, nextConv, nextMsg, clock, fresh>>
  BY DEF Crash
<1>2. call.stage = "update" => call.contact \in Peers
  BY DEF HistoryTypeOK, Calls, Idle
<1>3. HistoryTypeOK'
  BY <1>1, <1>2 DEF HistoryTypeOK, Calls
<1>4. Owned'
  BY <1>1 DEF Owned, Idle
<1>5. Ordered'
  BY <1>1 DEF Ordered, ListedInStoreOrder, Idle
<1>6. Counted'
  BY <1>1 DEF Counted, Idle
<1> QED
  BY <1>3, <1>4, <1>5, <1>6

\* The clock moves on.
LEMMA TickStep ==
    ASSUME HistoryIInv, Tick
    PROVE  HistoryIInv'
<1> USE DEF HistoryIInv
<1>1. /\ clock' = clock + 1
      /\ UNCHANGED <<conversations, messages, nextConv, nextMsg, call, fresh, drift>>
  BY DEF Tick
<1>2. HistoryTypeOK'
  BY <1>1 DEF HistoryTypeOK
<1>3. Owned'
  BY <1>1 DEF Owned, Listed
<1>4. Ordered'
  <2>1. \A m \in messages : m.at \in Nat
    BY DEF HistoryTypeOK
  <2>2. call.stage = "insert" => call.at \in Nat
    BY DEF HistoryTypeOK, Calls, Idle
  <2>3. clock \in Nat
    BY DEF HistoryTypeOK
  <2> QED
    BY <1>1, <2>1, <2>2, <2>3 DEF Ordered, ListedInStoreOrder
<1>5. Counted'
  BY <1>1 DEF Counted
<1> QED
  BY <1>2, <1>3, <1>4, <1>5

-----------------------------------------------------------------------------
\* Every step of MessageHistory preserves the invariant.
LEMMA NextIInv == HistoryIInv /\ [HistoryNext]_historyVars => HistoryIInv'
<1> SUFFICES ASSUME HistoryIInv, [HistoryNext]_historyVars PROVE HistoryIInv'
  OBVIOUS
<1>1. ASSUME NEW c \in Peers, NEW incoming \in BOOLEAN, GetOrCreate(c, incoming)
      PROVE  HistoryIInv'
  BY <1>1, GetOrCreateStep
<1>2. CASE InsertMessage
  BY <1>2, InsertMessageStep
<1>3. CASE UpdateConversation
  BY <1>3, UpdateConversationStep
<1>4. ASSUME NEW c \in Peers, MarkRead(c) PROVE HistoryIInv'
  BY <1>4, MarkReadStep
<1>5. ASSUME NEW c \in Peers, NEW upTo \in 0 .. clock, MarkReadUpTo(c, upTo)
      PROVE  HistoryIInv'
  <2>1. upTo \in Nat
    BY DEF HistoryIInv, HistoryTypeOK
  <2> QED
    BY <1>5, <2>1, MarkReadUpToStep
<1>6. ASSUME NEW c \in Peers, MarkShown(c) PROVE HistoryIInv'
  BY <1>6, MarkShownStep
<1>7. ASSUME NEW c \in Peers, DeleteMessages(c) PROVE HistoryIInv'
  BY <1>7, DeleteMessagesStep
<1>8. ASSUME NEW m \in messages, NEW s \in Statuses, UpdateDeliveryStatus(m, s)
      PROVE  HistoryIInv'
  BY <1>8, UpdateDeliveryStatusStep
<1>9. ASSUME NEW m \in messages, DeleteMessage(m) PROVE HistoryIInv'
  BY <1>9, DeleteMessageStep
<1>10. CASE DeleteRow
  BY <1>10, DeleteRowStep
<1>11. CASE Crash
  BY <1>11, CrashStep
<1>12. CASE Tick
  BY <1>12, TickStep
<1>13. CASE UNCHANGED historyVars
  BY <1>13 DEF historyVars, HistoryIInv, HistoryTypeOK, Owned, Ordered, Counted,
     ListedInStoreOrder, Listed
<1> QED
  BY <1>1, <1>2, <1>3, <1>4, <1>5, <1>6, <1>7, <1>8, <1>9, <1>10, <1>11, <1>12, <1>13
     DEF HistoryNext

\* The counter of a conversation is the number of its unread messages, however
\* stores, marks and deletions follow one another, except where a crash or a
\* deletion has made it drift (UnreadCounts).
THEOREM UnreadCounted == HistorySpec => []UnreadCounts
<1>1. HistoryIInv => UnreadCounts
  BY DEF HistoryIInv, Counted, UnreadCounts
<1> QED
  BY <1>1, InitIInv, NextIInv, PTL DEF HistorySpec

\* Listing a conversation by time lists it in the order of storing
\* (ListedInStoreOrder).
THEOREM StoreOrder == HistorySpec => []ListedInStoreOrder
<1>1. HistoryIInv => ListedInStoreOrder
  BY DEF HistoryIInv, Ordered
<1> QED
  BY <1>1, InitIInv, NextIInv, PTL DEF HistorySpec

\* Deleting a conversation in two statements leaves no message without its
\* conversation, even when the process ends between them.
THEOREM NoOrphans ==
    HistorySpec => [](\A m \in messages :
        \E c \in Peers : conversations[c] # None /\ conversations[c].id = m.conv)
<1>1. HistoryIInv => \A m \in messages :
          \E c \in Peers : conversations[c] # None /\ conversations[c].id = m.conv
  BY DEF HistoryIInv, Owned
<1> QED
  BY <1>1, InitIInv, NextIInv, PTL DEF HistorySpec

-----------------------------------------------------------------------------
(***************************************************************************)
(* Messaging: contacts, sessions, and the use of the history.              *)
(***************************************************************************)

Jobs ==
    {None} \cup [stage : {"decrypt", "store", "stamp"}, msg : sent]
           \cup [stage : {"send"}, to : Peers]

\* The types the other proofs need.
Typed ==
    /\ contacts \in [Identities -> Aliases \cup {NoAlias, None}]
    /\ sessions \subseteq Peers
    /\ trusting \in {None} \cup [peer : Peers, alias : UserAliases \cup {NoAlias}]
    /\ \A m \in sent : m.from \in Peers
    /\ job \in Jobs

\* The row comes before the session: also while a handler or a /trust is
\* between the two.
RowFirst ==
    /\ SessionHasContact
    /\ trusting # None => contacts[trusting.peer] # None
    /\ job # None /\ job.stage # "send" => contacts[job.msg.from] # None

-----------------------------------------------------------------------------
\* Nothing is under way and no row is written at the start.
LEMMA InitTyped == Init => Typed /\ RowFirst /\ AliasNamesOne
<1> SUFFICES ASSUME Init PROVE Typed /\ RowFirst /\ AliasNamesOne
  OBVIOUS
<1>1. Typed
  BY DEF Init, ContactsInit, Typed, Jobs
<1>2. RowFirst
  BY DEF Init, ContactsInit, RowFirst, SessionHasContact
<1>3. AliasNamesOne
  BY ContactsAssumption DEF Init, ContactsInit, AliasNamesOne, Holders, Aliases
<1> QED
  BY <1>1, <1>2, <1>3

\* No alias is an identity, so looking an identity up finds its own row only.
LEMMA NamedByRow ==
    ASSUME Typed, NEW p \in Peers
    PROVE  Known(p) <=> contacts[p] # None
BY ContactsAssumption DEF Known, Lookup, Typed, Identities

\* assign_contact_alias writes an alias to the row it was asked for, or nothing.
LEMMA AssignWrites ==
    ASSUME Typed, NEW i \in Identities, NEW alias \in UserAliases, Assign(i, alias)
    PROVE  \/ UNCHANGED contacts
           \/ /\ contacts' = [contacts EXCEPT ![i] = alias]
              /\ Holders(alias) = {} \/ i \in Holders(alias)
BY DEF Assign, Write

\* How the contacts table changes in one step: an alias the user gives goes to
\* a row only if no other row has it, and any other value is not such an alias.
ContactsChange ==
    \/ UNCHANGED contacts
    \/ \E i \in Identities, alias \in UserAliases :
          /\ contacts' = [contacts EXCEPT ![i] = alias]
          /\ Holders(alias) = {} \/ i \in Holders(alias)
    \/ \E i \in Identities, alias \in {NoAlias, SelfAlias} \cup {Unknown(p) : p \in Peers} :
          contacts' = [contacts EXCEPT ![i] = alias]

\* The handlers write the contacts table in no other way.
LEMMA NextContacts ==
    ASSUME Typed, [Next]_vars
    PROVE  ContactsChange
<1> USE DEF Identities
<1>1. ASSUME NEW m \in sent, Receive(m) PROVE ContactsChange
  <2>1. m.from \in Peers
    BY DEF Typed
  <2> QED
    BY <1>1, <2>1 DEF Receive, Write, ContactsChange
<1>2. CASE ContactCommand
  <2>1. ASSUME NEW name \in Names, NEW alias \in UserAliases \cup {NoAlias},
               TrustKnown(name, alias)
        PROVE  ContactsChange
    <3>1. PICK i \in Lookup(name) :
              IF alias = NoAlias THEN UNCHANGED <<contacts, orchestrator>> ELSE Assign(i, alias)
      BY <2>1 DEF TrustKnown
    <3>2. i \in Identities
      BY DEF Lookup
    <3>3. CASE alias = NoAlias
      BY <3>1, <3>3 DEF ContactsChange
    <3>4. CASE alias # NoAlias
      BY <3>1, <3>2, <3>4, AssignWrites DEF ContactsChange
    <3> QED
      BY <3>3, <3>4
  <2>2. CASE PublishSelf
    BY <2>2 DEF PublishSelf, Write, ContactsChange
  <2>3. ASSUME NEW p \in Peers, NEW alias \in UserAliases \cup {NoAlias},
               TrustDiscovered(p, alias)
        PROVE  ContactsChange
    BY <2>3 DEF TrustDiscovered, Write, ContactsChange
  <2>4. CASE UNCHANGED contacts
    BY <2>4 DEF ContactsChange
  <2> QED
    BY <1>2, <2>1, <2>2, <2>3, <2>4
       DEF ContactCommand, AnnouncementReceived, AnnouncementRemoved, TrustOwnBundle
<1>3. CASE FinishTrust
  <2>1. CASE Establish
    <3>1. trusting.peer \in Identities /\ trusting.alias \in UserAliases \cup {NoAlias}
      BY <2>1 DEF Establish, Typed
    <3>2. CASE trusting.alias = NoAlias
      BY <2>1, <3>2 DEF Establish, ContactsChange
    <3>3. CASE trusting.alias # NoAlias
      <4>1. Assign(trusting.peer, trusting.alias)
        BY <2>1, <3>3 DEF Establish
      <4> QED
        BY <3>1, <3>3, <4>1, AssignWrites DEF ContactsChange
    <3> QED
      BY <3>2, <3>3
  <2>2. CASE EstablishFails
    BY <2>2 DEF EstablishFails, ContactsChange
  <2> QED
    BY <1>3, <2>1, <2>2 DEF FinishTrust
<1>4. CASE UNCHANGED contacts
  BY <1>4 DEF ContactsChange
<1> QED
  BY <1>1, <1>2, <1>3, <1>4
     DEF Next, vars, contactVars, PeerSends, Subscribe, Decrypt, DecryptFails, StoreIncoming,
         StoreStep, StoreFails, Stamp, Send, Chat, SendStored, Disconnect, Restart, ContactsRestart

\* Rows stay, and stay of their type.
LEMMA RowsStay ==
    ASSUME Typed, ContactsChange
    PROVE  /\ contacts' \in [Identities -> Aliases \cup {NoAlias, None}]
           /\ \A i \in Identities : contacts[i] # None => contacts'[i] # None
<1> DEFINE Other == {NoAlias, SelfAlias} \cup {Unknown(p) : p \in Peers}
<1>1. UserAliases \cup Other \subseteq Aliases \cup {NoAlias}
  BY DEF Aliases
<1>2. None \notin UserAliases \cup Other
  BY <1>1, ContactsAssumption
<1> QED
  BY <1>1, <1>2 DEF ContactsChange, Typed

\* No change gives an alias of the user to a second contact.
LEMMA AliasStep ==
    ASSUME Typed, ContactsChange, AliasNamesOne
    PROVE  AliasNamesOne'
<1> SUFFICES ASSUME NEW alias \in UserAliases \ {SelfAlias},
                    NEW i \in Identities, NEW j \in Identities,
                    contacts'[i] = alias, contacts'[j] = alias
             PROVE  i = j
  BY DEF AliasNamesOne, Holders
<1>1. contacts[i] = alias /\ contacts[j] = alias => i = j
  BY DEF AliasNamesOne, Holders
<1>2. CASE UNCHANGED contacts
  BY <1>1, <1>2
<1>3. ASSUME NEW k \in Identities, NEW a \in UserAliases,
             contacts' = [contacts EXCEPT ![k] = a],
             Holders(a) = {} \/ k \in Holders(a)
      PROVE  i = j
  BY <1>1, <1>3 DEF Typed, Holders, AliasNamesOne
<1>4. ASSUME NEW k \in Identities,
             NEW a \in {NoAlias, SelfAlias} \cup {Unknown(p) : p \in Peers},
             contacts' = [contacts EXCEPT ![k] = a]
      PROVE  i = j
  <2>1. a # alias
    BY ContactsAssumption
  <2> QED
    BY <1>1, <1>4, <2>1 DEF Typed
<1> QED
  BY <1>2, <1>3, <1>4 DEF ContactsChange

-----------------------------------------------------------------------------
\* A peer sends one message of its own, without a pre-key only if it has heard.
LEMMA PeerSendsOne ==
    ASSUME NEW p \in Peers, PeerSends(p)
    PROVE  \E m : /\ sent' = sent \cup {m} /\ m.from = p
                  /\ m.kind = "signal" => p \in heard
<1>1. PICK kind \in {"prekey", "signal"}, at \in Times, ok \in BOOLEAN :
          /\ kind = "signal" => p \in heard
          /\ sent' = sent \cup {[from |-> p, n |-> Cardinality(sent), at |-> at,
                                 kind |-> kind, ok |-> ok]}
  BY DEF PeerSends
<1> DEFINE m == [from |-> p, n |-> Cardinality(sent), at |-> at, kind |-> kind, ok |-> ok]
<1>2. m.from = p /\ m.kind = kind /\ sent' = sent \cup {m}
  BY <1>1
<1> HIDE DEF m
<1> QED
  BY <1>1, <1>2

\* Every step keeps the types, and the row before the session.
LEMMA NextTyped ==
    ASSUME Typed, RowFirst, [Next]_vars
    PROVE  Typed' /\ RowFirst'
<1>0. /\ contacts' \in [Identities -> Aliases \cup {NoAlias, None}]
      /\ \A p \in Peers : contacts[p] # None => contacts'[p] # None
  BY NextContacts, RowsStay DEF Identities
<1>1. ASSUME NEW p \in Peers, PeerSends(p) PROVE Typed' /\ RowFirst'
  <2>1. /\ \A m \in sent' : m.from \in Peers
        /\ sent \subseteq sent'
        /\ UNCHANGED <<contacts, sessions, trusting, job>>
    <3>1. PICK m : sent' = sent \cup {m} /\ m.from = p
      BY <1>1, PeerSendsOne
    <3>2. UNCHANGED <<contacts, sessions, trusting, job>>
      BY <1>1 DEF PeerSends, contactVars
    <3>3. \A k \in sent : k.from \in Peers
      BY DEF Typed
    <3> QED
      BY <3>1, <3>2, <3>3
  <2>2. job' \in Jobs'
    BY <2>1 DEF Typed, Jobs
  <2> QED
    BY <2>1, <2>2 DEF Typed, RowFirst, SessionHasContact
<1>2. ASSUME NEW m \in sent, Receive(m) PROVE Typed' /\ RowFirst'
  <2>1. m.from \in Peers
    BY DEF Typed
  <2>2. /\ job' \in {None, [stage |-> "decrypt", msg |-> m]}
        /\ UNCHANGED <<sessions, trusting, sent>>
    BY <1>2 DEF Receive
  <2>3. job' # None => contacts'[m.from] # None
    <3>1. CASE m.kind = "prekey" /\ ~Known(m.from)
      <4>1. contacts' = [contacts EXCEPT ![m.from] = Unknown(m.from)]
        BY <1>2, <3>1 DEF Receive, Write
      <4>2. Unknown(m.from) # None
        BY <2>1, ContactsAssumption DEF Aliases
      <4> QED
        BY <2>1, <4>1, <4>2 DEF Typed, Identities
    <3>2. CASE Known(m.from)
      <4>1. contacts[m.from] # None
        BY <2>1, <3>2, NamedByRow
      <4> QED
        BY <4>1, <2>1, <1>0
    <3>3. CASE m.kind # "prekey" /\ ~Known(m.from)
      BY <1>2, <3>3 DEF Receive
    <3> QED
      BY <3>1, <3>2, <3>3
  <2>4. job' \in Jobs'
    <3>1. [stage |-> "decrypt", msg |-> m] \in [stage : {"decrypt", "store", "stamp"}, msg : sent']
      BY <2>2
    <3> QED
      BY <2>2, <3>1 DEF Jobs
  <2>5. Typed'
    BY <1>0, <2>2, <2>4 DEF Typed
  <2>6. SessionHasContact' /\ (trusting' # None => contacts'[trusting'.peer] # None)
    BY <1>0, <2>2 DEF RowFirst, SessionHasContact, Typed
  <2>7. job' # None => contacts'[job'.msg.from] # None
    <3>1. job' # None => job'.msg = m
      BY <2>2
    <3> QED
      BY <2>3, <3>1
  <2> QED
    BY <2>5, <2>6, <2>7 DEF RowFirst
<1>3. CASE Decrypt \/ DecryptFails
  <2>1. /\ job \in [stage : {"decrypt", "store", "stamp"}, msg : sent]
        /\ job.stage = "decrypt"
        /\ job.msg.from \in Peers
        /\ contacts[job.msg.from] # None
    BY <1>3 DEF Decrypt, DecryptFails, Decrypting, Typed, Jobs, RowFirst
  <2>2. /\ sessions' \in {sessions, sessions \cup {job.msg.from}}
        /\ job' \in {None, [job EXCEPT !.stage = "store"]}
        /\ UNCHANGED <<contacts, trusting, sent>>
    BY <1>3 DEF Decrypt, DecryptFails
  <2>3. Typed'
    BY <2>1, <2>2 DEF Typed, Jobs
  <2>4. RowFirst'
    BY <2>1, <2>2 DEF RowFirst, SessionHasContact
  <2> QED
    BY <2>3, <2>4
<1>4. CASE StoreIncoming \/ (StoreFails /\ job' # job)
  <2>1. /\ job \in [stage : {"decrypt", "store", "stamp"}, msg : sent]
        /\ job' = [job EXCEPT !.stage = "stamp"]
        /\ job # None /\ job.stage = "store"
        /\ UNCHANGED <<contacts, sessions, trusting, sent>>
    BY <1>4 DEF StoreIncoming, StoreFails, contactVars, Typed, Jobs
  <2>2. /\ job' \in [stage : {"decrypt", "store", "stamp"}, msg : sent]
        /\ job'.msg = job.msg
    BY <2>1
  <2>3. Typed'
    BY <2>1, <2>2 DEF Typed, Jobs
  <2>4. RowFirst'
    BY <2>1, <2>2 DEF RowFirst, SessionHasContact
  <2> QED
    BY <2>3, <2>4
<1>5. CASE Stamp \/ SendStored \/ Restart
  <2>1. job' = None /\ trusting' \in {None, trusting} /\ UNCHANGED <<contacts, sessions, sent>>
    BY <1>5 DEF Stamp, SendStored, Restart, ContactsRestart, contactVars
  <2> QED
    BY <2>1 DEF Typed, Jobs, RowFirst, SessionHasContact
<1>6. ASSUME NEW name \in Names, Send(name) PROVE Typed' /\ RowFirst'
  <2>1. PICK p \in sessions : job' = [stage |-> "send", to |-> p]
    BY <1>6 DEF Send
  <2>2. UNCHANGED <<contacts, sessions, trusting, sent>>
    BY <1>6 DEF Send, contactVars
  <2> QED
    BY <2>1, <2>2 DEF Typed, Jobs, RowFirst, SessionHasContact
<1>7. CASE ContactCommand
  <2>1. UNCHANGED <<sent, job>>
    BY <1>7 DEF ContactCommand
  <2>2. job' \in Jobs'
    BY <2>1 DEF Typed, Jobs
  <2>3. CASE UNCHANGED <<sessions, trusting>>
    BY <1>0, <2>1, <2>2, <2>3 DEF Typed, RowFirst, SessionHasContact, Jobs
  <2>4. ASSUME NEW p \in Peers, NEW alias \in UserAliases \cup {NoAlias},
               TrustDiscovered(p, alias)
        PROVE  Typed' /\ RowFirst'
    <3>1. /\ trusting' = [peer |-> p, alias |-> alias]
          /\ contacts' = [contacts EXCEPT ![p] = NoAlias]
          /\ UNCHANGED sessions
      BY <2>4 DEF TrustDiscovered, Write
    <3>2. contacts'[p] # None
      BY <3>1, ContactsAssumption DEF Typed, Identities
    <3>3. Typed'
      BY <1>0, <2>1, <2>2, <3>1 DEF Typed
    <3>4. RowFirst'
      BY <1>0, <2>1, <3>1, <3>2 DEF RowFirst, SessionHasContact, Typed, Jobs
    <3> QED
      BY <3>3, <3>4
  <2> QED
    BY <1>7, <2>3, <2>4
       DEF ContactCommand, AnnouncementReceived, AnnouncementRemoved, TrustOwnBundle,
           TrustKnown, PublishSelf
<1>8. CASE FinishTrust
  <2>1. /\ UNCHANGED <<sent, job>>
        /\ trusting' = None
        /\ trusting # None
        /\ sessions' \in {sessions, sessions \cup {trusting.peer}}
    BY <1>8 DEF FinishTrust, inboxVars, Establish, EstablishFails
  <2>2. trusting.peer \in Peers /\ contacts[trusting.peer] # None
    BY <2>1 DEF Typed, RowFirst
  <2>3. Typed'
    BY <1>0, <2>1, <2>2 DEF Typed, Jobs
  <2>4. RowFirst'
    BY <1>0, <2>1, <2>2 DEF RowFirst, SessionHasContact, Typed, Jobs
  <2> QED
    BY <2>3, <2>4
<1>9. CASE UNCHANGED <<contacts, sessions, trusting, sent, job>>
  BY <1>9 DEF Typed, RowFirst, SessionHasContact, Jobs
<1> QED
  BY <1>1, <1>2, <1>3, <1>4, <1>5, <1>6, <1>7, <1>8, <1>9
     DEF Next, vars, contactVars, inboxVars, Subscribe, StoreStep, StoreFails, Chat,
         Disconnect
-----------------------------------------------------------------------------
\* A contact is written only where there was none, so nothing cascades.
LEMMA NoCascade ==
    ASSUME Typed, NEW p \in Peers, ~Known(p), Cascade(p)
    PROVE  UNCHANGED historyVars
BY NamedByRow DEF Cascade

\* A step of the program is a step of the history, or leaves it alone.
LEMMA NextHistory ==
    ASSUME Typed, [Next]_vars
    PROVE  [HistoryNext]_historyVars
<1>1. ASSUME NEW m \in sent, Receive(m) PROVE UNCHANGED historyVars
  <2>1. m.from \in Peers
    BY DEF Typed
  <2>2. CASE m.kind = "prekey" /\ ~Known(m.from)
    BY <1>1, <2>1, <2>2, NoCascade DEF Receive
  <2>3. CASE ~(m.kind = "prekey" /\ ~Known(m.from))
    BY <1>1, <2>3 DEF Receive
  <2> QED
    BY <2>2, <2>3
<1>2. CASE StoreIncoming
  <2>1. job.msg.from \in Peers
    BY <1>2 DEF StoreIncoming, Typed, Jobs
  <2> QED
    BY <1>2, <2>1 DEF StoreIncoming, HistoryNext
<1>3. CASE StoreStep \/ (StoreFails /\ Crash)
  BY <1>3 DEF StoreStep, HistoryNext
<1>4. ASSUME NEW name \in Names, Send(name) PROVE HistoryNext
  <2>1. PICK p \in sessions : GetOrCreate(p, FALSE)
    BY <1>4 DEF Send
  <2>2. p \in Peers
    BY DEF Typed
  <2> QED
    BY <2>1, <2>2 DEF HistoryNext
<1>5. ASSUME NEW name \in Names, Chat(name) PROVE HistoryNext
  <2>1. PICK p \in Peers : MarkShown(p)
    BY <1>5 DEF Chat
  <2> QED
    BY <2>1 DEF HistoryNext
<1>6. CASE ContactCommand
  <2>1. ASSUME NEW p \in Peers, NEW alias \in UserAliases \cup {NoAlias},
               TrustDiscovered(p, alias), Cascade(p)
        PROVE  UNCHANGED historyVars
    BY <2>1, NoCascade DEF TrustDiscovered
  <2> QED
    BY <1>6, <2>1 DEF ContactCommand
<1>7. CASE Restart
  BY <1>7 DEF Restart, HistoryNext
<1>8. CASE UNCHANGED historyVars
  BY <1>8
<1> QED
  BY <1>1, <1>2, <1>3, <1>4, <1>5, <1>6, <1>7, <1>8
     DEF Next, vars, PeerSends, Subscribe, Decrypt, DecryptFails, StoreFails, Stamp,
         SendStored, FinishTrust, Disconnect

-----------------------------------------------------------------------------
\* A session has its contact row, whichever of a first message, a /trust and a
\* crash comes first (SessionHasContact).
THEOREM SessionsHaveContacts == Spec => []SessionHasContact
<1>1. Typed /\ RowFirst /\ [Next]_vars => (Typed /\ RowFirst)'
  BY NextTyped
<1>2. Typed /\ RowFirst => SessionHasContact
  BY DEF RowFirst
<1> QED
  BY <1>1, <1>2, InitTyped, PTL DEF Spec

\* An alias the user gives names one contact (AliasNamesOne).
THEOREM AliasesNameOne == Spec => []AliasNamesOne
<1> DEFINE Inv == Typed /\ RowFirst /\ AliasNamesOne
<1>1. Inv /\ [Next]_vars => Inv'
  BY NextTyped, NextContacts, AliasStep
<1>2. Init => Inv
  BY InitTyped
<1> QED
  BY <1>1, <1>2, PTL DEF Spec

\* The program implements the history: its handlers, contacts and faults
\* change it by the operations of MessageHistory only (ImplementsHistory).
THEOREM MessagingImplementsHistory == Spec => ImplementsHistory
<1>1. Typed /\ RowFirst /\ [Next]_vars => (Typed /\ RowFirst)'
  BY NextTyped
<1>2. Typed /\ [Next]_vars => [HistoryNext]_historyVars
  BY NextHistory
<1>3. Init => HistoryInit
  BY DEF Init
<1> QED
  BY <1>1, <1>2, <1>3, InitTyped, PTL DEF Spec, ImplementsHistory, HistorySpec

\* So the unread counter is right in the program too (UnreadCounts).
THEOREM UnreadInProgram == Spec => []UnreadCounts
BY MessagingImplementsHistory, UnreadCounted, PTL DEF ImplementsHistory

-----------------------------------------------------------------------------
(***************************************************************************)
(* Messaging: what becomes of a message that the relay serves.             *)
(***************************************************************************)
SentTypes == sent \subseteq Messages /\ IsFiniteSet(sent)

\* The handlers do not overlap: a /trust runs alone, and the statements of a
\* store are those of the job under way.
OneAtATime ==
    /\ trusting # None => job = None
    /\ call # Idle =>
          /\ call.stage \in {"insert", "update"}
          /\ job # None
          /\ IF call.incoming THEN job.stage = "stamp" ELSE job.stage = "send"

\* A contact without a session failed or was cut off, or its session is being
\* set up.
CutInv ==
    \A p \in Peers : contacts[p] # None =>
        \/ p \in sessions \cup cut
        \/ trusting # None /\ trusting.peer = p
        \/ Decrypting /\ job.msg.from = p

\* The message under way has used up its key and its row is still to come.
RowToCome ==
    job # None /\ (job.stage = "store" \/ (job.stage = "stamp" /\ call.stage = "insert"))

Stored(m) == \E x \in storedAs : x[1] = m

\* The key of a message is used up before its row is written: a message that is
\* served again finds its key gone.
StoreInv ==
    /\ StoredOnce
    /\ \A x \in storedAs : x[1] \in used
    /\ \A m \in used : Stored(m) \/ m \in lost \/ (RowToCome /\ job.msg = m)
    /\ RowToCome => job.msg \in used /\ ~Stored(job.msg)

\* What the relay serves is decrypted, and what its filter leaves out is older
\* than a message handled before.
ServedInv ==
    /\ used \subseteq sent /\ delivered \subseteq sent
    /\ \A m \in delivered : m.ok => m \in used \/ (Decrypting /\ job.msg = m)
    /\ lastTime \in Nat /\ latest \in Nat /\ lastTime <= latest
    /\ since # None => since \in Nat /\ since <= latest

\* A peer that answers without a pre-key has a message of ours, which we could
\* only write with a session.
PeersInv ==
    /\ heard \subseteq sessions
    /\ job # None /\ job.stage = "send" => job.to \in sessions
    /\ \A m \in sent : m.kind = "signal" => m.from \in heard

\* The relay's messages are of their type, and only peers add to them.
LEMMA SentStep ==
    ASSUME SentTypes, [Next]_vars
    PROVE  SentTypes' /\ sent \subseteq sent'
<1>1. ASSUME NEW p \in Peers, PeerSends(p) PROVE SentTypes' /\ sent \subseteq sent'
  <2>1. PICK kind \in {"prekey", "signal"}, at \in Times, ok \in BOOLEAN :
            sent' = sent \cup {[from |-> p, n |-> Cardinality(sent), at |-> at,
                                kind |-> kind, ok |-> ok]}
    BY <1>1 DEF PeerSends
  <2>2. Cardinality(sent) \in Nat
    BY FS_CardinalityType DEF SentTypes
  <2>3. IsFiniteSet(sent')
    BY <2>1, FS_AddElement DEF SentTypes
  <2>4. \A kd \in {"prekey", "signal"}, t \in Times, b \in BOOLEAN, k \in Nat :
           [from |-> p, n |-> k, at |-> t, kind |-> kd, ok |-> b] \in Messages
    BY DEF Messages
  <2>5. sent \subseteq Messages /\ sent' \subseteq Messages
    BY <2>1, <2>2, <2>4, Zenon DEF SentTypes
  <2> QED
    BY <2>1, <2>3, <2>5, Zenon DEF SentTypes
<1>2. UNCHANGED sent \/ \E p \in Peers : PeerSends(p)
  BY DEF Next, vars, inboxVars, Subscribe, Receive, Decrypt, DecryptFails, StoreIncoming,
         StoreStep, StoreFails, Stamp, Send, Chat, SendStored, ContactCommand, FinishTrust,
         Disconnect, Restart
<1> QED
  BY <1>1, <1>2 DEF SentTypes

\* A job is not None.
LEMMA JobIsSome ==
    ASSUME SentTypes,
           NEW j \in [stage : {"decrypt", "store", "stamp"}, msg : sent]
                     \cup [stage : {"send"}, to : Peers]
    PROVE  j # None
BY MessagingAssumption DEF SentTypes, Handlers

\* A job with a message is one of the handler of bytes_received.
LEMMA JobOfMessage ==
    ASSUME Typed, job # None, job.stage # "send"
    PROVE  /\ job \in [stage : {"decrypt", "store", "stamp"}, msg : sent]
           /\ job.msg \in sent /\ job.msg.from \in Peers
<1>1. job \in [stage : {"decrypt", "store", "stamp"}, msg : sent]
  BY DEF Typed, Jobs
<1> QED
  BY <1>1 DEF Typed

\* A handler goes on with the message it has.
LEMMA JobGoesOn ==
    ASSUME SentTypes, Typed, job # None, job.stage # "send", NEW s \in {"store", "stamp"},
           job' = [job EXCEPT !.stage = s]
    PROVE  job' # None /\ job'.stage = s /\ job'.msg = job.msg
<1>1. job \in [stage : {"decrypt", "store", "stamp"}, msg : sent]
  BY JobOfMessage
<1>2. /\ job' \in [stage : {"decrypt", "store", "stamp"}, msg : sent]
      /\ job'.stage = s /\ job'.msg = job.msg
  BY <1>1
<1> QED
  BY <1>2, JobIsSome

\* The history's calls, as the handlers start and end them.
LEMMA OneAtATimeStep ==
    ASSUME HistoryTypeOK, SentTypes, Typed, OneAtATime, [Next]_vars
    PROVE  OneAtATime'
<1>0. call \in Calls /\ Idle.stage = "idle"
  BY DEF HistoryTypeOK, Idle
<1>1. ASSUME NEW m \in sent, Receive(m) PROVE OneAtATime'
  <2>1. call = Idle /\ trusting = None /\ UNCHANGED trusting
    BY <1>1 DEF Receive, Busy
  <2>2. UNCHANGED call
    BY <1>1 DEF Receive, Cascade, historyVars
  <2> QED
    BY <2>1, <2>2 DEF OneAtATime
<1>2. CASE Decrypt \/ DecryptFails
  <2>1. job # None /\ job.stage = "decrypt" /\ UNCHANGED <<call, trusting>>
    BY <1>2 DEF Decrypt, DecryptFails, Decrypting, historyVars
  <2>2. call = Idle /\ trusting = None
    BY <2>1 DEF OneAtATime
  <2> QED
    BY <2>1, <2>2 DEF OneAtATime
<1>3. CASE StoreIncoming
  <2>1. /\ job # None /\ job.stage = "store" /\ UNCHANGED trusting
        /\ job' = [job EXCEPT !.stage = "stamp"]
        /\ call' = Storing("insert", job.msg.from, TRUE, clock)
    BY <1>3 DEF StoreIncoming, GetOrCreate, contactVars
  <2>2. job' # None /\ job'.stage = "stamp"
    BY <2>1, JobGoesOn
  <2>3. trusting = None
    BY <2>1 DEF OneAtATime
  <2>4. call'.stage = "insert" /\ call'.incoming
    BY <2>1 DEF Storing
  <2> QED
    BY <2>1, <2>2, <2>3, <2>4 DEF OneAtATime
<1>4. CASE StoreStep
  <2>1. UNCHANGED <<job, trusting>>
    BY <1>4 DEF StoreStep, contactVars
  <2>2. CASE InsertMessage
    <3>1. /\ call \in [stage : {"insert", "update"}, contact : Peers, incoming : BOOLEAN, at : Nat]
          /\ call' = [call EXCEPT !.stage = "update"] /\ call # Idle
      BY <1>0, <2>2 DEF InsertMessage, Calls
    <3>2. call'.stage = "update" /\ call'.incoming = call.incoming
      BY <3>1
    <3> QED
      BY <2>1, <3>1, <3>2 DEF OneAtATime
  <2>3. CASE UpdateConversation
    BY <2>1, <2>3 DEF UpdateConversation, OneAtATime
  <2> QED
    BY <1>4, <2>2, <2>3 DEF StoreStep
<1>5. CASE StoreFails
  <2>1. UNCHANGED trusting /\ job # None
    BY <1>5 DEF StoreFails, contactVars
  <2>2. trusting = None
    BY <2>1 DEF OneAtATime
  <2>3. CASE job.stage = "store" /\ UNCHANGED historyVars
    <3>1. call = Idle /\ UNCHANGED call
      BY <2>3 DEF OneAtATime, historyVars
    <3> QED
      BY <2>1, <2>2, <3>1 DEF OneAtATime
  <2>4. CASE Crash
    <3>1. call' = Idle
      BY <2>4 DEF Crash
    <3> QED
      BY <2>1, <2>2, <3>1 DEF OneAtATime
  <2> QED
    BY <1>5, <2>3, <2>4 DEF StoreFails
<1>6. CASE Stamp \/ SendStored \/ Restart
  <2>1. job' = None /\ call' = Idle
    BY <1>6 DEF Stamp, SendStored, Restart, Crash, historyVars
  <2> QED
    BY <2>1 DEF OneAtATime
<1>7. ASSUME NEW name \in Names, Send(name) PROVE OneAtATime'
  <2>1. PICK p \in sessions : GetOrCreate(p, FALSE) /\ job' = [stage |-> "send", to |-> p]
    BY <1>7 DEF Send
  <2>2. trusting = None /\ UNCHANGED trusting
    BY <1>7 DEF Send, contactVars, Busy
  <2>3. job' # None /\ job'.stage = "send"
    BY <2>1, JobIsSome DEF Typed
  <2>4. call'.stage = "insert" /\ ~call'.incoming
    BY <2>1 DEF GetOrCreate, Storing
  <2> QED
    BY <2>2, <2>3, <2>4 DEF OneAtATime
<1>8. ASSUME NEW name \in Names, Chat(name) PROVE OneAtATime'
  <2>1. UNCHANGED <<call, job, trusting>>
    BY <1>8 DEF Chat, MarkShown, MarkRead, MarkReadUpTo, contactVars
  <2> QED
    BY <2>1 DEF OneAtATime
<1>9. CASE ContactCommand
  <2>1. job' = None /\ call = Idle
    BY <1>9 DEF ContactCommand
  <2>2. UNCHANGED call
    BY <1>9 DEF ContactCommand, Cascade, historyVars
  <2> QED
    BY <2>1, <2>2 DEF OneAtATime
<1>10. CASE FinishTrust
  <2>1. trusting' = None /\ UNCHANGED <<call, job>>
    BY <1>10 DEF FinishTrust, Establish, EstablishFails, historyVars, inboxVars
  <2> QED
    BY <2>1 DEF OneAtATime
<1>11. CASE UNCHANGED <<call, job, trusting>>
  BY <1>11 DEF OneAtATime
<1> QED
  BY <1>1, <1>2, <1>3, <1>4, <1>5, <1>6, <1>7, <1>8, <1>9, <1>10, <1>11
     DEF Next, vars, historyVars, contactVars, inboxVars, PeerSends, Subscribe, Disconnect

-----------------------------------------------------------------------------
\* Only the row that is written changes.
LEMMA WriteOthers ==
    ASSUME Typed, NEW i, UNCHANGED contacts \/ \E a : Write(i, a)
    PROVE  \A p \in Peers : p # i => contacts'[p] = contacts[p]
<1>1. contacts \in [Identities -> Aliases \cup {NoAlias, None}] /\ Peers \subseteq Identities
  BY DEF Typed, Identities
<1> QED
  BY <1>1 DEF Write

\* The row of a contact is written where its session is about to be set up; the
\* handler or the /trust that is cut off leaves its contact among those cut.
LEMMA CutStep ==
    ASSUME SentTypes, Typed, OneAtATime, CutInv, [Next]_vars
    PROVE  CutInv'
<1>0. Peers \subseteq Identities /\ Me \notin Peers
  BY ContactsAssumption DEF Identities
<1>1. ASSUME NEW m \in sent, Receive(m) PROVE CutInv'
  <2>1. /\ job = None /\ trusting = None /\ UNCHANGED <<sessions, cut>>
    BY <1>1 DEF Receive, Busy
  <2>2. \A p \in Peers : contacts[p] # None => p \in sessions \cup cut
    BY <2>1 DEF CutInv, Decrypting
  <2>3. m.from \in Peers
    BY DEF Typed
  <2>4. \A p \in Peers : p # m.from => contacts'[p] = contacts[p]
    <3>1. UNCHANGED contacts \/ \E a : Write(m.from, a)
      BY <1>1 DEF Receive
    <3> QED
      BY <3>1, WriteOthers
  <2>5. CASE m.kind = "prekey" \/ Known(m.from)
    <3>1. job' = [stage |-> "decrypt", msg |-> m]
      BY <1>1, <2>5 DEF Receive
    <3>2. job' # None /\ job'.stage = "decrypt" /\ job'.msg.from = m.from
      BY <3>1, JobIsSome
    <3> QED
      BY <2>1, <2>2, <2>4, <3>2 DEF CutInv, Decrypting
  <2>6. CASE ~(m.kind = "prekey" \/ Known(m.from))
    BY <1>1, <2>1, <2>2, <2>6 DEF Receive, CutInv
  <2> QED
    BY <2>5, <2>6
<1>2. CASE Decrypt
  <2>1. /\ Decrypting /\ UNCHANGED <<contacts, trusting>>
        /\ sessions' = sessions \cup {job.msg.from}
        /\ cut' = cut \ {job.msg.from}
    BY <1>2 DEF Decrypt
  <2> QED
    BY <2>1 DEF CutInv, OneAtATime, Decrypting
<1>3. CASE DecryptFails
  <2>1. /\ Decrypting /\ UNCHANGED <<contacts, sessions, trusting>>
        /\ cut \subseteq cut'
        /\ job.msg.from \in sessions \cup cut'
    BY <1>3 DEF DecryptFails
  <2> QED
    BY <2>1 DEF CutInv, OneAtATime, Decrypting
<1>4. CASE Restart
  <2>1. UNCHANGED <<contacts, sessions>> /\ cut \subseteq cut'
    BY <1>4 DEF Restart, ContactsRestart
  <2>2. trusting # None => trusting.peer \in cut'
    BY <1>4 DEF Restart, ContactsRestart
  <2>3. Decrypting => job.msg.from \in sessions \cup cut'
    <3>1. Decrypting => trusting = None
      BY DEF OneAtATime, Decrypting
    <3> QED
      BY <1>4, <3>1 DEF Restart, ContactsRestart
  <2> QED
    BY <2>1, <2>2, <2>3 DEF CutInv
<1>5. CASE ContactCommand
  <2>1. job = None /\ job' = None
    BY <1>5 DEF ContactCommand
  <2>2. ASSUME NEW p \in Peers, NEW alias \in UserAliases \cup {NoAlias},
               TrustDiscovered(p, alias)
        PROVE  CutInv'
    <3>1. /\ trusting' = [peer |-> p, alias |-> alias] /\ trusting = None
          /\ contacts' = [contacts EXCEPT ![p] = NoAlias]
          /\ UNCHANGED <<sessions, cut>>
      BY <2>2 DEF TrustDiscovered, Write, Ready
    <3>2. trusting' # None /\ trusting'.peer = p
      <4>1. trusting' \in [peer : Peers, alias : UserAliases \cup {NoAlias}]
        BY <3>1
      <4>2. None \notin [peer : Peers, alias : UserAliases \cup {NoAlias}]
        BY ContactsAssumption
      <4>3. trusting'.peer = p
        BY <3>1
      <4> QED
        BY <4>1, <4>2, <4>3
    <3>3. \A q \in Peers : q # p => contacts'[q] = contacts[q]
      <4>1. Write(p, NoAlias)
        BY <2>2 DEF TrustDiscovered
      <4> QED
        BY <4>1, WriteOthers
    <3> QED
      BY <2>1, <3>1, <3>2, <3>3 DEF CutInv, Decrypting
  <2>3. ASSUME UNCHANGED <<sessions, cut, trusting>>,
               \A p \in Peers : contacts[p] = None => contacts'[p] = None
        PROVE  CutInv'
    BY <2>1, <2>3 DEF CutInv, Decrypting
  <2>4. CASE PublishSelf
    <3>1. \A p \in Peers : contacts'[p] = contacts[p]
      BY <1>0, <2>4 DEF PublishSelf, Write, Typed
    <3> QED
      BY <2>3, <2>4, <3>1 DEF PublishSelf
  <2>5. ASSUME NEW name \in Names, NEW alias \in UserAliases \cup {NoAlias},
               TrustKnown(name, alias)
        PROVE  CutInv'
    <3>1. PICK i \in Lookup(name) :
              IF alias = NoAlias THEN UNCHANGED <<contacts, orchestrator>> ELSE Assign(i, alias)
      BY <2>5 DEF TrustKnown
    <3>2. contacts[i] # None
      BY DEF Lookup
    <3>3. \A p \in Peers : p # i => contacts'[p] = contacts[p]
      <4>1. UNCHANGED contacts \/ \E a : Write(i, a)
        BY <3>1 DEF Assign
      <4> QED
        BY <4>1, WriteOthers
    <3> QED
      BY <2>3, <2>5, <3>2, <3>3 DEF TrustKnown
  <2>6. CASE UNCHANGED <<contacts, sessions, cut, trusting>>
    BY <2>3, <2>6
  <2> QED
    BY <1>5, <2>2, <2>4, <2>5, <2>6
       DEF ContactCommand, AnnouncementReceived, AnnouncementRemoved, TrustOwnBundle
<1>6. CASE FinishTrust
  <2>1. /\ trusting # None /\ trusting' = None /\ UNCHANGED job
        /\ \A p \in sessions \cup cut : p \in sessions' \cup cut'
        /\ trusting.peer \in sessions' \cup cut'
    BY <1>6 DEF FinishTrust, Establish, EstablishFails, inboxVars
  <2>2. \A p \in Peers : p # trusting.peer => contacts'[p] = contacts[p]
    <3>1. UNCHANGED contacts \/ \E a : Write(trusting.peer, a)
      BY <1>6 DEF FinishTrust, Establish, EstablishFails, Assign
    <3>2. CASE UNCHANGED contacts
      BY <3>2
    <3>3. ASSUME NEW a, Write(trusting.peer, a)
          PROVE  \A p \in Peers : p # trusting.peer => contacts'[p] = contacts[p]
      BY <3>3, WriteOthers
    <3> QED
      BY <3>1, <3>2, <3>3
  <2> QED
    BY <2>1, <2>2 DEF CutInv, Decrypting
<1>7. CASE /\ UNCHANGED <<contacts, sessions, cut, trusting>>
           /\ Decrypting => UNCHANGED job
  BY <1>7 DEF CutInv, Decrypting
<1>8. CASE StoreIncoming \/ StoreFails \/ Stamp \/ SendStored \/ StoreStep
  BY <1>7, <1>8 DEF StoreIncoming, StoreFails, Stamp, SendStored, StoreStep, contactVars, Decrypting
<1>9. ASSUME NEW name \in Names, Send(name) \/ Chat(name)
      PROVE  CutInv'
  BY <1>7, <1>9 DEF Send, Chat, contactVars, Decrypting, Busy
<1> QED
  BY <1>1, <1>2, <1>3, <1>4, <1>5, <1>6, <1>7, <1>8, <1>9
     DEF Next, vars, contactVars, inboxVars, PeerSends, Subscribe, Disconnect

-----------------------------------------------------------------------------
\* A step that writes no row of the message under way and ends its handler only
\* if the message is counted as lost.
LEMMA RowsKept ==
    ASSUME StoreInv, UNCHANGED <<used, storedAs>>, lost \subseteq lost', ~RowToCome',
           RowToCome => job.msg \in lost'
    PROVE  StoreInv'
<1>1. \A m : Stored(m)' <=> Stored(m)
  BY DEF Stored
<1> QED
  BY <1>1 DEF StoreInv, StoredOnce


\* A message is stored once, and is stored or lost when its handler ends.
LEMMA StoreInvStep ==
    ASSUME HistoryTypeOK, SentTypes, Typed, OneAtATime, StoreInv, [Next]_vars
    PROVE  StoreInv'
<1>0. call \in Calls /\ Idle.stage = "idle"
  BY DEF HistoryTypeOK, Idle
<1>1. ASSUME NEW m \in sent, Receive(m) PROVE StoreInv'
  <2>1. /\ job = None /\ UNCHANGED <<used, storedAs, lost>>
        /\ job' = None \/ job' = [stage |-> "decrypt", msg |-> m]
    BY <1>1 DEF Receive, Busy
  <2>2. ~RowToCome /\ ~RowToCome'
    BY <2>1 DEF RowToCome
  <2> QED
    BY <2>1, <2>2, RowsKept
<1>2. CASE Decrypt
  <2>1. /\ job # None /\ job.stage = "decrypt" /\ job.msg \notin used
        /\ used' = used \cup {job.msg} /\ job' = [job EXCEPT !.stage = "store"]
        /\ UNCHANGED <<storedAs, lost>>
    BY <1>2 DEF Decrypt, Decrypting
  <2>2. job' # None /\ job'.stage = "store" /\ job'.msg = job.msg
    BY <2>1, JobGoesOn
  <2>3. RowToCome' /\ ~RowToCome
    BY <2>1, <2>2 DEF RowToCome
  <2>4. \A m : Stored(m)' <=> Stored(m)
    BY <2>1 DEF Stored
  <2>5. ~Stored(job.msg)
    BY <2>1 DEF StoreInv, Stored
  <2> QED
    BY <2>1, <2>2, <2>3, <2>4, <2>5 DEF StoreInv, StoredOnce
<1>3. CASE DecryptFails
  <2>1. job.stage = "decrypt" /\ job' = None /\ UNCHANGED <<used, storedAs, lost>>
    BY <1>3 DEF DecryptFails, Decrypting
  <2> QED
    BY <2>1, RowsKept DEF RowToCome
<1>4. CASE StoreIncoming
  <2>1. /\ job # None /\ job.stage = "store" /\ job' = [job EXCEPT !.stage = "stamp"]
        /\ call' = Storing("insert", job.msg.from, TRUE, clock)
        /\ UNCHANGED <<used, storedAs, lost>>
    BY <1>4 DEF StoreIncoming, GetOrCreate
  <2>2. job' # None /\ job'.stage = "stamp" /\ job'.msg = job.msg /\ call'.stage = "insert"
    BY <2>1, JobGoesOn DEF Storing
  <2>3. RowToCome' /\ RowToCome
    BY <2>1, <2>2 DEF RowToCome
  <2>4. \A m : Stored(m)' <=> Stored(m)
    BY <2>1 DEF Stored
  <2> QED
    BY <2>1, <2>2, <2>3, <2>4 DEF StoreInv, StoredOnce
<1>5. CASE StoreStep /\ InsertMessage
  <2>1. /\ call \in [stage : {"insert", "update"}, contact : Peers, incoming : BOOLEAN, at : Nat]
        /\ call' = [call EXCEPT !.stage = "update"] /\ call # Idle /\ call.stage = "insert"
        /\ UNCHANGED <<job, used, lost>>
    BY <1>0, <1>5 DEF InsertMessage, Calls, StoreStep
  <2>2. call'.stage = "update" /\ call.incoming \in BOOLEAN
    BY <2>1
  <2>3. CASE call.incoming
    <3>1. job # None /\ job.stage = "stamp"
      BY <2>1, <2>3 DEF OneAtATime
    <3>2. RowToCome /\ ~RowToCome'
      BY <2>1, <2>2, <3>1 DEF RowToCome
    <3>3. storedAs' = storedAs \cup {<<job.msg, nextMsg>>}
      BY <1>5, <2>1, <2>3 DEF StoreStep, UpdateConversation
    <3>4. \A m : Stored(m)' <=> Stored(m) \/ m = job.msg
      <4>1. <<job.msg, nextMsg>>[1] = job.msg
        OBVIOUS
      <4> QED
        BY <3>3, <4>1, Zenon DEF Stored
    <3>5. job.msg \in used /\ \A x \in storedAs : x[1] # job.msg
      BY <3>2 DEF StoreInv, Stored
    <3>6. StoredOnce' /\ \A x \in storedAs' : x[1] \in used
      BY <3>3, <3>5 DEF StoreInv, StoredOnce
    <3> QED
      BY <2>1, <3>2, <3>4, <3>6 DEF StoreInv
  <2>4. CASE ~call.incoming
    <3>1. job.stage = "send"
      BY <2>1, <2>4 DEF OneAtATime
    <3>2. UNCHANGED storedAs
      BY <1>5, <2>1, <2>4 DEF StoreStep, UpdateConversation
    <3> QED
      BY <2>1, <3>1, <3>2, RowsKept DEF RowToCome
  <2> QED
    BY <2>2, <2>3, <2>4
<1>6. CASE StoreStep /\ UpdateConversation
  <2>1. /\ call.stage = "update" /\ call' = Idle /\ UNCHANGED <<job, used, lost, storedAs>>
    BY <1>6 DEF UpdateConversation, StoreStep, InsertMessage
  <2>2. job.stage # "store"
    BY <1>0, <2>1 DEF OneAtATime
  <2> QED
    BY <1>0, <2>1, <2>2, RowsKept DEF RowToCome
<1>7. CASE StoreFails
  <2>1. UNCHANGED <<used, storedAs>> /\ lost \subseteq lost'
    BY <1>7 DEF StoreFails
  <2>2. CASE /\ job # None /\ job.stage = "store" /\ job' = [job EXCEPT !.stage = "stamp"]
             /\ lost' = lost \cup {job.msg} /\ UNCHANGED historyVars
    <3>1. job'.stage = "stamp"
      BY <2>2, JobGoesOn
    <3>2. call' = Idle
      BY <2>2 DEF OneAtATime, historyVars
    <3>3. ~RowToCome'
      BY <1>0, <3>1, <3>2 DEF RowToCome
    <3> QED
      BY <2>1, <2>2, <3>3, RowsKept
  <2>3. CASE /\ Crash /\ UNCHANGED job
             /\ lost' = IF call.stage = "insert" /\ call.incoming THEN lost \cup {job.msg} ELSE lost
    <3>1. call # Idle /\ call' = Idle
      BY <2>3 DEF Crash
    <3>2. job.stage # "store"
      BY <3>1 DEF OneAtATime
    <3>3. ~RowToCome'
      BY <1>0, <2>3, <3>1, <3>2 DEF RowToCome
    <3>4. RowToCome => job.msg \in lost'
      BY <2>3, <3>1, <3>2 DEF RowToCome, OneAtATime
    <3> QED
      BY <2>1, <3>3, <3>4, RowsKept
  <2> QED
    BY <1>7, <2>2, <2>3 DEF StoreFails
<1>8. CASE Stamp \/ SendStored
  <2>1. /\ job' = None /\ call = Idle /\ job.stage \in {"stamp", "send"}
        /\ UNCHANGED <<used, storedAs, lost>>
    BY <1>8 DEF Stamp, SendStored
  <2> QED
    BY <1>0, <2>1, RowsKept DEF RowToCome
<1>9. CASE Restart
  <2>1. /\ job' = None /\ UNCHANGED <<used, storedAs>> /\ lost \subseteq lost'
    BY <1>9 DEF Restart
  <2>2. RowToCome => job.msg \in lost'
    <3>1. CASE job # None /\ job.stage = "store"
      BY <1>9, <3>1 DEF Restart
    <3>2. CASE job # None /\ job.stage = "stamp" /\ call.stage = "insert"
      <4>1. call.incoming
        BY <1>0, <3>2 DEF OneAtATime
      <4> QED
        BY <1>9, <3>2, <4>1 DEF Restart
    <3> QED
      BY <3>1, <3>2 DEF RowToCome
  <2>3. ~RowToCome'
    BY <2>1, Zenon DEF RowToCome
  <2> QED
    BY <2>1, <2>2, <2>3, RowsKept
<1>10. ASSUME NEW name \in Names, Send(name) PROVE StoreInv'
  <2>0. job = None /\ UNCHANGED <<used, storedAs, lost>>
    BY <1>10, Zenon DEF Send, Busy
  <2>1. job'.stage = "send"
    BY <1>10, <2>0 DEF Send
  <2>2. ~RowToCome /\ ~RowToCome'
    BY <2>0, <2>1 DEF RowToCome
  <2> QED
    BY <2>0, <2>2, RowsKept
<1>11. CASE UNCHANGED <<call, job, used, storedAs, lost>>
  BY <1>11 DEF StoreInv, StoredOnce, Stored, RowToCome
<1>12. ASSUME NEW name \in Names, Chat(name) PROVE StoreInv'
  BY <1>11, <1>12 DEF Chat, MarkShown, MarkRead, MarkReadUpTo
<1>13. CASE ContactCommand
  BY <1>11, <1>13 DEF ContactCommand, Cascade, historyVars
<1> QED
  BY <1>1, <1>2, <1>3, <1>4, <1>5, <1>6, <1>7, <1>8, <1>9, <1>10, <1>11, <1>12, <1>13
     DEF Next, vars, historyVars, inboxVars, PeerSends, Subscribe, Disconnect, FinishTrust,
         StoreStep

-----------------------------------------------------------------------------
\* Sessions stay, and only a session lets us write to a peer.
LEMMA PeersStep ==
    ASSUME SentTypes, Typed, PeersInv, [Next]_vars
    PROVE  PeersInv'
<1>1. sessions \subseteq sessions'
  BY DEF Next, vars, contactVars, PeerSends, Subscribe, Receive, Decrypt, DecryptFails,
         StoreIncoming, StoreStep, StoreFails, Stamp, Send, Chat, SendStored, ContactCommand,
         AnnouncementReceived, AnnouncementRemoved, TrustKnown, PublishSelf, TrustOwnBundle,
         TrustDiscovered, FinishTrust, Establish, EstablishFails, Disconnect, Restart,
         ContactsRestart
<1>2. heard' = heard \/ (SendStored /\ heard' = heard \cup {job.to})
  BY DEF Next, vars, inboxVars, PeerSends, Subscribe, Receive, Decrypt, DecryptFails,
         StoreIncoming, StoreStep, StoreFails, Stamp, Send, Chat, SendStored, ContactCommand,
         FinishTrust, Disconnect, Restart
<1>3. heard \subseteq heard' /\ heard' \subseteq sessions'
  BY <1>1, <1>2 DEF PeersInv, SendStored
<1>4. job' # None /\ job'.stage = "send" => job'.to \in sessions'
  <2>1. CASE UNCHANGED job
    BY <1>1, <2>1 DEF PeersInv
  <2>2. CASE job' = None
    BY <2>2
  <2>3. ASSUME job # None, job.stage # "send", NEW s \in {"store", "stamp"},
               job' = [job EXCEPT !.stage = s]
        PROVE  job'.stage # "send"
    BY <2>3, JobGoesOn
  <2>4. CASE \E m \in sent : job' = [stage |-> "decrypt", msg |-> m]
    BY <2>4
  <2>5. CASE \E p \in sessions : job' = [stage |-> "send", to |-> p]
    BY <1>1, <2>5
  <2>6. \/ UNCHANGED job \/ job' = None
        \/ \E m \in sent : job' = [stage |-> "decrypt", msg |-> m]
        \/ \E p \in sessions : job' = [stage |-> "send", to |-> p]
        \/ /\ job # None /\ job.stage # "send"
           /\ \E s \in {"store", "stamp"} : job' = [job EXCEPT !.stage = s]
    BY DEF Next, vars, inboxVars, PeerSends, Subscribe, Receive, Decrypt, DecryptFails, Decrypting,
           StoreIncoming, StoreStep, StoreFails, Stamp, Send, Chat, SendStored, ContactCommand,
           FinishTrust, Disconnect, Restart
  <2> QED
    BY <2>1, <2>2, <2>3, <2>4, <2>5, <2>6
<1>5. \A m \in sent' : m.kind = "signal" => m.from \in heard'
  <2>1. ASSUME NEW p \in Peers, PeerSends(p)
        PROVE  \A m \in sent' : m \in sent \/ (m.kind = "signal" => m.from \in heard)
    <3>1. PICK k : sent' = sent \cup {k} /\ k.from = p /\ (k.kind = "signal" => p \in heard)
      BY <2>1, PeerSendsOne
    <3> QED
      BY <3>1
  <2>2. UNCHANGED sent \/ \E p \in Peers : PeerSends(p)
    BY DEF Next, vars, inboxVars, Subscribe, Receive, Decrypt, DecryptFails, StoreIncoming,
           StoreStep, StoreFails, Stamp, Send, Chat, SendStored, ContactCommand, FinishTrust,
           Disconnect, Restart
  <2> QED
    BY <1>3, <2>1, <2>2 DEF PeersInv
<1> QED
  BY <1>3, <1>4, <1>5 DEF PeersInv

\* What is served is handled: a message without pre-key comes from a peer with a
\* session, hence with a contact.
LEMMA ServedStep ==
    ASSUME SentTypes, Typed, RowFirst, PeersInv, ServedInv, [Next]_vars
    PROVE  ServedInv'
<1>0. sent \subseteq sent'
  BY SentStep
<1>1. ASSUME NEW m \in sent, Receive(m) PROVE ServedInv'
  <2>1. /\ job = None /\ delivered' = delivered \cup {m}
        /\ UNCHANGED <<sent, used, lastTime, latest, since>>
    BY <1>1 DEF Receive, Busy
  <2>2. m.kind \in {"prekey", "signal"}
    BY DEF SentTypes, Messages
  <2>3. m.kind = "prekey" \/ Known(m.from)
    <3>1. CASE m.kind = "signal"
      <4>1. m.from \in sessions /\ m.from \in Peers
        BY <3>1 DEF PeersInv, Typed
      <4> QED
        BY <4>1, NamedByRow DEF RowFirst, SessionHasContact
    <3> QED
      BY <2>2, <3>1
  <2>4. job' = [stage |-> "decrypt", msg |-> m]
    BY <1>1, <2>3 DEF Receive
  <2>5. job' # None /\ job'.stage = "decrypt" /\ job'.msg = m
    BY <2>4, JobIsSome
  <2>6. \A n \in delivered : n.ok => n \in used
    BY <2>1 DEF ServedInv, Decrypting
  <2> QED
    BY <2>1, <2>5, <2>6 DEF ServedInv, Decrypting
<1>2. CASE Decrypt \/ DecryptFails
  <2>1. /\ Decrypting /\ used \subseteq used'
        /\ job.msg.ok => job.msg \in used'
        /\ UNCHANGED <<sent, delivered, lastTime, latest, since>>
    BY <1>2 DEF Decrypt, DecryptFails
  <2>2. used' \subseteq used \cup {job.msg} /\ job.msg \in sent
    BY <1>2, <2>1, JobOfMessage DEF Decrypt, DecryptFails, Decrypting
  <2> QED
    BY <2>1, <2>2 DEF ServedInv
<1>3. CASE Subscribe
  <2>1. /\ since' = lastTime /\ delivered' = {}
        /\ UNCHANGED <<sent, used, job, lastTime, latest>>
    BY <1>3 DEF Subscribe
  <2> QED
    BY <2>1 DEF ServedInv
<1>4. CASE Disconnect \/ Restart
  <2>1. since' = None /\ delivered' = {} /\ UNCHANGED <<sent, used, lastTime, latest>>
    BY <1>4 DEF Disconnect, Restart
  <2> QED
    BY <2>1 DEF ServedInv
<1>5. CASE Stamp
  <2>1. /\ lastTime' = job.msg.at
        /\ latest' = IF job.msg.at > latest THEN job.msg.at ELSE latest
        /\ job # None /\ job.stage = "stamp"
        /\ UNCHANGED <<sent, delivered, used, since>>
    BY <1>5 DEF Stamp
  <2>2. job.msg.at \in Nat
    <3>1. job.msg \in Messages
      BY <2>1, JobOfMessage DEF SentTypes
    <3> QED
      BY <3>1, MessagingAssumption DEF Messages
  <2>3. ~Decrypting
    BY <2>1 DEF Decrypting
  <2>4. /\ lastTime' \in Nat /\ latest' \in Nat /\ lastTime' <= latest' /\ latest <= latest'
    <3>1. latest \in Nat
      BY DEF ServedInv
    <3> QED
      BY <2>1, <2>2, <3>1
  <2>5. since' # None => since' \in Nat /\ since' <= latest'
    <3>1. since # None => since \in Nat /\ since <= latest
      BY DEF ServedInv
    <3>2. latest \in Nat /\ since' = since
      BY <2>1 DEF ServedInv
    <3> QED
      BY <2>4, <3>1, <3>2
  <2> QED
    BY <2>1, <2>3, <2>4, <2>5 DEF ServedInv
<1>6. CASE /\ UNCHANGED <<delivered, used, lastTime, latest, since>>
           /\ Decrypting => UNCHANGED job
  BY <1>0, <1>6 DEF ServedInv, Decrypting
<1>7. CASE StoreIncoming \/ StoreFails \/ SendStored \/ StoreStep
  BY <1>6, <1>7 DEF StoreIncoming, StoreFails, SendStored, StoreStep, Decrypting
<1>8. ASSUME NEW name \in Names, Send(name) \/ Chat(name)
      PROVE  ServedInv'
  BY <1>6, <1>8 DEF Send, Chat, Decrypting, Busy
<1>9. ASSUME NEW p \in Peers, PeerSends(p) PROVE ServedInv'
  BY <1>6, <1>9 DEF PeerSends
<1>10. CASE ContactCommand \/ FinishTrust \/ UNCHANGED vars
  BY <1>6, <1>10 DEF ContactCommand, FinishTrust, inboxVars, vars
<1> QED
  BY <1>1, <1>2, <1>3, <1>4, <1>5, <1>7, <1>8, <1>9, <1>10 DEF Next

-----------------------------------------------------------------------------
\* The inductive invariant of the messages.
MessagingIInv ==
    /\ HistoryIInv /\ SentTypes /\ Typed /\ RowFirst
    /\ OneAtATime /\ CutInv /\ StoreInv /\ PeersInv /\ ServedInv

LEMMA MessagingHolds == Spec => []MessagingIInv
<1>1. Init => MessagingIInv
  <2> SUFFICES ASSUME Init PROVE MessagingIInv
    OBVIOUS
  <2>1. HistoryIInv /\ Typed /\ RowFirst
    BY InitIInv, InitTyped DEF Init
  <2>2. SentTypes
    BY FS_EmptySet DEF Init, SentTypes
  <2>3. OneAtATime /\ CutInv
    BY DEF Init, HistoryInit, ContactsInit, OneAtATime, CutInv, Identities
  <2>4. StoreInv /\ PeersInv /\ ServedInv
    <3>1. /\ sent = {} /\ heard = {} /\ delivered = {} /\ used = {} /\ storedAs = {}
          /\ since = None /\ job = None /\ lastTime = 0 /\ latest = 0
      BY DEF Init
    <3>2. StoreInv
      BY <3>1, Zenon DEF StoreInv, StoredOnce, RowToCome
    <3>3. PeersInv
      BY <3>1, Zenon DEF PeersInv
    <3>4. ServedInv
      BY <3>1 DEF ServedInv
    <3> QED
      BY <3>2, <3>3, <3>4
  <2> QED
    BY <2>1, <2>2, <2>3, <2>4 DEF MessagingIInv
<1>2. MessagingIInv /\ [Next]_vars => MessagingIInv'
  <2> SUFFICES ASSUME MessagingIInv, [Next]_vars PROVE MessagingIInv'
    OBVIOUS
  <2> USE DEF MessagingIInv
  <2>1. HistoryTypeOK
    BY DEF HistoryIInv
  <2>2. HistoryIInv'
    BY NextHistory, NextIInv
  <2>3. Typed' /\ RowFirst'
    BY NextTyped
  <2>4. SentTypes'
    BY SentStep
  <2>5. OneAtATime'
    BY <2>1, OneAtATimeStep
  <2>6. CutInv'
    BY CutStep
  <2>7. StoreInv'
    BY <2>1, StoreInvStep
  <2>8. PeersInv' /\ ServedInv'
    BY PeersStep, ServedStep
  <2> QED
    BY <2>2, <2>3, <2>4, <2>5, <2>6, <2>7, <2>8
<1> QED
  BY <1>1, <1>2, PTL DEF Spec

\* The relay serves a message again after every reconnection and restart, and it
\* is stored at most once (StoredOnce).
THEOREM MessagesStoredOnce == Spec => []StoredOnce
<1>1. MessagingIInv => StoredOnce
  BY DEF MessagingIInv, StoreInv
<1> QED
  BY <1>1, MessagingHolds, PTL

\* A message that can be decrypted and is missing when the relay has served the
\* subscription was lost between its key and its row, or is older than one
\* handled before it (MissedOnlyBehind).
THEOREM MissedOnlyIfBehind == Spec => []MissedOnlyBehind
<1>1. MessagingIInv => MissedOnlyBehind
  <2> SUFFICES ASSUME MessagingIInv, ~Busy, since # None,
                      \A n \in sent : Admitted(n) => n \in delivered,
                      NEW m \in sent, m.ok, ~Stored(m), m \notin lost
               PROVE  m.at < latest
    BY DEF MissedOnlyBehind, Stored
  <2>1. job = None
    BY DEF Busy
  <2>2. m \notin used
    BY <2>1 DEF MessagingIInv, StoreInv, RowToCome
  <2>3. m \notin delivered
    BY <2>1, <2>2 DEF MessagingIInv, ServedInv, Decrypting
  <2>4. ~(m.at >= since)
    BY <2>3 DEF Admitted
  <2>5. m.at \in Nat
    BY MessagingAssumption DEF MessagingIInv, SentTypes, Messages
  <2>6. since \in Nat /\ latest \in Nat /\ since <= latest
    BY DEF MessagingIInv, ServedInv
  <2> QED
    BY <2>4, <2>5, <2>6
<1> QED
  BY <1>1, MessagingHolds, PTL

\* A contact without a session is one whose bundle or first message failed or
\* was cut off (ContactHasSession).
THEOREM ContactsHaveSessions == Spec => []ContactHasSession
<1>1. MessagingIInv => ContactHasSession
  BY DEF MessagingIInv, CutInv, ContactHasSession, Busy, Decrypting
<1> QED
  BY <1>1, MessagingHolds, PTL
=============================================================================
