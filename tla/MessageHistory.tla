--------------------------- MODULE MessageHistory ---------------------------
(***************************************************************************)
(* The message history of rust/signal_bridge/src/message_history.rs: the   *)
(* tables conversations and messages of migrate_to_v2, and the operations  *)
(* of MessageHistory on them.                                              *)
(*                                                                         *)
(* The calls come from one thread, so they never interleave, but every SQL *)
(* statement commits on its own: a store is three statements (conversation *)
(* row, message row, counters) and a deletion two, and the process may end *)
(* between any two of them.  "call" is what remains of the call under way. *)
(*                                                                         *)
(* The text, the type and the flags of a message are left out: no          *)
(* operation reads them back to decide anything.                           *)
(***************************************************************************)
EXTENDS Nodes, Naturals, FiniteSets

CONSTANTS
    Statuses,       \* delivery status of a message
    Pending,        \* DeliveryStatus::Pending, the column's default
    MaxMessages,    \* bound on the messages ever stored
    MaxConvs,       \* bound on the conversation rows ever created
    MaxClock        \* bound on the clock

ASSUME HistoryAssumption ==
    /\ Pending \in Statuses
    /\ {MaxMessages, MaxConvs, MaxClock} \subseteq Nat
    /\ None \notin [id : Nat, last : Nat, unread : Nat]

VARIABLES
    conversations,  \* conversations[c]: the row of contact c, or None
    messages,       \* the rows of messages
    nextConv,       \* AUTOINCREMENT of conversations
    nextMsg,        \* AUTOINCREMENT of messages
    call,           \* the statements the call under way has yet to run
    clock,          \* SystemTime of the bridge, in milliseconds
    fresh,          \* history: incoming messages of c no mark has covered
    drift           \* history: contacts whose counter a crash or a deletion left off

historyVars ==
    <<conversations, messages, nextConv, nextMsg, call, clock, fresh, drift>>

Idle == [stage |-> "idle"]

Storing(stage, c, incoming, at) ==
    [stage |-> stage, contact |-> c, incoming |-> incoming, at |-> at]

\* The rows a conversation lists.
Listed(c) == {m \in messages : conversations[c] # None /\ m.conv = conversations[c].id}

\* The ids (one per row) that SELECT COUNT(*) ... AND direction = 0 AND
\* timestamp > up_to_timestamp counts.
Later(c, upTo) == {m.id : m \in {n \in Listed(c) : n.incoming /\ n.at > upTo}}

HistoryInit ==
    /\ conversations = [c \in Peers |-> None]
    /\ messages = {}
    /\ nextConv = 1
    /\ nextMsg = 1
    /\ call = Idle
    /\ clock = 0
    /\ fresh = [c \in Peers |-> {}]
    /\ drift = {}

-----------------------------------------------------------------------------
(* store_incoming_message and store_outgoing_message.                      *)

\* Mutant: the time of the message comes from its sender.
GetOrCreateSenderTime(c, incoming) ==
    /\ call = Idle
    /\ nextMsg <= MaxMessages
    /\ conversations[c] = None => nextConv <= MaxConvs
    /\ conversations' = [conversations EXCEPT ![c] =
           IF @ = None THEN [id |-> nextConv, last |-> 0, unread |-> 0] ELSE @]
    /\ nextConv' = IF conversations[c] = None THEN nextConv + 1 ELSE nextConv
    /\ \E t \in 0 .. clock : call' = Storing("insert", c, incoming, t)
    /\ UNCHANGED <<messages, nextMsg, clock, fresh, drift>>

\* The caller reads the clock, then get_or_create_conversation runs.
GetOrCreate(c, incoming) ==
    /\ call = Idle
    /\ nextMsg <= MaxMessages
    /\ conversations[c] = None => nextConv <= MaxConvs
    /\ conversations' = [conversations EXCEPT ![c] =
           IF @ = None THEN [id |-> nextConv, last |-> 0, unread |-> 0] ELSE @]
    /\ nextConv' = IF conversations[c] = None THEN nextConv + 1 ELSE nextConv
    /\ call' = Storing("insert", c, incoming, clock)
    /\ UNCHANGED <<messages, nextMsg, clock, fresh, drift>>

InsertMessage ==
    /\ call.stage = "insert"
    /\ messages' = messages \cup
           {[id |-> nextMsg, conv |-> conversations[call.contact].id,
             incoming |-> call.incoming, at |-> call.at, status |-> Pending]}
    /\ nextMsg' = nextMsg + 1
    /\ fresh' = IF call.incoming
                THEN [fresh EXCEPT ![call.contact] = @ \cup {nextMsg}]
                ELSE fresh
    /\ call' = [call EXCEPT !.stage = "update"]
    /\ UNCHANGED <<conversations, nextConv, clock, drift>>

\* The increment is the database's own, not a value read earlier.
UpdateConversation ==
    /\ call.stage = "update"
    /\ conversations' = [conversations EXCEPT ![call.contact] =
           [id |-> @.id, last |-> call.at,
            unread |-> IF call.incoming THEN @.unread + 1 ELSE @.unread]]
    /\ call' = Idle
    /\ UNCHANGED <<messages, nextConv, nextMsg, clock, fresh, drift>>

-----------------------------------------------------------------------------
(* Reading marks.                                                          *)

\* mark_conversation_read
MarkRead(c) ==
    /\ call = Idle
    /\ conversations[c] # None
    /\ conversations' = [conversations EXCEPT ![c].unread = 0]
    /\ fresh' = [fresh EXCEPT ![c] = {}]
    /\ drift' = drift \ {c}
    /\ UNCHANGED <<messages, nextConv, nextMsg, call, clock>>

\* Mutant: an outgoing message counts too.
MarkReadUpToAny(c, upTo) ==
    /\ call = Idle
    /\ conversations[c] # None
    /\ conversations' = [conversations EXCEPT ![c].unread =
           Cardinality({m \in Listed(c) : m.at > upTo})]
    /\ fresh' = [fresh EXCEPT ![c] = Later(c, upTo)]
    /\ drift' = drift \ {c}
    /\ UNCHANGED <<messages, nextConv, nextMsg, call, clock>>

\* mark_conversation_read_up_to: an error, and no change, without a row.
MarkReadUpTo(c, upTo) ==
    /\ call = Idle
    /\ conversations[c] # None
    /\ conversations' = [conversations EXCEPT ![c].unread =
           Cardinality(Later(c, upTo))]
    /\ fresh' = [fresh EXCEPT ![c] = Later(c, upTo)]
    /\ drift' = drift \ {c}
    /\ UNCHANGED <<messages, nextConv, nextMsg, call, clock>>

\* get_conversation_messages orders by timestamp: the front is a newest row.
Newest(c) == {m \in Listed(c) : \A n \in Listed(c) : n.at <= m.at}

\* command_handler, /chat: marks what the loaded history reaches.
MarkShown(c) ==
    \/ Listed(c) = {} /\ MarkRead(c)
    \/ \E m \in Newest(c) : MarkReadUpTo(c, m.at)

-----------------------------------------------------------------------------
(* Operations of the bridge the program does not call yet.                 *)

\* update_delivery_status
UpdateDeliveryStatus(m, s) ==
    /\ call = Idle
    /\ messages' = (messages \ {m}) \cup {[m EXCEPT !.status = s]}
    /\ UNCHANGED <<conversations, nextConv, nextMsg, call, clock, fresh, drift>>

Owner(m) == CHOOSE c \in Peers : conversations[c] # None /\ conversations[c].id = m.conv

\* delete_message leaves the counter of the conversation alone.
DeleteMessage(m) ==
    /\ call = Idle
    /\ messages' = messages \ {m}
    /\ fresh' = [fresh EXCEPT ![Owner(m)] = @ \ {m.id}]
    /\ drift' = IF m.id \in fresh[Owner(m)] THEN drift \cup {Owner(m)} ELSE drift
    /\ UNCHANGED <<conversations, nextConv, nextMsg, call, clock>>

\* delete_conversation, first statement: the messages.
DeleteMessages(c) ==
    /\ call = Idle
    /\ conversations[c] # None
    /\ messages' = messages \ Listed(c)
    /\ fresh' = [fresh EXCEPT ![c] = {}]
    /\ drift' = drift \cup {c}
    /\ call' = [stage |-> "delete", contact |-> c]
    /\ UNCHANGED <<conversations, nextConv, nextMsg, clock>>

\* delete_conversation, second statement: the row.
DeleteRow ==
    /\ call.stage = "delete"
    /\ conversations' = [conversations EXCEPT ![call.contact] = None]
    /\ drift' = drift \ {call.contact}
    /\ call' = Idle
    /\ UNCHANGED <<messages, nextConv, nextMsg, clock, fresh>>

-----------------------------------------------------------------------------
\* The process ends between two statements, and the next start finds the rows;
\* or a statement fails, and the call ends with an error.
Crash ==
    /\ call # Idle
    /\ drift' = IF call.stage = "update" /\ call.incoming
                THEN drift \cup {call.contact}
                ELSE drift
    /\ call' = Idle
    /\ UNCHANGED <<conversations, messages, nextConv, nextMsg, clock, fresh>>

\* The clock is taken to be monotone.
Tick ==
    /\ clock < MaxClock
    /\ clock' = clock + 1
    /\ UNCHANGED <<conversations, messages, nextConv, nextMsg, call, fresh, drift>>

HistoryNext ==
    \/ \E c \in Peers :
          \/ \E incoming \in BOOLEAN : GetOrCreate(c, incoming)
          \/ MarkRead(c)
          \/ \E upTo \in 0 .. clock : MarkReadUpTo(c, upTo)
          \/ MarkShown(c)
          \/ DeleteMessages(c)
    \/ InsertMessage
    \/ UpdateConversation
    \/ \E m \in messages :
          \/ \E s \in Statuses : UpdateDeliveryStatus(m, s)
          \/ DeleteMessage(m)
    \/ DeleteRow
    \/ Crash
    \/ Tick

HistorySpec == HistoryInit /\ [][HistoryNext]_historyVars

-----------------------------------------------------------------------------
Rows == [id : Nat, last : Nat, unread : Nat]

Calls ==
    {Idle} \cup [stage : {"delete"}, contact : Peers]
           \cup [stage : {"insert", "update"}, contact : Peers,
                 incoming : BOOLEAN, at : Nat]

\* The types of the two tables and of the call under way.
HistoryTypeOK ==
    /\ conversations \in [Peers -> Rows \cup {None}]
    /\ messages \subseteq [id : Nat, conv : Nat, incoming : BOOLEAN,
                           at : Nat, status : Statuses]
    /\ nextConv \in Nat
    /\ nextMsg \in Nat
    /\ call \in Calls
    /\ clock \in Nat
    /\ fresh \in [Peers -> SUBSET Nat]
    /\ drift \subseteq Peers

\* get_unread_count is the number of incoming messages of the contact that
\* came in after the last mark or that the mark left out.  Only a process that
\* ends between the message row and the counter, and the deletion of an unread
\* message, make the counter wrong, and the next mark sets it right again.
UnreadCounts ==
    \A c \in Peers :
        conversations[c] # None /\ c \notin drift /\ call.stage \notin {"update", "delete"}
            => conversations[c].unread = Cardinality(fresh[c])

\* get_conversation_messages lists a conversation, newest time first, in the
\* order in which its messages were stored, whatever was deleted in between
\* and wherever the process ended.
ListedInStoreOrder ==
    \A m, n \in messages : m.id < n.id => m.at <= n.at
=============================================================================
