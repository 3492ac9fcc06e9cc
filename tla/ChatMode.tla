------------------------------ MODULE ChatMode ------------------------------
(***************************************************************************)
(* Chat mode, from the line the user types to what the screen shows.       *)
(*                                                                         *)
(* Three objects each keep their own copy of "the active chat":            *)
(*   parser  command_parser::active_chat_rdx_, which turns plain text into *)
(*           "/send <active chat> <text>";                                 *)
(*   filter  display_filter::active_chat_rdx_, which discards the messages *)
(*           of everyone else;                                             *)
(*   ui      active_chat_context_ of the TUI or the GUI, the prompt.       *)
(* They are brought together only by events in queues:                     *)
(*                                                                         *)
(*   user -> cmdQ -> event_handler (parser, command_handler) -> dispQ      *)
(*   orchestrator -> presQ -> presentation_handler -> dispQ                *)
(*   dispQ -> display_filter -> uiQ -> UI thread                           *)
(*                                                                         *)
(* The handlers run to completion on the io thread.  Typing and UiEvent    *)
(* belong to the UI thread.  Every queue is an async_queue, whose push     *)
(* loses the value when Capacity values wait.                              *)
(*                                                                         *)
(* Messages of the system and feedback of commands ("Entering chat with",  *)
(* the frame of the history) pass every stage whatever its state and are   *)
(* left out: Capacity is the room they leave in a queue.                   *)
(*                                                                         *)
(* A contact stands for its fingerprint.  Its alias is another name for it *)
(* and does not change here (see ContactBook for renaming).                *)
(***************************************************************************)
EXTENDS Naturals, Sequences

CONSTANTS
    Contacts,       \* contacts of the contact table, by fingerprint
    Nickname,       \* the alias of one of them,
    Nicknamed,      \*   which is this one
    Stranger,       \* a name the contact table does not have
    None,           \* no active chat
    Capacity,       \* async_queue::channel_size
    HistoryLimit,   \* history_limit: the messages /chat shows
    MaxTyped,       \* bound on the lines typed
    MaxReceived     \* bound on the messages received

ASSUME ChatAssumption ==
    /\ Nicknamed \in Contacts
    /\ {Nickname, Stranger, None} \cap Contacts = {}
    /\ Nickname # Stranger /\ None \notin {Nickname, Stranger}
    /\ {Capacity, HistoryLimit} \subseteq Nat \ {0}
    /\ {MaxTyped, MaxReceived} \subseteq Nat

VARIABLES
    cmdQ,           \* raw_command queue
    sessQ,          \* sends in the session queue, by the peer's name
    awaiting,       \* sends published, whose answer or timeout is to come
    presQ,          \* presentation_event queue
    dispQ,          \* display_filter_input queue
    uiQ,            \* ui_event queue
    parser, filter, ui,
    history,        \* history[c]: rows of the conversation, oldest first
    read,           \* read[c]: how many of them are marked read
    screen,         \* incoming messages the UI has shown
    skipped,        \* history: messages that /chat marked read without showing them
    overflow,       \* history: some queue was full when something was pushed
    typed, received \* counters of the bounds

queues == <<cmdQ, sessQ, presQ, dispQ, uiQ>>
vars == <<cmdQ, sessQ, awaiting, presQ, dispQ, uiQ, parser, filter, ui, history,
          read, screen, skipped, overflow, typed, received>>

Names == Contacts \cup {Nickname, Stranger}
Chats == Contacts \cup {None}
Own == 0                        \* an outgoing row; incoming ones are 1, 2, ...

\* SignalBridge::lookup_contact: by fingerprint or by alias.
Lookup(n) == IF n = Nickname THEN Nicknamed ELSE IF n \in Contacts THEN n ELSE None

\* What the user types: the text remembers the prompt above it, and whether
\* every earlier change of chat had reached the prompt by then.
ChatLine(n) == [kind |-> "chat", name |-> n]
LeaveLine == [kind |-> "leave"]
SendLine(n) == [kind |-> "send", name |-> n]
TextLine(shown, settled) == [kind |-> "text", shown |-> shown, settled |-> settled]

\* What travels to the screen: changes of chat, messages with the contact_rdx
\* they are filtered by, and results of sends with the name the user gave.
Enter(c) == [kind |-> "enter", chat |-> c]
Exit == [kind |-> "exit"]
Message(c, m) == [kind |-> "message", from |-> c, id |-> m]
Result(n) == [kind |-> "result", from |-> n]

Control(q) == {i \in DOMAIN q : q[i].kind \in {"enter", "exit"}}
Settled == Control(dispQ) = {} /\ Control(uiQ) = {} /\
           \A i \in DOMAIN cmdQ : cmdQ[i].kind \notin {"chat", "leave"}

Init ==
    /\ cmdQ = <<>> /\ sessQ = <<>> /\ presQ = <<>> /\ dispQ = <<>> /\ uiQ = <<>>
    /\ awaiting = [n \in Names |-> 0]
    /\ parser = None /\ filter = None /\ ui = None
    /\ history = [c \in Contacts |-> <<>>]
    /\ read = [c \in Contacts |-> 0]
    /\ screen = {} /\ skipped = {}
    /\ overflow = FALSE
    /\ typed = 0 /\ received = 0

\* async_queue::push of every event of es: try_send fails on a full channel,
\* and the value is gone.
PushAll(q, es) == SubSeq(q \o es, 1, IF Len(q \o es) > Capacity THEN Capacity ELSE Len(q \o es))
Fits(q, es) == Len(q) + Len(es) <= Capacity

-----------------------------------------------------------------------------
(* The UI thread: process_command and process_ui_event *)

Lines == {ChatLine(n) : n \in Names} \cup {SendLine(n) : n \in Names}
            \cup {LeaveLine, TextLine(ui, Settled)}

Type ==
    \E line \in Lines :
        /\ typed < MaxTyped
        /\ typed' = typed + 1
        /\ cmdQ' = PushAll(cmdQ, <<line>>)
        /\ overflow' = (overflow \/ ~Fits(cmdQ, <<line>>))
        /\ UNCHANGED <<sessQ, awaiting, presQ, dispQ, uiQ, parser, filter, ui,
                       history, read, screen, skipped, received>>

\* Mutant: leaving a chat does not clear the prompt.
UiEventKeeps ==
    /\ uiQ # <<>>
    /\ uiQ' = Tail(uiQ)
    /\ LET e == Head(uiQ) IN
        /\ ui' = IF e.kind = "enter" THEN e.chat ELSE ui
        /\ screen' = IF e.kind = "message" THEN screen \cup {e.id} ELSE screen
    /\ UNCHANGED <<cmdQ, sessQ, awaiting, presQ, dispQ, parser, filter, history,
                   read, skipped, overflow, typed, received>>

UiEvent ==
    /\ uiQ # <<>>
    /\ uiQ' = Tail(uiQ)
    /\ LET e == Head(uiQ) IN
        /\ ui' = CASE e.kind = "enter" -> e.chat
                   [] e.kind = "exit" -> None
                   [] OTHER -> ui
        /\ screen' = IF e.kind = "message" THEN screen \cup {e.id} ELSE screen
    /\ UNCHANGED <<cmdQ, sessQ, awaiting, presQ, dispQ, parser, filter, history,
                   read, skipped, overflow, typed, received>>

-----------------------------------------------------------------------------
(* The io thread: event_handler *)

Display(es) ==
    /\ dispQ' = PushAll(dispQ, es)
    /\ overflow' = (overflow \/ ~Fits(dispQ, es))

\* The rows get_conversation_messages(c, history_limit, 0) returns, oldest
\* first as the handler shows them.
Shown(c) == LET h == history[c] IN
    SubSeq(h, IF Len(h) > HistoryLimit THEN Len(h) - HistoryLimit + 1 ELSE 1, Len(h))

\* Mutant: /chat pushes the history before the change of chat.
HandleChatHistoryFirst(n) ==
    LET c == Lookup(n)
        rows == [i \in DOMAIN Shown(c) |-> Message(c, Shown(c)[i])]
    IN  IF c = None
        THEN UNCHANGED <<dispQ, overflow, parser, read, skipped>>
        ELSE /\ parser' = c
             /\ Display(rows \o <<Enter(c)>>)
             /\ read' = [read EXCEPT ![c] = Len(history[c])]
             /\ skipped' = skipped \cup
                    {history[c][i] : i \in (read[c] + 1)..(Len(history[c]) - HistoryLimit)}

\* /chat: the parser's handler looks the contact up and sets the active chat,
\* then command_handler looks it up, pushes the change of chat and the newest
\* messages, and marks the conversation read up to the newest of them.
HandleChat(n) ==
    LET c == Lookup(n)
        rows == [i \in DOMAIN Shown(c) |-> Message(c, Shown(c)[i])]
    IN  IF c = None
        THEN UNCHANGED <<dispQ, overflow, parser, read, skipped>>
        ELSE /\ parser' = c
             /\ Display(<<Enter(c)>> \o rows)
             /\ read' = [read EXCEPT ![c] = Len(history[c])]
             /\ skipped' = skipped \cup
                    {history[c][i] : i \in (read[c] + 1)..(Len(history[c]) - HistoryLimit)}

\* Mutant: /leave tells the display but not the parser.
HandleLeaveParserStays ==
    /\ Display(<<Exit>>)
    /\ UNCHANGED <<parser, read, skipped>>

\* Mutant: /leave resets the parser but tells nobody.
HandleLeaveSilent ==
    /\ parser' = None
    /\ UNCHANGED <<dispQ, overflow, read, skipped>>

\* /leave
HandleLeave ==
    /\ parser' = None
    /\ Display(<<Exit>>)
    /\ UNCHANGED <<read, skipped>>

\* /send: to the session queue.
HandleSend(n) ==
    /\ sessQ' = PushAll(sessQ, <<n>>)
    /\ overflow' = (overflow \/ ~Fits(sessQ, <<n>>))
    /\ UNCHANGED <<dispQ, parser, read, skipped>>

\* Plain text is a send to the active chat, or an unknown command that is
\* silently ignored.
HandleText ==
    \/ parser # None /\ HandleSend(parser)
    \/ parser = None /\ UNCHANGED <<sessQ, dispQ, overflow, parser, read, skipped>>

HandleCommand ==
    /\ cmdQ # <<>>
    /\ cmdQ' = Tail(cmdQ)
    /\ LET line == Head(cmdQ) IN
        \/ line.kind = "chat" /\ HandleChat(line.name) /\ UNCHANGED sessQ
        \/ line.kind = "leave" /\ HandleLeave /\ UNCHANGED sessQ
        \/ line.kind = "send" /\ HandleSend(line.name)
        \/ line.kind = "text" /\ HandleText
    /\ UNCHANGED <<awaiting, presQ, uiQ, filter, ui, history, screen, typed, received>>

-----------------------------------------------------------------------------
(* The io thread: the orchestrator, as far as the screen is concerned *)

PresentLater(e) ==
    /\ presQ' = PushAll(presQ, <<e>>)
    /\ overflow' = (overflow \/ ~Fits(presQ, <<e>>))

\* A message of c: stored while it is decrypted, then announced.
Incoming(c) ==
    /\ received < MaxReceived
    /\ received' = received + 1
    /\ history' = [history EXCEPT ![c] = Append(@, received + 1)]
    /\ PresentLater(Message(c, received + 1))
    /\ UNCHANGED <<cmdQ, sessQ, awaiting, dispQ, uiQ, parser, filter, ui, read,
                   screen, skipped, typed>>

\* A send: encrypt_message stores the row and the event is published.  For a
\* peer it does not know it throws, in a detached coroutine: nothing follows.
SendStep ==
    /\ sessQ # <<>>
    /\ sessQ' = Tail(sessQ)
    /\ LET n == Head(sessQ) IN
        IF Lookup(n) = None THEN UNCHANGED <<history, awaiting>>
        ELSE /\ history' = [history EXCEPT ![Lookup(n)] = Append(@, Own)]
             /\ awaiting' = [awaiting EXCEPT ![n] = @ + 1]
    /\ UNCHANGED <<cmdQ, presQ, dispQ, uiQ, parser, filter, ui, read, screen,
                   skipped, overflow, typed, received>>

\* The relay's OK, or the timeout: message_sent names the peer as typed.
SendAnswered(n) ==
    /\ awaiting[n] > 0
    /\ awaiting' = [awaiting EXCEPT ![n] = @ - 1]
    /\ PresentLater(Result(n))
    /\ UNCHANGED <<cmdQ, sessQ, dispQ, uiQ, parser, filter, ui, history, read,
                   screen, skipped, typed, received>>

-----------------------------------------------------------------------------
(* The io thread: presentation_handler and display_filter *)

Present ==
    /\ presQ # <<>>
    /\ presQ' = Tail(presQ)
    /\ Display(<<Head(presQ)>>)
    /\ UNCHANGED <<cmdQ, sessQ, awaiting, uiQ, parser, filter, ui, history, read,
                   screen, skipped, typed, received>>

\* Mutant: the filter compares nothing.
PassesAll(e) == TRUE

\* Whether display_filter::handle passes e on to the UI.
Passes(e) == e.kind \in {"message", "result"} => filter \in {None, e.from}

Filter ==
    /\ dispQ # <<>>
    /\ dispQ' = Tail(dispQ)
    /\ LET e == Head(dispQ)
           out == IF Passes(e) THEN <<e>> ELSE <<>>
       IN /\ filter' = CASE e.kind = "enter" -> e.chat
                         [] e.kind = "exit" -> None
                         [] OTHER -> filter
          /\ uiQ' = PushAll(uiQ, out)
          /\ overflow' = (overflow \/ ~Fits(uiQ, out))
    /\ UNCHANGED <<cmdQ, sessQ, awaiting, presQ, parser, ui, history, read, screen,
                   skipped, typed, received>>

Next ==
    \/ Type \/ UiEvent \/ HandleCommand \/ SendStep \/ Present \/ Filter
    \/ \E c \in Contacts : Incoming(c)
    \/ \E n \in Names : SendAnswered(n)

\* The processors' run loops and the GUI's 16 ms timer take what waits for
\* them.  The user and the relay owe nothing.
Fairness ==
    WF_vars(HandleCommand) /\ WF_vars(Filter) /\ WF_vars(UiEvent)

Spec == Init /\ [][Next]_vars
FairSpec == Spec /\ Fairness

-----------------------------------------------------------------------------
Event == [kind : {"message"}, from : Contacts, id : Nat] \cup [kind : {"result"}, from : Names]
Shows == Event \cup {Exit} \cup {Enter(c) : c \in Contacts}
QueueOf(S, q) == q \in Seq(S) /\ Len(q) <= Capacity

(* Every variable has its type, and no queue exceeds its capacity. *)
TypeOK ==
    /\ QueueOf({ChatLine(n) : n \in Names} \cup {SendLine(n) : n \in Names} \cup {LeaveLine}
                    \cup {TextLine(c, b) : c \in Chats, b \in BOOLEAN}, cmdQ)
    /\ QueueOf(Names, sessQ)
    /\ awaiting \in [Names -> Nat]
    /\ QueueOf(Event, presQ)
    /\ QueueOf(Shows, dispQ)
    /\ QueueOf(Shows, uiQ)
    /\ {parser, filter, ui} \subseteq Chats
    /\ history \in [Contacts -> Seq(Nat)]
    /\ \A c \in Contacts : read[c] \in 0..Len(history[c])
    /\ screen \subseteq Nat /\ skipped \subseteq Nat
    /\ overflow \in BOOLEAN
    /\ {typed, received} \subseteq Nat

\* The active chat once every change of chat in q is applied to now.
After(now, q) ==
    IF Control(q) = {} THEN now
    ELSE LET e == q[CHOOSE i \in Control(q) : \A j \in Control(q) : j <= i]
         IN  IF e.kind = "enter" THEN e.chat ELSE None

(* The three copies of the active chat agree up to what is in the queues:   *)
(* the prompt is what the filter had before the changes in uiQ, the filter  *)
(* what the parser had before those in dispQ.  So when the queues are empty *)
(* all three are equal.  A full queue may lose a change, which nothing      *)
(* repairs.                                                                 *)
ChatAgreement == ~overflow => /\ After(ui, uiQ) = filter
                              /\ After(filter, dispQ) = parser

(* Text typed under a prompt that had caught up with every earlier command  *)
(* goes to the contact that the prompt showed, and is ignored if it showed  *)
(* none.  (Text typed before the prompt has caught up goes elsewhere: the   *)
(* TUI waits at most 100 ms for the pipeline before it prompts again.)      *)
PromptTruthful ==
    cmdQ # <<>> /\ ~overflow =>
        LET line == Head(cmdQ) IN
        line.kind = "text" /\ line.settled => line.shown = parser

(* A message that is shown while a chat is open is one of that chat: the    *)
(* prompt changes in order with the messages the filter let through.        *)
ForeignFiltered ==
    uiQ # <<>> /\ ~overflow =>
        (Head(uiQ).kind = "message" => ui \in {None, Head(uiQ).from})

(* A message marked read has been shown, is on its way to the screen, or    *)
(* was older than the history_limit newest ones when /chat marked it.  In   *)
(* particular, what the filter discards is read only once /chat shows it.   *)
ReadIsSeen ==
    ~overflow =>
        \A c \in Contacts : \A i \in 1..read[c] :
            LET m == history[c][i] IN
            \/ m \in screen \cup skipped
            \/ \E q \in {dispQ, uiQ} : \E j \in DOMAIN q : q[j] = Message(c, m)

(* Once the parser sends text to c, the prompt comes to show c, unless the  *)
(* user changes the chat again (or a queue overflowed).                     *)
PromptFollows ==
    \A c \in Chats : parser = c ~> (ui = c \/ parser # c \/ overflow)
=============================================================================
