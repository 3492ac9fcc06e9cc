----------------------------- MODULE Messaging -----------------------------
(***************************************************************************)
(* Messages from the relay to the history and back: the composition of     *)
(* ContactBook and MessageHistory with the handlers that use both, on the  *)
(* one io thread: session_orchestrator's bytes_received and its call of    *)
(* message_handler::handle(encrypted_message), decrypt_message and         *)
(* encrypt_message of the bridge, the subscription to our messages with    *)
(* its "since", /send, /trust and /chat.                                   *)
(*                                                                         *)
(* A relay keeps every message and serves a subscription all that its      *)
(* filter admits, in any order and again after each reconnection.  A       *)
(* message is its sender, a number, the created_at its sender wrote and    *)
(* whether it carries a pre-key (kind) and can be decrypted (ok).          *)
(*                                                                         *)
(* "job" is the handler under way on the io thread and the statement it    *)
(* has reached; the end of the process is all that can come between two.   *)
(***************************************************************************)
EXTENDS ContactBook, MessageHistory

CONSTANTS
    Times,          \* created_at of messages, in the clocks of their senders
    MaxSent,        \* bound on the messages peers send
    MaxSends,       \* bound on the messages we store as sent
    MaxFaults,      \* bound on ends of the process and failing statements
    MaxCommands     \* bound on commands and announcements

\* A message of a peer for us, as the relay has it (external).
Messages ==
    [from : Peers, n : Nat, at : Times, kind : {"prekey", "signal"}, ok : BOOLEAN]

\* The handlers of a message and of /send, between two statements.
Handlers ==
    [stage : {"decrypt", "store", "stamp"}, msg : Messages] \cup [stage : {"send"}, to : Peers]

ASSUME MessagingAssumption ==
    /\ None \notin Handlers
    /\ Times \subseteq Nat \ {0}
    /\ {MaxSent, MaxSends, MaxFaults, MaxCommands} \subseteq Nat
    /\ MaxSent + MaxSends <= MaxMessages
    /\ Cardinality(Peers) <= MaxConvs

VARIABLES
    sent,           \* the messages the relay has for us (external)
    heard,          \* peers our relay has a message of ours for (external)
    since,          \* filter of the current subscription, or None
    delivered,      \* messages served on the current subscription
    job,            \* the handler under way, or None
    used,           \* messages whose key the ratchet has used up
    lastTime,       \* settings: last_message_timestamp
    storedAs,       \* history: <<message, row>> of every insertion
    latest,         \* history: the latest created_at of a message handled
    lost,           \* history: messages decrypted whose row a crash or an error prevented
    faults,
    commands

inboxVars == <<sent, heard, since, delivered, job, used, lastTime, storedAs,
               latest, lost, faults, commands>>

vars == <<historyVars, contactVars, inboxVars>>

Busy == job # None \/ call # Idle \/ trusting # None

Init ==
    /\ HistoryInit
    /\ ContactsInit
    /\ sent = {}
    /\ heard = {}
    /\ since = None
    /\ delivered = {}
    /\ job = None
    /\ used = {}
    /\ lastTime = 0
    /\ storedAs = {}
    /\ latest = 0
    /\ lost = {}
    /\ faults = 0
    /\ commands = 0

-----------------------------------------------------------------------------
(* The relay and the peers.                                                *)

\* A peer answers with plain messages once it has one of ours.
PeerSends(p) ==
    /\ Cardinality(sent) < MaxSent
    /\ \E kind \in {"prekey", "signal"}, at \in Times, ok \in BOOLEAN :
          /\ kind = "signal" => p \in heard /\ ok
          /\ sent' = sent \cup {[from |-> p, n |-> Cardinality(sent), at |-> at,
                                 kind |-> kind, ok |-> ok]}
    /\ UNCHANGED <<historyVars, contactVars, heard, since, delivered, job, used,
                   lastTime, storedAs, latest, lost, faults, commands>>

\* Mutant: the subscription starts after the last message.
SubscribeAfter ==
    /\ ~Busy
    /\ orchestrator = "running"
    /\ since = None
    /\ since' = IF lastTime = 0 THEN 0 ELSE lastTime + 1
    /\ delivered' = {}
    /\ UNCHANGED <<historyVars, contactVars, sent, heard, job, used, lastTime,
                   storedAs, latest, lost, faults, commands>>

\* handle(transport::connected) subscribes from last_message_timestamp on.
Subscribe ==
    /\ ~Busy
    /\ orchestrator = "running"
    /\ since = None
    /\ since' = lastTime
    /\ delivered' = {}
    /\ UNCHANGED <<historyVars, contactVars, sent, heard, job, used, lastTime,
                   storedAs, latest, lost, faults, commands>>

\* "since" admits the messages of its own second.
Admitted(m) == since # None /\ m.at >= since

\* Foreign keys: replacing a row of contacts deletes the conversation of the
\* old row and with it the messages.
Cascade(p) ==
    IF contacts[p] = None
    THEN UNCHANGED historyVars
    ELSE /\ messages' = messages \ Listed(p)
         /\ conversations' = [conversations EXCEPT ![p] = None]
         /\ fresh' = [fresh EXCEPT ![p] = {}]
         /\ UNCHANGED <<nextConv, nextMsg, call, clock, drift>>

\* Mutant: every pre-key message writes the contact of its sender.
ReceiveAdds(m) ==
    /\ ~Busy
    /\ orchestrator = "running"
    /\ Admitted(m)
    /\ m \notin delivered
    /\ delivered' = delivered \cup {m}
    /\ IF m.kind = "prekey"
       THEN Write(m.from, Unknown(m.from)) /\ Cascade(m.from)
       ELSE UNCHANGED <<contacts, historyVars>>
    /\ job' = IF m.kind = "prekey" \/ Known(m.from)
              THEN [stage |-> "decrypt", msg |-> m]
              ELSE None
    /\ UNCHANGED <<sessions, discovered, trusting, orchestrator, cut, sent, heard,
                   since, used, lastTime, storedAs, latest, lost, faults, commands>>

\* bytes_received, up to the decryption.  A pre-key message adds its sender to
\* the contacts before anything is decrypted; any other needs a contact.
Receive(m) ==
    /\ ~Busy
    /\ orchestrator = "running"
    /\ Admitted(m)
    /\ m \notin delivered
    /\ delivered' = delivered \cup {m}
    /\ IF m.kind = "prekey" /\ ~Known(m.from)
       THEN Write(m.from, Unknown(m.from)) /\ Cascade(m.from)
       ELSE UNCHANGED <<contacts, historyVars>>
    /\ job' = IF m.kind = "prekey" \/ Known(m.from)
              THEN [stage |-> "decrypt", msg |-> m]
              ELSE None
    /\ UNCHANGED <<sessions, discovered, trusting, orchestrator, cut, sent, heard,
                   since, used, lastTime, storedAs, latest, lost, faults, commands>>

Decrypting == job # None /\ job.stage = "decrypt"

\* Mutant: the session is not written back after the decryption.
DecryptUnsaved ==
    /\ Decrypting
    /\ job.msg.ok /\ job.msg \notin used
    /\ sessions' = sessions \cup {job.msg.from}
    /\ cut' = cut \ {job.msg.from}
    /\ job' = [job EXCEPT !.stage = "store"]
    /\ UNCHANGED <<historyVars, contacts, discovered, trusting, orchestrator, sent, heard,
                   since, delivered, used, lastTime, storedAs, latest, lost, faults, commands>>

\* libsignal decrypts and saves the session, which uses up the message key.
Decrypt ==
    /\ Decrypting
    /\ job.msg.ok /\ job.msg \notin used
    /\ used' = used \cup {job.msg}
    /\ sessions' = sessions \cup {job.msg.from}
    /\ cut' = cut \ {job.msg.from}
    /\ job' = [job EXCEPT !.stage = "store"]
    /\ UNCHANGED <<historyVars, contacts, discovered, trusting, orchestrator, sent, heard,
                   since, delivered, lastTime, storedAs, latest, lost, faults, commands>>

\* A duplicate ("old counter") and any other failure end the handler the same
\* way: nothing is stored, and last_message_timestamp stays.
DecryptFails ==
    /\ Decrypting
    /\ ~job.msg.ok \/ job.msg \in used
    /\ cut' = IF job.msg.from \in sessions THEN cut ELSE cut \cup {job.msg.from}
    /\ job' = None
    /\ UNCHANGED <<historyVars, contacts, sessions, discovered, trusting, orchestrator, sent,
                   heard, since, delivered, used, lastTime, storedAs, latest, lost, faults, commands>>

\* store_incoming_message begins; the statements of "call" follow.
StoreIncoming ==
    /\ job # None /\ job.stage = "store"
    /\ GetOrCreate(job.msg.from, TRUE)
    /\ job' = [job EXCEPT !.stage = "stamp"]
    /\ UNCHANGED <<contactVars, sent, heard, since, delivered, used, lastTime, storedAs,
                   latest, lost, faults, commands>>

\* The statements of a store under way.
StoreStep ==
    /\ \/ /\ InsertMessage
          /\ storedAs' = IF call.incoming THEN storedAs \cup {<<job.msg, nextMsg>>} ELSE storedAs
       \/ /\ UpdateConversation
          /\ UNCHANGED storedAs
    /\ UNCHANGED <<contactVars, sent, heard, since, delivered, job, used, lastTime,
                   latest, lost, faults, commands>>

\* A statement of a store fails: the caller prints a warning and goes on as if
\* the message were stored.
StoreFails ==
    /\ faults < MaxFaults
    /\ faults' = faults + 1
    /\ \/ /\ job # None /\ job.stage = "store"
          /\ job' = [job EXCEPT !.stage = "stamp"]
          /\ lost' = lost \cup {job.msg}
          /\ UNCHANGED historyVars
       \/ /\ job # None /\ Crash
          /\ lost' = IF call.stage = "insert" /\ call.incoming
                     THEN lost \cup {job.msg} ELSE lost
          /\ UNCHANGED job
    /\ UNCHANGED <<contactVars, sent, heard, since, delivered, used, lastTime, storedAs,
                   latest, commands>>

\* update_last_message_timestamp; message_received then goes to presentation.
Stamp ==
    /\ job # None /\ job.stage = "stamp"
    /\ call = Idle
    /\ lastTime' = job.msg.at
    /\ latest' = IF job.msg.at > latest THEN job.msg.at ELSE latest
    /\ job' = None
    /\ UNCHANGED <<historyVars, contactVars, sent, heard, since, delivered, used, storedAs,
                   lost, faults, commands>>

-----------------------------------------------------------------------------
(* Commands.                                                               *)

Command == commands < MaxCommands /\ commands' = commands + 1

Names == Identities \cup UserAliases \cup {SelfAlias}

\* /send: encrypt_message falls back to the name itself, and without a session
\* its exception is dropped with the detached coroutine.
Send(name) ==
    /\ ~Busy
    /\ Cardinality({m \in messages : ~m.incoming}) < MaxSends
    /\ \E p \in sessions \cap (IF Known(name) THEN Lookup(name) ELSE {name}) :
          /\ GetOrCreate(p, FALSE)
          /\ job' = [stage |-> "send", to |-> p]
    /\ Command
    /\ UNCHANGED <<contactVars, sent, heard, since, delivered, used, lastTime, storedAs,
                   latest, lost, faults>>

\* The event reaches the relay when there is a connection.
SendStored ==
    /\ job # None /\ job.stage = "send"
    /\ call = Idle
    /\ heard' = IF since = None THEN heard ELSE heard \cup {job.to}
    /\ job' = None
    /\ UNCHANGED <<historyVars, contactVars, sent, since, delivered, used, lastTime, storedAs,
                   latest, lost, faults, commands>>

\* /chat loads the newest messages and marks what they reach.
Chat(name) ==
    /\ ~Busy
    /\ \E p \in Lookup(name) \cap Peers : MarkShown(p)
    /\ Command
    /\ UNCHANGED <<contactVars, sent, heard, since, delivered, job, used, lastTime, storedAs,
                   latest, lost, faults>>

\* Announcements, /publish and /trust.
ContactCommand ==
    /\ job = None /\ call = Idle
    /\ \/ /\ \/ \E i \in Identities : AnnouncementReceived(i) \/ AnnouncementRemoved(i)
             \/ \E name \in Names, alias \in UserAliases \cup {NoAlias} :
                   TrustKnown(name, alias)
             \/ PublishSelf
             \/ TrustOwnBundle
          /\ UNCHANGED historyVars
       \/ \E p \in Peers, alias \in UserAliases \cup {NoAlias} :
             TrustDiscovered(p, alias) /\ Cascade(p)
    /\ Command
    /\ UNCHANGED <<sent, heard, since, delivered, job, used, lastTime, storedAs,
                   latest, lost, faults>>

FinishTrust ==
    /\ Establish \/ EstablishFails
    /\ UNCHANGED <<historyVars, inboxVars>>

\* The connection ends, and the subscription with it.
Disconnect ==
    /\ ~Busy
    /\ since # None
    /\ since' = None
    /\ delivered' = {}
    /\ UNCHANGED <<historyVars, contactVars, sent, heard, job, used, lastTime, storedAs,
                   latest, lost, faults, commands>>

\* The process ends anywhere, and is started again.
Restart ==
    /\ faults < MaxFaults
    /\ faults' = faults + 1
    /\ IF call = Idle THEN UNCHANGED historyVars ELSE Crash
    /\ ContactsRestart(IF trusting # None THEN {trusting.peer}
                       ELSE IF Decrypting THEN {job.msg.from} \ sessions ELSE {})
    /\ lost' = IF \/ job # None /\ job.stage = "store"
                  \/ call.stage = "insert" /\ call.incoming
               THEN lost \cup {job.msg}
               ELSE lost
    /\ job' = None
    /\ since' = None
    /\ delivered' = {}
    /\ UNCHANGED <<sent, heard, used, lastTime, storedAs, latest, commands>>

Next ==
    \/ \E p \in Peers : PeerSends(p)
    \/ Subscribe
    \/ \E m \in sent : Receive(m)
    \/ Decrypt
    \/ DecryptFails
    \/ StoreIncoming
    \/ StoreStep
    \/ StoreFails
    \/ Stamp
    \/ \E name \in Names : Send(name) \/ Chat(name)
    \/ SendStored
    \/ ContactCommand
    \/ FinishTrust
    \/ Disconnect
    \/ Restart

Spec == Init /\ [][Next]_vars

-----------------------------------------------------------------------------
\* The types of what the composition adds.
TypeOK ==
    /\ HistoryTypeOK
    /\ ContactsTypeOK
    /\ sent \subseteq Messages
    /\ job \in Handlers \cup {None}
    /\ heard \subseteq Peers
    /\ since \in Times \cup {0, None}
    /\ delivered \subseteq sent
    /\ used \subseteq sent
    /\ lastTime \in Times \cup {0}

\* decrypt_message and encrypt_message store what they handle and leave the rest
\* of the history alone: every step of the program is a step of MessageHistory.
\* In particular no pre-key message and no /trust replaces the row of a contact
\* that exists, which would delete the conversation with it.
ImplementsHistory == HistorySpec

\* The relay serves messages again after every reconnection and restart, and
\* each of them is stored at most once.
StoredOnce == \A x, y \in storedAs : x[1] = y[1] => x = y

\* A message that can be decrypted and is not in the history when the relay has
\* served all the subscription asks for was cut off between its decryption and
\* its row (the end of the process, or a failing statement), or its sender's
\* clock was behind that of a message handled earlier: last_message_timestamp is
\* the time of the last message, of any sender.
MissedOnlyBehind ==
    orchestrator = "running" /\ ~Busy /\ since # None
    /\ (\A m \in sent : Admitted(m) => m \in delivered)
        => \A m \in sent : m.ok =>
              \/ \E x \in storedAs : x[1] = m
              \/ m \in lost
              \/ m.at < latest

\* An alias the user gives names one contact, so that /send, /chat and /trust
\* reach the contact it was given to.  ("self" is apart: publishing writes it
\* to our own row whoever has it.)
AliasNamesOne ==
    \A alias \in UserAliases \ {SelfAlias} : \A i, j \in Holders(alias) : i = j

\* A session always has its contact row: without it a message of the peer that
\* carries no pre-key could not be decrypted and no message could be stored.
SessionHasContact == \A p \in sessions : contacts[p] # None

\* A contact without a session is one whose bundle or first message failed, or
\* was cut off by the end of the process.
ContactHasSession ==
    ~Busy => \A p \in Peers : contacts[p] # None => p \in sessions \cup cut
=============================================================================
