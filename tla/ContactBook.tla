---------------------------- MODULE ContactBook ----------------------------
(***************************************************************************)
(* The contacts table of rust/signal_bridge/src/contact_manager.rs, the    *)
(* sessions of the contacts, and what session_orchestrator keeps and does  *)
(* about identities: the announcements it has discovered and /trust.       *)
(*                                                                         *)
(* An alias is a value of its own; none has the text of a fingerprint or   *)
(* of a key.                                                               *)
(*                                                                         *)
(* add_contact_and_establish_session is two statements: "trusting" is the  *)
(* /trust between them, which only the end of the process can come into.   *)
(***************************************************************************)
EXTENDS Nodes, Naturals, FiniteSets

CONSTANTS
    Me,             \* our own identity
    UserAliases,    \* aliases the user types
    SelfAlias,      \* "self", which our own contact row gets
    NoAlias         \* user_alias is NULL, or the command gives none

Identities == Peers \cup {Me}

\* add_contact_from_identity_key: "Unknown-" and eight digits of the fingerprint
Unknown(p) == <<"Unknown", p>>

Aliases == UserAliases \cup {SelfAlias} \cup {Unknown(p) : p \in Peers}

ASSUME ContactsAssumption ==
    /\ Me \notin Peers
    /\ Identities \cap (Aliases \cup {NoAlias, None}) = {}
    /\ None \notin Aliases \cup {NoAlias}
    /\ None \notin [peer : Peers, alias : UserAliases \cup {NoAlias}]
    /\ UserAliases \cap ({NoAlias} \cup {Unknown(p) : p \in Peers}) = {}

VARIABLES
    contacts,       \* contacts[i]: alias of the row of i, or None without row
    sessions,       \* peers with a session record
    discovered,     \* identities with an entry in discovered_bundles_
    trusting,       \* the /trust between its two statements, or None
    orchestrator,   \* "running", or "ended" by an exception of a handler
    cut             \* history: contacts whose session failed or was cut off

contactVars == <<contacts, sessions, discovered, trusting, orchestrator, cut>>

ContactsInit ==
    /\ contacts = [i \in Identities |-> None]
    /\ sessions = {}
    /\ discovered = {}
    /\ trusting = None
    /\ orchestrator = "running"
    /\ cut = {}

\* lookup_contact: the rows a fingerprint, public key or alias selects.
Lookup(name) == {i \in Identities : contacts[i] # None /\ (i = name \/ contacts[i] = name)}

Known(name) == Lookup(name) # {}

\* The rows that already have the alias.
Holders(alias) == {i \in Identities : contacts[i] = alias}

\* INSERT OR REPLACE, or UPDATE, of the row of i
Write(i, alias) == contacts' = [contacts EXCEPT ![i] = alias]

Ready == orchestrator = "running" /\ trusting = None

-----------------------------------------------------------------------------
(* Announcements.                                                          *)

\* Mutant: a discovered identity becomes a contact at once.
AnnouncementReceivedAdds(i) ==
    /\ Ready
    /\ discovered' = discovered \cup {i}
    /\ contacts' = [contacts EXCEPT ![i] = IF @ = None THEN NoAlias ELSE @]
    /\ UNCHANGED <<sessions, trusting, orchestrator, cut>>

\* handle(bundle_announcement_received): our own announcement comes back too.
AnnouncementReceived(i) ==
    /\ Ready
    /\ discovered' = discovered \cup {i}
    /\ UNCHANGED <<contacts, sessions, trusting, orchestrator, cut>>

\* handle(bundle_announcement_removed)
AnnouncementRemoved(i) ==
    /\ Ready
    /\ discovered' = discovered \ {i}
    /\ UNCHANGED <<contacts, sessions, trusting, orchestrator, cut>>

\* generate_prekey_bundle_announcement writes our own row, whatever it held.
\* Its coroutine may run after the loop that spawned it has ended.
PublishSelf ==
    /\ trusting = None
    /\ Write(Me, SelfAlias)
    /\ UNCHANGED <<sessions, discovered, trusting, orchestrator, cut>>

-----------------------------------------------------------------------------
(* /trust                                                                  *)

\* Mutant: the alias is written without looking who has it.
AssignUnchecked(i, alias) ==
    /\ Write(i, alias)
    /\ UNCHANGED orchestrator

\* assign_contact_alias: the first row with the alias decides.  The refusal is
\* an exception nothing in the orchestrator's run loop catches.
Assign(i, alias) ==
    \/ /\ Holders(alias) = {} \/ i \in Holders(alias)
       /\ Write(i, alias)
       /\ UNCHANGED orchestrator
    \/ /\ Holders(alias) \ {i} # {}
       /\ orchestrator' = "ended"
       /\ UNCHANGED contacts

\* The contact exists: only the alias changes, there is no session set up.
TrustKnown(name, alias) ==
    /\ Ready
    /\ \E i \in Lookup(name) :
          IF alias = NoAlias THEN UNCHANGED <<contacts, orchestrator>> ELSE Assign(i, alias)
    /\ UNCHANGED <<sessions, discovered, trusting, cut>>

\* Mutant: the session is set up without a contact row.
TrustWithoutRow(p, alias) ==
    /\ Ready
    /\ ~Known(p)
    /\ p \in discovered
    /\ trusting' = [peer |-> p, alias |-> alias]
    /\ UNCHANGED <<contacts, sessions, discovered, orchestrator, cut>>

\* add_contact_and_establish_session, first statement: the row without alias.
TrustDiscovered(p, alias) ==
    /\ Ready
    /\ ~Known(p)
    /\ p \in discovered
    /\ Write(p, NoAlias)
    /\ trusting' = [peer |-> p, alias |-> alias]
    /\ UNCHANGED <<sessions, discovered, orchestrator, cut>>

\* The bundle sets up the session, then the alias is assigned.
Establish ==
    /\ trusting # None
    /\ sessions' = sessions \cup {trusting.peer}
    /\ cut' = cut \ {trusting.peer}
    /\ IF trusting.alias = NoAlias
       THEN UNCHANGED <<contacts, orchestrator>>
       ELSE Assign(trusting.peer, trusting.alias)
    /\ trusting' = None
    /\ UNCHANGED discovered

\* libsignal refuses the bundle: the row stays and the exception ends the loop.
EstablishFails ==
    /\ trusting # None
    /\ cut' = cut \cup {trusting.peer}
    /\ orchestrator' = "ended"
    /\ trusting' = None
    /\ UNCHANGED <<contacts, sessions, discovered>>

\* Our own bundle is refused before anything is written.
TrustOwnBundle ==
    /\ Ready
    /\ ~Known(Me)
    /\ Me \in discovered
    /\ orchestrator' = "ended"
    /\ UNCHANGED <<contacts, sessions, discovered, trusting, cut>>

\* A restart keeps the tables and nothing else.  "unfinished" are the contacts
\* whose session the end of the process cut off.
ContactsRestart(unfinished) ==
    /\ cut' = cut \cup unfinished
    /\ discovered' = {}
    /\ trusting' = None
    /\ orchestrator' = "running"
    /\ UNCHANGED <<contacts, sessions>>

-----------------------------------------------------------------------------
\* The types of the table and of the orchestrator's state.
ContactsTypeOK ==
    /\ contacts \in [Identities -> Aliases \cup {NoAlias, None}]
    /\ sessions \subseteq Peers
    /\ discovered \subseteq Identities
    /\ trusting \in {None} \cup [peer : Peers, alias : Aliases \cup {NoAlias}]
    /\ orchestrator \in {"running", "ended"}
    /\ cut \subseteq Peers
=============================================================================
