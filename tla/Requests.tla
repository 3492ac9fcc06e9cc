------------------------------ MODULE Requests ------------------------------
(***************************************************************************)
(* What request_tracker promises to a coroutine that awaits async_track    *)
(* (lib/nostr/include/nostr/request_tracker.hpp): an open request ends     *)
(* exactly once; it ends as answered, with the response that was matched   *)
(* to it, when a response was matched in time, and as timed out only when  *)
(* none was.  RequestTracker is shown to implement this specification.     *)
(***************************************************************************)
CONSTANTS
    Waiters,     \* the calls of async_track
    Responses,   \* what a relay can answer
    NoAnswer     \* no response was matched to the request so far

VARIABLES
    phase,       \* phase[w]: idle, open, answered or timedout
    answer       \* answer[w]: the response matched to w, or NoAnswer

vars == <<phase, answer>>

Init ==
    /\ phase = [w \in Waiters |-> "idle"]
    /\ answer = [w \in Waiters |-> NoAnswer]

Open(w) ==
    /\ phase[w] = "idle"
    /\ phase' = [phase EXCEPT ![w] = "open"]
    /\ UNCHANGED answer

\* A response is matched to an open request, once.
Match(w, v) ==
    /\ phase[w] = "open"
    /\ answer[w] = NoAnswer
    /\ answer' = [answer EXCEPT ![w] = v]
    /\ UNCHANGED phase

Finish(w) ==
    /\ phase[w] = "open"
    /\ phase' = [phase EXCEPT ![w] = IF answer[w] = NoAnswer THEN "timedout"
                                                             ELSE "answered"]
    /\ UNCHANGED answer

Next == \E w \in Waiters : Open(w) \/ (\E v \in Responses : Match(w, v)) \/ Finish(w)

Spec == Init /\ [][Next]_vars

FairSpec == Spec /\ \A w \in Waiters : WF_vars(Finish(w))
=============================================================================
