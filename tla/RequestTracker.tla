--------------------------- MODULE RequestTracker ---------------------------
(***************************************************************************)
(* nostr::request_tracker: pending requests by event id, answered by       *)
(* resolve, ended by a timer.  Every action is one handler run by the      *)
(* single thread of the io_context: a call of the tracker from another     *)
(* handler, the expiry of a timer (which only queues its completion), the  *)
(* completion handler of a callback request's timer, or the resumption of  *)
(* a coroutine suspended in async_track.  Between a timer's expiry and its *)
(* completion other handlers may run; that gap is where the races are.     *)
(***************************************************************************)
EXTENDS Naturals, FiniteSets

CONSTANTS
    Awaits,      \* calls of async_track (coroutines)
    Calls,       \* calls of track (callbacks)
    Ids,         \* event and subscription ids
    IdOf,        \* the id a request is tracked under
    EoseIds,     \* the ids awaited with ResponseType = eose (subscription ids)
    None         \* no request, no response

Requests == Awaits \cup Calls

\* resolve's instantiations: protocol::ok with its accepted flag, protocol::eose.
OkResponses == {"accepted", "rejected"}
Responses == OkResponses \cup {"eose"}

ASSUME RequestsAssumption ==
    /\ Awaits \cap Calls = {}
    /\ None \notin Requests
    /\ None \notin Responses
    /\ IdOf \in [Requests -> Ids]
    /\ EoseIds \subseteq Ids
    /\ \A c \in Calls : IdOf[c] \notin EoseIds

VARIABLES
    pending,     \* pending_: the request whose callback is stored under an id
    status,      \* idle, waiting, and for a coroutine returned or thrown
    timer,       \* the timer each request waits on
    result,      \* the response given to the request's callback
    invoked,     \* how often the request's callback ran
    heard        \* history: "tracked" from the call on, "heard" once resolve was
                 \* called with a response to it before its timer expired

vars == <<pending, status, timer, result, invoked, heard>>

Statuses == {"idle", "waiting", "done", "timedout"}

\* off: no wait outstanding.  armed: waiting.  expired, aborted: the completion
\* is queued, with no error or with operation_aborted.
TimerStates == {"off", "armed", "expired", "aborted"}

TypeOK ==
    /\ pending \in [Ids -> Requests \cup {None}]
    /\ status \in [Requests -> Statuses]
    /\ timer \in [Requests -> TimerStates]
    /\ result \in [Requests -> Responses \cup {None}]
    /\ invoked \in [Requests -> Nat]
    /\ heard \in [Requests -> {"untracked", "tracked", "heard"}]

Init ==
    /\ pending = [i \in Ids |-> None]
    /\ status = [r \in Requests |-> "idle"]
    /\ timer = [r \in Requests |-> "off"]
    /\ result = [r \in Requests |-> None]
    /\ invoked = [r \in Requests |-> 0]
    /\ heard = [r \in Requests |-> "untracked"]

-----------------------------------------------------------------------------
(* Helpers.                                                                *)

\* any_cast in the stored callback: track and async_track<ok> take an ok,
\* async_track<eose> takes an eose; anything else throws bad_any_cast.
Accepts(r, v) == (v = "eose") <=> (IdOf[r] \in EoseIds)

\* The timers after the entry under id i left pending_: a callback request's
\* timer is owned by its entry, so it is destroyed and its wait is cancelled.
\* A coroutine's entry owns only the dummy timer, on which nobody waits.
Released(tm, i) ==
    [r \in Requests |->
        IF r \in Calls /\ pending[i] = r /\ tm[r] = "armed" THEN "off" ELSE tm[r]]

\* Mutant: the cancel signal is never emitted.
EmitNothing(tm, r) == tm

\* cancel_signal.emit: aborts the coroutine's wait if it is still outstanding.
Emit(tm, r) ==
    IF r \in Awaits /\ tm[r] = "armed" THEN [tm EXCEPT ![r] = "aborted"] ELSE tm

\* Mutant: the entry is left in pending_.
InvokeOnly(r, v) ==
    /\ result' = [result EXCEPT ![r] = v]
    /\ invoked' = [invoked EXCEPT ![r] = @ + 1]
    /\ status' = IF r \in Calls THEN [status EXCEPT ![r] = "done"] ELSE status
    /\ UNCHANGED pending

\* The stored callback of r runs with response v (resolve, handle_timeout)
\* and its entry is erased.
InvokeAndErase(r, v) ==
    /\ result' = [result EXCEPT ![r] = v]
    /\ invoked' = [invoked EXCEPT ![r] = @ + 1]
    /\ status' = IF r \in Calls THEN [status EXCEPT ![r] = "done"] ELSE status
    /\ pending' = [pending EXCEPT ![IdOf[r]] = None]

\* History: every request tracked under i that is still waiting hears v.
Hear(i, v) ==
    heard' = [r \in Requests |->
                IF /\ heard[r] = "tracked" /\ timer[r] = "armed"
                   /\ IdOf[r] = i /\ Accepts(r, v)
                THEN "heard" ELSE heard[r]]

-----------------------------------------------------------------------------
(* Operations.                                                             *)

\* track: start the timer, store the callback.  An entry already stored under
\* the id is replaced, and the timer it owned is destroyed.
Track(r) ==
    /\ r \in Calls
    /\ status[r] = "idle"
    /\ status' = [status EXCEPT ![r] = "waiting"]
    /\ timer' = [Released(timer, IdOf[r]) EXCEPT ![r] = "armed"]
    /\ pending' = [pending EXCEPT ![IdOf[r]] = r]
    /\ heard' = [heard EXCEPT ![r] = "tracked"]
    /\ UNCHANGED <<result, invoked>>

\* Mutant: the coroutine's timer is not started.
AsyncTrackNoTimer(r) ==
    /\ r \in Awaits
    /\ status[r] = "idle"
    /\ status' = [status EXCEPT ![r] = "waiting"]
    /\ pending' = [pending EXCEPT ![IdOf[r]] = r]
    /\ heard' = [heard EXCEPT ![r] = "tracked"]
    /\ UNCHANGED <<timer, result, invoked>>

\* async_track up to its co_await.
AsyncTrack(r) ==
    /\ r \in Awaits
    /\ status[r] = "idle"
    /\ status' = [status EXCEPT ![r] = "waiting"]
    /\ timer' = [Released(timer, IdOf[r]) EXCEPT ![r] = "armed"]
    /\ pending' = [pending EXCEPT ![IdOf[r]] = r]
    /\ heard' = [heard EXCEPT ![r] = "tracked"]
    /\ UNCHANGED <<result, invoked>>

\* A timeout elapses; the completion of the wait is queued.
Expire(r) ==
    /\ timer[r] = "armed"
    /\ timer' = [timer EXCEPT ![r] = "expired"]
    /\ UNCHANGED <<pending, status, result, invoked, heard>>

\* resolve(i, v) when an entry is found and the response has its type.
ResolveMatch(i, v) ==
    LET r == pending[i] IN
    /\ r # None
    /\ Accepts(r, v)
    /\ InvokeAndErase(r, v)
    /\ timer' = Emit(Released(timer, i), r)
    /\ Hear(i, v)

\* resolve(i, v) when nothing is pending under i: the response is dropped.
ResolveMiss(i, v) ==
    /\ pending[i] = None
    /\ Hear(i, v)
    /\ UNCHANGED <<pending, status, timer, result, invoked>>

\* resolve(i, v) when the response has the wrong type: the entry's timer is
\* cancelled, then the callback throws and the entry stays.
ResolveMismatch(i, v) ==
    LET r == pending[i] IN
    /\ r # None
    /\ ~Accepts(r, v)
    /\ timer' = Released(timer, i)
    /\ UNCHANGED <<pending, status, result, invoked, heard>>

\* The timer handler of track: handle_timeout(IdOf[r]) answers whatever entry
\* is now stored under the id with a rejected ok.
HandleTimeout(r) ==
    LET i == IdOf[r]
        e == pending[i]
        fired == [timer EXCEPT ![r] = "off"] IN
    /\ r \in Calls
    /\ timer[r] = "expired"
    /\ \/ /\ e = None
          /\ timer' = fired
          /\ UNCHANGED <<pending, status, result, invoked, heard>>
       \/ /\ e # None
          /\ InvokeAndErase(e, "rejected")
          /\ timer' = Emit(Released(fired, i), e)
          /\ UNCHANGED heard

\* Mutant: the entry is not erased on the way out.
ResumeKeepsEntry(r) ==
    /\ r \in Awaits
    /\ timer[r] \in {"expired", "aborted"}
    /\ timer' = [timer EXCEPT ![r] = "off"]
    /\ status' = [status EXCEPT ![r] = IF timer[r] = "aborted" THEN "done" ELSE "timedout"]
    /\ UNCHANGED <<pending, result, invoked, heard>>

\* Mutant: the error code of the wait is not looked at.
ResumeReturns(r) ==
    /\ r \in Awaits
    /\ timer[r] \in {"expired", "aborted"}
    /\ pending' = [pending EXCEPT ![IdOf[r]] = None]
    /\ timer' = [Released(timer, IdOf[r]) EXCEPT ![r] = "off"]
    /\ status' = [status EXCEPT ![r] = "done"]
    /\ UNCHANGED <<result, invoked, heard>>

\* A coroutine resumes from its co_await: it erases the entry under its id and
\* returns the response if the wait was aborted, otherwise throws.
Resume(r) ==
    /\ r \in Awaits
    /\ timer[r] \in {"expired", "aborted"}
    /\ pending' = [pending EXCEPT ![IdOf[r]] = None]
    /\ timer' = [Released(timer, IdOf[r]) EXCEPT ![r] = "off"]
    /\ status' = [status EXCEPT ![r] = IF timer[r] = "aborted" THEN "done"
                                                               ELSE "timedout"]
    /\ UNCHANGED <<result, invoked, heard>>

\* cancel_all_pending: cancel the entries' timers and forget the entries.
CancelAllPending ==
    /\ pending' = [i \in Ids |-> None]
    /\ timer' = [r \in Requests |->
                    IF r \in Calls /\ pending[IdOf[r]] = r /\ timer[r] = "armed"
                    THEN "off" ELSE timer[r]]
    /\ heard' = [r \in Requests |->
                    IF heard[r] = "tracked" THEN "untracked" ELSE heard[r]]
    /\ UNCHANGED <<status, result, invoked>>

Next ==
    \/ \E r \in Requests : Track(r) \/ AsyncTrack(r) \/ Expire(r)
    \/ \E r \in Requests : HandleTimeout(r) \/ Resume(r)
    \/ \E i \in Ids, v \in Responses :
          ResolveMatch(i, v) \/ ResolveMiss(i, v) \/ ResolveMismatch(i, v)
    \/ CancelAllPending

Spec == Init /\ [][Next]_vars

\* The io_context runs every queued completion, and timers do expire.
Fairness == \A r \in Requests : WF_vars(Expire(r) \/ HandleTimeout(r) \/ Resume(r))

FairSpec == Spec /\ Fairness

-----------------------------------------------------------------------------
(* Properties.                                                             *)

\* No stored callback outlives its request: the callback async_track stores
\* refers to the cancel_signal in the coroutine's frame, so its entry must be
\* gone before the coroutine leaves, whichever of resolve, a timeout, another
\* request with the same id or cancel_all_pending came first.
LiveCallback ==
    \A i \in Ids : LET r == pending[i] IN
        r # None => /\ IdOf[r] = i
                    /\ status[r] = "waiting"
                    /\ r \in Awaits => timer[r] \in {"armed", "expired"}

\* A request's callback runs at most once, although resolve, the timer of a
\* callback request and the timer of an older request with the same id all
\* call it.
InvokedOnce == \A r \in Requests : invoked[r] <= 1

\* A coroutine returns from async_track only with a response of the type it
\* awaits, that its own callback was given.
ReturnsResponse ==
    \A r \in Awaits : status[r] = "done" =>
        invoked[r] = 1 /\ result[r] \in Responses /\ Accepts(r, result[r])

\* The strengthening that makes the three invariants above inductive: how the
\* status, the timer and the callback of one request go together.
AwaitStates ==
    \A r \in Awaits :
        /\ status[r] = "idle" => invoked[r] = 0
        /\ status[r] = "waiting" <=> timer[r] # "off"
        /\ timer[r] = "armed" => invoked[r] = 0
        /\ timer[r] = "aborted" \/ status[r] = "done" =>
              invoked[r] = 1 /\ result[r] \in Responses /\ Accepts(r, result[r])

CallStates ==
    \A r \in Calls :
        /\ status[r] = "idle" => timer[r] = "off"
        /\ timer[r] # "aborted"
        /\ status[r] \in {"idle", "waiting"} => invoked[r] = 0

PendingNotInvoked == \A i \in Ids : pending[i] # None => invoked[pending[i]] = 0

IInv ==
    /\ TypeOK
    /\ LiveCallback
    /\ InvokedOnce
    /\ AwaitStates
    /\ CallStates
    /\ PendingNotInvoked

\* No other request is tracked under the id of r.
OwnId(r) == \A s \in Requests : IdOf[s] = IdOf[r] => s = r

\* A request that has its id to itself and that resolve was called for before
\* its timer expired does not end as "Request timeout", whatever happens to the
\* others and unless cancel_all_pending came between: "Tracks pending Nostr
\* requests and matches them with responses" (line 15).
AnsweredIsReported ==
    \A r \in Awaits : OwnId(r) /\ heard[r] = "heard" => status[r] # "timedout"

\* What makes it inductive: a tracked request whose timer runs still has its
\* entry, and one that was heard was aborted.
HeardStates ==
    \A r \in Awaits : OwnId(r) =>
        /\ status[r] = "idle" => heard[r] = "untracked"
        /\ heard[r] = "tracked" /\ timer[r] = "armed" => pending[IdOf[r]] = r
        /\ heard[r] = "heard" => timer[r] = "aborted" \/ status[r] = "done"

\* Every awaited request ends, answered or not: the coroutines of the session
\* orchestrator never stay suspended in async_track.
AwaitEnds ==
    \A r \in Awaits : status[r] = "waiting" ~> status[r] \in {"done", "timedout"}

\* The abstract request a call of async_track implements.  A response counts
\* as matched from the moment it aborts the wait.
Abstract == INSTANCE Requests WITH
    Waiters <- Awaits,
    NoAnswer <- None,
    phase <- [r \in Awaits |->
                CASE status[r] = "idle" -> "idle"
                  [] status[r] = "waiting" -> "open"
                  [] status[r] = "done" -> "answered"
                  [] OTHER -> "timedout"],
    answer <- [r \in Awaits |->
                IF timer[r] = "aborted" \/ status[r] = "done" THEN result[r] ELSE None]

\* async_track keeps the promise of module Requests, its fairness included.
ImplementsRequests == Abstract!FairSpec
=============================================================================
