------------------------ MODULE RequestTrackerProofs ------------------------
(***************************************************************************)
(* Proofs about RequestTracker for any sets of requests and ids, ids       *)
(* shared or not: the invariants of stored callbacks, and that async_track *)
(* implements the safety part of module Requests.                          *)
(***************************************************************************)
EXTENDS RequestTracker, TLAPS

USE RequestsAssumption

\* A tracker with no pending request satisfies the inductive invariant.
LEMMA InitIInv == Init => IInv
  BY DEF Init, IInv, TypeOK, LiveCallback, InvokedOnce, AwaitStates, CallStates,
         PendingNotInvoked, Requests, Statuses, TimerStates

\* Every step of the tracker preserves the inductive invariant.
LEMMA NextIInv == IInv /\ [Next]_vars => IInv'
<1> SUFFICES ASSUME IInv, [Next]_vars PROVE IInv'
  OBVIOUS
<1> USE DEF IInv, TypeOK, LiveCallback, InvokedOnce, AwaitStates, CallStates,
            PendingNotInvoked, Requests, Statuses, TimerStates
<1>1. ASSUME NEW r \in Requests, Track(r) PROVE IInv'
  BY <1>1 DEF Track, Released
<1>2. ASSUME NEW r \in Requests, AsyncTrack(r) PROVE IInv'
  BY <1>2 DEF AsyncTrack, Released
<1>3. ASSUME NEW r \in Requests, Expire(r) PROVE IInv'
  BY <1>3 DEF Expire
<1>4. ASSUME NEW r \in Requests, HandleTimeout(r) PROVE IInv'
  <2>1. CASE pending[IdOf[r]] = None
    BY <1>4, <2>1 DEF HandleTimeout
  <2>2. CASE pending[IdOf[r]] # None
    <3>1. PICK e \in Requests : e = pending[IdOf[r]]
      BY <2>2
    <3>2. /\ IdOf[e] = IdOf[r]
          /\ status[e] = "waiting"
          /\ invoked[e] = 0
          /\ e \in Awaits => timer[e] \in {"armed", "expired"}
      BY <2>2, <3>1
    <3>3. /\ r \in Calls
          /\ timer[r] = "expired"
          /\ InvokeAndErase(e, "rejected")
          /\ timer' = Emit(Released([timer EXCEPT ![r] = "off"], IdOf[r]), e)
          /\ heard' = heard
      BY <1>4, <2>2, <3>1 DEF HandleTimeout
    <3>4. "rejected" \in Responses /\ Accepts(e, "rejected")
      BY <3>2, <3>3 DEF Accepts, Responses, OkResponses
    <3>5. /\ timer' \in [Requests -> TimerStates]
          /\ \A s \in Requests \ {r, e} : timer'[s] = timer[s]
          /\ e \in Calls => timer'[e] \in {"off", "expired"}
          /\ e \in Awaits => timer'[e] = IF timer[e] = "armed" THEN "aborted" ELSE timer[e]
          /\ timer'[r] = "off"
      BY <3>1, <3>3 DEF Released, Emit
    <3>6. /\ result' = [result EXCEPT ![e] = "rejected"]
          /\ invoked' = [invoked EXCEPT ![e] = 1]
          /\ status' = IF e \in Calls THEN [status EXCEPT ![e] = "done"] ELSE status
          /\ pending' = [pending EXCEPT ![IdOf[r]] = None]
      BY <3>2, <3>3 DEF InvokeAndErase
    <3>7. TypeOK'
      BY <3>3, <3>4, <3>5, <3>6
    <3>8. LiveCallback' /\ PendingNotInvoked'
      <4> SUFFICES ASSUME NEW i \in Ids, pending'[i] # None
                   PROVE  LET s == pending'[i] IN
                          /\ IdOf[s] = i /\ status'[s] = "waiting" /\ invoked'[s] = 0
                          /\ s \in Awaits => timer'[s] \in {"armed", "expired"}
        OBVIOUS
      <4>1. i # IdOf[r] /\ pending'[i] = pending[i]
        BY <3>6
      <4>2. PICK s \in Requests : s = pending[i]
        BY <4>1
      <4>3. s \notin {r, e}
        BY <3>2, <4>1, <4>2
      <4> QED
        BY <3>5, <3>6, <4>1, <4>2, <4>3
    <3>9. InvokedOnce'
      BY <3>6
    <3>10. AwaitStates'
      <4> SUFFICES ASSUME NEW s \in Awaits
                   PROVE  /\ status'[s] = "idle" => invoked'[s] = 0
                          /\ status'[s] = "waiting" <=> timer'[s] # "off"
                          /\ timer'[s] = "armed" => invoked'[s] = 0
                          /\ timer'[s] = "aborted" \/ status'[s] = "done" =>
                                /\ invoked'[s] = 1
                                /\ result'[s] \in Responses
                                /\ Accepts(s, result'[s])
        BY DEF Accepts
      <4>1. CASE s = e
        BY <3>2, <3>4, <3>5, <3>6, <4>1
      <4>2. CASE s # e
        <5>1. /\ status'[s] = status[s]
              /\ invoked'[s] = invoked[s]
              /\ result'[s] = result[s]
          BY <3>6, <4>2
        <5>2. timer'[s] = timer[s] \/ s = r
          BY <3>5, <4>2
        <5> QED
          BY <3>3, <3>5, <5>1, <5>2
      <4> QED
        BY <4>1, <4>2
    <3>11. CallStates'
      <4> SUFFICES ASSUME NEW s \in Calls
                   PROVE  /\ status'[s] = "idle" => timer'[s] = "off"
                          /\ timer'[s] # "aborted"
                          /\ status'[s] \in {"idle", "waiting"} => invoked'[s] = 0
        OBVIOUS
      <4>1. CASE s = e
        BY <3>2, <3>5, <3>6, <4>1
      <4>2. CASE s # e
        <5>1. /\ status'[s] = status[s]
              /\ invoked'[s] = invoked[s]
              /\ result'[s] = result[s]
          BY <3>6, <4>2
        <5>2. timer'[s] = timer[s] \/ s = r
          BY <3>5, <4>2
        <5> QED
          BY <3>3, <3>5, <5>1, <5>2
      <4> QED
        BY <4>1, <4>2
    <3> QED
      BY <3>7, <3>8, <3>9, <3>10, <3>11
  <2> QED
    BY <2>1, <2>2
<1>5. ASSUME NEW r \in Requests, Resume(r) PROVE IInv'
  BY <1>5 DEF Resume, Released
<1>6. ASSUME NEW i \in Ids, NEW v \in Responses, ResolveMatch(i, v) PROVE IInv'
  <2>1. PICK e \in Requests : e = pending[i]
    BY <1>6 DEF ResolveMatch
  <2>2. /\ IdOf[e] = i /\ status[e] = "waiting" /\ invoked[e] = 0
        /\ e \in Awaits => timer[e] \in {"armed", "expired"}
        /\ Accepts(e, v)
    BY <1>6, <2>1 DEF ResolveMatch
  <2>3. /\ result' = [result EXCEPT ![e] = v]
        /\ invoked' = [invoked EXCEPT ![e] = 1]
        /\ status' = IF e \in Calls THEN [status EXCEPT ![e] = "done"] ELSE status
        /\ pending' = [pending EXCEPT ![i] = None]
    BY <1>6, <2>1, <2>2 DEF ResolveMatch, InvokeAndErase
  <2>4. /\ timer' \in [Requests -> TimerStates]
        /\ \A s \in Requests \ {e} : timer'[s] = timer[s]
        /\ e \in Calls => timer'[e] \in {"off", "expired"}
        /\ e \in Awaits => timer'[e] = IF timer[e] = "armed" THEN "aborted" ELSE timer[e]
    BY <1>6, <2>1 DEF ResolveMatch, Released, Emit
  <2>5. TypeOK'
    BY <1>6, <2>3, <2>4 DEF ResolveMatch, Hear
  <2>6. LiveCallback' /\ PendingNotInvoked'
    BY <2>1, <2>2, <2>3, <2>4
  <2>7. InvokedOnce'
    BY <2>3
  <2>8. AwaitStates'
    BY <2>2, <2>3, <2>4 DEF Accepts
  <2>9. CallStates'
    BY <2>2, <2>3, <2>4
  <2> QED
    BY <2>5, <2>6, <2>7, <2>8, <2>9
<1>7. ASSUME NEW i \in Ids, NEW v \in Responses, ResolveMiss(i, v) PROVE IInv'
  BY <1>7 DEF ResolveMiss, Hear
<1>8. ASSUME NEW i \in Ids, NEW v \in Responses, ResolveMismatch(i, v) PROVE IInv'
  BY <1>8 DEF ResolveMismatch, Released
<1>9. CASE CancelAllPending
  BY <1>9 DEF CancelAllPending
<1>10. CASE UNCHANGED vars
  BY <1>10 DEF vars
<1> QED
  BY <1>1, <1>2, <1>3, <1>4, <1>5, <1>6, <1>7, <1>8, <1>9, <1>10 DEF Next

\* The inductive invariant holds in every state of the tracker.
LEMMA Inductive == Spec => []IInv
BY InitIInv, NextIInv, PTL DEF Spec

\* A stored callback belongs to a caller that still waits for it: resolve and
\* the timeout handlers never invoke one whose frame is gone (LiveCallback).
THEOREM CallbacksLive == Spec => []LiveCallback
<1>1. IInv => LiveCallback
  BY DEF IInv
<1> QED
  BY Inductive, <1>1, PTL

\* A callback is invoked at most once, although a response, a timeout and a
\* second request with the same id may all reach for it (InvokedOnce).
THEOREM CallbacksOnce == Spec => []InvokedOnce
<1>1. IInv => InvokedOnce
  BY DEF IInv
<1> QED
  BY Inductive, <1>1, PTL

\* A coroutine that async_track returns to has a response of the type it asked
\* for, never the unset result (ReturnsResponse).
THEOREM ReturnsWithResponse == Spec => []ReturnsResponse
<1>1. IInv => ReturnsResponse
  BY DEF IInv, AwaitStates, ReturnsResponse
<1> QED
  BY Inductive, <1>1, PTL

\* Every step preserves that a heard request with its own id was aborted.
LEMMA NextHeard ==
    ASSUME IInv, HeardStates, [Next]_vars
    PROVE  HeardStates'
<1> USE DEF TypeOK, Requests, Statuses, TimerStates, HeardStates, AwaitStates, OwnId
<1>0. TypeOK /\ LiveCallback /\ AwaitStates
  BY DEF IInv
<1>1. ASSUME NEW r \in Requests, Track(r) PROVE HeardStates'
  BY <1>0, <1>1 DEF Track, Released
<1>2. ASSUME NEW r \in Requests, AsyncTrack(r) PROVE HeardStates'
  BY <1>0, <1>2 DEF AsyncTrack, Released
<1>3. ASSUME NEW r \in Requests, Expire(r) PROVE HeardStates'
  BY <1>0, <1>3 DEF Expire
<1>4. ASSUME NEW r \in Requests, HandleTimeout(r) PROVE HeardStates'
  <2> DEFINE e == pending[IdOf[r]]
             fired == [timer EXCEPT ![r] = "off"]
  <2>1. r \in Calls /\ IdOf[r] \in Ids /\ e \in Requests \cup {None}
    BY <1>0, <1>4 DEF HandleTimeout
  <2>2. CASE e = None
    BY <1>0, <1>4, <2>1, <2>2 DEF HandleTimeout, InvokeAndErase
  <2>3. CASE e # None
    <3>1. e \in Requests /\ IdOf[e] = IdOf[r]
      BY <1>0, <2>1, <2>3 DEF LiveCallback
    <3>2. /\ InvokeAndErase(e, "rejected")
          /\ timer' = Emit(Released(fired, IdOf[r]), e)
          /\ heard' = heard
      BY <1>4, <2>3 DEF HandleTimeout
    <3>3. \A q \in Awaits : OwnId(q) => q # e /\ IdOf[q] # IdOf[r]
      BY <2>1, <3>1
    <3>4. \A q \in Awaits : q # e => timer'[q] = timer[q]
      BY <1>0, <2>1, <3>1, <3>2 DEF Emit, Released
    <3>5. \A q \in Awaits : q # e => status'[q] = status[q]
      BY <1>0, <3>1, <3>2 DEF InvokeAndErase
    <3>6. \A q \in Awaits : IdOf[q] # IdOf[r] => pending'[IdOf[q]] = pending[IdOf[q]]
      BY <1>0, <3>1, <3>2 DEF InvokeAndErase
    <3> HIDE DEF e, fired
    <3> SUFFICES ASSUME NEW q \in Awaits, OwnId(q)
                 PROVE  /\ status'[q] = "idle" => heard'[q] = "untracked"
                        /\ heard'[q] = "tracked" /\ timer'[q] = "armed" => pending'[IdOf[q]] = q
                        /\ heard'[q] = "heard" => timer'[q] = "aborted" \/ status'[q] = "done"
      BY Zenon
    <3>7. q # e /\ IdOf[q] # IdOf[r]
      BY <3>3
    <3>8. /\ timer'[q] = timer[q] /\ status'[q] = status[q] /\ heard'[q] = heard[q]
          /\ pending'[IdOf[q]] = pending[IdOf[q]]
      BY <3>2, <3>4, <3>5, <3>6, <3>7
    <3>9. /\ status[q] = "idle" => heard[q] = "untracked"
          /\ heard[q] = "tracked" /\ timer[q] = "armed" => pending[IdOf[q]] = q
          /\ heard[q] = "heard" => timer[q] = "aborted" \/ status[q] = "done"
      BY Zenon
    <3> QED
      BY <3>8, <3>9
  <2> QED
    BY <2>2, <2>3
<1>5. ASSUME NEW r \in Requests, Resume(r) PROVE HeardStates'
  BY <1>0, <1>5 DEF Resume, Released
<1>6. ASSUME NEW i \in Ids, NEW v \in Responses, ResolveMatch(i, v) PROVE HeardStates'
  BY <1>0, <1>6 DEF ResolveMatch, Released, Emit, InvokeAndErase, Hear, LiveCallback
<1>7. ASSUME NEW i \in Ids, NEW v \in Responses, ResolveMiss(i, v) PROVE HeardStates'
  BY <1>0, <1>7 DEF ResolveMiss, Hear
<1>8. ASSUME NEW i \in Ids, NEW v \in Responses, ResolveMismatch(i, v) PROVE HeardStates'
  BY <1>0, <1>8 DEF ResolveMismatch, Released
<1>9. CASE CancelAllPending
  BY <1>0, <1>9 DEF CancelAllPending
<1>10. CASE UNCHANGED vars
  BY <1>10 DEF vars
<1> QED
  BY <1>1, <1>2, <1>3, <1>4, <1>5, <1>6, <1>7, <1>8, <1>9, <1>10 DEF Next

\* A response that resolve is given before the timer of the request expires is
\* reported to the coroutine that has the id to itself, however many requests
\* share other ids.
THEOREM AnswersReported == Spec => []AnsweredIsReported
<1>1. Init => HeardStates
  BY DEF Init, HeardStates, Requests
<1>2. IInv /\ HeardStates /\ [Next]_vars => HeardStates'
  BY NextHeard
<1>3. IInv /\ HeardStates => AnsweredIsReported
  BY DEF IInv, HeardStates, AwaitStates, AnsweredIsReported
<1> QED
  BY InitIInv, NextIInv, <1>1, <1>2, <1>3, PTL DEF Spec

\* The steps of the tracker that leave the abstract request of every coroutine
\* as it is.
LEMMA Stutter ==
    ASSUME IInv,
           \A r \in Awaits : /\ status'[r] = status[r]
                             /\ timer'[r] = "aborted" <=> timer[r] = "aborted"
                             /\ timer[r] = "aborted" \/ status[r] = "done" => result'[r] = result[r]
    PROVE  UNCHANGED Abstract!vars
BY DEF Abstract!vars

\* A callback that runs aborts the wait of the coroutine it belongs to, unless
\* that wait had expired, and then the coroutine will throw all the same.
LEMMA InvokeSimulation ==
    ASSUME IInv, NEW e \in Requests, NEW v \in Responses,
           status[e] = "waiting",
           e \in Awaits => timer[e] \in {"armed", "expired"},
           InvokeAndErase(e, v),
           \A s \in Awaits : timer'[s] = IF s = e /\ timer[s] = "armed" THEN "aborted" ELSE timer[s]
    PROVE  [Abstract!Next]_(Abstract!vars)
<1>0. TypeOK /\ AwaitStates
  BY DEF IInv
<1>1. \A s \in Awaits : status'[s] = status[s] /\ (s # e => result'[s] = result[s])
  BY <1>0 DEF InvokeAndErase, TypeOK, Requests
<1>2. CASE e \in Awaits /\ timer[e] = "armed"
  <2>1. Abstract!Match(e, v)
    BY <1>0, <1>1, <1>2 DEF Abstract!Match, InvokeAndErase, TypeOK, Requests
  <2> QED
    BY <1>2, <2>1 DEF Abstract!Next
<1>3. CASE ~(e \in Awaits /\ timer[e] = "armed")
  BY <1>1, <1>3, Stutter
<1> QED
  BY <1>2, <1>3

\* Every step of the tracker is a step of the abstract requests or a stutter.
LEMMA StepSimulation == IInv /\ [Next]_vars => [Abstract!Next]_(Abstract!vars)
<1> SUFFICES ASSUME IInv, [Next]_vars PROVE [Abstract!Next]_(Abstract!vars)
  OBVIOUS
<1> USE DEF Requests, Statuses, TimerStates
<1>0. TypeOK /\ LiveCallback /\ AwaitStates /\ CallStates
  BY DEF IInv
<1>1. ASSUME NEW r \in Requests, Track(r) PROVE UNCHANGED Abstract!vars
  BY <1>0, <1>1, Stutter DEF Track, Released, TypeOK
<1>2. ASSUME NEW r \in Requests, AsyncTrack(r) PROVE Abstract!Open(r) /\ r \in Awaits
  <2>1. /\ r \in Awaits /\ status[r] = "idle" /\ status'[r] = "waiting"
        /\ result' = result
        /\ \A s \in Awaits \ {r} : status'[s] = status[s] /\ timer'[s] = timer[s]
        /\ timer'[r] = "armed" /\ timer[r] = "off"
    BY <1>0, <1>2 DEF AsyncTrack, Released, TypeOK, AwaitStates
  <2> QED
    BY <2>1 DEF Abstract!Open
<1>3. ASSUME NEW r \in Requests, Expire(r) PROVE UNCHANGED Abstract!vars
  BY <1>0, <1>3, Stutter DEF Expire, TypeOK
<1>4. ASSUME NEW r \in Requests, HandleTimeout(r) PROVE [Abstract!Next]_(Abstract!vars)
  <2>1. CASE pending[IdOf[r]] = None
    BY <1>0, <1>4, <2>1, Stutter DEF HandleTimeout, TypeOK
  <2>2. CASE pending[IdOf[r]] # None
    <3>1. PICK e \in Requests : e = pending[IdOf[r]]
      BY <1>0, <2>2 DEF TypeOK
    <3>2. r \in Calls /\ "rejected" \in Responses /\ InvokeAndErase(e, "rejected")
      BY <1>4, <2>2, <3>1 DEF HandleTimeout, Responses, OkResponses
    <3>3. timer' = Emit(Released([timer EXCEPT ![r] = "off"], IdOf[r]), e)
      BY <1>4, <2>2, <3>1 DEF HandleTimeout
    <3>4. \A s \in Awaits : timer'[s] = IF s = e /\ timer[s] = "armed" THEN "aborted" ELSE timer[s]
      BY <1>0, <3>1, <3>2, <3>3 DEF TypeOK, Released, Emit
    <3> QED
      BY <1>0, <2>2, <3>1, <3>2, <3>4, InvokeSimulation DEF LiveCallback
  <2> QED
    BY <2>1, <2>2
<1>5. ASSUME NEW r \in Requests, Resume(r) PROVE Abstract!Finish(r) /\ r \in Awaits
  <2>1. /\ r \in Awaits /\ status[r] = "waiting"
        /\ result' = result
        /\ \A s \in Awaits \ {r} : status'[s] = status[s] /\ timer'[s] = timer[s]
        /\ timer'[r] = "off"
    BY <1>0, <1>5 DEF Resume, Released, TypeOK, AwaitStates
  <2>2. CASE timer[r] = "aborted"
    <3>1. status'[r] = "done" /\ result[r] # None
      BY <1>0, <1>5, <2>1, <2>2 DEF Resume, TypeOK, AwaitStates
    <3> QED
      BY <2>1, <2>2, <3>1 DEF Abstract!Finish
  <2>3. CASE timer[r] # "aborted"
    <3>1. status'[r] = "timedout"
      BY <1>0, <1>5, <2>1, <2>3 DEF Resume, TypeOK
    <3> QED
      BY <2>1, <2>3, <3>1 DEF Abstract!Finish
  <2> QED
    BY <2>2, <2>3
<1>6. ASSUME NEW i \in Ids, NEW v \in Responses, ResolveMatch(i, v)
      PROVE  [Abstract!Next]_(Abstract!vars)
  <2>1. PICK e \in Requests : e = pending[i] /\ e # None
    BY <1>0, <1>6 DEF ResolveMatch, TypeOK
  <2>2. InvokeAndErase(e, v) /\ timer' = Emit(Released(timer, i), e)
    BY <1>6, <2>1 DEF ResolveMatch
  <2>3. \A s \in Awaits : timer'[s] = IF s = e /\ timer[s] = "armed" THEN "aborted" ELSE timer[s]
    BY <1>0, <2>1, <2>2 DEF TypeOK, Released, Emit
  <2> QED
    BY <1>0, <2>1, <2>2, <2>3, InvokeSimulation DEF LiveCallback
<1>7. ASSUME NEW i \in Ids, NEW v \in Responses, ResolveMiss(i, v) PROVE UNCHANGED Abstract!vars
  BY <1>7, Stutter DEF ResolveMiss
<1>8. ASSUME NEW i \in Ids, NEW v \in Responses, ResolveMismatch(i, v) PROVE UNCHANGED Abstract!vars
  BY <1>0, <1>8, Stutter DEF ResolveMismatch, Released, TypeOK
<1>9. CASE CancelAllPending
  BY <1>0, <1>9, Stutter DEF CancelAllPending, TypeOK
<1>10. CASE UNCHANGED vars
  BY <1>10, Stutter DEF vars
<1> QED
  BY <1>1, <1>2, <1>3, <1>4, <1>5, <1>6, <1>7, <1>8, <1>9, <1>10 DEF Next, Abstract!Next

\* async_track implements the promise of module Requests: it returns exactly
\* when a response was matched to it in time, and otherwise throws.
THEOREM RefinesRequests == Spec => Abstract!Spec
<1>1. Init => Abstract!Init
  BY DEF Init, Abstract!Init, Requests
<1> QED
  BY InitIInv, NextIInv, <1>1, StepSimulation, PTL DEF Spec, Abstract!Spec
=============================================================================
