-------------------------- MODULE MCRequestTracker --------------------------
(* An instance of RequestTracker in which ids are shared.                  *)
EXTENDS RequestTracker, TLC

CONSTANTS a1, a2, a3, c1, i1, i2

\* Two events published within the same second have the same id, under which a
\* callback request is tracked too; a subscription has an id of its own.
SharedId == (a1 :> i1) @@ (a2 :> i1) @@ (a3 :> i2) @@ (c1 :> i1)
=============================================================================
