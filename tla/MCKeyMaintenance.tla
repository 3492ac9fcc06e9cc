-------------------------- MODULE MCKeyMaintenance --------------------------
(* Instances of KeyMaintenance: publications and peers as model values.    *)
EXTENDS KeyMaintenance, TLC

CONSTANTS p1, p2, p3, q1, q2

Symmetry == Permutations(Publishes) \cup Permutations(Peers)

\* Where the two dimensions of the state meet they multiply, so a behaviour
\* either has peers and several publications, all within one instant, or
\* a clock that advances, one publication and no peer.
InScope ==
    \/ now = 0
    \/ /\ \A q \in Peers : peer[q].st = "none"
       /\ Cardinality({p \in Publishes : publish[p].co # "unused"}) <= 1
=============================================================================
