----------------------------- MODULE MCStorages -----------------------------
(***************************************************************************)
(* Storages for TLC: two addresses, two ids, two records made in two       *)
(* different seconds, and a time asked for that falls within the second of *)
(* the later record.                                                       *)
(***************************************************************************)
EXTENDS Storages, TLC

CONSTANTS a1, a2, early, late

MCCreatedAt == (early :> 1) @@ (late :> 2)

\* The last call and its answer decide nothing, so states that differ in
\* them alone have the same successors.
View == <<kind, writes, data, status>>

Symmetry == Permutations(Addresses)
=============================================================================
