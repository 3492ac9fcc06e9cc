---------------------------- MODULE MCRelayLink -----------------------------
(* Instances of RelayLink: requests as model values.                       *)
EXTENDS RelayLink, TLC

CONSTANTS c1, c2, s1, s2, s3, s4

Symmetry == Permutations(Commands) \cup Permutations(Spawns)

\* A behaviour has a second connection and a query, or requests of the user.
InScope == issued.requests = {} \/ (issued.connect <= 1 /\ issued.query = 0)
=============================================================================
