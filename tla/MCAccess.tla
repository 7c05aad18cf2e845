------------------------------ MODULE MCAccess ------------------------------
(* Instances of Access for TLC. *)
EXTENDS Access, TLC

CONSTANTS brand, site

TokenChecks == {Check("manifest"), Check("no token"), Check("tampered")}

TokensFirst == <<TokenChecks, Suite \ TokenChecks>>

Conformant ==
  [up |-> TRUE, contract |-> TRUE, verifies |-> "its own", states |-> [r \in {brand} |-> "ok"],
   declaresMetrics |-> FALSE, metrics |-> "absent", cursors |-> <<1, 2>>]

\* A conformant project that is up or down.
BehavioursOf == [d \in Domains |-> {Conformant, [Conformant EXCEPT !.up = FALSE]}]

Symmetry == Permutations(Calls) \cup Permutations(Clients) \cup Permutations(Browsers)
=============================================================================
