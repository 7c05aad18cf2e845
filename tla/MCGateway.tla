------------------------------ MODULE MCGateway ------------------------------
(* Instances of Gateway for TLC. *)
EXTENDS Gateway

CONSTANTS brand, claims

BrandThenClaims == <<brand, claims>>
OnlyBrand == <<brand>>

Symmetry == Permutations(Projects) \cup Permutations(Sessions) \cup Permutations(Calls)
=============================================================================
