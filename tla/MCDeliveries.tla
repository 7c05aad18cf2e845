---------------------------- MODULE MCDeliveries ----------------------------
(* Instances of Deliveries for TLC. *)
EXTENDS Deliveries, TLC

CONSTANTS long, short, longBody, shortBody, otherBody

AnyHour == [s \in Slots |-> {}]
NoCaps == [s \in Slots |-> [a \in Actions |-> Null]]
OneADay == [s \in Slots |-> [a \in Actions |-> 1]]
EveryRule == [s \in Slots |-> Rules]

\* One permalink is a prefix of the other, so the body that holds the longer
\* one contains both as substrings.
Substrings ==
  [b \in Bodies |-> Links \cap (IF b = longBody THEN {long, short}
                               ELSE IF b = shortBody THEN {short} ELSE {})]

\* The system once every slot is filled with a ready account and every piece is
\* approved, before any order, bundle or delivery: a state DeliveriesInit leads
\* to without any of them.
StagedInit ==
  /\ slotStatus = [s \in Slots |-> "active"]
  /\ instances = [n \in 1 .. Cardinality(Slots) |->
       [slot |-> SetToSeq(Slots)[n], health |-> "healthy", archived |-> FALSE,
        replaces |-> None, evidence |-> Items]]
  /\ orders = [o \in Orders |-> AbsentOrder]
  /\ attempts = [o \in Orders |-> <<>>]
  /\ clock = [day |-> 1, minute |-> 0]
  /\ approvedPieces = Pieces
  /\ exports = <<>> /\ exported = {} /\ releases = {}
  /\ targets = [k \in Keys |-> AbsentTarget]
  /\ disclosed = [k \in Keys |-> {}]

StagedSpec == StagedInit /\ [][DeliveriesNext]_allVars

\* A row that may be cut short is not exchanged for one that may not.
Symmetry ==
  Permutations(Orders \cap Fragile) \cup Permutations(Orders \ Fragile)
    \cup Permutations(Keys \cap Fragile) \cup Permutations(Keys \ Fragile)
    \cup Permutations(Rules)
=============================================================================
