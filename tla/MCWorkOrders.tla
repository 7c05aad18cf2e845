---------------------------- MODULE MCWorkOrders ----------------------------
(* Instances of WorkOrders for TLC: the requests, caps and windows of each  *)
(* configuration.                                                           *)
EXTENDS WorkOrders, TLC

Request(kind, slot, instance, piece, item, capped) ==
  [kind |-> kind, slot |-> slot, instance |-> instance, piece |-> piece,
   item |-> item, capped |-> capped]

\* An order that publishes a piece and stands on no slot, also one of a piece
\* that does not exist, and a measure order.
LooseSpecs ==
  {Request("post", Null, None, p, Null, Null) : p \in PieceIds}
    \cup {Request("measure", Null, None, Null, Null, Null)}

\* Warm-up orders that count against the slot's cap and earn a readiness
\* item, for the slot's account or for its first one by name.
CappedSpecs ==
  {Request("warmup", s, i, Null, item, a) :
     s \in Slots, i \in 0 .. 1, item \in Items, a \in Actions}

AnyHour == [s \in Slots |-> {}]

\* Only a window that ends before it starts: the slot is open at every hour,
\* midnight included.
Backwards == [s \in Slots |-> {<<1, 0>>}]

NoCaps == [s \in Slots |-> [a \in Actions |-> Null]]
OneADay == [s \in Slots |-> [a \in Actions |-> 1]]

\* A row that may be cut short is not exchanged for one that may not.
Symmetry ==
  Permutations(Orders \cap Fragile) \cup Permutations(Orders \ Fragile)
    \cup Permutations(Items) \cup Permutations(Pieces) \cup Permutations(Bodies)
=============================================================================
