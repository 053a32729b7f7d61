--------------------------- MODULE MCLiveExecution ---------------------------
(* A small broker for TLC: two orders that do not fit the envelope together. *)
EXTENDS LiveExecution, TLC
CONSTANTS Price
MCNotional == [o \in Orders |-> Price]
Symmetry == Permutations(Orders)
=============================================================================
