------------------------------ MODULE MCEscrow ------------------------------
(* Instances of Escrow for TLC. *)
EXTENDS Escrow, TLC

\* Requests, orders, buyers and disputes are interchangeable.
Symmetry == Permutations(Requests) \cup Permutations(Orders)
              \cup Permutations(Buyers) \cup Permutations(Disputes)
=============================================================================
