----------------------------- MODULE MCDispatch -----------------------------
(* Instances of Dispatch for TLC. *)
EXTENDS Dispatch, TLC

\* Drivers, request handlers and workers are interchangeable.
Symmetry == Permutations(Drivers) \cup Permutations(Requests)
              \cup Permutations(Workers)
=============================================================================
