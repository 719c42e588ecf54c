----------------------------- MODULE MCProfiles -----------------------------
(* Small instances of module Profiles.                                     *)
EXTENDS Profiles, TLC

Symmetry == Permutations(Requests) \cup Permutations(Users) \cup Permutations(Keys)
=============================================================================
