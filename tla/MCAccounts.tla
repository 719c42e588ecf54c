----------------------------- MODULE MCAccounts -----------------------------
(* Small instances of module Accounts.                                     *)
EXTENDS Accounts, TLC

Symmetry == Permutations(Requests) \cup Permutations(Admins)
=============================================================================
