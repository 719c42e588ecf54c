---------------------------- MODULE MCFreshness ----------------------------
(* Small instances of module Freshness.                                    *)
EXTENDS Freshness, TLC

\* Half-way below the threshold after half its shelf life.
MCGrades == {[score |-> 7999, life |-> 10]}

\* The grade, one that reaches the threshold exactly, and scores between two hundredths.
MCQueries == {[score |-> 79990, life |-> 10], [score |-> 64000, life |-> 8],
              [score |-> 50004, life |-> 4], [score |-> 39995, life |-> 3]}

\* What doubles make of all the results half-way there are here: 79.99 after five of
\* ten days is 39.99, 39.995 is 39.99, and 4 pesewas at 37.50 are 1.
MCDown == {<<79990, 5, 10>>, <<39995, 0, 3>>, <<4, 37500>>}

MCPrices == {1, 4, 1250}

Symmetry == Permutations(Servers)
=============================================================================
