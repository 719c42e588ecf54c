------------------------------ MODULE MCOutbox ------------------------------
(* Small instances of module Outbox.                                       *)
EXTENDS Outbox

\* One worker fails once, the others do not.
OneFailure ==
  LET unlucky == CHOOSE w \in Workers : TRUE
  IN  [w \in Workers |-> IF w = unlucky THEN 1 ELSE 0]
=============================================================================
