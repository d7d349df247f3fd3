--------------------------- MODULE MCPlainSession ---------------------------
(***************************************************************************)
(* One execution and two requests of it.                                   *)
(***************************************************************************)
EXTENDS PlainSession

CONSTANTS e1, r1, r2

OneOwner == [r \in Request |-> e1]

\* A cancel request is never refused once the broker has it, so that every
\* order reaches a final status.
Finishing ==
  AllMoves \ { << "REPORTED_CANCEL", "REPORTED" >>, << "PARTSUCC_CANCEL", "PART_SUCC" >> }

\* Every write may fail but the one of the broker order id.
AllButOrderId == WriteSites \ { "persistId" }

=============================================================================
