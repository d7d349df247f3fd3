-------------------------- MODULE MachineVerifier ---------------------------
(***************************************************************************)
(* verify_state_machine() (verifier.py), which every session runs when it  *)
(* opens: the exploration of the execution machine from the initial        *)
(* snapshot.  Each edge of the explored graph is a step, so the behaviours *)
(* are its paths, and "edge" is the entry the code adds to                 *)
(* reached_declared_edges for it.                                          *)
(***************************************************************************)
EXTENDS ExecutionMachine

VARIABLE edge         \* <<state, event>> of the transition just explored

VerifierInit == Init /\ edge = << >>

Explore(event) ==
  /\ Step(event)
  /\ edge' = << snapshot.state, event >>

VerifierNext == \E event \in TradeEvent : Explore(event)

=============================================================================
