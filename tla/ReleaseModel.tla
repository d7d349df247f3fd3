---------------------------- MODULE ReleaseModel ----------------------------
(***************************************************************************)
(* verify_release_model() (verifier.py): the two explorations a release    *)
(* must pass, that of one execution machine and that of the processes that *)
(* share an account.  They share nothing; a behaviour is a path of either. *)
(***************************************************************************)
EXTENDS MachineVerifier, CoordinationProduct

VARIABLE stage        \* which of the two explorations

machineVars == << snapshot, edge >>

ReleaseInit ==
  /\ stage \in { "machine", "product" }
  /\ VerifierInit /\ ProductInit

ReleaseNext ==
  /\ UNCHANGED stage
  /\ \/ stage = "machine" /\ VerifierNext /\ UNCHANGED productVars
     \/ stage = "product" /\ ProductNext /\ UNCHANGED machineVars

ReleaseSpec == ReleaseInit /\ [][ReleaseNext]_<< stage, machineVars, productVars >>

=============================================================================
