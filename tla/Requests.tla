------------------------------ MODULE Requests ------------------------------
(***************************************************************************)
(* The executions of one account and the requests they may submit.  A      *)
(* request stands for an ExecutionRequest (domain.py:153) together with    *)
(* the execution that submits it: one client_order_id and one              *)
(* order_remark, unique on the account.                                    *)
(***************************************************************************)
CONSTANTS Exec,           \* execution ids: one journal file and one mutex each
          Request,        \* requests
          Owner,          \* request -> the execution that may submit it
          None            \* the absent value

ASSUME RequestAssumption ==
  /\ None \notin Request
  /\ Owner \in [Request -> Exec]

=============================================================================
