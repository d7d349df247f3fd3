----------------------------- MODULE MCRuntime ------------------------------
(***************************************************************************)
(* Answers for TLC: no row, the right one, a wrong one, the right one      *)
(* beside a wrong one, and the right one twice.                            *)
(***************************************************************************)
EXTENDS Runtime

Rows(right, wrong) ==
  { << >>, << right >>, << right, right >> }
    \cup UNION { { << w >>, << w, right >> } : w \in wrong }

Info(account, type) == [account |-> account, type |-> type]
AllInfos == Rows(Info("bound", "security"), { Info("other", "security"), Info("bound", "credit") })

Status(account, status) == [account |-> account, type |-> "security", status |-> status]
AllStatuses == Rows(Status("bound", "OK"), { Status("other", "OK"), Status("bound", "bad") })

=============================================================================
