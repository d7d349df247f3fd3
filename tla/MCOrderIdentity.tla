-------------------------- MODULE MCOrderIdentity ---------------------------
(***************************************************************************)
(* Identities for TLC: three pairs of id and remark, one request that has  *)
(* a new id and an old remark and one the other way round.  Of others: a   *)
(* strategy that uses our remarks, manual orders with a remark of ours and *)
(* with another, and one that bears our remark and our name.               *)
(***************************************************************************)
EXTENDS OrderIdentity

Request(c, m) == [cid |-> c, remark |-> m, leg |-> "buy"]

AllRequests ==
  { Request("c1", "m1"), Request("c2", "m2"), Request("c3", "m3"),
    Request("c4", "m1"), Request("c1", "m4") }

AllStrangers ==
  { [remark |-> "m1", leg |-> "buy", name |-> "other"],
    [remark |-> "m2", leg |-> "sell", name |-> "other"],
    [remark |-> "m1", leg |-> "buy", name |-> ""],
    [remark |-> "m2", leg |-> "buy", name |-> OwnName],
    [remark |-> "manual", leg |-> "buy", name |-> ""] }

=============================================================================
