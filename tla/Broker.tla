------------------------------- MODULE Broker -------------------------------
(***************************************************************************)
(* MiniQMT as the adapter sees it: the orders the broker holds and what    *)
(* XtMiniQmtBrokerAdapter (miniqmt/adapter.py, miniqmt/status.py) turns    *)
(* its answers into.  The broker itself is external: an order moves on its *)
(* own, a submission that raised may still arrive, and a query may answer  *)
(* late or with fields taken at different moments.                         *)
(*                                                                         *)
(* Remarks are unique on the account, so a request also names its order.   *)
(***************************************************************************)
EXTENDS Naturals, Requests

CONSTANTS Lifecycle,      \* order moves the broker makes on its own
          Answering       \* kinds of answer a query may give, see Reports

VARIABLES orders,         \* request -> raw QMT status of its order
          placed          \* request -> number of times the broker took it

brokerVars == << orders, placed >>

(***************************************************************************)
(* Raw statuses (QmtOrderStatus).  NONE: the broker has never seen the     *)
(* order; IN_FLIGHT: the call raised but the order is on its way.          *)
(* An order is for two lots; Traded is the traded volume of each status.   *)
(***************************************************************************)
ACTIVE_RAW == { "UNREPORTED", "WAIT_REPORTING", "REPORTED", "REPORTED_CANCEL",
                "PARTSUCC_CANCEL", "PART_SUCC" }
FINAL_RAW  == { "PART_CANCEL", "CANCELED", "SUCCEEDED", "JUNK" }
RawStatus  == ACTIVE_RAW \cup FINAL_RAW \cup { "UNKNOWN" }
OrderState == ACTIVE_RAW \cup FINAL_RAW \cup { "NONE", "IN_FLIGHT" }

Lots == 2

Traded(raw) ==
  CASE raw \in { "PARTSUCC_CANCEL", "PART_CANCEL", "PART_SUCC" } -> 1
    [] raw = "SUCCEEDED" -> Lots
    [] OTHER -> 0

\* Every move a MiniQMT order can make without this program: reporting,
\* fills, junk, a cancel (ours or an operator's) completing or being refused.
AllMoves ==
  { << "IN_FLIGHT", "UNREPORTED" >>,
    << "UNREPORTED", "WAIT_REPORTING" >>, << "UNREPORTED", "REPORTED" >>,
    << "UNREPORTED", "JUNK" >>,           << "WAIT_REPORTING", "REPORTED" >>,
    << "REPORTED", "PART_SUCC" >>,        << "REPORTED", "SUCCEEDED" >>,
    << "REPORTED", "JUNK" >>,             << "REPORTED", "CANCELED" >>,
    << "REPORTED", "REPORTED_CANCEL" >>,  << "PART_SUCC", "SUCCEEDED" >>,
    << "PART_SUCC", "PART_CANCEL" >>,     << "PART_SUCC", "PARTSUCC_CANCEL" >>,
    << "REPORTED_CANCEL", "CANCELED" >>,  << "REPORTED_CANCEL", "SUCCEEDED" >>,
    << "REPORTED_CANCEL", "REPORTED" >>,  << "REPORTED_CANCEL", "PARTSUCC_CANCEL" >>,
    << "PARTSUCC_CANCEL", "PART_CANCEL" >>, << "PARTSUCC_CANCEL", "PART_SUCC" >>,
    << "PARTSUCC_CANCEL", "SUCCEEDED" >> }

ASSUME BrokerAssumption ==
  /\ Lifecycle \subseteq AllMoves
  /\ Answering \subseteq { "fresh", "stale", "torn", "unknown", "ambiguous" }

Live(r) == orders[r] \in ACTIVE_RAW \cup { "IN_FLIGHT" }

\* Mutant of normalize_qmt_order_status: a cancel in progress after a partial
\* fill is read as completed.
NormalizeEarlyCancel(raw) ==
  CASE raw \in { "UNREPORTED", "WAIT_REPORTING" } -> "accepted"
    [] raw = "REPORTED" -> "working"
    [] raw = "REPORTED_CANCEL" -> "cancel_pending"
    [] raw \in { "PART_CANCEL", "PARTSUCC_CANCEL" } -> "partial_cancelled"
    [] raw = "CANCELED" -> "cancelled"
    [] raw = "PART_SUCC" -> "partially_filled"
    [] raw = "SUCCEEDED" -> "filled"
    [] raw = "JUNK" -> "rejected"
    [] OTHER -> "unknown"

(***************************************************************************)
(* normalize_qmt_order_status() and the consistency checks of              *)
(* _to_broker_order(): a status whose traded volume contradicts it becomes *)
(* "unknown".                                                              *)
(***************************************************************************)
normalize_qmt_order_status(raw) ==
  CASE raw \in { "UNREPORTED", "WAIT_REPORTING" } -> "accepted"
    [] raw = "REPORTED" -> "working"
    [] raw \in { "REPORTED_CANCEL", "PARTSUCC_CANCEL" } -> "cancel_pending"
    [] raw = "PART_CANCEL" -> "partial_cancelled"
    [] raw = "CANCELED" -> "cancelled"
    [] raw = "PART_SUCC" -> "partially_filled"
    [] raw = "SUCCEEDED" -> "filled"
    [] raw = "JUNK" -> "rejected"
    [] OTHER -> "unknown"

ConsistentVolume(raw, filled) ==
  /\ raw \in { "PART_SUCC", "PART_CANCEL", "PARTSUCC_CANCEL" } => 0 < filled /\ filled < Lots
  /\ raw = "SUCCEEDED" => filled = Lots

to_broker_order(raw, filled) ==
  [ status |-> IF ConsistentVolume(raw, filled)
               THEN normalize_qmt_order_status(raw) ELSE "unknown",
    filled |-> filled ]

BrokerOrder ==
  [ status : { "accepted", "working", "partially_filled", "cancel_pending",
               "partial_cancelled", "cancelled", "filled", "rejected", "unknown" },
    filled : 0 .. Lots ]

(***************************************************************************)
(* What query_order()/query_orders() may return for an order the broker    *)
(* holds: its state now, an earlier one, a state whose traded volume was   *)
(* read before its status, or raw status 255.  A final raw status is only  *)
(* ever reported once the order is final.                                  *)
(***************************************************************************)
Report(kind, raw) ==
  CASE kind = "fresh"   -> to_broker_order(raw, Traded(raw))
    [] kind = "stale"   -> to_broker_order("UNREPORTED", 0)
    [] kind = "torn"    -> to_broker_order(raw, 0)
    [] kind = "unknown" -> to_broker_order("UNKNOWN", Traded(raw))

Reports(r) ==
  IF orders[r] \in { "NONE", "IN_FLIGHT" } THEN {}
  ELSE { Report(kind, orders[r]) : kind \in Answering \ { "ambiguous" } }

\* _strict_query() gives up (BrokerQueryAmbiguous), or the order is not visible.
NoAnswer(r) == "ambiguous" \in Answering \/ orders[r] \in { "NONE", "IN_FLIGHT" }

-----------------------------------------------------------------------------
BrokerInit ==
  /\ orders = [r \in Request |-> "NONE"]
  /\ placed = [r \in Request |-> 0]

\* order_stock() took the order, now or (st = IN_FLIGHT) in a moment.
TakeOrder(r, st) ==
  /\ orders' = [orders EXCEPT ![r] = st]
  /\ placed' = [placed EXCEPT ![r] = @ + 1]

\* cancel_order_stock() reached the broker.
TakeCancel(r) ==
  /\ orders' = [orders EXCEPT ![r] =
                  CASE @ = "REPORTED" -> "REPORTED_CANCEL"
                    [] @ = "PART_SUCC" -> "PARTSUCC_CANCEL"
                    [] OTHER -> @]
  /\ UNCHANGED placed

BrokerMove(r) ==
  /\ \E move \in Lifecycle :
       /\ orders[r] = move[1]
       /\ orders' = [orders EXCEPT ![r] = move[2]]
  /\ UNCHANGED placed

BrokerTypeOK ==
  /\ orders \in [Request -> OrderState]
  /\ placed \in [Request -> Nat]

=============================================================================
