------------------------------- MODULE Orders -------------------------------
(***************************************************************************)
(* Orders: their states and setups, and the status that reports and fills  *)
(* leave in an order.                                                      *)
(***************************************************************************)
EXTENDS Integers, Sequences

States == {"undefined", "associated", "discarded", "rejected", "sent", "waiting", "active",
           "canceled", "filled", "restoring"}

\* The state a simulated order waits in; the enumeration has no member of that name.
Pending == "pending"

IsDone(state) == state \in States \ {"sent", "active", "waiting", "restoring"}

Behaviors == {"standard", "hedge", "reduce"}

\* The setups, with the parts of the options that the simulator reads.
Market(side, amount, behavior, isVolume) ==
    [type |-> "Market", side |-> side, amount |-> amount, behavior |-> behavior,
     isVolume |-> isVolume]
Limit(side, amount, price, isVolume) ==
    [type |-> "Limit", side |-> side, amount |-> amount, limit |-> price, behavior |-> "standard",
     isVolume |-> isVolume]
LimitPostOnly(side, amount, price) ==
    [Limit(side, amount, price, FALSE) EXCEPT !.type = "LimitPostOnly"]
Triggered(type, side, amount) == [type |-> type, side |-> side, amount |-> amount]
ClosePositionOrder(id) == [type |-> "ClosePosition", id |-> id]
Other(type) == [type |-> type]

-----------------------------------------------------------------------------
(* BasicOrder::Status *)

NewStatus == [state |-> "sent", reason |-> "no_reason", filled |-> 0, reports |-> 0]

\* reports counts how often the order's owner heard of a state.
UpdateReport(status, state, reason) ==
    [status EXCEPT !.state = state, !.reason = reason, !.reports = @ + 1]

\* The price of a fill is kept in the code; nothing here asks for it.
AddFill(status, amount) == [status EXCEPT !.filled = @ + amount]
=============================================================================
