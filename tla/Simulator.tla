----------------------------- MODULE Simulator -----------------------------
(***************************************************************************)
(* The backend of the simulator: it executes orders against the last       *)
(* ticker of an instrument, on a simulated account, and keeps the pending  *)
(* ones.  Everything runs under one lock, so a step is a call.             *)
(***************************************************************************)
EXTENDS SimulAccount, Orders

CONSTANTS
    Tickers,        \* [bid, bidVolume, ask, askVolume]
    Setups,         \* setups that orders are made with
    Targets,        \* contexts
    Equity,         \* the account's money at the start
    MaxOrders       \* orders that are placed, at most

ASSUME SimulatorBounds == Equity \in Int /\ MaxOrders \in Nat
ASSUME TickerTypes ==
    \A tk \in Tickers :
        /\ {tk.bid, tk.bidVolume, tk.ask, tk.askVolume} \subseteq Nat
        /\ tk.bidVolume # 0 => tk.bid # 0
        /\ tk.askVolume # 0 => tk.ask # 0
ASSUME SetupTypes ==
    \A s \in Setups :
        /\ s.type \in {"Market", "Limit"} => s.amount \in Int /\ s.isVolume \in BOOLEAN
        /\ s.type \in {"Limit", "LimitPostOnly"} => s.limit \in Int
        /\ s.type = "ClosePosition" => s.id \in Int
\* Before the first ticker a limit order is filled at a price of zero, and nothing that costs
\* nothing makes up a least volume.
ASSUME NoVolumeAtZero == Config.minVolume = 0 \/ \A s \in Setups : s.type # "Limit"

VARIABLES
    ticker,         \* the last ticker; NoQuote before the first
    account,        \* [equity, counter, list, overall]
    order,          \* sequence: the status of each order
    active,         \* _active_orders: the indices in order of the orders in it
    subs            \* _subscriptions_ticker

backendVars == <<ticker, account, order, active, subs>>

NoQuote == [bid |-> 0, bidVolume |-> 0, ask |-> 0, askVolume |-> 0]

\* ticker_info: what an order of a side trades against.
TickerInfo(side) ==
    CASE side = "buy" -> [price |-> ticker.ask, volume |-> ticker.askVolume]
      [] side = "sell" -> [price |-> ticker.bid, volume |-> ticker.bidVolume]
      [] OTHER -> [price |-> 0, volume |-> 0]

-----------------------------------------------------------------------------
(* try_market_order: the outcome of an order that arrives.                 *)

Outcome(state, reason, filled, acc) ==
    [state |-> state, reason |-> reason, filled |-> filled, acc |-> acc]
Reject(reason) == Outcome("rejected", reason, 0, account)
Accept == Outcome(Pending, "no_reason", 0, account)

\* A limit price that is better than the ticker's; equal prices do not cross.
Crosses(s) ==
    \/ s.side = "buy" /\ s.limit > TickerInfo("buy").price
    \/ s.side = "sell" /\ s.limit < TickerInfo("sell").price

TryMarket(s) ==
    LET quote == TickerInfo(s.side)
        amount == AdjustLot(AdjustAmount(quote.price, s.amount, s.isVolume))
        r == RecordFill(account, s.side, quote.price, amount, s.behavior)
    IN  IF quote.volume = 0 THEN Reject("low_liquidity")
        ELSE IF amount <= 0 THEN Reject("too_small")
        ELSE IF r.filled <= 0 THEN [Reject("no_funds") EXCEPT !.acc = r.acc]
        ELSE Outcome("filled", "no_reason", r.filled, r.acc)

\* The whole volume of the ticker is traded if that is more than the order's amount, and the
\* price is returned as the amount.  An order that does not cross is too small.
TryLimit(s) ==
    LET quote == TickerInfo(s.side)
        amount == AdjustAmount(quote.price, s.amount, s.isVolume)
        r == RecordFill(account, s.side, quote.price, Larger(amount, quote.volume), s.behavior)
    IN  IF amount <= 0 \/ ~ Crosses(s) THEN Reject("too_small")
        ELSE IF r.filled <= 0 THEN [Reject("no_funds") EXCEPT !.acc = r.acc]
        ELSE Outcome(Pending, "no_reason", quote.price, r.acc)

TryClosePosition(s) ==
    LET pos == PositionById(account, s.id)
        quote == TickerInfo(ReverseSide(pos.side))
        r == ClosePosition(account, s.id, quote.price)
    IN  IF pos.id # s.id THEN Reject("not_found")
        ELSE IF quote.volume = 0 THEN Reject("low_liquidity")
        ELSE IF ~ r.done THEN [Reject("not_found") EXCEPT !.acc = r.acc]
        ELSE Outcome("filled", "no_reason", pos.amount, r.acc)

TryMarketOrder(s) ==
    CASE s.type = "Market" -> TryMarket(s)
      [] s.type = "Limit" -> TryLimit(s)
      [] s.type = "LimitPostOnly" -> IF Crosses(s) THEN Reject("crossing") ELSE Accept
      [] s.type \in {"Stop", "StopLimit", "TrailingStop", "TpSl"} -> Accept
      [] s.type = "ClosePosition" -> TryClosePosition(s)
      [] OTHER -> Reject("unsupported")

-----------------------------------------------------------------------------
(* Operations *)

\* on_event of an order's target: the fill first, then the state.  (A target applies its events
\* in this order: AppliedInOrder of EventLoop.)
Told(status, o) ==
    UpdateReport(IF o.filled # 0 THEN AddFill(status, o.filled) ELSE status, o.state, o.reason)

\* An amount that is a volume is divided by the price.  Without a price, before the first
\* ticker, a limit order of this kind has no amount that is finite: left out.
Priced(s) == s.type = "Limit" /\ s.isVolume => TickerInfo(s.side).price # 0

Room == Len(order) < MaxOrders
Add(status) == order' = Append(order, status)

\* create_order and batch_place of a new order.
BatchPlace(s) ==
    LET o == TryMarketOrder(s)
    IN  /\ Room /\ s.type # "Transfer" /\ Priced(s)
        /\ Add(Told(NewStatus, o))
        /\ account' = o.acc
        /\ active' = IF o.state = Pending THEN active \cup {Len(order) + 1} ELSE active
        /\ UNCHANGED <<ticker, subs>>

\* A transfer is discarded when it is created, and batch_place passes over it.
CreateTransfer(s) ==
    /\ Room /\ s.type = "Transfer"
    /\ Add([NewStatus EXCEPT !.state = "discarded", !.reason = "unsupported"])
    /\ UNCHANGED <<ticker, account, active, subs>>

\* An order that is to replace another one: the search among the active orders compares them
\* with the new order, which is not there.  (So the rest of that branch is never reached.)
BatchReplace(s) ==
    /\ Room /\ s.type # "Transfer" /\ order # <<>>
    /\ Add(UpdateReport(NewStatus, "rejected", "not_found"))
    /\ UNCHANGED <<ticker, account, active, subs>>

\* Mutant: the order is told but stays active.
BatchCancelKeeps(i) ==
    /\ i \in active
    /\ order' = [order EXCEPT ![i] = UpdateReport(@, "canceled", "no_reason")]
    /\ UNCHANGED <<ticker, account, active, subs>>

\* Orders that are not active are passed over.
BatchCancel(i) ==
    /\ i \in active
    /\ order' = [order EXCEPT ![i] = UpdateReport(@, "canceled", "no_reason")]
    /\ active' = active \ {i}
    /\ UNCHANGED <<ticker, account, subs>>

\* Targets subscribe once; a ticker that is there is sent to them (EventLoop's OnMarketData).
Subscribe(t) ==
    /\ t \notin ToSet(subs)
    /\ subs' = Append(subs, t)
    /\ UNCHANGED <<ticker, account, order, active>>

\* erase(begin, remove(...)) keeps what remove left behind the end: the last target if t was
\* subscribed, otherwise nobody.
Unsubscribe(t) ==
    /\ subs' = IF t \in ToSet(subs) THEN <<Last(subs)>> ELSE <<>>
    /\ UNCHANGED <<ticker, account, order, active>>

\* External: the market events that send_market_event, an empty function, is there for.
MarketEvent(tk) ==
    /\ ticker' = tk
    /\ UNCHANGED <<account, order, active, subs>>

BackendInit ==
    /\ ticker = NoQuote
    /\ account = [equity |-> Equity, counter |-> 1, list |-> <<>>, overall |-> NoOverall]
    /\ order = <<>> /\ active = {} /\ subs = <<>>

BackendNext ==
    \/ \E s \in Setups : BatchPlace(s) \/ CreateTransfer(s) \/ BatchReplace(s)
    \/ \E t \in Targets :
        \/ Subscribe(t)
        \/ Unsubscribe(t)
    \/ \E i \in 1 .. MaxOrders : BatchCancel(i)
    \/ \E tk \in Tickers : MarketEvent(tk)

BackendSpec == BackendInit /\ [][BackendNext]_backendVars

-----------------------------------------------------------------------------
(* Correctness *)

Total(values) ==
    LET sum[k \in 0 .. Len(values)] == IF k = 0 THEN 0 ELSE sum[k - 1] + values[k]
    IN  sum[Len(values)]

\* What the account would be worth if its positions were closed at a price.
PnlOf(list, price) == Total([k \in DOMAIN list |-> CalculatePnl(list[k], price)])
Worth(a, price) == GetInfo(a).equity + PnlOf(GetAllPositions(a), price)

\* The position that a step reduced, under its new id.
Reduced(a, b) ==
    {p \in ToSet(b.list) : p.id >= a.counter /\ \E q \in ToSet(a.list) :
        q.side = p.side /\ q.open = p.open /\ q.amount > p.amount
        /\ q.id \notin {r.id : r \in ToSet(b.list)}}

\* No fill and no closing of positions creates or destroys money at its own price, however
\* positions are opened, closed and reduced over many orders.  Except that reducing a position
\* realizes all of it and leaves the rest at the old open price: the pnl of the rest is counted
\* twice from then on.
WorthConserved ==
    [][account' # account => \A s \in Setups : BatchPlace(s) =>
        LET price == IF s.type = "ClosePosition"
                     THEN TickerInfo(ReverseSide(PositionById(account, s.id).side)).price
                     ELSE IF s.type \in {"Market", "Limit"} THEN TickerInfo(s.side).price ELSE 0
            reduced == IF s.type \in {"Market", "Limit"} THEN Reduced(account, account') ELSE {}
            twice == IF reduced = {} THEN 0 ELSE CalculatePnl(CHOOSE p \in reduced : TRUE, price)
        IN  Worth(account', price) = Worth(account, price) + twice]_backendVars

\* Longs less shorts.
Net(list) == HedgeSide(list, "buy").pos + HedgeSide(list, "sell").pos

\* The overall position that get_position reports is that of the positions the account has: its
\* locked profit and its open pnl together are the pnl of all of them at any price, and its
\* amount is their net amount.
SumsUp(a) ==
    LET p == GetPosition(a)
        list == GetAllPositions(a)
        gain(q, price) == Sign(q.side) * q.amount * (price - q.open)
    IN  /\ \A tk \in Tickers :
            p.acb.rpnl + UPnL(p.acb, tk.ask) =
                Scale * Total([k \in DOMAIN list |-> gain(list[k], tk.ask)])
        /\ Sign(p.side) * p.amount = Net(list)

\* Whatever changes the account leaves the reported position summing up, over every list of
\* positions that fills and closings produce, both sides mixed.  The exceptions are fills that
\* may open a position: those that end in OpenRest leave the reported one as it was.
OverallSumsUp ==
    [][account' # account =>
        \/ SumsUp(account')
        \/ /\ GetPosition(account') = GetPosition(account)
           /\ \E s \in Setups : /\ s.type \in {"Market", "Limit"} /\ s.behavior # "reduce"
                               /\ BatchPlace(s)]_backendVars

\* What get_position is documented to return (account.h:60: "overall position where shorts
\* are substracted from longs"), at any time.  After a fill that opens a position
\* (simulator_account.cpp:70-84) it returns what was calculated before.
PositionIsNet ==
    LET p == GetPosition(account)
    IN  Sign(p.side) * p.amount = Net(GetAllPositions(account))

\* Only an order with hedge behavior makes the account hold both sides; reducing and closing in
\* any order leaves no position of the other side next to a new one.
TwoSidesOnlyByHedge ==
    [][Cardinality({p.side : p \in ToSet(account.list)}) < 2
       /\ Cardinality({p.side : p \in ToSet(account'.list)}) = 2
       => \E s \in Setups :
            s.type \in {"Market", "Limit"} /\ s.behavior = "hedge" /\ BatchPlace(s)]_backendVars

\* Every order has one outcome: it is active exactly until it is done, its owner hears at most
\* once more of it after it was told to be pending, it is filled only if a fill was reported,
\* and a rejected one has a reason.
OneOutcome ==
    \A i \in DOMAIN order :
        LET st == order[i]
        IN  /\ (i \in active) = ~ IsDone(st.state)
            /\ st.reports <= (IF st.state = "canceled" THEN 2 ELSE 1)
            /\ st.state = "filled" => st.filled > 0
            /\ st.state = "rejected" => st.filled = 0 /\ st.reason # "no_reason"
=============================================================================
