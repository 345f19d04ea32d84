---------------------------- MODULE SimulAccount ----------------------------
(***************************************************************************)
(* The simulated account: equity, and the list of positions on one         *)
(* instrument, as fills open, reduce and close them.  Operators over a     *)
(* value; Simulator holds the account.  Money in an average-cost           *)
(* calculation is multiplied by Scale, so that averages are whole.         *)
(***************************************************************************)
EXTENDS InstrumentRules, Sequences, SequencesExt

CONSTANTS
    Leverage,       \* 0: none
    Scale           \* a multiple of every divisor of an average

ASSUME LeverageIsNat == Leverage \in Nat /\ Scale \in Nat \ {0}

OverallPosition == -1
BuyPosition == -2
SellPosition == -3

-----------------------------------------------------------------------------
(* ACB: average cost.  open = sum / pos. *)

NoTrades == [sum |-> 0, pos |-> 0, rpnl |-> 0]

Abs(n) == IF n < 0 THEN - n ELSE n

\* The part of the sum that n of the position's shares stand for.
Share(acb, n) == (acb.sum * (IF acb.pos < 0 THEN - n ELSE n)) \div Abs(acb.pos)

\* A trade in the direction of the position, through zero, or back towards zero.
Trade(acb, price, size) ==
    LET pos == acb.pos + size
    IN  IF acb.pos * size >= 0
        THEN [acb EXCEPT !.sum = @ + size * price * Scale, !.pos = pos]
        ELSE IF acb.pos * pos < 0
        THEN [sum |-> pos * price * Scale, pos |-> pos,
              rpnl |-> acb.rpnl + price * acb.pos * Scale - acb.sum]
        ELSE [sum |-> Share(acb, pos), pos |-> pos,
              rpnl |-> acb.rpnl - (price * size * Scale - Share(acb, size))]

UPnL(acb, price) == price * acb.pos * Scale - acb.sum

-----------------------------------------------------------------------------
(* Views of the positions *)

NoPosition == [id |-> 0, side |-> "undefined", amount |-> 0]
NoOverall == [id |-> 0, side |-> "undefined", amount |-> 0, acb |-> NoTrades]

\* The positions at some places of a list, traded in their order.
AcbOf(list, places) ==
    LET acb[k \in 0 .. Len(list)] ==
            IF k = 0 THEN NoTrades
            ELSE IF k \in places
            THEN Trade(acb[k - 1], list[k].open, list[k].amount * Sign(list[k].side))
            ELSE acb[k - 1]
    IN  acb[Len(list)]

CalcOverall(list) ==
    LET acb == AcbOf(list, DOMAIN list)
    IN  [id |-> OverallPosition, amount |-> Abs(acb.pos), acb |-> acb,
         side |-> IF acb.pos < 0 THEN "sell" ELSE IF acb.pos > 0 THEN "buy" ELSE "undefined"]

GetPosition(a) == a.overall
GetAllPositions(a) == a.list

\* Nothing is ever blocked.
GetInfo(a) == [equity |-> a.equity, balance |-> a.equity * Leverage, blocked |-> 0]

\* get_hedge_position: one side of it.
HedgeSide(list, side) == AcbOf(list, {k \in DOMAIN list : list[k].side = side})

PositionById(a, id) ==
    LET found == {k \in DOMAIN a.list : a.list[k].id = id}
    IN  CASE id = OverallPosition -> GetPosition(a)
          [] id = BuyPosition ->
                [id |-> id, side |-> "buy", amount |-> HedgeSide(a.list, "buy").pos]
          [] id = SellPosition ->
                [id |-> id, side |-> "sell", amount |-> - HedgeSide(a.list, "sell").pos]
          [] OTHER -> IF found = {} THEN NoPosition ELSE a.list[Min(found)]

-----------------------------------------------------------------------------
(* record_fill *)

\* calc_blocked adds nothing: no entry ever gets the instrument it would ask.
Margin(a, price, amount, leverage) == Uncovered(price, amount, leverage, a.equity)
Geared == IF Leverage = 0 THEN 1 ELSE Leverage

Refused(a, side, price, amount, behavior) ==
    /\ behavior # "reduce"
    /\ IF a.overall.side = side \/ behavior = "hedge"
       THEN Margin(a, price, amount, Leverage)
       ELSE Margin(a, price, amount - a.overall.amount, Geared)

\* Mutant: a loss is booked as a profit.
RealizedReversed(a, pos, price) == [a EXCEPT !.equity = @ - CalculatePnl(pos, price)]
Realized(a, pos, price) == [a EXCEPT !.equity = @ + CalculatePnl(pos, price)]
Updated(a) == [a EXCEPT !.overall = CalcOverall(a.list)]

\* The positions at some places are realized and leave the list (remove_if).
Closed(a, places, price) ==
    LET acc[k \in 0 .. Len(a.list)] ==
            IF k = 0 THEN [a EXCEPT !.list = <<>>]
            ELSE IF k \in places THEN Realized(acc[k - 1], a.list[k], price)
            ELSE [acc[k - 1] EXCEPT !.list = Append(@, a.list[k])]
    IN  acc[Len(a.list)]

\* A position of the other side that fits into what is left of an amount.
Fits(p, side, left) == p.side = ReverseSide(side) /\ p.amount <= left

\* What is left after each place of the list, when all that fits is closed.
LeftAfter(list, side, amount) ==
    LET left[k \in 0 .. Len(list)] ==
            IF k = 0 THEN amount
            ELSE IF Fits(list[k], side, left[k - 1]) THEN left[k - 1] - list[k].amount
            ELSE left[k - 1]
    IN  left

\* Close the positions of the other side that fit into the amount, in the order of the list.
CloseOpposite(a, side, price, amount) ==
    LET left == LeftAfter(a.list, side, amount)
        places == {k \in DOMAIN a.list : Fits(a.list[k], side, left[k - 1])}
    IN  [acc |-> Closed(a, places, price), left |-> left[Len(a.list)]]

\* What remains reduces the first position of the other side.  All of that position is
\* realized, and all of it counts as filled.
ReduceFirst(r, i, price, amount) ==
    LET p == r.acc.list[i]
        a == [r.acc EXCEPT !.list[i] = [p EXCEPT !.id = r.acc.counter, !.amount = @ - r.left],
                           !.counter = @ + 1]
    IN  [acc |-> Updated(Realized(a, p, price)), filled |-> amount - r.left + p.amount]

\* What remains opens a position; the overall position is not calculated again.  Without the
\* money, the amount that could not be opened is returned.
OpenRest(r, side, price, amount) ==
    IF r.left = 0 THEN [acc |-> r.acc, filled |-> amount]
    ELSE IF Margin(r.acc, price, r.left, Geared) THEN [acc |-> r.acc, filled |-> r.left]
    ELSE [acc |-> [r.acc EXCEPT
            !.list = Append(@, [id |-> r.acc.counter, side |-> side, amount |-> r.left, open |-> price]),
            !.counter = @ + 1],
          filled |-> amount]

\* Mutant: what remains opens a position although one of the other side is left.
RecordFillOpens(a, side, price, amount, behavior) ==
    LET r == IF behavior = "hedge" THEN [acc |-> a, left |-> amount]
             ELSE CloseOpposite(a, side, price, amount)
    IN  IF Refused(a, side, price, amount, behavior) THEN [acc |-> a, filled |-> 0]
        ELSE IF behavior = "reduce" THEN [acc |-> Updated(r.acc), filled |-> amount - r.left]
        ELSE OpenRest(r, side, price, amount)

RecordFill(a, side, price, amount, behavior) ==
    LET r == IF behavior = "hedge" THEN [acc |-> a, left |-> amount]
             ELSE CloseOpposite(a, side, price, amount)
        others == {k \in DOMAIN r.acc.list : r.acc.list[k].side = ReverseSide(side)}
    IN  IF Refused(a, side, price, amount, behavior) THEN [acc |-> a, filled |-> 0]
        ELSE IF behavior # "hedge" /\ r.left > 0 /\ others # {}
        THEN ReduceFirst(r, Min(others), price, amount)
        ELSE IF behavior = "reduce" THEN [acc |-> Updated(r.acc), filled |-> amount - r.left]
        ELSE OpenRest(r, side, price, amount)

-----------------------------------------------------------------------------
(* close_position *)

\* The positions an id stands for.
Chosen(id, p) ==
    CASE id = OverallPosition -> TRUE
      [] id = BuyPosition -> p.side = "buy"
      [] id = SellPosition -> p.side = "sell"
      [] OTHER -> p.id = id

\* Mutant: the overall position is not calculated again.
ClosePositionKeeps(a, id, price) ==
    LET places == {k \in DOMAIN a.list : Chosen(id, a.list[k])}
    IN  [done |-> places # {},
         acc |-> IF a.list = <<>> \/ (places = {} /\ id >= 0) THEN a ELSE Closed(a, places, price)]

ClosePosition(a, id, price) ==
    LET places == {k \in DOMAIN a.list : Chosen(id, a.list[k])}
    IN  [done |-> places # {},
         acc |-> IF a.list = <<>> \/ (places = {} /\ id >= 0) THEN a
                 ELSE Updated(Closed(a, places, price))]
=============================================================================
