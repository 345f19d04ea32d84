----------------------------- MODULE PriceLevels -----------------------------
(***************************************************************************)
(* What an order book promises: on each side an amount per price.          *)
(***************************************************************************)
EXTENDS Integers, Functions

CONSTANTS
    Prices,         \* side -> prices that occur on it
    Amounts         \* side -> positive amounts

Sides == {"buy", "sell"}

\* A price that comes before another one in the order of a side.
Before(side, p, q) == IF side = "sell" THEN p < q ELSE p > q

VARIABLES
    levels,         \* side -> price -> amount
    valid           \* nothing undefined was read

With(f, p, a) == [q \in DOMAIN f \cup {p} |-> IF q = p THEN a ELSE f[q]]
Without(f, S) == Restrict(f, DOMAIN f \ S)
Put(f, p, a) == IF a = 0 THEN Without(f, {p}) ELSE With(f, p, a)

\* An amount of zero removes the level.
SetLevel(side, p, a) ==
    /\ levels' = [levels EXCEPT ![side] = Put(@, p, a)]
    /\ UNCHANGED valid

\* A level is added unless the price has one.
AddLevel(side, p, a) ==
    /\ p \notin DOMAIN levels[side]
    /\ SetLevel(side, p, a)

\* Remove what is better than a price, be it all there is.
Trimmed(side, p) ==
    LET all == levels[side] IN Without(all, {q \in DOMAIN all : Before(side, q, p)})

Trim(side, p) ==
    /\ levels' = [levels EXCEPT ![side] = Trimmed(side, p)]
    /\ UNCHANGED valid

\* A ticker's best prices replace what is better.
Quote(bid, ask) ==
    LET asks == Trimmed("sell", ask)
        bids == Trimmed("buy", bid)
    IN  /\ \E bidVolume \in Amounts["buy"] \cup {0}, askVolume \in Amounts["sell"] \cup {0} :
              levels' = [s \in Sides |-> IF s = "sell" THEN Put(asks, ask, askVolume)
                                         ELSE Put(bids, bid, bidVolume)]
        /\ UNCHANGED valid

\* When all levels of a side are to go, the book may instead read a level that is not there;
\* nothing is promised from then on.
Break ==
    /\ \E s \in Sides : \E p \in Prices[s] : DOMAIN Trimmed(s, p) = {}
    /\ valid' = FALSE
    /\ UNCHANGED levels

Init ==
    /\ levels = [s \in Sides |-> <<>>]
    /\ valid = TRUE

Next ==
    \/ \E s \in Sides : \E p \in Prices[s] :
        \/ \E a \in Amounts[s] : AddLevel(s, p, a) \/ SetLevel(s, p, a)
        \/ SetLevel(s, p, 0)
        \/ Trim(s, p)
    \/ \E b \in Prices["buy"], a \in Prices["sell"] : Quote(b, a)
    \/ Break

Spec == Init /\ [][Next]_<<levels, valid>>
=============================================================================
