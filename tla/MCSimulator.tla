----------------------------- MODULE MCSimulator -----------------------------
(* Instances of Simulator for TLC. *)
EXTENDS Simulator

MCConfig == [type |-> "contract", lot |-> 1, multiplier |-> 1, minSize |-> 1, minVolume |-> 0,
             factor |-> 1]
MCTickers ==
    {[bid |-> 1, bidVolume |-> 1, ask |-> 2, askVolume |-> 1],
     [bid |-> 3, bidVolume |-> 2, ask |-> 3, askVolume |-> 0]}
MCSetups ==
    {Market(side, amount, "standard", FALSE) : side \in {"buy", "sell"}, amount \in {1, 2}}
    \cup {Market("buy", 1, "hedge", FALSE), Market("sell", 2, "hedge", FALSE)}
    \cup {Market("buy", 1, "reduce", FALSE), Market("buy", 5, "standard", TRUE)}
    \cup {Limit("buy", 1, 2, FALSE), Limit("sell", 3, 2, TRUE)}
    \cup {LimitPostOnly("buy", 1, 2)}
    \cup {ClosePositionOrder(id) : id \in {-1, -2, 1}}
    \cup {Triggered("Stop", "sell", 1), Other("Undefined"), Other("Transfer")}
=============================================================================
