------------------------------- MODULE MCTrades -------------------------------
(***************************************************************************)
(* Instance of what keeps and executes orders, for TLC: the storage of     *)
(* orders, fills and variables, and the backend of the simulator.  They    *)
(* share no state, and each behaviour is one of a single part, chosen at   *)
(* first, while the other rests in its initial state.                      *)
(***************************************************************************)
EXTENDS MemoryStorage, MCSimulator

CONSTANTS v1, v2, o1, f1, f2

VARIABLE part       \* the part that runs

\* A fill reported again with its timestamp, and with another one.
OtherTime == {[id |-> f1, time |-> 1], [id |-> f1, time |-> 2], [id |-> f2, time |-> 1]}

\* No label, and one that a filter can match.
OneLabel == {<<>>, <<"l">>}

Rest(p) ==
    /\ part = p
    /\ UNCHANGED part
    /\ p # "storage" => UNCHANGED vars
    /\ p # "simulator" => UNCHANGED backendVars

TradesInit == part \in {"storage", "simulator"} /\ Init /\ BackendInit

TradesNext ==
    \/ Rest("storage") /\ Next
    \/ Rest("simulator") /\ BackendNext

TradesSpec == TradesInit /\ [][TradesNext]_<<part, vars, backendVars>>
=============================================================================
