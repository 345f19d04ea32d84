------------------------------ MODULE MCServices ------------------------------
(***************************************************************************)
(* Instance of what serves the contexts, for TLC: the scheduler with a     *)
(* thread of its own, requests to update an account, and the exchange of a *)
(* back test on the manually driven scheduler.  They share no state, and   *)
(* each behaviour is one of a single part, chosen at first, while the      *)
(* others rest in their initial state; so the states are the sum of those  *)
(* of the parts.                                                           *)
(***************************************************************************)
EXTENDS RealTimeScheduler, UpdateRequests, SimExchange

VARIABLE part       \* the part that runs

Rest(p) ==
    /\ part = p
    /\ UNCHANGED part
    /\ p # "scheduler" => UNCHANGED vars
    /\ p # "requests" => UNCHANGED requestVars
    /\ p # "exchange" => UNCHANGED exchangeVars

ServicesInit ==
    /\ part \in {"scheduler", "requests", "exchange"}
    /\ Init /\ RequestsInit /\ ExchangeInit

ServicesNext ==
    \/ Rest("scheduler") /\ Next
    \/ Rest("requests") /\ RequestsNext
    \/ Rest("exchange") /\ ExchangeNext

\* The fairness of FairSpec, FairRequests and FairExchange, of the part that runs.
ServicesSpec ==
    /\ ServicesInit
    /\ [][ServicesNext]_<<part, vars, requestVars, exchangeVars>>
    /\ WF_vars(Rest("scheduler") /\ Worker)
    /\ WF_vars(Rest("scheduler") /\ TimeOut)
    /\ WF_vars(Rest("scheduler") /\ Tick)
    /\ WF_vars(Rest("scheduler") /\ (NotifyStop \/ EndStop))
    /\ WF_requestVars(Rest("requests") /\ ObjectUpdated)
    /\ \A c \in Contexts : WF_requestVars(Rest("requests") /\ Run(c))
    /\ WF_exchangeVars(Rest("exchange") /\ Round)
=============================================================================
