----------------------------- MODULE MCEventLoop -----------------------------
(* Instances of EventLoop for TLC. *)
EXTENDS EventLoop

CONSTANTS x, y, o1, o2, i1, i2, a, b

OneVenue == [o \in Orders |-> x]
=============================================================================
