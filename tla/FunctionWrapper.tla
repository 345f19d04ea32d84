---------------------------- MODULE FunctionWrapper ----------------------------
(***************************************************************************)
(* Class template Function: a callable held in a reserved space (small), a *)
(* pointer to one on the heap (large) or in memory of the caller           *)
(* (placement), constructed and destroyed by hand.  All callbacks, timers  *)
(* and scheduled functions are Functions that are moved from queue to      *)
(* queue.  Moving leaves the source constructed, with what it held gone.    *)
(***************************************************************************)
EXTENDS Integers, FiniteSets

CONSTANTS
    Functions_,     \* objects of class Function
    MaxCallables    \* bound on the callables made

ASSUME CallablesBound == MaxCallables \in Nat

Callables == 1 .. MaxCallables

VARIABLES
    holds,          \* what each object's space holds: a kind, and the callable, 0 if moved
    made,           \* callables made
    destroyed       \* how often each callable was destroyed

functionVars == <<holds, made, destroyed>>

Raw == [kind |-> "raw", fn |-> 0]              \* not constructed

\* class InvalidFn
Invalid == [kind |-> "invalid", fn |-> 0]

\* WrapFnSmall, WrapFnLarge, WrapFnPlacement
Wrap(k, f) == [kind |-> k, fn |-> f]

\* valid: also of a function that was moved away.
Valid(s) == holds[s].kind \notin {"raw", "invalid"}

\* move, the target: the callable's state, or the pointer to it.
MovedTo(s) == holds[s]

\* move, the source: a small callable without its state, or a null pointer.
MovedFrom(s) == [holds[s] EXCEPT !.fn = 0]

\* destroy: the destructor of what is held.
Destroyed(s) ==
    [f \in Callables |-> IF f = holds[s].fn THEN destroyed[f] + 1 ELSE destroyed[f]]

-----------------------------------------------------------------------------
ConstructEmpty(s) ==
    /\ holds[s] = Raw
    /\ holds' = [holds EXCEPT ![s] = Invalid]
    /\ UNCHANGED <<made, destroyed>>

\* From a callable, by its size, or at a given place.
Construct(s, k) ==
    /\ holds[s] = Raw
    /\ made < MaxCallables
    /\ made' = made + 1
    /\ holds' = [holds EXCEPT ![s] = Wrap(k, made')]
    /\ UNCHANGED destroyed

MoveConstruct(s, o) ==
    /\ s # o /\ holds[s] = Raw /\ holds[o] # Raw
    /\ holds' = [holds EXCEPT ![s] = MovedTo(o), ![o] = MovedFrom(o)]
    /\ UNCHANGED <<made, destroyed>>

\* Mutants: an object moved to itself is not left out; the old callable is not destroyed.
MoveAssignSelf(s, o) ==
    /\ holds[s] # Raw /\ holds[o] # Raw
    /\ destroyed' = Destroyed(s)
    /\ holds' = [holds EXCEPT ![o] = MovedFrom(o), ![s] = MovedTo(o)]
    /\ UNCHANGED made

MoveAssign(s, o) ==
    /\ holds[s] # Raw /\ holds[o] # Raw
    /\ IF s # o
       THEN /\ destroyed' = Destroyed(s)
            /\ holds' = [holds EXCEPT ![s] = MovedTo(o), ![o] = MovedFrom(o)]
       ELSE UNCHANGED <<holds, destroyed>>
    /\ UNCHANGED made

\* Assignment of nullptr.
Clear(s) ==
    /\ Valid(s)
    /\ destroyed' = Destroyed(s)
    /\ holds' = [holds EXCEPT ![s] = Invalid]
    /\ UNCHANGED made

Destroy(s) ==
    /\ holds[s] # Raw
    /\ destroyed' = Destroyed(s)
    /\ holds' = [holds EXCEPT ![s] = Raw]
    /\ UNCHANGED made

-----------------------------------------------------------------------------
FunctionInit ==
    /\ holds = [s \in Functions_ |-> Raw]
    /\ made = 0 /\ destroyed = [f \in Callables |-> 0]

FunctionNext ==
    \E s \in Functions_ :
        \/ ConstructEmpty(s) \/ Clear(s) \/ Destroy(s)
        \/ \E k \in {"small", "large", "placed"} : Construct(s, k)
        \/ \E o \in Functions_ : MoveConstruct(s, o) \/ MoveAssign(s, o)

FunctionSpec == FunctionInit /\ [][FunctionNext]_functionVars

\* However functions are moved, assigned (to themselves too), cleared and destroyed, each
\* callable has one holder until it is destroyed, and is destroyed once.
OneOwner ==
    \A f \in 1 .. made : Cardinality({s \in Functions_ : holds[s].fn = f}) + destroyed[f] = 1
=============================================================================
