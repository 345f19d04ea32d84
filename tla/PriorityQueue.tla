---------------------------- MODULE PriorityQueue ----------------------------
(***************************************************************************)
(* The binary heap under the timers of a context and under the schedulers: *)
(* template PriorityQueue, with the ordering every user of it gives it     *)
(* (the earlier time point first).  Positions are counted from 1.          *)
(*                                                                         *)
(* An operation changes the vector and then sifts one element up or down;  *)
(* one round of heapify_up or heapify_down is one step.                    *)
(***************************************************************************)
EXTENDS Integers, Sequences, FiniteSets

CONSTANTS
    Ids,            \* identities of the items (ident, or the timer itself)
    Times,          \* time points
    MaxSize,        \* bound on the number of items
    EraseSize       \* erase (BasicContext::clear_timer) is used up to this size

ASSUME HeapTimes == Times \subseteq Nat
ASSUME HeapBound == MaxSize \in Nat /\ EraseSize \in Nat

Item == [id : Ids, tp : Times]

VARIABLES
    heap,       \* the vector
    sift,       \* "up" or "down" while the loop of an operation runs, or "none"
    at,         \* index, the element that is sifted
    call        \* the last operation took the first element, or was another

heapVars == <<heap, sift, at, call>>

Parent(k) == k \div 2
Left(k) == 2 * k
Right(k) == 2 * k + 1

\* ordering: an item with a later time point has the lower priority.
Lower(a, b) == a.tp > b.tp

Swap(k, j) == [heap EXCEPT ![k] = heap[j], ![j] = heap[k]]

Stored == {heap[k].id : k \in 1 .. Len(heap)}

-----------------------------------------------------------------------------
(* Operations *)

\* push, emplace
Push(x) ==
    /\ sift = "none"
    /\ Len(heap) < MaxSize /\ x.id \notin Stored
    /\ heap' = Append(heap, x)
    /\ sift' = "up" /\ at' = Len(heap) + 1 /\ call' = "other"

\* Mutant: the last element is not moved to the front.
PopBack ==
    /\ sift = "none"
    /\ heap # <<>>
    /\ heap' = SubSeq(heap, 1, Len(heap) - 1)
    /\ UNCHANGED <<sift, at>> /\ call' = "take"

\* The last element takes the place of the first.
Pop ==
    /\ sift = "none"
    /\ heap # <<>>
    /\ IF Len(heap) > 1
       THEN /\ heap' = [k \in 1 .. (Len(heap) - 1) |-> IF k = 1 THEN heap[Len(heap)] ELSE heap[k]]
            /\ sift' = "down" /\ at' = 1
       ELSE heap' = <<>> /\ UNCHANGED <<sift, at>>
    /\ call' = "take"

\* priority_altered, after reschedule_queue or replace has given the element t
Alter(k, t) ==
    /\ sift = "none"
    /\ heap' = [heap EXCEPT ![k].tp = t]
    /\ sift' = IF t > heap[k].tp THEN "down" ELSE "up"
    /\ at' = k /\ call' = "other"

\* The last element takes the place of the erased one and is sifted down only.
Erase(k) ==
    /\ sift = "none"
    /\ k # 1 /\ Len(heap) <= EraseSize
    /\ heap' = [j \in 1 .. (Len(heap) - 1) |-> IF j = k THEN heap[Len(heap)] ELSE heap[j]]
    /\ IF k = Len(heap)
       THEN UNCHANGED <<sift, at>>
       ELSE sift' = "down" /\ at' = k
    /\ call' = "other"

-----------------------------------------------------------------------------
(* The loops *)

\* heapify_up
SiftUp ==
    /\ sift = "up"
    /\ IF at > 1 /\ Lower(heap[Parent(at)], heap[at])
       THEN /\ heap' = Swap(at, Parent(at))
            /\ at' = Parent(at) /\ UNCHANGED sift
       ELSE sift' = "none" /\ UNCHANGED <<heap, at>>
    /\ UNCHANGED call

\* largest: of the element and its children, the one with the highest priority
Largest(k) ==
    LET n == Len(heap)
        l == IF Left(k) <= n /\ Lower(heap[k], heap[Left(k)]) THEN Left(k) ELSE k
    IN  IF Right(k) <= n /\ Lower(heap[l], heap[Right(k)]) THEN Right(k) ELSE l

\* heapify_down
SiftDown ==
    /\ sift = "down"
    /\ IF Largest(at) # at
       THEN /\ heap' = Swap(at, Largest(at))
            /\ at' = Largest(at) /\ UNCHANGED sift
       ELSE sift' = "none" /\ UNCHANGED <<heap, at>>
    /\ UNCHANGED call

-----------------------------------------------------------------------------
HeapInit == heap = <<>> /\ sift = "none" /\ at = 1 /\ call = "other"

Operation ==
    \/ \E x \in Item : Push(x)
    \/ Pop
    \/ \E k \in 1 .. Len(heap) : Erase(k) \/ \E t \in Times : Alter(k, t)

HeapNext == Operation \/ SiftUp \/ SiftDown

HeapSpec == HeapInit /\ [][HeapNext]_heapVars

-----------------------------------------------------------------------------
(* Properties *)

\* No element is queued twice.
HeapTypes ==
    /\ heap \in Seq(Item) /\ Len(heap) <= MaxSize
    /\ sift \in {"none", "up", "down"} /\ call \in {"take", "other"}
    /\ at \in Nat \ {0} /\ (sift # "none" => at \in 1 .. Len(heap))
    /\ \A j, k \in 1 .. Len(heap) : heap[j].id = heap[k].id => j = k

\* The parent of an element is not later than the element.
Ordered(k) == heap[Parent(k)].tp <= heap[k].tp

\* A heap, but for the element that is sifted: on the way up it may be earlier than its
\* parent, on the way down later than its children.  Its parent and its children are in
\* order with each other.
HeapInv ==
    /\ \A k \in 2 .. Len(heap) :
          Ordered(k) \/ (sift = "up" /\ k = at) \/ (sift = "down" /\ Parent(k) = at)
    /\ sift # "none" /\ at > 1 =>
          \A k \in 2 .. Len(heap) : Parent(k) = at => heap[Parent(at)].tp <= heap[k].tp

\* A priority queue: what is pushed stays until it is taken or erased, and what is
\* taken is an earliest item.
Items == INSTANCE OrderedItems WITH
    tp <- [i \in Stored |-> heap[CHOOSE k \in 1 .. Len(heap) : heap[k].id = i].tp]
IsPriorityQueue == Items!Spec
=============================================================================
