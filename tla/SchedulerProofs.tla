-------------------------- MODULE SchedulerProofs --------------------------
(***************************************************************************)
(* Theorems about the scheduler with a thread and the queue under it.      *)
(*                                                                         *)
(* PriorityQueue, for any number of items and time points: HeapInv is      *)
(* inductive, so that the first element is an earliest one, and the heap   *)
(* implements OrderedItems.                                                *)
(*                                                                         *)
(* RealTimeScheduler, for any number of contexts and any time:             *)
(* SchedulerInv is inductive, so that no wakeup is lost and nothing uses a *)
(* destroyed scheduler, and the scheduler implements WakeupService.        *)
(***************************************************************************)
EXTENDS RealTimeScheduler, PriorityQueue, Intervals

-----------------------------------------------------------------------------
(* The priority queue *)

LEMMA TimesAreNumbers ==
    ASSUME NEW x \in Item
    PROVE  x.tp \in Nat /\ x.tp \in Times /\ x.id \in Ids
BY HeapTimes DEF Item

LEMMA Parents ==
    ASSUME NEW k \in Nat, k >= 2
    PROVE  /\ Parent(k) \in Nat /\ Parent(k) >= 1 /\ Parent(k) < k
           /\ \A j \in Nat : Parent(k) = j <=> k = 2 * j \/ k = 2 * j + 1
BY DEF Parent

\* No element is earlier than the first.
LEMMA FirstIsEarliest ==
    ASSUME HeapTypes, HeapInv, sift = "none", heap # <<>>
    PROVE  \A k \in 1 .. Len(heap) : heap[1].tp <= heap[k].tp
<1> DEFINE S == {k \in 0 .. Len(heap) : \A j \in 1 .. k : heap[1].tp <= heap[j].tp}
<1>1. Len(heap) \in Nat /\ Len(heap) >= 1 /\ heap \in Seq(Item)
  BY DEF HeapTypes
<1>2. 0 \in S
  BY <1>1
<1>3. ASSUME NEW k \in 1 .. Len(heap), k - 1 \in S PROVE k \in S
  <2>1. \A j \in 1 .. (k - 1) : heap[1].tp <= heap[j].tp
    BY <1>3
  <2>2. heap[1].tp <= heap[k].tp
    <3>1. CASE k = 1
      BY <1>1, <3>1, TimesAreNumbers
    <3>2. CASE k >= 2
      <4>1. Parent(k) \in 1 .. (k - 1)
        BY <3>2, Parents
      <4>2. heap[Parent(k)].tp <= heap[k].tp
        BY <3>2 DEF HeapInv, Ordered
      <4>3. heap[1].tp <= heap[Parent(k)].tp
        BY <2>1, <4>1
      <4>4. /\ heap[1].tp \in Nat /\ heap[k].tp \in Nat
            /\ heap[Parent(k)].tp \in Nat
        BY <1>1, <4>1, TimesAreNumbers
      <4> QED BY <4>2, <4>3, <4>4
    <3> QED BY <3>1, <3>2
  <2>3. \A j \in 1 .. k : j \in 1 .. (k - 1) \/ j = k
    OBVIOUS
  <2> QED BY <2>1, <2>2, <2>3
<1> HIDE DEF S
<1>4. \A k \in 0 .. Len(heap) : k \in S
  BY <1>1, <1>2, <1>3, IntervalInduction
<1> QED BY <1>1, <1>4 DEF S

\* The invariant holds at first.
LEMMA HeapInitInv == HeapInit => HeapTypes /\ HeapInv
BY HeapBound DEF HeapInit, HeapTypes, HeapInv

LEMMA PushInv ==
    ASSUME HeapTypes, HeapInv, NEW x \in Item, Push(x)
    PROVE  HeapTypes' /\ HeapInv'
<1>1. heap \in Seq(Item) /\ Len(heap) \in Nat /\ MaxSize \in Nat
  BY HeapBound DEF HeapTypes
<1>2. PICK h \in Seq(Item) : h = heap' /\ h = Append(heap, x)
  BY <1>1 DEF Push
<1>3. /\ Len(h) = Len(heap) + 1 /\ h[Len(h)] = x
      /\ \A k \in 1 .. Len(heap) : h[k] = heap[k]
  BY <1>1, <1>2
<1>4. \A k \in 1 .. Len(h) : k \in 1 .. Len(heap) \/ k = Len(h)
  BY <1>1, <1>3
<1>5. sift = "none" /\ sift' = "up" /\ at' = Len(h) /\ call' = "other" /\ Len(h) <= MaxSize
  BY <1>1, <1>3 DEF Push
<1>6. \A k \in 1 .. Len(heap) : heap[k].id # x.id
  BY DEF Push, Stored
<1>7. \A j, k \in 1 .. Len(h) : h[j].id = h[k].id => j = k
  BY <1>3, <1>4, <1>6 DEF HeapTypes
<1>8. HeapTypes'
  BY <1>1, <1>2, <1>3, <1>5, <1>7 DEF HeapTypes
<1>9. ASSUME NEW k \in 2 .. Len(h), k # Len(h)
      PROVE  h[Parent(k)].tp <= h[k].tp
  <2>1. k \in 2 .. Len(heap) /\ Parent(k) \in 1 .. Len(heap)
    BY <1>1, <1>3, <1>9, Parents
  <2> QED BY <1>3, <1>5, <2>1 DEF HeapInv, Ordered
<1>10. ASSUME NEW k \in 2 .. Len(h), Parent(k) = Len(h)
       PROVE  FALSE
  BY <1>1, <1>3, <1>10, Parents
<1> QED BY <1>2, <1>5, <1>8, <1>9, <1>10 DEF HeapInv, Ordered

LEMMA PopInv ==
    ASSUME HeapTypes, HeapInv, Pop
    PROVE  HeapTypes' /\ HeapInv'
<1>1. heap \in Seq(Item) /\ Len(heap) \in Nat /\ Len(heap) >= 1 /\ sift = "none" /\ call' = "take"
  BY DEF HeapTypes, Pop
<1>2. CASE Len(heap) > 1
  <2>1. PICK h \in Seq(Item) :
             /\ h = heap' /\ Len(h) = Len(heap) - 1
             /\ h[1] = heap[Len(heap)] /\ \A k \in 2 .. Len(h) : h[k] = heap[k]
    <3> DEFINE g == [k \in 1 .. (Len(heap) - 1) |-> IF k = 1 THEN heap[Len(heap)] ELSE heap[k]]
    <3>1. \A k \in 1 .. (Len(heap) - 1) : g[k] \in Item
      BY <1>1, <1>2
    <3>2. g \in Seq(Item) /\ Len(g) = Len(heap) - 1
      BY <1>1, <3>1
    <3>3. g[1] = heap[Len(heap)] /\ \A k \in 2 .. Len(g) : g[k] = heap[k]
      BY <1>1, <1>2, <3>2
    <3>4. heap' = g
      BY <1>2 DEF Pop
    <3> HIDE DEF g
    <3> QED BY <3>2, <3>3, <3>4
  <2>2. sift' = "down" /\ at' = 1
    BY <1>2 DEF Pop
  <2>3. \A j, k \in 1 .. Len(h) : h[j].id = h[k].id => j = k
    <3>1. \A k \in 1 .. Len(h) : h[k] = IF k = 1 THEN heap[Len(heap)] ELSE heap[k]
      BY <1>1, <2>1
    <3>2. \A j, k \in 1 .. Len(heap) : heap[j].id = heap[k].id => j = k
      BY DEF HeapTypes
    <3> QED BY <1>1, <2>1, <3>1, <3>2
  <2>4. Len(h) <= MaxSize
    BY <1>1, <2>1, HeapBound DEF HeapTypes
  <2>5. HeapTypes'
    BY <1>1, <1>2, <2>1, <2>2, <2>3, <2>4 DEF HeapTypes
  <2>6. ASSUME NEW k \in 2 .. Len(h), Parent(k) # 1
        PROVE  h[Parent(k)].tp <= h[k].tp
    <3>1. k \in 2 .. Len(heap) /\ Parent(k) \in 2 .. Len(h)
      BY <1>1, <2>1, <2>6, Parents
    <3> QED BY <1>1, <2>1, <3>1 DEF HeapInv, Ordered
  <2> QED BY <2>1, <2>2, <2>5, <2>6 DEF HeapInv, Ordered
<1>3. CASE Len(heap) = 1
  <2>1. heap' = <<>> /\ sift' = sift /\ at' = at
    BY <1>3 DEF Pop
  <2> QED BY <1>1, <2>1, HeapBound DEF HeapTypes, HeapInv
<1>4. Len(heap) > 1 \/ Len(heap) = 1
  <2>1. PICK n \in Nat : n = Len(heap) /\ n >= 1
    BY <1>1
  <2>2. n > 1 \/ n = 1
    BY <2>1
  <2> QED BY <2>1, <2>2
<1> QED BY <1>2, <1>3, <1>4

LEMMA AlterInv ==
    ASSUME HeapTypes, HeapInv, NEW k \in 1 .. Len(heap), NEW t \in Times, Alter(k, t)
    PROVE  HeapTypes' /\ HeapInv'
<1>1. heap \in Seq(Item) /\ Len(heap) \in Nat /\ sift = "none" /\ heap[k] \in Item
  BY DEF HeapTypes, Alter
<1>2. PICK h \in Seq(Item) :
           /\ h = heap' /\ Len(h) = Len(heap)
           /\ h[k].tp = t /\ h[k].id = heap[k].id
           /\ \A j \in 1 .. Len(h) : j # k => h[j] = heap[j]
  <2> DEFINE x == [heap[k] EXCEPT !.tp = t]
  <2>1. x \in Item /\ x.tp = t /\ x.id = heap[k].id
    BY <1>1 DEF Item
  <2>2. heap' = [heap EXCEPT ![k] = x]
    BY DEF Alter
  <2> HIDE DEF x
  <2>3. [heap EXCEPT ![k] = x] \in Seq(Item)
    BY <1>1, <2>1
  <2> QED BY <1>1, <2>1, <2>2, <2>3
<1>3. sift' = (IF t > heap[k].tp THEN "down" ELSE "up") /\ at' = k /\ call' = "other"
  BY DEF Alter
<1>4. HeapTypes'
  <2>1. \A j, i \in 1 .. Len(h) : h[j].id = h[i].id => j = i
    BY <1>2 DEF HeapTypes
  <2> QED BY <1>1, <1>2, <1>3, <2>1 DEF HeapTypes
<1>5. \A j \in 2 .. Len(h) : heap[Parent(j)].tp <= heap[j].tp
  BY <1>1, <1>2 DEF HeapInv, Ordered
<1>6. \A j \in 1 .. Len(h) : heap[j].tp \in Nat /\ h[j].tp \in Nat
  BY <1>1, <1>2, TimesAreNumbers
<1>7. \A j \in 2 .. Len(h) : Parent(j) \in 1 .. Len(h) /\ Parent(j) # j
  BY <1>1, <1>2, Parents
<1>8. ASSUME NEW j \in 2 .. Len(h), t > heap[k].tp, Parent(j) # k
      PROVE  h[Parent(j)].tp <= h[j].tp
  BY <1>2, <1>5, <1>6, <1>7, <1>8
<1>9. ASSUME NEW j \in 2 .. Len(h), ~ (t > heap[k].tp), j # k
      PROVE  h[Parent(j)].tp <= h[j].tp
  BY <1>2, <1>5, <1>6, <1>7, <1>9
<1>10. ASSUME NEW j \in 2 .. Len(h), k > 1, Parent(j) = k
       PROVE  h[Parent(k)].tp <= h[j].tp
  <2>1. k \in 2 .. Len(h)
    BY <1>2, <1>10
  <2>2. /\ heap[Parent(k)].tp <= heap[k].tp /\ heap[k].tp <= heap[j].tp
        /\ Parent(k) \in 1 .. Len(h) /\ Parent(k) # k /\ j # k
    BY <1>5, <1>7, <1>10, <2>1
  <2> QED BY <1>2, <1>6, <2>2
<1> QED BY <1>2, <1>3, <1>4, <1>8, <1>9, <1>10 DEF HeapInv, Ordered

\* The last element is not earlier than the parent of any other one: up to five elements.
LEMMA LastIsNotEarlier ==
    ASSUME HeapTypes, HeapInv, sift = "none", Len(heap) <= 5, NEW k \in 2 .. (Len(heap) - 1)
    PROVE  heap[Parent(k)].tp <= heap[Len(heap)].tp
<1>1. heap \in Seq(Item) /\ Len(heap) \in Nat
  BY DEF HeapTypes
<1>2. \A j \in 2 .. Len(heap) : heap[Parent(j)].tp <= heap[j].tp
  BY DEF HeapInv, Ordered
<1>3. Parent(2) = 1 /\ Parent(3) = 1 /\ Parent(4) = 2 /\ Parent(5) = 2
  BY DEF Parent
<1>4. \A j \in 1 .. Len(heap) : heap[1].tp <= heap[j].tp
  BY <1>1, FirstIsEarliest
<1>5. k = 2 \/ k = 3 \/ (k = 4 /\ Len(heap) = 5)
  <2>1. PICK n \in Nat : n = Len(heap)
    BY <1>1
  <2>2. n <= 5 /\ k \in 2 .. (n - 1)
    BY <2>1
  <2> QED BY <2>1, <2>2
<1> QED BY <1>1, <1>2, <1>3, <1>4, <1>5

LEMMA EraseInv ==
    ASSUME HeapTypes, HeapInv, EraseSize <= 5, NEW k \in 1 .. Len(heap), Erase(k)
    PROVE  HeapTypes' /\ HeapInv'
<1> DEFINE n == Len(heap)
<1>1. /\ heap \in Seq(Item) /\ n \in Nat /\ sift = "none" /\ k \in 2 .. n /\ call' = "other"
      /\ n <= 5 /\ n <= MaxSize /\ MaxSize \in Nat
  BY HeapBound DEF HeapTypes, Erase
<1>2. PICK h \in Seq(Item) :
           /\ h = heap' /\ Len(h) = n - 1
           /\ \A j \in 1 .. (n - 1) : h[j] = IF j = k THEN heap[n] ELSE heap[j]
  <2> DEFINE g == [j \in 1 .. (n - 1) |-> IF j = k THEN heap[n] ELSE heap[j]]
  <2>1. \A j \in 1 .. (n - 1) : g[j] \in Item
    BY <1>1
  <2>2. g \in Seq(Item) /\ Len(g) = n - 1
    BY <1>1, <2>1
  <2>3. heap' = g
    BY DEF Erase
  <2> QED BY <2>2, <2>3
<1> HIDE DEF n
<1>3. \A j, i \in 1 .. Len(h) : h[j].id = h[i].id => j = i
  <2>1. \A j, i \in 1 .. n : heap[j].id = heap[i].id => j = i
    BY DEF HeapTypes, n
  <2> QED BY <1>1, <1>2, <2>1
<1>4. \A j \in 2 .. n : heap[Parent(j)].tp <= heap[j].tp
  BY <1>1 DEF HeapInv, Ordered, n
<1>5. \A j \in 2 .. (n - 1) : heap[Parent(j)].tp <= heap[n].tp
  BY <1>1, LastIsNotEarlier DEF n
<1>6. \A j \in 2 .. (n - 1) : Parent(j) \in 1 .. (n - 1) /\ Parent(j) # j
  BY <1>1, Parents
<1>7. ASSUME NEW j \in 2 .. (n - 1), Parent(j) # k
      PROVE  h[Parent(j)].tp <= h[j].tp
  <2>1. h[Parent(j)] = heap[Parent(j)]
    BY <1>2, <1>6, <1>7
  <2>2. CASE j = k
    BY <1>2, <1>5, <2>1, <2>2
  <2>3. CASE j # k
    <3>1. h[j] = heap[j] /\ j \in 2 .. n
      BY <1>1, <1>2, <2>3
    <3> QED BY <1>4, <2>1, <3>1
  <2> QED BY <2>2, <2>3
<1>8. ASSUME NEW j \in 2 .. (n - 1), Parent(j) = k
      PROVE  h[Parent(k)].tp <= h[j].tp
  <2>1. k \in 2 .. (n - 1) /\ j # k /\ j \in 2 .. n
    BY <1>1, <1>6, <1>8
  <2>2. h[j] = heap[j] /\ h[Parent(k)] = heap[Parent(k)]
    BY <1>2, <1>6, <2>1
  <2>3. heap[Parent(k)].tp <= heap[k].tp /\ heap[k].tp <= heap[j].tp
    BY <1>1, <1>4, <1>8, <2>1
  <2>4. heap[Parent(k)].tp \in Nat /\ heap[k].tp \in Nat /\ heap[j].tp \in Nat
    <3>1. Parent(k) \in 1 .. n
      BY <1>1, <1>6, <2>1
    <3> QED BY <1>1, <2>1, <3>1, TimesAreNumbers DEF n
  <2> QED BY <2>2, <2>3, <2>4
<1>9. CASE k = n
  <2>1. sift' = "none" /\ at' = at
    BY <1>1, <1>9 DEF Erase, n
  <2>2. HeapTypes'
    BY <1>1, <1>2, <1>3, <2>1 DEF HeapTypes
  <2>3. \A j \in 2 .. (n - 1) : Parent(j) # k
    BY <1>1, <1>6, <1>9
  <2> QED BY <1>2, <1>7, <2>1, <2>2, <2>3 DEF HeapInv, Ordered
<1>10. CASE k # n
  <2>1. sift' = "down" /\ at' = k
    BY <1>10 DEF Erase, n
  <2>2. HeapTypes'
    BY <1>1, <1>2, <1>3, <1>10, <2>1 DEF HeapTypes
  <2> QED BY <1>2, <1>7, <1>8, <2>1, <2>2 DEF HeapInv, Ordered
<1> QED BY <1>9, <1>10

\* What a round of a loop does when it goes on: the element and the one it is exchanged
\* with.
LEMMA Swapped ==
    ASSUME HeapTypes, NEW i \in 1 .. Len(heap), NEW j \in 1 .. Len(heap), i # j
    PROVE  /\ Swap(i, j) \in Seq(Item) /\ Len(Swap(i, j)) = Len(heap)
           /\ Swap(i, j)[i] = heap[j] /\ Swap(i, j)[j] = heap[i]
           /\ \A k \in 1 .. Len(heap) : k # i /\ k # j => Swap(i, j)[k] = heap[k]
           /\ \A k, l \in 1 .. Len(heap) : Swap(i, j)[k].id = Swap(i, j)[l].id => k = l
<1>1. heap \in Seq(Item) /\ \A k, l \in 1 .. Len(heap) : heap[k].id = heap[l].id => k = l
  BY DEF HeapTypes
<1>2. /\ Swap(i, j) \in Seq(Item) /\ Len(Swap(i, j)) = Len(heap)
      /\ Swap(i, j)[i] = heap[j] /\ Swap(i, j)[j] = heap[i]
      /\ \A k \in 1 .. Len(heap) : k # i /\ k # j => Swap(i, j)[k] = heap[k]
  BY <1>1 DEF Swap
<1> QED BY <1>1, <1>2

LEMMA SiftUpInv ==
    ASSUME HeapTypes, HeapInv, SiftUp
    PROVE  HeapTypes' /\ HeapInv'
<1>1. heap \in Seq(Item) /\ Len(heap) \in Nat /\ sift = "up" /\ at \in 1 .. Len(heap) /\ call' = call
  BY DEF HeapTypes, SiftUp
<1>2. \A k \in 2 .. Len(heap) : k # at => heap[Parent(k)].tp <= heap[k].tp
  BY <1>1 DEF HeapInv, Ordered
<1>3. \A k \in 1 .. Len(heap) : heap[k].tp \in Nat
  BY <1>1, TimesAreNumbers
<1>4. \A k \in 2 .. Len(heap) : Parent(k) \in 1 .. Len(heap) /\ Parent(k) < k
  BY <1>1, Parents
<1>5. CASE at > 1 /\ Lower(heap[Parent(at)], heap[at])
  <2>1. PICK p \in 1 .. Len(heap) : p = Parent(at) /\ p # at
    BY <1>1, <1>4, <1>5
  <2>2. PICK h \in Seq(Item) :
             /\ h = heap' /\ Len(h) = Len(heap)
             /\ h[at] = heap[p] /\ h[p] = heap[at]
             /\ \A k \in 1 .. Len(h) : k # at /\ k # p => h[k] = heap[k]
             /\ \A k, l \in 1 .. Len(h) : h[k].id = h[l].id => k = l
    <3>1. heap' = Swap(at, p)
      BY <1>5, <2>1 DEF SiftUp
    <3>2. /\ Swap(at, p) \in Seq(Item) /\ Len(Swap(at, p)) = Len(heap)
          /\ Swap(at, p)[at] = heap[p] /\ Swap(at, p)[p] = heap[at]
          /\ \A k \in 1 .. Len(heap) : k # at /\ k # p => Swap(at, p)[k] = heap[k]
          /\ \A k, l \in 1 .. Len(heap) : Swap(at, p)[k].id = Swap(at, p)[l].id => k = l
      BY <1>1, <2>1, Swapped
    <3> QED BY <3>1, <3>2
  <2>3. at' = p /\ sift' = "up"
    BY <1>1, <1>5, <2>1 DEF SiftUp
  <2>4. heap[p].tp > heap[at].tp
    BY <1>5, <2>1 DEF Lower
  <2>5. HeapTypes'
    BY <1>1, <2>1, <2>2, <2>3 DEF HeapTypes
  <2>6. \A k \in 2 .. Len(heap) : Parent(k) = at => heap[p].tp <= heap[k].tp
    BY <1>1, <1>5, <2>1 DEF HeapInv
  <2>7. ASSUME NEW k \in 2 .. Len(heap), k # p
        PROVE  h[Parent(k)].tp <= h[k].tp
    <3>1. CASE k = at
      BY <1>3, <2>1, <2>2, <2>4, <3>1
    <3>2. CASE k # at /\ Parent(k) = at
      BY <2>2, <2>6, <2>7, <3>2
    <3>3. CASE k # at /\ Parent(k) = p
      <4>1. h[k] = heap[k] /\ h[Parent(k)] = heap[at] /\ heap[p].tp <= heap[k].tp
        BY <1>2, <2>2, <2>7, <3>3
      <4>2. heap[p].tp \in Nat /\ heap[at].tp \in Nat /\ heap[k].tp \in Nat
        BY <1>1, <1>3
      <4> QED BY <2>4, <4>1, <4>2
    <3>4. CASE k # at /\ Parent(k) # at /\ Parent(k) # p
      BY <1>2, <1>4, <2>2, <2>7, <3>4
    <3> QED BY <3>1, <3>2, <3>3, <3>4
  <2>8. ASSUME NEW k \in 2 .. Len(heap), p > 1, Parent(k) = p
        PROVE  h[Parent(p)].tp <= h[k].tp
    <3>1. p \in 2 .. Len(heap) /\ Parent(p) < p /\ p < at /\ Parent(p) \in 1 .. Len(heap)
      BY <1>1, <1>4, <1>5, <2>1, <2>8
    <3>2. h[Parent(p)] = heap[Parent(p)] /\ heap[Parent(p)].tp <= heap[p].tp
      BY <1>2, <2>2, <3>1
    <3>3. CASE k = at
      BY <2>2, <3>2, <3>3
    <3>4. CASE k # at
      <4>1. k # p
        BY <1>4, <2>8
      <4>2. h[k] = heap[k] /\ heap[p].tp <= heap[k].tp
        BY <1>2, <2>2, <2>8, <3>4, <4>1
      <4> QED BY <1>3, <3>1, <3>2, <4>2
    <3> QED BY <3>3, <3>4
  <2> QED BY <2>2, <2>3, <2>5, <2>7, <2>8 DEF HeapInv, Ordered
<1>6. CASE ~ (at > 1 /\ Lower(heap[Parent(at)], heap[at]))
  <2>1. heap' = heap /\ at' = at /\ sift' = "none"
    BY <1>6 DEF SiftUp
  <2>2. \A k \in 2 .. Len(heap) : heap[Parent(k)].tp <= heap[k].tp
    BY <1>1, <1>2, <1>3, <1>4, <1>6 DEF Lower
  <2> QED BY <1>1, <2>1, <2>2 DEF HeapTypes, HeapInv, Ordered
<1> QED BY <1>5, <1>6

\* Of an element and its children the largest is not later than the others.
LEMMA LargestIs ==
    ASSUME HeapTypes, NEW i \in 1 .. Len(heap)
    PROVE  /\ Largest(i) = i \/ (Largest(i) \in 2 .. Len(heap) /\ Parent(Largest(i)) = i)
           /\ heap[Largest(i)].tp <= heap[i].tp
           /\ \A k \in 2 .. Len(heap) : Parent(k) = i => heap[Largest(i)].tp <= heap[k].tp
<1>1. heap \in Seq(Item) /\ Len(heap) \in Nat /\ i \in Nat
  BY DEF HeapTypes
<1>2. \A k \in 1 .. Len(heap) : heap[k].tp \in Nat
  BY <1>1, TimesAreNumbers
<1> DEFINE l == IF Left(i) <= Len(heap) /\ Lower(heap[i], heap[Left(i)]) THEN Left(i) ELSE i
<1>3. Left(i) = 2 * i /\ Right(i) = 2 * i + 1 /\ Left(i) >= 2 /\ Right(i) >= 2
  BY <1>1 DEF Left, Right
<1>4. \A k \in 2 .. Len(heap) : Parent(k) = i <=> k = Left(i) \/ k = Right(i)
  BY <1>1, <1>3, Parents
<1>5. /\ l = i \/ (l = Left(i) /\ Left(i) \in 2 .. Len(heap))
      /\ heap[l].tp <= heap[i].tp /\ l \in 1 .. Len(heap)
      /\ Left(i) <= Len(heap) => heap[l].tp <= heap[Left(i)].tp
  BY <1>1, <1>2, <1>3 DEF Lower
<1>6. Largest(i) = IF Right(i) <= Len(heap) /\ Lower(heap[l], heap[Right(i)]) THEN Right(i) ELSE l
  BY DEF Largest
<1> HIDE DEF l
<1>7. CASE Right(i) <= Len(heap) /\ Lower(heap[l], heap[Right(i)])
  <2>1. Largest(i) = Right(i) /\ Right(i) \in 2 .. Len(heap) /\ heap[Right(i)].tp < heap[l].tp
    BY <1>1, <1>3, <1>6, <1>7 DEF Lower
  <2>2. Parent(Largest(i)) = i
    BY <1>4, <2>1
  <2>3. heap[Largest(i)].tp <= heap[i].tp
    BY <1>2, <1>5, <2>1
  <2>4. Left(i) \in 2 .. Len(heap) => heap[Largest(i)].tp <= heap[Left(i)].tp
    BY <1>2, <1>5, <2>1
  <2>5. \A k \in 2 .. Len(heap) : Parent(k) = i => heap[Largest(i)].tp <= heap[k].tp
    BY <1>2, <1>4, <2>1, <2>4
  <2> QED BY <2>1, <2>2, <2>3, <2>5
<1>8. CASE ~ (Right(i) <= Len(heap) /\ Lower(heap[l], heap[Right(i)]))
  <2>1. Largest(i) = l
    BY <1>6, <1>8
  <2>2. Right(i) \in 2 .. Len(heap) => heap[l].tp <= heap[Right(i)].tp
    BY <1>2, <1>5, <1>8 DEF Lower
  <2>3. \A k \in 2 .. Len(heap) : Parent(k) = i => heap[l].tp <= heap[k].tp
    BY <1>4, <1>5, <2>2
  <2>4. l = i \/ (l \in 2 .. Len(heap) /\ Parent(l) = i)
    BY <1>4, <1>5
  <2> QED BY <1>5, <2>1, <2>3, <2>4
<1> QED BY <1>7, <1>8

LEMMA SiftDownInv ==
    ASSUME HeapTypes, HeapInv, SiftDown
    PROVE  HeapTypes' /\ HeapInv'
<1>1. heap \in Seq(Item) /\ Len(heap) \in Nat /\ sift = "down" /\ at \in 1 .. Len(heap) /\ call' = call
  BY DEF HeapTypes, SiftDown
<1>2. \A k \in 2 .. Len(heap) : Parent(k) # at => heap[Parent(k)].tp <= heap[k].tp
  BY <1>1 DEF HeapInv, Ordered
<1>3. \A k \in 1 .. Len(heap) : heap[k].tp \in Nat
  BY <1>1, TimesAreNumbers
<1>4. \A k \in 2 .. Len(heap) : Parent(k) \in 1 .. Len(heap) /\ Parent(k) < k
  BY <1>1, Parents
<1>5. CASE Largest(at) # at
  <2>1. PICK c \in 2 .. Len(heap) : c = Largest(at) /\ Parent(c) = at /\ c # at
    BY <1>1, <1>5, LargestIs
  <2>2. PICK h \in Seq(Item) :
             /\ h = heap' /\ Len(h) = Len(heap)
             /\ h[at] = heap[c] /\ h[c] = heap[at]
             /\ \A k \in 1 .. Len(h) : k # at /\ k # c => h[k] = heap[k]
             /\ \A k, l \in 1 .. Len(h) : h[k].id = h[l].id => k = l
    <3>1. heap' = Swap(at, c) /\ c \in 1 .. Len(heap)
      BY <1>5, <2>1 DEF SiftDown
    <3>2. /\ Swap(at, c) \in Seq(Item) /\ Len(Swap(at, c)) = Len(heap)
          /\ Swap(at, c)[at] = heap[c] /\ Swap(at, c)[c] = heap[at]
          /\ \A k \in 1 .. Len(heap) : k # at /\ k # c => Swap(at, c)[k] = heap[k]
          /\ \A k, l \in 1 .. Len(heap) : Swap(at, c)[k].id = Swap(at, c)[l].id => k = l
      BY <1>1, <2>1, Swapped
    <3> QED BY <3>1, <3>2
  <2>3. at' = c /\ sift' = "down"
    BY <1>1, <1>5, <2>1 DEF SiftDown
  <2>4. /\ heap[c].tp <= heap[at].tp
        /\ \A k \in 2 .. Len(heap) : Parent(k) = at => heap[c].tp <= heap[k].tp
    BY <1>1, <2>1, LargestIs
  <2>5. HeapTypes'
    BY <1>1, <2>1, <2>2, <2>3 DEF HeapTypes
  <2>6. at > 1 => \A k \in 2 .. Len(heap) : Parent(k) = at => heap[Parent(at)].tp <= heap[k].tp
    BY <1>1 DEF HeapInv
  <2>7. ASSUME NEW k \in 2 .. Len(heap), Parent(k) # c
        PROVE  h[Parent(k)].tp <= h[k].tp
    <3>1. CASE k = c
      BY <2>1, <2>2, <2>4, <3>1
    <3>2. CASE k = at
      <4>1. Parent(at) # at /\ Parent(at) # c /\ Parent(at) \in 1 .. Len(heap)
        BY <1>1, <1>4, <2>1, <2>7, <3>2
      <4>2. heap[Parent(at)].tp <= heap[c].tp
        BY <2>1, <2>6, <3>2
      <4> QED BY <2>2, <3>2, <4>1, <4>2
    <3>3. CASE k # c /\ k # at /\ Parent(k) = at
      BY <2>2, <2>4, <3>3
    <3>4. CASE k # c /\ k # at /\ Parent(k) # at
      BY <1>2, <1>4, <2>2, <2>7, <3>4
    <3> QED BY <3>1, <3>2, <3>3, <3>4
  <2>8. ASSUME NEW k \in 2 .. Len(heap), Parent(k) = c
        PROVE  h[Parent(c)].tp <= h[k].tp
    <3>1. k # c /\ k # at
      BY <1>1, <1>4, <2>1, <2>8
    <3>2. heap[c].tp <= heap[k].tp
      BY <1>2, <2>1, <2>8
    <3> QED BY <2>1, <2>2, <3>1, <3>2
  <2> QED BY <2>2, <2>3, <2>5, <2>7, <2>8 DEF HeapInv, Ordered
<1>6. CASE Largest(at) = at
  <2>1. heap' = heap /\ at' = at /\ sift' = "none"
    BY <1>6 DEF SiftDown
  <2>2. \A k \in 2 .. Len(heap) : heap[Parent(k)].tp <= heap[k].tp
    BY <1>1, <1>2, <1>6, LargestIs
  <2> QED BY <1>1, <2>1, <2>2 DEF HeapTypes, HeapInv, Ordered
<1> QED BY <1>5, <1>6

LEMMA HeapStep ==
    ASSUME EraseSize <= 5, HeapTypes, HeapInv, [HeapNext]_heapVars
    PROVE  HeapTypes' /\ HeapInv'
<1>1. CASE UNCHANGED heapVars
  BY <1>1 DEF heapVars, HeapTypes, HeapInv, Ordered
<1> QED BY <1>1, PushInv, PopInv, EraseInv, AlterInv, SiftUpInv, SiftDownInv
        DEF HeapNext, Operation

LEMMA HeapInvariance ==
    ASSUME EraseSize <= 5
    PROVE  HeapSpec => [](HeapTypes /\ HeapInv)
<1>1. HeapInit => HeapTypes /\ HeapInv
  BY HeapInitInv
<1>2. HeapTypes /\ HeapInv /\ [HeapNext]_heapVars => (HeapTypes /\ HeapInv)'
  BY HeapStep
<1> QED BY <1>1, <1>2, PTL DEF HeapSpec

\* The items of a vector, and the time point of each.
IdsOf(h) == {h[k].id : k \in 1 .. Len(h)}
TimesOf(h) == [i \in IdsOf(h) |-> h[CHOOSE k \in 1 .. Len(h) : h[k].id = i].tp]
Distinct(h) == \A j, k \in 1 .. Len(h) : h[j].id = h[k].id => j = k

LEMMA TimeOfItem ==
    ASSUME NEW h, Distinct(h), NEW k \in 1 .. Len(h)
    PROVE  h[k].id \in IdsOf(h) /\ TimesOf(h)[h[k].id] = h[k].tp
<1> DEFINE j == CHOOSE j \in 1 .. Len(h) : h[j].id = h[k].id
<1>1. j \in 1 .. Len(h) /\ h[j].id = h[k].id
  OBVIOUS
<1> HIDE DEF j
<1>2. j = k
  BY <1>1 DEF Distinct
<1>3. h[k].id \in IdsOf(h)
  BY DEF IdsOf
<1>4. TimesOf(h)[h[k].id] = h[j].tp
  BY <1>3 DEF TimesOf, j
<1> QED BY <1>2, <1>3, <1>4

\* A function is the time points of a vector if it has the items and their time points.
LEMMA TimesAre ==
    ASSUME NEW h, Distinct(h), NEW f, f = [i \in DOMAIN f |-> f[i]], DOMAIN f = IdsOf(h),
           \A k \in 1 .. Len(h) : f[h[k].id] = h[k].tp
    PROVE  f = TimesOf(h)
<1>1. ASSUME NEW i \in IdsOf(h)
      PROVE  f[i] = TimesOf(h)[i]
  <2>1. PICK k \in 1 .. Len(h) : i = h[k].id
    BY DEF IdsOf
  <2> QED BY <2>1, TimeOfItem
<1>2. TimesOf(h) = [i \in IdsOf(h) |-> TimesOf(h)[i]]
  BY DEF TimesOf
<1> QED BY <1>1, <1>2

LEMMA PushPuts ==
    ASSUME HeapTypes, HeapTypes', NEW x \in Item, Push(x)
    PROVE  x.id \in Ids /\ x.tp \in Times /\ Items!Put(x.id, x.tp)
<1>1. heap \in Seq(Item) /\ heap' \in Seq(Item) /\ Distinct(heap) /\ Distinct(heap')
  BY DEF HeapTypes, Distinct
<1>2. heap' = Append(heap, x) /\ x.id \notin IdsOf(heap) /\ call' = "other"
  BY DEF Push, Stored, IdsOf
<1>3. /\ Len(heap) \in Nat /\ Len(heap') = Len(heap) + 1 /\ heap'[Len(heap')] = x
      /\ \A k \in 1 .. Len(heap) : heap'[k] = heap[k] /\ k \in 1 .. Len(heap')
      /\ \A k \in 1 .. Len(heap') : k \in 1 .. Len(heap) \/ k = Len(heap')
  BY <1>1, <1>2
<1>4. IdsOf(heap') = IdsOf(heap) \cup {x.id}
  BY <1>3 DEF IdsOf
<1> DEFINE f == [j \in IdsOf(heap) \cup {x.id} |-> IF j = x.id THEN x.tp ELSE TimesOf(heap)[j]]
<1>5. \A k \in 1 .. Len(heap') : f[heap'[k].id] = heap'[k].tp
  <2>1. ASSUME NEW k \in 1 .. Len(heap)
        PROVE  f[heap'[k].id] = heap'[k].tp
    <3>1. heap[k].id \in IdsOf(heap) /\ TimesOf(heap)[heap[k].id] = heap[k].tp
      BY <1>1, TimeOfItem
    <3> QED BY <1>2, <1>3, <3>1
  <2>2. f[x.id] = x.tp
    OBVIOUS
  <2> HIDE DEF f
  <2> QED BY <1>3, <2>1, <2>2
<1>6. f = [j \in DOMAIN f |-> f[j]] /\ DOMAIN f = IdsOf(heap')
  BY <1>4
<1>7. f = TimesOf(heap')
  <2> HIDE DEF f
  <2> QED BY <1>1, <1>5, <1>6, TimesAre
<1>8. DOMAIN TimesOf(heap) = IdsOf(heap)
  BY DEF TimesOf
<1> QED BY <1>2, <1>7, <1>8, TimesAreNumbers DEF Items!Put, TimesOf, IdsOf, Stored

\* What is left of a vector, in whatever order, has the time points it had.
LEMMA TimesOfPart ==
    ASSUME NEW h, NEW g, Distinct(h), Distinct(g),
           \A k \in 1 .. Len(g) : \E m \in 1 .. Len(h) : g[k] = h[m]
    PROVE  TimesOf(g) = [j \in IdsOf(g) |-> TimesOf(h)[j]]
<1> DEFINE f == [j \in IdsOf(g) |-> TimesOf(h)[j]]
<1>1. \A k \in 1 .. Len(g) : f[g[k].id] = g[k].tp
  <2>1. ASSUME NEW k \in 1 .. Len(g)
        PROVE  f[g[k].id] = g[k].tp
    <3>1. PICK m \in 1 .. Len(h) : g[k] = h[m]
      OBVIOUS
    <3>2. g[k].id \in IdsOf(g)
      BY DEF IdsOf
    <3>3. TimesOf(h)[h[m].id] = h[m].tp
      BY TimeOfItem
    <3> QED BY <3>1, <3>2, <3>3
  <2> QED BY <2>1
<1>2. f = [j \in DOMAIN f |-> f[j]] /\ DOMAIN f = IdsOf(g)
  OBVIOUS
<1> HIDE DEF f
<1>3. f = TimesOf(g)
  BY <1>1, <1>2, TimesAre
<1> QED BY <1>3 DEF f

LEMMA PopTakes ==
    ASSUME HeapTypes, HeapTypes', HeapInv, Pop
    PROVE  \E i \in Ids : Items!TakeFirst(i)
<1>1. heap \in Seq(Item) /\ heap' \in Seq(Item) /\ Distinct(heap) /\ Distinct(heap')
  BY DEF HeapTypes, Distinct
<1>2. PICK n \in Nat : n = Len(heap) /\ n >= 1
  BY <1>1 DEF Pop
<1>3. sift = "none" /\ call' = "take" /\ heap # <<>>
  BY DEF Pop
<1>4. /\ Len(heap') = n - 1
      /\ \A k \in 1 .. (n - 1) : heap'[k] = IF k = 1 THEN heap[n] ELSE heap[k]
  <2>1. CASE n > 1
    BY <1>2, <2>1 DEF Pop
  <2>2. CASE n = 1
    <3>1. heap' = <<>>
      BY <1>2, <2>2 DEF Pop
    <3> QED BY <2>2, <3>1
  <2>3. n > 1 \/ n = 1
    BY <1>2
  <2> QED BY <2>1, <2>2, <2>3
<1>5. PICK i : i = heap[1].id
  OBVIOUS
<1>6. IdsOf(heap') = IdsOf(heap) \ {i}
  <2>1. ASSUME NEW k \in 1 .. (n - 1)
        PROVE  heap'[k].id \in IdsOf(heap) \ {i}
    <3>1. PICK m \in 2 .. n : heap'[k] = heap[m]
      BY <1>2, <1>4
    <3>2. m \in 1 .. n /\ 1 \in 1 .. n /\ m # 1
      BY <1>2
    <3>3. heap[m].id # heap[1].id
      BY <1>1, <1>2, <3>2 DEF Distinct
    <3> QED BY <1>2, <1>5, <3>1, <3>2, <3>3 DEF IdsOf
  <2>2. ASSUME NEW m \in 1 .. n, heap[m].id # i
        PROVE  heap[m].id \in IdsOf(heap')
    <3>1. m # 1
      BY <1>5, <2>2
    <3>2. CASE m = n
      <4>1. 1 \in 1 .. (n - 1) /\ heap'[1] = heap[m]
        BY <1>2, <1>4, <3>1, <3>2
      <4> QED BY <1>4, <4>1 DEF IdsOf
    <3>3. CASE m # n
      <4>1. m \in 1 .. (n - 1) /\ heap'[m] = heap[m]
        BY <1>2, <1>4, <3>1, <3>3
      <4> QED BY <1>4, <4>1 DEF IdsOf
    <3> QED BY <3>2, <3>3
  <2> QED BY <1>2, <1>4, <2>1, <2>2 DEF IdsOf
<1>7. TimesOf(heap') = [j \in IdsOf(heap') |-> TimesOf(heap)[j]]
  <2>1. \A k \in 1 .. Len(heap') : \E m \in 1 .. Len(heap) : heap'[k] = heap[m]
    BY <1>2, <1>4
  <2> QED BY <1>1, <2>1, TimesOfPart
<1>8. i \in IdsOf(heap) /\ i \in Ids
  <2>1. 1 \in 1 .. Len(heap) /\ heap[1] \in Item
    BY <1>1, <1>2
  <2> QED BY <1>5, <2>1, TimesAreNumbers DEF IdsOf
<1>9. ASSUME NEW j \in IdsOf(heap)
      PROVE  TimesOf(heap)[i] <= TimesOf(heap)[j]
  <2>1. PICK k \in 1 .. n : j = heap[k].id
    BY <1>2 DEF IdsOf
  <2>2. heap[1].tp <= heap[k].tp
    BY <1>2, <1>3, FirstIsEarliest
  <2>3. 1 \in 1 .. n
    BY <1>2
  <2> QED BY <1>1, <1>2, <1>5, <2>1, <2>2, <2>3, TimeOfItem
<1>10. DOMAIN TimesOf(heap) = IdsOf(heap)
  BY DEF TimesOf
<1>11. Items!TakeFirst(i)
  BY <1>3, <1>6, <1>7, <1>8, <1>9, <1>10 DEF Items!TakeFirst, TimesOf, IdsOf, Stored
<1> QED BY <1>8, <1>11

LEMMA EraseRemoves ==
    ASSUME HeapTypes, HeapTypes', NEW p \in 1 .. Len(heap), Erase(p)
    PROVE  \E i \in Ids : Items!Remove(i)
<1>1. heap \in Seq(Item) /\ heap' \in Seq(Item) /\ Distinct(heap) /\ Distinct(heap')
  BY DEF HeapTypes, Distinct
<1>2. PICK n \in Nat : n = Len(heap)
  BY <1>1
<1>3. call' = "other" /\ p \in 1 .. n
  BY <1>2 DEF Erase
<1>4. /\ Len(heap') = n - 1
      /\ \A k \in 1 .. (n - 1) : heap'[k] = IF k = p THEN heap[n] ELSE heap[k]
  BY <1>2, <1>3 DEF Erase
<1>5. PICK i : i = heap[p].id
  OBVIOUS
<1>6. IdsOf(heap') = IdsOf(heap) \ {i}
  <2>1. ASSUME NEW k \in 1 .. (n - 1)
        PROVE  heap'[k].id \in IdsOf(heap) \ {i}
    <3>1. PICK m \in 1 .. n : heap'[k] = heap[m] /\ m # p
      BY <1>2, <1>3, <1>4
    <3>2. heap[m].id # heap[p].id
      BY <1>1, <1>2, <1>3, <3>1 DEF Distinct
    <3> QED BY <1>2, <1>5, <3>1, <3>2 DEF IdsOf
  <2>2. ASSUME NEW m \in 1 .. n, heap[m].id # i
        PROVE  heap[m].id \in IdsOf(heap')
    <3>1. m # p
      BY <1>5, <2>2
    <3>2. CASE m = n
      <4>1. p \in 1 .. (n - 1) /\ heap'[p] = heap[m]
        BY <1>2, <1>3, <1>4, <3>1, <3>2
      <4> QED BY <1>4, <4>1 DEF IdsOf
    <3>3. CASE m # n
      <4>1. m \in 1 .. (n - 1) /\ heap'[m] = heap[m]
        BY <1>2, <1>4, <3>1, <3>3
      <4> QED BY <1>4, <4>1 DEF IdsOf
    <3> QED BY <3>2, <3>3
  <2> QED BY <1>2, <1>4, <2>1, <2>2 DEF IdsOf
<1>7. TimesOf(heap') = [j \in IdsOf(heap') |-> TimesOf(heap)[j]]
  <2>1. \A k \in 1 .. Len(heap') : \E m \in 1 .. Len(heap) : heap'[k] = heap[m]
    BY <1>2, <1>4
  <2> QED BY <1>1, <2>1, TimesOfPart
<1>8. i \in IdsOf(heap) /\ i \in Ids
  <2>1. heap[p] \in Item
    BY <1>1
  <2> QED BY <1>5, <2>1, TimesAreNumbers DEF IdsOf
<1>9. DOMAIN TimesOf(heap) = IdsOf(heap)
  BY DEF TimesOf
<1>10. Items!Remove(i)
  BY <1>3, <1>6, <1>7, <1>8, <1>9 DEF Items!Remove, TimesOf, IdsOf, Stored
<1> QED BY <1>8, <1>10

LEMMA AlterMoves ==
    ASSUME HeapTypes, HeapTypes', NEW p \in 1 .. Len(heap), NEW t \in Times, Alter(p, t)
    PROVE  \E i \in Ids : Items!Move(i, t)
<1>1. heap \in Seq(Item) /\ heap' \in Seq(Item) /\ Distinct(heap) /\ Distinct(heap')
  BY DEF HeapTypes, Distinct
<1>2. call' = "other" /\ heap' = [heap EXCEPT ![p].tp = t] /\ heap[p] \in Item
  BY <1>1 DEF Alter
<1>3. /\ Len(heap') = Len(heap) /\ heap'[p].tp = t /\ heap'[p].id = heap[p].id
      /\ \A k \in 1 .. Len(heap) : k # p => heap'[k] = heap[k]
  BY <1>1, <1>2 DEF Item
<1>4. PICK i : i = heap[p].id
  OBVIOUS
<1>5. IdsOf(heap') = IdsOf(heap)
  <2>1. \A k \in 1 .. Len(heap) : heap'[k].id = heap[k].id
    BY <1>3
  <2> QED BY <1>3, <2>1 DEF IdsOf
<1>6. i \in IdsOf(heap) /\ i \in Ids
  BY <1>2, <1>4, TimesAreNumbers DEF IdsOf
<1>7. DOMAIN TimesOf(heap) = IdsOf(heap)
  BY DEF TimesOf
<1> DEFINE f == [TimesOf(heap) EXCEPT ![i] = t]
<1>8. ASSUME NEW k \in 1 .. Len(heap')
      PROVE  f[heap'[k].id] = heap'[k].tp
  <2>1. CASE k = p
    BY <1>3, <1>4, <1>6, <1>7, <2>1
  <2>2. CASE k # p
    <3>1. heap'[k] = heap[k] /\ k \in 1 .. Len(heap)
      BY <1>3, <2>2
    <3>2. heap[k].id \in IdsOf(heap) /\ TimesOf(heap)[heap[k].id] = heap[k].tp
      BY <1>1, <3>1, TimeOfItem
    <3>3. heap[k].id # i
      BY <1>1, <1>4, <2>2, <3>1 DEF Distinct
    <3> QED BY <1>7, <3>1, <3>2, <3>3
  <2> QED BY <2>1, <2>2
<1>9. f = [j \in DOMAIN f |-> f[j]] /\ DOMAIN f = IdsOf(heap')
  BY <1>5, <1>7
<1>10. f = TimesOf(heap')
  <2> HIDE DEF f
  <2> QED BY <1>1, <1>8, <1>9, TimesAre
<1>11. Items!Move(i, t)
  BY <1>2, <1>6, <1>7, <1>10 DEF Items!Move, TimesOf, IdsOf, Stored
<1> QED BY <1>6, <1>11

LEMMA SiftKeeps ==
    ASSUME HeapTypes, HeapTypes', SiftUp \/ SiftDown
    PROVE  TimesOf(heap') = TimesOf(heap) /\ call' = call
<1>1. heap \in Seq(Item) /\ Distinct(heap) /\ Distinct(heap') /\ Len(heap) \in Nat
  BY DEF HeapTypes, Distinct
<1>2. call' = call
  BY DEF SiftUp, SiftDown
<1>3. CASE heap' = heap
  BY <1>2, <1>3
<1>4. ASSUME NEW i \in 1 .. Len(heap), NEW j \in 1 .. Len(heap), i # j, heap' = Swap(i, j)
      PROVE  TimesOf(heap') = TimesOf(heap)
  <2>1. /\ Len(heap') = Len(heap) /\ heap'[i] = heap[j] /\ heap'[j] = heap[i]
        /\ \A k \in 1 .. Len(heap) : k # i /\ k # j => heap'[k] = heap[k]
    BY <1>4, Swapped
  <2>2. /\ \A k \in 1 .. Len(heap') : \E m \in 1 .. Len(heap) : heap'[k] = heap[m]
        /\ \A m \in 1 .. Len(heap) : \E k \in 1 .. Len(heap') : heap'[k] = heap[m]
    BY <2>1
  <2>3. IdsOf(heap') = IdsOf(heap)
    <3>1. ASSUME NEW k \in 1 .. Len(heap') PROVE heap'[k].id \in IdsOf(heap)
      BY <2>2 DEF IdsOf
    <3>2. ASSUME NEW m \in 1 .. Len(heap) PROVE heap[m].id \in IdsOf(heap')
      BY <2>2 DEF IdsOf
    <3> QED BY <3>1, <3>2 DEF IdsOf
  <2>4. TimesOf(heap') = [q \in IdsOf(heap') |-> TimesOf(heap)[q]]
    BY <1>1, <2>2, TimesOfPart
  <2>5. TimesOf(heap) = [q \in IdsOf(heap) |-> TimesOf(heap)[q]]
    BY DEF TimesOf
  <2> QED BY <2>3, <2>4, <2>5
<1>5. heap' = heap \/ \E i, j \in 1 .. Len(heap) : i # j /\ heap' = Swap(i, j)
  <2>1. CASE SiftUp
    <3>1. at \in 1 .. Len(heap)
      BY <2>1 DEF HeapTypes, SiftUp
    <3>2. at > 1 => Parent(at) \in 1 .. Len(heap) /\ Parent(at) # at
      BY <1>1, <3>1, Parents
    <3> QED BY <2>1, <3>1, <3>2 DEF SiftUp
  <2>2. CASE SiftDown
    <3>1. at \in 1 .. Len(heap)
      BY <2>2 DEF HeapTypes, SiftDown
    <3>2. Largest(at) # at => Largest(at) \in 1 .. Len(heap)
      BY <1>1, <3>1, LargestIs
    <3> QED BY <2>2, <3>1, <3>2 DEF SiftDown
  <2> QED BY <2>1, <2>2
<1> QED BY <1>2, <1>3, <1>4, <1>5

LEMMA ItemsInit == HeapInit => Items!Init
<1> SUFFICES ASSUME HeapInit
             PROVE  Items!Init
  OBVIOUS
<1>1. heap = <<>> /\ call = "other"
  BY DEF HeapInit
<1>2. Stored = {}
  BY <1>1 DEF Stored
<1>3. [i \in Stored |-> heap[CHOOSE k \in 1 .. Len(heap) : heap[k].id = i].tp] = <<>>
  <2>1. DOMAIN <<>> = {}
    OBVIOUS
  <2> QED BY <1>2, <2>1
<1> QED BY <1>1, <1>3 DEF Items!Init

ItemTimes == [i \in Stored |-> heap[CHOOSE k \in 1 .. Len(heap) : heap[k].id = i].tp]

LEMMA ItemsStep ==
    ASSUME HeapTypes, HeapTypes', HeapInv, [HeapNext]_heapVars
    PROVE  [Items!Next]_<<ItemTimes, call>>
<1>1. ItemTimes = TimesOf(heap) /\ ItemTimes' = TimesOf(heap')
  BY DEF ItemTimes, TimesOf, IdsOf, Stored
<1>2. ASSUME NEW x \in Item, Push(x) PROVE Items!Next
  BY <1>2, PushPuts DEF Items!Next
<1>3. CASE Pop
  BY <1>3, PopTakes DEF Items!Next
<1>4. ASSUME NEW k \in 1 .. Len(heap), Erase(k) PROVE Items!Next
  BY <1>4, EraseRemoves DEF Items!Next
<1>5. ASSUME NEW k \in 1 .. Len(heap), NEW t \in Times, Alter(k, t) PROVE Items!Next
  BY <1>5, AlterMoves DEF Items!Next
<1>6. CASE SiftUp \/ SiftDown
  BY <1>1, <1>6, SiftKeeps
<1>7. CASE UNCHANGED heapVars
  BY <1>1, <1>7 DEF heapVars
<1> QED BY <1>2, <1>3, <1>4, <1>5, <1>6, <1>7 DEF HeapNext, Operation

\* While no more than five items are queued when one is erased, the heap is a priority
\* queue of any size: front() is an earliest item after any calls.
THEOREM HeapIsPriorityQueue ==
    ASSUME EraseSize <= 5
    PROVE  HeapSpec => IsPriorityQueue
<1>1. HeapInit => Items!Init
  BY ItemsInit
<1>2. HeapTypes /\ HeapTypes' /\ HeapInv /\ [HeapNext]_heapVars => [Items!Next]_<<ItemTimes, call>>
  BY ItemsStep
<1> QED BY HeapInvariance, <1>1, <1>2, PTL DEF HeapSpec, IsPriorityQueue, Items!Spec, ItemTimes

-----------------------------------------------------------------------------
(* The scheduler *)

USE ClockAssumption, IdentAssumption DEF Never, Time, Stopped

\* The time the worker waits for is one, and no later than any entry.
LEMMA TopIsLower ==
    ASSUME TypeOK, NEW t \in TopTime
    PROVE  t \in Time /\ \A i \in Idents : t <= entry[i]
  BY DEF TopTime, TypeOK

\* What Wait does.
LEMMA WaitResult ==
    ASSUME TypeOK, Wait
    PROVE  /\ entry' = entry /\ current' = "nobody"
           /\ Stopped => worker' = "exited" /\ deadline' = deadline
           /\ ~Stopped => worker' = "waiting" /\ deadline' \in TopTime
  BY DEF Wait

\* What RunDue does.
LEMMA RunDueResult ==
    ASSUME TypeOK, NEW time, RunDue(time)
    PROVE  \/ Wait
           \/ /\ ~Stopped /\ deadline' = deadline /\ worker' = "running"
              /\ \E i \in Earliest :
                    /\ entry[i] <= time
                    /\ entry' = [entry EXCEPT ![i] = Never]
                    /\ current' = i
  BY DEF RunDue, Earliest, Queued, TypeOK

\* The invariant holds at first.
LEMMA InitInv == Init => SchedulerInv
<1> SUFFICES ASSUME Init
             PROVE  SchedulerInv
  OBVIOUS
<1>1. TypeOK
  <2>1. entry \in [Idents -> Time] /\ clock \in 1 .. MaxTime /\ now \in 0 .. clock
    BY DEF Init
  <2>2. inside \in BOOLEAN
    BY Zenon DEF Init
  <2>3. deadline \in Time
    BY DEF Init
  <2> QED BY <2>1, <2>2, <2>3 DEF Init, TypeOK, Locations
<1>2. StopInv
  BY DEF Init, StopInv
<1> QED BY <1>1, <1>2 DEF Init, SchedulerInv, NoOversleep, GoneIsUnused

\* A step that waits, or starts a function, keeps it.
LEMMA WaitInv ==
    ASSUME SchedulerInv, Wait, now' \in 0 .. clock, UNCHANGED <<clock, phase, inside>>,
           worker \in {"born", "woken", "running"}, ~inside, phase # "gone"
    PROVE  SchedulerInv'
<1>1. TypeOK
  BY DEF SchedulerInv
<1>2. CASE Stopped
  BY <1>1, <1>2, WaitResult DEF SchedulerInv, TypeOK, Locations, NoOversleep, StopInv, GoneIsUnused
<1>3. CASE ~Stopped
  <2>1. worker' = "waiting" /\ deadline' \in Time /\ entry' = entry /\ current' = "nobody"
    BY <1>1, <1>3, WaitResult, TopIsLower
  <2>2. \A i \in Idents : deadline' <= entry'[i]
    BY <1>1, <1>3, WaitResult, TopIsLower
  <2> QED BY <1>1, <1>3, <2>1, <2>2 DEF SchedulerInv, TypeOK, Locations, NoOversleep, StopInv, GoneIsUnused
<1> QED BY <1>2, <1>3

LEMMA RunDueInv ==
    ASSUME SchedulerInv, NEW time \in 0 .. clock, RunDue(time), now' = time,
           UNCHANGED <<clock, phase, inside>>,
           worker \in {"born", "woken", "running"}, ~inside, phase # "gone"
    PROVE  SchedulerInv'
<1>1. TypeOK
  BY DEF SchedulerInv
<1>2. CASE Wait
  BY <1>2, WaitInv
<1>3. CASE ~Wait
  <2>1. PICK i \in Idents : /\ ~Stopped /\ deadline' = deadline /\ worker' = "running"
                            /\ entry' = [entry EXCEPT ![i] = Never]
                            /\ current' = i
    BY <1>1, <1>3, RunDueResult DEF Earliest, Queued
  <2> QED BY <1>1, <2>1 DEF SchedulerInv, TypeOK, Locations, NoOversleep, StopInv, GoneIsUnused
<1> QED BY <1>2, <1>3

\* The invariant is inductive.
LEMMA NextInv == SchedulerInv /\ [Next]_vars => SchedulerInv'
<1> SUFFICES ASSUME SchedulerInv, [Next]_vars
             PROVE  SchedulerInv'
  OBVIOUS
<1> USE DEF SchedulerInv, TypeOK, Locations, NoOversleep, StopInv, GoneIsUnused
<1>1. ASSUME NEW i \in Idents, NEW t \in 0 .. MaxTime, Reschedule(i, t)
      PROVE  SchedulerInv'
  <2>1. entry' \in [Idents -> Time] /\ worker' \in Locations
    BY <1>1 DEF Reschedule
  <2>2. (worker' = "running" <=> worker = "running") /\ (worker' = "exited" <=> worker = "exited")
    BY <1>1 DEF Reschedule
  <2>3. NoOversleep'
    <3> SUFFICES ASSUME worker' = "waiting", NEW j \in Idents
                 PROVE  deadline' <= entry'[j]
      OBVIOUS
    <3>1. worker = "waiting" /\ ~Earlier(t) /\ deadline' = deadline
      BY <1>1 DEF Reschedule
    <3>2. PICK k \in Idents : ~(t < entry[k])
      BY <3>1 DEF Earlier
    <3>3. deadline <= entry[k] /\ deadline <= entry[j]
      BY <3>1
    <3>4. deadline <= t
      BY <3>2, <3>3
    <3> QED BY <1>1, <3>1, <3>3, <3>4 DEF Reschedule
  <2> QED BY <1>1, <2>1, <2>2, <2>3 DEF Reschedule
<1>2. CASE Start
  BY <1>2, WaitInv DEF Start
<1>3. CASE Resume
  <2>1. worker = "woken" /\ ~inside /\ phase # "gone" /\ clock \in 0 .. clock
    BY <1>3 DEF Resume
  <2>2. CASE deadline = Never
    BY <1>3, <2>1, <2>2, WaitInv DEF Resume
  <2>3. CASE deadline # Never
    BY <1>3, <2>1, <2>3, RunDueInv DEF Resume
  <2> QED BY <2>2, <2>3
<1>4. CASE Returns
  <2>1. CASE inside
    BY <1>4, <2>1 DEF Returns
  <2>2. CASE ~inside
    BY <1>4, <2>2, RunDueInv DEF Returns
  <2> QED BY <2>1, <2>2
<1>5. CASE TimeOut
  BY <1>5 DEF TimeOut
<1>6. CASE WakeForNothing
  BY <1>6 DEF WakeForNothing
<1>7. CASE SetStop
  BY <1>7 DEF SetStop
<1>8. CASE NotifyStop
  BY <1>8 DEF NotifyStop
<1>9. CASE EndStop
  BY <1>9 DEF EndStop
<1>10. CASE Tick
  BY <1>10 DEF Tick
<1>11. CASE UNCHANGED vars
  BY <1>11 DEF vars
<1> QED BY <1>1, <1>2, <1>3, <1>4, <1>5, <1>6, <1>7, <1>8, <1>9, <1>10, <1>11 DEF Next, Worker, Stop

\* The invariant, and what follows from it: the types, no wakeup lost (the worker
\* never waits past an entry), and no use of a scheduler that stop() has left.
THEOREM InvHolds == Spec => []SchedulerInv
  BY InitInv, NextInv, PTL DEF Spec

\* No wakeup is lost: the worker never sleeps past an entry of the queue.
THEOREM WakeupsAreKept == Spec => []NoOversleep
<1>1. SchedulerInv => NoOversleep
  BY DEF SchedulerInv
<1> QED BY <1>1, InvHolds, PTL

\* After stop() the worker is gone, or in the function that called stop().
THEOREM StopIsFinal == Spec => []GoneIsUnused
<1>1. SchedulerInv => GoneIsUnused
  BY DEF SchedulerInv
<1> QED BY <1>1, InvHolds, PTL

-----------------------------------------------------------------------------
(* Refinement *)

\* A function that starts is a call of the service.
LEMMA DueIsCall ==
    ASSUME SchedulerInv, NEW time \in 0 .. clock, RunDue(time), ~Wait,
           UNCHANGED <<clock, phase>>
    PROVE  \E i \in Idents :
              IF current = "nobody" THEN Service!Call(i) ELSE Service!ReturnCall(i)
<1>1. PICK i \in Earliest : /\ ~Stopped /\ entry[i] <= time
                            /\ entry' = [entry EXCEPT ![i] = Never]
                            /\ current' = i
  BY RunDueResult DEF SchedulerInv
<1>2. i \in Idents /\ \A j \in Idents : entry[i] <= entry[j]
  BY DEF Earliest, Queued
<1>3. entry[i] <= clock
  BY <1>1, <1>2 DEF SchedulerInv, TypeOK
<1> QED BY <1>1, <1>2, <1>3 DEF Service!Call, Service!ReturnCall, Service!Never

\* Every step is one of the service, or invisible to it.
LEMMA StepRefines ==
    ASSUME SchedulerInv, [Next]_vars
    PROVE  [Service!Next]_<<entry, clock, current, ~Stopped>>
<1> USE DEF Service!Next
<1>1. ASSUME NEW i \in Idents, NEW t \in 0 .. MaxTime, Reschedule(i, t)
      PROVE  Service!Next
  BY <1>1 DEF Reschedule, Service!Ask
<1>2. CASE Start
  BY <1>2, WaitResult DEF Start, SchedulerInv, StopInv
<1>3. CASE Resume
  <2>1. current = "nobody" /\ clock \in 0 .. clock
    BY <1>3 DEF Resume, SchedulerInv, StopInv, TypeOK
  <2>2. CASE Wait
    BY <1>3, <2>1, <2>2, WaitResult DEF Resume, SchedulerInv
  <2>3. CASE ~Wait
    BY <1>3, <2>1, <2>3, DueIsCall DEF Resume
  <2> QED BY <2>2, <2>3
<1>4. CASE Returns
  <2>1. current # "nobody" /\ now \in 0 .. clock
    BY <1>4 DEF Returns, SchedulerInv, StopInv, TypeOK
  <2>2. CASE inside
    BY <1>4, <2>1, <2>2 DEF Returns, Service!Return
  <2>3. CASE ~inside /\ Wait
    BY <1>4, <2>1, <2>3, WaitResult DEF Returns, SchedulerInv, Service!Return
  <2>4. CASE ~inside /\ ~Wait
    BY <1>4, <2>1, <2>4, DueIsCall DEF Returns
  <2> QED BY <2>2, <2>3, <2>4
<1>5. CASE TimeOut \/ WakeForNothing
  BY <1>5 DEF TimeOut, WakeForNothing
<1>6. CASE SetStop
  BY <1>6 DEF SetStop, Service!Close
<1>7. CASE NotifyStop \/ EndStop
  BY <1>7 DEF NotifyStop, EndStop
<1>8. CASE Tick
  BY <1>8 DEF Tick, Service!Pass
<1>9. CASE UNCHANGED vars
  BY <1>9 DEF vars
<1> QED BY <1>1, <1>2, <1>3, <1>4, <1>5, <1>6, <1>7, <1>8, <1>9 DEF Next, Worker, Stop

\* The scheduler is the wakeup service EventLoop is written against: nothing is
\* called early, twice, two at a time, or after the scheduler was stopped.
THEOREM Refinement == Spec => IsWakeupService
<1>1. Init => Service!Init
  BY DEF Init, Service!Init, Service!Never
<1>2. SchedulerInv /\ [Next]_vars => [Service!Next]_<<entry, clock, current, ~Stopped>>
  BY StepRefines
<1> QED BY <1>1, <1>2, InvHolds, PTL DEF Spec, IsWakeupService, Service!Spec
=============================================================================
