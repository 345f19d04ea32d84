---------------------------- MODULE WanderingTree ----------------------------
(***************************************************************************)
(* The persistent AVL tree of the order book.  A node is immutable: insert *)
(* and erase build a new path and share the rest, so that an iterator      *)
(* keeps reading the tree it was made from.  A tree is a value here; the   *)
(* one field the code changes in place, _height, is changed only to what a *)
(* shared node has already (Balanced).  An ordering (_less) is the set of  *)
(* the pairs of keys it holds for.                                         *)
(***************************************************************************)
EXTENDS Integers, Sequences

CONSTANTS
    Keys, Values

\* No node, and a node.
Nil == [height |-> 0]
Node(k, v, h, l, r) == [key |-> k, val |-> v, height |-> h, left |-> l, right |-> r]

\* The trees of height n and below: every child is lower.  What the code does by recursion on a
\* tree is a function on those of its height.
Trees[n \in Nat] ==
    IF n = 0 THEN {Nil}
    ELSE LET Lower == Trees[n - 1]
         IN  {Nil} \cup {t \in [key : Keys, val : Values, height : 1 .. n, left : Lower, right : Lower] :
                            t.left.height < t.height /\ t.right.height < t.height}

\* height() of a node that was not made yet is that of its children and one.
Grown(n) == 1 + IF n.left.height > n.right.height THEN n.left.height ELSE n.right.height
UpdateHeight(n) == [n EXCEPT !.height = Grown(n)]
BalanceFactor(n) == IF n = Nil THEN 0 ELSE n.left.height - n.right.height

DuplicateNode(n, l, r) == [n EXCEPT !.left = l, !.right = r]

\* Mutant: the node that sinks keeps its height.
RotateRightOnly(n) ==
    UpdateHeight(DuplicateNode(n.left, n.left.left, DuplicateNode(n, n.left.right, n.right)))

RotateRight(n) ==
    UpdateHeight(DuplicateNode(n.left, n.left.left,
        UpdateHeight(DuplicateNode(n, n.left.right, n.right))))

RotateLeft(n) ==
    UpdateHeight(DuplicateNode(n.right,
        UpdateHeight(DuplicateNode(n, n.left, n.right.left)), n.right.right))

LeftRight(n) == RotateRight(DuplicateNode(n, RotateLeft(n.left), n.right))
RightLeft(n) == RotateLeft(DuplicateNode(n, n.left, RotateRight(n.right)))

-----------------------------------------------------------------------------
(* insert and replace.  finkey points to the key of the node that was      *)
(* inserted.  A double rotation may copy that node and free the first one: *)
(* "gone" tells that finkey dangles, "misread" that it was read then.      *)

\* A node whose inner grandchild has to come up.
Inner(less, n, k) ==
    \/ BalanceFactor(n) > 1 /\ <<k, n.left.key>> \notin less /\ <<n.left.key, k>> \in less
    \/ BalanceFactor(n) < -1 /\ <<n.right.key, k>> \notin less /\ <<k, n.right.key>> \in less

Rotated(less, n, k) ==
    CASE BalanceFactor(n) > 1 /\ <<k, n.left.key>> \in less -> RotateRight(n)
      [] BalanceFactor(n) < -1 /\ <<n.right.key, k>> \in less -> RotateLeft(n)
      [] BalanceFactor(n) > 1 /\ Inner(less, n, k) -> LeftRight(n)
      [] BalanceFactor(n) < -1 /\ Inner(less, n, k) -> RightLeft(n)
      [] OTHER -> n

\* A double rotation copies the grandchild.
Copied(less, n, k) ==
    /\ Inner(less, n, k)
    /\ k = IF BalanceFactor(n) > 1 THEN n.left.right.key ELSE n.right.left.key

\* Mutant: the key is compared before the balance is looked at.
RebalanceKeyFirst(less, n, k, sub) ==
    [node |-> Rotated(less, n, k), gone |-> sub.gone \/ Copied(less, n, k),
     misread |-> sub.misread \/ sub.gone]

\* The end of insert_internal; sub is what the recursive call left.
Rebalance(less, n, k, sub) ==
    [node |-> Rotated(less, n, k),
     gone |-> sub.gone \/ Copied(less, n, k),
     misread |-> sub.misread \/ ((BalanceFactor(n) > 1 \/ BalanceFactor(n) < -1) /\ sub.gone)]

\* A call of insert_internal; l and r are what it leaves when it is called for the children.
InsertAt(less, n, k, v, replace, l, r) ==
    LET Made(m) == [node |-> m, gone |-> FALSE, misread |-> FALSE]
        Over(left, right, sub) ==
            Rebalance(less, UpdateHeight(DuplicateNode(n, left, right)), k, sub)
    IN  CASE n = Nil -> Made(Node(k, v, 1, Nil, Nil))
          [] n # Nil /\ <<k, n.key>> \in less -> Over(l.node, n.right, l)
          [] n # Nil /\ <<n.key, k>> \in less -> Over(n.left, r.node, r)
          [] OTHER -> Made(IF replace THEN Node(k, v, n.height, n.left, n.right) ELSE n)

InsertInternal(less, t, k, v, replace) ==
    LET inserted[n \in Trees[t.height]] ==
            InsertAt(less, n, k, v, replace, inserted[n.left], inserted[n.right])
    IN  inserted[t]

-----------------------------------------------------------------------------
(* erase *)

\* The nodes from the root on to the left.
LeftSpine(t) ==
    LET spine[n \in Trees[t.height]] == IF n = Nil THEN <<>> ELSE <<n>> \o spine[n.left]
    IN  spine[t]

MinValueNode(t) == LeftSpine(t)[Len(LeftSpine(t))]

\* The four cases at the end of delete_internal.
RebalanceErased(n) ==
    CASE BalanceFactor(n) > 1 /\ BalanceFactor(n.left) >= 0 -> RotateRight(n)
      [] BalanceFactor(n) > 1 /\ BalanceFactor(n.left) < 0 -> LeftRight(n)
      [] BalanceFactor(n) < -1 /\ BalanceFactor(n.right) <= 0 -> RotateLeft(n)
      [] BalanceFactor(n) < -1 /\ BalanceFactor(n.right) > 0 -> RightLeft(n)
      [] OTHER -> n

\* A call of delete_internal for key k; l and r are what it leaves of the children, for each key.
DeleteAt(less, n, k, l, r) ==
    LET Fixed(m) == IF m = Nil THEN Nil ELSE RebalanceErased(UpdateHeight(m))
        next == MinValueNode(n.right)
    IN  CASE n = Nil -> Nil
          [] n # Nil /\ <<k, n.key>> \in less -> Fixed(DuplicateNode(n, l[k], n.right))
          [] n # Nil /\ <<n.key, k>> \in less -> Fixed(DuplicateNode(n, n.left, r[k]))
          [] OTHER -> IF n.left = Nil THEN Fixed(n.right)
                      ELSE IF n.right = Nil THEN Fixed(n.left)
                      ELSE Fixed(DuplicateNode(next, n.left, r[next.key]))

DeleteInternal(less, t, k) ==
    LET left[n \in Trees[t.height]] ==
            [q \in Keys |-> DeleteAt(less, n, q, left[n.left], left[n.right])]
    IN  left[t][k]

-----------------------------------------------------------------------------
(* What a tree stands for *)

Nodes(t) ==
    LET nodes[n \in Trees[t.height]] ==
            IF n = Nil THEN {} ELSE {n} \cup nodes[n.left] \cup nodes[n.right]
    IN  nodes[t]

Entries(t) == {<<n.key, n.val>> : n \in Nodes(t)}
KeysOf(t) == {n.key : n \in Nodes(t)}

\* Every node has its own height, and children of almost the same height.
Balanced(t) ==
    /\ t.height \in Nat /\ t \in Trees[t.height]
    /\ \A n \in Nodes(t) : n.height = Grown(n) /\ BalanceFactor(n) \in -1 .. 1

-----------------------------------------------------------------------------
(* Iterator: the root it holds and the path to its node; no path at the    *)
(* end.                                                                    *)

RightSpine(t) ==
    LET spine[n \in Trees[t.height]] == IF n = Nil THEN <<>> ELSE <<n>> \o spine[n.right]
    IN  spine[t]

\* The nodes that a search for a key visits.
PathTo(less, t, k) ==
    LET path[n \in Trees[t.height]] ==
            IF n = Nil THEN <<>>
            ELSE <<n>> \o (CASE <<k, n.key>> \in less -> path[n.left]
                             [] <<n.key, k>> \in less -> path[n.right]
                             [] OTHER -> <<>>)
    IN  path[t]

IsEnd(it) == it.path = <<>>
Deref(it) == it.path[Len(it.path)]

\* The path up to its last node of which the path takes the given child.
ClimbTo(path, side) ==
    LET Turns(i) == (IF side = "left" THEN path[i].left ELSE path[i].right) = path[i + 1]
        above == {i \in 1 .. (Len(path) - 1) : Turns(i)}
    IN  IF above = {} THEN <<>>
        ELSE SubSeq(path, 1, CHOOSE i \in above : \A j \in above : j <= i)

\* Mutant: a node without a right child is the last one.
GoRightDownOnly(it) ==
    IF IsEnd(it) \/ Deref(it).right = Nil THEN [it EXCEPT !.path = <<>>]
    ELSE [it EXCEPT !.path = it.path \o LeftSpine(Deref(it).right)]

\* operator++ and operator--
GoRight(it) ==
    IF IsEnd(it) THEN it
    ELSE [it EXCEPT !.path = IF Deref(it).right # Nil
                             THEN it.path \o LeftSpine(Deref(it).right)
                             ELSE ClimbTo(it.path, "left")]

GoLeft(it) ==
    [it EXCEPT !.path = IF IsEnd(it) THEN RightSpine(it.root)
                        ELSE IF Deref(it).left # Nil
                        THEN it.path \o RightSpine(Deref(it).left)
                        ELSE ClimbTo(it.path, "right")]

\* operator==: the tree is not compared.
SameIterator(i, j) == i.path = j.path

Begin(t) == [root |-> t, path |-> LeftSpine(t)]
End(t) == [root |-> t, path |-> <<>>]

\* lower_bound and upper_bound: the constructor of Iterator with a key.
Bound(less, t, k, upper) ==
    LET it == [root |-> t, path |-> PathTo(less, t, k)]
    IN  IF IsEnd(it) THEN it
        ELSE IF Deref(it).key = k THEN (IF upper THEN GoLeft(it) ELSE it)
        ELSE IF <<Deref(it).key, k>> \in less /\ ~ upper THEN GoRight(it) ELSE it

FindKey(less, t, k) ==
    LET it == Bound(less, t, k, FALSE)
    IN  IF ~ IsEnd(it) /\ <<k, Deref(it).key>> \in less THEN End(t) ELSE it
=============================================================================
