------------------------------ MODULE OrderBook ------------------------------
(***************************************************************************)
(* The order book: a persistent tree of amounts per price on each side.    *)
(***************************************************************************)
EXTENDS WanderingTree, FiniteSets

CONSTANTS
    BidPrices, AskPrices,   \* prices that occur on each side
    BidAmounts, AskAmounts  \* amounts that occur there

\* Keys are prices, values amounts; what is not above zero takes a level away.
ASSUME BookAssumption ==
    /\ Keys \subseteq Int /\ BidPrices \subseteq Keys /\ AskPrices \subseteq Keys
    /\ Values \subseteq Nat \ {0} /\ BidAmounts \subseteq Values /\ AskAmounts \subseteq Values

AskLess == {pair \in Keys \X Keys : pair[1] < pair[2]}
BidLess == {pair \in Keys \X Keys : pair[1] > pair[2]}

VARIABLES
    bid, ask,       \* the trees
    misread,        \* insert has read a key that was freed
    readable        \* nothing was read through the iterator of an empty side

bookVars == <<bid, ask, misread, readable>>

Sides == {"buy", "sell"}
PricesOf(side) == IF side = "sell" THEN AskPrices ELSE BidPrices
AmountsOf(side) == IF side = "sell" THEN AskAmounts ELSE BidAmounts
LessOf(side) == IF side = "sell" THEN AskLess ELSE BidLess
TreeOf(side) == IF side = "sell" THEN ask ELSE bid

\* A tree of which erase leaves t; what insert and replace of the tree return is alike.
Left(t) == [node |-> t, gone |-> FALSE, misread |-> FALSE]

\* One side changes; r is what insert or replace of the tree returns.
SetSide(side, r) ==
    /\ IF side = "sell" THEN ask' = r.node /\ UNCHANGED bid
                        ELSE bid' = r.node /\ UNCHANGED ask
    /\ misread' = (misread \/ r.misread)
    /\ UNCHANGED readable

\* update_bid and update_ask
Changed(side, t, p, a) ==
    IF a <= 0 THEN Left(DeleteInternal(LessOf(side), t, p))
    ELSE InsertInternal(LessOf(side), t, p, a, TRUE)

UpdateLevel(side, p, a) ==
    /\ readable
    /\ SetSide(side, Changed(side, TreeOf(side), p, a))

\* bid() and ask() give access to the tree.
InsertLevel(side, p, a) ==
    /\ readable
    /\ SetSide(side, InsertInternal(LessOf(side), TreeOf(side), p, a, FALSE))

\* Mutant: the level at the price goes as well.
RemoveFirstAtPrice(side, t, p) ==
    IF t # Nil /\ <<p, Deref(Begin(t)).key>> \notin LessOf(side)
    THEN DeleteInternal(LessOf(side), t, Deref(Begin(t)).key) ELSE t

\* remove_ask_to and remove_bid_to: erase the first level while it is better than the price.
\* A round takes a node away, or is the last one.
RemoveFirst(side, t, p) ==
    IF t # Nil /\ <<Deref(Begin(t)).key, p>> \in LessOf(side)
    THEN DeleteInternal(LessOf(side), t, Deref(Begin(t)).key) ELSE t

RemoveTo(side, t, p) ==
    LET after[i \in 0 .. Cardinality(Nodes(t))] ==
            IF i = 0 THEN t ELSE RemoveFirst(side, after[i - 1], p)
    IN  after[Cardinality(Nodes(t))]

\* On an empty side the loop reads the first level of nothing.
Misread(trees) ==
    /\ Nil \in trees
    /\ readable' = FALSE
    /\ UNCHANGED <<bid, ask, misread>>

RemoveLevelsTo(side, p) ==
    /\ readable
    /\ LET t == RemoveTo(side, TreeOf(side), p)
       IN  Misread({t}) \/ (t # Nil /\ SetSide(side, Left(t)))

Tickers == [bid : BidPrices, ask : AskPrices, bidVolume : BidAmounts \cup {0},
            askVolume : AskAmounts \cup {0}]

UpdateFromTicker(tk) ==
    /\ readable
    /\ LET a == RemoveTo("sell", ask, tk.ask)
           b == RemoveTo("buy", bid, tk.bid)
           newAsk == Changed("sell", a, tk.ask, tk.askVolume)
           newBid == Changed("buy", b, tk.bid, tk.bidVolume)
       IN  \/ Misread({a, b})
           \/ /\ Nil \notin {a, b}
              /\ ask' = newAsk.node /\ bid' = newBid.node
              /\ misread' = (misread \/ newAsk.misread \/ newBid.misread)
              /\ UNCHANGED readable

\* update_ticker: the best levels, as far as there are any.
UpdateTicker(tk) ==
    LET a == Begin(ask)
        b == Begin(bid)
        quoted == IF SameIterator(a, End(ask)) THEN tk
                  ELSE [tk EXCEPT !.ask = Deref(a).key, !.askVolume = Deref(a).val]
    IN  IF SameIterator(b, End(bid)) THEN quoted
        ELSE [quoted EXCEPT !.bid = Deref(b).key, !.bidVolume = Deref(b).val]

BookInit ==
    /\ bid = Nil /\ ask = Nil
    /\ misread = FALSE /\ readable = TRUE

BookNext ==
    \/ \E side \in Sides : \E p \in PricesOf(side) :
        \/ \E a \in AmountsOf(side) \cup {0} : UpdateLevel(side, p, a)
        \/ \E a \in AmountsOf(side) : InsertLevel(side, p, a)
        \/ RemoveLevelsTo(side, p)
    \/ \E tk \in Tickers : UpdateFromTicker(tk)

BookSpec == BookInit /\ [][BookNext]_bookVars

-----------------------------------------------------------------------------
(* Correctness *)

\* Whatever the order of insertions, replacements and deletions, both trees stay balanced and
\* every node has its own height: the heights that a balance is decided by are never stale, and
\* updateHeight of a node that an older tree shares changes nothing in it (wandering_bst.h).
BooksBalanced == Balanced(ask) /\ Balanced(bid)

\* insert_internal decides between its cases by the key of the node it has just inserted.  A
\* double rotation frees that node; no level above may look at the key afterwards.
KeyOutlivesUse == ~ misread

\* The iterator that stands on the first key of some, in an order; the end if there is none.
FirstOf(less, order, t, S) ==
    IF S = {} THEN End(t)
    ELSE [root |-> t, path |-> PathTo(less, t, CHOOSE k \in S : \A q \in S \ {k} : <<k, q>> \in order)]

\* From each key an iterator goes on to the next one of its tree, and back to the one before,
\* up to the end and from it; find and lower_bound stop at a key or at the next one in order.
Walks(less, t) ==
    LET more == {<<pair[2], pair[1]>> : pair \in less}
        Next_(S) == FirstOf(less, less, t, S)
        Before_(S) == FirstOf(less, more, t, S)
        after(k) == {q \in KeysOf(t) : <<k, q>> \in less}
        upto(k) == {q \in KeysOf(t) : <<q, k>> \in less}
    IN  /\ Begin(t) = Next_(KeysOf(t))
        /\ GoLeft(End(t)) = Before_(KeysOf(t))
        /\ \A k \in KeysOf(t) :
            /\ Deref(Next_({k})).key = k
            /\ GoRight(Next_({k})) = Next_(after(k))
            /\ GoLeft(Next_({k})) = Before_(upto(k))
        /\ \A k \in Keys :
            /\ Bound(less, t, k, FALSE) = Next_(KeysOf(t) \ upto(k))
            /\ FindKey(less, t, k) = Next_(KeysOf(t) \cap {k})

\* Iterators show each side from its best price to the worst, and back; update_ticker quotes the
\* first of each side.
IteratorsWalk ==
    LET quote == UpdateTicker([bid |-> 0, ask |-> 0, bidVolume |-> 0, askVolume |-> 0])
    IN  /\ Walks(AskLess, ask) /\ Walks(BidLess, bid)
        /\ quote.ask = (IF KeysOf(ask) = {} THEN 0
                        ELSE CHOOSE p \in KeysOf(ask) : \A q \in KeysOf(ask) : p <= q)
        /\ quote.bid = (IF KeysOf(bid) = {} THEN 0
                        ELSE CHOOSE p \in KeysOf(bid) : \A q \in KeysOf(bid) : p >= q)

\* The function a tree stands for.
LevelsOf(t) ==
    LET entries == Entries(t)
    IN  [p \in {e[1] : e \in entries} |-> CHOOSE a \in Values : <<p, a>> \in entries]

Levels == INSTANCE PriceLevels WITH
    Prices <- [s \in Sides |-> PricesOf(s)],
    Amounts <- [s \in Sides |-> AmountsOf(s)],
    levels <- [s \in Sides |-> LevelsOf(TreeOf(s))],
    valid <- readable

\* The book implements PriceLevels: every update, removal and ticker, in any order, changes the
\* levels it should and no other one, until a side that loses all its levels makes it read nothing.
IsPriceLevels == Levels!Spec
=============================================================================
