------------------------- MODULE MemoryStorageProofs -------------------------
(***************************************************************************)
(* Proofs about MemoryStorage, for every set of variables, orders, fills   *)
(* and labels and every bound: what is skipped as a duplicate is stored    *)
(* and read back, and what is read from the storage is a                   *)
(* TransactionalStore.                                                     *)
(*                                                                         *)
(* The database a commit would leave is computed by a loop over the queued *)
(* writes, and so is what load_fills returns.  Both are functions defined  *)
(* by recursion on an interval; Intervals has the facts about these.       *)
(***************************************************************************)
EXTENDS MemoryStorage, Intervals, SequenceTheorems

StoredFill == {Labelled(f, label) : f \in Fill, label \in Labels}

PutVars   == [op : {"put_var"}, key : Names, value : Values]
EraseVars == [op : {"erase_var"}, key : Names]
PutOrders == [op : {"put_order"}, key : Orders]
PutFills  == [op : {"put_fill"}, fill : StoredFill]
Writes    == PutVars \cup EraseVars \cup PutOrders \cup PutFills

Db == [vars   : [Names -> Values \cup {Missing}],
       orders : [Orders -> (1 .. MaxReports) \cup {Missing}],
       fills  : Seq(StoredFill)]

\* An order whose write is queued has been reported.
Ready(c, t) == \A k \in 1 .. Len(t) : t[k] \in PutOrders => c[t[k].key] \in 1 .. MaxReports

StoreTypes ==
    /\ db \in Db /\ trn \in Seq(Writes) /\ depth \in 0 .. MaxDepth
    /\ content \in [Orders -> 0 .. MaxReports]

\* A write waits only in a transaction.
QueueInv == (depth = 0 => trn = <<>>) /\ Ready(content, trn)

\* What was found to be stored stays stored, and nothing outgrows the bound.
FillsInv ==
    /\ Len(Work.fills) <= MaxFills
    /\ \A id \in skipped : \E i \in 1 .. Len(db.fills) : db.fills[i].id = id

StoreInv == StoreTypes /\ QueueInv /\ FillsInv

-----------------------------------------------------------------------------
(* The writes *)

\* A write, given the content of the orders.
Put(c, d, w) ==
    CASE w.op = "put_var" /\ d.vars[w.key] = Missing      -> [d EXCEPT !.vars[w.key] = w.value]
      [] w.op = "put_order" /\ d.orders[w.key] = Missing  -> [d EXCEPT !.orders[w.key] = c[w.key]]
      [] w.op = "erase_var"                               -> [d EXCEPT !.vars[w.key] = Missing]
      [] w.op = "put_fill"                                -> [d EXCEPT !.fills = Append(@, w.fill)]
      [] OTHER                                            -> d

\* The database after the writes of t.
Final(c, d, t) ==
    LET after[k \in 0 .. Len(t)] == IF k = 0 THEN d ELSE Put(c, after[k - 1], t[k])
    IN  after[Len(t)]

IsRun(run, c, d, t) ==
    /\ run \in [0 .. Len(t) -> Db]
    /\ run[0] = d
    /\ \A k \in 1 .. Len(t) : run[k] = Put(c, run[k - 1], t[k])

LEMMA WorkIsFinal == Work = Final(content, db, trn)
BY DEF Work, Final, Apply, Put

LEMMA ApplyIsPut == ASSUME NEW d, NEW w PROVE Apply(d, w) = Put(content, d, w)
BY DEF Apply, Put

LEMMA ApplyIsPutThen == ASSUME NEW d, NEW w PROVE Apply(d, w)' = Put(content', d', w')
BY DEF Apply, Put

LEMMA WorkIsFinalThen == Work' = Final(content', db', trn')
BY DEF Work, Final, Apply, Put

\* What each kind of write does.
LEMMA PutVarDoes ==
    ASSUME NEW c, NEW d \in Db, NEW w \in PutVars
    PROVE  Put(c, d, w) = IF d.vars[w.key] = Missing THEN [d EXCEPT !.vars[w.key] = w.value] ELSE d
BY DEF Put, PutVars

LEMMA EraseVarDoes ==
    ASSUME NEW c, NEW d \in Db, NEW w \in EraseVars
    PROVE  Put(c, d, w) = [d EXCEPT !.vars[w.key] = Missing]
BY DEF Put, EraseVars

LEMMA PutOrderDoes ==
    ASSUME NEW c, NEW d \in Db, NEW w \in PutOrders
    PROVE  Put(c, d, w) = IF d.orders[w.key] = Missing THEN [d EXCEPT !.orders[w.key] = c[w.key]] ELSE d
BY DEF Put, PutOrders

LEMMA PutFillDoes ==
    ASSUME NEW c, NEW d \in Db, NEW w \in PutFills
    PROVE  Put(c, d, w) = [d EXCEPT !.fills = Append(@, w.fill)]
BY DEF Put, PutFills

LEMMA PutTypes ==
    ASSUME NEW c, NEW d \in Db, NEW w \in Writes,
           w \in PutOrders => c[w.key] \in 1 .. MaxReports
    PROVE  Put(c, d, w) \in Db
<1>1. CASE w \in PutVars
  <2>1. w.key \in Names /\ w.value \in Values
    BY <1>1 DEF PutVars
  <2>2. [d EXCEPT !.vars[w.key] = w.value] \in Db
    BY <2>1 DEF Db
  <2> QED BY <1>1, <2>2, PutVarDoes
<1>2. CASE w \in EraseVars
  <2>1. w.key \in Names
    BY <1>2 DEF EraseVars
  <2>2. [d EXCEPT !.vars[w.key] = Missing] \in Db
    BY <2>1 DEF Db
  <2>3. Put(c, d, w) = [d EXCEPT !.vars[w.key] = Missing]
    BY <1>2 DEF Put, EraseVars
  <2> QED BY <2>2, <2>3
<1>3. CASE w \in PutOrders
  <2>1. w.key \in Orders /\ c[w.key] \in 1 .. MaxReports
    BY <1>3 DEF PutOrders
  <2>2. [d EXCEPT !.orders[w.key] = c[w.key]] \in Db
    BY <2>1 DEF Db
  <2> QED BY <1>3, <2>2, PutOrderDoes
<1>4. CASE w \in PutFills
  <2>1. w.fill \in StoredFill
    BY <1>4 DEF PutFills
  <2>2. [d EXCEPT !.fills = Append(@, w.fill)] \in Db
    <3>1. Append(d.fills, w.fill) \in Seq(StoredFill)
      BY <2>1 DEF Db
    <3> QED BY <3>1 DEF Db
  <2>3. Put(c, d, w) = [d EXCEPT !.fills = Append(@, w.fill)]
    BY <1>4 DEF Put, PutFills
  <2> QED BY <2>2, <2>3
<1> QED BY <1>1, <1>2, <1>3, <1>4 DEF Writes

-----------------------------------------------------------------------------
(* The loop over the writes *)

LEMMA FinalIsRun ==
    ASSUME NEW c, NEW d \in Db, NEW t \in Seq(Writes), Ready(c, t)
    PROVE  \E run : IsRun(run, c, d, t) /\ Final(c, d, t) = run[Len(t)]
<1> DEFINE Step == [k \in 1 .. Len(t) |-> [e \in Db |-> Put(c, e, t[k])]]
           Rounds(f) == [k \in 0 .. Len(t) |-> IF k = 0 THEN d ELSE Put(c, f[k - 1], t[k])]
           run == CHOOSE f : f = Rounds(f)
<1>1. Len(t) \in Nat
  OBVIOUS
<1>2. Step \in [1 .. Len(t) -> [Db -> Db]]
  <2>1. ASSUME NEW k \in 1 .. Len(t), NEW e \in Db
        PROVE  Put(c, e, t[k]) \in Db
    <3>1. t[k] \in Writes /\ (t[k] \in PutOrders => c[t[k].key] \in 1 .. MaxReports)
      BY DEF Ready
    <3> HIDE DEF Put, Writes, PutOrders, Db
    <3> QED BY <3>1, PutTypes
  <2> QED BY <2>1
<1>3. PICK f : IsLoop(f, Len(t), Db, d, Step)
  <2> HIDE DEF Step
  <2> QED BY <1>1, <1>2, LoopExists
<1>4. f = Rounds(f)
  <2>1. ASSUME NEW k \in 1 .. Len(t)
        PROVE  f[k] = Put(c, f[k - 1], t[k])
    <3>1. f[k - 1] \in Db
      BY <1>1, <1>3 DEF IsLoop
    <3> HIDE DEF Put, Db
    <3>2. Step[k][f[k - 1]] = Put(c, f[k - 1], t[k])
      BY <3>1
    <3> QED BY <1>3, <3>2 DEF IsLoop
  <2>2. \A k \in 0 .. Len(t) : k # 0 => k \in 1 .. Len(t)
    BY <1>1
  <2>3. \A k \in 0 .. Len(t) : f[k] = IF k = 0 THEN d ELSE Put(c, f[k - 1], t[k])
    <3> HIDE DEF Put, Step
    <3> QED BY <1>3, <2>1, <2>2 DEF IsLoop
  <2>4. f = [k \in 0 .. Len(t) |-> f[k]]
    BY <1>3 DEF IsLoop
  <2> HIDE DEF Put
  <2> QED BY <2>3, <2>4
<1>5. run = Rounds(run)
  <2> HIDE DEF Rounds
  <2> QED BY <1>4
<1>6. ASSUME NEW g, g = Rounds(g)
      PROVE  IsRun(g, c, d, t)
  <2>1. g[0] = d /\ \A k \in 1 .. Len(t) : g[k] = Put(c, g[k - 1], t[k])
    BY <1>6, <1>1
  <2>2. \A k \in 0 .. Len(t) : k \in {q \in 0 .. Len(t) : g[q] \in Db}
    <3> DEFINE S == {q \in 0 .. Len(t) : g[q] \in Db}
    <3>1. 0 \in S
      BY <2>1
    <3>2. ASSUME NEW k \in 1 .. Len(t), k - 1 \in S PROVE k \in S
      <4>1. t[k] \in Writes /\ (t[k] \in PutOrders => c[t[k].key] \in 1 .. MaxReports)
        BY DEF Ready
      <4>2. g[k - 1] \in Db
        BY <3>2
      <4>3. Put(c, g[k - 1], t[k]) \in Db
        BY <4>1, <4>2, PutTypes
      <4> QED BY <2>1, <4>3
    <3> HIDE DEF S
    <3>3. \A k \in 0 .. Len(t) : k \in S
      BY <1>1, <3>1, <3>2, IntervalInduction
    <3> QED BY <3>3 DEF S
  <2>3. DOMAIN g = 0 .. Len(t) /\ g = [k \in 0 .. Len(t) |-> g[k]]
    BY <1>6
  <2> HIDE DEF Rounds
  <2> QED BY <2>1, <2>2, <2>3 DEF IsRun
<1>7. Final(c, d, t) = run[Len(t)]
  BY DEF Final
<1> HIDE DEF run
<1> QED BY <1>5, <1>6, <1>7

\* Runs over the same writes agree as far as both go.
LEMMA RunsAgree ==
    ASSUME NEW c, NEW d, NEW t \in Seq(Writes), NEW s \in Seq(Writes), NEW f, NEW g,
           IsRun(f, c, d, t), IsRun(g, c, d, s), Len(t) <= Len(s),
           \A k \in 1 .. Len(t) : t[k] = s[k]
    PROVE  \A k \in 0 .. Len(t) : f[k] = g[k]
<1> DEFINE S == {k \in 0 .. Len(t) : f[k] = g[k]}
<1>1. Len(t) \in Nat /\ Len(s) \in Nat
  OBVIOUS
<1>2. 0 \in S
  BY <1>1 DEF IsRun
<1>3. ASSUME NEW k \in 1 .. Len(t), k - 1 \in S PROVE k \in S
  <2>1. f[k] = Put(c, f[k - 1], t[k])
    BY DEF IsRun
  <2>2. g[k] = Put(c, g[k - 1], s[k])
    BY <1>1 DEF IsRun
  <2> QED BY <1>3, <2>1, <2>2
<1> HIDE DEF S
<1>4. \A k \in 0 .. Len(t) : k \in S
  BY <1>1, <1>2, <1>3, IntervalInduction
<1> QED BY <1>4 DEF S

LEMMA FinalTypes ==
    ASSUME NEW c, NEW d \in Db, NEW t \in Seq(Writes), Ready(c, t)
    PROVE  Final(c, d, t) \in Db
<1>1. PICK run : IsRun(run, c, d, t) /\ Final(c, d, t) = run[Len(t)]
  BY FinalIsRun
<1> QED BY <1>1 DEF IsRun

LEMMA FinalOfNone ==
    ASSUME NEW c, NEW d \in Db
    PROVE  Final(c, d, <<>>) = d
<1>1. Ready(c, <<>>) /\ <<>> \in Seq(Writes) /\ Len(<<>>) = 0
  BY DEF Ready
<1>2. PICK run : IsRun(run, c, d, <<>>) /\ Final(c, d, <<>>) = run[Len(<<>>)]
  BY <1>1, FinalIsRun
<1> QED BY <1>1, <1>2 DEF IsRun

\* A write added to the queue is made last.
LEMMA FinalOfAppend ==
    ASSUME NEW c, NEW d \in Db, NEW t \in Seq(Writes), NEW w \in Writes,
           Ready(c, t), w \in PutOrders => c[w.key] \in 1 .. MaxReports
    PROVE  Final(c, d, Append(t, w)) = Put(c, Final(c, d, t), w) /\ Ready(c, Append(t, w))
<1> DEFINE s == Append(t, w)
<1>1. s \in Seq(Writes) /\ Len(s) = Len(t) + 1 /\ s[Len(s)] = w /\ Len(t) \in Nat
  OBVIOUS
<1>2. \A k \in 1 .. Len(t) : t[k] = s[k]
  OBVIOUS
<1> HIDE DEF s
<1>3. Ready(c, s)
  BY <1>1, <1>2 DEF Ready
<1>4. PICK f : IsRun(f, c, d, t) /\ Final(c, d, t) = f[Len(t)]
  BY FinalIsRun
<1>5. PICK g : IsRun(g, c, d, s) /\ Final(c, d, s) = g[Len(s)]
  BY <1>1, <1>3, FinalIsRun
<1>6. f[Len(t)] = g[Len(t)]
  BY <1>1, <1>2, <1>4, <1>5, RunsAgree
<1>7. g[Len(s)] = Put(c, g[Len(s) - 1], s[Len(s)])
  BY <1>1, <1>5 DEF IsRun
<1>8. Final(c, d, s) = Put(c, Final(c, d, t), w)
  BY <1>1, <1>4, <1>5, <1>6, <1>7
<1> QED BY <1>3, <1>8 DEF s

LEMMA PutKeepsFills ==
    ASSUME NEW c, NEW d \in Db, NEW w \in Writes \ PutFills
    PROVE  Put(c, d, w).fills = d.fills
<1>1. CASE w \in PutVars
  BY <1>1 DEF Put, PutVars, Db
<1>2. CASE w \in EraseVars
  BY <1>2 DEF Put, EraseVars, Db
<1>3. CASE w \in PutOrders
  BY <1>3 DEF Put, PutOrders, Db
<1> QED BY <1>1, <1>2, <1>3 DEF Writes

\* Fills that are stored stay where they are.
LEMMA FinalKeepsFills ==
    ASSUME NEW c, NEW d \in Db, NEW t \in Seq(Writes), Ready(c, t)
    PROVE  /\ Len(d.fills) <= Len(Final(c, d, t).fills)
           /\ \A i \in 1 .. Len(d.fills) : Final(c, d, t).fills[i] = d.fills[i]
<1> DEFINE Keeps(e) == /\ Len(d.fills) <= Len(e.fills)
                       /\ \A i \in 1 .. Len(d.fills) : e.fills[i] = d.fills[i]
<1>1. PICK run : IsRun(run, c, d, t) /\ Final(c, d, t) = run[Len(t)]
  BY FinalIsRun
<1> DEFINE S == {k \in 0 .. Len(t) : Keeps(run[k])}
<1>2. Len(t) \in Nat /\ d.fills \in Seq(StoredFill)
  BY DEF Db
<1>3. 0 \in S
  BY <1>1, <1>2 DEF IsRun
<1>4. ASSUME NEW k \in 1 .. Len(t), k - 1 \in S PROVE k \in S
  <2>1. PICK e \in Db : e = run[k - 1] /\ Keeps(e)
    BY <1>1, <1>4 DEF IsRun
  <2>2. t[k] \in Writes /\ run[k] = Put(c, e, t[k])
    BY <1>1, <2>1 DEF IsRun
  <2>3. CASE t[k] \in PutFills
    <3>1. Put(c, e, t[k]).fills = Append(e.fills, t[k].fill)
      BY <2>3 DEF Put, PutFills, Db
    <3>2. e.fills \in Seq(StoredFill) /\ t[k].fill \in StoredFill
      BY <2>3 DEF PutFills, Db
    <3>3. ASSUME NEW s \in Seq(StoredFill), NEW x \in StoredFill, NEW u \in Seq(StoredFill),
                 Len(u) <= Len(s), \A i \in 1 .. Len(u) : s[i] = u[i]
          PROVE  Len(u) <= Len(Append(s, x)) /\ \A i \in 1 .. Len(u) : Append(s, x)[i] = u[i]
      BY <3>3
    <3>4. Keeps(run[k])
      BY <1>2, <2>1, <2>2, <3>1, <3>2, <3>3
    <3> QED BY <3>4
  <2>4. CASE t[k] \notin PutFills
    <3>1. Put(c, e, t[k]).fills = e.fills
      BY <2>2, <2>4, PutKeepsFills
    <3>2. Keeps(run[k])
      BY <2>1, <2>2, <3>1
    <3> QED BY <3>2
  <2> QED BY <2>3, <2>4
<1> HIDE DEF S
<1>5. \A k \in 0 .. Len(t) : k \in S
  BY <1>2, <1>3, <1>4, IntervalInduction
<1>6. Keeps(run[Len(t)])
  BY <1>2, <1>5 DEF S
<1> QED BY <1>1, <1>6

\* One order's entry is replaced.
LEMMA OrdersReplaced ==
    ASSUME NEW d \in Db, NEW o \in Orders, NEW n
    PROVE  [d EXCEPT !.orders[o] = n]
               = [vars |-> d.vars, orders |-> [d.orders EXCEPT ![o] = n], fills |-> d.fills]
BY DEF Db

\* An order that is stored stays as it is.
LEMMA FinalKeepsOrder ==
    ASSUME NEW c, NEW d \in Db, NEW t \in Seq(Writes), Ready(c, t),
           NEW o \in Orders, d.orders[o] # Missing
    PROVE  Final(c, d, t).orders[o] = d.orders[o]
<1>1. PICK run : IsRun(run, c, d, t) /\ Final(c, d, t) = run[Len(t)]
  BY FinalIsRun
<1> DEFINE S == {k \in 0 .. Len(t) : run[k].orders[o] = d.orders[o]}
<1>2. Len(t) \in Nat
  OBVIOUS
<1>3. 0 \in S
  BY <1>1, <1>2 DEF IsRun
<1>4. ASSUME NEW k \in 1 .. Len(t), k - 1 \in S PROVE k \in S
  <2>1. PICK e \in Db : e = run[k - 1] /\ e.orders[o] = d.orders[o]
    BY <1>1, <1>4 DEF IsRun
  <2>2. PICK w \in Writes : w = t[k] /\ run[k] = Put(c, e, w)
    BY <1>1, <2>1 DEF IsRun
  <2>3. Put(c, e, w).orders[o] = e.orders[o]
    <3>1. CASE w \in PutVars
      BY <3>1 DEF Put, PutVars, Db
    <3>2. CASE w \in EraseVars
      BY <3>2 DEF Put, EraseVars, Db
    <3>3. CASE w \in PutOrders
      <4>1. CASE w.key = o
        BY <2>1, <3>3, <4>1, PutOrderDoes
      <4>2. CASE w.key # o
        <5>1. PICK q \in Orders : q = w.key
          BY <3>3 DEF PutOrders
        <5>2. PICK n : n = c[q]
          OBVIOUS
        <5>3. [e EXCEPT !.orders[q] = n].orders = [e.orders EXCEPT ![q] = n]
          BY OrdersReplaced
        <5>4. [e EXCEPT !.orders[q] = n].orders[o] = e.orders[o]
          BY <4>2, <5>1, <5>3 DEF Db
        <5>5. Put(c, e, w) \in {e, [e EXCEPT !.orders[q] = n]}
          BY <3>3, <5>1, <5>2, PutOrderDoes
        <5> QED BY <5>4, <5>5
      <4> QED BY <4>1, <4>2
    <3>4. CASE w \in PutFills
      BY <3>4 DEF Put, PutFills, Db
    <3> QED BY <3>1, <3>2, <3>3, <3>4 DEF Writes
  <2> QED BY <2>1, <2>2, <2>3
<1> HIDE DEF S
<1>5. \A k \in 0 .. Len(t) : k \in S
  BY <1>2, <1>3, <1>4, IntervalInduction
<1>6. run[Len(t)].orders[o] = d.orders[o]
  BY <1>2, <1>5 DEF S
<1> QED BY <1>1, <1>6

\* A report of an order: the write that is queued last and each write that was queued for
\* the order before store its last content, unless the order is stored already.
WithOrder(e, d, o, n) == [e EXCEPT !.orders[o] = IF d.orders[o] = Missing THEN n ELSE @]

LEMMA FinalOfReport ==
    ASSUME NEW c \in [Orders -> 0 .. MaxReports], NEW d \in Db, NEW t \in Seq(Writes),
           Ready(c, t), NEW o \in Orders, NEW n \in 1 .. MaxReports,
           NEW w \in PutOrders, w.key = o, NEW m \in [Orders -> 0 .. MaxReports],
           m[o] = n, \A p \in Orders \ {o} : m[p] = c[p]
    PROVE  /\ Ready(m, Append(t, w))
           /\ Final(m, d, Append(t, w)) = WithOrder(Final(c, d, t), d, o, n)
\* What the content of o can make of a database.
<1> DEFINE Alike(e, g) == /\ g.vars = e.vars /\ g.fills = e.fills
                          /\ \A p \in Orders \ {o} : g.orders[p] = e.orders[p]
                          /\ IF d.orders[o] = Missing
                             THEN g.orders[o] \in {Missing, n}
                             ELSE g.orders[o] = e.orders[o] /\ e.orders[o] = d.orders[o]
<1>1. Ready(m, t)
  BY DEF Ready, PutOrders
<1>2. PICK f : IsRun(f, c, d, t) /\ Final(c, d, t) = f[Len(t)]
  BY FinalIsRun
<1>3. PICK g : IsRun(g, m, d, t) /\ Final(m, d, t) = g[Len(t)]
  <2> QED BY <1>1, FinalIsRun
<1> DEFINE S == {k \in 0 .. Len(t) : Alike(f[k], g[k])}
<1>4. Len(t) \in Nat
  OBVIOUS
<1>5. 0 \in S
  BY <1>2, <1>3, <1>4 DEF IsRun
<1>6. ASSUME NEW k \in 1 .. Len(t), k - 1 \in S PROVE k \in S
  <2>0. k - 1 \in 0 .. Len(t)
    OBVIOUS
  <2>1. PICK x \in Db : x = f[k - 1]
    <3> HIDE DEF S
    <3> QED BY <1>2, <2>0 DEF IsRun
  <2>2. PICK y \in Db : y = g[k - 1]
    <3> HIDE DEF S
    <3> QED BY <1>3, <2>0 DEF IsRun
  <2>3. Alike(x, y)
    BY <1>6, <2>1, <2>2
  <2>4. t[k] \in Writes /\ f[k] = Put(c, x, t[k]) /\ g[k] = Put(m, y, t[k])
    <3> HIDE DEF Alike, S
    <3>1. t[k] \in Writes
      OBVIOUS
    <3>2. f[k] = Put(c, f[k - 1], t[k])
      BY <1>2 DEF IsRun
    <3>3. g[k] = Put(m, g[k - 1], t[k])
      BY <1>3 DEF IsRun
    <3> QED BY <2>1, <2>2, <3>1, <3>2, <3>3
  <2>5. Alike(Put(c, x, t[k]), Put(m, y, t[k]))
    <3>1. CASE t[k] \in PutVars
      <4>1. y.vars = x.vars
        BY <2>3
      <4> QED BY <2>3, <3>1, <4>1 DEF Put, PutVars, Db
    <3>2. CASE t[k] \in EraseVars
      BY <2>3, <3>2 DEF Put, EraseVars, Db
    <3>3. CASE t[k] \in PutFills
      BY <2>3, <3>3 DEF Put, PutFills, Db
    <3>4. CASE t[k] \in PutOrders
      <4>1. t[k].key \in Orders /\ t[k].op = "put_order"
        BY <3>4 DEF PutOrders
      <4>2. CASE t[k].key = o
        BY <2>3, <4>1, <4>2 DEF Put, Db
      <4>3. CASE t[k].key # o
        BY <2>3, <4>1, <4>3 DEF Put, Db
      <4> QED BY <4>2, <4>3
    <3> QED BY <2>4, <3>1, <3>2, <3>3, <3>4 DEF Writes
  <2> HIDE DEF Alike
  <2> QED BY <2>4, <2>5
<1> HIDE DEF S
<1>7. \A k \in 0 .. Len(t) : k \in S
  BY <1>4, <1>5, <1>6, IntervalInduction
<1>8. PICK x \in Db : x = Final(c, d, t)
  BY FinalTypes
<1>9. PICK y \in Db : y = Final(m, d, t)
  <2> QED BY <1>1, FinalTypes
<1>10. Alike(x, y)
  <2> HIDE DEF Alike
  <2> QED BY <1>2, <1>3, <1>4, <1>7, <1>8, <1>9 DEF S
<1>11. w \in Writes /\ m[w.key] = n
  BY DEF Writes
<1>12. Final(m, d, Append(t, w)) = Put(m, y, w) /\ Ready(m, Append(t, w))
  <2> QED BY <1>1, <1>9, <1>11, FinalOfAppend
<1>13. Put(m, y, w) = [x EXCEPT !.orders[o] = IF d.orders[o] = Missing THEN n ELSE @]
  <2>1. Put(m, y, w) = IF y.orders[o] = Missing THEN [y EXCEPT !.orders[o] = n] ELSE y
    BY <1>11 DEF Put, PutOrders
  <2>2. d.orders[o] \in (1 .. MaxReports) \cup {Missing}
    BY DEF Db
  <2>3. CASE d.orders[o] = Missing
    <3>1. Put(m, y, w) = [y EXCEPT !.orders[o] = n]
      BY <1>10, <2>1, <2>3 DEF Db
    <3>2. [y EXCEPT !.orders[o] = n] = [x EXCEPT !.orders[o] = n]
      <4>1. /\ x.orders \in [Orders -> (1 .. MaxReports) \cup {Missing}]
            /\ y.orders \in [Orders -> (1 .. MaxReports) \cup {Missing}]
        BY DEF Db
      <4>2. [y.orders EXCEPT ![o] = n] = [x.orders EXCEPT ![o] = n]
        BY <1>10, <4>1
      <4>3. [x EXCEPT !.orders[o] = n]
              = [vars |-> x.vars, orders |-> [x.orders EXCEPT ![o] = n], fills |-> x.fills]
        BY OrdersReplaced, Zenon
      <4>5. [y EXCEPT !.orders[o] = n]
              = [vars |-> y.vars, orders |-> [y.orders EXCEPT ![o] = n], fills |-> y.fills]
        BY OrdersReplaced, Zenon
      <4>4. y.vars = x.vars /\ y.fills = x.fills
        BY <1>10
      <4> QED BY <4>2, <4>3, <4>4, <4>5
    <3> QED BY <2>3, <3>1, <3>2
  <2>4. CASE d.orders[o] # Missing
    <3>1. Put(m, y, w) = y
      BY <1>10, <2>1, <2>4
    <3>2. y = x
      <4>1. \A p \in Orders : y.orders[p] = x.orders[p]
        BY <1>10, <2>4
      <4>2. y.orders = x.orders
        <5>1. /\ x.orders \in [Orders -> (1 .. MaxReports) \cup {Missing}]
              /\ y.orders \in [Orders -> (1 .. MaxReports) \cup {Missing}]
          BY DEF Db
        <5> QED BY <4>1, <5>1
      <4>3. y.vars = x.vars /\ y.fills = x.fills
        BY <1>10
      <4>4. /\ x = [vars |-> x.vars, orders |-> x.orders, fills |-> x.fills]
            /\ y = [vars |-> y.vars, orders |-> y.orders, fills |-> y.fills]
        BY DEF Db
      <4> QED BY <4>2, <4>3, <4>4
    <3>3. x = [x EXCEPT !.orders[o] = x.orders[o]]
      BY DEF Db
    <3> QED BY <2>4, <3>1, <3>2, <3>3
  <2> QED BY <2>3, <2>4
<1> QED BY <1>8, <1>12, <1>13 DEF WithOrder

-----------------------------------------------------------------------------
(* What load_fills returns *)

\* The fills that match of the first k, for each k.
IsSearch(f, fills, filter) ==
    /\ f \in [0 .. Len(fills) -> Seq(StoredFill)]
    /\ f[0] = <<>>
    /\ \A k \in 1 .. Len(fills) :
          f[k] = IF IsPrefix(filter, fills[k].label) THEN <<fills[k]>> \o f[k - 1] ELSE f[k - 1]

LEMMA MatchingIsSearch ==
    ASSUME NEW fills \in Seq(StoredFill), NEW filter
    PROVE  \E f : IsSearch(f, fills, filter) /\ Matching(fills, filter) = f[Len(fills)]
<1> DEFINE n == Len(fills)
           Pick(k, e) == IF IsPrefix(filter, fills[k].label) THEN <<fills[k]>> \o e ELSE e
           Step == [k \in 1 .. n |-> [e \in Seq(StoredFill) |-> Pick(k, e)]]
           Rounds(f) == [k \in 0 .. n |->
               IF k = 0 THEN <<>>
               ELSE IF IsPrefix(filter, fills[k].label) THEN <<fills[k]>> \o f[k - 1]
               ELSE f[k - 1]]
           upTo == CHOOSE f : f = Rounds(f)
<1>1. n \in Nat /\ <<>> \in Seq(StoredFill)
  OBVIOUS
<1>2. ASSUME NEW k \in 1 .. n, NEW e \in Seq(StoredFill)
      PROVE  Pick(k, e) \in Seq(StoredFill)
  <2>1. fills[k] \in StoredFill
    OBVIOUS
  <2>2. <<fills[k]>> \o e \in Seq(StoredFill)
    BY <2>1
  <2> QED BY <2>2
<1>3. Step \in [1 .. n -> [Seq(StoredFill) -> Seq(StoredFill)]]
  <2> HIDE DEF Pick, n
  <2> QED BY <1>2
<1>4. PICK f : IsLoop(f, n, Seq(StoredFill), <<>>, Step)
  <2> HIDE DEF Step, n
  <2> QED BY <1>1, <1>3, LoopExists
<1>5. IsSearch(f, fills, filter)
  <2>1. ASSUME NEW k \in 1 .. n
        PROVE  f[k] = Pick(k, f[k - 1])
    <3>1. f[k - 1] \in Seq(StoredFill)
      BY <1>1, <1>4 DEF IsLoop
    <3> HIDE DEF Pick, n
    <3>2. Step[k][f[k - 1]] = Pick(k, f[k - 1])
      BY <3>1
    <3> QED BY <1>4, <3>2 DEF IsLoop
  <2> HIDE DEF Step
  <2>2. f \in [0 .. n -> Seq(StoredFill)] /\ f[0] = <<>>
    BY <1>4 DEF IsLoop
  <2> QED BY <2>1, <2>2 DEF IsSearch
<1>6. f = Rounds(f)
  <2>1. \A k \in 0 .. n : k # 0 => k \in 1 .. n
    BY <1>1
  <2>2. f = [k \in 0 .. n |-> f[k]]
    BY <1>5 DEF IsSearch
  <2> HIDE DEF Step
  <2> QED BY <1>5, <2>1, <2>2 DEF IsSearch
<1>7. upTo = Rounds(upTo)
  <2> HIDE DEF Rounds
  <2> QED BY <1>6
<1>8. ASSUME NEW g, g = Rounds(g)
      PROVE  IsSearch(g, fills, filter)
  <2>1. g[0] = <<>> /\ \A k \in 1 .. n : g[k] = Pick(k, g[k - 1])
    <3>1. \A k \in 0 .. n : g[k] = IF k = 0 THEN <<>> ELSE Pick(k, g[k - 1])
      BY <1>8
    <3>2. 0 \in 0 .. n /\ \A k \in 1 .. n : k \in 0 .. n /\ k # 0
      BY <1>1
    <3> HIDE DEF Pick, n
    <3> QED BY <3>1, <3>2
  <2> DEFINE S == {q \in 0 .. n : g[q] \in Seq(StoredFill)}
  <2>2. 0 \in S
    <3>1. 0 \in 0 .. n /\ g[0] \in Seq(StoredFill)
      BY <1>1, <2>1
    <3> QED BY <3>1
  <2>3. ASSUME NEW k \in 1 .. n, k - 1 \in S PROVE k \in S
    <3> HIDE DEF Pick, n
    <3> QED BY <1>1, <1>2, <2>1, <2>3
  <2> HIDE DEF S
  <2>4. \A k \in 0 .. n : k \in S
    <3> HIDE DEF n
    <3> QED BY <1>1, <2>2, <2>3, IntervalInduction
  <2>5. DOMAIN g = 0 .. n /\ g = [k \in 0 .. n |-> g[k]]
    BY <1>8
  <2>6. g \in [0 .. n -> Seq(StoredFill)]
    <3> HIDE DEF Rounds
    <3> QED BY <2>4, <2>5 DEF S
  <2> HIDE DEF Rounds
  <2> QED BY <2>1, <2>6 DEF IsSearch
<1>9. Matching(fills, filter) = upTo[Len(fills)]
  BY DEF Matching
<1> HIDE DEF upTo, Rounds
<1> QED BY <1>7, <1>8, <1>9

\* It returns fills of the sequence, each that matches among them.
LEMMA MatchingFinds ==
    ASSUME NEW fills \in Seq(StoredFill), NEW filter
    PROVE  /\ Matching(fills, filter) \in Seq(StoredFill)
           /\ Len(Matching(fills, filter)) <= Len(fills)
           /\ \A j \in 1 .. Len(Matching(fills, filter)) :
                 \E i \in 1 .. Len(fills) : Matching(fills, filter)[j] = fills[i]
           /\ \A i \in 1 .. Len(fills) : IsPrefix(filter, fills[i].label) =>
                 \E j \in 1 .. Len(Matching(fills, filter)) : Matching(fills, filter)[j] = fills[i]
<1>1. PICK f : IsSearch(f, fills, filter) /\ Matching(fills, filter) = f[Len(fills)]
  BY MatchingIsSearch
<1> DEFINE n == Len(fills)
           Found(k, m) ==
               /\ m \in Seq(StoredFill) /\ Len(m) <= k
               /\ \A j \in 1 .. Len(m) : \E i \in 1 .. k : m[j] = fills[i]
               /\ \A i \in 1 .. k : IsPrefix(filter, fills[i].label) =>
                      \E j \in 1 .. Len(m) : m[j] = fills[i]
           S == {k \in 0 .. n : Found(k, f[k])}
<1>2. n \in Nat
  OBVIOUS
<1>3. 0 \in S
  BY <1>1 DEF IsSearch
<1>4. ASSUME NEW k \in 1 .. n, k - 1 \in S PROVE k \in S
  <2>1. PICK m \in Seq(StoredFill) : m = f[k - 1]
    BY <1>1 DEF IsSearch
  <2>2. Found(k - 1, m)
    BY <1>4, <2>1
  <2>3. fills[k] \in StoredFill /\ k \in Nat
    OBVIOUS
  <2>4. CASE ~ IsPrefix(filter, fills[k].label)
    <3>1. f[k] = m
      BY <1>1, <2>1, <2>4 DEF IsSearch
    <3>2. \A i \in 1 .. k : i \in 1 .. (k - 1) \/ i = k
      BY <2>3
    <3>3. \A i \in 1 .. (k - 1) : i \in 1 .. k
      BY <2>3
    <3>4. Len(m) <= k
      BY <2>2, <2>3
    <3>5. \A j \in 1 .. Len(m) : \E i \in 1 .. k : m[j] = fills[i]
      BY <2>2, <3>3
    <3>6. \A i \in 1 .. k : IsPrefix(filter, fills[i].label) => \E j \in 1 .. Len(m) : m[j] = fills[i]
      BY <2>2, <2>4, <3>2
    <3>7. Found(k, f[k])
      BY <3>1, <3>4, <3>5, <3>6
    <3> QED BY <2>3, <3>7
  <2>5. CASE IsPrefix(filter, fills[k].label)
    <3>1. f[k] = <<fills[k]>> \o m
      BY <1>1, <2>1, <2>5 DEF IsSearch
    <3>2. PICK e \in Seq(StoredFill) : e = <<fills[k]>> \o m
      <4>1. <<fills[k]>> \in Seq(StoredFill)
        BY <2>3
      <4>2. <<fills[k]>> \o m \in Seq(StoredFill)
        BY <4>1
      <4> QED BY <4>2
    <3>3. Len(e) = Len(m) + 1 /\ e[1] = fills[k] /\ Len(m) \in Nat
      BY <2>3, <3>2
    <3>4. \A j \in 2 .. Len(e) : e[j] = m[j - 1]
      BY <2>3, <3>2
    <3>5. Len(e) <= k
      BY <2>2, <3>3
    <3>6. ASSUME NEW j \in 1 .. Len(e)
          PROVE  \E i \in 1 .. k : e[j] = fills[i]
      <4>1. CASE j = 1
        BY <2>3, <3>3, <4>1
      <4>2. CASE j # 1
        <5>1. e[j] = m[j - 1] /\ j - 1 \in 1 .. Len(m)
          BY <3>3, <3>4, <4>2
        <5>2. PICK i \in 1 .. (k - 1) : m[j - 1] = fills[i]
          BY <2>2, <5>1
        <5> QED BY <5>1, <5>2
      <4> QED BY <4>1, <4>2
    <3>7. ASSUME NEW i \in 1 .. k, IsPrefix(filter, fills[i].label)
          PROVE  \E j \in 1 .. Len(e) : e[j] = fills[i]
      <4>1. CASE i = k
        BY <3>3, <4>1
      <4>2. CASE i # k
        <5>1. i \in 1 .. (k - 1)
          BY <4>2
        <5>2. PICK j \in 1 .. Len(m) : m[j] = fills[i]
          BY <2>2, <3>7, <5>1
        <5>3. j + 1 \in 2 .. Len(e) /\ j + 1 \in 1 .. Len(e) /\ (j + 1) - 1 = j
          BY <3>3
        <5> QED BY <3>4, <5>2, <5>3
      <4> QED BY <4>1, <4>2
    <3>8. Found(k, e)
      BY <3>5, <3>6, <3>7
    <3>9. Found(k, f[k])
      <4> HIDE DEF Found
      <4> QED BY <3>1, <3>2, <3>8
    <3> HIDE DEF Found
    <3> QED BY <2>3, <3>9
  <2> QED BY <2>4, <2>5
<1> HIDE DEF S
<1>5. \A k \in 0 .. n : k \in S
  BY <1>2, <1>3, <1>4, IntervalInduction
<1>6. Found(n, f[n])
  BY <1>2, <1>5 DEF S
<1> QED BY <1>1, <1>6

LEMMA EmptyIsPrefix ==
    ASSUME NEW x \in StoredFill
    PROVE  x.label \in Seq(Range(x.label)) /\ IsPrefix(<<>>, x.label) /\ IsPrefix(x.label, x.label)
<1>1. PICK label \in Labels : x.label = label
  BY DEF StoredFill, Labelled
<1>2. label \in Seq(Range(label))
  BY StorageMode
<1> HIDE DEF Range
<1>3. SubSeq(<<>>, 1, 0) = <<>> /\ SubSeq(label, 1, 0) = <<>> /\ Len(<<>>) = 0
  BY <1>2
<1>4. Len(label) \in Nat
  BY <1>2
<1> QED BY <1>1, <1>2, <1>3, <1>4 DEF IsPrefix

\* Without a filter it returns all fills, the last one first.
LEMMA MatchingAll ==
    ASSUME NEW fills \in Seq(StoredFill)
    PROVE  /\ Len(Matching(fills, <<>>)) = Len(fills)
           /\ Reverse(Matching(fills, <<>>)) = fills
<1>1. PICK f : IsSearch(f, fills, <<>>) /\ Matching(fills, <<>>) = f[Len(fills)]
  BY MatchingIsSearch
<1> DEFINE n == Len(fills)
           Turned(k, m) == Len(m) = k /\ \A i \in 1 .. k : m[k + 1 - i] = fills[i]
           S == {k \in 0 .. n : Turned(k, f[k])}
<1>2. n \in Nat
  OBVIOUS
<1>3. 0 \in S
  BY <1>1 DEF IsSearch
<1>4. ASSUME NEW k \in 1 .. n, k - 1 \in S PROVE k \in S
  <2>1. PICK m \in Seq(StoredFill) : m = f[k - 1]
    BY <1>1 DEF IsSearch
  <2>2. Turned(k - 1, m)
    BY <1>4, <2>1
  <2>3. fills[k] \in StoredFill /\ k \in Nat
    OBVIOUS
  <2>4. f[k] = <<fills[k]>> \o m
    BY <1>1, <2>1, <2>3, EmptyIsPrefix DEF IsSearch
  <2>5. PICK e \in Seq(StoredFill) : e = <<fills[k]>> \o m
    <3>1. <<fills[k]>> \in Seq(StoredFill)
      BY <2>3
    <3>2. <<fills[k]>> \o m \in Seq(StoredFill)
      BY <3>1
    <3> QED BY <3>2
  <2>6. Len(e) = Len(m) + 1 /\ e[1] = fills[k] /\ Len(m) \in Nat
    BY <2>3, <2>5
  <2>7. \A j \in 2 .. Len(e) : e[j] = m[j - 1]
    BY <2>3, <2>5
  <2>8. ASSUME NEW i \in 1 .. k
        PROVE  e[k + 1 - i] = fills[i]
    <3>1. CASE i = k
      BY <2>6, <3>1
    <3>2. CASE i # k
      <4>1. i \in 1 .. (k - 1) /\ k + 1 - i \in 2 .. Len(e) /\ (k + 1 - i) - 1 = (k - 1) + 1 - i
        BY <2>2, <2>6, <3>2
      <4> QED BY <2>2, <2>7, <4>1
    <3> QED BY <3>1, <3>2
  <2>9. Turned(k, e)
    BY <2>2, <2>6, <2>8
  <2>10. Turned(k, f[k])
    <3> HIDE DEF Turned
    <3> QED BY <2>4, <2>5, <2>9
  <2> HIDE DEF Turned
  <2> QED BY <2>3, <2>10
<1> HIDE DEF S
<1>5. \A k \in 0 .. n : k \in S
  BY <1>2, <1>3, <1>4, IntervalInduction
<1>6. Turned(n, f[n])
  <2>1. n \in S
    BY <1>2, <1>5
  <2> HIDE DEF Turned
  <2> QED BY <2>1 DEF S
<1>7. Reverse(f[n]) = [i \in 1 .. n |-> fills[i]]
  BY <1>2, <1>6 DEF Reverse
<1>8. fills = [i \in 1 .. n |-> fills[i]]
  OBVIOUS
<1> QED BY <1>1, <1>6, <1>7, <1>8

-----------------------------------------------------------------------------
(* What is loaded is the database *)

\* load_fills by time returns stored fills.
LEMMA LoadSinceFromStored ==
    ASSUME db.fills \in Seq(StoredFill), NEW time, NEW f \in Range(LoadSince(time, <<>>))
    PROVE  \E i \in 1 .. Len(db.fills) : db.fills[i] = f
<1> DEFINE n == Len(db.fills)
           older == {k \in 1 .. n : db.fills[k].time <= time}
           first == 1 + Max({0} \cup older)
           young == SubSeq(db.fills, first, n)
<1>1. n \in Nat
  OBVIOUS
<1>2. Max({0} \cup older) \in 0 .. n
  <2> DEFINE T == {0} \cup older
             U == {n - k : k \in T}
  <2>1. T \in SUBSET (0 .. n) /\ T # {}
    BY <1>1
  <2> HIDE DEF T
  <2>2. U # {} /\ U \in SUBSET (0 .. n)
    <3>1. PICK k \in T : TRUE
      BY <2>1
    <3>2. n - k \in U
      OBVIOUS
    <3>3. ASSUME NEW q \in T PROVE n - q \in 0 .. n
      <4>1. q \in 0 .. n
        BY <2>1
      <4> HIDE DEF n
      <4> QED BY <1>1, <4>1
    <3> QED BY <3>2, <3>3
  <2> HIDE DEF U
  <2>3. PICK u \in U : \A q \in U : u <= q
    BY <1>1, <2>2, LeastTimeExists
  <2>4. PICK k \in T : u = n - k
    BY DEF U
  <2>5. \A q \in T : k >= q
    <3>1. ASSUME NEW q \in T PROVE k >= q
      <4>1. n - k <= n - q
        BY <2>3, <2>4 DEF U
      <4> QED BY <1>1, <2>1, <4>1
    <3> QED BY <3>1
  <2>6. Max(T) \in T
    BY <2>5 DEF Max
  <2> QED BY <2>1, <2>6 DEF T
<1> HIDE DEF older
<1>3. first \in 1 .. (n + 1)
  BY <1>1, <1>2
<1>4. LoadSince(time, <<>>) = Matching(young, <<>>)
  BY DEF LoadSince, older
<1> HIDE DEF first
<1>5. /\ young \in Seq(StoredFill) /\ Len(young) = n + 1 - first
      /\ \A i \in 1 .. Len(young) : young[i] = db.fills[first + i - 1]
  BY <1>1, <1>3
<1> HIDE DEF young
<1>6. PICK j \in 1 .. Len(Matching(young, <<>>)) : Matching(young, <<>>)[j] = f
  BY <1>4, <1>5, MatchingFinds DEF Range
<1>7. PICK i \in 1 .. Len(young) : young[i] = f
  BY <1>5, <1>6, MatchingFinds
<1>8. first + i - 1 \in 1 .. n /\ db.fills[first + i - 1] = f
  BY <1>1, <1>3, <1>5, <1>7
<1> QED BY <1>8

\* Within the bound get_fills returns all fills that match.
LEMMA GetFillsReturnsAll ==
    ASSUME db.fills \in Seq(StoredFill), Len(db.fills) <= MaxFills, NEW filter
    PROVE  GetFills(MaxFills, filter) = Matching(db.fills, filter)
<1>1. PICK m \in Seq(StoredFill) : m = Matching(db.fills, filter)
  BY MatchingFinds
<1>2. Len(m) \in Nat /\ Len(m) <= MaxFills /\ MaxFills \in Nat
  BY <1>1, MatchingFinds, StorageBounds
<1>3. SubSeq(m, 1, Len(m)) = m
  OBVIOUS
<1>4. (IF MaxFills < Len(m) THEN MaxFills ELSE Len(m)) = Len(m)
  BY <1>2
<1> QED BY <1>1, <1>3, <1>4 DEF GetFills, LoadLast

LEMMA EntryOfOne ==
    ASSUME NEW key, NEW value
    PROVE  Entry({<<key, value>>}, key) = value
<1> DEFINE found == {<<key, value>>}
<1>1. found # {} /\ \A e \in found : e = <<key, value>>
  OBVIOUS
<1>2. \E e \in found : e[1] = key
  OBVIOUS
<1> HIDE DEF found
<1>3. (CHOOSE e \in found : e[1] = key) = <<key, value>>
  BY <1>1, <1>2
<1>4. Entry(found, key) = value
  BY <1>1, <1>3 DEF Entry
<1> QED BY <1>4 DEF found

LEMMA LoadedIsDb ==
    ASSUME db \in Db, Len(db.fills) <= MaxFills
    PROVE  Loaded = db
<1>1. db.fills \in Seq(StoredFill)
  BY DEF Db
<1>2. Reverse(GetFills(MaxFills, <<>>)) = db.fills
  BY <1>1, GetFillsReturnsAll, MatchingAll
<1>3. ASSUME NEW n \in Names
      PROVE  Entry(EnumVars(n, n), n) = db.vars[n]
  <2>1. n \in Int /\ \A m \in Names : n <= m /\ m <= n <=> m = n
    BY StorageMode
  <2>2. CASE db.vars[n] = Missing
    <3>1. EnumVars(n, n) = {}
      BY <2>1, <2>2 DEF EnumVars
    <3> QED BY <2>2, <3>1 DEF Entry
  <2>3. CASE db.vars[n] # Missing
    <3>1. EnumVars(n, n) = {<<n, db.vars[n]>>}
      BY <2>1, <2>3 DEF EnumVars
    <3> QED BY <3>1, EntryOfOne
  <2> QED BY <2>2, <2>3
<1>4. ASSUME NEW o \in Orders
      PROVE  Entry({e \in LoadOpenOrders : e[1] = o}, o) = db.orders[o]
  <2> DEFINE found == {e \in LoadOpenOrders : e[1] = o}
  <2>1. CASE db.orders[o] = Missing
    <3>1. found = {}
      BY <2>1 DEF LoadOpenOrders
    <3> QED BY <2>1, <3>1 DEF Entry
  <2>2. CASE db.orders[o] # Missing
    <3>1. found = {<<o, db.orders[o]>>}
      BY <2>2 DEF LoadOpenOrders
    <3> QED BY <3>1, EntryOfOne
  <2> QED BY <2>1, <2>2
<1>5. [n \in Names |-> Entry(EnumVars(n, n), n)] = db.vars
  <2>1. db.vars = [n \in Names |-> db.vars[n]]
    BY DEF Db
  <2> QED BY <1>3, <2>1
<1>6. [o \in Orders |-> Entry({e \in LoadOpenOrders : e[1] = o}, o)] = db.orders
  <2>1. db.orders = [o \in Orders |-> db.orders[o]]
    BY DEF Db
  <2> QED BY <1>4, <2>1
<1>7. db = [vars |-> db.vars, orders |-> db.orders, fills |-> db.fills]
  BY DEF Db
<1> QED BY <1>2, <1>5, <1>6, <1>7 DEF Loaded

-----------------------------------------------------------------------------
(* What each action does to the database and to the one a commit would leave *)

LEMMA WorkTypes ==
    ASSUME StoreInv
    PROVE  Work \in Db
BY WorkIsFinal, FinalTypes DEF StoreInv, StoreTypes, QueueInv

LEMMA StoreDoes ==
    ASSUME StoreInv, NEW w \in Writes, w \notin PutOrders, Store(w), content' = content
    PROVE  /\ StoreTypes' /\ QueueInv'
           /\ Work' = Put(content, Work, w)
           /\ db' = IF depth = 0 THEN Work' ELSE db
<1>1. /\ db \in Db /\ trn \in Seq(Writes) /\ Ready(content, trn)
      /\ depth \in 0 .. MaxDepth /\ content \in [Orders -> 0 .. MaxReports]
  BY DEF StoreInv, StoreTypes, QueueInv
<1>2. CASE depth = 0
  <2>1. trn = <<>> /\ trn' = <<>> /\ depth' = depth
    BY <1>2 DEF StoreInv, QueueInv, Store
  <2>2. db' = Put(content, db, w)
    BY <1>2, ApplyIsPut DEF Store
  <2>3. db' \in Db
    BY <1>1, <2>2, PutTypes
  <2>4. Work = db /\ Work' = db'
    BY <1>1, <2>1, <2>3, WorkIsFinal, WorkIsFinalThen, FinalOfNone
  <2>5. Ready(content', trn')
    BY <2>1 DEF Ready
  <2> QED BY <1>1, <1>2, <2>1, <2>2, <2>3, <2>4, <2>5 DEF StoreTypes, QueueInv
<1>3. CASE depth # 0
  <2>1. trn' = Append(trn, w) /\ db' = db /\ depth' = depth
    BY <1>3 DEF Store
  <2>2. Work' = Put(content, Work, w) /\ Ready(content', trn')
    BY <1>1, <2>1, WorkIsFinal, WorkIsFinalThen, FinalOfAppend
  <2>3. trn' \in Seq(Writes)
    BY <1>1, <2>1
  <2> QED BY <1>1, <1>3, <2>1, <2>2, <2>3 DEF StoreTypes, QueueInv
<1> QED BY <1>2, <1>3

LEMMA ReportDoes ==
    ASSUME StoreInv, NEW o \in Orders, Report(o)
    PROVE  /\ StoreTypes' /\ QueueInv'
           /\ content[o] + 1 \in 1 .. MaxReports
           /\ Work' = [Work EXCEPT !.orders[o] =
                           IF db.orders[o] = Missing THEN content[o] + 1 ELSE @]
           /\ db' = db /\ depth' = depth /\ depth # 0
<1>1. /\ db \in Db /\ trn \in Seq(Writes) /\ Ready(content, trn)
      /\ depth \in 0 .. MaxDepth /\ content \in [Orders -> 0 .. MaxReports]
  BY DEF StoreInv, StoreTypes, QueueInv
<1>2. PICK w \in PutOrders : w.key = o /\ Store(w)
  <2>1. [op |-> "put_order", key |-> o] \in PutOrders
    BY DEF PutOrders
  <2> QED BY <2>1 DEF Report
<1>3. depth # 0 /\ trn' = Append(trn, w) /\ db' = db /\ depth' = depth
  BY <1>1, <1>2 DEF Report, Store
<1>4. PICK n \in 1 .. MaxReports : n = content[o] + 1
  BY <1>1, StorageBounds DEF Report
<1>5. PICK m \in [Orders -> 0 .. MaxReports] :
           m = content' /\ m[o] = n /\ \A p \in Orders \ {o} : m[p] = content[p]
  <2>1. content' = [content EXCEPT ![o] = n]
    BY <1>4 DEF Report
  <2>2. content' \in [Orders -> 0 .. MaxReports]
    BY <1>1, <2>1
  <2> QED BY <1>1, <2>1, <2>2
<1>6. Ready(m, Append(trn, w)) /\ Final(m, db, Append(trn, w)) = WithOrder(Final(content, db, trn), db, o, n)
  BY <1>1, <1>2, <1>5, FinalOfReport
<1>7. Ready(content', trn') /\ Work' = WithOrder(Work, db, o, n)
  BY <1>3, <1>5, <1>6, WorkIsFinal, WorkIsFinalThen
<1>8. trn' \in Seq(Writes)
  BY <1>1, <1>2, <1>3 DEF Writes
<1>9. content' \in [Orders -> 0 .. MaxReports]
  BY <1>5
<1> QED BY <1>1, <1>3, <1>4, <1>7, <1>8, <1>9 DEF StoreTypes, QueueInv, WithOrder

LEMMA OuterTypes ==
    ASSUME depth \in 0 .. MaxDepth
    PROVE  Outer \in 0 .. MaxDepth
BY StorageBounds DEF Outer

LEMMA CommitDoes ==
    ASSUME StoreInv, Commit
    PROVE  /\ StoreTypes' /\ QueueInv'
           /\ Work' = Work /\ db' = IF Outer = 0 THEN Work ELSE db
<1>1. /\ db \in Db /\ trn \in Seq(Writes) /\ Ready(content, trn)
      /\ depth \in 0 .. MaxDepth /\ content \in [Orders -> 0 .. MaxReports]
  BY DEF StoreInv, StoreTypes, QueueInv
<1>2. depth' = Outer /\ Outer \in 0 .. MaxDepth /\ content' = content
  BY <1>1, OuterTypes DEF Commit
<1>3. CASE Outer = 0
  <2>1. db' = Work /\ trn' = <<>>
    BY <1>3 DEF Commit
  <2>2. Ready(content', trn') /\ trn' \in Seq(Writes)
    BY <2>1 DEF Ready
  <2>3. db' \in Db
    BY <2>1, WorkTypes
  <2>4. Work' = db'
    BY <2>1, <2>3, WorkIsFinalThen, FinalOfNone
  <2> QED BY <1>1, <1>2, <1>3, <2>1, <2>2, <2>3, <2>4 DEF StoreTypes, QueueInv
<1>4. CASE Outer # 0
  <2>1. db' = db /\ trn' = trn
    BY <1>4 DEF Commit
  <2>2. Work' = Work
    BY <1>2, <2>1, WorkIsFinal, WorkIsFinalThen
  <2> QED BY <1>1, <1>2, <1>4, <2>1, <2>2 DEF StoreTypes, QueueInv
<1> QED BY <1>3, <1>4

LEMMA RollbackDoes ==
    ASSUME StoreInv, Rollback
    PROVE  StoreTypes' /\ QueueInv' /\ Work' = db /\ db' = db
<1>1. db \in Db /\ depth \in 0 .. MaxDepth /\ content \in [Orders -> 0 .. MaxReports]
  BY DEF StoreInv, StoreTypes
<1>2. depth' = Outer /\ Outer \in 0 .. MaxDepth /\ content' = content /\ db' = db /\ trn' = <<>>
  BY <1>1, OuterTypes DEF Rollback
<1>3. Ready(content', trn') /\ trn' \in Seq(Writes)
  BY <1>2 DEF Ready
<1>4. Work' = db
  BY <1>1, <1>2, WorkIsFinalThen, FinalOfNone
<1> QED BY <1>1, <1>2, <1>3, <1>4 DEF StoreTypes, QueueInv

LEMMA BeginDoes ==
    ASSUME StoreInv, BeginTransaction
    PROVE  StoreTypes' /\ QueueInv' /\ Work' = Work /\ db' = db
<1>1. /\ db' = db /\ trn' = trn /\ content' = content
      /\ depth' = depth + 1 /\ depth < MaxDepth
  BY DEF BeginTransaction
<1>2. Work' = Work
  BY <1>1, WorkIsFinal, WorkIsFinalThen
<1>3. depth' \in 0 .. MaxDepth /\ depth' # 0
  BY <1>1, StorageBounds DEF StoreInv, StoreTypes
<1> QED BY <1>1, <1>2, <1>3 DEF StoreInv, StoreTypes, QueueInv

LEMMA NothingDone ==
    ASSUME StoreInv, UNCHANGED <<db, trn, depth, content>>
    PROVE  StoreTypes' /\ QueueInv' /\ Work' = Work
<1>1. Work' = Work
  BY WorkIsFinal, WorkIsFinalThen
<1> QED BY <1>1 DEF StoreInv, StoreTypes, QueueInv

-----------------------------------------------------------------------------
(* The invariant *)

LEMMA StoreInit ==
    ASSUME Init
    PROVE  StoreInv
<1>1. db \in Db /\ db.fills = <<>>
  BY DEF Init, Db
<1>2. trn = <<>> /\ trn \in Seq(Writes) /\ depth \in 0 .. MaxDepth
  BY StorageBounds DEF Init
<1>3. content \in [Orders -> 0 .. MaxReports] /\ skipped = {}
  BY StorageBounds DEF Init
<1>4. Work = db
  BY <1>1, <1>2, WorkIsFinal, FinalOfNone
<1>5. Len(Work.fills) <= MaxFills
  BY <1>1, <1>4, StorageBounds
<1> QED BY <1>1, <1>2, <1>3, <1>5 DEF StoreInv, StoreTypes, QueueInv, FillsInv, Ready

\* The fills of the database are the first of those a commit would leave.
LEMMA WorkKeepsFills ==
    ASSUME StoreInv
    PROVE  /\ Len(db.fills) <= Len(Work.fills)
           /\ \A i \in 1 .. Len(db.fills) : Work.fills[i] = db.fills[i]
BY WorkIsFinal, FinalKeepsFills DEF StoreInv, StoreTypes, QueueInv

LEMMA DbWithinBound ==
    ASSUME StoreInv
    PROVE  Len(db.fills) <= MaxFills
<1>1. Len(db.fills) \in Nat /\ Len(Work.fills) \in Nat /\ MaxFills \in Nat
  BY WorkTypes, StorageBounds DEF StoreInv, StoreTypes, Db
<1> QED BY <1>1, WorkKeepsFills DEF StoreInv, FillsInv

\* A step that adds to what is stored loses nothing that was found to be stored.
LEMMA SkippedStayStored ==
    ASSUME StoreInv, skipped' = skipped, db' = db \/ db'.fills = Work.fills
    PROVE  \A id \in skipped' : \E i \in 1 .. Len(db'.fills) : db'.fills[i].id = id
<1>1. \A id \in skipped : \E i \in 1 .. Len(db.fills) : db.fills[i].id = id
  BY DEF StoreInv, FillsInv
<1>2. CASE db' = db
  BY <1>1, <1>2
<1>3. CASE db'.fills = Work.fills
  <2>1. Len(db.fills) \in Nat /\ Len(Work.fills) \in Nat
    BY WorkTypes DEF StoreInv, StoreTypes, Db
  <2>2. \A i \in 1 .. Len(db.fills) :
            i \in 1 .. Len(Work.fills) /\ Work.fills[i] = db.fills[i]
    BY <2>1, WorkKeepsFills
  <2> HIDE DEF Work
  <2> QED BY <1>1, <1>3, <2>2
<1> QED BY <1>2, <1>3

LEMMA VariableStep ==
    ASSUME StoreInv, NEW n \in Names, EraseVar(n) \/ \E v \in Values : PutVar(n, v)
    PROVE  StoreInv'
<1>1. PICK w \in Writes : w \notin PutOrders /\ w \notin PutFills /\ Store(w)
  <2>1. CASE EraseVar(n)
    <3>1. [op |-> "erase_var", key |-> n] \in EraseVars
      BY DEF EraseVars
    <3>2. ASSUME NEW w \in EraseVars PROVE w \notin PutOrders /\ w \notin PutFills
      BY DEF EraseVars, PutOrders, PutFills
    <3> QED BY <2>1, <3>1, <3>2 DEF EraseVar, Writes
  <2>2. ASSUME NEW v \in Values, PutVar(n, v)
        PROVE  \E w \in Writes : w \notin PutOrders /\ w \notin PutFills /\ Store(w)
    <3>1. [op |-> "put_var", key |-> n, value |-> v] \in PutVars
      BY DEF PutVars
    <3>2. ASSUME NEW w \in PutVars PROVE w \notin PutOrders /\ w \notin PutFills
      BY DEF PutVars, PutOrders, PutFills
    <3> QED BY <2>2, <3>1, <3>2 DEF PutVar, Writes
  <2> QED BY <2>1, <2>2
<1>2. content' = content /\ skipped' = skipped
  BY DEF EraseVar, PutVar
<1>3. /\ StoreTypes' /\ QueueInv'
      /\ Work' = Put(content, Work, w)
      /\ db' = IF depth = 0 THEN Work' ELSE db
  BY <1>1, <1>2, StoreDoes
<1>4. Work'.fills = Work.fills
  BY <1>1, <1>3, WorkTypes, PutKeepsFills
<1>5. db' = db \/ db'.fills = Work.fills
  BY <1>3, <1>4
<1>6. FillsInv'
  BY <1>2, <1>4, <1>5, SkippedStayStored DEF FillsInv, StoreInv
<1> QED BY <1>3, <1>6 DEF StoreInv

LEMMA FillStep ==
    ASSUME StoreInv, NEW f \in Fill, DeliverFill(f)
    PROVE  StoreInv'
<1>1. depth # 0 /\ content' = content
  BY DEF DeliverFill, StoreInv, StoreTypes
<1>2. CASE IsDuplicate(f)
  <2>1. /\ skipped' = skipped \cup {f.id}
        /\ UNCHANGED <<db, trn, depth>>
    BY <1>2 DEF DeliverFill
  <2>2. StoreTypes' /\ QueueInv' /\ Work' = Work
    BY <1>1, <2>1, NothingDone
  <2>3. PICK g \in Range(LoadSince(f.time, <<>>)) : g.id = f.id
    BY <1>2 DEF IsDuplicate
  <2>4. db.fills \in Seq(StoredFill)
    BY DEF StoreInv, StoreTypes, Db
  <2>5. PICK i \in 1 .. Len(db.fills) : db.fills[i] = g
    BY <2>4, LoadSinceFromStored
  <2>6. \A id \in skipped : \E j \in 1 .. Len(db.fills) : db.fills[j].id = id
    BY DEF StoreInv, FillsInv
  <2>7. \A id \in skipped' : \E j \in 1 .. Len(db'.fills) : db'.fills[j].id = id
    BY <2>1, <2>3, <2>5, <2>6
  <2>8. FillsInv'
    BY <2>2, <2>7 DEF FillsInv, StoreInv
  <2> QED BY <2>2, <2>8 DEF StoreInv
<1>3. CASE ~ IsDuplicate(f)
  <2>1. PICK label \in Labels : Store([op |-> "put_fill", fill |-> Labelled(f, label)])
    BY <1>3 DEF DeliverFill
  <2>2. skipped' = skipped /\ Len(Work.fills) < MaxFills
    BY <1>3 DEF DeliverFill
  <2> DEFINE w == [op |-> "put_fill", fill |-> Labelled(f, label)]
  <2>3. Labelled(f, label) \in StoredFill
    BY DEF StoredFill
  <2>4. w \in PutFills /\ w \in Writes /\ w \notin PutOrders
    BY <2>3 DEF PutFills, PutOrders, Writes
  <2> HIDE DEF w
  <2>5. /\ StoreTypes' /\ QueueInv'
        /\ Work' = Put(content, Work, w)
        /\ db' = db
    BY <1>1, <2>1, <2>4, StoreDoes DEF w
  <2>6. Work'.fills = Append(Work.fills, w.fill)
    BY <2>4, <2>5, WorkTypes DEF Put, PutFills, Db
  <2>7. Work.fills \in Seq(StoredFill) /\ w.fill \in StoredFill
    BY <2>4, WorkTypes DEF Db, PutFills
  <2>8. Len(Work'.fills) <= MaxFills
    <3> HIDE DEF Work
    <3>1. ASSUME NEW s \in Seq(StoredFill), NEW x \in StoredFill, Len(s) < MaxFills
          PROVE  Len(Append(s, x)) <= MaxFills
      BY <3>1, StorageBounds
    <3> QED BY <2>2, <2>6, <2>7, <3>1
  <2>9. FillsInv'
    BY <2>2, <2>5, <2>8, SkippedStayStored DEF FillsInv
  <2> QED BY <2>5, <2>9 DEF StoreInv
<1> QED BY <1>2, <1>3

LEMMA StoreStep ==
    ASSUME StoreInv, [Next]_vars
    PROVE  StoreInv'
<1>1. ASSUME NEW o \in Orders, Report(o) PROVE StoreInv'
  <2>1. /\ StoreTypes' /\ QueueInv' /\ db' = db
        /\ Work' = [Work EXCEPT !.orders[o] =
                        IF db.orders[o] = Missing THEN content[o] + 1 ELSE @]
    BY <1>1, ReportDoes
  <2>2. Work'.fills = Work.fills
    BY <2>1, WorkTypes DEF Db
  <2>3. skipped' = skipped
    BY <1>1 DEF Report
  <2>4. FillsInv'
    BY <2>1, <2>2, <2>3, SkippedStayStored DEF FillsInv, StoreInv
  <2> QED BY <2>1, <2>4 DEF StoreInv
<1>2. CASE BeginTransaction
  <2>1. skipped' = skipped
    BY <1>2 DEF BeginTransaction
  <2>2. StoreTypes' /\ QueueInv' /\ Work' = Work /\ db' = db
    BY <1>2, BeginDoes
  <2>3. FillsInv'
    BY <2>1, <2>2, SkippedStayStored DEF FillsInv, StoreInv
  <2> QED BY <2>2, <2>3 DEF StoreInv
<1>3. CASE Commit
  <2>1. skipped' = skipped
    BY <1>3 DEF Commit
  <2>2. /\ StoreTypes' /\ QueueInv' /\ Work' = Work
        /\ db' = IF Outer = 0 THEN Work ELSE db
    BY <1>3, CommitDoes
  <2>3. db' = db \/ db'.fills = Work.fills
    BY <2>2
  <2>4. FillsInv'
    BY <2>1, <2>2, <2>3, SkippedStayStored DEF FillsInv, StoreInv
  <2> QED BY <2>2, <2>4 DEF StoreInv
<1>4. CASE Rollback
  <2>1. skipped' = skipped
    BY <1>4 DEF Rollback
  <2>2. StoreTypes' /\ QueueInv' /\ Work' = db /\ db' = db
    BY <1>4, RollbackDoes
  <2>3. FillsInv'
    BY <2>1, <2>2, SkippedStayStored, DbWithinBound DEF FillsInv
  <2> QED BY <2>2, <2>3 DEF StoreInv
<1>5. CASE UNCHANGED vars
  <2>1. skipped' = skipped /\ db' = db
    BY <1>5 DEF vars
  <2>2. StoreTypes' /\ QueueInv' /\ Work' = Work
    BY <1>5, NothingDone DEF vars
  <2>3. FillsInv'
    BY <2>1, <2>2, SkippedStayStored DEF FillsInv, StoreInv
  <2> QED BY <2>2, <2>3 DEF StoreInv
<1> QED BY VariableStep, FillStep, <1>1, <1>2, <1>3, <1>4, <1>5 DEF Next

LEMMA StoreInvariance == Spec => []StoreInv
<1>1. Init => StoreInv
  BY StoreInit
<1>2. StoreInv /\ [Next]_vars => StoreInv'
  BY StoreStep
<1> QED BY <1>1, <1>2, PTL DEF Spec

LEMMA StoredAreRead == StoreInv => DuplicatesAreStored
<1> SUFFICES ASSUME StoreInv, NEW id \in skipped
             PROVE  \E f \in Range(GetFills(MaxFills, <<>>)) :
                        f.id = id /\ f \in Range(GetFills(MaxFills, f.label))
  BY DEF DuplicatesAreStored
<1>1. db.fills \in Seq(StoredFill) /\ Len(db.fills) <= MaxFills
  BY DbWithinBound DEF StoreInv, StoreTypes, Db
<1>2. PICK i \in 1 .. Len(db.fills) : db.fills[i].id = id
  BY DEF StoreInv, FillsInv
<1>3. PICK f \in StoredFill : f = db.fills[i]
  BY <1>1
<1>4. ASSUME NEW filter, IsPrefix(filter, f.label)
      PROVE  f \in Range(GetFills(MaxFills, filter))
  <2>1. PICK m \in Seq(StoredFill) : m = Matching(db.fills, filter)
    BY <1>1, MatchingFinds
  <2>2. PICK j \in 1 .. Len(m) : m[j] = f
    BY <1>1, <1>3, <1>4, <2>1, MatchingFinds
  <2>3. GetFills(MaxFills, filter) = m
    BY <1>1, <2>1, GetFillsReturnsAll
  <2> QED BY <2>2, <2>3 DEF Range
<1> QED BY <1>2, <1>3, <1>4, EmptyIsPrefix

\* A fill that is skipped as a duplicate is stored and can be read back, whatever is
\* rolled back later.
THEOREM SkippedFillsAreStored == Spec => []DuplicatesAreStored
BY StoreInvariance, StoredAreRead, PTL

-----------------------------------------------------------------------------
(* The refinement *)

\* What a restarted strategy reads is the database.
ReadsBack == Loaded = db

LEMMA StoreReadsBack == StoreInv => ReadsBack
BY LoadedIsDb, DbWithinBound DEF StoreInv, StoreTypes, ReadsBack

LEMMA PromiseInit == Init => Promise!Init
<1> SUFFICES ASSUME Init
             PROVE  Promise!Init
  OBVIOUS
<1>1. StoreInv
  BY StoreInit
<1>2. Loaded = db
  BY <1>1, StoreReadsBack DEF ReadsBack
<1>3. Work = db
  BY <1>1, WorkIsFinal, FinalOfNone DEF Init, StoreInv, StoreTypes
<1> QED BY <1>2, <1>3 DEF Init, Promise!Init

LEMMA PromiseStep ==
    ASSUME StoreInv, ReadsBack, ReadsBack', [Next]_vars
    PROVE  [Promise!Next]_<<Loaded, Work, depth, call>>
<1>1. Loaded = db /\ Loaded' = db'
  BY DEF ReadsBack
<1>2. PICK d \in Db : d = Work
  BY WorkTypes
<1>3. db \in Db /\ depth \in Nat
  BY StorageBounds DEF StoreInv, StoreTypes
<1>4. ASSUME NEW n \in Names, EraseVar(n) PROVE Promise!EraseVar(n)
  <2>1. PICK w \in EraseVars : w = [op |-> "erase_var", key |-> n]
    BY DEF EraseVars
  <2>2. w \in Writes /\ w \notin PutOrders
    BY DEF Writes, PutOrders, EraseVars
  <2>3. Store(w) /\ content' = content
    BY <1>4, <2>1 DEF EraseVar
  <2>4. Work' = Put(content, d, w) /\ db' = IF depth = 0 THEN Work' ELSE db
    BY <1>2, <2>2, <2>3, StoreDoes
  <2>5. Put(content, d, w) = [d EXCEPT !.vars[n] = Missing]
    BY <2>1 DEF Put
  <2>6. call' = w /\ depth' = depth
    BY <2>3 DEF Store
  <2> QED BY <1>1, <1>2, <2>1, <2>4, <2>5, <2>6 DEF Promise!EraseVar, Promise!Write
<1>5. ASSUME NEW n \in Names, NEW v \in Values, PutVar(n, v) PROVE Promise!PutVar(n, v)
  <2>1. PICK w \in PutVars : w = [op |-> "put_var", key |-> n, value |-> v]
    BY DEF PutVars
  <2>2. w \in Writes /\ w \notin PutOrders
    BY DEF Writes, PutOrders, PutVars
  <2>3. Store(w) /\ content' = content
    BY <1>5, <2>1 DEF PutVar
  <2>4. Work' = Put(content, d, w) /\ db' = IF depth = 0 THEN Work' ELSE db
    BY <1>2, <2>2, <2>3, StoreDoes
  <2>5. Put(content, d, w) = [d EXCEPT !.vars[n] = IF @ = Missing THEN v ELSE @]
    <3>1. CASE d.vars[n] = Missing
      BY <2>1, <3>1 DEF Put
    <3>2. CASE d.vars[n] # Missing
      <4>1. Put(content, d, w) = d
        BY <2>1, <3>2 DEF Put
      <4>2. d = [d EXCEPT !.vars[n] = d.vars[n]]
        BY DEF Db
      <4> QED BY <3>2, <4>1, <4>2
    <3> QED BY <3>1, <3>2
  <2>6. call' = w /\ depth' = depth
    BY <2>3 DEF Store
  <2> DEFINE entry == IF d.vars[n] = Missing THEN v ELSE d.vars[n]
  <2>7. entry \in Promise!AfterPut(d.vars[n], v)
    BY DEF Promise!AfterPut
  <2>8. Work' = [d EXCEPT !.vars[n] = entry]
    BY <2>4, <2>5
  <2> HIDE DEF entry
  <2> QED BY <1>1, <1>2, <2>1, <2>4, <2>6, <2>7, <2>8 DEF Promise!PutVar, Promise!Write
<1>6. ASSUME NEW o \in Orders, Report(o)
      PROVE  \E c \in 1 .. MaxReports : Promise!PutOrder(o, c)
  <2>1. PICK c \in 1 .. MaxReports : c = content[o] + 1
    BY <1>6, ReportDoes
  <2>2. /\ Work' = [d EXCEPT !.orders[o] = IF db.orders[o] = Missing THEN c ELSE @]
        /\ db' = db /\ depth' = depth /\ depth # 0
    BY <1>2, <1>6, <2>1, ReportDoes
  <2>3. call' = [op |-> "put_order", key |-> o]
    BY <1>6 DEF Report, Store
  <2>4. Promise!PutOrder(o, c)
    <3> DEFINE entry == IF db.orders[o] = Missing THEN c ELSE d.orders[o]
    <3>1. entry \in Promise!AfterPut(d.orders[o], c)
      <4>1. d.orders[o] = Missing => db.orders[o] = Missing
        BY <1>2, WorkIsFinal, FinalKeepsOrder DEF StoreInv, StoreTypes, QueueInv
      <4> QED BY <4>1 DEF Promise!AfterPut
    <3>2. Work' = [d EXCEPT !.orders[o] = entry]
      BY <2>2
    <3> HIDE DEF entry
    <3> QED BY <1>1, <1>2, <2>2, <2>3, <3>1, <3>2 DEF Promise!PutOrder, Promise!Write
  <2> QED BY <2>4
<1>7. ASSUME NEW f \in Fill, DeliverFill(f)
      PROVE  \/ \E g \in StoredFill : Promise!PutFill(g)
             \/ UNCHANGED <<Loaded, Work, depth, call>>
  <2>1. CASE IsDuplicate(f)
    <3>1. UNCHANGED <<db, trn, depth, call, content>>
      BY <1>7, <2>1 DEF DeliverFill
    <3>2. Work' = Work
      BY <3>1, NothingDone
    <3> QED BY <1>1, <3>1, <3>2
  <2>2. CASE ~ IsDuplicate(f)
    <3>1. PICK label \in Labels : Store([op |-> "put_fill", fill |-> Labelled(f, label)])
      BY <1>7, <2>2 DEF DeliverFill
    <3>2. PICK g \in StoredFill : g = Labelled(f, label)
      BY DEF StoredFill
    <3>3. PICK w \in PutFills : w = [op |-> "put_fill", fill |-> g]
      BY DEF PutFills
    <3>4. w \in Writes /\ w \notin PutOrders
      BY DEF Writes, PutOrders, PutFills
    <3>5. Store(w) /\ content' = content
      BY <1>7, <3>1, <3>2, <3>3 DEF DeliverFill
    <3>6. Work' = Put(content, d, w) /\ db' = IF depth = 0 THEN Work' ELSE db
      BY <1>2, <3>4, <3>5, StoreDoes
    <3>7. Put(content, d, w) = [d EXCEPT !.fills = Append(@, g)]
      BY <3>3 DEF Put
    <3>8. call' = w /\ depth' = depth
      BY <3>5 DEF Store
    <3>9. Promise!PutFill(g)
      BY <1>1, <1>2, <3>3, <3>6, <3>7, <3>8 DEF Promise!PutFill, Promise!Write
    <3> QED BY <3>9
  <2> QED BY <2>1, <2>2
<1>8. CASE BeginTransaction
  <2>1. Work' = Work /\ db' = db
    BY <1>8, BeginDoes
  <2>2. Promise!Begin
    BY <1>1, <1>8, <2>1 DEF BeginTransaction, Promise!Begin
  <2> QED BY <2>2 DEF Promise!Next
<1>9. CASE Commit
  <2>1. Work' = Work /\ db' = IF Outer = 0 THEN Work ELSE db
    BY <1>9, CommitDoes
  <2>2. call' = [op |-> "commit"] /\ depth' = Outer
    BY <1>9 DEF Commit
  <2>3. Promise!Outer = Outer
    BY DEF Outer, Promise!Outer
  <2>4. Promise!Commit
    BY <1>1, <2>1, <2>2, <2>3 DEF Promise!Commit
  <2> QED BY <2>4 DEF Promise!Next
<1>10. CASE Rollback
  <2>1. Work' = db /\ db' = db
    BY <1>10, RollbackDoes
  <2>2. call' = [op |-> "rollback"] /\ depth' = Outer
    BY <1>10 DEF Rollback
  <2>3. Promise!Outer = Outer
    BY DEF Outer, Promise!Outer
  <2>4. Promise!Rollback
    BY <1>1, <2>1, <2>2, <2>3 DEF Promise!Rollback
  <2> QED BY <2>4 DEF Promise!Next
<1>11. CASE UNCHANGED vars
  <2>1. UNCHANGED <<db, trn, depth, call, content>>
    BY <1>11 DEF vars
  <2>2. Work' = Work
    BY <2>1, NothingDone
  <2> QED BY <1>1, <2>1, <2>2
<1>12. CASE \E n \in Names : EraseVar(n) \/ \E v \in Values : PutVar(n, v)
  <2>1. Promise!Next
    BY <1>4, <1>5, <1>12 DEF Promise!Next
  <2> QED BY <2>1
<1>13. CASE \E o \in Orders : Report(o)
  <2>1. Promise!Next
    BY <1>6, <1>13 DEF Promise!Next
  <2> QED BY <2>1
<1>14. CASE \E f \in Fill : DeliverFill(f)
  <2>1. Promise!Next \/ UNCHANGED <<Loaded, Work, depth, call>>
    BY <1>7, <1>14 DEF Promise!Next, StoredFill
  <2> QED BY <2>1
<1> QED BY <1>8, <1>9, <1>10, <1>11, <1>12, <1>13, <1>14 DEF Next

\* What is read from the storage is a transactional store: each call to it is a step of
\* TransactionalStore or changes nothing that can be read, now or after a commit.
THEOREM StorageIsTransactional == Spec => IsTransactionalStore
<1>1. Init => Promise!Init
  BY PromiseInit
<1>2. StoreInv => ReadsBack
  BY StoreReadsBack
<1>3. StoreInv /\ ReadsBack /\ ReadsBack' /\ [Next]_vars
          => [Promise!Next]_<<Loaded, Work, depth, call>>
  BY PromiseStep
<1> QED BY StoreInvariance, <1>1, <1>2, <1>3, PTL DEF Spec, IsTransactionalStore, Promise!Spec
=============================================================================
