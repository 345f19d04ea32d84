---------------------------- MODULE MemoryStorage ----------------------------
(***************************************************************************)
(* The storage of a context: class MemoryStorage, and the calls the        *)
(* context makes to it.  Writes inside a transaction are queued and run    *)
(* when the outermost transaction commits.  What is queued for an order is *)
(* the order itself: its content is read when the write runs.              *)
(***************************************************************************)
EXTENDS Integers, Sequences, SequencesExt

CONSTANTS
    Names,          \* variables of the strategy, as numbers in the order of their names
    Values,         \* their values
    Orders,         \* orders that can be stored (to_binary returns something)
    Fill,           \* reported fills: the exchange's unique ID, and the timestamp
    Labels,         \* what on_fill labels them with, as sequences of characters
    Missing,        \* no entry in a map
    MaxDepth,       \* bound on nested transactions
    MaxQueued,      \* bound on writes in a transaction
    MaxReports,     \* bound on reports of an order
    MaxFills        \* bound on stored fills

ASSUME StorageBounds ==
    /\ MaxDepth \in Nat \ {0} /\ MaxQueued \in Nat
    /\ MaxReports \in Nat /\ MaxFills \in Nat
ASSUME StorageMode ==
    /\ Names \subseteq Int
    /\ \A f \in Fill : f.time \in Nat
    /\ Missing \notin Values /\ Missing \notin 1 .. MaxReports
    /\ <<>> \in Labels /\ \A label \in Labels : label \in Seq(Range(label))

VARIABLES
    db,             \* _vars, _orders and _fills
    trn,            \* _transaction
    depth,          \* _transaction_counter
    call,           \* the last call made to the storage
    content,        \* the state of each order, as the number of its last report
    skipped         \* IDs of fills is_duplicate_fill has told from new ones

vars == <<db, trn, depth, call, content, skipped>>

-----------------------------------------------------------------------------
(* The writes, as functions of the database *)

\* TrnPutVar, TrnPutOrder, TrnEraseVar, TrnPutFill: an entry that exists is kept.
Apply(d, w) ==
    CASE w.op = "put_var" /\ d.vars[w.key] = Missing      -> [d EXCEPT !.vars[w.key] = w.value]
      [] w.op = "put_order" /\ d.orders[w.key] = Missing  -> [d EXCEPT !.orders[w.key] = content[w.key]]
      [] w.op = "erase_var"                               -> [d EXCEPT !.vars[w.key] = Missing]
      [] w.op = "put_fill"                                -> [d EXCEPT !.fills = Append(@, w.fill)]
      [] OTHER                                            -> d

\* The fills with a label that begins with the filter, the last one first.
Matching(fills, filter) ==
    LET upTo[k \in 0 .. Len(fills)] ==
            IF k = 0 THEN <<>>
            ELSE IF IsPrefix(filter, fills[k].label) THEN <<fills[k]>> \o upTo[k - 1]
            ELSE upTo[k - 1]
    IN  upTo[Len(fills)]

\* load_fills by number
LoadLast(limit, filter) ==
    LET all == Matching(db.fills, filter)
    IN  SubSeq(all, 1, IF limit < Len(all) THEN limit ELSE Len(all))

\* load_fills by time: from the back, as long as the stored fill is younger.
LoadSince(time, filter) ==
    LET older == {k \in 1 .. Len(db.fills) : db.fills[k].time <= time}
        first == 1 + Max({0} \cup older)
    IN  Matching(SubSeq(db.fills, first, Len(db.fills)), filter)

GetFills(limit, filter) == LoadLast(limit, filter)

LoadOpenOrders == {<<o, db.orders[o]>> : o \in {o \in Orders : db.orders[o] # Missing}}

\* From lower_bound of the start to upper_bound of an end that is not before it.
EnumVars(start, end) ==
    {<<n, db.vars[n]>> : n \in {n \in Names : start <= n /\ n <= end /\ db.vars[n] # Missing}}

\* The database as commit would leave it: after the writes of the transaction.
Work ==
    LET after[k \in 0 .. Len(trn)] == IF k = 0 THEN db ELSE Apply(after[k - 1], trn[k])
    IN  after[Len(trn)]

\* store, outside and inside a transaction
Store(w) ==
    /\ call' = w
    /\ Len(trn) < MaxQueued
    /\ IF depth = 0
       THEN db' = Apply(db, w) /\ UNCHANGED trn
       ELSE trn' = Append(trn, w) /\ UNCHANGED db
    /\ UNCHANGED depth

PutVar(n, v) ==
    /\ Store([op |-> "put_var", key |-> n, value |-> v])
    /\ UNCHANGED <<content, skipped>>

EraseVar(n) ==
    /\ Store([op |-> "erase_var", key |-> n])
    /\ UNCHANGED <<content, skipped>>

\* A report changes the order, which is then put (EvOrderStatus, always inside the
\* transaction of a wake).
Report(o) ==
    /\ depth > 0
    /\ content[o] < MaxReports
    /\ content' = [content EXCEPT ![o] = @ + 1]
    /\ Store([op |-> "put_order", key |-> o])
    /\ UNCHANGED skipped

\* Mutant: any fill stored since is taken for it.
IsDuplicateByTime(f) == LoadSince(f.time, <<>>) # <<>>

\* is_duplicate_fill, which searches the fills that load_fills returns
IsDuplicate(f) == \E g \in Range(LoadSince(f.time, <<>>)) : g.id = f.id

\* The fill as it is stored, with what on_fill returned.
Labelled(f, label) == [id |-> f.id, time |-> f.time, label |-> label]

\* A fill reaches the context, for the first time or again (EvOrderFill).
DeliverFill(f) ==
    /\ depth > 0
    /\ IF IsDuplicate(f)
       THEN skipped' = skipped \cup {f.id} /\ UNCHANGED <<db, trn, depth, call>>
       ELSE /\ Len(Work.fills) < MaxFills
            /\ \E label \in Labels : Store([op |-> "put_fill", fill |-> Labelled(f, label)])
            /\ UNCHANGED skipped
    /\ UNCHANGED content

-----------------------------------------------------------------------------
(* Transactions *)

BeginTransaction ==
    /\ depth < MaxDepth
    /\ call' = [op |-> "begin"] /\ depth' = depth + 1
    /\ UNCHANGED <<db, trn, content, skipped>>

Outer == IF depth > 0 THEN depth - 1 ELSE 0

\* Mutant: an inner commit runs the writes.
CommitInner ==
    /\ call' = [op |-> "commit"] /\ depth' = Outer
    /\ db' = Work /\ trn' = <<>>
    /\ UNCHANGED <<content, skipped>>

Commit ==
    /\ call' = [op |-> "commit"] /\ depth' = Outer
    /\ IF Outer = 0
       THEN db' = Work /\ trn' = <<>>
       ELSE UNCHANGED <<db, trn>>
    /\ UNCHANGED <<content, skipped>>

\* All writes go, those of the enclosing transactions too.
Rollback ==
    /\ call' = [op |-> "rollback"] /\ depth' = Outer
    /\ trn' = <<>>
    /\ UNCHANGED <<db, content, skipped>>

-----------------------------------------------------------------------------
Init ==
    /\ db = [vars   |-> [n \in Names |-> Missing],
             orders |-> [o \in Orders |-> Missing],
             fills  |-> <<>>]
    /\ trn = <<>> /\ depth = 0 /\ call = [op |-> "none"]
    /\ content = [o \in Orders |-> 0]
    /\ skipped = {}

Next ==
    \/ \E n \in Names : EraseVar(n) \/ \E v \in Values : PutVar(n, v)
    \/ \E o \in Orders : Report(o)
    \/ \E f \in Fill : DeliverFill(f)
    \/ BeginTransaction \/ Commit \/ Rollback

Spec == Init /\ [][Next]_vars

-----------------------------------------------------------------------------
(* Properties *)

\* What a restarted strategy reads: each variable by itself, all orders, all fills.
Entry(found, key) == IF found = {} THEN Missing ELSE (CHOOSE e \in found : e[1] = key)[2]
Loaded ==
    [vars   |-> [n \in Names |-> Entry(EnumVars(n, n), n)],
     orders |-> [o \in Orders |-> Entry({e \in LoadOpenOrders : e[1] = o}, o)],
     fills  |-> Reverse(GetFills(MaxFills, <<>>))]

\* What is read from the storage is a transactional store: commit makes the writes of all
\* transactions visible at once and in their order, rollback makes none visible.  Whether
\* putting a stored key replaces its entry is left open: the code keeps it.
Promise == INSTANCE TransactionalStore WITH
    db <- Loaded, work <- Work, Contents <- 1 .. MaxReports,
    Fills <- {Labelled(f, label) : f \in Fill, label \in Labels}
IsTransactionalStore == Promise!Spec

\* A fill that is skipped as a duplicate is stored, and the strategy reads it back, with
\* and without its label for a filter: none is lost for good.
DuplicatesAreStored ==
    \A id \in skipped : \E f \in Range(GetFills(MaxFills, <<>>)) :
        f.id = id /\ f \in Range(GetFills(MaxFills, f.label))
=============================================================================
