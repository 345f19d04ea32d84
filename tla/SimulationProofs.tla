-------------------------- MODULE SimulationProofs --------------------------
(***************************************************************************)
(* Theorems about the simulation.                                          *)
(*                                                                         *)
(* SimExchange, for any number of contexts, records and time points: the   *)
(* exchange always has its wakeup (ReplayInv, Armed with the types, is     *)
(* inductive), and so every behaviour of it is a replay.                   *)
(*                                                                         *)
(* Simulator and its account, for any rules of an instrument, tickers,     *)
(* setups and number of orders: BackendInv, OneOutcome with an account     *)
(* that is well formed, is inductive.  What the account is worth is a sum  *)
(* over its positions, computed by loops over a list: each loop is shown   *)
(* to exist, and what a round of it preserves holds of its result.         *)
(***************************************************************************)
EXTENDS SimExchange, Simulator, Intervals, SequenceTheorems, TLAPS

-----------------------------------------------------------------------------
(* The simulated exchange *)

ReplayInv == ExchangeTypeOK /\ Armed

\* The earliest time of a nonempty set of records.
LEMMA FrontTimeIsEarliest ==
    ASSUME NEW S \in SUBSET Records, S # {}
    PROVE  /\ FrontTime(S) \in Times
           /\ \E r \in S : r.tp = FrontTime(S)
           /\ \A r \in S : FrontTime(S) <= r.tp
<1> DEFINE Tps == {r.tp : r \in S}
<1>1. Tps # {} /\ Tps \in SUBSET Times
  BY DEF Records
<1> HIDE DEF Tps
<1>2. PICK t \in Tps : \A q \in Tps : t <= q
  BY <1>1, LeastTimeExists, TimeBound DEF Times
<1>3. t \in Times /\ (\E r \in S : r.tp = t) /\ \A r \in S : t <= r.tp
  BY <1>1, <1>2 DEF Tps
<1> QED BY <1>3 DEF FrontTime

\* What reschedule leaves behind: only the exchange's entry changes, and it is armed.
LEMMA RescheduleArms ==
    ASSUME NEW e \in [Users -> 0 .. NoEntry], NEW S \in SUBSET Records
    PROVE  /\ RescheduleExchange(e, S) \in [Users -> 0 .. NoEntry]
           /\ S # {} => RescheduleExchange(e, S)[Exchange] = FrontTime(S)
<1>1. CASE S = {}
  BY <1>1 DEF RescheduleExchange
<1>2. CASE S # {}
  <2>1. FrontTime(S) \in Times
    BY <1>2, FrontTimeIsEarliest
  <2>2. FrontTime(S) \in 0 .. NoEntry
    BY <2>1, TimeBound DEF Times, NoEntry
  <2>3. Exchange \in Users
    BY DEF Users
  <2> QED BY <1>2, <2>1, <2>2, <2>3 DEF RescheduleExchange, Entered
<1> QED BY <1>1, <1>2

\* Entries that are moved or woken stay entries; the exchange's is its own.
LEMMA EntryTypes ==
    ASSUME NEW e \in [Users -> 0 .. NoEntry], NEW W \in SUBSET Strategies,
           NEW u \in Users, NEW t \in 0 .. NoEntry
    PROVE  /\ Entered(e, u, t) \in [Users -> 0 .. NoEntry]
           /\ Woken(e, W) \in [Users -> 0 .. NoEntry]
           /\ Woken(e, W)[Exchange] = e[Exchange]
           /\ u # Exchange => Entered(e, u, t)[Exchange] = e[Exchange]
<1>1. Exchange \in Users /\ Exchange \notin W
  BY ExchangeIsNoContext DEF Users
<1>2. 0 \in 0 .. NoEntry
  BY TimeBound DEF NoEntry
<1>3. Woken(e, W) \in [Users -> 0 .. NoEntry] /\ Woken(e, W)[Exchange] = e[Exchange]
  BY <1>1, <1>2 DEF Woken
<1> QED BY <1>1, <1>3 DEF Entered

\* The time after the front entry was taken, or set_time has ended.
LEMMA LaterIsTime ==
    ASSUME NEW s \in Times, NEW t \in Times
    PROVE  LaterOf(s, t) \in Times
BY DEF LaterOf

LEMMA TakenTime ==
    ASSUME ExchangeTypeOK, NEW u \in Users, TakeFront(u)
    PROVE  queue[u] \in Times /\ curTime' \in Times /\ curTime' = LaterOf(curTime, queue[u])
<1>1. queue[u] \in 0 .. NoEntry /\ queue[u] < goal /\ goal \in 0 .. LastTime
  BY DEF ExchangeTypeOK, TakeFront, Times
<1>2. queue[u] \in Times
  BY <1>1, TimeBound DEF Times, NoEntry
<1> QED BY <1>2, LaterIsTime DEF ExchangeTypeOK, TakeFront

\* One call of on_timer: a record that was due is taken out, or nothing is.
LEMMA OnTimerResult ==
    ASSUME ReplayInv, OnTimer
    PROVE  /\ queue' \in [Users -> 0 .. NoEntry]
           /\ records' \subseteq records
           /\ records' # {} /\ ~hung' => queue'[Exchange] = FrontTime(records')
           /\ hung' \in BOOLEAN
           /\ \/ records' = records /\ shown' = shown
              \/ \E r \in records :
                    /\ r.tp = queue[Exchange] /\ \A q \in records : r.tp <= q.tp
                    /\ records' = records \ {r}
                    /\ shown' = IF r.kind = "ticker" THEN Append(shown, r) ELSE shown
<1>1. queue \in [Users -> 0 .. NoEntry] /\ records \in SUBSET Records /\ Exchange \in Users
  BY DEF ReplayInv, ExchangeTypeOK, Users
<1>0. ~hung /\ hung \in BOOLEAN
  BY DEF OnTimer, TakeFront, ReplayInv, ExchangeTypeOK
<1> DEFINE E == Entered(queue, Exchange, NoEntry)
<1>2. E \in [Users -> 0 .. NoEntry] /\ \A W \in SUBSET Strategies : Woken(E, W) \in [Users -> 0 .. NoEntry]
  <2>1. NoEntry \in 0 .. NoEntry
    BY TimeBound DEF NoEntry
  <2>2. E \in [Users -> 0 .. NoEntry]
    BY <1>1, <2>1 DEF Entered
  <2> HIDE DEF E
  <2> QED BY <1>1, <2>2, EntryTypes, <2>1
<1> HIDE DEF E
<1>3. CASE records # {} /\ FrontTime(records) <= curTime'
  <2>1. PICK r \in records, W \in SUBSET Strategies :
            /\ r.tp = FrontTime(records)
            /\ records' = records \ {r}
            /\ shown' = IF r.kind = "ticker" THEN Append(shown, r) ELSE shown
            /\ hung' \in BOOLEAN
            /\ queue' = IF hung' THEN Woken(E, W) ELSE RescheduleExchange(Woken(E, W), records')
    BY <1>3 DEF OnTimer, Give, E
  <2>2. records' \in SUBSET Records /\ Woken(E, W) \in [Users -> 0 .. NoEntry]
    BY <1>1, <1>2, <2>1
  <2>3. /\ queue' \in [Users -> 0 .. NoEntry]
        /\ records' # {} /\ ~hung' => queue'[Exchange] = FrontTime(records')
    BY <2>1, <2>2, RescheduleArms
  <2>4. \A q \in records : r.tp <= q.tp
    BY <1>1, <1>3, <2>1, FrontTimeIsEarliest
  <2>5. r.tp = queue[Exchange]
    BY <1>0, <1>3, <2>1 DEF ReplayInv, Armed
  <2> QED BY <2>1, <2>3, <2>4, <2>5
<1>4. CASE ~(records # {} /\ FrontTime(records) <= curTime')
  <2>1. queue' = RescheduleExchange(Woken(E, {}), records) /\ UNCHANGED <<records, shown, hung>>
    BY <1>4 DEF OnTimer, E
  <2>2. Woken(E, {}) \in [Users -> 0 .. NoEntry]
    BY <1>2
  <2>3. queue' \in [Users -> 0 .. NoEntry] /\ (records' # {} => queue'[Exchange] = FrontTime(records'))
    BY <1>1, <2>1, <2>2, RescheduleArms
  <2> QED BY <1>0, <2>1, <2>3
<1> QED BY <1>3, <1>4

\* One call of a context's function leaves the exchange's entry alone.
LEMMA RunContextResult ==
    ASSUME ReplayInv, NEW c \in Strategies, RunContext(c)
    PROVE  queue' \in [Users -> 0 .. NoEntry] /\ queue'[Exchange] = queue[Exchange]
<1>1. queue \in [Users -> 0 .. NoEntry] /\ c \in Users /\ c # Exchange /\ Exchange \in Users
  BY ExchangeIsNoContext DEF ReplayInv, ExchangeTypeOK, Users
<1>2. NoEntry \in 0 .. NoEntry /\ Times \subseteq 0 .. NoEntry
  BY TimeBound DEF NoEntry, Times
<1>3. PICK W \in SUBSET Strategies, t \in Times \cup {NoEntry} :
        queue' = IF t = NoEntry
                 THEN Update(Entered(queue, c, NoEntry), W)
                 ELSE Entered(Update(Entered(queue, c, NoEntry), W), c, t)
  BY DEF RunContext
<1> DEFINE E == Entered(queue, c, NoEntry)
           U == Woken(E, W)
<1>4. E \in [Users -> 0 .. NoEntry] /\ E[Exchange] = queue[Exchange]
  BY <1>1, <1>2, EntryTypes
<1> HIDE DEF E
<1>5. U \in [Users -> 0 .. NoEntry] /\ U[Exchange] = E[Exchange]
  BY <1>1, <1>2, <1>4, EntryTypes
<1> HIDE DEF U
<1>6. Entered(U, c, t) \in [Users -> 0 .. NoEntry] /\ Entered(U, c, t)[Exchange] = U[Exchange]
  <2>1. t \in 0 .. NoEntry
    BY <1>2
  <2> QED BY <1>1, <1>5, <2>1, EntryTypes
<1>7. queue' = (IF t = NoEntry THEN U ELSE Entered(U, c, t))
  BY <1>3 DEF E, U, Update
<1> QED BY <1>4, <1>5, <1>6, <1>7

LEMMA InitReplayInv == ExchangeInit => ReplayInv
<1>1. NoEntry \in 0 .. NoEntry /\ 0 \in Times /\ 0 \in 0 .. MaxRecords
  BY TimeBound, RecordBound DEF NoEntry, Times
<1> QED BY <1>1 DEF ExchangeInit, ReplayInv, ExchangeTypeOK, Armed

\* The invariant is inductive.
LEMMA NextReplayInv == ReplayInv /\ [ExchangeNext]_exchangeVars => ReplayInv'
<1> SUFFICES ASSUME ReplayInv, [ExchangeNext]_exchangeVars
             PROVE  ReplayInv'
  OBVIOUS
<1> USE DEF ReplayInv
<1>0. queue \in [Users -> 0 .. NoEntry] /\ records \in SUBSET Records /\ Exchange \in Users
  BY DEF ExchangeTypeOK, Users
<1>1. ASSUME NEW t \in Times, NEW k \in {"ticker", "book"}, AddRecord(t, k)
      PROVE  ReplayInv'
  <2>1. added' \in 1 .. MaxRecords
    BY <1>1, RecordBound DEF AddRecord, ExchangeTypeOK
  <2>2. records' \in SUBSET Records
    BY <1>0, <1>1, <2>1 DEF AddRecord, Records
  <2>3. queue' = RescheduleExchange(queue, records')
    BY <1>1 DEF AddRecord
  <2>4. queue' \in [Users -> 0 .. NoEntry] /\ (records' # {} => queue'[Exchange] = FrontTime(records'))
    BY <1>0, <2>2, <2>3, RescheduleArms
  <2>5. ExchangeTypeOK'
    <3>1. curTime' = curTime /\ goal' = goal /\ added' \in 0 .. MaxRecords
          /\ streaming' = streaming /\ hung' = hung
      BY <1>1, <2>1 DEF AddRecord
    <3> QED BY <2>2, <2>4, <3>1 DEF ExchangeTypeOK
  <2> QED BY <2>4, <2>5 DEF Armed
<1>2. ASSUME NEW c \in Strategies, NEW t \in Times, Ask(c, t)
      PROVE  ReplayInv'
  <2>1. t \in 0 .. NoEntry /\ c \in Users /\ c # Exchange
    BY TimeBound, ExchangeIsNoContext DEF Times, NoEntry, Users
  <2>2. queue' \in [Users -> 0 .. NoEntry] /\ queue'[Exchange] = queue[Exchange]
    BY <1>0, <1>2, <2>1, EntryTypes DEF Ask
  <2> QED BY <1>2, <2>2 DEF Ask, ExchangeTypeOK, Armed
<1>3. ASSUME NEW t \in Times \ {0}, SetTime(t)
      PROVE  ReplayInv'
  BY <1>3 DEF SetTime, ExchangeTypeOK, Armed
<1>4. CASE OnTimer
  <2>1. curTime' \in Times
    BY <1>0, <1>4, TakenTime DEF OnTimer
  <2> QED BY <1>4, <2>1, OnTimerResult DEF OnTimer, ExchangeTypeOK, Armed
<1>5. ASSUME NEW c \in Strategies, RunContext(c)
      PROVE  ReplayInv'
  <2>1. curTime' \in Times
    BY <1>5, TakenTime DEF RunContext, Users
  <2> QED BY <1>5, <2>1, RunContextResult DEF RunContext, ExchangeTypeOK, Armed
<1>6. CASE Return
  <2>1. curTime' \in Times /\ goal' \in Times
    BY <1>6, LaterIsTime, TimeBound DEF Return, ExchangeTypeOK, Times
  <2> QED BY <1>6, <2>1 DEF Return, ExchangeTypeOK, Armed
<1>7. CASE Stream
  BY <1>7 DEF Stream, ExchangeTypeOK, Armed
<1>8. CASE UNCHANGED exchangeVars
  BY <1>8 DEF exchangeVars, ExchangeTypeOK, Armed
<1> QED BY <1>1, <1>2, <1>3, <1>4, <1>5, <1>6, <1>7, <1>8 DEF ExchangeNext, Round

\* The exchange's wakeup is never later than its earliest record (reschedule at the end
\* of add_record and of on_timer), whatever the contexts ask for.
THEOREM ExchangeIsArmed == ExchangeSpec => []ReplayInv
<1> QED BY InitReplayInv, NextReplayInv, PTL DEF ExchangeSpec

\* Taking an entry and showing nothing: the clock stays, or advances to a time no record
\* is before.
LEMMA ClockAdvances ==
    ASSUME records \in SUBSET Records, curTime \in Times, goal \in Times, NEW t \in Times,
           t < goal, \A r \in records : t <= r.tp,
           curTime' = (IF curTime < t THEN t ELSE curTime),
           goal' = goal, records' = records, shown' = shown
    PROVE  R!Next \/ UNCHANGED R!vars
<1>1. CASE curTime < t
  <2>1. R!Due(t) = {}
    BY DEF R!Due, Records, Times
  <2>2. R!Advance(t) /\ t \in 1 .. LastTime
    BY <1>1, <2>1 DEF R!Advance, Times
  <2> QED BY <2>2 DEF R!Next
<1>2. CASE ~(curTime < t)
  BY <1>2 DEF R!vars
<1> QED BY <1>1, <1>2

\* Every step is a step of the replay, or shows nothing.
LEMMA StepIsReplay == ReplayInv /\ [ExchangeNext]_exchangeVars => [R!Next]_R!vars
<1> SUFFICES ASSUME ReplayInv, [ExchangeNext]_exchangeVars
             PROVE  R!Next \/ UNCHANGED R!vars
  OBVIOUS
<1>0. /\ queue \in [Users -> 0 .. NoEntry] /\ records \in SUBSET Records /\ Exchange \in Users
      /\ curTime \in Times /\ goal \in Times
  BY DEF ReplayInv, ExchangeTypeOK, Users
<1>1. ASSUME NEW t \in Times, NEW k \in {"ticker", "book"}, AddRecord(t, k)
      PROVE  R!Next
  <2>1. added' \in 1 .. MaxRecords
    BY <1>1, RecordBound DEF AddRecord, ReplayInv, ExchangeTypeOK
  <2>2. [n |-> added', tp |-> t, kind |-> k] \in Records
    BY <2>1 DEF Records
  <2>3. R!Record([n |-> added', tp |-> t, kind |-> k])
    BY <1>1 DEF AddRecord, R!Record
  <2> QED BY <2>2, <2>3 DEF R!Next
<1>2. ASSUME NEW c \in Strategies, NEW t \in Times, Ask(c, t)
      PROVE  UNCHANGED R!vars
  BY <1>2 DEF Ask, R!vars
<1>3. ASSUME NEW t \in Times \ {0}, SetTime(t)
      PROVE  R!Next
  <2>1. t \in 1 .. LastTime /\ R!Go(t)
    BY <1>3 DEF SetTime, R!Go, Times
  <2> QED BY <2>1 DEF R!Next
\* Nothing the exchange holds is earlier than the entry that is taken.
<1>4. ASSUME NEW u \in Users, TakeFront(u)
      PROVE  /\ \A r \in records : queue[u] <= r.tp
             /\ queue[u] < goal /\ goal # 0
             /\ curTime' = (IF curTime < queue[u] THEN queue[u] ELSE curTime)
             /\ queue[u] \in Times
  <2>1. /\ queue[u] <= queue[Exchange] /\ queue[Exchange] \in 0 .. NoEntry /\ queue[u] \in Times
        /\ ~hung
    BY <1>0, <1>4, TakenTime DEF TakeFront, ReplayInv
  <2>2. \A r \in records : queue[Exchange] <= r.tp /\ r.tp \in Nat
    BY <1>0, <2>1, FrontTimeIsEarliest DEF ReplayInv, Armed, Records, Times
  <2> QED BY <1>4, <2>1, <2>2 DEF TakeFront, LaterOf, Times, NoEntry
<1>5. CASE OnTimer
  <2>1. /\ TakeFront(Exchange) /\ goal' = goal
        /\ \A r \in records : queue[Exchange] <= r.tp
        /\ queue[Exchange] < goal /\ goal # 0
        /\ curTime' = (IF curTime < queue[Exchange] THEN queue[Exchange] ELSE curTime)
        /\ queue[Exchange] \in Times
    BY <1>0, <1>4, <1>5 DEF OnTimer
  <2>2. CASE records' = records /\ shown' = shown
    BY <1>0, <2>1, <2>2, ClockAdvances
  <2>3. ASSUME NEW r \in records, r.tp = queue[Exchange], \A q \in records : r.tp <= q.tp,
               records' = records \ {r},
               shown' = IF r.kind = "ticker" THEN Append(shown, r) ELSE shown
        PROVE  R!Next
    <3>1. R!Show(r)
      BY <2>1, <2>3 DEF R!Show, R!Due
    <3> QED BY <3>1 DEF R!Next
  <2> QED BY <1>5, <2>2, <2>3, OnTimerResult
<1>6. ASSUME NEW c \in Strategies, RunContext(c)
      PROVE  R!Next \/ UNCHANGED R!vars
  <2>1. c \in Users /\ TakeFront(c) /\ goal' = goal /\ records' = records /\ shown' = shown
    BY <1>6 DEF RunContext, Users
  <2> QED BY <1>0, <1>4, <2>1, ClockAdvances
<1>7. CASE Return
  <2>1. \A r \in records : r.tp \in Times /\ queue[Exchange] <= r.tp
    BY <1>0, <1>7, FrontTimeIsEarliest DEF ReplayInv, Armed, Records, Return
  <2>2. goal # 0 /\ queue[Exchange] >= goal /\ queue[Exchange] \in 0 .. NoEntry
    BY <1>0, <1>7 DEF Return
  <2>3. R!Due(goal) = {}
    BY <1>0, <2>1, <2>2 DEF R!Due, Times
  <2>4. R!Arrive
    BY <1>7, <2>3 DEF Return, R!Arrive, LaterOf
  <2> QED BY <2>4 DEF R!Next
<1>8. CASE Stream
  BY <1>8 DEF Stream, R!vars
<1> QED BY <1>1, <1>2, <1>3, <1>5, <1>6, <1>7, <1>8 DEF ExchangeNext, Round, exchangeVars, R!vars

LEMMA InitIsReplay == ExchangeInit => R!Init
BY DEF ExchangeInit, R!Init

\* Recorded prices come out in the order of their time, each once, time never passes one
\* that was not shown, and set_time leaves none behind: SimExchange on the manual
\* scheduler implements Replay.
THEOREM Refinement == ExchangeSpec => IsReplay
<1> QED BY ExchangeIsArmed, StepIsReplay, InitIsReplay, PTL DEF ExchangeSpec, IsReplay, R!Spec

-----------------------------------------------------------------------------
(* The simulator backend and its account *)

Sides    == {"buy", "sell"}
Position == [id : Nat, side : Sides, amount : Nat \ {0}, open : Int]
Acb      == [sum : Int, pos : Int, rpnl : Int]
Overall  == [id : Int, side : Sides \cup {"undefined"}, amount : Int, acb : Acb]
Account  == [equity : Int, counter : Nat, list : Seq(Position), overall : Overall]

-----------------------------------------------------------------------------
(* Sums *)

\* The loop of Total.
IsTotal(sum, values) ==
    /\ sum \in [0 .. Len(values) -> Int]
    /\ sum[0] = 0
    /\ \A k \in 1 .. Len(values) : sum[k] = sum[k - 1] + values[k]

LEMMA TotalIsLoop ==
    ASSUME NEW values \in Seq(Int)
    PROVE  \E sum : IsTotal(sum, values) /\ Total(values) = sum[Len(values)]
<1> DEFINE n == Len(values)
           Step == [k \in 1 .. n |-> [x \in Int |-> x + values[k]]]
           Rounds(f) == [k \in 0 .. n |-> IF k = 0 THEN 0 ELSE f[k - 1] + values[k]]
           sum == CHOOSE f : f = Rounds(f)
<1>1. n \in Nat /\ \A k \in 1 .. n : values[k] \in Int
  OBVIOUS
<1>2. PICK f : IsLoop(f, n, Int, 0, Step)
  <2>1. Step \in [1 .. n -> [Int -> Int]]
    BY <1>1
  <2>2. 0 \in Int
    OBVIOUS
  <2> HIDE DEF Step
  <2> QED BY <1>1, <2>1, <2>2, LoopExists
<1>3. f = Rounds(f)
  <2>1. ASSUME NEW k \in 1 .. n
        PROVE  f[k] = f[k - 1] + values[k]
    <3>1. f[k - 1] \in Int
      BY <1>1, <1>2 DEF IsLoop
    <3> QED BY <1>2, <3>1 DEF IsLoop
  <2>2. \A k \in 0 .. n : f[k] = IF k = 0 THEN 0 ELSE f[k - 1] + values[k]
    <3>1. \A k \in 0 .. n : k = 0 \/ k \in 1 .. n
      BY <1>1
    <3> HIDE DEF n
    <3> QED BY <1>2, <2>1, <3>1 DEF IsLoop
  <2>3. f = [k \in 0 .. n |-> f[k]]
    BY <1>2 DEF IsLoop
  <2> HIDE DEF n
  <2> QED BY <2>2, <2>3
<1>4. sum = Rounds(sum)
  <2> HIDE DEF Rounds
  <2> QED BY <1>3
<1>5. IsTotal(sum, values)
  <2> HIDE DEF sum
  <2> DEFINE S == {k \in 0 .. n : sum[k] \in Int}
  <2>1. sum[0] = 0 /\ \A k \in 1 .. n : sum[k] = sum[k - 1] + values[k]
    BY <1>1, <1>4
  <2>2. 0 \in S /\ \A k \in 1 .. n : k - 1 \in S => k \in S
    BY <1>1, <2>1
  <2>3. \A k \in 0 .. n : k \in S
    <3> HIDE DEF S, n
    <3> QED BY <1>1, <2>2, IntervalInduction
  <2>4. sum = [k \in 0 .. n |-> sum[k]]
    BY <1>4
  <2> QED BY <2>1, <2>3, <2>4 DEF IsTotal
<1>6. Total(values) = sum[n]
  BY DEF Total
<1> HIDE DEF sum
<1> QED BY <1>5, <1>6

\* Loops over sequences that agree up to a place agree there.
LEMMA TotalsAgree ==
    ASSUME NEW v \in Seq(Int), NEW w \in Seq(Int), NEW f, NEW g, IsTotal(f, v), IsTotal(g, w),
           NEW m \in Nat, m <= Len(v), m <= Len(w), \A k \in 1 .. m : v[k] = w[k]
    PROVE  f[m] = g[m]
<1> DEFINE S == {k \in 0 .. m : f[k] = g[k]}
<1>1. 0 \in S
  BY DEF IsTotal
<1>2. \A k \in 1 .. m : k - 1 \in S => k \in S
  BY DEF IsTotal
<1>3. \A k \in 0 .. m : k \in S
  <2> HIDE DEF S
  <2> QED BY <1>1, <1>2, IntervalInduction
<1> QED BY <1>3

LEMMA TotalIsInt ==
    ASSUME NEW values \in Seq(Int)
    PROVE  Total(values) \in Int
BY TotalIsLoop DEF IsTotal

LEMMA TotalOfNone == Total(<<>>) = 0
<1>1. PICK sum : IsTotal(sum, <<>>) /\ Total(<<>>) = sum[Len(<<>>)]
  <2>1. <<>> \in Seq(Int)
    OBVIOUS
  <2> QED BY <2>1, TotalIsLoop
<1> QED BY <1>1 DEF IsTotal

LEMMA TotalOfAppend ==
    ASSUME NEW values \in Seq(Int), NEW x \in Int
    PROVE  Total(Append(values, x)) = Total(values) + x
<1> DEFINE longer == Append(values, x)
           n == Len(values)
<1>1. /\ longer \in Seq(Int) /\ Len(longer) = n + 1 /\ n \in Nat
      /\ longer[n + 1] = x /\ \A k \in 1 .. n : longer[k] = values[k]
  OBVIOUS
<1> HIDE DEF longer
<1>2. PICK f : IsTotal(f, values) /\ Total(values) = f[n]
  BY TotalIsLoop
<1>3. PICK g : IsTotal(g, longer) /\ Total(longer) = g[n + 1]
  BY <1>1, TotalIsLoop
<1>4. f[n] = g[n]
  BY <1>1, <1>2, <1>3, TotalsAgree
<1>5. g[n + 1] = g[n] + x
  <2>1. n + 1 \in 1 .. (n + 1) /\ (n + 1) - 1 = n
    BY <1>1
  <2> HIDE DEF n
  <2> QED BY <1>1, <1>3, <2>1 DEF IsTotal
<1> QED BY <1>2, <1>3, <1>4, <1>5 DEF longer

\* A sum with one of the values changed.
LEMMA TotalOfChanged ==
    ASSUME NEW v \in Seq(Int), NEW w \in Seq(Int), Len(v) = Len(w), NEW i \in 1 .. Len(v),
           \A k \in 1 .. Len(v) : k # i => v[k] = w[k]
    PROVE  Total(w) = Total(v) - v[i] + w[i]
<1> DEFINE n == Len(v)
<1>1. /\ n \in Nat /\ i \in Nat /\ i - 1 \in Nat /\ v[i] \in Int /\ w[i] \in Int
      /\ \A k \in 1 .. n : v[k] \in Int /\ w[k] \in Int
  OBVIOUS
<1>2. PICK f : IsTotal(f, v) /\ Total(v) = f[n]
  BY TotalIsLoop
<1>3. PICK g : IsTotal(g, w) /\ Total(w) = g[n]
  BY TotalIsLoop
<1>4. f[i - 1] = g[i - 1]
  <2>1. i - 1 <= Len(v) /\ i - 1 <= Len(w) /\ \A k \in 1 .. (i - 1) : v[k] = w[k]
    BY <1>1
  <2> QED BY <1>1, <1>2, <1>3, <2>1, TotalsAgree
<1> DEFINE S == {k \in 0 .. n : k >= i => g[k] = f[k] - v[i] + w[i]}
<1>5. 0 \in S
  BY <1>1
<1>6. ASSUME NEW k \in 1 .. n, k - 1 \in S
      PROVE  k \in S
  <2>1. /\ f[k] = f[k - 1] + v[k] /\ g[k] = g[k - 1] + w[k]
        /\ f[k - 1] \in Int /\ g[k - 1] \in Int
    <3>1. k \in 1 .. Len(w) /\ k - 1 \in 0 .. Len(v) /\ k - 1 \in 0 .. Len(w)
      BY <1>1
    <3> QED BY <1>2, <1>3, <3>1 DEF IsTotal
  <2>2. CASE k < i
    BY <1>1, <2>2
  <2>3. CASE k = i
    BY <1>1, <1>4, <2>1, <2>3
  <2>4. CASE k > i
    <3>1. g[k - 1] = f[k - 1] - v[i] + w[i]
      BY <1>1, <1>6, <2>4
    <3>2. v[k] = w[k] /\ v[k] \in Int
      BY <1>1, <2>4
    <3>3. /\ f[k] = f[k - 1] + v[k] /\ g[k] = g[k - 1] + v[k]
      BY <1>1, <2>1, <3>2
    <3>4. PICK a \in Int : a = f[k - 1]
      BY <2>1
    <3>5. PICK x \in Int, y \in Int, z \in Int : x = v[i] /\ y = w[i] /\ z = v[k]
      BY <1>1, <3>2
    <3>6. f[k] = a + z
      BY <3>3, <3>4, <3>5
    <3>7. g[k - 1] = a - x + y
      BY <3>1, <3>4, <3>5
    <3>8. g[k] = (a - x + y) + z
      BY <3>3, <3>2, <3>5, <3>7
    <3>9. (a - x + y) + z = (a + z) - x + y
      OBVIOUS
    <3>10. g[k] = f[k] - v[i] + w[i]
      BY <3>5, <3>6, <3>8, <3>9
    <3> QED BY <3>10
  <2> QED BY <1>1, <2>2, <2>3, <2>4
<1>7. \A k \in 0 .. n : k \in S
  <2> HIDE DEF S
  <2> QED BY <1>1, <1>5, <1>6, IntervalInduction
<1> QED BY <1>1, <1>2, <1>3, <1>7

-----------------------------------------------------------------------------
(* The profit of positions *)

LEMMA PnlIsInt ==
    ASSUME NEW p \in Position, NEW price \in Int
    PROVE  CalculatePnl(p, price) \in Int
<1>1. p.amount \in Int /\ p.open \in Int /\ p.side \in Sides
  BY DEF Position
<1>2. Config.multiplier \in Int /\ Config.factor \in Int
  BY ConfigIsPositive
<1>3. Sign(p.side) \in Int
  BY <1>1 DEF Sides, Sign
<1>4. LotToAmount(p.amount) \in Int
  BY <1>1, <1>2 DEF LotToAmount
<1>5. QuotationToPrice(price - p.open) \in Int
  BY <1>1, <1>2 DEF QuotationToPrice
<1> QED BY <1>3, <1>4, <1>5 DEF CalculatePnl

\* A position that was just opened is worth nothing.
LEMMA NoPnlAtOpen ==
    ASSUME NEW p \in Position
    PROVE  CalculatePnl(p, p.open) = 0
<1>1. p.amount \in Int /\ p.open \in Int /\ p.side \in Sides
  BY DEF Position
<1>2. Config.multiplier \in Int /\ Config.factor \in Int
  BY ConfigIsPositive
<1>3. PICK x \in Int : x = Sign(p.side)
  BY <1>1 DEF Sides, Sign
<1>4. PICK y \in Int : y = LotToAmount(p.amount)
  BY <1>1, <1>2 DEF LotToAmount
<1>5. QuotationToPrice(p.open - p.open) = 0
  BY <1>1, <1>2 DEF QuotationToPrice
<1>6. \A u \in Int : u * 0 = 0
  OBVIOUS
<1>7. x * y \in Int
  OBVIOUS
<1> QED BY <1>3, <1>4, <1>5, <1>6, <1>7 DEF CalculatePnl

Pnls(list, price) == [k \in DOMAIN list |-> CalculatePnl(list[k], price)]

LEMMA PnlsAre ==
    ASSUME NEW list \in Seq(Position), NEW price \in Int
    PROVE  /\ Pnls(list, price) \in Seq(Int)
           /\ Len(Pnls(list, price)) = Len(list)
           /\ \A k \in 1 .. Len(list) : Pnls(list, price)[k] = CalculatePnl(list[k], price)
           /\ PnlOf(list, price) = Total(Pnls(list, price))
           /\ PnlOf(list, price) \in Int
<1>1. DOMAIN list = 1 .. Len(list) /\ Len(list) \in Nat
  OBVIOUS
<1>2. \A k \in 1 .. Len(list) : CalculatePnl(list[k], price) \in Int
  BY PnlIsInt
<1>3. Pnls(list, price) = [k \in 1 .. Len(list) |-> CalculatePnl(list[k], price)]
  BY <1>1 DEF Pnls
<1>4. Pnls(list, price) \in [1 .. Len(list) -> Int]
  BY <1>2, <1>3
<1>5. Pnls(list, price) \in Seq(Int) /\ Len(Pnls(list, price)) = Len(list)
  BY <1>1, <1>4
<1>6. PnlOf(list, price) = Total(Pnls(list, price))
  BY DEF PnlOf, Pnls
<1> QED BY <1>3, <1>5, <1>6, TotalIsInt

LEMMA PnlOfNone ==
    ASSUME NEW price \in Int
    PROVE  PnlOf(<<>>, price) = 0
<1>1. <<>> \in Seq(Position) /\ Len(<<>>) = 0
  OBVIOUS
<1>2. Pnls(<<>>, price) = <<>>
  <2>1. PICK v \in Seq(Int) : v = Pnls(<<>>, price) /\ Len(v) = 0
    BY <1>1, PnlsAre
  <2>2. v = <<>>
    BY <2>1
  <2> QED BY <2>1, <2>2
<1> QED BY <1>1, <1>2, PnlsAre, TotalOfNone

LEMMA PnlOfAppend ==
    ASSUME NEW list \in Seq(Position), NEW p \in Position, NEW price \in Int
    PROVE  PnlOf(Append(list, p), price) = PnlOf(list, price) + CalculatePnl(p, price)
<1> DEFINE longer == Append(list, p)
           n == Len(list)
<1>1. /\ longer \in Seq(Position) /\ Len(longer) = n + 1 /\ n \in Nat
      /\ longer[n + 1] = p /\ \A k \in 1 .. n : longer[k] = list[k]
  OBVIOUS
<1> HIDE DEF longer
<1>2. PICK v \in Seq(Int) : /\ v = Pnls(list, price) /\ Len(v) = n
                            /\ PnlOf(list, price) = Total(v)
                            /\ \A k \in 1 .. n : v[k] = CalculatePnl(list[k], price)
  BY PnlsAre
<1>3. PICK w \in Seq(Int) : /\ w = Pnls(longer, price) /\ Len(w) = n + 1
                            /\ PnlOf(longer, price) = Total(w)
                            /\ \A k \in 1 .. (n + 1) : w[k] = CalculatePnl(longer[k], price)
  BY <1>1, PnlsAre
<1>4. PICK x \in Int : x = CalculatePnl(p, price)
  BY PnlIsInt
<1>5. w = Append(v, x)
  <2>1. Len(Append(v, x)) = Len(w) /\ Append(v, x) \in Seq(Int)
    BY <1>2, <1>3
  <2>2. ASSUME NEW k \in 1 .. Len(w)
        PROVE  w[k] = Append(v, x)[k]
    <3>1. CASE k = n + 1
      BY <1>1, <1>2, <1>3, <1>4, <3>1
    <3>2. CASE k \in 1 .. n
      <4>1. w[k] = CalculatePnl(list[k], price)
        BY <1>1, <1>3, <3>2
      <4>2. v[k] = CalculatePnl(list[k], price)
        BY <1>2, <3>2
      <4>3. Append(v, x)[k] = v[k]
        BY <1>2, <3>2
      <4> QED BY <4>1, <4>2, <4>3
    <3>3. k = n + 1 \/ k \in 1 .. n
      BY <1>1, <1>3
    <3> QED BY <3>1, <3>2, <3>3
  <2> QED BY <2>1, <2>2
<1>6. Total(w) = Total(v) + x
  BY <1>5, TotalOfAppend
<1> QED BY <1>2, <1>3, <1>4, <1>6 DEF longer

LEMMA PnlOfChanged ==
    ASSUME NEW list \in Seq(Position), NEW other \in Seq(Position), NEW price \in Int,
           Len(list) = Len(other), NEW i \in 1 .. Len(list),
           \A k \in 1 .. Len(list) : k # i => list[k] = other[k]
    PROVE  PnlOf(other, price) =
              PnlOf(list, price) - CalculatePnl(list[i], price) + CalculatePnl(other[i], price)
<1> DEFINE n == Len(list)
<1>1. PICK v \in Seq(Int) : /\ Len(v) = n /\ PnlOf(list, price) = Total(v)
                            /\ \A k \in 1 .. n : v[k] = CalculatePnl(list[k], price)
  BY PnlsAre
<1>2. PICK w \in Seq(Int) : /\ Len(w) = Len(other) /\ PnlOf(other, price) = Total(w)
                            /\ \A k \in 1 .. Len(other) : w[k] = CalculatePnl(other[k], price)
  BY PnlsAre
<1>3. i \in 1 .. Len(v) /\ Len(v) = Len(w) /\ \A k \in 1 .. Len(v) : k # i => v[k] = w[k]
  BY <1>1, <1>2
<1>4. Total(w) = Total(v) - v[i] + w[i]
  BY <1>3, TotalOfChanged
<1> QED BY <1>1, <1>2, <1>4

-----------------------------------------------------------------------------
(* Average cost *)

LEMMA DivOfSum ==
    ASSUME NEW m \in Nat \ {0}, NEW x \in Int, NEW y \in Int
    PROVE  (x * m + y) \div m = x + (y \div m)
OBVIOUS

LEMMA ShareIsInt ==
    ASSUME NEW acb \in Acb, acb.pos # 0, NEW n \in Int
    PROVE  Share(acb, n) \in Int
<1>1. acb.sum \in Int /\ acb.pos \in Int /\ Abs(acb.pos) \in Nat \ {0}
  BY DEF Acb, Abs
<1>2. PICK y \in Int : y = acb.sum * (IF acb.pos < 0 THEN -n ELSE n)
  BY <1>1
<1> QED BY <1>1, <1>2 DEF Share

\* What stays of the sum and what leaves it make it up.
LEMMA SharesSumUp ==
    ASSUME NEW acb \in Acb, acb.pos # 0, NEW size \in Int
    PROVE  Share(acb, acb.pos + size) = acb.sum + Share(acb, size)
<1>1. PICK s \in Int, q \in Int : s = acb.sum /\ q = acb.pos
  BY DEF Acb
<1>2. CASE q < 0
  <2>1. PICK m \in Nat \ {0} : m = -q /\ Abs(acb.pos) = m
    BY <1>1, <1>2 DEF Abs
  <2>2. PICK y \in Int : y = s * (-size)
    OBVIOUS
  <2>3. s * (-(q + size)) = s * m + y
    BY <2>1, <2>2
  <2>4. (s * m + y) \div m = s + (y \div m)
    BY DivOfSum
  <2> QED BY <1>1, <1>2, <2>1, <2>2, <2>3, <2>4 DEF Share
<1>3. CASE q > 0
  <2>1. PICK m \in Nat \ {0} : m = q /\ Abs(acb.pos) = m
    BY <1>1, <1>3 DEF Abs
  <2>2. PICK y \in Int : y = s * size
    OBVIOUS
  <2>3. s * (q + size) = s * m + y
    BY <2>1, <2>2
  <2>4. (s * m + y) \div m = s + (y \div m)
    BY DivOfSum
  <2> QED BY <1>1, <1>3, <2>1, <2>2, <2>3, <2>4 DEF Share
<1> QED BY <1>1, <1>2, <1>3

\* A trade away from zero, one through zero, and one towards zero.
LEMMA TradeIs ==
    ASSUME NEW acb \in Acb, NEW price \in Int, NEW size \in Int
    PROVE  /\ Trade(acb, price, size) \in Acb
           /\ Trade(acb, price, size).pos = acb.pos + size
<1>1. acb.sum \in Int /\ acb.pos \in Int /\ acb.rpnl \in Int /\ Scale \in Int
  BY LeverageIsNat DEF Acb
<1>2. PICK pos \in Int : pos = acb.pos + size
  BY <1>1
<1>3. /\ size * price * Scale \in Int /\ pos * price * Scale \in Int
      /\ price * acb.pos * Scale \in Int /\ price * size * Scale \in Int
  BY <1>1
<1>4. CASE acb.pos * size >= 0
  <2>1. Trade(acb, price, size) = [acb EXCEPT !.sum = @ + size * price * Scale, !.pos = pos]
    BY <1>2, <1>4 DEF Trade
  <2>2. PICK z \in Int : z = acb.sum + size * price * Scale
    BY <1>1
  <2>3. Trade(acb, price, size) = [acb EXCEPT !.sum = z, !.pos = pos]
    BY <2>1, <2>2
  <2> QED BY <1>2, <2>3 DEF Acb
<1>5. CASE ~(acb.pos * size >= 0) /\ acb.pos * pos < 0
  <2>1. Trade(acb, price, size) =
            [sum |-> pos * price * Scale, pos |-> pos,
             rpnl |-> acb.rpnl + price * acb.pos * Scale - acb.sum]
    BY <1>2, <1>5 DEF Trade
  <2> QED BY <1>1, <1>2, <1>3, <2>1 DEF Acb
<1>6. CASE ~(acb.pos * size >= 0) /\ ~(acb.pos * pos < 0)
  <2>1. Trade(acb, price, size) =
            [sum |-> Share(acb, pos), pos |-> pos,
             rpnl |-> acb.rpnl - (price * size * Scale - Share(acb, size))]
    BY <1>2, <1>6 DEF Trade
  <2>2. acb.pos # 0
    BY <1>1, <1>6
  <2>3. Share(acb, pos) \in Int /\ Share(acb, size) \in Int
    BY <2>2, ShareIsInt
  <2> QED BY <1>1, <1>2, <1>3, <2>1, <2>3 DEF Acb
<1> QED BY <1>4, <1>5, <1>6

\* What a trade adds to the profit at any price is what its position makes there.
Gain(acb, price) == acb.rpnl + UPnL(acb, price)

LEMMA TradeGains ==
    ASSUME NEW acb \in Acb, NEW price \in Int, NEW size \in Int, NEW x \in Int
    PROVE  Gain(Trade(acb, price, size), x) = Gain(acb, x) + Scale * (size * (x - price))
<1>1. PICK s \in Int, q \in Int, r \in Int, sc \in Int :
        s = acb.sum /\ q = acb.pos /\ r = acb.rpnl /\ sc = Scale
  BY LeverageIsNat DEF Acb
<1>2. PICK pos \in Int : pos = acb.pos + size /\ pos = q + size
  BY <1>1
<1>3. Gain(acb, x) = r + (x * q * sc - s)
  BY <1>1 DEF Gain, UPnL
<1>4. CASE acb.pos * size >= 0
  <2>1. Trade(acb, price, size) = [acb EXCEPT !.sum = @ + size * price * Scale, !.pos = pos]
    BY <1>2, <1>4 DEF Trade
  <2>2. Gain(Trade(acb, price, size), x) = r + (x * pos * sc - (s + size * price * sc))
    BY <1>1, <2>1 DEF Gain, UPnL, Acb
  <2>3. r + (x * (q + size) * sc - (s + size * price * sc)) =
            r + (x * q * sc - s) + sc * (size * (x - price))
    OBVIOUS
  <2> QED BY <1>1, <1>2, <1>3, <2>2, <2>3
<1>5. CASE ~(acb.pos * size >= 0) /\ acb.pos * pos < 0
  <2>1. Trade(acb, price, size) =
            [sum |-> pos * price * Scale, pos |-> pos,
             rpnl |-> acb.rpnl + price * acb.pos * Scale - acb.sum]
    BY <1>2, <1>5 DEF Trade
  <2>2. Gain(Trade(acb, price, size), x) =
            (r + price * q * sc - s) + (x * pos * sc - pos * price * sc)
    BY <1>1, <2>1 DEF Gain, UPnL
  <2>3. (r + price * q * sc - s) + (x * (q + size) * sc - (q + size) * price * sc) =
            r + (x * q * sc - s) + sc * (size * (x - price))
    OBVIOUS
  <2> QED BY <1>1, <1>2, <1>3, <2>2, <2>3
<1>6. CASE ~(acb.pos * size >= 0) /\ ~(acb.pos * pos < 0)
  <2>1. Trade(acb, price, size) =
            [sum |-> Share(acb, pos), pos |-> pos,
             rpnl |-> acb.rpnl - (price * size * Scale - Share(acb, size))]
    BY <1>2, <1>6 DEF Trade
  <2>2. acb.pos # 0
    BY <1>1, <1>6
  <2>3. PICK h \in Int : h = Share(acb, size) /\ Share(acb, pos) = s + h
    BY <1>1, <1>2, <2>2, ShareIsInt, SharesSumUp
  <2>4. Gain(Trade(acb, price, size), x) =
            (r - (price * size * sc - h)) + (x * pos * sc - (s + h))
    BY <1>1, <2>1, <2>3 DEF Gain, UPnL
  <2>5. (r - (price * size * sc - h)) + (x * (q + size) * sc - (s + h)) =
            r + (x * q * sc - s) + sc * (size * (x - price))
    OBVIOUS
  <2> QED BY <1>1, <1>2, <1>3, <2>4, <2>5
<1> QED BY <1>4, <1>5, <1>6

\* The loop of AcbOf.
Traded(x, p) == Trade(x, p.open, p.amount * Sign(p.side))

IsCosting(acb, list, places) ==
    /\ acb \in [0 .. Len(list) -> Acb]
    /\ acb[0] = NoTrades
    /\ \A k \in 1 .. Len(list) :
          acb[k] = IF k \in places THEN Traded(acb[k - 1], list[k]) ELSE acb[k - 1]

LEMMA TradedIs ==
    ASSUME NEW x \in Acb, NEW p \in Position
    PROVE  /\ p.amount * Sign(p.side) \in Int
           /\ Traded(x, p) \in Acb
           /\ Traded(x, p).pos = x.pos + p.amount * Sign(p.side)
<1>1. p.amount \in Int /\ p.open \in Int /\ p.side \in Sides
  BY DEF Position
<1>2. Sign(p.side) \in Int
  BY <1>1 DEF Sides, Sign
<1>3. p.amount * Sign(p.side) \in Int
  BY <1>1, <1>2
<1> QED BY <1>1, <1>3, TradeIs DEF Traded

LEMMA CostingIsLoop ==
    ASSUME NEW list \in Seq(Position), NEW places
    PROVE  \E acb : IsCosting(acb, list, places) /\ AcbOf(list, places) = acb[Len(list)]
<1> DEFINE n == Len(list)
           Next1(x, k) == IF k \in places THEN Traded(x, list[k]) ELSE x
           Step == [k \in 1 .. n |-> [x \in Acb |-> Next1(x, k)]]
           Rounds(f) == [k \in 0 .. n |-> IF k = 0 THEN NoTrades ELSE Next1(f[k - 1], k)]
           acb == CHOOSE f : f = Rounds(f)
<1>1. n \in Nat /\ \A k \in 1 .. n : list[k] \in Position
  OBVIOUS
<1>2. NoTrades \in Acb
  BY DEF NoTrades, Acb
<1>3. \A k \in 1 .. n : \A x \in Acb : Next1(x, k) \in Acb
  BY <1>1, TradedIs
<1> HIDE DEF Next1
<1>4. PICK f : IsLoop(f, n, Acb, NoTrades, Step)
  <2>1. Step \in [1 .. n -> [Acb -> Acb]]
    BY <1>3
  <2> HIDE DEF Step
  <2> QED BY <1>1, <1>2, <2>1, LoopExists
<1>5. f = Rounds(f)
  <2>1. ASSUME NEW k \in 1 .. n
        PROVE  f[k] = Next1(f[k - 1], k)
    <3>1. f[k - 1] \in Acb
      BY <1>1, <1>4 DEF IsLoop
    <3> QED BY <1>4, <3>1 DEF IsLoop
  <2>2. \A k \in 0 .. n : f[k] = IF k = 0 THEN NoTrades ELSE Next1(f[k - 1], k)
    <3>1. \A k \in 0 .. n : k = 0 \/ k \in 1 .. n
      BY <1>1
    <3> HIDE DEF n
    <3> QED BY <1>4, <2>1, <3>1 DEF IsLoop
  <2>3. f = [k \in 0 .. n |-> f[k]]
    BY <1>4 DEF IsLoop
  <2> HIDE DEF n
  <2> QED BY <2>2, <2>3
<1>6. acb = Rounds(acb)
  <2> HIDE DEF Rounds
  <2> QED BY <1>5
<1>7. IsCosting(acb, list, places)
  <2> HIDE DEF acb
  <2> DEFINE S == {k \in 0 .. n : acb[k] \in Acb}
  <2>1. acb[0] = NoTrades /\ \A k \in 1 .. n : acb[k] = Next1(acb[k - 1], k)
    BY <1>1, <1>6
  <2>2. 0 \in S /\ \A k \in 1 .. n : k - 1 \in S => k \in S
    BY <1>1, <1>2, <1>3, <2>1
  <2>3. \A k \in 0 .. n : k \in S
    <3> HIDE DEF S, n
    <3> QED BY <1>1, <2>2, IntervalInduction
  <2>4. acb = [k \in 0 .. n |-> acb[k]]
    BY <1>6
  <2> QED BY <2>1, <2>3, <2>4 DEF IsCosting, Next1
<1>8. AcbOf(list, places) = acb[n]
  BY DEF AcbOf, Next1, Traded
<1> HIDE DEF acb
<1> QED BY <1>7, <1>8

LEMMA AcbOfIsAcb ==
    ASSUME NEW list \in Seq(Position), NEW places
    PROVE  AcbOf(list, places) \in Acb
<1>1. PICK acb : IsCosting(acb, list, places) /\ AcbOf(list, places) = acb[Len(list)]
  BY CostingIsLoop
<1>2. Len(list) \in 0 .. Len(list)
  OBVIOUS
<1> QED BY <1>1, <1>2 DEF IsCosting

\* Locked and open profit of the overall position, at any price.
LEMMA CostsSumUp ==
    ASSUME NEW list \in Seq(Position), NEW x \in Int
    PROVE  Gain(AcbOf(list, DOMAIN list), x) =
              Scale * Total([k \in DOMAIN list |->
                                Sign(list[k].side) * list[k].amount * (x - list[k].open)])
<1> DEFINE n == Len(list)
           gains == [k \in DOMAIN list |-> Sign(list[k].side) * list[k].amount * (x - list[k].open)]
<1>1. n \in Nat /\ DOMAIN list = 1 .. n /\ Scale \in Int
  BY LeverageIsNat
<1>2. \A k \in 1 .. n : gains[k] \in Int
  <2>1. ASSUME NEW k \in 1 .. n
        PROVE  gains[k] \in Int
    <3>1. PICK p \in Position : p = list[k]
      OBVIOUS
    <3>2. PICK a \in Int, s \in Int, o \in Int : a = p.amount /\ s = Sign(p.side) /\ o = p.open
      BY DEF Position, Sides, Sign
    <3>3. gains[k] = s * a * (x - o)
      BY <1>1, <3>1, <3>2
    <3> QED BY <3>3
  <2> QED BY <2>1
<1>3. gains \in Seq(Int) /\ Len(gains) = n
  <2>1. gains = [k \in 1 .. n |-> gains[k]]
    BY <1>1
  <2> HIDE DEF gains
  <2>2. gains \in [1 .. n -> Int]
    BY <1>2, <2>1
  <2> QED BY <1>1, <2>2
<1>4. \A k \in 1 .. n : gains[k] = Sign(list[k].side) * list[k].amount * (x - list[k].open)
  BY <1>1
<1> HIDE DEF gains
<1>5. PICK sum : IsTotal(sum, gains) /\ Total(gains) = sum[n]
  BY <1>3, TotalIsLoop
<1>6. PICK acb : IsCosting(acb, list, DOMAIN list) /\ AcbOf(list, DOMAIN list) = acb[n]
  BY CostingIsLoop
<1> DEFINE S == {k \in 0 .. n : Gain(acb[k], x) = Scale * sum[k]}
<1>7. 0 \in S
  <2>1. acb[0] = NoTrades /\ sum[0] = 0
    BY <1>5, <1>6 DEF IsCosting, IsTotal
  <2>2. Gain(NoTrades, x) = 0
    BY <1>1 DEF Gain, UPnL, NoTrades
  <2> QED BY <1>1, <2>1, <2>2
<1>8. ASSUME NEW k \in 1 .. n, k - 1 \in S
      PROVE  k \in S
  <2>1. PICK p \in Position : p = list[k]
    OBVIOUS
  <2>2. PICK b \in Acb : b = acb[k - 1]
    BY <1>1, <1>6 DEF IsCosting
  <2>3. acb[k] = Traded(b, p)
    BY <1>1, <1>6, <2>1, <2>2 DEF IsCosting
  <2>4. PICK c \in Int : c = sum[k - 1] /\ sum[k] = c + gains[k]
    <3>1. k \in 1 .. Len(gains) /\ k - 1 \in 0 .. Len(gains)
      BY <1>1, <1>3
    <3>2. sum[k - 1] \in Int
      BY <1>5, <3>1 DEF IsTotal
    <3> QED BY <1>5, <3>1, <3>2 DEF IsTotal
  <2>5. PICK a \in Int, s \in Int, o \in Int : a = p.amount /\ s = Sign(p.side) /\ o = p.open
    BY DEF Position, Sides, Sign
  <2>6. gains[k] = s * a * (x - o)
    BY <1>4, <2>1, <2>5
  <2>7. Gain(acb[k], x) = Gain(b, x) + Scale * ((a * s) * (x - o))
    <3>1. a * s \in Int
      OBVIOUS
    <3> QED BY <2>3, <2>5, <3>1, TradeGains DEF Traded
  <2>8. Gain(b, x) = Scale * c
    BY <1>8, <2>2, <2>4
  <2>9. PICK sc \in Int : sc = Scale
    BY <1>1
  <2>10. sc * c + sc * ((a * s) * (x - o)) = sc * (c + s * a * (x - o))
    OBVIOUS
  <2> QED BY <2>4, <2>6, <2>7, <2>8, <2>9, <2>10
<1>9. \A k \in 0 .. n : k \in S
  <2> HIDE DEF S, n
  <2> QED BY <1>1, <1>7, <1>8, IntervalInduction
<1> QED BY <1>1, <1>5, <1>6, <1>9 DEF gains

\* The sides of the hedge add up to the overall position.
LEMMA HedgesSumUp ==
    ASSUME NEW list \in Seq(Position)
    PROVE  HedgeSide(list, "buy").pos + HedgeSide(list, "sell").pos = AcbOf(list, DOMAIN list).pos
<1> DEFINE n == Len(list)
           Places(side) == {k \in DOMAIN list : list[k].side = side}
<1>1. n \in Nat /\ DOMAIN list = 1 .. n
  OBVIOUS
<1>2. PICK f : IsCosting(f, list, Places("buy")) /\ HedgeSide(list, "buy") = f[n]
  BY CostingIsLoop DEF HedgeSide
<1>3. PICK g : IsCosting(g, list, Places("sell")) /\ HedgeSide(list, "sell") = g[n]
  BY CostingIsLoop DEF HedgeSide
<1>4. PICK h : IsCosting(h, list, DOMAIN list) /\ AcbOf(list, DOMAIN list) = h[n]
  BY CostingIsLoop
<1> DEFINE S == {k \in 0 .. n : f[k].pos + g[k].pos = h[k].pos}
<1>5. 0 \in S
  <2>1. f[0] = NoTrades /\ g[0] = NoTrades /\ h[0] = NoTrades
    BY <1>2, <1>3, <1>4 DEF IsCosting
  <2> QED BY <1>1, <2>1 DEF NoTrades
<1>6. ASSUME NEW k \in 1 .. n, k - 1 \in S
      PROVE  k \in S
  <2>1. PICK p \in Position : p = list[k]
    OBVIOUS
  <2>2. PICK a \in Acb, b \in Acb, c \in Acb : a = f[k - 1] /\ b = g[k - 1] /\ c = h[k - 1]
    BY <1>1, <1>2, <1>3, <1>4 DEF IsCosting
  <2>3. h[k].pos = c.pos + p.amount * Sign(p.side)
    BY <1>1, <1>4, <2>1, <2>2, TradedIs DEF IsCosting
  <2>4. a.pos \in Int /\ b.pos \in Int /\ c.pos \in Int /\ p.amount * Sign(p.side) \in Int
    BY TradedIs DEF Acb
  <2>5. a.pos + b.pos = c.pos
    BY <1>6, <2>2
  <2>6. CASE p.side = "buy"
    <3>1. k \in Places("buy") /\ k \notin Places("sell")
      BY <1>1, <2>1, <2>6
    <3>2. f[k] = Traded(a, p) /\ g[k] = b
      BY <1>2, <1>3, <2>1, <2>2, <3>1 DEF IsCosting
    <3>3. PICK u \in Int, v \in Int, w \in Int, z \in Int :
            u = a.pos /\ v = b.pos /\ w = c.pos /\ z = p.amount * Sign(p.side)
      BY <2>4
    <3>4. f[k].pos = u + z
      BY <3>2, <3>3, TradedIs
    <3>5. u + v = w /\ h[k].pos = w + z /\ g[k].pos = v
      BY <2>3, <2>5, <3>2, <3>3
    <3> QED BY <3>4, <3>5
  <2>7. CASE p.side = "sell"
    <3>1. k \in Places("sell") /\ k \notin Places("buy")
      BY <1>1, <2>1, <2>7
    <3>2. g[k] = Traded(b, p) /\ f[k] = a
      BY <1>2, <1>3, <2>1, <2>2, <3>1 DEF IsCosting
    <3>3. PICK u \in Int, v \in Int, w \in Int, z \in Int :
            u = a.pos /\ v = b.pos /\ w = c.pos /\ z = p.amount * Sign(p.side)
      BY <2>4
    <3>4. g[k].pos = v + z
      BY <3>2, <3>3, TradedIs
    <3>5. u + v = w /\ h[k].pos = w + z /\ f[k].pos = u
      BY <2>3, <2>5, <3>2, <3>3
    <3> QED BY <3>4, <3>5
  <2> QED BY <2>6, <2>7 DEF Position, Sides
<1>7. \A k \in 0 .. n : k \in S
  <2> HIDE DEF S, n
  <2> QED BY <1>1, <1>5, <1>6, IntervalInduction
<1> QED BY <1>1, <1>2, <1>3, <1>4, <1>7

\* A side of the hedge is there if a position of it is.
LEMMA HedgeIsPositive ==
    ASSUME NEW list \in Seq(Position), NEW side \in Sides, NEW i \in DOMAIN list,
           list[i].side = side
    PROVE  HedgeSide(list, side).pos \in Int /\ Sign(side) * HedgeSide(list, side).pos > 0
<1> DEFINE n == Len(list)
           places == {k \in DOMAIN list : list[k].side = side}
<1>1. n \in Nat /\ DOMAIN list = 1 .. n /\ Sign(side) \in {1, -1}
  BY DEF Sides, Sign
<1>2. PICK f : IsCosting(f, list, places) /\ HedgeSide(list, side) = f[n]
  BY CostingIsLoop DEF HedgeSide
<1> DEFINE S == {k \in 0 .. n : /\ Sign(side) * f[k].pos >= 0
                                /\ (i <= k => Sign(side) * f[k].pos > 0)}
<1>3. 0 \in S
  <2>1. f[0] = NoTrades
    BY <1>2 DEF IsCosting
  <2>2. ~(i <= 0)
    BY <1>1
  <2> QED BY <1>1, <2>1, <2>2 DEF NoTrades
<1>4. ASSUME NEW k \in 1 .. n, k - 1 \in S
      PROVE  k \in S
  <2>1. PICK p \in Position : p = list[k]
    OBVIOUS
  <2>2. PICK a \in Acb : a = f[k - 1]
    BY <1>1, <1>2 DEF IsCosting
  <2>3. PICK q \in Int, m \in Nat \ {0} : q = a.pos /\ m = p.amount
    BY DEF Acb, Position
  <2>4. Sign(side) * q >= 0 /\ (i <= k - 1 => Sign(side) * q > 0)
    BY <1>4, <2>2, <2>3
  <2>5. CASE k \in places
    <3>1. f[k] = Traded(a, p) /\ p.side = side
      BY <1>2, <2>1, <2>2, <2>5 DEF IsCosting
    <3>2. f[k].pos = q + m * Sign(side)
      BY <2>3, <3>1, TradedIs
    <3>3. CASE Sign(side) = 1
      <4>1. q >= 0 /\ f[k].pos = q + m
        BY <2>4, <3>2, <3>3
      <4> QED BY <3>3, <4>1
    <3>4. CASE Sign(side) = -1
      <4>1. q <= 0 /\ f[k].pos = q - m
        BY <2>4, <3>2, <3>4
      <4>2. -1 * (q - m) > 0
        BY <4>1
      <4> QED BY <3>4, <4>1, <4>2
    <3> QED BY <1>1, <3>3, <3>4
  <2>6. CASE k \notin places
    <3>1. f[k] = a /\ k # i
      BY <1>1, <1>2, <2>1, <2>2, <2>6 DEF IsCosting
    <3>2. i <= k => i <= k - 1
      BY <1>1, <3>1
    <3> QED BY <2>3, <2>4, <3>1, <3>2
  <2> QED BY <2>5, <2>6
<1>5. \A k \in 0 .. n : k \in S
  <2> HIDE DEF S, n
  <2> QED BY <1>1, <1>3, <1>4, IntervalInduction
<1>6. f[n].pos \in Int
  BY <1>1, <1>2 DEF IsCosting, Acb
<1>7. n \in S /\ i <= n
  BY <1>1, <1>5
<1> QED BY <1>2, <1>6, <1>7

LEMMA OverallIs ==
    ASSUME NEW list \in Seq(Position)
    PROVE  /\ CalcOverall(list) \in Overall
           /\ CalcOverall(list).side \in Sides => CalcOverall(list).amount > 0
<1>1. PICK acb \in Acb : acb = AcbOf(list, DOMAIN list)
  BY AcbOfIsAcb
<1>2. PICK q \in Int : q = acb.pos
  BY DEF Acb
<1>3. CalcOverall(list) =
        [id |-> OverallPosition, amount |-> Abs(q), acb |-> acb,
         side |-> IF q < 0 THEN "sell" ELSE IF q > 0 THEN "buy" ELSE "undefined"]
  BY <1>1, <1>2 DEF CalcOverall
<1> QED BY <1>3 DEF Overall, OverallPosition, Abs, Sides
-----------------------------------------------------------------------------
(* Closing positions *)

\* Ids tell the positions of a list apart.
Distinct(list) == \A j, k \in DOMAIN list : list[j].id = list[k].id => j = k
WellFormed(a) ==
    /\ a \in Account
    /\ Distinct(a.list)
    /\ \A k \in DOMAIN a.list : a.list[k].id < a.counter

LEMMA WorthIs ==
    ASSUME NEW a, NEW price
    PROVE  Worth(a, price) = a.equity + PnlOf(a.list, price)
BY DEF Worth, GetInfo, GetAllPositions

LEMMA RealizedIs ==
    ASSUME NEW a \in Account, NEW p \in Position, NEW price \in Int
    PROVE  /\ Realized(a, p, price) \in Account
           /\ Realized(a, p, price).equity = a.equity + CalculatePnl(p, price)
           /\ Realized(a, p, price).counter = a.counter
           /\ Realized(a, p, price).list = a.list
           /\ Realized(a, p, price).overall = a.overall
<1>1. PICK z \in Int : z = CalculatePnl(p, price)
  BY PnlIsInt
<1>2. Realized(a, p, price) = [a EXCEPT !.equity = @ + z]
  BY <1>1 DEF Realized
<1> QED BY <1>1, <1>2 DEF Account

LEMMA KeptIs ==
    ASSUME NEW a \in Account, NEW p \in Position
    PROVE  /\ [a EXCEPT !.list = Append(@, p)] \in Account
           /\ [a EXCEPT !.list = Append(@, p)].equity = a.equity
           /\ [a EXCEPT !.list = Append(@, p)].counter = a.counter
           /\ [a EXCEPT !.list = Append(@, p)].list = Append(a.list, p)
           /\ [a EXCEPT !.list = Append(@, p)].overall = a.overall
<1>1. PICK longer \in Seq(Position) : longer = Append(a.list, p)
  <2>1. PICK s \in Seq(Position) : s = a.list
    BY DEF Account
  <2>2. Append(s, p) \in Seq(Position)
    OBVIOUS
  <2> QED BY <2>1, <2>2
<1>2. [a EXCEPT !.list = Append(@, p)] = [a EXCEPT !.list = longer]
  BY <1>1
<1> QED BY <1>1, <1>2 DEF Account

\* One round of Closed: the k-th position is realized or kept.
ClosingRound(x, k, list, places, price) ==
    IF k \in places THEN Realized(x, list[k], price) ELSE [x EXCEPT !.list = Append(@, list[k])]

IsClosing(acc, a, places, price) ==
    /\ acc \in [0 .. Len(a.list) -> Account]
    /\ acc[0] = [a EXCEPT !.list = <<>>]
    /\ \A k \in 1 .. Len(a.list) : acc[k] = ClosingRound(acc[k - 1], k, a.list, places, price)

LEMMA ClosingIsLoop ==
    ASSUME NEW a \in Account, NEW places, NEW price \in Int
    PROVE  \E acc : IsClosing(acc, a, places, price) /\ Closed(a, places, price) = acc[Len(a.list)]
<1> DEFINE n == Len(a.list)
           none == [a EXCEPT !.list = <<>>]
           Next1(x, k) == ClosingRound(x, k, a.list, places, price)
           Step == [k \in 1 .. n |-> [x \in Account |-> Next1(x, k)]]
           Rounds(f) == [k \in 0 .. n |-> IF k = 0 THEN none ELSE Next1(f[k - 1], k)]
           acc == CHOOSE f : f = Rounds(f)
<1>1. n \in Nat /\ \A k \in 1 .. n : a.list[k] \in Position
  BY DEF Account
<1>2. none \in Account
  <2>1. <<>> \in Seq(Position)
    OBVIOUS
  <2> QED BY <2>1 DEF Account
<1>3. \A k \in 1 .. n : \A x \in Account : Next1(x, k) \in Account
  BY <1>1, RealizedIs, KeptIs DEF ClosingRound
<1> HIDE DEF Next1, none
<1>4. PICK f : IsLoop(f, n, Account, none, Step)
  <2>1. Step \in [1 .. n -> [Account -> Account]]
    BY <1>3
  <2> HIDE DEF Step, n
  <2> QED BY <1>1, <1>2, <2>1, LoopExists
<1>5. f = Rounds(f)
  <2>1. ASSUME NEW k \in 1 .. n
        PROVE  f[k] = Next1(f[k - 1], k)
    <3>1. f[k - 1] \in Account
      BY <1>1, <1>4 DEF IsLoop
    <3> QED BY <1>4, <3>1 DEF IsLoop
  <2>2. \A k \in 0 .. n : f[k] = IF k = 0 THEN none ELSE Next1(f[k - 1], k)
    <3>1. \A k \in 0 .. n : k = 0 \/ k \in 1 .. n
      BY <1>1
    <3> HIDE DEF n
    <3> QED BY <1>4, <2>1, <3>1 DEF IsLoop
  <2>3. f = [k \in 0 .. n |-> f[k]]
    BY <1>4 DEF IsLoop
  <2> HIDE DEF n
  <2> QED BY <2>2, <2>3
<1>6. acc = Rounds(acc)
  <2> HIDE DEF Rounds
  <2> QED BY <1>5
<1>7. IsClosing(acc, a, places, price)
  <2> HIDE DEF acc
  <2> DEFINE S == {k \in 0 .. n : acc[k] \in Account}
  <2>1. acc[0] = none /\ \A k \in 1 .. n : acc[k] = Next1(acc[k - 1], k)
    BY <1>1, <1>6
  <2>2. 0 \in S /\ \A k \in 1 .. n : k - 1 \in S => k \in S
    BY <1>1, <1>2, <1>3, <2>1
  <2>3. \A k \in 0 .. n : k \in S
    <3> HIDE DEF S, n
    <3> QED BY <1>1, <2>2, IntervalInduction
  <2>4. acc = [k \in 0 .. n |-> acc[k]]
    BY <1>6
  <2> QED BY <2>1, <2>3, <2>4 DEF IsClosing, Next1, none
<1>8. Closed(a, places, price) = acc[n]
  BY DEF Closed, Next1, ClosingRound, none
<1> HIDE DEF acc
<1> QED BY <1>7, <1>8

\* b is a with the positions at some places closed at a price: it is worth the same there, and
\* the other positions are left.
Survives(b, list, k) == \E j \in DOMAIN b.list : b.list[j] = list[k]
Survivor(b, j, list, places, n) == \E k \in 1 .. n : k \notin places /\ b.list[j] = list[k]
Settled(b, a, places, price) ==
    /\ b \in Account /\ b.counter = a.counter /\ b.overall = a.overall
    /\ Worth(b, price) = Worth(a, price)
    /\ \A j \in DOMAIN b.list : Survivor(b, j, a.list, places, Len(a.list))
    /\ \A k \in DOMAIN a.list : k \notin places => Survives(b, a.list, k)
    /\ Distinct(b.list)

LEMMA ClosedIs ==
    ASSUME NEW a, WellFormed(a), NEW places, NEW price \in Int
    PROVE  Settled(Closed(a, places, price), a, places, price)
<1> DEFINE n == Len(a.list)
           list == a.list
<1>1. /\ a \in Account /\ a.equity \in Int /\ list \in Seq(Position)
      /\ n \in Nat /\ DOMAIN list = 1 .. n /\ Distinct(list)
      /\ \A k \in 1 .. n : list[k] \in Position
  BY DEF WellFormed, Account
<1>2. PICK f : IsTotal(f, Pnls(list, price)) /\ PnlOf(list, price) = f[n]
  BY <1>1, PnlsAre, TotalIsLoop
<1>3. /\ f \in [0 .. n -> Int] /\ f[0] = 0
      /\ \A k \in 1 .. n : f[k] = f[k - 1] + CalculatePnl(list[k], price)
  BY <1>1, <1>2, PnlsAre DEF IsTotal
<1>4. PICK acc : IsClosing(acc, a, places, price) /\ Closed(a, places, price) = acc[n]
  BY <1>1, ClosingIsLoop
<1> DEFINE P(b, k) ==
              /\ b \in Account /\ b.counter = a.counter /\ b.overall = a.overall
              /\ b.equity + PnlOf(b.list, price) = a.equity + f[k]
              /\ \A j \in DOMAIN b.list : Survivor(b, j, list, places, k)
              /\ \A i \in 1 .. k : i \notin places => Survives(b, list, i)
              /\ Distinct(b.list)
           S == {k \in 0 .. n : P(acc[k], k)}
<1>5. 0 \in S
  <2>1. acc[0] = [a EXCEPT !.list = <<>>] /\ acc[0] \in Account
    BY <1>1, <1>4 DEF IsClosing
  <2>2. /\ acc[0].counter = a.counter /\ acc[0].overall = a.overall
        /\ acc[0].equity = a.equity /\ acc[0].list = <<>>
    BY <1>1, <2>1 DEF Account
  <2>3. acc[0].equity + PnlOf(acc[0].list, price) = a.equity + f[0]
    BY <1>1, <1>3, <2>2, PnlOfNone
  <2>4. DOMAIN acc[0].list = {} /\ 1 .. 0 = {}
    BY <2>2
  <2>5. P(acc[0], 0)
    BY <2>1, <2>2, <2>3, <2>4 DEF Distinct
  <2> QED BY <1>1, <2>5
<1>6. ASSUME NEW k \in 1 .. n, k - 1 \in S
      PROVE  k \in S
  <2>1. PICK p \in Position : p = list[k]
    BY <1>1
  <2>2. PICK b \in Account : b = acc[k - 1]
    BY <1>1, <1>4 DEF IsClosing
  <2>3. P(b, k - 1)
    BY <1>6, <2>2
  <2>4. acc[k] = ClosingRound(b, k, list, places, price)
    BY <1>1, <1>4, <2>2 DEF IsClosing
  <2>5. PICK c \in Account : c = acc[k]
    BY <1>1, <1>4 DEF IsClosing
  <2>6. PICK z \in Int : z = CalculatePnl(p, price)
    BY PnlIsInt
  <2>7. PICK u \in Int, v \in Int : u = f[k - 1] /\ v = a.equity /\ f[k] = u + z
    <3>1. f[k - 1] \in Int
      <4>1. k - 1 \in 0 .. n
        BY <1>1
      <4> HIDE DEF n
      <4> QED BY <1>3, <4>1
    <3>2. f[k] = f[k - 1] + z
      BY <1>3, <2>1, <2>6
    <3> QED BY <1>1, <3>1, <3>2
  <2>8. PICK e \in Int, g \in Int : e = b.equity /\ g = PnlOf(b.list, price) /\ e + g = v + u
    <3>1. b.list \in Seq(Position) /\ b.equity \in Int
      BY DEF Account
    <3> QED BY <2>3, <2>7, <3>1, PnlsAre
  <2>9. CASE k \in places
    <3>1. c = Realized(b, p, price)
      BY <2>1, <2>4, <2>5, <2>9 DEF ClosingRound
    <3>2. /\ c.equity = e + z /\ c.list = b.list
          /\ c.counter = a.counter /\ c.overall = a.overall
      BY <2>3, <2>6, <2>8, <3>1, RealizedIs
    <3>3. c.equity + PnlOf(c.list, price) = a.equity + f[k]
      <4>1. c.equity + PnlOf(c.list, price) = (e + z) + g
        BY <2>8, <3>2
      <4>2. a.equity + f[k] = v + (u + z)
        BY <2>7
      <4> QED BY <2>8, <4>1, <4>2
    <3>4. ASSUME NEW j \in DOMAIN c.list
          PROVE  Survivor(c, j, list, places, k)
      <4>1. Survivor(b, j, list, places, k - 1)
        BY <2>3, <3>2
      <4>2. 1 .. (k - 1) \subseteq 1 .. k
        BY <1>1
      <4> QED BY <3>2, <4>1, <4>2 DEF Survivor
    <3>5. ASSUME NEW i \in 1 .. k, i \notin places
          PROVE  Survives(c, list, i)
      <4>1. i \in 1 .. (k - 1)
        BY <1>1, <2>9, <3>5
      <4> QED BY <2>3, <3>2, <3>5, <4>1 DEF Survives
    <3>6. P(c, k)
      BY <2>3, <3>2, <3>3, <3>4, <3>5
    <3> QED BY <2>5, <3>6
  <2>10. CASE k \notin places
    <3>1. c = [b EXCEPT !.list = Append(@, p)]
      BY <2>1, <2>4, <2>5, <2>10 DEF ClosingRound
    <3>2. /\ c.equity = e /\ c.list = Append(b.list, p)
          /\ c.counter = a.counter /\ c.overall = a.overall
      BY <2>3, <2>8, <3>1, KeptIs
    <3>3. PICK m \in Nat : /\ m = Len(b.list) /\ DOMAIN b.list = 1 .. m
                           /\ DOMAIN c.list = 1 .. (m + 1) /\ c.list[m + 1] = p
                           /\ \A j \in 1 .. m : c.list[j] = b.list[j]
      <4>1. PICK s \in Seq(Position) : s = b.list
        BY DEF Account
      <4>2. c.list = Append(s, p)
        BY <3>2, <4>1
      <4>3. PICK m \in Nat : m = Len(s)
        BY <4>1
      <4>4. /\ DOMAIN s = 1 .. m /\ DOMAIN Append(s, p) = 1 .. (m + 1)
            /\ Append(s, p)[m + 1] = p /\ \A j \in 1 .. m : Append(s, p)[j] = s[j]
        BY <4>1, <4>3
      <4> QED BY <4>1, <4>2, <4>3, <4>4
    <3>4. c.equity + PnlOf(c.list, price) = a.equity + f[k]
      <4>1. PnlOf(c.list, price) = g + z
        <5>1. b.list \in Seq(Position)
          BY DEF Account
        <5> QED BY <2>6, <2>8, <3>2, <5>1, PnlOfAppend
      <4>2. c.equity + PnlOf(c.list, price) = e + (g + z)
        BY <3>2, <4>1
      <4>3. a.equity + f[k] = v + (u + z)
        BY <2>7
      <4>4. e + (g + z) = v + (u + z)
        <5>1. e + g = v + u
          BY <2>8
        <5>2. e + (g + z) = (e + g) + z
          OBVIOUS
        <5>3. (v + u) + z = v + (u + z)
          OBVIOUS
        <5> QED BY <5>1, <5>2, <5>3
      <4> QED BY <4>2, <4>3, <4>4
    <3>5. ASSUME NEW j \in DOMAIN c.list
          PROVE  Survivor(c, j, list, places, k)
      <4>1. CASE j = m + 1
        <5>1. k \in 1 .. k
          BY <1>1
        <5> QED BY <2>1, <2>10, <3>3, <4>1, <5>1 DEF Survivor
      <4>2. CASE j \in 1 .. m
        <5>1. Survivor(b, j, list, places, k - 1)
          BY <2>3, <3>3, <4>2
        <5>2. 1 .. (k - 1) \subseteq 1 .. k
          BY <1>1
        <5> QED BY <3>3, <4>2, <5>1, <5>2 DEF Survivor
      <4> QED BY <3>3, <4>1, <4>2
    <3>6. ASSUME NEW i \in 1 .. k, i \notin places
          PROVE  Survives(c, list, i)
      <4>1. CASE i = k
        <5>1. m + 1 \in DOMAIN c.list
          BY <3>3
        <5> QED BY <2>1, <3>3, <4>1, <5>1 DEF Survives
      <4>2. CASE i # k
        <5>1. i \in 1 .. (k - 1)
          BY <1>1, <4>2
        <5>2. PICK j \in 1 .. m : b.list[j] = list[i]
          BY <2>3, <3>3, <3>6, <5>1 DEF Survives
        <5>3. j \in DOMAIN c.list /\ c.list[j] = list[i]
          BY <3>3, <5>2
        <5> QED BY <5>3 DEF Survives
      <4> QED BY <4>1, <4>2
    <3>7. Distinct(c.list)
      <4>1. ASSUME NEW j \in 1 .. m
            PROVE  c.list[j].id # p.id
        <5>1. PICK i \in 1 .. (k - 1) : b.list[j] = list[i]
          BY <2>3, <3>3 DEF Survivor
        <5>2. i \in DOMAIN list /\ k \in DOMAIN list /\ i # k
          BY <1>1
        <5> QED BY <1>1, <2>1, <3>3, <5>1, <5>2 DEF Distinct
      <4>2. ASSUME NEW i \in 1 .. m, NEW j \in 1 .. m, c.list[i].id = c.list[j].id
            PROVE  i = j
        BY <2>3, <3>3, <4>2 DEF Distinct
      <4>3. \A i \in DOMAIN c.list : i \in 1 .. m \/ i = m + 1
        BY <3>3
      <4> QED BY <3>3, <4>1, <4>2, <4>3 DEF Distinct
    <3>8. P(c, k)
      BY <3>2, <3>4, <3>5, <3>6, <3>7
    <3> QED BY <2>5, <3>8
  <2> QED BY <2>9, <2>10
<1>7. \A k \in 0 .. n : k \in S
  <2> HIDE DEF S, n
  <2> QED BY <1>1, <1>5, <1>6, IntervalInduction
<1>8. P(acc[n], n)
  BY <1>1, <1>7
<1> QED BY <1>1, <1>2, <1>4, <1>8, WorthIs DEF Settled
-----------------------------------------------------------------------------
(* What is left of an amount when positions of the other side are closed *)

Less(x, p, side) == IF Fits(p, side, x) THEN x - p.amount ELSE x

IsLeaving(left, list, side, amount) ==
    /\ left \in [0 .. Len(list) -> Nat]
    /\ left[0] = amount
    /\ \A k \in 1 .. Len(list) : left[k] = Less(left[k - 1], list[k], side)

LEMMA LessIs ==
    ASSUME NEW x \in Nat, NEW p \in Position, NEW side
    PROVE  Less(x, p, side) \in Nat /\ Less(x, p, side) <= x
BY DEF Less, Fits, Position

LEMMA LeavingIsLoop ==
    ASSUME NEW list \in Seq(Position), NEW side, NEW amount \in Nat
    PROVE  IsLeaving(LeftAfter(list, side, amount), list, side, amount)
<1> DEFINE n == Len(list)
           Next1(x, k) == Less(x, list[k], side)
           Step == [k \in 1 .. n |-> [x \in Nat |-> Next1(x, k)]]
           Rounds(f) == [k \in 0 .. n |-> IF k = 0 THEN amount ELSE Next1(f[k - 1], k)]
           left == CHOOSE f : f = Rounds(f)
<1>1. n \in Nat /\ \A k \in 1 .. n : list[k] \in Position
  OBVIOUS
<1>2. \A k \in 1 .. n : \A x \in Nat : Next1(x, k) \in Nat
  BY <1>1, LessIs
<1> HIDE DEF Next1
<1>3. PICK f : IsLoop(f, n, Nat, amount, Step)
  <2>1. Step \in [1 .. n -> [Nat -> Nat]]
    BY <1>2
  <2> HIDE DEF Step, n
  <2> QED BY <1>1, <2>1, LoopExists
<1>4. f = Rounds(f)
  <2>1. ASSUME NEW k \in 1 .. n
        PROVE  f[k] = Next1(f[k - 1], k)
    <3>1. f[k - 1] \in Nat
      BY <1>1, <1>3 DEF IsLoop
    <3> QED BY <1>3, <3>1 DEF IsLoop
  <2>2. \A k \in 0 .. n : f[k] = IF k = 0 THEN amount ELSE Next1(f[k - 1], k)
    <3>1. \A k \in 0 .. n : k = 0 \/ k \in 1 .. n
      BY <1>1
    <3> HIDE DEF n
    <3> QED BY <1>3, <2>1, <3>1 DEF IsLoop
  <2>3. f = [k \in 0 .. n |-> f[k]]
    BY <1>3 DEF IsLoop
  <2> HIDE DEF n
  <2> QED BY <2>2, <2>3
<1>5. left = Rounds(left)
  <2> HIDE DEF Rounds
  <2> QED BY <1>4
<1>6. LeftAfter(list, side, amount) = left
  BY DEF LeftAfter, Next1, Less
<1> HIDE DEF left
<1> DEFINE S == {k \in 0 .. n : left[k] \in Nat}
<1>7. left[0] = amount /\ \A k \in 1 .. n : left[k] = Next1(left[k - 1], k)
  BY <1>1, <1>5
<1>8. 0 \in S /\ \A k \in 1 .. n : k - 1 \in S => k \in S
  <2>1. 0 \in S
    BY <1>1, <1>7
  <2>2. ASSUME NEW k \in 1 .. n, k - 1 \in S
        PROVE  k \in S
    <3>1. left[k] = Next1(left[k - 1], k) /\ left[k - 1] \in Nat
      BY <1>7, <2>2
    <3>2. left[k] \in Nat
      BY <1>2, <3>1
    <3> QED BY <1>1, <3>2
  <2> QED BY <2>1, <2>2
<1>9. \A k \in 0 .. n : k \in S
  <2> HIDE DEF S, n
  <2> QED BY <1>1, <1>8, IntervalInduction
<1>10. left = [k \in 0 .. n |-> left[k]]
  BY <1>5
<1> QED BY <1>6, <1>7, <1>9, <1>10 DEF IsLeaving, Next1

\* What is left in the end is at most what was left at any place.
LEMMA LeftNeverGrows ==
    ASSUME NEW list \in Seq(Position), NEW side, NEW amount \in Nat, NEW left,
           IsLeaving(left, list, side, amount), NEW m \in 0 .. Len(list)
    PROVE  left[Len(list)] <= left[m]
<1> DEFINE n == Len(list)
           S == {k \in 0 .. n : k >= m => left[k] <= left[m]}
<1>1. /\ n \in Nat /\ m \in Nat /\ \A k \in 0 .. n : left[k] \in Nat
      /\ \A k \in 1 .. n : list[k] \in Position
  BY DEF IsLeaving
<1>2. 0 \in S
  BY <1>1
<1>3. ASSUME NEW k \in 1 .. n, k - 1 \in S
      PROVE  k \in S
  <2>1. k - 1 \in 0 .. n /\ k \in 0 .. n
    BY <1>1
  <2>2. left[k] <= left[k - 1]
    BY <1>1, <2>1, LessIs DEF IsLeaving
  <2>3. left[k] \in Nat /\ left[k - 1] \in Nat /\ left[m] \in Nat
    BY <1>1, <2>1
  <2>4. CASE k = m
    BY <2>1, <2>3, <2>4
  <2>5. CASE k # m
    <3>1. k >= m => left[k - 1] <= left[m]
      BY <1>1, <1>3, <2>5
    <3> QED BY <2>1, <2>2, <2>3, <3>1
  <2> QED BY <2>4, <2>5
<1>4. \A k \in 0 .. n : k \in S
  <2> HIDE DEF S, n
  <2> QED BY <1>1, <1>2, <1>3, IntervalInduction
<1> QED BY <1>1, <1>4

-----------------------------------------------------------------------------
(* Fills and closings *)

SideIs(list, side) == \A j \in DOMAIN list : list[j].side = side
OverallOk(a) == a.overall.side \in Sides => a.overall.amount > 0
AccountInv(a) == WellFormed(a) /\ OverallOk(a)

\* r is a before what is left of an amount is traded: positions of the other side may be closed.
Closer(r, a, side, price, amount) ==
    /\ WellFormed(r.acc) /\ r.acc.counter = a.counter /\ r.acc.overall = a.overall
    /\ Worth(r.acc, price) = Worth(a, price)
    /\ \A j \in DOMAIN r.acc.list : \E k \in DOMAIN a.list : r.acc.list[j] = a.list[k]
    /\ \A k \in DOMAIN a.list : a.list[k].side = side => Survives(r.acc, a.list, k)
    /\ r.left \in 0 .. amount

\* The positions of the other side that stay are larger than what is left.
Outgrown(r, side) ==
    \A j \in DOMAIN r.acc.list : r.acc.list[j].side # side => r.left < r.acc.list[j].amount

LEMMA NothingClosed ==
    ASSUME NEW a, WellFormed(a), NEW side, NEW price, NEW amount \in Nat
    PROVE  Closer([acc |-> a, left |-> amount], a, side, price, amount)
BY DEF Closer, Survives

LEMMA SettledIsWellFormed ==
    ASSUME NEW a, WellFormed(a), NEW b, NEW places, NEW price, Settled(b, a, places, price)
    PROVE  /\ WellFormed(b)
           /\ \A j \in DOMAIN b.list : \E k \in DOMAIN a.list : b.list[j] = a.list[k]
<1>1. /\ b \in Account /\ b.counter = a.counter /\ Distinct(b.list)
      /\ \A j \in DOMAIN b.list : Survivor(b, j, a.list, places, Len(a.list))
  BY DEF Settled
<1>2. DOMAIN a.list = 1 .. Len(a.list)
  BY DEF WellFormed, Account
<1>3. \A j \in DOMAIN b.list : \E k \in DOMAIN a.list : b.list[j] = a.list[k]
  BY <1>1, <1>2 DEF Survivor
<1>4. \A j \in DOMAIN b.list : b.list[j].id < b.counter
  BY <1>1, <1>3 DEF WellFormed
<1> QED BY <1>1, <1>3, <1>4 DEF WellFormed

LEMMA OppositeClosed ==
    ASSUME NEW a, WellFormed(a), NEW side \in Sides, NEW price \in Int, NEW amount \in Nat
    PROVE  LET r == CloseOpposite(a, side, price, amount)
           IN  Closer(r, a, side, price, amount) /\ Outgrown(r, side)
<1> DEFINE n == Len(a.list)
           left == LeftAfter(a.list, side, amount)
           places == {k \in DOMAIN a.list : Fits(a.list[k], side, left[k - 1])}
           b == Closed(a, places, price)
           r == CloseOpposite(a, side, price, amount)
<1>1. /\ a.list \in Seq(Position) /\ n \in Nat /\ DOMAIN a.list = 1 .. n
      /\ \A k \in 1 .. n : a.list[k] \in Position
  BY DEF WellFormed, Account
<1>2. IsLeaving(left, a.list, side, amount)
  BY <1>1, LeavingIsLoop
<1>3. r = [acc |-> b, left |-> left[n]]
  BY DEF CloseOpposite
<1> HIDE DEF left
<1>4. Settled(b, a, places, price)
  <2> HIDE DEF places
  <2> QED BY ClosedIs
<1>5. /\ WellFormed(b)
      /\ \A j \in DOMAIN b.list : \E k \in DOMAIN a.list : b.list[j] = a.list[k]
  <2> HIDE DEF places, b
  <2> QED BY <1>4, SettledIsWellFormed
<1>6. left[n] \in 0 .. amount
  <2>1. 0 \in 0 .. n /\ n \in 0 .. n
    BY <1>1
  <2>2. left[n] \in Nat /\ left[0] = amount
    BY <1>2, <2>1 DEF IsLeaving
  <2>3. left[n] <= left[0]
    BY <1>1, <1>2, <2>1, LeftNeverGrows
  <2> QED BY <2>2, <2>3
<1>7. ASSUME NEW k \in DOMAIN a.list, a.list[k].side = side
      PROVE  Survives(b, a.list, k)
  <2>1. k \notin places
    BY <1>7 DEF Fits, ReverseSide, Sides
  <2> HIDE DEF places, b
  <2> QED BY <1>4, <2>1 DEF Settled
<1>8. ASSUME NEW j \in DOMAIN b.list, b.list[j].side # side
      PROVE  left[n] < b.list[j].amount
  <2>1. PICK k \in 1 .. n : k \notin places /\ b.list[j] = a.list[k]
    <3> HIDE DEF places, b
    <3> QED BY <1>4 DEF Settled, Survivor
  <2>2. k - 1 \in 0 .. n /\ n \in 0 .. n
    BY <1>1
  <2>3. a.list[k].side = ReverseSide(side)
    <3>1. a.list[k].side \in Sides /\ a.list[k].side # side
      BY <1>1, <1>8, <2>1 DEF Position
    <3> QED BY <3>1 DEF Sides, ReverseSide
  <2>4. ~(a.list[k].amount <= left[k - 1])
    BY <1>1, <2>1, <2>3 DEF Fits
  <2>5. left[n] <= left[k - 1]
    BY <1>1, <1>2, <2>2, LeftNeverGrows
  <2>6. left[n] \in Nat /\ left[k - 1] \in Nat /\ a.list[k].amount \in Nat
    BY <1>1, <1>2, <2>2 DEF IsLeaving, Position
  <2> QED BY <2>1, <2>4, <2>5, <2>6
<1> HIDE DEF b, places
<1>9. Closer(r, a, side, price, amount)
  BY <1>3, <1>4, <1>5, <1>6, <1>7 DEF Closer, Settled
<1>10. Outgrown(r, side)
  BY <1>3, <1>8 DEF Outgrown
<1> QED BY <1>9, <1>10
\* The sides that are held, and that a step leaves at most one of, unless both were held.
HeldSides(list) == {p.side : p \in ToSet(list)}
OneSided(b, a) == HeldSides(b.list) \subseteq HeldSides(a.list) \/ \E side : HeldSides(b.list) \subseteq {side}

\* What a step counts twice.
Twice(a, b, price) ==
    IF Reduced(a, b) = {} THEN 0 ELSE CalculatePnl(CHOOSE p \in Reduced(a, b) : TRUE, price)

\* b is a well-formed account that a fill or a closing at a price made of a.
Booked(b, a, price) ==
    /\ AccountInv(b)
    /\ Worth(b, price) = Worth(a, price) + Twice(a, b, price)

LEMMA WorthIsInt ==
    ASSUME NEW a, WellFormed(a), NEW price \in Int
    PROVE  Worth(a, price) \in Int
<1>1. a.equity \in Int /\ a.list \in Seq(Position)
  BY DEF WellFormed, Account
<1>2. PnlOf(a.list, price) \in Int
  BY <1>1, PnlsAre
<1> QED BY <1>1, <1>2, WorthIs

\* The overall position is calculated from the positions that are there.
Current(a) == a.overall = CalcOverall(a.list)

LEMMA UpdatedIs ==
    ASSUME NEW a, WellFormed(a)
    PROVE  /\ AccountInv(Updated(a)) /\ Current(Updated(a))
           /\ Updated(a).equity = a.equity
           /\ Updated(a).counter = a.counter
           /\ Updated(a).list = a.list
<1>1. a \in Account /\ a.list \in Seq(Position)
  BY DEF WellFormed, Account
<1>2. PICK o \in Overall : o = CalcOverall(a.list) /\ (o.side \in Sides => o.amount > 0)
  BY <1>1, OverallIs
<1>3. Updated(a) = [a EXCEPT !.overall = o]
  BY <1>2 DEF Updated
<1>4. /\ Updated(a) \in Account /\ Updated(a).equity = a.equity /\ Updated(a).counter = a.counter
      /\ Updated(a).list = a.list /\ Updated(a).overall = o
  BY <1>1, <1>3 DEF Account
<1> QED BY <1>2, <1>4 DEF AccountInv, WellFormed, OverallOk, Distinct, Current

\* Without a new position nothing is counted twice.
LEMMA NoneReduced ==
    ASSUME NEW a \in Account, NEW b \in Account, NEW price,
           \A j \in DOMAIN b.list : b.list[j].id < a.counter
    PROVE  Reduced(a, b) = {} /\ Twice(a, b, price) = 0
<1>1. ASSUME NEW p \in Reduced(a, b)
      PROVE  FALSE
  <2>1. p \in ToSet(b.list) /\ p.id >= a.counter
    BY DEF Reduced
  <2>2. PICK j \in DOMAIN b.list : p = b.list[j]
    BY <2>1 DEF ToSet
  <2>3. b.list[j] \in Position
    BY DEF Account
  <2>4. b.list[j].id \in Nat /\ a.counter \in Nat
    BY <2>3 DEF Position, Account
  <2> QED BY <2>1, <2>2, <2>4
<1>2. Reduced(a, b) = {}
  BY <1>1
<1> QED BY <1>2 DEF Twice

LEMMA HeldFrom ==
    ASSUME NEW a, NEW b,
           \A j \in DOMAIN b.list : \E k \in DOMAIN a.list : b.list[j].side = a.list[k].side
    PROVE  OneSided(b, a)
BY DEF OneSided, HeldSides, ToSet

\* Closing positions, with the overall position calculated again or not.
LEMMA CloserIsBooked ==
    ASSUME NEW a, AccountInv(a), NEW r, NEW side, NEW price \in Int, NEW amount \in Nat,
           Closer(r, a, side, price, amount)
    PROVE  /\ Booked(r.acc, a, price) /\ Booked(Updated(r.acc), a, price)
           /\ OneSided(r.acc, a) /\ OneSided(Updated(r.acc), a)
           /\ Twice(a, r.acc, price) = 0 /\ Twice(a, Updated(r.acc), price) = 0
           /\ Current(Updated(r.acc))
<1>1. /\ WellFormed(a) /\ WellFormed(r.acc) /\ r.acc.counter = a.counter
      /\ r.acc.overall = a.overall /\ Worth(r.acc, price) = Worth(a, price)
      /\ \A j \in DOMAIN r.acc.list : \E k \in DOMAIN a.list : r.acc.list[j] = a.list[k]
      /\ a \in Account /\ r.acc \in Account
  BY DEF Closer, AccountInv, WellFormed
<1>2. PICK u : /\ u = Updated(r.acc) /\ AccountInv(u) /\ Current(u)
               /\ u.equity = r.acc.equity /\ u.list = r.acc.list
  BY <1>1, UpdatedIs
<1>3. Worth(u, price) = Worth(a, price)
  BY <1>1, <1>2, WorthIs
<1>4. AccountInv(r.acc)
  BY <1>1 DEF AccountInv, OverallOk
<1>5. \A j \in DOMAIN r.acc.list : r.acc.list[j].id < a.counter
  BY <1>1 DEF WellFormed
<1>6. u \in Account
  BY <1>2 DEF AccountInv, WellFormed
<1>7. Twice(a, r.acc, price) = 0 /\ Twice(a, u, price) = 0
  BY <1>1, <1>2, <1>5, <1>6, NoneReduced
<1>8. PICK w \in Int : w = Worth(a, price)
  BY <1>1, WorthIsInt
<1>9. OneSided(r.acc, a) /\ OneSided(u, a)
  BY <1>1, <1>2, HeldFrom
<1>10. Booked(r.acc, a, price)
  BY <1>1, <1>4, <1>7, <1>8 DEF Booked
<1>11. Booked(u, a, price)
  BY <1>2, <1>3, <1>7, <1>8 DEF Booked
<1> QED BY <1>2, <1>7, <1>9, <1>10, <1>11

LEMMA OpenRestIs ==
    ASSUME NEW a, AccountInv(a), NEW r, NEW side \in Sides, NEW price \in Int, NEW amount \in Nat,
           Closer(r, a, side, price, amount)
    PROVE  LET o == OpenRest(r, side, price, amount)
           IN  /\ Booked(o.acc, a, price) /\ o.filled \in Int
               /\ SideIs(r.acc.list, side) => OneSided(o.acc, a)
               /\ o.acc.overall = a.overall
<1> DEFINE o == OpenRest(r, side, price, amount)
<1>1. /\ Booked(r.acc, a, price) /\ OneSided(r.acc, a) /\ r.left \in Nat /\ amount \in Int
      /\ r.acc.overall = a.overall
  <2>1. r.left \in Nat /\ r.acc.overall = a.overall
    BY DEF Closer
  <2> QED BY <2>1, CloserIsBooked
<1>2. CASE o.acc = r.acc /\ o.filled \in {amount, r.left}
  BY <1>1, <1>2
<1>3. CASE r.left # 0 /\ ~Margin(r.acc, price, r.left, Geared)
  <2>1. /\ WellFormed(a) /\ WellFormed(r.acc) /\ r.acc.counter = a.counter
        /\ r.acc.overall = a.overall /\ Worth(r.acc, price) = Worth(a, price)
        /\ \A k \in DOMAIN a.list : a.list[k].side = side => Survives(r.acc, a.list, k)
    BY DEF Closer, AccountInv
  <2>2. a \in Account /\ r.acc \in Account /\ r.acc.counter \in Nat /\ r.acc.equity \in Int
    BY <2>1 DEF WellFormed, Account
  <2>3. PICK s \in Seq(Position) : s = r.acc.list
    BY <2>2 DEF Account
  <2>4. PICK p \in Position :
          /\ p = [id |-> r.acc.counter, side |-> side, amount |-> r.left, open |-> price]
          /\ p.id = r.acc.counter /\ p.side = side /\ p.open = price
    <3>1. r.left \in Nat \ {0}
      BY <1>1, <1>3
    <3>2. [id |-> r.acc.counter, side |-> side, amount |-> r.left, open |-> price] \in Position
      BY <2>2, <3>1 DEF Position
    <3> QED BY <3>2
  <2>5. PICK longer \in Seq(Position) : longer = Append(s, p)
    <3>1. Append(s, p) \in Seq(Position)
      OBVIOUS
    <3> QED BY <3>1
  <2>6. PICK m \in Nat : /\ m = Len(s) /\ DOMAIN s = 1 .. m
                         /\ DOMAIN longer = 1 .. (m + 1) /\ longer[m + 1] = p
                         /\ \A j \in 1 .. m : longer[j] = s[j]
    BY <2>5
  <2>7. /\ o.acc = [r.acc EXCEPT !.list = longer, !.counter = r.acc.counter + 1]
        /\ o.filled = amount
    BY <1>3, <2>3, <2>4, <2>5 DEF OpenRest
  <2>8. /\ o.acc \in Account /\ o.acc.list = longer /\ o.acc.counter = r.acc.counter + 1
        /\ o.acc.overall = a.overall /\ o.acc.equity = r.acc.equity
    <3>1. PICK c \in Nat : c = r.acc.counter + 1
      BY <2>2
    <3>2. o.acc = [r.acc EXCEPT !.list = longer, !.counter = c]
      BY <2>7, <3>1
    <3>3. PICK b \in Account : b = r.acc
      BY <2>2
    <3>4. o.acc = [b EXCEPT !.list = longer, !.counter = c]
      BY <3>2, <3>3
    <3> HIDE DEF o
    <3>5. /\ o.acc \in Account /\ o.acc.list = longer /\ o.acc.counter = c
          /\ o.acc.overall = b.overall /\ o.acc.equity = b.equity
      BY <2>5, <3>4 DEF Account
    <3> QED BY <2>1, <3>1, <3>3, <3>5
  <2>9. \A j \in 1 .. m : longer[j] \in Position /\ longer[j].id \in Nat /\ longer[j].id < r.acc.counter
    <3>1. \A j \in 1 .. m : s[j] \in Position /\ s[j].id < r.acc.counter
      BY <2>1, <2>3, <2>6 DEF WellFormed
    <3> QED BY <2>6, <3>1 DEF Position
  <2>10. AccountInv(o.acc)
    <3>1. ASSUME NEW j \in DOMAIN longer
          PROVE  longer[j].id < r.acc.counter + 1
      <4>1. CASE j = m + 1
        BY <2>2, <2>4, <2>6, <4>1
      <4>2. CASE j \in 1 .. m
        BY <2>2, <2>9, <4>2
      <4> QED BY <2>6, <4>1, <4>2
    <3>2. Distinct(longer)
      <4>1. \A j \in 1 .. m : longer[j].id # p.id
        BY <2>2, <2>4, <2>9
      <4>2. ASSUME NEW i \in 1 .. m, NEW j \in 1 .. m, longer[i].id = longer[j].id
            PROVE  i = j
        BY <2>1, <2>3, <2>6, <4>2 DEF WellFormed, Distinct
      <4>3. \A i \in DOMAIN longer : i \in 1 .. m \/ i = m + 1
        BY <2>6
      <4> QED BY <2>6, <4>1, <4>2, <4>3 DEF Distinct
    <3>3. WellFormed(o.acc)
      BY <2>8, <3>1, <3>2 DEF WellFormed
    <3> QED BY <2>8, <3>3 DEF AccountInv, OverallOk
  <2>11. Worth(o.acc, price) = Worth(a, price)
    <3>1. PnlOf(longer, price) = PnlOf(s, price) + 0
      BY <2>4, <2>5, NoPnlAtOpen, PnlOfAppend
    <3>2. PnlOf(s, price) \in Int
      BY PnlsAre
    <3>3. PnlOf(longer, price) = PnlOf(s, price)
      BY <3>1, <3>2
    <3> QED BY <2>1, <2>3, <2>8, <3>3, WorthIs
  <2>12. Reduced(a, o.acc) = {}
    <3>1. ASSUME NEW x \in Reduced(a, o.acc)
          PROVE  FALSE
      <4>1. PICK j \in 1 .. (m + 1) : x = longer[j]
        BY <2>6, <2>8 DEF Reduced, ToSet
      <4>2. x.id >= r.acc.counter
        BY <2>1 DEF Reduced
      <4>3. j \notin 1 .. m
        BY <2>2, <2>9, <4>1, <4>2
      <4>4. x = p
        BY <2>6, <4>1, <4>3
      <4>5. PICK q \in ToSet(a.list) :
              q.side = x.side /\ q.id \notin {z.id : z \in ToSet(o.acc.list)}
        BY DEF Reduced
      <4>6. PICK k \in DOMAIN a.list : q = a.list[k]
        BY DEF ToSet
      <4>7. PICK i \in DOMAIN s : s[i] = q
        BY <2>1, <2>3, <2>4, <4>4, <4>5, <4>6 DEF Survives
      <4>8. q \in ToSet(longer)
        BY <2>6, <4>7 DEF ToSet
      <4> QED BY <2>8, <4>5, <4>8
    <3> QED BY <3>1
  <2>13. Booked(o.acc, a, price)
    <3>1. Twice(a, o.acc, price) = 0
      BY <2>12 DEF Twice
    <3>2. Worth(a, price) \in Int
      BY <2>1, WorthIsInt
    <3> QED BY <2>10, <2>11, <3>1, <3>2 DEF Booked
  <2>14. ASSUME SideIs(r.acc.list, side)
         PROVE  OneSided(o.acc, a)
    <3>1. ASSUME NEW j \in DOMAIN longer
          PROVE  longer[j].side = side
      <4>1. CASE j = m + 1
        BY <2>4, <2>6, <4>1
      <4>2. CASE j \in 1 .. m
        BY <2>3, <2>6, <2>14, <4>2 DEF SideIs
      <4> QED BY <2>6, <4>1, <4>2
    <3>2. HeldSides(longer) \subseteq {side}
      BY <3>1 DEF HeldSides, ToSet
    <3> QED BY <2>8, <3>2 DEF OneSided
  <2> QED BY <1>1, <2>7, <2>8, <2>13, <2>14
<1>4. \/ r.left # 0 /\ ~Margin(r.acc, price, r.left, Geared)
      \/ o.acc = r.acc /\ o.filled \in {amount, r.left}
  BY DEF OpenRest
<1> QED BY <1>2, <1>3, <1>4
\* What is left reduces a position of the other side: its rest, under a new id, is the only one
\* that the step counts twice.
LEMMA ReduceFirstIs ==
    ASSUME NEW a, AccountInv(a), NEW r, NEW side \in Sides, NEW price \in Int, NEW amount \in Nat,
           Closer(r, a, side, price, amount), Outgrown(r, side), r.left > 0,
           NEW i \in DOMAIN r.acc.list, r.acc.list[i].side # side
    PROVE  LET o == ReduceFirst(r, i, price, amount)
           IN  Booked(o.acc, a, price) /\ OneSided(o.acc, a) /\ o.filled \in Int /\ Current(o.acc)
<1> DEFINE o == ReduceFirst(r, i, price, amount)
<1>1. /\ WellFormed(a) /\ WellFormed(r.acc) /\ r.acc.counter = a.counter
      /\ r.acc.overall = a.overall /\ Worth(r.acc, price) = Worth(a, price)
      /\ \A j \in DOMAIN r.acc.list : \E k \in DOMAIN a.list : r.acc.list[j] = a.list[k]
      /\ r.left \in Nat
  BY DEF Closer, AccountInv
<1>2. PICK b \in Account : b = r.acc /\ a \in Account
  BY <1>1 DEF WellFormed
<1>3. PICK s \in Seq(Position), c \in Nat, e \in Int :
        s = b.list /\ c = b.counter /\ c = a.counter /\ e = b.equity
  BY <1>1, <1>2 DEF Account
<1>4. PICK m \in Nat : m = Len(s) /\ DOMAIN s = 1 .. m /\ i \in 1 .. m
  BY <1>2, <1>3
<1>5. PICK p \in Position : p = s[i]
  BY <1>4
<1>6. PICK n \in Nat \ {0}, left \in Nat \ {0} : n = p.amount /\ left = r.left /\ left < n
  <2>1. p.amount \in Nat \ {0}
    BY DEF Position
  <2>2. r.left \in Nat \ {0} /\ r.left < p.amount
    BY <1>1, <1>2, <1>3, <1>5 DEF Outgrown
  <2> QED BY <2>1, <2>2
<1>7. PICK rest \in Position :
        /\ rest = [p EXCEPT !.id = c, !.amount = n - left]
        /\ rest.id = c /\ rest.amount = n - left /\ rest.side = p.side /\ rest.open = p.open
  <2>1. PICK d \in Nat \ {0} : d = n - left
    BY <1>6
  <2>2. [p EXCEPT !.id = c, !.amount = d] \in Position
    BY DEF Position
  <2>3. PICK rest \in Position : rest = [p EXCEPT !.id = c, !.amount = d]
    BY <2>2
  <2>4. rest.id = c /\ rest.amount = d /\ rest.side = p.side /\ rest.open = p.open
    BY <2>3 DEF Position
  <2> QED BY <2>1, <2>3, <2>4
<1>8. PICK other \in Seq(Position) :
        /\ other = [s EXCEPT ![i] = rest] /\ Len(other) = m /\ DOMAIN other = 1 .. m
        /\ other[i] = rest /\ \A j \in 1 .. m : j # i => other[j] = s[j]
  <2>1. [s EXCEPT ![i] = rest] \in Seq(Position) /\ Len([s EXCEPT ![i] = rest]) = m
    BY <1>4
  <2> QED BY <1>4, <2>1
<1> DEFINE x == [b EXCEPT !.list = other, !.counter = c + 1]
<1>9. x \in Account /\ x.list = other /\ x.counter = c + 1 /\ x.equity = e
  <2>1. PICK d \in Nat : d = c + 1
    OBVIOUS
  <2>2. x = [b EXCEPT !.list = other, !.counter = d]
    BY <2>1
  <2> HIDE DEF x
  <2>3. x \in Account /\ x.list = other /\ x.counter = d /\ x.equity = b.equity
    BY <2>2 DEF Account
  <2> QED BY <1>3, <2>1, <2>3
<1>10. o = [acc |-> Updated(Realized(x, p, price)), filled |-> amount - r.left + p.amount]
  <2>1. r.acc.list[i] = p /\ r.acc.counter = c
    BY <1>2, <1>3, <1>5
  <2>2. p.amount - r.left = n - left
    BY <1>6
  <2>3. [r.acc EXCEPT !.list[i] = [p EXCEPT !.id = r.acc.counter, !.amount = @ - r.left],
                      !.counter = @ + 1]
          = [b EXCEPT !.list[i] = rest, !.counter = c + 1]
    <3>1. [p EXCEPT !.id = r.acc.counter, !.amount = @ - r.left] = rest
      BY <1>7, <2>1, <2>2
    <3> QED BY <1>2, <1>3, <3>1
  <2>4. [b EXCEPT !.list[i] = rest, !.counter = c + 1] = x
    BY <1>3, <1>8
  <2> HIDE DEF x
  <2> QED BY <2>1, <2>3, <2>4 DEF ReduceFirst
<1> HIDE DEF x, o
<1>11. PICK y \in Account : /\ y = Realized(x, p, price) /\ y.list = other /\ y.counter = c + 1
                            /\ y.equity = e + CalculatePnl(p, price)
  <2>1. x \in Account /\ p \in Position
    BY <1>5, <1>9
  <2>2. PICK y : y = Realized(x, p, price)
    OBVIOUS
  <2>3. /\ y \in Account /\ y.list = x.list /\ y.counter = x.counter
        /\ y.equity = x.equity + CalculatePnl(p, price)
    BY <2>1, <2>2, RealizedIs
  <2> QED BY <1>9, <2>2, <2>3
<1>12. ASSUME NEW j \in 1 .. m, j # i
       PROVE  other[j] = s[j] /\ s[j].id \in Nat /\ s[j].id < c /\ s[j].id # p.id
  <2>1. s[j] \in Position /\ s[j].id < c
    <3>1. s[j] \in Position
      BY <1>3, <1>4
    <3>2. WellFormed(b)
      BY <1>1, <1>2
    <3> QED BY <1>3, <1>4, <3>1, <3>2 DEF WellFormed
  <2>2. s[j].id # p.id
    BY <1>1, <1>2, <1>3, <1>4, <1>5, <1>12 DEF WellFormed, Distinct
  <2> QED BY <1>8, <1>12, <2>1, <2>2 DEF Position
<1>13. p.id \in Nat /\ p.id < c
  BY <1>1, <1>2, <1>3, <1>4, <1>5 DEF WellFormed, Position
<1>14. WellFormed(y)
  <2>1. ASSUME NEW j \in DOMAIN other
        PROVE  other[j].id < c + 1
    <3>1. CASE j = i
      BY <1>3, <1>7, <1>8, <3>1
    <3>2. CASE j # i
      BY <1>3, <1>8, <1>12, <3>2
    <3> QED BY <3>1, <3>2
  <2>2. ASSUME NEW j \in DOMAIN other, NEW k \in DOMAIN other, other[j].id = other[k].id
        PROVE  j = k
    <3>1. CASE j = i /\ k # i
      <4>1. other[k].id < c /\ other[k].id \in Nat /\ other[j].id = c
        BY <1>7, <1>8, <1>12, <3>1
      <4> QED BY <2>2, <4>1
    <3>2. CASE j # i /\ k = i
      <4>1. other[j].id < c /\ other[j].id \in Nat /\ other[k].id = c
        BY <1>7, <1>8, <1>12, <3>2
      <4> QED BY <2>2, <4>1
    <3>3. CASE j # i /\ k # i
      BY <1>1, <1>2, <1>3, <1>4, <1>8, <2>2, <3>3 DEF WellFormed, Distinct
    <3> QED BY <3>1, <3>2, <3>3
  <2> QED BY <1>11, <2>1, <2>2 DEF WellFormed, Distinct
<1>15. PICK u : /\ u = Updated(y) /\ AccountInv(u) /\ Current(u)
                /\ u.equity = y.equity /\ u.list = other
  BY <1>11, <1>14, UpdatedIs
<1>16. o.acc = u /\ o.filled = amount - left + n
  BY <1>6, <1>10, <1>11, <1>15
<1>17. Reduced(a, u) = {rest}
  <2>1. ASSUME NEW z \in Reduced(a, u)
        PROVE  z = rest
    <3>1. PICK j \in 1 .. m : z = other[j]
      BY <1>8, <1>15 DEF Reduced, ToSet
    <3>2. z.id >= c
      BY <1>3 DEF Reduced
    <3>3. j = i
      BY <1>12, <3>1, <3>2
    <3> QED BY <1>8, <3>1, <3>3
  <2>2. rest \in ToSet(u.list) /\ rest.id >= a.counter
    <3>1. rest \in ToSet(other)
      BY <1>4, <1>8 DEF ToSet
    <3> QED BY <1>3, <1>7, <1>15, <3>1
  <2>3. p \in ToSet(a.list)
    BY <1>1, <1>2, <1>3, <1>4, <1>5 DEF ToSet
  <2>4. p.side = rest.side /\ p.open = rest.open /\ p.amount > rest.amount
    BY <1>6, <1>7
  <2>5. p.id \notin {z.id : z \in ToSet(u.list)}
    <3>1. ASSUME NEW z \in ToSet(other)
          PROVE  z.id # p.id
      <4>1. PICK j \in 1 .. m : z = other[j]
        BY <1>8 DEF ToSet
      <4>2. CASE j = i
        BY <1>7, <1>8, <1>13, <4>1, <4>2
      <4>3. CASE j # i
        BY <1>12, <4>1, <4>3
      <4> QED BY <4>2, <4>3
    <3> QED BY <1>15, <3>1
  <2>6. rest \in Reduced(a, u)
    BY <2>2, <2>3, <2>4, <2>5 DEF Reduced
  <2> QED BY <2>1, <2>6
<1>18. Twice(a, u, price) = CalculatePnl(rest, price)
  <2>1. (CHOOSE z \in {rest} : TRUE) = rest
    OBVIOUS
  <2> QED BY <1>17, <2>1 DEF Twice
<1>19. Worth(u, price) = Worth(a, price) + CalculatePnl(rest, price)
  <2>1. PICK v \in Int, w \in Int, t \in Int :
          v = CalculatePnl(p, price) /\ w = CalculatePnl(rest, price) /\ t = PnlOf(s, price)
    BY PnlIsInt, PnlsAre
  <2>2. PnlOf(other, price) = t - v + w
    <3>1. \A k \in 1 .. Len(s) : k # i => s[k] = other[k]
      BY <1>4, <1>8
    <3>2. PnlOf(other, price) = PnlOf(s, price) - CalculatePnl(s[i], price) + CalculatePnl(other[i], price)
      <4>1. s \in Seq(Position) /\ other \in Seq(Position) /\ Len(s) = Len(other) /\ i \in 1 .. Len(s)
        BY <1>3, <1>4, <1>8
      <4> QED BY <3>1, <4>1, PnlOfChanged
    <3> QED BY <1>5, <1>8, <2>1, <3>2
  <2>3. Worth(a, price) = e + t
    BY <1>1, <1>2, <1>3, <2>1, WorthIs
  <2>4. Worth(u, price) = (e + v) + (t - v + w)
    BY <1>11, <1>15, <2>1, <2>2, WorthIs
  <2>5. (e + v) + (t - v + w) = (e + t) + w
    OBVIOUS
  <2> QED BY <2>1, <2>3, <2>4, <2>5
<1>20. OneSided(u, a)
  <2>1. ASSUME NEW j \in DOMAIN other
        PROVE  other[j].side = s[j].side
    <3>1. CASE j = i
      BY <1>5, <1>7, <1>8, <3>1
    <3>2. CASE j # i
      BY <1>8, <3>2
    <3> QED BY <3>1, <3>2
  <2>2. \A j \in DOMAIN other : \E k \in DOMAIN a.list : other[j].side = a.list[k].side
    <3>1. ASSUME NEW j \in DOMAIN other
          PROVE  \E k \in DOMAIN a.list : other[j].side = a.list[k].side
      <4>1. j \in DOMAIN r.acc.list /\ r.acc.list[j] = s[j]
        BY <1>2, <1>3, <1>4, <1>8
      <4>2. PICK k \in DOMAIN a.list : r.acc.list[j] = a.list[k]
        BY <1>1, <4>1
      <4> QED BY <2>1, <4>1, <4>2
    <3> QED BY <3>1
  <2> QED BY <1>15, <2>2, HeldFrom
<1>21. Booked(o.acc, a, price) /\ OneSided(o.acc, a) /\ o.filled \in Int /\ Current(o.acc)
  <2>1. amount - left + n \in Int
    BY <1>6
  <2> QED BY <1>15, <1>16, <1>18, <1>19, <1>20, <2>1 DEF Booked
<1> QED BY <1>21 DEF o

\* The overall position is that of the list, or what it was: never so after reducing.
Reported(b, a, behavior) ==
    b = a \/ Current(b) \/ (b.overall = a.overall /\ behavior # "reduce")

LEMMA RecordFillIs ==
    ASSUME NEW a, AccountInv(a), NEW side \in Sides, NEW price \in Int, NEW amount \in Nat,
           NEW behavior
    PROVE  LET o == RecordFill(a, side, price, amount, behavior)
           IN  /\ Booked(o.acc, a, price) /\ o.filled \in Int
               /\ behavior # "hedge" => OneSided(o.acc, a)
               /\ Reported(o.acc, a, behavior)
<1> DEFINE r == IF behavior = "hedge" THEN [acc |-> a, left |-> amount]
                ELSE CloseOpposite(a, side, price, amount)
           others == {k \in DOMAIN r.acc.list : r.acc.list[k].side = ReverseSide(side)}
           o == RecordFill(a, side, price, amount, behavior)
           Wanted(x) == /\ Booked(x.acc, a, price) /\ x.filled \in Int
                        /\ behavior # "hedge" => OneSided(x.acc, a)
                        /\ Reported(x.acc, a, behavior)
<1>1. WellFormed(a) /\ amount \in Int
  BY DEF AccountInv
<1>2. Closer(r, a, side, price, amount) /\ (behavior # "hedge" => Outgrown(r, side))
  BY <1>1, NothingClosed, OppositeClosed
<1>3. /\ WellFormed(r.acc) /\ r.left \in 0 .. amount /\ DOMAIN r.acc.list = 1 .. Len(r.acc.list)
      /\ Len(r.acc.list) \in Nat /\ \A k \in DOMAIN r.acc.list : r.acc.list[k].side \in Sides
  <2> HIDE DEF r
  <2>1. WellFormed(r.acc) /\ r.left \in 0 .. amount
    BY <1>2 DEF Closer
  <2>2. PICK s \in Seq(Position) : s = r.acc.list
    BY <2>1 DEF WellFormed, Account
  <2>3. DOMAIN s = 1 .. Len(s) /\ Len(s) \in Nat /\ \A k \in DOMAIN s : s[k] \in Position
    OBVIOUS
  <2> QED BY <2>1, <2>2, <2>3 DEF Position
<1>4. Wanted([acc |-> a, filled |-> 0])
  <2>1. Closer([acc |-> a, left |-> amount], a, side, price, amount)
    BY <1>1, NothingClosed
  <2>2. PICK q : q = [acc |-> a, left |-> amount] /\ q.acc = a
    <3>1. [acc |-> a, left |-> amount].acc = a
      OBVIOUS
    <3> QED BY <3>1
  <2>3. Booked(a, a, price) /\ OneSided(a, a)
    BY <2>1, <2>2, CloserIsBooked
  <2> QED BY <2>3 DEF Reported
<1>5. ASSUME behavior # "hedge", r.left > 0, others # {}
      PROVE  Wanted(ReduceFirst(r, Min(others), price, amount))
  <2>1. Min(others) \in others
    <3>1. \E t \in others : \A q \in others : t <= q
      <4>1. others \in SUBSET (0 .. Len(r.acc.list))
        BY <1>3
      <4> HIDE DEF others
      <4> QED BY <1>3, <1>5, <4>1, LeastTimeExists
    <3> HIDE DEF others
    <3> QED BY <3>1 DEF Min
  <2>2. PICK i \in DOMAIN r.acc.list : i = Min(others) /\ r.acc.list[i].side # side
    BY <2>1 DEF Sides, ReverseSide
  <2> HIDE DEF r, others
  <2> QED BY <1>2, <1>5, <2>2, ReduceFirstIs DEF Reported
<1>6. Wanted([acc |-> Updated(r.acc), filled |-> amount - r.left])
  <2> HIDE DEF r
  <2>1. Booked(Updated(r.acc), a, price) /\ OneSided(Updated(r.acc), a) /\ Current(Updated(r.acc))
    BY <1>2, CloserIsBooked
  <2>2. amount - r.left \in Int
    BY <1>1, <1>3
  <2> QED BY <2>1, <2>2 DEF Reported
<1>7. ASSUME ~(behavior # "hedge" /\ r.left > 0 /\ others # {}), behavior # "reduce"
      PROVE  Wanted(OpenRest(r, side, price, amount))
  <2>1. CASE others = {} \/ behavior = "hedge"
    <3>1. others = {} => SideIs(r.acc.list, side)
      <4>1. ASSUME others = {}, NEW k \in DOMAIN r.acc.list
            PROVE  r.acc.list[k].side = side
        <5>1. r.acc.list[k].side # ReverseSide(side)
          BY <4>1
        <5> HIDE DEF r, others
        <5> QED BY <1>3, <5>1 DEF Sides, ReverseSide
      <4> QED BY <4>1 DEF SideIs
    <3> HIDE DEF r, others
    <3> DEFINE rest == OpenRest(r, side, price, amount)
    <3>2. /\ Booked(rest.acc, a, price) /\ rest.filled \in Int
          /\ SideIs(r.acc.list, side) => OneSided(rest.acc, a)
          /\ rest.acc.overall = a.overall
      BY <1>2, OpenRestIs
    <3> HIDE DEF rest
    <3>3. behavior # "hedge" => OneSided(rest.acc, a)
      BY <2>1, <3>1, <3>2
    <3>4. Reported(rest.acc, a, behavior)
      BY <1>7, <3>2 DEF Reported
    <3>5. Wanted(rest)
      BY <3>2, <3>3, <3>4
    <3> QED BY <3>5 DEF rest
  <2>2. CASE ~(r.left > 0)
    <3> HIDE DEF r, others
    <3>1. r.left = 0
      BY <1>3, <2>2
    <3>2. OpenRest(r, side, price, amount) = [acc |-> r.acc, filled |-> amount]
      BY <3>1 DEF OpenRest
    <3>3. Booked(r.acc, a, price) /\ OneSided(r.acc, a) /\ r.acc.overall = a.overall
      BY <1>2, CloserIsBooked DEF Closer
    <3> QED BY <1>1, <1>7, <3>2, <3>3 DEF Reported
  <2> QED BY <1>7, <2>1, <2>2
<1> HIDE DEF Wanted
<1>8. Wanted(o)
  <2>1. o = (IF Refused(a, side, price, amount, behavior) THEN [acc |-> a, filled |-> 0]
             ELSE IF behavior # "hedge" /\ r.left > 0 /\ others # {}
             THEN ReduceFirst(r, Min(others), price, amount)
             ELSE IF behavior = "reduce" THEN [acc |-> Updated(r.acc), filled |-> amount - r.left]
             ELSE OpenRest(r, side, price, amount))
    BY DEF RecordFill
  <2> HIDE DEF r, others, o
  <2> QED BY <1>4, <1>5, <1>6, <1>7, <2>1
<1> QED BY <1>8 DEF Wanted

LEMMA ClosePositionIs ==
    ASSUME NEW a, AccountInv(a), NEW id, NEW price \in Int
    PROVE  LET o == ClosePosition(a, id, price)
           IN  /\ Booked(o.acc, a, price) /\ OneSided(o.acc, a)
               /\ Twice(a, o.acc, price) = 0
               /\ o.acc = a \/ Current(o.acc)
<1> DEFINE places == {k \in DOMAIN a.list : Chosen(id, a.list[k])}
           o == ClosePosition(a, id, price)
           r == [acc |-> Closed(a, places, price), left |-> 0]
           Wanted(x) == /\ Booked(x, a, price) /\ OneSided(x, a) /\ Twice(a, x, price) = 0
                        /\ x = a \/ Current(x)
<1>1. WellFormed(a)
  BY DEF AccountInv
<1>2. Wanted(a)
  <2>1. PICK q : q = [acc |-> a, left |-> 0] /\ q.acc = a
    <3>1. [acc |-> a, left |-> 0].acc = a
      OBVIOUS
    <3> QED BY <3>1
  <2>2. Closer(q, a, "buy", price, 0)
    BY <1>1, <2>1, NothingClosed
  <2> QED BY <2>1, <2>2, CloserIsBooked
<1>3. Wanted(Updated(Closed(a, places, price)))
  <2> HIDE DEF places
  <2>1. PICK c : c = Closed(a, places, price)
    OBVIOUS
  <2>2. Settled(c, a, places, price)
    BY <1>1, <2>1, ClosedIs
  <2>3. WellFormed(c) /\ \A j \in DOMAIN c.list : \E k \in DOMAIN a.list : c.list[j] = a.list[k]
    BY <1>1, <2>2, SettledIsWellFormed
  <2>4. Closer([acc |-> c, left |-> 0], a, "none", price, 0)
    <3>1. \A k \in DOMAIN a.list : a.list[k] \in Position
      BY <1>1 DEF WellFormed, Account
    <3>2. \A k \in DOMAIN a.list : a.list[k].side # "none"
      BY <3>1 DEF Position, Sides
    <3> QED BY <2>2, <2>3, <3>2 DEF Closer, Settled
  <2>5. PICK q : q = [acc |-> c, left |-> 0] /\ q.acc = c
    <3>1. [acc |-> c, left |-> 0].acc = c
      OBVIOUS
    <3> QED BY <3>1
  <2>6. /\ Booked(Updated(c), a, price) /\ OneSided(Updated(c), a) /\ Twice(a, Updated(c), price) = 0
        /\ Current(Updated(c))
    BY <2>4, <2>5, CloserIsBooked
  <2> QED BY <2>1, <2>6
<1>4. o.acc = a \/ o.acc = Updated(Closed(a, places, price))
  BY DEF ClosePosition
<1> HIDE DEF places, o
<1>5. Wanted(o.acc)
  <2> HIDE DEF Wanted
  <2> QED BY <1>2, <1>3, <1>4
<1> QED BY <1>5 DEF o
-----------------------------------------------------------------------------
(* Amounts *)

LEMMA LotsAre ==
    ASSUME NEW n \in Int
    PROVE  /\ AdjustLot(n) \in Int /\ AdjustLotDown(n) \in Int
           /\ AdjustLotUp(n) \in Int /\ AdjustLotUp(n) >= n
<1>1. PICK lot \in Nat \ {0} : lot = Config.lot
  BY ConfigIsPositive
<1>2. 2 * lot \in Nat \ {0} /\ 2 * n + lot \in Int
  OBVIOUS
<1>3. \A x \in Int : x \div lot \in Int /\ (x \div lot) * lot \in Int /\ (x \div lot) * lot <= x
  OBVIOUS
<1>4. AdjustLotDown(n) \in Int /\ AdjustLotUp(n) \in Int /\ AdjustLotUp(n) >= n
  <2>1. PICK x \in Int : x = ((-n) \div lot) * lot /\ x <= -n
    BY <1>3
  <2>2. AdjustLotUp(n) = -x
    BY <1>1, <2>1 DEF AdjustLotUp, AdjustLotDown
  <2>3. AdjustLotDown(n) \in Int
    BY <1>1, <1>3 DEF AdjustLotDown
  <2> QED BY <2>1, <2>2, <2>3
<1>5. AdjustLot(n) \in Int
  <2>1. PICK x \in Int : x = (2 * n + lot) \div (2 * lot)
    BY <1>2
  <2>2. AdjustLot(n) = x * lot
    BY <1>1, <2>1 DEF AdjustLot
  <2> QED BY <2>2
<1> QED BY <1>4, <1>5

LEMMA LotValueIs ==
    ASSUME NEW price \in Nat
    PROVE  LotValue(price) \in Nat /\ (price # 0 => LotValue(price) # 0)
<1>1. PICK m \in Nat \ {0}, f \in Nat \ {0} : m = Config.multiplier /\ f = Config.factor
  BY ConfigIsPositive
<1>2. PICK q \in Nat : q = QuotationToPrice(price) /\ (price # 0 => q # 0)
  <2>1. price * f \in Nat /\ (price # 0 => price * f # 0)
    OBVIOUS
  <2> QED BY <1>1, <2>1 DEF QuotationToPrice
<1>3. q * m \in Nat /\ (q # 0 => q * m # 0)
  OBVIOUS
<1> QED BY <1>1, <1>2, <1>3 DEF LotValue, LotToAmount

\* A price at which a least volume can be made up.
Fillable(price) == price \in Nat /\ (price # 0 \/ Config.minVolume = 0)

LEMMA LargerIs ==
    ASSUME NEW x \in Int, NEW y \in Int
    PROVE  Larger(x, y) \in Int /\ Larger(x, y) >= x /\ Larger(x, y) >= y
BY DEF Larger

LEMMA MinLotsIs ==
    ASSUME NEW price, Fillable(price)
    PROVE  MinLots(price) \in Int /\ MinLots(price) > 0
<1>1. PICK size \in Nat, lot \in Nat \ {0}, volume \in Nat :
        size = Config.minSize /\ lot = Config.lot /\ volume = Config.minVolume
  BY ConfigIsPositive
<1>2. PICK x \in Int : x = AdjustLotUp(Larger(size, lot)) /\ x > 0
  <2>1. PICK z \in Int : z = Larger(size, lot) /\ z >= lot
    BY LargerIs
  <2>2. AdjustLotUp(z) \in Int /\ AdjustLotUp(z) >= z
    BY LotsAre
  <2> QED BY <2>1, <2>2
<1>3. PICK y \in Int : y = IF volume = 0 THEN 0 ELSE AdjustLotUp(-((-volume) \div LotValue(price)))
  <2>1. CASE volume = 0
    BY <2>1
  <2>2. CASE volume # 0
    <3>1. PICK v \in Nat \ {0} : v = LotValue(price)
      BY <1>1, <2>2, LotValueIs DEF Fillable
    <3>2. -((-volume) \div v) \in Int
      OBVIOUS
    <3> QED BY <2>2, <3>1, <3>2, LotsAre
  <2> QED BY <2>1, <2>2
<1>4. MinLots(price) = Larger(x, y)
  BY <1>1, <1>2, <1>3 DEF MinLots
<1>5. Larger(x, y) \in Int /\ Larger(x, y) >= x
  BY LargerIs
<1> QED BY <1>2, <1>4, <1>5

LEMMA AmountIs ==
    ASSUME NEW price, Fillable(price), NEW size \in Int
    PROVE  /\ AdjustAmount(price, size, FALSE) \in Nat \ {0}
           /\ \A isVolume : price # 0 => AdjustAmount(price, size, isVolume) \in Int
<1>1. PICK x \in Int : x = MinLots(price) /\ x > 0
  BY MinLotsIs
<1>2. PICK y \in Int : y = AdjustLot(size)
  BY LotsAre
<1>3. Larger(x, y) \in Int /\ Larger(x, y) >= x
  BY LargerIs
<1>4. AdjustAmount(price, size, FALSE) = Larger(x, y)
  BY <1>1, <1>2 DEF AdjustAmount
<1>5. ASSUME NEW isVolume, price # 0
      PROVE  AdjustAmount(price, size, isVolume) \in Int
  <2>1. CASE isVolume
    <3>1. PICK v \in Nat \ {0} : v = LotValue(price)
      BY <1>5, LotValueIs DEF Fillable
    <3>2. size \div v \in Int
      OBVIOUS
    <3>3. PICK z \in Int : z = AdjustLotDown(size \div LotValue(price))
      BY <3>1, <3>2, LotsAre
    <3>4. AdjustAmount(price, size, isVolume) \in {0, z}
      BY <2>1, <3>3 DEF AdjustAmount
    <3> QED BY <3>4
  <2>2. CASE ~isVolume
    <3>1. AdjustAmount(price, size, isVolume) = Larger(x, y)
      BY <1>1, <1>2, <2>2 DEF AdjustAmount
    <3> QED BY <1>3, <3>1
  <2> QED BY <2>1, <2>2
<1>6. Larger(x, y) \in Nat \ {0}
  BY <1>1, <1>3
<1> QED BY <1>4, <1>5, <1>6
-----------------------------------------------------------------------------
(* Outcomes of orders *)

QuoteInv ==
    /\ {ticker.bid, ticker.bidVolume, ticker.ask, ticker.askVolume} \subseteq Nat
    /\ ticker.bidVolume # 0 => ticker.bid # 0
    /\ ticker.askVolume # 0 => ticker.ask # 0

Reasons == {"no_reason", "unsupported", "not_found", "low_liquidity", "too_small", "no_funds",
            "crossing"}
Status == [state : States \cup {Pending}, reason : Reasons, filled : Int, reports : Nat]

\* The inductive invariant: what the order of one outcome rests on is that the account stays
\* well formed, and that a quoted volume has a price.
BackendInv ==
    /\ QuoteInv
    /\ AccountInv(account)
    /\ order \in Seq(Status) /\ active \subseteq DOMAIN order
    /\ OneOutcome

LEMMA InfoIs ==
    ASSUME QuoteInv, NEW side
    PROVE  /\ TickerInfo(side).price \in Nat /\ TickerInfo(side).volume \in Nat
           /\ TickerInfo(side).volume # 0 => TickerInfo(side).price # 0 /\ side \in Sides
BY DEF TickerInfo, QuoteInv, Sides

\* What an order can come to.
Fair(s, o) ==
    /\ o.state \in {"rejected", "filled", Pending} /\ o.reason \in Reasons /\ o.filled \in Int
    /\ o.state = "filled" => o.filled > 0
    /\ o.state = "rejected" => o.filled = 0 /\ o.reason # "no_reason"
    /\ AccountInv(o.acc)

ByFill(s, o) ==
    /\ s.type \in {"Market", "Limit"}
    /\ TickerInfo(s.side).price \in Int
    /\ Booked(o.acc, account, TickerInfo(s.side).price)
    /\ s.behavior # "hedge" => OneSided(o.acc, account)
    /\ Reported(o.acc, account, s.behavior)

CloseSide(s) == ReverseSide(PositionById(account, s.id).side)
ByClosing(s, o) ==
    /\ s.type = "ClosePosition"
    /\ TickerInfo(CloseSide(s)).price \in Int
    /\ Booked(o.acc, account, TickerInfo(CloseSide(s)).price)
    /\ Twice(account, o.acc, TickerInfo(CloseSide(s)).price) = 0
    /\ OneSided(o.acc, account)
    /\ o.acc = account \/ Current(o.acc)

LEMMA MarketIs ==
    ASSUME QuoteInv, AccountInv(account), NEW s \in Setups, s.type = "Market"
    PROVE  LET o == TryMarket(s)
           IN  Fair(s, o) /\ (o.acc = account \/ ByFill(s, o))
<1> DEFINE quote == TickerInfo(s.side)
           amount == AdjustLot(AdjustAmount(quote.price, s.amount, s.isVolume))
           r == RecordFill(account, s.side, quote.price, amount, s.behavior)
           o == TryMarket(s)
<1> SUFFICES Fair(s, o) /\ (o.acc = account \/ ByFill(s, o))
  OBVIOUS
<1> HIDE DEF o
<1>1. quote.price \in Nat /\ (quote.volume # 0 => quote.price # 0 /\ s.side \in Sides)
  BY InfoIs
<1>2. s.amount \in Int
  BY SetupTypes
<1>3. CASE quote.volume = 0
  <2>1. o = Reject("low_liquidity")
    BY <1>3 DEF o, TryMarket
  <2> QED BY <2>1 DEF Fair, Reasons, Reject, Outcome
<1>4. CASE amount <= 0 /\ quote.volume # 0
  <2>1. o = Reject("too_small")
    BY <1>4 DEF o, TryMarket
  <2> QED BY <2>1 DEF Fair, Reasons, Reject, Outcome
<1>5. CASE quote.volume # 0 /\ ~(amount <= 0)
  <2>1. amount \in Nat
    <3>1. Fillable(quote.price) /\ quote.price # 0
      BY <1>1, <1>5 DEF Fillable
    <3>2. AdjustAmount(quote.price, s.amount, s.isVolume) \in Int
      <4> HIDE DEF quote
      <4> QED BY <1>2, <3>1, AmountIs
    <3>3. amount \in Int
      BY <3>2, LotsAre
    <3> QED BY <1>5, <3>3
  <2>2. /\ Booked(r.acc, account, quote.price) /\ r.filled \in Int
        /\ s.behavior # "hedge" => OneSided(r.acc, account)
        /\ Reported(r.acc, account, s.behavior)
    <3>1. quote.price \in Int /\ s.side \in Sides
      BY <1>1, <1>5
    <3> HIDE DEF quote, amount
    <3> QED BY <2>1, <3>1, RecordFillIs
  <2>3. o = IF r.filled <= 0 THEN [Reject("no_funds") EXCEPT !.acc = r.acc]
            ELSE Outcome("filled", "no_reason", r.filled, r.acc)
    BY <1>5 DEF o, TryMarket
  <2> HIDE DEF r, amount
  <2>4. o.acc = r.acc
    BY <2>3 DEF Reject, Outcome
  <2>5. Fair(s, o)
    <3>1. AccountInv(o.acc)
      BY <2>2, <2>4 DEF Booked
    <3>2. CASE r.filled <= 0
      <4>1. o.state = "rejected" /\ o.reason = "no_funds" /\ o.filled = 0
        BY <2>3, <3>2 DEF Reject, Outcome
      <4> QED BY <3>1, <4>1 DEF Fair, Reasons
    <3>3. CASE ~(r.filled <= 0)
      <4>1. o.state = "filled" /\ o.reason = "no_reason" /\ o.filled = r.filled
        BY <2>3, <3>3 DEF Outcome
      <4> QED BY <2>2, <3>1, <3>3, <4>1 DEF Fair, Reasons
    <3> QED BY <3>2, <3>3
  <2> QED BY <1>1, <2>2, <2>4, <2>5 DEF ByFill
<1> QED BY <1>3, <1>4, <1>5

LEMMA LimitIs ==
    ASSUME QuoteInv, AccountInv(account), NEW s \in Setups, s.type = "Limit", Priced(s)
    PROVE  LET o == TryLimit(s)
           IN  Fair(s, o) /\ (o.acc = account \/ ByFill(s, o))
<1> DEFINE quote == TickerInfo(s.side)
           wanted == AdjustAmount(quote.price, s.amount, s.isVolume)
           amount == Larger(wanted, quote.volume)
           r == RecordFill(account, s.side, quote.price, amount, s.behavior)
           o == TryLimit(s)
<1> SUFFICES Fair(s, o) /\ (o.acc = account \/ ByFill(s, o))
  OBVIOUS
<1> HIDE DEF o
<1>1. quote.price \in Nat /\ quote.volume \in Nat
  BY InfoIs
<1>2. s.amount \in Int /\ Config.minVolume = 0
  BY SetupTypes, NoVolumeAtZero
<1>3. CASE wanted <= 0 \/ ~Crosses(s)
  <2>1. o = Reject("too_small")
    BY <1>3 DEF o, TryLimit
  <2> QED BY <2>1 DEF Fair, Reasons, Reject, Outcome
<1>4. CASE ~(wanted <= 0) /\ Crosses(s)
  <2>1. amount \in Nat
    <3>1. PICK x \in Int : x = wanted
      <4>1. Fillable(quote.price) /\ (s.isVolume => quote.price # 0) /\ s.isVolume \in BOOLEAN
        BY <1>1, <1>2, SetupTypes DEF Fillable, Priced
      <4>2. /\ AdjustAmount(quote.price, s.amount, FALSE) \in Nat \ {0}
            /\ \A isVolume : quote.price # 0 =>
                   AdjustAmount(quote.price, s.amount, isVolume) \in Int
        <5> HIDE DEF quote
        <5> QED BY <1>2, <4>1, AmountIs
      <4>3. ASSUME s.isVolume
            PROVE  AdjustAmount(quote.price, s.amount, s.isVolume) \in Int
        <5> HIDE DEF quote
        <5> QED BY <4>1, <4>2, <4>3
      <4>4. CASE ~s.isVolume
        <5>1. s.isVolume = FALSE
          BY <4>1, <4>4
        <5> HIDE DEF quote
        <5>2. PICK n \in Nat : n = AdjustAmount(quote.price, s.amount, FALSE)
          BY <4>2, Zenon
        <5>3. n = wanted
          BY <5>1, <5>2, Zenon
        <5>4. \A k \in Nat : k \in Int
          OBVIOUS
        <5> HIDE DEF wanted
        <5> QED BY <5>2, <5>3, <5>4, Zenon
      <4>5. CASE s.isVolume
        <5>1. wanted \in Int
          BY <4>3, <4>5
        <5> HIDE DEF wanted
        <5> QED BY <5>1
      <4> QED BY <4>4, <4>5
    <3> HIDE DEF quote, wanted
    <3> QED BY <1>1, <1>4, <3>1 DEF Larger
  <2>2. /\ Booked(r.acc, account, quote.price) /\ r.filled \in Int
        /\ s.behavior # "hedge" => OneSided(r.acc, account)
        /\ Reported(r.acc, account, s.behavior)
    <3>1. quote.price \in Int /\ s.side \in Sides
      BY <1>1, <1>4 DEF Crosses, Sides
    <3> HIDE DEF quote, amount
    <3> QED BY <2>1, <3>1, RecordFillIs
  <2>3. o = IF r.filled <= 0 THEN [Reject("no_funds") EXCEPT !.acc = r.acc]
            ELSE Outcome(Pending, "no_reason", quote.price, r.acc)
    BY <1>4 DEF o, TryLimit
  <2> HIDE DEF r, amount
  <2>4. o.acc = r.acc
    BY <2>3 DEF Reject, Outcome
  <2>5. Fair(s, o)
    <3>1. AccountInv(o.acc)
      BY <2>2, <2>4 DEF Booked
    <3>2. CASE r.filled <= 0
      <4>1. o.state = "rejected" /\ o.reason = "no_funds" /\ o.filled = 0
        BY <2>3, <3>2 DEF Reject, Outcome
      <4> QED BY <3>1, <4>1 DEF Fair, Reasons
    <3>3. CASE ~(r.filled <= 0)
      <4>1. o.state = Pending /\ o.reason = "no_reason" /\ o.filled = quote.price
        BY <2>3, <3>3 DEF Outcome
      <4> QED BY <1>1, <3>1, <4>1 DEF Fair, Reasons, Pending
    <3> QED BY <3>2, <3>3
  <2> QED BY <1>1, <2>2, <2>4, <2>5 DEF ByFill
<1> QED BY <1>3, <1>4

\* A position that is found, on a side that can be traded, has an amount.
LEMMA FoundIs ==
    ASSUME NEW a, AccountInv(a), NEW id \in Int, NEW price,
           PositionById(a, id).side \in Sides, ClosePosition(a, id, price).done
    PROVE  PositionById(a, id).amount \in Int /\ PositionById(a, id).amount > 0
<1> DEFINE pos == PositionById(a, id)
           places == {k \in DOMAIN a.list : Chosen(id, a.list[k])}
           found == {k \in DOMAIN a.list : a.list[k].id = id}
<1>1. /\ a.list \in Seq(Position) /\ DOMAIN a.list = 1 .. Len(a.list) /\ Len(a.list) \in Nat
      /\ a.overall.amount \in Int /\ (a.overall.side \in Sides => a.overall.amount > 0)
      /\ \A k \in DOMAIN a.list : a.list[k] \in Position
  BY DEF AccountInv, WellFormed, OverallOk, Account, Overall
<1>2. PICK k \in DOMAIN a.list : Chosen(id, a.list[k])
  BY DEF ClosePosition
<1>3. CASE id = OverallPosition
  <2>1. pos = a.overall
    BY <1>3 DEF PositionById, GetPosition, OverallPosition, BuyPosition, SellPosition
  <2> QED BY <1>1, <2>1
<1>4. CASE id = BuyPosition
  <2>1. a.list[k].side = "buy"
    BY <1>2, <1>4 DEF Chosen, OverallPosition, BuyPosition, SellPosition
  <2>2. pos.amount = HedgeSide(a.list, "buy").pos
    BY <1>4 DEF PositionById, OverallPosition, BuyPosition, SellPosition
  <2>3. PICK x \in Int : x = HedgeSide(a.list, "buy").pos /\ Sign("buy") * x > 0
    BY <1>1, <2>1, HedgeIsPositive DEF Sides
  <2>4. Sign("buy") = 1
    BY DEF Sign
  <2>5. x > 0
    BY <2>3, <2>4
  <2> QED BY <2>2, <2>3, <2>5
<1>5. CASE id = SellPosition
  <2>1. a.list[k].side = "sell"
    BY <1>2, <1>5 DEF Chosen, OverallPosition, BuyPosition, SellPosition
  <2>2. pos.amount = - HedgeSide(a.list, "sell").pos
    BY <1>5 DEF PositionById, OverallPosition, BuyPosition, SellPosition
  <2>3. PICK x \in Int : x = HedgeSide(a.list, "sell").pos /\ Sign("sell") * x > 0
    BY <1>1, <2>1, HedgeIsPositive DEF Sides
  <2>4. Sign("sell") = -1
    BY DEF Sign
  <2>5. -x > 0
    BY <2>3, <2>4
  <2> QED BY <2>2, <2>3, <2>5
<1>6. CASE id \notin {OverallPosition, BuyPosition, SellPosition}
  <2>1. found # {}
    BY <1>2, <1>6 DEF Chosen
  <2>2. Min(found) \in found
    <3>1. \E t \in found : \A q \in found : t <= q
      <4>1. found \in SUBSET (0 .. Len(a.list))
        BY <1>1
      <4> HIDE DEF found
      <4> QED BY <1>1, <2>1, <4>1, LeastTimeExists
    <3> HIDE DEF found
    <3> QED BY <3>1 DEF Min
  <2>3. pos = a.list[Min(found)]
    BY <1>6, <2>1 DEF PositionById
  <2>4. pos \in Position
    BY <1>1, <2>2, <2>3
  <2>5. pos.amount \in Nat \ {0}
    <3> HIDE DEF pos
    <3> QED BY <2>4 DEF Position
  <2> QED BY <2>5
<1> QED BY <1>3, <1>4, <1>5, <1>6

LEMMA ClosingIs ==
    ASSUME QuoteInv, AccountInv(account), NEW s \in Setups, s.type = "ClosePosition"
    PROVE  LET o == TryClosePosition(s)
           IN  Fair(s, o) /\ (o.acc = account \/ ByClosing(s, o))
<1> DEFINE pos == PositionById(account, s.id)
           quote == TickerInfo(CloseSide(s))
           r == ClosePosition(account, s.id, quote.price)
           o == TryClosePosition(s)
<1> SUFFICES Fair(s, o) /\ (o.acc = account \/ ByClosing(s, o))
  OBVIOUS
<1> HIDE DEF o
<1>1. quote.price \in Nat /\ (quote.volume # 0 => CloseSide(s) \in Sides)
  BY InfoIs
<1>2. s.id \in Int
  BY SetupTypes
<1>3. CASE pos.id # s.id
  <2>1. o = Reject("not_found")
    BY <1>3 DEF o, TryClosePosition
  <2> QED BY <2>1 DEF Fair, Reasons, Reject, Outcome
<1>4. CASE quote.volume = 0 /\ pos.id = s.id
  <2>1. o = Reject("low_liquidity")
    BY <1>4 DEF o, TryClosePosition, CloseSide
  <2> QED BY <2>1 DEF Fair, Reasons, Reject, Outcome
<1>5. CASE pos.id = s.id /\ quote.volume # 0
  <2>1. /\ Booked(r.acc, account, quote.price) /\ OneSided(r.acc, account)
        /\ Twice(account, r.acc, quote.price) = 0
        /\ r.acc = account \/ Current(r.acc)
    <3> HIDE DEF quote
    <3> QED BY <1>1, ClosePositionIs
  <2>2. o = IF ~r.done THEN [Reject("not_found") EXCEPT !.acc = r.acc]
            ELSE Outcome("filled", "no_reason", pos.amount, r.acc)
    BY <1>5 DEF o, TryClosePosition, CloseSide
  <2>3. r.done => pos.amount \in Int /\ pos.amount > 0
    <3>1. pos.side \in Sides
      BY <1>1, <1>5 DEF CloseSide, ReverseSide, Sides
    <3> QED BY <1>2, <3>1, FoundIs
  <2> HIDE DEF r
  <2>4. o.acc = r.acc
    BY <2>2 DEF Reject, Outcome
  <2>5. Fair(s, o)
    <3>1. AccountInv(o.acc)
      BY <2>1, <2>4 DEF Booked
    <3>2. CASE ~r.done
      <4>1. o.state = "rejected" /\ o.reason = "not_found" /\ o.filled = 0
        BY <2>2, <3>2 DEF Reject, Outcome
      <4> QED BY <3>1, <4>1 DEF Fair, Reasons
    <3>3. CASE r.done
      <4>1. o.state = "filled" /\ o.reason = "no_reason" /\ o.filled = pos.amount
        BY <2>2, <3>3 DEF Outcome
      <4> QED BY <2>3, <3>1, <3>3, <4>1 DEF Fair, Reasons
    <3> QED BY <3>2, <3>3
  <2> QED BY <1>1, <2>1, <2>4, <2>5 DEF ByClosing
<1> QED BY <1>3, <1>4, <1>5

LEMMA OutcomeIs ==
    ASSUME QuoteInv, AccountInv(account), NEW s \in Setups, Priced(s)
    PROVE  LET o == TryMarketOrder(s)
           IN  Fair(s, o) /\ (o.acc = account \/ ByFill(s, o) \/ ByClosing(s, o))
<1> DEFINE o == TryMarketOrder(s)
<1> SUFFICES Fair(s, o) /\ (o.acc = account \/ ByFill(s, o) \/ ByClosing(s, o))
  OBVIOUS
<1> HIDE DEF o
<1>1. CASE s.type = "Market"
  <2>1. o = TryMarket(s)
    BY <1>1 DEF o, TryMarketOrder
  <2> QED BY <1>1, <2>1, MarketIs
<1>2. CASE s.type = "Limit"
  <2>1. o = TryLimit(s)
    BY <1>2 DEF o, TryMarketOrder
  <2> QED BY <1>2, <2>1, LimitIs
<1>3. CASE s.type = "ClosePosition"
  <2>1. o = TryClosePosition(s)
    BY <1>3 DEF o, TryMarketOrder
  <2> QED BY <1>3, <2>1, ClosingIs
<1>4. CASE s.type \notin {"Market", "Limit", "ClosePosition"}
  <2>1. o = Accept \/ o = Reject("crossing") \/ o = Reject("unsupported")
    BY <1>4 DEF o, TryMarketOrder
  <2> QED BY <2>1 DEF Fair, Reasons, Accept, Reject, Outcome, Pending
<1> QED BY <1>1, <1>2, <1>3, <1>4
-----------------------------------------------------------------------------
(* The theorems *)

\* The parts of OneOutcome for one order.
OrderInv(i, st, among) ==
    /\ i \in among <=> ~IsDone(st.state)
    /\ st.reports <= (IF st.state = "canceled" THEN 2 ELSE 1)
    /\ st.state = "filled" => st.filled > 0
    /\ st.state = "rejected" => st.filled = 0 /\ st.reason # "no_reason"

LEMMA OneOutcomeIs == OneOutcome <=> \A i \in DOMAIN order : OrderInv(i, order[i], active)
BY DEF OneOutcome, OrderInv

\* Another order, that is active or not, keeps the invariant of all.
LEMMA OrderAdded ==
    ASSUME BackendInv, NEW st \in Status, order' = Append(order, st),
           active' \in {active, active \cup {Len(order) + 1}},
           OrderInv(Len(order) + 1, st, active')
    PROVE  order' \in Seq(Status) /\ active' \subseteq DOMAIN order' /\ OneOutcome'
<1>1. /\ order \in Seq(Status) /\ active \subseteq DOMAIN order
      /\ \A i \in DOMAIN order : OrderInv(i, order[i], active)
  BY OneOutcomeIs DEF BackendInv
<1>2. PICK n \in Nat : n = Len(order) /\ DOMAIN order = 1 .. n
  BY <1>1
<1>3. /\ order' \in Seq(Status) /\ DOMAIN order' = 1 .. (n + 1) /\ order'[n + 1] = st
      /\ \A i \in 1 .. n : order'[i] = order[i]
  BY <1>1, <1>2
<1>4. n + 1 \notin 1 .. n /\ 1 .. n \subseteq 1 .. (n + 1) /\ n + 1 \in 1 .. (n + 1)
  BY <1>2
<1>5. active' \subseteq DOMAIN order'
  BY <1>1, <1>2, <1>3, <1>4
<1>6. ASSUME NEW i \in DOMAIN order'
      PROVE  OrderInv(i, order'[i], active')
  <2>1. CASE i = n + 1
    BY <1>2, <1>3, <2>1
  <2>2. CASE i \in 1 .. n
    <3>1. i \in active' <=> i \in active
      BY <1>2, <1>4, <2>2
    <3>2. OrderInv(i, order[i], active) /\ order'[i] = order[i]
      BY <1>1, <1>2, <1>3, <2>2
    <3> QED BY <3>1, <3>2 DEF OrderInv
  <2> QED BY <1>3, <2>1, <2>2
<1>7. OneOutcome'
  BY <1>6 DEF OneOutcome, OrderInv
<1> QED BY <1>3, <1>5, <1>7

LEMMA ReportIs ==
    ASSUME NEW st \in Status, NEW state \in States \cup {Pending}, NEW reason \in Reasons
    PROVE  LET new == UpdateReport(st, state, reason)
           IN  /\ new \in Status /\ new.state = state /\ new.reason = reason
               /\ new.filled = st.filled /\ new.reports = st.reports + 1
<1>1. PICK m \in Nat : m = st.reports + 1
  BY DEF Status
<1>2. UpdateReport(st, state, reason) = [st EXCEPT !.state = state, !.reason = reason, !.reports = m]
  BY <1>1 DEF UpdateReport
<1> QED BY <1>1, <1>2 DEF Status

LEMMA NewStatusIs == NewStatus \in Status /\ NewStatus.filled = 0 /\ NewStatus.reports = 0
BY DEF NewStatus, Status, States, Reasons

\* What an order's owner is told of a fair outcome.
LEMMA ToldIs ==
    ASSUME NEW s, NEW o, Fair(s, o), NEW i, NEW among, i \in among <=> o.state = Pending
    PROVE  Told(NewStatus, o) \in Status /\ OrderInv(i, Told(NewStatus, o), among)
<1>1. PICK t \in Status :
        /\ t = Told(NewStatus, o)
        /\ t.state = o.state /\ t.reason = o.reason /\ t.reports = 1 /\ t.filled = o.filled
  <2>1. PICK f \in Int : f = o.filled
    BY DEF Fair
  <2>2. PICK n \in Status :
          /\ n = (IF o.filled # 0 THEN AddFill(NewStatus, o.filled) ELSE NewStatus)
          /\ n.filled = f /\ n.reports = 0
    <3>1. [NewStatus EXCEPT !.filled = f] \in Status /\ [NewStatus EXCEPT !.filled = f].filled = f
          /\ [NewStatus EXCEPT !.filled = f].reports = 0
      BY NewStatusIs DEF Status
    <3>2. AddFill(NewStatus, f) = [NewStatus EXCEPT !.filled = f]
      BY NewStatusIs DEF AddFill
    <3> QED BY <2>1, <3>1, <3>2, NewStatusIs
  <2>3. o.state \in States \cup {Pending} /\ o.reason \in Reasons
    BY DEF Fair, States
  <2>4. Told(NewStatus, o) = UpdateReport(n, o.state, o.reason)
    BY <2>2 DEF Told
  <2>5. PICK t \in Status : /\ t = UpdateReport(n, o.state, o.reason)
                            /\ t.state = o.state /\ t.reason = o.reason
                            /\ t.filled = n.filled /\ t.reports = n.reports + 1
    <3>1. PICK st \in States \cup {Pending}, rs \in Reasons : st = o.state /\ rs = o.reason
      BY <2>3
    <3>2. PICK t : t = UpdateReport(n, st, rs)
      OBVIOUS
    <3>3. /\ t \in Status /\ t.state = st /\ t.reason = rs
          /\ t.filled = n.filled /\ t.reports = n.reports + 1
      BY <2>2, <3>1, <3>2, ReportIs
    <3> QED BY <3>1, <3>2, <3>3
  <2>6. t.reports = 1
    BY <2>2, <2>5
  <2> QED BY <2>1, <2>2, <2>4, <2>5, <2>6
<1>2. i \in among <=> ~IsDone(t.state)
  BY <1>1 DEF Fair, IsDone, States, Pending
<1> QED BY <1>1, <1>2 DEF Fair, OrderInv, Pending

LEMMA InvInit == BackendInit => BackendInv
<1> SUFFICES ASSUME BackendInit
             PROVE  BackendInv
  OBVIOUS
<1>1. QuoteInv
  BY DEF BackendInit, QuoteInv, NoQuote
<1>2. AccountInv(account)
  <2>1. <<>> \in Seq(Position) /\ DOMAIN <<>> = {}
    OBVIOUS
  <2>2. NoOverall \in Overall /\ NoOverall.side \notin Sides
    BY DEF NoOverall, NoTrades, Overall, Acb, Sides
  <2>3. account = [equity |-> Equity, counter |-> 1, list |-> <<>>, overall |-> NoOverall]
    BY DEF BackendInit
  <2>4. /\ account \in Account /\ account.list = <<>> /\ account.overall = NoOverall
    <3> HIDE DEF Overall
    <3> QED BY <2>1, <2>2, <2>3, SimulatorBounds DEF Account
  <2> QED BY <2>1, <2>2, <2>4 DEF AccountInv, WellFormed, OverallOk, Distinct
<1>3. order = <<>> /\ active = {} /\ DOMAIN <<>> = {}
  BY DEF BackendInit
<1>4. <<>> \in Seq(Status)
  OBVIOUS
<1> QED BY <1>1, <1>2, <1>3, <1>4 DEF BackendInv, OneOutcome

LEMMA InvNext == BackendInv /\ [BackendNext]_backendVars => BackendInv'
<1> SUFFICES ASSUME BackendInv, [BackendNext]_backendVars
             PROVE  BackendInv'
  OBVIOUS
<1>1. /\ QuoteInv /\ AccountInv(account) /\ order \in Seq(Status) /\ active \subseteq DOMAIN order
      /\ OneOutcome /\ \A i \in DOMAIN order : OrderInv(i, order[i], active)
  BY OneOutcomeIs DEF BackendInv
<1>2. Len(order) \in Nat /\ DOMAIN order = 1 .. Len(order) /\ Len(order) + 1 \notin active
  <2>1. Len(order) \in Nat /\ DOMAIN order = 1 .. Len(order)
    BY <1>1
  <2> QED BY <1>1, <2>1
<1>3. ASSUME NEW s \in Setups, BatchPlace(s)
      PROVE  BackendInv'
  <2>1. PICK o : o = TryMarketOrder(s) /\ Priced(s)
    BY <1>3 DEF BatchPlace
  <2>2. Fair(s, o)
    BY <1>1, <2>1, OutcomeIs
  <2>3. /\ order' = Append(order, Told(NewStatus, o)) /\ account' = o.acc /\ ticker' = ticker
        /\ active' = IF o.state = Pending THEN active \cup {Len(order) + 1} ELSE active
    BY <1>3, <2>1 DEF BatchPlace, Add
  <2>4. Len(order) + 1 \in active' <=> o.state = Pending
    BY <1>2, <2>3
  <2>5. PICK st \in Status : st = Told(NewStatus, o) /\ OrderInv(Len(order) + 1, st, active')
    BY <2>2, <2>4, ToldIs
  <2>6. order' \in Seq(Status) /\ active' \subseteq DOMAIN order' /\ OneOutcome'
    BY <2>3, <2>5, OrderAdded
  <2>7. AccountInv(account')
    BY <2>2, <2>3 DEF Fair
  <2>8. QuoteInv'
    BY <1>1, <2>3 DEF QuoteInv
  <2>9. AccountInv(account)'
    BY <2>7 DEF AccountInv, WellFormed, OverallOk
  <2> QED BY <2>6, <2>8, <2>9 DEF BackendInv
<1>4. ASSUME NEW st \in Status, order' = Append(order, st), OrderInv(Len(order) + 1, st, active),
             UNCHANGED <<ticker, account, active>>
      PROVE  BackendInv'
  <2>1. order' \in Seq(Status) /\ active' \subseteq DOMAIN order' /\ OneOutcome'
    BY <1>4, OrderAdded
  <2>2. QuoteInv' /\ AccountInv(account)'
    BY <1>1, <1>4 DEF QuoteInv
  <2> QED BY <2>1, <2>2 DEF BackendInv
<1>5. ASSUME NEW s \in Setups, CreateTransfer(s)
      PROVE  BackendInv'
  <2>1. PICK st : st = [NewStatus EXCEPT !.state = "discarded", !.reason = "unsupported"]
    OBVIOUS
  <2>2. st = [state |-> "discarded", reason |-> "unsupported", filled |-> 0, reports |-> 0]
    BY <2>1 DEF NewStatus
  <2>3. st \in Status
    BY <2>2 DEF Status, States, Reasons
  <2>4. OrderInv(Len(order) + 1, st, active)
    BY <1>2, <2>2 DEF OrderInv, IsDone, States
  <2> QED BY <1>4, <1>5, <2>1, <2>3, <2>4 DEF CreateTransfer, Add
<1>6. ASSUME NEW s \in Setups, BatchReplace(s)
      PROVE  BackendInv'
  <2>1. PICK st \in Status : /\ st = UpdateReport(NewStatus, "rejected", "not_found")
                             /\ st.state = "rejected" /\ st.reason = "not_found"
                             /\ st.filled = 0 /\ st.reports = 1
    <3>1. "rejected" \in States \cup {Pending} /\ "not_found" \in Reasons
      BY DEF States, Reasons
    <3> QED BY <3>1, NewStatusIs, ReportIs
  <2>2. OrderInv(Len(order) + 1, st, active)
    BY <1>2, <2>1 DEF OrderInv, IsDone, States
  <2> QED BY <1>4, <1>6, <2>1, <2>2 DEF BatchReplace, Add
<1>7. ASSUME NEW i \in 1 .. MaxOrders, BatchCancel(i)
      PROVE  BackendInv'
  <2>1. /\ i \in active /\ active' = active \ {i} /\ UNCHANGED <<ticker, account>>
        /\ order' = [order EXCEPT ![i] = UpdateReport(@, "canceled", "no_reason")]
    BY <1>7 DEF BatchCancel
  <2>2. i \in DOMAIN order
    BY <1>1, <2>1
  <2>3. PICK old \in Status : old = order[i]
    BY <1>1, <2>2
  <2>4. PICK n \in Nat, f \in Int : n = old.reports /\ f = old.filled /\ old.reason \in Reasons
    BY DEF Status
  <2>5. n <= 1
    <3>1. OrderInv(i, old, active)
      BY <1>1, <2>2, <2>3
    <3>2. old.state # "canceled"
      BY <2>1, <3>1 DEF OrderInv, IsDone, States
    <3> QED BY <2>4, <3>1, <3>2 DEF OrderInv
  <2>6. PICK st \in Status :
          /\ st = UpdateReport(old, "canceled", "no_reason")
          /\ st.state = "canceled" /\ st.reports = n + 1
    <3>1. "canceled" \in States \cup {Pending} /\ "no_reason" \in Reasons
      BY DEF States, Reasons
    <3> QED BY <2>3, <2>4, <3>1, ReportIs
  <2>7. /\ order' \in Seq(Status) /\ DOMAIN order' = DOMAIN order /\ order'[i] = st
        /\ \A k \in DOMAIN order : k # i => order'[k] = order[k]
    BY <1>1, <2>1, <2>2, <2>3, <2>6
  <2>8. ASSUME NEW k \in DOMAIN order'
        PROVE  OrderInv(k, order'[k], active')
    <3>1. CASE k = i
      <4>1. st.reports <= 2
        BY <2>4, <2>5, <2>6
      <4> QED BY <2>1, <2>6, <2>7, <3>1, <4>1 DEF OrderInv, IsDone, States
    <3>2. CASE k # i
      <4>1. OrderInv(k, order[k], active) /\ order'[k] = order[k]
        BY <1>1, <2>7, <3>2
      <4>2. k \in active' <=> k \in active
        BY <2>1, <3>2
      <4> QED BY <4>1, <4>2 DEF OrderInv
    <3> QED BY <3>1, <3>2
  <2>9. OneOutcome'
    BY <2>8 DEF OneOutcome, OrderInv
  <2>10. QuoteInv' /\ AccountInv(account)'
    BY <1>1, <2>1 DEF QuoteInv
  <2> QED BY <1>1, <2>1, <2>7, <2>9, <2>10 DEF BackendInv
<1>8. ASSUME NEW tk \in Tickers, MarketEvent(tk)
      PROVE  BackendInv'
  <2>1. ticker' = tk /\ UNCHANGED <<account, order, active>>
    BY <1>8 DEF MarketEvent
  <2>2. QuoteInv'
    BY <2>1, TickerTypes DEF QuoteInv
  <2>3. AccountInv(account)' /\ OneOutcome'
    BY <1>1, <2>1 DEF OneOutcome
  <2> QED BY <1>1, <2>1, <2>2, <2>3 DEF BackendInv
<1>9. ASSUME UNCHANGED <<ticker, account, order, active>>
      PROVE  BackendInv'
  <2>1. QuoteInv' /\ AccountInv(account)' /\ OneOutcome'
    BY <1>1, <1>9 DEF QuoteInv, OneOutcome
  <2> QED BY <1>1, <1>9, <2>1 DEF BackendInv
<1>10. ASSUME NEW t \in Targets, Subscribe(t) \/ Unsubscribe(t)
       PROVE  BackendInv'
  BY <1>9, <1>10 DEF Subscribe, Unsubscribe
<1>11. CASE UNCHANGED backendVars
  BY <1>9, <1>11 DEF backendVars
<1> QED BY <1>3, <1>5, <1>6, <1>7, <1>8, <1>10, <1>11 DEF BackendNext

LEMMA InvHolds == BackendSpec => []BackendInv
BY InvInit, InvNext, PTL DEF BackendSpec

\* try_market_order, batch_cancel: however orders are placed, filled, closed and canceled, each
\* has one outcome: it is active exactly until it is done, is told at most once more after it was
\* pending, is filled only with an amount, and rejected only with a reason.
THEOREM OrdersHaveOneOutcome == BackendSpec => []OneOutcome
<1>1. BackendInv => OneOutcome
  BY DEF BackendInv
<1> QED BY <1>1, InvHolds, PTL

\* A position calculated from the list sums up.
LEMMA CurrentSumsUp ==
    ASSUME NEW a \in Account, Current(a)
    PROVE  SumsUp(a)
<1>1. PICK list \in Seq(Position) : list = a.list
  BY DEF Account
<1>2. PICK acb \in Acb : acb = AcbOf(list, DOMAIN list)
  BY AcbOfIsAcb
<1>3. PICK q \in Int : q = acb.pos
  BY DEF Acb
<1>4. a.overall = [id |-> OverallPosition, amount |-> Abs(q), acb |-> acb,
                   side |-> IF q < 0 THEN "sell" ELSE IF q > 0 THEN "buy" ELSE "undefined"]
  BY <1>1, <1>2, <1>3 DEF Current, CalcOverall
<1>5. a.overall.acb = acb /\ Sign(a.overall.side) * a.overall.amount = q
  BY <1>4 DEF Abs, Sign
<1>6. ASSUME NEW tk \in Tickers
      PROVE  acb.rpnl + UPnL(acb, tk.ask) =
                Scale * Total([k \in DOMAIN list |->
                                  Sign(list[k].side) * list[k].amount * (tk.ask - list[k].open)])
  <2>1. tk.ask \in Int
    BY TickerTypes
  <2> QED BY <1>2, <2>1, CostsSumUp DEF Gain
<1>7. Net(list) = q
  BY <1>2, <1>3, HedgesSumUp DEF Net
<1> QED BY <1>1, <1>5, <1>6, <1>7 DEF SumsUp, GetPosition, GetAllPositions

\* update_overall: after any step that changes the account the reported position is what all
\* positions gain at any price, and their net amount.  Or the step was a fill that may open a
\* position, and left the reported one alone.
THEOREM CostsAreKept == BackendSpec => OverallSumsUp
<1> DEFINE Kept == account' # account =>
                      \/ SumsUp(account')
                      \/ /\ GetPosition(account') = GetPosition(account)
                         /\ \E s \in Setups : /\ s.type \in {"Market", "Limit"} /\ s.behavior # "reduce"
                                             /\ BatchPlace(s)
<1>1. BackendInv /\ [BackendNext]_backendVars => [Kept]_backendVars
  <2> SUFFICES ASSUME BackendInv, [BackendNext]_backendVars, account' # account
               PROVE  \/ SumsUp(account')
                      \/ /\ account'.overall = account.overall
                         /\ \E s \in Setups : /\ s.type \in {"Market", "Limit"} /\ s.behavior # "reduce"
                                             /\ BatchPlace(s)
    BY DEF GetPosition
  <2>1. PICK s \in Setups : BatchPlace(s)
    BY DEF BackendNext, backendVars, CreateTransfer, BatchReplace, Subscribe, Unsubscribe,
           BatchCancel, MarketEvent
  <2>2. PICK o : o = TryMarketOrder(s) /\ account' = o.acc /\ Priced(s)
    BY <2>1 DEF BatchPlace
  <2>3. QuoteInv /\ AccountInv(account)
    BY DEF BackendInv
  <2>4. Fair(s, o) /\ (ByFill(s, o) \/ ByClosing(s, o))
    BY <2>2, <2>3, OutcomeIs
  <2>5. account' \in Account
    BY <2>2, <2>4 DEF Fair, AccountInv, WellFormed
  <2>6. CASE Current(account')
    BY <2>5, <2>6, CurrentSumsUp
  <2>7. CASE ~Current(account')
    <3>1. ByFill(s, o) /\ o.acc.overall = account.overall /\ s.behavior # "reduce"
      BY <2>2, <2>4, <2>7 DEF ByFill, ByClosing, Reported
    <3>2. s.type \in {"Market", "Limit"}
      BY <3>1 DEF ByFill
    <3> QED BY <2>1, <2>2, <3>1, <3>2
  <2> QED BY <2>6, <2>7
<1>2. BackendSpec => [][Kept]_backendVars
  <2> HIDE DEF Kept
  <2> QED BY <1>1, InvHolds, PTL DEF BackendSpec
<1> QED BY <1>2 DEF OverallSumsUp

\* record_fill and close_position: no step changes what the account is worth at the step's own
\* price, but for the rest of a reduced position, which it counts twice.
THEOREM MoneyIsConserved == BackendSpec => WorthConserved
<1> DEFINE Price(s) == IF s.type = "ClosePosition" THEN TickerInfo(CloseSide(s)).price
                       ELSE IF s.type \in {"Market", "Limit"} THEN TickerInfo(s.side).price ELSE 0
           Halved(s) == IF s.type \in {"Market", "Limit"} THEN Reduced(account, account') ELSE {}
           Counted(s) == IF Halved(s) = {} THEN 0
                         ELSE CalculatePnl(CHOOSE p \in Halved(s) : TRUE, Price(s))
           Conserved == account' # account => \A s \in Setups : BatchPlace(s) =>
                            Worth(account', Price(s)) = Worth(account, Price(s)) + Counted(s)
<1>1. BackendInv => [Conserved]_backendVars
  <2> SUFFICES ASSUME BackendInv, account' # account, NEW s \in Setups, BatchPlace(s)
               PROVE  Worth(account', Price(s)) = Worth(account, Price(s)) + Counted(s)
    OBVIOUS
  <2>1. PICK o : o = TryMarketOrder(s) /\ account' = o.acc /\ Priced(s)
    BY DEF BatchPlace
  <2>2. QuoteInv /\ AccountInv(account)
    BY DEF BackendInv
  <2>3. ByFill(s, o) \/ ByClosing(s, o)
    BY <2>1, <2>2, OutcomeIs
  <2>4. CASE ByFill(s, o)
    <3>1. Price(s) = TickerInfo(s.side).price /\ Halved(s) = Reduced(account, o.acc)
      BY <2>1, <2>4 DEF ByFill
    <3>2. Worth(o.acc, Price(s)) = Worth(account, Price(s)) + Twice(account, o.acc, Price(s))
      BY <2>4, <3>1 DEF ByFill, Booked
    <3>3. Counted(s) = Twice(account, o.acc, Price(s))
      <4> HIDE DEF Price, Halved
      <4> QED BY <3>1 DEF Twice
    <3> QED BY <2>1, <3>2, <3>3
  <2>5. CASE ByClosing(s, o)
    <3>1. Price(s) = TickerInfo(CloseSide(s)).price /\ Halved(s) = {}
      BY <2>5 DEF ByClosing
    <3>2. Worth(o.acc, Price(s)) = Worth(account, Price(s)) + 0
      BY <2>5, <3>1 DEF ByClosing, Booked
    <3>3. Counted(s) = 0
      BY <3>1
    <3> QED BY <2>1, <3>2, <3>3
  <2> QED BY <2>3, <2>4, <2>5
<1>2. BackendSpec => [][Conserved]_backendVars
  <2> HIDE DEF Conserved
  <2> QED BY <1>1, InvHolds, PTL
<1> QED BY <1>2 DEF WorthConserved, CloseSide

\* record_fill: only a fill with the hedge behavior makes an account hold both sides.
THEOREM BothSidesAreHedged == BackendSpec => TwoSidesOnlyByHedge
<1> DEFINE Hedged == \E s \in Setups :
                        s.type \in {"Market", "Limit"} /\ s.behavior = "hedge" /\ BatchPlace(s)
           Held(a) == {p.side : p \in ToSet(a.list)}
           Single == Cardinality({p.side : p \in ToSet(account.list)}) < 2
                     /\ Cardinality({p.side : p \in ToSet(account'.list)}) = 2
                     => \E s \in Setups :
                          s.type \in {"Market", "Limit"} /\ s.behavior = "hedge" /\ BatchPlace(s)
<1>1. BackendInv /\ [BackendNext]_backendVars => [Single]_backendVars
  <2> SUFFICES ASSUME BackendInv, [BackendNext]_backendVars,
                      Cardinality(Held(account)) < 2, Cardinality(Held(account')) = 2
               PROVE  Hedged
    OBVIOUS
  <2>1. account' # account
    <3>1. Cardinality(Held(account)) # 2
      OBVIOUS
    <3> HIDE DEF Held
    <3> QED BY <3>1
  <2>2. PICK s \in Setups : BatchPlace(s)
    BY <2>1 DEF BackendNext, backendVars, CreateTransfer, BatchReplace, Subscribe, Unsubscribe,
                BatchCancel, MarketEvent
  <2>3. PICK o : o = TryMarketOrder(s) /\ account' = o.acc /\ Priced(s)
    BY <2>2 DEF BatchPlace
  <2>4. QuoteInv /\ AccountInv(account)
    BY DEF BackendInv
  <2>5. ByFill(s, o) \/ ByClosing(s, o)
    BY <2>1, <2>3, <2>4, OutcomeIs
  <2>6. ~OneSided(account', account)
    <3>1. IsFiniteSet(Held(account))
      <4>1. Held(account) \subseteq Sides
        <5>1. \A k \in DOMAIN account.list : account.list[k].side \in Sides
          <6>1. PICK s2 \in Seq(Position) : s2 = account.list
            BY <2>4 DEF AccountInv, WellFormed, Account
          <6>2. \A k \in DOMAIN s2 : s2[k] \in Position
            OBVIOUS
          <6> QED BY <6>1, <6>2 DEF Position
        <5> QED BY <5>1 DEF ToSet
      <4>2. IsFiniteSet({"buy"}) /\ Sides = {"buy"} \cup {"sell"}
        BY FS_Singleton DEF Sides
      <4>3. IsFiniteSet(Sides)
        BY <4>2, FS_AddElement
      <4> QED BY <4>1, <4>3, FS_Subset
    <3>2. ASSUME Held(account') \subseteq Held(account)
          PROVE  FALSE
      <4>1. Cardinality(Held(account')) <= Cardinality(Held(account))
        BY <3>1, <3>2, FS_Subset
      <4>2. Cardinality(Held(account)) \in Nat
        BY <3>1, FS_CardinalityType
      <4> HIDE DEF Held
      <4> QED BY <4>1, <4>2
    <3>3. ASSUME NEW side, Held(account') \subseteq {side}
          PROVE  FALSE
      <4>1. IsFiniteSet({side}) /\ Cardinality({side}) = 1
        BY FS_Singleton
      <4>2. Cardinality(Held(account')) <= 1
        BY <3>3, <4>1, FS_Subset
      <4> HIDE DEF Held
      <4> QED BY <4>2
    <3> QED BY <3>2, <3>3 DEF OneSided, HeldSides
  <2>7. ByFill(s, o) /\ s.behavior = "hedge"
    BY <2>3, <2>5, <2>6 DEF ByFill, ByClosing
  <2> QED BY <2>2, <2>7 DEF ByFill
<1>2. BackendSpec => [][Single]_backendVars
  <2> HIDE DEF Single
  <2> QED BY <1>1, InvHolds, PTL DEF BackendSpec
<1>3. TwoSidesOnlyByHedge <=> [][Single]_backendVars
  BY DEF TwoSidesOnlyByHedge
<1> HIDE DEF Single
<1> QED BY <1>2, <1>3, PTL
=============================================================================
