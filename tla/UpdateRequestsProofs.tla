------------------------ MODULE UpdateRequestsProofs ------------------------
(***************************************************************************)
(* Theorems about UpdateRequests, for any number of contexts and           *)
(* callbacks: UpdatesInv is inductive, and so no registered callback is    *)
(* ever left without somebody who will call it; with FreshInv, the one     *)
(* that made its context ask is called for an answer to that.              *)
(***************************************************************************)
EXTENDS UpdateRequests, SequenceTheorems, TLAPS

UpdatesInv == RequestsTypeOK /\ NoCallbackStranded

\* Appending one element: length, elements, and the set of them.
LEMMA AppendOne ==
    ASSUME NEW S, NEW s \in Seq(S), NEW e \in S
    PROVE  /\ Append(s, e) \in Seq(S) /\ Append(s, e) # <<>>
           /\ e \in ToSet(Append(s, e))
           /\ \A x \in ToSet(s) : x \in ToSet(Append(s, e))
<1>1. /\ Append(s, e) \in Seq(S) /\ Len(Append(s, e)) = Len(s) + 1
      /\ \A k \in 1 .. Len(s) : Append(s, e)[k] = s[k]
      /\ Append(s, e)[Len(s) + 1] = e
      /\ Len(s) \in Nat /\ DOMAIN s = 1 .. Len(s)
  BY AppendProperties
<1>2. DOMAIN Append(s, e) = 1 .. (Len(s) + 1)
  BY <1>1
<1>3. Append(s, e) # <<>>
  BY <1>1
<1> QED BY <1>1, <1>2, <1>3 DEF ToSet

\* The same of callbacks, with a mark of either kind.
LEMMA AppendMark ==
    ASSUME NEW s \in Seq(Mark)
    PROVE  /\ Append(s, "joined") \in Seq(Mark) /\ Append(s, "joined") # <<>>
           /\ Append(s, Joining(s)) \in Seq(Mark) /\ Append(s, Joining(s)) # <<>>
<1>1. "joined" \in Mark /\ Joining(s) \in Mark
  BY DEF Mark, Joining
<1> QED BY <1>1, AppendOne

\* Nobody waits in an empty list.
LEMMA NobodyInEmpty == ToSet(<<>>) = {}
  BY DEF ToSet

\* Answered callbacks are as many as they were, and none of them waits any more.
LEMMA AnsweredLength ==
    ASSUME RequestsTypeOK, NEW c \in Contexts
    PROVE  /\ Answered[c] \in Seq(Mark)
           /\ Len(Answered[c]) = Len(cbs[c])
           /\ Answered[c] = <<>> <=> cbs[c] = <<>>
<1> DEFINE all == [k \in 1 .. Len(cbs[c]) |-> "answered"]
<1>1. all \in Seq(Mark) /\ Len(all) = Len(cbs[c])
  <2>1. Len(cbs[c]) \in Nat /\ "answered" \in Mark
    BY DEF Mark, RequestsTypeOK
  <2> QED BY <2>1
<1>2. Answered[c] = all
  BY DEF Answered
<1>3. cbs[c] \in Seq(Mark)
  BY DEF RequestsTypeOK
<1> HIDE DEF all
<1>4. all = <<>> <=> cbs[c] = <<>>
  BY <1>1, <1>3, EmptySeq
<1> QED BY <1>1, <1>2, <1>4

LEMMA AnsweredSame ==
    ASSUME RequestsTypeOK
    PROVE  /\ Answered \in [Contexts -> Seq(Mark)]
           /\ \A c \in Contexts : Answered[c] = <<>> <=> cbs[c] = <<>>
<1>1. \A c \in Contexts : Answered[c] \in Seq(Mark) /\ (Answered[c] = <<>> <=> cbs[c] = <<>>)
  BY AnsweredLength
<1>2. Answered = [c \in Contexts |-> Answered[c]]
  BY DEF Answered
<1> QED BY <1>1, <1>2

LEMMA AnsweredMark ==
    ASSUME NEW c \in Contexts, NEW k \in 1 .. Len(cbs[c])
    PROVE  Answered[c][k] = "answered"
<1>1. Answered[c] = [j \in 1 .. Len(cbs[c]) |-> "answered"]
  BY DEF Answered
<1> QED BY <1>1

LEMMA InitUpdatesInv == RequestsInit => UpdatesInv
<1> SUFFICES ASSUME RequestsInit
             PROVE  UpdatesInv
  OBVIOUS
<1>1. RequestsTypeOK
  <2>1. <<>> \in Seq(Mark) /\ <<>> \in Seq(Contexts)
    OBVIOUS
  <2> QED BY <2>1 DEF RequestsInit, RequestsTypeOK
<1>2. NoCallbackStranded
  BY DEF RequestsInit, NoCallbackStranded
<1> QED BY <1>1, <1>2 DEF UpdatesInv

\* The invariant is inductive.
LEMMA NextUpdatesInv == UpdatesInv /\ [RequestsNext]_requestVars => UpdatesInv'
<1> SUFFICES ASSUME UpdatesInv, [RequestsNext]_requestVars
             PROVE  UpdatesInv'
  OBVIOUS
<1> USE DEF UpdatesInv, RequestsTypeOK, NoCallbackStranded
<1>1. ASSUME NEW c \in Contexts, Request(c)
      PROVE  UpdatesInv'
  <2>1. Append(cbs[c], Joining(cbs[c])) \in Seq(Mark) /\ Append(cbs[c], Joining(cbs[c])) # <<>>
    BY AppendMark
  <2>2. RequestsTypeOK'
    <3>1. cbs' = [cbs EXCEPT ![c] = Append(@, Joining(@))] /\ loc' = loc /\ waiting' = waiting
      BY <1>1 DEF Request, Registered
    <3>2. cbs' \in [Contexts -> Seq(Mark)]
      BY <2>1, <3>1
    <3>3. \A d \in Contexts : loc'[d] # "idle" => cbs'[d] # <<>>
      BY <2>1, <3>1
    <3>4. asking' \subseteq Contexts
      BY <1>1 DEF Request, Registered
    <3> QED BY <1>1, <3>1, <3>2, <3>3, <3>4 DEF Request, Registered
  <2>3. ASSUME NEW d \in Contexts, cbs'[d] # <<>>
        PROVE  \/ d \in asking'
               \/ d \in ToSet(waiting') /\ (working' > 0 \/ unheard')
               \/ events'[d] > 0
               \/ loc'[d] # "idle"
    <3>1. CASE d = c
      BY <1>1, <3>1 DEF Request, Registered
    <3>2. CASE d # c
      BY <1>1, <2>3, <3>2 DEF Request, Registered
    <3> QED BY <3>1, <3>2
  <2> QED BY <2>2, <2>3
<1>2. ASSUME NEW c \in Contexts, CallHub(c)
      PROVE  UpdatesInv'
  <2>1. /\ Append(waiting, c) \in Seq(Contexts) /\ Append(waiting, c) # <<>>
        /\ c \in ToSet(Append(waiting, c))
        /\ \A d \in ToSet(waiting) : d \in ToSet(Append(waiting, c))
    BY AppendOne
  <2>2. /\ waiting' = Append(waiting, c) /\ asking' = asking \ {c}
        /\ events' = events /\ loc' = loc /\ stale' = stale
    BY <1>2 DEF CallHub
  <2>3. \/ waiting # <<>> /\ UNCHANGED <<cbs, working, unheard>>
        \/ waiting = <<>> /\ AnswersLater
        \/ waiting = <<>> /\ AnswersWithin
    BY <1>2 DEF CallHub
  <2>4. /\ cbs' \in [Contexts -> Seq(Mark)]
        /\ \A d \in Contexts : cbs'[d] = <<>> <=> cbs[d] = <<>>
    BY <2>3, AnsweredSame DEF AnswersLater, AnswersWithin
  <2>5. /\ unheard' \in BOOLEAN
        /\ working' = IF unheard' THEN 0 ELSE 1
    <3>1. CASE waiting # <<>> /\ UNCHANGED <<cbs, working, unheard>>
      BY <3>1
    <3>2. CASE waiting = <<>> /\ AnswersLater
      <4>1. unheard = FALSE /\ working = 0
        BY <3>2
      <4> QED BY <3>2, <4>1 DEF AnswersLater
    <3>3. CASE waiting = <<>> /\ AnswersWithin
      <4>1. working = 0
        BY <3>3
      <4> QED BY <3>3, <4>1 DEF AnswersWithin
    <3> QED BY <2>3, <3>1, <3>2, <3>3
  <2>6. RequestsTypeOK'
    BY <2>1, <2>2, <2>4, <2>5
  <2>7. ASSUME NEW d \in Contexts, cbs'[d] # <<>>
        PROVE  \/ d \in asking'
               \/ d \in ToSet(waiting') /\ (working' > 0 \/ unheard')
               \/ events'[d] > 0
               \/ loc'[d] # "idle"
    BY <2>1, <2>2, <2>4, <2>5, <2>7
  <2> QED BY <2>6, <2>7
<1>3. CASE ObjectUpdated
  <2>1. /\ cbs' \in [Contexts -> Seq(Mark)]
        /\ \A c \in Contexts : cbs'[c] # <<>> <=> cbs[c] # <<>>
    BY <1>3, AnsweredSame DEF ObjectUpdated
  <2>2. /\ events' \in [Contexts -> Nat]
        /\ \A d \in Contexts : events'[d] = IF d \in ToSet(waiting) THEN events[d] + 1 ELSE events[d]
    BY <1>3 DEF ObjectUpdated
  <2>3. <<>> \in Seq(Contexts)
    OBVIOUS
  <2>4. waiting' = <<>> /\ working' = 0 /\ unheard' = FALSE
    <3>1. working > 0 /\ working = IF waiting = <<>> \/ unheard THEN 0 ELSE 1
      BY <1>3 DEF ObjectUpdated
    <3>2. ~unheard /\ working = 1
      BY <3>1
    <3> QED BY <1>3, <3>2 DEF ObjectUpdated
  <2>5. asking' = asking /\ loc' = loc /\ stale' = stale
    BY <1>3 DEF ObjectUpdated
  <2>6. RequestsTypeOK'
    BY <2>1, <2>2, <2>3, <2>4, <2>5
  <2>7. ASSUME NEW d \in Contexts, cbs'[d] # <<>>
        PROVE  d \in asking' \/ events'[d] > 0 \/ loc'[d] # "idle"
    BY <2>1, <2>2, <2>5, <2>7
  <2> QED BY <2>6, <2>7
<1>4. ASSUME NEW c \in Contexts, Begin(c)
      PROVE  UpdatesInv'
  BY <1>4 DEF Begin, Calm
<1>5. ASSUME NEW c \in Contexts, Call(c)
      PROVE  UpdatesInv'
  <2>1. Append(cbs[c], "joined") \in Seq(Mark) /\ Append(cbs[c], "joined") # <<>>
    BY AppendMark
  <2>2. cbs[c] # <<>>
    BY <1>5 DEF Call
  <2>3. cbs' \in [Contexts -> Seq(Mark)] /\ \A d \in Contexts : cbs'[d] # <<>> <=> cbs[d] # <<>>
    <3>1. CASE UNCHANGED cbs
      BY <3>1
    <3>2. CASE cbs' = [cbs EXCEPT ![c] = Append(@, "joined")]
      BY <2>1, <2>2, <3>2
    <3> QED BY <1>5, <3>1, <3>2 DEF Call
  <2>4. loc' = [loc EXCEPT ![c] = "erase"] /\ loc[c] = "call" /\ UNCHANGED <<asking, events, waiting, working, unheard>>
    BY <1>5 DEF Call
  <2>5. stale' \subseteq Contexts
    BY <1>5 DEF Call
  <2> QED BY <2>2, <2>3, <2>4, <2>5
<1>6. ASSUME NEW c \in Contexts, Erase(c)
      PROVE  UpdatesInv'
  <2>1. Tail(cbs[c]) \in Seq(Mark)
    BY <1>6, HeadTailProperties DEF Erase
  <2>2. ASSUME NEW d \in Contexts, d # c
        PROVE  cbs'[d] = cbs[d] /\ loc'[d] = loc[d]
    BY <1>6, <2>2 DEF Erase
  <2>3. cbs'[c] = Tail(cbs[c]) /\ (loc'[c] = IF Tail(cbs[c]) = <<>> THEN "idle" ELSE "call")
    BY <1>6 DEF Erase
  <2>4. RequestsTypeOK'
    <3>1. cbs' = [cbs EXCEPT ![c] = Tail(@)] /\ loc' \in [Contexts -> {"idle", "call", "erase"}]
      BY <1>6 DEF Erase
    <3>2. cbs' \in [Contexts -> Seq(Mark)]
      BY <2>1, <3>1
    <3>3. \A d \in Contexts : loc'[d] # "idle" => cbs'[d] # <<>>
      BY <2>2, <2>3
    <3> QED BY <1>6, <3>1, <3>2, <3>3 DEF Erase
  <2>5. NoCallbackStranded'
    BY <1>6, <2>2, <2>3 DEF Erase
  <2> QED BY <2>4, <2>5
<1>7. ASSUME NEW c \in Contexts, EraseResumes(c)
      PROVE  UpdatesInv'
  <2>1. Tail(cbs[c]) \in Seq(Mark)
    BY <1>7, HeadTailProperties DEF EraseResumes, Registered
  <2>2. Append(Tail(cbs[c]), Joining(Tail(cbs[c]))) \in Seq(Mark) /\ Append(Tail(cbs[c]), Joining(Tail(cbs[c]))) # <<>>
    BY <2>1, AppendMark
  <2>3. ASSUME NEW d \in Contexts, d # c
        PROVE  cbs'[d] = cbs[d] /\ loc'[d] = loc[d] /\ (d \in asking => d \in asking')
    BY <1>7, <2>3 DEF EraseResumes, Registered
  <2>4. /\ cbs'[c] = Append(Tail(cbs[c]), Joining(Tail(cbs[c])))
        /\ loc'[c] \in {"idle", "call"}
        /\ loc'[c] = "idle" => c \in asking'
    BY <1>7 DEF EraseResumes, Registered
  <2>5. RequestsTypeOK'
    <3>1. cbs' = [cbs EXCEPT ![c] = Append(Tail(@), Joining(Tail(@)))]
      BY <1>7 DEF EraseResumes, Registered
    <3>2. cbs' \in [Contexts -> Seq(Mark)]
      BY <2>2, <3>1
    <3>3. \A d \in Contexts : loc'[d] # "idle" => cbs'[d] # <<>>
      BY <2>2, <2>3, <2>4
    <3>4. asking' \subseteq Contexts /\ loc' \in [Contexts -> {"idle", "call", "erase"}]
      BY <1>7 DEF EraseResumes, Registered
    <3> QED BY <1>7, <3>2, <3>3, <3>4 DEF EraseResumes, Registered
  <2>6. NoCallbackStranded'
    BY <1>7, <2>3, <2>4 DEF EraseResumes, Registered
  <2> QED BY <2>5, <2>6
<1>8. CASE UNCHANGED requestVars
  BY <1>8 DEF requestVars
<1> QED BY <1>1, <1>2, <1>3, <1>4, <1>5, <1>6, <1>7, <1>8 DEF RequestsNext, Run

\* Every registered callback is on its way to an answer, or waits behind an answer that
\* was given within the call; but for that, the service works exactly while somebody
\* waits in the hub.
THEOREM CallbacksAreCovered == RequestsSpec => [](RequestsTypeOK /\ NoCallbackStranded)
<1>1. UpdatesInv => RequestsTypeOK /\ NoCallbackStranded
  BY DEF UpdatesInv
<1> QED BY <1>1, InitUpdatesInv, NextUpdatesInv, PTL DEF RequestsSpec

-----------------------------------------------------------------------------
(* A callback that made its context ask is called for an answer to come. *)

\* The elements of a sequence to which one was appended, and of a tail.
LEMMA AppendElements ==
    ASSUME NEW s \in Seq(Mark), NEW e \in Mark
    PROVE  /\ Len(Append(s, e)) = Len(s) + 1 /\ Len(s) \in Nat
           /\ \A k \in 1 .. Len(Append(s, e)) :
                  Append(s, e)[k] = IF k = Len(s) + 1 THEN e ELSE s[k]
  BY AppendProperties

LEMMA JoiningIsMark ==
    ASSUME NEW s
    PROVE  Joining(s) \in Mark /\ (s = <<>> => Len(s) = 0)
<1>1. Joining(s) \in Mark
  BY DEF Joining, Mark
<1>2. s = <<>> => Len(s) = 0
  OBVIOUS
<1> QED BY <1>1, <1>2

LEMMA TailElements ==
    ASSUME NEW s \in Seq(Mark), s # <<>>
    PROVE  /\ Tail(s) \in Seq(Mark) /\ Len(Tail(s)) = Len(s) - 1 /\ Len(s) \in Nat
           /\ \A k \in 1 .. Len(Tail(s)) : Tail(s)[k] = s[k + 1]
  BY HeadTailProperties

\* Who waits after one more does.
LEMMA AppendWaits ==
    ASSUME NEW c \in Contexts, NEW d \in Contexts, waiting \in Seq(Contexts)
    PROVE  d \in ToSet(Append(waiting, c)) <=> d = c \/ d \in ToSet(waiting)
<1>1. /\ Len(Append(waiting, c)) = Len(waiting) + 1 /\ Len(waiting) \in Nat
      /\ \A k \in 1 .. Len(waiting) : Append(waiting, c)[k] = waiting[k]
      /\ Append(waiting, c)[Len(waiting) + 1] = c
      /\ DOMAIN Append(waiting, c) = 1 .. (Len(waiting) + 1)
      /\ DOMAIN waiting = 1 .. Len(waiting)
  BY AppendProperties
<1> QED BY <1>1 DEF ToSet

LEMMA InitFresh == RequestsInit => FreshInv
<1> SUFFICES ASSUME RequestsInit
             PROVE  FreshInv
  OBVIOUS
<1> QED BY NobodyInEmpty DEF RequestsInit, FreshInv, OneAnswerAhead, FirstWaits, FirstIsFresh

\* A step leaves alone what FreshInv says of a context whose state it does not change.
LEMMA OthersFresh ==
    ASSUME FreshInv, NEW d \in Contexts,
           cbs'[d] = cbs[d], events'[d] = events[d], loc'[d] = loc[d],
           d \in asking' <=> d \in asking,
           d \in ToSet(waiting') <=> d \in ToSet(waiting)
    PROVE  OneAnswerAhead(d)' /\ FirstWaits(d)'
  BY DEF FreshInv, OneAnswerAhead, FirstWaits

LEMMA NextFresh == UpdatesInv /\ FreshInv /\ [RequestsNext]_requestVars => FreshInv'
<1> SUFFICES ASSUME UpdatesInv, FreshInv, [RequestsNext]_requestVars
             PROVE  FreshInv'
  OBVIOUS
<1>0. RequestsTypeOK
  BY DEF UpdatesInv
<1>1. ASSUME NEW c \in Contexts, Request(c)
      PROVE  FreshInv'
  <2>1. /\ cbs'[c] = Append(cbs[c], Joining(cbs[c])) /\ events' = events /\ loc' = loc
        /\ waiting' = waiting /\ stale' = stale /\ c \notin asking /\ loc[c] = "idle"
        /\ asking' = IF cbs[c] = <<>> THEN asking \cup {c} ELSE asking
        /\ \A d \in Contexts \ {c} : cbs'[d] = cbs[d]
    BY <1>0, <1>1 DEF Request, Registered, Calm, RequestsTypeOK
  <2>2. OneAnswerAhead(c) /\ FirstWaits(c) /\ cbs[c] \in Seq(Mark)
    BY <1>0 DEF FreshInv, RequestsTypeOK
  <2>3. Joining(cbs[c]) \in Mark /\ (cbs[c] = <<>> => Len(cbs[c]) = 0)
    BY DEF Joining, Mark
  <2>4. cbs'[c] # <<>>
    BY <2>1, <2>2, AppendMark
  <2>5. OneAnswerAhead(c)'
    BY <2>1, <2>2, <2>4 DEF OneAnswerAhead
  <2>6. FirstWaits(c)'
    <3> SUFFICES ASSUME NEW k \in 1 .. Len(cbs'[c]), cbs'[c][k] = "first"
                 PROVE  k = 1 /\ (c \in asking' \/ c \in ToSet(waiting'))
      BY DEF FirstWaits
    <3>1. /\ Len(cbs'[c]) = Len(cbs[c]) + 1 /\ Len(cbs[c]) \in Nat
          /\ cbs'[c][k] = IF k = Len(cbs[c]) + 1 THEN Joining(cbs[c]) ELSE cbs[c][k]
      BY <2>1, <2>2, <2>3, AppendElements
    <3>2. CASE k = Len(cbs[c]) + 1
      BY <2>1, <2>3, <3>1, <3>2 DEF Joining
    <3>3. CASE k # Len(cbs[c]) + 1
      BY <2>1, <2>2, <3>1, <3>3 DEF FirstWaits
    <3> QED BY <3>2, <3>3
  <2>7. \A d \in Contexts \ {c} : OneAnswerAhead(d)' /\ FirstWaits(d)'
    BY <2>1, OthersFresh
  <2> QED BY <2>1, <2>5, <2>6, <2>7 DEF FreshInv, FirstIsFresh
<1>2. ASSUME NEW c \in Contexts, CallHub(c)
      PROVE  FreshInv'
  <2>1. /\ c \in asking /\ asking' = asking \ {c} /\ waiting' = Append(waiting, c)
        /\ UNCHANGED <<events, loc, stale>> /\ (cbs' = cbs \/ cbs' = Answered)
    BY <1>2 DEF CallHub, DoCall, AnswersLater, AnswersWithin
  <2>2. \A d \in Contexts : d \in ToSet(waiting') <=> d = c \/ d \in ToSet(waiting)
    BY <1>0, <2>1, AppendWaits DEF RequestsTypeOK
  <2>3. \A d \in Contexts : cbs'[d] = <<>> <=> cbs[d] = <<>>
    BY <1>0, <2>1, AnsweredSame
  <2>4. \A d \in Contexts : OneAnswerAhead(d)'
    BY <2>1, <2>2, <2>3 DEF FreshInv, OneAnswerAhead
  <2>5. \A d \in Contexts : FirstWaits(d)'
    <3>1. CASE cbs' = cbs
      BY <2>1, <2>2, <3>1 DEF FreshInv, FirstWaits
    <3>2. CASE cbs' = Answered
      <4> SUFFICES ASSUME NEW d \in Contexts, NEW k \in 1 .. Len(cbs'[d])
                   PROVE  cbs'[d][k] # "first"
        BY DEF FirstWaits
      <4>1. cbs'[d] = Answered[d]
        BY <3>2
      <4>2. k \in 1 .. Len(cbs[d])
        BY <1>0, <4>1, AnsweredLength
      <4>3. Answered[d][k] = "answered"
        BY <4>2, AnsweredMark
      <4> QED BY <4>1, <4>3
    <3> QED BY <2>1, <3>1, <3>2
  <2> QED BY <2>1, <2>4, <2>5 DEF FreshInv, FirstIsFresh
<1>3. ASSUME ObjectUpdated
      PROVE  FreshInv'
  <2>1. /\ waiting' = <<>> /\ asking' = asking /\ loc' = loc /\ stale' = stale
        /\ \A c \in Contexts : events'[c] = IF c \in ToSet(waiting) THEN events[c] + 1 ELSE events[c]
        /\ cbs' = Answered
    BY <1>3 DEF ObjectUpdated
  <2>2. ASSUME NEW c \in Contexts
        PROVE  OneAnswerAhead(c)' /\ FirstWaits(c)'
    <3>1. events[c] \in Nat
      BY <1>0 DEF RequestsTypeOK
    <3>2. Len(cbs'[c]) = Len(cbs[c]) /\ \A k \in 1 .. Len(cbs[c]) : cbs'[c][k] = "answered"
      <4>1. cbs'[c] = Answered[c]
        BY <2>1
      <4>2. Len(Answered[c]) = Len(cbs[c]) /\ \A k \in 1 .. Len(cbs[c]) : Answered[c][k] = "answered"
        BY <1>0, AnsweredLength, AnsweredMark
      <4> QED BY <4>1, <4>2
    <3>3. cbs'[c] = <<>> => cbs[c] = <<>>
      BY <1>0, <2>1, AnsweredLength
    <3>4. c \notin ToSet(waiting')
      BY <2>1, NobodyInEmpty
    <3>5. OneAnswerAhead(c)
      BY DEF FreshInv
    <3>6. OneAnswerAhead(c)'
      <4>1. asking' = asking /\ loc' = loc
        BY <2>1
      <4>2. CASE c \in ToSet(waiting)
        <5>1. events[c] = 0 /\ loc[c] = "idle" /\ c \notin asking /\ cbs[c] # <<>>
          BY <3>5, <4>2 DEF OneAnswerAhead
        <5>2. events'[c] = 1
          <6>1. events'[c] = events[c] + 1
            BY <2>1, <4>2
          <6> QED BY <5>1, <6>1
        <5> QED BY <3>3, <3>4, <4>1, <5>1, <5>2 DEF OneAnswerAhead
      <4>3. CASE c \notin ToSet(waiting)
        <5>1. events'[c] = events[c]
          BY <2>1, <4>3
        <5> QED BY <3>3, <3>4, <3>5, <4>1, <5>1 DEF OneAnswerAhead
      <4> QED BY <4>2, <4>3
    <3>7. FirstWaits(c)'
      BY <3>2 DEF FirstWaits
    <3> QED BY <3>6, <3>7
  <2> QED BY <2>1, <2>2 DEF FreshInv, FirstIsFresh
<1>4. ASSUME NEW c \in Contexts, Begin(c)
      PROVE  FreshInv'
  <2>1. /\ events[c] > 0 /\ c \notin asking /\ loc[c] = "idle"
        /\ events'[c] = events[c] - 1 /\ UNCHANGED <<cbs, asking, waiting, stale>>
        /\ cbs[c] # <<>> /\ \A d \in Contexts \ {c} : events'[d] = events[d] /\ loc'[d] = loc[d]
    <3>1. OneAnswerAhead(c)
      BY DEF FreshInv
    <3> QED BY <1>0, <1>4, <3>1 DEF Begin, Calm, RequestsTypeOK, OneAnswerAhead
  <2>2. OneAnswerAhead(c) /\ FirstWaits(c) /\ events[c] \in Nat
    BY <1>0 DEF FreshInv, RequestsTypeOK
  <2>3. OneAnswerAhead(c)' /\ FirstWaits(c)'
    BY <2>1, <2>2 DEF OneAnswerAhead, FirstWaits
  <2>4. \A d \in Contexts \ {c} : OneAnswerAhead(d)' /\ FirstWaits(d)'
    BY <2>1, OthersFresh
  <2> QED BY <2>1, <2>3, <2>4 DEF FreshInv, FirstIsFresh
<1>5. ASSUME NEW c \in Contexts, Call(c)
      PROVE  FreshInv'
  <2>1. /\ loc[c] = "call" /\ loc'[c] = "erase" /\ UNCHANGED <<asking, events, waiting>>
        /\ \A d \in Contexts \ {c} : cbs'[d] = cbs[d] /\ loc'[d] = loc[d]
        /\ cbs'[c] = cbs[c] \/ cbs'[c] = Append(cbs[c], "joined")
        /\ stale' = IF Head(cbs[c]) = "first" THEN stale \cup {c} ELSE stale
    BY <1>0, <1>5 DEF Call, RequestsTypeOK
  <2>2. OneAnswerAhead(c) /\ FirstWaits(c) /\ cbs[c] \in Seq(Mark) /\ cbs[c] # <<>>
    BY <1>0, <2>1 DEF FreshInv, RequestsTypeOK
  <2>3. c \notin asking /\ c \notin ToSet(waiting) /\ events[c] = 0
    <3>1. events[c] \in Nat
      BY <1>0 DEF RequestsTypeOK
    <3> QED BY <2>1, <2>2, <3>1 DEF OneAnswerAhead
  <2>4. Len(cbs[c]) \in Nat /\ Len(cbs[c]) > 0 /\ Head(cbs[c]) = cbs[c][1]
    BY <2>2, EmptySeq
  <2>5. \A k \in 1 .. Len(cbs[c]) : cbs[c][k] # "first"
    BY <2>2, <2>3 DEF FirstWaits
  <2>6. stale' = stale
    BY <2>1, <2>4, <2>5
  <2>7. cbs'[c] # <<>> /\ \A k \in 1 .. Len(cbs'[c]) : cbs'[c][k] # "first"
    <3>1. CASE cbs'[c] = cbs[c]
      BY <2>2, <2>5, <3>1
    <3>2. CASE cbs'[c] = Append(cbs[c], "joined")
      <4>1. "joined" \in Mark
        BY DEF Mark
      <4> QED BY <2>2, <2>5, <3>2, <4>1, AppendElements, AppendMark
    <3> QED BY <2>1, <3>1, <3>2
  <2>8. OneAnswerAhead(c)' /\ FirstWaits(c)'
    BY <2>1, <2>3, <2>7 DEF OneAnswerAhead, FirstWaits
  <2>9. \A d \in Contexts \ {c} : OneAnswerAhead(d)' /\ FirstWaits(d)'
    BY <2>1, OthersFresh
  <2> QED BY <2>6, <2>8, <2>9 DEF FreshInv, FirstIsFresh
<1>6. ASSUME NEW c \in Contexts, Erase(c) \/ EraseResumes(c)
      PROVE  FreshInv'
  <2>1. /\ loc[c] = "erase" /\ UNCHANGED <<events, waiting, stale>>
        /\ \A d \in Contexts \ {c} : /\ cbs'[d] = cbs[d] /\ loc'[d] = loc[d]
                                     /\ d \in asking' <=> d \in asking
        /\ loc'[c] = IF Tail(cbs[c]) = <<>> THEN "idle" ELSE "call"
    BY <1>0, <1>6 DEF Erase, EraseResumes, Registered, RequestsTypeOK
  <2>2. OneAnswerAhead(c) /\ FirstWaits(c) /\ cbs[c] \in Seq(Mark) /\ cbs[c] # <<>>
    BY <1>0, <2>1 DEF FreshInv, RequestsTypeOK
  <2>3. c \notin asking /\ c \notin ToSet(waiting) /\ events[c] = 0
    <3>1. events[c] \in Nat
      BY <1>0 DEF RequestsTypeOK
    <3> QED BY <2>1, <2>2, <3>1 DEF OneAnswerAhead
  <2> DEFINE rest == Tail(cbs[c])
  <2>4. rest \in Seq(Mark) /\ \A k \in 1 .. Len(rest) : rest[k] # "first"
    BY <2>2, <2>3, TailElements DEF FirstWaits
  <2>5. OneAnswerAhead(c)' /\ FirstWaits(c)'
    <3>1. CASE Erase(c)
      <4>1. cbs'[c] = rest /\ asking' = asking
        BY <1>0, <3>1 DEF Erase, RequestsTypeOK
      <4> QED BY <2>1, <2>3, <2>4, <4>1 DEF OneAnswerAhead, FirstWaits
    <3>2. CASE EraseResumes(c)
      <4>1. /\ cbs'[c] = Append(rest, Joining(rest))
            /\ asking' = IF rest = <<>> THEN asking \cup {c} ELSE asking
        BY <1>0, <3>2 DEF EraseResumes, Registered, RequestsTypeOK
      <4>2. cbs'[c] # <<>>
        BY <2>4, <4>1, AppendMark
      <4>3. OneAnswerAhead(c)'
        BY <2>1, <2>3, <4>1, <4>2 DEF OneAnswerAhead
      <4>4. FirstWaits(c)'
        <5> SUFFICES ASSUME NEW k \in 1 .. Len(cbs'[c]), cbs'[c][k] = "first"
                     PROVE  k = 1 /\ (c \in asking' \/ c \in ToSet(waiting'))
          BY DEF FirstWaits
        <5>1. Joining(rest) \in Mark /\ (rest = <<>> => Len(rest) = 0)
          BY JoiningIsMark
        <5>2. /\ Len(cbs'[c]) = Len(rest) + 1 /\ Len(rest) \in Nat
              /\ cbs'[c][k] = IF k = Len(rest) + 1 THEN Joining(rest) ELSE rest[k]
          BY <2>4, <4>1, <5>1, AppendElements
        <5>3. k = Len(rest) + 1
          BY <2>4, <5>2
        <5>4. rest = <<>>
          BY <5>2, <5>3 DEF Joining
        <5> QED BY <4>1, <5>1, <5>3, <5>4
      <4> QED BY <4>3, <4>4
    <3> QED BY <1>6, <3>1, <3>2
  <2>6. \A d \in Contexts \ {c} : OneAnswerAhead(d)' /\ FirstWaits(d)'
    BY <2>1, OthersFresh
  <2> QED BY <2>1, <2>5, <2>6 DEF FreshInv, FirstIsFresh
<1>7. CASE UNCHANGED requestVars
  BY <1>7 DEF requestVars, FreshInv, OneAnswerAhead, FirstWaits, FirstIsFresh
<1> QED BY <1>1, <1>2, <1>3, <1>4, <1>5, <1>6, <1>7 DEF RequestsNext, Run

\* The callback that makes a context ask for an update is never called for an answer
\* that was complete before it was registered.
THEOREM FirstCallbacksAreFresh == RequestsSpec => []FirstIsFresh
<1>1. FreshInv => FirstIsFresh
  BY DEF FreshInv
<1> QED BY <1>1, InitUpdatesInv, NextUpdatesInv, InitFresh, NextFresh, PTL DEF RequestsSpec
=============================================================================
