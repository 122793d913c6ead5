----------------------------- MODULE TaxiRxProofs -----------------------------
(***************************************************************************)
(* Proofs about TaxiRx, for a ring of any size, any budget, and whether or *)
(* not a submission may fail: no completed frame is left without a poll,   *)
(* nothing runs after a stop, frames are taken in order, and every slot    *)
(* and every buffer is in one place.                                       *)
(***************************************************************************)
EXTENDS TaxiRx, DataLemmas

Stopped == {"disable", "disabling", "free", "down"}
Polling == {"take", "process", "submit", "issue"}

\* What a ring has at each place of its start and stop.
PhaseInv ==
    /\ poll \in PollSteps /\ ctl \in CtlSteps
    /\ napi \in {"disabled", "idle", "sched"}
    /\ rxRunning <=> ctl \in {"fill", "up", "clear"}
    /\ disabling <=> ctl = "disabling"
    /\ napi = "disabled" <=> ctl \in {"free", "down"}
    /\ ctl \in Stopped => armed = <<>> /\ queued = <<>> /\ ~cb
    /\ ctl = "fill" => ~cb /\ armed = <<>>
    /\ ctl \in {"down", "fill"} => rxDone = <<>> /\ rxPending = <<>> /\ napi # "sched"

\* What a poll has at each of its steps.
PollInv ==
    /\ work \in 0..Budget
    /\ poll # "idle" => napi = "sched"
    /\ poll \in {"process", "submit"} => work < Budget
    /\ cur # None => poll \in {"process", "submit"}
    /\ poll = "complete" => work < Budget
    /\ poll \in {"issue", "complete"} /\ work < Budget => rxPending = <<>>
    /\ ctl = "up" /\ queued # <<>> => poll \in Polling /\ work > 0

RxInv == PhaseInv /\ PollInv /\ NoLostPoll

LEMMA RxInit == Init => RxInv
  BY BudgetAssumption
     DEF Init, RxInv, PhaseInv, PollInv, NoLostPoll, PollSteps, CtlSteps, Stopped, Polling

\* The engine's callback schedules the poll of what it has put on the list.
LEMMA EngineStep ==
    ASSUME RxInv, Engine
    PROVE  RxInv'
<1> USE DEF RxInv, PhaseInv, PollInv, NoLostPoll, lists, napiVars, pollVars, Stopped
<1>1. CASE RxComplete
  BY <1>1 DEF RxComplete
<1>2. CASE RxSchedule
  BY <1>2 DEF RxSchedule, NapiSchedule
<1> QED BY <1>1, <1>2 DEF Engine

\* A poll gives up being scheduled only with nothing left to do, or checks again.
LEMMA PollStepKeeps ==
    ASSUME RxInv, Poll
    PROVE  RxInv'
<1> USE DEF RxInv, PhaseInv, PollInv, NoLostPoll, lists, napiVars, pollVars, Stopped, Polling,
            PollSteps
<1>1. CASE PollBegin
  BY <1>1, BudgetAssumption DEF PollBegin
<1>2. CASE PollTake
  <2> DEFINE batch == IF rxPending # <<>> THEN rxPending ELSE OldestFirst
  <2>1. CASE BudgetSpent \/ batch = <<>>
    <3>1. poll' = "issue" /\ UNCHANGED <<rxDone, rxPending, cur>>
      BY <1>2, <2>1 DEF PollTake
    <3>2. work < Budget => rxPending = <<>>
      BY <2>1, BudgetAssumption DEF BudgetSpent
    <3>3. UNCHANGED <<armed, queued, cb, napiVars, work, recheck, rxRunning, ctl>>
      BY <1>2 DEF PollTake
    <3> QED BY <1>2, <3>1, <3>2, <3>3 DEF PollTake
  <2>2. CASE ~(BudgetSpent \/ batch = <<>>)
    <3>1. poll' = "process" /\ rxDone' \in {rxDone, <<>>}
      BY <1>2, <2>2 DEF PollTake
    <3>2. work < Budget
      BY <2>2, BudgetAssumption DEF BudgetSpent
    <3>3. UNCHANGED <<armed, queued, cb, napiVars, work, recheck, rxRunning, ctl>>
      BY <1>2 DEF PollTake
    <3>4. ctl \notin {"down", "fill"}
      BY <1>2 DEF PollTake
    <3> QED BY <1>2, <3>1, <3>2, <3>3, <3>4 DEF PollTake
  <2> QED BY <2>1, <2>2
<1>3. CASE PollProcess
  BY <1>3 DEF PollProcess
<1>4. CASE PollSubmit
  BY <1>4, BudgetAssumption DEF PollSubmit, MaySubmit
<1>5. CASE PollIssue
  <2>1. armed = <<>> /\ queued = <<>> => armed' = <<>>
    BY <1>5 DEF PollIssue
  <2>2. queued' = IF work > 0 THEN <<>> ELSE queued
    BY <1>5 DEF PollIssue, AnyDone
  <2> QED BY <1>5, <2>1, <2>2, BudgetAssumption DEF PollIssue, UnderBudget
<1>6. CASE PollComplete
  BY <1>6 DEF PollComplete
<1>7. CASE PollRecheck
  BY <1>7 DEF PollRecheck, NapiSchedule
<1> QED BY <1>1, <1>2, <1>3, <1>4, <1>5, <1>6, <1>7 DEF Poll, PollStep

\* A stop ends the submissions, then the callbacks, then the poll.
LEMMA ControlStep ==
    ASSUME RxInv, Control
    PROVE  RxInv'
<1> USE DEF RxInv, PhaseInv, PollInv, NoLostPoll, lists, napiVars, pollVars, Stopped, CtlSteps
<1>1. CASE RingStart
  BY <1>1 DEF RingStart
<1>2. CASE RingFill
  <2>1. ctl = "fill" /\ ctl' \in {"up", "clear"} /\ (ctl' = "up" => queued' = <<>>)
    BY <1>2 DEF RingFill
  <2>2. UNCHANGED <<rxDone, rxPending, cb, napiVars, pollVars, rxRunning>>
    BY <1>2 DEF RingFill
  <2> QED BY <2>1, <2>2
<1>3. CASE RingStop
  BY <1>3 DEF RingStop
<1>4. CASE ClearRunning
  BY <1>4 DEF ClearRunning
<1>5. CASE Terminate
  BY <1>5 DEF Terminate, CallbackOver
<1>6. CASE NapiDisable
  BY <1>6 DEF NapiDisable
<1>7. CASE NapiDisabled
  BY <1>7 DEF NapiDisabled
<1>8. CASE FreeBuffers
  BY <1>8 DEF FreeBuffers
<1> QED BY <1>1, <1>2, <1>3, <1>4, <1>5, <1>6, <1>7, <1>8 DEF Control, Stopping

LEMMA RxStep == RxInv /\ [Next]_vars => RxInv'
<1> SUFFICES ASSUME RxInv, [Next]_vars PROVE RxInv'
  OBVIOUS
<1>1. CASE Engine \/ Poll \/ Control
  BY <1>1, EngineStep, PollStepKeeps, ControlStep
<1>2. CASE UNCHANGED vars
  BY <1>2 DEF vars, lists, napiVars, pollVars, RxInv, PhaseInv, PollInv, NoLostPoll
<1> QED BY <1>1, <1>2 DEF Next

\* A frame that completes while taxi_rx_poll finishes is polled for: the list is
\* looked at again after napi_complete_done.
THEOREM RxNoLostPoll == Spec => []NoLostPoll
  BY RxInit, RxStep, PTL DEF Spec, RxInv

\* taxi_rx_ring_stop: nothing is submitted once the engine is terminated, and
\* no poll or callback runs when the buffers are freed.
THEOREM RxNothingRunsAfterStop == Spec => []NothingRunsAfterStop
<1>1. RxInv => NothingRunsAfterStop
  BY DEF RxInv, PhaseInv, PollInv, Stopped, NothingRunsAfterStop
<1> QED BY <1>1, RxInit, RxStep, PTL DEF Spec

----------------------------------------------------------------------------
(* Order.                                                                  *)

\* The lists are of slots, and in order.
OrderInv ==
    /\ {queued, armed, rxDone, rxPending, arrived} \subseteq Seq(Slots)
    /\ poll \in {"process", "submit"} => cur \in Slots
    /\ CompletionOrder

LEMMA OrderComplete ==
    ASSUME OrderInv, RxComplete
    PROVE  OrderInv'
<1>1. /\ armed # <<>> /\ armed' = Tail(armed) /\ rxDone' = <<Head(armed)>> \o rxDone
      /\ arrived' = Append(arrived, Head(armed))
      /\ UNCHANGED <<queued, rxPending, poll, cur>>
  BY DEF RxComplete, pollVars
<1>2. armed \in Seq(Slots) /\ rxDone \in Seq(Slots) /\ rxPending \in Seq(Slots)
      /\ arrived \in Seq(Slots) /\ arrived = rxPending \o Reverse(rxDone)
  BY DEF OrderInv, CompletionOrder
<1>3. Head(armed) \in Slots /\ Tail(armed) \in Seq(Slots)
  BY <1>1, <1>2, HeadTailProperties
<1>4. <<Head(armed)>> \o rxDone \in Seq(Slots)
  BY <1>2, <1>3, ConcatProperties
<1>5. Append(rxPending \o Reverse(rxDone), Head(armed))
        = rxPending \o Reverse(<<Head(armed)>> \o rxDone)
  BY <1>2, <1>3, PushIsAppend
<1>6. arrived' \in Seq(Slots)
  BY <1>1, <1>2, <1>3
<1>7. arrived' = rxPending' \o Reverse(rxDone')
  BY <1>1, <1>2, <1>5
<1> QED BY <1>1, <1>2, <1>3, <1>4, <1>6, <1>7 DEF OrderInv, CompletionOrder

\* The poll takes the oldest frame there is: the rest of the batch before, or
\* the first of the reversed list.
LEMMA OrderTake ==
    ASSUME OrderInv, PollTake
    PROVE  OrderInv'
<1> DEFINE r == Reverse(rxDone)
           batch == IF rxPending # <<>> THEN rxPending ELSE r
<1>1. rxDone \in Seq(Slots) /\ rxPending \in Seq(Slots) /\ r \in Seq(Slots)
      /\ arrived \in Seq(Slots) /\ arrived = rxPending \o r
  BY ReverseType DEF OrderInv, CompletionOrder
<1>2. UNCHANGED <<queued, armed>>
  BY DEF PollTake
<1>3. CASE BudgetSpent \/ batch = <<>>
  <2>1. poll' = "issue" /\ UNCHANGED <<rxDone, rxPending, arrived>>
    BY <1>3 DEF PollTake, OldestFirst
  <2> QED BY <1>1, <1>2, <2>1 DEF OrderInv, CompletionOrder
<1>4. CASE ~(BudgetSpent \/ batch = <<>>)
  <2>1. /\ batch # <<>> /\ batch \in Seq(Slots)
        /\ cur' = Head(batch) /\ rxPending' = Tail(batch) /\ arrived' = Tail(arrived)
        /\ rxDone' = IF rxPending # <<>> THEN rxDone ELSE <<>>
    BY <1>1, <1>4 DEF PollTake, OldestFirst
  <2>2. cur' \in Slots /\ rxPending' \in Seq(Slots)
    BY <2>1, HeadTailProperties
  <2>3. rxDone' \in Seq(Slots)
    BY <1>1, <2>1
  <2>4. arrived' = rxPending' \o Reverse(rxDone')
    <3>1. CASE rxPending # <<>>
      <4>1. rxPending' = Tail(rxPending) /\ rxDone' = rxDone
        BY <2>1, <3>1
      <4>2. Tail(rxPending \o r) = Tail(rxPending) \o r
        <5> HIDE DEF r
        <5> QED BY <1>1, <3>1
      <4> QED BY <1>1, <2>1, <4>1, <4>2
    <3>2. CASE rxPending = <<>>
      <4>1. rxPending' = Tail(r) /\ rxDone' = <<>> /\ arrived = r
        BY <1>1, <2>1, <3>2, ConcatEmptySeq
      <4>2. Tail(r) \in Seq(Slots)
        BY <2>2, <4>1
      <4> QED BY <2>1, <4>1, <4>2, ReverseEmpty, ConcatEmptySeq
    <3> QED BY <3>1, <3>2
  <2>5. arrived' \in Seq(Slots)
    BY <2>2, <2>3, <2>4, ReverseType, ConcatProperties
  <2> QED BY <1>1, <1>2, <2>2, <2>3, <2>4, <2>5 DEF OrderInv, CompletionOrder
<1> QED BY <1>3, <1>4

LEMMA OrderFill ==
    ASSUME OrderInv, RingFill
    PROVE  OrderInv'
<1>1. PICK n \in 0..RxRing : LET filled == [i \in 1..n |-> i - 1]
                             IN  {queued', armed'} \subseteq {<<>>, filled}
  BY DEF RingFill
<1>2. [i \in 1..n |-> i - 1] \in Seq(Slots)
  <2>1. [i \in 1..n |-> i - 1] \in [1..n -> Slots]
    BY RxRingAssumption DEF Slots
  <2> QED BY <2>1, SeqDef
<1>3. {queued', armed'} \subseteq Seq(Slots)
  <2>1. <<>> \in Seq(Slots)
    OBVIOUS
  <2> QED BY <1>1, <1>2, <2>1
<1> QED BY <1>3 DEF RingFill, OrderInv, CompletionOrder, pollVars

LEMMA OrderStep == OrderInv /\ [Next]_vars => OrderInv'
<1> SUFFICES ASSUME OrderInv, [Next]_vars PROVE OrderInv'
  OBVIOUS
<1> USE DEF OrderInv, CompletionOrder, lists, pollVars
<1>1. <<>> \in Seq(Slots)
  OBVIOUS
<1>2. CASE RxComplete
  BY <1>2, OrderComplete
<1>3. CASE PollTake
  BY <1>3, OrderTake
<1>4. CASE PollSubmit
  <2>1. queued' \in {queued, Append(queued, cur)} /\ cur \in Slots /\ poll' = "take"
    BY <1>4 DEF PollSubmit
  <2>2. Append(queued, cur) \in Seq(Slots)
    BY <2>1
  <2>3. queued' \in Seq(Slots)
    BY <2>1, <2>2
  <2> QED BY <1>4, <2>1, <2>3 DEF PollSubmit
<1>5. CASE PollIssue
  <2>1. armed \o queued \in Seq(Slots)
    BY ConcatProperties
  <2>2. armed' \in Seq(Slots) /\ queued' \in Seq(Slots)
    BY <1>1, <1>5, <2>1 DEF PollIssue
  <2> QED BY <1>5, <2>2 DEF PollIssue
<1>6. CASE RingFill
  BY <1>6, OrderFill
<1>7. CASE FreeBuffers
  <2>1. rxDone' = <<>> /\ rxPending' = <<>> /\ arrived' = <<>>
        /\ UNCHANGED <<queued, armed, poll, cur>>
    BY <1>7 DEF FreeBuffers
  <2>2. arrived' = rxPending' \o Reverse(rxDone')
    BY <1>1, <2>1, ReverseEmpty, ConcatEmptySeq
  <2> QED BY <1>1, <2>1, <2>2
<1>8. CASE Terminate
  BY <1>1, <1>8 DEF Terminate
<1>9. CASE RxSchedule \/ PollBegin \/ PollProcess \/ PollComplete \/ PollRecheck
  BY <1>9 DEF RxSchedule, PollBegin, PollProcess, PollComplete, PollRecheck
<1>10. CASE RingStart \/ RingStop \/ ClearRunning \/ NapiDisable \/ NapiDisabled
  BY <1>10 DEF RingStart, RingStop, ClearRunning, NapiDisable, NapiDisabled
<1>11. CASE UNCHANGED vars
  BY <1>11 DEF vars
<1> QED BY <1>2, <1>3, <1>4, <1>5, <1>6, <1>7, <1>8, <1>9, <1>10, <1>11
        DEF Next, Engine, Poll, PollStep, Control, Stopping

LEMMA OrderInit == Init => OrderInv
<1> SUFFICES ASSUME Init PROVE OrderInv
  OBVIOUS
<1>1. <<>> \in Seq(Slots) /\ <<>> = <<>> \o Reverse(<<>>)
  BY ReverseEmpty, ConcatEmptySeq
<1> QED BY <1>1 DEF Init, OrderInv, CompletionOrder

----------------------------------------------------------------------------
(* Slots and buffers.                                                      *)

HeldSlots == ToSet(queued) \cup ToSet(armed) \cup ToSet(rxDone) \cup ToSet(rxPending)

\* No list repeats a slot or shares one with another list or with the poll.
ListsApart ==
    /\ IsInjective(queued) /\ IsInjective(armed) /\ IsInjective(rxDone) /\ IsInjective(rxPending)
    /\ ToSet(queued) \cap ToSet(armed) = {}
    /\ (ToSet(queued) \cup ToSet(armed)) \cap ToSet(rxDone) = {}
    /\ (ToSet(queued) \cup ToSet(armed) \cup ToSet(rxDone)) \cap ToSet(rxPending) = {}
    /\ cur \notin HeldSlots

\* Where a slot may be without a buffer, and when a buffer without a place.
SlotsFilled ==
    /\ \A s \in HeldSlots : skb[s] # None
    /\ poll = "process" => skb[cur] # None
    /\ poll = "submit" => skb[cur] = None
    /\ \A s \in Slots \ HeldSlots :
          skb[s] # None => \/ poll = "process" /\ s = cur
                          \/ ctl \in {"disable", "disabling", "free"}

\* The types RxInv and OrderInv say nothing about, and what the poll holds.
HandsInv ==
    /\ skb \in [Slots -> Skbs \cup {None}] /\ live \subseteq Skbs
    /\ cur \in Slots \cup {None} /\ new \in Skbs \cup {None}
    /\ {cb, missed, disabling, recheck, rxRunning} \subseteq BOOLEAN
    /\ cur # None <=> poll \in {"process", "submit"}
    /\ new # None <=> poll = "submit"
    /\ ctl \in {"down", "fill"} => queued = <<>>

SlotInv == RxInv /\ OrderInv /\ HandsInv /\ ListsApart /\ SlotsFilled /\ BufferOwnedOnce

LEMMA HeldParts ==
    ASSUME OrderInv
    PROVE  /\ ToSet(Held) = HeldSlots /\ HeldSlots \subseteq Slots
           /\ ListsApart <=> IsInjective(Held) /\ cur \notin ToSet(Held)
<1> DEFINE a == queued \o armed
           b == a \o rxDone
           c == b \o rxPending
<1>1. /\ queued \in Seq(Slots) /\ armed \in Seq(Slots)
      /\ rxDone \in Seq(Slots) /\ rxPending \in Seq(Slots)
  BY DEF OrderInv
<1>2. /\ a \in Seq(Slots) /\ ToSet(a) = ToSet(queued) \cup ToSet(armed)
      /\ IsInjective(a) <=> /\ IsInjective(queued) /\ IsInjective(armed)
                            /\ ToSet(queued) \cap ToSet(armed) = {}
  <2>1. a \in Seq(Slots) /\ ToSet(a) = ToSet(queued) \cup ToSet(armed)
    BY <1>1, ConcatToSet, ConcatProperties
  <2>2. IsInjective(a) <=> /\ IsInjective(queued) /\ IsInjective(armed)
                           /\ ToSet(queued) \cap ToSet(armed) = {}
    BY <1>1, ConcatInjective
  <2> QED BY <2>1, <2>2
<1> HIDE DEF a
<1>3. /\ b \in Seq(Slots) /\ ToSet(b) = ToSet(a) \cup ToSet(rxDone)
      /\ IsInjective(b) <=> /\ IsInjective(a) /\ IsInjective(rxDone)
                            /\ ToSet(a) \cap ToSet(rxDone) = {}
  BY <1>1, <1>2, ConcatSets, ZenonT(60)
<1> HIDE DEF b
<1>4. /\ c \in Seq(Slots) /\ ToSet(c) = ToSet(b) \cup ToSet(rxPending)
      /\ IsInjective(c) <=> /\ IsInjective(b) /\ IsInjective(rxPending)
                            /\ ToSet(b) \cap ToSet(rxPending) = {}
  BY <1>1, <1>3, ConcatSets, ZenonT(60)
<1>5. Held = c
  BY DEF Held, a, b
<1> HIDE DEF c
<1>6. ToSet(c) \subseteq Slots
  BY <1>4, ElementsOfSeq
<1> QED BY <1>2, <1>3, <1>4, <1>5, <1>6 DEF HeldSlots, ListsApart

LEMMA SlotInvGivesConsistent == SlotInv => BuffersConsistent
<1> SUFFICES ASSUME SlotInv PROVE BuffersConsistent
  OBVIOUS
<1>1. TypeOK
  BY DEF SlotInv, HandsInv, OrderInv, RxInv, PhaseInv, PollInv, TypeOK
<1>2. SlotInOnePlace
  <2>1. IsInjective(Held) /\ cur \notin ToSet(Held) /\ ToSet(Held) = HeldSlots
    BY HeldParts DEF SlotInv
  <2> QED BY <2>1 DEF SlotInv, SlotsFilled, SlotInOnePlace
<1> QED BY <1>1, <1>2 DEF BuffersConsistent, SlotInv, OrderInv

LEMMA SlotInit == Init => SlotInv
<1> SUFFICES ASSUME Init PROVE SlotInv
  OBVIOUS
<1>1. OrderInv
  BY OrderInit
<1>2. HeldSlots = {} /\ ListsApart
  BY NoElements DEF Init, HeldSlots, ListsApart
<1>3. HandsInv
  BY DEF Init, HandsInv
<1>4. SlotsFilled /\ BufferOwnedOnce
  BY <1>2 DEF Init, SlotsFilled, BufferOwnedOnce
<1> QED BY <1>1, <1>2, <1>3, <1>4, RxInit DEF SlotInv

LEMMA HandsStep ==
    ASSUME SlotInv, [Next]_vars
    PROVE  HandsInv'
<1> USE DEF SlotInv, HandsInv, RxInv, PhaseInv, PollInv, Stopped, lists, napiVars, pollVars
<1>1. CASE PollTake
  <2>1. UNCHANGED <<skb, live, new, queued, cb, missed, disabling, recheck, rxRunning, ctl>>
    BY <1>1 DEF PollTake
  <2>2. poll = "take" /\ ((poll' = "issue" /\ cur' = cur) \/ poll' = "process")
    BY <1>1 DEF PollTake
  <2>3. poll' = "process" => cur' \in Slots
    BY <1>1, OrderTake DEF OrderInv
  <2>4. cur' \in Slots => cur' # None
    BY NoneAssumption DEF Slots
  <2> QED BY <2>1, <2>2, <2>3, <2>4
<1>2. CASE PollProcess
  <2>1. /\ poll = "process" /\ poll' = "submit" /\ cur' = cur /\ cur \in Slots
        /\ skb' = [skb EXCEPT ![cur] = None]
        /\ \/ new' = skb[cur] /\ live' = live
           \/ \E b \in Skbs : new' = b /\ live' = (live \ {skb[cur]}) \cup {b}
    BY <1>2 DEF PollProcess, OrderInv
  <2>2. UNCHANGED <<queued, cb, missed, disabling, recheck, rxRunning, ctl>>
    BY <1>2 DEF PollProcess
  <2>3. skb[cur] \in Skbs
    BY <2>1 DEF SlotsFilled
  <2> QED BY <2>1, <2>2, <2>3, NoneAssumption
<1>3. CASE PollSubmit
  BY <1>3 DEF PollSubmit, OrderInv, FreeNew
<1>4. CASE RingFill
  <2>1. /\ UNCHANGED <<cur, new, poll, cb, missed, disabling, recheck, rxRunning>>
        /\ ctl' \in {"up", "clear"}
    BY <1>4 DEF RingFill
  <2>2. PICK n \in 0..RxRing : \E b \in [0..(n - 1) -> Skbs] :
            /\ skb' = [s \in Slots |-> IF s < n THEN b[s] ELSE None]
            /\ live' = {b[s] : s \in 0..(n - 1)}
    BY <1>4 DEF RingFill
  <2>3. PICK b \in [0..(n - 1) -> Skbs] :
            /\ skb' = [s \in Slots |-> IF s < n THEN b[s] ELSE None]
            /\ live' = {b[s] : s \in 0..(n - 1)}
    BY <2>2
  <2>4. \A s \in Slots : s < n => s \in 0..(n - 1)
    BY RxRingAssumption DEF Slots
  <2> QED BY <2>1, <2>3, <2>4
<1>5. CASE FreeBuffers
  BY <1>5 DEF FreeBuffers
<1>6. CASE RxComplete \/ RxSchedule \/ PollBegin \/ PollIssue
  BY <1>6 DEF RxComplete, RxSchedule, NapiSchedule, PollBegin, PollIssue
<1>7. CASE PollComplete \/ PollRecheck
  BY <1>7 DEF PollComplete, PollRecheck, NapiSchedule
<1>8. CASE RingStart \/ RingStop \/ ClearRunning \/ Terminate \/ NapiDisable \/ NapiDisabled
  BY <1>8 DEF RingStart, RingStop, ClearRunning, Terminate, NapiDisable, NapiDisabled
<1>9. CASE UNCHANGED vars
  BY <1>9 DEF vars
<1> QED BY <1>1, <1>2, <1>3, <1>4, <1>5, <1>6, <1>7, <1>8, <1>9
        DEF Next, Engine, Poll, PollStep, Control, Stopping

\* What the lists hold matters, not how it is spread over them.
LEMMA SameSlots ==
    ASSUME SlotInv, HeldSlots' = HeldSlots, UNCHANGED <<skb, cur, new, live>>,
           poll' # poll => poll \notin {"process", "submit"} /\ poll' \notin {"process", "submit"},
           ctl \in {"disable", "disabling", "free"} => ctl' \in {"disable", "disabling", "free"}
    PROVE  SlotsFilled' /\ BufferOwnedOnce'
<1>1. SlotsFilled'
  BY DEF SlotInv, SlotsFilled
<1>2. BufferOwnedOnce'
  BY DEF SlotInv, BufferOwnedOnce
<1> QED BY <1>1, <1>2

\* The callback moves the slot of a frame from the engine to rx_done.
LEMMA SlotComplete ==
    ASSUME SlotInv, RxComplete
    PROVE  ListsApart' /\ SlotsFilled' /\ BufferOwnedOnce'
<1> DEFINE h == Head(armed)
           r == Tail(armed)
           o == <<h>>
<1>1. /\ armed # <<>> /\ armed' = r /\ rxDone' = o \o rxDone
      /\ UNCHANGED <<queued, rxPending, skb, cur, new, live, poll, ctl>>
  BY DEF RxComplete, pollVars
<1>2. armed \in Seq(Slots) /\ rxDone \in Seq(Slots)
  BY DEF SlotInv, OrderInv
<1>3. /\ h \in Slots /\ r \in Seq(Slots) /\ ToSet(armed) = {h} \cup ToSet(r)
      /\ IsInjective(armed) <=> IsInjective(r) /\ h \notin ToSet(r)
  BY <1>1, <1>2, HeadTailSets, Zenon
<1> HIDE DEF h, r
<1>4. o \in Seq(Slots) /\ ToSet(o) = {h} /\ IsInjective(o)
  BY <1>3, OneElement
<1> HIDE DEF o
<1>5. /\ ToSet(o \o rxDone) = ToSet(o) \cup ToSet(rxDone)
      /\ IsInjective(o \o rxDone) <=> /\ IsInjective(o) /\ IsInjective(rxDone)
                                      /\ ToSet(o) \cap ToSet(rxDone) = {}
  BY <1>2, <1>4, ConcatSets, Zenon
<1>6. IsInjective(armed) /\ IsInjective(rxDone) /\ ToSet(armed) \cap ToSet(rxDone) = {}
  BY DEF SlotInv, ListsApart
<1>7. IsInjective(rxDone') /\ IsInjective(armed') /\ h \notin ToSet(armed')
  BY <1>1, <1>3, <1>4, <1>5, <1>6
<1>8. HeldSlots' = HeldSlots
  BY <1>1, <1>3, <1>4, <1>5 DEF HeldSlots
<1>9. ListsApart'
  <2>1. ToSet(armed') \subseteq ToSet(armed) /\ ToSet(rxDone') = {h} \cup ToSet(rxDone)
        /\ h \in ToSet(armed)
    BY <1>1, <1>3, <1>4, <1>5
  <2> QED BY <1>1, <1>7, <1>8, <2>1 DEF SlotInv, ListsApart
<1> QED BY <1>1, <1>8, <1>9, SameSlots

\* The poll takes a slot off the lists.
LEMMA SlotTake ==
    ASSUME SlotInv, PollTake
    PROVE  ListsApart' /\ SlotsFilled' /\ BufferOwnedOnce'
<1> DEFINE r == Reverse(rxDone)
           batch == IF rxPending # <<>> THEN rxPending ELSE r
<1>1. /\ rxDone \in Seq(Slots) /\ rxPending \in Seq(Slots) /\ r \in Seq(Slots)
      /\ ToSet(r) = ToSet(rxDone) /\ IsInjective(r)
  BY ReverseSets DEF SlotInv, OrderInv, ListsApart
<1>2. UNCHANGED <<queued, armed, skb, new, live, ctl>> /\ poll = "take"
  BY DEF PollTake
<1>3. CASE BudgetSpent \/ batch = <<>>
  <2>1. poll' = "issue" /\ UNCHANGED <<rxDone, rxPending, cur>>
    BY <1>3 DEF PollTake, OldestFirst
  <2>2. HeldSlots' = HeldSlots
    BY <1>2, <2>1 DEF HeldSlots
  <2>3. ListsApart'
    BY <1>2, <2>1, <2>2 DEF SlotInv, ListsApart
  <2> QED BY <1>2, <2>1, <2>2, <2>3, SameSlots
<1>4. CASE ~(BudgetSpent \/ batch = <<>>)
  <2> DEFINE h == Head(batch)
             u == Tail(batch)
  <2>1. /\ batch # <<>> /\ batch \in Seq(Slots) /\ poll' = "process"
        /\ cur' = h /\ rxPending' = u
        /\ rxDone' = IF rxPending # <<>> THEN rxDone ELSE <<>>
    BY <1>1, <1>4 DEF PollTake, OldestFirst
  <2>2. /\ IsInjective(batch) /\ IsInjective(rxDone')
        /\ ToSet(batch) \cup ToSet(rxDone') = ToSet(rxDone) \cup ToSet(rxPending)
        /\ ToSet(batch) \cap ToSet(rxDone') = {} /\ ToSet(rxDone') \subseteq ToSet(rxDone)
    <3>1. CASE rxPending # <<>>
      BY <2>1, <3>1 DEF SlotInv, ListsApart
    <3>2. CASE rxPending = <<>>
      BY <1>1, <2>1, <3>2, NoElements
    <3> QED BY <3>1, <3>2
  <2>3. /\ h \in Slots /\ ToSet(batch) = {h} \cup ToSet(u)
        /\ IsInjective(batch) <=> IsInjective(u) /\ h \notin ToSet(u)
    <3> HIDE DEF batch
    <3> QED BY <2>1, HeadTailSets, Zenon
  <2> HIDE DEF batch, h, u
  <2>4. h \in HeldSlots /\ HeldSlots' = HeldSlots \ {h}
    <3>1. h \notin ToSet(queued) \cup ToSet(armed) \cup ToSet(rxDone') \cup ToSet(u)
      BY <2>2, <2>3 DEF SlotInv, ListsApart
    <3>2. HeldSlots = ToSet(queued) \cup ToSet(armed) \cup ToSet(rxDone') \cup ToSet(u) \cup {h}
      BY <2>2, <2>3 DEF HeldSlots
    <3>3. HeldSlots' = ToSet(queued) \cup ToSet(armed) \cup ToSet(rxDone') \cup ToSet(u)
      BY <1>2, <2>1 DEF HeldSlots
    <3> QED BY <3>1, <3>2, <3>3
  <2>5. ListsApart'
    <3>1. ToSet(rxPending') \subseteq ToSet(batch) /\ IsInjective(rxPending')
      BY <2>1, <2>2, <2>3
    <3>2. ToSet(rxPending') \subseteq ToSet(rxDone) \cup ToSet(rxPending)
      BY <2>2, <3>1
    <3>3. ToSet(rxDone') \cap ToSet(rxPending') = {}
      BY <2>2, <3>1
    <3> QED BY <1>2, <2>1, <2>2, <2>4, <3>1, <3>2, <3>3 DEF SlotInv, ListsApart
  <2>6. SlotsFilled'
    BY <1>2, <2>1, <2>4 DEF SlotInv, SlotsFilled
  <2>7. BufferOwnedOnce'
    BY <1>2 DEF SlotInv, BufferOwnedOnce
  <2> QED BY <2>5, <2>6, <2>7
<1> QED BY <1>3, <1>4

\* taxi_rx_process takes the buffer out of the slot.
LEMMA SlotProcess ==
    ASSUME SlotInv, PollProcess
    PROVE  ListsApart' /\ SlotsFilled' /\ BufferOwnedOnce'
<1>1. /\ poll = "process" /\ poll' = "submit"
      /\ UNCHANGED <<queued, armed, rxDone, rxPending, cur, ctl>>
      /\ skb' = [skb EXCEPT ![cur] = None]
  BY DEF PollProcess, lists
<1>2. /\ cur \in Slots /\ cur \notin HeldSlots /\ skb \in [Slots -> Skbs \cup {None}]
      /\ skb[cur] # None /\ new = None
  BY <1>1 DEF SlotInv, OrderInv, ListsApart, HandsInv, SlotsFilled
<1>3. HeldSlots' = HeldSlots /\ HeldSlots \subseteq Slots
  BY <1>1, HeldParts DEF SlotInv, HeldSlots
<1>4. ListsApart'
  BY <1>1, <1>3 DEF SlotInv, ListsApart
<1>5. /\ skb'[cur] = None
      /\ \A s \in Slots : s # cur => skb'[s] = skb[s]
  BY <1>1, <1>2
<1>6. SlotsFilled'
  <2>1. cur' = cur /\ poll' = "submit" /\ ctl' = ctl
    BY <1>1
  <2>2. \A s \in HeldSlots : skb'[s] # None
    BY <1>2, <1>3, <1>5 DEF SlotInv, SlotsFilled
  <2>3. \A s \in Slots \ HeldSlots : skb'[s] # None => ctl \in {"disable", "disabling", "free"}
    BY <1>1, <1>5 DEF SlotInv, SlotsFilled
  <2> QED BY <1>3, <1>5, <2>1, <2>2, <2>3 DEF SlotsFilled
<1>7. BufferOwnedOnce'
  <2>1. /\ live = {skb[s] : s \in {s \in Slots : skb[s] # None}}
        /\ \A s, t \in Slots : skb[s] # None /\ skb[s] = skb[t] => s = t
    BY <1>2 DEF SlotInv, BufferOwnedOnce
  <2>2. \A s \in Slots : skb'[s] # None <=> skb[s] # None /\ s # cur
    BY <1>5
  <2>3. {skb'[s] : s \in {s \in Slots : skb'[s] # None}} = live \ {skb[cur]}
    BY <1>2, <1>5, <2>1, <2>2
  <2>4. \/ new' = skb[cur] /\ live' = live
        \/ \E b \in Skbs \ live : new' = b /\ live' = (live \ {skb[cur]}) \cup {b}
    BY DEF PollProcess
  <2>5. new' # None /\ new' \notin live \ {skb[cur]} /\ live' = (live \ {skb[cur]}) \cup {new'}
    BY <1>2, <2>1, <2>4, NoneAssumption
  <2>6. \A s \in Slots : skb'[s] # None => skb'[s] # new'
    BY <2>3, <2>5
  <2>7. \A s, t \in Slots : skb'[s] # None /\ skb'[s] = skb'[t] => s = t
    BY <1>5, <2>1
  <2> QED BY <2>3, <2>5, <2>6, <2>7 DEF BufferOwnedOnce
<1> QED BY <1>4, <1>6, <1>7

\* Under rx_lock the buffer goes into its slot and the slot to the engine, or,
\* once the ring is stopped or the submission fails, the buffer is freed.
LEMMA SlotSubmit ==
    ASSUME SlotInv, PollSubmit
    PROVE  ListsApart' /\ SlotsFilled' /\ BufferOwnedOnce'
<1>1. /\ poll = "submit" /\ poll' = "take" /\ cur' = None /\ new' = None
      /\ UNCHANGED <<armed, rxDone, rxPending, ctl>>
  BY DEF PollSubmit
<1>2. /\ cur \in Slots /\ cur \notin HeldSlots /\ skb \in [Slots -> Skbs \cup {None}]
      /\ skb[cur] = None /\ new # None /\ queued \in Seq(Slots) /\ HeldSlots \subseteq Slots
  BY <1>1, HeldParts DEF SlotInv, OrderInv, ListsApart, HandsInv, SlotsFilled
<1>3. None \notin Slots
  BY NoneAssumption DEF Slots
<1>4. /\ live = {skb[s] : s \in {s \in Slots : skb[s] # None}} \cup {new}
      /\ \A s, t \in Slots : skb[s] # None /\ skb[s] = skb[t] => s = t
      /\ \A s \in Slots : skb[s] # new
  BY <1>2 DEF SlotInv, BufferOwnedOnce
<1>5. CASE skb' = [skb EXCEPT ![cur] = new] /\ queued' = Append(queued, cur) /\ live' = live
  <2>1. /\ ToSet(queued') = ToSet(queued) \cup {cur}
        /\ IsInjective(queued') <=> IsInjective(queued) /\ cur \notin ToSet(queued)
    BY <1>2, <1>5, AppendSets, Zenon
  <2>2. HeldSlots' = HeldSlots \cup {cur}
    BY <1>1, <2>1 DEF HeldSlots
  <2>3. ListsApart'
    <3>1. cur \notin ToSet(queued) \cup ToSet(armed) \cup ToSet(rxDone) \cup ToSet(rxPending)
      BY <1>2 DEF HeldSlots
    <3>2. cur' \notin HeldSlots'
      BY <1>1, <1>2, <1>3, <2>2
    <3> QED BY <1>1, <2>1, <3>1, <3>2 DEF SlotInv, ListsApart
  <2>4. skb'[cur] = new /\ \A s \in Slots : s # cur => skb'[s] = skb[s]
    BY <1>2, <1>5
  <2>5. SlotsFilled'
    <3>1. \A s \in HeldSlots' : skb'[s] # None
      BY <1>2, <2>2, <2>4 DEF SlotInv, SlotsFilled
    <3>2. \A s \in Slots \ HeldSlots' : skb'[s] # None => ctl \in {"disable", "disabling", "free"}
      BY <1>1, <2>2, <2>4 DEF SlotInv, SlotsFilled
    <3> QED BY <1>1, <3>1, <3>2 DEF SlotsFilled
  <2>6. BufferOwnedOnce'
    <3>1. {skb'[s] : s \in {s \in Slots : skb'[s] # None}} = live
      <4>1. \A s \in Slots : skb'[s] # None <=> s = cur \/ skb[s] # None
        BY <1>2, <2>4
      <4>2. \A x : (\E s \in Slots : skb'[s] # None /\ x = skb'[s])
                   <=> x = new \/ \E s \in Slots : skb[s] # None /\ x = skb[s]
        BY <1>2, <2>4, <4>1
      <4> QED BY <1>4, <4>2
    <3>2. \A s, t \in Slots : skb'[s] # None /\ skb'[s] = skb'[t] => s = t
      BY <1>2, <1>4, <2>4
    <3> QED BY <1>1, <1>5, <3>1, <3>2 DEF BufferOwnedOnce
  <2> QED BY <2>3, <2>5, <2>6
<1>6. CASE live' = live \ {new} /\ UNCHANGED <<skb, queued>>
  <2>1. HeldSlots' = HeldSlots
    BY <1>1, <1>6 DEF HeldSlots
  <2>2. ListsApart'
    BY <1>1, <1>2, <1>3, <1>6, <2>1 DEF SlotInv, ListsApart
  <2>3. SlotsFilled'
    BY <1>1, <1>6, <2>1 DEF SlotInv, SlotsFilled
  <2>4. live' = {skb[s] : s \in {s \in Slots : skb[s] # None}}
    BY <1>4, <1>6
  <2>5. BufferOwnedOnce'
    BY <1>1, <1>4, <1>6, <2>4 DEF BufferOwnedOnce
  <2> QED BY <2>2, <2>3, <2>5
<1> QED BY <1>5, <1>6 DEF PollSubmit, FreeNew

\* dma_async_issue_pending: the submitted slots follow the armed ones.
LEMMA SlotIssue ==
    ASSUME SlotInv, PollIssue
    PROVE  ListsApart' /\ SlotsFilled' /\ BufferOwnedOnce'
<1> DEFINE u == armed \o queued
<1>1. /\ poll = "issue" /\ poll' \in {"complete", "idle"}
      /\ UNCHANGED <<skb, rxDone, rxPending, cur, new, live, ctl>>
      /\ (armed' = u /\ queued' = <<>>) \/ UNCHANGED <<armed, queued>>
  BY DEF PollIssue
<1>2. armed \in Seq(Slots) /\ queued \in Seq(Slots)
  BY DEF SlotInv, OrderInv
<1>3. /\ ToSet(u) = ToSet(armed) \cup ToSet(queued)
      /\ IsInjective(u) <=> /\ IsInjective(armed) /\ IsInjective(queued)
                            /\ ToSet(armed) \cap ToSet(queued) = {}
  <2>1. ToSet(u) = ToSet(armed) \cup ToSet(queued)
    BY <1>2, ConcatToSet
  <2>2. IsInjective(u) <=> /\ IsInjective(armed) /\ IsInjective(queued)
                           /\ ToSet(armed) \cap ToSet(queued) = {}
    BY <1>2, ConcatInjective
  <2> QED BY <2>1, <2>2
<1> HIDE DEF u
<1>4. /\ IsInjective(armed') /\ IsInjective(queued')
      /\ ToSet(queued') \cap ToSet(armed') = {}
      /\ ToSet(queued') \cup ToSet(armed') = ToSet(queued) \cup ToSet(armed)
  BY <1>1, <1>3, NoElements DEF SlotInv, ListsApart
<1>5. HeldSlots' = HeldSlots
  BY <1>1, <1>4 DEF HeldSlots
<1>6. ListsApart'
  BY <1>1, <1>4, <1>5 DEF SlotInv, ListsApart
<1> QED BY <1>1, <1>5, <1>6, SameSlots

\* taxi_rx_ring_start: the first n slots get a buffer each.
LEMMA SlotFill ==
    ASSUME SlotInv, RingFill
    PROVE  ListsApart' /\ SlotsFilled' /\ BufferOwnedOnce'
<1>1. /\ ctl = "fill" /\ UNCHANGED <<rxDone, rxPending, poll, cur, new>>
      /\ rxDone = <<>> /\ rxPending = <<>> /\ cur = None /\ new = None
      /\ poll \notin {"process", "submit"}
  BY DEF RingFill, pollVars, SlotInv, RxInv, PhaseInv, PollInv, HandsInv
<1>2. PICK n \in 0..RxRing : LET filled == [i \in 1..n |-> i - 1]
          IN  \E b \in [0..(n - 1) -> Skbs] :
              /\ IsInjective(b)
              /\ skb' = [s \in Slots |-> IF s < n THEN b[s] ELSE None]
              /\ live' = {b[s] : s \in 0..(n - 1)}
              /\ IF n = RxRing
                 THEN armed' = filled /\ queued' = <<>> /\ ctl' = "up"
                 ELSE armed' = <<>> /\ queued' = filled /\ ctl' = "clear"
  BY DEF RingFill
<1> DEFINE filled == [i \in 1..n |-> i - 1]
<1>3. PICK b \in [0..(n - 1) -> Skbs] :
              /\ IsInjective(b)
              /\ skb' = [s \in Slots |-> IF s < n THEN b[s] ELSE None]
              /\ live' = {b[s] : s \in 0..(n - 1)}
              /\ \/ armed' = filled /\ queued' = <<>>
                 \/ armed' = <<>> /\ queued' = filled
  BY <1>2
<1>4. n \in Nat /\ n <= RxRing /\ RxRing \in Nat
  BY RxRingAssumption
<1>5. IsInjective(filled) /\ ToSet(filled) = 0..(n - 1)
  <2>1. DOMAIN filled = 1..n /\ \A i \in 1..n : filled[i] = i - 1
    OBVIOUS
  <2> HIDE DEF filled
  <2>2. IsInjective(filled)
    BY <1>4, <2>1 DEF IsInjective
  <2>3. \A x \in 0..(n - 1) : x + 1 \in 1..n /\ filled[x + 1] = x
    BY <1>4, <2>1
  <2>4. \A x \in 0..(n - 1) : x \in ToSet(filled)
    BY <2>1, <2>3 DEF ToSet
  <2>5. \A x \in ToSet(filled) : x \in 0..(n - 1)
    BY <1>4, <2>1 DEF ToSet
  <2> QED BY <2>2, <2>4, <2>5
<1> HIDE DEF filled
<1>6. /\ HeldSlots' = 0..(n - 1)
      /\ IsInjective(queued') /\ IsInjective(armed')
      /\ ToSet(queued') \cap ToSet(armed') = {}
  BY <1>1, <1>3, <1>5, NoElements DEF HeldSlots
<1>7. None \notin 0..(n - 1) /\ None \notin Skbs
  BY <1>4, NoneAssumption
<1>8. ListsApart'
  <2>1. IsInjective(rxDone') /\ IsInjective(rxPending') /\ ToSet(rxDone') = {} /\ ToSet(rxPending') = {}
    BY <1>1, NoElements
  <2>2. cur' \notin HeldSlots'
    BY <1>1, <1>6, <1>7
  <2> QED BY <1>6, <2>1, <2>2 DEF ListsApart
<1>9. /\ \A s \in 0..(n - 1) : s \in Slots /\ skb'[s] = b[s] /\ b[s] \in Skbs /\ b[s] # None
      /\ \A s \in Slots \ (0..(n - 1)) : skb'[s] = None
  BY <1>3, <1>4, <1>7 DEF Slots
<1>10. SlotsFilled'
  BY <1>1, <1>6, <1>9 DEF SlotsFilled
<1>11. BufferOwnedOnce'
  <2>1. {s \in Slots : skb'[s] # None} = 0..(n - 1)
    BY <1>9
  <2>2. live' = {skb'[s] : s \in 0..(n - 1)}
    BY <1>3, <1>9
  <2>3. \A s, t \in 0..(n - 1) : skb'[s] = skb'[t] => s = t
    BY <1>3, <1>9 DEF IsInjective
  <2>4. new' = None
    BY <1>1
  <2> QED BY <1>9, <2>1, <2>2, <2>3, <2>4 DEF BufferOwnedOnce
<1> QED BY <1>8, <1>10, <1>11

\* dmaengine_terminate_sync drops the engine's slots, their buffers stay;
\* taxi_rx_ring_stop frees them when nothing runs any more.
LEMMA SlotStop ==
    ASSUME SlotInv, Terminate \/ FreeBuffers
    PROVE  ListsApart' /\ SlotsFilled' /\ BufferOwnedOnce'
<1>1. ToSet(<<>>) = {} /\ IsInjective(<<>>)
  BY NoElements
<1>2. CASE Terminate
  <2>1. /\ armed' = <<>> /\ queued' = <<>> /\ ctl' = "disable"
        /\ UNCHANGED <<rxDone, rxPending, skb, cur, new, poll, live>>
    BY <1>2 DEF Terminate, pollVars
  <2>2. HeldSlots' = ToSet(rxDone) \cup ToSet(rxPending) /\ HeldSlots' \subseteq HeldSlots
    BY <1>1, <2>1 DEF HeldSlots
  <2>3. ListsApart'
    BY <1>1, <2>1, <2>2 DEF SlotInv, ListsApart
  <2>4. SlotsFilled'
    BY <2>1, <2>2 DEF SlotInv, SlotsFilled
  <2>5. BufferOwnedOnce'
    BY <2>1 DEF SlotInv, BufferOwnedOnce
  <2> QED BY <2>3, <2>4, <2>5
<1>3. CASE FreeBuffers
  <2>1. /\ ctl = "free" /\ rxDone' = <<>> /\ rxPending' = <<>> /\ live' = live \ {skb[s] : s \in Slots}
        /\ skb' = [s \in Slots |-> None] /\ UNCHANGED <<queued, armed, cur, new, poll>>
    BY <1>3 DEF FreeBuffers, pollVars
  <2>2. armed = <<>> /\ queued = <<>> /\ poll = "idle" /\ cur = None /\ new = None
    BY <2>1 DEF SlotInv, RxInv, PhaseInv, PollInv, HandsInv, Stopped
  <2>3. HeldSlots' = {}
    BY <1>1, <2>1, <2>2 DEF HeldSlots
  <2>4. ListsApart'
    BY <1>1, <2>1, <2>2, <2>3 DEF SlotInv, ListsApart
  <2>5. SlotsFilled'
    BY <2>1, <2>2, <2>3 DEF SlotsFilled
  <2>6. live' = {}
    BY <2>1, <2>2 DEF SlotInv, BufferOwnedOnce
  <2>7. BufferOwnedOnce'
    BY <2>1, <2>2, <2>6 DEF BufferOwnedOnce
  <2> QED BY <2>4, <2>5, <2>7
<1> QED BY <1>2, <1>3

\* The other steps move no slot and no buffer.
LEMMA SlotQuiet ==
    ASSUME SlotInv,
           \/ RxSchedule \/ PollBegin \/ PollComplete \/ PollRecheck
           \/ RingStart \/ RingStop \/ ClearRunning \/ NapiDisable \/ NapiDisabled
           \/ UNCHANGED vars
    PROVE  ListsApart' /\ SlotsFilled' /\ BufferOwnedOnce'
<1>1. /\ UNCHANGED <<queued, armed, rxDone, rxPending, skb, cur, new, live>>
      /\ poll' # poll => poll \notin {"process", "submit"} /\ poll' \notin {"process", "submit"}
      /\ ctl \in {"disable", "disabling", "free"} => ctl' \in {"disable", "disabling", "free"}
  BY DEF RxSchedule, PollBegin, PollComplete, PollRecheck, RingStart, RingStop, ClearRunning,
         NapiDisable, NapiDisabled, vars, lists, pollVars
<1>2. HeldSlots' = HeldSlots /\ ListsApart'
  BY <1>1 DEF SlotInv, ListsApart, HeldSlots
<1> QED BY <1>1, <1>2, SameSlots

LEMMA SlotStep == SlotInv /\ [Next]_vars => SlotInv'
<1> SUFFICES ASSUME SlotInv, [Next]_vars PROVE SlotInv'
  OBVIOUS
<1>1. RxInv' /\ OrderInv' /\ HandsInv'
  BY RxStep, OrderStep, HandsStep DEF SlotInv
<1>2. ListsApart' /\ SlotsFilled' /\ BufferOwnedOnce'
  BY SlotComplete, SlotTake, SlotProcess, SlotSubmit, SlotIssue, SlotFill, SlotStop, SlotQuiet
     DEF Next, Engine, Poll, PollStep, Control, Stopping
<1> QED BY <1>1, <1>2 DEF SlotInv

\* The receive ring keeps its accounts whatever fails and whenever it stops: no
\* slot is in two places, no buffer in two slots, none leaks, none is freed twice,
\* and frames are taken in the order of their completion.
THEOREM RxBuffersConsistent == Spec => []BuffersConsistent
  BY SlotInit, SlotStep, SlotInvGivesConsistent, PTL DEF Spec
=============================================================================
