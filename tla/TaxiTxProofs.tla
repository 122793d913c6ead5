---------------------------- MODULE TaxiTxProofs ----------------------------
(***************************************************************************)
(* Proofs about TaxiTx, for every ring size, wake threshold, counter width *)
(* and set of frames, whether or not the drain may time out.               *)
(***************************************************************************)
EXTENDS TaxiTx, DataLemmas

\* What the assumptions on the constants say, in the form the proofs use; the
\* counters wrap at no less than the ring size.
LEMMA ConstantFacts ==
    /\ Ring \in Nat \ {0} /\ Ring >= 2
    /\ Wrap \in Nat \ {0} /\ Wrap >= Ring /\ Wrap % Ring = 0
    /\ WakeThresh \in Nat /\ WakeThresh >= 1 /\ WakeThresh <= Ring - 1
<1>1. /\ Ring \in Nat \ {0} /\ Ring >= 2
      /\ Wrap \in Nat \ {0} /\ Wrap % Ring = 0
      /\ WakeThresh \in Nat /\ WakeThresh >= 1 /\ WakeThresh <= Ring - 1
  BY RingAssumption
<1>2. ASSUME Wrap < Ring PROVE FALSE
  <2>1. Wrap \in 0..(Ring - 1)
    BY <1>1, <1>2
  <2>2. Wrap % Ring = Wrap
    BY <1>1, <2>1, ModSmall
  <2> QED BY <1>1, <2>2
<1> QED BY <1>1, <1>2

\* A slot index and an advanced counter stay in range.
LEMMA IndexTypes ==
    ASSUME NEW n \in Int
    PROVE  /\ Slot(n) \in 0..(Ring - 1)
           /\ Inc(n) \in 0..(Wrap - 1)
<1>1. n % Ring \in 0..(Ring - 1)
  BY ConstantFacts, DivMod
<1>2. (n + 1) % Wrap \in 0..(Wrap - 1)
  BY ConstantFacts, DivMod
<1> QED BY <1>1, <1>2 DEF Slot, Inc

----------------------------------------------------------------------------
(* Type correctness.                                                       *)

\* The state after taxi_probe is well typed.
LEMMA TypeInit == Init => TypeOK
<1> SUFFICES ASSUME Init PROVE TypeOK
  OBVIOUS
<1> USE DEF Init
<1>1. RingTypes
  BY ConstantFacts DEF RingTypes
<1>2. EngineTypes
  BY DEF EngineTypes
<1>3. FrameTypes
  BY DEF FrameTypes, XmitSteps
<1>4. ControlTypes
  BY DEF ControlTypes, CtlSteps, Ops
<1> QED BY <1>1, <1>2, <1>3, <1>4 DEF TypeOK

\* The ring and its indices are touched by one action of each context only.
LEMMA RingTypesStep == RingTypes /\ FrameTypes /\ [Next]_vars => RingTypes'
<1> SUFFICES ASSUME RingTypes, FrameTypes, [Next]_vars PROVE RingTypes'
  OBVIOUS
<1> USE DEF RingTypes
<1>1. CASE XmitSubmit
  <2>1. Slot(head) \in 0..(Ring - 1) /\ Inc(head) \in 0..(Wrap - 1)
    BY IndexTypes
  <2> QED BY <1>1, <2>1 DEF XmitSubmit, LastSlotTaken, XmitDrop, Oops, ringVars, FrameTypes
<1>2. CASE TxComplete
  <2>1. Slot(tail) \in 0..(Ring - 1) /\ Inc(tail) \in 0..(Wrap - 1)
    BY IndexTypes
  <2> QED BY <1>2, <2>1 DEF TxComplete, EnoughRoom, Oops, ringVars
<1>3. CASE Flush
  BY <1>3, ConstantFacts DEF Flush, Flushed
<1>4. CASE UNCHANGED ringVars
  BY <1>4 DEF ringVars
<1> QED BY <1>1, <1>2, <1>3, <1>4
    DEF Next, Halted, Xmit, Dma, DatapathStart, DatapathStop, Ndo, vars, Oops,
        XmitEnter, XmitPrep, XmitIssue, EngineDone, Consume, RequestDma, RxRingStart,
        EnableMac, TxDrain, Terminate, Release, Open, PhyConnect, StartQueue, Stop,
        ChangeMtu, TxDisable, WakeQueue

\* Descriptors are appended, moved to the next stage or discarded.
LEMMA EngineTypesStep == EngineTypes /\ FrameTypes /\ [Next]_vars => EngineTypes'
<1> SUFFICES ASSUME EngineTypes, FrameTypes, [Next]_vars PROVE EngineTypes'
  OBVIOUS
<1> USE DEF EngineTypes
<1>1. CASE XmitSubmit
  <2>1. skb \in Frames
    BY <1>1 DEF XmitSubmit, LastSlotTaken, FrameTypes
  <2>2. Append(pending, skb) \in Seq(Frames)
    BY <2>1
  <2> QED BY <1>1, <2>2 DEF XmitSubmit, LastSlotTaken, Oops, engineVars
<1>2. CASE XmitIssue
  <2>1. issued \o pending \in Seq(Frames) /\ <<>> \in Seq(Frames)
    OBVIOUS
  <2> QED BY <1>2, <2>1 DEF XmitIssue, Oops, engineVars
<1>3. CASE EngineDone
  BY <1>3 DEF EngineDone
<1>4. CASE TxComplete
  <2>1. Tail(done) \in Seq(Frames)
    BY <1>4 DEF TxComplete, EnoughRoom
  <2> QED BY <1>4, <2>1 DEF TxComplete, EnoughRoom, Oops, engineVars
<1>5. CASE pending' = <<>> /\ issued' = <<>> /\ done' = <<>>
  BY <1>5
<1>6. CASE UNCHANGED engineVars
  BY <1>6 DEF engineVars
<1> QED BY <1>1, <1>2, <1>3, <1>4, <1>5, <1>6
    DEF Next, Halted, Xmit, Dma, DatapathStart, DatapathStop, Ndo, vars, Oops,
        XmitEnter, XmitPrep, Consume, RequestDma, RxRingStart, EnableMac, TxDrain,
        Terminate, Flush, Flushed, Release, Open, PhyConnect, StartQueue, Stop, ChangeMtu,
        TxDisable, WakeQueue

\* A frame is in the hands of ndo_start_xmit exactly between its entry and
\* the submission of its descriptor.
LEMMA FrameTypesStep == FrameTypes /\ RingTypes /\ [Next]_vars => FrameTypes'
<1> SUFFICES ASSUME FrameTypes, RingTypes, [Next]_vars PROVE FrameTypes'
  OBVIOUS
<1> USE NoneAssumption DEF FrameTypes, XmitSteps
<1>1. CASE XmitEnter
  BY <1>1 DEF XmitEnter, Oops, xmitVars
<1>2. CASE XmitPrep
  BY <1>2 DEF XmitPrep, XmitDrop, Oops, xmitVars
<1>3. CASE XmitSubmit
  BY <1>3 DEF XmitSubmit, LastSlotTaken, XmitDrop, Oops, xmitVars
<1>4. CASE XmitIssue
  BY <1>4 DEF XmitIssue, Oops, xmitVars
<1>5. CASE TxComplete
  <2>1. Slot(tail) \in 0..(Ring - 1)
    BY IndexTypes DEF RingTypes
  <2> QED BY <1>5, <2>1 DEF TxComplete, EnoughRoom, RingTypes, Oops, xmitVars
<1>6. CASE Consume
  BY <1>6 DEF Consume, xmitVars
<1>7. CASE Flush
  BY <1>7 DEF Flush, Flushed, xmitVars
<1>8. CASE UNCHANGED <<xmitVars, cb, live>>
  BY <1>8 DEF xmitVars
<1> QED BY <1>1, <1>2, <1>3, <1>4, <1>5, <1>6, <1>7, <1>8
    DEF Next, Halted, Xmit, Dma, DatapathStart, DatapathStop, Ndo, vars, Oops,
        EngineDone, RequestDma, RxRingStart, EnableMac, TxDrain, Terminate, Release,
        Open, PhyConnect, StartQueue, Stop, ChangeMtu, TxDisable, WakeQueue

\* The control path keeps its variables in their types.
LEMMA ControlTypesStep == ControlTypes /\ [Next]_vars => ControlTypes'
<1> SUFFICES ASSUME ControlTypes, [Next]_vars PROVE ControlTypes'
  OBVIOUS
<1> USE DEF ControlTypes, CtlSteps, Ops, Oops, ctlVars, queueVars, faults, MtuUnderWay
<1>1. CASE Xmit
  BY <1>1 DEF Xmit, XmitEnter, XmitPrep, XmitSubmit, LastSlotTaken, XmitIssue
<1>2. CASE Dma
  BY <1>2 DEF Dma, EngineDone, TxComplete, EnoughRoom, Consume
<1>3. CASE DatapathStart
  BY <1>3 DEF DatapathStart, RequestDma, RxRingStart, EnableMac, StartFailed
<1>4. CASE DatapathStop
  <2>1. CASE TxDrain \/ Terminate
    BY <2>1 DEF TxDrain, Terminate
  <2>2. CASE Flush
    BY <2>2 DEF Flush
  <2>3. CASE Release
    BY <2>3 DEF Release
  <2> QED BY <1>4, <2>1, <2>2, <2>3 DEF DatapathStop
<1>5. CASE Ndo
  BY <1>5 DEF Ndo, Open, PhyConnect, StartQueue, Stop, ChangeMtu, TxDisable, WakeQueue
<1>6. CASE UNCHANGED vars
  BY <1>6 DEF vars
<1> QED BY <1>1, <1>2, <1>3, <1>4, <1>5, <1>6 DEF Next, Halted

\* Every step keeps every variable in its type.
LEMMA TypeStep == TypeOK /\ [Next]_vars => TypeOK'
  BY RingTypesStep, EngineTypesStep, FrameTypesStep, ControlTypesStep DEF TypeOK

\* Every variable keeps its type: the unsigned counters stay within their
\* width, every slot they select exists, and a frame is in the hands of
\* ndo_start_xmit exactly from its entry to the submission.
LEMMA TypeCorrect == Spec => []TypeOK
  BY TypeInit, TypeStep, PTL DEF Spec

----------------------------------------------------------------------------
(* The ring.                                                               *)

\* CIRC_SPACE counts the slots that are neither in flight nor the spare one.
LEMMA SpaceIsRest ==
    ASSUME NEW h \in Int, NEW t \in Int
    PROVE  /\ (h - t) % Ring \in 0..(Ring - 1)
           /\ Space(h, t) = Ring - 1 - ((h - t) % Ring)
<1> DEFINE d == h - t
           q == d \div Ring
           n == d % Ring
<1>1. d \in Int
  OBVIOUS
<1> HIDE DEF d
<1>2. q \in Int /\ n \in 0..(Ring - 1) /\ d = Ring * q + n
  BY <1>1, ConstantFacts, DivMod
<1> HIDE DEF q, n
<1> DEFINE p == -q - 1
           r == Ring - 1 - n
<1>3. p \in Int /\ r \in 0..(Ring - 1)
  BY <1>2, ConstantFacts
<1>4. Ring * p = Ring * (-q) - Ring * 1
  BY <1>2, ConstantFacts, Distributes
<1>5. Ring * (-q) = -(Ring * q)
  BY <1>2, ConstantFacts
<1>6. t - (h + 1) = Ring * p + r
  <2>1. Ring * q \in Int
    BY <1>2, ConstantFacts
  <2>2. t - (h + 1) = -d - 1
    BY DEF d
  <2> HIDE DEF p
  <2> QED BY <1>2, <1>4, <1>5, <2>1, <2>2, ConstantFacts
<1> HIDE DEF p, r
<1>7. (Ring * p + r) % Ring = r
  BY <1>3, ConstantFacts, RemainderUnique
<1> QED BY <1>2, <1>6, <1>7 DEF Space, r, n, d

\* An index is at distance 0 from itself.
LEMMA SelfDistance == \A x \in Int : (x - x) % Ring = 0
<1>1. 0 % Ring = 0
  BY ConstantFacts, ModSmall
<1>2. \A x \in Int : x - x = 0
  OBVIOUS
<1> QED BY <1>1, <1>2

\* The arithmetic of one step of either index.
LEMMA IndexStep ==
    ASSUME NEW a \in 0..(Wrap - 1), NEW b \in Int
    PROVE  /\ (Inc(a) - b) % Ring = (((a - b) % Ring) + 1) % Ring
           /\ (b - Inc(a)) % Ring = (((b - a) % Ring) - 1) % Ring
           /\ (Inc(a) - b) % Wrap = (((a - b) % Wrap) + 1) % Wrap
           /\ (b - Inc(a)) % Wrap = (((b - a) % Wrap) - 1) % Wrap
<1>1. Wrap % Wrap = 0
  <2>1. (Wrap * 1 + 0) % Wrap = 0
    BY ConstantFacts, RemainderUnique
  <2> QED BY <2>1, ConstantFacts
<1> QED BY <1>1, ConstantFacts, WrappingStep DEF Inc

\* One more, or one less, while that stays in range.
LEMMA StepInRange ==
    ASSUME NEW M \in Nat \ {0}, NEW n \in 0..(M - 1)
    PROVE  /\ n < M - 1 => (n + 1) % M = n + 1
           /\ n > 0 => (n - 1) % M = n - 1
           /\ n = 0 => (n - 1) % M = M - 1
<1>1. ASSUME n < M - 1 PROVE (n + 1) % M = n + 1
  BY <1>1, ModSmall
<1>2. ASSUME n > 0 PROVE (n - 1) % M = n - 1
  BY <1>2, ModSmall
<1>3. ASSUME n = 0 PROVE (n - 1) % M = M - 1
  <2>1. (M * (-1) + (M - 1)) % M = M - 1
    BY RemainderUnique
  <2>2. M * (-1) = -M
    OBVIOUS
  <2> QED BY <1>3, <2>1, <2>2
<1> QED BY <1>1, <1>2, <1>3

\* A slot is at the distance of tx_head only if it is tx_head's slot, and at
\* distance 0 from tx_tail only if it is tx_tail's.
LEMMA SlotAtDistance ==
    ASSUME NEW s \in 0..(Ring - 1), NEW n \in Int, NEW t \in Int
    PROVE  /\ (Slot(n) - t) % Ring = (n - t) % Ring
           /\ (s - t) % Ring = (n - t) % Ring => s = Slot(n)
           /\ (s - t) % Ring = 0 <=> s = Slot(t)
<1> DEFINE u == -t
<1>1. u \in Int /\ \A x \in Int : x - t = x + u
  OBVIOUS
<1> HIDE DEF u
<1>2. (Slot(n) - t) % Ring = (n - t) % Ring
  <2>1. (n + u) % Ring = ((n % Ring) + u) % Ring
    BY <1>1, ConstantFacts, ModPlus
  <2>2. n % Ring \in Int
    BY ConstantFacts, DivMod
  <2> QED BY <1>1, <2>1, <2>2 DEF Slot
<1>3. s % Ring = s
  BY ConstantFacts, ModSmall
<1>4. ASSUME NEW m \in Int, (s - t) % Ring = (m - t) % Ring PROVE s = Slot(m)
  <2>0. s \in Int /\ m \in Int /\ t \in Int /\ Ring \in Nat \ {0}
    BY ConstantFacts
  <2>1. s % Ring = m % Ring
    BY <1>4, <2>0, ModCancel, ZenonT(60)
  <2> QED BY <1>3, <2>1 DEF Slot
<1>5. (t - t) % Ring = 0
  BY ConstantFacts, ModSmall
<1>6. s = Slot(t) => (s - t) % Ring = 0
  <2>1. (Slot(t) - t) % Ring = (t - t) % Ring
    <3>1. (t + u) % Ring = ((t % Ring) + u) % Ring
      BY <1>1, ConstantFacts, ModPlus
    <3>2. t % Ring \in Int
      BY ConstantFacts, DivMod
    <3> QED BY <1>1, <3>1, <3>2 DEF Slot
  <2> QED BY <1>5, <2>1
<1> QED BY <1>2, <1>4, <1>5, <1>6

\* Between its lockless space check and the submission, ndo_start_xmit has
\* room: nobody else advances tx_head.
RoomReserved == xmit \in {"prep", "submit"} => InFlight < Ring - 1
RingInv == RingTypes /\ FrameTypes /\ RingConsistent /\ RoomReserved

\* The empty ring is consistent, with no room reserved.
LEMMA RingInit == Init => RingConsistent /\ RoomReserved
<1> SUFFICES ASSUME Init PROVE RingConsistent /\ RoomReserved
  OBVIOUS
<1> USE DEF Init
<1>1. InFlight = 0 /\ (head - tail) % Wrap = 0
  BY ConstantFacts, ModSmall DEF InFlight
<1>2. \A s \in 0..(Ring - 1) : ~SlotOccupied(s)
  <2> SUFFICES ASSUME NEW s \in 0..(Ring - 1) PROVE ~SlotOccupied(s)
    OBVIOUS
  <2>1. (s - tail) % Ring = s
    BY ConstantFacts, ModSmall
  <2> QED BY <1>1, <2>1 DEF SlotOccupied
<1> QED BY <1>1, <1>2 DEF RingConsistent, RoomReserved

\* Submission takes the slot at tx_head, which was free.
LEMMA RingSubmit == RingInv /\ XmitSubmit => RingConsistent' /\ RoomReserved'
<1> SUFFICES ASSUME RingInv, XmitSubmit PROVE RingConsistent' /\ RoomReserved'
  OBVIOUS
<1> USE DEF RingInv, RingTypes, FrameTypes, RingConsistent
<1>1. head \in 0..(Wrap - 1) /\ tail \in Int /\ head \in Int
  BY ConstantFacts
<1>2. InFlight \in 0..(Ring - 1) /\ InFlight < Ring - 1
  BY <1>1, SpaceIsRest DEF XmitSubmit, LastSlotTaken, RoomReserved, InFlight
<1>3. skb \in Frames /\ skb # None
  BY DEF XmitSubmit, LastSlotTaken
<1>4. Slot(head) \in 0..(Ring - 1) /\ (Slot(head) - tail) % Ring = InFlight
  BY <1>1, IndexTypes, SlotAtDistance DEF InFlight
<1>5. ring[Slot(head)] = None
  BY <1>2, <1>4 DEF SlotOccupied
<1>6. CASE UNCHANGED <<head, tail>> /\ ring' = [ring EXCEPT ![Slot(head)] = None] /\ xmit' = "idle"
  <2>1. ring' = ring
    BY <1>4, <1>5, <1>6
  <2> QED BY <1>6, <2>1 DEF InFlight, SlotOccupied, RoomReserved
<1>7. CASE head' = Inc(head) /\ tail' = tail /\ ring' = [ring EXCEPT ![Slot(head)] = skb] /\ xmit' = "issue"
  <2>1. InFlight' = InFlight + 1
    BY <1>1, <1>2, <1>7, ConstantFacts, IndexStep, StepInRange DEF InFlight
  <2>2. (head' - tail') % Wrap = InFlight'
    <3>1. (head' - tail') % Wrap = (((head - tail) % Wrap) + 1) % Wrap
      BY <1>1, <1>7, IndexStep
    <3>2. InFlight \in 0..(Wrap - 1) /\ InFlight < Wrap - 1
      BY <1>2, ConstantFacts
    <3> QED BY <2>1, <3>1, <3>2, ConstantFacts, StepInRange
  <2>3. ASSUME NEW s \in 0..(Ring - 1) PROVE ring'[s] # None <=> SlotOccupied(s)'
    <3>1. SlotOccupied(s)' <=> (s - tail) % Ring < InFlight + 1
      BY <1>7, <2>1 DEF SlotOccupied
    <3>2. (s - tail) % Ring \in Int
      BY <1>1, ConstantFacts, DivMod
    <3>3. CASE s = Slot(head)
      BY <1>2, <1>3, <1>4, <1>7, <3>1, <3>3
    <3>4. CASE s # Slot(head)
      <4>1. (s - tail) % Ring # InFlight
        BY <1>1, <3>4, SlotAtDistance DEF InFlight
      <4>2. ring'[s] = ring[s]
        BY <1>7, <3>4
      <4> QED BY <1>2, <3>1, <3>2, <4>1, <4>2 DEF SlotOccupied
    <3> QED BY <3>3, <3>4
  <2> QED BY <1>7, <2>2, <2>3 DEF RoomReserved
<1>8. CASE Oops
  BY <1>8 DEF Oops, ringVars, xmitVars, InFlight, SlotOccupied, RoomReserved
<1> QED BY <1>6, <1>7, <1>8 DEF XmitSubmit, LastSlotTaken, XmitDrop

\* Unequal indices mean that a frame is in flight, and the first is at tx_tail.
LEMMA TailOccupied ==
    RingInv /\ tail # head => InFlight > 0 /\ ring[Slot(tail)] # None
<1> SUFFICES ASSUME RingInv, tail # head PROVE InFlight > 0 /\ ring[Slot(tail)] # None
  OBVIOUS
<1> USE DEF RingInv, RingTypes, RingConsistent
<1>1. /\ tail \in Int /\ head \in Int /\ Wrap \in Nat \ {0}
      /\ InFlight \in 0..(Ring - 1)
  <2>1. tail \in Int /\ head \in Int
    BY ConstantFacts
  <2> QED BY <2>1, ConstantFacts, SpaceIsRest DEF InFlight
<1>2. InFlight # 0
  <2> SUFFICES ASSUME InFlight = 0 PROVE FALSE
    OBVIOUS
  <2>1. (head - tail) % Wrap = 0 /\ (tail - tail) % Wrap = 0
    BY <1>1, ModSmall
  <2>2. head % Wrap = tail % Wrap
    BY <1>1, <2>1, ModCancel
  <2>3. head % Wrap = head /\ tail % Wrap = tail
    BY <1>1, ModSmall
  <2> QED BY <2>2, <2>3
<1>3. Slot(tail) \in 0..(Ring - 1) /\ (Slot(tail) - tail) % Ring = 0
  BY <1>1, IndexTypes, SlotAtDistance
<1> QED BY <1>1, <1>2, <1>3 DEF SlotOccupied

\* Completion frees the slot at tx_tail, which was occupied.
LEMMA RingComplete == RingInv /\ TxComplete => RingConsistent' /\ RoomReserved'
<1> SUFFICES ASSUME RingInv, TxComplete PROVE RingConsistent' /\ RoomReserved'
  OBVIOUS
<1> USE DEF RingInv, RingTypes, RingConsistent
<1>1. tail \in 0..(Wrap - 1) /\ tail \in Int /\ head \in Int
  BY ConstantFacts
<1>2. InFlight \in 0..(Ring - 1)
  BY <1>1, SpaceIsRest DEF InFlight
<1>3. CASE UNCHANGED <<ringVars, xmit>>
  BY <1>3 DEF ringVars, InFlight, SlotOccupied, RoomReserved
<1>4. CASE /\ tail # head /\ head' = head /\ tail' = Inc(tail) /\ xmit' = xmit
           /\ ring' = [ring EXCEPT ![Slot(tail)] = None]
  <2>1. InFlight > 0
    BY <1>4, TailOccupied
  <2>2. InFlight' = InFlight - 1
    BY <1>1, <1>2, <1>4, <2>1, ConstantFacts, IndexStep, StepInRange DEF InFlight
  <2>3. (head' - tail') % Wrap = InFlight'
    <3>1. (head' - tail') % Wrap = (((head - tail) % Wrap) - 1) % Wrap
      BY <1>1, <1>4, IndexStep
    <3>2. InFlight \in 0..(Wrap - 1)
      BY <1>2, ConstantFacts
    <3> QED BY <2>1, <2>2, <3>1, <3>2, ConstantFacts, StepInRange
  <2>4. Slot(tail) \in 0..(Ring - 1)
    BY <1>1, IndexTypes
  <2>5. ASSUME NEW s \in 0..(Ring - 1) PROVE ring'[s] # None <=> SlotOccupied(s)'
    <3> DEFINE d == (s - tail) % Ring
    <3>1. d \in 0..(Ring - 1) /\ s \in Int
      BY <1>1, ConstantFacts, DivMod
    <3>2. (s - tail') % Ring = (d - 1) % Ring
      BY <1>1, <1>4, <3>1, IndexStep
    <3>3. SlotOccupied(s)' <=> (d - 1) % Ring < InFlight - 1
      BY <2>2, <3>2 DEF SlotOccupied
    <3>4. d = 0 <=> s = Slot(tail)
      BY <1>1, SlotAtDistance
    <3>5. ring[s] # None <=> d < InFlight
      BY DEF SlotOccupied
    <3> HIDE DEF d
    <3>6. CASE d = 0
      <4>1. (d - 1) % Ring = Ring - 1
        BY <3>1, <3>6, ConstantFacts, StepInRange
      <4>2. ring'[s] = None
        BY <1>4, <2>4, <3>4, <3>6
      <4> QED BY <1>2, <3>3, <4>1, <4>2, ConstantFacts
    <3>7. CASE d > 0
      <4>1. (d - 1) % Ring = d - 1
        BY <3>1, <3>7, ConstantFacts, StepInRange
      <4>2. ring'[s] = ring[s]
        BY <1>4, <3>4, <3>7
      <4> QED BY <1>2, <3>1, <3>3, <3>5, <4>1, <4>2
    <3> QED BY <3>1, <3>6, <3>7
  <2> QED BY <1>2, <1>4, <2>2, <2>3, <2>5, ConstantFacts DEF RoomReserved
<1> QED BY <1>3, <1>4 DEF TxComplete, EnoughRoom, Oops, ringVars, xmitVars

\* The flush empties the occupied slots, that is all that hold a frame.
LEMMA RingFlush == RingInv /\ Flush => RingConsistent' /\ RoomReserved'
<1> SUFFICES ASSUME RingInv, Flush PROVE RingConsistent' /\ RoomReserved'
  OBVIOUS
<1> USE DEF RingInv, Flush, Flushed
<1>1. InFlight' = 0 /\ (head' - tail') % Wrap = 0
  BY ConstantFacts, ModSmall DEF InFlight
<1>2. ASSUME NEW s \in 0..(Ring - 1) PROVE ~SlotOccupied(s)' /\ ring'[s] = None
  <2>1. (s - tail') % Ring = s
    BY ConstantFacts, ModSmall
  <2> QED BY <1>1, <2>1 DEF SlotOccupied, RingConsistent
<1> QED BY <1>1, <1>2, ConstantFacts DEF RingConsistent, RoomReserved

\* Every step keeps the ring consistent: submission, completion and flush are
\* the only ones that touch it.
LEMMA RingStep == RingInv /\ [Next]_vars => RingInv'
<1> SUFFICES ASSUME RingInv, [Next]_vars PROVE RingConsistent' /\ RoomReserved'
  BY RingTypesStep, FrameTypesStep DEF RingInv
<1>1. CASE XmitEnter
  <2>1. head \in Int /\ tail \in Int
    BY ConstantFacts DEF RingInv, RingTypes
  <2>2. InFlight \in 0..(Ring - 1) /\ Space(head, tail) = Ring - 1 - InFlight
    BY <2>1, SpaceIsRest DEF InFlight
  <2> QED BY <1>1, <2>2, ConstantFacts
          DEF XmitEnter, Oops, ringVars, xmitVars, RingInv, RingConsistent, RoomReserved,
              InFlight, SlotOccupied
<1>2. CASE XmitPrep
  BY <1>2 DEF XmitPrep, XmitDrop, Oops, ringVars, xmitVars, RingInv, RingConsistent,
              RoomReserved, InFlight, SlotOccupied
<1>3. CASE XmitSubmit
  BY <1>3, RingSubmit
<1>4. CASE XmitIssue
  BY <1>4 DEF XmitIssue, Oops, ringVars, xmitVars, RingInv, RingConsistent,
              RoomReserved, InFlight, SlotOccupied
<1>5. CASE TxComplete
  BY <1>5, RingComplete
<1>6. CASE Flush
  BY <1>6, RingFlush
<1>7. CASE UNCHANGED <<ringVars, xmitVars>>
  BY <1>7 DEF ringVars, xmitVars, RingInv, RingConsistent, RoomReserved, InFlight,
              SlotOccupied
<1> QED BY <1>1, <1>2, <1>3, <1>4, <1>5, <1>6, <1>7
    DEF Next, Halted, Xmit, Dma, DatapathStart, DatapathStop, Ndo, vars, Oops,
        EngineDone, Consume, RequestDma, RxRingStart, EnableMac, TxDrain, Terminate,
        Release, Open, PhyConnect, StartQueue, Stop, ChangeMtu, TxDisable, WakeQueue

\* The ring, its indices and its frames agree with one another, always.
LEMMA RingInvAlways == Spec => []RingInv
<1>1. Init => RingInv
  BY TypeInit, RingInit DEF RingInv, TypeOK
<1> QED BY <1>1, RingStep, PTL DEF Spec

\* Whatever the stack, the engine and the user do, and across the wrap of the
\* unsigned indices, the occupied slots are those from tx_tail up to tx_head:
\* no frame is overwritten and CIRC_SPACE tells the truth.
LEMMA RingAlwaysConsistent == Spec => []RingConsistent
<1>1. RingInv => RingConsistent
  BY DEF RingInv
<1> QED BY <1>1, RingInvAlways, PTL

----------------------------------------------------------------------------
(* Ownership of frames.                                                    *)

OwnInv == RingInv /\ FrameOwnedOnce

\* A driver that was never opened owns no frame.
LEMMA OwnInit == Init => FrameOwnedOnce
<1> SUFFICES ASSUME Init PROVE FrameOwnedOnce
  OBVIOUS
<1>1. RingFrames = {}
  BY DEF Init, RingFrames
<1> QED BY <1>1 DEF Init, FrameOwnedOnce

\* A new frame is not one of those the driver already owns.
LEMMA OwnEnter == OwnInv /\ XmitEnter => FrameOwnedOnce'
<1> SUFFICES ASSUME OwnInv, XmitEnter PROVE FrameOwnedOnce'
  OBVIOUS
<1> USE DEF OwnInv, FrameOwnedOnce, RingFrames
<1>1. CASE UNCHANGED <<skb, cb, ring, live>>
  BY <1>1
<1>2. CASE \E f \in Frames \ live : live' = live \cup {f} /\ skb' = f /\ UNCHANGED <<ring, cb>>
  <2>1. skb = None
    BY DEF XmitEnter, MayXmit, RingInv, FrameTypes
  <2>2. PICK f \in Frames \ live : live' = live \cup {f} /\ skb' = f /\ UNCHANGED <<ring, cb>>
    BY <1>2
  <2> QED BY <2>1, <2>2, NoneAssumption
<1> QED BY <1>1, <1>2 DEF XmitEnter, Oops, ringVars, xmitVars

\* The drop path frees the frame ndo_start_xmit holds and no other.
LEMMA OwnDrop ==
    FrameOwnedOnce /\ XmitDrop /\ UNCHANGED <<ring, cb>> => FrameOwnedOnce'
  BY DEF FrameOwnedOnce, XmitDrop, RingFrames

\* Submission moves the frame from ndo_start_xmit to a free slot.
LEMMA OwnSubmit == OwnInv /\ XmitSubmit => FrameOwnedOnce'
<1> SUFFICES ASSUME OwnInv, XmitSubmit PROVE FrameOwnedOnce'
  OBVIOUS
<1> USE DEF OwnInv, RingInv, RingTypes
<1>1. head \in Int /\ tail \in Int
  BY ConstantFacts
<1>2. Slot(head) \in 0..(Ring - 1) /\ (Slot(head) - tail) % Ring = InFlight
  BY <1>1, IndexTypes, SlotAtDistance DEF InFlight
<1>3. InFlight \in Int
  BY <1>1, SpaceIsRest DEF InFlight
<1>4. ring[Slot(head)] = None
  BY <1>2, <1>3 DEF SlotOccupied, RingConsistent
<1>5. CASE XmitDrop /\ ring' = [ring EXCEPT ![Slot(head)] = None] /\ cb' = cb
  <2>1. ring' = ring
    BY <1>2, <1>4, <1>5
  <2> QED BY <1>5, <2>1, OwnDrop
<1>6. CASE /\ ring' = [ring EXCEPT ![Slot(head)] = skb]
           /\ skb' = None /\ UNCHANGED <<cb, live>>
  <2>1. skb # None /\ skb # cb /\ skb \notin RingFrames
    BY DEF XmitSubmit, LastSlotTaken, FrameTypes, FrameOwnedOnce
  <2>2. RingFrames' = RingFrames \cup {skb}
    BY <1>2, <1>4, <1>6, <2>1 DEF RingFrames
  <2>3. ASSUME NEW s \in 0..(Ring - 1), NEW t \in 0..(Ring - 1),
               ring'[s] = ring'[t], ring'[s] # None
        PROVE  s = t
    BY <1>2, <1>6, <2>1, <2>3 DEF FrameOwnedOnce, RingFrames
  <2> QED BY <1>6, <2>1, <2>2, <2>3 DEF FrameOwnedOnce
<1>7. CASE UNCHANGED <<skb, cb, ring, live>>
  BY <1>7 DEF FrameOwnedOnce, RingFrames
<1> QED BY <1>5, <1>6, <1>7 DEF XmitSubmit, LastSlotTaken, Oops, ringVars, xmitVars

\* Completion moves the frame at tx_tail from its slot to the callback.
LEMMA OwnComplete == OwnInv /\ TxComplete => FrameOwnedOnce'
<1> SUFFICES ASSUME OwnInv, TxComplete PROVE FrameOwnedOnce'
  OBVIOUS
<1> USE DEF OwnInv, RingInv, RingTypes
<1>1. Slot(tail) \in 0..(Ring - 1)
  <2>1. tail \in Int
    BY ConstantFacts
  <2> QED BY <2>1, IndexTypes
<1>2. CASE UNCHANGED <<skb, cb, ring, live>>
  BY <1>2 DEF FrameOwnedOnce, RingFrames
<1>3. CASE /\ cb = None /\ cb' = ring[Slot(tail)]
           /\ ring' = [ring EXCEPT ![Slot(tail)] = None]
           /\ UNCHANGED <<skb, live>>
  <2>1. \A s \in 0..(Ring - 1) : ring'[s] = IF s = Slot(tail) THEN None ELSE ring[s]
    BY <1>3
  <2>2. RingFrames' = RingFrames \ {cb'}
    BY <1>1, <1>3, <2>1 DEF RingFrames, FrameOwnedOnce
  <2>3. cb' \in RingFrames \cup {None}
    BY <1>1, <1>3 DEF RingFrames
  <2>4. live' = ({skb', cb'} \cup RingFrames') \ {None}
    BY <1>3, <2>2, <2>3 DEF FrameOwnedOnce
  <2>5. skb' # None => skb' # cb' /\ skb' \notin RingFrames'
    BY <1>3, <2>2, <2>3 DEF FrameOwnedOnce
  <2>6. \A s, t \in 0..(Ring - 1) : ring'[s] = ring'[t] /\ ring'[s] # None => s = t
    BY <2>1 DEF FrameOwnedOnce
  <2> QED BY <2>2, <2>4, <2>5, <2>6 DEF FrameOwnedOnce
<1> QED BY <1>2, <1>3 DEF TxComplete, EnoughRoom, Oops, ringVars, xmitVars

\* Every step keeps each frame in one place: beside the lemmas above, the
\* callback frees the frame it consumed and the flush those in the ring.
LEMMA OwnStep == OwnInv /\ [Next]_vars => OwnInv'
<1> SUFFICES ASSUME OwnInv, [Next]_vars PROVE FrameOwnedOnce'
  BY RingStep DEF OwnInv
<1>1. CASE XmitEnter
  BY <1>1, OwnEnter
<1>2. CASE XmitPrep
  <2>1. CASE XmitDrop /\ UNCHANGED <<ring, cb>>
    BY <2>1, OwnDrop DEF OwnInv
  <2>2. CASE UNCHANGED <<skb, cb, ring, live>>
    BY <2>2 DEF OwnInv, FrameOwnedOnce, RingFrames
  <2> QED BY <1>2, <2>1, <2>2 DEF XmitPrep, Oops, ringVars, xmitVars
<1>3. CASE XmitSubmit
  BY <1>3, OwnSubmit
<1>4. CASE TxComplete
  BY <1>4, OwnComplete
<1>5. CASE Consume
  BY <1>5 DEF Consume, ringVars, xmitVars, OwnInv, FrameOwnedOnce, RingFrames
<1>6. CASE Flush
  <2>1. \A s \in 0..(Ring - 1) : ring'[s] = None
    BY <1>6 DEF Flush, Flushed, OwnInv, RingInv, RingConsistent
  <2>2. RingFrames' = {}
    BY <2>1 DEF RingFrames
  <2>3. {ring[s] : s \in {s \in 0..(Ring - 1) : SlotOccupied(s)}} = RingFrames
    BY DEF OwnInv, RingInv, RingConsistent, RingFrames
  <2>4. live' = live \ RingFrames /\ UNCHANGED <<skb, cb>>
    BY <1>6, <2>3 DEF Flush, Flushed, xmitVars
  <2> QED BY <2>1, <2>2, <2>4 DEF OwnInv, FrameOwnedOnce
<1>7. CASE UNCHANGED <<skb, cb, ring, live>>
  BY <1>7 DEF OwnInv, FrameOwnedOnce, RingFrames
<1> QED BY <1>1, <1>2, <1>3, <1>4, <1>5, <1>6, <1>7
    DEF Next, Halted, Xmit, Dma, DatapathStart, DatapathStop, Ndo, vars, Oops, ringVars, xmitVars,
        XmitIssue, EngineDone, RequestDma, RxRingStart, EnableMac, TxDrain, Terminate,
        Release, Open, PhyConnect, StartQueue, Stop, ChangeMtu, TxDisable, WakeQueue

\* Every frame handed over is in exactly one place until it is freed, so it is
\* neither leaked nor freed twice: even when a change of MTU races with the
\* stack or fails.
LEMMA FramesAlwaysOwnedOnce == Spec => []FrameOwnedOnce
<1>1. Init => OwnInv
  BY TypeInit, RingInit, OwnInit DEF OwnInv, RingInv, TypeOK
<1>2. OwnInv => FrameOwnedOnce
  BY DEF OwnInv
<1> QED BY <1>1, <1>2, OwnStep, PTL DEF Spec

\* In every environment, a change of MTU that fails or races with the stack
\* included, the ring's slots, its indices and the owners of the frames agree.
THEOREM TxAlwaysConsistent == Spec => []TransmitConsistent
<1>1. TypeOK /\ RingConsistent /\ FrameOwnedOnce => TransmitConsistent
  BY DEF TransmitConsistent
<1> QED BY <1>1, TypeCorrect, RingAlwaysConsistent, FramesAlwaysOwnedOnce, PTL

----------------------------------------------------------------------------
(* The control path, until frames are offered while change_mtu rebuilds    *)
(* the channel, or its restart fails, and again from the next close.       *)

\* Where the channel is held and the ring is empty, and when the stack may
\* be inside the driver.
Serving == ctl = "idle" /\ running
RingIdleSteps == {"release", "request", "rx_start", "enable", "phy", "start_queue", "wake"}
PhaseInv ==
    /\ ~oops
    /\ op = "none" <=> ctl = "idle"
    /\ ctl = "request" => op \in {"open", "mtu"}
    /\ ctl \in {"phy", "start_queue"} => op = "open"
    /\ ctl = "wake" => op = "mtu"
    /\ ctl \in {"rx_start", "enable"} => op \in {"open", "mtu"}
    /\ ctl \in {"tx_disable", "drain", "terminate", "flush", "release"}
          => op \in {"stop", "openfail", "mtu"}
    /\ op \in {"open", "openfail", "mtu"} => running
    /\ op = "mtu" => active
    /\ op \in {"open", "openfail", "stop"} => ~active
    /\ ctl = "idle" => (active <=> running)
    /\ Serving \/ ctl \in (CtlSteps \ {"idle", "request"}) => chan = "held"
    /\ ctl \in RingIdleSteps \/ (ctl = "idle" /\ ~running) => tail = head
    /\ xmit # "idle" => Serving \/ ctl = "tx_disable"

\* After taxi_probe the interface is down, in the phase it was left in.
LEMMA PhaseInit == Init => PhaseInv
  BY DEF Init, PhaseInv, Serving, RingIdleSteps

\* Whatever has upset the driver: an ndo_stop keeps the stack out and leaves no
\* callback, no descriptor and no frame, and only an interface that is up, or on
\* its way down, is upset.
StopInv ==
    /\ op = "none" <=> ctl = "idle"
    /\ ctl = "phy" => op = "open"
    /\ op = "mtu" => running
    /\ op = "stop" => ~active
    /\ op = "stop" =>
          ctl \in {"tx_disable", "drain", "terminate", "flush", "release"}
    /\ op = "stop" /\ ctl # "tx_disable" => xmit = "idle"
    /\ op = "stop" /\ ctl \in {"flush", "release"} =>
          cb = None /\ done = <<>> /\ issued = <<>> /\ pending = <<>>
    /\ op = "stop" /\ ctl = "release" => tail = head
    /\ upset => op \notin {"open", "openfail"} /\ (running \/ op = "stop")

LEMMA StopInit == Init => StopInv
  BY DEF Init, StopInv

\* No step of any of the four contexts disturbs an ndo_stop that is under way.
LEMMA StopStep == TypeOK /\ StopInv /\ [Next]_vars => StopInv'
<1> SUFFICES ASSUME TypeOK, StopInv, [Next]_vars PROVE StopInv'
  OBVIOUS
<1> USE DEF StopInv, TypeOK, ControlTypes, CtlSteps, Ops, Oops,
            ringVars, engineVars, xmitVars, queueVars, ctlVars, faults
<1>1. CASE XmitEnter
  BY <1>1 DEF XmitEnter, MayXmit, MtuUnderWay
<1>2. CASE XmitPrep
  BY <1>2 DEF XmitPrep, XmitDrop
<1>3. CASE XmitSubmit
  BY <1>3 DEF XmitSubmit, LastSlotTaken, XmitDrop
<1>4. CASE XmitIssue
  BY <1>4 DEF XmitIssue
<1>5. CASE EngineDone \/ Consume
  BY <1>5 DEF EngineDone, Consume
<1>6. CASE TxComplete
  BY <1>6 DEF TxComplete, EnoughRoom
<1>7. CASE RequestDma \/ RxRingStart
  BY <1>7 DEF RequestDma, RxRingStart, StartFailed
<1>8. CASE EnableMac \/ TxDrain
  BY <1>8 DEF EnableMac, TxDrain
<1>9. CASE Terminate
  BY <1>9 DEF Terminate
<1>10. CASE Flush
  BY <1>10 DEF Flush, Flushed
<1>11. CASE Release
  BY <1>11 DEF Release
<1>12. CASE Open \/ PhyConnect \/ StartQueue
  BY <1>12 DEF Open, PhyConnect, StartQueue
<1>13. CASE Stop \/ ChangeMtu
  BY <1>13 DEF Stop, ChangeMtu
<1>14. CASE TxDisable \/ WakeQueue
  BY <1>14 DEF TxDisable, WakeQueue
<1>15. CASE UNCHANGED vars
  BY <1>15 DEF vars
<1> QED BY <1>1, <1>2, <1>3, <1>4, <1>5, <1>6, <1>7, <1>8, <1>9, <1>10, <1>11, <1>12,
           <1>13, <1>14, <1>15
    DEF Next, Halted, Xmit, Dma, DatapathStart, DatapathStop, Ndo

LEMMA StopAlways == Spec => []StopInv
  BY StopInit, StopStep, TypeCorrect, PTL DEF Spec

\* Only the end of an ndo_stop makes good what has upset the driver.
Closing == ~oops /\ Release /\ op = "stop"
LEMMA UpsetStays == [Next]_vars /\ ~upset' => ~upset \/ Closing
  BY DEF Next, Halted, Xmit, Dma, DatapathStart, DatapathStop, Ndo, XmitEnter, XmitPrep,
         XmitSubmit, XmitIssue, EngineDone, TxComplete, Consume, RequestDma, RxRingStart,
         StartFailed, EnableMac, TxDrain, Terminate, Flush, Release, Open, PhyConnect,
         StartQueue, Stop, ChangeMtu, TxDisable, WakeQueue, vars, faults, Closing

\* Every step that does not upset the driver keeps the phases of the control path
\* apart: the channel is held while anything may use it.
LEMMA PhaseStep == TypeOK /\ PhaseInv /\ [Next]_vars /\ ~upset' => PhaseInv'
<1> SUFFICES ASSUME TypeOK, PhaseInv, [Next]_vars, ~upset' PROVE PhaseInv'
  OBVIOUS
<1> USE DEF PhaseInv, Serving, RingIdleSteps, TypeOK, ControlTypes, CtlSteps, Ops,
            ringVars, engineVars, xmitVars, queueVars, ctlVars, faults
<1>1. CASE XmitEnter
  BY <1>1 DEF XmitEnter, MayXmit, MtuUnderWay, ChannelHeld
<1>2. CASE XmitPrep
  BY <1>2 DEF XmitPrep, XmitDrop, ChannelHeld
<1>3. CASE XmitSubmit
  BY <1>3 DEF XmitSubmit, LastSlotTaken, XmitDrop, ChannelHeld
<1>4. CASE XmitIssue
  BY <1>4 DEF XmitIssue, ChannelHeld
<1>5. CASE EngineDone \/ Consume
  BY <1>5 DEF EngineDone, Consume
<1>6. CASE TxComplete
  BY <1>6 DEF TxComplete, EnoughRoom, ChannelHeld
<1>7. CASE RequestDma \/ RxRingStart
  BY <1>7 DEF RequestDma, RxRingStart, StartFailed
<1>8. CASE EnableMac
  BY <1>8 DEF EnableMac
<1>9. CASE TxDrain \/ Terminate
  BY <1>9 DEF TxDrain, Terminate, ChannelHeld
<1>10. CASE Flush
  BY <1>10 DEF Flush, Flushed
<1>11. CASE Release
  BY <1>11 DEF Release
<1>12. CASE Open \/ PhyConnect \/ StartQueue
  BY <1>12 DEF Open, PhyConnect, StartQueue
<1>13. CASE Stop \/ ChangeMtu
  BY <1>13 DEF Stop, ChangeMtu
<1>14. CASE TxDisable \/ WakeQueue
  BY <1>14 DEF TxDisable, WakeQueue
<1>15. CASE UNCHANGED vars
  BY <1>15 DEF vars
<1> QED BY <1>1, <1>2, <1>3, <1>4, <1>5, <1>6, <1>7, <1>8, <1>9, <1>10, <1>11, <1>12,
           <1>13, <1>14, <1>15
    DEF Next, Halted, Xmit, Dma, DatapathStart, DatapathStop, Ndo

\* The queue is awake only with room in the ring, and while traffic is served
\* stopped only with too little room to wake it.
QueueInv ==
    /\ ~stopped => InFlight < Ring - 1
    /\ Serving /\ stopped => Ring - 1 - InFlight < WakeThresh
ServeInv == TypeOK /\ RingInv /\ PhaseInv /\ QueueInv

\* Every step keeps the queue awake only with room for a frame, and stopped
\* only with fewer free slots than would wake it.
LEMMA QueueStep == ServeInv /\ [Next]_vars /\ ~upset' => QueueInv'
<1> SUFFICES ASSUME ServeInv, [Next]_vars, ~upset' PROVE QueueInv'
  OBVIOUS
<1> USE ConstantFacts DEF QueueInv
<1>1. /\ head \in 0..(Wrap - 1) /\ tail \in 0..(Wrap - 1)
      /\ head \in Int /\ tail \in Int /\ head' \in Int /\ tail' \in Int
  BY TypeStep DEF ServeInv, TypeOK, RingTypes
<1>2. /\ Space(head, tail) = Ring - 1 - InFlight
      /\ InFlight \in 0..(Ring - 1)
  BY <1>1, SpaceIsRest DEF InFlight
<1>3. stopped \in BOOLEAN /\ QueueInv
  BY DEF ServeInv, TypeOK, ControlTypes
<1>4. CASE XmitEnter
  <2>1. InFlight' = InFlight /\ Serving' = Serving
    BY <1>4 DEF XmitEnter, Oops, Serving, InFlight, ringVars, queueVars, ctlVars
  <2>2. stopped' = stopped \/ (stopped' = TRUE /\ Space(head, tail) = 0)
    BY <1>4 DEF XmitEnter, Oops, queueVars
  <2> QED BY <1>2, <1>3, <2>1, <2>2
<1>5. CASE XmitSubmit
  <2>1. CASE UNCHANGED <<head, tail, stopped, ctl, running>>
    BY <1>3, <2>1 DEF Serving, InFlight
  <2>2. CASE /\ head' = Inc(head) /\ UNCHANGED <<tail, ctl, running>>
             /\ stopped' = (stopped \/ Space(Inc(head), tail) = 0)
    <3>1. InFlight < Ring - 1
      BY <1>5 DEF ServeInv, RingInv, RoomReserved, XmitSubmit, LastSlotTaken
    <3>2. InFlight' = (InFlight + 1) % Ring
      BY <1>1, <2>2, <3>1, IndexStep DEF InFlight
    <3>3. InFlight' = InFlight + 1
      BY <1>2, <3>1, <3>2, StepInRange
    <3>4. Space(Inc(head), tail) = Ring - 1 - InFlight'
      BY <1>1, <2>2, SpaceIsRest DEF InFlight
    <3>5. (stopped' <=> stopped \/ Ring - 1 - InFlight' = 0) /\ (Serving' <=> Serving)
      BY <2>2, <3>4 DEF Serving
    <3>6. CASE stopped
      BY <1>2, <1>3, <3>3, <3>5, <3>6
    <3>7. CASE ~stopped
      BY <1>2, <1>3, <3>3, <3>5, <3>7
    <3> QED BY <3>6, <3>7
  <2> QED BY <1>5, <2>1, <2>2 DEF XmitSubmit, LastSlotTaken, Oops, ringVars, queueVars, ctlVars
<1>6. CASE TxComplete
  <2>1. CASE UNCHANGED <<head, tail, stopped, ctl, running>>
    BY <1>3, <2>1 DEF Serving, InFlight
  <2>2. CASE /\ tail' = Inc(tail) /\ UNCHANGED <<head, ctl, running>>
             /\ stopped' = (stopped /\ ~(Space(head, Inc(tail)) >= WakeThresh))
             /\ tail # head
    <3>1. InFlight > 0
      BY <2>2, TailOccupied DEF ServeInv
    <3>2. InFlight' = (InFlight - 1) % Ring
      BY <1>1, <2>2, IndexStep DEF InFlight
    <3>3. InFlight' = InFlight - 1
      BY <1>2, <3>1, <3>2, StepInRange
    <3>4. Space(head, Inc(tail)) = Ring - 1 - InFlight'
      BY <1>1, <2>2, SpaceIsRest DEF InFlight
    <3>5. /\ stopped' <=> stopped /\ ~(Ring - 1 - InFlight' >= WakeThresh)
          /\ Serving' <=> Serving
      BY <2>2, <3>4 DEF Serving
    <3>6. CASE stopped
      BY <1>2, <1>3, <3>1, <3>3, <3>5, <3>6
    <3>7. CASE ~stopped
      BY <1>2, <1>3, <3>1, <3>3, <3>5, <3>7
    <3> QED BY <3>6, <3>7
  <2> QED BY <1>6, <2>1, <2>2
          DEF TxComplete, EnoughRoom, Oops, ringVars, queueVars, ctlVars
<1>7. CASE StartQueue \/ WakeQueue
  <2>1. tail' = head' /\ stopped' = FALSE
    BY <1>7 DEF StartQueue, WakeQueue, ServeInv, PhaseInv, RingIdleSteps, ringVars
  <2>2. InFlight' = 0
    <3>1. InFlight' = (head' - head') % Ring
      BY <2>1 DEF InFlight
    <3> QED BY <1>1, <3>1, SelfDistance
  <2> QED BY <2>1, <2>2
<1>8. CASE UNCHANGED <<head, tail>> /\ stopped' \in {stopped, TRUE} /\ ~Serving'
  <2>1. InFlight' = InFlight
    BY <1>8 DEF InFlight
  <2>2. CASE stopped' = stopped
    <3>1. (~stopped' => InFlight' < Ring - 1) /\ ~Serving'
      BY <1>3, <1>8, <2>1, <2>2, Zenon
    <3> QED BY <3>1
  <2>3. CASE stopped' = TRUE
    BY <1>8, <2>3
  <2> QED BY <1>8, <2>2, <2>3
<1>9. CASE Flush
  <2>1. head' = 0 /\ tail' = 0 /\ ctl' = "release"
    BY <1>9 DEF Flush
  <2>2. InFlight' = 0
    BY <2>1, ModSmall DEF InFlight
  <2> QED BY <2>1, <2>2 DEF Serving
<1>10. CASE UNCHANGED <<head, tail, stopped, ctl, running>>
  BY <1>3, <1>10 DEF Serving, InFlight
<1>11. CASE RequestDma \/ RxRingStart \/ Release
  <2>1. UNCHANGED <<head, tail, stopped>>
    BY <1>11 DEF RequestDma, RxRingStart, Release, ringVars, queueVars
  <2>2. ~Serving'
    BY <1>11 DEF RequestDma, RxRingStart, Release, StartFailed, Serving
  <2> QED BY <1>8, <2>1, <2>2
<1>12. CASE EnableMac \/ TxDrain \/ Open \/ PhyConnect \/ Stop \/ ChangeMtu \/ TxDisable
  <2>1. UNCHANGED <<head, tail>> /\ stopped' \in {stopped, TRUE} /\ ctl' # "idle"
    BY <1>12 DEF EnableMac, TxDrain, Open, PhyConnect, Stop, ChangeMtu, TxDisable, ringVars,
                 queueVars
  <2> QED BY <1>8, <2>1 DEF Serving
<1>13. CASE Terminate
  <2>1. UNCHANGED <<head, tail, stopped>> /\ (UNCHANGED <<ctl, running>> \/ ctl' = "flush")
    BY <1>13 DEF Terminate, Oops, ringVars, queueVars, ctlVars
  <2> QED BY <1>8, <1>10, <2>1 DEF Serving
<1> QED BY <1>4, <1>5, <1>6, <1>7, <1>9, <1>10, <1>11, <1>12, <1>13
    DEF Next, Halted, Xmit, Dma, DatapathStart, DatapathStop, Ndo, vars, Oops,
        ringVars, queueVars, ctlVars, XmitPrep, XmitIssue, EngineDone, Consume

\* The end of an ndo_stop leaves the interface down and its ring empty, whatever
\* it was before.
LEMMA ServeClosed ==
    ASSUME TypeOK, RingInv, StopInv, [Next]_vars, Closing
    PROVE  ServeInv' /\ InFlight' = 0
<1>1. TypeOK' /\ RingInv'
  BY TypeStep, RingStep
<1>2. /\ ctl' = "idle" /\ op' = "none" /\ running' = FALSE /\ ~active' /\ ~oops'
      /\ xmit' = "idle" /\ tail' = head'
  BY DEF Closing, Release, StopInv, ringVars, xmitVars, queueVars
<1>3. InFlight' = 0
  <2>1. head' \in Int
    BY <1>1, ConstantFacts DEF RingInv, RingTypes
  <2> QED BY <1>2, <2>1, ConstantFacts, SelfDistance DEF InFlight
<1>4. PhaseInv'
  BY <1>2 DEF PhaseInv, Serving, RingIdleSteps, CtlSteps
<1>5. QueueInv'
  BY <1>2, <1>3, ConstantFacts DEF QueueInv, Serving
<1> QED BY <1>1, <1>3, <1>4, <1>5 DEF ServeInv

\* The strengthened invariant holds throughout.
LEMMA ServeAlways == Spec => [](upset \/ ServeInv)
<1>1. Init => ServeInv
  <2>1. Init => InFlight = 0
    BY ConstantFacts, ModSmall DEF Init, InFlight
  <2> QED BY <2>1, ConstantFacts, TypeInit, RingInit, PhaseInit
          DEF ServeInv, RingInv, TypeOK, QueueInv, Serving, Init
<1>2. /\ TypeOK /\ RingInv /\ StopInv /\ (upset \/ ServeInv) /\ [Next]_vars
      => (upset \/ ServeInv)'
  BY UpsetStays, ServeClosed, TypeStep, RingStep, PhaseStep, QueueStep DEF ServeInv
<1> QED BY <1>1, <1>2, TypeCorrect, RingInvAlways, StopAlways, PTL DEF Spec

\* The driver uses a DMA channel only while it holds it, unless since the interface
\* came up a frame was offered while change_mtu rebuilt the channel, or its restart
\* failed.
THEOREM ChannelUseSound == Spec => []NoOops
<1>1. upset \/ ServeInv => NoOops
  BY DEF ServeInv, PhaseInv, NoOops
<1> QED BY <1>1, ServeAlways, PTL

\* With fewer than Ring - 1 frames in flight CIRC_SPACE is positive.
LEMMA RoomInService ==
    ServeInv => Space(head, tail) = Ring - 1 - InFlight /\ InFlight \in Nat
<1> SUFFICES ASSUME ServeInv PROVE Space(head, tail) = Ring - 1 - InFlight /\ InFlight \in Nat
  OBVIOUS
<1>1. head \in Int /\ tail \in Int
  BY ConstantFacts DEF ServeInv, TypeOK, RingTypes
<1> QED BY <1>1, ConstantFacts, SpaceIsRest DEF InFlight

\* The stack is never answered NETDEV_TX_BUSY, whose unlocked queue stop could
\* miss the completion that should undo it.
LEMMA StackNeverBusy == ServeInv => NeverBusy
  BY RoomInService, ConstantFacts DEF NeverBusy, MayXmit, ServeInv, QueueInv

\* No wakeup is lost: a stopped queue always has frames in flight whose
\* completion will wake it.
LEMMA NoLostWakeup == ServeInv => StoppedMeansFull
<1> SUFFICES ASSUME ServeInv, active, op = "none", stopped
             PROVE  Space(head, tail) < WakeThresh
  BY DEF StoppedMeansFull
<1>1. Serving
  BY DEF ServeInv, PhaseInv, Serving
<1> QED BY <1>1, RoomInService, ConstantFacts DEF ServeInv, QueueInv

\* The stack is never answered NETDEV_TX_BUSY, and a queue that is stopped outside
\* of a reconfiguration has a completion to come that wakes it, unless a
\* change of the MTU has met traffic or failed since the interface came up.
THEOREM TxQueueTrue == Spec => []QueueTrue
<1>1. upset \/ ServeInv => QueueTrue
  BY StackNeverBusy, NoLostWakeup DEF QueueTrue
<1> QED BY <1>1, ServeAlways, PTL

----------------------------------------------------------------------------
(* The completion callback and the descriptors.                            *)

Descriptors == done \o issued \o pending
DescriptorsMatch ==
    /\ Len(Descriptors) = InFlight
    /\ \A i \in 1..InFlight : Descriptors[i] = ring[Slot(tail + i - 1)]

\* The engine holds the frames in the ring, in order, but for the terminated
\* ring that is about to be flushed; from there to the next start no callback
\* is running, and a closed interface holds no channel.
Closed == ctl = "idle" /\ ~running
MatchInv ==
    /\ ctl = "flush" => done = <<>> /\ issued = <<>> /\ pending = <<>>
    /\ ctl # "flush" => DescriptorsMatch
    /\ ctl = "flush" \/ ctl \in RingIdleSteps \/ Closed => cb = None
    /\ Closed => chan # "held"

LEMMA DescriptorTypes ==
    ASSUME EngineTypes
    PROVE  Descriptors \in Seq(Frames) /\ Len(Descriptors) \in Nat
<1>1. done \o issued \in Seq(Frames)
  BY ConcatProperties DEF EngineTypes
<1>2. Descriptors \in Seq(Frames)
  BY <1>1, ConcatProperties DEF EngineTypes, Descriptors
<1> QED BY <1>2, LenProperties

\* The slot of the i-th frame in flight, and how it moves with tx_tail.
LEMMA SlotOfFrame ==
    ASSUME RingInv, NEW i \in 1..(InFlight + 1)
    PROVE  /\ Slot(tail + i - 1) \in 0..(Ring - 1)
           /\ i = InFlight + 1 => Slot(tail + i - 1) = Slot(head)
           /\ i <= InFlight => Slot(tail + i - 1) # Slot(head)
           /\ i > 1 /\ i <= InFlight => Slot(tail + i - 1) # Slot(tail)
           /\ Slot(Inc(tail) + i - 1) = Slot(tail + (i + 1) - 1)
<1>1. head \in Int /\ tail \in 0..(Wrap - 1) /\ tail \in Int /\ Ring \in Nat \ {0}
  BY ConstantFacts DEF RingInv, RingTypes
<1>2. InFlight \in 0..(Ring - 1) /\ InFlight = (head - tail) % Ring
  BY <1>1, SpaceIsRest DEF InFlight
<1> DEFINE k == i - 1
           n == tail + k
<1>3. k \in 0..(Ring - 1) /\ n \in Int /\ n - tail = k /\ tail + i - 1 = n
  BY <1>1, <1>2
<1>4. i = InFlight + 1 <=> k = InFlight
  BY <1>2
<1>5. (i <= InFlight => k # InFlight) /\ (i > 1 => k # 0)
  BY <1>2
<1>6. tail + (i + 1) - 1 = n + 1 /\ Inc(tail) + i - 1 = Inc(tail) + k /\ k \in Int
  <2>1. Inc(tail) \in Int
    BY <1>1, ConstantFacts, IndexTypes
  <2> QED BY <1>1, <2>1
<1> HIDE DEF k, n
<1>7. k % Ring = k
  BY <1>1, <1>3, ModSmall
<1>8. Slot(n) \in 0..(Ring - 1) /\ (Slot(n) - tail) % Ring = k
  <2>1. Slot(n) \in 0..(Ring - 1)
    BY <1>3, IndexTypes
  <2>2. (Slot(n) - tail) % Ring = (n - tail) % Ring
    BY <1>1, <1>3, <2>1, SlotAtDistance
  <2> QED BY <1>3, <1>7, <2>1, <2>2
<1>9. Slot(head) \in 0..(Ring - 1) /\ (Slot(head) - tail) % Ring = InFlight
  BY <1>1, <1>2, IndexTypes, SlotAtDistance
<1>10. k = InFlight => Slot(n) = Slot(head)
  BY <1>1, <1>2, <1>8, SlotAtDistance
<1>11. Slot(n) = Slot(head) => k = InFlight
  BY <1>8, <1>9
<1>12. Slot(n) = Slot(tail) => k = 0
  BY <1>1, <1>8, SlotAtDistance
<1>13. Slot(Inc(tail) + k) = Slot(n + 1)
  <2> DEFINE b == -k
             m == n % Ring
             o == 1
  <2>1. b \in Int /\ tail - b = n /\ Inc(tail) - b = Inc(tail) + k /\ o \in Int
    <3>1. Inc(tail) \in Int
      BY <1>1, ConstantFacts, IndexTypes
    <3> QED BY <1>1, <1>3, <1>6, <3>1
  <2> HIDE DEF b, o
  <2>2. (Inc(tail) - b) % Ring = ((n % Ring) + 1) % Ring
    BY <1>1, <2>1, IndexStep
  <2>3. (n + o) % Ring = ((n % Ring) + o) % Ring
    BY <1>1, <1>3, <2>1, ModPlus
  <2> QED BY <2>1, <2>2, <2>3 DEF Slot, o
<1> QED BY <1>3, <1>4, <1>5, <1>6, <1>8, <1>10, <1>11, <1>12, <1>13

\* A submission appends the frame and its descriptor.
LEMMA MatchSubmit ==
    ASSUME ServeInv, MatchInv, XmitSubmit
    PROVE  MatchInv'
<1>1. /\ UNCHANGED <<chan, ctl, running, cb>> /\ ctl # "flush"
      /\ skb \in Frames /\ DescriptorsMatch
  BY DEF XmitSubmit, Oops, ServeInv, PhaseInv, Serving, TypeOK, FrameTypes, MatchInv,
         ctlVars, LastSlotTaken
<1>2. CASE UNCHANGED <<ring, head, tail, engineVars>>
  BY <1>1, <1>2 DEF MatchInv, DescriptorsMatch, Descriptors, InFlight, engineVars, Closed
<1>3. CASE UNCHANGED <<head, tail, engineVars>> /\ ring' = [ring EXCEPT ![Slot(head)] = None]
  <2>1. \A i \in 1..InFlight : i <= InFlight /\ i \in 1..(InFlight + 1)
    <3>1. InFlight \in Nat
      BY <1>1, DescriptorTypes DEF ServeInv, TypeOK, DescriptorsMatch
    <3> QED BY <3>1
  <2>2. ASSUME NEW i \in 1..InFlight
        PROVE  ring'[Slot(tail + i - 1)] = ring[Slot(tail + i - 1)]
    <3>1. Slot(tail + i - 1) # Slot(head) /\ Slot(tail + i - 1) \in 0..(Ring - 1)
      BY <2>1, SlotOfFrame DEF ServeInv
    <3> QED BY <1>3, <3>1 DEF ServeInv, RingInv, RingTypes
  <2>3. InFlight' = InFlight /\ Descriptors' = Descriptors
    BY <1>3 DEF InFlight, Descriptors, engineVars
  <2>4. DescriptorsMatch'
    BY <1>1, <1>3, <2>2, <2>3 DEF DescriptorsMatch
  <2> QED BY <1>1, <2>4 DEF MatchInv, Closed
<1>4. CASE /\ head' = Inc(head) /\ tail' = tail /\ ring' = [ring EXCEPT ![Slot(head)] = skb]
           /\ pending' = Append(pending, skb) /\ UNCHANGED <<done, issued>>
  <2>1. done \in Seq(Frames) /\ issued \in Seq(Frames) /\ pending \in Seq(Frames)
    BY DEF ServeInv, TypeOK, EngineTypes
  <2>2. Descriptors' = Append(Descriptors, skb)
    BY <1>1, <1>4, <2>1, PipelineEnter, SMTT(30) DEF Descriptors
  <2>3. Descriptors \in Seq(Frames)
    BY DescriptorTypes DEF ServeInv, TypeOK
  <2>4. InFlight \in Nat /\ InFlight' = InFlight + 1
    <3>1. head \in 0..(Wrap - 1) /\ head \in Int /\ tail \in Int
      BY ConstantFacts DEF ServeInv, RingInv, RingTypes
    <3>2. InFlight \in 0..(Ring - 1) /\ InFlight < Ring - 1
      BY <3>1, SpaceIsRest DEF XmitSubmit, LastSlotTaken, ServeInv, RingInv, RoomReserved, InFlight
    <3> QED BY <1>4, <3>1, <3>2, ConstantFacts, IndexStep, StepInRange DEF InFlight
  <2>5. /\ Len(Descriptors') = InFlight' /\ Descriptors'[InFlight + 1] = skb
        /\ \A i \in 1..InFlight : Descriptors'[i] = Descriptors[i]
    BY <1>1, <2>2, <2>3, <2>4, AppendProperties DEF DescriptorsMatch
  <2>6. ASSUME NEW i \in 1..(InFlight + 1)
        PROVE  Descriptors'[i] = ring'[Slot(tail + i - 1)]
    <3>1. /\ Slot(tail + i - 1) \in 0..(Ring - 1)
          /\ i = InFlight + 1 => Slot(tail + i - 1) = Slot(head)
          /\ i <= InFlight => Slot(tail + i - 1) # Slot(head)
      BY <2>6, SlotOfFrame DEF ServeInv
    <3>2. ring \in [0..(Ring - 1) -> Frames \cup {None}]
      BY DEF ServeInv, RingInv, RingTypes
    <3>3. CASE i = InFlight + 1
      BY <1>4, <2>5, <3>1, <3>2, <3>3
    <3>4. CASE i \in 1..InFlight
      <4>1. i <= InFlight /\ Descriptors[i] = ring[Slot(tail + i - 1)]
        BY <1>1, <2>4, <3>4 DEF DescriptorsMatch
      <4> QED BY <1>4, <2>5, <3>1, <3>2, <3>4, <4>1
    <3>5. i = InFlight + 1 \/ i \in 1..InFlight
      BY <2>4
    <3> QED BY <3>3, <3>4, <3>5
  <2>7. DescriptorsMatch'
    BY <1>4, <2>4, <2>5, <2>6 DEF DescriptorsMatch
  <2> QED BY <1>1, <2>7 DEF MatchInv, Closed
<1> QED BY <1>2, <1>3, <1>4 DEF XmitSubmit, XmitDrop, Oops, ringVars, LastSlotTaken

\* The callback takes the frame of the first descriptor: a completed descriptor
\* means that the ring is not empty.
LEMMA MatchComplete ==
    ASSUME ServeInv, MatchInv, TxComplete
    PROVE  MatchInv'
<1>1. /\ done \in Seq(Frames) /\ issued \in Seq(Frames) /\ pending \in Seq(Frames)
      /\ Descriptors \in Seq(Frames) /\ Len(Descriptors) \in Nat
  BY DescriptorTypes DEF ServeInv, TypeOK, EngineTypes
<1>2. /\ done # <<>> /\ cb = None /\ ctl # "flush" /\ DescriptorsMatch
      /\ UNCHANGED <<chan, ctl, running>>
  BY DEF TxComplete, MatchInv, Oops, ctlVars
<1>3. /\ Tail(done) \o issued \o pending = Tail(Descriptors) /\ Descriptors # <<>>
  BY <1>1, <1>2, PipelineLeave, SMTT(30) DEF Descriptors
<1>4. InFlight \in Nat /\ InFlight > 0 /\ InFlight = Len(Descriptors)
  BY <1>1, <1>2, <1>3, EmptySeq DEF DescriptorsMatch
<1>5. tail # head
  <2> SUFFICES ASSUME tail = head PROVE FALSE
    OBVIOUS
  <2>1. head \in Int /\ tail \in Int
    BY ConstantFacts DEF ServeInv, RingInv, RingTypes
  <2>2. InFlight = 0
    BY <2>1, SelfDistance DEF InFlight
  <2> QED BY <1>4, <2>2
<1>6. ctl \notin RingIdleSteps /\ ~Closed
  BY <1>5 DEF ServeInv, PhaseInv, Closed
<1>7. CASE Oops
  BY <1>7 DEF Oops, MatchInv, DescriptorsMatch, Descriptors, InFlight, Closed,
              engineVars, ringVars, ctlVars
<1>8. CASE /\ done' = Tail(done) /\ UNCHANGED <<issued, pending, head>>
           /\ tail' = Inc(tail) /\ ring' = [ring EXCEPT ![Slot(tail)] = None]
  <2>1. Descriptors' = Tail(Descriptors)
    BY <1>3, <1>8 DEF Descriptors
  <2>2. InFlight' = InFlight - 1
    <3>1. tail \in 0..(Wrap - 1) /\ head \in Int /\ tail \in Int
      BY ConstantFacts DEF ServeInv, RingInv, RingTypes
    <3>2. InFlight \in 0..(Ring - 1)
      BY <3>1, SpaceIsRest DEF InFlight
    <3> QED BY <1>4, <1>8, <3>1, <3>2, ConstantFacts, IndexStep, StepInRange DEF InFlight
  <2>3. /\ Len(Descriptors') = InFlight'
        /\ \A i \in 1..(InFlight - 1) : Descriptors'[i] = Descriptors[i + 1]
    BY <1>1, <1>3, <1>4, <2>1, <2>2, HeadTailProperties
  <2>4. ASSUME NEW i \in 1..(InFlight - 1)
        PROVE  Descriptors'[i] = ring'[Slot(tail' + i - 1)]
    <3>1. i \in 1..(InFlight + 1) /\ i + 1 \in 1..InFlight /\ i + 1 \in 1..(InFlight + 1)
          /\ i + 1 > 1 /\ i + 1 <= InFlight
      BY <1>4
    <3> DEFINE j == i + 1
    <3>2. j \in 1..InFlight /\ j \in 1..(InFlight + 1) /\ j > 1 /\ j <= InFlight
      BY <3>1
    <3>3. Slot(Inc(tail) + i - 1) = Slot(tail + j - 1)
      BY <3>1, SlotOfFrame DEF ServeInv
    <3> HIDE DEF j
    <3>4. Slot(tail + j - 1) \in 0..(Ring - 1) /\ Slot(tail + j - 1) # Slot(tail)
      BY <3>2, SlotOfFrame DEF ServeInv
    <3>5. Descriptors[j] = ring[Slot(tail + j - 1)]
      BY <1>2, <3>2 DEF DescriptorsMatch
    <3>6. ring'[Slot(tail + j - 1)] = ring[Slot(tail + j - 1)]
      BY <1>8, <3>4 DEF ServeInv, RingInv, RingTypes
    <3>7. Descriptors'[i] = Descriptors[j]
      BY <2>3 DEF j
    <3> QED BY <1>8, <3>3, <3>5, <3>6, <3>7
  <2>5. DescriptorsMatch'
    BY <2>2, <2>3, <2>4 DEF DescriptorsMatch
  <2> QED BY <1>2, <1>6, <2>5 DEF MatchInv, Closed
<1> QED BY <1>5, <1>7, <1>8 DEF TxComplete

\* The other steps of the engine and of ndo_start_xmit move descriptors from
\* stage to stage.
LEMMA MatchMove ==
    ASSUME ServeInv, MatchInv,
           XmitEnter \/ XmitPrep \/ XmitIssue \/ EngineDone \/ Consume
    PROVE  MatchInv'
<1>1. done \in Seq(Frames) /\ issued \in Seq(Frames) /\ pending \in Seq(Frames)
  BY DEF ServeInv, TypeOK, EngineTypes
<1>2. UNCHANGED <<head, tail, ring, chan, ctl, running>> /\ cb' \in {cb, None}
  BY DEF XmitEnter, XmitPrep, XmitDrop, XmitIssue, EngineDone, Consume, Oops, ringVars, ctlVars
<1>3. Descriptors' = Descriptors
  <2>1. CASE UNCHANGED engineVars
    BY <2>1 DEF engineVars, Descriptors
  <2>2. CASE issued' = issued \o pending /\ pending' = <<>> /\ done' = done
    BY <1>1, <2>2, PipelineMoves DEF Descriptors
  <2>3. CASE /\ issued # <<>> /\ pending' = pending
             /\ issued' = Tail(issued) /\ done' = Append(done, Head(issued))
    BY <1>1, <2>3, PipelineMoves, SMTT(30) DEF Descriptors
  <2> QED BY <2>1, <2>2, <2>3
          DEF XmitEnter, XmitPrep, XmitIssue, EngineDone, Consume, Oops, engineVars
<1>4. DescriptorsMatch => DescriptorsMatch'
  BY <1>2, <1>3 DEF DescriptorsMatch, InFlight
<1>5. ctl = "flush" => done' = <<>> /\ issued' = <<>> /\ pending' = <<>>
  BY <1>1, ConcatEmptySeq
     DEF MatchInv, ServeInv, PhaseInv, Serving, XmitEnter, XmitPrep, XmitIssue, EngineDone,
         Consume, Oops, engineVars
<1> QED BY <1>2, <1>4, <1>5 DEF MatchInv, Closed

\* Termination empties the engine once no callback runs, and the flush the ring.
LEMMA MatchStop ==
    ASSUME ServeInv, MatchInv, Terminate \/ Flush \/ Release
    PROVE  MatchInv'
<1>1. Len(<<>> \o <<>> \o <<>>) = 0
  OBVIOUS
<1>2. CASE Terminate
  <2>1. CASE Oops
    BY <2>1 DEF Oops, MatchInv, DescriptorsMatch, Descriptors, InFlight, Closed,
                engineVars, ringVars, ctlVars
  <2>2. CASE ~Oops
    BY <1>2, <2>2 DEF Terminate, MatchInv, RingIdleSteps, Closed
  <2> QED BY <2>1, <2>2
<1>3. CASE Flush
  <2>1. /\ ctl = "flush" /\ ctl' = "release" /\ head' = 0 /\ tail' = 0
        /\ UNCHANGED <<done, issued, pending, cb>>
    BY <1>3 DEF Flush, engineVars
  <2>2. InFlight' = 0
    BY <2>1, ConstantFacts, ModSmall DEF InFlight
  <2>3. Len(Descriptors') = 0
    BY <1>1, <2>1 DEF MatchInv, Descriptors
  <2>4. DescriptorsMatch'
    BY <2>2, <2>3 DEF DescriptorsMatch
  <2> QED BY <2>1, <2>4 DEF MatchInv, Closed
<1>4. CASE Release
  <2>1. /\ ctl = "release" /\ ctl' # "flush" /\ chan' = "null" /\ UNCHANGED <<head, tail, ring, cb>>
        /\ done' = <<>> /\ issued' = <<>> /\ pending' = <<>>
    BY <1>4 DEF Release, ringVars
  <2>2. tail = head /\ head \in Int
    BY <2>1, ConstantFacts DEF ServeInv, PhaseInv, RingIdleSteps, RingInv, RingTypes
  <2>3. InFlight' = 0
    BY <2>1, <2>2, SelfDistance DEF InFlight
  <2>4. Len(Descriptors') = 0
    BY <1>1, <2>1 DEF Descriptors
  <2>5. DescriptorsMatch'
    BY <2>3, <2>4 DEF DescriptorsMatch
  <2>6. cb' = None
    BY <2>1 DEF MatchInv, RingIdleSteps
  <2> QED BY <2>1, <2>5, <2>6 DEF MatchInv
<1> QED BY <1>2, <1>3, <1>4

\* The rest of the control path touches neither the ring nor the descriptors.
LEMMA MatchControl ==
    ASSUME ~upset', ServeInv, MatchInv,
           DatapathStart \/ TxDrain \/ Ndo \/ UNCHANGED vars
    PROVE  MatchInv'
<1>1. UNCHANGED <<ring, head, tail, done, issued, pending, cb>>
  BY DEF DatapathStart, RequestDma, RxRingStart, EnableMac, TxDrain, Ndo, Open, PhyConnect,
         StartQueue, Stop, ChangeMtu, TxDisable, WakeQueue, vars, ringVars, engineVars
<1>2. ctl' # "flush" \/ ctl' = ctl
  BY DEF DatapathStart, RequestDma, RxRingStart, EnableMac, StartFailed, TxDrain, Ndo, Open,
         PhyConnect, StartQueue, Stop, ChangeMtu, TxDisable, WakeQueue, vars, ctlVars
<1>3. /\ Closed' => chan' # "held"
      /\ ctl' = "flush" => ctl = "flush"
      /\ ctl = "flush" => ctl' = "flush"
      /\ ctl' \in RingIdleSteps \/ Closed' => ctl \in RingIdleSteps \/ Closed
  BY DEF DatapathStart, RequestDma, RxRingStart, EnableMac, StartFailed, TxDrain, Ndo, Open,
         PhyConnect, StartQueue, Stop, ChangeMtu, TxDisable, WakeQueue, vars, ctlVars,
         MatchInv, Closed, RingIdleSteps, ServeInv, PhaseInv, Serving
<1>4. DescriptorsMatch => DescriptorsMatch'
  BY <1>1 DEF DescriptorsMatch, Descriptors, InFlight
<1> QED BY <1>1, <1>3, <1>4 DEF MatchInv

\* Nothing of the engine's is left at the end of an ndo_stop.
LEMMA MatchClosed ==
    ASSUME TypeOK, RingInv, StopInv, [Next]_vars, Closing
    PROVE  MatchInv'
<1>1. InFlight' = 0
  BY ServeClosed
<1>2. /\ ctl' = "idle" /\ chan' = "null" /\ cb' = None
      /\ done' = <<>> /\ issued' = <<>> /\ pending' = <<>>
  BY DEF Closing, Release, StopInv
<1>3. Len(Descriptors') = 0
  BY <1>2 DEF Descriptors
<1>4. DescriptorsMatch'
  BY <1>1, <1>3 DEF DescriptorsMatch
<1> QED BY <1>2, <1>4 DEF MatchInv

LEMMA MatchStep == ServeInv /\ MatchInv /\ [Next]_vars /\ ~upset' => MatchInv'
  BY MatchSubmit, MatchComplete, MatchMove, MatchStop, MatchControl
     DEF Next, Halted, Xmit, Dma, DatapathStop

LEMMA MatchInit == Init => MatchInv
<1> SUFFICES ASSUME Init PROVE MatchInv
  OBVIOUS
<1>1. InFlight = 0 /\ Len(<<>> \o <<>> \o <<>>) = 0
  BY ConstantFacts, ModSmall DEF Init, InFlight
<1> QED BY <1>1 DEF Init, MatchInv, DescriptorsMatch, Descriptors

LEMMA MatchAlways == Spec => [](upset \/ (ServeInv /\ MatchInv))
<1>1. upset \/ (ServeInv /\ MatchInv) => upset \/ ServeInv
  OBVIOUS
<1>2. /\ TypeOK /\ RingInv /\ StopInv /\ (upset \/ (ServeInv /\ MatchInv))
      /\ [Next]_vars /\ (upset \/ ServeInv)'
      => (upset \/ (ServeInv /\ MatchInv))'
  BY UpsetStays, MatchClosed, MatchStep
<1>3. Init => upset \/ MatchInv
  BY MatchInit
<1> QED BY <1>1, <1>2, <1>3, ServeAlways, TypeCorrect, RingInvAlways, StopAlways, PTL DEF Spec

\* taxi_tx_complete is not told which descriptor completed, and frees the frame
\* at tx_tail: the right one, unless a change of the MTU has met traffic or failed
\* since the interface came up.
THEOREM CallbackTakesRightFrame == Spec => []CompletionsMatchRing
<1>1. upset \/ (ServeInv /\ MatchInv) => CompletionsMatchRing
  BY DEF MatchInv, DescriptorsMatch, Descriptors, CompletionsMatchRing
<1> QED BY <1>1, MatchAlways, PTL

\* After ndo_stop, and after an ndo_open that failed, nothing is left behind: no
\* frame, no descriptor, no channel; whatever a change of the MTU did before.
THEOREM TxClosedHoldsNothing == Spec => []ClosedHoldsNothing
<1>1. (upset \/ (ServeInv /\ MatchInv)) /\ OwnInv /\ StopInv => ClosedHoldsNothing
  <2> SUFFICES ASSUME upset \/ (ServeInv /\ MatchInv), OwnInv, StopInv,
                      ctl = "idle", ~running
               PROVE  live = {} /\ Descriptors = <<>> /\ chan # "held"
    BY DEF ClosedHoldsNothing, Descriptors
  <2>0. ServeInv /\ MatchInv
    BY DEF StopInv
  <2>1. /\ cb = None /\ chan # "held" /\ DescriptorsMatch /\ tail = head /\ xmit = "idle"
    BY <2>0 DEF MatchInv, Closed, ServeInv, PhaseInv, Serving
  <2>2. head \in Int /\ tail \in Int
    BY <2>0, ConstantFacts DEF ServeInv, RingInv, RingTypes
  <2>3. InFlight = 0
    BY <2>1, <2>2, SelfDistance DEF InFlight
  <2>4. Descriptors = <<>>
    BY <2>0, <2>1, <2>3, DescriptorTypes, EmptySeq DEF ServeInv, TypeOK, DescriptorsMatch
  <2>5. RingFrames = {}
    <3>1. \A s \in 0..(Ring - 1) : ~SlotOccupied(s)
      BY <2>2, <2>3, ConstantFacts, DivMod DEF SlotOccupied
    <3> QED BY <2>0, <3>1 DEF ServeInv, RingInv, RingConsistent, RingFrames
  <2>6. skb = None
    BY <2>0, <2>1 DEF ServeInv, TypeOK, FrameTypes
  <2> QED BY <2>1, <2>4, <2>5, <2>6 DEF OwnInv, FrameOwnedOnce
<1>2. Spec => []OwnInv
  <2>1. Init => OwnInv
    BY TypeInit, RingInit, OwnInit DEF OwnInv, RingInv, TypeOK
  <2> QED BY <2>1, OwnStep, PTL DEF Spec
<1> QED BY <1>1, <1>2, MatchAlways, StopAlways, PTL
----------------------------------------------------------------------------
(* The ring is a queue.                                                     *)

\* The frames in flight are as many as the indices say, and none is missing.
InRingTyped ==
    /\ InFlight \in 0..(Ring - 1) /\ InRing \in Seq(Frames) /\ Len(InRing) = InFlight
    /\ \A i \in 1..InFlight : InRing[i] = ring[Slot(tail + i - 1)]
LEMMA InRingType == RingInv => InRingTyped
<1> SUFFICES ASSUME RingInv PROVE InRingTyped
  OBVIOUS
<1>1. head \in Int /\ tail \in Int /\ Ring \in Nat \ {0}
  BY ConstantFacts DEF RingInv, RingTypes
<1>2. InFlight \in 0..(Ring - 1)
  BY <1>1, SpaceIsRest DEF InFlight
<1>3. ASSUME NEW i \in 1..InFlight PROVE ring[Slot(tail + i - 1)] \in Frames
  <2> DEFINE k == i - 1
             n == tail + k
  <2>1. k \in 0..(Ring - 1) /\ k < InFlight /\ n \in Int /\ n - tail = k /\ tail + i - 1 = n
    BY <1>1, <1>2
  <2> HIDE DEF k, n
  <2>2. k % Ring = k
    BY <1>1, <2>1, ModSmall
  <2>3. Slot(n) \in 0..(Ring - 1)
    BY <2>1, IndexTypes
  <2>4. (Slot(n) - tail) % Ring = k
    BY <1>1, <2>1, <2>2, <2>3, SlotAtDistance
  <2>5. SlotOccupied(Slot(n))
    BY <2>1, <2>4 DEF SlotOccupied
  <2> QED BY <2>1, <2>3, <2>5 DEF RingInv, RingTypes, RingConsistent
<1>4. InRing \in [1..InFlight -> Frames]
  BY <1>3 DEF InRing
<1>5. InFlight \in Nat
  BY <1>2
<1> QED BY <1>2, <1>4, <1>5 DEF InRing, InRingTyped

\* A step that moves neither index and no frame of the ring leaves the queue.
LEMMA FifoSame ==
    ASSUME UNCHANGED ringVars
    PROVE  UNCHANGED InRing
  BY DEF ringVars, InRing, InFlight, Slot

\* A submission appends its frame, and does nothing if it was refused.
LEMMA FifoSubmit ==
    ASSUME RingInv, RingInv', XmitSubmit
    PROVE  Fifo!Accept \/ UNCHANGED <<InRing, cb, ctl>>
<1> USE DEF XmitSubmit, LastSlotTaken
<1>0. head \in 0..(Wrap - 1) /\ head \in Int /\ tail \in Int /\ Ring >= 2
  BY ConstantFacts DEF RingInv, RingTypes
<1>1. CASE UNCHANGED ringVars
  BY <1>1, FifoSame DEF Oops, ctlVars
<1>2. CASE UNCHANGED <<head, tail>> /\ ring' = [ring EXCEPT ![Slot(head)] = None]
  <2>1. InFlight \in 0..(Ring - 1)
    BY InRingType DEF InRingTyped
  <2>2. Slot(head) \in 0..(Ring - 1) /\ (Slot(head) - tail) % Ring = InFlight
    BY <1>0, IndexTypes, SlotAtDistance DEF InFlight
  <2>3. ring[Slot(head)] = None
    BY <2>1, <2>2 DEF SlotOccupied, RingInv, RingConsistent
  <2>4. ring' = ring
    BY <1>2, <2>2, <2>3 DEF RingInv, RingTypes
  <2> QED BY <1>2, <2>4, FifoSame DEF ringVars, Oops, ctlVars
<1>3. CASE /\ head' = Inc(head) /\ tail' = tail /\ ring' = [ring EXCEPT ![Slot(head)] = skb]
           /\ UNCHANGED <<cb, ctlVars>>
  <2>1. /\ InFlight \in 0..(Ring - 1) /\ Len(InRing) = InFlight
        /\ \A i \in 1..InFlight : InRing[i] = ring[Slot(tail + i - 1)]
    BY InRingType DEF InRingTyped
  <2>2. /\ InFlight' \in 0..(Ring - 1) /\ InRing' \in Seq(Frames) /\ Len(InRing') = InFlight'
        /\ \A i \in 1..InFlight' : InRing'[i] = ring'[Slot(tail' + i - 1)]
    <3>1. InRingTyped'
      BY InRingType, PTL
    <3> QED BY <3>1 DEF InRingTyped, Slot
  <2>3. InFlight' = InFlight + 1
    BY <1>0, <1>3, <2>1, ConstantFacts, IndexStep, StepInRange DEF InFlight, RingInv, RoomReserved
  <2>4. ASSUME NEW i \in 1..InFlight PROVE InRing'[i] = InRing[i]
    <3>1. i \in 1..InFlight' /\ i \in 1..(InFlight + 1) /\ i <= InFlight
      BY <2>1, <2>3
    <3>2. Slot(tail + i - 1) \in 0..(Ring - 1) /\ Slot(tail + i - 1) # Slot(head)
      BY <3>1, SlotOfFrame
    <3>3. ring'[Slot(tail + i - 1)] = ring[Slot(tail + i - 1)]
      BY <1>3, <3>2 DEF RingInv, RingTypes
    <3> QED BY <1>3, <2>1, <2>2, <3>1, <3>3
  <2> QED BY <1>3, <2>1, <2>2, <2>3, <2>4 DEF Fifo!Accept, ctlVars
<1> QED BY <1>1, <1>2, <1>3 DEF Oops, ctlVars

\* A completion hands over the oldest frame, or finds the ring empty.
LEMMA FifoComplete ==
    ASSUME RingInv, RingInv', TxComplete
    PROVE  Fifo!Leave \/ UNCHANGED <<InRing, cb, ctl>>
<1>1. CASE UNCHANGED <<ringVars, cb, ctl>>
  BY <1>1, FifoSame
<1>2. CASE /\ tail # head /\ cb = None /\ cb' = ring[Slot(tail)] /\ UNCHANGED <<head, ctl>>
           /\ tail' = Inc(tail) /\ ring' = [ring EXCEPT ![Slot(tail)] = None]
  <2>0. tail \in 0..(Wrap - 1) /\ head \in Int /\ tail \in Int
    BY ConstantFacts DEF RingInv, RingTypes
  <2>1. /\ InFlight \in 0..(Ring - 1) /\ InRing \in Seq(Frames) /\ Len(InRing) = InFlight
        /\ \A i \in 1..InFlight : InRing[i] = ring[Slot(tail + i - 1)]
    BY InRingType DEF InRingTyped
  <2>2. /\ InFlight' \in 0..(Ring - 1) /\ InRing' \in Seq(Frames) /\ Len(InRing') = InFlight'
        /\ \A i \in 1..InFlight' : InRing'[i] = ring'[Slot(tail' + i - 1)]
    <3>1. InRingTyped'
      BY InRingType, PTL
    <3> QED BY <3>1 DEF InRingTyped, Slot
  <2>3. InFlight > 0
    BY <1>2, TailOccupied
  <2>4. InFlight' = InFlight - 1
    BY <1>2, <2>0, <2>1, <2>3, ConstantFacts, IndexStep, StepInRange DEF InFlight
  <2>5. InRing # <<>> /\ Head(InRing) = InRing[1]
    BY <2>1, <2>3
  <2>6. InRing[1] = ring[Slot(tail)]
    <3>1. 1 \in 1..InFlight /\ tail + 1 - 1 = tail
      BY <2>0, <2>1, <2>3
    <3> QED BY <2>1, <3>1
  <2>7. /\ Tail(InRing) \in Seq(Frames) /\ Len(Tail(InRing)) = InFlight - 1
        /\ \A i \in 1..(InFlight - 1) : Tail(InRing)[i] = InRing[i + 1]
    BY <2>1, <2>3, <2>5, HeadTailProperties
  <2>8. ASSUME NEW i \in 1..(InFlight - 1) PROVE InRing'[i] = Tail(InRing)[i]
    <3> DEFINE j == i + 1
    <3>1. i \in 1..InFlight' /\ i \in 1..(InFlight + 1)
          /\ j \in 1..InFlight /\ j \in 1..(InFlight + 1) /\ j > 1 /\ j <= InFlight
      BY <2>1, <2>4
    <3>2. Slot(Inc(tail) + i - 1) = Slot(tail + j - 1)
      BY <3>1, SlotOfFrame
    <3>3. Tail(InRing)[i] = InRing[j]
      BY <2>7
    <3> HIDE DEF j
    <3>4. Slot(tail + j - 1) \in 0..(Ring - 1) /\ Slot(tail + j - 1) # Slot(tail)
      BY <3>1, SlotOfFrame
    <3>5. ring'[Slot(tail + j - 1)] = ring[Slot(tail + j - 1)]
      BY <1>2, <3>4 DEF RingInv, RingTypes
    <3> QED BY <1>2, <2>1, <2>2, <3>1, <3>2, <3>3, <3>5
  <2>9. InRing' = Tail(InRing)
    BY <2>2, <2>4, <2>7, <2>8, SeqEqual
  <2> QED BY <1>2, <2>5, <2>6, <2>9 DEF Fifo!Leave
<1> QED BY <1>1, <1>2 DEF TxComplete, EnoughRoom, Oops, ringVars, ctlVars

\* The flush empties the queue while it is down.
LEMMA FifoFlush ==
    ASSUME Flush
    PROVE  Fifo!Discard
<1>1. InFlight' = 0
  BY ConstantFacts, ModSmall DEF Flush, InFlight
<1>2. InRing' = <<>>
  BY <1>1 DEF InRing
<1> QED BY <1>2 DEF Flush, Fifo!Discard

\* Every step is one of the queue's, or moves none of its parts.
LEMMA FifoStep ==
    ASSUME RingInv, RingInv', [Next]_vars
    PROVE  [Fifo!Next]_<<InRing, cb, ctl \notin {"terminate", "flush", "release"}>>
<1>1. CASE XmitSubmit
  BY <1>1, FifoSubmit DEF Fifo!Next
<1>2. CASE TxComplete
  BY <1>2, FifoComplete DEF Fifo!Next
<1>3. CASE Flush
  BY <1>3, FifoFlush DEF Fifo!Next
<1>4. CASE Consume
  BY <1>4, FifoSame DEF Consume, ctlVars, Fifo!Next, Fifo!Consume
<1>5. CASE UNCHANGED <<ringVars, cb>>
  BY <1>5, FifoSame DEF Fifo!Next, Fifo!UpOrDown
<1> QED BY <1>1, <1>2, <1>3, <1>4, <1>5
    DEF Next, Halted, Xmit, Dma, DatapathStart, DatapathStop, Ndo, vars, Oops, XmitEnter, XmitPrep,
        XmitIssue, EngineDone, RequestDma, RxRingStart, EnableMac, TxDrain, Terminate,
        Release, Open, PhyConnect, StartQueue, Stop, ChangeMtu, TxDisable, WakeQueue

\* In every environment the transmit ring implements a bounded queue: what
\* ndo_start_xmit puts in, the completion callback takes out once and in order,
\* across the wrap of the indices, and only a flush discards any of it.
THEOREM TxRingImplementsQueue == Spec => RingIsFifo
<1>1. Init => Fifo!Init
  <2> SUFFICES ASSUME Init PROVE Fifo!Init
    OBVIOUS
  <2>1. InFlight = 0
    BY ConstantFacts, ModSmall DEF Init, InFlight
  <2>2. InRing = <<>>
    BY <2>1 DEF InRing
  <2> QED BY <2>2 DEF Init, Fifo!Init
<1>2. Init => RingInv
  BY TypeInit, RingInit DEF RingInv, TypeOK
<1>3. RingInv /\ [Next]_vars => RingInv'
  BY RingStep
<1>4. RingInv /\ RingInv' /\ [Next]_vars
        => [Fifo!Next]_<<InRing, cb, ctl \notin {"terminate", "flush", "release"}>>
  BY FifoStep
<1> QED BY <1>1, <1>2, <1>3, <1>4, PTL DEF Spec, Fifo!Spec, RingIsFifo
=============================================================================
