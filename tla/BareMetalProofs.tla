-------------------------- MODULE BareMetalProofs --------------------------
(***************************************************************************)
(* Proofs about the bare-metal software of one port.                       *)
(*                                                                         *)
(* MacifRx, for every number of descriptors, queue length and pool of the  *)
(* assumed size: no completion is left without an interrupt, every pbuf is *)
(* in one place, frames leave the queue in order, and the handler always   *)
(* finds the pbufs to re-arm the ring with.                                *)
(*                                                                         *)
(* MacifTx, for every ring and chains of any length: a chain is held as    *)
(* long as the ring has a descriptor of it, the ring holds whole frames,   *)
(* and a frame sent has its interrupt.                                     *)
(*                                                                         *)
(* AddrState, for every width of the tick counter and every timeout: the   *)
(* state of the port, its DHCP client and its address agree, and a port    *)
(* falls back only when its time is over.                                  *)
(***************************************************************************)
EXTENDS MacifRx, MacifTx, AddrState, DataLemmas

----------------------------------------------------------------------------
(* The completion interrupt.                                               *)

\* The ring is handed over with nothing completed.
LEMMA PendingInit == Init => CompletionPending
  BY DEF Init, CompletionPending

\* A completion raises the interrupt, whatever the handler is doing; the handler
\* acknowledges it before it takes the descriptors, and leaves none it has
\* acknowledged; a reset that clears it is remembered.
LEMMA PendingStep == CompletionPending /\ [Next]_vars => CompletionPending'
<1> SUFFICES ASSUME CompletionPending, [Next]_vars PROVE CompletionPending'
  OBVIOUS
<1> USE DEF CompletionPending, rings, irq, queue, main
<1>1. ASSUME FrameArrives PROVE CompletionPending'
  BY <1>1 DEF FrameArrives
<1>2. CASE DmaError
  BY <1>2 DEF DmaError
<1>3. CASE TxDmaError
  BY <1>3 DEF TxDmaError, DmaReset
<1>4. CASE RxIsrEnter
  BY <1>4 DEF RxIsrEnter
<1>5. CASE RxIsrError
  BY <1>5 DEF RxIsrError, DmaReset
<1>6. CASE RxIsrCollect
  BY <1>6 DEF RxIsrCollect, Collect
<1>7. CASE RxIsrRefill
  BY <1>7 DEF RxIsrRefill
<1>8. CASE Input
  BY <1>8 DEF Input, InputRead, InputAdvance, InputDeliver
<1>9. CASE Others
  BY <1>9 DEF Others, OthersTake, OthersFree
<1>10. CASE UNCHANGED vars
  BY <1>10 DEF vars
<1> QED BY <1>1, <1>2, <1>3, <1>4, <1>5, <1>6, <1>7, <1>8, <1>9, <1>10 DEF Next, Engine, RxIsr

\* A completed descriptor always has an interrupt pending or being served,
\* unless a DMA reset discarded it.
LEMMA CompletionAlwaysPending == Spec => []CompletionPending
<1> QED BY PendingInit, PendingStep, PTL DEF Spec

----------------------------------------------------------------------------
(* The pbufs.                                                              *)

\* No more descriptors are armed than there are, all of them when the handler
\* is not at work; the stack holds no more than its share.
RingInv ==
    /\ TypeOK
    /\ Len(hw) + Len(filled) <= NRxBd
    /\ RingRearmed
    /\ Cardinality(others) <= OthersMax

\* The main loop reads the queue's first pbuf, and takes it off after that.
MainInv ==
    /\ input = "idle" <=> cur = None
    /\ input = "advance" => qTail # qHead /\ cur = rxq[qTail]
    /\ DeliveredInOrder

\* The pool, the stack and the three sequences share out the pbufs.
Apart ==
    /\ IsInjective(hw) /\ IsInjective(filled) /\ IsInjective(accepted)
    /\ ToSet(hw) \cap ToSet(filled) = {}
    /\ ToSet(hw) \cap ToSet(accepted) = {}
    /\ ToSet(filled) \cap ToSet(accepted) = {}
    /\ ToSet(hw) \cup ToSet(filled) \cup ToSet(accepted) = Pbufs \ (pool \cup others)
    /\ pool \cap others = {}

PbufInv == RingInv /\ MainInv /\ Apart

LEMMA Sizes ==
    ASSUME TypeOK
    PROVE  /\ NRxBd \in Nat \ {0} /\ QueueLen \in Nat \ {0} /\ OthersMax \in Nat
           /\ hw \in Seq(Pbufs) /\ filled \in Seq(Pbufs) /\ accepted \in Seq(Pbufs)
           /\ Len(hw) \in Nat /\ Len(filled) \in Nat /\ Len(accepted) \in Nat
           /\ qHead \in QueueSlots /\ qTail \in QueueSlots
           /\ IsFiniteSet(Pbufs) /\ IsFiniteSet(pool) /\ IsFiniteSet(others)
           /\ Cardinality(pool) \in Nat /\ Cardinality(others) \in Nat
<1>1. NRxBd \in Nat \ {0} /\ QueueLen \in Nat \ {0} /\ OthersMax \in Nat
  BY SizeAssumption
<1>2. hw \in Seq(Pbufs) /\ filled \in Seq(Pbufs) /\ accepted \in Seq(Pbufs)
  BY DEF TypeOK
<1>3. Len(hw) \in Nat /\ Len(filled) \in Nat /\ Len(accepted) \in Nat
  BY <1>2, LenProperties
<1>4. pool \in SUBSET Pbufs /\ others \in SUBSET Pbufs /\ IsFiniteSet(Pbufs)
  BY PoolAssumption DEF TypeOK
<1>5. /\ IsFiniteSet(pool) /\ IsFiniteSet(others)
      /\ Cardinality(pool) \in Nat /\ Cardinality(others) \in Nat
  BY <1>4, FS_Subset, FS_CardinalityType
<1> QED BY <1>1, <1>2, <1>3, <1>4, <1>5 DEF TypeOK

----------------------------------------------------------------------------
(* The queue between interrupt and main loop.                              *)

QueuedLen == (qHead - qTail) % QueueLen

\* Distances in the queue, and the index after one, without remainders.
LEMMA QueueNumbers ==
    ASSUME TypeOK
    PROVE  /\ QueuedLen = IF qHead >= qTail THEN qHead - qTail ELSE qHead - qTail + QueueLen
           /\ QueuedLen \in 0..(QueueLen - 1)
           /\ Room = (QueueLen - 1) - QueuedLen
           /\ \A i \in 0..(QueueLen - 1) :
                 (qTail + i) % QueueLen =
                    IF qTail + i < QueueLen THEN qTail + i ELSE qTail + i - QueueLen
<1> DEFINE L == QueueLen
<1>1. L \in Nat \ {0} /\ qHead \in 0..(L - 1) /\ qTail \in 0..(L - 1)
  BY Sizes DEF QueueSlots
<1> HIDE DEF L
<1> DEFINE a == qHead - qTail
           b == qTail - qHead - 1
<1>2. a \in Int /\ b \in Int
  BY <1>1
<1>4. (b \in 0..(L - 1) => b % L = b) /\ (b \in (-L)..(-1) => b % L = b + L)
  <2> HIDE DEF b
  <2> QED BY <1>1, <1>2, ModNear
<1>5. a % L = IF qHead >= qTail THEN a ELSE a + L
  BY <1>1, ModDiff
<1>6. a % L \in 0..(L - 1)
  BY <1>1, <1>5
<1>7. b % L = (L - 1) - (a % L)
  <2>1. CASE qHead >= qTail
    <3>1. b \in (-L)..(-1)
      BY <1>1, <2>1
    <3> QED BY <1>1, <1>4, <1>5, <2>1, <3>1
  <2>2. CASE ~(qHead >= qTail)
    <3>1. b \in 0..(L - 1)
      BY <1>1, <2>2
    <3> QED BY <1>1, <1>4, <1>5, <2>2, <3>1
  <2> QED BY <2>1, <2>2
<1>8. ASSUME NEW i \in 0..(L - 1)
      PROVE  (qTail + i) % L = IF qTail + i < L THEN qTail + i ELSE qTail + i - L
  <2>1. i \in 0..L
    BY <1>1
  <2> QED BY <1>1, <2>1, ModSum
<1> QED BY <1>5, <1>6, <1>7, <1>8 DEF L, QueuedLen, Room

\* Queued is a sequence of that length.
LEMMA QueuedType ==
    ASSUME TypeOK
    PROVE  /\ Queued \in Seq(Pbufs \cup {None}) /\ Len(Queued) = QueuedLen
           /\ \A i \in 1..QueuedLen :
                 /\ (qTail + i - 1) % QueueLen \in QueueSlots
                 /\ Queued[i] = rxq[(qTail + i - 1) % QueueLen]
<1>1. QueueLen \in Nat \ {0} /\ qTail \in Int /\ QueuedLen \in Nat
  BY Sizes, QueueNumbers DEF QueueSlots
<1>2. ASSUME NEW i \in 1..QueuedLen
      PROVE  /\ (qTail + i - 1) % QueueLen \in QueueSlots
             /\ rxq[(qTail + i - 1) % QueueLen] \in Pbufs \cup {None}
  <2> DEFINE a == qTail + i - 1
  <2>1. a \in Int
    BY <1>1
  <2> HIDE DEF a
  <2>2. a % QueueLen \in 0..(QueueLen - 1)
    BY <1>1, <2>1, DivMod
  <2> QED BY <2>2 DEF a, QueueSlots, TypeOK
<1>3. Queued \in [1..QueuedLen -> Pbufs \cup {None}]
  BY <1>2 DEF Queued, QueuedLen
<1>4. Queued \in Seq(Pbufs \cup {None})
  BY <1>1, <1>3, SeqDef
<1>5. Len(Queued) = QueuedLen
  BY <1>1, <1>3, <1>4, LenProperties
<1> QED BY <1>2, <1>4, <1>5 DEF Queued, QueuedLen

\* What the main loop does not touch stays in order.
LEMMA MainLeft ==
    ASSUME MainInv, UNCHANGED <<queue, main, accepted>>
    PROVE  MainInv'
  BY DEF MainInv, DeliveredInOrder, Queued, queue, main
\* The stack, the queue and the pbuf being delivered leave the pool enough to
\* arm every free descriptor: the pool is that large.
LEMMA AcceptedLen ==
    ASSUME TypeOK, DeliveredInOrder
    PROVE  Len(accepted) <= QueueLen
<1>1. /\ Queued \in Seq(Pbufs \cup {None}) /\ Len(Queued) \in 0..(QueueLen - 1)
      /\ QueueLen \in Nat \ {0}
  BY Sizes, QueuedType, QueueNumbers
<1>2. CASE input = "deliver"
  <2> DEFINE o == <<cur>>
  <2>1. cur \in Pbufs \cup {None}
    BY DEF TypeOK
  <2>2. o \in Seq(Pbufs \cup {None}) /\ Len(o) = 1
    BY <2>1, OneElement
  <2> HIDE DEF o
  <2>3. Len(o \o Queued) = Len(o) + Len(Queued)
    BY <1>1, <2>2, ConcatSets, ZenonT(60)
  <2>4. accepted = o \o Queued
    BY <1>2 DEF DeliveredInOrder, o
  <2> QED BY <1>1, <2>2, <2>3, <2>4
<1>3. CASE input # "deliver"
  BY <1>1, <1>3 DEF DeliveredInOrder
<1> QED BY <1>2, <1>3

\* Descriptors, queue, the pbuf being delivered and what is held elsewhere leave
\* the pool with a pbuf for every descriptor that is not armed.
LEMMA PoolCount ==
    ASSUME NEW bds \in Nat, NEW places \in Nat, NEW elsewhere \in Nat, NEW pbufs \in Nat,
           NEW h \in Nat, NEW f \in Nat, NEW a \in Nat, NEW p \in Nat, NEW o \in Nat,
           pbufs >= bds + (places - 1) + 1 + elsewhere, pbufs <= h + f + a + p + o,
           h + f <= bds, a <= places, o <= elsewhere
    PROVE  bds - h - f \in Nat /\ bds - h - f <= p
  OBVIOUS

LEMMA PoolSuffices ==
    ASSUME PbufInv
    PROVE  FreeBds \in Nat /\ FreeBds <= Cardinality(pool)
<1>0. TypeOK
  BY DEF PbufInv, RingInv
<1>16. hw \in Seq(Pbufs) /\ filled \in Seq(Pbufs) /\ accepted \in Seq(Pbufs)
  BY <1>0, Sizes
<1>1. /\ NRxBd \in Nat /\ QueueLen \in Nat \ {0} /\ OthersMax \in Nat
      /\ Len(hw) \in Nat /\ Len(filled) \in Nat /\ Len(accepted) \in Nat
      /\ IsFiniteSet(Pbufs) /\ IsFiniteSet(pool) /\ IsFiniteSet(others)
      /\ Cardinality(pool) \in Nat /\ Cardinality(others) \in Nat
      /\ pool \subseteq Pbufs /\ others \subseteq Pbufs
  BY <1>0, Sizes DEF TypeOK
<1>2. PICK p \in Seq(pool) : Len(p) = Cardinality(pool) /\ ToSet(p) = pool
  BY <1>1, Listed
<1>3. PICK o \in Seq(others) : Len(o) = Cardinality(others) /\ ToSet(o) = others
  BY <1>1, Listed
<1>4. p \in Seq(Pbufs) /\ o \in Seq(Pbufs)
  BY <1>1, SeqSubset
<1> DEFINE u == hw \o filled
           v == u \o accepted
           w == v \o p
           all == w \o o
<1>5. /\ u \in Seq(Pbufs) /\ Len(u) = Len(hw) + Len(filled)
      /\ ToSet(u) = ToSet(hw) \cup ToSet(filled)
  <2>1. \A s, t \in Seq(Pbufs) : /\ s \o t \in Seq(Pbufs) /\ Len(s \o t) = Len(s) + Len(t)
                                 /\ ToSet(s \o t) = ToSet(s) \cup ToSet(t)
    <3> TAKE s, t \in Seq(Pbufs)
    <3>1. /\ s \o t \in Seq(Pbufs) /\ Len(s \o t) = Len(s) + Len(t)
          /\ ToSet(s \o t) = ToSet(s) \cup ToSet(t)
          /\ IsInjective(s \o t) <=>
                IsInjective(s) /\ IsInjective(t) /\ ToSet(s) \cap ToSet(t) = {}
      BY ConcatSets, Zenon
    <3> QED BY <3>1
  <2> QED BY <1>16, <2>1, Zenon
<1> HIDE DEF u
<1>6. /\ v \in Seq(Pbufs) /\ Len(v) = Len(u) + Len(accepted)
      /\ ToSet(v) = ToSet(u) \cup ToSet(accepted)
  BY <1>16, <1>5, ConcatSets, ZenonT(60)
<1> HIDE DEF v
<1>7. w \in Seq(Pbufs) /\ Len(w) = Len(v) + Len(p) /\ ToSet(w) = ToSet(v) \cup ToSet(p)
  BY <1>4, <1>6, ConcatSets, ZenonT(60)
<1> HIDE DEF w
<1>8. all \in Seq(Pbufs) /\ Len(all) = Len(w) + Len(o) /\ ToSet(all) = ToSet(w) \cup ToSet(o)
  BY <1>4, <1>7, ConcatSets, ZenonT(60)
<1> HIDE DEF all
<1>9. ToSet(all) = Pbufs
  <2>1. ToSet(hw) \cup ToSet(filled) \cup ToSet(accepted) = Pbufs \ (pool \cup others)
    BY DEF PbufInv, Apart
  <2> QED BY <1>1, <1>2, <1>3, <1>5, <1>6, <1>7, <1>8, <2>1
<1>10. Cardinality(Pbufs) <= Len(all)
  BY <1>8, <1>9, ListCovers
<1>11. Cardinality(Pbufs) >= NRxBd + (QueueLen - 1) + 1 + OthersMax
  BY PoolAssumption
<1>12. Cardinality(Pbufs) \in Nat
  BY <1>1, FS_CardinalityType
<1>13. Len(accepted) <= QueueLen
  BY AcceptedLen DEF PbufInv, RingInv, MainInv
<1>14. Len(hw) + Len(filled) <= NRxBd /\ Cardinality(others) <= OthersMax
  BY DEF PbufInv, RingInv
<1>15. Len(all) = Len(hw) + Len(filled) + Len(accepted) + Cardinality(pool) + Cardinality(others)
  BY <1>1, <1>2, <1>3, <1>5, <1>6, <1>7, <1>8
<1>17. FreeBds = NRxBd - Len(hw) - Len(filled)
  BY DEF FreeBds
<1> HIDE DEF FreeBds
<1> QED BY <1>1, <1>10, <1>11, <1>12, <1>13, <1>14, <1>15, <1>17, PoolCount, SMTT(30)

----------------------------------------------------------------------------
(* The descriptors.                                                        *)

\* setup_rx_bds arms every free descriptor, with pbufs from the pool.
LEMMA Rearm ==
    ASSUME PbufInv, SetupRxBds(FreeBds), UNCHANGED <<filled, others, accepted>>
    PROVE  /\ hw' \in Seq(Pbufs) /\ pool' \subseteq Pbufs
           /\ Len(hw') + Len(filled') = NRxBd
           /\ Apart'
<1>1. /\ hw \in Seq(Pbufs) /\ Len(hw) \in Nat /\ Len(filled) \in Nat /\ NRxBd \in Nat
      /\ Cardinality(pool) \in Nat /\ pool \subseteq Pbufs
  BY Sizes DEF PbufInv, RingInv, TypeOK
<1> DEFINE k == FreeBds
<1>2. k \in Nat /\ k <= Cardinality(pool)
  BY PoolSuffices
<1>3. PICK fresh \in Alloc(FreeBds) : hw' = hw \o fresh /\ pool' = pool \ ToSet(fresh)
  BY DEF SetupRxBds
<1> HIDE DEF k
<1>4. fresh \in [1..k -> pool] /\ IsInjective(fresh)
  <2>1. ~(Cardinality(pool) < k)
    BY <1>1, <1>2
  <2> QED BY <1>3, <2>1 DEF Alloc, k
<1>5. fresh \in Seq(pool) /\ Len(fresh) = k
  <2>1. fresh \in Seq(pool)
    BY <1>2, <1>4, SeqDef
  <2> QED BY <1>2, <1>4, <2>1, LenProperties
<1>6. fresh \in Seq(Pbufs) /\ ToSet(fresh) \subseteq pool
  BY <1>1, <1>5, SeqSubset, ElementsOfSeq
<1>7. /\ hw \o fresh \in Seq(Pbufs) /\ Len(hw \o fresh) = Len(hw) + Len(fresh)
      /\ ToSet(hw \o fresh) = ToSet(hw) \cup ToSet(fresh)
      /\ IsInjective(hw \o fresh) <=>
            IsInjective(hw) /\ IsInjective(fresh) /\ ToSet(hw) \cap ToSet(fresh) = {}
  BY <1>1, <1>6, ConcatSets, Zenon
<1>8. Len(hw') + Len(filled') = NRxBd
  BY <1>1, <1>3, <1>5, <1>7 DEF FreeBds, k
<1>9. Apart'
  <2> DEFINE s == ToSet(hw)
             f == ToSet(filled)
             q == ToSet(accepted)
             n == ToSet(fresh)
  <2>1. /\ IsInjective(hw) /\ IsInjective(filled) /\ IsInjective(accepted)
        /\ s \cap f = {} /\ s \cap q = {} /\ f \cap q = {} /\ pool \cap others = {}
        /\ s \cup f \cup q = Pbufs \ (pool \cup others)
    BY DEF PbufInv, Apart
  <2>2. /\ ToSet(hw') = s \cup n /\ pool' = pool \ n /\ n \subseteq pool
        /\ ToSet(filled') = f /\ ToSet(accepted') = q /\ others' = others
        /\ IsInjective(filled') /\ IsInjective(accepted')
    BY <1>3, <1>6, <1>7, <2>1
  <2>3. s \cap n = {}
    BY <2>1, <2>2
  <2>4. IsInjective(hw')
    BY <1>3, <1>4, <1>7, <2>1, <2>3
  <2> HIDE DEF s, f, q, n
  <2>5. /\ (s \cup n) \cap f = {} /\ (s \cup n) \cap q = {}
        /\ (s \cup n) \cup f \cup q = Pbufs \ ((pool \ n) \cup others)
        /\ (pool \ n) \cap others = {}
    BY <1>1, <2>1, <2>2
  <2> QED BY <2>1, <2>2, <2>4, <2>5 DEF Apart
<1> QED BY <1>1, <1>3, <1>7, <1>8, <1>9
----------------------------------------------------------------------------
(* What the interrupt handler queues.                                      *)

\* A sequence with increasing values repeats none.
LEMMA GoodType ==
    ASSUME NEW n \in Nat, NEW at \in Good(n)
    PROVE  at \in [1..Len(at) -> 1..n] /\ Len(at) \in Nat /\ IsInjective(at)
<1>1. PICK m \in 0..n : at \in [1..m -> 1..n]
  BY DEF Good, SeqOf
<1>2. at \in Seq(1..n) /\ m \in Nat
  BY <1>1, SeqDef
<1>3. m = Len(at)
  BY <1>1, <1>2, LenProperties
<1>4. ASSUME NEW i \in DOMAIN at, NEW j \in DOMAIN at, at[i] = at[j] PROVE i = j
  <2>1. i \in Int /\ j \in Int /\ at[i] \in Int /\ at[j] \in Int
    BY <1>1, <1>2
  <2>2. ~(i < j) /\ ~(j < i)
    BY <1>4, <2>1 DEF Good
  <2> QED BY <2>1, <2>2
<1>5. IsInjective(at)
  BY <1>4 DEF IsInjective
<1> QED BY <1>1, <1>2, <1>3, <1>5

\* The completed descriptors are emptied: some of their frames, as many as there
\* is room for and none twice, are queued in order, and the pbufs of the rest
\* are freed.
LEMMA CollectQueues ==
    ASSUME TypeOK, IsInjective(filled), Collect
    PROVE  \E fits \in Seq(Pbufs) :
              /\ Len(fits) <= Room /\ IsInjective(fits) /\ ToSet(fits) \subseteq ToSet(filled)
              /\ rxq' = [s \in QueueSlots |->
                    IF (s - qHead) % QueueLen < Len(fits)
                    THEN fits[((s - qHead) % QueueLen) + 1] ELSE rxq[s]]
              /\ qHead' = (qHead + Len(fits)) % QueueLen
              /\ accepted' = accepted \o fits
              /\ pool' = pool \cup (ToSet(filled) \ ToSet(fits))
              /\ filled' = <<>>
<1>1. filled \in Seq(Pbufs) /\ Len(filled) \in Nat /\ Room \in Nat
  BY Sizes, QueueNumbers
<1>2. DOMAIN filled = 1..Len(filled) /\ \A i \in 1..Len(filled) : filled[i] \in Pbufs
  BY <1>1, LenProperties, ElementOfSeq
<1> DEFINE good(at) == [i \in 1..Len(at) |-> filled[at[i]]]
           fits(at) == IF Len(good(at)) <= Room THEN good(at) ELSE SubSeq(good(at), 1, Room)
<1>3. PICK at \in Good(Len(filled)) :
         /\ rxq' = [s \in QueueSlots |->
               IF (s - qHead) % QueueLen < Len(fits(at))
               THEN fits(at)[((s - qHead) % QueueLen) + 1] ELSE rxq[s]]
         /\ qHead' = (qHead + Len(fits(at))) % QueueLen
         /\ accepted' = accepted \o fits(at)
         /\ pool' = pool \cup Drop(ToSet(filled) \ ToSet(good(at)), ToSet(good(at)) \ ToSet(fits(at)))
         /\ filled' = <<>>
  BY DEF Collect
<1> DEFINE g == good(at)
           f == fits(at)
<1>4. at \in [1..Len(at) -> 1..Len(filled)] /\ Len(at) \in Nat /\ IsInjective(at)
  BY <1>1, <1>3, GoodType
<1>5. g \in [1..Len(at) -> Pbufs] /\ \A i \in 1..Len(at) : g[i] = filled[at[i]]
  BY <1>2, <1>4
<1> HIDE DEF g
<1>6. g \in Seq(Pbufs) /\ Len(g) = Len(at) /\ DOMAIN g = 1..Len(at)
  <2>1. g \in Seq(Pbufs)
    BY <1>4, <1>5, SeqDef
  <2> QED BY <1>4, <1>5, <2>1, LenProperties
<1>7. IsInjective(g) /\ ToSet(g) \subseteq ToSet(filled)
  <2>1. ASSUME NEW i \in 1..Len(at), NEW j \in 1..Len(at), g[i] = g[j] PROVE i = j
    <3>1. at[i] \in 1..Len(filled) /\ at[j] \in 1..Len(filled) /\ filled[at[i]] = filled[at[j]]
      BY <1>4, <1>5, <2>1
    <3>2. at[i] = at[j]
      BY <1>2, <3>1 DEF IsInjective
    <3> QED BY <1>4, <3>2 DEF IsInjective
  <2>2. \A i \in 1..Len(at) : at[i] \in 1..Len(filled)
    BY <1>4
  <2> QED BY <1>2, <1>5, <1>6, <2>1, <2>2 DEF IsInjective, ToSet
<1>8. f = IF Len(g) <= Room THEN g ELSE SubSeq(g, 1, Room)
  BY DEF g
<1> HIDE DEF f
<1>9. /\ f \in Seq(Pbufs) /\ Len(f) <= Room /\ IsInjective(f) /\ ToSet(f) \subseteq ToSet(g)
  <2>1. CASE Len(g) <= Room
    BY <1>6, <1>7, <1>8, <2>1
  <2>2. CASE ~(Len(g) <= Room)
    <3>1. Room \in 0..Len(g)
      BY <1>1, <1>4, <1>6, <2>2
    <3> DEFINE r == Room
               p == SubSeq(g, 1, r)
    <3>2. f = p
      BY <1>8, <2>2
    <3> HIDE DEF r
    <3>3. p \in Seq(Pbufs) /\ Len(p) = r /\ ToSet(p) \subseteq ToSet(g) /\ IsInjective(p)
      BY <1>6, <1>7, <3>1, PrefixSets DEF r
    <3> QED BY <1>1, <3>2, <3>3 DEF r
  <2> QED BY <2>1, <2>2
<1>10. pool' = pool \cup (ToSet(filled) \ ToSet(f))
  <2>1. pool' = pool \cup ((ToSet(filled) \ ToSet(g)) \cup (ToSet(g) \ ToSet(f)))
    BY <1>3 DEF Drop, f, g
  <2> QED BY <1>7, <1>9, <2>1
<1>11. ToSet(f) \subseteq ToSet(filled)
  BY <1>7, <1>9
<1>12. /\ rxq' = [s \in QueueSlots |->
             IF (s - qHead) % QueueLen < Len(f)
             THEN f[((s - qHead) % QueueLen) + 1] ELSE rxq[s]]
       /\ qHead' = (qHead + Len(f)) % QueueLen
       /\ accepted' = accepted \o f
       /\ filled' = <<>>
  BY <1>3 DEF f
<1> QED BY <1>9, <1>10, <1>11, <1>12

\* They follow what the queue holds; the main loop's end of it stays as it is.
LEMMA QueueGrows ==
    ASSUME TypeOK, NEW fits \in Seq(Pbufs), Len(fits) <= Room,
           rxq' = [s \in QueueSlots |->
              IF (s - qHead) % QueueLen < Len(fits)
              THEN fits[((s - qHead) % QueueLen) + 1] ELSE rxq[s]],
           qHead' = (qHead + Len(fits)) % QueueLen,
           qTail' = qTail
    PROVE  /\ qHead' \in QueueSlots /\ rxq' \in [QueueSlots -> Pbufs \cup {None}]
           /\ Queued' = Queued \o fits
           /\ qTail # qHead => qTail # qHead' /\ rxq'[qTail] = rxq[qTail]
<1> DEFINE L == QueueLen
           h == qHead
           t == qTail
           q == QueuedLen
           f == Len(fits)
           D(s) == (s - h) % L
           S(i) == (t + i - 1) % L
<1>1. /\ L \in Nat \ {0} /\ h \in 0..(L - 1) /\ t \in 0..(L - 1) /\ f \in Nat
      /\ q = (IF h >= t THEN h - t ELSE h - t + L)
      /\ q \in 0..(L - 1) /\ f <= (L - 1) - q
      /\ QueueSlots = 0..(L - 1)
  BY Sizes, QueueNumbers, LenProperties DEF QueueSlots
<1>2. \A s \in 0..(L - 1) : D(s) = IF s >= h THEN s - h ELSE s - h + L
  BY <1>1, ModDiff
<1>3. \A s \in 0..(L - 1) : rxq'[s] = IF D(s) < f THEN fits[D(s) + 1] ELSE rxq[s]
  BY <1>1
<1>4. \A i \in 1..f : fits[i] \in Pbufs
  BY <1>1, ElementOfSeq
<1> HIDE DEF L, h, t, q, f, D
<1>5. rxq' \in [QueueSlots -> Pbufs \cup {None}]
  <2>1. ASSUME NEW s \in 0..(L - 1)
        PROVE  (IF D(s) < f THEN fits[D(s) + 1] ELSE rxq[s]) \in Pbufs \cup {None}
    <3>1. D(s) \in Nat
      <4>1. D(s) = (IF s >= h THEN s - h ELSE s - h + L)
        BY <1>2
      <4> QED BY <1>1, <4>1
    <3>2. D(s) < f => fits[D(s) + 1] \in Pbufs
      BY <1>1, <1>4, <3>1
    <3>3. rxq[s] \in Pbufs \cup {None}
      BY <1>1 DEF TypeOK
    <3> QED BY <3>2, <3>3
  <2> QED BY <1>1, <2>1 DEF D, L, h, f
<1>6. qHead' = (IF h + f < L THEN h + f ELSE h + f - L)
  <2>1. f \in 0..L
    BY <1>1
  <2> QED BY <1>1, <2>1, ModSum DEF L, h, f
<1>7. qHead' \in 0..(L - 1)
  BY <1>1, <1>6
<1>8. QueuedLen' = q + f
  <2> DEFINE n == qHead'
  <2>1. (n - t) % L = IF n >= t THEN n - t ELSE n - t + L
    BY <1>1, <1>7, ModDiff
  <2>2. QueuedLen' = (n - t) % L
    BY DEF QueuedLen, L, t
  <2> HIDE DEF n
  <2>3. n = (IF h + f < L THEN h + f ELSE h + f - L)
    BY <1>6 DEF n
  <2> QED BY <1>1, <2>1, <2>2, <2>3
<1>9. \A i \in 1..L : S(i) = IF t + i - 1 < L THEN t + i - 1 ELSE t + i - 1 - L
  <2> TAKE i \in 1..L
  <2> PICK j \in 0..L : j = i - 1
    BY <1>1
  <2>1. (t + j) % L = IF t + j < L THEN t + j ELSE t + j - L
    BY <1>1, ModSum
  <2>2. t + j = t + i - 1
    BY <1>1
  <2> QED BY <2>1, <2>2
<1> HIDE DEF S
<1>10. /\ \A i \in 1..L : S(i) \in 0..(L - 1)
       /\ \A i \in 1..q : rxq'[S(i)] = rxq[S(i)]
       /\ \A i \in 1..f : rxq'[S(q + i)] = fits[i]
  <2>1. \A i \in 1..L : S(i) \in 0..(L - 1)
    BY <1>1, <1>9
  <2>2. \A i \in 1..q : rxq'[S(i)] = rxq[S(i)]
    <3> TAKE i \in 1..q
    <3> PICK s \in 0..(L - 1) : s = S(i)
      BY <1>1, <2>1
    <3>1. s = (IF t + i - 1 < L THEN t + i - 1 ELSE t + i - 1 - L)
      BY <1>1, <1>9
    <3>2. D(s) = (IF s >= h THEN s - h ELSE s - h + L)
      BY <1>2
    <3>3. ~(D(s) < f)
      BY <1>1, <3>1, <3>2
    <3> QED BY <1>3, <3>3
  <2>3. \A i \in 1..f : rxq'[S(q + i)] = fits[i]
    <3> TAKE i \in 1..f
    <3> PICK j \in 1..L : j = q + i
      <4>1. q + i \in 1..L
        BY <1>1
      <4> QED BY <4>1
    <3> PICK s \in 0..(L - 1) : s = S(j)
      BY <1>1, <2>1
    <3>1. s = (IF t + j - 1 < L THEN t + j - 1 ELSE t + j - 1 - L)
      BY <1>1, <1>9
    <3>2. D(s) = (IF s >= h THEN s - h ELSE s - h + L)
      BY <1>2
    <3>3. D(s) = i - 1
      BY <1>1, <3>1, <3>2, SMTT(30)
    <3>4. D(s) < f /\ D(s) + 1 = i
      BY <1>1, <3>3
    <3> QED BY <1>3, <3>4
  <2> QED BY <2>1, <2>2, <2>3
<1>11. Queued' = Queued \o fits
  <2>1. /\ Queued \in Seq(Pbufs \cup {None}) /\ Len(Queued) = q
        /\ \A i \in 1..q : Queued[i] = rxq[S(i)]
    BY QueuedType DEF q, S, t, L
  <2>2. Queued' = [i \in 1..(q + f) |-> rxq'[S(i)]]
    BY <1>8 DEF Queued, QueuedLen, S, t, L
  <2>3. fits \in Seq(Pbufs \cup {None})
    BY SeqSubset
  <2> DEFINE c == Queued \o fits
  <2>4. /\ c \in Seq(Pbufs \cup {None}) /\ Len(c) = q + f
        /\ \A i \in 1..q : c[i] = Queued[i]
        /\ \A i \in 1..f : c[q + i] = fits[i]
    <3>1. \A s, u \in Seq(Pbufs \cup {None}) :
            /\ s \o u \in Seq(Pbufs \cup {None}) /\ Len(s \o u) = Len(s) + Len(u)
            /\ \A i \in 1..Len(s) : (s \o u)[i] = s[i]
            /\ \A i \in 1..Len(u) : (s \o u)[Len(s) + i] = u[i]
      OBVIOUS
    <3> QED BY <2>1, <2>3, <3>1 DEF f
  <2> HIDE DEF c
  <2>5. c \in [1..(q + f) -> Pbufs \cup {None}]
    BY <2>4, LenProperties
  <2>6. ASSUME NEW i \in 1..(q + f) PROVE c[i] = rxq'[S(i)]
    <3>1. CASE i \in 1..q
      BY <1>10, <2>1, <2>4, <3>1
    <3>2. CASE i \notin 1..q
      <4> PICK j \in 1..f : q + j = i
        <5>1. i - q \in 1..f /\ q + (i - q) = i
          BY <1>1, <3>2
        <5> QED BY <5>1
      <4> QED BY <1>10, <2>4
    <3> QED BY <3>1, <3>2
  <2>7. c = [i \in 1..(q + f) |-> rxq'[S(i)]]
    BY <2>5, <2>6
  <2> QED BY <2>2, <2>7 DEF c
<1>12. ASSUME t # h PROVE t # qHead' /\ rxq'[t] = rxq[t]
  <2>1. t # qHead'
    BY <1>1, <1>6, <1>12
  <2>2. 1 \in 1..q /\ S(1) = t
    BY <1>1, <1>9, <1>12
  <2> QED BY <1>10, <2>1, <2>2
<1> QED BY <1>1, <1>5, <1>7, <1>11, <1>12 DEF L, h, t

\* The first pbuf is the one at the tail; advancing the tail leaves the others.
LEMMA QueueTakes ==
    ASSUME TypeOK, qTail # qHead
    PROVE  /\ Queued # <<>> /\ Head(Queued) = rxq[qTail]
           /\ qTail' = NextSlot(qTail) /\ UNCHANGED <<rxq, qHead>> =>
                 /\ qTail' \in QueueSlots
                 /\ Queued' = Tail(Queued)
<1> DEFINE L == QueueLen
           h == qHead
           t == qTail
           q == QueuedLen
           S(i) == (t + i - 1) % L
<1>1. /\ L \in Nat \ {0} /\ h \in 0..(L - 1) /\ t \in 0..(L - 1) /\ h # t
      /\ q = (IF h >= t THEN h - t ELSE h - t + L)
      /\ QueueSlots = 0..(L - 1)
  BY Sizes, QueueNumbers DEF QueueSlots
<1>2. /\ Queued \in Seq(Pbufs \cup {None}) /\ Len(Queued) = q
      /\ \A i \in 1..q : Queued[i] = rxq[S(i)]
  BY QueuedType
<1> HIDE DEF L, h, t, q
<1>3. q \in Nat \ {0} /\ q <= L - 1
  BY <1>1
<1>4. S(1) = t
  <2>1. t + 1 - 1 = t
    BY <1>1
  <2> QED BY <1>1, <2>1, ModSmall
<1>5. Queued # <<>> /\ Head(Queued) = rxq[t]
  <2>1. Queued # <<>>
    BY <1>2, <1>3, EmptySeq
  <2>2. Head(Queued) = Queued[1] /\ 1 \in 1..q
    BY <1>2, <1>3, <2>1
  <2> HIDE DEF S
  <2> QED BY <1>2, <1>4, <2>1, <2>2
<1>6. ASSUME qTail' = NextSlot(qTail), UNCHANGED <<rxq, qHead>>
      PROVE  qTail' \in QueueSlots /\ Queued' = Tail(Queued)
  <2> DEFINE n == qTail'
  <2>1. n = IF t + 1 < L THEN t + 1 ELSE t + 1 - L
    <3>1. 1 \in 0..L
      BY <1>1
    <3> QED BY <1>1, <1>6, <3>1, ModSum DEF NextSlot, L, t
  <2>2. QueuedLen' = (h - n) % L
    BY <1>6 DEF QueuedLen, h, L
  <2>3. Queued' = [i \in 1..QueuedLen' |-> rxq[(n + i - 1) % L]]
    BY <1>6 DEF Queued, QueuedLen, L
  <2> HIDE DEF n
  <2>4. n \in 0..(L - 1)
    BY <1>1, <2>1
  <2>5. (h - n) % L = IF h >= n THEN h - n ELSE h - n + L
    BY <1>1, <2>4, ModDiff
  <2>6. QueuedLen' = q - 1
    BY <1>1, <2>1, <2>2, <2>5
  <2>7. \A i \in 1..(q - 1) : (n + i - 1) % L = S(i + 1)
    <3> TAKE i \in 1..(q - 1)
    <3> PICK j \in 0..L : j = i - 1
      <4>1. i - 1 \in 0..L
        BY <1>1, <1>3
      <4> QED BY <4>1
    <3> PICK k \in 0..L : k = i
      <4>1. i \in 0..L
        BY <1>1, <1>3
      <4> QED BY <4>1
    <3>1. (n + j) % L = IF n + j < L THEN n + j ELSE n + j - L
      BY <1>1, <2>4, ModSum
    <3>2. (t + k) % L = IF t + k < L THEN t + k ELSE t + k - L
      BY <1>1, ModSum
    <3>3. (n + j) % L = (t + k) % L
      BY <1>1, <1>3, <2>1, <3>1, <3>2
    <3>4. n + i - 1 = n + j /\ t + (i + 1) - 1 = t + k
      BY <1>1, <2>4
    <3> QED BY <3>3, <3>4
  <2> HIDE DEF S
  <2>8. Tail(Queued) = [i \in 1..(q - 1) |-> Queued[i + 1]]
    <3> DEFINE T == Pbufs \cup {None}
               r == Tail(Queued)
    <3>1. r \in Seq(T) /\ Len(r) = q - 1 /\ \A i \in 1..(q - 1) : r[i] = Queued[i + 1]
      BY <1>2, <1>3, <1>5, HeadTailProperties
    <3> HIDE DEF r
    <3>2. r \in [1..(q - 1) -> T]
      BY <3>1, LenProperties
    <3> QED BY <3>1, <3>2 DEF r
  <2>9. \A i \in 1..(q - 1) : i + 1 \in 1..q
    BY <1>3
  <2>10. \A i \in 1..(q - 1) : rxq[(n + i - 1) % L] = Queued[i + 1]
    BY <1>2, <2>7, <2>9
  <2>11. Queued' = Tail(Queued)
    BY <2>3, <2>6, <2>8, <2>10
  <2> QED BY <1>1, <2>4, <2>11 DEF n
<1> QED BY <1>5, <1>6 DEF t

----------------------------------------------------------------------------
(* The steps.                                                              *)

LEMMA PbufInit == Init => PbufInv
<1> SUFFICES ASSUME Init PROVE PbufInv
  OBVIOUS
<1> USE DEF Init
<1>1. NRxBd \in Nat \ {0} /\ QueueLen \in Nat \ {0} /\ OthersMax \in Nat
  BY SizeAssumption
<1>2. hw \in Seq(Pbufs) /\ Len(hw) = NRxBd
  <2>1. hw \in Seq(Pbufs)
    BY <1>1, SeqDef
  <2> QED BY <1>1, <2>1, LenProperties
<1>3. ToSet(hw) \subseteq Pbufs
  BY <1>2, ElementsOfSeq
<1>4. <<>> \in Seq(Pbufs) /\ Len(<<>>) = 0 /\ ToSet(<<>>) = {} /\ IsInjective(<<>>)
  BY NoElements, EmptySeq
<1>5. TypeOK
  BY <1>1, <1>2, <1>4 DEF TypeOK, QueueSlots
<1>6. Queued = <<>>
  <2>1. Queued \in Seq(Pbufs \cup {None}) /\ Len(Queued) = QueuedLen /\ QueuedLen = 0
    BY <1>1, <1>5, QueuedType, QueueNumbers
  <2> QED BY <2>1, EmptySeq
<1>7. RingInv
  <2>1. Len(hw) = NRxBd /\ Len(filled) = 0
    BY <1>2, <1>4
  <2>2. Cardinality(others) = 0
    BY FS_EmptySet
  <2> HIDE DEF Init
  <2> QED BY <1>1, <1>5, <2>1, <2>2 DEF RingInv, RingRearmed, FreeBds
<1>8. MainInv
  BY <1>6 DEF MainInv, DeliveredInOrder
<1>9. Apart
  BY <1>3, <1>4 DEF Apart
<1> QED BY <1>7, <1>8, <1>9 DEF PbufInv

\* A frame moves a pbuf from the armed descriptors to the completed ones.
LEMMA FrameStep == PbufInv /\ FrameArrives => PbufInv'
<1> SUFFICES ASSUME PbufInv, FrameArrives PROVE PbufInv'
  OBVIOUS
<1> USE DEF FrameArrives
<1>1. TypeOK /\ Apart
  BY DEF PbufInv, RingInv
<1>2. hw \in Seq(Pbufs) /\ filled \in Seq(Pbufs) /\ Len(hw) \in Nat /\ Len(filled) \in Nat
  BY <1>1, Sizes
<1> DEFINE x == Head(hw)
           r == Tail(hw)
<1>3. /\ x \in Pbufs /\ r \in Seq(Pbufs) /\ Len(hw) = Len(r) + 1
      /\ ToSet(hw) = {x} \cup ToSet(r)
      /\ IsInjective(hw) <=> IsInjective(r) /\ x \notin ToSet(r)
  BY <1>2, HeadTailSets
<1>4. hw' = r /\ filled' = Append(filled, x)
  OBVIOUS
<1> HIDE DEF x, r
<1>5. /\ Append(filled, x) \in Seq(Pbufs) /\ Len(Append(filled, x)) = Len(filled) + 1
      /\ ToSet(Append(filled, x)) = ToSet(filled) \cup {x}
      /\ IsInjective(Append(filled, x)) <=> IsInjective(filled) /\ x \notin ToSet(filled)
  BY <1>2, <1>3, AppendSets
<1>6. Len(r) \in Nat
  BY <1>3, LenProperties
<1>7. TypeOK'
  BY <1>1, <1>3, <1>4, <1>5 DEF TypeOK, queue, main
<1>8. Len(hw') + Len(filled') = Len(hw) + Len(filled)
  <2>1. Len(hw') = Len(r) /\ Len(filled') = Len(filled) + 1
    BY <1>4, <1>5, Zenon
  <2> HIDE DEF FrameArrives
  <2> QED BY <1>2, <1>3, <1>6, <2>1
<1>9. RingRearmed'
  <2>1. Len(hw') \in Nat /\ Len(filled') \in Nat /\ NRxBd \in Nat
    BY <1>1, <1>7, LenProperties, Sizes DEF TypeOK
  <2>2. isr' = isr /\ RingRearmed
    BY DEF PbufInv, RingInv
  <2> QED BY <1>2, <1>8, <2>1, <2>2 DEF RingRearmed, FreeBds
<1>10. RingInv'
  BY <1>7, <1>8, <1>9 DEF PbufInv, RingInv
<1>11. MainInv'
  BY MainLeft DEF PbufInv
<1>12. Apart'
  BY <1>1, <1>3, <1>4, <1>5 DEF Apart
<1> QED BY <1>10, <1>11, <1>12 DEF PbufInv

\* What only concerns the interrupts moves no pbuf, and the handler enters with
\* the ring as it is.
LEMMA IrqStep == PbufInv /\ (DmaError \/ TxDmaError \/ RxIsrEnter) => PbufInv'
<1> SUFFICES ASSUME PbufInv, DmaError \/ TxDmaError \/ RxIsrEnter PROVE PbufInv'
  OBVIOUS
<1>1. /\ UNCHANGED <<pool, rings, queue, main, others, accepted>>
      /\ {ioc', err', overtaken'} \subseteq BOOLEAN
      /\ isr' = isr \/ isr' \in {"error", "collect"}
  BY DEF DmaError, TxDmaError, RxIsrEnter, DmaReset, PbufInv, RingInv, TypeOK
<1>2. TypeOK'
  BY <1>1 DEF PbufInv, RingInv, TypeOK, rings, queue, main
<1>3. RingInv'
  BY <1>1, <1>2 DEF PbufInv, RingInv, RingRearmed, FreeBds, rings
<1>4. MainInv'
  BY <1>1, MainLeft DEF PbufInv
<1>5. Apart'
  BY <1>1 DEF PbufInv, Apart, rings
<1> QED BY <1>3, <1>4, <1>5 DEF PbufInv

\* The handler returns with every descriptor armed, after an error too.
LEMMA RearmStep == PbufInv /\ (RxIsrError \/ RxIsrRefill) => PbufInv'
<1> SUFFICES ASSUME PbufInv, RxIsrError \/ RxIsrRefill PROVE PbufInv'
  OBVIOUS
<1>1. /\ SetupRxBds(FreeBds)
      /\ UNCHANGED <<filled, queue, main, others, accepted>>
      /\ {ioc', err', overtaken'} \subseteq BOOLEAN
      /\ isr' = "idle"
  BY DEF RxIsrError, RxIsrRefill, Refill, DmaReset, PbufInv, RingInv, TypeOK
<1>2. /\ hw' \in Seq(Pbufs) /\ pool' \subseteq Pbufs
      /\ Len(hw') + Len(filled') = NRxBd
      /\ Apart'
  BY <1>1, Rearm
<1>3. TypeOK'
  BY <1>1, <1>2 DEF PbufInv, RingInv, TypeOK, queue, main
<1>4. NRxBd \in Nat /\ Len(hw') \in Nat /\ Len(filled') \in Nat
  <2>1. filled' \in Seq(Pbufs)
    BY <1>3 DEF TypeOK
  <2> QED BY <1>2, <2>1, SizeAssumption, LenProperties
<1>5. RingInv'
  BY <1>1, <1>2, <1>3, <1>4 DEF PbufInv, RingInv, RingRearmed, FreeBds
<1>6. MainInv'
  BY <1>1, MainLeft DEF PbufInv
<1> QED BY <1>2, <1>5, <1>6 DEF PbufInv

\* The frames that fit enter the queue behind the others; the rest go back to
\* the pool.
LEMMA CollectStep == PbufInv /\ RxIsrCollect => PbufInv'
<1> SUFFICES ASSUME PbufInv, RxIsrCollect PROVE PbufInv'
  OBVIOUS
<1>1. TypeOK /\ MainInv /\ Apart
  BY DEF PbufInv, RingInv
<1>2. /\ hw \in Seq(Pbufs) /\ filled \in Seq(Pbufs) /\ accepted \in Seq(Pbufs)
      /\ Len(hw) \in Nat /\ Len(filled) \in Nat /\ NRxBd \in Nat
  BY <1>1, Sizes
<1>3. /\ UNCHANGED <<hw, qTail, input, cur, others>> /\ isr' = "refill"
      /\ {ioc', err', overtaken'} \subseteq BOOLEAN
  BY <1>1 DEF RxIsrCollect, Collect, TypeOK, main
<1>4. PICK fits \in Seq(Pbufs) :
         /\ Len(fits) <= Room /\ IsInjective(fits) /\ ToSet(fits) \subseteq ToSet(filled)
         /\ rxq' = [s \in QueueSlots |->
               IF (s - qHead) % QueueLen < Len(fits)
               THEN fits[((s - qHead) % QueueLen) + 1] ELSE rxq[s]]
         /\ qHead' = (qHead + Len(fits)) % QueueLen
         /\ accepted' = accepted \o fits
         /\ pool' = pool \cup (ToSet(filled) \ ToSet(fits))
         /\ filled' = <<>>
  BY <1>1, CollectQueues DEF RxIsrCollect, Apart
<1>5. /\ qHead' \in QueueSlots /\ rxq' \in [QueueSlots -> Pbufs \cup {None}]
      /\ Queued' = Queued \o fits
      /\ qTail # qHead => qTail # qHead' /\ rxq'[qTail] = rxq[qTail]
  BY <1>1, <1>3, <1>4, QueueGrows
<1>6. /\ accepted \o fits \in Seq(Pbufs)
      /\ ToSet(accepted \o fits) = ToSet(accepted) \cup ToSet(fits)
      /\ IsInjective(accepted \o fits) <=>
            IsInjective(accepted) /\ IsInjective(fits) /\ ToSet(accepted) \cap ToSet(fits) = {}
  <2> DEFINE a == accepted
  <2>1. a \in Seq(Pbufs)
    BY <1>2
  <2> HIDE DEF a
  <2>2. a \o fits \in Seq(Pbufs) /\ ToSet(a \o fits) = ToSet(a) \cup ToSet(fits)
    BY <2>1, ConcatToSet, ConcatProperties
  <2>3. IsInjective(a \o fits) <=>
           IsInjective(a) /\ IsInjective(fits) /\ ToSet(a) \cap ToSet(fits) = {}
    BY <2>1, ConcatInjective
  <2> QED BY <2>2, <2>3 DEF a
<1>7. <<>> \in Seq(Pbufs) /\ Len(<<>>) = 0 /\ ToSet(<<>>) = {} /\ IsInjective(<<>>)
  BY NoElements, EmptySeq
<1>8. ToSet(filled) \subseteq Pbufs
  BY <1>2, ElementsOfSeq
<1>9. TypeOK'
  BY <1>1, <1>3, <1>4, <1>5, <1>6, <1>7, <1>8 DEF TypeOK
<1>10. RingInv'
  <2>1. Len(hw') + Len(filled') <= NRxBd
    <3>1. Len(hw) + Len(filled) <= NRxBd
      BY DEF PbufInv, RingInv
    <3> QED BY <1>2, <1>3, <1>4, <1>7, <3>1
  <2> QED BY <1>3, <1>9, <2>1 DEF PbufInv, RingInv, RingRearmed
<1>11. MainInv'
  <2>1. DeliveredInOrder'
    <3>1. CASE input = "deliver"
      <4> DEFINE o == <<cur>>
                 T == Pbufs \cup {None}
      <4>1. o \in Seq(T)
        BY <1>1 DEF TypeOK
      <4>2. Queued \in Seq(T) /\ fits \in Seq(T)
        BY <1>1, QueuedType, SeqSubset
      <4>3. accepted = o \o Queued
        BY <1>1, <3>1 DEF MainInv, DeliveredInOrder
      <4> HIDE DEF o, T
      <4>4. (o \o Queued) \o fits = o \o (Queued \o fits)
        BY <4>1, <4>2, ConcatAssociative
      <4>5. accepted' = o \o Queued'
        BY <1>4, <1>5, <4>3, <4>4
      <4> QED BY <1>3, <3>1, <4>5 DEF DeliveredInOrder, o
    <3>2. CASE input # "deliver"
      BY <1>1, <1>3, <1>4, <1>5, <3>2 DEF MainInv, DeliveredInOrder
    <3> QED BY <3>1, <3>2
  <2> QED BY <1>1, <1>3, <1>5, <2>1 DEF MainInv
<1>12. Apart'
  <2> DEFINE s == ToSet(hw)
             f == ToSet(filled)
             q == ToSet(accepted)
             n == ToSet(fits)
  <2>1. /\ IsInjective(hw) /\ IsInjective(accepted)
        /\ s \cap f = {} /\ s \cap q = {} /\ f \cap q = {} /\ pool \cap others = {}
        /\ s \cup f \cup q = Pbufs \ (pool \cup others)
    BY <1>1 DEF Apart
  <2>2. /\ ToSet(accepted') = q \cup n /\ pool' = pool \cup (f \ n) /\ n \subseteq f
        /\ ToSet(hw') = s /\ ToSet(filled') = {} /\ others' = others
        /\ IsInjective(hw') /\ IsInjective(filled')
    BY <1>3, <1>4, <1>6, <1>7, <2>1
  <2>3. q \cap n = {}
    BY <2>1, <2>2
  <2>4. IsInjective(accepted')
    BY <1>4, <1>6, <2>1, <2>3
  <2>5. pool \subseteq Pbufs /\ others \subseteq Pbufs /\ f \subseteq Pbufs
    BY <1>1, <1>8 DEF TypeOK
  <2> HIDE DEF s, f, q, n
  <2>6. /\ s \cap (q \cup n) = {}
        /\ s \cup {} \cup (q \cup n) = Pbufs \ ((pool \cup (f \ n)) \cup others)
        /\ (pool \cup (f \ n)) \cap others = {}
    BY <2>1, <2>2, <2>5
  <2> QED BY <2>2, <2>4, <2>6 DEF Apart
<1> QED BY <1>10, <1>11, <1>12 DEF PbufInv

\* taxi_macif_input reads the pbuf at the tail, which is the oldest one queued.
LEMMA ReadStep == PbufInv /\ InputRead => PbufInv'
<1> SUFFICES ASSUME PbufInv, InputRead PROVE PbufInv'
  OBVIOUS
<1>1. /\ input = "idle" /\ qTail # qHead /\ cur' = rxq[qTail] /\ input' = "advance"
      /\ UNCHANGED <<pool, rings, irq, queue, others, accepted, overtaken>>
  BY DEF InputRead
<1>2. TypeOK /\ MainInv /\ accepted \in Seq(Pbufs)
  BY DEF PbufInv, RingInv, TypeOK
<1>3. accepted = Queued
  BY <1>1, <1>2 DEF MainInv, DeliveredInOrder
<1>4. rxq[qTail] \in Pbufs
  <2>1. accepted # <<>> /\ Head(accepted) = rxq[qTail]
    BY <1>1, <1>2, <1>3, QueueTakes
  <2>2. Head(accepted) \in Pbufs
    BY <1>2, <2>1, HeadTailSets
  <2> QED BY <2>1, <2>2
<1>5. RingInv'
  BY <1>1, <1>4 DEF PbufInv, RingInv, TypeOK, RingRearmed, FreeBds, rings, irq, queue
<1>6. MainInv'
  <2>1. Queued' = Queued /\ UNCHANGED <<rxq, qHead, qTail>>
    BY <1>1 DEF Queued, queue
  <2>2. cur' # None
    BY <1>1, <1>4, NoneAssumption
  <2> QED BY <1>1, <1>3, <2>1, <2>2 DEF MainInv, DeliveredInOrder
<1>7. Apart'
  BY <1>1 DEF PbufInv, Apart, rings
<1> QED BY <1>5, <1>6, <1>7 DEF PbufInv

\* Taking it off the queue leaves the others in order behind it.
LEMMA AdvanceStep == PbufInv /\ InputAdvance => PbufInv'
<1> SUFFICES ASSUME PbufInv, InputAdvance PROVE PbufInv'
  OBVIOUS
<1>1. /\ input = "advance" /\ qTail' = NextSlot(qTail) /\ input' = "deliver"
      /\ UNCHANGED <<pool, rings, irq, rxq, qHead, cur, others, accepted, overtaken>>
  BY DEF InputAdvance
<1>2. TypeOK /\ MainInv
  BY DEF PbufInv, RingInv
<1>3. accepted = Queued /\ qTail # qHead /\ cur = rxq[qTail]
  BY <1>1, <1>2 DEF MainInv, DeliveredInOrder
<1>4. /\ Queued # <<>> /\ Head(Queued) = cur
      /\ qTail' \in QueueSlots /\ Queued' = Tail(Queued)
  BY <1>1, <1>2, <1>3, QueueTakes
<1>5. RingInv'
  BY <1>1, <1>4 DEF PbufInv, RingInv, TypeOK, RingRearmed, FreeBds, rings, irq
<1>6. MainInv'
  <2>1. Queued \in Seq(Pbufs \cup {None})
    BY <1>2, QueuedType
  <2>2. Queued = <<Head(Queued)>> \o Tail(Queued)
    BY <1>4, <2>1, HeadTailSets
  <2>3. accepted' = <<cur'>> \o Queued'
    BY <1>1, <1>3, <1>4, <2>2
  <2>4. cur' # None
    BY <1>1, <1>2 DEF MainInv
  <2> QED BY <1>1, <2>3, <2>4 DEF MainInv, DeliveredInOrder
<1>7. Apart'
  BY <1>1 DEF PbufInv, Apart, rings
<1> QED BY <1>5, <1>6, <1>7 DEF PbufInv

\* The delivered pbuf is the oldest; it goes to the stack or to the pool.
LEMMA DeliverStep == PbufInv /\ InputDeliver => PbufInv'
<1> SUFFICES ASSUME PbufInv, InputDeliver PROVE PbufInv'
  OBVIOUS
<1>1. /\ input = "deliver" /\ accepted' = Tail(accepted) /\ cur' = None /\ input' = "idle"
      /\ \/ /\ Cardinality(others) < OthersMax
            /\ others' = others \cup {cur} /\ pool' = pool
         \/ pool' = pool \cup {cur} /\ others' = others
      /\ UNCHANGED <<rings, irq, queue, overtaken>>
  BY DEF InputDeliver
<1>2. TypeOK /\ MainInv /\ Apart /\ Cardinality(others) <= OthersMax
  BY DEF PbufInv, RingInv
<1>3. accepted \in Seq(Pbufs) /\ cur \in Pbufs \cup {None} /\ accepted = <<cur>> \o Queued
  BY <1>1, <1>2 DEF TypeOK, MainInv, DeliveredInOrder
<1>4. accepted # <<>> /\ Head(accepted) = cur /\ Tail(accepted) = Queued
  <2>1. Queued \in Seq(Pbufs \cup {None})
    BY <1>2, QueuedType
  <2> QED BY <1>3, <2>1, PushedFirst
<1>5. /\ cur \in Pbufs /\ accepted' \in Seq(Pbufs)
      /\ ToSet(accepted) = {cur} \cup ToSet(accepted')
      /\ IsInjective(accepted) <=> IsInjective(accepted') /\ cur \notin ToSet(accepted')
  <2>1. accepted \in Seq(Pbufs)
    BY <1>3
  <2>2. /\ Head(accepted) \in Pbufs /\ Tail(accepted) \in Seq(Pbufs)
        /\ ToSet(accepted) = {Head(accepted)} \cup ToSet(Tail(accepted))
        /\ IsInjective(accepted) <=>
              IsInjective(Tail(accepted)) /\ Head(accepted) \notin ToSet(Tail(accepted))
    BY <1>4, <2>1, HeadTailSets
  <2>3. accepted' = Tail(accepted) /\ Head(accepted) = cur
    BY <1>1, <1>4
  <2> QED BY <2>2, <2>3, Zenon
<1>6. TypeOK'
  BY <1>1, <1>2, <1>5 DEF TypeOK, rings, irq, queue
<1>7. Cardinality(others') <= OthersMax
  <2>1. IsFiniteSet(others) /\ Cardinality(others) \in Nat /\ OthersMax \in Nat
    BY <1>2, Sizes
  <2>2. Cardinality(others \cup {cur}) <= Cardinality(others) + 1
    BY <2>1, FS_AddElement
  <2>3. Cardinality(others \cup {cur}) \in Nat
    BY <2>1, FS_AddElement, FS_CardinalityType
  <2>4. CASE Cardinality(others) < OthersMax /\ others' = others \cup {cur}
    BY <2>1, <2>2, <2>3, <2>4
  <2>5. CASE others' = others
    BY <1>2, <2>5
  <2> QED BY <1>1, <2>4, <2>5
<1>8. RingInv'
  BY <1>1, <1>6, <1>7 DEF PbufInv, RingInv, RingRearmed, FreeBds, rings, irq
<1>9. MainInv'
  <2>1. Queued' = Queued
    BY <1>1 DEF Queued, queue
  <2> QED BY <1>1, <1>4, <2>1 DEF MainInv, DeliveredInOrder
<1>10. Apart'
  <2> DEFINE s == ToSet(hw)
             f == ToSet(filled)
             q == ToSet(accepted')
  <2>1. /\ IsInjective(hw) /\ IsInjective(filled) /\ IsInjective(accepted')
        /\ s \cap f = {} /\ s \cap q = {} /\ f \cap q = {} /\ pool \cap others = {}
        /\ cur \notin s /\ cur \notin f /\ cur \notin q
        /\ s \cup f \cup ({cur} \cup q) = Pbufs \ (pool \cup others)
    BY <1>2, <1>5 DEF Apart
  <2>2. hw' = hw /\ filled' = filled
    BY <1>1 DEF rings
  <2> HIDE DEF s, f, q
  <2>3. /\ s \cup f \cup q = Pbufs \ (pool' \cup others')
        /\ pool' \cap others' = {}
    BY <1>1, <2>1
  <2> QED BY <2>1, <2>2, <2>3 DEF Apart, s, f, q
<1> QED BY <1>8, <1>9, <1>10 DEF PbufInv

\* The stack takes pbufs from the pool, up to its share, and frees them.
LEMMA OthersStep == PbufInv /\ Others => PbufInv'
<1> SUFFICES ASSUME PbufInv, Others PROVE PbufInv'
  OBVIOUS
<1>1. UNCHANGED <<rings, irq, queue, main, accepted, overtaken>>
  BY DEF Others, OthersTake, OthersFree
<1>2. PICK b \in Pbufs :
         \/ /\ b \in pool /\ Cardinality(others) < OthersMax
            /\ others' = others \cup {b} /\ pool' = pool \ {b}
         \/ b \in others /\ others' = others \ {b} /\ pool' = pool \cup {b}
  BY DEF Others, OthersTake, OthersFree, PbufInv, RingInv, TypeOK
<1>3. TypeOK /\ Apart /\ Cardinality(others) <= OthersMax
  BY DEF PbufInv, RingInv
<1>4. TypeOK'
  BY <1>1, <1>2, <1>3 DEF TypeOK, rings, irq, queue, main
<1>5. Cardinality(others') <= OthersMax
  <2>1. IsFiniteSet(others) /\ Cardinality(others) \in Nat /\ OthersMax \in Nat
    BY <1>3, Sizes
  <2>2. CASE Cardinality(others) < OthersMax /\ others' = others \cup {b}
    <3>1. Cardinality(others \cup {b}) <= Cardinality(others) + 1
      BY <2>1, FS_AddElement
    <3>2. Cardinality(others \cup {b}) \in Nat
      BY <2>1, FS_AddElement, FS_CardinalityType
    <3> QED BY <2>1, <2>2, <3>1, <3>2
  <2>3. CASE others' = others \ {b}
    <3>1. Cardinality(others \ {b}) <= Cardinality(others)
      BY <2>1, FS_RemoveElement
    <3>2. Cardinality(others \ {b}) \in Nat
      BY <2>1, FS_RemoveElement, FS_CardinalityType
    <3> QED BY <1>3, <2>1, <2>3, <3>1, <3>2
  <2> QED BY <1>2, <2>2, <2>3
<1>6. RingInv'
  BY <1>1, <1>4, <1>5 DEF PbufInv, RingInv, RingRearmed, FreeBds, rings, irq
<1>7. MainInv'
  BY <1>1, MainLeft DEF PbufInv
<1>8. Apart'
  <2>1. UNCHANGED <<hw, filled, accepted>>
    BY <1>1 DEF rings
  <2>2. pool' \cup others' = pool \cup others /\ pool' \cap others' = {}
    BY <1>2, <1>3 DEF Apart
  <2> QED BY <1>3, <2>1, <2>2 DEF Apart
<1> QED BY <1>6, <1>7, <1>8 DEF PbufInv

LEMMA PbufStep == PbufInv /\ [Next]_vars => PbufInv'
<1> SUFFICES ASSUME PbufInv, [Next]_vars PROVE PbufInv'
  OBVIOUS
<1>1. CASE FrameArrives
  BY <1>1, FrameStep
<1>2. CASE DmaError \/ TxDmaError \/ RxIsrEnter
  BY <1>2, IrqStep
<1>3. CASE RxIsrError \/ RxIsrRefill
  BY <1>3, RearmStep
<1>4. CASE RxIsrCollect
  BY <1>4, CollectStep
<1>5. CASE InputRead
  BY <1>5, ReadStep
<1>6. CASE InputAdvance
  BY <1>6, AdvanceStep
<1>7. CASE InputDeliver
  BY <1>7, DeliverStep
<1>8. CASE Others
  BY <1>8, OthersStep
<1>9. CASE UNCHANGED vars
  <2>1. UNCHANGED <<queue, main, accepted>>
    BY <1>9 DEF vars
  <2>2. MainInv'
    BY <2>1, MainLeft DEF PbufInv
  <2>3. RingInv' /\ Apart'
    BY <1>9 DEF vars, PbufInv, RingInv, TypeOK, RingRearmed, FreeBds, Apart,
                rings, irq, queue, main
  <2> QED BY <2>2, <2>3 DEF PbufInv
<1> QED BY <1>1, <1>2, <1>3, <1>4, <1>5, <1>6, <1>7, <1>8, <1>9
        DEF Next, Engine, RxIsr, Input

\* Queue and delivered pbuf, whichever place the main loop is at, are the pbufs
\* accepted; so every pbuf has one owner.
LEMMA OwnersAgree == PbufInv => PbufsConsistent
<1> SUFFICES ASSUME PbufInv PROVE PbufsConsistent
  OBVIOUS
<1>1. TypeOK /\ MainInv /\ Apart
  BY DEF PbufInv, RingInv
<1> DEFINE u == hw \o filled
<1>2. hw \in Seq(Pbufs) /\ filled \in Seq(Pbufs) /\ accepted \in Seq(Pbufs)
  BY <1>1 DEF TypeOK
<1>3. accepted = IF input = "advance" THEN Queued
                 ELSE IF cur = None THEN Queued ELSE <<cur>> \o Queued
  BY <1>1 DEF TypeOK, MainInv, DeliveredInOrder
<1>4. /\ u \in Seq(Pbufs) /\ ToSet(u) = ToSet(hw) \cup ToSet(filled)
      /\ IsInjective(u) <=>
            IsInjective(hw) /\ IsInjective(filled) /\ ToSet(hw) \cap ToSet(filled) = {}
  BY <1>2, ConcatSets, ZenonT(60)
<1> HIDE DEF u
<1>5. /\ ToSet(u \o accepted) = ToSet(u) \cup ToSet(accepted)
      /\ IsInjective(u \o accepted) <=>
            IsInjective(u) /\ IsInjective(accepted) /\ ToSet(u) \cap ToSet(accepted) = {}
  BY <1>2, <1>4, ConcatSets, ZenonT(60)
<1>6. /\ IsInjective(u \o accepted)
      /\ ToSet(u \o accepted) = Pbufs \ (pool \cup others)
  BY <1>1, <1>4, <1>5 DEF Apart
<1>7. PbufOwnedOnce
  BY <1>1, <1>3, <1>6, Zenon DEF PbufOwnedOnce, Apart, u
<1> QED BY <1>1, <1>7 DEF PbufsConsistent, MainInv

\* Whenever the handler is not at work every descriptor is armed: it never finds
\* the pool too small, and no way through it returns without re-arming.
LEMMA RxRingRearmed == Spec => []RingRearmed
<1>1. PbufInv => RingRearmed
  BY DEF PbufInv, RingInv
<1> QED BY PbufInit, PbufStep, <1>1, PTL DEF Spec

\* The port never goes deaf: whenever the handler is not at work every descriptor
\* is armed, and one that completes has its interrupt.
THEOREM RxNeverDeaf == Spec => []NeverDeaf
<1>1. RingRearmed /\ CompletionPending => NeverDeaf
  BY DEF NeverDeaf
<1> QED BY <1>1, RxRingRearmed, CompletionAlwaysPending, PTL

\* Every pbuf is in one place, and the main loop takes the frames off the queue
\* in the order the handler put them there, interrupted wherever it may be.
THEOREM RxPbufsConsistent == Spec => []PbufsConsistent
<1> QED BY PbufInit, PbufStep, OwnersAgree, PTL DEF Spec
----------------------------------------------------------------------------
(* The queue between interrupt and main loop is a queue.                    *)

\* What it holds are pbufs, at most QueueLen - 1.
QueuedTyped == Queued \in Seq(Pbufs) /\ Len(Queued) = QueuedLen /\ QueuedLen \in 0..(QueueLen - 1)
LEMMA QueuedFrames == PbufInv => QueuedTyped
<1> SUFFICES ASSUME PbufInv PROVE QueuedTyped
  OBVIOUS
<1>1. TypeOK /\ DeliveredInOrder /\ accepted \in Seq(Pbufs)
  BY DEF PbufInv, RingInv, MainInv, TypeOK
<1>2. Queued \in Seq(Pbufs \cup {None}) /\ Len(Queued) = QueuedLen
  BY <1>1, QueuedType
<1>3. QueuedLen \in 0..(QueueLen - 1)
  BY <1>1, QueueNumbers DEF QueueSlots
<1>4. Queued \in Seq(Pbufs)
  <2>1. CASE input = "deliver"
    <3>1. accepted = <<cur>> \o Queued
      BY <1>1, <2>1 DEF DeliveredInOrder
    <3> DEFINE T == Pbufs \cup {None}
               Q == Queued
    <3>2. Q \in Seq(T) /\ cur \in T /\ accepted \in Seq(Pbufs) /\ accepted = <<cur>> \o Q
      BY <1>1, <1>2, <3>1 DEF TypeOK
    <3> HIDE DEF T, Q
    <3>3. accepted # <<>> /\ Tail(accepted) = Q
      BY <3>2
    <3> QED BY <3>2, <3>3, HeadTailProperties DEF Q
  <2> QED BY <1>1, <2>1 DEF DeliveredInOrder
<1> QED BY <1>2, <1>3, <1>4 DEF QueuedTyped

\* Collection appends the frames that fit.
LEMMA FifoCollect ==
    ASSUME PbufInv, PbufInv', RxIsrCollect
    PROVE  Fifo!Accept \/ UNCHANGED <<Queued, input, cur>>
<1>1. TypeOK /\ IsInjective(filled) /\ UNCHANGED <<qTail, input, cur>>
  BY DEF PbufInv, RingInv, Apart, RxIsrCollect, Collect, main
<1>2. PICK fits \in Seq(Pbufs) :
         /\ Len(fits) <= Room
         /\ rxq' = [s \in QueueSlots |->
               IF (s - qHead) % QueueLen < Len(fits)
               THEN fits[((s - qHead) % QueueLen) + 1] ELSE rxq[s]]
         /\ qHead' = (qHead + Len(fits)) % QueueLen
  BY <1>1, CollectQueues DEF RxIsrCollect
<1>3. Queued' = Queued \o fits
  BY <1>1, <1>2, QueueGrows
<1>4. QueuedTyped /\ QueuedTyped'
  BY QueuedFrames, PTL
<1>5. Queued \in Seq(Pbufs) /\ Queued' \in Seq(Pbufs) /\ Len(Queued') <= QueueLen - 1
  BY <1>4, Sizes DEF QueuedTyped
<1> DEFINE Q == Queued
           R == Queued'
<1>6. Q \in Seq(Pbufs) /\ R \in Seq(Pbufs) /\ R = Q \o fits
  BY <1>3, <1>5
<1>7. CASE fits = <<>>
  <2>1. R = Q
    BY <1>6, <1>7, ConcatEmptySeq
  <2> QED BY <1>1, <2>1
<1>8. CASE fits # <<>>
  <2> HIDE DEF Q, R
  <2>1. Len(R) > Len(Q) /\ \A i \in 1..Len(Q) : R[i] = Q[i]
    BY <1>6, <1>8
  <2> USE DEF Q, R
  <2> QED BY <1>1, <1>5, <2>1 DEF Fifo!Accept
<1> QED BY <1>7, <1>8

\* Every step is one of the queue's, or moves none of its parts.
LEMMA FifoStep ==
    ASSUME PbufInv, PbufInv', [Next]_vars
    PROVE  [Fifo!Next]_<<Queued, IF input = "deliver" THEN cur ELSE None, TRUE>>
<1>1. TypeOK /\ MainInv
  BY DEF PbufInv, RingInv
<1>2. CASE RxIsrCollect
  BY <1>2, FifoCollect DEF Fifo!Next, Fifo!Accept
<1>3. CASE InputAdvance
  <2>1. /\ input = "advance" /\ qTail # qHead /\ cur = rxq[qTail]
        /\ qTail' = NextSlot(qTail) /\ input' = "deliver" /\ UNCHANGED <<rxq, qHead, cur>>
    BY <1>1, <1>3 DEF InputAdvance, MainInv
  <2>2. Queued # <<>> /\ Head(Queued) = cur /\ Queued' = Tail(Queued)
    BY <1>1, <2>1, QueueTakes
  <2> QED BY <2>1, <2>2 DEF Fifo!Next, Fifo!Leave
<1>4. CASE UNCHANGED queue /\ input' # "deliver"
  <2>1. Queued' = Queued
    BY <1>4 DEF queue, Queued
  <2> QED BY <1>4, <2>1 DEF Fifo!Next, Fifo!Consume
<1>5. CASE UNCHANGED <<queue, main>>
  <2>1. Queued' = Queued
    BY <1>5 DEF queue, Queued
  <2> QED BY <1>5, <2>1 DEF main
<1> QED BY <1>2, <1>3, <1>4, <1>5
    DEF Next, vars, Engine, RxIsr, Input, Others, FrameArrives, DmaError, TxDmaError,
        RxIsrEnter, RxIsrError, RxIsrRefill, InputRead, InputDeliver, OthersTake, OthersFree

\* The queue from the interrupt to the main loop implements a bounded queue, for
\* any sizes: never overrun, nothing lost or repeated, without a lock.
THEOREM RxQueueImplementsQueue == Spec => QueueIsFifo
<1>1. Init => Fifo!Init
  <2> SUFFICES ASSUME Init PROVE Fifo!Init
    OBVIOUS
  <2>1. (qHead - qTail) % QueueLen = 0
    BY SizeAssumption, ModSmall DEF Init
  <2>2. Queued = <<>>
    BY <2>1 DEF Queued
  <2> QED BY <2>2 DEF Init, Fifo!Init
<1>2. PbufInv /\ PbufInv' /\ [Next]_vars
        => [Fifo!Next]_<<Queued, IF input = "deliver" THEN cur ELSE None, TRUE>>
  BY FifoStep
<1> QED BY PbufInit, PbufStep, <1>1, <1>2, PTL DEF Spec, Fifo!Spec, QueueIsFifo

----------------------------------------------------------------------------
(* MacifTx: counting the references of a concatenation.                     *)

CountOf(s, c) == {i \in 1..Len(s) : s[i].id = c}

LEMMA CountFinite ==
    ASSUME NEW s \in Seq(Descriptors), NEW c
    PROVE  IsFiniteSet(CountOf(s, c)) /\ References(s, c) \in Nat
<1>1. Len(s) \in Nat
  BY LenProperties
<1>2. IsFiniteSet(1..Len(s))
  BY <1>1, FS_Interval
<1>3. CountOf(s, c) \subseteq 1..Len(s)
  BY DEF CountOf
<1>4. IsFiniteSet(CountOf(s, c))
  BY <1>2, <1>3, FS_Subset, Zenon
<1>5. Cardinality(CountOf(s, c)) \in Nat
  BY <1>4, FS_CardinalityType
<1> QED BY <1>4, <1>5 DEF CountOf, References

\* An element of a concatenation is one of either part.
LEMMA ConcatElements ==
    ASSUME NEW S, NEW s \in Seq(S), NEW t \in Seq(S)
    PROVE  /\ s \o t \in Seq(S)
           /\ Len(s) \in Nat /\ Len(t) \in Nat /\ Len(s \o t) = Len(s) + Len(t)
           /\ \A i \in 1..Len(s) : (s \o t)[i] = s[i]
           /\ \A i \in 1..Len(t) : (s \o t)[Len(s) + i] = t[i]
  BY LenProperties

LEMMA ReferencesConcat ==
    ASSUME NEW s \in Seq(Descriptors), NEW t \in Seq(Descriptors), NEW c
    PROVE  References(s \o t, c) = References(s, c) + References(t, c)
<1> DEFINE u == s \o t
           m == Len(s)
           n == Len(t)
           A == CountOf(s, c)
           B == CountOf(t, c)
           C == {i \in (m + 1)..(m + n) : u[i].id = c}
           f == [i \in B |-> m + i]
<1>1. /\ u \in Seq(Descriptors) /\ m \in Nat /\ n \in Nat /\ Len(u) = m + n
      /\ \A i \in 1..m : u[i] = s[i]
      /\ \A i \in 1..n : u[m + i] = t[i]
  BY ConcatElements
<1>2. B \subseteq 1..n /\ A \subseteq 1..m /\ (\A i \in 1..n : i \in B <=> t[i].id = c)
  BY DEF CountOf
<1> HIDE DEF u, m, n
<1>3. \A i \in (m + 1)..(m + n) : i - m \in 1..n /\ m + (i - m) = i
  BY <1>1
<1>4. ExistsBijection(B, C)
  <2>1. \A i \in B : m + i \in C
    <3> TAKE i \in B
    <3>1. i \in 1..n /\ m + i \in (m + 1)..(m + n)
      BY <1>1, <1>2
    <3>2. t[i].id = c /\ u[m + i] = t[i]
      BY <1>1, <1>2, <3>1
    <3> QED BY <3>1, <3>2
  <2>2. \A i \in C : \E j \in B : f[j] = i
    <3> TAKE i \in C
    <3>1. i \in (m + 1)..(m + n) /\ u[i].id = c
      OBVIOUS
    <3>2. i - m \in 1..n /\ m + (i - m) = i
      BY <1>3, <3>1
    <3>3. u[i] = t[i - m]
      BY <1>1, <3>2
    <3>4. i - m \in B
      BY <1>2, <3>1, <3>2, <3>3
    <3> HIDE DEF B
    <3> QED BY <3>2, <3>4
  <2>3. \A i, j \in B : f[i] = f[j] => i = j
    <3> TAKE i, j \in B
    <3>1. i \in 1..n /\ j \in 1..n
      BY <1>2
    <3>2. f[i] = m + i /\ f[j] = m + j
      OBVIOUS
    <3> HIDE DEF f, B
    <3> QED BY <1>1, <3>1, <3>2
  <2>4. f \in [B -> C]
    BY <2>1
  <2>5. f \in Bijection(B, C)
    <3> HIDE DEF f, B, C
    <3> QED BY <2>2, <2>3, <2>4 DEF Bijection, Injection, Surjection, IsInjective
  <2> QED BY <2>5 DEF ExistsBijection
<1>5. IsFiniteSet(B) /\ IsFiniteSet(A)
  BY CountFinite
<1>6. IsFiniteSet(C) /\ Cardinality(C) = Cardinality(B)
  <2> HIDE DEF B, C
  <2> QED BY <1>4, <1>5, FS_Bijection
<1>7. A \cap C = {}
  <2>1. \A i \in A : i \notin C
    BY <1>1, <1>2
  <2> HIDE DEF A, C
  <2> QED BY <2>1
<1>8. CountOf(u, c) = A \cup C
  <2>1. \A i \in 1..(m + n) : i \in 1..m \/ i \in (m + 1)..(m + n)
    BY <1>1
  <2>2. \A i \in 1..m : i \in 1..(m + n)
    BY <1>1
  <2>3. \A i \in (m + 1)..(m + n) : i \in 1..(m + n)
    BY <1>1
  <2>4. \A i \in 1..m : i \in A <=> u[i].id = c
    BY <1>1 DEF CountOf, m
  <2>5. ASSUME NEW i \in CountOf(u, c) PROVE i \in A \cup C
    <3>1. i \in 1..(m + n) /\ u[i].id = c
      BY <1>1 DEF CountOf
    <3> HIDE DEF A
    <3> QED BY <2>1, <2>4, <3>1
  <2>6. ASSUME NEW i \in A \cup C PROVE i \in CountOf(u, c)
    <3>1. i \in 1..(m + n) /\ u[i].id = c
      <4> HIDE DEF A
      <4>1. CASE i \in A
        BY <1>2, <2>2, <2>4, <4>1
      <4>2. CASE i \in C
        BY <2>3, <4>2
      <4> QED BY <4>1, <4>2
    <3> QED BY <1>1, <3>1 DEF CountOf
  <2> HIDE DEF A, C
  <2> QED BY <2>5, <2>6
<1>9. Cardinality(A \cup C) = Cardinality(A) + Cardinality(C) - Cardinality({})
  <2> HIDE DEF A, C
  <2> QED BY <1>5, <1>6, <1>7, FS_Union
<1>10. Cardinality(A) \in Nat /\ Cardinality(B) \in Nat /\ Cardinality({}) = 0
  <2> HIDE DEF A, B
  <2> QED BY <1>5, FS_CardinalityType, FS_EmptySet
<1>11. Cardinality(CountOf(u, c)) = Cardinality(A) + Cardinality(B)
  <2> HIDE DEF A, B, C
  <2> QED BY <1>6, <1>8, <1>9, <1>10
<1> QED BY <1>11 DEF CountOf, References, u

----------------------------------------------------------------------------
(* Whole frames: a sequence of them stays one when another is added at the *)
(* end, and what is left of it when a sequence of them is taken away.       *)

Whole(s) ==
    \A i \in 1..Len(s) :
        IF s[i].eof THEN s[i].id = s[i].chain
        ELSE /\ s[i].id = Nothing
             /\ i < Len(s) /\ s[i + 1].chain = s[i].chain

LEMMA WholeConcat ==
    ASSUME NEW s \in Seq(Descriptors), NEW t \in Seq(Descriptors), Whole(s), Whole(t)
    PROVE  Whole(s \o t)
<1> DEFINE u == s \o t
           m == Len(s)
           n == Len(t)
<1>1. /\ m \in Nat /\ n \in Nat /\ Len(u) = m + n
      /\ \A i \in 1..m : u[i] = s[i]
      /\ \A i \in 1..n : u[m + i] = t[i]
  BY ConcatElements
<1>2. /\ \A i \in 1..m : IF s[i].eof THEN s[i].id = s[i].chain
                         ELSE s[i].id = Nothing /\ i < m /\ s[i + 1].chain = s[i].chain
      /\ \A i \in 1..n : IF t[i].eof THEN t[i].id = t[i].chain
                         ELSE t[i].id = Nothing /\ i < n /\ t[i + 1].chain = t[i].chain
  BY DEF Whole
<1> HIDE DEF u, m, n
<1> SUFFICES ASSUME NEW i \in 1..(m + n)
             PROVE  IF u[i].eof THEN u[i].id = u[i].chain
                    ELSE u[i].id = Nothing /\ i < m + n /\ u[i + 1].chain = u[i].chain
  BY <1>1 DEF Whole, u
<1>3. CASE i \in 1..m
  <2>1. CASE s[i].eof
    BY <1>1, <1>2, <1>3, <2>1
  <2>2. CASE ~ s[i].eof
    <3>1. s[i].id = Nothing /\ i < m /\ s[i + 1].chain = s[i].chain
      BY <1>2, <1>3, <2>2
    <3>2. i + 1 \in 1..m
      BY <1>1, <3>1
    <3> QED BY <1>1, <1>3, <2>2, <3>1, <3>2
  <2> QED BY <2>1, <2>2
<1>4. CASE i \notin 1..m
  <2> DEFINE j == i - m
  <2>1. j \in 1..n /\ m + j = i
    BY <1>1, <1>4
  <2> HIDE DEF j
  <2>2. u[i] = t[j]
    BY <1>1, <2>1
  <2>3. CASE t[j].eof
    BY <1>2, <2>1, <2>2, <2>3
  <2>4. CASE ~ t[j].eof
    <3>1. t[j].id = Nothing /\ j < n /\ t[j + 1].chain = t[j].chain
      BY <1>2, <2>1, <2>4
    <3>2. j + 1 \in 1..n /\ m + (j + 1) = i + 1
      <4>1. m \in Nat /\ n \in Nat /\ j \in Nat /\ 0 < j /\ j < n /\ m + j = i
        BY <1>1, <2>1, <3>1
      <4>2. j + 1 \in 1..n
        BY <4>1
      <4>3. m + (j + 1) = i + 1
        BY <4>1
      <4> QED BY <4>2, <4>3
    <3>3. u[m + (j + 1)] = t[j + 1]
      BY <1>1, <3>2
    <3>4. u[i + 1].chain = u[i].chain
      BY <2>2, <3>1, <3>2, <3>3
    <3>5. i < m + n
      BY <1>1, <2>1, <3>1
    <3>6. ~ u[i].eof /\ u[i].id = Nothing
      BY <2>2, <2>4, <3>1
    <3> QED BY <3>4, <3>5, <3>6
  <2> QED BY <2>3, <2>4
<1> QED BY <1>3, <1>4

LEMMA WholeSuffix ==
    ASSUME NEW s \in Seq(Descriptors), NEW t \in Seq(Descriptors), Whole(s \o t)
    PROVE  Whole(t)
<1> DEFINE u == s \o t
           m == Len(s)
           n == Len(t)
<1>1. /\ m \in Nat /\ n \in Nat /\ Len(u) = m + n
      /\ \A i \in 1..n : u[m + i] = t[i]
  BY ConcatElements
<1>2. \A i \in 1..(m + n) : IF u[i].eof THEN u[i].id = u[i].chain
                            ELSE u[i].id = Nothing /\ i < m + n /\ u[i + 1].chain = u[i].chain
  BY <1>1 DEF Whole
<1> HIDE DEF u, m, n
<1> SUFFICES ASSUME NEW j \in 1..n
             PROVE  IF t[j].eof THEN t[j].id = t[j].chain
                    ELSE t[j].id = Nothing /\ j < n /\ t[j + 1].chain = t[j].chain
  BY DEF Whole, n
<1>3. m + j \in 1..(m + n) /\ u[m + j] = t[j]
  BY <1>1
<1>4. CASE t[j].eof
  BY <1>2, <1>3, <1>4
<1>5. CASE ~ t[j].eof
  <2>1. u[m + j].id = Nothing /\ m + j < m + n /\ u[(m + j) + 1].chain = u[m + j].chain
    BY <1>2, <1>3, <1>5
  <2>2. j < n /\ j + 1 \in 1..n /\ (m + j) + 1 = m + (j + 1)
    BY <1>1, <2>1
  <2>3. u[m + (j + 1)] = t[j + 1]
    BY <1>1, <2>2
  <2> QED BY <1>3, <1>5, <2>1, <2>2, <2>3
<1> QED BY <1>4, <1>5

\* A descriptor among whole frames is followed by the one that refers to its chain.
LEMMA WholeReferred ==
    ASSUME NEW s \in Seq(Descriptors), Whole(s), NEW i \in 1..Len(s)
    PROVE  \E j \in 1..Len(s) : s[j].id = s[i].chain
<1> DEFINE n == Len(s)
           T == {k \in i..n : s[k].eof \/ s[k].chain # s[i].chain}
<1>1. n \in Nat
  BY LenProperties
<1>2. \A k \in 1..n : IF s[k].eof THEN s[k].id = s[k].chain
                      ELSE s[k].id = Nothing /\ k < n /\ s[k + 1].chain = s[k].chain
  BY DEF Whole
<1>3. i \in 1..n
  OBVIOUS
<1> HIDE DEF n
<1>4. n \in T
  <2>1. n \in 1..n /\ n \in i..n
    BY <1>1, <1>3
  <2> QED BY <1>1, <1>2, <2>1
<1>5. T \subseteq Nat /\ T # {}
  BY <1>1, <1>3, <1>4
<1>6. PICK j \in T : \A k \in T : j <= k
  <2> HIDE DEF T
  <2> QED BY <1>5, LeastElement
<1>7. j \in i..n /\ j \in 1..n /\ (s[j].eof \/ s[j].chain # s[i].chain)
  BY <1>1, <1>3, <1>6
<1>8. s[j].chain = s[i].chain
  <2>1. CASE j = i
    BY <2>1
  <2>2. CASE j # i
    <3> DEFINE k == j - 1
    <3>1. k \in i..n /\ k \in 1..n /\ k + 1 = j /\ ~ (j <= k)
      BY <1>1, <1>3, <1>7, <2>2
    <3> HIDE DEF k
    <3>2. k \notin T
      <4> HIDE DEF T
      <4> QED BY <1>6, <3>1
    <3>3. ~ s[k].eof /\ s[k].chain = s[i].chain
      BY <3>1, <3>2
    <3> QED BY <1>2, <3>1, <3>3
  <2> QED BY <2>1, <2>2
<1>9. s[j].eof
  BY <1>7, <1>8
<1> QED BY <1>2, <1>7, <1>8, <1>9 DEF n

\* The descriptors of a chain are one whole frame, with one reference to it.
LEMMA BdsWhole ==
    ASSUME NEW c \in Chains
    PROVE  /\ Bds(c) \in Seq(Descriptors) /\ Len(Bds(c)) = Segs[c] /\ Whole(Bds(c))
           /\ \A d \in Chains : References(Bds(c), d) = IF d = c THEN 1 ELSE 0
<1> DEFINE n == Segs[c]
           b == Bds(c)
<1>1. n \in Nat /\ n >= 1 /\ n \in 1..n
  BY ChainAssumption
<1>2. \A i \in 1..n : /\ b[i].chain = c
                      /\ b[i].eof <=> i = n
                      /\ b[i].id = IF i = n THEN c ELSE Nothing
  BY DEF Bds
<1>3. b \in [1..n -> Descriptors]
  BY DEF Bds, Descriptors
<1>4. b \in Seq(Descriptors) /\ Len(b) = n
  BY <1>1, <1>3, SeqDef, LenProperties
<1> HIDE DEF b, n
<1>5. Whole(b)
  <2> SUFFICES ASSUME NEW i \in 1..n
               PROVE  IF b[i].eof THEN b[i].id = b[i].chain
                      ELSE b[i].id = Nothing /\ i < n /\ b[i + 1].chain = b[i].chain
    BY <1>4 DEF Whole
  <2>1. CASE i = n
    BY <1>2, <2>1
  <2>2. CASE i # n
    <3>1. i < n /\ i + 1 \in 1..n
      BY <1>1, <2>2
    <3> QED BY <1>2, <2>2, <3>1
  <2> QED BY <2>1, <2>2
<1>6. ASSUME NEW d \in Chains PROVE References(b, d) = IF d = c THEN 1 ELSE 0
  <2>1. d # Nothing
    BY ChainAssumption
  <2>2. \A i \in 1..n : b[i].id = d <=> (i = n /\ d = c)
    BY <1>2, <2>1
  <2>3. {i \in 1..n : b[i].id = d} = IF d = c THEN {n} ELSE {}
    BY <1>1, <2>2
  <2>4. Cardinality({n}) = 1 /\ Cardinality({}) = 0
    BY FS_Singleton, FS_EmptySet
  <2> QED BY <1>4, <2>3, <2>4 DEF References
<1> QED BY <1>4, <1>5, <1>6 DEF b, n

----------------------------------------------------------------------------
(* The transmit ring.                                                      *)

\* The reference counts are what lwIP and the ring hold, and the ring holds
\* whole frames.  This is inductive; that no descriptor is without a reference
\* to its chain follows.
TxInv ==
    /\ TxTyped
    /\ \A c \in Chains :
          refs[c] = References(InRing, c) + IF c \in held THEN 1 ELSE 0
    /\ Len(InRing) <= NTxBd
    /\ Whole(InRing)

LEMMA InRingSeq ==
    ASSUME TxTyped
    PROVE  /\ txSent \in Seq(Descriptors) /\ txHw \in Seq(Descriptors)
           /\ InRing \in Seq(Descriptors) /\ Len(InRing) \in Nat
           /\ Len(txSent) \in Nat
<1>1. txSent \in Seq(Descriptors) /\ txHw \in Seq(Descriptors)
  BY DEF TxTyped
<1> QED BY <1>1, ConcatElements DEF InRing

LEMMA TxInvSuffices == TxInv => ChainsHeld /\ FramesWhole
<1> SUFFICES ASSUME TxInv PROVE ChainsHeld /\ FramesWhole
  OBVIOUS
<1>1. TxTyped /\ Whole(InRing) /\ InRing \in Seq(Descriptors) /\ Len(InRing) \in Nat
  BY InRingSeq DEF TxInv
<1>2. FramesWhole
  BY DEF TxInv, FramesWhole, Whole
<1>3. ASSUME NEW i \in 1..Len(InRing) PROVE refs[InRing[i].chain] > 0
  <2> DEFINE c == InRing[i].chain
  <2>1. c \in Chains
    <3>1. InRing[i] \in Descriptors
      BY <1>1
    <3> QED BY <3>1 DEF Descriptors
  <2>2. PICK j \in 1..Len(InRing) : InRing[j].id = c
    BY <1>1, WholeReferred
  <2> HIDE DEF c
  <2>3. j \in CountOf(InRing, c)
    BY <2>2 DEF CountOf
  <2>4. IsFiniteSet(CountOf(InRing, c)) /\ References(InRing, c) \in Nat
    BY <1>1, CountFinite
  <2>5. References(InRing, c) # 0
    <3>1. Cardinality(CountOf(InRing, c)) # 0
      BY <2>3, <2>4, FS_EmptySet
    <3> QED BY <3>1 DEF CountOf, References
  <2>6. refs[c] = References(InRing, c) + IF c \in held THEN 1 ELSE 0
    BY <2>1 DEF TxInv
  <2> QED BY <2>4, <2>5, <2>6 DEF c
<1>4. ChainsHeld
  BY <1>1, <1>3 DEF ChainsHeld, TxInv
<1> QED BY <1>2, <1>4

LEMMA EmptyRing ==
    Whole(<<>>) /\ Len(<<>>) = 0 /\ \A c : References(<<>>, c) = 0
<1>1. Len(<<>>) = 0
  BY EmptySeq
<1>2. \A c : {i \in 1..Len(<<>>) : <<>>[i].id = c} = {}
  BY <1>1
<1>3. Cardinality({}) = 0
  BY FS_EmptySet
<1> QED BY <1>1, <1>2, <1>3 DEF Whole, References

LEMMA TxInvInit == TxInit => TxInv
<1> SUFFICES ASSUME TxInit PROVE TxInv
  OBVIOUS
<1>1. <<>> \in Seq(Descriptors)
  BY EmptySeq
<1>2. TxTyped
  BY <1>1 DEF TxInit, TxTyped
<1>3. InRing = <<>>
  BY <1>1, ConcatEmptySeq DEF TxInit, InRing
<1>4. \A c \in Chains : refs[c] = 0 /\ c \notin held
  BY DEF TxInit
<1> QED BY <1>2, <1>3, <1>4, EmptyRing, TxSizeAssumption DEF TxInv

\* Reclaiming the first n descriptors: what is left is as large as it should be,
\* and its chains are referenced as often as before, less what was released.
LEMMA Reclaims ==
    ASSUME TxInv, NEW n \in 0..Len(txSent)
    PROVE  LET q == Reclaimed(n) \o txHw
           IN  /\ Reclaimed(n) \in Seq(Descriptors)
               /\ q \in Seq(Descriptors) /\ Len(q) = Len(InRing) - n /\ Whole(q)
               /\ Released(n) \in [Chains -> Nat]
               /\ \A c \in Chains :
                     Released(n)[c] = References(q, c) + IF c \in held THEN 1 ELSE 0
<1> DEFINE f == SubSeq(txSent, 1, n)
           r == Reclaimed(n)
           q == r \o txHw
<1>1. /\ txSent \in Seq(Descriptors) /\ txHw \in Seq(Descriptors) /\ Len(txSent) \in Nat
      /\ InRing \in Seq(Descriptors) /\ Len(InRing) \in Nat
  BY InRingSeq DEF TxInv
<1>2. f \in Seq(Descriptors) /\ Len(f) = n /\ \A i \in 1..n : f[i] = txSent[i]
  BY <1>1, PrefixSets
<1>3. /\ r \in Seq(Descriptors) /\ Len(r) = Len(txSent) - n
      /\ \A i \in 1..Len(r) : r[i] = txSent[n + i]
  <2> DEFINE k == Len(txSent)
  <2>1. \A i \in (n + 1)..k : txSent[i] \in Descriptors
    BY <1>1
  <2>2. n \in Nat /\ n <= k /\ k \in Nat
    BY <1>1
  <2> HIDE DEF k
  <2>3. /\ SubSeq(txSent, n + 1, k) \in Seq(Descriptors)
        /\ Len(SubSeq(txSent, n + 1, k)) = IF n + 1 <= k THEN k - (n + 1) + 1 ELSE 0
        /\ \A i \in 1..(k - (n + 1) + 1) : SubSeq(txSent, n + 1, k)[i] = txSent[n + 1 + i - 1]
    BY <2>1, <2>2, SubSeqProperties
  <2>4. Len(SubSeq(txSent, n + 1, k)) = k - n
    BY <2>2, <2>3
  <2>5. \A i \in 1..(k - n) : SubSeq(txSent, n + 1, k)[i] = txSent[n + i]
    BY <2>2, <2>3
  <2> QED BY <2>3, <2>4, <2>5 DEF Reclaimed, k
<1> HIDE DEF f, r
<1>4. txSent = f \o r
  <2>1. /\ f \o r \in Seq(Descriptors) /\ Len(f \o r) = n + Len(r)
        /\ \A i \in 1..n : (f \o r)[i] = f[i]
        /\ \A i \in 1..Len(r) : (f \o r)[n + i] = r[i]
    <3>1. /\ f \o r \in Seq(Descriptors) /\ Len(f \o r) = Len(f) + Len(r)
          /\ \A i \in 1..Len(f) : (f \o r)[i] = f[i]
          /\ \A i \in 1..Len(r) : (f \o r)[Len(f) + i] = r[i]
      <4>1. f \in Seq(Descriptors) /\ r \in Seq(Descriptors)
        BY <1>2, <1>3
      <4> QED BY <4>1, ConcatElements
    <3>2. Len(f) = n
      BY <1>2
    <3> QED BY <3>1, <3>2, Zenon
  <2>2. Len(f \o r) = Len(txSent)
    BY <1>1, <1>3, <2>1
  <2>3. ASSUME NEW i \in 1..Len(txSent) PROVE (f \o r)[i] = txSent[i]
    <3>1. CASE i <= n
      BY <1>2, <2>1, <3>1
    <3>2. CASE ~ (i <= n)
      <4>1. i - n \in 1..Len(r) /\ n + (i - n) = i
        BY <1>1, <1>3, <3>2
      <4>2. (f \o r)[n + (i - n)] = r[i - n] /\ r[i - n] = txSent[n + (i - n)]
        BY <1>3, <2>1, <4>1
      <4> QED BY <4>1, <4>2
    <3> QED BY <3>1, <3>2
  <2> QED BY <1>1, <2>1, <2>2, <2>3, SeqEqual
<1>5. q \in Seq(Descriptors)
  BY <1>1, <1>3, ConcatProperties
<1>6. InRing = f \o q
  BY <1>1, <1>2, <1>3, <1>4, ConcatAssociative DEF InRing
<1> HIDE DEF q
<1>7. Len(InRing) = n + Len(q) /\ Len(q) \in Nat
  BY <1>2, <1>5, <1>6, ConcatElements
<1>8. Whole(q)
  BY <1>2, <1>5, <1>6, WholeSuffix DEF TxInv
<1>9. ASSUME NEW c \in Chains
      PROVE  /\ refs[c] - References(f, c) = References(q, c) + IF c \in held THEN 1 ELSE 0
             /\ refs[c] - References(f, c) \in Nat
  <2>1. References(InRing, c) = References(f, c) + References(q, c)
    BY <1>2, <1>5, <1>6, ReferencesConcat
  <2>2. References(f, c) \in Nat /\ References(q, c) \in Nat
    BY <1>2, <1>5, CountFinite
  <2>3. refs[c] = References(InRing, c) + IF c \in held THEN 1 ELSE 0
    BY DEF TxInv
  <2> QED BY <2>1, <2>2, <2>3
<1>10. Released(n) = [c \in Chains |-> refs[c] - References(f, c)]
  BY DEF Released, f
<1> QED BY <1>3, <1>5, <1>7, <1>8, <1>9, <1>10 DEF r, q

LEMMA EngineStep == TxInv /\ EngineSends => TxInv'
<1> SUFFICES ASSUME TxInv, EngineSends PROVE TxInv'
  OBVIOUS
<1>1. txSent \in Seq(Descriptors) /\ txHw \in Seq(Descriptors) /\ InRing \in Seq(Descriptors)
  BY InRingSeq DEF TxInv
<1>2. /\ txHw # <<>> /\ txHw' = Tail(txHw) /\ txSent' = Append(txSent, Head(txHw))
      /\ txIoc' = (txIoc \/ Head(txHw).eof)
      /\ UNCHANGED <<refs, held, txErr, txIsr, discarded>>
  BY DEF EngineSends
<1>3. Head(txHw) \in Descriptors /\ Tail(txHw) \in Seq(Descriptors)
  BY <1>1, <1>2, HeadTailSets
<1>4. txSent' \in Seq(Descriptors) /\ txHw' \in Seq(Descriptors)
  BY <1>1, <1>2, <1>3, AppendSets
<1>5. InRing' = InRing
  <2>1. txSent' \o txHw' \o <<>> = txSent \o txHw \o <<>>
    <3>1. <<>> \in Seq(Descriptors)
      BY EmptySeq
    <3> QED BY <1>1, <1>2, <3>1, PipelineMoves
  <2>2. txSent' \o txHw' \in Seq(Descriptors)
    BY <1>4, ConcatProperties
  <2> QED BY <1>1, <2>1, <2>2, ConcatEmptySeq DEF InRing
<1>6. Head(txHw).eof \in BOOLEAN
  BY <1>3 DEF Descriptors
<1>7. TxTyped'
  BY <1>2, <1>4, <1>6 DEF TxInv, TxTyped
<1> QED BY <1>2, <1>5, <1>7 DEF TxInv

LEMMA OutputStep == TxInv /\ Output => TxInv'
<1> SUFFICES ASSUME TxInv, Output PROVE TxInv'
  OBVIOUS
<1>0. PICK c \in held : \E n \in OutputReclaims(c) :
          /\ txSent' = Reclaimed(n)
          /\ discarded' = (discarded /\ Fits(c, FreeCnt))
          /\ \/ /\ Fits(c, FreeCnt + n)
                /\ txHw' = txHw \o Bds(c)
                /\ refs' = [Released(n) EXCEPT ![c] = @ + 1]
             \/ txHw' = txHw /\ refs' = Released(n)
  BY DEF Output
<1>1. PICK n \in OutputReclaims(c) :
          /\ txSent' = Reclaimed(n)
          /\ discarded' = (discarded /\ Fits(c, FreeCnt))
          /\ \/ /\ Fits(c, FreeCnt + n)
                /\ txHw' = txHw \o Bds(c)
                /\ refs' = [Released(n) EXCEPT ![c] = @ + 1]
             \/ txHw' = txHw /\ refs' = Released(n)
  BY <1>0
<1>2. UNCHANGED <<held, txIoc, txErr, txIsr>>
  BY DEF Output, txIrq
<1>3. c \in Chains /\ TxTyped
  BY DEF TxInv, TxTyped
<1>4. txSent \in Seq(Descriptors) /\ txHw \in Seq(Descriptors) /\ Len(txSent) \in Nat
      /\ Len(InRing) \in Nat
  BY InRingSeq DEF TxInv
<1>5. n \in 0..Len(txSent)
  BY <1>4 DEF OutputReclaims, FromHw
<1> DEFINE r == Reclaimed(n)
           q == r \o txHw
           b == Bds(c)
<1>6. /\ r \in Seq(Descriptors)
      /\ q \in Seq(Descriptors) /\ Len(q) = Len(InRing) - n /\ Whole(q)
      /\ Released(n) \in [Chains -> Nat]
      /\ \A d \in Chains : Released(n)[d] = References(q, d) + IF d \in held THEN 1 ELSE 0
  BY <1>5, Reclaims
<1>7. /\ b \in Seq(Descriptors) /\ Len(b) = Segs[c] /\ Whole(b)
      /\ \A d \in Chains : References(b, d) = IF d = c THEN 1 ELSE 0
  BY <1>3, BdsWhole
<1>8. discarded' \in BOOLEAN
  BY <1>1
<1> HIDE DEF r, b
<1>9. CASE /\ Fits(c, FreeCnt + n)
           /\ txHw' = txHw \o b
           /\ refs' = [Released(n) EXCEPT ![c] = @ + 1]
  <2>1. InRing' = q \o b
    <3>1. (r \o txHw) \o b = r \o (txHw \o b)
      <4>1. r \in Seq(Descriptors) /\ txHw \in Seq(Descriptors) /\ b \in Seq(Descriptors)
        BY <1>4, <1>6, <1>7
      <4> QED BY ONLY <4>1, ConcatAssociative
    <3>2. txSent' = r
      BY <1>1 DEF r
    <3> QED BY <1>9, <3>1, <3>2 DEF InRing
  <2>2. txHw' \in Seq(Descriptors)
    BY <1>4, <1>7, <1>9, ConcatProperties
  <2> HIDE DEF q
  <2>3. Len(q \o b) = Len(q) + Len(b)
    BY <1>6, <1>7, ConcatElements
  <2>4. Len(q \o b) <= NTxBd
    <3>1. NTxBd - Len(InRing) + n >= Segs[c]
      BY <1>9 DEF Fits, FreeCnt
    <3>2. Segs[c] \in Nat
      BY <1>3, ChainAssumption
    <3> QED BY <1>4, <1>5, <1>6, <1>7, <2>3, <3>1, <3>2, TxSizeAssumption
  <2>5. Whole(q \o b)
    BY <1>6, <1>7, WholeConcat
  <2>6. refs' \in [Chains -> Nat]
    BY <1>3, <1>6, <1>9
  <2>7. ASSUME NEW d \in Chains
        PROVE  refs'[d] = References(q \o b, d) + IF d \in held THEN 1 ELSE 0
    <3>1. References(q \o b, d) = References(q, d) + References(b, d)
      BY <1>6, <1>7, ReferencesConcat
    <3>2. References(q, d) \in Nat
      BY <1>6, CountFinite
    <3>3. refs'[d] = Released(n)[d] + IF d = c THEN 1 ELSE 0
      BY <1>6, <1>9
    <3> QED BY <1>6, <1>7, <3>1, <3>2, <3>3
  <2>8. TxTyped'
    BY <1>1, <1>2, <1>3, <1>6, <1>8, <2>2, <2>6 DEF TxTyped, r
  <2> QED BY <1>2, <2>1, <2>4, <2>5, <2>7, <2>8 DEF TxInv
<1>10. CASE txHw' = txHw /\ refs' = Released(n)
  <2>1. InRing' = q
    BY <1>1, <1>10 DEF InRing, r
  <2> HIDE DEF q
  <2>2. Len(q) <= NTxBd
    BY <1>4, <1>5, <1>6, TxSizeAssumption DEF TxInv
  <2>3. TxTyped'
    BY <1>1, <1>2, <1>3, <1>4, <1>6, <1>8, <1>10 DEF TxTyped, r
  <2> QED BY <1>2, <1>6, <1>10, <2>1, <2>2, <2>3 DEF TxInv
<1> QED BY <1>1, <1>9, <1>10 DEF b

LEMMA HandlerStep == TxInv /\ TxIsr => TxInv'
<1> SUFFICES ASSUME TxInv, TxIsr PROVE TxInv'
  OBVIOUS
<1>1. txSent \in Seq(Descriptors) /\ Len(txSent) \in Nat /\ Len(InRing) \in Nat /\ FrameDone \in BOOLEAN
  BY InRingSeq DEF TxInv, FrameDone
<1>2. CASE TxIsrEnter \/ TxIsrError \/ TxIsrEnable
  <2>1. UNCHANGED <<refs, held, txHw, txSent>>
    BY <1>2 DEF TxIsrEnter, TxIsrError, TxIsrEnable
  <2>2. {txIoc', txErr', discarded'} \subseteq BOOLEAN
    <3>1. {txIoc, txErr, discarded} \subseteq BOOLEAN
      BY DEF TxInv, TxTyped
    <3>2. discarded' \in BOOLEAN
      BY <1>2, <3>1 DEF TxIsrEnter, TxIsrError, TxIsrEnable, ResetDma
    <3> QED BY <1>2, <3>1, <3>2 DEF TxIsrEnter, TxIsrError, TxIsrEnable, ResetDma
  <2>3. txIsr' \in {"idle", "reclaim", "enable", "error"}
    BY <1>2 DEF TxIsrEnter, TxIsrError, TxIsrEnable
  <2> QED BY <2>1, <2>2, <2>3 DEF TxInv, TxTyped, InRing
<1>3. CASE TxIsrReclaim
  <2>1. PICK n \in FromHw : refs' = Released(n) /\ txSent' = Reclaimed(n)
    BY <1>3 DEF TxIsrReclaim
  <2>2. UNCHANGED <<held, txHw, txIoc, txErr>> /\ txIsr' = "enable" /\ discarded' = FALSE
    BY <1>3 DEF TxIsrReclaim
  <2>3. n \in 0..Len(txSent)
    BY <1>1 DEF FromHw
  <2> DEFINE q == Reclaimed(n) \o txHw
  <2>4. /\ Reclaimed(n) \in Seq(Descriptors)
        /\ Len(q) = Len(InRing) - n /\ Whole(q)
        /\ Released(n) \in [Chains -> Nat]
        /\ \A d \in Chains : Released(n)[d] = References(q, d) + IF d \in held THEN 1 ELSE 0
    BY <2>3, Reclaims
  <2>5. InRing' = q
    BY <2>1, <2>2 DEF InRing
  <2> HIDE DEF q
  <2>6. Len(q) <= NTxBd
    BY <1>1, <2>3, <2>4, TxSizeAssumption DEF TxInv
  <2>7. TxTyped'
    BY <2>1, <2>2, <2>4 DEF TxInv, TxTyped
  <2> QED BY <2>1, <2>2, <2>4, <2>5, <2>6, <2>7 DEF TxInv
<1> QED BY <1>2, <1>3 DEF TxIsr

LEMMA FailStep == TxInv /\ (EngineFails \/ RxDmaError) => TxInv'
<1> SUFFICES ASSUME TxInv, EngineFails \/ RxDmaError PROVE TxInv'
  OBVIOUS
<1>1. UNCHANGED <<refs, held, txHw, txSent, txIsr>>
  BY DEF EngineFails, RxDmaError
<1>2. {txIoc', txErr', discarded'} \subseteq BOOLEAN
  <2>1. {txIoc, txErr, discarded} \subseteq BOOLEAN /\ FrameDone \in BOOLEAN
    BY DEF TxInv, TxTyped, FrameDone
  <2> QED BY <2>1 DEF EngineFails, RxDmaError, ResetDma
<1> QED BY <1>1, <1>2 DEF TxInv, TxTyped, InRing

LEMMA StackStep == TxInv /\ (Allocate \/ Release) => TxInv'
<1> SUFFICES ASSUME TxInv, Allocate \/ Release PROVE TxInv'
  OBVIOUS
<1>1. UNCHANGED <<txHw, txSent, txIoc, txErr, txIsr, discarded>>
  BY DEF Allocate, Release, txIrq
<1>2. InRing' = InRing /\ InRing \in Seq(Descriptors)
  BY <1>1, InRingSeq DEF InRing, TxInv
<1>3. /\ refs \in [Chains -> Nat] /\ held \subseteq Chains
      /\ \A c \in Chains : refs[c] = References(InRing, c) + IF c \in held THEN 1 ELSE 0
      /\ \A c \in Chains : References(InRing, c) \in Nat
  BY <1>2, CountFinite DEF TxInv, TxTyped
<1> DEFINE Agree == /\ refs' \in [Chains -> Nat] /\ held' \subseteq Chains
                    /\ \A c \in Chains :
                          refs'[c] = References(InRing, c) + IF c \in held' THEN 1 ELSE 0
<1>4. Agree
  <2>1. ASSUME NEW c \in Chains, refs[c] = 0,
               refs' = [refs EXCEPT ![c] = 1], held' = held \cup {c}
        PROVE  Agree
    <3>1. c \notin held /\ References(InRing, c) = 0
      BY <1>3, <2>1
    <3> QED BY <1>3, <2>1, <3>1
  <2>2. ASSUME NEW c \in held, refs' = [refs EXCEPT ![c] = @ - 1], held' = held \ {c}
        PROVE  Agree
    <3>1. c \in Chains /\ refs[c] = References(InRing, c) + 1
      BY <1>3, <2>2
    <3> QED BY <1>3, <2>2, <3>1
  <2> HIDE DEF Agree
  <2> QED BY <2>1, <2>2 DEF Allocate, Release
<1> QED BY <1>1, <1>2, <1>4 DEF TxInv, TxTyped

LEMMA TxInvStep == TxInv /\ [TxNext]_txVars => TxInv'
<1> SUFFICES ASSUME TxInv, [TxNext]_txVars PROVE TxInv'
  OBVIOUS
<1>1. CASE UNCHANGED txVars
  BY <1>1 DEF txVars, txIrq, TxInv, TxTyped, InRing
<1> QED BY <1>1, OutputStep, HandlerStep, EngineStep, FailStep, StackStep DEF TxNext, TxEngine

LEMMA TxAlways == TxSpec => []TxInv
<1>1. TxInit => TxInv
  BY TxInvInit
<1>2. TxInv /\ [TxNext]_txVars => TxInv'
  BY TxInvStep
<1> QED BY <1>1, <1>2, PTL DEF TxSpec

\* A pbuf chain is neither freed while a descriptor points into it, nor kept when
\* the ring and lwIP are done with it, whoever reclaims the descriptors; and the
\* ring is never overrun and holds whole frames.
THEOREM TxChainsConsistent == TxSpec => []ChainsConsistent
<1>1. TxInv => ChainsConsistent
  BY TxInvSuffices DEF ChainsConsistent
<1> QED BY <1>1, TxAlways, PTL

----------------------------------------------------------------------------
(* The transmit interrupt.                                                 *)

\* What XAxiDma_BdRingFromHw returns leaves no frame behind.
LEMMA ReclaimLeavesNone ==
    ASSUME TxInv, NEW n \in FromHw, txSent' = Reclaimed(n)
    PROVE  ~ FrameDone'
<1>1. txSent \in Seq(Descriptors) /\ Len(txSent) \in Nat
  BY InRingSeq DEF TxInv
<1>2. n \in 0..Len(txSent) /\ \A i \in (n + 1)..Len(txSent) : ~ txSent[i].eof
  BY <1>1 DEF FromHw
<1> DEFINE k == Len(txSent)
<1>3. k \in Nat /\ n \in Nat /\ n <= k
  BY <1>1, <1>2
<1>4. \A i \in (n + 1)..k : txSent[i] \in Descriptors
  BY <1>1, <1>2
<1>5. txSent' = SubSeq(txSent, n + 1, k)
  BY DEF Reclaimed
<1>6. \A i \in (n + 1)..k : ~ txSent[i].eof
  BY <1>2
<1> HIDE DEF k
<1>7. /\ Len(txSent') = IF n + 1 <= k THEN k - (n + 1) + 1 ELSE 0
      /\ \A i \in 1..(k - (n + 1) + 1) : txSent'[i] = txSent[n + 1 + i - 1]
  BY <1>3, <1>4, <1>5, SubSeqProperties
<1>8. ASSUME NEW i \in 1..Len(txSent') PROVE ~ txSent'[i].eof
  <2>1. i \in 1..(k - (n + 1) + 1) /\ n + 1 + i - 1 = n + i /\ n + i \in (n + 1)..k
    BY <1>3, <1>7
  <2>2. txSent'[i] = txSent[n + i]
    BY <1>7, <2>1
  <2> QED BY <1>6, <2>1, <2>2
<1> QED BY <1>8 DEF FrameDone

LEMMA NoticedStep == TxInv /\ SentNoticed /\ [TxNext]_txVars => SentNoticed'
<1> SUFFICES ASSUME TxInv, SentNoticed, [TxNext]_txVars PROVE SentNoticed'
  OBVIOUS
<1>1. txSent \in Seq(Descriptors) /\ txHw \in Seq(Descriptors) /\ Len(txSent) \in Nat
  BY InRingSeq DEF TxInv
<1>2. CASE Output
  <2>1. PICK c \in held : \E n \in OutputReclaims(c) :
            txSent' = Reclaimed(n) /\ discarded' = (discarded /\ Fits(c, FreeCnt))
    BY <1>2 DEF Output
  <2>2. PICK n \in OutputReclaims(c) :
            txSent' = Reclaimed(n) /\ discarded' = (discarded /\ Fits(c, FreeCnt))
    BY <2>1
  <2>3. UNCHANGED <<txIoc, txIsr>>
    BY <1>2 DEF Output, txIrq
  <2>4. CASE Fits(c, FreeCnt)
    <3>1. n = 0 /\ discarded' = discarded
      BY <2>2, <2>4 DEF OutputReclaims, TxInv, TxTyped
    <3>2. Reclaimed(0) = txSent
      BY <1>1 DEF Reclaimed
    <3>3. txSent' = txSent
      BY <2>2, <3>1, <3>2
    <3>4. FrameDone' <=> FrameDone
      BY <3>3 DEF FrameDone
    <3> QED BY <2>3, <3>1, <3>4 DEF SentNoticed
  <2>5. CASE ~ Fits(c, FreeCnt)
    <3>1. n \in FromHw
      BY <2>2, <2>5 DEF OutputReclaims
    <3> QED BY <2>2, <3>1, ReclaimLeavesNone DEF SentNoticed
  <2> QED BY <2>4, <2>5
<1>3. CASE EngineSends
  <2> DEFINE h == Head(txHw)
  <2>1. txHw # <<>> /\ txSent' = Append(txSent, h) /\ txIoc' = (txIoc \/ h.eof)
        /\ UNCHANGED <<txIsr, discarded>>
    BY <1>3 DEF EngineSends
  <2>2. h \in Descriptors
    BY <1>1, <2>1, HeadTailSets
  <2> HIDE DEF h
  <2>3. /\ Len(txSent') = Len(txSent) + 1
        /\ \A i \in 1..Len(txSent) : txSent'[i] = txSent[i]
        /\ txSent'[Len(txSent) + 1] = h
    BY <1>1, <2>1, <2>2
  <2>4. FrameDone' => FrameDone \/ h.eof
    <3>1. \A i \in 1..(Len(txSent) + 1) : i \in 1..Len(txSent) \/ i = Len(txSent) + 1
      BY <1>1
    <3> QED BY <2>3, <3>1 DEF FrameDone
  <2> QED BY <2>1, <2>4 DEF SentNoticed
<1>4. CASE EngineFails \/ Allocate \/ Release \/ UNCHANGED txVars
  <2>1. UNCHANGED <<txSent, txIoc, txIsr, discarded>>
    BY <1>4 DEF EngineFails, Allocate, Release, txVars, txIrq
  <2>2. FrameDone' <=> FrameDone
    BY <2>1 DEF FrameDone
  <2> QED BY <2>1, <2>2 DEF SentNoticed
<1>5. CASE RxDmaError \/ TxIsrEnter \/ TxIsrError \/ TxIsrEnable
  <2>1. txSent' = txSent
    BY <1>5 DEF RxDmaError, TxIsrEnter, TxIsrError, TxIsrEnable
  <2>2. FrameDone' <=> FrameDone
    BY <2>1 DEF FrameDone
  <2>3. CASE TxIsrEnter
    BY <2>2, <2>3 DEF TxIsrEnter, SentNoticed
  <2>4. CASE RxDmaError \/ TxIsrError
    BY <2>2, <2>4 DEF RxDmaError, TxIsrError, ResetDma, SentNoticed
  <2>5. CASE TxIsrEnable
    BY <2>2, <2>5 DEF TxIsrEnable, SentNoticed
  <2> QED BY <1>5, <2>3, <2>4, <2>5
<1>6. CASE TxIsrReclaim
  <2>1. PICK n \in FromHw : txSent' = Reclaimed(n)
    BY <1>6 DEF TxIsrReclaim
  <2> QED BY <2>1, ReclaimLeavesNone DEF SentNoticed
<1> QED BY <1>2, <1>3, <1>4, <1>5, <1>6 DEF TxNext, TxIsr, TxEngine

\* The handler acknowledges before it reclaims and reclaims all that was sent by
\* then; what is sent later raises the interrupt anew.
THEOREM SentFramesNoticed == TxSpec => []SentNoticed
<1>1. TxInit => SentNoticed
  <2>1. TxInit => ~ FrameDone
    BY EmptySeq DEF TxInit, FrameDone
  <2> QED BY <2>1 DEF SentNoticed
<1>2. TxInv /\ SentNoticed /\ [TxNext]_txVars => SentNoticed'
  BY NoticedStep
<1> QED BY <1>1, <1>2, TxAlways, PTL DEF TxSpec


----------------------------------------------------------------------------
(* The address of a port.                                                  *)

\* While the port waits, the distance from dhcp_start_tick to ticks is the time
\* waited: ticks has not gone round.
WaitMeasured ==
    addrState = "ADDR_DHCP_WAIT" => (ticks - startTick) % Wrap = waited

AddrInv == AddressAgrees /\ WaitMeasured

LEMMA Ticks ==
    /\ Wrap \in Nat \ {0} /\ PollTicks \in Nat \ {0} /\ Timeout \in Nat \ {0}
    /\ MaxWait \in Nat \ {0} /\ MaxWait < Wrap
  BY TickAssumption

LEMMA AddrInvInit == AddrInit => AddrInv
<1> SUFFICES ASSUME AddrInit PROVE AddrInv
  OBVIOUS
<1>1. AddrTyped
  <2>1. 0 \in 0..(Wrap - 1) /\ 0 \in 0..MaxWait
    BY Ticks
  <2>2. {pollFlag, cable, linkUp, changed, bounced} \subseteq BOOLEAN
    BY DEF AddrInit
  <2> QED BY <2>1, <2>2 DEF AddrInit, AddrTyped
<1> QED BY <1>1 DEF AddrInit, AddrInv, AddressAgrees, WaitMeasured

LEMMA TickStep == AddrInv /\ TickHandler => AddrInv'
<1> SUFFICES ASSUME AddrInv, TickHandler PROVE AddrInv'
  OBVIOUS
<1>1. UNCHANGED <<mainAt, cable, linkUp, changed, addrState, startTick, dhcp, address, bounced>>
  BY DEF TickHandler, addrLink, addrNetif
<1>2. ticks \in 0..(Wrap - 1) /\ startTick \in 0..(Wrap - 1) /\ waited \in 0..MaxWait
  BY DEF AddrInv, AddressAgrees, AddrTyped
<1>3. ticks' = (ticks + 1) % Wrap
  BY DEF TickHandler
<1>5. /\ ticks' \in 0..(Wrap - 1)
      /\ (ticks' - startTick) % Wrap = (((ticks - startTick) % Wrap) + 1) % Wrap
  <2>1. startTick \in Int
    BY <1>2
  <2> QED BY <1>2, <1>3, <2>1, Ticks, WrappingDistance
<1>6. waited' \in 0..MaxWait
  BY <1>2, Ticks DEF TickHandler
<1>7. WaitMeasured'
  <2> SUFFICES ASSUME addrState = "ADDR_DHCP_WAIT" PROVE (ticks' - startTick) % Wrap = waited'
    BY <1>1 DEF WaitMeasured
  <2>1. waited < MaxWait /\ waited' = waited + 1
    BY DEF TickHandler
  <2>2. (ticks - startTick) % Wrap = waited
    BY DEF AddrInv, WaitMeasured
  <2>3. waited + 1 \in 0..(Wrap - 1)
    BY <1>2, <2>1, Ticks
  <2>4. (waited + 1) % Wrap = waited + 1
    BY <2>3, Ticks, ModSmall
  <2> QED BY <1>5, <2>1, <2>2, <2>4
<1>8. pollFlag' \in BOOLEAN
  BY DEF TickHandler, AddrInv, AddressAgrees, AddrTyped
<1> QED BY <1>1, <1>5, <1>6, <1>7, <1>8 DEF AddrInv, AddressAgrees, AddrTyped

\* What does not touch the counter, the start of the wait and the state keeps
\* the measure.
LEMMA MeasureKept ==
    ASSUME WaitMeasured, UNCHANGED <<ticks, startTick, waited>>,
           addrState' = addrState \/ addrState' # "ADDR_DHCP_WAIT"
    PROVE  WaitMeasured'
  BY DEF WaitMeasured

LEMMA PollStep == AddrInv /\ PollState => AddrInv'
<1> SUFFICES ASSUME AddrInv, PollState PROVE AddrInv'
  OBVIOUS
<1>1. /\ UNCHANGED <<ticks, pollFlag, cable, linkUp, changed>> /\ mainAt' = "lwip"
      /\ AddressAgrees /\ AddrTyped /\ WaitMeasured
  BY DEF PollState, addrLink, AddrInv, AddressAgrees
<1>2. CASE StartDhcp
  <2>1. addrState = "ADDR_NONE" /\ dhcp = "off" /\ address = "none"
    BY <1>1, <1>2 DEF StartDhcp, AddressAgrees
  <2>2. CASE /\ addrState' = "ADDR_DHCP_WAIT" /\ startTick' = ticks
             /\ dhcp' = "discover" /\ waited' = 0 /\ UNCHANGED <<address, bounced>>
    <3>1. ticks \in 0..(Wrap - 1) /\ 0 \in 0..MaxWait
      BY <1>1, Ticks DEF AddrTyped
    <3>2. (ticks - ticks) % Wrap = 0
      <4>1. ticks - ticks = 0 /\ 0 \in 0..(Wrap - 1)
        BY <3>1, Ticks
      <4> QED BY <4>1, Ticks, ModSmall
    <3>3. WaitMeasured'
      BY <1>1, <2>2, <3>2 DEF WaitMeasured
    <3>4. AddressAgrees'
      BY <1>1, <2>1, <2>2, <3>1 DEF AddressAgrees, AddrTyped
    <3> QED BY <3>3, <3>4 DEF AddrInv
  <2>3. CASE SetStaticAddress /\ UNCHANGED <<startTick, dhcp, history>>
    BY <1>1, <2>1, <2>3, MeasureKept
       DEF SetStaticAddress, history, AddrInv, AddressAgrees, AddrTyped
  <2> QED BY <1>2, <2>2, <2>3 DEF StartDhcp
<1>3. CASE HaveLease
  BY <1>1, <1>3, MeasureKept DEF HaveLease, history, AddrInv, AddressAgrees, AddrTyped
<1>4. CASE FallBack
  BY <1>1, <1>4, MeasureKept
     DEF FallBack, ReleaseAndStop, SetStaticAddress, history, AddrInv, AddressAgrees, AddrTyped
<1>5. CASE LinkBounced
  BY <1>1, <1>5, MeasureKept
     DEF LinkBounced, Bounced, Kick, history, AddrInv, AddressAgrees, AddrTyped
<1>6. CASE NoChange
  BY <1>1, <1>6, MeasureKept DEF NoChange, addrNetif, history, AddrInv, AddressAgrees, AddrTyped
<1> QED BY <1>2, <1>3, <1>4, <1>5, <1>6 DEF PollState

LEMMA OtherStep == AddrInv /\ (PollBegin \/ LinkPoll \/ Cable \/ Lwip) => AddrInv'
<1> SUFFICES ASSUME AddrInv, PollBegin \/ LinkPoll \/ Cable \/ Lwip PROVE AddrInv'
  OBVIOUS
<1>1. UNCHANGED <<ticks, addrState, startTick, waited>> /\ AddressAgrees /\ AddrTyped
  BY DEF PollBegin, LinkPoll, Cable, Lwip, LeaseGranted, LeaseLost, addrLink, addrNetif,
         history, AddrInv, AddressAgrees
<1>2. WaitMeasured'
  BY <1>1, MeasureKept DEF AddrInv
<1>3. CASE PollBegin \/ Cable
  <2>1. UNCHANGED <<dhcp, address, bounced>>
    BY <1>3 DEF PollBegin, Cable, addrNetif, history
  <2>2. {pollFlag', cable', linkUp', changed'} \subseteq BOOLEAN /\ mainAt' \in {"lwip", "link", "state"}
    BY <1>1, <1>3 DEF PollBegin, Cable, addrLink, AddrTyped
  <2> QED BY <1>1, <1>2, <2>1, <2>2 DEF AddrInv, AddressAgrees, AddrTyped
<1>4. CASE LinkPoll
  <2>1. /\ {pollFlag', cable', linkUp', changed', bounced'} \subseteq BOOLEAN
        /\ mainAt' \in {"lwip", "link", "state"} /\ address' = address
    BY <1>1, <1>4 DEF LinkPoll, SetLink, LinkComesUp, AddrTyped
  <2>2. CASE LinkComesUp
    <3>1. /\ dhcp' = (IF dhcp = "bound" THEN "reboot" ELSE dhcp)
          /\ bounced' = (bounced \/ addrState = "ADDR_DHCP_WAIT")
      BY <1>4, <2>2 DEF LinkPoll, SetLink, Kick
    <3> QED BY <1>1, <1>2, <2>1, <3>1 DEF AddrInv, AddressAgrees, AddrTyped
  <2>3. CASE ~LinkComesUp
    <3>1. dhcp' = dhcp /\ bounced' = bounced
      BY <1>1, <1>4, <2>3 DEF LinkPoll, SetLink, AddrTyped
    <3> QED BY <1>1, <1>2, <2>1, <3>1 DEF AddrInv, AddressAgrees, AddrTyped
  <2> QED BY <2>2, <2>3
<1>5. CASE Lwip
  <2>1. UNCHANGED <<pollFlag, mainAt, cable, linkUp, changed, bounced>>
    BY <1>5 DEF Lwip, LeaseGranted, LeaseLost, addrLink, history
  <2>2. CASE LeaseGranted
    BY <1>1, <1>2, <2>1, <2>2 DEF LeaseGranted, AddrInv, AddressAgrees, AddrTyped
  <2>3. CASE LeaseLost
    BY <1>1, <1>2, <2>1, <2>3 DEF LeaseLost, AddrInv, AddressAgrees, AddrTyped
  <2> QED BY <1>5, <2>2, <2>3 DEF Lwip
<1> QED BY <1>3, <1>4, <1>5

LEMMA AddrStep == AddrInv /\ [AddrNext]_addrVars => AddrInv'
<1> SUFFICES ASSUME AddrInv, [AddrNext]_addrVars PROVE AddrInv'
  OBVIOUS
<1>1. CASE UNCHANGED addrVars
  BY <1>1 DEF addrVars, addrLink, addrNetif, history, AddrInv, AddressAgrees, AddrTyped, WaitMeasured
<1> QED BY <1>1, TickStep, PollStep, OtherStep DEF AddrNext, Poll

LEMMA AddrAlways == AddrSpec => []AddrInv
<1>1. AddrInit => AddrInv
  BY AddrInvInit
<1>2. AddrInv /\ [AddrNext]_addrVars => AddrInv'
  BY AddrStep
<1> QED BY <1>1, <1>2, PTL DEF AddrSpec

\* The address a port has announced is the one it has, and no DHCP client is left
\* to change a static one.
THEOREM PortAddressAgrees == AddrSpec => []AddressAgrees
<1>1. AddrInv => AddressAgrees
  BY DEF AddrInv
<1> QED BY <1>1, AddrAlways, PTL

\* poll_port falls back when the unsigned difference says so, which it says only
\* when the time is over, and only if the client does not stand by a lease: one
\* it was granted it is asking for again, since the link has come up.
THEOREM PortFallsBackInTime == AddrSpec => FallbackJustified
<1> DEFINE A == addrState = "ADDR_DHCP_WAIT" /\ addrState' = "ADDR_STATIC" =>
                    waited >= Timeout /\ (address = "lease" => bounced)
<1>1. AddrInv /\ [AddrNext]_addrVars => [A]_addrVars
  <2> SUFFICES ASSUME AddrInv, AddrNext, addrState = "ADDR_DHCP_WAIT",
                      addrState' = "ADDR_STATIC"
               PROVE  waited >= Timeout /\ (address = "lease" => bounced)
    OBVIOUS
  <2>1. PollState
    BY DEF AddrNext, TickHandler, Poll, PollBegin, LinkPoll, Cable, Lwip, LeaseGranted,
           LeaseLost, addrNetif
  <2>2. FallBack
    BY <2>1 DEF PollState, StartDhcp, HaveLease, LinkBounced, Bounced, NoChange, addrNetif
  <2>3. address = "lease" => bounced
    BY <2>2 DEF FallBack, AddrInv, AddressAgrees
  <2>4. waited >= Timeout
    BY <2>2 DEF FallBack, DeadlinePassed, AddrInv, WaitMeasured
  <2> QED BY <2>3, <2>4
<1> QED BY <1>1, AddrAlways, PTL DEF AddrSpec, FallbackJustified

=============================================================================
