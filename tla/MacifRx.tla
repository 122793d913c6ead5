------------------------------ MODULE MacifRx ------------------------------
(***************************************************************************)
(* The receive half of the bare-metal lwIP interface                       *)
(* (Vitis/common/src/taxi_macif.c) of one port: pbufs cycling between the  *)
(* pool, the receive descriptors, the queue from interrupt to main loop    *)
(* and the stack.                                                          *)
(*                                                                         *)
(* One core runs everything: the interrupt handlers, which do not nest,    *)
(* stop the main loop wherever it is, while the DMA engine goes on at any  *)
(* time.  `isr' is the receive handler's place in the code, and the main   *)
(* loop only steps when it is idle.  The engine, its driver (XAxiDma) and  *)
(* lwIP are external.                                                      *)
(*                                                                         *)
(* A definition marked "Faulty" is a mistake the code does not make, put   *)
(* in the place of the definition after it to show which property catches  *)
(* it (README).  No specification uses it.                                 *)
(***************************************************************************)
EXTENDS Integers, Sequences, FiniteSets, SequencesExt

CONSTANTS
    Pbufs,     \* the PBUF_POOL pbufs, lwip220_pbuf_pool_size of them
    None,      \* NULL
    NRxBd,     \* TAXI_MACIF_N_RX_BD
    QueueLen,  \* TAXI_MACIF_RX_QUEUE_LEN
    OthersMax  \* pbufs the stack and the other ports hold at most

ASSUME SizeAssumption == {NRxBd, QueueLen} \subseteq Nat \ {0} /\ OthersMax \in Nat
ASSUME NoneAssumption == None \notin Pbufs
\* Descriptors, queue, the pbuf being delivered, and everyone else.
ASSUME PoolAssumption ==
    IsFiniteSet(Pbufs) /\ Cardinality(Pbufs) >= NRxBd + (QueueLen - 1) + 1 + OthersMax

VARIABLES
    pool,      \* free pbufs
    hw,        \* pbufs of the descriptors the engine will fill, in order
    filled,    \* pbufs of completed descriptors, in order
    ioc, err,  \* S2MM_DMASR: a completion, an error not acknowledged
    isr,       \* taxi_macif_rx_isr: its place in the code
    rxq,       \* rx_q
    qHead,     \* rx_q_head, written by the interrupt
    qTail,     \* rx_q_tail, written by the main loop
    input,     \* taxi_macif_input: its place in the code
    cur,       \* the pbuf it delivers
    others,    \* pbufs held by the stack and the other ports
    accepted,  \* pbufs queued and not delivered, in order (history)
    overtaken  \* a DMA reset discarded a completion interrupt (history)

rings == <<hw, filled>>
irq == <<ioc, err, isr>>
queue == <<rxq, qHead, qTail>>
main == <<input, cur>>
vars == <<pool, rings, irq, queue, main, others, accepted, overtaken>>

QueueSlots == 0..(QueueLen - 1)  \* indices of rx_q

TypeOK ==
    /\ pool \subseteq Pbufs /\ others \subseteq Pbufs
    /\ {hw, filled, accepted} \subseteq Seq(Pbufs)
    /\ {ioc, err, overtaken} \subseteq BOOLEAN
    /\ isr \in {"idle", "collect", "refill", "error"}
    /\ rxq \in [QueueSlots -> Pbufs \cup {None}]
    /\ {qHead, qTail} \subseteq QueueSlots
    /\ input \in {"idle", "advance", "deliver"} /\ cur \in Pbufs \cup {None}

----------------------------------------------------------------------------
(* setup_rx_bds: descriptors from the free ones, as long as the pool gives.  *)

\* n pbufs from the pool, or all there are.
Alloc(n) ==
    LET k == IF Cardinality(pool) < n THEN Cardinality(pool) ELSE n
    IN  {fresh \in [1..k -> pool] : IsInjective(fresh)}
FreeBds == NRxBd - Len(hw) - Len(filled)
SetupRxBds(free) ==
    \E fresh \in Alloc(free) : hw' = hw \o fresh /\ pool' = pool \ ToSet(fresh)

\* taxi_macif_init: the ring is filled before interrupts are enabled.
Init ==
    /\ hw \in [1..NRxBd -> Pbufs] /\ IsInjective(hw)
    /\ pool = Pbufs \ ToSet(hw)
    /\ filled = <<>>
    /\ ioc = FALSE /\ err = FALSE /\ isr = "idle"
    /\ rxq = [s \in QueueSlots |-> None] /\ qHead = 0 /\ qTail = 0
    /\ input = "idle" /\ cur = None
    /\ others = {} /\ accepted = <<>> /\ overtaken = FALSE

----------------------------------------------------------------------------
(* The S2MM engine.                                                        *)

\* A frame fills a descriptor; with a coalescing count of 1 that interrupts.
FrameArrives ==
    /\ hw # <<>> /\ ~err
    /\ hw' = Tail(hw) /\ filled' = Append(filled, Head(hw))
    /\ ioc' = TRUE
    /\ UNCHANGED <<pool, err, isr, queue, main, others, accepted, overtaken>>

\* The engine halts with an error.
DmaError ==
    /\ ~err
    /\ err' = TRUE
    /\ UNCHANGED <<pool, rings, ioc, isr, queue, main, others, accepted, overtaken>>

\* dma_error_recover: the reset keeps the descriptors but clears DMASR.
DmaReset ==
    /\ ioc' = FALSE /\ err' = FALSE
    /\ overtaken' = (overtaken \/ filled # <<>>)

\* taxi_macif_tx_isr on a transmit error: the reset is of both channels.
TxDmaError ==
    /\ isr = "idle"
    /\ DmaReset
    /\ UNCHANGED <<pool, rings, isr, queue, main, others, accepted>>

----------------------------------------------------------------------------
(* taxi_macif_rx_isr.                                                      *)

\* Disable, read and acknowledge, and branch on an error.
RxIsrEnter ==
    /\ isr = "idle" /\ (ioc \/ err)
    /\ isr' = IF err THEN "error" ELSE "collect"
    /\ ioc' = FALSE
    /\ overtaken' = (overtaken \/ (err /\ filled # <<>>))
    /\ UNCHANGED <<pool, rings, err, queue, main, others, accepted>>

\* The error branch returns without looking at completed descriptors.
RxIsrError ==
    /\ isr = "error"
    /\ SetupRxBds(FreeBds)
    /\ DmaReset
    /\ isr' = "idle"
    /\ UNCHANGED <<filled, queue, main, others, accepted>>

\* Faulty: no slot left free, so that a full queue looks empty.
RoomAllSlots == QueueLen - ((qHead - qTail) % QueueLen)
Room == (qTail - qHead - 1) % QueueLen

\* Faulty: a frame that finds the queue full is dropped but not freed.
DropLeak(bad, dropped) == bad
\* Bad frames, and those that find the queue full, are freed.
Drop(bad, dropped) == bad \cup dropped

\* The places of the good ones among n frames, in order: any of them.
Good(n) == {at \in SeqOf(1..n, n) : \A i, j \in DOMAIN at : i < j => at[i] < at[j]}

\* Every completed descriptor is taken; its frame is good, or has an error.
Collect ==
    \E at \in Good(Len(filled)) :
        LET good == [i \in 1..Len(at) |-> filled[at[i]]]
            fits == IF Len(good) <= Room THEN good ELSE SubSeq(good, 1, Room)
        IN  /\ rxq' = [s \in QueueSlots |->
                  LET k == (s - qHead) % QueueLen
                  IN  IF k < Len(fits) THEN fits[k + 1] ELSE rxq[s]]
            /\ qHead' = (qHead + Len(fits)) % QueueLen
            /\ accepted' = accepted \o fits
            /\ pool' = pool \cup Drop(ToSet(filled) \ ToSet(good), ToSet(good) \ ToSet(fits))
            /\ filled' = <<>> /\ overtaken' = FALSE

RxIsrCollect ==
    /\ isr = "collect"
    /\ Collect
    /\ isr' = "refill"
    /\ UNCHANGED <<hw, ioc, err, qTail, main, others>>

\* Faulty: one descriptor per interrupt.
RefillOne == SetupRxBds(IF FreeBds > 0 THEN 1 ELSE 0)
Refill == SetupRxBds(FreeBds)

\* Faulty: what has completed since is acknowledged on the way out.
RxIsrRefillAck ==
    /\ isr = "refill"
    /\ Refill
    /\ isr' = "idle" /\ ioc' = FALSE
    /\ UNCHANGED <<filled, err, queue, main, others, accepted, overtaken>>

RxIsrRefill ==
    /\ isr = "refill"
    /\ Refill
    /\ isr' = "idle"
    /\ UNCHANGED <<filled, ioc, err, queue, main, others, accepted, overtaken>>

----------------------------------------------------------------------------
(* The main loop: taxi_macif_input, and lwIP.                              *)

MainRuns == isr = "idle"

NextSlot(q) == (q + 1) % QueueLen

InputRead ==
    /\ MainRuns /\ input = "idle" /\ qTail # qHead
    /\ cur' = rxq[qTail]
    /\ input' = "advance"
    /\ UNCHANGED <<pool, rings, irq, queue, others, accepted, overtaken>>

InputAdvance ==
    /\ MainRuns /\ input = "advance"
    /\ qTail' = NextSlot(qTail)
    /\ input' = "deliver"
    /\ UNCHANGED <<pool, rings, irq, rxq, qHead, cur, others, accepted, overtaken>>

\* netif->input: the stack keeps the pbuf or frees it, or refuses it and the
\* interface frees it.
InputDeliver ==
    /\ MainRuns /\ input = "deliver"
    /\ \/ Cardinality(others) < OthersMax /\ others' = others \cup {cur} /\ UNCHANGED pool
       \/ pool' = pool \cup {cur} /\ UNCHANGED others
    /\ accepted' = Tail(accepted)
    /\ cur' = None /\ input' = "idle"
    /\ UNCHANGED <<rings, irq, queue, overtaken>>

OthersTake ==
    /\ MainRuns /\ Cardinality(others) < OthersMax
    /\ \E b \in pool : others' = others \cup {b} /\ pool' = pool \ {b}
    /\ UNCHANGED <<rings, irq, queue, main, accepted, overtaken>>

OthersFree ==
    /\ MainRuns
    /\ \E b \in others : others' = others \ {b} /\ pool' = pool \cup {b}
    /\ UNCHANGED <<rings, irq, queue, main, accepted, overtaken>>

----------------------------------------------------------------------------

Engine == FrameArrives \/ DmaError \/ TxDmaError
RxIsr == RxIsrEnter \/ RxIsrError \/ RxIsrCollect \/ RxIsrRefill
Input == InputRead \/ InputAdvance \/ InputDeliver
Others == OthersTake \/ OthersFree
Next == Engine \/ RxIsr \/ Input \/ Others

Spec == Init /\ [][Next]_vars

----------------------------------------------------------------------------
Queued == [i \in 1..((qHead - qTail) % QueueLen) |-> rxq[(qTail + i - 1) % QueueLen]]

\* A pbuf is in one place: in the pool, in a descriptor, in the queue, with
\* taxi_macif_input, or outside the interface.  None leaks, none is freed or
\* queued twice, none is filled while the stack reads it.
PbufOwnedOnce ==
    LET inUse == hw \o filled \o IF input = "advance" THEN Queued
                                 ELSE IF cur = None THEN Queued ELSE <<cur>> \o Queued
    IN  /\ IsInjective(inUse)
        /\ ToSet(inUse) = Pbufs \ (pool \cup others)
        /\ pool \cap others = {}

\* The queue needs no lock: the main loop finds the frames the interrupt put
\* there, each once, in the order of their arrival.
DeliveredInOrder ==
    accepted = IF input = "deliver" THEN <<cur>> \o Queued ELSE Queued

\* The same as a step-by-step promise: the interrupt and the main loop, each
\* moving one index, make a queue of at most QueueLen - 1 pbufs that is never
\* overrun, loses nothing and repeats nothing.
Fifo == INSTANCE FrameQueue WITH
            Frames <- Pbufs, Capacity <- QueueLen - 1, queue <- Queued,
            out <- IF input = "deliver" THEN cur ELSE None, up <- TRUE
QueueIsFifo == Fifo!Spec

\* The pool, the descriptors, the queue and the main loop agree on every pbuf.
PbufsConsistent == TypeOK /\ PbufOwnedOnce /\ DeliveredInOrder

\* With a pool of the assumed size the handler always re-arms every
\* descriptor, so the port never goes deaf: nothing else would re-arm one.
RingRearmed == isr = "idle" => FreeBds = 0

\* No completion is lost: while a completed descriptor waits its interrupt is
\* pending, also if it completed while the handler ran, unless a DMA reset
\* discarded the interrupt.
CompletionPending == filled # <<>> => ioc \/ isr = "collect" \/ overtaken

\* The port never goes deaf: the engine always has descriptors to fill, and what
\* it fills is noticed.
NeverDeaf == RingRearmed /\ CompletionPending
=============================================================================
