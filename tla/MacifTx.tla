------------------------------ MODULE MacifTx ------------------------------
(***************************************************************************)
(* The transmit half of the bare-metal lwIP interface                      *)
(* (Vitis/common/src/taxi_macif.c) of one port: pbuf chains given to the   *)
(* descriptor ring by the main loop, sent by the engine, and released by   *)
(* the completion interrupt or by the next output.                         *)
(*                                                                         *)
(* One core runs everything; low_level_output masks interrupts, so that it *)
(* is one action: what the engine completes meanwhile it could as well     *)
(* have completed before.  `txIsr' is the place of taxi_macif_tx_isr, and  *)
(* the main loop only steps when it is idle.  The engine, its driver       *)
(* (XAxiDma) and lwIP are external.  The names differ from those of        *)
(* MacifRx: BareMetalProofs reasons about both.                            *)
(*                                                                         *)
(* Definitions marked "Faulty" are mistakes the code does not make.       *)
(***************************************************************************)
EXTENDS Integers, Sequences, FiniteSets

CONSTANTS
    Chains,   \* pbuf chains, by the pbuf at their head
    Segs,     \* how many pbufs of a chain are not empty
    Nothing,  \* NULL
    NTxBd     \* TAXI_MACIF_N_TX_BD

ASSUME ChainAssumption == Nothing \notin Chains /\ Segs \in [Chains -> Nat \ {0}]
ASSUME TxSizeAssumption == NTxBd \in Nat \ {0}

VARIABLES
    refs,           \* pbuf reference counts
    held,           \* chains lwIP has a reference to
    txHw,           \* descriptors the engine has to send, in order
    txSent,         \* descriptors completed and not reclaimed, in order
    txIoc, txErr,   \* MM2S_DMASR: a completion, an error not acknowledged
    txIsr,          \* taxi_macif_tx_isr: its place in the code
    discarded       \* a DMA reset discarded a completion interrupt (history)

txIrq == <<txIoc, txErr, txIsr>>
txVars == <<refs, held, txHw, txSent, txIrq, discarded>>

\* A descriptor: the chain it points into, its TXEOF flag and its id.
Descriptors == [chain : Chains, eof : BOOLEAN, id : Chains \cup {Nothing}]

TxTyped ==
    /\ refs \in [Chains -> Nat] /\ held \subseteq Chains
    /\ {txHw, txSent} \subseteq Seq(Descriptors)
    /\ {txIoc, txErr, discarded} \subseteq BOOLEAN
    /\ txIsr \in {"idle", "reclaim", "enable", "error"}

TxInit ==
    /\ refs = [c \in Chains |-> 0] /\ held = {}
    /\ txHw = <<>> /\ txSent = <<>>
    /\ txIoc = FALSE /\ txErr = FALSE /\ txIsr = "idle" /\ discarded = FALSE

InRing == txSent \o txHw
FreeCnt == NTxBd - Len(InRing)

----------------------------------------------------------------------------
(* process_sent_bds.                                                       *)

FrameDone == \E i \in 1..Len(txSent) : txSent[i].eof
\* XAxiDma_BdRingFromHw: all completed descriptors, perhaps without those of
\* a frame that is not complete.
FromHw == {n \in 0..Len(txSent) : \A i \in (n + 1)..Len(txSent) : ~txSent[i].eof}
References(bds, c) == Cardinality({i \in 1..Len(bds) : bds[i].id = c})

\* pbuf_free for every id that is not NULL among the first n.
Released(n) == [c \in Chains |-> refs[c] - References(SubSeq(txSent, 1, n), c)]
Reclaimed(n) == SubSeq(txSent, n + 1, Len(txSent))

----------------------------------------------------------------------------
(* low_level_output.                                                       *)

\* Faulty: the reference is put on the first descriptor.
BdsReferFirst(c) ==
    [i \in 1..Segs[c] |-> [chain |-> c, eof |-> i = Segs[c],
                           id |-> IF i = 1 THEN c ELSE Nothing]]
\* The chain is referenced once, on its last descriptor.
Bds(c) ==
    [i \in 1..Segs[c] |-> [chain |-> c, eof |-> i = Segs[c],
                           id |-> IF i = Segs[c] THEN c ELSE Nothing]]

\* Faulty: one descriptor too many.
FitsAlmost(c, free) == free + 1 >= Segs[c]
Fits(c, free) == free >= Segs[c]

\* The number of descriptors it reclaims: none unless the ring is too full.
OutputReclaims(c) == IF Fits(c, FreeCnt) THEN {0} ELSE FromHw

\* The ring takes the chain, and a reference to it; or it is too full
\* (ERR_MEM), or XAxiDma_BdRingToHw refuses, and the reference is dropped.
Output ==
    /\ txIsr = "idle"
    /\ \E c \in held : \E n \in OutputReclaims(c) :
          /\ txSent' = Reclaimed(n)
          /\ discarded' = (discarded /\ Fits(c, FreeCnt))
          /\ \/ /\ Fits(c, FreeCnt + n)
                /\ txHw' = txHw \o Bds(c)
                /\ refs' = [Released(n) EXCEPT ![c] = @ + 1]
             \/ txHw' = txHw /\ refs' = Released(n)
    /\ UNCHANGED <<held, txIrq>>

----------------------------------------------------------------------------
(* The MM2S engine and taxi_macif_tx_isr.                                  *)

\* With a coalescing count of 1 each frame sent interrupts.
EngineSends ==
    /\ txHw # <<>> /\ ~txErr
    /\ txHw' = Tail(txHw) /\ txSent' = Append(txSent, Head(txHw))
    /\ txIoc' = (txIoc \/ Head(txHw).eof)
    /\ UNCHANGED <<refs, held, txErr, txIsr, discarded>>

EngineFails ==
    /\ ~txErr
    /\ txErr' = TRUE
    /\ UNCHANGED <<refs, held, txHw, txSent, txIoc, txIsr, discarded>>

\* dma_error_recover: the reset keeps the descriptors but clears DMASR.
ResetDma ==
    /\ txIoc' = FALSE /\ txErr' = FALSE
    /\ discarded' = (discarded \/ FrameDone)

\* taxi_macif_rx_isr on a receive error: the reset is of both channels.
RxDmaError ==
    /\ txIsr = "idle"
    /\ ResetDma
    /\ UNCHANGED <<refs, held, txHw, txSent, txIsr>>

\* Disable, read and acknowledge, and branch on an error.
TxIsrEnter ==
    /\ txIsr = "idle" /\ (txIoc \/ txErr)
    /\ txIsr' = IF txErr THEN "error" ELSE "reclaim"
    /\ txIoc' = FALSE
    /\ discarded' = (discarded \/ (txErr /\ FrameDone))
    /\ UNCHANGED <<refs, held, txHw, txSent, txErr>>

\* The error branch returns without looking at completed descriptors.
TxIsrError ==
    /\ txIsr = "error"
    /\ ResetDma
    /\ txIsr' = "idle"
    /\ UNCHANGED <<refs, held, txHw, txSent>>

\* process_sent_bds.
TxIsrReclaim ==
    /\ txIsr = "reclaim"
    /\ \E n \in FromHw : refs' = Released(n) /\ txSent' = Reclaimed(n)
    /\ txIsr' = "enable" /\ discarded' = FALSE
    /\ UNCHANGED <<held, txHw, txIoc, txErr>>

\* Faulty: what has completed since is acknowledged on the way out.
TxIsrEnableAck ==
    /\ txIsr = "enable"
    /\ txIsr' = "idle" /\ txIoc' = FALSE
    /\ UNCHANGED <<refs, held, txHw, txSent, txErr, discarded>>

\* Enable: the interrupt of a frame sent meanwhile is still pending.
TxIsrEnable ==
    /\ txIsr = "enable"
    /\ txIsr' = "idle"
    /\ UNCHANGED <<refs, held, txHw, txSent, txIoc, txErr, discarded>>

----------------------------------------------------------------------------
(* lwIP: a chain is allocated with one reference, may be output again      *)
(* before it was sent, and is released at any time.                        *)

Allocate ==
    /\ txIsr = "idle"
    /\ \E c \in Chains :
          /\ refs[c] = 0
          /\ refs' = [refs EXCEPT ![c] = 1] /\ held' = held \cup {c}
    /\ UNCHANGED <<txHw, txSent, txIrq, discarded>>

Release ==
    /\ txIsr = "idle"
    /\ \E c \in held : refs' = [refs EXCEPT ![c] = @ - 1] /\ held' = held \ {c}
    /\ UNCHANGED <<txHw, txSent, txIrq, discarded>>

----------------------------------------------------------------------------

TxIsr == TxIsrEnter \/ TxIsrError \/ TxIsrReclaim \/ TxIsrEnable
TxEngine == EngineSends \/ EngineFails \/ RxDmaError
TxNext == Output \/ TxIsr \/ TxEngine \/ Allocate \/ Release

TxSpec == TxInit /\ [][TxNext]_txVars

----------------------------------------------------------------------------
\* A chain is freed when lwIP and every output of it are done with it, also
\* when it was output again while it waited, and when it is reclaimed piece by
\* piece: as long as one of its descriptors is in the ring the engine finds the
\* pbufs behind it allocated.
ChainsHeld ==
    /\ TxTyped
    /\ \A c \in Chains :
          refs[c] = References(InRing, c) + IF c \in held THEN 1 ELSE 0
    /\ \A i \in 1..Len(InRing) : refs[InRing[i].chain] > 0

\* The ring is never overrun, and what the engine finds in it are whole frames:
\* the descriptors of a chain follow each other up to the one that ends it.
FramesWhole ==
    /\ Len(InRing) <= NTxBd
    /\ \A i \in 1..Len(InRing) :
          IF InRing[i].eof THEN InRing[i].id = InRing[i].chain
          ELSE /\ InRing[i].id = Nothing
               /\ i < Len(InRing) /\ InRing[i + 1].chain = InRing[i].chain

\* References and frames agree: neither could be so without the other, since a
\* chain is referenced by the last descriptor of a whole frame.
ChainsConsistent == ChainsHeld /\ FramesWhole

\* A frame that was sent only waits to be reclaimed with its interrupt pending,
\* also if it was sent while the handler ran, unless a DMA reset discarded the
\* interrupt: the chain of the last frame before a pause would be held for good.
SentNoticed == FrameDone => txIoc \/ txIsr = "reclaim" \/ discarded
=============================================================================
