------------------------------- MODULE TaxiTx -------------------------------
(***************************************************************************)
(* The transmit half of the Linux driver (Linux/taxi-mac/taxi_mac.c): the  *)
(* descriptor ring shared by ndo_start_xmit and the DMA completion         *)
(* callback, and the open / stop / change_mtu path that builds the ring's  *)
(* DMA channel up and tears it down under them.                            *)
(*                                                                         *)
(* Four contexts interleave, one critical section or call per action:      *)
(*   control  - ndo_open, ndo_stop, ndo_change_mtu, serialised by rtnl;    *)
(*              `ctl' is its place in the code, `op' the entry point;      *)
(*   xmit     - ndo_start_xmit, serialised by the queue's tx lock;         *)
(*   engine   - the DMA engine, completing issued descriptors in order;    *)
(*   callback - taxi_tx_complete, run by the engine's tasklet.             *)
(* The kernel (qdisc, netdev queue state, dmaengine) is external: it is    *)
(* modelled by what the driver relies on.  A use of a channel pointer that *)
(* is not a held channel is an oops, after which nothing is modelled.      *)
(*                                                                         *)
(* A definition marked "Faulty" is a mistake the code does not make: put   *)
(* in the place of the definition after it, it breaks the property named   *)
(* for it in the README.  No specification uses it.                        *)
(***************************************************************************)
EXTENDS Integers, Sequences, FiniteSets

CONSTANTS
    Frames,          \* sk_buffs; an address freed may be handed over again
    None,            \* NULL
    Ring,            \* TAXI_TX_RING
    WakeThresh,      \* TAXI_TX_WAKE_THRESH
    Wrap,            \* 2^32: tx_head and tx_tail are unsigned int
    DrainMayTimeOut  \* the ring may be busy for TAXI_TX_DRAIN_MS

ASSUME NoneAssumption == None \notin Frames
ASSUME RingAssumption ==
    /\ Ring \in Nat \ {0, 1}
    /\ WakeThresh \in 1..(Ring - 1)
    /\ Wrap \in Nat \ {0} /\ Wrap % Ring = 0
ASSUME SwitchAssumption == DrainMayTimeOut \in BOOLEAN

VARIABLES
    head, tail,  \* tx_head, tx_tail
    ring,        \* tx_ring[].skb
    chan,        \* tx_chan: "null", "err" (ERR_PTR), "dangling" or "held"
    pending,     \* descriptors submitted, not issued, by the frame they carry
    issued,      \* descriptors the engine works on
    done,        \* completed descriptors whose callback has not run
    cb,          \* the frame taxi_tx_complete is about to consume
    xmit, skb,   \* ndo_start_xmit: its place in the code and its frame
    stopped,     \* __QUEUE_STATE_DRV_XOFF
    active,      \* the qdisc is attached: ndo_start_xmit may be called
    ctl, op,     \* the control path
    running,     \* __LINK_STATE_START
    macTx,       \* TAXI_CTRL_TX_EN
    live,        \* frames handed to the driver and not freed (history)
    upset,       \* since it came up: change_mtu met traffic, or its restart failed (history)
    oops

ringVars == <<head, tail, ring>>
engineVars == <<pending, issued, done>>
xmitVars == <<xmit, skb>>
queueVars == <<stopped, active>>
ctlVars == <<ctl, op, running, macTx>>
faults == <<upset, oops>>
vars == <<ringVars, engineVars, xmitVars, queueVars, ctlVars, chan, cb, live, faults>>

XmitSteps == {"idle", "prep", "submit", "issue"}
CtlSteps == {"idle", "request", "rx_start", "enable", "phy", "start_queue",
             "tx_disable", "drain", "terminate", "flush", "release", "wake"}
Ops == {"none", "open", "openfail", "stop", "mtu"}

\* Faulty: no slot left free, so that a full ring looks empty.
SpaceAllSlots(h, t) == Ring - ((h - t) % Ring)
\* CIRC_SPACE of linux/circ_buf.h: one slot is always left free.
Space(h, t) == (t - (h + 1)) % Ring
Slot(n) == n % Ring
\* Faulty: no overflow.
IncUnbounded(n) == n + 1
Inc(n) == (n + 1) % Wrap
InFlight == (head - tail) % Ring

SlotOccupied(s) == (s - tail) % Ring < InFlight
RingFrames == {ring[s] : s \in 0..(Ring - 1)} \ {None}

RingTypes ==
    /\ head \in 0..(Wrap - 1) /\ tail \in 0..(Wrap - 1)
    /\ ring \in [0..(Ring - 1) -> Frames \cup {None}]
EngineTypes ==
    /\ pending \in Seq(Frames) /\ issued \in Seq(Frames) /\ done \in Seq(Frames)
FrameTypes ==
    /\ cb \in Frames \cup {None} /\ skb \in Frames \cup {None}
    /\ xmit \in XmitSteps /\ (skb # None <=> xmit \in {"prep", "submit"})
    /\ live \subseteq Frames
ControlTypes ==
    /\ chan \in {"null", "err", "dangling", "held"}
    /\ ctl \in CtlSteps /\ op \in Ops
    /\ {stopped, active, running, macTx, upset, oops} \subseteq BOOLEAN
TypeOK == RingTypes /\ EngineTypes /\ FrameTypes /\ ControlTypes

Init ==
    /\ head = 0 /\ tail = 0
    /\ ring = [s \in 0..(Ring - 1) |-> None]
    /\ chan = "null"
    /\ pending = <<>> /\ issued = <<>> /\ done = <<>>
    /\ cb = None /\ xmit = "idle" /\ skb = None
    /\ stopped = FALSE /\ active = FALSE
    /\ ctl = "idle" /\ op = "none"
    /\ running = FALSE /\ macTx = FALSE
    /\ live = {} /\ upset = FALSE /\ oops = FALSE

\* A read through tx_chan: sound only while the channel is held.
ChannelHeld == chan = "held"
Oops == /\ oops' = TRUE
        /\ UNCHANGED <<ringVars, engineVars, xmitVars, queueVars, ctlVars, chan, cb, live>>

----------------------------------------------------------------------------
(* ndo_start_xmit.  The stack calls it with the tx lock held, only while   *)
(* the qdisc is attached and the queue awake.                              *)

MayXmit == xmit = "idle" /\ active /\ ~stopped

\* Between the netif_tx_disable and the netif_wake_queue of change_mtu.
MtuUnderWay == op = "mtu" /\ ctl # "tx_disable"

\* The lockless space check on entry, and the NETDEV_TX_BUSY return.
XmitEnter ==
    /\ MayXmit
    /\ upset' = (upset \/ MtuUnderWay)
    /\ IF ~ChannelHeld THEN Oops
       ELSE IF Space(head, tail) = 0
       THEN /\ stopped' = TRUE
            /\ UNCHANGED <<ringVars, engineVars, xmitVars, active, ctlVars, chan, cb, live, oops>>
       ELSE \E f \in Frames \ live :
            /\ live' = live \cup {f}
            /\ xmit' = "prep" /\ skb' = f
            /\ UNCHANGED <<ringVars, engineVars, queueVars, ctlVars, chan, cb, oops>>

\* Faulty: the frame is counted but not freed.
XmitDropLeak == xmit' = "idle" /\ skb' = None /\ UNCHANGED live

\* The `drop' label: the frame is freed and counted in tx_dropped.
XmitDrop ==
    /\ live' = live \ {skb}
    /\ xmit' = "idle" /\ skb' = None

\* Linearise, map and prepare a descriptor; any of them may fail.
XmitPrep ==
    /\ xmit = "prep"
    /\ UNCHANGED upset
    /\ IF ~ChannelHeld THEN Oops
       ELSE /\ \/ XmitDrop
               \/ xmit' = "submit" /\ UNCHANGED <<skb, live>>
            /\ UNCHANGED <<ringVars, engineVars, queueVars, ctlVars, chan, cb, oops>>

\* Faulty: looks at the ring as it was before tx_head was advanced.
LastSlotTakenStale == Space(head, tail) = 0
LastSlotTaken == Space(Inc(head), tail) = 0

\* The critical section under tx_lock.  A refused submission leaves the
\* slot empty; an accepted one stops the queue when it took the last slot.
XmitSubmit ==
    /\ xmit = "submit"
    /\ UNCHANGED upset
    /\ IF ~ChannelHeld THEN Oops
       ELSE \/ /\ XmitDrop
               /\ ring' = [ring EXCEPT ![Slot(head)] = None]
               /\ UNCHANGED <<head, tail, engineVars, queueVars, ctlVars, chan, cb, oops>>
            \/ /\ ring' = [ring EXCEPT ![Slot(head)] = skb]
               /\ head' = Inc(head)
               /\ pending' = Append(pending, skb)
               /\ stopped' = (stopped \/ LastSlotTaken)
               /\ xmit' = "issue" /\ skb' = None
               /\ UNCHANGED <<tail, issued, done, active, ctlVars, chan, cb, live, oops>>

\* dma_async_issue_pending, after the lock is dropped.
XmitIssue ==
    /\ xmit = "issue"
    /\ UNCHANGED upset
    /\ IF ~ChannelHeld THEN Oops
       ELSE /\ issued' = issued \o pending /\ pending' = <<>>
            /\ xmit' = "idle"
            /\ UNCHANGED <<ringVars, done, skb, queueVars, ctlVars, chan, cb, live, oops>>

----------------------------------------------------------------------------
(* The DMA engine (external) and its callback.                             *)

EngineDone ==
    /\ issued # <<>>
    /\ issued' = Tail(issued) /\ done' = Append(done, Head(issued))
    /\ UNCHANGED <<ringVars, pending, xmitVars, queueVars, ctlVars, chan, cb, live, faults>>

\* Faulty: looks at the ring as it was before tx_tail was advanced.
EnoughRoomStale == Space(head, tail) >= WakeThresh
\* Faulty: the callback does not wake the queue.
EnoughRoomNever == FALSE
EnoughRoom == Space(head, Inc(tail)) >= WakeThresh

\* The critical section of taxi_tx_complete.  The callback's parameter is
\* the device, not the slot: the descriptor at the head of `done' is matched
\* with whatever frame is at tx_tail.
TxComplete ==
    /\ done # <<>> /\ cb = None
    /\ UNCHANGED upset
    /\ IF tail # head /\ ~ChannelHeld THEN Oops
       ELSE /\ done' = Tail(done)
            /\ IF tail = head
               THEN UNCHANGED <<ringVars, stopped, cb>>
               ELSE /\ cb' = ring[Slot(tail)]
                    /\ ring' = [ring EXCEPT ![Slot(tail)] = None]
                    /\ tail' = Inc(tail)
                    /\ stopped' = (stopped /\ ~EnoughRoom)
                    /\ UNCHANGED head
            /\ UNCHANGED <<pending, issued, xmitVars, active, ctlVars, chan, live, oops>>

\* dev_consume_skb_any, after the lock is dropped.
Consume ==
    /\ cb # None
    /\ live' = live \ {cb} /\ cb' = None
    /\ UNCHANGED <<ringVars, engineVars, xmitVars, queueVars, ctlVars, chan, faults>>

----------------------------------------------------------------------------
(* Data path start: taxi_request_dma, taxi_rx_ring_start, MAC enable.      *)

\* A failed start makes ndo_open fail, so the interface stays down; a
\* failed restart makes ndo_change_mtu fail, and the interface stays up.
StartFailed ==
    /\ ctl' = "idle" /\ op' = "none"
    /\ running' = (op = "mtu")
    /\ upset' = (upset \/ op = "mtu")

RequestDma ==
    /\ ctl = "request"
    /\ \/ chan' = "err" /\ StartFailed
       \/ chan' = "dangling" /\ StartFailed
       \/ chan' = "held" /\ ctl' = "rx_start" /\ UNCHANGED <<op, running, upset>>
    /\ UNCHANGED <<ringVars, engineVars, xmitVars, queueVars, macTx, cb, live, oops>>

RxRingStart ==
    /\ ctl = "rx_start"
    /\ \/ chan' = "null" /\ StartFailed
       \/ ctl' = "enable" /\ UNCHANGED <<op, running, chan, upset>>
    /\ UNCHANGED <<ringVars, engineVars, xmitVars, queueVars, macTx, cb, live, oops>>

EnableMac ==
    /\ ctl = "enable"
    /\ macTx' = TRUE
    /\ ctl' = IF op = "open" THEN "phy" ELSE "wake"
    /\ UNCHANGED <<ringVars, engineVars, xmitVars, queueVars, op, running, chan, cb, live, faults>>

----------------------------------------------------------------------------
(* Data path stop: drain, terminate, flush, release.                       *)

Drained == tail = head

\* taxi_tx_drain polls tx_tail and tx_head without the lock; the transmitter
\* is switched off when it returns.
TxDrain ==
    /\ ctl = "drain"
    /\ Drained \/ DrainMayTimeOut
    /\ ctl' = "terminate" /\ macTx' = FALSE
    /\ UNCHANGED <<ringVars, engineVars, xmitVars, queueVars, op, running, chan, cb, live, faults>>

\* Faulty: dmaengine_terminate_async, which leaves due callbacks to run.
TerminateAsync ==
    /\ ctl = "terminate" /\ ChannelHeld
    /\ pending' = <<>> /\ issued' = <<>>
    /\ ctl' = "flush"
    /\ UNCHANGED <<ringVars, done, xmitVars, queueVars, op, running, macTx, chan, cb, live, faults>>

\* Faulty: dmaengine_synchronize alone, which waits for the engine, after the
\* MAC that feeds on it was switched off.
TerminateWaits ==
    /\ ctl = "terminate"
    /\ UNCHANGED upset
    /\ IF ~ChannelHeld THEN Oops
       ELSE /\ cb = None /\ issued = <<>> /\ done = <<>>
            /\ pending' = <<>> /\ issued' = <<>> /\ done' = <<>>
            /\ ctl' = "flush"
            /\ UNCHANGED <<ringVars, xmitVars, queueVars, op, running, macTx, chan, cb, live, oops>>

\* dmaengine_terminate_sync waits for a callback that is running.
Terminate ==
    /\ ctl = "terminate"
    /\ UNCHANGED upset
    /\ IF ~ChannelHeld THEN Oops
       ELSE /\ cb = None
            /\ pending' = <<>> /\ issued' = <<>> /\ done' = <<>>
            /\ ctl' = "flush"
            /\ UNCHANGED <<ringVars, xmitVars, queueVars, op, running, macTx, chan, cb, live, oops>>

\* Faulty: the loop ends one slot early.
FlushedButLast == {s \in 0..(Ring - 1) : (s - tail) % Ring < InFlight - 1}
Flushed == {s \in 0..(Ring - 1) : SlotOccupied(s)}

\* The loop of taxi_tx_ring_stop, in one critical section.
Flush ==
    /\ ctl = "flush"
    /\ live' = live \ {ring[s] : s \in Flushed}
    /\ ring' = [s \in 0..(Ring - 1) |-> IF s \in Flushed THEN None ELSE ring[s]]
    /\ head' = 0 /\ tail' = 0
    /\ ctl' = "release"
    /\ UNCHANGED <<engineVars, xmitVars, queueVars, op, running, macTx, chan, cb, faults>>

\* taxi_release_dma, after the RX ring has been stopped: freeing the channel
\* frees the descriptors it still holds.  change_mtu goes on to restart.
Release ==
    /\ ctl = "release"
    /\ chan' = "null"
    /\ pending' = <<>> /\ issued' = <<>> /\ done' = <<>>
    /\ ctl' = IF op = "mtu" THEN "request" ELSE "idle"
    /\ op' = IF op = "mtu" THEN "mtu" ELSE "none"
    /\ running' = (op = "mtu")
    /\ upset' = (upset /\ op # "stop")
    /\ UNCHANGED <<ringVars, xmitVars, queueVars, macTx, cb, live, oops>>

----------------------------------------------------------------------------
(* net_device_ops, as the kernel calls them: rtnl held, START set before   *)
(* ndo_open and cleared, with the qdisc detached, before ndo_stop.         *)

Open ==
    /\ ctl = "idle" /\ ~running
    /\ ctl' = "request" /\ op' = "open" /\ running' = TRUE
    /\ UNCHANGED <<ringVars, engineVars, xmitVars, queueVars, macTx, chan, cb, live, faults>>

PhyConnect ==
    /\ ctl = "phy"
    /\ \/ ctl' = "start_queue" /\ op' = op
       \/ ctl' = "drain" /\ op' = "openfail"
    /\ UNCHANGED <<ringVars, engineVars, xmitVars, queueVars, running, macTx, chan, cb, live, faults>>

StartQueue ==
    /\ ctl = "start_queue"
    /\ stopped' = FALSE /\ active' = TRUE
    /\ ctl' = "idle" /\ op' = "none"
    /\ UNCHANGED <<ringVars, engineVars, xmitVars, running, macTx, chan, cb, live, faults>>

Stop ==
    /\ ctl = "idle" /\ running
    /\ ctl' = "tx_disable" /\ op' = "stop"
    /\ running' = FALSE /\ active' = FALSE
    /\ UNCHANGED <<ringVars, engineVars, xmitVars, stopped, macTx, chan, cb, live, faults>>

ChangeMtu ==
    /\ ctl = "idle" /\ running
    /\ ctl' = "tx_disable" /\ op' = "mtu"
    /\ UNCHANGED <<ringVars, engineVars, xmitVars, queueVars, running, macTx, chan, cb, live, faults>>

\* Faulty: netif_stop_queue, which does not wait for a transmission in progress.
TxDisableNoWait ==
    /\ ctl = "tx_disable"
    /\ stopped' = TRUE
    /\ ctl' = "drain"
    /\ UNCHANGED <<ringVars, engineVars, xmitVars, active, op, running, macTx, chan, cb, live, faults>>

\* netif_tx_disable takes the queue's tx lock, so no xmit is in progress.
TxDisable ==
    /\ ctl = "tx_disable" /\ xmit = "idle"
    /\ stopped' = TRUE
    /\ ctl' = "drain"
    /\ UNCHANGED <<ringVars, engineVars, xmitVars, active, op, running, macTx, chan, cb, live, faults>>

WakeQueue ==
    /\ ctl = "wake"
    /\ stopped' = FALSE
    /\ ctl' = "idle" /\ op' = "none"
    /\ UNCHANGED <<ringVars, engineVars, xmitVars, active, running, macTx, chan, cb, live, faults>>

----------------------------------------------------------------------------

Xmit == XmitEnter \/ XmitPrep \/ XmitSubmit \/ XmitIssue
Dma == EngineDone \/ TxComplete \/ Consume
DatapathStart == RequestDma \/ RxRingStart \/ EnableMac
DatapathStop == TxDrain \/ Terminate \/ Flush \/ Release
Ndo == Open \/ PhyConnect \/ StartQueue \/ Stop \/ ChangeMtu \/ TxDisable \/ WakeQueue

Halted == oops /\ UNCHANGED vars

Next ==
    \/ ~oops /\ (Xmit \/ Dma \/ DatapathStart \/ DatapathStop \/ Ndo)
    \/ Halted

Spec == Init /\ [][Next]_vars

\* A frame handed to a running engine is transmitted while the MAC's
\* transmitter is on; a tasklet that is due runs; a thread inside the driver
\* is scheduled, and gets the tx lock, a queued spinlock, in its turn.  Nothing
\* obliges the stack to send or the user to reconfigure.
Fairness ==
    /\ WF_vars(~oops /\ macTx /\ EngineDone)
    /\ WF_vars(~oops /\ TxComplete)
    /\ WF_vars(~oops /\ Consume)
    /\ WF_vars(~oops /\ (XmitPrep \/ XmitSubmit \/ XmitIssue))
    /\ WF_vars(~oops /\ (DatapathStart \/ DatapathStop))
    /\ WF_vars(~oops /\ (PhyConnect \/ StartQueue \/ WakeQueue))
    /\ SF_vars(~oops /\ TxDisable)

FairSpec == Spec /\ Fairness

----------------------------------------------------------------------------
(* Safety.  What is said with `upset' holds until frames are offered while  *)
(* change_mtu rebuilds the channel, or its restart fails, and again once    *)
(* the interface has been closed.                                           *)

\* The driver never uses a channel it does not hold (tx_chan is read by
\* ndo_start_xmit, by the completion callback and by taxi_tx_ring_stop), but
\* after a change of the MTU that met traffic or did not come back up, until
\* the interface is closed.
NoOops == oops => upset

\* The slots that hold a frame are exactly those from tx_tail up to tx_head,
\* also when the unsigned counters wrap, so none is overwritten and the
\* modulo-ring distance CIRC_SPACE works on is the true one.
RingConsistent ==
    /\ (head - tail) % Wrap = InFlight
    /\ \A s \in 0..(Ring - 1) : ring[s] # None <=> SlotOccupied(s)

\* taxi_start_xmit stops the queue on taking the last slot, so the stack is
\* never answered NETDEV_TX_BUSY.  That answer is given without tx_lock: a
\* completion between the space check and netif_stop_queue would be the last
\* one, and the queue would stay stopped.
NeverBusy == MayXmit => Space(head, tail) > 0

\* No lost wakeup: outside a reconfiguration a stopped queue has so many
\* frames in flight that a completion is still to come which wakes it.
StoppedMeansFull ==
    active /\ op = "none" /\ stopped => Space(head, tail) < WakeThresh

\* The state of the queue tells the stack the truth about the ring.
QueueTrue == upset \/ (NeverBusy /\ StoppedMeansFull)

\* Every frame handed over and not freed is in exactly one place: with
\* ndo_start_xmit, in one ring slot, or with the callback.  None leaks and
\* none is freed twice.
FrameOwnedOnce ==
    /\ live = ({skb, cb} \cup RingFrames) \ {None}
    /\ skb # None => skb # cb /\ skb \notin RingFrames
    /\ cb # None => cb \notin RingFrames
    /\ \A s, t \in 0..(Ring - 1) : ring[s] = ring[t] /\ ring[s] # None => s = t

\* Ring, indices and frames agree, whatever the environment does.
TransmitConsistent == TypeOK /\ RingConsistent /\ FrameOwnedOnce

\* The callback is not told which descriptor completed: it takes tx_tail.
\* That is the right frame because the descriptors the engine holds are, in
\* order, the frames in the ring (until the engine is terminated).
CompletionsMatchRing ==
    LET descriptors == done \o issued \o pending
    IN  upset \/ ctl = "flush" \/
        /\ Len(descriptors) = InFlight
        /\ \A i \in 1..InFlight : descriptors[i] = ring[Slot(tail + i - 1)]

\* A closed interface holds no frame, no descriptor and no channel, whatever
\* happened while it was up.
ClosedHoldsNothing ==
    ctl = "idle" /\ ~running =>
        live = {} /\ done \o issued \o pending = <<>> /\ chan # "held"

\* The ring is a queue of at most Ring - 1 frames from ndo_start_xmit to the
\* completion callback, although each of them moves one index without regard
\* to the other: no slot is overwritten or skipped, the callback is handed the
\* oldest frame, and only the flush of a terminated ring discards any.
InRing == [i \in 1..InFlight |-> ring[Slot(tail + i - 1)]]
Fifo == INSTANCE FrameQueue WITH
            Capacity <- Ring - 1, queue <- InRing, out <- cb,
            up <- ctl \notin {"terminate", "flush", "release"}
RingIsFifo == Fifo!Spec

(* Liveness.                                                               *)

\* Every frame handed to the driver is freed.
FramesFreed == \A f \in Frames : f \in live ~> f \notin live \/ upset

\* A stopped queue is woken, unless the interface is reconfigured.
QueueWoken == active /\ op = "none" /\ stopped ~> ~stopped \/ op # "none" \/ upset

\* Every ndo_open, ndo_stop and ndo_change_mtu returns.
ControlReturns == op # "none" ~> op = "none" \/ upset

(* What the source says of itself.                                         *)

\* taxi_tx_drain: "queue already stopped".
DrainFindsQueueStopped == ctl = "drain" /\ op \in {"stop", "mtu"} => stopped
=============================================================================
