------------------------------- MODULE TaxiRx -------------------------------
(***************************************************************************)
(* The receive half of the Linux driver (Linux/taxi-mac/taxi_mac.c): a set *)
(* of buffers cycling between the DMA engine, the lock-free list rx_done   *)
(* filled by the completion callback, and the NAPI poll that delivers      *)
(* frames and re-arms the buffers; and taxi_rx_ring_start / _stop, which   *)
(* open, stop and change_mtu run against all of them.                      *)
(*                                                                         *)
(* A buffer is named by its slot in rx_ring.  Whether a frame is bad, and  *)
(* whether an allocation, mapping or submission succeeds, is a choice of   *)
(* the environment.  NAPI and the DMA engine are external.                 *)
(*                                                                         *)
(* A definition marked "Faulty" is a mistake the code does not make, put   *)
(* in the place of the definition after it to show which property catches  *)
(* it (README).  No specification uses it.                                 *)
(***************************************************************************)
EXTENDS Naturals, Sequences, FiniteSets, SequencesExt

CONSTANTS
    RxRing,             \* TAXI_RX_RING
    Skbs,               \* sk_buffs; one freed may be allocated again
    None,               \* NULL
    Budget,             \* NAPI weight
    ResubmitMayFail     \* taxi_rx_submit may fail while the ring runs

\* NULL is neither a buffer nor the index of a slot.
ASSUME NoneAssumption == None \notin Skbs /\ None \notin Nat
ASSUME RxRingAssumption == RxRing \in Nat \ {0}
ASSUME BudgetAssumption == Budget \in Nat \ {0}
ASSUME ResubmitAssumption == ResubmitMayFail \in BOOLEAN

VARIABLES
    skb,        \* rx_ring[].skb
    queued,     \* slots submitted to the engine, not issued
    armed,      \* slots the engine will fill, in order
    rxDone,     \* rx_done: an llist, newest first
    rxPending,  \* rx_pending: oldest first
    cb,         \* taxi_rx_complete is between llist_add and napi_schedule
    napi,       \* "disabled", "idle" or "sched" (NAPI_STATE_SCHED)
    missed,     \* NAPI_STATE_MISSED
    disabling,  \* NAPI_STATE_DISABLE
    poll,       \* taxi_rx_poll: its place in the code
    cur, new,   \* the slot and the sk_buff taxi_rx_process works on
    work,       \* `done' of taxi_rx_poll
    recheck,    \* a poll is between napi_complete_done and its list check
    rxRunning,  \* rx_running
    ctl,        \* ring start / stop: its place in the code
    live,       \* sk_buffs allocated by the driver and not handed on (history)
    arrived     \* completed slots not yet taken by the poll, in order (history)

Slots == 0..(RxRing - 1)  \* indices of rx_ring

lists == <<queued, armed, rxDone, rxPending>>
napiVars == <<napi, missed, disabling>>
pollVars == <<poll, cur, new, work, recheck>>
vars == <<skb, lists, cb, napiVars, pollVars, rxRunning, ctl, live, arrived>>

PollSteps == {"idle", "take", "process", "submit", "issue", "complete"}
CtlSteps == {"down", "fill", "up", "clear", "terminate", "disable", "disabling", "free"}

TypeOK ==
    /\ skb \in [Slots -> Skbs \cup {None}]
    /\ {queued, armed, rxDone, rxPending, arrived} \subseteq Seq(Slots)
    /\ cb \in BOOLEAN
    /\ napi \in {"disabled", "idle", "sched"} /\ {missed, disabling} \subseteq BOOLEAN
    /\ poll \in PollSteps /\ cur \in Slots \cup {None} /\ new \in Skbs \cup {None}
    /\ work \in 0..Budget /\ {recheck, rxRunning} \subseteq BOOLEAN
    /\ ctl \in CtlSteps /\ live \subseteq Skbs

Init ==
    /\ skb = [s \in Slots |-> None]
    /\ queued = <<>> /\ armed = <<>> /\ rxDone = <<>> /\ rxPending = <<>>
    /\ cb = FALSE
    /\ napi = "disabled" /\ missed = FALSE /\ disabling = FALSE
    /\ poll = "idle" /\ cur = None /\ new = None /\ work = 0 /\ recheck = FALSE
    /\ rxRunning = FALSE /\ ctl = "down"
    /\ live = {} /\ arrived = <<>>

\* napi_schedule: a poll already scheduled is asked to run once more; one
\* that is being disabled is left alone.
NapiSchedule ==
    /\ UNCHANGED disabling
    /\ IF disabling THEN UNCHANGED <<napi, missed>>
       ELSE /\ napi' = IF napi = "idle" THEN "sched" ELSE napi
            /\ missed' = (missed \/ napi # "idle")

----------------------------------------------------------------------------
(* The DMA engine and its callback.                                        *)

\* A frame, good or bad, fills the oldest armed buffer; taxi_rx_complete
\* pushes it on rx_done ...
RxComplete ==
    /\ armed # <<>> /\ ~cb
    /\ armed' = Tail(armed)
    /\ rxDone' = <<Head(armed)>> \o rxDone
    /\ arrived' = Append(arrived, Head(armed))
    /\ cb' = TRUE
    /\ UNCHANGED <<skb, queued, rxPending, napiVars, pollVars, rxRunning, ctl, live>>

\* ... and then schedules the poll.
RxSchedule ==
    /\ cb
    /\ cb' = FALSE
    /\ NapiSchedule
    /\ UNCHANGED <<skb, lists, pollVars, rxRunning, ctl, live, arrived>>

----------------------------------------------------------------------------
(* taxi_rx_poll, one invocation at a time as NAPI guarantees, except that  *)
(* the next may begin once napi_complete_done has let go.                  *)

PollBegin ==
    /\ napi = "sched" /\ poll = "idle"
    /\ poll' = "take" /\ work' = 0
    /\ UNCHANGED <<skb, lists, cb, napiVars, cur, new, recheck, rxRunning, ctl, live, arrived>>

BudgetSpent == work = Budget

\* Faulty: the list is used as the engine's callback left it.
OldestFirstForgotten == rxDone
OldestFirst == Reverse(rxDone)  \* llist_reverse_order

\* The loop head: refill rx_pending from rx_done, oldest first, and take one.
PollTake ==
    /\ poll = "take"
    /\ LET batch == IF rxPending # <<>> THEN rxPending ELSE OldestFirst
       IN  IF BudgetSpent \/ batch = <<>>
           THEN /\ poll' = "issue"
                /\ UNCHANGED <<rxDone, rxPending, cur, arrived>>
           ELSE /\ cur' = Head(batch) /\ rxPending' = Tail(batch)
                /\ rxDone' = IF rxPending # <<>> THEN rxDone ELSE <<>>
                /\ arrived' = Tail(arrived)
                /\ poll' = "process"
    /\ UNCHANGED <<skb, queued, armed, cb, napiVars, new, work, recheck, rxRunning, ctl, live>>

\* Faulty: the slot keeps a pointer to the delivered buffer.
PollProcessKeepsSkb ==
    /\ poll = "process"
    /\ \/ new' = skb[cur] /\ UNCHANGED live
       \/ \E b \in Skbs \ live : new' = b /\ live' = (live \ {skb[cur]}) \cup {b}
    /\ poll' = "submit"
    /\ UNCHANGED <<skb, lists, cb, napiVars, cur, work, recheck, rxRunning, ctl, arrived>>

\* taxi_rx_process up to `resubmit': a bad frame, or no memory for a
\* replacement, keeps the buffer; otherwise the frame goes to the stack.
PollProcess ==
    /\ poll = "process"
    /\ skb' = [skb EXCEPT ![cur] = None]
    /\ \/ new' = skb[cur] /\ UNCHANGED live
       \/ \E b \in Skbs \ live : new' = b /\ live' = (live \ {skb[cur]}) \cup {b}
    /\ poll' = "submit"
    /\ UNCHANGED <<lists, cb, napiVars, cur, work, recheck, rxRunning, ctl, arrived>>

\* Faulty: rx_running is not looked at.
MaySubmitAlways == TRUE
MaySubmit == rxRunning

\* Faulty: the buffer is dropped without being freed.
KeepNew == UNCHANGED live
FreeNew == live' = live \ {new}

\* The critical section under rx_lock, and the error path after it: a buffer
\* that cannot be submitted is freed and its slot stays empty.
PollSubmit ==
    /\ poll = "submit"
    /\ \/ /\ MaySubmit
          /\ skb' = [skb EXCEPT ![cur] = new]
          /\ queued' = Append(queued, cur)
          /\ UNCHANGED live
       \/ /\ ~MaySubmit \/ ResubmitMayFail
          /\ FreeNew
          /\ UNCHANGED <<skb, queued>>
    /\ cur' = None /\ new' = None
    /\ work' = work + 1
    /\ poll' = "take"
    /\ UNCHANGED <<armed, rxDone, rxPending, cb, napiVars, recheck, rxRunning, ctl, arrived>>

AnyDone == work > 0
\* Faulty: off by one.
UnderBudgetOrAt == work <= Budget
UnderBudget == work < Budget

\* dma_async_issue_pending if anything was done.  A poll that used up its
\* budget returns, to be called again unless NAPI is being disabled.
PollIssue ==
    /\ poll = "issue"
    /\ IF AnyDone THEN armed' = armed \o queued /\ queued' = <<>>
       ELSE UNCHANGED <<armed, queued>>
    /\ poll' = IF UnderBudget THEN "complete" ELSE "idle"
    /\ napi' = IF work = Budget /\ disabling THEN "idle" ELSE napi
    /\ UNCHANGED <<skb, rxDone, rxPending, cb, missed, disabling, cur, new, work, recheck,
                   rxRunning, ctl, live, arrived>>

\* napi_complete_done: polls again if a schedule was missed, unless disabling.
PollComplete ==
    /\ poll = "complete" /\ ~recheck
    /\ napi' = IF missed /\ ~disabling THEN "sched" ELSE "idle"
    /\ missed' = FALSE
    /\ poll' = "idle" /\ recheck' = TRUE
    /\ UNCHANGED <<skb, lists, cb, disabling, cur, new, work, rxRunning, ctl, live, arrived>>

\* "A completion may have arrived after the list was drained".
PollRecheck ==
    /\ recheck
    /\ recheck' = FALSE
    /\ IF rxDone # <<>> THEN NapiSchedule ELSE UNCHANGED napiVars
    /\ UNCHANGED <<skb, lists, cb, poll, cur, new, work, rxRunning, ctl, live, arrived>>

----------------------------------------------------------------------------
(* taxi_rx_ring_start and taxi_rx_ring_stop.                               *)

RingStart ==
    /\ ctl = "down"
    /\ rxRunning' = TRUE
    /\ napi' = "idle"
    /\ ctl' = "fill"
    /\ UNCHANGED <<skb, lists, cb, missed, disabling, pollVars, live, arrived>>

\* The fill loop: nothing completes before the descriptors are issued, so it
\* is one step.  It may fail at any slot, which stops the ring again.
RingFill ==
    /\ ctl = "fill"
    /\ \E n \in 0..RxRing :
          LET filled == [i \in 1..n |-> i - 1]
          IN  \E b \in [0..(n - 1) -> Skbs] :
              /\ IsInjective(b)
              /\ skb' = [s \in Slots |-> IF s < n THEN b[s] ELSE None]
              /\ live' = {b[s] : s \in 0..(n - 1)}
              /\ IF n = RxRing
                 THEN armed' = filled /\ queued' = <<>> /\ ctl' = "up"
                 ELSE armed' = <<>> /\ queued' = filled /\ ctl' = "clear"
    /\ UNCHANGED <<rxDone, rxPending, cb, napiVars, pollVars, rxRunning, arrived>>

RingStop ==
    /\ ctl = "up"
    /\ ctl' = "clear"
    /\ UNCHANGED <<skb, lists, cb, napiVars, pollVars, rxRunning, live, arrived>>

ClearRunning ==
    /\ ctl = "clear"
    /\ rxRunning' = FALSE
    /\ ctl' = "terminate"
    /\ UNCHANGED <<skb, lists, cb, napiVars, pollVars, live, arrived>>

\* Faulty: waits until the engine has filled every buffer.
EngineEmpty == ~cb /\ armed = <<>>
CallbackOver == ~cb

\* dmaengine_terminate_sync waits for a callback that is running.
Terminate ==
    /\ ctl = "terminate" /\ CallbackOver
    /\ armed' = <<>> /\ queued' = <<>>
    /\ ctl' = "disable"
    /\ UNCHANGED <<skb, rxDone, rxPending, cb, napiVars, pollVars, rxRunning, live, arrived>>

\* napi_disable: no new schedule counts, and the poll in progress is awaited.
NapiDisable ==
    /\ ctl = "disable"
    /\ disabling' = TRUE
    /\ ctl' = "disabling"
    /\ UNCHANGED <<skb, lists, cb, napi, missed, pollVars, rxRunning, live, arrived>>

NapiDisabled ==
    /\ ctl = "disabling" /\ napi = "idle"
    /\ napi' = "disabled" /\ disabling' = FALSE
    /\ ctl' = "free"
    /\ UNCHANGED <<skb, lists, cb, missed, pollVars, rxRunning, live, arrived>>

\* Every buffer still owning an skb is freed, completed or not.
FreeBuffers ==
    /\ ctl = "free"
    /\ rxDone' = <<>> /\ rxPending' = <<>> /\ arrived' = <<>>
    /\ live' = live \ {skb[s] : s \in Slots}
    /\ skb' = [s \in Slots |-> None]
    /\ ctl' = "down"
    /\ UNCHANGED <<queued, armed, cb, napiVars, pollVars, rxRunning>>

----------------------------------------------------------------------------

Engine == RxComplete \/ RxSchedule
PollStep == PollTake \/ PollProcess \/ PollSubmit \/ PollIssue \/ PollComplete
Poll == PollBegin \/ PollStep \/ PollRecheck
Stopping == ClearRunning \/ Terminate \/ NapiDisable \/ NapiDisabled \/ FreeBuffers
Control == RingStart \/ RingFill \/ RingStop \/ Stopping

Next == Engine \/ Poll \/ Control

Spec == Init /\ [][Next]_vars

\* Softirqs run: a due callback finishes, a scheduled poll is called and
\* proceeds; a thread stopping the ring is scheduled.  Frames need not come.
Fairness ==
    /\ WF_vars(RxSchedule)
    /\ WF_vars(PollBegin) /\ WF_vars(PollStep) /\ WF_vars(PollRecheck)
    /\ WF_vars(RingFill) /\ WF_vars(Stopping)

FairSpec == Spec /\ Fairness

----------------------------------------------------------------------------
(* Safety.                                                                 *)

Held == queued \o armed \o rxDone \o rxPending

\* A slot is with the engine, on one of the lists or being processed, never
\* in two of these places; in each of them it has a buffer, and outside them
\* only from the termination of the engine to the freeing of the buffers.
SlotInOnePlace ==
    LET placed == ToSet(Held) \cup (IF poll = "process" THEN {cur} ELSE {})
    IN  /\ IsInjective(Held)
        /\ cur \notin ToSet(Held)
        /\ \A s \in placed : skb[s] # None
        /\ \A s \in Slots \ placed :
              skb[s] # None => ctl \in {"disable", "disabling", "free"}

\* Every sk_buff the driver has allocated and not handed on is in exactly one
\* slot or in the hands of the poll: no leak, no double free, and the engine
\* never fills memory that was freed or delivered.
BufferOwnedOnce ==
    LET owned == {s \in Slots : skb[s] # None}
    IN  /\ live = {skb[s] : s \in owned} \cup ({new} \ {None})
        /\ \A s, t \in owned : skb[s] = skb[t] => s = t
        /\ \A s \in owned : skb[s] # new

\* Frames are delivered in the order of their completion although rx_done is
\* a stack.
CompletionOrder == arrived = rxPending \o Reverse(rxDone)

\* Slots, buffers and order are right, whatever fails and whenever the ring
\* stops.
BuffersConsistent == TypeOK /\ SlotInOnePlace /\ BufferOwnedOnce /\ CompletionOrder

\* Once the engine is terminated nothing is submitted to it any more, although
\* a poll may still be running: it sees rx_running under rx_lock.  And once the
\* buffers are freed, and the channel may be released, no poll is running.
NothingRunsAfterStop ==
    /\ ctl \in {"disable", "disabling", "free", "down"} => armed = <<>> /\ queued = <<>>
    /\ ctl \in {"free", "down"} => poll = "idle" /\ ~cb

\* No lost wakeup: a frame on the lists has a poll scheduled, or a callback or
\* a finishing poll that is about to schedule one; and a poll that is to issue
\* them is scheduled while submitted descriptors wait.
NoLostPoll ==
    ctl = "up" => /\ rxDone # <<>> => napi = "sched" \/ cb \/ recheck
                  /\ rxPending # <<>> \/ cur # None => napi = "sched"
                  /\ queued # <<>> => napi = "sched"

\* Every slot of a running ring stays in service (README: the poll routine
\* "re-arms each slot with a fresh buffer").
AllSlotsServed ==
    ctl = "up" => \A s \in Slots : s \in ToSet(Held) \cup {cur}

(* Liveness.                                                               *)

\* Every completed frame is taken by the poll or dropped by a stop.
FramesTaken == \A s \in Slots : s \in ToSet(arrived) ~> s \notin ToSet(arrived)

\* taxi_rx_ring_stop returns: in particular napi_disable does not wait for
\* ever, whatever the poll is doing.
StopReturns == ctl = "clear" ~> ctl = "down"
=============================================================================
