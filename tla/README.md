# Taxi Ethernet: a verification project

TLA+ models of the Taxi Ethernet reference design: four gigabit ports, each a
Taxi RGMII MAC with an AXI DMA, driven by a Linux network driver or by a
bare-metal lwIP interface, and built by a Python runner that drives Vivado, Vitis
and Yocto. The models are
translated from the sources; TLC checks them on small instances and TLAPS proves
the most important results for every value of the constants.

    tlc -workers 2 -config tx_ring.cfg MCTaxiTx      # a run: see the table of runs
    tlapm TaxiTxProofs.tla                           # the proofs of a module

`PROJECT.json` lists the components, the runs, the source lines behind every
definition, the hazards and which properties cover them, and the findings.

## 1. Inventory

| component | state it keeps | operations | talks to |
|---|---|---|---|
| Linux transmit path (`Linux/taxi-mac/taxi_mac.c`) | `tx_ring[]`, `tx_head`, `tx_tail`, `tx_chan`, the netdev queue state | `ndo_start_xmit`, `taxi_tx_complete`, drain, ring stop | stack (calls, under the tx lock), dmaengine (submit / issue / terminate, completion callback from a tasklet), `tx_lock` |
| Linux receive path (same file) | `rx_ring[]`, llist `rx_done`, `rx_pending`, `rx_running` | `taxi_rx_complete`, `taxi_rx_poll`, ring start, ring stop | dmaengine, NAPI, `rx_lock` |
| Linux control path (same file) | `running`, channels, MAC enable bits | `ndo_open`, `ndo_stop`, `ndo_change_mtu`, probe | rtnl; both rings; phylib |
| MDIO path (`taxi_mac.c`, `Vitis/common/src/taxi_mac.c`, `taxi_rgmii_mac_core.sv`) | `mdio_cmd`, `mdio_rdata`, valid / drop bits, the command on the wire | PHY read and write, each with time-outs | AXI-Lite registers; Taxi MDIO master |
| hardware statistics (wrapper, `taxi_mac.c`) | six 32-bit counters, sticky flags; 64-bit totals | count, read, clear | AXI-Lite registers |
| AXI-Lite register file (wrapper) | control, counter, flag and MDIO registers | one write and one read in flight | CPU; MAC |
| bare-metal interface (`taxi_macif.c`) | two BD rings, `rx_q` between interrupt and main loop, pbufs | output, two interrupt handlers, input | lwIP, AXI DMA driver |
| echo application (`main.c`, `echo.c`) | address state per port, tick flags | tick interrupt, main loop | lwIP, bare-metal interface |
| build lock (`build.py`, `BuildLock`) | `.<target>.lock` | acquire, release | other runners, through the file system |
| build runner, bare-metal flow (`build.py`, `StandaloneFlow`) | the project, the XSA, the workspace, the boot directory, the zip, and the times at which each was modified | `project`, `xsa`, `standalone`, `package`, `clean`, `clean --keep-boot` | Vivado, `build-vitis.py`, `make-boot.py` as subprocesses; the lock |
| build runner, Yocto flow (`build.py`) | the copy of the XSA, `build/conf`, `configdone.txt`, the images, `.inputs-sha256`, the zip | `yocto`, `package`, both cleans | the Yocto scripts as subprocesses; the lock |
| Vitis and boot-image scripts (`build-vitis.py`, `make-boot.py`) | the workspace: embeddedsw repository, platform, application, linker script; the boot directory | one script run each | Vitis, bootgen |
| Yocto scripts | `build/conf`, `images/` | configure, build, gather | bitbake |
| Vivado scripts | project, `impl_1`, XSA | create, implement, export | Vivado |
| FSBL, block designs, constraints, `config/update.py`, documentation generators | files | sequential | - |

What is hard in each, and what makes it correct:

- **Transmit.** Four contexts touch the ring: the stack, the engine's tasklet,
  the control path and the engine. The indices are free-running `unsigned int`s
  read without a lock on entry and by the drain; the callback is not told which
  descriptor completed; the queue is stopped in one context and woken in two
  others; the channel is torn down under all of them. Correct means: ring,
  engine and indices agree, each sk_buff is freed exactly once, the channel is
  used only while it is held, and a stopped queue is always woken.
- **Receive.** A callback, a poll that may run again before it has returned, and
  a stop that must outwait both. Correct means: each buffer is in one place,
  order is kept, no completed frame is left without a poll, nothing is given to
  an engine that was terminated, and the ring keeps its slots.
- **MDIO.** A client that timed out leaves its command on the wire. Correct
  means: the data of a late answer is never taken for that of another command.
- **Statistics.** Read and clear are two bus accesses. Correct means: nothing is
  counted twice, losses stay within that window, and each flag a poll finds set is counted once.
- **Build lock.** Test and creation are two system calls, and a holder may die
  at any point. Correct means: one builder, and stale locks go away.
- **Bare-metal interface.** Interrupt handlers share the rings with the main loop
  and descriptors are refilled in one place only; a chain of pbufs that takes several
  descriptors is referenced once, on the last, and may be output again before
  it was sent. Correct means: pbufs owned once, queue in order, a port that recovers
  from an empty pool, a chain kept until all of it was sent and freed then.
- **Echo application.** A deadline in ticks that wrap, against late leases and link
  changes. Correct means: a port falls back to its static address when it should,
  and has no DHCP client left that would replace it.
- **Build runner.** Every stage decides from the existence and the modification
  times of files whether it has anything to do, while users edit inputs, rebuild in
  the IDE, clean stages one by one and kill runs half-way. Correct means: what is
  skipped or reported as current really is made from the present inputs, what a
  clean keeps still reads as built, and a failure leaves nothing in the way.
- **Vitis scripts.** Files of one name come from several places and the last one
  wins. Correct means: the right one is last, and none is missing.

`PROJECT.json` lists each hazard at its line with the properties that cover it.

## 2. Modules

| module | models |
|---|---|
| `TaxiTx` | transmit ring and queue, with open / stop / change_mtu |
| `TaxiRx` | receive ring, NAPI poll, ring start / stop |
| `MdioBus` | MDIO registers and either driver as their client |
| `HwCounters` | one counter and the flags, and the poll that reads them |
| `BuildLock` | the lock file and the runners |
| `FrameQueue` | what a driver's ring promises, abstractly: `TaxiTx`'s ring and `MacifRx`'s queue implement it |
| `MacifRx` | receive ring, interrupt, queue and input of the bare-metal interface |
| `MacifTx` | its transmit ring: output and the completion interrupt |
| `AddrState` | the address of one port of the echo application, from link to lease or static address |
| `StandaloneFlow` | the runner's bare-metal flow of one target, from the project to the zip |
| `BuiltFrom` | what that flow promises of a boot file, abstractly |
| `YoctoFlow` | the runner's Yocto flow of one target |
| `WorkspaceFiles` | where each file of a Vitis workspace comes from |
| `MC...` | each of these for TLC (symmetry sets, designs, inputs) |
| `MCWorkspaceFiles` | `StandaloneFlow` and `WorkspaceFiles` for TLC, one of the two in each behaviour |
| `MCRegisters`, `MCMacif` | `HwCounters` and `MdioBus`, `MacifRx` and `MacifTx` for TLC, one of the two in each behaviour: they share no state, and the reset after a DMA error, which crosses the two halves of a port, is an action of each |
| `DataLemmas` | lemmas about remainders for any modulus, least elements, and sequences that repeat nothing |
| `TaxiTxProofs`, `TaxiRxProofs`, `BuildLockProofs`, `StandaloneFlowProofs`, `YoctoFlowProofs` | theorems about the module named, `StandaloneFlowProofs` also about `WorkspaceFiles` |
| `BareMetalProofs` | theorems about `MacifRx`, `MacifTx` and `AddrState` |
| `RegisterProofs` | theorems about `HwCounters` and `MdioBus`, the two parts of the register file |

### TaxiTx

`head`, `tail`, `ring` and `chan` are `tx_head`, `tx_tail`, `tx_ring[].skb` and
`tx_chan`; `pending`, `issued` and `done` are the descriptors in dmaengine's
submitted queue, in the engine, and completed with their callback still due;
`stopped` is the driver-stopped bit of the netdev queue and `active` says whether
its qdisc is attached. An action is one critical section or one call that other
contexts can see:

    ndo_start_xmit      XmitEnter ; XmitPrep ; XmitSubmit (tx_lock) ; XmitIssue
    taxi_tx_complete    TxComplete (tx_lock) ; Consume
    open                Open ; RequestDma ; RxRingStart ; EnableMac ; PhyConnect ; StartQueue
    stop                Stop ; TxDisable ; TxDrain ; Terminate ; Flush (tx_lock) ; Release
    change_mtu          ChangeMtu ; TxDisable ; TxDrain ; Terminate ; Flush ; Release ;
                        RequestDma ; RxRingStart ; EnableMac ; WakeQueue

The error paths are included: a refused space check, a frame dropped at each
stage, `taxi_request_dma` failing (which leaves an error pointer or a pointer to a
released channel), the receive ring failing to start, a PHY that does not
connect, a change_mtu whose restart fails and which leaves the interface up. A use
of a channel pointer that is not a held channel sets `oops` and nothing is modelled
after it. `DrainMayTimeOut` chooses whether the drain may give up.

`live` and `upset` are history variables. `live` are the frames handed over and not
freed. `upset` says that one of the two things has happened after which the
code does fail (section 5): a frame was offered between the `netif_tx_disable` and
the `netif_wake_queue` of a change_mtu (`MtuUnderWay`), or the restart of one failed.
Nothing in the model prevents either. The end of an `ndo_stop` (`Release`) clears it:
whatever happened, nothing of it is left. Properties that the code keeps in spite of both
are stated without `upset` (`TransmitConsistent`, `RingIsFifo`, `ClosedHoldsNothing`);
the others hold until it is set and again once the interface has been closed, and
`NoOops` says that these two are the only ways to a use of a channel that is not held.

### FrameQueue

A queue of at most `Capacity` frames, one consumer and no lock. `TaxiTx` instantiates it
with the frames in the ring from `tail` to `head`, the frame the callback is about to
free, and whether the device is up; `RingIsFifo` says that the ring implements it: what
Linux hands over leaves one at a time and in order, and is discarded together only
by a flush of a device that is down or restarting. `MacifRx` instantiates it with `rxq`
from `qTail` to `qHead` and the pbuf in the main loop's hands (`QueueIsFifo`); that
queue is never discarded. Frames join several at a time, since the receive interrupt
collects all that are there.

### TaxiRx

`rxDone` is the llist, newest first, `rxPending` the reversed batch; `queued` and
`armed` are the slots submitted to and issued to the engine. `poll` is the place
of `taxi_rx_poll`, `recheck` the stretch after `napi_complete_done` in which the
next poll may already run. NAPI is external: `napi`, `missed` and `disabling` are
the SCHED, MISSED and DISABLE bits, as `napi_schedule`, `napi_complete_done` and
`napi_disable` treat them. Whether a frame is bad and whether an allocation
succeeds is open at every step; `ResubmitMayFail` lets `taxi_rx_submit` fail while
the ring runs. `live` and `arrived` are history.

### MdioBus

A command is a model value and the data of a read is the command it answers, so
that "the answer to my command" can be said. `Busy` is `MDIO_STATUS[0]`. A wait is
one action: it ends with its condition, or with the time-out while the condition
is false. `driver` is chosen at the start: the Linux callbacks wait for idle and
`RD_VALID` in one status word, the bare-metal ones for idle and then look at the
dropped and valid bits. `Careful = FALSE` is the client of the testbench, which
does not wait before it writes.

### HwCounters

One of six counters that do not interact; `Width` stands for 2^32. A frame in the
cycle of the clearing write is lost as one before it, a flag event in the cycle of
the clearing write survives it, as in the wrapper's assignments. The driver counts
"how often each was found set", so that the events of a flag up to the clear that takes
them are one: a spell. `missed`, `spells` and `unseen` are history.

### BuildLock

One process per pid, `Remote` those on a second machine that shares the tree.
`write_text` is two steps, since it opens (creating or truncating) and then
writes, and `handles` says whose open file is still the one at the path.
`raced` is history, kept by every step: one `acquire()` was taking the lock while
another was under way, and since then somebody has always been taking it or building.
The run `lock_race` shows what the code does then (section 5).

### MacifRx

One core runs everything: the interrupt handlers do not nest and stop the main
loop wherever it is, and the DMA engine goes on beside both. `isr` is the place of
`taxi_macif_rx_isr`, so that frames complete, and errors happen, between its
acknowledgement, its collection and its refill; `hw` and `filled` are the
descriptors before and after the engine, `rxq`, `qHead` and `qTail` the queue. The
main loop steps only while `isr` is idle. The index mask is modelled as `%`.

    taxi_macif_rx_isr   RxIsrEnter ; RxIsrCollect ; RxIsrRefill   or   RxIsrEnter ; RxIsrError
    taxi_macif_tx_isr   TxDmaError (its error branch resets both channels)
    taxi_macif_input    InputRead ; InputAdvance ; InputDeliver

`PoolAssumption` says that the descriptors, the queue, the pbuf being delivered and
whatever the stack and the other ports hold never exhaust the pool. The pool has
2048 pbufs and a port holds at most 64 + 127 + 1, so it is met while the stack
holds no more than 1280. Without it a port whose descriptors are all used
while the pool is empty would never receive again, since only a receive interrupt
refills them. `overtaken` is history: a DMA reset (an error acknowledged together
with a completion, or a transmit error) discarded a completion interrupt. The
descriptors then wait for the interrupt of the next frame, and `CompletionPending`
says that this is the only way in which they are ever left waiting.

### MacifTx

`refs` are the reference counts of the pbuf chains and `held` the chains lwIP has a
reference to; `txHw` and `txSent` are the descriptors before and after the engine,
each with the chain it points into, TXEOF and its id, the pbuf that
`process_sent_bds` frees for it. `txIsr` is the place of `taxi_macif_tx_isr`, so that
frames are sent, and errors happen, between its acknowledgement, the reclaiming and
the end. `low_level_output` masks interrupts and is one action: what the engine
completes meanwhile it could as well have completed before.

    low_level_output    Output (takes the chain, or is too full, or is refused by XAxiDma)
    taxi_macif_tx_isr   TxIsrEnter ; TxIsrReclaim ; TxIsrEnable   or   TxIsrEnter ; TxIsrError
    taxi_macif_rx_isr   RxDmaError (its error branch resets both channels)
    lwIP                Allocate, Release, and Output again of a chain not yet sent

`XAxiDma_BdRingFromHw` is external; whether it hands back the completed descriptors of
a frame that is not complete is left open (`FromHw`), so that a chain may be reclaimed
piece by piece. `discarded` is history, as `overtaken` in `MacifRx`: a DMA reset
discarded a completion interrupt, and what was sent waits for the next one, or for an
output that finds the ring too full.

### AddrState

One port. `ticks` and `pollFlag` are what `tick_handler` writes, `mainAt` is the place of
the main loop: in lwIP, or in `poll_port` before or after `taxi_macif_link_poll`. A tick
comes between any two of these, so that the flag may be set again while ports are polled.
`addrState`, `startTick` are the code's; `dhcp` and `address` the client of lwIP and the
source of the netif's address. They change while the main loop is in lwIP, and in
`poll_port` where it calls lwIP: also inside `taxi_macif_link_poll`, since
`netif_set_link_up` tells the client by itself that the link came up, and a client with
a lease asks for it again before `poll_port` has looked at it.

    tick_handler            TickHandler
    main                    PollBegin ; LinkPoll (SetLink, Kick) ; PollState
    poll_port, by state     StartDhcp, HaveLease, FallBack, LinkBounced, NoChange

lwIP is external: a lease is granted or lost while a client runs, `dhcp_start` may
fail, `dhcp_network_changed_link_up` asks for a lease again. `ticks` wraps at `Wrap`;
`MaxWait` bounds the ticks a waiting port is left without a poll, to less than one turn
of the counter (seven years). `waited` and `bounced` are history: the ticks since DHCP
was started, counted and not computed, and whether the link has come up since.

### StandaloneFlow and BuiltFrom

One target of the runner, either of the two families the repository builds
(`design`: the family `data.json` gives and the cores found in the XSA's `.hwh`
files). The state is what is on the disk: `project`, `bit` and `xsa` of Vivado, `ws`
(the set of parts `build-vitis.py` has made, and the XSA they are made for), `boot`
and `zip`. A file's content is the number of the implementation run it comes from,
and `older` is the order of the modification times the code compares. Times are only
compared by the code, so that the order is all there is to know; `Touched` and
`Copied` are a write and `shutil.copy2`.

`run` is the place of the one process that holds the target's lock, `stages` what
its command has still to run (`stages_for`):

    stage_project, stage_xsa   Project ; Xsa ; Implement ; Export
    stage_bootfile             Standalone ; Workspace ; Compare
    build-vitis.py             SetupEmbeddedsw ; CreatePlatform ; ConfigureBsp ; BuildPlatform ;
                               CreateApp ; CopySources ; SetLinker ; BuildApp   or   VitisFails
    make-boot.py               StartBootgen ; Bootgen   or   CopyBit ; CopyElf
    stage_bootimage            Package ; ZipWritten
    clean                      CleanProject, CleanWorkspace, CleanBoot, CleanZip
    clean --keep-boot          PlanKeepBoot ; Confirm ; RemovePlanned ...

`Kill` ends a run at any step in `Dies`; `RebuildApp` is the user in the Vitis IDE. A
workspace's own time is that of its directory: it moves when something is added
at its top, which is why only some of the Vitis steps touch it.

`BuiltFrom` has two variables, a source and a product: whenever the product is made
it is made from the source that is there. `Boot` instantiates it with the XSA and
with `BootProduct`, the boot file once it is whole and of one build, and
`BootBuiltFromXsa` says that the flow implements it: every step of the runner is a
replacement of the XSA, a making, a loss of the boot file, or a stutter.

### YoctoFlow

`conf` stands for `conf/local.conf.append`, which only the configure step reads,
`recipe` for the inputs bitbake reads itself. `build` and `deploy` are what the
configuration and bitbake's results were made from, so that `images` can be compared
with the inputs; `stamp` is `.inputs-sha256` and `done` the marker. The code has two
lists of images: those without which an image does not count as built (`Required`, and
`Complete` when they are there) and those that go into the zip (`Packable`), of which
the map of the disk image is not in the first. "wic" stands for the disk image with the
root file system and the kernel, gathered beside it. The map is gathered last and only
if it was made; otherwise one of an earlier build stays, and is packaged.

    stages_for     Yocto, All, Package
    stage_yocto    Xsa ; Check (Adopt) ; Xsa ; HandOff ; Configure ; Mark ; Bitbake ;
                   GatherBoot ; GatherWic ; GatherBmap ; WriteStamp
    package        Zip ; ZipWritten
    the user       EditConf, RemoveConf, EditRecipe, the cleans

Inputs are edited at any time, also while a run is under way. Contents only move
forward: an edit that is undone exactly is not in the model. `adopted` is history: the
stamp was written for images the runner did not build (`stage_yocto` adopts
images that have no stamp, on trust), of which nothing can be claimed. With
`MayRaceMarker` the configuration may also be edited between the configure script and
the marker, with `PlanMayAge` commands may run while a `--keep-boot` waits for its
answer; both break a property (section 5), and are off in the passing runs.

### WorkspaceFiles

The contents of a workspace rather than its steps. `local` and `app` give each file
the place it was copied from last, `section` each section of `lscript.ld` its memory.
`input` is what the script finds: the two overlays, the install, the source entries
of `args.json` (for all, for the architecture, an override), the memories of the
linker script and the mod asked for. It is chosen once, from `Inputs`. The source items
are copied one per step, `copied` counts them.
`RepoComplete` compares the repository that `setup_embeddedsw` builds by walking
directories with its definition by component, `AppAsConfigured` the copying of
item after item with "the last item that has the file gives it". `LayoutAssumption`
is how embeddedsw and its patches are laid out.

The names of `WorkspaceFiles` differ from those of `StandaloneFlow`, those of
`HwCounters` from those of `MdioBus`, and those of `MacifTx` and `AddrState` from those of
`MacifRx` (`FilesSpec`, `CountersSpec`, `TxSpec` and so on), so that one module can
prove about all of them.

### Definitions marked "Faulty"

Each is a plausible mistake, written next to the definition it would replace.
Replacing it breaks the property named, which shows that the property depends on
the code and is not true of the model's shape.

| module | definition | replaced by | breaks |
|---|---|---|---|
| TaxiTx | Inc | IncUnbounded | TransmitConsistent |
| TaxiTx | TxDisable | TxDisableNoWait | NoOops |
| TaxiTx | Flushed | FlushedButLast | TransmitConsistent, ClosedHoldsNothing |
| TaxiTx | LastSlotTaken | LastSlotTakenStale | QueueTrue |
| TaxiTx | EnoughRoom | EnoughRoomStale | QueueTrue |
| TaxiTx | XmitDrop | XmitDropLeak | TransmitConsistent, FramesFreed |
| TaxiTx | Terminate | TerminateAsync | CompletionsMatchRing |
| TaxiTx | Space | SpaceAllSlots | RingIsFifo |
| TaxiTx | EnoughRoom | EnoughRoomNever | QueueWoken |
| TaxiTx | Terminate | TerminateWaits | ControlReturns |
| TaxiRx | PollProcess | PollProcessKeepsSkb | BuffersConsistent |
| TaxiRx | FreeNew | KeepNew | BuffersConsistent |
| TaxiRx | OldestFirst | OldestFirstForgotten | BuffersConsistent |
| TaxiRx | MaySubmit | MaySubmitAlways | NothingRunsAfterStop |
| TaxiRx | UnderBudget | UnderBudgetOrAt | NoLostPoll, FramesTaken |
| TaxiRx | CallbackOver | EngineEmpty | StopReturns |
| MdioBus | WaitIdle | WaitIdleIgnored | OutcomeTrue |
| MdioBus | Busy | BusyOnWire | OutcomeTrue |
| MdioBus | HandOff | HandOffRepeated | BusRecovers |
| HwCounters | ReadCounter | ReadCounterOverwrites | CountsTrue |
| HwCounters | ClearFlags | ClearFlagsAll | CountsTrue |
| HwCounters | CountFlags | CountFlagsOnce | CountsTrue |
| BuildLock | Respected | RespectedRemote | OneNamedBuilder |
| BuildLock | WriteLock | WriteLockEmpty | OneNamedBuilder |
| BuildLock | Respected | RespectedLocal | RunningLockNotReclaimed |
| BuildLock | Respected | RespectedAlways | StaleLockReclaimed |
| BuildLock | Judge | JudgeWaits | EveryRunEnds |
| MacifRx | Drop | DropLeak | PbufsConsistent |
| MacifRx | Room | RoomAllSlots | PbufsConsistent, QueueIsFifo |
| MacifRx | Refill | RefillOne | NeverDeaf |
| MacifRx | RxIsrRefill | RxIsrRefillAck | NeverDeaf |
| MacifTx | Bds | BdsReferFirst | ChainsConsistent |
| MacifTx | Fits | FitsAlmost | ChainsConsistent |
| MacifTx | TxIsrEnable | TxIsrEnableAck | SentNoticed |
| AddrState | ReleaseAndStop | ReleaseOnly | AddressAgrees |
| AddrState | DeadlinePassed | DeadlinePlain | FallbackJustified |
| AddrState | Bounced | BouncedRestarts | WaitEnds |
| YoctoFlow | StampSnapshot | StampLate | UpToDateIsTrue |
| YoctoFlow | Configured | ConfiguredForXsa | UpToDateIsTrue |
| YoctoFlow | ZipCurrent | ZipCurrentAny | ZipHoldsImages |
| YoctoFlow | Pruned | PrunedButMarker | MarkerMeansConfigured |
| StandaloneFlow | Outdated | NeverOutdated | WorkspaceTrue, BootBuiltFromXsa, SkipsAreTrue |
| StandaloneFlow | BootKept | BootNotKept | KeptReadsAsBuilt |
| StandaloneFlow | ZipCurrent | ZipCurrentAny | ZipHoldsBoot |
| StandaloneFlow | RemoveWorkspace | LeaveWorkspace | WorkspaceTrue |
| StandaloneFlow | Kept | KeptNone | SparesUnfinished |
| WorkspaceFiles | SourceDirs | PatchedDirs | RepoComplete |
| WorkspaceFiles | CopyItem | KeepItem | AppAsConfigured |
| WorkspaceFiles | RelocateAll | RelocateFirst | AppAsConfigured |

Some properties join several that are stated and proved apart:

| property | joins |
|---|---|
| TransmitConsistent | RingConsistent, FrameOwnedOnce |
| QueueTrue | NeverBusy, StoppedMeansFull |
| BuffersConsistent | SlotInOnePlace, BufferOwnedOnce, CompletionOrder |
| OutcomeTrue | ReadGetsOwnAnswer, OkMeansDone, OnlyTimeoutsFail |
| CountsTrue | OnlyWindowLosses, NoFlagLost, SpellsCounted |
| OneNamedBuilder | MutualExclusion, LockNamesBuilder |
| PbufsConsistent | PbufOwnedOnce, DeliveredInOrder |
| NeverDeaf | RingRearmed, CompletionPending |
| ChainsConsistent | ChainsHeld, FramesWhole |
| WorkspaceTrue | MadeForXsa, OnlyKillsBlock |

TransmitConsistent, BuffersConsistent, OutcomeTrue, CountsTrue, PbufsConsistent, ChainsConsistent,
AddressAgrees, WorkspaceTrue, MarkerMeansConfigured and AppAsConfigured each also hold their
module's type invariant.

## 3. Runs

| run | question | bounds |
|---|---|---|
| `tx_ring` | Do ring, engine, frames and queue agree under every interleaving; is every frame freed and the queue woken, and does every operation return? | 3 slots, 3 frames, counters wrap at 6, wake threshold 2, drain may time out, frames offered and restarts failing at any point, fairness |
| `rx_ring` | Are slots, buffers and polls accounted for, frames delivered, and does a stop return? | 3 slots, 4 buffers, budget 2, any submission may fail, fairness |
| `registers` | What is lost between read and clear? Is an MDIO answer ever taken for another command's? | a counter that wraps at 4, 6 frames, 2 flags with 3 spells each and any number of events in each; 3 reads and 3 writes to choose from, both drivers, any wait may time out, fairness for recovery |
| `lock_serial` | Is the lock a lock, but for two calls of acquire() that meet; do stale ones go, and does every run end? | 3 processes on 2 machines, kills at any point, pids reused, fairness |
| `macif` | Are pbufs, queue order, refill and interrupts right at every point of the receive handler? Is a chain kept until all of it was sent, and freed then, with output and interrupt on one ring? | 2 receive descriptors, a queue of 3 (2 usable), 6 pbufs: the smallest pool the assumption allows with one held elsewhere; 4 transmit descriptors, chains of 1, 2 and 2 segments, any number of outputs; errors of either channel at any point |
| `addr_state` | Do a port's state, client and address agree, and does it fall back when it should, in spite of leases, link changes and a counter that wraps? | wrap at 11, poll every 2 ticks, time-out 4, up to 8 ticks without a poll, fairness |
| `standalone_flow` | Is what the bare-metal flow skips, keeps and packages what it says, and does nothing but a kill leave a workspace that blocks? Does every file of a workspace come from the right place? | both targets, 3 implementation runs, 1 rebuild in the IDE, kills everywhere but while BOOT.BIN or a zip is written; all installs of 5 paths with up to 2 patches and those of the architecture, all source lists of up to 3 items of 2 directories, all linker scripts of 1 or 2 of 4 memories, or 3 with two of a kind, with each mod |
| `yocto_flow` | Are images reported up to date made from the present inputs, and markers and zips true? | 3 contents of local.conf.append, one of them "absent", 2 of the rest, 2 XSAs (not all of the changes in one behaviour: `MaxChanges`), deaths everywhere but while a zip is written or a tree is deleted |
| `lock_race` (violation) | Do the lock files prevent two concurrent builds of one target? | 2 processes on one machine, no kills |
| `tx_mtu_traffic` (violation) | Is the queue stopped during the drain of change_mtu? | 4 slots, 4 frames |
| `rx_slot_loss` (violation) | Does every slot stay in service? | 2 slots, 3 buffers |
| `keep_boot_rebuild` (violation) | Is `all` a no-op after `clean --keep-boot`? | the MicroBlaze target, 2 implementation runs, no kills |

Why these bounds are enough to be interesting: a ring of 3 has two usable slots, so it
is empty, half filled and full, and woken only when it is empty (the threshold), and
three frames keep one with `ndo_start_xmit` or with the callback while the ring is
full; counters that wrap at twice the ring meet the wrap in every position. Three receive
slots with a budget of 2 leave a batch cut short, and four buffers let a replacement
be allocated or not. Three reads and three writes let a late command, the next and
the one after differ. A counter that wraps at 4 meets six frames, and three spells of a
flag are one that is counted, one that is found and one that no poll has found. Two descriptors
fill a queue of two and one frame more is dropped. Four transmit descriptors hold two
chains of two, or one of them twice, with one of them half sent, and refuse the next; a
chain of one segment fits where one of two does not. A tick counter that wraps at 11 is no
multiple of the poll interval, as 2^32 is none of 20, and puts the start of the wait at
every distance from the wrap; eight ticks are two time-outs, so that a poll may
come early, in time and late. Three processes are a builder, one
that judges its lock and one that comes next, with one machine boundary. Three
implementation runs let the workspace, the boot file and the XSA all be of different
builds. Three contents with an absence in the middle let `local.conf.append` be
edited, removed and brought back. Lists of up to three source items let an
architecture's second entry overwrite its first, and that the common one.

Symmetry is used only in runs without liveness properties (`macif`, `lock_race`,
`rx_slot_loss`, `tx_mtu_traffic`); the refinement in `macif` is one of safety, and treats all pbufs
alike. After an oops `TaxiTx` only stutters (`Halted`), as the system really stops.

### Fairness

- `TaxiTx`: the engine works on what was issued *while the MAC transmits*
  (`macTx`), tasklets and threads inside the driver run. Nothing obliges the stack
  to send or the user to reconfigure. `TerminateWaits` shows why the condition on the
  MAC matters: whoever waits for the engine after the drain has switched the MAC off
  may wait for ever. `netif_tx_disable` takes the tx lock, which transmissions hold again
  and again: a queued spinlock serves it in its turn, which is strong fairness of
  `TxDisable`.
- `TaxiRx`: a callback that is under way finishes, a scheduled poll is called and
  proceeds, and a stopping thread is scheduled. Frames need not arrive.
- `MdioBus`: the master finishes what it started; the polling loops are bounded by
  their time-outs. Nothing obliges a client to begin.
- `BuildLock`: a live process keeps running. No fairness on kills or new runs.
- `AddrState`: the timer runs, and the main loop goes round. Neither leases nor the
  cable are obliged to anything.
- The other modules have no liveness property and assume none: a build may stop, or
  be left alone, at any point.

## 4. Proofs

| theorem | states | for all | assumes |
|---|---|---|---|
| `TxAlwaysConsistent` | `TransmitConsistent` | ring sizes, thresholds, widths, frames, environments | - |
| `TxRingImplementsQueue` | `RingIsFifo` | the same | - |
| `ChannelUseSound` | `NoOops`: no bad use of a channel but while `upset` | the same | - |
| `TxQueueTrue` | `QueueTrue`, except while `upset` | the same | - |
| `CallbackTakesRightFrame` | `CompletionsMatchRing`, except while `upset` | the same | - |
| `TxClosedHoldsNothing` | `ClosedHoldsNothing`, also after `upset` | the same | - |
| `RxNoLostPoll` | `NoLostPoll` | rings, buffers, budgets, failures | - |
| `RxNothingRunsAfterStop` | `NothingRunsAfterStop` | the same | - |
| `RxBuffersConsistent` | `BuffersConsistent` | the same | - |
| `StatisticsTrue` | `CountsTrue` | counter widths, frames, flags, spells | - |
| `MdioOutcomeTrue` | `OutcomeTrue` | commands, both drivers | `Careful`: the client waits before it writes, as both drivers do |
| `RxNeverDeaf` | `NeverDeaf` | rings, queues, pools | - |
| `RxPbufsConsistent` | `PbufsConsistent` | the same | - |
| `RxQueueImplementsQueue` | `QueueIsFifo` | the same | - |
| `TxChainsConsistent` | `ChainsConsistent` | chains of any length, rings | - |
| `SentFramesNoticed` | `SentNoticed` | the same | - |
| `PortAddressAgrees` | `AddressAgrees` | wraps, intervals, time-outs | a waiting port is polled before `ticks` goes round |
| `PortFallsBackInTime` | `FallbackJustified` | the same | the same |
| `OneBuilder`, `RunningLockSafe` | `OneNamedBuilder`, `RunningLockNotReclaimed`: but for two calls of `acquire()` that meet (`raced`) | processes, machines, kills | - |
| `StandaloneWorkspaceTrue` | `WorkspaceTrue` | targets, builds, kills at any step, stale plans | - |
| `BootImplementsBuiltFrom` | `BootBuiltFromXsa` | the same | - |
| `StandaloneSparesUnfinished` | `SparesUnfinished` | targets, builds, kills at any step | plans do not age |
| `StandaloneSkipsAreTrue` | `SkipsAreTrue` | targets, builds, stale plans | no kill while `BOOT.BIN` is written |
| `StandaloneKeptReadsAsBuilt` | `KeptReadsAsBuilt` | targets, builds, kills at any step, stale plans | no Zynq target whose `.hwh` files name a MicroBlaze |
| `WorkspaceRepoComplete` | `RepoComplete` | patches and installs | their layout (`LayoutAssumption`) |
| `WorkspaceAppAsConfigured` | `AppAsConfigured` | source entries, overrides, linker scripts and mods | - |
| `StandaloneZipHoldsBoot` | `ZipHoldsBoot` | targets, builds, stale plans | no kill while a zip is written; no Zynq target whose `.hwh` files name a MicroBlaze |
| `YoctoMarkerMeansConfigured` | `MarkerMeansConfigured` | inputs, XSAs, kills | plans do not age, no kill while a tree is deleted |
| `YoctoZipHoldsImages` | `ZipHoldsImages` | inputs, XSAs, kills | no kill while a zip is written |
| `YoctoUpToDateIsTrue` | `UpToDateIsTrue` | inputs, XSAs, kills at any step, stale plans | the configuration is not edited between script and marker |

The constants are assumed to be what the code needs: at least two slots, a wake
threshold between 1 and the ring size less one, and a counter width the ring size
divides (256 divides 2^32); a budget and a receive ring of at least 1; a finite pool
with a pbuf for every descriptor, every usable place of the queue, the one being
delivered and as many as others may hold (section 2); numbered contents and builds; a
`None` that is none of the values it stands beside.

**The transmit ring.** The argument is in five layers, each an invariant over the
previous. (1) Types. The indices stay below the width and the slot of any index
exists. (2) `RingInv`: `RingConsistent` is not inductive. A submission writes the
slot at `tx_head` and advances it after checks made in an earlier critical section,
so the invariant needs `RoomReserved`: from the entry check to the submission a slot
stays free, because only `ndo_start_xmit` itself fills slots and completions
and flushes only free them. With it, submission occupies the free slot at
`tx_head`, completion frees the occupied one at `tx_tail`, and both move the
distance by one modulo the ring. That the true distance modulo the width and the
one modulo the ring step together, across the wrap, is `WrappingStep` of `DataLemmas`.
(3) `OwnInv` adds ownership: the frame in hand is not in the ring, and the slot
written was empty. (4) `ServeInv` adds `PhaseInv`, which says at each step of
open, stop and change_mtu whether the channel is held, the stack may be inside the
driver and the ring is empty, all except while `upset`, which also a frame that is offered
before the channel is terminated sets. `StopInv` says what an `ndo_stop` clears whatever came
before: no frame is offered while it runs, terminating leaves no descriptor and no
callback, the flush no frame; so its end regains the rest of `ServeInv`, which is why
`ClosedHoldsNothing` has no exception. `ServeInv` also adds `QueueInv`: while the interface serves, an awake
queue has room for a frame, a stopped one has too few free slots to be woken. Space,
the C macro, is related to the distance once (`SpaceIsRest`). (5) `MatchInv` compares
the descriptors `done \o issued \o pending` with the ring, slot by slot from `tx_tail`:
a completion moves a descriptor without changing the sequence, a callback takes the
head of both, and a submission appends to both. Terminating the channel empties the
sequence at once, and the flush the ring: in between they differ, and the proof needs
that no callback runs then, which is what waiting for the tasklet gives. The refinement
of `FrameQueue` reads a step of each of these lists of facts as one of the queue: a
submission appends to the ring read from `tx_tail`, a callback takes its head, and
the flush finds the device down or restarting; the capacity is what `Space` keeps free.

**The receive ring.** `RxInv` is `NoLostPoll` with what each place of the ring's
start and stop (`PhaseInv`) and of the poll (`PollInv`) implies: the poll is scheduled
as long as it is under way, it completes NAPI only with nothing pending from its own
batch, and NAPI is disabled only between the end of the last poll and the next start.
`OrderInv` is independent of it: `CompletionOrder` with the types of the lists. A push
on the llist is an append to its reversal (`ReversePush`), and taking from the
reversed batch takes the oldest. `SlotInv` adds the slots and the buffers. The four
lists and the poll's hand hold disjoint sets of slots and no list repeats one
(`ListsApart`); `Held` concatenates the lists, so that a step that moves a slot
permutes one sequence. A slot on a list has a buffer, and one on none has a buffer
only between `taxi_rx_take_done` and the resubmission or while a stop frees them
(`SlotsFilled`): that is what makes the loop of `taxi_rx_ring_free` free each buffer
once, and a failed allocation put back the buffer it took.

**Statistics.** `StatInv` is `CountsTrue` with two bounds. No frame is in the totals
that did not arrive (`NothingInvented`), so a turn of the counter is the only other
way to lose one; and the flags that are set, and those a poll has found and is about to
clear, are flags with an event that no clear has taken: the clear takes one
spell of each flag found, and the count adds one for it.

**The MDIO bus.** `BusInv` says that a command is only issued on an idle bus, and that
from then to the end of its operation nothing else is in the registers or on the wire
(`OwnBus`). A time-out gives that up, and the next operation regains it by waiting.

**The lock.** `LockInv` says that calls of `acquire()` have met, or `Serial` holds: a
process that has decided to take the lock is alone in `acquire()` and nobody builds, and
one that has read the lock of a running build remembers its owner. A step from a serial
state either keeps it or is where two calls meet (`RaceStep`); and `Serial` is
regained when the last process that took part in a race has finished building or died, since
whatever lock file is left then names no builder and needs to name none.

**The bare-metal receive path.** `CompletionPending` is inductive as it stands: the
handler acknowledges before it collects, collects everything, and whatever
completes after that raises the interrupt again. The pbufs need `PbufInv`. `Apart`:
the ring, the descriptors completed and the frames accepted are sequences that share
and repeat nothing, and with the pool and the rest of the stack they are all pbufs
there are. `RingInv` bounds what is armed and held elsewhere, `MainInv` ties the main
loop's pbuf to the queue's tail. Concatenating the three sequences then counts
the pool, and the assumption on its size leaves enough to re-arm every descriptor that
was collected (`PoolSuffices`): without it `RingRearmed` would fail. That the queue's
places from tail to head hold the accepted frames, in order, is kept through the
wrap of either index by lemmas on remainders (`QueueGrows`, `QueueTakes`); the same
lemmas make the refinement of `FrameQueue` a matter of which action is which.

**The bare-metal transmit path.** `TxInv` counts and keeps frames whole: a chain has as
many references as descriptors with its id in the ring, and lwIP's; the ring holds no
more descriptors than it has, and whole frames up to its last one (`Whole`). `ChainsHeld`
and `FramesWhole` each need the other's half. Output appends whole frames, and references
add over a concatenation (`CountOf` lemmas); reclaiming takes a prefix with its
references, and what is left of whole frames is whole. That a descriptor in the ring
always finds its chain referenced is then a fact of the ring at any time: its frame
ends further on, at a descriptor with the chain's id, the least such (`LeastElement`).
`SentNoticed` needs of `TxInv` only the types: reclaiming leaves no complete frame behind
(`ReclaimLeavesNone`), and whatever is sent later raises the interrupt again.

**The address of a port.** `AddressAgrees` is inductive as it stands: its case of a
client that no longer stands by its lease while the port waits is entered by a link-up only,
seen by the poll before it looks at the client. `FallbackJustified` needs `WaitMeasured`: while a port waits, the difference of the counters modulo the wrap
is the time waited. It is kept across the wrap (`WrappingDistance` of `DataLemmas`) as
long as the wait is shorter than a turn.

**The bare-metal flow.** `MadeForXsa` is the invariant behind everything: the XSA is
`impl_1`'s, and a workspace that no XSA has outdated is of the XSA there is. The second
needs only one fact about times: exporting an XSA makes every workspace there is older
than it (`ExportOutdates`), and no other write changes that comparison. Given it, the
refinement of `BuiltFrom` is a step-by-step check (`BuiltStep`): the boot file becomes
whole in `Bootgen` and `CopyElf`, from a workspace and a bitstream of the present XSA.
`SkipsAreTrue` compares the times of four files, and `SkipInv` carries what each
comparison means: the XSA is newer than its bitstream and a finished `.elf` newer than
both (`TimesTrue`), and a boot file that is not older than the XSA, or than the `.elf`,
is of it (`BootTrue`), which `FlowTrue` supports with the order of the stages.
`KeptInv` says that a build not yet exported is later than the one the boot file was
made of: exporting it can outdate the boot file only when it should.
`WholeOrKilled` strengthens `OnlyKillsBlock` with how far `build-vitis.py` has come,
`PlanHolds` gives `SparesUnfinished` what was true when the plan was made, and
`ZipInv` adds to `ZipHoldsBoot` that only a MicroBlaze is copied.

**The embeddedsw repository.** `RepoInv` gives the repository after each step: both
overlays, the later over the earlier, then what the install fills in. That the
directories to be filled, `src` and `data` of every directory above a patch, hold
just the `src` and `data` of the components with a patch (`FilledAreNeeded`) is a fact
about prefixes of paths (`ChildPrefix`). It needs the layout of embeddedsw: patches
are in `src` or `data`, no component has one of these names, and the install has no
files outside of components. Otherwise more would be copied.

**The application's workspace.** `AppInv` says what the sources are after each item
copied: those of the items so far, each from the last of them that has it. One item
more replaces just the files it has, and becomes the last for them. The linker script's
memory for each section is that of the first entry of its kind, which exists because the
memories are listed (`LeastElement`).

**The Yocto flow.** `MarkerMeansConfigured` is stated in its inductive form: besides
the marker it follows the plan of a `--keep-boot`, whose entries all still exist when
they are deleted in the order `build`, `done`, `hw`. `ZipHoldsImages` is inductive as
it stands: gathering an image makes the zip older, and no zip counts that misses one of
the three. `FreshInv` follows the inputs of
an image from file to file: contents only get later, so that an input equal to an old one
did not change in between (`OrderTrue`); a marker no older than its inputs means a
configuration made from them (`ConfigTrue`); what bitbake deploys and what is
gathered is of the snapshot, as far as the inputs still are (`BuildTrue`); and so
are stamped images, whichever of them were already replaced (`StampTrue`).

TLC checks every proved property too, on the instances above. No safety property is
only model-checked; the liveness properties are: `StaleLockReclaimed` and `EveryRunEnds`
(BuildLock), `BusRecovers` (MdioBus), `FramesTaken` and `StopReturns` (TaxiRx),
`FramesFreed`, `QueueWoken` and `ControlReturns` (TaxiTx), `WaitEnds`
(AddrState). Out of the prover's reach, and left to TLC for good: liveness
under fairness and `ENABLED`; what a recursive definition or a fold computes for every
input, which is why the copying of sources is one step per item; modules with
RECURSIVE operators (there are none).

## 5. Findings

1. **Traffic during change_mtu** (`tx_mtu_traffic`, `taxi_mac.c:588`). The drain is
   entered with the queue stopped by `netif_tx_disable`, and comments "queue already
   stopped". But `taxi_tx_complete` wakes any stopped queue that has room, so the
   first completion of the drain lets the stack in again; new frames then land in a
   ring that is being terminated and are submitted to a channel that is being
   released.
2. **Receive slots are lost for good** (`rx_slot_loss`, `taxi_mac.c:449`). A
   resubmission that fails once leaves its slot empty until the next open.
3. **Two runners in one lock** (`lock_race`, `build.py:117`). The lock file is looked for
   and then written: two runners that start together both find it absent and both
   build. `build.py:103` says the lock "lets several 'build all targets' loops run
   concurrently without two of them building the same target".
4. **`all` is no no-op after `clean --keep-boot`** (`keep_boot_rebuild`,
   `make-boot.py:253`). On a MicroBlaze target the boot bitstream is copied with its
   time, which is before the XSA's, so the runner takes it for outdated and rebuilds
   the workspace. `build.py:1515` says `all` is then a no-op.

What the models assume because the code fails without it; flipping the constant in the
run's configuration shows each:

- A client waits before it writes `MDIO_CMD` (`Careful`, `core.sv:274`): a command
  written while busy is queued, where `tb_taxi_rgmii_mac.sv:317` says it is "silently
  ignored". Both drivers wait and are safe either way.
- No edit of the board configuration between the configure script and its marker
  (`MayRaceMarker`, `build.py:1054`): it would be older than the marker and never applied,
  and the images would still be stamped as of the present inputs by the next build.
- No command between the plan of a `--keep-boot` and its answer (`PlanMayAge`,
  `build.py:2047`): the plan is made before the prompt and the lock taken after it, so
  that an unfinished build's files go, or a path that has gone stops the deletion with an
  exception, or a marker outlives its configuration.
- No kill while a zip (`build.py:1071`), or BOOT.BIN (`make-boot.py:299`), is written: the
  truncated file is newer than its sources and passes for current. No kill
  inside the deletion of a Yocto tree (`build.py:1607`): the marker may survive.
  (`Dies`.)

What the models keep, and name in the properties as an exception: a restart of change_mtu
that fails (`upset`, `taxi_mac.c:848`), after which the interface stays up without channels
and the next stop uses them; and a link that comes up just before the DHCP deadline
(`bounced`, `main.c:206`): lwIP's client asks for its lease again, and the port falls back
over a lease it has.

Limits the models state without contradicting the source: frames between the
read of a counter and the write that clears it are missing from the totals
(`taxi_mac.c:949`), and `OnlyWindowLosses` says that nothing else is, as long as the
counter is polled before it wraps; a DMA reset may leave received frames waiting for
the next one (`taxi_macif.c:509`, `:482`), and sent frames referenced until the next one
is sent or the ring is too full; a port that had a lease and lost it waits for lwIP's
client without an address, and never falls back (`main.c:216`); removing
`local.conf.append` changes the inputs but does not make stage_yocto configure again,
the exception in `UpToDateIsTrue`; images without a stamp are adopted on trust; on a MicroBlaze the
zip's age says nothing of a rebuilt bitstream, the exception in `ZipHoldsBoot`, and a
run killed between the two copies leaves a boot directory of two builds, which
`package` takes as it is.

## 6. Not modelled

- In the Linux driver: link state and the watchdog (`tx_timeout` only counts),
  `ethtool` apart from statistics, probe and remove, MAC speed; the AXI DMA reset
  that terminating one channel inflicts on the other; frame contents.
- In the build lock: a pid reused by a program that is not a runner (the lock is
  then respected until that program ends); locks of another host are never
  reclaimed, which is the code's choice.
- In the statistics: the five other counters, which are copies of the one modelled.
- In the bare-metal interface: PHY set-up, the registers of the link poll (its outcome is
  in `AddrState`), cache maintenance, and the other ports, which are independent but for
  the pool and the tick flag.
- In the echo application: start-up, the lwIP timers, the build without DHCP, and the
  callbacks of the echo server.
- In the build runner: the branches no target of this repository takes (IP and HLS
  flows, cfgmem, PetaLinux, Versal and Zynq-7000, processor-less designs); finding
  tools, subprocess plumbing, `status` and `list`, the several targets of one command;
  a plain clean aimed at a target that is being built (it takes no lock); opening the
  IDE, which may move a workspace's time without changing it; edits that are undone;
  the Yocto manifest workspace, mirrors and extra layers.
- In the Vitis scripts: BSP parameters and their fallbacks, application templates,
  `updatemem`, the text of `.bif` files.
- The FSBL, `pre_platform_build.py`, `config/update.py` and the documentation generators:
  a copied loader, and generators of text without state.
- The RGMII interface, clocks and FIFOs, block designs and constraints, the AXI
  handshake, and all of the Taxi library: a submodule that is not part of the sources.

## 7. Plan

Done, the most important behaviour first: the Linux data paths, MDIO, statistics and
the build lock; the bare-metal receive path; the two flows of the build runner with the
scripts they call, and the refinement of `BuiltFrom`; the bare-metal transmit path and
the address state machine; the two queues as refinements of `FrameQueue`; proofs of the
safety of each.

Left: `Datapath`, transmit and receive composed with the engine reset they share: ending
the transmit channel soft-resets the AXI DMA and with it the receive channel
(`taxi_mac.c:777`).
