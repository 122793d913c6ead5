--------------------------- MODULE RegisterProofs ---------------------------
(***************************************************************************)
(* Proofs about the two parts of the wrapper's register file that have a   *)
(* protocol: the statistics (HwCounters), for any width of the counters    *)
(* and any number of frames and flags, and MDIO (MdioBus), for any         *)
(* commands and either driver.  They share no register and no variable.    *)
(***************************************************************************)
EXTENDS HwCounters, MdioBus, DataLemmas

----------------------------------------------------------------------------
(* Hardware statistics.                                                    *)

\* No frame is in the totals that did not arrive, which bounds them.
NothingInvented ==
    total + missed + (IF place = "clear" THEN 0 ELSE counter) <= frames

\* A flag is set as long as no clear has taken its event, and what a poll has
\* found is set until it clears it.
EventBehindFlag ==
    /\ flags = unseen
    /\ place \notin {"clear_flags", "count"} => found = {}
    /\ place = "clear_flags" => found \subseteq flags

StatInv ==
    /\ CountersTyped /\ OnlyWindowLosses /\ NoFlagLost
    /\ NothingInvented /\ EventBehindFlag /\ SpellsCounted

\* A turn of the counter leaves the totals right modulo its width.
LEMMA Turned ==
    ASSUME NEW W \in Nat \ {0}, NEW x \in Int, x % W = 0
    PROVE  (x - W) % W = 0
<1> DEFINE k == -1
<1>1. k \in Int /\ W * k = -W
  OBVIOUS
<1> HIDE DEF k
<1>2. (x + W * k) % W = x % W
  BY <1>1, ModAddMultiple
<1>3. x + W * k = x - W
  BY <1>1
<1> QED BY <1>2, <1>3

LEMMA StatInit == CountersInit => StatInv
<1> SUFFICES ASSUME CountersInit PROVE StatInv
  OBVIOUS
<1>1. Width \in Nat \ {0} /\ MaxFrames \in Nat /\ MaxSpells \in Nat
  BY BoundAssumption
<1>2. CountersTyped
  BY <1>1 DEF CountersInit, CountersTyped
<1>3. 0 % Width = 0
  BY <1>1, ModSmall
<1>4. OnlyWindowLosses /\ NothingInvented
  BY <1>3 DEF CountersInit, OnlyWindowLosses, NothingInvented
<1>5. NoFlagLost /\ EventBehindFlag /\ SpellsCounted
  BY DEF CountersInit, NoFlagLost, EventBehindFlag, SpellsCounted, OneIf
<1> QED BY <1>2, <1>4, <1>5 DEF StatInv

\* A frame is counted, or falls into the window, or is a whole turn.
LEMMA FrameCounted == StatInv /\ Frame => StatInv'
<1> SUFFICES ASSUME StatInv, Frame PROVE StatInv'
  OBVIOUS
<1>1. Width \in Nat \ {0} /\ MaxFrames \in Nat /\ MaxSpells \in Nat
  BY BoundAssumption
<1>2. /\ counter \in 0..(Width - 1) /\ total \in Nat /\ missed \in Nat /\ frames \in Nat
      /\ frames < MaxFrames /\ frames' = frames + 1 /\ total' = total /\ place' = place
      /\ counter' = (counter + 1) % Width
      /\ missed' = IF place = "clear" THEN missed + 1 ELSE missed
  BY <1>1 DEF StatInv, CountersTyped, Frame, Incremented, reader
<1>3. counter' = counter + 1 \/ counter' = counter + 1 - Width
  <2>1. 1 \in 0..Width
    BY <1>1
  <2> QED BY <1>1, <1>2, <2>1, ModSum
<1>4. counter' \in 0..(Width - 1) /\ counter' <= counter + 1
  <2>1. (counter + 1) % Width \in 0..(Width - 1)
    BY <1>1, <1>2, DivMod
  <2> QED BY <1>1, <1>2, <1>3, <2>1
<1>5. NothingInvented'
  BY <1>1, <1>2, <1>4 DEF StatInv, NothingInvented
<1>6. CountersTyped'
  <2>1. missed' \in 0..MaxFrames /\ frames' \in 0..MaxFrames
    BY <1>1, <1>2, <1>4, <1>5 DEF NothingInvented
  <2> QED BY <1>4, <2>1 DEF StatInv, CountersTyped, Frame, reader
<1>7. OnlyWindowLosses'
  <2> DEFINE x == (IF place = "clear" THEN total ELSE total + counter) + missed - frames
             y == (IF place = "clear" THEN total ELSE total + counter') + missed' - frames'
  <2>1. x \in Int /\ x % Width = 0
    BY <1>2 DEF StatInv, OnlyWindowLosses
  <2>2. y = x \/ y = x - Width
    BY <1>1, <1>2, <1>3
  <2> HIDE DEF x, y
  <2>3. y % Width = 0
    BY <1>1, <2>1, <2>2, Turned
  <2> QED BY <1>2, <2>3 DEF OnlyWindowLosses, y
<1>8. NoFlagLost' /\ EventBehindFlag' /\ SpellsCounted'
  BY DEF StatInv, NoFlagLost, EventBehindFlag, SpellsCounted, OneIf, Frame, reader
<1> QED BY <1>5, <1>6, <1>7, <1>8 DEF StatInv

\* An event stays until a poll has it, also one between the read and the clear.
LEMMA FlagSet == StatInv /\ FlagEvent => StatInv'
<1> SUFFICES ASSUME StatInv, FlagEvent PROVE StatInv'
  OBVIOUS
<1>1. PICK f \in Flags :
         /\ f \notin unseen => spells[f] < MaxSpells
         /\ spells' = IF f \in unseen THEN spells ELSE [spells EXCEPT ![f] = @ + 1]
         /\ flags' = flags \cup {f}
         /\ unseen' = unseen \cup {f}
  BY DEF FlagEvent
<1>2. UNCHANGED <<counter, reader, frames, missed>>
  BY DEF FlagEvent
<1>3. MaxSpells \in Nat /\ spells \in [Flags -> 0..MaxSpells]
  BY BoundAssumption DEF StatInv, CountersTyped
<1>4. CountersTyped'
  BY <1>1, <1>2, <1>3 DEF StatInv, CountersTyped, reader
<1>5. OnlyWindowLosses' /\ NothingInvented'
  BY <1>2 DEF StatInv, OnlyWindowLosses, NothingInvented, reader
<1>6. NoFlagLost' /\ EventBehindFlag'
  BY <1>1, <1>2 DEF StatInv, NoFlagLost, EventBehindFlag, reader
<1>7. SpellsCounted'
  <2> SUFFICES ASSUME NEW g \in Flags
               PROVE  spells'[g] = hwFlags[g] + OneIf(place = "count" /\ g \in found)
                                              + OneIf(g \in unseen')
    BY <1>2 DEF SpellsCounted, reader
  <2>1. /\ spells[g] = hwFlags[g] + OneIf(place = "count" /\ g \in found) + OneIf(g \in unseen)
        /\ hwFlags[g] \in Nat
    BY <1>3 DEF StatInv, SpellsCounted, CountersTyped
  <2>2. CASE g = f /\ f \notin unseen
    <3>1. spells'[g] = spells[g] + 1 /\ g \notin unseen /\ g \in unseen'
      BY <1>1, <1>3, <2>2
    <3> QED BY <2>1, <3>1 DEF OneIf
  <2>3. CASE g # f \/ f \in unseen
    <3>1. spells'[g] = spells[g] /\ (g \in unseen' <=> g \in unseen)
      BY <1>1, <1>3, <2>3
    <3> QED BY <2>1, <3>1 DEF OneIf
  <2> QED BY <2>2, <2>3
<1> QED BY <1>4, <1>5, <1>6, <1>7 DEF StatInv

\* A reading moves what is counted into the total, and the clear, which takes the
\* counter out of it, comes when nothing counts it any more.
LEMMA CounterPolled == StatInv /\ (ReadCounter \/ ClearCounter) => StatInv'
<1> SUFFICES ASSUME StatInv, ReadCounter \/ ClearCounter PROVE StatInv'
  OBVIOUS
<1>1. Width \in Nat \ {0} /\ MaxFrames \in Nat
  BY BoundAssumption
<1>2. counter \in 0..(Width - 1) /\ total \in Nat /\ missed \in Nat /\ frames \in 0..MaxFrames
  BY <1>1 DEF StatInv, CountersTyped
<1>3. CASE ReadCounter
  <2>1. /\ place = "idle" /\ total' = total + counter /\ place' = "clear"
        /\ UNCHANGED <<hw, found, hwFlags, history>>
    BY <1>3 DEF ReadCounter
  <2>2. NothingInvented'
    BY <1>2, <2>1 DEF StatInv, NothingInvented, hw, history
  <2>3. total' \in 0..MaxFrames
    BY <1>1, <1>2, <2>1 DEF StatInv, NothingInvented
  <2>4. CountersTyped'
    BY <2>1, <2>3 DEF StatInv, CountersTyped, hw, history
  <2>5. OnlyWindowLosses'
    BY <2>1 DEF StatInv, OnlyWindowLosses, hw, history
  <2>6. NoFlagLost' /\ EventBehindFlag' /\ SpellsCounted'
    BY <2>1 DEF StatInv, NoFlagLost, EventBehindFlag, SpellsCounted, OneIf, hw, history
  <2> QED BY <2>2, <2>4, <2>5, <2>6 DEF StatInv
<1>4. CASE ClearCounter
  <2>1. /\ place = "clear" /\ counter' = 0 /\ place' = "flags"
        /\ UNCHANGED <<flags, total, found, hwFlags, history>>
    BY <1>4 DEF ClearCounter
  <2>2. total + 0 = total
    BY <1>2
  <2>3. CountersTyped'
    BY <1>1, <2>1 DEF StatInv, CountersTyped, history
  <2>4. OnlyWindowLosses'
    BY <2>1, <2>2 DEF StatInv, OnlyWindowLosses, history
  <2>5. NothingInvented'
    BY <1>2, <2>1 DEF StatInv, NothingInvented, history
  <2>6. NoFlagLost' /\ EventBehindFlag' /\ SpellsCounted'
    BY <2>1 DEF StatInv, NoFlagLost, EventBehindFlag, SpellsCounted, OneIf, history
  <2> QED BY <2>3, <2>4, <2>5, <2>6 DEF StatInv
<1> QED BY <1>3, <1>4

\* The flags that were read are cleared, and then counted once.
LEMMA FlagsPolled == StatInv /\ (ReadFlags \/ ClearFlags \/ CountFlags) => StatInv'
<1> SUFFICES ASSUME StatInv, ReadFlags \/ ClearFlags \/ CountFlags PROVE StatInv'
  OBVIOUS
<1>1. MaxSpells \in Nat /\ spells \in [Flags -> 0..MaxSpells] /\ hwFlags \in [Flags -> 0..MaxSpells]
  BY BoundAssumption DEF StatInv, CountersTyped
<1>2. OnlyWindowLosses' /\ NothingInvented'
  BY DEF StatInv, OnlyWindowLosses, NothingInvented, ReadFlags, ClearFlags, CountFlags, hw, history
<1>3. CASE ReadFlags
  <2>1. CountersTyped' /\ NoFlagLost'
    BY <1>3 DEF StatInv, CountersTyped, NoFlagLost, ReadFlags, hw, history
  <2>2. EventBehindFlag' /\ SpellsCounted'
    BY <1>3 DEF StatInv, EventBehindFlag, SpellsCounted, OneIf, ReadFlags, hw, history
  <2> QED BY <1>2, <2>1, <2>2 DEF StatInv
<1>4. CASE ClearFlags
  <2>1. CountersTyped' /\ NoFlagLost' /\ EventBehindFlag'
    BY <1>4 DEF StatInv, CountersTyped, NoFlagLost, EventBehindFlag, ClearFlags
  <2>2. SpellsCounted'
    <3>1. /\ place = "clear_flags" /\ place' = "count" /\ found \subseteq unseen
          /\ unseen' = unseen \ found /\ UNCHANGED <<found, hwFlags, spells>>
      BY <1>4 DEF StatInv, EventBehindFlag, ClearFlags
    <3> SUFFICES ASSUME NEW f \in Flags
                 PROVE  spells[f] = hwFlags[f] + OneIf(f \in found) + OneIf(f \in unseen \ found)
      BY <3>1 DEF SpellsCounted
    <3>2. hwFlags[f] \in Nat /\ spells[f] = hwFlags[f] + 0 + OneIf(f \in unseen)
      BY <1>1, <3>1 DEF StatInv, SpellsCounted, OneIf
    <3> QED BY <3>1, <3>2 DEF OneIf
  <2> QED BY <1>2, <2>1, <2>2 DEF StatInv
<1>5. CASE CountFlags
  <2>1. /\ place = "count" /\ found' = {} /\ place' = "idle"
        /\ hwFlags' = [f \in Flags |-> IF f \in found THEN hwFlags[f] + 1 ELSE hwFlags[f]]
        /\ UNCHANGED <<hw, total, history>>
    BY <1>5 DEF CountFlags
  <2>2. ASSUME NEW f \in Flags
        PROVE  hwFlags'[f] \in 0..MaxSpells /\ spells[f] = hwFlags'[f] + 0 + OneIf(f \in unseen)
    <3>1. hwFlags[f] \in Nat /\ spells[f] \in 0..MaxSpells
      BY <1>1
    <3>2. spells[f] = hwFlags[f] + OneIf(f \in found) + OneIf(f \in unseen)
      BY <2>1 DEF StatInv, SpellsCounted
    <3>3. hwFlags'[f] = hwFlags[f] + OneIf(f \in found)
      BY <2>1, <3>1 DEF OneIf
    <3>4. hwFlags'[f] \in Nat /\ OneIf(f \in unseen) \in Nat
      BY <3>1, <3>3 DEF OneIf
    <3> QED BY <1>1, <3>1, <3>2, <3>3, <3>4
  <2>3. CountersTyped'
    <3>1. hwFlags' \in [Flags -> 0..MaxSpells]
      BY <2>1, <2>2
    <3> QED BY <2>1, <3>1 DEF StatInv, CountersTyped, hw, history
  <2>4. NoFlagLost' /\ EventBehindFlag'
    BY <2>1 DEF StatInv, NoFlagLost, EventBehindFlag, hw, history
  <2>5. SpellsCounted'
    <3>1. spells' = spells /\ unseen' = unseen
      BY <2>1 DEF history
    <3> QED BY <2>1, <2>2, <3>1 DEF SpellsCounted, OneIf
  <2> QED BY <1>2, <2>3, <2>4, <2>5 DEF StatInv
<1> QED BY <1>3, <1>4, <1>5

LEMMA StatStep == StatInv /\ [CountersNext]_counterVars => StatInv'
<1>1. StatInv /\ UNCHANGED counterVars => StatInv'
  BY DEF counterVars, hw, reader, history, StatInv, CountersTyped, OnlyWindowLosses, NoFlagLost,
         NothingInvented, EventBehindFlag, SpellsCounted
<1> QED BY <1>1, FrameCounted, FlagSet, CounterPolled, FlagsPolled DEF CountersNext, Poll

\* What the hardware saw and what taxi_get_ethtool_stats has totalled agree, but
\* for frames between a read and its clear and for whole turns of the counter; of
\* the flag events that one clear takes together exactly one is counted.
THEOREM StatisticsTrue == CountersSpec => []CountsTrue
<1>1. StatInv => CountsTrue
  BY DEF StatInv, CountsTrue
<1> QED BY StatInit, StatStep, <1>1, PTL DEF CountersSpec

----------------------------------------------------------------------------
(* MDIO: a client that waits for an idle bus before its command never takes *)
(* the answer to another for its own, whatever timed out before.            *)

\* The steps between a command and the end of its operation.
Waiting == {"wait_rdv", "wait_done"}
Checking == {"check_drop", "check_valid", "rdata"}

\* Nothing but the client's command is in the registers or on the wire.
OwnBus ==
    /\ ~drop
    /\ cmdValid => cmd = mine
    /\ master \in {None, mine}
    /\ ~Busy => last = mine
    /\ rdValid => rdata = mine
    /\ mine \in Reads /\ (~Busy \/ (master # None /\ answered)) => rdValid

\* A command is issued on an idle bus, and the bus is its own until the
\* operation ends, in success or by a timeout.
BusInv ==
    /\ TypeOK
    /\ cmdValid => master = None
    /\ pc \in {"wait_idle", "cmd"} \cup Waiting \cup Checking => mine \in Cmds
    /\ pc \in {"cmd", "ok"} \cup Checking => ~Busy
    /\ pc \in Waiting \cup Checking => OwnBus
    /\ pc \in {"wait_rdv", "check_valid", "rdata"} => mine \in Reads
    /\ pc = "wait_done" /\ driver = "linux" => mine \notin Reads
    /\ pc = "ok" => last = mine /\ (mine \in Reads => got = mine)
    /\ pc = "error" => timedOut

LEMMA BusInit ==
    ASSUME Init
    PROVE  BusInv
<1>1. None \notin Reads
  BY CmdAssumption
<1> QED BY <1>1 DEF Init, BusInv, TypeOK, Steps, Busy, Waiting, Checking

\* The master works on what is in the registers; an idle bus stays idle.
LEMMA MasterStep ==
    ASSUME BusInv, Master
    PROVE  BusInv'
<1> USE DEF BusInv, TypeOK, client, regs, Busy, OwnBus, Waiting, Checking
<1>1. CASE HandOff
  BY <1>1, CmdAssumption DEF HandOff, HandOffDue
<1>2. CASE ReadData
  BY <1>2, CmdAssumption DEF ReadData
<1>3. CASE MasterDone
  BY <1>3, CmdAssumption DEF MasterDone
<1> QED BY <1>1, <1>2, <1>3 DEF Master

\* The client.
LEMMA ClientStep ==
    ASSUME Careful, BusInv, Begin \/ Client
    PROVE  BusInv'
<1> USE DEF BusInv, TypeOK, wire, regs, Busy, OwnBus, Waiting, Checking, Steps
<1>1. CASE Begin
  BY <1>1 DEF Begin
<1>2. CASE WaitIdle
  BY <1>2 DEF WaitIdle, Goto, TimeOut
<1>3. CASE IssueCmd
  <2>1. ~cmdValid /\ master = None /\ mine \in Cmds /\ mine # None
    BY <1>3, CmdAssumption DEF IssueCmd
  <2>2. /\ cmd' = mine /\ cmdValid' = TRUE /\ rdValid' = FALSE /\ drop' = FALSE
        /\ UNCHANGED <<rdata, driver, mine, got, timedOut, wire>>
    BY <1>3, <2>1 DEF IssueCmd, WriteCmd
  <2>3. /\ pc' \in Waiting /\ (pc' = "wait_rdv" => mine \in Reads)
        /\ pc' = "wait_done" /\ driver = "linux" => mine \notin Reads
    BY <1>3 DEF IssueCmd
  <2> QED BY <2>1, <2>2, <2>3
<1>4. CASE WaitReadValid
  BY <1>4 DEF WaitReadValid, Goto, TimeOut
<1>5. CASE WaitDone
  BY <1>5 DEF WaitDone, Goto, TimeOut
<1>6. CASE CheckDropped
  BY <1>6 DEF CheckDropped, Goto
<1>7. CASE CheckReadValid
  BY <1>7 DEF CheckReadValid, Goto
<1>8. CASE ReadRdata
  BY <1>8 DEF ReadRdata
<1> QED BY <1>1, <1>2, <1>3, <1>4, <1>5, <1>6, <1>7, <1>8 DEF Client

\* What either driver reports of an operation is true: success means that its
\* own command was carried out and, of a read, that the data is its answer;
\* only a timeout fails (taxi_mdio_read, taxi_mac_mdio_cmd).
THEOREM MdioOutcomeTrue ==
    ASSUME Careful
    PROVE  Spec => []OutcomeTrue
<1>1. Init => BusInv
  BY BusInit
<1>2. BusInv /\ [Next]_vars => BusInv'
  <2> SUFFICES ASSUME BusInv, [Next]_vars PROVE BusInv'
    OBVIOUS
  <2>1. CASE Master
    BY <2>1, MasterStep
  <2>2. CASE Begin \/ Client
    BY <2>2, ClientStep
  <2>3. CASE UNCHANGED vars
    BY <2>3 DEF vars, regs, wire, client, BusInv, TypeOK,
                OwnBus, Busy
  <2> QED BY <2>1, <2>2, <2>3 DEF Next
<1>3. BusInv => OutcomeTrue
  BY DEF BusInv, OutcomeTrue, ReadGetsOwnAnswer, OkMeansDone, OnlyTimeoutsFail
<1> QED BY <1>1, <1>2, <1>3, PTL DEF Spec
=============================================================================
