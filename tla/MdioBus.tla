------------------------------ MODULE MdioBus ------------------------------
(***************************************************************************)
(* PHY management: the MDIO registers of the AXI-Lite wrapper              *)
(* (Vivado/src/hdl/taxi_rgmii_mac_core.sv) between the Taxi MDIO master    *)
(* and one client, either the mii_bus callbacks of the Linux driver or the *)
(* taxi_mac_mdio_* functions of the bare-metal one.  A client waits with a *)
(* timeout, so it may go on while an earlier command is on the wire.       *)
(*                                                                         *)
(* A command is a model value, and the data a read returns is the command  *)
(* it answers.  The Taxi master is external.                               *)
(*                                                                         *)
(* A definition marked "Faulty" is a mistake the code does not make, put   *)
(* in the place of the definition after it to show which property catches  *)
(* it (README).  No specification uses it.                                 *)
(***************************************************************************)
EXTENDS FiniteSets

CONSTANTS
    Cmds, Reads,  \* Clause 22 commands, and those of them that read
    None,
    Drivers,      \* "linux", "baremetal" or both
    Careful       \* the client waits for an idle bus before a command

ASSUME CmdAssumption == Reads \subseteq Cmds /\ None \notin Cmds
ASSUME DriverAssumption == Drivers \subseteq {"linux", "baremetal"} /\ Careful \in BOOLEAN

VARIABLES
    cmd, cmdValid,   \* mdio_cmd_reg, mdio_cmd_valid_reg
    rdata, rdValid,  \* mdio_rdata_reg, mdio_rd_valid_reg
    drop,            \* mdio_cmd_drop_reg
    master,          \* the command on the wire, or None
    answered,        \* its read data has been handed over
    last,            \* the last command the master finished (history)
    driver,          \* the client's driver, chosen once
    pc, mine,        \* the client: its place in the code, and its command
    got,             \* the data it read, or None
    timedOut         \* its last operation timed out (history)

regs == <<cmd, cmdValid, rdata, rdValid, drop>>
wire == <<master, answered, last>>
client == <<driver, pc, mine, got, timedOut>>
vars == <<regs, wire, client>>

Steps == {"ok", "error", "wait_idle", "cmd", "wait_rdv", "wait_done",
          "check_drop", "check_valid", "rdata"}

TypeOK ==
    /\ {cmd, master, last, mine} \subseteq Cmds \cup {None}
    /\ {rdata, got} \subseteq Reads \cup {None}
    /\ {cmdValid, rdValid, drop, answered, timedOut} \subseteq BOOLEAN
    /\ pc \in Steps /\ driver \in Drivers

Init ==
    /\ cmd = None /\ cmdValid = FALSE /\ drop = FALSE
    /\ rdata = None /\ rdValid = FALSE
    /\ master = None /\ answered = FALSE /\ last = None
    /\ driver \in Drivers
    /\ pc = "ok" /\ mine = None /\ got = None /\ timedOut = FALSE

\* Faulty: the busy output of the master alone.
BusyOnWire == master # None
\* MDIO_STATUS[0]
Busy == master # None \/ cmdValid

----------------------------------------------------------------------------
(* The wrapper and the master.                                             *)

HandOffDue == cmdValid /\ master = None

\* Faulty: mdio_cmd_valid_reg is not cleared.
HandOffRepeated ==
    /\ HandOffDue
    /\ master' = cmd /\ answered' = FALSE
    /\ UNCHANGED <<regs, last, client>>

\* The master takes a command only when it is idle.
HandOff ==
    /\ HandOffDue
    /\ cmdValid' = FALSE
    /\ master' = cmd /\ answered' = FALSE
    /\ UNCHANGED <<cmd, rdata, rdValid, drop, last, client>>

\* The data of a read arrives some time before the master is idle again.
ReadData ==
    /\ master \in Reads /\ ~answered
    /\ rdata' = master /\ rdValid' = TRUE
    /\ answered' = TRUE
    /\ UNCHANGED <<cmd, cmdValid, drop, master, last, client>>

MasterDone ==
    /\ master # None /\ (master \in Reads => answered)
    /\ last' = master /\ master' = None
    /\ UNCHANGED <<regs, answered, client>>

\* A write to MDIO_CMD: one command can be queued while the bus is busy, the
\* next is dropped.  A hand-off that is due happens in the same cycle, which
\* is the same as before the write.
WriteCmd(c) ==
    IF cmdValid
    THEN drop' = TRUE /\ UNCHANGED <<cmd, cmdValid, rdata, rdValid>>
    ELSE /\ cmd' = c /\ cmdValid' = TRUE
         /\ rdValid' = FALSE /\ drop' = FALSE
         /\ UNCHANGED rdata

----------------------------------------------------------------------------
(* The client.  A poll loop ends when its condition holds, or times out    *)
(* with the condition still false.                                         *)

Goto(step) == pc' = step /\ UNCHANGED <<driver, mine, got, timedOut, regs, wire>>
TimeOut == /\ pc' = "error" /\ timedOut' = TRUE
           /\ UNCHANGED <<driver, mine, got, regs, wire>>

Begin ==
    /\ pc \in {"ok", "error"}
    /\ \E c \in Cmds \ {cmd, rdata, master, last, mine} : mine' = c
    /\ got' = None /\ timedOut' = FALSE
    /\ pc' = IF Careful THEN "wait_idle" ELSE "cmd"
    /\ UNCHANGED <<driver, regs, wire>>

\* Faulty: the result of the wait is not looked at.
WaitIdleIgnored == pc = "wait_idle" /\ Goto("cmd")

WaitIdle ==
    /\ pc = "wait_idle"
    /\ IF Busy THEN TimeOut ELSE Goto("cmd")

IssueCmd ==
    /\ pc = "cmd" /\ ~HandOffDue
    /\ WriteCmd(mine)
    /\ pc' = IF driver = "linux" /\ mine \in Reads THEN "wait_rdv" ELSE "wait_done"
    /\ UNCHANGED <<driver, mine, got, timedOut, wire>>

\* taxi_mdio_read of the Linux driver: idle and RD_VALID in one status word.
WaitReadValid ==
    /\ pc = "wait_rdv"
    /\ IF ~Busy /\ rdValid THEN Goto("rdata") ELSE TimeOut

\* The wait after the command, of a Linux write and of taxi_mac_mdio_cmd.
WaitDone ==
    /\ pc = "wait_done"
    /\ IF Busy THEN TimeOut
       ELSE Goto(IF driver = "linux" THEN "ok" ELSE "check_drop")

CheckDropped ==
    /\ pc = "check_drop"
    /\ Goto(IF drop THEN "error" ELSE IF mine \in Reads THEN "check_valid" ELSE "ok")

CheckReadValid ==
    /\ pc = "check_valid"
    /\ Goto(IF rdValid THEN "rdata" ELSE "error")

ReadRdata ==
    /\ pc = "rdata"
    /\ got' = rdata /\ pc' = "ok"
    /\ UNCHANGED <<driver, mine, timedOut, regs, wire>>

----------------------------------------------------------------------------

Master == HandOff \/ ReadData \/ MasterDone
Client == WaitIdle \/ IssueCmd \/ WaitReadValid \/ WaitDone
              \/ CheckDropped \/ CheckReadValid \/ ReadRdata
Next == Master \/ Begin \/ Client

Spec == Init /\ [][Next]_vars

\* The master finishes what it starts, and the client's loops are bounded.
Fairness == WF_vars(HandOff) /\ WF_vars(ReadData) /\ WF_vars(MasterDone) /\ WF_vars(Client)
FairSpec == Spec /\ Fairness

----------------------------------------------------------------------------
\* A read that succeeds returns the answer to its own command, also after
\* earlier operations timed out and their commands finished late.
ReadGetsOwnAnswer == pc = "ok" /\ mine \in Reads => got = mine

\* An operation that succeeds has been carried out: its command is the last
\* that was on the wire.
OkMeansDone == pc = "ok" => last = mine

\* The bare-metal driver fails only by timing out: its checks for a dropped
\* command and for missing read data never find one.
OnlyTimeoutsFail == pc = "error" => timedOut

\* What a driver reports of an operation is true.
OutcomeTrue == TypeOK /\ ReadGetsOwnAnswer /\ OkMeansDone /\ OnlyTimeoutsFail

\* A late command does not wedge the bus: it becomes idle again.
BusRecovers == Busy ~> ~Busy
=============================================================================
