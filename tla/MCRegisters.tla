---------------------------- MODULE MCRegisters ----------------------------
(***************************************************************************)
(* The two parts of the wrapper's register file that have a protocol, for  *)
(* TLC.  They share no register, so that each is checked by itself: `part' *)
(* is the one a behaviour is about.                                        *)
(***************************************************************************)
EXTENDS HwCounters, MdioBus

VARIABLE part

RegistersInit == CountersInit /\ Init /\ part \in {"counters", "mdio"}
RegistersNext ==
    \/ part = "counters" /\ CountersNext /\ UNCHANGED <<vars, part>>
    \/ part = "mdio" /\ Next /\ UNCHANGED <<counterVars, part>>
RegistersSpec ==
    RegistersInit /\ [][RegistersNext]_<<counterVars, vars, part>> /\ Fairness
=============================================================================
