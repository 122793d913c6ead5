------------------------------ MODULE MCMacif ------------------------------
(***************************************************************************)
(* The two halves of a port of the bare-metal interface, for TLC.  All     *)
(* they share is the reset after a DMA error, which each has as an action  *)
(* of its own (TxDmaError, RxDmaError), so that each is checked by itself: *)
(* `half' is the one a behaviour is about.                                 *)
(*                                                                         *)
(* Chains have one, two and two segments; pbufs are interchangeable.       *)
(***************************************************************************)
EXTENDS MacifRx, MacifTx, TLC

CONSTANTS c1, c2, c3

Shapes == c1 :> 1 @@ c2 :> 2 @@ c3 :> 2
PbufSymmetry == Permutations(Pbufs)

VARIABLE half

PortInit == Init /\ TxInit /\ half \in {"receive", "transmit"}
PortNext ==
    \/ half = "receive" /\ Next /\ UNCHANGED <<txVars, half>>
    \/ half = "transmit" /\ TxNext /\ UNCHANGED <<vars, half>>
PortSpec == PortInit /\ [][PortNext]_<<vars, txVars, half>>
=============================================================================
