------------------------------ MODULE MCTaxiTx ------------------------------
(* TaxiTx for TLC: the sk_buffs are interchangeable. *)
EXTENDS TaxiTx, TLC

FrameSymmetry == Permutations(Frames)
=============================================================================
