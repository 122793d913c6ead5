------------------------------ MODULE MCTaxiRx ------------------------------
(* TaxiRx for TLC: the sk_buffs are interchangeable. *)
EXTENDS TaxiRx, TLC

RxSymmetry == Permutations(Skbs)
=============================================================================
