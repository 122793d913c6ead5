------------------------------ MODULE BuiltFrom ------------------------------
(***************************************************************************)
(* What a build promises of a product: whenever it is made, it is made     *)
(* from the source that is there, and it changes in no other way but by    *)
(* being lost.  Versions are numbers, 0 stands for "absent".               *)
(***************************************************************************)
EXTENDS Naturals

VARIABLES source, product

Init == source = 0 /\ product = 0

\* The source is built, rebuilt or removed; the product stays what it was.
Replace == source' \in Nat /\ UNCHANGED product
Make == source # 0 /\ product' = source /\ UNCHANGED source
Lose == product' = 0 /\ UNCHANGED source
Next == Replace \/ Make \/ Lose

Spec == Init /\ [][Next]_<<source, product>>
=============================================================================
