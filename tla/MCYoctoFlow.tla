---------------------------- MODULE MCYoctoFlow ----------------------------
(* YoctoFlow for TLC: the steps at which a run may die. *)
EXTENDS YoctoFlow

\* Everywhere but while a zip is written or a tree is deleted.
SafeDies == Steps \ {"zip", "prune"}
=============================================================================
