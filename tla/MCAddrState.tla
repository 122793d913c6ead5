---------------------------- MODULE MCAddrState ----------------------------
(* AddrState for TLC: Wrap is no multiple of PollTicks, like 2^32 and 20. *)
EXTENDS AddrState
=============================================================================
