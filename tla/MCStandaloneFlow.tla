-------------------------- MODULE MCStandaloneFlow --------------------------
(* StandaloneFlow for TLC: the repository's two targets. *)
EXTENDS StandaloneFlow

\* A MicroBlaze, and the one that calibrates its DDR4 in a .hwh of its own.
Kcu105 == [family |-> "microblaze", top |-> {"microblaze"}, subs |-> {"microblaze"}]
Zcu104 == [family |-> "zynqmp", top |-> {"zynq_ultra_ps_e"}, subs |-> {}]
AllDesigns == {Kcu105, Zcu104}
MicroBlazeOnly == {Kcu105}

\* Everywhere but while BOOT.BIN or a zip is written.
SafeDies == Steps \ {"idle", "bootgen", "zip"}
=============================================================================
