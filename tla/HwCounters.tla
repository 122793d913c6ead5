----------------------------- MODULE HwCounters -----------------------------
(***************************************************************************)
(* Hardware statistics: one frame counter and the sticky FLAGS of the      *)
(* AXI-Lite wrapper (Vivado/src/hdl/taxi_rgmii_mac_core.sv), and the       *)
(* Linux driver's taxi_get_ethtool_stats, which folds them into 64-bit     *)
(* totals while frames go on arriving.  A counter is cleared by a write;   *)
(* the read that precedes it is a separate bus access.  The six counters   *)
(* are alike and independent, so one is modelled.                          *)
(* The names differ from those of MdioBus, the other part of the wrapper's *)
(* registers: RegisterProofs reasons about both.                           *)
(*                                                                         *)
(* A definition marked "Faulty" is a mistake the code does not make, put   *)
(* in the place of the definition after it to show which property catches  *)
(* it (README).  No specification uses it.                                 *)
(***************************************************************************)
EXTENDS Integers

CONSTANTS
    Flags,      \* the bits of FLAGS
    Width,      \* 2^32: the wrapper's counters wrap
    MaxFrames,  \* bound: frames in a behaviour
    MaxSpells   \* bound: spells of one flag in a behaviour

ASSUME BoundAssumption ==
    /\ Width \in Nat \ {0} /\ MaxFrames \in Nat /\ MaxSpells \in Nat

VARIABLES
    counter,   \* rx_good_cnt_reg
    flags,     \* flags_reg
    place,     \* taxi_get_ethtool_stats: its place in the code
    total,     \* priv->hw_counters[]
    found,     \* the flags it read
    hwFlags,   \* priv->hw_flags[]
    frames,    \* frames so far (history)
    missed,    \* those that came between a read and the clear after it (history)
    spells,    \* of each flag: its events, those up to one clear as one (history)
    unseen     \* flags with an event that no clear has taken yet (history)

hw == <<counter, flags>>
reader == <<place, total, found, hwFlags>>
history == <<frames, missed, spells, unseen>>
counterVars == <<hw, reader, history>>

CountersTyped ==
    /\ counter \in 0..(Width - 1)
    /\ {total, frames, missed} \subseteq 0..MaxFrames
    /\ {flags, found, unseen} \subseteq SUBSET Flags
    /\ {hwFlags, spells} \subseteq [Flags -> 0..MaxSpells]
    /\ place \in {"idle", "clear", "flags", "clear_flags", "count"}

CountersInit ==
    /\ counter = 0 /\ flags = {}
    /\ place = "idle" /\ total = 0 /\ found = {} /\ hwFlags = [f \in Flags |-> 0]
    /\ frames = 0 /\ missed = 0 /\ spells = [f \in Flags |-> 0] /\ unseen = {}

----------------------------------------------------------------------------
(* The wrapper, one clock cycle at a time.  A frame in the cycle of a       *)
(* clearing write counts as before it: "W1C wins" over the counters, while  *)
(* a flag event in that cycle is or-ed in again and counts as after it.     *)

Incremented(n) == (n + 1) % Width

Frame ==
    /\ frames < MaxFrames
    /\ counter' = Incremented(counter)
    /\ frames' = frames + 1
    /\ missed' = IF place = "clear" THEN missed + 1 ELSE missed
    /\ UNCHANGED <<flags, reader, spells, unseen>>

FlagEvent ==
    /\ \E f \in Flags :
          /\ f \notin unseen => spells[f] < MaxSpells
          /\ spells' = IF f \in unseen THEN spells ELSE [spells EXCEPT ![f] = @ + 1]
          /\ flags' = flags \cup {f}
          /\ unseen' = unseen \cup {f}
    /\ UNCHANGED <<counter, reader, frames, missed>>

----------------------------------------------------------------------------
(* taxi_get_ethtool_stats, serialised by rtnl.                              *)

\* Faulty: keeps the last reading instead of the sum.
ReadCounterOverwrites ==
    /\ place = "idle"
    /\ total' = counter
    /\ place' = "clear"
    /\ UNCHANGED <<hw, found, hwFlags, history>>

ReadCounter ==
    /\ place = "idle"
    /\ total' = total + counter
    /\ place' = "clear"
    /\ UNCHANGED <<hw, found, hwFlags, history>>

ClearCounter ==
    /\ place = "clear"
    /\ counter' = 0
    /\ place' = "flags"
    /\ UNCHANGED <<flags, total, found, hwFlags, history>>

ReadFlags ==
    /\ place = "flags"
    /\ found' = flags
    /\ place' = "clear_flags"
    /\ UNCHANGED <<hw, total, hwFlags, history>>

\* Faulty: clears every flag.
ClearFlagsAll ==
    /\ place = "clear_flags"
    /\ flags' = {}
    /\ place' = "count"
    /\ unseen' = unseen \ found
    /\ UNCHANGED <<counter, total, found, hwFlags, frames, missed, spells>>

\* Write-one-to-clear of what was read.
ClearFlags ==
    /\ place = "clear_flags"
    /\ flags' = flags \ found
    /\ place' = "count"
    /\ UNCHANGED <<counter, total, found, hwFlags, frames, missed, spells>>
    /\ unseen' = unseen \ found

\* Faulty: says that the flag was set, not how often.
CountFlagsOnce ==
    /\ place = "count"
    /\ hwFlags' = [f \in Flags |-> IF f \in found THEN 1 ELSE hwFlags[f]]
    /\ found' = {}
    /\ place' = "idle"
    /\ UNCHANGED <<hw, total, history>>

CountFlags ==
    /\ place = "count"
    /\ hwFlags' = [f \in Flags |-> IF f \in found THEN hwFlags[f] + 1 ELSE hwFlags[f]]
    /\ found' = {}
    /\ place' = "idle"
    /\ UNCHANGED <<hw, total, history>>

----------------------------------------------------------------------------
Poll == ReadCounter \/ ClearCounter \/ ReadFlags \/ ClearFlags \/ CountFlags
CountersNext == Frame \/ FlagEvent \/ Poll
CountersSpec == CountersInit /\ [][CountersNext]_counterVars

----------------------------------------------------------------------------
\* The totals are off by no more than the frames that hit a window between
\* the read of a counter and the write that clears it, and by whole turns of
\* the 32-bit counter.
OnlyWindowLosses ==
    LET counted == IF place = "clear" THEN total ELSE total + counter
    IN  (counted + missed - frames) % Width = 0

\* Clearing exactly the flags that were read loses no event: until a poll has
\* it, the flag of an event stays set.
NoFlagLost == unseen \subseteq flags

\* `count how often each was found set': each flag has been counted once for all
\* its events up to a clear, no more and no less, but for what it is about to be
\* counted for and what no poll has found yet.
OneIf(condition) == IF condition THEN 1 ELSE 0
SpellsCounted ==
    \A f \in Flags :
        spells[f] = hwFlags[f] + OneIf(place = "count" /\ f \in found) + OneIf(f \in unseen)

\* taxi_get_ethtool_stats: what the hardware saw and what the totals say agree,
\* frames in the window apart; no flag event is lost to a clear, and of those that
\* one clear takes together exactly one is counted.
CountsTrue == CountersTyped /\ OnlyWindowLosses /\ NoFlagLost /\ SpellsCounted
=============================================================================
