------------------------- MODULE MCInterspecRuntime -------------------------
(***************************************************************************)
(* Instances of InterspecRuntime for TLC.  A word has 6 bits.              *)
(***************************************************************************)
EXTENDS InterspecRuntime

CONSTANTS h1, h2   \* two type hashes

MCMaxWord == 63
MCTypeHashes == {h1, h2}
(* Arena run: the arena ends at the last address (base + size = MaxWord),  *)
(* has four slots of 8 bytes and a tail that is shorter than a slot.  The  *)
(* sizes are zero, a padded one, an exact one, one byte over a slot, the   *)
(* capacity itself (its rounding up exceeds it) and one whose rounding up  *)
(* would wrap.                                                             *)
ArenaSizes == {0, 5, 8, 9, 39, 60}
ArenaPcs == {4, 8}

(* Registry run: ranges over six program counters.  The arena is one that  *)
(* would run past the last address: the constructor marks it invalid.      *)
RegistrySizes == {8}
RegistryPcs == {0, 1, 2, 3, 5, 6}
=============================================================================
