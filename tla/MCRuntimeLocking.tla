-------------------------- MODULE MCRuntimeLocking --------------------------
(***************************************************************************)
(* Instance of RuntimeLocking for TLC: three threads, one of which calls   *)
(* twice, and an arena of two slots, so that a third allocation, and a     *)
(* reallocation that needs a slot, fail.                                   *)
(***************************************************************************)
EXTENDS RuntimeLocking, TLC

CONSTANTS h1, h2, t1, t2, t3

MCTypeHashes == {h1, h2}
MCTypeOf == (0 :> NoHash) @@ (1 :> h1)
MCMaxCalls == (t1 :> 2) @@ (t2 :> 1) @@ (t3 :> 1)
=============================================================================
