---------------------------- MODULE MCTypedShim ----------------------------
(***************************************************************************)
(* Instance of TypedShim for TLC: two threads, two contents, an arena with *)
(* room for a long object and two short ones, and one block of libc; each  *)
(* thread holds one object at a time, a call in progress may hold another. *)
(***************************************************************************)
EXTENDS TypedShim, TLC

CONSTANTS h1, t1, t2, c1, c2

MCTypeHashes == {h1}
MCTypeOf == (0 :> NoHash) @@ (1 :> h1)
Symmetry == Permutations({t1, t2}) \cup Permutations({c1, c2})
=============================================================================
