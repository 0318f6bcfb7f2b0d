---------------------------- MODULE MCTrustedUse ----------------------------
(***************************************************************************)
(* An instance of TrustedUse for TLC: 5-bit words, an arena of two slots   *)
(* that ends at the last address, two types.                               *)
(***************************************************************************)
EXTENDS TrustedUse, TLC

CONSTANTS h1, h2

MCTypeHashes == {h1, h2}
MCSizes == {0, 5, 8}
MCLengths == {0, 1, 4, 31}

Policy(h, offset, bytes) ==
  [type_hash |-> h, offset |-> offset, bytes |-> bytes]

(* A field; the second field; a use of dynamic size; and offsets that make *)
(* offset + bytes, or base + offset, exceed the last address.              *)
MCAccessPolicies ==
  {Policy(h1, 0, 4), Policy(h1, 4, 4), Policy(h2, 0, 0), Policy(h1, 30, 2),
   Policy(h2, 30, 0)}

MCTypeOf == <<h1, h2>> @@ (0 :> NoHash)
=============================================================================
