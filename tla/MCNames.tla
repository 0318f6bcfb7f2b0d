------------------------------ MODULE MCNames ------------------------------
(***************************************************************************)
(* The characters and the names that policies are made of in the runs.     *)
(***************************************************************************)
EXTENDS Naturals

MCAlphabet == {"a", "b", "A", "B", "_", "*"}

MCByte ==
  [c \in MCAlphabet |->
     CASE c = "a" -> 1 [] c = "b" -> 2 [] c = "A" -> 3 [] c = "B" -> 4
       [] c = "_" -> 6 [] c = "*" -> 9]

a == <<"a">>
b == <<"b">>
aa == <<"a", "a">>          \* the hash of b
a_b == <<"a", "_", "b">>
aXb == <<"a", "*", "b">>    \* a_b in every generated name
=============================================================================
