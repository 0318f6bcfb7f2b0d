------------------------------ MODULE Ordering -------------------------------
(***************************************************************************)
(* What the Python tools do to lists: [f(x) for x in list if ...], which   *)
(* keeps the order, and sorted(list, key = ...), which is stable.  Both    *)
(* are defined by the rank of an element, without recursion.               *)
(***************************************************************************)
EXTENDS Integers, Sequences, FiniteSets

(* The k-th of some numbers. *)
Nth(numbers, k) ==
  CHOOSE n \in numbers : Cardinality({m \in numbers : m <= n}) = k

(* The elements of a sequence that have these numbers, in their order.     *)
Picked(seq, numbers) ==
  [k \in 1 .. Cardinality(numbers) |-> seq[Nth(numbers, k)]]

(* Tuples are compared from the left. *)
Precedes(s, t) ==
  \E n \in DOMAIN s : s[n] < t[n] /\ \A m \in 1 .. (n - 1) : s[m] = t[m]

(* Where an entry goes: after smaller keys, and after equal ones that came *)
(* before it.                                                              *)
Place(keys, m) ==
  Cardinality({n \in DOMAIN keys :
                 \/ Precedes(keys[n], keys[m])
                 \/ keys[n] = keys[m] /\ n <= m})

(* keys has the key of each entry. *)
Sorted(entries, keys) ==
  [p \in DOMAIN entries |->
     entries[CHOOSE m \in DOMAIN entries : Place(keys, m) = p]]
=============================================================================
