----------------------------- MODULE TrustedUse -----------------------------
(***************************************************************************)
(* Trusted code T that consumes pointers returned by the sandbox U, with   *)
(* the access checks that the generators emit into interspec_t_policy.h:   *)
(*   checked_access          tools/generate_policy.py                      *)
(*   checked_dynamic_access  tools/generate_boundary_policy.py             *)
(*   check                   tools/generate_wasm_boundary_policy.py        *)
(*                                                                         *)
(* A check is one Runtime call; the bytes are used later, after the lock   *)
(* was given back.  Between the two, callbacks of U (other threads, or U   *)
(* called again by T) allocate, reallocate and release.                    *)
(***************************************************************************)
EXTENDS InterspecRuntime

CONSTANTS
  Consumers,       \* threads of T between a check and a use
  AccessPolicies,  \* kUse...: [type_hash, offset, bytes]
  Lengths,         \* lengths that T passes for a use of dynamic size
  TypeOf           \* the registered types: TypeId -> type_hash or NoHash

ASSUME UseAssumption ==
  /\ AccessPolicies \subseteq
       [type_hash : TypeHashes, offset : Words, bytes : Words]
  /\ Lengths \subseteq Words
  /\ TypeOf \in [TypeIds -> TypeHashes \cup {NoHash}]

VARIABLE held   \* consumer -> the range it was granted, or NotHolding

useVars == <<vars, held>>

NotHolding == [address |-> 0, bytes |-> 0, owner |-> {}]

UseTypeOK ==
  /\ TypeOK
  /\ held \in [Consumers -> [address : Words, bytes : Words,
                             owner : SUBSET Allocation]]

-----------------------------------------------------------------------------
(* The generated checks. *)

Refused(result) == [result |-> result, address |-> 0, bytes |-> 0]

(* Mutant: the sum is formed without looking for a carry. *)
Access_NoCarryCheck(base, offset, bytes, type_hash) ==
  LET result == Check(base, Wrap(offset + bytes), type_hash) IN
  IF result # "ok" THEN Refused(result)
  ELSE [result |-> "ok", address |-> Wrap(base + offset), bytes |-> bytes]

(* Mutant: the length alone is checked, from base on. *)
Access_LengthOnly(base, offset, bytes, type_hash) ==
  IF offset > MaxWord - bytes THEN Refused("out_of_bounds")
  ELSE LET result == Check(base, bytes, type_hash) IN
       IF result # "ok" THEN Refused(result)
       ELSE [result |-> "ok", address |-> Wrap(base + offset), bytes |-> bytes]

(* The body that the three checks share. *)
Access(base, offset, bytes, type_hash) ==
  IF offset > MaxWord - bytes THEN Refused("out_of_bounds")
  ELSE LET result == Check(base, offset + bytes, type_hash) IN
       IF result # "ok" THEN Refused(result)
       ELSE [result |-> "ok", address |-> Wrap(base + offset), bytes |-> bytes]

checked_access(base, policy) ==
  Access(base, policy.offset, policy.bytes, policy.type_hash)

checked_dynamic_access(base, dynamic_bytes, policy) ==
  IF policy.bytes # 0 THEN Refused("out_of_bounds")
  ELSE Access(base, policy.offset, dynamic_bytes, policy.type_hash)

(* policy.bytes ? policy.bytes : dynamic_bytes *)
wasm_bytes(dynamic_bytes, policy) ==
  IF policy.bytes # 0 THEN policy.bytes ELSE dynamic_bytes

wasm_check(base, dynamic_bytes, policy) ==
  Access(base, policy.offset, wasm_bytes(dynamic_bytes, policy),
         policy.type_hash).result

-----------------------------------------------------------------------------
(* T asks for a range and keeps it.  owner is not in the code: it records  *)
(* the allocation that vouched for the range.                              *)
Grab(c, base, access) ==
  /\ held[c] = NotHolding
  /\ access.result = "ok"
  /\ held' = [held EXCEPT ![c] = [address |-> access.address,
                                  bytes |-> access.bytes,
                                  owner |-> FindAllocation(base)]]
  /\ UNCHANGED vars

CheckFixed(c, base, policy) == Grab(c, base, checked_access(base, policy))

CheckDynamic(c, base, length, policy) ==
  Grab(c, base, checked_dynamic_access(base, length, policy))

(* T reads or copies the range, and forgets it. *)
UseRange(c) ==
  /\ held[c] # NotHolding
  /\ held' = [held EXCEPT ![c] = NotHolding]
  /\ UNCHANGED vars

(* Callbacks of U. *)
SandboxCall ==
  /\ \/ \E size \in Sizes, id \in SiteIds : AllocateFromSite(size, id)
     \/ \E ptr \in Words : Release(ptr)
     \/ \E ptr \in Words, size \in Sizes : Reallocate(ptr, size)
  /\ UNCHANGED held

UseInit ==
  /\ AfterStartUp(TypeOf)
  /\ held = [c \in Consumers |-> NotHolding]

UseNext ==
  \/ \E c \in Consumers, base \in Words, policy \in AccessPolicies :
       \/ CheckFixed(c, base, policy)
       \/ \E length \in Lengths : CheckDynamic(c, base, length, policy)
  \/ \E c \in Consumers : UseRange(c)
  \/ SandboxCall

UseSpec == UseInit /\ [][UseNext]_useVars

-----------------------------------------------------------------------------
(* The reference: bytes from base + offset on, in unbounded arithmetic,    *)
(* belong to one live object of the type, which also contains base.        *)
Acceptable(base, offset, bytes, type_hash) ==
  \E a \in allocations :
    /\ a.type_hash = type_hash
    /\ a.base <= base /\ base < a.base + a.size
    /\ base + offset + bytes <= a.base + a.size

(* The generated checks accept exactly what the reference accepts, for     *)
(* every base, also one near the last address and with an offset or a      *)
(* length that would make a sum wrap; and the address they hand out is the *)
(* one the policy means.  The wasm generator emits one check for both kinds*)
(* of use, the NaCl ones two: the three give the same verdict, where a     *)
(* policy with a fixed length ignores the length that T passes.            *)
AcceptanceIsExact ==
  \A base \in Words, policy \in AccessPolicies :
    LET fixed == checked_access(base, policy) IN
    /\ fixed.result = "ok" <=>
         Acceptable(base, policy.offset, policy.bytes, policy.type_hash)
    /\ fixed.result = "ok" => fixed.address = base + policy.offset
    /\ \A length \in Lengths :
         LET dynamic == checked_dynamic_access(base, length, policy) IN
         /\ dynamic.result = "ok" <=>
              /\ policy.bytes = 0
              /\ Acceptable(base, policy.offset, length, policy.type_hash)
         /\ wasm_check(base, length, policy) =
              IF policy.bytes # 0 THEN fixed.result ELSE dynamic.result

(* P7C_GENERALIZATION.md: the arena is bump-only "so stale raw pointers    *)
(* cannot become valid again".  Between a check and the use of the range,  *)
(* releases and reallocations may kill its object, but its bytes never     *)
(* come to belong to another one: any live object that meets the range is  *)
(* the very allocation that was checked.                                   *)
HeldRangeIsNeverReused ==
  \A c \in Consumers : \A a \in allocations :
    LET range == held[c].address .. (held[c].address + held[c].bytes - 1) IN
    Extent(a) \cap range # {} => held[c].owner = {a}

(* The range that T holds lies inside the allocation that vouched for it,  *)
(* so that T never reads a padding byte or a neighbour, even when the      *)
(* allocation has been released since.                                     *)
HeldRangeInsideOwner ==
  \A c \in Consumers :
    held[c].bytes > 0 =>
      \E a \in held[c].owner :
        /\ held[c].owner = {a}
        /\ a.base <= held[c].address
        /\ held[c].address + held[c].bytes <= a.base + a.size
=============================================================================
