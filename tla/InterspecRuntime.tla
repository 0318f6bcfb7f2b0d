-------------------------- MODULE InterspecRuntime --------------------------
(***************************************************************************)
(* interspec::Runtime (include/interspec/runtime.h): the trusted registry  *)
(* of types and allocation sites, and the bump allocator with the trusted  *)
(* metadata {base, size, type_hash, site_id} of every live allocation.     *)
(*                                                                         *)
(* Every public method holds mu_ from its first to its last statement, so  *)
(* here a call is one step (RuntimeLocking takes the lock apart).  An      *)
(* action is a call that changes the state: its guard is the conjunction   *)
(* of the conditions under which the method does not return early.  A      *)
(* refused call changes nothing and is a stuttering step.                  *)
(*                                                                         *)
(* std::map<uintptr_t, Allocation> is always keyed by Allocation::base,    *)
(* and std::map<uintptr_t, AllocationSite> by AllocationSite::begin: both  *)
(* are sets of records here.  An unordered_map is a total function with a  *)
(* value that stands for "absent".                                         *)
(***************************************************************************)
EXTENDS Naturals

CONSTANTS
  MaxWord,      \* numeric_limits<uintptr_t>::max(), and size_t's
  ArenaBase,    \* constructor argument arena_base
  ArenaSize,    \* constructor argument arena_size
  TypeIds,      \* values of TypeId that callers pass, 0 included
  SiteIds,      \* values of SiteId that callers pass, 0 included
  TypeHashes,   \* values of type_hash
  NoHash,       \* "no entry" in types and site_types
  Sizes,        \* sizes that callers ask for
  Pcs           \* program counters: range bounds, and callers of malloc

Words == 0 .. MaxWord

ASSUME WordAssumption ==
  /\ MaxWord \in Nat /\ MaxWord >= 7
  /\ ArenaBase \in Words
  /\ ArenaSize \in Words

ASSUME InputAssumption == Sizes \subseteq Words /\ Pcs \subseteq Words

ASSUME NameAssumption ==
  /\ TypeIds \subseteq Nat
  /\ SiteIds \subseteq Nat
  /\ 0 \in SiteIds
  /\ NoHash \notin TypeHashes

VARIABLES
  types,        \* types_:       TypeId -> type_hash
  type_ids,     \* type_ids_:    type_hash -> TypeId, 0 when absent
  sites,        \* sites_:       the registered program-counter ranges
  sites_by_id,  \* sites_by_id_: SiteId -> begin, 0 when absent
  site_types,   \* site_types_:  SiteId -> type_hash
  allocations,  \* allocations_: the live allocations
  used          \* used_:        bytes consumed from the arena

registryVars == <<types, type_ids, sites, sites_by_id, site_types>>
arenaVars == <<allocations, used>>
vars == <<types, type_ids, sites, sites_by_id, site_types, allocations, used>>

Allocation ==
  [base : Words, size : Words, type_hash : TypeHashes, site_id : SiteIds]

AllocationSite ==
  [id : SiteIds, begin : Words, end : Words,
   type_id : TypeIds, type_hash : TypeHashes]

TypeOK ==
  /\ types \in [TypeIds -> TypeHashes \cup {NoHash}]
  /\ type_ids \in [TypeHashes -> TypeIds \cup {0}]
  /\ sites \subseteq AllocationSite
  /\ sites_by_id \in [SiteIds -> Words]
  /\ site_types \in [SiteIds -> TypeHashes \cup {NoHash}]
  /\ allocations \subseteq Allocation
  /\ used \in Words

-----------------------------------------------------------------------------
(* Searches of the two ordered maps. *)

(* std::prev(sites_.upper_bound(pc)). *)
IsSiteAtOrBefore(s, pc) ==
  /\ s \in sites
  /\ s.begin <= pc
  /\ \A other \in sites : other.begin <= pc => other.begin <= s.begin

(* sites_.lower_bound(pc). *)
IsSiteFrom(s, pc) ==
  /\ s \in sites
  /\ s.begin >= pc
  /\ \A other \in sites : other.begin >= pc => other.begin >= s.begin

(* std::prev(sites_.lower_bound(pc)). *)
IsSiteBefore(s, pc) ==
  /\ s \in sites
  /\ s.begin < pc
  /\ \A other \in sites : other.begin < pc => other.begin <= s.begin

(* find_site_unlocked: the empty set stands for nullptr. *)
FindSite(pc) ==
  {s \in sites : IsSiteAtOrBefore(s, pc) /\ pc >= s.begin /\ pc < s.end}

(* Mutant: lower_bound for upper_bound. *)
IsAllocationAtOrBefore_Strict(a, ptr) ==
  /\ a \in allocations
  /\ a.base < ptr
  /\ \A other \in allocations : other.base < ptr => other.base <= a.base

(* std::prev(allocations_.upper_bound(ptr)). *)
IsAllocationAtOrBefore(a, ptr) ==
  /\ a \in allocations
  /\ a.base <= ptr
  /\ \A other \in allocations : other.base <= ptr => other.base <= a.base

(* find_allocation_unlocked: the empty set stands for nullptr. *)
FindAllocation(ptr) ==
  {a \in allocations :
     IsAllocationAtOrBefore(a, ptr) /\ ptr - a.base < a.size}

-----------------------------------------------------------------------------
(* Queries: they hold mu_ shared and change nothing. *)

Check(ptr, bytes, expected_type) ==
  LET found == FindAllocation(ptr) IN
  IF found = {} THEN "untracked"
  ELSE IF \A a \in found : a.type_hash # expected_type THEN "wrong_type"
  ELSE IF \A a \in found : bytes <= a.size - (ptr - a.base) THEN "ok"
  ELSE "out_of_bounds"

(* remaining_bytes: the pair of the result and the output parameter, which *)
(* only an "ok" sets.                                                      *)
RemainingBytes(ptr, expected_type) ==
  {a.size - (ptr - a.base) :
     a \in {b \in FindAllocation(ptr) : b.type_hash = expected_type}}

(* allocation_size and allocation_site look an exact base up. *)
AllocationAt(ptr) == {a \in allocations : a.base = ptr}

-----------------------------------------------------------------------------
(* Registration. *)

(* Mutant: the hash is not looked up, so two identifiers may share it. *)
CanRegisterType_SharedHash(id, type_hash) == id # 0 /\ types[id] = NoHash

CanRegisterType(id, type_hash) ==
  /\ id # 0
  /\ types[id] = NoHash
  /\ type_ids[type_hash] = 0

RegisterType(id, type_hash) ==
  /\ CanRegisterType(id, type_hash)
  /\ types' = [types EXCEPT ![id] = type_hash]
  /\ type_ids' = [type_ids EXCEPT ![type_hash] = id]
  /\ UNCHANGED <<sites, sites_by_id, site_types, allocations, used>>

(* Mutant: a site identifier may be bound again. *)
CanRegisterAllocationSiteId_Rebinds(id, type_id) ==
  id # 0 /\ types[type_id] # NoHash

(* The wasm2c form of a site: an identifier embedded in a host import. *)
CanRegisterAllocationSiteId(id, type_id) ==
  /\ id # 0
  /\ types[type_id] # NoHash
  /\ site_types[id] = NoHash

RegisterAllocationSiteId(id, type_id) ==
  /\ CanRegisterAllocationSiteId(id, type_id)
  /\ site_types' = [site_types EXCEPT ![id] = types[type_id]]
  /\ UNCHANGED <<types, type_ids, sites, sites_by_id, allocations, used>>

(* Mutant: the range that starts before the new one is not looked at. *)
ClearOfNeighbours_NextOnly(begin, end) ==
  \A next \in sites : IsSiteFrom(next, begin) => end <= next.begin

(* Only the two neighbours of the new range are looked at. *)
ClearOfNeighbours(begin, end) ==
  /\ \A next \in sites : IsSiteFrom(next, begin) => end <= next.begin
  /\ \A prev \in sites : IsSiteBefore(prev, begin) => prev.end <= begin

(* Mutant: an identifier bound without a range may be bound to one. *)
CanRegisterAllocationSite_IgnoresIds(id, begin, end, type_id) ==
  /\ id # 0 /\ begin # 0 /\ begin < end
  /\ types[type_id] # NoHash
  /\ sites_by_id[id] = 0
  /\ ClearOfNeighbours(begin, end)

CanRegisterAllocationSite(id, begin, end, type_id) ==
  /\ id # 0
  /\ begin # 0
  /\ begin < end
  /\ types[type_id] # NoHash
  /\ sites_by_id[id] = 0
  /\ site_types[id] = NoHash
  /\ ClearOfNeighbours(begin, end)

(* The NaCl form of a site: a range of program counters. *)
RegisterAllocationSite(id, begin, end, type_id) ==
  /\ CanRegisterAllocationSite(id, begin, end, type_id)
  /\ sites' = sites \cup {[id |-> id, begin |-> begin, end |-> end,
                           type_id |-> type_id, type_hash |-> types[type_id]]}
  /\ sites_by_id' = [sites_by_id EXCEPT ![id] = begin]
  /\ site_types' = [site_types EXCEPT ![id] = types[type_id]]
  /\ UNCHANGED <<types, type_ids, allocations, used>>

-----------------------------------------------------------------------------
(* Allocation. *)

arena_valid == ArenaSize <= MaxWord - ArenaBase

kAlignment == 8

(* Unsigned arithmetic. *)
Wrap(n) == n % (MaxWord + 1)

(* (size + 7) & ~7. *)
AlignedSize(size) == (Wrap(size + (kAlignment - 1)) \div kAlignment) * kAlignment

(* The bump pointer: where the next allocation goes. *)
NextBase == Wrap(ArenaBase + used)

(* Mutant: the capacity is compared with the size before it is rounded. *)
CanAllocate_UnroundedSize(size) ==
  /\ arena_valid
  /\ size # 0
  /\ size <= MaxWord - (kAlignment - 1)
  /\ used <= ArenaSize
  /\ size <= ArenaSize - used
  /\ AllocationAt(NextBase) = {}

(* The early returns of allocate_with_hash_unlocked and aligned_size. *)
CanAllocate(size) ==
  /\ arena_valid
  /\ size # 0
  /\ size <= MaxWord - (kAlignment - 1)
  /\ AlignedSize(size) >= size
  /\ used <= ArenaSize
  /\ AlignedSize(size) <= ArenaSize - used
  /\ used <= MaxWord - ArenaBase
  /\ AllocationAt(NextBase) = {}

NewAllocation(size, type_hash, site_id) ==
  [base |-> NextBase, size |-> size,
   type_hash |-> type_hash, site_id |-> site_id]

AllocateWithHash(size, type_hash, site_id) ==
  /\ CanAllocate(size)
  /\ allocations' = allocations \cup {NewAllocation(size, type_hash, site_id)}
  /\ used' = used + AlignedSize(size)
  /\ UNCHANGED registryVars

Allocate(size, type_id) ==
  /\ types[type_id] # NoHash
  /\ AllocateWithHash(size, types[type_id], 0)

AllocateFromSite(size, site_id) ==
  /\ site_types[site_id] # NoHash
  /\ AllocateWithHash(size, site_types[site_id], site_id)

AllocateFromPc(size, caller_pc) ==
  \E site \in FindSite(caller_pc) :
    AllocateWithHash(size, site.type_hash, site.id)

(* Mutant: the last allocation of the arena gives its bytes back. *)
Erase_RewindsBump(a) ==
  /\ allocations' = allocations \ {a}
  /\ used' = IF a.base + AlignedSize(a.size) = ArenaBase + used
               THEN a.base - ArenaBase ELSE used
  /\ UNCHANGED registryVars

Erase(a) ==
  /\ allocations' = allocations \ {a}
  /\ UNCHANGED <<registryVars, used>>

Release(ptr) == \E a \in AllocationAt(ptr) : Erase(a)

(* Mutant: the replacement forgets the site of the old allocation. *)
Reallocate_LosesSite(ptr, new_size) ==
  \E old \in AllocationAt(ptr) :
    \/ new_size = 0 /\ Erase(old)
    \/ /\ CanAllocate(new_size)
       /\ allocations' = (allocations \cup
                           {NewAllocation(new_size, old.type_hash, 0)}) \ {old}
       /\ used' = used + AlignedSize(new_size)
       /\ UNCHANGED registryVars

(* A replacement that does not fit leaves the old allocation alone, and so *)
(* refuses the call.  The old bytes are never given back to the arena.     *)
Reallocate(ptr, new_size) ==
  \E old \in AllocationAt(ptr) :
    \/ /\ new_size = 0
       /\ Erase(old)
    \/ /\ CanAllocate(new_size)
       /\ allocations' =
            (allocations \cup
               {NewAllocation(new_size, old.type_hash, old.site_id)}) \ {old}
       /\ used' = used + AlignedSize(new_size)
       /\ UNCHANGED registryVars

-----------------------------------------------------------------------------
Init ==
  /\ types = [id \in TypeIds |-> NoHash]
  /\ type_ids = [h \in TypeHashes |-> 0]
  /\ sites = {}
  /\ sites_by_id = [id \in SiteIds |-> 0]
  /\ site_types = [id \in SiteIds |-> NoHash]
  /\ allocations = {}
  /\ used = 0

(* The state that the calls of a generated register_types and              *)
(* register_wasm_allocation_policy leave behind: the types of type_of, and *)
(* for each of them a site with the same number.                           *)
AfterStartUp(type_of) ==
  /\ types = type_of
  /\ type_ids = [h \in TypeHashes |->
                   IF \E id \in TypeIds : type_of[id] = h
                   THEN CHOOSE id \in TypeIds : type_of[id] = h ELSE 0]
  /\ sites = {}
  /\ sites_by_id = [id \in SiteIds |-> 0]
  /\ site_types = [id \in SiteIds |->
                     IF id \in TypeIds THEN type_of[id] ELSE NoHash]
  /\ allocations = {}
  /\ used = 0

Next ==
  \/ \E id \in TypeIds, h \in TypeHashes : RegisterType(id, h)
  \/ \E id \in SiteIds, t \in TypeIds : RegisterAllocationSiteId(id, t)
  \/ \E id \in SiteIds, begin, end \in Pcs, t \in TypeIds :
       RegisterAllocationSite(id, begin, end, t)
  \/ \E size \in Sizes, t \in TypeIds : Allocate(size, t)
  \/ \E size \in Sizes, id \in SiteIds : AllocateFromSite(size, id)
  \/ \E size \in Sizes, pc \in Pcs : AllocateFromPc(size, pc)
  \/ \E ptr \in Words : Release(ptr)
  \/ \E ptr \in Words, size \in Sizes : Reallocate(ptr, size)

Spec == Init /\ [][Next]_vars

-----------------------------------------------------------------------------
(* What the runtime promises. *)

Extent(a) == a.base .. (a.base + a.size - 1)

(* Arena layout, whatever the order of allocations, reallocations and      *)
(* releases: the bump pointer is an address and never leaves the arena,    *)
(* a live allocation lies between the base of the arena and the bump       *)
(* pointer, at an aligned offset, and no two of them overlap.  It rests on *)
(* the overflow guards of aligned_size and allocate_with_hash_unlocked.    *)
UsedWithinCapacity ==
  /\ used <= ArenaSize
  /\ ArenaBase + used <= MaxWord
  /\ used % kAlignment = 0

BelowBump ==
  \A a \in allocations :
    /\ a.size > 0
    /\ a.base >= ArenaBase
    /\ a.base + a.size <= ArenaBase + used
    /\ (a.base - ArenaBase) % kAlignment = 0

LiveDisjoint ==
  \A a, b \in allocations :
    a # b => a.base + a.size <= b.base \/ b.base + b.size <= a.base

ArenaLayout == UsedWithinCapacity /\ BelowBump /\ LiveDisjoint

(* find_allocation_unlocked looks only at the last allocation that starts  *)
(* at or before ptr.  That one step answers, for every ptr (an interior    *)
(* one, a padding byte, a hole that a release left, an address outside the *)
(* arena), the question "which live allocation contains ptr?".             *)
LookupExact ==
  \A ptr \in Words :
    FindAllocation(ptr) = {a \in allocations : ptr \in Extent(a)}

(* register_allocation_site compares a new range with its two neighbours   *)
(* only, and find_site_unlocked looks at one range only.  Even so no two   *)
(* ranges overlap, and the site found for a program counter is the one and *)
(* only range that contains it.                                            *)
SitesDisjoint ==
  \A s, t \in sites : s # t => s.end <= t.begin \/ t.end <= s.begin

SiteLookupExact ==
  \A pc \in Pcs :
    FindSite(pc) = {s \in sites : pc \in s.begin .. (s.end - 1)}

PcProvenance == SitesDisjoint /\ SiteLookupExact

(* The five maps of the registry agree, although register_type and the two *)
(* register_allocation_site* methods each write a part of them: types_ and *)
(* type_ids_ are inverse of each other, every range is found again by its  *)
(* identifier and carries the type that its identifier is bound to, and no *)
(* identifier is bound to a type that is not registered.                   *)
TypesInverse ==
  /\ \A id \in TypeIds :
       types[id] # NoHash => id # 0 /\ type_ids[types[id]] = id
  /\ \A h \in TypeHashes : type_ids[h] # 0 => types[type_ids[h]] = h

SitesIndexed ==
  /\ \A s \in sites :
       /\ s.id # 0
       /\ 0 < s.begin /\ s.begin < s.end
       /\ sites_by_id[s.id] = s.begin
       /\ site_types[s.id] = s.type_hash
       /\ types[s.type_id] = s.type_hash
       /\ s.type_hash # NoHash
  /\ \A id \in SiteIds :
       sites_by_id[id] # 0 => \E s \in sites : s.id = id

BoundTypesRegistered ==
  \A id \in SiteIds :
    site_types[id] # NoHash => id # 0 /\ type_ids[site_types[id]] # 0

RegistryConsistent == TypesInverse /\ SitesIndexed /\ BoundTypesRegistered

(* P7A_PROVENANCE.md: U supplies neither a type nor a site.  Whatever      *)
(* happened since it was granted (registrations, reallocations), an object *)
(* has the type its allocation site is bound to, and a registered type.    *)
Provenance ==
  \A a \in allocations :
    /\ type_ids[a.type_hash] # 0
    /\ a.site_id # 0 => site_types[a.site_id] = a.type_hash

(* README.md: "Released numerical addresses are not reused", and a         *)
(* reallocation keeps type_hash and site_id.  The concrete allocator,      *)
(* whose addresses up to the bump pointer are spent, implements the        *)
(* abstract typed memory.                                                  *)
TypedMemorySpec ==
  INSTANCE TypedMemory
    WITH objects <- allocations, spent <- ArenaBase .. (ArenaBase + used - 1)

ImplementsTypedMemory == TypedMemorySpec!Spec

(* A binding is for ever: no call takes a type, a range or an identifier   *)
(* back or binds it to something else, so a decision taken on one call     *)
(* (the generated policy's, at start-up) holds for every later one.        *)
BindingsArePermanent ==
  [][/\ \A id \in TypeIds : types[id] # NoHash => types'[id] = types[id]
     /\ \A id \in SiteIds :
          site_types[id] # NoHash => site_types'[id] = site_types[id]
     /\ \A pc \in Pcs : FindSite(pc) # {} => FindSite(pc)' = FindSite(pc)]_vars
=============================================================================
