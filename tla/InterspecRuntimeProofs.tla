----------------------- MODULE InterspecRuntimeProofs -----------------------
(***************************************************************************)
(* What InterspecRuntime guarantees for every word size, arena and set of  *)
(* types, sites, sizes and program counters.                               *)
(***************************************************************************)
EXTENDS InterspecRuntime, WellFoundedInduction, TLAPS

-----------------------------------------------------------------------------
(* Arithmetic. *)

(* A sum that is still a word does not wrap. *)
LEMMA WrapIsIdentity ==
  ASSUME NEW n \in Words
  PROVE  Wrap(n) = n
BY WordAssumption, SMT DEF Wrap, Words

(* What an allocation relies on: aligned_size and the guards before it     *)
(* leave no wrapped value behind.                                          *)
LEMMA AllocationFits ==
  ASSUME used \in Words, UsedWithinCapacity, NEW size \in Words,
         CanAllocate(size)
  PROVE  /\ size > 0
         /\ NextBase = ArenaBase + used
         /\ NextBase \in Words
         /\ AlignedSize(size) \in Nat
         /\ AlignedSize(size) >= size
         /\ AlignedSize(size) % kAlignment = 0
         /\ used + AlignedSize(size) <= ArenaSize
         /\ ArenaBase + used + AlignedSize(size) <= MaxWord
         /\ used + AlignedSize(size) \in Words
<1>1. /\ size > 0
      /\ size + 7 \in Words
      /\ AlignedSize(size) <= ArenaSize - used
      /\ ArenaSize <= MaxWord - ArenaBase
  BY WordAssumption DEF CanAllocate, Words, kAlignment, arena_valid
<1>2. NextBase = ArenaBase + used /\ NextBase \in Words
  <2>1. ArenaBase + used \in Words
    BY WordAssumption DEF UsedWithinCapacity, Words
  <2> QED BY <2>1, WrapIsIdentity DEF NextBase
<1>3. AlignedSize(size) = ((size + 7) \div 8) * 8
  <2>1. Wrap(size + 7) = size + 7
    BY <1>1, WrapIsIdentity
  <2>2. size + (8 - 1) = size + 7
    BY DEF Words
  <2> QED BY <2>1, <2>2 DEF AlignedSize, kAlignment
<1>4. /\ AlignedSize(size) \in Nat
      /\ AlignedSize(size) >= size
      /\ AlignedSize(size) % 8 = 0
  BY <1>3, <1>1, WordAssumption, SMT DEF Words
<1> QED
  BY <1>1, <1>2, <1>4, WordAssumption DEF UsedWithinCapacity, Words, kAlignment

(* The least-number principle, for the neighbours in an ordered map. *)
LEMMA LeastNumber ==
  ASSUME NEW T \in SUBSET Nat, T # {}
  PROVE  \E x \in T : \A y \in T : x <= y
<1> DEFINE R == OpToRel(<, Nat)
<1>1. IsWellFoundedOn(R, Nat)
  BY NatLessThanWellFounded
<1>2. PICK x \in T : \A y \in T : <<y, x>> \notin R
  BY <1>1, WFMin, Zenon
<1>3. \A y \in T : <<y, x>> \notin R => x <= y
  BY DEF OpToRel
<1> QED BY <1>2, <1>3

-----------------------------------------------------------------------------
(* The kinds of steps. *)

(* A call that succeeds touches the registry or the arena, never both, and *)
(* in the arena it does one of three things.                               *)
LEMMA StepKinds ==
  ASSUME TypeOK, [Next]_vars
  PROVE  \/ UNCHANGED vars
         \/ \E id \in TypeIds, h \in TypeHashes : RegisterType(id, h)
         \/ \E id \in SiteIds, t \in TypeIds : RegisterAllocationSiteId(id, t)
         \/ \E id \in SiteIds, begin, end \in Words, t \in TypeIds :
              RegisterAllocationSite(id, begin, end, t)
         \/ \E size \in Words, h \in TypeHashes, id \in SiteIds :
              /\ \/ id = 0 /\ \E t \in TypeIds : types[t] = h
                 \/ site_types[id] = h
                 \/ \E s \in sites : s.id = id /\ s.type_hash = h
              /\ AllocateWithHash(size, h, id)
         \/ \E a \in allocations : Erase(a)
         \/ \E old \in allocations, size \in Words :
              /\ CanAllocate(size)
              /\ allocations' =
                   (allocations \cup
                     {NewAllocation(size, old.type_hash, old.site_id)}) \ {old}
              /\ used' = used + AlignedSize(size)
              /\ UNCHANGED registryVars
<1> USE InputAssumption, NameAssumption
<1>1. CASE UNCHANGED vars
  BY <1>1
<1>2. ASSUME NEW id \in SiteIds, NEW begin \in Pcs, NEW end \in Pcs,
             NEW t \in TypeIds, RegisterAllocationSite(id, begin, end, t)
      PROVE  \E i \in SiteIds, b, e \in Words, u \in TypeIds :
               RegisterAllocationSite(i, b, e, u)
  <2>1. begin \in Words /\ end \in Words
    OBVIOUS
  <2> QED BY <1>2, <2>1
<1> DEFINE Alloc(size, h, id) ==
             /\ \/ id = 0 /\ \E t \in TypeIds : types[t] = h
                \/ site_types[id] = h
                \/ \E s \in sites : s.id = id /\ s.type_hash = h
             /\ AllocateWithHash(size, h, id)
<1>3. ASSUME NEW size \in Sizes, NEW t \in TypeIds, Allocate(size, t)
      PROVE  \E sz \in Words, h \in TypeHashes, id \in SiteIds : Alloc(sz, h, id)
  <2>1. types[t] \in TypeHashes
    BY <1>3 DEF Allocate, TypeOK
  <2>2. Alloc(size, types[t], 0)
    BY <1>3 DEF Allocate
  <2> QED BY <2>1, <2>2
<1>4. ASSUME NEW size \in Sizes, NEW id \in SiteIds, AllocateFromSite(size, id)
      PROVE  \E sz \in Words, h \in TypeHashes, i \in SiteIds : Alloc(sz, h, i)
  <2>1. site_types[id] \in TypeHashes
    BY <1>4 DEF AllocateFromSite, TypeOK
  <2>2. Alloc(size, site_types[id], id)
    BY <1>4 DEF AllocateFromSite
  <2> QED BY <2>1, <2>2
<1>5. ASSUME NEW size \in Sizes, NEW pc \in Pcs, AllocateFromPc(size, pc)
      PROVE  \E sz \in Words, h \in TypeHashes, i \in SiteIds : Alloc(sz, h, i)
  <2>1. PICK s \in sites : AllocateWithHash(size, s.type_hash, s.id)
    BY <1>5 DEF AllocateFromPc, FindSite
  <2>2. s.type_hash \in TypeHashes /\ s.id \in SiteIds
    BY DEF TypeOK, AllocationSite
  <2>3. Alloc(size, s.type_hash, s.id)
    BY <2>1
  <2> QED BY <2>2, <2>3
<1>6. ASSUME NEW ptr \in Words, Release(ptr)
      PROVE  \E a \in allocations : Erase(a)
  BY <1>6 DEF Release, AllocationAt
<1>7. ASSUME NEW ptr \in Words, NEW size \in Sizes, Reallocate(ptr, size)
      PROVE  \/ \E a \in allocations : Erase(a)
             \/ \E old \in allocations, sz \in Words :
                  /\ CanAllocate(sz)
                  /\ allocations' =
                       (allocations \cup
                         {NewAllocation(sz, old.type_hash, old.site_id)}) \ {old}
                  /\ used' = used + AlignedSize(sz)
                  /\ UNCHANGED registryVars
  BY <1>7 DEF Reallocate, AllocationAt
<1> HIDE DEF Alloc
<1>8. CASE Next
  BY <1>8, <1>2, <1>3, <1>4, <1>5, <1>6, <1>7 DEF Next, Alloc
<1> QED BY <1>1, <1>8

-----------------------------------------------------------------------------
(* Every variable keeps its type: in particular the bump pointer and every *)
(* address handed out are words, whatever sizes the callers ask for.       *)

Typed == TypeOK /\ UsedWithinCapacity

(* An empty runtime is typed. *)
LEMMA TypedInit == Init => Typed
BY WordAssumption, NameAssumption
DEF Init, Typed, TypeOK, UsedWithinCapacity, Words, kAlignment

(* Every call keeps the types, and the bump offset inside the arena. *)
LEMMA TypedStep == Typed /\ [Next]_vars => Typed'
<1> SUFFICES ASSUME TypeOK, UsedWithinCapacity, [Next]_vars
             PROVE  TypeOK' /\ UsedWithinCapacity'
  BY DEF Typed
<1> USE NameAssumption
<1>1. CASE UNCHANGED vars
  BY <1>1 DEF vars, TypeOK, UsedWithinCapacity
<1>2. ASSUME NEW id \in TypeIds, NEW h \in TypeHashes, RegisterType(id, h)
      PROVE  TypeOK' /\ UsedWithinCapacity'
  BY <1>2 DEF RegisterType, TypeOK, UsedWithinCapacity
<1>3. ASSUME NEW id \in SiteIds, NEW t \in TypeIds,
             RegisterAllocationSiteId(id, t)
      PROVE  TypeOK' /\ UsedWithinCapacity'
  BY <1>3 DEF RegisterAllocationSiteId, TypeOK, UsedWithinCapacity
<1>4. ASSUME NEW id \in SiteIds, NEW begin \in Words, NEW end \in Words,
             NEW t \in TypeIds, RegisterAllocationSite(id, begin, end, t)
      PROVE  TypeOK' /\ UsedWithinCapacity'
  <2>1. types[t] \in TypeHashes
    BY <1>4 DEF RegisterAllocationSite, CanRegisterAllocationSite, TypeOK
  <2>2. [id |-> id, begin |-> begin, end |-> end,
         type_id |-> t, type_hash |-> types[t]] \in AllocationSite
    BY <2>1 DEF AllocationSite
  <2>3. sites' \subseteq AllocationSite
    BY <1>4, <2>2 DEF RegisterAllocationSite, TypeOK
  <2>4. /\ sites_by_id' \in [SiteIds -> Words]
        /\ site_types' \in [SiteIds -> TypeHashes \cup {NoHash}]
    BY <1>4, <2>1 DEF RegisterAllocationSite, TypeOK
  <2> QED
    BY <1>4, <2>3, <2>4
    DEF RegisterAllocationSite, TypeOK, UsedWithinCapacity
<1>5. ASSUME NEW size \in Words, NEW h \in TypeHashes, NEW id \in SiteIds,
             CanAllocate(size)
      PROVE  /\ NewAllocation(size, h, id) \in Allocation
             /\ used + AlignedSize(size) \in Words
             /\ used + AlignedSize(size) <= ArenaSize
             /\ ArenaBase + (used + AlignedSize(size)) <= MaxWord
             /\ (used + AlignedSize(size)) % kAlignment = 0
  <2>1. used \in Words
    BY DEF TypeOK
  <2> HIDE DEF CanAllocate
  <2>2. /\ NextBase \in Words
        /\ AlignedSize(size) \in Nat
        /\ AlignedSize(size) % kAlignment = 0
        /\ used + AlignedSize(size) <= ArenaSize
        /\ ArenaBase + used + AlignedSize(size) <= MaxWord
        /\ used + AlignedSize(size) \in Words
    BY <1>5, <2>1, AllocationFits
  <2>3. NewAllocation(size, h, id) \in Allocation
    BY <2>2 DEF NewAllocation, Allocation
  <2>4. (used + AlignedSize(size)) % kAlignment = 0
    BY <2>1, <2>2, WordAssumption, SMT
    DEF UsedWithinCapacity, kAlignment, Words
  <2>5. ArenaBase + (used + AlignedSize(size)) <= MaxWord
    BY <2>1, <2>2, WordAssumption DEF Words
  <2> QED BY <2>2, <2>3, <2>4, <2>5
<1>6. ASSUME NEW size \in Words, NEW h \in TypeHashes, NEW id \in SiteIds,
             AllocateWithHash(size, h, id)
      PROVE  TypeOK' /\ UsedWithinCapacity'
  BY <1>5, <1>6 DEF AllocateWithHash, registryVars, TypeOK, UsedWithinCapacity
<1>7. ASSUME NEW a \in allocations, Erase(a)
      PROVE  TypeOK' /\ UsedWithinCapacity'
  BY <1>7 DEF Erase, registryVars, TypeOK, UsedWithinCapacity
<1>8. ASSUME NEW old \in allocations, NEW size \in Words,
             CanAllocate(size),
             allocations' =
               (allocations \cup
                 {NewAllocation(size, old.type_hash, old.site_id)}) \ {old},
             used' = used + AlignedSize(size),
             UNCHANGED registryVars
      PROVE  TypeOK' /\ UsedWithinCapacity'
  <2>1. old.type_hash \in TypeHashes /\ old.site_id \in SiteIds
    BY DEF TypeOK, Allocation
  <2> QED
    BY <1>5, <1>8, <2>1 DEF registryVars, TypeOK, UsedWithinCapacity
<1> QED
  BY StepKinds, <1>1, <1>2, <1>3, <1>4, <1>6, <1>7, <1>8

(* So both hold always. *)
LEMMA TypedAlways == Spec => []Typed
BY TypedInit, TypedStep, PTL DEF Spec

(* The state is always well typed (runtime.h, every method). *)
THEOREM TypeCorrect == Spec => []TypeOK
<1>1. Typed => TypeOK
  BY DEF Typed
<1> QED BY <1>1, TypedAlways, PTL

-----------------------------------------------------------------------------
(* The registry. *)

(* Calls on the arena leave the registry alone. *)
LEMMA RegistryStepKinds ==
  ASSUME TypeOK, [Next]_vars
  PROVE  \/ UNCHANGED registryVars
         \/ \E id \in TypeIds, h \in TypeHashes : RegisterType(id, h)
         \/ \E id \in SiteIds, t \in TypeIds : RegisterAllocationSiteId(id, t)
         \/ \E id \in SiteIds, begin, end \in Words, t \in TypeIds :
              RegisterAllocationSite(id, begin, end, t)
BY StepKinds DEF vars, registryVars, AllocateWithHash, Erase

(* No call takes a binding back (register_type, register_allocation_site,  *)
(* register_allocation_site_id; the runtime has no call that unregisters). *)
LEMMA RegistryGrows ==
  ASSUME TypeOK, [Next]_vars
  PROVE  /\ \A id \in TypeIds : types[id] # NoHash => types'[id] = types[id]
         /\ \A h \in TypeHashes : type_ids[h] # 0 => type_ids'[h] = type_ids[h]
         /\ \A id \in SiteIds :
              site_types[id] # NoHash => site_types'[id] = site_types[id]
         /\ sites \subseteq sites'
<1>1. CASE UNCHANGED registryVars
  BY <1>1 DEF registryVars
<1>2. ASSUME NEW id \in TypeIds, NEW h \in TypeHashes, RegisterType(id, h)
      PROVE  /\ \A i \in TypeIds : types[i] # NoHash => types'[i] = types[i]
             /\ \A g \in TypeHashes :
                  type_ids[g] # 0 => type_ids'[g] = type_ids[g]
             /\ site_types' = site_types
             /\ sites' = sites
  BY <1>2 DEF RegisterType, CanRegisterType, TypeOK
<1>3. ASSUME NEW id \in SiteIds, NEW t \in TypeIds,
             RegisterAllocationSiteId(id, t)
      PROVE  /\ \A i \in SiteIds :
                  site_types[i] # NoHash => site_types'[i] = site_types[i]
             /\ types' = types /\ type_ids' = type_ids /\ sites' = sites
  BY <1>3 DEF RegisterAllocationSiteId, CanRegisterAllocationSiteId, TypeOK
<1>4. ASSUME NEW id \in SiteIds, NEW begin \in Words, NEW end \in Words,
             NEW t \in TypeIds, RegisterAllocationSite(id, begin, end, t)
      PROVE  /\ \A i \in SiteIds :
                  site_types[i] # NoHash => site_types'[i] = site_types[i]
             /\ types' = types /\ type_ids' = type_ids /\ sites \subseteq sites'
  BY <1>4 DEF RegisterAllocationSite, CanRegisterAllocationSite, TypeOK
<1> QED BY RegistryStepKinds, <1>1, <1>2, <1>3, <1>4

(* The maps are empty, and so agree. *)
LEMMA RegistryInit == Init => RegistryConsistent
BY NameAssumption DEF Init, RegistryConsistent, TypesInverse, SitesIndexed,
                         BoundTypesRegistered

(* A registration that passes its guards changes every map that knows of   *)
(* the type or the site.                                                   *)
LEMMA RegistryStep ==
  TypeOK /\ RegistryConsistent /\ [Next]_vars => RegistryConsistent'
<1> SUFFICES ASSUME TypeOK, TypesInverse, SitesIndexed, BoundTypesRegistered,
                    [Next]_vars
             PROVE  TypesInverse' /\ SitesIndexed' /\ BoundTypesRegistered'
  BY DEF RegistryConsistent
<1> USE NameAssumption
<1>1. CASE UNCHANGED registryVars
  BY <1>1 DEF registryVars, TypesInverse, SitesIndexed, BoundTypesRegistered
<1>2. ASSUME NEW id \in TypeIds, NEW h \in TypeHashes, RegisterType(id, h)
      PROVE  TypesInverse' /\ SitesIndexed' /\ BoundTypesRegistered'
  <2>1. TypesInverse'
    BY <1>2 DEF RegisterType, CanRegisterType, TypeOK, TypesInverse
  <2>2. \A t \in TypeIds : types[t] # NoHash => types'[t] = types[t]
    BY <1>2 DEF RegisterType, CanRegisterType, TypeOK
  <2>3. \A s \in sites : s.type_id \in TypeIds
    BY DEF TypeOK, AllocationSite
  <2>4. SitesIndexed'
    BY <1>2, <2>2, <2>3 DEF RegisterType, SitesIndexed
  <2>5. BoundTypesRegistered'
    BY <1>2, RegistryGrows DEF RegisterType, BoundTypesRegistered, TypeOK
  <2> QED BY <2>1, <2>4, <2>5
<1>3. ASSUME NEW id \in SiteIds, NEW t \in TypeIds,
             RegisterAllocationSiteId(id, t)
      PROVE  TypesInverse' /\ SitesIndexed' /\ BoundTypesRegistered'
  <2>1. TypesInverse'
    BY <1>3 DEF RegisterAllocationSiteId, TypesInverse
  <2>2. \A s \in sites : s.id \in SiteIds /\ site_types[s.id] # NoHash
    BY DEF TypeOK, AllocationSite, SitesIndexed
  <2>3. \A s \in sites : site_types'[s.id] = site_types[s.id]
    BY <1>3, <2>2
    DEF RegisterAllocationSiteId, CanRegisterAllocationSiteId, TypeOK
  <2>4. SitesIndexed'
    BY <1>3, <2>3
    DEF RegisterAllocationSiteId, CanRegisterAllocationSiteId,
        SitesIndexed, TypeOK
  <2>5. types[t] \in TypeHashes /\ type_ids[types[t]] # 0 /\ id # 0
    BY <1>3 DEF RegisterAllocationSiteId, CanRegisterAllocationSiteId,
                TypesInverse, TypeOK
  <2>6. BoundTypesRegistered'
    BY <1>3, <2>5 DEF RegisterAllocationSiteId, BoundTypesRegistered, TypeOK
  <2> QED BY <2>1, <2>4, <2>6
<1>4. ASSUME NEW id \in SiteIds, NEW begin \in Words, NEW end \in Words,
             NEW t \in TypeIds, RegisterAllocationSite(id, begin, end, t)
      PROVE  TypesInverse' /\ SitesIndexed' /\ BoundTypesRegistered'
  <2> DEFINE new == [id |-> id, begin |-> begin, end |-> end,
                     type_id |-> t, type_hash |-> types[t]]
  <2>1. TypesInverse'
    BY <1>4 DEF RegisterAllocationSite, TypesInverse
  <2>2. /\ id # 0 /\ begin # 0 /\ begin < end
        /\ types[t] # NoHash
        /\ sites_by_id[id] = 0
        /\ site_types[id] = NoHash
        /\ sites' = sites \cup {new}
        /\ sites_by_id' = [sites_by_id EXCEPT ![id] = begin]
        /\ site_types' = [site_types EXCEPT ![id] = types[t]]
        /\ types' = types
    BY <1>4 DEF RegisterAllocationSite, CanRegisterAllocationSite
  <2>3. \A s \in sites : s.id \in SiteIds /\ s.id # id
    BY <2>2 DEF TypeOK, AllocationSite, SitesIndexed
  <2>4. ASSUME NEW s \in sites'
        PROVE  /\ s.id # 0
               /\ 0 < s.begin /\ s.begin < s.end
               /\ sites_by_id'[s.id] = s.begin
               /\ site_types'[s.id] = s.type_hash
               /\ types'[s.type_id] = s.type_hash
               /\ s.type_hash # NoHash
    <3>1. CASE s \in sites
      BY <3>1, <2>2, <2>3 DEF SitesIndexed, TypeOK
    <3>2. CASE s = new
      BY <3>2, <2>2 DEF TypeOK, Words
    <3> QED BY <3>1, <3>2, <2>2
  <2>5. ASSUME NEW i \in SiteIds
        PROVE  sites_by_id'[i] # 0 => \E s \in sites' : s.id = i
    <3>1. CASE i = id
      <4>1. new \in sites' /\ new.id = i
        BY <2>2, <3>1
      <4> QED BY <4>1, <2>2, <3>1
    <3>2. CASE i # id
      <4>1. sites_by_id'[i] = sites_by_id[i]
        BY <2>2, <3>2 DEF TypeOK
      <4> QED BY <2>2, <4>1 DEF SitesIndexed
    <3> QED BY <3>1, <3>2
  <2>6. SitesIndexed'
    BY <2>4, <2>5 DEF SitesIndexed
  <2>7. types[t] \in TypeHashes /\ type_ids[types[t]] # 0
    BY <2>2 DEF TypesInverse, TypeOK
  <2>8. BoundTypesRegistered'
    BY <1>4, <2>2, <2>7
    DEF RegisterAllocationSite, BoundTypesRegistered, TypeOK
  <2> QED BY <2>1, <2>6, <2>8
<1> QED BY RegistryStepKinds, <1>1, <1>2, <1>3, <1>4

(* The five maps of the registry agree after every call: types_ and        *)
(* type_ids_ are inverse of each other and each range is indexed by its    *)
(* identifier with its type (register_type, register_allocation_site_id,   *)
(* register_allocation_site).                                              *)
THEOREM RegistryIsConsistent == Spec => []RegistryConsistent
<1>1. Spec => []TypeOK
  BY TypeCorrect
<1>2. Spec => Init /\ [][Next]_vars
  BY DEF Spec
<1> QED BY <1>1, <1>2, RegistryInit, RegistryStep, PTL

-----------------------------------------------------------------------------
(* Program-counter ranges. *)

(* The neighbour after begin exists when some range starts there.  This is *)
(* what makes lower_bound enough.                                          *)
LEMMA NeighbourFrom ==
  ASSUME TypeOK, NEW begin \in Words,
         NEW t \in sites, t.begin >= begin
  PROVE  \E s \in sites : IsSiteFrom(s, begin)
<1> DEFINE T == {s.begin : s \in {r \in sites : r.begin >= begin}}
<1>1. \A s \in sites : s.begin \in Nat
  BY WordAssumption DEF TypeOK, AllocationSite, Words
<1>2. T \in SUBSET Nat /\ t.begin \in T
  BY <1>1
<1>3. PICK x \in T : \A y \in T : x <= y
  <2> HIDE DEF T
  <2> QED BY <1>2, LeastNumber
<1>4. PICK s \in sites : s.begin >= begin /\ x = s.begin
  BY <1>3
<1>5. IsSiteFrom(s, begin)
  BY <1>1, <1>3, <1>4 DEF IsSiteFrom, Words
<1> QED BY <1>5

(* And so does the neighbour before it: the one at the least distance. *)
LEMMA NeighbourBefore ==
  ASSUME TypeOK, NEW begin \in Words,
         NEW t \in sites, t.begin < begin
  PROVE  \E s \in sites : IsSiteBefore(s, begin)
<1> DEFINE T == {begin - s.begin : s \in {r \in sites : r.begin < begin}}
<1>1. begin \in Nat /\ \A s \in sites : s.begin \in Nat
  BY WordAssumption DEF TypeOK, AllocationSite, Words
<1>2. T \in SUBSET Nat /\ begin - t.begin \in T
  BY <1>1
<1>3. PICK x \in T : \A y \in T : x <= y
  <2> HIDE DEF T
  <2> QED BY <1>2, LeastNumber
<1>4. PICK s \in sites : s.begin < begin /\ x = begin - s.begin
  BY <1>3
<1>5. ASSUME NEW other \in sites, other.begin < begin
      PROVE  other.begin <= s.begin
  <2>1. begin - other.begin \in T
    BY <1>5
  <2>2. x <= begin - other.begin
    <3> HIDE DEF T
    <3> QED BY <1>3, <2>1
  <2> QED BY <1>1, <1>4, <2>2
<1>6. IsSiteBefore(s, begin)
  BY <1>4, <1>5 DEF IsSiteBefore
<1> QED BY <1>6

(* There are no ranges yet. *)
LEMMA RangesInit == Init => SitesDisjoint
BY DEF Init, SitesDisjoint

(* A new range is compared with its two neighbours only; that keeps it     *)
(* apart from all.                                                         *)
LEMMA RangesStep ==
  TypeOK /\ SitesIndexed /\ SitesDisjoint /\ [Next]_vars => SitesDisjoint'
<1> SUFFICES ASSUME TypeOK, SitesIndexed, SitesDisjoint, [Next]_vars
             PROVE  SitesDisjoint'
  OBVIOUS
<1>1. CASE UNCHANGED sites
  BY <1>1 DEF SitesDisjoint
<1>2. ASSUME NEW id \in SiteIds, NEW begin \in Words, NEW end \in Words,
             NEW t \in TypeIds, RegisterAllocationSite(id, begin, end, t)
      PROVE  SitesDisjoint'
  <2> DEFINE new == [id |-> id, begin |-> begin, end |-> end,
                     type_id |-> t, type_hash |-> types[t]]
  <2>1. sites' = sites \cup {new} /\ begin < end
        /\ ClearOfNeighbours(begin, end)
    BY <1>2 DEF RegisterAllocationSite, CanRegisterAllocationSite
  <2>2. \A s \in sites : s.begin \in Nat /\ s.end \in Nat /\ s.begin < s.end
    BY WordAssumption DEF TypeOK, AllocationSite, Words, SitesIndexed
  <2>3. begin \in Nat /\ end \in Nat
    BY WordAssumption DEF Words
  <2>4. ASSUME NEW s \in sites
        PROVE  s.end <= begin \/ end <= s.begin
    <3>1. CASE s.begin >= begin
      <4>1. PICK n \in sites : IsSiteFrom(n, begin)
        BY <3>1, NeighbourFrom
      <4>2. end <= n.begin /\ n.begin <= s.begin
        BY <2>1, <3>1, <4>1 DEF ClearOfNeighbours, IsSiteFrom
      <4> QED BY <2>2, <2>3, <4>2
    <3>2. CASE s.begin < begin
      <4>1. PICK n \in sites : IsSiteBefore(n, begin)
        BY <3>2, NeighbourBefore
      <4>2. n.end <= begin /\ s.begin <= n.begin
        BY <2>1, <3>2, <4>1 DEF ClearOfNeighbours, IsSiteBefore
      <4>3. s = n \/ s.end <= n.begin \/ n.end <= s.begin
        BY DEF SitesDisjoint
      <4> QED BY <2>2, <2>3, <4>2, <4>3
    <3> QED BY <2>2, <2>3, <3>1, <3>2
  <2>5. new.begin = begin /\ new.end = end
    OBVIOUS
  <2> HIDE DEF new
  <2> QED BY <2>1, <2>4, <2>5 DEF SitesDisjoint
<1> QED
  BY RegistryStepKinds, <1>1, <1>2
  DEF registryVars, RegisterType, RegisterAllocationSiteId

(* Registered ranges are always disjoint. *)
LEMMA RangesAlways == Spec => []SitesDisjoint
<1>1. Spec => []TypeOK /\ []RegistryConsistent
  BY TypeCorrect, RegistryIsConsistent
<1>2. RegistryConsistent => SitesIndexed
  BY DEF RegistryConsistent
<1>3. Spec => Init /\ [][Next]_vars
  BY DEF Spec
<1> QED BY <1>1, <1>2, <1>3, RangesInit, RangesStep, PTL

(* One look at the last range that starts at or before a program counter   *)
(* finds the range that contains it, if there is one.                      *)
LEMMA DisjointMakesSiteLookupExact ==
  TypeOK /\ SitesIndexed /\ SitesDisjoint => SiteLookupExact
<1> SUFFICES ASSUME TypeOK, SitesIndexed, SitesDisjoint, NEW pc \in Pcs
             PROVE  FindSite(pc) = {s \in sites : pc \in s.begin .. (s.end - 1)}
  BY DEF SiteLookupExact
<1>1. pc \in Nat
  BY InputAssumption, WordAssumption DEF Words
<1>2. \A s \in sites : s.begin \in Nat /\ s.end \in Nat /\ s.begin < s.end
  BY WordAssumption DEF TypeOK, AllocationSite, Words, SitesIndexed
<1>3. ASSUME NEW s \in sites, s.begin <= pc, pc < s.end
      PROVE  IsSiteAtOrBefore(s, pc)
  <2>1. ASSUME NEW other \in sites, other.begin <= pc
        PROVE  other.begin <= s.begin
    <3>1. other = s \/ other.end <= s.begin \/ s.end <= other.begin
      BY DEF SitesDisjoint
    <3> QED BY <1>1, <1>2, <1>3, <2>1, <3>1
  <2> QED BY <1>3, <2>1 DEF IsSiteAtOrBefore
<1> QED BY <1>1, <1>2, <1>3 DEF FindSite

(* No two program-counter ranges ever overlap, and the range found for a   *)
(* program counter is the one that contains it, although                   *)
(* register_allocation_site and find_site_unlocked look at neighbours only.*)
THEOREM PcProvenanceHolds == Spec => []PcProvenance
<1>1. TypeOK /\ RegistryConsistent /\ SitesDisjoint => PcProvenance
  BY DisjointMakesSiteLookupExact DEF RegistryConsistent, PcProvenance
<1>2. Spec => []TypeOK /\ []RegistryConsistent /\ []SitesDisjoint
  BY TypeCorrect, RegistryIsConsistent, RangesAlways
<1> QED BY <1>1, <1>2, PTL

-----------------------------------------------------------------------------
(* The arena. *)

(* Calls on the registry leave the arena alone; the others grant an object *)
(* at the bump pointer, erase one, or do both.                             *)
LEMMA ArenaStepKinds ==
  ASSUME TypeOK, [Next]_vars
  PROVE  \/ UNCHANGED arenaVars
         \/ \E a \in allocations : Erase(a)
         \/ \E size \in Words, h \in TypeHashes, id \in SiteIds :
              /\ CanAllocate(size)
              /\ used' = used + AlignedSize(size)
              /\ UNCHANGED registryVars
              /\ \/ /\ allocations' =
                          allocations \cup {NewAllocation(size, h, id)}
                    /\ \/ id = 0 /\ \E t \in TypeIds : types[t] = h
                       \/ site_types[id] = h
                       \/ \E s \in sites : s.id = id /\ s.type_hash = h
                 \/ \E old \in allocations :
                      /\ old.type_hash = h /\ old.site_id = id
                      /\ allocations' =
                           (allocations \cup {NewAllocation(size, h, id)}) \ {old}
<1>1. ASSUME NEW old \in allocations
      PROVE  old.type_hash \in TypeHashes /\ old.site_id \in SiteIds
  BY DEF TypeOK, Allocation
<1> QED
  BY StepKinds, <1>1
  DEF vars, arenaVars, AllocateWithHash, RegisterType,
      RegisterAllocationSiteId, RegisterAllocationSite

(* An empty arena has nothing that could overlap. *)
LEMMA LayoutInit == Init => BelowBump /\ LiveDisjoint
BY DEF Init, BelowBump, LiveDisjoint

(* A new object starts at the bump pointer, above all that were there. *)
LEMMA LayoutStep ==
  Typed /\ BelowBump /\ LiveDisjoint /\ [Next]_vars
    => BelowBump' /\ LiveDisjoint'
<1> SUFFICES ASSUME TypeOK, UsedWithinCapacity, BelowBump, LiveDisjoint,
                    [Next]_vars
             PROVE  BelowBump' /\ LiveDisjoint'
  BY DEF Typed
<1>1. used \in Words /\ used \in Nat /\ ArenaBase \in Nat
  BY WordAssumption DEF TypeOK, Words
<1>2. \A a \in allocations : a.base \in Nat /\ a.size \in Nat
  BY WordAssumption DEF TypeOK, Allocation, Words
<1>3. CASE UNCHANGED arenaVars
  BY <1>3 DEF arenaVars, BelowBump, LiveDisjoint
<1>4. ASSUME NEW a \in allocations, Erase(a)
      PROVE  BelowBump' /\ LiveDisjoint'
  BY <1>4 DEF Erase, BelowBump, LiveDisjoint
<1>5. ASSUME NEW size \in Words, NEW h \in TypeHashes, NEW id \in SiteIds,
             CanAllocate(size),
             used' = used + AlignedSize(size),
             allocations' \subseteq allocations \cup {NewAllocation(size, h, id)}
      PROVE  BelowBump' /\ LiveDisjoint'
  <2> DEFINE new == NewAllocation(size, h, id)
  <2>1. /\ size \in Nat
        /\ size > 0
        /\ NextBase = ArenaBase + used
        /\ AlignedSize(size) \in Nat
        /\ AlignedSize(size) >= size
    BY <1>1, <1>5, AllocationFits, WordAssumption DEF Words
  <2>2. new.base = ArenaBase + used /\ new.size = size
    BY <2>1 DEF NewAllocation
  <2>3. \A a \in allocations :
          /\ a.size > 0
          /\ a.base >= ArenaBase
          /\ a.base + a.size <= new.base
          /\ a.base + a.size <= ArenaBase + used'
          /\ (a.base - ArenaBase) % kAlignment = 0
    BY <1>1, <1>2, <1>5, <2>1, <2>2 DEF BelowBump
  <2>4. /\ new.size > 0
        /\ new.base >= ArenaBase
        /\ new.base + new.size <= ArenaBase + used'
    BY <1>1, <1>5, <2>1, <2>2
  <2>5. (new.base - ArenaBase) % kAlignment = 0
    <3>1. new.base - ArenaBase = used
      BY <1>1, <2>2
    <3> QED BY <3>1 DEF UsedWithinCapacity
  <2> HIDE DEF new
  <2>6. BelowBump'
    BY <1>5, <2>3, <2>4, <2>5 DEF BelowBump, new
  <2>7. LiveDisjoint'
    BY <1>5, <2>3 DEF LiveDisjoint, new
  <2> QED BY <2>6, <2>7
<1> QED BY ArenaStepKinds, <1>3, <1>4, <1>5

(* Whatever sizes are asked for and in whatever order objects are granted, *)
(* moved and released: live allocations are disjoint, aligned, and lie     *)
(* between the base of the arena and a bump pointer that never leaves it   *)
(* (allocate_with_hash_unlocked, aligned_size, reallocate, release).       *)
THEOREM ArenaLayoutHolds == Spec => []ArenaLayout
<1>1. Spec => Init /\ [][Next]_vars
  BY DEF Spec
<1>2. Typed /\ BelowBump /\ LiveDisjoint => ArenaLayout
  BY DEF Typed, ArenaLayout
<1> QED BY <1>1, <1>2, TypedAlways, LayoutInit, LayoutStep, PTL

(* When objects are disjoint, the object that upper_bound and prev lead to *)
(* is the one that contains the pointer (find_allocation_unlocked).        *)
LEMMA DisjointMakesLookupExact ==
  ASSUME TypeOK, BelowBump, LiveDisjoint
  PROVE  LookupExact
<1> SUFFICES ASSUME NEW ptr \in Words
             PROVE  FindAllocation(ptr) = {a \in allocations : ptr \in Extent(a)}
  BY DEF LookupExact
<1>1. ptr \in Nat
  BY WordAssumption DEF Words
<1>2. \A a \in allocations : a.base \in Nat /\ a.size \in Nat /\ a.size > 0
  BY WordAssumption DEF TypeOK, Allocation, Words, BelowBump
<1>3. ASSUME NEW a \in allocations
      PROVE  ptr \in Extent(a) <=> a.base <= ptr /\ ptr - a.base < a.size
  BY <1>1, <1>2 DEF Extent
<1>4. ASSUME NEW a \in allocations, a.base <= ptr, ptr - a.base < a.size
      PROVE  IsAllocationAtOrBefore(a, ptr)
  <2>1. ASSUME NEW other \in allocations, other.base <= ptr
        PROVE  other.base <= a.base
    <3>1. \/ other = a
          \/ other.base + other.size <= a.base
          \/ a.base + a.size <= other.base
      BY DEF LiveDisjoint
    <3> QED BY <1>1, <1>2, <1>4, <2>1, <3>1
  <2> QED BY <1>4, <2>1 DEF IsAllocationAtOrBefore
<1> QED BY <1>3, <1>4 DEF FindAllocation, IsAllocationAtOrBefore

(* One look at the last allocation that starts at or before a pointer      *)
(* finds the live allocation that contains it, for every pointer there is  *)
(* (find_allocation_unlocked, on which check and remaining_bytes rest).    *)
THEOREM LookupIsExact == Spec => []LookupExact
<1>1. TypeOK /\ ArenaLayout => LookupExact
  BY DisjointMakesLookupExact DEF ArenaLayout
<1> QED BY <1>1, TypeCorrect, ArenaLayoutHolds, PTL

-----------------------------------------------------------------------------
(* Provenance. *)

(* Once bound, a type, a site identifier or a program counter keeps its    *)
(* binding for ever.                                                       *)
THEOREM BindingsStay == Spec => BindingsArePermanent
<1>1. TypeOK /\ RegistryConsistent /\ SitesDisjoint
      /\ TypeOK' /\ RegistryConsistent' /\ SitesDisjoint' /\ [Next]_vars
      => [/\ \A id \in TypeIds : types[id] # NoHash => types'[id] = types[id]
          /\ \A id \in SiteIds :
               site_types[id] # NoHash => site_types'[id] = site_types[id]
          /\ \A pc \in Pcs :
               FindSite(pc) # {} => FindSite(pc)' = FindSite(pc)]_vars
  <2> SUFFICES ASSUME TypeOK, RegistryConsistent, SitesDisjoint,
                      TypeOK', RegistryConsistent', SitesDisjoint',
                      [Next]_vars, NEW pc \in Pcs, FindSite(pc) # {}
               PROVE  FindSite(pc)' = FindSite(pc)
    BY RegistryGrows
  <2>1. /\ FindSite(pc) = {s \in sites : pc \in s.begin .. (s.end - 1)}
        /\ FindSite(pc)' = {s \in sites' : pc \in s.begin .. (s.end - 1)}
    <3>1. SiteLookupExact
      BY DisjointMakesSiteLookupExact DEF RegistryConsistent
    <3>2. SiteLookupExact'
      <4>1. SitesIndexed'
        BY DEF RegistryConsistent
      <4> QED BY <4>1, DisjointMakesSiteLookupExact, PTL
    <3> QED BY <3>1, <3>2 DEF SiteLookupExact
  <2>2. sites \subseteq sites'
    BY RegistryGrows
  <2>3. \A s, t \in sites' :
          pc \in s.begin .. (s.end - 1) /\ pc \in t.begin .. (t.end - 1)
          => s = t
    <3>1. pc \in Nat /\ \A s \in sites' : s.begin \in Nat /\ s.end \in Nat
      BY InputAssumption, WordAssumption DEF TypeOK, AllocationSite, Words
    <3> QED BY <3>1 DEF SitesDisjoint
  <2> QED BY <2>1, <2>2, <2>3
<1>2. Spec => []TypeOK /\ []RegistryConsistent /\ []SitesDisjoint
  BY TypeCorrect, RegistryIsConsistent, RangesAlways
<1>3. Spec => [][Next]_vars
  BY DEF Spec
<1> QED BY <1>1, <1>2, <1>3, PTL DEF BindingsArePermanent

(* There are no objects yet. *)
LEMMA ProvenanceInit == Init => Provenance
BY DEF Init, Provenance

(* Bindings of sites and types stay, so an object keeps the provenance it  *)
(* was born with.                                                          *)
LEMMA ProvenanceStep ==
  TypeOK /\ RegistryConsistent /\ Provenance /\ [Next]_vars => Provenance'
<1> SUFFICES ASSUME TypeOK, RegistryConsistent, Provenance, [Next]_vars
             PROVE  Provenance'
  OBVIOUS
<1> DEFINE Vouched(a) ==
             /\ type_ids[a.type_hash] # 0
             /\ a.site_id # 0 => site_types[a.site_id] = a.type_hash
<1>1. ASSUME NEW a \in Allocation, Vouched(a)
      PROVE  Vouched(a)'
  <2>1. /\ a.type_hash \in TypeHashes /\ a.site_id \in SiteIds
        /\ a.type_hash # NoHash
    BY NameAssumption DEF Allocation
  <2> QED BY <1>1, <2>1, RegistryGrows
<1>2. \A a \in allocations : a \in Allocation /\ Vouched(a)
  BY DEF TypeOK, Provenance
<1>3. CASE UNCHANGED arenaVars
  BY <1>1, <1>2, <1>3 DEF arenaVars, Provenance
<1>4. ASSUME NEW a \in allocations, Erase(a)
      PROVE  Provenance'
  BY <1>1, <1>2, <1>4 DEF Erase, Provenance
<1>5. ASSUME NEW size \in Words, NEW h \in TypeHashes, NEW id \in SiteIds,
             UNCHANGED registryVars,
             allocations' \subseteq allocations \cup {NewAllocation(size, h, id)},
             Vouched(NewAllocation(size, h, id))
      PROVE  Provenance'
  BY <1>2, <1>5 DEF registryVars, Provenance
<1>6. ASSUME NEW h \in TypeHashes, NEW id \in SiteIds,
             \/ id = 0 /\ \E t \in TypeIds : types[t] = h
             \/ site_types[id] = h
             \/ \E s \in sites : s.id = id /\ s.type_hash = h
      PROVE  type_ids[h] # 0 /\ (id # 0 => site_types[id] = h)
  <2> USE NameAssumption DEF RegistryConsistent
  <2>1. CASE id = 0 /\ \E t \in TypeIds : types[t] = h
    BY <2>1 DEF TypesInverse
  <2>2. CASE site_types[id] = h
    BY <2>2 DEF BoundTypesRegistered
  <2>3. CASE \E s \in sites : s.id = id /\ s.type_hash = h
    BY <2>3 DEF SitesIndexed, BoundTypesRegistered
  <2> QED BY <1>6, <2>1, <2>2, <2>3
<1>7. ASSUME NEW old \in allocations, NEW size \in Words
      PROVE  Vouched(NewAllocation(size, old.type_hash, old.site_id))
  BY <1>2 DEF NewAllocation
<1>8. ASSUME NEW size \in Words, NEW h \in TypeHashes, NEW id \in SiteIds,
             type_ids[h] # 0 /\ (id # 0 => site_types[id] = h)
      PROVE  Vouched(NewAllocation(size, h, id))
  BY <1>8 DEF NewAllocation
<1> HIDE DEF Vouched
<1> QED
  BY ArenaStepKinds, <1>3, <1>4, <1>5, <1>6, <1>7, <1>8

(* An object always has a registered type, the one its allocation site is  *)
(* bound to, whatever was registered or reallocated since it was granted   *)
(* (allocate_from_pc, allocate_from_site, reallocate).                     *)
THEOREM ProvenanceHolds == Spec => []Provenance
<1>1. Spec => Init /\ [][Next]_vars
  BY DEF Spec
<1> QED
  BY <1>1, TypeCorrect, RegistryIsConsistent, ProvenanceInit, ProvenanceStep, PTL

-----------------------------------------------------------------------------
(* The refinement of TypedMemory. *)

(* An empty arena is an empty memory with no address spent. *)
LEMMA RefinesInit == Init => TypedMemorySpec!Init
BY WordAssumption DEF Init, TypedMemorySpec!Init, Words

(* Every call is a birth, a death, a move or nothing, at addresses above   *)
(* the bump pointer.                                                       *)
LEMMA RefinesStep ==
  Typed /\ BelowBump /\ [Next]_vars
    => [TypedMemorySpec!Next]_TypedMemorySpec!memVars
<1> SUFFICES ASSUME TypeOK, UsedWithinCapacity, BelowBump, [Next]_vars
             PROVE  TypedMemorySpec!Next \/ UNCHANGED TypedMemorySpec!memVars
  BY DEF Typed
<1> DEFINE spent == ArenaBase .. (ArenaBase + used - 1)
<1>1. used \in Words /\ used \in Nat /\ ArenaBase \in Nat
  BY WordAssumption DEF TypeOK, Words
<1>2. CASE UNCHANGED arenaVars
  BY <1>2 DEF arenaVars, TypedMemorySpec!memVars
<1>3. ASSUME NEW a \in allocations, Erase(a)
      PROVE  TypedMemorySpec!Retire
  BY <1>3 DEF Erase, TypedMemorySpec!Retire
<1>4. ASSUME NEW size \in Words, NEW h \in TypeHashes, NEW id \in SiteIds,
             CanAllocate(size),
             used' = used + AlignedSize(size)
      PROVE  TypedMemorySpec!Fresh(NewAllocation(size, h, id))
  <2> DEFINE new == NewAllocation(size, h, id)
  <2>1. /\ size \in Nat
        /\ size > 0
        /\ NextBase = ArenaBase + used
        /\ AlignedSize(size) \in Nat
        /\ AlignedSize(size) >= size
    BY <1>1, <1>4, AllocationFits, WordAssumption DEF Words
  <2>2. new.base = ArenaBase + used /\ new.size = size
    BY <2>1 DEF NewAllocation
  <2> HIDE DEF new
  <2>3. /\ new.size > 0
        /\ (new.base .. (new.base + new.size - 1)) \cap spent = {}
        /\ (new.base .. (new.base + new.size - 1))
             \subseteq ArenaBase .. (ArenaBase + used' - 1)
        /\ spent \subseteq ArenaBase .. (ArenaBase + used' - 1)
    BY <1>1, <1>4, <2>1, <2>2
  <2> QED
    BY <2>3 DEF TypedMemorySpec!Fresh, TypedMemorySpec!Extent, new
<1>5. ASSUME NEW size \in Words, NEW h \in TypeHashes, NEW id \in SiteIds,
             CanAllocate(size),
             used' = used + AlignedSize(size),
             allocations' = allocations \cup {NewAllocation(size, h, id)}
      PROVE  TypedMemorySpec!Grant
  BY <1>4, <1>5 DEF TypedMemorySpec!Grant
<1>6. ASSUME NEW size \in Words, NEW h \in TypeHashes, NEW id \in SiteIds,
             CanAllocate(size),
             used' = used + AlignedSize(size),
             NEW old \in allocations,
             old.type_hash = h, old.site_id = id,
             allocations' =
               (allocations \cup {NewAllocation(size, h, id)}) \ {old}
      PROVE  TypedMemorySpec!Move
  <2> DEFINE new == NewAllocation(size, h, id)
  <2>1. TypedMemorySpec!Fresh(new)
    BY <1>4, <1>6
  <2>2. new # old
    <3>1. NextBase = ArenaBase + used
      BY <1>1, <1>6, AllocationFits
    <3>2. old.base \in Nat /\ old.base < ArenaBase + used
      BY <1>1, WordAssumption DEF BelowBump, TypeOK, Allocation, Words
    <3> QED BY <1>1, <3>1, <3>2 DEF NewAllocation
  <2>3. new.type_hash = h /\ new.site_id = id
    BY DEF NewAllocation
  <2>4. new \in allocations' /\ allocations' = (allocations \ {old}) \cup {new}
    BY <1>6, <2>2
  <2> HIDE DEF new
  <2> QED BY <1>6, <2>1, <2>3, <2>4 DEF TypedMemorySpec!Move
<1> QED
  BY ArenaStepKinds, <1>2, <1>3, <1>5, <1>6 DEF TypedMemorySpec!Next

(* The bump allocator with its ordered map implements the abstract typed   *)
(* memory: an object is born on addresses that were never handed out, dies *)
(* without giving them back, and moves without changing its type or site   *)
(* (README.md, "Released numerical addresses are not reused").             *)
THEOREM RuntimeImplementsTypedMemory == Spec => ImplementsTypedMemory
<1>1. Spec => Init /\ [][Next]_vars
  BY DEF Spec
<1>2. ArenaLayout => BelowBump
  BY DEF ArenaLayout
<1> QED
  BY <1>1, <1>2, TypedAlways, ArenaLayoutHolds, RefinesInit, RefinesStep, PTL
  DEF ImplementsTypedMemory, TypedMemorySpec!Spec
=============================================================================
