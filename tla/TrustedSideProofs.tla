-------------------------- MODULE TrustedSideProofs -------------------------
(***************************************************************************)
(* What runs beside the registry in the trusted process. Start-up          *)
(* registers the whole policy or nothing is reachable, and a callback      *)
(* attributes its object to the right site. A resolved view stays inside   *)
(* one live object and inside the sandbox. The NaCl runtime keeps its      *)
(* arena mapped, and finds the caller of a callback through every nesting. *)
(* For every policy, number of threads and arena.                          *)
(***************************************************************************)
EXTENDS PolicyRuntime, TrustedUse, NaClArena, NaClCallbacks, InterspecRuntimeProofs,
        SequenceTheorems

-----------------------------------------------------------------------------
(* PolicyRuntime. *)

-----------------------------------------------------------------------------
(* The policy is a record of two sequences. *)

(* An element of a sequence is in its set. *)
LEMMA ElementOfSequence ==
  ASSUME NEW S, NEW s \in Seq(S), NEW n \in Nat \ {0}, n <= Len(s)
  PROVE  s[n] \in S
OBVIOUS

(* The types of a policy's parts. *)
LEMMA PolicyParts ==
  ASSUME policy \in Policies
  PROVE  /\ policy.types \in Seq([id : TypeIds, type_hash : TypeHashes])
         /\ policy.sites \in Seq([site_id : SiteIds, type_id : TypeIds,
                                  begin_symbol : Symbols, end_symbol : Symbols])
         /\ Len(policy.types) \in Nat
         /\ Len(policy.sites) \in Nat
<1>1. /\ policy.types \in Seq([id : TypeIds, type_hash : TypeHashes])
      /\ policy.sites \in Seq([site_id : SiteIds, type_id : TypeIds,
                               begin_symbol : Symbols, end_symbol : Symbols])
  BY PolicyAssumption
<1>2. Len(policy.types) \in Nat
  BY <1>1, LenProperties
<1>3. Len(policy.sites) \in Nat
  BY <1>1, LenProperties
<1> QED BY <1>1, <1>2, <1>3

(* The loop index stays in its range. *)
LEMMA NextInRange ==
  ASSUME NEW m \in Nat, NEW n \in Nat, NEW k \in Nat \ {0}
  PROVE  /\ 1 \in 1 .. (1 + m + n)
         /\ k <= m => k + 1 \in 1 .. (1 + m + n)
         /\ k <= n => k + 1 \in 1 .. (1 + m + n)
OBVIOUS

-----------------------------------------------------------------------------
(* Steps of the composition are steps of the runtime. *)

(* Start-up and callbacks act on the runtime only through its methods. *)
LEMMA PolicyStepIsRuntimeStep ==
  ASSUME PolicyTypeOK, [PolicyNext]_allVars
  PROVE  [Next]_vars
<1>1. ASSUME RegisterNextType PROVE [Next]_vars
  <2>1. policy.types[next] \in [id : TypeIds, type_hash : TypeHashes]
    <3>1. next <= Len(policy.types)
      BY <1>1 DEF RegisterNextType
    <3>2. next \in Nat \ {0}
      BY PolicyParts DEF PolicyTypeOK
    <3> QED BY <3>1, <3>2, PolicyParts, ElementOfSequence DEF PolicyTypeOK
  <2> QED BY <1>1, <2>1 DEF RegisterNextType, Next
<1>2. ASSUME RegisterNextSite PROVE [Next]_vars
  <2>1. /\ policy.sites[next] \in
             [site_id : SiteIds, type_id : TypeIds,
              begin_symbol : Symbols, end_symbol : Symbols]
        /\ resolve \in [Symbols -> Pcs]
    <3>1. next <= Len(policy.sites)
      BY <1>2 DEF RegisterNextSite
    <3>2. next \in Nat \ {0}
      BY PolicyParts DEF PolicyTypeOK
    <3>3. resolve \in [Symbols -> Pcs]
      BY PolicyAssumption DEF PolicyTypeOK
    <3> QED
      BY <3>1, <3>2, <3>3, PolicyParts, ElementOfSequence DEF PolicyTypeOK
  <2> QED BY <1>2, <2>1 DEF RegisterNextSite, Next
<1>3. ASSUME NEW t \in Threads, Lookup(t) PROVE [Next]_vars
  <2>1. callback[t].pc \in Pcs /\ callback[t].next_pc \in Pcs
    BY DEF PolicyTypeOK, Callback
  <2>2. callback[t].size \in Sizes \cup {0}
    BY DEF PolicyTypeOK, Callback
  <2>3. ASSUME NEW pc \in Pcs, AllocateFromPc(callback[t].size, pc)
        PROVE  Next
    <3>1. callback[t].size \in Sizes
      BY <2>2, <2>3 DEF AllocateFromPc, AllocateWithHash, CanAllocate
    <3> QED BY <2>3, <3>1 DEF Next
  <2> QED BY <1>3, <2>1, <2>3 DEF Lookup, FirstLookup, SecondLookup
<1>4. ASSUME NEW t \in Threads, NEW ptr \in Words, CallbackRelease(t, ptr)
      PROVE  [Next]_vars
  BY <1>4 DEF CallbackRelease, Next
<1>5. ASSUME NEW t \in Threads, NEW ptr \in Words, NEW size \in Sizes,
             CallbackReallocate(t, ptr, size)
      PROVE  [Next]_vars
  BY <1>5 DEF CallbackReallocate, Next
<1> QED
  BY <1>1, <1>2, <1>3, <1>4, <1>5
  DEF PolicyNext, Construct, EndOfTypes, EndOfSites, BeginAllocate, allVars

-----------------------------------------------------------------------------
(* Types. *)

(* Before start-up the runtime is empty. *)
LEMMA PolicyTypedInit == PolicyInit => PolicyTypeOK /\ Typed
<1> SUFFICES ASSUME PolicyInit PROVE PolicyTypeOK /\ Typed
  OBVIOUS
<1>1. Typed
  BY TypedInit DEF PolicyInit
<1>2. Idle \in Callback
  BY PolicyAssumption DEF Idle, Callback
<1>4. next \in 1 .. (1 + Len(policy.types) + Len(policy.sites))
  <2>1. policy \in Policies /\ next = 1
    BY DEF PolicyInit
  <2>2. \A m, n \in Nat : next \in 1 .. (1 + m + n)
    BY <2>1
  <2>3. Len(policy.types) \in Nat /\ Len(policy.sites) \in Nat
    BY <2>1, PolicyParts
  <2> QED BY <2>2, <2>3
<1>5. types_ok \in BOOLEAN
  BY DEF PolicyInit
<1> QED BY <1>1, <1>2, <1>4, <1>5 DEF PolicyInit, PolicyTypeOK, Typed, Stages

(* Every step of start-up and of a callback keeps the types. *)
LEMMA PolicyTypedStep ==
  PolicyTypeOK /\ Typed /\ [PolicyNext]_allVars => PolicyTypeOK' /\ Typed'
<1> SUFFICES ASSUME PolicyTypeOK, Typed, [PolicyNext]_allVars
             PROVE  PolicyTypeOK' /\ Typed'
  OBVIOUS
<1>1. Typed'
  BY PolicyStepIsRuntimeStep, TypedStep
<1>2. policy' = policy /\ resolve' = resolve
  BY DEF PolicyNext, Construct, RegisterNextType, EndOfTypes, RegisterNextSite,
         EndOfSites, BeginAllocate, Lookup, FirstLookup, SecondLookup,
         CallbackRelease, CallbackReallocate, allVars, policyVars
<1>3. stage' \in Stages
  BY DEF PolicyTypeOK, Stages, PolicyNext, Construct, RegisterNextType,
         EndOfTypes, RegisterNextSite, EndOfSites,
         BeginAllocate, Lookup, FirstLookup, SecondLookup, CallbackRelease,
         CallbackReallocate, allVars, policyVars
<1>7. types_ok' \in BOOLEAN
  <2>1. CASE RegisterNextType
    BY <2>1, Zenon DEF RegisterNextType, TypeOutcome
  <2>2. CASE UNCHANGED types_ok
    BY <2>2 DEF PolicyTypeOK
  <2> QED
    BY <2>1, <2>2
    DEF PolicyNext, Construct, EndOfTypes, RegisterNextSite, EndOfSites,
        BeginAllocate, Lookup, FirstLookup, SecondLookup, CallbackRelease,
        CallbackReallocate, allVars, policyVars
<1>4. next \in Nat \ {0}
  BY PolicyParts DEF PolicyTypeOK
<1>5. next' \in 1 .. (1 + Len(policy.types) + Len(policy.sites))
  BY <1>4, PolicyParts, NextInRange
  DEF PolicyTypeOK, PolicyNext, Construct, RegisterNextType,
      EndOfTypes, RegisterNextSite, EndOfSites,
      BeginAllocate, Lookup, FirstLookup, SecondLookup, CallbackRelease,
      CallbackReallocate, allVars, policyVars
<1>6. callback' \in [Threads -> Callback]
  <2>1. Idle \in Callback
    BY PolicyAssumption DEF Idle, Callback
  <2>2. ASSUME NEW t \in Threads, NEW size \in Sizes, NEW pc \in Pcs,
               NEW next_pc \in Pcs, BeginAllocate(t, size, pc, next_pc)
        PROVE  callback' \in [Threads -> Callback]
    BY <2>2 DEF BeginAllocate, PolicyTypeOK, Callback
  <2>3. ASSUME NEW t \in Threads, FirstLookup(t)
        PROVE  callback' \in [Threads -> Callback]
    <3>1. callback[t] \in Callback
      BY DEF PolicyTypeOK
    <3>2. AfterFirst(callback[t]) \in Callback
      BY <2>1, <3>1 DEF AfterFirst, Callback
    <3> QED BY <2>1, <2>3, <3>2 DEF FirstLookup, PolicyTypeOK
  <2>4. ASSUME NEW t \in Threads, SecondLookup(t)
        PROVE  callback' \in [Threads -> Callback]
    BY <2>1, <2>4 DEF SecondLookup, PolicyTypeOK
  <2> QED
    BY <2>2, <2>3, <2>4
    DEF PolicyTypeOK, PolicyNext, Construct, RegisterNextType,
        EndOfTypes, RegisterNextSite, EndOfSites, Lookup, CallbackRelease,
        CallbackReallocate, allVars
<1> QED BY <1>1, <1>2, <1>3, <1>5, <1>6, <1>7 DEF PolicyTypeOK, Typed

(* So they hold always. *)
LEMMA PolicyTypedAlways == PolicySpec => [](PolicyTypeOK /\ Typed)
BY PolicyTypedInit, PolicyTypedStep, PTL DEF PolicySpec

(* The policy, the registry, the arena and the callbacks keep their types  *)
(* (policy_runtime.h, the generated loops and p4c_allocate).               *)
THEOREM PolicyTypeCorrect == PolicySpec => []PolicyTypeOK
BY PolicyTypedAlways, PTL

-----------------------------------------------------------------------------
(* A full arena stays full. *)

ArenaInv == Typed /\ BelowBump /\ LiveDisjoint

(* The arena is empty. *)
LEMMA ArenaInvInit == PolicyInit => ArenaInv
BY TypedInit, LayoutInit DEF PolicyInit, ArenaInv

(* A step of the policy runtime is one of the runtime, which keeps its     *)
(* layout.                                                                 *)
LEMMA ArenaInvStep ==
  PolicyTypeOK /\ ArenaInv /\ [PolicyNext]_allVars => ArenaInv'
BY PolicyStepIsRuntimeStep, TypedStep, LayoutStep DEF ArenaInv

(* The bump pointer is never the base of a live allocation, so that only   *)
(* the size and the bump pointer decide whether an allocation fits.        *)
LEMMA BumpIsFree ==
  ASSUME ArenaInv
  PROVE  AllocationAt(NextBase) = {}
<1>1. /\ used \in Nat /\ ArenaBase \in Nat /\ ArenaBase + used <= MaxWord
      /\ \A a \in allocations : a.base \in Nat /\ a.size \in Nat
  BY WordAssumption
  DEF ArenaInv, Typed, TypeOK, UsedWithinCapacity, Allocation, Words
<1>2. ArenaBase + used \in Words
  BY <1>1, WordAssumption DEF Words
<1>3. NextBase = ArenaBase + used
  BY <1>2, WrapIsIdentity DEF NextBase
<1>4. \A a \in allocations : a.base < NextBase
  BY <1>1, <1>3 DEF ArenaInv, BelowBump
<1> QED BY <1>1, <1>3, <1>4 DEF AllocationAt

(* The bump offset never goes back. *)
LEMMA UsedGrows ==
  ASSUME ArenaInv, [Next]_vars
  PROVE  used' \in Nat /\ used \in Nat /\ used' >= used
<1>1. /\ TypeOK /\ used \in Words /\ used \in Nat
      /\ UsedWithinCapacity
  BY WordAssumption DEF ArenaInv, Typed, TypeOK, Words
<1>2. CASE UNCHANGED arenaVars
  BY <1>1, <1>2 DEF arenaVars
<1>3. CASE \E a \in allocations : Erase(a)
  BY <1>1, <1>3 DEF Erase
<1>4. CASE \E size \in Words : CanAllocate(size) /\ used' = used + AlignedSize(size)
  BY <1>1, <1>4, AllocationFits
<1> QED BY <1>1, <1>2, <1>3, <1>4, ArenaStepKinds

(* So a request that does not fit will never fit. *)
LEMMA FullStaysFull ==
  ASSUME ArenaInv, [Next]_vars, NEW size \in Words, ~ CanAllocate(size)
  PROVE  ~ CanAllocate(size)'
<1>1. used' \in Nat /\ used \in Nat /\ used' >= used
  BY UsedGrows
<1>2. AllocationAt(NextBase) = {}
  BY BumpIsFree
<1>3. /\ used <= ArenaSize /\ used <= MaxWord - ArenaBase
      /\ ArenaSize \in Nat /\ MaxWord \in Nat /\ ArenaBase \in Nat
  BY <1>1, WordAssumption DEF ArenaInv, Typed, UsedWithinCapacity, Words
<1>4. AlignedSize(size) \in Nat
  BY WordAssumption, SMT DEF AlignedSize, Wrap, Words, kAlignment
<1> QED BY <1>1, <1>2, <1>3, <1>4 DEF CanAllocate

-----------------------------------------------------------------------------
(* The fallback of allocate_from_callback. *)

(* After start-up nothing is registered any more. *)
LEMMA SitesAreFixedWhenReady ==
  ASSUME PolicyTypeOK, [PolicyNext]_allVars, stage = "ready"
  PROVE  sites' = sites /\ types' = types /\ stage' = stage
<1>1. ASSUME NEW size, NEW pc, AllocateFromPc(size, pc)
      PROVE  UNCHANGED registryVars
  BY <1>1 DEF AllocateFromPc, AllocateWithHash
<1>2. ASSUME NEW ptr, Release(ptr) PROVE UNCHANGED registryVars
  BY <1>2 DEF Release, Erase, registryVars
<1>3. ASSUME NEW ptr, NEW size, Reallocate(ptr, size)
      PROVE  UNCHANGED registryVars
  BY <1>3 DEF Reallocate, Erase, registryVars
<1> QED
  BY <1>1, <1>2, <1>3
  DEF PolicyNext, Construct, RegisterNextType, EndOfTypes, RegisterNextSite,
      EndOfSites, BeginAllocate, Lookup, FirstLookup, SecondLookup,
      CallbackRelease, CallbackReallocate, allVars, policyVars, vars, registryVars

CallbacksOnlyWhenReady ==
  \A t \in Threads : callback[t].at # "idle" => stage = "ready"

FallbackInv == CallbacksOnlyWhenReady /\ FallbackNeverReattributes

(* No thread is between its lookups. *)
LEMMA FallbackInit == PolicyInit => FallbackInv
BY DEF PolicyInit, FallbackInv, CallbacksOnlyWhenReady,
       FallbackNeverReattributes, Idle

(* One callback at a time moves; what the others wait for stays true.      *)
LEMMA FallbackStep ==
  PolicyTypeOK /\ ArenaInv /\ FallbackInv /\ [PolicyNext]_allVars => FallbackInv'
<1> SUFFICES ASSUME PolicyTypeOK, ArenaInv, FallbackInv, [PolicyNext]_allVars,
                    NEW t \in Threads
             PROVE  /\ callback'[t].at # "idle" => stage' = "ready"
                    /\ callback'[t].at = "second" /\ FindSite(callback[t].pc)' # {}
                         => ~ CanAllocate(callback[t].size)'
  BY DEF FallbackInv, CallbacksOnlyWhenReady, FallbackNeverReattributes
<1>1. /\ callback \in [Threads -> Callback]
      /\ 0 \in Words /\ Sizes \subseteq Words
  BY WordAssumption, InputAssumption DEF PolicyTypeOK, Words
<1>2. [Next]_vars
  BY PolicyStepIsRuntimeStep
<1>3. callback[t].size \in Words
  BY <1>1 DEF Callback
<1>4. CASE callback'[t] = callback[t]
  <2>1. callback[t].at # "idle" =>
          stage = "ready" /\ stage' = stage /\ sites' = sites
    BY SitesAreFixedWhenReady DEF FallbackInv, CallbacksOnlyWhenReady
  <2>2. callback[t].at = "second" /\ FindSite(callback[t].pc) # {}
          => ~ CanAllocate(callback[t].size)'
    <3>1. PICK size \in Words : size = callback[t].size
      BY <1>3
    <3>2. callback'[t].size = size
      BY <1>4, <3>1
    <3>3. ~ CanAllocate(size) => ~ CanAllocate(size)'
      BY <1>2, FullStaysFull
    <3>4. CanAllocate(callback[t].size)' <=> CanAllocate(size)'
      BY <3>2 DEF CanAllocate, AlignedSize
    <3> QED
      BY <3>1, <3>3, <3>4 DEF FallbackInv, FallbackNeverReattributes
  <2>3. callback[t].at # "idle" =>
          FindSite(callback[t].pc)' = FindSite(callback[t].pc)
    BY <1>4, <2>1 DEF FindSite, IsSiteAtOrBefore
  <2> QED BY <1>4, <2>1, <2>2, <2>3
<1>5. CASE callback'[t] # callback[t]
  <2>1. PICK u \in Threads :
          \/ \E size \in Sizes, pc, next_pc \in Pcs :
               BeginAllocate(u, size, pc, next_pc)
          \/ FirstLookup(u) \/ SecondLookup(u)
    BY <1>5 DEF PolicyNext, Construct, RegisterNextType, EndOfTypes,
                RegisterNextSite, EndOfSites, Lookup, CallbackRelease,
                CallbackReallocate, allVars
  <2>2. u = t
    BY <1>1, <1>5, <2>1 DEF BeginAllocate, FirstLookup, SecondLookup
  <2>3. CASE \E size \in Sizes, pc, next_pc \in Pcs :
               BeginAllocate(t, size, pc, next_pc)
    BY <1>1, <2>3 DEF BeginAllocate, policyVars
  <2>4. CASE SecondLookup(t)
    BY <1>1, <2>4 DEF SecondLookup, Idle
  <2>5. CASE FirstLookup(t)
    <3>1. stage = "ready" /\ stage' = stage
      BY <2>5 DEF FirstLookup, policyVars, FallbackInv, CallbacksOnlyWhenReady
    <3>2. CASE callback'[t] = Idle
      BY <3>1, <3>2 DEF Idle
    <3>3. CASE callback'[t] # Idle
      <4>1. /\ ~ CanAllocateFromPc(callback[t].size, callback[t].pc)
            /\ UNCHANGED vars
            /\ callback'[t] = [callback[t] EXCEPT !.at = "second"]
        BY <1>1, <2>5, <3>3 DEF FirstLookup, AfterFirst
      <4>2. callback'[t].pc = callback[t].pc /\ callback'[t].size = callback[t].size
        BY <1>1, <4>1 DEF Callback
      <4>3. FindSite(callback[t].pc)' = FindSite(callback[t].pc)
        BY <4>1, <4>2 DEF vars, FindSite, IsSiteAtOrBefore
      <4>4. CanAllocate(callback[t].size)' = CanAllocate(callback[t].size)
        BY <4>1, <4>2 DEF vars, CanAllocate, AllocationAt, NextBase
      <4> QED BY <3>1, <4>1, <4>3, <4>4 DEF CanAllocateFromPc
    <3> QED BY <3>2, <3>3
  <2> QED BY <2>1, <2>2, <2>3, <2>4, <2>5
<1> QED BY <1>4, <1>5

(* When the first lookup of a callback failed although its program counter *)
(* has a site, the second lookup fails too, whatever the other threads did *)
(* in between (allocate_from_callback, allocate_with_hash_unlocked).       *)
THEOREM FallbackNeverMisattributes ==
  PolicySpec => []FallbackNeverReattributes
<1>1. FallbackInv => FallbackNeverReattributes
  BY DEF FallbackInv
<1> QED
  BY <1>1, PolicyTypedAlways, ArenaInvInit, ArenaInvStep, FallbackInit,
     FallbackStep, PTL
  DEF PolicySpec

-----------------------------------------------------------------------------
(* Start-up. *)

TypesUpTo(n) ==
  \A id \in TypeIds, h \in TypeHashes :
    types[id] = h <=> \E i \in 1 .. n :
                        policy.types[i] = [id |-> id, type_hash |-> h]

SiteOf(s) ==
  [id |-> s.site_id, begin |-> resolve[s.begin_symbol],
   end |-> resolve[s.end_symbol], type_id |-> s.type_id,
   type_hash |-> types[s.type_id]]

SitesUpTo(n) == sites = {SiteOf(policy.sites[i]) : i \in 1 .. n}

(* How far the constructor has come; a registration that failed in the     *)
(* first loop is remembered by types_ok and ends it after the loop.        *)
StartUpInv ==
  /\ stage = "types" => /\ next <= Len(policy.types) + 1
                        /\ sites = {}
                        /\ types_ok => TypesUpTo(next - 1)
  /\ stage = "sites" => /\ next <= Len(policy.sites) + 1
                        /\ TypesUpTo(Len(policy.types))
                        /\ SitesUpTo(next - 1)
  /\ stage = "ready" => /\ TypesUpTo(Len(policy.types))
                        /\ SitesUpTo(Len(policy.sites))

(* Nothing is registered, and nothing was refused. *)
LEMMA StartUpInit == PolicyInit => StartUpInv
<1> SUFFICES ASSUME PolicyInit PROVE StartUpInv
  OBVIOUS
<1>1. /\ stage = "types" /\ next = 1 /\ sites = {}
      /\ \A id \in TypeIds : types[id] = NoHash
  BY DEF PolicyInit, Init
<1>2. Len(policy.types) \in Nat
  BY PolicyParts DEF PolicyInit
<1>3. TypesUpTo(0)
  <2> SUFFICES ASSUME NEW id \in TypeIds, NEW h \in TypeHashes
               PROVE  ~(types[id] = h)
    BY DEF TypesUpTo
  <2> QED BY <1>1, NameAssumption
<1>4. next - 1 = 0 /\ next <= Len(policy.types) + 1
  BY <1>1, <1>2
<1> QED BY <1>1, <1>3, <1>4 DEF StartUpInv

(* After one more turn of the first loop one more type is registered. *)
LEMMA OneMoreType ==
  ASSUME PolicyTypeOK, TypesUpTo(next - 1), next <= Len(policy.types),
         CanRegisterType(policy.types[next].id, policy.types[next].type_hash),
         RegisterType(policy.types[next].id, policy.types[next].type_hash)
  PROVE  \A id \in TypeIds, h \in TypeHashes :
           types'[id] = h <=> \E i \in 1 .. next :
                                policy.types[i] = [id |-> id, type_hash |-> h]
<1> DEFINE t == policy.types[next]
<1>1. next \in Nat \ {0}
  BY PolicyParts DEF PolicyTypeOK
<1>2. t \in [id : TypeIds, type_hash : TypeHashes]
  BY <1>1, PolicyParts, ElementOfSequence DEF PolicyTypeOK
<1>3. \A i : i \in 1 .. next <=> i \in 1 .. (next - 1) \/ i = next
  BY <1>1
<1>4. ASSUME NEW id \in TypeIds, NEW h \in TypeHashes
      PROVE  types'[id] = h <=> \E i \in 1 .. next :
               policy.types[i] = [id |-> id, type_hash |-> h]
  <2>1. types[id] = h <=> \E i \in 1 .. (next - 1) :
                            policy.types[i] = [id |-> id, type_hash |-> h]
    BY DEF TypesUpTo
  <2>2. t = [id |-> id, type_hash |-> h] <=> t.id = id /\ t.type_hash = h
    BY <1>2
  <2>3. /\ types' = [types EXCEPT ![t.id] = t.type_hash]
        /\ types[t.id] = NoHash
        /\ types \in [TypeIds -> TypeHashes \cup {NoHash}]
    BY DEF RegisterType, CanRegisterType, PolicyTypeOK, TypeOK
  <2>4. types'[id] = h <=> types[id] = h \/ (t.id = id /\ t.type_hash = h)
    BY <1>2, <2>3, NameAssumption
  <2> QED BY <1>3, <2>1, <2>2, <2>4
<1> QED BY <1>4

(* After one more turn of the second loop one more site is registered. *)
LEMMA OneMoreSite ==
  ASSUME PolicyTypeOK, SitesUpTo(next - 1), next <= Len(policy.sites),
         sites' = sites \cup {SiteOf(policy.sites[next])}
  PROVE  sites' = {SiteOf(policy.sites[i]) : i \in 1 .. next}
<1>1. next \in Nat \ {0}
  BY PolicyParts DEF PolicyTypeOK
<1>2. 1 .. next = (1 .. (next - 1)) \cup {next}
  BY <1>1
<1> QED BY <1>2, Zenon DEF SitesUpTo

(* Every step of initialize keeps the count of what is registered. *)
LEMMA StartUpStep ==
  PolicyTypeOK /\ StartUpInv /\ [PolicyNext]_allVars => StartUpInv'
<1> SUFFICES ASSUME PolicyTypeOK, StartUpInv, [PolicyNext]_allVars
             PROVE  StartUpInv'
  OBVIOUS
<1>1. /\ next \in Nat \ {0}
      /\ Len(policy.types) \in Nat /\ Len(policy.sites) \in Nat
  BY PolicyParts DEF PolicyTypeOK
<1>2. CASE RegisterNextType
  <2>1. /\ stage = "types" /\ stage' = "types"
        /\ next <= Len(policy.types) /\ next' = next + 1
        /\ UNCHANGED <<policy, resolve>>
    BY <1>2 DEF RegisterNextType
  <2>2. sites' = {}
    BY <1>2, <2>1 DEF RegisterNextType, RegisterType, StartUpInv, vars
  <2>3. ASSUME types_ok' PROVE TypesUpTo(next - 1)'
    <3>1. /\ types_ok
          /\ CanRegisterType(policy.types[next].id, policy.types[next].type_hash)
          /\ RegisterType(policy.types[next].id, policy.types[next].type_hash)
      BY <1>2, <2>3 DEF RegisterNextType, TypeOutcome
    <3>2. TypesUpTo(next - 1)
      BY <2>1, <3>1 DEF StartUpInv
    <3>3. \A id \in TypeIds, h \in TypeHashes :
            types'[id] = h <=> \E i \in 1 .. next :
                                 policy.types[i] = [id |-> id, type_hash |-> h]
      BY <2>1, <3>1, <3>2, OneMoreType
    <3>4. next' - 1 = next
      BY <1>1, <2>1
    <3> QED BY <2>1, <3>3, <3>4 DEF TypesUpTo
  <2>4. next' <= Len(policy'.types) + 1
    BY <1>1, <2>1
  <2> QED BY <2>1, <2>2, <2>3, <2>4 DEF StartUpInv
<1>3. CASE EndOfTypes
  <2>1. /\ stage = "types" /\ next > Len(policy.types) /\ next' = 1
        /\ UNCHANGED <<vars, policy, resolve>>
        /\ stage' = "failed" \/ (stage' = "sites" /\ types_ok)
    BY <1>3 DEF EndOfTypes
  <2>2. next - 1 = Len(policy.types)
    BY <1>1, <2>1 DEF StartUpInv
  <2>3. stage' = "sites" => TypesUpTo(Len(policy.types))'
    BY <2>1, <2>2 DEF StartUpInv, TypesUpTo, vars
  <2>4. next' - 1 = 0 /\ next' <= Len(policy'.sites) + 1
    BY <1>1, <2>1
  <2>5. SitesUpTo(next - 1)'
    <3>1. sites' = {}
      BY <2>1 DEF StartUpInv, vars
    <3>2. 1 .. 0 = {}
      OBVIOUS
    <3> QED BY <2>4, <3>1, <3>2 DEF SitesUpTo
  <2> QED BY <2>1, <2>3, <2>4, <2>5 DEF StartUpInv
<1>4. CASE RegisterNextSite
  <2>1. /\ stage = "sites" /\ next <= Len(policy.sites)
        /\ UNCHANGED <<policy, resolve>>
        /\ TypesUpTo(Len(policy.types)) /\ SitesUpTo(next - 1)
    BY <1>4 DEF RegisterNextSite, StartUpInv
  <2>2. CASE stage' = "failed"
    BY <2>2 DEF StartUpInv
  <2>3. CASE stage' # "failed"
    <3>1. /\ sites' = sites \cup {SiteOf(policy.sites[next])}
          /\ types' = types
          /\ next' = next + 1
          /\ stage' = "sites"
      BY <1>4, <2>1, <2>3 DEF RegisterNextSite, RegisterAllocationSite, SiteOf
    <3>2. sites' = {SiteOf(policy.sites[i]) : i \in 1 .. next}
      BY <2>1, <3>1, OneMoreSite
    <3>3. next' - 1 = next /\ next' <= Len(policy'.sites) + 1
      BY <1>1, <2>1, <3>1
    <3>4. SitesUpTo(next - 1)'
      BY <2>1, <3>1, <3>2, <3>3 DEF SitesUpTo, SiteOf
    <3>5. TypesUpTo(Len(policy.types))'
      BY <2>1, <3>1 DEF TypesUpTo
    <3> QED BY <3>1, <3>3, <3>4, <3>5 DEF StartUpInv
  <2> QED BY <2>2, <2>3
<1>5. CASE EndOfSites
  <2>1. /\ stage = "sites" /\ next > Len(policy.sites) /\ stage' = "ready"
        /\ UNCHANGED <<vars, policy, resolve>>
    BY <1>5 DEF EndOfSites
  <2>2. next - 1 = Len(policy.sites)
    BY <1>1, <2>1 DEF StartUpInv
  <2> QED
    BY <2>1, <2>2 DEF StartUpInv, TypesUpTo, SitesUpTo, SiteOf, vars
<1>6. CASE UNCHANGED allVars
  BY <1>6
  DEF allVars, policyVars, vars, StartUpInv, TypesUpTo, SitesUpTo, SiteOf
<1>7. CASE stage = "ready"
  <2>1. sites' = sites /\ types' = types /\ stage' = "ready"
    BY <1>7, SitesAreFixedWhenReady
  <2>2. UNCHANGED <<policy, resolve>>
    BY <1>7 DEF PolicyNext, Construct, RegisterNextType, EndOfTypes,
                RegisterNextSite, EndOfSites, BeginAllocate, Lookup, FirstLookup,
                SecondLookup, CallbackRelease, CallbackReallocate, allVars,
                policyVars
  <2> QED
    BY <1>7, <2>1, <2>2 DEF StartUpInv, TypesUpTo, SitesUpTo, SiteOf
<1>8. ASSUME NEW t \in Threads, Lookup(t), stage # "ready" PROVE StartUpInv'
  <2>1. UNCHANGED policyVars /\ UNCHANGED registryVars
    BY <1>8 DEF Lookup, FirstLookup, SecondLookup, AllocateFromPc,
                AllocateWithHash, vars, registryVars
  <2> QED
    BY <2>1 DEF policyVars, registryVars, StartUpInv, TypesUpTo, SitesUpTo, SiteOf
<1> QED
  BY <1>2, <1>3, <1>4, <1>5, <1>6, <1>7, <1>8
  DEF PolicyNext, Construct, BeginAllocate, CallbackRelease, CallbackReallocate

(* Every object was granted to a site that is registered.                  *)
ObjectsHaveSites ==
  \A a \in allocations :
    /\ stage = "ready"
    /\ \E s \in sites : s.id = a.site_id /\ s.type_hash = a.type_hash

(* A callback allocates at a registered site, with its type. *)
LEMMA ObjectsStep ==
  PolicyTypeOK /\ CallbacksOnlyWhenReady /\ ObjectsHaveSites /\ [PolicyNext]_allVars
    => ObjectsHaveSites'
<1> SUFFICES ASSUME PolicyTypeOK, CallbacksOnlyWhenReady, ObjectsHaveSites,
                    [PolicyNext]_allVars, NEW a \in allocations'
             PROVE  /\ stage' = "ready"
                    /\ \E s \in sites' : s.id = a.site_id /\ s.type_hash = a.type_hash
  BY DEF ObjectsHaveSites
<1>1. CASE a \in allocations
  BY <1>1, SitesAreFixedWhenReady DEF ObjectsHaveSites
<1>2. CASE a \notin allocations
  <2>1. ASSUME NEW size, NEW pc, AllocateFromPc(size, pc)
        PROVE  \E s \in sites : s.id = a.site_id /\ s.type_hash = a.type_hash
    BY <1>2, <2>1 DEF AllocateFromPc, FindSite, AllocateWithHash, NewAllocation
  <2>2. ASSUME NEW ptr, NEW size, Reallocate(ptr, size)
        PROVE  \E s \in sites : s.id = a.site_id /\ s.type_hash = a.type_hash
    <3>1. PICK old \in allocations :
            a.type_hash = old.type_hash /\ a.site_id = old.site_id
      BY <1>2, <2>2 DEF Reallocate, AllocationAt, Erase, NewAllocation
    <3> QED BY <3>1 DEF ObjectsHaveSites
  <2>3. \/ \E t \in Threads : /\ callback[t].at # "idle"
                             /\ \E size, pc \in Nat : AllocateFromPc(size, pc)
        \/ stage = "ready" /\ \E ptr, size \in Words : Reallocate(ptr, size)
    <3>1. ASSUME NEW t \in Threads, Lookup(t)
          PROVE  /\ callback[t].at # "idle"
                 /\ \E size, pc \in Nat : AllocateFromPc(size, pc)
      <4>1. callback[t] \in Callback
        BY DEF PolicyTypeOK
      <4>2. /\ callback[t].pc \in Nat /\ callback[t].next_pc \in Nat
            /\ callback[t].size \in Nat
        <5>1. Pcs \subseteq Nat /\ Sizes \cup {0} \subseteq Nat
          BY InputAssumption, WordAssumption DEF Words
        <5> QED BY <4>1, <5>1 DEF Callback
      <4>3. CASE FirstLookup(t)
        BY <1>2, <4>2, <4>3 DEF FirstLookup, vars
      <4>4. CASE SecondLookup(t)
        BY <1>2, <4>2, <4>4 DEF SecondLookup, vars
      <4> QED BY <3>1, <4>3, <4>4 DEF Lookup
    <3>2. ASSUME NEW t \in Threads, NEW ptr \in Words, CallbackRelease(t, ptr)
          PROVE  FALSE
      BY <1>2, <3>2 DEF CallbackRelease, Release, Erase, AllocationAt
    <3>3. ASSUME NEW t \in Threads, NEW ptr \in Words, NEW size \in Sizes,
                 CallbackReallocate(t, ptr, size)
          PROVE  stage = "ready" /\ \E p, z \in Words : Reallocate(p, z)
      BY <3>3, InputAssumption DEF CallbackReallocate
    <3> QED
      BY <1>2, <3>1, <3>2, <3>3
      DEF PolicyNext, Construct, RegisterNextType, RegisterType, EndOfTypes,
          RegisterNextSite, RegisterAllocationSite, EndOfSites, BeginAllocate,
          allVars, vars
  <2>4. stage = "ready"
    BY <2>3 DEF CallbacksOnlyWhenReady
  <2> QED BY <2>1, <2>2, <2>3, <2>4, SitesAreFixedWhenReady
<1> QED BY <1>1, <1>2

StartUpAlways ==
  PolicyTypeOK /\ Typed /\ RegistryConsistent /\ StartUpInv
    /\ CallbacksOnlyWhenReady /\ ObjectsHaveSites

(* So these hold always. *)
LEMMA StartUpIsInvariant == PolicySpec => []StartUpAlways
<1>1. PolicyInit => ObjectsHaveSites /\ CallbacksOnlyWhenReady
  BY DEF PolicyInit, Init, ObjectsHaveSites, CallbacksOnlyWhenReady, Idle
<1>2. PolicyInit => RegistryConsistent
  BY RegistryInit DEF PolicyInit
<1>3. PolicyTypeOK /\ RegistryConsistent /\ [PolicyNext]_allVars
        => RegistryConsistent'
  BY PolicyStepIsRuntimeStep, RegistryStep DEF PolicyTypeOK
<1>4. FallbackInv => CallbacksOnlyWhenReady
  BY DEF FallbackInv
<1>5. PolicySpec => []FallbackInv
  BY PolicyTypedAlways, ArenaInvInit, ArenaInvStep, FallbackInit, FallbackStep,
     PTL DEF PolicySpec
<1> QED
  BY <1>1, <1>2, <1>3, <1>4, <1>5, PolicyTypedAlways, StartUpInit, StartUpStep,
     ObjectsStep, PTL
  DEF PolicySpec, StartUpAlways

(* When callbacks can first be reached, the registry holds every type and  *)
(* every site of the generated policy, as the labels resolve, and no other *)
(* (PolicyRuntime::initialize, the generated loops, Engine).               *)
THEOREM ReadyIsWholePolicy == PolicySpec => []ReadyMeansWholePolicy
<1>1. StartUpAlways => ReadyMeansWholePolicy
  <2> SUFFICES ASSUME StartUpAlways, stage = "ready"
               PROVE  /\ \A id \in TypeIds, h \in TypeHashes :
                           types[id] = h <=> [id |-> id, type_hash |-> h]
                                               \in SequenceElements(policy.types)
                      /\ sites = {SiteOf(s) : s \in SequenceElements(policy.sites)}
                      /\ \A s \in sites : s.begin # 0 /\ s.end # 0
    BY DEF ReadyMeansWholePolicy, SiteOf
  <2>1. \A id \in TypeIds, h \in TypeHashes :
          types[id] = h <=> [id |-> id, type_hash |-> h]
                              \in SequenceElements(policy.types)
    BY DEF StartUpAlways, StartUpInv, TypesUpTo, SequenceElements
  <2>2. sites = {SiteOf(s) : s \in SequenceElements(policy.sites)}
    BY DEF StartUpAlways, StartUpInv, SitesUpTo, SequenceElements
  <2>3. ASSUME NEW s \in sites PROVE s.begin # 0 /\ s.end # 0
    <3>1. s.begin \in Nat /\ s.end \in Nat /\ 0 < s.begin /\ s.begin < s.end
      BY WordAssumption
      DEF StartUpAlways, Typed, TypeOK, AllocationSite, Words,
          RegistryConsistent, SitesIndexed
    <3> QED BY <3>1
  <2> QED BY <2>1, <2>2, <2>3
<1> QED BY <1>1, StartUpIsInvariant, PTL

(* An object exists only for a site of the policy, with the type that the  *)
(* policy names for it, and only once start-up has succeeded               *)
(* (allocate_from_pc, p4c_allocate, P7A_PROVENANCE.md "fails closed").     *)
THEOREM ObjectsAreFromThePolicy == PolicySpec => []ObjectsComeFromPolicy
<1>1. StartUpAlways => ObjectsComeFromPolicy
  <2> SUFFICES ASSUME StartUpAlways, NEW a \in allocations
               PROVE  /\ stage = "ready"
                      /\ \E s \in SequenceElements(policy.sites),
                            b \in SequenceElements(policy.types) :
                           /\ s.site_id = a.site_id
                           /\ s.type_id = b.id
                           /\ b.type_hash = a.type_hash
    BY DEF ObjectsComeFromPolicy
  <2>1. stage = "ready"
    BY DEF StartUpAlways, ObjectsHaveSites
  <2>2. PICK site \in sites : site.id = a.site_id /\ site.type_hash = a.type_hash
    BY DEF StartUpAlways, ObjectsHaveSites
  <2>3. PICK i \in 1 .. Len(policy.sites) : site = SiteOf(policy.sites[i])
    BY <2>1 DEF StartUpAlways, StartUpInv, SitesUpTo
  <2> DEFINE s == policy.sites[i]
             b == [id |-> s.type_id, type_hash |-> types[s.type_id]]
  <2>4. /\ s.site_id = a.site_id /\ types[s.type_id] = a.type_hash
        /\ site.type_id = s.type_id
    BY <2>2, <2>3 DEF SiteOf
  <2>5. s.type_id \in TypeIds /\ types[s.type_id] \in TypeHashes
    BY <2>4 DEF StartUpAlways, Typed, TypeOK, AllocationSite, Allocation
  <2>6. \E j \in 1 .. Len(policy.types) : policy.types[j] = b
    BY <2>1, <2>5 DEF StartUpAlways, StartUpInv, TypesUpTo
  <2>7. b \in SequenceElements(policy.types) /\ s \in SequenceElements(policy.sites)
    BY <2>3, <2>6 DEF SequenceElements
  <2>8. b.id = s.type_id /\ b.type_hash = a.type_hash
    BY <2>4
  <2> QED BY <2>1, <2>4, <2>7, <2>8
<1> QED BY <1>1, StartUpIsInvariant, PTL

-----------------------------------------------------------------------------
(* TrustedUse. *)

-----------------------------------------------------------------------------
(* The generated checks. *)

Laid == Typed /\ BelowBump /\ LiveDisjoint

(* At most one live allocation contains an address, and the search finds   *)
(* it.                                                                     *)
LEMMA FoundIsTheContainer ==
  ASSUME Laid, NEW base \in Words, NEW a \in allocations,
         a.base <= base, base < a.base + a.size
  PROVE  FindAllocation(base) = {a}
<1>1. FindAllocation(base) = {b \in allocations : base \in Extent(b)}
  BY DisjointMakesLookupExact DEF Laid, Typed, LookupExact
<1>2. \A b \in allocations : b.base \in Nat /\ b.size \in Nat
  BY WordAssumption DEF Laid, Typed, TypeOK, Allocation, Words
<1>3. \A b \in allocations :
        base \in Extent(b) <=> b.base <= base /\ base < b.base + b.size
  BY <1>2, WordAssumption DEF Extent, Words
<1>4. \A b \in allocations : base \in Extent(b) => b = a
  BY <1>2, <1>3, WordAssumption DEF Laid, LiveDisjoint, Words
<1> QED BY <1>1, <1>3, <1>4

(* The object that a search finds contains the address. *)
LEMMA FoundContains ==
  ASSUME Laid, NEW base \in Words, FindAllocation(base) # {}
  PROVE  \E a \in allocations : /\ FindAllocation(base) = {a}
                                /\ a.base <= base /\ base < a.base + a.size
<1>1. FindAllocation(base) = {b \in allocations : base \in Extent(b)}
  BY DisjointMakesLookupExact DEF Laid, Typed, LookupExact
<1>2. PICK a \in allocations : base \in Extent(a)
  BY <1>1
<1>3. a.base \in Nat /\ a.size \in Nat
  BY WordAssumption DEF Laid, Typed, TypeOK, Allocation, Words
<1>4. a.base <= base /\ base < a.base + a.size
  BY <1>2, <1>3, WordAssumption DEF Extent, Words
<1> QED BY <1>4, FoundIsTheContainer

(* What a granted check says of the allocation it found. *)
LEMMA GrantIsInside ==
  ASSUME Laid, NEW base \in Words, NEW offset \in Words, NEW bytes \in Words,
         NEW h, Access(base, offset, bytes, h).result = "ok"
  PROVE  /\ Access(base, offset, bytes, h).address = base + offset
         /\ Access(base, offset, bytes, h).bytes = bytes
         /\ \E a \in allocations :
              /\ FindAllocation(base) = {a}
              /\ a.type_hash = h
              /\ a.base <= base /\ base < a.base + a.size
              /\ base + offset + bytes <= a.base + a.size
<1>1. /\ ~ (offset > MaxWord - bytes)
      /\ Check(base, offset + bytes, h) = "ok"
      /\ Access(base, offset, bytes, h)
           = [result |-> "ok", address |-> Wrap(base + offset), bytes |-> bytes]
  BY DEF Access, Refused, Check
<1>2. FindAllocation(base) # {}
  BY <1>1 DEF Check
<1>3. PICK a \in allocations : /\ FindAllocation(base) = {a}
                               /\ a.base <= base /\ base < a.base + a.size
  BY <1>2, FoundContains
<1>4. /\ a.type_hash = h
      /\ offset + bytes <= a.size - (base - a.base)
  BY <1>1, <1>3 DEF Check
<1>5. /\ a.base \in Nat /\ a.size \in Nat
      /\ a.base + a.size <= ArenaBase + used /\ ArenaBase + used <= MaxWord
  BY WordAssumption
  DEF Laid, Typed, TypeOK, Allocation, Words, BelowBump, UsedWithinCapacity
<1>6. used \in Nat
  BY WordAssumption DEF Laid, Typed, TypeOK, Words
<1>7. base + offset + bytes <= a.base + a.size /\ base + offset \in Words
  BY <1>3, <1>4, <1>5, <1>6, WordAssumption DEF Words
<1>8. Wrap(base + offset) = base + offset
  BY <1>7, WrapIsIdentity
<1> QED BY <1>1, <1>3, <1>4, <1>7, <1>8

(* A check says yes exactly when the reference does. *)
LEMMA AccessIsExact ==
  ASSUME Laid, NEW base \in Words, NEW offset \in Words, NEW bytes \in Words,
         NEW h
  PROVE  Access(base, offset, bytes, h).result = "ok"
           <=> Acceptable(base, offset, bytes, h)
<1>1. ASSUME Access(base, offset, bytes, h).result = "ok"
      PROVE  Acceptable(base, offset, bytes, h)
  BY <1>1, GrantIsInside DEF Acceptable
<1>2. ASSUME Acceptable(base, offset, bytes, h)
      PROVE  Access(base, offset, bytes, h).result = "ok"
  <2>1. PICK a \in allocations : /\ a.type_hash = h
                                 /\ a.base <= base /\ base < a.base + a.size
                                 /\ base + offset + bytes <= a.base + a.size
    BY <1>2 DEF Acceptable
  <2>2. FindAllocation(base) = {a}
    BY <2>1, FoundIsTheContainer
  <2>3. /\ a.base \in Nat /\ a.size \in Nat /\ used \in Nat
        /\ a.base + a.size <= ArenaBase + used /\ ArenaBase + used <= MaxWord
    BY WordAssumption
    DEF Laid, Typed, TypeOK, Allocation, Words, BelowBump, UsedWithinCapacity
  <2>4. /\ ~ (offset > MaxWord - bytes)
        /\ offset + bytes <= a.size - (base - a.base)
    BY <2>1, <2>3, WordAssumption DEF Words
  <2>5. Check(base, offset + bytes, h) = "ok"
    BY <2>1, <2>2, <2>4 DEF Check
  <2> QED BY <2>4, <2>5 DEF Access
<1> QED BY <1>1, <1>2

-----------------------------------------------------------------------------
(* The invariant: what T holds was cut out of an allocation of the arena,  *)
(* below the bump pointer, and no other live allocation touches that       *)
(* allocation.                                                             *)

Guards(a, h) ==
  /\ h.owner = {a}
  /\ a.base <= h.address
  /\ h.address + h.bytes <= a.base + a.size

OutOfReach(a) ==
  /\ a.base + a.size <= ArenaBase + used
  /\ \A b \in allocations :
       b # a => a.base + a.size <= b.base \/ b.base + b.size <= a.base

HeldOK ==
  \A c \in Consumers :
    held[c] # NotHolding =>
      \E a \in Allocation : Guards(a, held[c]) /\ OutOfReach(a)

HeldTyped ==
  held \in [Consumers -> [address : Words, bytes : Words,
                          owner : SUBSET Allocation]]

UseInv == Laid /\ HeldTyped /\ HeldOK

(* A consumer that holds nothing is typed. *)
LEMMA NotHoldingTyped ==
  NotHolding \in [address : Words, bytes : Words, owner : SUBSET Allocation]
BY WordAssumption DEF NotHolding, Words

(* No consumer holds a range. *)
LEMMA UseInvInit == UseInit => UseInv
<1> SUFFICES ASSUME UseInit PROVE UseInv
  OBVIOUS
<1>1. TypeOK
  <2>1. types \in [TypeIds -> TypeHashes \cup {NoHash}]
    BY UseAssumption DEF UseInit, AfterStartUp
  <2>2. type_ids \in [TypeHashes -> TypeIds \cup {0}]
    BY DEF UseInit, AfterStartUp
  <2>3. site_types \in [SiteIds -> TypeHashes \cup {NoHash}]
    BY UseAssumption DEF UseInit, AfterStartUp
  <2>4. /\ sites \subseteq AllocationSite
        /\ sites_by_id \in [SiteIds -> Words]
        /\ allocations \subseteq Allocation
        /\ used \in Words
    BY WordAssumption DEF UseInit, AfterStartUp, Words
  <2> QED BY <2>1, <2>2, <2>3, <2>4 DEF TypeOK
<1>2. UsedWithinCapacity /\ BelowBump /\ LiveDisjoint
  BY WordAssumption
  DEF UseInit, AfterStartUp, UsedWithinCapacity, BelowBump, LiveDisjoint,
      Words, kAlignment
<1>3. HeldTyped /\ HeldOK
  BY NotHoldingTyped DEF UseInit, HeldTyped, HeldOK
<1> QED BY <1>1, <1>2, <1>3 DEF UseInv, Laid, Typed

(* A callback of U takes no byte of an allocation that T depends on.       *)
LEMMA OutOfReachStays ==
  ASSUME Laid, [Next]_vars, NEW a \in Allocation, OutOfReach(a)
  PROVE  OutOfReach(a)'
<1>1. TypeOK /\ UsedWithinCapacity /\ used \in Nat /\ ArenaBase \in Nat
  BY WordAssumption DEF Laid, Typed, TypeOK, Words
<1>2. CASE UNCHANGED arenaVars
  BY <1>2 DEF arenaVars, OutOfReach
<1>3. CASE \E b \in allocations : Erase(b)
  BY <1>3 DEF Erase, OutOfReach
<1>4. ASSUME NEW size \in Words, NEW h \in TypeHashes, NEW id \in SiteIds,
             CanAllocate(size),
             used' = used + AlignedSize(size),
             allocations' \subseteq allocations \cup {NewAllocation(size, h, id)}
      PROVE  OutOfReach(a)'
  <2>1. NextBase = ArenaBase + used /\ AlignedSize(size) \in Nat
    BY <1>1, <1>4, AllocationFits DEF Typed, TypeOK
  <2>2. NewAllocation(size, h, id).base = ArenaBase + used
    BY <2>1 DEF NewAllocation
  <2>3. a.base \in Nat /\ a.size \in Nat
    BY WordAssumption DEF Allocation, Words
  <2>4. a.base + a.size <= ArenaBase + used'
    BY <1>1, <1>4, <2>1, <2>3 DEF OutOfReach
  <2>5. ASSUME NEW b \in allocations', b # a
        PROVE  a.base + a.size <= b.base \/ b.base + b.size <= a.base
    BY <1>4, <2>2, <2>5 DEF OutOfReach
  <2> QED BY <2>4, <2>5 DEF OutOfReach
<1> QED BY <1>1, <1>2, <1>3, <1>4, ArenaStepKinds

(* What a consumer receives with a grant. *)
LEMMA GrantIsOutOfReach ==
  ASSUME Laid, NEW base \in Words, NEW offset \in Words, NEW bytes \in Words,
         NEW h, Access(base, offset, bytes, h).result = "ok"
  PROVE  LET range == [address |-> Access(base, offset, bytes, h).address,
                       bytes |-> Access(base, offset, bytes, h).bytes,
                       owner |-> FindAllocation(base)] IN
         /\ range \in [address : Words, bytes : Words, owner : SUBSET Allocation]
         /\ \E a \in Allocation : Guards(a, range) /\ OutOfReach(a)
<1> DEFINE range == [address |-> Access(base, offset, bytes, h).address,
                     bytes |-> Access(base, offset, bytes, h).bytes,
                     owner |-> FindAllocation(base)]
<1>1. /\ Access(base, offset, bytes, h).address = base + offset
      /\ Access(base, offset, bytes, h).bytes = bytes
  BY GrantIsInside
<1>2. PICK a \in allocations : /\ FindAllocation(base) = {a}
                              /\ a.base <= base
                              /\ base + offset + bytes <= a.base + a.size
  BY GrantIsInside
<1>3. /\ a \in Allocation /\ a.base \in Nat /\ a.size \in Nat /\ used \in Nat
      /\ a.base + a.size <= ArenaBase + used /\ ArenaBase + used <= MaxWord
  BY WordAssumption
  DEF Laid, Typed, TypeOK, Allocation, Words, BelowBump, UsedWithinCapacity
<1>4. /\ base \in Nat /\ offset \in Nat /\ bytes \in Nat
      /\ MaxWord \in Nat /\ ArenaBase \in Nat
  BY WordAssumption DEF Words
<1>5. base + offset \in Words
  BY <1>2, <1>3, <1>4 DEF Words
<1>6. Guards(a, range)
  BY <1>1, <1>2, <1>3, <1>4 DEF Guards
<1>7. OutOfReach(a)
  BY <1>3 DEF OutOfReach, Laid, LiveDisjoint
<1>8. range \in [address : Words, bytes : Words, owner : SUBSET Allocation]
  BY <1>1, <1>2, <1>3, <1>5
<1> QED BY <1>3, <1>6, <1>7, <1>8

(* A range that was checked is taken over together with its owner. *)
LEMMA GrabStep ==
  ASSUME UseInv, NEW c \in Consumers, NEW base \in Words, NEW offset \in Words,
         NEW bytes \in Words, NEW h, Grab(c, base, Access(base, offset, bytes, h))
  PROVE  UseInv'
<1> DEFINE range == [address |-> Access(base, offset, bytes, h).address,
                     bytes |-> Access(base, offset, bytes, h).bytes,
                     owner |-> FindAllocation(base)]
<1>1. /\ Access(base, offset, bytes, h).result = "ok"
      /\ held' = [held EXCEPT ![c] = range]
      /\ UNCHANGED vars
  BY DEF Grab
<1>2. /\ range \in [address : Words, bytes : Words, owner : SUBSET Allocation]
      /\ \E a \in Allocation : Guards(a, range) /\ OutOfReach(a)
  BY <1>1, GrantIsOutOfReach DEF UseInv
<1> HIDE DEF range
<1>3. Laid'
  BY <1>1 DEF UseInv, Laid, Typed, TypeOK, UsedWithinCapacity, BelowBump,
              LiveDisjoint, vars
<1>4. HeldTyped'
  BY <1>1, <1>2 DEF UseInv, HeldTyped
<1>5. \A a \in Allocation : OutOfReach(a) => OutOfReach(a)'
  BY <1>1 DEF OutOfReach, vars
<1>6. ASSUME NEW d \in Consumers, held'[d] # NotHolding
      PROVE  \E a \in Allocation : Guards(a, held'[d]) /\ OutOfReach(a)'
  <2>1. CASE d = c
    BY <1>1, <1>2, <1>5, <2>1 DEF UseInv, HeldTyped
  <2>2. CASE d # c
    BY <1>1, <1>5, <1>6, <2>2 DEF UseInv, HeldTyped, HeldOK
  <2> QED BY <2>1, <2>2
<1>7. HeldOK'
  BY <1>6 DEF HeldOK, Guards
<1> QED BY <1>3, <1>4, <1>7 DEF UseInv

(* Whatever U does to its objects, a held range stays with its owner. *)
LEMMA UseInvStep == UseInv /\ [UseNext]_useVars => UseInv'
<1> SUFFICES ASSUME UseInv, [UseNext]_useVars PROVE UseInv'
  OBVIOUS
<1>1. ASSUME NEW c \in Consumers, NEW base \in Words,
             NEW entry \in AccessPolicies, CheckFixed(c, base, entry)
      PROVE  UseInv'
  BY <1>1, GrabStep, UseAssumption DEF CheckFixed, checked_access
<1>2. ASSUME NEW c \in Consumers, NEW base \in Words, NEW length \in Lengths,
             NEW entry \in AccessPolicies,
             CheckDynamic(c, base, length, entry)
      PROVE  UseInv'
  <2>1. checked_dynamic_access(base, length, entry)
          = Access(base, entry.offset, length, entry.type_hash)
    BY <1>2 DEF CheckDynamic, Grab, checked_dynamic_access, Refused
  <2>2. entry.offset \in Words /\ length \in Words
    BY UseAssumption
  <2>3. Grab(c, base, Access(base, entry.offset, length, entry.type_hash))
    BY <1>2, <2>1 DEF CheckDynamic
  <2> QED BY <2>2, <2>3, GrabStep
<1>3. ASSUME NEW c \in Consumers, UseRange(c) PROVE UseInv'
  <2>1. held' = [held EXCEPT ![c] = NotHolding] /\ UNCHANGED vars
    BY <1>3 DEF UseRange
  <2>2. Laid'
    BY <2>1 DEF UseInv, Laid, Typed, TypeOK, UsedWithinCapacity, BelowBump,
                LiveDisjoint, vars
  <2>3. HeldTyped'
    BY <2>1, NotHoldingTyped DEF UseInv, HeldTyped
  <2>4. HeldOK'
    BY <2>1 DEF UseInv, HeldTyped, HeldOK, Guards, OutOfReach, vars
  <2> QED BY <2>2, <2>3, <2>4 DEF UseInv
<1>4. ASSUME [Next]_vars, UNCHANGED held PROVE UseInv'
  <2>1. Laid'
    BY <1>4, TypedStep, LayoutStep DEF UseInv, Laid
  <2>2. HeldTyped'
    BY <1>4 DEF UseInv, HeldTyped
  <2>3. \A a \in Allocation : OutOfReach(a) => OutOfReach(a)'
    BY <1>4, OutOfReachStays DEF UseInv
  <2>4. HeldOK'
    BY <1>4, <2>3 DEF UseInv, HeldOK, Guards
  <2> QED BY <2>1, <2>2, <2>4 DEF UseInv
<1>5. SandboxCall => [Next]_vars /\ UNCHANGED held
  BY DEF SandboxCall, Next
<1>6. UNCHANGED useVars => [Next]_vars /\ UNCHANGED held
  BY DEF useVars
<1> QED BY <1>1, <1>2, <1>3, <1>4, <1>5, <1>6 DEF UseNext

(* So the invariant holds always. *)
LEMMA UseInvAlways == UseSpec => []UseInv
BY UseInvInit, UseInvStep, PTL DEF UseSpec

-----------------------------------------------------------------------------
(* The results. *)

(* The registry, the arena and every range that T holds keep their types   *)
(* (runtime.h and the generated checks).                                   *)
THEOREM UseTypeCorrect == UseSpec => []UseTypeOK
<1>1. UseInv => UseTypeOK
  BY DEF UseInv, Laid, Typed, HeldTyped, UseTypeOK
<1> QED BY <1>1, UseInvAlways, PTL

(* The check that the generators emit (checked_access,                     *)
(* checked_dynamic_access) says yes exactly when the bytes belong to one   *)
(* live object of the type, and the address it hands out is the policy's.  *)
THEOREM AcceptanceExact == UseSpec => []AcceptanceIsExact
<1>1. UseInv => AcceptanceIsExact
  <2> SUFFICES ASSUME UseInv, NEW base \in Words, NEW entry \in AccessPolicies
               PROVE  /\ checked_access(base, entry).result = "ok" <=>
                           Acceptable(base, entry.offset, entry.bytes,
                                      entry.type_hash)
                      /\ checked_access(base, entry).result = "ok" =>
                           checked_access(base, entry).address
                             = base + entry.offset
                      /\ \A length \in Lengths :
                           /\ checked_dynamic_access(base, length, entry).result
                                = "ok" <=>
                                /\ entry.bytes = 0
                                /\ Acceptable(base, entry.offset, length,
                                              entry.type_hash)
                           /\ wasm_check(base, length, entry) =
                                IF entry.bytes # 0
                                THEN checked_access(base, entry).result
                                ELSE checked_dynamic_access(base, length,
                                                            entry).result
    BY DEF AcceptanceIsExact
  <2>1. Laid
    BY DEF UseInv
  <2>2. entry.offset \in Words /\ entry.bytes \in Words
    BY UseAssumption
  <2>3. checked_access(base, entry).result = "ok" <=>
          Acceptable(base, entry.offset, entry.bytes, entry.type_hash)
    BY <2>1, <2>2, AccessIsExact DEF checked_access
  <2>4. checked_access(base, entry).result = "ok" =>
          checked_access(base, entry).address = base + entry.offset
    BY <2>1, <2>2, GrantIsInside DEF checked_access
  <2>5. ASSUME NEW length \in Lengths
        PROVE  checked_dynamic_access(base, length, entry).result = "ok" <=>
                 /\ entry.bytes = 0
                 /\ Acceptable(base, entry.offset, length, entry.type_hash)
    <3>1. length \in Words
      BY UseAssumption
    <3>2. CASE entry.bytes = 0
      BY <2>1, <2>2, <3>1, <3>2, AccessIsExact DEF checked_dynamic_access
    <3>3. CASE entry.bytes # 0
      BY <3>3 DEF checked_dynamic_access, Refused
    <3> QED BY <3>2, <3>3
  <2>6. ASSUME NEW length \in Lengths
        PROVE  wasm_check(base, length, entry) =
                 IF entry.bytes # 0 THEN checked_access(base, entry).result
                 ELSE checked_dynamic_access(base, length, entry).result
    BY DEF wasm_check, wasm_bytes, checked_access, checked_dynamic_access
  <2> QED BY <2>3, <2>4, <2>5, <2>6
<1> QED BY <1>1, UseInvAlways, PTL

(* Between a check and the use of the range it granted, no callback makes  *)
(* the bytes part of another object (allocate_with_hash_unlocked never     *)
(* moves the bump pointer back).                                           *)
THEOREM HeldRangeNeverReused == UseSpec => []HeldRangeIsNeverReused
<1>1. UseInv => HeldRangeIsNeverReused
  <2> SUFFICES ASSUME UseInv, NEW c \in Consumers, NEW b \in allocations,
                      Extent(b) \cap
                        (held[c].address .. (held[c].address + held[c].bytes - 1))
                        # {}
               PROVE  held[c].owner = {b}
    BY DEF HeldRangeIsNeverReused
  <2>1. /\ held[c].address \in Nat /\ held[c].bytes \in Nat
        /\ b.base \in Nat /\ b.size \in Nat
    BY WordAssumption
    DEF UseInv, HeldTyped, Words, Laid, Typed, TypeOK, Allocation
  <2>2. PICK byte \in Extent(b) :
          byte \in held[c].address .. (held[c].address + held[c].bytes - 1)
    OBVIOUS
  <2>3. /\ byte \in Int /\ b.base <= byte /\ byte < b.base + b.size
        /\ held[c].address <= byte /\ byte < held[c].address + held[c].bytes
    BY <2>1, <2>2 DEF Extent
  <2>4. held[c] # NotHolding
    BY <2>3 DEF NotHolding
  <2>5. PICK a \in Allocation : Guards(a, held[c]) /\ OutOfReach(a)
    BY <2>4 DEF UseInv, HeldOK
  <2>6. a.base \in Nat /\ a.size \in Nat
    BY WordAssumption DEF Allocation, Words
  <2>7. b = a
    BY <2>1, <2>3, <2>5, <2>6 DEF Guards, OutOfReach
  <2> QED BY <2>5, <2>7 DEF Guards
<1> QED BY <1>1, UseInvAlways, PTL

(* A range that T holds lies inside the allocation that vouched for it,    *)
(* released since or not (Check compares with the remaining bytes).        *)
THEOREM HeldRangeInside == UseSpec => []HeldRangeInsideOwner
<1>1. UseInv => HeldRangeInsideOwner
  BY DEF UseInv, HeldOK, HeldRangeInsideOwner, Guards, NotHolding
<1> QED BY <1>1, UseInvAlways, PTL

-----------------------------------------------------------------------------
(* NaClArena and NaClCallbacks. *)

-----------------------------------------------------------------------------
(* Pages. *)

(* Pages and their addresses are in the same order. *)
LEMMA Mult ==
  ASSUME NEW m \in Nat, NEW n \in Nat
  PROVE  /\ m * PageSize \in Nat
         /\ (m + 1) * PageSize = m * PageSize + PageSize
         /\ m <= n <=> m * PageSize <= n * PageSize
         /\ m < n <=> m * PageSize < n * PageSize
         /\ m < n => m * PageSize + PageSize <= n * PageSize
<1>1. PageSize \in Nat /\ PageSize > 0
  BY AddressAssumption
<1>2. /\ m * PageSize \in Nat /\ n * PageSize \in Nat
      /\ (m + 1) * PageSize = m * PageSize + PageSize
  BY <1>1
<1>3. ASSUME NEW i \in Nat, NEW j \in Nat, i < j
      PROVE  i * PageSize + PageSize <= j * PageSize
  <2>1. j - i - 1 \in Nat
    BY <1>3
  <2>2. (j - i - 1) * PageSize \in Nat
    BY <1>1, <2>1
  <2>3. (j - i - 1) * PageSize = j * PageSize - i * PageSize - PageSize
    BY <1>1
  <2>4. i * PageSize \in Nat /\ j * PageSize \in Nat
    BY <1>1
  <2> QED BY <1>1, <2>2, <2>3, <2>4
<1>4. m < n => m * PageSize + PageSize <= n * PageSize
  BY <1>3
<1>5. n < m => n * PageSize + PageSize <= m * PageSize
  BY <1>3
<1>6. m < n \/ n < m \/ m = n
  OBVIOUS
<1> QED BY <1>1, <1>2, <1>4, <1>5, <1>6

(* The page of an address. *)
LEMMA PageOf ==
  ASSUME NEW n \in Nat
  PROVE  /\ n \div PageSize \in Nat
         /\ (n \div PageSize) * PageSize <= n
         /\ n < (n \div PageSize) * PageSize + PageSize
BY AddressAssumption

(* The size of the sandbox's address space. *)
Space == PageCount * PageSize

(* Two lengths that a system call may pass still fit an address: the       *)
(* arguments are narrower than uintptr_t (AddressAssumption).              *)
LEMMA SpaceFits ==
  /\ Space \in Nat
  /\ Space + Space + PageSize <= MaxAddress + 1
  /\ MaxAddress \in Nat /\ PageSize \in Nat /\ PageSize > 0
  /\ UserAddresses = 0 .. (Space - 1)
  /\ MapLengths \subseteq 0 .. Space
  /\ ArenaSizes \subseteq 0 .. Space
<1>1. PageSize \in Nat /\ PageSize > 0 /\ PageCount \in Nat
  BY AddressAssumption
<1>2. (2 * PageCount + 1) * PageSize = Space + Space + PageSize
  BY <1>1 DEF Space
<1>3. Space \in Nat
  BY <1>1 DEF Space
<1> QED BY <1>1, <1>2, <1>3, AddressAssumption DEF Space, UserAddresses

(* A sum that is still an address does not wrap. *)
LEMMA NoWrap ==
  ASSUME NEW n \in Nat, n <= MaxAddress
  PROVE  WrapAddress(n) = n
BY AddressAssumption DEF WrapAddress

(* NaClRoundAllocPage gives the next multiple of the page size. *)
LEMMA RoundedUp ==
  ASSUME NEW n \in Nat, n <= Space + Space
  PROVE  \E r \in Nat : /\ NaClRoundAllocPage(n) = r * PageSize
                        /\ n <= r * PageSize
                        /\ r * PageSize < n + PageSize
<1> DEFINE m == n + PageSize - 1
<1>1. m \in Nat /\ m <= MaxAddress
  BY SpaceFits
<1>2. WrapAddress(m) = m
  BY <1>1, NoWrap
<1> DEFINE r == m \div PageSize
<1>3. NaClRoundAllocPage(n) = r * PageSize
  BY <1>2 DEF NaClRoundAllocPage
<1>4. /\ r \in Nat
      /\ r * PageSize <= m
      /\ m < r * PageSize + PageSize
  BY <1>1, PageOf
<1>5. r * PageSize \in Nat
  BY <1>4, Mult
<1>6. /\ n <= r * PageSize
      /\ r * PageSize < n + PageSize
  <2> HIDE DEF r
  <2> QED BY <1>4, <1>5, SpaceFits
<1> QED BY <1>3, <1>4, <1>6

(* Comparing two starts with two ends, one of them rounded up, tells of two *)
(* ranges of bytes whether they have a page in common.                     *)
LEMMA RangesMeet ==
  ASSUME NEW start \in UserAddresses, NEW length \in MapLengths \ {0},
         NEW first \in Nat, NEW size \in ArenaSizes \ {0},
         first * PageSize + NaClRoundAllocPage(size) <= Space
  PROVE  (/\ start < first * PageSize + NaClRoundAllocPage(size)
          /\ first * PageSize < NaClRoundAllocPage(start + length))
         <=> PagesOf(start, length) \cap PagesOf(first * PageSize, size) # {}
<1>1. /\ start \in Nat /\ start < Space
      /\ length \in Nat /\ length > 0 /\ length <= Space
      /\ size \in Nat /\ size > 0 /\ size <= Space
      /\ PageSize \in Nat /\ PageSize > 0 /\ Space \in Nat
      /\ PageCount \in Nat
  BY SpaceFits, AddressAssumption
<1>2. PICK k \in Nat : /\ NaClRoundAllocPage(size) = k * PageSize
                      /\ size <= k * PageSize
                      /\ k * PageSize < size + PageSize
  <2>1. size <= Space + Space
    BY <1>1
  <2> QED BY <1>1, <2>1, RoundedUp
<1>3. PICK r \in Nat : /\ NaClRoundAllocPage(start + length) = r * PageSize
                      /\ start + length <= r * PageSize
                      /\ r * PageSize < start + length + PageSize
  <2>1. start + length \in Nat /\ start + length <= Space + Space
    BY <1>1
  <2> QED BY <2>1, RoundedUp
<1>4. /\ first * PageSize \in Nat /\ k * PageSize \in Nat
      /\ r * PageSize \in Nat
      /\ first + k \in Nat
      /\ (first + k) * PageSize = first * PageSize + k * PageSize
  BY <1>1, Mult
<1>5. ASSUME NEW p \in Pages
      PROVE  /\ p \in Nat
             /\ p * PageSize \in Nat
             /\ (p + 1) * PageSize = p * PageSize + PageSize
  <2>1. p \in Nat
    BY <1>1 DEF Pages
  <2> QED BY <2>1, Mult
<1>6. ASSUME NEW p \in PagesOf(start, length) \cap PagesOf(first * PageSize, size)
      PROVE  /\ start < first * PageSize + k * PageSize
             /\ first * PageSize < r * PageSize
  <2>1. /\ p \in Pages
        /\ p * PageSize < start + length
        /\ start < (p + 1) * PageSize
        /\ p * PageSize < first * PageSize + size
        /\ first * PageSize < (p + 1) * PageSize
    BY DEF PagesOf
  <2>2. /\ p \in Nat /\ p * PageSize \in Nat
        /\ (p + 1) * PageSize = p * PageSize + PageSize
    BY <2>1, <1>5
  <2>3. first <= p
    <3>1. first < p + 1
      BY <2>1, <2>2, Mult
    <3> QED BY <2>2, <3>1
  <2>4. first * PageSize <= p * PageSize
    BY <2>2, <2>3, Mult
  <2>5. p * PageSize + PageSize <= first * PageSize + k * PageSize
    <3>1. p * PageSize < (first + k) * PageSize
      BY <1>1, <1>2, <1>4, <2>1, <2>2
    <3> QED BY <1>4, <2>2, <3>1, Mult
  <2> QED BY <1>1, <1>3, <1>4, <2>1, <2>2, <2>4, <2>5
<1>7. ASSUME start < first * PageSize + k * PageSize,
             first * PageSize < r * PageSize
      PROVE  \E p \in Pages : p \in PagesOf(start, length)
                               /\ p \in PagesOf(first * PageSize, size)
  <2> DEFINE q == start \div PageSize
  <2>1. /\ q \in Nat /\ q * PageSize \in Nat
        /\ q * PageSize <= start
        /\ start < q * PageSize + PageSize
        /\ (q + 1) * PageSize = q * PageSize + PageSize
    <3>1. q \in Nat
      BY <1>1, PageOf
    <3> QED BY <1>1, <3>1, PageOf, Mult
  <2> HIDE DEF q
  <2>2. first * PageSize < start + length
    <3>1. first * PageSize + PageSize <= r * PageSize
      BY <1>7, Mult
    <3> QED BY <1>1, <1>3, <1>4, <3>1
  <2>3. (first + 1) * PageSize = first * PageSize + PageSize
    BY Mult
  <2>4. CASE first <= q
    <3>1. first * PageSize <= q * PageSize
      BY <2>1, <2>4, Mult
    <3>2. q * PageSize < first * PageSize + size
      <4>1. q * PageSize < (first + k) * PageSize
        BY <1>1, <1>4, <1>7, <2>1
      <4>2. q * PageSize + PageSize <= (first + k) * PageSize
        BY <1>4, <2>1, <4>1, Mult
      <4> QED BY <1>1, <1>2, <1>4, <2>1, <4>2
    <3>3. q \in Pages
      <4>1. q * PageSize < PageCount * PageSize
        BY <1>1, <2>1 DEF Space
      <4>2. q < PageCount
        BY <1>1, <2>1, <4>1, Mult
      <4> QED BY <1>1, <2>1, <4>2 DEF Pages
    <3>4. q \in PagesOf(start, length)
      BY <1>1, <2>1, <3>3 DEF PagesOf
    <3>5. q \in PagesOf(first * PageSize, size)
      BY <1>1, <1>4, <2>1, <3>1, <3>2, <3>3 DEF PagesOf
    <3> QED BY <3>3, <3>4, <3>5
  <2>5. CASE q < first
    <3>1. q * PageSize + PageSize <= first * PageSize
      BY <2>1, <2>5, Mult
    <3>2. first \in Pages
      <4>1. first * PageSize < PageCount * PageSize
        BY <1>1, <1>2, <1>4 DEF Space
      <4>2. first < PageCount
        BY <1>1, <4>1, Mult
      <4> QED BY <1>1, <4>2 DEF Pages
    <3>3. first \in PagesOf(start, length)
      BY <1>1, <1>4, <2>1, <2>2, <2>3, <3>1, <3>2 DEF PagesOf
    <3>4. first \in PagesOf(first * PageSize, size)
      BY <1>1, <1>4, <2>3, <3>2 DEF PagesOf
    <3> QED BY <3>2, <3>3, <3>4
  <2> QED BY <2>1, <2>4, <2>5
<1> QED BY <1>2, <1>3, <1>6, <1>7

-----------------------------------------------------------------------------
(* Either nothing is reserved, or one arena, whose recorded size is the    *)
(* size of what T was given rounded up to pages, within the address space. *)
(* Only so is the comparison of addresses one of pages: the guard adds     *)
(* without looking at overflow.                                            *)
Reserved ==
  /\ typed_arena_size = 0 => arenas = {}
  /\ typed_arena_size # 0 =>
       \E size \in ArenaSizes \ {0} :
         /\ arenas = {[base |-> typed_arena_start, size |-> size]}
         /\ typed_arena_size = NaClRoundAllocPage(size)
         /\ typed_arena_start + typed_arena_size <= Space

NaClArenaInv == NaClTypeOK /\ Reserved /\ ArenaStaysUsable

(* With the arena at whole pages inside the address space, the sums of     *)
(* TypedArenaOverlaps do not wrap, and its test is exact.                  *)
LEMMA ReservedMakesOverlapExact ==
  ASSUME NaClTypeOK, Reserved
  PROVE  OverlapExact
<1> SUFFICES ASSUME NEW start \in UserAddresses, NEW length \in MapLengths \ {0}
             PROVE  TypedArenaOverlaps(start, length) <=>
                      \E arena \in arenas :
                        PagesOf(start, length)
                          \cap PagesOf(arena.base, arena.size) # {}
  BY DEF OverlapExact
<1>1. CASE typed_arena_size = 0
  BY <1>1 DEF Reserved, TypedArenaOverlaps
<1>2. CASE typed_arena_size # 0
  <2>1. PICK size \in ArenaSizes \ {0} :
          /\ arenas = {[base |-> typed_arena_start, size |-> size]}
          /\ typed_arena_size = NaClRoundAllocPage(size)
          /\ typed_arena_start + typed_arena_size <= Space
    BY <1>2 DEF Reserved
  <2>2. PICK first \in Nat : typed_arena_start = first * PageSize
    <3>1. PICK p \in Pages : typed_arena_start = p * PageSize
      BY DEF NaClTypeOK
    <3>2. p \in Nat
      BY AddressAssumption DEF Pages
    <3> QED BY <3>1, <3>2
  <2>3. (/\ start < typed_arena_start + typed_arena_size
         /\ typed_arena_start < NaClRoundAllocPage(start + length))
        <=> PagesOf(start, length)
              \cap PagesOf(typed_arena_start, size) # {}
    BY <2>1, <2>2, RangesMeet
  <2>4. /\ start \in Nat /\ length \in Nat /\ length # 0
        /\ start + length \in Nat /\ start + length <= Space + Space
        /\ start + length <= MaxAddress
    BY SpaceFits
  <2>5. PICK r \in Nat : /\ NaClRoundAllocPage(start + length) = r * PageSize
                        /\ start + length <= r * PageSize
    BY <2>4, RoundedUp
  <2>6. typed_arena_start \in Nat /\ typed_arena_size \in Nat
    <3>1. first * PageSize \in Nat
      BY Mult
    <3>2. typed_arena_size \in Nat
      <4>1. size \in Nat /\ size <= Space + Space
        BY SpaceFits
      <4>2. PICK k \in Nat : typed_arena_size = k * PageSize
        BY <2>1, <4>1, RoundedUp
      <4> QED BY <4>2, Mult
    <3> QED BY <2>2, <3>1, <3>2
  <2>7. /\ WrapAddress(start + length) = start + length
        /\ WrapAddress(typed_arena_start + typed_arena_size)
             = typed_arena_start + typed_arena_size
    <3>1. /\ typed_arena_start + typed_arena_size \in Nat
          /\ typed_arena_start + typed_arena_size <= MaxAddress
      BY <2>1, <2>6, SpaceFits
    <3> QED BY <2>4, <3>1, NoWrap
  <2>8. ~ (start + length < start)
        /\ ~ (NaClRoundAllocPage(start + length) < start)
    <3>1. r * PageSize \in Nat
      BY Mult
    <3> QED BY <2>4, <2>5, <3>1
  <2>9. TypedArenaOverlaps(start, length) <=>
          /\ start < typed_arena_start + typed_arena_size
          /\ typed_arena_start < NaClRoundAllocPage(start + length)
    BY <1>2, <2>4, <2>7, <2>8 DEF TypedArenaOverlaps
  <2>10. (\E arena \in arenas : PagesOf(start, length)
                                  \cap PagesOf(arena.base, arena.size) # {})
         <=> PagesOf(start, length) \cap PagesOf(typed_arena_start, size) # {}
    BY <2>1
  <2> QED BY <2>3, <2>9, <2>10
<1> QED BY <1>1, <1>2

(* At the start no arena is reserved. *)
LEMMA NaClArenaInvInit == NaClInit => NaClArenaInv
<1> SUFFICES ASSUME NaClInit
             PROVE  NaClTypeOK /\ Reserved /\ ArenaStaysUsable
  BY DEF NaClArenaInv
<1>1. 0 \in Pages /\ 0 * PageSize = 0 /\ 0 \in 0 .. PageCount
  BY AddressAssumption DEF Pages
<1>2. NaClTypeOK
  <2>1. 0 \in {p * PageSize : p \in Pages}
        /\ 0 \in {n * PageSize : n \in 0 .. PageCount}
    BY <1>1
  <2> QED BY <2>1 DEF NaClInit, NaClTypeOK
<1> QED BY <1>2 DEF NaClInit, Reserved, ArenaStaysUsable

(* A system call changes the pages it names, and no other. *)
LEMMA SetPagesTyped ==
  ASSUME NaClTypeOK, NEW pages, NEW protection \in Protections \cup {"unmapped"},
         SetPages(pages, protection)
  PROVE  /\ mapping' \in [Pages -> Protections \cup {"unmapped"}]
         /\ \A p \in Pages : p \notin pages => mapping'[p] = mapping[p]
         /\ \A p \in Pages : p \in pages => mapping'[p] = protection
BY DEF NaClTypeOK, SetPages

(* reserveTypedArena maps free pages, all of those that it records. *)
LEMMA ReserveKeeps ==
  ASSUME NaClArenaInv, NEW size \in ArenaSizes, ReserveTypedArena(size)
  PROVE  NaClArenaInv'
<1>1. /\ size # 0 /\ typed_arena_size = 0 /\ arenas = {}
      /\ NaClTypeOK
  BY DEF ReserveTypedArena, CanReserve, NaClArenaInv, Reserved
<1>2. PICK first \in FreeRuns(NaClRoundAllocPage(size)) :
        /\ SetPages(PagesOf(first * PageSize, size), "read_write")
        /\ typed_arena_start' = first * PageSize
        /\ typed_arena_size' = NaClRoundAllocPage(size)
        /\ arenas' = arenas \cup {[base |-> first * PageSize, size |-> size]}
  BY DEF ReserveTypedArena, RecordedSize
<1>3. /\ first \in Pages /\ first \in Nat
      /\ first * PageSize + NaClRoundAllocPage(size) <= Space
  BY <1>2, AddressAssumption DEF FreeRuns, Space, Pages
<1>4. size \in Nat /\ size > 0 /\ size <= Space + Space
  BY <1>1, SpaceFits
<1>5. PICK k \in Nat : /\ NaClRoundAllocPage(size) = k * PageSize
                      /\ size <= k * PageSize
  BY <1>4, RoundedUp
<1>6. first * PageSize \in Nat /\ k * PageSize \in Nat
  BY <1>3, Mult
<1>7. k \in 0 .. PageCount
  <2>1. k * PageSize <= PageCount * PageSize
    BY <1>3, <1>5, <1>6, SpaceFits DEF Space
  <2>2. PageCount \in Nat
    BY AddressAssumption
  <2>3. k <= PageCount
    BY <2>1, <2>2, Mult
  <2> QED BY <2>2, <2>3
<1>8. arenas' = {[base |-> first * PageSize, size |-> size]}
  BY <1>1, <1>2
<1>9. first * PageSize \in UserAddresses
  BY <1>3, <1>4, <1>5, <1>6, SpaceFits
<1>10. NaClTypeOK'
  <2>1. mapping' \in [Pages -> Protections \cup {"unmapped"}]
    BY <1>1, <1>2, SetPagesTyped DEF Protections
  <2>2. /\ typed_arena_start' \in {p * PageSize : p \in Pages}
        /\ typed_arena_size' \in {n * PageSize : n \in 0 .. PageCount}
    BY <1>2, <1>3, <1>5, <1>7
  <2>3. arenas' \subseteq [base : UserAddresses, size : ArenaSizes]
    BY <1>8, <1>9
  <2> QED BY <2>1, <2>2, <2>3 DEF NaClTypeOK
<1>11. Reserved'
  <2>1. typed_arena_size' # 0
    BY <1>2, <1>4, <1>5, <1>6
  <2> QED BY <1>1, <1>2, <1>3, <1>8, <2>1 DEF Reserved, NaClRoundAllocPage, WrapAddress
<1>12. ArenaStaysUsable'
  <2>1. \A p \in PagesOf(first * PageSize, size) : mapping'[p] = "read_write"
    BY <1>1, <1>2, SetPagesTyped DEF Protections, PagesOf
  <2> QED BY <1>8, <2>1 DEF ArenaStaysUsable, PagesOf
<1> QED BY <1>10, <1>11, <1>12 DEF NaClArenaInv

(* A system call that touches no page of the arena. *)
LEMMA MappingKeeps ==
  ASSUME NaClArenaInv, NEW pages, NEW protection \in Protections \cup {"unmapped"},
         SetPages(pages, protection), UNCHANGED reservationVars,
         \A arena \in arenas :
           pages \cap PagesOf(arena.base, arena.size) = {}
  PROVE  NaClArenaInv'
<1>1. NaClTypeOK /\ Reserved /\ ArenaStaysUsable
  BY DEF NaClArenaInv
<1>2. /\ mapping' \in [Pages -> Protections \cup {"unmapped"}]
      /\ \A p \in Pages : p \notin pages => mapping'[p] = mapping[p]
  BY <1>1, SetPagesTyped
<1>3. NaClTypeOK'
  BY <1>1, <1>2 DEF NaClTypeOK, reservationVars
<1>4. Reserved'
  BY <1>1 DEF Reserved, reservationVars, NaClRoundAllocPage, WrapAddress
<1>5. ArenaStaysUsable'
  BY <1>1, <1>2 DEF ArenaStaysUsable, reservationVars, PagesOf
<1> QED BY <1>3, <1>4, <1>5 DEF NaClArenaInv

(* What TypedArenaOverlaps lets through touches no page of the arena. *)
LEMMA GuardedKeeps ==
  ASSUME NaClArenaInv, NEW start \in UserAddresses, NEW length \in MapLengths,
         ~ TypedArenaOverlaps(start, length)
  PROVE  \A arena \in arenas :
           PagesOf(start, length) \cap PagesOf(arena.base, arena.size) = {}
<1>1. CASE length = 0
  BY <1>1 DEF PagesOf
<1>2. CASE length # 0
  <2>1. OverlapExact
    BY ReservedMakesOverlapExact DEF NaClArenaInv
  <2> QED BY <1>2, <2>1 DEF OverlapExact
<1> QED BY <1>1, <1>2

(* Nor does mmap without MAP_FIXED: the arena's pages are never free. *)
LEMMA FreeKeeps ==
  ASSUME NaClArenaInv, NEW length, NEW first \in FreeRuns(length)
  PROVE  \A arena \in arenas :
           PagesOf(first * PageSize, length)
             \cap PagesOf(arena.base, arena.size) = {}
BY DEF NaClArenaInv, ArenaStaysUsable, FreeRuns

(* A system call that passes the guard meets no page of the arena. *)
LEMMA NaClArenaInvStep == NaClArenaInv /\ [NaClNext]_addressVars => NaClArenaInv'
<1> SUFFICES ASSUME NaClArenaInv, [NaClNext]_addressVars
             PROVE  NaClArenaInv'
  OBVIOUS
<1>1. CASE UNCHANGED addressVars
  BY <1>1 DEF addressVars, reservationVars, NaClArenaInv, NaClTypeOK, Reserved,
              ArenaStaysUsable, NaClRoundAllocPage, WrapAddress, PagesOf
<1>2. ASSUME NEW size \in ArenaSizes, ReserveTypedArena(size)
      PROVE  NaClArenaInv'
  BY <1>2, ReserveKeeps
<1>3. ASSUME NEW length \in MapLengths, NEW protection \in Protections,
             SysMmap(length, protection)
      PROVE  NaClArenaInv'
  <2>1. PICK first \in FreeRuns(length) :
          SetPages(PagesOf(first * PageSize, length), protection)
    BY <1>3 DEF SysMmap
  <2> QED BY <1>3, <2>1, FreeKeeps, MappingKeeps DEF SysMmap
<1>4. ASSUME NEW length \in MapLengths, NEW protection \in Protections,
             NEW start \in UserAddresses, SysMmapFixed(start, length, protection)
      PROVE  NaClArenaInv'
  BY <1>4, GuardedKeeps, MappingKeeps DEF SysMmapFixed
<1>5. ASSUME NEW length \in MapLengths, NEW start \in UserAddresses,
             SysMunmap(start, length)
      PROVE  NaClArenaInv'
  BY <1>5, GuardedKeeps, MappingKeeps DEF SysMunmap
<1>6. ASSUME NEW length \in MapLengths, NEW protection \in Protections,
             NEW start \in UserAddresses, SysMprotect(start, length, protection)
      PROVE  NaClArenaInv'
  BY <1>6, GuardedKeeps, MappingKeeps DEF SysMprotect
<1> QED BY <1>1, <1>2, <1>3, <1>4, <1>5, <1>6 DEF NaClNext

(* So the invariant holds always. *)
LEMMA NaClArenaInvAlways == NaClSpec => []NaClArenaInv
BY NaClArenaInvInit, NaClArenaInvStep, PTL DEF NaClSpec

(* The recorded arena is a whole number of pages at a page boundary,       *)
(* whatever size T asks for (reserveTypedArena).                           *)
THEOREM NaClArenaTypeCorrect == NaClSpec => []NaClTypeOK
<1>1. NaClArenaInv => NaClTypeOK
  BY DEF NaClArenaInv
<1> QED BY <1>1, NaClArenaInvAlways, PTL

(* The guard of mmap, munmap and mprotect refuses a range exactly when it  *)
(* has a page in common with the arena: for every page size and address    *)
(* space, TypedArenaOverlaps misses nothing and refuses nothing else.      *)
THEOREM OverlapTestIsExact == NaClSpec => []OverlapExact
<1>1. NaClArenaInv => OverlapExact
  BY ReservedMakesOverlapExact DEF NaClArenaInv
<1> QED BY <1>1, NaClArenaInvAlways, PTL

(* No sequence of system calls of the sandbox unmaps, remaps or protects a *)
(* page that the arena of T uses.                                          *)
THEOREM ArenaIsAlwaysUsable == NaClSpec => []ArenaStaysUsable
<1>1. NaClArenaInv => ArenaStaysUsable
  BY DEF NaClArenaInv
<1> QED BY <1>1, NaClArenaInvAlways, PTL

-----------------------------------------------------------------------------
(* Callbacks. *)

FramesTyped ==
  /\ saved \in [SandboxThreads -> Pcs]
  /\ frames \in [SandboxThreads -> Seq(Frame)]

(* What a callback says of the counter of its system call. *)
CounterKept(f, counter) ==
  /\ f.at = "entered" => f.new_prog_ctr = counter
  /\ f.at = "read" => f.pc = f.new_prog_ctr

(* Only the innermost callback of a thread is not inside the sandbox, so   *)
(* that no other one still has to read the counter that is saved.          *)
CountersKept ==
  \A t \in SandboxThreads : \A n \in 1 .. Len(frames[t]) :
    /\ n < Len(frames[t]) => frames[t][n].at = "in_sandbox"
    /\ CounterKept(frames[t][n], saved[t])

GrantedTyped == granted \subseteq [site_id : SiteIds, new_prog_ctr : Pcs]

CallbackInv ==
  /\ Typed /\ sites = SiteRanges /\ FramesTyped /\ CountersKept
  /\ GrantedTyped /\ AuthorityFollowsCaller

(* No thread is in a callback. *)
LEMMA CallbackInvInit == CallbackInit => CallbackInv
<1> SUFFICES ASSUME CallbackInit PROVE CallbackInv
  OBVIOUS
<1>1. SiteRanges \subseteq AllocationSite
  BY CallbackAssumption
<1>2. types \in [TypeIds -> TypeHashes \cup {NoHash}]
  <2>1. ASSUME NEW id \in TypeIds, \E s \in SiteRanges : s.type_id = id
        PROVE  (CHOOSE s \in SiteRanges : s.type_id = id).type_hash \in TypeHashes
    BY <2>1, <1>1 DEF AllocationSite
  <2> QED BY <2>1 DEF CallbackInit
<1>3. type_ids \in [TypeHashes -> TypeIds \cup {0}]
  <2>1. ASSUME NEW h \in TypeHashes, \E id \in TypeIds : types[id] = h
        PROVE  (CHOOSE id \in TypeIds : types[id] = h) \in TypeIds
    BY <2>1
  <2> QED BY <2>1 DEF CallbackInit
<1>4. 0 \in Words
  BY WordAssumption DEF Words
<1>5. sites_by_id \in [SiteIds -> Words]
  <2>1. ASSUME NEW id \in SiteIds, \E s \in SiteRanges : s.id = id
        PROVE  (CHOOSE s \in SiteRanges : s.id = id).begin \in Words
    BY <2>1, <1>1 DEF AllocationSite
  <2> QED BY <2>1, <1>4 DEF CallbackInit
<1>6. site_types \in [SiteIds -> TypeHashes \cup {NoHash}]
  <2>1. ASSUME NEW id \in SiteIds, \E s \in SiteRanges : s.id = id
        PROVE  (CHOOSE s \in SiteRanges : s.id = id).type_hash \in TypeHashes
    BY <2>1, <1>1 DEF AllocationSite
  <2> QED BY <2>1 DEF CallbackInit
<1>7. TypeOK
  BY <1>1, <1>2, <1>3, <1>4, <1>5, <1>6 DEF TypeOK, CallbackInit
<1>8. UsedWithinCapacity
  BY WordAssumption DEF CallbackInit, UsedWithinCapacity, Words, kAlignment
<1>9. FramesTyped
  BY CallbackAssumption DEF CallbackInit, FramesTyped
<1>10. CountersKept
  BY DEF CallbackInit, CountersKept
<1> QED BY <1>7, <1>8, <1>9, <1>10
        DEF CallbackInv, Typed, CallbackInit, GrantedTyped, AuthorityFollowsCaller

-----------------------------------------------------------------------------
(* A step of the innermost callback of t, which becomes g. *)
LEMMA TopChanges ==
  ASSUME FramesTyped, CountersKept, NEW t \in SandboxThreads, Depth(t) > 0,
         NEW g \in Frame, CounterKept(g, saved[t]),
         frames' = [frames EXCEPT ![t] = [@ EXCEPT ![Depth(t)] = g]],
         saved' = saved
  PROVE  FramesTyped' /\ CountersKept'
<1>1. frames[t] \in Seq(Frame) /\ Depth(t) \in 1 .. Len(frames[t])
  BY DEF FramesTyped, Depth
<1>2. /\ [frames[t] EXCEPT ![Depth(t)] = g] \in Seq(Frame)
      /\ Len([frames[t] EXCEPT ![Depth(t)] = g]) = Len(frames[t])
  BY <1>1
<1>3. FramesTyped'
  BY <1>2 DEF FramesTyped
<1>4. ASSUME NEW u \in SandboxThreads, NEW n \in 1 .. Len(frames'[u])
      PROVE  /\ n < Len(frames'[u]) => frames'[u][n].at = "in_sandbox"
             /\ CounterKept(frames'[u][n], saved'[u])
  <2>1. CASE u # t
    BY <2>1 DEF CountersKept, FramesTyped
  <2>2. CASE u = t /\ n = Depth(t)
    <3>1. frames'[u][n] = g /\ ~ (n < Len(frames'[u]))
      BY <2>2, <1>1, <1>2 DEF FramesTyped, Depth
    <3> QED BY <3>1, <2>2
  <2>3. CASE u = t /\ n # Depth(t)
    <3>1. n \in 1 .. Len(frames[t]) /\ frames'[u][n] = frames[t][n]
          /\ Len(frames'[u]) = Len(frames[t])
      BY <2>3, <1>1, <1>2 DEF FramesTyped
    <3> QED BY <3>1, <2>3 DEF CountersKept
  <2> QED BY <2>1, <2>2, <2>3
<1>5. CountersKept'
  BY <1>4 DEF CountersKept
<1> QED BY <1>3, <1>5

(* Goto only moves the innermost callback. *)
LEMMA Goes ==
  ASSUME FramesTyped, CountersKept, NEW t \in SandboxThreads, Depth(t) > 0,
         NEW point \in {"returning", "in_sandbox"}, Goto(t, point), saved' = saved
  PROVE  FramesTyped' /\ CountersKept'
<1> DEFINE g == [Innermost(t) EXCEPT !.at = point]
<1>1. Innermost(t) \in Frame
  BY DEF FramesTyped, Innermost, Depth
<1>2. g \in Frame /\ CounterKept(g, saved[t])
  BY <1>1 DEF Frame, CounterKept
<1>3. frames' = [frames EXCEPT ![t] = [@ EXCEPT ![Depth(t)] = g]]
  BY DEF Goto, Innermost
<1> HIDE DEF g
<1> QED BY <1>2, <1>3, TopChanges

(* A nested callback overwrites the counter of its thread, which it alone  *)
(* has still to read.                                                      *)
LEMMA EnterKeeps ==
  ASSUME FramesTyped, CountersKept, NEW t \in SandboxThreads, NEW slot \in Slots,
         NEW pc \in Pcs, NEW size \in Sizes, EnterCallback(t, slot, pc, size)
  PROVE  FramesTyped' /\ CountersKept'
<1> DEFINE g == [slot |-> slot, new_prog_ctr |-> pc, size |-> size,
                 at |-> "entered", pc |-> 0]
<1>1. g \in Frame
  BY CallbackAssumption DEF EnterCallback, HoldsFunction, Frame
<1>2. g.at = "entered" /\ g.new_prog_ctr = pc
  OBVIOUS
<1>3. /\ frames' = [frames EXCEPT ![t] = Append(@, g)]
      /\ saved' = [saved EXCEPT ![t] = pc]
      /\ Depth(t) > 0 => frames[t][Depth(t)].at = "in_sandbox"
  BY DEF EnterCallback, Save, InSandbox, Innermost
<1> HIDE DEF g
<1>4. frames[t] \in Seq(Frame)
  BY DEF FramesTyped
<1>5. /\ Append(frames[t], g) \in Seq(Frame)
      /\ Len(Append(frames[t], g)) = Len(frames[t]) + 1
      /\ Append(frames[t], g)[Len(frames[t]) + 1] = g
      /\ \A n \in 1 .. Len(frames[t]) : Append(frames[t], g)[n] = frames[t][n]
  BY <1>1, <1>4
<1>6. FramesTyped'
  BY <1>3, <1>5 DEF FramesTyped
<1>7. ASSUME NEW u \in SandboxThreads, NEW n \in 1 .. Len(frames'[u])
      PROVE  /\ n < Len(frames'[u]) => frames'[u][n].at = "in_sandbox"
             /\ CounterKept(frames'[u][n], saved'[u])
  <2>1. CASE u # t
    BY <2>1, <1>3 DEF CountersKept, FramesTyped
  <2>2. CASE u = t
    <3>1. frames'[u] = Append(frames[t], g) /\ saved'[u] = pc
      BY <2>2, <1>3 DEF FramesTyped
    <3>2. CASE n = Len(frames[t]) + 1
      <4>1. frames'[u][n] = g /\ ~ (n < Len(frames'[u]))
        BY <3>1, <3>2, <1>4, <1>5
      <4> QED BY <4>1, <3>1, <1>2 DEF CounterKept
    <3>3. CASE n # Len(frames[t]) + 1
      <4>1. n \in 1 .. Len(frames[t]) /\ frames'[u][n] = frames[t][n]
        BY <3>1, <3>3, <1>4, <1>5
      <4>2. frames[t][n].at = "in_sandbox"
        BY <4>1, <1>3, <1>4 DEF CountersKept, Depth
      <4> QED BY <4>1, <4>2 DEF CounterKept
    <3> QED BY <3>2, <3>3
  <2> QED BY <2>1, <2>2
<1>8. CountersKept'
  BY <1>7 DEF CountersKept
<1> QED BY <1>6, <1>8

(* When a callback returns, the one below it has already read its counter. *)
LEMMA LeaveKeeps ==
  ASSUME FramesTyped, CountersKept, NEW t \in SandboxThreads, LeaveCallback(t)
  PROVE  FramesTyped' /\ CountersKept'
<1>1. /\ frames' = [frames EXCEPT ![t] = SubSeq(@, 1, Depth(t) - 1)]
      /\ saved' = saved /\ Depth(t) > 0
  BY DEF LeaveCallback, Runs
<1>2. frames[t] \in Seq(Frame) /\ Depth(t) \in Nat /\ Depth(t) = Len(frames[t])
  BY DEF FramesTyped, Depth
<1>3. /\ SubSeq(frames[t], 1, Depth(t) - 1) \in Seq(Frame)
      /\ Len(SubSeq(frames[t], 1, Depth(t) - 1)) = Depth(t) - 1
      /\ \A n \in 1 .. Depth(t) - 1 :
           SubSeq(frames[t], 1, Depth(t) - 1)[n] = frames[t][n]
  BY <1>1, <1>2
<1>4. FramesTyped'
  BY <1>1, <1>3 DEF FramesTyped
<1>5. ASSUME NEW u \in SandboxThreads, NEW n \in 1 .. Len(frames'[u])
      PROVE  /\ n < Len(frames'[u]) => frames'[u][n].at = "in_sandbox"
             /\ CounterKept(frames'[u][n], saved'[u])
  <2>1. CASE u # t
    BY <2>1, <1>1 DEF CountersKept, FramesTyped
  <2>2. CASE u = t
    <3>1. /\ n \in 1 .. Len(frames[t]) /\ n < Len(frames[t])
          /\ frames'[u][n] = frames[t][n]
      BY <2>2, <1>1, <1>2, <1>3 DEF FramesTyped
    <3>2. frames[t][n].at = "in_sandbox"
      BY <3>1 DEF CountersKept
    <3> QED BY <3>1, <3>2 DEF CounterKept
  <2> QED BY <2>1, <2>2
<1>6. CountersKept'
  BY <1>5 DEF CountersKept
<1> QED BY <1>4, <1>6

-----------------------------------------------------------------------------
(* What an allocation adds: sites whose range contains the counter of the  *)
(* system call.                                                            *)
LEMMA GrantKeeps ==
  ASSUME CallbackInv, NEW t \in SandboxThreads, AllocateForCallback(t)
  PROVE  Typed' /\ sites' = sites /\ GrantedTyped' /\ AuthorityFollowsCaller'
<1> DEFINE f == Innermost(t)
<1>1. f \in Frame /\ f.at = "read" /\ f.pc = f.new_prog_ctr
  BY DEF CallbackInv, FramesTyped, CountersKept, CounterKept,
         AllocateForCallback, Runs, Innermost, Depth
<1>2. f.size \in Sizes /\ f.pc \in Pcs /\ f.new_prog_ctr \in Pcs
  BY <1>1 DEF Frame
<1>3. CASE UNCHANGED <<vars, granted>>
  <2>1. Typed'
    BY <1>3, TypedStep DEF CallbackInv
  <2> QED BY <1>3, <2>1
          DEF vars, CallbackInv, GrantedTyped, AuthorityFollowsCaller
<1>4. CASE /\ AllocateFromPc(f.size, f.pc)
           /\ granted' = granted \cup
                {[site_id |-> s.id, new_prog_ctr |-> f.new_prog_ctr] :
                   s \in FindSite(f.pc)}
  <2>1. Typed'
    BY <1>2, <1>4, TypedStep DEF CallbackInv, Next
  <2>2. sites' = sites
    BY <1>4 DEF AllocateFromPc, AllocateWithHash, registryVars
  <2>3. ASSUME NEW s \in FindSite(f.pc)
        PROVE  /\ s \in sites /\ s.id \in SiteIds
               /\ f.new_prog_ctr \in s.begin .. (s.end - 1)
    <3>1. s \in sites /\ f.pc >= s.begin /\ f.pc < s.end
      BY DEF FindSite
    <3>2. s \in AllocationSite
      BY <3>1, CallbackAssumption DEF CallbackInv
    <3>3. f.pc \in Words /\ s.begin \in Words /\ s.end \in Words
      BY <1>2, <3>2, InputAssumption DEF AllocationSite
    <3>4. f.pc \in Nat /\ s.begin \in Nat /\ s.end \in Nat
      <4> HIDE DEF f
      <4> QED BY <3>3, WordAssumption DEF Words
    <3> QED BY <1>1, <3>1, <3>2, <3>4 DEF AllocationSite
  <2> HIDE DEF f
  <2>4. GrantedTyped'
    BY <1>2, <1>4, <2>3 DEF GrantedTyped, CallbackInv
  <2>5. AuthorityFollowsCaller'
    BY <1>4, <2>2, <2>3 DEF AuthorityFollowsCaller, CallbackInv
  <2> QED BY <2>1, <2>2, <2>4, <2>5
<1> QED BY <1>3, <1>4 DEF AllocateForCallback

(* One case for each step of a callback. *)
LEMMA CallbackInvStep == CallbackInv /\ [CallbackNext]_naclVars => CallbackInv'
<1> SUFFICES ASSUME CallbackInv, [CallbackNext]_naclVars PROVE CallbackInv'
  OBVIOUS
<1>1. FramesTyped /\ CountersKept
  BY DEF CallbackInv
<1>2. ASSUME UNCHANGED <<vars, granted>>, FramesTyped', CountersKept'
      PROVE  CallbackInv'
  <2>1. Typed'
    BY <1>2, TypedStep DEF CallbackInv
  <2> QED BY <1>2, <2>1
          DEF vars, CallbackInv, GrantedTyped, AuthorityFollowsCaller
<1>3. CASE UNCHANGED naclVars
  BY <1>1, <1>2, <1>3
  DEF naclVars, callbackVars, FramesTyped, CountersKept, CounterKept
<1>4. ASSUME NEW t \in SandboxThreads, NEW slot \in Slots, NEW pc \in Pcs,
             NEW size \in Sizes, EnterCallback(t, slot, pc, size)
      PROVE  CallbackInv'
  BY <1>1, <1>2, <1>4, EnterKeeps DEF EnterCallback
<1>5. ASSUME NEW t \in SandboxThreads, ReadProgramCounter(t) PROVE CallbackInv'
  <2> DEFINE g == [Innermost(t) EXCEPT !.pc = saved[t], !.at = "read"]
  <2>1. /\ Innermost(t) \in Frame /\ saved[t] \in Pcs
        /\ Innermost(t).at = "entered" /\ Depth(t) > 0
        /\ Innermost(t).new_prog_ctr = saved[t]
    BY <1>1, <1>5 DEF FramesTyped, CountersKept, CounterKept,
                      ReadProgramCounter, Runs, Innermost, Depth
  <2>2. g \in Frame /\ CounterKept(g, saved[t])
    BY <2>1 DEF Frame, CounterKept
  <2>3. /\ frames' = [frames EXCEPT ![t] = [@ EXCEPT ![Depth(t)] = g]]
        /\ saved' = saved /\ UNCHANGED <<vars, granted>>
    BY <1>1, <1>5 DEF ReadProgramCounter, Innermost, FramesTyped
  <2> HIDE DEF g
  <2> QED BY <1>1, <1>2, <2>1, <2>2, <2>3, TopChanges
<1>6. ASSUME NEW t \in SandboxThreads, AllocateForCallback(t) PROVE CallbackInv'
  <2>1. Typed' /\ sites' = sites /\ GrantedTyped' /\ AuthorityFollowsCaller'
    BY <1>6, GrantKeeps
  <2>2. FramesTyped' /\ CountersKept'
    BY <1>1, <1>6, Goes DEF AllocateForCallback, Runs
  <2> QED BY <2>1, <2>2 DEF CallbackInv
<1>7. ASSUME NEW t \in SandboxThreads, InvokeSandbox(t) PROVE CallbackInv'
  BY <1>1, <1>2, <1>7, Goes DEF InvokeSandbox, Runs
<1>8. ASSUME NEW t \in SandboxThreads, ReturnToCallback(t) PROVE CallbackInv'
  BY <1>1, <1>2, <1>8, Goes DEF ReturnToCallback, Runs
<1>9. ASSUME NEW t \in SandboxThreads, LeaveCallback(t) PROVE CallbackInv'
  BY <1>1, <1>2, <1>9, LeaveKeeps DEF LeaveCallback
<1> QED BY <1>3, <1>4, <1>5, <1>6, <1>7, <1>8, <1>9 DEF CallbackNext

(* So the invariant holds always. *)
LEMMA CallbackInvAlways == CallbackSpec => []CallbackInv
BY CallbackInvInit, CallbackInvStep, PTL DEF CallbackSpec

(* The callback state and the runtime under it keep their types            *)
(* (backends/rlbox_nacl/apply_backend.py, the callback system call).       *)
THEOREM CallbackTypeCorrect == CallbackSpec => []CallbackTypeOK
<1>1. CallbackInv => CallbackTypeOK
  BY DEF CallbackInv, CallbackTypeOK, Typed, FramesTyped, GrantedTyped
<1> QED BY <1>1, CallbackInvAlways, PTL

(* The site of every object granted to a callback contains the program     *)
(* counter of the system call that asked for it (the saved counter of      *)
(* NaClSandbox_Thread is read before a nested callback can overwrite it).  *)
THEOREM AuthorityIsTheCallers == CallbackSpec => []AuthorityFollowsCaller
<1>1. CallbackInv => AuthorityFollowsCaller
  BY DEF CallbackInv
<1> QED BY <1>1, CallbackInvAlways, PTL
=============================================================================
