--------------------------- MODULE PolicyRuntime ---------------------------
(***************************************************************************)
(* interspec::PolicyRuntime (include/interspec/policy_runtime.h) on top of *)
(* a Runtime, with the code that the policy generators emit for it: the    *)
(* registration of types and sites (tools/generate_policy.py and           *)
(* tools/generate_boundary_policy.py), driven by the constructor of Engine *)
(* (integration/rsync_popt/p4c_bridge.cpp).                                *)
(*                                                                         *)
(* Registration is a loop of Runtime calls, each under its own lock.  An   *)
(* allocation callback makes up to two Runtime calls, each under its own   *)
(* lock, and anything may happen between them.                             *)
(***************************************************************************)
EXTENDS InterspecRuntime, Sequences

CONSTANTS
  Threads,        \* threads that run sandbox code, hence callbacks
  Symbols,        \* names of the labels around the allocation sites
  SymbolTables,   \* what the dynamic linker may know of them; 0: missing
  Policies        \* generated policies: [types: Seq, sites: Seq]

ASSUME PolicyAssumption ==
  /\ ArenaBase # 0       \* Engine throws when reserve_typed_arena returns 0
  /\ 0 \in Pcs
  /\ SymbolTables \subseteq [Symbols -> Pcs]
  /\ \A p \in Policies :
       /\ p.types \in Seq([id : TypeIds, type_hash : TypeHashes])
       /\ p.sites \in Seq([site_id : SiteIds, type_id : TypeIds,
                           begin_symbol : Symbols, end_symbol : Symbols])

VARIABLES
  policy,      \* the policy compiled into the trusted application
  resolve,     \* lookup_symbol_address of the sandbox
  stage,       \* where the constructor of Engine is
  next,        \* index of the next type or site to register
  types_ok,    \* "bool ok" of the generated register_types
  callback     \* thread -> its allocation callback

policyVars == <<policy, resolve, stage, next, types_ok>>
allVars == <<vars, policyVars, callback>>

Stages == {"types", "sites", "ready", "failed"}

Idle == [at |-> "idle", size |-> 0, pc |-> 0, next_pc |-> 0]

Callback == [at : {"idle", "first", "second"},
             size : Sizes \cup {0}, pc : Pcs, next_pc : Pcs]

PolicyTypeOK ==
  /\ TypeOK
  /\ policy \in Policies
  /\ resolve \in SymbolTables
  /\ stage \in Stages
  /\ next \in 1 .. (1 + Len(policy.types) + Len(policy.sites))
  /\ types_ok \in BOOLEAN
  /\ callback \in [Threads -> Callback]

-----------------------------------------------------------------------------
(* initialize: types first, then sites. *)

(* Mutant: the result of the last register_type decides alone. *)
TypeOutcome_LastOnly(ok, registered) == registered

(* ok = runtime.register_type(...) && ok *)
TypeOutcome(ok, registered) == registered /\ ok

(* The generated register_types goes on after a failure, and remembers it. *)
RegisterNextType ==
  /\ stage = "types"
  /\ next <= Len(policy.types)
  /\ LET t == policy.types[next]
         registered == CanRegisterType(t.id, t.type_hash)
     IN /\ IF registered THEN RegisterType(t.id, t.type_hash)
                         ELSE UNCHANGED vars
        /\ types_ok' = TypeOutcome(types_ok, registered)
  /\ next' = next + 1
  /\ UNCHANGED <<policy, resolve, stage, callback>>

EndOfTypes ==
  /\ stage = "types"
  /\ next > Len(policy.types)
  /\ stage' = IF types_ok THEN "sites" ELSE "failed"
  /\ next' = 1
  /\ UNCHANGED <<vars, policy, resolve, types_ok, callback>>

SiteResolves(s) == resolve[s.begin_symbol] # 0 /\ resolve[s.end_symbol] # 0

CanRegisterSite(s) ==
  /\ SiteResolves(s)
  /\ CanRegisterAllocationSite(s.site_id, resolve[s.begin_symbol],
                               resolve[s.end_symbol], s.type_id)

(* Mutant: a site that cannot be registered is tried again. *)
RegisterNextSite_Retries ==
  /\ stage = "sites"
  /\ next <= Len(policy.sites)
  /\ LET s == policy.sites[next]
     IN /\ RegisterAllocationSite(s.site_id, resolve[s.begin_symbol],
                                  resolve[s.end_symbol], s.type_id)
        /\ SiteResolves(s)
  /\ next' = next + 1
  /\ UNCHANGED <<policy, resolve, stage, types_ok, callback>>

(* The generated register_allocation_sites and, after its entries,         *)
(* register_helper_allocation_sites stop at the first failure.             *)
RegisterNextSite ==
  /\ stage = "sites"
  /\ next <= Len(policy.sites)
  /\ LET s == policy.sites[next]
     IN \/ /\ RegisterAllocationSite(s.site_id, resolve[s.begin_symbol],
                                     resolve[s.end_symbol], s.type_id)
           /\ SiteResolves(s)
           /\ next' = next + 1
           /\ UNCHANGED stage
        \/ /\ ~ CanRegisterSite(s)
           /\ stage' = "failed"     \* the constructor throws
           /\ UNCHANGED <<vars, next>>
  /\ UNCHANGED <<policy, resolve, types_ok, callback>>

(* The constructor goes on to register the callbacks: from now on sandbox  *)
(* code can reach them.                                                    *)
EndOfSites ==
  /\ stage = "sites"
  /\ next > Len(policy.sites)
  /\ stage' = "ready"
  /\ UNCHANGED <<vars, policy, resolve, next, types_ok, callback>>

-----------------------------------------------------------------------------
(* Callbacks from the sandbox. *)

(* p4c_allocate, entered with the program counters that the backend saved  *)
(* for this thread.                                                        *)
BeginAllocate(t, size, pc, next_pc) ==
  /\ stage = "ready"
  /\ callback[t] = Idle
  /\ callback' = [callback EXCEPT ![t] = [at |-> "first", size |-> size,
                                          pc |-> pc, next_pc |-> next_pc]]
  /\ UNCHANGED <<vars, policyVars>>

CanAllocateFromPc(size, pc) == FindSite(pc) # {} /\ CanAllocate(size)

HasFallback(c) == c.next_pc # 0 /\ c.next_pc # c.pc

(* Mutant: an empty answer sends the callback to the first lookup again. *)
AfterFirst_Retries(c) == [c EXCEPT !.at = "first"]

(* What is left to do when the first lookup returned 0. *)
AfterFirst(c) == IF HasFallback(c) THEN [c EXCEPT !.at = "second"] ELSE Idle

(* runtime_.allocate_from_pc(size, pc) *)
FirstLookup(t) ==
  LET c == callback[t] IN
  /\ c.at = "first"
  /\ \/ /\ AllocateFromPc(c.size, c.pc)
        /\ callback' = [callback EXCEPT ![t] = Idle]
     \/ /\ ~ CanAllocateFromPc(c.size, c.pc)
        /\ callback' = [callback EXCEPT ![t] = AfterFirst(c)]
        /\ UNCHANGED vars
  /\ UNCHANGED policyVars

(* runtime_.allocate_from_pc(size, next_pc) *)
SecondLookup(t) ==
  LET c == callback[t] IN
  /\ c.at = "second"
  /\ \/ AllocateFromPc(c.size, c.next_pc)
     \/ ~ CanAllocateFromPc(c.size, c.next_pc) /\ UNCHANGED vars
  /\ callback' = [callback EXCEPT ![t] = Idle]
  /\ UNCHANGED policyVars

(* p4c_release and p4c_reallocate: one Runtime call each. *)
CallbackRelease(t, ptr) ==
  /\ stage = "ready"
  /\ callback[t] = Idle
  /\ Release(ptr)
  /\ UNCHANGED <<policyVars, callback>>

CallbackReallocate(t, ptr, size) ==
  /\ stage = "ready"
  /\ callback[t] = Idle
  /\ Reallocate(ptr, size)
  /\ UNCHANGED <<policyVars, callback>>

-----------------------------------------------------------------------------
PolicyInit ==
  /\ Init
  /\ policy \in Policies
  /\ resolve \in SymbolTables
  /\ stage = "types"
  /\ next = 1
  /\ types_ok = TRUE
  /\ callback = [t \in Threads |-> Idle]

Construct == RegisterNextType \/ EndOfTypes \/ RegisterNextSite \/ EndOfSites

Lookup(t) == FirstLookup(t) \/ SecondLookup(t)

PolicyNext ==
  \/ Construct
  \/ \E t \in Threads :
       \/ \E size \in Sizes, pc, next_pc \in Pcs :
            BeginAllocate(t, size, pc, next_pc)
       \/ Lookup(t)
       \/ \E ptr \in Words : CallbackRelease(t, ptr)
       \/ \E ptr \in Words, size \in Sizes : CallbackReallocate(t, ptr, size)

PolicySpec == PolicyInit /\ [][PolicyNext]_allVars

(* The constructor runs to its end, and a thread inside a callback is      *)
(* scheduled until it returns.  Nothing forces the sandbox to call.        *)
FairPolicySpec ==
  /\ PolicySpec
  /\ WF_allVars(Construct)
  /\ \A t \in Threads : WF_allVars(Lookup(t))

-----------------------------------------------------------------------------
SequenceElements(s) == {s[i] : i \in 1 .. Len(s)}

(* Engine throws unless initialize returned true.  Callbacks can therefore *)
(* only be reached when the policy is registered completely and exactly:   *)
(* every type of the policy, every site at the addresses that its labels   *)
(* resolve to, with its type, and nothing else, although the loops behind  *)
(* the answer are of different kinds (one goes on after a failure).        *)
ReadyMeansWholePolicy ==
  stage = "ready" =>
    /\ \A id \in TypeIds, h \in TypeHashes :
         types[id] = h <=> [id |-> id, type_hash |-> h]
                             \in SequenceElements(policy.types)
    /\ sites = {[id |-> s.site_id,
                 begin |-> resolve[s.begin_symbol],
                 end |-> resolve[s.end_symbol],
                 type_id |-> s.type_id,
                 type_hash |-> types[s.type_id]] :
                   s \in SequenceElements(policy.sites)}
    /\ \A s \in sites : s.begin # 0 /\ s.end # 0

(* allocate_from_callback tries next_pc when the first call returned 0,    *)
(* which also happens when the arena is full.  The object is then still    *)
(* never attributed to the site of next_pc instead of the site of pc: if   *)
(* pc has a site, the second call fails too, whatever other threads        *)
(* released in between, because capacity never comes back.                 *)
FallbackNeverReattributes ==
  \A t \in Threads :
    callback[t].at = "second" /\ FindSite(callback[t].pc) # {}
      => ~ CanAllocate(callback[t].size)

(* An object exists only for a site of the policy: its type is the one the *)
(* policy names for the site, and nothing is allocated by a constructor    *)
(* that has not finished or has failed (P7A_PROVENANCE.md, "fails closed").*)
ObjectsComeFromPolicy ==
  \A a \in allocations :
    /\ stage = "ready"
    /\ \E s \in SequenceElements(policy.sites),
          b \in SequenceElements(policy.types) :
         /\ s.site_id = a.site_id
         /\ s.type_id = b.id
         /\ b.type_hash = a.type_hash

(* The constructor of Engine ends, in one way or the other. *)
ConstructorEnds == <>(stage \in {"ready", "failed"})

(* Every callback returns to the sandbox, with or without an object, after *)
(* at most two lookups (allocate_from_callback has no loop).               *)
CallbacksReturn ==
  \A t \in Threads : callback[t].at = "first" ~> callback[t].at = "idle"
=============================================================================
