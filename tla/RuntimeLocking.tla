--------------------------- MODULE RuntimeLocking ---------------------------
(***************************************************************************)
(* interspec::Runtime with its std::shared_mutex mu_: the calls of several *)
(* threads, one statement group at a time.  InterspecRuntime takes a call  *)
(* for one step; here that is a property: the arena, as it is each time    *)
(* the exclusive lock is given back, moves by the steps of                 *)
(* InterspecRuntime, and a query answers what its atomic form would.       *)
(*                                                                         *)
(* The registry is filled beforehand (see PolicyRuntime) and its methods   *)
(* are not called.  Every method holds mu_ in one mode from its first to   *)
(* its last statement and calls only *_unlocked helpers.                   *)
(***************************************************************************)
EXTENDS InterspecRuntime

CONSTANTS
  Threads,
  MaxCalls,     \* bound: thread -> how many calls it makes
  Pointers,     \* pointers that callers pass
  TypeOf        \* the registered types: TypeId -> type_hash or NoHash

ASSUME LockingAssumption ==
  /\ MaxCalls \in [Threads -> Nat]
  /\ Pointers \subseteq Words
  /\ TypeOf \in [TypeIds -> TypeHashes \cup {NoHash}]

VARIABLES
  readers,     \* threads that hold mu_ shared
  writers,     \* threads that hold mu_ exclusively
  call,        \* thread -> its call, with its local variables
  calls,       \* thread -> number of calls it has made
  committed    \* the arena when mu_ was last given back by a writer

lockVars == <<readers, writers>>
runVars == <<vars, lockVars, call, calls, committed>>

Queries == {"check", "allocation_size"}
Ops == Queries \cup {"allocate_from_site", "release", "reallocate"}
Verdicts == {"none", "ok", "untracked", "wrong_type", "out_of_bounds"}

NoCall == [op |-> "check", at |-> "idle", ptr |-> 0, size |-> 0,
           site_id |-> 0, type_hash |-> NoHash, found |-> {},
           verdict |-> "none", answer |-> 0]

Call == [op : Ops,
         at : {"idle", "enter", "find", "read", "emplace", "bump", "erase",
               "leave"},
         ptr : Words, size : Words, site_id : SiteIds,
         type_hash : TypeHashes \cup {NoHash},
         found : SUBSET Allocation,
         verdict : Verdicts,   \* what check returns
         answer : Words]       \* what the other methods return

CallsBounded ==
  calls \in [Threads -> Nat] /\ \A t \in Threads : calls[t] <= MaxCalls[t]

LockTypeOK ==
  /\ TypeOK
  /\ readers \subseteq Threads /\ writers \subseteq Threads
  /\ call \in [Threads -> Call]
  /\ CallsBounded

At(t, point) == call[t].at = point

(* t goes on to a point, possibly with new values of its locals. *)
Goto(t, point) == call' = [call EXCEPT ![t].at = point]
Return(t, answer) ==
  call' = [call EXCEPT ![t].at = "leave", ![t].answer = answer]
ReturnVerdict(t, verdict) ==
  call' = [call EXCEPT ![t].at = "leave", ![t].verdict = verdict]

-----------------------------------------------------------------------------
(* The mutex. *)

(* Mutant: release takes the lock shared. *)
Exclusive_NotRelease(op) == op \notin Queries \cup {"release"}

(* Mutant: reallocate takes the lock shared. *)
Exclusive_NotReallocate(op) == op \notin Queries \cup {"reallocate"}

(* std::unique_lock for the methods that write, std::shared_lock for the   *)
(* const ones.                                                             *)
Exclusive(op) == op \notin Queries

Enter(t) ==
  /\ At(t, "enter")
  /\ IF Exclusive(call[t].op)
     THEN /\ readers = {} /\ writers = {}
          /\ writers' = {t} /\ UNCHANGED readers
     ELSE /\ writers = {}
          /\ readers' = readers \cup {t} /\ UNCHANGED writers
  /\ Goto(t, IF call[t].op = "allocate_from_site" THEN "emplace" ELSE "find")
  /\ UNCHANGED <<vars, calls, committed>>

(* The destructor of the lock guard, and the return to the caller. *)
Leave(t) ==
  /\ At(t, "leave")
  /\ readers' = readers \ {t}
  /\ writers' = writers \ {t}
  /\ committed' = IF t \in writers
                  THEN [allocations |-> allocations, used |-> used]
                  ELSE committed
  /\ call' = [call EXCEPT ![t] = NoCall]
  /\ UNCHANGED <<vars, calls>>

-----------------------------------------------------------------------------
(* The bodies. *)

Search(c) ==
  IF c.op = "check" THEN FindAllocation(c.ptr) ELSE AllocationAt(c.ptr)

AfterFind(c) ==
  IF c.op \in Queries THEN "read"
  ELSE IF c.op = "reallocate" /\ c.size # 0 THEN "emplace"
  ELSE "erase"

(* The lookup at the top of each method that takes a pointer.  What it     *)
(* finds is a pointer or an iterator into the map.                         *)
Find(t) ==
  /\ At(t, "find")
  /\ LET found == Search(call[t]) IN
     IF found = {}
     THEN IF call[t].op = "check" THEN ReturnVerdict(t, "untracked")
                                  ELSE Return(t, 0)
     ELSE call' = [call EXCEPT ![t].found = found,
                               ![t].at = AfterFind(call[t])]
  /\ UNCHANGED <<vars, lockVars, calls, committed>>

(* The queries read the node they found. *)
Read(t) ==
  /\ At(t, "read")
  /\ \E a \in call[t].found :
       LET c == call[t]
           remaining == a.size - (c.ptr - a.base)
       IN IF c.op = "allocation_size" THEN Return(t, a.size)
          ELSE ReturnVerdict(t,
                 IF a.type_hash # c.type_hash THEN "wrong_type"
                 ELSE IF c.size <= remaining THEN "ok"
                 ELSE "out_of_bounds")
  /\ UNCHANGED <<vars, lockVars, calls, committed>>

(* allocate_from_site looks the type of the site up. *)
HasType(c) == c.op = "reallocate" \/ site_types[c.site_id] # NoHash

(* The object that the call asks for. *)
Requested(c) ==
  IF c.op = "reallocate"
  THEN LET old == CHOOSE a \in c.found : TRUE
       IN NewAllocation(c.size, old.type_hash, old.site_id)
  ELSE NewAllocation(c.size, site_types[c.site_id], c.site_id)

(* Mutant: the old allocation dies even when there is no replacement. *)
Emplace_FreesOnFailure(t) ==
  /\ At(t, "emplace")
  /\ LET c == call[t] IN
     IF HasType(c) /\ CanAllocate(c.size)
     THEN /\ allocations' = allocations \cup {Requested(c)}
          /\ call' = [call EXCEPT ![t].at = "bump", ![t].answer = NextBase]
     ELSE Return(t, 0) /\ allocations' = allocations \ c.found
  /\ UNCHANGED <<registryVars, used, lockVars, calls, committed>>

(* allocate_with_hash_unlocked up to allocations_.emplace. *)
Emplace(t) ==
  /\ At(t, "emplace")
  /\ LET c == call[t] IN
     IF HasType(c) /\ CanAllocate(c.size)
     THEN /\ allocations' = allocations \cup {Requested(c)}
          /\ call' = [call EXCEPT ![t].at = "bump", ![t].answer = NextBase]
     ELSE Return(t, 0) /\ UNCHANGED allocations
  /\ UNCHANGED <<registryVars, used, lockVars, calls, committed>>

(* Mutant: reallocate calls release(ptr), which takes the lock again. *)
AfterBump_Relocks(op) == IF op = "reallocate" THEN "enter" ELSE "leave"

AfterBump(op) == IF op = "reallocate" THEN "erase" ELSE "leave"

(* used_ += aligned *)
Bump(t) ==
  /\ At(t, "bump")
  /\ used' = used + AlignedSize(call[t].size)
  /\ Goto(t, AfterBump(call[t].op))
  /\ UNCHANGED <<registryVars, allocations, lockVars, calls, committed>>

(* release answers true, reallocate the replacement (0 when there is none).*)
EraseAnswer(c) ==
  IF c.op = "release" THEN 1 ELSE IF c.size = 0 THEN 0 ELSE c.answer

(* allocations_.erase *)
EraseFound(t) ==
  /\ At(t, "erase")
  /\ allocations' = allocations \ call[t].found
  /\ Return(t, EraseAnswer(call[t]))
  /\ UNCHANGED <<registryVars, used, lockVars, calls, committed>>

-----------------------------------------------------------------------------
Begin(t, op, ptr, size, site_id, type_hash) ==
  /\ At(t, "idle")
  /\ calls[t] < MaxCalls[t]
  /\ calls' = [calls EXCEPT ![t] = @ + 1]
  /\ call' = [call EXCEPT ![t] =
               [op |-> op, at |-> "enter", ptr |-> ptr, size |-> size,
                site_id |-> site_id, type_hash |-> type_hash,
                found |-> {}, verdict |-> "none", answer |-> 0]]
  /\ UNCHANGED <<vars, lockVars, committed>>

BeginCall(t) ==
  \/ \E ptr \in Pointers, size \in Sizes, h \in TypeHashes :
       Begin(t, "check", ptr, size, 0, h)
  \/ \E ptr \in Pointers : Begin(t, "allocation_size", ptr, 0, 0, NoHash)
  \/ \E size \in Sizes, id \in SiteIds :
       Begin(t, "allocate_from_site", 0, size, id, NoHash)
  \/ \E ptr \in Pointers : Begin(t, "release", ptr, 0, 0, NoHash)
  \/ \E ptr \in Pointers, size \in Sizes :
       Begin(t, "reallocate", ptr, size, 0, NoHash)

Body(t) ==
  Find(t) \/ Read(t) \/ Emplace(t) \/ Bump(t) \/ EraseFound(t) \/ Leave(t)

LockInit ==
  /\ AfterStartUp(TypeOf)
  /\ readers = {} /\ writers = {}
  /\ call = [t \in Threads |-> NoCall]
  /\ calls = [t \in Threads |-> 0]
  /\ committed = [allocations |-> {}, used |-> 0]

LockNext == \E t \in Threads : BeginCall(t) \/ Enter(t) \/ Body(t)

LockSpec == LockInit /\ [][LockNext]_runVars

(* A thread that is inside a call is scheduled whenever it can move.  This *)
(* is weak fairness: shared_mutex promises nothing about who gets it next. *)
FairLockSpec ==
  LockSpec /\ \A t \in Threads : WF_runVars(Enter(t) \/ Body(t))

-----------------------------------------------------------------------------
(* A pointer or an iterator that a search returned refers to a node that   *)
(* is still in the map when the method reads it, copies from it or erases  *)
(* it, although other threads erase nodes: no use of a dead iterator.      *)
NoDanglingIterator ==
  \A t \in Threads :
    call[t].at \in {"read", "emplace", "bump", "erase"}
      => call[t].found \subseteq allocations

(* When a query is about to return, its answer is the one that its atomic  *)
(* form gives at this moment, when other writers have come and gone        *)
(* between its search and its answer or not.                               *)
AnswersAreAtomic ==
  \A t \in Threads :
    At(t, "leave") =>
      LET c == call[t] IN
      /\ c.op = "check" => c.verdict = Check(c.ptr, c.size, c.type_hash)
      /\ c.op = "allocation_size" =>
           IF AllocationAt(c.ptr) = {} THEN c.answer = 0
           ELSE \E a \in AllocationAt(c.ptr) : c.answer = a.size

(* What one critical section does to the arena, and what it answers, is    *)
(* what the call does in InterspecRuntime, where it is one step: the two   *)
(* statements of an allocation and the three of a reallocation are never   *)
(* seen half done by another thread, and a reallocation that fails leaves  *)
(* the old allocation alone.                                               *)
Atomic ==
  INSTANCE InterspecRuntime
    WITH allocations <- committed.allocations, used <- committed.used

Refuses(c) ==
  CASE c.op = "release"            -> Atomic!AllocationAt(c.ptr) = {}
    [] c.op = "reallocate"         ->
         \/ Atomic!AllocationAt(c.ptr) = {}
         \/ c.size # 0 /\ ~ Atomic!CanAllocate(c.size)
    [] c.op = "allocate_from_site" ->
         \/ site_types[c.site_id] = NoHash
         \/ ~ Atomic!CanAllocate(c.size)

Performs(c) ==
  CASE c.op = "release"            -> Atomic!Release(c.ptr) /\ c.answer = 1
    [] c.op = "reallocate"         ->
         /\ Atomic!Reallocate(c.ptr, c.size)
         /\ c.answer = IF c.size = 0 THEN 0 ELSE Atomic!NextBase
    [] c.op = "allocate_from_site" ->
         /\ Atomic!AllocateFromSite(c.size, c.site_id)
         /\ c.answer = Atomic!NextBase

CallsAreAtomic ==
  [][IF \E t \in Threads : t \in writers /\ t \notin writers'
     THEN \A t \in writers \ writers' :
            IF Refuses(call[t])
            THEN call[t].answer = 0 /\ UNCHANGED committed
            ELSE Performs(call[t])
     ELSE UNCHANGED committed]_runVars

(* Once threads begin no further calls, every call that was begun returns: *)
(* no method waits for a lock that it holds itself, or keeps it.           *)
CallsReturn == \A t \in Threads : At(t, "enter") ~> At(t, "idle")
=============================================================================
