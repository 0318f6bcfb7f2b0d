------------------------------ MODULE TypedShim ------------------------------
(***************************************************************************)
(* The sandbox side of typed memory: interspec_typed_strdup, _free and     *)
(* _realloc (integration/rsync_popt/popt_typed_shim.c, and the same for    *)
(* Wasm in popt_typed_shim_wasm.c), which replace strdup, free and realloc *)
(* in the popt library.  Each is several calls: callbacks into the trusted *)
(* Runtime, calls of libc, and copies of sandbox memory.                   *)
(*                                                                         *)
(* The library passes a pointer that it owns, without knowing whether an   *)
(* instrumented site or libc made it.  libc (malloc, free, realloc) and    *)
(* the library are external: the library is any well-behaved client.       *)
(***************************************************************************)
EXTENDS InterspecRuntime, FiniteSets

CONSTANTS
  Threads,     \* threads that run the library
  Contents,    \* what an object may hold
  NoContent,
  HeapBases,   \* where libc places its blocks
  HeapBlock,   \* bytes of a block of libc
  MaxOwned,    \* bound: objects that one thread holds at a time
  TypeOf       \* the registered types: TypeId -> type_hash or NoHash

HeapAddresses == UNION {base .. (base + HeapBlock - 1) : base \in HeapBases}
ArenaAddresses == ArenaBase .. (ArenaBase + ArenaSize - 1)

ASSUME ShimAssumption ==
  /\ HeapBases \subseteq Words /\ 0 \notin HeapBases /\ ArenaBase # 0
  /\ HeapBlock \in Nat /\ \A size \in Sizes : size <= HeapBlock
  /\ \A b, c \in HeapBases : b # c => b + HeapBlock <= c \/ c + HeapBlock <= b
  /\ HeapAddresses \cap ArenaAddresses = {}
  /\ NoContent \notin Contents
  /\ TypeOf \in [TypeIds -> TypeHashes \cup {NoHash}]

VARIABLES
  initialised,  \* interspec_popt_init_lifetime was called
  heap,         \* libc's live blocks: their bases
  memory,       \* sandbox memory: address -> a byte of some content
  owned,        \* thread -> the objects it holds
  call          \* thread -> its call of the shim, with its local variables

shimVars == <<initialised, heap, memory, owned, call>>
allVars == <<vars, shimVars>>

Addresses == HeapAddresses \cup ArenaAddresses

(* An object as its owner sees it: the first "kept" bytes hold "content".  *)
Object == [ptr : Words, size : Sizes \cup {0},
           content : Contents \cup {NoContent}, kept : Sizes \cup {0}]

Nothing == [ptr |-> 0, size |-> 0, content |-> NoContent, kept |-> 0]

Idle == [at |-> "idle", object |-> Nothing, size |-> 0, old_size |-> 0,
         dst |-> 0]

ShimTypeOK ==
  /\ TypeOK
  /\ initialised \in BOOLEAN
  /\ heap \subseteq HeapBases
  /\ memory \in [Addresses -> Contents \cup {NoContent}]
  /\ owned \in [Threads -> SUBSET Object]
  /\ call \in [Threads ->
       [at : {"idle", "strdup", "strdup_copy", "free", "libc_free", "size",
              "release", "reallocate", "copy", "libc_realloc"},
        object : Object,
        size : Sizes \cup {0}, old_size : Sizes \cup {0}, dst : Words]]

-----------------------------------------------------------------------------
At(t, point) == call[t].at = point
Goto(t, point) == call' = [call EXCEPT ![t].at = point]
Return(t) == call' = [call EXCEPT ![t] = Idle]

Own(t, o) == owned' = [owned EXCEPT ![t] = @ \cup {o}]
Disown(t, o) == owned' = [owned EXCEPT ![t] = @ \ {o}]
Replace(t, o, new) == owned' = [owned EXCEPT ![t] = (@ \ {o}) \cup {new}]

New(ptr, size) ==
  [ptr |-> ptr, size |-> size, content |-> NoContent, kept |-> 0]

(* Content that no object has. *)
Unused == Contents \ ({o.content : o \in UNION {owned[t] : t \in Threads}}
                       \cup {call[t].object.content : t \in Threads})

Write(ptr, bytes, content) ==
  memory' = [a \in Addresses |-> IF a \in ptr .. (ptr + bytes - 1)
                                 THEN content ELSE memory[a]]

Memcpy(dst, src, bytes) ==
  memory' = [a \in Addresses |-> IF a \in dst .. (dst + bytes - 1)
                                 THEN memory[src + (a - dst)] ELSE memory[a]]

MayOwnMore(t) == At(t, "idle") /\ Cardinality(owned[t]) < MaxOwned

Lesser(m, n) == IF m < n THEN m ELSE n

-----------------------------------------------------------------------------
(* The library. *)

InitLifetime ==
  /\ ~ initialised
  /\ initialised' = TRUE
  /\ UNCHANGED <<vars, heap, memory, owned, call>>

(* An instrumented malloc expression. *)
MallocAtSite(t, size, site_id) ==
  /\ MayOwnMore(t) /\ initialised
  /\ AllocateFromSite(size, site_id)
  /\ Own(t, New(NextBase, size))
  /\ UNCHANGED <<initialised, heap, memory, call>>

(* malloc, and interspec_typed_realloc of a null pointer. *)
LibcMalloc(t, size) ==
  /\ MayOwnMore(t)
  /\ size # 0
  /\ \E base \in HeapBases \ heap :
       /\ heap' = heap \cup {base}
       /\ Own(t, New(base, size))
  /\ UNCHANGED <<vars, initialised, memory, call>>

(* The library fills an object with content of its own. *)
Fill(t, o) ==
  /\ At(t, "idle")
  /\ o \in owned[t]
  /\ \E content \in Unused :
       /\ Write(o.ptr, o.size, content)
       /\ Replace(t, o, [o EXCEPT !.content = content, !.kept = o.size])
  /\ UNCHANGED <<vars, initialised, heap, call>>

-----------------------------------------------------------------------------
(* interspec_typed_strdup *)

BeginStrdup(t, size) ==
  /\ MayOwnMore(t) /\ initialised
  /\ size # 0
  /\ \E content \in Unused :
       call' = [call EXCEPT ![t] =
                  [Idle EXCEPT !.at = "strdup", !.size = size,
                               !.object = [New(0, 0) EXCEPT
                                             !.content = content]]]
  /\ UNCHANGED <<vars, initialised, heap, memory, owned>>

StrdupAllocate(t, site_id) ==
  /\ At(t, "strdup")
  /\ \/ /\ AllocateFromSite(call[t].size, site_id)
        /\ call' = [call EXCEPT ![t].at = "strdup_copy", ![t].dst = NextBase]
     \/ /\ ~ CanAllocate(call[t].size)
        /\ Return(t)
        /\ UNCHANGED vars
  /\ UNCHANGED <<initialised, heap, memory, owned>>

StrdupCopy(t) ==
  /\ At(t, "strdup_copy")
  /\ LET c == call[t] IN
     /\ Write(c.dst, c.size, c.object.content)
     /\ Own(t, [ptr |-> c.dst, size |-> c.size,
                content |-> c.object.content, kept |-> c.size])
  /\ Return(t)
  /\ UNCHANGED <<vars, initialised, heap>>

-----------------------------------------------------------------------------
(* interspec_typed_free *)

BeginFree(t, o) ==
  /\ At(t, "idle")
  /\ o \in owned[t]
  /\ Disown(t, o)
  /\ call' = [call EXCEPT ![t] = [Idle EXCEPT !.at = "free", !.object = o]]
  /\ UNCHANGED <<vars, initialised, heap, memory>>

(* Mutant: the release does not end the call. *)
AfterRelease_Continues(t) == Goto(t, "libc_free")

AfterRelease(t) == Return(t)

(* if (interspec_release && interspec_release(raw)) return; *)
FreeRelease(t) ==
  /\ At(t, "free")
  /\ LET ptr == call[t].object.ptr IN
     \/ initialised /\ Release(ptr) /\ AfterRelease(t)
     \/ /\ initialised => AllocationAt(ptr) = {}
        /\ Goto(t, "libc_free")
        /\ UNCHANGED vars
  /\ UNCHANGED <<initialised, heap, memory, owned>>

LibcFree(t) ==
  /\ At(t, "libc_free")
  /\ heap' = heap \ {call[t].object.ptr}
  /\ Return(t)
  /\ UNCHANGED <<vars, initialised, memory, owned>>

-----------------------------------------------------------------------------
(* interspec_typed_realloc *)

BeginRealloc(t, o, size) ==
  /\ At(t, "idle")
  /\ o \in owned[t]
  /\ call' = [call EXCEPT ![t] =
                [Idle EXCEPT !.at = "size", !.object = o, !.size = size]]
  /\ UNCHANGED <<vars, initialised, heap, memory, owned>>

(* interspec_size(raw): 0 when the pointer is not a typed object. *)
OldSize(ptr) ==
  IF initialised /\ AllocationAt(ptr) # {}
  THEN (CHOOSE a \in AllocationAt(ptr) : TRUE).size ELSE 0

AfterSize(old_size, size) ==
  IF old_size = 0 THEN "libc_realloc"
  ELSE IF size = 0 THEN "release" ELSE "reallocate"

QuerySize(t) ==
  /\ At(t, "size")
  /\ LET old_size == OldSize(call[t].object.ptr) IN
     call' = [call EXCEPT ![t].old_size = old_size,
                          ![t].at = AfterSize(old_size, call[t].size)]
  /\ UNCHANGED <<vars, initialised, heap, memory, owned>>

(* realloc(ptr, 0) *)
ReallocRelease(t) ==
  /\ At(t, "release")
  /\ Release(call[t].object.ptr)
  /\ Disown(t, call[t].object)
  /\ Return(t)
  /\ UNCHANGED <<initialised, heap, memory>>

(* Mutant: a call that fails has released the old object. *)
ReallocMove_FreesOnFailure(t) ==
  /\ At(t, "reallocate")
  /\ \/ /\ CanAllocate(call[t].size)
        /\ Reallocate(call[t].object.ptr, call[t].size)
        /\ call' = [call EXCEPT ![t].at = "copy", ![t].dst = NextBase]
     \/ /\ ~ CanAllocate(call[t].size)
        /\ Release(call[t].object.ptr)
        /\ Return(t)
  /\ UNCHANGED <<initialised, heap, memory, owned>>

(* dst = interspec_realloc(raw, size); if it is 0 the caller keeps ptr. *)
ReallocMove(t) ==
  /\ At(t, "reallocate")
  /\ \/ /\ CanAllocate(call[t].size)
        /\ Reallocate(call[t].object.ptr, call[t].size)
        /\ call' = [call EXCEPT ![t].at = "copy", ![t].dst = NextBase]
     \/ /\ ~ CanAllocate(call[t].size)
        /\ Return(t)
        /\ UNCHANGED vars
  /\ UNCHANGED <<initialised, heap, memory, owned>>

(* Mutant: the larger of the two sizes. *)
CopySize_Larger(c) == IF c.old_size < c.size THEN c.size ELSE c.old_size

(* copy = old_size < size ? old_size : size *)
CopySize(c) == Lesser(c.old_size, c.size)

(* memcpy(dst, ptr, copy), when T has already forgotten ptr. *)
ReallocCopy(t) ==
  /\ At(t, "copy")
  /\ LET c == call[t]
         o == c.object
     IN /\ Memcpy(c.dst, o.ptr, CopySize(c))
        /\ Replace(t, o, [o EXCEPT !.ptr = c.dst, !.size = c.size,
                                   !.kept = Lesser(o.kept, c.size)])
  /\ Return(t)
  /\ UNCHANGED <<vars, initialised, heap>>

(* realloc(ptr, size) of libc: free it, grow it where it is, or move it.   *)
LibcRealloc(t) ==
  /\ At(t, "libc_realloc")
  /\ LET c == call[t]
         o == c.object
     IN \/ /\ c.size = 0
           /\ heap' = heap \ {o.ptr}
           /\ Disown(t, o)
           /\ UNCHANGED memory
        \/ /\ c.size # 0
           /\ \E base \in (HeapBases \ heap) \cup {o.ptr} :
                /\ heap' = (heap \ {o.ptr}) \cup {base}
                /\ Memcpy(base, o.ptr, Lesser(o.size, c.size))
                /\ Replace(t, o, [o EXCEPT !.ptr = base, !.size = c.size,
                                           !.kept = Lesser(o.kept, c.size)])
  /\ Return(t)
  /\ UNCHANGED <<vars, initialised>>

-----------------------------------------------------------------------------
ShimInit ==
  /\ AfterStartUp(TypeOf)
  /\ initialised = FALSE
  /\ heap = {}
  /\ memory = [a \in Addresses |-> NoContent]
  /\ owned = [t \in Threads |-> {}]
  /\ call = [t \in Threads |-> Idle]

TypedStrdup(t) ==
  \/ \E size \in Sizes : BeginStrdup(t, size)
  \/ \E site_id \in SiteIds : StrdupAllocate(t, site_id)
  \/ StrdupCopy(t)

TypedFree(t) ==
  (\E o \in owned[t] : BeginFree(t, o)) \/ FreeRelease(t) \/ LibcFree(t)

TypedRealloc(t) ==
  \/ \E o \in owned[t], size \in Sizes \cup {0} : BeginRealloc(t, o, size)
  \/ QuerySize(t)
  \/ ReallocRelease(t)
  \/ ReallocMove(t)
  \/ ReallocCopy(t)
  \/ LibcRealloc(t)

ShimNext ==
  \/ InitLifetime
  \/ \E t \in Threads :
       \/ \E size \in Sizes, site_id \in SiteIds : MallocAtSite(t, size, site_id)
       \/ \E size \in Sizes : LibcMalloc(t, size)
       \/ \E o \in owned[t] : Fill(t, o)
       \/ TypedStrdup(t)
       \/ TypedFree(t)
       \/ TypedRealloc(t)

ShimSpec == ShimInit /\ [][ShimNext]_allVars

-----------------------------------------------------------------------------
(* The objects that are not in the middle of being moved. *)
Settled(t) == IF At(t, "copy") THEN owned[t] \ {call[t].object} ELSE owned[t]

(* A reallocation moves an object in two steps: T forgets the old address  *)
(* first, U copies the bytes afterwards.  Other threads allocate, fill and *)
(* free between the two.  Even so what the library wrote into an object    *)
(* stays there: the bytes arrive whole, no copy runs over a neighbour, and *)
(* libc's memory and typed memory never overlap.                           *)
ContentsPreserved ==
  \A t \in Threads : \A o \in Settled(t) :
    \A a \in o.ptr .. (o.ptr + o.kept - 1) : memory[a] = o.content

(* run_rlbox_nacl_poc_impl.sh: the lifetime operations go "through the     *)
(* trusted runtime when the pointer belongs to the InterSpec arena", and   *)
(* "retain normal libc behavior" otherwise.  free and realloc of libc get  *)
(* only pointers that libc gave out and that are still allocated, before   *)
(* and after the lifetime callbacks are set.                               *)
LibcSeesItsOwn ==
  \A t \in Threads :
    call[t].at \in {"libc_free", "libc_realloc"} =>
      call[t].object.ptr \in heap

(* Every pointer that the library still holds is good for its size, in one *)
(* of the two allocators, and no two owners have the same one; a failed    *)
(* reallocation has not taken the old object away.                         *)
OwnedIsLive ==
  \A t \in Threads : \A o \in Settled(t) :
    /\ \/ \E a \in AllocationAt(o.ptr) : a.size = o.size
       \/ o.ptr \in heap
    /\ \A u \in Threads : \A p \in Settled(u) : p.ptr = o.ptr => p = o /\ u = t

(* Every typed object is held by the library or is in the hands of a call: *)
(* no path through the shim, and no realloc(ptr, 0), leaves trusted        *)
(* metadata behind that nobody can release any more.                       *)
NoTypedLeak ==
  \A a \in allocations :
    \E t \in Threads :
      \/ \E o \in Settled(t) : o.ptr = a.base
      \/ At(t, "free") /\ call[t].object.ptr = a.base
      \/ call[t].at \in {"copy", "strdup_copy"} /\ call[t].dst = a.base

(* The objects that the library holds and the ones that are allocated are  *)
(* the same: neither a failed call nor an interleaving of two takes a held *)
(* object away, shares it or forgets it.                                   *)
HeldIsAllocated == OwnedIsLive /\ NoTypedLeak
=============================================================================
