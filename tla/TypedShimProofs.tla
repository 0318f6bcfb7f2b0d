-------------------------- MODULE TypedShimProofs --------------------------
(***************************************************************************)
(* What the library holds is allocated, what is allocated is held, libc    *)
(* sees its own blocks only, and contents survive every move: for every    *)
(* number of threads, any arena, any heap and any interleaving of calls.   *)
(***************************************************************************)
EXTENDS TypedShim, InterspecRuntimeProofs

-----------------------------------------------------------------------------
(* Who answers for an object.  Between two steps of a call an object may   *)
(* be held by nobody in the library: the call is its owner then.  A claim  *)
(* is an object with the one who answers for it.                           *)

(* The object that a call has in its hands and the library does not hold.  *)
InHand(t) ==
  IF call[t].at \in {"free", "libc_free"} THEN {call[t].object}
  ELSE IF call[t].at \in {"strdup_copy", "copy"}
  THEN {New(call[t].dst, call[t].size)}
  ELSE {}

(* The objects that t answers for: its own and those of its call. *)
Claims(t) ==
  {[object |-> o, held |-> TRUE] : o \in Settled(t)}
    \cup {[object |-> o, held |-> FALSE] : o \in InHand(t)}

Bytes(o) == o.ptr .. (o.ptr + o.size - 1)

(* An object has room for its size, in one of the two allocators. *)
Backed(o) ==
  /\ o.size > 0
  /\ o.kept <= o.size
  /\ \/ \E a \in allocations : a.base = o.ptr /\ a.size = o.size
     \/ o.ptr \in heap /\ o.size <= HeapBlock

(* The bytes of an object that T has forgotten: no allocation has them.    *)
Forgotten(o) ==
  /\ o.size > 0
  /\ o.kept <= o.size
  /\ ArenaBase <= o.ptr
  /\ o.ptr + o.size <= ArenaBase + used
  /\ \A a \in allocations :
       a.base + a.size <= o.ptr \/ o.ptr + o.size <= a.base

(* Every claim is of an allocated object, no two claims are of the same    *)
(* address, and every typed allocation is claimed.                         *)
ClaimsBacked == \A t \in Threads : \A c \in Claims(t) : Backed(c.object)

ClaimsUnique ==
  \A t, u \in Threads : \A c \in Claims(t), d \in Claims(u) :
    c.object.ptr = d.object.ptr => c = d /\ t = u

ClaimsCover ==
  \A a \in allocations : \E t \in Threads : \E c \in Claims(t) :
    c.object.ptr = a.base

(* What a call knows at each of its points. *)
CallKnows(t) ==
  /\ call[t].at \in {"size", "release", "reallocate", "copy", "libc_realloc"} =>
       call[t].object \in owned[t]
  /\ call[t].at \in {"strdup", "strdup_copy", "release", "reallocate", "copy"} =>
       initialised
  /\ call[t].at \in {"libc_free", "libc_realloc"} => call[t].object.ptr \in heap
  /\ call[t].at \in {"release", "reallocate"} =>
       \E a \in allocations : a.base = call[t].object.ptr
  /\ call[t].at \in {"strdup", "strdup_copy", "reallocate", "copy"} =>
       call[t].size # 0
  /\ call[t].at \in {"reallocate", "copy"} =>
       call[t].old_size = call[t].object.size
  /\ call[t].at = "copy" => Forgotten(call[t].object)

(* The bytes of everything held, an object in the middle of a move too,    *)
(* whose old bytes are not allocated any more.                             *)
ContentsKept ==
  \A t \in Threads : \A o \in owned[t] :
    \A a \in o.ptr .. (o.ptr + o.kept - 1) : memory[a] = o.content

Layout == Typed /\ BelowBump /\ LiveDisjoint

(* ContentsPreserved alone is not inductive: a write must be known not to  *)
(* hit another object, so objects must be known to have disjoint owners    *)
(* and places; and the copy of a move reads bytes that were released, so   *)
(* these must be known to be nobody else's until then (Forgotten).         *)
ShimInv ==
  /\ ShimTypeOK /\ Layout
  /\ initialised \/ allocations = {}
  /\ ClaimsBacked /\ ClaimsUnique /\ ClaimsCover
  /\ \A t \in Threads : CallKnows(t)
  /\ ContentsKept

-----------------------------------------------------------------------------
(* Where objects lie. *)

(* Addresses and sizes are natural numbers. *)
LEMMA Numbers ==
  /\ ArenaBase \in Nat /\ ArenaSize \in Nat /\ HeapBlock \in Nat
  /\ HeapBases \subseteq Nat /\ Sizes \subseteq Nat /\ Words \subseteq Nat
  /\ \A o \in Object : o.ptr \in Nat /\ o.size \in Nat /\ o.kept \in Nat
<1>1. MaxWord \in Nat /\ Words \subseteq Nat
  BY WordAssumption DEF Words
<1>2. Sizes \subseteq Nat /\ HeapBases \subseteq Nat
  BY <1>1, InputAssumption, ShimAssumption
<1>3. ASSUME NEW o \in Object
      PROVE  o.ptr \in Nat /\ o.size \in Nat /\ o.kept \in Nat
  <2>1. o.ptr \in Words /\ o.size \in Sizes \cup {0} /\ o.kept \in Sizes \cup {0}
    BY DEF Object
  <2>2. \A n \in Sizes \cup {0} : n \in Nat
    BY <1>2
  <2>3. \A n \in Words : n \in Nat
    BY <1>1
  <2> QED BY <2>1, <2>2, <2>3
<1>4. ArenaBase \in Nat /\ ArenaSize \in Nat /\ HeapBlock \in Nat
  BY <1>1, WordAssumption, ShimAssumption
<1> QED BY <1>1, <1>2, <1>3, <1>4

(* The types of what a thread holds and of the call it is in. *)
LEMMA ShimTypes ==
  ASSUME ShimTypeOK, NEW t \in Threads
  PROVE  /\ owned[t] \subseteq Object /\ owned[t] \in SUBSET Object
         /\ call[t].at \in {"idle", "strdup", "strdup_copy", "free",
                            "libc_free", "size", "release", "reallocate",
                            "copy", "libc_realloc"}
         /\ call[t].object \in Object
         /\ call[t].size \in Sizes \cup {0}
         /\ call[t].old_size \in Sizes \cup {0}
         /\ call[t].dst \in Words
         /\ \A c \in Claims(t) : c.object \in Object
         /\ Settled(t) \subseteq owned[t]
<1>1. /\ owned[t] \in SUBSET Object
      /\ call[t].at \in {"idle", "strdup", "strdup_copy", "free",
                         "libc_free", "size", "release", "reallocate",
                         "copy", "libc_realloc"}
      /\ call[t].object \in Object
      /\ call[t].size \in Sizes \cup {0}
      /\ call[t].old_size \in Sizes \cup {0}
      /\ call[t].dst \in Words
  BY DEF ShimTypeOK
<1>2. Settled(t) \subseteq owned[t]
  BY DEF Settled
<1>3. InHand(t) \subseteq Object
  BY <1>1 DEF InHand, New, Object
<1>4. \A c \in Claims(t) : c.object \in Object
  BY <1>1, <1>2, <1>3 DEF Claims
<1> QED BY <1>1, <1>2, <1>4

(* Live objects lie below the bump pointer. *)
LEMMA AllocationTypes ==
  ASSUME Layout
  PROVE  /\ \A a \in allocations :
              /\ a.base \in Nat /\ a.size \in Nat /\ a.size > 0
              /\ ArenaBase <= a.base
              /\ a.base + a.size <= ArenaBase + used
              /\ a.base + a.size <= ArenaBase + ArenaSize
         /\ used \in Nat /\ used <= ArenaSize
BY WordAssumption
DEF Layout, Typed, TypeOK, Allocation, BelowBump, UsedWithinCapacity, Words

(* Two places: typed memory, and the blocks of libc. *)
LEMMA BackedLies ==
  ASSUME Layout, heap \subseteq HeapBases, NEW o \in Object, Backed(o)
  PROVE  /\ \A x \in Bytes(o) : x \in Nat
         /\ Bytes(o) \subseteq Addresses
         /\ o.ptr \in Bytes(o)
         /\ \/ Bytes(o) \subseteq ArenaAddresses /\ o.ptr \notin heap
               /\ \E a \in allocations : a.base = o.ptr /\ a.size = o.size
            \/ Bytes(o) \subseteq HeapAddresses /\ o.ptr \in heap
               /\ o.size <= HeapBlock
               /\ \A a \in allocations : a.base # o.ptr
<1>1. o.ptr \in Nat /\ o.size \in Nat /\ o.size > 0
  BY Numbers DEF Backed
<1>2. o.ptr \in Bytes(o) /\ \A x \in Bytes(o) : x \in Nat
  BY <1>1 DEF Bytes
<1>3. \A a \in allocations : a.base \in ArenaAddresses
  BY Numbers, AllocationTypes DEF ArenaAddresses
<1>4. CASE \E a \in allocations : a.base = o.ptr /\ a.size = o.size
  <2>1. PICK a \in allocations : a.base = o.ptr /\ a.size = o.size
    BY <1>4
  <2>2. /\ a.base \in Nat /\ ArenaBase <= a.base
        /\ a.base + a.size <= ArenaBase + ArenaSize
    BY AllocationTypes
  <2>3. Bytes(o) \subseteq ArenaAddresses
    BY <1>1, <2>1, <2>2, Numbers DEF Bytes, ArenaAddresses
  <2>4. o.ptr \notin heap
    <3>1. ASSUME o.ptr \in heap PROVE FALSE
      <4>1. PICK b \in HeapBases : b = o.ptr
        BY <3>1
      <4>2. a.size <= HeapBlock
        <5>1. o.size \in Sizes
          BY <1>1 DEF Object
        <5> QED BY <2>1, <5>1, ShimAssumption
      <4>3. o.ptr \in b .. (b + HeapBlock - 1)
        BY <1>1, <2>1, <4>1, <4>2, Numbers
      <4>4. o.ptr \in HeapAddresses
        BY <4>3 DEF HeapAddresses
      <4> QED BY <1>2, <2>3, <4>4, ShimAssumption
    <3> QED BY <3>1
  <2> QED BY <1>2, <1>4, <2>3, <2>4 DEF Addresses
<1>5. CASE o.ptr \in heap /\ o.size <= HeapBlock
  <2>1. PICK b \in HeapBases : b = o.ptr
    BY <1>5
  <2>2. \A x \in Bytes(o) : x \in b .. (b + HeapBlock - 1)
    BY <1>1, <1>5, <2>1, Numbers DEF Bytes
  <2>3. Bytes(o) \subseteq HeapAddresses
    BY <2>2 DEF HeapAddresses
  <2>4. \A a \in allocations : a.base # o.ptr
    BY <1>2, <1>3, <2>3, ShimAssumption
  <2> QED BY <1>2, <1>5, <2>3, <2>4 DEF Addresses
<1> QED BY <1>4, <1>5 DEF Backed

(* Two objects at different addresses have no byte in common. *)
LEMMA BackedApart ==
  ASSUME Layout, heap \subseteq HeapBases,
         NEW o \in Object, NEW p \in Object, Backed(o), Backed(p), o.ptr # p.ptr
  PROVE  Bytes(o) \cap Bytes(p) = {}
<1>1. /\ o.ptr \in Nat /\ o.size \in Nat /\ p.ptr \in Nat /\ p.size \in Nat
  BY Numbers
<1>2. CASE /\ \E a \in allocations : a.base = o.ptr /\ a.size = o.size
           /\ \E a \in allocations : a.base = p.ptr /\ a.size = p.size
  <2>1. PICK a \in allocations, b \in allocations :
          /\ a.base = o.ptr /\ a.size = o.size
          /\ b.base = p.ptr /\ b.size = p.size
    BY <1>2
  <2>2. a.base + a.size <= b.base \/ b.base + b.size <= a.base
    BY <2>1 DEF Layout, LiveDisjoint
  <2> QED BY <1>1, <2>1, <2>2 DEF Bytes
<1>3. CASE /\ o.ptr \in heap /\ o.size <= HeapBlock
           /\ p.ptr \in heap /\ p.size <= HeapBlock
  <2>1. o.ptr + HeapBlock <= p.ptr \/ p.ptr + HeapBlock <= o.ptr
    BY <1>3, ShimAssumption
  <2> QED BY <1>1, <1>3, <2>1, Numbers DEF Bytes
<1>4. CASE \/ Bytes(o) \subseteq ArenaAddresses /\ Bytes(p) \subseteq HeapAddresses
           \/ Bytes(p) \subseteq ArenaAddresses /\ Bytes(o) \subseteq HeapAddresses
  BY <1>4, ShimAssumption
<1> QED BY <1>2, <1>3, <1>4, BackedLies

(* The arena is never rewound, so released bytes stay apart from all that  *)
(* is allocated later.                                                     *)
LEMMA ForgottenLies ==
  ASSUME Layout, heap \subseteq HeapBases, NEW o \in Object, Forgotten(o)
  PROVE  /\ Bytes(o) \subseteq Addresses
         /\ \A p \in Object : Backed(p) => Bytes(o) \cap Bytes(p) = {}
         /\ \A b \in HeapBases :
              Bytes(o) \cap (b .. (b + HeapBlock - 1)) = {}
<1>1. o.ptr \in Nat /\ o.size \in Nat /\ ArenaBase \in Nat /\ ArenaSize \in Nat
  BY Numbers
<1>2. Bytes(o) \subseteq ArenaAddresses
  BY <1>1, AllocationTypes DEF Forgotten, Bytes, ArenaAddresses
<1>3. ASSUME NEW p \in Object, Backed(p) PROVE Bytes(o) \cap Bytes(p) = {}
  <2>1. CASE Bytes(p) \subseteq HeapAddresses
    BY <1>2, <2>1, ShimAssumption
  <2>2. CASE \E a \in allocations : a.base = p.ptr /\ a.size = p.size
    <3>1. p.ptr + p.size <= o.ptr \/ o.ptr + o.size <= p.ptr
      BY <2>2 DEF Forgotten
    <3> QED BY <1>1, <3>1, Numbers DEF Bytes
  <2> QED BY <1>3, <2>1, <2>2, BackedLies
<1>4. ASSUME NEW b \in HeapBases
      PROVE  Bytes(o) \cap (b .. (b + HeapBlock - 1)) = {}
  BY <1>2, ShimAssumption DEF HeapAddresses
<1> QED BY <1>2, <1>3, <1>4 DEF Addresses


(* A typed object is handed out where nobody has one, and so is a block of *)
(* libc.                                                                   *)
LEMMA FreshTyped ==
  ASSUME ShimInv, NEW size \in Words, CanAllocate(size), NEW t \in Threads,
         NEW c \in Claims(t)
  PROVE  c.object.ptr # NextBase
<1>1. /\ size \in Nat /\ size > 0 /\ NextBase = ArenaBase + used
      /\ AlignedSize(size) \in Nat /\ AlignedSize(size) >= size
      /\ used + AlignedSize(size) <= ArenaSize
      /\ used \in Nat
  BY AllocationFits, Numbers, AllocationTypes DEF ShimInv, Layout, Typed, TypeOK
<1>2. NextBase \in ArenaAddresses
  BY <1>1, Numbers DEF ArenaAddresses
<1>3. c.object \in Object /\ Backed(c.object)
  BY ShimTypes DEF ShimInv, ClaimsBacked
<1>4. heap \subseteq HeapBases
  BY DEF ShimInv, ShimTypeOK
<1>5. \A a \in allocations : a.base # NextBase
  BY DEF CanAllocate, AllocationAt
<1>6. CASE \E a \in allocations : a.base = c.object.ptr
  BY <1>5, <1>6
<1>7. CASE Bytes(c.object) \subseteq HeapAddresses
  <2>1. c.object.ptr \in HeapAddresses
    BY <1>3, <1>4, <1>7, BackedLies DEF ShimInv
  <2> QED BY <1>2, <2>1, ShimAssumption
<1> QED BY <1>3, <1>4, <1>6, <1>7, BackedLies DEF ShimInv

(* A block of libc that is not the object's own is apart from it. *)
LEMMA HeapApart ==
  ASSUME Layout, heap \subseteq HeapBases, NEW o \in Object, Backed(o),
         NEW b \in HeapBases, o.ptr # b
  PROVE  Bytes(o) \cap (b .. (b + HeapBlock - 1)) = {}
<1>1. o.ptr \in Nat /\ o.size \in Nat /\ b \in Nat /\ HeapBlock \in Nat
  BY Numbers
<1>2. CASE o.ptr \in heap /\ o.size <= HeapBlock
  <2>1. o.ptr + HeapBlock <= b \/ b + HeapBlock <= o.ptr
    BY <1>2, ShimAssumption
  <2> QED BY <1>1, <1>2, <2>1 DEF Bytes
<1>3. CASE Bytes(o) \subseteq ArenaAddresses
  BY <1>3, ShimAssumption DEF HeapAddresses
<1> QED BY <1>2, <1>3, BackedLies

(* A block that libc gives out is not at the address of anything that      *)
(* somebody answers for.                                                   *)
LEMMA FreshHeap ==
  ASSUME ShimInv, NEW b \in HeapBases \ heap, NEW t \in Threads,
         NEW c \in Claims(t), HeapBlock > 0
  PROVE  c.object.ptr # b
<1>1. c.object \in Object /\ Backed(c.object)
  BY ShimTypes DEF ShimInv, ClaimsBacked
<1>2. heap \subseteq HeapBases /\ b \in Nat /\ HeapBlock \in Nat
  BY Numbers DEF ShimInv, ShimTypeOK
<1>3. b \in HeapAddresses
  <2>1. b \in b .. (b + HeapBlock - 1)
    BY <1>2
  <2> QED BY <2>1 DEF HeapAddresses
<1>4. ASSUME c.object.ptr = b PROVE FALSE
  <2>1. Bytes(c.object) \subseteq ArenaAddresses /\ b \in Bytes(c.object)
    BY <1>1, <1>2, <1>4, BackedLies DEF ShimInv
  <2> QED BY <1>3, <2>1, ShimAssumption
<1> QED BY <1>4

(* Allocations do not share a base. *)
LEMMA OneAllocation ==
  ASSUME Layout, NEW a \in allocations, NEW b \in allocations, a.base = b.base
  PROVE  a = b
<1>1. /\ a.base \in Nat /\ a.size \in Nat /\ a.size > 0
      /\ b.size \in Nat /\ b.size > 0
  BY AllocationTypes
<1>2. a # b => a.base + a.size <= b.base \/ b.base + b.size <= a.base
  BY DEF Layout, LiveDisjoint
<1> QED BY <1>1, <1>2

-----------------------------------------------------------------------------
(* What a thread holds. *)

(* An object that a client holds is backed, or is the one that a call is   *)
(* about to copy from.                                                     *)
LEMMA OwnedLies ==
  ASSUME ShimInv, NEW t \in Threads, NEW o \in owned[t]
  PROVE  /\ o \in Object /\ o.size > 0 /\ o.kept <= o.size
         /\ o \in Settled(t) =>
              Backed(o) /\ [object |-> o, held |-> TRUE] \in Claims(t)
         /\ o \notin Settled(t) =>
              At(t, "copy") /\ o = call[t].object /\ Forgotten(o)
         /\ ~ At(t, "copy") => o \in Settled(t)
<1>1. o \in Object
  BY ShimTypes DEF ShimInv
<1>2. o \in Settled(t) =>
        Backed(o) /\ [object |-> o, held |-> TRUE] \in Claims(t)
  <2>1. SUFFICES ASSUME o \in Settled(t)
                 PROVE  Backed(o) /\ [object |-> o, held |-> TRUE] \in Claims(t)
    OBVIOUS
  <2>2. [object |-> o, held |-> TRUE] \in Claims(t)
    BY <2>1 DEF Claims
  <2>3. Backed([object |-> o, held |-> TRUE].object)
    BY <2>2 DEF ShimInv, ClaimsBacked
  <2> QED BY <2>2, <2>3
<1>3. o \notin Settled(t) =>
        At(t, "copy") /\ o = call[t].object /\ Forgotten(o)
  BY DEF Settled, At, ShimInv, CallKnows
<1>4. ~ At(t, "copy") => o \in Settled(t)
  BY DEF Settled
<1> QED BY <1>1, <1>2, <1>3, <1>4 DEF Backed, Forgotten

(* Nothing that is held, not even the old bytes of an object that is being *)
(* moved, lies on the bytes of another object.                             *)
LEMMA OwnedApart ==
  ASSUME ShimInv, NEW t \in Threads, NEW u \in Threads,
         NEW c \in Claims(t), NEW o \in owned[u],
         ~ (u = t /\ c = [object |-> o, held |-> TRUE])
  PROVE  Bytes(o) \cap Bytes(c.object) = {}
<1>1. /\ c.object \in Object /\ Backed(c.object) /\ o \in Object
      /\ Layout /\ heap \subseteq HeapBases
  BY ShimTypes, OwnedLies DEF ShimInv, ClaimsBacked, ShimTypeOK
<1>2. CASE o \in Settled(u)
  <2> DEFINE d == [object |-> o, held |-> TRUE]
  <2>1. d \in Claims(u) /\ Backed(o)
    BY <1>2, OwnedLies
  <2>2. d.object.ptr # c.object.ptr
    BY <2>1 DEF ShimInv, ClaimsUnique
  <2> QED BY <1>1, <2>1, <2>2, BackedApart
<1>3. CASE o \notin Settled(u)
  BY <1>1, <1>3, OwnedLies, ForgottenLies
<1> QED BY <1>2, <1>3

(* An object does not meet a block of libc that is not its own. *)
LEMMA OwnedHeapApart ==
  ASSUME ShimInv, NEW u \in Threads, NEW o \in owned[u], NEW b \in HeapBases,
         o \in Settled(u) => o.ptr # b
  PROVE  Bytes(o) \cap (b .. (b + HeapBlock - 1)) = {}
<1>1. o \in Object /\ Layout /\ heap \subseteq HeapBases
  BY OwnedLies DEF ShimInv, ShimTypeOK
<1>2. CASE o \in Settled(u)
  BY <1>1, <1>2, OwnedLies, HeapApart
<1>3. CASE o \notin Settled(u)
  BY <1>1, <1>3, OwnedLies, ForgottenLies
<1> QED BY <1>2, <1>3

-----------------------------------------------------------------------------
(* Steps.  A step of thread t puts the objects of "new" in the place of    *)
(* those of "gone".                                                        *)

OthersStay(t) ==
  \A u \in Threads : u # t => owned'[u] = owned[u] /\ call'[u] = call[u]

TakesOnly(gone) ==
  /\ \A a \in allocations : a \notin allocations' =>
       \E g \in gone : g.object.ptr = a.base
  /\ \A b \in heap : b \notin heap' => \E g \in gone : g.object.ptr = b

GivesOnly(gone, new) ==
  \A a \in allocations' :
    \/ \E n \in new : n.object.ptr = a.base
    \/ a \in allocations /\ \A g \in gone : g.object.ptr # a.base

Exchange(t, gone, new) ==
  /\ OthersStay(t)
  /\ gone \subseteq Claims(t)
  /\ Claims(t)' = (Claims(t) \ gone) \cup new
  /\ TakesOnly(gone)
  /\ GivesOnly(gone, new)
  /\ \A m, n \in new : m = n
  /\ \A n \in new :
       /\ Backed(n.object)'
       /\ \/ \E g \in gone : g.object.ptr = n.object.ptr
          \/ \A u \in Threads : \A c \in Claims(u) : c.object.ptr # n.object.ptr

(* The arena only grows, and what is new in it is above all that was there. *)
LEMMA ArenaGrows ==
  ASSUME Layout, [Next]_vars
  PROVE  /\ used' \in Nat /\ used <= used'
         /\ \A a \in allocations' : a \in allocations \/ a.base = ArenaBase + used
<1>1. used \in Nat /\ used \in Words /\ UsedWithinCapacity /\ TypeOK
  BY AllocationTypes DEF Layout, Typed, TypeOK
<1>2. CASE UNCHANGED arenaVars
  BY <1>1, <1>2 DEF arenaVars
<1>3. CASE \E a \in allocations : Erase(a)
  BY <1>1, <1>3 DEF Erase
<1>4. ASSUME NEW size \in Words, NEW h, NEW id, CanAllocate(size),
             used' = used + AlignedSize(size),
             allocations' \subseteq allocations \cup {NewAllocation(size, h, id)}
      PROVE  /\ used' \in Nat /\ used <= used'
             /\ \A a \in allocations' :
                  a \in allocations \/ a.base = ArenaBase + used
  <2>1. AlignedSize(size) \in Nat /\ NextBase = ArenaBase + used
    BY <1>1, <1>4, AllocationFits
  <2>2. NewAllocation(size, h, id).base = NextBase
    BY DEF NewAllocation
  <2> QED BY <1>1, <1>4, <2>1, <2>2
<1> QED
  <2>1. CASE \E size \in Words, h \in TypeHashes, id \in SiteIds :
               /\ CanAllocate(size)
               /\ used' = used + AlignedSize(size)
               /\ allocations' \subseteq
                    allocations \cup {NewAllocation(size, h, id)}
    BY <1>4, <2>1
  <2> QED BY <1>1, <1>2, <1>3, <2>1, ArenaStepKinds

(* A step of one thread leaves what the others answer for. *)
LEMMA SameClaims ==
  ASSUME NEW t, OthersStay(t), NEW u \in Threads, u # t
  PROVE  Claims(u)' = Claims(u) /\ Settled(u)' = Settled(u)
BY DEF OthersStay, Claims, Settled, InHand, At

(* What one thread does leaves what the others know true. *)
LEMMA OthersKnow ==
  ASSUME ShimInv, [Next]_vars, NEW t \in Threads, NEW gone, NEW new,
         Exchange(t, gone, new), initialised => initialised',
         NEW u \in Threads, u # t
  PROVE  CallKnows(u)'
<1>1. call'[u] = call[u] /\ owned'[u] = owned[u]
  BY DEF Exchange, OthersStay
<1>2. CallKnows(u) /\ Layout /\ call[u].object \in Object
  BY ShimTypes DEF ShimInv
<1>3. \A c \in Claims(u) : \A g \in gone : g.object.ptr # c.object.ptr
  BY DEF ShimInv, ClaimsUnique, Exchange
<1>4. call[u].at \in {"libc_free", "libc_realloc", "release", "reallocate"} =>
        \E c \in Claims(u) : c.object = call[u].object
  <2>1. SUFFICES ASSUME call[u].at \in {"libc_free", "libc_realloc", "release",
                                        "reallocate"}
                 PROVE  \E c \in Claims(u) : c.object = call[u].object
    OBVIOUS
  <2>2. CASE call[u].at = "libc_free"
    <3>1. [object |-> call[u].object, held |-> FALSE] \in Claims(u)
      BY <2>2 DEF Claims, InHand
    <3> QED BY <3>1
  <2>3. CASE call[u].at # "libc_free"
    <3>1. call[u].object \in Settled(u)
      BY <1>2, <2>1, <2>3 DEF CallKnows, Settled, At
    <3>2. [object |-> call[u].object, held |-> TRUE] \in Claims(u)
      BY <3>1 DEF Claims
    <3> QED BY <3>2
  <2> QED BY <2>2, <2>3
<1>5. call[u].at \in {"libc_free", "libc_realloc"} =>
        call[u].object.ptr \in heap'
  BY <1>2, <1>3, <1>4 DEF CallKnows, Exchange, TakesOnly
<1>6. call[u].at \in {"release", "reallocate"} =>
        \E a \in allocations' : a.base = call[u].object.ptr
  BY <1>2, <1>3, <1>4 DEF CallKnows, Exchange, TakesOnly
<1>7. call[u].at = "copy" => Forgotten(call[u].object)'
  <2>1. SUFFICES ASSUME call[u].at = "copy"
                 PROVE  Forgotten(call[u].object)'
    OBVIOUS
  <2> DEFINE o == call[u].object
  <2>2. Forgotten(o) /\ o.ptr \in Nat /\ o.size \in Nat
    BY <1>2, <2>1, Numbers DEF CallKnows
  <2>3. o.ptr + o.size <= ArenaBase + used'
    BY <2>2, ArenaGrows, AllocationTypes, Numbers, <1>2 DEF Forgotten
  <2>4. \A a \in allocations' :
          a.base + a.size <= o.ptr \/ o.ptr + o.size <= a.base
    BY <1>2, <2>2, ArenaGrows, Numbers DEF Forgotten
  <2> QED BY <1>1, <2>2, <2>3, <2>4 DEF Forgotten
<1> QED
  BY <1>1, <1>2, <1>5, <1>6, <1>7 DEF CallKnows

(* Every object keeps one owner, and every owner an object.                *)
LEMMA ClaimsStep ==
  ASSUME ShimInv, NEW t \in Threads, NEW gone, NEW new, Exchange(t, gone, new)
  PROVE  ClaimsBacked' /\ ClaimsUnique' /\ ClaimsCover'
<1>1. \A u \in Threads : u # t => Claims(u)' = Claims(u)
  BY SameClaims DEF Exchange
<1>2. Claims(t)' = (Claims(t) \ gone) \cup new /\ gone \subseteq Claims(t)
  BY DEF Exchange
<1>3. ASSUME NEW u \in Threads, NEW c \in Claims(u), ~ (u = t /\ c \in gone)
      PROVE  /\ Backed(c.object)'
             /\ \A g \in gone : g.object.ptr # c.object.ptr
  <2>1. \A g \in gone : g.object.ptr # c.object.ptr
    BY <1>2, <1>3 DEF ShimInv, ClaimsUnique
  <2>2. Backed(c.object)
    BY DEF ShimInv, ClaimsBacked
  <2> QED BY <2>1, <2>2 DEF Backed, Exchange, TakesOnly
<1>4. ASSUME NEW u \in Threads, NEW c \in Claims(u)'
      PROVE  \/ c \in Claims(u) /\ ~ (u = t /\ c \in gone)
             \/ u = t /\ c \in new
  BY <1>1, <1>2, <1>4
<1>5. ClaimsBacked'
  BY <1>3, <1>4 DEF ClaimsBacked, Exchange
<1>6. ClaimsUnique'
  <2>1. ASSUME NEW u \in Threads, NEW w \in Threads, NEW c \in Claims(u)',
               NEW d \in Claims(w)', c.object.ptr = d.object.ptr
        PROVE  c = d /\ u = w
    <3>1. CASE /\ c \in Claims(u) /\ ~ (u = t /\ c \in gone)
               /\ d \in Claims(w) /\ ~ (w = t /\ d \in gone)
      BY <2>1, <3>1 DEF ShimInv, ClaimsUnique
    <3>2. CASE u = t /\ c \in new /\ w = t /\ d \in new
      BY <3>2 DEF Exchange
    <3>3. CASE /\ u = t /\ c \in new
               /\ d \in Claims(w) /\ ~ (w = t /\ d \in gone)
      BY <1>3, <2>1, <3>3 DEF Exchange
    <3>4. CASE /\ w = t /\ d \in new
               /\ c \in Claims(u) /\ ~ (u = t /\ c \in gone)
      BY <1>3, <2>1, <3>4 DEF Exchange
    <3> QED BY <1>4, <3>1, <3>2, <3>3, <3>4
  <2> QED BY <2>1 DEF ClaimsUnique
<1>7. ClaimsCover'
  <2>1. ASSUME NEW a \in allocations'
        PROVE  \E u \in Threads : \E c \in Claims(u)' : c.object.ptr = a.base
    <3>1. CASE \E n \in new : n.object.ptr = a.base
      BY <1>2, <3>1
    <3>2. CASE a \in allocations /\ \A g \in gone : g.object.ptr # a.base
      <4>1. PICK u \in Threads : \E c \in Claims(u) : c.object.ptr = a.base
        BY <3>2 DEF ShimInv, ClaimsCover
      <4>2. PICK c \in Claims(u) : c.object.ptr = a.base
        BY <4>1
      <4>3. c \in Claims(u)'
        BY <1>1, <1>2, <3>2, <4>2
      <4> QED BY <4>2, <4>3
    <3> QED BY <3>1, <3>2 DEF Exchange, GivesOnly
  <2> QED BY <2>1 DEF ClaimsCover
<1> QED BY <1>5, <1>6, <1>7

(* The sandbox side's own variables. *)
OwnTypes ==
  /\ initialised \in BOOLEAN
  /\ heap \subseteq HeapBases
  /\ memory \in [Addresses -> Contents \cup {NoContent}]
  /\ owned \in [Threads -> SUBSET Object]
  /\ call \in [Threads ->
       [at : {"idle", "strdup", "strdup_copy", "free", "libc_free", "size",
              "release", "reallocate", "copy", "libc_realloc"},
        object : Object,
        size : Sizes \cup {0}, old_size : Sizes \cup {0}, dst : Words]]

(* A call of the runtime keeps its layout. *)
LEMMA LayoutKept ==
  ASSUME Layout, [Next]_vars
  PROVE  Layout'
BY TypedStep, LayoutStep DEF Layout

(* What a step of a thread has to show: it exchanges some claims for       *)
(* others, knows what its next point needs, and keeps contents.            *)
LEMMA ShimStep ==
  ASSUME ShimInv, [Next]_vars, NEW t \in Threads, NEW gone, NEW new,
         OwnTypes', initialised => initialised',
         initialised \/ allocations' = allocations,
         Exchange(t, gone, new), CallKnows(t)', ContentsKept'
  PROVE  ShimInv'
<1>1. Layout' /\ TypeOK'
  BY LayoutKept DEF ShimInv, Layout, Typed
<1>2. ClaimsBacked' /\ ClaimsUnique' /\ ClaimsCover'
  BY ClaimsStep
<1>3. \A u \in Threads : CallKnows(u)'
  BY OthersKnow
<1>4. initialised' \/ allocations' = {}
  BY DEF ShimInv, OwnTypes
<1> QED BY <1>1, <1>2, <1>3, <1>4 DEF ShimInv, ShimTypeOK, OwnTypes

-----------------------------------------------------------------------------
(* Contents. *)

(* The part of an object with known contents lies inside it. *)
LEMMA KeptWithin ==
  ASSUME NEW o \in Object, o.kept <= o.size
  PROVE  o.ptr .. (o.ptr + o.kept - 1) \subseteq Bytes(o)
BY Numbers DEF Bytes

(* A step that writes nothing keeps all contents. *)
LEMMA ContentsStay ==
  ASSUME ShimInv, NEW t \in Threads, OthersStay(t), memory' = memory,
         NEW new, owned'[t] \subseteq owned[t] \cup new,
         \A o \in new : o.ptr \in Nat /\ o.kept = 0
  PROVE  ContentsKept'
<1>1. ASSUME NEW u \in Threads, NEW o \in owned'[u],
             NEW a \in o.ptr .. (o.ptr + o.kept - 1)
      PROVE  memory'[a] = o.content
  <2>1. CASE o \in owned[u]
    BY <2>1 DEF ShimInv, ContentsKept
  <2>2. CASE o \in new
    BY <2>2, <1>1
  <2> QED BY <2>1, <2>2 DEF OthersStay
<1> QED BY <1>1 DEF ContentsKept

(* A step writes within W; everybody holds what they held, and no byte of  *)
(* it is in W, except that t holds "new", whose content is there.          *)
WritesWithin(W) == \A a \in Addresses \ W : memory'[a] = memory[a]

OthersOutside(t, W, new) ==
  \A u \in Threads : \A o \in owned'[u] :
    \/ u = t /\ o = new
    \/ o \in owned[u] /\ Bytes(o) \cap W = {}

ArrivesWhole(o) == \A a \in o.ptr .. (o.ptr + o.kept - 1) : memory'[a] = o.content

(* A step that writes inside its own objects keeps the contents of all     *)
(* others.                                                                 *)
LEMMA ContentsWritten ==
  ASSUME ShimInv, NEW t \in Threads, NEW W, NEW new,
         WritesWithin(W), OthersOutside(t, W, new), ArrivesWhole(new)
  PROVE  ContentsKept'
<1>1. ASSUME NEW u \in Threads, NEW o \in owned'[u],
             NEW a \in o.ptr .. (o.ptr + o.kept - 1)
      PROVE  memory'[a] = o.content
  <2>1. CASE o \in owned[u] /\ Bytes(o) \cap W = {}
    <3>1. a \in Bytes(o) /\ a \notin W
      BY <1>1, <2>1, OwnedLies, KeptWithin
    <3>2. Bytes(o) \subseteq Addresses
      BY <2>1, OwnedLies, BackedLies, ForgottenLies DEF ShimInv, ShimTypeOK
    <3>3. memory[a] = o.content
      BY <2>1 DEF ShimInv, ContentsKept
    <3> QED BY <3>1, <3>2, <3>3 DEF WritesWithin
  <2>2. CASE u = t /\ o = new
    BY <2>2, <1>1 DEF ArrivesWhole
  <2> QED BY <2>1, <2>2 DEF OthersOutside
<1> QED BY <1>1 DEF ContentsKept

-----------------------------------------------------------------------------
(* The parts that several operations share. *)

(* The parts of the invariant that every step uses. *)
LEMMA ShimFacts ==
  ASSUME ShimInv
  PROVE  OwnTypes /\ ShimTypeOK /\ Layout /\ heap \subseteq HeapBases
BY DEF ShimInv, ShimTypeOK, OwnTypes

(* A step that changes the entries of one thread leaves the others. *)
LEMMA OneThread ==
  ASSUME ShimInv, NEW t \in Threads,
         \/ UNCHANGED owned \/ \E s : owned' = [owned EXCEPT ![t] = s],
         \/ UNCHANGED call \/ \E c : call' = [call EXCEPT ![t] = c]
  PROVE  OthersStay(t)
BY DEF ShimInv, ShimTypeOK, OthersStay

(* Nothing changes hands. *)
LEMMA SameObjects ==
  ASSUME ShimInv, UNCHANGED <<vars, heap>>, NEW t \in Threads,
         OthersStay(t), Claims(t)' = Claims(t)
  PROVE  [Next]_vars /\ Exchange(t, {}, {})
<1>1. UNCHANGED allocations
  BY DEF vars
<1> QED BY <1>1 DEF Exchange, TakesOnly, GivesOnly

(* An object goes from the library to a call, or back. *)
LEMMA HandedOver ==
  ASSUME ShimInv, UNCHANGED <<vars, heap>>, NEW t \in Threads, OthersStay(t),
         NEW g \in Claims(t), NEW n, Backed(n.object),
         n.object.ptr = g.object.ptr,
         Claims(t)' = (Claims(t) \ {g}) \cup {n}
  PROVE  [Next]_vars /\ Exchange(t, {g}, {n})
<1>1. UNCHANGED <<allocations, heap>>
  BY DEF vars
<1>2. Backed(n.object)'
  BY <1>1 DEF Backed
<1>3. TakesOnly({g}) /\ GivesOnly({g}, {n})
  BY <1>1 DEF TakesOnly, GivesOnly
<1> QED BY <1>2, <1>3 DEF Exchange

(* A typed object is granted. *)
LEMMA Granted ==
  ASSUME ShimInv, NEW t \in Threads, NEW size \in Sizes, NEW site_id \in SiteIds,
         AllocateFromSite(size, site_id), UNCHANGED heap,
         OthersStay(t), NEW n, n.object = New(NextBase, size),
         Claims(t)' = Claims(t) \cup {n}
  PROVE  /\ [Next]_vars /\ Exchange(t, {}, {n})
         /\ size # 0 /\ n.object \in Object /\ NextBase \in Words
<1>1. [Next]_vars
  BY DEF Next
<1>2. /\ CanAllocate(size) /\ size \in Words
      /\ allocations' = allocations \cup
           {NewAllocation(size, site_types[site_id], site_id)}
  BY InputAssumption DEF AllocateFromSite, AllocateWithHash
<1>3. size > 0 /\ NextBase \in Words
  BY <1>2, AllocationFits DEF ShimInv, Layout, Typed, TypeOK
<1>4. n.object \in Object /\ n.object.ptr = NextBase /\ n.object.size = size
      /\ n.object.kept = 0
  BY <1>3 DEF New, Object
<1>5. \E a \in allocations' : a.base = NextBase /\ a.size = size
  <2> DEFINE a == NewAllocation(size, site_types[site_id], site_id)
  <2>1. a \in allocations'
    BY <1>2
  <2>2. a.base = NextBase /\ a.size = size
    BY DEF NewAllocation
  <2> QED BY <2>1, <2>2
<1>6. Backed(n.object)'
  BY <1>3, <1>4, <1>5, Numbers DEF Backed
<1>7. \A u \in Threads : \A c \in Claims(u) : c.object.ptr # n.object.ptr
  BY <1>2, <1>4, FreshTyped
<1>8. TakesOnly({}) /\ GivesOnly({}, {n})
  BY <1>2, <1>4 DEF TakesOnly, GivesOnly, NewAllocation
<1> QED BY <1>1, <1>3, <1>4, <1>6, <1>7, <1>8 DEF Exchange

(* A typed object is released. *)
LEMMA Released ==
  ASSUME ShimInv, NEW t \in Threads, NEW g \in Claims(t),
         Release(g.object.ptr), UNCHANGED heap,
         OthersStay(t), Claims(t)' = Claims(t) \ {g}
  PROVE  [Next]_vars /\ Exchange(t, {g}, {})
<1>1. g.object \in Object /\ g.object.ptr \in Words
  BY ShimTypes, ShimFacts DEF Object
<1>2. [Next]_vars
  BY <1>1 DEF Next
<1>3. PICK a \in allocations :
        a.base = g.object.ptr /\ allocations' = allocations \ {a}
  BY DEF Release, AllocationAt, Erase
<1>4. TakesOnly({g})
  BY <1>3 DEF TakesOnly
<1>5. \A b \in allocations' : b.base # g.object.ptr
  BY <1>3, OneAllocation, ShimFacts
<1>6. GivesOnly({g}, {})
  BY <1>3, <1>5 DEF GivesOnly
<1> QED BY <1>2, <1>4, <1>6 DEF Exchange

-----------------------------------------------------------------------------
(* The library. *)

(* interspec_popt_init_lifetime sets the callbacks. *)
LEMMA InitLifetimeKeeps ==
  ASSUME ShimInv, InitLifetime
  PROVE  ShimInv'
<1>1. UNCHANGED <<allocations, used, heap, memory, owned, call, vars>>
      /\ initialised' = TRUE
  BY DEF InitLifetime, vars
<1>2. \A t \in Threads : Claims(t)' = Claims(t)
  BY <1>1 DEF Claims, Settled, InHand, At
<1>3. Layout' /\ TypeOK'
  BY <1>1, LayoutKept DEF ShimInv, Layout, Typed
<1>4. ClaimsBacked' /\ ClaimsUnique' /\ ClaimsCover'
  BY <1>1, <1>2 DEF ShimInv, ClaimsBacked, ClaimsUnique, ClaimsCover, Backed
<1>5. \A t \in Threads : CallKnows(t)'
  BY <1>1 DEF ShimInv, CallKnows, Forgotten
<1>6. ContentsKept'
  BY <1>1 DEF ShimInv, ContentsKept
<1> QED BY <1>1, <1>3, <1>4, <1>5, <1>6 DEF ShimInv, ShimTypeOK

(* A typed allocation at a site of the policy. *)
LEMMA MallocAtSiteKeeps ==
  ASSUME ShimInv, NEW t \in Threads, NEW size \in Sizes, NEW site_id \in SiteIds,
         MallocAtSite(t, size, site_id)
  PROVE  ShimInv'
<1> USE ShimFacts
<1>1. PICK o : o = New(NextBase, size)
  OBVIOUS
<1> DEFINE n == [object |-> o, held |-> TRUE]
<1>2. /\ call[t].at = "idle" /\ initialised /\ AllocateFromSite(size, site_id)
      /\ owned' = [owned EXCEPT ![t] = @ \cup {o}]
      /\ UNCHANGED <<initialised, heap, memory, call>>
  BY <1>1 DEF MallocAtSite, MayOwnMore, At, Own
<1>3. OthersStay(t)
  BY <1>2 DEF OthersStay, OwnTypes
<1>4. owned'[t] = owned[t] \cup {o}
  BY <1>2 DEF OwnTypes
<1>5. Claims(t)' = Claims(t) \cup {n}
  BY <1>2, <1>4 DEF Claims, Settled, InHand, At
<1>6. /\ [Next]_vars /\ Exchange(t, {}, {n})
      /\ o \in Object
  <2>1. n.object = o
    OBVIOUS
  <2> HIDE DEF n
  <2> QED BY <1>1, <1>2, <1>3, <1>5, <2>1, Granted
<1>7. OwnTypes'
  BY <1>2, <1>6 DEF OwnTypes
<1>8. CallKnows(t)'
  BY <1>2 DEF CallKnows
<1>9. ContentsKept'
  <2>1. o.ptr \in Nat /\ o.kept = 0
    BY <1>1, <1>6, Numbers DEF New
  <2> QED BY <1>2, <1>3, <1>4, <2>1, ContentsStay
<1> QED BY <1>2, <1>6, <1>7, <1>8, <1>9, ShimStep

(* An allocation by libc. *)
LEMMA LibcMallocKeeps ==
  ASSUME ShimInv, NEW t \in Threads, NEW size \in Sizes, LibcMalloc(t, size)
  PROVE  ShimInv'
<1> USE ShimFacts
<1>1. PICK base \in HeapBases \ heap :
        /\ heap' = heap \cup {base}
        /\ Own(t, New(base, size))
  BY DEF LibcMalloc
<1> DEFINE o == New(base, size)
           n == [object |-> o, held |-> TRUE]
<1>2. /\ call[t].at = "idle" /\ size # 0
      /\ owned' = [owned EXCEPT ![t] = @ \cup {o}]
      /\ UNCHANGED <<vars, initialised, memory, call>>
      /\ UNCHANGED allocations
  BY <1>1 DEF LibcMalloc, MayOwnMore, At, Own, vars
<1>3. /\ o \in Object /\ o.ptr = base /\ o.size = size /\ o.kept = 0
      /\ size \in Nat /\ size > 0 /\ size <= HeapBlock /\ HeapBlock > 0
  <2>1. size \in Nat /\ size <= HeapBlock /\ HeapBlock \in Nat /\ base \in Words
    BY Numbers, ShimAssumption
  <2>2. o \in Object
    BY <2>1 DEF New, Object
  <2> QED BY <1>2, <2>1, <2>2 DEF New
<1> HIDE DEF o
<1>4. OthersStay(t) /\ owned'[t] = owned[t] \cup {o}
  BY <1>2 DEF OthersStay, OwnTypes
<1>5. Claims(t)' = Claims(t) \cup {n}
  BY <1>2, <1>4 DEF Claims, Settled, InHand, At
<1>6. Exchange(t, {}, {n})
  <2>1. Backed(o)'
    BY <1>1, <1>3 DEF Backed
  <2>2. \A u \in Threads : \A c \in Claims(u) : c.object.ptr # o.ptr
    BY <1>1, <1>3, FreshHeap
  <2>3. TakesOnly({}) /\ GivesOnly({}, {n})
    BY <1>1, <1>2 DEF TakesOnly, GivesOnly
  <2>4. n.object = o
    OBVIOUS
  <2> HIDE DEF n
  <2> QED BY <1>4, <1>5, <2>1, <2>2, <2>3, <2>4 DEF Exchange
<1>7. OwnTypes'
  BY <1>1, <1>2, <1>3 DEF OwnTypes
<1>8. CallKnows(t)'
  BY <1>2 DEF CallKnows
<1>9. ContentsKept'
  BY <1>2, <1>3, <1>4, ContentsStay, Numbers
<1> QED BY <1>2, <1>6, <1>7, <1>8, <1>9, ShimStep

(* A client writes its own object. *)
LEMMA FillKeeps ==
  ASSUME ShimInv, NEW t \in Threads, NEW o \in owned[t], Fill(t, o)
  PROVE  ShimInv'
<1> USE ShimFacts
<1>1. PICK content \in Unused :
        /\ Write(o.ptr, o.size, content)
        /\ Replace(t, o, [o EXCEPT !.content = content, !.kept = o.size])
  BY DEF Fill
<1> DEFINE p == [o EXCEPT !.content = content, !.kept = o.size]
           g == [object |-> o, held |-> TRUE]
           n == [object |-> p, held |-> TRUE]
<1>2. /\ call[t].at = "idle"
      /\ owned' = [owned EXCEPT ![t] = (@ \ {o}) \cup {p}]
      /\ UNCHANGED <<vars, initialised, heap, call>>
      /\ content \in Contents
  BY <1>1 DEF Fill, At, Replace, Unused
<1>3. /\ o \in Object /\ Backed(o) /\ g \in Claims(t) /\ o \in Settled(t)
  BY <1>2, OwnedLies DEF At
<1>4. /\ p \in Object /\ p.ptr = o.ptr /\ p.size = o.size /\ p.kept = o.size
      /\ p.content = content
  BY <1>2, <1>3 DEF Object
<1> HIDE DEF p
<1>5. OthersStay(t) /\ owned'[t] = (owned[t] \ {o}) \cup {p}
  BY <1>2 DEF OthersStay, OwnTypes
<1>6. Claims(t)' = (Claims(t) \ {g}) \cup {n}
  BY <1>2, <1>5 DEF Claims, Settled, InHand, At
<1>7. Backed(p)
  BY <1>3, <1>4, Numbers DEF Backed
<1>8. [Next]_vars /\ Exchange(t, {g}, {n})
  BY <1>2, <1>3, <1>4, <1>5, <1>6, <1>7, HandedOver
<1>9. OwnTypes'
  BY <1>1, <1>2, <1>3, <1>4 DEF OwnTypes, Write
<1>10. CallKnows(t)'
  BY <1>2 DEF CallKnows
<1>11. ContentsKept'
  <2>1. /\ WritesWithin(Bytes(o))
        /\ \A a \in Bytes(o) : memory'[a] = content
    <3>1. Bytes(o) \subseteq Addresses
      BY <1>3, BackedLies
    <3> QED BY <1>1, <3>1 DEF Write, Bytes, WritesWithin
  <2>2. ASSUME NEW u \in Threads, NEW q \in owned'[u], ~ (u = t /\ q = p)
        PROVE  q \in owned[u] /\ Bytes(q) \cap Bytes(o) = {}
    <3>1. q \in owned[u] /\ ~ (u = t /\ g = [object |-> q, held |-> TRUE])
      BY <1>5, <2>2 DEF OthersStay
    <3>2. Bytes(q) \cap Bytes(g.object) = {}
      BY <1>3, <3>1, OwnedApart
    <3> QED BY <3>1, <3>2
  <2>3. OthersOutside(t, Bytes(o), p)
    BY <2>2 DEF OthersOutside
  <2>4. ArrivesWhole(p)
    BY <1>4, <2>1 DEF Bytes, ArrivesWhole
  <2> QED BY <2>1, <2>3, <2>4, ContentsWritten
<1> QED BY <1>2, <1>8, <1>9, <1>10, <1>11, ShimStep, Numbers DEF vars

-----------------------------------------------------------------------------
(* interspec_typed_strdup *)

(* A thread that is in no call. *)
LEMMA Idling ==
  /\ Idle.at = "idle" /\ Idle.object \in Object /\ Idle.size = 0
  /\ Idle.old_size = 0 /\ Idle.dst = 0 /\ 0 \in Words
  /\ \A content \in Contents : [New(0, 0) EXCEPT !.content = content] \in Object
<1>1. 0 \in Words
  BY WordAssumption DEF Words
<1> QED BY <1>1 DEF Idle, Nothing, New, Object

(* A call that returns leaves its thread idle. *)
LEMMA ReturnTyped ==
  ASSUME OwnTypes, NEW t \in Threads, Return(t)
  PROVE  /\ call'[t] = Idle /\ call'[t].at = "idle"
         /\ \A u \in Threads : u # t => call'[u] = call[u]
         /\ call' \in [Threads ->
              [at : {"idle", "strdup", "strdup_copy", "free", "libc_free",
                     "size", "release", "reallocate", "copy", "libc_realloc"},
               object : Object, size : Sizes \cup {0},
               old_size : Sizes \cup {0}, dst : Words]]
         /\ CallKnows(t)'
<1>1. /\ call'[t] = Idle /\ call'[t].at = "idle"
      /\ \A u \in Threads : u # t => call'[u] = call[u]
  BY Idling DEF Return, OwnTypes
<1>2. Idle \in [at : {"idle", "strdup", "strdup_copy", "free", "libc_free",
                      "size", "release", "reallocate", "copy", "libc_realloc"},
                object : Object, size : Sizes \cup {0},
                old_size : Sizes \cup {0}, dst : Words]
  BY Idling DEF Idle
<1>3. CallKnows(t)'
  BY <1>1 DEF CallKnows
<1> QED BY <1>1, <1>2, <1>3 DEF Return, OwnTypes

(* strdup is called. *)
LEMMA BeginStrdupKeeps ==
  ASSUME ShimInv, NEW t \in Threads, NEW size \in Sizes, BeginStrdup(t, size)
  PROVE  ShimInv'
<1> USE ShimFacts
<1>1. PICK content \in Contents :
        call' = [call EXCEPT ![t] =
                   [Idle EXCEPT !.at = "strdup", !.size = size,
                                !.object = [New(0, 0) EXCEPT
                                              !.content = content]]]
  BY DEF BeginStrdup, Unused
<1>2. /\ call[t].at = "idle" /\ initialised /\ size # 0
      /\ UNCHANGED <<vars, initialised, heap, memory, owned>>
  BY DEF BeginStrdup, MayOwnMore, At
<1>3. /\ call'[t].at = "strdup" /\ call'[t].size = size
      /\ \A u \in Threads : u # t => call'[u] = call[u]
  BY <1>1 DEF OwnTypes, Idle
<1>4. OwnTypes'
  BY <1>1, <1>2, Idling DEF OwnTypes, Idle
<1>5. OthersStay(t)
  BY <1>2, <1>3 DEF OthersStay
<1>6. Claims(t)' = Claims(t)
  BY <1>2, <1>3 DEF Claims, Settled, InHand, At
<1>7. [Next]_vars /\ Exchange(t, {}, {})
  BY <1>2, <1>5, <1>6, SameObjects
<1>8. CallKnows(t)'
  BY <1>2, <1>3 DEF CallKnows
<1>9. ContentsKept'
  BY <1>2 DEF ShimInv, ContentsKept
<1> QED BY <1>2, <1>4, <1>7, <1>8, <1>9, ShimStep

(* strdup asks T for an object, and may be refused. *)
LEMMA StrdupAllocateKeeps ==
  ASSUME ShimInv, NEW t \in Threads, NEW site_id \in SiteIds,
         StrdupAllocate(t, site_id)
  PROVE  ShimInv'
<1> USE ShimFacts
<1>1. /\ call[t].at = "strdup" /\ UNCHANGED <<initialised, heap, memory, owned>>
      /\ initialised /\ call[t].size # 0 /\ call[t].size \in Sizes
  BY ShimTypes DEF StrdupAllocate, At, ShimInv, CallKnows
<1>2. ContentsKept'
  BY <1>1 DEF ShimInv, ContentsKept
<1>3. CASE /\ AllocateFromSite(call[t].size, site_id)
           /\ call' = [call EXCEPT ![t].at = "strdup_copy", ![t].dst = NextBase]
  <2>1. PICK o : o = New(NextBase, call[t].size)
    OBVIOUS
  <2> DEFINE n == [object |-> o, held |-> FALSE]
  <2>2. /\ call'[t].at = "strdup_copy" /\ call'[t].dst = NextBase
        /\ call'[t].size = call[t].size
        /\ \A u \in Threads : u # t => call'[u] = call[u]
    BY <1>3 DEF OwnTypes
  <2>3. OthersStay(t)
    BY <1>1, <2>2 DEF OthersStay
  <2>4. Claims(t)' = Claims(t) \cup {n}
    <3>1. InHand(t)' = {o} /\ InHand(t) = {}
      BY <1>1, <2>1, <2>2 DEF InHand, New
    <3>2. Settled(t)' = Settled(t)
      BY <1>1, <2>2 DEF Settled, At
    <3> QED BY <3>1, <3>2 DEF Claims
  <2>5. n.object = o
    OBVIOUS
  <2> HIDE DEF n
  <2>6. [Next]_vars /\ Exchange(t, {}, {n}) /\ NextBase \in Words
    BY <1>1, <1>3, <2>1, <2>3, <2>4, <2>5, Granted
  <2>7. OwnTypes'
    BY <1>1, <1>3, <2>6 DEF OwnTypes
  <2>8. CallKnows(t)'
    BY <1>1, <2>2 DEF CallKnows
  <2> QED BY <1>1, <1>2, <2>6, <2>7, <2>8, ShimStep
<1>4. CASE Return(t) /\ UNCHANGED vars
  <2>1. OthersStay(t)
    BY <1>1, <1>4, ReturnTyped DEF OthersStay
  <2>2. Claims(t)' = Claims(t)
    BY <1>1, <1>4, ReturnTyped DEF Claims, Settled, InHand, At
  <2>3. [Next]_vars /\ Exchange(t, {}, {})
    BY <1>1, <1>4, <2>1, <2>2, SameObjects
  <2>4. OwnTypes' /\ CallKnows(t)'
    BY <1>1, <1>4, ReturnTyped DEF OwnTypes
  <2> QED BY <1>1, <1>2, <2>3, <2>4, ShimStep
<1> QED BY <1>3, <1>4 DEF StrdupAllocate

(* strdup copies the string into its new object. *)
LEMMA StrdupCopyKeeps ==
  ASSUME ShimInv, NEW t \in Threads, StrdupCopy(t)
  PROVE  ShimInv'
<1> USE ShimFacts
<1>1. PICK dst, size, content :
        dst = call[t].dst /\ size = call[t].size /\ content = call[t].object.content
  OBVIOUS
<1> DEFINE p == [ptr |-> dst, size |-> size, content |-> content, kept |-> size]
           o == New(dst, size)
           g == [object |-> o, held |-> FALSE]
           n == [object |-> p, held |-> TRUE]
<1>2. /\ call[t].at = "strdup_copy" /\ Write(dst, size, content)
      /\ owned' = [owned EXCEPT ![t] = @ \cup {p}]
      /\ Return(t) /\ UNCHANGED <<vars, initialised, heap>>
  BY <1>1 DEF StrdupCopy, At, Own
<1>3. /\ g \in Claims(t) /\ o \in Object /\ Backed(o)
      /\ o.ptr = dst /\ o.size = size
  <2>1. g \in Claims(t)
    BY <1>1, <1>2 DEF Claims, InHand
  <2>2. Backed(g.object) /\ g.object \in Object
    BY <2>1, ShimTypes DEF ShimInv, ClaimsBacked
  <2> QED BY <2>1, <2>2 DEF New
<1>4. /\ p \in Object /\ p.ptr = dst /\ p.size = size /\ p.kept = size
      /\ p.content = content
      /\ content \in Contents \cup {NoContent}
  <2>1. call[t].object \in Object /\ size \in Sizes \cup {0} /\ dst \in Words
    BY <1>1, ShimTypes
  <2> QED BY <1>1, <2>1 DEF Object
<1> HIDE DEF p, o
<1>5. /\ OthersStay(t) /\ owned'[t] = owned[t] \cup {p}
  BY <1>2, ReturnTyped DEF OthersStay, OwnTypes
<1>6. Claims(t)' = (Claims(t) \ {g}) \cup {n}
  <2>1. InHand(t)' = {} /\ InHand(t) = {o}
    BY <1>1, <1>2, ReturnTyped DEF InHand, o
  <2>2. Settled(t)' = Settled(t) \cup {p}
    BY <1>2, <1>5, ReturnTyped DEF Settled, At
  <2> QED BY <2>1, <2>2 DEF Claims
<1>7. [Next]_vars /\ Exchange(t, {g}, {n})
  <2>1. Backed(p)
    BY <1>3, <1>4, Numbers DEF Backed
  <2> QED BY <1>2, <1>3, <1>4, <1>5, <1>6, <2>1, HandedOver
<1>8. OwnTypes' /\ CallKnows(t)'
  <2>1. memory' \in [Addresses -> Contents \cup {NoContent}]
    BY <1>2, <1>4 DEF Write, OwnTypes
  <2> QED BY <1>2, <1>4, <2>1, ReturnTyped DEF OwnTypes
<1>9. ContentsKept'
  <2>1. /\ WritesWithin(Bytes(o))
        /\ \A a \in Bytes(o) : memory'[a] = content
    <3>1. Bytes(o) \subseteq Addresses
      BY <1>3, BackedLies
    <3> QED BY <1>2, <1>3, <3>1 DEF Write, Bytes, WritesWithin
  <2>2. ASSUME NEW u \in Threads, NEW q \in owned'[u], ~ (u = t /\ q = p)
        PROVE  q \in owned[u] /\ Bytes(q) \cap Bytes(o) = {}
    <3>1. q \in owned[u] /\ ~ (u = t /\ g = [object |-> q, held |-> TRUE])
      BY <1>5, <2>2 DEF OthersStay
    <3>2. Bytes(q) \cap Bytes(g.object) = {}
      BY <1>3, <3>1, OwnedApart
    <3> QED BY <3>1, <3>2
  <2>3. OthersOutside(t, Bytes(o), p)
    BY <2>2 DEF OthersOutside
  <2>4. ArrivesWhole(p)
    BY <1>3, <1>4, <2>1 DEF Bytes, ArrivesWhole
  <2> QED BY <2>1, <2>3, <2>4, ContentsWritten
<1> QED BY <1>2, <1>7, <1>8, <1>9, ShimStep DEF vars

-----------------------------------------------------------------------------
(* interspec_typed_free *)

(* free is called. *)
LEMMA BeginFreeKeeps ==
  ASSUME ShimInv, NEW t \in Threads, NEW o \in owned[t], BeginFree(t, o)
  PROVE  ShimInv'
<1> USE ShimFacts
<1> DEFINE g == [object |-> o, held |-> TRUE]
           n == [object |-> o, held |-> FALSE]
<1>1. /\ call[t].at = "idle"
      /\ owned' = [owned EXCEPT ![t] = @ \ {o}]
      /\ call' = [call EXCEPT ![t] = [Idle EXCEPT !.at = "free", !.object = o]]
      /\ UNCHANGED <<vars, initialised, heap, memory>>
  BY DEF BeginFree, At, Disown
<1>2. /\ call'[t].at = "free" /\ call'[t].object = o
      /\ owned'[t] = owned[t] \ {o}
      /\ \A u \in Threads : u # t => call'[u] = call[u] /\ owned'[u] = owned[u]
  BY <1>1 DEF OwnTypes, Idle
<1>3. o \in Object /\ Backed(o) /\ g \in Claims(t)
  BY <1>1, OwnedLies DEF At
<1>4. OthersStay(t)
  BY <1>2 DEF OthersStay
<1>5. Claims(t)' = (Claims(t) \ {g}) \cup {n}
  <2>1. InHand(t)' = {o} /\ InHand(t) = {}
    BY <1>1, <1>2 DEF InHand
  <2>2. Settled(t)' = Settled(t) \ {o}
    BY <1>1, <1>2 DEF Settled, At
  <2> QED BY <2>1, <2>2 DEF Claims
<1>6. [Next]_vars /\ Exchange(t, {g}, {n})
  BY <1>1, <1>3, <1>4, <1>5, HandedOver
<1>7. OwnTypes'
  BY <1>1, <1>3, Idling DEF OwnTypes, Idle
<1>8. CallKnows(t)'
  BY <1>2 DEF CallKnows
<1>9. ContentsKept'
  <2>1. \A u \in Threads : owned'[u] \subseteq owned[u]
    BY <1>2
  <2> QED BY <1>1, <2>1 DEF ShimInv, ContentsKept
<1> QED BY <1>1, <1>6, <1>7, <1>8, <1>9, ShimStep DEF vars

(* free asks T, which releases the object or does not know it. *)
LEMMA FreeReleaseKeeps ==
  ASSUME ShimInv, NEW t \in Threads, FreeRelease(t)
  PROVE  ShimInv'
<1> USE ShimFacts
<1>1. PICK o : o = call[t].object
  OBVIOUS
<1> DEFINE g == [object |-> o, held |-> FALSE]
<1>2. /\ call[t].at = "free" /\ UNCHANGED <<initialised, heap, memory, owned>>
      /\ o \in Object
  BY <1>1, ShimTypes DEF FreeRelease, At
<1>3. /\ g \in Claims(t) /\ Backed(o)
  <2>1. g \in Claims(t)
    BY <1>1, <1>2 DEF Claims, InHand
  <2>2. Backed(g.object)
    BY <2>1 DEF ShimInv, ClaimsBacked
  <2> QED BY <2>1, <2>2
<1>4. ContentsKept'
  BY <1>2 DEF ShimInv, ContentsKept
<1>5. CASE initialised /\ Release(o.ptr) /\ Return(t)
  <2>1. OthersStay(t)
    BY <1>2, <1>5, ReturnTyped DEF OthersStay
  <2>2. Claims(t)' = Claims(t) \ {g}
    <3>1. InHand(t)' = {} /\ InHand(t) = {o}
      BY <1>1, <1>2, <1>5, ReturnTyped DEF InHand
    <3>2. Settled(t)' = Settled(t)
      BY <1>2, <1>5, ReturnTyped DEF Settled, At
    <3> QED BY <3>1, <3>2 DEF Claims
  <2>3. g.object = o
    OBVIOUS
  <2>4. g \in Claims(t)
    BY <1>3
  <2> HIDE DEF g
  <2>5. [Next]_vars /\ Exchange(t, {g}, {})
    BY <1>2, <1>5, <2>1, <2>2, <2>3, <2>4, Released
  <2>6. OwnTypes' /\ CallKnows(t)'
    BY <1>2, <1>5, ReturnTyped DEF OwnTypes
  <2> QED BY <1>2, <1>4, <1>5, <2>5, <2>6, ShimStep
<1>6. CASE /\ initialised => AllocationAt(o.ptr) = {}
           /\ Goto(t, "libc_free") /\ UNCHANGED vars
  <2>1. /\ call'[t].at = "libc_free" /\ call'[t].object = o
        /\ \A u \in Threads : u # t => call'[u] = call[u]
    BY <1>1, <1>6 DEF Goto, OwnTypes
  <2>2. OthersStay(t)
    BY <1>2, <2>1 DEF OthersStay
  <2>3. Claims(t)' = Claims(t)
    BY <1>1, <1>2, <2>1 DEF Claims, Settled, InHand, At
  <2>4. [Next]_vars /\ Exchange(t, {}, {})
    BY <1>2, <1>6, <2>2, <2>3, SameObjects
  <2>5. OwnTypes'
    BY <1>2, <1>6 DEF OwnTypes, Goto
  <2>6. CallKnows(t)'
    <3>1. o.ptr \in heap
      BY <1>3, <1>6 DEF Backed, AllocationAt, ShimInv
    <3> QED BY <1>2, <2>1, <3>1 DEF CallKnows
  <2> QED BY <1>2, <1>4, <1>6, <2>4, <2>5, <2>6, ShimStep DEF vars
<1> QED BY <1>1, <1>5, <1>6 DEF FreeRelease, AfterRelease

(* What T does not know goes to libc. *)
LEMMA LibcFreeKeeps ==
  ASSUME ShimInv, NEW t \in Threads, LibcFree(t)
  PROVE  ShimInv'
<1> USE ShimFacts
<1>1. PICK o : o = call[t].object
  OBVIOUS
<1> DEFINE g == [object |-> o, held |-> FALSE]
<1>2. /\ call[t].at = "libc_free" /\ heap' = heap \ {o.ptr} /\ Return(t)
      /\ UNCHANGED <<vars, initialised, memory, owned, allocations>>
  BY <1>1 DEF LibcFree, At, vars
<1>3. g \in Claims(t) /\ o \in Object /\ Backed(o) /\ o.ptr \in heap
  <2>1. g \in Claims(t)
    BY <1>1, <1>2 DEF Claims, InHand
  <2>2. Backed(g.object)
    BY <2>1 DEF ShimInv, ClaimsBacked
  <2> QED BY <1>1, <1>2, <2>1, <2>2, ShimTypes DEF ShimInv, CallKnows
<1>4. OthersStay(t)
  BY <1>2, ReturnTyped DEF OthersStay
<1>5. Claims(t)' = Claims(t) \ {g}
  <2>1. InHand(t)' = {} /\ InHand(t) = {o}
    BY <1>1, <1>2, ReturnTyped DEF InHand
  <2>2. Settled(t)' = Settled(t)
    BY <1>2, ReturnTyped DEF Settled, At
  <2> QED BY <2>1, <2>2 DEF Claims
<1>6. TakesOnly({g}) /\ GivesOnly({g}, {})
  <2>1. \A a \in allocations : a.base # o.ptr
    BY <1>3, BackedLies
  <2> QED BY <1>2, <2>1 DEF TakesOnly, GivesOnly
<1>7. Exchange(t, {g}, {})
  <2>1. g \in Claims(t)
    BY <1>3
  <2> HIDE DEF g
  <2> QED BY <1>4, <1>5, <1>6, <2>1 DEF Exchange
<1>8. OwnTypes' /\ CallKnows(t)'
  BY <1>2, ReturnTyped DEF OwnTypes
<1>9. ContentsKept'
  BY <1>2 DEF ShimInv, ContentsKept
<1> QED BY <1>2, <1>7, <1>8, <1>9, ShimStep

-----------------------------------------------------------------------------
(* interspec_typed_realloc *)

(* realloc is called. *)
LEMMA BeginReallocKeeps ==
  ASSUME ShimInv, NEW t \in Threads, NEW o \in owned[t],
         NEW size \in Sizes \cup {0}, BeginRealloc(t, o, size)
  PROVE  ShimInv'
<1> USE ShimFacts
<1>1. /\ call[t].at = "idle"
      /\ call' = [call EXCEPT ![t] =
                    [Idle EXCEPT !.at = "size", !.object = o, !.size = size]]
      /\ UNCHANGED <<vars, initialised, heap, memory, owned>>
  BY DEF BeginRealloc, At
<1>2. /\ call'[t].at = "size" /\ call'[t].object = o
      /\ \A u \in Threads : u # t => call'[u] = call[u]
  BY <1>1 DEF OwnTypes, Idle
<1>3. o \in Object
  BY OwnedLies
<1>4. OthersStay(t) /\ Claims(t)' = Claims(t)
  BY <1>1, <1>2 DEF OthersStay, Claims, Settled, InHand, At
<1>5. [Next]_vars /\ Exchange(t, {}, {})
  BY <1>1, <1>4, SameObjects
<1>6. OwnTypes'
  BY <1>1, <1>3, Idling DEF OwnTypes, Idle
<1>7. CallKnows(t)'
  BY <1>1, <1>2 DEF CallKnows
<1>8. ContentsKept'
  BY <1>1 DEF ShimInv, ContentsKept
<1> QED BY <1>1, <1>5, <1>6, <1>7, <1>8, ShimStep DEF vars

(* interspec_size answers for the object that the library meant, and tells *)
(* a typed object from a block of libc.                                    *)
LEMMA OldSizeIsItsSize ==
  ASSUME ShimInv, NEW t \in Threads, NEW o \in Settled(t)
  PROVE  \/ /\ OldSize(o.ptr) = 0 /\ o.ptr \in heap
         \/ /\ OldSize(o.ptr) = o.size /\ initialised
            /\ \E a \in allocations : a.base = o.ptr
<1> USE ShimFacts
<1>1. Backed(o) /\ o \in Object
  <2>1. o \in owned[t]
    BY ShimTypes
  <2> QED BY <2>1, OwnedLies
<1>2. CASE \E a \in allocations : a.base = o.ptr /\ a.size = o.size
  <2>1. PICK a \in allocations : a.base = o.ptr /\ a.size = o.size
    BY <1>2
  <2>2. AllocationAt(o.ptr) = {a}
    BY <2>1, OneAllocation DEF AllocationAt
  <2>3. OldSize(o.ptr) = o.size /\ initialised
    BY <2>1, <2>2 DEF OldSize, ShimInv
  <2> QED BY <2>1, <2>3
<1>3. CASE o.ptr \in heap /\ \A a \in allocations : a.base # o.ptr
  BY <1>3 DEF OldSize, AllocationAt
<1> QED BY <1>1, <1>2, <1>3, BackedLies

(* realloc asks T for the old size. *)
LEMMA QuerySizeKeeps ==
  ASSUME ShimInv, NEW t \in Threads, QuerySize(t)
  PROVE  ShimInv'
<1> USE ShimFacts
<1>1. PICK o, old_size, point :
        /\ o = call[t].object /\ old_size = OldSize(o.ptr)
        /\ point = AfterSize(old_size, call[t].size)
  OBVIOUS
<1>2. /\ call[t].at = "size"
      /\ call' = [call EXCEPT ![t].old_size = old_size, ![t].at = point]
      /\ UNCHANGED <<vars, initialised, heap, memory, owned>>
  BY <1>1 DEF QuerySize, At
<1>3. /\ call'[t].at = point /\ call'[t].object = o
      /\ call'[t].old_size = old_size /\ call'[t].size = call[t].size
      /\ \A u \in Threads : u # t => call'[u] = call[u]
  BY <1>1, <1>2 DEF OwnTypes
<1>4. o \in owned[t] /\ o \in Settled(t) /\ o \in Object /\ o.size > 0
  BY <1>1, <1>2, OwnedLies DEF ShimInv, CallKnows, At
<1>5. \/ old_size = 0 /\ o.ptr \in heap
      \/ /\ old_size = o.size /\ initialised
         /\ \E a \in allocations : a.base = o.ptr
  BY <1>1, <1>4, OldSizeIsItsSize
<1>6. /\ point \in {"libc_realloc", "release", "reallocate"}
      /\ point = "libc_realloc" <=> old_size = 0
      /\ point = "reallocate" => call[t].size # 0
  BY <1>1 DEF AfterSize
<1>7. OthersStay(t) /\ Claims(t)' = Claims(t)
  BY <1>2, <1>3, <1>6 DEF OthersStay, Claims, Settled, InHand, At
<1>8. [Next]_vars /\ Exchange(t, {}, {})
  BY <1>2, <1>7, SameObjects
<1>9. OwnTypes'
  <2>1. old_size \in Sizes \cup {0}
    BY <1>4, <1>5 DEF Object
  <2> QED BY <1>2, <1>6, <2>1 DEF OwnTypes
<1>10. CallKnows(t)'
  <2>1. UNCHANGED <<allocations, heap, owned, initialised>>
    BY <1>2 DEF vars
  <2>2. old_size = 0 => o.ptr \in heap
    BY <1>4, <1>5, Numbers
  <2>3. old_size # 0 => /\ old_size = o.size /\ initialised
                        /\ \E a \in allocations : a.base = o.ptr
    BY <1>5
  <2> QED BY <1>3, <1>4, <1>6, <2>1, <2>2, <2>3 DEF CallKnows
<1>11. ContentsKept'
  BY <1>2 DEF ShimInv, ContentsKept
<1> QED BY <1>2, <1>8, <1>9, <1>10, <1>11, ShimStep DEF vars

(* realloc to 0 releases. *)
LEMMA ReallocReleaseKeeps ==
  ASSUME ShimInv, NEW t \in Threads, ReallocRelease(t)
  PROVE  ShimInv'
<1> USE ShimFacts
<1>1. PICK o : o = call[t].object
  OBVIOUS
<1> DEFINE g == [object |-> o, held |-> TRUE]
<1>2. /\ call[t].at = "release" /\ Release(o.ptr) /\ Return(t)
      /\ owned' = [owned EXCEPT ![t] = @ \ {o}]
      /\ UNCHANGED <<initialised, heap, memory>>
  BY <1>1 DEF ReallocRelease, At, Disown
<1>3. o \in owned[t] /\ initialised /\ g \in Claims(t)
  BY <1>1, <1>2, OwnedLies DEF ShimInv, CallKnows, At
<1>4. OthersStay(t) /\ owned'[t] = owned[t] \ {o}
  BY <1>2, ReturnTyped DEF OthersStay, OwnTypes
<1>5. Claims(t)' = Claims(t) \ {g}
  <2>1. InHand(t)' = {} /\ InHand(t) = {}
    BY <1>2, ReturnTyped DEF InHand
  <2>2. Settled(t)' = Settled(t) \ {o}
    BY <1>2, <1>4, ReturnTyped DEF Settled, At
  <2> QED BY <2>1, <2>2 DEF Claims
<1>6. [Next]_vars /\ Exchange(t, {g}, {})
  <2>1. g.object = o
    OBVIOUS
  <2>2. g \in Claims(t)
    BY <1>3
  <2> HIDE DEF g
  <2> QED BY <1>2, <1>4, <1>5, <2>1, <2>2, Released
<1>7. OwnTypes' /\ CallKnows(t)'
  BY <1>2, ReturnTyped DEF OwnTypes
<1>8. ContentsKept'
  <2>1. \A u \in Threads : owned'[u] \subseteq owned[u]
    BY <1>4 DEF OthersStay
  <2> QED BY <1>2, <2>1 DEF ShimInv, ContentsKept
<1> QED BY <1>2, <1>3, <1>6, <1>7, <1>8, ShimStep

(* The old object is forgotten and the new one granted in one step: the    *)
(* old bytes stay nobody's.                                                *)
LEMMA Moved ==
  ASSUME ShimInv, NEW t \in Threads, NEW g \in Claims(t), NEW size \in Sizes,
         CanAllocate(size), Reallocate(g.object.ptr, size), UNCHANGED heap,
         \E a \in allocations : a.base = g.object.ptr,
         OthersStay(t), NEW n, n.object = New(NextBase, size),
         Claims(t)' = (Claims(t) \ {g}) \cup {n}
  PROVE  /\ [Next]_vars /\ Exchange(t, {g}, {n}) /\ Forgotten(g.object)'
         /\ size # 0 /\ NextBase \in Words
<1> USE ShimFacts
<1>1. /\ g.object \in Object /\ g.object.ptr \in Words /\ Backed(g.object)
      /\ size \in Words
  BY ShimTypes, InputAssumption DEF Object, ShimInv, ClaimsBacked
<1>2. [Next]_vars
  BY <1>1 DEF Next
<1>3. /\ size > 0 /\ NextBase \in Words /\ NextBase = ArenaBase + used
      /\ size \in Nat
  BY <1>1, AllocationFits, Numbers DEF Layout, Typed, TypeOK
<1>4. PICK old \in allocations :
        /\ old.base = g.object.ptr
        /\ allocations' =
             (allocations \cup
                {NewAllocation(size, old.type_hash, old.site_id)}) \ {old}
  BY <1>3 DEF Reallocate, AllocationAt
<1> DEFINE new == NewAllocation(size, old.type_hash, old.site_id)
<1>5. /\ new.base = NextBase /\ new.size = size /\ old.base # NextBase
  BY DEF NewAllocation, CanAllocate, AllocationAt
<1>6. /\ new \in allocations'
      /\ \A a \in allocations' : a = new \/ (a \in allocations /\ a # old)
      /\ \A a \in allocations : a = old \/ a \in allocations'
  BY <1>4, <1>5
<1> HIDE DEF new
<1>7. n.object.ptr = NextBase /\ n.object.size = size /\ n.object.kept = 0
  BY DEF New
<1>8. Backed(n.object)'
  BY <1>3, <1>5, <1>6, <1>7 DEF Backed
<1>9. \A u \in Threads : \A c \in Claims(u) : c.object.ptr # n.object.ptr
  BY <1>1, <1>7, FreshTyped
<1>10. TakesOnly({g}) /\ GivesOnly({g}, {n})
  <2>1. \A a \in allocations' :
          a.base = NextBase \/ (a \in allocations /\ a.base # g.object.ptr)
    BY <1>4, <1>5, <1>6, OneAllocation
  <2> QED BY <1>4, <1>6, <1>7, <2>1 DEF TakesOnly, GivesOnly
<1>11. old.size = g.object.size
  BY <1>1, <1>4, BackedLies, OneAllocation
<1>12. Forgotten(g.object)'
  <2>1. /\ ArenaBase <= old.base /\ old.base + old.size <= ArenaBase + used
        /\ used <= used' /\ used' \in Nat /\ used \in Nat
        /\ old.base \in Nat /\ old.size \in Nat /\ old.size > 0
    BY <1>2, AllocationTypes, ArenaGrows
  <2>2. \A a \in allocations' :
          a.base + a.size <= old.base \/ old.base + old.size <= a.base
    BY <1>3, <1>5, <1>6, <2>1 DEF Layout, LiveDisjoint
  <2>3. old.base + old.size <= ArenaBase + used'
    BY <2>1, Numbers
  <2> QED BY <1>1, <1>4, <1>11, <2>1, <2>2, <2>3 DEF Forgotten, Backed
<1>13. Exchange(t, {g}, {n})
  BY <1>8, <1>9, <1>10 DEF Exchange
<1> QED BY <1>2, <1>3, <1>12, <1>13

(* T gives the object a new place, or refuses and leaves it. *)
LEMMA ReallocMoveKeeps ==
  ASSUME ShimInv, NEW t \in Threads, ReallocMove(t)
  PROVE  ShimInv'
<1> USE ShimFacts
<1>1. PICK o, size : o = call[t].object /\ size = call[t].size
  OBVIOUS
<1> DEFINE g == [object |-> o, held |-> TRUE]
<1>2. /\ call[t].at = "reallocate"
      /\ UNCHANGED <<initialised, heap, memory, owned>>
  BY DEF ReallocMove, At
<1>3. /\ o \in owned[t] /\ initialised /\ g \in Claims(t)
      /\ size # 0 /\ size \in Sizes
      /\ call[t].old_size = o.size
      /\ \E a \in allocations : a.base = o.ptr
  BY <1>1, <1>2, OwnedLies, ShimTypes DEF ShimInv, CallKnows, At
<1>4. ContentsKept'
  BY <1>2 DEF ShimInv, ContentsKept
<1>5. CASE /\ CanAllocate(size)
           /\ Reallocate(o.ptr, size)
           /\ call' = [call EXCEPT ![t].at = "copy", ![t].dst = NextBase]
  <2>1. PICK p : p = New(NextBase, size)
    OBVIOUS
  <2> DEFINE n == [object |-> p, held |-> FALSE]
  <2>2. /\ call'[t].at = "copy" /\ call'[t].dst = NextBase
        /\ call'[t].size = size /\ call'[t].object = o
        /\ call'[t].old_size = o.size
        /\ \A u \in Threads : u # t => call'[u] = call[u]
    BY <1>1, <1>3, <1>5 DEF OwnTypes
  <2>3. OthersStay(t)
    BY <1>2, <2>2 DEF OthersStay
  <2>4. Claims(t)' = (Claims(t) \ {g}) \cup {n}
    <3>1. InHand(t)' = {p} /\ InHand(t) = {}
      BY <1>2, <2>1, <2>2 DEF InHand, New
    <3>2. Settled(t)' = Settled(t) \ {o}
      BY <1>2, <2>2 DEF Settled, At
    <3> QED BY <3>1, <3>2 DEF Claims
  <2>5. n.object = p /\ g.object = o /\ g \in Claims(t)
    BY <1>3
  <2> HIDE DEF n, g
  <2>6. /\ [Next]_vars /\ Exchange(t, {g}, {n}) /\ NextBase \in Words
        /\ Forgotten(g.object)'
    BY <1>2, <1>3, <1>5, <2>1, <2>3, <2>4, <2>5, Moved
  <2>7. OwnTypes'
    BY <1>2, <1>5, <2>6 DEF OwnTypes
  <2>8. CallKnows(t)'
    <3>1. Forgotten(o)'
      BY <2>5, <2>6
    <3> QED BY <1>2, <1>3, <2>2, <3>1 DEF CallKnows, Forgotten
  <2> QED BY <1>2, <1>3, <1>4, <2>6, <2>7, <2>8, ShimStep
<1>6. CASE Return(t) /\ UNCHANGED vars
  <2>1. OthersStay(t)
    BY <1>2, <1>6, ReturnTyped DEF OthersStay
  <2>2. Claims(t)' = Claims(t)
    BY <1>2, <1>6, ReturnTyped DEF Claims, Settled, InHand, At
  <2>3. [Next]_vars /\ Exchange(t, {}, {})
    BY <1>2, <1>6, <2>1, <2>2, SameObjects
  <2>4. OwnTypes' /\ CallKnows(t)'
    BY <1>2, <1>6, ReturnTyped DEF OwnTypes
  <2> QED BY <1>2, <1>3, <1>4, <2>3, <2>4, ShimStep
<1> QED BY <1>1, <1>5, <1>6 DEF ReallocMove

(* U copies from the old place, whose addresses nobody has got since. *)
LEMMA ReallocCopyKeeps ==
  ASSUME ShimInv, NEW t \in Threads, ReallocCopy(t)
  PROVE  ShimInv'
<1> USE ShimFacts
<1>1. PICK o, size, dst, old_size :
        /\ o = call[t].object /\ size = call[t].size /\ dst = call[t].dst
        /\ old_size = call[t].old_size
  OBVIOUS
<1> DEFINE p == [o EXCEPT !.ptr = dst, !.size = size,
                          !.kept = Lesser(o.kept, size)]
           q == New(dst, size)
           g == [object |-> q, held |-> FALSE]
           n == [object |-> p, held |-> TRUE]
           bytes == Lesser(old_size, size)
<1>2. /\ call[t].at = "copy" /\ Memcpy(dst, o.ptr, bytes)
      /\ owned' = [owned EXCEPT ![t] = (@ \ {o}) \cup {p}]
      /\ Return(t) /\ UNCHANGED <<vars, initialised, heap>>
  BY <1>1 DEF ReallocCopy, At, Replace, CopySize
<1>3. /\ o \in owned[t] /\ o \in Object /\ Forgotten(o) /\ old_size = o.size
      /\ size \in Sizes \cup {0} /\ dst \in Words
  BY <1>1, <1>2, OwnedLies, ShimTypes DEF ShimInv, CallKnows
<1>4. /\ g \in Claims(t) /\ q \in Object /\ Backed(q)
      /\ q.ptr = dst /\ q.size = size
  <2>1. g \in Claims(t)
    BY <1>1, <1>2 DEF Claims, InHand
  <2>2. Backed(g.object) /\ g.object \in Object
    BY <2>1, ShimTypes DEF ShimInv, ClaimsBacked
  <2> QED BY <2>1, <2>2 DEF New
<1>5. /\ o.ptr \in Nat /\ o.size \in Nat /\ o.size > 0 /\ o.kept \in Nat
      /\ o.kept <= o.size /\ dst \in Nat /\ size \in Nat /\ size > 0
  BY <1>3, <1>4, Numbers DEF Forgotten, Backed
<1>6. /\ Lesser(o.kept, size) \in Sizes \cup {0}
      /\ Lesser(o.kept, size) <= size /\ Lesser(o.kept, size) <= o.kept
      /\ Lesser(o.kept, size) <= bytes /\ Lesser(o.kept, size) \in Nat
      /\ bytes \in Nat /\ bytes <= size /\ bytes <= o.size
  <2>1. o.kept \in Sizes \cup {0}
    BY <1>3 DEF Object
  <2> QED BY <1>3, <1>5, <2>1 DEF Lesser
<1>7. /\ p \in Object /\ p.ptr = dst /\ p.size = size
      /\ p.kept = Lesser(o.kept, size) /\ p.content = o.content
  BY <1>3, <1>6 DEF Object
<1> HIDE DEF p, q, bytes
<1>8. OthersStay(t) /\ owned'[t] = (owned[t] \ {o}) \cup {p}
  BY <1>2, ReturnTyped DEF OthersStay, OwnTypes
<1>9. Claims(t)' = (Claims(t) \ {g}) \cup {n}
  <2>1. InHand(t)' = {} /\ InHand(t) = {q}
    BY <1>1, <1>2, ReturnTyped DEF InHand, q
  <2>2. Settled(t)' = Settled(t) \cup {p}
    BY <1>1, <1>2, <1>8, ReturnTyped DEF Settled, At
  <2> QED BY <2>1, <2>2 DEF Claims
<1>10. [Next]_vars /\ Exchange(t, {g}, {n})
  <2>1. Backed(p)
    BY <1>4, <1>6, <1>7 DEF Backed
  <2> QED BY <1>2, <1>4, <1>7, <1>8, <1>9, <2>1, HandedOver
<1>11. Bytes(o) \subseteq Addresses /\ Bytes(q) \subseteq Addresses
  BY <1>3, <1>4, ForgottenLies, BackedLies
<1>12. \A a \in dst .. (dst + bytes - 1) :
         /\ a \in Bytes(q) /\ a \in Addresses
         /\ o.ptr + (a - dst) \in Bytes(o)
         /\ memory'[a] = memory[o.ptr + (a - dst)]
  <2>1. ASSUME NEW a \in dst .. (dst + bytes - 1)
        PROVE  a \in Bytes(q) /\ o.ptr + (a - dst) \in Bytes(o)
    BY <1>4, <1>5, <1>6 DEF Bytes
  <2> QED BY <1>2, <1>11, <2>1 DEF Memcpy
<1>13. OwnTypes' /\ CallKnows(t)'
  <2>1. memory' \in [Addresses -> Contents \cup {NoContent}]
    BY <1>2, <1>11, <1>12 DEF Memcpy, OwnTypes
  <2> QED BY <1>2, <1>7, <2>1, ReturnTyped DEF OwnTypes
<1>14. ContentsKept'
  <2>1. WritesWithin(Bytes(q))
    BY <1>2, <1>12 DEF WritesWithin, Memcpy
  <2>2. ASSUME NEW u \in Threads, NEW r \in owned'[u], ~ (u = t /\ r = p)
        PROVE  r \in owned[u] /\ Bytes(r) \cap Bytes(q) = {}
    <3>1. r \in owned[u] /\ ~ (u = t /\ g = [object |-> r, held |-> TRUE])
      BY <1>8, <2>2 DEF OthersStay
    <3>2. Bytes(r) \cap Bytes(g.object) = {}
      BY <1>4, <3>1, OwnedApart
    <3> QED BY <3>1, <3>2
  <2>3. OthersOutside(t, Bytes(q), p)
    BY <2>2 DEF OthersOutside
  <2>4. ArrivesWhole(p)
    <3>1. ASSUME NEW a \in p.ptr .. (p.ptr + p.kept - 1)
          PROVE  memory'[a] = p.content
      <4>1. a \in dst .. (dst + bytes - 1)
        BY <1>5, <1>6, <1>7
      <4>2. o.ptr + (a - dst) \in o.ptr .. (o.ptr + o.kept - 1)
        BY <1>5, <1>6, <1>7
      <4>3. memory[o.ptr + (a - dst)] = o.content
        BY <1>3, <4>2 DEF ShimInv, ContentsKept
      <4> QED BY <1>7, <1>12, <4>1, <4>3
    <3> QED BY <3>1 DEF ArrivesWhole
  <2> QED BY <2>1, <2>3, <2>4, ContentsWritten
<1> QED BY <1>2, <1>10, <1>13, <1>14, ShimStep DEF vars

(* What T does not know is reallocated by libc. *)
LEMMA LibcReallocKeeps ==
  ASSUME ShimInv, NEW t \in Threads, LibcRealloc(t)
  PROVE  ShimInv'
<1> USE ShimFacts
<1>1. PICK o, size : o = call[t].object /\ size = call[t].size
  OBVIOUS
<1> DEFINE g == [object |-> o, held |-> TRUE]
<1>2. /\ call[t].at = "libc_realloc" /\ Return(t)
      /\ UNCHANGED <<vars, initialised, allocations>>
  BY DEF LibcRealloc, At, vars
<1>3. /\ o \in owned[t] /\ o \in Settled(t) /\ o \in Object /\ Backed(o)
      /\ o.ptr \in heap /\ g \in Claims(t) /\ size \in Sizes \cup {0}
  BY <1>1, <1>2, OwnedLies, ShimTypes DEF ShimInv, CallKnows, At
<1>4. /\ o.ptr \in Nat /\ o.size \in Nat /\ o.size > 0 /\ o.kept \in Nat
      /\ o.kept <= o.size /\ o.size <= HeapBlock /\ HeapBlock \in Nat
      /\ o.ptr \in HeapBases
      /\ \A a \in allocations : a.base # o.ptr
  <2>1. \A a \in allocations : a.base # o.ptr
    BY <1>3, BackedLies
  <2>2. o.size <= HeapBlock
    BY <1>3, BackedLies
  <2> QED BY <1>3, <2>1, <2>2, Numbers DEF Backed
<1>5. CASE /\ heap' = heap \ {o.ptr}
           /\ owned' = [owned EXCEPT ![t] = @ \ {o}]
           /\ UNCHANGED memory
  <2>1. OthersStay(t) /\ owned'[t] = owned[t] \ {o}
    BY <1>2, <1>5, ReturnTyped DEF OthersStay, OwnTypes
  <2>2. Claims(t)' = Claims(t) \ {g}
    <3>1. InHand(t)' = {} /\ InHand(t) = {}
      BY <1>2, ReturnTyped DEF InHand
    <3>2. Settled(t)' = Settled(t) \ {o}
      BY <1>2, <2>1, ReturnTyped DEF Settled, At
    <3> QED BY <3>1, <3>2 DEF Claims
  <2>3. TakesOnly({g}) /\ GivesOnly({g}, {})
    BY <1>2, <1>4, <1>5 DEF TakesOnly, GivesOnly
  <2>4. Exchange(t, {g}, {})
    <3>1. g \in Claims(t)
      BY <1>3
    <3> HIDE DEF g
    <3> QED BY <2>1, <2>2, <2>3, <3>1 DEF Exchange
  <2>5. OwnTypes' /\ CallKnows(t)'
    BY <1>2, <1>5, ReturnTyped DEF OwnTypes
  <2>6. ContentsKept'
    <3>1. \A u \in Threads : owned'[u] \subseteq owned[u]
      BY <2>1 DEF OthersStay
    <3> QED BY <1>5, <3>1 DEF ShimInv, ContentsKept
  <2> QED BY <1>2, <2>4, <2>5, <2>6, ShimStep
<1>6. ASSUME size # 0, NEW base \in (HeapBases \ heap) \cup {o.ptr},
             heap' = (heap \ {o.ptr}) \cup {base},
             Memcpy(base, o.ptr, Lesser(o.size, size)),
             Replace(t, o, [o EXCEPT !.ptr = base, !.size = size,
                                     !.kept = Lesser(o.kept, size)])
      PROVE  ShimInv'
  <2> DEFINE p == [o EXCEPT !.ptr = base, !.size = size,
                            !.kept = Lesser(o.kept, size)]
             n == [object |-> p, held |-> TRUE]
             bytes == Lesser(o.size, size)
             W == base .. (base + HeapBlock - 1)
  <2>1. owned' = [owned EXCEPT ![t] = (@ \ {o}) \cup {p}]
    BY <1>6 DEF Replace
  <2>2. /\ size \in Nat /\ size > 0 /\ size <= HeapBlock /\ base \in HeapBases
        /\ base \in Nat /\ base \in Words
    BY <1>3, <1>4, <1>6, Numbers, ShimAssumption
  <2>3. /\ Lesser(o.kept, size) \in Sizes \cup {0}
        /\ Lesser(o.kept, size) <= size /\ Lesser(o.kept, size) <= o.kept
        /\ Lesser(o.kept, size) <= bytes /\ Lesser(o.kept, size) \in Nat
        /\ bytes \in Nat /\ bytes <= size /\ bytes <= o.size
    <3>1. o.kept \in Sizes \cup {0}
      BY <1>3 DEF Object
    <3> QED BY <1>3, <1>4, <2>2, <3>1 DEF Lesser
  <2>4. /\ p \in Object /\ p.ptr = base /\ p.size = size
        /\ p.kept = Lesser(o.kept, size) /\ p.content = o.content
    BY <1>3, <2>2, <2>3 DEF Object
  <2> HIDE DEF p, bytes
  <2>5. OthersStay(t) /\ owned'[t] = (owned[t] \ {o}) \cup {p}
    BY <1>2, <2>1, ReturnTyped DEF OthersStay, OwnTypes
  <2>6. Claims(t)' = (Claims(t) \ {g}) \cup {n}
    <3>1. InHand(t)' = {} /\ InHand(t) = {}
      BY <1>2, ReturnTyped DEF InHand
    <3>2. Settled(t)' = (Settled(t) \ {o}) \cup {p}
      BY <1>2, <2>5, ReturnTyped DEF Settled, At
    <3> QED BY <3>1, <3>2 DEF Claims
  <2>7. Exchange(t, {g}, {n})
    <3>1. Backed(p)'
      BY <1>6, <2>2, <2>3, <2>4 DEF Backed
    <3>2. \/ p.ptr = o.ptr
          \/ \A u \in Threads : \A c \in Claims(u) : c.object.ptr # p.ptr
      BY <1>4, <2>2, <2>4, <1>6, FreshHeap
    <3>3. TakesOnly({g}) /\ GivesOnly({g}, {n})
      BY <1>2, <1>4, <1>6 DEF TakesOnly, GivesOnly
    <3>4. g \in Claims(t) /\ g.object = o /\ n.object = p
      BY <1>3
    <3> HIDE DEF g, n
    <3> QED BY <2>5, <2>6, <3>1, <3>2, <3>3, <3>4 DEF Exchange
  <2>8. Bytes(o) \subseteq Addresses /\ W \subseteq Addresses
    BY <1>3, <2>2, BackedLies DEF Addresses, HeapAddresses
  <2>9. \A a \in base .. (base + bytes - 1) :
          /\ a \in W /\ o.ptr + (a - base) \in Bytes(o)
          /\ memory'[a] = memory[o.ptr + (a - base)]
    <3>1. ASSUME NEW a \in base .. (base + bytes - 1)
          PROVE  a \in W /\ o.ptr + (a - base) \in Bytes(o)
      BY <1>4, <2>2, <2>3 DEF Bytes
    <3> QED BY <1>6, <2>8, <3>1 DEF Memcpy, bytes
  <2>10. WritesWithin(W)
    BY <1>6, <2>9 DEF WritesWithin, Memcpy, bytes
  <2>11. OwnTypes' /\ CallKnows(t)'
    <3>1. memory' \in [Addresses -> Contents \cup {NoContent}]
      BY <1>6, <2>8, <2>9 DEF Memcpy, OwnTypes, bytes
    <3>2. heap' \subseteq HeapBases
      BY <1>6, <2>2
    <3> QED BY <1>2, <2>1, <2>4, <3>1, <3>2, ReturnTyped DEF OwnTypes
  <2>12. ContentsKept'
    <3>1. ASSUME NEW u \in Threads, NEW r \in owned'[u], ~ (u = t /\ r = p)
          PROVE  r \in owned[u] /\ Bytes(r) \cap W = {}
      <4>1. r \in owned[u] /\ ~ (u = t /\ r = o)
        BY <2>5, <3>1 DEF OthersStay
      <4>2. r \in Settled(u) => r.ptr # base
        <5>1. SUFFICES ASSUME r \in Settled(u) PROVE r.ptr # base
          OBVIOUS
        <5> DEFINE c == [object |-> r, held |-> TRUE]
        <5>2. c \in Claims(u)
          BY <4>1, <5>1, OwnedLies
        <5>3. CASE base = o.ptr
          BY <1>3, <4>1, <5>2, <5>3 DEF ShimInv, ClaimsUnique
        <5>4. CASE base \in HeapBases \ heap
          BY <1>4, <5>2, <5>4, FreshHeap
        <5> QED BY <1>6, <5>3, <5>4
      <4> HIDE DEF W
      <4>3. Bytes(r) \cap W = {}
        BY <2>2, <4>1, <4>2, OwnedHeapApart DEF W
      <4> QED BY <4>1, <4>3
    <3>2. OthersOutside(t, W, p)
      BY <3>1 DEF OthersOutside
    <3>3. ArrivesWhole(p)
      <4>1. ASSUME NEW a \in p.ptr .. (p.ptr + p.kept - 1)
            PROVE  memory'[a] = p.content
        <5>1. a \in base .. (base + bytes - 1)
          BY <1>4, <2>2, <2>3, <2>4
        <5>2. o.ptr + (a - base) \in o.ptr .. (o.ptr + o.kept - 1)
          BY <1>4, <2>2, <2>3, <2>4
        <5>3. memory[o.ptr + (a - base)] = o.content
          BY <1>3, <5>2 DEF ShimInv, ContentsKept
        <5> QED BY <2>4, <2>9, <5>1, <5>3
      <4> QED BY <4>1 DEF ArrivesWhole
    <3> HIDE DEF W
    <3> QED BY <2>10, <3>2, <3>3, ContentsWritten
  <2> QED BY <1>2, <2>7, <2>11, <2>12, ShimStep
<1> QED BY <1>1, <1>5, <1>6 DEF LibcRealloc, Disown

-----------------------------------------------------------------------------
(* Every step. *)

(* At the start nobody holds anything. *)
LEMMA ShimInvInit == ShimInit => ShimInv
<1> SUFFICES ASSUME ShimInit PROVE ShimInv
  OBVIOUS
<1>1. TypeOK
  <2>1. types \in [TypeIds -> TypeHashes \cup {NoHash}]
    BY ShimAssumption DEF ShimInit, AfterStartUp
  <2>2. type_ids \in [TypeHashes -> TypeIds \cup {0}]
    BY DEF ShimInit, AfterStartUp
  <2>3. site_types \in [SiteIds -> TypeHashes \cup {NoHash}]
    BY ShimAssumption DEF ShimInit, AfterStartUp
  <2>4. /\ sites \subseteq AllocationSite /\ allocations \subseteq Allocation
        /\ sites_by_id \in [SiteIds -> Words] /\ used \in Words
    BY WordAssumption DEF ShimInit, AfterStartUp, Words
  <2> QED BY <2>1, <2>2, <2>3, <2>4 DEF TypeOK
<1>2. Layout
  BY <1>1, WordAssumption
  DEF ShimInit, AfterStartUp, Layout, Typed, UsedWithinCapacity, BelowBump,
      LiveDisjoint, Words, kAlignment
<1>3. OwnTypes
  BY Idling DEF ShimInit, OwnTypes, Idle
<1>4. \A t \in Threads : call[t].at = "idle" /\ Claims(t) = {} /\ CallKnows(t)
  <2>1. \A t \in Threads : call[t].at = "idle" /\ owned[t] = {}
    BY Idling DEF ShimInit
  <2> QED BY <2>1 DEF Claims, Settled, InHand, CallKnows, At
<1>5. ClaimsBacked /\ ClaimsUnique
  BY <1>4 DEF ClaimsBacked, ClaimsUnique
<1>6. allocations = {} /\ ClaimsCover
  BY DEF ShimInit, AfterStartUp, ClaimsCover
<1>7. ContentsKept
  BY DEF ShimInit, ContentsKept
<1> QED
  BY <1>1, <1>2, <1>3, <1>4, <1>5, <1>6, <1>7
  DEF ShimInv, ShimTypeOK, OwnTypes

(* One case for each step of a call. *)
LEMMA ShimInvStep == ShimInv /\ [ShimNext]_allVars => ShimInv'
<1> SUFFICES ASSUME ShimInv, [ShimNext]_allVars
             PROVE  ShimInv'
  OBVIOUS
<1>1. CASE UNCHANGED allVars
  BY <1>1
  DEF allVars, vars, shimVars, ShimInv, ShimTypeOK, TypeOK, Layout, Typed,
      UsedWithinCapacity, BelowBump, LiveDisjoint, ClaimsBacked, ClaimsUnique,
      ClaimsCover, CallKnows, ContentsKept, Claims, Settled, InHand, At,
      Backed, Forgotten
<1>2. CASE InitLifetime
  BY <1>2, InitLifetimeKeeps
<1>3. ASSUME NEW t \in Threads, NEW size \in Sizes,
             \/ \E site_id \in SiteIds : MallocAtSite(t, size, site_id)
             \/ LibcMalloc(t, size)
      PROVE  ShimInv'
  BY <1>3, MallocAtSiteKeeps, LibcMallocKeeps
<1>4. ASSUME NEW t \in Threads, NEW o \in owned[t], Fill(t, o)
      PROVE  ShimInv'
  BY <1>4, FillKeeps
<1>5. ASSUME NEW t \in Threads, TypedStrdup(t)
      PROVE  ShimInv'
  BY <1>5, BeginStrdupKeeps, StrdupAllocateKeeps, StrdupCopyKeeps DEF TypedStrdup
<1>6. ASSUME NEW t \in Threads, TypedFree(t)
      PROVE  ShimInv'
  BY <1>6, BeginFreeKeeps, FreeReleaseKeeps, LibcFreeKeeps DEF TypedFree
<1>7. ASSUME NEW t \in Threads, TypedRealloc(t)
      PROVE  ShimInv'
  BY <1>7, BeginReallocKeeps, QuerySizeKeeps, ReallocReleaseKeeps,
     ReallocMoveKeeps, ReallocCopyKeeps, LibcReallocKeeps
  DEF TypedRealloc
<1> QED BY <1>1, <1>2, <1>3, <1>4, <1>5, <1>6, <1>7 DEF ShimNext

(* So the invariant holds always. *)
LEMMA ShimInvAlways == ShimSpec => []ShimInv
BY ShimInvInit, ShimInvStep, PTL DEF ShimSpec

(* Every variable of the shim, and of the Runtime that it calls, keeps its *)
(* type, whatever the library asks for and however the threads interleave. *)
THEOREM ShimTypeCorrect == ShimSpec => []ShimTypeOK
<1>1. ShimInv => ShimTypeOK
  BY DEF ShimInv
<1> QED BY <1>1, ShimInvAlways, PTL

(* free and realloc of libc get only live blocks of libc: a pointer that   *)
(* interspec_release or interspec_size did not recognise was never typed.  *)
THEOREM LibcSeesOnlyItsOwn == ShimSpec => []LibcSeesItsOwn
<1>1. ShimInv => LibcSeesItsOwn
  BY DEF ShimInv, CallKnows, LibcSeesItsOwn
<1> QED BY <1>1, ShimInvAlways, PTL

(* The objects that the library holds are the ones that are allocated: a   *)
(* failed interspec_typed_realloc leaves the old one, a successful one     *)
(* leaves no metadata behind, and no two owners share an object.           *)
THEOREM HeldObjectsAreAllocated == ShimSpec => []HeldIsAllocated
<1>1. ASSUME ShimInv PROVE OwnedIsLive
  <2>1. ASSUME NEW t \in Threads, NEW o \in Settled(t)
        PROVE  \/ \E a \in AllocationAt(o.ptr) : a.size = o.size
               \/ o.ptr \in heap
    <3>1. o \in owned[t]
      BY <1>1, ShimFacts, ShimTypes
    <3> QED BY <1>1, <2>1, <3>1, OwnedLies DEF Backed, AllocationAt
  <2>2. ASSUME NEW t \in Threads, NEW o \in Settled(t),
               NEW u \in Threads, NEW p \in Settled(u), p.ptr = o.ptr
        PROVE  p = o /\ u = t
    <3> DEFINE c == [object |-> o, held |-> TRUE]
               d == [object |-> p, held |-> TRUE]
    <3>1. c \in Claims(t) /\ d \in Claims(u)
      BY DEF Claims
    <3>2. c = d /\ t = u
      BY <1>1, <2>2, <3>1 DEF ShimInv, ClaimsUnique
    <3> QED BY <3>2
  <2> QED BY <2>1, <2>2 DEF OwnedIsLive
<1>2. ASSUME ShimInv PROVE NoTypedLeak
  <2>1. ASSUME NEW a \in allocations
        PROVE  \E t \in Threads :
                 \/ \E o \in Settled(t) : o.ptr = a.base
                 \/ At(t, "free") /\ call[t].object.ptr = a.base
                 \/ /\ call[t].at \in {"copy", "strdup_copy"}
                    /\ call[t].dst = a.base
    <3>1. PICK t \in Threads : \E c \in Claims(t) : c.object.ptr = a.base
      BY <1>2 DEF ShimInv, ClaimsCover
    <3>2. PICK c \in Claims(t) : c.object.ptr = a.base
      BY <3>1
    <3>3. CASE c.object \in Settled(t)
      BY <3>2, <3>3
    <3>4. CASE c.object \in InHand(t)
      <4>1. call[t].at # "libc_free" \/ call[t].object.ptr # a.base
        <5>1. ASSUME call[t].at = "libc_free", call[t].object.ptr = a.base
              PROVE  FALSE
          <6>1. Backed(c.object) /\ c.object \in Object /\ a.base \in heap
            BY <1>2, <3>2, <5>1, ShimFacts, ShimTypes
            DEF ShimInv, ClaimsBacked, CallKnows
          <6> QED BY <1>2, <3>2, <6>1, ShimFacts, BackedLies
        <5> QED BY <5>1
      <4> QED BY <3>2, <3>4, <4>1 DEF InHand, New, At
    <3> QED BY <3>2, <3>3, <3>4 DEF Claims
  <2> QED BY <2>1 DEF NoTypedLeak
<1>3. ShimInv => HeldIsAllocated
  BY <1>1, <1>2 DEF HeldIsAllocated
<1> QED BY <1>3, ShimInvAlways, PTL

(* What the library wrote into an object stays there through allocations,  *)
(* fills, frees and two-step reallocations of all the other objects.       *)
THEOREM ContentsArePreserved == ShimSpec => []ContentsPreserved
<1>1. ASSUME ShimInv PROVE ContentsPreserved
  <2>1. \A t \in Threads : Settled(t) \subseteq owned[t]
    BY DEF Settled
  <2> QED BY <1>1, <2>1 DEF ShimInv, ContentsKept, ContentsPreserved
<1>2. ShimInv => ContentsPreserved
  BY <1>1
<1> QED BY <1>2, ShimInvAlways, PTL
=============================================================================
