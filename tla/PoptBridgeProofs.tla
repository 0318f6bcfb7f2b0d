-------------------------- MODULE PoptBridgeProofs --------------------------
(***************************************************************************)
(* What the rsync/popt bridge guarantees, for every option table and argv  *)
(* that the application passes, every arena, and any number of contexts    *)
(* one after the other: U has the table that T was given, the checks of T  *)
(* never turn correct data away, a context never outlives its tables, and  *)
(* for the application poptGetNextOpt is the one of a popt that is linked  *)
(* in, unless the application assigns between two options.                 *)
(***************************************************************************)
EXTENDS PoptBridge, InterspecRuntimeProofs, FiniteSetTheorems

-----------------------------------------------------------------------------
(* The invariant. *)

(* There is a context, or one is being made. *)
InUse == {"slots", "options", "argv", "context", "live", "parsing", "freeing"}

(* In U's memory f, ptr is a copy of text. *)
IsCopy(f, ptr, text) ==
  IF text = Null THEN ptr = 0 ELSE ptr \in DOMAIN f /\ f[ptr] = text

(* The sites of the bridge have the types that the policy gave them, and   *)
(* each string in U is a live char object of its own size: the only object *)
(* that the bridge releases is a context, which no string lies in.         *)
Bound ==
  /\ site_types[CopySite] = CharHash
  /\ site_types[ContextSite] \in TypeHashes

IsText(o, ptr) ==
  /\ o.base = ptr
  /\ o.size = TextSize[text_at[ptr]]
  /\ o.type_hash = CharHash

TextsLive == \A ptr \in DOMAIN text_at : \E o \in allocations : IsText(o, ptr)

ContextLive ==
  context # 0 => /\ context \notin DOMAIN text_at
                 /\ \E o \in allocations : o.base = context

Memory ==
  /\ Typed /\ BelowBump /\ LiveDisjoint
  /\ Bound /\ TextsLive /\ ContextLive

(* The application's table is one that make_context takes. *)
TableTaken ==
  at \in InUse =>
    /\ Supported(options)
    /\ \A i \in DOMAIN options : HasArg(options[i]) =>
         ValuesOf[options[i].arg] = IF KindOfType(options[i].type) = "string"
                                    THEN Texts \cup {Null} ELSE Integers32

(* A slot that is set has the kind of its destination and a value that may *)
(* be read: a null, a string that U still has, or a number.                *)
SlotSet(d) ==
  LET slot == table.slots[SlotOf(options, d)] IN
  /\ slot.kind = SlotKind(options, d)
  /\ IF slot.kind = "string" THEN slot.value \in DOMAIN text_at \cup {0}
                             ELSE slot.value \in Integers32

SlotsHold ==
  /\ DOMAIN table.slots = 1 .. Cardinality(Named(options))
  /\ at \in InUse => \A d \in Named(options) \ pending : SlotSet(d)
  /\ at \in InUse \ {"slots"} => pending = {}

(* What has been copied of option i, and that all of it has. *)
OptionSet(i) ==
  LET texts == table.options[i].texts IN
  /\ table.options[i].slot = SlotNumber(options, options[i])
  /\ Len(texts) <= Len(options[i].texts)
  /\ \A n \in DOMAIN texts : IsCopy(text_at, texts[n], options[i].texts[n])

TextsSet(i) == Len(table.options[i].texts) = Len(options[i].texts)

OptionsHold ==
  at \in InUse =>
    /\ Len(table.options) <= Len(options)
    /\ \A i \in DOMAIN table.options :
         /\ OptionSet(i)
         /\ i < Len(table.options) \/ at \notin {"slots", "options"}
              => TextsSet(i)
    /\ at = "slots" => Len(table.options) = 0
    /\ at \notin {"slots", "options"} => Len(table.options) = Len(options)

ArgvHolds ==
  at \in InUse =>
    /\ Len(argv) <= Len(args)
    /\ \A i \in DOMAIN argv : IsCopy(text_at, argv[i], args[i])
    /\ at \notin {"slots", "options", "argv"} => Len(argv) = Len(args)

(* Where there may be a context, and what it rests on. *)
Phases ==
  /\ at \in {"live", "parsing"} => context # 0
  /\ context # 0 => \/ at \in {"live", "parsing"}
                    \/ at = "freeing" /\ to_free = FreeOrder
  /\ at \in {"slots", "options"} => "table" \in blocks
  /\ at \in {"argv", "context"} \/ context # 0 => blocks = {"table", "argv"}
  /\ at = "freeing" => to_free # <<>>

(* What the application would read if all slots were copied back now is    *)
(* what it has, but for what popt has stored since the call began.         *)
Shadow(d) ==
  LET value == table.slots[SlotOf(options, d)].value IN
  IF SlotKind(options, d) = "string" THEN TextAt(value) ELSE value

Native_dest(d) == IF d \in DOMAIN written THEN written[d] ELSE dest[d]

ShadowsHold ==
  /\ at # "parsing" => DOMAIN written = {}
  /\ at = "parsing" => DOMAIN written \subseteq Named(options)
  /\ ~ AssignsMeanwhile /\ at \in InUse =>
       \A d \in Named(options) \ pending : Shadow(d) = Native_dest(d)

BridgeInv ==
  /\ BridgeTypeOK
  /\ Memory
  /\ TableTaken /\ SlotsHold /\ OptionsHold /\ ArgvHolds
  /\ Phases
  /\ ShadowsHold
  /\ NoSpuriousAbort

-----------------------------------------------------------------------------
(* The numbers of the slots. *)

(* A destination that a table names has a first option that names it. *)
LEMMA FirstUse ==
  ASSUME NEW opts \in Seq(Option), NEW d \in Named(opts)
  PROVE  /\ First(Uses(opts, d)) \in Uses(opts, d)
         /\ First(Uses(opts, d)) \in Nat
         /\ \A i \in Uses(opts, d) : First(Uses(opts, d)) <= i
<1>1. Uses(opts, d) \in SUBSET Nat /\ Uses(opts, d) # {}
  BY DEF Uses, Named
<1>2. PICK n \in Uses(opts, d) : \A i \in Uses(opts, d) : n <= i
  BY <1>1, LeastNumber
<1>3. /\ First(Uses(opts, d)) \in Uses(opts, d)
      /\ \A i \in Uses(opts, d) : First(Uses(opts, d)) <= i
  BY <1>2 DEF First
<1> QED BY <1>1, <1>3

(* A table names finitely many destinations. *)
LEMMA NamedFinite ==
  ASSUME NEW opts \in Seq(Option)
  PROVE  IsFiniteSet(Named(opts)) /\ Cardinality(Named(opts)) \in Nat
<1> DEFINE firsts == [d \in Named(opts) |-> First(Uses(opts, d))]
<1>1. IsFiniteSet(1 .. Len(opts))
  BY FS_Interval
<1>2. DOMAIN opts = 1 .. Len(opts)
  OBVIOUS
<1>3. firsts \in [Named(opts) -> 1 .. Len(opts)]
  BY <1>2, FirstUse DEF Uses
<1>4. \A d, e \in Named(opts) : firsts[d] = firsts[e] => d = e
  BY FirstUse DEF Uses
<1> HIDE DEF firsts
<1>5. firsts \in Injection(Named(opts), 1 .. Len(opts))
  BY <1>3, <1>4 DEF Injection, IsInjective
<1>6. IsFiniteSet(Named(opts))
  BY <1>1, <1>5, FS_Injection
<1> QED BY <1>6, FS_CardinalityType

(* Destinations that were named before are fewer than those named later.   *)
LEMMA NamedBeforeGrows ==
  ASSUME NEW opts \in Seq(Option), NEW d \in Named(opts), NEW e \in Named(opts),
         First(Uses(opts, d)) < First(Uses(opts, e))
  PROVE  SlotOf(opts, d) < SlotOf(opts, e)
<1> DEFINE D == NamedBefore(opts, First(Uses(opts, d)))
           E == NamedBefore(opts, First(Uses(opts, e)))
<1>1. \A c \in Named(opts) : First(Uses(opts, c)) \in Nat
  BY FirstUse
<1>2. D \in SUBSET E /\ d \in E /\ d \notin D /\ E \in SUBSET Named(opts)
  BY <1>1 DEF NamedBefore
<1> HIDE DEF D, E
<1>3. IsFiniteSet(E) /\ Cardinality(E) \in Nat
  BY <1>2, NamedFinite, FS_Subset, FS_CardinalityType
<1>4. Cardinality(D) \in Nat /\ Cardinality(D) <= Cardinality(E)
      /\ Cardinality(D) # Cardinality(E)
  BY <1>2, <1>3, FS_Subset, FS_CardinalityType
<1> QED BY <1>3, <1>4 DEF SlotOf, D, E

(* Every destination has a slot of its own (slot_by_address).              *)
LEMMA SlotsAreDistinct ==
  ASSUME NEW opts \in Seq(Option)
  PROVE  /\ \A d \in Named(opts) :
              SlotOf(opts, d) \in 1 .. Cardinality(Named(opts))
         /\ \A d, e \in Named(opts) : SlotOf(opts, d) = SlotOf(opts, e) => d = e
<1>1. ASSUME NEW d \in Named(opts)
      PROVE  SlotOf(opts, d) \in 1 .. Cardinality(Named(opts))
  <2> DEFINE D == NamedBefore(opts, First(Uses(opts, d)))
  <2>1. First(Uses(opts, d)) \in Nat
    BY FirstUse
  <2>2. D \in SUBSET Named(opts) /\ d \notin D
    BY <2>1 DEF NamedBefore
  <2> HIDE DEF D
  <2>3. IsFiniteSet(D) /\ Cardinality(D) \in Nat
        /\ Cardinality(D) <= Cardinality(Named(opts))
        /\ Cardinality(D) # Cardinality(Named(opts))
    BY <2>2, NamedFinite, FS_Subset, FS_CardinalityType
  <2> QED BY <2>3, NamedFinite DEF SlotOf, D
<1>2. ASSUME NEW d \in Named(opts), NEW e \in Named(opts), d # e
      PROVE  SlotOf(opts, d) # SlotOf(opts, e)
  <2>1. First(Uses(opts, d)) # First(Uses(opts, e))
    BY <1>2, FirstUse DEF Uses
  <2>2. /\ First(Uses(opts, d)) \in Nat /\ First(Uses(opts, e)) \in Nat
        /\ SlotOf(opts, d) \in Nat /\ SlotOf(opts, e) \in Nat
    BY <1>1, FirstUse
  <2>3. CASE First(Uses(opts, d)) < First(Uses(opts, e))
    BY <2>2, <2>3, NamedBeforeGrows
  <2>4. CASE First(Uses(opts, e)) < First(Uses(opts, d))
    BY <2>2, <2>4, NamedBeforeGrows
  <2> QED BY <2>1, <2>2, <2>3, <2>4
<1> QED BY <1>1, <1>2

(* The kind of a slot is the kind of each of its options. *)
LEMMA SlotKindOfOption ==
  ASSUME NEW opts \in Seq(Option), Supported(opts),
         NEW i \in DOMAIN opts, HasArg(opts[i])
  PROVE  /\ opts[i].arg \in Named(opts) /\ opts[i].arg \in Dests
         /\ SlotKind(opts, opts[i].arg) = KindOfType(opts[i].type)
<1>1. opts[i].arg \in Named(opts)
  BY DEF Named, HasArg
<1>2. opts[i].arg \in Dests
  <2>1. opts[i] \in Option
    OBVIOUS
  <2> QED BY <2>1 DEF Option, HasArg
<1>3. First(Uses(opts, opts[i].arg)) \in Uses(opts, opts[i].arg)
  BY <1>1, FirstUse
<1>4. SlotKind(opts, opts[i].arg) = KindOfType(opts[i].type)
  BY <1>3 DEF SlotKind, Supported, Uses, HasArg
<1> QED BY <1>1, <1>2, <1>4

-----------------------------------------------------------------------------
(* The memory of U. *)

(* Copying keeps all strings and may add one at the bump pointer. *)
TextsGrow ==
  /\ DOMAIN text_at \subseteq DOMAIN text_at'
  /\ \A ptr \in DOMAIN text_at : text_at'[ptr] = text_at[ptr]

(* No string is at the null pointer. *)
LEMMA NoTextAtZero ==
  ASSUME BelowBump, TextsLive
  PROVE  0 \notin DOMAIN text_at
BY BridgeAssumption, WordAssumption DEF BelowBump, TextsLive, IsText, Words

(* copy_checked takes every string that U has. *)
LEMMA TextsAreAccepted ==
  ASSUME Memory, BridgeTypeOK, NEW ptr \in DOMAIN text_at
  PROVE  Accepted(ptr)
<1>1. PICK o \in allocations : IsText(o, ptr)
  BY DEF Memory, TextsLive
<1>2. LookupExact
  BY DisjointMakesLookupExact DEF Memory, Typed
<1>3. /\ ptr \in Words /\ ptr \in Nat
      /\ o.base = ptr /\ o.size \in Nat /\ o.size > 0
      /\ o.type_hash = CharHash /\ o.size = TextSize[text_at[ptr]]
  BY <1>1, WordAssumption
  DEF Memory, BelowBump, BridgeTypeOK, TypeOK, Allocation, Words, IsText
<1>4. o \in FindAllocation(ptr)
  BY <1>1, <1>2, <1>3 DEF LookupExact, Extent
<1>5. o.size - (ptr - o.base) \in RemainingBytes(ptr, CharHash)
  BY <1>3, <1>4 DEF RemainingBytes
<1>6. o.size - (ptr - o.base) = TextSize[text_at[ptr]]
  BY <1>3
<1>7. TextSize[text_at[ptr]] <= TextSize[text_at[ptr]]
  BY <1>3
<1> QED BY <1>5, <1>6, <1>7 DEF Accepted

(* What an allocation at one of the two sites does to the runtime. *)
LEMMA AllocationStep ==
  ASSUME Memory, NEW size \in Sizes, NEW site_id \in SiteIds,
         AllocateFromSite(size, site_id)
  PROVE  /\ [Next]_vars
         /\ Typed' /\ BelowBump' /\ LiveDisjoint' /\ Bound'
         /\ NextBase \in Words /\ NextBase # 0
         /\ \A o \in allocations : o \in allocations' /\ o.base < NextBase
         /\ \E o \in allocations' : /\ o.base = NextBase /\ o.size = size
                                    /\ o.type_hash = site_types[site_id]
<1>1. [Next]_vars
  BY DEF Next
<1>2. Typed' /\ BelowBump' /\ LiveDisjoint'
  BY <1>1, TypedStep, LayoutStep DEF Memory
<1>3. CanAllocate(size) /\ UNCHANGED site_types
  BY DEF AllocateFromSite, AllocateWithHash, registryVars
<1>4. size \in Words
  BY InputAssumption
<1>5. /\ NextBase = ArenaBase + used /\ NextBase \in Words /\ NextBase # 0
  BY <1>3, <1>4, AllocationFits, BridgeAssumption, WordAssumption
  DEF Memory, Typed, TypeOK, Words
<1>6. \A o \in allocations : o \in allocations' /\ o.base < NextBase
  BY <1>5, WordAssumption
  DEF AllocateFromSite, AllocateWithHash, Memory, BelowBump, Typed, TypeOK,
      Allocation, Words
<1>7. \E o \in allocations' : /\ o.base = NextBase /\ o.size = size
                              /\ o.type_hash = site_types[site_id]
  <2> DEFINE new == NewAllocation(size, site_types[site_id], site_id)
  <2>1. new \in allocations'
    BY DEF AllocateFromSite, AllocateWithHash
  <2> QED BY <2>1 DEF NewAllocation
<1> QED BY <1>1, <1>2, <1>3, <1>5, <1>6, <1>7 DEF Memory, Bound

(* copy_to_u: nothing that U has is lost, and the copy is the text.        *)
LEMMA CopyKeepsMemory ==
  ASSUME Memory, BridgeTypeOK, NEW text \in Texts \cup {Null}, CopyToU(text),
         UNCHANGED context
  PROVE  /\ Memory' /\ TextsGrow
         /\ DOMAIN text_at' \subseteq Words /\ 0 \notin DOMAIN text_at'
         /\ \A ptr \in DOMAIN text_at' : text_at'[ptr] \in Texts
         /\ CopyOf(text) \in Words
         /\ ~ CopyFails(text) => IsCopy(text_at', CopyOf(text), text)
<1>1. CASE ~ (text # Null /\ CanAllocate(TextSize[text]))
  <2>1. UNCHANGED <<vars, text_at>>
    BY <1>1 DEF CopyToU, AllocateFromSite, AllocateWithHash
  <2>2. Memory' /\ TextsGrow
    BY <2>1 DEF vars, Memory, Typed, TypeOK, UsedWithinCapacity, BelowBump,
       LiveDisjoint, Bound, TextsLive, ContextLive, IsText, TextsGrow
  <2>3. CopyOf(text) = 0 /\ 0 \in Words
    BY <1>1, WordAssumption DEF CopyOf, Words
  <2>4. ~ CopyFails(text) => text = Null
    BY <1>1 DEF CopyFails
  <2>5. 0 \notin DOMAIN text_at
    BY NoTextAtZero DEF Memory
  <2> QED BY <2>1, <2>2, <2>3, <2>4, <2>5 DEF BridgeTypeOK, IsCopy
<1>2. CASE text # Null /\ CanAllocate(TextSize[text])
  <2>1. /\ AllocateFromSite(TextSize[text], CopySite)
        /\ text_at' = Put(text_at, NextBase, text)
        /\ text \in Texts /\ TextSize[text] \in Sizes
        /\ CopySite \in SiteIds
    BY <1>2, BridgeAssumption DEF CopyToU
  <2>2. CopyOf(text) = NextBase
    BY <1>2 DEF CopyOf
  <2> DEFINE p == NextBase
  <2>3. /\ Typed' /\ BelowBump' /\ LiveDisjoint' /\ Bound'
        /\ p \in Words /\ p # 0
        /\ \A o \in allocations : o \in allocations' /\ o.base < p
        /\ \E o \in allocations' : /\ o.base = p /\ o.size = TextSize[text]
                                   /\ o.type_hash = CharHash
    BY <2>1, AllocationStep DEF Memory, Bound
  <2>4. /\ DOMAIN text_at' = DOMAIN text_at \cup {p}
        /\ text_at'[p] = text
        /\ \A ptr \in DOMAIN text_at : ptr # p => text_at'[ptr] = text_at[ptr]
    BY <2>1 DEF Put
  <2> HIDE DEF p
  <2>5. /\ \A o \in allocations : o.base \in Nat
        /\ p \in Nat
    BY <2>3, WordAssumption DEF Memory, Typed, TypeOK, Allocation, Words
  <2>6. p \notin DOMAIN text_at
    BY <2>3, <2>5 DEF Memory, TextsLive, IsText
  <2>7. TextsGrow
    BY <2>4, <2>6 DEF TextsGrow
  <2>8. TextsLive'
    <3>1. ASSUME NEW ptr \in DOMAIN text_at'
          PROVE  \E o \in allocations' : IsText(o, ptr)'
      <4>1. CASE ptr = p
        BY <2>3, <2>4, <4>1 DEF IsText
      <4>2. CASE ptr # p
        <5>1. PICK o \in allocations : IsText(o, ptr)
          BY <2>4, <3>1, <4>2 DEF Memory, TextsLive
        <5>2. text_at'[ptr] = text_at[ptr] /\ o \in allocations'
          BY <2>3, <2>4, <3>1, <4>2
        <5> QED BY <5>1, <5>2 DEF IsText
      <4> QED BY <4>1, <4>2
    <3> QED BY <3>1 DEF TextsLive
  <2>9. ContextLive'
    <3>1. SUFFICES ASSUME context # 0 PROVE ContextLive'
      BY DEF ContextLive
    <3>2. PICK o \in allocations : o.base = context
      BY <3>1 DEF Memory, ContextLive
    <3>3. context # p
      BY <2>3, <2>5, <3>2
    <3> QED BY <2>3, <2>4, <3>1, <3>2, <3>3 DEF Memory, ContextLive
  <2>10. /\ DOMAIN text_at' \subseteq Words /\ 0 \notin DOMAIN text_at'
         /\ \A ptr \in DOMAIN text_at' : text_at'[ptr] \in Texts
    BY <2>1, <2>3, <2>4, NoTextAtZero DEF BridgeTypeOK, Memory
  <2>11. IsCopy(text_at', p, text)
    BY <1>2, <2>4 DEF IsCopy
  <2> QED
    BY <2>2, <2>3, <2>7, <2>8, <2>9, <2>10, <2>11 DEF Memory, p
<1> QED BY <1>1, <1>2

(* A step that touches neither the arena nor the strings keeps them. *)
LEMMA MemoryStays ==
  ASSUME Memory, UNCHANGED <<vars, text_at, context>>
  PROVE  Memory' /\ TextsGrow
BY DEF vars, Memory, Typed, TypeOK, UsedWithinCapacity, BelowBump,
   LiveDisjoint, Bound, TextsLive, ContextLive, IsText, TextsGrow

-----------------------------------------------------------------------------
(* What a step leaves as it is while U's memory grows. *)

(* A string that was copied stays, since none is released. *)
LEMMA CopyStays ==
  ASSUME TextsGrow, NEW ptr, NEW text, IsCopy(text_at, ptr, text)
  PROVE  IsCopy(text_at', ptr, text)
BY DEF TextsGrow, IsCopy

(* A slot that is set stays set while the table has it. *)
LEMMA SlotStays ==
  ASSUME TextsGrow, UNCHANGED options, NEW d, SlotSet(d),
         table'.slots[SlotOf(options, d)] = table.slots[SlotOf(options, d)]
  PROVE  SlotSet(d)' /\ Shadow(d)' = Shadow(d)
<1> DEFINE slot == table.slots[SlotOf(options, d)]
<1>1. /\ slot.kind = SlotKind(options, d)
      /\ slot.kind = "string" => slot.value \in DOMAIN text_at \cup {0}
      /\ slot.kind # "string" => slot.value \in Integers32
  BY DEF SlotSet
<1>2. SlotSet(d)'
  BY <1>1 DEF SlotSet, TextsGrow
<1>3. Shadow(d)' = Shadow(d)
  BY <1>1 DEF Shadow, TextAt, TextsGrow
<1> QED BY <1>2, <1>3

(* An option that was copied stays as it was copied. *)
LEMMA OptionStays ==
  ASSUME TextsGrow, UNCHANGED options, NEW i, OptionSet(i),
         table'.options[i] = table.options[i]
  PROVE  OptionSet(i)' /\ (TextsSet(i) => TextsSet(i)')
<1>1. \A n \in DOMAIN table.options[i].texts :
        IsCopy(text_at', table.options[i].texts[n], options[i].texts[n])
  BY CopyStays DEF OptionSet
<1> QED BY <1>1 DEF OptionSet, TextsSet

(* So do all options, while the phase does not run ahead of them. *)
LEMMA OptionsStay ==
  ASSUME OptionsHold, TextsGrow, at \in InUse,
         UNCHANGED options, table'.options = table.options,
         at' \in InUse =>
           /\ at' = "slots" => at = "slots"
           /\ at' \notin {"slots", "options"} =>
                \/ at \notin {"slots", "options"}
                \/ /\ Len(table.options) = Len(options)
                   /\ \A i \in DOMAIN table.options : TextsSet(i)
  PROVE  OptionsHold'
<1> SUFFICES ASSUME at' \in InUse
             PROVE  OptionsHold'
  BY DEF OptionsHold
<1>1. \A i \in DOMAIN table.options : OptionSet(i)' /\ (TextsSet(i) => TextsSet(i)')
  BY OptionStays DEF OptionsHold
<1>2. \A i \in DOMAIN table.options :
        i < Len(table.options) \/ at' \notin {"slots", "options"} => TextsSet(i)
  BY DEF OptionsHold
<1> QED BY <1>1, <1>2 DEF OptionsHold

(* So does argv. *)
LEMMA ArgvStays ==
  ASSUME ArgvHolds, TextsGrow, at \in InUse, UNCHANGED <<args, argv>>,
         at' \in InUse /\ at' \notin {"slots", "options", "argv"} =>
           Len(argv) = Len(args)
  PROVE  ArgvHolds'
BY CopyStays DEF ArgvHolds

(* So do the slots. *)
LEMMA SlotsStay ==
  ASSUME SlotsHold, TextsGrow, at \in InUse, UNCHANGED <<options, pending>>,
         table'.slots = table.slots, at' = "slots" \/ pending = {}
  PROVE  SlotsHold'
BY SlotStays DEF SlotsHold, InUse

(* What would be copied back stays, while nothing is stored in a slot. *)
LEMMA ShadowsStay ==
  ASSUME ShadowsHold, SlotsHold, TextsGrow, at \in InUse,
         UNCHANGED <<options, pending, dest, written>>,
         table'.slots = table.slots, at # "parsing"
  PROVE  ShadowsHold'
BY SlotStays DEF ShadowsHold, SlotsHold, InUse, Native_dest

(* A table that was taken stays one that make_context supports. *)
LEMMA TableStaysTaken ==
  ASSUME TableTaken, at \in InUse, UNCHANGED options
  PROVE  TableTaken'
BY DEF TableTaken

-----------------------------------------------------------------------------
(* Making a context. *)

(* The types of what a table holds. *)
LEMMA NamedOptions ==
  ASSUME BridgeTypeOK
  PROVE  /\ options \in Seq(Option)
         /\ Cardinality(Named(options)) \in Nat
         /\ Named(options) \subseteq Dests
         /\ pending \subseteq Named(options)
         /\ \A i \in DOMAIN options :
              /\ options[i].arg \in Dests \cup {NoArg}
              /\ options[i].texts \in Seq(Texts \cup {Null})
<1>1. options \in Seq(Option) /\ pending \subseteq Named(options)
  BY DEF BridgeTypeOK
<1>2. \A i \in DOMAIN options : options[i] \in Option
  BY <1>1
<1>3. \A i \in DOMAIN options :
        /\ options[i].arg \in Dests \cup {NoArg}
        /\ options[i].texts \in Seq(Texts \cup {Null})
  BY <1>2 DEF Option
<1> QED BY <1>1, <1>3, NamedFinite DEF Named

(* poptGetContext only notes the table and the arguments, or aborts. *)
LEMMA GetContextKeeps ==
  ASSUME BridgeInv, NEW opts \in OptionTables, NEW arguments \in Arguments,
         GetContext(opts, arguments)
  PROVE  BridgeInv'
<1>1. /\ opts \in Seq(Option) /\ arguments \in Seq(Texts)
      /\ options' = Append(opts, Terminator) /\ args' = arguments
  BY BridgeAssumption DEF GetContext
<1>2. /\ options' \in Seq(Option) /\ DOMAIN options' = 1 .. Len(opts) + 1
      /\ \A i \in DOMAIN opts : i \in DOMAIN options' /\ options'[i] = opts[i]
      /\ \A i \in DOMAIN options' : i \in DOMAIN opts \/ options'[i] = Terminator
  <2>1. <<Null>> \in Seq(Texts \cup {Null})
    OBVIOUS
  <2>2. Terminator \in Option
    BY <2>1 DEF Terminator, Option, OptionTypes
  <2> QED BY <1>1, <2>2
<1>3. /\ at = "idle" /\ context = 0 /\ DOMAIN written = {}
      /\ at' \in {"slots", "aborted"}
      /\ at' = "slots" => Supported(options')
      /\ failure' \in {failure, "table"}
      /\ blocks' = blocks \cup {"table"}
      /\ pending' = Named(options') /\ argv' = <<>>
      /\ table' = [slots |-> [k \in 1 .. Cardinality(Named(options')) |->
                                [kind |-> "empty", value |-> 0]],
                   options |-> <<>>]
      /\ UNCHANGED <<vars, dest, context, to_free, text_at, returned, written>>
  BY DEF BridgeInv, Phases, ShadowsHold, GetContext, Proceed
<1>4. BridgeTypeOK'
  <2>1. [kind |-> "empty", value |-> 0] \in Slot
    BY WordAssumption DEF Slot, Words
  <2>2. Cardinality(Named(options')) \in Nat
    BY <1>2, NamedFinite
  <2>3. table' \in [slots : Seq(Slot), options : Seq(OptionInU)]
    <3>1. [k \in 1 .. Cardinality(Named(options')) |->
             [kind |-> "empty", value |-> 0]] \in Seq(Slot)
      BY <2>1, <2>2
    <3>2. <<>> \in Seq(OptionInU)
      OBVIOUS
    <3> QED BY <1>3, <3>1, <3>2
  <2>4. argv' \in Seq(Words)
    BY <1>3
  <2>5. TypeOK'
    BY <1>3 DEF BridgeInv, BridgeTypeOK, TypeOK, vars
  <2> QED
    BY <1>1, <1>2, <1>3, <2>3, <2>4, <2>5 DEF BridgeInv, BridgeTypeOK
<1>5. Memory'
  BY <1>3, MemoryStays DEF BridgeInv
<1>6. TableTaken'
  <2>1. ASSUME Supported(options') PROVE Supported(opts)
    BY <1>2, <2>1 DEF Supported
  <2>2. ~ HasArg(Terminator)
    BY DEF HasArg, Terminator
  <2>3. ASSUME at' = "slots", NEW i \in DOMAIN options', HasArg(options'[i])
        PROVE  ValuesOf[options'[i].arg]
                 = IF KindOfType(options'[i].type) = "string"
                   THEN Texts \cup {Null} ELSE Integers32
    <3>1. i \in DOMAIN opts /\ options'[i] = opts[i]
      BY <1>2, <2>2, <2>3
    <3>2. Supported(opts)
      BY <1>3, <2>1, <2>3
    <3> QED BY <2>3, <3>1, <3>2, TableAssumption
  <2>4. at' \in InUse => at' = "slots"
    BY <1>3 DEF InUse
  <2> QED BY <1>3, <2>3, <2>4 DEF TableTaken
<1>7. SlotsHold' /\ OptionsHold' /\ ArgvHolds'
  BY <1>1, <1>2, <1>3 DEF SlotsHold, OptionsHold, ArgvHolds, InUse
<1>8. Phases' /\ ShadowsHold' /\ NoSpuriousAbort'
  BY <1>3 DEF BridgeInv, Phases, ShadowsHold, NoSpuriousAbort, InUse
<1> QED BY <1>4, <1>5, <1>6, <1>7, <1>8 DEF BridgeInv

(* A call that runs out of memory ends in abort. *)
LEMMA OutOfMemoryKeeps == BridgeInv /\ OutOfMemory => BridgeInv'
<1> SUFFICES ASSUME BridgeInv, OutOfMemory
             PROVE  BridgeInv'
  OBVIOUS
<1>1. /\ at \in {"slots", "options", "argv"} /\ at' = "aborted"
      /\ failure' = "memory" /\ context = 0 /\ DOMAIN written = {}
      /\ UNCHANGED <<vars, callVars, buildVars, dest, context, blocks,
                     to_free, text_at, returned, written>>
  BY DEF OutOfMemory, Proceed, BridgeInv, Phases, ShadowsHold
<1>2. BridgeTypeOK'
  BY <1>1 DEF BridgeInv, BridgeTypeOK, TypeOK, vars, callVars, buildVars
<1>3. Memory'
  BY <1>1, MemoryStays DEF BridgeInv
<1>4. TableTaken' /\ SlotsHold' /\ OptionsHold' /\ ArgvHolds'
  BY <1>1 DEF BridgeInv, TableTaken, SlotsHold, OptionsHold, ArgvHolds, InUse,
              callVars, buildVars
<1>5. Phases' /\ ShadowsHold' /\ NoSpuriousAbort'
  BY <1>1 DEF BridgeInv, Phases, ShadowsHold, NoSpuriousAbort, InUse
<1> QED BY <1>2, <1>3, <1>4, <1>5 DEF BridgeInv

(* The kind of a slot is that of its destination, in a table that is taken. *)
LEMMA KindOfDest ==
  ASSUME BridgeTypeOK, TableTaken, at \in InUse, NEW d \in Named(options)
  PROVE  /\ SlotKind(options, d) \in {"string", "integer"}
         /\ ValuesOf[d] = IF SlotKind(options, d) = "string"
                          THEN Texts \cup {Null} ELSE Integers32
<1>1. PICK i \in DOMAIN options : HasArg(options[i]) /\ options[i].arg = d
  BY DEF Named, HasArg
<1>2. SlotKind(options, d) = KindOfType(options[i].type)
  BY <1>1, SlotKindOfOption DEF BridgeTypeOK, TableTaken
<1> QED BY <1>1, <1>2 DEF TableTaken, KindOfType

(* A slot gets the kind and the value of its destination. *)
LEMMA SetSlotKeeps ==
  ASSUME BridgeInv, NEW d \in pending, SetSlot(d)
  PROVE  BridgeInv'
<1> DEFINE k == SlotOf(options, d)
           kind == SlotKind(options, d)
           text == IF kind = "string" THEN dest[d] ELSE Null
           value == IF kind = "string" THEN CopyOf(text) ELSE dest[d]
           slot == [kind |-> kind, value |-> value]
<1>1. /\ at = "slots" /\ CopyToU(text)
      /\ Proceed(~ CopyFails(text), "slots", "full")
      /\ table' = [table EXCEPT !.slots[k] = slot]
      /\ pending' = pending \ {d}
      /\ UNCHANGED <<callVars, dest, argv, context, blocks, to_free,
                     returned, written>>
  BY DEF SetSlot
<1>2. /\ options \in Seq(Option) /\ d \in Named(options) /\ d \in Dests
      /\ pending \subseteq Named(options)
      /\ Supported(options) /\ context = 0
  BY <1>1, NamedOptions DEF BridgeInv, TableTaken, Phases, InUse
<1>3. /\ kind \in {"string", "integer"}
      /\ ValuesOf[d] = IF kind = "string" THEN Texts \cup {Null}
                                          ELSE Integers32
      /\ dest[d] \in ValuesOf[d]
  BY <1>1, <1>2, KindOfDest DEF BridgeInv, BridgeTypeOK, InUse
<1>4. text \in Texts \cup {Null}
  BY <1>3
<1>5. /\ k \in DOMAIN table.slots
      /\ \A e \in Named(options) : e # d => SlotOf(options, e) # k
  BY <1>2, SlotsAreDistinct DEF BridgeInv, SlotsHold
<1> HIDE DEF text
<1>6. /\ Memory' /\ TextsGrow
      /\ DOMAIN text_at' \subseteq Words /\ 0 \notin DOMAIN text_at'
      /\ \A ptr \in DOMAIN text_at' : text_at'[ptr] \in Texts
      /\ CopyOf(text) \in Words
      /\ ~ CopyFails(text) => IsCopy(text_at', CopyOf(text), text)
  BY <1>1, <1>4, CopyKeepsMemory DEF BridgeInv
<1>7. slot \in Slot
  <2>1. value \in Integers32 \cup Words
    BY <1>3, <1>6
  <2> QED BY <1>3, <2>1 DEF Slot
<1>8. slot.kind = kind /\ slot.value = value
  OBVIOUS
<1> HIDE DEF k, kind, value, slot
<1>9. /\ table'.options = table.options
      /\ DOMAIN table'.slots = DOMAIN table.slots
      /\ table'.slots[k] = slot
      /\ \A j \in DOMAIN table.slots : j # k => table'.slots[j] = table.slots[j]
  BY <1>1, <1>5
<1>10. BridgeTypeOK'
  <2>1. table' \in [slots : Seq(Slot), options : Seq(OptionInU)]
    <3>1. table \in [slots : Seq(Slot), options : Seq(OptionInU)]
      BY DEF BridgeInv, BridgeTypeOK
    <3>2. [table.slots EXCEPT ![k] = slot] \in Seq(Slot)
      BY <1>5, <1>7, <3>1
    <3>3. table' = [slots |-> [table.slots EXCEPT ![k] = slot],
                    options |-> table.options]
      BY <1>1, <3>1
    <3> QED BY <3>1, <3>2, <3>3
  <2>2. /\ at' \in {"slots", "aborted"}
        /\ failure' \in {failure, "full"}
        /\ TypeOK'
    BY <1>1, <1>6 DEF Proceed, Memory, Typed
  <2> QED BY <1>1, <1>2, <1>6, <1>9, <2>1, <2>2
          DEF BridgeInv, BridgeTypeOK, callVars
<1>11. ASSUME at' = "slots"
       PROVE  SlotSet(d)' /\ Shadow(d)' = dest[d]
  <2>1. IsCopy(text_at', CopyOf(text), text)
    BY <1>1, <1>6, <1>11 DEF Proceed
  <2>2. SlotOf(options, d)' = k /\ SlotKind(options, d)' = kind
    BY <1>1 DEF callVars, k, kind
  <2>3. CASE kind = "string"
    <3>1. text = dest[d] /\ slot.value = CopyOf(text)
      BY <1>8, <2>3 DEF text, value
    <3>2. /\ slot.value \in DOMAIN text_at' \cup {0}
          /\ (IF slot.value = 0 THEN Null ELSE text_at'[slot.value]) = text
      BY <1>6, <2>1, <3>1 DEF IsCopy
    <3> QED BY <1>8, <1>9, <2>2, <2>3, <3>1, <3>2 DEF SlotSet, Shadow, TextAt
  <2>4. CASE kind # "string"
    <3>1. slot.value = dest[d] /\ dest[d] \in Integers32
      BY <1>3, <1>8, <2>4 DEF value, kind
    <3> QED BY <1>8, <1>9, <2>2, <2>4, <3>1 DEF SlotSet, Shadow
  <2> QED BY <2>3, <2>4
<1>12. ASSUME NEW e \in Named(options), e \notin pending
       PROVE  SlotSet(e)' /\ Shadow(e)' = Shadow(e)
  <2>1. e # d /\ SlotSet(e)
    BY <1>1, <1>12 DEF BridgeInv, SlotsHold, InUse
  <2>2. SlotOf(options, e) \in DOMAIN table.slots
    BY <1>2, SlotsAreDistinct DEF BridgeInv, SlotsHold
  <2>3. table'.slots[SlotOf(options, e)] = table.slots[SlotOf(options, e)]
    BY <1>5, <1>9, <2>1, <2>2
  <2>4. UNCHANGED options
    BY <1>1 DEF callVars
  <2> QED BY <1>6, <2>1, <2>3, <2>4, SlotStays
<1>13. SlotsHold'
  BY <1>1, <1>9, <1>11, <1>12
  DEF BridgeInv, SlotsHold, Proceed, InUse, callVars
<1>14. TableTaken' /\ OptionsHold' /\ ArgvHolds'
  BY <1>1, <1>6, <1>9, TableStaysTaken, OptionsStay, ArgvStays
  DEF BridgeInv, Proceed, InUse, callVars
<1>15. Phases' /\ NoSpuriousAbort'
  BY <1>1, <1>2 DEF BridgeInv, Phases, NoSpuriousAbort, Proceed
<1>16. ShadowsHold'
  <2>1. DOMAIN written = {} /\ DOMAIN written' = {} /\ at' # "parsing"
    BY <1>1 DEF BridgeInv, ShadowsHold, Proceed
  <2>2. ASSUME ~ AssignsMeanwhile, at' = "slots",
               NEW e \in Named(options), e \notin pending \ {d}
        PROVE  Shadow(e)' = dest[e]
    <3>1. CASE e = d
      BY <1>11, <2>2, <3>1
    <3>2. CASE e # d
      BY <1>1, <1>12, <2>1, <2>2, <3>2
      DEF BridgeInv, ShadowsHold, Native_dest, InUse
    <3> QED BY <3>1, <3>2
  <2>3. at' \in InUse => at' = "slots"
    BY <1>1 DEF Proceed, InUse
  <2> QED BY <1>1, <2>1, <2>2, <2>3 DEF ShadowsHold, Native_dest, callVars
<1> QED BY <1>6, <1>10, <1>13, <1>14, <1>15, <1>16 DEF BridgeInv

(* An option gets the number of its slot, which has a kind by then.        *)
LEMMA SetOptionKeeps == BridgeInv /\ SetOption => BridgeInv'
<1> SUFFICES ASSUME BridgeInv, SetOption
             PROVE  BridgeInv'
  OBVIOUS
<1> PICK n : n = Len(table.options)
  OBVIOUS
<1> PICK slot : slot = SlotNumber(options, options[n + 1])
  OBVIOUS
<1> DEFINE new == [slot |-> slot, texts |-> <<>>]
<1>1. /\ at \in {"slots", "options"} /\ pending = {}
      /\ TextsDone /\ n < Len(options)
      /\ Proceed(slot # 0 => table.slots[slot].kind # "empty",
                 "options", "refused")
      /\ table' = [table EXCEPT !.options = Append(@, new)]
      /\ UNCHANGED <<vars, callVars, dest, pending, argv, context, blocks,
                     to_free, text_at, returned, written>>
  BY DEF SetOption, SlotsReady, OptionsDone
<1>2. /\ options \in Seq(Option) /\ Supported(options) /\ context = 0
      /\ table \in [slots : Seq(Slot), options : Seq(OptionInU)]
      /\ n \in Nat /\ n + 1 \in DOMAIN options
  BY <1>1 DEF BridgeInv, TableTaken, Phases, InUse, BridgeTypeOK
<1>3. slot \in DOMAIN table.slots \cup {0} /\ slot \in Nat
  BY <1>2, SlotKindOfOption, SlotsAreDistinct
  DEF SlotNumber, BridgeInv, SlotsHold
<1>4. slot # 0 => table.slots[slot].kind # "empty"
  <2>1. SUFFICES ASSUME slot # 0
                 PROVE  table.slots[slot].kind # "empty"
    OBVIOUS
  <2>2. /\ HasArg(options[n + 1]) /\ slot = SlotOf(options, options[n + 1].arg)
        /\ options[n + 1].arg \in Named(options)
    BY <1>2, <2>1, SlotKindOfOption DEF SlotNumber
  <2>3. SlotSet(options[n + 1].arg)
    BY <1>1, <2>2 DEF BridgeInv, SlotsHold, InUse
  <2> QED BY <2>2, <2>3 DEF SlotSet, SlotKind, KindOfType
<1> HIDE DEF new
<1>5. /\ at' = "options" /\ failure' = failure
      /\ table' \in [slots : Seq(Slot), options : Seq(OptionInU)]
      /\ table'.slots = table.slots
      /\ table'.options = Append(table.options, new)
      /\ new.slot = slot /\ new.texts = <<>>
  <2>1. new \in OptionInU
    BY <1>3 DEF new, OptionInU
  <2>2. Append(table.options, new) \in Seq(OptionInU)
    BY <1>2, <2>1
  <2>3. table' = [slots |-> table.slots, options |-> Append(table.options, new)]
    BY <1>1, <1>2
  <2>4. at' = "options" /\ failure' = failure
    BY <1>1, <1>4 DEF Proceed
  <2>5. new.slot = slot /\ new.texts = <<>>
    BY DEF new
  <2> QED BY <1>2, <2>2, <2>3, <2>4, <2>5
<1>6. /\ Len(table'.options) = n + 1 /\ table'.options[n + 1] = new
      /\ DOMAIN table'.options = 1 .. n + 1
      /\ \A i \in 1 .. n : /\ i \in DOMAIN table.options
                           /\ table'.options[i] = table.options[i]
  BY <1>2, <1>5
<1>7. BridgeTypeOK'
  <2>1. TypeOK'
    BY <1>1 DEF BridgeInv, BridgeTypeOK, TypeOK, vars
  <2> QED BY <1>1, <1>3, <1>5, <1>6, <2>1 DEF BridgeInv, BridgeTypeOK, callVars
<1>8. Memory' /\ TextsGrow
  BY <1>1, MemoryStays DEF BridgeInv
<1>9. OptionsHold'
  <2>1. ASSUME NEW i \in 1 .. n
        PROVE  OptionSet(i)' /\ TextsSet(i)'
    <3>1. OptionSet(i)
      BY <1>1, <1>6 DEF BridgeInv, OptionsHold, InUse
    <3>2. TextsSet(i)
      <4>1. CASE i < n
        BY <1>1, <1>6, <4>1 DEF BridgeInv, OptionsHold, InUse
      <4>2. CASE i = n
        BY <1>1, <1>2, <4>2 DEF TextsDone, OptionsDone, TextsSet
      <4> QED BY <1>2, <4>1, <4>2
    <3> QED BY <1>1, <1>6, <1>8, <3>1, <3>2, OptionStays DEF callVars
  <2>2. OptionSet(n + 1)'
    <3>1. Len(options[n + 1].texts) \in Nat
      BY <1>2, NamedOptions DEF BridgeInv
    <3>3. /\ table'.options[n + 1].slot = slot
          /\ table'.options[n + 1].texts = <<>>
      BY <1>5, <1>6
    <3>4. SlotNumber(options', options'[n + 1]) = slot
      BY <1>1 DEF callVars
    <3>5. options' = options
      BY <1>1 DEF callVars
    <3> QED BY <3>1, <3>3, <3>4, <3>5 DEF OptionSet
  <2> QED BY <1>1, <1>2, <1>5, <1>6, <2>1, <2>2 DEF OptionsHold, callVars
<1>10. TableTaken' /\ SlotsHold' /\ ArgvHolds' /\ ShadowsHold'
  BY <1>1, <1>5, <1>8, TableStaysTaken, SlotsStay, ArgvStays, ShadowsStay
  DEF BridgeInv, InUse, callVars
<1>11. Phases' /\ NoSpuriousAbort'
  BY <1>1, <1>2, <1>5 DEF BridgeInv, Phases, NoSpuriousAbort
<1> QED BY <1>7, <1>8, <1>9, <1>10, <1>11 DEF BridgeInv

(* The next text of the last option. *)
LEMMA CopyOptionTextKeeps == BridgeInv /\ CopyOptionText => BridgeInv'
<1> SUFFICES ASSUME BridgeInv, CopyOptionText
             PROVE  BridgeInv'
  OBVIOUS
<1> PICK n : n = Len(table.options)
  OBVIOUS
<1> DEFINE texts == table.options[n].texts
           text == options[n].texts[Len(texts) + 1]
           ptr == CopyOf(text)
           new == [slot |-> table.options[n].slot,
                   texts |-> Append(texts, ptr)]
<1>1. /\ at = "options" /\ ~ TextsDone
      /\ CopyToU(text)
      /\ Proceed(~ CopyFails(text), "options", "full")
      /\ table' = [table EXCEPT !.options[n].texts = Append(@, ptr)]
      /\ UNCHANGED <<callVars, dest, pending, argv, context, blocks, to_free,
                     returned, written>>
  BY DEF CopyOptionText, OptionsDone
<1>2. /\ options \in Seq(Option) /\ context = 0
      /\ table \in [slots : Seq(Slot), options : Seq(OptionInU)]
      /\ n \in DOMAIN table.options /\ n \in Nat /\ n \in DOMAIN options
      /\ Len(texts) < Len(options[n].texts) /\ Len(texts) \in Nat
      /\ texts \in Seq(Words) /\ options[n].texts \in Seq(Texts \cup {Null})
  <2>1. /\ options \in Seq(Option) /\ context = 0
        /\ table \in [slots : Seq(Slot), options : Seq(OptionInU)]
        /\ n \in Nat /\ n <= Len(options)
    BY <1>1 DEF BridgeInv, Phases, InUse, BridgeTypeOK, OptionsHold
  <2>2. n > 0 /\ Len(texts) # Len(options[n].texts)
    BY <1>1 DEF TextsDone, OptionsDone
  <2>3. n \in DOMAIN table.options /\ n \in DOMAIN options
    BY <2>1, <2>2
  <2>4. table.options[n] \in OptionInU /\ options[n] \in Option
    BY <2>1, <2>3
  <2>5. texts \in Seq(Words) /\ options[n].texts \in Seq(Texts \cup {Null})
    BY <2>4 DEF OptionInU, Option
  <2>6. Len(texts) <= Len(options[n].texts)
    BY <1>1, <2>3 DEF BridgeInv, OptionsHold, OptionSet, InUse
  <2> QED BY <2>1, <2>2, <2>3, <2>5, <2>6
<1>3. text \in Texts \cup {Null}
  BY <1>2
<1> HIDE DEF text
<1>4. /\ Memory' /\ TextsGrow
      /\ DOMAIN text_at' \subseteq Words
      /\ \A p \in DOMAIN text_at' : text_at'[p] \in Texts
      /\ ptr \in Words
      /\ ~ CopyFails(text) => IsCopy(text_at', ptr, text)
  BY <1>1, <1>3, CopyKeepsMemory DEF BridgeInv
<1> HIDE DEF ptr
<1>5. /\ table'.slots = table.slots
      /\ table'.options = [table.options EXCEPT ![n] = new]
      /\ table' \in [slots : Seq(Slot), options : Seq(OptionInU)]
      /\ new.slot = table.options[n].slot /\ new.texts = Append(texts, ptr)
  <2>1. table.options[n] \in OptionInU
    BY <1>2
  <2>2. new \in OptionInU
    <3>1. Append(texts, ptr) \in Seq(Words)
      BY <1>2, <1>4
    <3> QED BY <2>1, <3>1 DEF OptionInU
  <2>3. table'.options = [table.options EXCEPT ![n] = new]
    <3>1. [table.options[n] EXCEPT !.texts = Append(@, ptr)] = new
      <4>1. ASSUME NEW o \in [slot : Nat, texts : Seq(Words)], NEW t
            PROVE  [o EXCEPT !.texts = t] = [slot |-> o.slot, texts |-> t]
        OBVIOUS
      <4> QED BY <2>1, <4>1 DEF OptionInU
    <3>2. table'.options = [table.options EXCEPT
                              ![n].texts = Append(@, ptr)]
      BY <1>1, <1>2
    <3> QED BY <1>2, <3>1, <3>2
  <2>4. table'.options \in Seq(OptionInU)
    BY <1>2, <2>2, <2>3
  <2>5. /\ new.slot = table.options[n].slot /\ new.texts = Append(texts, ptr)
    BY <2>1 DEF OptionInU
  <2>6. table'.slots = table.slots
        /\ table' = [slots |-> table.slots, options |-> table'.options]
    BY <1>1, <1>2
  <2> QED BY <1>2, <2>3, <2>4, <2>5, <2>6
<1> HIDE DEF new
<1>6. /\ Len(table'.options) = n /\ table'.options[n] = new
      /\ DOMAIN table'.options = 1 .. n /\ DOMAIN table.options = 1 .. n
      /\ \A i \in 1 .. n : i # n => table'.options[i] = table.options[i]
  BY <1>2, <1>5
<1>7. BridgeTypeOK'
  <2>1. TypeOK' /\ at' \in {"options", "aborted"}
        /\ failure' \in {failure, "full"}
    BY <1>1, <1>4 DEF Memory, Typed, Proceed
  <2> QED BY <1>1, <1>2, <1>4, <1>5, <1>6, <2>1
          DEF BridgeInv, BridgeTypeOK, callVars
<1>8. OptionsHold'
  <2>1. SUFFICES ASSUME at' = "options"
                 PROVE  OptionsHold'
    BY <1>1 DEF OptionsHold, Proceed, InUse
  <2>2. IsCopy(text_at', ptr, text)
    BY <1>1, <1>4, <2>1 DEF Proceed
  <2>3. options' = options
    BY <1>1 DEF callVars
  <2>4. ASSUME NEW i \in 1 .. n
        PROVE  /\ OptionSet(i)
               /\ i < n => TextsSet(i)
    BY <1>1, <1>6 DEF BridgeInv, OptionsHold, InUse
  <2>5. ASSUME NEW i \in 1 .. n, i # n
        PROVE  OptionSet(i)' /\ (TextsSet(i) => TextsSet(i)')
    BY <1>4, <1>6, <2>3, <2>4, <2>5, OptionStays
  <2>6. OptionSet(n)'
    <3>1. /\ Len(new.texts) = Len(texts) + 1
          /\ Len(new.texts) <= Len(options[n].texts)
          /\ DOMAIN new.texts = 1 .. Len(texts) + 1
          /\ new.texts[Len(texts) + 1] = ptr
          /\ \A j \in 1 .. Len(texts) : new.texts[j] = texts[j]
      BY <1>2, <1>4, <1>5
    <3>2. \A j \in DOMAIN new.texts :
            IsCopy(text_at', new.texts[j], options[n].texts[j])
      <4>1. ASSUME NEW j \in 1 .. Len(texts)
            PROVE  IsCopy(text_at', new.texts[j], options[n].texts[j])
        <5>1. IsCopy(text_at, texts[j], options[n].texts[j])
          BY <1>2, <2>4 DEF OptionSet
        <5> QED BY <1>4, <3>1, <5>1, CopyStays
      <4>2. IsCopy(text_at', new.texts[Len(texts) + 1],
                   options[n].texts[Len(texts) + 1])
        BY <2>2, <3>1 DEF text
      <4>3. \A j \in DOMAIN new.texts :
              j \in 1 .. Len(texts) \/ j = Len(texts) + 1
        BY <1>2, <3>1
      <4> QED BY <4>1, <4>2, <4>3
    <3>3. table.options[n].slot = SlotNumber(options, options[n])
      BY <1>2, <2>4 DEF OptionSet
    <3> QED BY <1>5, <1>6, <2>3, <3>1, <3>2, <3>3 DEF OptionSet
  <2>7. at # "slots" /\ n <= Len(options)
    BY <1>1 DEF BridgeInv, OptionsHold, InUse
  <2> QED BY <1>2, <1>6, <2>1, <2>3, <2>4, <2>5, <2>6, <2>7 DEF OptionsHold
<1>9. pending = {}
  BY <1>1 DEF BridgeInv, SlotsHold, InUse
<1>10. TableTaken' /\ SlotsHold' /\ ArgvHolds' /\ ShadowsHold'
  BY <1>1, <1>4, <1>5, <1>9, TableStaysTaken, SlotsStay, ArgvStays, ShadowsStay
  DEF BridgeInv, InUse, callVars, Proceed
<1>11. Phases' /\ NoSpuriousAbort'
  BY <1>1, <1>2 DEF BridgeInv, Phases, NoSpuriousAbort, Proceed
<1> QED BY <1>4, <1>7, <1>8, <1>10, <1>11 DEF BridgeInv

(* A new argv is empty. *)
LEMMA NewArgvKeeps == BridgeInv /\ NewArgv => BridgeInv'
<1> SUFFICES ASSUME BridgeInv, NewArgv
             PROVE  BridgeInv'
  OBVIOUS
<1>1. /\ at = "options" /\ TextsDone /\ OptionsDone = Len(options)
      /\ at' = "argv" /\ failure' = failure
      /\ blocks' = blocks \cup {"argv"}
      /\ context = 0 /\ "table" \in blocks
      /\ UNCHANGED <<vars, callVars, buildVars, dest, context, to_free,
                     text_at, returned, written>>
  BY DEF NewArgv, Proceed, BridgeInv, Phases
<1>2. /\ table \in [slots : Seq(Slot), options : Seq(OptionInU)]
      /\ options \in Seq(Option) /\ pending = {}
  BY <1>1 DEF BridgeInv, BridgeTypeOK, SlotsHold, InUse
<1>3. BridgeTypeOK'
  BY <1>1 DEF BridgeInv, BridgeTypeOK, TypeOK, vars, callVars, buildVars
<1>4. Memory' /\ TextsGrow
  BY <1>1, MemoryStays DEF BridgeInv
<1>5. /\ Len(table.options) = Len(options)
      /\ \A i \in DOMAIN table.options : TextsSet(i)
  <2>1. \A i \in DOMAIN table.options : i < Len(table.options) => TextsSet(i)
    BY <1>1 DEF BridgeInv, OptionsHold, InUse
  <2>2. Len(table.options) > 0 => TextsSet(Len(table.options))
    BY <1>1 DEF TextsDone, OptionsDone, TextsSet
  <2> QED BY <1>1, <1>2, <2>1, <2>2 DEF OptionsDone
<1>6. TableTaken' /\ SlotsHold' /\ OptionsHold' /\ ArgvHolds' /\ ShadowsHold'
  BY <1>1, <1>2, <1>4, <1>5, TableStaysTaken, SlotsStay, OptionsStay,
     ArgvStays, ShadowsStay
  DEF BridgeInv, InUse, callVars, buildVars
<1>7. Phases' /\ NoSpuriousAbort'
  BY <1>1 DEF BridgeInv, BridgeTypeOK, Phases, NoSpuriousAbort
<1> QED BY <1>3, <1>4, <1>6, <1>7 DEF BridgeInv

(* One more argument of argv is copied. *)
LEMMA CopyArgumentKeeps == BridgeInv /\ CopyArgument => BridgeInv'
<1> SUFFICES ASSUME BridgeInv, CopyArgument
             PROVE  BridgeInv'
  OBVIOUS
<1> PICK n : n = Len(argv)
  OBVIOUS
<1> PICK text : text = args[n + 1]
  OBVIOUS
<1> PICK ptr : ptr = CopyOf(text)
  OBVIOUS
<1>1. /\ at = "argv" /\ n < Len(args)
      /\ CopyToU(text)
      /\ Proceed(~ CopyFails(text), "argv", "full")
      /\ argv' = Append(argv, ptr)
      /\ UNCHANGED <<callVars, dest, pending, table, context, blocks, to_free,
                     returned, written>>
  BY DEF CopyArgument
<1>2. /\ args \in Seq(Texts) /\ argv \in Seq(Words) /\ n \in Nat
      /\ text \in Texts /\ context = 0 /\ blocks = {"table", "argv"}
      /\ pending = {}
  BY <1>1 DEF BridgeInv, BridgeTypeOK, Phases, SlotsHold, InUse
<1>3. /\ Memory' /\ TextsGrow
      /\ DOMAIN text_at' \subseteq Words
      /\ \A p \in DOMAIN text_at' : text_at'[p] \in Texts
      /\ ptr \in Words
      /\ ~ CopyFails(text) => IsCopy(text_at', ptr, text)
  BY <1>1, <1>2, CopyKeepsMemory DEF BridgeInv
<1>4. /\ argv' \in Seq(Words) /\ Len(argv') = n + 1 /\ argv'[n + 1] = ptr
      /\ DOMAIN argv' = 1 .. n + 1 /\ DOMAIN argv = 1 .. n
      /\ \A i \in 1 .. n : argv'[i] = argv[i]
  BY <1>1, <1>2, <1>3
<1>5. /\ at' \in {"argv", "aborted"} /\ failure' \in {failure, "full"}
      /\ at' = "argv" => ~ CopyFails(text)
  BY <1>1 DEF Proceed
<1>6. BridgeTypeOK'
  BY <1>1, <1>3, <1>4, <1>5 DEF BridgeInv, BridgeTypeOK, callVars, Memory, Typed
<1>7. ArgvHolds'
  <2>1. SUFFICES ASSUME at' = "argv"
                 PROVE  ArgvHolds'
    BY <1>5 DEF ArgvHolds, InUse
  <2>2. \A i \in 1 .. n : IsCopy(text_at', argv'[i], args[i])
    BY <1>1, <1>3, <1>4, CopyStays DEF BridgeInv, ArgvHolds, InUse
  <2>3. IsCopy(text_at', argv'[n + 1], args[n + 1])
    BY <1>3, <1>4, <1>5, <2>1
  <2>4. \A i \in DOMAIN argv' : i \in 1 .. n \/ i = n + 1
    BY <1>2, <1>4
  <2> QED BY <1>1, <1>2, <1>4, <2>1, <2>2, <2>3, <2>4 DEF ArgvHolds, callVars
<1>8. TableTaken' /\ SlotsHold' /\ OptionsHold' /\ ShadowsHold'
  BY <1>1, <1>2, <1>3, <1>5, TableStaysTaken, SlotsStay, OptionsStay, ShadowsStay
  DEF BridgeInv, InUse, callVars
<1>9. Phases' /\ NoSpuriousAbort'
  BY <1>1, <1>2, <1>5 DEF BridgeInv, Phases, NoSpuriousAbort
<1> QED BY <1>3, <1>6, <1>7, <1>8, <1>9 DEF BridgeInv

(* The name of the context is copied last. *)
LEMMA CopyNameKeeps == BridgeInv /\ CopyName => BridgeInv'
<1> SUFFICES ASSUME BridgeInv, CopyName
             PROVE  BridgeInv'
  OBVIOUS
<1>1. /\ at = "argv" /\ Len(argv) = Len(args)
      /\ CopyToU(Name)
      /\ at' \in {"context", "aborted"} /\ failure' \in {failure, "full"}
      /\ UNCHANGED <<callVars, buildVars, dest, context, blocks, to_free,
                     returned, written>>
  BY DEF CopyName, Proceed
<1>2. /\ context = 0 /\ blocks = {"table", "argv"} /\ pending = {}
  BY <1>1 DEF BridgeInv, BridgeTypeOK, Phases, SlotsHold, InUse
<1>3. /\ Memory' /\ TextsGrow
      /\ DOMAIN text_at' \subseteq Words
      /\ \A p \in DOMAIN text_at' : text_at'[p] \in Texts
  BY <1>1, BridgeAssumption, CopyKeepsMemory DEF BridgeInv
<1>4. BridgeTypeOK'
  BY <1>1, <1>3 DEF BridgeInv, BridgeTypeOK, callVars, buildVars, Memory, Typed
<1>5. TableTaken' /\ SlotsHold' /\ OptionsHold' /\ ArgvHolds' /\ ShadowsHold'
  BY <1>1, <1>2, <1>3, TableStaysTaken, SlotsStay, OptionsStay, ArgvStays,
     ShadowsStay
  DEF BridgeInv, InUse, callVars, buildVars
<1>6. Phases' /\ NoSpuriousAbort'
  BY <1>1, <1>2 DEF BridgeInv, Phases, NoSpuriousAbort
<1> QED BY <1>3, <1>4, <1>5, <1>6 DEF BridgeInv

(* popt's context is an object of its own. *)
LEMMA NewContextKeeps == BridgeInv /\ NewContext => BridgeInv'
<1> SUFFICES ASSUME BridgeInv, NewContext
             PROVE  BridgeInv'
  OBVIOUS
<1>1. /\ at = "context" /\ failure' = failure
      /\ at' = IF CanAllocate(ContextSize) THEN "live" ELSE "idle"
      /\ IF CanAllocate(ContextSize)
         THEN AllocateFromSite(ContextSize, ContextSite) /\ context' = NextBase
         ELSE UNCHANGED <<vars, context>>
      /\ UNCHANGED <<callVars, buildVars, dest, blocks, to_free, text_at,
                     returned, written>>
  BY DEF NewContext, Proceed, AllocateFromSite, AllocateWithHash
<1>2. /\ context = 0 /\ blocks = {"table", "argv"} /\ pending = {}
  BY <1>1 DEF BridgeInv, BridgeTypeOK, Phases, SlotsHold, InUse
<1>3. /\ Memory' /\ TextsGrow /\ context' \in Words
      /\ at' = "live" <=> context' # 0
  <2>1. CASE ~ CanAllocate(ContextSize)
    BY <1>1, <1>2, <2>1, MemoryStays, WordAssumption DEF BridgeInv, Words
  <2>2. CASE CanAllocate(ContextSize)
    <3>1. /\ Typed' /\ BelowBump' /\ LiveDisjoint' /\ Bound'
          /\ NextBase \in Words /\ NextBase # 0
          /\ \A o \in allocations : o \in allocations' /\ o.base < NextBase
          /\ \E o \in allocations' : o.base = NextBase
      BY <1>1, <2>2, BridgeAssumption, AllocationStep DEF BridgeInv
    <3>2. \A o \in allocations : o.base \in Nat
      BY WordAssumption
      DEF BridgeInv, Memory, Typed, TypeOK, Allocation, Words
    <3>3. NextBase \notin DOMAIN text_at
      BY <3>1, <3>2 DEF BridgeInv, Memory, TextsLive, IsText
    <3>4. TextsLive' /\ TextsGrow
      BY <1>1, <3>1 DEF BridgeInv, Memory, TextsLive, IsText, TextsGrow
    <3>5. ContextLive'
      BY <1>1, <2>2, <3>1, <3>3 DEF ContextLive
    <3> QED BY <1>1, <2>2, <3>1, <3>4, <3>5 DEF Memory
  <2> QED BY <2>1, <2>2
<1>4. BridgeTypeOK'
  BY <1>1, <1>3 DEF BridgeInv, BridgeTypeOK, callVars, buildVars, Memory, Typed
<1>5. TableTaken' /\ SlotsHold' /\ OptionsHold' /\ ArgvHolds' /\ ShadowsHold'
  <2>1. Len(argv) = Len(args)
    BY <1>1 DEF BridgeInv, ArgvHolds, InUse
  <2>2. OptionsHold'
    BY <1>1, <1>3, OptionsStay DEF BridgeInv, InUse, callVars, buildVars
  <2> QED
    BY <1>1, <1>2, <1>3, <2>1, <2>2, TableStaysTaken, SlotsStay, ArgvStays,
       ShadowsStay
    DEF BridgeInv, InUse, callVars, buildVars
<1>6. Phases' /\ NoSpuriousAbort'
  BY <1>1, <1>2, <1>3 DEF BridgeInv, Phases, NoSpuriousAbort
<1> QED BY <1>3, <1>4, <1>5, <1>6 DEF BridgeInv

-----------------------------------------------------------------------------
(* Using a context. *)

(* popt stores the value of one option, in its slot. *)
LEMMA CallNextKeeps == BridgeInv /\ CallNext => BridgeInv'
<1> SUFFICES ASSUME BridgeInv, CallNext
             PROVE  BridgeInv'
  OBVIOUS
<1>1. /\ at = "live" /\ at' = "parsing" /\ failure' = failure
      /\ UNCHANGED <<vars, callVars, buildVars, dest, context, blocks, to_free,
                     text_at, returned, written>>
  BY DEF CallNext, Proceed
<1>2. pending = {} /\ Len(argv) = Len(args)
  BY <1>1 DEF BridgeInv, SlotsHold, ArgvHolds, InUse
<1>3. BridgeTypeOK'
  BY <1>1 DEF BridgeInv, BridgeTypeOK, TypeOK, vars, callVars, buildVars
<1>4. Memory' /\ TextsGrow
  BY <1>1, MemoryStays DEF BridgeInv
<1>5. TableTaken' /\ SlotsHold' /\ OptionsHold' /\ ArgvHolds' /\ ShadowsHold'
  BY <1>1, <1>2, <1>4, TableStaysTaken, SlotsStay, OptionsStay, ArgvStays,
     ShadowsStay
  DEF BridgeInv, InUse, callVars, buildVars
<1>6. Phases' /\ NoSpuriousAbort'
  BY <1>1 DEF BridgeInv, Phases, NoSpuriousAbort
<1> QED BY <1>3, <1>4, <1>5, <1>6 DEF BridgeInv

(* popt stores into the slot of the option's own destination. *)
LEMMA StoreKeeps ==
  ASSUME BridgeInv, NEW i \in DOMAIN options, NEW value, Store(i, value)
  PROVE  BridgeInv'
<1> PICK d : d = options[i].arg
  OBVIOUS
<1> PICK k : k = SlotOf(options, d)
  OBVIOUS
<1>1. /\ at = "parsing" /\ HasArg(options[i])
      /\ value \in ValuesOf[d] \ {Null}
      /\ written' = Put(written, d, value)
      /\ UNCHANGED <<callVars, pending, argv, dest, at, context, blocks,
                     to_free, returned, failure>>
  BY DEF Store
<1>2. /\ options \in Seq(Option) /\ Supported(options) /\ pending = {}
      /\ table \in [slots : Seq(Slot), options : Seq(OptionInU)]
      /\ at \in InUse
  BY <1>1 DEF BridgeInv, BridgeTypeOK, TableTaken, SlotsHold, InUse
<1>3. /\ d \in Named(options) /\ d \in Dests
      /\ SlotKind(options, d) = KindOfType(options[i].type)
      /\ k \in DOMAIN table.slots /\ SlotSet(d)
      /\ \A e \in Named(options) : e # d => SlotOf(options, e) # k
  BY <1>1, <1>2, SlotKindOfOption, SlotsAreDistinct DEF BridgeInv, SlotsHold
<1>4. /\ table.options[i].slot = k
      /\ table.slots[k].kind = SlotKind(options, d)
  <2>1. i \in DOMAIN table.options
    BY <1>1, <1>2 DEF BridgeInv, OptionsHold, InUse
  <2> QED BY <1>1, <1>2, <1>3, <2>1
          DEF BridgeInv, OptionsHold, OptionSet, SlotNumber, SlotSet
<1> PICK stored : stored = IF options[i].type = "string" THEN CopyOf(value)
                                                         ELSE value
  OBVIOUS
<1>5. table' = [table EXCEPT !.slots[k].value = stored]
  BY <1>4 DEF Store
<1>6. /\ Memory' /\ TextsGrow
      /\ DOMAIN text_at' \subseteq Words
      /\ \A ptr \in DOMAIN text_at' : text_at'[ptr] \in Texts
      /\ IF SlotKind(options, d) = "string"
         THEN IsCopy(text_at', stored, value) /\ value \in Texts
              /\ stored \in Words /\ 0 \notin DOMAIN text_at'
         ELSE stored = value /\ value \in Integers32
  <2>1. ValuesOf[d] = IF SlotKind(options, d) = "string"
                      THEN Texts \cup {Null} ELSE Integers32
    BY <1>2, <1>3, KindOfDest DEF BridgeInv
  <2>2. CASE options[i].type = "string"
    <3>1. SlotKind(options, d) = "string" /\ value \in Texts
      BY <1>1, <1>3, <2>1, <2>2 DEF KindOfType
    <3>2. CopyToU(value) /\ ~ CopyFails(value)
      BY <2>2 DEF Store, CopyFails
    <3> QED BY <1>1, <2>2, <3>1, <3>2, CopyKeepsMemory DEF BridgeInv
  <2>3. CASE options[i].type # "string"
    <3>1. SlotKind(options, d) = "integer" /\ value \in Integers32
      BY <1>1, <1>3, <2>1, <2>3 DEF KindOfType
    <3>2. UNCHANGED <<vars, text_at, context>>
      BY <1>1, <2>3 DEF Store
    <3> QED BY <2>3, <3>1, <3>2, MemoryStays DEF BridgeInv, BridgeTypeOK
  <2> QED BY <2>2, <2>3
<1> PICK slot : slot = [kind |-> table.slots[k].kind, value |-> stored]
  OBVIOUS
<1>7. /\ slot \in Slot /\ slot.kind = SlotKind(options, d)
      /\ slot.value = stored
      /\ table' = [slots |-> [table.slots EXCEPT ![k] = slot],
                   options |-> table.options]
  <2>1. table.slots[k] \in Slot
    BY <1>2, <1>3
  <2>2. stored \in Integers32 \cup Words
    BY <1>6
  <2>3. slot \in Slot
    BY <2>1, <2>2 DEF Slot
  <2>4. [table.slots[k] EXCEPT !.value = stored] = slot
    <3>1. ASSUME NEW o \in [kind : {"empty", "integer", "string"},
                            value : Integers32 \cup Words]
          PROVE  [o EXCEPT !.value = stored]
                   = [kind |-> o.kind, value |-> stored]
      OBVIOUS
    <3> QED BY <2>1, <3>1 DEF Slot
  <2>5. table' = [slots |-> [table.slots EXCEPT ![k].value = stored],
                  options |-> table.options]
    BY <1>2, <1>5
  <2>6. [table.slots EXCEPT ![k].value = stored]
          = [table.slots EXCEPT ![k] = slot]
    BY <1>2, <1>3, <2>4
  <2> QED BY <1>4, <2>3, <2>5, <2>6
<1>8. /\ table'.options = table.options
      /\ table' \in [slots : Seq(Slot), options : Seq(OptionInU)]
      /\ DOMAIN table'.slots = DOMAIN table.slots
      /\ table'.slots[k] = slot
      /\ \A j \in DOMAIN table.slots : j # k => table'.slots[j] = table.slots[j]
  BY <1>2, <1>3, <1>7
<1>9. /\ DOMAIN written' = DOMAIN written \cup {d} /\ written'[d] = value
      /\ \A e \in DOMAIN written : e # d => written'[e] = written[e]
  BY <1>1 DEF Put
<1>10. BridgeTypeOK'
  BY <1>1, <1>3, <1>6, <1>8, <1>9 DEF BridgeInv, BridgeTypeOK, callVars, Memory, Typed
<1>11. SlotSet(d)' /\ Shadow(d)' = value
  <2>1. SlotOf(options, d)' = k /\ SlotKind(options, d)' = SlotKind(options, d)
    BY <1>1 DEF callVars
  <2>2. CASE SlotKind(options, d) = "string"
    <3>1. stored \in DOMAIN text_at' /\ stored # 0 /\ text_at'[stored] = value
      BY <1>1, <1>6, <2>2 DEF IsCopy
    <3> QED BY <1>7, <1>8, <2>1, <2>2, <3>1 DEF SlotSet, Shadow, TextAt
  <2>3. CASE SlotKind(options, d) # "string"
    BY <1>6, <1>7, <1>8, <2>1, <2>3 DEF SlotSet, Shadow
  <2> QED BY <2>2, <2>3
<1>12. ASSUME NEW e \in Named(options), e # d
       PROVE  /\ SlotSet(e)' /\ Shadow(e)' = Shadow(e)
              /\ Native_dest(e)' = Native_dest(e)
  <2>1. SlotSet(e) /\ SlotOf(options, e) \in DOMAIN table.slots
    BY <1>2, <1>12, SlotsAreDistinct DEF BridgeInv, SlotsHold
  <2>2. table'.slots[SlotOf(options, e)] = table.slots[SlotOf(options, e)]
    BY <1>3, <1>8, <1>12, <2>1
  <2>3. UNCHANGED options
    BY <1>1 DEF callVars
  <2>4. Native_dest(e)' = Native_dest(e)
    BY <1>1, <1>9, <1>12 DEF Native_dest
  <2> QED BY <1>6, <2>1, <2>2, <2>3, <2>4, SlotStays
<1>13. SlotsHold'
  BY <1>1, <1>2, <1>8, <1>11, <1>12 DEF BridgeInv, SlotsHold, callVars
<1>14. ShadowsHold'
  <2>1. Native_dest(d)' = value
    BY <1>9 DEF Native_dest
  <2> QED
    BY <1>1, <1>2, <1>3, <1>9, <1>11, <1>12, <2>1
    DEF BridgeInv, ShadowsHold, callVars
<1>15. TableTaken' /\ OptionsHold' /\ ArgvHolds'
  <2>1. Len(argv) = Len(args)
    BY <1>1 DEF BridgeInv, ArgvHolds, InUse
  <2> QED
    BY <1>1, <1>2, <1>6, <1>8, <2>1, TableStaysTaken, OptionsStay, ArgvStays
    DEF BridgeInv, InUse, callVars
<1>16. Phases' /\ NoSpuriousAbort'
  BY <1>1 DEF BridgeInv, Phases, NoSpuriousAbort
<1> QED BY <1>6, <1>10, <1>13, <1>14, <1>15, <1>16 DEF BridgeInv

(* copy_checked takes what is in a slot of the string kind, and what is    *)
(* copied back is what the application expects of its variable.            *)
LEMMA SlotsAreAccepted ==
  ASSUME BridgeInv, at = "parsing", NEW d \in Named(options)
  PROVE  /\ SlotKind(options, d) = "string"
              => Accepted(table.slots[SlotOf(options, d)].value)
         /\ Shadow(d) \in ValuesOf[d]
         /\ d \in Dests
<1>1. at \in InUse /\ SlotSet(d)
  BY DEF BridgeInv, SlotsHold, InUse
<1>2. d \in Dests
  BY NamedOptions DEF BridgeInv
<1>3. ValuesOf[d] = IF SlotKind(options, d) = "string"
                    THEN Texts \cup {Null} ELSE Integers32
  BY <1>1, KindOfDest DEF BridgeInv
<1>4. CASE SlotKind(options, d) = "string"
  <2> PICK value : value = table.slots[SlotOf(options, d)].value
    OBVIOUS
  <2>1. value = 0 \/ value \in DOMAIN text_at
    BY <1>1, <1>4 DEF SlotSet
  <2>2. Accepted(value)
    BY <2>1, TextsAreAccepted DEF Accepted, BridgeInv
  <2>3. TextAt(value) \in Texts \cup {Null}
    BY <2>1 DEF TextAt, BridgeInv, BridgeTypeOK
  <2> QED BY <1>2, <1>3, <1>4, <2>2, <2>3 DEF Shadow
<1>5. CASE SlotKind(options, d) # "string"
  BY <1>1, <1>2, <1>3, <1>5 DEF SlotSet, Shadow
<1> QED BY <1>4, <1>5

(* sync_slots never fails, and copies back what Shadow says. *)
LEMMA SyncSlotsCopies ==
  ASSUME BridgeInv, SyncSlots
  PROVE  /\ at' = "live" /\ failure' = failure
         /\ dest' = [d \in Dests |-> IF d \in Named(options) THEN Shadow(d)
                                                             ELSE dest[d]]
         /\ DOMAIN written' = {}
<1> DEFINE ok == \A d \in Named(options) :
                   SlotKind(options, d) = "string" =>
                     Accepted(table.slots[SlotOf(options, d)].value)
           back == [d \in Dests |->
                      IF d \in Named(options)
                      THEN IF SlotKind(options, d) = "string"
                           THEN TextAt(table.slots[SlotOf(options, d)].value)
                           ELSE table.slots[SlotOf(options, d)].value
                      ELSE dest[d]]
<1>1. at = "parsing"
  BY DEF SyncSlots
<1>2. ok
  BY <1>1, SlotsAreAccepted
<1>3. /\ Proceed(ok, "live", "rejected")
      /\ dest' = IF ok THEN back ELSE dest
      /\ written' = IF ok THEN <<>> ELSE written
  BY DEF SyncSlots
<1>4. back = [d \in Dests |-> IF d \in Named(options) THEN Shadow(d)
                                                      ELSE dest[d]]
  BY DEF Shadow
<1> HIDE DEF ok, back
<1> QED BY <1>2, <1>3, <1>4 DEF Proceed

(* All slots are copied back: what popt has not stored is what the         *)
(* application has.                                                        *)
LEMMA SyncSlotsKeeps == BridgeInv /\ SyncSlots => BridgeInv'
<1> SUFFICES ASSUME BridgeInv, SyncSlots
             PROVE  BridgeInv'
  OBVIOUS
<1>1. /\ at = "parsing" /\ at' = "live" /\ failure' = failure
      /\ dest' = [d \in Dests |-> IF d \in Named(options) THEN Shadow(d)
                                                          ELSE dest[d]]
      /\ DOMAIN written' = {}
  BY SyncSlotsCopies DEF SyncSlots
<1>2. UNCHANGED <<vars, callVars, buildVars, context, blocks, to_free,
                  text_at, returned>>
  BY DEF SyncSlots
<1>3. pending = {} /\ Len(argv) = Len(args)
  BY <1>1 DEF BridgeInv, SlotsHold, ArgvHolds, InUse
<1>4. BridgeTypeOK'
  <2>1. DOMAIN dest' = Dests /\ \A d \in Dests : dest'[d] \in ValuesOf[d]
    BY <1>1, SlotsAreAccepted DEF BridgeInv, BridgeTypeOK
  <2> QED
    BY <1>1, <1>2, <2>1
    DEF BridgeInv, BridgeTypeOK, TypeOK, vars, callVars, buildVars
<1>5. Memory' /\ TextsGrow
  BY <1>2, MemoryStays DEF BridgeInv
<1>6. TableTaken' /\ SlotsHold' /\ OptionsHold' /\ ArgvHolds'
  BY <1>1, <1>2, <1>3, <1>5, TableStaysTaken, SlotsStay, OptionsStay, ArgvStays
  DEF BridgeInv, InUse, callVars, buildVars
<1>7. ShadowsHold'
  <2>1. ASSUME NEW d \in Named(options)
        PROVE  Shadow(d)' = dest'[d]
    <3>1. d \in Dests
      BY <1>1, SlotsAreAccepted
    <3>2. Shadow(d)' = Shadow(d)
      BY <1>2 DEF Shadow, TextAt, callVars, buildVars
    <3> QED BY <1>1, <3>1, <3>2
  <2> QED BY <1>1, <1>2, <2>1 DEF ShadowsHold, Native_dest, callVars
<1>8. Phases' /\ NoSpuriousAbort'
  BY <1>1, <1>2 DEF BridgeInv, Phases, NoSpuriousAbort
<1> QED BY <1>4, <1>5, <1>6, <1>7, <1>8 DEF BridgeInv

(* The strings that popt hands out are among those that it was given.      *)
LEMMA GetArgsKeeps ==
  ASSUME BridgeInv, NEW kept \in Leftovers, GetArgs(kept)
  PROVE  BridgeInv'
<1> DEFINE ok == \A i \in DOMAIN kept :
                   argv[kept[i]] # 0 /\ Accepted(argv[kept[i]])
<1>1. /\ at = "live" /\ Proceed(ok, "live", "rejected")
      /\ returned' = IF ok THEN [i \in DOMAIN kept |-> TextAt(argv[kept[i]])]
                     ELSE returned
      /\ UNCHANGED <<vars, callVars, buildVars, dest, context, blocks, to_free,
                     text_at, written>>
  BY DEF GetArgs
<1>2. PICK n \in DOMAIN argv : kept \in [1 .. n -> DOMAIN argv]
  BY DEF Leftovers
<1>3. /\ argv \in Seq(Words) /\ args \in Seq(Texts)
      /\ pending = {} /\ Len(argv) = Len(args)
  BY <1>1 DEF BridgeInv, BridgeTypeOK, SlotsHold, ArgvHolds, InUse
<1>4. ASSUME NEW i \in DOMAIN kept
      PROVE  /\ argv[kept[i]] # 0 /\ Accepted(argv[kept[i]])
             /\ TextAt(argv[kept[i]]) \in Texts
  <2>1. /\ kept[i] \in DOMAIN argv /\ kept[i] \in DOMAIN args
        /\ args[kept[i]] \in Texts
    BY <1>2, <1>3
  <2>2. argv[kept[i]] \in DOMAIN text_at
    BY <1>1, <2>1, BridgeAssumption DEF BridgeInv, ArgvHolds, IsCopy, InUse
  <2>3. 0 \notin DOMAIN text_at
    BY NoTextAtZero DEF BridgeInv, Memory
  <2> QED BY <2>2, <2>3, TextsAreAccepted
          DEF TextAt, BridgeInv, BridgeTypeOK
<1>5. at' = "live" /\ failure' = failure
  BY <1>1, <1>4 DEF Proceed
<1>6. returned' \in Seq(Texts)
  <2>1. n \in Nat /\ DOMAIN kept = 1 .. n
    BY <1>2, <1>3
  <2>2. returned' = [i \in 1 .. n |-> TextAt(argv[kept[i]])]
    BY <1>1, <1>4, <2>1
  <2> QED BY <1>4, <2>1, <2>2
<1> HIDE DEF ok
<1>7. BridgeTypeOK'
  BY <1>1, <1>5, <1>6
  DEF BridgeInv, BridgeTypeOK, TypeOK, vars, callVars, buildVars
<1>8. Memory' /\ TextsGrow
  BY <1>1, MemoryStays DEF BridgeInv
<1>9. TableTaken' /\ SlotsHold' /\ OptionsHold' /\ ArgvHolds' /\ ShadowsHold'
  BY <1>1, <1>3, <1>5, <1>8, TableStaysTaken, SlotsStay, OptionsStay, ArgvStays,
     ShadowsStay
  DEF BridgeInv, InUse, callVars, buildVars
<1>10. Phases' /\ NoSpuriousAbort'
  BY <1>1, <1>5 DEF BridgeInv, Phases, NoSpuriousAbort
<1> QED BY <1>7, <1>8, <1>9, <1>10 DEF BridgeInv

(* A string that popt returns is checked and copied to T; nothing of the   *)
(* tables changes.                                                         *)
LEMMA GetStringKeeps ==
  ASSUME BridgeInv, NEW ptr \in DOMAIN text_at, GetString(ptr)
  PROVE  BridgeInv' /\ at' = at
<1>1. /\ at = "live" /\ at' = "live" /\ failure' = failure
      /\ UNCHANGED <<vars, callVars, buildVars, dest, context, blocks, to_free,
                     text_at, returned, written>>
  BY TextsAreAccepted DEF GetString, Proceed, BridgeInv
<1>2. pending = {} /\ Len(argv) = Len(args)
  BY <1>1 DEF BridgeInv, SlotsHold, ArgvHolds, InUse
<1>3. BridgeTypeOK'
  BY <1>1 DEF BridgeInv, BridgeTypeOK, TypeOK, vars, callVars, buildVars
<1>4. Memory' /\ TextsGrow
  BY <1>1, MemoryStays DEF BridgeInv
<1>5. TableTaken' /\ SlotsHold' /\ OptionsHold' /\ ArgvHolds' /\ ShadowsHold'
  BY <1>1, <1>2, <1>4, TableStaysTaken, SlotsStay, OptionsStay, ArgvStays,
     ShadowsStay
  DEF BridgeInv, InUse, callVars, buildVars
<1>6. Phases' /\ NoSpuriousAbort'
  BY <1>1 DEF BridgeInv, Phases, NoSpuriousAbort
<1> QED BY <1>1, <1>3, <1>4, <1>5, <1>6 DEF BridgeInv

(* The context is the only object that is released. *)
LEMMA FreeContextKeeps == BridgeInv /\ FreeContext => BridgeInv'
<1> SUFFICES ASSUME BridgeInv, FreeContext
             PROVE  BridgeInv'
  OBVIOUS
<1>1. /\ at = "live" /\ at' = "freeing" /\ failure' = failure
      /\ to_free' = FreeOrder
      /\ UNCHANGED <<vars, callVars, buildVars, dest, context, blocks,
                     text_at, returned, written>>
  BY DEF FreeContext, Proceed
<1>2. pending = {} /\ Len(argv) = Len(args)
  BY <1>1 DEF BridgeInv, SlotsHold, ArgvHolds, InUse
<1>3. BridgeTypeOK'
  BY <1>1
  DEF BridgeInv, BridgeTypeOK, TypeOK, vars, callVars, buildVars, FreeOrder
<1>4. Memory' /\ TextsGrow
  BY <1>1, MemoryStays DEF BridgeInv
<1>5. TableTaken' /\ SlotsHold' /\ OptionsHold' /\ ArgvHolds' /\ ShadowsHold'
  BY <1>1, <1>2, <1>4, TableStaysTaken, SlotsStay, OptionsStay, ArgvStays,
     ShadowsStay
  DEF BridgeInv, InUse, callVars, buildVars
<1>6. Phases' /\ NoSpuriousAbort'
  BY <1>1 DEF BridgeInv, Phases, NoSpuriousAbort, FreeOrder
<1> QED BY <1>3, <1>4, <1>5, <1>6 DEF BridgeInv

(* Only the context is released, and it is gone before its tables.         *)
LEMMA FreeNextKeeps == BridgeInv /\ FreeNext => BridgeInv'
<1> SUFFICES ASSUME BridgeInv, FreeNext
             PROVE  BridgeInv'
  OBVIOUS
<1>1. /\ at = "freeing" /\ failure' = failure
      /\ at' = IF Len(to_free) = 1 THEN "idle" ELSE "freeing"
      /\ to_free' = Tail(to_free) /\ to_free # <<>>
      /\ IF Head(to_free) = "context"
         THEN Release(context) /\ context' = 0 /\ UNCHANGED blocks
         ELSE blocks' = blocks \ {Head(to_free)} /\ UNCHANGED <<vars, context>>
      /\ returned' = <<>>
      /\ UNCHANGED <<callVars, buildVars, dest, text_at, written>>
  BY DEF FreeNext, Proceed, BridgeInv, Phases
<1>2. /\ pending = {} /\ Len(argv) = Len(args) /\ context \in Words
      /\ to_free \in Seq({"context", "table", "argv"})
  BY <1>1 DEF BridgeInv, BridgeTypeOK, SlotsHold, ArgvHolds, InUse
<1>3. context' = 0
  <2>1. context # 0 => Head(to_free) = "context"
    BY <1>1 DEF BridgeInv, Phases, FreeOrder
  <2> QED BY <1>1, <2>1
<1>4. Memory' /\ TextsGrow
  <2>1. CASE Head(to_free) # "context"
    BY <1>1, <2>1, MemoryStays DEF BridgeInv
  <2>2. CASE Head(to_free) = "context"
    <3>1. PICK a \in AllocationAt(context) : Erase(a)
      BY <1>1, <2>2 DEF Release
    <3>2. [Next]_vars
      BY <1>1, <1>2, <2>2 DEF Next
    <3>3. Typed' /\ BelowBump' /\ LiveDisjoint'
      BY <3>2, TypedStep, LayoutStep DEF BridgeInv, Memory
    <3>4. context \notin DOMAIN text_at
      BY NoTextAtZero DEF BridgeInv, Memory, ContextLive
    <3>5. ASSUME NEW ptr \in DOMAIN text_at
          PROVE  \E o \in allocations' : IsText(o, ptr)'
      <4>1. PICK o \in allocations : IsText(o, ptr)
        BY DEF BridgeInv, Memory, TextsLive
      <4>2. o \in allocations'
        BY <3>1, <3>4, <4>1 DEF AllocationAt, Erase, IsText
      <4> QED BY <1>1, <4>1, <4>2 DEF IsText
    <3>6. TextsLive' /\ TextsGrow
      BY <1>1, <3>5 DEF TextsLive, TextsGrow
    <3>7. Bound'
      BY <3>1 DEF Erase, registryVars, BridgeInv, Memory, Bound
    <3> QED BY <1>3, <3>3, <3>6, <3>7 DEF Memory, ContextLive
  <2> QED BY <2>1, <2>2
<1>5. BridgeTypeOK'
  <2>1. to_free' \in Seq({"context", "table", "argv"}) /\ 0 \in Words
    BY <1>1, <1>2, WordAssumption DEF Words
  <2>2. blocks' \subseteq blocks /\ TypeOK' /\ returned' \in Seq(Texts)
    BY <1>1, <1>4 DEF Memory, Typed
  <2> QED
    BY <1>1, <1>3, <2>1, <2>2
    DEF BridgeInv, BridgeTypeOK, callVars, buildVars
<1>6. TableTaken' /\ SlotsHold' /\ OptionsHold' /\ ArgvHolds' /\ ShadowsHold'
  BY <1>1, <1>2, <1>4, TableStaysTaken, SlotsStay, OptionsStay, ArgvStays,
     ShadowsStay
  DEF BridgeInv, InUse, callVars, buildVars
<1>7. Phases' /\ NoSpuriousAbort'
  <2>1. at' = "freeing" => to_free' # <<>>
    <3>1. Len(to_free) \in Nat /\ Len(to_free) # 0
      BY <1>1, <1>2
    <3>2. Len(to_free') = Len(to_free) - 1
      BY <1>1, <1>2, <3>1
    <3> QED BY <1>1, <3>1, <3>2
  <2> QED BY <1>1, <1>3, <2>1 DEF BridgeInv, Phases, NoSpuriousAbort
<1> QED BY <1>4, <1>5, <1>6, <1>7 DEF BridgeInv

(* The application assigns to its own variable. *)
LEMMA AssignKeeps ==
  ASSUME BridgeInv, NEW d \in Dests, NEW value \in ValuesOf[d], Assign(d, value)
  PROVE  BridgeInv'
<1>1. /\ at = "idle" \/ (at = "live" /\ AssignsMeanwhile)
      /\ dest' = [dest EXCEPT ![d] = value]
      /\ UNCHANGED <<vars, callVars, buildVars, at, context, blocks, to_free,
                     text_at, returned, written, failure>>
  BY DEF Assign
<1>2. BridgeTypeOK'
  BY <1>1 DEF BridgeInv, BridgeTypeOK, TypeOK, vars, callVars, buildVars
<1>3. Memory' /\ TextsGrow
  BY <1>1, MemoryStays DEF BridgeInv
<1>4. TableTaken' /\ SlotsHold' /\ OptionsHold' /\ ArgvHolds'
  <2>1. CASE at = "idle"
    BY <1>1, <2>1
    DEF BridgeInv, TableTaken, SlotsHold, OptionsHold, ArgvHolds, InUse,
        callVars, buildVars
  <2>2. CASE at = "live"
    <3>1. pending = {} /\ Len(argv) = Len(args)
      BY <2>2 DEF BridgeInv, SlotsHold, ArgvHolds, InUse
    <3> QED
      BY <1>1, <1>3, <2>2, <3>1, TableStaysTaken, SlotsStay, OptionsStay,
         ArgvStays
      DEF BridgeInv, InUse, callVars, buildVars
  <2> QED BY <1>1, <2>1, <2>2
<1>5. Phases' /\ ShadowsHold' /\ NoSpuriousAbort'
  BY <1>1 DEF BridgeInv, Phases, ShadowsHold, NoSpuriousAbort, InUse
<1> QED BY <1>2, <1>3, <1>4, <1>5 DEF BridgeInv

-----------------------------------------------------------------------------
(* Every step. *)

(* At the start there is no table and no context. *)
LEMMA BridgeInvInit == BridgeInit => BridgeInv
<1> SUFFICES ASSUME BridgeInit PROVE BridgeInv
  OBVIOUS
<1>1. /\ at = "idle" /\ failure = "none" /\ context = 0
      /\ options = <<>> /\ args = <<>> /\ pending = {} /\ argv = <<>>
      /\ table = [slots |-> <<>>, options |-> <<>>]
      /\ blocks = {} /\ to_free = <<>>
      /\ text_at = <<>> /\ returned = <<>> /\ written = <<>>
      /\ allocations = {} /\ used = 0
  BY DEF BridgeInit, AfterStartUp
<1>2. TypeOK
  <2>1. types \in [TypeIds -> TypeHashes \cup {NoHash}]
    BY BridgeAssumption DEF BridgeInit, AfterStartUp
  <2>2. type_ids \in [TypeHashes -> TypeIds \cup {0}]
    BY DEF BridgeInit, AfterStartUp
  <2>3. site_types \in [SiteIds -> TypeHashes \cup {NoHash}]
    BY BridgeAssumption DEF BridgeInit, AfterStartUp
  <2>4. /\ sites \subseteq AllocationSite /\ allocations \subseteq Allocation
        /\ sites_by_id \in [SiteIds -> Words] /\ used \in Words
    BY WordAssumption DEF BridgeInit, AfterStartUp, Words
  <2> QED BY <2>1, <2>2, <2>3, <2>4 DEF TypeOK
<1>3. Bound
  BY BridgeAssumption DEF BridgeInit, AfterStartUp, Bound
<1>4. DOMAIN text_at = {} /\ DOMAIN written = {}
  BY <1>1
<1>5. Memory
  BY <1>1, <1>2, <1>3, <1>4, WordAssumption
  DEF Memory, Typed, UsedWithinCapacity, BelowBump, LiveDisjoint, TextsLive,
      ContextLive, Words, kAlignment
<1>6. Named(options) = {} /\ Cardinality(Named(options)) = 0
  BY <1>1, FS_EmptySet DEF Named
<1>7. BridgeTypeOK
  <2>1. table \in [slots : Seq(Slot), options : Seq(OptionInU)]
    BY <1>1
  <2>2. DOMAIN dest = Dests /\ \A d \in Dests : dest[d] \in ValuesOf[d]
    BY DEF BridgeInit
  <2>3. context \in Words
    BY <1>1, WordAssumption DEF Words
  <2> QED BY <1>1, <1>2, <1>4, <2>1, <2>2, <2>3 DEF BridgeTypeOK
<1>8. TableTaken /\ SlotsHold /\ OptionsHold /\ ArgvHolds
  BY <1>1, <1>6 DEF TableTaken, SlotsHold, OptionsHold, ArgvHolds, InUse
<1>9. Phases /\ ShadowsHold /\ NoSpuriousAbort
  BY <1>1, <1>4 DEF Phases, ShadowsHold, NoSpuriousAbort, InUse
<1> QED BY <1>5, <1>7, <1>8, <1>9 DEF BridgeInv

(* One case for each step of the bridge and of the application. *)
LEMMA BridgeInvStep == BridgeInv /\ [BridgeNext]_allVars => BridgeInv'
<1> SUFFICES ASSUME BridgeInv, [BridgeNext]_allVars
             PROVE  BridgeInv'
  OBVIOUS
<1>1. CASE UNCHANGED allVars
  <2>1. /\ UNCHANGED <<vars, callVars, buildVars>>
        /\ UNCHANGED <<dest, at, context, blocks, to_free, text_at, returned,
                       written, failure>>
    BY <1>1 DEF allVars
  <2>2. Memory' /\ TextsGrow
    BY <2>1, MemoryStays DEF BridgeInv
  <2>3. BridgeTypeOK'
    BY <2>1 DEF BridgeInv, BridgeTypeOK, TypeOK, vars, callVars, buildVars
  <2>4. TableTaken' /\ ArgvHolds'
    BY <2>1 DEF BridgeInv, TableTaken, ArgvHolds, callVars, buildVars
  <2>5. SlotsHold'
    BY <2>1 DEF BridgeInv, SlotsHold, SlotSet, callVars, buildVars
  <2>6. OptionsHold'
    BY <2>1
    DEF BridgeInv, OptionsHold, OptionSet, TextsSet, callVars, buildVars
  <2>7. Phases' /\ NoSpuriousAbort'
    BY <2>1 DEF BridgeInv, Phases, NoSpuriousAbort
  <2>8. ShadowsHold'
    BY <2>1
    DEF BridgeInv, ShadowsHold, Shadow, TextAt, Native_dest, callVars, buildVars
  <2> QED BY <2>2, <2>3, <2>4, <2>5, <2>6, <2>7, <2>8 DEF BridgeInv
<1>2. ASSUME NEW opts \in OptionTables, NEW arguments \in Arguments,
             GetContext(opts, arguments)
      PROVE  BridgeInv'
  BY <1>2, GetContextKeeps
<1>3. ASSUME NEW d \in pending, SetSlot(d)
      PROVE  BridgeInv'
  BY <1>3, SetSlotKeeps
<1>4. CASE OutOfMemory \/ SetOption \/ CopyOptionText \/ NewArgv
           \/ CopyArgument \/ CopyName \/ NewContext
  BY <1>4, OutOfMemoryKeeps, SetOptionKeeps, CopyOptionTextKeeps, NewArgvKeeps,
     CopyArgumentKeeps, CopyNameKeeps, NewContextKeeps
<1>5. CASE CallNext \/ SyncSlots \/ FreeContext \/ FreeNext
  BY <1>5, CallNextKeeps, SyncSlotsKeeps, FreeContextKeeps, FreeNextKeeps
<1>6. ASSUME NEW i \in DOMAIN options, NEW value, Store(i, value)
      PROVE  BridgeInv'
  BY <1>6, StoreKeeps
<1>7. ASSUME NEW kept \in Leftovers, GetArgs(kept)
      PROVE  BridgeInv'
  BY <1>7, GetArgsKeeps
<1>8. ASSUME NEW ptr \in DOMAIN text_at, GetString(ptr)
      PROVE  BridgeInv'
  BY <1>8, GetStringKeeps
<1>9. ASSUME NEW d \in Dests, NEW value \in ValuesOf[d], Assign(d, value)
      PROVE  BridgeInv'
  BY <1>9, AssignKeeps
<1> QED
  BY <1>1, <1>2, <1>3, <1>4, <1>5, <1>6, <1>7, <1>8, <1>9 DEF BridgeNext

(* So the invariant holds always. *)
LEMMA BridgeInvAlways == BridgeSpec => []BridgeInv
BY BridgeInvInit, BridgeInvStep, PTL DEF BridgeSpec

-----------------------------------------------------------------------------
(* The theorems. *)

(* The tables, strings and variables of the bridge are always well typed   *)
(* (p4c_bridge.cpp, p4c_bridge_untrusted.c), whatever the application's    *)
(* tables are and wherever make_context stops.                             *)
THEOREM BridgeTypeCorrect == BridgeSpec => []BridgeTypeOK
<1>1. BridgeInv => BridgeTypeOK
  BY DEF BridgeInv
<1> QED BY <1>1, BridgeInvAlways, PTL

(* A popt that behaves never makes T abort: copy_checked takes every       *)
(* string that went through typed memory, and the sandbox side refuses no  *)
(* index and no slot, for every table, argv and arena.                     *)
THEOREM AbortsHaveACause == BridgeSpec => []NoSpuriousAbort
<1>1. BridgeInv => NoSpuriousAbort
  BY DEF BridgeInv
<1> QED BY <1>1, BridgeInvAlways, PTL

(* In no order of making and freeing contexts does one outlive the table   *)
(* or the argv that it points into (poptFreeContext, make_context).        *)
THEOREM ContextsHoldTheirTables == BridgeSpec => []ContextHoldsItsTables
<1>1. BridgeInv => ContextHoldsItsTables
  BY DEF BridgeInv, Phases, ContextHoldsItsTables
<1> QED BY <1>1, BridgeInvAlways, PTL

(* U has the option table and the argv that T was given, for every table   *)
(* that make_context takes: options share a slot exactly when they share a *)
(* destination, and every string is a live char object with its text.      *)
THEOREM UHasTheTable == BridgeSpec => []UHasWhatTGave
<1>1. ASSUME BridgeInv, context # 0
      PROVE  UHasWhatTGave
  <2>1. /\ at \in InUse \ {"slots", "options", "argv", "context"}
        /\ options \in Seq(Option) /\ Supported(options)
        /\ table \in [slots : Seq(Slot), options : Seq(OptionInU)]
        /\ args \in Seq(Texts) /\ argv \in Seq(Words)
        /\ Len(argv) = Len(args) /\ Len(table.options) = Len(options)
        /\ pending = {}
    BY <1>1
    DEF BridgeInv, Phases, BridgeTypeOK, TableTaken, ArgvHolds, OptionsHold,
        SlotsHold, InUse
  <2>2. ASSUME NEW ptr, NEW text, IsCopy(text_at, ptr, text)
        PROVE  Accepted(ptr) /\ TextAt(ptr) = text
    <3>1. CASE text = Null
      BY <2>2, <3>1 DEF IsCopy, Accepted, TextAt
    <3>2. CASE text # Null
      <4>1. ptr \in DOMAIN text_at /\ text_at[ptr] = text
        BY <2>2, <3>2 DEF IsCopy
      <4>2. 0 \notin DOMAIN text_at
        BY <1>1, NoTextAtZero DEF BridgeInv, Memory
      <4> QED BY <1>1, <4>1, <4>2, TextsAreAccepted DEF BridgeInv, TextAt
    <3> QED BY <3>1, <3>2
  <2>3. ASSUME NEW i \in DOMAIN options
        PROVE  i \in DOMAIN table.options /\ OptionSet(i) /\ TextsSet(i)
    BY <1>1, <2>1 DEF BridgeInv, OptionsHold
  <2>4. ASSUME NEW i \in DOMAIN options, HasArg(options[i])
        PROVE  /\ options[i].arg \in Named(options)
               /\ table.options[i].slot = SlotOf(options, options[i].arg)
               /\ SlotSet(options[i].arg)
               /\ SlotKind(options, options[i].arg)
                    = KindOfType(options[i].type)
    BY <1>1, <2>1, <2>3, <2>4, SlotKindOfOption
    DEF OptionSet, SlotNumber, BridgeInv, SlotsHold
  <2>5. ASSUME NEW i \in DOMAIN options, NEW j \in DOMAIN options,
               HasArg(options[i]), HasArg(options[j])
        PROVE  table.options[i].slot = table.options[j].slot
                 <=> options[i].arg = options[j].arg
    BY <2>1, <2>4, <2>5, SlotsAreDistinct
  <2>6. ASSUME NEW i \in DOMAIN options, HasArg(options[i])
        PROVE  table.slots[table.options[i].slot].kind
                 = KindOfType(options[i].type)
    BY <2>4, <2>6 DEF SlotSet
  <2>7. ASSUME NEW i \in DOMAIN options, NEW n \in DOMAIN options[i].texts
        PROVE  LET ptr == table.options[i].texts[n] IN
               Accepted(ptr) /\ TextAt(ptr) = options[i].texts[n]
    <3>1. options[i] \in Option /\ table.options[i] \in OptionInU
      BY <2>1, <2>3
    <3>2. /\ options[i].texts \in Seq(Texts \cup {Null})
          /\ table.options[i].texts \in Seq(Words)
      BY <3>1 DEF Option, OptionInU
    <3>3. n \in DOMAIN table.options[i].texts
      BY <2>3, <3>2 DEF TextsSet
    <3>4. IsCopy(text_at, table.options[i].texts[n], options[i].texts[n])
      BY <2>3, <3>3 DEF OptionSet
    <3> QED BY <2>2, <3>4
  <2>8. ASSUME NEW i \in DOMAIN args
        PROVE  Accepted(argv[i]) /\ TextAt(argv[i]) = args[i]
    <3>1. i \in DOMAIN argv
      BY <2>1
    <3>2. IsCopy(text_at, argv[i], args[i])
      BY <1>1, <2>1, <3>1 DEF BridgeInv, ArgvHolds
    <3> QED BY <2>2, <3>2
  <2> QED BY <2>1, <2>5, <2>6, <2>7, <2>8 DEF UHasWhatTGave
<1>2. BridgeInv => UHasWhatTGave
  BY <1>1 DEF UHasWhatTGave
<1> QED BY <1>2, BridgeInvAlways, PTL

-----------------------------------------------------------------------------
(* The bridge and a popt that is linked in. *)

(* What the application has of its variables, were poptGetNextOpt to       *)
(* return now: the variables of NativePopt.                                *)
Natives == [d \in Dests |-> IF d \in DOMAIN written THEN written[d] ELSE dest[d]]

(* Both begin with the application's own values. *)
LEMMA NativeInit == BridgeInit => Native!Init
<1> SUFFICES ASSUME BridgeInit PROVE Native!Init
  OBVIOUS
<1>1. /\ at = "idle" /\ DOMAIN written = {}
      /\ dest \in [Dests -> UNION {ValuesOf[d] : d \in Dests}]
  BY DEF BridgeInit
<1>2. [d \in Dests |-> IF d \in DOMAIN written THEN written[d] ELSE dest[d]]
        = dest
  BY <1>1
<1> QED BY <1>1, <1>2 DEF Native!Init

(* Stores are seen at once, copying back changes nothing that is seen, and *)
(* everything else but an assignment leaves the variables alone.           *)
LEMMA NativeStep ==
  ASSUME ~ AssignsMeanwhile, BridgeInv, [BridgeNext]_allVars
  PROVE  [Native!Next]_(Native!nativeVars)
<1>1. ASSUME at # "parsing", at' # "parsing", UNCHANGED <<dest, written>>
      PROVE  UNCHANGED Native!nativeVars
  BY <1>1 DEF Native!nativeVars
<1>2. CASE UNCHANGED allVars
  BY <1>2 DEF allVars, Native!nativeVars
<1>3. ASSUME NEW opts \in OptionTables, NEW arguments \in Arguments,
             GetContext(opts, arguments)
      PROVE  UNCHANGED Native!nativeVars
  BY <1>1, <1>3 DEF GetContext, Proceed
<1>4. ASSUME NEW d \in pending, SetSlot(d)
      PROVE  UNCHANGED Native!nativeVars
  BY <1>1, <1>4 DEF SetSlot, Proceed
<1>5. CASE OutOfMemory \/ SetOption \/ CopyOptionText \/ NewArgv
           \/ CopyArgument \/ CopyName \/ NewContext \/ FreeContext \/ FreeNext
  BY <1>1, <1>5
  DEF OutOfMemory, SetOption, CopyOptionText, NewArgv, CopyArgument, CopyName,
      NewContext, FreeContext, FreeNext, Proceed
<1>6. ASSUME NEW kept \in Leftovers, GetArgs(kept)
      PROVE  UNCHANGED Native!nativeVars
  BY <1>1, <1>6 DEF GetArgs, Proceed
<1>7. ASSUME NEW ptr \in DOMAIN text_at, GetString(ptr)
      PROVE  UNCHANGED Native!nativeVars
  BY <1>1, <1>7 DEF GetString, Proceed
<1>8. CASE CallNext
  BY <1>8 DEF CallNext, Proceed, Native!Next, Native!Call
<1>9. ASSUME NEW i \in DOMAIN options, NEW value, Store(i, value)
      PROVE  Native!Next
  <2> PICK d : d = options[i].arg
    OBVIOUS
  <2>1. /\ at = "parsing" /\ HasArg(options[i]) /\ value \in ValuesOf[d]
        /\ written' = Put(written, d, value)
        /\ UNCHANGED <<dest, at>>
    BY <1>9 DEF Store
  <2>2. d \in Dests
    BY <2>1, NamedOptions DEF BridgeInv, HasArg
  <2>3. Natives' = [Natives EXCEPT ![d] = value]
    BY <2>1, <2>2 DEF Natives, Put
  <2>4. Native!Set(d, value)
    BY <2>1, <2>3 DEF Native!Set, Natives
  <2> QED BY <2>1, <2>2, <2>4 DEF Native!Next, Native!Store
<1>10. CASE SyncSlots
  <2>1. /\ at = "parsing" /\ at' = "live"
        /\ dest' = [d \in Dests |-> IF d \in Named(options) THEN Shadow(d)
                                                            ELSE dest[d]]
        /\ DOMAIN written' = {}
    BY <1>10, SyncSlotsCopies DEF SyncSlots
  <2>2. /\ pending = {} /\ DOMAIN written \subseteq Named(options)
        /\ \A d \in Named(options) : Shadow(d) = Native_dest(d)
    BY <2>1 DEF BridgeInv, SlotsHold, ShadowsHold, InUse
  <2>3. dest' = Natives
    BY <2>1, <2>2 DEF Natives, Native_dest
  <2>4. Natives' = dest'
    BY <2>1 DEF Natives
  <2>5. Natives' = Natives
    BY <2>3, <2>4
  <2> QED BY <2>1, <2>5 DEF Native!Next, Native!Return, Natives
<1>11. ASSUME NEW d \in Dests, NEW value \in ValuesOf[d], Assign(d, value)
       PROVE  Native!Next
  <2>1. /\ at = "idle" /\ at' = "idle" /\ written' = written
        /\ dest' = [dest EXCEPT ![d] = value]
    BY <1>11 DEF Assign
  <2>2. DOMAIN written = {} /\ DOMAIN dest = Dests
    BY <2>1 DEF BridgeInv, BridgeTypeOK, ShadowsHold
  <2>3. Natives' = [Natives EXCEPT ![d] = value]
    BY <2>1, <2>2 DEF Natives
  <2>4. Native!Set(d, value)
    BY <2>3 DEF Native!Set, Natives
  <2> QED BY <2>1, <2>4 DEF Native!Next, Native!Assign
<1> QED
  BY <1>2, <1>3, <1>4, <1>5, <1>6, <1>7, <1>8, <1>9, <1>10, <1>11 DEF BridgeNext

(* poptGetNextOpt through the sandbox, with shadow slots that sync_slots   *)
(* copies back, does for the application what a popt that is linked in     *)
(* does, for every option table, as long as the application assigns to its *)
(* variables only while it has no context.                                 *)
THEOREM BridgeIsLikeNativePopt ==
  ASSUME ~ AssignsMeanwhile
  PROVE  BridgeSpec => LikeNativePopt
<1>1. BridgeInv /\ [BridgeNext]_allVars => [Native!Next]_(Native!nativeVars)
  BY NativeStep
<1>2. LikeNativePopt
        <=> Native!Init /\ [][Native!Next]_(Native!nativeVars)
  BY DEF LikeNativePopt, Native!Spec
<1> QED BY <1>1, <1>2, NativeInit, BridgeInvAlways, PTL DEF BridgeSpec
=============================================================================
