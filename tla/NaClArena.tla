------------------------------ MODULE NaClArena ------------------------------
(***************************************************************************)
(* The typed arena in the address space of a NaCl sandbox, as the patch in *)
(* backends/rlbox_nacl/apply_backend.py has it: reserveTypedArena maps it, *)
(* and the mmap, munmap and mprotect system calls of the sandbox are       *)
(* refused when TypedArenaOverlaps says that they would touch it.          *)
(*                                                                         *)
(* The system calls themselves are NaCl's, outside this repository: here   *)
(* they act on whole pages, and what they check for themselves is left     *)
(* out, so that only the guards of the patch protect the arena.  The       *)
(* scripts build for x86-64: system-call arguments have 32 bits and        *)
(* uintptr_t has 64 (AddressAssumption).  T reserves the arena before any  *)
(* sandbox code runs concurrently, so a reservation is one step.           *)
(***************************************************************************)
EXTENDS Naturals

CONSTANTS
  MaxAddress,   \* numeric_limits<uintptr_t>::max()
  PageSize,     \* NACL_MAP_PAGESIZE
  PageCount,    \* pages of the sandbox's address space
  MapLengths,   \* lengths that system calls pass
  ArenaSizes    \* sizes that T asks for

UserAddresses == 0 .. (PageCount * PageSize - 1)
Pages == 0 .. (PageCount - 1)

ASSUME AddressAssumption ==
  /\ PageSize \in Nat \ {0} /\ PageCount \in Nat \ {0} /\ MaxAddress \in Nat
  /\ (MaxAddress + 1) % PageSize = 0
  /\ MapLengths \subseteq 0 .. (PageCount * PageSize)
  /\ ArenaSizes \subseteq 0 .. (PageCount * PageSize)
  /\ (2 * PageCount + 1) * PageSize <= MaxAddress + 1

Protections == {"none", "read", "read_write"}

VARIABLES
  mapping,            \* page -> its protection, or "unmapped"
  typed_arena_start,  \* fields of struct NaClApp
  typed_arena_size,
  arenas              \* the arenas that T was given: [base, size]

reservationVars == <<typed_arena_start, typed_arena_size, arenas>>
addressVars == <<mapping, reservationVars>>

NaClTypeOK ==
  /\ mapping \in [Pages -> Protections \cup {"unmapped"}]
  /\ typed_arena_start \in {p * PageSize : p \in Pages}
  /\ typed_arena_size \in {n * PageSize : n \in 0 .. PageCount}
  /\ arenas \subseteq [base : UserAddresses, size : ArenaSizes]

-----------------------------------------------------------------------------
WrapAddress(n) == n % (MaxAddress + 1)

NaClRoundAllocPage(n) == (WrapAddress(n + PageSize - 1) \div PageSize) * PageSize

(* Mutant: the end of the arena counts as part of it. *)
TypedArenaOverlaps_Touching(start, length) ==
  /\ typed_arena_size # 0 /\ length # 0
  /\ LET end == WrapAddress(start + length)
         rounded == NaClRoundAllocPage(end)
     IN \/ end < start \/ rounded < start
        \/ /\ start <= WrapAddress(typed_arena_start + typed_arena_size)
           /\ typed_arena_start < rounded

TypedArenaOverlaps(start, length) ==
  /\ typed_arena_size # 0
  /\ length # 0
  /\ LET end == WrapAddress(start + length)
         rounded == NaClRoundAllocPage(end)
     IN \/ end < start
        \/ rounded < start
        \/ /\ start < WrapAddress(typed_arena_start + typed_arena_size)
           /\ typed_arena_start < rounded

(* The pages that a system call on [start, start + length) acts on. *)
PagesOf(start, length) ==
  {p \in Pages : /\ length # 0
                 /\ p * PageSize < start + length
                 /\ start < (p + 1) * PageSize}

(* NaClSysMmapIntern without MAP_FIXED: some run of pages that is free, or *)
(* none.                                                                   *)
FreeRuns(length) ==
  {first \in Pages :
     /\ first * PageSize + length <= PageCount * PageSize
     /\ \A p \in PagesOf(first * PageSize, length) : mapping[p] = "unmapped"}

SetPages(pages, protection) ==
  mapping' = [p \in Pages |-> IF p \in pages THEN protection ELSE mapping[p]]

-----------------------------------------------------------------------------
CanReserve(size) == size # 0 /\ typed_arena_size = 0

(* Mutant: the size is recorded as it was asked for. *)
RecordedSize_AsAsked(size) == size

(* size = NaClRoundAllocPage(size) *)
RecordedSize(size) == NaClRoundAllocPage(size)

(* reserveTypedArena, whose caller makes a Runtime of exactly size bytes   *)
(* at the address that it gets.                                            *)
ReserveTypedArena(size) ==
  /\ CanReserve(size)
  /\ \E first \in FreeRuns(NaClRoundAllocPage(size)) :
       /\ SetPages(PagesOf(first * PageSize, size), "read_write")
       /\ typed_arena_start' = first * PageSize
       /\ typed_arena_size' = RecordedSize(size)
       /\ arenas' = arenas \cup {[base |-> first * PageSize, size |-> size]}

(* NaClSysMmap without MAP_FIXED. *)
SysMmap(length, protection) ==
  /\ length # 0
  /\ \E first \in FreeRuns(length) :
       SetPages(PagesOf(first * PageSize, length), protection)
  /\ UNCHANGED reservationVars

(* NaClSysMmap with MAP_FIXED. *)
SysMmapFixed(start, length, protection) ==
  /\ ~ TypedArenaOverlaps(start, length)
  /\ SetPages(PagesOf(start, length), protection)
  /\ UNCHANGED reservationVars

(* NaClSysMunmap *)
SysMunmap(start, length) ==
  /\ ~ TypedArenaOverlaps(start, length)
  /\ SetPages(PagesOf(start, length), "unmapped")
  /\ UNCHANGED reservationVars

(* NaClSysMprotect changes mapped pages. *)
SysMprotect(start, length, protection) ==
  /\ ~ TypedArenaOverlaps(start, length)
  /\ \A p \in PagesOf(start, length) : mapping[p] # "unmapped"
  /\ SetPages(PagesOf(start, length), protection)
  /\ UNCHANGED reservationVars

NaClInit ==
  /\ mapping = [p \in Pages |-> "unmapped"]
  /\ typed_arena_start = 0
  /\ typed_arena_size = 0
  /\ arenas = {}

NaClNext ==
  \/ \E size \in ArenaSizes : ReserveTypedArena(size)
  \/ \E length \in MapLengths, protection \in Protections :
       \/ SysMmap(length, protection)
       \/ \E start \in UserAddresses :
            \/ SysMmapFixed(start, length, protection)
            \/ SysMunmap(start, length)
            \/ SysMprotect(start, length, protection)

NaClSpec == NaClInit /\ [][NaClNext]_addressVars

-----------------------------------------------------------------------------
(* backends/rlbox_nacl/README.md: the trusted runtime "rejects untrusted   *)
(* munmap, mprotect, and mmap(MAP_FIXED) operations that overlap" the      *)
(* arena.  Whatever the sandbox maps, unmaps and protects, every byte of   *)
(* every arena that T manages stays readable and writable, also the bytes  *)
(* of a last page that the arena fills in part only.                       *)
ArenaStaysUsable ==
  \A arena \in arenas :
    \A p \in PagesOf(arena.base, arena.size) : mapping[p] = "read_write"

(* TypedArenaOverlaps, in modular arithmetic and with a rounded end, says  *)
(* yes exactly when a page of the range is a page of an arena: it misses   *)
(* no overlap, and refuses no call that only touches the arena's borders.  *)
OverlapExact ==
  \A start \in UserAddresses, length \in MapLengths \ {0} :
    TypedArenaOverlaps(start, length) <=>
      \E arena \in arenas :
        PagesOf(start, length) \cap PagesOf(arena.base, arena.size) # {}
=============================================================================
