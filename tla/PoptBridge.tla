----------------------------- MODULE PoptBridge -----------------------------
(***************************************************************************)
(* The rsync/popt bridge: T's poptGetContext, poptGetNextOpt, poptGetArgs, *)
(* poptGetOptArg, poptBadOption and poptFreeContext                        *)
(* (integration/rsync_popt/p4c_bridge.cpp), and the sandbox side that they *)
(* call (p4c_bridge_untrusted.c).  T rebuilds the application's option     *)
(* table and argv inside the sandbox, where every destination has a shadow *)
(* slot, and copies the slots back after each option.                      *)
(*                                                                         *)
(* The bridge runs on one thread (RLBOX_SINGLE_THREADED_INVOCATIONS), so a *)
(* step is a loop iteration: the calls into the sandbox that one slot, one *)
(* string or one argument needs.  Any exception aborts the program.        *)
(* Strings are abstract; the library popt is external and well-behaved: it *)
(* stores through the destinations of the options that it meets.           *)
(***************************************************************************)
EXTENDS InterspecRuntime, Sequences, FiniteSets

CONSTANTS
  Dests,          \* addresses that options name: the application's variables
  ValuesOf,       \* destination -> the values of its type
  Integers32,     \* the int values
  Texts,          \* the strings
  Null,           \* nullptr
  TextSize,       \* text -> strlen + 1
  OptionTables,   \* the tables that the application passes
  Arguments,      \* the argv that it passes
  Name,           \* the name of the context
  ContextSize,    \* sizeof(struct poptContext_s)
  CopySite,       \* site of interspec_typed_strdup, of type char
  ContextSite,    \* site of poptGetContext, of type poptContext_s
  CharHash,       \* kTypeHashChar
  TypeOf,         \* the registered types: TypeId -> type_hash or NoHash
  AssignsMeanwhile  \* the application assigns between two options

NoArg == "no_arg"
OptionTypes == {"string", "none", "int", "val", "other"}
Option == [arg : Dests \cup {NoArg}, type : OptionTypes,
           texts : Seq(Texts \cup {Null})]   \* longName, descrip, argDescrip

ASSUME BridgeAssumption ==
  /\ Null \notin Texts /\ Name \in Texts
  /\ ArenaBase # 0
  /\ TextSize \in [Texts -> Sizes \ {0}] /\ ContextSize \in Sizes
  /\ CopySite \in SiteIds /\ ContextSite \in SiteIds
  /\ OptionTables \subseteq Seq(Option)
  /\ Arguments \subseteq Seq(Texts)
  /\ AssignsMeanwhile \in BOOLEAN
  /\ TypeOf \in [TypeIds -> TypeHashes \cup {NoHash}]
  /\ CopySite \in TypeIds /\ TypeOf[CopySite] = CharHash
  /\ ContextSite \in TypeIds
  /\ {CharHash, TypeOf[ContextSite]} \subseteq TypeHashes
  /\ \A d \in Dests : ValuesOf[d] \in {Integers32, Texts \cup {Null}}

VARIABLES
  dest,      \* the application's variables
  at,        \* where T is
  options,   \* the argument of poptGetContext, with its terminating entry
  args,      \* and argv
  pending,   \* slots that are still to be initialised
  table,     \* U's table: slots and options
  argv,      \* U's argv: pointers
  context,   \* U's popt context: its address in the arena, or 0
  blocks,    \* the tables of U that are allocated
  to_free,   \* what poptFreeContext has still to free
  text_at,   \* the string that an address of U holds
  returned,  \* args_cache
  written,   \* history: what popt stored since poptGetNextOpt was called
  failure    \* why the program aborted

callVars == <<options, args>>
buildVars == <<pending, table, argv>>
allVars == <<vars, callVars, buildVars, dest, at, context, blocks, to_free,
             text_at, returned, written, failure>>

(* A slot is empty, an int or a char pointer.  An option holds the number  *)
(* of its slot, 0 without one, and pointers to its texts.                  *)
Slot == [kind : {"empty", "integer", "string"}, value : Integers32 \cup Words]
OptionInU == [slot : Nat, texts : Seq(Words)]

(* The destinations: the keys of slot_by_address.                          *)
Named(opts) == {opts[i].arg : i \in DOMAIN opts} \ {NoArg}

BridgeTypeOK ==
  /\ TypeOK
  /\ DOMAIN dest = Dests /\ (\A d \in Dests : dest[d] \in ValuesOf[d])
  /\ at \in {"idle", "slots", "options", "argv", "context", "live",
             "parsing", "freeing", "aborted"}
  /\ options \in Seq(Option) /\ args \in Seq(Texts)
  /\ pending \subseteq Named(options)
  /\ table \in [slots : Seq(Slot), options : Seq(OptionInU)]
  /\ \A i \in DOMAIN table.options :
       table.options[i].slot \in DOMAIN table.slots \cup {0}
  /\ argv \in Seq(Words)
  /\ context \in Words
  /\ blocks \subseteq {"table", "argv"}
  /\ DOMAIN text_at \subseteq Words
  /\ \A ptr \in DOMAIN text_at : text_at[ptr] \in Texts
  /\ to_free \in Seq({"context", "table", "argv"})
  /\ DOMAIN written \subseteq Dests
  /\ \A d \in DOMAIN written : written[d] \in ValuesOf[d]
  /\ returned \in Seq(Texts)
  /\ failure \in {"none", "table", "memory", "full", "refused", "rejected"}

-----------------------------------------------------------------------------
(* Reading the application's table. *)

HasArg(option) == option.arg # NoArg

(* option_slot_kind *)
KindOfType(type) == IF type = "string" THEN "string" ELSE "integer"

Uses(opts, d) == {i \in DOMAIN opts : opts[i].arg = d}

First(numbers) == CHOOSE n \in numbers : \A m \in numbers : n <= m
Last(numbers) == CHOOSE n \in numbers : \A m \in numbers : m <= n

NamedBefore(opts, n) == {d \in Named(opts) : First(Uses(opts, d)) < n}

(* Mutant: an option that names a destination again moves its slot.        *)
SlotOf_LastUse(opts, d) ==
  Cardinality(NamedBefore(opts, Last(Uses(opts, d))) \ {d}) + 1

(* slot_by_address: a destination gets the next number, kinds.size(), at   *)
(* the first option that names it.  Numbers start at 1 here.               *)
SlotOf(opts, d) == Cardinality(NamedBefore(opts, First(Uses(opts, d)))) + 1

SlotNumber(opts, option) ==
  IF HasArg(option) THEN SlotOf(opts, option.arg) ELSE 0

(* kinds[slot_by_address[d]] *)
SlotKind(opts, d) == KindOfType(opts[First(Uses(opts, d))].type)

(* No option makes make_context throw. *)
Supported(opts) ==
  /\ \A i \in DOMAIN opts : HasArg(opts[i]) => opts[i].type # "other"
  /\ \A i, j \in DOMAIN opts :
       HasArg(opts[i]) /\ opts[i].arg = opts[j].arg
         => KindOfType(opts[i].type) = KindOfType(opts[j].type)

(* The application lets an option point to a variable of its type.         *)
ASSUME TableAssumption ==
  \A opts \in OptionTables : Supported(opts) =>
    \A i \in DOMAIN opts : HasArg(opts[i]) =>
      ValuesOf[opts[i].arg] = IF KindOfType(opts[i].type) = "string"
                              THEN Texts \cup {Null} ELSE Integers32

(* option_count counts the entry that ends the table. *)
Terminator == [arg |-> NoArg, type |-> "none", texts |-> <<Null>>]

-----------------------------------------------------------------------------
(* Go on, or throw: the callers catch everything and abort.                *)
Proceed(ok, point, reason) ==
  /\ at' = IF ok THEN point ELSE "aborted"
  /\ failure' = IF ok THEN failure ELSE reason

Put(f, x, y) == [a \in DOMAIN f \cup {x} |-> IF a = x THEN y ELSE f[a]]

(* Mutant: a typed copy that fails is not noticed. *)
CopyFails_Unnoticed(text) == FALSE

CopyFails(text) == text # Null /\ ~ CanAllocate(TextSize[text])

(* copy_to_u: T copies into libc memory of U, U copies from there into     *)
(* typed memory (TypedShim), and the first copy is freed again.            *)
CopyToU(text) ==
  \/ /\ text # Null
     /\ AllocateFromSite(TextSize[text], CopySite)
     /\ text_at' = Put(text_at, NextBase, text)
  \/ /\ text # Null => ~ CanAllocate(TextSize[text])
     /\ UNCHANGED <<vars, text_at>>

CopyOf(text) ==
  IF text # Null /\ CanAllocate(TextSize[text]) THEN NextBase ELSE 0

(* copy_checked accepts null, and a char object that has the terminator.   *)
Accepted(ptr) ==
  \/ ptr = 0
  \/ \E remaining \in RemainingBytes(ptr, CharHash) :
       ptr \in DOMAIN text_at /\ TextSize[text_at[ptr]] <= remaining

TextAt(ptr) == IF ptr = 0 THEN Null ELSE text_at[ptr]

-----------------------------------------------------------------------------
(* poptGetContext *)

GetContext(opts, arguments) ==
  /\ at = "idle"
  /\ options' = Append(opts, Terminator)
  /\ args' = arguments
  /\ Proceed(Supported(options'), "slots", "table")
  /\ table' = [slots |-> [k \in 1 .. Cardinality(Named(options')) |->
                            [kind |-> "empty", value |-> 0]],
               options |-> <<>>]
  /\ blocks' = blocks \cup {"table"}
  /\ pending' = Named(options')
  /\ argv' = <<>>
  /\ UNCHANGED <<vars, dest, context, to_free, text_at, returned, written>>

(* A calloc, or the malloc of copy_to_u, of the sandbox fails. *)
OutOfMemory ==
  /\ at \in {"slots", "options", "argv"}
  /\ Proceed(FALSE, "aborted", "memory")
  /\ UNCHANGED <<vars, callVars, buildVars, dest, context, blocks, to_free,
                 text_at, returned, written>>

(* One iteration of the loop over slot_by_address, in any order.           *)
SetSlot(d) ==
  /\ at = "slots" /\ d \in pending
  /\ LET kind == SlotKind(options, d)
         text == IF kind = "string" THEN dest[d] ELSE Null
         value == IF kind = "string" THEN CopyOf(text) ELSE dest[d]
     IN /\ CopyToU(text)
        /\ Proceed(~ CopyFails(text), "slots", "full")
        /\ table' = [table EXCEPT !.slots[SlotOf(options, d)] =
                       [kind |-> kind, value |-> value]]
  /\ pending' = pending \ {d}
  /\ UNCHANGED <<callVars, dest, argv, context, blocks, to_free, returned,
                 written>>

(* Mutant: the options may come before the slots. *)
SlotsReady_Always == TRUE

SlotsReady == pending = {}

OptionsDone == Len(table.options)

(* The texts of the option that was set last are all copied. *)
TextsDone ==
  OptionsDone > 0 =>
    Len(table.options[OptionsDone].texts) = Len(options[OptionsDone].texts)

(* interspec_p4c_option_set, which wants a slot that has a kind.           *)
SetOption ==
  /\ at \in {"slots", "options"} /\ SlotsReady
  /\ TextsDone /\ OptionsDone < Len(options)
  /\ LET slot == SlotNumber(options, options[OptionsDone + 1]) IN
     /\ Proceed(slot # 0 => table.slots[slot].kind # "empty",
                "options", "refused")
     /\ table' = [table EXCEPT
                    !.options = Append(@, [slot |-> slot, texts |-> <<>>])]
  /\ UNCHANGED <<vars, callVars, dest, pending, argv, context, blocks,
                 to_free, text_at, returned, written>>

(* copy_to_u of the next of longName, descrip and argDescrip.              *)
CopyOptionText ==
  /\ at = "options" /\ ~ TextsDone
  /\ LET n == Len(table.options[OptionsDone].texts) + 1
         text == options[OptionsDone].texts[n]
     IN /\ CopyToU(text)
        /\ Proceed(~ CopyFails(text), "options", "full")
        /\ table' = [table EXCEPT !.options[OptionsDone].texts =
                       Append(@, CopyOf(text))]
  /\ UNCHANGED <<callVars, dest, pending, argv, context, blocks, to_free,
                 returned, written>>

NewArgv ==
  /\ at = "options" /\ TextsDone /\ OptionsDone = Len(options)
  /\ Proceed(TRUE, "argv", "memory")
  /\ blocks' = blocks \cup {"argv"}
  /\ UNCHANGED <<vars, callVars, buildVars, dest, context, to_free, text_at,
                 returned, written>>

CopyArgument ==
  /\ at = "argv" /\ Len(argv) < Len(args)
  /\ LET text == args[Len(argv) + 1] IN
     /\ CopyToU(text)
     /\ Proceed(~ CopyFails(text), "argv", "full")
     /\ argv' = Append(argv, CopyOf(text))
  /\ UNCHANGED <<callVars, dest, pending, table, context, blocks, to_free,
                 returned, written>>

CopyName ==
  /\ at = "argv" /\ Len(argv) = Len(args)
  /\ CopyToU(Name)
  /\ Proceed(~ CopyFails(Name), "context", "full")
  /\ UNCHANGED <<callVars, buildVars, dest, context, blocks, to_free,
                 returned, written>>

(* interspec_p4c_context_new: popt allocates its context at its own site.  *)
(* Without one the call returns null, and U keeps its table and its argv.  *)
NewContext ==
  /\ at = "context"
  /\ \/ /\ AllocateFromSite(ContextSize, ContextSite)
        /\ context' = NextBase
        /\ Proceed(TRUE, "live", "none")
     \/ /\ ~ CanAllocate(ContextSize)
        /\ Proceed(TRUE, "idle", "none")
        /\ UNCHANGED <<vars, context>>
  /\ UNCHANGED <<callVars, buildVars, dest, blocks, to_free, text_at,
                 returned, written>>

-----------------------------------------------------------------------------
(* poptGetNextOpt *)

CallNext ==
  /\ at = "live"
  /\ Proceed(TRUE, "parsing", "none")
  /\ UNCHANGED <<vars, callVars, buildVars, dest, context, blocks, to_free,
                 text_at, returned, written>>

(* popt, in the sandbox, stores through the arg of an option it has met.   *)
(* It may store several times before poptGetNextOpt returns.  A string is  *)
(* a new typed object.                                                     *)
Store(i, value) ==
  /\ at = "parsing"
  /\ HasArg(options[i]) /\ value \in ValuesOf[options[i].arg] \ {Null}
  /\ LET slot == table.options[i].slot IN
     IF options[i].type = "string"
     THEN /\ CanAllocate(TextSize[value])
          /\ CopyToU(value)
          /\ table' = [table EXCEPT !.slots[slot].value = CopyOf(value)]
     ELSE /\ table' = [table EXCEPT !.slots[slot].value = value]
          /\ UNCHANGED <<vars, text_at>>
  /\ written' = Put(written, options[i].arg, value)
  /\ UNCHANGED <<callVars, pending, argv, dest, at, context, blocks, to_free,
                 returned, failure>>

(* sync_slots, whose iterations read U's slots and write nothing else.     *)
SyncSlots ==
  /\ at = "parsing"
  /\ LET Shadow(d) == table.slots[SlotOf(options, d)]
         ok == \A d \in Named(options) :
                 SlotKind(options, d) = "string" => Accepted(Shadow(d).value)
         Copied(d) == IF SlotKind(options, d) = "string"
                      THEN TextAt(Shadow(d).value) ELSE Shadow(d).value
     IN /\ Proceed(ok, "live", "rejected")
        /\ dest' = IF ok
                   THEN [d \in Dests |-> IF d \in Named(options)
                                         THEN Copied(d) ELSE dest[d]]
                   ELSE dest
        /\ written' = IF ok THEN <<>> ELSE written
  /\ UNCHANGED <<vars, callVars, buildVars, context, blocks, to_free, text_at,
                 returned>>

-----------------------------------------------------------------------------
(* The other calls. *)

(* Some of the arguments, in order, by their numbers. *)
Leftovers == {kept \in UNION {[1 .. n -> DOMAIN argv] : n \in DOMAIN argv} :
                \A i, j \in DOMAIN kept : i < j => kept[i] < kept[j]}

(* poptGetArgs: popt hands out what is left of argv.  A null is fatal.     *)
GetArgs(kept) ==
  /\ at = "live"
  /\ LET ok == \A i \in DOMAIN kept :
                 argv[kept[i]] # 0 /\ Accepted(argv[kept[i]])
     IN /\ Proceed(ok, "live", "rejected")
        /\ returned' = IF ok THEN [i \in DOMAIN kept |-> TextAt(argv[kept[i]])]
                       ELSE returned
  /\ UNCHANGED <<vars, callVars, buildVars, dest, context, blocks, to_free,
                 text_at, written>>

(* poptGetOptArg and poptBadOption: popt hands out a string that it has.   *)
(* The trusted copy is not kept here.                                      *)
GetString(ptr) ==
  /\ at = "live"
  /\ Proceed(Accepted(ptr), "live", "rejected")
  /\ UNCHANGED <<vars, callVars, buildVars, dest, context, blocks, to_free,
                 text_at, returned, written>>

(* Mutant: the table goes first. *)
FreeOrder_TableFirst == <<"table", "context", "argv">>

FreeOrder == <<"context", "table", "argv">>

(* poptFreeContext *)
FreeContext ==
  /\ at = "live"
  /\ Proceed(TRUE, "freeing", "none")
  /\ to_free' = FreeOrder
  /\ UNCHANGED <<vars, callVars, buildVars, dest, context, blocks, text_at,
                 returned, written>>

FreeNext ==
  /\ at = "freeing"
  /\ Proceed(TRUE, IF Len(to_free) = 1 THEN "idle" ELSE "freeing", "none")
  /\ to_free' = Tail(to_free)
  /\ IF Head(to_free) = "context"
     THEN Release(context) /\ context' = 0 /\ UNCHANGED blocks
     ELSE blocks' = blocks \ {Head(to_free)} /\ UNCHANGED <<vars, context>>
  /\ returned' = <<>>
  /\ UNCHANGED <<callVars, buildVars, dest, text_at, written>>

(* The application assigns to a variable of its own.                       *)
Assign(d, value) ==
  /\ at = "idle" \/ (at = "live" /\ AssignsMeanwhile)
  /\ dest' = [dest EXCEPT ![d] = value]
  /\ UNCHANGED <<vars, callVars, buildVars, at, context, blocks, to_free,
                 text_at, returned, written, failure>>

-----------------------------------------------------------------------------
BridgeInit ==
  /\ AfterStartUp(TypeOf)
  /\ dest \in [Dests -> UNION {ValuesOf[d] : d \in Dests}]
  /\ \A d \in Dests : dest[d] \in ValuesOf[d]
  /\ at = "idle" /\ failure = "none"
  /\ options = <<>> /\ args = <<>>
  /\ pending = {} /\ argv = <<>>
  /\ table = [slots |-> <<>>, options |-> <<>>]
  /\ context = 0 /\ blocks = {} /\ to_free = <<>>
  /\ text_at = <<>> /\ returned = <<>> /\ written = <<>>

BridgeNext ==
  \/ \E opts \in OptionTables, arguments \in Arguments :
       GetContext(opts, arguments)
  \/ OutOfMemory
  \/ \E d \in pending : SetSlot(d)
  \/ SetOption \/ CopyOptionText
  \/ NewArgv \/ CopyArgument \/ CopyName \/ NewContext
  \/ CallNext
  \/ \E i \in DOMAIN options :
       \E value \in Integers32 \cup Texts : Store(i, value)
  \/ SyncSlots
  \/ \E kept \in Leftovers : GetArgs(kept)
  \/ \E ptr \in DOMAIN text_at : GetString(ptr)
  \/ FreeContext \/ FreeNext
  \/ \E d \in Dests : \E value \in ValuesOf[d] : Assign(d, value)

BridgeSpec == BridgeInit /\ [][BridgeNext]_allVars

-----------------------------------------------------------------------------
(* p4c_bridge.cpp rebuilds the option table in the sandbox, with one slot  *)
(* for each destination, not for each option: options may share one.  For  *)
(* the application poptGetNextOpt does what it does when popt is linked    *)
(* in: a destination gets the value that popt stored last, all others stay *)
(* as they are.  (P7B_NATIVE_INTEGRATION.md: "constructing U shadow slots, *)
(* synchronizing results".)                                                *)
Native ==
  INSTANCE NativePopt
    WITH dest <- [d \in Dests |-> IF d \in DOMAIN written THEN written[d]
                                  ELSE dest[d]],
         parsing <- at = "parsing"

LikeNativePopt == Native!Spec

(* P7B_NATIVE_INTEGRATION.md: the bridge is "constructing U shadow slots,  *)
(* synchronizing results".  A variable that popt stored nothing into has   *)
(* no result: poptGetNextOpt leaves it as the application has it, whatever *)
(* the application assigned to it after an earlier option.                 *)
SyncCopiesResultsOnly ==
  [][at = "parsing" /\ at' = "live" =>
       \A d \in Dests \ DOMAIN written : dest'[d] = dest[d]]_allVars

(* A popt context in U has the table and the arguments that T was given:   *)
(* two options share a slot when they share a destination, and only then,  *)
(* the slot is of the kind of its options, and every string is a live char *)
(* object with the text that T copied, however many strings the arena took *)
(* before; a null stays null.                                              *)
UHasWhatTGave ==
  context # 0 =>
    /\ Len(table.options) = Len(options)
    /\ \A i, j \in DOMAIN options :
         HasArg(options[i]) /\ HasArg(options[j]) =>
           (table.options[i].slot = table.options[j].slot
              <=> options[i].arg = options[j].arg)
    /\ \A i \in DOMAIN options :
         /\ HasArg(options[i]) =>
              table.slots[table.options[i].slot].kind
                = KindOfType(options[i].type)
         /\ \A n \in DOMAIN options[i].texts :
              LET ptr == table.options[i].texts[n] IN
              Accepted(ptr) /\ TextAt(ptr) = options[i].texts[n]
    /\ Len(argv) = Len(args)
    /\ \A i \in DOMAIN args : Accepted(argv[i]) /\ TextAt(argv[i]) = args[i]

(* A well-behaved popt never makes the bridge abort: the checks of T       *)
(* accept every string that went through typed memory, whatever was        *)
(* allocated since, and the sandbox side never refuses an index or a slot. *)
(* Only an unsupported table, or memory that has run out, is fatal.        *)
NoSpuriousAbort == failure \notin {"refused", "rejected"}

(* popt uses the table and argv for as long as its context exists: in no   *)
(* order of building and freeing contexts does it outlive them.            *)
ContextHoldsItsTables == context # 0 => blocks = {"table", "argv"}
=============================================================================
