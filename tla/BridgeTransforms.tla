-------------------------- MODULE BridgeTransforms --------------------------
(***************************************************************************)
(* The bridges of rsync/popt that are made from the NaCl bridge            *)
(* integration/rsync_popt/p4c_bridge.cpp by rewriting its text:            *)
(*   p9a  tools/build_p9a_rlbox_only_bridge.py: NaCl without InterSpec     *)
(*   p9b  tools/build_p9b_wasm2c_bridge.py: the bridge for wasm2c          *)
(*   p11  tools/build_p11_wasm2c_rlbox_only_bridge.py, after p9b: wasm2c   *)
(*        without InterSpec                                                *)
(* The transformers do not parse C++.  They look for fixed blocks of text, *)
(* or for a begin and the next end of something, and refuse when they do   *)
(* not find them.  The bridge changes, and they are run on what it is then.*)
(*                                                                         *)
(* A text is a sequence of pieces, and a pattern a sequence of blocks: the *)
(* first block of pieces, anything, the next block, and so on.             *)
(***************************************************************************)
EXTENDS Integers, Sequences, SequencesExt

CONSTANT Sources   \* texts of the bridge

VARIABLES
  tool,     \* "p9a", "p9b" or "p11"
  bridge,   \* the bridge
  text,     \* the text being transformed
  step,     \* the replacement it is at
  bridgeStage     \* "transforming", "refused" or "written"

transformVars == <<tool, bridge, text, step, bridgeStage>>

-----------------------------------------------------------------------------
(* Finding and replacing. *)

IsBlockAt(t, block, n) ==
  /\ n + Len(block) - 1 <= Len(t)
  /\ \A k \in DOMAIN block : t[n + k - 1] = block[k]

PlacesOf(t, block, from) == {n \in from .. Len(t) : IsBlockAt(t, block, n)}

(* The end of a match of the blocks from a place on, each where it is      *)
(* first after the one before; 0 if there is none.                         *)
MatchEnd(t, pattern, from) ==
  FoldLeft(LAMBDA last, block :
             IF last = 0 \/ PlacesOf(t, block, last + 1) = {} THEN 0
             ELSE Min(PlacesOf(t, block, last + 1)) + Len(block) - 1,
           from + Len(Head(pattern)) - 1, Tail(pattern))

Matches(t, pattern) ==
  {n \in PlacesOf(t, Head(pattern), 1) : MatchEnd(t, pattern, n) # 0}

Rewritten(t, pattern, replacement) ==
  LET n == Min(Matches(t, pattern))
  IN  SubSeq(t, 1, n - 1) \o replacement \o SubSeq(t, MatchEnd(t, pattern, n) + 1, Len(t))

(* A replacement: strict is replace_once, which counts; otherwise it is    *)
(* regex_once, where re.subn stops after the first match.                  *)
Strict(block, new) == [strict |-> TRUE, pattern |-> <<block>>, new |-> new]
Regex(pattern, new) == [strict |-> FALSE, pattern |-> pattern, new |-> new]

CanReplace(t, r) ==
  IF r.strict THEN Cardinality(Matches(t, r.pattern)) = 1 ELSE Matches(t, r.pattern) # {}

-----------------------------------------------------------------------------
(* The pieces of the bridge, in its order, and what the tools look for.    *)

CONSTRUCTOR ==
  <<"Engine() {", "create nacl sandbox", "reserve_typed_arena", "initialize_from_sandbox",
    "sandbox_storage", "register_callback", "invoke init_lifetime", "}">>

COPY_TO_U == <<"copy_to_u {", "typed_copy", "}">>

P8_NO_CHECK == <<"#ifdef NO_VALIDATION">>

Bridge ==
  <<"nacl headers", "popt policy header", "nacl type", "p4c_release_fn", "p4c_size_fn",
    "p4c_realloc_fn", "init_lifetime", "U functions", "class Engine", "p4c_allocate;",
    "p4c_release;", "p4c_reallocate;", "class {">>
  \o CONSTRUCTOR
  \o <<"sandbox()", "runtime()", "allocate_for_callback_pc {", "callback_pc", "}">>
  \o COPY_TO_U \o <<"copy_checked {">> \o P8_NO_CHECK
  \o <<"check", "}", "private:", "callback types", "sandbox_", "policy_runtime_",
       "callback members", "trusted_strings_", "engine()", "engine_from {", "}",
       "p4c_allocate {", "}", "p4c_release {", "}", "p4c_reallocate {", "}",
       "enum SlotKind", "API">>

(* Mutant: the constructor is found by its begin and end. *)
P9a_Spans ==
  <<Regex(<< <<"Engine() {">>, <<"}">> >>,
          <<"Engine() {", "create nacl sandbox", "sandbox_storage", "}">>),
    Strict(COPY_TO_U, <<"copy_to_u {", "malloc_in_sandbox", "}">>),
    Strict(P8_NO_CHECK, <<"#ifdef RLBOX_ONLY", "#elif NO_VALIDATION">>)>>

(* p9a: RLBOX_ONLY_CONSTRUCTOR and so on. *)
P9a ==
  <<Strict(CONSTRUCTOR, <<"Engine() {", "create nacl sandbox", "sandbox_storage", "}">>),
    Strict(COPY_TO_U, <<"copy_to_u {", "malloc_in_sandbox", "}">>),
    Strict(P8_NO_CHECK, <<"#ifdef RLBOX_ONLY", "#elif NO_VALIDATION">>)>>

P9bConstructor ==
  <<"Engine() {", "create wasm sandbox", "reserve_typed_arena",
    "register_wasm_allocation_policy", "sandbox_storage", "set_interspec_runtime", "}">>

P9b ==
  <<Strict(<<"nacl headers">>, <<"wasm headers">>),
    Strict(<<"popt policy header">>, <<"policy header">>),
    Strict(<<"nacl type">>, <<"wasm type">>),
    Regex(<< <<"p4c_release_fn">>, <<"p4c_realloc_fn">> >>, <<>>),
    Regex(<< <<"init_lifetime">> >>, <<>>),
    Regex(<< <<"class Engine", "p4c_allocate;">>, <<"p4c_reallocate;">> >>,
          <<"class Engine", "p9b functions;">>),
    Regex(<< <<"Engine() {">>, <<"}", "sandbox()">> >>, P9bConstructor \o <<"sandbox()">>),
    Regex(<< <<"allocate_for_callback_pc {">>, <<"}">> >>, <<"allocate_for_site {}">>),
    Regex(<< <<"private:", "callback types">>, <<"callback members">> >>,
          <<"private:", "sandbox_", "policy_runtime_">>),
    Regex(<< <<"engine_from {">>, <<"}", "p4c_allocate {">>, <<"}", "enum SlotKind">> >>,
          <<"p9b functions {}", "enum SlotKind">>)>>

(* text.replace: where the fields of the class are there twice, once.      *)
Fields == <<"sandbox_", "policy_runtime_">>

WithoutSecondFields(t) ==
  IF PlacesOf(t, Fields \o Fields, 1) = {} THEN t
  ELSE Rewritten(t, << Fields \o Fields >>, Fields)

P11 ==
  <<Regex(<< <<"Engine() {">>, <<"}", "sandbox()">> >>,
          <<"Engine() {", "create wasm sandbox", "sandbox_storage", "}", "sandbox()">>),
    Regex(<< <<"copy_to_u {">>, <<"}", "copy_checked {">> >>,
          <<"copy_to_u {", "malloc_in_sandbox", "}", "copy_checked {">>)>>

forbidden ==
  {"reserve_typed_arena", "set_interspec_runtime",
   "register_wasm_allocation_policy", "typed_copy"}

Steps ==
  CASE tool = "p9a" -> P9a
    [] tool = "p9b" -> P9b
    [] tool = "p11" -> P9b \o P11

-----------------------------------------------------------------------------
TransformTypeOK ==
  /\ tool \in {"p9a", "p9b", "p11"}
  /\ step \in 1 .. (Len(Steps) + 1)
  /\ bridgeStage \in {"transforming", "refused", "written"}
  /\ Len(text) <= Len(bridge) + 2

TransformInit ==
  /\ tool \in {"p9a", "p9b", "p11"}
  /\ bridge \in Sources
  /\ text = bridge
  /\ step = 1
  /\ bridgeStage = "transforming"

(* One call of replace_once or regex_once; after the last one of p9b the   *)
(* doubled fields go.                                                      *)
ReplaceBlock ==
  /\ bridgeStage = "transforming"
  /\ step \in DOMAIN Steps
  /\ IF CanReplace(text, Steps[step])
     THEN LET t == Rewritten(text, Steps[step].pattern, Steps[step].new) IN
          /\ text' = IF tool # "p9a" /\ step = 9 THEN WithoutSecondFields(t) ELSE t
          /\ step' = step + 1
          /\ UNCHANGED bridgeStage
     ELSE /\ bridgeStage' = "refused"
          /\ UNCHANGED <<text, step>>
  /\ UNCHANGED <<tool, bridge>>

(* Only p11 looks at its result.  The output is written at the very end.   *)
WriteBridge ==
  /\ bridgeStage = "transforming"
  /\ step > Len(Steps)
  /\ bridgeStage' = IF tool = "p11" /\ Range(text) \cap forbidden # {} THEN "refused" ELSE "written"
  /\ UNCHANGED <<tool, bridge, text, step>>

TransformNext == ReplaceBlock \/ WriteBridge

TransformSpec == TransformInit /\ [][TransformNext]_transformVars

-----------------------------------------------------------------------------
(* "The sandbox and host-side API bridge remain unchanged": undoing the    *)
(* three replacements gives the bridge back, nothing else is touched.      *)
Undone(t) ==
  FoldLeft(LAMBDA u, r : IF Matches(u, <<r.new>>) = {} THEN u
                         ELSE Rewritten(u, <<r.new>>, r.old),
           t,
           <<[new |-> P9a[1].new, old |-> CONSTRUCTOR],
             [new |-> P9a[2].new, old |-> COPY_TO_U],
             [new |-> P9a[3].new, old |-> P8_NO_CHECK]>>)

P9aChangesThreeBlocks == tool = "p9a" /\ bridgeStage = "written" => Undone(text) = bridge

NoRepeats(t) ==
  \A m, n \in DOMAIN t : t[m] = t[n] /\ t[m] # "}" => m = n

NaClPieces ==
  {"nacl headers", "nacl type", "p4c_release_fn", "p4c_realloc_fn", "init_lifetime",
   "create nacl sandbox", "initialize_from_sandbox", "register_callback",
   "invoke init_lifetime", "callback_pc", "p4c_allocate {", "callback types",
   "callback members"}

(* tests/p9b_bridge_transform.py asserts it for today's bridge: nothing    *)
(* that ties the bridge to the NaCl sandbox is left in one for wasm2c, and *)
(* its one constructor is the new one.  Here for any bridge in which pieces*)
(* are missing, moved or added: each step that no longer finds its place   *)
(* refuses.                                                                *)
WasmBridgeIsWhole ==
  bridgeStage = "written" /\ tool # "p9a" /\ NoRepeats(bridge) =>
    /\ Range(text) \cap NaClPieces = {}
    /\ Cardinality(PlacesOf(text, <<"Engine() {">>, 1)) = 1
    /\ "create wasm sandbox" \in Range(text)
    /\ tool = "p9b" => PlacesOf(text, P9bConstructor, 1) # {}

(* A bridge that serves as the baseline without InterSpec has no call left *)
(* that sets it up or allocates through it, whatever the bridge was.       *)
BaselineIsClean ==
  bridgeStage = "written" /\ tool = "p11" =>
    Range(text) \cap {"reserve_typed_arena", "set_interspec_runtime",
                      "register_wasm_allocation_policy", "typed_copy"} = {}

(* Each transformer refuses, or writes a bridge that is what it is for     *)
(* (replace_once of build_p9a_rlbox_only_bridge.py, regex_once of          *)
(* build_p9b_wasm2c_bridge.py, the forbidden words of                      *)
(* build_p11_wasm2c_rlbox_only_bridge.py), however the bridge it is given  *)
(* differs from the one it was written for.                                *)
BridgesAreWhole ==
  /\ P9aChangesThreeBlocks
  /\ WasmBridgeIsWhole
  /\ BaselineIsClean
=============================================================================
