# TLA+ models of the InterSpec typed allocator

InterSpec keeps trusted metadata about objects that live in untrusted (sandbox)
memory. Trusted code **T** runs a sandboxed library **U** (RLBox, on NaCl or on
wasm2c). Every object that crosses the boundary is allocated by T in a *typed
arena* inside the sandbox, at the request of U, with a type that T derives from
*where in U the request comes from*. When U later returns a pointer, T asks the
runtime whether the pointer lies in a live object of the expected type and how
many bytes are left. This directory models that mechanism, checks it with TLC
and proves the core of it with TLAPS.

## 1. Inventory

| Part | State it keeps | Operations | What is hard | What makes it correct |
|---|---|---|---|---|
| **Runtime** `include/interspec/runtime.h` | types in both directions, program-counter ranges, site bindings, live allocations, bump offset, one `shared_mutex` | `register_type`, `register_allocation_site`, `register_allocation_site_id`, `allocate`, `allocate_from_site`, `allocate_from_pc`, `reallocate`, `release`, `check`, `remaining_bytes`, `allocation_size`, `allocation_site` | neighbour-only searches in ordered maps, three overflow guards, multi-map updates, interleaved calls | exact lookup, disjoint objects and ranges, no address reuse, provenance, atomic calls |
| **PolicyRuntime** `include/interspec/policy_runtime.h` | a Runtime | `initialize`, `allocate_from_callback` | registration is a loop of separately locked calls that may fail midway; an allocation callback makes two lookups | whole policy or nothing; the fallback never changes an attribution |
| **Generated trusted code** `tools/generate_policy.py`, `generate_boundary_policy.py`, `generate_wasm_boundary_policy.py` | constants | `register_types`, `register_allocation_sites`, `register_helper_allocation_sites`, `register_wasm_allocation_policy`, `checked_access`, `checked_dynamic_access`, `check` | two loop styles, wrapping sums, variants that may drift apart | accept exactly the ranges inside one live object of the type |
| **Policy generators** (same tools) | output files | reading a policy and a boundary file, refusing, numbering sites, naming labels, imports and macros, emitting tables | two generators that may drift apart, names that become equal when they are made identifiers, site numbers of several linked policies | a site gets the type that its policy names; sites of other policies get nothing |
| **Source instrumentation** (same tools) | the text being rewritten | locate a `malloc` call from line and column, rewrite it, mark its function, rewrite allocations without a site by their shape | positions that earlier rewritings may have moved, stale or wrong positions, literals and comments | every reported call rewritten once, nothing else touched |
| **Backend patching** `backends/*/apply_backend.py` | files of a checkout | verify the commit, apply patches one by one | killed halfway, run again, context gone or there twice | success is the whole patch, a second run changes nothing |
| **NaCl backend** `backends/rlbox_nacl/apply_backend.py` | arena range, per-thread callback program counters | `reserveTypedArena`, guards in `mmap`, `munmap`, `mprotect`, `callback_program_counter` | overlap with rounding and wrap, nested callbacks | U never remaps the arena |
| **wasm2c backend** `backends/rlbox_wasm2c/apply_backend.py` | arena block in linear memory, callback table | `reserve_typed_arena`, `set_interspec_runtime`, host imports | imports called before the runtime is set, site numbers of several policies | unknown sites fail closed |
| **popt bridge, T** `integration/rsync_popt/p4c_bridge.cpp` | contexts, option slots, trusted copies | constructor of `Engine`, callbacks, `popt*` calls | start-up order, strings that are never released, caches | callbacks only after the policy is complete; copies inside one object |
| **popt bridge, U** `popt_typed_shim*.c`, `p4c_bridge_untrusted.c` | option table with shadow slots, argv, popt context | typed `free`, `realloc`, `strdup`; building and reading the tables | fall-through to libc when T refuses; calls that expect an order (slots, then options) | a typed object never reaches libc; popt sees the table that T was given |
| **Other integrations** `integration/{memcached_bipbuffer,nginx_libpcre,yaml_libyaml}`, `p7c_wasm_smoke.cpp` | a PolicyRuntime | check, then copy | use after check | the range stays with its object |
| **Policy inference** `analysis/ql`, `tools/codeql_policy_to_json.py` | none | query (external engine), conversion of its rows | rows in no fixed order, without a place, garbled | the policy is a function of the result and the generators take it |
| **Bridge transformers** `tools/build_p9a_*`, `build_p9b_*`, `build_p11_*` | none | text replacements that must find their block | a bridge that has changed | refuse, or write a bridge that is whole |
| **Measurement** `scripts/run_rlbox_nacl_poc.sh`, `tools/summarize_*`, `render_p9a_results.py` | CSV files | measure, filter, summarize, render | kills, paired ratios, derived files | whole repetitions only; the tables agree |
| **Evaluation and release** `scripts/run_p8_evaluation.sh`, `package_release.sh`, `tools/p7c_report.py`, `build_p8_report.py`, `render_p8_results.py` | report files | judge the manifest, write reports, package | steps that fail or are killed, incomplete entries, sums that hide them | what is released is complete |
| **Benchmarks, builds, proof of concept** `evaluation`, `scripts`, `poc` | none | - | - | - |

How they interact: a trusted application creates a sandbox, the backend
reserves the arena, `PolicyRuntime::initialize` runs the generated registration
against the symbols of the sandbox image, and only then are callbacks installed.
Afterwards U calls back into T for every typed allocation, reallocation and
release, from any of its threads; T calls `check` or `remaining_bytes` before it
uses a pointer. Everything meets in the Runtime and its mutex. Before that, the
tools form a chain of files: query rows become a policy, the policy and a source
file become headers and an instrumented source, a checkout becomes a patched
backend, a bridge for NaCl becomes bridges for the other configurations; after
it, samples become summaries and a manifest becomes a report and an archive.

## 2. Modules

| Module | Models | Relation |
|---|---|---|
| `TypedMemory` | the abstract promise: objects are born on addresses that were never handed out, die, or move keeping type and site | implemented by `InterspecRuntime` |
| `InterspecRuntime` | `runtime.h`, one step per call | the core |
| `RuntimeLocking` | the arena methods under `shared_mutex`, one step per statement group | implements the steps of `InterspecRuntime` |
| `PolicyRuntime` | start-up and allocation callbacks | EXTENDS `InterspecRuntime` |
| `TrustedUse` | generated access checks, check-then-use | EXTENDS `InterspecRuntime` |
| `NaClArena` | the arena in the sandbox's page map; `reserveTypedArena`, `TypedArenaOverlaps` and the guards in `mmap`, `munmap`, `mprotect` | stands alone |
| `NaClCallbacks` | the patched callback system call: saved program counters, nested callbacks, concurrent sandbox threads | EXTENDS `InterspecRuntime` |
| `TypedShim` | `interspec_typed_strdup`, `_free`, `_realloc` on the sandbox side, over the Runtime, libc and memory contents | EXTENDS `InterspecRuntime` |
| `NativePopt` | what an application sees of a popt that is linked in | implemented by `PoptBridge` when the application does not assign between options |
| `PoptBridge` | the popt calls of `p4c_bridge.cpp` and the tables of `p4c_bridge_untrusted.c` | EXTENDS `InterspecRuntime` |
| `SourceText` | reading C text: `source_offset`, `function_match`, `function_body`, `malloc_call_extent` | pure |
| `SourceInstrumentation` | the rewriting of a source file by the generators | EXTENDS `SourceText` |
| `Ordering` | sorting and filtering of sequences as Python does them, by rank instead of by a scan | pure |
| `PolicyGenerators` | what both generators accept, how they name and number, what they emit | EXTENDS `Ordering` |
| `GeneratedPolicies` | policies generated, compiled, linked, registered, and their sites reached under every active policy | EXTENDS `PolicyGenerators` |
| `CodeqlPolicy` | query rows to policy, joined with what the generators accept | EXTENDS `PolicyGenerators` |
| `BackendPatch` | `apply_backend.py`, both, with kills and repeated runs | stands alone |
| `BridgeTransforms` | the three bridge transformers, one replacement a step | stands alone |
| `MeasurementSummaries` | samples, the derived file, kills, three summaries | EXTENDS `Ordering` |
| `EvaluationReports` | manifest, reports, archive; failures, kills, commits | EXTENDS `Ordering` |
| `InterspecRuntimeProofs`, `RuntimeLockingProofs`, `TypedShimProofs`, `PoptBridgeProofs`, `OrderingProofs` | theorems about the module they are named after | EXTEND it |
| `TrustedSideProofs` | theorems about `PolicyRuntime`, `TrustedUse`, `NaClArena`, `NaClCallbacks` | EXTENDS them |
| `ToolchainProofs` | theorems about `BackendPatch`, `GeneratedPolicies`, `CodeqlPolicy` | EXTENDS them |
| `EvaluationProofs` | theorems about `EvaluationReports`, `MeasurementSummaries` | EXTENDS them |
| `MC...` | instances for TLC; `MCNames` holds names that two of them share | |
| `MCBackends`, `MCToolchain`, `MCEvaluation` | instances that put several components beside each other | see Runs |

### How the state corresponds to the code

`std::map` containers that are keyed by a field of their value (`allocations_`
by `base`, `sites_` by `begin`) are sets of records; an `unordered_map` is a
total function with a value for "absent" (`NoHash`, or 0 where the code refuses
0 as a key or value). A search is defined by what `lower_bound`, `upper_bound`
and `std::prev` return, never as "the element that contains": that the two agree
is a property (`LookupExact`, `PcProvenance`). A call that is refused changes
nothing in the code; it is a stuttering step. The three writes of
`register_allocation_site` are one step: between them only an exhausted host
memory could interfere, which is not modelled. Sums that could wrap are formed
with `Wrap`, after the guards that the code has. `arena_base = 0` is possible in
`InterspecRuntime`; `PolicyRuntime` assumes it away because `Engine` throws.
The functions `base`, `capacity`, `allocation_count` and `allocation_site_count`
only read; the private `find_site_by_id_unlocked` has no caller.

`NaClArena` acts on whole pages. The system calls are NaCl's own and are
modelled from the guards that the patch puts in front of them; NaCl's checks of
its arguments are left out, so only the patch protects the arena. The build is
for x86-64: lengths and addresses of system calls are far below the largest
`uintptr_t`, which `AddressAssumption` states. The branches of
`TypedArenaOverlaps` for a sum that wraps are in the model and not reachable
under that assumption: `OverlapExact` is about rounding and page borders.

`NaClCallbacks` keeps one saved program counter for each sandbox thread, as
`NaClSandbox_Thread` does, and no stack of them. `callback_program_counter()` of
the patched backend returns the *new* program counter, the same value as
`callback_new_program_counter()`; under NaCl the second lookup of
`allocate_from_callback` is therefore never made. `PolicyRuntime` keeps it, since
`policy_runtime.h` takes any backend.

In `TypedShim` a call is split at every callback, every libc call and every
copy. The popt library is any client that owns each of its objects in one thread
and writes inside them; "content" is a value that no other object has, stored in
every byte of the object, so a copy that is too short, too long or too late
shows. The NaCl and the Wasm file have the same control flow; `initialised` is
`interspec_popt_init_lifetime` in the first.

In `PoptBridge` a step is one iteration of a loop of `make_context`, or one call
of the application; the bridge is single-threaded. `written` is a history
variable: what popt stored since `poptGetNextOpt` was called, addressed by the
destination that the *application* gave, so that `LikeNativePopt` does not rest
on the slot numbers that it is about. `slot_by_address` is not a variable: a
destination has the number of those that were named before its first option
(`SlotOf`), which is what `kinds.size()` is when that option is met. `make_context` throws for a bad table, for
exhausted memory, and when U answers that an index is wrong; the entry points
turn every exception into `abort`.

A text in `SourceText` is a sequence of lexemes that each remember their place
in the original file and the site for which they were generated, so that "the
call that was reported" has a meaning that does not pass through the scanners of
the generator. The scanner of argument lists goes character by character where
the code does, because quotes, escapes and comments are what it can get wrong.
The instances build their files from calls and know where each call is; the
positions come from counting line feeds, as an analysis does.

In `PolicyGenerators` a name is a short sequence of letters, since two generators
turn names into identifiers in three ways (`macro`, `symbol`, `cpp`) and
different names may become one. The hash of a type name is the code's, over a
small alphabet and with a small modulus, so that collisions happen. The layout
of the headers is left out; what is kept is what the compiler and the linker
compare.

In `BackendPatch` a text is a sequence of patch contexts in their old or new
form; `keeps` tells whether the new form contains the old one, `starts` whether
it begins with it. Writing a file is two steps, since opening it empties it. A
killed write leaves any start of the text (`LeftOf`), also one that ends inside
a replacement, where of a patch that `starts` the old context is there again.
`cut` is a history variable, the files of which a write was killed: if only what
comes after the last context is missing, the tool cannot see it, and
`SuccessIsTheWholePatch` says of such a file only that every patch is in it.

In `BridgeTransforms` a bridge
is the sequence of the pieces of text that the transformers name.
`MeasurementSummaries` computes whole percentages, exactly: by
`MeasurementAssumption` every time divides a hundred times every other. The code
divides floating-point numbers; how those round is left out. Twice the median
and the sum stand for the median and the mean. `csv.writer` fills a buffer of
bytes, so a kill cuts a file anywhere: between two rows, in the last number,
which `int()` then takes for a shorter time, or before it, which no tool accepts
(`LastRow`, `CutOf`). `EvaluationReports` keeps of the
manifest what the reports judge.

`sorted(...)` and list comprehensions are `Sorted` and `Picked` of `Ordering`:
the element at place *n* is the one that *n - 1* others come before. A stable
sort is thus a definition and not a recursion, TLC evaluates it on small lists,
and the provers can reason about it without induction over sequences.

The definitions whose name has an underscore and a suffix
(`Erase_RewindsBump`, ...) are mutants: the way a plausible bug would change the
definition that follows. Nothing in the models uses them.

## 3. Runs

| Run | Question | Bounds |
|---|---|---|
| `arena` | Does any order of allocations, moves and releases break the layout, the exactness of lookup, provenance, or hand an address out twice? Refines `TypedMemory`. | 6-bit words; an arena of 39 bytes ending at the last address (4 slots and a short tail); sizes 0, 5, 8, 9, 39, 60: refused, padded, exact, two slots, one that fits until it is rounded, one whose rounding would wrap; 2 types, 2 sites, one range |
| `registry` | Can any order of registrations make the maps disagree, ranges overlap, or a binding change? The arena would wrap and stays empty. | ranges over 6 program counters (touching, nested, enclosing), 3 sites, 2 types |
| `policy` | Does start-up end with the whole policy or with a failure? Can a callback be attributed to the wrong site while it waits between its lookups? Do both end? | 2 threads, arena of 2 slots, good and bad symbol tables and policies |
| `use` | Do the generated checks of both backends accept exactly the right ranges, and the same ones? Does a range stay with its object until it is used? | 5-bit words, arena ending at the last address, offsets and lengths up to 31, two consumers that each hold a range |
| `backends` | Can a sequence of system calls take a page of the arena from T? Is the overlap test exact? Is an allocation attributed to the call that asked for it? Does patching end with the whole patch, and never lose one? | 5 pages of 4 bytes, every start address, lengths 0, 1, a page, a page and a half, everything; arenas of 0, 1, 4 and 6 bytes. 2 threads, 2 levels of nesting, 2 sites with a gap. The patches of NaCl, three runs, killed writes that leave any start of a file, a checkout in which one context is missing, doubled, patched, or both |
| `typed_shim` | Do contents survive reallocations while other threads run? Does libc get only its own pointers? Is nothing lost or leaked when T refuses? | 2 threads with one object each and one call in progress, 2 contents, arena with room for one long and two short objects, one libc block |
| `popt_bridge` | Does U get the table and argv that T was given, whole or not at all? Does popt through the bridge store what native popt stores? Does the bridge ever abort over correct data? | one int and one string variable; a table in which two options share a variable, a plain one, two that must be refused; 0 or 2 arguments; an arena that fills up in the first or a later context |
| `popt_bridge_assigns` | The same when the application assigns to its own option variables between two options. **Violated**, see below. | as above |
| `locking` | Are calls atomic, are iterators valid, does every call return? | 3 threads, one of which calls twice; 2 slots, 1 type registered and one not |
| `toolchain` | Is a source rewritten as reported, whatever the report? Do sites keep their type through generation, linking and registration? Do the generators agree? Does the policy depend on the order of rows? Are transformed bridges whole? | 38 files of two functions (literals, comments, nested calls, calls over several lines, nested calls over several lines), each with every choice of its calls in either order, with and without allocations by shape, and with six kinds of wrong report; all policy shapes over four names, three site bases, and pairs of policies; results of up to three rows; the bridge and every bridge one or two edits away |
| `source_page_break` | The same for a file with a form feed. **Violated**, see below. | one file with two calls in one function |
| `evaluation` | Are summaries made of whole repetitions, do the tables agree, is what is released complete? | one workload with four times and two repetitions, two workloads with three times and one repetition, two workloads with two repetitions that all take the same time; killed anywhere, within a row too; manifests of two entries in which each may lack one of ten things, one commit meanwhile |

`backends`, `toolchain` and `evaluation` each put components beside each other
that share files but no state: the variable `part` says at the start which of
them acts, and the variables of the others stay at one initial state. Nothing is
lost by this, since a step of one component is never enabled or disabled by
another; each component has its own `...Spec` and can be run alone.

Some properties are conjunctions, stated beside their parts:
`InstrumentedAsReported` (waiting sites stay in place, each site is its call and
lies in its function, only reported calls change, functions are marked once, no
comment grows unless an argument ends in one),
`SitesKeepTheirType` (own sites, foreign sites, registration),
`PolicyIsTheResult` (order of rows, places, accepted by the generators),
`BridgesAreWhole` (P9a, wasm2c, baseline), `TablesAreOfWholeRepetitions`,
`OverheadsAgree` (P8 against P9a, drift, factors), `EvidenceIsComplete`
(completion, test helpers, archive, numbering), `HeldIsAllocated` (each object
that a client holds is allocated, and none is lost). The type invariants of the
modules with proofs are proved and not run; those of the others document the
variables.

The bounds are enough for the cases that the code distinguishes: an ordered map
with a predecessor, a successor, both, or none; a full arena, a hole, a tail
that is too short; one call that fails between two that succeed. The bump
offset only moves at allocations, so the number of slots bounds every run
without a constraint.

### Findings

*Assignments between two options are undone* (`popt_bridge_assigns`).
`sync_slots` writes *every* destination of the table after each
`poptGetNextOpt`, from shadow slots that are filled when the context is made and
that the application's own assignments never reach. `P7B_NATIVE_INTEGRATION.md`
speaks of "synchronizing results"; the run shows that a variable without a
result is reset too. An application whose option loop assigns to variables that
are also destinations (an option that implies others) loses those assignments at
the next option. `popt_bridge` therefore assigns only while there is no context;
there the bridge implements `NativePopt`.

*Lines are counted in two ways* (`source_page_break`). `source_offset` uses
`str.splitlines`, which also ends a line at a form feed; the positions it is
given count line feeds, as `tests/policy_codegen_hardening.py:16` computes them.
With a form feed before the call the site is put around another `malloc` of the
same function, or the file is refused. `toolchain` has no such files.

Six smaller disagreements have no run of their own; the passing properties name
the condition that leaves them out.

* A line feed inside a nested call makes an exact policy fail.
  `malloc_call_extent` strips the argument of a call, line feeds included
  (`generate_policy.py:152`), before `instrument_site` puts it back. In
  `malloc(malloc(<line feed>n))` the inner call is rewritten first; the end of
  the outer one, reported for the file as it was, then names a place that is not
  there, and `source_offset` refuses it. `P7A_PROVENANCE.md:37` promises labels
  "for each precise CodeQL allocation fact". Nothing is rewritten wrongly: the
  tool stops. `FaithfulPolicyIsAccepted` claims acceptance only where no inner
  call loses a line break, or more blanks than its replacement is longer
  (`EndsStay`). `toolchain` has files on both sides of that condition; without
  it (`ExactPolicyIsAccepted`) TLC answers with such a file.
* A comment at the end of an argument swallows what follows. In
  `malloc(n // comment<line feed>)` the same `strip()` takes the line feed that
  ends the comment, and the rest of the replacement is written into the comment.
  The tool reports no error; the compiler will. `P7B_NATIVE_INTEGRATION.md:40`
  says that sites are instrumented "from their exact source spans".
  `InstrumentedAsReported` asks for `CommentsStay` where no rewritten call has
  such an argument (`EndsInLineComment`); its other parts hold for these files
  too, and `toolchain` has them.
* Two helpers whose names differ in characters that are not letters or digits
  get one macro (`generate_wasm_boundary_policy.py:47-48`), and the later one
  wins; `P9B_EVALUATION.md:47` gives each helper its own import.
  `OwnSitesGetTheirType` asks for `MacrosAreDistinct`.
* `regex_once` reports "expected exactly one" but replaces with `count=1` and so
  accepts a second match (`build_p9b_wasm2c_bridge.py:15-18`). `WasmBridgeIsWhole`
  asks for a bridge in which no piece is there twice.
* The rows of the automation table include entries of other roles than the
  claimed ones (`build_p8_report.py:37`), while `P8_EVALUATION.md:114` speaks of
  real boundaries. `ArchiveIsComplete` sums over the real ones.
* The rendered results name the commit at which they are *packaged*
  (`package_release.sh:91`), `P8_EVALUATION.md:94` the one that was evaluated. No
  passing property relates them.

### Fairness

Safety runs assume none. `policy` (`FairPolicySpec`) assumes that the
constructor of `Engine` runs on and that a thread inside a callback is
scheduled; U need not ever call. `locking` (`FairLockSpec`) assumes weak fairness
of each thread that is inside a call, and nothing about the order in which
`shared_mutex` serves threads: the standard promises none. That is why the
property is about a bounded number of calls: with readers that keep coming a
writer may starve, and the code accepts that.

## 4. Proofs

All proofs are for every value of the constants that satisfies the named
assumptions of the modules (`WordAssumption`, `InputAssumption`,
`NameAssumption`, `UseAssumption`, `PolicyAssumption`, `LockingAssumption`,
`CallbackAssumption`, `BackendPatchAssumption`, `AddressAssumption`,
`ShimAssumption`, `BridgeAssumption`, `TableAssumption`, `GeneratorAssumption`,
`ProjectsAssumption`, `CodeqlAssumption`, `EvaluationAssumption`,
`MeasurementAssumption`). TLC evaluates each of them. `TableAssumption` is popt's
own contract: in a table that `make_context` accepts, an option points to a
variable of the option's type. The assumptions of the tools say what a file that
was parsed can hold: a policy has sequences of sites with natural positions, a
query result is rows of text, a manifest is a sequence of entries, workloads are
the keys of a dictionary and times are not negative. One of them is a limit of
the model: the exact division of `MeasurementAssumption`. Of the theorems only
`FactorsMultiply`, a part of `OverheadsAlwaysAgree`, uses it; without it the
rounded factors would miss each other by the rounding.

`InterspecRuntimeProofs`, for every word size of at least three bits, every
arena, and all sets of types, sites, sizes and program counters:

* `TypeCorrect`, from the invariant `Typed`: types alone are not inductive, the
  bump pointer must be known to stay inside the arena for the sums not to wrap
  (`AllocationFits`).
* `RegistryIsConsistent`: `TypesInverse`, `SitesIndexed` and
  `BoundTypesRegistered` together; none of them is inductive alone.
* `PcProvenanceHolds`: ranges stay disjoint. A new range is compared with two
  neighbours; that it then avoids all others needs the existence of those
  neighbours, from the least-number principle (`LeastNumber`, from
  well-foundedness of `<`), and the disjointness so far. Exact lookup follows
  from disjointness (`DisjointMakesSiteLookupExact`).
* `ArenaLayoutHolds` and `LookupIsExact`: objects below the bump pointer are
  never met by a new one; exact lookup again follows from disjointness.
* `ProvenanceHolds` and `BindingsStay`, from `RegistryGrows`.
* `RuntimeImplementsTypedMemory`: the refinement, with the addresses below the
  bump pointer as the spent ones.

`StepKinds` reduces a step to what it does to the registry or to the arena; the
step lemmas have one case for each kind.

`TrustedSideProofs`, on the use of a range. The invariant `UseInv` adds to the layout of the runtime
that a held range lies below the bump pointer and that every live object other
than its owner is disjoint from it, whether or not the owner is still alive.
That survives a release (nothing is born), an allocation (it is born above the
bump pointer) and a reallocation (both). `AcceptanceExact` needs no more than
the layout: at most one object contains an address, and the search finds it.

`TrustedSideProofs`, on the policy runtime. Every step of the composition is a step of the runtime
(`PolicyStepIsRuntimeStep`), so its theorems carry over. `FallbackInv` says that
a thread between its lookups, whose first program counter has a site, had asked
for more than was left; capacity is never given back (`UsedGrows`), so the
second lookup fails too (`FullStaysFull`). `StartUpInv` counts the types and
sites that are registered against the loop index and remembers whether one was
refused: that is why a later success cannot hide an earlier failure.

`RuntimeLockingProofs`, for any number of threads and calls. `LockInv` says who
holds the mutex in which mode (`MutexInv`), at which statements a method may
stand (`PointsInv`), and that what a search found is still what it would find
(`FoundInv`). The last one holds because the map changes only under the
exclusive lock, and then nobody else is inside. `NoDanglingIterators` and
`QueriesAreAtomic` follow. For the refinement, `CommitInv` says how far the
writer has got: at each of its statements the arena is the one at the last
release of the lock, changed by exactly the statements already done. So what it
leaves behind is one call of `InterspecRuntime` (`SectionsAreAtomic`, the
property that the run checks), and the arena at the last release of the lock is
a refinement mapping to it (`LockedRuntimeRefines`).

`TrustedSideProofs`, on NaCl, for every address space, page size and arena, any number of
threads and any depth of nesting. For the arena, `NaClArenaInv` keeps the
reserved range at whole pages inside the address space (`Reserved`): without it
the unchecked sums of `TypedArenaOverlaps` could wrap. With it the test is exact
(`OverlapTestIsExact`), and no system call that passes it can meet a page of the
arena (`ArenaIsAlwaysUsable`). For the callbacks, `CountersKept` is the point:
there is one saved counter for each thread, nested calls overwrite it, and this
is harmless because only the innermost callback of a thread has still to read
it.

`TypedShimProofs`, for any number of threads, sites, sizes and contents. The
properties of `TypedShim` speak of what clients hold; a call in progress holds
objects too, so `ShimInv` gives every object of the arena and every block of
libc exactly one that answers for it, a client or a call at one of its steps
(`Claims`, with `ClaimsBacked`, `ClaimsUnique` and `ClaimsCover`). `CallKnows`
says what a call in progress has learnt, and `Forgotten` follows the bytes of an
object that T has already replaced while U has still to copy them: they stay as
they were since the arena hands no address out twice. `HeldObjectsAreAllocated`,
`LibcSeesOnlyItsOwn` and `ContentsArePreserved` follow.

`PoptBridgeProofs`, for every option table and argv, every arena, and any number
of contexts one after the other. `BridgeInv` has a part for each thing that the
steps of `make_context` build. `Memory`: each string in U is a live `char` object
of its own size, because a context is the only object that is released, and it
is not one of the strings; this is what makes the checks of T accept
(`TextsAreAccepted`). `SlotsHold`, `OptionsHold` and `ArgvHolds`: what is copied
so far is right, and the phase `at` tells how far that is. `Phases`: where there
may be a context, and that it holds its table and argv. Slot numbers count the
destinations that came before, so two destinations get two slots because the
one set is a strict subset of the other (`SlotsAreDistinct`).
`UHasTheTable`, `ContextsHoldTheirTables` and `AbortsHaveACause` follow.
`ShadowsHold` is for the refinement: if all slots were copied back now, the
application would have what it has, except where popt has stored since
`poptGetNextOpt` was called. An assignment of the application between two
options breaks it, so `BridgeIsLikeNativePopt` assumes `~ AssignsMeanwhile`;
`popt_bridge_assigns` shows that the assumption is needed. The other theorems do
not make it.

`ToolchainProofs`, on the backend patch, for every list of patches, every checkout and any number
of runs, so also for the four patches of wasm2c, which have no run.
`PatchInv` describes a text while it is partly patched: below the next patch all
are in, and a text is the checkout with some of its first contexts replaced,
unless a write of its file was killed. Of such a file (`cut`) only that it is a
text of fragments is known. It still holds that a patch below the next one is in
it, since a write only adds (`ReplacedGrows`, `PartialGrows`), and a run after
the kill starts again at the first patch.

`OrderingProofs`, for all lists and keys of one length. `Sorted` and `Picked` are
defined by ranks, so the ground is one counting argument: in a finite set with a
total order the rank of an element is a bijection onto `1 .. Cardinality`
(`RankIsBijection`: the smaller of two elements has strictly fewer below it, and
an injection between sets of one size is onto). From it, what a filter takes and
where (`PickedFinds`), that a sort is a stable permutation (`SortedFinds`), and
`SortForgetsOrder`: if the key tells the entry, two lists of the same entries
sort to one list. The proofs about the tools cite these and need no induction.

`ToolchainProofs`, on the generated policies, for all sets of policies that are
generated and linked together. `SitesOfJob`: both generators number the sites of
a policy consecutively and give site *n* the *n*-th declared type, although one
does it in two tools, one after the other, and the other adds a base. Acceptance then gives that the
emitted registration cannot fail (`TypesOfAcceptedRegister`,
`SitesOfAcceptedRegister`), that a label or an import leads to one site
(`LabelsAreDistinct`, `ImportsLeadToTheirSite`), and so that an own site is found
and a foreign one is not. `GeneratedInv` only has to say that what is generated
was accepted, what is built links, and the registered sites are those of the
active policy. `GeneratedSitesKeepTheirType` and `GeneratorsAlwaysAgree` follow.

`ToolchainProofs`, on the policy of a query, for all results. `CodeqlInv` says
that the lists read so far are those of *some* order of the rows read so far;
`SortForgetsOrder` turns "some" into "any" when the file is written. That every
policy so written is one that the generators take (`WrittenIsTaken`) goes through
the same definition of acceptance as the theorems above.

`EvaluationProofs`, on the reports, for all manifests. `EvaluationInv` keeps for
each report file what it is a function of: the deterministic report is that of
some manifest with all security cases passed, and the CSV file is that of the
report; a run that is killed leaves older files, but never a pair that does not
belong together. `CompletionOfManifest` says what a report that calls itself
complete has of every claimed entry, `TestHelpersNeverCount` that a test helper
added to a boundary changes no ratio, and `RuntimeRowsAreSorted` and
`HeadingsAreNumbered` are about the rendered results. Together:
`EvidenceIsAlwaysComplete`.

`EvaluationProofs`, on the measurement, for all lists of workloads, any number of
repetitions, and a kill at any byte. Place *n* of the stream is a workload, a
repetition and a place in its order of modes, and the other way round
(`PlaceOfSample`, `SampleAtPlace`; division has one quotient and one remainder),
and each of the six orders has every mode once. So the stream has no duplicate
(`StreamHasNoDuplicate`) and, when it is complete, is whole (`StreamIsWhole`).
`MeasureInv` says that a file is the stream up to where a kill cut it, and that a
row that is not `Readable` makes every tool refuse (`UnreadableIsRefused`); what
is left are the places of the stream with other times, and none of the counting
is about times. It also says that a table is what its tool makes of its file. In a file that a tool accepts, samples
of one mode and repetitions correspond one to one (`OneOfEachMode`): this is
`TablesAreAlwaysWhole`. For `OverheadsAlwaysAgree`, the derived file keeps the
times of the two modes in their order (`TimesAreKept`, because there is one
increasing enumeration of a set of numbers, `OneIncreasingOrder`), the two tools
for P8 refuse the same files (`RefusalsAgree`), doubling both times of a pair
keeps the quotient (`SlowerByTwo`), and the ratios of one repetition multiply
(`RatiosMultiply`).

## 5. Only model-checked

* All liveness (`ConstructorEnds`, `CallbacksReturn`, `CallsReturn`): fairness and
  `ENABLED` are beyond the prover.
* `InstrumentedAsReported` and `FaithfulPolicyIsAccepted` of
  `SourceInstrumentation`: the scanners of `SourceText` walk a text lexeme by
  lexeme, and what they compute for every text needs induction over sequences.
* `BridgesAreWhole` of `BridgeTransforms`: for texts without any restriction it is
  not true, since a text may already hold the block that a replacement puts in.
  The instance says which texts are meant, those in which functions have their
  own bodies and braces match.

## 6. Not modelled

* NaCl, the wasm2c compiler, libc, popt and the CodeQL engine. Where they answer
  (a compiler, a linker, a query, a system call) they are external definitions.
* The full 64-bit hash of type names: the code's fold is modelled over a small
  modulus.
* The layout of generated headers, CSV formats (except where a kill cuts them),
  and the rendering of numbers.
* C that the generators refuse anyway: braces in literals and comments, and
  K&R headers, are in the files of `toolchain` only as texts that may be refused.
* Host memory that is exhausted inside the Runtime: the entry points of the
  bridge turn every exception into `abort`.
* A generator killed between two of its output files: the build scripts generate
  into a fresh directory and stop at the first failure.
* Scripted scenarios of the memcached, libpcre and libyaml integrations beyond
  their checks and uses, benchmarks, build scripts and the proof of concept:
  they keep no state that outlives a run.
* `reserve_typed_arena` and `sandbox_address` of the wasm2c backend, a `malloc`
  in the sandbox and a conversion.

## 7. Plan

Done: the modules above, and proofs of every safety property except those of
section 5. What is left is a notion of "a bridge" that is weaker than the one of
`MCBridgeTransforms`, strong enough for `BridgesAreWhole`, and does not name the
edits; and scanners for `SourceText` that are defined, as `Ordering` is, by the
places they find instead of by how they get there.
