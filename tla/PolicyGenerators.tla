-------------------------- MODULE PolicyGenerators --------------------------
(***************************************************************************)
(* What the policy generators accept and what they emit: for NaCl          *)
(* generate of tools/generate_policy.py, extended by generate_boundary of  *)
(* tools/generate_boundary_policy.py, and for wasm2c generate_wasm_boundary*)
(* of tools/generate_wasm_boundary_policy.py.  SourceInstrumentation has   *)
(* the rewriting of the C text; here is everything else.                   *)
(*                                                                         *)
(* A job is one run of a generator:                                        *)
(*   backend         "nacl" or "wasm"                                      *)
(*   namespace       the argument --namespace                              *)
(*   base            the argument --site-id-base                           *)
(*   types           the type names of the policy, a sequence              *)
(*   allocations     a sequence of [type, function, precise]: precise when *)
(*                   the entry has the key "site"                          *)
(*   uses            a sequence of [name, type, offset, bytes, dynamic];   *)
(*                   bytes is a set: empty when the key is missing         *)
(*   extra_types     the types of the boundary, a sequence                 *)
(*   helpers         the helper sites of the boundary, [name, type]        *)
(* A name is a sequence of characters.  A generated text is the set of     *)
(* definitions in it.                                                      *)
(***************************************************************************)
EXTENDS Ordering, SequencesExt

CONSTANTS
  Alphabet,      \* the characters of names
  Byte,          \* character -> its code
  HashModulus,   \* 2^64
  MaxSiteId      \* the largest uint32_t

ASSUME GeneratorAssumption ==
  /\ Byte \in [Alphabet -> Nat]
  /\ HashModulus \in Nat \ {0}
  /\ MaxSiteId \in Nat \ {0}

-----------------------------------------------------------------------------
(* Names in generated code.  Every conversion forgets something.  Two     *)
(* letters stand for all, and no digits are in names.                      *)

Lower == <<"a", "b">>
Upper == <<"A", "B">>
Letters == Range(Lower) \cup Range(Upper)

Cased(c, from, to) ==
  IF c \in Range(from) THEN to[CHOOSE n \in DOMAIN from : from[n] = c] ELSE c

hash_type(name) ==
  FoldLeft(LAMBDA value, c : (129 * value + Byte[c]) % HashModulus, 0, name)

symbol(name) ==
  [n \in DOMAIN name |-> IF name[n] \in Letters THEN name[n] ELSE "_"]

macro(name) == [n \in DOMAIN name |-> Cased(symbol(name)[n], Lower, Upper)]

c_stem(name) == [n \in DOMAIN name |-> Cased(symbol(name)[n], Upper, Lower)]

(* Words separated by anything else, joined with capitals. *)
cpp(name) ==
  LET first(n) == n = 1 \/ name[n - 1] \notin Letters
      shown == [n \in DOMAIN name |->
                  IF first(n) THEN Cased(name[n], Lower, Upper) ELSE name[n]]
  IN  Picked(shown, {n \in DOMAIN name : name[n] \in Letters})

(* An ELF label or an import: the digits of the id follow a "_" or "Site". *)
site_symbols(function, id) == [stem |-> symbol(function), id |-> id]

helper_symbols(namespace, name, id) ==
  [stem |-> symbol(namespace) \o <<"_">> \o symbol(name), id |-> id]

site_import_name(namespace, id) == [stem |-> cpp(namespace), id |-> id]

site_c_name(namespace, id) == [stem |-> c_stem(namespace), id |-> id]

-----------------------------------------------------------------------------
(* prepare_policy: the types of the boundary that the policy does not have *)
(* are appended, in order and once each.                                   *)

composed_types(job) ==
  LET new(n) == /\ job.extra_types[n] \notin Range(job.types)
                /\ \A m \in 1 .. (n - 1) : job.extra_types[m] # job.extra_types[n]
  IN  job.types \o Picked(job.extra_types, {n \in DOMAIN job.extra_types : new(n)})

BoundaryTypesAreNames(job) == <<>> \notin Range(job.extra_types)

(* {name: index + 1 for index, name in enumerate(types)}: the last wins. *)
ids(types) ==
  [t \in Range(types) |->
     CHOOSE n \in DOMAIN types :
       types[n] = t /\ \A m \in DOMAIN types : types[m] = t => m <= n]

NoHashCollision(types) ==
  \A s, t \in Range(types) : hash_type(s) = hash_type(t) => s = t

PreciseAllocations(job) ==
  Picked(job.allocations, {n \in DOMAIN job.allocations : job.allocations[n].precise})

TypesAreKnown(job) ==
  LET known == Range(composed_types(job)) IN
  /\ \A a \in Range(job.allocations) : a.type \in known
  /\ \A h \in Range(job.helpers) : h.type \in known
  /\ \A u \in Range(job.uses) : u.type \in known

HelpersAreDistinct(job) ==
  \A m, n \in DOMAIN job.helpers : job.helpers[m].name = job.helpers[n].name => m = n

-----------------------------------------------------------------------------
(* NaCl: generate and generate_boundary. *)

(* The size of a use; prepare_policy sets it to 0 when it is dynamic. *)
nacl_bytes(use) == IF use.dynamic THEN {0} ELSE use.bytes

nacl_accepts(job) ==
  LET types == composed_types(job) IN
  /\ BoundaryTypesAreNames(job)
  /\ \A u \in Range(job.uses) : u.dynamic => u.bytes \subseteq {0}
  /\ IsInjective(types)
  /\ NoHashCollision(types)
  /\ TypesAreKnown(job)
  /\ \A u \in Range(job.uses) :
       /\ nacl_bytes(u) # {}        \* a missing key is a KeyError
       /\ u.offset >= 0
       /\ \A size \in nacl_bytes(u) : size >= 0
  /\ HelpersAreDistinct(job)

(* Mutant: the helpers are numbered from 1 again. *)
nacl_sites_restart(job) ==
  LET site(id, type, label, helper) ==
        [id |-> id, type |-> type, label |-> label, helper |-> helper]
  IN  [n \in DOMAIN PreciseAllocations(job) |->
         site(n, PreciseAllocations(job)[n].type, site_symbols(PreciseAllocations(job)[n].function, n), <<>>)]
      \o
      [n \in DOMAIN job.helpers |->
         site(n, job.helpers[n].type,
              helper_symbols(job.namespace, job.helpers[n].name, n), job.helpers[n].name)]

(* Sites are numbered in the order of the policy, helpers after them. *)
nacl_sites(job) ==
  LET count == Len(PreciseAllocations(job))
      site(id, type, label, helper) ==
        [id |-> id, type |-> type, label |-> label, helper |-> helper]
  IN  [n \in DOMAIN PreciseAllocations(job) |->
         site(n, PreciseAllocations(job)[n].type, site_symbols(PreciseAllocations(job)[n].function, n), <<>>)]
      \o
      [n \in DOMAIN job.helpers |->
         site(count + n, job.helpers[n].type,
              helper_symbols(job.namespace, job.helpers[n].name, count + n),
              job.helpers[n].name)]

-----------------------------------------------------------------------------
(* wasm2c: generate_wasm_boundary. *)

wasm_bytes(use) == IF use.dynamic \/ use.bytes = {} THEN {0} ELSE use.bytes

(* Mutant: the local number is not added to the base. *)
runtime_site_id_local(base, local) == local

runtime_site_id(base, local) == base + local

SiteIdFits(base, local) ==
  /\ base \in 0 .. MaxSiteId
  /\ runtime_site_id(base, local) \in 1 .. MaxSiteId

SiteTotal(job) == Len(PreciseAllocations(job)) + Len(job.helpers)

wasm_accepts(job) ==
  LET types == composed_types(job) IN
  /\ job.base \in 0 .. MaxSiteId                    \* parse_site_id_base
  /\ BoundaryTypesAreNames(job)
  /\ TypesAreKnown(job)
  /\ \A a \in Range(job.allocations) : a.precise
  /\ \A local \in 1 .. SiteTotal(job) : SiteIdFits(job.base, local)
  /\ SiteTotal(job) # 0 => cpp(job.namespace) # <<>>
  /\ HelpersAreDistinct(job)
  /\ NoHashCollision(types)
  /\ \A u \in Range(job.uses) :
       u.offset >= 0 /\ \A size \in wasm_bytes(u) : size >= 0

site_records(job) ==
  LET count == Len(PreciseAllocations(job))
      entry(local) ==
        IF local <= count
        THEN [type |-> PreciseAllocations(job)[local].type, name |-> <<>>]
        ELSE [type |-> job.helpers[local - count].type,
              name |-> job.helpers[local - count].name]
  IN  [local \in 1 .. SiteTotal(job) |->
         [id |-> runtime_site_id(job.base, local),
          type |-> entry(local).type,
          label |-> site_import_name(job.namespace, local),
          c_name |-> site_c_name(job.namespace, local),
          helper |-> entry(local).name]]

-----------------------------------------------------------------------------
(* Both: the trusted header, and the part of U's header that names sites. *)

accepts(job) ==
  IF job.backend = "nacl" THEN nacl_accepts(job) ELSE wasm_accepts(job)

sites(job) == IF job.backend = "nacl" THEN nacl_sites(job) ELSE site_records(job)

(* kTypeId..., kTypeHash...: one of each per entry of the dictionary.      *)
type_constants(job) ==
  LET number == ids(composed_types(job)) IN
  {[ident |-> cpp(t), name |-> t, id |-> number[t], hash |-> hash_type(t)] :
     t \in DOMAIN number}

(* kUse...: they name the hash of the type. *)
use_constants(job) ==
  {[ident |-> cpp(u.name), name |-> u.name, type |-> cpp(u.type), offset |-> u.offset,
    bytes |-> IF job.backend = "nacl" THEN nacl_bytes(u) ELSE wasm_bytes(u)] :
     u \in Range(job.uses)}

(* kAllocationSites, kHelperAllocationSites, kWasmAllocationSites: they    *)
(* name the type by its constant.                                          *)
site_table(job) ==
  [n \in DOMAIN sites(job) |->
     [id |-> sites(job)[n].id, label |-> sites(job)[n].label,
      type |-> cpp(sites(job)[n].type)]]

(* INTERSPEC_SITE_..., in U's header: for a helper, the entry its macro    *)
(* stands for where U uses it.  Of several definitions the last is valid.  *)
helper_macro(job, n) ==
  LET same == {m \in DOMAIN sites(job) :
                 /\ sites(job)[m].helper # <<>>
                 /\ macro(sites(job)[m].helper) = macro(sites(job)[n].helper)}
  IN  CHOOSE m \in same : \A k \in same : k <= m

(* The function of the host that an import is bound to hands this id to    *)
(* the active runtime: {import -> id}.                                     *)
generate_host_imports(job) ==
  {[label |-> r.label, id |-> r.id] : r \in Range(site_records(job))}
=============================================================================
