------------------------- MODULE GeneratedPolicies --------------------------
(***************************************************************************)
(* From policies to running policies: the boundaries of one application    *)
(* are generated (PolicyGenerators), compiled and linked into one sandbox  *)
(* module, and the application starts a trusted runtime for one of them at *)
(* a time.  scripts/run_p7c_wasm2c.sh links three that way.  Sandbox code  *)
(* can reach every site in the module, also those of other policies.       *)
(***************************************************************************)
EXTENDS PolicyGenerators

CONSTANT Projects   \* the projects: each a sequence of jobs of one backend

Names == Seq(Alphabet)

(* What the argument parser and the JSON files can hold. *)
JobRecords ==
  [backend : {"nacl", "wasm"}, namespace : Names, base : Int,
   types : Seq(Names), extra_types : Seq(Names),
   allocations : Seq([type : Names, function : Names, precise : BOOLEAN]),
   uses : Seq([name : Names, type : Names, offset : Int, bytes : SUBSET Int,
               dynamic : BOOLEAN]),
   helpers : Seq([name : Names, type : Names])]

ASSUME ProjectsAssumption ==
  \A jobs \in Projects :
    /\ jobs \in Seq(JobRecords) /\ jobs # <<>>
    /\ \A i, j \in DOMAIN jobs : jobs[i].backend = jobs[j].backend

VARIABLES
  project,     \* the jobs
  generated,   \* how many of them are generated
  stage,       \* how far the project is
  active,      \* the policy whose runtime is set, 0 before the first
  registered,  \* its registered sites: [id, label, hash]
  answer       \* what the last allocation at a site has returned

generatedVars == <<project, generated, stage, active, registered, answer>>

Jobs == DOMAIN project

Places == UNION {{i} \X DOMAIN sites(project[i]) : i \in Jobs}   \* <<job, local id>>

None == -1   \* the hash of a refused allocation: a runtime returned 0

GeneratedTypeOK ==
  /\ generated \in 0 .. Len(project)
  /\ stage \in {"generating", "refused", "generated", "unbuilt", "built", "thrown"}
  /\ active \in {0} \cup Jobs
  /\ registered \subseteq
       [id : 1 .. MaxSiteId, label : {sites(project[p[1]])[p[2]].label : p \in Places},
        hash : 0 .. HashModulus - 1]
  /\ answer \subseteq [active : {0} \cup Jobs, place : Places, hash : None .. HashModulus - 1]

GeneratedInit ==
  /\ project \in Projects
  /\ generated = 0
  /\ stage = "generating"
  /\ active = 0
  /\ registered = {}
  /\ answer = {}

(* One run of a generator.  It refuses before it writes anything.          *)
Generate ==
  /\ stage = "generating"
  /\ IF accepts(project[generated + 1])
     THEN /\ generated' = generated + 1
          /\ stage' = IF generated' = Len(project) THEN "generated" ELSE stage
     ELSE /\ stage' = "refused"
          /\ UNCHANGED generated
  /\ UNCHANGED <<project, active, registered, answer>>

(* No constant of the trusted header is defined twice. *)
HeaderCompiles(job) ==
  /\ \A s, t \in type_constants(job) : s.ident = t.ident => s = t
  /\ \A u, v \in DOMAIN job.uses : cpp(job.uses[u].name) = cpp(job.uses[v].name) => u = v

(* No label, or no function of the host, is defined twice, and no declared *)
(* import has two names.                                                   *)
Links ==
  \A p, q \in Places :
    LET s == sites(project[p[1]])[p[2]]
        t == sites(project[q[1]])[q[2]]
    IN  \/ p = q
        \/ /\ s.label # t.label
           /\ project[p[1]].backend = "wasm" => s.c_name # t.c_name

(* The compilers and the linker.  *)
Build ==
  /\ stage = "generated"
  /\ stage' = IF Links /\ \A i \in Jobs : HeaderCompiles(project[i])
              THEN "built" ELSE "unbuilt"
  /\ UNCHANGED <<project, generated, active, registered, answer>>

(* Every register_type returns true. *)
TypesRegister(job) ==
  \A s, t \in type_constants(job) :
    /\ s.id # 0
    /\ s.id = t.id \/ s.hash = t.hash => s = t

(* Every register_allocation_site or register_allocation_site_id does; a   *)
(* label resolves to a place of its own.                                   *)
SitesRegister(job) ==
  \A m, n \in DOMAIN site_table(job) :
    /\ site_table(job)[m].id # 0
    /\ \E t \in type_constants(job) : t.ident = site_table(job)[m].type
    /\ site_table(job)[m].id = site_table(job)[n].id => m = n

SitesOf(job) ==
  {[id |-> p[1].id, label |-> p[1].label, hash |-> p[2].hash] :
     p \in {p \in Range(site_table(job)) \X type_constants(job) :
               p[1].type = p[2].ident}}

(* A PolicyRuntime for policy p is constructed, over a new Runtime, and    *)
(* takes the place of the one before.                                      *)
Start(p) ==
  /\ stage = "built"
  /\ IF TypesRegister(project[p]) /\ SitesRegister(project[p])
     THEN /\ active' = p
          /\ registered' = SitesOf(project[p])
          /\ UNCHANGED stage
     ELSE /\ stage' = "thrown"
          /\ UNCHANGED <<active, registered>>
  /\ UNCHANGED <<project, generated, answer>>

(* The site that code written for place n of job i runs into: its own, or  *)
(* for a helper the one its macro stands for.                              *)
Reached(i, n) ==
  IF sites(project[i])[n].helper = <<>> THEN n ELSE helper_macro(project[i], n)

(* The entries the active runtime finds: by the label the program counter  *)
(* is at, or by the id the host function of the import passes.             *)
Authorized(i, n) ==
  LET label == sites(project[i])[n].label IN
  IF project[i].backend = "nacl"
  THEN {s \in registered : s.label = label}
  ELSE {s \in registered :
          \E import \in UNION {generate_host_imports(project[j]) : j \in Jobs} :
            import.label = label /\ import.id = s.id}

(* allocate_from_pc, or allocate_from_site through the import.  Imports are *)
(* linked before a runtime is set, callbacks of NaCl are registered after. *)
Allocate(i, n) ==
  /\ active = 0 => project[i].backend = "wasm"
  /\ stage = "built"
  /\ LET found == Authorized(i, Reached(i, n)) IN
     \E hash \in {s.hash : s \in found} \cup {None} :
       /\ hash = None <=> found = {}
       /\ answer' = {[active |-> active, place |-> <<i, n>>, hash |-> hash]}
  /\ UNCHANGED <<project, generated, stage, active, registered>>

GeneratedNext ==
  \/ Generate
  \/ Build
  \/ \E p \in Jobs : Start(p)
  \/ \E p \in Places : Allocate(p[1], p[2])

GeneratedSpec == GeneratedInit /\ [][GeneratedNext]_generatedVars

-----------------------------------------------------------------------------
(* --site-id-base sets the site numbers of the policies apart. *)
BasesAreApart ==
  \A i, j \in Jobs :
    i # j => ((project[i].base + 1) .. (project[i].base + SiteTotal(project[i])))
               \cap ((project[j].base + 1) .. (project[j].base + SiteTotal(project[j]))) = {}

(* A site of another policy, reached while the runtime of this one is set, *)
(* or of any before one is set, is refused: the sites of NaCl always,      *)
(* imports of wasm when the policies were generated with disjoint site     *)
(* numbers (tests/p9b_wasm_codegen.py: "cannot be replayed as an           *)
(* authorized site").                                                      *)
ForeignSitesFailClosed ==
  \A a \in answer :
    /\ a.place[1] # a.active
    /\ (a.active # 0 /\ project[a.place[1]].backend = "wasm") => BasesAreApart
    => a.hash = None

(* No two helpers of a policy have the same macro. *)
MacrosAreDistinct(job) ==
  \A m, n \in DOMAIN job.helpers :
    macro(job.helpers[m].name) = macro(job.helpers[n].name) => m = n

(* The types the files of a job declare for its sites. *)
Declared(job) ==
  [n \in DOMAIN PreciseAllocations(job) |-> PreciseAllocations(job)[n].type]
    \o [n \in DOMAIN job.helpers |-> job.helpers[n].type]

(* An allocation at a site of the active policy gets the type the policy   *)
(* file names for that site, through numbering, instrumentation, headers,  *)
(* imports and registration, whatever else is linked into the module.      *)
OwnSitesGetTheirType ==
  \A a \in answer :
    a.place[1] = a.active /\ MacrosAreDistinct(project[a.active])
      => a.hash = hash_type(Declared(project[a.active])[a.place[2]])

(* What a generator accepted and the compiler built also registers: the    *)
(* generated registration never fails when the application starts.         *)
BuiltPoliciesRegister == stage # "thrown"

(* The site an object was allocated at decides its type: the own sites of  *)
(* the active policy give the type that the policy names, all others give  *)
(* nothing, and the registration behind that cannot fail at the start.     *)
SitesKeepTheirType ==
  /\ OwnSitesGetTheirType
  /\ ForeignSitesFailClosed
  /\ BuiltPoliciesRegister

(* The two generators, given the same policy and boundary, agree: what     *)
(* NaCl's accepts, wasm's accepts too (when every site is precise and the  *)
(* numbers fit), and then types, sites and uses are the same in both.      *)
GeneratorsAgree ==
  \A i \in 1 .. generated :
    LET nacl == [project[i] EXCEPT !.backend = "nacl"]
        wasm == [project[i] EXCEPT !.backend = "wasm"]
    IN  /\ nacl_accepts(nacl)
        /\ \A a \in Range(nacl.allocations) : a.precise
        /\ wasm.base \in 0 .. (MaxSiteId - SiteTotal(wasm))
        /\ cpp(wasm.namespace) # <<>>
        => /\ wasm_accepts(wasm)
           /\ type_constants(nacl) = type_constants(wasm)
           /\ use_constants(nacl) = use_constants(wasm)
           /\ DOMAIN nacl_sites(nacl) = DOMAIN site_records(wasm)
           /\ \A n \in DOMAIN site_table(nacl) :
                /\ site_table(nacl)[n].type = site_table(wasm)[n].type
                /\ site_table(nacl)[n].id + wasm.base = site_table(wasm)[n].id
=============================================================================
