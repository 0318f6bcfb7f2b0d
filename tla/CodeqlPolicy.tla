---------------------------- MODULE CodeqlPolicy ----------------------------
(***************************************************************************)
(* tools/codeql_policy_to_json.py: the rows of a CodeQL query become the   *)
(* policy that the generators read.                                        *)
(*                                                                         *)
(* A row is [kind, name, type, function, offset, size, columns, span]:     *)
(* columns is how many columns it has, span the four numbers of the source *)
(* location, when they are there.  A column that is not a number is        *)
(* Garbled.  The query decides the set of rows; their order in the file is *)
(* left open.                                                              *)
(***************************************************************************)
EXTENDS PolicyGenerators

CONSTANTS
  Results,     \* the sets of rows a query can give
  Rank,        \* name -> its place in the order of strings
  Garbled

(* A row of the query.  Its names are compared as strings. *)
RowRecords ==
  [kind : STRING, name : DOMAIN Rank, type : DOMAIN Rank, function : DOMAIN Rank,
   offset : Int \cup {Garbled}, size : Int \cup {Garbled}, columns : Nat,
   span : [1 .. 4 -> Int \cup {Garbled}]]

ASSUME CodeqlAssumption ==
  /\ Garbled \notin Int
  /\ Rank \in [DOMAIN Rank -> Int] /\ IsInjective(Rank)
  /\ \A result \in Results : IsFiniteSet(result) /\ result \subseteq RowRecords

VARIABLES
  rows,        \* what the query gave
  unread,      \* the rows not read yet
  types, allocations, uses,
  policyFile,      \* the output file, <<>> while there is none
  codeqlStage        \* "reading", "failed", "written"

codeqlVars == <<rows, unread, types, allocations, uses, policyFile, codeqlStage>>

Kinds == {"allocation", "use", "dynamic_use"}

-----------------------------------------------------------------------------
(* Rows of another kind, or too short, are skipped. *)
IsFact(row) == row.columns >= 6 /\ row.kind \in Kinds

(* int() of a column the row needs fails. *)
IsGarbled(row) ==
  \/ row.kind = "allocation" /\ row.columns >= 10 /\ Garbled \in Range(row.span)
  \/ row.kind # "allocation" /\ row.offset = Garbled
  \/ row.kind = "use" /\ row.size = Garbled

HasSite(row) == row.columns >= 10 /\ \A n \in 1 .. 4 : row.span[n] > 0

(* An entry without "site" has no start; the keys of the sort are 0 then. *)
allocation(row) ==
  [function |-> row.function, type |-> row.type, precise |-> HasSite(row),
   span |-> IF HasSite(row) THEN row.span ELSE <<0, 0, 0, 0>>]

use(row) ==
  [name |-> row.name, type |-> row.type, offset |-> row.offset,
   bytes |-> IF row.kind = "use" THEN {row.size} ELSE {},
   dynamic |-> row.kind = "dynamic_use"]

(* Mutant: the sort does not look at the place. *)
allocation_key_short(a) == <<Rank[a.function], Rank[a.type]>>

allocation_key(a) == <<Rank[a.function], Rank[a.type], a.span[1], a.span[2]>>

use_key(u) == <<Rank[u.name]>>

(* The keys of a list, one per entry. *)
KeysOf(entries, Key(_)) == [n \in DOMAIN entries |-> Key(entries[n])]

SortedNames(names) ==
  [p \in 1 .. Cardinality(names) |->
     CHOOSE t \in names : Cardinality({s \in names : Rank[s] <= Rank[t]}) = p]

Policy(t, a, u) ==
  [types |-> SortedNames(t), allocations |-> Sorted(a, KeysOf(a, allocation_key)),
   uses |-> Sorted(u, KeysOf(u, use_key))]

-----------------------------------------------------------------------------
CodeqlInit ==
  /\ rows \in Results
  /\ unread = rows
  /\ types = {}
  /\ allocations = <<>>
  /\ uses = <<>>
  /\ policyFile = <<>>
  /\ codeqlStage = "reading"

TypesOf(row) == {row.type}

Skip(row) ==
  /\ ~IsFact(row)
  /\ UNCHANGED <<types, allocations, uses, codeqlStage>>

Fail(row) ==
  /\ IsFact(row) /\ IsGarbled(row)
  /\ codeqlStage' = "failed"
  /\ types' = types \cup TypesOf(row)
  /\ UNCHANGED <<allocations, uses>>

Allocation(row) ==
  /\ IsFact(row) /\ ~IsGarbled(row) /\ row.kind = "allocation"
  /\ types' = types \cup TypesOf(row)
  /\ allocations' = Append(allocations, allocation(row))
  /\ UNCHANGED <<uses, codeqlStage>>

Use(row) ==
  /\ IsFact(row) /\ ~IsGarbled(row) /\ row.kind # "allocation"
  /\ types' = types \cup TypesOf(row)
  /\ uses' = Append(uses, use(row))
  /\ UNCHANGED <<allocations, codeqlStage>>

ReadRow ==
  /\ codeqlStage = "reading"
  /\ \E row \in unread :
       /\ unread' = unread \ {row}
       /\ Skip(row) \/ Fail(row) \/ Allocation(row) \/ Use(row)
  /\ UNCHANGED <<rows, policyFile>>

WritePolicy ==
  /\ codeqlStage = "reading"
  /\ unread = {}
  /\ policyFile' = Policy(types, allocations, uses)
  /\ codeqlStage' = "written"
  /\ UNCHANGED <<rows, unread, types, allocations, uses>>

CodeqlNext == ReadRow \/ WritePolicy

CodeqlSpec == CodeqlInit /\ [][CodeqlNext]_codeqlVars

-----------------------------------------------------------------------------
(* The policy as the generators take it, without a boundary file. *)
JobOf(backend) ==
  [backend |-> backend, namespace |-> <<"a">>, base |-> 0, types |-> policyFile.types,
   allocations |-> policyFile.allocations, uses |-> policyFile.uses, extra_types |-> <<>>,
   helpers |-> <<>>]

Facts == {row \in rows : IsFact(row)}
Analysed == {row \in Facts : row.kind = "allocation"}
Measured == {row \in Facts : row.kind # "allocation"}

(* The orders in which rows can come, and the lists they are read into.    *)
Orders(facts) == Bijection(1 .. Cardinality(facts), facts)

AllocationsOf(order) == [n \in DOMAIN order |-> allocation(order[n])]

UsesOf(order) == [n \in DOMAIN order |-> use(order[n])]

(* Of the program (codeql_policy_to_json.py:15-17): types is a set of      *)
(* names, and the lists hold one entry for every row of their kind that    *)
(* has been read.                                                          *)
CodeqlTypeOK ==
  /\ unread \subseteq rows
  /\ types = {row.type : row \in Facts \ unread}
  /\ codeqlStage \in {"reading", "failed", "written"}
  /\ codeqlStage = "reading" =>
       Len(allocations) + Len(uses) = Cardinality(Facts \ unread)
  /\ (policyFile # <<>>) = (codeqlStage = "written")

(* The same rows give the same file in whatever order they come            *)
(* (codeql_policy_to_json.py:51-64 sorts for that; REPRODUCIBILITY.md:73   *)
(* requires "exact equality" of regenerated snapshots).  Uses are sorted   *)
(* by name only, and allocations not by where they end nor by their file:  *)
(* so this needs that a name is given to one use, and that allocations of  *)
(* a type that begin at one place of a function are the same.              *)
RowOrderIsForgotten ==
  LET named == \A r, s \in Measured : r.name = s.name => use(r) = use(s)
      placed ==
        \A a, b \in {allocation(row) : row \in Analysed} :
          /\ a.function = b.function /\ a.type = b.type
          /\ a.span[1] = b.span[1] /\ a.span[2] = b.span[2]
          => a = b
  IN  codeqlStage = "written" /\ named /\ placed =>
        \A analysed \in Orders(Analysed), measured \in Orders(Measured) :
          policyFile =
            Policy({row.type : row \in Facts}, AllocationsOf(analysed), UsesOf(measured))

(* A site in the policy is a place in a file: lines and columns count from *)
(* one, so the generators' lookup of it cannot start before the text       *)
(* (codeql_policy_to_json.py:31), and every analysed allocation is there,  *)
(* with its place or for the fallback.                                     *)
SitesArePlaces ==
  codeqlStage = "written" =>
    /\ \A a \in Range(policyFile.allocations) :
         a.precise => \A n \in 1 .. 4 : a.span[n] >= 1
    /\ \A row \in Analysed :
         \E a \in Range(policyFile.allocations) : a.type = row.type /\ a.function = row.function

(* Whatever the queries find, the NaCl generator takes the policy unless   *)
(* an offset or size is negative or two type names collide: the converter  *)
(* lists every type it mentions, once, and a size exactly for the uses     *)
(* that are not dynamic (codeql_policy_to_json.py:24,45-48 against         *)
(* generate_policy.py:268-289,412-419).  The wasm2c generator also wants   *)
(* every allocation to have its site, and numbers for all of them.         *)
GeneratorsTakeThePolicy ==
  LET sound == /\ \A row \in Measured : row.offset >= 0 /\ (row.kind = "use" => row.size >= 0)
               /\ NoHashCollision(SortedNames({row.type : row \in Facts}))
  IN  codeqlStage = "written" =>
        /\ accepts(JobOf("nacl")) <=> sound
        /\ accepts(JobOf("wasm")) <=>
             /\ sound
             /\ \A row \in Analysed : HasSite(row)
             /\ Cardinality(Analysed) <= MaxSiteId

(* The policy file is a function of the result, has a place or a fallback  *)
(* for every analysed allocation, and is one the generators take.          *)
PolicyIsTheResult ==
  /\ RowOrderIsForgotten
  /\ SitesArePlaces
  /\ GeneratorsTakeThePolicy
=============================================================================
