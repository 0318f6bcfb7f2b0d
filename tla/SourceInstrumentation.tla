----------------------- MODULE SourceInstrumentation -----------------------
(***************************************************************************)
(* The rewriting of U's source by the policy generators: the source half   *)
(* of generate (tools/generate_policy.py) for NaCl and of                  *)
(* generate_wasm_boundary (tools/generate_wasm_boundary_policy.py).        *)
(*                                                                         *)
(* The precise sites of a policy are rewritten one after the other, the    *)
(* last in the file first, each at the position the analysis found it at   *)
(* in the file before any rewriting.  The NaCl generator then marks the    *)
(* functions of those sites noinline and rewrites the allocations without  *)
(* a site by their shape.  A ValueError anywhere leaves nothing written.   *)
(***************************************************************************)
EXTENDS SourceText

CONSTANTS
  Functions,     \* names of functions that hold allocations
  Types,         \* the types of a policy, numbers that stand for TypeIds
  CastOf,        \* CastOf[t]: the lexeme (struct t*)
  SizeofOf,      \* SizeofOf[t]: the lexeme sizeof(struct t)
  Files          \* what is generated: [text, calls, policy, backend]

(* text is a sequence of lexemes; calls are the malloc calls it really     *)
(* makes, [first, last, args, function], args the set of the positions of  *)
(* the argument.  An allocation of the policy is [function, type, site,    *)
(* call]; site is NoSite or the span CodeQL reported, call the index in    *)
(* calls of the call it reported, 0 if none.                               *)
NoSite == [start_line |-> 0, start_column |-> 0, end_line |-> 0, end_column |-> 0]

Backends == {"nacl", "wasm"}

ASSUME InstrumentationAssumption ==
  \A f \in Files :
    /\ f.backend \in Backends
    /\ \A i \in DOMAIN f.policy :
         f.policy[i].function \in Functions /\ f.policy[i].type \in Types

VARIABLES
  file,      \* the element of Files this invocation is given
  source,    \* the text as rewritten so far
  pending,   \* precise allocations still to rewrite, in the order of the loop
  legacy,    \* allocations without a site still to rewrite
  pc         \* "precise", "legacy", "written" or "refused"

sourceVars == <<file, source, pending, legacy, pc>>

policy == file.policy
Located == {i \in DOMAIN policy : policy[i].site # NoSite}

(* Site ids follow the order of the policy, not that of the rewriting. *)
site_ids == [i \in Located |-> Cardinality({j \in Located : j <= i})]

-----------------------------------------------------------------------------
(* precise.sort(reverse=True), which keeps the order of equal positions. *)

Before(a, b) ==
  \/ a.start_line < b.start_line
  \/ a.start_line = b.start_line /\ a.start_column < b.start_column

(* Mutant: the sites are rewritten from the top of the file. *)
PreciseOrderAscending(allocs) ==
  SetToSortSeq({i \in DOMAIN allocs : allocs[i].site # NoSite},
               LAMBDA i, j : Before(allocs[i].site, allocs[j].site))

PreciseOrder(allocs) ==
  SetToSortSeq({i \in DOMAIN allocs : allocs[i].site # NoSite},
               LAMBDA i, j :
                 \/ Before(allocs[j].site, allocs[i].site)
                 \/ ~Before(allocs[i].site, allocs[j].site) /\ i < j)

LegacyOrder(allocs) ==
  SetToSortSeq({i \in DOMAIN allocs : allocs[i].site = NoSite}, <)

Splice(src, first, last, tokens) ==
  SubSeq(src, 1, first - 1) \o tokens \o SubSeq(src, last + 1, Len(src))

(* The two replacements of a call, brackets and literals as they are.  The *)
(* lexemes begin and end are the labels site_symbols names, import is the  *)
(* function site_c_name names.                                             *)
Replacement(backend, argument, id) ==
  IF backend = "nacl"
  THEN Generated(<<"(", "{", "(">>, id) \o argument
         \o Generated(<<")", "\"", "begin", "\"", "INTERSPEC_SITE_ALLOC",
                        "\"", "end", "\"", "}", ")">>, id)
  ELSE Generated(<<"import", "(", "(">>, id) \o argument \o Generated(<<")", ")">>, id)

(* The text with the site rewritten: a set of one text, or of none when    *)
(* the generator refuses the site.                                         *)

(* Mutant: a call that ends where the body of the function does escapes it. *)
InstrumentOffByOne(src, allocation, id, backend) ==
  LET site == allocation.site
      spans == {s \in {<<source_offset(src, site.start_line, site.start_column, FALSE),
                         source_offset(src, site.end_line, site.end_column, TRUE)>>} :
                  s[1] # 0 /\ s[2] >= s[1]}
      calls == {malloc_call_extent(src, s[1], s[2]) : s \in spans} \ {NoCall}
      bodies == {function_body(src, allocation.function)}
  IN  {Splice(src, s[1], call.close, Replacement(backend, call.argument, id)) :
         <<s, call, body>> \in
           {<<s, call, body>> \in spans \X calls \X bodies :
              s[1] >= body.first /\ s[2] <= body.last /\ call.close < body.last}}

instrument_site(src, allocation, id, backend) ==
  LET site == allocation.site
      spans == {s \in {<<source_offset(src, site.start_line, site.start_column, FALSE),
                         source_offset(src, site.end_line, site.end_column, TRUE)>>} :
                  s[1] # 0 /\ s[2] >= s[1]}
      calls == {malloc_call_extent(src, s[1], s[2]) : s \in spans} \ {NoCall}
      bodies == {function_body(src, allocation.function)}
  IN  {Splice(src, s[1], call.close, Replacement(backend, call.argument, id)) :
         <<s, call, body>> \in
           {<<s, call, body>> \in spans \X calls \X bodies :
              s[1] >= body.first /\ s[2] <= body.last /\ call.close <= body.last}}

-----------------------------------------------------------------------------
(* mark_precise_function_noinline, which leaves a marked function alone. *)

mark_precise_function_noinline(src, function) ==
  LET name == function_match(src, function).name
  IN  IF At(src, name - 1) = "noinline" THEN src
      ELSE Splice(src, name, name - 1, Generated(<<"noinline">>, 0))

-----------------------------------------------------------------------------
(* instrument_legacy: the exact cast if it occurs once; else a single      *)
(* malloc(sizeof( *v)); else a single malloc(v); else the file is refused. *)

ShapeClose(src, p, size) ==   \* the ")" of malloc ( size ) at p, 0 if it is not one
  LET open == SkipBlanks(src, p + 2)
      arg == SkipBlanks(src, open + 1)
      close == SkipBlanks(src, arg + 1)
  IN  IF <<At(src, p), At(src, p + 1), At(src, open), At(src, arg), At(src, close)>>
           = <<"mal", "loc", "(", size, ")">>
      THEN close ELSE 0

CastClose(src, p, cast, size) ==
  IF <<At(src, p - 1), At(src, p), At(src, p + 1), At(src, p + 2), At(src, p + 3),
       At(src, p + 4)>> = <<cast, "mal", "loc", "(", size, ")">>
  THEN p + 4 ELSE 0

(* The calls of a shape in the body: where they begin, where they end, and *)
(* the lexeme that is their argument.                                      *)
Shape(src, body, size) ==
  {c \in {[first |-> p, close |-> ShapeClose(src, p, size), size |-> size] :
            p \in body.first .. body.last} :
     c.close \in c.first .. body.last}

CastShape(src, body, cast, size) ==
  {c \in {[first |-> p, close |-> CastClose(src, p, cast, size), size |-> size] :
            p \in (body.first + 1) .. body.last} :
     c.close \in c.first .. body.last}

Typed(src, c, type) ==
  LET arg == First(src, c.first, LAMBDA lexeme : lexeme = c.size)
  IN  Splice(src, c.first, c.close,
             Generated(<<"typed_alloc", "(">>, -type) \o <<src[arg]>> \o Generated(<<")">>, 0))

instrument_legacy(src, allocation) ==
  LET type == allocation.type
      Once(calls) == IF Cardinality(calls) = 1 THEN calls ELSE {}
      found(body) ==
        <<Once(CastShape(src, body, CastOf[type], SizeofOf[type])),
          Once(Shape(src, body, "sizeof")), Once(Shape(src, body, "n"))>>
      shapes == {found(body) : body \in {function_body(src, allocation.function)}}
  IN  {Typed(src, c, type) :
         c \in UNION {IF f[1] # {} THEN f[1] ELSE IF f[2] # {} THEN f[2] ELSE f[3] :
                        f \in shapes}}

-----------------------------------------------------------------------------
SourceInit ==
  /\ file \in Files
  /\ source = Original(file.text)
  /\ pending = PreciseOrder(policy)
  /\ legacy = LegacyOrder(policy)
  /\ pc = "precise"

(* site_records of the wasm generator: there is no legacy allocation. *)
RefuseLegacy ==
  /\ pc = "precise"
  /\ file.backend = "wasm" /\ legacy # <<>>
  /\ pc' = "refused"
  /\ UNCHANGED <<file, source, pending, legacy>>

InstrumentNext ==
  /\ pc = "precise" /\ pending # <<>>
  /\ ~(file.backend = "wasm" /\ legacy # <<>>)
  /\ \E i \in {Head(pending)} :
     \E texts \in {instrument_site(source, policy[i], site_ids[i], file.backend)} :
       IF texts = {}
       THEN pc' = "refused" /\ UNCHANGED <<source, pending>>
       ELSE source' \in texts /\ pending' = Tail(pending) /\ pc' = pc
  /\ UNCHANGED <<file, legacy>>

MarkPrecise ==
  /\ pc = "precise" /\ pending = <<>>
  /\ file.backend = "nacl"
  /\ source' = FoldSet(LAMBDA f, src : mark_precise_function_noinline(src, f),
                       source, {policy[i].function : i \in Located})
  /\ pc' = "legacy"
  /\ UNCHANGED <<file, pending, legacy>>

InstrumentLegacy ==
  /\ pc = "legacy" /\ legacy # <<>>
  /\ \E texts \in {instrument_legacy(source, policy[Head(legacy)])} :
       IF texts = {}
       THEN pc' = "refused" /\ UNCHANGED <<source, legacy>>
       ELSE source' \in texts /\ legacy' = Tail(legacy) /\ pc' = pc
  /\ UNCHANGED <<file, pending>>

Write ==
  /\ \/ pc = "legacy" /\ legacy = <<>>
     \/ pc = "precise" /\ file.backend = "wasm" /\ pending = <<>> /\ legacy = <<>>
  /\ pc' = "written"
  /\ UNCHANGED <<file, source, pending, legacy>>

SourceNext == RefuseLegacy \/ InstrumentNext \/ MarkPrecise \/ InstrumentLegacy \/ Write

SourceSpec == SourceInit /\ [][SourceNext]_sourceVars
-----------------------------------------------------------------------------
(* Properties.  They speak of the calls the text really makes, not of what *)
(* the scanners of the generator take for one.                             *)

Positions(p, q) == {r \in p .. q : file.text[r] \notin Blanks}
Frame(k) == Positions(file.calls[k].first, file.calls[k].last) \ file.calls[k].args
Chosen == {policy[i].call : i \in Located}
Unnamed == DOMAIN file.calls \ Chosen
Kept(p, q) == {source[r].at : r \in p .. q} \ ({0} \cup {r \in DOMAIN file.text : file.text[r] \in Blanks})

InstrumentTypeOK ==
  /\ file.backend \in Backends
  /\ pc \in {"precise", "legacy", "written", "refused"}
  /\ ToSet(pending) \subseteq Located
  /\ ToSet(legacy) \subseteq DOMAIN policy \ Located
  /\ \A p \in DOMAIN source : source[p].at \in 0 .. Len(file.text)

(* While sites wait (the loop at generate_policy.py:308), nothing before a *)
(* waiting site has moved, so the position reported for it still means the *)
(* same place of the file although the text after it has been rewritten.   *)
WaitingSitesInPlace ==
  pc = "precise" =>
    \A i \in ToSet(pending) :
      LET site == policy[i].site
          first == source_offset(Original(file.text), site.start_line,
                                 site.start_column, FALSE)
      IN  /\ source_offset(source, site.start_line, site.start_column, FALSE) = first
          /\ \A p \in 1 .. first - 1 : source[p].at = p

(* In what is written, each precise allocation of the policy is the call   *)
(* it was reported for, with the id that the trusted table has for it,     *)
(* exactly once, around that call's own argument (instrument_site).        *)
EachSiteIsItsCall ==
  pc = "written" =>
    \A i \in Located :
      LET own == Ascending({p \in DOMAIN source : source[p].id = site_ids[i]})
          call == file.calls[policy[i].call]
          nested == UNION {Frame(k) : k \in DOMAIN file.calls \ {policy[i].call}}
      IN  /\ policy[i].call # 0
          /\ Len(own) = IF file.backend = "nacl" THEN 13 ELSE 5
          /\ Kept(own[3], own[4]) \ nested
               = {r \in call.args : file.text[r] \notin Blanks} \ nested

(* A site is only ever rewritten in the function the policy names: the     *)
(* labels carry that name (site_symbols), and only that function is kept   *)
(* from being cloned.                                                      *)
SitesLieInTheirFunction ==
  pc = "written" =>
    \A i \in Located : file.calls[policy[i].call].function = policy[i].function

(* Whatever was not reported stays, in order: besides the calls of the     *)
(* precise sites exactly one other text of a malloc call is replaced for   *)
(* each allocation without a site, and never one a precise site has.       *)
OnlyReportedCallsChange ==
  pc = "written" =>
    /\ \A p, q \in DOMAIN source :
         p < q /\ source[p].at # 0 /\ source[q].at # 0 => source[p].at < source[q].at
    /\ \E others \in SUBSET Unnamed :
         /\ Cardinality(others) = Cardinality(DOMAIN policy \ Located)
         /\ Kept(1, Len(source)) = Positions(1, Len(file.text))
              \ UNION {Frame(k) : k \in Chosen \cup others}

(* The functions that keep a site label from being emitted twice are those *)
(* of the precise sites, each marked once, even if the file had the mark.  *)
SiteFunctionsAreMarkedOnce ==
  pc \in {"legacy", "written"} /\ file.backend = "nacl" =>
    \A f \in Functions :
      LET name == function_match(source, f).name
          marked == At(source, name - 1) = "noinline"
      IN  name # 0 =>
            /\ f \in {policy[i].function : i \in Located} => marked
            /\ marked => At(source, name - 2) # "noinline"
            /\ marked /\ f \notin {policy[i].function : i \in Located}
                => source[name - 1].at # 0

(* The line comments: // up to the line feed.  There is no // in a literal *)
(* or a block comment of the files.                                        *)
InLineComment(src, p) ==
  \E q \in 1 .. p - 2 :
    /\ At(src, q) = "/" /\ At(src, q + 1) = "/"
    /\ \A r \in q .. p - 1 : At(src, r) # "\n"

Solid(k) == {r \in file.calls[k].args : file.text[r] \notin Blanks}

EndsInLineComment(k) == InLineComment(Original(file.text), Max(Solid(k)))

(* What is written for a site, and what followed its call, is code and not *)
(* the rest of a comment: no line comment of the file grows.               *)
CommentsStay ==
  pc = "written" =>
    \A p \in DOMAIN source :
      InLineComment(source, p) =>
        source[p].at # 0 /\ InLineComment(Original(file.text), source[p].at)

(* Whatever the policy, what is written is the file with the reported      *)
(* calls rewritten and nothing else: no rewriting moves a site that still  *)
(* waits (generate_policy.py:302-313), each lands on its own call, in its  *)
(* own function, under its own id, and as code.  The last needs that no    *)
(* argument ends in a line comment, whose line feed strip takes with it    *)
(* (generate_policy.py:152).                                               *)
InstrumentedAsReported ==
  /\ WaitingSitesInPlace
  /\ EachSiteIsItsCall
  /\ SitesLieInTheirFunction
  /\ OnlyReportedCallsChange
  /\ SiteFunctionsAreMarkedOnce
  /\ (\A k \in Chosen : ~EndsInLineComment(k)) => CommentsStay

(* A policy that reports real calls, each once and in its function, is     *)
(* never refused.  Tame: no brace in a literal or a comment, nothing but   *)
(* blanks between malloc and its list; the generator refuses those.        *)
Faithful ==
  /\ file.tame
  /\ file.backend = "wasm" => Located = DOMAIN policy
  /\ \A i \in Located :
       /\ policy[i].call # 0 /\ policy[i].exact
       /\ file.calls[policy[i].call].function = policy[i].function
  /\ \A i, j \in Located : i # j => policy[i].call # policy[j].call
  /\ \A i \in DOMAIN policy \ Located :
       /\ \A j \in DOMAIN policy \ Located :
            i # j => policy[i].function # policy[j].function
       /\ \E k \in Unnamed :
            /\ file.calls[k].plain
            /\ {j \in Unnamed : file.calls[j].function = policy[i].function} = {k}
            /\ file.calls[k].function = policy[i].function

(* A policy inferred from this very file is accepted.                      *)
ExactPolicyIsAccepted == Faithful => pc # "refused"

(* The blanks of a call that its rewriting drops: those before its list    *)
(* and those that strip takes from the edges of its argument.              *)
DroppedBlanks(k) ==
  {r \in file.calls[k].first .. file.calls[k].last :
     file.text[r] \in Blanks /\ r \notin Min(Solid(k)) .. Max(Solid(k))}

(* The rewriting of call k drops a line break, or more blanks than it      *)
(* writes lexemes: what follows it is then on another line, or further to  *)
(* the left.  malloc ( ) is four lexemes.                                  *)
Shrinks(k) ==
  \/ \E r \in DroppedBlanks(k) : file.text[r] \in LineBreaks
  \/ Cardinality(DroppedBlanks(k)) > Len(Replacement(file.backend, <<>>, 1)) - 4

(* The end of a site lies behind the calls in its argument, which are      *)
(* rewritten before it.                                                    *)
EndsStay ==
  \A j, k \in Chosen : file.calls[j].first \in file.calls[k].args => ~Shrinks(j)

(* A policy inferred from this very file is accepted, nested calls and     *)
(* calls over several lines included, unless a call in the argument of     *)
(* another shrinks: the end reported for the outer one is then stale when  *)
(* its turn comes (generate_policy.py:186-188, 308).                       *)
FaithfulPolicyIsAccepted == EndsStay => ExactPolicyIsAccepted
=============================================================================
