------------------------ MODULE MCGeneratedPolicies -------------------------
(***************************************************************************)
(* Policies for GeneratedPolicies: one at a time with everything a policy  *)
(* file can say, and pairs of boundaries that are linked together.         *)
(***************************************************************************)
EXTENDS GeneratedPolicies, MCNames

Job(types, extra, allocations, helpers, uses) ==
  [backend |-> "nacl", namespace |-> a, base |-> 0, types |-> types,
   extra_types |-> extra, allocations |-> allocations, helpers |-> helpers,
   uses |-> uses]

Alloc(type, precise) == [type |-> type, function |-> b, precise |-> precise]

Helper(name, type) == [name |-> name, type |-> type]

UseOf(name, type, offset, bytes, dynamic) ==
  [name |-> name, type |-> type, offset |-> offset, bytes |-> bytes, dynamic |-> dynamic]

Shapes ==
  {Job(types, extra, allocations, helpers, uses) :
     types \in {<<a, b>>, <<a>>, <<a, a>>, <<b, aa>>, <<a, a_b, aXb>>},
     extra \in {<<>>, <<b, a, a_b>>, << <<>> >>},
     allocations \in {<<>>, <<Alloc(a, TRUE), Alloc(b, TRUE)>>, <<Alloc(a, FALSE), Alloc(a, TRUE)>>},
     helpers \in {<<>>, <<Helper(a, a)>>, <<Helper(a_b, a), Helper(aXb, b)>>,
                  <<Helper(a, a), Helper(a, a)>>},
     uses \in {<<>>, <<UseOf(a, a, 0, {1}, FALSE), UseOf(b, a, 1, {}, TRUE)>>,
               <<UseOf(a, a, 1, {1}, TRUE)>>, <<UseOf(a, b, 0, {}, FALSE)>>,
               <<UseOf(a, a, 1, {0}, TRUE), UseOf(a, a, 0, {2}, FALSE)>>,
               <<UseOf(b, a, -1, {1}, FALSE)>>}}

Singles ==
  {<<s>> : s \in Shapes}
    \cup {<<[s EXCEPT !.backend = "wasm", !.base = base]>> : s \in Shapes, base \in {0, 2, 13}}

(* Boundaries that are linked: their sites overlap for some bases.         *)
Boundaries ==
  {Job(<<a, b>>, <<>>, <<Alloc(a, TRUE), Alloc(b, TRUE)>>, helpers, <<>>) :
     helpers \in {<<>>, <<Helper(b, a)>>}}
    \cup {Job(<<b>>, <<a_b>>, <<>>, <<Helper(a_b, b), Helper(a, a_b)>>, <<>>),
          Job(<<b>>, <<>>, <<>>, <<Helper(b, b)>>, <<>>)}

Pairs ==
  {<<[s EXCEPT !.backend = backend],
     [t EXCEPT !.backend = backend, !.namespace = namespace, !.base = base,
               !.allocations = [n \in DOMAIN t.allocations |->
                                  [t.allocations[n] EXCEPT !.function = function]]]>> :
     s \in Boundaries, t \in Boundaries, backend \in {"nacl", "wasm"},
     namespace \in {a, b, <<"A">>, <<"a", "_", "a">>}, function \in {a, b}, base \in {0, 1, 4}}

MCProjects == Singles \cup Pairs
=============================================================================
