--------------------------- MODULE MCCodeqlPolicy ---------------------------
(***************************************************************************)
(* Results of up to three rows from a small set of rows: two allocations *)
(* of one function at different places of one file, one without a place,   *)
(* uses that differ in what the sort does not see.                         *)
(***************************************************************************)
EXTENDS CodeqlPolicy, MCNames

MCRank == (a :> 1) @@ (aa :> 2) @@ (b :> 3)

Row(kind, name, type, offset, size, columns, span) ==
  [kind |-> kind, name |-> name, type |-> type, function |-> a, offset |-> offset,
   size |-> size, columns |-> columns, span |-> span]

NoPlace == <<0, 0, 0, 0>>

MCRows ==
  {Row("allocation", a, type, 0, 1, columns, span) :
     type \in {a, b}, columns \in {6, 10},
     span \in {<<1, 1, 1, 2>>, <<2, 1, 2, 2>>, NoPlace}}
    \cup {Row("allocation", a, aa, 0, 1, 10, <<1, 2, 1, Garbled>>),
          Row("allocation", a, a, 0, 1, 5, <<1, 1, 1, 2>>),
          Row("note", a, aa, 0, 1, 10, NoPlace)}
    \cup {Row(kind, name, type, offset, 1, 10, NoPlace) :
            kind \in {"use", "dynamic_use"}, name \in {a, b}, type \in {a, aa},
            offset \in {0, 1}}
    \cup {Row("use", a, b, -1, 1, 10, NoPlace), Row("use", a, b, 0, Garbled, 10, NoPlace),
          Row("dynamic_use", a, b, 0, Garbled, 10, NoPlace)}

MCResults == {{}} \cup {{r, s, t} : r \in MCRows, s \in MCRows, t \in MCRows}
=============================================================================
