---------------------- MODULE MCSourceInstrumentation ----------------------
(***************************************************************************)
(* Files and policies for SourceInstrumentation.  The texts are built, not *)
(* parsed: the builder knows where each call and its argument are.         *)
(***************************************************************************)
EXTENDS SourceInstrumentation

(* A piece of text: its lexemes, the calls in it, whether the generator    *)
(* can read it.                                                            *)
Text(glyphs) == [glyphs |-> glyphs, calls |-> <<>>, tame |-> TRUE]

Malloc(gap, arg) ==
  LET n == Len(gap) + Len(arg.glyphs) + 4
      from == Len(gap) + 3
      inner == [k \in DOMAIN arg.calls |->
                  [arg.calls[k] EXCEPT !.first = @ + from, !.last = @ + from,
                                       !.args = {p + from : p \in @}]]
  IN  [glyphs |-> <<"mal", "loc">> \o gap \o <<"(">> \o arg.glyphs \o <<")">>,
       calls |-> <<[first |-> 1, last |-> n, args |-> (from + 1) .. (n - 1),
                    function |-> "", code |-> TRUE,
                    plain |-> arg.glyphs = <<"n">>]>> \o inner,
       tame |-> arg.tame]

Cat(a, b) ==
  [glyphs |-> a.glyphs \o b.glyphs,
   calls |-> a.calls \o
     [k \in DOMAIN b.calls |->
        [b.calls[k] EXCEPT !.first = @ + Len(a.glyphs), !.last = @ + Len(a.glyphs),
                           !.args = {p + Len(a.glyphs) : p \in @}]],
   tame |-> a.tame /\ b.tame]

Wild(t) == [t EXCEPT !.tame = FALSE]
Comment(t) ==
  LET c == Cat(Cat(Text(<<"/", "*">>), t), Text(<<"*", "/">>))
  IN  [c EXCEPT !.calls = [k \in DOMAIN c.calls |-> [c.calls[k] EXCEPT !.code = FALSE]]]

Function(name, mark, body) ==
  LET t == Cat(Cat(Text(mark \o <<name, "(", ")", "{">>), body), Text(<<"}", "\n">>))
  IN  [t EXCEPT !.calls = [k \in DOMAIN t.calls |-> [t.calls[k] EXCEPT !.function = name]]]

Simple == Malloc(<<>>, Text(<<"n">>))

(* A call over two lines, and one whose argument ends in a comment. *)
NestedBreak == Malloc(<<>>, Text(<<"\n", "n">>))
CommentedArgument == Malloc(<<>>, Text(<<"n", "/", "/", "n", "\n">>))

Statements ==
  {Simple,
   Malloc(<<" ">>, Text(<<"(", "n", ")">>)),
   Malloc(<<>>, Text(<<" ", "\"", ")", "\"", " ">>)),
   Malloc(<<>>, Text(<<"'", "\\", "'", ")", "'">>)),
   Malloc(<<>>, Text(<<"/", "*", ")", "*", "/", "n">>)),
   Malloc(<<>>, Text(<<"/", "/", ")", "\n", "n">>)),
   Malloc(<<>>, Simple),
   Malloc(<<>>, NestedBreak),
   Malloc(<<>>, Malloc(<<"\n">>, Text(<<"n">>))),
   Malloc(<<>>, Malloc(<<>>, Text(<<" ", " ", "n">>))),
   Malloc(<<>>, Malloc(<<>>, Text(<<" ", "n", "\n", "n">>))),
   Malloc(<<"\n">>, Cat(Cat(Text(<<"\n">>), Simple), Text(<<"\n">>))),
   CommentedArgument,
   Malloc(<<>>, Text(<<"sizeof">>)),
   Cat(Comment(Simple), Malloc(<<>>, Text(<<"n", "n">>))),
   Wild(Cat(Text(<<"\"", "}", "\"">>), Simple)),
   Wild(Cat(Text(<<"\"", "{", "\"">>), Simple)),
   Wild(Malloc(<<"/", "*", "*", "/">>, Text(<<"n">>)))}

Casts == Cat(Text(<<"castA">>), Malloc(<<>>, Text(<<"sizeofA">>)))

Texts ==
  {Cat(Function("f", <<"noinline">>, Cat(Cat(s, sep), Simple)), Function("g", <<"\n">>, Simple)) :
     s \in Statements \cup {Casts}, sep \in {Text(<<";">>), Text(<<";", "\n">>)}}

(* The location CodeQL reports: lines end at line feeds only. *)
LineOf(text, p) == 1 + Cardinality({q \in 1 .. p - 1 : text[q] = "\n"})
ColumnOf(text, p) == p - Max({q \in 1 .. p - 1 : text[q] = "\n"} \cup {0})

Span(text, first, last) ==
  [start_line |-> LineOf(text, first), start_column |-> ColumnOf(text, first),
   end_line |-> LineOf(text, last), end_column |-> ColumnOf(text, last)]

Precisely(t, k, function, type, first, last) ==
  [function |-> function, type |-> type, call |-> k,
   site |-> Span(t.glyphs, first, last),
   exact |-> first = t.calls[k].first /\ last = t.calls[k].last]

Exactly(t, k, type) ==
  Precisely(t, k, t.calls[k].function, type, t.calls[k].first, t.calls[k].last)

Legacy(function, type) ==
  [function |-> function, type |-> type, call |-> 0, site |-> NoSite, exact |-> TRUE]

InCode(t) == {k \in DOMAIN t.calls : t.calls[k].code}

(* Every choice of calls, in the order of the file or the other one; a     *)
(* span that ends early, late, starts late, names the other function; a    *)
(* call reported twice.                                                    *)
Up(t, calls) == [n \in 1 .. Cardinality(calls) |->
                   Exactly(t, SetToSortSeq(calls, <)[n], 1 + (n % 2))]

Reported(t) ==
  UNION {{Up(t, calls), Reverse(Up(t, calls))} : calls \in SUBSET InCode(t)}

Inexact(t) ==
  LET c == t.calls[1]
      other == IF c.function = "f" THEN "g" ELSE "f"
      more == <<Exactly(t, Max(InCode(t)), 2)>>
  IN  {<<a>> \o more :
         a \in {Precisely(t, 1, c.function, 1, c.first, c.first + 2),
                Precisely(t, 1, c.function, 1, c.first, c.first),
                Precisely(t, 1, c.function, 1, c.first, c.last + 1),
                Precisely(t, 1, c.function, 1, c.first + 1, c.last),
                Precisely(t, 1, other, 1, c.first, c.last)}}
      \cup {more \o more}

WithLegacy(t) ==
  {r \o l : r \in Reported(t),
            l \in {<<>>, <<Legacy("f", 1)>>, <<Legacy("g", 2)>>,
                   <<Legacy("f", 2), Legacy("f", 1)>>}}

FilesOf(texts) ==
  UNION {{[text |-> t.glyphs, calls |-> t.calls, tame |-> t.tame,
           policy |-> p, backend |-> b] :
            p \in WithLegacy(t) \cup (IF 1 \in InCode(t) THEN Inexact(t) ELSE {}),
            b \in Backends} : t \in texts}

MCFiles == FilesOf(Texts)

(* A page break between two functions, as in many C files. *)
PageBreakFiles ==
  FilesOf({Cat(Cat(Text(<<"\f", "\n">>),
                   Function("f", <<>>, Cat(Cat(Text(<<"\n">>), Simple),
                                           Cat(Text(<<"\n">>), Simple)))),
               Text(<<"\n">>))})

MCLineBreaks == {"\n", "\f"}
MCTypes == {1, 2}
MCCastOf == <<"castA", "castB">>
MCSizeofOf == <<"sizeofA", "sizeofB">>
=============================================================================
