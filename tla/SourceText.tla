----------------------------- MODULE SourceText -----------------------------
(***************************************************************************)
(* How the policy generators read C text (tools/generate_policy.py): where *)
(* a line and column is, where the body of a function is, how far a call   *)
(* of malloc extends.                                                      *)
(*                                                                         *)
(* A text is a sequence of tokens [c, at, id].  c is the lexeme: the       *)
(* characters the scanners look at are lexemes of one character, the word  *)
(* malloc is the two lexemes "mal" and "loc", any other word is one.  at   *)
(* is the position the token had in the file that was read, 0 if the       *)
(* generator wrote it, and id is then the site it was written for.  The    *)
(* code never sees at and id.  Positions count from 1 and ranges include   *)
(* both ends; an offset of the code is a position less one.                *)
(***************************************************************************)
EXTENDS Integers, Sequences, SequencesExt

CONSTANT LineBreaks   \* the lexemes str.splitlines ends a line at

ASSUME LineBreaksAssumption == "\n" \in LineBreaks

Original(glyphs) == [p \in DOMAIN glyphs |-> [c |-> glyphs[p], at |-> p, id |-> 0]]
Generated(glyphs, id) == [p \in DOMAIN glyphs |-> [c |-> glyphs[p], at |-> 0, id |-> id]]

Blanks == {" ", "\n", "\f"}

At(src, p) == IF p \in DOMAIN src THEN src[p].c ELSE "end of file"

(* The first position from p on that satisfies Test, or one past the end.  *)
First(src, p, Test(_)) ==
  Min({q \in p .. Len(src) : Test(src[q].c)} \cup {Len(src) + 1})

SkipBlanks(src, p) == First(src, p, LAMBDA c : c \notin Blanks)

Ascending(S) ==
  [n \in 1 .. Cardinality(S) |->
     CHOOSE p \in S : Cardinality({q \in S : q <= p}) = n]

IsBlank(tokens) == \A p \in DOMAIN tokens : tokens[p].c \in Blanks

(* str.strip *)
Strip(tokens) ==
  LET solid == {p \in DOMAIN tokens : tokens[p].c \notin Blanks}
  IN  IF solid = {} THEN <<>> ELSE SubSeq(tokens, Min(solid), Max(solid))

-----------------------------------------------------------------------------
(* source_offset: the position of a line and column, 0 when it is refused. *)
(* The end of a span may lie one past the last column.                     *)

LineLasts(src) ==
  Ascending({p \in DOMAIN src : src[p].c \in LineBreaks} \cup {Len(src)})

source_offset(src, line, column, end) ==
  LET lasts == LineLasts(src)
      base == IF line = 1 THEN 0 ELSE lasts[line - 1]
      visible == lasts[line] - base - (IF At(src, lasts[line]) = "\n" THEN 1 ELSE 0)
  IN  IF /\ line \in DOMAIN lasts
         /\ column \in 1 .. (visible + IF end THEN 1 ELSE 0)
      THEN base + column
      ELSE 0

-----------------------------------------------------------------------------
(* function_match: the name, blanks, a parameter list up to the first ")", *)
(* blanks, "{".  function_body: from after "{" to before the "}" that      *)
(* brings the count of braces back to zero, whatever the braces are in.    *)

OpeningBrace(src, function, name) ==
  LET open == SkipBlanks(src, name + 1)
      close == First(src, open, LAMBDA c : c = ")")
      brace == SkipBlanks(src, close + 1)
  IN  IF At(src, name) = function /\ At(src, open) = "(" /\ At(src, brace) = "{"
      THEN brace ELSE 0

function_match(src, function) ==
  LET names == {p \in DOMAIN src : OpeningBrace(src, function, p) # 0}
  IN  IF names = {} THEN [name |-> 0, brace |-> 0]
      ELSE [name |-> Min(names), brace |-> OpeningBrace(src, function, Min(names))]

NoBody == [first |-> 1, last |-> 0]

function_body(src, function) ==
  LET brace == function_match(src, function).brace
      Count(c, q) == Cardinality({p \in brace .. q : src[p].c = c})
      ends == {q \in brace .. Len(src) : brace # 0 /\ Count("{", q) = Count("}", q)}
  IN  IF ends = {} THEN NoBody ELSE [first |-> brace + 1, last |-> Min(ends) - 1]

-----------------------------------------------------------------------------
(* malloc_call_extent: a scanner that knows comments, literals and escapes *)
(* runs from the "(" after malloc until its parentheses balance.           *)

ScanStart == [mode |-> "code", quote |-> "", skip |-> FALSE, depth |-> 0, close |-> 0]

Scan(st, ch, nxt, p) ==
  CASE st.close # 0 -> st
    [] st.skip -> [st EXCEPT !.skip = FALSE]
    [] st.mode = "line" -> [st EXCEPT !.mode = IF ch = "\n" THEN "code" ELSE "line"]
    [] st.mode = "block" ->
         IF ch = "*" /\ nxt = "/" THEN [st EXCEPT !.mode = "code", !.skip = TRUE] ELSE st
    [] st.mode = "quote" ->
         [st EXCEPT !.skip = ch = "\\", !.mode = IF ch = st.quote THEN "code" ELSE "quote"]
    [] ch = "/" /\ nxt = "/" -> [st EXCEPT !.mode = "line", !.skip = TRUE]
    [] ch = "/" /\ nxt = "*" -> [st EXCEPT !.mode = "block", !.skip = TRUE]
    [] ch \in {"\"", "'"} -> [st EXCEPT !.mode = "quote", !.quote = ch]
    [] ch = "(" -> [st EXCEPT !.depth = @ + 1]
    [] ch = ")" -> [st EXCEPT !.depth = @ - 1, !.close = IF st.depth = 1 THEN p ELSE 0]
    [] OTHER -> st

(* Where the list that opens at `open' closes; 0: it never does. *)
CallClose(src, open) ==
  LET state[p \in open .. Len(src) + 1] ==
        IF p = open THEN ScanStart
        ELSE Scan(state[p - 1], At(src, p - 1), At(src, p), p - 1)
  IN  state[Len(src) + 1].close

NoCall == [close |-> 0, argument |-> <<>>]

malloc_call_extent(src, first, last) ==
  LET open == SkipBlanks(src, first + 2)
      close == CallClose(src, open)
      argument == Strip(SubSeq(src, open + 1, close - 1))
  IN  IF /\ At(src, first) = "mal" /\ At(src, first + 1) = "loc"
         /\ last >= first + 1             \* the span holds the whole word
         /\ At(src, open) = "("
         /\ close # 0 /\ argument # <<>>
         /\ IsBlank(SubSeq(src, close + 1, last))
      THEN [close |-> close, argument |-> argument]
      ELSE NoCall
=============================================================================
