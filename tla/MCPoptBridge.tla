---------------------------- MODULE MCPoptBridge ----------------------------
(***************************************************************************)
(* Instance of PoptBridge for TLC: an int and a string variable; tables in *)
(* which two options share a variable, one that uses a variable with two   *)
(* types and one with a type that the bridge does not know; an arena that  *)
(* is full in the middle of the second context, or later.                  *)
(***************************************************************************)
EXTENDS PoptBridge

CONSTANTS char, popt, number, word, a, b

MCTypeHashes == {char, popt}
MCTypeOf == [id \in {0, 1, 2} |->
               IF id = 1 THEN char ELSE IF id = 2 THEN popt ELSE NoHash]
MCDests == {number, word}
MCTexts == {a, b}
MCIntegers == {0, 1}
MCValuesOf == [d \in MCDests |->
                 IF d = number THEN MCIntegers ELSE MCTexts \cup {Null}]
MCTextSize == [t \in MCTexts |-> IF t = a THEN 8 ELSE 40]

Opt(arg, type, text) == [arg |-> arg, type |-> type, texts |-> text]

MCOptionTables ==
  {<<Opt(number, "val", <<a>>), Opt(word, "string", <<>>),
     Opt(NoArg, "none", <<Null, b>>), Opt(number, "none", <<>>)>>,
   <<Opt(word, "string", <<a>>), Opt(number, "int", <<>>)>>,
   <<Opt(word, "string", <<a>>), Opt(word, "int", <<>>)>>,
   <<Opt(number, "other", <<a>>)>>}

MCArguments == {<<>>, <<b, a>>}
=============================================================================
