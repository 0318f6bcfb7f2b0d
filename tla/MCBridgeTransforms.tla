------------------------- MODULE MCBridgeTransforms -------------------------
(***************************************************************************)
(* The bridge as it is, and every bridge that differs from it in one or    *)
(* two ways: a piece dropped, moved past its neighbour, added, or written  *)
(* twice.                                                                  *)
(***************************************************************************)
EXTENDS BridgeTransforms

Dropped(t) == {RemoveAt(t, n) : n \in DOMAIN t}
Moved(t) == {[t EXCEPT ![n] = t[n + 1], ![n + 1] = t[n]] : n \in 1 .. (Len(t) - 1)}
Added(t) == {InsertAt(t, n, "new text") : n \in DOMAIN t}

Repeated(t) ==
  {InsertAt(t, n, t[n]) : n \in DOMAIN t}
    \cup {InsertAt(t, n, p) : n \in DOMAIN t, p \in {"reserve_typed_arena", "typed_copy", "API"}}
    \cup {Append(t, t[n]) : n \in DOMAIN t}

(* Bodies are in functions, declarations between them, and braces match.   *)
Heads == {"Engine() {", "allocate_for_callback_pc {", "copy_to_u {", "copy_checked {",
          "engine_from {", "p4c_allocate {", "p4c_release {", "p4c_reallocate {"}

Bodies == (Range(CONSTRUCTOR) \cup {"callback_pc", "typed_copy", "check"} \cup Range(P8_NO_CHECK))
            \ {"Engine() {", "}"}

FunctionAt(t, n) == t[Max({m \in 1 .. (n - 1) : t[m] \in Heads})]

HeadOf == [b \in Bodies |-> FunctionAt(Bridge, CHOOSE n \in DOMAIN Bridge : Bridge[n] = b)]

IsProgram(t) ==
  LET depth(n) == Cardinality({m \in 1 .. (n - 1) : t[m] \in Heads})
                    - Cardinality({m \in 1 .. (n - 1) : t[m] = "}"})
  IN  /\ depth(Len(t) + 1) = 0
      /\ \A n \in DOMAIN t :
           CASE t[n] = "}" -> depth(n) = 1
             [] t[n] \in Bodies -> depth(n) = 1
             [] t[n] = "new text" -> TRUE
             [] OTHER -> depth(n) = 0

InPlace(t) ==
  /\ IsProgram(t)
  /\ \A n \in DOMAIN t : t[n] \in Bodies => FunctionAt(t, n) = HeadOf[t[n]]

Bridges ==
  {t \in {Bridge} \cup Dropped(Bridge) \cup Moved(Bridge) \cup Added(Bridge) : InPlace(t)}
    \cup {t \in Repeated(Bridge) : IsProgram(t)}

MCSources ==
  Bridges \cup {t \in UNION {Moved(t) \cup Dropped(t) : t \in Moved(Bridge)} : InPlace(t)}
=============================================================================
