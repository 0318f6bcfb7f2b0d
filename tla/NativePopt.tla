----------------------------- MODULE NativePopt -----------------------------
(***************************************************************************)
(* What an application sees of popt when the library is linked into it:    *)
(* poptGetNextOpt stores into the application's own variables, the option  *)
(* table's destinations, and nothing else changes them but the             *)
(* application.  No sandbox, no shadow slots, no synchronization.          *)
(*                                                                         *)
(* PoptBridge is compared with this specification.                         *)
(***************************************************************************)
CONSTANTS
  Dests,       \* the application's variables that option tables name
  ValuesOf     \* destination -> the values of its type

VARIABLES
  dest,        \* destination -> its value
  parsing      \* poptGetNextOpt is running

nativeVars == <<dest, parsing>>

Init ==
  /\ dest \in [Dests -> UNION {ValuesOf[d] : d \in Dests}]
  /\ parsing = FALSE

Set(d, value) == value \in ValuesOf[d] /\ dest' = [dest EXCEPT ![d] = value]

(* The application assigns to one of its variables. *)
Assign == ~ parsing /\ (\E d \in Dests : \E v \in ValuesOf[d] : Set(d, v))
                    /\ UNCHANGED parsing

Call == ~ parsing /\ parsing' = TRUE /\ UNCHANGED dest

(* popt has met an option and stores through its arg. *)
Store == parsing /\ (\E d \in Dests : \E v \in ValuesOf[d] : Set(d, v))
                 /\ UNCHANGED parsing

Return == parsing /\ parsing' = FALSE /\ UNCHANGED dest

Next == Assign \/ Call \/ Store \/ Return

Spec == Init /\ [][Next]_nativeVars
=============================================================================
