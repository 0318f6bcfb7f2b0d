-------------------------- MODULE MCPolicyRuntime --------------------------
(***************************************************************************)
(* Instances of PolicyRuntime for TLC.                                     *)
(***************************************************************************)
EXTENDS PolicyRuntime

CONSTANTS h1, h2

MCTypeHashes == {h1, h2}

(* One thread waits between its lookups while another one allocates,       *)
(* releases and reallocates in an arena of two slots.                      *)
MCSizes == {8, 12}
MCPcs == {0, 2, 3, 4, 5}

MCSymbols == {"b1", "e1", "b2", "e2"}

TableOf(b1, e1, b2, e2) == [b1 |-> b1, e1 |-> e1, b2 |-> b2, e2 |-> e2]

(* Two ranges apart; a label that was stripped; ranges that overlap; a     *)
(* range whose end is its begin.                                           *)
MCSymbolTables ==
  {TableOf(2, 3, 4, 5), TableOf(2, 3, 0, 5), TableOf(3, 5, 2, 4),
   TableOf(2, 2, 4, 5)}

Binding(i, h) == [id |-> i, type_hash |-> h]
PolicySite(i, t, b, e) ==
  [site_id |-> i, type_id |-> t, begin_symbol |-> b, end_symbol |-> e]

TwoSites == <<PolicySite(1, 1, "b1", "e1"), PolicySite(2, 2, "b2", "e2")>>

(* A generated policy; and two hand-written ones whose first type or whose *)
(* first site cannot be registered, while what follows can.                *)
MCPolicies ==
  {[types |-> <<Binding(1, h1), Binding(2, h2)>>, sites |-> TwoSites],
   [types |-> <<Binding(0, h1), Binding(2, h2)>>, sites |-> <<TwoSites[2]>>],
   [types |-> <<Binding(2, h2)>>, sites |-> TwoSites]}
=============================================================================
