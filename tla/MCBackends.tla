----------------------------- MODULE MCBackends -----------------------------
(***************************************************************************)
(* The changes that this repository makes to the RLBox backends: the tools *)
(* that apply them, and the two things that the patched NaCl runtime then  *)
(* does, keeping the arena mapped and finding the caller of a callback.    *)
(* They act on different state; a behavior is one of a single part, and    *)
(* the variables of the others stay at an initial state of theirs.         *)
(***************************************************************************)
EXTENDS BackendPatch, NaClArena, NaClCallbacks

CONSTANTS h1, h2

(* Of NaClCallbacks: two sites with a gap between them, a program counter  *)
(* in each, in the gap and at an end.                                      *)
MCTypeHashes == {h1, h2}
MCSiteRanges ==
  {[id |-> 1, begin |-> 2, end |-> 4, type_id |-> 1, type_hash |-> h1],
   [id |-> 2, begin |-> 5, end |-> 6, type_id |-> 2, type_hash |-> h2]}

(* Of BackendPatch: what a checkout may have for one patch. *)
Old(p) == <<[patch |-> p, form |-> "old"]>>
New(p) == <<[patch |-> p, form |-> "new"]>>
States(p) == {Old(p), Old(p) \o Old(p), <<>>, New(p), New(p) \o Old(p)}

Texts(p, state) ==
  [f \in Files |->
     FoldLeft(LAMBDA t, q : IF Patches[q].file # f THEN t
                            ELSE t \o IF q = p THEN state ELSE Old(q),
              <<>>, [q \in DOMAIN Patches |-> q])]

(* At most one patch finds something else than its context once. *)
NearlyClean == UNION {{Texts(p, s) : s \in States(p)} : p \in DOMAIN Patches}

VARIABLE part   \* "patch", "arena" or "callbacks"

BackendsInit ==
  /\ part \in {"patch", "arena", "callbacks"}
  /\ NaClInit /\ CallbackInit
  /\ part = "patch" \/ (head = [r \in Repos |-> FALSE] /\ checkout = Texts(1, Old(1)))
  /\ PatchInit

BackendsNext ==
  \/ part = "patch" /\ PatchNext /\ UNCHANGED <<part, addressVars, naclVars>>
  \/ part = "arena" /\ NaClNext /\ UNCHANGED <<part, patchVars, naclVars>>
  \/ part = "callbacks" /\ CallbackNext /\ UNCHANGED <<part, patchVars, addressVars>>

backendsVars == <<part, patchVars, addressVars, naclVars>>

BackendsSpec == BackendsInit /\ [][BackendsNext]_backendsVars
=============================================================================
