--------------------------- MODULE ToolchainProofs --------------------------
(***************************************************************************)
(* The tools that run before anything is built. A run of apply_backend     *)
(* that reports success leaves the whole patch. The policy file that the   *)
(* query is converted to does not depend on the order of its rows, and the *)
(* generators take it. What the generators make of policies registers at   *)
(* start-up and gives every object the type of the site it was allocated   *)
(* at. For every checkout, list of patches, query result, policy and set   *)
(* of linked policies.                                                     *)
(***************************************************************************)
EXTENDS GeneratedPolicies, CodeqlPolicy, BackendPatch, OrderingProofs

-----------------------------------------------------------------------------
(* BackendPatch. *)

-----------------------------------------------------------------------------
(* One replacement. *)

(* An empty file contains no patch and no context. *)
LEMMA EmptyHasNothing ==
  ASSUME NEW p
  PROVE  ~ ContainsNew(<<>>, p) /\ ~ ContainsOld(<<>>, p)
<1>1. DOMAIN <<>> = {}
  OBVIOUS
<1> QED BY <1>1 DEF ContainsNew, ContainsOld, Has

(* Some positions have a first. *)
LEMMA FirstPosition ==
  ASSUME NEW T \in SUBSET Nat, T # {}
  PROVE  \E n \in T : \A m \in T : n <= m
<1> DEFINE R == OpToRel(<, Nat)
<1>1. IsWellFoundedOn(R, Nat)
  BY NatLessThanWellFounded
<1>2. PICK n \in T : \A m \in T : <<m, n>> \notin R
  BY <1>1, WFMin, Zenon
<1>3. \A m \in T : <<m, n>> \notin R => n <= m
  BY DEF OpToRel
<1> QED BY <1>2, <1>3

(* text.index finds the first context of a patch. *)
LEMMA FirstOldIsFirst ==
  ASSUME NEW t \in Seq(Fragments), NEW p \in DOMAIN Patches,
         ~ ContainsNew(t, p), ContainsOld(t, p)
  PROVE  /\ FirstOld(t, p) \in 1 .. Len(t)
         /\ t[FirstOld(t, p)] = [patch |-> p, form |-> "old"]
         /\ \A m \in 1 .. (FirstOld(t, p) - 1) : t[m].patch # p
<1> DEFINE T == {n \in DOMAIN t : t[n].patch = p}
<1>1. /\ DOMAIN t = 1 .. Len(t) /\ Len(t) \in Nat
      /\ \A n \in DOMAIN t : t[n] \in Fragments
  OBVIOUS
<1>2. \A n \in T : t[n] = [patch |-> p, form |-> "old"]
  BY <1>1 DEF ContainsNew, Has, Fragments
<1>3. T # {}
  <2>1. PICK n \in DOMAIN t : t[n] = [patch |-> p, form |-> "old"]
    BY DEF ContainsNew, ContainsOld, Has
  <2>2. t[n].patch = p
    BY <2>1
  <2> QED BY <2>2
<1>4. PICK n \in T : \A m \in T : n <= m
  <2>1. T \in SUBSET Nat
    BY <1>1
  <2> HIDE DEF T
  <2> QED BY <1>3, <2>1, FirstPosition
<1> DEFINE First(i) == /\ t[i].patch = p
                       /\ t[i].form = "old" \/ Patches[p].keeps
                       /\ \A m \in 1 .. (i - 1) :
                            t[m].patch = p => t[m].form = "new" /\ ~ Patches[p].keeps
<1>5. First(n)
  BY <1>1, <1>2, <1>4
<1>6. \E i \in DOMAIN t : First(i)
  BY <1>5
<1>7. FirstOld(t, p) \in DOMAIN t /\ First(FirstOld(t, p))
  BY <1>6 DEF FirstOld
<1>8. \A m \in 1 .. (FirstOld(t, p) - 1) : m \in DOMAIN t
  BY <1>1, <1>7
<1> QED BY <1>1, <1>2, <1>7, <1>8

(* A replacement changes this one place. *)
LEMMA ReplacedIsPointwise ==
  ASSUME NEW t \in Seq(Fragments), NEW p \in DOMAIN Patches,
         ~ ContainsNew(t, p), ContainsOld(t, p)
  PROVE  Replaced(t, p)
           = [t EXCEPT ![FirstOld(t, p)] = [patch |-> p, form |-> "new"]]
<1>1. t[FirstOld(t, p)].form = "old"
  <2>1. t[FirstOld(t, p)] = [patch |-> p, form |-> "old"]
    BY FirstOldIsFirst
  <2> QED BY <2>1
<1> QED BY <1>1 DEF Replaced, ReplaceAt

(* One more patch goes in, and none that is in goes out.                   *)
LEMMA ReplacedGrows ==
  ASSUME NEW t \in Seq(Fragments), NEW p \in DOMAIN Patches,
         ~ ContainsNew(t, p), ContainsOld(t, p)
  PROVE  /\ Replaced(t, p) \in Seq(Fragments)
         /\ ContainsNew(Replaced(t, p), p)
         /\ \A q \in DOMAIN Patches :
              ContainsNew(t, q) => ContainsNew(Replaced(t, p), q)
<1> DEFINE n == FirstOld(t, p)
           new == [patch |-> p, form |-> "new"]
           u == [t EXCEPT ![n] = new]
<1>1. Len(t) \in Nat /\ DOMAIN t = 1 .. Len(t)
  OBVIOUS
<1>2. n \in 1 .. Len(t) /\ t[n] = [patch |-> p, form |-> "old"]
  BY FirstOldIsFirst
<1>3. Replaced(t, p) = u
  BY ReplacedIsPointwise
<1> HIDE DEF n
<1>4. new \in Fragments
  BY DEF Fragments
<1>5. u \in Seq(Fragments) /\ DOMAIN u = DOMAIN t
  BY <1>1, <1>2, <1>4
<1>6. \A i \in DOMAIN t : u[i] = IF i = n THEN new ELSE t[i]
  BY <1>1, <1>2
<1>7. ContainsNew(u, p)
  BY <1>1, <1>2, <1>5, <1>6 DEF ContainsNew, Has
<1>8. ASSUME NEW q \in DOMAIN Patches, ContainsNew(t, q) PROVE ContainsNew(u, q)
  <2>1. PICK i \in DOMAIN t : t[i] = [patch |-> q, form |-> "new"]
    BY <1>8 DEF ContainsNew, Has
  <2>2. i # n
    BY <1>2, <2>1
  <2> QED BY <1>5, <1>6, <2>1, <2>2 DEF ContainsNew, Has
<1> QED BY <1>3, <1>5, <1>7, <1>8

-----------------------------------------------------------------------------
(* A text on the way from the checkout c to the patched one.               *)

Partial(t, c) ==
  /\ t \in Seq(Fragments)
  /\ Len(t) = Len(c)
  /\ \A n \in 1 .. Len(c) :
       \/ t[n] = c[n]
       \/ /\ t[n] = [patch |-> c[n].patch, form |-> "new"]
          /\ ~ ContainsNew(c, c[n].patch)
          /\ \A m \in 1 .. (n - 1) : c[m].patch # c[n].patch

(* With one more patch it is still on the way. *)
LEMMA PartialGrows ==
  ASSUME NEW f \in Files, NEW c \in Seq(FragmentsOf(f)), NEW t, Partial(t, c),
         NEW p \in DOMAIN Patches, ~ ContainsNew(t, p), ContainsOld(t, p)
  PROVE  Partial(Replaced(t, p), c)
<1> DEFINE n == FirstOld(t, p)
           new == [patch |-> p, form |-> "new"]
           u == [t EXCEPT ![n] = new]
<1>1. /\ t \in Seq(Fragments) /\ Len(t) = Len(c) /\ Len(t) \in Nat
      /\ DOMAIN t = 1 .. Len(t)
      /\ \A i \in 1 .. Len(t) : t[i] \in Fragments
      /\ DOMAIN c = 1 .. Len(c)
      /\ \A i \in 1 .. Len(c) : c[i] \in Fragments
  BY DEF Partial, FragmentsOf
<1>2. /\ n \in 1 .. Len(t)
      /\ t[n] = [patch |-> p, form |-> "old"]
      /\ \A m \in 1 .. (n - 1) : t[m].patch # p
  BY <1>1, FirstOldIsFirst
<1>3. Replaced(t, p) = u
  BY <1>1, ReplacedIsPointwise
<1> HIDE DEF n
<1>4. \A i \in 1 .. Len(t) : t[i].patch = c[i].patch
  BY <1>1 DEF Partial
<1>5. new \in Fragments
  BY DEF Fragments
<1>6. u \in Seq(Fragments) /\ Len(u) = Len(t)
  BY <1>1, <1>2, <1>5
<1>7. \A i \in 1 .. Len(t) : u[i] = IF i = n THEN new ELSE t[i]
  BY <1>1, <1>2
<1>8. ~ ContainsNew(c, p)
  <2>1. SUFFICES ASSUME NEW m \in 1 .. Len(c), c[m] = new PROVE FALSE
    BY <1>1 DEF ContainsNew, Has
  <2>2. t[m] = new
    BY <2>1 DEF Partial
  <2> QED BY <1>1, <2>1, <2>2 DEF ContainsNew, Has
<1>9. c[n].patch = p
  BY <1>2, <1>4
<1>10. \A m \in 1 .. (n - 1) : c[m].patch # p
  <2>1. \A m \in 1 .. (n - 1) : m \in 1 .. Len(t)
    BY <1>1, <1>2
  <2> QED BY <1>2, <1>4, <2>1
<1>11. Partial(u, c)
  <2>1. ASSUME NEW i \in 1 .. Len(c)
        PROVE  \/ u[i] = c[i]
               \/ /\ u[i] = [patch |-> c[i].patch, form |-> "new"]
                  /\ ~ ContainsNew(c, c[i].patch)
                  /\ \A m \in 1 .. (i - 1) : c[m].patch # c[i].patch
    <3>1. CASE i = n
      BY <1>1, <1>7, <1>8, <1>9, <1>10, <3>1
    <3>2. CASE i # n
      BY <1>1, <1>7, <3>2 DEF Partial
    <3> QED BY <3>1, <3>2
  <2> QED BY <1>1, <1>6, <2>1 DEF Partial
<1> QED BY <1>3, <1>11

(* What a kill leaves of a text is a text. *)
LEMMA LeftIsText ==
  ASSUME NEW t \in Seq(Fragments), NEW left \in LeftOf(t)
  PROVE  left \in Seq(Fragments)
<1>1. Len(t) \in Nat /\ DOMAIN t = 1 .. Len(t)
  OBVIOUS
<1>2. \A n \in 0 .. Len(t) : SubSeq(t, 1, n) \in Seq(Fragments) /\ Len(SubSeq(t, 1, n)) = n
  BY <1>1
<1>3. CASE left \in {SubSeq(t, 1, n) : n \in 0 .. Len(t)}
  BY <1>2, <1>3
<1>4. CASE \E n \in DOMAIN t : left = [SubSeq(t, 1, n) EXCEPT ![n].form = "old"]
  <2>1. PICK n \in DOMAIN t : left = [SubSeq(t, 1, n) EXCEPT ![n].form = "old"]
    BY <1>4
  <2> DEFINE start == SubSeq(t, 1, n)
             row == [start[n] EXCEPT !.form = "old"]
  <2>2. start \in Seq(Fragments) /\ Len(start) = n /\ n \in 1 .. Len(start)
    BY <1>1, <1>2
  <2>3. left = [start EXCEPT ![n] = row]
    BY <2>1
  <2> HIDE DEF start
  <2>4. start[n] \in Fragments
    BY <2>2
  <2>5. row \in Fragments
    BY <2>4 DEF Fragments
  <2> HIDE DEF row
  <2> QED BY <2>2, <2>3, <2>5
<1> QED BY <1>3, <1>4 DEF LeftOf

(* A text in which every patch of its file is found is the patched text.   *)
LEMMA WholePartialIsPatched ==
  ASSUME NEW f \in Files, NEW c \in Seq(FragmentsOf(f)), NEW t, Partial(t, c),
         \A p \in DOMAIN Patches : Patches[p].file = f => ContainsNew(t, p)
  PROVE  t = PatchedOnce(c)
<1>1. /\ t \in Seq(Fragments) /\ Len(t) = Len(c) /\ Len(c) \in Nat
      /\ DOMAIN t = 1 .. Len(c) /\ DOMAIN c = 1 .. Len(c)
      /\ \A i \in 1 .. Len(c) : /\ c[i] \in Fragments
                               /\ Patches[c[i].patch].file = f
  BY DEF Partial, FragmentsOf
<1> DEFINE Due(i) == /\ ~ ContainsNew(c, c[i].patch)
                     /\ \A m \in 1 .. (i - 1) : c[m].patch # c[i].patch
           d == [i \in DOMAIN c |-> IF Due(i) THEN [c[i] EXCEPT !.form = "new"]
                                               ELSE c[i]]
<1>2. PatchedOnce(c) = d
  BY DEF PatchedOnce
<1>3. ASSUME NEW i \in 1 .. Len(c) PROVE t[i] = d[i]
  <2>1. [c[i] EXCEPT !.form = "new"] = [patch |-> c[i].patch, form |-> "new"]
    BY <1>1 DEF Fragments
  <2>2. CASE ~ Due(i)
    BY <1>1, <2>2 DEF Partial
  <2>3. CASE Due(i)
    <3>1. c[i].patch \in DOMAIN Patches
      BY <1>1 DEF Fragments
    <3>2. PICK m \in 1 .. Len(c) : t[m] = [patch |-> c[i].patch, form |-> "new"]
      BY <1>1, <3>1 DEF ContainsNew, Has
    <3>3. c[m] # t[m]
      BY <1>1, <2>3, <3>2 DEF ContainsNew, Has
    <3>4. c[m].patch = c[i].patch /\ \A k \in 1 .. (m - 1) : c[k].patch # c[m].patch
      <4>1. /\ t[m] = [patch |-> c[m].patch, form |-> "new"]
            /\ \A k \in 1 .. (m - 1) : c[k].patch # c[m].patch
        BY <3>3 DEF Partial
      <4>2. t[m].patch = c[m].patch /\ t[m].patch = c[i].patch
        BY <3>2, <4>1
      <4> QED BY <4>1, <4>2
    <3>5. m = i
      <4>1. ~ (m < i)
        BY <1>1, <2>3, <3>4
      <4>2. ~ (i < m)
        BY <1>1, <3>4
      <4> QED BY <1>1, <4>1, <4>2
    <3> QED BY <1>1, <2>1, <2>3, <3>2, <3>5
  <2> QED BY <2>2, <2>3
<1>4. t = [i \in 1 .. Len(c) |-> t[i]] /\ d = [i \in 1 .. Len(c) |-> d[i]]
  BY <1>1
<1> HIDE DEF d
<1> QED BY <1>2, <1>3, <1>4

-----------------------------------------------------------------------------
(* The invariant: a file is on the way from the checkout to the patched    *)
(* text, unless a write of it was killed; and the run is at patch next,    *)
(* with all patches before it in their files.                              *)

CheckoutOK == checkout \in Checkouts

FilesOK ==
  /\ DOMAIN files = Files /\ cut \subseteq Files
  /\ \A f \in Files :
       /\ files[f] \in Seq(Fragments)
       /\ \/ f \in cut \/ Partial(files[f], checkout[f])
          \/ patchStage = "writing" /\ f = Patches[next].file

ProgressOK ==
  /\ head \in [Repos -> BOOLEAN]
  /\ runs \in 0 .. MaxRuns
  /\ patchStage \in {"idle", "applying", "writing", "failed", "done"}
  /\ next \in 1 .. (Len(Patches) + 1)
  /\ patchStage = "done" => next = Len(Patches) + 1
  /\ patchStage \in {"applying", "writing", "done"} =>
       \A p \in DOMAIN Patches :
         p < next /\ (patchStage = "writing" => Patches[p].file # Patches[next].file)
           => ContainsNew(files[Patches[p].file], p)

WritingOK ==
  patchStage = "writing" =>
    /\ next \in DOMAIN Patches
    /\ files[Patches[next].file] = <<>>
    /\ text \in Seq(Fragments)
    /\ Patches[next].file \in cut \/ Partial(text, checkout[Patches[next].file])
    /\ \A p \in DOMAIN Patches :
         p <= next /\ Patches[p].file = Patches[next].file => ContainsNew(text, p)

UnpinnedOK ==
  (\E r \in Repos : ~ head[r]) => files = checkout /\ patchStage \in {"idle", "failed"}

PatchInv == CheckoutOK /\ FilesOK /\ ProgressOK /\ WritingOK /\ UnpinnedOK

(* The patches are a list, each for one of the files. *)
LEMMA PatchList ==
  /\ Len(Patches) \in Nat /\ DOMAIN Patches = 1 .. Len(Patches)
  /\ \A p \in DOMAIN Patches : Patches[p].file \in Files
BY BackendPatchAssumption DEF Files

(* The texts of a checkout are made of contexts of the patches. *)
LEMMA CheckoutTexts ==
  ASSUME CheckoutOK
  PROVE  /\ DOMAIN checkout = Files
         /\ \A f \in Files : checkout[f] \in Seq(FragmentsOf(f))
BY BackendPatchAssumption DEF CheckoutOK

(* Before the first run the files are those of the checkout. *)
LEMMA PatchInvInit == PatchInit => PatchInv
<1> SUFFICES ASSUME PatchInit PROVE PatchInv
  OBVIOUS
<1>1. CheckoutOK
  BY DEF PatchInit, CheckoutOK
<1>2. ASSUME NEW f \in Files PROVE Partial(files[f], checkout[f])
  <2>1. checkout[f] \in Seq(FragmentsOf(f)) /\ files[f] = checkout[f]
    BY <1>1, CheckoutTexts DEF PatchInit
  <2>2. checkout[f] \in Seq(Fragments)
    <3>1. FragmentsOf(f) \subseteq Fragments
      BY DEF FragmentsOf
    <3> QED BY <2>1, <3>1
  <2> QED BY <2>1, <2>2 DEF Partial
<1>3. FilesOK
  BY <1>1, <1>2, CheckoutTexts DEF PatchInit, FilesOK, Partial
<1>4. 1 \in 1 .. (Len(Patches) + 1) /\ 0 \in 0 .. MaxRuns
  BY PatchList, BackendPatchAssumption
<1>5. ProgressOK /\ WritingOK /\ UnpinnedOK
  BY <1>4 DEF PatchInit, ProgressOK, WritingOK, UnpinnedOK
<1> QED BY <1>1, <1>3, <1>5 DEF PatchInv

(* Every step of a run, a kill or a refusal included, keeps the invariant. *)
LEMMA PatchInvStep == PatchInv /\ [PatchNext]_patchVars => PatchInv'
<1> SUFFICES ASSUME PatchInv, [PatchNext]_patchVars PROVE PatchInv'
  OBVIOUS
<1> USE DEF PatchInv
<1>1. /\ next \in Nat \ {0} /\ MaxRuns \in Nat
      /\ Len(Patches) \in Nat /\ DOMAIN Patches = 1 .. Len(Patches)
      /\ \A p \in DOMAIN Patches : Patches[p].file \in Files
  BY PatchList, BackendPatchAssumption DEF ProgressOK
<1>2. head' = head /\ checkout' = checkout
  BY DEF PatchNext, StartRun, Replace, Write, Finish, Kill, patchVars
<1>3. CheckoutOK'
  BY <1>2 DEF CheckoutOK
<1>4. CASE StartRun
  <2>1. /\ runs' = runs + 1 /\ runs < MaxRuns /\ next' = 1 /\ files' = files
        /\ patchStage' = IF HeadsAreRequired THEN "applying" ELSE "failed"
        /\ patchStage # "writing" /\ cut' = cut
    BY <1>4 DEF StartRun
  <2>2. FilesOK' /\ WritingOK'
    BY <1>2, <2>1 DEF FilesOK, WritingOK
  <2>3. ProgressOK'
    BY <1>1, <1>2, <2>1 DEF ProgressOK
  <2>4. UnpinnedOK'
    BY <1>2, <2>1 DEF UnpinnedOK, HeadsAreRequired
  <2> QED BY <1>3, <2>2, <2>3, <2>4
<1>5. CASE Kill
  <2> DEFINE f == Patches[next].file
  <2>1. patchStage' = "idle" /\ next' = 1 /\ runs' = runs /\ 1 \in 1 .. (Len(Patches) + 1)
    BY <1>1, <1>5 DEF Kill
  <2>2. CASE patchStage = "applying" /\ UNCHANGED <<files, cut>>
    BY <1>2, <1>3, <2>1, <2>2 DEF FilesOK, ProgressOK, WritingOK, UnpinnedOK
  <2>3. CASE /\ patchStage = "writing" /\ cut' = cut \cup {f}
             /\ \E left \in LeftOf(text) : files' = [files EXCEPT ![f] = left]
    <3>1. PICK left \in LeftOf(text) : files' = [files EXCEPT ![f] = left]
      BY <2>3
    <3>2. f \in Files /\ left \in Seq(Fragments)
      BY <1>1, <2>3, LeftIsText DEF WritingOK
    <3>3. FilesOK'
      BY <1>2, <2>1, <2>3, <3>1, <3>2 DEF FilesOK
    <3> QED BY <1>2, <1>3, <2>1, <2>3, <3>3 DEF ProgressOK, WritingOK, UnpinnedOK
  <2> QED BY <1>5, <2>2, <2>3 DEF Kill
<1>6. CASE Finish
  BY <1>1, <1>2, <1>3, <1>6 DEF Finish, FilesOK, ProgressOK, WritingOK, UnpinnedOK
<1>7. CASE UNCHANGED patchVars
  BY <1>7 DEF patchVars, CheckoutOK, FilesOK, ProgressOK, WritingOK, UnpinnedOK
<1>8. CASE Write
  <2> DEFINE f == Patches[next].file
  <2>1. /\ patchStage = "writing" /\ next \in DOMAIN Patches /\ f \in Files
        /\ files' = [files EXCEPT ![f] = text]
        /\ patchStage' = "applying" /\ next' = next + 1 /\ runs' = runs /\ cut' = cut
    BY <1>1, <1>8 DEF Write, WritingOK
  <2>2. FilesOK'
    BY <1>2, <2>1 DEF FilesOK, WritingOK
  <2>3. ASSUME NEW p \in DOMAIN Patches, p < next'
        PROVE  ContainsNew(files'[Patches[p].file], p)
    <3>1. CASE Patches[p].file = f
      BY <1>1, <2>1, <2>3, <3>1 DEF FilesOK, WritingOK
    <3>2. CASE Patches[p].file # f
      <4>1. p < next
        BY <1>1, <2>1, <2>3, <3>2
      <4> QED BY <1>1, <2>1, <3>2, <4>1 DEF FilesOK, ProgressOK
    <3> QED BY <3>1, <3>2
  <2>4. ProgressOK'
    BY <1>1, <1>2, <2>1, <2>3 DEF ProgressOK
  <2>5. WritingOK' /\ UnpinnedOK'
    BY <1>2, <2>1 DEF WritingOK, UnpinnedOK
  <2> QED BY <1>3, <2>2, <2>4, <2>5
<1>9. CASE Replace
  <2> DEFINE f == Patches[next].file
             t == files[f]
  <2>1. /\ patchStage = "applying" /\ next \in DOMAIN Patches /\ f \in Files
        /\ runs' = runs /\ cut' = cut
        /\ \A r \in Repos : head[r]
    BY <1>1, <1>9 DEF Replace, UnpinnedOK
  <2>2. UnpinnedOK'
    BY <1>2, <2>1 DEF UnpinnedOK
  <2>3. CASE AlreadyApplied(t, next) /\ next' = next + 1 /\ UNCHANGED <<files, patchStage, text>>
    <3>1. ASSUME NEW p \in DOMAIN Patches, p < next'
          PROVE  ContainsNew(files[Patches[p].file], p)
      BY <1>1, <2>1, <2>3, <3>1 DEF ProgressOK, AlreadyApplied
    <3>2. ProgressOK'
      BY <1>1, <1>2, <2>1, <2>3, <3>1 DEF ProgressOK
    <3> QED
      BY <1>2, <1>3, <2>1, <2>2, <2>3, <3>2 DEF FilesOK, WritingOK
  <2>4. CASE MissingContext(t, next) /\ UNCHANGED files
    BY <1>1, <1>2, <1>3, <2>1, <2>2, <2>4
    DEF MissingContext, FilesOK, ProgressOK, WritingOK
  <2>5. CASE /\ ~ AlreadyApplied(t, next)
             /\ ContainsOld(t, next)
             /\ text' = Replaced(t, next)
             /\ files' = [files EXCEPT ![f] = <<>>]
             /\ patchStage' = "writing"
             /\ UNCHANGED next
    <3>1. t \in Seq(Fragments) /\ (f \in cut \/ Partial(t, checkout[f]))
      BY <2>1 DEF FilesOK
    <3>2. checkout[f] \in Seq(FragmentsOf(f))
      BY <2>1, CheckoutTexts
    <3>3. /\ Replaced(t, next) \in Seq(Fragments)
          /\ f \in cut \/ Partial(Replaced(t, next), checkout[f])
          /\ ContainsNew(Replaced(t, next), next)
          /\ \A q \in DOMAIN Patches :
               ContainsNew(t, q) => ContainsNew(Replaced(t, next), q)
      BY <2>1, <2>5, <3>1, <3>2, ReplacedGrows, PartialGrows DEF AlreadyApplied
    <3>4. FilesOK'
      <4>1. <<>> \in Seq(Fragments)
        OBVIOUS
      <4> QED BY <1>2, <2>1, <2>5, <4>1 DEF FilesOK
    <3>5. WritingOK'
      <4>1. ASSUME NEW p \in DOMAIN Patches, p <= next, Patches[p].file = f
            PROVE  ContainsNew(text', p)
        <5>1. CASE p = next
          BY <2>5, <3>3, <5>1
        <5>2. CASE p # next
          <6>1. p < next
            BY <1>1, <4>1, <5>2
          <6>2. ContainsNew(t, p)
            BY <2>1, <4>1, <6>1 DEF ProgressOK
          <6> QED BY <2>5, <3>3, <6>2
        <5> QED BY <5>1, <5>2
      <4>2. files'[f] = <<>>
        BY <2>1, <2>5 DEF FilesOK
      <4> QED BY <1>2, <2>1, <2>5, <3>3, <4>1, <4>2 DEF WritingOK
    <3>6. ProgressOK'
      <4>1. ASSUME NEW p \in DOMAIN Patches, p < next, Patches[p].file # f
            PROVE  ContainsNew(files'[Patches[p].file], p)
        BY <1>1, <2>1, <2>5, <4>1 DEF FilesOK, ProgressOK
      <4> QED BY <1>1, <1>2, <2>1, <2>5, <4>1 DEF ProgressOK
    <3> QED BY <1>3, <2>2, <3>4, <3>5, <3>6
  <2> QED BY <1>9, <2>3, <2>4, <2>5 DEF Replace
<1> QED BY <1>4, <1>5, <1>6, <1>7, <1>8, <1>9 DEF PatchNext

(* So it holds always. *)
LEMMA PatchInvAlways == PatchSpec => []PatchInv
BY PatchInvInit, PatchInvStep, PTL DEF PatchSpec

-----------------------------------------------------------------------------
(* The results. *)

(* Files hold nothing but contexts and replacements of the patches, and    *)
(* the loop stays within the list (replace, apply_backend).                *)
THEOREM PatchTypeCorrect == PatchSpec => []PatchTypeOK
<1>1. PatchInv => PatchTypeOK
  BY DEF PatchInv, FilesOK, ProgressOK, PatchTypeOK, Partial
<1> QED BY <1>1, PatchInvAlways, PTL

(* A run that reports success leaves every patch in its file; and in every *)
(* file whose write was never killed each patch once and nothing else      *)
(* changed, however many runs were killed before it (replace: "if new in   *)
(* text", "backend patch context not found").                              *)
THEOREM SuccessIsWhole == PatchSpec => []SuccessIsTheWholePatch
<1>1. PatchInv => SuccessIsTheWholePatch
  <2> SUFFICES ASSUME PatchInv, patchStage = "done" PROVE AllApplied
    BY DEF SuccessIsTheWholePatch
  <2> USE DEF PatchInv
  <2>1. \A p \in DOMAIN Patches : ContainsNew(files[Patches[p].file], p)
    BY PatchList DEF ProgressOK
  <2>2. ASSUME NEW f \in Files \ cut PROVE files[f] = PatchedOnce(checkout[f])
    <3>1. Partial(files[f], checkout[f])
      BY DEF FilesOK
    <3>2. checkout[f] \in Seq(FragmentsOf(f))
      BY CheckoutTexts
    <3> QED BY <2>1, <3>1, <3>2, WholePartialIsPatched
  <2> QED BY <2>1, <2>2 DEF AllApplied
<1> QED BY <1>1, PatchInvAlways, PTL

(* A checkout at another commit is never written to (require_head comes    *)
(* before the first replace).                                              *)
THEOREM UnpinnedUntouched == PatchSpec => []UnpinnedIsUntouched
<1>1. PatchInv => UnpinnedIsUntouched
  BY DEF PatchInv, UnpinnedOK, UnpinnedIsUntouched
<1> QED BY <1>1, PatchInvAlways, PTL

(* When all patches are in, no later run touches a file (replace: "if new  *)
(* in text: return").                                                      *)
THEOREM PatchedStaysPatched == PatchSpec => PatchedIsFinal
<1>1. PatchInv /\ [PatchNext]_patchVars => (AllApplied => files' = files)
  <2> SUFFICES ASSUME PatchInv, [PatchNext]_patchVars, AllApplied
               PROVE  files' = files
    OBVIOUS
  <2>1. patchStage # "writing"
    BY EmptyHasNothing DEF PatchInv, WritingOK, AllApplied
  <2>2. ASSUME Replace PROVE files' = files
    BY <2>2 DEF Replace, AllApplied, AlreadyApplied, MissingContext
  <2> QED
    BY <2>1, <2>2 DEF PatchNext, StartRun, Write, Finish, Kill, patchVars
<1>2. PatchInv /\ [PatchNext]_patchVars => [AllApplied => files' = files]_patchVars
  BY <1>1
<1> QED BY <1>2, PatchInvAlways, PTL DEF PatchSpec, PatchedIsFinal

(* A text that is written keeps every patch that its file had (replace     *)
(* reads the file again for each patch).                                   *)
THEOREM PatchesStay == PatchSpec => PatchesAreNeverLost
<1>1. PatchInv /\ [PatchNext]_patchVars =>
        \A f \in Files : ~WriteIsKilled(f) =>
          Applied(View(f)) \subseteq Applied(View(f)')
  <2> SUFFICES ASSUME PatchInv, [PatchNext]_patchVars, NEW f \in Files,
                      ~WriteIsKilled(f)
               PROVE  Applied(View(f)) \subseteq Applied(View(f)')
    OBVIOUS
  <2> USE DEF PatchInv
  <2>1. CASE Write
    <3>1. View(f)' = View(f)
      BY <2>1 DEF Write, View, FilesOK, WritingOK
    <3> QED BY <3>1 DEF Applied
  <2>2. CASE Kill
    <3>1. View(f)' = View(f)
      <4>1. CASE patchStage = "applying"
        BY <2>2, <4>1 DEF Kill, View
      <4>2. CASE patchStage = "writing"
        <5>1. f # Patches[next].file /\ patchStage' = "idle"
          BY <2>2, <4>2 DEF Kill, WriteIsKilled
        <5>2. PICK left : files' = [files EXCEPT ![Patches[next].file] = left]
          BY <2>2, <4>2 DEF Kill
        <5> QED BY <4>2, <5>1, <5>2 DEF View, FilesOK
      <4> QED BY <2>2, <4>1, <4>2 DEF Kill
    <3> QED BY <3>1 DEF Applied
  <2>3. CASE Replace
    <3>1. CASE files' = files /\ patchStage' # "writing"
      BY <2>3, <3>1 DEF Replace, View, Applied
    <3>2. CASE ~ (files' = files /\ patchStage' # "writing")
      <4> DEFINE g == Patches[next].file
                 t == files[g]
      <4>1. /\ ~ AlreadyApplied(t, next) /\ ContainsOld(t, next)
            /\ patchStage = "applying" /\ next \in DOMAIN Patches
            /\ text' = Replaced(t, next)
            /\ files' = [files EXCEPT ![g] = <<>>]
            /\ patchStage' = "writing" /\ next' = next
        BY <2>3, <3>2 DEF Replace, MissingContext
      <4>2. g \in Files
        BY <4>1, PatchList
      <4>3. CASE f # g
        BY <4>1, <4>2, <4>3 DEF View, Applied, FilesOK
      <4>4. CASE f = g
        <5>1. t \in Seq(Fragments)
          BY <4>2 DEF FilesOK
        <5>2. \A q \in DOMAIN Patches :
                ContainsNew(t, q) => ContainsNew(Replaced(t, next), q)
          BY <4>1, <5>1, ReplacedGrows DEF AlreadyApplied
        <5>3. View(f) = t /\ View(f)' = Replaced(t, next)
          BY <4>1, <4>4 DEF View
        <5> QED BY <5>2, <5>3 DEF Applied
      <4> QED BY <4>3, <4>4
    <3> QED BY <3>1, <3>2
  <2>4. CASE StartRun
    BY <2>4 DEF StartRun, View, Applied
  <2>5. CASE Finish
    BY <2>5 DEF Finish, View, Applied
  <2>6. CASE UNCHANGED patchVars
    BY <2>6 DEF patchVars, View, Applied
  <2> QED BY <2>1, <2>2, <2>3, <2>4, <2>5, <2>6 DEF PatchNext
<1>2. PatchInv /\ [PatchNext]_patchVars =>
        [\A f \in Files : ~WriteIsKilled(f) =>
           Applied(View(f)) \subseteq Applied(View(f)')]_patchVars
  BY <1>1
<1> QED BY <1>2, PatchInvAlways, PTL DEF PatchSpec, PatchesAreNeverLost

-----------------------------------------------------------------------------
(* PolicyGenerators and GeneratedPolicies. *)

-----------------------------------------------------------------------------
(* Jobs. *)

(* Two lists after one another. *)
LEMMA Joined ==
  ASSUME NEW m \in Nat, NEW n \in Nat, NEW f, NEW g,
         f = [k \in 1 .. m |-> f[k]], g = [k \in 1 .. n |-> g[k]]
  PROVE  /\ DOMAIN (f \o g) = 1 .. (m + n)
         /\ \A k \in 1 .. m : (f \o g)[k] = f[k]
         /\ \A k \in 1 .. n : (f \o g)[m + k] = g[k]
<1> DEFINE T == {f[k] : k \in 1 .. m} \cup {g[k] : k \in 1 .. n}
<1>1. f \in [1 .. m -> T] /\ g \in [1 .. n -> T]
  <2>1. \A k \in 1 .. m : f[k] \in T
    OBVIOUS
  <2>2. \A k \in 1 .. n : g[k] \in T
    OBVIOUS
  <2> HIDE DEF T
  <2> QED BY <2>1, <2>2
<1> HIDE DEF T
<1>2. f \in Seq(T) /\ g \in Seq(T) /\ Len(f) = m /\ Len(g) = n
  BY <1>1, IsASeq
<1>3. /\ f \o g \in Seq(T) /\ Len(f \o g) = m + n
      /\ \A k \in 1 .. (m + n) : (f \o g)[k] = IF k <= m THEN f[k] ELSE g[k - m]
  BY <1>2, ConcatProperties
<1>4. DOMAIN (f \o g) = 1 .. (m + n)
  BY <1>3
<1>5. ASSUME NEW k \in 1 .. n PROVE (f \o g)[m + k] = g[k]
  <2>1. m + k \in 1 .. (m + n) /\ ~(m + k <= m) /\ (m + k) - m = k
    OBVIOUS
  <2> QED BY <1>3, <2>1
<1> QED BY <1>3, <1>4, <1>5

(* Types of a job: those of the policy and then those of the boundary.     *)
LEMMA TypesOfJob ==
  ASSUME NEW job \in JobRecords
  PROVE  composed_types(job) \in Seq(Names)
<1> DEFINE new(n) == /\ job.extra_types[n] \notin Range(job.types)
                     /\ \A m \in 1 .. (n - 1) : job.extra_types[m] # job.extra_types[n]
           E == {n \in DOMAIN job.extra_types : new(n)}
<1>1. job.types \in Seq(Names) /\ job.extra_types \in Seq(Names)
  BY DEF JobRecords
<1>2. composed_types(job) = job.types \o Picked(job.extra_types, E)
  BY DEF composed_types
<1>3. E \in SUBSET DOMAIN job.extra_types
  OBVIOUS
<1> HIDE DEF E
<1>4. Picked(job.extra_types, E) \in Seq(Names)
  BY <1>1, <1>3, PickedFinds
<1> QED BY <1>1, <1>2, <1>4, ConcatProperties

(* The precise allocations, and the sites. *)
LEMMA PreciseOfJob ==
  ASSUME NEW job \in JobRecords
  PROVE  /\ PreciseAllocations(job) \in Seq([type : Names, function : Names, precise : BOOLEAN])
         /\ \A n \in DOMAIN PreciseAllocations(job) :
              PreciseAllocations(job)[n] \in Range(job.allocations)
<1> DEFINE E == {n \in DOMAIN job.allocations : job.allocations[n].precise}
           T == [type : Names, function : Names, precise : BOOLEAN]
<1>1. job.allocations \in Seq(T)
  BY DEF JobRecords
<1>2. PreciseAllocations(job) = Picked(job.allocations, E)
  BY DEF PreciseAllocations
<1>3. E \in SUBSET DOMAIN job.allocations
  OBVIOUS
<1> HIDE DEF E, T
<1>4. /\ Picked(job.allocations, E) \in Seq(T)
      /\ Len(Picked(job.allocations, E)) = Cardinality(E)
      /\ \A k \in 1 .. Cardinality(E) :
              /\ Nth(E, k) \in E
              /\ Picked(job.allocations, E)[k] = job.allocations[Nth(E, k)]
  BY <1>1, <1>3, PickedFinds
<1>5. DOMAIN Picked(job.allocations, E) = 1 .. Cardinality(E)
  BY <1>4
<1>6. \A k \in 1 .. Cardinality(E) : Picked(job.allocations, E)[k] \in Range(job.allocations)
  BY <1>3, <1>4 DEF Range
<1> QED BY <1>2, <1>4, <1>5, <1>6 DEF T

(* The number before the first site of a job. *)
SiteBase(job) == IF job.backend = "nacl" THEN 0 ELSE job.base

(* A list whose entries are those of two others, after one another, as the *)
(* lists of sites and of declared types are.                               *)
LEMMA DeclaredOfJob ==
  ASSUME NEW job \in JobRecords
  PROVE  LET count == Len(PreciseAllocations(job)) IN
         /\ count \in Nat /\ Len(job.helpers) \in Nat
         /\ DOMAIN PreciseAllocations(job) = 1 .. count
         /\ DOMAIN job.helpers = 1 .. Len(job.helpers)
         /\ SiteTotal(job) = count + Len(job.helpers)
         /\ DOMAIN Declared(job) = 1 .. SiteTotal(job)
         /\ \A n \in 1 .. count : Declared(job)[n] = PreciseAllocations(job)[n].type
         /\ \A n \in 1 .. Len(job.helpers) : Declared(job)[count + n] = job.helpers[n].type
<1> DEFINE count == Len(PreciseAllocations(job))
           more == Len(job.helpers)
           f == [n \in DOMAIN PreciseAllocations(job) |-> PreciseAllocations(job)[n].type]
           g == [n \in DOMAIN job.helpers |-> job.helpers[n].type]
<1>1. /\ count \in Nat /\ DOMAIN PreciseAllocations(job) = 1 .. count
  BY PreciseOfJob
<1>2. more \in Nat /\ DOMAIN job.helpers = 1 .. more
  <2>1. job.helpers \in Seq([name : Names, type : Names])
    BY DEF JobRecords
  <2> QED BY <2>1
<1>3. Declared(job) = f \o g
  BY DEF Declared
<1>4. f = [k \in 1 .. count |-> f[k]] /\ g = [k \in 1 .. more |-> g[k]]
  BY <1>1, <1>2
<1>5. \A n \in 1 .. count : f[n] = PreciseAllocations(job)[n].type
  BY <1>1
<1>6. \A n \in 1 .. more : g[n] = job.helpers[n].type
  BY <1>2
<1> HIDE DEF f, g
<1>7. /\ DOMAIN (f \o g) = 1 .. (count + more)
      /\ \A k \in 1 .. count : (f \o g)[k] = f[k]
      /\ \A k \in 1 .. more : (f \o g)[count + k] = g[k]
  <2> HIDE DEF count, more
  <2> QED BY <1>1, <1>2, <1>4, Joined
<1> QED BY <1>1, <1>2, <1>3, <1>5, <1>6, <1>7 DEF SiteTotal

(* A site has its number, its type and, when it is a helper's, its name.   *)
SiteAt(job, n) ==
  /\ sites(job)[n].id = SiteBase(job) + n
  /\ sites(job)[n].type = Declared(job)[n]
  /\ sites(job)[n].helper =
       IF n <= Len(PreciseAllocations(job)) THEN <<>>
       ELSE job.helpers[n - Len(PreciseAllocations(job))].name

(* The NaCl generator numbers the precise allocations from 1 and the       *)
(* helper sites after them (generate and generate_boundary).               *)
LEMMA NaClSitesOfJob ==
  ASSUME NEW job \in JobRecords, job.backend = "nacl"
  PROVE  /\ DOMAIN sites(job) = 1 .. SiteTotal(job)
         /\ \A n \in 1 .. SiteTotal(job) : SiteAt(job, n)
<1> DEFINE count == Len(PreciseAllocations(job))
           more == Len(job.helpers)
           site(id, type, label, helper) ==
             [id |-> id, type |-> type, label |-> label, helper |-> helper]
           f == [n \in DOMAIN PreciseAllocations(job) |->
                   site(n, PreciseAllocations(job)[n].type,
                        site_symbols(PreciseAllocations(job)[n].function, n), <<>>)]
           g == [n \in DOMAIN job.helpers |->
                   site(count + n, job.helpers[n].type,
                        helper_symbols(job.namespace, job.helpers[n].name, count + n),
                        job.helpers[n].name)]
<1>1. /\ count \in Nat /\ more \in Nat
      /\ DOMAIN PreciseAllocations(job) = 1 .. count
      /\ DOMAIN job.helpers = 1 .. more
      /\ SiteTotal(job) = count + more
      /\ \A n \in 1 .. count : Declared(job)[n] = PreciseAllocations(job)[n].type
      /\ \A n \in 1 .. more : Declared(job)[count + n] = job.helpers[n].type
  BY DeclaredOfJob
<1>2. sites(job) = f \o g
  BY DEF sites, nacl_sites
<1>3. f = [k \in 1 .. count |-> f[k]] /\ g = [k \in 1 .. more |-> g[k]]
  BY <1>1
<1>4. ASSUME NEW n \in 1 .. count
      PROVE  f[n].id = n /\ f[n].type = PreciseAllocations(job)[n].type /\ f[n].helper = <<>>
  BY <1>1
<1>5. ASSUME NEW n \in 1 .. more
      PROVE  /\ g[n].id = count + n /\ g[n].type = job.helpers[n].type
             /\ g[n].helper = job.helpers[n].name
  BY <1>1
<1> HIDE DEF f, g
<1>6. /\ DOMAIN (f \o g) = 1 .. (count + more)
      /\ \A k \in 1 .. count : (f \o g)[k] = f[k]
      /\ \A k \in 1 .. more : (f \o g)[count + k] = g[k]
  <2> HIDE DEF count, more
  <2> QED BY <1>1, <1>3, Joined
<1>7. SiteBase(job) = 0
  BY DEF SiteBase
<1>8. ASSUME NEW n \in 1 .. SiteTotal(job) PROVE SiteAt(job, n)
  <2>1. CASE n <= count
    <3>1. n \in 1 .. count
      BY <1>1, <2>1
    <3> QED BY <1>1, <1>2, <1>4, <1>6, <1>7, <2>1, <3>1 DEF SiteAt
  <2>2. CASE ~(n <= count)
    <3>1. PICK k \in 1 .. more : n = count + k
      <4>1. n - count \in 1 .. more /\ n = count + (n - count)
        BY <1>1, <2>2
      <4> QED BY <4>1
    <3>2. n - count = k
      BY <1>1, <3>1
    <3>3. sites(job)[n] = g[k] /\ Declared(job)[n] = job.helpers[k].type
      BY <1>1, <1>2, <1>6, <3>1
    <3>4. /\ sites(job)[n].id = n /\ sites(job)[n].type = Declared(job)[n]
          /\ sites(job)[n].helper = job.helpers[k].name
      BY <1>5, <3>1, <3>3
    <3> QED BY <1>1, <1>7, <2>2, <3>2, <3>4 DEF SiteAt
  <2> QED BY <2>1, <2>2
<1> QED BY <1>1, <1>2, <1>6, <1>8

(* So does the wasm2c generator, from the base on (site_records). *)
LEMMA WasmSitesOfJob ==
  ASSUME NEW job \in JobRecords, job.backend = "wasm"
  PROVE  /\ DOMAIN sites(job) = 1 .. SiteTotal(job)
         /\ \A n \in 1 .. SiteTotal(job) : SiteAt(job, n)
<1> DEFINE count == Len(PreciseAllocations(job))
           more == Len(job.helpers)
<1>1. /\ count \in Nat /\ more \in Nat
      /\ SiteTotal(job) = count + more
      /\ \A n \in 1 .. count : Declared(job)[n] = PreciseAllocations(job)[n].type
      /\ \A n \in 1 .. more : Declared(job)[count + n] = job.helpers[n].type
  BY DeclaredOfJob
<1>2. sites(job) = site_records(job) /\ SiteBase(job) = job.base
  BY DEF sites, SiteBase
<1>3. DOMAIN sites(job) = 1 .. SiteTotal(job)
  BY <1>2 DEF site_records
<1>4. ASSUME NEW n \in 1 .. SiteTotal(job) PROVE SiteAt(job, n)
  <2>1. CASE n <= count
    <3>1. n \in 1 .. count
      BY <1>1, <2>1
    <3>2. /\ site_records(job)[n].id = job.base + n
          /\ site_records(job)[n].type = PreciseAllocations(job)[n].type
          /\ site_records(job)[n].helper = <<>>
      BY <2>1 DEF site_records, runtime_site_id
    <3> QED BY <1>1, <1>2, <2>1, <3>1, <3>2 DEF SiteAt
  <2>2. CASE ~(n <= count)
    <3>1. n - count \in 1 .. more /\ n = count + (n - count)
      BY <1>1, <2>2
    <3>2. /\ site_records(job)[n].id = job.base + n
          /\ site_records(job)[n].type = job.helpers[n - count].type
          /\ site_records(job)[n].helper = job.helpers[n - count].name
      BY <2>2 DEF site_records, runtime_site_id
    <3>3. Declared(job)[n] = job.helpers[n - count].type
      BY <1>1, <3>1
    <3> QED BY <1>2, <2>2, <3>2, <3>3 DEF SiteAt
  <2> QED BY <2>1, <2>2
<1> QED BY <1>3, <1>4

(* Either way site n has number n after the base, and the n-th declared    *)
(* type.                                                                   *)
LEMMA SitesOfJob ==
  ASSUME NEW job \in JobRecords
  PROVE  /\ SiteTotal(job) \in Nat
         /\ DOMAIN sites(job) = 1 .. SiteTotal(job)
         /\ \A n \in 1 .. SiteTotal(job) : SiteAt(job, n)
<1>1. job.backend \in {"nacl", "wasm"}
  BY DEF JobRecords
<1>2. SiteTotal(job) \in Nat
  BY DeclaredOfJob
<1> QED BY <1>1, <1>2, NaClSitesOfJob, WasmSitesOfJob

-----------------------------------------------------------------------------
(* What is accepted registers. *)

(* The dictionary of type numbers leads back to the name. *)
LEMMA IdsFind ==
  ASSUME NEW names \in Seq(Names)
  PROVE  /\ DOMAIN ids(names) = Range(names)
         /\ \A t \in Range(names) : ids(names)[t] \in DOMAIN names /\ names[ids(names)[t]] = t
<1>1. DOMAIN ids(names) = Range(names)
  BY DEF ids
<1>2. ASSUME NEW t \in Range(names)
      PROVE  ids(names)[t] \in DOMAIN names /\ names[ids(names)[t]] = t
  <2> DEFINE at == {n \in DOMAIN names : names[n] = t}
  <2>1. Len(names) \in Nat /\ DOMAIN names = 1 .. Len(names)
    OBVIOUS
  <2>2. at # {} /\ at \in SUBSET (1 .. Len(names))
    BY <2>1 DEF Range
  <2>3. \E n \in at : \A m \in at : m <= n
    <3> HIDE DEF at
    <3> QED BY <2>1, <2>2, GreatestOf
  <2>4. \E n \in DOMAIN names :
          names[n] = t /\ \A m \in DOMAIN names : names[m] = t => m <= n
    BY <2>3
  <2> QED BY <2>4 DEF ids
<1> QED BY <1>1, <1>2

(* What both generators require of a job that they accept. *)
LEMMA AcceptedJob ==
  ASSUME NEW job \in JobRecords, accepts(job)
  PROVE  /\ TypesAreKnown(job) /\ NoHashCollision(composed_types(job))
         /\ SiteBase(job) \in Nat
<1>1. CASE job.backend = "nacl"
  BY <1>1 DEF accepts, nacl_accepts, SiteBase
<1>2. CASE job.backend # "nacl"
  <2>1. wasm_accepts(job)
    BY <1>2 DEF accepts
  <2> QED BY <1>2, <2>1, GeneratorAssumption DEF wasm_accepts, SiteBase
<1> QED BY <1>1, <1>2

(* A constant of the trusted header carries the number and the hash of the *)
(* type it names, and every type of the job has one.                       *)
LEMMA ConstantsOfJob ==
  ASSUME NEW job \in JobRecords
  PROVE  /\ \A t \in Range(composed_types(job)) : \E s \in type_constants(job) :
              s.name = t /\ s.ident = cpp(t) /\ s.hash = hash_type(t)
         /\ \A s \in type_constants(job) :
              /\ s.name \in Range(composed_types(job)) /\ s.ident = cpp(s.name)
              /\ s.hash = hash_type(s.name)
              /\ s.id \in DOMAIN composed_types(job) /\ composed_types(job)[s.id] = s.name
              /\ s = [ident |-> cpp(s.name), name |-> s.name, id |-> s.id,
                      hash |-> hash_type(s.name)]
              /\ s.id = ids(composed_types(job))[s.name]
<1> DEFINE names == composed_types(job)
           number == ids(names)
           constant(t) == [ident |-> cpp(t), name |-> t, id |-> number[t], hash |-> hash_type(t)]
<1>1. /\ DOMAIN number = Range(names)
      /\ \A t \in Range(names) : number[t] \in DOMAIN names /\ names[number[t]] = t
  BY TypesOfJob, IdsFind
<1>2. type_constants(job) = {constant(t) : t \in Range(names)}
  BY <1>1 DEF type_constants
<1>3. ASSUME NEW t \in Range(names)
      PROVE  /\ constant(t).name = t /\ constant(t).ident = cpp(t)
             /\ constant(t).hash = hash_type(t) /\ constant(t).id = number[t]
  OBVIOUS
<1>4. ASSUME NEW t \in Range(names)
      PROVE  \E s \in type_constants(job) :
               s.name = t /\ s.ident = cpp(t) /\ s.hash = hash_type(t)
  BY <1>2, <1>3
<1>5. ASSUME NEW s \in type_constants(job)
      PROVE  /\ s.name \in Range(names) /\ s.ident = cpp(s.name)
             /\ s.hash = hash_type(s.name)
             /\ s.id \in DOMAIN names /\ names[s.id] = s.name
             /\ s = [ident |-> cpp(s.name), name |-> s.name, id |-> s.id,
                      hash |-> hash_type(s.name)]
             /\ s.id = number[s.name]
  <2>1. PICK t \in Range(names) : s = constant(t)
    BY <1>2
  <2>2. s.name = t /\ s.ident = cpp(t) /\ s.hash = hash_type(t) /\ s.id = number[t]
    BY <1>3, <2>1
  <2> QED BY <1>1, <2>1, <2>2
<1> QED BY <1>4, <1>5

(* register_type cannot fail for a policy that was generated and compiled: *)
(* no number is 0, and neither a number nor a hash is used for two types.  *)
LEMMA TypesOfAcceptedRegister ==
  ASSUME NEW job \in JobRecords, accepts(job)
  PROVE  TypesRegister(job)
<1> DEFINE names == composed_types(job)
<1>1. names \in Seq(Names)
  BY TypesOfJob
<1>2. NoHashCollision(names)
  BY AcceptedJob
<1>3. ASSUME NEW s \in type_constants(job), NEW t \in type_constants(job)
      PROVE  /\ s.id # 0
             /\ s.id = t.id \/ s.hash = t.hash => s = t
  <2>1. /\ s.name \in Range(names) /\ s.hash = hash_type(s.name)
        /\ s.id \in DOMAIN names /\ names[s.id] = s.name
        /\ s = [ident |-> cpp(s.name), name |-> s.name, id |-> s.id, hash |-> hash_type(s.name)]
        /\ s.id = ids(names)[s.name]
    BY ConstantsOfJob
  <2>2. /\ t.name \in Range(names) /\ t.hash = hash_type(t.name)
        /\ t.id \in DOMAIN names /\ names[t.id] = t.name
        /\ t = [ident |-> cpp(t.name), name |-> t.name, id |-> t.id, hash |-> hash_type(t.name)]
        /\ t.id = ids(names)[t.name]
    BY ConstantsOfJob
  <2> HIDE DEF names
  <2>3. s.id # 0
    BY <1>1, <2>1
  <2>4. s.id = t.id \/ s.hash = t.hash => s.name = t.name
    BY <1>2, <2>1, <2>2 DEF NoHashCollision
  <2> QED BY <2>1, <2>2, <2>3, <2>4
<1> QED BY <1>3 DEF TypesRegister

(* The types declared for the sites are types of the policy.               *)
LEMMA DeclaredIsKnown ==
  ASSUME NEW job \in JobRecords, TypesAreKnown(job), NEW n \in 1 .. SiteTotal(job)
  PROVE  Declared(job)[n] \in Range(composed_types(job))
<1> DEFINE count == Len(PreciseAllocations(job))
<1>1. /\ count \in Nat /\ Len(job.helpers) \in Nat
      /\ DOMAIN PreciseAllocations(job) = 1 .. count
      /\ DOMAIN job.helpers = 1 .. Len(job.helpers)
      /\ SiteTotal(job) = count + Len(job.helpers)
      /\ \A k \in 1 .. count : Declared(job)[k] = PreciseAllocations(job)[k].type
      /\ \A k \in 1 .. Len(job.helpers) : Declared(job)[count + k] = job.helpers[k].type
  BY DeclaredOfJob
<1>2. \A k \in 1 .. count : PreciseAllocations(job)[k] \in Range(job.allocations)
  BY <1>1, PreciseOfJob
<1>3. \A k \in 1 .. Len(job.helpers) : job.helpers[k] \in Range(job.helpers)
  BY <1>1 DEF Range
<1>4. /\ \A a \in Range(job.allocations) : a.type \in Range(composed_types(job))
      /\ \A h \in Range(job.helpers) : h.type \in Range(composed_types(job))
  BY DEF TypesAreKnown
<1> HIDE DEF count
<1>5. CASE n <= count
  <2>1. n \in 1 .. count
    BY <1>1, <1>5
  <2> QED BY <1>1, <1>2, <1>4, <2>1
<1>6. CASE ~(n <= count)
  <2>1. n - count \in 1 .. Len(job.helpers) /\ n = count + (n - count)
    BY <1>1, <1>6
  <2>2. Declared(job)[n] = job.helpers[n - count].type
    BY <1>1, <2>1
  <2> QED BY <1>3, <1>4, <2>1, <2>2
<1> QED BY <1>5, <1>6

(* Nor can the registration of sites: their types are registered before,   *)
(* and no number is used for two of them.                                  *)
LEMMA SitesOfAcceptedRegister ==
  ASSUME NEW job \in JobRecords, accepts(job)
  PROVE  SitesRegister(job)
<1>1. /\ SiteTotal(job) \in Nat /\ DOMAIN sites(job) = 1 .. SiteTotal(job)
      /\ \A n \in 1 .. SiteTotal(job) :
           sites(job)[n].id = SiteBase(job) + n /\ sites(job)[n].type = Declared(job)[n]
  BY SitesOfJob DEF SiteAt
<1>2. TypesAreKnown(job) /\ SiteBase(job) \in Nat
  BY AcceptedJob
<1>3. /\ DOMAIN site_table(job) = 1 .. SiteTotal(job)
      /\ \A n \in 1 .. SiteTotal(job) :
           /\ site_table(job)[n].id = SiteBase(job) + n
           /\ site_table(job)[n].type = cpp(Declared(job)[n])
  BY <1>1 DEF site_table
<1>4. ASSUME NEW n \in 1 .. SiteTotal(job)
      PROVE  \E t \in type_constants(job) : t.ident = site_table(job)[n].type
  <2>1. Declared(job)[n] \in Range(composed_types(job))
    BY <1>2, DeclaredIsKnown
  <2> QED BY <1>3, <2>1, ConstantsOfJob
<1> QED BY <1>1, <1>2, <1>3, <1>4 DEF SitesRegister

-----------------------------------------------------------------------------
(* What a site gives. *)

(* The registered sites of a policy whose header compiles: a constant of   *)
(* the header stands for one type, so each site has the type declared.     *)
LEMMA RegisteredOfJob ==
  ASSUME NEW job \in JobRecords, accepts(job), HeaderCompiles(job)
  PROVE  /\ \A n \in 1 .. SiteTotal(job) : \E r \in SitesOf(job) :
              /\ r.id = SiteBase(job) + n /\ r.label = sites(job)[n].label
              /\ r.hash = hash_type(Declared(job)[n])
         /\ \A r \in SitesOf(job) : \E n \in 1 .. SiteTotal(job) :
              /\ r.id = SiteBase(job) + n /\ r.label = sites(job)[n].label
              /\ r.hash = hash_type(Declared(job)[n])
<1>1. /\ SiteTotal(job) \in Nat /\ DOMAIN sites(job) = 1 .. SiteTotal(job)
      /\ \A n \in 1 .. SiteTotal(job) :
           sites(job)[n].id = SiteBase(job) + n /\ sites(job)[n].type = Declared(job)[n]
  BY SitesOfJob DEF SiteAt
<1>2. TypesAreKnown(job)
  BY AcceptedJob
<1>3. /\ DOMAIN site_table(job) = 1 .. SiteTotal(job)
      /\ \A n \in 1 .. SiteTotal(job) :
           /\ site_table(job)[n].id = SiteBase(job) + n
           /\ site_table(job)[n].label = sites(job)[n].label
           /\ site_table(job)[n].type = cpp(Declared(job)[n])
  BY <1>1 DEF site_table
<1>4. ASSUME NEW n \in 1 .. SiteTotal(job)
      PROVE  \E t \in type_constants(job) :
               t.ident = site_table(job)[n].type /\ t.hash = hash_type(Declared(job)[n])
  <2>1. Declared(job)[n] \in Range(composed_types(job))
    BY <1>2, DeclaredIsKnown
  <2> QED BY <1>3, <2>1, ConstantsOfJob
<1>5. ASSUME NEW n \in 1 .. SiteTotal(job), NEW t \in type_constants(job),
             t.ident = site_table(job)[n].type
      PROVE  t.hash = hash_type(Declared(job)[n])
  <2>1. PICK s \in type_constants(job) :
          s.ident = site_table(job)[n].type /\ s.hash = hash_type(Declared(job)[n])
    BY <1>4
  <2>2. s = t
    BY <1>5, <2>1 DEF HeaderCompiles
  <2> QED BY <2>1, <2>2
<1>6. ASSUME NEW n \in 1 .. SiteTotal(job)
      PROVE  \E r \in SitesOf(job) :
               /\ r.id = SiteBase(job) + n /\ r.label = sites(job)[n].label
               /\ r.hash = hash_type(Declared(job)[n])
  <2>1. PICK t \in type_constants(job) :
          t.ident = site_table(job)[n].type /\ t.hash = hash_type(Declared(job)[n])
    BY <1>4
  <2> DEFINE s == site_table(job)[n]
             p == <<s, t>>
             r == [id |-> p[1].id, label |-> p[1].label, hash |-> p[2].hash]
  <2>2. s \in Range(site_table(job))
    BY <1>3 DEF Range
  <2>3. p \in Range(site_table(job)) \X type_constants(job) /\ p[1].type = p[2].ident
    <3> HIDE DEF s
    <3>1. t.ident = s.type
      BY <2>1 DEF s
    <3> QED BY <2>2, <3>1
  <2>4. r \in SitesOf(job)
    <3> HIDE DEF p
    <3> QED BY <2>3 DEF SitesOf
  <2>5. r.id = s.id /\ r.label = s.label /\ r.hash = t.hash
    OBVIOUS
  <2> HIDE DEF r
  <2> QED BY <1>3, <2>1, <2>4, <2>5
<1>7. ASSUME NEW r \in SitesOf(job)
      PROVE  \E n \in 1 .. SiteTotal(job) :
               /\ r.id = SiteBase(job) + n /\ r.label = sites(job)[n].label
               /\ r.hash = hash_type(Declared(job)[n])
  <2>1. PICK p \in Range(site_table(job)) \X type_constants(job) :
          /\ p[1].type = p[2].ident
          /\ r = [id |-> p[1].id, label |-> p[1].label, hash |-> p[2].hash]
    BY DEF SitesOf
  <2>2. PICK n \in 1 .. SiteTotal(job) : p[1] = site_table(job)[n]
    BY <1>3, <2>1 DEF Range
  <2>3. p[2] \in type_constants(job)
    BY <2>1
  <2>4. p[2].hash = hash_type(Declared(job)[n])
    BY <1>5, <2>1, <2>2, <2>3
  <2>5. r.id = p[1].id /\ r.label = p[1].label /\ r.hash = p[2].hash
    BY <2>1
  <2> QED BY <1>3, <2>2, <2>4, <2>5
<1> QED BY <1>6, <1>7

(* The macro of a helper stands for a site of the policy, and for its own  *)
(* when the names of the helpers keep apart.                               *)
LEMMA ReachedIsASite ==
  ASSUME NEW i, project[i] \in JobRecords, NEW n \in DOMAIN sites(project[i])
  PROVE  /\ Reached(i, n) \in DOMAIN sites(project[i])
         /\ MacrosAreDistinct(project[i]) => Reached(i, n) = n
<1> DEFINE job == project[i]
           name(m) == sites(job)[m].helper
           same == {m \in DOMAIN sites(job) : name(m) # <<>> /\ macro(name(m)) = macro(name(n))}
<1>1. CASE name(n) = <<>>
  BY <1>1 DEF Reached
<1>2. CASE name(n) # <<>>
  <2>1. SiteTotal(job) \in Nat /\ DOMAIN sites(job) = 1 .. SiteTotal(job)
    BY SitesOfJob
  <2>2. n \in same /\ same \in SUBSET (1 .. SiteTotal(job))
    BY <1>2, <2>1
  <2>3. Reached(i, n) = CHOOSE m \in same : \A k \in same : k <= m
    BY <1>2 DEF Reached, helper_macro
  <2>4. \E m \in same : \A k \in same : k <= m
    <3> HIDE DEF same, job
    <3> QED BY <2>1, <2>2, GreatestOf
  <2>5. Reached(i, n) \in same
    <3> HIDE DEF same
    <3> QED BY <2>3, <2>4
  <2>6. ASSUME MacrosAreDistinct(job), NEW m \in same PROVE m = n
    <3> DEFINE count == Len(PreciseAllocations(job))
    <3>1. /\ count \in Nat /\ Len(job.helpers) \in Nat
          /\ DOMAIN job.helpers = 1 .. Len(job.helpers)
          /\ SiteTotal(job) = count + Len(job.helpers)
      BY DeclaredOfJob
    <3>2. ASSUME NEW k \in 1 .. SiteTotal(job), name(k) # <<>>
          PROVE  k - count \in DOMAIN job.helpers /\ name(k) = job.helpers[k - count].name
      <4>1. ~(k <= count) /\ name(k) = job.helpers[k - count].name
        BY <3>2, SitesOfJob DEF SiteAt
      <4> HIDE DEF count, job
      <4> QED BY <3>1, <4>1
    <3>3. /\ m \in 1 .. SiteTotal(job) /\ name(m) # <<>> /\ macro(name(m)) = macro(name(n))
          /\ n \in 1 .. SiteTotal(job)
      BY <2>1
    <3>4. m - count = n - count
      <4>1. /\ m - count \in DOMAIN job.helpers /\ name(m) = job.helpers[m - count].name
            /\ n - count \in DOMAIN job.helpers /\ name(n) = job.helpers[n - count].name
        BY <1>2, <3>2, <3>3
      <4> HIDE DEF name, count, job
      <4> QED BY <2>6, <3>3, <4>1 DEF MacrosAreDistinct
    <3> HIDE DEF count, job
    <3> QED BY <3>1, <3>3, <3>4
  <2> QED BY <2>1, <2>2, <2>5, <2>6
<1> QED BY <1>1, <1>2

-----------------------------------------------------------------------------
(* Every object gets the type of its site. *)

(* Only accepted jobs are built; what runs has linked and compiled, and a  *)
(* runtime has the sites of the policy it was started for.                 *)
GeneratedInv ==
  /\ project \in Projects
  /\ generated \in 0 .. Len(project)
  /\ \A i \in 1 .. generated : accepts(project[i])
  /\ stage \in {"generating", "refused", "generated", "unbuilt", "built"}
  /\ stage = "generating" => generated < Len(project)
  /\ stage \in {"generated", "unbuilt", "built"} => generated = Len(project)
  /\ stage = "built" => Links /\ \A i \in Jobs : HeaderCompiles(project[i])
  /\ active \in {0} \cup Jobs
  /\ active # 0 => stage = "built"
  /\ registered = IF active = 0 THEN {} ELSE SitesOf(project[active])
  /\ SitesKeepTheirType

(* What is known of the projects. *)
LEMMA ProjectFacts ==
  ASSUME project \in Projects
  PROVE  /\ Len(project) \in Nat \ {0} /\ Jobs = 1 .. Len(project)
         /\ \A i \in Jobs : project[i] \in JobRecords
         /\ \A i, j \in Jobs : project[i].backend = project[j].backend
<1>1. project \in Seq(JobRecords) /\ project # <<>>
  BY ProjectsAssumption
<1>2. \A i, j \in Jobs : project[i].backend = project[j].backend
  BY ProjectsAssumption DEF Jobs
<1> QED BY <1>1, <1>2 DEF Jobs

(* What is built has the facts that the allocations need.                  *)
LEMMA BuiltFacts ==
  ASSUME GeneratedInv, stage = "built"
  PROVE  /\ \A i \in Jobs : /\ project[i] \in JobRecords /\ accepts(project[i])
                            /\ HeaderCompiles(project[i])
         /\ \A i, j \in Jobs : project[i].backend = project[j].backend
         /\ Links
<1>1. /\ Len(project) \in Nat \ {0} /\ Jobs = 1 .. Len(project)
      /\ \A i \in Jobs : project[i] \in JobRecords
      /\ \A i, j \in Jobs : project[i].backend = project[j].backend
  BY ProjectFacts DEF GeneratedInv
<1> QED BY <1>1 DEF GeneratedInv

(* Labels tell all linked sites apart. *)
LEMMA LabelsAreDistinct ==
  ASSUME Links,
         NEW i \in Jobs, NEW m \in DOMAIN sites(project[i]),
         NEW j \in Jobs, NEW n \in DOMAIN sites(project[j]),
         sites(project[i])[m].label = sites(project[j])[n].label
  PROVE  i = j /\ m = n
<1> DEFINE p == <<i, m>>
           q == <<j, n>>
<1>1. p \in Places /\ q \in Places
  BY DEF Places
<1>2. p[1] = i /\ p[2] = m /\ q[1] = j /\ q[2] = n
  OBVIOUS
<1> HIDE DEF p, q
<1>3. p = q
  BY <1>1, <1>2 DEF Links
<1> QED BY <1>2, <1>3

(* An import of wasm leads to one id, the site's own.                      *)
LEMMA ImportsLeadToTheirSite ==
  ASSUME Links,
         \A k \in Jobs : project[k] \in JobRecords /\ project[k].backend = "wasm",
         NEW i \in Jobs, NEW n \in DOMAIN sites(project[i]),
         NEW import \in UNION {generate_host_imports(project[j]) : j \in Jobs},
         import.label = sites(project[i])[n].label
  PROVE  import.id = project[i].base + n
<1>1. PICK j \in Jobs : import \in generate_host_imports(project[j])
  OBVIOUS
<1>2. PICK r \in Range(site_records(project[j])) : import = [label |-> r.label, id |-> r.id]
  BY <1>1 DEF generate_host_imports
<1>3. sites(project[j]) = site_records(project[j])
  BY DEF sites
<1>4. PICK m \in DOMAIN sites(project[j]) : r = sites(project[j])[m]
  BY <1>2, <1>3 DEF Range
<1>5. import.label = sites(project[j])[m].label /\ import.id = sites(project[j])[m].id
  BY <1>2, <1>4
<1>6. i = j /\ m = n
  <2>1. sites(project[i])[n].label = sites(project[j])[m].label
    BY <1>5
  <2> QED BY <2>1, LabelsAreDistinct
<1>7. /\ DOMAIN sites(project[i]) = 1 .. SiteTotal(project[i])
      /\ \A k \in 1 .. SiteTotal(project[i]) : SiteAt(project[i], k)
  BY SitesOfJob
<1>8. sites(project[i])[n].id = project[i].base + n
  BY <1>7 DEF SiteAt, SiteBase
<1> QED BY <1>5, <1>6, <1>8

(* And every site has its import. *)
LEMMA SitesHaveImports ==
  ASSUME \A k \in Jobs : project[k] \in JobRecords /\ project[k].backend = "wasm",
         NEW i \in Jobs, NEW n \in DOMAIN sites(project[i])
  PROVE  \E import \in UNION {generate_host_imports(project[j]) : j \in Jobs} :
           import.label = sites(project[i])[n].label /\ import.id = project[i].base + n
<1> DEFINE r == sites(project[i])[n]
           import == [label |-> r.label, id |-> r.id]
<1>1. sites(project[i]) = site_records(project[i])
  BY DEF sites
<1>2. r \in Range(site_records(project[i]))
  BY <1>1 DEF Range
<1>3. import \in generate_host_imports(project[i])
  BY <1>2 DEF generate_host_imports
<1>4. /\ DOMAIN sites(project[i]) = 1 .. SiteTotal(project[i])
      /\ \A k \in 1 .. SiteTotal(project[i]) : SiteAt(project[i], k)
  BY SitesOfJob
<1>5. r.id = project[i].base + n
  BY <1>4 DEF SiteAt, SiteBase
<1>6. import.label = r.label /\ import.id = r.id
  OBVIOUS
<1> HIDE DEF import
<1> QED BY <1>3, <1>5, <1>6

(* An own site is found, with the type declared for it.                    *)
LEMMA OwnSiteIsFound ==
  ASSUME GeneratedInv, stage = "built", NEW i \in Jobs, i = active,
         NEW n \in DOMAIN sites(project[i])
  PROVE  /\ Authorized(i, n) # {}
         /\ \A s \in Authorized(i, n) : s.hash = hash_type(Declared(project[i])[n])
<1> DEFINE job == project[i]
<1>1. /\ \A k \in Jobs : project[k] \in JobRecords
      /\ \A k \in Jobs : project[k].backend = job.backend
      /\ accepts(job) /\ HeaderCompiles(job) /\ Links
  BY BuiltFacts
<1>2. job.backend \in {"nacl", "wasm"} /\ SiteBase(job) \in Nat
  <2>1. job \in JobRecords
    BY <1>1
  <2> QED BY <1>1, <2>1, AcceptedJob DEF JobRecords
<1>3. /\ SiteTotal(job) \in Nat /\ DOMAIN sites(job) = 1 .. SiteTotal(job)
  BY <1>1, SitesOfJob
<1>4. i # 0 /\ registered = SitesOf(job)
  BY ProjectFacts DEF GeneratedInv
<1>5. PICK r \in registered :
        /\ r.id = SiteBase(job) + n /\ r.label = sites(job)[n].label
        /\ r.hash = hash_type(Declared(job)[n])
  BY <1>1, <1>3, <1>4, RegisteredOfJob
<1>6. ASSUME NEW s \in registered
      PROVE  \E m \in 1 .. SiteTotal(job) :
               /\ s.id = SiteBase(job) + m /\ s.label = sites(job)[m].label
               /\ s.hash = hash_type(Declared(job)[m])
  BY <1>1, <1>4, RegisteredOfJob
<1> HIDE DEF job
<1>7. CASE job.backend = "nacl"
  <2>1. Authorized(i, n) = {s \in registered : s.label = sites(job)[n].label}
    BY <1>7 DEF Authorized, job
  <2>2. ASSUME NEW s \in registered, s.label = sites(job)[n].label
        PROVE  s.hash = hash_type(Declared(job)[n])
    <3>1. PICK m \in 1 .. SiteTotal(job) :
            s.label = sites(job)[m].label /\ s.hash = hash_type(Declared(job)[m])
      BY <1>6
    <3>2. /\ m \in DOMAIN sites(project[i])
          /\ sites(project[i])[m].label = sites(project[i])[n].label
      BY <1>3, <2>2, <3>1 DEF job
    <3>3. m = n
      BY <1>1, <3>2, LabelsAreDistinct
    <3> QED BY <3>1, <3>3
  <2> QED BY <1>5, <2>1, <2>2 DEF job
<1>8. CASE job.backend = "wasm"
  <2> DEFINE imports == UNION {generate_host_imports(project[j]) : j \in Jobs}
  <2>1. Authorized(i, n) =
          {s \in registered : \E import \in imports :
             import.label = sites(job)[n].label /\ import.id = s.id}
    BY <1>8 DEF Authorized, job
  <2>2. \A k \in Jobs : project[k] \in JobRecords /\ project[k].backend = "wasm"
    BY <1>1, <1>8
  <2>3. SiteBase(job) = job.base
    BY <1>8 DEF SiteBase
  <2>4. \E import \in imports :
          import.label = sites(job)[n].label /\ import.id = job.base + n
    BY <2>2, SitesHaveImports DEF job
  <2>5. \A import \in imports :
          import.label = sites(job)[n].label => import.id = job.base + n
    BY <1>1, <2>2, ImportsLeadToTheirSite DEF job
  <2> HIDE DEF imports
  <2>6. r \in Authorized(i, n)
    BY <1>5, <2>1, <2>3, <2>4
  <2>7. ASSUME NEW s \in Authorized(i, n) PROVE s.hash = hash_type(Declared(job)[n])
    <3>1. s \in registered /\ s.id = job.base + n
      BY <2>1, <2>5
    <3>2. PICK m \in 1 .. SiteTotal(job) :
            s.id = job.base + m /\ s.hash = hash_type(Declared(job)[m])
      BY <1>6, <2>3, <3>1
    <3>3. m = n
      BY <1>2, <1>3, <2>3, <3>1, <3>2 DEF job
    <3> QED BY <3>2, <3>3
  <2> QED BY <2>6, <2>7 DEF job
<1> QED BY <1>2, <1>7, <1>8

(* A foreign one is not. *)
LEMMA ForeignSiteIsNotFound ==
  ASSUME GeneratedInv, stage = "built", NEW i \in Jobs, i # active,
         NEW n \in DOMAIN sites(project[i]),
         active # 0 /\ project[i].backend = "wasm" => BasesAreApart
  PROVE  Authorized(i, n) = {}
<1>1. CASE active = 0
  <2>1. registered = {}
    BY <1>1 DEF GeneratedInv
  <2> QED BY <2>1 DEF Authorized
<1>2. CASE active # 0
  <2> DEFINE job == project[active]
  <2>1. active \in Jobs /\ registered = SitesOf(job)
    BY <1>2 DEF GeneratedInv
  <2>2. /\ \A k \in Jobs : project[k] \in JobRecords
        /\ \A k \in Jobs : project[k].backend = project[i].backend
        /\ accepts(job) /\ HeaderCompiles(job) /\ Links
        /\ accepts(project[i])
    BY <2>1, BuiltFacts
  <2>3. /\ SiteTotal(job) \in Nat /\ DOMAIN sites(job) = 1 .. SiteTotal(job)
        /\ SiteTotal(project[i]) \in Nat
        /\ DOMAIN sites(project[i]) = 1 .. SiteTotal(project[i])
    BY <2>1, <2>2, SitesOfJob
  <2>4. ASSUME NEW s \in registered
        PROVE  \E m \in 1 .. SiteTotal(job) :
                 s.id = SiteBase(job) + m /\ s.label = sites(job)[m].label
    BY <2>1, <2>2, RegisteredOfJob
  <2>5. project[i].backend \in {"nacl", "wasm"}
    <3>1. project[i] \in JobRecords
      BY <2>2
    <3> QED BY <3>1 DEF JobRecords
  <2>6. CASE project[i].backend = "nacl"
    <3>1. Authorized(i, n) = {s \in registered : s.label = sites(project[i])[n].label}
      BY <2>6 DEF Authorized
    <3>2. ASSUME NEW s \in registered PROVE s.label # sites(project[i])[n].label
      <4>1. PICK m \in 1 .. SiteTotal(job) : s.label = sites(job)[m].label
        BY <2>4
      <4>2. active \in Jobs /\ m \in DOMAIN sites(project[active])
        BY <2>1, <2>3
      <4>3. ASSUME sites(project[active])[m].label = sites(project[i])[n].label
            PROVE  FALSE
        <5>1. Links
          BY <2>2
        <5>2. active = i
          BY <4>2, <4>3, <5>1, LabelsAreDistinct
        <5> QED BY <5>2
      <4> QED BY <4>1, <4>3
    <3> QED BY <3>1, <3>2
  <2>7. CASE project[i].backend = "wasm"
    <3> DEFINE imports == UNION {generate_host_imports(project[j]) : j \in Jobs}
    <3>1. Authorized(i, n) =
            {s \in registered : \E import \in imports :
               import.label = sites(project[i])[n].label /\ import.id = s.id}
      BY <2>7 DEF Authorized
    <3>2. \A k \in Jobs : project[k] \in JobRecords /\ project[k].backend = "wasm"
      BY <2>2, <2>7
    <3>3. \A import \in imports :
            import.label = sites(project[i])[n].label => import.id = project[i].base + n
      BY <2>2, <3>2, ImportsLeadToTheirSite
    <3>4. SiteBase(job) = job.base /\ SiteBase(project[i]) = project[i].base
      BY <2>1, <3>2 DEF SiteBase
    <3>5. job.base \in Nat /\ project[i].base \in Nat
      BY <2>1, <2>2, <3>4, AcceptedJob
    <3>6. ((job.base + 1) .. (job.base + SiteTotal(job)))
            \cap ((project[i].base + 1) .. (project[i].base + SiteTotal(project[i]))) = {}
      BY <1>2, <2>1, <2>7 DEF BasesAreApart
    <3> HIDE DEF imports
    <3>7. ASSUME NEW s \in Authorized(i, n) PROVE FALSE
      <4>1. s \in registered /\ s.id = project[i].base + n
        BY <3>1, <3>3
      <4>2. PICK m \in 1 .. SiteTotal(job) : s.id = job.base + m
        BY <2>4, <3>4, <4>1
      <4>3. n \in 1 .. SiteTotal(project[i])
        BY <2>3
      <4> HIDE DEF job
      <4>4. s.id \in ((job.base + 1) .. (job.base + SiteTotal(job)))
        BY <2>3, <3>5, <4>2
      <4>5. s.id \in ((project[i].base + 1) .. (project[i].base + SiteTotal(project[i])))
        BY <2>3, <3>5, <4>1, <4>3
      <4> QED BY <3>6, <4>4, <4>5
    <3> QED BY <3>7
  <2> QED BY <2>5, <2>6, <2>7
<1> QED BY <1>1, <1>2

(* At the start nothing is generated, built or registered. *)
LEMMA GeneratedInitInv ==
  ASSUME GeneratedInit
  PROVE  GeneratedInv
BY ProjectFacts DEF GeneratedInit, GeneratedInv, SitesKeepTheirType,
                    OwnSitesGetTheirType, ForeignSitesFailClosed, BuiltPoliciesRegister

(* What the answers say stays as it is while the project and they do.      *)
LEMMA AnswersStay ==
  ASSUME SitesKeepTheirType, UNCHANGED <<project, answer>>, stage' # "thrown"
  PROVE  SitesKeepTheirType'
<1>1. OwnSitesGetTheirType'
  BY DEF SitesKeepTheirType, OwnSitesGetTheirType
<1>2. ForeignSitesFailClosed'
  BY DEF SitesKeepTheirType, ForeignSitesFailClosed, BasesAreApart, Jobs
<1> QED BY <1>1, <1>2 DEF SitesKeepTheirType, BuiltPoliciesRegister

(* While the project stays, so do its sites and whether it links.          *)
LEMMA BuildStays ==
  ASSUME UNCHANGED project
  PROVE  Links' = Links /\ Jobs' = Jobs /\ Places' = Places
BY DEF Links, Jobs, Places

(* Every step of generating, building, starting and allocating keeps the   *)
(* invariant: what is generated was accepted, what is built links, and the *)
(* registered sites are those of the active policy.                        *)
THEOREM GeneratedNextInv ==
  ASSUME GeneratedInv, [GeneratedNext]_generatedVars
  PROVE  GeneratedInv'
<1>0. /\ Len(project) \in Nat \ {0} /\ Jobs = 1 .. Len(project)
      /\ \A i \in Jobs : project[i] \in JobRecords
  BY ProjectFacts DEF GeneratedInv
<1>1. CASE Generate
  <2>1. /\ UNCHANGED <<project, active, registered, answer>> /\ stage = "generating"
        /\ stage' \in {"generating", "refused", "generated"}
    BY <1>1 DEF Generate
  <2>2. SitesKeepTheirType'
    BY <2>1, AnswersStay DEF GeneratedInv
  <2>3. active = 0
    BY <2>1 DEF GeneratedInv
  <2>4. /\ generated' \in 0 .. Len(project)
        /\ \A i \in 1 .. generated' : accepts(project[i])
        /\ stage' = "generating" => generated' < Len(project)
        /\ stage' = "generated" => generated' = Len(project)
    <3>1. CASE accepts(project[generated + 1])
      <4>1. generated' = generated + 1 /\ generated + 1 \in 1 .. Len(project)
        BY <1>0, <1>1, <2>1, <3>1 DEF Generate, GeneratedInv
      <4>2. \A i \in 1 .. (generated + 1) : accepts(project[i])
        <5>1. \A i \in 1 .. (generated + 1) : i \in 1 .. generated \/ i = generated + 1
          BY <4>1 DEF GeneratedInv
        <5> QED BY <3>1, <5>1 DEF GeneratedInv
      <4>3. stage' = IF generated' = Len(project) THEN "generated" ELSE "generating"
        BY <1>1, <2>1, <3>1 DEF Generate
      <4> QED BY <1>0, <4>1, <4>2, <4>3
    <3>2. CASE ~accepts(project[generated + 1])
      <4>1. generated' = generated /\ stage' = "refused"
        BY <1>1, <3>2 DEF Generate
      <4> QED BY <4>1 DEF GeneratedInv
    <3> QED BY <3>1, <3>2
  <2> QED BY <2>1, <2>2, <2>3, <2>4 DEF GeneratedInv, Jobs
<1>2. CASE Build
  <2>1. /\ UNCHANGED <<project, generated, active, registered, answer>> /\ stage = "generated"
        /\ stage' \in {"built", "unbuilt"}
        /\ stage' = "built" => Links /\ \A i \in Jobs : HeaderCompiles(project[i])
    BY <1>2 DEF Build
  <2>2. SitesKeepTheirType'
    BY <2>1, AnswersStay DEF GeneratedInv
  <2>3. active = 0
    BY <2>1 DEF GeneratedInv
  <2>4. Links' = Links /\ Jobs' = Jobs
    BY <2>1, BuildStays
  <2> QED BY <2>1, <2>2, <2>3, <2>4 DEF GeneratedInv
<1>3. ASSUME NEW p \in Jobs, Start(p) PROVE GeneratedInv'
  <2>1. stage = "built" /\ UNCHANGED <<project, generated, answer>>
    BY <1>3 DEF Start
  <2>2. TypesRegister(project[p]) /\ SitesRegister(project[p])
    BY <1>0, <2>1, BuiltFacts, TypesOfAcceptedRegister, SitesOfAcceptedRegister
  <2>3. active' = p /\ registered' = SitesOf(project[p]) /\ UNCHANGED stage
    BY <1>3, <2>2 DEF Start
  <2>4. SitesKeepTheirType'
    BY <2>1, <2>3, AnswersStay DEF GeneratedInv
  <2>5. Links' = Links /\ Jobs' = Jobs /\ p # 0
    BY <1>0, <2>1, BuildStays
  <2> QED BY <2>1, <2>3, <2>4, <2>5 DEF GeneratedInv
<1>4. ASSUME NEW p \in Places, Allocate(p[1], p[2]) PROVE GeneratedInv'
  <2>0. PICK i \in Jobs : p \in {i} \X DOMAIN sites(project[i])
    BY DEF Places
  <2>1. PICK n \in DOMAIN sites(project[i]) : p = <<i, n>>
    BY <2>0
  <2>2. Allocate(i, n)
    BY <1>4, <2>1
  <2> DEFINE m == Reached(i, n)
             found == Authorized(i, m)
  <2>3. stage = "built" /\ UNCHANGED <<project, generated, stage, active, registered>>
    BY <2>2 DEF Allocate
  <2>4. PICK hash \in {s.hash : s \in found} \cup {None} :
          /\ hash = None <=> found = {}
          /\ answer' = {[active |-> active, place |-> <<i, n>>, hash |-> hash]}
    BY <2>2 DEF Allocate
  <2>5. project[i] \in JobRecords
    BY <1>0
  <2>6. m \in DOMAIN sites(project[i]) /\ (MacrosAreDistinct(project[i]) => m = n)
    BY <2>5, ReachedIsASite
  <2> HIDE DEF m
  <2>7. ASSUME i = active, MacrosAreDistinct(project[i])
        PROVE  hash = hash_type(Declared(project[i])[n])
    <3>1. m = n
      BY <2>6, <2>7
    <3>2. found # {} /\ \A s \in found : s.hash = hash_type(Declared(project[i])[n])
      BY <2>3, <2>7, <3>1, OwnSiteIsFound
    <3> HIDE DEF found
    <3> QED BY <2>4, <3>2
  <2>8. ASSUME i # active, active # 0 /\ project[i].backend = "wasm" => BasesAreApart
        PROVE  hash = None
    <3>1. found = {}
      BY <2>3, <2>6, <2>8, ForeignSiteIsNotFound
    <3> QED BY <2>4, <3>1
  <2>9. ASSUME NEW a \in answer'
        PROVE  a.active = active /\ a.place[1] = i /\ a.place[2] = n /\ a.hash = hash
    BY <2>4, <2>9
  <2>10. OwnSitesGetTheirType'
    BY <2>3, <2>7, <2>9 DEF OwnSitesGetTheirType
  <2>11. ForeignSitesFailClosed'
    <3>1. BasesAreApart' = BasesAreApart
      BY <2>3 DEF BasesAreApart, Jobs
    <3> QED BY <2>3, <2>8, <2>9, <3>1 DEF ForeignSitesFailClosed
  <2>12. Links' = Links /\ Jobs' = Jobs
    BY <2>3, BuildStays
  <2> QED BY <2>3, <2>10, <2>11, <2>12
          DEF GeneratedInv, SitesKeepTheirType, BuiltPoliciesRegister
<1>5. CASE UNCHANGED generatedVars
  <2>1. UNCHANGED <<project, generated, stage, active, registered, answer>>
    BY <1>5 DEF generatedVars
  <2>2. Links' = Links /\ Jobs' = Jobs
    BY <2>1, BuildStays
  <2>3. SitesKeepTheirType'
    BY <2>1, AnswersStay DEF GeneratedInv
  <2> QED BY <2>1, <2>2, <2>3 DEF GeneratedInv
<1> QED BY <1>1, <1>2, <1>3, <1>4, <1>5 DEF GeneratedNext

(* Whatever policies are linked into one module, an object gets the type   *)
(* that the policy file names for the site it was allocated at; a site of  *)
(* another policy gets nothing; and the generated registration never fails *)
(* at start-up (generate_policy.py, generate_wasm_boundary_policy.py       *)
(* against register_type and register_allocation_site of the runtime).     *)
THEOREM GeneratedSitesKeepTheirType == GeneratedSpec => []SitesKeepTheirType
<1>1. GeneratedInit => GeneratedInv
  BY GeneratedInitInv
<1>2. GeneratedInv /\ [GeneratedNext]_generatedVars => GeneratedInv'
  BY GeneratedNextInv
<1>3. GeneratedInv => SitesKeepTheirType
  BY DEF GeneratedInv
<1> QED BY <1>1, <1>2, <1>3, PTL DEF GeneratedSpec

-----------------------------------------------------------------------------
(* The two generators. *)

(* A job given to the other generator has the same parts.                  *)
LEMMA OtherBackend ==
  ASSUME NEW job \in JobRecords, NEW backend \in {"nacl", "wasm"}
  PROVE  LET other == [job EXCEPT !.backend = backend] IN
         /\ other \in JobRecords /\ other.backend = backend
         /\ other.types = job.types /\ other.extra_types = job.extra_types
         /\ other.allocations = job.allocations /\ other.helpers = job.helpers
         /\ other.uses = job.uses /\ other.base = job.base
         /\ other.namespace = job.namespace
         /\ composed_types(other) = composed_types(job)
         /\ PreciseAllocations(other) = PreciseAllocations(job)
         /\ SiteTotal(other) = SiteTotal(job) /\ Declared(other) = Declared(job)
<1> DEFINE other == [job EXCEPT !.backend = backend]
<1>1. /\ other \in JobRecords /\ other.backend = backend
      /\ other.types = job.types /\ other.extra_types = job.extra_types
      /\ other.allocations = job.allocations /\ other.helpers = job.helpers
      /\ other.uses = job.uses /\ other.base = job.base
      /\ other.namespace = job.namespace
  BY DEF JobRecords
<1> HIDE DEF other
<1>2. composed_types(other) = composed_types(job)
  BY <1>1 DEF composed_types
<1>3. PreciseAllocations(other) = PreciseAllocations(job)
  BY <1>1 DEF PreciseAllocations
<1>4. SiteTotal(other) = SiteTotal(job) /\ Declared(other) = Declared(job)
  BY <1>1, <1>3 DEF SiteTotal, Declared
<1> QED BY <1>1, <1>2, <1>3, <1>4 DEF other

(* A policy that the NaCl generator accepts, with a site for every         *)
(* allocation and numbers that fit, is accepted by the wasm2c generator,   *)
(* with the same types, uses and sites.                                    *)
LEMMA GeneratorsAgreeOnJob ==
  ASSUME NEW job \in JobRecords
  PROVE  LET nacl == [job EXCEPT !.backend = "nacl"]
             wasm == [job EXCEPT !.backend = "wasm"]
         IN  /\ nacl_accepts(nacl)
             /\ \A a \in Range(nacl.allocations) : a.precise
             /\ wasm.base \in 0 .. (MaxSiteId - SiteTotal(wasm))
             /\ cpp(wasm.namespace) # <<>>
             => /\ wasm_accepts(wasm)
                /\ type_constants(nacl) = type_constants(wasm)
                /\ use_constants(nacl) = use_constants(wasm)
                /\ DOMAIN nacl_sites(nacl) = DOMAIN site_records(wasm)
                /\ \A n \in DOMAIN site_table(nacl) :
                     /\ site_table(nacl)[n].type = site_table(wasm)[n].type
                     /\ site_table(nacl)[n].id + wasm.base = site_table(wasm)[n].id
<1> DEFINE nacl == [job EXCEPT !.backend = "nacl"]
           wasm == [job EXCEPT !.backend = "wasm"]
<1>1. /\ nacl \in JobRecords /\ nacl.backend = "nacl"
      /\ wasm \in JobRecords /\ wasm.backend = "wasm"
      /\ nacl.extra_types = wasm.extra_types
      /\ nacl.allocations = wasm.allocations /\ nacl.helpers = wasm.helpers
      /\ nacl.uses = wasm.uses
      /\ composed_types(nacl) = composed_types(wasm)
      /\ SiteTotal(nacl) = SiteTotal(wasm) /\ Declared(nacl) = Declared(wasm)
  BY OtherBackend
<1> HIDE DEF nacl, wasm
<1> SUFFICES
      ASSUME nacl_accepts(nacl),
             \A a \in Range(nacl.allocations) : a.precise,
             wasm.base \in 0 .. (MaxSiteId - SiteTotal(wasm)),
             cpp(wasm.namespace) # <<>>
      PROVE  /\ wasm_accepts(wasm)
             /\ type_constants(nacl) = type_constants(wasm)
             /\ use_constants(nacl) = use_constants(wasm)
             /\ DOMAIN nacl_sites(nacl) = DOMAIN site_records(wasm)
             /\ \A n \in DOMAIN site_table(nacl) :
                  /\ site_table(nacl)[n].type = site_table(wasm)[n].type
                  /\ site_table(nacl)[n].id + wasm.base = site_table(wasm)[n].id
  BY DEF nacl, wasm
<1>2. \A u \in Range(nacl.uses) : nacl_bytes(u) = wasm_bytes(u)
  <2>1. \A u \in Range(nacl.uses) : nacl_bytes(u) # {}
    BY DEF nacl_accepts
  <2> QED BY <2>1 DEF nacl_bytes, wasm_bytes
<1>3. wasm_accepts(wasm)
  <2>1. SiteTotal(wasm) \in Nat /\ MaxSiteId \in Nat
    BY <1>1, SitesOfJob, GeneratorAssumption
  <2>2. wasm.base \in Int /\ wasm.base \in 0 .. MaxSiteId
    BY <2>1
  <2>3. \A local \in 1 .. SiteTotal(wasm) : SiteIdFits(wasm.base, local)
    BY <2>1, <2>2 DEF SiteIdFits, runtime_site_id
  <2>4. TypesAreKnown(wasm) /\ BoundaryTypesAreNames(wasm) /\ HelpersAreDistinct(wasm)
        /\ NoHashCollision(composed_types(wasm))
    BY <1>1 DEF nacl_accepts, TypesAreKnown, BoundaryTypesAreNames, HelpersAreDistinct
  <2>5. \A u \in Range(wasm.uses) : u.offset >= 0 /\ \A size \in wasm_bytes(u) : size >= 0
    BY <1>1, <1>2 DEF nacl_accepts
  <2> QED BY <1>1, <2>2, <2>3, <2>4, <2>5 DEF wasm_accepts
<1>4. type_constants(nacl) = type_constants(wasm)
  BY <1>1 DEF type_constants
<1>5. use_constants(nacl) = use_constants(wasm)
  <2> DEFINE constant(u, b) ==
               [ident |-> cpp(u.name), name |-> u.name, type |-> cpp(u.type),
                offset |-> u.offset, bytes |-> b]
  <2>1. use_constants(nacl) = {constant(u, nacl_bytes(u)) : u \in Range(nacl.uses)}
    BY <1>1 DEF use_constants
  <2>2. use_constants(wasm) = {constant(u, wasm_bytes(u)) : u \in Range(nacl.uses)}
    BY <1>1 DEF use_constants
  <2>3. \A u \in Range(nacl.uses) : constant(u, nacl_bytes(u)) = constant(u, wasm_bytes(u))
    BY <1>2
  <2> HIDE DEF constant
  <2> QED BY <2>1, <2>2, <2>3
<1>6. /\ DOMAIN sites(nacl) = 1 .. SiteTotal(wasm) /\ DOMAIN sites(wasm) = 1 .. SiteTotal(wasm)
      /\ \A n \in 1 .. SiteTotal(wasm) :
           /\ sites(nacl)[n].id = n /\ sites(nacl)[n].type = Declared(wasm)[n]
           /\ sites(wasm)[n].id = wasm.base + n /\ sites(wasm)[n].type = Declared(wasm)[n]
  <2>1. SiteBase(nacl) = 0 /\ SiteBase(wasm) = wasm.base
    BY <1>1 DEF SiteBase
  <2>2. /\ DOMAIN sites(nacl) = 1 .. SiteTotal(wasm)
        /\ \A n \in 1 .. SiteTotal(wasm) : SiteAt(nacl, n)
    BY <1>1, SitesOfJob
  <2>3. /\ DOMAIN sites(wasm) = 1 .. SiteTotal(wasm)
        /\ \A n \in 1 .. SiteTotal(wasm) : SiteAt(wasm, n)
    BY <1>1, SitesOfJob
  <2>4. \A n \in 1 .. SiteTotal(wasm) : 0 + n = n
    OBVIOUS
  <2> QED BY <1>1, <2>1, <2>2, <2>3, <2>4 DEF SiteAt
<1>7. DOMAIN nacl_sites(nacl) = DOMAIN site_records(wasm)
  BY <1>1, <1>6 DEF sites
<1>8. ASSUME NEW n \in DOMAIN site_table(nacl)
      PROVE  /\ site_table(nacl)[n].type = site_table(wasm)[n].type
             /\ site_table(nacl)[n].id + wasm.base = site_table(wasm)[n].id
  <2>1. n \in 1 .. SiteTotal(wasm)
    BY <1>6 DEF site_table
  <2>2. /\ site_table(nacl)[n].id = n /\ site_table(nacl)[n].type = cpp(Declared(wasm)[n])
        /\ site_table(wasm)[n].id = wasm.base + n
        /\ site_table(wasm)[n].type = cpp(Declared(wasm)[n])
    BY <1>6, <2>1 DEF site_table
  <2>3. wasm.base \in Int
    BY <1>1 DEF JobRecords
  <2> QED BY <2>1, <2>2, <2>3
<1> QED BY <1>3, <1>4, <1>5, <1>7, <1>8

(* The two generators agree on every policy that is generated              *)
(* (generate_policy.py against generate_wasm_boundary_policy.py).          *)
THEOREM GeneratorsAlwaysAgree == GeneratedSpec => []GeneratorsAgree
<1>1. GeneratedInv => GeneratorsAgree
  <2> SUFFICES ASSUME GeneratedInv, NEW i \in 1 .. generated
               PROVE  LET nacl == [project[i] EXCEPT !.backend = "nacl"]
                          wasm == [project[i] EXCEPT !.backend = "wasm"]
                      IN  /\ nacl_accepts(nacl)
                          /\ \A a \in Range(nacl.allocations) : a.precise
                          /\ wasm.base \in 0 .. (MaxSiteId - SiteTotal(wasm))
                          /\ cpp(wasm.namespace) # <<>>
                          => /\ wasm_accepts(wasm)
                             /\ type_constants(nacl) = type_constants(wasm)
                             /\ use_constants(nacl) = use_constants(wasm)
                             /\ DOMAIN nacl_sites(nacl) = DOMAIN site_records(wasm)
                             /\ \A n \in DOMAIN site_table(nacl) :
                                  /\ site_table(nacl)[n].type = site_table(wasm)[n].type
                                  /\ site_table(nacl)[n].id + wasm.base = site_table(wasm)[n].id
    BY DEF GeneratorsAgree
  <2>1. project[i] \in JobRecords
    <3>1. Len(project) \in Nat /\ generated \in 0 .. Len(project) /\ Jobs = 1 .. Len(project)
      BY ProjectFacts DEF GeneratedInv
    <3> QED BY <3>1, ProjectFacts DEF GeneratedInv
  <2> QED BY <2>1, GeneratorsAgreeOnJob
<1>2. GeneratedInit => GeneratedInv
  BY GeneratedInitInv
<1>3. GeneratedInv /\ [GeneratedNext]_generatedVars => GeneratedInv'
  BY GeneratedNextInv
<1> QED BY <1>1, <1>2, <1>3, PTL DEF GeneratedSpec

-----------------------------------------------------------------------------
(* CodeqlPolicy. *)

-----------------------------------------------------------------------------
(* Orders of rows. *)

(* An order lists every row of a set, each at one place.                   *)
LEMMA OrderLists ==
  ASSUME NEW S, IsFiniteSet(S), NEW order \in Orders(S)
  PROVE  /\ Cardinality(S) \in Nat
         /\ order \in [1 .. Cardinality(S) -> S]
         /\ \A m, n \in 1 .. Cardinality(S) : order[m] = order[n] => m = n
         /\ \A row \in S : \E n \in 1 .. Cardinality(S) : order[n] = row
<1>1. Cardinality(S) \in Nat
  BY FS_CardinalityType
<1>2. order \in Bijection(1 .. Cardinality(S), S)
  BY DEF Orders
<1> QED BY <1>1, <1>2 DEF Bijection, Injection, Surjection, IsInjective

(* One more row at the end of an order gives an order of one more row.     *)
LEMMA OrderGrows ==
  ASSUME NEW S, IsFiniteSet(S), NEW row, row \notin S, NEW order \in Orders(S),
         NEW more, more = [n \in 1 .. (Cardinality(S) + 1) |->
                             IF n = Cardinality(S) + 1 THEN row ELSE order[n]]
  PROVE  /\ IsFiniteSet(S \cup {row}) /\ Cardinality(S \cup {row}) = Cardinality(S) + 1
         /\ more \in Orders(S \cup {row})
<1> DEFINE N == Cardinality(S)
           T == S \cup {row}
<1>1. IsFiniteSet(T) /\ Cardinality(T) = N + 1
  BY FS_AddElement
<1>2. /\ N \in Nat /\ order \in [1 .. N -> S]
      /\ \A m, n \in 1 .. N : order[m] = order[n] => m = n
      /\ \A r \in S : \E n \in 1 .. N : order[n] = r
  BY OrderLists
<1> HIDE DEF N
<1>3. more = [n \in 1 .. (N + 1) |-> IF n = N + 1 THEN row ELSE order[n]]
  BY DEF N
<1>4. \A n \in 1 .. (N + 1) : n # N + 1 => n \in 1 .. N
  BY <1>2
<1>5. \A n \in 1 .. N : n \in 1 .. (N + 1) /\ n # N + 1
  BY <1>2
<1>6. N + 1 \in 1 .. (N + 1)
  BY <1>2
<1>7. more \in [1 .. (N + 1) -> T]
  BY <1>2, <1>3, <1>4
<1>8. \A m, n \in 1 .. (N + 1) : more[m] = more[n] => m = n
  <2>1. more[N + 1] = row
    BY <1>3, <1>6
  <2>2. ASSUME NEW n \in 1 .. (N + 1), n # N + 1
        PROVE  n \in 1 .. N /\ more[n] = order[n] /\ more[n] \in S
    <3>1. n \in 1 .. N
      BY <1>4, <2>2
    <3>2. more[n] = order[n]
      BY <1>3, <2>2
    <3> QED BY <1>2, <3>1, <3>2
  <2>3. ASSUME NEW m \in 1 .. (N + 1), NEW n \in 1 .. (N + 1), more[m] = more[n] PROVE m = n
    <3>1. CASE m # N + 1 /\ n # N + 1
      <4>1. /\ m \in 1 .. N /\ more[m] = order[m]
            /\ n \in 1 .. N /\ more[n] = order[n]
        BY <2>2, <3>1
      <4> QED BY <1>2, <2>3, <4>1
    <3>2. CASE m = N + 1 \/ n = N + 1
      BY <2>1, <2>2, <2>3, <3>2
    <3> QED BY <3>1, <3>2
  <2> QED BY <2>3
<1>9. \A r \in T : \E n \in 1 .. (N + 1) : more[n] = r
  <2>1. more[N + 1] = row
    BY <1>3, <1>6
  <2>2. ASSUME NEW r \in S PROVE \E n \in 1 .. (N + 1) : more[n] = r
    BY <1>2, <1>3, <1>5
  <2> QED BY <1>6, <2>1, <2>2
<1> HIDE DEF T
<1>10. more \in Injection(1 .. (N + 1), T) /\ more \in Surjection(1 .. (N + 1), T)
  BY <1>7, <1>8, <1>9, Fun_IsInj, Fun_IsSurj
<1>11. more \in Bijection(1 .. (N + 1), T)
  BY <1>10 DEF Bijection
<1> QED BY <1>1, <1>11 DEF Orders, N, T

(* What a function gives for each row. *)
Mapped(f, order) == [n \in DOMAIN order |-> f[order[n]]]

(* A set of rows with a key of L numbers each, which tells the entry.      *)
Tells(key, entry, S, L) ==
  /\ key \in [S -> [1 .. L -> Int]]
  /\ \A r, s \in S : key[r] = key[s] => entry[r] = entry[s]

(* Entries and keys of rows that come in two orders are sorted alike.      *)
LEMMA OrdersSortAlike ==
  ASSUME NEW S, IsFiniteSet(S), NEW one \in Orders(S), NEW two \in Orders(S),
         NEW L \in Nat, NEW entry, NEW key, Tells(key, entry, S, L)
  PROVE  Sorted(Mapped(entry, one), Mapped(key, one))
         = Sorted(Mapped(entry, two), Mapped(key, two))
<1> DEFINE N == Cardinality(S)
<1>0. /\ key \in [S -> [1 .. L -> Int]]
      /\ \A r, s \in S : key[r] = key[s] => entry[r] = entry[s]
  BY DEF Tells
<1>1. /\ N \in Nat /\ one \in [1 .. N -> S]
      /\ \A m, n \in 1 .. N : one[m] = one[n] => m = n
      /\ \A r \in S : \E n \in 1 .. N : one[n] = r
  BY OrderLists
<1>2. /\ two \in [1 .. N -> S]
      /\ \A m, n \in 1 .. N : two[m] = two[n] => m = n
      /\ \A r \in S : \E n \in 1 .. N : two[n] = r
  BY OrderLists
<1> HIDE DEF N
<1> DEFINE moved == [n \in 1 .. N |-> CHOOSE m \in 1 .. N : two[m] = one[n]]
           e1 == Mapped(entry, one)
           k1 == Mapped(key, one)
           e2 == Mapped(entry, two)
           k2 == Mapped(key, two)
<1>3. \A n \in 1 .. N : moved[n] \in 1 .. N /\ two[moved[n]] = one[n]
  <2>1. ASSUME NEW n \in 1 .. N PROVE \E m \in 1 .. N : two[m] = one[n]
    BY <1>1, <1>2
  <2> QED BY <2>1
<1>4. moved \in [1 .. N -> 1 .. N]
  BY <1>3
<1> HIDE DEF moved
<1>5. \A m, n \in 1 .. N : moved[m] = moved[n] => m = n
  BY <1>1, <1>3
<1>6. \A m \in 1 .. N : \E n \in 1 .. N : moved[n] = m
  <2>1. ASSUME NEW m \in 1 .. N PROVE \E n \in 1 .. N : moved[n] = m
    <3>1. PICK n \in 1 .. N : one[n] = two[m]
      BY <1>1, <1>2
    <3>2. moved[n] \in 1 .. N /\ two[moved[n]] = two[m]
      BY <1>3, <3>1
    <3>3. moved[n] = m
      BY <1>2, <3>2
    <3> QED BY <3>3
  <2> QED BY <2>1
<1>7. moved \in Bijection(1 .. N, 1 .. N)
  BY <1>4, <1>5, <1>6 DEF Bijection, Injection, Surjection, IsInjective
<1>8. DOMAIN e1 = 1 .. N /\ DOMAIN e2 = 1 .. N
  BY <1>1, <1>2 DEF Mapped
<1>9. /\ k1 \in [1 .. N -> [1 .. L -> Int]] /\ k2 \in [1 .. N -> [1 .. L -> Int]]
  BY <1>0, <1>1, <1>2 DEF Mapped
<1>10. \A n \in 1 .. N : k2[moved[n]] = k1[n] /\ e2[moved[n]] = e1[n]
  BY <1>1, <1>2, <1>3 DEF Mapped
<1>11. \A m, n \in 1 .. N : k2[m] = k2[n] => e2[m] = e2[n]
  BY <1>0, <1>1, <1>2 DEF Mapped
<1> HIDE DEF e1, e2, k1, k2
<1>12. /\ Moves(moved, e1, k1, e2, k2, N) /\ KeysTell(e2, k2, N)
       /\ Keyed(e1, k1, N, L) /\ Keyed(e2, k2, N, L) /\ N \in Nat
  BY <1>1, <1>7, <1>8, <1>9, <1>10, <1>11 DEF Moves, KeysTell, Keyed
<1>13. Sorted(e1, k1) = Sorted(e2, k2)
  BY <1>12, SortForgetsOrder
<1> QED BY <1>13 DEF e1, e2, k1, k2

(* The list of type names has each of them once. *)
LEMMA NamesAreListed ==
  ASSUME NEW names \in SUBSET DOMAIN Rank, IsFiniteSet(names)
  PROVE  /\ SortedNames(names) \in Seq(names)
         /\ Range(SortedNames(names)) = names
         /\ IsInjective(SortedNames(names))
<1> DEFINE N == Cardinality(names)
           R == {p \in names \X names : Rank[p[1]] < Rank[p[2]]}
           list == SortedNames(names)
<1>1. /\ \A s \in names : Rank[s] \in Int
      /\ \A s, t \in names : Rank[s] = Rank[t] => s = t
  BY CodeqlAssumption DEF IsInjective
<1>2. \A s, t \in names : <<s, t>> \in R <=> Rank[s] < Rank[t]
  OBVIOUS
<1> HIDE DEF R
<1>3. StrictOrder(R, names)
  BY <1>1, <1>2 DEF StrictOrder
<1>4. Ranked(R, names)
  BY <1>3, RankFinds
<1>5. \A t \in names : UpTo(R, names, t) = {s \in names : Rank[s] <= Rank[t]}
  BY <1>1, <1>2 DEF UpTo
<1>6. /\ N \in Nat
      /\ \A t \in names : Cardinality({s \in names : Rank[s] <= Rank[t]}) \in 1 .. N
      /\ \A k \in 1 .. N :
           \E t \in names : Cardinality({s \in names : Rank[s] <= Rank[t]}) = k
  BY <1>4, <1>5 DEF Ranked
<1>7. \A s, t \in names :
        Cardinality({r \in names : Rank[r] <= Rank[s]})
          = Cardinality({r \in names : Rank[r] <= Rank[t]}) => s = t
  BY <1>4, <1>5 DEF Ranked
<1> HIDE DEF N
<1>8. list = [p \in 1 .. N |->
                CHOOSE t \in names : Cardinality({s \in names : Rank[s] <= Rank[t]}) = p]
  BY DEF SortedNames, N
<1> HIDE DEF list
<1>9. \A p \in 1 .. N :
        list[p] \in names /\ Cardinality({s \in names : Rank[s] <= Rank[list[p]]}) = p
  BY <1>6, <1>8
<1>10. list \in [1 .. N -> names]
  BY <1>8, <1>9
<1>11. list \in Seq(names)
  BY <1>6, <1>10
<1>12. \A p, q \in 1 .. N : list[p] = list[q] => p = q
  BY <1>9
<1>13. ASSUME NEW t \in names PROVE \E p \in 1 .. N : list[p] = t
  <2> DEFINE p == Cardinality({s \in names : Rank[s] <= Rank[t]})
  <2>1. p \in 1 .. N
    BY <1>6
  <2>2. list[p] = t
    BY <1>7, <1>9, <2>1
  <2> QED BY <2>1, <2>2
<1>14. Range(list) = names
  BY <1>10, <1>13 DEF Range
<1>15. IsInjective(list)
  BY <1>10, <1>12 DEF IsInjective
<1> QED BY <1>11, <1>14, <1>15 DEF list

-----------------------------------------------------------------------------
(* Rows. *)

(* The rows of a result are typed, and finitely many. *)
LEMMA RowsAreRecords ==
  ASSUME rows \in Results
  PROVE  /\ rows \subseteq RowRecords
         /\ \A S \in SUBSET rows : IsFiniteSet(S)
<1>1. IsFiniteSet(rows) /\ rows \subseteq RowRecords
  BY CodeqlAssumption
<1> QED BY <1>1, FS_Subset

(* An allocation that was read has a place of four numbers, and a key.     *)
LEMMA AllocationOfRow ==
  ASSUME NEW row \in RowRecords, row.kind = "allocation", ~IsGarbled(row)
  PROVE  /\ allocation(row).function \in DOMAIN Rank /\ allocation(row).type \in DOMAIN Rank
         /\ allocation(row).function = row.function /\ allocation(row).type = row.type
         /\ allocation(row).precise <=> HasSite(row)
         /\ allocation(row).span \in [1 .. 4 -> Int]
         /\ HasSite(row) => \A n \in 1 .. 4 : allocation(row).span[n] >= 1
         /\ allocation_key(allocation(row)) \in [1 .. 4 -> Int]
<1>1. row.function \in DOMAIN Rank /\ row.type \in DOMAIN Rank
      /\ row.span \in [1 .. 4 -> Int \cup {Garbled}] /\ row.columns \in Nat
  BY DEF RowRecords
<1>2. allocation(row).span \in [1 .. 4 -> Int]
  <2>1. CASE HasSite(row)
    <3>1. row.columns >= 10 /\ Garbled \notin Range(row.span)
      BY <2>1 DEF HasSite, IsGarbled
    <3>2. \A n \in 1 .. 4 : row.span[n] \in Int
      BY <1>1, <3>1 DEF Range
    <3>3. row.span \in [1 .. 4 -> Int]
      BY <1>1, <3>2
    <3> QED BY <2>1, <3>3 DEF allocation
  <2>2. CASE ~HasSite(row)
    <3>1. <<0, 0, 0, 0>> \in [1 .. 4 -> Int]
      OBVIOUS
    <3> QED BY <2>2, <3>1 DEF allocation
  <2> QED BY <2>1, <2>2
<1>3. /\ allocation(row).function = row.function /\ allocation(row).type = row.type
      /\ allocation(row).precise <=> HasSite(row)
  BY DEF allocation
<1>4. HasSite(row) => \A n \in 1 .. 4 : allocation(row).span[n] >= 1
  <2>1. HasSite(row) => \A n \in 1 .. 4 : allocation(row).span[n] > 0
    BY DEF HasSite, allocation
  <2> QED BY <1>2, <2>1
<1>5. allocation_key(allocation(row)) \in [1 .. 4 -> Int]
  <2>1. ASSUME NEW w \in Int, NEW x \in Int, NEW y \in Int, NEW z \in Int
        PROVE  <<w, x, y, z>> \in [1 .. 4 -> Int]
    OBVIOUS
  <2>2. Rank[row.function] \in Int /\ Rank[row.type] \in Int
    BY <1>1, CodeqlAssumption
  <2> QED BY <1>2, <1>3, <2>1, <2>2 DEF allocation_key
<1> QED BY <1>1, <1>2, <1>3, <1>4, <1>5

(* A use that was read has a number for its offset, and a size exactly     *)
(* when it is not dynamic.                                                 *)
LEMMA UseOfRow ==
  ASSUME NEW row \in RowRecords, row.kind \in {"use", "dynamic_use"}, ~IsGarbled(row)
  PROVE  /\ use(row).name \in DOMAIN Rank
         /\ use(row).name = row.name /\ use(row).type = row.type
         /\ use(row).offset = row.offset /\ row.offset \in Int
         /\ use(row).dynamic <=> row.kind = "dynamic_use"
         /\ row.kind = "use" => use(row).bytes = {row.size} /\ row.size \in Int
         /\ row.kind = "dynamic_use" => use(row).bytes = {}
         /\ use_key(use(row)) \in [1 .. 1 -> Int]
<1>1. row.name \in DOMAIN Rank /\ row.offset \in Int \cup {Garbled} /\ row.size \in Int \cup {Garbled}
  BY DEF RowRecords
<1>2. row.offset \in Int /\ (row.kind = "use" => row.size \in Int)
  BY <1>1 DEF IsGarbled
<1>3. ASSUME NEW x \in Int PROVE <<x>> \in [1 .. 1 -> Int]
  OBVIOUS
<1>4. use(row).name = row.name
  BY DEF use
<1>5. use_key(use(row)) \in [1 .. 1 -> Int]
  BY <1>1, <1>3, <1>4, CodeqlAssumption DEF use_key
<1> QED BY <1>1, <1>2, <1>4, <1>5 DEF use

-----------------------------------------------------------------------------
(* The lists grow by one entry for each row of their kind that is read: in *)
(* some order of the rows read so far.                                     *)
CodeqlInv ==
  /\ rows \in Results /\ unread \subseteq rows
  /\ codeqlStage \in {"reading", "failed", "written"}
  /\ codeqlStage # "failed" =>
       /\ \A row \in Facts \ unread : ~IsGarbled(row)
       /\ types = {row.type : row \in Facts \ unread}
       /\ \E order \in Orders(Analysed \ unread) : allocations = AllocationsOf(order)
       /\ \E order \in Orders(Measured \ unread) : uses = UsesOf(order)
  /\ codeqlStage = "written" => unread = {} /\ policyFile = Policy(types, allocations, uses)

(* A list with one entry more. *)
LEMMA ListGrows ==
  ASSUME NEW N \in Nat, NEW f, f = [n \in 1 .. N |-> f[n]], NEW e
  PROVE  Append(f, e) = [n \in 1 .. (N + 1) |-> IF n = N + 1 THEN e ELSE f[n]]
<1> DEFINE T == {f[n] : n \in 1 .. N} \cup {e}
<1>1. e \in T /\ \A n \in 1 .. N : f[n] \in T
  OBVIOUS
<1> HIDE DEF T
<1>2. f \in Seq(T) /\ Len(f) = N
  BY <1>1, IsASeq
<1>3. /\ Append(f, e) \in Seq(T) /\ Len(Append(f, e)) = N + 1
      /\ \A n \in 1 .. N : Append(f, e)[n] = f[n]
      /\ Append(f, e)[N + 1] = e
  BY <1>1, <1>2, AppendProperties
<1>4. Append(f, e) = [n \in 1 .. (N + 1) |-> Append(f, e)[n]]
  BY <1>3
<1>5. \A n \in 1 .. (N + 1) : n # N + 1 => n \in 1 .. N
  OBVIOUS
<1>6. \A n \in 1 .. (N + 1) : Append(f, e)[n] = IF n = N + 1 THEN e ELSE f[n]
  BY <1>3, <1>5
<1> QED BY <1>4, <1>6

(* An allocation that is appended is the row that has been read last. *)
LEMMA AllocationsGrow ==
  ASSUME NEW S, IsFiniteSet(S), NEW row, row \notin S, NEW order \in Orders(S)
  PROVE  \E more \in Orders(S \cup {row}) :
           AllocationsOf(more) = Append(AllocationsOf(order), allocation(row))
<1> DEFINE N == Cardinality(S)
           more == [n \in 1 .. (N + 1) |-> IF n = N + 1 THEN row ELSE order[n]]
           f == AllocationsOf(order)
<1>1. more \in Orders(S \cup {row})
  BY OrderGrows
<1>2. N \in Nat /\ DOMAIN order = 1 .. N
  BY OrderLists
<1> HIDE DEF N
<1>3. f = [n \in 1 .. N |-> f[n]] /\ \A n \in 1 .. N : f[n] = allocation(order[n])
  BY <1>2 DEF AllocationsOf
<1> HIDE DEF f
<1>4. Append(f, allocation(row))
        = [n \in 1 .. (N + 1) |-> IF n = N + 1 THEN allocation(row) ELSE f[n]]
  BY <1>2, <1>3, ListGrows
<1>5. \A n \in 1 .. (N + 1) : n # N + 1 => n \in 1 .. N
  BY <1>2
<1>6. AllocationsOf(more) = [n \in 1 .. (N + 1) |-> allocation(more[n])]
  BY DEF AllocationsOf
<1>7. \A n \in 1 .. (N + 1) :
        allocation(more[n]) = IF n = N + 1 THEN allocation(row) ELSE f[n]
  BY <1>3, <1>5
<1> HIDE DEF more
<1>8. AllocationsOf(more) = Append(f, allocation(row))
  BY <1>4, <1>6, <1>7
<1> QED BY <1>1, <1>8 DEF f

(* So is a use. *)
LEMMA UsesGrow ==
  ASSUME NEW S, IsFiniteSet(S), NEW row, row \notin S, NEW order \in Orders(S)
  PROVE  \E more \in Orders(S \cup {row}) :
           UsesOf(more) = Append(UsesOf(order), use(row))
<1> DEFINE N == Cardinality(S)
           more == [n \in 1 .. (N + 1) |-> IF n = N + 1 THEN row ELSE order[n]]
           f == UsesOf(order)
<1>1. more \in Orders(S \cup {row})
  BY OrderGrows
<1>2. N \in Nat /\ DOMAIN order = 1 .. N
  BY OrderLists
<1> HIDE DEF N
<1>3. f = [n \in 1 .. N |-> f[n]] /\ \A n \in 1 .. N : f[n] = use(order[n])
  BY <1>2 DEF UsesOf
<1> HIDE DEF f
<1>4. Append(f, use(row)) = [n \in 1 .. (N + 1) |-> IF n = N + 1 THEN use(row) ELSE f[n]]
  BY <1>2, <1>3, ListGrows
<1>5. \A n \in 1 .. (N + 1) : n # N + 1 => n \in 1 .. N
  BY <1>2
<1>6. UsesOf(more) = [n \in 1 .. (N + 1) |-> use(more[n])]
  BY DEF UsesOf
<1>7. \A n \in 1 .. (N + 1) : use(more[n]) = IF n = N + 1 THEN use(row) ELSE f[n]
  BY <1>3, <1>5
<1> HIDE DEF more
<1>8. UsesOf(more) = Append(f, use(row))
  BY <1>4, <1>6, <1>7
<1> QED BY <1>1, <1>8 DEF f

(* Before the first row the lists are those of no rows. *)
LEMMA CodeqlInitInv == CodeqlInit => CodeqlInv
<1> SUFFICES ASSUME CodeqlInit PROVE CodeqlInv
  OBVIOUS
<1>1. rows \in Results /\ unread = rows /\ codeqlStage = "reading" /\ types = {}
      /\ allocations = <<>> /\ uses = <<>>
  BY DEF CodeqlInit
<1>2. Facts \ unread = {} /\ Analysed \ unread = {} /\ Measured \ unread = {}
  BY <1>1 DEF Facts, Analysed, Measured
<1>3. <<>> \in Orders({})
  <2>1. Cardinality({}) = 0
    BY FS_EmptySet
  <2>2. <<>> \in [1 .. 0 -> {}]
    OBVIOUS
  <2>3. <<>> \in Injection(1 .. 0, {}) /\ <<>> \in Surjection(1 .. 0, {})
    BY <2>2 DEF Injection, Surjection, IsInjective
  <2> QED BY <2>1, <2>3 DEF Orders, Bijection
<1>4. AllocationsOf(<<>>) = <<>> /\ UsesOf(<<>>) = <<>>
  BY DEF AllocationsOf, UsesOf
<1>5. types = {row.type : row \in Facts \ unread}
  BY <1>1, <1>2
<1> QED BY <1>1, <1>2, <1>3, <1>4, <1>5 DEF CodeqlInv

(* Every row that is read keeps the invariant, those that are skipped and  *)
(* those that make the tool fail included.                                 *)
THEOREM CodeqlNextInv ==
  ASSUME CodeqlInv, [CodeqlNext]_codeqlVars
  PROVE  CodeqlInv'
<1>1. ASSUME NEW row \in unread, codeqlStage = "reading", unread' = unread \ {row},
             Skip(row) \/ Fail(row) \/ Allocation(row) \/ Use(row),
             UNCHANGED <<rows, policyFile>>
      PROVE  CodeqlInv'
  <2>1. /\ Facts' = Facts /\ Analysed' = Analysed /\ Measured' = Measured
        /\ rows' \in Results /\ unread' \subseteq rows' /\ row \in rows
    BY <1>1 DEF CodeqlInv, Facts, Analysed, Measured
  <2>2. /\ \A r \in Facts \ unread : ~IsGarbled(r)
        /\ types = {r.type : r \in Facts \ unread}
        /\ \E order \in Orders(Analysed \ unread) : allocations = AllocationsOf(order)
        /\ \E order \in Orders(Measured \ unread) : uses = UsesOf(order)
    BY <1>1 DEF CodeqlInv
  <2>3. IsFiniteSet(Analysed \ unread) /\ IsFiniteSet(Measured \ unread)
    BY RowsAreRecords DEF CodeqlInv, Facts, Analysed, Measured
  <2>4. CASE Skip(row)
    <3>1. /\ Facts \ unread' = Facts \ unread /\ Analysed \ unread' = Analysed \ unread
          /\ Measured \ unread' = Measured \ unread
      BY <1>1, <2>4 DEF Skip, Facts, Analysed, Measured
    <3>2. UNCHANGED <<types, allocations, uses, codeqlStage>>
      BY <2>4 DEF Skip
    <3> QED BY <1>1, <2>1, <2>2, <3>1, <3>2 DEF CodeqlInv
  <2>5. CASE Fail(row)
    <3>1. codeqlStage' = "failed"
      BY <2>5 DEF Fail
    <3> QED BY <2>1, <3>1 DEF CodeqlInv
  <2>6. CASE Allocation(row)
    <3>1. /\ row \in Analysed /\ ~IsGarbled(row) /\ codeqlStage' = "reading"
          /\ types' = types \cup {row.type} /\ uses' = uses
          /\ allocations' = Append(allocations, allocation(row))
      BY <1>1, <2>1, <2>6 DEF Allocation, TypesOf, Facts, Analysed
    <3>2. /\ Facts \ unread' = (Facts \ unread) \cup {row}
          /\ Analysed \ unread' = (Analysed \ unread) \cup {row}
          /\ Measured \ unread' = Measured \ unread
          /\ row \notin Analysed \ unread
      BY <1>1, <3>1 DEF Analysed, Measured
    <3>3. types' = {r.type : r \in Facts \ unread'}
      BY <2>2, <3>1, <3>2
    <3>4. \E order \in Orders(Analysed \ unread') : allocations' = AllocationsOf(order)
      <4>1. PICK order \in Orders(Analysed \ unread) : allocations = AllocationsOf(order)
        BY <2>2
      <4>2. \E more \in Orders((Analysed \ unread) \cup {row}) :
              AllocationsOf(more) = Append(AllocationsOf(order), allocation(row))
        BY <2>3, <3>2, AllocationsGrow
      <4> QED BY <3>1, <3>2, <4>1, <4>2
    <3> QED BY <2>1, <2>2, <3>1, <3>2, <3>3, <3>4 DEF CodeqlInv
  <2>7. CASE Use(row)
    <3>1. /\ row \in Measured /\ ~IsGarbled(row) /\ codeqlStage' = "reading"
          /\ types' = types \cup {row.type} /\ allocations' = allocations
          /\ uses' = Append(uses, use(row))
      BY <1>1, <2>1, <2>7 DEF Use, TypesOf, Facts, Measured
    <3>2. /\ Facts \ unread' = (Facts \ unread) \cup {row}
          /\ Measured \ unread' = (Measured \ unread) \cup {row}
          /\ Analysed \ unread' = Analysed \ unread
          /\ row \notin Measured \ unread
      BY <1>1, <3>1 DEF Analysed, Measured
    <3>3. types' = {r.type : r \in Facts \ unread'}
      BY <2>2, <3>1, <3>2
    <3>4. \E order \in Orders(Measured \ unread') : uses' = UsesOf(order)
      <4>1. PICK order \in Orders(Measured \ unread) : uses = UsesOf(order)
        BY <2>2
      <4>2. \E more \in Orders((Measured \ unread) \cup {row}) :
              UsesOf(more) = Append(UsesOf(order), use(row))
        BY <2>3, <3>2, UsesGrow
      <4> QED BY <3>1, <3>2, <4>1, <4>2
    <3> QED BY <2>1, <2>2, <3>1, <3>2, <3>3, <3>4 DEF CodeqlInv
  <2> QED BY <1>1, <2>4, <2>5, <2>6, <2>7
<1>2. CASE ReadRow
  BY <1>1, <1>2 DEF ReadRow
<1>3. CASE WritePolicy
  <2>1. /\ UNCHANGED <<rows, unread, types, allocations, uses>>
        /\ codeqlStage = "reading" /\ codeqlStage' = "written" /\ unread = {}
        /\ policyFile' = Policy(types, allocations, uses)
    BY <1>3 DEF WritePolicy
  <2>2. Facts' = Facts /\ Analysed' = Analysed /\ Measured' = Measured
    BY <2>1 DEF Facts, Analysed, Measured
  <2>3. policyFile' = Policy(types, allocations, uses)'
    BY <2>1 DEF Policy, KeysOf, allocation_key, use_key, SortedNames
  <2> QED BY <2>1, <2>2, <2>3 DEF CodeqlInv
<1>4. CASE UNCHANGED codeqlVars
  <2>1. UNCHANGED <<rows, unread, types, allocations, uses, policyFile, codeqlStage>>
    BY <1>4 DEF codeqlVars
  <2>2. Facts' = Facts /\ Analysed' = Analysed /\ Measured' = Measured
    BY <2>1 DEF Facts, Analysed, Measured
  <2>3. Policy(types, allocations, uses)' = Policy(types, allocations, uses)
    BY <2>1 DEF Policy, KeysOf, allocation_key, use_key, SortedNames
  <2> QED BY <2>1, <2>2, <2>3 DEF CodeqlInv
<1> QED BY <1>2, <1>3, <1>4 DEF CodeqlNext

-----------------------------------------------------------------------------
(* What is written. *)

(* Allocations that can be told apart by their key come in one order.      *)
LEMMA AllocationsSortAlike ==
  ASSUME NEW S \in SUBSET RowRecords, IsFiniteSet(S),
         \A row \in S : row.kind = "allocation" /\ ~IsGarbled(row),
         \A r, s \in S :
           LET a == allocation(r)
               b == allocation(s)
           IN  /\ a.function = b.function /\ a.type = b.type
               /\ a.span[1] = b.span[1] /\ a.span[2] = b.span[2]
               => a = b,
         NEW one \in Orders(S), NEW two \in Orders(S)
  PROVE  Sorted(AllocationsOf(one), KeysOf(AllocationsOf(one), allocation_key))
         = Sorted(AllocationsOf(two), KeysOf(AllocationsOf(two), allocation_key))
<1> DEFINE entry == [row \in S |-> allocation(row)]
           key == [row \in S |-> allocation_key(allocation(row))]
<1>1. key \in [S -> [1 .. 4 -> Int]]
  BY AllocationOfRow
<1>2. ASSUME NEW r \in S, NEW s \in S, key[r] = key[s] PROVE entry[r] = entry[s]
  <2> DEFINE a == allocation(r)
             b == allocation(s)
  <2>1. /\ a.function \in DOMAIN Rank /\ a.type \in DOMAIN Rank
        /\ b.function \in DOMAIN Rank /\ b.type \in DOMAIN Rank
    BY AllocationOfRow
  <2>2. allocation_key(a) = allocation_key(b)
    BY <1>2
  <2> HIDE DEF a, b
  <2>3. /\ Rank[a.function] = Rank[b.function] /\ Rank[a.type] = Rank[b.type]
        /\ a.span[1] = b.span[1] /\ a.span[2] = b.span[2]
    BY <2>2 DEF allocation_key
  <2>4. a.function = b.function /\ a.type = b.type
    BY <2>1, <2>3, CodeqlAssumption DEF IsInjective
  <2>5. a = b
    BY <2>3, <2>4 DEF a, b
  <2> QED BY <2>5 DEF a, b
<1>3. ASSUME NEW order \in Orders(S)
      PROVE  /\ Mapped(entry, order) = AllocationsOf(order)
             /\ Mapped(key, order) = KeysOf(AllocationsOf(order), allocation_key)
  <2>1. \A n \in DOMAIN order : order[n] \in S
    BY OrderLists
  <2>2. Mapped(entry, order) = AllocationsOf(order)
    BY <2>1 DEF Mapped, AllocationsOf
  <2>3. Mapped(key, order) = [n \in DOMAIN order |-> allocation_key(allocation(order[n]))]
    BY <2>1 DEF Mapped
  <2>4. KeysOf(AllocationsOf(order), allocation_key)
          = [n \in DOMAIN order |-> allocation_key(allocation(order[n]))]
    BY DEF KeysOf, AllocationsOf
  <2> QED BY <2>2, <2>3, <2>4
<1> HIDE DEF entry, key
<1>4. 4 \in Nat
  OBVIOUS
<1>5. Tells(key, entry, S, 4)
  BY <1>1, <1>2 DEF Tells
<1>6. Sorted(Mapped(entry, one), Mapped(key, one))
        = Sorted(Mapped(entry, two), Mapped(key, two))
  BY <1>4, <1>5, OrdersSortAlike
<1> QED BY <1>3, <1>6

(* Uses with names of their own come in one order too. *)
LEMMA UsesSortAlike ==
  ASSUME NEW S \in SUBSET RowRecords, IsFiniteSet(S),
         \A row \in S : row.kind \in {"use", "dynamic_use"} /\ ~IsGarbled(row),
         \A r, s \in S : r.name = s.name => use(r) = use(s),
         NEW one \in Orders(S), NEW two \in Orders(S)
  PROVE  Sorted(UsesOf(one), KeysOf(UsesOf(one), use_key))
         = Sorted(UsesOf(two), KeysOf(UsesOf(two), use_key))
<1> DEFINE entry == [row \in S |-> use(row)]
           key == [row \in S |-> use_key(use(row))]
<1>1. key \in [S -> [1 .. 1 -> Int]]
  BY UseOfRow
<1>2. ASSUME NEW r \in S, NEW s \in S, key[r] = key[s] PROVE entry[r] = entry[s]
  <2>1. /\ use(r).name = r.name /\ use(s).name = s.name
        /\ r.name \in DOMAIN Rank /\ s.name \in DOMAIN Rank
    BY UseOfRow
  <2>2. use_key(use(r)) = use_key(use(s))
    BY <1>2
  <2>3. Rank[r.name] = Rank[s.name]
    BY <2>1, <2>2 DEF use_key
  <2>4. r.name = s.name
    BY <2>1, <2>3, CodeqlAssumption DEF IsInjective
  <2> QED BY <2>4
<1>3. ASSUME NEW order \in Orders(S)
      PROVE  /\ Mapped(entry, order) = UsesOf(order)
             /\ Mapped(key, order) = KeysOf(UsesOf(order), use_key)
  <2>1. \A n \in DOMAIN order : order[n] \in S
    BY OrderLists
  <2>2. Mapped(entry, order) = UsesOf(order)
    BY <2>1 DEF Mapped, UsesOf
  <2>3. Mapped(key, order) = [n \in DOMAIN order |-> use_key(use(order[n]))]
    BY <2>1 DEF Mapped
  <2>4. KeysOf(UsesOf(order), use_key) = [n \in DOMAIN order |-> use_key(use(order[n]))]
    BY DEF KeysOf, UsesOf
  <2> QED BY <2>2, <2>3, <2>4
<1> HIDE DEF entry, key
<1>4. 1 \in Nat
  OBVIOUS
<1>5. Tells(key, entry, S, 1)
  BY <1>1, <1>2 DEF Tells
<1>6. Sorted(Mapped(entry, one), Mapped(key, one))
        = Sorted(Mapped(entry, two), Mapped(key, two))
  BY <1>4, <1>5, OrdersSortAlike
<1> QED BY <1>3, <1>6

(* When the file is written every row has been read. *)
LEMMA WrittenIsRead ==
  ASSUME CodeqlInv, codeqlStage = "written"
  PROVE  /\ Facts \subseteq RowRecords /\ Analysed \subseteq Facts /\ Measured \subseteq Facts
         /\ IsFiniteSet(Facts) /\ IsFiniteSet(Analysed) /\ IsFiniteSet(Measured)
         /\ \A row \in Analysed : row.kind = "allocation" /\ ~IsGarbled(row)
         /\ \A row \in Measured : row.kind \in {"use", "dynamic_use"} /\ ~IsGarbled(row)
         /\ types = {row.type : row \in Facts}
         /\ policyFile = Policy(types, allocations, uses)
         /\ \E order \in Orders(Analysed) : allocations = AllocationsOf(order)
         /\ \E order \in Orders(Measured) : uses = UsesOf(order)
<1>1. unread = {} /\ rows \in Results
  BY DEF CodeqlInv
<1>2. Facts \ unread = Facts /\ Analysed \ unread = Analysed /\ Measured \ unread = Measured
  BY <1>1
<1>3. /\ \A row \in Facts : ~IsGarbled(row)
      /\ types = {row.type : row \in Facts}
      /\ \E order \in Orders(Analysed) : allocations = AllocationsOf(order)
      /\ \E order \in Orders(Measured) : uses = UsesOf(order)
      /\ policyFile = Policy(types, allocations, uses)
  BY <1>2 DEF CodeqlInv
<1>4. /\ Facts \in SUBSET rows /\ Analysed \in SUBSET rows /\ Measured \in SUBSET rows
      /\ Analysed \subseteq Facts /\ Measured \subseteq Facts
      /\ \A row \in Analysed : row.kind = "allocation"
      /\ \A row \in Measured : row.kind \in {"use", "dynamic_use"}
  BY DEF Facts, Analysed, Measured, IsFact, Kinds
<1>5. Facts \subseteq RowRecords
      /\ IsFiniteSet(Facts) /\ IsFiniteSet(Analysed) /\ IsFiniteSet(Measured)
  BY <1>1, <1>4, RowsAreRecords
<1> QED BY <1>3, <1>4, <1>5

(* The file does not depend on the order of the rows (the three            *)
(* sorted(...) of codeql_policy_to_json.py).                               *)
LEMMA WrittenForgetsOrder ==
  ASSUME CodeqlInv
  PROVE  RowOrderIsForgotten
<1> SUFFICES ASSUME codeqlStage = "written",
                    \A r, s \in Measured : r.name = s.name => use(r) = use(s),
                    \A a, b \in {allocation(row) : row \in Analysed} :
                      /\ a.function = b.function /\ a.type = b.type
                      /\ a.span[1] = b.span[1] /\ a.span[2] = b.span[2]
                      => a = b,
                    NEW analysed \in Orders(Analysed), NEW measured \in Orders(Measured)
             PROVE  policyFile = Policy({row.type : row \in Facts}, AllocationsOf(analysed),
                                        UsesOf(measured))
  BY DEF RowOrderIsForgotten
<1>1. PICK one \in Orders(Analysed) : allocations = AllocationsOf(one)
  BY WrittenIsRead
<1>2. PICK two \in Orders(Measured) : uses = UsesOf(two)
  BY WrittenIsRead
<1>3. \A r, s \in Analysed :
        LET a == allocation(r)
            b == allocation(s)
        IN  /\ a.function = b.function /\ a.type = b.type
            /\ a.span[1] = b.span[1] /\ a.span[2] = b.span[2]
            => a = b
  OBVIOUS
<1>4. /\ Analysed \in SUBSET RowRecords /\ IsFiniteSet(Analysed)
      /\ \A row \in Analysed : row.kind = "allocation" /\ ~IsGarbled(row)
  BY WrittenIsRead
<1>5. /\ Measured \in SUBSET RowRecords /\ IsFiniteSet(Measured)
      /\ \A row \in Measured : row.kind \in {"use", "dynamic_use"} /\ ~IsGarbled(row)
  BY WrittenIsRead
<1>6. Sorted(AllocationsOf(one), KeysOf(AllocationsOf(one), allocation_key))
        = Sorted(AllocationsOf(analysed), KeysOf(AllocationsOf(analysed), allocation_key))
  BY <1>3, <1>4, AllocationsSortAlike
<1>7. Sorted(UsesOf(two), KeysOf(UsesOf(two), use_key))
        = Sorted(UsesOf(measured), KeysOf(UsesOf(measured), use_key))
  BY <1>5, UsesSortAlike
<1>8. policyFile = Policy({row.type : row \in Facts}, AllocationsOf(one), UsesOf(two))
  BY <1>1, <1>2, WrittenIsRead
<1> QED BY <1>6, <1>7, <1>8 DEF Policy

(* The lists of the file hold an entry for every row of their kind and     *)
(* nothing else.                                                           *)
LEMMA WrittenLists ==
  ASSUME CodeqlInv, codeqlStage = "written"
  PROVE  /\ Cardinality(Analysed) \in Nat
         /\ DOMAIN policyFile.allocations = 1 .. Cardinality(Analysed)
         /\ Range(policyFile.allocations) = {allocation(row) : row \in Analysed}
         /\ Range(policyFile.uses) = {use(row) : row \in Measured}
         /\ policyFile.types = SortedNames({row.type : row \in Facts})
         /\ policyFile.types \in Seq({row.type : row \in Facts})
         /\ Range(policyFile.types) = {row.type : row \in Facts}
         /\ IsInjective(policyFile.types)
<1>1. /\ policyFile.types = SortedNames(types)
      /\ policyFile.allocations = Sorted(allocations, KeysOf(allocations, allocation_key))
      /\ policyFile.uses = Sorted(uses, KeysOf(uses, use_key))
  BY WrittenIsRead DEF Policy
<1>2. /\ Facts \subseteq RowRecords /\ Analysed \subseteq Facts /\ Measured \subseteq Facts
      /\ IsFiniteSet(Facts) /\ IsFiniteSet(Analysed) /\ IsFiniteSet(Measured)
      /\ \A row \in Analysed : row.kind = "allocation" /\ ~IsGarbled(row)
      /\ \A row \in Measured : row.kind \in {"use", "dynamic_use"} /\ ~IsGarbled(row)
      /\ types = {row.type : row \in Facts}
  BY WrittenIsRead
<1>3. PICK one \in Orders(Analysed) : allocations = AllocationsOf(one)
  BY WrittenIsRead
<1>4. PICK two \in Orders(Measured) : uses = UsesOf(two)
  BY WrittenIsRead
<1>5. /\ Cardinality(Analysed) \in Nat
      /\ DOMAIN policyFile.allocations = 1 .. Cardinality(Analysed)
      /\ Range(policyFile.allocations) = {allocation(row) : row \in Analysed}
  <2> DEFINE N == Cardinality(Analysed)
             keys == KeysOf(allocations, allocation_key)
  <2>1. /\ N \in Nat /\ one \in [1 .. N -> Analysed]
        /\ \A row \in Analysed : \E n \in 1 .. N : one[n] = row
    BY <1>2, OrderLists
  <2> HIDE DEF N
  <2>2. DOMAIN allocations = 1 .. N /\ \A n \in 1 .. N : allocations[n] = allocation(one[n])
    BY <1>3, <2>1 DEF AllocationsOf
  <2>3. \A n \in 1 .. N : allocation_key(allocation(one[n])) \in [1 .. 4 -> Int]
    BY <1>2, <2>1, AllocationOfRow
  <2>4. keys \in [1 .. N -> [1 .. 4 -> Int]]
    BY <2>2, <2>3 DEF KeysOf
  <2> HIDE DEF keys
  <2>5. IsSortOf(policyFile.allocations, allocations, keys, N)
    <3>1. 4 \in Nat
      OBVIOUS
    <3> QED BY <1>1, <2>1, <2>2, <2>4, <3>1, SortedFinds DEF keys
  <2>6. /\ DOMAIN policyFile.allocations = 1 .. N
        /\ Range(policyFile.allocations) = Range(allocations)
    BY <2>1, <2>2, <2>5, SortedRange
  <2>7. Range(allocations) = {allocation(row) : row \in Analysed}
    BY <2>1, <2>2 DEF Range
  <2> QED BY <2>1, <2>6, <2>7 DEF N
<1>6. Range(policyFile.uses) = {use(row) : row \in Measured}
  <2> DEFINE N == Cardinality(Measured)
             keys == KeysOf(uses, use_key)
  <2>1. /\ N \in Nat /\ two \in [1 .. N -> Measured]
        /\ \A row \in Measured : \E n \in 1 .. N : two[n] = row
    BY <1>2, OrderLists
  <2> HIDE DEF N
  <2>2. DOMAIN uses = 1 .. N /\ \A n \in 1 .. N : uses[n] = use(two[n])
    BY <1>4, <2>1 DEF UsesOf
  <2>3. \A n \in 1 .. N : use_key(use(two[n])) \in [1 .. 1 -> Int]
    BY <1>2, <2>1, UseOfRow
  <2>4. keys \in [1 .. N -> [1 .. 1 -> Int]]
    BY <2>2, <2>3 DEF KeysOf
  <2> HIDE DEF keys
  <2>5. IsSortOf(policyFile.uses, uses, keys, N)
    <3>1. 1 \in Nat
      OBVIOUS
    <3> QED BY <1>1, <2>1, <2>2, <2>4, <3>1, SortedFinds DEF keys
  <2>6. Range(policyFile.uses) = Range(uses)
    BY <2>1, <2>2, <2>5, SortedRange
  <2>7. Range(uses) = {use(row) : row \in Measured}
    BY <2>1, <2>2 DEF Range
  <2> QED BY <2>6, <2>7
<1>7. types \in SUBSET DOMAIN Rank /\ IsFiniteSet(types)
  <2>1. \A row \in Facts : row.type \in DOMAIN Rank
    BY <1>2 DEF RowRecords
  <2>2. IsFiniteSet({row.type : row \in Facts})
    <3> DEFINE T == {row.type : row \in Facts}
               f == [row \in Facts |-> row.type]
    <3>1. f \in [Facts -> T] /\ \A t \in T : \E row \in Facts : f[row] = t
      OBVIOUS
    <3> HIDE DEF f, T
    <3>2. f \in Surjection(Facts, T)
      BY <3>1, Fun_IsSurj
    <3> QED BY <1>2, <3>2, FS_Surjection DEF T
  <2> QED BY <1>2, <2>1, <2>2
<1>8. /\ SortedNames(types) \in Seq(types) /\ Range(SortedNames(types)) = types
      /\ IsInjective(SortedNames(types))
  BY <1>7, NamesAreListed
<1> QED BY <1>1, <1>2, <1>5, <1>6, <1>8

(* No site of the file starts before the text, and no allocation is left   *)
(* out.                                                                    *)
LEMMA WrittenSitesArePlaces ==
  ASSUME CodeqlInv
  PROVE  SitesArePlaces
<1> SUFFICES ASSUME codeqlStage = "written"
             PROVE  /\ \A a \in Range(policyFile.allocations) :
                         a.precise => \A n \in 1 .. 4 : a.span[n] >= 1
                    /\ \A row \in Analysed :
                         \E a \in Range(policyFile.allocations) :
                           a.type = row.type /\ a.function = row.function
  BY DEF SitesArePlaces
<1>1. Range(policyFile.allocations) = {allocation(row) : row \in Analysed}
  BY WrittenLists
<1>2. ASSUME NEW row \in Analysed
      PROVE  /\ allocation(row).precise => \A n \in 1 .. 4 : allocation(row).span[n] >= 1
             /\ allocation(row).type = row.type /\ allocation(row).function = row.function
  <2>1. row \in RowRecords /\ row.kind = "allocation" /\ ~IsGarbled(row)
    BY WrittenIsRead
  <2> QED BY <2>1, AllocationOfRow
<1> QED BY <1>1, <1>2

(* What the generators look at, for the policy of a query. *)
LEMMA JobOfPolicy ==
  ASSUME CodeqlInv, codeqlStage = "written", NEW backend
  PROVE  LET job == JobOf(backend) IN
         /\ composed_types(job) = policyFile.types
         /\ BoundaryTypesAreNames(job) /\ TypesAreKnown(job) /\ HelpersAreDistinct(job)
         /\ cpp(job.namespace) # <<>>
<1> DEFINE job == JobOf(backend)
<1>1. /\ job.types = policyFile.types /\ job.extra_types = <<>> /\ job.helpers = <<>>
      /\ job.allocations = policyFile.allocations /\ job.uses = policyFile.uses
      /\ job.namespace = <<"a">>
  BY DEF JobOf
<1> HIDE DEF job
<1>2. Cardinality({}) = 0
  BY FS_EmptySet
<1>3. composed_types(job) = policyFile.types
  <2> DEFINE E == {n \in DOMAIN job.extra_types :
                     /\ job.extra_types[n] \notin Range(job.types)
                     /\ \A m \in 1 .. (n - 1) : job.extra_types[m] # job.extra_types[n]}
  <2>1. composed_types(job) = job.types \o Picked(job.extra_types, E)
    BY DEF composed_types
  <2>2. E = {}
    BY <1>1
  <2> HIDE DEF E
  <2>3. Picked(job.extra_types, E) = <<>>
    BY <1>2, <2>2 DEF Picked
  <2>4. policyFile.types \in Seq({row.type : row \in Facts})
    BY WrittenLists
  <2> QED BY <1>1, <2>1, <2>3, <2>4, ConcatEmptySeq
<1>4. BoundaryTypesAreNames(job) /\ HelpersAreDistinct(job)
  BY <1>1 DEF BoundaryTypesAreNames, HelpersAreDistinct, Range
<1>5. TypesAreKnown(job)
  <2>1. /\ Range(policyFile.allocations) = {allocation(row) : row \in Analysed}
        /\ Range(policyFile.uses) = {use(row) : row \in Measured}
        /\ Range(policyFile.types) = {row.type : row \in Facts}
        /\ Analysed \subseteq Facts /\ Measured \subseteq Facts
    BY WrittenLists, WrittenIsRead
  <2>2. \A row \in Facts : allocation(row).type = row.type /\ use(row).type = row.type
    BY DEF allocation, use
  <2>3. /\ \A a \in Range(policyFile.allocations) : a.type \in Range(policyFile.types)
        /\ \A u \in Range(policyFile.uses) : u.type \in Range(policyFile.types)
    BY <2>1, <2>2
  <2>4. Range(job.helpers) = {}
    BY <1>1 DEF Range
  <2> QED BY <1>1, <1>3, <2>3, <2>4 DEF TypesAreKnown
<1>6. cpp(job.namespace) # <<>>
  <2> DEFINE name == <<"a">>
             E == {n \in DOMAIN name : name[n] \in Letters}
             shown == [n \in DOMAIN name |->
                         IF n = 1 \/ name[n - 1] \notin Letters
                         THEN Cased(name[n], Lower, Upper) ELSE name[n]]
  <2>1. "a" \in Letters
    BY DEF Letters, Lower, Range
  <2>2. E = {1}
    BY <2>1
  <2>3. cpp(name) = Picked(shown, E)
    BY DEF cpp
  <2>4. Cardinality(E) = 1
    BY <2>2, FS_Singleton
  <2> HIDE DEF E, shown, name
  <2>5. DOMAIN Picked(shown, E) = 1 .. 1
    BY <2>4 DEF Picked
  <2>6. DOMAIN <<>> = {}
    OBVIOUS
  <2> QED BY <1>1, <2>3, <2>5, <2>6 DEF name
<1> QED BY <1>3, <1>4, <1>5, <1>6 DEF job

(* The size that a generator takes for a use is that of its row.           *)
LEMMA GeneratorsReadUses ==
  ASSUME CodeqlInv, codeqlStage = "written"
  PROVE  LET measured == \A row \in Measured :
                           row.offset >= 0 /\ (row.kind = "use" => row.size >= 0)
             used == Range(policyFile.uses)
         IN  /\ \A u \in used : u.dynamic => u.bytes \subseteq {0}
             /\ \A u \in used : nacl_bytes(u) # {}
             /\ (\A u \in used : u.offset >= 0 /\ \A size \in nacl_bytes(u) : size >= 0)
                  <=> measured
             /\ (\A u \in used : u.offset >= 0 /\ \A size \in wasm_bytes(u) : size >= 0)
                  <=> measured
<1>1. Range(policyFile.uses) = {use(row) : row \in Measured}
  BY WrittenLists
<1>2. ASSUME NEW row \in Measured
      PROVE  LET u == use(row) IN
             /\ u.dynamic => u.bytes \subseteq {0}
             /\ nacl_bytes(u) # {} /\ wasm_bytes(u) = nacl_bytes(u)
             /\ u.offset = row.offset
             /\ (\A size \in nacl_bytes(u) : size >= 0) <=> (row.kind = "use" => row.size >= 0)
  <2> DEFINE u == use(row)
  <2>1. row \in RowRecords /\ row.kind \in {"use", "dynamic_use"} /\ ~IsGarbled(row)
    BY WrittenIsRead
  <2>2. /\ u.offset = row.offset
        /\ u.dynamic <=> row.kind = "dynamic_use"
        /\ row.kind = "use" => u.bytes = {row.size} /\ row.size \in Int
        /\ row.kind = "dynamic_use" => u.bytes = {}
    BY <2>1, UseOfRow
  <2> HIDE DEF u
  <2>3. nacl_bytes(u) = (IF row.kind = "use" THEN {row.size} ELSE {0})
        /\ wasm_bytes(u) = (IF row.kind = "use" THEN {row.size} ELSE {0})
    BY <2>1, <2>2 DEF nacl_bytes, wasm_bytes
  <2> QED BY <2>1, <2>2, <2>3 DEF u
<1> QED BY <1>1, <1>2

(* What the generators check is what the converter has made sure of,       *)
(* except for the signs of numbers, hashes and, for wasm2c, places.        *)
LEMMA WrittenIsTaken ==
  ASSUME CodeqlInv
  PROVE  GeneratorsTakeThePolicy
<1> DEFINE N == Cardinality(Analysed)
           clear == NoHashCollision(policyFile.types)
           measured == \A row \in Measured :
                         row.offset >= 0 /\ (row.kind = "use" => row.size >= 0)
           placed == \A row \in Analysed : HasSite(row)
<1> SUFFICES ASSUME codeqlStage = "written"
             PROVE  /\ accepts(JobOf("nacl")) <=> measured /\ clear
                    /\ accepts(JobOf("wasm")) <=> measured /\ clear /\ placed /\ N <= MaxSiteId
  BY WrittenLists DEF GeneratorsTakeThePolicy
<1>1. N \in Nat /\ DOMAIN policyFile.allocations = 1 .. N
  BY WrittenLists
<1>2. /\ \A u \in Range(policyFile.uses) : u.dynamic => u.bytes \subseteq {0}
      /\ \A u \in Range(policyFile.uses) : nacl_bytes(u) # {}
      /\ (\A u \in Range(policyFile.uses) :
            u.offset >= 0 /\ \A size \in nacl_bytes(u) : size >= 0) <=> measured
      /\ (\A u \in Range(policyFile.uses) :
            u.offset >= 0 /\ \A size \in wasm_bytes(u) : size >= 0) <=> measured
  BY GeneratorsReadUses
<1> HIDE DEF N, clear, measured, placed
<1>3. accepts(JobOf("nacl")) <=> measured /\ clear
  <2> DEFINE job == JobOf("nacl")
  <2>1. /\ composed_types(job) = policyFile.types /\ BoundaryTypesAreNames(job)
        /\ TypesAreKnown(job) /\ HelpersAreDistinct(job)
    BY JobOfPolicy
  <2>2. job.backend = "nacl" /\ job.uses = policyFile.uses
    BY DEF JobOf
  <2> HIDE DEF job
  <2>3. accepts(job) <=> nacl_accepts(job)
    BY <2>2 DEF accepts
  <2>4. IsInjective(policyFile.types)
    BY WrittenLists
  <2>5. nacl_accepts(job) <=> clear /\ \A u \in Range(policyFile.uses) :
                                u.offset >= 0 /\ \A size \in nacl_bytes(u) : size >= 0
    BY <1>2, <2>1, <2>2, <2>4 DEF nacl_accepts, clear
  <2> QED BY <1>2, <2>3, <2>5 DEF job
<1>4. accepts(JobOf("wasm")) <=> measured /\ clear /\ placed /\ N <= MaxSiteId
  <2> DEFINE job == JobOf("wasm")
             all == \A a \in Range(policyFile.allocations) : a.precise
  <2>1. /\ composed_types(job) = policyFile.types /\ BoundaryTypesAreNames(job)
        /\ TypesAreKnown(job) /\ HelpersAreDistinct(job) /\ cpp(job.namespace) # <<>>
    BY JobOfPolicy
  <2>2. /\ job.backend = "wasm" /\ job.uses = policyFile.uses /\ job.base = 0
        /\ job.allocations = policyFile.allocations /\ job.helpers = <<>>
    BY DEF JobOf
  <2> HIDE DEF job
  <2>3. accepts(job) <=> wasm_accepts(job)
    BY <2>2 DEF accepts
  <2>4. all <=> placed
    <3>1. Range(policyFile.allocations) = {allocation(row) : row \in Analysed}
      BY WrittenLists
    <3>2. \A row \in Analysed : allocation(row).precise <=> HasSite(row)
      BY DEF allocation
    <3> QED BY <3>1, <3>2 DEF placed
  <2>5. all => SiteTotal(job) = N
    <3> SUFFICES ASSUME all PROVE SiteTotal(job) = N
      OBVIOUS
    <3>1. {n \in DOMAIN job.allocations : job.allocations[n].precise} = 1 .. N
      BY <1>1, <2>2 DEF Range
    <3>2. PreciseAllocations(job) = Picked(job.allocations, 1 .. N)
      BY <3>1 DEF PreciseAllocations
    <3>3. Cardinality(1 .. N) = N
      BY <1>1, FS_Interval
    <3>4. Len(Picked(job.allocations, 1 .. N)) = N
      <4> DEFINE list == Picked(job.allocations, 1 .. N)
      <4>1. list = [k \in 1 .. N |-> list[k]]
        BY <3>3 DEF Picked
      <4> HIDE DEF list
      <4> DEFINE T == {list[k] : k \in 1 .. N}
      <4>2. \A k \in 1 .. N : list[k] \in T
        OBVIOUS
      <4> HIDE DEF T
      <4>3. list \in Seq(T) /\ DOMAIN list = 1 .. N
        BY <1>1, <4>1, <4>2, IsASeq
      <4> QED BY <1>1, <4>3 DEF list
    <3>5. Len(job.helpers) = 0
      BY <2>2
    <3> QED BY <1>1, <3>2, <3>4, <3>5 DEF SiteTotal
  <2>6. MaxSiteId \in Nat /\ MaxSiteId # 0
    BY GeneratorAssumption
  <2>7. (\A local \in 1 .. N : SiteIdFits(0, local)) <=> N <= MaxSiteId
    <3>1. \A local \in 1 .. N : SiteIdFits(0, local) <=> local <= MaxSiteId
      BY <1>1, <2>6 DEF SiteIdFits, runtime_site_id
    <3>2. N # 0 => N \in 1 .. N
      BY <1>1
    <3> QED BY <1>1, <2>6, <3>1, <3>2
  <2>8. all => (wasm_accepts(job) <=> /\ clear /\ N <= MaxSiteId
                                      /\ \A u \in Range(policyFile.uses) :
                                           u.offset >= 0 /\ \A size \in wasm_bytes(u) : size >= 0)
    BY <2>1, <2>2, <2>5, <2>6, <2>7 DEF wasm_accepts, clear
  <2>9. wasm_accepts(job) => all
    BY <2>2 DEF wasm_accepts
  <2> HIDE DEF all
  <2> QED BY <1>2, <2>3, <2>4, <2>8, <2>9 DEF job
<1> QED BY <1>3, <1>4

(* The policy file is a function of the query result and not of the order  *)
(* of its rows, places every analysed allocation, and is one that the      *)
(* generators take (codeql_policy_to_json.py:15-64).                       *)
THEOREM PolicyIsAlwaysTheResult == CodeqlSpec => []PolicyIsTheResult
<1>1. CodeqlInit => CodeqlInv
  BY CodeqlInitInv
<1>2. CodeqlInv /\ [CodeqlNext]_codeqlVars => CodeqlInv'
  BY CodeqlNextInv
<1>3. CodeqlInv => PolicyIsTheResult
  BY WrittenForgetsOrder, WrittenSitesArePlaces, WrittenIsTaken DEF PolicyIsTheResult
<1> QED BY <1>1, <1>2, <1>3, PTL DEF CodeqlSpec
=============================================================================
