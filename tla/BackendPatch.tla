---------------------------- MODULE BackendPatch ----------------------------
(***************************************************************************)
(* apply_backend of backends/rlbox_nacl/apply_backend.py and of            *)
(* backends/rlbox_wasm2c/apply_backend.py: the patches are applied to the  *)
(* files of a checkout one after the other, each by reading a file,        *)
(* replacing one fragment and writing the file back.  A run may be killed  *)
(* at any moment and started again: that is what the test "if new in text" *)
(* is for.  A killed write leaves the file short.  Of a checkout only the  *)
(* commit is verified, not that its files are clean.                       *)
(*                                                                         *)
(* A text is a sequence of fragments [patch, form]: the context a patch    *)
(* looks for (form "old") or what it leaves there (form "new").  No        *)
(* fragment of one patch occurs in one of another; but the new form of     *)
(* many patches still contains the old form.                               *)
(***************************************************************************)
EXTENDS Integers, Sequences, SequencesExt

CONSTANTS
  Patches,     \* a sequence of [file, keeps, starts]; keeps: new contains
               \* old; starts: and begins with it
  Repos,       \* the checkouts whose commit is verified
  Checkouts,   \* possible texts of the files before the first run
  MaxRuns      \* bound: how often the tool is started

Files == {Patches[p].file : p \in DOMAIN Patches}

Fragments == [patch : DOMAIN Patches, form : {"old", "new"}]

(* The fragments that belong into a file. *)
FragmentsOf(f) == {x \in Fragments : Patches[x.patch].file = f}

ASSUME BackendPatchAssumption ==
  /\ Patches \in Seq([file : Files, keeps : BOOLEAN, starts : BOOLEAN])
  /\ \A c \in Checkouts : /\ DOMAIN c = Files
                          /\ \A f \in Files : c[f] \in Seq(FragmentsOf(f))
  /\ MaxRuns \in Nat

VARIABLES
  head,         \* repo -> whether its HEAD is the commit of the manifest
  checkout,     \* the texts before the first run
  files,        \* the texts now
  patchStage,   \* what the tool is doing
  next,         \* the patch it is at
  text,         \* what it is about to write
  cut,          \* the files of which a write was killed
  runs          \* how often it was started

patchVars == <<head, checkout, files, patchStage, next, text, cut, runs>>

(* The patches of the two backends.  What the patched code does is in      *)
(* NaClArena, NaClCallbacks and InterspecRuntime.                          *)

P(file, starts) == [file |-> file, keeps |-> starts, starts |-> starts]

NaClPatches ==
  <<P("rlbox_nacl_sandbox.hpp", FALSE),    \* <cstring>
    P("rlbox_nacl_sandbox.hpp", FALSE),    \* using std::memcpy
    P("rlbox_nacl_sandbox.hpp", FALSE),    \* the five new methods
    P("sel_ldr.h", TRUE),                  \* typed_arena_start and _size
    P("dyn_ldr_lib.h", TRUE),              \* the saved program counters
    P("dyn_ldr_lib.h", FALSE),             \* declarations
    P("dyn_ldr_lib.c", TRUE),              \* the program counters at first
    P("dyn_ldr_lib.c", FALSE),             \* reserveTypedArena
    [file |-> "dyn_ldr_lib.c", keeps |-> TRUE, starts |-> FALSE],
                                           \* getCallback...ProgramCounter
    P("nacl_syscall_common.c", TRUE),      \* an include
    P("nacl_syscall_common.c", TRUE),      \* saving the program counters
    P("sys_memory.c", TRUE),               \* TypedArenaOverlaps
    P("sys_memory.c", TRUE),               \* NaClSysMmap
    P("sys_memory.c", TRUE),               \* NaClSysMunmap
    P("sys_memory.c", TRUE)>>              \* NaClSysMprotect

Wasm2cPatches ==
  <<P("CMakeLists.txt", FALSE), P("CMakeLists.txt", FALSE),
    P("wasm2c_rt_mem.h", FALSE),           \* the members of w2c_env
    P("rlbox_wasm2c_sandbox.hpp", FALSE)>> \* the three new methods

-----------------------------------------------------------------------------
(* "old in text", "new in text", and the first place of old. *)

Has(t, p, form) == \E n \in DOMAIN t : t[n] = [patch |-> p, form |-> form]

ContainsOld(t, p) == Has(t, p, "old") \/ (Patches[p].keeps /\ Has(t, p, "new"))

ContainsNew(t, p) == Has(t, p, "new")

FirstOld(t, p) ==
  CHOOSE n \in DOMAIN t :
    /\ t[n].patch = p
    /\ t[n].form = "old" \/ Patches[p].keeps
    /\ \A m \in 1 .. (n - 1) : t[m].patch = p => t[m].form = "new" /\ ~ Patches[p].keeps

(* Mutant: the text is the one read when the run began. *)
Replaced_Stale(t, p) ==
  LET c == checkout[Patches[p].file]
  IN  IF ContainsOld(c, p)
      THEN [c EXCEPT ![FirstOld(c, p)] = [patch |-> p, form |-> "new"]]
      ELSE t

(* text.replace(old, new, 1): where old was inside new, new is there twice.*)
Replaced(t, p) ==
  LET n == FirstOld(t, p)
      new == [patch |-> p, form |-> "new"]
  IN  IF t[n].form = "old" THEN ReplaceAt(t, n, new) ELSE InsertAt(t, n, new)

-----------------------------------------------------------------------------
PatchTypeOK ==
  /\ head \in [Repos -> BOOLEAN]
  /\ DOMAIN files = Files
  /\ \A f \in Files : \A n \in DOMAIN files[f] : files[f][n] \in Fragments
  /\ patchStage \in {"idle", "applying", "writing", "failed", "done"}
  /\ next \in 1 .. (Len(Patches) + 1)
  /\ cut \subseteq Files
  /\ runs \in 0 .. MaxRuns

PatchInit ==
  /\ head \in [Repos -> BOOLEAN]
  /\ checkout \in Checkouts
  /\ files = checkout
  /\ patchStage = "idle"
  /\ next = 1
  /\ text = <<>>
  /\ cut = {}
  /\ runs = 0

(* require_head, for every repository, before any patch.                   *)
HeadsAreRequired == \A r \in Repos : head[r]

StartRun ==
  /\ patchStage # "applying" /\ patchStage # "writing"
  /\ runs < MaxRuns
  /\ runs' = runs + 1
  /\ patchStage' = IF HeadsAreRequired THEN "applying" ELSE "failed"
  /\ next' = 1
  /\ UNCHANGED <<head, checkout, files, text, cut>>

(* Mutant: only the context is looked for. *)
AlreadyApplied_Never(t, p) == FALSE

AlreadyApplied(t, p) == ContainsNew(t, p)

(* "backend patch context not found" *)
MissingContext(t, p) ==
  /\ ~ AlreadyApplied(t, p)
  /\ ~ ContainsOld(t, p)
  /\ patchStage' = "failed"
  /\ UNCHANGED <<next, text>>

(* replace, up to the write, which opens the file and so empties it. *)
Replace ==
  /\ patchStage = "applying"
  /\ next \in DOMAIN Patches
  /\ LET f == Patches[next].file
         t == files[f]
     IN \/ /\ AlreadyApplied(t, next)
           /\ next' = next + 1
           /\ UNCHANGED <<files, patchStage, text>>
        \/ /\ MissingContext(t, next)
           /\ UNCHANGED files
        \/ /\ ~ AlreadyApplied(t, next)
           /\ ContainsOld(t, next)
           /\ text' = Replaced(t, next)
           /\ files' = [files EXCEPT ![f] = <<>>]
           /\ patchStage' = "writing"
           /\ UNCHANGED next
  /\ UNCHANGED <<head, checkout, cut, runs>>

(* path.write_text writes the whole text, and the next patch is up. *)
Write ==
  /\ patchStage = "writing"
  /\ files' = [files EXCEPT ![Patches[next].file] = text]
  /\ patchStage' = "applying"
  /\ next' = next + 1
  /\ text' = <<>>
  /\ UNCHANGED <<head, checkout, cut, runs>>

Finish ==
  /\ patchStage = "applying"
  /\ next > Len(Patches)
  /\ patchStage' = "done"
  /\ UNCHANGED <<head, checkout, files, next, text, cut, runs>>

(* What a killed write leaves of text t: its start, up to any place.  In   *)
(* the last fragment that is left, the context may be there and the rest   *)
(* of the new form not.                                                    *)
LeftOf(t) ==
  {SubSeq(t, 1, n) : n \in 0 .. Len(t)} \cup
  {[SubSeq(t, 1, n) EXCEPT ![n].form = "old"] :
     n \in {k \in DOMAIN t : Patches[t[k].patch].starts}}

(* The run is killed: before a file is opened, after it is written, or in  *)
(* between.                                                                *)
Kill ==
  /\ \/ /\ patchStage = "applying"
        /\ UNCHANGED <<files, cut>>
     \/ /\ patchStage = "writing"
        /\ \E left \in LeftOf(text) :
             files' = [files EXCEPT ![Patches[next].file] = left]
        /\ cut' = cut \cup {Patches[next].file}
  /\ patchStage' = "idle"
  /\ next' = 1 /\ text' = <<>>
  /\ UNCHANGED <<head, checkout, runs>>

PatchNext == StartRun \/ Replace \/ Write \/ Finish \/ Kill

PatchSpec == PatchInit /\ [][PatchNext]_patchVars

-----------------------------------------------------------------------------
(* What the tool promises: each context of a patch is replaced once, where *)
(* it first is, unless the text has the patch already.                     *)
PatchedOnce(t) ==
  [n \in DOMAIN t |->
     IF /\ ~ ContainsNew(t, t[n].patch)
        /\ \A m \in 1 .. (n - 1) : t[m].patch # t[n].patch
     THEN [t[n] EXCEPT !.form = "new"]
     ELSE t[n]]

AllApplied ==
  /\ \A f \in Files \ cut : files[f] = PatchedOnce(checkout[f])
  /\ \A p \in DOMAIN Patches : ContainsNew(files[Patches[p].file], p)

(* However often runs were killed, a run that reports success leaves every *)
(* patch in its file, and the files what one undisturbed run would have    *)
(* made of them, each patch in once.  Only of a file whose write was       *)
(* killed the tool cannot know that its end is missing.                    *)
SuccessIsTheWholePatch ==
  patchStage = "done" => AllApplied

(* A checkout at any other commit than the pinned one is never written to. *)
UnpinnedIsUntouched == (\E r \in Repos : ~ head[r]) => files = checkout

(* Once all patches are in, no further run, killed or not, touches a file, *)
(* although most patched texts still contain the context that is searched. *)
PatchedIsFinal == [][AllApplied => files' = files]_patchVars

(* The text of a file, the one that is just being written included. *)
View(f) == IF patchStage = "writing" /\ Patches[next].file = f THEN text ELSE files[f]

Applied(t) == {p \in DOMAIN Patches : ContainsNew(t, p)}

(* A file never loses a patch, except in the very write that is killed: no *)
(* write goes back to a text read before another write, and no later run   *)
(* replaces a patch that is in.                                            *)
WriteIsKilled(f) ==
  patchStage = "writing" /\ patchStage' = "idle" /\ f = Patches[next].file

PatchesAreNeverLost ==
  [][\A f \in Files :
       ~WriteIsKilled(f) => Applied(View(f)) \subseteq Applied(View(f)')]_patchVars
=============================================================================
