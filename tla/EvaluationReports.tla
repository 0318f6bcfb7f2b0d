------------------------- MODULE EvaluationReports --------------------------
(***************************************************************************)
(* The evidence of a release: tools/p7c_report.py and build_p8_report.py   *)
(* judge the manifest of boundaries, scripts/run_p8_evaluation.sh runs     *)
(* them, tools/render_p8_results.py writes the results and                 *)
(* scripts/package_release.sh puts all of it into an archive.              *)
(*                                                                         *)
(* A boundary of the manifest is                                           *)
(*   [role, full, shapes, policy, boundary, revision, adversarial]         *)
(* policy is Missing or [allocations, precise, uses], counts; boundary is  *)
(* NoFile when the entry names no boundary file, Missing when there is no  *)
(* such file, or the roles of its helper sites, a sequence; revision and   *)
(* adversarial tell whether these are given.                               *)
(***************************************************************************)
EXTENDS Ordering, SequencesExt

CONSTANTS
  Manifests,        \* the manifests there can be, sequences of boundaries
  RequiredCount,    \* required_new_boundaries
  RequiredShapes,   \* required_pointer_shapes
  RuntimeFiles,     \* contents of runtime.csv, sequences of [metric, threads, population]
  MaxCommits,       \* a bound of the model
  NoFile, Missing

(* The roles of helper sites; "other" stands for all that are not valid.   *)
HelperRoles == {"integration", "adversarial", "other"}

(* What the manifest can say of a boundary. *)
Entries ==
  [role : STRING, full : BOOLEAN, shapes : SUBSET STRING,
   policy : {Missing} \cup [allocations : Nat, precise : Nat, uses : Nat],
   boundary : {NoFile, Missing} \cup Seq(HelperRoles), revision : BOOLEAN,
   adversarial : BOOLEAN]

(* The benchmark measures each operation once for a number of threads and  *)
(* of live allocations (evaluation/runtime_bench.cpp:157-164).             *)
ASSUME EvaluationAssumption ==
  /\ RequiredCount \in Nat /\ MaxCommits \in Nat
  /\ NoFile # Missing /\ NoFile \notin Seq(HelperRoles) /\ Missing \notin Seq(HelperRoles)
  /\ \A entries \in Manifests : entries \in Seq(Entries)
  /\ \A rows \in RuntimeFiles :
       /\ rows \in Seq([metric : STRING, threads : Nat, population : Nat])
       /\ IsInjective(rows)

VARIABLES
  manifest,   \* what is checked out
  commit,     \* counts the commits
  security,   \* security.csv: NoFile, or whether every case passed
  runtime,    \* runtime.csv
  p7c,        \* p7c-generalization.json
  det,        \* p8-deterministic.json
  csv,        \* p8-automation.csv
  environment,  \* environment.txt: the commit it names
  archive,    \* the release archive
  step        \* of run_p8_evaluation.sh; "" when it does not run

outVars == <<security, runtime, p7c, det, csv, environment>>
evaluationVars == <<manifest, commit, outVars, archive, step>>

Count(seq, x) == Cardinality({n \in DOMAIN seq : seq[n] = x})

Total(numbers) == FoldLeft(LAMBDA sum, number : sum + number, 0, numbers)

-----------------------------------------------------------------------------
(* p7c_report.py.  The numbers that an incomplete row lacks are read as 0  *)
(* by everything that reads them; its adversarial and revision as missing. *)

(* "full integration", "policy", "boundary_policy", "source_revision" or   *)
(* "valid helper-site role" is missing.                                    *)
IsIncomplete(entry) ==
  \/ ~entry.full
  \/ entry.policy = Missing
  \/ entry.boundary = Missing
  \/ ~entry.revision
  \/ entry.boundary # NoFile /\
       ~(Range(entry.boundary) \subseteq {"integration", "adversarial"})

Helpers(entry) == IF entry.boundary = NoFile THEN <<>> ELSE entry.boundary

boundary_metrics(entry) ==
  IF IsIncomplete(entry)
  THEN [role |-> entry.role, shapes |-> entry.shapes, complete |-> FALSE,
        inferred |-> 0, precise |-> 0, uses |-> 0, integration |-> 0,
        adversarial_helpers |-> 0, adversarial |-> FALSE, revision |-> FALSE]
  ELSE [role |-> entry.role, shapes |-> entry.shapes, complete |-> TRUE,
        inferred |-> entry.policy.allocations, precise |-> entry.policy.precise,
        uses |-> entry.policy.uses,
        integration |-> Count(Helpers(entry), "integration"),
        adversarial_helpers |-> Count(Helpers(entry), "adversarial"),
        adversarial |-> entry.adversarial, revision |-> TRUE]

build_report(entries) ==
  LET metrics == [n \in DOMAIN entries |-> boundary_metrics(entries[n])]
      isNew == {n \in DOMAIN metrics : metrics[n].role = "p7c"}
      isFull == {n \in isNew : metrics[n].complete}
      new == Picked(metrics, isNew)
      full == Picked(metrics, isFull)
      covered == UNION {m.shapes : m \in Range(full)}
  IN  [complete |-> /\ Len(full) >= RequiredCount
                    /\ RequiredShapes \subseteq covered
                    /\ \A m \in Range(new) : m.complete,
       completed |-> Len(full), missing_shapes |-> RequiredShapes \ covered,
       boundaries |-> metrics]

-----------------------------------------------------------------------------
(* build_p8_report.py. *)

Real(boundaries) ==
  Picked(boundaries, {n \in DOMAIN boundaries : boundaries[n].role \in {"baseline", "p7c"}})

(* The fraction is inferred over inferred and integration helpers.         *)
automation(boundaries) ==
  LET rows == Real(boundaries)
      inferred == Total([n \in DOMAIN rows |-> rows[n].inferred])
      helpers == Total([n \in DOMAIN rows |-> rows[n].integration])
  IN  [boundary_count |-> Len(rows), inferred |-> inferred,
       precise |-> Total([n \in DOMAIN rows |-> rows[n].precise]),
       integration |-> helpers,
       excluded |-> Total([n \in DOMAIN rows |-> rows[n].adversarial_helpers]),
       uses |-> Total([n \in DOMAIN rows |-> rows[n].uses]),
       fraction |-> <<inferred, inferred + helpers>>]

(* Mutant: boundaries without trusted uses are not looked for. *)
deterministic_complete_NoUses(report, passed) ==
  /\ passed /\ report.complete
  /\ \A b \in Range(Real(report.boundaries)) : b.complete => b.adversarial

deterministic_complete(report, passed) ==
  /\ passed /\ report.complete
  /\ \A b \in Range(Real(report.boundaries)) :
       b.revision /\ b.uses >= 1 /\ b.adversarial

build(entries, passed) ==
  LET report == build_report(entries) IN
  [complete |-> deterministic_complete(report, passed), generalization |-> report,
   automation |-> automation(report.boundaries)]

(* Every boundary has a row. *)
automation_csv(report) == report.generalization.boundaries

-----------------------------------------------------------------------------
(* render_p8_results.py. *)

(* check_live comes before remaining_bytes. *)
selected_runtime_rows(rows) ==
  LET chosen == Picked(rows, {n \in DOMAIN rows :
                                /\ rows[n].metric \in {"check_live", "remaining_bytes"}
                                /\ rows[n].threads = 1
                                /\ rows[n].population \in {1, 256, 4096, 16384}})
      place(metric) == IF metric = "check_live" THEN 0 ELSE 1
  IN  Sorted(chosen, [n \in DOMAIN chosen |->
                        <<chosen[n].population, place(chosen[n].metric)>>])

(* The sections and their numbers, which are written in the text. *)
headings(rows) ==
  <<[title |-> "security", number |-> 1], [title |-> "automation", number |-> 2]>>
    \o (IF rows # <<>>
        THEN <<[title |-> "runtime", number |-> 3], [title |-> "boundaries", number |-> 4],
               [title |-> "application", number |-> 5],
               [title |-> "interpretation", number |-> 6]>>
        ELSE <<[title |-> "boundaries", number |-> 3],
               [title |-> "application", number |-> 4],
               [title |-> "interpretation", number |-> 5]>>)

render(report, rows, runtime_rows, reference_commit) ==
  [commit |-> reference_commit, headings |-> headings(runtime_rows),
   automation |-> report.automation, table |-> rows,
   runtime |-> selected_runtime_rows(runtime_rows)]

-----------------------------------------------------------------------------
EvaluationInit ==
  /\ manifest \in Manifests
  /\ commit = 0
  /\ security = NoFile /\ runtime = NoFile /\ p7c = NoFile /\ det = NoFile
  /\ csv = NoFile /\ environment = NoFile /\ archive = NoFile
  /\ step = ""

(* Someone commits another integration, or loses one. *)
Commit ==
  /\ commit < MaxCommits
  /\ \E n \in DOMAIN manifest :
       manifest' = [manifest EXCEPT ![n].full = ~@]
  /\ commit' = commit + 1
  /\ UNCHANGED <<outVars, archive, step>>

(* rm -rf "$out" *)
StartEvaluation ==
  /\ step = ""
  /\ security' = NoFile /\ runtime' = NoFile /\ p7c' = NoFile /\ det' = NoFile
  /\ csv' = NoFile /\ environment' = NoFile
  /\ step' = "p6"
  /\ UNCHANGED <<manifest, commit, archive>>

(* run_p6_evaluation.sh stops after security.csv when a case fails. *)
RunP6 ==
  /\ step = "p6"
  /\ security' \in BOOLEAN
  /\ IF security'
     THEN runtime' \in RuntimeFiles /\ step' = "p7c"
     ELSE step' = "" /\ UNCHANGED runtime
  /\ UNCHANGED <<manifest, commit, p7c, det, csv, environment, archive>>

(* --require-complete: the file is written, then the script may stop. *)
ReportP7c ==
  /\ step = "p7c"
  /\ p7c' = build_report(manifest)
  /\ step' = IF p7c'.complete THEN "p8" ELSE ""
  /\ UNCHANGED <<manifest, commit, security, runtime, det, csv, environment, archive>>

BuildP8 ==
  /\ step = "p8"
  /\ det' = build(manifest, security)
  /\ step' = "csv"
  /\ UNCHANGED <<manifest, commit, security, runtime, p7c, csv, environment, archive>>

WriteAutomation ==
  /\ step = "csv"
  /\ csv' = automation_csv(det)
  /\ step' = IF det.complete THEN "environment" ELSE ""
  /\ UNCHANGED <<manifest, commit, security, runtime, p7c, det, environment, archive>>

WriteEnvironment ==
  /\ step = "environment"
  /\ environment' = commit
  /\ step' = ""
  /\ UNCHANGED <<manifest, commit, security, runtime, p7c, det, csv, archive>>

Kill ==
  /\ step # ""
  /\ step' = ""
  /\ UNCHANGED <<manifest, commit, outVars, archive>>

(* Every file of the evidence is there, and its report is complete. *)
Package ==
  /\ step = ""
  /\ NoFile \notin {security, runtime, p7c, det, csv, environment}
  /\ det.complete
  /\ archive' = [results |-> render(det, csv, runtime, commit), csv |-> csv,
                 environment |-> environment]
  /\ UNCHANGED <<manifest, commit, outVars, step>>

EvaluationNext ==
  \/ Commit \/ StartEvaluation \/ RunP6 \/ ReportP7c \/ BuildP8 \/ WriteAutomation
  \/ WriteEnvironment \/ Kill \/ Package

EvaluationSpec == EvaluationInit /\ [][EvaluationNext]_evaluationVars

-----------------------------------------------------------------------------
(* Of the program (run_p8_evaluation.sh:8-37): the files appear in the     *)
(* order of the script, and each needs the one before.                     *)
EvaluationTypeOK ==
  /\ commit \in 0 .. MaxCommits
  /\ step \in {"", "p6", "p7c", "p8", "csv", "environment"}
  /\ security \in BOOLEAN \cup {NoFile}
  /\ runtime # NoFile => security = TRUE
  /\ p7c # NoFile => runtime # NoFile
  /\ det # NoFile => p7c # NoFile /\ p7c.complete
  /\ csv # NoFile => det # NoFile
  /\ environment # NoFile => csv # NoFile /\ det.complete

(* What the criteria of P8 say of a boundary (P8_EVALUATION.md:77-86, 171: *)
(* integrated, with its policy files, a pinned revision, a trusted use,    *)
(* adversarial coverage, and helpers that are told apart).                 *)
Finished(entry) ==
  /\ entry.full /\ entry.revision /\ entry.adversarial
  /\ entry.policy # Missing /\ entry.policy.uses >= 1
  /\ entry.boundary # Missing
  /\ \A n \in DOMAIN Helpers(entry) : Helpers(entry)[n] \in {"integration", "adversarial"}

(* The report calls a manifest complete exactly when all boundaries it     *)
(* claims are finished and the new ones are enough: a boundary that is     *)
(* half there cannot hide behind others, in either role                    *)
(* (build_p8_report.py:59-67 reads the defaults of rows that p7c_report.py *)
(* left incomplete).                                                       *)
CompletionIsEarned ==
  LET new == {n \in DOMAIN manifest : manifest[n].role = "p7c"}
      claimed == new \cup {n \in DOMAIN manifest : manifest[n].role = "baseline"}
  IN  build(manifest, TRUE).complete <=>
        /\ \A n \in claimed : Finished(manifest[n])
        /\ Cardinality(new) >= RequiredCount
        /\ \A shape \in RequiredShapes : \E n \in new : shape \in manifest[n].shapes

(* Helper sites that exist for tests only never count as automation        *)
(* (P8_EVALUATION.md:33: "excluded from the automation denominator"): with *)
(* one more of them the report is what it was, but for their own count.    *)
TestHelpersDoNotCount ==
  \A n \in DOMAIN manifest :
    manifest[n].boundary \notin {NoFile, Missing} =>
      LET more == [manifest EXCEPT ![n].boundary = Append(@, "adversarial")]
          before == build(manifest, TRUE)
          after == build(more, TRUE)
      IN  /\ after.complete = before.complete
          /\ after.automation.fraction = before.automation.fraction
          /\ [after.automation EXCEPT !.excluded = before.automation.excluded]
               = before.automation

(* An archive shows finished boundaries only, and what its text says of    *)
(* them is the sum of the table below it (REPRODUCIBILITY.md:242 "rejects  *)
(* a deterministic report that is not complete"), whatever was killed,     *)
(* committed or evaluated again before it was packed.                      *)
ArchiveIsComplete ==
  archive # NoFile =>
    LET rows == Real(archive.results.table) IN
    /\ \A b \in Range(rows) : b.complete /\ b.uses >= 1 /\ b.adversarial
    /\ RequiredShapes \subseteq UNION {b.shapes : b \in Range(rows)}
    /\ archive.results.automation.boundary_count = Len(rows)
    /\ archive.results.automation.integration =
         Total([n \in DOMAIN rows |-> rows[n].integration])
    /\ archive.results.table = archive.csv

(* The sections of the results count from 1 without a gap, whether or not  *)
(* there are runtime measurements (render_p8_results.py:91-112), and their *)
(* table has each operation at most once for a number of live allocations, *)
(* smaller numbers first.                                                  *)
ResultsAreNumbered ==
  archive # NoFile =>
    LET titles == archive.results.headings
        rows == archive.results.runtime
    IN  /\ \A n \in DOMAIN titles : titles[n].number = n
        /\ \A m, n \in DOMAIN rows :
             m < n => /\ rows[m].population <= rows[n].population
                      /\ rows[m] # rows[n]

(* What a release shows is complete, and complete is what the criteria of  *)
(* P8 call so.                                                             *)
EvidenceIsComplete ==
  /\ CompletionIsEarned
  /\ TestHelpersDoNotCount
  /\ ArchiveIsComplete
  /\ ResultsAreNumbered
=============================================================================
