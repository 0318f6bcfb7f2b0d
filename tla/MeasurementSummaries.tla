------------------------ MODULE MeasurementSummaries ------------------------
(***************************************************************************)
(* How a measurement becomes overheads: tools/summarize_p9a_application.py,*)
(* summarize_p8_application.py and summarize_p8_performance.py, over the   *)
(* CSV files that scripts/run_rlbox_nacl_poc.sh writes: one stream of      *)
(* samples in three modes, and the same stream without rlbox_only.         *)
(*                                                                         *)
(* A sample is [workload, mode, repetition, ns]; a file is a sequence of   *)
(* them.  An overhead is a percentage, exact because every time divides    *)
(* 100 times every other.  A summary keeps twice the median, the sum for   *)
(* the mean, and the extremes: [median2, sum, least, most].  What a tool   *)
(* makes of a file is [verdict] or, if it is "summarized", also the table. *)
(***************************************************************************)
EXTENDS Ordering, SequencesExt

CONSTANT
  Plans   \* the measurements: [workloads, repetitions, times], workloads a
          \* sequence, each repeated so often, times what a run can take

(* The workloads are the keys of a dictionary, and times are differences   *)
(* of a clock that does not go back (run_rlbox_nacl_poc.sh:193-221).       *)
ASSUME MeasurementAssumption ==
  \A p \in Plans :
    /\ p.workloads \in Seq(Range(p.workloads)) /\ IsInjective(p.workloads)
    /\ p.repetitions \in Nat \ {0}
    /\ p.times \subseteq Nat
    /\ \A t, u \in p.times : u # 0 => (100 * t) % u = 0

VARIABLES
  plan,      \* the measurement that is made
  rows,      \* the samples taken
  p9aFile, p8File,       \* the two CSV files; <<>> while there is none
  p9a, p8, bench,        \* what the tools made of them
  stage                  \* "measuring", "filtering", "measured", "killed"

measureVars == <<plan, rows, p9aFile, p8File, p9a, p8, bench, stage>>

Workloads == plan.workloads
Repetitions == plan.repetitions

MODES == {"rlbox_only", "tracked_no_check", "extended_sp3"}
PAIR == {"tracked_no_check", "extended_sp3"}

NotRun == [verdict |-> "not run"]
Refused == [verdict |-> "refused"]
Summary(table) == [verdict |-> "summarized", table |-> table]

-----------------------------------------------------------------------------
(* Statistics. *)

Statistics(values) ==
  LET s == Sorted(values, [n \in DOMAIN values |-> <<values[n]>>])
      n == Len(values)
  IN  [median2 |-> s[(n + 1) \div 2] + s[(n \div 2) + 1],
       sum |-> FoldLeft(LAMBDA t, u : t + u, 0, values), least |-> s[1], most |-> s[n]]

overhead(numerator, denominator) == (100 * numerator) \div denominator - 100

-----------------------------------------------------------------------------
(* Samples by workload, mode and repetition. *)

WorkloadsOf(samples) == {samples[n].workload : n \in DOMAIN samples}

(* The places of a workload's samples in one mode, and their times. *)
PlacesOf(samples, w, m) ==
  {n \in DOMAIN samples : samples[n].workload = w /\ samples[n].mode = m}

NsOf(samples, w, m) ==
  Picked([n \in DOMAIN samples |-> samples[n].ns], PlacesOf(samples, w, m))

ModesAt(samples, w, r) ==
  {samples[n].mode :
     n \in {k \in DOMAIN samples : samples[k].workload = w /\ samples[k].repetition = r}}

(* Mutant: a repetition without all modes is passed over. *)
RepetitionsOf_Whole(samples, w) ==
  LET own == {n \in DOMAIN samples : samples[n].workload = w}
  IN  {r \in {samples[n].repetition : n \in own} :
         ModesAt(samples, w, r) = {samples[n].mode : n \in own}}

RepetitionsOf(samples, w) ==
  {samples[n].repetition : n \in {k \in DOMAIN samples : samples[k].workload = w}}

At(samples, w, r, m) ==
  samples[CHOOSE n \in DOMAIN samples :
            /\ samples[n].workload = w
            /\ samples[n].repetition = r
            /\ samples[n].mode = m].ns

(* "duplicate ...": a mode comes twice in a repetition. *)
NoDuplicate(samples) ==
  \A i, j \in DOMAIN samples :
    /\ samples[i].workload = samples[j].workload
    /\ samples[i].mode = samples[j].mode
    /\ samples[i].repetition = samples[j].repetition
    => i = j

(* Every workload has every mode, in each of its repetitions. *)
Whole(samples, modes) ==
  \A w \in WorkloadsOf(samples) :
    /\ \A m \in modes : PlacesOf(samples, w, m) # {}
    /\ \A r \in RepetitionsOf(samples, w) : ModesAt(samples, w, r) = modes

(* Mutant: all overheads are over the first repetition. *)
Paired_Baseline(samples, w, numerator, denominator) ==
  LET reps == RepetitionsOf(samples, w)
  IN  [n \in 1 .. Cardinality(reps) |->
         overhead(At(samples, w, Nth(reps, n), numerator),
                  At(samples, w, Nth(reps, 1), denominator))]

(* The overheads of one mode over another, repetition by repetition. *)
Paired(samples, w, numerator, denominator) ==
  LET reps == RepetitionsOf(samples, w)
  IN  [n \in 1 .. Cardinality(reps) |->
         overhead(At(samples, w, Nth(reps, n), numerator),
                  At(samples, w, Nth(reps, n), denominator))]

-----------------------------------------------------------------------------
(* The three tools.  A refusal is an exception; nothing is written then.  *)

p8_row(samples, w) ==
  [repetitions |-> Cardinality(RepetitionsOf(samples, w)),
   baseline |-> Statistics(NsOf(samples, w, "tracked_no_check")),
   extended |-> Statistics(NsOf(samples, w, "extended_sp3")),
   paired |-> Statistics(Paired(samples, w, "extended_sp3", "tracked_no_check"))]

(* A baseline of 0 is a ZeroDivisionError. *)
p8_refuses(samples) ==
  \/ samples = <<>>
  \/ \E n \in DOMAIN samples : samples[n].mode \notin PAIR
  \/ ~NoDuplicate(samples)
  \/ ~Whole(samples, PAIR)
  \/ \E n \in DOMAIN samples :
       samples[n].mode = "tracked_no_check" /\ samples[n].ns = 0

summarize_p8_application(samples) ==
  IF p8_refuses(samples) THEN Refused
  ELSE Summary([w \in WorkloadsOf(samples) |-> p8_row(samples, w)])

(* The same for the benchmark of the boundaries; its CSV has the name of a *)
(* boundary for the workload, and ns_per_op for the time.  The number of   *)
(* repetitions is that of the overheads.                                   *)
ModesOf(samples, b) ==
  {samples[n].mode : n \in {k \in DOMAIN samples : samples[k].workload = b}}

bench_refuses(samples) ==
  \/ samples = <<>>
  \/ ~NoDuplicate(samples)
  \/ \E b \in WorkloadsOf(samples) :
       \/ ModesOf(samples, b) # PAIR
       \/ \E r \in RepetitionsOf(samples, b) :
            \/ ModesAt(samples, b, r) # PAIR
            \/ At(samples, b, r, "tracked_no_check") = 0

bench_row(samples, b) ==
  LET overheads == Paired(samples, b, "extended_sp3", "tracked_no_check")
  IN  [repetitions |-> Len(overheads),
       baseline |-> Statistics(NsOf(samples, b, "tracked_no_check")),
       extended |-> Statistics(NsOf(samples, b, "extended_sp3")),
       paired |-> Statistics(overheads)]

summarize_p8_performance(samples) ==
  IF bench_refuses(samples) THEN Refused
  ELSE Summary([b \in WorkloadsOf(samples) |-> bench_row(samples, b)])

p9a_refuses(samples) ==
  \/ samples = <<>>
  \/ \E n \in DOMAIN samples : samples[n].mode \notin MODES
  \/ ~NoDuplicate(samples)
  \/ ~Whole(samples, MODES)
  \/ \E n \in DOMAIN samples : samples[n].mode # "extended_sp3" /\ samples[n].ns <= 0

p9a_row(samples, w) ==
  [repetitions |-> Cardinality(RepetitionsOf(samples, w)),
   rlbox |-> Statistics(NsOf(samples, w, "rlbox_only")),
   tracked |-> Statistics(NsOf(samples, w, "tracked_no_check")),
   extended |-> Statistics(NsOf(samples, w, "extended_sp3")),
   tracking |-> Statistics(Paired(samples, w, "tracked_no_check", "rlbox_only")),
   validation |-> Statistics(Paired(samples, w, "extended_sp3", "tracked_no_check")),
   total |-> Statistics(Paired(samples, w, "extended_sp3", "rlbox_only"))]

summarize_p9a_application(samples) ==
  IF p9a_refuses(samples) THEN Refused
  ELSE Summary([w \in WorkloadsOf(samples) |-> p9a_row(samples, w)])

(* The table of the report: medians and median overheads. *)
render_p9a(table) ==
  [w \in DOMAIN table |->
     [rlbox |-> table[w].rlbox.median2, tracked |-> table[w].tracked.median2,
      extended |-> table[w].extended.median2,
      tracking |-> table[w].tracking.median2,
      validation |-> table[w].validation.median2,
      total |-> table[w].total.median2]]

-----------------------------------------------------------------------------
(* The measurement. *)

Orders ==
  << <<"rlbox_only", "tracked_no_check", "extended_sp3">>,
     <<"tracked_no_check", "extended_sp3", "rlbox_only">>,
     <<"extended_sp3", "rlbox_only", "tracked_no_check">>,
     <<"extended_sp3", "tracked_no_check", "rlbox_only">>,
     <<"tracked_no_check", "rlbox_only", "extended_sp3">>,
     <<"rlbox_only", "extended_sp3", "tracked_no_check">> >>

PlannedSamples == 3 * Repetitions * Len(Workloads)

(* What is measured at place n of the stream, counted from 0, if it takes  *)
(* time t.                                                                 *)
Planned(n, t) ==
  LET k == n \div 3
      r == k % Repetitions
  IN  [workload |-> Workloads[(k \div Repetitions) + 1],
       mode |-> Orders[(r % 6) + 1][(n % 3) + 1], repetition |-> r, ns |-> t]

MeasureInit ==
  /\ plan \in Plans
  /\ rows = <<>> /\ p9aFile = <<>> /\ p8File = <<>>
  /\ p9a = NotRun /\ p8 = NotRun /\ bench = NotRun
  /\ stage = "measuring"

Measure ==
  /\ stage = "measuring" /\ Len(rows) < PlannedSamples
  /\ \E t \in plan.times :
       rows' = Append(rows, Planned(Len(rows), t))
  /\ UNCHANGED <<plan, p9aFile, p8File, p9a, p8, bench, stage>>

WriteSamples ==
  /\ stage = "measuring" /\ Len(rows) = PlannedSamples
  /\ p9aFile' = rows
  /\ stage' = "filtering"
  /\ UNCHANGED <<plan, rows, p8File, p9a, p8, bench>>

WithoutBaseline(samples) ==
  Picked(samples, {n \in DOMAIN samples : samples[n].mode # "rlbox_only"})

FilterP8 ==
  /\ stage = "filtering"
  /\ p8File' = WithoutBaseline(p9aFile)
  /\ stage' = "measured"
  /\ UNCHANGED <<plan, rows, p9aFile, p9a, p8, bench>>

(* What a kill leaves of the last row it wrote: the row, or the row with   *)
(* its number cut short, which int() takes for a time, or too little, on   *)
(* which every tool fails: here a mode that no tool knows.                 *)
LastRow(sample) ==
  {sample, [sample EXCEPT !.mode = "unreadable"]}
    \cup {[sample EXCEPT !.ns = t] : t \in {u \in plan.times : 0 < u /\ u < sample.ns}}

(* What a kill leaves of a file: csv.writer fills a buffer of bytes, so    *)
(* the file may end within a row.                                          *)
CutOf(samples) ==
  {<<>>} \cup
  UNION {{[SubSeq(samples, 1, n) EXCEPT ![n] = row] : row \in LastRow(samples[n])} :
           n \in DOMAIN samples}

(* The script is killed.  The samples are in memory until all are taken.  *)
KillMeasurement ==
  /\ \/ /\ stage = "measuring"
        /\ \/ p9aFile' = <<>>
           \/ Len(rows) = PlannedSamples /\ p9aFile' \in CutOf(rows)
        /\ UNCHANGED p8File
     \/ /\ stage = "filtering"
        /\ p8File' \in CutOf(WithoutBaseline(p9aFile))
        /\ UNCHANGED p9aFile
  /\ stage' = "killed"
  /\ UNCHANGED <<plan, rows, p9a, p8, bench>>

Idle == stage \in {"measured", "killed"}

(* scripts/collect_p9a_rlbox_results.sh; test -s wants a file. *)
CollectP9a ==
  /\ Idle /\ p9aFile # <<>> /\ p9a = NotRun
  /\ p9a' = summarize_p9a_application(p9aFile)
  /\ UNCHANGED <<plan, rows, p9aFile, p8File, p8, bench, stage>>

(* scripts/run_p8_rlbox_evaluation.sh; the boundary benchmark is taken to  *)
(* have measured the same samples.                                         *)
CollectP8 ==
  /\ Idle /\ p8File # <<>> /\ p8 = NotRun
  /\ p8' = summarize_p8_application(p8File)
  /\ bench' = summarize_p8_performance(p8File)
  /\ UNCHANGED <<plan, rows, p9aFile, p8File, p9a, stage>>

MeasureNext ==
  Measure \/ WriteSamples \/ FilterP8 \/ KillMeasurement \/ CollectP9a \/ CollectP8

MeasureSpec == MeasureInit /\ [][MeasureNext]_measureVars

-----------------------------------------------------------------------------
Summarized(summary) == summary.verdict = "summarized"

(* Of the program (run_rlbox_nacl_poc.sh:216-249): the files hold the      *)
(* stream as it was measured, up to where a kill cut it, and a summary is  *)
(* there only for a file.                                                  *)
MeasureTypeOK ==
  /\ Len(rows) <= PlannedSamples
  /\ p9aFile \in CutOf(rows) /\ p8File \in CutOf(WithoutBaseline(rows))
  /\ stage = "measured" => p9aFile = rows /\ p8File = WithoutBaseline(rows)
  /\ Summarized(p9a) => DOMAIN p9a.table = WorkloadsOf(p9aFile)

(* A table is never computed from part of a repetition: whatever a kill    *)
(* left of the file, in an accepted one each workload has as many samples  *)
(* of every mode as the table says there were repetitions                  *)
(* (tests/p9a_application.py, "incomplete P9a triple was accepted";        *)
(* tests/p8_application.py, "incomplete application pair should fail").    *)
OnlyWholeRepetitions ==
  /\ Summarized(p9a) =>
       \A w \in DOMAIN p9a.table, m \in MODES :
         /\ Len(NsOf(p9aFile, w, m)) = p9a.table[w].repetitions
         /\ p9a.table[w].repetitions \in 1 .. Repetitions
  /\ Summarized(p8) =>
       \A w \in DOMAIN p8.table, m \in PAIR :
         Len(NsOf(p8File, w, m)) = p8.table[w].repetitions

(* The P8 table of a measurement says what its P9a table says of the same  *)
(* two modes (run_rlbox_nacl_poc.sh:179-182: "P8's existing                *)
(* tracked-no-check/Extended-SP3 CSV is mechanically filtered from the     *)
(* same repetitions, so the older incremental-validation result remains    *)
(* comparable"), and both tools for P8 agree on any file.                  *)
P8RemainsComparable ==
  /\ stage = "measured" /\ Summarized(p9a) /\ p8 # NotRun =>
       /\ Summarized(p8)
       /\ DOMAIN p8.table = DOMAIN p9a.table
       /\ \A w \in DOMAIN p9a.table :
            /\ p8.table[w].repetitions = p9a.table[w].repetitions
            /\ p8.table[w].baseline = p9a.table[w].tracked
            /\ p8.table[w].extended = p9a.table[w].extended
            /\ p8.table[w].paired = p9a.table[w].validation
  /\ p8 = bench

(* A machine that is slower for one whole repetition changes no overhead:  *)
(* every percentage is of two runs of one repetition (P9A render text,     *)
(* render_p9a_results.py:63: "intentionally paired within each             *)
(* repetition").                                                           *)
Slower(samples, w, r) ==
  [n \in DOMAIN samples |->
     IF samples[n].workload = w /\ samples[n].repetition = r
     THEN [samples[n] EXCEPT !.ns = 2 * @] ELSE samples[n]]

DriftDoesNotShow ==
  Summarized(p9a) =>
    \A w \in DOMAIN p9a.table : \A r \in RepetitionsOf(p9aFile, w) :
      LET drifted == summarize_p9a_application(Slower(p9aFile, w, r)) IN
      /\ Summarized(drifted)
      /\ drifted.table[w].tracking = p9a.table[w].tracking
      /\ drifted.table[w].validation = p9a.table[w].validation
      /\ drifted.table[w].total = p9a.table[w].total

(* Tracking and validation make up the total: with one repetition the      *)
(* rendered factors multiply (render_p9a_results.py:63-66 gives the three  *)
(* ratios and warns against adding them).                                  *)
FactorsMultiply ==
  Summarized(p9a) =>
    \A w \in DOMAIN p9a.table :
      LET row == render_p9a(p9a.table)[w] IN
      p9a.table[w].repetitions = 1 =>
        (200 + row.tracking) * (200 + row.validation) = 200 * (200 + row.total)

(* A measurement that was not killed, on a clock that always advances, is  *)
(* accepted with all its workloads and repetitions.                        *)
MeasurementsAreAccepted ==
  stage = "measured" /\ p9a # NotRun /\ (\A n \in DOMAIN rows : rows[n].ns > 0) =>
    /\ Summarized(p9a)
    /\ DOMAIN p9a.table = Range(Workloads)
    /\ \A w \in DOMAIN p9a.table : p9a.table[w].repetitions = Repetitions

(* Every table is over whole repetitions only, and over all of them if     *)
(* nothing was killed.                                                     *)
TablesAreOfWholeRepetitions == OnlyWholeRepetitions /\ MeasurementsAreAccepted

(* The overheads of one measurement agree: with each other, between the    *)
(* tables of P9a and P8, and with those of a machine that was slower for a *)
(* while.                                                                  *)
OverheadsAgree == P8RemainsComparable /\ DriftDoesNotShow /\ FactorsMultiply
=============================================================================
