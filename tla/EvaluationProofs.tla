-------------------------- MODULE EvaluationProofs ---------------------------
(***************************************************************************)
(* What is proved of the tools that run after the programs: the reports of *)
(* an evaluation (EvaluationReports) and the summaries of a measurement    *)
(* (MeasurementSummaries).  Both filter and sort rows; the lemmas of       *)
(* OrderingProofs say what that keeps.                                     *)
(***************************************************************************)
EXTENDS EvaluationReports, MeasurementSummaries, OrderingProofs

-----------------------------------------------------------------------------
(* The report of a manifest. *)

Metrics(entries) == [n \in DOMAIN entries |-> boundary_metrics(entries[n])]

NewIn(entries) == {n \in DOMAIN entries : entries[n].role = "p7c"}

ClaimedIn(entries) == {n \in DOMAIN entries : entries[n].role \in {"baseline", "p7c"}}

(* An entry has its metrics, and nothing is claimed for an incomplete one. *)
LEMMA MetricsOfEntry ==
  ASSUME NEW entry \in Entries
  PROVE  LET metrics == boundary_metrics(entry) IN
         /\ metrics.role = entry.role /\ metrics.shapes = entry.shapes
         /\ metrics.complete <=> ~IsIncomplete(entry)
         /\ metrics.revision = metrics.complete
         /\ Finished(entry) <=>
              metrics.revision /\ metrics.uses >= 1 /\ metrics.adversarial
<1> DEFINE metrics == boundary_metrics(entry)
           roles == {"integration", "adversarial"}
<1>1. CASE IsIncomplete(entry)
  <2>1. /\ metrics.role = entry.role /\ metrics.shapes = entry.shapes
        /\ metrics.complete = FALSE /\ metrics.revision = FALSE
    BY <1>1 DEF boundary_metrics
  <2>2. ~Finished(entry)
    <3> SUFFICES ASSUME Finished(entry) PROVE FALSE
      OBVIOUS
    <3>1. /\ entry.full /\ entry.revision /\ entry.policy # Missing
          /\ entry.boundary # Missing
          /\ \A n \in DOMAIN Helpers(entry) : Helpers(entry)[n] \in roles
      BY DEF Finished
    <3>2. entry.boundary # NoFile /\ ~(Range(entry.boundary) \subseteq roles)
      BY <1>1, <3>1 DEF IsIncomplete
    <3>3. \A n \in DOMAIN entry.boundary : entry.boundary[n] \in roles
      BY <3>1, <3>2 DEF Helpers
    <3> QED BY <3>2, <3>3 DEF Range
  <2> QED BY <1>1, <2>1, <2>2
<1>2. CASE ~IsIncomplete(entry)
  <2>1. /\ metrics.role = entry.role /\ metrics.shapes = entry.shapes
        /\ metrics.complete = TRUE /\ metrics.revision = TRUE
        /\ metrics.uses = entry.policy.uses /\ metrics.adversarial = entry.adversarial
    BY <1>2 DEF boundary_metrics
  <2>2. /\ entry.full /\ entry.policy # Missing /\ entry.boundary # Missing
        /\ entry.revision
        /\ entry.boundary = NoFile \/ Range(entry.boundary) \subseteq roles
    BY <1>2 DEF IsIncomplete
  <2>3. \A n \in DOMAIN Helpers(entry) : Helpers(entry)[n] \in roles
    <3>1. CASE entry.boundary = NoFile
      BY <3>1 DEF Helpers
    <3>2. CASE entry.boundary # NoFile
      BY <2>2, <3>2 DEF Helpers, Range
    <3> QED BY <3>1, <3>2
  <2> QED BY <1>2, <2>1, <2>2, <2>3 DEF Finished
<1> QED BY <1>1, <1>2

(* The lists of the report. *)
LEMMA ReportOfManifest ==
  ASSUME NEW entries \in Seq(Entries)
  PROVE  LET report == build_report(entries) IN
         /\ report.boundaries = Metrics(entries)
         /\ NewIn(entries) \in SUBSET DOMAIN entries /\ IsFiniteSet(NewIn(entries))
         /\ report.complete <=>
              /\ \A n \in NewIn(entries) : Metrics(entries)[n].complete
              /\ Cardinality(NewIn(entries)) >= RequiredCount
              /\ \A shape \in RequiredShapes : \E n \in NewIn(entries) :
                   shape \in entries[n].shapes
<1> DEFINE T == {boundary_metrics(e) : e \in Entries}
           metrics == Metrics(entries)
           isNew == {n \in DOMAIN metrics : metrics[n].role = "p7c"}
           isFull == {n \in isNew : metrics[n].complete}
           new == Picked(metrics, isNew)
           full == Picked(metrics, isFull)
           covered == UNION {m.shapes : m \in Range(full)}
           report == build_report(entries)
<1>1. /\ DOMAIN metrics = DOMAIN entries
      /\ \A n \in DOMAIN entries : entries[n] \in Entries
      /\ \A n \in DOMAIN entries : metrics[n] = boundary_metrics(entries[n])
  BY DEF Metrics
<1>2. metrics \in Seq(T)
  <2>1. \A n \in DOMAIN entries : metrics[n] \in T
    BY <1>1
  <2>2. Len(entries) \in Nat /\ DOMAIN entries = 1 .. Len(entries)
    OBVIOUS
  <2>3. metrics = [n \in 1 .. Len(entries) |-> metrics[n]]
    BY <2>2 DEF Metrics
  <2> HIDE DEF metrics, T
  <2>4. metrics \in [1 .. Len(entries) -> T]
    BY <2>1, <2>2, <2>3
  <2> QED BY <2>2, <2>4, IsASeq
<1>3. report.boundaries = metrics
  BY DEF build_report, Metrics
<1>4. report.complete = (/\ Len(full) >= RequiredCount
                         /\ RequiredShapes \subseteq covered
                         /\ \A m \in Range(new) : m.complete)
  BY DEF build_report, Metrics
<1>5. isNew = NewIn(entries) /\ isNew \in SUBSET DOMAIN metrics /\ isFull \in SUBSET DOMAIN metrics
  <2>1. \A n \in DOMAIN entries : metrics[n].role = entries[n].role
    BY <1>1, MetricsOfEntry
  <2> HIDE DEF metrics
  <2> QED BY <1>1, <2>1 DEF NewIn
<1>6. \A n \in DOMAIN entries : metrics[n].shapes = entries[n].shapes
  BY <1>1, MetricsOfEntry
<1> HIDE DEF metrics, T, report
<1>7. /\ Range(new) = {metrics[n] : n \in isNew} /\ Range(full) = {metrics[n] : n \in isFull}
      /\ Len(full) = Cardinality(isFull) /\ IsFiniteSet(isNew)
  <2> HIDE DEF isNew, isFull
  <2>1. Range(new) = {metrics[n] : n \in isNew} /\ Range(full) = {metrics[n] : n \in isFull}
    BY <1>2, <1>5, PickedRange
  <2>2. Len(full) = Cardinality(isFull)
    BY <1>2, <1>5, PickedFinds
  <2>3. IsFiniteSet(isNew)
    BY <1>2, <1>5, PickedFinds
  <2> QED BY <2>1, <2>2, <2>3
<1>8. (\A m \in Range(new) : m.complete) <=> \A n \in isNew : metrics[n].complete
  <2> HIDE DEF isNew
  <2> QED BY <1>7
<1>9. ASSUME \A n \in isNew : metrics[n].complete
      PROVE  /\ isFull = isNew
             /\ \A shape : shape \in covered <=> \E n \in isNew : shape \in entries[n].shapes
  <2>1. isFull = isNew
    BY <1>9
  <2>2. Range(full) = {metrics[n] : n \in isNew}
    BY <1>7, <2>1
  <2>3. \A n \in isNew : metrics[n].shapes = entries[n].shapes
    BY <1>1, <1>5, <1>6
  <2> HIDE DEF isNew, full
  <2>4. covered = UNION {m.shapes : m \in {metrics[n] : n \in isNew}}
    BY <2>2
  <2>5. ASSUME NEW shape, shape \in covered PROVE \E n \in isNew : shape \in entries[n].shapes
    <3>1. PICK n \in isNew : shape \in metrics[n].shapes
      BY <2>4, <2>5
    <3> QED BY <2>3, <3>1
  <2>6. ASSUME NEW shape, NEW n \in isNew, shape \in entries[n].shapes PROVE shape \in covered
    BY <2>3, <2>4, <2>6
  <2> HIDE DEF covered
  <2> QED BY <2>1, <2>5, <2>6
<1> HIDE DEF isNew, isFull, new, full, covered
<1>10. report.complete <=>
         /\ \A n \in isNew : metrics[n].complete
         /\ Cardinality(isNew) >= RequiredCount
         /\ \A shape \in RequiredShapes : \E n \in isNew : shape \in entries[n].shapes
  <2>1. CASE \A n \in isNew : metrics[n].complete
    BY <1>4, <1>7, <1>8, <1>9, <2>1
  <2>2. CASE ~(\A n \in isNew : metrics[n].complete)
    BY <1>4, <1>8, <2>2
  <2> QED BY <2>1, <2>2
<1> QED BY <1>1, <1>3, <1>5, <1>7, <1>10 DEF metrics, report

(* The boundaries that are claimed. *)
LEMMA RealOfManifest ==
  ASSUME NEW entries \in Seq(Entries)
  PROVE  /\ Range(Real(Metrics(entries))) = {Metrics(entries)[n] : n \in ClaimedIn(entries)}
         /\ ClaimedIn(entries) \in SUBSET DOMAIN entries
         /\ NewIn(entries) \in SUBSET ClaimedIn(entries)
         /\ \A n \in DOMAIN entries :
              /\ entries[n] \in Entries
              /\ Metrics(entries)[n] = boundary_metrics(entries[n])
         /\ DOMAIN Metrics(entries) = 1 .. Len(entries) /\ Len(entries) \in Nat
         /\ Metrics(entries) \in Seq({boundary_metrics(e) : e \in Entries})
<1> DEFINE T == {boundary_metrics(e) : e \in Entries}
           metrics == Metrics(entries)
           isReal == {n \in DOMAIN metrics : metrics[n].role \in {"baseline", "p7c"}}
<1>1. /\ Len(entries) \in Nat /\ DOMAIN entries = 1 .. Len(entries)
      /\ \A n \in DOMAIN entries : entries[n] \in Entries
  OBVIOUS
<1>2. /\ DOMAIN metrics = DOMAIN entries
      /\ \A n \in DOMAIN entries : metrics[n] = boundary_metrics(entries[n])
  BY DEF Metrics
<1>3. \A n \in DOMAIN entries : metrics[n].role = entries[n].role /\ metrics[n] \in T
  BY <1>1, <1>2, MetricsOfEntry
<1>4. metrics = [n \in 1 .. Len(entries) |-> metrics[n]]
  BY <1>1 DEF Metrics
<1>5. Real(metrics) = Picked(metrics, isReal)
  BY DEF Real
<1> HIDE DEF metrics, T
<1>6. metrics \in [1 .. Len(entries) -> T]
  BY <1>1, <1>3, <1>4
<1>7. metrics \in Seq(T)
  BY <1>1, <1>6, IsASeq
<1>8. isReal = ClaimedIn(entries) /\ isReal \in SUBSET DOMAIN metrics
  BY <1>2, <1>3 DEF ClaimedIn
<1>9. Range(Real(metrics)) = {metrics[n] : n \in isReal}
  <2> HIDE DEF isReal
  <2> QED BY <1>5, <1>7, <1>8, PickedRange
<1>10. NewIn(entries) \in SUBSET ClaimedIn(entries) /\ ClaimedIn(entries) \in SUBSET DOMAIN entries
  BY DEF NewIn, ClaimedIn
<1> HIDE DEF isReal
<1> QED BY <1>1, <1>2, <1>7, <1>8, <1>9, <1>10 DEF metrics, T

(* A manifest is complete when its claims are finished and enough.         *)
CompleteManifest(entries) ==
  /\ \A n \in ClaimedIn(entries) : Finished(entries[n])
  /\ Cardinality(NewIn(entries)) >= RequiredCount
  /\ \A shape \in RequiredShapes : \E n \in NewIn(entries) : shape \in entries[n].shapes

(* The flag "complete" of the report says just that of the manifest. *)
LEMMA CompletionOfManifest ==
  ASSUME NEW entries \in Seq(Entries)
  PROVE  build(entries, TRUE).complete <=> CompleteManifest(entries)
<1> DEFINE report == build_report(entries)
           metrics == Metrics(entries)
           claimed == ClaimedIn(entries)
<1>1. build(entries, TRUE).complete = deterministic_complete(report, TRUE)
  BY DEF build
<1>2. /\ report.boundaries = metrics
      /\ report.complete <=>
              /\ \A n \in NewIn(entries) : metrics[n].complete
              /\ Cardinality(NewIn(entries)) >= RequiredCount
              /\ \A shape \in RequiredShapes : \E n \in NewIn(entries) :
                   shape \in entries[n].shapes
  BY ReportOfManifest
<1>3. /\ Range(Real(metrics)) = {metrics[n] : n \in claimed}
      /\ claimed \in SUBSET DOMAIN entries /\ NewIn(entries) \in SUBSET claimed
      /\ \A n \in DOMAIN entries :
           entries[n] \in Entries /\ metrics[n] = boundary_metrics(entries[n])
  BY RealOfManifest
<1>4. \A n \in claimed :
        /\ metrics[n].revision = metrics[n].complete
        /\ Finished(entries[n]) <=>
             metrics[n].revision /\ metrics[n].uses >= 1 /\ metrics[n].adversarial
  BY <1>3, MetricsOfEntry
<1> HIDE DEF metrics, claimed, report
<1>5. deterministic_complete(report, TRUE) <=>
        /\ report.complete
        /\ \A n \in claimed :
             metrics[n].revision /\ metrics[n].uses >= 1 /\ metrics[n].adversarial
  BY <1>2, <1>3 DEF deterministic_complete
<1>6. deterministic_complete(report, TRUE) <=>
        report.complete /\ \A n \in claimed : Finished(entries[n])
  BY <1>4, <1>5
<1>7. (\A n \in claimed : Finished(entries[n])) =>
        \A n \in NewIn(entries) : metrics[n].complete
  BY <1>3, <1>4
<1> QED BY <1>1, <1>2, <1>6, <1>7 DEF CompleteManifest, claimed

(* A complete report is one of finished boundaries (p7c_report.py: a row   *)
(* that lacks something is not complete, and build_p8_report.py requires   *)
(* all).                                                                   *)
LEMMA CompletionEarned ==
  ASSUME manifest \in Seq(Entries)
  PROVE  CompletionIsEarned
<1>1. build(manifest, TRUE).complete <=> CompleteManifest(manifest)
  BY CompletionOfManifest
<1>2. ClaimedIn(manifest) =
        NewIn(manifest) \cup {n \in DOMAIN manifest : manifest[n].role = "baseline"}
  BY DEF ClaimedIn, NewIn
<1> QED BY <1>1, <1>2 DEF CompletionIsEarned, CompleteManifest, NewIn

-----------------------------------------------------------------------------
(* Helpers for tests. *)

SameButTestHelpers(m1, m2) ==
  /\ m1.role = m2.role /\ m1.shapes = m2.shapes /\ m1.complete = m2.complete
  /\ m1.inferred = m2.inferred /\ m1.precise = m2.precise /\ m1.uses = m2.uses
  /\ m1.integration = m2.integration /\ m1.adversarial = m2.adversarial
  /\ m1.revision = m2.revision

(* A helper site for tests changes nothing that the report reads from a    *)
(* boundary except its own count.                                          *)
LEMMA OneMoreTestHelper ==
  ASSUME NEW entry \in Entries, entry.boundary \notin {NoFile, Missing}
  PROVE  LET more == [entry EXCEPT !.boundary = Append(@, "adversarial")] IN
         /\ more \in Entries
         /\ SameButTestHelpers(boundary_metrics(more), boundary_metrics(entry))
<1> DEFINE old == entry.boundary
           new == Append(old, "adversarial")
           more == [entry EXCEPT !.boundary = Append(@, "adversarial")]
           roles == {"integration", "adversarial"}
<1>1. old \in Seq(HelperRoles)
  BY DEF Entries
<1>2. /\ new \in Seq(HelperRoles) /\ Len(new) = Len(old) + 1 /\ Len(old) \in Nat
      /\ \A k \in 1 .. Len(old) : new[k] = old[k]
      /\ new[Len(old) + 1] = "adversarial"
      /\ DOMAIN old = 1 .. Len(old) /\ DOMAIN new = 1 .. (Len(old) + 1)
  <2>1. "adversarial" \in HelperRoles
    BY DEF HelperRoles
  <2> HIDE DEF old
  <2>2. new \in Seq(HelperRoles) /\ Len(new) = Len(old) + 1
    BY <1>1, <2>1, AppendProperties
  <2>3. /\ \A k \in 1 .. Len(old) : new[k] = old[k]
        /\ new[Len(old) + 1] = "adversarial"
    BY <1>1, <2>1, AppendProperties
  <2> HIDE DEF new
  <2> QED BY <1>1, <2>2, <2>3
<1>3. /\ more \in Entries /\ more.boundary = new
      /\ more.role = entry.role /\ more.full = entry.full /\ more.shapes = entry.shapes
      /\ more.policy = entry.policy /\ more.revision = entry.revision
      /\ more.adversarial = entry.adversarial
  BY <1>2 DEF Entries
<1>4. new # NoFile /\ new # Missing
  BY <1>2, EvaluationAssumption
<1> HIDE DEF more, new, old
<1>5. Range(new) \subseteq roles <=> Range(old) \subseteq roles
  <2>1. \A k \in 1 .. Len(old) : k \in 1 .. (Len(old) + 1)
    BY <1>2
  <2>2. \A k \in 1 .. (Len(old) + 1) : k \in 1 .. Len(old) \/ k = Len(old) + 1
    BY <1>2
  <2>3. (\A k \in DOMAIN new : new[k] \in roles) <=> \A k \in DOMAIN old : old[k] \in roles
    BY <1>2, <2>1, <2>2
  <2> HIDE DEF roles
  <2> QED BY <2>3 DEF Range
<1>6. Count(new, "integration") = Count(old, "integration")
  <2>1. {k \in DOMAIN new : new[k] = "integration"} = {k \in DOMAIN old : old[k] = "integration"}
    <3>1. \A k \in 1 .. (Len(old) + 1) : k \in 1 .. Len(old) \/ k = Len(old) + 1
      BY <1>2
    <3>2. \A k \in 1 .. Len(old) : k \in 1 .. (Len(old) + 1)
      BY <1>2
    <3> QED BY <1>2, <3>1, <3>2
  <2> QED BY <2>1 DEF Count
<1>7. IsIncomplete(more) <=> IsIncomplete(entry)
  BY <1>3, <1>4, <1>5 DEF IsIncomplete, old
<1>8. Count(Helpers(more), "integration") = Count(Helpers(entry), "integration")
  BY <1>3, <1>4, <1>6 DEF Helpers, old
<1>9. SameButTestHelpers(boundary_metrics(more), boundary_metrics(entry))
  <2>1. CASE IsIncomplete(entry)
    BY <1>3, <1>7, <2>1 DEF boundary_metrics, SameButTestHelpers
  <2>2. CASE ~IsIncomplete(entry)
    BY <1>3, <1>7, <1>8, <2>2 DEF boundary_metrics, SameButTestHelpers
  <2> QED BY <2>1, <2>2
<1> QED BY <1>3, <1>9 DEF more

(* Sums over lists that are the same but for those helpers.                *)
LEMMA SumsAgree ==
  ASSUME NEW s \in Seq(Entries), NEW t \in Seq(Entries), DOMAIN s = DOMAIN t,
         \A n \in DOMAIN s : SameButTestHelpers(Metrics(s)[n], Metrics(t)[n])
  PROVE  LET one == automation(Metrics(s))
             two == automation(Metrics(t))
         IN  /\ one.fraction = two.fraction
             /\ [one EXCEPT !.excluded = two.excluded] = two
<1> DEFINE ms == Metrics(s)
           mt == Metrics(t)
           E == {n \in DOMAIN ms : ms[n].role \in {"baseline", "p7c"}}
           F == {n \in DOMAIN mt : mt[n].role \in {"baseline", "p7c"}}
           rs == Real(ms)
           rt == Real(mt)
           T == {boundary_metrics(e) : e \in Entries}
<1>1. /\ DOMAIN ms = DOMAIN s /\ ms \in Seq(T)
      /\ DOMAIN mt = DOMAIN s /\ mt \in Seq(T)
  BY RealOfManifest DEF Metrics
<1>2. \A n \in DOMAIN s : SameButTestHelpers(ms[n], mt[n])
  OBVIOUS
<1> HIDE DEF ms, mt, T
<1>3. E = F /\ E \in SUBSET DOMAIN ms /\ E \in SUBSET DOMAIN mt
  BY <1>1, <1>2 DEF SameButTestHelpers
<1>4. rs = Picked(ms, E) /\ rt = Picked(mt, E)
  BY <1>3 DEF Real
<1> HIDE DEF E, F, rs, rt
<1>5. /\ rs \in Seq(T) /\ Len(rs) = Cardinality(E)
      /\ \A k \in 1 .. Cardinality(E) : Nth(E, k) \in E /\ rs[k] = ms[Nth(E, k)]
  BY <1>1, <1>3, <1>4, PickedFinds
<1>6. /\ rt \in Seq(T) /\ Len(rt) = Cardinality(E)
      /\ \A k \in 1 .. Cardinality(E) : rt[k] = mt[Nth(E, k)]
  BY <1>1, <1>3, <1>4, PickedFinds
<1>7. /\ DOMAIN rs = DOMAIN rt /\ Len(rs) = Len(rt)
      /\ \A k \in DOMAIN rs : SameButTestHelpers(rs[k], rt[k])
  <2>1. DOMAIN rs = 1 .. Cardinality(E) /\ DOMAIN rt = 1 .. Cardinality(E)
    BY <1>5, <1>6
  <2>2. \A k \in 1 .. Cardinality(E) : Nth(E, k) \in DOMAIN s
    BY <1>1, <1>3, <1>5
  <2> QED BY <1>2, <1>5, <1>6, <2>1, <2>2
<1>8. /\ [k \in DOMAIN rs |-> rs[k].inferred] = [k \in DOMAIN rt |-> rt[k].inferred]
      /\ [k \in DOMAIN rs |-> rs[k].precise] = [k \in DOMAIN rt |-> rt[k].precise]
      /\ [k \in DOMAIN rs |-> rs[k].integration] = [k \in DOMAIN rt |-> rt[k].integration]
      /\ [k \in DOMAIN rs |-> rs[k].uses] = [k \in DOMAIN rt |-> rt[k].uses]
  BY <1>7 DEF SameButTestHelpers
<1> DEFINE record(excluded) ==
             LET inferred == Total([k \in DOMAIN rt |-> rt[k].inferred])
                 helpers == Total([k \in DOMAIN rt |-> rt[k].integration])
             IN  [boundary_count |-> Len(rt), inferred |-> inferred,
                  precise |-> Total([k \in DOMAIN rt |-> rt[k].precise]),
                  integration |-> helpers, excluded |-> excluded,
                  uses |-> Total([k \in DOMAIN rt |-> rt[k].uses]),
                  fraction |-> <<inferred, inferred + helpers>>]
<1>9. PICK x : automation(ms) = record(x)
  <2>1. automation(ms) = record(Total([k \in DOMAIN rs |-> rs[k].adversarial_helpers]))
    BY <1>7, <1>8 DEF automation, rs
  <2> QED BY <2>1
<1>10. PICK y : automation(mt) = record(y)
  <2>1. automation(mt) = record(Total([k \in DOMAIN rt |-> rt[k].adversarial_helpers]))
    BY DEF automation, rt
  <2> QED BY <2>1
<1>11. /\ record(x).fraction = record(y).fraction
       /\ [record(x) EXCEPT !.excluded = record(y).excluded] = record(y)
  <2> DEFINE inferred == Total([k \in DOMAIN rt |-> rt[k].inferred])
             helpers == Total([k \in DOMAIN rt |-> rt[k].integration])
             precise == Total([k \in DOMAIN rt |-> rt[k].precise])
             used == Total([k \in DOMAIN rt |-> rt[k].uses])
             fraction == <<inferred, inferred + helpers>>
  <2>1. \A z : record(z) =
          [boundary_count |-> Len(rt), inferred |-> inferred, precise |-> precise,
           integration |-> helpers, excluded |-> z, uses |-> used, fraction |-> fraction]
    OBVIOUS
  <2> HIDE DEF record, inferred, helpers, precise, used, fraction
  <2> QED BY <2>1
<1> HIDE DEF record
<1> QED BY <1>9, <1>10, <1>11 DEF ms, mt

(* Helper sites for tests change neither the fraction of the report nor    *)
(* whether it is complete (build_p8_report.py:85-90 only counts them).     *)
LEMMA TestHelpersNeverCount ==
  ASSUME manifest \in Seq(Entries)
  PROVE  TestHelpersDoNotCount
<1> SUFFICES ASSUME NEW n \in DOMAIN manifest,
                    manifest[n].boundary \notin {NoFile, Missing}
             PROVE  LET more == [manifest EXCEPT ![n].boundary = Append(@, "adversarial")]
                        before == build(manifest, TRUE)
                        after == build(more, TRUE)
                    IN  /\ after.complete = before.complete
                        /\ after.automation.fraction = before.automation.fraction
                        /\ [after.automation EXCEPT !.excluded = before.automation.excluded]
                             = before.automation
  BY DEF TestHelpersDoNotCount
<1> DEFINE entry == [manifest[n] EXCEPT !.boundary = Append(@, "adversarial")]
           more == [manifest EXCEPT ![n].boundary = Append(@, "adversarial")]
<1>1. /\ Len(manifest) \in Nat /\ DOMAIN manifest = 1 .. Len(manifest)
      /\ \A k \in DOMAIN manifest : manifest[k] \in Entries
  OBVIOUS
<1>2. /\ entry \in Entries
      /\ SameButTestHelpers(boundary_metrics(entry), boundary_metrics(manifest[n]))
  BY <1>1, OneMoreTestHelper
<1>3. /\ DOMAIN more = DOMAIN manifest /\ more[n] = entry
      /\ \A k \in DOMAIN manifest : k # n => more[k] = manifest[k]
      /\ more = [k \in DOMAIN manifest |-> more[k]]
  OBVIOUS
<1> HIDE DEF entry, more
<1>4. more \in Seq(Entries)
  <2>1. \A k \in DOMAIN manifest : more[k] \in Entries
    BY <1>1, <1>2, <1>3
  <2>2. more \in [1 .. Len(manifest) -> Entries]
    BY <1>1, <1>3, <2>1
  <2> QED BY <1>1, <2>2, IsASeq
<1>5. \A k \in DOMAIN manifest : SameButTestHelpers(Metrics(more)[k], Metrics(manifest)[k])
  <2>1. ASSUME NEW k \in DOMAIN manifest
        PROVE  SameButTestHelpers(Metrics(more)[k], Metrics(manifest)[k])
    <3>1. /\ Metrics(more)[k] = boundary_metrics(more[k])
          /\ Metrics(manifest)[k] = boundary_metrics(manifest[k])
      BY <1>3 DEF Metrics
    <3>2. CASE k = n
      BY <1>2, <1>3, <3>1, <3>2
    <3>3. CASE k # n
      BY <1>3, <3>1, <3>3 DEF SameButTestHelpers
    <3> QED BY <3>2, <3>3
  <2> QED BY <2>1
<1>6. CompleteManifest(more) <=> CompleteManifest(manifest)
  <2>1. \A k \in DOMAIN manifest :
          /\ Metrics(more)[k] = boundary_metrics(more[k]) /\ more[k] \in Entries
          /\ Metrics(manifest)[k] = boundary_metrics(manifest[k])
          /\ manifest[k] \in Entries
    BY <1>1, <1>3, <1>4, RealOfManifest
  <2>2. \A k \in DOMAIN manifest :
          /\ more[k].role = manifest[k].role /\ more[k].shapes = manifest[k].shapes
          /\ Finished(more[k]) <=> Finished(manifest[k])
    BY <1>5, <2>1, MetricsOfEntry DEF SameButTestHelpers
  <2>3. ClaimedIn(more) = ClaimedIn(manifest) /\ NewIn(more) = NewIn(manifest)
    BY <1>3, <2>2 DEF ClaimedIn, NewIn
  <2>4. /\ \A k \in ClaimedIn(manifest) : k \in DOMAIN manifest
        /\ \A k \in NewIn(manifest) : k \in DOMAIN manifest
    BY DEF ClaimedIn, NewIn
  <2> QED BY <2>2, <2>3, <2>4 DEF CompleteManifest
<1>7. build(more, TRUE).complete = build(manifest, TRUE).complete
  <2>1. /\ build(more, TRUE).complete <=> CompleteManifest(more)
        /\ build(manifest, TRUE).complete <=> CompleteManifest(manifest)
    BY <1>4, CompletionOfManifest
  <2>2. /\ build(more, TRUE).complete \in BOOLEAN
        /\ build(manifest, TRUE).complete \in BOOLEAN
    BY DEF build, deterministic_complete
  <2> QED BY <1>6, <2>1, <2>2
<1>8. /\ build(more, TRUE).automation = automation(Metrics(more))
      /\ build(manifest, TRUE).automation = automation(Metrics(manifest))
  BY <1>4, ReportOfManifest DEF build
<1>9. LET one == automation(Metrics(more))
          two == automation(Metrics(manifest))
      IN  /\ one.fraction = two.fraction
          /\ [one EXCEPT !.excluded = two.excluded] = two
  BY <1>3, <1>4, <1>5, SumsAgree
<1> QED BY <1>7, <1>8, <1>9 DEF more

-----------------------------------------------------------------------------
(* The results. *)

(* The lines of the table come in the order of their populations, no two of *)
(* them the same.                                                          *)
LEMMA RuntimeRowsAreSorted ==
  ASSUME NEW lines \in RuntimeFiles
  PROVE  LET table == selected_runtime_rows(lines) IN
         \A m, n \in DOMAIN table :
           m < n => table[m].population <= table[n].population /\ table[m] # table[n]
<1> DEFINE T == [metric : STRING, threads : Nat, population : Nat]
           E == {n \in DOMAIN lines :
                   /\ lines[n].metric \in {"check_live", "remaining_bytes"}
                   /\ lines[n].threads = 1
                   /\ lines[n].population \in {1, 256, 4096, 16384}}
           chosen == Picked(lines, E)
           N == Cardinality(E)
           place(metric) == IF metric = "check_live" THEN 0 ELSE 1
           keys == [n \in DOMAIN chosen |-> <<chosen[n].population, place(chosen[n].metric)>>]
           table == Sorted(chosen, keys)
<1>1. /\ lines \in Seq(T)
      /\ \A m, n \in DOMAIN lines : lines[m] = lines[n] => m = n
  BY EvaluationAssumption DEF IsInjective
<1>2. selected_runtime_rows(lines) = table
  BY DEF selected_runtime_rows
<1>3. E \in SUBSET DOMAIN lines
  OBVIOUS
<1> HIDE DEF E
<1>4. /\ N \in Nat /\ chosen \in Seq(T) /\ Len(chosen) = N
      /\ \A k \in 1 .. N : Nth(E, k) \in E /\ chosen[k] = lines[Nth(E, k)]
      /\ \A k, l \in 1 .. N : k < l <=> Nth(E, k) < Nth(E, l)
  <2> HIDE DEF T
  <2> QED BY <1>1, <1>3, PickedFinds
<1> HIDE DEF chosen, N
<1>5. /\ DOMAIN chosen = 1 .. N
      /\ \A k \in 1 .. N : chosen[k].population \in Int
  <2>1. DOMAIN chosen = 1 .. N
    BY <1>4
  <2>2. \A k \in 1 .. N : chosen[k] \in T
    <3> HIDE DEF T
    <3>1. chosen \in Seq(T) /\ Len(chosen) = N /\ N \in Nat
      BY <1>4
    <3> QED BY <2>1, <3>1
  <2> QED BY <2>1, <2>2
<1>6. keys \in [1 .. N -> [1 .. 2 -> Int]]
  <2>1. \A k \in 1 .. N : <<chosen[k].population, place(chosen[k].metric)>> \in [1 .. 2 -> Int]
    <3>1. ASSUME NEW x \in Int, NEW y \in Int PROVE <<x, y>> \in [1 .. 2 -> Int]
      OBVIOUS
    <3>2. \A k \in 1 .. N : place(chosen[k].metric) \in Int
      OBVIOUS
    <3> HIDE DEF place
    <3> QED BY <1>5, <3>1, <3>2
  <2> HIDE DEF place
  <2> QED BY <1>5, <2>1
<1>7. \A k \in 1 .. N : keys[k][1] = chosen[k].population
  BY <1>5
<1> HIDE DEF keys
<1>8. IsSortOf(table, chosen, keys, N)
  <2>1. 2 \in Nat
    OBVIOUS
  <2> QED BY <1>4, <1>5, <1>6, <2>1, SortedFinds
<1> HIDE DEF table
<1>9. PICK perm : /\ Sorts(perm, keys, N) /\ DOMAIN table = 1 .. N
                  /\ \A p \in 1 .. N : table[p] = chosen[perm[p]]
  BY <1>8 DEF IsSortOf
<1>10. /\ perm \in [1 .. N -> 1 .. N]
       /\ \A p, q \in 1 .. N : perm[p] = perm[q] => p = q
       /\ \A p, q \in 1 .. N :
            p < q => \/ Precedes(keys[perm[p]], keys[perm[q]])
                     \/ keys[perm[p]] = keys[perm[q]] /\ perm[p] < perm[q]
  BY <1>9 DEF Sorts, Bijection, Injection, IsInjective
<1>11. \A k, l \in 1 .. N : chosen[k] = chosen[l] => k = l
  <2>1. ASSUME NEW k \in 1 .. N, NEW l \in 1 .. N, chosen[k] = chosen[l] PROVE k = l
    <3>1. Nth(E, k) = Nth(E, l)
      BY <1>1, <1>3, <1>4, <2>1
    <3>2. Nth(E, k) \in Nat
      BY <1>1, <1>3, <1>4
    <3>3. ~(Nth(E, k) < Nth(E, l)) /\ ~(Nth(E, l) < Nth(E, k))
      BY <3>1, <3>2
    <3>4. ~(k < l) /\ ~(l < k)
      BY <1>4, <3>3
    <3> QED BY <1>4, <3>4
  <2> QED BY <2>1
<1>12. ASSUME NEW m \in 1 .. N, NEW n \in 1 .. N, m < n
       PROVE  table[m].population <= table[n].population /\ table[m] # table[n]
  <2>1. perm[m] \in 1 .. N /\ perm[n] \in 1 .. N /\ perm[m] # perm[n]
    <3>1. m # n
      BY <1>4, <1>12
    <3> QED BY <1>10, <3>1
  <2>2. table[m] = chosen[perm[m]] /\ table[n] = chosen[perm[n]]
    BY <1>9
  <2>3. keys[perm[m]][1] <= keys[perm[n]][1]
    <3>1. keys[perm[m]] \in [1 .. 2 -> Int] /\ keys[perm[n]] \in [1 .. 2 -> Int]
      BY <1>6, <2>1
    <3> DEFINE s == keys[perm[m]]
               t == keys[perm[n]]
    <3>2. Precedes(s, t) \/ s = t
      BY <1>10, <1>12
    <3> HIDE DEF s, t
    <3>3. s \in [1 .. 2 -> Int] /\ t \in [1 .. 2 -> Int]
      BY <3>1 DEF s, t
    <3>4. CASE Precedes(s, t)
      <4>1. PICK k \in 1 .. 2 : s[k] < t[k] /\ \A j \in 1 .. (k - 1) : s[j] = t[j]
        BY <3>3, <3>4 DEF Precedes
      <4>2. k = 1 \/ (k = 2 /\ 1 \in 1 .. (k - 1))
        OBVIOUS
      <4> QED BY <3>3, <4>1, <4>2 DEF s, t
    <3>5. CASE s = t
      BY <3>3, <3>5 DEF s, t
    <3> QED BY <3>2, <3>4, <3>5
  <2> QED BY <1>7, <1>11, <2>1, <2>2, <2>3
<1> QED BY <1>2, <1>9, <1>12 DEF table

(* The headings of the results are numbered in their order, whether or not *)
(* there are runtime results (render_p8_results.py).                       *)
LEMMA HeadingsAreNumbered ==
  ASSUME NEW lines
  PROVE  \A n \in DOMAIN headings(lines) : headings(lines)[n].number = n
<1> DEFINE f == <<[title |-> "security", number |-> 1], [title |-> "automation", number |-> 2]>>
           g == <<[title |-> "runtime", number |-> 3], [title |-> "boundaries", number |-> 4],
                  [title |-> "application", number |-> 5],
                  [title |-> "interpretation", number |-> 6]>>
           h == <<[title |-> "boundaries", number |-> 3], [title |-> "application", number |-> 4],
                  [title |-> "interpretation", number |-> 5]>>
           T == [title : {"security", "automation", "runtime", "boundaries", "application",
                          "interpretation"}, number : Nat]
<1>1. f \in Seq(T) /\ Len(f) = 2 /\ \A k \in 1 .. 2 : f[k].number = k
  OBVIOUS
<1>2. g \in Seq(T) /\ Len(g) = 4 /\ \A k \in 1 .. 4 : g[k].number = k + 2
  OBVIOUS
<1>3. h \in Seq(T) /\ Len(h) = 3 /\ \A k \in 1 .. 3 : h[k].number = k + 2
  OBVIOUS
<1>4. headings(lines) = f \o (IF lines # <<>> THEN g ELSE h)
  BY DEF headings
<1> HIDE DEF f, g, h, T
<1>5. ASSUME NEW s \in Seq(T), \A k \in 1 .. Len(s) : s[k].number = k + 2
      PROVE  \A n \in DOMAIN (f \o s) : (f \o s)[n].number = n
  <2>1. /\ f \o s \in Seq(T) /\ Len(f \o s) = 2 + Len(s) /\ Len(s) \in Nat
        /\ \A k \in 1 .. (2 + Len(s)) : (f \o s)[k] = IF k <= 2 THEN f[k] ELSE s[k - 2]
    <3>1. f \in Seq(T) /\ Len(f) = 2 /\ s \in Seq(T) /\ Len(s) \in Nat
      BY <1>1, <1>5
    <3>2. f \o s \in Seq(T) /\ Len(f \o s) = Len(f) + Len(s)
      BY <3>1, ConcatProperties
    <3>3. \A k \in 1 .. (Len(f) + Len(s)) :
            (f \o s)[k] = IF k <= Len(f) THEN f[k] ELSE s[k - Len(f)]
      BY <3>1, ConcatProperties
    <3> QED BY <3>1, <3>2, <3>3
  <2>2. DOMAIN (f \o s) = 1 .. (2 + Len(s))
    BY <2>1
  <2>3. ASSUME NEW n \in 1 .. (2 + Len(s)) PROVE (f \o s)[n].number = n
    <3>1. CASE n <= 2
      <4>1. n \in 1 .. 2
        BY <3>1
      <4> QED BY <1>1, <2>1, <3>1, <4>1
    <3>2. CASE ~(n <= 2)
      <4>1. n - 2 \in 1 .. Len(s) /\ (n - 2) + 2 = n
        BY <2>1, <3>2
      <4>2. (f \o s)[n] = s[n - 2]
        BY <2>1, <3>2
      <4> QED BY <1>5, <4>1, <4>2
    <3> QED BY <3>1, <3>2
  <2> QED BY <2>2, <2>3
<1>6. /\ \A n \in DOMAIN (f \o g) : (f \o g)[n].number = n
      /\ \A n \in DOMAIN (f \o h) : (f \o h)[n].number = n
  BY <1>2, <1>3, <1>5
<1> QED BY <1>4, <1>6

-----------------------------------------------------------------------------
(* What a release shows. *)

(* The deterministic report is one of a manifest, made when the security   *)
(* cases had passed, and its table is written from it.                     *)
EvaluationInv ==
  /\ manifest \in Seq(Entries)
  /\ step \in {"p7c", "p8"} => security = TRUE
  /\ runtime # NoFile => runtime \in RuntimeFiles
  /\ det # NoFile => \E entries \in Seq(Entries) : det = build(entries, TRUE)
  /\ step \in {"p6", "p7c", "p8", "csv"} => csv = NoFile
  /\ csv # NoFile => csv = automation_csv(det)
  /\ ArchiveIsComplete /\ ResultsAreNumbered

(* What package_release.sh puts into the archive was checked just before:  *)
(* the table is that of the report, and the report is complete.            *)
LEMMA PackageIsComplete ==
  ASSUME EvaluationInv, Package
  PROVE  ArchiveIsComplete' /\ ResultsAreNumbered'
<1>1. PICK entries \in Seq(Entries) : det = build(entries, TRUE)
  BY DEF EvaluationInv, Package
<1> DEFINE metrics == Metrics(entries)
           claimed == ClaimedIn(entries)
<1>2. CompleteManifest(entries)
  BY <1>1, CompletionOfManifest DEF Package
<1>3. det.generalization.boundaries = metrics /\ det.automation = automation(metrics)
  BY <1>1, ReportOfManifest DEF build
<1>4. csv = metrics /\ runtime \in RuntimeFiles
  BY <1>3 DEF EvaluationInv, Package, automation_csv
<1>5. /\ archive'.csv = csv /\ archive'.results.table = csv
      /\ archive'.results.automation = automation(metrics)
      /\ archive'.results.headings = headings(runtime)
      /\ archive'.results.runtime = selected_runtime_rows(runtime)
  BY <1>3 DEF Package, render
<1>6. /\ Range(Real(metrics)) = {metrics[n] : n \in claimed}
      /\ claimed \in SUBSET DOMAIN entries /\ NewIn(entries) \in SUBSET claimed
      /\ \A n \in DOMAIN entries :
           entries[n] \in Entries /\ metrics[n] = boundary_metrics(entries[n])
  BY RealOfManifest
<1> HIDE DEF metrics, claimed
<1>7. \A n \in claimed :
        /\ metrics[n].complete /\ metrics[n].uses >= 1 /\ metrics[n].adversarial
        /\ metrics[n].shapes = entries[n].shapes
  BY <1>2, <1>6, MetricsOfEntry DEF CompleteManifest, claimed
<1>8. ASSUME NEW shape \in RequiredShapes
      PROVE  shape \in UNION {b.shapes : b \in Range(Real(metrics))}
  <2>1. PICK n \in NewIn(entries) : shape \in entries[n].shapes
    BY <1>2 DEF CompleteManifest
  <2>2. metrics[n] \in Range(Real(metrics)) /\ shape \in metrics[n].shapes
    BY <1>6, <1>7, <2>1
  <2> QED BY <2>2
<1>9. /\ automation(metrics).boundary_count = Len(Real(metrics))
      /\ automation(metrics).integration =
           Total([n \in DOMAIN Real(metrics) |-> Real(metrics)[n].integration])
  BY DEF automation
<1>10. \A b \in Range(Real(metrics)) : b.complete /\ b.uses >= 1 /\ b.adversarial
  BY <1>6, <1>7
<1>11. RequiredShapes \subseteq UNION {b.shapes : b \in Range(Real(metrics))}
  BY <1>8
<1>12. ArchiveIsComplete'
  BY <1>4, <1>5, <1>9, <1>10, <1>11 DEF ArchiveIsComplete
<1>13. ResultsAreNumbered'
  BY <1>4, <1>5, RuntimeRowsAreSorted, HeadingsAreNumbered DEF ResultsAreNumbered
<1> QED BY <1>12, <1>13

(* An archive is never changed. *)
LEMMA ArchiveStays ==
  ASSUME EvaluationInv, UNCHANGED archive
  PROVE  ArchiveIsComplete' /\ ResultsAreNumbered'
BY DEF EvaluationInv, ArchiveIsComplete, ResultsAreNumbered

(* Every step keeps the invariant: commits, the scripts of the evaluation, *)
(* a kill in between, and the packaging.                                   *)
THEOREM EvaluationNextInv ==
  ASSUME EvaluationInv, [EvaluationNext]_evaluationVars
  PROVE  EvaluationInv'
<1>1. CASE Commit
  <2>1. PICK n \in DOMAIN manifest : manifest' = [manifest EXCEPT ![n].full = ~@]
    BY <1>1 DEF Commit
  <2>2. manifest' \in Seq(Entries)
    <3>1. /\ manifest \in Seq(Entries) /\ Len(manifest) \in Nat
          /\ DOMAIN manifest = 1 .. Len(manifest) /\ manifest[n] \in Entries
      BY DEF EvaluationInv
    <3> DEFINE e == [manifest[n] EXCEPT !.full = ~@]
    <3>2. e \in Entries
      BY <3>1 DEF Entries
    <3>3. manifest' = [manifest EXCEPT ![n] = e]
      BY <2>1
    <3> HIDE DEF e
    <3> QED BY <3>1, <3>2, <3>3
  <2>3. UNCHANGED <<security, runtime, p7c, det, csv, environment, archive, step>>
    BY <1>1 DEF Commit, outVars
  <2> QED BY <2>2, <2>3, ArchiveStays DEF EvaluationInv
<1>2. CASE StartEvaluation
  BY <1>2, ArchiveStays DEF StartEvaluation, EvaluationInv
<1>3. CASE RunP6
  <2>1. UNCHANGED <<manifest, det, csv, archive>> /\ step = "p6"
        /\ (runtime' = runtime \/ runtime' \in RuntimeFiles)
        /\ (step' = "" \/ (step' = "p7c" /\ security' = TRUE))
    BY <1>3 DEF RunP6
  <2> QED BY <2>1, ArchiveStays DEF EvaluationInv
<1>4. CASE ReportP7c
  BY <1>4, ArchiveStays DEF ReportP7c, EvaluationInv
<1>5. CASE BuildP8
  <2>1. /\ UNCHANGED <<manifest, security, runtime, csv, archive>>
        /\ det' = build(manifest, TRUE) /\ step = "p8" /\ step' = "csv"
    BY <1>5 DEF BuildP8, EvaluationInv
  <2> QED BY <2>1, ArchiveStays DEF EvaluationInv
<1>6. CASE WriteAutomation
  BY <1>6, ArchiveStays DEF WriteAutomation, EvaluationInv
<1>7. CASE WriteEnvironment
  BY <1>7, ArchiveStays DEF WriteEnvironment, EvaluationInv
<1>8. CASE Kill
  BY <1>8, ArchiveStays DEF Kill, EvaluationInv, outVars
<1>9. CASE Package
  <2>1. UNCHANGED <<manifest, security, runtime, det, csv, step>>
    BY <1>9 DEF Package, outVars
  <2> QED BY <1>9, <2>1, PackageIsComplete DEF EvaluationInv
<1>10. CASE UNCHANGED evaluationVars
  BY <1>10, ArchiveStays DEF EvaluationInv, evaluationVars, outVars
<1> QED BY <1>1, <1>2, <1>3, <1>4, <1>5, <1>6, <1>7, <1>8, <1>9, <1>10 DEF EvaluationNext

(* The evidence of a release is complete: whatever is committed, run again *)
(* or killed in between, an archive has the report of a complete manifest, *)
(* its table and numbered results (build_p8_report.py,                     *)
(* render_p8_results.py, package_release.sh).                              *)
THEOREM EvidenceIsAlwaysComplete == EvaluationSpec => []EvidenceIsComplete
<1>1. EvaluationInit => EvaluationInv
  BY EvaluationAssumption
     DEF EvaluationInit, EvaluationInv, ArchiveIsComplete, ResultsAreNumbered
<1>2. EvaluationInv /\ [EvaluationNext]_evaluationVars => EvaluationInv'
  BY EvaluationNextInv
<1>3. EvaluationInv => EvidenceIsComplete
  BY CompletionEarned, TestHelpersNeverCount DEF EvaluationInv, EvidenceIsComplete
<1> QED BY <1>1, <1>2, <1>3, PTL DEF EvaluationSpec

-----------------------------------------------------------------------------
(* Files of samples. *)

IsSample(s) ==
  /\ s = [workload |-> s.workload, mode |-> s.mode, repetition |-> s.repetition, ns |-> s.ns]
  /\ s.mode \in MODES /\ s.repetition \in Nat /\ s.ns \in Nat

(* What a CSV file of the measurement can hold. *)
IsFile(samples) ==
  /\ samples \in Seq(Range(samples))
  /\ \A n \in DOMAIN samples : IsSample(samples[n])

(* The numbers of the samples of a workload. *)
Own(samples, w) == {n \in DOMAIN samples : samples[n].workload = w}

(* A file has a finite number of lines. *)
LEMMA FileParts ==
  ASSUME NEW samples, IsFile(samples)
  PROVE  /\ Len(samples) \in Nat /\ DOMAIN samples = 1 .. Len(samples)
         /\ IsFiniteSet(DOMAIN samples)
<1> DEFINE T == Range(samples)
<1>1. samples \in Seq(T)
  BY DEF IsFile
<1> HIDE DEF T
<1>2. Len(samples) \in Nat /\ DOMAIN samples = 1 .. Len(samples)
  BY <1>1
<1> QED BY <1>2, FS_Interval

(* The repetitions of a workload are some numbers, and each has a sample.  *)
LEMMA RepetitionsAreNumbers ==
  ASSUME NEW samples, IsFile(samples), NEW w
  PROVE  /\ RepetitionsOf(samples, w) \in SUBSET Nat
         /\ IsFiniteSet(RepetitionsOf(samples, w))
         /\ Cardinality(RepetitionsOf(samples, w)) \in Nat
         /\ \A r \in RepetitionsOf(samples, w) :
              \E n \in DOMAIN samples :
                samples[n].workload = w /\ samples[n].repetition = r
         /\ \A n \in DOMAIN samples :
              samples[n].workload = w => samples[n].repetition \in RepetitionsOf(samples, w)
<1> DEFINE own == Own(samples, w)
           reps == RepetitionsOf(samples, w)
           f == [n \in own |-> samples[n].repetition]
<1>1. own \in SUBSET DOMAIN samples /\ IsFiniteSet(own)
  <2>1. own \in SUBSET DOMAIN samples
    BY DEF Own
  <2> QED BY <2>1, FileParts, FS_Subset
<1>2. reps = {samples[n].repetition : n \in own}
  BY DEF RepetitionsOf, Own
<1>3. \A n \in own : samples[n].repetition \in Nat
  BY <1>1 DEF IsFile, IsSample
<1>4. /\ f \in [own -> reps]
      /\ \A r \in reps : \E n \in own : f[n] = r
  <2> HIDE DEF reps, own
  <2> QED BY <1>2
<1>5. IsFiniteSet(reps)
  <2> HIDE DEF f, own, reps
  <2>1. f \in Surjection(own, reps)
    BY <1>4, Fun_IsSurj
  <2> QED BY <1>1, <2>1, FS_Surjection
<1>6. Cardinality(reps) \in Nat
  <2> HIDE DEF reps
  <2> QED BY <1>5, FS_CardinalityType
<1>7. reps \in SUBSET Nat
  <2> HIDE DEF reps, own
  <2> QED BY <1>2, <1>3
<1>8. ASSUME NEW n \in DOMAIN samples, samples[n].workload = w
      PROVE  samples[n].repetition \in reps
  BY <1>8, <1>2 DEF Own
<1>9. ASSUME NEW r \in reps
      PROVE  \E n \in DOMAIN samples : samples[n].workload = w /\ samples[n].repetition = r
  BY <1>2 DEF Own
<1> QED BY <1>5, <1>6, <1>7, <1>8, <1>9

(* The times of a workload in one mode: one for each of its samples.       *)
LEMMA TimesOfMode ==
  ASSUME NEW samples, IsFile(samples), NEW w, NEW m
  PROVE  /\ PlacesOf(samples, w, m) \in SUBSET DOMAIN samples
         /\ IsFiniteSet(PlacesOf(samples, w, m))
         /\ NsOf(samples, w, m) \in Seq(Nat)
         /\ Len(NsOf(samples, w, m)) = Cardinality(PlacesOf(samples, w, m))
         /\ NsOf(samples, w, m) =
              [k \in 1 .. Cardinality(PlacesOf(samples, w, m)) |->
                 samples[Nth(PlacesOf(samples, w, m), k)].ns]
<1> DEFINE times == [n \in DOMAIN samples |-> samples[n].ns]
           places == PlacesOf(samples, w, m)
           N == Len(samples)
<1>1. N \in Nat /\ DOMAIN samples = 1 .. N
  BY FileParts
<1>2. DOMAIN times = DOMAIN samples /\ \A n \in DOMAIN samples : times[n] = samples[n].ns
  OBVIOUS
<1>3. times \in Seq(Nat)
  <2>1. times \in [1 .. N -> Nat]
    BY <1>1 DEF IsFile, IsSample
  <2> HIDE DEF times, N
  <2> QED BY <1>1, <2>1, IsASeq
<1>4. places \in SUBSET DOMAIN samples
  BY DEF PlacesOf
<1>5. NsOf(samples, w, m) = Picked(times, places)
  BY DEF NsOf
<1> HIDE DEF times, places
<1>6. /\ IsFiniteSet(places) /\ Cardinality(places) \in Nat
      /\ Picked(times, places) \in Seq(Nat)
      /\ Len(Picked(times, places)) = Cardinality(places)
      /\ \A k \in 1 .. Cardinality(places) : Nth(places, k) \in places
  BY <1>2, <1>3, <1>4, PickedFinds
<1>7. Picked(times, places)
        = [k \in 1 .. Cardinality(places) |-> times[Nth(places, k)]]
  BY DEF Picked
<1>8. \A k \in 1 .. Cardinality(places) :
        times[Nth(places, k)] = samples[Nth(places, k)].ns
  BY <1>2, <1>4, <1>6
<1>9. Picked(times, places)
        = [k \in 1 .. Cardinality(places) |-> samples[Nth(places, k)].ns]
  BY <1>7, <1>8
<1> QED BY <1>4, <1>5, <1>6, <1>9 DEF places

(* A sample is found by its workload, repetition and mode. *)
LEMMA AtFinds ==
  ASSUME NEW samples, NoDuplicate(samples), NEW n \in DOMAIN samples,
         NEW w, NEW r, NEW m,
         samples[n].workload = w, samples[n].repetition = r, samples[n].mode = m
  PROVE  At(samples, w, r, m) = samples[n].ns
<1> DEFINE IsIt(k) == /\ samples[k].workload = w
                      /\ samples[k].repetition = r
                      /\ samples[k].mode = m
           it == CHOOSE k \in DOMAIN samples : IsIt(k)
<1>1. it \in DOMAIN samples /\ IsIt(it)
  <2>1. IsIt(n)
    OBVIOUS
  <2> HIDE DEF IsIt
  <2> QED BY <2>1
<1>2. it = n
  <2> HIDE DEF it
  <2> QED BY <1>1 DEF NoDuplicate
<1>3. At(samples, w, r, m) = samples[it].ns
  BY DEF At
<1> QED BY <1>2, <1>3

(* A whole repetition has a sample of each mode, and that is the one found.*)
LEMMA WholeHasAll ==
  ASSUME NEW samples, NoDuplicate(samples), NEW modes, Whole(samples, modes),
         NEW w \in WorkloadsOf(samples), NEW r \in RepetitionsOf(samples, w), NEW m \in modes
  PROVE  \E n \in DOMAIN samples :
           /\ samples[n].workload = w
           /\ samples[n].repetition = r
           /\ samples[n].mode = m
           /\ At(samples, w, r, m) = samples[n].ns
<1>1. m \in ModesAt(samples, w, r)
  BY DEF Whole
<1>2. PICK n \in DOMAIN samples :
        samples[n].workload = w /\ samples[n].repetition = r /\ samples[n].mode = m
  BY <1>1 DEF ModesAt
<1>3. At(samples, w, r, m) = samples[n].ns
  BY <1>2, AtFinds
<1> QED BY <1>2, <1>3

(* In a whole file a workload has one time in each mode for each of its    *)
(* repetitions, and has been repeated.                                     *)
LEMMA OneOfEachMode ==
  ASSUME NEW samples, IsFile(samples), NoDuplicate(samples),
         NEW modes, Whole(samples, modes),
         NEW w \in WorkloadsOf(samples), NEW m \in modes
  PROVE  /\ Len(NsOf(samples, w, m)) = Cardinality(RepetitionsOf(samples, w))
         /\ Cardinality(RepetitionsOf(samples, w)) \in Nat \ {0}
<1> DEFINE places == PlacesOf(samples, w, m)
           reps == RepetitionsOf(samples, w)
           f == [n \in places |-> samples[n].repetition]
<1>1. /\ IsFiniteSet(reps) /\ Cardinality(reps) \in Nat
      /\ \A n \in DOMAIN samples : samples[n].workload = w => samples[n].repetition \in reps
  BY RepetitionsAreNumbers
<1>2. /\ places \in SUBSET DOMAIN samples /\ IsFiniteSet(places)
      /\ Len(NsOf(samples, w, m)) = Cardinality(places)
  BY TimesOfMode
<1>3. \A n \in DOMAIN samples :
        n \in places <=> samples[n].workload = w /\ samples[n].mode = m
  BY DEF PlacesOf
<1>4. f \in [places -> reps] /\ \A n \in places : f[n] = samples[n].repetition
  <2> HIDE DEF places, reps
  <2> QED BY <1>1, <1>2, <1>3
<1>5. \A i, j \in places : f[i] = f[j] => i = j
  <2> HIDE DEF f, places
  <2> QED BY <1>2, <1>3, <1>4 DEF NoDuplicate
<1>6. \A r \in reps : \E n \in places : f[n] = r
  <2> SUFFICES ASSUME NEW r \in reps PROVE \E n \in places : f[n] = r
    OBVIOUS
  <2>1. PICK n \in DOMAIN samples :
          samples[n].workload = w /\ samples[n].repetition = r /\ samples[n].mode = m
    BY WholeHasAll
  <2> HIDE DEF f, places, reps
  <2> QED BY <1>3, <1>4, <2>1
<1>7. Cardinality(places) = Cardinality(reps)
  <2> HIDE DEF f, places, reps
  <2>1. f \in Injection(places, reps)
    BY <1>4, <1>5, Fun_IsInj
  <2>2. f \in Surjection(places, reps)
    BY <1>4, <1>6, Fun_IsSurj
  <2> QED BY <1>1, <2>1, <2>2, FS_Injection
<1>8. Cardinality(reps) # 0
  <2>1. PICK n \in DOMAIN samples : samples[n].workload = w
    BY DEF WorkloadsOf
  <2>2. reps # {}
    BY <1>1, <2>1
  <2> HIDE DEF reps
  <2> QED BY <1>1, <2>2, FS_EmptySet
<1> QED BY <1>1, <1>2, <1>7, <1>8

-----------------------------------------------------------------------------
(* Paired overheads. *)

(* There is one overhead for each repetition. *)
LEMMA OverheadsOfPairs ==
  ASSUME NEW samples, IsFile(samples), NEW w, NEW a, NEW b
  PROVE  Len(Paired(samples, w, a, b)) = Cardinality(RepetitionsOf(samples, w))
<1> DEFINE N == Cardinality(RepetitionsOf(samples, w))
           pairs == Paired(samples, w, a, b)
           T == {pairs[n] : n \in 1 .. N}
<1>1. N \in Nat
  BY RepetitionsAreNumbers
<1>2. DOMAIN pairs = 1 .. N /\ pairs = [n \in 1 .. N |-> pairs[n]]
  BY DEF Paired
<1>3. \A n \in 1 .. N : pairs[n] \in T
  OBVIOUS
<1> HIDE DEF N, pairs, T
<1>4. pairs \in [1 .. N -> T]
  BY <1>2, <1>3
<1> QED BY <1>1, <1>4, IsASeq DEF N, pairs

(* Overheads that are equal in each repetition are equal. *)
LEMMA SamePairs ==
  ASSUME NEW samples, IsFile(samples), NEW other, NEW w, NEW a, NEW b,
         RepetitionsOf(other, w) = RepetitionsOf(samples, w),
         \A r \in RepetitionsOf(samples, w) :
           overhead(At(other, w, r, a), At(other, w, r, b))
             = overhead(At(samples, w, r, a), At(samples, w, r, b))
  PROVE  Paired(other, w, a, b) = Paired(samples, w, a, b)
<1> DEFINE reps == RepetitionsOf(samples, w)
           N == Cardinality(reps)
           Of(s, r) == overhead(At(s, w, r, a), At(s, w, r, b))
<1>1. \A n \in 1 .. N : Nth(reps, n) \in reps
  <2>1. reps \in SUBSET Nat /\ IsFiniteSet(reps)
    BY RepetitionsAreNumbers
  <2> HIDE DEF reps
  <2> QED BY <2>1, NthFinds
<1>2. /\ Paired(samples, w, a, b) = [n \in 1 .. N |-> Of(samples, Nth(reps, n))]
      /\ Paired(other, w, a, b) = [n \in 1 .. N |-> Of(other, Nth(reps, n))]
  BY DEF Paired
<1>3. \A r \in reps : Of(other, r) = Of(samples, r)
  OBVIOUS
<1> HIDE DEF reps, N, Of
<1> QED BY <1>1, <1>2, <1>3

-----------------------------------------------------------------------------
(* The two tools for P8. *)

OfPair(samples) == \A n \in DOMAIN samples : samples[n].mode \in PAIR

(* They refuse the same files. *)
LEMMA RefusalsAgree ==
  ASSUME NEW samples, IsFile(samples), OfPair(samples)
  PROVE  p8_refuses(samples) <=> bench_refuses(samples)
<1> DEFINE zero == \E n \in DOMAIN samples :
                     samples[n].mode = "tracked_no_check" /\ samples[n].ns = 0
           parts == \E b \in WorkloadsOf(samples) :
                      \/ ModesOf(samples, b) # PAIR
                      \/ \E r \in RepetitionsOf(samples, b) : ModesAt(samples, b, r) # PAIR
           found == \E b \in WorkloadsOf(samples) : \E r \in RepetitionsOf(samples, b) :
                      At(samples, b, r, "tracked_no_check") = 0
<1>1. bench_refuses(samples) <=>
        samples = <<>> \/ ~NoDuplicate(samples) \/ parts \/ found
  BY DEF bench_refuses
<1>2. p8_refuses(samples) <=>
        samples = <<>> \/ ~NoDuplicate(samples) \/ ~Whole(samples, PAIR) \/ zero
  BY DEF p8_refuses, OfPair
<1>3. Whole(samples, PAIR) <=> ~parts
  <2>1. ASSUME NEW b \in WorkloadsOf(samples)
        PROVE  ModesOf(samples, b) = PAIR <=> \A m \in PAIR : PlacesOf(samples, b, m) # {}
    <3>1. \A m : m \in ModesOf(samples, b) <=> PlacesOf(samples, b, m) # {}
      BY DEF ModesOf, PlacesOf
    <3>2. ModesOf(samples, b) \subseteq PAIR
      BY DEF ModesOf, OfPair
    <3> QED BY <3>1, <3>2
  <2> QED BY <2>1 DEF Whole
<1>4. ASSUME NoDuplicate(samples), Whole(samples, PAIR)
      PROVE  zero <=> found
  <2>1. ASSUME zero PROVE found
    <3>1. PICK n \in DOMAIN samples :
            samples[n].mode = "tracked_no_check" /\ samples[n].ns = 0
      BY <2>1
    <3>2. At(samples, samples[n].workload, samples[n].repetition, "tracked_no_check") = 0
      BY <1>4, <3>1, AtFinds
    <3>3. /\ samples[n].workload \in WorkloadsOf(samples)
          /\ samples[n].repetition \in RepetitionsOf(samples, samples[n].workload)
      BY RepetitionsAreNumbers DEF WorkloadsOf
    <3> QED BY <3>2, <3>3
  <2>2. ASSUME found PROVE zero
    <3>1. PICK b \in WorkloadsOf(samples) : \E r \in RepetitionsOf(samples, b) :
                 At(samples, b, r, "tracked_no_check") = 0
      BY <2>2
    <3>2. PICK r \in RepetitionsOf(samples, b) : At(samples, b, r, "tracked_no_check") = 0
      BY <3>1
    <3>3. "tracked_no_check" \in PAIR
      BY DEF PAIR
    <3>4. PICK n \in DOMAIN samples :
            /\ samples[n].mode = "tracked_no_check"
            /\ At(samples, b, r, "tracked_no_check") = samples[n].ns
      BY <1>4, <3>3, WholeHasAll
    <3> QED BY <3>2, <3>4
  <2> QED BY <2>1, <2>2
<1> QED BY <1>1, <1>2, <1>3, <1>4

(* They agree on every file that has the two modes only. *)
LEMMA ToolsForP8Agree ==
  ASSUME NEW samples, IsFile(samples), OfPair(samples)
  PROVE  summarize_p8_application(samples) = summarize_p8_performance(samples)
<1>1. \A w : p8_row(samples, w) = bench_row(samples, w)
  <2> SUFFICES ASSUME NEW w PROVE p8_row(samples, w) = bench_row(samples, w)
    OBVIOUS
  <2>1. Len(Paired(samples, w, "extended_sp3", "tracked_no_check"))
          = Cardinality(RepetitionsOf(samples, w))
    BY OverheadsOfPairs
  <2> QED BY <2>1 DEF p8_row, bench_row
<1>2. [w \in WorkloadsOf(samples) |-> p8_row(samples, w)]
        = [b \in WorkloadsOf(samples) |-> bench_row(samples, b)]
  BY <1>1
<1> QED BY <1>2, RefusalsAgree DEF summarize_p8_application, summarize_p8_performance

-----------------------------------------------------------------------------
(* The derived file. *)

(* f enumerates N numbers in increasing order. *)
Increases(f, N) ==
  /\ f \in [1 .. N -> Nat]
  /\ \A k, l \in 1 .. N : k < l => f[k] < f[l]

Covers(f, g, N) == \A k \in 1 .. N : \E l \in 1 .. N : g[k] = f[l]

(* Where two enumerations agree so far, the second is not ahead. *)
LEMMA NotAhead ==
  ASSUME NEW N \in Nat, NEW f, NEW g, Increases(f, N), Increases(g, N), Covers(g, f, N),
         NEW k \in 1 .. N, \A l \in 1 .. N : l < k => f[l] = g[l]
  PROVE  ~(f[k] < g[k])
<1> SUFFICES ASSUME f[k] < g[k] PROVE FALSE
  OBVIOUS
<1>1. PICK l \in 1 .. N : f[k] = g[l]
  BY DEF Covers
<1>2. f[k] \in Nat /\ g[k] \in Nat /\ g[l] \in Nat
  BY DEF Increases
<1>3. CASE k < l
  <2>1. g[k] < g[l]
    BY <1>3 DEF Increases
  <2> QED BY <1>1, <1>2, <2>1
<1>4. CASE l < k
  <2>1. f[l] < f[k] /\ f[l] = g[l]
    BY <1>4 DEF Increases
  <2> QED BY <1>1, <1>2, <2>1
<1>5. CASE k = l
  BY <1>1, <1>2, <1>5
<1> QED BY <1>3, <1>4, <1>5

(* Two enumerations of the same numbers in increasing order are equal. *)
LEMMA OneIncreasingOrder ==
  ASSUME NEW N \in Nat, NEW f, NEW g, Increases(f, N), Increases(g, N),
         Covers(f, g, N), Covers(g, f, N)
  PROVE  f = g
<1> DEFINE differ == {k \in 1 .. N : f[k] # g[k]}
<1>1. f \in [1 .. N -> Nat] /\ g \in [1 .. N -> Nat]
  BY DEF Increases
<1>2. ASSUME differ # {} PROVE FALSE
  <2>1. PICK k \in differ : \A l \in differ : k <= l
    <3>1. differ \in SUBSET Nat
      OBVIOUS
    <3> HIDE DEF differ
    <3> QED BY <1>2, <3>1, LeastOf
  <2>2. k \in 1 .. N /\ f[k] # g[k]
    OBVIOUS
  <2>3. \A l \in 1 .. N : l < k => f[l] = g[l]
    BY <2>1, <2>2
  <2> HIDE DEF differ
  <2>4. ~(f[k] < g[k]) /\ ~(g[k] < f[k])
    BY <2>2, <2>3, NotAhead
  <2> QED BY <1>1, <2>2, <2>4
<1>3. \A k \in 1 .. N : f[k] = g[k]
  BY <1>2
<1> QED BY <1>1, <1>3

KeptNumbers(samples) == {n \in DOMAIN samples : samples[n].mode # "rlbox_only"}

(* Where line k of the derived file is in the file. *)
From(samples, k) == Nth(KeptNumbers(samples), k)

(* The derived file has the lines of the other two modes, in their order.  *)
LEMMA KeptLines ==
  ASSUME NEW samples, IsFile(samples)
  PROVE  LET kept == WithoutBaseline(samples) IN
         /\ IsFile(kept) /\ OfPair(kept)
         /\ \A k \in DOMAIN kept :
              From(samples, k) \in DOMAIN samples /\ kept[k] = samples[From(samples, k)]
         /\ \A n \in DOMAIN samples :
              samples[n].mode \in PAIR => \E k \in DOMAIN kept : From(samples, k) = n
         /\ \A k, l \in DOMAIN kept :
              k < l <=> From(samples, k) < From(samples, l)
<1> DEFINE kept == WithoutBaseline(samples)
           numbers == KeptNumbers(samples)
           T == Range(samples)
           U == Range(kept)
<1>1. samples \in Seq(T)
  BY DEF IsFile
<1>2. numbers \in SUBSET DOMAIN samples /\ kept = Picked(samples, numbers)
  BY DEF KeptNumbers, WithoutBaseline
<1> HIDE DEF T
<1>3. /\ Cardinality(numbers) \in Nat
      /\ kept \in Seq(T) /\ Len(kept) = Cardinality(numbers)
      /\ \A k \in 1 .. Cardinality(numbers) :
           Nth(numbers, k) \in numbers /\ kept[k] = samples[Nth(numbers, k)]
      /\ \A n \in numbers : \E k \in 1 .. Cardinality(numbers) : Nth(numbers, k) = n
      /\ \A k, l \in 1 .. Cardinality(numbers) :
           k < l <=> Nth(numbers, k) < Nth(numbers, l)
  <2> HIDE DEF kept, numbers
  <2> QED BY <1>1, <1>2, PickedFinds
<1>4. DOMAIN kept = 1 .. Cardinality(numbers)
  <2> HIDE DEF kept, numbers
  <2> QED BY <1>3
<1>5. \A n \in DOMAIN samples : n \in numbers <=> samples[n].mode \in PAIR
  BY DEF KeptNumbers, IsFile, IsSample, MODES, PAIR
<1>6. \A k \in DOMAIN kept :
        Nth(numbers, k) \in DOMAIN samples /\ kept[k] = samples[Nth(numbers, k)]
          /\ kept[k].mode \in PAIR
  <2> HIDE DEF kept, numbers
  <2> QED BY <1>2, <1>3, <1>4, <1>5
<1>7. IsFile(kept)
  <2>1. \A k \in DOMAIN kept : kept[k] \in U
    BY DEF Range
  <2>2. kept = [k \in 1 .. Cardinality(numbers) |-> kept[k]]
    BY DEF WithoutBaseline, Picked, KeptNumbers
  <2>3. \A k \in DOMAIN kept : IsSample(kept[k])
    <3> HIDE DEF kept, numbers
    <3> QED BY <1>6 DEF IsFile
  <2>4. kept \in Seq(U)
    <3> HIDE DEF kept, numbers, U
    <3> QED BY <1>3, <1>4, <2>1, <2>2, IsASeq
  <2> QED BY <2>3, <2>4 DEF IsFile
<1>8. OfPair(kept)
  <2> HIDE DEF kept, numbers
  <2> QED BY <1>6 DEF OfPair
<1> HIDE DEF kept
<1> QED BY <1>3, <1>4, <1>5, <1>6, <1>7, <1>8 DEF From, kept

Keeps(samples, kept) ==
  /\ IsFile(samples) /\ IsFile(kept) /\ OfPair(kept)
  /\ \A k \in DOMAIN kept :
       From(samples, k) \in DOMAIN samples /\ kept[k] = samples[From(samples, k)]
  /\ \A n \in DOMAIN samples :
       samples[n].mode \in PAIR => \E k \in DOMAIN kept : From(samples, k) = n
  /\ \A k, l \in DOMAIN kept : k < l <=> From(samples, k) < From(samples, l)

(* The times of the two modes stay, in their order. *)
LEMMA TimesAreKept ==
  ASSUME NEW samples, NEW kept, Keeps(samples, kept), NEW w, NEW m \in PAIR
  PROVE  NsOf(kept, w, m) = NsOf(samples, w, m)
<1> DEFINE P == PlacesOf(samples, w, m)
           Q == PlacesOf(kept, w, m)
           M == Cardinality(P)
           f == [k \in Q |-> From(samples, k)]
           g == [k \in 1 .. M |-> From(samples, Nth(Q, k))]
           h == [k \in 1 .. M |-> Nth(P, k)]
<1>1. /\ P \in SUBSET DOMAIN samples /\ IsFiniteSet(P)
      /\ NsOf(samples, w, m) = [k \in 1 .. M |-> samples[Nth(P, k)].ns]
      /\ Q \in SUBSET DOMAIN kept /\ IsFiniteSet(Q)
      /\ NsOf(kept, w, m) = [k \in 1 .. Cardinality(Q) |-> kept[Nth(Q, k)].ns]
  BY TimesOfMode DEF Keeps
<1>2. P \in SUBSET Nat /\ Q \in SUBSET Nat /\ DOMAIN kept \in SUBSET Nat
  <2>1. DOMAIN samples = 1 .. Len(samples) /\ DOMAIN kept = 1 .. Len(kept)
        /\ Len(samples) \in Nat /\ Len(kept) \in Nat
    BY FileParts DEF Keeps
  <2> HIDE DEF P, Q
  <2> QED BY <1>1, <2>1
<1>3. \A k \in DOMAIN kept : k \in Q <=> From(samples, k) \in P
  BY DEF Keeps, PlacesOf
<1>4. \A n \in P : \E k \in Q : From(samples, k) = n
  <2>1. \A n \in P : n \in DOMAIN samples /\ samples[n].mode \in PAIR
    BY DEF PlacesOf
  <2> HIDE DEF P, Q
  <2> QED BY <1>3, <2>1 DEF Keeps
<1>5. Cardinality(Q) = M
  <2>1. f \in [Q -> P] /\ \A k \in Q : f[k] = From(samples, k)
    <3> HIDE DEF P, Q
    <3> QED BY <1>1, <1>3
  <2>2. \A k, l \in Q : f[k] = f[l] => k = l
    <3> SUFFICES ASSUME NEW k \in Q, NEW l \in Q, f[k] = f[l] PROVE k = l
      OBVIOUS
    <3>1. k \in DOMAIN kept /\ l \in DOMAIN kept /\ k \in Nat /\ l \in Nat
      BY <1>1, <1>2
    <3>2. From(samples, k) = From(samples, l) /\ From(samples, k) \in P
      BY <2>1, <3>1, <1>3
    <3>3. From(samples, k) \in Nat
      BY <1>2, <3>2
    <3>4. (k < l <=> From(samples, k) < From(samples, l))
          /\ (l < k <=> From(samples, l) < From(samples, k))
      BY <3>1 DEF Keeps
    <3> QED BY <3>1, <3>2, <3>3, <3>4
  <2>3. \A n \in P : \E k \in Q : f[k] = n
    BY <1>4, <2>1
  <2> HIDE DEF f, P, Q
  <2>4. f \in Injection(Q, P) /\ f \in Surjection(Q, P)
    BY <2>1, <2>2, <2>3, Fun_IsInj, Fun_IsSurj
  <2> QED BY <1>1, <2>4, FS_Injection DEF M
<1>6. /\ M \in Nat
      /\ \A k \in 1 .. M : Nth(P, k) \in P /\ Nth(Q, k) \in Q
      /\ \A n \in P : \E k \in 1 .. M : Nth(P, k) = n
      /\ \A n \in Q : \E k \in 1 .. M : Nth(Q, k) = n
      /\ \A k, l \in 1 .. M : k < l <=> Nth(P, k) < Nth(P, l)
      /\ \A k, l \in 1 .. M : k < l <=> Nth(Q, k) < Nth(Q, l)
  <2> HIDE DEF P, Q
  <2>1. /\ M \in Nat
        /\ \A k \in 1 .. M : Nth(P, k) \in P
        /\ \A n \in P : \E k \in 1 .. M : Nth(P, k) = n
        /\ \A k, l \in 1 .. M : k < l <=> Nth(P, k) < Nth(P, l)
    BY <1>1, <1>2, NthFinds
  <2> HIDE DEF M
  <2>2. /\ \A k \in 1 .. M : Nth(Q, k) \in Q
        /\ \A n \in Q : \E k \in 1 .. M : Nth(Q, k) = n
        /\ \A k, l \in 1 .. M : k < l <=> Nth(Q, k) < Nth(Q, l)
    BY <1>1, <1>2, <1>5, NthFinds
  <2> QED BY <2>1, <2>2
<1> HIDE DEF P, Q, M, f
<1>7. /\ g \in [1 .. M -> Nat] /\ h \in [1 .. M -> Nat]
      /\ \A k \in 1 .. M : g[k] = From(samples, Nth(Q, k)) /\ h[k] = Nth(P, k)
  BY <1>1, <1>2, <1>3, <1>6
<1> HIDE DEF g, h
<1>8. g = h
  <2>1. ASSUME NEW k \in 1 .. M, NEW l \in 1 .. M, k < l
        PROVE  g[k] < g[l] /\ h[k] < h[l]
    <3>1. Nth(Q, k) < Nth(Q, l) /\ Nth(P, k) < Nth(P, l)
      BY <1>6, <2>1
    <3>2. Nth(Q, k) \in DOMAIN kept /\ Nth(Q, l) \in DOMAIN kept
      BY <1>1, <1>6
    <3>3. From(samples, Nth(Q, k)) < From(samples, Nth(Q, l))
      BY <3>1, <3>2 DEF Keeps
    <3> QED BY <1>7, <3>1, <3>3
  <2>2. ASSUME NEW k \in 1 .. M PROVE \E l \in 1 .. M : g[k] = h[l]
    <3>1. From(samples, Nth(Q, k)) \in P
      BY <1>1, <1>3, <1>6
    <3> QED BY <1>6, <1>7, <3>1
  <2>3. ASSUME NEW k \in 1 .. M PROVE \E l \in 1 .. M : h[k] = g[l]
    <3>1. PICK n \in Q : From(samples, n) = Nth(P, k)
      BY <1>4, <1>6
    <3> QED BY <1>6, <1>7, <3>1
  <2>4. Increases(g, M) /\ Increases(h, M)
    BY <1>7, <2>1 DEF Increases
  <2>5. Covers(h, g, M) /\ Covers(g, h, M)
    BY <2>2, <2>3 DEF Covers
  <2> QED BY <1>6, <2>4, <2>5, OneIncreasingOrder
<1>9. \A k \in 1 .. M : kept[Nth(Q, k)].ns = samples[Nth(P, k)].ns
  <2> SUFFICES ASSUME NEW k \in 1 .. M
               PROVE  kept[Nth(Q, k)].ns = samples[Nth(P, k)].ns
    OBVIOUS
  <2>1. Nth(Q, k) \in DOMAIN kept
    BY <1>1, <1>6
  <2>2. kept[Nth(Q, k)] = samples[g[k]]
    BY <1>7, <2>1 DEF Keeps
  <2> QED BY <1>7, <1>8, <2>2
<1> QED BY <1>1, <1>5, <1>9

(* What is left of a whole file is whole, with the same repetitions. *)
LEMMA KeptIsWhole ==
  ASSUME NEW samples, NEW kept, Keeps(samples, kept),
         NoDuplicate(samples), Whole(samples, MODES)
  PROVE  /\ NoDuplicate(kept) /\ Whole(kept, PAIR)
         /\ WorkloadsOf(kept) = WorkloadsOf(samples)
         /\ \A w \in WorkloadsOf(samples) :
              /\ RepetitionsOf(kept, w) = RepetitionsOf(samples, w)
              /\ \A r \in RepetitionsOf(samples, w), m \in PAIR :
                   At(kept, w, r, m) = At(samples, w, r, m)
<1>1. ASSUME NEW n \in DOMAIN samples, samples[n].mode \in PAIR
      PROVE  \E k \in DOMAIN kept : kept[k] = samples[n]
  BY <1>1 DEF Keeps
<1>2. ASSUME NEW w \in WorkloadsOf(samples), NEW r \in RepetitionsOf(samples, w),
             NEW m \in PAIR
      PROVE  \E k \in DOMAIN kept :
               /\ kept[k].workload = w /\ kept[k].repetition = r /\ kept[k].mode = m
               /\ At(samples, w, r, m) = kept[k].ns
  <2>1. m \in MODES
    BY DEF MODES, PAIR
  <2>2. PICK n \in DOMAIN samples :
          /\ samples[n].workload = w
          /\ samples[n].repetition = r
          /\ samples[n].mode = m
          /\ At(samples, w, r, m) = samples[n].ns
    BY <2>1, WholeHasAll
  <2> QED BY <1>1, <2>2
<1>3. \A k \in DOMAIN kept :
        From(samples, k) \in DOMAIN samples /\ kept[k] = samples[From(samples, k)]
  BY DEF Keeps
<1>4. NoDuplicate(kept)
  <2> SUFFICES ASSUME NEW i \in DOMAIN kept, NEW j \in DOMAIN kept,
                      kept[i].workload = kept[j].workload,
                      kept[i].mode = kept[j].mode,
                      kept[i].repetition = kept[j].repetition
               PROVE  i = j
    BY DEF NoDuplicate
  <2>1. From(samples, i) = From(samples, j)
    BY <1>3 DEF NoDuplicate
  <2>2. /\ i < j <=> From(samples, i) < From(samples, j)
        /\ j < i <=> From(samples, j) < From(samples, i)
    BY DEF Keeps
  <2>3. i \in Nat /\ j \in Nat /\ From(samples, i) \in Nat
    <3>1. /\ DOMAIN kept = 1 .. Len(kept) /\ Len(kept) \in Nat
          /\ DOMAIN samples = 1 .. Len(samples) /\ Len(samples) \in Nat
      BY FileParts DEF Keeps
    <3> QED BY <1>3, <3>1
  <2> QED BY <2>1, <2>2, <2>3
<1>5. \A k \in DOMAIN kept :
        /\ kept[k].workload \in WorkloadsOf(samples)
        /\ kept[k].repetition \in RepetitionsOf(samples, kept[k].workload)
        /\ kept[k].mode \in PAIR
  <2> SUFFICES ASSUME NEW k \in DOMAIN kept
               PROVE  /\ kept[k].workload \in WorkloadsOf(samples)
                      /\ kept[k].repetition \in RepetitionsOf(samples, kept[k].workload)
                      /\ kept[k].mode \in PAIR
    OBVIOUS
  <2>1. kept[k].mode \in PAIR
    BY DEF Keeps, OfPair
  <2> QED BY <1>3, <2>1 DEF WorkloadsOf, RepetitionsOf
<1>6. \A w \in WorkloadsOf(samples) : \E r : r \in RepetitionsOf(samples, w)
  <2> SUFFICES ASSUME NEW w \in WorkloadsOf(samples)
               PROVE  \E r : r \in RepetitionsOf(samples, w)
    OBVIOUS
  <2>1. PICK n \in DOMAIN samples : samples[n].workload = w
    BY DEF WorkloadsOf
  <2>2. samples[n].repetition \in RepetitionsOf(samples, w)
    BY <2>1 DEF RepetitionsOf
  <2> QED BY <2>2
<1>7. "extended_sp3" \in PAIR
  BY DEF PAIR
<1>8. WorkloadsOf(kept) = WorkloadsOf(samples)
  <2>1. ASSUME NEW w \in WorkloadsOf(samples) PROVE w \in WorkloadsOf(kept)
    <3>1. PICK r : r \in RepetitionsOf(samples, w)
      BY <1>6
    <3>2. PICK k \in DOMAIN kept : kept[k].workload = w
      BY <1>2, <1>7, <3>1
    <3> QED BY <3>2 DEF WorkloadsOf
  <2>2. ASSUME NEW w \in WorkloadsOf(kept) PROVE w \in WorkloadsOf(samples)
    <3>1. PICK k \in DOMAIN kept : kept[k].workload = w
      BY DEF WorkloadsOf
    <3> QED BY <1>5, <3>1
  <2> QED BY <2>1, <2>2
<1>9. ASSUME NEW w \in WorkloadsOf(samples)
      PROVE  RepetitionsOf(kept, w) = RepetitionsOf(samples, w)
  <2>1. ASSUME NEW r \in RepetitionsOf(samples, w) PROVE r \in RepetitionsOf(kept, w)
    <3>1. PICK k \in DOMAIN kept : kept[k].workload = w /\ kept[k].repetition = r
      BY <1>2, <1>7
    <3> QED BY <3>1 DEF RepetitionsOf
  <2>2. ASSUME NEW r \in RepetitionsOf(kept, w) PROVE r \in RepetitionsOf(samples, w)
    <3>1. PICK k \in DOMAIN kept : kept[k].workload = w /\ kept[k].repetition = r
      BY DEF RepetitionsOf
    <3> QED BY <1>5, <3>1
  <2> QED BY <2>1, <2>2
<1>10. ASSUME NEW w \in WorkloadsOf(samples), NEW r \in RepetitionsOf(samples, w),
              NEW m \in PAIR
       PROVE  At(kept, w, r, m) = At(samples, w, r, m)
  <2>1. PICK k \in DOMAIN kept :
          /\ kept[k].workload = w /\ kept[k].repetition = r /\ kept[k].mode = m
          /\ At(samples, w, r, m) = kept[k].ns
    BY <1>2
  <2> QED BY <1>4, <2>1, AtFinds
<1>11. Whole(kept, PAIR)
  <2>1. ASSUME NEW w \in WorkloadsOf(kept), NEW m \in PAIR PROVE PlacesOf(kept, w, m) # {}
    <3>1. w \in WorkloadsOf(samples)
      BY <1>8
    <3>2. PICK r : r \in RepetitionsOf(samples, w)
      BY <1>6, <3>1
    <3>3. PICK k \in DOMAIN kept : kept[k].workload = w /\ kept[k].mode = m
      BY <1>2, <3>1, <3>2
    <3> QED BY <3>3 DEF PlacesOf
  <2>2. ASSUME NEW w \in WorkloadsOf(kept), NEW r \in RepetitionsOf(kept, w)
        PROVE  ModesAt(kept, w, r) = PAIR
    <3>1. w \in WorkloadsOf(samples) /\ r \in RepetitionsOf(samples, w)
      BY <1>8, <1>9
    <3>2. ASSUME NEW m \in PAIR PROVE m \in ModesAt(kept, w, r)
      <4>1. PICK k \in DOMAIN kept :
              kept[k].workload = w /\ kept[k].repetition = r /\ kept[k].mode = m
        BY <1>2, <3>1
      <4> QED BY <4>1 DEF ModesAt
    <3>3. ModesAt(kept, w, r) \subseteq PAIR
      BY <1>5 DEF ModesAt
    <3> QED BY <3>2, <3>3
  <2> QED BY <2>1, <2>2 DEF Whole
<1> QED BY <1>4, <1>8, <1>9, <1>10, <1>11

(* The summary for P8 of the derived file says what that for P9a says.     *)
LEMMA SummariesAgree ==
  ASSUME NEW samples, IsFile(samples), ~p9a_refuses(samples)
  PROVE  LET kept == WithoutBaseline(samples) IN
         /\ ~p8_refuses(kept)
         /\ WorkloadsOf(kept) = WorkloadsOf(samples)
         /\ \A w \in WorkloadsOf(samples) :
              /\ p8_row(kept, w).repetitions = p9a_row(samples, w).repetitions
              /\ p8_row(kept, w).baseline = p9a_row(samples, w).tracked
              /\ p8_row(kept, w).extended = p9a_row(samples, w).extended
              /\ p8_row(kept, w).paired = p9a_row(samples, w).validation
<1> DEFINE kept == WithoutBaseline(samples)
<1>1. Keeps(samples, kept)
  BY KeptLines DEF Keeps
<1>2. /\ samples # <<>> /\ NoDuplicate(samples) /\ Whole(samples, MODES)
      /\ \A n \in DOMAIN samples : samples[n].mode # "extended_sp3" => ~(samples[n].ns <= 0)
  BY DEF p9a_refuses
<1> HIDE DEF kept
<1>3. /\ NoDuplicate(kept) /\ Whole(kept, PAIR)
      /\ WorkloadsOf(kept) = WorkloadsOf(samples)
      /\ \A w \in WorkloadsOf(samples) :
           /\ RepetitionsOf(kept, w) = RepetitionsOf(samples, w)
           /\ \A r \in RepetitionsOf(samples, w), m \in PAIR :
                At(kept, w, r, m) = At(samples, w, r, m)
  BY <1>1, <1>2, KeptIsWhole
<1>4. "extended_sp3" \in PAIR /\ "tracked_no_check" \in PAIR
  BY DEF PAIR
<1>5. ~p8_refuses(kept)
  <2>1. kept # <<>>
    <3>1. Len(samples) \in Nat /\ DOMAIN samples = 1 .. Len(samples)
      BY FileParts
    <3>2. samples \in Seq(Range(samples))
      BY DEF IsFile
    <3>3. Len(samples) # 0
      BY <1>2, <3>2, EmptySeq
    <3>4. 1 \in DOMAIN samples
      BY <3>1, <3>3
    <3>5. samples[1].workload \in WorkloadsOf(kept)
      BY <1>3, <3>4 DEF WorkloadsOf
    <3>6. PICK k \in DOMAIN kept : TRUE
      BY <3>5 DEF WorkloadsOf
    <3> QED BY <3>6
  <2>2. \A n \in DOMAIN kept : kept[n].mode \in PAIR
    BY <1>1 DEF Keeps, OfPair
  <2>3. ASSUME NEW n \in DOMAIN kept, kept[n].mode = "tracked_no_check", kept[n].ns = 0
        PROVE  FALSE
    <3>1. From(samples, n) \in DOMAIN samples /\ kept[n] = samples[From(samples, n)]
      BY <1>1 DEF Keeps
    <3> QED BY <1>2, <2>3, <3>1
  <2> QED BY <1>3, <2>1, <2>2, <2>3 DEF p8_refuses
<1>6. ASSUME NEW w \in WorkloadsOf(samples)
      PROVE  /\ p8_row(kept, w).repetitions = p9a_row(samples, w).repetitions
             /\ p8_row(kept, w).baseline = p9a_row(samples, w).tracked
             /\ p8_row(kept, w).extended = p9a_row(samples, w).extended
             /\ p8_row(kept, w).paired = p9a_row(samples, w).validation
  <2>1. /\ NsOf(kept, w, "tracked_no_check") = NsOf(samples, w, "tracked_no_check")
        /\ NsOf(kept, w, "extended_sp3") = NsOf(samples, w, "extended_sp3")
    BY <1>1, <1>4, TimesAreKept
  <2>2. RepetitionsOf(kept, w) = RepetitionsOf(samples, w)
    BY <1>3
  <2>3. \A r \in RepetitionsOf(samples, w) :
          overhead(At(kept, w, r, "extended_sp3"), At(kept, w, r, "tracked_no_check"))
            = overhead(At(samples, w, r, "extended_sp3"), At(samples, w, r, "tracked_no_check"))
    BY <1>3, <1>4
  <2>4. Paired(kept, w, "extended_sp3", "tracked_no_check")
          = Paired(samples, w, "extended_sp3", "tracked_no_check")
    BY <2>2, <2>3, SamePairs
  <2> QED BY <2>1, <2>2, <2>4 DEF p8_row, p9a_row
<1> QED BY <1>3, <1>5, <1>6 DEF kept

-----------------------------------------------------------------------------
(* Arithmetic. *)

(* Division with remainder. *)
LEMMA DivisionOf ==
  ASSUME NEW n \in Nat, NEW d \in Nat, d > 0
  PROVE  /\ n \div d \in Nat /\ n % d \in 0 .. (d - 1) /\ n = d * (n \div d) + (n % d)
OBVIOUS

(* There is one quotient and one remainder. *)
LEMMA DivisionIsUnique ==
  ASSUME NEW n \in Nat, NEW d \in Nat, d > 0,
         NEW q \in Nat, NEW r \in 0 .. (d - 1), n = d * q + r
  PROVE  /\ n \div d = q /\ n % d = r
<1>1. n \div d \in Nat /\ n % d \in 0 .. (d - 1) /\ n = d * (n \div d) + (n % d)
  BY DivisionOf
<1>2. ASSUME NEW p \in Nat, NEW s \in 0 .. (d - 1), n = d * p + s
      PROVE  p = q /\ s = r
  <2>1. CASE p < q
    <3>1. d * (q - p - 1) >= 0
      BY <2>1
    <3>2. d * (q - p - 1) = d * q - d * p - d
      OBVIOUS
    <3> QED BY <1>2, <3>1, <3>2
  <2>2. CASE q < p
    <3>1. d * (p - q - 1) >= 0
      BY <2>2
    <3>2. d * (p - q - 1) = d * p - d * q - d
      OBVIOUS
    <3> QED BY <1>2, <3>1, <3>2
  <2>3. CASE p = q
    BY <1>2, <2>3
  <2> QED BY <2>1, <2>2, <2>3
<1> QED BY <1>1, <1>2

(* A factor common to both times does not change an overhead. *)
LEMMA SlowerByTwo ==
  ASSUME NEW a \in Nat, NEW b \in Nat, b > 0
  PROVE  (100 * (2 * a)) \div (2 * b) = (100 * a) \div b
<1> DEFINE q == (100 * a) \div b
           r == (100 * a) % b
<1>1. 100 * a \in Nat /\ q \in Nat /\ r \in 0 .. (b - 1) /\ 100 * a = b * q + r
  BY DivisionOf
<1> HIDE DEF q, r
<1>2. (2 * b) * q = 2 * (b * q)
  BY <1>1
<1>3. /\ 100 * (2 * a) \in Nat /\ 2 * b \in Nat /\ 2 * b > 0
      /\ 2 * r \in 0 .. (2 * b - 1) 
  BY <1>1
<1>4. 100 * (2 * a) = (2 * b) * q + 2 * r
  BY <1>1, <1>2
<1>5. (100 * (2 * a)) \div (2 * b) = q
  BY <1>1, <1>3, <1>4, DivisionIsUnique
<1> QED BY <1>5 DEF q

(* A percentage without remainder. *)
LEMMA ExactOverhead ==
  ASSUME NEW a \in Nat, NEW b \in Nat, b > 0, (100 * a) % b = 0
  PROVE  (100 * a) \div b \in Nat /\ ((100 * a) \div b) * b = 100 * a
<1>1. /\ 100 * a \in Nat /\ (100 * a) \div b \in Nat
      /\ 100 * a = b * ((100 * a) \div b) + ((100 * a) % b)
  BY DivisionOf
<1> QED BY <1>1

(* Tracked over baseline, times extended over tracked, is extended over    *)
(* baseline.                                                               *)
LEMMA RatiosMultiply ==
  ASSUME NEW R \in Nat, NEW T \in Nat, NEW E \in Nat, R > 0, T > 0,
         NEW x \in Nat, NEW y \in Nat, NEW z \in Nat,
         x * R = 100 * T, y * T = 100 * E, z * R = 100 * E
  PROVE  x * y = 100 * z
<1>1. (x * y) * R = (x * R) * y
  OBVIOUS
<1>2. (x * R) * y = 100 * (y * T)
  OBVIOUS
<1>3. (x * y) * R = (100 * z) * R
  BY <1>1, <1>2
<1>4. ((x * y) - (100 * z)) * R = 0
  BY <1>3
<1> DEFINE d == (x * y) - (100 * z)
<1>5. d \in Int /\ d * R = 0
  BY <1>4
<1>6. d = 0
  <2> HIDE DEF d
  <2>1. ASSUME d > 0 PROVE FALSE
    <3>1. d * R > 0
      BY <1>5, <2>1
    <3> QED BY <1>5, <3>1
  <2>2. ASSUME d < 0 PROVE FALSE
    <3>1. (-d) * R > 0
      BY <1>5, <2>2
    <3>2. (-d) * R = -(d * R)
      BY <1>5
    <3> QED BY <1>5, <3>1, <3>2
  <2> QED BY <1>5, <2>1, <2>2
<1> QED BY <1>6 DEF d

(* The same for the medians that a summary of one repetition has. *)
LEMMA DoubledMedians ==
  ASSUME NEW x \in Nat, NEW y \in Nat, NEW z \in Nat, x * y = 100 * z
  PROVE  (200 + ((x - 100) + (x - 100))) * (200 + ((y - 100) + (y - 100)))
           = 200 * (200 + ((z - 100) + (z - 100)))
<1>1. /\ 200 + ((x - 100) + (x - 100)) = 2 * x
      /\ 200 + ((y - 100) + (y - 100)) = 2 * y
      /\ 200 + ((z - 100) + (z - 100)) = 2 * z
  OBVIOUS
<1>2. (2 * x) * (2 * y) = 4 * (x * y)
  OBVIOUS
<1> QED BY <1>1, <1>2

(* The place n of the stream as workload, repetition and place in its      *)
(* order.                                                                  *)
LEMMA PlaceOfSample ==
  ASSUME NEW W \in Nat, NEW R \in Nat, R > 0, NEW n \in 0 .. (3 * R * W - 1)
  PROVE  /\ n \div 3 \in Nat /\ n % 3 \in 0 .. 2
        /\ (n \div 3) \div R \in 0 .. (W - 1)
        /\ (n \div 3) % R \in 0 .. (R - 1)
        /\ n = 3 * (R * ((n \div 3) \div R) + ((n \div 3) % R)) + (n % 3)
<1> DEFINE k == n \div 3
           i == k \div R
<1>1. k \in Nat /\ n % 3 \in 0 .. 2 /\ n = 3 * k + (n % 3)
  OBVIOUS
<1> HIDE DEF k
<1>2. i \in Nat /\ k % R \in 0 .. (R - 1) /\ k = R * i + (k % R)
  BY <1>1, DivisionOf
<1> HIDE DEF i
<1>3. i < W
  <2>1. ASSUME i >= W PROVE FALSE
    <3>1. R * (i - W) >= 0
      BY <1>2, <2>1
    <3>2. R * (i - W) = R * i - R * W
      BY <1>2
    <3>3. R * i >= R * W
      BY <1>2, <3>1, <3>2
    <3>4. k >= R * W
      BY <1>2, <3>3
    <3>5. 3 * R * W = 3 * (R * W)
      OBVIOUS
    <3> QED BY <1>1, <3>4, <3>5
  <2> QED BY <1>2, <2>1
<1> QED BY <1>1, <1>2, <1>3 DEF k, i

(* The place of a workload, repetition and place in the order. *)
LEMMA SampleAtPlace ==
  ASSUME NEW W \in Nat, NEW R \in Nat, R > 0,
         NEW i \in 0 .. (W - 1), NEW r \in 0 .. (R - 1), NEW j \in 0 .. 2
  PROVE  LET n == 3 * (R * i + r) + j IN
        /\ n \in 0 .. (3 * R * W - 1)
        /\ n \div 3 = R * i + r /\ n % 3 = j
        /\ (n \div 3) \div R = i /\ (n \div 3) % R = r
<1> DEFINE k == R * i + r
           n == 3 * k + j
<1>1. R * i \in Nat
  OBVIOUS
<1>2. k \in Nat /\ n \in Nat
  BY <1>1
<1>3. k \div R = i /\ k % R = r
  BY <1>2, DivisionIsUnique
<1>4. R * (W - 1 - i) >= 0 /\ R * (W - 1 - i) = R * W - R - R * i
  OBVIOUS
<1>5. k < R * W
  BY <1>1, <1>4
<1> HIDE DEF k
<1>6. n \div 3 = k /\ n % 3 = j
  BY <1>2
<1>7. 3 * R * W = 3 * (R * W)
  OBVIOUS
<1>8. n < 3 * R * W
  BY <1>2, <1>5, <1>7
<1> QED BY <1>2, <1>3, <1>6, <1>8 DEF k

-----------------------------------------------------------------------------
(* A machine that is slower for one repetition. *)

(* A slower repetition changes times of its own only, and doubles them.    *)
LEMMA SlowerLines ==
  ASSUME NEW samples, IsFile(samples), NEW w, NEW r
  PROVE  LET slower == Slower(samples, w, r) IN
         /\ DOMAIN slower = DOMAIN samples
         /\ \A n \in DOMAIN samples :
              /\ slower[n].workload = samples[n].workload
              /\ slower[n].mode = samples[n].mode
              /\ slower[n].repetition = samples[n].repetition
              /\ slower[n].ns =
                   IF samples[n].workload = w /\ samples[n].repetition = r
                   THEN 2 * samples[n].ns ELSE samples[n].ns
<1> DEFINE slower == Slower(samples, w, r)
<1>1. DOMAIN slower = DOMAIN samples
  BY DEF Slower
<1>2. ASSUME NEW n \in DOMAIN samples
      PROVE  /\ slower[n].workload = samples[n].workload
             /\ slower[n].mode = samples[n].mode
             /\ slower[n].repetition = samples[n].repetition
             /\ slower[n].ns =
                  IF samples[n].workload = w /\ samples[n].repetition = r
                  THEN 2 * samples[n].ns ELSE samples[n].ns
  <2> DEFINE s == samples[n]
  <2>1. s = [workload |-> s.workload, mode |-> s.mode,
             repetition |-> s.repetition, ns |-> s.ns]
    BY DEF IsFile, IsSample
  <2>2. slower[n] = IF s.workload = w /\ s.repetition = r
                    THEN [s EXCEPT !.ns = 2 * @] ELSE s
    BY DEF Slower
  <2> HIDE DEF s, slower
  <2>3. CASE s.workload = w /\ s.repetition = r
    <3>1. slower[n] = [s EXCEPT !.ns = 2 * s.ns]
      BY <2>2, <2>3
    <3>2. slower[n] = [workload |-> s.workload, mode |-> s.mode,
                       repetition |-> s.repetition, ns |-> 2 * s.ns]
      BY <2>1, <3>1
    <3> QED BY <2>3, <3>2 DEF s
  <2>4. CASE ~(s.workload = w /\ s.repetition = r)
    BY <2>2, <2>4 DEF s
  <2> QED BY <2>3, <2>4
<1> QED BY <1>1, <1>2

(* A file with other times in it: what does not look at times is as before.*)
SameLines(other, samples) ==
  /\ DOMAIN other = DOMAIN samples
  /\ \A n \in DOMAIN samples :
       /\ other[n].workload = samples[n].workload
       /\ other[n].mode = samples[n].mode
       /\ other[n].repetition = samples[n].repetition
       /\ other[n].ns > 0 <=> samples[n].ns > 0
       /\ other[n].ns \in Nat /\ samples[n].ns \in Nat

(* A file with other times is accepted as well, and has the same           *)
(* workloads and repetitions.                                              *)
LEMMA OtherTimes ==
  ASSUME NEW samples, NEW other, SameLines(other, samples), samples # <<>>, other # <<>>,
         ~p9a_refuses(samples)
  PROVE  /\ ~p9a_refuses(other) /\ NoDuplicate(other)
         /\ WorkloadsOf(other) = WorkloadsOf(samples)
         /\ \A w : RepetitionsOf(other, w) = RepetitionsOf(samples, w)
<1>1. /\ DOMAIN other = DOMAIN samples
      /\ \A n \in DOMAIN samples :
           /\ other[n].workload = samples[n].workload
           /\ other[n].mode = samples[n].mode
           /\ other[n].repetition = samples[n].repetition
  BY DEF SameLines
<1>2. NoDuplicate(other)
  <2>1. NoDuplicate(samples)
    BY DEF p9a_refuses
  <2> QED BY <1>1, <2>1 DEF NoDuplicate
<1>3. WorkloadsOf(other) = WorkloadsOf(samples)
  BY <1>1 DEF WorkloadsOf
<1>4. \A w : RepetitionsOf(other, w) = RepetitionsOf(samples, w)
  <2> SUFFICES ASSUME NEW w PROVE RepetitionsOf(other, w) = RepetitionsOf(samples, w)
    OBVIOUS
  <2>1. Own(other, w) = Own(samples, w) /\ Own(samples, w) \subseteq DOMAIN samples
    BY <1>1 DEF Own
  <2>2. /\ RepetitionsOf(other, w) = {other[n].repetition : n \in Own(other, w)}
        /\ RepetitionsOf(samples, w) = {samples[n].repetition : n \in Own(samples, w)}
    BY DEF RepetitionsOf, Own
  <2> QED BY <1>1, <2>1, <2>2
<1>5. \A w, r : ModesAt(other, w, r) = ModesAt(samples, w, r)
  <2> SUFFICES ASSUME NEW w, NEW r PROVE ModesAt(other, w, r) = ModesAt(samples, w, r)
    OBVIOUS
  <2> DEFINE now == {k \in DOMAIN other : other[k].workload = w /\ other[k].repetition = r}
             was == {k \in DOMAIN samples :
                       samples[k].workload = w /\ samples[k].repetition = r}
  <2>1. now = was /\ was \subseteq DOMAIN samples
    BY <1>1
  <2>2. /\ ModesAt(other, w, r) = {other[n].mode : n \in now}
        /\ ModesAt(samples, w, r) = {samples[n].mode : n \in was}
    BY DEF ModesAt
  <2> HIDE DEF now, was
  <2> QED BY <1>1, <2>1, <2>2
<1>6. \A w, m : PlacesOf(other, w, m) = PlacesOf(samples, w, m)
  BY <1>1 DEF PlacesOf
<1>7. Whole(other, MODES)
  <2>1. Whole(samples, MODES)
    BY DEF p9a_refuses
  <2> QED BY <1>3, <1>4, <1>5, <1>6, <2>1 DEF Whole
<1>8. ASSUME NEW n \in DOMAIN other
      PROVE  other[n].mode \in MODES /\ ~(other[n].mode # "extended_sp3" /\ other[n].ns <= 0)
  <2>1. samples[n].mode \in MODES /\ ~(samples[n].mode # "extended_sp3" /\ samples[n].ns <= 0)
    BY <1>1 DEF p9a_refuses
  <2> QED BY <1>1, <2>1 DEF SameLines
<1> QED BY <1>2, <1>3, <1>4, <1>7, <1>8 DEF p9a_refuses

(* The times found in the slower repetition. *)
LEMMA SlowerAt ==
  ASSUME NEW samples, IsFile(samples), NEW w, NEW r,
         NoDuplicate(samples), NoDuplicate(Slower(samples, w, r)),
         NEW q, NEW m, NEW n \in DOMAIN samples,
         samples[n].workload = w, samples[n].repetition = q, samples[n].mode = m
  PROVE  /\ At(samples, w, q, m) = samples[n].ns
         /\ At(Slower(samples, w, r), w, q, m)
              = IF q = r THEN 2 * samples[n].ns ELSE samples[n].ns
<1> DEFINE slower == Slower(samples, w, r)
<1>1. /\ DOMAIN slower = DOMAIN samples
      /\ slower[n].workload = w /\ slower[n].mode = m /\ slower[n].repetition = q
      /\ slower[n].ns = IF q = r THEN 2 * samples[n].ns ELSE samples[n].ns
  BY SlowerLines
<1> HIDE DEF slower
<1>2. At(slower, w, q, m) = slower[n].ns
  BY <1>1, AtFinds DEF slower
<1>3. At(samples, w, q, m) = samples[n].ns
  BY AtFinds
<1> QED BY <1>1, <1>2, <1>3 DEF slower

(* The overheads of a workload do not show that a repetition was slower.   *)
LEMMA DriftIsInvisible ==
  ASSUME NEW samples, IsFile(samples), ~p9a_refuses(samples),
         NEW w \in WorkloadsOf(samples), NEW r
  PROVE  LET slower == Slower(samples, w, r) IN
         /\ ~p9a_refuses(slower) /\ WorkloadsOf(slower) = WorkloadsOf(samples)
         /\ \A a \in MODES, b \in MODES \ {"extended_sp3"} :
              Paired(slower, w, a, b) = Paired(samples, w, a, b)
<1> DEFINE slower == Slower(samples, w, r)
<1>1. /\ DOMAIN slower = DOMAIN samples
      /\ \A n \in DOMAIN samples :
           /\ slower[n].workload = samples[n].workload
           /\ slower[n].mode = samples[n].mode
           /\ slower[n].repetition = samples[n].repetition
           /\ slower[n].ns = IF samples[n].workload = w /\ samples[n].repetition = r
                             THEN 2 * samples[n].ns ELSE samples[n].ns
  BY SlowerLines
<1>2. \A n \in DOMAIN samples : samples[n].ns \in Nat
  BY DEF IsFile, IsSample
<1>3. /\ NoDuplicate(samples) /\ Whole(samples, MODES) /\ samples # <<>>
      /\ \A n \in DOMAIN samples : samples[n].mode # "extended_sp3" => ~(samples[n].ns <= 0)
  BY DEF p9a_refuses
<1> HIDE DEF slower
<1>4. SameLines(slower, samples)
  <2> SUFFICES ASSUME NEW n \in DOMAIN samples
               PROVE  /\ slower[n].ns > 0 <=> samples[n].ns > 0
                      /\ slower[n].ns \in Nat /\ samples[n].ns \in Nat
    BY <1>1 DEF SameLines
  <2> QED BY <1>1, <1>2
<1>5. slower # <<>>
  <2>1. PICK n \in DOMAIN samples : TRUE
    BY DEF WorkloadsOf
  <2> QED BY <1>1, <2>1
<1>6. /\ ~p9a_refuses(slower) /\ NoDuplicate(slower)
      /\ WorkloadsOf(slower) = WorkloadsOf(samples)
      /\ RepetitionsOf(slower, w) = RepetitionsOf(samples, w)
  BY <1>3, <1>4, <1>5, OtherTimes
<1>7. ASSUME NEW a \in MODES, NEW b \in MODES \ {"extended_sp3"},
             NEW q \in RepetitionsOf(samples, w)
      PROVE  overhead(At(slower, w, q, a), At(slower, w, q, b))
               = overhead(At(samples, w, q, a), At(samples, w, q, b))
  <2>1. PICK n \in DOMAIN samples :
          samples[n].workload = w /\ samples[n].repetition = q /\ samples[n].mode = a
    BY <1>3, WholeHasAll
  <2>2. PICK k \in DOMAIN samples :
          samples[k].workload = w /\ samples[k].repetition = q /\ samples[k].mode = b
    BY <1>3, WholeHasAll
  <2> DEFINE t == samples[n].ns
             u == samples[k].ns
  <2>3. /\ At(samples, w, q, a) = t
        /\ At(slower, w, q, a) = IF q = r THEN 2 * t ELSE t
    BY <1>3, <1>6, <2>1, SlowerAt DEF slower
  <2>4. /\ At(samples, w, q, b) = u
        /\ At(slower, w, q, b) = IF q = r THEN 2 * u ELSE u
    BY <1>3, <1>6, <2>2, SlowerAt DEF slower
  <2>5. t \in Nat /\ u \in Nat /\ u > 0
    <3>1. t \in Nat /\ u \in Nat /\ ~(u <= 0)
      BY <1>2, <1>3, <2>2
    <3> HIDE DEF t, u
    <3> QED BY <3>1
  <2> HIDE DEF t, u
  <2>6. (100 * (2 * t)) \div (2 * u) = (100 * t) \div u
    BY <2>5, SlowerByTwo
  <2>7. CASE q = r
    BY <2>3, <2>4, <2>6, <2>7 DEF overhead
  <2>8. CASE q # r
    BY <2>3, <2>4, <2>8
  <2> QED BY <2>7, <2>8
<1>8. ASSUME NEW a \in MODES, NEW b \in MODES \ {"extended_sp3"}
      PROVE  Paired(slower, w, a, b) = Paired(samples, w, a, b)
  <2>1. \A q \in RepetitionsOf(samples, w) :
          overhead(At(slower, w, q, a), At(slower, w, q, b))
            = overhead(At(samples, w, q, a), At(samples, w, q, b))
    BY <1>7
  <2> QED BY <1>6, <2>1, SamePairs
<1> QED BY <1>6, <1>8 DEF slower

-----------------------------------------------------------------------------
(* One repetition. *)

(* The median of one number, twice. *)
LEMMA StatisticsOfOne ==
  ASSUME NEW x \in Int
  PROVE  Statistics([n \in 1 .. 1 |-> x]).median2 = x + x
<1> DEFINE values == [n \in 1 .. 1 |-> x]
           keys == [n \in DOMAIN values |-> <<values[n]>>]
           s == Sorted(values, keys)
<1>1. DOMAIN values = 1 .. 1 /\ values[1] = x /\ Len(values) = 1
  <2>1. values \in [1 .. 1 -> Int]
    OBVIOUS
  <2>2. values[1] = x
    OBVIOUS
  <2> HIDE DEF values
  <2> QED BY <2>1, <2>2, IsASeq
<1>2. keys \in [1 .. 1 -> [1 .. 1 -> Int]]
  <2>1. <<x>> \in [1 .. 1 -> Int]
    OBVIOUS
  <2>2. keys = [n \in 1 .. 1 |-> <<x>>]
    OBVIOUS
  <2> QED BY <2>1, <2>2
<1>3. Statistics(values).median2 = s[(Len(values) + 1) \div 2] + s[(Len(values) \div 2) + 1]
  BY DEF Statistics
<1> HIDE DEF values, keys
<1>4. IsSortOf(s, values, keys, 1)
  BY <1>1, <1>2, SortedFinds
<1> HIDE DEF s
<1>5. s[1] = x
  <2>1. PICK perm : Sorts(perm, keys, 1) /\ \A p \in 1 .. 1 : s[p] = values[perm[p]]
    BY <1>4 DEF IsSortOf
  <2>2. perm \in [1 .. 1 -> 1 .. 1]
    BY <2>1 DEF Sorts, Bijection, Injection
  <2>3. perm[1] = 1
    BY <2>2
  <2> QED BY <1>1, <2>1, <2>3
<1>6. (Len(values) + 1) \div 2 = 1 /\ (Len(values) \div 2) + 1 = 1
  BY <1>1
<1> QED BY <1>3, <1>5, <1>6 DEF values

(* Every percentage is a whole number. *)
Exact(samples) ==
  \A i, j \in DOMAIN samples :
    samples[j].ns # 0 => (100 * samples[i].ns) % samples[j].ns = 0

(* With one repetition the three factors multiply. *)
LEMMA OneRepetition ==
  ASSUME NEW samples, IsFile(samples), ~p9a_refuses(samples), Exact(samples),
         NEW w \in WorkloadsOf(samples), Cardinality(RepetitionsOf(samples, w)) = 1
  PROVE  LET row == p9a_row(samples, w) IN
         (200 + row.tracking.median2) * (200 + row.validation.median2)
           = 200 * (200 + row.total.median2)
<1> DEFINE reps == RepetitionsOf(samples, w)
           r == Nth(reps, 1)
           row == p9a_row(samples, w)
<1>1. r \in reps
  <2>1. reps \in SUBSET Nat /\ IsFiniteSet(reps) /\ Cardinality(reps) = 1
    BY RepetitionsAreNumbers
  <2> HIDE DEF reps
  <2>2. \A k \in 1 .. Cardinality(reps) : Nth(reps, k) \in reps
    BY <2>1, NthFinds
  <2> QED BY <2>1, <2>2
<1>2. /\ NoDuplicate(samples) /\ Whole(samples, MODES)
      /\ \A n \in DOMAIN samples : samples[n].mode # "extended_sp3" => ~(samples[n].ns <= 0)
  BY DEF p9a_refuses
<1>3. "rlbox_only" \in MODES /\ "tracked_no_check" \in MODES /\ "extended_sp3" \in MODES
  BY DEF MODES
<1>4. PICK i \in DOMAIN samples :
        samples[i].mode = "rlbox_only" /\ At(samples, w, r, "rlbox_only") = samples[i].ns
  BY <1>1, <1>2, <1>3, WholeHasAll
<1>5. PICK j \in DOMAIN samples :
        /\ samples[j].mode = "tracked_no_check"
        /\ At(samples, w, r, "tracked_no_check") = samples[j].ns
  BY <1>1, <1>2, <1>3, WholeHasAll
<1>6. PICK k \in DOMAIN samples : At(samples, w, r, "extended_sp3") = samples[k].ns
  BY <1>1, <1>2, <1>3, WholeHasAll
<1> DEFINE R == samples[i].ns
           T == samples[j].ns
           E == samples[k].ns
           x == (100 * T) \div R
           y == (100 * E) \div T
           z == (100 * E) \div R
<1>7. R \in Nat /\ T \in Nat /\ E \in Nat /\ ~(R <= 0) /\ ~(T <= 0)
  BY <1>2, <1>4, <1>5 DEF IsFile, IsSample
<1>8. /\ R # 0 => (100 * T) % R = 0 /\ (100 * E) % R = 0
      /\ T # 0 => (100 * E) % T = 0
  BY DEF Exact
<1> HIDE DEF R, T, E
<1>9. R > 0 /\ T > 0 /\ R # 0 /\ T # 0
  BY <1>7
<1>10. /\ x \in Nat /\ x * R = 100 * T
       /\ y \in Nat /\ y * T = 100 * E
       /\ z \in Nat /\ z * R = 100 * E
  BY <1>7, <1>8, <1>9, ExactOverhead
<1>11. /\ overhead(T, R) = x - 100 /\ overhead(E, T) = y - 100 /\ overhead(E, R) = z - 100
  BY DEF overhead
<1> HIDE DEF x, y, z, reps, r
<1>12. /\ Paired(samples, w, "tracked_no_check", "rlbox_only") = [n \in 1 .. 1 |-> x - 100]
       /\ Paired(samples, w, "extended_sp3", "tracked_no_check") = [n \in 1 .. 1 |-> y - 100]
       /\ Paired(samples, w, "extended_sp3", "rlbox_only") = [n \in 1 .. 1 |-> z - 100]
  <2> DEFINE Of(a, b) == [n \in 1 .. 1 |-> overhead(At(samples, w, Nth(reps, n), a),
                                                    At(samples, w, Nth(reps, n), b))]
  <2>1. \A a, b : Paired(samples, w, a, b) = Of(a, b)
    BY DEF Paired, reps
  <2>2. \A a, b : Of(a, b) = [n \in 1 .. 1 |-> overhead(At(samples, w, r, a),
                                                        At(samples, w, r, b))]
    <3>1. \A n \in 1 .. 1 : Nth(reps, n) = r
      BY DEF r
    <3> QED BY <3>1
  <2> HIDE DEF Of
  <2> QED BY <1>4, <1>5, <1>6, <1>11, <2>1, <2>2 DEF R, T, E
<1>13. /\ row.tracking.median2 = (x - 100) + (x - 100)
       /\ row.validation.median2 = (y - 100) + (y - 100)
       /\ row.total.median2 = (z - 100) + (z - 100)
  <2>1. x - 100 \in Int /\ y - 100 \in Int /\ z - 100 \in Int
    BY <1>10
  <2>2. /\ row.tracking = Statistics([n \in 1 .. 1 |-> x - 100])
        /\ row.validation = Statistics([n \in 1 .. 1 |-> y - 100])
        /\ row.total = Statistics([n \in 1 .. 1 |-> z - 100])
    BY <1>12 DEF p9a_row
  <2>3. /\ Statistics([n \in 1 .. 1 |-> x - 100]).median2 = (x - 100) + (x - 100)
        /\ Statistics([n \in 1 .. 1 |-> y - 100]).median2 = (y - 100) + (y - 100)
        /\ Statistics([n \in 1 .. 1 |-> z - 100]).median2 = (z - 100) + (z - 100)
    BY <2>1, StatisticsOfOne
  <2> HIDE DEF row
  <2> QED BY <2>2, <2>3
<1>14. x * y = 100 * z
  BY <1>7, <1>9, <1>10, RatiosMultiply
<1> HIDE DEF row
<1>15. (200 + ((x - 100) + (x - 100))) * (200 + ((y - 100) + (y - 100)))
         = 200 * (200 + ((z - 100) + (z - 100)))
  BY <1>10, <1>14, DoubledMedians
<1> QED BY <1>13, <1>15 DEF row

-----------------------------------------------------------------------------
(* The stream of samples. *)

(* samples is the stream of the plan, up to some place. *)
Streamed(samples) ==
  /\ samples \in Seq(Range(samples))
  /\ Len(samples) <= PlannedSamples
  /\ \A n \in DOMAIN samples : \E t \in plan.times : samples[n] = Planned(n - 1, t)

(* What is assumed of a plan. *)
LEMMA PlanParts ==
  ASSUME plan \in Plans
  PROVE  /\ Repetitions \in Nat /\ Repetitions > 0
         /\ Len(Workloads) \in Nat /\ DOMAIN Workloads = 1 .. Len(Workloads)
         /\ \A i, j \in DOMAIN Workloads : Workloads[i] = Workloads[j] => i = j
         /\ plan.times \in SUBSET Nat
         /\ \A t, u \in plan.times : u # 0 => (100 * t) % u = 0
         /\ PlannedSamples = 3 * Repetitions * Len(Workloads) /\ PlannedSamples \in Nat
<1>1. /\ plan.workloads \in Seq(Range(plan.workloads)) /\ IsInjective(plan.workloads)
      /\ plan.repetitions \in Nat \ {0} /\ plan.times \subseteq Nat
      /\ \A t, u \in plan.times : u # 0 => (100 * t) % u = 0
  BY MeasurementAssumption
<1>2. Repetitions \in Nat /\ Repetitions > 0
  BY <1>1 DEF Repetitions
<1>3. /\ Len(Workloads) \in Nat /\ DOMAIN Workloads = 1 .. Len(Workloads)
  <2> DEFINE T == Range(plan.workloads)
  <2>1. Workloads \in Seq(T)
    BY <1>1 DEF Workloads
  <2> HIDE DEF T
  <2> QED BY <2>1
<1>4. \A i, j \in DOMAIN Workloads : Workloads[i] = Workloads[j] => i = j
  BY <1>1 DEF Workloads, IsInjective
<1>5. PlannedSamples = 3 * Repetitions * Len(Workloads)
  BY DEF PlannedSamples
<1>6. PlannedSamples \in Nat
  BY <1>2, <1>3, <1>5
<1> QED BY <1>1, <1>2, <1>3, <1>4, <1>5, <1>6

(* In every order of a repetition each mode comes once. *)
LEMMA OrdersArePermutations ==
  ASSUME NEW r \in Nat
  PROVE  /\ \A j \in 0 .. 2 : Orders[(r % 6) + 1][j + 1] \in MODES
         /\ \A m \in MODES : \E j \in 0 .. 2 : Orders[(r % 6) + 1][j + 1] = m
         /\ \A i, j \in 0 .. 2 :
              Orders[(r % 6) + 1][i + 1] = Orders[(r % 6) + 1][j + 1] => i = j
<1> DEFINE o == (r % 6) + 1
           order == Orders[o]
<1>1. o \in 1 .. 6
  OBVIOUS
<1> HIDE DEF o
<1>2. \/ order = <<"rlbox_only", "tracked_no_check", "extended_sp3">>
      \/ order = <<"tracked_no_check", "extended_sp3", "rlbox_only">>
      \/ order = <<"extended_sp3", "rlbox_only", "tracked_no_check">>
      \/ order = <<"extended_sp3", "tracked_no_check", "rlbox_only">>
      \/ order = <<"tracked_no_check", "rlbox_only", "extended_sp3">>
      \/ order = <<"rlbox_only", "extended_sp3", "tracked_no_check">>
  <2>1. o = 1 \/ o = 2 \/ o = 3 \/ o = 4 \/ o = 5 \/ o = 6
    BY <1>1
  <2> QED BY <2>1 DEF Orders
<1> HIDE DEF order
<1>3. \A j \in 0 .. 2 : j = 0 \/ j = 1 \/ j = 2
  OBVIOUS
<1>4. /\ \A j \in 0 .. 2 : order[j + 1] \in MODES
      /\ \A i, j \in 0 .. 2 : order[i + 1] = order[j + 1] => i = j
  BY <1>2, <1>3 DEF MODES
<1>5. ASSUME NEW m \in MODES PROVE \E j \in 0 .. 2 : order[j + 1] = m
  <2>1. m = order[0 + 1] \/ m = order[1 + 1] \/ m = order[2 + 1]
    BY <1>2 DEF MODES
  <2> QED BY <2>1
<1> QED BY <1>4, <1>5 DEF order, o

(* What a sample of the stream is. *)
LEMMA SampleOfStream ==
  ASSUME plan \in Plans, NEW n \in 0 .. (PlannedSamples - 1), NEW t \in plan.times
  PROVE  LET s == Planned(n, t)
             k == n \div 3
         IN  /\ IsSample(s) /\ s.ns = t
             /\ k \div Repetitions \in 0 .. (Len(Workloads) - 1)
             /\ s.workload = Workloads[(k \div Repetitions) + 1]
             /\ s.repetition = k % Repetitions /\ s.repetition \in 0 .. (Repetitions - 1)
             /\ n % 3 \in 0 .. 2
             /\ s.mode = Orders[(s.repetition % 6) + 1][(n % 3) + 1]
             /\ n = 3 * (Repetitions * (k \div Repetitions) + (k % Repetitions)) + (n % 3)
<1> DEFINE s == Planned(n, t)
           k == n \div 3
           R == Repetitions
           W == Len(Workloads)
<1>1. /\ s.workload = Workloads[(k \div R) + 1] /\ s.repetition = k % R /\ s.ns = t
      /\ s.mode = Orders[(s.repetition % 6) + 1][(n % 3) + 1]
      /\ s = [workload |-> s.workload, mode |-> s.mode,
              repetition |-> s.repetition, ns |-> s.ns]
  BY DEF Planned
<1>2. R \in Nat /\ R > 0 /\ W \in Nat /\ PlannedSamples = 3 * R * W /\ t \in Nat
  BY PlanParts
<1> HIDE DEF R, W, s
<1>3. /\ n % 3 \in 0 .. 2 /\ k \div R \in 0 .. (W - 1) /\ k % R \in 0 .. (R - 1)
      /\ n = 3 * (R * (k \div R) + (k % R)) + (n % 3)
  BY <1>2, PlaceOfSample
<1> HIDE DEF k
<1>4. s.repetition \in Nat
  BY <1>1, <1>2, <1>3
<1>5. s.mode \in MODES
  BY <1>1, <1>3, <1>4, OrdersArePermutations
<1>6. IsSample(s)
  BY <1>1, <1>2, <1>4, <1>5 DEF IsSample
<1> QED BY <1>1, <1>3, <1>6 DEF R, W, s, k

(* The stream is a file, and its repetitions are those of the plan. *)
LEMMA StreamIsFile ==
  ASSUME plan \in Plans, NEW samples, Streamed(samples)
  PROVE  /\ IsFile(samples) /\ Exact(samples)
         /\ \A w : RepetitionsOf(samples, w) \subseteq 0 .. (Repetitions - 1)
<1>1. Len(samples) \in Nat /\ DOMAIN samples = 1 .. Len(samples)
  <2> DEFINE T == Range(samples)
  <2>1. samples \in Seq(T)
    BY DEF Streamed
  <2> HIDE DEF T
  <2> QED BY <2>1
<1>2. ASSUME NEW n \in DOMAIN samples
      PROVE  /\ IsSample(samples[n]) /\ samples[n].ns \in plan.times
             /\ samples[n].repetition \in 0 .. (Repetitions - 1)
  <2>1. PICK t \in plan.times : samples[n] = Planned(n - 1, t)
    BY DEF Streamed
  <2>2. n - 1 \in 0 .. (PlannedSamples - 1)
    BY <1>1, PlanParts DEF Streamed
  <2> QED BY <2>1, <2>2, SampleOfStream
<1>3. IsFile(samples)
  BY <1>2 DEF IsFile, Streamed
<1>4. Exact(samples)
  BY <1>2, PlanParts DEF Exact
<1>5. ASSUME NEW w PROVE RepetitionsOf(samples, w) \subseteq 0 .. (Repetitions - 1)
  BY <1>2 DEF RepetitionsOf
<1> QED BY <1>3, <1>4, <1>5

(* Sample s is taken at place n: of workload a, repetition p, as number x  *)
(* of its order.                                                           *)
TakenAt(s, n, a, p, x) ==
  /\ s.workload = Workloads[a + 1] /\ s.repetition = p
  /\ s.mode = Orders[(p % 6) + 1][x + 1]
  /\ n = 3 * (Repetitions * a + p) + x

(* Every sample of the stream has such a place. *)
LEMMA PlaceInStream ==
  ASSUME plan \in Plans, NEW samples, Streamed(samples), NEW i \in DOMAIN samples
  PROVE  \E a \in 0 .. (Len(Workloads) - 1), p \in 0 .. (Repetitions - 1), x \in 0 .. 2 :
           TakenAt(samples[i], i - 1, a, p, x)
<1> DEFINE n == i - 1
           k == n \div 3
           R == Repetitions
<1>1. n \in 0 .. (PlannedSamples - 1)
  <2>1. Len(samples) \in Nat /\ DOMAIN samples = 1 .. Len(samples)
    BY StreamIsFile, FileParts
  <2> QED BY <2>1, PlanParts DEF Streamed
<1>2. PICK t \in plan.times : samples[i] = Planned(n, t)
  BY DEF Streamed
<1> DEFINE s == Planned(n, t)
           a == k \div R
           p == k % R
           x == n % 3
<1> HIDE DEF n
<1>3. /\ a \in 0 .. (Len(Workloads) - 1) /\ s.workload = Workloads[a + 1]
      /\ s.repetition = p /\ s.repetition \in 0 .. (R - 1) /\ x \in 0 .. 2
      /\ s.mode = Orders[(s.repetition % 6) + 1][x + 1]
      /\ n = 3 * (R * a + p) + x
  BY <1>1, SampleOfStream, Zenon
<1> HIDE DEF s, a, p, x
<1>4. TakenAt(s, n, a, p, x) /\ p \in 0 .. (R - 1)
  BY <1>3 DEF TakenAt
<1> QED BY <1>2, <1>3, <1>4 DEF n, s

(* No sample is taken twice. *)
LEMMA StreamHasNoDuplicate ==
  ASSUME plan \in Plans, NEW samples, Streamed(samples)
  PROVE  NoDuplicate(samples)
<1>1. Len(samples) \in Nat /\ DOMAIN samples = 1 .. Len(samples)
  BY StreamIsFile, FileParts
<1> SUFFICES ASSUME NEW i \in DOMAIN samples, NEW j \in DOMAIN samples,
                    samples[i].workload = samples[j].workload,
                    samples[i].mode = samples[j].mode,
                    samples[i].repetition = samples[j].repetition
             PROVE  i = j
  BY DEF NoDuplicate
<1>2. PICK a \in 0 .. (Len(Workloads) - 1), p \in 0 .. (Repetitions - 1), x \in 0 .. 2 :
        TakenAt(samples[i], i - 1, a, p, x)
  BY PlaceInStream
<1>3. PICK b \in 0 .. (Len(Workloads) - 1), q \in 0 .. (Repetitions - 1), y \in 0 .. 2 :
        TakenAt(samples[j], j - 1, b, q, y)
  BY PlaceInStream
<1>4. a = b
  <2>1. samples[i].workload = Workloads[a + 1] /\ samples[j].workload = Workloads[b + 1]
    BY <1>2, <1>3 DEF TakenAt
  <2>2. /\ Len(Workloads) \in Nat /\ DOMAIN Workloads = 1 .. Len(Workloads)
        /\ \A m, n \in DOMAIN Workloads : Workloads[m] = Workloads[n] => m = n
    BY PlanParts
  <2>3. a + 1 \in DOMAIN Workloads /\ b + 1 \in DOMAIN Workloads
    BY <2>2
  <2>4. a + 1 = b + 1
    BY <2>1, <2>2, <2>3
  <2> QED BY <2>4
<1>5. p \in Nat /\ p = q
  <2>1. samples[i].repetition = p /\ samples[j].repetition = q
    BY <1>2, <1>3 DEF TakenAt
  <2>2. p = q
    BY <2>1
  <2>3. Repetitions \in Nat
    BY PlanParts
  <2>4. p \in Nat
    BY <2>3
  <2> QED BY <2>2, <2>4
<1>6. x = y
  <2>1. Orders[(p % 6) + 1][x + 1] = Orders[(p % 6) + 1][y + 1]
    BY <1>2, <1>3, <1>5 DEF TakenAt
  <2> QED BY <1>5, <2>1, OrdersArePermutations
<1>7. i - 1 = j - 1
  BY <1>2, <1>3, <1>4, <1>5, <1>6 DEF TakenAt
<1> QED BY <1>1, <1>7

(* The whole stream has every workload, with every repetition in every     *)
(* mode.                                                                   *)
LEMMA StreamIsWhole ==
  ASSUME plan \in Plans, NEW samples, Streamed(samples), Len(samples) = PlannedSamples
  PROVE  /\ Whole(samples, MODES)
         /\ WorkloadsOf(samples) = Range(Workloads)
         /\ \A w \in Range(Workloads) :
              RepetitionsOf(samples, w) = 0 .. (Repetitions - 1)
<1> DEFINE R == Repetitions
           W == Len(Workloads)
<1>1. /\ R \in Nat /\ R > 0 /\ W \in Nat /\ DOMAIN Workloads = 1 .. W
      /\ PlannedSamples = 3 * R * W /\ PlannedSamples \in Nat
  BY PlanParts
<1>2. IsFile(samples) /\ DOMAIN samples = 1 .. PlannedSamples
  BY StreamIsFile, FileParts
<1>3. ASSUME NEW w \in Range(Workloads), NEW r \in 0 .. (R - 1), NEW m \in MODES
      PROVE  \E n \in DOMAIN samples :
               /\ samples[n].workload = w
               /\ samples[n].repetition = r
               /\ samples[n].mode = m
  <2>1. PICK i \in 1 .. W : Workloads[i] = w
    BY <1>1 DEF Range
  <2>2. r \in Nat
    BY <1>1
  <2>3. PICK j \in 0 .. 2 : Orders[(r % 6) + 1][j + 1] = m
    BY <2>2, OrdersArePermutations
  <2> DEFINE n == 3 * (R * (i - 1) + r) + j
  <2>4. i - 1 \in 0 .. (W - 1)
    BY <1>1
  <2> HIDE DEF R, W
  <2>5. /\ n \in 0 .. (3 * R * W - 1)
        /\ n % 3 = j /\ (n \div 3) \div R = i - 1 /\ (n \div 3) % R = r
    BY <1>1, <2>4, SampleAtPlace
  <2> HIDE DEF n
  <2>6. n + 1 \in DOMAIN samples /\ n \in 0 .. (PlannedSamples - 1) /\ (n + 1) - 1 = n
    BY <1>1, <1>2, <2>5
  <2>7. PICK t \in plan.times : samples[n + 1] = Planned(n, t)
    BY <2>6 DEF Streamed
  <2> DEFINE s == Planned(n, t)
  <2>8. /\ s.workload = Workloads[((n \div 3) \div R) + 1]
        /\ s.repetition = (n \div 3) % R
        /\ s.mode = Orders[(s.repetition % 6) + 1][(n % 3) + 1]
    BY <2>6, SampleOfStream DEF R
  <2> HIDE DEF s
  <2>9. s.workload = w /\ s.repetition = r /\ s.mode = m
    BY <2>1, <2>3, <2>5, <2>8
  <2> QED BY <2>6, <2>7, <2>9 DEF s
<1>4. 0 \in 0 .. (R - 1) /\ "rlbox_only" \in MODES
  BY <1>1 DEF MODES
<1>5. ASSUME NEW n \in DOMAIN samples
      PROVE  samples[n].workload \in Range(Workloads) /\ samples[n].mode \in MODES
  <2>1. PICK t \in plan.times : samples[n] = Planned(n - 1, t)
    BY DEF Streamed
  <2>2. n - 1 \in 0 .. (PlannedSamples - 1)
    BY <1>1, <1>2
  <2> DEFINE a == ((n - 1) \div 3) \div R
  <2>3. /\ a \in 0 .. (W - 1) /\ samples[n].workload = Workloads[a + 1]
        /\ IsSample(samples[n])
    BY <2>1, <2>2, SampleOfStream
  <2> HIDE DEF a, R, W
  <2>4. a + 1 \in DOMAIN Workloads
    BY <1>1, <2>3
  <2> QED BY <2>3, <2>4 DEF Range, IsSample
<1>6. WorkloadsOf(samples) = Range(Workloads)
  <2>1. ASSUME NEW w \in Range(Workloads) PROVE w \in WorkloadsOf(samples)
    <3>1. PICK n \in DOMAIN samples : samples[n].workload = w
      BY <1>3, <1>4
    <3> QED BY <3>1 DEF WorkloadsOf
  <2>2. WorkloadsOf(samples) \subseteq Range(Workloads)
    BY <1>5 DEF WorkloadsOf
  <2> QED BY <2>1, <2>2
<1>7. ASSUME NEW w \in Range(Workloads) PROVE RepetitionsOf(samples, w) = 0 .. (R - 1)
  <2>1. ASSUME NEW r \in 0 .. (R - 1) PROVE r \in RepetitionsOf(samples, w)
    <3>1. PICK n \in DOMAIN samples : samples[n].workload = w /\ samples[n].repetition = r
      BY <1>3, <1>4
    <3> QED BY <3>1 DEF RepetitionsOf
  <2>2. RepetitionsOf(samples, w) \subseteq 0 .. (R - 1)
    BY StreamIsFile
  <2> QED BY <2>1, <2>2
<1>8. Whole(samples, MODES)
  <2>1. ASSUME NEW w \in WorkloadsOf(samples), NEW m \in MODES
        PROVE  PlacesOf(samples, w, m) # {}
    <3>1. PICK n \in DOMAIN samples : samples[n].workload = w /\ samples[n].mode = m
      BY <1>3, <1>4, <1>6
    <3> QED BY <3>1 DEF PlacesOf
  <2>2. ASSUME NEW w \in WorkloadsOf(samples), NEW r \in RepetitionsOf(samples, w)
        PROVE  ModesAt(samples, w, r) = MODES
    <3>1. w \in Range(Workloads) /\ r \in 0 .. (R - 1)
      BY <1>6, <1>7
    <3>2. ASSUME NEW m \in MODES PROVE m \in ModesAt(samples, w, r)
      <4>1. PICK n \in DOMAIN samples :
              samples[n].workload = w /\ samples[n].repetition = r /\ samples[n].mode = m
        BY <1>3, <3>1
      <4> QED BY <4>1 DEF ModesAt
    <3>3. ModesAt(samples, w, r) \subseteq MODES
      BY <1>5 DEF ModesAt
    <3> QED BY <3>2, <3>3
  <2> QED BY <2>1, <2>2 DEF Whole
<1> QED BY <1>6, <1>7, <1>8

-----------------------------------------------------------------------------
(* The measurement. *)

(* Every row of the file names a mode: none was cut too short to be read. *)
Readable(samples) == \A n \in DOMAIN samples : samples[n].mode \in MODES

(* A row that can still be read is as it was, or has a shorter time. *)
LEMMA ReadableRow ==
  ASSUME NEW sample, NEW row \in LastRow(sample), row.mode \in MODES,
         sample = [workload |-> sample.workload, mode |-> sample.mode,
                   repetition |-> sample.repetition, ns |-> sample.ns],
         sample.ns \in plan.times
  PROVE  \E t \in plan.times :
           row = [workload |-> sample.workload, mode |-> sample.mode,
                  repetition |-> sample.repetition, ns |-> t]
<1>1. CASE row = sample
  BY <1>1
<1>2. CASE row = [sample EXCEPT !.mode = "unreadable"]
  <2>1. row.mode = "unreadable"
    BY <1>2
  <2> QED BY <2>1 DEF MODES
<1>3. CASE \E t \in {u \in plan.times : 0 < u /\ u < sample.ns} : row = [sample EXCEPT !.ns = t]
  <2>1. PICK t \in plan.times : row = [sample EXCEPT !.ns = t]
    BY <1>3
  <2> QED BY <2>1
<1> QED BY <1>1, <1>2, <1>3 DEF LastRow

(* What a kill leaves of a file: a start of it, whose last row may be cut. *)
LEMMA CutFile ==
  ASSUME NEW samples, samples \in Seq(Range(samples)), NEW cut \in CutOf(samples)
  PROVE  /\ cut \in Seq(Range(cut)) /\ Len(cut) \in Nat /\ Len(cut) <= Len(samples)
         /\ \A k \in DOMAIN cut :
              k \in DOMAIN samples /\ cut[k] \in LastRow(samples[k])
<1> DEFINE T == Range(samples)
<1>1. samples \in Seq(T)
  OBVIOUS
<1> HIDE DEF T
<1>2. Len(samples) \in Nat /\ DOMAIN samples = 1 .. Len(samples)
  BY <1>1
<1>3. \A k \in DOMAIN samples : samples[k] \in LastRow(samples[k])
  BY DEF LastRow
<1>4. PICK n \in Nat :
        /\ n <= Len(samples) /\ DOMAIN cut = 1 .. n
        /\ cut = [k \in 1 .. n |-> cut[k]]
        /\ \A k \in 1 .. n : cut[k] \in LastRow(samples[k])
  <2>1. CASE cut = <<>>
    <3> DEFINE none == <<>>
    <3>1. DOMAIN none = 1 .. 0 /\ none = [k \in 1 .. 0 |-> none[k]]
      OBVIOUS
    <3>2. DOMAIN cut = 1 .. 0 /\ cut = [k \in 1 .. 0 |-> cut[k]]
      BY <2>1, <3>1
    <3>3. \A k \in 1 .. 0 : cut[k] \in LastRow(samples[k])
      OBVIOUS
    <3> HIDE DEF none
    <3> QED BY <1>2, <3>2, <3>3
  <2>2. CASE cut # <<>>
    <3>1. PICK n \in DOMAIN samples : \E row \in LastRow(samples[n]) :
                 cut = [SubSeq(samples, 1, n) EXCEPT ![n] = row]
      BY <2>2 DEF CutOf
    <3>2. PICK row \in LastRow(samples[n]) :
                 cut = [SubSeq(samples, 1, n) EXCEPT ![n] = row]
      BY <3>1
    <3> DEFINE start == SubSeq(samples, 1, n)
    <3>3. n \in Nat /\ n <= Len(samples) /\ 1 <= n
      BY <1>2
    <3>4. start = [k \in 1 .. n |-> samples[k]]
      BY <1>1, <1>2, <3>3
    <3>5. cut = [start EXCEPT ![n] = row]
      BY <3>2
    <3> HIDE DEF start
    <3>6. /\ DOMAIN cut = 1 .. n /\ cut = [k \in 1 .. n |-> cut[k]]
          /\ \A k \in 1 .. n : cut[k] = IF k = n THEN row ELSE samples[k]
      BY <3>3, <3>4, <3>5
    <3>7. \A k \in 1 .. n : cut[k] \in LastRow(samples[k])
      BY <1>2, <1>3, <3>2, <3>3, <3>6
    <3> QED BY <3>3, <3>6, <3>7
  <2> QED BY <2>1, <2>2
<1>5. cut \in Seq(Range(cut)) /\ Len(cut) = n
  <2> DEFINE U == Range(cut)
  <2>1. \A k \in 1 .. n : cut[k] \in U
    BY <1>4 DEF Range
  <2> HIDE DEF U
  <2>2. cut \in [1 .. n -> U]
    BY <1>4, <2>1
  <2>3. cut \in Seq(U)
    BY <1>4, <2>2, IsASeq
  <2>4. Len(cut) = n
    BY <1>4, <2>3
  <2> QED BY <2>3, <2>4 DEF U
<1> QED BY <1>2, <1>4, <1>5

(* What a kill leaves of the stream is a stream, if it can be read. *)
LEMMA CutStream ==
  ASSUME plan \in Plans, NEW samples, Streamed(samples), NEW cut \in CutOf(samples),
         Readable(cut)
  PROVE  Streamed(cut)
<1>1. /\ cut \in Seq(Range(cut)) /\ Len(cut) \in Nat /\ Len(cut) <= Len(samples)
      /\ \A k \in DOMAIN cut : k \in DOMAIN samples /\ cut[k] \in LastRow(samples[k])
  BY CutFile DEF Streamed
<1>2. Len(samples) \in Nat /\ PlannedSamples \in Nat
  BY StreamIsFile, FileParts, PlanParts
<1>3. Len(cut) <= PlannedSamples
  BY <1>1, <1>2 DEF Streamed
<1>4. ASSUME NEW k \in DOMAIN cut
      PROVE  \E t \in plan.times : cut[k] = Planned(k - 1, t)
  <2>1. PICK t \in plan.times : samples[k] = Planned(k - 1, t)
    BY <1>1 DEF Streamed
  <2>2. PICK w, m, r : \A u : Planned(k - 1, u)
                                = [workload |-> w, mode |-> m, repetition |-> r, ns |-> u]
    BY DEF Planned
  <2>3. samples[k] = [workload |-> w, mode |-> m, repetition |-> r, ns |-> t]
    BY <2>1, <2>2
  <2>4. cut[k] \in LastRow(samples[k]) /\ cut[k].mode \in MODES
    BY <1>1 DEF Readable
  <2>5. PICK u \in plan.times :
          cut[k] = [workload |-> w, mode |-> m, repetition |-> r, ns |-> u]
    BY <2>3, <2>4, ReadableRow
  <2> QED BY <2>2, <2>5
<1> QED BY <1>1, <1>3, <1>4 DEF Streamed

(* So is the stream with its next sample. *)
LEMMA StreamGoesOn ==
  ASSUME plan \in Plans, NEW samples, Streamed(samples), Len(samples) < PlannedSamples,
         NEW t \in plan.times
  PROVE  Streamed(Append(samples, Planned(Len(samples), t)))
<1> DEFINE next == Planned(Len(samples), t)
           T == Range(samples) \cup {next}
           more == Append(samples, next)
           N == Len(samples)
<1>1. N \in Nat /\ DOMAIN samples = 1 .. N /\ PlannedSamples \in Nat
  BY StreamIsFile, FileParts, PlanParts
<1>2. samples \in Seq(T) /\ next \in T
  <2>1. \A k \in 1 .. N : samples[k] \in T
    BY <1>1 DEF Range
  <2>2. samples = [k \in 1 .. N |-> samples[k]]
    <3> DEFINE U == Range(samples)
    <3>1. samples \in Seq(U)
      BY DEF Streamed
    <3> HIDE DEF U
    <3> QED BY <3>1
  <2> HIDE DEF T, N
  <2>3. samples \in [1 .. N -> T]
    BY <2>1, <2>2
  <2> QED BY <1>1, <2>3 DEF T
<1> HIDE DEF T, next
<1>3. /\ more \in Seq(T) /\ Len(more) = N + 1 /\ DOMAIN more = 1 .. (N + 1)
      /\ more[N + 1] = next /\ \A k \in 1 .. N : more[k] = samples[k]
  BY <1>1, <1>2
<1> HIDE DEF more
<1>4. more \in Seq(Range(more))
  <2> DEFINE U == Range(more)
  <2>1. \A k \in 1 .. (N + 1) : more[k] \in U
    BY <1>3 DEF Range
  <2>2. N + 1 \in Nat /\ more = [k \in 1 .. (N + 1) |-> more[k]]
    BY <1>1, <1>3
  <2> HIDE DEF U, N
  <2>3. more \in [1 .. (N + 1) -> U]
    BY <2>1, <2>2
  <2> QED BY <2>2, <2>3 DEF U
<1>5. ASSUME NEW k \in DOMAIN more
      PROVE  \E u \in plan.times : more[k] = Planned(k - 1, u)
  <2>1. CASE k = N + 1
    <3>1. k - 1 = N
      BY <1>1, <2>1
    <3> QED BY <1>3, <2>1, <3>1 DEF next
  <2>2. CASE k # N + 1
    <3>1. k \in DOMAIN samples /\ more[k] = samples[k]
      BY <1>1, <1>3, <2>2
    <3> QED BY <3>1 DEF Streamed
  <2> QED BY <2>1, <2>2
<1>6. Len(more) <= PlannedSamples
  BY <1>1, <1>3
<1>7. Streamed(more)
  BY <1>4, <1>5, <1>6 DEF Streamed
<1> QED BY <1>7 DEF more, next

(* What a kill leaves of a file for P8 is one, if it can be read. *)
LEMMA CutPairs ==
  ASSUME plan \in Plans, NEW samples, IsFile(samples), OfPair(samples),
         \A n \in DOMAIN samples : samples[n].ns \in plan.times,
         NEW cut \in CutOf(samples), Readable(cut)
  PROVE  IsFile(cut) /\ OfPair(cut)
<1>1. /\ cut \in Seq(Range(cut))
      /\ \A k \in DOMAIN cut : k \in DOMAIN samples /\ cut[k] \in LastRow(samples[k])
  BY CutFile DEF IsFile
<1>2. ASSUME NEW k \in DOMAIN cut
      PROVE  IsSample(cut[k]) /\ cut[k].mode \in PAIR
  <2>1. /\ IsSample(samples[k]) /\ samples[k].mode \in PAIR /\ samples[k].ns \in plan.times
        /\ cut[k] \in LastRow(samples[k]) /\ cut[k].mode \in MODES
    BY <1>1 DEF IsFile, OfPair, Readable
  <2>2. PICK t \in plan.times :
          cut[k] = [workload |-> samples[k].workload, mode |-> samples[k].mode,
                    repetition |-> samples[k].repetition, ns |-> t]
    BY <2>1, ReadableRow DEF IsSample
  <2>3. t \in Nat
    BY PlanParts
  <2> QED BY <2>1, <2>2, <2>3 DEF IsSample
<1> QED BY <1>1, <1>2 DEF IsFile, OfPair

(* The times of the file for P8 are those of the plan. *)
LEMMA KeptTimes ==
  ASSUME plan \in Plans, NEW samples, Streamed(samples)
  PROVE  \A n \in DOMAIN WithoutBaseline(samples) :
           WithoutBaseline(samples)[n].ns \in plan.times
<1>1. IsFile(samples) /\ DOMAIN samples = 1 .. Len(samples)
  BY StreamIsFile, FileParts
<1>2. \A n \in DOMAIN samples : samples[n].ns \in plan.times
  BY DEF Streamed, Planned
<1> QED BY <1>1, <1>2, KeptLines

(* Before anything is measured, and in a file that is not there, there are *)
(* no samples.                                                             *)
LEMMA NoSamples ==
  /\ plan \in Plans => Streamed(<<>>)
  /\ IsFile(<<>>) /\ OfPair(<<>>)
<1> DEFINE none == <<>>
           T == Range(none)
<1>1. none \in Seq(T)
  <2> HIDE DEF T
  <2> QED OBVIOUS
<1>2. DOMAIN none = {} /\ Len(none) = 0
  OBVIOUS
<1> HIDE DEF none
<1>3. IsFile(none) /\ OfPair(none)
  BY <1>1, <1>2 DEF IsFile, OfPair
<1>4. plan \in Plans => Streamed(none)
  BY <1>1, <1>2, PlanParts DEF Streamed
<1> QED BY <1>3, <1>4 DEF none

(* The files hold the stream up to where a kill cut it, all of it if there *)
(* was none, or end in a row that cannot be read; and a summary is what    *)
(* its tool makes of its file.                                             *)
MeasureInv ==
  /\ plan \in Plans
  /\ Streamed(rows)
  /\ Readable(p9aFile) => Streamed(p9aFile)
  /\ Readable(p8File) => IsFile(p8File) /\ OfPair(p8File)
  /\ stage \in {"measuring", "filtering", "measured", "killed"}
  /\ stage \in {"filtering", "measured"} =>
       p9aFile = rows /\ Len(rows) = PlannedSamples
  /\ stage = "measured" => p8File = WithoutBaseline(rows)
  /\ stage \in {"measuring", "filtering"} => p9a = NotRun /\ p8 = NotRun /\ bench = NotRun
  /\ p9a # NotRun => p9aFile # <<>> /\ p9a = summarize_p9a_application(p9aFile)
  /\ \/ p8 = NotRun /\ bench = NotRun
     \/ /\ p8 = summarize_p8_application(p8File)
        /\ bench = summarize_p8_performance(p8File)

(* At the start nothing is measured, written or summarized. *)
LEMMA MeasureInitInv == MeasureInit => MeasureInv
BY NoSamples DEF MeasureInit, MeasureInv

(* Every step of the script, the kill and the tools keeps it. *)
LEMMA MeasureNextInv == MeasureInv /\ [MeasureNext]_measureVars => MeasureInv'
<1> SUFFICES ASSUME MeasureInv, [MeasureNext]_measureVars PROVE MeasureInv'
  OBVIOUS
<1>1. plan' = plan /\ plan \in Plans
  BY DEF MeasureInv, MeasureNext, Measure, WriteSamples, FilterP8, KillMeasurement,
         CollectP9a, CollectP8, measureVars
<1>2. /\ Streamed(rows') => Streamed(rows)'
      /\ (Readable(p9aFile') => Streamed(p9aFile')) => (Readable(p9aFile) => Streamed(p9aFile))'
      /\ PlannedSamples' = PlannedSamples
  BY <1>1 DEF Streamed, Planned, PlannedSamples, Repetitions, Workloads
<1>3. CASE Measure
  <2>1. stage = "measuring" /\ Len(rows) < PlannedSamples
    BY <1>3 DEF Measure
  <2>2. PICK t \in plan.times : rows' = Append(rows, Planned(Len(rows), t))
    BY <1>3 DEF Measure
  <2>3. UNCHANGED <<plan, p9aFile, p8File, p9a, p8, bench, stage>>
    BY <1>3 DEF Measure
  <2>4. Streamed(rows')
    BY <1>1, <2>1, <2>2, StreamGoesOn DEF MeasureInv
  <2>5. Streamed(rows)' /\ (Readable(p9aFile) => Streamed(p9aFile))'
    BY <1>2, <2>3, <2>4 DEF MeasureInv
  <2> QED BY <1>1, <2>1, <2>3, <2>5 DEF MeasureInv
<1>4. CASE WriteSamples
  <2>1. /\ stage = "measuring" /\ Len(rows) = PlannedSamples /\ p9aFile' = rows
        /\ stage' = "filtering" /\ UNCHANGED <<plan, rows, p8File, p9a, p8, bench>>
    BY <1>4 DEF WriteSamples
  <2>2. Streamed(rows)' /\ (Readable(p9aFile) => Streamed(p9aFile))'
    BY <1>2, <2>1 DEF MeasureInv
  <2> QED BY <1>1, <1>2, <2>1, <2>2 DEF MeasureInv
<1>5. CASE FilterP8
  <2>1. /\ stage = "filtering" /\ p8File' = WithoutBaseline(p9aFile)
        /\ stage' = "measured" /\ UNCHANGED <<plan, rows, p9aFile, p9a, p8, bench>>
    BY <1>5 DEF FilterP8
  <2>2. Streamed(rows)' /\ (Readable(p9aFile) => Streamed(p9aFile))'
    BY <1>2, <2>1 DEF MeasureInv
  <2>3. IsFile(p9aFile)
    BY <2>1, StreamIsFile DEF MeasureInv
  <2>4. IsFile(p8File') /\ OfPair(p8File')
    BY <2>1, <2>3, KeptLines
  <2> QED BY <1>1, <1>2, <2>1, <2>2, <2>4 DEF MeasureInv
<1>6. CASE KillMeasurement
  <2>1. /\ stage \in {"measuring", "filtering"} /\ stage' = "killed"
        /\ UNCHANGED <<plan, rows, p9a, p8, bench>>
    BY <1>6 DEF KillMeasurement
  <2>2. /\ Readable(p9aFile') => Streamed(p9aFile')
        /\ Readable(p8File') => IsFile(p8File') /\ OfPair(p8File')
    <3>1. CASE /\ \/ p9aFile' = <<>>
                  \/ Len(rows) = PlannedSamples /\ p9aFile' \in CutOf(rows)
               /\ UNCHANGED p8File
      <4>1. p9aFile' \in CutOf(rows)
        BY <3>1 DEF CutOf
      <4>2. Readable(p9aFile') => Streamed(p9aFile')
        BY <1>1, <4>1, CutStream DEF MeasureInv
      <4> QED BY <3>1, <4>2 DEF MeasureInv
    <3>2. CASE /\ stage = "filtering" /\ p8File' \in CutOf(WithoutBaseline(p9aFile))
               /\ UNCHANGED p9aFile
      <4> DEFINE kept == WithoutBaseline(p9aFile)
      <4>1. Streamed(p9aFile)
        BY <3>2 DEF MeasureInv
      <4>2. /\ IsFile(kept) /\ OfPair(kept)
            /\ \A n \in DOMAIN kept : kept[n].ns \in plan.times
        BY <1>1, <4>1, StreamIsFile, KeptLines, KeptTimes
      <4>3. p8File' \in CutOf(kept)
        BY <3>2
      <4> HIDE DEF kept
      <4>4. Readable(p8File') => IsFile(p8File') /\ OfPair(p8File')
        BY <1>1, <4>2, <4>3, CutPairs
      <4> QED BY <3>2, <4>4 DEF MeasureInv
    <3> QED BY <1>6, <3>1, <3>2 DEF KillMeasurement
  <2>3. Streamed(rows)' /\ (Readable(p9aFile) => Streamed(p9aFile))'
    BY <1>2, <2>1, <2>2 DEF MeasureInv
  <2> QED BY <1>1, <2>1, <2>2, <2>3 DEF MeasureInv
<1>7. CASE CollectP9a
  <2>1. /\ stage \in {"measured", "killed"} /\ p9aFile # <<>>
        /\ p9a' = summarize_p9a_application(p9aFile)
        /\ UNCHANGED <<plan, rows, p9aFile, p8File, p8, bench, stage>>
    BY <1>7 DEF CollectP9a, Idle
  <2>2. Streamed(rows)' /\ (Readable(p9aFile) => Streamed(p9aFile))'
    BY <1>2, <2>1 DEF MeasureInv
  <2> QED BY <1>1, <1>2, <2>1, <2>2 DEF MeasureInv
<1>8. CASE CollectP8
  <2>1. /\ stage \in {"measured", "killed"} /\ p8' = summarize_p8_application(p8File)
        /\ bench' = summarize_p8_performance(p8File)
        /\ UNCHANGED <<plan, rows, p9aFile, p8File, p9a, stage>>
    BY <1>8 DEF CollectP8, Idle
  <2>2. Streamed(rows)' /\ (Readable(p9aFile) => Streamed(p9aFile))'
    BY <1>2, <2>1 DEF MeasureInv
  <2> QED BY <1>1, <1>2, <2>1, <2>2 DEF MeasureInv
<1>9. CASE UNCHANGED measureVars
  <2>1. UNCHANGED <<plan, rows, p9aFile, p8File, p9a, p8, bench, stage>>
    BY <1>9 DEF measureVars
  <2>2. Streamed(rows)' /\ (Readable(p9aFile) => Streamed(p9aFile))'
    BY <1>2, <2>1 DEF MeasureInv
  <2> QED BY <1>1, <1>2, <2>1, <2>2 DEF MeasureInv
<1> QED BY <1>3, <1>4, <1>5, <1>6, <1>7, <1>8, <1>9 DEF MeasureNext

(* What a table is, when a tool has made one. *)
LEMMA TableParts ==
  ASSUME MeasureInv
  PROVE  /\ Summarized(p9a) =>
              /\ ~p9a_refuses(p9aFile) /\ Streamed(p9aFile)
              /\ p9a.table = [w \in WorkloadsOf(p9aFile) |-> p9a_row(p9aFile, w)]
         /\ Summarized(p8) =>
              /\ ~p8_refuses(p8File) /\ IsFile(p8File)
              /\ p8.table = [w \in WorkloadsOf(p8File) |-> p8_row(p8File, w)]
<1>1. NotRun.verdict # "summarized" /\ Refused.verdict # "summarized"
  BY DEF NotRun, Refused
<1>2. \A t : Summary(t).verdict = "summarized" /\ Summary(t).table = t
  BY DEF Summary
<1>3. ASSUME Summarized(p9a)
      PROVE  /\ ~p9a_refuses(p9aFile) /\ Streamed(p9aFile)
             /\ p9a.table = [w \in WorkloadsOf(p9aFile) |-> p9a_row(p9aFile, w)]
  <2> DEFINE table == [w \in WorkloadsOf(p9aFile) |-> p9a_row(p9aFile, w)]
  <2>1. p9a = IF p9a_refuses(p9aFile) THEN Refused ELSE Summary(table)
    BY <1>1, <1>3 DEF MeasureInv, Summarized, summarize_p9a_application
  <2> HIDE DEF table
  <2>2. ~p9a_refuses(p9aFile) /\ p9a.table = table
    BY <1>1, <1>2, <1>3, <2>1 DEF Summarized
  <2>3. Streamed(p9aFile)
    BY <2>2 DEF MeasureInv, Readable, p9a_refuses
  <2> QED BY <2>2, <2>3 DEF table
<1>4. ASSUME Summarized(p8)
      PROVE  /\ ~p8_refuses(p8File) /\ IsFile(p8File)
             /\ p8.table = [w \in WorkloadsOf(p8File) |-> p8_row(p8File, w)]
  <2> DEFINE table == [w \in WorkloadsOf(p8File) |-> p8_row(p8File, w)]
  <2>1. p8 = IF p8_refuses(p8File) THEN Refused ELSE Summary(table)
    BY <1>1, <1>4 DEF MeasureInv, Summarized, summarize_p8_application
  <2> HIDE DEF table
  <2>2. ~p8_refuses(p8File) /\ p8.table = table
    BY <1>1, <1>2, <1>4, <2>1 DEF Summarized
  <2>3. IsFile(p8File)
    <3>1. PAIR \subseteq MODES
      BY DEF PAIR, MODES
    <3> QED BY <2>2, <3>1 DEF MeasureInv, Readable, p8_refuses
  <2> QED BY <2>2, <2>3 DEF table
<1> QED BY <1>3, <1>4

(* A table is over whole repetitions, no more than were planned. *)
LEMMA OnlyWholeTables ==
  ASSUME MeasureInv
  PROVE  OnlyWholeRepetitions
<1>1. /\ plan \in Plans
      /\ Summarized(p9a) => Streamed(p9aFile) /\ IsFile(p9aFile)
      /\ Summarized(p8) => IsFile(p8File)
  BY TableParts, StreamIsFile DEF MeasureInv
<1>2. ASSUME Summarized(p9a), NEW w \in DOMAIN p9a.table, NEW m \in MODES
      PROVE  /\ Len(NsOf(p9aFile, w, m)) = p9a.table[w].repetitions
             /\ p9a.table[w].repetitions \in 1 .. Repetitions
  <2> DEFINE reps == RepetitionsOf(p9aFile, w)
  <2>1. /\ NoDuplicate(p9aFile) /\ Whole(p9aFile, MODES) /\ w \in WorkloadsOf(p9aFile)
        /\ p9a.table[w].repetitions = Cardinality(reps)
    BY <1>2, TableParts DEF p9a_refuses, p9a_row
  <2>2. /\ Len(NsOf(p9aFile, w, m)) = Cardinality(reps)
        /\ Cardinality(reps) \in Nat \ {0}
    BY <1>1, <1>2, <2>1, OneOfEachMode
  <2>3. reps \subseteq 0 .. (Repetitions - 1)
    BY <1>1, <1>2, StreamIsFile
  <2> HIDE DEF reps
  <2>4. Cardinality(reps) <= Repetitions
    <3> DEFINE all == 0 .. (Repetitions - 1)
    <3>1. Repetitions \in Nat /\ Repetitions > 0
      BY <1>1, PlanParts
    <3>2. IsFiniteSet(all) /\ Cardinality(all) = Repetitions
      <4>1. 0 \in Int /\ Repetitions - 1 \in Int /\ ~(0 > Repetitions - 1)
            /\ (Repetitions - 1) - 0 + 1 = Repetitions
        BY <3>1
      <4> QED BY <4>1, FS_Interval
    <3> HIDE DEF all
    <3> QED BY <2>3, <3>2, FS_Subset DEF all
  <2> QED BY <1>1, <2>1, <2>2, <2>4, PlanParts
<1>3. ASSUME Summarized(p8), NEW w \in DOMAIN p8.table, NEW m \in PAIR
      PROVE  Len(NsOf(p8File, w, m)) = p8.table[w].repetitions
  <2>1. /\ NoDuplicate(p8File) /\ Whole(p8File, PAIR) /\ w \in WorkloadsOf(p8File)
        /\ p8.table[w].repetitions = Cardinality(RepetitionsOf(p8File, w))
    BY <1>3, TableParts DEF p8_refuses, p8_row
  <2> QED BY <1>1, <1>3, <2>1, OneOfEachMode
<1> QED BY <1>2, <1>3 DEF OnlyWholeRepetitions

(* A measurement that ran to its end, on a clock that advances, is         *)
(* accepted whole.                                                         *)
LEMMA WholeMeasurementIsAccepted ==
  ASSUME MeasureInv
  PROVE  MeasurementsAreAccepted
<1> SUFFICES ASSUME stage = "measured", p9a # NotRun, \A n \in DOMAIN rows : rows[n].ns > 0
             PROVE  /\ Summarized(p9a)
                    /\ DOMAIN p9a.table = Range(Workloads)
                    /\ \A w \in DOMAIN p9a.table : p9a.table[w].repetitions = Repetitions
  BY DEF MeasurementsAreAccepted
<1>1. /\ plan \in Plans /\ Streamed(rows) /\ Len(rows) = PlannedSamples
      /\ p9aFile = rows /\ rows # <<>> /\ p9a = summarize_p9a_application(rows)
  BY DEF MeasureInv
<1>2. IsFile(rows) /\ NoDuplicate(rows)
  BY <1>1, StreamIsFile, StreamHasNoDuplicate
<1>3. /\ Whole(rows, MODES) /\ WorkloadsOf(rows) = Range(Workloads)
      /\ \A w \in Range(Workloads) : RepetitionsOf(rows, w) = 0 .. (Repetitions - 1)
  BY <1>1, StreamIsWhole
<1>4. \A n \in DOMAIN rows : rows[n].mode \in MODES /\ rows[n].ns \in Nat
  BY <1>2 DEF IsFile, IsSample
<1>5. ~p9a_refuses(rows)
  BY <1>1, <1>2, <1>3, <1>4 DEF p9a_refuses
<1>6. Summarized(p9a)
  BY <1>1, <1>5 DEF summarize_p9a_application, Summary, Summarized
<1>7. p9a.table = [w \in Range(Workloads) |-> p9a_row(rows, w)]
  BY <1>1, <1>3, <1>6, TableParts
<1>8. Cardinality(0 .. (Repetitions - 1)) = Repetitions
  <2>1. Repetitions \in Nat /\ Repetitions > 0
    BY <1>1, PlanParts
  <2>2. 0 \in Int /\ Repetitions - 1 \in Int /\ ~(0 > Repetitions - 1)
        /\ (Repetitions - 1) - 0 + 1 = Repetitions
    BY <2>1
  <2> QED BY <2>2, FS_Interval
<1>9. \A w \in Range(Workloads) : p9a_row(rows, w).repetitions = Repetitions
  BY <1>3, <1>8 DEF p9a_row
<1> QED BY <1>6, <1>7, <1>9

(* Both tools for P8 refuse a file with a row they cannot read. *)
LEMMA UnreadableIsRefused ==
  ASSUME NEW samples, ~Readable(samples)
  PROVE  p8_refuses(samples) /\ bench_refuses(samples)
<1>1. PICK n \in DOMAIN samples : samples[n].mode \notin PAIR
  BY DEF Readable, MODES, PAIR
<1>2. samples[n].workload \in WorkloadsOf(samples)
  BY DEF WorkloadsOf
<1>3. samples[n].mode \in ModesOf(samples, samples[n].workload)
  BY DEF ModesOf
<1>4. ModesOf(samples, samples[n].workload) # PAIR
  BY <1>1, <1>3
<1> QED BY <1>1, <1>2, <1>4 DEF p8_refuses, bench_refuses

(* The tables of P9a and P8 agree on what both hold. *)
LEMMA TablesAreComparable ==
  ASSUME MeasureInv
  PROVE  P8RemainsComparable
<1>1. p8 = bench
  <2>1. CASE Readable(p8File)
    BY <2>1, ToolsForP8Agree DEF MeasureInv
  <2>2. CASE ~Readable(p8File)
    BY <2>2, UnreadableIsRefused
       DEF MeasureInv, summarize_p8_application, summarize_p8_performance
  <2> QED BY <2>1, <2>2
<1>2. ASSUME stage = "measured", Summarized(p9a), p8 # NotRun
      PROVE  /\ Summarized(p8)
             /\ DOMAIN p8.table = DOMAIN p9a.table
             /\ \A w \in DOMAIN p9a.table :
                  /\ p8.table[w].repetitions = p9a.table[w].repetitions
                  /\ p8.table[w].baseline = p9a.table[w].tracked
                  /\ p8.table[w].extended = p9a.table[w].extended
                  /\ p8.table[w].paired = p9a.table[w].validation
  <2> DEFINE kept == WithoutBaseline(rows)
  <2>1. /\ plan \in Plans /\ Streamed(rows) /\ p9aFile = rows /\ p8File = kept
        /\ p8 = summarize_p8_application(kept)
    BY <1>2 DEF MeasureInv
  <2>2. /\ ~p9a_refuses(rows)
        /\ p9a.table = [w \in WorkloadsOf(rows) |-> p9a_row(rows, w)]
    BY <1>2, <2>1, TableParts
  <2>3. /\ ~p8_refuses(kept) /\ WorkloadsOf(kept) = WorkloadsOf(rows)
        /\ \A w \in WorkloadsOf(rows) :
             /\ p8_row(kept, w).repetitions = p9a_row(rows, w).repetitions
             /\ p8_row(kept, w).baseline = p9a_row(rows, w).tracked
             /\ p8_row(kept, w).extended = p9a_row(rows, w).extended
             /\ p8_row(kept, w).paired = p9a_row(rows, w).validation
    <3>1. IsFile(rows)
      BY <2>1, StreamIsFile
    <3> QED BY <2>2, <3>1, SummariesAgree
  <2> HIDE DEF kept
  <2>4. Summarized(p8)
    BY <2>1, <2>3 DEF summarize_p8_application, Summary, Summarized
  <2>5. p8.table = [w \in WorkloadsOf(rows) |-> p8_row(kept, w)]
    BY <2>1, <2>3, <2>4, TableParts
  <2> QED BY <2>2, <2>3, <2>4, <2>5
<1> QED BY <1>1, <1>2 DEF P8RemainsComparable

(* A machine that was slower for one repetition changes no overhead. *)
LEMMA NoDriftInTables ==
  ASSUME MeasureInv
  PROVE  DriftDoesNotShow
<1> SUFFICES ASSUME Summarized(p9a), NEW w \in DOMAIN p9a.table,
                    NEW r \in RepetitionsOf(p9aFile, w)
             PROVE  LET drifted == summarize_p9a_application(Slower(p9aFile, w, r)) IN
                    /\ Summarized(drifted)
                    /\ drifted.table[w].tracking = p9a.table[w].tracking
                    /\ drifted.table[w].validation = p9a.table[w].validation
                    /\ drifted.table[w].total = p9a.table[w].total
  BY DEF DriftDoesNotShow
<1> DEFINE slower == Slower(p9aFile, w, r)
           drifted == summarize_p9a_application(slower)
<1>1. /\ ~p9a_refuses(p9aFile) /\ w \in WorkloadsOf(p9aFile)
      /\ p9a.table[w] = p9a_row(p9aFile, w)
  BY TableParts
<1>2. IsFile(p9aFile)
  BY TableParts, StreamIsFile DEF MeasureInv
<1>3. /\ ~p9a_refuses(slower) /\ WorkloadsOf(slower) = WorkloadsOf(p9aFile)
      /\ \A a \in MODES, b \in MODES \ {"extended_sp3"} :
           Paired(slower, w, a, b) = Paired(p9aFile, w, a, b)
  BY <1>1, <1>2, DriftIsInvisible
<1> HIDE DEF slower
<1>4. Summarized(drifted) /\ drifted.table[w] = p9a_row(slower, w)
  BY <1>1, <1>3 DEF summarize_p9a_application, Summary, Summarized
<1>5. /\ Paired(slower, w, "tracked_no_check", "rlbox_only")
           = Paired(p9aFile, w, "tracked_no_check", "rlbox_only")
      /\ Paired(slower, w, "extended_sp3", "tracked_no_check")
           = Paired(p9aFile, w, "extended_sp3", "tracked_no_check")
      /\ Paired(slower, w, "extended_sp3", "rlbox_only")
           = Paired(p9aFile, w, "extended_sp3", "rlbox_only")
  BY <1>3 DEF MODES
<1>6. /\ p9a_row(slower, w).tracking = p9a_row(p9aFile, w).tracking
      /\ p9a_row(slower, w).validation = p9a_row(p9aFile, w).validation
      /\ p9a_row(slower, w).total = p9a_row(p9aFile, w).total
  BY <1>5 DEF p9a_row
<1> HIDE DEF drifted
<1>7. /\ drifted.table[w].tracking = p9a.table[w].tracking
      /\ drifted.table[w].validation = p9a.table[w].validation
      /\ drifted.table[w].total = p9a.table[w].total
  BY <1>1, <1>4, <1>6
<1> QED BY <1>4, <1>7 DEF drifted, slower

(* The factors of a measurement with one repetition multiply. *)
LEMMA FactorsOfTables ==
  ASSUME MeasureInv
  PROVE  FactorsMultiply
<1> SUFFICES ASSUME Summarized(p9a), NEW w \in DOMAIN p9a.table,
                    p9a.table[w].repetitions = 1
             PROVE  LET row == render_p9a(p9a.table)[w] IN
                    (200 + row.tracking) * (200 + row.validation) = 200 * (200 + row.total)
  BY DEF FactorsMultiply
<1> DEFINE row == p9a_row(p9aFile, w)
<1>1. /\ ~p9a_refuses(p9aFile) /\ w \in WorkloadsOf(p9aFile)
      /\ p9a.table[w] = row
  BY TableParts
<1>2. IsFile(p9aFile) /\ Exact(p9aFile)
  BY TableParts, StreamIsFile DEF MeasureInv
<1>3. Cardinality(RepetitionsOf(p9aFile, w)) = 1
  BY <1>1 DEF p9a_row
<1>4. (200 + row.tracking.median2) * (200 + row.validation.median2)
        = 200 * (200 + row.total.median2)
  BY <1>1, <1>2, <1>3, OneRepetition
<1> HIDE DEF row
<1>5. /\ render_p9a(p9a.table)[w].tracking = row.tracking.median2
      /\ render_p9a(p9a.table)[w].validation = row.validation.median2
      /\ render_p9a(p9a.table)[w].total = row.total.median2
  BY <1>1 DEF render_p9a
<1> QED BY <1>4, <1>5

(* For any workloads, any number of repetitions and wherever the script is *)
(* killed, a table of summarize_p9a_application.py or                      *)
(* summarize_p8_application.py is over whole repetitions, as many as it    *)
(* says, and over all of them if the script ran to its end.                *)
THEOREM TablesAreAlwaysWhole == MeasureSpec => []TablesAreOfWholeRepetitions
<1>1. MeasureInv => TablesAreOfWholeRepetitions
  BY OnlyWholeTables, WholeMeasurementIsAccepted DEF TablesAreOfWholeRepetitions
<1> QED BY <1>1, MeasureInitInv, MeasureNextInv, PTL DEF MeasureSpec

(* For any workloads and any number of repetitions, the overheads of the   *)
(* P9a and the P8 tables agree, both P8 tools give the same, the factors   *)
(* of one repetition multiply, and a machine that was slower for one       *)
(* repetition would have given the same overheads.                         *)
THEOREM OverheadsAlwaysAgree == MeasureSpec => []OverheadsAgree
<1>1. MeasureInv => OverheadsAgree
  BY TablesAreComparable, NoDriftInTables, FactorsOfTables DEF OverheadsAgree
<1> QED BY <1>1, MeasureInitInv, MeasureNextInv, PTL DEF MeasureSpec
=============================================================================
