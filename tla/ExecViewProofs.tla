----------------------------- MODULE ExecViewProofs -----------------------------
(***************************************************************************)
(* What ExecView promises, for any outputs and any line budgets: the count *)
(* of the lines left out is right, a failure is shown and said, what is    *)
(* left out can be had, and what was promised whole is whole.              *)
(***************************************************************************)
EXTENDS ExecView, FiniteSetTheorems, WellFoundedInduction, TLAPS

-----------------------------------------------------------------------------
(* Induction over the naturals, as a statement about sets.                 *)

(* A set that holds zero, and with a number the next, holds them all: one  *)
(* outside it would be outside with a least one.                           *)
LEMMA AllNaturals ==
    ASSUME NEW T, 0 \in T, \A n \in Nat : n \in T => n + 1 \in T
    PROVE  Nat \subseteq T
  <1> DEFINE Missing == Nat \ T
             Less == OpToRel(<, Nat)
  <1>1. SUFFICES ASSUME Missing # {} PROVE FALSE
    OBVIOUS
  <1>2. IsWellFoundedOn(Less, Nat)
    BY NatLessThanWellFounded
  <1>3. \A i, j \in Nat : <<i, j>> \in Less <=> i < j
    BY DEF OpToRel
  <1>4. Missing \subseteq Nat
    OBVIOUS
  <1> HIDE DEF Less, Missing
  <1>5. PICK x \in Missing : \A y \in Missing : ~ (<<y, x>> \in Less)
    BY <1>1, <1>2, <1>4, WFMin
  <1>6. x \in Nat /\ x \notin T
    BY DEF Missing
  <1>7. x # 0 /\ x - 1 \in Nat
    BY <1>6
  <1>8. x - 1 \notin T
    BY <1>6, <1>7
  <1>9. x - 1 \in Missing /\ x - 1 < x
    BY <1>6, <1>7, <1>8 DEF Missing
  <1> QED BY <1>3, <1>4, <1>5, <1>6, <1>7, <1>9

-----------------------------------------------------------------------------
(* The scan of a line budget (keep_signal_within).                         *)

Runs == [skipped : Nat, announced : Nat, markers : Nat]
Start == [skipped |-> 0, announced |-> 0, markers |-> 0]

(* A run after one line more.                                              *)
Passed(run, i, kept) == IF i \in kept THEN Announce(run) ELSE [run EXCEPT !.skipped = @ + 1]

(* The runs over the first lines, up to n of them.                         *)
IsScan(run, kept, n) == run = [i \in 0..n |-> IF i = 0 THEN Start ELSE Passed(run[i - 1], i, kept)]

(* There is such a function for every number of lines: that over one line  *)
(* more extends that over those before.                                    *)
LEMMA ScanExists == \A kept : \A n \in Nat : \E run : IsScan(run, kept, n)
  <1> SUFFICES ASSUME NEW kept PROVE \A n \in Nat : \E run : IsScan(run, kept, n)
    OBVIOUS
  <1> DEFINE T == {n \in Nat : \E run : IsScan(run, kept, n)}
  <1>1. 0 \in T
    <2>1. IsScan([i \in 0..0 |-> Start], kept, 0)
      BY DEF IsScan
    <2> QED BY <2>1
  <1>2. ASSUME NEW n \in Nat, n \in T PROVE n + 1 \in T
    <2>1. PICK run : IsScan(run, kept, n)
      BY <1>2
    <2> DEFINE longer == [i \in 0..(n + 1) |-> IF i <= n THEN run[i] ELSE Passed(run[n], n + 1, kept)]
    <2>2. ASSUME NEW i \in 0..(n + 1)
          PROVE  longer[i] = IF i = 0 THEN Start ELSE Passed(longer[i - 1], i, kept)
      <3>1. CASE i = 0
        BY <2>1, <3>1 DEF IsScan
      <3>2. CASE i \in 1..n
        <4>1. longer[i] = run[i] /\ longer[i - 1] = run[i - 1]
          BY <3>2
        <4>2. run[i] = Passed(run[i - 1], i, kept)
          BY <2>1, <3>2 DEF IsScan
        <4> QED BY <3>2, <4>1, <4>2
      <3>3. CASE i = n + 1
        <4>1. longer[i] = Passed(run[n], n + 1, kept) /\ longer[i - 1] = run[n]
          BY <3>3
        <4> QED BY <3>3, <4>1
      <3> QED BY <3>1, <3>2, <3>3
    <2>3. IsScan(longer, kept, n + 1)
      BY <2>2 DEF IsScan
    <2> QED BY <2>3
  <1> HIDE DEF T
  <1>3. Nat \subseteq T
    BY <1>1, <1>2, AllNaturals
  <1> QED BY <1>3 DEF T

(* Scan is the last of the runs over the whole output.                     *)
LEMMA ScanIsRun ==
    ASSUME NEW kept, Len(Raw) \in Nat
    PROVE  \E run : IsScan(run, kept, Len(Raw)) /\ Scan(kept) = run[Len(Raw)]
  <1> DEFINE run == CHOOSE r : IsScan(r, kept, Len(Raw))
  <1>1. IsScan(run, kept, Len(Raw))
    BY ScanExists
  <1>2. Scan(kept) = run[Len(Raw)]
    BY DEF Scan, IsScan, Passed, Start
  <1> QED BY <1>1, <1>2

(* After i lines: what was announced, what is still to be announced and    *)
(* what was kept are the i lines; a marker announces one line at least.    *)
Tallied(run, i, kept) ==
    /\ run \in Runs
    /\ run.skipped + run.announced + Cardinality(kept \cap 1..i) = i
    /\ run.markers <= run.announced
    /\ run.markers = 0 => run.announced = 0

(* Every run of the scan tallies.                                          *)
LEMMA ScanTallies ==
    ASSUME NEW kept, NEW n \in Nat, NEW run, IsScan(run, kept, n)
    PROVE  \A i \in 0..n : Tallied(run[i], i, kept)
  <1> DEFINE T == {i \in Nat : i <= n => Tallied(run[i], i, kept)}
  <1>1. 0 \in T
    <2>1. run[0] = Start
      BY DEF IsScan
    <2>2. kept \cap 1..0 = {}
      OBVIOUS
    <2> QED BY <2>1, <2>2, FS_EmptySet DEF Tallied, Runs, Start
  <1>2. ASSUME NEW i \in Nat, i \in T PROVE i + 1 \in T
    <2> SUFFICES ASSUME i + 1 <= n PROVE Tallied(run[i + 1], i + 1, kept)
      OBVIOUS
    <2>1. Tallied(run[i], i, kept)
      BY <1>2
    <2>2. run[i + 1] = Passed(run[i], i + 1, kept)
      BY DEF IsScan
    <2> DEFINE before == kept \cap 1..i
               now == kept \cap 1..(i + 1)
    <2>3. IsFiniteSet(1..i) /\ before \in SUBSET (1..i)
      BY FS_Interval
    <2>4. IsFiniteSet(before) /\ Cardinality(before) \in Nat
      <3>1. IsFiniteSet(before)
        BY <2>3, FS_Subset
      <3> QED BY <3>1, FS_CardinalityType
    <2>5. CASE i + 1 \in kept
      <3>1. now = before \cup {i + 1} /\ i + 1 \notin before
        BY <2>5
      <3> HIDE DEF before, now
      <3>2. Cardinality(now) = Cardinality(before) + 1
        BY <2>4, <3>1, FS_AddElement
      <3>3. run[i + 1] = Announce(run[i])
        BY <2>2, <2>5 DEF Passed
      <3>4. run[i + 1] \in Runs
        BY <2>1, <3>3 DEF Announce, Tallied, Runs
      <3>5. run[i + 1].skipped + run[i + 1].announced = run[i].skipped + run[i].announced
        BY <2>1, <3>3 DEF Announce, Tallied, Runs
      <3>6. /\ run[i + 1].markers <= run[i + 1].announced
            /\ run[i + 1].markers = 0 => run[i + 1].announced = 0
        BY <2>1, <3>3 DEF Announce, Tallied, Runs
      <3>7. run[i].skipped + run[i].announced + Cardinality(before) = i
        BY <2>1 DEF Tallied, before
      <3>8. run[i] \in Runs
        BY <2>1 DEF Tallied
      <3>9. run[i + 1].skipped + run[i + 1].announced + Cardinality(now) = i + 1
        BY <2>4, <3>2, <3>4, <3>5, <3>7, <3>8 DEF Runs
      <3> QED BY <3>4, <3>6, <3>9 DEF Tallied, now
    <2>6. CASE i + 1 \notin kept
      <3>1. now = before
        BY <2>6
      <3>2. run[i + 1] = [run[i] EXCEPT !.skipped = @ + 1]
        BY <2>2, <2>6 DEF Passed
      <3> HIDE DEF before, now
      <3>3. run[i].skipped + run[i].announced + Cardinality(before) = i
        BY <2>1 DEF Tallied, before
      <3>4. run[i] \in Runs /\ run[i + 1] \in Runs
        BY <2>1, <3>2 DEF Tallied, Runs
      <3>5. run[i + 1].skipped + run[i + 1].announced + Cardinality(now) = i + 1
        BY <2>4, <3>1, <3>2, <3>3, <3>4 DEF Runs
      <3>6. /\ run[i + 1].markers <= run[i + 1].announced
            /\ run[i + 1].markers = 0 => run[i + 1].announced = 0
        BY <2>1, <3>2 DEF Tallied, Runs
      <3> QED BY <3>4, <3>5, <3>6 DEF Tallied, now
    <2> QED BY <2>5, <2>6
  <1> HIDE DEF T
  <1>3. Nat \subseteq T
    BY <1>1, <1>2, AllNaturals
  <1> QED BY <1>3 DEF T

(* What a line budget leaves out is announced, line for line, by no more   *)
(* markers than lines, and by one at least.                                *)
LEMMA OmissionsCounted ==
    ASSUME NEW kept \in SUBSET (1..Len(Raw)), Len(Raw) \in Nat
    PROVE  /\ Cardinality(kept) \in 0..Len(Raw)
           /\ Omissions(kept).announced \in Nat /\ Omissions(kept).markers \in Nat
           /\ Omissions(kept).announced = Len(Raw) - Cardinality(kept)
           /\ Omissions(kept).markers <= Omissions(kept).announced
           /\ Omissions(kept).markers = 0 => Omissions(kept).announced = 0
  <1>1. IsFiniteSet(kept) /\ Cardinality(kept) \in Nat /\ Cardinality(kept) <= Len(Raw)
    <2>1. IsFiniteSet(1..Len(Raw)) /\ Cardinality(1..Len(Raw)) <= Len(Raw)
      <3>1. PICK n \in Nat : n = Len(Raw)
        OBVIOUS
      <3>2. IsFiniteSet(1..n) /\ Cardinality(1..n) = IF 1 > n THEN 0 ELSE n - 1 + 1
        BY FS_Interval
      <3>3. Cardinality(1..n) <= n
        BY <3>2
      <3> QED BY <3>1, <3>2, <3>3
    <2>2. IsFiniteSet(kept) /\ Cardinality(kept) <= Cardinality(1..Len(Raw))
      BY <2>1, FS_Subset
    <2> QED BY <2>1, <2>2, FS_CardinalityType
  <1>2. PICK run : IsScan(run, kept, Len(Raw)) /\ Scan(kept) = run[Len(Raw)]
    BY ScanIsRun
  <1>3. Tallied(Scan(kept), Len(Raw), kept)
    BY <1>2, ScanTallies
  <1>4. kept \cap 1..Len(Raw) = kept
    OBVIOUS
  <1>5. /\ Scan(kept) \in Runs
        /\ Scan(kept).skipped + Scan(kept).announced + Cardinality(kept) = Len(Raw)
        /\ Scan(kept).markers <= Scan(kept).announced
        /\ Scan(kept).markers = 0 => Scan(kept).announced = 0
    BY <1>3, <1>4 DEF Tallied
  <1>6. CASE Scan(kept).skipped = 0
    BY <1>1, <1>5, <1>6 DEF Omissions, Announce, Runs
  <1>7. CASE Scan(kept).skipped # 0
    BY <1>1, <1>5, <1>7 DEF Omissions, Announce, Runs
  <1> QED BY <1>6, <1>7

-----------------------------------------------------------------------------
(* Lines of a kind.                                                        *)

(* The lines of a body are finitely many, and fewer in a smaller one.      *)
LEMMA Counted ==
    ASSUME Len(Raw) \in Nat, NEW S \in SUBSET (1..Len(Raw)), NEW R \in SUBSET S
    PROVE  /\ IsFiniteSet(S) /\ Cardinality(S) \in Nat /\ Cardinality(R) <= Cardinality(S)
           /\ \A kind : /\ Count(S, kind) \in Nat /\ Count(R, kind) \in Nat
                        /\ Count(R, kind) <= Count(S, kind)
  <1>1. IsFiniteSet(S)
    <2>1. IsFiniteSet(1..Len(Raw))
      BY FS_Interval
    <2> QED BY <2>1, FS_Subset
  <1>2. Cardinality(R) <= Cardinality(S) /\ Cardinality(S) \in Nat
    BY <1>1, FS_Subset, FS_CardinalityType
  <1>3. ASSUME NEW kind
        PROVE  /\ Count(S, kind) \in Nat /\ Count(R, kind) \in Nat
               /\ Count(R, kind) <= Count(S, kind)
    <2> DEFINE ofS == {i \in S : Raw[i] = kind}
               ofR == {i \in R : Raw[i] = kind}
    <2>1. ofS \in SUBSET S /\ ofR \in SUBSET ofS
      OBVIOUS
    <2> HIDE DEF ofS, ofR
    <2>2. IsFiniteSet(ofS)
      BY <1>1, <2>1, FS_Subset
    <2>3. IsFiniteSet(ofR) /\ Cardinality(ofR) <= Cardinality(ofS)
      BY <2>1, <2>2, FS_Subset
    <2>4. Cardinality(ofS) \in Nat /\ Cardinality(ofR) \in Nat
      BY <2>2, <2>3, FS_CardinalityType
    <2> QED BY <2>3, <2>4 DEF Count, ofS, ofR
  <1> QED BY <1>1, <1>2, <1>3

(* As many lines as their last place.                                      *)
LEMMA IntervalSize == \A n \in Nat : Cardinality(1..n) = n
  <1> SUFFICES ASSUME NEW n \in Nat PROVE Cardinality(1..n) = n
    OBVIOUS
  <1>1. 1 \in Int /\ n \in Int
    OBVIOUS
  <1>2. Cardinality(1..n) = IF 1 > n THEN 0 ELSE n - 1 + 1
    BY <1>1, FS_Interval
  <1> QED BY <1>2

(* A body that shows every failure line of the raw output.                 *)
Shown(S) == \A kind \in Signals : Count(S, kind) = Count(1..Len(Raw), kind)

(* A body that loses no failure line of one that shows them all does too.  *)
LEMMA ShownStays ==
    ASSUME Len(Raw) \in Nat, NEW before, NEW after,
           before.kept \in SUBSET (1..Len(Raw)), after.kept \in SUBSET (1..Len(Raw)),
           Shown(before.kept), ~LosesFailure(before, after)
    PROVE  Shown(after.kept)
  <1> SUFFICES ASSUME NEW kind \in Signals
               PROVE  Count(after.kept, kind) = Count(1..Len(Raw), kind)
    BY DEF Shown
  <1>1. Count(Indispensable(before.kept), kind) = Count(before.kept, kind)
    <2>1. {i \in Indispensable(before.kept) : Raw[i] = kind} = {i \in before.kept : Raw[i] = kind}
      BY DEF Indispensable
    <2> QED BY <2>1 DEF Count
  <1>2. ~(Count(Indispensable(before.kept), kind) > Count(after.kept, kind))
    BY DEF LosesFailure, Kinds, Signals
  <1>3. /\ Count(after.kept, kind) \in Nat /\ Count(1..Len(Raw), kind) \in Nat
        /\ Count(after.kept, kind) <= Count(1..Len(Raw), kind)
    BY Counted
  <1>4. Count(before.kept, kind) = Count(1..Len(Raw), kind)
    BY DEF Shown
  <1> QED BY <1>1, <1>2, <1>3, <1>4

(* The raw output shows its failures and loses no commit.                  *)
LEMMA RawIsWhole ==
    ASSUME Raw \in Seq(Kinds)
    PROVE  /\ RawBody \in Body /\ RawBody.kept = 1..Len(Raw) /\ RawBody.size = Len(Raw)
           /\ RawBody.repeats = {}
           /\ Shown(RawBody.kept) /\ ~LosesIdentity(RawBody, RawBody)
  <1>1. /\ Len(Raw) \in Nat /\ RawBody.kept = 1..Len(Raw) /\ RawBody.size = Len(Raw)
        /\ RawBody.repeats = {} /\ RawBody \in Body
    BY DEF RawBody, Body
  <1>2. Count(1..Len(Raw), "commit") \in Nat
    BY <1>1, Counted
  <1>3. Shown(RawBody.kept)
    BY <1>1 DEF Shown
  <1> HIDE DEF RawBody
  <1>4. ~LosesIdentity(RawBody, RawBody)
    BY <1>1, <1>2 DEF LosesIdentity
  <1> QED BY <1>1, <1>3, <1>4

-----------------------------------------------------------------------------
(* The jobs, the stages and the views.                                     *)

(* What is said of every job.                                              *)
LEMMA JobFacts ==
    ASSUME job \in Jobs
    PROVE  /\ Raw \in Seq(Kinds) /\ Len(Raw) \in Nat /\ DOMAIN Raw = 1..Len(Raw)
           /\ job.path \in {"inspected", "separated", "captured"}
           /\ job.launched \in BOOLEAN /\ job.tee \in BOOLEAN
           /\ ~job.launched => job.path # "captured"
           /\ job.mode # "none" => job.path = "inspected" /\ job.store = "none"
           /\ job.path = "captured" => job.store # "none"
           /\ job.store \in {"none", "ok", "failing"}
  <1>1. job.raw \in Raws /\ job.path \in DOMAIN Stages
    BY DEF Jobs
  <1>2. Raw \in Seq(Kinds)
    BY <1>1, ExecAssumption DEF Raw
  <1> QED BY <1>1, <1>2 DEF Jobs, Stages

(* The stage after each, on each path.                                     *)
Following ==
    [inspected |-> [view |-> "git", git |-> "compress", compress |-> "gate", gate |-> "status",
                    status |-> "archive", archive |-> "done"],
     separated |-> [view |-> "compress", compress |-> "gate", gate |-> "rekey", rekey |-> "git",
                    git |-> "archive", archive |-> "status", status |-> "done"],
     captured  |-> [view |-> "compress", compress |-> "gate", gate |-> "nogain", nogain |-> "git",
                    git |-> "rekey", rekey |-> "status", status |-> "archive", archive |-> "done"]]

(* Advance leads to the stage that follows on the path of the job.         *)
LEMMA Follows ==
    ASSUME job \in Jobs, at \in DOMAIN Stages[job.path], Advance, Stage # "done"
    PROVE  /\ job' = job /\ at' \in DOMAIN Stages[job.path]
           /\ Stage \in DOMAIN Following[job.path] /\ Stage' = Following[job.path][Stage]
  <1>1. CASE job.path = "inspected"
    <2>1. at \in 1..7
      BY <1>1 DEF Stages
    <2>2. Stage = <<"view", "git", "compress", "gate", "status", "archive", "done">>[at]
      BY <1>1 DEF Stage, Stages
    <2>3. Stage' = <<"view", "git", "compress", "gate", "status", "archive", "done">>[at + 1]
      BY <1>1 DEF Stage, Stages, Advance
    <2>4. at \in 1..6
      BY <2>1, <2>2
    <2> QED BY <1>1, <2>2, <2>3, <2>4 DEF Following, Advance, Stages
  <1>2. CASE job.path = "separated"
    <2>1. at \in 1..8
      BY <1>2 DEF Stages
    <2>2. Stage = <<"view", "compress", "gate", "rekey", "git", "archive", "status", "done">>[at]
      BY <1>2 DEF Stage, Stages
    <2>3. Stage' = <<"view", "compress", "gate", "rekey", "git", "archive", "status", "done">>[at + 1]
      BY <1>2 DEF Stage, Stages, Advance
    <2>4. at \in 1..7
      BY <2>1, <2>2
    <2> QED BY <1>2, <2>2, <2>3, <2>4 DEF Following, Advance, Stages
  <1>3. CASE job.path = "captured"
    <2>1. at \in 1..9
      BY <1>3 DEF Stages
    <2>2. Stage = <<"view", "compress", "gate", "nogain", "git", "rekey", "status", "archive", "done">>[at]
      BY <1>3 DEF Stage, Stages
    <2>3. Stage' = <<"view", "compress", "gate", "nogain", "git", "rekey", "status", "archive", "done">>[at + 1]
      BY <1>3 DEF Stage, Stages, Advance
    <2>4. at \in 1..8
      BY <2>1, <2>2
    <2> QED BY <1>3, <2>2, <2>3, <2>4 DEF Following, Advance, Stages
  <1> QED BY <1>1, <1>2, <1>3, JobFacts

(* A view is a body no longer than the raw output.                         *)
Fits(body) == body \in Body /\ body.size <= Len(Raw)

(* The views fit, and count no repeats.                                    *)
LEMMA ViewsFit == Raw \in Seq(Kinds) => \A v \in Views : Fits(v) /\ v.repeats = {}
  BY DEF Views, Bodies, Body, Fits

(* A body with the runs of the raw output folded.                          *)
Folded(body) ==
    body.kept = RunStarts /\ body.repeats = DOMAIN Raw \ RunStarts

(* log_runs folds, and makes nothing that does not fit.                    *)
LEMMA LogRunsFold ==
    ASSUME Raw \in Seq(Kinds), NEW b \in LogRuns
    PROVE  Fits(b) /\ Folded(b) /\ b.size \in Nat
  <1>1. Len(Raw) \in Nat /\ DOMAIN Raw = 1..Len(Raw)
    OBVIOUS
  <1>2. RunStarts \in SUBSET (1..Len(Raw))
    BY <1>1 DEF RunStarts
  <1>3. Cardinality(RunStarts) \in Nat
    <2>1. IsFiniteSet(1..Len(Raw))
      BY <1>1, FS_Interval
    <2>2. IsFiniteSet(RunStarts)
      BY <1>2, <2>1, FS_Subset
    <2> QED BY <2>2, FS_CardinalityType
  <1>4. PICK n \in Cardinality(RunStarts)..(Len(Raw) - 1) :
            b = [kept |-> RunStarts, repeats |-> DOMAIN Raw \ RunStarts, size |-> n]
    BY DEF LogRuns
  <1>5. n \in Nat /\ n <= Len(Raw)
    BY <1>1, <1>3, <1>4
  <1> HIDE DEF RunStarts
  <1> QED BY <1>1, <1>2, <1>4, <1>5 DEF Fits, Folded, Body

(* Folded runs tell every line: it starts its run or is counted below one  *)
(* that reads the same.                                                    *)
LEMMA FoldedTells ==
    ASSUME Raw \in Seq(Kinds), NEW body, Folded(body)
    PROVE  /\ body.kept \cup body.repeats = 1..Len(Raw)
           /\ \A i \in body.repeats : i - 1 \in 1..Len(Raw) /\ Raw[i - 1] = Raw[i]
  <1>1. Len(Raw) \in Nat /\ DOMAIN Raw = 1..Len(Raw)
    OBVIOUS
  <1>2. body.kept \cup body.repeats = 1..Len(Raw)
    BY <1>1 DEF Folded, RunStarts
  <1>3. ASSUME NEW i \in body.repeats PROVE i - 1 \in 1..Len(Raw) /\ Raw[i - 1] = Raw[i]
    BY <1>1, <1>3 DEF Folded, RunStarts, StartsRun
  <1> QED BY <1>2, <1>3

(* What guard_routed_output lets through fits and shows every failure.     *)
LEMMA GuardedShown ==
    ASSUME Raw \in Seq(Kinds), NEW v, v.repeats = {},
           v \in [kept : SUBSET (1..Len(Raw)), repeats : SUBSET (1..Len(Raw)), size : Nat]
    PROVE  Fits(Guarded(v)) /\ Shown(Guarded(v).kept) /\ Guarded(v).repeats = {}
  <1>1. CASE Guarded(v) = RawBody
    BY <1>1, RawIsWhole DEF Fits
  <1>2. CASE Guarded(v) # RawBody
    <2>1. /\ Guarded(v) = v /\ ~LosesFailure(RawBody, v) /\ ~(v.size >= RawBody.size)
      BY <1>2 DEF Guarded
    <2>2. v.size < Len(Raw) /\ Len(Raw) \in Nat /\ v.size \in Nat /\ v.kept \in SUBSET (1..Len(Raw))
      BY <2>1, RawIsWhole
    <2>3. Fits(v)
      BY <2>2 DEF Fits, Body
    <2>4. Shown(v.kept)
      BY <2>1, <2>2, RawIsWhole, ShownStays
    <2> QED BY <2>1, <2>3, <2>4
  <1> QED BY <1>1, <1>2

(* The lines within a budget are lines of the output.                      *)
LEMMA WithinRaw ==
    ASSUME Raw \in Seq(Kinds), NEW budget \in Nat, NEW from \in {"head", "middle", "tail"}
    PROVE  Within(Raw, budget, from) \in SUBSET (1..Len(Raw))
  <1>1. Len(Raw) \in Nat /\ DOMAIN Raw = 1..Len(Raw)
    OBVIOUS
  <1>2. CASE Len(Raw) <= budget
    BY <1>1, <1>2 DEF Within
  <1>3. CASE ~(Len(Raw) <= budget) /\ from = "tail"
    BY <1>1, <1>3 DEF Within
  <1>4. CASE ~(Len(Raw) <= budget) /\ from = "head"
    BY <1>1, <1>4 DEF Within
  <1>5. CASE ~(Len(Raw) <= budget) /\ from = "middle"
    BY <1>1, <1>5 DEF Within
  <1> QED BY <1>1, <1>2, <1>3, <1>4, <1>5

-----------------------------------------------------------------------------
(* The inductive invariant.                                                *)

(* The printed text.                                                       *)
Printed == [body : Body, marks : SUBSET Body, status : BOOLEAN, note : BOOLEAN, hint : BOOLEAN]

Typed ==
    /\ job \in Jobs
    /\ at \in DOMAIN Stages[job.path]
    /\ filtered \in Body /\ output \in Printed
    /\ keys \subseteq Body /\ ccr \subseteq Body /\ tee \subseteq Body
    /\ announced \in 0..Len(Raw)

Inspected == job.path = "inspected"
AskedForRaw == job.launched /\ job.mode = "none" /\ (KeepsRaw \/ TestsPassed)
MayDrop == {"native", "json-layout", "observe"}

(* How far the job has come.                                               *)
Gated   == Stage \notin {"view", "compress", "gate"} /\ ~(Inspected /\ Stage = "git")
Rekeyed == \/ job.path = "separated" /\ Stage \in {"git", "archive", "status", "done"}
           \/ job.path = "captured" /\ Stage \in {"status", "archive", "done"}
GitSeen == \/ Inspected /\ Stage \notin {"view", "git"}
           \/ job.path = "separated" /\ Stage \in {"archive", "status", "done"}
           \/ job.path = "captured" /\ Stage \in {"rekey", "status", "archive", "done"}
Stated   == Stage = "done" \/ (Stage = "archive" /\ job.path # "separated")
Archived == Stage = "done" \/ (Stage = "status" /\ job.path = "separated")

(* What the filter made, and of which family it is.                        *)
Sound(family, body) ==
    /\ job.launched => body.size <= Len(Raw)
    /\ ~job.launched => family \in {"launch-error", "git-identity-guard"}
    /\ family = "native_owned" => body = RawBody
    /\ family = "git-identity-guard" => Inspected
    /\ job.launched /\ family \notin MayDrop \cup {"log-runs"} => Shown(body.kept)
    /\ family # "log-runs" => body.repeats = {}
    /\ family = "log-runs" => body = RawBody \/ Folded(body)
    /\ AskedForRaw => body = RawBody /\ family \in {"raw_on_failure", "lossless", "git-identity-guard"}

FilterInv ==
    /\ Stage # "view" => Sound(filter, filtered)
    /\ filter = "toml" => announced = Len(Raw) - Cardinality(filtered.kept)

(* Until it is compressed, and where no key is kept on the default path,   *)
(* the text is what the filter made.                                       *)
SameInv ==
    /\ Stage \in {"view", "compress"} \/ (Inspected /\ Stage = "git") => keys = {}
    /\ Stage = "compress" \/ (Inspected /\ keys = {}) => output.body = filtered

(* The keys, and the markers that name them.                               *)
KeysInv ==
    /\ output.marks \subseteq keys
    /\ keys \subseteq {IF Rekeyed THEN RawBody ELSE filtered}
    /\ keys # {} => job.store # "none" /\ output.body # RawBody
    /\ keys # {} /\ ~Rekeyed => output.body.size < Len(Raw)
    /\ keys # {} /\ Inspected => filter = "native_owned"
    /\ job.store = "ok" => keys \subseteq ccr
    /\ job.path = "captured" /\ Rekeyed /\ output.body # RawBody => keys = {RawBody}

(* Before the status, the note and the hint are due there are none.        *)
BareInv ==
    /\ ~Stated /\ ~Archived => ~output.status /\ ~output.note /\ ~output.hint

(* What was asked for raw stays raw.                                       *)
AskedInv ==
    AskedForRaw /\ Stage # "view" =>
        output.body = RawBody /\ output.marks = {} /\ keys = {} /\ ~output.hint

(* After the guard every commit is there, or the key of the raw is.        *)
CommitInv ==
    GitSeen /\ job.launched /\ job.mode = "none" /\ LosesIdentity(RawBody, output.body) =>
        Inspected /\ filter = "native_owned" /\ keys = {RawBody}

(* After the gate every failure is there.                                  *)
FailureInv ==
    Gated /\ job.launched /\ filter \notin MayDrop \cup {"log-runs"} => Shown(output.body.kept)

(* Runs are folded by the view of a log, and what folds them is not touched*)
(* unless it is given up for the raw.                                      *)
RunsInv ==
    /\ filter # "log-runs" => output.body.repeats = {}
    /\ filter = "log-runs" => output.body \in {filtered, RawBody}

StatusInv == Stated /\ job.exit # 0 /\ job.mode # "raw" => Announced(output)

TeeInv == Archived /\ job.tee /\ output.body # RawBody => RawBody \in tee

IInv == /\ Typed /\ FilterInv /\ SameInv /\ KeysInv /\ BareInv /\ AskedInv
        /\ CommitInv /\ FailureInv /\ RunsInv /\ StatusInv /\ TeeInv

(* The invariant holds at the start.                                       *)
LEMMA InitIInv == Init => IInv
  <1> SUFFICES ASSUME Init PROVE IInv
    OBVIOUS
  <1>1. /\ job \in Jobs /\ at = 1 /\ filter = "" /\ filtered = RawBody
        /\ keys = {} /\ ccr = {} /\ tee = {} /\ announced = 0
        /\ output = [body |-> RawBody, marks |-> {}, status |-> FALSE, note |-> FALSE, hint |-> FALSE]
    BY DEF Init, Text
  <1>2. /\ Raw \in Seq(Kinds) /\ Len(Raw) \in Nat
        /\ job.path \in {"inspected", "separated", "captured"}
    BY <1>1, JobFacts
  <1>3. RawBody \in Body
    BY <1>2, RawIsWhole
  <1>4. at \in DOMAIN Stages[job.path] /\ Stage = "view"
    <2>1. CASE job.path = "inspected"
      <3>1. Stages[job.path] = <<"view", "git", "compress", "gate", "status", "archive", "done">>
        BY <2>1 DEF Stages
      <3>2. 1 \in DOMAIN Stages[job.path] /\ Stages[job.path][1] = "view"
        BY <3>1
      <3> QED BY <1>1, <3>2 DEF Stage
    <2>2. CASE job.path = "separated"
      <3>1. Stages[job.path] = <<"view", "compress", "gate", "rekey", "git", "archive", "status", "done">>
        BY <2>2 DEF Stages
      <3>2. 1 \in DOMAIN Stages[job.path] /\ Stages[job.path][1] = "view"
        BY <3>1
      <3> QED BY <1>1, <3>2 DEF Stage
    <2>3. CASE job.path = "captured"
      <3>1. Stages[job.path] = <<"view", "compress", "gate", "nogain", "git", "rekey", "status", "archive", "done">>
        BY <2>3 DEF Stages
      <3>2. 1 \in DOMAIN Stages[job.path] /\ Stages[job.path][1] = "view"
        BY <3>1
      <3> QED BY <1>1, <3>2 DEF Stage
    <2> QED BY <1>2, <2>1, <2>2, <2>3
  <1>5. Typed
    <2>1. output \in Printed
      BY <1>1, <1>3 DEF Printed
    <2>2. keys \subseteq Body /\ ccr \subseteq Body /\ tee \subseteq Body
      BY <1>1
    <2>3. announced \in 0..Len(Raw)
      <3>1. 0 \in 0..Len(Raw) BY <1>2
      <3>2. announced = 0 BY <1>1
      <3> QED BY <3>1, <3>2
    <2>4. filtered \in Body
      BY <1>1, <1>3
    <2> QED BY <1>1, <1>4, <2>1, <2>2, <2>3, <2>4 DEF Typed
  <1>6. FilterInv /\ SameInv
    BY <1>1, <1>4 DEF FilterInv, SameInv
  <1>7. KeysInv
    <2>1. ~Rekeyed BY <1>4 DEF Rekeyed
    <2> QED BY <1>1, <2>1 DEF KeysInv
  <1>8. BareInv /\ AskedInv
    BY <1>1, <1>4 DEF BareInv, AskedInv
  <1>9. CommitInv /\ FailureInv /\ StatusInv /\ TeeInv
    BY <1>4 DEF CommitInv, FailureInv, StatusInv, TeeInv, Gated, GitSeen, Stated, Archived
  <1>10. RunsInv
    BY <1>1, <1>2, RawIsWhole DEF RunsInv
  <1> QED BY <1>5, <1>6, <1>7, <1>8, <1>9, <1>10 DEF IInv

(* What depends on the job alone stays with it.                            *)
LEMMA JobStays ==
    ASSUME job' = job
    PROVE  /\ Raw' = Raw /\ RawBody' = RawBody /\ Body' = Body /\ Printed' = Printed
           /\ RunStarts' = RunStarts
           /\ (Inspected' <=> Inspected) /\ (AskedForRaw' <=> AskedForRaw)
  BY DEF Raw, RawBody, Body, Printed, RunStarts, StartsRun, Inspected, AskedForRaw, KeepsRaw, TestsPassed

(* A view is made: sound, it leads to the next stage of any path.          *)
LEMMA ShowsStep ==
    ASSUME IInv, Stage = "view", NEW family, NEW body \in Body, Shows(family, body),
           Sound(family, NotEmptied(body)), family # "git-identity-guard",
           announced' \in 0..Len(Raw),
           family = "toml" => announced' = Len(Raw) - Cardinality(NotEmptied(body).kept)
    PROVE  IInv'
  <1>1. /\ Typed /\ job \in Jobs /\ at \in DOMAIN Stages[job.path] /\ keys = {}
        /\ ccr \subseteq Body /\ tee \subseteq Body
    BY DEF IInv, Typed, SameInv
  <1>2. Advance /\ job' = job
    BY DEF Shows, Advance
  <1>3. /\ at' \in DOMAIN Stages[job.path] /\ Stage' = (IF Inspected THEN "git" ELSE "compress")
        /\ job.path \in {"inspected", "separated", "captured"}
        /\ Raw \in Seq(Kinds)
    BY <1>1, <1>2, Follows, JobFacts DEF Following, Inspected
  <1>4. PICK made : made = NotEmptied(body)
    OBVIOUS
  <1>5. made \in Body
    BY <1>3, <1>4, RawIsWhole DEF NotEmptied
  <1>6. /\ filter' = family /\ filtered' = made /\ keys' = {} /\ ccr' = ccr /\ tee' = tee
        /\ output' = [body |-> made, marks |-> {}, status |-> FALSE, note |-> FALSE, hint |-> FALSE]
    BY <1>1, <1>4 DEF Shows, Text
  <1>7. Sound(family, made)
    BY <1>4
  <1>8. Typed'
    <2>1. output' \in Printed
      BY <1>5, <1>6 DEF Printed
    <2>2. announced' \in 0..Len(Raw)
      OBVIOUS
    <2> QED BY <1>1, <1>2, <1>3, <1>5, <1>6, <2>1, <2>2, JobStays DEF Typed
  <1>9. FilterInv'
    <2>1. family = "toml" => announced' = Len(Raw) - Cardinality(made.kept)
      BY <1>4
    <2>2. (filter = "toml" => announced = Len(Raw) - Cardinality(filtered.kept))'
      BY <1>2, <1>6, <2>1, JobStays
    <2>3. Sound(filter, filtered)'
      BY <1>2, <1>6, <1>7, JobStays DEF Sound, Folded, Shown, Count, Inspected
    <2> QED BY <2>2, <2>3 DEF FilterInv
  <1>10. SameInv' /\ KeysInv'
    <2>1. SameInv'
      BY <1>6 DEF SameInv
    <2>2. ~Rekeyed'
      BY <1>2, <1>3 DEF Rekeyed, Inspected
    <2>3. output'.marks = {}
      BY <1>6
    <2> QED BY <1>6, <2>1, <2>2, <2>3 DEF KeysInv
  <1>11. BareInv' /\ AskedInv'
    BY <1>2, <1>6, <1>7, JobStays DEF BareInv, AskedInv, Sound
  <1>12. CommitInv' /\ FailureInv' /\ StatusInv' /\ TeeInv'
    BY <1>2, <1>3, JobStays DEF CommitInv, FailureInv, StatusInv, TeeInv, Gated, GitSeen, Stated,
       Archived, Inspected
  <1>13. RunsInv'
    BY <1>6, <1>7 DEF RunsInv, Sound
  <1> QED BY <1>8, <1>9, <1>10, <1>11, <1>12, <1>13 DEF IInv

(* Every way to make a view keeps the invariant.                           *)
LEMMA ViewStep ==
    ASSUME IInv, ShowLaunchError \/ Observe \/ ShowRaw \/ ShowFiltered \/ ShowBudgeted
    PROVE  IInv'
  <1>1. /\ Typed /\ job \in Jobs /\ announced \in 0..Len(Raw) /\ Raw \in Seq(Kinds)
        /\ Len(Raw) \in Nat
    BY JobFacts DEF IInv, Typed
  <1>2. /\ RawBody \in Body /\ RawBody.size = Len(Raw) /\ RawBody.kept = 1..Len(Raw)
        /\ Shown(RawBody.kept) /\ RawBody.repeats = {} /\ Fits(RawBody)
    BY <1>1, RawIsWhole DEF Fits
  <1>3. CASE ShowLaunchError
    <2> DEFINE body == [kept |-> {}, repeats |-> {}, size |-> 1]
    <2>1. body \in Body
      BY <1>1 DEF Body
    <2>2. NotEmptied(body) = body
      BY DEF NotEmptied
    <2>3. Sound("launch-error", body)
      BY <1>3 DEF ShowLaunchError, Sound, AskedForRaw
    <2> HIDE DEF body
    <2> QED BY <1>1, <1>3, <2>1, <2>2, <2>3, ShowsStep DEF ShowLaunchError, body
  <1>4. CASE Observe
    <2>1. PICK b \in Views : Shows("observe", b)
      BY <1>4 DEF Observe
    <2>2. Fits(b) /\ Fits(NotEmptied(b)) /\ NotEmptied(b).repeats = {}
      BY <1>1, <1>2, <2>1, ViewsFit DEF NotEmptied
    <2>3. Sound("observe", NotEmptied(b))
      BY <1>4, <2>2 DEF Observe, Sound, AskedForRaw, MayDrop, Fits
    <2> QED BY <1>1, <1>4, <2>1, <2>2, <2>3, ShowsStep DEF Observe, Fits
  <1>5. CASE ShowRaw
    <2>1. NotEmptied(RawBody) = RawBody
      BY DEF NotEmptied
    <2>2. PICK family \in {"raw_on_failure", "lossless"} : Shows(family, RawBody)
      BY <1>5 DEF ShowRaw
    <2>3. Sound(family, RawBody)
      BY <1>1, <1>2, <1>5, <2>2 DEF ShowRaw, Sound
    <2> QED BY <1>1, <1>2, <1>5, <2>1, <2>2, <2>3, ShowsStep DEF ShowRaw
  <1>6. CASE ShowFiltered
    <2>1. PICK family \in Filters \ {"toml"} : \E b \in ViewsOf(family) : Shows(family, b)
      BY <1>6 DEF ShowFiltered
    <2>2. PICK b \in ViewsOf(family) : Shows(family, b)
      BY <2>1
    <2>3. family \in {"native", "lossless", "json-layout", "log-runs", "routed", "git-passthrough",
                      "native_owned", "json-passthrough", "listing"}
      BY <1>1, <2>1 DEF Filters, Structured, Lossless, Jobs, Commands
    <2>4. /\ Fits(b)
          /\ family \notin {"native", "json-layout", "log-runs"} => Shown(b.kept)
          /\ family # "log-runs" => b.repeats = {}
          /\ family = "log-runs" => Folded(b)
          /\ family = "native_owned" => b = RawBody
      <3>1. CASE family \in {"native", "json-layout"}
        <4>1. b \in Views
          BY <2>2, <3>1 DEF ViewsOf
        <4> QED BY <1>1, <3>1, <4>1, ViewsFit
      <3>2. CASE family = "log-runs"
        <4>1. b \in LogRuns
          BY <2>2, <3>2 DEF ViewsOf
        <4> QED BY <1>1, <3>2, <4>1, LogRunsFold
      <3>3. CASE family \in {"lossless", "git-passthrough", "native_owned", "json-passthrough"}
        BY <1>2, <2>2, <3>3 DEF ViewsOf
      <3>4. CASE family \in {"routed", "listing"}
        <4>1. PICK v \in Views : b = Guarded(v)
          BY <2>2, <3>4 DEF ViewsOf
        <4>2. /\ v \in [kept : SUBSET (1..Len(Raw)), repeats : SUBSET (1..Len(Raw)), size : Nat]
              /\ v.repeats = {}
          BY <1>1, ViewsFit DEF Fits, Body
        <4> QED BY <1>1, <3>4, <4>1, <4>2, GuardedShown
      <3> QED BY <2>3, <3>1, <3>2, <3>3, <3>4
    <2>5. /\ Fits(NotEmptied(b))
          /\ family \notin {"native", "json-layout", "log-runs"} => Shown(NotEmptied(b).kept)
          /\ family # "log-runs" => NotEmptied(b).repeats = {}
          /\ family = "log-runs" => NotEmptied(b) = RawBody \/ Folded(NotEmptied(b))
          /\ family = "native_owned" => NotEmptied(b) = RawBody
      BY <1>2, <2>4 DEF NotEmptied
    <2>6. Sound(family, NotEmptied(b))
      BY <1>6, <2>3, <2>5 DEF ShowFiltered, FilterDue, Sound, AskedForRaw, MayDrop, Fits
    <2> QED BY <1>1, <1>6, <2>1, <2>2, <2>3, <2>4, <2>6, ShowsStep DEF ShowFiltered, FilterDue, Fits
  <1>7. CASE ShowBudgeted
    <2>1. PICK budget \in Budgets, from \in {"head", "middle", "tail"} :
               LET kept == Within(Raw, budget, from)
                   view == [kept |-> kept, repeats |-> {},
                            size |-> Cardinality(kept) + Omissions(kept).markers]
               IN  /\ Shows("toml", Guarded(view))
                   /\ announced' = IF Guarded(view) = view THEN Omissions(kept).announced ELSE 0
      BY <1>7 DEF ShowBudgeted
    <2>2. PICK kept : kept = Within(Raw, budget, from)
      OBVIOUS
    <2>3. PICK count : count = Cardinality(kept)
      OBVIOUS
    <2>4. PICK run : run = Omissions(kept)
      OBVIOUS
    <2>5. PICK view : view = [kept |-> kept, repeats |-> {}, size |-> count + run.markers]
      OBVIOUS
    <2>6. /\ Shows("toml", Guarded(view))
          /\ announced' = IF Guarded(view) = view THEN run.announced ELSE 0
      BY <2>1, <2>2, <2>3, <2>4, <2>5
    <2>7. kept \in SUBSET (1..Len(Raw))
      BY <1>1, <2>2, WithinRaw, ExecAssumption
    <2>8. /\ count \in 0..Len(Raw) /\ run.announced \in Nat /\ run.markers \in Nat
          /\ run.announced = Len(Raw) - count
          /\ run.markers <= run.announced
          /\ run.markers = 0 => run.announced = 0
      BY <1>1, <2>3, <2>4, <2>7, OmissionsCounted
    <2>9. /\ view \in [kept : SUBSET (1..Len(Raw)), repeats : SUBSET (1..Len(Raw)), size : Nat]
          /\ view.repeats = {}
      BY <1>1, <2>5, <2>7, <2>8
    <2>10. Fits(Guarded(view)) /\ Shown(Guarded(view).kept) /\ Guarded(view).repeats = {}
      BY <1>1, <2>9, GuardedShown
    <2>11. /\ Fits(NotEmptied(Guarded(view))) /\ Shown(NotEmptied(Guarded(view)).kept)
           /\ NotEmptied(Guarded(view)).repeats = {}
      BY <1>2, <2>10 DEF NotEmptied
    <2>12. Sound("toml", NotEmptied(Guarded(view)))
      BY <1>7, <2>11 DEF ShowBudgeted, FilterDue, Sound, AskedForRaw, Fits
    <2>13. announced' \in 0..Len(Raw)
      BY <1>1, <2>6, <2>8
    <2>14. Cardinality(RawBody.kept) = Len(Raw)
      BY <1>1, <1>2, IntervalSize
    <2>15. announced' = Len(Raw) - Cardinality(NotEmptied(Guarded(view)).kept)
      <3>1. CASE Guarded(view) = RawBody
        <4>1. NotEmptied(Guarded(view)) = RawBody
          BY <3>1 DEF NotEmptied
        <4>2. announced' = 0
          <5>1. CASE Guarded(view) = view
            <6>1. kept = 1..Len(Raw)
              BY <1>2, <2>5, <3>1, <5>1
            <6>2. count = Len(Raw)
              BY <1>2, <2>3, <2>14, <6>1
            <6> QED BY <1>1, <2>6, <2>8, <5>1, <6>2
          <5>2. CASE Guarded(view) # view
            BY <2>6, <5>2
          <5> QED BY <5>1, <5>2
        <4> QED BY <1>1, <2>14, <4>1, <4>2
      <3>2. CASE Guarded(view) # RawBody
        <4>1. Guarded(view) = view /\ ~(view.size >= RawBody.size)
          BY <3>2 DEF Guarded
        <4>2. view.size = count + run.markers /\ view.kept = kept
          BY <2>5
        <4>3. view.size # 0
          BY <1>1, <1>2, <2>8, <4>1, <4>2
        <4>4. NotEmptied(Guarded(view)) = view
          BY <4>1, <4>3 DEF NotEmptied
        <4> QED BY <2>3, <2>6, <2>8, <4>1, <4>2, <4>4
      <3> QED BY <3>1, <3>2
    <2>16. Guarded(view) \in Body /\ Stage = "view"
      BY <1>7, <2>10 DEF Fits, ShowBudgeted, FilterDue
    <2> HIDE DEF Fits
    <2> QED BY <2>6, <2>12, <2>13, <2>15, <2>16, ShowsStep
  <1> QED BY <1>3, <1>4, <1>5, <1>6, <1>7

(* Where a step leads: what it has done is done from then on.              *)
LEMMA Progress ==
    ASSUME job \in Jobs, at \in DOMAIN Stages[job.path], Advance, Stage # "done", Stage # "view"
    PROVE  /\ job' = job /\ at' \in DOMAIN Stages[job.path] /\ Stage' # "view"
           /\ Gated' <=> Gated \/ Stage = "gate"
           /\ Rekeyed' <=> Rekeyed \/ Stage = "rekey"
           /\ GitSeen' <=> GitSeen \/ Stage = "git"
           /\ Stated' <=> Stated \/ Stage = "status"
           /\ Archived' <=> Archived \/ Stage = "archive"
           /\ Stage' = "compress" => Inspected /\ Stage = "git"
           /\ Stage' = "git" => ~Inspected
           /\ Stage = "compress" => Stage' = "gate"
           /\ Stage \in {"compress", "gate", "nogain"} => ~Rekeyed
           /\ Stage \in {"view", "git", "compress", "gate", "nogain", "rekey"} => ~Stated /\ ~Archived
           /\ Stage = "compress" => ~Gated
           /\ Stage = "compress" /\ ~Inspected => ~GitSeen
           /\ Stage = "gate" /\ ~Inspected => ~GitSeen
           /\ Stage = "nogain" => ~GitSeen
           /\ Stage \in {"nogain", "git"} => (~Inspected => Gated)
           /\ Stage = "git" /\ Inspected => ~Gated
           /\ Stage \in {"nogain", "rekey"} => ~Inspected
           /\ Stage \in {"rekey"} => Gated /\ ~Rekeyed
  <1>1. /\ job' = job /\ at' \in DOMAIN Stages[job.path]
        /\ Stage \in DOMAIN Following[job.path] /\ Stage' = Following[job.path][Stage]
    BY Follows
  <1> USE DEF Gated, Rekeyed, GitSeen, Stated, Archived, Inspected
  <1>2. CASE job.path = "inspected"
    BY <1>1, <1>2 DEF Following
  <1>3. CASE job.path = "separated"
    BY <1>1, <1>3 DEF Following
  <1>4. CASE job.path = "captured"
    BY <1>1, <1>4 DEF Following
  <1> QED BY <1>2, <1>3, <1>4, JobFacts

(* What the filter made is not touched by most steps.                      *)
LEMMA FilterStays ==
    ASSUME FilterInv, job' = job, Stage # "view", UNCHANGED <<filter, filtered, announced>>
    PROVE  FilterInv'
  <1>1. Sound(filter, filtered)
    BY DEF FilterInv
  <1>2. Sound(filter, filtered)'
    BY <1>1, JobStays DEF Sound, Folded, Shown, Count, Inspected
  <1>3. (filter = "toml" => announced = Len(Raw) - Cardinality(filtered.kept))'
    BY JobStays DEF FilterInv
  <1> QED BY <1>2, <1>3 DEF FilterInv

(* A step that changes nothing but the stage.                              *)
LEMMA ComeAlong ==
    ASSUME IInv, Stage = "compress", Advance,
           UNCHANGED <<filter, filtered, output, keys, ccr, tee, announced>>
    PROVE  IInv'
  <1> USE DEF IInv
  <1>1. job \in Jobs /\ at \in DOMAIN Stages[job.path]
    BY DEF Typed
  <1>2. /\ job' = job /\ at' \in DOMAIN Stages[job.path] /\ Stage' \notin {"view", "compress", "git"}
        /\ ~Gated' /\ ~Rekeyed' /\ ~Rekeyed /\ (GitSeen' <=> GitSeen)
        /\ ~Stated' /\ ~Archived' /\ ~Stated /\ ~Archived
    BY <1>1, Progress DEF Inspected
  <1>3. Typed'
    BY <1>2, JobStays DEF Typed
  <1>4. FilterInv'
    BY <1>2, FilterStays
  <1>5. SameInv' /\ BareInv' /\ AskedInv'
    BY <1>2, JobStays DEF SameInv, BareInv, AskedInv
  <1>6. KeysInv'
    BY <1>2, JobStays DEF KeysInv
  <1>7. CommitInv'
    BY <1>2, JobStays DEF CommitInv, LosesIdentity, Count
  <1>8. FailureInv' /\ StatusInv' /\ TeeInv' /\ RunsInv'
    BY <1>2, JobStays DEF FailureInv, StatusInv, TeeInv, RunsInv
  <1> QED BY <1>3, <1>4, <1>5, <1>6, <1>7, <1>8

(* The pipeline compresses what the filter made, or leaves it.             *)
LEMMA CompressStep == ASSUME IInv, KeepView \/ CompressView PROVE IInv'
  <1> USE DEF IInv
  <1>1. /\ Stage = "compress" /\ Advance /\ UNCHANGED <<filter, filtered, tee, announced>>
    BY DEF KeepView, CompressView
  <1>2. CASE UNCHANGED <<output, keys, ccr>>
    BY <1>1, <1>2, ComeAlong
  <1>3. CASE ~ UNCHANGED <<output, keys, ccr>>
    <2>1. /\ ~Passthrough
          /\ \E b \in Compressed, marks \in {{}, {filtered}} :
                /\ output' = [Text(b) EXCEPT !.marks = marks]
                /\ keys' = {filtered}
                /\ ccr' = Stored(filtered)
      BY <1>3 DEF KeepView, CompressView
    <2>2. PICK b \in Compressed, marks \in {{}, {filtered}} :
                output' = [Text(b) EXCEPT !.marks = marks]
      BY <2>1
    <2>3. /\ keys' = {filtered} /\ ccr' = Stored(filtered)
          /\ output' = [body |-> b, marks |-> marks, status |-> FALSE, note |-> FALSE, hint |-> FALSE]
      BY <2>1, <2>2 DEF Text
    <2>4. job \in Jobs /\ at \in DOMAIN Stages[job.path] /\ filtered \in Body
      BY DEF Typed
    <2>5. /\ job' = job /\ at' \in DOMAIN Stages[job.path] /\ Stage' \notin {"view", "compress", "git"}
          /\ ~Gated' /\ ~Rekeyed' /\ ~Rekeyed
          /\ (GitSeen' <=> GitSeen) /\ (GitSeen => Inspected)
          /\ ~Stated' /\ ~Archived' /\ ~Stated /\ ~Archived
      BY <1>1, <2>4, Progress DEF Inspected
    <2>6. Sound(filter, filtered)
      BY <1>1 DEF FilterInv
    <2>7. /\ job.launched /\ job.store # "none" /\ ~AskedForRaw
          /\ Inspected => filter = "native_owned" /\ filtered = RawBody
      BY <2>1, <2>6 DEF Passthrough, Sound, Inspected, Lossless
    <2>8. b \in Body /\ b.size < Len(Raw) /\ b # RawBody
      <3>1. filtered.size <= Len(Raw) /\ filtered.size \in Nat /\ Len(Raw) \in Nat
        BY <2>4, <2>6, <2>7, JobFacts DEF Sound, Body
      <3>2. PICK S \in SUBSET filtered.kept, n \in 0..(filtered.size - 1) :
                b = [kept |-> S, repeats |-> {}, size |-> n]
        BY <2>2 DEF Compressed
      <3>4. n \in 0..(Len(Raw) + 1) /\ n < Len(Raw)
        BY <3>1, <3>2
      <3>5. S \in SUBSET (1..Len(Raw))
        BY <2>4, <3>2 DEF Body
      <3>6. RawBody.size = Len(Raw)
        BY DEF RawBody
      <3> QED BY <3>1, <3>2, <3>4, <3>5, <3>6 DEF Body
    <2>9. Typed'
      <3>0. marks \in SUBSET Body
        BY <2>2, <2>4
      <3>1. output' \in Printed
        BY <2>3, <2>8, <3>0 DEF Printed
      <3>2. ccr' \subseteq Body /\ keys' \subseteq Body /\ tee' \subseteq Body
        BY <1>1, <2>3, <2>4 DEF Typed, Stored
      <3> QED BY <1>1, <2>4, <2>5, <3>1, <3>2, JobStays DEF Typed
    <2>10. FilterInv'
      BY <1>1, <2>5, FilterStays
    <2>11. SameInv' /\ BareInv' /\ AskedInv'
      BY <2>3, <2>5, <2>7, JobStays DEF SameInv, BareInv, AskedInv
    <2>12. KeysInv'
      <3>1. output'.marks \subseteq keys' /\ output'.body = b
        BY <2>2, <2>3
      <3>2. job'.store = "ok" => keys' \subseteq ccr'
        BY <2>3, <2>5 DEF Stored
      <3> QED BY <1>1, <2>3, <2>5, <2>7, <2>8, <3>1, <3>2, JobStays DEF KeysInv
    <2>13. CommitInv'
      BY <1>1, <2>3, <2>5, <2>7, JobStays DEF CommitInv
    <2>14. FailureInv' /\ StatusInv' /\ TeeInv'
      BY <2>5 DEF FailureInv, StatusInv, TeeInv
    <2>15. RunsInv'
      <3>1. filter # "log-runs"
        BY <2>1 DEF Passthrough, Lossless, Structured
      <3>2. output'.body = b /\ b.repeats = {}
        BY <2>2, <2>3 DEF Compressed
      <3> QED BY <1>1, <3>1, <3>2 DEF RunsInv
    <2> QED BY <2>9, <2>10, <2>11, <2>12, <2>13, <2>14, <2>15
  <1> QED BY <1>2, <1>3

(* The gate undoes a compression that lost a line it must not lose; what   *)
(* passes it shows what the filter's view shows.                           *)
LEMMA GateStep == ASSUME IInv, Gate PROVE IInv'
  <1> USE DEF IInv
  <1>1. /\ Stage = "gate" /\ Advance /\ UNCHANGED <<filter, filtered, ccr, tee, announced>>
    BY DEF Gate
  <1>2. /\ job \in Jobs /\ at \in DOMAIN Stages[job.path] /\ filtered \in Body
        /\ output \in Printed /\ output.body \in Body
    BY DEF Typed, Printed
  <1>3. /\ job' = job /\ at' \in DOMAIN Stages[job.path] /\ Stage' \notin {"view", "compress"}
        /\ Gated' /\ ~Rekeyed' /\ ~Rekeyed
        /\ (GitSeen' <=> GitSeen) /\ (GitSeen => Inspected) /\ (Inspected => Stage' # "git")
        /\ ~Stated' /\ ~Archived' /\ ~Stated /\ ~Archived
    BY <1>1, <1>2, Progress
  <1>4. /\ Sound(filter, filtered) /\ Raw \in Seq(Kinds) /\ Len(Raw) \in Nat
        /\ RawBody \in Body /\ Shown(RawBody.kept) /\ ~LosesIdentity(RawBody, RawBody)
    BY <1>1, <1>2, JobFacts, RawIsWhole DEF FilterInv
  <1>5. FilterInv'
    BY <1>1, <1>3, FilterStays
  <1>6. CASE LosesIndispensable
    <2>1. /\ keys' = {}
          /\ output' = [body |-> filtered, marks |-> {}, status |-> FALSE, note |-> FALSE, hint |-> FALSE]
      BY <1>6 DEF Gate, Text
    <2>2. Typed'
      <3>1. output' \in Printed
        BY <1>2, <2>1 DEF Printed
      <3> QED BY <1>1, <1>2, <1>3, <2>1, <3>1, JobStays DEF Typed
    <2>3. SameInv' /\ BareInv'
      BY <1>1, <1>3, <2>1 DEF SameInv, BareInv
    <2>4. KeysInv'
      BY <1>3, <2>1 DEF KeysInv
    <2>5. AskedInv'
      BY <1>3, <1>4, <2>1, JobStays DEF AskedInv, Sound
    <2>6. CommitInv'
      <3> SUFFICES ASSUME GitSeen', job.mode = "none", job.launched,
                          LosesIdentity(RawBody, output.body)'
                   PROVE  FALSE
        BY <1>3, JobStays DEF CommitInv
      <3>1. LosesIdentity(RawBody, filtered)
        BY <1>3, <2>1, JobStays DEF LosesIdentity, Count
      <3>2. filtered # RawBody
        BY <1>4, <3>1
      <3>3. filter # "native_owned" /\ Inspected /\ GitSeen
        BY <1>3, <1>4, <3>2 DEF Sound
      <3>4. keys = {}
        BY <3>3 DEF KeysInv
      <3>5. output.body = filtered
        BY <3>3, <3>4 DEF SameInv
      <3> QED BY <3>1, <3>3, <3>5 DEF CommitInv
    <2>7. FailureInv'
      BY <1>1, <1>3, <1>4, <2>1, JobStays DEF FailureInv, Sound, Shown, Count
    <2>8. StatusInv' /\ TeeInv'
      BY <1>3 DEF StatusInv, TeeInv
    <2>9. RunsInv'
      BY <1>1, <1>4, <2>1 DEF RunsInv, Sound
    <2> QED BY <1>5, <2>2, <2>3, <2>4, <2>5, <2>6, <2>7, <2>8, <2>9
  <1>7. CASE ~LosesIndispensable
    <2>1. UNCHANGED <<output, keys>>
      BY <1>7 DEF Gate
    <2>2. Typed'
      BY <1>1, <1>2, <1>3, <2>1, JobStays DEF Typed
    <2>3. SameInv' /\ BareInv' /\ AskedInv'
      BY <1>1, <1>3, <2>1, JobStays DEF SameInv, BareInv, AskedInv
    <2>4. KeysInv'
      BY <1>1, <1>3, <2>1, JobStays DEF KeysInv
    <2>5. CommitInv'
      BY <1>1, <1>3, <2>1, JobStays DEF CommitInv, LosesIdentity, Count
    <2>6. FailureInv'
      <3> SUFFICES ASSUME job.launched, filter \notin MayDrop \cup {"log-runs"}
                   PROVE  Shown(output.body.kept)'
        BY <1>1, <1>3 DEF FailureInv
      <3>1. ~LosesFailure(filtered, output.body)
        BY <1>7 DEF LosesIndispensable
      <3>2. Shown(filtered.kept)
        BY <1>4 DEF Sound
      <3>3. filtered.kept \in SUBSET (1..Len(Raw)) /\ output.body.kept \in SUBSET (1..Len(Raw))
        BY <1>2 DEF Body
      <3>4. Shown(output.body.kept)
        BY <1>4, <3>1, <3>2, <3>3, ShownStays
      <3> QED BY <1>3, <2>1, <3>4, JobStays DEF Shown, Count
    <2>7. StatusInv' /\ TeeInv' /\ RunsInv'
      BY <1>1, <1>3, <2>1, JobStays DEF StatusInv, TeeInv, RunsInv
    <2> QED BY <1>5, <2>2, <2>3, <2>4, <2>5, <2>6, <2>7
  <1> QED BY <1>6, <1>7

(* Captured output that gained nothing, or output that lost a commit, is   *)
(* the raw output again, without keys.                                     *)
LEMMA RawAgain ==
    ASSUME IInv, Advance, Stage \in {"nogain", "git"}, keys' = {}, output' = Text(RawBody),
           UNCHANGED <<ccr, tee, announced>>,
           \/ ~Inspected /\ UNCHANGED <<filter, filtered>>
           \/ Inspected /\ filter' = "git-identity-guard" /\ filtered' = RawBody
    PROVE  IInv'
  <1> USE DEF IInv
  <1>1. job \in Jobs /\ at \in DOMAIN Stages[job.path]
    BY DEF Typed
  <1>2. /\ job' = job /\ at' \in DOMAIN Stages[job.path] /\ Stage' # "view"
        /\ (Stage' = "git" => ~Inspected) /\ (Stage' = "compress" => Inspected)
        /\ (Gated' <=> Gated) /\ (Inspected => ~Gated)
        /\ ~Stated' /\ ~Archived' /\ ~Stated /\ ~Archived
    BY <1>1, Progress
  <1>3. /\ Raw \in Seq(Kinds) /\ RawBody \in Body /\ RawBody.size = Len(Raw)
        /\ Shown(RawBody.kept) /\ ~LosesIdentity(RawBody, RawBody) /\ Len(Raw) \in Nat
        /\ RawBody.repeats = {}
    BY <1>1, JobFacts, RawIsWhole
  <1>4. output' = [body |-> RawBody, marks |-> {}, status |-> FALSE, note |-> FALSE, hint |-> FALSE]
    BY DEF Text
  <1>5. FilterInv'
    <2>1. CASE ~Inspected
      BY <1>2, <2>1, FilterStays
    <2>2. CASE Inspected
      <3>1. filter' = "git-identity-guard" /\ filtered' = RawBody
        BY <2>2
      <3>2. job.launched \in BOOLEAN
        BY <1>1, JobFacts
      <3>3. (~job.launched => filter \in {"launch-error", "git-identity-guard"})'
        BY <3>1
      <3>4. Sound("git-identity-guard", RawBody)
        BY <1>3, <2>2, <3>2 DEF Sound
      <3>5. Sound(filter, filtered)'
        BY <1>2, <3>1, <3>4, JobStays DEF Sound, Folded, Shown, Count, Inspected
      <3> QED BY <1>2, <3>1, <3>5 DEF FilterInv
    <2> QED BY <2>1, <2>2
  <1>6. Typed'
    <2>1. output' \in Printed
      BY <1>3, <1>4 DEF Printed
    <2>2. filtered' \in Body
      BY <1>3 DEF Typed
    <2> QED BY <1>1, <1>2, <2>1, <2>2, JobStays DEF Typed
  <1>7. SameInv' /\ BareInv'
    BY <1>2, <1>4, JobStays DEF SameInv, BareInv
  <1>8. AskedInv'
    BY <1>2, <1>4, JobStays DEF AskedInv
  <1>9. KeysInv'
    BY <1>2, <1>4, JobStays DEF KeysInv
  <1>10. CommitInv'
    BY <1>2, <1>3, <1>4, JobStays DEF CommitInv, LosesIdentity, Count
  <1>11. FailureInv'
    BY <1>2, <1>3, <1>4, JobStays DEF FailureInv, Shown, Count
  <1>12. StatusInv' /\ TeeInv'
    BY <1>2 DEF StatusInv, TeeInv
  <1>13. RunsInv'
    BY <1>2, <1>3, <1>4, JobStays DEF RunsInv
  <1> QED BY <1>5, <1>6, <1>7, <1>8, <1>9, <1>10, <1>11, <1>12, <1>13

(* A gate that lets everything pass.                                       *)
LEMMA PassBy ==
    ASSUME IInv, Advance, Stage \in {"nogain", "git"},
           UNCHANGED <<filter, filtered, output, keys, ccr, tee, announced>>,
           Stage = "git" /\ job.mode = "none" => ~LosesIdentity(RawBody, output.body)
    PROVE  IInv'
  <1> USE DEF IInv
  <1>1. job \in Jobs /\ at \in DOMAIN Stages[job.path]
    BY DEF Typed
  <1>2. /\ job' = job /\ at' \in DOMAIN Stages[job.path] /\ Stage' # "view"
        /\ (Stage' = "git" => ~Inspected) /\ (Stage' = "compress" => Inspected /\ Stage = "git")
        /\ (Gated' <=> Gated) /\ (Rekeyed' <=> Rekeyed)
        /\ (GitSeen' <=> GitSeen \/ Stage = "git")
        /\ ~Stated' /\ ~Archived' /\ ~Stated /\ ~Archived
    BY <1>1, Progress
  <1>3. Typed'
    BY <1>2, JobStays DEF Typed
  <1>4. FilterInv'
    BY <1>2, FilterStays
  <1>5. SameInv' /\ BareInv' /\ AskedInv'
    BY <1>2, JobStays DEF SameInv, BareInv, AskedInv
  <1>6. KeysInv'
    BY <1>2, JobStays DEF KeysInv
  <1>7. CommitInv'
    BY <1>2, JobStays DEF CommitInv, LosesIdentity, Count
  <1>8. FailureInv' /\ StatusInv' /\ TeeInv' /\ RunsInv'
    BY <1>2, JobStays DEF FailureInv, StatusInv, TeeInv, RunsInv, Shown, Count
  <1> QED BY <1>3, <1>4, <1>5, <1>6, <1>7, <1>8

(* The last gate of captured output.                                       *)
LEMMA NoGainStep == ASSUME IInv, NoGain PROVE IInv'
  <1>1. /\ Stage = "nogain" /\ Advance /\ UNCHANGED <<filter, filtered, ccr, tee, announced>>
    BY DEF NoGain
  <1>2. ~Inspected
    BY <1>1, Progress DEF IInv, Typed
  <1>3. CASE output' = Text(RawBody) /\ keys' = {}
    BY <1>1, <1>2, <1>3, RawAgain
  <1>4. CASE UNCHANGED <<output, keys>>
    BY <1>1, <1>4, PassBy
  <1> QED BY <1>3, <1>4 DEF NoGain

(* The guard of the commits.                                               *)
LEMMA GitStep == ASSUME IInv, GitGuard PROVE IInv'
  <1>1. Stage = "git" /\ Advance /\ UNCHANGED <<ccr, tee, announced>>
    BY DEF GitGuard
  <1>2. CASE job.mode = "none" /\ LosesIdentity(RawBody, output.body)
    BY <1>1, <1>2, RawAgain DEF GitGuard, Inspected
  <1>3. CASE ~(job.mode = "none" /\ LosesIdentity(RawBody, output.body))
    BY <1>1, <1>3, PassBy DEF GitGuard
  <1> QED BY <1>2, <1>3

(* The raw output gets a key of its own, which the markers then name.      *)
LEMMA RekeyStep == ASSUME IInv, Rekey PROVE IInv'
  <1> USE DEF IInv
  <1>1. /\ Stage = "rekey" /\ Advance /\ UNCHANGED <<filter, filtered, tee, announced>>
    BY DEF Rekey
  <1>2. /\ job \in Jobs /\ at \in DOMAIN Stages[job.path] /\ output \in Printed
    BY DEF Typed
  <1>3. /\ job' = job /\ at' \in DOMAIN Stages[job.path] /\ Stage' \notin {"view", "compress"}
        /\ ~Inspected /\ Gated /\ Gated' /\ ~Rekeyed /\ Rekeyed' /\ (GitSeen' <=> GitSeen)
        /\ ~Stated' /\ ~Archived' /\ ~Stated /\ ~Archived
    BY <1>1, <1>2, Progress
  <1>4. RawBody \in Body /\ Raw \in Seq(Kinds)
    BY <1>2, JobFacts, RawIsWhole
  <1>5. FilterInv'
    BY <1>1, <1>3, FilterStays
  <1>6. output.marks \subseteq keys /\ (keys = {} \/ keys = {filtered})
    BY <1>3 DEF KeysInv
  <1>7. SameInv'
    BY <1>3, JobStays DEF SameInv
  <1>8. CASE (IF job.path = "captured" THEN ~RawShown ELSE keys # {})
    <2>1. /\ ccr' = Stored(RawBody) /\ keys' = {RawBody}
          /\ output' = [output EXCEPT !.marks = {IF m \in keys THEN RawBody ELSE m : m \in @}]
      BY <1>8 DEF Rekey
    <2>2. PICK marks : marks = {IF m \in keys THEN RawBody ELSE m : m \in output.marks}
      OBVIOUS
    <2>3. marks \subseteq {RawBody}
      BY <1>6, <2>2
    <2>4. output' = [output EXCEPT !.marks = marks]
      BY <2>1, <2>2
    <2>5. /\ output'.body = output.body /\ output'.marks = marks /\ output'.status = output.status
          /\ output'.note = output.note /\ output'.hint = output.hint
      BY <1>2, <2>4 DEF Printed
    <2>6. marks \in SUBSET Body
      BY <1>4, <2>3
    <2>7. output' \in Printed
      BY <1>2, <2>4, <2>6 DEF Printed
    <2>8. ccr' \subseteq Body /\ keys' \subseteq Body
      BY <1>4, <2>1 DEF Typed, Stored
    <2>9. Typed'
      BY <1>1, <1>2, <1>3, <2>7, <2>8, JobStays DEF Typed
    <2>10. ~AskedForRaw /\ output.body # RawBody /\ job.store # "none"
      <3>1. CASE keys # {}
        BY <1>1, <3>1 DEF KeysInv, AskedInv
      <3>2. CASE keys = {}
        <4>1. job.path = "captured" /\ ~RawShown
          BY <1>8, <3>2
        <4>2. /\ output.marks = {} /\ output.status = FALSE /\ output.note = FALSE
              /\ output.hint = FALSE
          BY <1>2, <1>3, <1>6, <3>2 DEF BareInv, Printed
        <4>3. output = [body |-> output.body, marks |-> {}, status |-> FALSE, note |-> FALSE,
                        hint |-> FALSE]
          BY <1>2, <4>2 DEF Printed
        <4>4. output.body # RawBody
          BY <4>1, <4>3 DEF RawShown, Text
        <4> QED BY <1>1, <1>2, <4>1, <4>4, JobFacts DEF AskedInv
      <3> QED BY <3>1, <3>2
    <2>11. KeysInv'
      <3>1. job'.store = "ok" => keys' \subseteq ccr'
        BY <1>3, <2>1 DEF Stored
      <3> QED BY <1>3, <2>1, <2>3, <2>5, <2>10, <3>1, JobStays DEF KeysInv
    <2>12. BareInv' /\ AskedInv'
      BY <1>3, <2>5, <2>10, JobStays DEF BareInv, AskedInv
    <2>13. CommitInv'
      <3>1. GitSeen /\ job.launched /\ job.mode = "none" => ~LosesIdentity(RawBody, output.body)
        BY <1>3 DEF CommitInv
      <3> QED BY <1>3, <2>5, <3>1, JobStays DEF CommitInv, LosesIdentity, Count
    <2>14. FailureInv' /\ StatusInv' /\ TeeInv' /\ RunsInv'
      BY <1>1, <1>3, <2>5, JobStays DEF FailureInv, StatusInv, TeeInv, RunsInv, Shown, Count
    <2> QED BY <1>5, <1>7, <2>9, <2>11, <2>12, <2>13, <2>14
  <1>9. CASE ~(IF job.path = "captured" THEN ~RawShown ELSE keys # {})
    <2>1. UNCHANGED <<output, keys, ccr>>
      BY <1>9 DEF Rekey
    <2>2. keys = {} /\ (job.path = "captured" => output.body = RawBody)
      <3>1. CASE job.path = "captured"
        <4>1. output.body = RawBody
          BY <1>9, <3>1 DEF RawShown, Text
        <4> QED BY <4>1 DEF KeysInv
      <3>2. CASE job.path # "captured"
        BY <1>9, <3>2
      <3> QED BY <3>1, <3>2
    <2>3. Typed'
      BY <1>1, <1>3, <2>1, JobStays DEF Typed
    <2>4. KeysInv'
      BY <1>3, <2>1, <2>2, JobStays DEF KeysInv
    <2>5. BareInv' /\ AskedInv'
      BY <1>1, <1>3, <2>1, JobStays DEF BareInv, AskedInv
    <2>6. CommitInv'
      BY <1>1, <1>3, <2>1, JobStays DEF CommitInv, LosesIdentity, Count
    <2>7. FailureInv' /\ StatusInv' /\ TeeInv' /\ RunsInv'
      BY <1>1, <1>3, <2>1, JobStays DEF FailureInv, StatusInv, TeeInv, RunsInv, Shown, Count
    <2> QED BY <1>5, <1>7, <2>3, <2>4, <2>5, <2>6, <2>7
  <1> QED BY <1>8, <1>9

(* A step at the end of the path: the printed text may be given a status,  *)
(* a note or a hint, no more.                                              *)
LEMMA Dressed ==
    ASSUME IInv, Advance, Stage \in {"status", "archive"},
           UNCHANGED <<filter, filtered, keys, ccr, announced>>,
           output' \in Printed, output'.body = output.body, output'.marks = output.marks,
           tee' \subseteq Body,
           AskedForRaw => ~output'.hint
    PROVE  /\ Typed' /\ FilterInv' /\ SameInv' /\ KeysInv' /\ BareInv' /\ AskedInv'
           /\ CommitInv' /\ FailureInv' /\ RunsInv'
  <1> USE DEF IInv
  <1>1. job \in Jobs /\ at \in DOMAIN Stages[job.path]
    BY DEF Typed
  <1>2. /\ job' = job /\ at' \in DOMAIN Stages[job.path] /\ Stage' \notin {"view", "compress"}
        /\ (Stage' = "git" => ~Inspected)
        /\ (Gated' <=> Gated) /\ (Rekeyed' <=> Rekeyed) /\ (GitSeen' <=> GitSeen)
        /\ (Stated' \/ Archived')
    BY <1>1, Progress
  <1>3. Typed'
    BY <1>1, <1>2, JobStays DEF Typed
  <1>4. FilterInv'
    BY <1>2, FilterStays
  <1>5. SameInv' /\ BareInv' /\ AskedInv'
    BY <1>2, JobStays DEF SameInv, BareInv, AskedInv
  <1>6. KeysInv'
    BY <1>2, JobStays DEF KeysInv
  <1>7. CommitInv'
    BY <1>2, JobStays DEF CommitInv, LosesIdentity, Count
  <1>8. FailureInv' /\ RunsInv'
    BY <1>2, JobStays DEF FailureInv, RunsInv, Shown, Count
  <1> QED BY <1>3, <1>4, <1>5, <1>6, <1>7, <1>8

(* A command that failed and does not say so is said to have failed.       *)
LEMMA StatusStep == ASSUME IInv, AnnounceFailure PROVE IInv'
  <1>1. /\ Stage = "status" /\ Advance /\ UNCHANGED <<filter, filtered, keys, ccr, tee, announced>>
    BY DEF AnnounceFailure
  <1>2. /\ job \in Jobs /\ at \in DOMAIN Stages[job.path] /\ output \in Printed /\ tee \subseteq Body
    BY DEF IInv, Typed
  <1>3. job' = job /\ Stated' /\ (Archived' <=> Archived) /\ Stage # "view"
    BY <1>1, <1>2, Progress
  <1>4. PICK status \in BOOLEAN :
            /\ output' = [output EXCEPT !.status = status]
            /\ job.exit # 0 /\ job.mode # "raw" => status \/ Announced(output)
            /\ output.status => status
    <2>1. CASE job.exit # 0 /\ job.mode # "raw" /\ ~Announced(output)
      BY <2>1 DEF AnnounceFailure
    <2>2. CASE ~(job.exit # 0 /\ job.mode # "raw" /\ ~Announced(output))
      <3>1. output' = output
        BY <2>2 DEF AnnounceFailure
      <3>2. output = [output EXCEPT !.status = output.status] /\ output.status \in BOOLEAN
        BY <1>2 DEF Printed
      <3> QED BY <2>2, <3>1, <3>2
    <2> QED BY <2>1, <2>2
  <1>5. /\ output' \in Printed /\ output'.body = output.body /\ output'.marks = output.marks
        /\ output'.status = status /\ output'.hint = output.hint
    BY <1>2, <1>4 DEF Printed
  <1>6. AskedForRaw => ~output'.hint
    BY <1>3, <1>5 DEF IInv, AskedInv
  <1>7. /\ Typed' /\ FilterInv' /\ SameInv' /\ KeysInv' /\ BareInv' /\ AskedInv'
        /\ CommitInv' /\ FailureInv' /\ RunsInv'
    BY <1>1, <1>2, <1>5, <1>6, Dressed
  <1>8. StatusInv'
    <2> SUFFICES ASSUME job.exit # 0, job.mode # "raw" PROVE Announced(output)'
      BY <1>3 DEF StatusInv
    <2>1. status \/ output.status \/ Count(output.body.kept, "verdict") > 0
      BY <1>4 DEF Announced
    <2> QED BY <1>3, <1>4, <1>5, <2>1, JobStays DEF Announced, Count
  <1>9. TeeInv'
    BY <1>1, <1>3, <1>5, JobStays DEF IInv, TeeInv
  <1> QED BY <1>7, <1>8, <1>9 DEF IInv

(* A note keeps the rest of the text.                                      *)
LEMMA NotedKeeps ==
    ASSUME NEW text \in Printed
    PROVE  /\ Noted(text) \in Printed /\ Noted(text).body = text.body
           /\ Noted(text).marks = text.marks /\ Noted(text).status = text.status
           /\ Noted(text).hint = text.hint
  <1>1. /\ [text EXCEPT !.note = TRUE] \in Printed /\ [text EXCEPT !.note = TRUE].body = text.body
        /\ [text EXCEPT !.note = TRUE].marks = text.marks
        /\ [text EXCEPT !.note = TRUE].status = text.status
        /\ [text EXCEPT !.note = TRUE].hint = text.hint
    BY DEF Printed
  <1> QED BY <1>1 DEF Noted

(* So does a hint, and the raw output is never short enough for one.       *)
LEMMA HintedKeeps ==
    ASSUME NEW text \in Printed, Len(Raw) \in Nat
    PROVE  /\ Hinted(text) \in Printed /\ Hinted(text).body = text.body
           /\ Hinted(text).marks = text.marks /\ Hinted(text).status = text.status
           /\ text.body = RawBody /\ text.marks = {} => Hinted(text) = text
  <1>1. /\ [text EXCEPT !.hint = TRUE] \in Printed /\ [text EXCEPT !.hint = TRUE].body = text.body
        /\ [text EXCEPT !.hint = TRUE].marks = text.marks
        /\ [text EXCEPT !.hint = TRUE].status = text.status
    BY DEF Printed
  <1>2. ASSUME text.body = RawBody, text.marks = {} PROVE Hinted(text) = text
    <2>1. text.body.size = Len(Raw) /\ Cardinality(text.marks) = 0
      BY <1>2, FS_EmptySet DEF RawBody
    <2>2. Lines(text) \in Nat /\ Lines(text) >= Len(Raw)
      <3>1. PICK status \in {0, 1} : status = IF text.status THEN 1 ELSE 0
        OBVIOUS
      <3>2. PICK note \in {0, 1} : note = IF text.note THEN 1 ELSE 0
        OBVIOUS
      <3>3. Lines(text) = Len(Raw) + 0 + status + note
        BY <2>1, <3>1, <3>2 DEF Lines
      <3> QED BY <3>3
    <2>3. ~(10 * (Lines(text) + 1) <= 7 * Len(Raw))
      BY <2>2
    <2> QED BY <2>3 DEF Hinted
  <1> QED BY <1>1, <1>2 DEF Hinted

(* The archive is written, and the note and the hint are due.              *)
LEMMA ArchiveStep == ASSUME IInv, Archive PROVE IInv'
  <1>1. /\ Stage = "archive" /\ Advance /\ UNCHANGED <<filter, filtered, keys, ccr, announced>>
    BY DEF Archive
  <1>2. /\ job \in Jobs /\ at \in DOMAIN Stages[job.path] /\ output \in Printed /\ tee \subseteq Body
    BY DEF IInv, Typed
  <1>3. /\ job' = job /\ (Stated' <=> Stated) /\ Stage # "view"
    BY <1>1, <1>2, Progress
  <1>4. /\ Raw \in Seq(Kinds) /\ Len(Raw) \in Nat /\ RawBody \in Body
    BY <1>2, JobFacts, RawIsWhole
  <1>5. PICK text : text = Noted(output)
    OBVIOUS
  <1>6. /\ text \in Printed /\ text.body = output.body /\ text.marks = output.marks
        /\ text.status = output.status /\ text.hint = output.hint
    BY <1>2, <1>5, NotedKeeps
  <1>7. \/ output' = Hinted(text) /\ tee' = {RawBody}
        \/ output' = text /\ tee' = tee
    BY <1>5 DEF Archive
  <1>8. /\ output' \in Printed /\ output'.body = output.body /\ output'.marks = output.marks
        /\ output'.status = output.status
    BY <1>4, <1>6, <1>7, HintedKeeps
  <1>9. tee' \subseteq Body
    BY <1>2, <1>4, <1>7
  <1>10. AskedForRaw => ~output'.hint
    <2> SUFFICES ASSUME AskedForRaw PROVE ~output'.hint
      OBVIOUS
    <2>1. output.body = RawBody /\ output.marks = {} /\ ~output.hint
      BY <1>3 DEF IInv, AskedInv
    <2> QED BY <1>4, <1>6, <1>7, <2>1, HintedKeeps
  <1>11. /\ Typed' /\ FilterInv' /\ SameInv' /\ KeysInv' /\ BareInv' /\ AskedInv'
         /\ CommitInv' /\ FailureInv' /\ RunsInv'
    BY <1>1, <1>8, <1>9, <1>10, Dressed
  <1>12. StatusInv'
    BY <1>3, <1>8, JobStays DEF IInv, StatusInv, Announced, Count
  <1>13. TeeInv'
    <2> SUFFICES ASSUME job.tee, output.body # RawBody PROVE RawBody \in tee'
      BY <1>3, <1>8, JobStays DEF TeeInv
    <2>1. ~RawShown
      BY DEF RawShown, Text
    <2> QED BY <2>1 DEF Archive
  <1> QED BY <1>11, <1>12, <1>13 DEF IInv

(* Every step keeps the invariant.                                         *)
LEMMA Inductive == IInv /\ [Next]_vars => IInv'
  <1> SUFFICES ASSUME IInv, [Next]_vars PROVE IInv'
    OBVIOUS
  <1>1. CASE ShowLaunchError \/ Observe \/ ShowRaw \/ ShowFiltered \/ ShowBudgeted
    BY <1>1, ViewStep
  <1>2. CASE KeepView \/ CompressView
    BY <1>2, CompressStep
  <1>3. CASE Gate \/ NoGain \/ GitGuard \/ Rekey
    BY <1>3, GateStep, NoGainStep, GitStep, RekeyStep
  <1>4. CASE AnnounceFailure \/ Archive
    BY <1>4, StatusStep, ArchiveStep
  <1>5. CASE UNCHANGED vars
    BY <1>5 DEF vars, IInv, Typed, FilterInv, SameInv, KeysInv, BareInv, AskedInv, CommitInv,
       FailureInv, RunsInv, StatusInv, TeeInv, Sound, Folded, RunStarts, StartsRun, Shown, LosesIdentity, Announced, Count, Raw, RawBody,
       Body, Printed, Stage, Gated, Rekeyed, GitSeen, Stated, Archived, Inspected, AskedForRaw,
       KeepsRaw, TestsPassed
  <1> QED BY <1>1, <1>2, <1>3, <1>4, <1>5 DEF Next

(* So it holds throughout.                                                 *)
LEMMA Invariance == Spec => []IInv
  BY InitIInv, Inductive, PTL DEF Spec

-----------------------------------------------------------------------------
(* The theorems.                                                           *)

(* What has been done at the end of a path.                                *)
LEMMA AtTheEnd ==
    ASSUME job \in Jobs, Done
    PROVE  /\ Gated /\ GitSeen /\ Stated /\ Archived /\ Stage # "view"
           /\ Rekeyed \/ Inspected
           /\ job.path = "captured" => Rekeyed /\ ~Inspected
  BY JobFacts DEF Done, Gated, GitSeen, Stated, Archived, Rekeyed, Inspected

(* The report is well formed, the lines a budget left out are counted as   *)
(* many as they are, whichever they are, and a command that failed is said *)
(* to have failed (keep_signal_within, prepend_failure_status).            *)
THEOREM ReportIsHonest == Spec => []ViewInv
  <1>1. IInv => ViewInv
    <2> SUFFICES ASSUME IInv PROVE ViewInv
      OBVIOUS
    <2>1. TypeOK
      BY DEF IInv, Typed, Printed, TypeOK
    <2>2. OmissionsAnnounced
      BY DEF IInv, FilterInv, OmissionsAnnounced
    <2>3. FailureAnnounced
      BY AtTheEnd DEF IInv, Typed, StatusInv, FailureAnnounced
    <2> QED BY <2>1, <2>2, <2>3 DEF ViewInv
  <1> QED BY <1>1, Invariance, PTL

(* A failure line is printed as often as the command printed it, or, in a  *)
(* log, once for a run of it with its repeats counted below it, whatever   *)
(* filter, compression and gates made of the output, unless a view made    *)
(* for the command, another layout of a JSON document or a mode chose      *)
(* otherwise: the promise of first_lost_indispensable_line, of             *)
(* guard_routed_output and of log_runs.                                    *)
THEOREM FailuresAreShown == Spec => []FailuresShown
  <1>1. IInv => FailuresShown
    <2> SUFFICES ASSUME IInv, Done, job.launched, filter \notin MayDrop
                 PROVE  FailuresShown
      BY DEF FailuresShown, MayDrop
    <2>1. /\ job \in Jobs /\ Gated /\ Stage # "view"
          /\ Raw \in Seq(Kinds) /\ DOMAIN Raw = 1..Len(Raw)
      BY AtTheEnd, JobFacts DEF IInv, Typed
    <2>2. CASE filter # "log-runs"
      <3>1. Shown(output.body.kept) /\ output.body.repeats = {}
        BY <2>1, <2>2 DEF IInv, FailureInv, RunsInv
      <3> QED BY <2>1, <3>1 DEF Shown, FailuresShown
    <2>3. CASE filter = "log-runs"
      <3>1. output.body = RawBody \/ Folded(output.body)
        BY <2>1, <2>3 DEF IInv, RunsInv, FilterInv, Sound
      <3>2. output.body.kept \cup output.body.repeats = 1..Len(Raw)
        BY <2>1, <3>1, FoldedTells, RawIsWhole
      <3>3. \A i \in output.body.repeats : i - 1 \in 1..Len(Raw) /\ Raw[i - 1] = Raw[i]
        BY <2>1, <3>1, FoldedTells, RawIsWhole
      <3> QED BY <2>1, <2>3, <3>2, <3>3 DEF FailuresShown
    <2> QED BY <2>2, <2>3
  <1> QED BY <1>1, Invariance, PTL

(* What the printed text leaves out can be had: every marker and every key *)
(* gives back the raw output, and nothing else (main.rs 3301, on every     *)
(* path), and the archive has it if the command was archived, the store if *)
(* its output was captured and the store works.                            *)
THEOREM LeftOutCanBeRead == Spec => []LeftOutIsKept
  <1>1. IInv => LeftOutIsKept
    <2> SUFFICES ASSUME IInv, Done PROVE LeftOutIsKept
      BY DEF LeftOutIsKept, KeysGiveTheRawBack, NothingOutOfReach
    <2>1. /\ job \in Jobs /\ Archived /\ Stage # "view" /\ (Rekeyed \/ Inspected)
          /\ job.path = "captured" => Rekeyed /\ ~Inspected
      BY AtTheEnd DEF IInv, Typed
    <2>2. keys \subseteq {RawBody}
      <3>1. CASE Rekeyed
        BY <3>1 DEF IInv, KeysInv
      <3>2. CASE ~Rekeyed
        <4>1. keys \subseteq {filtered} /\ (keys # {} => filter = "native_owned")
          BY <2>1, <3>2 DEF IInv, KeysInv
        <4>2. filter = "native_owned" => filtered = RawBody
          BY <2>1 DEF IInv, FilterInv, Sound
        <4> QED BY <4>1, <4>2
      <3> QED BY <3>1, <3>2
    <2>3. KeysGiveTheRawBack
      BY <2>2 DEF IInv, KeysInv, KeysGiveTheRawBack
    <2>4. job.tee /\ output.body # RawBody => RawBody \in tee
      BY <2>1 DEF IInv, TeeInv
    <2>5. job.path = "captured" /\ job.store = "ok" /\ output.body # RawBody => RawBody \in ccr \cap keys
      BY <2>1 DEF IInv, KeysInv
    <2> QED BY <2>3, <2>4, <2>5 DEF LeftOutIsKept, NothingOutOfReach
  <1> QED BY <1>1, Invariance, PTL

(* A test run that passed and a failure asked for raw are printed whole,   *)
(* and every commit is in the text or behind the key of the raw output     *)
(* (lost_git_identity, command_views.rs 290).                              *)
THEOREM PromisesAreKept == Spec => []PromisedIsShown
  <1>1. IInv => PromisedIsShown
    <2> SUFFICES ASSUME IInv, Done PROVE PromisedIsShown
      BY DEF PromisedIsShown, RawWhenAsked, CommitsShown
    <2>1. GitSeen /\ Stage # "view"
      BY AtTheEnd DEF IInv, Typed
    <2>2. RawWhenAsked
      BY <2>1 DEF IInv, AskedInv, AskedForRaw, RawWhenAsked
    <2>3. CommitsShown
      BY <2>1 DEF IInv, CommitInv, CommitsShown, Inspected
    <2> QED BY <2>2, <2>3 DEF PromisedIsShown
  <1> QED BY <1>1, Invariance, PTL
=================================================================================
