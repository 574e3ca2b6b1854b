------------------------------ MODULE RowSelection ------------------------------
(* Which elements of a JSON array SmartCrusher keeps (smart_crusher/).           *)
(*                                                                               *)
(* An array is a function from 0..n-1 to contents; Traits says of each content   *)
(* what the selection looks at.  Two elements of one content are equal as JSON.  *)
(* The size aimed at is a parameter: it comes from the knee of a coverage curve  *)
(* or from a token budget, and only its range matters here (SizesFor).           *)
EXTENDS Integers, Sequences, FiniteSets, SequencesExt

CONSTANTS
    Contents,     \* what an element can be
    Traits,       \* per content: type, status, extra, error, metric, message, info
    Few           \* arrays up to this length pass untouched (8 in the code)

Indices(rows) == DOMAIN rows
Size(rows)    == Cardinality(DOMAIN rows)
AtMost(a, b)  == IF a < b THEN a ELSE b
AtLeast(a, b) == IF a > b THEN a ELSE b
UpTo(n)       == 0..(n - 1)
Rising(set, n) == SelectSeq([i \in 1..n |-> i - 1], LAMBDA i : i \in set)
Of(rows, set)  == {rows[i] : i \in set}

\* base with the first of seq it lacks, while there is room for them
Topped(base, seq, room) ==
    LET Step(acc, i) == IF i \notin acc /\ Cardinality(acc) < Cardinality(base) + room
                        THEN acc \cup {i} ELSE acc
    IN  FoldLeft(Step, base, seq)

\* seq from its first element by strides, then from its second, and so on
Strided(seq, stride) ==
    FlattenSeq([o \in 1..AtMost(stride, Len(seq)) |->
        [j \in 1..((Len(seq) - o) \div stride + 1) |-> seq[o + (j - 1) * stride]]])

-------------------------------------------------------------------------------
(* What no selection may lose *)

ErrorRows(rows) == {i \in Indices(rows) : Traits[rows[i]].error}

(* A field fewer than a fifth of the rows have, or a status outside the few most *)
(* frequent ones that cover four fifths of the rows.                             *)
StructuralOutliers(rows) ==
    LET n == Size(rows)
        With(v) == Cardinality({i \in Indices(rows) : Traits[rows[i]].status = v})
        Values == {Traits[rows[i]].status : i \in Indices(rows)}
        Before(v, w) == With(v) > With(w) \/ (With(v) = With(w) /\ v < w)
        Ahead(w) == Cardinality({i \in Indices(rows) : Before(Traits[rows[i]].status, w)})
        Top == {v \in Values : 10 * Ahead(v) < 8 * n}
        Extra == {i \in Indices(rows) : Traits[rows[i]].extra}
    IN  IF n < 5 THEN {}
        ELSE (IF 5 * Cardinality(Extra) < n THEN Extra ELSE {})
             \cup (IF Cardinality(Values) \in 2..50 /\ Cardinality(Top) <= 5
                   THEN {i \in Indices(rows) : Traits[rows[i]].status \notin Top} ELSE {})

(* A metric more than two sample deviations from the mean.                       *)
Anomalies(rows) ==
    LET n == Size(rows)
        Total(P) == FoldLeft(LAMBDA acc, i : acc + P[i], 0, Rising(Indices(rows), n))
        X == [i \in Indices(rows) |-> Traits[rows[i]].metric]
        S == Total(X)
        Spread == n * Total([i \in Indices(rows) |-> X[i] * X[i]]) - S * S
    IN  {i \in Indices(rows) :
            Spread > 0 /\ (n * X[i] - S) * (n * X[i] - S) * (n - 1) > 4 * n * Spread}

MustKeep(rows) == ErrorRows(rows) \cup StructuralOutliers(rows)

-------------------------------------------------------------------------------
(* Anchors: a few rows of the front, the back and the middle *)

Weights(strategy, leaning) ==
    LET base == CASE strategy = "time_series"    -> [front |-> 45, back |-> 45]
                  [] strategy = "cluster_sample" -> [front |-> 15, back |-> 75]
                  [] strategy = "top_n"          -> [front |-> 75, back |-> 15]
                  [] OTHER                       -> [front |-> 50, back |-> 40]
    IN  CASE leaning = "recent" ->
                [front |-> AtLeast(10, base.front - 15), back |-> AtMost(80, base.back + 15)]
          [] leaning = "early" ->
                [front |-> AtMost(80, base.front + 15), back |-> AtLeast(10, base.back - 15)]
          [] OTHER -> base

AnchorBudget(n, max) ==
    IF n <= max THEN 0 ELSE AtMost(AtMost(12, AtLeast(3, max \div 4)), n)

\* acc with the first of tries whose content was not seen yet
Picked(rows, acc, tries) ==
    LET fresh == SelectSeq(tries, LAMBDA i : rows[i] \notin acc.seen)
    IN  IF fresh = <<>> THEN acc
        ELSE [seen |-> acc.seen \cup {rows[Head(fresh)]}, kept |-> acc.kept \cup {Head(fresh)}]

Spot(from, to, k, slots) ==
    AtMost(from + (k * (to - from)) \div (slots + 1), to - 1)

SelectRegion(rows, acc, from, to, slots) ==
    LET Around(i) == SelectSeq(<<i, i + 1, i - 1, i + 2, i - 2>>, LAMBDA j : from <= j /\ j < to)
    IN  IF slots = 0 \/ from >= to THEN acc
        ELSE IF slots >= to - from
        THEN FoldLeft(LAMBDA a, i : Picked(rows, a, <<i>>), acc, [j \in 1..(to - from) |-> from + j - 1])
        ELSE FoldLeft(LAMBDA a, k : Picked(rows, a, Around(Spot(from, to, k, slots))),
                      acc, [k \in 1..slots |-> k])

(* The most informative first, and of equals the first.                          *)
ByDensity(rows, candidates) ==
    LET Info(k) == Traits[rows[candidates[k]]].info
        Better(a, b) == Info(a) > Info(b) \/ (Info(a) = Info(b) /\ a < b)
        Rank(k) == Cardinality({j \in DOMAIN candidates : Better(j, k)})
    IN  [r \in DOMAIN candidates |->
            candidates[CHOOSE k \in DOMAIN candidates : Rank(k) = r - 1]]

(* The middle takes the most informative of three candidates per slot.           *)
SelectByDensity(rows, acc, from, to, slots) ==
    LET wide == AtMost(3 * slots, to - from)
        candidates == SelectSeq([k \in 1..wide |-> Spot(from, to, k, wide)],
                                LAMBDA i : rows[i] \notin acc.seen)
    IN  FoldLeft(LAMBDA a, i : Picked(rows, a, <<i>>), acc,
                 SubSeq(ByDensity(rows, candidates), 1, AtMost(slots, Len(candidates))))

AnchorSlots(budget, w) ==
    LET front == AtLeast(1, (budget * w.front) \div 100)
        asked == AtLeast(1, (budget * w.back) \div 100)
    IN  [front  |-> front,
         back   |-> IF front + asked > budget THEN AtLeast(1, asked - (front + asked - budget)) ELSE asked,
         middle |-> AtLeast(0, budget - (front + asked))]

AnchorsInFront(rows, slots) ==
    SelectRegion(rows, [seen |-> {}, kept |-> {}], 0,
                 AtMost(2 * slots.front, Size(rows) \div 3), slots.front)

AnchorsAtEnds(rows, front, slots) ==
    [from |-> Cardinality(front.kept),
     all  |-> SelectRegion(rows, front, AtLeast(Size(rows) - 2 * slots.back, (2 * Size(rows)) \div 3),
                           Size(rows), slots.back)]

WithMiddle(rows, ends, slots) ==
    LET to == Size(rows) - (Cardinality(ends.all.kept) - ends.from)
    IN  IF slots.middle > 0 /\ to > ends.from
        THEN SelectByDensity(rows, ends.all, ends.from, to, slots.middle).kept
        ELSE ends.all.kept

AnchorsIn(rows, slots) ==
    WithMiddle(rows, AnchorsAtEnds(rows, AnchorsInFront(rows, slots), slots), slots)

SelectAnchors(rows, max, strategy, leaning) ==
    IF Size(rows) <= max THEN Indices(rows)
    ELSE AnchorsIn(rows, AnchorSlots(AnchorBudget(Size(rows), max), Weights(strategy, leaning)))

-------------------------------------------------------------------------------
(* The budget *)

Deduplicated(keep, rows) == {i \in keep : \A j \in keep : rows[j] = rows[i] => i <= j}

FillRemainingSlots(keep, rows, max) ==
    LET n == Size(rows)
        room == max - Cardinality(keep)
        candidates == Rising(Indices(rows) \ keep, n)
        Step(acc, i) == IF rows[i] \notin Of(rows, acc) /\ Cardinality(acc) < max
                        THEN acc \cup {i} ELSE acc
    IN  IF room <= 0 \/ candidates = <<>> THEN keep
        ELSE FoldLeft(Step, keep, Strided(candidates, AtLeast(1, Len(candidates) \div (room + 1))))

\* Mutant: the first rows, not those that must stay, come first.
PrioritizeIndicesInOrder(keep, rows, max) ==
    Topped({}, Rising(Deduplicated(keep, rows), Size(rows)), max)

(* Errors, outliers and anomalies stay whatever the budget; the first three, the *)
(* last two, then the other rows wanted take the room that is left.              *)
WithinBudget(current, critical, n, max) ==
    LET ends == SelectSeq([k \in 1..3 |-> k - 1], LAMBDA i : i < n)
                \o SelectSeq(<<n - 2, n - 1>>, LAMBDA i : i >= 0)
    IN  IF Cardinality(current) <= max THEN current
        ELSE Topped(critical, ends \o Rising(current \ critical, n), max - Cardinality(critical))

Filled(unique, rows, max) ==
    IF Cardinality(unique) < AtMost(max, Size(rows))
    THEN FillRemainingSlots(unique, rows, max) ELSE unique

PrioritizeIndices(keep, rows, max) ==
    WithinBudget(Filled(Deduplicated(keep, rows), rows, max),
                 MustKeep(rows) \cup Anomalies(rows), Size(rows), max)

-------------------------------------------------------------------------------
(* The plans.  q is the question: the contents it names, those the scorer finds  *)
(* relevant and those it finds very relevant, and the leaning of its words; with *)
(* it come the change points (jumps) the analyzer saw in a metric.               *)

Asked(rows, q) == {i \in Indices(rows) : rows[i] \in q.named \cup q.relevant}

Around(rows, jumps, reach) ==
    {i \in Indices(rows) : \E j \in jumps : i \in (j - reach)..(j + reach)}

PlanSmartSample(rows, q, max) ==
    PrioritizeIndices(SelectAnchors(rows, max, "smart_sample", q.leaning) \cup MustKeep(rows)
        \cup Anomalies(rows) \cup Around(rows, q.jumps, 1) \cup Asked(rows, q), rows, max)

PlanTimeSeries(rows, q, max) ==
    PrioritizeIndices(SelectAnchors(rows, max, "time_series", q.leaning) \cup MustKeep(rows)
        \cup Around(rows, q.jumps, 2) \cup Asked(rows, q), rows, max)

(* Two rows of each cluster of messages, when messages vary enough.              *)
PlanClusterSample(rows, q, max) ==
    LET n == Size(rows)
        Message(i) == Traits[rows[i]].message
        varied == 10 * Cardinality({Message(i) : i \in Indices(rows)}) > 3 * n
        Earlier(i) == {j \in Indices(rows) : j < i /\ Message(j) = Message(i)}
        samples == IF varied THEN {i \in Indices(rows) : Cardinality(Earlier(i)) < 2} ELSE {}
    IN  PrioritizeIndices(SelectAnchors(rows, max, "cluster_sample", q.leaning) \cup MustKeep(rows)
            \cup samples \cup Asked(rows, q), rows, max)

(* The best scores, then what must be kept, what the question names and at most  *)
(* three rows very relevant to it.  Nothing is prioritised: max may be exceeded. *)
PlanTopN(rows, q, max) ==
    LET n == Size(rows)
        Score(i) == Traits[rows[i]].metric
        Better(i) == {j \in Indices(rows) : Score(j) > Score(i) \/ (Score(j) = Score(i) /\ j < i)}
        top == {i \in Indices(rows) : Cardinality(Better(i)) < AtLeast(0, max - 3)}
        named == {i \in Indices(rows) : rows[i] \in q.named}
        close == Rising({i \in Indices(rows) : rows[i] \in q.very}, n)
    IN  Topped(top \cup MustKeep(rows) \cup named, close, 3)

CreatePlan(strategy, rows, q, max) ==
    CASE strategy = "skip"           -> Indices(rows)
      [] strategy = "time_series"    -> PlanTimeSeries(rows, q, max)
      [] strategy = "cluster_sample" -> PlanClusterSample(rows, q, max)
      [] strategy = "top_n"          -> PlanTopN(rows, q, max)
      [] OTHER                       -> PlanSmartSample(rows, q, max)

Offloaded(rows, kept) == [kept |-> kept, stored |-> IF kept = Indices(rows) THEN {} ELSE {rows}]

(* The rows kept of an array of objects, and the array its marker names.  A      *)
(* table that says every row in less room (compact) drops none.  Under a token   *)
(* budget an array that should be left alone is sampled all the same.            *)
CrushArray(rows, strategy, q, max, budgeted, compact) ==
    LET asked == IF strategy = "skip" /\ budgeted THEN "smart_sample" ELSE strategy
    IN  IF Size(rows) <= max \/ compact \/ asked = "skip"
        THEN [kept |-> Indices(rows), stored |-> {}]
        ELSE Offloaded(rows, CreatePlan(asked, rows, q, max))

-------------------------------------------------------------------------------
(* Strings, numbers and the keys of an object *)

(* What compute_optimal_k may answer, whatever the coverage curve, the bias and  *)
(* the compression ratio say.                                                    *)
SizesFor(n, least, most) ==
    IF n <= Few THEN {n} ELSE AtMost(least, most)..AtLeast(least, most)

\* round-half-even of k * percent / 100
Share(k, percent) ==
    LET whole == (k * percent) \div 100
        rest == (k * percent) % 100
    IN  IF rest > 50 \/ (rest = 50 /\ whole % 2 = 1) THEN whole + 1 ELSE whole

KSplit(k) ==
    LET first == AtMost(AtLeast(1, Share(k, 30)), k)
    IN  [first |-> first, last |-> AtMost(AtLeast(1, Share(k, 15)), k - first)]

Ends(n, split) == UpTo(AtMost(split.first, n)) \cup (AtLeast(0, n - split.last)..(n - 1))

\* every stride-th element from the first
Strides(n, room) ==
    LET stride == AtLeast(1, (n - 1) \div (room + 1))
    IN  [j \in 1..((n - 1) \div stride + 1) |-> (j - 1) * stride]

CrushStringArray(rows, k) ==
    LET n == Size(rows)
        errors == ErrorRows(rows)
        odd == Anomalies(rows)
        base == errors \cup odd \cup Ends(n, KSplit(k))
        cap == k + Cardinality(errors) + Cardinality(odd)
        Step(acc, i) == IF rows[i] \in Of(rows, acc) \/ Cardinality(acc) >= cap
                        THEN acc ELSE acc \cup {i}
    IN  IF n <= Few THEN Indices(rows)
        ELSE IF Cardinality(base) >= k THEN base
        ELSE FoldLeft(Step, base, Strides(n, k - Cardinality(base)))

CrushNumberArray(rows, jumps, k) ==
    LET n == Size(rows)
        odd == Anomalies(rows)
        base == odd \cup jumps \cup Ends(n, KSplit(k))
    IN  IF n <= Few THEN Indices(rows)
        ELSE IF Cardinality(base) >= k THEN base
        ELSE Topped(base, Strides(n, k - Cardinality(base)), k + Cardinality(odd) - Cardinality(base))

(* The keys of an object: rows[i] is the i-th key with its value, small those of *)
(* a few tokens.  The ends are not clamped to the size aimed at.                 *)
CrushObject(rows, small, k) ==
    LET n == Size(rows)
        base == ErrorRows(rows) \cup small
                \cup Ends(n, [first |-> AtLeast(1, Share(k, 30)), last |-> AtLeast(1, Share(k, 15))])
        Step(acc, i) == IF Cardinality(acc) >= k + Cardinality(acc \cap ErrorRows(rows))
                        THEN acc ELSE acc \cup {i}
    IN  IF n <= Few \/ k >= n THEN Indices(rows)
        ELSE IF Cardinality(base) >= k THEN base
        ELSE FoldLeft(Step, base, Strides(n, k - Cardinality(base)))

-------------------------------------------------------------------------------
(* Arrays of several types *)

(* Each group of five or more is crushed on its own, k[type] its size aimed at,  *)
(* and its survivors are found again by content; other types stay whole.         *)
CrushMixedArray(rows, q, max, k) ==
    LET n == Size(rows)
        Group(kind) == {i \in Indices(rows) : Traits[rows[i]].type = kind}
        Apart(kind) == LET at == Rising(Group(kind), n)
                       IN  [j \in UpTo(Len(at)) |-> rows[at[j + 1]]]
        Back(kind, kept) == {i \in Group(kind) : rows[i] \in Of(Apart(kind), kept)}
        InPlace(kind, kept) == {Rising(Group(kind), n)[j + 1] : j \in kept}
        Survivors(kind) ==
            IF Cardinality(Group(kind)) < 5 THEN Group(kind) ELSE
            CASE kind = "object" ->
                    Back(kind, CrushArray(Apart(kind), "smart_sample", q, max, FALSE, FALSE).kept)
              [] kind = "string" -> Back(kind, CrushStringArray(Apart(kind), k[kind]))
              [] kind = "number" ->
                    InPlace(kind, Anomalies(Apart(kind))
                                  \cup Ends(Cardinality(Group(kind)), KSplit(k[kind])))
              [] OTHER -> Group(kind)
    IN  IF n <= Few THEN Indices(rows)
        ELSE UNION {Survivors(Traits[rows[i]].type) : i \in Indices(rows)}

-------------------------------------------------------------------------------
(* What is checked *)

Sampling == {"smart_sample", "time_series", "cluster_sample"}

(* Over and under the budget, through removal of duplicates, filling up and      *)
(* prioritising, for every strategy: an error row or an outlier is never lost    *)
(* (one of its duplicates may stand for it), sampling keeps to its budget unless *)
(* the rows it must keep exceed it, fills it as far as there are distinct rows,  *)
(* and rows are dropped only from an array stored under the marker.              *)
ObjectsKept(rows, strategy, max, result) ==
    LET critical == MustKeep(rows) \cup Anomalies(rows)
    IN  /\ Of(rows, MustKeep(rows)) \subseteq Of(rows, result.kept)
        /\ result.kept # Indices(rows) => rows \in result.stored
        /\ strategy \in Sampling =>
            /\ Cardinality(result.kept) <= AtLeast(max, Cardinality(critical))
            /\ Cardinality(result.kept) >= AtMost(max, Cardinality(Of(rows, Indices(rows))))

ObjectRowsKept(rows, strategy, q, max, budgeted) ==
    ObjectsKept(rows, strategy, max, CrushArray(rows, strategy, q, max, budgeted, FALSE))

(* Whatever the size aimed at: error strings, error keys, small keys, numbers    *)
(* that stand out and both ends stay, and what is added for diversity stops at   *)
(* the size aimed at, raised by what had to stay.                                *)
StringRowsKept(rows, k) ==
    LET kept == CrushStringArray(rows, k)
        forced == ErrorRows(rows) \cup Anomalies(rows)
    IN  /\ forced \cup {0, Size(rows) - 1} \subseteq kept
        /\ Cardinality(kept) <= k + Cardinality(forced)

NumberRowsKept(rows, q, k) ==
    LET kept == CrushNumberArray(rows, q.jumps, k)
    IN  /\ Anomalies(rows) \cup q.jumps \subseteq kept
        /\ Cardinality(kept) <= k + Cardinality(Anomalies(rows) \cup q.jumps)

KeysKept(rows, small, k) ==
    LET kept == CrushObject(rows, small, k)
    IN  /\ ErrorRows(rows) \cup small \subseteq kept
        /\ Cardinality(kept) <= AtMost(Size(rows), k + Cardinality(ErrorRows(rows) \cup small))

(* In an array of several types no error is lost from the group it is crushed    *)
(* with, and what is neither object, string nor number stays.                    *)
MixedKept(rows, kept) ==
    /\ Of(rows, ErrorRows(rows)) \subseteq Of(rows, kept)
    /\ {i \in Indices(rows) : Traits[rows[i]].type \notin {"object", "string", "number"}}
        \subseteq kept

MixedRowsKept(rows, q, max) ==
    MixedKept(rows, CrushMixedArray(rows, q, max, [string |-> max + 2, number |-> max + 2]))
===============================================================================
