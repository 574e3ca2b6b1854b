------------------------------ MODULE LogSelection ------------------------------
(* Which lines of a build or test log LogCompressor shows (log_compressor.rs).   *)
(*                                                                               *)
(* A text is a sequence of kinds of line; LineTraits says of each kind what the  *)
(* compressor reads in it.  Lines are told apart by their number.  The size      *)
(* aimed at comes from the knee of a coverage curve: only its range matters.     *)
EXTENDS Integers, Sequences, FiniteSets, SequencesExt

CONSTANTS
    LineTraits,   \* per kind: level, opens, ends, summary, key
    MinLines,     \* shorter logs are returned as they are (50 in the code)
    MaxErrors,    \* error lines, and failure lines, kept (10)
    MaxWarnings,  \* distinct warnings kept (5)
    MaxTraces,    \* stack traces kept (3)
    StackMax,     \* lines of a stack trace (20)
    Context       \* lines kept around each of these (3)

Numbers(text)       == DOMAIN text
Levelled(text, lev) == {i \in Numbers(text) : LineTraits[text[i]].level = lev}
Summaries(text)     == {i \in Numbers(text) : LineTraits[text[i]].summary}
Lowest(set, n)      == {i \in set : Cardinality({j \in set : j < i}) < n}
Highest(set)        == {i \in set : \A j \in set : j <= i}

-------------------------------------------------------------------------------
(* Stack traces: a line of a known flavor opens one; it runs until a line that   *)
(* ends that flavor or until it is long enough, and that line may open the next. *)

ParseStep(acc, kind) ==
    LET line == LineTraits[kind]
        over == acc.active = "none" \/ acc.run >= StackMax \/ acc.active \in line.ends
        flavor == IF over THEN line.opens ELSE acc.active
    IN  [active |-> flavor,
         run    |-> IF flavor = "none" THEN 0 ELSE IF over THEN 1 ELSE acc.run + 1,
         traced |-> Append(acc.traced, flavor # "none")]

Traced(text) ==
    LET marks == FoldLeft(ParseStep, [active |-> "none", run |-> 0, traced |-> <<>>], text).traced
    IN  {i \in Numbers(text) : marks[i]}

\* a stack is a run of marked lines: two chained traces are one stack
StackOf(traced, first) == {i \in traced : i >= first /\ \A j \in first..i : j \in traced}

KeptStacks(traced) ==
    UNION {Lowest(StackOf(traced, s), StackMax) :
             s \in Lowest({i \in traced : i - 1 \notin traced}, MaxTraces)}

-------------------------------------------------------------------------------
(* Scores, in hundredths *)

Score(text, traced, i) ==
    LET line == LineTraits[text[i]]
        level == CASE line.level \in {"error", "fail"} -> 100
                   [] line.level = "warn"              -> 50
                   [] line.level = "debug"             -> 5
                   [] line.level = "trace"             -> 2
                   [] OTHER                            -> 10
        all == level + (IF i \in traced THEN 30 ELSE 0) + (IF line.summary THEN 40 ELSE 0)
    IN  IF all > 100 THEN 100 ELSE all

Above(score, i, j) == score[i] > score[j] \/ (score[i] = score[j] /\ i < j)
Best(set, score, n) == {i \in set : Cardinality({j \in set : Above(score, j, i)}) < n}

-------------------------------------------------------------------------------
(* The selection *)

\* Mutant: the last line has no place of its own.
SelectWithFirst(set, score, max) ==
    LET ends == Lowest(set, 1)
    IN  IF Cardinality(set) <= max THEN set
        ELSE ends \cup Best(set \ ends, score, max - Cardinality(ends))

SelectWithFirstLast(set, score, max) ==
    LET ends == Lowest(set, 1) \cup Highest(set)
    IN  IF Cardinality(set) <= max THEN set
        ELSE ends \cup Best(set \ ends, score, max - Cardinality(ends))

DedupeSimilar(text, set) ==
    {i \in set : \A j \in set : LineTraits[text[j]].key = LineTraits[text[i]].key => i <= j}

Near(text, set) ==
    {i \in Numbers(text) : \E j \in set : i \in (j - Context)..(j + Context)}

Chosen(text, score, traced) ==
    Near(text, SelectWithFirstLast(Levelled(text, "error"), score, MaxErrors)
               \cup SelectWithFirstLast(Levelled(text, "fail"), score, MaxErrors)
               \cup Lowest(DedupeSimilar(text, Levelled(text, "warn")), MaxWarnings)
               \cup KeptStacks(traced)
               \cup Summaries(text))

SelectLines(text, size) ==
    LET traced == Traced(text)
        score == [i \in Numbers(text) |-> Score(text, traced, i)]
        chosen == Chosen(text, score, traced)
    IN  IF Cardinality(chosen) > size THEN Best(chosen, score, size) ELSE chosen

(* What is shown: the lines, the note on the others, and the key when the result *)
(* is short enough for one and there is a store.                                 *)
CompressLog(text, size, short, stored) ==
    LET shown == SelectLines(text, size)
        told == {lev \in {"error", "fail", "warn", "info"} : Levelled(text, lev) # {}}
    IN  IF Len(text) < MinLines THEN [shown |-> Numbers(text), note |-> FALSE, key |-> FALSE]
        ELSE [shown |-> shown, note |-> shown # Numbers(text) /\ told # {},
              key |-> short /\ stored]

-------------------------------------------------------------------------------
(* What is checked *)

LogKept(text, size, result, traced) ==
    LET score == [i \in Numbers(text) |-> Score(text, traced, i)]
        of(lev) == Levelled(text, lev)
        ends == UNION {Lowest(of(lev), 1) \cup Highest(of(lev)) : lev \in {"error", "fail"}}
        wanted == ends \cup Summaries(text)
                  \cup Lowest({i \in traced : i - 1 \notin traced}, MaxTraces)
        warned(set) == {LineTraits[text[i]].key : i \in of("warn") \cap set}
        full == {i \in ends \cup Summaries(text) \cup traced : score[i] = 100}
    IN  /\ Lowest(full, 1) \subseteq result.shown
        /\ Cardinality(result.shown) <= size
        /\ Cardinality(result.shown) < size =>
            /\ wanted \subseteq result.shown
            /\ Cardinality(warned(Numbers(text))) <= MaxWarnings
                 => warned(result.shown) = warned(Numbers(text))
        /\ \A i \in wanted \ result.shown : \A j \in result.shown : Above(score, j, i)
        /\ ~(of("error") \cup of("fail") \cup of("warn") \subseteq result.shown) => result.note

(* However errors, traces, summaries and their surroundings overlap: the first   *)
(* line of full score is shown; below the cap the first and last error, the      *)
(* first and last failure, every summary, a line of each warning and the opening *)
(* of each of the first traces stay; above it no line gives way to a lesser one; *)
(* and an error, a failure or a warning left out is never left out silently.     *)
LogLinesKept(text, size) ==
    Len(text) >= MinLines =>
        LogKept(text, size, CompressLog(text, size, TRUE, TRUE), Traced(text))
===============================================================================
