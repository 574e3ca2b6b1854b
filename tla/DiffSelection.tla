------------------------------ MODULE DiffSelection ------------------------------
(* Which lines of a diff DiffCompressor shows (diff_compressor.rs).              *)
(*                                                                               *)
(* A diff is a sequence of kinds of line, a line being told by its position:     *)
(*   "git" a file's header, "mode", "rename", "binary", "old", "new" (---, +++), *)
(*   "hunk" a hunk's header, "add", "del", "fix" (an added line that names an    *)
(*   error), "dash" (a removed line that reads ---),                             *)
(*   "ctx", "nonl" (\ No newline at end of file) and "other".                    *)
(* A file is named by the position of its header, and so is a hunk.              *)
EXTENDS Integers, Sequences, FiniteSets

CONSTANTS
    MinLines,    \* shorter diffs are returned as they are (50 in the code)
    MaxFiles,    \* files shown (20)
    MaxHunks,    \* hunks shown per file (10)
    MaxContext   \* lines shown on either side of a change (2)

Lines(d)       == DOMAIN d
Kind(d, kinds) == {i \in Lines(d) : d[i] \in kinds}
First(set)     == {i \in set : \A j \in set : i <= j}
Last(set)      == {i \in set : \A j \in set : j <= i}

-------------------------------------------------------------------------------
(* The parse *)

Files(d) == Kind(d, {"git"})

\* the lines of a file, its header included
FileLines(d, f) == {i \in Lines(d) : i >= f /\ \A g \in Files(d) : g <= f \/ i < g}

PreDiff(d) == {i \in Lines(d) : \A f \in Files(d) : i < f}

HunksOf(d, f) == FileLines(d, f) \cap Kind(d, {"hunk"})

\* file headers are taken out of a hunk wherever they stand
HunkLines(d, f, h) ==
    {i \in FileLines(d, f) : i > h /\ d[i] \notin {"hunk", "old", "new"}
                             /\ \A k \in HunksOf(d, f) : k <= h \/ i < k}

Added(d, f, h)   == HunkLines(d, f, h) \cap Kind(d, {"add", "fix"})
Removed(d, f, h) == HunkLines(d, f, h) \cap Kind(d, {"del"})
AddedIn(d, f)    == UNION {Added(d, f, h) : h \in HunksOf(d, f)}
RemovedIn(d, f)  == UNION {Removed(d, f, h) : h \in HunksOf(d, f)}

IsBinary(d, f) == FileLines(d, f) \cap Kind(d, {"binary"}) # {}

-------------------------------------------------------------------------------
(* The selection *)

Score(d, f, h) ==
    LET changes == 3 * Cardinality(Added(d, f, h) \cup Removed(d, f, h))
        density == IF changes > 30 THEN 30 ELSE changes
    IN  density + (IF HunkLines(d, f, h) \cap Kind(d, {"fix"}) # {} THEN 30 ELSE 0)

\* the n of a set with the highest values, the first of equals first
Top(set, value, n) ==
    {x \in set : Cardinality({y \in set : \/ value[y] > value[x]
                                          \/ value[y] = value[x] /\ y < x}) < n}

\* Mutant: the last hunk competes with the others.
SelectHunksKeepFirst(d, f) ==
    LET all == HunksOf(d, f)
        middle == all \ First(all)
    IN  IF Cardinality(all) <= MaxHunks THEN all
        ELSE First(all) \cup Top(middle, [h \in middle |-> Score(d, f, h)], MaxHunks - 1)

SelectHunks(d, f) ==
    LET all == HunksOf(d, f)
        ends == First(all) \cup Last(all)
        middle == all \ ends
    IN  IF Cardinality(all) <= MaxHunks THEN all
        ELSE ends \cup Top(middle, [h \in middle |-> Score(d, f, h)], MaxHunks - 2)

SelectFiles(d) ==
    IF Cardinality(Files(d)) <= MaxFiles THEN Files(d)
    ELSE Top(Files(d), [f \in Files(d) |-> Cardinality(AddedIn(d, f)) + Cardinality(RemovedIn(d, f))],
             MaxFiles)

\* a hunk without a change keeps its first lines
ReduceContext(d, f, h) ==
    LET body == HunkLines(d, f, h)
        place == [i \in body |-> Cardinality({j \in body : j < i})]
        changes == body \cap Kind(d, {"add", "fix", "del", "dash"})
    IN  IF changes = {} THEN {i \in body : place[i] < MaxContext}
        ELSE {i \in body : d[i] = "nonl"
                \/ \E c \in changes : place[i] \in (place[c] - MaxContext)..(place[c] + MaxContext)}

ShownOf(d, f) ==
    LET own == FileLines(d, f)
        seen(kind) == own \cap Kind(d, {kind})
    IN  {f} \cup seen("rename") \cup Last(seen("mode"))
        \cup (IF IsBinary(d, f) THEN Last(seen("binary"))
              ELSE Last(seen("old")) \cup Last(seen("new"))
                   \cup UNION {{h} \cup ReduceContext(d, f, h) : h \in SelectHunks(d, f)})

(* What is shown, and what the footer says of it.                                *)
CompressDiff(d) ==
    LET files == SelectFiles(d)
        whole == Len(d) < MinLines \/ Files(d) = {}
        TotalOf(set(_, _)) == Cardinality(UNION {set(d, f) : f \in files})
        Left(e, f) == HunksOf(e, f) \ SelectHunks(e, f)
    IN  [whole   |-> whole,
         shown   |-> IF whole THEN Lines(d) ELSE PreDiff(d) \cup UNION {ShownOf(d, f) : f \in files},
         files   |-> Cardinality(files),
         added   |-> TotalOf(AddedIn),
         removed |-> TotalOf(RemovedIn),
         omitted |-> TotalOf(Left)]

-------------------------------------------------------------------------------
(* What is checked *)

(* Over the caps on files and hunks and the trimming of context: a changed line  *)
(* of a file shown is shown unless its hunk was left out, and the footer counts  *)
(* those hunks; the first and the last hunk stay, and no other gives way to a    *)
(* lesser one, nor a file to one that changes less; the end-of-file marks of a   *)
(* changed hunk and everything before the first file stay; and the total of added *)
(* lines counts those shown and those left out, each once.                       *)
DiffLinesKept(d) ==
    LET result == CompressDiff(d)
        kept == {f \in Files(d) : f \in result.shown}
        plain == {f \in kept : ~IsBinary(d, f)}
        cut == {h \in Kind(d, {"hunk"}) \ result.shown : \E f \in plain : h \in HunksOf(d, f)}
    IN  ~result.whole =>
        /\ PreDiff(d) \subseteq result.shown
        /\ Cardinality(kept) = result.files
        /\ kept = plain => Cardinality(cut) = result.omitted
        /\ \A f \in kept, g \in Files(d) \ kept :
            Cardinality(AddedIn(d, f) \cup RemovedIn(d, f)) >= Cardinality(AddedIn(d, g) \cup RemovedIn(d, g))
        /\ \A f \in plain :
            /\ First(HunksOf(d, f)) \cup Last(HunksOf(d, f)) \subseteq result.shown
            /\ \A h \in HunksOf(d, f) :
                /\ h \in cut => \A k \in HunksOf(d, f) \ cut :
                    \/ k \in First(HunksOf(d, f)) \cup Last(HunksOf(d, f))
                    \/ Score(d, f, k) >= Score(d, f, h)
                /\ h \notin cut => HunkLines(d, f, h) \cap Kind(d, {"add", "fix", "del", "dash"})
                                        \subseteq result.shown
                /\ h \notin cut /\ Added(d, f, h) # {} =>
                    HunkLines(d, f, h) \cap Kind(d, {"nonl"}) \subseteq result.shown
        /\ kept = plain => result.added =
            Cardinality({i \in Kind(d, {"add", "fix"}) : \E f \in plain :
                \E h \in HunksOf(d, f) : i \in HunkLines(d, f, h) /\ (h \in cut \/ i \in result.shown)})
===============================================================================
