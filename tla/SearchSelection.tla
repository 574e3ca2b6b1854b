----------------------------- MODULE SearchSelection -----------------------------
(* Which matches of a grep-like output SearchCompressor shows                    *)
(* (search_compressor.rs).                                                       *)
(*                                                                               *)
(* An output is a sequence of kinds of line; MatchTraits gives the file, the     *)
(* line number and the score of a match, or says that the line is none and       *)
(* whether it reports a failure.  Two lines of one kind are the same match twice.*)
EXTENDS Integers, Sequences, FiniteSets, SequencesExt

CONSTANTS
    MatchTraits,  \* per kind: match, file, line, score, failure
    MaxFiles,     \* files shown (15 in the code)
    MaxPerFile,   \* matches shown per file (5)
    MinMatches    \* matches a key needs (10)

Trait(out, i)  == MatchTraits[out[i]]
Parsed(out)    == {i \in DOMAIN out : Trait(out, i).match}
FilesOf(out)   == {Trait(out, i).file : i \in Parsed(out)}
InFile(out, f) == {i \in Parsed(out) : Trait(out, i).file = f}
Distinct(out, set) == {out[i] : i \in set}
Smaller(a, b)  == IF a < b THEN a ELSE b

\* set in the order of Before, a strict total order
Ordered(set, Before(_, _)) ==
    [r \in 1..Cardinality(set) |->
        CHOOSE i \in set : Cardinality({j \in set : Before(j, i)}) = r - 1]

TotalScore(out, f) ==
    FoldLeft(LAMBDA acc, i : acc + (IF i \in InFile(out, f) THEN Trait(out, i).score ELSE 0),
             0, [i \in DOMAIN out |-> i])

\* a stable sort of a map by descending score: the file's name breaks ties
ByScore(out) ==
    Ordered(FilesOf(out),
            LAMBDA f, g : \/ TotalScore(out, f) > TotalScore(out, g)
                          \/ TotalScore(out, f) = TotalScore(out, g) /\ f < g)

MatchBefore(out, i, j) ==
    LET a == Trait(out, i)
        b == Trait(out, j)
    IN  \/ a.score > b.score
        \/ a.score = b.score /\ a.line < b.line
        \/ a.score = b.score /\ a.line = b.line /\ i < j

\* the first match, the last, then the best: each once, while there is room
SelectInFile(out, f, cap) ==
    LET all == InFile(out, f)
        first == CHOOSE i \in all : \A j \in all : i <= j
        last == CHOOSE i \in all : \A j \in all : j <= i
        Push(acc, i) == IF Cardinality(acc) < cap /\ out[i] \notin Distinct(out, acc)
                        THEN acc \cup {i} ELSE acc
    IN  FoldLeft(Push, {}, <<first, last>> \o Ordered(all, LAMBDA i, j : MatchBefore(out, i, j)))

\* Mutant: a file takes its full share whatever the files before it took.
SelectMatchesUncapped(out, total) ==
    UNION {SelectInFile(out, ByScore(out)[r], MaxPerFile) :
             r \in 1..Smaller(MaxFiles, Cardinality(FilesOf(out)))}

SelectMatches(out, total) ==
    LET files == SubSeq(ByScore(out), 1, Smaller(MaxFiles, Cardinality(FilesOf(out))))
        Take(acc, f) == IF Cardinality(acc) >= total THEN acc
                        ELSE acc \cup SelectInFile(out, f, Smaller(MaxPerFile, total - Cardinality(acc)))
    IN  FoldLeft(Take, {}, files)

(* What is shown: the matches, and per shown file how many are left out.  A      *)
(* transcript that also reports a failure is returned as it is.                  *)
CompressSearch(out, total, short, stored) ==
    LET whole == \/ Parsed(out) = {}
                 \/ \E i \in DOMAIN out \ Parsed(out) : Trait(out, i).failure
        kept == SelectMatches(out, total)
        part == {f \in FilesOf(out) : kept \cap InFile(out, f) # {}
                                      /\ ~ InFile(out, f) \subseteq kept}
    IN  IF whole THEN [shown |-> DOMAIN out, more |-> [f \in {} |-> 0], key |-> FALSE]
        ELSE [shown |-> kept,
              more  |-> [f \in part |-> Cardinality(InFile(out, f) \ kept)],
              key   |-> Cardinality(Parsed(out)) >= MinMatches /\ short /\ stored]

-------------------------------------------------------------------------------
(* What is checked *)

SearchKept(out, total, result) ==
    LET kept == result.shown \cap Parsed(out)
        shown(f) == kept \cap InFile(out, f)
        first(f) == {i \in InFile(out, f) : \A j \in InFile(out, f) : i <= j}
        last(f) == {i \in InFile(out, f) : \A j \in InFile(out, f) : j <= i}
        seen == {f \in FilesOf(out) : shown(f) # {}}
        more(f) == IF f \in DOMAIN result.more THEN result.more[f] ELSE 0
        full == Cardinality(kept) = total
    IN  /\ {i \in DOMAIN out \ Parsed(out) : Trait(out, i).failure} \subseteq result.shown
        /\ result.shown # DOMAIN out =>
            /\ Cardinality(kept) <= total
            /\ ~full => Cardinality(seen) = Smaller(MaxFiles, Cardinality(FilesOf(out)))
            /\ \A f \in seen, g \in FilesOf(out) \ seen : TotalScore(out, f) >= TotalScore(out, g)
            /\ \A f \in seen :
                /\ ~full => Cardinality(shown(f)) =
                        Smaller(MaxPerFile, Cardinality(Distinct(out, InFile(out, f))))
                /\ Distinct(out, first(f)) \subseteq Distinct(out, kept)
                /\ Cardinality(shown(f)) > 1 => Distinct(out, last(f)) \subseteq Distinct(out, kept)
                /\ \A i \in InFile(out, f), j \in shown(f) \ (first(f) \cup last(f)) :
                    out[i] \notin Distinct(out, kept) => MatchBefore(out, j, i)
                /\ Cardinality(InFile(out, f)) = Cardinality(shown(f)) + more(f)

(* However the matches of several files interleave and repeat: no failure is     *)
(* lost, the overall size is kept and not wasted, a file gives way only to one   *)
(* that scores as high, a shown file shows its first match and, given room, its  *)
(* last, apart from these only a repeated match or a lesser one is left out, and *)
(* the counts say how many of a shown file's matches are.                        *)
SearchLinesKept(out, total) == SearchKept(out, total, CompressSearch(out, total, TRUE, TRUE))
===============================================================================
