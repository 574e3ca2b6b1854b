------------------------------- MODULE Selections -------------------------------
(* The calls of the compressors that choose what to keep: arrays to SmartCrusher, *)
(* logs, search outputs and diffs to theirs, tagged texts to the tag protector,  *)
(* transcripts of test runs to their views, arrays of objects to the table, and  *)
(* the views that have an inverse.                                               *)
(* A caller says what it aims at, hands over an input and gets the answer; the   *)
(* answer depends on nothing else, so one call is under way at a time.           *)
EXTENDS Integers, Sequences, FiniteSets

CONSTANTS
    RowTraits, LineTraits, MatchTraits, TagTraits,   \* what the compressors read in an input
    LongTexts,    \* the strings a table shows as a marker
    TabbedNames,  \* the file names with a tab in a patch
    Aliased,      \* the words of a text that its dictionary holds
    Limits,       \* their limits: few, log, errors, warnings, traces, stack, around, total,
                  \* files, perFile, matches, diff, diffFiles, hunks, context, failures, rows, inner, kinds,
                  \* row, prefix, reference
    Goals,        \* the calls made, each with what it aims at
    Inputs        \* per compressor, the inputs it is given

VARIABLE call

Rows == INSTANCE RowSelection WITH
    Contents <- DOMAIN RowTraits, Traits <- RowTraits, Few <- Limits.few
Logs == INSTANCE LogSelection WITH
    MinLines <- Limits.log, MaxErrors <- Limits.errors, MaxWarnings <- Limits.warnings,
    MaxTraces <- Limits.traces, StackMax <- Limits.stack, Context <- Limits.around
Searches == INSTANCE SearchSelection WITH
    MaxFiles <- Limits.files, MaxPerFile <- Limits.perFile, MinMatches <- Limits.matches
Patches == INSTANCE DiffSelection WITH
    MinLines <- Limits.diff, MaxFiles <- Limits.diffFiles, MaxHunks <- Limits.hunks,
    MaxContext <- Limits.context
Markup == INSTANCE TagProtection WITH Tags <- TagTraits
Tables == INSTANCE TableCompaction WITH
    MaxInner <- Limits.inner, MinBuckets <- 2, MaxBuckets <- Limits.kinds
Reversible == INSTANCE ReversibleViews WITH
    ShortRows <- {<<>>}, LongRow <- Limits.row, MinPrefix <- Limits.prefix, RefSize <- Limits.reference
Runs == INSTANCE TestViews WITH MaxShown <- Limits.failures, MaxRows <- Limits.rows

NoCall == <<>>

Calls ==
    /\ call = NoCall
    /\ \E goal \in Goals : call' = [goal |-> goal]

Receives ==
    /\ DOMAIN call = {"goal"}
    /\ \E input \in Inputs[call.goal.of] : call' = [goal |-> call.goal, input |-> input]

Answers ==
    /\ "input" \in DOMAIN call
    /\ call' = NoCall

CallStep == Calls \/ Receives \/ Answers

-------------------------------------------------------------------------------
(* Properties *)

Given(kind) == "input" \in DOMAIN call /\ call.goal.of = kind

(* Whatever the kind of array, the strategy, the question and the budget, no     *)
(* error and no outlier is lost, the budget is kept unless they exceed it, and   *)
(* an array that loses a row is stored whole; and a table can be read back       *)
(* (smart_crusher/).                                                             *)
RowsKept ==
    /\ Given("objects") =>
        Rows!ObjectRowsKept(call.input, call.goal.strategy, call.goal.question,
                            call.goal.budget, call.goal.budgeted)
    /\ Given("strings") => Rows!StringRowsKept(call.input, call.goal.budget)
    /\ Given("numbers") => Rows!NumberRowsKept(call.input, call.goal.question, call.goal.budget)
    /\ Given("keys")    => Rows!KeysKept(call.input, call.goal.small, call.goal.budget)
    /\ Given("table")   => Tables!TableReadsBack(call.input)
    /\ Given("mixed")   => Rows!MixedRowsKept(call.input, call.goal.question, call.goal.budget)

(* However the lines of a log, the matches of a search, the hunks of a diff and  *)
(* the tags of a text overlap, repeat and exceed their limits: what each of them *)
(* promises to keep stays, what it leaves out is counted, and what was hidden    *)
(* from a compressor comes back (log_compressor.rs, search_compressor.rs,        *)
(* diff_compressor.rs, tag_protector.rs).                                        *)
TextKept ==
    /\ Given("log")    => Logs!LogLinesKept(call.input, call.goal.budget)
    /\ Given("search") => Searches!SearchLinesKept(call.input, call.goal.budget)
    /\ Given("diff")   => Patches!DiffLinesKept(call.input)
    /\ Given("tags")   => Markup!TagsRestored(call.input, call.goal.inside)

(* Whatever order the lines of a test run come in: a failure that has a report   *)
(* (a block, a name in a list, an event of its own) is shown, with its reason, or*)
(* counted, and a view that counts none has seen no such report and no total that*)
(* counts one (test_views.rs).  A suite that ends without a report or a total is *)
(* not noticed: the status line alone says that the command failed.              *)
TranscriptsKept ==
    /\ Given("cargo")  => Runs!CargoRunKept(call.input)
    /\ Given("pytest") => Runs!PytestRunKept(call.input)
    /\ \A runner \in {"console", "json", "go", "dotnet"} :
          Given(runner) => Runs!OtherRunKept(runner, call.input)

(* A view that has an inverse is read back as what it was made of, whatever its  *)
(* rows repeat, share, or look like (patch_view.rs, lossless_filters.rs,         *)
(* reversible_views.rs, conversation_views.rs).                                  *)
ViewsReadBack ==
    /\ Given("patch")    => Reversible!PatchReadsBack(call.input)
    /\ Given("lines")    => Reversible!LinesReadBack(call.input)
    /\ Given("words")    => Reversible!WordsReadBack(call.input)
    /\ Given("paths")    => Reversible!PathsReadBack(call.input)
    /\ Given("messages") => Reversible!MessagesReadBack(call.input)
===============================================================================
