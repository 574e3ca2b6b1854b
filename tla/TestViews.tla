------------------------------- MODULE TestViews -------------------------------
(* What lm-resizer shows of a test run: the views of cargo test, pytest, jest    *)
(* and vitest, go test and dotnet test (test_views.rs).                          *)
(*                                                                               *)
(* A transcript is a sequence of lines; a line is a record that says what its    *)
(* reader recognizes in it, and which test it names.  A view is the raw output,  *)
(* or the lines it shows of it and what it claims of the run.                    *)
EXTENDS Integers, Sequences, FiniteSets, SequencesExt

CONSTANTS
    MaxShown,   \* failures shown one by one, the others are counted (10 in the code)
    MaxRows     \* lines shown of a pytest failure (3)

Positions(raw, says) == {i \in DOMAIN raw : raw[i].says = says}

Verbatim(raw) == [verbatim |-> TRUE, zero |-> FALSE, failures |-> 0, kept |-> DOMAIN raw]
View(zero, failures, kept) ==
    [verbatim |-> FALSE, zero |-> zero, failures |-> failures, kept |-> kept]

Prefix(s, n) == IF Len(s) <= n THEN s ELSE SubSeq(s, 1, n)

-------------------------------------------------------------------------------
(* cargo: a block per failure, the names of the lists that no block covers, and  *)
(* every line outside them that is not of cargo's own grammar.  A result gives   *)
(* its counts and, when it is timed, a duration the reader understands.          *)

CargoGrammar == {"result", "failures", "outcome", "rerun", "status"}

\* Mutant: a list of failures lasts until the next result.
CargoStepInList(acc, raw, i) ==
    LET says == raw[i].says
    IN  CASE says = "result"   -> [acc EXCEPT !.zone = "outside"]
          [] says = "failures" -> [acc EXCEPT !.zone = "list"]
          [] says = "detail"   -> [acc EXCEPT !.zone = "detail", !.blocks = Append(@, <<i>>)]
          [] says \notin {"result", "failures", "detail"} /\ acc.zone = "detail" ->
                [acc EXCEPT !.blocks[Len(acc.blocks)] = Append(@, i)]
          [] says \notin {"result", "failures", "detail"} /\ acc.zone = "list" ->
                [acc EXCEPT !.listed = IF says = "listed" THEN Append(@, i) ELSE @]
          [] OTHER -> [acc EXCEPT !.others = IF says \in CargoGrammar THEN @ ELSE @ \cup {i}]

CargoStep(acc, raw, i) ==
    LET says == raw[i].says
        inside == says \notin {"result", "failures", "detail"}
    IN  CASE says = "result"   -> [acc EXCEPT !.zone = "outside"]
          [] says = "failures" -> [acc EXCEPT !.zone = "list"]
          [] says = "detail"   -> [acc EXCEPT !.zone = "detail", !.blocks = Append(@, <<i>>)]
          [] inside /\ acc.zone = "detail" ->
                [acc EXCEPT !.blocks[Len(acc.blocks)] = Append(@, i)]
          [] inside /\ acc.zone = "list" /\ says = "listed" ->
                [acc EXCEPT !.listed = Append(@, i)]
          [] OTHER ->
                [acc EXCEPT !.zone = "outside",
                            !.others = IF says \in CargoGrammar THEN @ ELSE @ \cup {i}]

CargoFailures(raw) ==
    FoldLeft(LAMBDA acc, i : CargoStep(acc, raw, i),
             [zone |-> "outside", blocks |-> <<>>, listed |-> <<>>, others |-> {}],
             [i \in 1..Len(raw) |-> i])

(* The results are read in order, up to the first that is not a success with a   *)
(* duration: a failure gives the raw output, a success the results alone, those  *)
(* that come after it unread, and no other line.                                 *)
CargoView(raw) ==
    LET results == Positions(raw, "result")
        unclear == {i \in results : raw[i].failed # 0 \/ ~raw[i].timed}
        first == CHOOSE i \in unclear : \A j \in unclear : i <= j
        found == CargoFailures(raw)
        Covered(i) == \E k \in DOMAIN found.blocks : raw[found.blocks[k][1]].test = raw[i].test
        names == SelectSeq(found.listed, LAMBDA i : ~Covered(i))
        entries == found.blocks \o [k \in DOMAIN names |-> <<names[k]>>]
        shown == UNION {ToSet(b) : b \in ToSet(Prefix(entries, MaxShown))}
    IN  CASE results = {} -> Verbatim(raw)
          [] results # {} /\ entries # <<>> ->
                View(FALSE, Len(entries),
                     found.others \cup shown \cup results \cup Positions(raw, "rerun"))
          [] results # {} /\ entries = <<>> /\ unclear # {} ->
                IF raw[first].failed # 0 THEN Verbatim(raw) ELSE View(FALSE, 0, results)
          [] OTHER -> View(TRUE, 0, found.others)

-------------------------------------------------------------------------------
(* pytest: the blocks of the FAILURES section and the lines of its short summary. *)
(* A summary line of a test that has a block gives it its reason and goes.        *)

PytestStep(acc, raw, i) ==
    LET line == raw[i]
    IN  CASE line.says = "rule"   -> [acc EXCEPT !.active = line.failed > 0]
          [] line.says = "summary" -> [acc EXCEPT !.active = FALSE]
          [] line.says = "short"  -> [acc EXCEPT !.active = FALSE, !.details = Append(@, <<i>>)]
          [] line.says = "header" /\ acc.active -> [acc EXCEPT !.details = Append(@, <<i>>)]
          [] line.says \in {"telling", "row"} /\ acc.active /\ acc.details # <<>> ->
                [acc EXCEPT !.details[Len(acc.details)] = Append(@, i)]
          [] OTHER -> acc

PytestDetails(raw) ==
    FoldLeft(LAMBDA acc, i : PytestStep(acc, raw, i), [active |-> FALSE, details |-> <<>>],
             [i \in 1..Len(raw) |-> i]).details

\* Mutant: a summary line is merged into the first block, whatever test it names.
BlockOfFirst(raw, heads, k) ==
    LET blocks == {j \in DOMAIN heads : raw[heads[j]].says = "header"}
    IN  IF raw[heads[k]].says # "short" \/ blocks = {} THEN 0
        ELSE CHOOSE j \in blocks : \A other \in blocks : j <= other

\* the block a summary line is merged into, or 0: the first that bears its name
BlockOf(raw, heads, k) ==
    LET named == {j \in DOMAIN heads : raw[heads[j]].says = "header"
                                       /\ raw[heads[j]].test = raw[heads[k]].test}
    IN  IF raw[heads[k]].says # "short" \/ named = {} THEN 0
        ELSE CHOOSE j \in named : \A other \in named : j <= other

(* What an entry shows: its name, its first telling lines, and of the summary    *)
(* lines merged into it the last one.                                            *)
PytestEntry(raw, details, heads, k) ==
    LET block == IF raw[heads[k]].says = "header" THEN Tail(details[k]) ELSE <<>>
        rows == SelectSeq(block, LAMBDA i : raw[i].says = "telling")
        merged == {j \in DOMAIN heads : BlockOf(raw, heads, j) = k}
    IN  {heads[k]} \cup ToSet(Prefix(rows, MaxRows))
        \cup {heads[j] : j \in {m \in merged : \A n \in merged : n <= m}}

PytestView(raw) ==
    LET summaries == Positions(raw, "summary")
        last == CHOOSE i \in summaries : \A j \in summaries : j <= i
        details == PytestDetails(raw)
        heads == [k \in DOMAIN details |-> details[k][1]]
        entries == SelectSeq([k \in DOMAIN details |-> k], LAMBDA k : BlockOf(raw, heads, k) = 0)
        shown == UNION {PytestEntry(raw, details, heads, k) : k \in ToSet(Prefix(entries, MaxShown))}
    IN  IF summaries = {} THEN Verbatim(raw)
        ELSE View(raw[last].failed = 0, Len(entries), shown \cup Positions(raw, "expected"))

-------------------------------------------------------------------------------
(* jest and vitest, go and dotnet                                                *)

\* the lines of the console, where a bullet opens the report of a failure
JavascriptConsole(raw) ==
    LET totals == Positions(raw, "total")
        first == CHOOSE i \in totals : \A j \in totals : i <= j
        bullets == Positions(raw, "bullet")
    IN  IF totals = {} \/ raw[first].failed = 0 \/ Cardinality(bullets) # raw[first].failed
        THEN Verbatim(raw)
        ELSE View(FALSE, raw[first].failed, bullets \cup {first} \cup Positions(raw, "compared"))

(* The document of a reporter, a record per suite.  A suite that did not run has *)
(* no test, and the total of failed tests does not count it.                     *)
JavascriptJson(suites) ==
    LET failing == Positions(suites, "failed test")
    IN  View(failing = {}, Cardinality(failing), failing)

\* Mutant: a package that fails is not counted.
GoFailuresTests(events) == Cardinality(Positions(events, "test failed"))

GoFailures(events) ==
    LET tests == Positions(events, "test failed")
        packages == {events[i].package : i \in Positions(events, "package failed")}
    IN  Cardinality(tests)
        + Cardinality({p \in packages : \A i \in tests : events[i].package # p})

\* Events of which none passes or fails say nothing; a failed run shows all output.
GoView(events) ==
    LET failed == GoFailures(events)
    IN  IF \/ Positions(events, "text") # {}
           \/ failed = 0 /\ Positions(events, "test passed") = {}
        THEN Verbatim(events)
        ELSE View(failed = 0, failed,
                  IF failed = 0 THEN {}
                  ELSE Positions(events, "test failed") \cup Positions(events, "output"))

\* Only a run that is understood to the last line is summed up.
DotnetView(raw) ==
    IF Positions(raw, "text") # {} \/ Positions(raw, "passed") = {}
       \/ \E i \in Positions(raw, "passed") : raw[i].failed # 0
    THEN Verbatim(raw)
    ELSE View(TRUE, 0, {})

-------------------------------------------------------------------------------
(* What is checked *)

\* the failures of a list, read line by line: those after "failures:", up to
\* the first line that is not a name
ListedAt(raw, i) ==
    /\ raw[i].says = "listed"
    /\ \E j \in 1..(i - 1) : raw[j].says = "failures" /\ \A k \in (j + 1)..i : raw[k].says = "listed"

CargoReports(raw) == Positions(raw, "detail") \cup {i \in DOMAIN raw : ListedAt(raw, i)}

\* in a block: after its first line, with neither result nor list in between
InBlock(raw, i) ==
    \E j \in 1..i : raw[j].says = "detail" /\ \A k \in j..i : raw[k].says \notin {"result", "failures"}

(* Whatever the suites of a cargo run print between and within their reports: a  *)
(* failure that has a report, a block or a name in a list, is named or counted;  *)
(* a view that counts no failure has seen no report of one and no result that    *)
(* counts one; every result is shown but where all are added up; and a line that *)
(* is not cargo's own stays, unless a result has no duration and no failure has  *)
(* a report.  The lines "test ... FAILED" and "error: test failed" are no report:*)
(* a suite that ends without its result says nothing else, and is not noticed.   *)
CargoRunKept(raw) ==
    LET view == CargoView(raw)
        results == Positions(raw, "result")
        reports == CargoReports(raw)
        tests == {raw[i].test : i \in reports}
        named == {raw[i].test : i \in reports \cap view.kept}
        others == {i \in DOMAIN raw : raw[i].says \notin CargoGrammar /\ i \notin reports /\ ~InBlock(raw, i)}
    IN  view.verbatim \/
        /\ view.zero => reports = {} /\ \A i \in results : raw[i].failed = 0
        /\ tests = named \/ (view.failures > MaxShown /\ view.failures >= Cardinality(tests)
                             /\ Cardinality(named) >= 1)
        /\ ~view.zero => results \subseteq view.kept
        /\ \/ others \subseteq view.kept
           \/ reports = {} /\ \E i \in results : ~raw[i].timed

(* Whatever the order of sections and summary lines of a pytest run, a failure   *)
(* it sums up is shown with its reason or counted among the others, unless       *)
(* another of the same name, of another file, took its place.                    *)
PytestRunKept(raw) ==
    LET view == PytestView(raw)
        shorts == Positions(raw, "short")
        alone == {i \in shorts : \A j \in shorts : raw[j].test = raw[i].test => i = j}
    IN  view.verbatim \/
        /\ view.failures <= MaxShown => alone \subseteq view.kept
        /\ view.failures >= Cardinality({raw[i].test : i \in shorts})
        /\ view.zero <=> \E i \in Positions(raw, "summary") :
                            raw[i].failed = 0 /\ \A j \in Positions(raw, "summary") : j <= i

(* A summary of a jest, go or dotnet run counts no failure only where no test and*)
(* no package is reported as failed, and names every test that is.  A jest suite *)
(* that did not run has no test: its report counts none, and neither does this.  *)
OtherRunKept(of, raw) ==
    LET view == CASE of = "console" -> JavascriptConsole(raw)
                  [] of = "json"    -> JavascriptJson(raw)
                  [] of = "go"      -> GoView(raw)
                  [] of = "dotnet"  -> DotnetView(raw)
        failing == {i \in DOMAIN raw : raw[i].says \in {"failed test", "test failed", "bullet"}}
        worse == {i \in DOMAIN raw : raw[i].says = "package failed"
                                     \/ (raw[i].says \in {"total", "passed"} /\ raw[i].failed > 0)}
    IN  /\ view.zero => failing \cup worse = {}
        /\ ~view.verbatim => failing \subseteq view.kept
================================================================================
