------------------------------ MODULE MCExecView ------------------------------
(* Outputs of up to five lines: a failure with and without what explains it, the *)
(* same failure in a run and again, an explanation repeated where nothing failed,*)
(* a verdict, commits, two streams, one stream that is not the first, and nothing*)
(* at all.                                                                       *)
EXTENDS ExecView, TLC

MCRaws ==
    {<<>>, <<"info", "info">>, <<"fail", "why", "info">>, <<"fail", "fail", "info", "fail">>,
     <<"info", "verdict", "fail", "info">>, <<"fail", "why", "info", "why">>, <<"info", "info", "fail", "info", "info">>,
     <<"commit", "info", "commit">>, <<"info", "stderr", "fail">>, <<"stderr", "fail", "fail">>}

-------------------------------------------------------------------------------
(* The compressors of the compression stage, on arrays of six elements (at most  *)
(* two objects of an array are errors or odd), logs and search outputs of five   *)
(* lines, diffs of up to eight and texts of up to six tokens; and transcripts of *)
(* test runs of up to six lines.                                                 *)

VARIABLE call

JsonRow(type, status, extra, error, metric, message, info) ==
    [type |-> type, status |-> status, extra |-> extra, error |-> error,
     metric |-> metric, message |-> message, info |-> info]
MCRowTraits ==
       "plain" :> JsonRow("object", 1, FALSE, FALSE, 0, 1, 1)
    @@ "other" :> JsonRow("object", 1, FALSE, FALSE, 0, 2, 2)
    @@ "error" :> JsonRow("object", 1, FALSE, TRUE, 0, 3, 2)
    @@ "odd"   :> JsonRow("object", 3, TRUE, FALSE, 9, 3, 3)
    @@ "line"  :> JsonRow("string", 0, FALSE, FALSE, 0, 0, 0)
    @@ "words" :> JsonRow("string", 0, FALSE, FALSE, 0, 0, 0)
    @@ "fault" :> JsonRow("string", 0, FALSE, TRUE, 0, 0, 0)
    @@ "long"  :> JsonRow("string", 0, FALSE, FALSE, 9, 0, 0)
    @@ "one"   :> JsonRow("number", 0, FALSE, FALSE, 1, 0, 0)
    @@ "many"  :> JsonRow("number", 0, FALSE, FALSE, 9, 0, 0)
    @@ "null"  :> JsonRow("null", 0, FALSE, FALSE, 0, 0, 0)

LogLine(level, opens, ends, summary, key) ==
    [level |-> level, opens |-> opens, ends |-> ends, summary |-> summary, key |-> key]
MCLineTraits ==
       "error"  :> LogLine("error", "none", {"java"}, FALSE, 0)
    @@ "failed" :> LogLine("fail", "none", {"java", "python"}, FALSE, 0)
    @@ "warn"   :> LogLine("warn", "none", {"java", "python"}, FALSE, 1)
    @@ "file"   :> LogLine("unknown", "python", {"java"}, FALSE, 0)
    @@ "frame"  :> LogLine("unknown", "java", {}, FALSE, 0)
    @@ "total"  :> LogLine("unknown", "none", {"java"}, TRUE, 0)
    @@ "text"   :> LogLine("unknown", "none", {"java", "python"}, FALSE, 0)

Match(file, line, score) ==
    [match |-> TRUE, file |-> file, line |-> line, score |-> score, failure |-> FALSE]
MCMatchTraits ==
       "a1" :> Match(1, 1, 0) @@ "a2" :> Match(1, 2, 5) @@ "a3" :> Match(1, 3, 0)
    @@ "b1" :> Match(2, 1, 3) @@ "c1" :> Match(3, 1, 5)
    @@ "failed" :> [match |-> FALSE, file |-> 0, line |-> 0, score |-> 0, failure |-> TRUE]

Token(tag, name) == [tag |-> tag, name |-> name]
MCTagTraits ==
       "<a>"  :> Token("open", "a")   @@ "</a>" :> Token("close", "a")
    @@ "<b>"  :> Token("open", "b")   @@ "</b>" :> Token("close", "b")
    @@ "<c/>" :> Token("single", "c") @@ "<p>"  :> Token("html", "p")
    @@ "word" :> Token("none", "")

MCLimits ==
    [few |-> 4,
     log |-> 3, errors |-> 2, warnings |-> 1, traces |-> 1, stack |-> 2, around |-> 1,
     files |-> 2, perFile |-> 2, matches |-> 3,
     diff |-> 3, diffFiles |-> 1, hunks |-> 3, context |-> 1,
     failures |-> 2, rows |-> 1, inner |-> 2, kinds |-> 3,
     row |-> 3, prefix |-> 1, reference |-> 3]

Line(says, test, failed) ==
    [says |-> says, test |-> test, failed |-> failed, package |-> test, timed |-> TRUE]
Plain(kinds) == {Line(says, "", 0) : says \in kinds}
Of(kinds, tests) == {Line(says, test, 1) : says \in kinds, test \in tests}

MCCargoLines ==
    Plain({"result", "failures", "rerun", "text"}) \cup {Line("result", "", 1)}
    \cup {[Line("result", "", 0) EXCEPT !.timed = FALSE]}
    \cup Of({"detail", "listed"}, {"a", "b"}) \cup Of({"outcome"}, {"a"})
MCPytestLines ==
    Plain({"rule", "telling", "row"}) \cup {Line("rule", "", 1)}
    \cup Of({"header"}, {"a", "b"}) \cup Of({"short"}, {"a", "b", "c"})
MCCargoReports == Plain({"failures", "text"}) \cup {Line("result", "", 1)} \cup Of({"detail", "listed"}, {"a", "b"})
MCPytestReports == {Line("rule", "", 1)} \cup Plain({"telling"}) \cup Of({"header"}, {"a", "b"}) \cup Of({"short"}, {"a", "b"})
MCConsoleLines ==
    Plain({"compared", "text"}) \cup {Line("total", "", n) : n \in 0..2} \cup Of({"bullet"}, {"a"})
MCGoLines ==
    Plain({"output"}) \cup Of({"test failed", "package failed"}, {"p", "q"}) \cup Of({"test passed"}, {"p"})
MCDotnetLines == Plain({"passed", "progress", "text"}) \cup {Line("passed", "", 1)}

Diffs(start, n, kinds) == {start \o rest : rest \in [1..n -> kinds]}

Scalar(tag, text) == [tag |-> tag, text |-> text]
Object(fields) == [fields |-> fields]
A == <<1>>
B == <<2>>
C == <<3>>
AOfA == <<1, 1>>     \* the key "a.a"
One == Scalar("int", 1)
Word == Scalar("string", 1)
MCNested ==
    {Object(<<>>), Object(<<<<A, One>>>>), Object(<<<<A, One>>, <<B, Word>>>>),
     Object(<<<<B, Word>>, <<A, Scalar("null", 0)>>>>)}
Pair == [items |-> <<Object(<<<<A, One>>>>), Object(<<>>)>>]
MCValues ==
    MCNested \cup {One, Word, Scalar("string", 0), Scalar("null", 0), Scalar("string", 9), Pair,
                  [holds |-> Pair], [items |-> <<One>>], [holds |-> Object(<<<<A, One>>>>)]}
Objects(values, second) ==
    {Object(<<<<A, v>>>>) : v \in values} \cup {Object(<<<<B, w>>>>) : w \in second}
    \cup {Object(<<<<A, v>>, <<B, w>>>>) : v \in values, w \in second}
MCTables ==
    [1..2 -> Objects(MCValues, {Word, Scalar("string", 2), Scalar("null", 0)}) \cup {Object(<<<<AOfA, One>>>>)}]
    \cup [1..3 -> Objects(MCNested \cup {One, Pair, [holds |-> Object(<<<<A, One>>>>)]}, {Word})]
    \cup [1..4 -> {Object(<<<<B, Scalar("string", n)>>, <<k, One>>>>) : n \in 1..2, k \in {A, C}}
                  \cup {Object(<<<<B, Word>>>>), Object(<<<<C, Word>>>>), One}]

Texts(rows) == [rows : rows, ends : BOOLEAN]
Regular == <<"0a", "100644">>
Heads == {<<<<"diff", name>>, <<"index">> \o version, <<"---", name>> \o tab, <<"+++", name>> \o tab>> :
            name \in {"n", "t"}, version \in {Regular, <<"0a">>}, tab \in {<<>>, <<"tab">>}}
MCPatchRows == {<<>>, <<"x">>, <<"F", "n", "0a">>, <<"\\", "x">>, <<"Repeat", "1">>, <<"End", "1">>}
MCHeadRows == {<<"diff", "n">>, <<"index">> \o Regular, <<"---", "n">>, <<"+++", "n">>, <<"x">>}
MCPatches ==
    Texts(UNION {[1..n -> MCPatchRows] : n \in 1..4})
    \cup Texts([1..5 -> MCHeadRows])
    \cup Texts({<<a>> \o h \o <<b>> \o g \o <<b>> : h, g \in Heads, a \in {<<"x">>, <<"diff", "n">>},
                                                   b \in MCPatchRows \cup {<<"+++", "n">>}})
MCLineRows ==
    {<<>>, <<"a">>, <<"@">>, <<"a", "a">>, <<"a", "@">>, <<"a", "a", "=">>, <<"a", "a", "b">>}
MCMessages ==
    [role : {"tool", "user"}, cached : BOOLEAN,
     content : {[text |-> "short"], [text |-> "long"], [text |-> "other"], [same |-> 1]}]

MCInputs ==
    [objects |-> {rows \in [0..5 -> {"plain", "other", "error", "odd"}] :
                    Cardinality({i \in 0..5 : rows[i] \in {"error", "odd"}}) <= 2},
     strings |-> [0..5 -> {"line", "words", "fault", "long"}],
     keys    |-> [0..5 -> {"line", "words", "fault"}],
     numbers |-> [0..5 -> {"one", "many"}],
     mixed   |-> [0..5 -> {"plain", "error", "line", "fault", "null"}],
     log     |-> [1..5 -> DOMAIN MCLineTraits],
     search  |-> [1..5 -> DOMAIN MCMatchTraits],
     diff    |-> Diffs(<<"other", "git", "hunk">>, 5, {"git", "hunk", "add", "fix", "ctx", "nonl"})
                 \cup Diffs(<<"git">>, 4, {"git", "mode", "rename", "binary", "old", "new",
                                           "hunk", "dash", "del", "other"}),
     cargo   |-> [1..4 -> MCCargoLines] \cup [1..5 -> MCCargoReports],
     pytest  |-> {Append(run, total) : run \in [1..4 -> MCPytestLines] \cup [1..5 -> MCPytestReports],
                                       total \in {Line("summary", "", n) : n \in 0..1}},
     console |-> [1..4 -> MCConsoleLines],
     json    |-> [1..3 -> Of({"failed test", "passed test"}, {"a", "b"})],
     go      |-> [1..4 -> MCGoLines],
     dotnet  |-> [1..3 -> MCDotnetLines],
     table   |-> MCTables,
     patch   |-> MCPatches,
     lines   |-> Texts(UNION {[1..n -> MCLineRows] : n \in 1..4}
                       \cup [1..6 -> {<<"a">>, <<"a", "a", "b">>, <<"b", "b">>}]),
     words   |-> [1..5 -> {"w", "v", "~", "x"}],
     paths   |-> [1..4 -> {<<"d", "x">>, <<"d", "y">>, <<"e", "x">>, <<"x">>}],
     messages |-> [1..3 -> MCMessages],
     tags    |-> [1..5 -> DOMAIN MCTagTraits] \cup [1..6 -> {"<a>", "</a>", "<b>", "</b>"}]]

Question(named, relevant, leaning, jumps) ==
    [named |-> named, relevant |-> relevant, very |-> relevant, leaning |-> leaning, jumps |-> jumps]
MCQuestions == {Question({}, {}, "none", {}), Question({"other"}, {"plain"}, "recent", {3})}

MCGoals ==
    {[of |-> "objects", strategy |-> s, question |-> q, budget |-> b, budgeted |-> FALSE] :
        s \in {"smart_sample", "time_series", "cluster_sample", "top_n"}, q \in MCQuestions, b \in 2..3}
    \cup {[of |-> "objects", strategy |-> "skip", question |-> q, budget |-> 2, budgeted |-> f] :
            q \in MCQuestions, f \in BOOLEAN}
    \cup {[of |-> "strings", budget |-> b] : b \in 3..6}
    \cup {[of |-> "keys", small |-> s, budget |-> b] : s \in {{}, {1}, {1, 2}}, b \in 3..6}
    \cup {[of |-> "numbers", question |-> q, budget |-> b] : q \in MCQuestions, b \in 3..6}
    \cup {[of |-> "mixed", question |-> q, budget |-> 2] : q \in MCQuestions}
    \cup {[of |-> "log", budget |-> b] : b \in {2, 4}}
    \cup {[of |-> "search", budget |-> b] : b \in 2..3}
    \cup {[of |-> "diff"]}
    \cup {[of |-> "tags", inside |-> i] : i \in BOOLEAN}
    \cup {[of |-> kind] : kind \in {"table", "patch", "lines", "words", "paths", "messages", "cargo", "pytest", "console", "json", "go", "dotnet"}}

Compressors == INSTANCE Selections WITH
    RowTraits <- MCRowTraits, LineTraits <- MCLineTraits, MatchTraits <- MCMatchTraits,
    TagTraits <- MCTagTraits, LongTexts <- {9}, TabbedNames <- {"t"}, Aliased <- {"w", "v"}, Limits <- MCLimits, Goals <- MCGoals, Inputs <- MCInputs

(* What a compressor answers does not depend on who calls it: the calls are      *)
(* looked at from the compression stage of one job.                              *)
Caller ==
    CHOOSE j \in Jobs : j.path = "captured" /\ j.command = "routed" /\ j.raw = <<"info", "info">>
                        /\ ~j.rawOnFailure /\ j.store = "ok"

CallsFromHere ==
    /\ Stage = "compress" /\ job = Caller /\ filter = "routed" /\ filtered = RawBody
    /\ Compressors!CallStep
    /\ UNCHANGED vars

ViewStep == call = Compressors!NoCall /\ Next /\ UNCHANGED call

MCInit == call = Compressors!NoCall /\ Init

MCSpec == MCInit /\ [][ViewStep \/ CallsFromHere]_<<vars, call>>

(* See Selections.                                                               *)
SelectionsKeep ==
    Compressors!RowsKept /\ Compressors!TextKept /\ Compressors!TranscriptsKept /\ Compressors!ViewsReadBack
===============================================================================
