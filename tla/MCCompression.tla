---------------------------- MODULE MCCompression ----------------------------
(* Compression: the default pipeline, and one built by hand with two reformats *)
(* of one type.  LiveZone: conversations of three turns.  SourceSelection:     *)
(* programs of up to six lines.  A process does one of them at a time: it      *)
(* compresses a text, rewrites the requests of a proxy, or shortens a program. *)
EXTENDS CompressionParts, TLC

MCTypes == {"json", "build", "diff", "text", "source", "custom"}
MCReformats == [t \in MCTypes |->
    IF t = "custom" THEN <<"log_template", "json_minifier">> ELSE DefaultReformats[t]]
MCOffloads == [t \in MCTypes |-> IF t = "custom" THEN <<>> ELSE DefaultOffloads[t]]

-----------------------------------------------------------------------------
(* Programs: functions that open, close and nest in all ways, classes with     *)
(* their comments, imports, Python with its indentation, scripts, plain text.  *)

VARIABLE program

SourceLine(says, tokens, ends) == [says |-> says, tokens |-> tokens, ends |-> ends, indent |-> 0, text |-> says]
Indent(says, n, ends) == [SourceLine(says, <<>>, ends) EXCEPT !.indent = n]
CriticalLine(n) == [says |-> "critical", tokens |-> <<>>, ends |-> "", indent |-> n, text |-> n]

MCFunctionLines ==
    {SourceLine("function", t, "") : t \in {<<>>, <<"{">>, <<"{", "}">>, <<"{", "{">>, <<"{", "quote">>}}
    \cup {SourceLine("text", t, "") : t \in {<<>>, <<"{">>, <<"}">>, <<"quote">>, <<"quote", "}">>}}
    \cup {SourceLine("function", <<>>, ";"), SourceLine("comment", <<>>, ""), CriticalLine(0)}
MCClassLines ==
    {SourceLine("function", <<"{">>, ""), SourceLine("method", <<"{">>, ""), CriticalLine(0),
     SourceLine("jsdoc", <<"/*">>, ""), SourceLine("star", <<"*/">>, "*/")}
    \cup {SourceLine("text", t, "") : t \in {<<>>, <<"{">>, <<"}">>}}
MCImportLines ==
    {SourceLine("import", <<>>, ";"), SourceLine("import", <<"{">>, ""), SourceLine("text", <<"}">>, ";"),
     SourceLine("text", <<"{">>, ""), SourceLine("text", <<>>, ""), SourceLine("comment", <<>>, "")}
MCPythonLines ==
    {Indent("function", 0, ":"), Indent("function", 1, ":"), Indent("function", 0, ""), Indent("blank", 0, ""),
     Indent("quotes", 2, ""), CriticalLine(0), CriticalLine(1)}
    \cup {Indent("text", n, "") : n \in 0..2}
MCScriptLines ==
    {Indent("import", 0, ""), Indent("text", 1, ","), Indent("main", 0, ":"), Indent("text", 0, ""),
     Indent("text", 1, ""), Indent("blank", 0, "")}
MCPlainLines == {SourceLine(says, <<>>, "") : says \in {"comment", "blank", "text"}} \cup {CriticalLine(0)}

Braces ==
    <<[1..3 -> MCFunctionLines], [1..4 -> MCFunctionLines], [1..5 -> MCClassLines], [1..5 -> MCImportLines]>>
MCPrograms ==
    [rust |-> Braces, js |-> Braces, none |-> <<[1..4 -> MCPlainLines]>>,
     python |-> <<[1..4 -> MCPythonLines], [1..6 -> MCScriptLines]>>]
MCAdvice ==
    [language \in DOMAIN MCPrograms |->
        IF language = "none" THEN [stale : BOOLEAN, ranges : SUBSET {<<1, 2>>, <<3, 4>>}]
        ELSE {[stale |-> FALSE, ranges |-> {}]}]

Source == INSTANCE SourceSelection WITH
    MinLines <- 3, MinImports <- 3, MinMain <- 2, MaxBlankRun <- 1,
    Programs <- MCPrograms, Advice <- MCAdvice

-----------------------------------------------------------------------------
Symmetric == Permutations(Questions)

(* Each of them starts from one of its initial states while the others wait.   *)
OneText ==
    /\ pc = "start" /\ type = "text" /\ caller = "library" /\ Range(scores) \subseteq {"none"}
    /\ buf = <<[size |-> 1, shown |-> {}, told |-> Facts, marks |-> {}]>>
OneConversation == Live!Untouched /\ route = "invoke"
NoProgram       == program = Source!NoProgram

MCInit == Live!Init /\ Init /\ (OneText \/ OneConversation) /\ NoProgram

CompressionStep == OneConversation /\ NoProgram /\ Next /\ UNCHANGED <<conversation, program>>
LiveZoneStep    == OneText /\ NoProgram /\ Live!Next /\ UNCHANGED <<vars, program>>
SourceStep      == OneText /\ OneConversation /\ Source!SourceStep /\ UNCHANGED <<vars, conversation>>

MCSpec == MCInit /\ [][CompressionStep \/ LiveZoneStep \/ SourceStep]_<<vars, conversation, program>>

(* See SourceSelection: only bodies go, and what tells of an error stays       *)
(* (source_compressor.rs).                                                     *)
SourceKept == Source!SourceKept
=============================================================================
