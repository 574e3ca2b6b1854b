---------------------------- MODULE SourceSelection ----------------------------
(* What the source compressor leaves of a program (source_compressor.rs): the    *)
(* skeleton of the languages with braces, that of Python, and, where neither     *)
(* applies, the text without its comments.                                       *)
(*                                                                               *)
(* A line is what it starts with, the braces, quotes and comment marks in it, how *)
(* it ends, how far it is indented, and, for a comment, what it says.  A row of  *)
(* the output is a line of the input, a closing brace that stands for one, or a  *)
(* count of lines left out.                                                      *)
EXTENDS Integers, Sequences, FiniteSets, SequencesExt

CONSTANTS
    MinLines,      \* below it there is no skeleton (6 in the code)
    MinImports,    \* a block of more imports is folded (3)
    MinMain,       \* a main block of more lines is folded (2)
    MaxBlankRun,   \* blank lines that may follow one another (1)
    Programs,      \* per language, the sets of texts handed over
    Advice         \* per language, what an advisor says: ranges of lines, perhaps of another text

VARIABLE program   \* the text being compressed

Line(i) == [line |-> i]
Closing(i) == [closing |-> i]
LeftOut(n) == [omitted |-> n]

FullLineComment(line) == line.says \in {"comment", "critical", "star", "doc", "jsdoc"}
Critical(line) == line.says = "critical"

From(i, lines) == [k \in 1..(Len(lines) - i + 1) |-> i + k - 1]
Counted(n) == IF n > 0 THEN <<LeftOut(n)>> ELSE <<>>

NoSkeleton == [failed |-> TRUE, rows |-> <<>>, bodies |-> 0, imports |-> 0]

-------------------------------------------------------------------------------
(* Languages with braces                                                         *)

\* in code, in a string, or in so many block comments
ScanToken(js, s, token) ==
    CASE s.lex = 0 ->
            CASE token = "{"     -> [s EXCEPT !.net = @ + 1]
              [] token = "}"     -> [s EXCEPT !.net = @ - 1]
              [] token = "quote" -> [s EXCEPT !.lex = -1]
              [] token = "/*"    -> [s EXCEPT !.lex = 1]
              [] OTHER           -> s
      [] s.lex = -1 -> IF token = "quote" THEN [s EXCEPT !.lex = 0] ELSE s
      [] OTHER ->
            CASE token = "/*" /\ ~js -> [s EXCEPT !.lex = @ + 1]
              [] token = "*/"        -> [s EXCEPT !.lex = @ - 1]
              [] OTHER               -> s

Scan(js, line, lex) ==
    FoldLeft(LAMBDA s, token : ScanToken(js, s, token), [lex |-> lex, net |-> 0], line.tokens)

\* the lines of the import block that begins at i
Continues(line) == line.ends = ";" \/ (line.tokens # <<>> /\ line.tokens[1] = "{")
ImportBlock(lines, i) ==
    LET Next(acc, k) ==
            IF acc.over \/ ~(lines[k].says = "import" \/ (k > i /\ Continues(lines[k])))
            THEN [acc EXCEPT !.over = TRUE]
            ELSE [size |-> acc.size + 1,
                  over |-> lines[k].ends = ";" /\ ~(k < Len(lines) /\ lines[k + 1].says = "import")]
    IN  FoldLeft(Next, [size |-> 0, over |-> FALSE], From(i, lines)).size

\* up to the line that opens the body, or ends a declaration
Signature(js, lines, i, lex) ==
    LET Next(acc, k) ==
            LET s == Scan(js, lines[k], acc.lex)
            IN  IF acc.end # 0 THEN acc
                ELSE [lex |-> s.lex, opens |-> s.net > 0,
                      end |-> IF s.net > 0 \/ lines[k].ends = ";" THEN k ELSE 0]
        all == FoldLeft(Next, [lex |-> lex, opens |-> FALSE, end |-> 0], From(i, lines))
    IN  IF all.end = 0 THEN [all EXCEPT !.end = Len(lines)] ELSE all

\* Mutant: every line of a body is read as if it began in code.
BodyAfresh(js, lines, i, lex) ==
    LET Next(acc, k) ==
            LET s == Scan(js, lines[k], 0)
                depth == IF acc.depth + s.net < 0 THEN 0 ELSE acc.depth + s.net
            IN  IF acc.end # 0 THEN acc
                ELSE [lex |-> s.lex, depth |-> depth, end |-> IF depth = 0 THEN k ELSE 0]
    IN  FoldLeft(Next, [lex |-> lex, depth |-> 1, end |-> 0], From(i, lines))

\* up to the line that closes the body; none if the text ends before
Body(js, lines, i, lex) ==
    LET Next(acc, k) ==
            LET s == Scan(js, lines[k], acc.lex)
                depth == IF acc.depth + s.net < 0 THEN 0 ELSE acc.depth + s.net
            IN  IF acc.end # 0 THEN acc
                ELSE [lex |-> s.lex, depth |-> depth, end |-> IF depth = 0 THEN k ELSE 0]
    IN  FoldLeft(Next, [lex |-> lex, depth |-> 1, end |-> 0], From(i, lines))

WithoutImports(acc, i, imports) ==
    [acc EXCEPT !.next = i + imports, !.imports = @ + imports - 2,
                !.rows = @ \o <<Line(i), Line(i + 1), LeftOut(imports - 2)>>]

Through(i, j) == [k \in 1..(j - i + 1) |-> Line(i + k - 1)]

\* A function that goes on to the end of the text is no function.
WithoutBody(acc, i, signature, body) ==
    LET size == body.end - signature.end - 1
    IN  IF body.end = 0 THEN [acc EXCEPT !.failed = TRUE]
        ELSE [acc EXCEPT !.next = body.end + 1, !.lex = body.lex, !.bodies = @ + size,
                         !.rows = @ \o Through(i, signature.end) \o Counted(size) \o <<Closing(body.end)>>]

WithSignature(js, acc, lines, i, signature) ==
    IF signature.opens
    THEN WithoutBody(acc, i, signature, Body(js, lines, signature.end + 1, signature.lex))
    ELSE [acc EXCEPT !.next = signature.end + 1, !.lex = signature.lex,
                     !.rows = @ \o Through(i, signature.end)]

Function(js, acc, lines, i) == WithSignature(js, acc, lines, i, Signature(js, lines, i, acc.lex))

\* a comment before a declaration, to the line that ends it
DocBlock(lines, i) ==
    LET ends == {k \in i..Len(lines) : lines[k].ends = "*/"}
    IN  IF ends = {} THEN Len(lines) ELSE CHOOSE k \in ends : \A j \in ends : k <= j

Dropped(line) == FullLineComment(line) /\ ~Critical(line)

Regular(js, acc, lines, i, s) ==
    LET braces == acc.braces + s.net
        dropped == Dropped(lines[i]) /\ (js => lines[i].says # "star")
    IN  [acc EXCEPT !.next = i + 1, !.lex = s.lex, !.braces = IF braces < 0 THEN 0 ELSE braces,
                    !.rows = IF dropped THEN @ ELSE Append(@, Line(i))]

IsFunction(js, acc, line) == line.says = "function" \/ (js /\ line.says = "method" /\ acc.braces > 0)

Declaration(js, acc, lines, i, imports, doc) ==
    CASE acc.braces = 0 /\ imports > MinImports -> WithoutImports(acc, i, imports)
      [] ~(acc.braces = 0 /\ imports > MinImports) /\ lines[i].says = (IF js THEN "jsdoc" ELSE "doc") ->
            [acc EXCEPT !.next = doc + 1, !.rows = @ \o Through(i, doc)]
      [] ~(acc.braces = 0 /\ imports > MinImports) /\ IsFunction(js, acc, lines[i]) ->
            Function(js, acc, lines, i)
      [] OTHER -> Regular(js, acc, lines, i, Scan(js, lines[i], acc.lex))

BraceStep(js, acc, lines, i) ==
    IF acc.failed \/ i < acc.next THEN acc
    ELSE Declaration(js, acc, lines, i,
                     IF lines[i].says = "import" THEN ImportBlock(lines, i) ELSE 0,
                     IF js THEN DocBlock(lines, i) ELSE i)

Closed(all) == IF all.failed \/ all.braces # 0 \/ all.lex # 0 THEN NoSkeleton ELSE all

CompressBraces(js, lines) ==
    Closed(FoldLeft(LAMBDA acc, i : BraceStep(js, acc, lines, i),
                        [failed |-> FALSE, next |-> 1, lex |-> 0, braces |-> 0, rows |-> <<>>,
                         bodies |-> 0, imports |-> 0], From(1, lines)))

-------------------------------------------------------------------------------
(* Python                                                                        *)

PythonImports(lines, i) ==
    LET ends == {k \in i..Len(lines) :
                    lines[k].says # "import" /\ lines[k].ends \notin {")", ","}}
    IN  (IF ends = {} THEN Len(lines) + 1 ELSE CHOOSE k \in ends : \A j \in ends : k <= j) - i

\* the last line of the docstring that begins at i
Docstring(lines, i) ==
    LET ends == {k \in (i + 1)..Len(lines) : lines[k].ends = "quotes" \/ lines[k].says = "quotes"}
    IN  IF lines[i].ends = "quotes" THEN i
        ELSE IF ends = {} THEN Len(lines) ELSE CHOOSE k \in ends : \A j \in ends : k <= j

\* Mutant: a body goes on with lines of the indentation it began with.
IndentedOrLevel(lines, i, indent) ==
    LET ends == {k \in i..Len(lines) : lines[k].says # "blank" /\ lines[k].indent < indent}
        end == IF ends = {} THEN Len(lines) + 1 ELSE CHOOSE k \in ends : \A j \in ends : k <= j
    IN  [end |-> end, size |-> Cardinality({k \in i..(end - 1) : lines[k].says # "blank"})]

\* the lines from i on that are blank or indented further
Indented(lines, i, indent) ==
    LET ends == {k \in i..Len(lines) : lines[k].says # "blank" /\ lines[k].indent <= indent}
        end == IF ends = {} THEN Len(lines) + 1 ELSE CHOOSE k \in ends : \A j \in ends : k <= j
    IN  [end |-> end, size |-> Cardinality({k \in i..(end - 1) : lines[k].says # "blank"})]

Left(acc, lines, i, kept, body) ==
    [acc EXCEPT !.next = body.end, !.bodies = @ + body.size,
                !.rows = @ \o Through(i, kept) \o Counted(body.size)]

Told(acc, lines, i, kept) == Left(acc, lines, i, kept, Indented(lines, kept + 1, lines[i].indent))

Definition(acc, lines, i) ==
    LET colons == {k \in i..Len(lines) : lines[k].ends = ":"}
        signature == IF colons = {} THEN Len(lines) ELSE CHOOSE k \in colons : \A j \in colons : k <= j
        told == signature < Len(lines) /\ lines[signature + 1].says = "quotes"
    IN  Told(acc, lines, i, IF told THEN Docstring(lines, signature + 1) ELSE signature)

Main(acc, lines, i, block) ==
    IF block.size > MinMain THEN Left(acc, lines, i, i, block)
    ELSE [acc EXCEPT !.next = i + 1, !.rows = @ \o <<Line(i), Line(i)>>]

Statement(acc, lines, i, imports) ==
    CASE imports > MinImports -> WithoutImports(acc, i, imports)
      [] lines[i].says = "quotes" ->
            [acc EXCEPT !.next = Docstring(lines, i) + 1, !.rows = @ \o Through(i, Docstring(lines, i))]
      [] lines[i].says = "function" -> Definition(acc, lines, i)
      [] lines[i].says = "main" -> Main(acc, lines, i, Indented(lines, i + 1, lines[i].indent))
      [] OTHER -> [acc EXCEPT !.next = i + 1, !.rows = Append(@, Line(i))]

PythonStep(acc, lines, i) ==
    IF i < acc.next THEN acc
    ELSE Statement(acc, lines, i, IF lines[i].says = "import" THEN PythonImports(lines, i) ELSE 0)

CompressPython(lines) ==
    FoldLeft(LAMBDA acc, i : PythonStep(acc, lines, i),
             [failed |-> FALSE, next |-> 1, rows |-> <<>>, bodies |-> 0, imports |-> 0], From(1, lines))

-------------------------------------------------------------------------------
(* The text without its comments, except for the lines an advisor protects       *)

\* Mutant: the lines are those of the text the advisor read.
ProtectedThen(lines, advice) == UNION {r[1]..r[2] : r \in advice.ranges}

\* An advisor that did not read this very text is not heard.
Protected(lines, advice) ==
    IF advice.read = lines THEN UNION {r[1]..r[2] : r \in advice.ranges} ELSE {}

ConservativeStep(acc, lines, i, protected) ==
    LET blank == lines[i].says = "blank"
        kept == [blanks |-> IF blank THEN acc.blanks + 1 ELSE 0, rows |-> Append(acc.rows, Line(i))]
    IN  CASE i \in protected -> [kept EXCEPT !.blanks = 0]
          [] i \notin protected /\ FullLineComment(lines[i]) /\ ~Critical(lines[i]) -> acc
          [] i \notin protected /\ blank /\ acc.blanks >= MaxBlankRun -> [acc EXCEPT !.blanks = @ + 1]
          [] OTHER -> kept

Conservative(lines, protected) ==
    FoldLeft(LAMBDA acc, i : ConservativeStep(acc, lines, i, protected), [blanks |-> 0, rows |-> <<>>],
             From(1, lines)).rows

CompressWithAdvice(lines, advice) == Conservative(lines, Protected(lines, advice))

-------------------------------------------------------------------------------
(* The whole                                                                     *)

Shown(lines, rows, text) ==
    Cardinality({n \in DOMAIN rows : "line" \in DOMAIN rows[n] /\ Critical(lines[rows[n].line])
                                      /\ lines[rows[n].line].text = text})

\* Mutant: a comment that is shown anywhere is not looked for again.
MissingCommentsOnce(lines, rows) ==
    SelectSeq(From(1, lines), LAMBDA i : Critical(lines[i]) /\ Shown(lines, rows, lines[i].text) = 0)

\* the comments that tell of an error, as often as the skeleton lacks them
MissingComments(lines, rows) ==
    SelectSeq(From(1, lines), LAMBDA i :
        /\ Critical(lines[i])
        /\ LET Same(n) == {k \in 1..n : Critical(lines[k]) /\ lines[k].text = lines[i].text}
           IN  Cardinality(Same(i)) <= Cardinality(Same(Len(lines))) - Shown(lines, rows, lines[i].text))

Skeleton(language, lines) ==
    CASE language = "rust"   -> CompressBraces(FALSE, lines)
      [] language = "js"     -> CompressBraces(TRUE, lines)
      [] language = "python" -> CompressPython(lines)
      [] OTHER               -> NoSkeleton

\* The comments come last; a text that grew with them is compressed the plain way.
Restored(lines, skeleton, missing, longer) ==
    IF skeleton.failed \/ skeleton.bodies + skeleton.imports = 0 \/ (missing # <<>> /\ longer)
    THEN Conservative(lines, {})
    ELSE skeleton.rows \o [k \in DOMAIN missing |-> Line(missing[k])]

CompressSource(lines, skeleton, longer) ==
    IF Len(lines) < MinLines THEN Conservative(lines, {})
    ELSE Restored(lines, skeleton, MissingComments(lines, skeleton.rows), longer)

-------------------------------------------------------------------------------
(* Calls: a caller says the language, hands over a text and gets the answer      *)

NoProgram == <<>>

Calls ==
    /\ program = NoProgram
    /\ \E language \in DOMAIN Programs : \E n \in DOMAIN Programs[language] :
           program' = [language |-> language, set |-> n]

Receives ==
    /\ program # NoProgram /\ "set" \in DOMAIN program
    /\ \E lines \in Programs[program.language][program.set] :
           \E advice \in Advice[program.language] :
               program' = [language |-> program.language, lines |-> lines,
                           advice |-> [read |-> IF advice.stale THEN Tail(lines) ELSE lines,
                                       ranges |-> advice.ranges]]

Answers ==
    /\ program # NoProgram /\ "lines" \in DOMAIN program
    /\ program' = NoProgram

SourceStep == Calls \/ Receives \/ Answers

-------------------------------------------------------------------------------
(* What is checked                                                               *)

\* An own reading of the braces: the depth and the state before every line.
Readings(js, lines) ==
    FoldLeft(LAMBDA acc, line :
                 Append(acc, FoldLeft(LAMBDA s, token : ScanToken(js, s, token), Last(acc), line.tokens)),
             <<[lex |-> 0, net |-> 0]>>, lines)

\* the lines between the braces of the function that begins at i
BodyLines(readings, lines, i) ==
    LET opens == {k \in i..Len(lines) : readings[k + 1].net > readings[i].net}
        open == CHOOSE k \in opens : \A j \in opens : k <= j
        closes == {k \in (open + 1)..Len(lines) : readings[k + 1].net <= readings[i].net}
    IN  IF opens = {} \/ \E k \in i..Len(lines) : lines[k].ends = ";" /\ \A j \in opens : k < j THEN {}
        ELSE {k \in (open + 1)..Len(lines) : \A j \in closes : k < j}

\* A function whose braces are closed on the line that opens them, or whose
\* words stand in a string, is not told from one that goes on.
OnOneLine(readings, lines, i) ==
    LET braces == {k \in i..Len(lines) : {"{", "}"} \cap ToSet(lines[k].tokens) # {}}
        first == CHOOSE k \in braces : \A j \in braces : k <= j
    IN  \/ readings[i].lex # 0
        \/ /\ braces # {} /\ readings[first + 1].net <= readings[first].net
           /\ ~\E k \in i..(first - 1) : lines[k].ends = ";"

Functions(js, readings, lines) ==
    {i \in DOMAIN lines : lines[i].says = "function" \/ (js /\ lines[i].says = "method" /\ readings[i].net > 0)}

LinesOf(rows) == {n \in DOMAIN rows : "omitted" \notin DOMAIN rows[n]}
LineOf(row) == IF "line" \in DOMAIN row THEN row.line ELSE row.closing

Unannounced(line) == line.says = "blank" \/ Dropped(line)

(* The rows of a skeleton are in the order of the lines, a count stands for that *)
(* many of them, and besides only comments and blank lines go unannounced.       *)
Accounted(lines, rows) ==
    \A n \in LinesOf(rows) :
        LET i == LineOf(rows[n])
            counted == n < Len(rows) /\ "omitted" \in DOMAIN rows[n + 1]
            last == n + 1 > Len(rows) \/ (counted /\ n + 2 > Len(rows))
            next == IF last THEN Len(lines) + 1 ELSE LineOf(rows[IF counted THEN n + 2 ELSE n + 1])
            gone == (i + 1)..(next - 1)
        IN  /\ i < next \/ (i = next /\ lines[i].says = "main")
            /\ IF counted
               THEN Cardinality({k \in gone : lines[k].says # "blank"}) >= rows[n + 1].omitted
                    /\ rows[n + 1].omitted + Cardinality({k \in gone : Unannounced(lines[k])}) >= Cardinality(gone)
               ELSE \A k \in gone : Unannounced(lines[k])

\* Between the quotes of a docstring.
Quoted(lines, i) ==
    Cardinality({k \in 1..(i - 1) : lines[k].says = "quotes" /\ lines[k].ends # "quotes"}) % 2 = 1

\* In Python, what is indented further than the line it belongs to.
PythonBody(lines, f) ==
    LET ends == {k \in (f + 1)..Len(lines) :
                    lines[k].says # "blank" /\ ~Quoted(lines, k) /\ lines[k].indent <= lines[f].indent}
    IN  IF lines[f].says \notin {"function", "main"} THEN {}
        ELSE {k \in (f + 1)..Len(lines) : \A j \in ends : k < j}

(* Outside of the bodies of functions, nothing but comments, imports and blank   *)
(* lines goes.                                                                   *)
OnlyBraceBodiesGo(js, lines, rows) ==
    LET readings == Readings(js, lines)
        functions == Functions(js, readings, lines)
        bodies == UNION {BodyLines(readings, lines, f) : f \in functions}
        left == {LineOf(rows[n]) : n \in LinesOf(rows)}
    IN  (\A f \in functions : ~OnOneLine(readings, lines, f)) =>
            \A i \in DOMAIN lines \ (left \cup bodies) :
                Unannounced(lines[i]) \/ lines[i].says = "import" \/ Continues(lines[i])

OnlyPythonBodiesGo(lines, rows) ==
    LET bodies == UNION {PythonBody(lines, f) : f \in DOMAIN lines}
        left == {LineOf(rows[n]) : n \in LinesOf(rows)}
    IN  (\A f \in DOMAIN lines : lines[f].says = "function" => lines[f].ends = ":") =>
            \A i \in DOMAIN lines \ (left \cup bodies) :
                Unannounced(lines[i]) \/ lines[i].says = "import" \/ lines[i].ends \in {")", ","}

OnlyBodiesGo(language, lines, rows) ==
    IF language = "python" THEN OnlyPythonBodiesGo(lines, rows)
    ELSE OnlyBraceBodiesGo(language = "js", lines, rows)

(* A comment that tells of an error is shown as often as it was written.         *)
CriticalKept(lines, skeleton) ==
    \A i \in DOMAIN lines, longer \in BOOLEAN : Critical(lines[i]) =>
        Shown(lines, CompressSource(lines, skeleton, longer), lines[i].text)
            = Cardinality({k \in DOMAIN lines : Critical(lines[k]) /\ lines[k].text = lines[i].text})

(* "Advice only ever protects" (source_compressor.rs 314): where it is about this *)
(* very text its lines stay, and otherwise it changes nothing.                   *)
AdviceHeard(lines, advice) ==
    LET rows == ToSet(CompressWithAdvice(lines, advice))
        plain == ToSet(Conservative(lines, {}))
        meant == IF advice.read = lines THEN UNION {r[1]..r[2] : r \in advice.ranges} ELSE {}
    IN  \A i \in DOMAIN lines :
            /\ i \in meant => Line(i) \in rows
            /\ meant = {} => (Line(i) \in rows <=> Line(i) \in plain)

SkeletonKept(language, lines, skeleton) ==
    /\ ~skeleton.failed => Accounted(lines, skeleton.rows) /\ OnlyBodiesGo(language, lines, skeleton.rows)
    /\ CriticalKept(lines, skeleton)

(* Wherever a quote, a comment, a bracket or a blank line stands, a skeleton      *)
(* "preserves signatures, public exports, type structures, entry points"         *)
(* (source_compressor.rs 3): only what stands inside the body of a function is   *)
(* left out, with its count.  Whatever tells of an error is shown as often as it *)
(* was written, and advice given for another version of the text is not heard.   *)
SourceKept ==
    program # NoProgram /\ "lines" \in DOMAIN program =>
        /\ SkeletonKept(program.language, program.lines, Skeleton(program.language, program.lines))
        /\ AdviceHeard(program.lines, program.advice)
================================================================================
