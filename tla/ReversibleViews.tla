---------------------------- MODULE ReversibleViews ----------------------------
(* The views that have an inverse: patches (patch_view.rs), lines with shared    *)
(* prefixes and texts with a dictionary, which archives still hold               *)
(* (lossless_filters.rs), paths and matches under their directory                *)
(* (reversible_views.rs), and messages that repeat (conversation_views.rs).      *)
(*                                                                               *)
(* A row is a sequence of the characters or words that tell it from the records  *)
(* of a codec; a text is its rows and whether it ends with a newline.  A view is *)
(* a sequence of rows too, which its reader tells apart by how they begin.       *)
EXTENDS Integers, Sequences, FiniteSets, SequencesExt, TLC

CONSTANTS
    ShortRows,    \* the rows that cost less again than the record of their repetition
    TabbedNames,  \* the file names that hold a tab
    LongRow,      \* length from which a row is worth a reference (40, and 24 in version 3)
    MinPrefix,    \* length of a prefix worth sharing (8, and 4 in version 3)
    RefSize,      \* bytes of a reference to a block
    Aliased       \* the words of a text that its dictionary holds

Number(word) == CHOOSE n \in 0..99 : ToString(n) = word
IsNumber(word) == \E n \in 0..99 : ToString(n) = word

Row(rows) == [ok |-> TRUE, rows |-> rows]
Bad == [ok |-> FALSE, rows |-> <<>>]

\* as many rows from i on as are the same
Run(rows, i) ==
    CHOOSE n \in 1..(Len(rows) - i + 1) :
        /\ \A k \in 0..(n - 1) : rows[i + k] = rows[i]
        /\ i + n > Len(rows) \/ rows[i + n] # rows[i]

Copies(row, n) == [k \in 1..n |-> row]

-------------------------------------------------------------------------------
(* Patches: a header of four rows is one record, equal rows are counted, and a   *)
(* row that looks like a record is escaped.                                      *)

PatchRecords == {"F", "FT", "File", "FileT", "Repeat", "End"}

\* Mutant: the records that were added with version 2 are not escaped.
LiteralVersion1(row) ==
    IF row # <<>> /\ row[1] \in {"\\", "File", "FileT", "Repeat", "End"} THEN <<"\\">> \o row ELSE row

PatchLiteral(row) ==
    IF row # <<>> /\ row[1] \in PatchRecords \cup {"\\"} THEN <<"\\">> \o row ELSE row

Header(name, version, tab) ==
    <<<<"diff", name>>, <<"index">> \o version, <<"---", name>> \o tab, <<"+++", name>> \o tab>>

\* the record of the header that begins at row i, or none
PatchHeader(rows, i) ==
    LET name == rows[i + 2][2]
        version == Tail(rows[i + 1])
        tab == IF Len(rows[i + 2]) = 3 THEN <<"tab">> ELSE <<>>
    IN  IF \/ Len(rows) < i + 3 \/ Len(rows[i + 2]) < 2 \/ rows[i + 1] = <<>>
           \/ SubSeq(rows, i, i + 3) # Header(name, version, tab)
        THEN <<>>
        ELSE IF name \notin TabbedNames /\ Len(version) = 2 /\ version[2] = "100644"
             THEN <<IF tab = <<>> THEN "F" ELSE "FT", name, version[1]>>
             ELSE <<IF tab = <<>> THEN "File" ELSE "FileT", name>> \o version

PatchStep(acc, rows, i) ==
    LET record == PatchHeader(rows, i)
        n == Run(rows, i)
        plain == PatchLiteral(rows[i])
    IN  CASE i < acc.next -> acc
          [] i >= acc.next /\ record # <<>> -> [next |-> i + 4, view |-> Append(acc.view, record)]
          [] OTHER ->
                [next |-> i + n,
                 view |-> acc.view \o (IF n > 1 /\ rows[i] \notin ShortRows
                                       THEN <<plain, <<"Repeat", ToString(n - 1)>>>>
                                       ELSE Copies(plain, n))]

RenderPatch(text) ==
    Append(FoldLeft(LAMBDA acc, i : PatchStep(acc, text.rows, i), [next |-> 1, view |-> <<>>],
                    [i \in DOMAIN text.rows |-> i]).view,
           <<"End", IF text.ends THEN "1" ELSE "0">>)

\* the rows a record of a patch stands for, after those read so far
PatchRows(row, before) ==
    LET first == IF row = <<>> THEN "" ELSE row[1]
        tab == IF first \in {"FT", "FileT"} THEN <<"tab">> ELSE <<>>
    IN  CASE first = "\\" -> Row(<<Tail(row)>>)
          [] first \in {"F", "FT"} ->
                IF Len(row) = 3 THEN Row(Header(row[2], <<row[3], "100644">>, tab)) ELSE Bad
          [] first \in {"File", "FileT"} ->
                IF Len(row) >= 3 THEN Row(Header(row[2], SubSeq(row, 3, Len(row)), tab)) ELSE Bad
          [] first = "Repeat" ->
                IF Len(row) = 2 /\ IsNumber(row[2]) /\ before # <<>>
                THEN Row(Copies(Last(before), Number(row[2]))) ELSE Bad
          [] OTHER -> Row(<<row>>)

Hint == <<"[tee:", "0a]">>

ExpandPatch(view) ==
    LET ends == {i \in DOMAIN view : view[i] \in {<<"End", "0">>, <<"End", "1">>}}
        end == CHOOSE i \in ends : \A j \in ends : i <= j
        Next(acc, row) ==
            LET read == PatchRows(row, acc.rows)
            IN  [ok |-> acc.ok /\ read.ok, rows |-> acc.rows \o read.rows]
        all == FoldLeft(Next, Row(<<>>), SubSeq(view, 1, end - 1))
    IN  IF ends = {} \/ ~all.ok \/ \E i \in (end + 1)..Len(view) : view[i] \notin {<<>>, Hint} THEN Bad
        ELSE [ok |-> TRUE, rows |-> all.rows, ends |-> view[end][2] = "1"]

-------------------------------------------------------------------------------
(* Lines: a prefix the next rows share is given once, an earlier row or block by *)
(* its number.                                                                   *)

LineRecords == {"@", "&", "=", "!", "\\"}
LineLiteral(row) == IF row # <<>> /\ row[1] \in LineRecords THEN <<"\\">> \o row ELSE row

From(s, n) == SubSeq(s, n + 1, Len(s))
Bytes(rows) == FoldLeft(LAMBDA sum, row : sum + Len(row) + 1, 0, rows)

\* the longest prefix that rows i to j share
Common(rows, i, j) ==
    LET Shared(n) == \A k \in i..j : Len(rows[k]) >= n /\ SubSeq(rows[k], 1, n) = SubSeq(rows[i], 1, n)
    IN  SubSeq(rows[i], 1, CHOOSE n \in 0..Len(rows[i]) : Shared(n) /\ ~(n < Len(rows[i]) /\ Shared(n + 1)))

Earlier(rows, i) == {j \in 1..(i - 1) : rows[j] = rows[i]}
FirstOf(indices) == CHOOSE j \in indices : \A k \in indices : j <= k

\* version 2: the rows from i on that begin with what i and i + 1 share, if that pays
Group2(rows, i) ==
    LET prefix == IF i < Len(rows) THEN Common(rows, i, i + 1) ELSE <<>>
        ends == {e \in i..Len(rows) : \A k \in i..e : IsPrefix(prefix, rows[k])}
        end == CHOOSE e \in ends : \A f \in ends : f <= e
    IN  IF Len(prefix) >= MinPrefix /\ Len(prefix) * (end - i) > Len(prefix)
        THEN [prefix |-> prefix, end |-> end] ELSE [prefix |-> <<>>, end |-> i]

Declared(prefix, current) == IF prefix = current THEN <<>> ELSE <<<<"@", "json">> \o prefix>>

\* Mutant: a row that is repeated is written whole under the prefix in force.
FactorStepKeepPrefix(acc, rows, i) ==
    LET n == Run(rows, i)
        group == Group2(rows, i)
    IN  CASE i < acc.next -> acc
          [] i >= acc.next /\ Len(rows[i]) >= LongRow /\ Earlier(rows, i) # {} ->
                [acc EXCEPT !.next = i + 1,
                            !.view = Append(@, <<"&", ToString(FirstOf(Earlier(rows, i)))>>)]
          [] i >= acc.next /\ ~(Len(rows[i]) >= LongRow /\ Earlier(rows, i) # {}) /\ n > 1 ->
                [acc EXCEPT !.next = i + n,
                            !.view = @ \o <<LineLiteral(rows[i]), <<"=", ToString(n - 1)>>>>]
          [] OTHER ->
                [prefix |-> group.prefix, next |-> group.end + 1,
                 view |-> acc.view \o Declared(group.prefix, acc.prefix)
                          \o [k \in 1..(group.end - i + 1) |->
                                LineLiteral(From(rows[i + k - 1], Len(group.prefix)))]]

FactorStep(acc, rows, i) ==
    LET n == Run(rows, i)
        group == Group2(rows, i)
    IN  CASE i < acc.next -> acc
          [] i >= acc.next /\ Len(rows[i]) >= LongRow /\ Earlier(rows, i) # {} ->
                [acc EXCEPT !.next = i + 1,
                            !.view = Append(@, <<"&", ToString(FirstOf(Earlier(rows, i)))>>)]
          [] i >= acc.next /\ ~(Len(rows[i]) >= LongRow /\ Earlier(rows, i) # {}) /\ n > 1 ->
                [prefix |-> <<>>, next |-> i + n,
                 view |-> acc.view \o Declared(<<>>, acc.prefix)
                          \o <<LineLiteral(rows[i]), <<"=", ToString(n - 1)>>>>]
          [] OTHER ->
                [prefix |-> group.prefix, next |-> group.end + 1,
                 view |-> acc.view \o Declared(group.prefix, acc.prefix)
                          \o [k \in 1..(group.end - i + 1) |->
                                LineLiteral(From(rows[i + k - 1], Len(group.prefix)))]]

EndRecord(text) == <<"!", IF text.ends THEN "1" ELSE "0">>

FactorLines(text) ==
    Append(FoldLeft(LAMBDA acc, i : FactorStep(acc, text.rows, i),
                    [prefix |-> <<>>, next |-> 1, view |-> <<>>], [i \in DOMAIN text.rows |-> i]).view,
           EndRecord(text))

\* version 3: how many rows from i on repeat those that follow its first occurrence
BlockLength(rows, i) ==
    LET start == FirstOf(Earlier(rows, i))
        lengths == {n \in 1..(Len(rows) - i + 1) :
                        start + n <= i /\ \A k \in 0..(n - 1) : rows[start + k] = rows[i + k]}
    IN  CHOOSE n \in lengths : \A m \in lengths : m <= n

BlockPays(rows, i) ==
    /\ Earlier(rows, i) # {}
    /\ LET n == BlockLength(rows, i)
       IN  (n >= 2 \/ Len(rows[i]) >= LongRow) /\ Bytes(SubSeq(rows, i, i + n - 1)) > RefSize

\* the prefix that saves most from row i on, and the last row it holds for
Group3(rows, i) ==
    LET Better(best, end) ==
            LET common == Common(rows, i, end)
            IN  IF Len(common) >= MinPrefix /\ Len(common) * (end - i) > best.score
                THEN [prefix |-> common, end |-> end, score |-> Len(common) * (end - i)] ELSE best
    IN  FoldLeft(Better, [prefix |-> <<>>, end |-> i, score |-> 0],
                 [k \in 1..(Len(rows) - i) |-> i + k])

Position(dictionary, prefix) == CHOOSE n \in DOMAIN dictionary : dictionary[n] = prefix

\* the record that makes a prefix current: its number, an extension, or itself
PrefixRecord(dictionary, prefix) ==
    LET parents == {n \in 0..(Len(prefix) - 1) : SubSeq(prefix, 1, n) \in ToSet(dictionary)}
        longest == CHOOSE n \in parents : \A m \in parents : m <= n
    IN  CASE prefix \in ToSet(dictionary) -> <<"@", "ref", ToString(Position(dictionary, prefix))>>
          [] prefix \notin ToSet(dictionary) /\ parents # {} /\ longest >= MinPrefix ->
                <<"@", "ext", ToString(Position(dictionary, SubSeq(prefix, 1, longest)))>> \o From(prefix, longest)
          [] OTHER -> <<"@", "json">> \o prefix

BlockStep(acc, rows, i) ==
    LET n == BlockLength(rows, i)
        start == ToString(FirstOf(Earlier(rows, i)))
        regroup == i > acc.end \/ ~IsPrefix(acc.prefix, rows[i])
        group == IF regroup THEN Group3(rows, i) ELSE [prefix |-> acc.prefix, end |-> acc.end]
        changes == group.prefix # acc.prefix
    IN  CASE i < acc.next -> acc
          [] i >= acc.next /\ BlockPays(rows, i) ->
                [acc EXCEPT !.next = i + n,
                            !.view = Append(@, IF n = 1 THEN <<"&", start>> ELSE <<"&", start, ToString(n)>>)]
          [] OTHER ->
                [prefix |-> group.prefix, end |-> group.end, next |-> i + 1,
                 dictionary |-> IF changes /\ group.prefix \notin ToSet(acc.dictionary)
                                THEN Append(acc.dictionary, group.prefix) ELSE acc.dictionary,
                 view |-> acc.view \o (IF changes THEN <<PrefixRecord(acc.dictionary, group.prefix)>> ELSE <<>>)
                          \o <<LineLiteral(From(rows[i], Len(group.prefix)))>>]

FactorBlocks(text) ==
    Append(FoldLeft(LAMBDA acc, i : BlockStep(acc, text.rows, i),
                    [prefix |-> <<>>, end |-> 0, next |-> 1, dictionary |-> <<>>, view |-> <<>>],
                    [i \in DOMAIN text.rows |-> i]).view,
           EndRecord(text))

\* The reader of both versions.
ExpandPrefix(acc, record) ==
    LET kind == IF Len(record) < 2 THEN "" ELSE record[2]
        n == Number(record[3])
        known == Len(record) >= 3 /\ IsNumber(record[3]) /\ n \in DOMAIN acc.prefixes
        Set(prefix) == [acc EXCEPT !.prefix = prefix, !.prefixes = Append(@, prefix)]
    IN  CASE kind = "json" -> Set(From(record, 2))
          [] kind = "ext" /\ known -> Set(acc.prefixes[n] \o From(record, 3))
          [] kind = "ref" /\ known -> [acc EXCEPT !.prefix = acc.prefixes[n]]
          [] OTHER -> [acc EXCEPT !.ok = FALSE]

ExpandStep(acc, record) ==
    LET first == IF record = <<>> THEN "" ELSE record[1]
        numbers == [k \in 1..(Len(record) - 1) |-> Number(record[k + 1])]
        numeric == Len(record) > 1 /\ \A k \in 2..Len(record) : IsNumber(record[k])
        block == IF Len(record) = 3 THEN numbers[2] ELSE 1
    IN  CASE first = "@" -> ExpandPrefix(acc, record)
          [] first = "&" /\ numeric /\ numbers[1] + block - 1 <= Len(acc.rows) ->
                [acc EXCEPT !.rows = @ \o SubSeq(@, numbers[1], numbers[1] + block - 1)]
          [] first = "=" /\ numeric /\ acc.rows # <<>> ->
                [acc EXCEPT !.rows = @ \o Copies(Last(@), numbers[1])]
          [] first \notin {"@", "&", "="} ->
                [acc EXCEPT !.rows = Append(@, acc.prefix \o (IF first = "\\" THEN Tail(record) ELSE record))]
          [] OTHER -> [acc EXCEPT !.ok = FALSE]

ExpandLines(view) ==
    LET all == FoldLeft(ExpandStep, [ok |-> TRUE, prefix |-> <<>>, prefixes |-> <<>>, rows |-> <<>>],
                        SubSeq(view, 1, Len(view) - 1))
    IN  IF ~all.ok \/ Last(view) \notin {<<"!", "0">>, <<"!", "1">>} THEN Bad
        ELSE [ok |-> TRUE, rows |-> all.rows, ends |-> Last(view)[2] = "1"]

-------------------------------------------------------------------------------
(* Texts: a word of the dictionary is a tilde and its letter, a tilde is two.    *)

FactorText(words) ==
    FlattenSeq([i \in DOMAIN words |->
        IF words[i] \in Aliased THEN <<"~", words[i]>>
        ELSE IF words[i] = "~" THEN <<"~", "~">> ELSE <<words[i]>>])

ExpandText(view) ==
    LET Next(acc, char) ==
            CASE acc.tilde -> [acc EXCEPT !.tilde = FALSE, !.words = Append(@, char)]
              [] ~acc.tilde /\ char = "~" -> [acc EXCEPT !.tilde = TRUE]
              [] OTHER -> [acc EXCEPT !.words = Append(@, char)]
    IN  FoldLeft(Next, [tilde |-> FALSE, words |-> <<>>], view)

-------------------------------------------------------------------------------
(* Paths and matches under their directory or file.  A row is its directory, if  *)
(* it has one, and its name.                                                     *)

Fold(rows) ==
    LET Next(acc, row) ==
            CASE Len(row) = 1 -> [acc EXCEPT !.view = Append(@, <<"=", row[1]>>)]
              [] Len(row) = 2 /\ row[1] = acc.prefix -> [acc EXCEPT !.view = Append(@, <<" ", row[2]>>)]
              [] OTHER -> [prefix |-> row[1], view |-> acc.view \o <<<<"@", row[1]>>, <<" ", row[2]>>>>]
    IN  FoldLeft(Next, [prefix |-> "", view |-> <<>>], rows).view

Unfold(view) ==
    LET Next(acc, row) ==
            CASE row[1] = "@" -> [acc EXCEPT !.prefix = row[2]]
              [] row[1] = " " -> [acc EXCEPT !.rows = Append(@, <<acc.prefix, row[2]>>)]
              [] OTHER        -> [acc EXCEPT !.rows = Append(@, <<row[2]>>)]
    IN  FoldLeft(Next, [prefix |-> "", rows |-> <<>>], view).rows

-------------------------------------------------------------------------------
(* Messages: a tool's text that repeats an earlier one becomes its number.       *)

Reference(source) == [same |-> source]
IsReference(content) == "same" \in DOMAIN content

\* Mutant: a message the provider caches may be rewritten.
FoldableAnyway(message) == message.role = "tool" /\ message.content # [text |-> "short"]

Foldable(message) ==
    message.role = "tool" /\ ~message.cached /\ message.content # [text |-> "short"]

FoldMessages(messages) ==
    IF \E i \in DOMAIN messages : IsReference(messages[i].content) THEN messages
    ELSE [i \in DOMAIN messages |->
            LET sources == {j \in 1..(i - 1) : Foldable(messages[j]) /\ messages[j].content = messages[i].content}
            IN  IF Foldable(messages[i]) /\ sources # {}
                THEN [messages[i] EXCEPT !.content = Reference(FirstOf(sources))]
                ELSE messages[i]]

ExpandMessages(messages) ==
    [i \in DOMAIN messages |->
        IF IsReference(messages[i].content)
        THEN [messages[i] EXCEPT !.content = messages[messages[i].content.same].content]
        ELSE messages[i]]

-------------------------------------------------------------------------------
(* What is checked *)

\* A text whose last row is empty ends with the newline before it.
IsText(text) == text.rows # <<>> /\ (text.ends \/ Last(text.rows) # <<>>)

(* Whatever a patch holds, headers cut short and rows that look like records     *)
(* included, it is read back from its view row by row, also after the recovery   *)
(* line was appended.                                                            *)
PatchReadsBack(text) ==
    IsText(text) => \A view \in {RenderPatch(text), Append(RenderPatch(text), Hint)} :
                        ExpandPatch(view) = [ok |-> TRUE, rows |-> text.rows, ends |-> text.ends]

(* Both versions of the lines, whatever rows repeat, share a prefix or begin like *)
(* a record, are read back by the one reader.                                    *)
LinesReadBack(text) ==
    IsText(text) => \A view \in {FactorLines(text), FactorBlocks(text)} :
                        ExpandLines(view) = [ok |-> TRUE, rows |-> text.rows, ends |-> text.ends]

WordsReadBack(words) == ExpandText(FactorText(words)) = [tilde |-> FALSE, words |-> words]

PathsReadBack(rows) == Unfold(Fold(rows)) = rows

(* Messages are read back, no cached message is touched, and a reference points  *)
(* to an earlier message that is shown.                                          *)
MessagesReadBack(messages) ==
    LET view == FoldMessages(messages)
    IN  \/ \E i \in DOMAIN messages : IsReference(messages[i].content)
        \/ /\ ExpandMessages(view) = messages
           /\ \A i \in DOMAIN messages : messages[i].cached => view[i] = messages[i]
           /\ \A i \in DOMAIN messages : IsReference(view[i].content) =>
                view[i].content.same < i /\ ~IsReference(view[view[i].content.same].content)
================================================================================
