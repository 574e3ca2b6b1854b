----------------------------- MODULE ShellRewrite -----------------------------
(* How a shell line an agent or a user is about to run is made to go through     *)
(* `lm-resizer exec`: rewrite-shell, segment by segment, and the PreToolUse hook, *)
(* for a line that is one simple command, or for an array of arguments.          *)
(*                                                                               *)
(* A line is a sequence of tokens: a character the shell may read as its own,    *)
(* or a word of other characters.  Which programs have a view and which ones     *)
(* talk to a terminal are given.                                                 *)
EXTENDS Naturals, Sequences, FiniteSets, SequencesExt

CONSTANTS
    Pieces,       \* what lines are typed from, each some tokens
    MaxPieces,    \* bound of the pieces of a line
    Arguments,    \* the arrays of arguments handed to the hook
    Viewed,       \* the programs whose output a view reduces
    Interactive   \* those that read the terminal or run until they are stopped

VARIABLES
    typed,     \* the pieces typed
    request,   \* who asks, and what
    reply      \* what is given back, and how many commands of it were wrapped

vars == <<typed, request, reply>>

NL  == "newline"
BSL == "backslash"
DQ  == "double quote"
BQ  == "backquote"
Blank == {" ", NL}

-----------------------------------------------------------------------------
(* The scanner: all the readers of a line agree on how quotes nest.              *)

AfterChar(state, t) ==
    CASE state = "escaped"                 -> "plain"
      [] state = "escaped in double"       -> "double"
      [] t = BSL /\ state = "plain"       -> "escaped"
      [] t = BSL /\ state = "double"      -> "escaped in double"
      [] t = "'"  /\ state = "plain"       -> "single"
      [] t = "'"  /\ state = "single"      -> "plain"
      [] t = DQ /\ state = "plain"       -> "double"
      [] t = DQ /\ state = "double"      -> "plain"
      [] OTHER                             -> state

(* The state in which each token of the line is read, and the one at its end.    *)
States(l) == FoldLeft(LAMBDA s, t : Append(s, AfterChar(Last(s), t)), <<"plain">>, l)

Bare(l, s, chars) == {i \in DOMAIN l : s[i] = "plain" /\ l[i] \in chars}
Outside(l, s, chars) == {i \in DOMAIN l : s[i] \in {"plain", "double"} /\ l[i] \in chars}
Next2(l, i, t) == i < Len(l) /\ l[i + 1] = t

Solid(l) == {i \in DOMAIN l : l[i] \notin Blank}
TrimEdges(l) == IF Solid(l) = {} THEN <<>> ELSE SubSeq(l, Min(Solid(l)), Max(Solid(l)))

(* A blank that is escaped belongs to the word it ends.                          *)
trim_shell(l) ==
    LET end   == Max(Solid(l))
        slash == {i \in 1..end : \A j \in i..end : l[j] = BSL}
    IN  IF Solid(l) = {} THEN <<>>
        ELSE IF Cardinality(slash) % 2 = 1 /\ end < Len(l) THEN SubSeq(l, Min(Solid(l)), end + 1)
        ELSE TrimEdges(l)

has_unquoted_newline(l, s) ==
    \E i \in DOMAIN l : l[i] = NL /\ s[i] \in {"plain", "escaped", "escaped in double"}

-----------------------------------------------------------------------------
(* Segments and operators.                                                       *)

(* A `&` beside `>`, or after `<`, belongs to a redirection.                     *)
OperatorLength(l, i) ==
    CASE l[i] = ";" -> 1
      [] l[i] = "|" -> IF Next2(l, i, "|") \/ Next2(l, i, "&") THEN 2 ELSE 1
      [] l[i] = "&" -> IF Next2(l, i, ">") \/ (i > 1 /\ l[i - 1] \in {">", "<"}) THEN 0
                       ELSE IF Next2(l, i, "&") THEN 2 ELSE 1
      [] OTHER -> 0

(* Where the operators are, read from the left.                                  *)
OperatorsOf(l, s) ==
    FoldLeft(LAMBDA ops, i :
                IF \/ s[i] # "plain" \/ OperatorLength(l, i) = 0
                   \/ ops # <<>> /\ i <= Last(ops).to
                THEN ops
                ELSE Append(ops, [from |-> i, to |-> i + OperatorLength(l, i) - 1]),
             <<>>, [i \in DOMAIN l |-> i])

SegmentToken(l) ==
    IF Solid(l) = {} THEN <<>> ELSE <<[operator |-> FALSE, text |-> trim_shell(l)]>>

split_shell_operators(l) ==
    LET ops == OperatorsOf(l, States(l))
        before(k) == SubSeq(l, IF k = 1 THEN 1 ELSE ops[k - 1].to + 1, ops[k].from - 1)
        tail == SubSeq(l, IF ops = <<>> THEN 1 ELSE Last(ops).to + 1, Len(l))
        token(k) == Append(SegmentToken(before(k)),
                           [operator |-> TRUE, text |-> SubSeq(l, ops[k].from, ops[k].to)])
    IN  FlattenSeq([k \in DOMAIN ops |-> token(k)]) \o SegmentToken(tail)

operator_consumes_output(op) == op \in {<<"|">>, <<"|", "&">>}

-----------------------------------------------------------------------------
(* The words of a segment.                                                       *)

(* The tokens of a word but for the quotes and the backslashes that quote.       *)
Unquoted(l, s, from, to) ==
    LET quotes(i) ==
            \/ s[i] = "plain" /\ l[i] \in {"'", DQ, BSL}
            \/ s[i] = "single" /\ l[i] = "'"
            \/ s[i] = "double" /\ l[i] = DQ
            \/ s[i] = "double" /\ l[i] = BSL /\ i < Len(l) /\ l[i + 1] \in {"$", BQ, DQ, BSL}
        kept == SelectSeq([k \in 1..(to - from + 1) |-> from + k - 1], LAMBDA i : ~quotes(i))
    IN  [k \in DOMAIN kept |-> l[kept[k]]]

WordsOf(l, s) ==
    LET cuts   == Bare(l, s, Blank)
        starts == SelectSeq([i \in DOMAIN l |-> i], LAMBDA i : i \notin cuts /\ (i = 1 \/ i - 1 \in cuts))
        end(i) == Min({j \in i..Len(l) : j = Len(l) \/ j + 1 \in cuts})
    IN  [k \in DOMAIN starts |-> Unquoted(l, s, starts[k], end(starts[k]))]

Closed(l, s) == s[Len(l) + 1] = "plain"

(* posix_split refuses all that is not an ordinary word.                         *)
Ordinary(l, s) ==
    /\ Closed(l, s)
    /\ Bare(l, s, {NL, ";", "&", "|", "<", ">", "(", ")"}) = {}
    /\ \A i \in Bare(l, s, {"#"}) : i > 1 /\ ~(s[i - 1] = "plain" /\ l[i - 1] = " ")
    /\ \A i \in DOMAIN l : l[i] = NL => s[i] \notin {"escaped", "escaped in double"}

Safe(word) == word # <<>> /\ \A i \in DOMAIN word :
    word[i] \notin Blank \cup {"'", DQ, BSL, "|", "&", ";", "<", ">", "$", "(", ")", BQ, "*", "#", "{", "~"}

shell_quote(word) ==
    IF Safe(word) THEN word
    ELSE <<"'">> \o FlattenSeq([i \in DOMAIN word |->
                        IF word[i] = "'" THEN <<"'", BSL, "'", "'">> ELSE <<word[i]>>]) \o <<"'">>

Spaced(pieces) ==
    FlattenSeq([k \in DOMAIN pieces |-> IF k = 1 THEN pieces[k] ELSE <<" ">> \o pieces[k]])

shell_join(words) == Spaced([k \in DOMAIN words |-> shell_quote(words[k])])

-----------------------------------------------------------------------------
(* What may be wrapped.                                                          *)

segment_has_redirect(l, s) == Bare(l, s, {">", "<"}) # {}

segment_has_command_substitution(l, s) ==
    Outside(l, s, {BQ}) # {} \/ \E i \in Outside(l, s, {"$"}) : Next2(l, i, "(")

segment_is_interactive(l, s) ==
    Closed(l, s) /\ WordsOf(l, s) # <<>> /\ WordsOf(l, s)[1] \in {<<p>> : p \in Interactive}

segment_must_not_be_rewritten(l, s) ==
    segment_has_redirect(l, s) \/ segment_has_command_substitution(l, s) \/ segment_is_interactive(l, s)

segment_has_expansion(l, s) == Outside(l, s, {"$", BQ}) # {} \/ Bare(l, s, {"*", "{", "~"}) # {}

Wrapper == <<<<"lm-resizer">>, <<"exec">>, <<"--">>>>

(* head_read: `head FILE`.                                                       *)
IsHeadRead(words) == Len(words) = 2 /\ words[1] = <<"head">>
HeadRead(words) == <<<<"lm-resizer">>, <<"read">>, words[2], <<"--head-lines">>>>

supported(words) == IsHeadRead(words) \/ (words # <<>> /\ words[1] \in {<<p>> : p \in Viewed})

LooksLikeSubstitution(word) == \E i \in DOMAIN word : word[i] = BQ \/ (word[i] = "$" /\ Next2(word, i, "("))

(* rewrite_shell_segment: the segment as rewritten, or nothing.                  *)
RewriteOf(seg, s, words) ==
    LET wrapped == Spaced(Wrapper) \o <<" ">> \o seg
        s2      == States(wrapped)
        read    == shell_join(HeadRead(words))
    IN  IF \/ segment_must_not_be_rewritten(seg, s)
           \/ ~Ordinary(seg, s)
           \/ \E k \in DOMAIN words : LooksLikeSubstitution(words[k])
           \/ ~supported(words)
        THEN <<>>
        ELSE IF ~IsHeadRead(words)
        THEN IF Ordinary(wrapped, s2) /\ WordsOf(wrapped, s2) = Wrapper \o words THEN wrapped ELSE <<>>
        ELSE IF ~segment_has_expansion(seg, s) /\ WordsOf(read, States(read)) = HeadRead(words) THEN read
        ELSE <<>>

rewrite_shell_segment(seg) == RewriteOf(seg, States(seg), WordsOf(seg, States(seg)))

(* Mutant: the producer of a pipe is wrapped.                                    *)
ReadsPipe(tokens, k) == k > 1 /\ operator_consumes_output(tokens[k - 1].text)

(* Neither the producer nor the consumer of a pipe.                              *)
BesidePipe(tokens, k) ==
    \/ k > 1 /\ operator_consumes_output(tokens[k - 1].text)
    \/ k < Len(tokens) /\ operator_consumes_output(tokens[k + 1].text)

Unchanged(l) == [line |-> trim_shell(l), wrapped |-> 0]

RewriteTokens(l, tokens) ==
    LET rewrite(k) == IF tokens[k].operator \/ BesidePipe(tokens, k) THEN <<>>
                      ELSE rewrite_shell_segment(tokens[k].text)
        made       == [k \in DOMAIN tokens |-> rewrite(k)]
        pieces     == [k \in DOMAIN tokens |-> IF made[k] = <<>> THEN tokens[k].text ELSE made[k]]
        count      == Cardinality({k \in DOMAIN tokens : made[k] # <<>>})
    IN  IF count = 0 THEN Unchanged(l) ELSE [line |-> Spaced(pieces), wrapped |-> count]

rewrite_shell_report(l) ==
    IF has_unquoted_newline(trim_shell(l), States(trim_shell(l))) THEN Unchanged(l)
    ELSE RewriteTokens(l, split_shell_operators(l))

(* rewrite_command_for_hook: one simple command, wrapped as it stands.           *)
HookRewrites(seg, s, words) ==
    /\ ~segment_must_not_be_rewritten(seg, s)
    /\ Ordinary(seg, s)
    /\ words # <<>> /\ words[1] # <<"lm-resizer">>
    /\ supported(words)

RewriteForHook(l, tokens) ==
    LET seg == TrimEdges(tokens[1].text)
        s   == States(seg)
    IN  IF Len(tokens) = 1 /\ ~tokens[1].operator /\ HookRewrites(seg, s, WordsOf(seg, s))
        THEN [line |-> Spaced(Wrapper) \o <<" ">> \o seg, wrapped |-> 1]
        ELSE [line |-> l, wrapped |-> 0]

rewrite_command_for_hook(l) == RewriteForHook(l, split_shell_operators(TrimEdges(l)))

-----------------------------------------------------------------------------
NoReply == [line |-> <<>>, wrapped |-> 0]

Init == typed = <<>> /\ request = [by |-> "nobody"] /\ reply = NoReply

Types(piece) ==
    /\ request.by = "nobody" /\ Len(typed) < MaxPieces
    /\ typed' = Append(typed, piece)
    /\ UNCHANGED <<request, reply>>

AsksRewriteShell ==
    /\ request.by = "nobody"
    /\ request' = [by |-> "rewrite-shell", line |-> FlattenSeq(typed)]
    /\ reply' = rewrite_shell_report(request'.line)
    /\ UNCHANGED typed

(* pretooluse_rewrite_json: a command for the background is left as it is.       *)
AsksHook(background) ==
    /\ request.by = "nobody"
    /\ request' = [by |-> "hook", line |-> FlattenSeq(typed)]
    /\ reply' = IF background THEN [line |-> request'.line, wrapped |-> 0]
                 ELSE rewrite_command_for_hook(request'.line)
    /\ UNCHANGED typed

(* An array is judged on its arguments quoted, and stays an array.               *)
AsksHookWithArray(argv) ==
    /\ request.by = "nobody" /\ typed = <<>>
    /\ request' = [by |-> "array", argv |-> argv]
    /\ LET made == rewrite_command_for_hook(shell_join(argv))
       IN  reply' = [argv |-> IF made.wrapped = 1 THEN Wrapper \o argv ELSE argv, wrapped |-> made.wrapped]
    /\ UNCHANGED typed

Forgets ==
    /\ request.by # "nobody"
    /\ typed' = <<>> /\ request' = [by |-> "nobody"] /\ reply' = NoReply

Next ==
    \/ \E piece \in Pieces : Types(piece)
    \/ AsksRewriteShell
    \/ \E background \in BOOLEAN : AsksHook(background)
    \/ \E argv \in Arguments : AsksHookWithArray(argv)
    \/ Forgets

Spec == Init /\ [][Next]_vars

-----------------------------------------------------------------------------
(* What a POSIX shell reads in a line: its commands, each with its words, what   *)
(* redirects it, the operator after it and whether a substitution takes its      *)
(* output.  A token of a word is active if the shell expands it.                 *)

Reading ==
    [state |-> "plain", comment |-> FALSE, glued |-> FALSE, word |-> <<>>, open |-> FALSE,
     items |-> <<>>, nested |-> <<>>, commands |-> <<>>]

EndWord(r) ==
    IF r.open THEN [r EXCEPT !.items = Append(@, r.word), !.word = <<>>, !.open = FALSE] ELSE r

Captures(r) == \E i \in DOMAIN r.nested : r.nested[i] \in {"$(", BQ}

EndCommand(r, op) ==
    LET w == EndWord(r)
    IN  IF w.items = <<>> /\ op = NL THEN w
        ELSE [w EXCEPT !.items = <<>>, !.glued = TRUE,
                       !.commands = Append(@, [items |-> w.items, end |-> <<op>>, captured |-> Captures(w)])]

(* A character beside an operator or a redirection it makes longer.              *)
Longer(r, t) ==
    LET n == Len(r.commands)
    IN  /\ r.glued /\ r.items = <<>> /\ ~r.open /\ n > 0
        /\ r.commands[n].end \o <<t>> \in {<<"&", "&">>, <<"|", "|">>, <<"|", "&">>, <<";", ";">>}

LongerRedirect(r, t) ==
    /\ r.glued /\ ~r.open /\ r.items # <<>>
    /\ Last(r.items) \o <<<<t, TRUE>>>> \in
        {<<<<pair[1], TRUE>>, <<pair[2], TRUE>>>> :
            pair \in {<<">", ">">>, <<">", "&">>, <<">", "|">>, <<"<", "<">>, <<"<", "&">>, <<"<", ">">>}}

Put(r, t, active) == [r EXCEPT !.word = Append(@, <<t, active>>), !.open = TRUE, !.glued = FALSE]

Nest(r, t) ==
    LET n == Len(r.nested)
    IN  CASE t = "(" -> [r EXCEPT !.nested = Append(@, IF r.open /\ r.word # <<>> /\ Last(r.word)[1] = "$" THEN "$(" ELSE "(")]
          [] t = ")" -> [r EXCEPT !.nested = IF n > 0 /\ @[n] # BQ THEN SubSeq(@, 1, n - 1) ELSE @]
          [] t = BQ -> [r EXCEPT !.nested = IF n > 0 /\ @[n] = BQ THEN SubSeq(@, 1, n - 1) ELSE Append(@, BQ)]

Plainly(r, t) ==
    CASE t = " " -> [EndWord(r) EXCEPT !.glued = FALSE]
      [] t = "#" /\ ~r.open -> [r EXCEPT !.comment = TRUE]
      [] t \in {"'", DQ, BSL} -> [r EXCEPT !.open = (t # BSL) \/ @, !.glued = FALSE]
      [] t \in {"&", "|", ";"} /\ Longer(r, t) ->
            [r EXCEPT !.commands[Len(r.commands)].end = Append(@, t), !.glued = FALSE]
      [] t \in {"&", "|", "<", ">"} /\ LongerRedirect(r, t) ->
            [r EXCEPT !.items[Len(r.items)] = Append(@, <<t, TRUE>>)]
      [] t \in {"<", ">"} /\ ~LongerRedirect(r, t) -> [EndWord(r) EXCEPT !.items = Append(@, <<<<t, TRUE>>>>), !.glued = TRUE]
      [] t \in {"&", "|", ";", NL} /\ ~Longer(r, t) /\ ~LongerRedirect(r, t) -> EndCommand(r, t)
      [] t \in {"(", ")", BQ} -> Put(Nest(r, t), t, TRUE)
      [] OTHER -> Put(r, t, t \in {"$", "*", "{", "~"})

ReadToken(r, t) ==
    LET next == [r EXCEPT !.state = AfterChar(r.state, t)]
    IN  IF r.comment THEN IF t = NL THEN EndCommand([r EXCEPT !.comment = FALSE], NL) ELSE r
        ELSE CASE r.state = "plain"   -> [Plainly(r, t) EXCEPT !.state = IF t = "#" /\ ~r.open THEN "plain" ELSE next.state]
               [] r.state = "escaped" -> IF t = NL THEN next ELSE Put(next, t, FALSE)
               [] r.state = "escaped in double" ->
                    CASE t = NL -> next
                      [] t \in {"$", BQ, DQ, BSL} -> Put(next, t, FALSE)
                      [] OTHER -> Put(Put(next, BSL, FALSE), t, FALSE)
               [] r.state \in {"single", "double"} /\ next.state # r.state -> next
               [] OTHER -> Put(next, t, r.state = "double" /\ t \in {"$", BQ})

AllRead(l)    == EndCommand(FoldLeft(ReadToken, Reading, l), NL)
CommandsOf(l) == AllRead(l).commands

-----------------------------------------------------------------------------
(* Properties *)

Literal(word) == [i \in DOMAIN word |-> <<word[i], FALSE>>]

(* A command as it was before it was made to go through lm-resizer.              *)
Unwrapped(items) ==
    LET first(n) == [k \in 1..n |-> items[k]]
    IN  IF Len(items) > 3 /\ first(3) = [k \in 1..3 |-> Literal(Wrapper[k])]
        THEN SubSeq(items, 4, Len(items))
        ELSE IF Len(items) = 4 /\ first(4) = [k \in 1..4 |-> IF k = 3 THEN items[3] ELSE Literal(HeadRead(<<"", "">>)[k])]
        THEN <<Literal(<<"head">>), items[3]>>
        ELSE items

Redirects(item) == item # <<>> /\ item[1] \in {<<">", TRUE>>, <<"<", TRUE>>}

Piped(end) == end \in {<<"|">>, <<"|", "&">>}

(* Its output is for the reader of the conversation, and it ends by itself.      *)
Wrappable(commands, k) ==
    /\ ~Piped(commands[k].end) /\ (k > 1 => ~Piped(commands[k - 1].end))
    /\ \A i \in DOMAIN commands[k].items : ~Redirects(commands[k].items[i])
    /\ commands[k].items[1] \notin {Literal(<<p>>) : p \in Interactive}
    /\ ~commands[k].captured

SameButWrapped(before, after) ==
    /\ Len(after) = Len(before)
    /\ \A k \in DOMAIN before :
        /\ after[k].end = before[k].end
        /\ \/ after[k].items = before[k].items
           \/ Unwrapped(after[k].items) = before[k].items /\ Wrappable(before, k)

(* A command the shell can run: each redirection has its target.                 *)
Complete(items) == \A i \in DOMAIN items :
    Redirects(items[i]) => i < Len(items) /\ ~Redirects(items[i + 1])

(* Commands joined by operators, quotes closed, and nothing that nests commands. *)
ListOfCommands(l, s) ==
    /\ Last(s) \in {"plain", "escaped"}
    /\ Bare(l, s, {"(", ")", BQ, "#"}) = {}
    /\ \A i \in Bare(l, s, {">"}) : ~Next2(l, i, "|")
    /\ \A i \in Bare(l, s, {"&"}) : i > 1 /\ l[i - 1] \in {">", "<"} => s[i - 1] = "plain"
    /\ \A c \in Range(CommandsOf(l)) : c.end # <<";", ";">> /\ Complete(c.items)

(* A list of commands, however it is quoted, runs the same commands with the     *)
(* same words, joined by the same operators; those that go through lm-resizer    *)
(* are not redirected, not beside a pipe and not interactive.  What the hook     *)
(* gives back is the line it was given, or the array, wrapped or not, be the     *)
(* line a list of commands or anything else (rewrite_shell_report,               *)
(* rewrite_command_for_hook).                                                    *)
LinesMeanTheSame ==
    /\ \/ request.by \in {"nobody", "array"} \/ reply.line = request.line
       \/ request.by = "rewrite-shell" /\ ~ListOfCommands(request.line, States(request.line))
       \/ SameButWrapped(CommandsOf(request.line), CommandsOf(reply.line))
    /\ request.by = "array" =>
        \/ reply.argv = request.argv
        \/ reply.argv = Wrapper \o request.argv /\ request.argv[1] \notin {<<p>> : p \in Interactive}

(* What docs/CLAUDE_CODEX.md says: a command captured by a substitution is       *)
(* returned unchanged.  Of lines whose substitutions are closed.                 *)
CapturedIsUntouched ==
    request.by = "rewrite-shell" /\ AllRead(reply.line).nested = <<>> =>
        \A k \in DOMAIN CommandsOf(reply.line) :
            LET c == CommandsOf(reply.line)[k] IN c.captured => Unwrapped(c.items) = c.items
===============================================================================
