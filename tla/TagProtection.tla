------------------------------ MODULE TagProtection ------------------------------
(* Which tags of a text TagProtector hides from a compressor, and what comes     *)
(* back (tag_protector.rs).                                                      *)
(*                                                                               *)
(* A text is a sequence of tokens; Tags says of each what the parser reads:      *)
(* "open", "close" or "single" (self-closing) with its name, "html" for a tag    *)
(* HTML5 knows, or "none".  A span is an interval of positions.  A placeholder   *)
(* is the number of its span: its prefix is one the text does not contain.       *)
EXTENDS Integers, Sequences, SequencesExt

CONSTANT Tags      \* per token: tag, name

Nowhere == [spans |-> <<>>, stack |-> <<>>]

Innermost(stack, name) ==
    CHOOSE k \in 0..Len(stack) :
        /\ k > 0 => stack[k].name = name
        /\ \A j \in (k + 1)..Len(stack) : stack[j].name # name

OnOpen(acc, i, name, inside) ==
    [spans |-> IF inside THEN Append(acc.spans, [from |-> i, to |-> i]) ELSE acc.spans,
     stack |-> Append(acc.stack, [name |-> name, at |-> i])]

\* Mutant: the spans within a block that closes are not dropped.
OnCloseKeepInner(acc, i, name, inside) ==
    LET k == Innermost(acc.stack, name)
    IN  IF k = 0 THEN acc
        ELSE [spans |-> Append(acc.spans, [from |-> IF inside THEN i ELSE acc.stack[k].at, to |-> i]),
              stack |-> SubSeq(acc.stack, 1, k - 1)]

(* A close drops the opens above its own.  As a block it replaces every span     *)
(* within; as a marker it is a span of its own.  Without an open it is left.     *)
OnClose(acc, i, name, inside) ==
    LET k == Innermost(acc.stack, name)
        opened == acc.stack[k].at
        outside == SelectSeq(acc.spans, LAMBDA s : s.from < opened)
    IN  IF k = 0 THEN acc
        ELSE [spans |-> IF inside THEN Append(acc.spans, [from |-> i, to |-> i])
                        ELSE Append(outside, [from |-> opened, to |-> i]),
              stack |-> SubSeq(acc.stack, 1, k - 1)]

\* inside is compress_tagged_content: only the markers are hidden
IdentifySpans(text, inside) ==
    LET Step(acc, i) ==
            LET token == Tags[text[i]]
            IN  CASE token.tag = "single" -> [acc EXCEPT !.spans = Append(@, [from |-> i, to |-> i])]
                  [] token.tag = "open"   -> OnOpen(acc, i, token.name, inside)
                  [] token.tag = "close"  -> OnClose(acc, i, token.name, inside)
                  [] OTHER                -> acc
    IN  FoldLeft(Step, Nowhere, [i \in 1..Len(text) |-> i]).spans

\* spans that overlap are given up altogether, and the text goes unprotected
InOrder(spans) == \A k \in 2..Len(spans) : spans[k].from > spans[k - 1].to

Plain(token) == [hidden |-> FALSE, token |-> token, span |-> 0]
Placeholder(k) == [hidden |-> TRUE, token |-> "", span |-> k]

(* The text the compressor gets, and what its placeholders stand for.            *)
ProtectTags(text, inside) ==
    LET spans == IdentifySpans(text, inside)
        Within(i) == {k \in DOMAIN spans : spans[k].from <= i /\ i <= spans[k].to}
        At(i) == IF Within(i) = {} THEN <<Plain(text[i])>>
                 ELSE LET k == CHOOSE k \in Within(i) : TRUE
                      IN  IF spans[k].from = i THEN <<Placeholder(k)>> ELSE <<>>
    IN  IF InOrder(spans)
        THEN [cleaned |-> FlattenSeq([i \in 1..Len(text) |-> At(i)]),
              blocks  |-> [k \in DOMAIN spans |-> SubSeq(text, spans[k].from, spans[k].to)]]
        ELSE [cleaned |-> [i \in 1..Len(text) |-> Plain(text[i])], blocks |-> <<>>]

\* a placeholder that did not come back leaves nothing behind
RestoreTags(compressed, blocks) ==
    FlattenSeq([j \in 1..Len(compressed) |->
        IF compressed[j].hidden THEN blocks[compressed[j].span] ELSE <<compressed[j].token>>])

-------------------------------------------------------------------------------
(* What is checked *)

\* every custom tag closes, in order
Balanced(text) ==
    LET Step(stack, token) ==
            CASE Tags[token].tag = "open"  -> Append(stack, Tags[token].name)
              [] Tags[token].tag = "close" ->
                    IF stack # <<>> /\ Last(stack) = Tags[token].name THEN Front(stack)
                    ELSE Append(stack, "unmatched")
              [] OTHER -> stack
    IN  FoldLeft(Step, <<>>, text) = <<>>

\* what a compressor may make of a text: it leaves out what it likes
Shortened(seq) ==
    {SelectSeq([j \in 1..Len(seq) |-> [at |-> j, item |-> seq[j]]], LAMBDA x : x.at \in kept)
        : kept \in SUBSET (1..Len(seq))}

(* However tags nest, cross or never close: what is hidden comes back where it   *)
(* was; a compressor sees no tag of a well-formed text; and whatever it leaves   *)
(* out of one whose blocks are hidden, what it returns is well-formed again.     *)
TagsRestored(text, inside) ==
    LET protected == ProtectTags(text, inside)
    IN  /\ RestoreTags(protected.cleaned, protected.blocks) = text
        /\ Balanced(text) =>
            /\ \A j \in DOMAIN protected.cleaned :
                protected.cleaned[j].hidden
                \/ Tags[protected.cleaned[j].token].tag \in {"html", "none"}
            /\ ~inside => \A shorter \in Shortened(protected.cleaned) :
                Balanced(RestoreTags([j \in DOMAIN shorter |-> shorter[j].item], protected.blocks))
===============================================================================
