------------------------------ MODULE Compression ------------------------------
(* One text through the compression pipeline (orchestrator.rs, run) and the      *)
(* report its callers make of it (main.rs, compress_text_with_metrics; lib.rs,   *)
(* LmResizer::compress).                                                         *)
(*                                                                               *)
(* A text is its size, the facts it shows word for word, the facts it still      *)
(* tells in another form, and the texts whose content hash it names in a marker. *)
(* What each transform makes of a text is nondeterministic within what its kind  *)
(* guarantees; the order, the gates, the store and the keys are those of the     *)
(* code.  Texts are named by their place in buf, which stands for their hash.    *)
EXTENDS Naturals, Sequences, FiniteSets, SequencesExt

CONSTANTS
    Types,        \* content types
    Reformats,    \* the reformats registered for each type, in order
    Offloads,     \* the offloads registered for each type, in order
    Facts,        \* what a text can say
    Failures,     \* those the diagnostic gate takes for failure lines
    MaxSize       \* the largest text, in units of size

Transforms == {"json_minifier", "log_template", "source_compressor",
               "prose_repetition", "json_offload", "log_offload", "diff_offload", "diff_noise"}

ASSUME PipelineAssumption ==
    /\ Reformats \in [Types -> Seq(Transforms)]
    /\ Offloads \in [Types -> Seq(Transforms)]
    /\ Failures \subseteq Facts
    /\ MaxSize \in Nat \ {0}

(* SourceCompressor comes before any other reformat of its type: the default  *)
(* pipeline registers no other for source code.                                  *)
ASSUME SourceFirstAssumption ==
    \A t \in Types : \A i \in DOMAIN Reformats[t] : Reformats[t][i] = "source_compressor" => i = 1

(* The stack of default_pipeline, by content type.                               *)
DefaultReformats ==
    [json |-> <<"json_minifier">>, build |-> <<"log_template">>, source |-> <<"source_compressor">>,
     diff |-> <<>>, text |-> <<>>]
DefaultOffloads ==
    [json |-> <<"json_offload">>, build |-> <<"log_offload">>, source |-> <<>>,
     diff |-> <<"diff_offload", "diff_noise">>, text |-> <<"prose_repetition">>]

VARIABLES
    buf,          \* the input, then every text it became
    store,        \* the texts of buf the store holds under their hash
    keys,         \* cache_keys
    saved,        \* bytes_saved
    type,         \* the detected content type
    scores,       \* the bloat estimates of the input, one per offload
    caller,       \* "library", "compress" or "exec" (which asks for no re-injection)
    pc,
    turn,         \* the transform whose turn it is
    reformatted,  \* the text the reformats ended with
    dropped       \* history: the store lost a put

run  == <<type, scores, caller>>
vars == <<buf, store, keys, saved, run, pc, turn, reformatted, dropped>>

Content == buf[1]
Current == Last(buf)
Tells(t) == t.shown \cup t.told

Texts(facts, marks) ==
    {[size |-> n, shown |-> s, told |-> d, marks |-> marks] :
        n \in 1..MaxSize, s \in SUBSET facts, d \in SUBSET facts}

Init ==
    /\ \E n \in 1..MaxSize, s \in SUBSET Facts :
           buf = <<[size |-> n, shown |-> s, told |-> Facts \ s, marks |-> {}]>>
    /\ type \in Types
    /\ scores \in [DOMAIN Offloads[type] -> {"none", "low", "high"}]
    /\ caller \in {"library", "compress", "exec"}
    /\ pc = "start"
    /\ turn = 1
    /\ reformatted = 1
    /\ store = {} /\ keys = <<>> /\ saved = 0
    /\ dropped = FALSE

(* CcrStore::put reports nothing: a backend that fails only logs it.             *)
Put(v) ==
    \/ store' = store \cup {v} /\ UNCHANGED dropped
    \/ v \notin store /\ store' = store /\ dropped' = TRUE

Goto(to) == pc' = to /\ turn' = 1
NextTurn == pc' = pc /\ turn' = turn + 1

-----------------------------------------------------------------------------
(* Reformats.                                                                    *)

(* A homogeneous array of rows is written as a table and no pipeline runs.       *)
CompactRows ==
    /\ pc = "start" /\ caller # "library"
    /\ \E t \in Texts(Tells(Content), {}) :
           /\ t.size < Content.size /\ Tells(t) = Tells(Content)
           /\ buf' = Append(buf, t)
           /\ saved' = Content.size - t.size
    /\ Put(1)
    /\ keys' = <<1>>
    /\ Goto("done")
    /\ UNCHANGED <<run, reformatted>>

Detect ==
    /\ pc = "start"
    /\ Goto("reformat")
    /\ UNCHANGED <<buf, store, keys, saved, run, reformatted, dropped>>

TargetReached == 2 * Current.size <= Content.size
ReformatDue == pc = "reformat" /\ turn <= Len(Reformats[type]) /\ ~TargetReached

(* A lossless reformat tells what its input told; source_compressor, registered  *)
(* as a reformat, leaves out bodies and comments, stores nothing, and may name   *)
(* its input in a "Retrieve full source" marker.                                 *)
Reformatted(transform) ==
    IF transform = "source_compressor"
    THEN Texts(Tells(Current), {}) \cup Texts(Tells(Current), {Len(buf)})
    ELSE {t \in Texts(Tells(Current), Current.marks) : Tells(t) = Tells(Current)}

(* An error, or nothing saved.                                                   *)
ReformatSkipped ==
    /\ ReformatDue
    /\ NextTurn
    /\ UNCHANGED <<buf, store, keys, saved, run, reformatted, dropped>>

ReformatAccepted ==
    /\ ReformatDue
    /\ \E t \in Reformatted(Reformats[type][turn]) :
           /\ t.size < Current.size
           /\ buf' = Append(buf, t)
           /\ saved' = saved + (Current.size - t.size)
    /\ NextTurn
    /\ UNCHANGED <<store, keys, run, reformatted, dropped>>

ReformatsEnd ==
    /\ pc = "reformat" /\ (TargetReached \/ turn > Len(Reformats[type]))
    /\ reformatted' = Len(buf)
    /\ Goto("offload")
    /\ UNCHANGED <<buf, store, keys, saved, run, dropped>>

-----------------------------------------------------------------------------
(* Offloads.                                                                     *)

OffloadDue == pc = "offload" /\ turn <= Len(Offloads[type])

(* A score at the threshold passes; a lower one only when the reformats left     *)
(* more than 85% of the input.                                                   *)
Underwhelmed == 20 * buf[reformatted].size > 17 * Content.size
Gate ==
    \/ scores[turn] = "high"
    \/ scores[turn] = "low" /\ Underwhelmed

OffloadGatedOut ==
    /\ OffloadDue /\ ~Gate
    /\ NextTurn
    /\ UNCHANGED <<buf, store, keys, saved, run, reformatted, dropped>>

(* Declined by the transform before it stored anything.                          *)
OffloadDeclined ==
    /\ OffloadDue /\ Gate
    /\ NextTurn
    /\ UNCHANGED <<buf, store, keys, saved, run, reformatted, dropped>>

(* What an offload makes of the current text: part of what it told, some of the  *)
(* markers it had, and a marker of its own.                                      *)
Offloaded == UNION {Texts(Tells(Current), m \cup {Len(buf)}) : m \in SUBSET Current.marks}

(* Stored, and then thrown away because the output with its marker saved nothing.*)
OffloadDiscarded ==
    /\ OffloadDue /\ Gate
    /\ Offloads[type][turn] # "prose_repetition"
    /\ Put(Len(buf))
    /\ NextTurn
    /\ UNCHANGED <<buf, keys, saved, run, reformatted>>

(* Mutant: the key is minted and nothing is stored under it.                     *)
OffloadAcceptedUnstored ==
    /\ OffloadDue /\ Gate
    /\ \E t \in Offloaded :
           /\ t.size < Current.size
           /\ buf' = Append(buf, t)
           /\ saved' = saved + (Current.size - t.size)
    /\ keys' = Append(keys, Len(buf))
    /\ NextTurn
    /\ UNCHANGED <<store, run, reformatted, dropped>>

(* Mutant: an output that saved nothing is kept (the difference saturates).      *)
OffloadAcceptedAnySize ==
    /\ OffloadDue /\ Gate
    /\ \E t \in Offloaded :
           /\ buf' = Append(buf, t)
           /\ saved' = saved + (IF t.size < Current.size THEN Current.size - t.size ELSE 0)
    /\ Put(Len(buf))
    /\ keys' = Append(keys, Len(buf))
    /\ NextTurn
    /\ UNCHANGED <<run, reformatted>>

OffloadAccepted ==
    /\ OffloadDue /\ Gate
    /\ \E t \in Offloaded :
           /\ t.size < Current.size
           /\ buf' = Append(buf, t)
           /\ saved' = saved + (Current.size - t.size)
    /\ Put(Len(buf))
    /\ keys' = Append(keys, Len(buf))
    /\ NextTurn
    /\ UNCHANGED <<run, reformatted>>

(* LmResizer returns what the pipeline returned; the command line goes on.       *)
PipelineEnds ==
    /\ pc = "offload" /\ turn > Len(Offloads[type])
    /\ Goto(CASE caller = "library" -> "done" [] caller = "compress" -> "reinject" [] caller = "exec" -> "keep")
    /\ UNCHANGED <<buf, store, keys, saved, run, reformatted, dropped>>

-----------------------------------------------------------------------------
(* The report of the command line.                                               *)

(* Mutant: a failure line told in another form passes for shown.                 *)
LostUntold == (Content.shown \cap Failures) \ Tells(Current)

(* The failure lines of the input the compressed text no longer shows.           *)
Lost == (Content.shown \cap Failures) \ Current.shown

NothingLost ==
    /\ pc = "reinject" /\ Lost = {}
    /\ Goto("keep")
    /\ UNCHANGED <<buf, store, keys, saved, run, reformatted, dropped>>

(* They are appended, and the saving is counted again.                           *)
Reinject ==
    /\ pc = "reinject" /\ Lost # {}
    /\ \E n \in (Current.size + 1)..(Content.size - 1) :
           /\ buf' = Append(buf, [Current EXCEPT !.size = n, !.shown = @ \cup Lost])
           /\ saved' = Content.size - n
    /\ Goto("keep")
    /\ UNCHANGED <<store, keys, run, reformatted, dropped>>

(* With them it is no shorter than the input, which is returned as it is.        *)
ReturnInput ==
    /\ pc = "reinject" /\ Lost # {}
    /\ buf' = Append(buf, Content)
    /\ saved' = 0 /\ keys' = <<>>
    /\ Goto("done")
    /\ UNCHANGED <<store, run, reformatted, dropped>>

KeepUnchanged ==
    /\ pc = "keep" /\ Current = Content
    /\ Goto("done")
    /\ UNCHANGED <<buf, store, keys, saved, run, reformatted, dropped>>

(* Mutant: the input is stored and the markers are left as they are.             *)
KeepOriginalOnly ==
    /\ pc = "keep" /\ Current # Content
    /\ Put(1)
    /\ keys' = <<1>>
    /\ Goto("done")
    /\ UNCHANGED <<buf, saved, run, reformatted>>

(* Every marker of the run is made to name the input, which is stored last.      *)
KeepOriginal ==
    /\ pc = "keep" /\ Current # Content
    /\ Put(1)
    /\ LET named == {IF m \in Range(keys) THEN 1 ELSE m : m \in Current.marks} IN
       buf' = Append(buf, [Current EXCEPT !.marks = named])
    /\ keys' = <<1>>
    /\ Goto("done")
    /\ UNCHANGED <<saved, run, reformatted>>

Next ==
    \/ CompactRows \/ Detect
    \/ ReformatSkipped \/ ReformatAccepted \/ ReformatsEnd
    \/ OffloadGatedOut \/ OffloadDeclined \/ OffloadDiscarded \/ OffloadAccepted
    \/ PipelineEnds
    \/ NothingLost \/ Reinject \/ ReturnInput
    \/ KeepUnchanged \/ KeepOriginal

Spec == Init /\ [][Next]_vars

-----------------------------------------------------------------------------
(* Properties                                                                    *)

Text == [size : 1..MaxSize, shown : SUBSET Facts, told : SUBSET Facts, marks : SUBSET Nat]

(* A marker names a text that came before, and a key a text that was offloaded.  *)
TypeOK ==
    /\ buf \in Seq(Text) /\ buf # <<>>
    /\ \A v \in DOMAIN buf : buf[v].marks \subseteq 1..(v - 1)
    /\ store \subseteq DOMAIN buf
    /\ keys \in Seq(DOMAIN buf) /\ Len(keys) < Len(buf)
    /\ saved \in Nat
    /\ type \in Types /\ caller \in {"library", "compress", "exec"}
    /\ scores \in [DOMAIN Offloads[type] -> {"none", "low", "high"}]
    /\ pc \in {"start", "reformat", "offload", "reinject", "keep", "done"}
    /\ turn \in Nat \ {0}
    /\ reformatted \in DOMAIN buf
    /\ dropped \in BOOLEAN

Done == pc = "done"

(* However many steps were accepted, thrown away, re-injected or undone, the     *)
(* saving reported is the difference of the sizes: no step that gained is kept.  *)
SavingIsExact == Done => Content.size = Current.size + saved

(* The comment of compress_text_with_metrics: the first key of the command line  *)
(* must always give back the exact input, even when only a reformat was applied; *)
(* and so must every marker in the output.                                       *)
FirstKeyIsInput ==
    Done /\ caller # "library" /\ Current # Content =>
        /\ keys = <<1>> /\ Current.marks \subseteq {1}
        /\ dropped \/ 1 \in store

(* What a text tells together with what its markers give back, in turn.          *)
Recovered[v \in DOMAIN buf] ==
    Tells(buf[v]) \cup UNION {Recovered[m] : m \in buf[v].marks \cap store}

(* "no transform in this pipeline destroys information" (traits.rs 5): along the *)
(* markers of several offloads, each of which stored what the one before it left *)
(* and may have dropped its marker, everything the input told comes back.        *)
(* source_compressor is left out: MarkersResolve is about it.                    *)
InformationKept ==
    Done /\ ~dropped /\ "source_compressor" \notin Range(Reformats[type]) =>
        Tells(Content) \subseteq Recovered[Len(buf)]

(* The compressed text shows every failure line of the input, or tells all that  *)
(* the input told (a table of rows, which is not inspected).                     *)
FailuresShown ==
    Done /\ caller = "compress" =>
        \/ Content.shown \cap Failures \subseteq Current.shown
        \/ Tells(Current) = Tells(Content)

(* traits.rs 5-8: the original payload is stashed under a hash and any dropped   *)
(* piece can be retrieved: what a marker of the output names is in the store.    *)
(* It does not hold of the library: SourceCompressor writes markers and has no   *)
(* store (README, 6).                                                            *)
MarkersResolve == Done /\ ~dropped => Current.marks \subseteq store

(* What a report may be at any step: well formed, with no key of an offload that *)
(* was thrown away, and in the end with the first key that gives the input back. *)
ReportInv == TypeOK /\ FirstKeyIsInput
===============================================================================
