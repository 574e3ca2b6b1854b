------------------------------- MODULE ExecView -------------------------------
(* What a command's output becomes before an agent sees it: the view its filter  *)
(* makes, the generic compression, the gates that undo them, the key and the tee *)
(* archive that give the rest back, and the line that says the command failed.   *)
(*                                                                               *)
(* Three paths (main.rs): run_inspected_command ("inspected", the default exec   *)
(* and observe), run_exec_command with --stream or --raw-on-failure              *)
(* ("separated"), and process_captured_output ("captured": pipe, tool-output,    *)
(* the MCP tool).  They run the same steps, each in an order of its own.         *)
(*                                                                               *)
(* A body is the lines of the raw output it shows, by their place, those it only *)
(* counts ("[repeat 2 more]" below a line), and its size in lines.  Lines of one *)
(* kind read the same, commits apart.  A body stands for its hash.  What a view  *)
(* or the pipeline makes of a text is any body it may.                           *)
EXTENDS Naturals, Sequences, FiniteSets

CONSTANTS
    Raws,      \* the outputs a command may produce
    Budgets    \* the line budgets of the filters

(* "fail" reports a failure, "verdict" one that names the command as failed,     *)
(* "why" is labelled or indented and so explains the failure it follows,         *)
(* "commit" is a hash with its subject, "stderr" the line between two streams.   *)
Kinds == {"fail", "verdict", "why", "info", "commit", "stderr"}

ASSUME ExecAssumption == Raws \subseteq Seq(Kinds) /\ Budgets \subseteq Nat

VARIABLES
    job,       \* the command, how it ended, and how lm-resizer was asked
    at,        \* the stage reached
    filter,    \* the family of the filter that was applied
    filtered,  \* the body it made
    output,    \* the text to be printed
    keys,      \* cache_keys
    ccr,       \* what the store holds
    tee,       \* what the tee archive holds
    announced  \* the lines a filter's markers say it left out

vars == <<job, at, filter, filtered, output, keys, ccr, tee, announced>>

Stages ==
    [inspected |-> <<"view", "git", "compress", "gate", "status", "archive", "done">>,
     separated |-> <<"view", "compress", "gate", "rekey", "git", "archive", "status", "done">>,
     captured  |-> <<"view", "compress", "gate", "nogain", "git", "rekey", "status", "archive", "done">>]
Stage == Stages[job.path][at]
Advance == at' = at + 1 /\ UNCHANGED job

(* Commands, by what filter_command_output_as recognises in them.                *)
Commands == {"runner", "script", "git", "tool", "lm-resizer", "json", "routed", "listing", "other"}

Jobs ==
    {j \in [path : DOMAIN Stages, command : Commands, raw : Raws, exit : {0, 1}, launched : BOOLEAN,
            mode : {"none", "raw", "summary"}, rawOnFailure : BOOLEAN,
            store : {"none", "ok", "failing"}, tee : BOOLEAN] :
        /\ ~j.launched => j.exit = 1 /\ j.raw = <<>> /\ j.path # "captured"
        /\ j.mode # "none" => j.path = "inspected" /\ j.store = "none"
        /\ j.rawOnFailure => j.path # "inspected"
        /\ j.path = "captured" => j.store # "none"}

Raw == job.raw
RawBody == [kept |-> DOMAIN Raw, repeats |-> {}, size |-> Len(Raw)]
Text(body) == [body |-> body, marks |-> {}, status |-> FALSE, note |-> FALSE, hint |-> FALSE]

Init ==
    /\ job \in Jobs
    /\ at = 1
    /\ filter = "" /\ filtered = RawBody /\ output = Text(RawBody)
    /\ keys = {} /\ ccr = {} /\ tee = {} /\ announced = 0

-----------------------------------------------------------------------------
(* Failure lines.                                                                *)

Signals == {"fail", "verdict"}
Count(S, kind) == Cardinality({i \in S : Raw[i] = kind})

(* A line that explains follows a failure line, with only such lines between.    *)
Explains(S, i) ==
    /\ Raw[i] = "why"
    /\ \E f \in S : /\ f < i /\ Raw[f] \in Signals
                    /\ \A k \in S : f < k /\ k < i => Raw[k] = "why"

Indispensable(S) == {i \in S : Raw[i] \in Signals \/ Explains(S, i)}

(* Mutant: a failure line is shown when one that reads the same is.              *)
LosesFailureOnce(before, after) ==
    \E kind \in Kinds :
        /\ \E i \in Indispensable(before.kept) : Raw[i] = kind
        /\ Count(after.kept, kind) = 0

(* As many copies of an indispensable line as there were must remain.            *)
LosesFailure(before, after) ==
    \E kind \in Kinds : Count(Indispensable(before.kept), kind) > Count(after.kept, kind)

LosesStreams(before, after) == Count(before.kept, "stderr") > 0 /\ Count(after.kept, "stderr") = 0

LosesIdentity(before, after) == Count(before.kept, "commit") > Count(after.kept, "commit")

(* A listing may lose no entry at all, whatever its lines say.                   *)
LosesEntry(before, after) ==
    \E i \in before.kept : ~ \E k \in after.kept : Raw[i] = Raw[k]

-----------------------------------------------------------------------------
(* The views.                                                                    *)

Bodies == {[kept |-> S, repeats |-> {}, size |-> n] : S \in SUBSET DOMAIN Raw, n \in 0..Len(Raw)}
Views == {b \in Bodies : Cardinality(b.kept) <= b.size /\ b.size <= Cardinality(b.kept) + 1}

(* keep_signal_within: the lines of the budget, taken from one end or from both, *)
(* and every failure line besides.                                               *)
Within(lines, budget, from) ==
    LET n == Len(lines)
        kept == CASE from = "tail"   -> 1..budget
                  [] from = "head"   -> (n - budget + 1)..n
                  [] from = "middle" -> 1..(budget \div 2) \cup (n - (budget - budget \div 2) + 1)..n
    IN  IF n <= budget THEN DOMAIN lines
        ELSE kept \cup {i \in DOMAIN lines : lines[i] \in Signals}

(* A run of lines left out is counted, and announced when a kept line ends it.   *)
Announce(run) ==
    IF run.skipped = 0 THEN run
    ELSE [skipped |-> 0, announced |-> run.announced + run.skipped, markers |-> run.markers + 1]

Scan(kept) ==
    LET run[i \in 0..Len(Raw)] ==
            IF i = 0 THEN [skipped |-> 0, announced |-> 0, markers |-> 0]
            ELSE IF i \in kept THEN Announce(run[i - 1])
            ELSE [run[i - 1] EXCEPT !.skipped = @ + 1]
    IN  run[Len(Raw)]

(* The run at the end is announced too.                                          *)
Omissions(kept) == Announce(Scan(kept))

(* guard_routed_output: a view of the tables that loses a failure line or the    *)
(* line between the streams, or that is no shorter, is given up for the raw.     *)
Guarded(view) ==
    IF \/ LosesStreams(RawBody, view)
       \/ LosesFailure(RawBody, view)
       \/ view.size >= RawBody.size
    THEN RawBody ELSE view

(* Output that is structured to the last line, of a command no native view is    *)
(* made for: a JSON document laid out anew, the runs of a log counted.  They are *)
(* named lossless, as the views that are the raw output are, and no guard is run *)
(* on any of these.                                                              *)
Structured == {"json-layout", "log-runs"}
Lossless == {"lossless"} \cup Structured

(* Views made for a command the code knows leave out what is theirs to decide.   *)
Filters ==
    CASE job.command = "runner"     -> {"native", "lossless", "routed", "toml"} \cup Structured
      [] job.command = "script"     -> {"lossless"}
      [] job.command = "git"        -> {"native", "git-passthrough"}
      [] job.command = "tool"       -> {"native"}
      [] job.command = "lm-resizer" -> {"native_owned"}
      [] job.command = "json"       -> {"json-passthrough"} \cup Structured
      [] job.command = "routed"     -> {"routed", "toml"} \cup Structured
      [] job.command = "listing"    -> {"listing"} \cup Structured
      [] job.command = "other"      -> Lossless

(* log_runs: of a run of equal lines the first is shown, the others are counted  *)
(* below it, and the whole is shorter than the raw.  Every line of a log has a   *)
(* level, but for the line that opens the output of the second stream alone.     *)
StartsRun(i) == i = 1 \/ Raw[i] = "commit" \/ Raw[i - 1] # Raw[i]
RunStarts == {i \in DOMAIN Raw : StartsRun(i)}

LogRuns ==
    {[kept |-> RunStarts, repeats |-> DOMAIN Raw \ RunStarts, size |-> n] :
        n \in {m \in Cardinality(RunStarts)..(Len(Raw) - 1) :
                  \A i \in DOMAIN Raw : Raw[i] = "stderr" => i = 1}}

(* What the lines of a document are in another layout is left open.              *)
ViewsOf(family) ==
    CASE family = "native" -> Views
      [] family = "json-layout" -> {b \in Views : b.size < Len(Raw)}
      [] family = "log-runs" -> LogRuns
      [] family \in {"lossless", "git-passthrough", "native_owned", "json-passthrough"} -> {RawBody}
      [] family \in {"routed", "listing"} -> {Guarded(v) : v \in Views}

(* With the streams apart, or captured, an empty view gives way to the raw.      *)
NotEmptied(body) == IF job.path # "inspected" /\ body.size = 0 THEN RawBody ELSE body

Shows(family, body) ==
    /\ filter' = family
    /\ filtered' = NotEmptied(body)
    /\ output' = Text(filtered')
    /\ Advance
    /\ UNCHANGED <<keys, ccr, tee>>

KeepsRaw == job.rawOnFailure /\ job.exit # 0
TestsPassed == job.command = "runner" /\ job.exit = 0

(* The command did not start: the view is the error that says so.                *)
ShowLaunchError ==
    /\ Stage = "view" /\ ~job.launched
    /\ Shows("launch-error", [kept |-> {}, repeats |-> {}, size |-> 1])
    /\ UNCHANGED announced

(* observe: the raw, or a summary of it that is shorter.                         *)
Observe ==
    /\ Stage = "view" /\ job.launched /\ job.mode # "none"
    /\ \E b \in Views : /\ b = RawBody \/ (job.mode = "summary" /\ b.size < RawBody.size)
                        /\ Shows("observe", b)
    /\ UNCHANGED announced

(* Asked for, or a test run that succeeded.                                      *)
ShowRaw ==
    /\ Stage = "view" /\ job.launched /\ job.mode = "none" /\ (KeepsRaw \/ TestsPassed)
    /\ Shows(IF KeepsRaw THEN "raw_on_failure" ELSE "lossless", RawBody)
    /\ UNCHANGED announced

FilterDue == Stage = "view" /\ job.launched /\ job.mode = "none" /\ ~KeepsRaw /\ ~TestsPassed

ShowFiltered ==
    /\ FilterDue
    /\ \E family \in Filters \ {"toml"} : \E b \in ViewsOf(family) : Shows(family, b)
    /\ UNCHANGED announced

(* A filter of the TOML files with a line budget, then the guard.                *)
ShowBudgeted ==
    /\ FilterDue /\ "toml" \in Filters
    /\ \E budget \in Budgets, from \in {"head", "middle", "tail"} :
           LET kept == Within(Raw, budget, from)
               view == [kept |-> kept, repeats |-> {},
                        size |-> Cardinality(kept) + Omissions(kept).markers]
           IN  /\ Shows("toml", Guarded(view))
               /\ announced' = IF Guarded(view) = view THEN Omissions(kept).announced ELSE 0

-----------------------------------------------------------------------------
(* The generic compression and its gates.                                        *)

(* A new text for the store: CcrStore::put tells nobody when it fails.           *)
Stored(body) == IF job.store = "ok" THEN ccr \cup {body} ELSE ccr

(* On the default path every view but that of a nested lm-resizer is native.     *)
Passthrough ==
    \/ job.store = "none"
    \/ IF job.path = "inspected" THEN filter # "native_owned"
       ELSE filter \in Lossless \cup {"native", "json-passthrough", "raw_on_failure", "launch-error"}

KeepView ==
    /\ Stage = "compress" /\ Passthrough
    /\ Advance
    /\ UNCHANGED <<filter, filtered, output, keys, ccr, tee, announced>>

(* compress_text_with_metrics, as Compression describes it: the text unchanged,  *)
(* or a shorter one whose markers name it and which is reported under its key.   *)
(* The default path asks that failure lines be put back, which a table of rows   *)
(* escapes.                                                                      *)
Compressed ==
    {[kept |-> S, repeats |-> {}, size |-> n] :
        S \in SUBSET filtered.kept, n \in 0..(filtered.size - 1)}

CompressView ==
    /\ Stage = "compress" /\ ~Passthrough
    /\ \/ UNCHANGED <<output, keys, ccr>>
       \/ \E b \in Compressed, marks \in {{}, {filtered}} :
              /\ Cardinality(b.kept) <= b.size
              /\ output' = [Text(b) EXCEPT !.marks = marks]
              /\ keys' = {filtered}
              /\ ccr' = Stored(filtered)
    /\ Advance
    /\ UNCHANGED <<filter, filtered, tee, announced>>

(* first_lost_indispensable_line; the default path asks for failure lines only.  *)
LosesIndispensable ==
    \/ LosesFailure(filtered, output.body)
    \/ job.path # "inspected" /\ LosesStreams(filtered, output.body)
    \/ job.path # "inspected" /\ filter = "listing" /\ LosesEntry(filtered, output.body)

(* Mutant: the generic step is undone and its key still reported.                *)
GateKeepingKeys ==
    /\ Stage = "gate"
    /\ IF LosesIndispensable THEN output' = Text(filtered) ELSE UNCHANGED output
    /\ Advance
    /\ UNCHANGED <<filter, filtered, keys, ccr, tee, announced>>

(* A generic step that lost such a line is undone, its key with it.              *)
Gate ==
    /\ Stage = "gate"
    /\ IF LosesIndispensable
       THEN output' = Text(filtered) /\ keys' = {}
       ELSE UNCHANGED <<output, keys>>
    /\ Advance
    /\ UNCHANGED <<filter, filtered, ccr, tee, announced>>

RawShown == output = Text(RawBody)

(* Captured output that is no shorter than the raw is the raw.                   *)
NoGain ==
    /\ Stage = "nogain"
    /\ IF filter # "native" /\ output.body.size >= RawBody.size
       THEN output' = Text(RawBody) /\ keys' = {}
       ELSE UNCHANGED <<output, keys>>
    /\ Advance
    /\ UNCHANGED <<filter, filtered, ccr, tee, announced>>

(* Mutant: the text is compared with the view, which may have lost a commit.     *)
GitGuardOnView ==
    /\ Stage = "git"
    /\ IF job.mode = "none" /\ LosesIdentity(filtered, output.body)
       THEN /\ output' = Text(RawBody) /\ keys' = {}
            /\ filter' = IF job.path = "inspected" THEN "git-identity-guard" ELSE filter
            /\ filtered' = IF job.path = "inspected" THEN RawBody ELSE filtered
       ELSE UNCHANGED <<filter, filtered, output, keys>>
    /\ Advance
    /\ UNCHANGED <<ccr, tee, announced>>

(* lost_git_identity: a hash or a subject missing from any view brings the raw   *)
(* back; not when a mode was asked for, nor when the raw was.                    *)
GitGuard ==
    /\ Stage = "git"
    /\ IF job.mode = "none" /\ LosesIdentity(RawBody, output.body)
       THEN /\ output' = Text(RawBody) /\ keys' = {}
            /\ filter' = IF job.path = "inspected" THEN "git-identity-guard" ELSE filter
            /\ filtered' = IF job.path = "inspected" THEN RawBody ELSE filtered
       ELSE UNCHANGED <<filter, filtered, output, keys>>
    /\ Advance
    /\ UNCHANGED <<ccr, tee, announced>>

(* The raw is stored under a key of its own, and what the pipeline's markers     *)
(* named is made to be that key: with the streams apart when something was       *)
(* compressed, captured when anything at all is left out.                        *)
Rekey ==
    /\ Stage = "rekey"
    /\ IF (IF job.path = "captured" THEN ~RawShown ELSE keys # {})
       THEN /\ ccr' = Stored(RawBody) /\ keys' = {RawBody}
            /\ output' = [output EXCEPT !.marks = {IF m \in keys THEN RawBody ELSE m : m \in @}]
       ELSE UNCHANGED <<output, keys, ccr>>
    /\ Advance
    /\ UNCHANGED <<filter, filtered, tee, announced>>

-----------------------------------------------------------------------------
(* The status, the archive and the hint.                                         *)

(* failure_verdict: the view already says that the command failed.               *)
Announced(text) == text.status \/ Count(text.body.kept, "verdict") > 0

(* Mutant: any failure line passes for the verdict.                              *)
AnnounceFailureUnlessSignal ==
    /\ Stage = "status"
    /\ LET signals == \E i \in output.body.kept : Raw[i] \in Signals
           due == job.exit # 0 /\ job.mode # "raw" /\ ~signals
       IN  output' = IF due THEN [output EXCEPT !.status = TRUE] ELSE output
    /\ Advance
    /\ UNCHANGED <<filter, filtered, keys, ccr, tee, announced>>

(* prepend_failure_status; --raw alone prints nothing of its own.                *)
AnnounceFailure ==
    /\ Stage = "status"
    /\ LET due == job.exit # 0 /\ job.mode # "raw" /\ ~Announced(output)
       IN  output' = IF due THEN [output EXCEPT !.status = TRUE] ELSE output
    /\ Advance
    /\ UNCHANGED <<filter, filtered, keys, ccr, tee, announced>>

Lines(text) == text.body.size + Cardinality(text.marks) +
               (IF text.status THEN 1 ELSE 0) + (IF text.note THEN 1 ELSE 0)

(* append_recovery_instruction: the hint is shown when, with it, the output is   *)
(* at most 70% of the raw.                                                       *)
Hinted(text) ==
    IF text # Text(RawBody) /\ 10 * (Lines(text) + 1) <= 7 * Len(Raw)
    THEN [text EXCEPT !.hint = TRUE] ELSE text

(* The note that the streams were captured apart.                                *)
Noted(text) ==
    IF job.path = "separated" /\ Count(DOMAIN Raw, "stderr") > 0
    THEN [text EXCEPT !.note = TRUE] ELSE text

(* exec archives whatever it ran; captured output only when it was changed.      *)
Archive ==
    /\ Stage = "archive"
    /\ IF job.tee /\ (job.path = "captured" => ~RawShown)
       THEN tee' = {RawBody} /\ output' = Hinted(Noted(output))
       ELSE output' = Noted(output) /\ UNCHANGED tee
    /\ Advance
    /\ UNCHANGED <<filter, filtered, keys, ccr, announced>>

Next ==
    \/ ShowLaunchError \/ Observe \/ ShowRaw \/ ShowFiltered \/ ShowBudgeted
    \/ KeepView \/ CompressView \/ Gate \/ NoGain \/ GitGuard \/ Rekey
    \/ AnnounceFailure \/ Archive

Spec == Init /\ [][Next]_vars

-----------------------------------------------------------------------------
(* Properties                                                                    *)

Done == Stage = "done"
Body == [kept : SUBSET (1..Len(Raw)), repeats : SUBSET (1..Len(Raw)), size : 0..(Len(Raw) + 1)]

TypeOK ==
    /\ job \in Jobs
    /\ at \in DOMAIN Stages[job.path]
    /\ filtered \in Body /\ output.body \in Body
    /\ \A k \in keys \cup ccr \cup tee \cup output.marks : k \in Body
    /\ output.note \in BOOLEAN /\ output.status \in BOOLEAN /\ output.hint \in BOOLEAN
    /\ announced \in 0..Len(Raw)

(* "promettraient une recuperation impossible" (main.rs 3301): whatever step was *)
(* undone, in whatever order the path runs them, a marker of the printed text is *)
(* a key of the report, a key gives back the raw output and nothing else, and no *)
(* key is reported, nor marker printed, without a store or with nothing left out.*)
KeysGiveTheRawBack ==
    Done => /\ output.marks \subseteq keys /\ keys \subseteq {RawBody}
            /\ job.store = "none" \/ output.body = RawBody => keys = {}
            /\ job.store = "ok" => keys \subseteq ccr

(* A line that reports a failure is printed as often as the command printed it,  *)
(* through the filter's view, the pipeline and every gate between, unless a view *)
(* made for the command, a JSON document laid out anew or a mode chose otherwise.*)
(* In a log of levelled lines, which no guard reads again, a run of it is printed*)
(* once, and each repeat is counted right below the line it repeats.             *)
FailuresShown ==
    Done /\ job.launched /\ filter \notin {"native", "json-layout", "observe"} =>
        LET body == output.body
        IN  /\ \A kind \in Signals :
                  Count(body.kept \cup body.repeats, kind) = Count(DOMAIN Raw, kind)
            /\ body.repeats # {} => filter = "log-runs"
            /\ \A i \in body.repeats : i - 1 \in body.kept \cup body.repeats /\ Raw[i - 1] = Raw[i]

(* Once the archive works, or the output was captured and the store works, what  *)
(* the printed text leaves out can be read again.                                *)
NothingOutOfReach ==
    Done /\ job.launched /\ output.body # RawBody =>
        /\ job.tee => RawBody \in tee
        /\ job.path = "captured" /\ job.store = "ok" => RawBody \in ccr \cap keys

(* A run of tests that passed, and a failure asked for raw, are printed whole.   *)
RawWhenAsked ==
    Done /\ job.launched /\ job.mode = "none" /\ (KeepsRaw \/ TestsPassed) =>
        output.body = RawBody /\ output.marks = {} /\ ~output.hint /\ keys = {}

(* lost_git_identity is the last guard of every output (command_views.rs 290):   *)
(* a commit printed by git is in the text, whatever came after the guard.  The   *)
(* default path compresses the output of a nested lm-resizer after it; there a   *)
(* commit may be left out, and the key reported gives it back.                   *)
CommitsShown ==
    Done /\ job.launched /\ job.mode = "none" /\ LosesIdentity(RawBody, output.body) =>
        job.path = "inspected" /\ filter = "native_owned" /\ keys = {RawBody}

(* A command that failed is said to have failed, by a status or by its own       *)
(* verdict that every later step left in place.                                  *)
FailureAnnounced == Done /\ job.exit # 0 /\ job.mode # "raw" => Announced(output)

(* What the markers of a line budget announce is what the budget left out.       *)
OmissionsAnnounced ==
    filter = "toml" /\ Stage = "compress" =>
        announced = Len(Raw) - Cardinality(filtered.kept)

(* The report at any step: well formed, and honest about what it leaves out and  *)
(* about how the command ended.                                                  *)
ViewInv == TypeOK /\ OmissionsAnnounced /\ FailureAnnounced

(* What is left out can be had: every marker and key gives the raw back, and the *)
(* archive or the store has it.                                                  *)
LeftOutIsKept == KeysGiveTheRawBack /\ NothingOutOfReach

(* What was promised whole is whole: a passed test run, a failure asked for raw, *)
(* every commit.                                                                 *)
PromisedIsShown == RawWhenAsked /\ CommitsShown
===============================================================================
