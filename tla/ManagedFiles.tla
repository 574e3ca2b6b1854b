----------------------------- MODULE ManagedFiles -----------------------------
(***************************************************************************)
(* The files of other programs that lm-resizer edits, and its own list of  *)
(* trusted filters: each command reads a file whole, makes a new text of   *)
(* it and writes that in place (std::fs::write: truncate, then write).     *)
(* Several commands may be at it, and the file's owner edits it as well.   *)
(*                                                                         *)
(* A behaviour is about one file of one kind.  Its text is a sequence of   *)
(* tokens: the owner's, ours, and the delimiters of its syntax.            *)
(***************************************************************************)
EXTENDS Naturals, Sequences, FiniteSets, SequencesExt

CONSTANTS
    Processes,  \* the lm-resizer commands that run
    MaxEdits,   \* bound of the commands begun
    MaxChanges  \* bound of what the owner does

ASSUME ManagedAssumption == MaxEdits \in Nat /\ MaxChanges \in Nat

VARIABLES
    kind,       \* which file
    there,      \* whether it exists
    text,       \* its text
    pc,         \* where each command is
    command,    \* what it does
    plan,       \* the text it has made
    stale,      \* history: the file has changed since it read it
    filter,     \* the contents of the project filters, by path
    read,       \* the contents a command has read
    applied,    \* history: the filters applied, as records of trust, and whether
                \* the user's environment asked for all of them
    decided,    \* history: those ever trusted
    edits, changes,
    said,       \* history: what the file should say
    clean       \* history: no command has overwritten what it had not read,
                \* and none has stopped with the file open

vars == <<kind, there, text, pc, command, plan, stale, filter, read, applied, decided, edits, changes, said, clean>>

(* trusted-filters.json; AGENTS.md; .mcp.json; Codex' config.toml; the     *)
(* native hook file of an agent.                                           *)
Kinds == {"filters", "notes", "mcp", "codex", "native"}

Paths    == {"a", "b"}
Contents == {"good", "better", "bad"}

(* A record of trust, and those a path may have.                           *)
Trusted(path, contents) ==
    CASE path = "a" -> [good |-> "a is good", better |-> "a is better", bad |-> "a is bad"][contents]
      [] path = "b" -> [good |-> "b is good", better |-> "b is better", bad |-> "b is bad"][contents]

TrustedAt(path) == {Trusted(path, c) : c \in Contents}

(* A text without some of its tokens; where a token is found first, or 0.  *)
Without(s, tokens) ==
    LET kept[i \in 0..Len(s)] ==
            IF i = 0 THEN <<>>
            ELSE IF s[i] \in tokens THEN kept[i - 1] ELSE Append(kept[i - 1], s[i])
    IN  kept[Len(s)]

First(s, t) ==
    LET found == {i \in DOMAIN s : s[i] = t}
    IN  IF found = {} THEN 0 ELSE Min(found)

-----------------------------------------------------------------------------
(* What each command makes of the text it has read.  An edit is the text   *)
(* to write, or that there is nothing to write, or an error.               *)
Write(t) == [do |-> "write", text |-> t]
Keep     == [do |-> "keep", text |-> <<>>]
Refuse   == [do |-> "refuse", text |-> <<>>]
Delete   == [do |-> "remove", text |-> <<>>]

(* A JSON text of the tokens between its brackets.                         *)
Json(items) == <<"{">> \o items \o <<"}">>

IsJson(t) ==
    /\ Len(t) >= 2 /\ t[1] = "{" /\ Last(t) = "}"
    /\ \A i \in 2..(Len(t) - 1) : t[i] \notin {"{", "}"}

Items(t) == SubSeq(t, 2, Len(t) - 1)

(* load_trusted_filter_records: a text that does not parse is no records.  *)
Records(t) == IF IsJson(t) THEN Items(t) ELSE <<>>

(* untrust_filter_file: whatever there was under the path goes.            *)
Untrust(t, path) == Write(Json(Without(Records(t), TrustedAt(path))))

(* trust_filter_file: one record for each path.                            *)
Trust(t, path, contents) ==
    Write(Json(Append(Without(Records(t), TrustedAt(path)), Trusted(path, contents))))

HookBlock  == <<"hooks:start", "hooks", "hooks:end">>
LearnBlock == <<"learn:start", "learn", "learn:end">>

(* The first start marker and the first end marker after it.               *)
BlockIn(t, block) ==
    LET start == First(t, block[1])
        end   == IF start = 0 THEN 0 ELSE First(SubSeq(t, start, Len(t)), Last(block))
    IN  IF end = 0 THEN <<>> ELSE <<start, start + end - 1>>

(* strip_block_between: without both markers the text stays.               *)
Stripped(t, block) ==
    LET at == BlockIn(t, block)
    IN  IF at = <<>> THEN t ELSE SubSeq(t, 1, at[1] - 1) \o SubSeq(t, at[2] + 1, Len(t))

(* Mutant: the block is put at the end without looking for an earlier one. *)
UpsertAtEnd(t) == Write(t \o HookBlock)

(* upsert_marked_block: in place, or at the end.                           *)
Upsert(t) ==
    LET at == BlockIn(t, HookBlock)
    IN  Write(IF at = <<>> THEN t \o HookBlock
              ELSE SubSeq(t, 1, at[1] - 1) \o HookBlock \o SubSeq(t, at[2] + 1, Len(t)))

(* upsert_learning_block: always moved to the end.                         *)
UpsertLearning(t) == Write(Stripped(t, LearnBlock) \o LearnBlock)

(* remove_marked_block: the file stays, be it empty.                       *)
RemoveMarked(exists, t) ==
    IF exists /\ Stripped(t, HookBlock) # t THEN Write(Stripped(t, HookBlock)) ELSE Keep

(* install_json_mcp: a text that is not JSON is an error, and stays.       *)
InstallJson(exists, t) ==
    IF exists /\ ~IsJson(t) THEN Refuse
    ELSE Write(Json(Append(IF exists THEN Without(Items(t), {"ours"}) ELSE <<>>, "ours")))

(* uninstall_json_mcp: the last entry takes the file with it.              *)
UninstallJson(exists, t) ==
    IF ~exists THEN Keep
    ELSE IF ~IsJson(t) THEN Refuse
    ELSE IF "ours" \notin Range(Items(t)) THEN Keep
    ELSE IF Without(Items(t), {"ours"}) = <<>> THEN Delete
    ELSE Write(Json(Without(Items(t), {"ours"})))

(* The lines of config.toml: a header, one with a comment after it, and    *)
(* keys.                                                                   *)
Headers == {"[ours]", "[theirs]", "[theirs] #"}

(* A header line is known by its last character.                           *)
EndsOurs(line) == line \in Headers \ {"[theirs] #"}

LinesAt(t, indices) ==
    LET kept == Without([i \in DOMAIN t |-> i], DOMAIN t \ indices)
    IN  [i \in DOMAIN kept |-> t[kept[i]]]

(* remove_toml_table: the lines from our header to the next known one.     *)
WithoutTable(t) ==
    LET inside(i) == \E h \in 1..i : t[h] = "[ours]" /\ \A j \in (h + 1)..i : ~EndsOurs(t[j])
    IN  LinesAt(t, {i \in DOMAIN t : ~inside(i)})

InstallCodex(t) == Write(WithoutTable(t) \o <<"[ours]", "our key">>)

UninstallCodex(exists, t) ==
    IF ~exists \/ First(t, "[ours]") = 0 THEN Keep
    ELSE IF WithoutTable(t) = <<>> THEN Delete
    ELSE Write(WithoutTable(t))

(* The generated hook file, for this binary and for another.               *)
Generated      == <<"hook", "config">>
GeneratedOther == <<"hook", "other config">>

(* write_managed_text_file: a text of somebody else's is kept, unless      *)
(* --force.                                                                *)
WriteManaged(exists, t, force) ==
    IF exists /\ t = Generated THEN Keep
    ELSE IF exists /\ ~force THEN Refuse
    ELSE Write(Generated)

(* uninstall_native_hook_files: only what lm-resizer generated goes.       *)
UninstallNative(exists, t) == IF exists /\ t \in {Generated, GeneratedOther} THEN Delete ELSE Keep

Commands ==
    CASE kind = "filters" -> {<<"trust", p>> : p \in Paths} \cup {<<"untrust", p>> : p \in Paths}
                                \cup {<<"exec", p>> : p \in Paths}
      [] kind = "notes"   -> {<<"install">>, <<"uninstall">>, <<"learn">>}
      [] kind = "mcp"     -> {<<"install">>, <<"uninstall">>}
      [] kind = "codex"   -> {<<"install">>, <<"uninstall">>}
      [] kind = "native"  -> {<<"install">>, <<"force">>, <<"uninstall">>}

(* The command c, which has read the file (and a filter's contents).       *)
Edit(c, exists, t, contents) ==
    CASE kind = "filters" /\ c[1] = "trust"    -> Trust(t, c[2], contents)
      [] kind = "filters" /\ c[1] = "untrust"  -> Untrust(t, c[2])
      [] kind = "filters" /\ c[1] = "exec"     -> Keep
      [] kind = "notes" /\ c[1] = "install"    -> Upsert(t)
      [] kind = "notes" /\ c[1] = "learn"      -> UpsertLearning(t)
      [] kind = "notes" /\ c[1] = "uninstall"  -> RemoveMarked(exists, t)
      [] kind = "mcp" /\ c[1] = "install"      -> InstallJson(exists, t)
      [] kind = "mcp" /\ c[1] = "uninstall"    -> UninstallJson(exists, t)
      [] kind = "codex" /\ c[1] = "install"    -> InstallCodex(t)
      [] kind = "codex" /\ c[1] = "uninstall"  -> UninstallCodex(exists, t)
      [] kind = "native" /\ c[1] = "uninstall" -> UninstallNative(exists, t)
      [] kind = "native" /\ c[1] # "uninstall" -> WriteManaged(exists, t, c[1] = "force")

-----------------------------------------------------------------------------
(* What a text says, and what each command is for: the reference against   *)
(* which the edits above are checked.                                      *)

Ours == {"hooks", "learn", "ours", "our key", "[ours]", "config", "other config"}

Syntax == {"{", "}", "hook", "hooks:start", "hooks:end", "learn:start", "learn:end"}

OwnersPart(t) == Without(t, Ours \cup Syntax)

OurParts(t) == {x \in Range(t) : x \in Ours}

Twice(t) == \E i, j \in DOMAIN t : i < j /\ t[i] = t[j] /\ t[i] \in Ours

Meaning(exists, t) ==
    IF kind = "filters" THEN [records |-> Range(Records(t))]
    ELSE [owner |-> OwnersPart(t), ours |-> OurParts(t)]

(* The owner's tables that a comment in their header hides: the lines from *)
(* such a header on, when it comes after our table and no other header     *)
(* between them.                                                           *)
Hidden(t) ==
    IF kind = "codex" /\ First(t, "[ours]") # 0
    THEN {i \in DOMAIN t :
            /\ i > First(t, "[ours]") + 1
            /\ ~\E j \in (First(t, "[ours]") + 1)..i : t[j] = "[theirs]"}
    ELSE {}

Visible(t) == OwnersPart(LinesAt(t, DOMAIN t \ Hidden(t)))

(* What the file should say once c has run on it.                          *)
Intended(c, t, contents) ==
    IF kind = "filters"
    THEN LET others == said.records \ TrustedAt(c[2]) IN
         [records |-> IF c[1] = "trust" THEN others \cup {Trusted(c[2], contents)} ELSE others]
    ELSE IF c[1] = "force" THEN [owner |-> <<>>, ours |-> {"config"}]
    ELSE [owner |-> Visible(t),
          ours  |-> IF c[1] = "install" THEN
                        CASE kind = "notes"  -> said.ours \cup {"hooks"}
                          [] kind = "mcp"    -> {"ours"}
                          [] kind = "codex"  -> {"[ours]", "our key"}
                          [] kind = "native" -> {"config"}
                    ELSE IF c[1] = "learn" THEN said.ours \cup {"learn"}
                    ELSE said.ours \ {"hooks", "ours", "[ours]", "our key", "config", "other config"}]

-----------------------------------------------------------------------------

(* The texts a file may have when lm-resizer first meets it.               *)
FirstTexts ==
    CASE kind = "filters" -> {Json(<<>>), Json(<<Trusted("a", "good")>>)}
      [] kind = "notes"   -> {<<"intro">>, <<"intro">> \o HookBlock \o <<"more">>}
      [] kind = "mcp"     -> {Json(<<>>), Json(<<"mine">>), <<"not json">>}
      [] kind = "codex"   -> {<<"key">>, <<"[ours]", "our key", "[theirs]", "key">>,
                              <<"[ours]", "our key", "[theirs] #", "key", "[theirs]", "key">>}
      [] kind = "native"  -> {Generated, GeneratedOther, <<"mine">>}

NoPlan == [do |-> "none", text |-> <<>>]

Init ==
    /\ kind \in Kinds
    /\ \/ there = FALSE /\ text = <<>>
       \/ there = TRUE /\ text \in FirstTexts
    /\ pc = [p \in Processes |-> "idle"]
    /\ command = [p \in Processes |-> <<>>]
    /\ plan = [p \in Processes |-> NoPlan]
    /\ stale = [p \in Processes |-> FALSE]
    /\ filter = [path \in Paths |-> "good"]
    /\ read = [p \in Processes |-> ""]
    /\ applied = {}
    /\ decided = IF kind = "filters" THEN Range(Records(text)) ELSE {}
    /\ edits = 0 /\ changes = 0
    /\ said = Meaning(there, text)
    /\ clean = TRUE

Changed(p) == stale' = [q \in Processes |-> q # p]

Idle(p) ==
    /\ command' = [command EXCEPT ![p] = <<>>]
    /\ plan' = [plan EXCEPT ![p] = NoPlan]
    /\ read' = [read EXCEPT ![p] = ""]

Ends(p) == pc' = [pc EXCEPT ![p] = "idle"] /\ Idle(p)

(* The name goes to another file or to none: whoever has this one open     *)
(* writes into nothing.                                                    *)
Detached == [q \in Processes |-> IF pc[q] = "open" THEN "detached" ELSE pc[q]]

(* A command begins.  Those about a filter first read its contents.        *)
Begins(p) ==
    /\ pc[p] = "idle" /\ edits < MaxEdits
    /\ edits' = edits + 1
    /\ \E c \in Commands :
        /\ command' = [command EXCEPT ![p] = c]
        /\ IF c[1] \in {"trust", "exec"}
           THEN /\ pc' = [pc EXCEPT ![p] = IF c[1] = "trust" THEN "verify" ELSE "read"]
                /\ read' = [read EXCEPT ![p] = filter[c[2]]]
           ELSE pc' = [pc EXCEPT ![p] = "read"] /\ UNCHANGED read
    /\ UNCHANGED <<kind, there, text, plan, stale, filter, applied, decided, changes, said, clean>>

(* verify_filter_file reads the filter again, and runs its tests.          *)
Verifies(p) ==
    /\ pc[p] = "verify"
    /\ IF filter[command[p][2]] = "bad"
       THEN Ends(p)
       ELSE pc' = [pc EXCEPT ![p] = "read"] /\ UNCHANGED <<command, plan, read>>
    /\ UNCHANGED <<kind, there, text, stale, filter, applied, decided, edits, changes, said, clean>>

(* The file is read whole, and the new text made.                          *)
Reads(p) ==
    /\ pc[p] = "read" /\ command[p][1] # "exec"
    /\ LET edit == Edit(command[p], there, text, read[p]) IN
       IF edit.do \in {"keep", "refuse"}
       THEN Ends(p) /\ UNCHANGED stale
       ELSE /\ plan' = [plan EXCEPT ![p] = edit]
            /\ pc' = [pc EXCEPT ![p] = "made"]
            /\ stale' = [stale EXCEPT ![p] = FALSE]
            /\ UNCHANGED <<command, read>>
    /\ UNCHANGED <<kind, there, text, filter, applied, decided, edits, changes, said, clean>>

Applied(p, asked) == [what |-> Trusted(command[p][2], read[p]), asked |-> asked]

(* Mutant: the record is looked up by the path alone.                      *)
AppliesByPath(p) ==
    /\ pc[p] = "read" /\ command[p][1] = "exec"
    /\ \E asked \in BOOLEAN :
        applied' = IF asked \/ Range(Records(text)) \cap TrustedAt(command[p][2]) # {}
                   THEN applied \cup {Applied(p, asked)} ELSE applied
    /\ Ends(p)
    /\ UNCHANGED <<kind, there, text, stale, filter, decided, edits, changes, said, clean>>

(* exec: the contents read before apply if their hash is that of the       *)
(* record (project_filter_is_trusted), or without a look at the records    *)
(* when the command's environment has LM_RESIZER_TRUST_PROJECT_FILTERS=1.  *)
Applies(p) ==
    /\ pc[p] = "read" /\ command[p][1] = "exec"
    /\ \E asked \in BOOLEAN :
        applied' = IF asked \/ Trusted(command[p][2], read[p]) \in Range(Records(text))
                   THEN applied \cup {Applied(p, asked)} ELSE applied
    /\ Ends(p)
    /\ UNCHANGED <<kind, there, text, stale, filter, decided, edits, changes, said, clean>>

(* File::create: the text is gone, and another's write may be under way.   *)
Opens(p) ==
    /\ pc[p] = "made" /\ plan[p].do = "write"
    /\ there' = TRUE /\ text' = <<>>
    /\ pc' = [pc EXCEPT ![p] = "open"]
    /\ clean' = (clean /\ ~stale[p] /\ \A q \in Processes : pc[q] # "open")
    /\ said' = Intended(command[p], text, read[p])
    /\ decided' = IF command[p][1] = "trust" THEN decided \cup {Trusted(command[p][2], read[p])} ELSE decided
    /\ Changed(p)
    /\ UNCHANGED <<kind, command, plan, filter, read, applied, edits, changes>>

(* The bytes go to the start of the file, over what another has written.   *)
Over(old, new) == new \o SubSeq(old, Len(new) + 1, Len(old))

Writes(p) ==
    /\ \/ /\ pc[p] = "open"
          /\ text' = Over(text, plan[p].text)
          /\ Changed(p)
       \/ /\ pc[p] = "detached"
          /\ UNCHANGED <<text, stale>>
    /\ Ends(p)
    /\ UNCHANGED <<kind, there, filter, applied, decided, edits, changes, said, clean>>

(* A full disk: a part is written.                                         *)
WriteFails(p) ==
    /\ pc[p] = "open"
    /\ \E n \in 0..(Len(plan[p].text) - 1) : text' = Over(text, SubSeq(plan[p].text, 1, n))
    /\ clean' = FALSE
    /\ Changed(p) /\ Ends(p)
    /\ UNCHANGED <<kind, there, filter, applied, decided, edits, changes, said>>

Removes(p) ==
    /\ pc[p] = "made" /\ plan[p].do = "remove"
    /\ there' = FALSE /\ text' = <<>>
    /\ clean' = (clean /\ ~stale[p])
    /\ said' = Intended(command[p], text, read[p])
    /\ pc' = [Detached EXCEPT ![p] = "idle"] /\ Idle(p)
    /\ Changed(p)
    /\ UNCHANGED <<kind, filter, applied, decided, edits, changes>>

(* The command is killed.                                                  *)
Killed(p) ==
    /\ pc[p] # "idle"
    /\ clean' = (clean /\ pc[p] # "open")
    /\ Ends(p)
    /\ UNCHANGED <<kind, there, text, stale, filter, applied, decided, edits, changes, said>>

(* The owner adds to the file, which the editor replaces whole, or edits   *)
(* the project's filter.                                                   *)
OwnerWrites ==
    /\ kind \in {"notes", "mcp", "codex"} /\ there /\ changes < MaxChanges
    /\ kind = "mcp" => IsJson(text)
    /\ text' = IF kind = "mcp" THEN Json(Append(Items(text), "added")) ELSE Append(text, "added")
    /\ said' = [said EXCEPT !.owner = Append(@, "added")]
    /\ clean' = (clean /\ \A q \in Processes : pc[q] # "open")
    /\ pc' = Detached
    /\ changes' = changes + 1
    /\ stale' = [q \in Processes |-> TRUE]
    /\ UNCHANGED <<kind, there, command, plan, filter, read, applied, decided, edits>>

OwnerEditsFilter ==
    /\ kind = "filters" /\ changes < MaxChanges
    /\ \E c \in Contents : filter["a"] # c /\ filter' = [filter EXCEPT !["a"] = c]
    /\ changes' = changes + 1
    /\ UNCHANGED <<kind, there, text, pc, command, plan, stale, read, applied, decided, edits, said, clean>>

Rest == (\A p \in Processes : pc[p] = "idle") /\ edits = MaxEdits /\ UNCHANGED vars

Next ==
    \/ \E p \in Processes :
        \/ Begins(p) \/ Verifies(p) \/ Reads(p) \/ Applies(p)
        \/ Opens(p) \/ Writes(p) \/ WriteFails(p) \/ Removes(p) \/ Killed(p)
    \/ OwnerWrites \/ OwnerEditsFilter
    \/ Rest

Spec == Init /\ [][Next]_vars

-----------------------------------------------------------------------------
(* Properties.                                                             *)

AllTrusted == UNION {TrustedAt(p) : p \in Paths}

Tokens == Ours \cup Syntax \cup {"added", "intro", "more", "mine", "not json", "key", "[theirs]", "[theirs] #"}
            \cup AllTrusted

TypeOK ==
    /\ kind \in Kinds /\ there \in BOOLEAN /\ clean \in BOOLEAN
    /\ Range(text) \subseteq Tokens /\ (there \/ text = <<>>)
    /\ pc \in [Processes -> {"idle", "verify", "read", "made", "open", "detached"}]
    /\ \A p \in Processes :
        /\ plan[p].do \in {"none", "write", "remove"} /\ Range(plan[p].text) \subseteq Tokens
        /\ pc[p] # "idle" => command[p] \in Commands
        /\ read[p] \in Contents \cup {""}
    /\ stale \in [Processes -> BOOLEAN]
    /\ edits \in 0..MaxEdits /\ changes \in 0..MaxChanges
    /\ applied \subseteq [what : AllTrusted, asked : BOOLEAN] /\ decided \subseteq AllTrusted

(* While no command overwrites a text it has not read, and none stops with *)
(* the file open, the file says what was asked for: everything its owner   *)
(* wrote, in order, ours once or not at all, the latest decision on every  *)
(* filter.  (The lines of a Codex table whose header bears a comment, next *)
(* after ours, go with our table, whatever the documentation of the        *)
(* removal says: main.rs 9579-9580.)                                       *)
SaysWhatWasAsked ==
    clean /\ (\A p \in Processes : pc[p] # "open") =>
        Meaning(there, text) = said /\ ~Twice(text)

(* A filter applies only with contents that somebody trusted under its     *)
(* path, however the file and the filter are edited meanwhile, and however *)
(* the list of records is cut, overwritten or mixed up; or in a command    *)
(* whose own environment asked for every project filter, which decides     *)
(* nothing for the commands after it.                                      *)
AppliedWasTrusted ==
    \A use \in applied : use.asked \/ use.what \in decided

(* Contents whose tests fail are trusted only if the owner put them in the *)
(* place of others, and those back, between the two reads of one command.  *)
VerifiedUnlessSwapped ==
    Trusted("a", "bad") \in decided => changes >= 2

(* The files and the commands at any step: what applies was trusted or     *)
(* asked for, and what was trusted passed its tests.                       *)
TrustInv == TypeOK /\ AppliedWasTrusted /\ VerifiedUnlessSwapped
===============================================================================
