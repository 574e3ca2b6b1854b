---------------------------- MODULE MCManagedFiles ----------------------------
(* An instance of ManagedFiles for TLC, and of ShellRewrite: lines of up to four *)
(* pieces, arrays of a program and an argument of up to three tokens.            *)
EXTENDS ManagedFiles, TLC

CONSTANTS p1, p2

TwoProcesses == {p1, p2}

Symmetric == Permutations(Processes)

-------------------------------------------------------------------------------
(* What an installed hook and rewrite-shell make of a line.  They read none of   *)
(* the files above: their answers are looked at before anything is edited.       *)
VARIABLES typed, request, reply

shell == <<typed, request, reply>>

DQ  == "double quote"
BSL == "backslash"

MCPieces ==
    {<<"grep", " ">>, <<"x">>, <<"vim">>, <<"head", " ", "x">>, <<"'">>, <<DQ>>, <<BSL>>,
     <<"newline">>, <<"|">>, <<"&">>, <<"&", "&">>, <<" ", ";", " ", "grep", " ">>, <<">">>,
     <<"*">>, <<"#">>}
MCArguments ==
    {<<<<p>>, w>> : p \in {"grep", "vim", "head", "x"},
                    w \in UNION {[1..n -> {"'", DQ, BSL, " ", "x", ";", ">"}] : n \in 0..3}}

Shell == INSTANCE ShellRewrite WITH
    Pieces <- MCPieces, MaxPieces <- 4, Arguments <- MCArguments, Viewed <- {"grep", "vim"}, Interactive <- {"vim"}

Quiet == typed = <<>> /\ request.by = "nobody"

FilesStep == Quiet /\ Next /\ UNCHANGED shell

Beginning == kind = "native" /\ ~there /\ edits = 0 /\ changes = 0
ShellStep == Beginning /\ Shell!Next /\ UNCHANGED vars

MCInit == Init /\ Shell!Init

MCSpec == MCInit /\ [][FilesStep \/ ShellStep]_<<vars, shell>>

(* See ShellRewrite.                                                             *)
LinesMeanTheSame == Shell!LinesMeanTheSame
===============================================================================
