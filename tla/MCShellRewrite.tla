---------------------------- MODULE MCShellRewrite ----------------------------
(* Lines with a substitution in them.                                            *)
EXTENDS ShellRewrite

MCPieces == {<<"x", " ">>, <<"grep", " ", "x">>, <<"$", "(">>, <<")">>, <<BQ>>, <<" ", ";", " ">>}
===============================================================================
