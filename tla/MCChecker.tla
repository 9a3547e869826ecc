------------------------------ MODULE MCChecker ------------------------------
(* Instances of Checker for TLC.  Word 3 is "remote": two addresses come     *)
(* before it in the order of strings, and two after it.                      *)
EXTENDS Checker

MCWords   == 1 .. 5
MCPeriods == {-1, 0, 1, 2, 3}

(* Three servers in one file, files that share servers, a file that names    *)
(* none, and a text in which the word "remote" is itself an argument.        *)
MCTexts   == {<<3, 1, 3, 2, 3, 5>>, <<3, 4, 2, 3, 1>>, <<4, 5>>, <<3, 3, 2, 3>>}
TwoFiles  == <<TRUE, TRUE>>
WithOther == <<TRUE, FALSE, TRUE>>
=============================================================================
