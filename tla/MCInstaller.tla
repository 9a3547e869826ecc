----------------------------- MODULE MCInstaller -----------------------------
(* Instances of Installer for TLC.                                           *)
EXTENDS Installer

CONSTANTS c, d,         \* directories to install into
          slash,        \* c with a backslash behind it
          x, y          \* entries of other programs

MCSpelling == [f \in Dirs |-> IF f = c THEN {slash} ELSE {}]

(* The empty PATH, PATHs with and without a last semicolon or an empty entry *)
(* inside, and one that has the directory in another spelling.               *)
MCPaths == {<<>>, <<x>>, <<x, y, Empty>>, <<x, Empty, y>>, <<slash, x>>}
XYX     == {<<x, y, x>>}
=============================================================================
