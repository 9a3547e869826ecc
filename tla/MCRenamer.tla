------------------------------ MODULE MCRenamer ------------------------------
(* Instances of Renamer for TLC.                                             *)
EXTENDS Renamer

CONSTANTS d, e,           \* directories
          a, b, c, ini    \* names

(* Everything that a rule may do to a, b and ini; c is only a new name.      *)
AllRules == {f \in [Names -> Names \cup {NoMatch, BadTarget}] : f[c] = NoMatch}

In(f, s) == [i \in 1 .. Len(s) |-> <<f, s[i]>>]

(* Orders and repetitions of the files of one directory, the config file     *)
(* passed once, twice or not at all, and two directories with files of the   *)
(* same names.                                                               *)
FewLists == {In(d, <<a, ini, b>>), In(d, <<a, b, a, ini>>), In(d, <<b>>)}
Lists    == {In(d, <<ini, a, b, ini>>), In(d, <<a, b, a, ini, b>>),
             In(d, <<ini, a, b>>) \o In(e, <<b, a>>),
             In(d, <<b, a>>) \o In(e, <<a>>) \o In(d, <<b, ini, a>>)}
=============================================================================
