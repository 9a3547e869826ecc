---------------------------- MODULE MCCommandLine ----------------------------
(* Instances of CommandLine for TLC.                                         *)
EXTENDS CommandLine

CONSTANTS x, y, d        \* names: two files and a directory

MCPaths   == {"cwd", "sub"} \X {x, y} \cup {<<"root", x>>, <<"cwd", d>>}
MCFolders == {<<"cwd", d>>}
MCTooLong == {<<"sub", y>>}
MCDisks   == {MCFolders, MCPaths, MCFolders \cup {<<"cwd", x>>, <<"root", x>>}}

Patterns == ("*"     :> Pattern("cwd", NoDir, {x, y, d})
             @@ "x"     :> Pattern("cwd", NoDir, {x})
             @@ ".\\x"   :> Pattern("cwd", "cwd", {x})
             @@ "sub\\*" :> Pattern("sub", "sub", {x, y})
             @@ "\\*"    :> Pattern("root", NoDir, {x, y})
             @@ "sub/*" :> Pattern("sub", NoDir, {x, y}))

(* The characters of an argument that is a number, or looks like one.        *)
Numbers == ("5" :> <<5>>) @@ ("13" :> <<1, 3>>) @@ ("2.5.1" :> <<2, Point, 5, Point, 1>>)
           @@ ("." :> <<Point>>) @@ ("-1" :> <<Minus, 1>>) @@ ("" :> <<>>)
Opts    == ("/t" :> "t") @@ ("/w" :> "w") @@ ("/n" :> "n") @@ ("/c" :> "c")
           @@ ("/dry-run" :> "dry-run") @@ ("/x" :> "unknown") @@ ("/?" :> "help")

MCArgs      == DOMAIN Patterns \cup DOMAIN Numbers \cup DOMAIN Opts
MCOption    == [arg \in MCArgs |-> IF arg \in DOMAIN Opts THEN Opts[arg] ELSE "none"]
MCTexts     == [arg \in MCArgs |-> IF arg \in DOMAIN Numbers THEN Numbers[arg] ELSE <<Other>>]
MCPatternOf == [arg \in MCArgs |-> IF arg \in DOMAIN Patterns THEN Patterns[arg]
                                  ELSE Pattern("cwd", NoDir, {})]

-----------------------------------------------------------------------------
Calls(p, S, m) == {p} \X UNION {[1 .. k -> S] : k \in 0 .. m}

(* Two options of the Checker, one behind the other, with their values.      *)
Values == {<<v>> : v \in DOMAIN Numbers} \cup {<<"5", "2.5.1">>, <<"-1", "5">>, <<"13", "5">>}
Group  == {<<o>> \o v : o \in {"/t", "/w", "/n"}, v \in Values} \cup {<<"x">>, <<"/x">>}
Pairs  == {"Checker"} \X ({g \o h : g \in Group, h \in Group}
                          \cup {g \o <<"/t", "5">> \o h : g \in Group, h \in Group})

MCInputs ==
    Calls("Renamer", DOMAIN Patterns \cup {"/?", "/x"}, 2)
    \cup Calls("Auth", {"/c", "/dry-run", "/w", "/?", "x", "sub\\*"}, 4)
    \cup Calls("Checker", {"/t", "/w", "/n", "/c", "/dry-run", "x", "5", "2.5.1", "-1"}, 3)
    \cup Pairs
=============================================================================
