------------------------------ MODULE Template ------------------------------
(* The template language of the Renamer (src/stdlib/lib.cpp: string2re,      *)
(* re2string) with the config file that a run takes it from: when IniFile has*)
(* read the file, its pattern is turned into a regular expression, the name  *)
(* of a file is matched with it, and its target is filled in with what the   *)
(* variables of the pattern caught.  One action for each branch of the two   *)
(* loops over the characters.                                                *)
(*                                                                           *)
(* A regular expression is a sequence of tokens: a character, which stands   *)
(* for itself ('\' is put before what is not alphanumeric), or a group.      *)
EXTENDS IniFile, FiniteSets

CONSTANTS
    Letters, Digits, \* characters
    Dot,             \* '.', a character that is no letter and no digit
    FileNames        \* the names of files

Types    == {"string", "alpha", "digit", "float"}
Keywords == Types \cup {"Template", "pattern", "target", "Map."}
Plain    == (Chars \cup Special \cup {NewLine}) \ {Open, Close}
Regex    == [string |-> "([^<]+)", alpha |-> "([A-Za-z]+)",
             digit |-> "([0-9]+)", float |-> "([0-9]+[.][0-9]+)"]
Groups   == {Regex[type] : type \in Types}
Errors   == {"INVALID_VARIABLE_NAME", "MISSING_VARIABLE_BRACKETS",
             "DUPLICATE_VARIABLE_NAME", "INVALID_VARIABLE_TYPE"}

ASSUME TemplateAssumption ==
    /\ Keywords \subseteq Chars
    /\ Groups \cap (Chars \cup Special \cup {NewLine}) = {}
    /\ Letters \cup Digits \cup {Dot} \subseteq Plain
    /\ FileNames \subseteq Seq(Plain \ Keywords) \ {<<>>}

VARIABLES
    pattern, target,   \* what the config file has for them
    pc,        \* "config", "pattern", "match", "target", or how it ended
    i,         \* the next character of the template in turn
    invar,     \* behind an opening bracket
    varname,   \* the characters since then
    mp,        \* map<string,int>: variable -> number of its group
    cnt,       \* groups so far
    re,        \* the regular expression
    name,      \* the file's name
    match,     \* what the groups caught
    ans,       \* the new name
    code       \* the error code, or "none"

inputs  == <<iniVars, pattern, target>>
cursor  == <<i, invar, varname>>
regex   == <<mp, cnt, re>>
file    == <<name, match>>

vars == <<inputs, pc, cursor, regex, file, ans, code>>

-----------------------------------------------------------------------------
(* What the section of a variable says of its type, and of a text it caught. *)
SectionOf(v) == <<"Map.">> \o v
TypesOf(v)   == {type \in Types : GetIni(SectionOf(v), <<>>, <<>>) = <<type>>}
Replacement(v, w) == GetIni(SectionOf(v), w, w)

(* The texts that a token stands for.                                        *)
AllIn(w, S) == \A k \in 1 .. Len(w) : w[k] \in S
Fits(token, w) ==
    CASE token \in Plain -> w = <<token>>
      [] token = Regex.string  -> w # <<>>
      [] token = Regex.alpha   -> w # <<>> /\ AllIn(w, Letters)
      [] token = Regex.digit   -> w # <<>> /\ AllIn(w, Digits)
      [] token = Regex.float   -> \E k \in 2 .. Len(w) - 1 :
                                  /\ w[k] = Dot
                                  /\ \A j \in 1 .. Len(w) : j # k => w[j] \in Digits

(* The ways to cut a name into the texts of the tokens.  The search prefers  *)
(* the longest text for the first group, then for the second, and so on.     *)
Part(w, cut, t) == SubSeq(w, cut[t - 1] + 1, cut[t])
Cuts(r, w) ==
    {cut \in [0 .. Len(r) -> 0 .. Len(w)] :
        /\ cut[0] = 0 /\ cut[Len(r)] = Len(w)
        /\ \A t \in 1 .. Len(r) : Fits(r[t], Part(w, cut, t))}
Longer(c, d) == \E t \in DOMAIN c : c[t] > d[t] /\ \A u \in 0 .. t-1 : c[u] = d[u]
Greedy(cuts) == CHOOSE c \in cuts : \A d \in cuts : c = d \/ Longer(c, d)

(* The number of the token that is the k-th group.                           *)
Group(r, k) ==
    CHOOSE t \in 1 .. Len(r) :
        r[t] \in Groups /\ Cardinality({u \in 1 .. t : r[u] \in Groups}) = k

-----------------------------------------------------------------------------
Init ==
    /\ IniInit
    /\ pattern = <<>> /\ target = <<>>
    /\ pc = "config" /\ i = 1 /\ invar = FALSE /\ varname = <<>>
    /\ mp = <<>> /\ cnt = 0 /\ re = <<>>
    /\ name = <<>> /\ match = <<>> /\ ans = <<>> /\ code = "none"

(* Renamer's main: INIReader reads the file, then a negative error or a      *)
(* missing setting ends the run.                                             *)
ReadConfig ==
    /\ pc = "config" /\ IniNext
    /\ UNCHANGED <<pattern, target, pc, cursor, regex, file, ans, code>>

Pattern == GetIni(<<"Template">>, <<"pattern">>, <<>>)
Target  == GetIni(<<"Template">>, <<"target">>, <<>>)

NoConfig ==
    /\ pc = "config"
    /\ \/ reading = "failed"
       \/ reading = "read" /\ (Pattern = <<>> \/ Target = <<>>)
    /\ pc' = "noconfig"
    /\ UNCHANGED <<inputs, cursor, regex, file, ans, code>>

Configured ==
    /\ pc = "config" /\ reading = "read" /\ Pattern # <<>> /\ Target # <<>>
    /\ pattern' = Pattern /\ target' = Target
    /\ pc' = "pattern"
    /\ UNCHANGED <<iniVars, cursor, regex, file, ans, code>>

-----------------------------------------------------------------------------
Current == IF pc = "pattern" THEN pattern ELSE target
Reading == pc \in {"pattern", "target"} /\ i <= Len(Current)
Char    == Current[i]
Fail(e) == pc' = "error" /\ code' = e
Stay    == UNCHANGED <<inputs, regex, file, ans>>

(* The brackets, in either loop.                                             *)
OpensTwice ==
    /\ Reading /\ Char = Open /\ invar
    /\ Fail("INVALID_VARIABLE_NAME")
    /\ Stay /\ UNCHANGED cursor

(* Mutant: the last name is not cleared.                                     *)
Opens_Keeps ==
    /\ Reading /\ Char = Open /\ ~invar
    /\ invar' = TRUE /\ i' = i + 1
    /\ Stay /\ UNCHANGED <<pc, code, varname>>
Opens ==
    /\ Reading /\ Char = Open /\ ~invar
    /\ invar' = TRUE /\ varname' = <<>> /\ i' = i + 1
    /\ Stay /\ UNCHANGED <<pc, code>>

ClosesNothing ==
    /\ Reading /\ Char = Close /\ ~invar
    /\ Fail("MISSING_VARIABLE_BRACKETS")
    /\ Stay /\ UNCHANGED cursor

InName ==
    /\ Reading /\ Char \in Plain /\ invar
    /\ varname' = Append(varname, Char) /\ i' = i + 1
    /\ Stay /\ UNCHANGED <<pc, code, invar>>

Closes(where) == Reading /\ pc = where /\ Char = Close /\ invar
Leave == invar' = FALSE /\ i' = i + 1 /\ UNCHANGED <<pc, code, varname>>

-----------------------------------------------------------------------------
(* string2re.                                                                *)

Literal ==
    /\ Reading /\ pc = "pattern" /\ Char \in Plain /\ ~invar
    /\ re' = Append(re, Char) /\ i' = i + 1
    /\ UNCHANGED <<inputs, pc, code, invar, varname, mp, cnt, file, ans>>

WrongVariable ==
    /\ Closes("pattern")
    /\ \/ varname = <<>> /\ Fail("INVALID_VARIABLE_NAME")
       \/ varname # <<>> /\ varname \in DOMAIN mp /\ Fail("DUPLICATE_VARIABLE_NAME")
       \/ /\ varname # <<>> /\ varname \notin DOMAIN mp /\ TypesOf(varname) = {}
          /\ Fail("INVALID_VARIABLE_TYPE")
    /\ invar' = FALSE
    /\ Stay /\ UNCHANGED <<i, varname>>

Numbered(v, n) == [u \in DOMAIN mp \cup {v} |-> IF u = v THEN n ELSE mp[u]]

(* Mutants: the groups are counted from 0, or a variable may come again.     *)
Variable_FromZero ==
    /\ Closes("pattern")
    /\ varname # <<>> /\ varname \notin DOMAIN mp
    /\ \E type \in TypesOf(varname) : re' = Append(re, Regex[type])
    /\ cnt' = cnt + 1 /\ mp' = Numbered(varname, IF cnt = 0 THEN 1 ELSE cnt)
    /\ Leave
    /\ UNCHANGED <<inputs, file, ans>>
Variable_Again ==
    /\ Closes("pattern")
    /\ varname # <<>>
    /\ \E type \in TypesOf(varname) : re' = Append(re, Regex[type])
    /\ cnt' = cnt + 1 /\ mp' = Numbered(varname, cnt + 1)
    /\ Leave
    /\ UNCHANGED <<inputs, file, ans>>

Variable ==
    /\ Closes("pattern")
    /\ varname # <<>> /\ varname \notin DOMAIN mp
    /\ \E type \in TypesOf(varname) : re' = Append(re, Regex[type])
    /\ cnt' = cnt + 1 /\ mp' = Numbered(varname, cnt + 1)
    /\ Leave
    /\ UNCHANGED <<inputs, file, ans>>

(* The end of the pattern; a bracket that is still open is not looked at.    *)
PatternEnds ==
    /\ pc = "pattern" /\ i > Len(pattern)
    /\ pc' = "match"
    /\ UNCHANGED <<inputs, cursor, regex, file, ans, code>>

-----------------------------------------------------------------------------
(* regex_match.                                                              *)

NoMatch ==
    /\ pc = "match"
    /\ name' \in FileNames /\ Cuts(re, name') = {}
    /\ pc' = "skipped"
    /\ UNCHANGED <<inputs, cursor, regex, match, ans, code>>

Match ==
    /\ pc = "match"
    /\ name' \in FileNames /\ Cuts(re, name') # {}
    /\ LET cut == Greedy(Cuts(re, name'))
       IN  match' = [k \in 1 .. cnt |-> Part(name', cut, Group(re, k))]
    /\ pc' = "target" /\ i' = 1 /\ invar' = FALSE /\ varname' = <<>>
    /\ UNCHANGED <<inputs, regex, ans, code>>

-----------------------------------------------------------------------------
(* re2string.                                                                *)

TargetLiteral ==
    /\ Reading /\ pc = "target" /\ Char \in Plain /\ ~invar
    /\ ans' = Append(ans, Char) /\ i' = i + 1
    /\ UNCHANGED <<inputs, pc, code, invar, varname, regex, file>>

UnknownVariable ==
    /\ Closes("target") /\ varname \notin DOMAIN mp
    /\ Fail("INVALID_VARIABLE_NAME")
    /\ invar' = FALSE
    /\ Stay /\ UNCHANGED <<i, varname>>

Captured(v) == match[mp[v]]

(* Mutant: the values of the config file are not asked.                      *)
Substitute_Raw ==
    /\ Closes("target") /\ varname \in DOMAIN mp
    /\ ans' = ans \o Captured(varname)
    /\ Leave
    /\ UNCHANGED <<inputs, regex, file>>

Substitute ==
    /\ Closes("target") /\ varname \in DOMAIN mp
    /\ ans' = ans \o Replacement(varname, Captured(varname))
    /\ Leave
    /\ UNCHANGED <<inputs, regex, file>>

TargetEnds ==
    /\ pc = "target" /\ i > Len(target)
    /\ pc' = "renamed"
    /\ UNCHANGED <<inputs, cursor, regex, file, ans, code>>

Terminated == pc \in {"noconfig", "renamed", "skipped", "error"} /\ UNCHANGED vars

Next ==
    \/ ReadConfig \/ NoConfig \/ Configured
    \/ OpensTwice \/ Opens \/ ClosesNothing \/ InName
    \/ Literal \/ WrongVariable \/ Variable \/ PatternEnds
    \/ NoMatch \/ Match
    \/ TargetLiteral \/ UnknownVariable \/ Substitute \/ TargetEnds
    \/ Terminated

Spec == Init /\ [][Next]_vars

-----------------------------------------------------------------------------
(* The language without the loops: a template is good if its brackets take   *)
(* turns, the opening one first, and each pair has a good name between them. *)
(* The last bracket may be an opening one without its counterpart.           *)
Brackets(s) == {k \in 1 .. Len(s) : s[k] \in {Open, Close}}
Before(s, k) == {j \in Brackets(s) : j < k}
Partner(s, k) == CHOOSE j \in Before(s, k) : \A l \in Before(s, k) : l <= j
Between(s, k) == SubSeq(s, Partner(s, k) + 1, k - 1)
Named(s)      == {k \in 1 .. Len(s) : s[k] = Close}
TakeTurns(s) ==
    \A k \in Brackets(s) :
        IF Before(s, k) = {} THEN s[k] = Open ELSE s[k] # s[Partner(s, k)]

GoodPattern ==
    /\ TakeTurns(pattern)
    /\ \A k \in Named(pattern) :
          Between(pattern, k) # <<>> /\ TypesOf(Between(pattern, k)) # {}
    /\ \A k, l \in Named(pattern) : Between(pattern, k) = Between(pattern, l) => k = l

GoodTarget ==
    /\ TakeTurns(target)
    /\ \A k \in Named(target) :
          \E l \in Named(pattern) : Between(target, k) = Between(pattern, l)

(* A template with each of its variables replaced.                           *)
Filled(s, Instead(_)) ==
    FlattenSeq([k \in 1 .. Len(s) |->
        CASE s[k] = Close -> Instead(Between(s, k))
          [] s[k] = Open  -> <<>>
          [] OTHER -> IF Before(s, k) # {} /\ s[Partner(s, k)] = Open
                      THEN <<>> ELSE <<s[k]>>])

-----------------------------------------------------------------------------
TypeOK ==
    /\ IniTypeOK
    /\ pattern \in Texts /\ target \in Texts
    /\ pc \in {"config", "noconfig", "pattern", "match", "target", "renamed",
              "skipped", "error"}
    /\ i \in Nat \ {0} /\ invar \in BOOLEAN /\ varname \in Seq(Plain)
    /\ re \in Seq(Plain \cup Groups) /\ cnt = Cardinality(DOMAIN mp)
    /\ \A v \in DOMAIN mp : mp[v] \in 1 .. cnt
    /\ match \in Seq(Seq(Plain)) /\ ans \in Texts
    /\ code \in Errors \cup {"none"} /\ (pc = "error" <=> code # "none")

(* A name is worked out exactly when both templates are good, and an error   *)
(* is reported exactly when one of them is not (lib.cpp:119-214).  A bracket *)
(* that is still open at the end makes no template bad (lines 175, 213): its *)
(* text is dropped, and "Missing variable brackets" (226) is not reported.   *)
GoodOnesPass ==
    /\ pc \in {"match", "skipped", "target", "renamed"} => GoodPattern
    /\ pc = "renamed" => GoodTarget
    /\ pc = "error" => ~GoodPattern \/ ~GoodTarget

(* What the variables caught, put into the pattern in their places, gives    *)
(* the name of the file again, and each of them caught a text of its type,   *)
(* however many groups there are and whatever their order in the map.        *)
CapturesRestoreName ==
    pc \in {"target", "renamed"} =>
        /\ name = Filled(pattern, Captured)
        /\ \A v \in DOMAIN mp : \A type \in TypesOf(v) : Fits(Regex[type], Captured(v))

(* The new name is the target with each variable replaced by the text it     *)
(* caught, or by what the config file has for this text.                     *)
NewNameIsFilledTarget ==
    pc = "renamed" =>
        ans = Filled(target, LAMBDA v : Replacement(v, Captured(v)))

-----------------------------------------------------------------------------
(* "All keys,values and variables should be angle-bracketed and case         *)
(* sensitive" (Renamer/Help.txt.in:12): a text for which no line of the      *)
(* config file has a key of the same spelling stays as it is.                *)
Spelled(v, w) ==
    \E k \in Pairs : SectionAt(k) = SectionOf(v) /\ Name(k) = <<Open>> \o w \o <<Close>>
KeysAreCaseSensitive ==
    pc = "renamed" /\ Flat =>
        ans = Filled(target, LAMBDA v : IF Spelled(v, Captured(v))
                                        THEN Replacement(v, Captured(v))
                                        ELSE Captured(v))
=============================================================================
