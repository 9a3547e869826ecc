------------------------------- MODULE IniFile -------------------------------
(* The config file of the Renamer as inih reads it (src/inih/ini.c with its  *)
(* default options, src/inih/cpp/INIReader.cpp): line by line into a map     *)
(* from section and name to value, of which get_ini (src/stdlib/lib.cpp)     *)
(* takes what stands in angle brackets.                                      *)
(*                                                                           *)
(* A line is the sequence of its characters, without the newline; a keyword  *)
(* such as "pattern" counts as one character. A newline at the end of the    *)
(* file is an empty last line, which is read as a comment.                   *)
EXTENDS Integers, Sequences, SequencesExt

CONSTANTS
    Open, Close,           \* '<' and '>'
    Left, Right,           \* '[' and ']'
    Equal, Colon,          \* '=' and ':'
    Blank, NewLine,
    Semicolon, Hash,
    Chars,                 \* all other characters and keywords
    Lower,                 \* character -> its lower case
    MaxLine,               \* the characters that fit into `line'
    MaxName,               \* ... into `section' and `prev_name'
    ConfigFiles            \* what the file may hold: sequences of lines

Special == {Open, Close, Left, Right, Equal, Colon, Blank, Semicolon, Hash}
Texts   == Seq(Chars \cup Special \cup {NewLine})

ASSUME IniFileAssumption ==
    /\ Chars \cap (Special \cup {NewLine}) = {}
    /\ IsInjective(<<Open, Close, Left, Right, Equal, Colon, Blank, Semicolon, Hash, NewLine>>)
    /\ Lower \in [Chars -> Chars]
    /\ MaxLine \in Nat \ {0} /\ MaxName \in Nat
    /\ ConfigFiles \subseteq Seq(Texts)

VARIABLES
    lines,      \* the file
    reading,    \* "open", "lines", "read", or "failed"
    lineno,     \* lines read so far
    section,    \* the section in force
    prev_name,  \* the name that an indented line continues
    values,     \* INIReader::_values: key -> value
    error       \* the first bad line, 0 for none, negative for no file

iniVars == <<lines, reading, lineno, section, prev_name, values, error>>

-----------------------------------------------------------------------------
(* Texts.                                                                    *)

Solid(s)    == {k \in 1 .. Len(s) : s[k] # Blank}
LSkip(s)    == IF Solid(s) = {} THEN <<>> ELSE SubSeq(s, Min(Solid(s)), Len(s))
RStrip(s)   == IF Solid(s) = {} THEN <<>> ELSE SubSeq(s, 1, Max(Solid(s)))
FirstOf(s, m) == SubSeq(s, 1, Min({m, Len(s)}))

(* The first of the characters, or of a comment behind a blank.              *)
Find_NoBlank(s, stops) ==      \* Mutant: a comment needs no blank before it
    Min({k \in 1 .. Len(s) : s[k] \in stops \cup {Semicolon}} \cup {Len(s) + 1})
Find(s, stops) ==
    Min({k \in 1 .. Len(s) : \/ s[k] \in stops
                             \/ k > 1 /\ s[k - 1] = Blank /\ s[k] = Semicolon}
        \cup {Len(s) + 1})
Upto(s, k)  == SubSeq(s, 1, k - 1)
Stops(s, S) == Find(s, S) <= Len(s) /\ s[Find(s, S)] \in S
Uncommented(s) == Upto(s, Find(s, {}))

(* The parts of a line.                                                      *)
Text(n)     == RStrip(LSkip(FirstOf(lines[n], MaxLine)))
Overlong(n) ==      \* a full buffer with a character or a newline behind it
    Len(lines[n]) > MaxLine \/ (Len(lines[n]) = MaxLine /\ n < Len(lines))
Indented(n) == lines[n] # <<>> /\ lines[n][1] = Blank
IsComment(n) == Text(n) # <<>> => Text(n)[1] \in {Semicolon, Hash}
IsHeader(n) == ~IsComment(n) /\ Text(n)[1] = Left
Closed(n)   == Stops(Tail(Text(n)), {Right})
Header(n)   == Upto(Tail(Text(n)), Find(Tail(Text(n)), {Right}))
IsPair(n)   == Stops(Text(n), {Equal, Colon})
Name(n)     == RStrip(Upto(Text(n), Find(Text(n), {Equal, Colon})))
Value(n)    ==
    LET s == Text(n)
    IN  RStrip(LSkip(Uncommented(SubSeq(s, Find(s, {Equal, Colon}) + 1, Len(s)))))

-----------------------------------------------------------------------------
(* INIReader: section and name are compared in lower case, and the values of *)
(* one key are joined.                                                       *)

Fold(s) == [k \in 1 .. Len(s) |-> IF s[k] \in Chars THEN Lower[s[k]] ELSE s[k]]
MakeKey(sec, name) == Fold(sec \o <<Equal>> \o name)

Get(sec, name, default) ==
    LET key == MakeKey(sec, name)
    IN  IF key \in DOMAIN values THEN values[key] ELSE default

Joined(old, value) == IF old = <<>> THEN value ELSE old \o <<NewLine>> \o value
ValueHandler(name, value) ==
    LET key == MakeKey(section, name)
    IN  values' = [k \in DOMAIN values \cup {key} |->
                      IF k = key THEN Joined(Get(section, name, <<>>), value)
                      ELSE values[k]]

(* get_ini.                                                                  *)
GetIni(sec, key, default) ==
    LET ans == Get(sec, <<Open>> \o key \o <<Close>>, default)
    IN  IF ans = <<>> \/ ans[1] # Open \/ Last(ans) # Close THEN default
        ELSE SubSeq(ans, 2, Len(ans) - 1)

-----------------------------------------------------------------------------
(* ini_parse.                                                                *)

IniInit ==
    /\ lines \in ConfigFiles
    /\ reading = "open" /\ lineno = 0 /\ section = <<>> /\ prev_name = <<>>
    /\ values = <<>> /\ error = 0

OpenFile ==
    /\ reading = "open"
    /\ reading' = "lines"
    /\ UNCHANGED <<lines, lineno, section, prev_name, values, error>>

(* fopen fails, or fgets before the end.                                     *)
ReadFails ==
    /\ reading \in {"open", "lines"}
    /\ reading' = "failed" /\ error' = IF reading = "open" THEN -1 ELSE -3
    /\ UNCHANGED <<lines, lineno, section, prev_name, values>>

(* The next line is read; what does not fit of it is thrown away.            *)
ReadLine ==
    /\ reading = "lines" /\ lineno < Len(lines)
    /\ lineno' = lineno + 1
    /\ UNCHANGED <<lines, reading>>
Note_Last(bad) ==      \* Mutant: the last bad line is reported
    error' = IF bad \/ Overlong(lineno + 1) THEN lineno + 1 ELSE error
Note(bad) ==
    error' = IF error = 0 /\ (bad \/ Overlong(lineno + 1)) THEN lineno + 1 ELSE error

Comment ==
    /\ ReadLine /\ IsComment(lineno + 1)
    /\ Note(FALSE)
    /\ UNCHANGED <<section, prev_name, values>>

Continues == prev_name # <<>> /\ Indented(lineno + 1) /\ ~IsComment(lineno + 1)

Continuation ==
    /\ ReadLine /\ Continues
    /\ ValueHandler(prev_name, RStrip(Uncommented(Text(lineno + 1))))
    /\ Note(FALSE)
    /\ UNCHANGED <<section, prev_name>>

Section_OnlyFirst ==      \* Mutant: a section holds on behind the next header
    /\ ReadLine /\ ~Continues /\ IsHeader(lineno + 1) /\ Closed(lineno + 1)
    /\ section' = IF section = <<>> THEN FirstOf(Header(lineno + 1), MaxName) ELSE section
    /\ prev_name' = <<>>
    /\ Note(FALSE)
    /\ UNCHANGED values
Section ==
    /\ ReadLine /\ ~Continues /\ IsHeader(lineno + 1) /\ Closed(lineno + 1)
    /\ section' = FirstOf(Header(lineno + 1), MaxName) /\ prev_name' = <<>>
    /\ Note(FALSE)
    /\ UNCHANGED values

Pair ==
    /\ ReadLine /\ ~Continues /\ IsPair(lineno + 1)
    /\ ~IsComment(lineno + 1) /\ ~IsHeader(lineno + 1)
    /\ ValueHandler(Name(lineno + 1), Value(lineno + 1))
    /\ prev_name' = FirstOf(Name(lineno + 1), MaxName)
    /\ Note(FALSE)
    /\ UNCHANGED section

(* A header without ']', or a line without '=' and ':'.                      *)
BadLine ==
    /\ ReadLine /\ ~Continues /\ ~IsComment(lineno + 1)
    /\ \/ IsHeader(lineno + 1) /\ ~Closed(lineno + 1)
       \/ ~IsHeader(lineno + 1) /\ ~IsPair(lineno + 1)
    /\ Note(TRUE)
    /\ UNCHANGED <<section, prev_name, values>>

EndOfFile ==
    /\ reading = "lines" /\ lineno = Len(lines)
    /\ reading' = "read"
    /\ UNCHANGED <<lines, lineno, section, prev_name, values, error>>

IniNext ==
    \/ OpenFile \/ ReadFails \/ Comment \/ Continuation \/ Section \/ Pair
    \/ BadLine \/ EndOfFile

IniSpec == IniInit /\ [][IniNext]_iniVars

-----------------------------------------------------------------------------
IniTypeOK ==
    /\ lines \in Seq(Texts) /\ reading \in {"open", "lines", "read", "failed"}
    /\ lineno \in 0 .. Len(lines)
    /\ section \in Texts /\ Len(section) <= MaxName
    /\ prev_name \in Texts /\ Len(prev_name) <= MaxName
    /\ DOMAIN values \subseteq Texts /\ \A k \in DOMAIN values : values[k] \in Texts
    /\ error \in {-3, -1} \cup 0 .. lineno

(* What a file means if no line of it is indented: a line stands in the      *)
(* section of the last header before it.                                     *)
AtEnd == reading = "lines" /\ lineno = Len(lines)
Flat  == \A n \in 1 .. Len(lines) : ~Indented(n)
SectionAt(n) ==
    LET headers == {m \in 1 .. n : IsHeader(m) /\ Closed(m)}
    IN  IF headers = {} THEN <<>> ELSE FirstOf(Header(Max(headers)), MaxName)
Counts(n) == ~IsComment(n) /\ ~IsHeader(n) /\ IsPair(n)
Pairs     == {n \in 1 .. lineno : Counts(n)}
KeyAt(n)  == MakeKey(SectionAt(n), Name(n))
Bad(n)    ==
    \/ Overlong(n)
    \/ ~IsComment(n) /\ IF IsHeader(n) THEN ~Closed(n) ELSE ~IsPair(n)

(* The values of a key's own lines, in their order.                          *)
Written(key) ==
    LET upto[n \in 0 .. Len(lines)] ==
            IF n = 0 THEN <<>>
            ELSE LET v == upto[n - 1]
                 IN  IF ~Counts(n) \/ KeyAt(n) # key THEN v
                     ELSE IF v = <<>> THEN Value(n)
                     ELSE v \o <<NewLine>> \o Value(n)
    IN  upto

(* However headers, comments, repeated keys, bad and overlong lines are mixed*)
(* in such a file, a key has the values of its own lines, in their order and *)
(* one behind the other, and no line of another key takes part in it.        *)
ReadAsWritten ==
    AtEnd /\ Flat =>
        /\ DOMAIN values = {KeyAt(n) : n \in Pairs}
        /\ \A key \in DOMAIN values : values[key] = Written(key)[lineno]

(* The error of a file without indented lines is its first bad line, and     *)
(* reading goes on behind it (ini.c:166-256): what is reported does not      *)
(* depend on what follows.                                                   *)
FirstErrorCounts ==
    reading = "lines" /\ Flat =>
        error = Min({n \in 1 .. lineno : Bad(n)} \cup {lineno + 1}) % (lineno + 1)

(* "Use <key> = <value> to configure replacement rules"                      *)
(* (Renamer/Help.txt.in:18).                                                 *)
Rule(key, value) ==
    <<Open>> \o key \o <<Close, Blank, Equal, Blank, Open>> \o value \o <<Close>>
Key(n, b)   == SubSeq(lines[n], 2, b)
Behind(n, b) == SubSeq(lines[n], b + 6, Len(lines[n]) - 1)
Splits(n)   == {b \in 1 .. MaxLine : b <= Len(lines[n]) - 6}

NoComment(s) == \A k \in 2 .. Len(s) : ~ (s[k - 1] = Blank /\ s[k] = Semicolon)
NoEqual(s)   == \A k \in 1 .. Len(s) : s[k] \notin {Equal, Colon}

(* Line n is the rule whose key ends at b, and no other line has that key.   *)
Bracketed(s) == <<Open>> \o s \o <<Close>>
IsRule(n, b) ==
    /\ lines[n] = Rule(Key(n, b), Behind(n, b)) /\ ~Overlong(n)
    /\ \A m \in Pairs : KeyAt(m) = MakeKey(SectionAt(n), Bracketed(Key(n, b))) => m = n

(* Its key is looked up with its value, not with what the caller falls back  *)
(* to.                                                                       *)
RuleWorks(n, b) ==
    \A default \in {<<>>, <<Blank>>} : GetIni(SectionAt(n), Key(n, b), default) = Behind(n, b)

(* A line of this form works, behind whatever bad lines of a file without    *)
(* indented ones, with blanks, square brackets, '#' and semicolons in it and *)
(* '=' in its value; but not if its key holds a '=' or ':', or either part a *)
(* semicolon behind a blank, although the help makes no exception and file   *)
(* names may hold them (ini.c:65-80, 221-233).                               *)
RulesWork ==
    AtEnd /\ Flat =>
        \A n \in 1 .. lineno : \A b \in Splits(n) :
            IsRule(n, b) =>
                (RuleWorks(n, b) <=> /\ NoEqual(Key(n, b)) /\ NoComment(Key(n, b))
                                     /\ NoComment(Behind(n, b)))
=============================================================================
