----------------------------- MODULE MCTemplate -----------------------------
(* Instances of Template for TLC.                                            *)
EXTENDS Template, TLC

CONSTANTS a, A,       \* a letter, small and capital
          n           \* a digit

MCChars == {a, A, n, Dot, "TEMPLATE"} \cup Keywords
MCLower == [c \in MCChars |-> CASE c = A -> a [] c = "TEMPLATE" -> "Template" [] OTHER -> c]

Words(S, m) == UNION {[1 .. k -> S] : k \in 1 .. m}

-----------------------------------------------------------------------------
(* Files in their usual form, with a pattern, a target and a map.            *)

(* Every pattern of at most three characters, those of four that open with a *)
(* bracket, and some with two variables.                                     *)
Long == {<<Open, a, Close, Open, n, Close>>,
         <<Open, n, Close, Dot, Open, a, Close>>,
         <<Open, a, Close, n, Open, a, Close>>,
         <<Open, a, Close, Open, A, Close>>}
Patterns == Words({Open, Close, a, n}, 3) \cup Long
            \cup {<<Open>> \o w : w \in [1 .. 3 -> {Open, Close, a, n}]}

(* Targets with every error, with a variable in the pattern or not, with two *)
(* of them, and with a bracket that stays open.                              *)
Targets == {<<Open, Open>>, <<n, Close>>, <<Open, Close>>, <<a, Open, n>>,
            <<Open, a, Close>>, <<Open, A, Close, Dot>>,
            <<Open, n, Close, Dot, Open, a, Close>>}

MCNames == Words({a, A, n, Dot}, 2)
           \cup {<<n, Dot, n>>, <<a, n, a>>, <<a, A, n>>, <<n, n, n>>,
                 <<n, Dot, n, Dot>>, <<n, Dot, n, a>>}

SectionLine(s)  == <<Left>> \o s \o <<Right>>
Template(p, t) == <<SectionLine(<<"Template">>), Rule(<<"pattern">>, p), Rule(<<"target">>, t)>>
Typed(v, t) == <<SectionLine(SectionOf(<<v>>)), Rule(<<>>, <<t>>)>>

(* Each of two variables with every type, and with a value for one text.     *)
Map(s, t) == Typed(a, s) \o <<Rule(<<a>>, <<n, n>>)>> \o Typed(n, t) \o <<Rule(<<n>>, <<a>>)>>
Maps      == {Map("string", "digit"), Map("alpha", "string"), Map("float", "string"),
              Typed(A, "string")}
Usual     == {Template(p, t) \o map : p \in Patterns, t \in Targets, map \in Maps}

-----------------------------------------------------------------------------
(* Files of odd lines, and a usual one with an odd line somewhere in it.     *)
OddLines == {
    <<>>, <<Semicolon, a, Equal, n>>,                \* comments
    SectionLine(<<"TEMPLATE">>), SectionLine(<<"Map.", a>>),
    SectionLine(<<"Map.", a, a, a, a, n>>),                 \* does not fit into `section'
    <<Left, "Map.", a>>,                             \* a header without its end
    <<Left, a, Blank, Semicolon, Right>>,            \* ... in a comment
    <<a, n>>, <<a, Blank, Semicolon, Equal, n>>,     \* no pair
    Rule(<<a>>, <<n>>), Rule(<<A>>, <<n, Semicolon, a>>),
    <<Blank>> \o Rule(<<a>>, <<A>>),                 \* an indented pair
    <<Blank, a, Blank, Semicolon, n>>,
    <<Open, a, Close, Colon, Open, a, Close, Blank, Semicolon, n>>,
    <<a, Equal>>, <<Equal, a>>,                      \* no value, no name
    <<a, Equal>> \o [k \in 1 .. 14 |-> n],           \* fits as the last line only
    <<a, Equal>> \o [k \in 1 .. 15 |-> n] }          \* does not fit

OddRules == {
    Rule(<<a, Equal, A>>, <<n>>), Rule(<<n>>, <<a, Equal, n>>),
    Rule(<<Hash, Blank, Left>>, <<Blank, Right, Hash>>),
    Rule(<<a, Blank, Semicolon>>, <<n>>), Rule(<<n>>, <<a, Blank, Semicolon>>),
    Rule(<<Semicolon>>, <<Semicolon, n>>),
    <<a, Equal>> \o [k \in 1 .. 13 |-> n] }          \* just fits

Odd      == Words(OddLines, 3) \cup Words(OddLines \cup OddRules, 2)
Base     == Template(<<Open, a, Close>>, <<n, Open, a, Close>>) \o Typed(a, "string")
Inserted == {InsertAt(Base, k, line) : k \in 1 .. 6, line \in OddLines}

MCFiles  == Usual \cup Odd \cup Inserted
=============================================================================
