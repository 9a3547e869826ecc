---------------------------- MODULE MCAuthorizer ----------------------------
(* Instances of Authorizer for TLC.                                          *)
EXTENDS Authorizer

CONSTANTS p, q, bad, nodot,   \* paths
          a, u, r, dash       \* characters

(* A directive of three characters stands for the one of fourteen: it begins *)
(* with one letter, ends with another and has a mark between them.           *)
Letters  == {a, u, r}
Dashes   == {dash}
Blanks   == {Blank}
Dir      == <<a, dash, u>>

MCKind == [f \in Paths |-> CASE f = bad -> "other" [] f = nodot -> "nodot"
                             [] OTHER -> "ovpn"]

(* One line of at most four pieces, behind a path that is no config file and *)
(* before one that has no dot; credentials of one and more characters, empty *)
(* ones, some that no second run would find, and some that overlap or hold   *)
(* the directive.                                                            *)
Pieces     == {Dir, <<r>>, <<dash>>, <<Blank>>, <<Sharp>>}
Lines(n)   == {FlattenSeq(w) : w \in UNION {[1 .. m -> Pieces] : m \in 0 .. n}}
OneFile    == {bad, p, nodot}
BadPNodot  == <<bad, p, nodot>>
OneLine    == {[f \in Paths |-> IF f = p THEN t ELSE Absent] :
                  t \in {<<s>> : s \in Lines(4)} \cup {Absent}}
NoTexts    == {}
OddAndPlain == {<<>>, <<r>>, <<r, Sharp>>, <<Blank, r>>, <<dash, r>>, <<dash, u>>,
                Dir \o <<dash>>}

(* Two files, one of them named twice.                                       *)
TwoFiles   == {p, q}
PQP        == <<p, q, p>>
Served     == Dir \o <<Blank, r>>
FewTexts   == {<<Dir>>, <<Served>>}
TwoOfThree == [Paths -> {<<Dir>>,
                         <<<<r>> \o Dir \o <<dash, Blank>> \o Dir \o <<Sharp, r>>, <<r>>, Served>>,
                         Absent}]
Three      == {<<r>>, <<dash, u>>, <<r, Sharp>>}
One        == {<<r>>}
=============================================================================
