--------------------------- MODULE TemplateProofs ---------------------------
(* Theorems about Template for all config files and all file names.          *)
EXTENDS Template, IniFileProofs, FiniteSetTheorems

-----------------------------------------------------------------------------
(* A run reads the config file as IniFile says, and the file is not touched  *)
(* once the templates have been taken from it.                               *)

LEMMA FileStep ==
    ASSUME [Next]_vars
    PROVE  /\ [IniNext]_iniVars
           /\ pc # "config" => UNCHANGED inputs
<1>1. CASE UNCHANGED vars
  BY <1>1 DEF vars, inputs
<1>2. CASE ReadConfig
  BY <1>2 DEF ReadConfig
<1>3. CASE NoConfig
  BY <1>3 DEF NoConfig, inputs
<1>4. CASE Configured
  BY <1>4 DEF Configured
<1>5. CASE OpensTwice \/ ClosesNothing \/ WrongVariable \/ UnknownVariable
  BY <1>5 DEF OpensTwice, ClosesNothing, WrongVariable, UnknownVariable, Stay, inputs
<1>6. CASE Opens \/ InName
  BY <1>6 DEF Opens, InName, Stay, inputs
<1>7. CASE Literal \/ Variable \/ PatternEnds
  BY <1>7 DEF Literal, Variable, PatternEnds, inputs
<1>8. CASE NoMatch \/ Match
  BY <1>8 DEF NoMatch, Match, inputs
<1>9. CASE TargetLiteral \/ Substitute \/ TargetEnds
  BY <1>9 DEF TargetLiteral, Substitute, TargetEnds, inputs
<1>10. CASE Terminated
  BY <1>10 DEF Terminated, vars, inputs
<1> QED
  BY <1>1, <1>2, <1>3, <1>4, <1>5, <1>6, <1>7, <1>8, <1>9, <1>10 DEF Next

(* A run reads the file as the reader does alone, so that what is true of    *)
(* the reader is true of every run of the Renamer (Renamer.cpp:41).          *)
THEOREM RunsReadTheFile == Spec => IniSpec
<1>1. Init => IniInit
  BY DEF Init
<1>2. [Next]_vars => [IniNext]_iniVars
  BY FileStep
<1> QED BY <1>1, <1>2, PTL DEF Spec, IniSpec

THEOREM RunsReadAsWritten == Spec => [](ReadAsWritten /\ FirstErrorCounts /\ RulesWork)
<1>1. Spec => []ReadAsWritten
  BY RunsReadTheFile, ReadIsWritten, PTL
<1>2. Spec => []FirstErrorCounts
  BY RunsReadTheFile, FirstErrorIsKept, PTL
<1>3. Spec => []RulesWork
  BY RunsReadTheFile, RulesAreFound, PTL
<1> QED BY <1>1, <1>2, <1>3, PTL

-----------------------------------------------------------------------------
(* Brackets.                                                                 *)

LEMMA PartnerIs ==
    ASSUME NEW s, NEW m, Before(s, m) # {}, Len(s) \in Nat, m \in Nat
    PROVE  Partner(s, m) \in Before(s, m) /\ \A l \in Before(s, m) : l <= Partner(s, m)
<1>1. Before(s, m) \subseteq Nat /\ \A l \in Before(s, m) : l <= m
  BY DEF Before, Brackets
<1>2. \E j \in Before(s, m) : \A l \in Before(s, m) : l <= j
  BY <1>1, GreatestNat
<1> QED BY <1>2 DEF Partner

LEMMA BehindBracket ==
    ASSUME NEW s, Len(s) \in Nat, NEW m \in Brackets(s)
    PROVE  /\ Before(s, m + 1) = Before(s, m) \cup {m}
           /\ Partner(s, m + 1) = m
           /\ Between(s, m + 1) = <<>>
<1>1. m \in Nat /\ m + 1 \in Nat /\ Brackets(s) \subseteq Nat
  BY DEF Brackets
<1>2. Before(s, m + 1) = Before(s, m) \cup {m}
  BY <1>1 DEF Before
<1>3. Partner(s, m + 1) \in Before(s, m + 1) /\ m <= Partner(s, m + 1)
  BY <1>1, <1>2, PartnerIs
<1>4. Partner(s, m + 1) = m
  BY <1>1, <1>3 DEF Before
<1>5. Between(s, m + 1) = <<>>
  <2>0. PICK k : k = m + 1
    OBVIOUS
  <2>1. Between(s, k) = SubSeq(s, m + 1, k - 1)
    BY <1>4, <2>0 DEF Between
  <2>2. k - 1 = m /\ m < m + 1
    BY <1>1, <2>0
  <2> QED BY <1>1, <2>0, <2>1, <2>2, SubSeqEmpty
<1> QED BY <1>2, <1>4, <1>5

LEMMA BehindOther ==
    ASSUME NEW A, NEW s \in Seq(A), NEW m \in 1 .. Len(s), m \notin Brackets(s)
    PROVE  /\ Before(s, m + 1) = Before(s, m)
           /\ Partner(s, m + 1) = Partner(s, m)
           /\ Before(s, m) # {} => Between(s, m + 1) = Append(Between(s, m), s[m])
<1>1. m \in Nat /\ m + 1 \in Nat /\ Brackets(s) \subseteq Nat /\ Len(s) \in Nat
  BY DEF Brackets
<1>2. Before(s, m + 1) = Before(s, m)
  BY <1>1 DEF Before
<1>3. Partner(s, m + 1) = Partner(s, m)
  BY <1>2 DEF Partner
<1>4. ASSUME Before(s, m) # {} PROVE Between(s, m + 1) = Append(Between(s, m), s[m])
  <2>1. PICK p : p = Partner(s, m)
    OBVIOUS
  <2>2. p \in 1 .. Len(s) /\ p < m
    BY <1>1, <1>4, <2>1, PartnerIs DEF Before, Brackets
  <2>3. Between(s, m + 1) = SubSeq(s, p + 1, m) /\ Between(s, m) = SubSeq(s, p + 1, m - 1)
    <3>1. PICK k : k = m + 1
      OBVIOUS
    <3>2. k - 1 = m
      BY <1>1, <3>1
    <3>3. Between(s, k) = SubSeq(s, Partner(s, k) + 1, k - 1)
      BY DEF Between
    <3> QED BY <1>3, <2>1, <3>1, <3>2, <3>3 DEF Between
  <2>4. p + 1 \in 1 .. Len(s) /\ m \in p + 1 .. Len(s)
    BY <1>1, <2>2
  <2>5. SubSeq(s, p + 1, m) = SubSeq(s, p + 1, m - 1) \o <<s[m]>>
    BY <2>4, SubSeqRecursiveSecond
  <2>6. SubSeq(s, p + 1, m - 1) \in Seq(A) /\ s[m] \in A
    BY <1>1, <2>2
  <2>7. \A w \in Seq(A), c \in A : w \o <<c>> = Append(w, c)
    OBVIOUS
  <2> QED BY <2>3, <2>5, <2>6, <2>7
<1> QED BY <1>2, <1>3, <1>4

-----------------------------------------------------------------------------
(* The groups of a regular expression.                                       *)

GroupsIn(r, t) == Cardinality({u \in 1 .. t : r[u] \in Groups})

LEMMA GroupsInIs ==
    ASSUME NEW r, NEW t \in Nat
    PROVE  /\ IsFiniteSet({u \in 1 .. t : r[u] \in Groups})
           /\ GroupsIn(r, t) \in Nat
           /\ GroupsIn(r, 0) = 0
           /\ GroupsIn(r, t + 1) = GroupsIn(r, t) + (IF r[t + 1] \in Groups THEN 1 ELSE 0)
<1> DEFINE G(k) == {u \in 1 .. k : r[u] \in Groups}
<1>1. IsFiniteSet(G(t))
  <2>1. IsFiniteSet(1 .. t)
    BY FS_Interval
  <2> QED BY <2>1, FS_Subset
<1>2. Cardinality(G(t)) \in Nat
  BY <1>1, FS_CardinalityType
<1>3. G(0) = {} /\ Cardinality({}) = 0
  BY FS_EmptySet
<1>4. CASE r[t + 1] \in Groups
  <2>1. G(t + 1) = G(t) \cup {t + 1} /\ t + 1 \notin G(t)
    BY <1>4
  <2>2. Cardinality(G(t + 1)) = Cardinality(G(t)) + 1
    <3> HIDE DEF G
    <3> QED BY <1>1, <2>1, FS_AddElement
  <2> QED BY <1>1, <1>2, <1>3, <1>4, <2>2 DEF GroupsIn
<1>5. CASE r[t + 1] \notin Groups
  <2>1. G(t + 1) = G(t)
    BY <1>5
  <2> QED BY <1>1, <1>2, <1>3, <1>5, <2>1 DEF GroupsIn
<1> QED BY <1>4, <1>5

LEMMA GroupsInGrows ==
    ASSUME NEW r, NEW t \in Nat, NEW u \in Nat, t < u, r[u] \in Groups
    PROVE  GroupsIn(r, t) < GroupsIn(r, u)
<1> DEFINE G(k) == {x \in 1 .. k : r[x] \in Groups}
<1>1. IsFiniteSet(G(t)) /\ IsFiniteSet(G(u)) /\ Cardinality(G(t)) \in Nat /\ Cardinality(G(u)) \in Nat
  BY GroupsInIs DEF GroupsIn
<1>2. u \notin G(t) /\ G(t) \cup {u} \subseteq G(u)
  OBVIOUS
<1> HIDE DEF G
<1>3. Cardinality(G(t) \cup {u}) = Cardinality(G(t)) + 1
  BY <1>1, <1>2, FS_AddElement
<1>4. Cardinality(G(t) \cup {u}) <= Cardinality(G(u))
  BY <1>1, <1>2, FS_Subset
<1>5. Cardinality(G(t)) < Cardinality(G(u))
  BY <1>1, <1>3, <1>4
<1> QED BY <1>5 DEF GroupsIn, G

LEMMA GroupsInAppended ==
    ASSUME NEW A, NEW r \in Seq(A), NEW x \in A, NEW t \in 0 .. Len(r)
    PROVE  GroupsIn(Append(r, x), t) = GroupsIn(r, t)
<1>1. \A u \in 1 .. t : Append(r, x)[u] = r[u]
  OBVIOUS
<1>2. {u \in 1 .. t : Append(r, x)[u] \in Groups} = {u \in 1 .. t : r[u] \in Groups}
  BY <1>1
<1> QED BY <1>2 DEF GroupsIn

(* The k-th group is where it is, and only there.                            *)
LEMMA GroupIs ==
    ASSUME NEW r, Len(r) \in Nat, NEW t \in 1 .. Len(r), r[t] \in Groups
    PROVE  Group(r, GroupsIn(r, t)) = t
<1> DEFINE Is(u) == r[u] \in Groups /\ GroupsIn(r, u) = GroupsIn(r, t)
<1>1. Is(t)
  OBVIOUS
<1>2. ASSUME NEW u \in 1 .. Len(r), Is(u) PROVE u = t
  <2>0. u \in Nat /\ t \in Nat
    OBVIOUS
  <2>1. u \in Nat /\ t \in Nat /\ GroupsIn(r, t) \in Nat /\ GroupsIn(r, u) \in Nat
    BY <2>0, GroupsInIs
  <2>2. ~ (u < t) /\ ~ (t < u)
    BY <1>2, <2>1, GroupsInGrows
  <2> QED BY <2>1, <2>2
<1>3. Group(r, GroupsIn(r, t)) = CHOOSE u \in 1 .. Len(r) : Is(u)
  BY DEF Group, GroupsIn
<1> HIDE DEF Is
<1> QED BY <1>1, <1>2, <1>3

LEMMA GroupExists ==
    ASSUME NEW r, Len(r) \in Nat, NEW k \in 1 .. GroupsIn(r, Len(r))
    PROVE  \E t \in 1 .. Len(r) : r[t] \in Groups /\ GroupsIn(r, t) = k /\ Group(r, k) = t
<1> DEFINE T == {t \in 0 .. Len(r) : GroupsIn(r, t) >= k}
<1>0. GroupsIn(r, Len(r)) \in Nat /\ GroupsIn(r, 0) = 0
  BY GroupsInIs
<1>1. GroupsIn(r, Len(r)) \in Nat /\ k \in Nat /\ k >= 1 /\ GroupsIn(r, 0) = 0
  BY <1>0
<1>2. Len(r) \in T /\ T \subseteq Nat
  BY <1>1
<1>3. PICK t \in T : \A u \in T : t <= u
  <2> HIDE DEF T
  <2> QED BY <1>2, LeastNat
<1>4. t \in 0 .. Len(r) /\ GroupsIn(r, t) >= k
  OBVIOUS
<1>5. t # 0
  BY <1>1, <1>4
<1>6. t \in 1 .. Len(r) /\ t - 1 \in Nat /\ t - 1 \in 0 .. Len(r) /\ ~ (t <= t - 1) /\ (t - 1) + 1 = t
  BY <1>4, <1>5
<1>7. ~ (GroupsIn(r, t - 1) >= k)
  BY <1>3, <1>6
<1>8. GroupsIn(r, t) = GroupsIn(r, t - 1) + (IF r[t] \in Groups THEN 1 ELSE 0)
      /\ GroupsIn(r, t - 1) \in Nat
  <2>1. PICK u \in Nat : u = t - 1 /\ u + 1 = t
    BY <1>6
  <2> QED BY <2>1, GroupsInIs
<1>9. r[t] \in Groups /\ GroupsIn(r, t) = k
  BY <1>1, <1>4, <1>7, <1>8
<1> QED BY <1>6, <1>9, GroupIs

-----------------------------------------------------------------------------
(* Matches.                                                                  *)

AgreeTo(t, c, d) == \A u \in 0 .. t : c[u] = d[u]
LongerTo(t, c, d) == \E u \in 0 .. t : c[u] > d[u] /\ \A x \in 0 .. u - 1 : c[x] = d[x]

LEMMA SameFunction ==
    ASSUME NEW D, NEW R, NEW c \in [D -> R], NEW d \in [D -> R], \A x \in D : c[x] = d[x]
    PROVE  c = d
OBVIOUS

(* Of the ways to cut a name one is longer than all others.                  *)
LEMMA GreedyIs ==
    ASSUME NEW r, NEW w, Len(r) \in Nat, Len(w) \in Nat, Cuts(r, w) # {}
    PROVE  Greedy(Cuts(r, w)) \in Cuts(r, w)
<1> DEFINE C == Cuts(r, w)
           L == Len(r)
           Best(t, c) == \A d \in C : AgreeTo(t, c, d) \/ LongerTo(t, c, d)
           Poor == {t \in 0 .. L : \A c \in C : ~ Best(t, c)}
<1>0. C \subseteq [0 .. L -> 0 .. Len(w)] /\ \A c \in C : c[0] = 0
  BY DEF Cuts
<1>1. PICK M \in Nat : M = Len(w)
  OBVIOUS
<1>2. L \in Nat /\ C # {} /\ C \subseteq [0 .. L -> 0 .. M] /\ \A c \in C : c[0] = 0
  BY <1>0, <1>1
<1> HIDE DEF C, L
<1>3. \E c \in C : Best(L, c)
  <2>1. SUFFICES ASSUME Poor # {} PROVE FALSE
    <3>1. SUFFICES L \notin Poor
      BY <1>2
    <3> QED BY <2>1
  <2>2. PICK t \in Poor : \A u \in Poor : t <= u
    <3>1. Poor \subseteq Nat
      BY <1>2
    <3> HIDE DEF Poor
    <3> QED BY <2>1, <3>1, LeastNat
  <2>3. t \in 0 .. L /\ \A c \in C : ~ Best(t, c)
    OBVIOUS
  <2>4. t # 0
    <3>0. \A u \in 0 .. 0 : u = 0
      OBVIOUS
    <3>1. \A c, d \in C : AgreeTo(0, c, d)
      BY <1>2, <3>0 DEF AgreeTo
    <3> QED BY <1>2, <2>3, <3>1
  <2>5. t \in Nat /\ t - 1 \in 0 .. L /\ ~ (t <= t - 1)
    BY <1>2, <2>3, <2>4
  <2>6. PICK s \in Nat : s = t - 1
    BY <2>5
  <2>7. PICK b \in C : Best(s, b)
    BY <2>2, <2>5, <2>6
  <2> DEFINE S == {d[t] : d \in {e \in C : AgreeTo(s, b, e)}}
  <2>8. S \subseteq Nat /\ S # {} /\ \A x \in S : x <= M
    <3>1. \A d \in C : d[t] \in 0 .. M
      BY <1>2, <2>3
    <3>2. AgreeTo(s, b, b)
      BY DEF AgreeTo
    <3> QED BY <1>1, <3>1, <3>2
  <2>9. PICK m \in S : \A x \in S : x <= m
    <3> HIDE DEF S
    <3> QED BY <1>1, <2>8, GreatestNat
  <2>10. PICK c \in C : AgreeTo(s, b, c) /\ c[t] = m
    OBVIOUS
  <2>11. ASSUME NEW d \in C PROVE AgreeTo(t, c, d) \/ LongerTo(t, c, d)
    <3>1. \A u \in 0 .. t : u \in 0 .. s \/ u = t
      BY <2>5, <2>6
    <3>2. CASE AgreeTo(s, b, d)
      <4>1. d[t] \in S /\ d[t] \in Nat /\ c[t] \in Nat /\ d[t] <= c[t]
        BY <2>8, <2>9, <2>10, <3>2
      <4>2. AgreeTo(s, c, d)
        BY <2>10, <3>2 DEF AgreeTo
      <4>3. CASE d[t] = c[t]
        BY <3>1, <4>2, <4>3 DEF AgreeTo
      <4>4. CASE d[t] # c[t]
        <5>1. c[t] > d[t] /\ t \in 0 .. t
          BY <2>5, <4>1, <4>4
        <5>2. \A x \in 0 .. t - 1 : c[x] = d[x]
          BY <2>6, <4>2 DEF AgreeTo
        <5> QED BY <5>1, <5>2 DEF LongerTo
      <4> QED BY <4>3, <4>4
    <3>3. CASE LongerTo(s, b, d)
      <4>1. PICK u \in 0 .. s : b[u] > d[u] /\ \A x \in 0 .. u - 1 : b[x] = d[x]
        BY <3>3 DEF LongerTo
      <4>2. u \in 0 .. t /\ \A x \in 0 .. u - 1 : x \in 0 .. s
        BY <2>5, <2>6
      <4>3. c[u] = b[u] /\ \A x \in 0 .. u - 1 : c[x] = b[x]
        BY <2>10, <4>2 DEF AgreeTo
      <4>4. c[u] > d[u] /\ \A x \in 0 .. u - 1 : c[x] = d[x]
        BY <4>1, <4>3
      <4> QED BY <4>2, <4>4 DEF LongerTo
    <3> QED BY <2>7, <3>2, <3>3
  <2> QED BY <2>3, <2>11
<1>4. PICK c \in C : Best(L, c)
  BY <1>3
<1>5. ASSUME NEW d \in C PROVE c = d \/ Longer(c, d)
  <2>1. c \in [0 .. L -> 0 .. M] /\ d \in [0 .. L -> 0 .. M]
    BY <1>2
  <2>2. CASE AgreeTo(L, c, d)
    <3>1. PICK D, R : D = 0 .. L /\ R = 0 .. M
      OBVIOUS
    <3>2. c \in [D -> R] /\ d \in [D -> R]
      BY <2>1, <3>1
    <3>3. \A u \in D : c[u] = d[u]
      BY <2>2, <3>1 DEF AgreeTo
    <3>4. c = d
      BY <3>2, <3>3, SameFunction
    <3> QED BY <3>4
  <2>3. CASE LongerTo(L, c, d)
    BY <2>1, <2>3 DEF LongerTo, Longer
  <2> QED BY <1>4, <2>2, <2>3
<1>6. Greedy(C) \in C
  BY <1>5 DEF Greedy
<1> QED BY <1>6 DEF C

(* A token stands for no empty text, so that the places of a cut do not go   *)
(* back and its parts make up the name.                                      *)
LEMMA CutIs ==
    ASSUME TemplateAssumption, NEW A, NEW w \in Seq(A), NEW r, Len(r) \in Nat, NEW cut \in Cuts(r, w),
           NEW t \in 1 .. Len(r)
    PROVE  /\ cut[t] \in 0 .. Len(w) /\ cut[t - 1] \in 0 .. Len(w)
           /\ Part(w, cut, t) \in Seq(A)
           /\ Fits(r[t], Part(w, cut, t))
<1>1. t \in 0 .. Len(r) /\ t - 1 \in 0 .. Len(r)
  OBVIOUS
<1>2. cut \in [0 .. Len(r) -> 0 .. Len(w)] /\ Fits(r[t], Part(w, cut, t))
  BY DEF Cuts
<1>3. PICK x, y : x = cut[t - 1] /\ y = cut[t] /\ x \in 0 .. Len(w) /\ y \in 0 .. Len(w)
  BY <1>1, <1>2
<1>4. SubSeq(w, x + 1, y) \in Seq(A)
  <2>1. \A k \in x + 1 .. y : w[k] \in A
    BY <1>3
  <2> QED BY <1>3, <2>1, SubSeqProperties
<1> QED BY <1>2, <1>3, <1>4 DEF Part

LEMMA FitsNothing ==
    ASSUME TemplateAssumption, NEW token \in Plain \cup Groups, NEW w, Fits(token, w)
    PROVE  w # <<>>
<1>1. token \notin Plain => token \in {Regex.string, Regex.alpha, Regex.digit, Regex.float}
  BY DEF Groups, Types, Regex
<1>2. Regex.string # Regex.alpha /\ Regex.string # Regex.digit /\ Regex.string # Regex.float
      /\ Regex.alpha # Regex.digit /\ Regex.alpha # Regex.float /\ Regex.digit # Regex.float
  BY DEF Regex
<1>3. CASE token \in Plain
  <2>1. token \notin Groups
    BY <1>3 DEF TemplateAssumption, Plain
  <2>2. token # Regex.string /\ token # Regex.alpha /\ token # Regex.digit /\ token # Regex.float
    BY <2>1 DEF Groups, Types, Regex
  <2>3. w = <<token>>
    BY <1>3, <2>2 DEF Fits
  <2> QED BY <2>3
<1>4. CASE token \notin Plain
  <2>1. token = Regex.float => \E k \in 2 .. Len(w) - 1 : w[k] = Dot
    BY <1>2, <1>4 DEF Fits
  <2>2. token # Regex.float => w # <<>>
    BY <1>1, <1>2, <1>4 DEF Fits
  <2>3. Len(<<>>) = 0
    OBVIOUS
  <2> QED BY <2>1, <2>2, <2>3
<1> QED BY <1>3, <1>4

LEMMA CutGoesOn ==
    ASSUME TemplateAssumption, NEW A, NEW w \in Seq(A), NEW r \in Seq(Plain \cup Groups),
           NEW cut \in Cuts(r, w), NEW t \in 1 .. Len(r)
    PROVE  SubSeq(w, 1, cut[t]) = SubSeq(w, 1, cut[t - 1]) \o Part(w, cut, t)
<1>1. PICK x, y : x = cut[t - 1] /\ y = cut[t] /\ x \in 0 .. Len(w) /\ y \in 0 .. Len(w)
  BY CutIs
<1>2. SubSeq(w, x + 1, y) # <<>>
  <2>1. Fits(r[t], Part(w, cut, t)) /\ r[t] \in Plain \cup Groups
    BY CutIs
  <2>2. Part(w, cut, t) # <<>>
    BY <2>1, FitsNothing
  <2> QED BY <1>1, <2>2 DEF Part
<1>3. x < y
  <2>1. y < x + 1 => SubSeq(w, x + 1, y) = <<>>
    BY <1>1, SubSeqEmpty
  <2> QED BY <1>1, <1>2, <2>1
<1>4. SubSeq(w, 1, y) = SubSeq(w, 1, x) \o SubSeq(w, x + 1, y)
  <2>1. PICK u, v, z : u = SubSeq(w, 1, x) /\ v = SubSeq(w, x + 1, y) /\ z = SubSeq(w, 1, y)
    OBVIOUS
  <2>2. u \in Seq(A) /\ Len(u) = x /\ \A k \in 1 .. x : u[k] = w[k]
    BY <1>1, <2>1, Prefix
  <2>3. z \in Seq(A) /\ Len(z) = y /\ \A k \in 1 .. y : z[k] = w[k]
    BY <1>1, <2>1, Prefix
  <2>4. v \in Seq(A) /\ Len(v) = y - x /\ \A k \in 1 .. y - x : v[k] = w[x + k]
    <3>1. x + 1 \in 1 .. Len(w) + 1 /\ y \in (x + 1) - 1 .. Len(w) /\ y - (x + 1) + 1 = y - x
      BY <1>1, <1>3
    <3>2. /\ SubSeq(w, x + 1, y) \in Seq(A)
          /\ Len(SubSeq(w, x + 1, y)) = y - (x + 1) + 1
          /\ \A k \in 1 .. y - (x + 1) + 1 : SubSeq(w, x + 1, y)[k] = w[(x + 1) + k - 1]
      BY <3>1, Pieces
    <3>3. \A k \in 1 .. y - x : (x + 1) + k - 1 = x + k
      BY <1>1
    <3> QED BY <2>1, <3>1, <3>2, <3>3
  <2>0. u \in Seq(A) /\ v \in Seq(A)
    BY <2>2, <2>4
  <2>5. /\ u \o v \in Seq(A) /\ Len(u \o v) = Len(u) + Len(v)
        /\ \A k \in 1 .. Len(u) : (u \o v)[k] = u[k]
        /\ \A k \in 1 .. Len(v) : (u \o v)[Len(u) + k] = v[k]
    BY <2>0, Joining
  <2>6. ASSUME NEW k \in 1 .. y PROVE (u \o v)[k] = z[k]
    <3>1. CASE k <= x
      <4>1. k \in 1 .. x
        BY <1>1, <3>1
      <4> QED BY <2>2, <2>3, <2>5, <4>1
    <3>2. CASE ~ (k <= x)
      <4>1. PICK j : j = k - x
        OBVIOUS
      <4>2. j \in 1 .. y - x /\ x + j = k
        BY <1>1, <3>2, <4>1
      <4>3. (u \o v)[Len(u) + j] = v[j]
        BY <2>4, <2>5, <4>2
      <4> QED BY <2>2, <2>3, <2>4, <4>2, <4>3
    <3> QED BY <3>1, <3>2
  <2>7. Len(u \o v) = y
    BY <1>1, <1>3, <2>2, <2>4, <2>5
  <2>8. u \o v = z
    BY <2>3, <2>5, <2>6, <2>7, SeqEqual
  <2> QED BY <2>1, <2>8
<1> QED BY <1>1, <1>4 DEF Part

-----------------------------------------------------------------------------
(* Types.  Whether the match has a text for each group depends on the groups *)
(* being counted as they are written, so this is part of the invariant.      *)

Typed ==
    /\ Readable /\ TypeOK
    /\ IsFiniteSet(DOMAIN mp)
    /\ cnt = GroupsIn(re, Len(re))
    /\ pc \in {"target", "renamed"} => match \in [1 .. cnt -> Seq(Plain)]

LEMMA GetIniIs ==
    ASSUME IniFileAssumption, IniTypeOK, NEW sec, NEW key, NEW default \in Texts
    PROVE  GetIni(sec, key, default) \in Texts
<1> DEFINE A == Chars \cup Special \cup {NewLine}
<1>1. PICK w : w = Get(sec, <<Open>> \o key \o <<Close>>, default)
  OBVIOUS
<1>2. w \in Seq(A) /\ default \in Seq(A) /\ Texts = Seq(A)
  BY <1>1 DEF Get, IniTypeOK, Texts
<1> HIDE DEF A
<1>3. ASSUME w # <<>>, w[1] = Open, Last(w) = Close PROVE SubSeq(w, 2, Len(w) - 1) \in Seq(A)
  <2>1. Open # Close
    <3> DEFINE t == <<Open, Close, Left, Right, Equal, Colon, Blank, Semicolon, Hash, NewLine>>
    <3>1. \A a, b \in DOMAIN t : t[a] = t[b] => a = b
      BY DEF IniFileAssumption, IsInjective
    <3>2. 1 \in DOMAIN t /\ 2 \in DOMAIN t /\ t[1] = Open /\ t[2] = Close
      OBVIOUS
    <3> HIDE DEF t
    <3> QED BY <3>1, <3>2
  <2>2. PICK L \in Nat : L = Len(w)
    BY <1>2
  <2>3. L # 0 /\ L # 1
    BY <1>2, <1>3, <2>1, <2>2 DEF Last
  <2>4. PICK b : b = L - 1
    OBVIOUS
  <2>5. 2 \in 1 .. Len(w) + 1 /\ b \in 2 - 1 .. Len(w)
    BY <2>2, <2>3, <2>4
  <2>6. SubSeq(w, 2, b) \in Seq(A)
    BY <1>2, <2>5, Pieces
  <2> QED BY <2>2, <2>4, <2>6
<1> QED BY <1>1, <1>2, <1>3 DEF GetIni

LEMMA Brackets2 ==
    ASSUME IniFileAssumption PROVE Open # Close /\ Open \notin Plain /\ Close \notin Plain
                                   /\ Plain \cup {Open, Close} = Chars \cup Special \cup {NewLine}
<1>1. Open # Close
  <2> DEFINE t == <<Open, Close, Left, Right, Equal, Colon, Blank, Semicolon, Hash, NewLine>>
  <2>1. \A a, b \in DOMAIN t : t[a] = t[b] => a = b
    BY DEF IniFileAssumption, IsInjective
  <2>2. 1 \in DOMAIN t /\ 2 \in DOMAIN t /\ t[1] = Open /\ t[2] = Close
    OBVIOUS
  <2> HIDE DEF t
  <2> QED BY <2>1, <2>2
<1> QED BY <1>1 DEF Plain, Special

LEMMA TypedInit == ASSUME IniFileAssumption, TemplateAssumption, Init PROVE Typed
<1>1. Readable
  BY ReadableInit DEF Init
<1>2. GroupsIn(<<>>, 0) = 0
  BY GroupsInIs
<1>3. DOMAIN mp = {} /\ IsFiniteSet({}) /\ Cardinality({}) = 0
  BY FS_EmptySet DEF Init
<1>4. TypeOK
  <2>1. IniTypeOK
    BY <1>1 DEF Readable
  <2>2. <<>> \in Texts /\ <<>> \in Seq(Plain) /\ <<>> \in Seq(Plain \cup Groups) /\ <<>> \in Seq(Seq(Plain))
    BY DEF Texts
  <2>3. cnt = Cardinality(DOMAIN mp) /\ \A v \in DOMAIN mp : mp[v] \in 1 .. cnt
    BY <1>3 DEF Init
  <2>4. code \in Errors \cup {"none"} /\ (pc = "error" <=> code # "none")
        /\ pc \in {"config", "noconfig", "pattern", "match", "target", "renamed", "skipped", "error"}
    BY DEF Init
  <2>5. invar \in BOOLEAN
    BY DEF Init
  <2>6. /\ pattern \in Texts /\ target \in Texts /\ i \in Nat \ {0} /\ varname \in Seq(Plain)
        /\ re \in Seq(Plain \cup Groups) /\ match \in Seq(Seq(Plain)) /\ ans \in Texts
    BY <2>2 DEF Init
  <2> QED BY <2>1, <2>3, <2>4, <2>5, <2>6 DEF TypeOK
<1> QED BY <1>1, <1>2, <1>3, <1>4 DEF Init, Typed

LEMMA TypedStep ==
    ASSUME IniFileAssumption, TemplateAssumption, Typed, [Next]_vars PROVE Typed'
<1>1. Readable' /\ IniTypeOK'
  <2>1. Readable'
    BY FileStep, ReadableStep DEF Typed
  <2> QED BY <2>1 DEF Readable
<1>2. pattern \in Texts /\ target \in Texts
  BY DEF Typed, TypeOK
<1> USE DEF Typed, TypeOK
<1>3. CASE UNCHANGED vars
  BY <1>1, <1>3 DEF vars, inputs, cursor, regex, file
<1>4. CASE ReadConfig
  BY <1>1, <1>4 DEF ReadConfig, cursor, regex, file
<1>5. CASE NoConfig
  BY <1>1, <1>5 DEF NoConfig, inputs, cursor, regex, file
<1>6. CASE Configured
  <2>1. <<>> \in Texts
    BY DEF Texts
  <2>2. Pattern \in Texts /\ Target \in Texts
    BY <2>1, GetIniIs DEF Pattern, Target
  <2> QED BY <1>1, <1>6, <2>2 DEF Configured, cursor, regex, file
<1>7. CASE OpensTwice \/ ClosesNothing
  BY <1>1, <1>7 DEF OpensTwice, ClosesNothing, Stay, Fail, Reading, Errors, inputs, cursor, regex, file
<1>8. CASE WrongVariable \/ UnknownVariable
  BY <1>1, <1>8
     DEF WrongVariable, UnknownVariable, Closes, Stay, Fail, Reading, Errors, inputs, cursor, regex, file
<1>9. CASE Opens
  BY <1>1, <1>9 DEF Opens, Stay, inputs, cursor, regex, file
<1>10. CASE InName
  BY <1>1, <1>10 DEF InName, Stay, inputs, cursor, regex, file
<1>11. CASE Literal
  <2>1. Char \in Plain /\ re' = Append(re, Char) /\ i' = i + 1
        /\ UNCHANGED <<inputs, pc, code, invar, varname, mp, cnt, file, ans>>
    BY <1>11 DEF Literal
  <2>2. re' \in Seq(Plain \cup Groups) /\ Len(re) \in Nat /\ Len(re') = Len(re) + 1
        /\ re'[Len(re) + 1] = Char
    BY <2>1
  <2>3. Char \notin Groups
    BY <2>1 DEF TemplateAssumption, Plain
  <2>4. GroupsIn(re', Len(re)) = GroupsIn(re, Len(re))
    <3>1. PICK c \in Plain \cup Groups : c = Char
      BY <2>1
    <3>2. PICK w \in Seq(Plain \cup Groups) : w = re
      OBVIOUS
    <3>3. PICK t \in 0 .. Len(w) : t = Len(w)
      OBVIOUS
    <3> HIDE DEF Typed, TypeOK
    <3>4. GroupsIn(Append(w, c), t) = GroupsIn(w, t)
      BY GroupsInAppended
    <3> QED BY <2>1, <3>1, <3>2, <3>3, <3>4
  <2>5. GroupsIn(re', Len(re) + 1) = GroupsIn(re', Len(re)) + 0 /\ GroupsIn(re', Len(re)) \in Nat
    BY <2>2, <2>3, GroupsInIs
  <2>6. GroupsIn(re', Len(re')) = GroupsIn(re, Len(re))
    BY <2>2, <2>4, <2>5
  <2>7. (GroupsIn(re, Len(re)))' = GroupsIn(re', Len(re'))
    BY DEF GroupsIn
  <2> QED BY <1>1, <2>1, <2>2, <2>6, <2>7 DEF inputs, file
<1>12. CASE Variable
  <2>1. PICK type \in Types : re' = Append(re, Regex[type])
    BY <1>12 DEF Variable, TypesOf
  <2>2. PICK g \in Groups : re' = Append(re, g)
    BY <2>1 DEF Groups
  <2>3. /\ varname \notin DOMAIN mp /\ cnt' = cnt + 1 /\ mp' = Numbered(varname, cnt + 1)
        /\ invar' = FALSE /\ i' = i + 1 /\ UNCHANGED <<pc, code, varname, inputs, file, ans>>
    BY <1>12 DEF Variable, Leave
  <2>4. re' \in Seq(Plain \cup Groups) /\ Len(re) \in Nat /\ Len(re') = Len(re) + 1
        /\ re'[Len(re) + 1] = g
    BY <2>2
  <2>5. GroupsIn(re', Len(re)) = GroupsIn(re, Len(re))
    <3>1. PICK w \in Seq(Plain \cup Groups) : w = re
      OBVIOUS
    <3>2. PICK t \in 0 .. Len(w) : t = Len(w)
      OBVIOUS
    <3> HIDE DEF Typed, TypeOK
    <3>3. GroupsIn(Append(w, g), t) = GroupsIn(w, t)
      BY GroupsInAppended
    <3> QED BY <2>2, <3>1, <3>2, <3>3
  <2>6. GroupsIn(re', Len(re) + 1) = GroupsIn(re', Len(re)) + 1
    BY <2>4, GroupsInIs
  <2>7. cnt' = GroupsIn(re', Len(re'))
    BY <2>3, <2>4, <2>5, <2>6
  <2>8. DOMAIN mp' = DOMAIN mp \cup {varname} /\ mp'[varname] = cnt + 1
        /\ \A u \in DOMAIN mp : mp'[u] = mp[u]
    BY <2>3 DEF Numbered
  <2>9. IsFiniteSet(DOMAIN mp') /\ cnt' = Cardinality(DOMAIN mp')
    <3>1. PICK D : D = DOMAIN mp
      OBVIOUS
    <3>2. IsFiniteSet(D) /\ cnt = Cardinality(D) /\ varname \notin D
      BY <2>3, <3>1
    <3>3. IsFiniteSet(D \cup {varname}) /\ Cardinality(D \cup {varname}) = Cardinality(D) + 1
      BY <3>2, FS_AddElement
    <3> QED BY <2>3, <2>8, <3>1, <3>2, <3>3
  <2>10. cnt \in Nat
    BY FS_CardinalityType
  <2>11. \A u \in DOMAIN mp' : mp'[u] \in 1 .. cnt'
    <3>1. cnt' = cnt + 1 /\ cnt + 1 \in 1 .. cnt + 1 /\ 1 .. cnt \subseteq 1 .. cnt + 1
      BY <2>3, <2>10
    <3>2. \A u \in DOMAIN mp : mp[u] \in 1 .. cnt
      OBVIOUS
    <3> QED BY <2>8, <3>1, <3>2
  <2>12. (GroupsIn(re, Len(re)))' = GroupsIn(re', Len(re'))
    BY DEF GroupsIn
  <2>13. (Cardinality(DOMAIN mp))' = Cardinality(DOMAIN mp')
    OBVIOUS
  <2>14. pc = "pattern" /\ pc' = "pattern"
    BY <1>12 DEF Variable, Closes, Leave
  <2>15. TypeOK'
    <3>0. invar' \in BOOLEAN
      BY <2>3
    <3>1. i' \in Nat \ {0} /\ varname' \in Seq(Plain)
      BY <2>3
    <3>2. /\ pattern' \in Texts /\ target' \in Texts /\ match' \in Seq(Seq(Plain)) /\ ans' \in Texts
          /\ code' \in Errors \cup {"none"} /\ (pc' = "error" <=> code' # "none")
      BY <2>3 DEF inputs, file
    <3> QED BY <1>1, <2>4, <2>9, <2>11, <2>13, <2>14, <3>0, <3>1, <3>2
  <2> QED BY <1>1, <2>7, <2>9, <2>12, <2>14, <2>15
<1>13. CASE PatternEnds
  BY <1>1, <1>13 DEF PatternEnds, inputs, cursor, regex, file
<1>14. CASE NoMatch
  BY <1>1, <1>14 DEF NoMatch, inputs, cursor, regex
<1>15. CASE Match
  <2>1. PICK cut : cut = Greedy(Cuts(re, name'))
    OBVIOUS
  <2>2. /\ name' \in FileNames /\ Cuts(re, name') # {}
        /\ match' = [k \in 1 .. cnt |-> Part(name', cut, Group(re, k))]
        /\ pc' = "target" /\ i' = 1 /\ invar' = FALSE /\ varname' = <<>>
        /\ pc = "match" /\ UNCHANGED <<inputs, regex, ans, code>>
    BY <1>15, <2>1 DEF Match
  <2>3. name' \in Seq(Plain) /\ Len(re) \in Nat /\ Len(name') \in Nat
    BY <2>2 DEF TemplateAssumption
  <2>4. cut \in Cuts(re, name')
    BY <2>1, <2>2, <2>3, GreedyIs
  <2>5. ASSUME NEW k \in 1 .. cnt PROVE Part(name', cut, Group(re, k)) \in Seq(Plain)
    <3>1. PICK t \in 1 .. Len(re) : Group(re, k) = t
      BY <2>3, GroupExists
    <3> QED BY <2>3, <2>4, <3>1, CutIs
  <2>6. cnt \in Nat
    BY FS_CardinalityType
  <2>7. match' \in [1 .. cnt -> Seq(Plain)] /\ match' \in Seq(Seq(Plain))
    <3>1. match' \in [1 .. cnt -> Seq(Plain)]
      BY <2>2, <2>5
    <3>2. \A S : \A m \in Nat : [1 .. m -> S] \subseteq Seq(S)
      OBVIOUS
    <3> QED BY <2>6, <3>1, <3>2
  <2>8. invar' \in BOOLEAN
    BY <2>2
  <2>9. /\ pattern' \in Texts /\ target' \in Texts /\ i' \in Nat \ {0} /\ varname' \in Seq(Plain)
        /\ code' \in Errors \cup {"none"} /\ (pc' = "error" <=> code' # "none") /\ ans' \in Texts
    BY <2>2 DEF inputs
  <2>10. /\ re' = re /\ cnt' = cnt /\ mp' = mp
    BY <2>2 DEF regex
  <2> QED BY <1>1, <2>2, <2>7, <2>8, <2>9, <2>10
<1>16. CASE TargetLiteral
  <2>1. ans' = Append(ans, Char) /\ Char \in Plain /\ i' = i + 1
        /\ UNCHANGED <<inputs, pc, code, invar, varname, regex, file>>
    BY <1>16 DEF TargetLiteral
  <2>2. Plain \subseteq Chars \cup Special \cup {NewLine}
    BY DEF Plain
  <2>3. ans' \in Texts
    BY <2>1, <2>2 DEF Texts
  <2> QED BY <1>1, <2>1, <2>3 DEF inputs, regex, file
<1>17. CASE Substitute
  <2>1. ans' = ans \o Replacement(varname, Captured(varname)) /\ varname \in DOMAIN mp
        /\ invar' = FALSE /\ i' = i + 1 /\ UNCHANGED <<pc, code, varname, inputs, regex, file>>
    BY <1>17 DEF Substitute, Leave
  <2>2. Captured(varname) \in Texts
    <3>1. pc = "target" /\ mp[varname] \in 1 .. cnt
      BY <1>17, <2>1 DEF Substitute, Closes
    <3>2. Captured(varname) \in Seq(Plain)
      BY <3>1 DEF Captured
    <3>3. Plain \subseteq Chars \cup Special \cup {NewLine}
      BY DEF Plain
    <3> QED BY <3>2, <3>3 DEF Texts
  <2>3. Replacement(varname, Captured(varname)) \in Texts
    BY <2>2, GetIniIs DEF Replacement, Readable
  <2>4. ans' \in Texts
    <3>1. \A x, y \in Texts : x \o y \in Texts
      BY DEF Texts
    <3>2. PICK x, y \in Texts : x = ans /\ y = Replacement(varname, Captured(varname))
      BY <2>3
    <3>3. ans' = x \o y
      BY <2>1, <3>2
    <3> HIDE DEF Typed, TypeOK
    <3> QED BY <3>1, <3>3
  <2>5. invar' \in BOOLEAN
    BY <2>1
  <2>6. /\ pattern' \in Texts /\ target' \in Texts /\ i' \in Nat \ {0} /\ varname' \in Seq(Plain)
        /\ code' \in Errors \cup {"none"} /\ (pc' = "error" <=> code' # "none")
    BY <2>1 DEF inputs
  <2>7. re' = re /\ cnt' = cnt /\ mp' = mp /\ match' = match /\ pc' = pc
    BY <2>1 DEF regex, file
  <2> QED BY <1>1, <2>4, <2>5, <2>6, <2>7
<1>18. CASE TargetEnds
  BY <1>1, <1>18 DEF TargetEnds, inputs, cursor, regex, file
<1>19. CASE Terminated
  BY <1>1, <1>19 DEF Terminated, vars, inputs, cursor, regex, file
<1> QED
  BY <1>3, <1>4, <1>5, <1>6, <1>7, <1>8, <1>9, <1>10, <1>11, <1>12, <1>13, <1>14, <1>15, <1>16,
     <1>17, <1>18, <1>19 DEF Next

(* The state has texts where the code has strings, each variable the number  *)
(* of a group that there is, and an error code exactly when the conversion   *)
(* has failed (lib.cpp:119-214).                                             *)
THEOREM TypeCorrect == Spec => []TypeOK
<1>1. Init => Typed
  BY IniFileAssumption, TemplateAssumption, TypedInit
<1>2. Typed /\ [Next]_vars => Typed'
  BY IniFileAssumption, TemplateAssumption, TypedStep
<1>3. Typed => TypeOK
  BY DEF Typed
<1> QED BY <1>1, <1>2, <1>3, PTL DEF Spec

-----------------------------------------------------------------------------
(* How far the brackets of a template are in order.                          *)

Inside(s, m)  == Before(s, m) # {} /\ s[Partner(s, m)] = Open
InOrder(s, m) ==
    \A k \in Brackets(s) : k < m =>
        IF Before(s, k) = {} THEN s[k] = Open ELSE s[k] # s[Partner(s, k)]
Variables(s, m) == {Between(s, k) : k \in {l \in Named(s) : l < m}}

LEMMA AtStart ==
    ASSUME NEW s, Len(s) \in Nat
    PROVE  ~ Inside(s, 1) /\ InOrder(s, 1) /\ Variables(s, 1) = {}
<1>1. Brackets(s) \subseteq 1 .. Len(s) /\ Named(s) \subseteq 1 .. Len(s)
  BY DEF Brackets, Named
<1> QED BY <1>1 DEF Inside, InOrder, Variables, Before

LEMMA AtTheEnd ==
    ASSUME NEW s, Len(s) \in Nat, InOrder(s, Len(s) + 1)
    PROVE  TakeTurns(s)
BY DEF InOrder, TakeTurns, Brackets

LEMMA AtOpening ==
    ASSUME NEW s, Len(s) \in Nat, NEW m \in 1 .. Len(s), s[m] = Open, IniFileAssumption
    PROVE  /\ Inside(s, m) => ~ TakeTurns(s)
           /\ InOrder(s, m) /\ ~ Inside(s, m) =>
                  InOrder(s, m + 1) /\ Inside(s, m + 1) /\ Between(s, m + 1) = <<>>
           /\ Variables(s, m + 1) = Variables(s, m)
<1>1. m \in Brackets(s) /\ m \notin Named(s)
  BY Brackets2 DEF Brackets, Named
<1>2. Inside(s, m) => ~ TakeTurns(s)
  BY <1>1 DEF Inside, TakeTurns
<1>3. ASSUME InOrder(s, m), ~ Inside(s, m) PROVE InOrder(s, m + 1)
  <2>1. \A k \in Brackets(s) : k < m + 1 => k < m \/ k = m
    BY DEF Brackets
  <2>2. IF Before(s, m) = {} THEN s[m] = Open ELSE s[m] # s[Partner(s, m)]
    BY <1>3 DEF Inside
  <2> QED BY <1>3, <2>1, <2>2 DEF InOrder
<1>4. Inside(s, m + 1) /\ Between(s, m + 1) = <<>>
  BY <1>1, BehindBracket DEF Inside
<1>5. {l \in Named(s) : l < m + 1} = {l \in Named(s) : l < m}
  BY <1>1 DEF Named
<1> QED BY <1>2, <1>3, <1>4, <1>5 DEF Variables

LEMMA AtClosing ==
    ASSUME NEW s, Len(s) \in Nat, NEW m \in 1 .. Len(s), s[m] = Close, IniFileAssumption
    PROVE  /\ ~ Inside(s, m) => ~ TakeTurns(s)
           /\ InOrder(s, m) /\ Inside(s, m) => InOrder(s, m + 1) /\ ~ Inside(s, m + 1)
           /\ Variables(s, m + 1) = Variables(s, m) \cup {Between(s, m)}
<1>1. m \in Brackets(s) /\ m \in Named(s) /\ Open # Close
  BY Brackets2 DEF Brackets, Named
<1>2. ASSUME ~ Inside(s, m) PROVE ~ TakeTurns(s)
  <2>1. CASE Before(s, m) = {}
    BY <1>1, <2>1 DEF TakeTurns
  <2>2. CASE Before(s, m) # {}
    <3>1. Partner(s, m) \in Brackets(s) /\ s[Partner(s, m)] # Open
      BY <1>2, <2>2, PartnerIs DEF Before, Inside
    <3>2. s[Partner(s, m)] = s[m]
      BY <3>1 DEF Brackets
    <3> QED BY <1>1, <2>2, <3>2 DEF TakeTurns
  <2> QED BY <2>1, <2>2
<1>3. ASSUME InOrder(s, m), Inside(s, m) PROVE InOrder(s, m + 1)
  <2>1. \A k \in Brackets(s) : k < m + 1 => k < m \/ k = m
    BY DEF Brackets
  <2>2. IF Before(s, m) = {} THEN s[m] = Open ELSE s[m] # s[Partner(s, m)]
    BY <1>1, <1>3 DEF Inside
  <2> QED BY <1>3, <2>1, <2>2 DEF InOrder
<1>4. ~ Inside(s, m + 1)
  BY <1>1, BehindBracket DEF Inside
<1>5. {l \in Named(s) : l < m + 1} = {l \in Named(s) : l < m} \cup {m}
  BY <1>1 DEF Named
<1> QED BY <1>2, <1>3, <1>4, <1>5 DEF Variables

LEMMA AtOther ==
    ASSUME NEW A, NEW s \in Seq(A), NEW m \in 1 .. Len(s), s[m] \notin {Open, Close}
    PROVE  /\ InOrder(s, m) => InOrder(s, m + 1)
           /\ Inside(s, m + 1) <=> Inside(s, m)
           /\ Inside(s, m) => Between(s, m + 1) = Append(Between(s, m), s[m])
           /\ Variables(s, m + 1) = Variables(s, m)
<1>1. m \notin Brackets(s) /\ m \notin Named(s)
  BY DEF Brackets, Named
<1>2. Inside(s, m + 1) <=> Inside(s, m)
  BY <1>1, BehindOther DEF Inside
<1>3. Inside(s, m) => Between(s, m + 1) = Append(Between(s, m), s[m])
  BY <1>1, BehindOther DEF Inside
<1>4. ASSUME InOrder(s, m) PROVE InOrder(s, m + 1)
  <2>1. \A k \in Brackets(s) : k < m + 1 => k < m
    BY <1>1 DEF Brackets
  <2> QED BY <1>4, <2>1 DEF InOrder
<1>5. {l \in Named(s) : l < m + 1} = {l \in Named(s) : l < m}
  BY <1>1 DEF Named
<1> QED BY <1>2, <1>3, <1>4, <1>5 DEF Variables

(* A cursor at the m-th character of s: whether it is behind an opening      *)
(* bracket, and the name since then.                                         *)
At(s, m, in, v) ==
    /\ m \in 1 .. Len(s) + 1 /\ InOrder(s, m)
    /\ in = Inside(s, m) /\ (in => v = Between(s, m))

LEMMA AtBegin ==
    ASSUME NEW s, Len(s) \in Nat, NEW v
    PROVE  At(s, 1, FALSE, v)
<1>1. Inside(s, 1) = FALSE
  BY AtStart DEF Inside
<1>2. 1 \in 1 .. Len(s) + 1 /\ InOrder(s, 1)
  BY AtStart
<1> QED BY <1>1, <1>2 DEF At

LEMMA OpenStep ==
    ASSUME IniFileAssumption, NEW s, Len(s) \in Nat, NEW m, m <= Len(s), NEW in, NEW v,
           At(s, m, in, v), s[m] = Open
    PROVE  /\ in => ~ TakeTurns(s)
           /\ ~ in => At(s, m + 1, TRUE, <<>>)
           /\ Variables(s, m + 1) = Variables(s, m)
<1>1. m \in 1 .. Len(s) /\ m + 1 \in 1 .. Len(s) + 1 /\ InOrder(s, m) /\ in = Inside(s, m)
  BY DEF At
<1> QED BY <1>1, AtOpening DEF At

LEMMA CloseStep ==
    ASSUME IniFileAssumption, NEW s, Len(s) \in Nat, NEW m, m <= Len(s), NEW in, NEW v,
           At(s, m, in, v), s[m] = Close
    PROVE  /\ m \in Named(s)
           /\ ~ in => ~ TakeTurns(s)
           /\ in => v = Between(s, m)
           /\ in => \A w : At(s, m + 1, FALSE, w)
           /\ Variables(s, m + 1) = Variables(s, m) \cup {Between(s, m)}
<1>1. m \in 1 .. Len(s) /\ m + 1 \in 1 .. Len(s) + 1 /\ InOrder(s, m) /\ in = Inside(s, m)
      /\ (in => v = Between(s, m))
  BY DEF At
<1>2. m \in Named(s)
  BY <1>1 DEF Named
<1>3. /\ ~ Inside(s, m) => ~ TakeTurns(s)
      /\ Inside(s, m) => InOrder(s, m + 1) /\ ~ Inside(s, m + 1)
      /\ Variables(s, m + 1) = Variables(s, m) \cup {Between(s, m)}
  BY <1>1, AtClosing
<1>4. Inside(s, m + 1) \in BOOLEAN
  BY DEF Inside
<1> QED BY <1>1, <1>2, <1>3, <1>4 DEF At

LEMMA OtherStep ==
    ASSUME IniFileAssumption, NEW A, NEW s \in Seq(A), NEW m, m <= Len(s), NEW in, NEW v,
           At(s, m, in, v), s[m] \in Plain
    PROVE  /\ in => At(s, m + 1, in, Append(v, s[m]))
           /\ ~ in => At(s, m + 1, in, v)
           /\ Variables(s, m + 1) = Variables(s, m)
           /\ m \notin Named(s)
<1>1. m \in 1 .. Len(s) /\ m + 1 \in 1 .. Len(s) + 1 /\ InOrder(s, m) /\ in = Inside(s, m)
      /\ (in => v = Between(s, m))
  BY DEF At
<1>2. s[m] \notin {Open, Close}
  BY Brackets2
<1>3. /\ InOrder(s, m + 1)
      /\ Inside(s, m + 1) <=> Inside(s, m)
      /\ Inside(s, m) => Between(s, m + 1) = Append(Between(s, m), s[m])
      /\ Variables(s, m + 1) = Variables(s, m)
  BY <1>1, <1>2, AtOther
<1>4. Inside(s, m + 1) = Inside(s, m)
  BY <1>3 DEF Inside
<1>5. m \notin Named(s)
  BY <1>2 DEF Named
<1> QED BY <1>1, <1>3, <1>4, <1>5 DEF At

-----------------------------------------------------------------------------
(* What the config file says stays once the templates are taken from it.     *)
LEMMA SameInputs ==
    ASSUME UNCHANGED inputs
    PROVE  /\ UNCHANGED <<pattern, target>>
           /\ \A v : TypesOf(v)' = TypesOf(v)
           /\ \A v, w : Replacement(v, w)' = Replacement(v, w)
           /\ GoodPattern' = GoodPattern /\ GoodTarget' = GoodTarget
<1>1. UNCHANGED <<pattern, target>> /\ values' = values
  BY DEF inputs, iniVars
<1>2. \A v : TypesOf(v)' = TypesOf(v)
  BY <1>1 DEF TypesOf, SectionOf, GetIni, Get
<1>3. \A v, w : Replacement(v, w)' = Replacement(v, w)
  BY <1>1 DEF Replacement, SectionOf, GetIni, Get
<1>4. GoodPattern' = GoodPattern
  BY <1>1, <1>2 DEF GoodPattern
<1>5. GoodTarget' = GoodTarget
  BY <1>1 DEF GoodTarget
<1> QED BY <1>1, <1>2, <1>3, <1>4, <1>5

(* The variables of the pattern up to its m-th character are those of the    *)
(* map, and they are good ones.                                              *)
Known(m) ==
    /\ DOMAIN mp = Variables(pattern, m)
    /\ \A k \in Named(pattern) : k < m =>
          Between(pattern, k) # <<>> /\ TypesOf(Between(pattern, k)) # {}
    /\ \A k, l \in Named(pattern) :
          k < m /\ l < m /\ Between(pattern, k) = Between(pattern, l) => k = l

Past    == {"match", "skipped", "target", "renamed"}
Scanned == IF pc = "pattern" THEN i ELSE Len(pattern) + 1

BracketsSoFar ==
    /\ pc = "config" => i = 1 /\ invar = FALSE /\ DOMAIN mp = {}
    /\ pc = "pattern" => At(pattern, i, invar, varname)
    /\ pc \in Past => TakeTurns(pattern)
    /\ pc \in Past \cup {"pattern"} => Known(Scanned)
    /\ pc = "target" => At(target, i, invar, varname) /\ Variables(target, i) \subseteq DOMAIN mp
    /\ pc = "renamed" => GoodTarget
    /\ pc = "error" => ~ GoodPattern \/ ~ GoodTarget

LEMMA AlwaysTexts ==
    ASSUME IniFileAssumption, TemplateAssumption, Typed
    PROVE  /\ pattern \in Seq(Plain \cup {Open, Close}) /\ target \in Seq(Plain \cup {Open, Close})
           /\ Len(pattern) \in Nat /\ Len(target) \in Nat
           /\ i \in Nat \ {0} /\ invar \in BOOLEAN
<1>1. pattern \in Texts /\ target \in Texts /\ i \in Nat \ {0}
  BY DEF Typed, TypeOK
<1>2. invar \in BOOLEAN
  BY DEF Typed, TypeOK
<1>3. Texts = Seq(Plain \cup {Open, Close})
  BY Brackets2 DEF Texts
<1> QED BY <1>1, <1>2, <1>3

LEMMA KnownIsGood ==
    ASSUME IniFileAssumption, TemplateAssumption, Typed, TakeTurns(pattern), Known(Len(pattern) + 1)
    PROVE  GoodPattern
<1>1. \A k \in Named(pattern) : k < Len(pattern) + 1
  BY AlwaysTexts DEF Named
<1> QED BY <1>1 DEF Known, GoodPattern

(* The steps that leave map and templates alone.                             *)
LEMMA KnownStays ==
    ASSUME UNCHANGED inputs, UNCHANGED mp
    PROVE  \A m : Known(m)' = Known(m)
BY SameInputs DEF Known

LEMMA KnownGrows ==
    ASSUME Len(pattern) \in Nat, NEW m \in 1 .. Len(pattern), m \notin Named(pattern), Known(m),
           Variables(pattern, m + 1) = Variables(pattern, m)
    PROVE  Known(m + 1)
<1>1. \A k \in Named(pattern) : k < m + 1 => k < m
  BY DEF Named
<1> QED BY <1>1 DEF Known

LEMMA BracketsInit == ASSUME Init PROVE BracketsSoFar
BY DEF Init, BracketsSoFar, Past

LEMMA BracketsStep ==
    ASSUME IniFileAssumption, TemplateAssumption, Typed, Typed', BracketsSoFar, [Next]_vars
    PROVE  BracketsSoFar'
<1>0. /\ Len(pattern) \in Nat /\ Len(target) \in Nat /\ i \in Nat \ {0} /\ invar \in BOOLEAN
      /\ pattern \in Seq(Plain \cup {Open, Close}) /\ target \in Seq(Plain \cup {Open, Close})
  BY AlwaysTexts
<1>1. ASSUME pc # "config"
      PROVE  /\ UNCHANGED <<pattern, target>>
             /\ GoodPattern' = GoodPattern /\ GoodTarget' = GoodTarget
             /\ UNCHANGED mp => \A m : Known(m)' = Known(m)
  BY <1>1, FileStep, SameInputs, KnownStays
<1>2. CASE UNCHANGED vars
  <2>1. UNCHANGED inputs /\ UNCHANGED <<pc, i, invar, varname, mp>>
    BY <1>2 DEF vars, cursor, regex
  <2>2. UNCHANGED <<pattern, target>> /\ GoodPattern' = GoodPattern /\ GoodTarget' = GoodTarget
        /\ \A m : Known(m)' = Known(m)
    BY <2>1, SameInputs, KnownStays
  <2>3. Scanned' = Scanned
    BY <2>1, <2>2 DEF Scanned
  <2> QED BY <2>1, <2>2, <2>3 DEF BracketsSoFar
<1>3. CASE ReadConfig
  BY <1>3 DEF ReadConfig, BracketsSoFar, Past, cursor, regex
<1>4. CASE NoConfig
  BY <1>4 DEF NoConfig, BracketsSoFar, Past, cursor, regex
<1>5. CASE Configured
  <2>1. pc' = "pattern" /\ i' = 1 /\ invar' = FALSE /\ DOMAIN mp' = {}
    BY <1>5 DEF Configured, BracketsSoFar, cursor, regex
  <2>2. Len(pattern') \in Nat
    BY DEF Typed, TypeOK, Texts
  <2>3. ~ Inside(pattern', 1) /\ InOrder(pattern', 1) /\ Variables(pattern', 1) = {}
    BY <2>2, AtStart
  <2>4. At(pattern', i', invar', varname')
    <3>1. At(pattern', 1, FALSE, varname')
      BY <2>2, AtBegin
    <3> QED BY <2>1, <3>1
  <2>5. \A k \in Named(pattern') : ~ (k < 1)
    BY <2>2 DEF Named
  <2>6. Known(1)'
    BY <2>1, <2>3, <2>5 DEF Known
  <2>7. Scanned' = 1
    BY <2>1 DEF Scanned
  <2> QED BY <2>1, <2>4, <2>6, <2>7 DEF BracketsSoFar, Past
<1>6. CASE OpensTwice \/ ClosesNothing
  <2>1. /\ pc \in {"pattern", "target"} /\ pc' = "error"
        /\ i <= Len(Current) /\ Char = Current[i]
        /\ At(Current, i, invar, varname) /\ Len(Current) \in Nat
    BY <1>0, <1>6 DEF OpensTwice, ClosesNothing, Fail, Reading, Current, BracketsSoFar, Char
  <2>2. ~ TakeTurns(Current)
    <3>1. CASE OpensTwice
      <4>1. Current[i] = Open /\ invar
        BY <2>1, <3>1 DEF OpensTwice
      <4> QED BY <2>1, <4>1, OpenStep
    <3>2. CASE ClosesNothing
      <4>1. Current[i] = Close /\ invar = FALSE
        BY <1>0, <2>1, <3>2 DEF ClosesNothing
      <4>2. At(Current, i, FALSE, varname)
        BY <2>1, <4>1
      <4> QED BY <2>1, <4>1, <4>2, CloseStep
    <3> QED BY <1>6, <3>1, <3>2
  <2>3. ~ GoodPattern \/ ~ GoodTarget
    BY <2>1, <2>2 DEF Current, GoodPattern, GoodTarget
  <2> QED BY <1>1, <2>1, <2>3 DEF BracketsSoFar, Past
<1>7. CASE Opens \/ InName \/ Literal \/ TargetLiteral
  <2>1. /\ pc \in {"pattern", "target"} /\ pc' = pc /\ i' = i + 1 /\ UNCHANGED mp
        /\ i <= Len(Current) /\ Char = Current[i]
        /\ At(Current, i, invar, varname)
        /\ Current \in Seq(Plain \cup {Open, Close}) /\ Len(Current) \in Nat
    BY <1>0, <1>7
       DEF Opens, InName, Literal, TargetLiteral, Reading, Current, BracketsSoFar, Char, Stay, regex
  <2>2. /\ At(Current, i', invar', varname')
        /\ Variables(Current, i') = Variables(Current, i)
        /\ i \notin Named(Current)
    <3>1. CASE Opens
      <4>1. Current[i] = Open /\ invar = FALSE /\ invar' = TRUE /\ varname' = <<>>
        BY <3>1, <2>1 DEF Opens
      <4>2. i \notin Named(Current)
        BY <4>1, Brackets2 DEF Named
      <4> QED BY <2>1, <4>1, <4>2, OpenStep
    <3>2. CASE InName
      <4>1. Current[i] \in Plain /\ invar /\ invar' = invar /\ varname' = Append(varname, Current[i])
        BY <3>2, <2>1 DEF InName
      <4> QED BY <2>1, <4>1, OtherStep
    <3>3. CASE Literal \/ TargetLiteral
      <4>1. Current[i] \in Plain /\ ~ invar /\ invar' = invar /\ varname' = varname
        BY <3>3, <2>1 DEF Literal, TargetLiteral
      <4> QED BY <2>1, <4>1, OtherStep
    <3> QED BY <1>7, <3>1, <3>2, <3>3
  <2>3. CASE pc = "pattern"
    <3>1. Current = pattern /\ pattern' = pattern /\ pc' = "pattern" /\ Scanned = i /\ Scanned' = i + 1
      BY <1>1, <2>1, <2>3 DEF Current, Scanned
    <3>2. i \in 1 .. Len(pattern) /\ Known(i)
      BY <1>0, <2>1, <2>3, <3>1 DEF BracketsSoFar
    <3>3. PICK m : m = i + 1
      OBVIOUS
    <3>4. Known(m)
      BY <1>0, <2>1, <2>2, <3>1, <3>2, <3>3, KnownGrows
    <3>5. Known(m)'
      BY <1>1, <2>1, <2>3, <3>4
    <3>6. Known(Scanned)'
      BY <2>1, <3>1, <3>3, <3>5 DEF Known
    <3> QED BY <2>2, <3>1, <3>6 DEF BracketsSoFar, Past
  <2>4. CASE pc = "target"
    <3>1. /\ Current = target /\ pattern' = pattern /\ target' = target /\ pc' = "target"
          /\ Scanned = Len(pattern) + 1 /\ Scanned' = Len(pattern) + 1
      BY <1>1, <2>1, <2>4 DEF Current, Scanned
    <3>2. Known(Scanned) /\ TakeTurns(pattern) /\ Variables(target, i) \subseteq DOMAIN mp
      BY <2>4 DEF BracketsSoFar, Past
    <3>3. Known(Scanned)'
      BY <1>1, <2>1, <2>4, <3>1, <3>2 DEF Known
    <3> QED BY <2>1, <2>2, <3>1, <3>2, <3>3 DEF BracketsSoFar, Past
  <2> QED BY <2>1, <2>3, <2>4
<1>8. CASE WrongVariable
  <2>1. /\ pc = "pattern" /\ pc' = "error" /\ i <= Len(pattern) /\ pattern[i] = Close /\ invar
        /\ varname = <<>> \/ varname \in DOMAIN mp \/ TypesOf(varname) = {}
    BY <1>8 DEF WrongVariable, Closes, Reading, Current, Char, Fail
  <2>2. At(pattern, i, invar, varname) /\ Known(i)
    BY <2>1 DEF BracketsSoFar, Scanned
  <2>3. i \in Named(pattern) /\ varname = Between(pattern, i)
    BY <1>0, <2>1, <2>2, CloseStep
  <2>4. ASSUME varname \in DOMAIN mp PROVE ~ GoodPattern
    <3>1. PICK k \in Named(pattern) : k < i /\ Between(pattern, k) = varname
      BY <2>2, <2>4 DEF Known, Variables
    <3>2. k # i
      BY <1>0, <3>1
    <3> QED BY <2>3, <3>1, <3>2 DEF GoodPattern
  <2>5. ~ GoodPattern
    BY <2>1, <2>3, <2>4 DEF GoodPattern
  <2> QED BY <1>1, <2>1, <2>5 DEF BracketsSoFar, Past
<1>9. CASE Variable
  <2>1. /\ pc = "pattern" /\ pc' = "pattern" /\ i <= Len(pattern) /\ pattern[i] = Close /\ invar
        /\ varname # <<>> /\ varname \notin DOMAIN mp /\ TypesOf(varname) # {}
        /\ DOMAIN mp' = DOMAIN mp \cup {varname} /\ i' = i + 1 /\ invar' = FALSE
        /\ UNCHANGED inputs
    BY <1>9 DEF Variable, Closes, Reading, Current, Char, Leave, Numbered
  <2>2. At(pattern, i, invar, varname) /\ Known(i)
    BY <2>1 DEF BracketsSoFar, Scanned
  <2>3. /\ i \in Named(pattern) /\ varname = Between(pattern, i)
        /\ At(pattern, i + 1, FALSE, varname')
        /\ Variables(pattern, i + 1) = Variables(pattern, i) \cup {Between(pattern, i)}
    BY <1>0, <2>1, <2>2, CloseStep
  <2>4. pattern' = pattern /\ \A v : TypesOf(v)' = TypesOf(v)
    BY <2>1, SameInputs
  <2>5. \A k \in Named(pattern) : k < i + 1 => k < i \/ k = i
    BY <1>0 DEF Named
  <2>6. DOMAIN mp' = Variables(pattern, i + 1)
    BY <2>1, <2>2, <2>3 DEF Known
  <2>7. \A k \in Named(pattern) : k < i => Between(pattern, k) \in DOMAIN mp
    BY <2>2 DEF Known, Variables
  <2>8. \A k \in Named(pattern) : k < i + 1 =>
           Between(pattern, k) # <<>> /\ TypesOf(Between(pattern, k)) # {}
    BY <2>1, <2>2, <2>3, <2>5 DEF Known
  <2>9. \A k, l \in Named(pattern) :
           k < i + 1 /\ l < i + 1 /\ Between(pattern, k) = Between(pattern, l) => k = l
    BY <2>1, <2>2, <2>3, <2>5, <2>7 DEF Known
  <2>10. PICK m : m = i + 1
    OBVIOUS
  <2>11. Known(m)'
    BY <2>4, <2>6, <2>8, <2>9, <2>10 DEF Known
  <2>12. Scanned' = m
    BY <2>1, <2>10 DEF Scanned
  <2>13. Known(Scanned)'
    BY <2>11, <2>12 DEF Known
  <2> QED BY <2>1, <2>3, <2>4, <2>13 DEF BracketsSoFar, Past
<1>10. CASE PatternEnds
  <2>1. pc = "pattern" /\ pc' = "match" /\ i > Len(pattern) /\ UNCHANGED mp
    BY <1>10 DEF PatternEnds, regex
  <2>2. At(pattern, i, invar, varname) /\ Known(i)
    BY <2>1 DEF BracketsSoFar, Scanned
  <2>3. i = Len(pattern) + 1 /\ InOrder(pattern, i)
    BY <1>0, <2>1, <2>2 DEF At
  <2>4. TakeTurns(pattern) /\ Known(Len(pattern) + 1)
    BY <1>0, <2>2, <2>3, AtTheEnd
  <2>5. pattern' = pattern /\ Known(Scanned)'
    BY <1>1, <2>1, <2>4 DEF Known, Scanned
  <2> QED BY <2>1, <2>4, <2>5 DEF BracketsSoFar, Past
<1>11. CASE NoMatch \/ Match
  <2>1. pc = "match" /\ pc' \in {"skipped", "target"} /\ UNCHANGED mp
    BY <1>11 DEF NoMatch, Match, regex
  <2>2. TakeTurns(pattern) /\ Known(Len(pattern) + 1)
    BY <2>1 DEF BracketsSoFar, Scanned, Past
  <2>3. pattern' = pattern /\ target' = target /\ Known(Scanned)'
    BY <1>1, <2>1, <2>2 DEF Known, Scanned
  <2>4. pc' = "target" => i' = 1 /\ invar' = FALSE
    BY <1>11 DEF NoMatch, Match
  <2>5. ~ Inside(target, 1) /\ InOrder(target, 1) /\ Variables(target, 1) = {}
    BY <1>0, AtStart
  <2>6. pc' = "target" => At(target', i', invar', varname') /\ Variables(target', i') = {}
    <3>1. At(target, 1, FALSE, varname')
      BY <1>0, AtBegin
    <3> QED BY <2>3, <2>4, <2>5, <3>1
  <2> QED BY <2>1, <2>2, <2>3, <2>6 DEF BracketsSoFar, Past
<1>12. CASE UnknownVariable \/ Substitute
  <2>1. /\ pc = "target" /\ i <= Len(target) /\ target[i] = Close /\ invar /\ UNCHANGED mp
    BY <1>12 DEF UnknownVariable, Substitute, Closes, Reading, Current, Char, Stay, regex
  <2>2. /\ At(target, i, invar, varname) /\ Known(Len(pattern) + 1) /\ TakeTurns(pattern)
        /\ Variables(target, i) \subseteq DOMAIN mp
    BY <2>1 DEF BracketsSoFar, Scanned, Past
  <2>3. /\ i \in Named(target) /\ varname = Between(target, i)
        /\ \A w : At(target, i + 1, FALSE, w)
        /\ Variables(target, i + 1) = Variables(target, i) \cup {Between(target, i)}
    BY <1>0, <2>1, <2>2, CloseStep
  <2>4. CASE UnknownVariable
    <3>1. pc' = "error" /\ varname \notin DOMAIN mp
      BY <2>4 DEF UnknownVariable, Fail
    <3>2. \A l \in Named(pattern) : Between(pattern, l) \in DOMAIN mp
      <4>1. \A l \in Named(pattern) : l < Len(pattern) + 1
        BY <1>0 DEF Named
      <4> QED BY <2>2, <4>1 DEF Known, Variables
    <3>3. ~ GoodTarget
      BY <2>3, <3>1, <3>2 DEF GoodTarget
    <3> QED BY <1>1, <2>1, <3>1, <3>3 DEF BracketsSoFar, Past
  <2>5. CASE Substitute
    <3>1. pc' = "target" /\ varname \in DOMAIN mp /\ i' = i + 1 /\ invar' = FALSE
      BY <2>1, <2>5 DEF Substitute, Leave
    <3>2. pattern' = pattern /\ target' = target /\ Known(Scanned)'
      BY <1>1, <2>1, <2>2, <3>1 DEF Known, Scanned
    <3>3. At(target', i', invar', varname') /\ Variables(target', i') \subseteq DOMAIN mp'
      BY <2>1, <2>2, <2>3, <3>1, <3>2
    <3> QED BY <2>2, <3>1, <3>2, <3>3 DEF BracketsSoFar, Past
  <2> QED BY <1>12, <2>4, <2>5
<1>13. CASE TargetEnds
  <2>1. pc = "target" /\ pc' = "renamed" /\ i > Len(target) /\ UNCHANGED mp
    BY <1>13 DEF TargetEnds, regex
  <2>2. /\ At(target, i, invar, varname) /\ Known(Len(pattern) + 1) /\ TakeTurns(pattern)
        /\ Variables(target, i) \subseteq DOMAIN mp
    BY <2>1 DEF BracketsSoFar, Scanned, Past
  <2>3. i = Len(target) + 1 /\ InOrder(target, i)
    BY <1>0, <2>1, <2>2 DEF At
  <2>4. TakeTurns(target)
    BY <1>0, <2>3, AtTheEnd
  <2>5. \A k \in Named(target) : Between(target, k) \in DOMAIN mp
    <3>1. \A k \in Named(target) : k < Len(target) + 1
      BY <1>0 DEF Named
    <3> QED BY <2>2, <2>3, <3>1 DEF Variables
  <2>6. GoodTarget
    BY <2>2, <2>4, <2>5 DEF GoodTarget, Known, Variables
  <2>7. pattern' = pattern /\ Known(Scanned)'
    BY <1>1, <2>1, <2>2 DEF Known, Scanned
  <2> QED BY <1>1, <2>1, <2>2, <2>6, <2>7 DEF BracketsSoFar, Past
<1>14. CASE Terminated
  BY <1>2, <1>14 DEF Terminated
<1> QED
  BY <1>2, <1>3, <1>4, <1>5, <1>6, <1>7, <1>8, <1>9, <1>10, <1>11, <1>12, <1>13, <1>14 DEF Next

(* A name is worked out exactly when both templates are good, and an error   *)
(* is reported exactly when one of them is not: the loops of string2re and   *)
(* re2string notice every bracket out of turn and every bad name, and        *)
(* nothing else (lib.cpp:119-214).                                           *)
THEOREM OnlyGoodTemplates == Spec => []GoodOnesPass
<1>1. Init => Typed /\ BracketsSoFar
  BY IniFileAssumption, TemplateAssumption, TypedInit, BracketsInit
<1>2. Typed /\ BracketsSoFar /\ [Next]_vars => Typed' /\ BracketsSoFar'
  BY IniFileAssumption, TemplateAssumption, TypedStep, BracketsStep
<1>3. Typed /\ BracketsSoFar => GoodOnesPass
  <2>1. ASSUME Typed, BracketsSoFar, pc \in Past PROVE GoodPattern
    BY <2>1, IniFileAssumption, TemplateAssumption, KnownIsGood DEF BracketsSoFar, Scanned, Past
  <2> QED BY <2>1 DEF GoodOnesPass, BracketsSoFar, Past
<1> QED BY <1>1, <1>2, <1>3, PTL DEF Spec

-----------------------------------------------------------------------------
(* Sequences that are put together of pieces, one behind the other.          *)

(* All of the pieces are in a set that is closed under \o.                   *)
Joinable(q, m, S) ==
    (\A v, w \in S : v \o w \in S) /\ \A n \in 1 .. m : q[n] \in S

(* After n steps the first n pieces are one behind the other.                *)
Grows(g, q, m, e) == g[0] = e /\ \A n \in 1 .. m : g[n] = g[n - 1] \o q[n]

LEMMA PieceByPiece ==
    ASSUME NEW S, NEW e \in S, NEW m \in Nat, NEW q, Joinable(q, m, S)
    PROVE  \E g : g \in [0 .. m -> S] /\ Grows(g, q, m, e)
<1> DEFINE F == [n \in 1 .. m |-> [v \in S |-> v \o q[n]]]
<1>1. F \in [1 .. m -> [S -> S]]
  BY DEF Joinable
<1>2. \A n \in 1 .. m, v \in S : F[n][v] = v \o q[n]
  OBVIOUS
<1> HIDE DEF F
<1>3. PICK g \in [0 .. m -> S] : g[0] = e /\ \A n \in 1 .. m : g[n] = F[n][g[n - 1]]
  BY <1>1, StepByStep
<1>4. ASSUME NEW n \in 1 .. m PROVE g[n] = g[n - 1] \o q[n]
  <2>1. n - 1 \in 0 .. m
    OBVIOUS
  <2>2. g[n - 1] \in S
    BY <2>1
  <2> QED BY <1>2, <1>3, <2>2
<1> QED BY <1>3, <1>4 DEF Grows

LEMMA FlattenIs ==
    ASSUME NEW A, NEW q \in Seq(Seq(A)), NEW g, Grows(g, q, Len(q), <<>>)
    PROVE  FlattenSeq(q) = g[Len(q)]
<1> DEFINE m == Len(q)
           Goes(h) == h = [n \in 1 .. m |-> IF n = 1 THEN q[n] ELSE h[n - 1] \o q[n]]
<1>0. g[0] = <<>> /\ \A n \in 1 .. m : g[n] = g[n - 1] \o q[n]
  BY DEF Grows
<1>1. m \in Nat /\ \A n \in 1 .. m : q[n] \in Seq(A)
  OBVIOUS
<1>2. CASE m = 0
  <2>1. q = <<>>
    BY <1>2
  <2> QED BY <1>0, <1>2, <2>1 DEF FlattenSeq
<1>3. CASE m # 0
  <2>0. g[1] = q[1]
    <3>1. 1 \in 1 .. m /\ q[1] \in Seq(A) /\ 1 - 1 = 0
      BY <1>1, <1>3
    <3>2. g[1] = g[0] \o q[1]
      BY <1>0, <3>1
    <3>3. \A x \in Seq(A) : <<>> \o x = x
      OBVIOUS
    <3> QED BY <1>0, <3>1, <3>2, <3>3
  <2>1. Goes([n \in 1 .. m |-> g[n]])
    <3> DEFINE h == [n \in 1 .. m |-> g[n]]
    <3>1. ASSUME NEW n \in 1 .. m PROVE h[n] = IF n = 1 THEN q[n] ELSE h[n - 1] \o q[n]
      <4>1. n # 1 => n - 1 \in 1 .. m
        BY <1>1
      <4> QED BY <1>0, <2>0, <4>1
    <3> HIDE DEF m
    <3>2. h = [n \in 1 .. m |-> h[n]]
      OBVIOUS
    <3> HIDE DEF h
    <3>3. h = [n \in 1 .. m |-> IF n = 1 THEN q[n] ELSE h[n - 1] \o q[n]]
      BY <3>1, <3>2
    <3> QED BY <3>3 DEF h
  <2>2. ASSUME NEW h, Goes(h) PROVE h[m] = g[m]
    <3> DEFINE Wrong == {n \in 1 .. m : h[n] # g[n]}
    <3>1. SUFFICES ASSUME Wrong # {} PROVE FALSE
      BY <1>1, <1>3
    <3>2. PICK n \in Wrong : \A k \in Wrong : n <= k
      <4>1. Wrong \subseteq Nat
        OBVIOUS
      <4> HIDE DEF Wrong
      <4> QED BY <3>1, <4>1, LeastNat
    <3>3. n \in 1 .. m /\ h[n] # g[n]
      OBVIOUS
    <3>4. h[n] = IF n = 1 THEN q[n] ELSE h[n - 1] \o q[n]
      BY <2>2, <3>3
    <3>5. n # 1
      BY <2>0, <3>3, <3>4
    <3>6. PICK p \in 1 .. m : p = n - 1 /\ ~ (n <= p)
      BY <1>1, <3>3, <3>5
    <3>7. h[p] = g[p]
      BY <3>2, <3>6
    <3>8. g[n] = g[p] \o q[n]
      BY <1>0, <3>3, <3>6
    <3> QED BY <3>3, <3>4, <3>5, <3>6, <3>7, <3>8
  <2>3. FlattenSeq(q) = (CHOOSE h : Goes(h))[m]
    BY <1>3 DEF FlattenSeq
  <2> HIDE DEF Goes
  <2>4. Goes(CHOOSE h : Goes(h))
    BY <2>1
  <2> QED BY <2>2, <2>3, <2>4
<1> QED BY <1>2, <1>3

-----------------------------------------------------------------------------
(* The new name, piece by piece.                                             *)

NewPiece(k) ==
    CASE target[k] = Close -> Replacement(Between(target, k), Captured(Between(target, k)))
      [] target[k] = Open  -> <<>>
      [] OTHER -> IF Inside(target, k) THEN <<>> ELSE <<target[k]>>

(* The name so far is the pieces before the m-th, one behind the other.      *)
FilledTo(m) ==
    \A g : /\ g[0] = <<>>
           /\ \A n \in 1 .. Len(target) : n < m => g[n] = g[n - 1] \o NewPiece(n)
           => ans = g[m - 1]

AnsSoFar ==
    /\ pc \in {"config", "pattern", "match"} => ans = <<>>
    /\ pc = "target" => FilledTo(i)
    /\ pc = "renamed" => FilledTo(Len(target) + 1)

LEMMA SamePieces ==
    ASSUME UNCHANGED <<inputs, mp, match>>
    PROVE  UNCHANGED target /\ \A k : NewPiece(k)' = NewPiece(k)
<1>1. UNCHANGED target /\ \A v, w : Replacement(v, w)' = Replacement(v, w)
  BY SameInputs
<1>2. \A v : Captured(v)' = Captured(v)
  BY DEF Captured
<1>3. ASSUME NEW k PROVE NewPiece(k)' = NewPiece(k)
  <2>1. PICK v, s : v = Between(target, k) /\ s = target
    OBVIOUS
  <2>2. (Replacement(Between(target, k), Captured(Between(target, k))))'
        = Replacement(v, Captured(v))
    <3>1. target' = s /\ v = Between(s, k)
      BY <1>1, <2>1
    <3>2. Replacement(v, Captured(v))' = Replacement(v, Captured(v))
      <4>1. PICK w : w = Captured(v) /\ w = Captured(v)'
        BY <1>2
      <4> QED BY <1>1, <4>1 DEF Replacement
    <3> QED BY <3>1, <3>2
  <2> QED BY <1>1, <2>1, <2>2 DEF NewPiece
<1> QED BY <1>1, <1>3

LEMMA FilledGoesOn ==
    ASSUME i \in 1 .. Len(target), Len(target) \in Nat, FilledTo(i),
           UNCHANGED <<inputs, mp, match>>, ans' = ans \o NewPiece(i), NEW m, m = i + 1
    PROVE  FilledTo(m)'
<1>1. target' = target /\ \A k : NewPiece(k)' = NewPiece(k)
  BY SamePieces
<1>2. PICK j \in 1 .. Len(target) : j = i /\ m - 1 = j /\ j < m /\ \A n \in 1 .. Len(target) : n < j => n < m
  <2>1. PICK j \in 1 .. Len(target) : j = i
    OBVIOUS
  <2>2. m - 1 = j /\ j < m
    BY <2>1
  <2> QED BY <2>1, <2>2
<1>3. ASSUME NEW g, g[0] = <<>>,
             \A n \in 1 .. Len(target) : n < m => g[n] = g[n - 1] \o NewPiece(n)
      PROVE  ans' = g[m - 1]
  <2>1. g[j] = g[j - 1] \o NewPiece(j)
    BY <1>2, <1>3
  <2>2. \A n \in 1 .. Len(target) : n < j => n < m
    BY <1>2
  <2>3. ans = g[j - 1]
    BY <1>2, <1>3, <2>2 DEF FilledTo
  <2> QED BY <1>2, <2>1, <2>3
<1> QED BY <1>1, <1>3 DEF FilledTo

LEMMA AnsInit == ASSUME Init PROVE AnsSoFar
BY DEF Init, AnsSoFar

LEMMA AnsStep ==
    ASSUME IniFileAssumption, TemplateAssumption, Typed, BracketsSoFar, AnsSoFar, [Next]_vars
    PROVE  AnsSoFar'
<1>0. /\ Len(pattern) \in Nat /\ Len(target) \in Nat /\ i \in Nat \ {0} /\ invar \in BOOLEAN
      /\ target \in Seq(Plain \cup {Open, Close}) /\ ans \in Texts
  BY AlwaysTexts DEF Typed, TypeOK
<1>1. ASSUME UNCHANGED <<inputs, mp, match, ans>>
      PROVE  UNCHANGED target /\ \A m : FilledTo(m)' = FilledTo(m)
  BY <1>1, SamePieces DEF FilledTo
<1>2. CASE UNCHANGED vars
  BY <1>1, <1>2 DEF vars, cursor, regex, file, AnsSoFar
<1>3. CASE ReadConfig \/ NoConfig \/ Configured
  BY <1>3 DEF ReadConfig, NoConfig, Configured, AnsSoFar, cursor, regex, file
<1>4. CASE OpensTwice \/ ClosesNothing \/ WrongVariable \/ UnknownVariable
  BY <1>4 DEF OpensTwice, ClosesNothing, WrongVariable, UnknownVariable, Fail, AnsSoFar
<1>5. CASE Literal \/ Variable \/ PatternEnds \/ NoMatch
  <2>1. pc \in {"pattern", "match"} /\ pc' \in {"pattern", "match", "skipped"} /\ ans' = ans
    BY <1>5 DEF Literal, Variable, PatternEnds, NoMatch, Closes, Leave
  <2> QED BY <2>1 DEF AnsSoFar
<1>6. CASE Match
  <2>1. pc' = "target" /\ i' = 1 /\ ans' = <<>>
    BY <1>6 DEF Match, AnsSoFar
  <2>2. FilledTo(1)'
    BY <2>1 DEF FilledTo
  <2> QED BY <2>1, <2>2 DEF AnsSoFar, FilledTo
<1>7. CASE (Opens \/ InName) /\ pc = "pattern"
  BY <1>7 DEF Opens, InName, Stay, AnsSoFar
<1>8. ASSUME pc = "target", i <= Len(target), i' = i + 1, pc' = "target",
             UNCHANGED <<inputs, mp, match>>, ans' = ans \o NewPiece(i)
      PROVE  AnsSoFar'
  <2>1. FilledTo(i) /\ i \in 1 .. Len(target)
    BY <1>0, <1>8 DEF AnsSoFar
  <2>2. PICK m : m = i + 1
    OBVIOUS
  <2>3. FilledTo(m)'
    BY <1>0, <1>8, <2>1, <2>2, FilledGoesOn
  <2> QED BY <1>8, <2>2, <2>3 DEF AnsSoFar, FilledTo
<1>9. CASE (Opens \/ InName) /\ pc = "target"
  <2>1. /\ i <= Len(target) /\ i' = i + 1 /\ pc' = "target" /\ ans' = ans
        /\ UNCHANGED <<inputs, mp, match>>
    BY <1>9 DEF Opens, InName, Reading, Current, Stay, regex, file
  <2>2. NewPiece(i) = <<>>
    <3>1. CASE Opens
      <4>1. target[i] = Open /\ Open # Close
        BY <1>9, <3>1, Brackets2 DEF Opens, Char, Current
      <4> QED BY <4>1 DEF NewPiece
    <3>2. CASE InName
      <4>1. target[i] # Open /\ target[i] # Close /\ invar
        BY <1>9, <3>2, Brackets2 DEF InName, Char, Current
      <4>2. Inside(target, i)
        BY <1>9, <4>1 DEF BracketsSoFar, At
      <4> QED BY <4>1, <4>2 DEF NewPiece
    <3> QED BY <1>9, <3>1, <3>2
  <2>3. ans \o <<>> = ans
    BY <1>0 DEF Texts
  <2> QED BY <1>8, <1>9, <2>1, <2>2, <2>3
<1>10. CASE TargetLiteral
  <2>1. /\ pc = "target" /\ i <= Len(target) /\ i' = i + 1 /\ pc' = "target"
        /\ ans' = Append(ans, target[i]) /\ target[i] \in Plain /\ ~ invar
        /\ UNCHANGED <<inputs, mp, match>>
    BY <1>10 DEF TargetLiteral, Reading, Char, Current, regex, file
  <2>2. target[i] # Open /\ target[i] # Close
    BY <2>1, Brackets2
  <2>3. ~ Inside(target, i)
    BY <2>1 DEF BracketsSoFar, At
  <2>4. NewPiece(i) = <<target[i]>>
    BY <2>2, <2>3 DEF NewPiece
  <2>5. Append(ans, target[i]) = ans \o <<target[i]>>
    <3>1. PICK c : c = target[i]
      OBVIOUS
    <3>2. \A w : w \in Texts => Append(w, c) = w \o <<c>>
      BY DEF Texts
    <3> QED BY <1>0, <3>1, <3>2
  <2> QED BY <1>8, <2>1, <2>4, <2>5
<1>11. CASE Substitute
  <2>1. /\ pc = "target" /\ i <= Len(target) /\ i' = i + 1 /\ pc' = "target"
        /\ ans' = ans \o Replacement(varname, Captured(varname)) /\ target[i] = Close /\ invar
        /\ UNCHANGED <<inputs, mp, match>>
    BY <1>11 DEF Substitute, Closes, Leave, Reading, Char, Current, regex, file
  <2>2. varname = Between(target, i)
    BY <2>1 DEF BracketsSoFar, At
  <2>3. NewPiece(i) = Replacement(varname, Captured(varname))
    <3>1. NewPiece(i) = Replacement(Between(target, i), Captured(Between(target, i)))
      BY <2>1, Brackets2 DEF NewPiece
    <3> QED BY <2>2, <3>1
  <2> QED BY <1>8, <2>1, <2>3
<1>12. CASE TargetEnds
  <2>1. pc = "target" /\ pc' = "renamed" /\ i > Len(target) /\ UNCHANGED <<inputs, mp, match, ans>>
    BY <1>12 DEF TargetEnds, regex, file
  <2>2. i = Len(target) + 1
    BY <1>0, <2>1 DEF BracketsSoFar, At
  <2>3. PICK m : m = i
    OBVIOUS
  <2>4. FilledTo(m)' /\ target' = target
    BY <1>1, <2>1, <2>3 DEF AnsSoFar
  <2> QED BY <2>1, <2>2, <2>3, <2>4 DEF AnsSoFar, FilledTo
<1>13. CASE Terminated
  BY <1>2, <1>13 DEF Terminated
<1>14. (Opens \/ InName) => pc \in {"pattern", "target"}
  BY DEF Opens, InName, Reading
<1> QED
  BY <1>2, <1>3, <1>4, <1>5, <1>6, <1>7, <1>9, <1>10, <1>11, <1>12, <1>13, <1>14 DEF Next

LEMMA CapturedIsText ==
    ASSUME Typed, pc \in {"target", "renamed"}, NEW v \in DOMAIN mp
    PROVE  Captured(v) \in Texts
<1>1. mp[v] \in 1 .. cnt /\ match \in [1 .. cnt -> Seq(Plain)]
  BY DEF Typed, TypeOK
<1>2. Captured(v) \in Seq(Plain)
  BY <1>1 DEF Captured
<1>3. Plain \subseteq Chars \cup Special \cup {NewLine}
  BY DEF Plain
<1> QED BY <1>2, <1>3 DEF Texts

LEMMA NewNameFilled ==
    ASSUME IniFileAssumption, TemplateAssumption, Typed, BracketsSoFar, AnsSoFar, pc = "renamed"
    PROVE  ans = Filled(target, LAMBDA v : Replacement(v, Captured(v)))
<1>1. Len(target) \in Nat /\ target \in Seq(Plain \cup {Open, Close})
  BY AlwaysTexts
<1>2. ASSUME NEW k \in 1 .. Len(target) PROVE NewPiece(k) \in Texts
  <2>1. CASE target[k] = Close
    <3>1. k \in Named(target)
      BY <1>2, <2>1 DEF Named
    <3>2. PICK l \in Named(pattern) : Between(target, k) = Between(pattern, l)
      BY <3>1 DEF BracketsSoFar, GoodTarget
    <3>3. Between(target, k) \in DOMAIN mp
      <4>1. l < Len(pattern) + 1
        BY AlwaysTexts DEF Named
      <4> QED BY <3>2, <4>1 DEF BracketsSoFar, Past, Scanned, Known, Variables
    <3>4. Captured(Between(target, k)) \in Texts
      BY <3>3, CapturedIsText
    <3>5. Replacement(Between(target, k), Captured(Between(target, k))) \in Texts
      <4>1. PICK v, w : v = Between(target, k) /\ w = Captured(v) /\ w \in Texts
        BY <3>4
      <4>2. GetIni(SectionOf(v), w, w) \in Texts
        BY <4>1, GetIniIs DEF Typed, TypeOK
      <4>3. Replacement(v, w) \in Texts
        BY <4>2 DEF Replacement
      <4> QED BY <4>1, <4>3
    <3> QED BY <2>1, <3>5, Brackets2 DEF NewPiece
  <2>2. CASE target[k] # Close
    <3>1. <<>> \in Texts /\ <<target[k]>> \in Texts
      BY <1>1, Brackets2 DEF Texts
    <3> QED BY <2>2, <3>1 DEF NewPiece
  <2> QED BY <2>1, <2>2
<1> DEFINE q == [k \in 1 .. Len(target) |-> NewPiece(k)]
<1>3. PICK m \in Nat : m = Len(target)
  BY <1>1
<1>4. PICK A : Texts = Seq(A)
  BY DEF Texts
<1>5. Len(q) = m /\ q \in Seq(Texts) /\ \A k \in 1 .. m : q[k] = NewPiece(k) /\ q[k] \in Texts
  BY <1>1, <1>2, <1>3
<1>6. FlattenSeq(q) = Filled(target, LAMBDA v : Replacement(v, Captured(v)))
  BY DEF Filled, NewPiece, Inside
<1>61. PICK p : p = q
  OBVIOUS
<1> HIDE DEF q
<1>7. PICK g : g \in [0 .. m -> Texts] /\ Grows(g, p, m, <<>>)
  <2>1. <<>> \in Texts /\ \A v, w \in Texts : v \o w \in Texts
    BY DEF Texts
  <2>2. Joinable(p, m, Texts)
    BY <1>5, <1>61, <2>1 DEF Joinable
  <2>3. PICK e \in Texts : e = <<>>
    BY <2>1
  <2>4. \E g : g \in [0 .. m -> Texts] /\ Grows(g, p, m, e)
    BY <2>2, PieceByPiece
  <2> QED BY <2>3, <2>4
<1>8. FlattenSeq(p) = g[m]
  BY <1>4, <1>5, <1>61, <1>7, FlattenIs
<1>9. ans = g[m]
  <2>1. FilledTo(Len(target) + 1)
    BY DEF AnsSoFar
  <2>2. (m + 1) - 1 = m
    OBVIOUS
  <2> QED BY <1>3, <1>5, <1>61, <1>7, <2>1, <2>2 DEF FilledTo, Grows
<1> QED BY <1>6, <1>61, <1>8, <1>9

(* The new name is the target with each variable replaced by the text it     *)
(* caught or what the config file has for it, for every target with however  *)
(* many variables (lib.cpp:178-214).                                         *)
THEOREM NewNamesAreFilled == Spec => []NewNameIsFilledTarget
<1>1. Init => Typed /\ BracketsSoFar /\ AnsSoFar
  BY IniFileAssumption, TemplateAssumption, TypedInit, BracketsInit, AnsInit
<1>2. Typed /\ BracketsSoFar /\ AnsSoFar /\ [Next]_vars => (Typed /\ BracketsSoFar /\ AnsSoFar)'
  BY IniFileAssumption, TemplateAssumption, TypedStep, BracketsStep, AnsStep
<1>3. Typed /\ BracketsSoFar /\ AnsSoFar => NewNameIsFilledTarget
  BY IniFileAssumption, TemplateAssumption, NewNameFilled DEF NewNameIsFilledTarget
<1> QED BY <1>1, <1>2, <1>3, PTL DEF Spec

-----------------------------------------------------------------------------
(* The regular expression, token by token.                                   *)

(* What the k-th character of the pattern adds to it: tok[k] is the number   *)
(* of tokens behind this character.                                          *)
Emit(tok, k) ==
    IF pattern[k] = Close
    THEN /\ tok[k] = tok[k - 1] + 1
         /\ \E type \in TypesOf(Between(pattern, k)) : re[tok[k]] = Regex[type]
         /\ mp[Between(pattern, k)] = GroupsIn(re, tok[k])
    ELSE IF pattern[k] = Open \/ Inside(pattern, k) THEN tok[k] = tok[k - 1]
    ELSE tok[k] = tok[k - 1] + 1 /\ re[tok[k]] = pattern[k]

Emits(tok, m) ==
    /\ tok \in [0 .. Len(pattern) -> Nat] /\ tok[0] = 0 /\ tok[m - 1] = Len(re)
    /\ \A k \in 1 .. Len(pattern) : k < m => tok[k] <= Len(re) /\ Emit(tok, k)

MatchedAs(cut) ==
    /\ cut \in Cuts(re, name)
    /\ \A k \in 1 .. cnt : match[k] = Part(name, cut, Group(re, k))

RegexSoFar ==
    /\ pc = "config" => re = <<>>
    /\ pc \in Past \cup {"pattern"} => \E tok : Emits(tok, Scanned)
    /\ pc \in {"target", "renamed"} => name \in FileNames /\ \E cut : MatchedAs(cut)

LEMMA GroupsInSame ==
    ASSUME NEW r, NEW q, NEW t, \A u \in 1 .. t : r[u] = q[u]
    PROVE  GroupsIn(r, t) = GroupsIn(q, t)
<1>1. {u \in 1 .. t : r[u] \in Groups} = {u \in 1 .. t : q[u] \in Groups}
  OBVIOUS
<1> QED BY <1>1 DEF GroupsIn

LEMMA EmitStays ==
    ASSUME UNCHANGED <<inputs, mp, re>>
    PROVE  pattern' = pattern /\ \A tok, m : Emits(tok, m)' = Emits(tok, m)
<1>1. pattern' = pattern /\ \A v : TypesOf(v)' = TypesOf(v)
  BY SameInputs
<1>2. \A tok, k : Emit(tok, k)' = Emit(tok, k)
  BY <1>1 DEF Emit
<1> QED BY <1>1, <1>2 DEF Emits

LEMMA EmitGoesOn ==
    ASSUME NEW R, re \in Seq(R), re' \in Seq(R), Len(pattern) \in Nat,
           NEW j \in 1 .. Len(pattern), NEW tok, Emits(tok, j),
           UNCHANGED inputs, Len(re) <= Len(re'), \A t \in 1 .. Len(re) : re'[t] = re[t],
           \A k \in Named(pattern) : k < j => mp'[Between(pattern, k)] = mp[Between(pattern, k)],
           NEW new, new = [tok EXCEPT ![j] = Len(re')], Emit(new, j)', NEW m, m = j + 1
    PROVE  Emits(new, m)'
<1>1. pattern' = pattern /\ \A v : TypesOf(v)' = TypesOf(v)
  BY SameInputs
<1>2. Len(re) \in Nat /\ Len(re') \in Nat /\ m - 1 = j
  OBVIOUS
<1>3. tok \in [0 .. Len(pattern) -> Nat] /\ tok[0] = 0 /\ tok[j - 1] = Len(re)
      /\ \A k \in 1 .. Len(pattern) : k < j => tok[k] <= Len(re) /\ Emit(tok, k)
  BY DEF Emits
<1>4. new \in [0 .. Len(pattern) -> Nat] /\ new[j] = Len(re') /\ new[0] = 0
      /\ \A k \in 0 .. Len(pattern) : k # j => new[k] = tok[k]
  BY <1>2, <1>3
<1>5. ASSUME NEW k \in 1 .. Len(pattern), k < j
      PROVE  new[k] <= Len(re') /\ Emit(new, k)'
  <2>1. PICK t, p \in Nat : t = tok[k] /\ p = tok[k - 1] /\ t <= Len(re)
    <3>1. k \in 0 .. Len(pattern) /\ k - 1 \in 0 .. Len(pattern)
      OBVIOUS
    <3> QED BY <1>3, <1>5, <3>1
  <2>2. new[k] = t /\ new[k - 1] = p
    BY <1>4, <1>5, <2>1
  <2>3. Emit(tok, k)
    BY <1>3, <1>5
  <2>4. GroupsIn(re', t) = GroupsIn(re, t)
    BY <1>2, <2>1, GroupsInSame
  <2>5. t = p + 1 => re'[t] = re[t]
    BY <1>2, <2>1
  <2>6. pattern[k] = Close => mp'[Between(pattern, k)] = mp[Between(pattern, k)]
    BY <1>5 DEF Named
  <2>7. t <= Len(re')
    BY <1>2, <2>1
  <2>8. Emit(new, k)'
    <3>1. CASE pattern[k] = Close
      BY <1>1, <2>1, <2>2, <2>3, <2>4, <2>5, <2>6, <3>1 DEF Emit
    <3>2. CASE pattern[k] # Close
      BY <1>1, <2>1, <2>2, <2>3, <2>5, <3>2 DEF Emit
    <3> QED BY <3>1, <3>2
  <2> QED BY <2>2, <2>7, <2>8
<1>6. \A k \in 1 .. Len(pattern) : k < m => k < j \/ k = j
  OBVIOUS
<1>7. \A k \in 1 .. Len(pattern) : k < m => new[k] <= Len(re') /\ Emit(new, k)'
  <2>1. ASSUME NEW k \in 1 .. Len(pattern), k < m PROVE new[k] <= Len(re') /\ Emit(new, k)'
    <3>1. CASE k = j
      <4>1. Emit(new, k)'
        BY <3>1 DEF Emit
      <4>2. Len(re') <= Len(re')
        BY <1>2
      <4> QED BY <1>4, <3>1, <4>1, <4>2
    <3>2. CASE k < j
      BY <1>5, <3>2
    <3> QED BY <1>6, <2>1, <3>1, <3>2
  <2> QED BY <2>1
<1> QED BY <1>1, <1>2, <1>4, <1>7 DEF Emits

LEMMA RegexInit == ASSUME Init PROVE RegexSoFar
BY DEF Init, RegexSoFar, Past

LEMMA RegexStep ==
    ASSUME IniFileAssumption, TemplateAssumption, Typed, Typed', BracketsSoFar, RegexSoFar, [Next]_vars
    PROVE  RegexSoFar'
<1>0. /\ Len(pattern) \in Nat /\ Len(target) \in Nat /\ i \in Nat \ {0} /\ invar \in BOOLEAN
      /\ re \in Seq(Plain \cup Groups) /\ re' \in Seq(Plain \cup Groups)
  BY AlwaysTexts DEF Typed, TypeOK
<1>1. ASSUME UNCHANGED <<inputs, regex, file>>, Scanned' = Scanned, pc # "config",
             pc' \in Past => pc \in Past, pc' \notin {"pattern", "config"},
             pc' \in {"target", "renamed"} => pc \in {"target", "renamed"}
      PROVE  RegexSoFar'
  <2>1. \A tok, m : Emits(tok, m)' = Emits(tok, m)
    BY <1>1, EmitStays DEF regex
  <2>2. \A cut : MatchedAs(cut)' = MatchedAs(cut)
    BY <1>1 DEF MatchedAs, regex, file
  <2>3. \A tok : Emits(tok, Scanned)' = Emits(tok, Scanned)
    BY <1>1, <2>1 DEF Emits
  <2> QED BY <1>1, <2>2, <2>3 DEF RegexSoFar, Past, file
<1>2. CASE UNCHANGED vars
  <2>1. UNCHANGED <<inputs, regex, file, pc, i>>
    BY <1>2 DEF vars, cursor
  <2>2. \A tok, m : Emits(tok, m)' = Emits(tok, m)
    BY <2>1, EmitStays DEF regex
  <2>3. \A cut : MatchedAs(cut)' = MatchedAs(cut)
    BY <2>1 DEF MatchedAs, regex, file
  <2>4. Scanned' = Scanned
    BY <2>1 DEF Scanned, inputs
  <2>5. \A tok : Emits(tok, Scanned)' = Emits(tok, Scanned)
    BY <2>2, <2>4 DEF Emits
  <2> QED BY <2>1, <2>3, <2>5 DEF RegexSoFar, regex, file
<1>3. CASE ReadConfig \/ NoConfig
  BY <1>3 DEF ReadConfig, NoConfig, RegexSoFar, Past, regex
<1>4. CASE Configured
  <2>1. pc' = "pattern" /\ i' = 1 /\ re' = <<>>
    BY <1>4 DEF Configured, RegexSoFar, BracketsSoFar, cursor, regex
  <2>2. PICK s : s = pattern' /\ Len(s) \in Nat
    <3>1. Len(pattern') \in Nat
      BY DEF Typed, TypeOK, Texts
    <3> QED BY <3>1
  <2>3. PICK tok : tok = [x \in 0 .. Len(s) |-> 0]
    OBVIOUS
  <2>4. tok \in [0 .. Len(s) -> Nat] /\ tok[0] = 0 /\ tok[1 - 1] = 0 /\ Len(re') = 0
    BY <2>1, <2>2, <2>3
  <2>5. Emits(tok, 1)'
    BY <2>2, <2>4 DEF Emits
  <2>6. Emits(tok, Scanned)'
    BY <2>1, <2>5 DEF Scanned, Emits
  <2> QED BY <2>1, <2>6 DEF RegexSoFar
<1>5. CASE OpensTwice \/ ClosesNothing \/ WrongVariable \/ UnknownVariable
  BY <1>5 DEF OpensTwice, ClosesNothing, WrongVariable, UnknownVariable, Fail, RegexSoFar, Past
<1>6. ASSUME pc = "pattern", pc' = "pattern", i' = i + 1, i <= Len(pattern),
             NEW tok, Emits(tok, i), NEW m, m = i + 1, NEW new, Emits(new, m)'
      PROVE  RegexSoFar'
  <2>1. Emits(new, Scanned)'
    BY <1>6 DEF Scanned, Emits
  <2> QED BY <1>6, <2>1 DEF RegexSoFar
<1>7. CASE (Opens \/ InName) /\ pc = "pattern"
  <2>1. /\ pc' = "pattern" /\ i' = i + 1 /\ i <= Len(pattern)
        /\ UNCHANGED <<inputs, mp, re>>
    BY <1>7 DEF Opens, InName, Reading, Current, Stay, regex
  <2>2. pattern[i] # Close /\ (pattern[i] = Open \/ Inside(pattern, i))
    <3>1. CASE Opens
      BY <1>7, <3>1, Brackets2 DEF Opens, Char, Current
    <3>2. CASE InName
      <4>1. pattern[i] \in Plain /\ invar
        BY <1>7, <3>2 DEF InName, Char, Current
      <4> QED BY <1>7, <4>1, Brackets2 DEF BracketsSoFar, At
    <3> QED BY <1>7, <3>1, <3>2
  <2>3. PICK j, m : j \in 1 .. Len(pattern) /\ j = i /\ m = j + 1
    BY <1>0, <2>1
  <2>4. PICK tok : Emits(tok, j)
    BY <1>7, <2>3 DEF RegexSoFar, Scanned
  <2>5. PICK new : new = [tok EXCEPT ![j] = Len(re')]
    OBVIOUS
  <2>6. new[j] = new[j - 1]
    <3>1. tok \in [0 .. Len(pattern) -> Nat] /\ tok[j - 1] = Len(re)
      BY <2>4 DEF Emits
    <3>2. j \in 0 .. Len(pattern) /\ j - 1 \in 0 .. Len(pattern) /\ j # j - 1
      BY <1>0, <2>3
    <3> QED BY <2>1, <2>5, <3>1, <3>2
  <2>7. pattern' = pattern
    BY <2>1 DEF inputs
  <2>8. Emit(new, j)'
    BY <2>2, <2>3, <2>6, <2>7 DEF Emit
  <2>9. Emits(new, m)'
    <3>1. Len(re) <= Len(re')
      BY <1>0, <2>1
    <3> QED BY <1>0, <2>1, <2>3, <2>4, <2>5, <2>8, <3>1, EmitGoesOn
  <2> QED BY <1>6, <1>7, <2>1, <2>3, <2>4, <2>9
<1>8. CASE Literal
  <2>1. /\ pc = "pattern" /\ pc' = "pattern" /\ i' = i + 1 /\ i <= Len(pattern)
        /\ re' = Append(re, pattern[i]) /\ pattern[i] \in Plain /\ ~ invar
        /\ UNCHANGED <<inputs, mp>>
    BY <1>8 DEF Literal, Reading, Current, Char
  <2>2. pattern[i] # Close /\ pattern[i] # Open /\ ~ Inside(pattern, i)
    BY <2>1, Brackets2 DEF BracketsSoFar, At
  <2>3. PICK j, m : j \in 1 .. Len(pattern) /\ j = i /\ m = j + 1
    BY <1>0, <2>1
  <2>4. PICK tok : Emits(tok, j)
    BY <2>1, <2>3 DEF RegexSoFar, Scanned
  <2>5. PICK new : new = [tok EXCEPT ![j] = Len(re')]
    OBVIOUS
  <2>6. Len(re') = Len(re) + 1 /\ re'[Len(re')] = pattern[j] /\ \A t \in 1 .. Len(re) : re'[t] = re[t]
    BY <1>0, <2>1, <2>3
  <2>7. new[j] = new[j - 1] + 1 /\ new[j] = Len(re')
    <3>1. tok \in [0 .. Len(pattern) -> Nat] /\ tok[j - 1] = Len(re)
      BY <2>4 DEF Emits
    <3>2. j \in 0 .. Len(pattern) /\ j - 1 \in 0 .. Len(pattern) /\ j # j - 1
      BY <1>0, <2>3
    <3> QED BY <2>5, <2>6, <3>1, <3>2
  <2>8. pattern' = pattern
    BY <2>1 DEF inputs
  <2>9. Emit(new, j)'
    BY <2>2, <2>3, <2>6, <2>7, <2>8 DEF Emit
  <2>10. Emits(new, m)'
    <3>1. Len(re) <= Len(re')
      BY <1>0, <2>6
    <3> QED BY <1>0, <2>1, <2>3, <2>4, <2>5, <2>6, <2>9, <3>1, EmitGoesOn
  <2> QED BY <1>6, <2>1, <2>3, <2>4, <2>10
<1>9. CASE Variable
  <2>1. /\ pc = "pattern" /\ pc' = "pattern" /\ i' = i + 1 /\ i <= Len(pattern)
        /\ pattern[i] = Close /\ invar /\ varname \notin DOMAIN mp
        /\ mp' = Numbered(varname, cnt + 1) /\ cnt' = cnt + 1
        /\ UNCHANGED inputs
    BY <1>9 DEF Variable, Closes, Leave, Reading, Current, Char
  <2>2. PICK type \in TypesOf(varname) : re' = Append(re, Regex[type])
    BY <1>9 DEF Variable
  <2>3. varname = Between(pattern, i) /\ Known(i)
    BY <2>1 DEF BracketsSoFar, At, Past, Scanned
  <2>4. PICK j, m : j \in 1 .. Len(pattern) /\ j = i /\ m = j + 1
    BY <1>0, <2>1
  <2>5. PICK tok : Emits(tok, j)
    BY <2>1, <2>4 DEF RegexSoFar, Scanned
  <2>6. PICK new : new = [tok EXCEPT ![j] = Len(re')]
    OBVIOUS
  <2>7. Len(re') = Len(re) + 1 /\ re'[Len(re')] = Regex[type]
        /\ \A t \in 1 .. Len(re) : re'[t] = re[t]
    <3>1. Regex[type] \in Plain \cup Groups
      BY DEF TypesOf, Groups
    <3> QED BY <1>0, <2>2, <3>1
  <2>8. new[j] = new[j - 1] + 1 /\ new[j] = Len(re')
    <3>1. tok \in [0 .. Len(pattern) -> Nat] /\ tok[j - 1] = Len(re)
      BY <2>5 DEF Emits
    <3>2. j \in 0 .. Len(pattern) /\ j - 1 \in 0 .. Len(pattern) /\ j # j - 1
      BY <1>0, <2>4
    <3> QED BY <2>6, <2>7, <3>1, <3>2
  <2>9. pattern' = pattern /\ \A v : TypesOf(v)' = TypesOf(v)
    BY <2>1, SameInputs
  <2>10. mp'[varname] = cnt + 1 /\ \A u \in DOMAIN mp : mp'[u] = mp[u]
    BY <2>1 DEF Numbered
  <2>11. cnt + 1 = GroupsIn(re', Len(re'))
    BY <2>1 DEF Typed
  <2>12. Emit(new, j)'
    <3>1. type \in TypesOf(Between(pattern, j)) /\ re'[new[j]] = Regex[type]
      BY <2>2, <2>3, <2>4, <2>7, <2>8
    <3>2. mp'[Between(pattern, j)] = GroupsIn(re', new[j])
      BY <2>3, <2>4, <2>8, <2>10, <2>11
    <3> QED BY <2>1, <2>4, <2>8, <2>9, <3>1, <3>2 DEF Emit
  <2>13. Emits(new, m)'
    <3>1. Len(re) <= Len(re')
      BY <1>0, <2>7
    <3>2. \A k \in Named(pattern) : k < j => mp'[Between(pattern, k)] = mp[Between(pattern, k)]
      BY <2>3, <2>4, <2>10 DEF Known, Variables
    <3> QED BY <1>0, <2>1, <2>4, <2>5, <2>6, <2>7, <2>12, <3>1, <3>2, EmitGoesOn
  <2> QED BY <1>6, <2>1, <2>4, <2>5, <2>13
<1>10. CASE PatternEnds
  <2>1. pc = "pattern" /\ pc' = "match" /\ i > Len(pattern) /\ UNCHANGED <<inputs, mp, re>>
    BY <1>10 DEF PatternEnds, regex
  <2>2. i = Len(pattern) + 1 /\ pattern' = pattern
    BY <1>0, <2>1 DEF BracketsSoFar, At, inputs
  <2>3. PICK tok, m : Emits(tok, m) /\ m = i
    BY <2>1 DEF RegexSoFar, Scanned
  <2>4. Emits(tok, m)'
    BY <2>1, <2>3, EmitStays
  <2>5. Emits(tok, Scanned)'
    BY <2>1, <2>2, <2>3, <2>4 DEF Emits, Scanned
  <2> QED BY <2>1, <2>5 DEF RegexSoFar, Past
<1>11. CASE NoMatch \/ Match
  <2>1. pc = "match" /\ pc' \in {"skipped", "target"} /\ UNCHANGED <<inputs, mp, re, cnt>>
    BY <1>11 DEF NoMatch, Match, regex
  <2>2. Scanned' = Scanned /\ Scanned = Len(pattern) + 1
    BY <2>1 DEF Scanned, inputs
  <2>3. PICK tok, m : Emits(tok, m) /\ m = Scanned
    BY <2>1 DEF RegexSoFar, Past
  <2>4. Emits(tok, m)'
    BY <2>1, <2>3, EmitStays
  <2>5. Emits(tok, Scanned)'
    BY <2>2, <2>3, <2>4 DEF Emits
  <2>6. pc' = "target" => name' \in FileNames /\ \E cut : MatchedAs(cut)'
    <3>1. SUFFICES ASSUME pc' = "target" PROVE name' \in FileNames /\ \E cut : MatchedAs(cut)'
      OBVIOUS
    <3>2. PICK cut : cut = Greedy(Cuts(re, name'))
      OBVIOUS
    <3>3. /\ name' \in FileNames /\ Cuts(re, name') # {}
          /\ match' = [k \in 1 .. cnt |-> Part(name', cut, Group(re, k))]
      BY <1>11, <3>1, <3>2 DEF NoMatch, Match
    <3>4. cut \in Cuts(re, name')
      <4>1. Len(re) \in Nat /\ Len(name') \in Nat
        BY <1>0, <3>3 DEF TemplateAssumption
      <4> QED BY <3>2, <3>3, <4>1, GreedyIs
    <3>5. MatchedAs(cut)'
      BY <2>1, <3>3, <3>4 DEF MatchedAs
    <3> QED BY <3>3, <3>5
  <2> QED BY <2>1, <2>5, <2>6 DEF RegexSoFar
<1>12. CASE (Opens \/ InName \/ TargetLiteral \/ Substitute \/ TargetEnds) /\ pc = "target"
  <2>1. pc' \in {"target", "renamed"} /\ UNCHANGED <<inputs, regex, file>>
    BY <1>12 DEF Opens, InName, TargetLiteral, Substitute, Leave, TargetEnds, Stay
  <2>2. Scanned' = Scanned
    BY <1>12, <2>1 DEF Scanned, inputs
  <2> QED BY <1>1, <1>12, <2>1, <2>2 DEF Past
<1>13. CASE Terminated
  BY <1>2, <1>13 DEF Terminated
<1>14. /\ (Opens \/ InName) => pc \in {"pattern", "target"}
       /\ (TargetLiteral \/ Substitute \/ TargetEnds) => pc = "target"
  BY DEF Opens, InName, Reading, TargetLiteral, Substitute, TargetEnds, Closes
<1> QED
  BY <1>2, <1>3, <1>4, <1>5, <1>7, <1>8, <1>9, <1>10, <1>11, <1>12, <1>13, <1>14 DEF Next

-----------------------------------------------------------------------------
(* What the groups of a match have caught is where the variables are.        *)

LEMMA OneType ==
    ASSUME NEW v, NEW a \in TypesOf(v), NEW b \in TypesOf(v)
    PROVE  a = b
<1>1. <<a>> = <<b>>
  BY DEF TypesOf
<1>2. <<a>>[1] = a /\ <<b>>[1] = b
  OBVIOUS
<1> QED BY <1>1, <1>2

LEMMA FitsItself ==
    ASSUME TemplateAssumption, NEW c \in Plain, NEW w, Fits(c, w)
    PROVE  w = <<c>>
<1>1. c \notin Groups
  BY DEF TemplateAssumption, Plain
<1>2. c # Regex.string /\ c # Regex.alpha /\ c # Regex.digit /\ c # Regex.float
  BY <1>1 DEF Groups, Types, Regex
<1> QED BY <1>2 DEF Fits

LEMMA CaughtAt ==
    ASSUME IniFileAssumption, TemplateAssumption, Typed, BracketsSoFar, pc \in {"target", "renamed"},
           NEW tok, Emits(tok, Len(pattern) + 1), NEW cut, MatchedAs(cut), name \in FileNames,
           NEW k \in Named(pattern)
    PROVE  /\ tok[k] \in 1 .. Len(re)
           /\ Captured(Between(pattern, k)) = Part(name, cut, tok[k])
           /\ \A type \in TypesOf(Between(pattern, k)) : Fits(Regex[type], Part(name, cut, tok[k]))
<1>0. /\ Len(pattern) \in Nat /\ Len(re) \in Nat /\ Len(name) \in Nat
      /\ k \in 1 .. Len(pattern) /\ k < Len(pattern) + 1 /\ pattern[k] = Close
  <2>1. Len(name) \in Nat
    BY DEF TemplateAssumption
  <2>2. Len(re) \in Nat
    BY DEF Typed, TypeOK
  <2> QED BY <2>1, <2>2, AlwaysTexts DEF Named
<1>1. tok \in [0 .. Len(pattern) -> Nat] /\ tok[k] <= Len(re) /\ Emit(tok, k)
  BY <1>0 DEF Emits
<1>2. PICK type \in TypesOf(Between(pattern, k)) : re[tok[k]] = Regex[type]
  BY <1>0, <1>1 DEF Emit
<1>3. tok[k] \in 1 .. Len(re)
  <2>1. tok[k] = tok[k - 1] + 1 /\ tok[k - 1] \in Nat
    <3>1. k - 1 \in 0 .. Len(pattern)
      BY <1>0
    <3> QED BY <1>0, <1>1, <3>1 DEF Emit
  <2> QED BY <1>0, <1>1, <2>1
<1>4. PICK t \in 1 .. Len(re) : t = tok[k]
  BY <1>3
<1>5. re[t] \in Groups
  BY <1>2, <1>4 DEF Groups, TypesOf
<1>6. Group(re, GroupsIn(re, t)) = t
  BY <1>0, <1>5, GroupIs
<1>7. PICK v, n : v = Between(pattern, k) /\ n = mp[v]
  OBVIOUS
<1>8. n = GroupsIn(re, t)
  BY <1>0, <1>1, <1>4, <1>7 DEF Emit
<1>9. n \in 1 .. cnt
  <2>1. v \in DOMAIN mp
    BY <1>0, <1>7 DEF BracketsSoFar, Past, Scanned, Known, Variables
  <2> QED BY <1>7, <2>1 DEF Typed, TypeOK
<1>10. Captured(v) = Part(name, cut, t)
  BY <1>6, <1>7, <1>8, <1>9 DEF Captured, MatchedAs
<1>11. Fits(Regex[type], Part(name, cut, t))
  <2>1. Fits(re[t], Part(name, cut, t))
    BY DEF MatchedAs, Cuts
  <2> QED BY <1>2, <1>4, <2>1
<1>12. \A b \in TypesOf(v) : b = type
  BY <1>7, OneType
<1> QED BY <1>3, <1>4, <1>7, <1>10, <1>11, <1>12

(* The part of the name that the k-th character of the pattern stands for.   *)
OldPiece(k) ==
    CASE pattern[k] = Close -> Captured(Between(pattern, k))
      [] pattern[k] = Open  -> <<>>
      [] OTHER -> IF Inside(pattern, k) THEN <<>> ELSE <<pattern[k]>>

LEMMA PieceCaught ==
    ASSUME IniFileAssumption, TemplateAssumption, Typed, BracketsSoFar, pc \in {"target", "renamed"},
           NEW tok, Emits(tok, Len(pattern) + 1), NEW cut, MatchedAs(cut), name \in FileNames,
           NEW k \in 1 .. Len(pattern)
    PROVE  /\ OldPiece(k) \in Texts
           /\ SubSeq(name, 1, cut[tok[k]]) = SubSeq(name, 1, cut[tok[k - 1]]) \o OldPiece(k)
<1>0. /\ Len(pattern) \in Nat /\ pattern \in Seq(Plain \cup {Open, Close}) /\ Open # Close
      /\ re \in Seq(Plain \cup Groups) /\ name \in Seq(Plain) /\ cut \in Cuts(re, name)
      /\ k < Len(pattern) + 1 /\ Len(re) \in Nat
  <2>1. name \in Seq(Plain)
    BY DEF TemplateAssumption
  <2>2. re \in Seq(Plain \cup Groups) /\ Len(re) \in Nat
    BY DEF Typed, TypeOK
  <2>3. cut \in Cuts(re, name)
    BY DEF MatchedAs
  <2>4. Len(pattern) \in Nat /\ pattern \in Seq(Plain \cup {Open, Close}) /\ Open # Close
    BY AlwaysTexts, Brackets2
  <2> QED BY <2>1, <2>2, <2>3, <2>4
<1>1. tok \in [0 .. Len(pattern) -> Nat] /\ tok[k] <= Len(re) /\ Emit(tok, k)
  BY <1>0 DEF Emits
<1>2. PICK t, u \in Nat : t = tok[k] /\ u = tok[k - 1] /\ t <= Len(re)
  <2>1. k \in 0 .. Len(pattern) /\ k - 1 \in 0 .. Len(pattern)
    BY <1>0
  <2> QED BY <1>1, <2>1
<1>21. t = u + 1 => t \in 1 .. Len(re) /\ t - 1 = u
  <2>1. PICK L : L = Len(re) /\ L \in Nat /\ t <= L
    BY <1>0, <1>2
  <2>2. t = u + 1 => t \in 1 .. L /\ t - 1 = u
    BY <2>1
  <2> QED BY <2>1, <2>2
<1>3. ASSUME t = u + 1, OldPiece(k) = Part(name, cut, t)
      PROVE  /\ OldPiece(k) \in Texts
             /\ SubSeq(name, 1, cut[t]) = SubSeq(name, 1, cut[u]) \o OldPiece(k)
  <2>1. t \in 1 .. Len(re) /\ t - 1 = u
    BY <1>21, <1>3
  <2>2. SubSeq(name, 1, cut[t]) = SubSeq(name, 1, cut[t - 1]) \o Part(name, cut, t)
    BY <1>0, <2>1, CutGoesOn
  <2>3. Part(name, cut, t) \in Seq(Plain)
    BY <1>0, <2>1, CutIs
  <2>4. Part(name, cut, t) \in Texts
    BY <2>3 DEF Texts, Plain
  <2> QED BY <1>3, <2>1, <2>2, <2>4
<1>4. ASSUME t = u, OldPiece(k) = <<>>
      PROVE  /\ OldPiece(k) \in Texts
             /\ SubSeq(name, 1, cut[t]) = SubSeq(name, 1, cut[u]) \o OldPiece(k)
  <2>1. cut[t] \in 0 .. Len(name)
    BY <1>0, <1>2 DEF Cuts
  <2>2. PICK w : w = SubSeq(name, 1, cut[t]) /\ w \in Seq(Plain)
    BY <1>0, <2>1, Prefix
  <2>3. w \o <<>> = w /\ <<>> \in Texts
    BY <2>2 DEF Texts
  <2> QED BY <1>4, <2>2, <2>3
<1>5. CASE pattern[k] = Close
  <2>1. k \in Named(pattern)
    BY <1>5 DEF Named
  <2>2. Captured(Between(pattern, k)) = Part(name, cut, t)
    BY <1>2, <2>1, CaughtAt
  <2>3. OldPiece(k) = Captured(Between(pattern, k))
    BY <1>0, <1>5 DEF OldPiece
  <2>4. t = u + 1
    BY <1>1, <1>2, <1>5 DEF Emit
  <2> QED BY <1>2, <1>3, <2>2, <2>3, <2>4
<1>6. CASE pattern[k] # Close /\ (pattern[k] = Open \/ Inside(pattern, k))
  <2>1. OldPiece(k) = <<>>
    BY <1>6 DEF OldPiece
  <2>2. t = u
    BY <1>1, <1>2, <1>6 DEF Emit
  <2> QED BY <1>2, <1>4, <2>1, <2>2
<1>7. CASE pattern[k] # Close /\ pattern[k] # Open /\ ~ Inside(pattern, k)
  <2>1. PICK c : c = pattern[k] /\ c \in Plain
    BY <1>0, <1>7
  <2>2. t = u + 1 /\ re[t] = c
    BY <1>1, <1>2, <1>7, <2>1 DEF Emit
  <2>3. t \in 1 .. Len(re)
    BY <1>21, <2>2
  <2>4. Fits(c, Part(name, cut, t))
    BY <1>0, <2>2, <2>3 DEF Cuts
  <2>5. Part(name, cut, t) = <<c>>
    BY <2>1, <2>4, FitsItself
  <2>6. OldPiece(k) = <<c>>
    BY <1>7, <2>1 DEF OldPiece
  <2> QED BY <1>2, <1>3, <2>2, <2>5, <2>6
<1> QED BY <1>5, <1>6, <1>7

LEMMA NameRestored ==
    ASSUME IniFileAssumption, TemplateAssumption, Typed, BracketsSoFar, pc \in {"target", "renamed"},
           NEW tok, Emits(tok, Len(pattern) + 1), NEW cut, MatchedAs(cut), name \in FileNames
    PROVE  name = Filled(pattern, Captured)
<1>1. Len(pattern) \in Nat /\ tok \in [0 .. Len(pattern) -> Nat] /\ tok[0] = 0
      /\ tok[Len(pattern)] = Len(re) /\ name \in Seq(Plain) /\ cut \in Cuts(re, name)
  <2>1. PICK L \in Nat : L = Len(pattern) /\ (L + 1) - 1 = L
    BY AlwaysTexts
  <2>2. name \in Seq(Plain)
    BY DEF TemplateAssumption
  <2>3. cut \in Cuts(re, name)
    BY DEF MatchedAs
  <2>4. tok \in [0 .. L -> Nat] /\ tok[0] = 0 /\ tok[(L + 1) - 1] = Len(re)
    BY <2>1 DEF Emits
  <2> QED BY <2>1, <2>2, <2>3, <2>4
<1> DEFINE q == [k \in 1 .. Len(pattern) |-> OldPiece(k)]
<1>2. FlattenSeq(q) = Filled(pattern, Captured)
  BY DEF Filled, OldPiece, Inside
<1>3. PICK m \in Nat : m = Len(pattern)
  BY <1>1
<1>4. PICK A : Texts = Seq(A)
  BY DEF Texts
<1>5. PICK p : p = q
  OBVIOUS
<1>6. \A k \in 1 .. m : OldPiece(k) \in Texts
  BY <1>3, PieceCaught
<1>7. Len(p) = m /\ p \in Seq(Texts) /\ \A k \in 1 .. m : p[k] = OldPiece(k) /\ p[k] \in Texts
  BY <1>3, <1>5, <1>6
<1> HIDE DEF q
<1>8. PICK g : g \in [0 .. m -> Texts] /\ Grows(g, p, m, <<>>)
  <2>1. <<>> \in Texts /\ \A v, w \in Texts : v \o w \in Texts
    BY DEF Texts
  <2>2. Joinable(p, m, Texts)
    BY <1>7, <2>1 DEF Joinable
  <2>3. PICK e \in Texts : e = <<>>
    BY <2>1
  <2>4. \E g : g \in [0 .. m -> Texts] /\ Grows(g, p, m, e)
    BY <2>2, PieceByPiece
  <2> QED BY <2>3, <2>4
<1>9. FlattenSeq(p) = g[m]
  BY <1>4, <1>7, <1>8, FlattenIs
<1> DEFINE Start(n) == SubSeq(name, 1, cut[tok[n]])
           Wrong == {n \in 0 .. m : g[n] # Start(n)}
<1>10. g[0] = Start(0)
  <2>1. cut[tok[0]] = 0
    BY <1>1 DEF Cuts
  <2>2. SubSeq(name, 1, 0) = <<>>
    BY <1>1, SubSeqEmpty
  <2> QED BY <1>8, <2>1, <2>2 DEF Grows
<1>11. ASSUME NEW n \in 1 .. m, NEW u \in 0 .. m, u = n - 1, g[u] = Start(u)
       PROVE  g[n] = Start(n)
  <2>1. Start(n) = SubSeq(name, 1, cut[tok[n - 1]]) \o OldPiece(n)
    BY <1>3, PieceCaught
  <2>2. g[n] = g[n - 1] \o p[n] /\ p[n] = OldPiece(n)
    BY <1>7, <1>8 DEF Grows
  <2> QED BY <1>11, <2>1, <2>2
<1>12. Wrong = {}
  <2> HIDE DEF Start
  <2>1. SUFFICES ASSUME Wrong # {} PROVE FALSE
    OBVIOUS
  <2>2. Wrong \subseteq Nat
    OBVIOUS
  <2>3. PICK n \in Wrong : \A k \in Wrong : n <= k
    <3> HIDE DEF Wrong
    <3> QED BY <2>1, <2>2, LeastNat
  <2>4. n \in 0 .. m /\ g[n] # Start(n) /\ n # 0
    BY <1>10
  <2>5. PICK u \in 0 .. m : u = n - 1 /\ n \in 1 .. m /\ ~ (n <= u)
    BY <2>4
  <2>6. g[u] = Start(u)
    BY <2>3, <2>5
  <2> QED BY <1>11, <2>4, <2>5, <2>6
<1>13. g[m] = SubSeq(name, 1, cut[tok[m]])
  <2>1. m \in 0 .. m
    OBVIOUS
  <2>2. ~ (g[m] # Start(m))
    <3> HIDE DEF Start
    <3> QED BY <1>12, <2>1
  <2> QED BY <2>2
<1>14. cut[tok[m]] = Len(name)
  BY <1>1, <1>3 DEF Cuts
<1>15. SubSeq(name, 1, Len(name)) = name
  BY <1>1
<1> QED BY <1>2, <1>5, <1>9, <1>13, <1>14, <1>15

(* What the variables caught, put into the pattern in their places, is the   *)
(* name of the file, and each caught a text of its type, for every pattern,  *)
(* number of groups and name (lib.cpp:119-176, Renamer.cpp:77-86).           *)
THEOREM CapturesAreExact == Spec => []CapturesRestoreName
<1>1. Init => Typed /\ BracketsSoFar /\ RegexSoFar
  BY IniFileAssumption, TemplateAssumption, TypedInit, BracketsInit, RegexInit
<1>2. Typed /\ BracketsSoFar /\ RegexSoFar /\ [Next]_vars => (Typed /\ BracketsSoFar /\ RegexSoFar)'
  <2>1. Typed /\ BracketsSoFar /\ [Next]_vars => Typed' /\ BracketsSoFar'
    BY IniFileAssumption, TemplateAssumption, TypedStep, BracketsStep
  <2> QED BY <2>1, IniFileAssumption, TemplateAssumption, RegexStep
<1>3. Typed /\ BracketsSoFar /\ RegexSoFar => CapturesRestoreName
  <2>1. SUFFICES ASSUME Typed, BracketsSoFar, RegexSoFar, pc \in {"target", "renamed"}
                 PROVE  /\ name = Filled(pattern, Captured)
                        /\ \A v \in DOMAIN mp : \A type \in TypesOf(v) :
                              Fits(Regex[type], Captured(v))
    BY DEF CapturesRestoreName
  <2>2. PICK tok : Emits(tok, Len(pattern) + 1)
    BY <2>1 DEF RegexSoFar, Past, Scanned
  <2>3. PICK cut : MatchedAs(cut) /\ name \in FileNames
    BY <2>1 DEF RegexSoFar
  <2>4. name = Filled(pattern, Captured)
    BY <2>1, <2>2, <2>3, IniFileAssumption, TemplateAssumption, NameRestored
  <2>5. ASSUME NEW v \in DOMAIN mp, NEW type \in TypesOf(v) PROVE Fits(Regex[type], Captured(v))
    <3>1. PICK k \in Named(pattern) : v = Between(pattern, k)
      BY <2>1 DEF BracketsSoFar, Past, Scanned, Known, Variables
    <3> QED BY <2>1, <2>2, <2>3, <3>1, IniFileAssumption, TemplateAssumption, CaughtAt
  <2> QED BY <2>4, <2>5
<1> QED BY <1>1, <1>2, <1>3, PTL DEF Spec
=============================================================================
