-------------------------- MODULE AuthorizerProofs --------------------------
(* Theorems about Authorizer for every set of paths, all texts, credentials  *)
(* and directives.                                                           *)
EXTENDS Authorizer, NatLemmas, SequenceTheorems, FiniteSetTheorems, TLAPS

-----------------------------------------------------------------------------
(* Lines.                                                                    *)

Bare(s) == \A j \in 1 .. Len(s) : s[j] # Sharp
IsComment(s) == s = <<>> \/ s[1] = Sharp

LEMMA SharpIs ==
    ASSUME NEW s \in Line
    PROVE  /\ SharpAt(s) \in 1 .. Len(s) + 1
           /\ SharpAt(s) <= Len(s) => s[SharpAt(s)] = Sharp
           /\ \A j \in 1 .. SharpAt(s) - 1 : s[j] # Sharp
<1> DEFINE T == {k \in 1 .. Len(s) : s[k] = Sharp} \cup {Len(s) + 1}
<1>1. Len(s) \in Nat
  BY DEF Line
<1>2. T \subseteq Nat /\ T # {}
  BY <1>1
<1>3. Min(T) \in T /\ \A x \in T : Min(T) <= x
  <2> HIDE DEF T
  <2> QED BY <1>2, MinIsLeast
<1>4. SharpAt(s) = Min(T)
  BY DEF SharpAt
<1>5. \A j \in 1 .. SharpAt(s) - 1 : s[j] # Sharp
  BY <1>1, <1>3, <1>4
<1>6. SharpAt(s) \in T
  BY <1>3, <1>4
<1> HIDE DEF T
<1>7. SharpAt(s) \in 1 .. Len(s) + 1 /\ (SharpAt(s) <= Len(s) => s[SharpAt(s)] = Sharp)
  BY <1>1, <1>6 DEF T
<1> QED
  BY <1>5, <1>7

(* What a line is split into.                                                *)
LEMMA SplitLine ==
    ASSUME NEW s \in Line
    PROVE  /\ Code(s) \in Line /\ Bare(Code(s))
           /\ Comment(s) \in Line /\ IsComment(Comment(s))
<1>1. SharpAt(s) \in 1 .. Len(s) + 1 /\ Len(s) \in Nat /\ s \in Seq(Char)
  BY SharpIs DEF Line
<1>2. /\ Code(s) \in Line /\ Len(Code(s)) = SharpAt(s) - 1
      /\ \A j \in 1 .. SharpAt(s) - 1 : Code(s)[j] = s[j]
  BY <1>1, SubSeqProperties DEF Code, Line
<1>3. Bare(Code(s))
  BY <1>2, SharpIs DEF Bare
<1>4. /\ Comment(s) \in Line /\ Len(Comment(s)) = Len(s) + 1 - SharpAt(s)
      /\ \A j \in 1 .. Len(s) + 1 - SharpAt(s) : Comment(s)[j] = s[SharpAt(s) + j - 1]
  BY <1>1, SubSeqProperties DEF Comment, Line
<1>5. IsComment(Comment(s))
  <2>1. CASE SharpAt(s) = Len(s) + 1
    BY <2>1, <1>4, EmptySeq DEF IsComment, Line
  <2>2. CASE SharpAt(s) <= Len(s)
    BY <2>2, <1>1, <1>4, SharpIs DEF IsComment
  <2> QED BY <1>1, <2>1, <2>2
<1> QED BY <1>2, <1>3, <1>4, <1>5

(* A line that is put together again is read as before.                      *)
LEMMA CodeAgain ==
    ASSUME NEW s \in Line, Bare(s), NEW c \in Line, IsComment(c)
    PROVE  s \o c \in Line /\ Code(s \o c) = s
<1> DEFINE t == s \o c
<1>1. /\ t \in Line /\ Len(t) = Len(s) + Len(c) /\ Len(s) \in Nat /\ Len(c) \in Nat
      /\ \A j \in 1 .. Len(s) + Len(c) : t[j] = IF j <= Len(s) THEN s[j] ELSE c[j - Len(s)]
  BY ConcatProperties DEF Line
<1> HIDE DEF t
<1>2. SharpAt(t) = Len(s) + 1
  <2>1. ASSUME SharpAt(t) <= Len(s) PROVE FALSE
    BY <2>1, <1>1, SharpIs DEF Bare
  <2>2. ASSUME SharpAt(t) > Len(s) + 1 PROVE FALSE
    <3>1. SharpAt(t) \in 1 .. Len(t) + 1
      BY <1>1, SharpIs
    <3>2. Len(c) >= 1 /\ c[1] = Sharp
      BY <2>2, <3>1, <1>1 DEF IsComment
    <3>3. t[Len(s) + 1] = Sharp
      BY <3>2, <1>1
    <3> QED
      BY <3>1, <3>2, <3>3, <2>2, <1>1, SharpIs
  <2>3. SharpAt(t) \in 1 .. Len(t) + 1
    BY <1>1, SharpIs
  <2> QED BY <2>1, <2>2, <2>3, <1>1
<1>3. Code(t) = SubSeq(t, 1, Len(s))
  BY <1>1, <1>2 DEF Code
<1>4. Code(t) \in Line /\ Len(Code(t)) = Len(s) /\ \A j \in 1 .. Len(s) : Code(t)[j] = t[j]
  BY <1>1, <1>3, SubSeqProperties DEF Line
<1>5. Code(t) = s
  BY <1>1, <1>4, SeqEqual DEF Line
<1> QED BY <1>1, <1>5 DEF t

(* The next directive.                                                       *)
LEMMA NextHit ==
    ASSUME NEW s \in Line, NEW k \in Nat \ {0}, Hits(s, k) # {}
    PROVE  /\ Behind(s, k) \in Nat
           /\ Behind(s, k) >= k + Len(Directive) /\ Behind(s, k) <= Len(s) + 1
           /\ OccursAt(Directive, s, Behind(s, k) - Len(Directive))
           /\ \A j \in k .. Behind(s, k) - Len(Directive) - 1 : ~OccursAt(Directive, s, j)
<1>1. Len(s) \in Nat /\ Len(Directive) \in Nat
  BY AuthorizerAssumption DEF Line
<1>2. Hits(s, k) \subseteq Nat
  BY <1>1 DEF Hits, Occurrences
<1>3. Min(Hits(s, k)) \in Hits(s, k) /\ \A x \in Hits(s, k) : Min(Hits(s, k)) <= x
  BY <1>2, MinIsLeast
<1>4. /\ Min(Hits(s, k)) \in k .. Len(s) + 1
      /\ OccursAt(Directive, s, Min(Hits(s, k)))
  BY <1>3 DEF Hits, Occurrences
<1>5. \A j \in k .. Min(Hits(s, k)) - 1 : ~OccursAt(Directive, s, j)
  <2> SUFFICES ASSUME NEW j \in k .. Min(Hits(s, k)) - 1, OccursAt(Directive, s, j)
               PROVE  FALSE
    OBVIOUS
  <2>1. j \in Hits(s, k)
    BY <1>1, <1>4 DEF Hits, Occurrences
  <2> QED BY <1>1, <1>3, <1>4, <2>1
<1>6. Behind(s, k) - Len(Directive) = Min(Hits(s, k))
  BY <1>1, <1>4 DEF Behind
<1>7. Min(Hits(s, k)) + Len(Directive) - 1 <= Len(s)
  BY <1>4 DEF OccursAt
<1> QED
  BY <1>1, <1>4, <1>5, <1>6, <1>7 DEF Behind

(* A directive at the right place is the next one.                           *)
LEMMA HitIs ==
    ASSUME NEW s \in Line, NEW k \in Nat \ {0}, NEW d \in Nat, d >= k,
           OccursAt(Directive, s, d),
           \A j \in k .. d - 1 : ~OccursAt(Directive, s, j)
    PROVE  Hits(s, k) # {} /\ Behind(s, k) = d + Len(Directive)
<1>1. Len(s) \in Nat /\ Len(Directive) \in Nat /\ Len(Directive) >= 2
  BY AuthorizerAssumption DEF Line
<1>2. d \in Hits(s, k)
  BY <1>1 DEF Hits, Occurrences, OccursAt
<1>3. Hits(s, k) \subseteq Int /\ \A x \in Hits(s, k) : d <= x
  BY <1>1 DEF Hits, Occurrences
<1>4. Min(Hits(s, k)) = d
  BY <1>2, <1>3, MinIs
<1> QED BY <1>2, <1>4 DEF Behind

LEMMA InsertionLength ==
    ASSUME credential \in Line
    PROVE  Len(Insertion) \in Nat /\ Len(Insertion) = Len(credential) + 1
<1>1. <<Blank>> \in Seq({Blank} \cup Char) /\ Len(<<Blank>>) = 1
  OBVIOUS
<1>2. credential \in Seq({Blank} \cup Char) /\ Len(credential) \in Nat
  BY DEF Line
<1> QED BY <1>1, <1>2, ConcatProperties DEF Insertion

(* The places of two lines one behind the other.                             *)
LEMMA PlacesOfConcat ==
    ASSUME NEW S, NEW u \in Seq(S), NEW v \in Seq(S)
    PROVE  /\ u \o v \in Seq(S) /\ Len(u \o v) = Len(u) + Len(v)
           /\ \A j \in 1 .. Len(u) : (u \o v)[j] = u[j]
           /\ \A j \in 1 .. Len(v) : (u \o v)[Len(u) + j] = v[j]
<1> DEFINE t == u \o v
           m == Len(u)
           n == Len(v)
<1>1. /\ t \in Seq(S) /\ Len(t) = m + n
      /\ \A j \in 1 .. m + n : t[j] = IF j <= m THEN u[j] ELSE v[j - m]
  BY ConcatProperties
<1>2. m \in Nat /\ n \in Nat
  OBVIOUS
<1> HIDE DEF t, m, n
<1>3. ASSUME NEW j \in 1 .. m PROVE t[j] = u[j]
  <2>1. j \in 1 .. m + n /\ j <= m
    BY <1>2
  <2> QED BY <2>1, <1>1
<1>4. ASSUME NEW j \in 1 .. n PROVE t[m + j] = v[j]
  <2>1. PICK p \in Int : p = m + j
    BY <1>2
  <2>2. p \in 1 .. m + n /\ ~ (p <= m) /\ p - m = j
    BY <1>2, <2>1
  <2>3. t[p] = v[p - m]
    BY <1>1, <2>2
  <2> QED BY <2>1, <2>2, <2>3
<1> QED BY <1>1, <1>3, <1>4 DEF t, m, n

(* What inserting the credential before position k makes of a line.          *)
LEMMA InsertedLine ==
    ASSUME NEW s \in Line, NEW k \in 1 .. Len(s) + 1, credential \in Line
    PROVE  LET t == Inserted(s, k)
               w == Len(credential) + 1
           IN  /\ t \in Line /\ Len(t) = Len(s) + w /\ Len(Insertion) = w
               /\ \A j \in 1 .. k - 1 : t[j] = s[j]
               /\ t[k] = Blank
               /\ \A j \in 1 .. Len(credential) : t[k + j] = credential[j]
               /\ \A j \in 1 .. w : t[k + j - 1] = Insertion[j]
               /\ \A j \in k .. Len(s) : t[j + w] = s[j]
<1> DEFINE a == SubSeq(s, 1, k - 1)
           b == SubSeq(s, k, Len(s))
           i == Insertion
           w == Len(credential) + 1
           t == Inserted(s, k)
<1>0. s \in Seq(Char) /\ credential \in Seq(Char) /\ Len(s) \in Nat /\ Len(credential) \in Nat
  BY DEF Line
<1>1. a \in Seq(Char) /\ Len(a) = k - 1 /\ \A j \in 1 .. k - 1 : a[j] = s[j]
  BY <1>0, SubSeqProperties
<1>2. b \in Seq(Char) /\ Len(b) = Len(s) + 1 - k
      /\ \A j \in 1 .. Len(b) : b[j] = s[k + j - 1]
  BY <1>0, SubSeqProperties
<1>3. /\ i \in Seq(Char) /\ Len(i) = w /\ i[1] = Blank
      /\ \A j \in 1 .. Len(credential) : i[j + 1] = credential[j]
  <2>1. <<Blank>> \in Seq(Char) /\ Len(<<Blank>>) = 1 /\ <<Blank>>[1] = Blank
    BY AuthorizerAssumption DEF Char
  <2>2. /\ i \in Seq(Char) /\ Len(i) = 1 + Len(credential)
        /\ \A j \in 1 .. 1 + Len(credential) :
              i[j] = IF j <= 1 THEN <<Blank>>[j] ELSE credential[j - 1]
    BY <1>0, <2>1, ConcatProperties DEF Insertion
  <2> HIDE DEF i
  <2>3. ASSUME NEW j \in 1 .. Len(credential) PROVE i[j + 1] = credential[j]
    <3>1. j + 1 \in 1 .. 1 + Len(credential) /\ ~(j + 1 <= 1) /\ (j + 1) - 1 = j
      BY <1>0
    <3> QED BY <2>2, <3>1
  <2> QED BY <1>0, <2>1, <2>2, <2>3
<1>4. t = (a \o i) \o b
  BY DEF Inserted
<1> HIDE DEF a, b, i, t
<1> DEFINE ai == a \o i
<1>5. /\ ai \in Seq(Char) /\ Len(ai) = k - 1 + w
      /\ \A j \in 1 .. k - 1 : ai[j] = s[j]
      /\ \A j \in 1 .. w : ai[k + j - 1] = i[j]
  <2>1. /\ ai \in Seq(Char) /\ Len(ai) = Len(a) + Len(i)
        /\ \A j \in 1 .. Len(a) : ai[j] = a[j]
        /\ \A j \in 1 .. Len(i) : ai[Len(a) + j] = i[j]
    <3>1. a \in Seq(Char) /\ i \in Seq(Char)
      BY <1>1, <1>3
    <3> QED BY <3>1, PlacesOfConcat
  <2> HIDE DEF ai
  <2>2. ASSUME NEW j \in 1 .. w PROVE ai[k + j - 1] = i[j]
    <3>1. k + j - 1 = Len(a) + j
      BY <1>0, <1>1
    <3>2. ai[Len(a) + j] = i[j]
      BY <1>3, <2>1
    <3> QED BY <3>1, <3>2
  <2>3. ASSUME NEW j \in 1 .. k - 1 PROVE ai[j] = s[j]
    <3>1. ai[j] = a[j]
      BY <1>1, <2>1
    <3> QED BY <3>1, <1>1
  <2>4. Len(ai) = k - 1 + w
    BY <1>0, <1>1, <1>3, <2>1
  <2> QED BY <2>1, <2>2, <2>3, <2>4
<1> HIDE DEF ai
<1>6. /\ t \in Seq(Char) /\ Len(t) = Len(s) + w
      /\ \A j \in 1 .. k - 1 + w : t[j] = ai[j]
      /\ \A j \in 1 .. Len(b) : t[k - 1 + w + j] = b[j]
  <2>1. t = ai \o b
    BY <1>4 DEF ai
  <2>2. /\ t \in Seq(Char) /\ Len(t) = Len(ai) + Len(b)
        /\ \A j \in 1 .. Len(ai) : t[j] = ai[j]
        /\ \A j \in 1 .. Len(b) : t[Len(ai) + j] = b[j]
    <3>1. ai \in Seq(Char) /\ b \in Seq(Char)
      BY <1>2, <1>5
    <3>2. /\ ai \o b \in Seq(Char) /\ Len(ai \o b) = Len(ai) + Len(b)
          /\ \A j \in 1 .. Len(ai) : (ai \o b)[j] = ai[j]
          /\ \A j \in 1 .. Len(b) : (ai \o b)[Len(ai) + j] = b[j]
      BY <3>1, PlacesOfConcat
    <3> QED BY <2>1, <3>2, Zenon
  <2>3. \A j \in 1 .. Len(b) : t[k - 1 + w + j] = b[j]
    BY <1>5, <2>2
  <2>4. \A j \in 1 .. k - 1 + w : t[j] = ai[j]
    BY <1>5, <2>2
  <2>5. Len(t) = Len(s) + w
    BY <1>0, <1>2, <1>5, <2>2
  <2> QED BY <2>2, <2>3, <2>4, <2>5
<1>7. \A j \in 1 .. k - 1 : t[j] = s[j]
  BY <1>0, <1>5, <1>6
<1>8. \A j \in 1 .. w : t[k + j - 1] = i[j]
  <2> SUFFICES ASSUME NEW j \in 1 .. w PROVE t[k + j - 1] = i[j]
    OBVIOUS
  <2>1. PICK p \in Int : p = k + j - 1
    BY <1>0
  <2>2. p \in 1 .. k - 1 + w
    BY <1>0, <2>1
  <2>3. t[p] = ai[p]
    BY <1>6, <2>2
  <2>4. ai[p] = i[j]
    BY <1>5, <2>1
  <2> QED BY <2>1, <2>3, <2>4
<1>9. t[k] = Blank
  <2>1. k + 1 - 1 = k /\ 1 \in 1 .. w
    BY <1>0
  <2> QED BY <1>3, <1>8, <2>1
<1>10. ASSUME NEW j \in 1 .. Len(credential) PROVE t[k + j] = credential[j]
  <2>1. j + 1 \in 1 .. w /\ k + (j + 1) - 1 = k + j
    BY <1>0
  <2> QED BY <1>3, <1>8, <2>1
<1>11. ASSUME NEW j \in k .. Len(s) PROVE t[j + w] = s[j]
  <2>1. j + 1 - k \in 1 .. Len(b) /\ k - 1 + w + (j + 1 - k) = j + w /\ k + (j + 1 - k) - 1 = j
    BY <1>0, <1>2
  <2> QED BY <1>2, <1>6, <2>1
<1> QED
  BY <1>3, <1>6, <1>7, <1>8, <1>9, <1>10, <1>11 DEF i, t, Line

-----------------------------------------------------------------------------
(* Where the program stands relative to the text.                            *)
AtDirective ==
    pc = "confirm" => /\ row <= Len(buf) /\ Hits(buf[row], at) # {}
                      /\ ~Longer(buf[row], Idx) /\ ~Provided(buf[row], Idx) /\ ~dryrun
SearchedAll == pc \in {"open", "retry", "write"} => row > Len(buf)
FileInTurn  == pc \in {"scan", "confirm", "open", "retry", "write"} => file <= Len(Queue)
OutThere    == pc = "write" => disk[out] \in Text
FreshAtNext == pc = "next" => row = 1 /\ at = 1
SameLines   == /\ Len(comment) = Len(buf) /\ Len(orig) = Len(buf)
               /\ \A r \in 1 .. Len(buf) : IsComment(comment[r])

PlaceOK ==
    TypeOK /\ AtDirective /\ SearchedAll /\ FileInTurn /\ OutThere /\ FreshAtNext /\ SameLines

LEMMA FileText ==
    ASSUME TypeOK, file <= Len(Queue), disk[Queue[file]] # Absent
    PROVE  disk[Queue[file]] \in Text
<1>1. file \in 1 .. Len(Queue) /\ Queue \in Seq(Paths)
  BY AuthorizerAssumption DEF TypeOK
<1>2. Queue[file] \in Paths
  BY <1>1, ElementOfSeq
<1> QED
  BY <1>2 DEF TypeOK

LEMMA RowType ==
    ASSUME TypeOK, row <= Len(buf)
    PROVE  row \in 1 .. Len(buf) /\ buf[row] \in Line /\ Len(buf[row]) \in Nat
<1>1. row \in 1 .. Len(buf) /\ buf \in Seq(Line)
  BY DEF TypeOK, Text
<1>2. buf[row] \in Line
  BY <1>1, ElementOfSeq
<1> QED
  BY <1>1, <1>2 DEF Line

(* The text as it is read.                                                   *)
LEMMA ReadText ==
    ASSUME NEW t \in Text
    PROVE  /\ [r \in 1 .. Len(t) |-> Code(t[r])] \in Text
           /\ [r \in 1 .. Len(t) |-> Comment(t[r])] \in Text
           /\ Len([r \in 1 .. Len(t) |-> Code(t[r])]) = Len(t)
           /\ Len([r \in 1 .. Len(t) |-> Comment(t[r])]) = Len(t)
           /\ \A r \in 1 .. Len(t) : IsComment(Comment(t[r])) /\ Bare(Code(t[r]))
<1>1. t \in Seq(Line) /\ Len(t) \in Nat
  BY DEF Text
<1>2. \A r \in 1 .. Len(t) : t[r] \in Line
  BY <1>1, ElementOfSeq
<1>3. \A r \in 1 .. Len(t) : /\ Code(t[r]) \in Line /\ Bare(Code(t[r]))
                             /\ Comment(t[r]) \in Line /\ IsComment(Comment(t[r]))
  BY <1>2, SplitLine
<1> QED
  BY <1>1, <1>3 DEF Text

(* Where the search goes on is a position, and so is idx.                    *)
LEMMA IdxType ==
    ASSUME TypeOK, row <= Len(buf), Hits(buf[row], at) # {}
    PROVE  /\ row \in 1 .. Len(buf) /\ buf[row] \in Line /\ Len(buf[row]) \in Nat
           /\ credential \in Line /\ Len(credential) \in Nat /\ at \in Nat \ {0}
           /\ Idx \in 1 .. Len(buf[row]) + 1 /\ Idx >= at + Len(Directive) /\ Idx > at
           /\ Len(Directive) \in Nat /\ Len(Directive) >= 2
           /\ OccursAt(Directive, buf[row], Idx - Len(Directive))
           /\ \A j \in at .. Idx - Len(Directive) - 1 : ~OccursAt(Directive, buf[row], j)
<1>1. /\ row \in 1 .. Len(buf) /\ buf[row] \in Line /\ Len(buf[row]) \in Nat
      /\ credential \in Line /\ Len(credential) \in Nat /\ at \in Nat \ {0}
  BY RowType DEF TypeOK, Line
<1>2. Len(Directive) \in Nat /\ Len(Directive) >= 2
  BY AuthorizerAssumption
<1> HIDE DEF Hits, Behind
<1>3. /\ Idx \in Nat
      /\ Idx >= at + Len(Directive) /\ Idx <= Len(buf[row]) + 1
      /\ OccursAt(Directive, buf[row], Idx - Len(Directive))
      /\ \A j \in at .. Idx - Len(Directive) - 1 : ~OccursAt(Directive, buf[row], j)
  BY <1>1, NextHit DEF Idx
<1> QED
  BY <1>1, <1>2, <1>3

LEMMA PlaceInit == Init => PlaceOK
<1> SUFFICES ASSUME Init PROVE PlaceOK
  OBVIOUS
<1> USE AuthorizerAssumption
<1>1. disk \in [Paths -> Text \cup {Absent}] /\ credential \in Line /\ dryrun \in BOOLEAN
  BY DEF Init
<1>2. <<>> \in Text
  BY DEF Text
<1>3. file \in 1 .. Len(Queue) + 1
  BY DEF Init
<1>4. TypeOK
  <2>1. foreign \in 0 .. MaxForeignEdits
    BY DEF Init
  <2>2. /\ pc \in {"next", "scan", "confirm", "open", "retry", "write"} \cup Ended
        /\ row \in 1 .. Len(buf) + 1 /\ at \in Nat \ {0}
    BY DEF Init
  <2>3. updated \in BOOLEAN /\ refused \in BOOLEAN
    BY DEF Init
  <2>4. /\ buf \in Text /\ comment \in Text /\ orig \in Text
        /\ settled \subseteq Paths /\ cutoff \subseteq Paths
        /\ out \in Paths /\ wrote \in Nat /\ cnt \in Nat
        /\ holds \in [Paths -> Text \cup {Absent}]
    BY <1>1, <1>2 DEF Init
  <2> QED
    BY <1>1, <1>3, <2>1, <2>2, <2>3, <2>4 DEF TypeOK
<1>5. AtDirective /\ SearchedAll /\ FileInTurn /\ OutThere /\ FreshAtNext /\ SameLines
  BY DEF Init, AtDirective, SearchedAll, FileInTurn, OutThere, FreshAtNext, SameLines
<1> QED
  BY <1>4, <1>5 DEF PlaceOK

(* Leaving a text keeps every type.                                          *)
LEMMA NextFileType ==
    ASSUME PlaceOK, file <= Len(Queue), ToNextFile,
           UNCHANGED <<foreign, credential, dryrun>>,
           settled' \subseteq Paths, cutoff' \subseteq Paths, cnt' \in Nat, wrote' \in Nat, out' \in Paths,
           disk' \in [Paths -> Text \cup {Absent}],
           holds' \in [Paths -> Text \cup {Absent}]
    PROVE  PlaceOK'
<1> USE AuthorizerAssumption
<1>1. <<>> \in Text
  BY DEF Text
<1>2. file' \in 1 .. Len(Queue) + 1
  BY DEF ToNextFile, PlaceOK, TypeOK
<1>3. TypeOK'
  <2>1. /\ foreign' \in 0 .. MaxForeignEdits /\ dryrun' \in BOOLEAN /\ credential' \in Line
    BY DEF PlaceOK, TypeOK
  <2>2. /\ pc' \in {"next", "scan", "confirm", "open", "retry", "write"} \cup Ended
        /\ row' \in 1 .. Len(buf') + 1 /\ at' \in Nat \ {0}
    BY DEF ToNextFile
  <2>3. updated' \in BOOLEAN /\ refused' \in BOOLEAN
    BY DEF ToNextFile
  <2>4. buf' \in Text /\ comment' \in Text /\ orig' \in Text
    BY <1>1 DEF ToNextFile
  <2> QED
    BY <1>2, <2>1, <2>2, <2>3, <2>4 DEF TypeOK
<1>4. (AtDirective /\ SearchedAll /\ FileInTurn /\ OutThere /\ FreshAtNext /\ SameLines)'
  BY DEF ToNextFile, AtDirective, SearchedAll, FileInTurn, OutThere, FreshAtNext, SameLines
<1> QED
  BY <1>3, <1>4 DEF PlaceOK

LEMMA OptionsKept == [Next]_vars => UNCHANGED options
BY DEF Next, Program, vars, world, NoDot, Unsupported, CannotOpen, ReadFile, PassLonger,
       AlreadyThere, ShowOnly, AskToAppend, ConfirmAppend, DeclineAppend, NextLine, NoUpdates,
       AssignOutput, OpenOutput, OpenFails, RetryOutput, GiveUp, WriteLine, WriteFails,
       CloseOutput, Summary, Kill, ForeignStore, Terminated

(* The search goes on behind what was found.                                 *)
LEMMA StepType ==
    ASSUME TypeOK, row <= Len(buf), Hits(buf[row], at) # {}
    PROVE  /\ at' = Idx => at' \in Nat \ {0} /\ at' > at
           /\ StepOver => at' \in Nat \ {0} /\ at' > at
<1>1. Idx \in Nat /\ Len(credential) \in Nat /\ Idx > at /\ at \in Nat \ {0}
  BY IdxType
<1> QED BY <1>1 DEF StepOver

LEMMA PlaceStep == PlaceOK /\ [Next]_vars => PlaceOK'
<1> SUFFICES ASSUME PlaceOK, [Next]_vars PROVE PlaceOK'
  OBVIOUS
<1> USE AuthorizerAssumption
<1>a. TypeOK /\ AtDirective /\ SearchedAll /\ FileInTurn /\ OutThere /\ FreshAtNext /\ SameLines
  BY DEF PlaceOK
<1>b. buf \in Seq(Line) /\ Len(buf) \in Nat /\ row \in 1 .. Len(buf) + 1
  BY <1>a DEF TypeOK, Text
<1>1. CASE NoDot \/ Kill \/ Summary
  BY <1>1, <1>a DEF NoDot, Kill, Summary, PlaceOK, TypeOK, AtDirective, SearchedAll, FileInTurn,
                    OutThere, FreshAtNext, SameLines, Ended, world, options, editing, writing
<1>2. CASE Unsupported \/ CannotOpen
  BY <1>2, <1>a, NextFileType DEF Unsupported, CannotOpen, TypeOK, world, options, writing
<1>3. CASE NoUpdates \/ GiveUp
  BY <1>3, <1>a, NextFileType DEF NoUpdates, GiveUp, SearchOver, TypeOK, FileInTurn,
                                  world, options, writing
<1>4. CASE ReadFile
  <2> DEFINE t == disk[Queue[file]]
             code == [r \in 1 .. Len(t) |-> Code(t[r])]
             rest == [r \in 1 .. Len(t) |-> Comment(t[r])]
  <2>1. t \in Text /\ buf' = code /\ orig' = code /\ comment' = rest
    BY <1>4, <1>a, FileText DEF ReadFile
  <2>2. /\ code \in Text /\ rest \in Text /\ Len(code) = Len(t) /\ Len(rest) = Len(t)
        /\ \A r \in 1 .. Len(t) : IsComment(Comment(t[r]))
    BY <2>1, ReadText
  <2>3. Len(t) \in Nat /\ \A r \in 1 .. Len(t) : rest[r] = Comment(t[r])
    BY <2>1 DEF Text
  <2> HIDE DEF t, code, rest
  <2>6. /\ buf' \in Text /\ comment' \in Text /\ orig' \in Text
        /\ row' \in 1 .. Len(buf') + 1 /\ at' \in Nat \ {0} /\ pc' = "scan"
    <3>1. row' = 1 /\ at' = 1 /\ pc' = "scan"
      BY <1>4, <1>a DEF ReadFile, FreshAtNext
    <3>2. Len(buf') \in Nat
      BY <2>1, <2>2, <2>3
    <3> QED
      BY <2>1, <2>2, <3>1, <3>2
  <2>7. UNCHANGED <<file, updated, refused, world, writing>>
    BY <1>4 DEF ReadFile
  <2>4. TypeOK'
    BY <1>a, <2>6, <2>7 DEF TypeOK, world, options, writing
  <2>5. SameLines'
    BY <2>1, <2>2, <2>3 DEF SameLines
  <2> QED
    BY <1>4, <1>a, <2>4, <2>5 DEF ReadFile, PlaceOK, AtDirective, SearchedAll, FileInTurn,
                                  OutThere, FreshAtNext
<1>5. CASE PassLonger \/ AlreadyThere \/ ShowOnly
  <2>1. at' \in Nat \ {0}
    BY <1>5, <1>a, StepType DEF PassLonger, AlreadyThere, ShowOnly, Proposes, Found, Scanning
  <2>2. TypeOK'
    BY <1>5, <1>a, <2>1
    DEF PassLonger, AlreadyThere, ShowOnly, TypeOK, world, options, writing
  <2> QED
    BY <1>5, <1>a, <2>2 DEF PassLonger, AlreadyThere, ShowOnly, Proposes, Found, Scanning, PlaceOK,
                            AtDirective, SearchedAll, FileInTurn, OutThere, FreshAtNext, SameLines
<1>6. CASE AskToAppend
  <2>1. TypeOK'
    BY <1>6, <1>a DEF AskToAppend, TypeOK, world, options, writing
  <2>2. UNCHANGED <<buf, row, at, credential, dryrun>> /\ Proposes /\ ~dryrun /\ pc' = "confirm"
    BY <1>6 DEF AskToAppend, world, options
  <2>3. AtDirective'
    BY <2>2 DEF AtDirective, Proposes, Found, Scanning, Idx, Provided
  <2> QED
    BY <1>6, <1>a, <2>1, <2>3 DEF AskToAppend, Proposes, Found, Scanning, PlaceOK,
                                  SearchedAll, FileInTurn, OutThere, FreshAtNext, SameLines
<1>7. CASE ConfirmAppend
  <2>1. row <= Len(buf) /\ Hits(buf[row], at) # {}
    BY <1>7, <1>a DEF ConfirmAppend, AtDirective
  <2>2. /\ row \in 1 .. Len(buf) /\ buf[row] \in Line /\ credential \in Line
        /\ Idx \in 1 .. Len(buf[row]) + 1
    BY <1>a, <2>1, IdxType
  <2>3. Inserted(buf[row], Idx) \in Line
    BY <2>2, InsertedLine
  <2>4. buf' \in Text /\ Len(buf') = Len(buf)
    BY <1>7, <1>b, <2>2, <2>3, ExceptSeq DEF ConfirmAppend, Text
  <2>5. at' \in Nat \ {0}
    BY <1>7, <1>a, <2>1, StepType DEF ConfirmAppend
  <2>6. TypeOK'
    BY <1>7, <1>a, <2>4, <2>5 DEF ConfirmAppend, TypeOK, world, options, writing
  <2> QED
    BY <1>7, <1>a, <2>4, <2>6 DEF ConfirmAppend, PlaceOK, AtDirective, SearchedAll, FileInTurn,
                                  OutThere, FreshAtNext, SameLines
<1>8. CASE DeclineAppend
  <2>1. row <= Len(buf) /\ Hits(buf[row], at) # {}
    BY <1>8, <1>a DEF DeclineAppend, AtDirective
  <2>2. at' \in Nat \ {0}
    BY <1>8, <1>a, <2>1, StepType DEF DeclineAppend
  <2>3. TypeOK'
    BY <1>8, <1>a, <2>2 DEF DeclineAppend, TypeOK, world, options, writing
  <2> QED
    BY <1>8, <1>a, <2>3 DEF DeclineAppend, PlaceOK, AtDirective, SearchedAll, FileInTurn,
                            OutThere, FreshAtNext, SameLines
<1>9. CASE NextLine
  <2>1. row' \in 1 .. Len(buf) + 1 /\ UNCHANGED buf
    BY <1>9, <1>b DEF NextLine, Scanning
  <2>2. TypeOK'
    BY <1>9, <1>a, <2>1 DEF NextLine, TypeOK, world, options, writing
  <2> QED
    BY <1>9, <1>a, <2>2 DEF NextLine, Scanning, PlaceOK, AtDirective, SearchedAll, FileInTurn,
                            OutThere, FreshAtNext, SameLines
<1>10. CASE AssignOutput \/ RetryOutput
  <2>1. out' \in Paths
    <3>1. CASE AssignOutput /\ Silent
      <4>1. out' = Queue[file] /\ pc = "scan"
        BY <3>1 DEF AssignOutput, SearchOver
      <4> QED
        BY <4>1, <1>a, ElementOfSeq DEF AssignOutput, TypeOK, FileInTurn
    <3>2. CASE ~Silent \/ RetryOutput
      BY <3>2, <1>10 DEF AssignOutput, RetryOutput
    <3> QED
      BY <1>10, <3>1, <3>2
  <2>2. TypeOK'
    BY <1>10, <1>a, <2>1 DEF AssignOutput, RetryOutput, TypeOK, world, options, editing
  <2> QED
    BY <1>10, <1>a, <2>2 DEF AssignOutput, RetryOutput, SearchOver, PlaceOK, TypeOK, AtDirective,
                             SearchedAll, FileInTurn, OutThere, FreshAtNext, SameLines, editing
<1>11. CASE OpenOutput
  <2>1. <<>> \in Text
    BY DEF Text
  <2>2. disk' \in [Paths -> Text \cup {Absent}] /\ disk'[out'] \in Text
    BY <1>11, <1>a, <2>1 DEF OpenOutput, TypeOK
  <2>3. TypeOK'
    BY <1>11, <1>a, <2>2 DEF OpenOutput, TypeOK, options, editing
  <2> QED
    BY <1>11, <1>a, <2>2, <2>3 DEF OpenOutput, PlaceOK, AtDirective, SearchedAll, FileInTurn,
                                   OutThere, FreshAtNext, SameLines, editing
<1>12. CASE OpenFails
  <2>1. CASE Silent
    BY <2>1, <1>12, <1>a, NextFileType DEF OpenFails, TypeOK, FileInTurn, world, options, writing
  <2>2. CASE ~Silent
    <3>1. TypeOK'
      BY <2>2, <1>12, <1>a DEF OpenFails, TypeOK, world, options, writing, editing
    <3> QED
      BY <2>2, <3>1, <1>12, <1>a DEF OpenFails, PlaceOK, AtDirective, SearchedAll, FileInTurn,
                                     OutThere, FreshAtNext, SameLines, editing
  <2> QED
    BY <2>1, <2>2
<1>13. CASE WriteLine
  <2>1. Edited[wrote + 1] \in Line
    <3>1. wrote + 1 \in 1 .. Len(buf)
      BY <1>13, <1>a, <1>b DEF WriteLine, TypeOK
    <3>2. buf[wrote + 1] \in Line /\ comment[wrote + 1] \in Line
      BY <1>a, <1>b, <3>1, ElementOfSeq DEF TypeOK, Text, SameLines
    <3> QED
      BY <3>1, <3>2, ConcatProperties DEF Edited, Line
  <2>2. Append(disk[out], Edited[wrote + 1]) \in Text
    BY <1>13, <1>a, <2>1 DEF WriteLine, OutThere, Text
  <2>3. /\ disk' \in [Paths -> Text \cup {Absent}]
        /\ disk'[out'] \in Text
    BY <1>13, <1>a, <2>2 DEF WriteLine, TypeOK
  <2>4. TypeOK'
    BY <1>13, <1>a, <2>3 DEF WriteLine, TypeOK, options, editing
  <2> QED
    BY <1>13, <1>a, <2>3, <2>4 DEF WriteLine, PlaceOK, AtDirective, SearchedAll, FileInTurn,
                                   OutThere, FreshAtNext, SameLines, editing
<1>14. CASE WriteFails
  <2>1. TypeOK'
    BY <1>14, <1>a, <1>b DEF WriteFails, TypeOK, editing, options
  <2> QED
    BY <1>14, <1>a, <2>1 DEF WriteFails, PlaceOK, AtDirective, SearchedAll, FileInTurn,
                             OutThere, FreshAtNext, SameLines, editing
<1>15. CASE CloseOutput
  <2>0. Edited \in Text
    <3>1. \A r \in 1 .. Len(buf) : buf[r] \in Line /\ comment[r] \in Line
      BY <1>a, <1>b, ElementOfSeq DEF TypeOK, Text, SameLines
    <3>2. \A r \in 1 .. Len(buf) : buf[r] \o comment[r] \in Line
      BY <3>1, ConcatProperties DEF Line
    <3> QED
      BY <1>b, <3>2 DEF Edited, Text
  <2>1. /\ settled' \subseteq Paths /\ cutoff' \subseteq Paths /\ cnt' \in Nat /\ wrote' \in Nat /\ out' \in Paths
        /\ disk' \in [Paths -> Text \cup {Absent}]
        /\ holds' \in [Paths -> Text \cup {Absent}]
    BY <1>15, <1>a, <2>0 DEF CloseOutput, TypeOK
  <2> QED
    BY <1>15, <1>a, <2>1, NextFileType DEF CloseOutput, FileInTurn, options
<1>16. ASSUME NEW p \in Paths, ForeignStore(p)
       PROVE  PlaceOK'
  <2>1. /\ disk' \in [Paths -> Text \cup {Absent}]
        /\ holds' \in [Paths -> Text \cup {Absent}]
        /\ foreign' \in 0 .. MaxForeignEdits /\ settled' \subseteq Paths /\ cutoff' \subseteq Paths
        /\ pc' = "write" => disk'[out'] = disk[out]
    BY <1>16, <1>a DEF ForeignStore, TypeOK, writing
  <2>2. TypeOK'
    BY <1>16, <1>a, <2>1 DEF ForeignStore, TypeOK, options, editing, writing
  <2> QED
    BY <1>16, <1>a, <2>1, <2>2 DEF ForeignStore, PlaceOK, AtDirective, SearchedAll, FileInTurn, Provided, Idx,
                                   OutThere, FreshAtNext, SameLines, options, editing, writing
<1>17. CASE Terminated \/ UNCHANGED vars
  <2>1. UNCHANGED vars
    BY <1>17 DEF Terminated
  <2>2. TypeOK'
    BY <2>1, <1>a DEF vars, world, options, editing, writing, TypeOK
  <2>3. AtDirective'
    BY <2>1, <1>a DEF vars, world, options, editing, AtDirective, Provided, Idx
  <2>4. (SearchedAll /\ FileInTurn /\ OutThere /\ FreshAtNext /\ SameLines)'
    BY <2>1, <1>a DEF vars, world, editing, writing, SearchedAll, FileInTurn, OutThere,
                      FreshAtNext, SameLines
  <2> QED
    BY <2>2, <2>3, <2>4 DEF PlaceOK
<1> QED
  BY <1>1, <1>2, <1>3, <1>4, <1>5, <1>6, <1>7, <1>8, <1>9, <1>10, <1>11, <1>12, <1>13,
     <1>14, <1>15, <1>16, <1>17 DEF Next, Program

(* Every variable keeps its type.                                            *)
THEOREM TypeCorrect == Spec => []TypeOK
<1>1. PlaceOK => TypeOK
  BY DEF PlaceOK
<1> QED
  BY <1>1, PlaceInit, PlaceStep, PTL DEF Spec

-----------------------------------------------------------------------------
(* A dry run.                                                                *)
LEMMA DryRunStep == DryRunNeverWrites /\ [Next]_vars => DryRunNeverWrites'
<1> SUFFICES ASSUME DryRunNeverWrites, [Next]_vars, dryrun
             PROVE  DryRunNeverWrites'
  BY OptionsKept DEF DryRunNeverWrites, options
<1>1. pc \notin {"confirm", "open", "retry", "write"} /\ ~updated /\ cnt = 0
  BY DEF DryRunNeverWrites
<1>2. CASE \/ NoDot \/ Unsupported \/ CannotOpen \/ ReadFile \/ PassLonger
           \/ AlreadyThere \/ ShowOnly \/ NextLine \/ NoUpdates \/ Summary
           \/ Kill \/ Terminated \/ UNCHANGED vars
  BY <1>1, <1>2
  DEF NoDot, Unsupported, CannotOpen, ReadFile, PassLonger, AlreadyThere, ShowOnly,
      NextLine, NoUpdates, Summary, Kill, Terminated, ToNextFile, Scanning, Found,
      Proposes, SearchOver, DryRunNeverWrites, vars, editing, writing
<1>3. CASE AskToAppend \/ ConfirmAppend \/ DeclineAppend \/ AssignOutput
           \/ OpenOutput \/ OpenFails \/ RetryOutput \/ GiveUp
           \/ WriteLine \/ WriteFails \/ CloseOutput
  BY <1>1, <1>3
  DEF AskToAppend, ConfirmAppend, DeclineAppend, AssignOutput, OpenOutput, OpenFails,
      RetryOutput, GiveUp, WriteLine, WriteFails, CloseOutput
<1>4. ASSUME NEW p \in Paths, ForeignStore(p) PROVE DryRunNeverWrites'
  BY <1>1, <1>4 DEF ForeignStore, DryRunNeverWrites, editing, writing
<1> QED
  BY <1>2, <1>3, <1>4 DEF Next, Program

(* A dry run never comes to a prompt or a write (Auth.cpp:121-144).          *)
THEOREM DryRunIsReadOnly == Spec => []DryRunNeverWrites
<1>1. Init => DryRunNeverWrites
  BY DEF Init, DryRunNeverWrites
<1> QED
  BY <1>1, DryRunStep, PTL DEF Spec

-----------------------------------------------------------------------------
(* The files that are not being written.                                     *)

LEMMA EditedText ==
    ASSUME PlaceOK
    PROVE  /\ Edited \in Seq(Line) /\ Len(Edited) = Len(buf) /\ Len(buf) \in Nat
           /\ \A r \in 1 .. Len(buf) : Edited[r] = buf[r] \o comment[r]
<1>1. /\ buf \in Seq(Line) /\ comment \in Seq(Line) /\ Len(comment) = Len(buf)
      /\ Len(buf) \in Nat
  BY DEF PlaceOK, TypeOK, Text, SameLines
<1>2. \A r \in 1 .. Len(buf) : buf[r] \in Line /\ comment[r] \in Line
  BY <1>1, ElementOfSeq
<1>3. \A r \in 1 .. Len(buf) : buf[r] \o comment[r] \in Line
  BY <1>2, ConcatProperties DEF Line
<1>4. Edited = [r \in 1 .. Len(buf) |-> buf[r] \o comment[r]]
  BY DEF Edited
<1>5. Edited \in [1 .. Len(buf) -> Line]
  BY <1>3, <1>4
<1>6. Edited \in Seq(Line) /\ Len(Edited) = Len(buf)
  BY <1>1, <1>5
<1> QED
  BY <1>1, <1>4, <1>6

(* While a file is written without failure it holds the lines handed over so *)
(* far, so that at its closing it holds the whole text.                      *)
WrittenSoFar ==
    pc = "write" /\ out \notin cutoff => wrote <= Len(buf) /\ disk[out] = SubSeq(Edited, 1, wrote)

OneInHand == WrittenSoFar /\ OthersIntact

LEMMA OneInHandStep == PlaceOK /\ OneInHand /\ [Next]_vars => OneInHand'
<1> SUFFICES ASSUME PlaceOK, OneInHand, [Next]_vars
             PROVE  WrittenSoFar' /\ OthersIntact'
  BY DEF OneInHand
<1>a. WrittenSoFar /\ OthersIntact /\ TypeOK
  BY DEF OneInHand, PlaceOK
<1>b. Edited \in Seq(Line) /\ Len(Edited) = Len(buf) /\ Len(buf) \in Nat
  BY EditedText
<1>c. UNCHANGED <<buf, comment>> => Edited' = Edited
  BY DEF Edited
<1>1. ASSUME UNCHANGED <<disk, holds, cutoff>>, pc \notin {"write", "killed"}, pc' # "write"
      PROVE  WrittenSoFar' /\ OthersIntact'
  BY <1>1, <1>a DEF WrittenSoFar, OthersIntact
<1>2. CASE NoDot \/ Unsupported \/ CannotOpen \/ ReadFile \/ PassLonger
           \/ AlreadyThere \/ ShowOnly \/ AskToAppend \/ ConfirmAppend
           \/ DeclineAppend \/ NextLine \/ NoUpdates \/ AssignOutput
           \/ RetryOutput \/ GiveUp \/ Summary
  BY <1>2, <1>1
  DEF NoDot, Unsupported, CannotOpen, ReadFile, PassLonger, AlreadyThere, ShowOnly, Proposes,
      AskToAppend, ConfirmAppend, DeclineAppend, NextLine, NoUpdates, AssignOutput,
      RetryOutput, GiveUp, Summary, ToNextFile, Found, Scanning, SearchOver, world
<1>3. CASE OpenFails
  BY <1>3, <1>1 DEF OpenFails, ToNextFile, world
<1>4. CASE OpenOutput
  <2>1. SubSeq(Edited, 1, 0) = <<>> /\ 0 <= Len(buf)
    BY <1>b, SubSeqProperties
  <2>2. \A p \in Paths \ cutoff : disk[p] = holds[p]
    BY <1>4, <1>a DEF OpenOutput, OthersIntact
  <2>3. disk' = [disk EXCEPT ![out] = <<>>] /\ UNCHANGED <<holds, out, buf>> /\ Edited' = Edited
        /\ pc' = "write" /\ wrote' = 0 /\ cutoff' = cutoff \ {out}
    BY <1>4, <1>c DEF OpenOutput, editing
  <2> QED
    BY <1>a, <2>1, <2>2, <2>3 DEF WrittenSoFar, OthersIntact, TypeOK
<1>5. CASE WriteLine
  <2> SUFFICES ASSUME out \notin cutoff
               PROVE  WrittenSoFar' /\ OthersIntact'
    BY <1>5, <1>a DEF WriteLine, WrittenSoFar, OthersIntact, TypeOK
  <2>1. /\ wrote \in Nat /\ wrote + 1 <= Len(Edited)
        /\ disk[out] = SubSeq(Edited, 1, wrote)
    BY <1>5, <1>a, <1>b DEF WriteLine, TypeOK, WrittenSoFar
  <2>2. Append(SubSeq(Edited, 1, wrote), Edited[wrote + 1]) = SubSeq(Edited, 1, wrote + 1)
    BY <2>1, <1>b
  <2>3. disk' = [disk EXCEPT ![out] = SubSeq(Edited, 1, wrote + 1)] /\ Edited' = Edited
        /\ UNCHANGED <<pc, holds, out, buf, cutoff>> /\ wrote' = wrote + 1 /\ pc = "write"
    BY <1>5, <1>c, <2>1, <2>2 DEF WriteLine, editing
  <2> QED
    BY <1>a, <1>b, <2>1, <2>3 DEF WrittenSoFar, OthersIntact, TypeOK
<1>6. CASE WriteFails
  BY <1>6, <1>a DEF WriteFails, WrittenSoFar, OthersIntact
<1>7. CASE CloseOutput
  <2>1. out \notin cutoff => disk[out] = Edited
    <3>1. SubSeq(Edited, 1, Len(Edited)) = Edited
      BY <1>b
    <3> QED
      BY <1>7, <1>a, <1>b, <3>1 DEF CloseOutput, WrittenSoFar
  <2>2. \A p \in Paths \ cutoff : p # out => disk[p] = holds[p]
    BY <1>a DEF OthersIntact
  <2>3. holds' = [holds EXCEPT ![out] = Edited] /\ UNCHANGED <<disk, out, cutoff>>
        /\ pc' = "next"
    BY <1>7 DEF CloseOutput, ToNextFile
  <2> QED
    BY <1>a, <2>1, <2>2, <2>3 DEF WrittenSoFar, OthersIntact, TypeOK
<1>8. CASE Kill
  BY <1>8, <1>a DEF Kill, WrittenSoFar, OthersIntact, Ended, world, writing
<1>9. ASSUME NEW p \in Paths, ForeignStore(p)
      PROVE  WrittenSoFar' /\ OthersIntact'
  <2>1. PICK t : /\ disk'  = [disk EXCEPT ![p] = t]
                 /\ holds' = [holds EXCEPT ![p] = t]
    BY <1>9 DEF ForeignStore
  <2>2. /\ UNCHANGED <<pc, out, wrote, buf>> /\ cutoff' = cutoff \ {p} /\ Edited' = Edited
        /\ ~(pc = "write" /\ p = out)
    BY <1>9, <1>c DEF ForeignStore, editing, writing
  <2> QED
    BY <1>a, <2>1, <2>2 DEF WrittenSoFar, OthersIntact, TypeOK
<1>10. CASE Terminated \/ UNCHANGED vars
  <2>1. UNCHANGED vars
    BY <1>10 DEF Terminated
  <2> QED
    BY <2>1, <1>a, <1>c DEF vars, world, editing, writing, WrittenSoFar, OthersIntact
<1> QED
  BY <1>2, <1>3, <1>4, <1>5, <1>6, <1>7, <1>8, <1>9, <1>10 DEF Next, Program

(* Only the file in hand, and one whose writing failed, can be other than its*)
(* last writer meant it to be, whenever the run is stopped (Auth.cpp:156-163)*)
THEOREM OnlyTheFileInHand == Spec => []OthersIntact
<1>1. Init => OneInHand
  BY DEF Init, OneInHand, WrittenSoFar, OthersIntact
<1>2. OneInHand => OthersIntact
  BY DEF OneInHand
<1> QED
  BY <1>1, <1>2, PlaceInit, PlaceStep, OneInHandStep, PTL DEF Spec

-----------------------------------------------------------------------------
(* The edits.                                                                *)

LEMMA Times ==
    ASSUME NEW a \in Nat, NEW b \in Nat, NEW w \in Nat
    PROVE  /\ a * w \in Nat /\ (a + 1) * w = a * w + w
           /\ a <= b => a * w <= b * w
<1>1. a * w \in Nat /\ (a + 1) * w = a * w + w
  OBVIOUS
<1>2. ASSUME a <= b PROVE a * w <= b * w
  <2>1. PICK c \in Nat : b = a + c
    <3>1. b - a \in Nat /\ b = a + (b - a)
      BY <1>2
    <3> QED BY <3>1
  <2>2. c * w \in Nat /\ a * w \in Nat /\ (a + c) * w = a * w + c * w
    OBVIOUS
  <2> QED BY <2>1, <2>2
<1> QED BY <1>1, <1>2

LEMMA ConfirmedIsFinite ==
    ASSUME NEW m \in Nat, NEW ks, ks \subseteq 1 .. m
    PROVE  /\ IsFiniteSet(ks) /\ Cardinality(ks) \in Nat
           /\ \A S \in SUBSET ks : /\ IsFiniteSet(S) /\ Cardinality(S) \in Nat
                                   /\ Cardinality(S) <= Cardinality(ks)
<1>1. IsFiniteSet(1 .. m)
  BY FS_Interval
<1>2. IsFiniteSet(ks)
  BY <1>1, FS_Subset
<1>3. ASSUME NEW S \in SUBSET ks
      PROVE  /\ IsFiniteSet(S) /\ Cardinality(S) \in Nat /\ Cardinality(S) <= Cardinality(ks)
  <2>1. IsFiniteSet(S) /\ Cardinality(S) <= Cardinality(ks)
    BY <1>2, FS_Subset
  <2> QED BY <2>1, FS_CardinalityType
<1> QED BY <1>2, <1>3, FS_CardinalityType

(* One more place confirmed, behind all the others, is one insertion more at *)
(* its place of the edited line.                                             *)
LEMMA EditedOnceMore ==
    ASSUME credential \in Line, NEW s \in Line, NEW t \in Line,
           NEW ks, ks \subseteq 1 .. Len(s) + 1, IsEdited(t, s, ks),
           NEW k \in 1 .. Len(s) + 1, \A j \in ks : j < k
    PROVE  LET p == k + Cardinality(ks) * Len(Insertion)
           IN  p \in 1 .. Len(t) + 1 /\ IsEdited(Inserted(t, p), s, ks \cup {k})
<1> DEFINE n == Cardinality(ks)
           w == Len(Insertion)
           m == ks \cup {k}
           p == k + n * w
           v == Inserted(t, p)
<1>0. Len(s) \in Nat /\ Len(t) \in Nat /\ Len(s) + 1 \in Nat /\ k \in Nat
  BY DEF Line
<1>1. /\ IsFiniteSet(ks) /\ n \in Nat
      /\ \A S \in SUBSET ks : IsFiniteSet(S) /\ Cardinality(S) \in Nat /\ Cardinality(S) <= n
  BY <1>0, ConfirmedIsFinite
<1>2. /\ Len(t) = Len(s) + n * w
      /\ \A i \in 1 .. Len(s) : t[i + Cardinality({j \in ks : j <= i}) * w] = s[i]
      /\ \A j \in ks : OccursAt(Insertion, t, j + Cardinality({i \in ks : i < j}) * w)
  BY DEF IsEdited
<1>3. w \in Nat /\ w = Len(credential) + 1 /\ Len(credential) \in Nat
  BY InsertionLength DEF Line
<1>4. n * w \in Nat /\ (n + 1) * w = n * w + w
  BY <1>1, <1>3, Times
<1>5. k \notin ks /\ m \subseteq Nat /\ ks \subseteq Nat
  BY <1>0
<1>6. Cardinality(m) = n + 1
  BY <1>1, <1>5, FS_AddElement
<1> HIDE DEF n, m, w
<1>7. p \in 1 .. Len(t) + 1
  BY <1>0, <1>2, <1>4
<1> HIDE DEF p
<1>8. /\ v \in Line /\ Len(v) = Len(t) + w
      /\ \A j \in 1 .. p - 1 : v[j] = t[j]
      /\ \A j \in 1 .. w : v[p + j - 1] = Insertion[j]
      /\ \A j \in p .. Len(t) : v[j + w] = t[j]
  BY <1>3, <1>7, InsertedLine
<1> HIDE DEF v
<1>9. Len(v) = Len(s) + Cardinality(m) * w
  <2>1. Cardinality(m) * w = n * w + w
    BY <1>4, <1>6
  <2> DEFINE nw == n * w
  <2>2. nw \in Nat /\ Len(t) = Len(s) + nw /\ Cardinality(m) * w = nw + w
    BY <1>2, <1>4, <2>1 DEF n, w
  <2> HIDE DEF nw
  <2> QED BY <1>0, <1>3, <1>8, <2>2
<1>10. ASSUME NEW i \in 1 .. Len(s)
       PROVE  v[i + Cardinality({j \in m : j <= i}) * w] = s[i]
  <2>1. CASE i < k
    <3> DEFINE S == {j \in ks : j <= i}
    <3>1. {j \in m : j <= i} = S
      BY <2>1, <1>0, <1>5 DEF m
    <3>2. S \in SUBSET ks
      OBVIOUS
    <3>3. Cardinality(S) \in Nat /\ Cardinality(S) <= n
      BY <1>1, <3>2 DEF n
    <3>4. Cardinality(S) * w \in Nat /\ Cardinality(S) * w <= n * w
      BY <1>1, <1>3, <3>3, Times DEF n
    <3>5. t[i + Cardinality(S) * w] = s[i]
      BY <1>2
    <3> HIDE DEF S
    <3>6. i + Cardinality(S) * w \in 1 .. p - 1
      BY <2>1, <1>0, <1>4, <3>4 DEF p
    <3> QED BY <1>8, <3>1, <3>5, <3>6
  <2>2. CASE k <= i
    <3>0. ks \subseteq m /\ \A j \in m : j <= i
      <4>1. i \in Nat /\ \A j \in ks : j \in Nat /\ j < k
        BY <1>0, <1>5
      <4> QED BY <2>2, <4>1, <1>0 DEF m
    <3>1. {j \in m : j <= i} = m
      BY <3>0
    <3>2. {j \in ks : j <= i} = ks
      BY <3>0
    <3>3. t[i + n * w] = s[i]
      BY <1>2, <3>2 DEF n
    <3>4. i + n * w \in p .. Len(t) /\ i + n * w + w = i + (n + 1) * w
      BY <2>2, <1>0, <1>2, <1>3, <1>4 DEF p
    <3>5. v[i + n * w + w] = t[i + n * w]
      BY <1>8, <3>4
    <3> QED BY <1>6, <3>1, <3>3, <3>4, <3>5
  <2> QED BY <2>1, <2>2, <1>0
<1>11. ASSUME NEW j \in m
       PROVE  OccursAt(Insertion, v, j + Cardinality({i \in m : i < j}) * w)
  <2>1. CASE j = k
    <3>1. {i \in m : i < j} = ks
      <4>1. ~(k < k) /\ \A i \in ks : i < k
        BY <1>0
      <4> QED BY <2>1, <4>1 DEF m
    <3>2. j + Cardinality({i \in m : i < j}) * w = p
      BY <2>1, <3>1 DEF p, n
    <3>3. OccursAt(Insertion, v, p)
      BY <1>0, <1>3, <1>7, <1>8 DEF OccursAt, w
    <3> QED BY <3>2, <3>3
  <2>2. CASE j # k
    <3> DEFINE S == {i \in ks : i < j}
               q == j + Cardinality(S) * w
    <3>1. j \in ks /\ j < k /\ j \in Nat
      BY <2>2, <1>5 DEF m
    <3>2. {i \in m : i < j} = S
      BY <3>1, <1>0, <1>5 DEF m
    <3>3. S \in SUBSET ks /\ j \notin S /\ S \cup {j} \in SUBSET ks
      BY <3>1
    <3>4. IsFiniteSet(S) /\ Cardinality(S) \in Nat
      BY <1>1, <3>3
    <3>5. Cardinality(S \cup {j}) = Cardinality(S) + 1
      BY <3>3, <3>4, FS_AddElement
    <3>6. Cardinality(S) + 1 <= n
      BY <1>1, <3>3, <3>5 DEF n
    <3>7. OccursAt(Insertion, t, q)
      BY <1>2, <3>1
    <3> HIDE DEF S
    <3>8. /\ Cardinality(S) * w \in Nat
          /\ Cardinality(S) * w + w <= n * w
      <4>1. Cardinality(S) + 1 \in Nat /\ n \in Nat
        BY <3>4, <1>1 DEF n
      <4>2. (Cardinality(S) + 1) * w <= n * w
        BY <1>3, <3>6, <4>1, Times
      <4>3. /\ Cardinality(S) * w \in Nat
            /\ (Cardinality(S) + 1) * w = Cardinality(S) * w + w
        BY <1>3, <3>4, Times
      <4> QED BY <4>2, <4>3
    <3>9. q \in Nat /\ q >= 1 /\ q + w - 1 <= p - 1
      <4>1. Cardinality(S) * w \in Nat /\ n * w \in Nat
        BY <3>8, <1>4
      <4> QED BY <3>1, <3>8, <4>1, <1>0, <1>3 DEF p
    <3> HIDE DEF q
    <3>10. OccursAt(Insertion, v, q)
      <4>1. ASSUME NEW i \in 1 .. Len(Insertion) PROVE v[q + i - 1] = Insertion[i]
        <5>1. t[q + i - 1] = Insertion[i]
          BY <3>7 DEF OccursAt
        <5>2. q + i - 1 \in 1 .. p - 1
          <6>1. i \in 1 .. w /\ p \in Nat
            BY <1>0, <1>7 DEF w
          <6> QED BY <3>9, <6>1, <1>3
        <5> QED BY <5>1, <5>2, <1>8
      <4>2. q + Len(Insertion) - 1 <= Len(v)
        BY <3>9, <1>0, <1>3, <1>7, <1>8 DEF w
      <4> QED BY <4>1, <4>2, <3>9 DEF OccursAt
    <3> QED BY <3>2, <3>10 DEF q
  <2> QED BY <2>1, <2>2
<1>12. IsEdited(v, s, m)
  BY <1>9, <1>10, <1>11 DEF IsEdited, w
<1> QED
  BY <1>7, <1>12 DEF p, n, w, m, v

(* The confirmed places are places of the text as far as it was searched,    *)
(* and the one that an open question is about is the one that was shown.     *)
EditsSoFar ==
    /\ EditsAreTheConfirmedOnes
    /\ \A y \in yes : /\ y = <<y[1], y[2]>>
                      /\ y[1] \in 1 .. Len(orig) /\ y[1] <= row
                      /\ y[2] \in 1 .. Len(orig[y[1]]) + 1
    /\ row <= Len(orig) => \A k \in Confirmed(row) : k <= Was(at)
    /\ pc = "confirm" => <<row, Was(Idx)>> \in shown
    /\ pc = "next" => yes = {}

LEMMA NothingEdited ==
    ASSUME NEW s \in Line, credential \in Line
    PROVE  IsEdited(s, s, {})
<1>0. Len(s) \in Nat
  BY DEF Line
<1>1. Cardinality({}) = 0
  BY FS_EmptySet
<1>2. Len(Insertion) \in Nat
  BY InsertionLength
<1>3. 0 * Len(Insertion) = 0
  BY <1>2
<1>4. \A k : {j \in {} : j <= k} = {}
  OBVIOUS
<1> QED
  BY <1>0, <1>1, <1>3, <1>4 DEF IsEdited

LEMMA EditsKept ==
    ASSUME EditsAreTheConfirmedOnes, shown \subseteq shown',
           UNCHANGED <<credential, buf, orig, yes>>
    PROVE  EditsAreTheConfirmedOnes' /\ \A r : Confirmed(r)' = Confirmed(r)
<1>1. Insertion' = Insertion /\ \A r : Confirmed(r)' = Confirmed(r)
  BY DEF Insertion, Confirmed
<1>2. ASSUME NEW r \in 1 .. Len(buf) PROVE IsEdited(buf[r], orig[r], Confirmed(r))'
  <2>1. IsEdited(buf[r], orig[r], Confirmed(r))
    BY DEF EditsAreTheConfirmedOnes
  <2> QED BY <1>1, <2>1, Zenon DEF IsEdited
<1> QED BY <1>1, <1>2 DEF EditsAreTheConfirmedOnes

LEMMA EditsInit == Init => EditsSoFar
BY DEF Init, EditsSoFar, EditsAreTheConfirmedOnes

(* What is found from `at' on stands in the original as well, as much nearer *)
(* as insertions come before it.                                             *)
LEMMA WasThere ==
    ASSUME PlaceOK, EditsSoFar, row <= Len(buf), Hits(buf[row], at) # {}
    PROVE  LET s == orig[row]
               k == Was(Idx)
           IN  /\ row \in 1 .. Len(buf) /\ s \in Line
               /\ Confirmed(row) \subseteq 1 .. Len(s) + 1
               /\ IsEdited(buf[row], s, Confirmed(row))
               /\ k \in 1 .. Len(s) + 1 /\ \A j \in Confirmed(row) : j < k
               /\ Idx = k + Cardinality(Confirmed(row)) * Len(Insertion)
               /\ OccursAt(Directive, s, k - Len(Directive))
               /\ Longer(s, k) <=> Longer(buf[row], Idx)
<1> DEFINE s == orig[row]
           t == buf[row]
           ks == Confirmed(row)
           g == Cardinality(ks) * Len(Insertion)
           k == Was(Idx)
           d == Len(Directive)
<1>1. /\ row \in 1 .. Len(buf) /\ t \in Line /\ Len(t) \in Nat
      /\ credential \in Line /\ at \in Nat \ {0}
      /\ Idx \in 1 .. Len(t) + 1 /\ Idx >= at + d /\ Idx > at
      /\ d \in Nat /\ d >= 2
      /\ OccursAt(Directive, t, Idx - d)
  BY IdxType DEF PlaceOK
<1>2. Len(orig) = Len(buf) /\ orig \in Seq(Line)
  BY DEF PlaceOK, SameLines, TypeOK, Text
<1>3. s \in Line /\ Len(s) \in Nat /\ Len(s) + 1 \in Nat
  BY <1>1, <1>2, ElementOfSeq DEF Line
<1>4. ks \subseteq 1 .. Len(s) + 1
  BY DEF Confirmed
<1>5. IsEdited(t, s, ks)
  BY <1>1 DEF EditsSoFar, EditsAreTheConfirmedOnes
<1>6. g \in Nat
  <2>1. Cardinality(ks) \in Nat
    BY <1>3, <1>4, ConfirmedIsFinite
  <2>2. Len(Insertion) \in Nat
    BY <1>1, InsertionLength
  <2> QED BY <2>1, <2>2, Times
<1>7. Len(t) = Len(s) + g
  BY <1>5 DEF IsEdited
<1>8. Was(at) = at - g /\ k = Idx - g
  BY DEF Was
<1>9. \A j \in ks : j \in Nat /\ j >= 1 /\ j <= at - g
  BY <1>1, <1>2, <1>3, <1>4, <1>8 DEF EditsSoFar
<1>10. at - g >= 1
  <2>1. CASE ks = {}
    <3>1. g = 0
      <4>1. Cardinality({}) = 0
        BY FS_EmptySet
      <4>3. Len(Insertion) \in Nat
        BY <1>1, InsertionLength
      <4> QED BY <2>1, <4>1, <4>3
    <3> QED BY <3>1, <1>1
  <2>2. CASE ks # {}
    <3>1. PICK j \in ks : TRUE
      BY <2>2
    <3> QED BY <3>1, <1>1, <1>6, <1>9
  <2> QED BY <2>1, <2>2
<1>11. ASSUME NEW i \in 1 .. Len(s), i >= at - g PROVE t[i + g] = s[i]
  <2>1. \A j \in ks : j <= i
    BY <1>1, <1>6, <1>9, <1>11
  <2>2. g = Cardinality(ks) * Len(Insertion)
    OBVIOUS
  <2> HIDE DEF g, s, t, ks
  <2>3. {j \in ks : j <= i} = ks
    BY <2>1
  <2>4. t[i + Cardinality({j \in ks : j <= i}) * Len(Insertion)] = s[i]
    BY <1>5 DEF IsEdited
  <2> QED BY <2>2, <2>3, <2>4
<1> HIDE DEF g, s, t, ks, k, d
<1>12. k \in 1 .. Len(s) + 1 /\ k >= at - g + d /\ k > at - g /\ Idx = k + g
  BY <1>1, <1>3, <1>6, <1>7, <1>8, <1>10
<1>13. \A j \in ks : j < k
  BY <1>1, <1>6, <1>9, <1>12
<1>14. OccursAt(Directive, s, k - d)
  <2>1. k - d >= 1 /\ k - d + d - 1 <= Len(s)
    BY <1>1, <1>3, <1>6, <1>10, <1>12
  <2>2. ASSUME NEW j \in 1 .. Len(Directive) PROVE s[k - d + j - 1] = Directive[j]
    <3>0. j \in 1 .. d /\ k \in Nat
      BY <1>3, <1>12 DEF d
    <3>1. k - d + j - 1 \in 1 .. Len(s) /\ k - d + j - 1 >= at - g
      BY <3>0, <2>1, <1>1, <1>3, <1>6, <1>12
    <3>2. k - d + j - 1 + g = Idx - d + j - 1
      BY <3>0, <1>1, <1>3, <1>6, <1>12
    <3>3. t[Idx - d + j - 1] = Directive[j]
      BY <1>1 DEF OccursAt
    <3> QED BY <3>1, <3>2, <3>3, <1>11
  <2> QED BY <2>1, <2>2 DEF OccursAt, d
<1>15. Longer(s, k) <=> Longer(t, Idx)
  <2>1. k <= Len(s) <=> Idx <= Len(t)
    BY <1>1, <1>3, <1>6, <1>7, <1>12
  <2>2. k <= Len(s) => t[Idx] = s[k]
    BY <1>1, <1>3, <1>6, <1>11, <1>12
  <2> QED BY <2>1, <2>2 DEF Longer
<1> QED
  BY <1>1, <1>3, <1>4, <1>5, <1>12, <1>13, <1>14, <1>15 DEF s, t, ks, g, k, d

LEMMA EditsConfirm ==
    ASSUME PlaceOK, EditsSoFar, ConfirmAppend PROVE EditsSoFar'
<1> DEFINE s == orig[row]
           ks == Confirmed(row)
           n == Cardinality(ks)
           w == Len(Insertion)
           k == Was(Idx)
<1>1. row <= Len(buf) /\ Hits(buf[row], at) # {} /\ ~Longer(buf[row], Idx)
  BY DEF ConfirmAppend, PlaceOK, AtDirective
<1>2. /\ row \in 1 .. Len(buf) /\ s \in Line /\ ks \subseteq 1 .. Len(s) + 1
      /\ IsEdited(buf[row], s, ks)
      /\ k \in 1 .. Len(s) + 1 /\ \A j \in ks : j < k
      /\ Idx = k + n * w
      /\ OccursAt(Directive, s, k - Len(Directive)) /\ ~Longer(s, k)
  BY <1>1, WasThere
<1>3. /\ buf[row] \in Line /\ credential \in Line /\ Idx \in 1 .. Len(buf[row]) + 1
      /\ Len(credential) \in Nat
  BY <1>1, IdxType DEF PlaceOK
<1>4. n \in Nat /\ IsFiniteSet(ks) /\ k \notin ks /\ Len(s) + 1 \in Nat
  BY <1>2, ConfirmedIsFinite DEF Line
<1>5. w \in Nat /\ w = Len(credential) + 1
  BY <1>3, InsertionLength
<1>6. IsEdited(Inserted(buf[row], Idx), s, ks \cup {k})
  BY <1>2, <1>3, EditedOnceMore
<1>7. /\ buf' = [buf EXCEPT ![row] = Inserted(buf[row], Idx)]
      /\ yes' = yes \cup {<<row, k>>} /\ at' = Idx + Len(credential) + 1 /\ pc' = "scan"
      /\ UNCHANGED <<row, orig, shown, credential>>
  BY DEF ConfirmAppend, StepOver, world, options
<1>8. Insertion' = Insertion
  BY <1>7 DEF Insertion
<1> HIDE DEF k, w
<1>9. Confirmed(row)' = ks \cup {k}
  BY <1>2, <1>7 DEF Confirmed
<1>10. ASSUME NEW r \in 1 .. Len(orig), r # row PROVE Confirmed(r)' = Confirmed(r)
  BY <1>7, <1>10 DEF Confirmed
<1>11. Len(buf') = Len(orig') /\ Len(buf') = Len(buf)
  <2>1. Len(orig) = Len(buf) /\ buf \in Seq(Line)
    BY DEF PlaceOK, TypeOK, Text, SameLines
  <2> QED BY <2>1, <1>7
<1>12. ASSUME NEW r \in 1 .. Len(buf') PROVE IsEdited(buf[r], orig[r], Confirmed(r))'
  <2>1. CASE r = row
    <3>1. buf'[r] = Inserted(buf[row], Idx)
      BY <2>1, <1>2, <1>7 DEF PlaceOK, TypeOK, Text
    <3> QED BY <2>1, <3>1, <1>6, <1>7, <1>8, <1>9 DEF IsEdited
  <2>2. CASE r # row
    <3>1. buf'[r] = buf[r] /\ r \in 1 .. Len(buf)
      BY <2>2, <1>7, <1>11 DEF PlaceOK, TypeOK, Text
    <3>2. IsEdited(buf[r], orig[r], Confirmed(r)) /\ Len(buf) = Len(orig)
      BY <3>1 DEF EditsSoFar, EditsAreTheConfirmedOnes
    <3> QED BY <2>2, <3>1, <3>2, <1>7, <1>8, <1>10 DEF IsEdited
  <2> QED BY <2>1, <2>2
<1>13. \A y \in yes' : /\ y \in shown'
                       /\ OccursAt(Directive, orig'[y[1]], y[2] - Len(Directive))
                       /\ ~Longer(orig'[y[1]], y[2])
                       /\ y = <<y[1], y[2]>>
                       /\ y[1] \in 1 .. Len(orig') /\ y[1] <= row'
                       /\ y[2] \in 1 .. Len(orig'[y[1]]) + 1
  <2> SUFFICES ASSUME NEW y \in yes'
               PROVE  /\ y \in shown
                      /\ OccursAt(Directive, orig[y[1]], y[2] - Len(Directive))
                      /\ ~Longer(orig[y[1]], y[2])
                      /\ y = <<y[1], y[2]>>
                      /\ y[1] \in 1 .. Len(orig) /\ y[1] <= row
                      /\ y[2] \in 1 .. Len(orig[y[1]]) + 1
    BY <1>7
  <2>1. CASE y \in yes
    BY <2>1 DEF EditsSoFar, EditsAreTheConfirmedOnes
  <2>2. CASE y = <<row, k>>
    <3>1. <<row, k>> \in shown
      BY DEF EditsSoFar, ConfirmAppend, k
    <3>2. y[1] = row /\ y[2] = k
      BY <2>2
    <3>3. row \in 1 .. Len(orig) /\ row <= row
      BY <1>2 DEF PlaceOK, SameLines
    <3> QED BY <2>2, <3>1, <3>2, <3>3, <1>2
  <2> QED BY <2>1, <2>2, <1>7
<1>14. \A j \in Confirmed(row)' : j <= Was(at)'
  <2>1. Cardinality(ks \cup {k}) = n + 1
    BY <1>4, FS_AddElement
  <2>2. Was(at)' = at' - (n + 1) * w
    <3>1. Was(at)' = at' - Cardinality(Confirmed(row)') * Len(Insertion')
      BY <1>7 DEF Was
    <3> QED BY <3>1, <2>1, <1>8, <1>9 DEF w
  <2>3. Was(at)' = k
    <3>1. (n + 1) * w = n * w + w /\ n * w \in Nat
      BY <1>4, <1>5, Times
    <3> DEFINE nw == n * w
    <3>2. Was(at)' = at' - (nw + w) /\ at' = k + nw + Len(credential) + 1 /\ nw \in Nat
      BY <3>1, <2>2, <1>2, <1>7 DEF w
    <3> HIDE DEF nw
    <3> QED BY <3>2, <1>2, <1>3, <1>4, <1>5
  <2>4. \A j \in ks \cup {k} : j <= k
    BY <1>2, <1>4
  <2> QED BY <2>3, <2>4, <1>9
<1> QED
  BY <1>7, <1>11, <1>12, <1>13, <1>14 DEF EditsSoFar, EditsAreTheConfirmedOnes

LEMMA EditsStep == PlaceOK /\ EditsSoFar /\ [Next]_vars => EditsSoFar'
<1> SUFFICES ASSUME PlaceOK, EditsSoFar, [Next]_vars PROVE EditsSoFar'
  OBVIOUS
<1>0. UNCHANGED <<credential, dryrun>> /\ Insertion' = Insertion
  BY OptionsKept DEF options, Insertion
<1>1. CASE UNCHANGED <<buf, row, at, orig, shown, yes>> /\ pc' \notin {"confirm", "next"}
  <2>1. EditsAreTheConfirmedOnes' /\ \A r : Confirmed(r)' = Confirmed(r)
    BY <1>0, <1>1, EditsKept DEF EditsSoFar
  <2>2. Was(at)' = Was(at)
    BY <1>0, <1>1, <2>1 DEF Was
  <2> QED BY <1>1, <2>1, <2>2 DEF EditsSoFar
<1>2. CASE ToNextFile
  <2>1. buf' = <<>> /\ orig' = <<>> /\ yes' = {} /\ pc' = "next"
    BY <1>2 DEF ToNextFile
  <2> QED BY <2>1 DEF EditsSoFar, EditsAreTheConfirmedOnes, Confirmed
<1>3. CASE ReadFile
  <2>1. /\ buf' = orig' /\ yes' = {} /\ pc' = "scan" /\ orig' \in Text
    <3>1. PlaceOK'
      BY PlaceStep
    <3> QED BY <1>3, <3>1 DEF ReadFile, EditsSoFar, PlaceOK, TypeOK
  <2>2. \A r : Confirmed(r)' = {}
    BY <2>1 DEF Confirmed
  <2>3. ASSUME NEW r \in 1 .. Len(orig') PROVE IsEdited(orig'[r], orig'[r], {})
    <3>1. credential \in Line
      BY DEF PlaceOK, TypeOK
    <3> QED BY <2>1, <3>1, ElementOfSeq, NothingEdited DEF Text
  <2>4. EditsAreTheConfirmedOnes'
    BY <1>0, <2>1, <2>2, <2>3 DEF EditsAreTheConfirmedOnes, IsEdited
  <2> QED BY <2>1, <2>2, <2>4 DEF EditsSoFar
<1>4. CASE /\ UNCHANGED <<buf, row, orig, yes>> /\ at' \in Nat /\ at' >= at
           /\ pc' = "scan" /\ shown \subseteq shown'
  <2>1. Confirmed(row)' = Confirmed(row)
    BY <1>4 DEF Confirmed
  <2>2. ASSUME row <= Len(orig) PROVE \A k \in Confirmed(row) : k <= Was(at)'
    <3> DEFINE g == Cardinality(Confirmed(row)) * Len(Insertion)
    <3>1. /\ Confirmed(row) \subseteq 1 .. Len(orig[row]) + 1 /\ orig[row] \in Line
      BY <2>2, ElementOfSeq DEF PlaceOK, TypeOK, Text, Confirmed, SameLines
    <3>2. Len(orig[row]) \in Nat /\ credential \in Line /\ at \in Nat
      BY <3>1 DEF Line, PlaceOK, TypeOK
    <3>3. g \in Nat
      <4>1. Cardinality(Confirmed(row)) \in Nat
        BY <3>1, <3>2, ConfirmedIsFinite
      <4>2. Len(Insertion) \in Nat
        BY <3>2, InsertionLength
      <4> QED BY <4>1, <4>2, Times
    <3>4. Was(at) = at - g
      BY DEF Was
    <3>5. Was(at)' = at' - g
      <4>1. Was(at)' = at' - Cardinality(Confirmed(row)') * Len(Insertion')
        BY <1>4 DEF Was
      <4> QED BY <4>1, <2>1, <1>0
    <3> HIDE DEF g
    <3>6. \A k \in Confirmed(row) : k \in Nat /\ k <= Was(at)
      BY <2>2, <3>1, <3>2 DEF EditsSoFar
    <3> QED BY <3>2, <3>3, <3>4, <3>5, <3>6, <1>4
  <2>3. EditsAreTheConfirmedOnes'
    BY <1>0, <1>4, EditsKept DEF EditsSoFar
  <2> QED BY <1>4, <2>1, <2>2, <2>3 DEF EditsSoFar
<1>5. CASE AskToAppend
  <2>1. /\ UNCHANGED <<buf, row, at, orig, yes>> /\ pc' = "confirm"
        /\ shown' = shown \cup {<<row, Was(Idx)>>}
    BY <1>5 DEF AskToAppend, Show
  <2>2. Was(at)' = Was(at) /\ Was(Idx)' = Was(Idx) /\ \A r : Confirmed(r)' = Confirmed(r)
    BY <1>0, <2>1 DEF Was, Confirmed, Idx
  <2>3. EditsAreTheConfirmedOnes'
    BY <1>0, <2>1, EditsKept DEF EditsSoFar
  <2> QED BY <2>1, <2>2, <2>3 DEF EditsSoFar
<1>6. CASE ConfirmAppend
  BY <1>6, EditsConfirm
<1>7. CASE NextLine
  <2>1. UNCHANGED <<buf, orig, yes, shown>> /\ pc' = "scan" /\ row' = row + 1 /\ row \in Nat
    BY <1>7 DEF NextLine, Scanning, PlaceOK, TypeOK
  <2>2. Confirmed(row)' = {}
    <3>1. \A y \in yes : y[1] <= row
      BY DEF EditsSoFar
    <3>2. \A k : <<row + 1, k>> \notin yes
      BY <3>1, <2>1
    <3> QED BY <3>2, <2>1 DEF Confirmed
  <2>3. \A y \in yes : y[1] <= row'
    BY <2>1 DEF EditsSoFar
  <2>4. EditsAreTheConfirmedOnes'
    BY <1>0, <2>1, EditsKept DEF EditsSoFar
  <2> QED BY <2>1, <2>2, <2>3, <2>4 DEF EditsSoFar
<1>8. CASE \/ NoDot \/ AssignOutput \/ OpenOutput \/ RetryOutput \/ WriteLine \/ WriteFails
           \/ Summary \/ Kill
  <2>1. UNCHANGED editing /\ pc' \notin {"confirm", "next"}
    BY <1>8 DEF NoDot, AssignOutput, OpenOutput, RetryOutput, WriteLine, WriteFails, Summary, Kill
  <2> QED BY <1>1, <2>1 DEF editing
<1>9. CASE Unsupported \/ CannotOpen \/ NoUpdates \/ GiveUp \/ CloseOutput
  BY <1>2, <1>9 DEF Unsupported, CannotOpen, NoUpdates, GiveUp, CloseOutput
<1>10. CASE OpenFails
  <2>1. CASE Silent
    BY <2>1, <1>2, <1>10 DEF OpenFails
  <2>2. CASE ~ Silent
    BY <2>2, <1>1, <1>10 DEF OpenFails, editing
  <2> QED BY <2>1, <2>2
<1>11. CASE PassLonger \/ AlreadyThere \/ ShowOnly \/ DeclineAppend
  <2>1. /\ UNCHANGED <<buf, row, orig, yes>>
        /\ pc' = "scan" /\ shown \subseteq shown'
    BY <1>11 DEF PassLonger, AlreadyThere, ShowOnly, DeclineAppend, Show, Proposes, Scanning, Found
  <2>2. row <= Len(buf) /\ Hits(buf[row], at) # {} /\ (at' = Idx \/ StepOver)
    BY <1>11 DEF PassLonger, AlreadyThere, ShowOnly, DeclineAppend, Proposes, Scanning, Found,
                 PlaceOK, AtDirective
  <2>3. at' \in Nat /\ at' >= at /\ at \in Nat
    BY <2>2, StepType DEF PlaceOK, TypeOK
  <2> QED BY <1>4, <2>1, <2>3
<1>12. CASE UNCHANGED <<pc, buf, row, at, orig, shown, yes>>
  <2>1. Was(at)' = Was(at) /\ Was(Idx)' = Was(Idx) /\ \A r : Confirmed(r)' = Confirmed(r)
    BY <1>0, <1>12 DEF Was, Confirmed, Idx
  <2>2. EditsAreTheConfirmedOnes'
    BY <1>0, <1>12, EditsKept DEF EditsSoFar
  <2> QED BY <1>12, <2>1, <2>2 DEF EditsSoFar
<1>13. CASE (\E p \in Paths : ForeignStore(p)) \/ Terminated \/ UNCHANGED vars
  BY <1>12, <1>13 DEF ForeignStore, Terminated, vars, editing
<1> QED
  BY <1>3, <1>5, <1>6, <1>7, <1>8, <1>9, <1>10, <1>11, <1>13 DEF Next, Program

(* However the offsets move while the line grows (Auth.cpp:106-137), the     *)
(* buffer is the text that was read with the credential at exactly the       *)
(* places that were shown and confirmed, each directly behind a directive    *)
(* that no letter or digit continues, for all texts and credentials.         *)
THEOREM OnlyConfirmedEdits == Spec => []EditsAreTheConfirmedOnes
<1>1. EditsSoFar => EditsAreTheConfirmedOnes
  BY DEF EditsSoFar
<1> QED
  BY <1>1, EditsInit, EditsStep, PlaceInit, PlaceStep, PTL DEF Spec

-----------------------------------------------------------------------------
(* Every directive is served.                                                *)

(* Two strings that stand in one line and have a place in common overlap.    *)
LEMMA StandingOverlap ==
    ASSUME NEW p, NEW q, Len(p) \in Nat, Len(q) \in Nat, NEW s, NEW k \in Nat, NEW d \in Nat,
           OccursAt(p, s, k), OccursAt(q, s, d), d < k + Len(p), k < d + Len(q)
    PROVE  Overlap(p, q, d - k)
<1>1. -Len(q) < d - k /\ d - k < Len(p)
  OBVIOUS
<1>2. ASSUME NEW j \in 1 .. Len(q), d - k + j \in 1 .. Len(p) PROVE p[d - k + j] = q[j]
  <2>1. s[k + (d - k + j) - 1] = p[d - k + j]
    BY <1>2 DEF OccursAt
  <2>2. s[d + j - 1] = q[j]
    BY DEF OccursAt
  <2>3. k + (d - k + j) - 1 = d + j - 1
    OBVIOUS
  <2> QED BY <2>1, <2>2, <2>3
<1> QED BY <1>1, <1>2 DEF Overlap

(* No directive begins inside another one.                                   *)
LEMMA NoneInside ==
    ASSUME NEW s, NEW m \in Nat, NEW d \in Nat,
           OccursAt(Directive, s, m), OccursAt(Directive, s, d), m < d
    PROVE  d >= m + Len(Directive)
<1> SUFFICES ASSUME d < m + Len(Directive) PROVE FALSE
  BY AuthorizerAssumption
<1>1. Len(Directive) \in Nat
  BY AuthorizerAssumption
<1>2. Overlap(Directive, Directive, d - m)
  BY <1>1, StandingOverlap
<1>3. d - m \in 1 .. Len(Directive)
  BY <1>1
<1> QED BY <1>2, <1>3, AuthorizerAssumption

(* A credential that cannot overlap a directive does not.                    *)
LEMMA StandApart ==
    ASSUME Apart, credential \in Line, NEW s, NEW c \in Nat, NEW d \in Nat,
           OccursAt(credential, s, c), OccursAt(Directive, s, d)
    PROVE  d >= c + Len(credential) \/ c >= d + Len(Directive)
<1> SUFFICES ASSUME d < c + Len(credential), c < d + Len(Directive) PROVE FALSE
  BY AuthorizerAssumption DEF Line
<1>1. Len(Directive) \in Nat /\ Len(credential) \in Nat
  BY AuthorizerAssumption DEF Line
<1>2. Overlap(credential, Directive, d - c)
  BY <1>1, StandingOverlap
<1>3. d - c \in -Len(Directive) .. Len(credential)
  BY <1>1
<1> QED BY <1>2, <1>3 DEF Apart

LEMMA UnservedIs ==
    ASSUME NEW s \in Line, NEW k \in Unserved(s)
    PROVE  /\ k \in 1 .. Len(s) + 1 /\ Len(s) \in Nat
           /\ k - Len(Directive) \in Nat /\ k - Len(Directive) >= 1
           /\ OccursAt(Directive, s, k - Len(Directive)) /\ ~Longer(s, k)
           /\ Occurrences(credential, s, k) = {}
           /\ ~OccursAt(credential, s, k - Len(Directive) - Len(credential))
<1>1. Len(Directive) \in Nat /\ Len(s) \in Nat
  BY AuthorizerAssumption DEF Line
<1>2. /\ k \in 1 .. Len(s) + 1
      /\ OccursAt(Directive, s, k - Len(Directive)) /\ ~Longer(s, k)
      /\ Occurrences(credential, s, k) = {}
      /\ ~OccursAt(credential, s, k - Len(Directive) - Len(credential))
  BY DEF Unserved
<1>3. k - Len(Directive) >= 1
  BY <1>2 DEF OccursAt
<1> QED BY <1>1, <1>2, <1>3

(* In a text none of whose appendages was refused: the lines above are done, *)
(* and so is the line in turn as far as it was searched.                     *)
InText   == pc \in {"scan", "confirm", "open", "retry", "write"}
RowsDone == \A r \in 1 .. Len(buf) : r < row => Unserved(buf[r]) = {}
RowDone  == row <= Len(buf) => \A k \in Unserved(buf[row]) : k - Len(Directive) >= at
Served   == InText /\ ~refused /\ ~dryrun /\ Apart => RowsDone /\ RowDone

(* A directive that the search passes over is the one it found or none.      *)
LEMMA PassedOver ==
    ASSUME PlaceOK, RowDone, row <= Len(buf), Hits(buf[row], at) # {},
           NEW k \in Unserved(buf[row]), k - Len(Directive) < Idx
    PROVE  k = Idx
<1>1. /\ buf[row] \in Line /\ at \in Nat \ {0} /\ Idx \in Nat
      /\ Idx >= at + Len(Directive) /\ Len(Directive) \in Nat
      /\ OccursAt(Directive, buf[row], Idx - Len(Directive))
      /\ \A j \in at .. Idx - Len(Directive) - 1 : ~OccursAt(Directive, buf[row], j)
  BY IdxType DEF PlaceOK
<1> DEFINE d == k - Len(Directive)
           m == Idx - Len(Directive)
<1>2. d \in Nat /\ k \in Nat /\ OccursAt(Directive, buf[row], d) /\ d >= at
  BY <1>1, UnservedIs DEF RowDone
<1>3. m \in Nat /\ d >= m
  BY <1>1, <1>2
<1>4. ASSUME m < d PROVE FALSE
  <2>1. d >= m + Len(Directive)
    BY <1>1, <1>2, <1>3, <1>4, NoneInside
  <2> QED BY <2>1, <1>1, <1>2
<1> QED BY <1>1, <1>2, <1>3, <1>4

LEMMA ServedAlreadyThere ==
    ASSUME PlaceOK, RowDone, Apart, AlreadyThere, NEW k \in Unserved(buf[row])
    PROVE  k - Len(Directive) >= Idx + Len(credential) + 1
<1> DEFINE t == buf[row]
           d == k - Len(Directive)
           c == Min(Occurrences(credential, t, Idx))
<1>1. row <= Len(buf) /\ Hits(t, at) # {} /\ Provided(t, Idx)
  BY DEF AlreadyThere, Found, Scanning
<1>2. /\ t \in Line /\ Idx \in Nat /\ Idx >= 1 /\ Len(Directive) \in Nat
      /\ credential \in Line /\ Len(credential) \in Nat
  BY <1>1, IdxType DEF PlaceOK
<1>3. c \in Nat /\ c >= Idx /\ OccursAt(credential, t, c) /\ c <= Len(t)
  <2>1. Occurrences(credential, t, Idx) # {}
    BY <1>1 DEF Provided
  <2>2. Occurrences(credential, t, Idx) \subseteq Nat
    BY <1>2 DEF Occurrences
  <2>3. c \in Occurrences(credential, t, Idx)
    BY <2>1, <2>2, MinIsLeast
  <2>4. c <= Len(t)
    BY <1>1 DEF Provided
  <2> HIDE DEF c
  <2> QED BY <2>2, <2>3, <2>4 DEF Occurrences
<1> HIDE DEF c
<1>4. /\ k \in Nat /\ d \in Nat /\ OccursAt(Directive, t, d) /\ Occurrences(credential, t, k) = {}
      /\ ~OccursAt(credential, t, d - Len(credential)) /\ Len(t) \in Nat
  BY <1>2, UnservedIs
<1>5. ASSUME c >= k PROVE FALSE
  <2>1. c \in Occurrences(credential, t, k)
    BY <1>3, <1>4, <1>5 DEF Occurrences
  <2> QED BY <2>1, <1>4
<1>6. d >= Idx
  <2>1. CASE d < Idx
    <3>1. k = Idx
      BY <2>1, <1>1, PassedOver
    <3> QED BY <3>1, <1>3, <1>5
  <2> QED BY <2>1, <1>2, <1>4
<1>7. d >= c + Len(credential)
  <2>1. d >= c + Len(credential) \/ c >= d + Len(Directive)
    BY <1>2, <1>3, <1>4, StandApart
  <2> QED BY <2>1, <1>2, <1>3, <1>4, <1>5
<1>8. d # c + Len(credential)
  <2>1. ASSUME d = c + Len(credential) PROVE FALSE
    <3>1. d - Len(credential) = c
      BY <2>1, <1>2, <1>3
    <3> QED BY <3>1, <1>3, <1>4
  <2> QED BY <2>1
<1> QED BY <1>2, <1>3, <1>4, <1>7, <1>8

LEMMA ServedConfirm ==
    ASSUME PlaceOK, RowDone, Apart, ConfirmAppend,
           NEW k \in Unserved(Inserted(buf[row], Idx))
    PROVE  k - Len(Directive) >= Idx + Len(credential) + 1
<1> DEFINE s == buf[row]
           t == Inserted(s, Idx)
           d == k - Len(Directive)
           i == Idx
<1>1. row <= Len(buf) /\ Hits(s, at) # {}
  BY DEF ConfirmAppend, PlaceOK, AtDirective
<1>2. /\ s \in Line /\ i \in 1 .. Len(s) + 1 /\ Len(Directive) \in Nat /\ Len(s) \in Nat
      /\ credential \in Line /\ Len(credential) \in Nat
  BY <1>1, IdxType DEF PlaceOK
<1>3. /\ t \in Line /\ Len(t) = Len(s) + (Len(credential) + 1) /\ t[i] = Blank
      /\ \A j \in 1 .. Len(credential) : t[i + j] = credential[j]
  BY <1>2, InsertedLine
<1>4. /\ k \in Nat /\ d \in Nat /\ d >= 1 /\ OccursAt(Directive, t, d)
      /\ Occurrences(credential, t, k) = {}
  BY <1>3, UnservedIs
<1> HIDE DEF s, t, i
<1>a. Len(t) \in Nat
  <2>1. t \in Seq(Char)
    BY <1>3, Zenon DEF Line
  <2> QED BY <2>1
<1>b. i \in Nat /\ i >= 1 /\ i + Len(credential) <= Len(t)
  BY <1>2, <1>3
<1>5. OccursAt(credential, t, i + 1)
  <2>1. ASSUME NEW j \in 1 .. Len(credential) PROVE t[i + 1 + j - 1] = credential[j]
    <3>1. i + 1 + j - 1 = i + j
      BY <1>2
    <3> QED BY <3>1, <1>3
  <2>2. i + 1 >= 1 /\ i + 1 + Len(credential) - 1 <= Len(t)
    BY <1>2, <1>a, <1>b
  <2> QED BY <2>1, <2>2 DEF OccursAt
<1>6. k > i
  <2>1. ASSUME k <= i PROVE FALSE
    <3>1. i + 1 \in k .. Len(t) + 1
      BY <2>1, <1>2, <1>a, <1>b, <1>4
    <3>2. i + 1 \in Occurrences(credential, t, k)
      BY <3>1, <1>5 DEF Occurrences
    <3> QED BY <3>2, <1>4
  <2> QED BY <2>1, <1>2, <1>4
<1>7. d > i
  <2>1. ASSUME d <= i PROVE FALSE
    <3> DEFINE j == i - d + 1
    <3>1. j \in 1 .. Len(Directive) /\ d + j - 1 = i
      BY <2>1, <1>2, <1>4, <1>6
    <3>2. t[d + j - 1] = Directive[j]
      BY <3>1, <1>4 DEF OccursAt
    <3>3. Directive[j] \in Alnum \cup Marks
      BY <3>1, ElementOfSeq, AuthorizerAssumption
    <3> QED BY <3>1, <3>2, <3>3, <1>3, AuthorizerAssumption
  <2> QED BY <2>1, <1>2, <1>4
<1>8. d >= (i + 1) + Len(credential)
  <2>1. d >= (i + 1) + Len(credential) \/ i + 1 >= d + Len(Directive)
    BY <1>2, <1>4, <1>5, StandApart
  <2>2. Len(Directive) >= 2
    BY AuthorizerAssumption
  <2> QED BY <2>1, <2>2, <1>2, <1>4, <1>7
<1> QED BY <1>2, <1>4, <1>8 DEF i, s

LEMMA ServedStep == PlaceOK /\ Served /\ [Next]_vars => Served'
<1> SUFFICES ASSUME PlaceOK, Served, [Next]_vars,
                    InText', ~refused', ~dryrun', Apart'
             PROVE  RowsDone' /\ RowDone'
  BY DEF Served
<1>a. UNCHANGED <<credential, dryrun>> /\ ~dryrun /\ Apart
  BY OptionsKept DEF options, Apart
<1>b. UNCHANGED credential
  BY <1>a
<1>c. \A s : Unserved(s)' = Unserved(s)
  BY <1>b DEF Unserved
<1>d. TypeOK /\ AtDirective /\ FreshAtNext
  BY DEF PlaceOK
<1>e. InText /\ ~refused => RowsDone /\ RowDone
  BY <1>a DEF Served
<1>1. CASE UNCHANGED <<buf, row, at>> /\ InText /\ ~refused
  BY <1>1, <1>b, <1>e DEF RowsDone, RowDone, Unserved
<1>2. CASE ToNextFile
  BY <1>2 DEF ToNextFile, InText
<1>3. CASE ReadFile
  <2>1. row' = 1 /\ at' = 1
    BY <1>3, <1>d DEF ReadFile, FreshAtNext
  <2>2. RowsDone'
    BY <2>1 DEF RowsDone
  <2>3. TypeOK'
    BY PlaceStep DEF PlaceOK
  <2>4. RowDone'
    <3> SUFFICES ASSUME row' <= Len(buf'), NEW k \in Unserved(buf[row])'
                 PROVE  k - Len(Directive) >= 1
      BY <2>1 DEF RowDone
    <3>1. buf'[row'] \in Line
      BY <2>3, <2>1, ElementOfSeq DEF TypeOK, Text
    <3> QED BY <3>1, <1>b, UnservedIs DEF Unserved
  <2> QED BY <2>2, <2>4
<1>4. CASE PassLonger
  <2>1. /\ RowsDone /\ RowDone /\ row <= Len(buf) /\ Hits(buf[row], at) # {}
        /\ Longer(buf[row], Idx) /\ at' = Idx /\ UNCHANGED <<buf, row>>
    BY <1>4, <1>e DEF PassLonger, Found, Scanning, InText
  <2>2. buf[row] \in Line /\ Idx \in Nat /\ Len(Directive) \in Nat
    BY <2>1, IdxType DEF PlaceOK
  <2>3. ASSUME NEW k \in Unserved(buf[row]) PROVE k - Len(Directive) >= Idx
    <3>1. k \in Nat /\ ~Longer(buf[row], k)
      BY <2>2, UnservedIs
    <3>2. ASSUME k - Len(Directive) < Idx PROVE FALSE
      BY <2>1, <3>1, <3>2, PassedOver
    <3> QED BY <3>1, <3>2, <2>2
  <2>4. RowDone'
    BY <2>1, <2>3, <1>b DEF RowDone, Unserved
  <2>5. RowsDone'
    BY <2>1, <1>b DEF RowsDone, Unserved
  <2> QED BY <2>4, <2>5
<1>5. CASE AlreadyThere
  <2>1. /\ RowsDone /\ RowDone /\ at' = Idx + Len(credential) + 1 /\ UNCHANGED <<buf, row>>
    BY <1>5, <1>e DEF AlreadyThere, StepOver, Found, Scanning, InText
  <2>2. \A k \in Unserved(buf[row]) : k - Len(Directive) >= Idx + Len(credential) + 1
    BY <2>1, <1>5, <1>a, ServedAlreadyThere
  <2>3. RowDone'
    BY <2>1, <2>2, <1>b DEF RowDone, Unserved
  <2>4. RowsDone'
    BY <2>1, <1>b DEF RowsDone, Unserved
  <2> QED BY <2>3, <2>4
<1>6. CASE ConfirmAppend
  <2>1. /\ RowsDone /\ RowDone /\ row <= Len(buf) /\ UNCHANGED row
        /\ buf' = [buf EXCEPT ![row] = Inserted(buf[row], Idx)]
        /\ at' = Idx + Len(credential) + 1
    BY <1>6, <1>e, <1>d DEF ConfirmAppend, StepOver, AtDirective, InText
  <2>2. row \in 1 .. Len(buf) /\ buf \in Seq(Line)
    BY <2>1, <1>d, RowType DEF TypeOK, Text
  <2>3. /\ Len(buf') = Len(buf) /\ buf'[row] = Inserted(buf[row], Idx)
        /\ \A r \in 1 .. Len(buf) : r # row => buf'[r] = buf[r]
    BY <2>1, <2>2
  <2>4. \A k \in Unserved(Inserted(buf[row], Idx)) : k - Len(Directive) >= Idx + Len(credential) + 1
    BY <2>1, <1>6, <1>a, ServedConfirm
  <2>5. RowDone'
    <3> SUFFICES ASSUME NEW k \in Unserved(buf[row])' PROVE k - Len(Directive) >= at'
      BY DEF RowDone
    <3>1. k \in Unserved(Inserted(buf[row], Idx))
      BY <2>1, <2>3, <1>b DEF Unserved
    <3> QED BY <3>1, <2>1, <2>4
  <2>6. RowsDone'
    BY <2>1, <2>2, <2>3, <1>b DEF RowsDone, Unserved
  <2> QED BY <2>5, <2>6
<1>7. CASE NextLine
  <2>1. /\ RowsDone /\ RowDone /\ row <= Len(buf) /\ Hits(buf[row], at) = {}
        /\ row' = row + 1 /\ at' = 1 /\ UNCHANGED buf
    BY <1>7, <1>e DEF NextLine, Found, Scanning, InText
  <2>2. row \in 1 .. Len(buf) /\ buf[row] \in Line /\ Len(buf) \in Nat /\ at \in Nat
    BY <2>1, <1>d, RowType DEF TypeOK, Text
  <2>3. Unserved(buf[row]) = {}
    <3> SUFFICES ASSUME NEW k \in Unserved(buf[row]) PROVE FALSE
      OBVIOUS
    <3> DEFINE d == k - Len(Directive)
    <3>1. d \in Nat /\ OccursAt(Directive, buf[row], d) /\ d >= at /\ d <= Len(buf[row]) + 1
      <4>1. Len(Directive) \in Nat
        BY AuthorizerAssumption
      <4> QED BY <4>1, <2>1, <2>2, UnservedIs DEF RowDone
    <3>2. d \in Hits(buf[row], at)
      BY <3>1, <2>2 DEF Hits, Occurrences, Line
    <3> QED BY <3>2, <2>1
  <2>4. RowsDone'
    BY <2>1, <2>2, <2>3, <1>b DEF RowsDone, Unserved
  <2>5. RowDone'
    <3> SUFFICES ASSUME row' <= Len(buf'), NEW k \in Unserved(buf[row])'
                 PROVE  k - Len(Directive) >= 1
      BY <2>1 DEF RowDone
    <3>1. buf[row + 1] \in Line
      <4>1. row + 1 \in 1 .. Len(buf)
        BY <2>1, <2>2
      <4> QED BY <4>1, <1>d, ElementOfSeq DEF TypeOK, Text
    <3>2. k \in Unserved(buf[row + 1])
      BY <2>1, <1>b DEF Unserved
    <3> QED BY <3>1, <3>2, UnservedIs
  <2> QED BY <2>4, <2>5
<1>8. CASE ShowOnly \/ DeclineAppend
  BY <1>8, <1>a DEF ShowOnly, DeclineAppend
<1>9. CASE AskToAppend \/ AssignOutput \/ OpenOutput \/ RetryOutput \/ WriteLine \/ WriteFails
  <2>1. UNCHANGED <<buf, row, at>> /\ InText /\ ~refused
    BY <1>9 DEF AskToAppend, Proposes, Found, Scanning, SearchOver, AssignOutput, OpenOutput,
                RetryOutput, WriteLine, WriteFails, editing, InText
  <2> QED BY <1>1, <2>1
<1>10. CASE NoDot \/ Summary \/ Kill
  BY <1>10 DEF NoDot, Summary, Kill, InText
<1>11. CASE Unsupported \/ CannotOpen \/ NoUpdates \/ GiveUp \/ CloseOutput
  BY <1>2, <1>11 DEF Unsupported, CannotOpen, NoUpdates, GiveUp, CloseOutput
<1>12. CASE OpenFails
  <2>1. CASE Silent
    BY <2>1, <1>2, <1>12 DEF OpenFails
  <2>2. CASE ~Silent
    <3>1. UNCHANGED <<buf, row, at>> /\ InText /\ ~refused
      BY <2>2, <1>12 DEF OpenFails, editing, InText
    <3> QED BY <1>1, <3>1
  <2> QED BY <2>1, <2>2
<1>13. CASE (\E p \in Paths : ForeignStore(p)) \/ Terminated \/ UNCHANGED vars
  <2>1. UNCHANGED <<buf, row, at>> /\ InText /\ ~refused
    BY <1>13 DEF ForeignStore, Terminated, vars, editing, InText
  <2> QED BY <1>1, <2>1
<1> QED
  BY <1>3, <1>4, <1>5, <1>6, <1>7, <1>8, <1>9, <1>10, <1>11, <1>12, <1>13 DEF Next, Program

(* When the search of a text is over and nothing was refused, each directive *)
(* has a credential behind it on its line, or stands directly behind one:    *)
(* passing over credential.length() + 1 characters where nothing was         *)
(* inserted (Auth.cpp:135) loses no other.                                   *)
THEOREM AllServed == Spec => []AllDirectivesServed
<1>1. Init => Served
  BY DEF Init, Served, InText
<1>2. PlaceOK /\ Served => AllDirectivesServed
  <2> SUFFICES ASSUME PlaceOK, Served,
                      SearchOver \/ pc \in {"open", "retry", "write"}, ~refused, ~dryrun, Apart,
                      NEW r \in 1 .. Len(buf)
               PROVE  Unserved(buf[r]) = {}
    BY DEF AllDirectivesServed
  <2>1. row > Len(buf) /\ row \in Nat /\ Len(buf) \in Nat
    BY DEF SearchOver, PlaceOK, TypeOK, Text, SearchedAll
  <2>2. RowsDone
    BY DEF Served, InText, SearchOver
  <2>3. r < row
    BY <2>1
  <2> QED
    BY <2>2, <2>3 DEF RowsDone
<1> QED
  BY <1>1, <1>2, PlaceInit, PlaceStep, ServedStep, PTL DEF Spec

-----------------------------------------------------------------------------
(* The same file again.                                                      *)

(* The search on one line for the credential c.  A step from v to w passes   *)
(* over a longer word or a directive that has its credential.  A line is     *)
(* quiet from a on when a search that begins there never has to ask, and a   *)
(* trail leads to a when one from the begin of the line came there without a *)
(* question.  Both are told by the set of the positions it comes to.         *)
Given(c, s, k) ==
    LET places == Occurrences(c, s, k)
    IN  places # {} /\ Min(places) <= Len(s) /\ s[Min(places)] # Blank
Step(c, s, v, w) ==
    /\ Hits(s, v) # {}
    /\ IF Longer(s, Behind(s, v)) THEN w = Behind(s, v)
       ELSE Given(c, s, Behind(s, v)) /\ w = Behind(s, v) + Len(c) + 1
Closed(c, s, V) ==
    /\ V \subseteq Nat \ {0}
    /\ \A v \in V : Hits(s, v) # {} => \E w \in V : Step(c, s, v, w)
Quiet(c, s, a) == \E V : a \in V /\ Closed(c, s, V)
LeadsTo(c, s, a, V) ==
    /\ V \subseteq Nat \ {0} /\ 1 \in V /\ a \in V
    /\ \A v \in V : v <= a /\ (v # a => \E w \in V : Step(c, s, v, w))
Trail(c, s, a) == \E V : LeadsTo(c, s, a, V)
Findable(c) == c # <<>> /\ c[1] # Blank /\ \A k \in 1 .. Len(c) : c[k] # Sharp

LEMMA StepForward ==
    ASSUME NEW c \in Line, NEW s \in Line, NEW v \in Nat \ {0}, NEW w, Step(c, s, v, w)
    PROVE  w \in Nat \ {0} /\ w > v /\ w >= Behind(s, v) /\ Behind(s, v) \in Nat
<1>1. Len(c) \in Nat /\ Len(Directive) \in Nat /\ Len(Directive) >= 2
  BY AuthorizerAssumption DEF Line
<1>2. Behind(s, v) \in Nat /\ Behind(s, v) >= v + Len(Directive)
  BY NextHit DEF Step
<1>3. w = Behind(s, v) \/ w = Behind(s, v) + Len(c) + 1
  BY DEF Step
<1> QED BY <1>1, <1>2, <1>3

LEMMA TrailBegins ==
    ASSUME NEW c, NEW s PROVE Trail(c, s, 1)
<1>1. LeadsTo(c, s, 1, {1})
  BY DEF LeadsTo
<1> QED BY <1>1 DEF Trail

LEMMA TrailGrows ==
    ASSUME NEW c \in Line, NEW s \in Line, NEW a, Trail(c, s, a), NEW w, Step(c, s, a, w)
    PROVE  Trail(c, s, w)
<1>1. PICK V : LeadsTo(c, s, a, V)
  BY DEF Trail
<1>2. V \subseteq Nat \ {0} /\ 1 \in V /\ a \in V /\ a \in Nat \ {0}
  BY <1>1 DEF LeadsTo
<1>3. w \in Nat \ {0} /\ w > a
  BY <1>2, StepForward
<1>4. LeadsTo(c, s, w, V \cup {w})
  <2>1. ASSUME NEW v \in V \cup {w}
        PROVE  v <= w /\ (v # w => \E x \in V \cup {w} : Step(c, s, v, x))
    <3>1. CASE v = w
      BY <3>1, <1>3
    <3>2. CASE v = a
      BY <3>2, <1>2, <1>3
    <3>3. CASE v \in V /\ v # a
      <4>1. v <= a /\ \E x \in V : Step(c, s, v, x)
        BY <3>3, <1>1 DEF LeadsTo
      <4>2. v \in Nat
        BY <3>3, <1>2
      <4> QED BY <4>1, <4>2, <1>2, <1>3
    <3> QED BY <3>1, <3>2, <3>3
  <2> QED BY <2>1, <1>2, <1>3 DEF LeadsTo
<1> QED BY <1>4 DEF Trail

LEMMA TrailEnds ==
    ASSUME NEW c, NEW s, NEW a, Trail(c, s, a), Hits(s, a) = {}
    PROVE  Quiet(c, s, 1)
<1>1. PICK V : LeadsTo(c, s, a, V)
  BY DEF Trail
<1>2. 1 \in V /\ Closed(c, s, V)
  BY <1>1 DEF LeadsTo, Closed
<1> QED BY <1>2 DEF Quiet

LEMMA QuietStep ==
    ASSUME NEW c, NEW s, NEW a, Quiet(c, s, a), Hits(s, a) # {}
    PROVE  \E w : Step(c, s, a, w) /\ Quiet(c, s, w)
<1>1. PICK V : a \in V /\ Closed(c, s, V)
  BY DEF Quiet
<1>2. PICK w \in V : Step(c, s, a, w)
  BY <1>1 DEF Closed
<1> QED BY <1>1, <1>2 DEF Quiet

(* A credential that can be found is there as soon as it stands anywhere.    *)
LEMMA GivenIs ==
    ASSUME NEW c \in Line, Findable(c), NEW s \in Line, NEW k \in Nat \ {0},
           NEW j \in Nat, j >= k, OccursAt(c, s, j)
    PROVE  Given(c, s, k)
<1> DEFINE places == Occurrences(c, s, k)
           m == Min(places)
<1>1. Len(c) \in Nat /\ Len(s) \in Nat /\ Len(c) >= 1
  BY EmptySeq DEF Line, Findable
<1>2. j \in places
  BY <1>1 DEF Occurrences, OccursAt
<1>3. places \subseteq Nat
  BY <1>1 DEF Occurrences
<1>4. m \in places
  <2> HIDE DEF places
  <2> QED BY <1>2, <1>3, MinIsLeast
<1>5. m \in Nat /\ OccursAt(c, s, m)
  <2> HIDE DEF m
  <2> QED BY <1>3, <1>4 DEF Occurrences
<1> HIDE DEF m
<1>6. m <= Len(s) /\ s[m] = c[1]
  <2>1. 1 \in 1 .. Len(c) /\ m + 1 - 1 = m
    BY <1>1, <1>5
  <2>2. s[m + 1 - 1] = c[1]
    BY <1>5, <2>1 DEF OccursAt
  <2>3. m + Len(c) - 1 <= Len(s)
    BY <1>5 DEF OccursAt
  <2> QED BY <2>1, <2>2, <2>3, <1>1, <1>5
<1>7. c[1] # Blank
  BY DEF Findable
<1> QED BY <1>2, <1>6, <1>7 DEF Given, m

(* What stands in the common beginning of two lines.                         *)
LEMMA OccursInBoth ==
    ASSUME NEW p, Len(p) \in Nat, NEW s, NEW t, NEW n \in Nat, n <= Len(t),
           Len(t) \in Nat,
           \A j \in 1 .. n : t[j] = s[j], NEW k \in Nat, k + Len(p) - 1 <= n,
           OccursAt(p, s, k)
    PROVE  OccursAt(p, t, k)
<1>1. k >= 1 /\ k + Len(p) - 1 <= Len(t)
  BY DEF OccursAt
<1>2. ASSUME NEW j \in 1 .. Len(p) PROVE t[k + j - 1] = p[j]
  <2>1. k + j - 1 \in 1 .. n
    BY <1>1
  <2>2. s[k + j - 1] = p[j]
    BY DEF OccursAt
  <2> QED BY <2>1, <2>2
<1> QED BY <1>1, <1>2 DEF OccursAt

(* The line t is s up to position i, where an insertion begins.              *)
LEMMA HitKept ==
    ASSUME NEW s \in Line, NEW t \in Line, NEW i \in Nat, i >= 1,
           i <= Len(s) + 1, i <= Len(t) + 1, \A j \in 1 .. i - 1 : t[j] = s[j],
           NEW v \in Nat \ {0}, Hits(s, v) # {}, Behind(s, v) <= i
    PROVE  Hits(t, v) # {} /\ Behind(t, v) = Behind(s, v)
<1> DEFINE m == Behind(s, v)
           d == m - Len(Directive)
<1>1. /\ Len(Directive) \in Nat /\ Len(Directive) >= 2
      /\ Len(s) \in Nat /\ Len(t) \in Nat
  BY AuthorizerAssumption DEF Line
<1>2. /\ m \in Nat /\ m >= v + Len(Directive) /\ m <= Len(s) + 1
      /\ OccursAt(Directive, s, d)
      /\ \A j \in v .. d - 1 : ~OccursAt(Directive, s, j)
  BY NextHit
<1> HIDE DEF m
<1>3. d \in Nat /\ d >= v /\ d + Len(Directive) = m /\ i - 1 \in Nat /\ m <= i
  BY <1>1, <1>2 DEF m
<1>4. OccursAt(Directive, t, d)
  <2>1. d + Len(Directive) - 1 <= i - 1 /\ i - 1 <= Len(t)
    BY <1>1, <1>3
  <2> HIDE DEF d
  <2> QED BY <2>1, <1>1, <1>2, <1>3, OccursInBoth
<1>5. ASSUME NEW j \in v .. d - 1, OccursAt(Directive, t, j) PROVE FALSE
  <2>1. j \in Nat /\ j + Len(Directive) - 1 <= i - 1 /\ i - 1 <= Len(s)
    BY <1>1, <1>2, <1>3
  <2>2. \A x \in 1 .. i - 1 : s[x] = t[x]
    OBVIOUS
  <2>3. OccursAt(Directive, s, j)
    BY <2>1, <2>2, <1>1, <1>3, <1>5, OccursInBoth
  <2> QED BY <2>3, <1>2
<1>6. Hits(t, v) # {} /\ Behind(t, v) = d + Len(Directive)
  <2> HIDE DEF d
  <2> QED BY <1>3, <1>4, <1>5, HitIs
<1> QED BY <1>3, <1>6 DEF m

(* After an insertion the search of a later turn comes, without a question,  *)
(* to where this one goes on.                                                *)
LEMMA TrailInserted ==
    ASSUME NEW c \in Line, Findable(c), NEW s \in Line, NEW t \in Line,
           NEW a \in Nat \ {0}, Trail(c, s, a), Hits(s, a) # {},
           Len(t) = Len(s) + (Len(c) + 1),
           \A j \in 1 .. Behind(s, a) - 1 : t[j] = s[j],
           t[Behind(s, a)] = Blank,
           \A j \in 1 .. Len(c) : t[Behind(s, a) + j] = c[j]
    PROVE  Trail(c, t, Behind(s, a) + Len(c) + 1)
<1> DEFINE i == Behind(s, a)
           e == i + Len(c) + 1
<1>1. /\ Len(Directive) \in Nat /\ Len(Directive) >= 2
      /\ Len(s) \in Nat /\ Len(t) \in Nat /\ Len(c) \in Nat
  BY AuthorizerAssumption DEF Line
<1>2. i \in Nat /\ i >= a + Len(Directive) /\ i <= Len(s) + 1
  BY NextHit
<1>3. PICK V : LeadsTo(c, s, a, V)
  BY DEF Trail
<1>4. V \subseteq Nat \ {0} /\ 1 \in V /\ a \in V
  BY <1>3 DEF LeadsTo
<1> HIDE DEF i
<1>5. /\ Len(t) = Len(s) + (Len(c) + 1) /\ \A j \in 1 .. i - 1 : t[j] = s[j]
      /\ t[i] = Blank /\ \A j \in 1 .. Len(c) : t[i + j] = c[j]
  BY DEF i
<1>6. OccursAt(c, t, i + 1)
  <2>1. ASSUME NEW j \in 1 .. Len(c) PROVE t[i + 1 + j - 1] = c[j]
    <3>1. i + 1 + j - 1 = i + j
      BY <1>1, <1>2
    <3> QED BY <3>1, <1>5
  <2>2. i + 1 >= 1 /\ i + 1 + Len(c) - 1 <= Len(t)
    BY <1>1, <1>2, <1>5
  <2> QED BY <2>1, <2>2 DEF OccursAt
<1>7. ASSUME NEW k \in Nat \ {0}, k <= i PROVE Given(c, t, k)
  <2>1. i + 1 \in Nat /\ i + 1 >= k
    BY <1>2, <1>7
  <2> QED BY <2>1, <1>6, GivenIs
<1>8. /\ i \in Nat /\ i >= 1 /\ i <= Len(s) + 1 /\ i <= Len(t) + 1 /\ i > a
      /\ i - 1 <= Len(s) /\ i <= Len(t)
  BY <1>1, <1>2, <1>5
<1>9. ASSUME NEW v \in V, v # a PROVE \E w \in V : Step(c, t, v, w)
  <2>1. PICK w \in V : Step(c, s, v, w)
    BY <1>3, <1>9 DEF LeadsTo
  <2>2. v \in Nat \ {0} /\ w \in Nat \ {0} /\ w <= a
    BY <1>3, <1>4 DEF LeadsTo
  <2>3. w >= Behind(s, v) /\ Behind(s, v) \in Nat /\ Behind(s, v) > v
    <3>1. w >= Behind(s, v) /\ Behind(s, v) \in Nat
      BY <2>1, <2>2, StepForward
    <3>2. Behind(s, v) >= v + Len(Directive)
      BY <2>1, <2>2, NextHit DEF Step
    <3> QED BY <3>1, <3>2, <2>2, <1>1
  <2> DEFINE m == Behind(s, v)
  <2> HIDE DEF m
  <2>4. m \in Nat \ {0} /\ m < i /\ m <= i
    BY <2>2, <2>3, <1>8 DEF m
  <2>5. Hits(s, v) # {} /\ Hits(t, v) # {} /\ Behind(t, v) = m
    <3>1. Hits(s, v) # {}
      BY <2>1 DEF Step
    <3>2. Behind(s, v) <= i
      BY <2>4 DEF m
    <3>3. \A j \in 1 .. i - 1 : t[j] = s[j]
      BY <1>5
    <3>4. Hits(t, v) # {} /\ Behind(t, v) = Behind(s, v)
      BY <2>2, <3>1, <3>2, <3>3, <1>8, HitKept
    <3> QED BY <3>1, <3>4 DEF m
  <2>6. Longer(t, m) <=> Longer(s, m)
    <3>1. m \in 1 .. i - 1 /\ m <= Len(s) /\ m <= Len(t)
      BY <2>4, <1>1, <1>8
    <3> QED BY <3>1, <1>5 DEF Longer
  <2>7. Given(c, t, m)
    BY <2>4, <1>7
  <2>8. Step(c, t, v, w)
    BY <2>1, <2>5, <2>6, <2>7 DEF Step, m
  <2> QED BY <2>8
<1>10. Step(c, t, a, e)
  <2>1. Hits(t, a) # {} /\ Behind(t, a) = i
    <3>1. Behind(s, a) <= i
      BY <1>2 DEF i
    <3> QED BY <3>1, <1>5, <1>8, HitKept DEF i
  <2>2. ~Longer(t, i)
    BY <1>5, AuthorizerAssumption DEF Longer
  <2>3. Given(c, t, i)
    BY <1>7, <1>8
  <2> QED BY <2>1, <2>2, <2>3 DEF Step
<1>11. LeadsTo(c, t, e, V \cup {e})
  <2>1. e \in Nat \ {0} /\ e > a
    BY <1>1, <1>8
  <2> HIDE DEF e
  <2>2. ASSUME NEW v \in V \cup {e}
        PROVE  v <= e /\ (v # e => \E w \in V \cup {e} : Step(c, t, v, w))
    <3>1. CASE v = e
      BY <3>1, <2>1
    <3>2. CASE v = a
      BY <3>2, <2>1, <1>10
    <3>3. CASE v \in V /\ v # a
      <4>1. v <= a /\ v \in Nat
        BY <3>3, <1>3, <1>4 DEF LeadsTo
      <4> QED BY <4>1, <3>3, <2>1, <1>9
    <3> QED BY <3>1, <3>2, <3>3
  <2> QED BY <2>1, <2>2, <1>4 DEF LeadsTo
<1> QED BY <1>11 DEF Trail, i

(* No line in hand has a '#', so that it is read again as it is; the search  *)
(* of a text none of whose appendages was refused left only quiet lines      *)
(* behind.  A settled path has only quiet lines, but for the file in hand,   *)
(* and so has a settled text from where its search stands.                   *)
BareLines == Ordinary => \A r \in 1 .. Len(buf) : Bare(buf[r])
TrailSoFar ==
    InText /\ ~refused /\ ~dryrun /\ Ordinary =>
        /\ \A r \in 1 .. Len(buf) : r < row => Quiet(credential, buf[r], 1)
        /\ row <= Len(buf) => Trail(credential, buf[row], at)
QuietText(c, t) == \A r \in 1 .. Len(t) : Quiet(c, Code(t[r]), 1)
SettledQuiet ==
    Ordinary => \A p \in settled : \/ p = out /\ pc \in {"write", "killed"}
                                   \/ disk[p] \in Text /\ QuietText(credential, disk[p])
SettledTurn ==
    Ordinary /\ pc = "scan" /\ Queue[file] \in settled =>
        /\ row <= Len(buf) => Quiet(credential, buf[row], at)
        /\ \A r \in 1 .. Len(buf) : row < r => Quiet(credential, buf[r], 1)
Settled == BareLines /\ TrailSoFar /\ SettledQuiet /\ SettledTurn /\ NotAskedTwice

LEMMA OrdinaryIs == Ordinary <=> Findable(credential)
BY DEF Ordinary, Findable

LEMMA ProvidedIs ==
    ASSUME NEW s, NEW k PROVE Provided(s, k) <=> Given(credential, s, k)
BY DEF Provided, Given

(* What the search does where it finds a directive that it need not ask for. *)
LEMMA ItSteps ==
    ASSUME PassLonger \/ AlreadyThere
    PROVE  Step(credential, buf[row], at, at')
BY ProvidedIs DEF PassLonger, AlreadyThere, StepOver, Found, Step, Idx

LEMMA StepIsOne ==
    ASSUME NEW c, NEW s, NEW v, NEW w, NEW x, Step(c, s, v, w), Step(c, s, v, x)
    PROVE  w = x
BY DEF Step

LEMMA SettledConfirm ==
    ASSUME PlaceOK, Settled, ConfirmAppend, Ordinary
    PROVE  BareLines' /\ TrailSoFar'
<1> DEFINE s == buf[row]
           t == Inserted(s, Idx)
           c == credential
<1>1. row <= Len(buf) /\ Hits(s, at) # {}
  BY DEF ConfirmAppend, PlaceOK, AtDirective
<1>2. /\ row \in 1 .. Len(buf) /\ s \in Line /\ Idx \in 1 .. Len(s) + 1 /\ Len(s) \in Nat
      /\ c \in Line /\ Len(c) \in Nat /\ at \in Nat \ {0}
  BY <1>1, IdxType DEF PlaceOK
<1>3. /\ t \in Line /\ Len(t) = Len(s) + (Len(c) + 1)
      /\ \A j \in 1 .. Idx - 1 : t[j] = s[j]
      /\ t[Idx] = Blank
      /\ \A j \in 1 .. Len(c) : t[Idx + j] = c[j]
      /\ \A j \in Idx .. Len(s) : t[j + (Len(c) + 1)] = s[j]
  BY <1>2, InsertedLine
<1>4. /\ buf' = [buf EXCEPT ![row] = t] /\ at' = Idx + Len(c) + 1 /\ credential' = c
      /\ pc = "confirm" /\ UNCHANGED <<row, refused, dryrun>> /\ pc' = "scan"
  BY DEF ConfirmAppend, StepOver, world, options
<1> HIDE DEF t, s
<1>5. buf \in Seq(Line) /\ Len(buf') = Len(buf) /\ buf'[row] = t
      /\ \A r \in 1 .. Len(buf) : r # row => buf'[r] = buf[r]
  BY <1>2, <1>4 DEF PlaceOK, TypeOK, Text
<1>6. Bare(t)
  <2>1. Bare(s)
    BY <1>2 DEF Settled, BareLines, s
  <2>2. \A j \in 1 .. Len(c) : c[j] # Sharp
    BY DEF Ordinary
  <2> DEFINE i == Idx
  <2>3. i \in 1 .. Len(s) + 1
    BY <1>2
  <2> HIDE DEF i, c
  <2>4. ASSUME NEW j \in 1 .. Len(t) PROVE t[j] # Sharp
    <3>1. j \in Nat /\ j >= 1 /\ j <= Len(s) + (Len(c) + 1) /\ i \in Nat /\ i >= 1
      BY <1>2, <1>3, <2>3
    <3>2. CASE j < i
      <4>1. j \in 1 .. i - 1 /\ j \in 1 .. Len(s)
        BY <3>1, <3>2, <2>3, <1>2
      <4> QED BY <4>1, <1>3, <2>1 DEF i, Bare
    <3>3. CASE j = i
      BY <3>3, <1>3, AuthorizerAssumption DEF i
    <3>4. CASE j > i /\ j <= i + Len(c)
      <4>1. j - i \in 1 .. Len(c) /\ i + (j - i) = j
        BY <3>1, <3>4, <1>2
      <4> QED BY <4>1, <1>3, <2>2 DEF i, c
    <3>5. CASE j > i + Len(c)
      <4>1. j - (Len(c) + 1) \in i .. Len(s) /\ j - (Len(c) + 1) \in 1 .. Len(s)
            /\ j - (Len(c) + 1) + (Len(c) + 1) = j
        BY <3>1, <3>5, <1>2
      <4> QED BY <4>1, <1>3, <2>1 DEF i, Bare
    <3> QED BY <3>1, <3>2, <3>3, <3>4, <3>5, <1>2
  <2> QED BY <2>4 DEF Bare
<1>7. BareLines'
  <2>1. \A r \in 1 .. Len(buf) : Bare(buf[r])
    BY DEF Settled, BareLines
  <2>2. \A r \in 1 .. Len(buf) : Bare(buf'[r])
    BY <2>1, <1>5, <1>6
  <2> QED BY <2>2, <1>5 DEF BareLines
<1>8. ASSUME ~refused, ~dryrun
      PROVE  /\ \A r \in 1 .. Len(buf) : r < row => Quiet(c, buf'[r], 1)
             /\ Trail(c, t, at')
  <2>1. /\ \A r \in 1 .. Len(buf) : r < row => Quiet(c, buf[r], 1)
        /\ Trail(c, s, at)
    BY <1>1, <1>4, <1>8 DEF Settled, TrailSoFar, InText, s
  <2>2. \A r \in 1 .. Len(buf) : r < row => r # row
    BY <1>2
  <2>3. Findable(c)
    BY OrdinaryIs
  <2>4. Hits(s, at) # {} /\ Idx = Behind(s, at)
    BY <1>1 DEF Idx, s
  <2>5. Trail(c, t, Behind(s, at) + Len(c) + 1)
    <3> HIDE DEF c
    <3> QED BY <2>1, <2>3, <2>4, <1>2, <1>3, TrailInserted
  <2> QED BY <2>1, <2>2, <2>4, <2>5, <1>4, <1>5
<1>9. TrailSoFar'
  BY <1>4, <1>5, <1>8 DEF TrailSoFar
<1> QED BY <1>7, <1>9

(* A text written with every appendage confirmed is quiet when read again.   *)
LEMMA WrittenIsQuiet ==
    ASSUME PlaceOK, Settled, DryRunNeverWrites, Ordinary, pc = "write", ~refused
    PROVE  Edited \in Text /\ QuietText(credential, Edited)
<1>1. /\ Edited \in Seq(Line) /\ Len(Edited) = Len(buf) /\ Len(buf) \in Nat
      /\ \A r \in 1 .. Len(buf) : Edited[r] = buf[r] \o comment[r]
  BY EditedText
<1>2. row \in Nat /\ row > Len(buf) /\ ~dryrun
  BY DEF PlaceOK, SearchedAll, TypeOK, DryRunNeverWrites
<1>3. ASSUME NEW r \in 1 .. Len(buf) PROVE Quiet(credential, Code(Edited[r]), 1)
  <2>1. buf[r] \in Line /\ comment[r] \in Line /\ IsComment(comment[r])
    BY ElementOfSeq DEF PlaceOK, TypeOK, Text, SameLines
  <2>2. Bare(buf[r])
    BY DEF Settled, BareLines
  <2>3. Code(Edited[r]) = buf[r]
    BY <1>1, <2>1, <2>2, CodeAgain
  <2>4. Quiet(credential, buf[r], 1)
    <3>1. r < row
      BY <1>1, <1>2
    <3> QED BY <3>1, <1>2 DEF Settled, TrailSoFar, InText
  <2> QED BY <2>3, <2>4
<1> QED BY <1>1, <1>3 DEF QuietText, Text

LEMMA SettledStep ==
    PlaceOK /\ DryRunNeverWrites /\ Settled /\ [Next]_vars => Settled'
<1> SUFFICES ASSUME PlaceOK, DryRunNeverWrites, Settled, [Next]_vars
             PROVE  Settled'
  OBVIOUS
<1>0. credential' = credential /\ dryrun' = dryrun /\ (Ordinary' <=> Ordinary)
  BY OptionsKept DEF options, Ordinary
<1> SUFFICES ASSUME Ordinary
             PROVE  Settled'
  BY <1>0 DEF Settled, BareLines, TrailSoFar, SettledQuiet, SettledTurn, NotAskedTwice
<1>a. BareLines /\ TrailSoFar /\ SettledQuiet /\ SettledTurn /\ NotAskedTwice
  BY DEF Settled
<1>b. TypeOK /\ credential \in Line
  BY DEF PlaceOK, TypeOK
<1>1. CASE /\ UNCHANGED <<buf, row, at, refused, file, disk, settled, out>>
           /\ pc' \notin {"scan", "confirm"} /\ (InText' => InText)
           /\ pc' \in {"write", "killed"} \/ pc \notin {"write", "killed"}
  BY <1>1, <1>0, <1>a DEF Settled, BareLines, TrailSoFar, SettledQuiet, SettledTurn, NotAskedTwice
<1>2. CASE ToNextFile /\ SettledQuiet'
  BY <1>2 DEF ToNextFile, Settled, BareLines, TrailSoFar, InText, SettledTurn, NotAskedTwice
<1>3. CASE Unsupported \/ CannotOpen \/ NoUpdates \/ GiveUp
  <2>1. ToNextFile /\ UNCHANGED <<disk, settled, out>> /\ pc \notin {"write", "killed"}
    BY <1>3 DEF Unsupported, CannotOpen, NoUpdates, GiveUp, SearchOver, world, writing
  <2>2. SettledQuiet'
    BY <2>1, <1>0, <1>a DEF SettledQuiet
  <2> QED BY <1>2, <2>1, <2>2
<1>4. CASE ReadFile
  <2> DEFINE t == disk[Queue[file]]
  <2>1. /\ t \in Text /\ buf' = [r \in 1 .. Len(t) |-> Code(t[r])] /\ pc = "next" /\ pc' = "scan"
        /\ row' = 1 /\ at' = 1 /\ UNCHANGED <<file, disk, settled, out>>
    BY <1>4, <1>b, FileText DEF ReadFile, PlaceOK, FreshAtNext, world, writing
  <2>2. /\ Len(buf') = Len(t) /\ Len(t) \in Nat
        /\ \A r \in 1 .. Len(t) : buf'[r] = Code(t[r]) /\ Bare(Code(t[r]))
    <3>1. t \in Seq(Line) /\ Len(t) \in Nat
      BY <2>1 DEF Text
    <3> HIDE DEF t
    <3> QED BY <2>1, <3>1, ReadText
  <2>3. BareLines'
    BY <2>2 DEF BareLines
  <2>4. TrailSoFar'
    BY <2>1, TrailBegins DEF TrailSoFar
  <2>5. SettledQuiet'
    BY <2>1, <1>0, <1>a DEF SettledQuiet
  <2>6. SettledTurn'
    <3> SUFFICES ASSUME Queue[file] \in settled
                 PROVE  SettledTurn'
      BY <2>1 DEF SettledTurn
    <3>1. QuietText(credential, t)
      BY <2>1, <1>a DEF SettledQuiet
    <3>2. \A r \in 1 .. Len(t) : Quiet(credential, buf'[r], 1)
      BY <3>1, <2>2 DEF QuietText
    <3>3. row' = 1 /\ at' = 1 /\ Len(buf') = Len(t) /\ Len(t) \in Nat /\ credential' = credential
      BY <2>1, <2>2, <1>0
    <3> HIDE DEF t
    <3> QED BY <3>2, <3>3 DEF SettledTurn
  <2>7. NotAskedTwice'
    BY <2>1 DEF NotAskedTwice
  <2> QED BY <2>3, <2>4, <2>5, <2>6, <2>7 DEF Settled
<1>5. CASE PassLonger \/ AlreadyThere
  <2>1. /\ row <= Len(buf) /\ pc = "scan" /\ pc' = "scan" /\ Hits(buf[row], at) # {}
        /\ UNCHANGED <<file, buf, row, refused, disk, settled, out>>
    BY <1>5 DEF PassLonger, AlreadyThere, Found, Scanning, world, writing
  <2>2. buf[row] \in Line /\ Step(credential, buf[row], at, at')
    BY <2>1, <1>5, <1>b, RowType, ItSteps
  <2>3. BareLines' /\ SettledQuiet' /\ NotAskedTwice'
    BY <2>1, <1>0, <1>a DEF BareLines, SettledQuiet, NotAskedTwice
  <2>4. TrailSoFar'
    <3>1. Trail(credential, buf[row], at) => Trail(credential, buf[row], at')
      BY <2>2, <1>b, TrailGrows
    <3> QED BY <3>1, <2>1, <1>0, <1>a DEF TrailSoFar, InText
  <2>5. SettledTurn'
    <3>1. Quiet(credential, buf[row], at) => Quiet(credential, buf[row], at')
      <4> SUFFICES ASSUME Quiet(credential, buf[row], at) PROVE Quiet(credential, buf[row], at')
        OBVIOUS
      <4>1. PICK w : Step(credential, buf[row], at, w) /\ Quiet(credential, buf[row], w)
        BY <2>1, QuietStep
      <4>2. w = at'
        BY <4>1, <2>2, StepIsOne
      <4> QED BY <4>1, <4>2
    <3> QED BY <3>1, <2>1, <1>0, <1>a DEF SettledTurn
  <2> QED BY <2>3, <2>4, <2>5 DEF Settled
<1>6. CASE ShowOnly
  <2>1. /\ dryrun /\ pc = "scan" /\ pc' = "scan" /\ Proposes
        /\ UNCHANGED <<file, buf, row, refused, disk, settled, out>>
    BY <1>6 DEF ShowOnly, Proposes, Found, Scanning, world, writing
  <2>2. BareLines' /\ SettledQuiet' /\ NotAskedTwice' /\ TrailSoFar'
    BY <2>1, <1>0, <1>a DEF BareLines, SettledQuiet, NotAskedTwice, TrailSoFar
  <2>3. SettledTurn'
    <3>1. Queue[file] \notin settled
      <4> SUFFICES ASSUME Queue[file] \in settled PROVE FALSE
        OBVIOUS
      <4>1. Quiet(credential, buf[row], at) /\ Hits(buf[row], at) # {}
        BY <2>1, <1>a DEF SettledTurn, Proposes, Found, Scanning
      <4>2. PICK w : Step(credential, buf[row], at, w)
        BY <4>1, QuietStep
      <4> QED BY <4>2, <2>1, ProvidedIs DEF Step, Proposes, Idx
    <3> QED BY <3>1, <2>1 DEF SettledTurn
  <2> QED BY <2>2, <2>3 DEF Settled
<1>7. CASE AskToAppend
  <2>1. /\ pc = "scan" /\ pc' = "confirm" /\ Proposes
        /\ UNCHANGED <<file, buf, row, at, refused, disk, settled, out>>
    BY <1>7 DEF AskToAppend, Proposes, Found, Scanning, world, writing
  <2>2. BareLines' /\ SettledQuiet' /\ TrailSoFar' /\ SettledTurn'
    BY <2>1, <1>0, <1>a DEF BareLines, SettledQuiet, TrailSoFar, SettledTurn, InText
  <2>3. NotAskedTwice'
    <3> SUFFICES ASSUME Queue[file] \in settled PROVE FALSE
      BY <2>1 DEF NotAskedTwice
    <3>1. Quiet(credential, buf[row], at) /\ Hits(buf[row], at) # {}
      BY <2>1, <1>a DEF SettledTurn, Proposes, Found, Scanning
    <3>2. PICK w : Step(credential, buf[row], at, w)
      BY <3>1, QuietStep
    <3> QED BY <3>2, <2>1, ProvidedIs DEF Step, Proposes, Idx
  <2> QED BY <2>2, <2>3 DEF Settled
<1>8. CASE ConfirmAppend
  <2>1. BareLines' /\ TrailSoFar'
    BY <1>8, SettledConfirm
  <2>2. pc = "confirm" /\ pc' = "scan" /\ UNCHANGED <<file, disk, settled, out>>
    BY <1>8 DEF ConfirmAppend, world, writing
  <2>3. SettledQuiet' /\ SettledTurn' /\ NotAskedTwice'
    BY <2>2, <1>0, <1>a DEF SettledQuiet, SettledTurn, NotAskedTwice
  <2> QED BY <2>1, <2>3 DEF Settled
<1>9. CASE DeclineAppend
  <2>1. /\ pc = "confirm" /\ pc' = "scan" /\ refused'
        /\ UNCHANGED <<file, buf, row, disk, settled, out>>
    BY <1>9 DEF DeclineAppend, world, writing
  <2> QED
    BY <2>1, <1>0, <1>a DEF Settled, BareLines, TrailSoFar, SettledQuiet, SettledTurn, NotAskedTwice
<1>10. CASE NextLine
  <2>1. /\ row <= Len(buf) /\ pc = "scan" /\ pc' = "scan" /\ Hits(buf[row], at) = {}
        /\ row' = row + 1 /\ at' = 1
        /\ UNCHANGED <<file, buf, refused, disk, settled, out>>
    BY <1>10 DEF NextLine, Found, Scanning, world, writing
  <2>2. row \in 1 .. Len(buf) /\ Len(buf) \in Nat
    BY <2>1, <1>b, RowType DEF TypeOK, Text
  <2>3. BareLines' /\ SettledQuiet' /\ NotAskedTwice'
    BY <2>1, <1>0, <1>a DEF BareLines, SettledQuiet, NotAskedTwice
  <2>4. TrailSoFar'
    <3> SUFFICES ASSUME ~refused, ~dryrun
                 PROVE  /\ \A r \in 1 .. Len(buf) : r < row + 1 => Quiet(credential, buf[r], 1)
                        /\ Trail(credential, buf'[row'], 1)
      BY <2>1, <1>0 DEF TrailSoFar
    <3>1. /\ \A r \in 1 .. Len(buf) : r < row => Quiet(credential, buf[r], 1)
          /\ Trail(credential, buf[row], at)
      BY <2>1, <1>a DEF TrailSoFar, InText
    <3>2. Quiet(credential, buf[row], 1)
      BY <3>1, <2>1, TrailEnds
    <3>3. \A r \in 1 .. Len(buf) : r < row + 1 => r < row \/ r = row
      BY <2>2
    <3> QED BY <3>1, <3>2, <3>3, TrailBegins
  <2>5. SettledTurn'
    <3> SUFFICES ASSUME Queue[file] \in settled
                 PROVE  \A r \in 1 .. Len(buf) : r >= row + 1 => Quiet(credential, buf[r], 1)
      <4>1. \A r \in 1 .. Len(buf) : row + 1 < r => r >= row + 1
        BY <2>2
      <4>2. row + 1 <= Len(buf) => row + 1 \in 1 .. Len(buf) /\ row + 1 >= row + 1
        BY <2>2
      <4> QED BY <2>1, <1>0, <4>1, <4>2 DEF SettledTurn
    <3>1. \A r \in 1 .. Len(buf) : row < r => Quiet(credential, buf[r], 1)
      BY <2>1, <1>a DEF SettledTurn
    <3>2. \A r \in 1 .. Len(buf) : r >= row + 1 => row < r
      BY <2>2
    <3> QED BY <3>1, <3>2
  <2> QED BY <2>3, <2>4, <2>5 DEF Settled
<1>11. CASE NoDot \/ Summary \/ Kill
  <2>1. /\ UNCHANGED <<buf, row, at, refused, file, disk, settled, out>>
        /\ pc' \in {"thrown", "done", "killed"} /\ (pc' = "killed" \/ pc = "next")
    BY <1>11 DEF NoDot, Summary, Kill, editing, world, writing
  <2> QED BY <2>1, <1>1 DEF InText
<1>12. CASE WriteFails
  <2>1. /\ UNCHANGED <<buf, row, at, refused, file, disk, settled, out>>
        /\ pc' = "write" /\ pc = "write"
    BY <1>12 DEF WriteFails, editing
  <2> QED BY <2>1, <1>1 DEF InText
<1>13. CASE AssignOutput \/ RetryOutput
  <2>1. /\ UNCHANGED <<buf, row, refused, file, disk, settled, at>>
        /\ pc' = "open" /\ pc \in {"scan", "retry"}
    BY <1>13 DEF AssignOutput, RetryOutput, SearchOver, editing, world
  <2> QED
    BY <2>1, <1>0, <1>a DEF Settled, BareLines, TrailSoFar, InText, SettledQuiet, SettledTurn, NotAskedTwice
<1>14. CASE OpenOutput \/ WriteLine
  <2>1. /\ UNCHANGED <<buf, row, refused, file, settled, at, out>>
        /\ pc' = "write" /\ pc \in {"open", "write"}
        /\ \A p \in Paths : p # out => disk'[p] = disk[p]
    BY <1>14, <1>b DEF OpenOutput, WriteLine, editing, TypeOK
  <2>2. SettledQuiet'
    BY <2>1, <1>0, <1>a, <1>b DEF SettledQuiet, TypeOK
  <2> QED
    BY <2>1, <2>2, <1>0, <1>a DEF Settled, BareLines, TrailSoFar, InText, SettledTurn, NotAskedTwice
<1>15. CASE OpenFails
  <2>1. CASE Silent
    <3>1. ToNextFile /\ UNCHANGED <<disk, settled, out>> /\ pc = "open"
      BY <2>1, <1>15 DEF OpenFails, world, writing
    <3>2. SettledQuiet'
      BY <3>1, <1>0, <1>a DEF SettledQuiet
    <3> QED BY <1>2, <3>1, <3>2
  <2>2. CASE ~Silent
    <3>1. /\ UNCHANGED <<buf, row, at, refused, file, disk, settled, out>>
          /\ pc' = "retry" /\ pc = "open"
      BY <2>2, <1>15 DEF OpenFails, editing, world, writing
    <3> QED BY <3>1, <1>1 DEF InText
  <2> QED BY <2>1, <2>2
<1>16. CASE CloseOutput
  <2>1. /\ pc = "write" /\ ToNextFile /\ UNCHANGED <<disk, out>>
        /\ settled' = IF ~refused /\ disk[out] = Edited
                      THEN settled \cup {out} ELSE settled \ {out}
    BY <1>16 DEF CloseOutput
  <2>2. ~refused => Edited \in Text /\ QuietText(credential, Edited)
    BY <2>1, WrittenIsQuiet
  <2>3. SettledQuiet'
    <3> SUFFICES ASSUME NEW p \in settled'
                 PROVE  disk[p] \in Text /\ QuietText(credential, disk[p])
      BY <2>1, <1>0 DEF SettledQuiet
    <3>1. CASE p = out
      BY <3>1, <2>1, <2>2
    <3>2. CASE p # out
      BY <3>2, <2>1, <1>a DEF SettledQuiet
    <3> QED BY <3>1, <3>2
  <2> QED BY <1>2, <2>1, <2>3
<1>17. ASSUME NEW p \in Paths, ForeignStore(p) PROVE Settled'
  <2>1. /\ UNCHANGED <<pc, buf, row, at, refused, file, out>> /\ settled' = settled \ {p}
        /\ \A q \in Paths : q # p => disk'[q] = disk[q]
    BY <1>17, <1>b DEF ForeignStore, editing, writing, TypeOK
  <2>2. SettledQuiet'
    BY <2>1, <1>0, <1>a, <1>b DEF SettledQuiet, TypeOK
  <2> QED
    BY <2>1, <2>2, <1>0, <1>a DEF Settled, BareLines, TrailSoFar, InText, SettledTurn, NotAskedTwice
<1>18. CASE Terminated \/ UNCHANGED vars
  <2>1. UNCHANGED <<pc, buf, row, at, refused, file, out, settled, disk>>
    BY <1>18 DEF Terminated, vars, world, editing, writing
  <2> QED
    BY <2>1, <1>0, <1>a DEF Settled, BareLines, TrailSoFar, InText, SettledQuiet, SettledTurn, NotAskedTwice
<1> QED
  BY <1>3, <1>4, <1>5, <1>6, <1>7, <1>8, <1>9, <1>10, <1>11, <1>12, <1>13, <1>14, <1>15,
     <1>16, <1>17, <1>18 DEF Next, Program

(* A file that was written with every appendage confirmed and not touched    *)
(* since is never asked about again, for every credential that is not empty, *)
(* does not begin with a blank and has no '#' (Auth.cpp:62-176).             *)
THEOREM NeverAskedTwice == Spec => []NotAskedTwice
<1>1. Init => Settled
  BY DEF Init, Settled, BareLines, TrailSoFar, InText, SettledQuiet, SettledTurn, NotAskedTwice
<1>2. Settled => NotAskedTwice
  BY DEF Settled
<1>3. Init => DryRunNeverWrites
  BY DEF Init, DryRunNeverWrites
<1> QED
  BY <1>1, <1>2, <1>3, PlaceInit, PlaceStep, DryRunStep, SettledStep, PTL DEF Spec
=============================================================================
