---------------------------- MODULE IniFileProofs ----------------------------
(* Lemmas about IniFile for all files: what its texts are, and what reading  *)
(* a file line by line keeps true.  The theorems that rest on them are those *)
(* of TemplateProofs, whose specification reads the file.                    *)
EXTENDS IniFile, NatLemmas, SequenceTheorems

-----------------------------------------------------------------------------
(* Texts.                                                                    *)

LEMMA SolidIs ==
    ASSUME NEW A, NEW s \in Seq(A), Solid(s) # {}
    PROVE  /\ Min(Solid(s)) \in Solid(s) /\ \A k \in Solid(s) : Min(Solid(s)) <= k
           /\ Max(Solid(s)) \in Solid(s) /\ \A k \in Solid(s) : k <= Max(Solid(s))
<1>1. Solid(s) \subseteq Nat /\ Len(s) \in Nat /\ \A k \in Solid(s) : k <= Len(s)
  BY DEF Solid
<1> QED BY <1>1, MinIsLeast, MaxIsGreatest

LEMMA StripIs ==
    ASSUME NEW A, NEW s \in Seq(A) PROVE LSkip(s) \in Seq(A) /\ RStrip(s) \in Seq(A)
<1>1. CASE Solid(s) = {}
  BY <1>1 DEF LSkip, RStrip
<1>2. CASE Solid(s) # {}
  <2>1. Solid(s) \subseteq 1 .. Len(s)
    BY DEF Solid
  <2>2. Min(Solid(s)) \in 1 .. Len(s) /\ Max(Solid(s)) \in 1 .. Len(s)
    BY <1>2, <2>1, SolidIs
  <2>3. \A m \in 1 .. Len(s) : SubSeq(s, m, Len(s)) \in Seq(A) /\ SubSeq(s, 1, m) \in Seq(A)
    OBVIOUS
  <2> QED BY <1>2, <2>2, <2>3 DEF LSkip, RStrip
<1> QED BY <1>1, <1>2

LEMMA StripShortens ==
    ASSUME NEW A, NEW s \in Seq(A)
    PROVE  Len(LSkip(s)) <= Len(s) /\ Len(RStrip(s)) <= Len(s)
<1>1. CASE Solid(s) = {}
  BY <1>1 DEF LSkip, RStrip
<1>2. CASE Solid(s) # {}
  <2>1. Solid(s) \subseteq 1 .. Len(s)
    BY DEF Solid
  <2>2. Min(Solid(s)) \in 1 .. Len(s) /\ Max(Solid(s)) \in 1 .. Len(s)
    BY <1>2, <2>1, SolidIs
  <2>3. \A m \in 1 .. Len(s) : /\ Len(SubSeq(s, m, Len(s))) <= Len(s)
                              /\ Len(SubSeq(s, 1, m)) <= Len(s)
    OBVIOUS
  <2> QED BY <1>2, <2>2, <2>3 DEF LSkip, RStrip
<1> QED BY <1>1, <1>2

LEMMA FirstOfIs ==
    ASSUME NEW A, NEW s \in Seq(A), NEW m \in Nat
    PROVE  /\ FirstOf(s, m) \in Seq(A) /\ Len(FirstOf(s, m)) <= m
           /\ Len(s) <= m => FirstOf(s, m) = s
<1> DEFINE T == {m, Len(s)}
<1>1. T \subseteq Nat /\ T # {} /\ Len(s) \in Nat
  OBVIOUS
<1>2. Min(T) \in T /\ \A x \in T : Min(T) <= x
  BY <1>1, MinIsLeast
<1>3. PICK k \in Nat : k = Min(T) /\ k <= Len(s) /\ k <= m /\ (Len(s) <= m => k = Len(s))
  BY <1>1, <1>2
<1>4. FirstOf(s, m) = SubSeq(s, 1, k)
  BY <1>3 DEF FirstOf
<1>5. \A n \in 0 .. Len(s) : SubSeq(s, 1, n) \in Seq(A) /\ Len(SubSeq(s, 1, n)) = n
  OBVIOUS
<1>6. SubSeq(s, 1, Len(s)) = s
  OBVIOUS
<1>7. k \in 0 .. Len(s)
  BY <1>1, <1>3
<1> QED BY <1>3, <1>4, <1>5, <1>6, <1>7

LEMMA FindIs ==
    ASSUME NEW A, NEW s \in Seq(A), NEW S
    PROVE  /\ Find(s, S) \in 1 .. Len(s) + 1
           /\ \A k \in 1 .. Len(s) : k < Find(s, S) =>
                  s[k] \notin S /\ ~ (k > 1 /\ s[k - 1] = Blank /\ s[k] = Semicolon)
           /\ \A k \in 1 .. Len(s) :
                  /\ \/ s[k] \in S
                     \/ k > 1 /\ s[k - 1] = Blank /\ s[k] = Semicolon
                  => Find(s, S) <= k
<1> DEFINE T == {k \in 1 .. Len(s) : \/ s[k] \in S
                                     \/ k > 1 /\ s[k - 1] = Blank /\ s[k] = Semicolon}
                \cup {Len(s) + 1}
<1>1. T \subseteq Nat /\ T # {} /\ T \subseteq 1 .. Len(s) + 1
  OBVIOUS
<1>2. Find(s, S) = Min(T)
  BY DEF Find
<1>3. Find(s, S) \in T /\ \A x \in T : Find(s, S) <= x
  <2> HIDE DEF T
  <2> QED BY <1>1, <1>2, MinIsLeast
<1>4. Find(s, S) \in 1 .. Len(s) + 1
  BY <1>1, <1>3
<1>5. \A k \in 1 .. Len(s) :
          \/ s[k] \in S
          \/ k > 1 /\ s[k - 1] = Blank /\ s[k] = Semicolon
          => Find(s, S) <= k
  BY <1>3
<1>6. \A k \in 1 .. Len(s) : k < Find(s, S) =>
          s[k] \notin S /\ ~ (k > 1 /\ s[k - 1] = Blank /\ s[k] = Semicolon)
  BY <1>4, <1>5
<1> QED BY <1>4, <1>5, <1>6

LEMMA UptoIs ==
    ASSUME NEW A, NEW s \in Seq(A), NEW k \in 1 .. Len(s) + 1
    PROVE  Upto(s, k) \in Seq(A) /\ Len(Upto(s, k)) = k - 1
<1>1. k - 1 \in 0 .. Len(s)
  OBVIOUS
<1> QED BY <1>1 DEF Upto

LEMMA UncommentedIs ==
    ASSUME NEW A, NEW s \in Seq(A) PROVE Uncommented(s) \in Seq(A)
BY FindIs, UptoIs DEF Uncommented

-----------------------------------------------------------------------------
(* Lines.                                                                    *)

Here(n) == lines \in Seq(Texts) /\ n \in 1 .. Len(lines)

LEMMA TextIs ==
    ASSUME IniFileAssumption, NEW n, Here(n) PROVE Text(n) \in Texts /\ lines[n] \in Texts
<1>1. lines[n] \in Texts /\ MaxLine \in Nat
  BY DEF Here, IniFileAssumption
<1> QED BY <1>1, FirstOfIs, StripIs DEF Text, Texts

LEMMA NameIs ==
    ASSUME IniFileAssumption, NEW n, Here(n) PROVE Name(n) \in Texts /\ Value(n) \in Texts
<1> DEFINE s == Text(n)
           k == Find(s, {Equal, Colon})
<1>1. s \in Texts
  BY TextIs
<1> HIDE DEF s
<1>2. k \in 1 .. Len(s) + 1
  BY <1>1, FindIs DEF Texts
<1> HIDE DEF k
<1>3. RStrip(Upto(s, k)) \in Texts
  BY <1>1, <1>2, UptoIs, StripIs DEF Texts
<1>4. SubSeq(s, k + 1, Len(s)) \in Texts
  BY <1>1, <1>2 DEF Texts
<1>5. RStrip(LSkip(Uncommented(SubSeq(s, k + 1, Len(s))))) \in Texts
  BY <1>4, UncommentedIs, StripIs DEF Texts
<1> QED BY <1>3, <1>5 DEF Name, Value, s, k

LEMMA HeaderIs ==
    ASSUME IniFileAssumption, NEW n, Here(n), IsHeader(n) PROVE Header(n) \in Texts
<1>1. Text(n) \in Texts /\ Text(n) # <<>>
  BY TextIs DEF IsHeader, IsComment
<1>2. Tail(Text(n)) \in Texts
  BY <1>1 DEF Texts
<1> QED BY <1>2, FindIs, UptoIs DEF Header, Texts

LEMMA KeyIs ==
    ASSUME IniFileAssumption, NEW sec \in Texts, NEW nm \in Texts
    PROVE  MakeKey(sec, nm) \in Texts
<1> DEFINE s == sec \o <<Equal>> \o nm
<1>1. s \in Seq(Chars \cup Special \cup {NewLine})
  BY DEF Texts, Special
<1> HIDE DEF s
<1>2. \A k \in 1 .. Len(s) : (IF s[k] \in Chars THEN Lower[s[k]] ELSE s[k])
                             \in Chars \cup Special \cup {NewLine}
  BY <1>1 DEF IniFileAssumption
<1>3. Fold(s) \in Seq(Chars \cup Special \cup {NewLine})
  BY <1>1, <1>2 DEF Fold
<1> QED BY <1>3 DEF MakeKey, Texts, s

-----------------------------------------------------------------------------
(* The meaning of a line depends on the file alone.                          *)

LEMMA SameFile ==
    ASSUME lines' = lines, NEW n
    PROVE  /\ Text(n)' = Text(n) /\ Header(n)' = Header(n)
           /\ Name(n)' = Name(n) /\ Value(n)' = Value(n)
           /\ Overlong(n)' <=> Overlong(n)
           /\ IsComment(n)' <=> IsComment(n)
           /\ IsHeader(n)' <=> IsHeader(n)
           /\ Closed(n)' <=> Closed(n)
           /\ IsPair(n)' <=> IsPair(n)
<1>1. Text(n)' = Text(n) /\ (Overlong(n)' <=> Overlong(n))
  BY DEF Text, Overlong
<1>2. IsComment(n)' <=> IsComment(n)
  BY <1>1 DEF IsComment
<1>3. IsHeader(n)' <=> IsHeader(n)
  BY <1>1, <1>2 DEF IsHeader
<1>4. Header(n)' = Header(n) /\ (Closed(n)' <=> Closed(n))
  BY <1>1 DEF Header, Closed
<1>5. Name(n)' = Name(n) /\ Value(n)' = Value(n) /\ (IsPair(n)' <=> IsPair(n))
  BY <1>1 DEF Name, Value, IsPair
<1> QED BY <1>1, <1>2, <1>3, <1>4, <1>5

LEMMA SameMeaning ==
    ASSUME lines' = lines, NEW n
    PROVE  /\ SectionAt(n)' = SectionAt(n) /\ KeyAt(n)' = KeyAt(n)
           /\ Counts(n)' <=> Counts(n)
           /\ Bad(n)' <=> Bad(n)
<1>1. PICK h : h = {m \in 1 .. n : IsHeader(m) /\ Closed(m)}
  OBVIOUS
<1>2. {m \in 1 .. n : IsHeader(m)' /\ Closed(m)'} = h
  BY <1>1, SameFile
<1>3. SectionAt(n)' = IF h = {} THEN <<>> ELSE FirstOf(Header(Max(h))', MaxName)
  BY <1>2 DEF SectionAt
<1>4. SectionAt(n) = IF h = {} THEN <<>> ELSE FirstOf(Header(Max(h)), MaxName)
  BY <1>1 DEF SectionAt
<1>5. Header(Max(h))' = Header(Max(h))
  BY SameFile
<1>6. SectionAt(n)' = SectionAt(n)
  BY <1>3, <1>4, <1>5
<1>7. KeyAt(n)' = KeyAt(n)
  BY <1>6, SameFile DEF KeyAt
<1>8. (Counts(n)' <=> Counts(n)) /\ (Bad(n)' <=> Bad(n))
  BY SameFile DEF Counts, Bad
<1> QED BY <1>6, <1>7, <1>8

-----------------------------------------------------------------------------
(* Types.  The reader has no error of a line before it reads one, and keeps  *)
(* what it starts with until the file is open.                               *)

Readable ==
    /\ IniTypeOK
    /\ reading # "failed" => error \in 0 .. lineno
    /\ reading = "open" => lineno = 0 /\ section = <<>> /\ values = <<>> /\ error = 0

ValuesAreTexts == DOMAIN values \subseteq Texts /\ \A k \in DOMAIN values : values[k] \in Texts

LEMMA HandlerKeepsTexts ==
    ASSUME IniFileAssumption, ValuesAreTexts, section \in Texts,
           NEW nm \in Texts, NEW v \in Texts, ValueHandler(nm, v)
    PROVE  ValuesAreTexts'
<1> DEFINE key == MakeKey(section, nm)
<1>1. key \in Texts
  BY KeyIs
<1>2. ASSUME NEW w \in Texts PROVE Joined(w, v) \in Texts
  <2>1. <<NewLine>> \in Texts
    BY DEF Texts
  <2>2. \A x, y \in Texts : x \o y \in Texts
    BY DEF Texts
  <2>3. w \o <<NewLine>> \o v \in Texts
    BY <2>1, <2>2
  <2> QED BY <2>3 DEF Joined
<1>3. Get(section, nm, <<>>) \in Texts
  <2>1. <<>> \in Texts
    BY DEF Texts
  <2> QED BY <2>1 DEF Get, ValuesAreTexts
<1> HIDE DEF key
<1>4. values' = [k \in DOMAIN values \cup {key} |->
                    IF k = key THEN Joined(Get(section, nm, <<>>), v) ELSE values[k]]
  BY DEF ValueHandler, key
<1>5. \A k \in DOMAIN values' : k \in Texts /\ values'[k] \in Texts
  BY <1>1, <1>2, <1>3, <1>4 DEF ValuesAreTexts
<1> QED BY <1>5 DEF ValuesAreTexts

LEMMA ReadableInit == ASSUME IniFileAssumption, IniInit PROVE Readable
<1>1. lines \in Seq(Texts) /\ Len(lines) \in Nat /\ 0 \in 0 .. Len(lines)
  BY DEF IniInit, IniFileAssumption
<1>2. section \in Texts /\ prev_name \in Texts /\ Len(section) <= MaxName /\ Len(prev_name) <= MaxName
  BY DEF IniInit, IniFileAssumption, Texts
<1>3. DOMAIN values = {}
  BY DEF IniInit
<1> QED BY <1>1, <1>2, <1>3 DEF IniInit, Readable, IniTypeOK

LEMMA ReadableStep ==
    ASSUME IniFileAssumption, Readable, [IniNext]_iniVars PROVE Readable'
<1> USE DEF Readable, IniTypeOK
<1>0. lines \in Seq(Texts) /\ Len(lines) \in Nat /\ lineno \in Nat
  OBVIOUS
<1>1. CASE UNCHANGED iniVars
  BY <1>1 DEF iniVars
<1>2. CASE OpenFile
  BY <1>2 DEF OpenFile
<1>3. CASE ReadFails
  BY <1>3 DEF ReadFails
<1>4. CASE EndOfFile
  BY <1>4 DEF EndOfFile
<1>5. ASSUME ReadLine, NEW bad \in BOOLEAN, Note(bad)
      PROVE  /\ lines' \in Seq(Texts) /\ lineno' \in 0 .. Len(lines') /\ reading' = "lines"
             /\ error' \in 0 .. lineno' /\ Here(lineno + 1)
  BY <1>0, <1>5 DEF ReadLine, Note, Here
<1>6. CASE Comment
  BY <1>5, <1>6 DEF Comment
<1>7. CASE BadLine
  BY <1>5, <1>7 DEF BadLine
<1>8. CASE Section
  <2>1. Header(lineno + 1) \in Texts
    BY <1>5, <1>8, HeaderIs DEF Section
  <2>2. section' \in Texts /\ Len(section') <= MaxName
    BY <1>8, <2>1, FirstOfIs DEF Section, IniFileAssumption, Texts
  <2>3. prev_name' \in Texts /\ Len(prev_name') <= MaxName
    BY <1>8 DEF Section, IniFileAssumption, Texts
  <2>4. values' = values
    BY <1>8 DEF Section
  <2>5. ReadLine /\ Note(FALSE)
    BY <1>8 DEF Section
  <2> QED BY <1>5, <2>2, <2>3, <2>4, <2>5
<1>9. CASE Continuation
  <2>1. ReadLine /\ Note(FALSE) /\ UNCHANGED <<section, prev_name>>
    BY <1>9 DEF Continuation
  <2>2. Text(lineno + 1) \in Texts
    BY <1>5, <2>1, TextIs
  <2>3. RStrip(Uncommented(Text(lineno + 1))) \in Texts
    BY <2>2, UncommentedIs, StripIs DEF Texts
  <2>4. ValuesAreTexts'
    BY <1>9, <2>3, HandlerKeepsTexts DEF Continuation, ValuesAreTexts
  <2> QED BY <1>5, <2>1, <2>4 DEF ValuesAreTexts
<1>10. CASE Pair
  <2>1. ReadLine /\ Note(FALSE) /\ UNCHANGED section
    BY <1>10 DEF Pair
  <2>2. Name(lineno + 1) \in Texts /\ Value(lineno + 1) \in Texts
    BY <1>5, <2>1, NameIs
  <2>3. ValuesAreTexts'
    BY <1>10, <2>2, HandlerKeepsTexts DEF Pair, ValuesAreTexts
  <2>4. prev_name' \in Texts /\ Len(prev_name') <= MaxName
    BY <1>10, <2>2, FirstOfIs DEF Pair, IniFileAssumption, Texts
  <2> QED BY <1>5, <2>1, <2>3, <2>4 DEF ValuesAreTexts
<1> QED
  BY <1>1, <1>2, <1>3, <1>4, <1>6, <1>7, <1>8, <1>9, <1>10 DEF IniNext

(* The reader's state is made of texts, of at most MaxName characters where  *)
(* the code has arrays of that size (ini.c:77-92).                           *)
THEOREM ReaderTypeCorrect == IniSpec => []IniTypeOK
<1>1. IniInit => Readable
  BY IniFileAssumption, ReadableInit
<1>2. Readable /\ [IniNext]_iniVars => Readable'
  BY IniFileAssumption, ReadableStep
<1>3. Readable => IniTypeOK
  BY DEF Readable
<1> QED BY <1>1, <1>2, <1>3, PTL DEF IniSpec

-----------------------------------------------------------------------------
(* A file without indented lines: what reading its next line n does.         *)

Reads(n) ==
    /\ reading = "lines" /\ reading' = "lines" /\ lines' = lines
    /\ lineno \in Nat /\ n = lineno + 1 /\ lineno' = n /\ Here(n)
    /\ error' = IF error = 0 /\ Bad(n) THEN n ELSE error
    /\ section' = IF IsHeader(n) /\ Closed(n) THEN FirstOf(Header(n), MaxName) ELSE section
    /\ IF Counts(n) THEN ValueHandler(Name(n), Value(n)) ELSE values' = values

Others == UNCHANGED <<lines, lineno, section, values, error>>

LEMMA LineIs ==
    ASSUME IniTypeOK, Flat, [IniNext]_iniVars, reading' # "failed"
    PROVE  \/ Others /\ reading # "failed"
           \/ Reads(lineno + 1)
<1> DEFINE n == lineno + 1
<1>0. lines \in Seq(Texts) /\ Len(lines) \in Nat /\ lineno \in Nat
  BY DEF IniTypeOK
<1>1. CASE UNCHANGED iniVars
  BY <1>1 DEF iniVars, Others
<1>2. CASE OpenFile
  BY <1>2 DEF OpenFile, Others
<1>3. CASE ReadFails
  BY <1>3 DEF ReadFails
<1>4. CASE EndOfFile
  BY <1>4 DEF EndOfFile, Others
<1>5. ASSUME ReadLine
      PROVE  /\ reading = "lines" /\ reading' = "lines" /\ lines' = lines /\ lineno' = n
             /\ Here(n) /\ ~Continues
  BY <1>0, <1>5 DEF ReadLine, Here, Flat, Continues
<1>6. ASSUME NEW bad \in BOOLEAN, Note(bad), bad \/ Overlong(n) <=> Bad(n)
      PROVE  error' = IF error = 0 /\ Bad(n) THEN n ELSE error
  BY <1>6 DEF Note
<1>7. CASE Comment
  <2>1. ReadLine /\ IsComment(n) /\ Note(FALSE) /\ UNCHANGED <<section, values>>
    BY <1>7 DEF Comment
  <2>2. ~IsHeader(n) /\ ~Counts(n) /\ (Overlong(n) <=> Bad(n))
    BY <2>1 DEF IsHeader, Counts, Bad
  <2> HIDE DEF n
  <2> QED BY <1>0, <1>5, <1>6, <2>1, <2>2 DEF Reads, n
<1>8. CASE BadLine
  <2>1. /\ ReadLine /\ ~IsComment(n) /\ Note(TRUE) /\ UNCHANGED <<section, values>>
        /\ \/ IsHeader(n) /\ ~Closed(n)
           \/ ~IsHeader(n) /\ ~IsPair(n)
    BY <1>8 DEF BadLine
  <2>2. ~(IsHeader(n) /\ Closed(n)) /\ ~Counts(n) /\ Bad(n)
    BY <2>1 DEF Counts, Bad
  <2> HIDE DEF n
  <2> QED BY <1>0, <1>5, <1>6, <2>1, <2>2 DEF Reads, n
<1>9. CASE Section
  <2>1. /\ ReadLine /\ IsHeader(n) /\ Closed(n) /\ Note(FALSE) /\ UNCHANGED values
        /\ section' = FirstOf(Header(n), MaxName)
    BY <1>9 DEF Section
  <2>2. ~Counts(n) /\ (Overlong(n) <=> Bad(n))
    BY <2>1 DEF Counts, Bad
  <2> HIDE DEF n
  <2> QED BY <1>0, <1>5, <1>6, <2>1, <2>2 DEF Reads, n
<1>10. CASE Pair
  <2>1. /\ ReadLine /\ IsPair(n) /\ ~IsComment(n) /\ ~IsHeader(n) /\ Note(FALSE)
        /\ UNCHANGED section /\ ValueHandler(Name(n), Value(n))
    BY <1>10 DEF Pair
  <2>2. Counts(n) /\ (Overlong(n) <=> Bad(n))
    BY <2>1 DEF Counts, Bad
  <2> HIDE DEF n
  <2> QED BY <1>0, <1>5, <1>6, <2>1, <2>2 DEF Reads, n
<1>11. CASE Continuation
  BY <1>5, <1>11 DEF Continuation
<1> QED
  BY <1>1, <1>2, <1>3, <1>4, <1>7, <1>8, <1>9, <1>10, <1>11 DEF IniNext

-----------------------------------------------------------------------------
(* The first bad line.                                                       *)

BadOnes == {n \in 1 .. lineno : Bad(n)}
FirstBad ==
    Flat /\ reading # "failed" =>
        IF BadOnes = {} THEN error = 0
        ELSE error \in BadOnes /\ \A n \in BadOnes : error <= n

LEMMA FirstBadStep ==
    ASSUME Readable, FirstBad, [IniNext]_iniVars PROVE FirstBad'
<1>1. SUFFICES ASSUME Flat', reading' # "failed"
               PROVE  IF BadOnes' = {} THEN error' = 0
                      ELSE error' \in BadOnes' /\ \A n \in BadOnes' : error' <= n
  BY DEF FirstBad
<1>2. lines' = lines
  BY DEF IniNext, iniVars, OpenFile, ReadFails, Comment, Continuation, Section, Pair, BadLine,
         EndOfFile, ReadLine
<1>3. Flat
  BY <1>1, <1>2 DEF Flat, Indented
<1>4. (Others /\ reading # "failed") \/ Reads(lineno + 1)
  BY <1>1, <1>3, LineIs DEF Readable
<1>5. \A n : Bad(n)' <=> Bad(n)
  BY <1>2, SameMeaning
<1>6. BadOnes' = {n \in 1 .. lineno' : Bad(n)}
  BY <1>5 DEF BadOnes
<1>7. CASE Others /\ reading # "failed"
  <2>1. BadOnes' = BadOnes /\ error' = error
    BY <1>6, <1>7 DEF BadOnes, Others
  <2> QED BY <1>3, <1>7, <2>1 DEF FirstBad
<1>8. CASE Reads(lineno + 1)
  <2>1. PICK n : n = lineno + 1
    OBVIOUS
  <2>2. /\ lineno \in Nat /\ n \in Nat /\ reading = "lines"
        /\ error' = IF error = 0 /\ Bad(n) THEN n ELSE error
        /\ lineno' = n
    BY <1>8, <2>1 DEF Reads
  <2>3. BadOnes' = IF Bad(n) THEN BadOnes \cup {n} ELSE BadOnes
    BY <1>6, <2>1, <2>2 DEF BadOnes
  <2>4. \A m \in BadOnes : m \in Nat /\ m # 0 /\ m < n
    BY <2>1, <2>2 DEF BadOnes
  <2>5. IF BadOnes = {} THEN error = 0
        ELSE error \in BadOnes /\ \A m \in BadOnes : error <= m
    BY <1>3, <2>2 DEF FirstBad
  <2>6. CASE BadOnes = {}
    BY <2>2, <2>3, <2>5, <2>6
  <2>7. CASE BadOnes # {}
    <3>1. error' = error /\ error \in BadOnes
      BY <2>2, <2>4, <2>5, <2>7
    <3>2. \A m \in BadOnes' : error <= m
      BY <2>2, <2>3, <2>4, <2>5, <2>7, <3>1
    <3> QED BY <2>3, <3>1, <3>2
  <2> QED BY <2>6, <2>7
<1> QED BY <1>4, <1>7, <1>8

(* The error of a file without indented lines is its first bad line, whatever*)
(* follows: ini.c goes on reading behind it and keeps the number             *)
(* (ini.c:166-256).                                                          *)
THEOREM FirstErrorIsKept == IniSpec => []FirstErrorCounts
<1>1. IniInit => Readable /\ FirstBad
  BY IniFileAssumption, ReadableInit DEF IniInit, FirstBad, BadOnes
<1>2. Readable /\ FirstBad /\ [IniNext]_iniVars => (Readable /\ FirstBad)'
  BY IniFileAssumption, ReadableStep, FirstBadStep
<1>3. Readable /\ FirstBad => FirstErrorCounts
  <2>1. SUFFICES ASSUME Readable, FirstBad, reading = "lines", Flat
                 PROVE  error = Min(BadOnes \cup {lineno + 1}) % (lineno + 1)
    BY DEF FirstErrorCounts, BadOnes
  <2>2. lineno \in Nat /\ BadOnes \subseteq 1 .. lineno
    BY <2>1 DEF Readable, IniTypeOK, BadOnes
  <2>3. BadOnes \cup {lineno + 1} \subseteq Int
    BY <2>2
  <2>4. CASE BadOnes = {}
    <3>1. Min(BadOnes \cup {lineno + 1}) = lineno + 1
      BY <2>2, <2>3, <2>4, MinIs
    <3>2. (lineno + 1) % (lineno + 1) = 0
      BY <2>2
    <3> QED BY <2>1, <2>4, <3>1, <3>2 DEF FirstBad
  <2>5. CASE BadOnes # {}
    <3>1. error \in BadOnes /\ \A n \in BadOnes : error <= n
      BY <2>1, <2>5 DEF FirstBad
    <3>2. error \in 1 .. lineno
      BY <2>2, <3>1
    <3>3. \A n \in BadOnes \cup {lineno + 1} : error <= n
      BY <2>2, <3>1, <3>2
    <3>4. Min(BadOnes \cup {lineno + 1}) = error
      BY <2>3, <3>1, <3>3, MinIs
    <3>5. error % (lineno + 1) = error
      BY <2>2, <3>2
    <3> QED BY <3>4, <3>5
  <2> QED BY <2>4, <2>5
<1> QED BY <1>1, <1>2, <1>3, PTL DEF IniSpec

-----------------------------------------------------------------------------
(* What a key's lines say after each line: the recursion of Written, without *)
(* the function that it defines.                                             *)

Chain(key, f) ==
    /\ f[0] = <<>>
    /\ \A n \in 1 .. Len(lines) :
          f[n] = IF Counts(n) /\ KeyAt(n) = key THEN Joined(f[n - 1], Value(n)) ELSE f[n - 1]

LEMMA TextByText ==
    ASSUME NEW m \in Nat, NEW F \in [1 .. m -> [Texts -> Texts]]
    PROVE  \E f \in [0 .. m -> Texts] : f[0] = <<>> /\ \A n \in 1 .. m : f[n] = F[n][f[n - 1]]
<1>1. <<>> \in Texts
  BY DEF Texts
<1> QED BY <1>1, StepByStep

LEMMA WrittenIsChain ==
    ASSUME IniFileAssumption, lines \in Seq(Texts), NEW key PROVE Chain(key, Written(key))
<1> DEFINE m == Len(lines)
           F == [n \in 1 .. m |-> [v \in Texts |->
                    IF Counts(n) /\ KeyAt(n) = key THEN Joined(v, Value(n)) ELSE v]]
           Next1(f, n) == IF n = 0 THEN <<>>
                          ELSE IF ~Counts(n) \/ KeyAt(n) # key THEN f[n - 1]
                          ELSE IF f[n - 1] = <<>> THEN Value(n)
                          ELSE f[n - 1] \o <<NewLine>> \o Value(n)
<1>1. m \in Nat /\ <<>> \in Texts
  BY DEF Texts
<1>2. ASSUME NEW n \in 1 .. m, NEW v \in Texts PROVE F[n][v] \in Texts
  <2>1. Value(n) \in Texts
    BY NameIs DEF Here
  <2>2. \A x, y \in Texts : x \o y \in Texts
    BY DEF Texts
  <2>3. <<NewLine>> \in Texts
    BY DEF Texts
  <2>4. v \o <<NewLine>> \o Value(n) \in Texts
    BY <2>1, <2>2, <2>3
  <2> QED BY <2>1, <2>4 DEF Joined
<1>3. F \in [1 .. m -> [Texts -> Texts]]
  BY <1>2
<1> HIDE DEF F, m
<1>4. PICK g \in [0 .. m -> Texts] : g[0] = <<>> /\ \A n \in 1 .. m : g[n] = F[n][g[n - 1]]
  BY <1>1, <1>3, TextByText
<1>5. ASSUME NEW n \in 1 .. m
      PROVE  g[n] = IF Counts(n) /\ KeyAt(n) = key THEN Joined(g[n - 1], Value(n)) ELSE g[n - 1]
  <2>1. n - 1 \in 0 .. m
    BY <1>1
  <2>2. g[n - 1] \in Texts
    BY <1>4, <2>1
  <2>3. F[n][g[n - 1]] =
            IF Counts(n) /\ KeyAt(n) = key THEN Joined(g[n - 1], Value(n)) ELSE g[n - 1]
    BY <2>2 DEF F
  <2> QED BY <1>4, <2>3
<1>6. \A n \in 0 .. m : g[n] = Next1(g, n)
  <2>1. \A n \in 0 .. m : n = 0 \/ (n \in 1 .. m /\ n # 0)
    BY <1>1
  <2> QED BY <1>4, <1>5, <2>1 DEF Joined
<1>7. g = [n \in 0 .. m |-> Next1(g, n)]
  <2> HIDE DEF Next1
  <2> QED BY <1>6
<1>8. \E f : f = [n \in 0 .. m |-> Next1(f, n)]
  <2> HIDE DEF Next1
  <2> QED BY <1>7
<1>9. Written(key) = CHOOSE f : f = [n \in 0 .. m |-> Next1(f, n)]
  BY DEF Written, m
<1>10. PICK w : w = Written(key) /\ w = [n \in 0 .. m |-> Next1(w, n)]
  <2> HIDE DEF Next1
  <2> QED BY <1>8, <1>9
<1>11. w[0] = <<>>
  BY <1>1, <1>10
<1>12. ASSUME NEW n \in 1 .. m
       PROVE  w[n] = IF Counts(n) /\ KeyAt(n) = key THEN Joined(w[n - 1], Value(n)) ELSE w[n - 1]
  <2>1. n \in 0 .. m /\ n # 0
    BY <1>1
  <2>2. w[n] = Next1(w, n)
    <3> HIDE DEF Next1
    <3> QED BY <1>10, <2>1
  <2> QED BY <2>1, <2>2 DEF Joined
<1> QED BY <1>10, <1>11, <1>12 DEF Chain, m

LEMMA SectionStep ==
    ASSUME NEW n \in Nat
    PROVE  /\ SectionAt(0) = <<>>
           /\ SectionAt(n + 1) = IF IsHeader(n + 1) /\ Closed(n + 1)
                                 THEN FirstOf(Header(n + 1), MaxName) ELSE SectionAt(n)
<1> DEFINE H(k) == {m \in 1 .. k : IsHeader(m) /\ Closed(m)}
<1>1. \A k : SectionAt(k) = IF H(k) = {} THEN <<>> ELSE FirstOf(Header(Max(H(k))), MaxName)
  BY DEF SectionAt
<1>2. H(0) = {}
  OBVIOUS
<1>3. CASE IsHeader(n + 1) /\ Closed(n + 1)
  <2>1. H(n + 1) \subseteq Int /\ n + 1 \in H(n + 1) /\ \A x \in H(n + 1) : x <= n + 1
    BY <1>3
  <2>2. Max(H(n + 1)) = n + 1
    <3> HIDE DEF H
    <3> QED BY <2>1, MaxIs
  <2> HIDE DEF H
  <2>3. H(n + 1) # {}
    BY <2>1
  <2> QED BY <1>1, <1>2, <1>3, <2>2, <2>3
<1>4. CASE ~ (IsHeader(n + 1) /\ Closed(n + 1))
  <2>1. H(n + 1) = H(n)
    BY <1>4
  <2> HIDE DEF H
  <2> QED BY <1>1, <1>2, <1>4, <2>1
<1> QED BY <1>3, <1>4

-----------------------------------------------------------------------------
(* The meaning of what has been read.                                        *)

ValueOf(key) == IF key \in DOMAIN values THEN values[key] ELSE <<>>

Meaning ==
    Flat /\ reading # "failed" =>
        /\ section = SectionAt(lineno)
        /\ DOMAIN values = {KeyAt(n) : n \in Pairs}
        /\ \A key, f : Chain(key, f) => ValueOf(key) = f[lineno]

LEMMA HandlerIs ==
    ASSUME NEW nm, NEW v, ValueHandler(nm, v), NEW key, key = MakeKey(section, nm)
    PROVE  /\ DOMAIN values' = DOMAIN values \cup {key}
           /\ ValueOf(key)' = Joined(ValueOf(key), v)
           /\ \A k : k # key => ValueOf(k)' = ValueOf(k)
<1>1. values' = [k \in DOMAIN values \cup {key} |->
                    IF k = key THEN Joined(ValueOf(key), v) ELSE values[k]]
  BY DEF ValueHandler, ValueOf, Get
<1>2. DOMAIN values' = DOMAIN values \cup {key} /\ values'[key] = Joined(ValueOf(key), v)
      /\ \A k \in DOMAIN values : k # key => values'[k] = values[k]
  BY <1>1
<1> QED BY <1>2 DEF ValueOf

LEMMA MeaningStep ==
    ASSUME Readable, Meaning, [IniNext]_iniVars PROVE Meaning'
<1>1. SUFFICES ASSUME Flat', reading' # "failed"
               PROVE  /\ section' = SectionAt(lineno)'
                      /\ DOMAIN values' = {KeyAt(n)' : n \in Pairs'}
                      /\ \A key, f : Chain(key, f)' => ValueOf(key)' = f[lineno']
  BY DEF Meaning
<1>2. lines' = lines
  BY DEF IniNext, iniVars, OpenFile, ReadFails, Comment, Continuation, Section, Pair, BadLine,
         EndOfFile, ReadLine
<1>3. Flat
  BY <1>1, <1>2 DEF Flat, Indented
<1>4. (Others /\ reading # "failed") \/ Reads(lineno + 1)
  BY <1>1, <1>3, LineIs DEF Readable
<1>5. \A k : SectionAt(k)' = SectionAt(k) /\ KeyAt(k)' = KeyAt(k)
             /\ (Counts(k)' <=> Counts(k)) /\ Value(k)' = Value(k)
  BY <1>2, SameMeaning, SameFile
<1>6. \A key, f : Chain(key, f)' => Chain(key, f)
  BY <1>2, <1>5 DEF Chain
<1>7. Pairs' = {k \in 1 .. lineno' : Counts(k)} /\ Pairs = {k \in 1 .. lineno : Counts(k)}
  BY <1>5 DEF Pairs
<1>8. {KeyAt(k)' : k \in Pairs'} = {KeyAt(k) : k \in Pairs'}
  BY <1>5
<1>9. reading # "failed"
  BY <1>4 DEF Reads
<1>10. /\ section = SectionAt(lineno)
       /\ DOMAIN values = {KeyAt(k) : k \in Pairs}
       /\ \A key, f : Chain(key, f) => ValueOf(key) = f[lineno]
  BY <1>3, <1>9 DEF Meaning
<1>11. CASE Others /\ reading # "failed"
  <2>1. Pairs' = Pairs
    BY <1>7, <1>11 DEF Others
  <2>2. section' = section /\ lineno' = lineno /\ values' = values
    BY <1>11 DEF Others
  <2>3. SectionAt(lineno)' = SectionAt(lineno)
    BY <1>5, <2>2
  <2>4. \A key : ValueOf(key)' = ValueOf(key)
    BY <2>2 DEF ValueOf
  <2> QED BY <1>6, <1>8, <1>10, <2>1, <2>2, <2>3, <2>4
<1>12. CASE Reads(lineno + 1)
  <2>1. PICK l, n : l = lineno /\ n = lineno + 1
    OBVIOUS
  <2>2. /\ l \in Nat /\ n = l + 1 /\ n \in 1 .. Len(lines) /\ lineno' = n
        /\ section' = IF IsHeader(n) /\ Closed(n) THEN FirstOf(Header(n), MaxName) ELSE section
        /\ IF Counts(n) THEN ValueHandler(Name(n), Value(n)) ELSE values' = values
    BY <1>12, <2>1 DEF Reads, Here
  <2>3. section' = SectionAt(n)
    <3>1. SectionAt(l + 1) = IF IsHeader(l + 1) /\ Closed(l + 1)
                             THEN FirstOf(Header(l + 1), MaxName) ELSE SectionAt(l)
      BY <2>2, SectionStep
    <3> QED BY <1>10, <2>1, <2>2, <3>1
  <2>4. SectionAt(lineno)' = SectionAt(n)
    <3>1. SectionAt(lineno)' = SectionAt(n)'
      BY <2>2
    <3> QED BY <1>5, <3>1
  <2>5. Pairs' = IF Counts(n) THEN Pairs \cup {n} ELSE Pairs
    BY <1>7, <2>1, <2>2
  <2>6. ASSUME NEW key, NEW f, Chain(key, f)
        PROVE  /\ ValueOf(key) = f[l]
               /\ f[n] = IF Counts(n) /\ KeyAt(n) = key THEN Joined(f[l], Value(n)) ELSE f[l]
    <3>1. n - 1 = l
      BY <2>2
    <3> QED BY <1>10, <2>1, <2>2, <2>6, <3>1 DEF Chain
  <2>7. CASE ~Counts(n)
    <3>1. values' = values /\ Pairs' = Pairs
      BY <2>2, <2>5, <2>7
    <3>2. \A key : ValueOf(key)' = ValueOf(key)
      BY <3>1 DEF ValueOf
    <3> QED BY <1>6, <1>8, <1>10, <2>2, <2>3, <2>4, <2>6, <2>7, <3>1, <3>2
  <2>8. CASE Counts(n)
    <3>1. ~IsHeader(n) /\ section = section'
      BY <2>2, <2>8 DEF Counts
    <3>2. PICK k : k = MakeKey(section, Name(n))
      OBVIOUS
    <3>3. k = KeyAt(n)
      BY <2>3, <3>1, <3>2 DEF KeyAt
    <3>4. /\ DOMAIN values' = DOMAIN values \cup {k}
          /\ ValueOf(k)' = Joined(ValueOf(k), Value(n))
          /\ \A key : key # k => ValueOf(key)' = ValueOf(key)
      BY <2>2, <2>8, <3>2, HandlerIs
    <3>5. DOMAIN values' = {KeyAt(x) : x \in Pairs'}
      BY <1>10, <2>5, <2>8, <3>3, <3>4
    <3>6. ASSUME NEW key, NEW f, Chain(key, f)' PROVE ValueOf(key)' = f[lineno']
      <4>1. /\ ValueOf(key) = f[l]
            /\ f[n] = IF Counts(n) /\ KeyAt(n) = key THEN Joined(f[l], Value(n)) ELSE f[l]
        BY <1>6, <2>6, <3>6
      <4>2. CASE key = k
        BY <2>2, <2>8, <3>3, <3>4, <4>1, <4>2
      <4>3. CASE key # k
        BY <2>2, <3>3, <3>4, <4>1, <4>3
      <4> QED BY <4>2, <4>3
    <3> QED BY <1>8, <2>3, <2>4, <3>5, <3>6
  <2> QED BY <2>7, <2>8
<1> QED BY <1>4, <1>11, <1>12

LEMMA MeaningInit == ASSUME IniInit PROVE Meaning
<1>1. /\ section = <<>> /\ lineno = 0 /\ DOMAIN values = {}
  BY DEF IniInit
<1>2. SectionAt(0) = <<>>
  BY SectionStep
<1>3. Pairs = {}
  BY <1>1 DEF Pairs
<1>4. \A key, f : Chain(key, f) => ValueOf(key) = f[0]
  BY <1>1 DEF ValueOf, Chain
<1> QED BY <1>1, <1>2, <1>3, <1>4 DEF Meaning

LEMMA ReadAsWrittenIs ==
    ASSUME IniFileAssumption, Readable, Meaning, AtEnd, Flat
    PROVE  /\ DOMAIN values = {KeyAt(n) : n \in Pairs}
           /\ \A key \in DOMAIN values : values[key] = Written(key)[lineno]
<1>1. lines \in Seq(Texts) /\ reading # "failed"
  BY DEF Readable, IniTypeOK, AtEnd
<1> QED BY <1>1, WrittenIsChain DEF Meaning, ValueOf

(* In a file without indented lines a key has the values of its own lines in *)
(* their order, and no line of another key takes part in it, however headers,*)
(* comments, repeated keys, bad and overlong lines are mixed                 *)
(* (INIReader.cpp:120-132).                                                  *)
THEOREM ReadIsWritten == IniSpec => []ReadAsWritten
<1>1. IniInit => Readable /\ Meaning
  BY IniFileAssumption, ReadableInit, MeaningInit
<1>2. Readable /\ Meaning /\ [IniNext]_iniVars => (Readable /\ Meaning)'
  BY IniFileAssumption, ReadableStep, MeaningStep
<1>3. Readable /\ Meaning => ReadAsWritten
  BY IniFileAssumption, ReadAsWrittenIs DEF ReadAsWritten
<1> QED BY <1>1, <1>2, <1>3, PTL DEF IniSpec

-----------------------------------------------------------------------------
(* A line of the form that the help text names.                              *)

LEMMA Distinct ==
    ASSUME IniFileAssumption
    PROVE  /\ Open \notin {Equal, Colon, Blank, Semicolon, Left, Hash}
           /\ Close \notin {Equal, Colon, Blank, Semicolon}
           /\ Equal \notin {Blank, Semicolon} /\ Colon # Blank /\ Blank # Semicolon
           /\ Semicolon \notin {Equal, Colon, Blank, Open, Close}
           /\ \A c \in Chars : c \notin {Open, Close, Equal, Colon, Blank, Semicolon}
<1> DEFINE t == <<Open, Close, Left, Right, Equal, Colon, Blank, Semicolon, Hash, NewLine>>
<1>1. \A a, b \in DOMAIN t : t[a] = t[b] => a = b
  BY DEF IniFileAssumption, IsInjective
<1>2. DOMAIN t = 1 .. 10
  OBVIOUS
<1>3. /\ t[1] = Open /\ t[2] = Close /\ t[3] = Left /\ t[5] = Equal /\ t[6] = Colon
      /\ t[7] = Blank /\ t[8] = Semicolon /\ t[9] = Hash
  OBVIOUS
<1> HIDE DEF t
<1>4. \A c \in Chars : c \notin {Open, Close, Equal, Colon, Blank, Semicolon}
  BY DEF IniFileAssumption, Special
<1> QED BY <1>1, <1>2, <1>3, <1>4

LEMMA NothingToStrip ==
    ASSUME NEW A, NEW s \in Seq(A), s # <<>>
    PROVE  /\ s[1] # Blank => LSkip(s) = s
           /\ s[Len(s)] # Blank => RStrip(s) = s
<1>1. Len(s) \in Nat \ {0} /\ SubSeq(s, 1, Len(s)) = s
  OBVIOUS
<1>2. Solid(s) \subseteq Int /\ \A k \in Solid(s) : 1 <= k /\ k <= Len(s)
  BY <1>1 DEF Solid
<1>3. ASSUME s[1] # Blank PROVE LSkip(s) = s
  <2>1. 1 \in Solid(s)
    BY <1>1, <1>3 DEF Solid
  <2>2. Min(Solid(s)) = 1
    BY <1>2, <2>1, MinIs
  <2> QED BY <1>1, <2>1, <2>2 DEF LSkip
<1>4. ASSUME s[Len(s)] # Blank PROVE RStrip(s) = s
  <2>1. Len(s) \in Solid(s)
    BY <1>1, <1>4 DEF Solid
  <2>2. Max(Solid(s)) = Len(s)
    BY <1>2, <2>1, MaxIs
  <2> QED BY <1>1, <2>1, <2>2 DEF RStrip
<1> QED BY <1>3, <1>4

LEMMA OneToStrip ==
    ASSUME NEW A, NEW s \in Seq(A), Len(s) >= 2
    PROVE  /\ s[1] = Blank /\ s[2] # Blank => LSkip(s) = SubSeq(s, 2, Len(s))
           /\ s[Len(s)] = Blank /\ s[Len(s) - 1] # Blank => RStrip(s) = SubSeq(s, 1, Len(s) - 1)
<1>1. Len(s) \in Nat /\ Len(s) - 1 \in 1 .. Len(s) /\ 2 \in 1 .. Len(s)
  OBVIOUS
<1>2. Solid(s) \subseteq Int /\ \A k \in Solid(s) : 1 <= k /\ k <= Len(s) /\ s[k] # Blank
  BY <1>1 DEF Solid
<1>3. ASSUME s[1] = Blank, s[2] # Blank PROVE LSkip(s) = SubSeq(s, 2, Len(s))
  <2>1. 2 \in Solid(s) /\ \A k \in Solid(s) : 2 <= k
    BY <1>1, <1>2, <1>3 DEF Solid
  <2>2. Min(Solid(s)) = 2
    BY <1>2, <2>1, MinIs
  <2> QED BY <2>1, <2>2 DEF LSkip
<1>4. ASSUME s[Len(s)] = Blank, s[Len(s) - 1] # Blank PROVE RStrip(s) = SubSeq(s, 1, Len(s) - 1)
  <2>1. Len(s) - 1 \in Solid(s) /\ \A k \in Solid(s) : k <= Len(s) - 1
    BY <1>1, <1>2, <1>4 DEF Solid
  <2>2. Max(Solid(s)) = Len(s) - 1
    BY <1>2, <2>1, MaxIs
  <2> QED BY <2>1, <2>2 DEF RStrip
<1> QED BY <1>3, <1>4

LEMMA FindAt ==
    ASSUME NEW A, NEW s \in Seq(A), NEW S, NEW k \in 1 .. Len(s) + 1,
           k <= Len(s) => s[k] \in S,
           \A j \in 1 .. Len(s) : j < k =>
               s[j] \notin S /\ ~ (j > 1 /\ s[j - 1] = Blank /\ s[j] = Semicolon)
    PROVE  Find(s, S) = k
<1> DEFINE T == {j \in 1 .. Len(s) : \/ s[j] \in S
                                     \/ j > 1 /\ s[j - 1] = Blank /\ s[j] = Semicolon}
                \cup {Len(s) + 1}
<1>1. T \subseteq Int /\ k \in T /\ \A j \in T : k <= j
  OBVIOUS
<1>2. Find(s, S) = Min(T)
  BY DEF Find
<1> HIDE DEF T
<1> QED BY <1>1, <1>2, MinIs

LEMMA Joining ==
    ASSUME NEW A, NEW u \in Seq(A), NEW v \in Seq(A)
    PROVE  /\ u \o v \in Seq(A) /\ Len(u \o v) = Len(u) + Len(v)
           /\ \A k \in 1 .. Len(u) : (u \o v)[k] = u[k]
           /\ \A k \in 1 .. Len(v) : (u \o v)[Len(u) + k] = v[k]
OBVIOUS

Laid(s, key, value, K, V) ==
    /\ s \in Texts /\ Len(s) = K + V + 7
    /\ s[1] = Open /\ \A k \in 1 .. K : s[k + 1] = key[k]
    /\ s[K + 2] = Close /\ s[K + 3] = Blank /\ s[K + 4] = Equal /\ s[K + 5] = Blank
    /\ s[K + 6] = Open /\ \A k \in 1 .. V : s[K + 6 + k] = value[k]
    /\ s[K + V + 7] = Close

LEMMA RulePositions ==
    ASSUME NEW key \in Texts, NEW value \in Texts, NEW K \in Nat, K = Len(key),
           NEW V \in Nat, V = Len(value), NEW s, s = Rule(key, value)
    PROVE  Laid(s, key, value, K, V)
<1> DEFINE A == Chars \cup Special \cup {NewLine}
           a == <<Open>> \o key
           m == <<Close, Blank, Equal, Blank, Open>>
           b == a \o m
           c == b \o value
<1>0. key \in Seq(A) /\ value \in Seq(A) /\ Texts = Seq(A)
  BY DEF Texts
<1>1. <<Open>> \in Seq(A) /\ m \in Seq(A) /\ <<Close>> \in Seq(A)
      /\ Len(<<Open>>) = 1 /\ Len(m) = 5 /\ Len(<<Close>>) = 1
      /\ <<Open>>[1] = Open /\ <<Close>>[1] = Close
      /\ m[1] = Close /\ m[2] = Blank /\ m[3] = Equal /\ m[4] = Blank /\ m[5] = Open
  BY DEF Special
<1> HIDE DEF A, m
<1>2. a \in Seq(A) /\ Len(a) = K + 1 /\ a[1] = Open /\ \A k \in 1 .. K : a[k + 1] = key[k]
  <2>1. /\ <<Open>> \o key \in Seq(A) /\ Len(<<Open>> \o key) = 1 + Len(key)
        /\ (<<Open>> \o key)[1] = <<Open>>[1]
        /\ \A k \in 1 .. Len(key) : (<<Open>> \o key)[1 + k] = key[k]
    BY <1>0, <1>1, Joining
  <2>2. \A k \in 1 .. K : 1 + k = k + 1
    OBVIOUS
  <2> QED BY <1>1, <2>1, <2>2
<1> HIDE DEF a
<1>3. /\ b \in Seq(A) /\ Len(b) = K + 6 /\ \A k \in 1 .. K + 1 : b[k] = a[k]
      /\ b[K + 2] = Close /\ b[K + 3] = Blank /\ b[K + 4] = Equal /\ b[K + 5] = Blank
      /\ b[K + 6] = Open
  <2>0. a \in Seq(A) /\ m \in Seq(A)
    BY <1>1, <1>2
  <2>1. /\ a \o m \in Seq(A) /\ Len(a \o m) = Len(a) + Len(m)
        /\ \A k \in 1 .. Len(a) : (a \o m)[k] = a[k]
        /\ \A k \in 1 .. Len(m) : (a \o m)[Len(a) + k] = m[k]
    BY <2>0, Joining
  <2>2. \A x \in K + 2 .. K + 6 : b[x] = m[x - (K + 1)]
    <3>1. \A x \in K + 2 .. K + 6 : x - (K + 1) \in 1 .. 5 /\ x = (K + 1) + (x - (K + 1))
      OBVIOUS
    <3> QED BY <1>1, <1>2, <2>1, <3>1
  <2>3. b[K + 2] = m[1] /\ b[K + 3] = m[2] /\ b[K + 4] = m[3] /\ b[K + 5] = m[4] /\ b[K + 6] = m[5]
    <3>1. /\ K + 2 \in K + 2 .. K + 6 /\ K + 3 \in K + 2 .. K + 6 /\ K + 4 \in K + 2 .. K + 6
          /\ K + 5 \in K + 2 .. K + 6 /\ K + 6 \in K + 2 .. K + 6
          /\ (K + 2) - (K + 1) = 1 /\ (K + 3) - (K + 1) = 2 /\ (K + 4) - (K + 1) = 3
          /\ (K + 5) - (K + 1) = 4 /\ (K + 6) - (K + 1) = 5
      OBVIOUS
    <3> QED BY <2>2, <3>1
  <2> QED BY <1>1, <1>2, <2>1, <2>3
<1> HIDE DEF b
<1>4. /\ c \in Seq(A) /\ Len(c) = K + V + 6 /\ \A k \in 1 .. K + 6 : c[k] = b[k]
      /\ \A k \in 1 .. V : c[K + 6 + k] = value[k]
  <2>0. b \in Seq(A) /\ value \in Seq(A)
    BY <1>0, <1>3
  <2>1. /\ b \o value \in Seq(A) /\ Len(b \o value) = Len(b) + Len(value)
        /\ \A k \in 1 .. Len(b) : (b \o value)[k] = b[k]
        /\ \A k \in 1 .. Len(value) : (b \o value)[Len(b) + k] = value[k]
    BY <2>0, Joining
  <2> QED BY <1>3, <2>1
<1> HIDE DEF c
<1>5. /\ c \o <<Close>> \in Seq(A) /\ Len(c \o <<Close>>) = K + V + 7
      /\ \A k \in 1 .. K + V + 6 : (c \o <<Close>>)[k] = c[k]
      /\ (c \o <<Close>>)[K + V + 7] = Close
  <2>0. c \in Seq(A) /\ <<Close>> \in Seq(A)
    BY <1>1, <1>4
  <2>1. /\ c \o <<Close>> \in Seq(A) /\ Len(c \o <<Close>>) = Len(c) + Len(<<Close>>)
        /\ \A k \in 1 .. Len(c) : (c \o <<Close>>)[k] = c[k]
        /\ \A k \in 1 .. Len(<<Close>>) : (c \o <<Close>>)[Len(c) + k] = <<Close>>[k]
    BY <2>0, Joining
  <2>2. (c \o <<Close>>)[Len(c) + 1] = Close
    BY <1>1, <2>1
  <2> QED BY <1>1, <1>4, <2>1, <2>2
<1>6. s = c \o <<Close>>
  BY DEF Rule, a, b, c, m
<1>7. \A k \in 1 .. K + 6 : k \in 1 .. K + V + 6 /\ s[k] = b[k]
  BY <1>4, <1>5, <1>6
<1>8. \A k \in 1 .. K + 1 : k \in 1 .. K + 6 /\ s[k] = a[k]
  BY <1>3, <1>7
<1>9. s[1] = Open /\ \A k \in 1 .. K : s[k + 1] = key[k]
  BY <1>2, <1>8
<1>10. s[K + 2] = Close /\ s[K + 3] = Blank /\ s[K + 4] = Equal /\ s[K + 5] = Blank /\ s[K + 6] = Open
  BY <1>3, <1>7
<1>11. ASSUME NEW k \in 1 .. V PROVE s[K + 6 + k] = value[k]
  <2>1. K + 6 + k \in 1 .. K + V + 6
    OBVIOUS
  <2> QED BY <1>4, <1>5, <1>6, <2>1
<1> QED BY <1>0, <1>5, <1>6, <1>9, <1>10, <1>11 DEF Laid

LEMMA Pieces ==
    ASSUME NEW A, NEW s \in Seq(A), NEW a \in 1 .. Len(s) + 1, NEW b \in a - 1 .. Len(s)
    PROVE  /\ SubSeq(s, a, b) \in Seq(A) /\ Len(SubSeq(s, a, b)) = b - a + 1
           /\ \A k \in 1 .. b - a + 1 : SubSeq(s, a, b)[k] = s[a + k - 1]
OBVIOUS

LEMMA Prefix ==
    ASSUME NEW A, NEW s \in Seq(A), NEW m \in 0 .. Len(s)
    PROVE  /\ SubSeq(s, 1, m) \in Seq(A) /\ Len(SubSeq(s, 1, m)) = m
           /\ \A k \in 1 .. m : SubSeq(s, 1, m)[k] = s[k]
OBVIOUS

LEMMA BracketedIs ==
    ASSUME NEW s \in Texts, NEW K \in Nat, K = Len(s)
    PROVE  /\ Bracketed(s) \in Texts /\ Len(Bracketed(s)) = K + 2
           /\ Bracketed(s)[1] = Open /\ Bracketed(s)[K + 2] = Close
           /\ \A k \in 1 .. K : Bracketed(s)[k + 1] = s[k]
<1> DEFINE A == Chars \cup Special \cup {NewLine}
           a == <<Open>> \o s
<1>1. s \in Seq(A) /\ <<Open>> \in Seq(A) /\ <<Close>> \in Seq(A) /\ Texts = Seq(A)
      /\ Len(<<Open>>) = 1 /\ Len(<<Close>>) = 1
      /\ <<Open>>[1] = Open /\ <<Close>>[1] = Close
  BY DEF Texts, Special
<1> HIDE DEF A
<1>2. a \in Seq(A) /\ Len(a) = K + 1 /\ a[1] = Open /\ \A k \in 1 .. K : a[k + 1] = s[k]
  <2>1. /\ <<Open>> \o s \in Seq(A) /\ Len(<<Open>> \o s) = 1 + Len(s)
        /\ (<<Open>> \o s)[1] = <<Open>>[1]
        /\ \A k \in 1 .. Len(s) : (<<Open>> \o s)[1 + k] = s[k]
    BY <1>1, Joining
  <2>2. \A k \in 1 .. K : 1 + k = k + 1
    OBVIOUS
  <2> QED BY <1>1, <2>1, <2>2
<1> HIDE DEF a
<1>3. /\ a \o <<Close>> \in Seq(A) /\ Len(a \o <<Close>>) = Len(a) + Len(<<Close>>)
      /\ \A k \in 1 .. Len(a) : (a \o <<Close>>)[k] = a[k]
      /\ \A k \in 1 .. Len(<<Close>>) : (a \o <<Close>>)[Len(a) + k] = <<Close>>[k]
  <2>1. a \in Seq(A) /\ <<Close>> \in Seq(A)
    BY <1>1, <1>2
  <2> QED BY <2>1, Joining
<1>4. (a \o <<Close>>)[Len(a) + 1] = Close
  BY <1>1, <1>3
<1>5. Bracketed(s) = a \o <<Close>>
  BY DEF Bracketed, a
<1>6. \A k \in 1 .. K : k + 1 \in 1 .. K + 1
  OBVIOUS
<1>7. Len(a) + 1 = K + 2
  BY <1>2
<1> QED BY <1>1, <1>2, <1>3, <1>4, <1>5, <1>6, <1>7

LEMMA RuleIs ==
    ASSUME IniFileAssumption, NEW n, Here(n), NEW key \in Texts, NEW value \in Texts,
           lines[n] = Rule(key, value), NoEqual(key), NoComment(key), ~Overlong(n)
    PROVE  /\ Counts(n) /\ Name(n) = Bracketed(key)
           /\ NoComment(value) => Value(n) = Bracketed(value)
           /\ ~NoComment(value) => Len(Value(n)) < Len(value) + 2
<1> DEFINE A == Chars \cup Special \cup {NewLine}
<1>1. PICK s, K, V : s = lines[n] /\ K = Len(key) /\ V = Len(value) /\ K \in Nat /\ V \in Nat
  <2>1. Len(key) \in Nat /\ Len(value) \in Nat
    BY DEF Texts
  <2> QED BY <2>1
<1>2. /\ s \in Seq(A) /\ Len(s) = K + V + 7
      /\ s[1] = Open /\ \A k \in 1 .. K : s[k + 1] = key[k]
      /\ s[K + 2] = Close /\ s[K + 3] = Blank /\ s[K + 4] = Equal /\ s[K + 5] = Blank
      /\ s[K + 6] = Open /\ \A k \in 1 .. V : s[K + 6 + k] = value[k]
      /\ s[K + V + 7] = Close
  <2>1. s = Rule(key, value) /\ Texts = Seq(A)
    BY <1>1 DEF Texts
  <2> HIDE DEF A
  <2>2. K \in Nat /\ K = Len(key) /\ V \in Nat /\ V = Len(value)
    BY <1>1
  <2>3. Laid(s, key, value, K, V)
    BY <2>1, <2>2, RulePositions
  <2> QED BY <2>1, <2>3 DEF Laid
<1> HIDE DEF A
<1>3. Text(n) = s
  <2>1. Len(s) <= MaxLine /\ MaxLine \in Nat
    BY <1>1, <1>2 DEF Overlong, IniFileAssumption
  <2>2. FirstOf(s, MaxLine) = s
    BY <1>2, <2>1, FirstOfIs
  <2>3. s # <<>> /\ s[1] # Blank /\ s[Len(s)] # Blank
    BY <1>1, <1>2, Distinct
  <2>4. LSkip(s) = s /\ RStrip(s) = s
    BY <1>2, <2>3, NothingToStrip
  <2> QED BY <1>1, <2>2, <2>4 DEF Text
<1>4. ASSUME NEW j \in 1 .. K + 3 PROVE s[j] \notin {Equal, Colon}
  <2>1. j = 1 \/ j = K + 2 \/ j = K + 3 \/ \E k \in 1 .. K : j = k + 1
    <3>1. j # 1 /\ j # K + 2 /\ j # K + 3 => j - 1 \in 1 .. K /\ j = (j - 1) + 1
      BY <1>1
    <3> QED BY <3>1
  <2>2. \A k \in 1 .. K : key[k] \notin {Equal, Colon}
    BY <1>1 DEF NoEqual
  <2> QED BY <1>2, <2>1, <2>2, Distinct
<1>5. ASSUME NEW j \in 2 .. K + 3 PROVE ~ (s[j - 1] = Blank /\ s[j] = Semicolon)
  <2>1. CASE j = 2
    <3>1. s[j - 1] = Open
      BY <1>2, <2>1
    <3> QED BY <3>1, Distinct
  <2>2. CASE j = K + 2 \/ j = K + 3
    <3>1. s[j] \in {Close, Blank}
      BY <1>2, <2>2
    <3> QED BY <3>1, Distinct
  <2>3. CASE j \in 3 .. K + 1
    <3>1. PICK l, m : l = j - 1 /\ m = j - 2
      OBVIOUS
    <3>2. l \in 1 .. K /\ m \in 1 .. K /\ l = m + 1 /\ j = l + 1 /\ l \in 2 .. K /\ l - 1 = m
      BY <1>1, <2>3, <3>1
    <3>3. s[j] = key[l] /\ s[l] = key[m]
      BY <1>2, <3>2
    <3>4. ~ (key[m] = Blank /\ key[l] = Semicolon)
      BY <1>1, <3>2 DEF NoComment
    <3> QED BY <3>1, <3>3, <3>4
  <2> QED BY <1>1, <2>1, <2>2, <2>3
<1>6. Find(s, {Equal, Colon}) = K + 4
  <2>1. K + 4 \in 1 .. Len(s) + 1 /\ s[K + 4] \in {Equal, Colon}
    BY <1>1, <1>2
  <2>2. ASSUME NEW j \in 1 .. Len(s), j < K + 4
        PROVE  s[j] \notin {Equal, Colon} /\ ~ (j > 1 /\ s[j - 1] = Blank /\ s[j] = Semicolon)
    <3>1. j \in 1 .. K + 3 /\ (j > 1 => j \in 2 .. K + 3)
      BY <1>1, <2>2
    <3> QED BY <1>4, <1>5, <3>1
  <2>3. PICK k, S : k = K + 4 /\ S = {Equal, Colon}
    OBVIOUS
  <2>4. k \in 1 .. Len(s) + 1 /\ (k <= Len(s) => s[k] \in S)
    BY <2>1, <2>3
  <2>5. \A j \in 1 .. Len(s) : j < k =>
            s[j] \notin S /\ ~ (j > 1 /\ s[j - 1] = Blank /\ s[j] = Semicolon)
    BY <2>2, <2>3
  <2>6. s \in Seq(A)
    BY <1>2
  <2>7. Find(s, S) = k
    BY <2>4, <2>5, <2>6, FindAt
  <2> QED BY <2>3, <2>7
<1>7. Name(n) = Bracketed(key)
  <2>1. PICK p : p = SubSeq(s, 1, K + 3)
    OBVIOUS
  <2>2. p \in Seq(A) /\ Len(p) = K + 3 /\ \A k \in 1 .. K + 3 : p[k] = s[k]
    <3>1. K + 3 \in 0 .. Len(s) /\ s \in Seq(A)
      BY <1>1, <1>2
    <3> QED BY <2>1, <3>1, Prefix
  <2>3. p[Len(p)] = Blank /\ p[Len(p) - 1] # Blank /\ Len(p) >= 2
    <3>1. K + 3 \in 1 .. K + 3 /\ K + 2 \in 1 .. K + 3 /\ K + 3 - 1 = K + 2
      BY <1>1
    <3>2. p[K + 3] = Blank /\ p[K + 2] = Close
      BY <1>2, <2>2, <3>1
    <3> QED BY <1>1, <2>2, <3>1, <3>2, Distinct
  <2>4. RStrip(p) = SubSeq(p, 1, K + 2)
    <3>1. RStrip(p) = SubSeq(p, 1, Len(p) - 1)
      BY <2>2, <2>3, OneToStrip
    <3>2. Len(p) - 1 = K + 2
      BY <1>1, <2>2
    <3> QED BY <3>1, <3>2
  <2>5. PICK q : q = RStrip(p)
    OBVIOUS
  <2>6. q \in Seq(A) /\ Len(q) = K + 2 /\ \A k \in 1 .. K + 2 : q[k] = s[k]
    <3>1. SubSeq(p, 1, K + 2) \in Seq(A) /\ Len(SubSeq(p, 1, K + 2)) = K + 2
          /\ \A k \in 1 .. K + 2 : SubSeq(p, 1, K + 2)[k] = p[k]
      BY <1>1, <2>2
    <3>2. \A k \in 1 .. K + 2 : k \in 1 .. K + 3
      BY <1>1
    <3> QED BY <2>2, <2>4, <2>5, <3>1, <3>2
  <2>7. PICK r : r = Bracketed(key)
    OBVIOUS
  <2>8. /\ r \in Seq(A) /\ Len(r) = K + 2 /\ r[1] = Open /\ r[K + 2] = Close
        /\ \A k \in 1 .. K : r[k + 1] = key[k]
    BY <1>1, <2>7, BracketedIs DEF Texts, A
  <2>9. ASSUME NEW j \in 1 .. K + 2 PROVE q[j] = r[j]
    <3>1. j = 1 \/ j = K + 2 \/ \E k \in 1 .. K : j = k + 1
      <4>1. j # 1 /\ j # K + 2 => j - 1 \in 1 .. K /\ j = (j - 1) + 1
        BY <1>1
      <4> QED BY <4>1
    <3> QED BY <1>2, <2>6, <2>8, <3>1
  <2>10. q = r
    BY <2>6, <2>8, <2>9, SeqEqual
  <2>11. Upto(s, K + 4) = p
    <3>1. (K + 4) - 1 = K + 3
      BY <1>1
    <3> QED BY <2>1, <3>1 DEF Upto
  <2> QED BY <1>3, <1>6, <2>5, <2>7, <2>10, <2>11 DEF Name
<1>8. ASSUME NoComment(value) PROVE Value(n) = Bracketed(value)
  <2>1. PICK u : u = SubSeq(s, K + 5, Len(s))
    OBVIOUS
  <2>2. u \in Seq(A) /\ Len(u) = V + 3 /\ \A k \in 1 .. V + 3 : u[k] = s[K + 4 + k]
    <3>1. PICK a, b : a = K + 5 /\ b = K + V + 7
      OBVIOUS
    <3>2. Len(s) = b /\ s \in Seq(A)
      BY <1>2, <3>1
    <3>3. a \in 1 .. b + 1 /\ b \in a - 1 .. b /\ b - a + 1 = V + 3
      BY <1>1, <3>1
    <3>4. /\ SubSeq(s, a, b) \in Seq(A) /\ Len(SubSeq(s, a, b)) = b - a + 1
          /\ \A k \in 1 .. b - a + 1 : SubSeq(s, a, b)[k] = s[a + k - 1]
      BY <3>2, <3>3, Pieces
    <3>5. \A k \in 1 .. V + 3 : a + k - 1 = K + 4 + k
      BY <1>1, <3>1
    <3>6. u = SubSeq(s, a, b)
      BY <2>1, <3>1, <3>2
    <3> QED BY <3>3, <3>4, <3>5, <3>6
  <2>3. u[1] = Blank /\ u[2] = Open /\ u[V + 3] = Close
    <3>1. 1 \in 1 .. V + 3 /\ 2 \in 1 .. V + 3 /\ V + 3 \in 1 .. V + 3
          /\ K + 4 + 1 = K + 5 /\ K + 4 + 2 = K + 6 /\ K + 4 + (V + 3) = K + V + 7
      BY <1>1
    <3> QED BY <1>2, <2>2, <3>1
  <2>4. ASSUME NEW k \in 1 .. V PROVE u[k + 2] = value[k]
    <3>1. k + 2 \in 1 .. V + 3 /\ K + 4 + (k + 2) = K + 6 + k
      BY <1>1
    <3> QED BY <1>2, <2>2, <3>1
  <2>5. ASSUME NEW j \in 2 .. V + 3 PROVE ~ (u[j - 1] = Blank /\ u[j] = Semicolon)
    <3>1. CASE j = 2 \/ j = V + 3
      BY <2>3, <3>1, Distinct
    <3>2. CASE j = 3
      <4>1. u[j - 1] = Open
        BY <2>3, <3>2
      <4> QED BY <4>1, Distinct
    <3>3. CASE j \in 4 .. V + 2
      <4>1. PICK l, m : l = j - 2 /\ m = j - 3
        OBVIOUS
      <4>2. l \in 2 .. V /\ m \in 1 .. V /\ l \in 1 .. V /\ l - 1 = m
            /\ j = l + 2 /\ j - 1 = m + 2
        BY <1>1, <3>3, <4>1
      <4>3. u[j] = value[l] /\ u[j - 1] = value[m]
        BY <2>4, <4>2
      <4>4. ~ (value[m] = Blank /\ value[l] = Semicolon)
        BY <1>1, <1>8, <4>2 DEF NoComment
      <4> QED BY <4>3, <4>4
    <3> QED BY <1>1, <3>1, <3>2, <3>3
  <2>6. Find(u, {}) = V + 4
    <3>1. V + 4 \in 1 .. Len(u) + 1 /\ ~ (V + 4 <= Len(u))
      BY <1>1, <2>2
    <3>2. ASSUME NEW j \in 1 .. Len(u), j > 1, u[j - 1] = Blank, u[j] = Semicolon PROVE FALSE
      <4>1. j \in 2 .. V + 3
        BY <1>1, <2>2, <3>2
      <4> QED BY <2>5, <3>2, <4>1
    <3>3. PICK k, S : k = V + 4 /\ S = {}
      OBVIOUS
    <3>4. k \in 1 .. Len(u) + 1 /\ (k <= Len(u) => u[k] \in S)
      BY <3>1, <3>3
    <3>5. \A j \in 1 .. Len(u) : j < k =>
              u[j] \notin S /\ ~ (j > 1 /\ u[j - 1] = Blank /\ u[j] = Semicolon)
      BY <3>2, <3>3
    <3>6. u \in Seq(A)
      BY <2>2
    <3>7. Find(u, S) = k
      BY <3>4, <3>5, <3>6, FindAt
    <3> QED BY <3>3, <3>7
  <2>7. Uncommented(u) = u
    <3>1. (V + 4) - 1 = Len(u) /\ SubSeq(u, 1, Len(u)) = u
      BY <1>1, <2>2
    <3> QED BY <2>6, <3>1 DEF Uncommented, Upto
  <2>8. PICK w : w = LSkip(u)
    OBVIOUS
  <2>9. w = SubSeq(u, 2, V + 3)
    <3>1. u \in Seq(A) /\ Len(u) >= 2 /\ u[1] = Blank /\ u[2] # Blank /\ Len(u) = V + 3
      BY <1>1, <2>2, <2>3, Distinct
    <3>2. LSkip(u) = SubSeq(u, 2, Len(u))
      BY <3>1, OneToStrip
    <3> QED BY <2>8, <3>1, <3>2
  <2>10. w \in Seq(A) /\ Len(w) = V + 2 /\ \A k \in 1 .. V + 2 : w[k] = u[k + 1]
    <3>1. 2 \in 1 .. Len(u) + 1 /\ V + 3 \in 2 - 1 .. Len(u) /\ (V + 3) - 2 + 1 = V + 2
      BY <1>1, <2>2
    <3>2. /\ SubSeq(u, 2, V + 3) \in Seq(A)
          /\ Len(SubSeq(u, 2, V + 3)) = (V + 3) - 2 + 1
          /\ \A k \in 1 .. (V + 3) - 2 + 1 : SubSeq(u, 2, V + 3)[k] = u[2 + k - 1]
      BY <2>2, <3>1, Pieces
    <3>3. \A k \in 1 .. V + 2 : 2 + k - 1 = k + 1
      BY <1>1
    <3> QED BY <2>9, <3>1, <3>2, <3>3
  <2>11. PICK r : r = Bracketed(value)
    OBVIOUS
  <2>12. /\ r \in Seq(A) /\ Len(r) = V + 2 /\ r[1] = Open /\ r[V + 2] = Close
         /\ \A k \in 1 .. V : r[k + 1] = value[k]
    BY <1>1, <2>11, BracketedIs DEF Texts, A
  <2>13. ASSUME NEW j \in 1 .. V + 2 PROVE w[j] = r[j]
    <3>1. j = 1 \/ j = V + 2 \/ \E k \in 1 .. V : j = k + 1
      <4>1. j # 1 /\ j # V + 2 => j - 1 \in 1 .. V /\ j = (j - 1) + 1
        BY <1>1
      <4> QED BY <4>1
    <3>2. CASE j = 1
      BY <1>1, <2>3, <2>10, <2>12, <3>2
    <3>3. CASE j = V + 2
      <4>1. (V + 2) + 1 = V + 3
        BY <1>1
      <4> QED BY <2>3, <2>10, <2>12, <3>3, <4>1
    <3>4. CASE \E k \in 1 .. V : j = k + 1
      <4>1. PICK k \in 1 .. V : j = k + 1
        BY <3>4
      <4>2. (k + 1) + 1 = k + 2
        BY <1>1
      <4>3. w[j] = u[k + 2]
        BY <2>10, <4>1, <4>2
      <4> QED BY <2>4, <2>12, <4>1, <4>3
    <3> QED BY <3>1, <3>2, <3>3, <3>4
  <2>14. w = r
    BY <2>10, <2>12, <2>13, SeqEqual
  <2>15. w # <<>> /\ w[Len(w)] # Blank
    <3>1. Len(w) = V + 2 /\ V + 2 > 0 /\ r[V + 2] # Blank
      BY <1>1, <2>10, <2>12, Distinct
    <3> QED BY <2>14, <3>1
  <2>16. RStrip(w) = w
    BY <2>10, <2>15, NothingToStrip
  <2>17. (K + 4) + 1 = K + 5
    BY <1>1
  <2> QED BY <1>3, <1>6, <2>1, <2>7, <2>8, <2>11, <2>14, <2>16, <2>17 DEF Value
<1>9. Counts(n)
  <2>1. Text(n) # <<>> /\ Text(n)[1] = Open
    BY <1>1, <1>2, <1>3
  <2>2. ~IsComment(n) /\ ~IsHeader(n)
    BY <2>1, Distinct DEF IsComment, IsHeader
  <2>3. K + 4 <= Len(s) /\ s[K + 4] \in {Equal, Colon}
    BY <1>1, <1>2
  <2>4. IsPair(n)
    BY <1>3, <1>6, <2>3 DEF IsPair, Stops
  <2> QED BY <2>2, <2>4 DEF Counts
<1>10. ASSUME ~NoComment(value) PROVE Len(Value(n)) < Len(value) + 2
  <2>1. PICK j \in 2 .. V : value[j - 1] = Blank /\ value[j] = Semicolon
    BY <1>1, <1>10 DEF NoComment
  <2>2. PICK u : u = SubSeq(s, K + 5, Len(s))
    OBVIOUS
  <2>3. u \in Seq(A) /\ Len(u) = V + 3 /\ \A k \in 1 .. V + 3 : u[k] = s[K + 4 + k]
    <3>1. PICK a, b : a = K + 5 /\ b = K + V + 7
      OBVIOUS
    <3>2. Len(s) = b /\ s \in Seq(A)
      BY <1>2, <3>1
    <3>3. a \in 1 .. b + 1 /\ b \in a - 1 .. b /\ b - a + 1 = V + 3
      BY <1>1, <3>1
    <3>4. /\ SubSeq(s, a, b) \in Seq(A) /\ Len(SubSeq(s, a, b)) = b - a + 1
          /\ \A k \in 1 .. b - a + 1 : SubSeq(s, a, b)[k] = s[a + k - 1]
      BY <3>2, <3>3, Pieces
    <3>5. \A k \in 1 .. V + 3 : a + k - 1 = K + 4 + k
      BY <1>1, <3>1
    <3>6. u = SubSeq(s, a, b)
      BY <2>2, <3>1, <3>2
    <3> QED BY <3>3, <3>4, <3>5, <3>6
  <2>4. ASSUME NEW k \in 1 .. V PROVE u[k + 2] = value[k]
    <3>1. k + 2 \in 1 .. V + 3 /\ K + 4 + (k + 2) = K + 6 + k
      BY <1>1
    <3> QED BY <1>2, <2>3, <3>1
  <2>5. PICK l, m : l = j + 2 /\ m = j - 1
    OBVIOUS
  <2>6. /\ m \in 1 .. V /\ j \in 1 .. V /\ m + 2 = l - 1
        /\ l \in 1 .. Len(u) /\ l > 1 /\ l <= V + 2
    BY <1>1, <2>1, <2>3, <2>5
  <2>7. u[l - 1] = Blank /\ u[l] = Semicolon
    BY <2>1, <2>4, <2>5, <2>6
  <2>8. PICK S, c : S = {} /\ c = Find(u, S)
    OBVIOUS
  <2>9. c \in 1 .. Len(u) + 1 /\ c <= l
    BY <2>3, <2>6, <2>7, <2>8, FindIs
  <2>10. Uncommented(u) = Upto(u, c)
    BY <2>8 DEF Uncommented
  <2>11. Upto(u, c) \in Seq(A) /\ Len(Upto(u, c)) = c - 1
    BY <2>3, <2>9, UptoIs
  <2>12. PICK w : w = LSkip(Upto(u, c))
    OBVIOUS
  <2>13. w \in Seq(A) /\ Len(w) <= c - 1
    BY <2>11, <2>12, StripIs, StripShortens
  <2>14. RStrip(w) \in Seq(A) /\ Len(RStrip(w)) <= Len(w)
    BY <2>13, StripIs, StripShortens
  <2>15. (K + 4) + 1 = K + 5
    BY <1>1
  <2>16. Value(n) = RStrip(w)
    BY <1>3, <1>6, <2>2, <2>10, <2>12, <2>15 DEF Value
  <2>17. Len(w) \in Nat /\ Len(RStrip(w)) \in Nat
    BY <2>13, <2>14
  <2> QED BY <1>1, <2>6, <2>9, <2>13, <2>14, <2>16, <2>17
<1> QED BY <1>7, <1>8, <1>9, <1>10

(* What stands before the '=' of a line has no '=', no ':' and no comment.   *)
LEMMA NameIsPlain ==
    ASSUME IniFileAssumption, NEW n, Here(n) PROVE NoEqual(Name(n)) /\ NoComment(Name(n))
<1> DEFINE A == Chars \cup Special \cup {NewLine}
<1>1. PICK s, S, c : s = Text(n) /\ S = {Equal, Colon} /\ c = Find(s, S)
  OBVIOUS
<1>2. s \in Seq(A)
  BY <1>1, TextIs DEF Texts
<1> HIDE DEF A
<1>3. /\ c \in 1 .. Len(s) + 1
      /\ \A k \in 1 .. Len(s) : k < c =>
             s[k] \notin S /\ ~ (k > 1 /\ s[k - 1] = Blank /\ s[k] = Semicolon)
  BY <1>1, <1>2, FindIs
<1>4. PICK p : p = Upto(s, c)
  OBVIOUS
<1>5. p \in Seq(A) /\ Len(p) = c - 1 /\ \A k \in 1 .. c - 1 : p[k] = s[k]
  <2>1. c - 1 \in 0 .. Len(s)
    BY <1>2, <1>3
  <2> QED BY <1>2, <1>4, <2>1, Prefix DEF Upto
<1>6. PICK q : q = RStrip(p)
  OBVIOUS
<1>7. Len(q) \in Nat /\ Len(q) <= Len(p) /\ \A k \in 1 .. Len(q) : q[k] = p[k]
  <2>1. CASE Solid(p) = {}
    <3>1. q = <<>>
      BY <1>6, <2>1 DEF RStrip
    <3> QED BY <1>5, <3>1
  <2>2. CASE Solid(p) # {}
    <3>1. Max(Solid(p)) \in Solid(p)
      BY <1>5, <2>2, SolidIs
    <3>2. PICK m : m = Max(Solid(p)) /\ m \in 0 .. Len(p)
      <4>1. Max(Solid(p)) \in 1 .. Len(p)
        BY <3>1 DEF Solid
      <4> QED BY <1>5, <4>1
    <3>3. q = SubSeq(p, 1, m)
      BY <1>6, <2>2, <3>2 DEF RStrip
    <3>4. Len(q) = m /\ \A k \in 1 .. m : q[k] = p[k]
      BY <1>5, <3>2, <3>3, Prefix
    <3> QED BY <1>5, <3>2, <3>4
  <2> QED BY <2>1, <2>2
<1>8. Name(n) = q
  BY <1>1, <1>4, <1>6 DEF Name
<1>9. \A k \in 1 .. Len(q) : k \in 1 .. Len(s) /\ k < c /\ q[k] = s[k]
  BY <1>2, <1>3, <1>5, <1>7
<1>10. NoEqual(q)
  BY <1>1, <1>3, <1>9 DEF NoEqual
<1>11. NoComment(q)
  <2>1. SUFFICES ASSUME NEW k \in 2 .. Len(q), q[k - 1] = Blank, q[k] = Semicolon
                 PROVE  FALSE
    BY DEF NoComment
  <2>2. k \in 1 .. Len(q) /\ k - 1 \in 1 .. Len(q) /\ k > 1
    BY <1>7
  <2>3. s[k - 1] = Blank /\ s[k] = Semicolon /\ k \in 1 .. Len(s) /\ k < c
    BY <1>9, <2>1, <2>2
  <2> QED BY <1>3, <2>2, <2>3
<1> QED BY <1>8, <1>10, <1>11

(* Folding moves no character, and leaves those that are special.            *)
LEMMA SameSpecials ==
    ASSUME IniFileAssumption, NEW sec \in Texts, NEW x \in Texts, NEW y \in Texts,
           MakeKey(sec, x) = MakeKey(sec, y)
    PROVE  (NoEqual(x) => NoEqual(y)) /\ (NoComment(x) => NoComment(y))
<1> DEFINE A == Chars \cup Special \cup {NewLine}
           a == sec \o <<Equal>>
           F(s) == [k \in 1 .. Len(s) |-> IF s[k] \in Chars THEN Lower[s[k]] ELSE s[k]]
<1>1. PICK m : m = Len(a)
  OBVIOUS
<1>2. a \in Seq(A) /\ x \in Seq(A) /\ y \in Seq(A) /\ m \in Nat
  <2>1. a \in Seq(A)
    BY DEF Texts, Special
  <2> QED BY <1>1, <2>1 DEF Texts
<1> HIDE DEF A, a
<1>3. /\ Len(a \o x) = m + Len(x) /\ \A k \in 1 .. Len(x) : (a \o x)[m + k] = x[k]
      /\ Len(a \o y) = m + Len(y) /\ \A k \in 1 .. Len(y) : (a \o y)[m + k] = y[k]
  BY <1>1, <1>2, Joining
<1>4. F(a \o x) = F(a \o y)
  BY DEF MakeKey, Fold, a
<1>5. Len(x) \in Nat /\ Len(y) \in Nat
  BY <1>2
<1>6. DOMAIN F(a \o x) = 1 .. m + Len(x) /\ DOMAIN F(a \o y) = 1 .. m + Len(y)
  BY <1>3
<1>7. Len(x) = Len(y)
  <2> HIDE DEF F
  <2>1. 1 .. m + Len(x) = 1 .. m + Len(y)
    BY <1>4, <1>6
  <2> QED BY <1>2, <1>5, <2>1
<1>8. ASSUME NEW k \in 1 .. Len(y)
      PROVE  y[k] = x[k] \/ (x[k] \in Chars /\ y[k] \in Chars)
  <2>1. m + k \in 1 .. m + Len(x) /\ m + k \in 1 .. m + Len(y) /\ k \in 1 .. Len(x)
    BY <1>2, <1>5, <1>7
  <2>2. /\ F(a \o x)[m + k] = IF x[k] \in Chars THEN Lower[x[k]] ELSE x[k]
        /\ F(a \o y)[m + k] = IF y[k] \in Chars THEN Lower[y[k]] ELSE y[k]
    BY <1>3, <2>1
  <2>3. (IF x[k] \in Chars THEN Lower[x[k]] ELSE x[k])
            = IF y[k] \in Chars THEN Lower[y[k]] ELSE y[k]
    BY <1>4, <2>2
  <2>4. \A c \in Chars : Lower[c] \in Chars
    BY DEF IniFileAssumption
  <2> QED BY <2>3, <2>4
<1>9. ASSUME NoEqual(x) PROVE NoEqual(y)
  <2>1. SUFFICES ASSUME NEW k \in 1 .. Len(y), y[k] \in {Equal, Colon} PROVE FALSE
    BY DEF NoEqual
  <2>2. y[k] \notin Chars
    BY <2>1, Distinct
  <2>3. x[k] \in {Equal, Colon} /\ k \in 1 .. Len(x)
    BY <1>7, <1>8, <2>1, <2>2
  <2> QED BY <1>9, <2>3 DEF NoEqual
<1>10. ASSUME NoComment(x) PROVE NoComment(y)
  <2>1. SUFFICES ASSUME NEW k \in 2 .. Len(y), y[k - 1] = Blank, y[k] = Semicolon PROVE FALSE
    BY DEF NoComment
  <2>2. y[k] \notin Chars /\ y[k - 1] \notin Chars
    BY <2>1, Distinct
  <2>3. k \in 1 .. Len(y) /\ k - 1 \in 1 .. Len(y)
    BY <1>5
  <2>4. x[k - 1] = Blank /\ x[k] = Semicolon /\ k \in 2 .. Len(x)
    BY <1>7, <1>8, <2>1, <2>2, <2>3
  <2> QED BY <1>10, <2>4 DEF NoComment
<1> QED BY <1>9, <1>10

LEMMA BracketedIsPlain ==
    ASSUME NEW s \in Texts
    PROVE  (NoEqual(Bracketed(s)) => NoEqual(s)) /\ (NoComment(Bracketed(s)) => NoComment(s))
<1>1. PICK b, K : b = Bracketed(s) /\ K = Len(s) /\ K \in Nat
  <2>1. Len(s) \in Nat
    BY DEF Texts
  <2> QED BY <2>1
<1>2. Len(b) = K + 2 /\ \A k \in 1 .. K : b[k + 1] = s[k] /\ k + 1 \in 1 .. Len(b)
  BY <1>1, BracketedIs
<1>3. ASSUME NoEqual(b) PROVE NoEqual(s)
  BY <1>1, <1>2, <1>3 DEF NoEqual
<1>4. ASSUME NoComment(b) PROVE NoComment(s)
  <2>1. SUFFICES ASSUME NEW k \in 2 .. Len(s), s[k - 1] = Blank, s[k] = Semicolon PROVE FALSE
    BY DEF NoComment
  <2>2. PICK l : l = k - 1
    OBVIOUS
  <2>3. /\ k \in 1 .. K /\ l \in 1 .. K /\ l + 1 = k
        /\ k + 1 \in 2 .. Len(b) /\ (k + 1) - 1 = k
    BY <1>1, <1>2, <2>2
  <2>4. b[k] = Blank /\ b[k + 1] = Semicolon
    BY <1>2, <2>1, <2>2, <2>3
  <2> QED BY <1>4, <2>3, <2>4 DEF NoComment
<1> QED BY <1>1, <1>3, <1>4

(* What get_ini makes of a value in angle brackets.                          *)
LEMMA BracketsOff ==
    ASSUME NEW s \in Texts
    PROVE  /\ Bracketed(s) # <<>> /\ Bracketed(s)[1] = Open /\ Last(Bracketed(s)) = Close
           /\ SubSeq(Bracketed(s), 2, Len(Bracketed(s)) - 1) = s
<1> DEFINE A == Chars \cup Special \cup {NewLine}
<1>1. PICK b, K : b = Bracketed(s) /\ K = Len(s) /\ K \in Nat
  <2>1. Len(s) \in Nat
    BY DEF Texts
  <2> QED BY <2>1
<1>2. /\ b \in Seq(A) /\ Len(b) = K + 2 /\ b[1] = Open /\ b[K + 2] = Close
      /\ \A k \in 1 .. K : b[k + 1] = s[k]
  BY <1>1, BracketedIs DEF Texts
<1>3. s \in Seq(A)
  BY DEF Texts
<1> HIDE DEF A
<1>4. b # <<>> /\ Last(b) = Close
  <2>1. Len(b) = K + 2 /\ K + 2 # 0
    BY <1>1, <1>2
  <2> QED BY <1>2, <2>1 DEF Last
<1>5. PICK w : w = SubSeq(b, 2, K + 1)
  OBVIOUS
<1>6. w \in Seq(A) /\ Len(w) = K /\ \A k \in 1 .. K : w[k] = s[k]
  <2>1. PICK l, r : l = 2 /\ r = K + 1
    OBVIOUS
  <2>2. l \in 1 .. Len(b) + 1 /\ r \in l - 1 .. Len(b) /\ r - l + 1 = K
    BY <1>1, <1>2, <2>1
  <2>3. /\ SubSeq(b, l, r) \in Seq(A) /\ Len(SubSeq(b, l, r)) = r - l + 1
        /\ \A k \in 1 .. r - l + 1 : SubSeq(b, l, r)[k] = b[l + k - 1]
    BY <1>2, <2>2, Pieces
  <2>4. \A k \in 1 .. K : l + k - 1 = k + 1
    BY <1>1, <2>1
  <2>5. w = SubSeq(b, l, r)
    BY <1>5, <2>1
  <2> QED BY <1>2, <2>2, <2>3, <2>4, <2>5
<1>7. w = s
  BY <1>1, <1>3, <1>6, SeqEqual
<1>8. Len(b) - 1 = K + 1
  BY <1>1, <1>2
<1> QED BY <1>1, <1>2, <1>4, <1>5, <1>7, <1>8

LEMMA OneLine ==
    ASSUME lines \in Seq(Texts), NEW n \in 1 .. Len(lines), Counts(n), NEW f, Chain(KeyAt(n), f),
           \A m \in 1 .. Len(lines) : Counts(m) /\ KeyAt(m) = KeyAt(n) => m = n
    PROVE  f[Len(lines)] = Value(n)
<1> DEFINE Is(j) == f[j] = IF j < n THEN <<>> ELSE Value(n)
           Wrong == {j \in 0 .. Len(lines) : ~ Is(j)}
<1>1. SUFFICES ASSUME Wrong # {} PROVE FALSE
  <2>1. Len(lines) \notin Wrong /\ Len(lines) \in 0 .. Len(lines) /\ ~ (Len(lines) < n)
    BY <1>1
  <2> QED BY <2>1
<1>2. Wrong \subseteq Nat /\ Wrong \subseteq 0 .. Len(lines) /\ Len(lines) \in Nat
  OBVIOUS
<1>3. PICK j \in Wrong : \A k \in Wrong : j <= k
  <2> HIDE DEF Wrong
  <2> QED BY <1>1, <1>2, LeastNat
<1>4. j \in 0 .. Len(lines) /\ ~ Is(j)
  OBVIOUS
<1>5. j # 0
  BY <1>4 DEF Chain
<1>6. j \in 1 .. Len(lines) /\ j - 1 \in 0 .. Len(lines) /\ ~ (j <= j - 1)
  BY <1>2, <1>4, <1>5
<1>7. Is(j - 1)
  BY <1>3, <1>6
<1>8. f[j] = IF Counts(j) /\ KeyAt(j) = KeyAt(n) THEN Joined(f[j - 1], Value(j)) ELSE f[j - 1]
  BY <1>6 DEF Chain
<1>9. CASE j = n
  <2>1. f[j - 1] = <<>>
    BY <1>6, <1>7, <1>9
  <2>2. f[n] = Value(n)
    BY <1>8, <1>9, <2>1 DEF Joined
  <2> QED BY <1>4, <1>9, <2>2
<1>10. CASE j # n
  <2>1. f[j] = f[j - 1]
    BY <1>6, <1>8, <1>10
  <2>2. j - 1 < n <=> j < n
    BY <1>6, <1>10
  <2> QED BY <1>4, <1>7, <2>1, <2>2
<1> QED BY <1>9, <1>10

LEMMA SectionIs ==
    ASSUME IniFileAssumption, lines \in Seq(Texts), NEW n \in 1 .. Len(lines)
    PROVE  SectionAt(n) \in Texts
<1> DEFINE H == {m \in 1 .. n : IsHeader(m) /\ Closed(m)}
<1>1. SectionAt(n) = IF H = {} THEN <<>> ELSE FirstOf(Header(Max(H)), MaxName)
  BY DEF SectionAt
<1>2. CASE H = {}
  BY <1>1, <1>2 DEF Texts
<1>3. CASE H # {}
  <2>1. H \subseteq Nat /\ n \in Nat /\ \A m \in H : m <= n
    OBVIOUS
  <2>2. Max(H) \in H
    <3> HIDE DEF H
    <3> QED BY <1>3, <2>1, MaxIsGreatest
  <2>3. IsHeader(Max(H)) /\ Max(H) \in 1 .. Len(lines)
    BY <2>2
  <2> HIDE DEF H
  <2>4. Header(Max(H)) \in Texts /\ MaxName \in Nat
    BY <2>3, HeaderIs DEF Here, IniFileAssumption
  <2>5. FirstOf(Header(Max(H)), MaxName) \in Texts
    BY <2>4, FirstOfIs DEF Texts
  <2> QED BY <1>1, <1>3, <2>5
<1> QED BY <1>2, <1>3

(* What is looked up under the key of a line that no other line shares.      *)
LEMMA OwnValue ==
    ASSUME IniFileAssumption, Readable, Meaning, AtEnd, Flat, NEW n \in 1 .. lineno, Counts(n),
           \A m \in Pairs : KeyAt(m) = KeyAt(n) => m = n
    PROVE  KeyAt(n) \in DOMAIN values /\ values[KeyAt(n)] = Value(n)
<1>1. lines \in Seq(Texts) /\ reading # "failed" /\ lineno = Len(lines)
  BY DEF Readable, IniTypeOK, AtEnd
<1>2. n \in 1 .. Len(lines)
  BY <1>1
<1>3. n \in Pairs /\ KeyAt(n) \in DOMAIN values
  BY <1>1, <1>2 DEF Meaning, Pairs
<1>4. PICK f : f = Written(KeyAt(n))
  OBVIOUS
<1>5. Chain(KeyAt(n), f)
  BY <1>1, <1>4, WrittenIsChain
<1>6. values[KeyAt(n)] = f[Len(lines)]
  BY <1>1, <1>3, <1>5 DEF Meaning, ValueOf
<1>7. \A m \in 1 .. Len(lines) : Counts(m) /\ KeyAt(m) = KeyAt(n) => m = n
  BY <1>1 DEF Pairs
<1>8. f[Len(lines)] = Value(n)
  BY <1>1, <1>2, <1>5, <1>7, OneLine
<1> QED BY <1>3, <1>6, <1>8

(* A rule with a plain key gives its value if that is plain too, and else    *)
(* something shorter or nothing.                                             *)
LEMMA PlainKey ==
    ASSUME IniFileAssumption, Readable, Meaning, AtEnd, Flat, NEW n \in 1 .. lineno,
           NEW key \in Texts, NEW value \in Texts,
           lines[n] = Rule(key, value), ~Overlong(n), NoEqual(key), NoComment(key),
           \A m \in Pairs : KeyAt(m) = MakeKey(SectionAt(n), Bracketed(key)) => m = n
    PROVE  /\ NoComment(value) => \A d : GetIni(SectionAt(n), key, d) = value
           /\ ~NoComment(value) =>
                  \/ \A d : GetIni(SectionAt(n), key, d) = d
                  \/ \A d : GetIni(SectionAt(n), key, d) # value
<1>1. lines \in Seq(Texts) /\ n \in 1 .. Len(lines)
  BY DEF Readable, IniTypeOK, AtEnd
<1>2. /\ Counts(n) /\ Name(n) = Bracketed(key)
      /\ NoComment(value) => Value(n) = Bracketed(value)
      /\ ~NoComment(value) => Len(Value(n)) < Len(value) + 2
  BY <1>1, RuleIs DEF Here
<1>3. MakeKey(SectionAt(n), <<Open>> \o key \o <<Close>>) = KeyAt(n)
      /\ MakeKey(SectionAt(n), Bracketed(key)) = KeyAt(n)
  BY <1>2 DEF KeyAt, Bracketed
<1>4. KeyAt(n) \in DOMAIN values /\ values[KeyAt(n)] = Value(n)
  BY <1>2, <1>3, OwnValue
<1>5. \A d : Get(SectionAt(n), <<Open>> \o key \o <<Close>>, d) = Value(n)
  BY <1>3, <1>4 DEF Get
<1>6. PICK v, L : v = Value(n) /\ L = Len(v)
  OBVIOUS
<1>7. \A d : GetIni(SectionAt(n), key, d) =
                 IF v = <<>> \/ v[1] # Open \/ Last(v) # Close THEN d ELSE SubSeq(v, 2, L - 1)
  <2>1. SUFFICES ASSUME NEW d
                 PROVE  GetIni(SectionAt(n), key, d) =
                            IF v = <<>> \/ v[1] # Open \/ Last(v) # Close THEN d
                            ELSE SubSeq(v, 2, L - 1)
    OBVIOUS
  <2>2. Get(SectionAt(n), <<Open>> \o key \o <<Close>>, d) = v
    BY <1>5, <1>6
  <2> QED BY <1>6, <2>2, Zenon DEF GetIni
<1>8. ASSUME NoComment(value) PROVE \A d : GetIni(SectionAt(n), key, d) = value
  <2>1. v = Bracketed(value)
    BY <1>2, <1>6, <1>8
  <2>2. v # <<>> /\ v[1] = Open /\ Last(v) = Close /\ SubSeq(v, 2, L - 1) = value
    BY <1>6, <2>1, BracketsOff
  <2> QED BY <1>7, <2>2
<1>9. ASSUME ~NoComment(value), v # <<>>, v[1] = Open, Last(v) = Close
      PROVE  SubSeq(v, 2, L - 1) # value
  <2>1. v \in Texts
    BY <1>1, <1>6, NameIs DEF Here
  <2>2. PICK A : Texts = Seq(A)
    BY DEF Texts
  <2>3. L \in Nat /\ L >= 1 /\ Len(value) \in Nat /\ L < Len(value) + 2
    BY <1>2, <1>6, <1>9, <2>1, <2>2
  <2>4. CASE L = 1
    <3>1. Len(value) >= 2
      <4>1. PICK k \in 2 .. Len(value) : TRUE
        BY <1>9 DEF NoComment
      <4> QED BY <2>3, <4>1
    <3>2. SubSeq(v, 2, 0) = <<>> /\ L - 1 = 0
      BY <2>1, <2>2, <2>4
    <3> QED BY <3>1, <3>2
  <2>5. CASE L >= 2
    <3>1. 2 \in 1 .. L + 1 /\ L - 1 \in 2 - 1 .. L /\ (L - 1) - 2 + 1 = L - 2
      BY <2>3, <2>5
    <3>2. Len(SubSeq(v, 2, L - 1)) = L - 2
      BY <1>6, <2>1, <2>2, <3>1, Pieces
    <3> QED BY <2>3, <3>2
  <2> QED BY <2>3, <2>4, <2>5
<1> QED BY <1>7, <1>8, <1>9

(* A rule with any other key gives nothing: no line has its key, not even    *)
(* its own.                                                                  *)
LEMMA OtherKey ==
    ASSUME IniFileAssumption, Readable, Meaning, AtEnd, Flat, NEW n \in 1 .. lineno,
           NEW key \in Texts, ~ (NoEqual(key) /\ NoComment(key)),
           \A m \in Pairs : KeyAt(m) = MakeKey(SectionAt(n), Bracketed(key)) => m = n
    PROVE  \A d \in {<<>>, <<Blank>>} : GetIni(SectionAt(n), key, d) = d
<1>1. lines \in Seq(Texts) /\ n \in 1 .. Len(lines) /\ reading # "failed"
  BY DEF Readable, IniTypeOK, AtEnd
<1>2. SectionAt(n) \in Texts /\ Name(n) \in Texts /\ Bracketed(key) \in Texts
  <2>1. Len(key) \in Nat
    BY DEF Texts
  <2> QED BY <1>1, <2>1, SectionIs, NameIs, BracketedIs DEF Here
<1>3. KeyAt(n) # MakeKey(SectionAt(n), Bracketed(key))
  <2>1. SUFFICES ASSUME MakeKey(SectionAt(n), Name(n)) = MakeKey(SectionAt(n), Bracketed(key))
                 PROVE  FALSE
    BY DEF KeyAt
  <2>2. NoEqual(Name(n)) /\ NoComment(Name(n))
    BY <1>1, NameIsPlain DEF Here
  <2>3. NoEqual(Bracketed(key)) /\ NoComment(Bracketed(key))
    BY <1>2, <2>1, <2>2, SameSpecials
  <2> QED BY <2>3, BracketedIsPlain
<1>4. MakeKey(SectionAt(n), Bracketed(key)) \notin DOMAIN values
  BY <1>1, <1>3 DEF Meaning
<1>5. \A d : Get(SectionAt(n), <<Open>> \o key \o <<Close>>, d) = d
  BY <1>4 DEF Get, Bracketed
<1>6. ASSUME NEW d \in {<<>>, <<Blank>>} PROVE GetIni(SectionAt(n), key, d) = d
  <2>1. d = <<>> \/ d[1] # Open
    BY Distinct
  <2>2. Get(SectionAt(n), <<Open>> \o key \o <<Close>>, d) = d
    BY <1>5
  <2> QED BY <2>1, <2>2, Zenon DEF GetIni
<1> QED BY <1>6

(* Of the rules "<key> = <value>" that the help describes                    *)
(* (Renamer/Help.txt.in:18), those work, behind whatever bad lines, whose key*)
(* holds no '=' or ':' and whose parts hold no semicolon behind a blank, and *)
(* no others: for all files in which no line is indented, and all rules whose*)
(* keys no other line has.                                                   *)
THEOREM RulesAreFound == IniSpec => []RulesWork
<1>1. IniInit => Readable /\ Meaning
  BY IniFileAssumption, ReadableInit, MeaningInit
<1>2. Readable /\ Meaning /\ [IniNext]_iniVars => (Readable /\ Meaning)'
  BY IniFileAssumption, ReadableStep, MeaningStep
<1>3. Readable /\ Meaning => RulesWork
  <2>1. SUFFICES ASSUME Readable, Meaning, AtEnd, Flat,
                        NEW n \in 1 .. lineno, NEW b \in 1 .. MaxLine,
                        b <= Len(lines[n]) - 6,
                        NEW key, key = Key(n, b), NEW value, value = Behind(n, b),
                        IsRule(n, b)
                 PROVE  RuleWorks(n, b) <=> NoEqual(key) /\ NoComment(key) /\ NoComment(value)
    BY DEF RulesWork, Splits
  <2>2. /\ lines[n] = Rule(key, value) /\ ~Overlong(n)
        /\ \A m \in Pairs : KeyAt(m) = MakeKey(SectionAt(n), Bracketed(key)) => m = n
    BY <2>1 DEF IsRule
  <2>3. PICK s, L : s = lines[n] /\ L = Len(s)
    OBVIOUS
  <2>4. s \in Texts /\ L \in Nat
    <3>1. lines \in Seq(Texts) /\ n \in 1 .. Len(lines)
      BY <2>1 DEF Readable, IniTypeOK, AtEnd
    <3>2. s \in Texts
      BY <2>3, <3>1
    <3> QED BY <2>3, <3>2 DEF Texts
  <2>5. b \in Nat /\ 1 <= b /\ b <= L - 6
    BY <2>1, <2>3, <2>4, IniFileAssumption DEF IniFileAssumption
  <2>6. PICK l, r : l = b + 6 /\ r = L - 1
    OBVIOUS
  <2>7. /\ 2 \in 1 .. L + 1 /\ b \in 2 - 1 .. L
        /\ l \in 1 .. L + 1 /\ r \in l - 1 .. L
    BY <2>4, <2>5, <2>6
  <2>8. SubSeq(s, 2, b) \in Texts /\ SubSeq(s, l, r) \in Texts
    BY <2>3, <2>4, <2>7, Pieces DEF Texts
  <2>9. key \in Texts /\ value \in Texts
    BY <2>1, <2>3, <2>6, <2>8 DEF Key, Behind
  <2>10. RuleWorks(n, b) <=> /\ GetIni(SectionAt(n), key, <<>>) = value
                            /\ GetIni(SectionAt(n), key, <<Blank>>) = value
    BY <2>1 DEF RuleWorks
  <2>11. <<>> # <<Blank>>
    OBVIOUS
  <2>12. CASE NoEqual(key) /\ NoComment(key)
    <3>1. /\ NoComment(value) => \A d : GetIni(SectionAt(n), key, d) = value
          /\ ~NoComment(value) =>
                 \/ \A d : GetIni(SectionAt(n), key, d) = d
                 \/ \A d : GetIni(SectionAt(n), key, d) # value
      BY <2>1, <2>2, <2>9, <2>12, IniFileAssumption, PlainKey
    <3> QED BY <2>10, <2>11, <2>12, <3>1
  <2>13. CASE ~ (NoEqual(key) /\ NoComment(key))
    <3>1. \A d \in {<<>>, <<Blank>>} : GetIni(SectionAt(n), key, d) = d
      BY <2>1, <2>2, <2>9, <2>13, IniFileAssumption, OtherKey
    <3> QED BY <2>10, <2>11, <2>13, <3>1
  <2> QED BY <2>12, <2>13
<1> QED BY <1>1, <1>2, <1>3, PTL DEF IniSpec
=============================================================================
