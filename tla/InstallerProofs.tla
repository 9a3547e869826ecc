--------------------------- MODULE InstallerProofs ---------------------------
(* What Installer promises, for all directories, spellings, PATHs and bounds.*)
EXTENDS Installer, NatLemmas, SequenceTheorems, TLAPS

-----------------------------------------------------------------------------
(* Positions.                                                                *)

(* First finds the first place, where there is one.                          *)
LEMMA FirstIsFirst ==
    ASSUME NEW s \in Seq(Entries), NEW d, Contains(s, d)
    PROVE  /\ First(s, d) \in 1 .. Len(s)
           /\ s[First(s, d)] = d
           /\ \A j \in 1 .. First(s, d) - 1 : s[j] # d
<1> DEFINE T == {i \in 1 .. Len(s) : s[i] = d}
<1>1. T \subseteq Nat /\ T # {}
  BY DEF Contains
<1>2. PICK i \in T : \A j \in T : i <= j
  BY <1>1, LeastNat
<1>3. /\ i \in 1 .. Len(s) /\ s[i] = d
      /\ \A j \in 1 .. i - 1 : s[j] # d
  BY <1>2
<1> QED
  BY <1>3 DEF First

-----------------------------------------------------------------------------
(* What un.RemoveFromPath leaves.                                            *)

(* s without its place p, of which the first n entries are left.             *)
Without(s, p, n) == [i \in 1 .. n |-> IF i < p THEN s[i] ELSE s[i + 1]]

(* What is cut off at the end is the semicolon that was there, or put there. *)
LEMMA CutIsWithout ==
    ASSUME InstallerAssumption, NEW d \in Dirs,
           NEW s \in Seq(Entries), Contains(s, d)
    PROVE  LET n == IF s[Len(s)] = Empty THEN Len(s) - 2 ELSE Len(s) - 1
           IN  n \in Nat /\ Cut(s, d) = Without(s, First(s, d), n)
<1> DEFINE p == First(s, d)
           n == IF s[Len(s)] = Empty THEN Len(s) - 2 ELSE Len(s) - 1
           t == Closed(s)
<1>1. p \in 1 .. Len(s) /\ s[p] = d
  BY FirstIsFirst
<1>2. Empty # d /\ Empty \in Entries
  BY DEF InstallerAssumption, Entries
<1>3. Len(s) \in Nat /\ s # <<>>
  BY <1>1
<1>4. s[Len(s)] = Empty => p < Len(s)
  BY <1>1, <1>2, <1>3
<1>5. n \in Nat
  BY <1>1, <1>3, <1>4
<1>6. /\ t \in Seq(Entries) /\ Len(t) = n + 2 /\ p \in 1 .. n + 1
      /\ \A i \in 1 .. n + 1 : t[i] = s[i]
  BY <1>1, <1>2, <1>3, <1>4, <1>5 DEF Closed, Last
<1> DEFINE r == RemoveAt(t, p)
<1> HIDE DEF t, n, p
<1>7. /\ SubSeq(t, 1, p - 1) \in Seq(Entries)
      /\ Len(SubSeq(t, 1, p - 1)) = p - 1
      /\ \A i \in 1 .. p - 1 : SubSeq(t, 1, p - 1)[i] = t[i]
  BY <1>5, <1>6
<1>8. /\ SubSeq(t, p + 1, Len(t)) \in Seq(Entries)
      /\ Len(SubSeq(t, p + 1, Len(t))) = n + 2 - p
      /\ \A i \in 1 .. n + 2 - p : SubSeq(t, p + 1, Len(t))[i] = t[p + i]
  BY <1>5, <1>6
<1>9. /\ r \in Seq(Entries) /\ Len(r) = n + 1
      /\ \A i \in 1 .. n : r[i] = IF i < p THEN s[i] ELSE s[i + 1]
  <2>1. r \in Seq(Entries) /\ Len(r) = n + 1
    BY <1>5, <1>6, <1>7, <1>8 DEF RemoveAt
  <2>2. ASSUME NEW i \in 1 .. n, i < p PROVE r[i] = s[i]
    BY <2>2, <1>5, <1>6, <1>7, <1>8 DEF RemoveAt
  <2>3. ASSUME NEW i \in 1 .. n, ~ (i < p) PROVE r[i] = s[i + 1]
    <3> DEFINE a == SubSeq(t, 1, p - 1)
               b == SubSeq(t, p + 1, Len(t))
    <3>1. i - (p - 1) \in 1 .. n + 2 - p
      BY <2>3, <1>5, <1>6
    <3>2. /\ a \in Seq(Entries) /\ Len(a) = p - 1
          /\ b \in Seq(Entries) /\ Len(b) = n + 2 - p
          /\ b[i - (p - 1)] = t[p + (i - (p - 1))]
      BY <3>1, <1>7, <1>8
    <3>3. r = a \o b
      BY DEF RemoveAt
    <3> HIDE DEF a, b, r
    <3>4. r[i] = b[i - (p - 1)]
      BY <3>1, <3>2, <3>3, <2>3, <1>5, <1>6
    <3>5. t[p + (i - (p - 1))] = s[i + 1]
      BY <2>3, <1>5, <1>6
    <3> QED BY <3>2, <3>4, <3>5
  <2> QED BY <2>1, <2>2, <2>3
<1> HIDE DEF r
<1>10. Front(r) = [i \in 1 .. n |-> r[i]]
  BY <1>5, <1>9 DEF Front
<1>11. Front(r) = Without(s, p, n)
  BY <1>9, <1>10 DEF Without
<1>12. Cut(s, d) = Front(r)
  BY DEF Cut, r, t, p
<1> QED
  BY <1>5, <1>11, <1>12 DEF n, p

(* What Removed says of each entry of s: those before the place stay where   *)
(* they are, those behind it move up, and only empty ones are left out.      *)
Shortens(r, s, d, p, n) ==
    /\ p \in 1 .. Len(s) /\ s[p] = d
    /\ n \in Nat /\ n < Len(s)
    /\ r = Without(s, p, n)
    /\ \A i \in 1 .. Len(s) : i = p \/ s[i] = Empty \/ (IF i < p THEN i ELSE i - 1) <= n

LEMMA RemovedShortens ==
    ASSUME InstallerAssumption, NEW d \in Dirs,
           NEW s \in Seq(Entries), Contains(s, d)
    PROVE  /\ Removed(s, d) \in Seq(Entries) \ {<<Empty>>}
           /\ \E p, n \in Nat : Shortens(Removed(s, d), s, d, p, n)
<1> DEFINE p == First(s, d)
           n == IF s[Len(s)] = Empty THEN Len(s) - 2 ELSE Len(s) - 1
<1>1. n \in Nat /\ Cut(s, d) = Without(s, p, n)
  BY CutIsWithout
<1>2. p \in 1 .. Len(s) /\ s[p] = d /\ Len(s) \in Nat
  BY FirstIsFirst
<1>3. n < Len(s) /\ p \in Nat
  BY <1>1, <1>2
<1>4. \A i \in 1 .. Len(s) : i = p \/ s[i] = Empty \/ (IF i < p THEN i ELSE i - 1) <= n
  <2> SUFFICES ASSUME NEW i \in 1 .. Len(s), i # p, s[i] # Empty
               PROVE  (IF i < p THEN i ELSE i - 1) <= n
    OBVIOUS
  <2>1. CASE s[Len(s)] = Empty
    <3>1. n = Len(s) - 2 /\ i < Len(s)
      BY <2>1, <1>2
    <3>2. p < Len(s)
      BY <2>1, <1>2 DEF InstallerAssumption
    <3> QED BY <3>1, <3>2, <1>2
  <2>2. CASE s[Len(s)] # Empty
    <3>1. n = Len(s) - 1
      BY <2>2
    <3> QED BY <3>1, <1>2
  <2> QED BY <2>1, <2>2
<1>5. Without(s, p, n) \in Seq(Entries) /\ Len(Without(s, p, n)) = n
  <2> HIDE DEF n, p
  <2>1. \A i \in 1 .. n : Without(s, p, n)[i] \in Entries
    BY <1>1, <1>2, <1>3 DEF Without
  <2>2. Without(s, p, n) = [i \in 1 .. n |-> Without(s, p, n)[i]]
    BY DEF Without
  <2> QED BY <1>1, <2>1, <2>2
<1> HIDE DEF n, p
<1>6. CASE Cut(s, d) = <<Empty>>
  <2>1. Removed(s, d) = <<>>
    BY <1>6 DEF Removed
  <2>2. n = 1
    BY <1>1, <1>5, <1>6
  <2>3. Without(s, p, n)[1] = Empty
    BY <1>1, <1>6
  <2>4. (IF 1 < p THEN s[1] ELSE s[2]) = Empty
    BY <2>2, <2>3 DEF Without
  <2>5. Without(s, p, 0) = <<>>
    BY DEF Without
  <2>6. \A i \in 1 .. Len(s) : i = p \/ s[i] = Empty
    <3> SUFFICES ASSUME NEW i \in 1 .. Len(s), i # p, s[i] # Empty PROVE FALSE
      OBVIOUS
    <3>1. (IF i < p THEN i ELSE i - 1) <= 1
      BY <1>4, <2>2
    <3>2. CASE i < p
      <4>1. i = 1 /\ 1 < p
        BY <3>1, <3>2, <1>2
      <4> QED BY <4>1, <2>4
    <3>3. CASE i > p
      <4>1. i = 2 /\ p = 1
        BY <3>1, <3>3, <1>2
      <4> QED BY <4>1, <2>4
    <3> QED BY <3>2, <3>3, <1>2
  <2>7. Shortens(<<>>, s, d, p, 0)
    <3>1. 0 \in Nat /\ 0 < Len(s)
      BY <1>2
    <3>2. \A i \in 1 .. Len(s) : i = p \/ s[i] = Empty \/ (IF i < p THEN i ELSE i - 1) <= 0
      BY <2>6
    <3> QED BY <3>1, <3>2, <2>5, <1>2 DEF Shortens
  <2>8. <<>> \in Seq(Entries) \ {<<Empty>>}
    OBVIOUS
  <2> QED BY <2>1, <2>7, <2>8, <1>3
<1>7. CASE Cut(s, d) # <<Empty>>
  <2>1. Removed(s, d) = Without(s, p, n)
    BY <1>1, <1>7 DEF Removed
  <2>2. Shortens(Without(s, p, n), s, d, p, n)
    BY <1>1, <1>2, <1>3, <1>4 DEF Shortens
  <2> QED BY <2>1, <2>2, <1>1, <1>3, <1>5, <1>7
<1> QED BY <1>6, <1>7

(* No entry is left that was not there, and of two equal ones one is left;   *)
(* the directory itself is gone when it was there once.                      *)
LEMMA RemovedEntries ==
    ASSUME InstallerAssumption, NEW d \in Dirs,
           NEW s \in Seq(Entries), Contains(s, d),
           \A i, j \in 1 .. Len(s) : s[i] = s[j] /\ s[i] \in Dirs => i = j
    PROVE  LET r == Removed(s, d)
           IN  /\ \A i, j \in 1 .. Len(r) : r[i] = r[j] /\ r[i] \in Dirs => i = j
               /\ \A e : Contains(r, e) => Contains(s, e)
               /\ ~ Contains(r, d)
<1> DEFINE r == Removed(s, d)
<1>1. PICK p, n \in Nat : Shortens(r, s, d, p, n)
  BY RemovedShortens
<1> DEFINE at(i) == IF i < p THEN i ELSE i + 1
<1>2. /\ r = [i \in 1 .. n |-> s[at(i)]] /\ n < Len(s) /\ p \in 1 .. Len(s) /\ s[p] = d
      /\ Len(s) \in Nat /\ n \in Nat
  BY <1>1 DEF Shortens, Without
<1>3. Len(r) = n
  BY <1>2
<1>4. \A i \in 1 .. n : at(i) \in 1 .. Len(s) /\ at(i) # p /\ r[i] = s[at(i)]
  BY <1>2
<1>5. \A i, j \in 1 .. n : at(i) = at(j) => i = j
  OBVIOUS
<1> HIDE DEF r, at
<1>6. \A i, j \in 1 .. Len(r) : r[i] = r[j] /\ r[i] \in Dirs => i = j
  BY <1>3, <1>4, <1>5
<1>7. \A e : Contains(r, e) => Contains(s, e)
  BY <1>3, <1>4 DEF Contains
<1>8. ~ Contains(r, d)
  BY <1>2, <1>3, <1>4 DEF Contains
<1> QED BY <1>6, <1>7, <1>8 DEF r

(* The entries of other programs stay, and in their order, when a directory  *)
(* is taken out,                                                             *)
LEMMA RemovedKeepsOthers ==
    ASSUME InstallerAssumption, NEW d \in Dirs,
           NEW s \in Seq(Entries), Contains(s, d),
           NEW k \in Seq(Others), AreOthersOf(k, s)
    PROVE  AreOthersOf(k, Removed(s, d))
<1> DEFINE r == Removed(s, d)
<1>1. PICK p, n \in Nat : Shortens(r, s, d, p, n)
  BY RemovedShortens
<1>2. /\ r = [i \in 1 .. n |-> IF i < p THEN s[i] ELSE s[i + 1]]
      /\ n < Len(s) /\ p \in 1 .. Len(s) /\ s[p] = d /\ Len(s) \in Nat
      /\ \A i \in 1 .. Len(s) : i = p \/ s[i] = Empty \/ (IF i < p THEN i ELSE i - 1) <= n
  BY <1>1 DEF Shortens, Without
<1>3. Len(r) = n /\ Len(k) \in Nat
  BY <1>2
<1>4. PICK at \in [1 .. Len(k) -> 1 .. Len(s)] :
          /\ \A l, m \in 1 .. Len(k) : l < m => at[l] < at[m]
          /\ \A m \in 1 .. Len(k) : s[at[m]] = k[m]
          /\ \A i \in 1 .. Len(s) : s[i] \in Others <=> \E m \in 1 .. Len(k) : at[m] = i
  BY DEF AreOthersOf
<1> HIDE DEF r
<1>5. \A m \in 1 .. Len(k) : /\ at[m] \in 1 .. Len(s) /\ at[m] # p /\ k[m] \in Others
                             /\ s[at[m]] # Empty /\ s[at[m]] \in Others
  BY <1>2, <1>4 DEF InstallerAssumption
<1> DEFINE up == [m \in 1 .. Len(k) |-> IF at[m] < p THEN at[m] ELSE at[m] - 1]
<1>6. up \in [1 .. Len(k) -> 1 .. Len(r)]
  <2> SUFFICES ASSUME NEW m \in 1 .. Len(k)
               PROVE  (IF at[m] < p THEN at[m] ELSE at[m] - 1) \in 1 .. n
    BY <1>3
  <2>1. (IF at[m] < p THEN at[m] ELSE at[m] - 1) <= n
    BY <1>2, <1>5
  <2> QED BY <2>1, <1>2, <1>5
<1>7. \A l, m \in 1 .. Len(k) : l < m => up[l] < up[m]
  <2> SUFFICES ASSUME NEW l \in 1 .. Len(k), NEW m \in 1 .. Len(k), l < m
               PROVE  up[l] < up[m]
    OBVIOUS
  <2>1. at[l] < at[m]
    BY <1>4
  <2> QED BY <2>1, <1>2, <1>5
<1>8. \A m \in 1 .. Len(k) : r[up[m]] = k[m]
  <2> SUFFICES ASSUME NEW m \in 1 .. Len(k) PROVE r[up[m]] = k[m]
    OBVIOUS
  <2>1. up[m] \in 1 .. n
    BY <1>3, <1>6
  <2>2. r[up[m]] = s[at[m]]
    BY <2>1, <1>2, <1>5
  <2> QED BY <2>2, <1>4
<1>9. ASSUME NEW i \in 1 .. Len(r)
      PROVE  r[i] \in Others <=> \E m \in 1 .. Len(k) : up[m] = i
  <2> DEFINE j == IF i < p THEN i ELSE i + 1
  <2>1. j \in 1 .. Len(s) /\ r[i] = s[j] /\ j # p
    BY <1>2, <1>3
  <2>2. \A m \in 1 .. Len(k) : up[m] = i <=> at[m] = j
    BY <1>2, <1>3, <1>5
  <2> HIDE DEF j, up
  <2> QED BY <2>1, <2>2, <1>4
<1> HIDE DEF up
<1>10. \E f \in [1 .. Len(k) -> 1 .. Len(r)] :
           /\ \A l, m \in 1 .. Len(k) : l < m => f[l] < f[m]
           /\ \A m \in 1 .. Len(k) : r[f[m]] = k[m]
           /\ \A i \in 1 .. Len(r) : r[i] \in Others <=> \E m \in 1 .. Len(k) : f[m] = i
  BY <1>6, <1>7, <1>8, <1>9
<1> QED
  BY <1>10 DEF AreOthersOf, r

(* when one is put in behind them,                                           *)
LEMMA AddedKeepsOthers ==
    ASSUME NEW s \in Seq(Entries), NEW e, e \notin Others,
           NEW k \in Seq(Others), AreOthersOf(k, s)
    PROVE  AreOthersOf(k, Append(s, e))
<1> DEFINE r == Append(s, e)
<1>1. PICK at \in [1 .. Len(k) -> 1 .. Len(s)] :
          /\ \A l, m \in 1 .. Len(k) : l < m => at[l] < at[m]
          /\ \A m \in 1 .. Len(k) : s[at[m]] = k[m]
          /\ \A i \in 1 .. Len(s) : s[i] \in Others <=> \E m \in 1 .. Len(k) : at[m] = i
  BY DEF AreOthersOf
<1>2. /\ Len(r) = Len(s) + 1 /\ Len(s) \in Nat /\ r[Len(s) + 1] = e
      /\ \A i \in 1 .. Len(s) : r[i] = s[i]
  OBVIOUS
<1> HIDE DEF r
<1>3. at \in [1 .. Len(k) -> 1 .. Len(r)]
  BY <1>2
<1>4. \A m \in 1 .. Len(k) : r[at[m]] = k[m]
  BY <1>1, <1>2
<1>5. ASSUME NEW i \in 1 .. Len(r)
      PROVE  r[i] \in Others <=> \E m \in 1 .. Len(k) : at[m] = i
  <2>1. CASE i = Len(s) + 1
    <3>1. r[i] \notin Others /\ i \notin 1 .. Len(s)
      BY <2>1, <1>2
    <3> QED BY <3>1
  <2>2. CASE i \in 1 .. Len(s)
    BY <2>2, <1>1, <1>2
  <2> QED BY <2>1, <2>2, <1>2
<1> QED
  BY <1>1, <1>3, <1>4, <1>5 DEF AreOthersOf, r

(* and when another program puts in one of its own.                          *)
LEMMA ForeignKeepsOthers ==
    ASSUME NEW s \in Seq(Entries), NEW x \in Others,
           NEW k \in Seq(Others), AreOthersOf(k, s)
    PROVE  AreOthersOf(Append(k, x), Append(s, x))
<1> DEFINE r == Append(s, x)
           h == Append(k, x)
<1>1. PICK at \in [1 .. Len(k) -> 1 .. Len(s)] :
          /\ \A l, m \in 1 .. Len(k) : l < m => at[l] < at[m]
          /\ \A m \in 1 .. Len(k) : s[at[m]] = k[m]
          /\ \A i \in 1 .. Len(s) : s[i] \in Others <=> \E m \in 1 .. Len(k) : at[m] = i
  BY DEF AreOthersOf
<1>2. /\ Len(r) = Len(s) + 1 /\ Len(s) \in Nat /\ r[Len(s) + 1] = x
      /\ \A i \in 1 .. Len(s) : r[i] = s[i]
      /\ Len(h) = Len(k) + 1 /\ Len(k) \in Nat /\ h[Len(k) + 1] = x
      /\ \A i \in 1 .. Len(k) : h[i] = k[i]
  OBVIOUS
<1> HIDE DEF r, h
<1> DEFINE to == [m \in 1 .. Len(h) |-> IF m <= Len(k) THEN at[m] ELSE Len(s) + 1]
<1>3. /\ \A m \in 1 .. Len(k) : m \in 1 .. Len(h) /\ to[m] = at[m] /\ to[m] \in 1 .. Len(s)
      /\ to[Len(k) + 1] = Len(s) + 1
  BY <1>2
<1>4. to \in [1 .. Len(h) -> 1 .. Len(r)]
  BY <1>2
<1> HIDE DEF to
<1>5. \A l, m \in 1 .. Len(h) : l < m => to[l] < to[m]
  BY <1>1, <1>2, <1>3
<1>6. \A m \in 1 .. Len(h) : r[to[m]] = h[m]
  <2> SUFFICES ASSUME NEW m \in 1 .. Len(h) PROVE r[to[m]] = h[m]
    OBVIOUS
  <2>1. CASE m = Len(k) + 1
    BY <2>1, <1>2, <1>3
  <2>2. CASE m \in 1 .. Len(k)
    BY <2>2, <1>1, <1>2, <1>3
  <2> QED BY <2>1, <2>2, <1>2
<1>7. ASSUME NEW i \in 1 .. Len(r)
      PROVE  r[i] \in Others <=> \E m \in 1 .. Len(h) : to[m] = i
  <2>1. CASE i = Len(s) + 1
    BY <2>1, <1>2, <1>3
  <2>2. CASE i \in 1 .. Len(s)
    <3>1. (\E m \in 1 .. Len(h) : to[m] = i) <=> \E m \in 1 .. Len(k) : at[m] = i
      <4>1. /\ \A m \in 1 .. Len(h) : m \in 1 .. Len(k) \/ m = Len(k) + 1
            /\ to[Len(k) + 1] # i
        BY <2>2, <1>2, <1>3
      <4> QED BY <4>1, <1>3
    <3> QED BY <2>2, <3>1, <1>1, <1>2
  <2> QED BY <2>1, <2>2, <1>2
<1> QED
  BY <1>4, <1>5, <1>6, <1>7 DEF AreOthersOf, r, h

(* What was just put in is cut out without a trace.                          *)
LEMMA AddedIsRemoved ==
    ASSUME InstallerAssumption, NEW d \in Dirs,
           NEW s \in Seq(Entries) \ {<<Empty>>},
           ~ Contains(s, d), Fits(Append(s, d))
    PROVE  Removed(Added(s, d), d) = s
<1> DEFINE r == Append(s, d)
<1>1. Added(s, d) = r
  BY DEF Added
<1>2. /\ r \in Seq(Entries) /\ Len(r) = Len(s) + 1 /\ Len(s) \in Nat
      /\ r[Len(s) + 1] = d /\ \A i \in 1 .. Len(s) : r[i] = s[i] /\ s[i] # d
  BY DEF Contains, Entries
<1> HIDE DEF r
<1>3. Contains(r, d)
  BY <1>2 DEF Contains
<1>4. First(r, d) = Len(s) + 1
  BY <1>2, <1>3, FirstIsFirst
<1>5. Cut(r, d) = Without(r, Len(s) + 1, Len(s))
  <2>1. r[Len(r)] # Empty
    BY <1>2 DEF InstallerAssumption
  <2>2. Len(r) - 1 = Len(s)
    BY <1>2
  <2> QED BY <2>1, <2>2, <1>2, <1>3, <1>4, CutIsWithout
<1>6. Without(r, Len(s) + 1, Len(s)) = s
  <2>1. Without(r, Len(s) + 1, Len(s)) = [i \in 1 .. Len(s) |-> s[i]]
    BY <1>2 DEF Without
  <2> QED BY <2>1
<1> QED
  BY <1>1, <1>5, <1>6 DEF Removed

-----------------------------------------------------------------------------
(* Types.                                                                    *)

Paths == Seq(Entries) \ {<<Empty>>}

Steps == {"idle", "files", "uninstaller", "links", "path", "addpath", "menu", "key",
          "unkey", "unmenu", "unpath", "cutpath", "unlinks", "unfiles"}

(* TypeOK, the types of the history, and what a PATH in a variable is.       *)
Types ==
    /\ path \in Paths /\ read \in Paths /\ shells \subseteq Paths /\ path \in shells
    /\ files \in [Dirs -> SUBSET {"program", "uninstaller"}]
    /\ links \in Dirs \cup {Nowhere} /\ menu \in Dirs \cup {Nowhere}
    /\ key \in Dirs \cup {Nowhere}
    /\ dir \in Dirs /\ env \in shells /\ pc \in Steps
    /\ pc # "addpath" /\ pc # "cutpath" => read = <<>>
    /\ pc = "cutpath" => Contains(read, dir)
    /\ runs \in 0 .. MaxRuns /\ foreign \in 0 .. MaxForeign
    /\ kept \in Seq(Others)
    /\ stale \in BOOLEAN /\ raced \in BOOLEAN /\ cut \in BOOLEAN

-----------------------------------------------------------------------------
(* What a run knows of PATH.                                                 *)

(* Between reading and writing, what was read is PATH still, unless another  *)
(* program wrote it or it did not fit.                                       *)
ReadIsPath == pc \in {"addpath", "cutpath"} /\ ~raced /\ ~cut => read = path

Once(s) == \A i, j \in 1 .. Len(s) : s[i] = s[j] /\ s[i] \in Dirs => i = j

(* Without old environments and PATHs that are too long, the environment has *)
(* the directories that PATH has until it was looked at, and what is read    *)
(* has none of them twice, nor at all the one that is to be added.           *)
NothingTwice ==
    ~stale /\ ~cut =>
        /\ Once(path) /\ Once(read)
        /\ pc \in {"files", "uninstaller", "links", "path"} =>
               /\ Len(env) <= Len(path)
               /\ \A d \in Dirs : Contains(env, d) <=> Contains(path, d)
        /\ pc = "addpath" => ~Contains(read, dir)

(* The installer names its directory after the uninstaller is there, and the *)
(* uninstaller has withdrawn all the names before the files go.              *)
NamedWhileThere ==
    /\ pc \in {"links", "path", "addpath", "menu", "key"} => "uninstaller" \in files[dir]
    /\ pc \in {"unmenu", "unpath", "cutpath", "unlinks", "unfiles"} => key = Nowhere
    /\ pc \in {"unpath", "cutpath", "unlinks", "unfiles"} => menu = Nowhere
    /\ pc = "unfiles" => links = Nowhere
    /\ ~stale /\ ~cut =>
           /\ pc \in {"unlinks", "unfiles"} => ~Contains(path, dir)
           /\ \A d \in Dirs : Contains(read, d) => "uninstaller" \in files[d]

-----------------------------------------------------------------------------
(* Every variable keeps its type.                                            *)

LEMMA AppendedIsPath ==
    ASSUME NEW s \in Paths, NEW e \in Entries, e # Empty
    PROVE  Append(s, e) \in Paths
<1>1. Append(s, e) \in Seq(Entries) /\ Append(s, e)[Len(Append(s, e))] = e
  BY DEF Paths
<1>2. ASSUME Append(s, e) = <<Empty>> PROVE FALSE
  <2>1. Len(Append(s, e)) = 1 /\ Append(s, e)[1] = Empty
    BY <1>2
  <2> QED BY <1>1, <2>1
<1> QED BY <1>1, <1>2 DEF Paths

LEMMA NamesAreEntries ==
    InstallerAssumption =>
        /\ Dirs \subseteq Entries /\ Others \subseteq Entries
        /\ Empty \notin Dirs /\ Empty \notin Others /\ Dirs \cap Others = {}
BY DEF InstallerAssumption, Entries

LEMMA AddedIsPath ==
    ASSUME InstallerAssumption, NEW s \in Paths, NEW d \in Dirs
    PROVE  Added(s, d) \in Paths
BY AppendedIsPath, NamesAreEntries DEF Added

LEMMA ReadIsAPath ==
    ASSUME NEW s \in Paths
    PROVE  AsRead(s) \in Paths /\ (Fits(s) => AsRead(s) = s)
BY DEF AsRead, Paths

LEMMA TypesInit == InstallerAssumption /\ Init => Types
<1> SUFFICES ASSUME InstallerAssumption, Init PROVE Types
  OBVIOUS
<1>1. path \in Paths /\ <<>> \in Paths
  BY DEF Init, InstallerAssumption, Paths
<1>2. kept \in Seq(Others)
  BY DEF Init, BoundedSeq, SeqOf
<1>3. files \in [Dirs -> SUBSET {"program", "uninstaller"}]
  BY DEF Init
<1>4. runs \in 0 .. MaxRuns /\ foreign \in 0 .. MaxForeign
  BY DEF Init, InstallerAssumption
<1> QED
  BY <1>1, <1>2, <1>3, <1>4 DEF Init, Types, Steps

LEMMA TypesStep == InstallerAssumption /\ Types /\ [Next]_vars => Types'
<1> SUFFICES ASSUME InstallerAssumption, Types, [Next]_vars PROVE Types'
  OBVIOUS
<1> USE DEF machine, run, ghosts
<1>1. ASSUME NEW d \in Dirs, StartInstall(d) PROVE Types'
  BY <1>1 DEF StartInstall, Start, Types, Steps, InstallerAssumption
<1>2. ASSUME NEW d \in Dirs, StartUninstall(d) PROVE Types'
  BY <1>2 DEF StartUninstall, Start, Types, Steps, InstallerAssumption
<1>3. ASSUME CopyFiles PROVE Types'
  BY <1>3 DEF CopyFiles, Step, Types, Steps
<1>4. ASSUME WriteUninstaller PROVE Types'
  BY <1>4 DEF WriteUninstaller, Step, Types, Steps
<1>5. ASSUME CreateShortCuts PROVE Types'
  BY <1>5 DEF CreateShortCuts, Step, Types, Steps
<1>6. ASSUME AlreadyInPath PROVE Types'
  BY <1>6 DEF AlreadyInPath, Step, Types, Steps
<1>7. ASSUME AddReadsPath PROVE Types'
  <2>1. AsRead(path) \in Paths
    BY ReadIsAPath DEF Types
  <2> QED BY <1>7, <2>1 DEF AddReadsPath, Step, Note, Types, Steps
<1>8. ASSUME AddWritesPath PROVE Types'
  <2>1. Added(read, dir) \in Paths
    BY AddedIsPath DEF Types
  <2>2. <<>> \in Paths
    BY DEF Paths
  <2> QED BY <1>8, <2>1, <2>2 DEF AddWritesPath, Step, Store, Types, Steps
<1>9. ASSUME RegisterMenu PROVE Types'
  BY <1>9 DEF RegisterMenu, Step, Types, Steps
<1>10. ASSUME WriteUninstallKey PROVE Types'
  BY <1>10 DEF WriteUninstallKey, Step, Types, Steps
<1>11. ASSUME DeleteUninstallKey PROVE Types'
  BY <1>11 DEF DeleteUninstallKey, Step, Types, Steps
<1>12. ASSUME DeleteMenu PROVE Types'
  BY <1>12 DEF DeleteMenu, Step, Types, Steps
<1>13. ASSUME NotInPath PROVE Types'
  BY <1>13 DEF NotInPath, Step, Note, Types, Steps
<1>14. ASSUME RemoveReadsPath PROVE Types'
  <2>1. Contains(path, dir)
    <3>1. Contains(AsRead(path), dir)
      BY <1>14 DEF RemoveReadsPath
    <3>2. ~ Contains(<<>>, dir)
      BY DEF Contains
    <3> QED BY <3>1, <3>2 DEF AsRead
  <2> QED BY <1>14, <2>1 DEF RemoveReadsPath, Step, Types, Steps
<1>15. ASSUME RemoveWritesPath PROVE Types'
  <2>1. Removed(read, dir) \in Paths /\ <<>> \in Paths
    BY <1>15, RemovedShortens DEF RemoveWritesPath, Step, Types, Paths
  <2> QED BY <1>15, <2>1 DEF RemoveWritesPath, Step, Store, Types, Steps
<1>16. ASSUME RemoveShortCuts PROVE Types'
  BY <1>16 DEF RemoveShortCuts, Step, Types, Steps
<1>17. ASSUME UninstallEnds PROVE Types'
  BY <1>17 DEF UninstallEnds, Step, Types, Steps
<1>18. ASSUME NEW part, RemoveFile(part) PROVE Types'
  BY <1>18 DEF RemoveFile, Types, Steps
<1>19. ASSUME Kill PROVE Types'
  BY <1>19 DEF Kill, Types, Steps, Paths
<1>20. ASSUME NEW x \in Others, ForeignAppend(x) PROVE Types'
  <2>1. Append(path, x) \in Paths
    BY AppendedIsPath, NamesAreEntries DEF Types
  <2>2. foreign' \in 0 .. MaxForeign
    <3>1. foreign \in 0 .. MaxForeign /\ foreign < MaxForeign /\ foreign' = foreign + 1
      BY <1>20 DEF ForeignAppend, Types
    <3>2. MaxForeign \in Nat
      BY DEF InstallerAssumption
    <3> QED BY <3>1, <3>2
  <2>3. kept' \in Seq(Others)
    BY <1>20 DEF ForeignAppend, Types
  <2>4. path' \in Paths /\ path' \in shells' /\ shells' \subseteq Paths
    BY <1>20, <2>1 DEF ForeignAppend, Types
  <2> QED BY <1>20, <2>2, <2>3, <2>4 DEF ForeignAppend, Types
<1>21. ASSUME UNCHANGED vars PROVE Types'
  BY <1>21 DEF vars, Types
<1> QED
  BY <1>1, <1>2, <1>3, <1>4, <1>5, <1>6, <1>7, <1>8, <1>9, <1>10, <1>11, <1>12, <1>13,
     <1>14, <1>15, <1>16, <1>17, <1>18, <1>19, <1>20, <1>21 DEF Next, Rest

LEMMA AllTyped == Spec => []Types
BY TypesInit, TypesStep, InstallerAssumption, PTL DEF Spec

(* For all directories, spellings, first PATHs and bounds, every variable    *)
(* keeps its type.                                                           *)
THEOREM TypeCorrect == Spec => []TypeOK
<1>1. Types => TypeOK
  BY DEF Types, TypeOK, Paths
<1> QED BY <1>1, AllTyped, PTL

-----------------------------------------------------------------------------
(* However often one installs and uninstalls, and wherever a run is stopped, *)
(* the entries of other programs stay in PATH and in their order, for PATHs  *)
(* and strings of any length.                                                *)

OthersInv == Types /\ ReadIsPath /\ OthersKept

LEMMA OthersStep == InstallerAssumption /\ OthersInv /\ Types' /\ [Next]_vars => OthersInv'
<1> SUFFICES ASSUME InstallerAssumption, OthersInv, Types', [Next]_vars
             PROVE  ReadIsPath' /\ OthersKept'
  BY DEF OthersInv
<1> USE DEF machine, run, ghosts
<1>1. CASE UNCHANGED <<path, kept, raced>> /\ cut' = cut
           /\ (pc' \in {"addpath", "cutpath"} => pc' = pc /\ read' = read)
  BY <1>1 DEF OthersInv, ReadIsPath, OthersKept
<1>2. CASE AddReadsPath \/ NotInPath
  <2>1. /\ UNCHANGED <<path, kept, raced>>
        /\ cut' = (cut \/ ~Fits(Append(path, dir)))
        /\ \/ pc' = "addpath" /\ read' = AsRead(path)
           \/ pc' = "unlinks"
    BY <1>2 DEF AddReadsPath, NotInPath, Note, Step
  <2>2. Fits(Append(path, dir)) => Fits(path)
    BY DEF Fits, OthersInv, Types, Paths
  <2>3. ~cut' => ~cut /\ AsRead(path) = path
    BY <2>1, <2>2, ReadIsAPath DEF OthersInv, Types
  <2>4. OthersKept'
    BY <2>1, <2>3 DEF OthersInv, OthersKept
  <2> QED BY <2>1, <2>3, <2>4 DEF ReadIsPath
<1>3. CASE RemoveReadsPath
  BY <1>3 DEF RemoveReadsPath, OthersInv, ReadIsPath, OthersKept
<1>4. CASE AddWritesPath
  <2>1. pc' = "menu" /\ pc = "addpath" /\ path' = Added(read, dir) /\ UNCHANGED <<kept, raced, cut>>
    BY <1>4 DEF AddWritesPath, Step, Store
  <2>2. ~raced /\ ~cut => AreOthersOf(kept, Added(read, dir))
    <3> SUFFICES ASSUME ~raced, ~cut PROVE AreOthersOf(kept, Added(read, dir))
      OBVIOUS
    <3>1. AreOthersOf(kept, read)
      BY <2>1 DEF OthersInv, ReadIsPath, OthersKept
    <3>2. dir \notin Others
      BY NamesAreEntries DEF OthersInv, Types
    <3> QED BY <3>1, <3>2, AddedKeepsOthers DEF Added, OthersInv, Types, Paths
  <2> QED BY <2>1, <2>2 DEF ReadIsPath, OthersKept
<1>5. CASE RemoveWritesPath
  <2>1. /\ pc' = "unlinks" /\ pc = "cutpath" /\ path' = Removed(read, dir)
        /\ UNCHANGED <<kept, raced, cut>>
    BY <1>5 DEF RemoveWritesPath, Step, Store
  <2>2. ~raced /\ ~cut => AreOthersOf(kept, Removed(read, dir))
    <3> SUFFICES ASSUME ~raced, ~cut PROVE AreOthersOf(kept, Removed(read, dir))
      OBVIOUS
    <3>1. AreOthersOf(kept, read)
      BY <2>1 DEF OthersInv, ReadIsPath, OthersKept
    <3> QED BY <2>1, <3>1, RemovedKeepsOthers DEF OthersInv, Types, Paths
  <2> QED BY <2>1, <2>2 DEF ReadIsPath, OthersKept
<1>6. ASSUME NEW x \in Others, ForeignAppend(x) PROVE ReadIsPath' /\ OthersKept'
  <2>1. /\ path' = Append(path, x) /\ kept' = Append(kept, x) /\ UNCHANGED <<pc, cut>>
        /\ raced' = (raced \/ pc \in {"addpath", "cutpath"})
    BY <1>6 DEF ForeignAppend
  <2>2. AreOthersOf(kept, path) => AreOthersOf(Append(kept, x), Append(path, x))
    BY ForeignKeepsOthers DEF OthersInv, Types, Paths
  <2> QED BY <2>1, <2>2 DEF OthersInv, ReadIsPath, OthersKept
<1>7. ASSUME Next, ~ (AddReadsPath \/ NotInPath), ~ RemoveReadsPath, ~ AddWritesPath,
             ~ RemoveWritesPath, \A x \in Others : ~ ForeignAppend(x)
      PROVE  UNCHANGED <<path, kept, raced>> /\ cut' = cut
             /\ (pc' \in {"addpath", "cutpath"} => pc' = pc /\ read' = read)
  BY <1>7 DEF Next, StartInstall, StartUninstall, Start, CopyFiles, WriteUninstaller,
     CreateShortCuts, AlreadyInPath, RegisterMenu, WriteUninstallKey, DeleteUninstallKey,
     DeleteMenu, RemoveShortCuts, UninstallEnds, RemoveFile, Kill, Rest, Step, vars
<1>8. CASE UNCHANGED vars
  BY <1>1, <1>8 DEF vars
<1> QED
  BY <1>1, <1>2, <1>3, <1>4, <1>5, <1>6, <1>7, <1>8

(* No other program's entry leaves PATH or its place among the others, unless*)
(* that program writes PATH between a run's reading and writing, or PATH is  *)
(* too long for a string of the installer (AddToPath, un.RemoveFromPath).    *)
THEOREM OthersAreKept == Spec => []OthersKept
<1>1. Init => ReadIsPath /\ OthersKept
  BY DEF Init, ReadIsPath, OthersKept
<1>2. OthersInv => OthersKept
  BY DEF OthersInv
<1>3. Init => OthersInv
  BY <1>1, TypesInit, InstallerAssumption DEF OthersInv
<1> QED
  BY <1>2, <1>3, OthersStep, AllTyped, InstallerAssumption, PTL DEF Spec

-----------------------------------------------------------------------------
(* un.RemoveFromPath takes out without a trace what AddToPath puts in, on    *)
(* every PATH that comes about.  The one sequence that does not come back is *)
(* <<Empty>>, which is no string and which no step makes.                    *)
THEOREM AddingIsUndone == Spec => []RoundTrip
<1>1. InstallerAssumption /\ Types => RoundTrip
  BY AddedIsRemoved DEF Types, Paths, RoundTrip
<1> QED BY <1>1, AllTyped, InstallerAssumption, PTL

-----------------------------------------------------------------------------
(* Without environments older than the registry, and PATHs that are too long,*)
(* no directory is in PATH twice.                                            *)

OnceInv == Types /\ NothingTwice

LEMMA AppendedOnce ==
    ASSUME InstallerAssumption, NEW s \in Paths, NEW e, Once(s),
           e \in Dirs => ~ Contains(s, e)
    PROVE  /\ Once(Append(s, e))
           /\ \A d : Contains(Append(s, e), d) <=> Contains(s, d) \/ d = e
<1>1. /\ Len(Append(s, e)) = Len(s) + 1 /\ Len(s) \in Nat /\ Append(s, e)[Len(s) + 1] = e
      /\ \A i \in 1 .. Len(s) : Append(s, e)[i] = s[i]
  BY DEF Paths
<1>2. \A i \in 1 .. Len(s) + 1 : i \in 1 .. Len(s) \/ i = Len(s) + 1
  BY <1>1
<1> QED
  BY <1>1, <1>2 DEF Once, Contains

(* What once made a PATH too long, or an environment old, is not forgotten.  *)
LEMMA HistoryStays == Types /\ [Next]_vars => (stale => stale') /\ (cut => cut')
<1> SUFFICES ASSUME Types, [Next]_vars PROVE (stale => stale') /\ (cut => cut')
  OBVIOUS
<1> USE DEF run, ghosts
<1>1. ASSUME NEW d \in Dirs, StartInstall(d) \/ StartUninstall(d)
      PROVE  (stale => stale') /\ UNCHANGED cut
  <2>1. stale' = stale \/ stale' = (stale \/ env' # path)
    BY <1>1 DEF StartInstall, StartUninstall, Start
  <2>2. stale => stale'
    BY <2>1, Zenon
  <2>3. UNCHANGED cut
    BY <1>1 DEF StartInstall, StartUninstall, Start
  <2> QED BY <2>2, <2>3
<1>2. CASE \/ CopyFiles \/ WriteUninstaller \/ CreateShortCuts \/ AlreadyInPath \/ AddWritesPath
           \/ RegisterMenu \/ WriteUninstallKey \/ DeleteUninstallKey \/ DeleteMenu
           \/ RemoveReadsPath \/ RemoveWritesPath \/ RemoveShortCuts \/ UninstallEnds \/ Kill
  <2>1. UNCHANGED <<stale, cut>>
    BY <1>2 DEF CopyFiles, WriteUninstaller, CreateShortCuts, AlreadyInPath, AddWritesPath,
       RegisterMenu, WriteUninstallKey, DeleteUninstallKey, DeleteMenu, RemoveReadsPath,
       RemoveWritesPath, RemoveShortCuts, UninstallEnds, Kill
  <2> QED BY <2>1
<1>3. CASE AddReadsPath \/ NotInPath
  <2>1. stale' = stale /\ cut' = (cut \/ ~Fits(Append(path, dir)))
    BY <1>3 DEF AddReadsPath, NotInPath, Note
  <2> QED BY <2>1, Zenon
<1>4. CASE \E part \in {"program", "uninstaller"} : RemoveFile(part)
  BY <1>4 DEF RemoveFile
<1>5. ASSUME NEW x \in Others, ForeignAppend(x) PROVE UNCHANGED <<stale, cut>>
  BY <1>5 DEF ForeignAppend
<1>6. CASE UNCHANGED vars
  BY <1>6 DEF vars
<1> QED
  BY <1>1, <1>2, <1>3, <1>4, <1>5, <1>6 DEF Next, Rest

LEMMA OnceStep == InstallerAssumption /\ OnceInv /\ Types' /\ [Next]_vars => OnceInv'
<1> SUFFICES ASSUME InstallerAssumption, Types, Types', [Next]_vars, NothingTwice
             PROVE  NothingTwice'
  BY DEF OnceInv
<1>0. SUFFICES ASSUME ~ stale', ~ cut'
               PROVE  /\ Once(path') /\ Once(read')
                      /\ pc' \in {"files", "uninstaller", "links", "path"} =>
                             /\ Len(env') <= Len(path')
                             /\ \A d \in Dirs : Contains(env', d) <=> Contains(path', d)
                      /\ pc' = "addpath" => ~ Contains(read', dir')
  BY DEF NothingTwice
<1> USE DEF machine, run, ghosts
<1>a. ~ stale /\ ~ cut
  BY <1>0, HistoryStays
<1>b. /\ Once(path) /\ Once(read) /\ Once(<<>>)
      /\ pc \in {"files", "uninstaller", "links", "path"} =>
             /\ Len(env) <= Len(path)
             /\ \A d \in Dirs : Contains(env, d) <=> Contains(path, d)
      /\ pc = "addpath" => ~ Contains(read, dir)
  BY <1>a DEF NothingTwice, Once
<1>1. ASSUME NEW d \in Dirs, StartInstall(d)
      PROVE  UNCHANGED <<path, read>> /\ pc' = "files" /\ env' = path
  BY <1>0, <1>1 DEF StartInstall, Start
<1>2. ASSUME NEW d \in Dirs, StartUninstall(d)
      PROVE  UNCHANGED <<path, read>> /\ pc' = "unkey"
  BY <1>2 DEF StartUninstall, Start
<1>3. CASE CopyFiles \/ WriteUninstaller \/ CreateShortCuts
  BY <1>3, <1>b DEF CopyFiles, WriteUninstaller, CreateShortCuts, Step
<1>4. CASE \/ AlreadyInPath \/ RegisterMenu \/ WriteUninstallKey \/ DeleteUninstallKey
           \/ DeleteMenu \/ NotInPath \/ RemoveShortCuts \/ UninstallEnds
  BY <1>4, <1>b DEF AlreadyInPath, RegisterMenu, WriteUninstallKey, DeleteUninstallKey,
     DeleteMenu, NotInPath, RemoveShortCuts, UninstallEnds, Step
<1>5. CASE AddReadsPath
  <2>1. /\ pc = "path" /\ pc' = "addpath" /\ UNCHANGED <<path, dir, env>>
        /\ read' = AsRead(path) /\ ~ InEnvironment(dir, env) /\ Fits(Append(path, dir))
    BY <1>5, <1>0 DEF AddReadsPath, Step, Note
  <2>2. Fits(path) /\ Fits(env)
    <3>1. Len(env) <= Len(path) /\ Len(path) \in Nat /\ Len(env) \in Nat
          /\ Len(Append(path, dir)) = Len(path) + 1 /\ MaxString \in Nat
      BY <2>1, <1>b DEF Types, Paths, InstallerAssumption
    <3> QED BY <2>1, <3>1 DEF Fits
  <2>3. read' = path
    BY <2>1, <2>2 DEF AsRead
  <2>4. ~ Contains(env, dir)
    BY <2>1, <2>2 DEF InEnvironment, Contains
  <2>5. ~ Contains(path, dir)
    BY <2>1, <2>4, <1>b DEF Types
  <2> QED BY <2>1, <2>3, <2>5, <1>b
<1>6. CASE AddWritesPath
  <2>1. /\ pc = "addpath" /\ pc' = "menu" /\ path' = Added(read, dir) /\ read' = <<>>
    BY <1>6 DEF AddWritesPath, Step, Store
  <2>2. Once(Added(read, dir))
    <3>1. read \in Paths /\ ~ Contains(read, dir) /\ Once(read)
      BY <2>1, <1>b DEF Types
    <3> QED BY <3>1, AppendedOnce DEF Added
  <2> QED BY <2>1, <2>2, <1>b
<1>7. CASE RemoveReadsPath
  BY <1>7, <1>b DEF RemoveReadsPath, Step
<1>8. CASE RemoveWritesPath
  <2>1. /\ pc = "cutpath" /\ pc' = "unlinks" /\ path' = Removed(read, dir) /\ read' = <<>>
    BY <1>8 DEF RemoveWritesPath, Step, Store
  <2>2. dir \in Dirs /\ read \in Seq(Entries) /\ Contains(read, dir)
    BY <2>1 DEF Types, Paths
  <2>3. Once(Removed(read, dir))
    BY <2>2, <1>b, RemovedEntries DEF Once
  <2> QED BY <2>1, <2>3, <1>b
<1>9. CASE \E part \in {"program", "uninstaller"} : RemoveFile(part)
  BY <1>9, <1>b DEF RemoveFile
<1>10. CASE Kill
  BY <1>10, <1>b DEF Kill
<1>11. ASSUME NEW x \in Others, ForeignAppend(x)
       PROVE  /\ Once(path') /\ (Len(env) <= Len(path) => Len(env) <= Len(path'))
              /\ \A d \in Dirs : Contains(path', d) <=> Contains(path, d)
              /\ UNCHANGED <<pc, dir, env, read>>
  <2>1. path' = Append(path, x) /\ UNCHANGED <<pc, dir, env, read>>
    BY <1>11 DEF ForeignAppend
  <2>2. x \notin Dirs
    BY NamesAreEntries
  <2>3. /\ Once(Append(path, x))
        /\ \A d : Contains(Append(path, x), d) <=> Contains(path, d) \/ d = x
    BY <2>2, <1>b, AppendedOnce DEF Types
  <2>4. Len(env) <= Len(path) => Len(env) <= Len(Append(path, x))
    <3>1. Len(path) \in Nat /\ Len(env) \in Nat /\ Len(Append(path, x)) = Len(path) + 1
      BY DEF Types, Paths
    <3> QED BY <3>1
  <2> QED BY <2>1, <2>2, <2>3, <2>4
<1>12. CASE UNCHANGED vars
  BY <1>12, <1>b DEF vars
<1>13. ASSUME NEW d \in Dirs, StartInstall(d) \/ StartUninstall(d)
       PROVE  /\ Once(path') /\ Once(read')
              /\ pc' \in {"files", "uninstaller", "links", "path"} =>
                     /\ Len(env') <= Len(path')
                     /\ \A e \in Dirs : Contains(env', e) <=> Contains(path', e)
              /\ pc' = "addpath" => ~ Contains(read', dir')
  BY <1>1, <1>2, <1>13, <1>b DEF Types, Paths
<1>14. CASE \E x \in Others : ForeignAppend(x)
  <2>1. PICK x \in Others : ForeignAppend(x)
    BY <1>14
  <2>2. /\ Once(path') /\ (Len(env) <= Len(path) => Len(env) <= Len(path'))
        /\ \A d \in Dirs : Contains(path', d) <=> Contains(path, d)
        /\ pc' = pc /\ dir' = dir /\ env' = env /\ read' = read
    BY <2>1, <1>11
  <2>3. /\ Once(read')
        /\ pc' = "addpath" => ~ Contains(read', dir')
    BY <2>2, <1>b
  <2>4. pc' \in {"files", "uninstaller", "links", "path"} => Len(env') <= Len(path')
    BY <2>2, <1>b
  <2>5. pc' \in {"files", "uninstaller", "links", "path"} =>
            \A d \in Dirs : Contains(env', d) <=> Contains(path', d)
    BY <2>2, <1>b
  <2> QED BY <2>2, <2>3, <2>4, <2>5
<1> QED
  BY <1>3, <1>4, <1>5, <1>6, <1>7, <1>8, <1>9, <1>10, <1>12, <1>13, <1>14 DEF Next, Rest

LEMMA OnceInit == InstallerAssumption /\ Init => OnceInv
<1> SUFFICES ASSUME InstallerAssumption, Init PROVE NothingTwice
  BY TypesInit DEF OnceInv
<1>1. path \in Seq(Entries \ Dirs) /\ read = <<>> /\ env = path /\ pc = "idle"
  BY DEF Init, InstallerAssumption
<1>2. Once(path)
  BY <1>1 DEF Once
<1>3. Once(read)
  BY <1>1 DEF Once
<1> QED BY <1>1, <1>2, <1>3 DEF NothingTwice

LEMMA AllOnce == Spec => []OnceInv
BY OnceInit, OnceStep, AllTyped, InstallerAssumption, PTL DEF Spec

(* With environments that are up to date, and a PATH that is not cut,        *)
(* AddToPath enters no directory that PATH has, for any number of            *)
(* directories, runs and interruptions.                                      *)
THEOREM EnteredOnce == Spec => []PathHasItOnce
<1>1. OnceInv => PathHasItOnce
  BY DEF OnceInv, NothingTwice, PathHasItOnce, Once
<1> QED BY <1>1, AllOnce, PTL

-----------------------------------------------------------------------------
(* Wherever a run is stopped, what still names a directory has its           *)
(* uninstaller: the start menu, the right-click menu, the list of programs   *)
(* and, without old environments and PATHs that are too long, PATH.          *)

UninstallableInv == OnceInv /\ NamedWhileThere /\ Uninstallable

There(d) == "uninstaller" \in files[d]

LEMMA UninstallableStep ==
    InstallerAssumption /\ UninstallableInv /\ OnceInv' /\ [Next]_vars => UninstallableInv'
<1> SUFFICES ASSUME InstallerAssumption, Types, NothingTwice, NamedWhileThere, Uninstallable,
                    [Next]_vars
             PROVE  NamedWhileThere' /\ Uninstallable'
  BY DEF UninstallableInv, OnceInv
<1> USE DEF machine, run, ghosts
<1> DEFINE Good == ~ stale /\ ~ cut
<1>a. Good' => Good
  BY HistoryStays
<1>b. /\ \A d \in Dirs : d = links \/ d = menu \/ d = key => There(d)
      /\ Good => \A d \in Dirs : Contains(path, d) \/ Contains(read, d) => There(d)
  BY DEF There, NamedWhileThere, Uninstallable
<1>c. /\ dir \in Dirs /\ dir # Nowhere
      /\ files \in [Dirs -> SUBSET {"program", "uninstaller"}]
  BY DEF Types, InstallerAssumption
<1>d. \A e : ~ Contains(<<>>, e)
  BY DEF Contains
(* What is to be shown of a step, and that it follows from the step's parts. *)
<1> DEFINE Names == \A d \in Dirs : d = links' \/ d = menu' \/ d = key' => There(d)'
           InPath == Good' => \A d \in Dirs : Contains(path', d) \/ Contains(read', d) => There(d)'
           Behind == /\ pc' \in {"links", "path", "addpath", "menu", "key"} => There(dir)'
                     /\ pc' \in {"unmenu", "unpath", "cutpath", "unlinks", "unfiles"} =>
                            key' = Nowhere
                     /\ pc' \in {"unpath", "cutpath", "unlinks", "unfiles"} => menu' = Nowhere
                     /\ pc' = "unfiles" => links' = Nowhere
                     /\ Good' /\ pc' \in {"unlinks", "unfiles"} => ~ Contains(path', dir')
<1>e. ASSUME Names, InPath, Behind PROVE NamedWhileThere' /\ Uninstallable'
  BY <1>e DEF There, NamedWhileThere, Uninstallable
<1> SUFFICES Names /\ InPath /\ Behind
  BY <1>e
<1>f. /\ pc \in {"links", "path", "addpath", "menu", "key"} => There(dir)
      /\ pc \in {"unmenu", "unpath", "cutpath", "unlinks", "unfiles"} => key = Nowhere
      /\ pc \in {"unpath", "cutpath", "unlinks", "unfiles"} => menu = Nowhere
      /\ pc = "unfiles" => links = Nowhere
      /\ Good /\ pc \in {"unlinks", "unfiles"} => ~ Contains(path, dir)
  BY DEF There, NamedWhileThere
<1> HIDE DEF Good
<1>1. ASSUME NEW d \in Dirs, StartInstall(d) \/ StartUninstall(d)
      PROVE  Names /\ InPath /\ Behind
  <2>1. UNCHANGED <<path, read, files, links, menu, key>> /\ pc' \in {"files", "unkey"}
    BY <1>1 DEF StartInstall, StartUninstall, Start
  <2> QED BY <2>1, <1>a, <1>b DEF There
<1>2. CASE CopyFiles
  <2>1. /\ UNCHANGED <<path, read, dir, links, menu, key>> /\ pc' = "uninstaller"
        /\ files' = [files EXCEPT ![dir] = @ \cup {"program"}]
    BY <1>2 DEF CopyFiles, Step
  <2>2. \A d \in Dirs : There(d) => There(d)'
    BY <2>1, <1>c DEF There
  <2> QED BY <2>1, <2>2, <1>a, <1>b
<1>3. CASE WriteUninstaller
  <2>1. /\ UNCHANGED <<path, read, dir, links, menu, key>> /\ pc' = "links"
        /\ files' = [files EXCEPT ![dir] = @ \cup {"uninstaller"}]
    BY <1>3 DEF WriteUninstaller, Step
  <2>2. There(dir)' /\ \A d \in Dirs : There(d) => There(d)'
    BY <2>1, <1>c DEF There
  <2> QED BY <2>1, <2>2, <1>a, <1>b
<1>4. CASE CreateShortCuts
  <2>1. /\ UNCHANGED <<path, read, files, dir, menu, key>> /\ links' = dir
        /\ pc = "links" /\ pc' = "path"
    BY <1>4 DEF CreateShortCuts, Step
  <2> QED BY <2>1, <1>a, <1>b, <1>f DEF There
<1>5. CASE AlreadyInPath
  <2>1. /\ UNCHANGED <<path, read, files, dir, links, menu, key>>
        /\ pc = "path" /\ pc' = "menu"
    BY <1>5 DEF AlreadyInPath, Step
  <2> QED BY <2>1, <1>a, <1>b, <1>f DEF There
<1>6. CASE AddReadsPath
  <2>1. /\ UNCHANGED <<path, files, dir, links, menu, key>>
        /\ pc = "path" /\ pc' = "addpath" /\ read' \in {path, <<>>}
    BY <1>6 DEF AddReadsPath, AsRead, Step
  <2> QED BY <2>1, <1>a, <1>b, <1>d, <1>f DEF There
<1>7. CASE AddWritesPath
  <2>1. /\ UNCHANGED <<files, dir, links, menu, key>> /\ read' = <<>>
        /\ pc = "addpath" /\ pc' = "menu" /\ path' = Added(read, dir)
    BY <1>7 DEF AddWritesPath, Store, Step
  <2>2. Good => \A d \in Dirs : Contains(Added(read, dir), d) => Contains(read, d) \/ d = dir
    BY <2>1, AppendedOnce DEF Added, Good, Types, NothingTwice
  <2> QED BY <2>1, <2>2, <1>a, <1>b, <1>d, <1>f DEF There
<1>8. CASE RegisterMenu
  <2>1. /\ UNCHANGED <<path, read, files, dir, links, key>> /\ menu' = dir
        /\ pc = "menu" /\ pc' = "key"
    BY <1>8 DEF RegisterMenu, Step
  <2> QED BY <2>1, <1>a, <1>b, <1>f DEF There
<1>9. CASE WriteUninstallKey
  <2>1. /\ UNCHANGED <<path, read, files, dir, links, menu>> /\ key' = dir
        /\ pc = "key" /\ pc' = "idle"
    BY <1>9 DEF WriteUninstallKey, Step
  <2> QED BY <2>1, <1>a, <1>b, <1>f DEF There
<1>10. CASE DeleteUninstallKey
  <2>1. /\ UNCHANGED <<path, read, files, dir, links, menu>> /\ key' = Nowhere
        /\ pc = "unkey" /\ pc' = "unmenu"
    BY <1>10 DEF DeleteUninstallKey, Step
  <2> QED BY <2>1, <1>a, <1>b DEF There, InstallerAssumption
<1>11. CASE DeleteMenu
  <2>1. /\ UNCHANGED <<path, read, files, dir, links, key>> /\ menu' = Nowhere
        /\ pc = "unmenu" /\ pc' = "unpath"
    BY <1>11 DEF DeleteMenu, Step
  <2> QED BY <2>1, <1>a, <1>b, <1>f DEF There, InstallerAssumption
<1>12. CASE NotInPath
  <2>1. /\ UNCHANGED <<path, read, files, dir, links, menu, key>>
        /\ pc = "unpath" /\ pc' = "unlinks" /\ ~ Contains(AsRead(path), dir)
        /\ cut' = (cut \/ ~Fits(Append(path, dir)))
    BY <1>12 DEF NotInPath, Note, Step
  <2>2. Good' => AsRead(path) = path
    <3>1. Fits(Append(path, dir)) => Fits(path)
      BY DEF Fits, Types, Paths
    <3> QED BY <2>1, <3>1 DEF AsRead, Good
  <2> QED BY <2>1, <2>2, <1>a, <1>b, <1>f DEF There
<1>13. CASE RemoveReadsPath
  <2>1. /\ UNCHANGED <<path, files, dir, links, menu, key>> /\ read' = path
        /\ pc = "unpath" /\ pc' = "cutpath"
    BY <1>13 DEF RemoveReadsPath, Step
  <2> QED BY <2>1, <1>a, <1>b, <1>f DEF There
<1>14. CASE RemoveWritesPath
  <2>1. /\ UNCHANGED <<files, dir, links, menu, key>> /\ read' = <<>>
        /\ pc = "cutpath" /\ pc' = "unlinks" /\ path' = Removed(read, dir)
    BY <1>14 DEF RemoveWritesPath, Store, Step
  <2>2. Good => /\ \A d : Contains(Removed(read, dir), d) => Contains(read, d)
                /\ ~ Contains(Removed(read, dir), dir)
    <3>1. read \in Seq(Entries) /\ Contains(read, dir)
      BY <2>1 DEF Types, Paths
    <3>2. Good => Once(read)
      BY DEF Good, NothingTwice
    <3> QED BY <3>1, <3>2, <1>c, RemovedEntries DEF Once
  <2> QED BY <2>1, <2>2, <1>a, <1>b, <1>d, <1>f DEF There
<1>15. CASE RemoveShortCuts
  <2>1. /\ UNCHANGED <<path, read, files, dir, menu, key>> /\ links' = Nowhere
        /\ pc = "unlinks" /\ pc' = "unfiles"
    BY <1>15 DEF RemoveShortCuts, Step
  <2> QED BY <2>1, <1>a, <1>b, <1>f DEF There, InstallerAssumption
<1>16. ASSUME NEW part, RemoveFile(part) PROVE Names /\ InPath /\ Behind
  <2>1. /\ UNCHANGED <<path, read, dir, links, menu, key>> /\ pc = "unfiles" /\ pc' = pc
        /\ files' = [files EXCEPT ![dir] = @ \ {part}]
    BY <1>16 DEF RemoveFile
  <2>2. \A d \in Dirs : d # dir /\ There(d) => There(d)'
    BY <2>1, <1>c DEF There
  <2>3. /\ key = Nowhere /\ menu = Nowhere /\ links = Nowhere /\ read = <<>>
        /\ Good => ~ Contains(path, dir)
    BY <2>1, <1>f DEF Types
  <2> QED BY <2>1, <2>2, <2>3, <1>a, <1>b, <1>c, <1>d
<1>17. CASE UninstallEnds \/ Kill
  <2>1. /\ UNCHANGED <<path, files, dir, links, menu, key>> /\ pc' = "idle"
        /\ read' \in {read, <<>>}
    BY <1>17 DEF UninstallEnds, Kill, Step
  <2> QED BY <2>1, <1>a, <1>b, <1>d DEF There
<1>18. ASSUME NEW x \in Others, ForeignAppend(x) PROVE Names /\ InPath /\ Behind
  <2>1. path' = Append(path, x) /\ UNCHANGED <<pc, read, files, dir, links, menu, key>>
    BY <1>18 DEF ForeignAppend
  <2>2. Good => \A d \in Dirs : Contains(Append(path, x), d) => Contains(path, d)
    BY AppendedOnce, NamesAreEntries DEF Good, Types, NothingTwice
  <2> QED BY <2>1, <2>2, <1>a, <1>b, <1>c, <1>f DEF There
<1>19. CASE UNCHANGED vars
  BY <1>19, <1>a, <1>b, <1>f DEF vars, There
<1> HIDE DEF Names, InPath, Behind
<1>20. CASE Next
  BY <1>20, <1>1, <1>2, <1>3, <1>4, <1>5, <1>6, <1>7, <1>8, <1>9, <1>10, <1>11, <1>12, <1>13,
     <1>14, <1>15, <1>16, <1>17, <1>18, <1>19 DEF Next, Rest
<1> QED BY <1>19, <1>20

(* What names a directory leaves its uninstaller there, wherever a run of the*)
(* installer or of the uninstaller ends.                                     *)
THEOREM AlwaysUninstallable == Spec => []Uninstallable
<1>1. InstallerAssumption /\ Init => UninstallableInv
  <2> SUFFICES ASSUME InstallerAssumption, Init PROVE NamedWhileThere /\ Uninstallable
    BY OnceInit DEF UninstallableInv
  <2>1. path \in Seq(Entries \ Dirs) /\ read = <<>> /\ pc = "idle"
        /\ links = Nowhere /\ menu = Nowhere /\ key = Nowhere
    BY DEF Init, InstallerAssumption
  <2>2. \A d \in Dirs : ~ Contains(path, d) /\ ~ Contains(read, d)
    BY <2>1 DEF Contains
  <2> QED BY <2>1, <2>2 DEF NamedWhileThere, Uninstallable, InstallerAssumption
<1>2. UninstallableInv => Uninstallable
  BY DEF UninstallableInv
<1> QED
  BY <1>1, <1>2, UninstallableStep, AllOnce, InstallerAssumption, PTL DEF Spec
=============================================================================
