---------------------------- MODULE CheckerProofs ----------------------------
(* Theorems about Checker for every set of words, list of files and set of   *)
(* periods.                                                                  *)
EXTENDS Checker, FiniteSetTheorems, SequenceTheorems, WellFoundedInduction, TLAPS

(* Before the loop nothing has been launched.                                *)
NotYet ==
    pc = "collect" => last = 0 /\ cnt = 0 /\ tried = <<>> /\ windows = {}

(* The files that are still to be read have added nothing.                   *)
NoNewsYet == \A f \in Files : f >= file => news[f] = {}

(* The launches so far are those of the addresses up to the last one.        *)
Tried == {tried[i] : i \in 1 .. Len(tried)}
Progress ==
    /\ Tried = {x \in address : x <= last}
    /\ pc = "done" => tried = <<>> \/ Left = {}

(* With start /wait the only window is that of the last launch, and it is    *)
(* closed before the loop goes on.                                           *)
LastWindow ==
    period = -1 =>
        /\ windows \subseteq {last}
        /\ pc \in {"next", "slept"} => windows = {}

(* Behind a break no launch has been made.                                   *)
FreshBurst == pc = "slept" => period > 0 /\ burst = 0

-----------------------------------------------------------------------------
(* Every set of natural numbers that is not empty has a least element, so    *)
(* the loop over the set<string> has a next address to go to.                *)
LEMMA Least ==
    ASSUME NEW S \in SUBSET Nat, S # {}
    PROVE  \E x \in S : \A y \in S : x <= y
<1> DEFINE R == OpToRel(<, Nat)
<1>1. PICK x \in S : \A y \in S : ~ (<<y, x>> \in R)
  BY NatLessThanWellFounded, WFMin, Zenon
<1>2. \A y \in S : ~ (y < x)
  BY <1>1, Zenon DEF OpToRel
<1> QED
  BY <1>2

(* The remainder of a difference by the divisor.                             *)
LEMMA Multiple ==
    ASSUME NEW k \in Int, NEW p \in Nat, p > 0
    PROVE  (p * k) % p = 0
BY SMTT(20)

LEMMA Division ==
    ASSUME NEW n \in Int, NEW p \in Nat, p > 0
    PROVE  n = p * (n \div p) + (n % p) /\ n \div p \in Int
BY SMTT(20)

LEMMA LessDivisor ==
    ASSUME NEW n \in Int, NEW p \in Nat, p > 0, (n - p) % p = 0
    PROVE  n % p = 0
<1> DEFINE q == (n - p) \div p
<1>1. q \in Int /\ n - p = p * q
  BY Division
<1> HIDE DEF q
<1>2. n = p * (q + 1)
  BY <1>1
<1> QED
  BY <1>1, <1>2, Multiple

-----------------------------------------------------------------------------
LEMMA NamedType ==
    ASSUME NEW w \in Seq(Words)
    PROVE  Named(w) \subseteq Words
BY DEF Named

(* An address that is left: the least one behind the last.                   *)
LEMMA AddrType ==
    ASSUME TypeOK, Left # {}
    PROVE  /\ Addr \in address /\ Addr \in Nat /\ Addr > last
           /\ \A y \in address : y > last => Addr <= y
<1> USE CheckerAssumption
<1>1. address \subseteq Nat /\ last \in Nat
  BY DEF TypeOK
<1>2. Left \in SUBSET Nat
  BY <1>1 DEF Left
<1>3. \E x \in Left : \A y \in Left : x <= y
  BY <1>2, Least
<1>4. Addr \in Left /\ \A y \in Left : Addr <= y
  BY <1>3 DEF Addr
<1> QED
  BY <1>1, <1>2, <1>4 DEF Left

LEMMA InitAll ==
    Init => /\ TypeOK /\ NotYet /\ NewsArePartition /\ NoNewsYet
            /\ Progress /\ LastWindow /\ BreaksInTime /\ FreshBurst
<1> SUFFICES ASSUME Init
             PROVE  /\ TypeOK /\ NotYet /\ NewsArePartition /\ NoNewsYet
                    /\ Progress /\ LastWindow /\ BreaksInTime /\ FreshBurst
  OBVIOUS
<1> USE CheckerAssumption
<1>1. texts \in [Files -> Seq(Words)] /\ Len(Ovpn) \in Nat
  BY DEF Init
<1>2. TypeOK
  BY <1>1 DEF Init, TypeOK, Ended
<1>3. NotYet /\ LastWindow /\ FreshBurst
  BY DEF Init, NotYet, LastWindow, FreshBurst
<1>4. NewsArePartition /\ NoNewsYet
  BY DEF Init, NewsArePartition, NoNewsYet
<1>5. Progress
  BY DEF Init, Progress, Tried
<1>6. BreaksInTime
  <2> SUFFICES ASSUME period > 0
               PROVE  burst <= period /\ (cnt - burst) % period = 0
    BY DEF BreaksInTime
  <2>1. period \in Nat /\ cnt = 0 /\ burst = 0
    BY DEF Init
  <2> QED
    BY <2>1
<1> QED
  BY <1>2, <1>3, <1>4, <1>5, <1>6
-----------------------------------------------------------------------------
LEMMA StepType ==
    TypeOK /\ NotYet /\ [Next]_vars => TypeOK' /\ NotYet'
<1> SUFFICES ASSUME TypeOK, NotYet, [Next]_vars PROVE TypeOK' /\ NotYet'
  OBVIOUS
<1> USE CheckerAssumption DEF options, found, launching
<1>0. Len(Ovpn) \in Nat /\ 1 \in Nat
  OBVIOUS
<1>1. CASE Unsupported
  BY <1>0, <1>1 DEF Unsupported, TypeOK, NotYet, Files, Ended
<1>2. CASE CollectFile
  <2> DEFINE new_address == Named(texts[file]) \ address
  <2>1. file \in Files /\ texts[file] \in Seq(Words)
    BY <1>2 DEF CollectFile, TypeOK
  <2>2. new_address \subseteq Words
    BY <2>1, NamedType
  <2>3. /\ address' = address \cup new_address
        /\ news' = [news EXCEPT ![file] = new_address]
        /\ file' = file + 1 /\ pc = "collect" /\ pc' = pc
        /\ UNCHANGED <<options, windows, launching>>
    BY <1>2 DEF CollectFile
  <2> HIDE DEF new_address
  <2>4. address \subseteq address' /\ address' \subseteq Words
    BY <2>2, <2>3 DEF TypeOK
  <2>5. news' \in [Files -> SUBSET address']
    <3>1. news' \in [Files -> SUBSET (address \cup new_address)]
      BY <2>1, <2>3, Zenon DEF TypeOK
    <3> QED
      BY <3>1, <2>3, Zenon
  <2>6. tried' = <<>> /\ windows' = {} /\ last' = 0 /\ cnt' = 0 /\ burst' = burst
    BY <2>3 DEF NotYet
  <2>7. file' \in 1 .. Len(Ovpn) + 1
    BY <1>0, <2>1, <2>3 DEF Files
  <2>8. /\ texts' = texts /\ period' = period /\ dryrun' = dryrun
        /\ endless' = endless /\ cnt' = cnt
    BY <2>3
  <2>9. NotYet'
    BY <2>6 DEF NotYet
  <2>10. burst' \in 0 .. cnt'
    BY <2>6, <2>8 DEF TypeOK
  <2> QED
    BY <2>3, <2>4, <2>5, <2>6, <2>7, <2>8, <2>9, <2>10 DEF TypeOK
<1>3. CASE CannotOpen
  BY <1>0, <1>3 DEF CannotOpen, TypeOK, NotYet, Files, Ended
<1>4. CASE NothingToDo
  BY <1>4 DEF NothingToDo, TypeOK, NotYet, Ended
<1>5. CASE Confirm
  BY <1>5 DEF Confirm, TypeOK, NotYet, Ended
<1>6. CASE Sleep
  BY <1>6 DEF Sleep, TypeOK, NotYet, Ended
<1>7. CASE Launch \/ LaunchFails
  <2>1. Left # {} /\ Advance
    BY <1>7 DEF Launch, LaunchFails, Ready
  <2>2. Addr \in address
    BY <2>1, AddrType
  <2>3. /\ pc' \in {"wait", "next"} /\ UNCHANGED <<options, found>>
        /\ windows' \in {windows, windows \cup {Addr}}
    BY <1>7 DEF Launch, LaunchFails
  <2>4. tried' \in Seq(address)
    BY <2>1, <2>2 DEF Advance, TypeOK
  <2>5. cnt' \in Nat /\ burst' \in 0 .. cnt' /\ last' \in address
    BY <2>1, <2>2 DEF Advance, TypeOK
  <2> QED
    BY <2>2, <2>3, <2>4, <2>5 DEF TypeOK, NotYet
<1>8. CASE WindowClosed
  BY <1>8 DEF WindowClosed, TypeOK, NotYet, Ended
<1>9. CASE Summary
  BY <1>9 DEF Summary, TypeOK, NotYet, Ended
<1>10. CASE Kill
  BY <1>10 DEF Kill, TypeOK, NotYet, Ended
<1>11. CASE \E x \in Words : PingsDone(x) \/ UserCloses(x)
  BY <1>11 DEF PingsDone, UserCloses, TypeOK, NotYet, Ended
<1>12. CASE UNCHANGED vars
  BY <1>12 DEF vars, TypeOK, NotYet, Ended
<1> QED
  BY <1>1, <1>2, <1>3, <1>4, <1>5, <1>6, <1>7, <1>8, <1>9, <1>10, <1>11, <1>12
     DEF Next, Program, Terminated

(* TypeOK holds for every set of words and list of files.                    *)
THEOREM TypeCorrect == Spec => []TypeOK
<1>1. Init => TypeOK /\ NotYet
  BY InitAll
<1> QED
  BY <1>1, StepType, PTL DEF Spec
-----------------------------------------------------------------------------
LEMMA StepNews ==
    TypeOK /\ NewsArePartition /\ NoNewsYet /\ [Next]_vars
        => NewsArePartition' /\ NoNewsYet'
<1> SUFFICES ASSUME TypeOK, NewsArePartition, NoNewsYet, [Next]_vars
             PROVE  NewsArePartition' /\ NoNewsYet'
  OBVIOUS
<1> USE CheckerAssumption DEF options, found, launching
<1>1. CASE CollectFile
  <2> DEFINE new_address == Named(texts[file]) \ address
  <2>1. file \in Files /\ Len(Ovpn) \in Nat /\ texts' = texts
    BY <1>1 DEF CollectFile
  <2>2. /\ address' = address \cup new_address
        /\ news' = [news EXCEPT ![file] = new_address]
        /\ file' = file + 1
    BY <1>1 DEF CollectFile
  <2>3. news \in [Files -> SUBSET address]
    BY DEF TypeOK
  <2>4. news[file] = {}
    BY <2>1 DEF NoNewsYet, Files
  <2>5. new_address \cap address = {} /\ new_address \subseteq Named(texts[file])
    OBVIOUS
  <2> HIDE DEF new_address
  <2>6. /\ news'[file] = new_address
        /\ \A f \in Files : f # file => news'[f] = news[f]
    BY <2>1, <2>2, <2>3
  <2>7. address' = UNION {news'[f] : f \in Files}
    <3>1. address = UNION {news[f] : f \in Files}
      BY DEF NewsArePartition
    <3>2. UNION {news'[f] : f \in Files}
             = new_address \cup UNION {news[f] : f \in Files}
      BY <2>1, <2>4, <2>6
    <3> QED
      BY <2>2, <3>1, <3>2
  <2>8. \A f, g \in Files : f # g => news'[f] \cap news'[g] = {}
    <3> SUFFICES ASSUME NEW f \in Files, NEW g \in Files, f # g
                 PROVE  news'[f] \cap news'[g] = {}
      OBVIOUS
    <3>1. news[f] \subseteq address /\ news[g] \subseteq address
      BY <2>3
    <3>2. news[f] \cap news[g] = {}
      BY DEF NewsArePartition
    <3> QED
      BY <2>5, <2>6, <3>1, <3>2
  <2>9. \A f \in Files : news'[f] \subseteq Named(texts'[f])
    BY <2>1, <2>5, <2>6 DEF NewsArePartition
  <2>10. NoNewsYet'
    BY <2>1, <2>2, <2>6 DEF NoNewsYet, Files
  <2> QED
    BY <2>7, <2>8, <2>9, <2>10 DEF NewsArePartition
<1>2. CASE Unsupported \/ CannotOpen
  <2>1. UNCHANGED <<texts, address, news>> /\ file' = file + 1
    BY <1>2 DEF Unsupported, CannotOpen
  <2>2. NoNewsYet'
    BY <2>1 DEF NoNewsYet, TypeOK, Files
  <2> QED
    BY <2>1, <2>2 DEF NewsArePartition
<1>3. CASE UNCHANGED <<texts, address, news, file>>
  BY <1>3 DEF NewsArePartition, NoNewsYet
<1> QED
  BY <1>1, <1>2, <1>3
     DEF Next, Program, NothingToDo, Confirm, Sleep, Launch, LaunchFails, WindowClosed,
         Summary, Kill, PingsDone, UserCloses, Terminated, vars

(* The files report every address, each as new only once: the numbers shown  *)
(* per file add up to the total (Checker.cpp:76-107).                        *)
THEOREM NewsAddUp == Spec => []NewsArePartition
<1>1. Init => TypeOK /\ NotYet /\ NewsArePartition /\ NoNewsYet
  BY InitAll
<1>2. TypeOK /\ NotYet /\ NewsArePartition /\ NoNewsYet /\ [Next]_vars
        => (TypeOK /\ NotYet /\ NewsArePartition /\ NoNewsYet)'
  BY StepType, StepNews
<1> QED
  BY <1>1, <1>2, PTL DEF Spec

-----------------------------------------------------------------------------
(* A launch: the loop goes to the next address and nowhere else.             *)
LEMMA LaunchStep ==
    ASSUME TypeOK, Launch \/ LaunchFails
    PROVE  /\ Addr \in address /\ Addr \in Nat /\ Addr > last
           /\ \A y \in address : y > last => Addr <= y
           /\ last' = Addr /\ cnt' = cnt + 1 /\ tried' = Append(tried, Addr)
           /\ pc' # "done" /\ pc' # "collect" /\ UNCHANGED <<options, found>>
<1>1. Left # {} /\ Advance /\ UNCHANGED <<options, found>>
  BY DEF Launch, LaunchFails, Ready
<1>2. pc' # "done" /\ pc' # "collect"
  BY DEF Launch, LaunchFails
<1> QED
  BY <1>1, <1>2, AddrType DEF Advance

(* What EachTriedOnce says at any time.                                      *)
InOrder ==
    /\ cnt = Len(tried)
    /\ \A i, j \in 1 .. Len(tried) : i < j => tried[i] < tried[j]

LEMMA StepProgress ==
    TypeOK /\ NotYet /\ Progress /\ InOrder /\ [Next]_vars => Progress' /\ InOrder'
<1> SUFFICES ASSUME TypeOK, NotYet, Progress, InOrder, [Next]_vars
             PROVE  Progress' /\ InOrder'
  OBVIOUS
<1> USE CheckerAssumption DEF options, found, launching
<1>0. /\ address \subseteq Nat /\ last \in Nat
      /\ tried \in Seq(address) /\ Len(tried) \in Nat
  BY DEF TypeOK
<1>1. CASE Unsupported \/ CollectFile \/ CannotOpen
  <2>1. pc = "collect" /\ pc' = pc /\ UNCHANGED <<last, cnt, tried>>
    BY <1>1 DEF Unsupported, CollectFile, CannotOpen
  <2>2. last = 0 /\ cnt = 0 /\ tried = <<>>
    BY <2>1 DEF NotYet
  <2>3. TypeOK'
    BY StepType
  <2>4. \A x \in address' : ~ (x <= 0)
    BY <2>3 DEF TypeOK
  <2>5. Tried' = {} /\ {x \in address' : x <= last'} = {}
    <3>1. tried' = <<>> /\ last' = 0
      BY <2>1, <2>2
    <3>2. Tried' = {}
      BY <3>1 DEF Tried
    <3>3. {x \in address' : x <= last'} = {}
      BY <2>4, <3>1
    <3> QED
      BY <3>2, <3>3
  <2> QED
    BY <2>1, <2>2, <2>5 DEF Progress, InOrder
<1>2. CASE Launch \/ LaunchFails
  <2>1. /\ Addr \in address /\ Addr \in Nat /\ Addr > last
        /\ \A y \in address : y > last => Addr <= y
        /\ last' = Addr /\ cnt' = cnt + 1 /\ tried' = Append(tried, Addr)
        /\ pc' # "done" /\ address' = address
    BY <1>2, LaunchStep
  <2> DEFINE n == Len(tried)
  <2>2. /\ n \in Nat /\ Len(tried') = n + 1 /\ tried'[n + 1] = Addr
        /\ \A i \in 1 .. n : tried'[i] = tried[i]
    BY <1>0, <2>1
  <2>3. \A i \in 1 .. n : tried[i] \in address /\ tried[i] <= last
    BY DEF Progress, Tried
  <2>4. Tried' = Tried \cup {Addr}
    BY <2>2 DEF Tried
  <2>5. {x \in address : x <= Addr} = {x \in address : x <= last} \cup {Addr}
    <3>1. ASSUME NEW x \in address
          PROVE  x <= Addr <=> x <= last \/ x = Addr
      BY <1>0, <2>1, <3>1
    <3> QED
      BY <2>1, <3>1, Zenon
  <2>6. \A i, j \in 1 .. n + 1 : i < j => tried'[i] < tried'[j]
    <3> SUFFICES ASSUME NEW i \in 1 .. n + 1, NEW j \in 1 .. n + 1, i < j
                 PROVE  tried'[i] < tried'[j]
      OBVIOUS
    <3>1. i \in 1 .. n
      BY <2>2
    <3>2. CASE j = n + 1
      <4>1. tried'[i] = tried[i] /\ tried'[j] = Addr
        BY <2>2, <3>1, <3>2
      <4>2. tried[i] \in Nat /\ tried[i] <= last
        BY <1>0, <2>3, <3>1
      <4> QED
        BY <1>0, <2>1, <4>1, <4>2
    <3>3. CASE j \in 1 .. n
      BY <2>2, <3>1, <3>3 DEF InOrder
    <3> QED
      BY <2>2, <3>2, <3>3
  <2> HIDE DEF n
  <2>7. Progress'
    BY <2>1, <2>4, <2>5 DEF Progress
  <2>8. InOrder'
    BY <2>1, <2>2, <2>6 DEF InOrder, n
  <2> QED
    BY <2>7, <2>8
<1>3. CASE NothingToDo
  BY <1>3 DEF NothingToDo, NotYet, Progress, Tried, InOrder
<1>4. CASE Summary
  BY <1>4 DEF Summary, Progress, Tried, InOrder, Left
<1>5. CASE Confirm \/ Sleep \/ WindowClosed \/ Kill
  BY <1>5 DEF Confirm, Sleep, WindowClosed, Kill, Progress, Tried, InOrder, Left
<1>6. CASE UNCHANGED <<pc, address, last, cnt, tried>>
  BY <1>6 DEF Progress, Tried, InOrder, Left
<1> QED
  BY <1>1, <1>2, <1>3, <1>4, <1>5, <1>6
     DEF Next, Program, PingsDone, UserCloses, Terminated, vars

(* Each address is tried once, in order, and none is left out at the end,    *)
(* however many there are (Checker.cpp:118-134).                             *)
THEOREM NoneLeftOut == Spec => []EachTriedOnce
<1>1. Init => TypeOK /\ NotYet /\ Progress /\ InOrder
  BY InitAll DEF Init, InOrder
<1>2. TypeOK /\ NotYet /\ Progress /\ InOrder /\ [Next]_vars
        => (TypeOK /\ NotYet /\ Progress /\ InOrder)'
  BY StepType, StepProgress
<1>3. TypeOK /\ Progress /\ InOrder => EachTriedOnce
  <2> SUFFICES ASSUME TypeOK, Progress, InOrder, pc = "done", tried # <<>>
               PROVE  address = {tried[i] : i \in 1 .. Len(tried)}
    BY DEF EachTriedOnce, InOrder
  <2>1. address \subseteq Nat /\ last \in Nat
    BY CheckerAssumption DEF TypeOK
  <2>2. \A x \in address : x <= last
    BY <2>1 DEF Progress, Left
  <2> QED
    BY <2>2 DEF Progress, Tried
<1> QED
  BY <1>1, <1>2, <1>3, PTL DEF Spec

-----------------------------------------------------------------------------
LEMMA StepWindow ==
    TypeOK /\ NotYet /\ LastWindow /\ FreshBurst /\ [Next]_vars => LastWindow'
<1> SUFFICES ASSUME TypeOK, NotYet, LastWindow, FreshBurst, [Next]_vars, period' = -1
             PROVE  /\ windows' \subseteq {last'}
                    /\ pc' \in {"next", "slept"} => windows' = {}
  BY DEF LastWindow
<1> USE DEF options, found, launching
<1>0. period = -1
  BY DEF Next, Program, Unsupported, CollectFile, CannotOpen, NothingToDo, Confirm,
         Sleep, Launch, LaunchFails, WindowClosed, Summary, Kill, PingsDone, UserCloses,
         Terminated, vars
<1>1. windows \subseteq {last} /\ (pc \in {"next", "slept"} => windows = {})
  BY <1>0 DEF LastWindow
<1>2. CASE Unsupported \/ CollectFile \/ CannotOpen \/ NothingToDo \/ Confirm
  BY <1>2 DEF Unsupported, CollectFile, CannotOpen, NothingToDo, Confirm, NotYet
<1>3. CASE Launch
  <2>1. pc \in {"next", "slept"} /\ windows' = windows \cup {Addr} /\ last' = Addr
    BY <1>3 DEF Launch, Ready, Advance
  <2>2. pc' = "wait"
    BY <1>0, <1>3 DEF Launch
  <2> QED
    BY <1>1, <2>1, <2>2
<1>4. CASE LaunchFails
  BY <1>1, <1>4 DEF LaunchFails, Ready
<1>5. CASE WindowClosed
  BY <1>1, <1>5 DEF WindowClosed
<1>6. CASE Sleep \/ Summary \/ Kill
  BY <1>1, <1>6 DEF Sleep, Summary, Kill
<1>7. CASE \E x \in Words : PingsDone(x) \/ UserCloses(x)
  BY <1>1, <1>7 DEF PingsDone, UserCloses
<1>8. CASE UNCHANGED vars
  BY <1>1, <1>8 DEF vars
<1> QED
  BY <1>2, <1>3, <1>4, <1>5, <1>6, <1>7, <1>8 DEF Next, Program, Terminated

-----------------------------------------------------------------------------
LEMMA StepBurst ==
    TypeOK /\ NotYet /\ BreaksInTime /\ FreshBurst /\ [Next]_vars
        => BreaksInTime' /\ FreshBurst'
<1> SUFFICES ASSUME TypeOK, NotYet, BreaksInTime, FreshBurst, [Next]_vars
             PROVE  BreaksInTime' /\ FreshBurst'
  OBVIOUS
<1> USE DEF options, found, launching
<1>0. period \in Nat \cup {-1} /\ cnt \in Nat /\ burst \in Nat /\ burst <= cnt
  BY DEF TypeOK
<1>1. CASE Sleep
  <2>1. /\ period > 0 /\ cnt % period = 0 /\ burst' = 0
        /\ UNCHANGED <<period, cnt>>
    BY <1>1 DEF Sleep, BreakDue
  <2>2. burst' <= period' /\ cnt' - burst' = cnt
    BY <1>0, <2>1
  <2> QED
    BY <2>1, <2>2 DEF BreaksInTime, FreshBurst
<1>2. CASE Launch \/ LaunchFails
  <2>1. /\ Ready /\ pc' # "slept" /\ period' = period
        /\ cnt' = cnt + 1 /\ burst' = burst + 1
    BY <1>2 DEF Launch, LaunchFails, Advance
  <2>2. ASSUME period > 0
        PROVE  burst' <= period /\ (cnt' - burst') % period = 0
    <3>1. burst <= period /\ (cnt - burst) % period = 0
      BY <2>2 DEF BreaksInTime
    <3>2. cnt' - burst' = cnt - burst
      BY <1>0, <2>1
    <3>3. burst # period
      <4> SUFFICES ASSUME burst = period PROVE FALSE
        OBVIOUS
      <4>1. cnt % period = 0
        BY <1>0, <2>2, <3>1, LessDivisor
      <4>2. BreakDue
        BY <1>0, <2>2, <4>1 DEF BreakDue
      <4>3. pc = "slept"
        BY <2>1, <4>2 DEF Ready
      <4> QED
        BY <2>2, <4>3 DEF FreshBurst
    <3> QED
      BY <1>0, <2>1, <3>1, <3>2, <3>3
  <2> QED
    BY <2>1, <2>2 DEF BreaksInTime, FreshBurst
<1>3. CASE UNCHANGED <<period, cnt, burst>> /\ pc' # "slept"
  BY <1>3 DEF BreaksInTime, FreshBurst
<1>4. CASE UNCHANGED <<period, cnt, burst, pc>>
  BY <1>4 DEF BreaksInTime, FreshBurst
<1> QED
  BY <1>1, <1>2, <1>3, <1>4
     DEF Next, Program, Unsupported, CollectFile, CannotOpen, NothingToDo, Confirm,
         WindowClosed, Summary, Kill, PingsDone, UserCloses, Terminated, vars

Breaks == TypeOK /\ NotYet /\ BreaksInTime /\ FreshBurst

(* With a positive period there is a break after every period launches, and  *)
(* none in between (Checker.cpp:120-121).                                    *)
THEOREM BreaksAreInTime == Spec => []BreaksInTime
<1>1. Init => Breaks
  BY InitAll DEF Breaks
<1>2. Breaks /\ [Next]_vars => Breaks'
  BY StepType, StepBurst DEF Breaks
<1>3. Breaks => BreaksInTime
  BY DEF Breaks
<1> QED
  BY <1>1, <1>2, <1>3, PTL DEF Spec

(* With start /wait no two windows are open together, whenever and by whom   *)
(* they are closed (Checker.cpp:129-131).                                    *)
THEOREM NeverTwoWindows == Spec => []OneByOne
<1>1. Init => Breaks /\ LastWindow
  BY InitAll DEF Breaks
<1>2. Breaks /\ LastWindow /\ [Next]_vars => Breaks' /\ LastWindow'
  BY StepType, StepBurst, StepWindow DEF Breaks
<1>3. LastWindow => OneByOne
  <2> SUFFICES ASSUME LastWindow, period = -1 PROVE Cardinality(windows) <= 1
    BY DEF OneByOne
  <2>1. windows = {} \/ windows = {last}
    BY DEF LastWindow
  <2>2. Cardinality({}) = 0 /\ Cardinality({last}) = 1
    BY FS_EmptySet, FS_Singleton
  <2> QED
    BY <2>1, <2>2
<1> QED
  BY <1>1, <1>2, <1>3, PTL DEF Spec
=============================================================================
