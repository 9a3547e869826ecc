---------------------------- MODULE RenamerProofs ----------------------------
(* Theorems about Renamer for every set of directories, names, rules and     *)
(* lists of files.                                                           *)
EXTENDS Renamer, SequenceTheorems, TLAPS

(* What the plan holds: files that existed at first, with the name that the  *)
(* rule gives them.  The files that are still to be planned existed, too.    *)
PlanOK ==
    /\ \A i \in 1 .. Len(files) : files[i] \in there
    /\ \A i \in 1 .. Len(ans) :
          ans[i].raw \in there /\ ans[i].nw = rule[ans[i].raw[2]]

-----------------------------------------------------------------------------
LEMMA GoalType ==
    ASSUME TypeOK, NEW p \in Paths
    PROVE  Goal(p) \in Paths
BY DEF Goal, TypeOK, Paths

(* In the loop of the moves, the entry in turn has both its paths.           *)
LEMMA EntryType ==
    ASSUME TypeOK, Moving
    PROVE  /\ ans[at] \in [raw : Paths, nw : Names]
           /\ at \in 1 .. Len(ans)
           /\ Raw \in Paths /\ Dest \in Paths
<1>1. at \in 1 .. Len(ans)
  BY DEF TypeOK, Moving
<1>2. ans \in Seq([raw : Paths, nw : Names])
  BY DEF TypeOK
<1>3. ans[at] \in [raw : Paths, nw : Names]
  BY <1>1, <1>2, ElementOfSeq
<1>4. Raw \in Paths /\ Dest \in Paths
  BY <1>3 DEF Raw, Dest, Paths
<1> QED
  BY <1>1, <1>3, <1>4

LEMMA AtType ==
    ASSUME TypeOK
    PROVE  at + 1 \in Nat \ {0}
BY DEF TypeOK

-----------------------------------------------------------------------------
LEMMA InitType == Init => TypeOK /\ PlanOK
<1> SUFFICES ASSUME Init PROVE TypeOK /\ PlanOK
  OBVIOUS
<1> USE RenamerAssumption
<1>1. files \in Seq(Paths) /\ rule \in [Names -> Names \cup {NoMatch, BadTarget}]
  BY DEF Init
<1>2. /\ disk \in [Paths -> Paths \cup {Absent, Stranger}]
      /\ there \subseteq Paths
  BY DEF Init
<1>3. config \in 0 .. Len(files)
  BY <1>1 DEF Init
<1>4. PlanOK
  BY DEF Init, PlanOK
<1> QED
  BY <1>1, <1>2, <1>3, <1>4 DEF Init, TypeOK, Ended

LEMMA StepType == TypeOK /\ PlanOK /\ [Next]_vars => TypeOK' /\ PlanOK'
<1> SUFFICES ASSUME TypeOK, PlanOK, [Next]_vars PROVE TypeOK' /\ PlanOK'
  OBVIOUS
<1> USE RenamerAssumption, AtType
<1>1. CASE FindConfig
  BY <1>1 DEF FindConfig, TypeOK, PlanOK, Ended, ghosts
<1>2. CASE NoConfig \/ LoadFails \/ LoadConfig \/ PlanFails \/ ShowPlan \/ Cancel
           \/ Finish \/ Kill
  BY <1>2 DEF NoConfig, LoadFails, LoadConfig, PlanFails, ShowPlan, Cancel,
              Finish, Kill, TypeOK, PlanOK, Ended, setting, ghosts
<1>3. CASE PassFile \/ Confirm
  BY <1>3 DEF PassFile, Confirm, Planning, TypeOK, PlanOK, Ended, setting, ghosts
<1>4. CASE PlanFile
  <2>1. at \in 1 .. Len(files) /\ files[at] \in Paths /\ files[at] \in there
    BY <1>4 DEF PlanFile, Planning, TypeOK, PlanOK
  <2>2. [raw |-> files[at], nw |-> NewName] \in [raw : Paths, nw : Names]
    BY <1>4, <2>1 DEF PlanFile
  <2>3. ans' \in Seq([raw : Paths, nw : Names])
    BY <1>4, <2>2 DEF PlanFile, TypeOK
  <2>4. TypeOK'
    BY <1>4, <2>3 DEF PlanFile, Planning, TypeOK, Ended, ghosts
  <2>5. PlanOK'
    BY <1>4, <2>1, <2>2 DEF PlanFile, Planning, NewName, TypeOK, PlanOK, ghosts
  <2> QED
    BY <2>4, <2>5
<1>5. CASE MoveFails \/ MoveNothing
  BY <1>5, EntryType DEF MoveFails, MoveNothing, Moving, ToNext, Count, TypeOK,
                         PlanOK, Ended, setting, ghosts
<1>6. CASE MoveToFree
  BY <1>6, EntryType DEF MoveToFree, Moving, ToNext, Count, Shift, TypeOK, PlanOK,
                         Ended, setting, ghosts
<1>7. CASE MoveOver
  BY <1>7, EntryType DEF MoveOver, Moving, ToNext, Count, Shift, TypeOK, PlanOK,
                         Ended, setting
<1>8. ASSUME NEW p \in Paths, ForeignCreate(p)
      PROVE  TypeOK' /\ PlanOK'
  BY <1>8 DEF ForeignCreate, TypeOK, PlanOK, Ended, setting
<1>10. ASSUME NEW p \in Paths, ForeignDelete(p)
       PROVE  TypeOK' /\ PlanOK'
  <2>1. disk[p] \in Paths \cup {Stranger}
    BY <1>10 DEF ForeignDelete, TypeOK
  <2>2. disk' \in [Paths -> Paths \cup {Absent, Stranger}]
    BY <1>10 DEF ForeignDelete, TypeOK
  <2>3. foreign' \in 0 .. MaxForeign
    BY <1>10 DEF ForeignDelete, TypeOK
  <2> QED
    BY <1>10, <2>1, <2>2, <2>3 DEF ForeignDelete, TypeOK, PlanOK, Ended, setting
<1>9. CASE Terminated \/ UNCHANGED vars
  BY <1>9 DEF Terminated, vars, TypeOK, PlanOK, Ended
<1> QED
  BY <1>1, <1>2, <1>3, <1>4, <1>5, <1>6, <1>7, <1>8, <1>9, <1>10 DEF Next, Program

(* The variables keep their types, and the plan is the rule's.               *)
THEOREM TypeCorrect == Spec => [](TypeOK /\ PlanOK)
BY InitType, StepType, PTL DEF Spec

-----------------------------------------------------------------------------
(* What a move does to the places of the contents, and to the books.         *)

LEMMA KeptInit == Init => ContentsKept /\ NoneMovedUncounted
<1> SUFFICES ASSUME Init PROVE ContentsKept /\ NoneMovedUncounted
  OBVIOUS
<1>1. there \subseteq Paths /\ disk = [p \in Paths |-> IF p \in there THEN p ELSE Absent]
  BY DEF Init
<1> QED
  BY <1>1, RenamerAssumption DEF ContentsKept, NoneMovedUncounted

LEMMA KeptStep ==
    TypeOK /\ ContentsKept /\ NoneMovedUncounted /\ [Next]_vars
    => ContentsKept' /\ NoneMovedUncounted'
<1> SUFFICES ASSUME TypeOK, ContentsKept, NoneMovedUncounted, [Next]_vars
             PROVE  ContentsKept' /\ NoneMovedUncounted'
  OBVIOUS
<1> USE RenamerAssumption
<1>a. there \subseteq Paths /\ disk \in [Paths -> Paths \cup {Absent, Stranger}]
  BY DEF TypeOK
<1>1. CASE /\ UNCHANGED <<disk, there, agreed, deleted>>
           /\ succeed \subseteq succeed'
  BY <1>1 DEF ContentsKept, NoneMovedUncounted
<1>2. CASE MoveToFree
  <2> DEFINE y == disk[Raw]
  <2>1. /\ Raw \in Paths /\ Dest \in Paths /\ Raw # Dest
        /\ disk' = [disk EXCEPT ![Raw] = Absent, ![Dest] = y]
        /\ disk[Dest] = Absent /\ y # Absent
        /\ UNCHANGED <<there, agreed, deleted>>
        /\ succeed' = succeed \cup {Raw}
    BY <1>2, EntryType DEF MoveToFree, Shift, Count, ghosts
  <2>2. /\ disk'[Raw] = Absent /\ disk'[Dest] = y
        /\ \A p \in Paths \ {Raw, Dest} : disk'[p] = disk[p]
    BY <2>1, <1>a
  <2> HIDE DEF y
  <2>3. ContentsKept'
    <3> SUFFICES ASSUME NEW x \in there
                 PROVE  /\ x \in agreed \cup deleted \/ \E p \in Paths : disk'[p] = x
                        /\ \A p, q \in Paths : disk'[p] = x /\ disk'[q] = x => p = q
      BY <2>1 DEF ContentsKept
    <3>1. x # Absent
      BY <1>a
    <3>2. ASSUME NEW p \in Paths, disk[p] = x
          PROVE  \E q \in Paths : disk'[q] = x
      <4>1. CASE p = Raw
        BY <4>1, <3>2, <2>1, <2>2 DEF y
      <4>2. CASE p # Raw
        BY <4>2, <3>1, <3>2, <2>1, <2>2
      <4> QED
        BY <4>1, <4>2
    <3>3. \A p \in Paths : disk'[p] = x => p # Raw /\ disk[IF p = Dest THEN Raw ELSE p] = x
      BY <3>1, <2>1, <2>2 DEF y
    <3>4. \A p, q \in Paths : disk[p] = x /\ disk[q] = x => p = q
      BY DEF ContentsKept
    <3>5. \A p, q \in Paths : disk'[p] = x /\ disk'[q] = x => p = q
      BY <3>3, <3>4, <2>1
    <3>6. x \in agreed \cup deleted \/ \E p \in Paths : disk[p] = x
      BY DEF ContentsKept
    <3> QED
      BY <3>2, <3>5, <3>6
  <2>4. NoneMovedUncounted'
    BY <2>1, <2>2, <1>a DEF NoneMovedUncounted
  <2> QED
    BY <2>3, <2>4
<1>3. CASE MoveOver
  <2> DEFINE y == disk[Raw]
  <2>1. /\ Raw \in Paths /\ Dest \in Paths /\ Raw # Dest
        /\ disk' = [disk EXCEPT ![Raw] = Absent, ![Dest] = y]
        /\ agreed' = agreed \cup {disk[Dest]}
        /\ UNCHANGED <<there, deleted>>
        /\ succeed' = succeed \cup {Raw}
    BY <1>3, EntryType DEF MoveOver, Shift, Count
  <2>2. /\ disk'[Raw] = Absent /\ disk'[Dest] = y
        /\ \A p \in Paths \ {Raw, Dest} : disk'[p] = disk[p]
    BY <2>1, <1>a
  <2> HIDE DEF y
  <2>3. ContentsKept'
    <3> SUFFICES ASSUME NEW x \in there
                 PROVE  /\ x \in agreed' \cup deleted \/ \E p \in Paths : disk'[p] = x
                        /\ \A p, q \in Paths : disk'[p] = x /\ disk'[q] = x => p = q
      BY <2>1 DEF ContentsKept
    <3>1. x # Absent
      BY <1>a
    <3>2. ASSUME NEW p \in Paths, disk[p] = x
          PROVE  x \in agreed' \/ \E q \in Paths : disk'[q] = x
      <4>1. CASE p = Raw
        BY <4>1, <3>2, <2>1, <2>2 DEF y
      <4>2. CASE p = Dest
        BY <4>2, <3>2, <2>1
      <4>3. CASE p # Raw /\ p # Dest
        BY <4>3, <3>2, <2>2
      <4> QED
        BY <4>1, <4>2, <4>3
    <3>3. \A p \in Paths : disk'[p] = x => p # Raw /\ disk[IF p = Dest THEN Raw ELSE p] = x
      BY <3>1, <2>1, <2>2 DEF y
    <3>4. \A p, q \in Paths : disk[p] = x /\ disk[q] = x => p = q
      BY DEF ContentsKept
    <3>5. \A p, q \in Paths : disk'[p] = x /\ disk'[q] = x => p = q
      BY <3>3, <3>4, <2>1
    <3>6. x \in agreed \cup deleted \/ \E p \in Paths : disk[p] = x
      BY DEF ContentsKept
    <3> QED
      BY <3>2, <3>5, <3>6, <2>1
  <2>4. NoneMovedUncounted'
    BY <2>1, <2>2, <1>a DEF NoneMovedUncounted
  <2> QED
    BY <2>3, <2>4
<1>4. ASSUME NEW p \in Paths, ForeignCreate(p)
      PROVE  ContentsKept' /\ NoneMovedUncounted'
  BY <1>4, <1>a DEF ForeignCreate, ContentsKept, NoneMovedUncounted, setting
<1>5. ASSUME NEW p \in Paths, ForeignDelete(p)
      PROVE  ContentsKept' /\ NoneMovedUncounted'
  BY <1>5, <1>a DEF ForeignDelete, ContentsKept, NoneMovedUncounted, setting
<1>6. CASE MoveNothing
  BY <1>6, <1>1 DEF MoveNothing, Count, ghosts
<1> QED
  BY <1>1, <1>2, <1>3, <1>4, <1>5, <1>6
  DEF Next, Program, FindConfig, NoConfig, LoadFails, LoadConfig, PassFile, PlanFile,
      PlanFails, ShowPlan, Cancel, Confirm, MoveFails, Finish, Kill, Terminated,
      vars, setting, ghosts

(* Wherever the run stops, no content has been dropped or doubled but those  *)
(* the user agreed to lose or another program deleted.                       *)
THEOREM NothingLost == Spec => []ContentsKept
<1>1. Init => TypeOK /\ PlanOK /\ ContentsKept /\ NoneMovedUncounted
  BY InitType, KeptInit
<1>2. TypeOK /\ PlanOK /\ ContentsKept /\ NoneMovedUncounted /\ [Next]_vars
      => (TypeOK /\ PlanOK /\ ContentsKept /\ NoneMovedUncounted)'
  BY StepType, KeptStep
<1> QED
  BY <1>1, <1>2, PTL DEF Spec

(* The number of files renamed leaves none out.                              *)
THEOREM CountIsComplete == Spec => []NoneMovedUncounted
<1>1. Init => TypeOK /\ PlanOK /\ ContentsKept /\ NoneMovedUncounted
  BY InitType, KeptInit
<1>2. TypeOK /\ PlanOK /\ ContentsKept /\ NoneMovedUncounted /\ [Next]_vars
      => (TypeOK /\ PlanOK /\ ContentsKept /\ NoneMovedUncounted)'
  BY StepType, KeptStep
<1> QED
  BY <1>1, <1>2, PTL DEF Spec

-----------------------------------------------------------------------------
(* The heart of the matter: a command finds at its source either the file it *)
(* was planned for or nothing.  For if another content stood there, then the *)
(* file that the entry is about would be at its goal already, and that is    *)
(* the target of this very command, which is free.                           *)
LEMMA SourceIsItself ==
    ASSUME TypeOK, PlanOK, AtOriginOrGoal, MoveToFree, agreed = {}, foreign = 0
    PROVE  /\ disk[Raw] = Raw /\ Dest = Goal(Raw)
           /\ Raw \in there /\ Raw \in Paths /\ Dest \in Paths /\ Raw # Dest
<1> USE RenamerAssumption
<1>1. /\ at \in 1 .. Len(ans) /\ ans[at] \in [raw : Paths, nw : Names]
      /\ Raw \in Paths /\ Dest \in Paths
  BY EntryType DEF MoveToFree
<1>2. Raw \in there /\ ans[at].nw = rule[Raw[2]]
  BY <1>1 DEF PlanOK, Raw
<1>3. Goal(Raw) = Dest
  BY <1>1, <1>2 DEF Goal, Dest
<1>4. disk[Raw] # Absent /\ disk[Dest] = Absent
  BY DEF MoveToFree
<1>5. disk[Raw] = Raw \/ disk[Dest] = Raw
  BY <1>2, <1>3 DEF AtOriginOrGoal
<1>6. disk[Raw] = Raw
  BY <1>1, <1>4, <1>5
<1> QED
  BY <1>1, <1>2, <1>3, <1>4, <1>6

LEMMA GoalInit == Init => AtOriginOrGoal
BY DEF Init, AtOriginOrGoal

LEMMA GoalStep ==
    TypeOK /\ PlanOK /\ AtOriginOrGoal /\ [Next]_vars => AtOriginOrGoal'
<1> SUFFICES ASSUME TypeOK, PlanOK, AtOriginOrGoal, [Next]_vars,
                    agreed' = {}, foreign' = 0
             PROVE  \A x \in there' : disk'[x] = x \/ disk'[Goal(x)'] = x
  BY DEF AtOriginOrGoal
<1> USE RenamerAssumption
<1>1. CASE UNCHANGED <<disk, rule, there, agreed, foreign>>
  BY <1>1 DEF AtOriginOrGoal, Goal
<1>2. CASE MoveToFree
  <2>1. /\ disk' = [disk EXCEPT ![Raw] = Absent, ![Dest] = disk[Raw]]
        /\ disk[Dest] = Absent
        /\ UNCHANGED <<rule, there, agreed, foreign>>
    BY <1>2 DEF MoveToFree, Shift, ghosts, setting
  <2>2. /\ disk[Raw] = Raw /\ Dest = Goal(Raw)
        /\ Raw \in Paths /\ Dest \in Paths /\ Raw # Dest
    BY <1>2, <2>1, SourceIsItself
  <2>3. /\ disk \in [Paths -> Paths \cup {Absent, Stranger}] /\ there \subseteq Paths
    BY DEF TypeOK
  <2>4. /\ disk'[Dest] = Raw
        /\ \A p \in Paths \ {Raw, Dest} : disk'[p] = disk[p]
    BY <2>1, <2>2, <2>3
  <2> SUFFICES ASSUME NEW x \in there
               PROVE  disk'[x] = x \/ disk'[Goal(x)] = x
    BY <2>1 DEF Goal
  <2>5. CASE x = Raw
    BY <2>5, <2>2, <2>4
  <2>6. CASE x # Raw
    <3>1. disk[x] = x \/ disk[Goal(x)] = x
      BY <2>1 DEF AtOriginOrGoal
    <3>2. \A p \in Paths : disk[p] = x => disk'[p] = x
      BY <2>6, <2>1, <2>2, <2>3, <2>4
    <3> QED
      BY <3>1, <3>2, <2>3, GoalType
  <2> QED
    BY <2>5, <2>6
<1>3. CASE MoveOver
  BY <1>3 DEF MoveOver
<1>4. CASE \E p \in Paths : ForeignCreate(p) \/ ForeignDelete(p)
  BY <1>4 DEF ForeignCreate, ForeignDelete, TypeOK
<1> QED
  BY <1>1, <1>2, <1>3, <1>4
  DEF Next, Program, FindConfig, NoConfig, LoadFails, LoadConfig, PassFile, PlanFile,
      PlanFails, ShowPlan, Cancel, Confirm, MoveFails, MoveNothing, Finish, Kill,
      Terminated, vars, setting, ghosts

(* Without an overwriting and without other programs every file is, at any   *)
(* moment, at its first path or at the one the plan has for it.              *)
THEOREM StraightToGoal == Spec => []AtOriginOrGoal
<1>1. Init => TypeOK /\ PlanOK /\ AtOriginOrGoal
  BY InitType, GoalInit
<1>2. TypeOK /\ PlanOK /\ AtOriginOrGoal /\ [Next]_vars
      => (TypeOK /\ PlanOK /\ AtOriginOrGoal)'
  BY StepType, GoalStep
<1> QED
  BY <1>1, <1>2, PTL DEF Spec

-----------------------------------------------------------------------------
(* The disk before the first command.                                        *)

(* Before the first command nothing has moved.                               *)
NoneMoved ==
    pc \in {"config", "load", "plan", "confirm", "failed"} =>
        /\ succeed = {}
        /\ \A x \in there : disk[x] = x \/ x \in deleted
        /\ foreign = 0 => \A p \in Paths : disk[p] = IF p \in there THEN p ELSE Absent

(* Where the run stands before its plan is made.                             *)
AtBeginning ==
    /\ pc = "config" => config = 0
    /\ pc \in {"config", "load"} => at = 1 /\ ans = <<>>

Early == NoneMoved /\ AtBeginning


LEMMA EarlyInit == Init => Early
<1> SUFFICES ASSUME Init PROVE Early
  OBVIOUS
<1>1. there \subseteq Paths /\ disk = [p \in Paths |-> IF p \in there THEN p ELSE Absent]
  BY DEF Init
<1> QED
  BY <1>1 DEF Init, Early, NoneMoved, AtBeginning

LEMMA EarlyStep == TypeOK /\ Early /\ [Next]_vars => Early'
<1> SUFFICES ASSUME TypeOK, Early, [Next]_vars PROVE Early'
  OBVIOUS
<1>a. /\ NoneMoved /\ AtBeginning /\ there \subseteq Paths /\ foreign \in Nat
      /\ disk \in [Paths -> Paths \cup {Absent, Stranger}]
  BY RenamerAssumption DEF Early, TypeOK
<1>1. CASE FindConfig \/ NoConfig \/ LoadFails \/ LoadConfig \/ PassFile \/ PlanFile
           \/ PlanFails \/ ShowPlan
  BY <1>1, <1>a DEF FindConfig, NoConfig, LoadFails, LoadConfig, PassFile, PlanFile,
                    PlanFails, ShowPlan, Planning, setting, ghosts,
                    Early, NoneMoved, AtBeginning
<1>2. CASE Cancel \/ Confirm \/ MoveFails \/ MoveToFree \/ MoveOver \/ MoveNothing
           \/ Finish \/ Kill
  BY <1>2 DEF Cancel, Confirm, MoveFails, MoveToFree, MoveOver, MoveNothing, Finish,
              Kill, Moving, setting, ghosts, Early, NoneMoved, AtBeginning
<1>3. ASSUME NEW p \in Paths, ForeignCreate(p) \/ ForeignDelete(p)
      PROVE  Early'
  <2>1. /\ foreign' # 0 /\ UNCHANGED <<pc, at, ans, config, succeed, there>>
        /\ \A x \in there : disk[x] = x => disk'[x] = x \/ x \in deleted'
        /\ deleted \subseteq deleted'
    BY <1>3, <1>a, RenamerAssumption DEF ForeignCreate, ForeignDelete, setting
  <2> QED
    BY <2>1, <1>a DEF Early, NoneMoved, AtBeginning
<1>4. CASE Terminated \/ UNCHANGED vars
  BY <1>4, <1>a DEF Terminated, vars, Early, NoneMoved, AtBeginning
<1> QED
  BY <1>1, <1>2, <1>3, <1>4 DEF Next, Program

-----------------------------------------------------------------------------
(* The config file.                                                          *)

(* A config file that was passed once is not in the plan.                    *)
PassedOnce == config # 0 /\ \A i \in 1 .. Len(files) : files[i] = files[config] => i = config
NotPlanned == PassedOnce => \A i \in 1 .. Len(ans) : ans[i].raw # files[config]


LEMMA ConfigInit == Init => NotPlanned /\ ConfigStays
BY DEF Init, NotPlanned, ConfigStays, PassedOnce

LEMMA ConfigStep ==
    TypeOK /\ PlanOK /\ Early /\ NotPlanned /\ ConfigStays /\ [Next]_vars
    => NotPlanned' /\ ConfigStays'
<1> SUFFICES ASSUME TypeOK, PlanOK, Early, NotPlanned, ConfigStays, [Next]_vars
             PROVE  NotPlanned' /\ ConfigStays'
  OBVIOUS
<1> USE RenamerAssumption
<1> DEFINE c == files[config]
           Kept == disk[c] = c \/ c \in agreed \cup deleted
<1>a. /\ there \subseteq Paths /\ disk \in [Paths -> Paths \cup {Absent, Stranger}]
      /\ files \in Seq(Paths) /\ config \in 0 .. Len(files)
  BY DEF TypeOK
<1>b. PassedOnce => Kept
  BY DEF ConfigStays, PassedOnce
<1>c. config # 0 => c \in Paths
  BY <1>a, ElementOfSeq
<1>d. ASSUME UNCHANGED <<files, config>>, PassedOnce => Kept'
      PROVE  ConfigStays'
  BY <1>d DEF ConfigStays, PassedOnce
<1>1. CASE FindConfig
  <2>1. ans = <<>> /\ ans' = ans /\ disk' = disk /\ deleted' = deleted /\ files' = files
    BY <1>1 DEF FindConfig, Early, AtBeginning, ghosts
  <2>2. files[config'] \in there
    BY <1>1 DEF FindConfig, PlanOK
  <2>3. disk[files[config']] = files[config'] \/ files[config'] \in deleted
    BY <1>1, <2>2 DEF FindConfig, Early, NoneMoved
  <2> QED
    BY <2>1, <2>3 DEF NotPlanned, ConfigStays
<1>2. CASE PlanFile
  <2>1. at \in 1 .. Len(files) /\ at # config /\ NewName \in Names
        /\ ans' = Append(ans, [raw |-> files[at], nw |-> NewName])
        /\ UNCHANGED <<files, config, disk, agreed, deleted>>
    BY <1>2 DEF PlanFile, Planning, TypeOK, ghosts
  <2>2. PassedOnce => files[at] # c
    BY <2>1 DEF PassedOnce
  <2>3. NotPlanned'
    BY <2>1, <2>2 DEF NotPlanned, PassedOnce, TypeOK
  <2> QED
    BY <2>1, <2>3, <1>b, <1>d
<1>3. CASE /\ UNCHANGED <<files, config, ans, disk>>
           /\ agreed \subseteq agreed' /\ deleted \subseteq deleted'
  BY <1>3, <1>b, <1>d DEF NotPlanned, PassedOnce
<1>4. CASE MoveToFree \/ MoveOver
  <2>1. /\ Raw \in Paths /\ Dest \in Paths /\ at \in 1 .. Len(ans) /\ Raw = ans[at].raw
        /\ disk' = [disk EXCEPT ![Raw] = Absent, ![Dest] = disk[Raw]]
        /\ UNCHANGED <<files, config, ans, deleted>>
    BY <1>4, EntryType DEF MoveToFree, MoveOver, Shift, setting, ghosts, Raw
  <2>2. disk[Dest] = Absent \/ disk[Dest] \in agreed'
    BY <1>4 DEF MoveToFree, MoveOver
  <2>3. agreed \subseteq agreed'
    BY <1>4 DEF MoveToFree, MoveOver, ghosts
  <2>4. PassedOnce => Raw # c /\ c \in Paths
    BY <2>1, <1>c DEF NotPlanned, PassedOnce
  <2>5. PassedOnce => Kept'
    <3> SUFFICES ASSUME PassedOnce PROVE disk'[c] = c \/ c \in agreed' \cup deleted
      BY <2>1
    <3>1. CASE disk[c] = c /\ c # Dest
      BY <3>1, <2>1, <2>4, <1>a
    <3>2. CASE disk[c] = c /\ c = Dest
      BY <3>2, <2>2, <2>4
    <3> QED
      BY <3>1, <3>2, <1>b, <2>3
  <2> QED
    BY <2>1, <2>5, <1>d DEF NotPlanned, PassedOnce
<1>5. ASSUME NEW p \in Paths, ForeignCreate(p) \/ ForeignDelete(p)
      PROVE  NotPlanned' /\ ConfigStays'
  <2>1. UNCHANGED <<files, config, ans, agreed>> /\ deleted \subseteq deleted'
    BY <1>5 DEF ForeignCreate, ForeignDelete, setting
  <2>2. ASSUME PassedOnce PROVE disk'[c] = c \/ c \in agreed \cup deleted'
    <3>1. c \in Paths
      BY <2>2, <1>c DEF PassedOnce
    <3>2. disk[c] = c => disk'[c] = c \/ c \in deleted'
      BY <3>1, <1>5, <1>a DEF ForeignCreate, ForeignDelete
    <3> QED
      BY <3>2, <2>1, <2>2, <1>b
  <2> QED
    BY <2>1, <2>2, <1>d DEF NotPlanned, PassedOnce
<1> QED
  BY <1>1, <1>2, <1>3, <1>4, <1>5
  DEF Next, Program, NoConfig, LoadFails, LoadConfig, PassFile, PlanFails, ShowPlan,
      Cancel, Confirm, MoveFails, MoveNothing, Finish, Kill, Terminated,
      vars, setting, ghosts

(* The config file stays where it is unless it was passed twice, the user    *)
(* lets it be overwritten, or another program deletes it (Renamer.cpp:74-86).*)
THEOREM ConfigFileStays == Spec => []ConfigStays
<1> DEFINE I == TypeOK /\ PlanOK /\ Early /\ NotPlanned /\ ConfigStays
<1>1. Init => I
  BY InitType, EarlyInit, ConfigInit
<1>2. I /\ [Next]_vars => I'
  BY StepType, EarlyStep, ConfigStep
<1> QED
  BY <1>1, <1>2, PTL DEF Spec

-----------------------------------------------------------------------------
(* All or nothing.                                                           *)

(* The files up to the one in turn have a target, and all of them once the   *)
(* plan is shown.                                                            *)
Bad(i) == i # config /\ rule[files[i][2]] = BadTarget
GoodSoFar ==
    /\ pc = "plan" => \A i \in 1 .. Len(files) : i < at => ~Bad(i)
    /\ pc \in {"confirm", "move"} => \A i \in 1 .. Len(files) : ~Bad(i)


LEMMA GoodInit == Init => GoodSoFar /\ AllOrNothing
<1> SUFFICES ASSUME Init PROVE GoodSoFar /\ AllOrNothing
  OBVIOUS
<1>1. there \subseteq Paths /\ disk = [p \in Paths |-> IF p \in there THEN p ELSE Absent]
  BY DEF Init
<1> QED
  BY <1>1 DEF Init, GoodSoFar, AllOrNothing

LEMMA GoodStep ==
    TypeOK /\ PlanOK /\ Early /\ GoodSoFar /\ AllOrNothing /\ [Next]_vars
    => GoodSoFar' /\ AllOrNothing'
<1> SUFFICES ASSUME TypeOK, PlanOK, Early, GoodSoFar, AllOrNothing, [Next]_vars
             PROVE  GoodSoFar' /\ AllOrNothing'
  OBVIOUS
<1> USE RenamerAssumption
<1>a. /\ there \subseteq Paths /\ foreign \in Nat /\ at \in Nat \ {0} /\ Len(files) \in Nat
      /\ rule \in [Names -> Names \cup {NoMatch, BadTarget}]
  BY DEF TypeOK
<1>1. CASE FindConfig
  <2>1. GoodSoFar'
    BY <1>1 DEF FindConfig, GoodSoFar
  <2>2. foreign = 0 => \A x \in there : disk[x] = x
    BY <1>1, <1>a DEF FindConfig, Early, NoneMoved
  <2> QED
    BY <1>1, <2>1, <2>2 DEF FindConfig, AllOrNothing, ghosts
<1>2. CASE LoadConfig
  BY <1>2, <1>a DEF LoadConfig, Early, AtBeginning, GoodSoFar, AllOrNothing, setting, ghosts
<1>3. CASE PassFile \/ PlanFile
  <2>1. ~Bad(at) /\ at' = at + 1 /\ at \in 1 .. Len(files) /\ pc = "plan"
        /\ UNCHANGED <<files, config, rule, pc, disk, foreign, there>>
    BY <1>3, <1>a DEF PassFile, PlanFile, Planning, NewName, Bad, setting, ghosts
  <2>2. \A j \in 1 .. Len(files) : j < at + 1 => ~Bad(j)
    BY <2>1, <1>a DEF GoodSoFar
  <2> QED
    BY <2>1, <2>2 DEF GoodSoFar, AllOrNothing, Bad
<1>4. CASE ShowPlan
  BY <1>4, <1>a DEF ShowPlan, GoodSoFar, AllOrNothing, Bad, setting, ghosts
<1>5. CASE NoConfig \/ LoadFails \/ PlanFails \/ Cancel \/ Confirm \/ MoveFails
           \/ MoveNothing \/ Finish \/ Kill
  BY <1>5 DEF NoConfig, LoadFails, PlanFails, Cancel, Confirm, MoveFails, MoveNothing,
              Finish, Kill, Moving, Ended, GoodSoFar, AllOrNothing, Bad, setting, ghosts
<1>6. CASE MoveToFree \/ MoveOver
  <2>1. \A j \in 1 .. Len(files) : ~Bad(j)
    BY <1>6 DEF MoveToFree, MoveOver, Moving, GoodSoFar
  <2> QED
    BY <1>6, <2>1 DEF MoveToFree, MoveOver, Moving, GoodSoFar, AllOrNothing, Bad,
                      setting, ghosts
<1>7. ASSUME NEW p \in Paths, ForeignCreate(p) \/ ForeignDelete(p)
      PROVE  GoodSoFar' /\ AllOrNothing'
  BY <1>7, <1>a DEF ForeignCreate, ForeignDelete, GoodSoFar, AllOrNothing, Bad, setting
<1>8. CASE Terminated \/ UNCHANGED vars
  BY <1>8 DEF Terminated, vars, GoodSoFar, AllOrNothing, Bad
<1> QED
  BY <1>1, <1>2, <1>3, <1>4, <1>5, <1>6, <1>7, <1>8 DEF Next, Program

(* One file without a target keeps every file where it is (Renamer.cpp:84-98)*)
THEOREM AllOrNothingIsRenamed == Spec => []AllOrNothing
<1> DEFINE I == TypeOK /\ PlanOK /\ Early /\ GoodSoFar /\ AllOrNothing
<1>1. Init => I
  BY InitType, EarlyInit, GoodInit
<1>2. I /\ [Next]_vars => I'
  BY StepType, EarlyStep, GoodStep
<1> QED
  BY <1>1, <1>2, PTL DEF Spec

-----------------------------------------------------------------------------
(* A plan in a safe order.                                                   *)

(* The entries behind the one in turn: what is counted is among them, and if *)
(* all of them are, then the disk is the first one with exactly these moves  *)
(* made.                                                                     *)
InMoves   == pc = "move" \/ (pc = "done" /\ succeed # {})
Behind    == {i \in 1 .. Len(ans) : i < at}
ExactDisk ==
    /\ \A i \in Behind : disk[Target(i)] = ans[i].raw
    /\ \A p \in Paths : (\A i \in Behind : Target(i) # p) =>
          disk[p] = IF p \in there /\ \A i \in Behind : ans[i].raw # p THEN p ELSE Absent
ExactSoFar ==
    InMoves =>
        /\ succeed \subseteq {ans[i].raw : i \in Behind}
        /\ pc = "done" => at > Len(ans)
        /\ foreign = 0 /\ OrderSafe /\ (\A i \in Behind : ans[i].raw \in succeed) => ExactDisk

LEMMA ExactInit == Init => ExactSoFar
BY DEF Init, ExactSoFar, InMoves

(* What the entry in turn finds: its file at its path, and nothing at its    *)
(* target.                                                                   *)
LEMMA SafeEntry ==
    ASSUME TypeOK, PlanOK, Moving, OrderSafe, ExactDisk
    PROVE  /\ disk[Raw] = Raw /\ disk[Dest] = Absent /\ Raw # Dest
           /\ \A i \in Behind : Target(i) # Dest /\ Target(i) # Raw /\ ans[i].raw # Raw
<1> USE RenamerAssumption
<1>1. /\ at \in 1 .. Len(ans) /\ Raw = ans[at].raw /\ Dest = Target(at)
      /\ Raw \in Paths /\ Dest \in Paths /\ Raw \in there /\ at \notin Behind
  BY EntryType DEF Raw, Dest, Target, PlanOK, Behind
<1>2. \A i \in Behind : Target(i) # Dest /\ ans[i].raw # Raw
  BY <1>1 DEF OrderSafe, Behind
<1>3. ASSUME NEW i \in Behind PROVE Target(i) # Raw
  <2> SUFFICES ASSUME Target(i) = Raw PROVE FALSE
    OBVIOUS
  <2>1. PICK j \in 1 .. i-1 : ans[j].raw = Raw
    BY <1>1 DEF OrderSafe, Behind
  <2>2. j \in Behind
    BY <2>1, <1>1 DEF Behind, TypeOK
  <2> QED
    BY <2>1, <2>2, <1>2
<1>4. disk[Raw] = Raw
  BY <1>1, <1>2, <1>3 DEF ExactDisk
<1>5. disk[Dest] = Absent
  <2>1. CASE Dest \in there
    <3>1. PICK j \in 1 .. at-1 : ans[j].raw = Dest
      BY <2>1, <1>1 DEF OrderSafe
    <3>2. j \in Behind
      BY <3>1, <1>1 DEF Behind
    <3> QED
      BY <3>1, <3>2, <1>1, <1>2 DEF ExactDisk
  <2>2. CASE Dest \notin there
    BY <2>2, <1>1, <1>2 DEF ExactDisk
  <2> QED
    BY <2>1, <2>2
<1> QED
  BY <1>1, <1>2, <1>3, <1>4, <1>5

LEMMA ExactStep ==
    TypeOK /\ PlanOK /\ Early /\ ExactSoFar /\ [Next]_vars => ExactSoFar'
<1> SUFFICES ASSUME TypeOK, PlanOK, Early, ExactSoFar, [Next]_vars
             PROVE  ExactSoFar'
  OBVIOUS
<1> USE RenamerAssumption
<1>a. /\ there \subseteq Paths /\ foreign \in Nat /\ at \in Nat \ {0} /\ Len(ans) \in Nat
      /\ disk \in [Paths -> Paths \cup {Absent, Stranger}]
  BY DEF TypeOK
<1>b. ASSUME UNCHANGED <<disk, ans, at, there>>
      PROVE  Behind' = Behind /\ (ExactDisk' <=> ExactDisk) /\ (OrderSafe' <=> OrderSafe)
  <2>1. Behind' = Behind
    BY <1>b DEF Behind
  <2>2. \A i : Target(i)' = Target(i)
    BY <1>b DEF Target
  <2>3. ExactDisk' <=> ExactDisk
    BY <1>b, <2>1, <2>2 DEF ExactDisk
  <2>4. OrderSafe' <=> OrderSafe
    BY <1>b, <2>2 DEF OrderSafe
  <2> QED
    BY <2>1, <2>3, <2>4
<1>1. CASE \/ FindConfig \/ NoConfig \/ LoadFails \/ LoadConfig \/ PassFile \/ PlanFile
           \/ PlanFails \/ ShowPlan \/ Cancel \/ Kill
  <2>1. pc' # "move" /\ (pc' = "done" => succeed' = {})
    BY <1>1 DEF FindConfig, NoConfig, LoadFails, LoadConfig, PassFile, PlanFile,
                PlanFails, ShowPlan, Cancel, Kill, Planning, Early, NoneMoved, ghosts
  <2> QED
    BY <2>1 DEF ExactSoFar, InMoves
<1>2. CASE Confirm
  <2>1. /\ pc = "confirm" /\ pc' = "move" /\ at' = 1
        /\ UNCHANGED <<disk, ans, succeed, foreign, there>>
    BY <1>2 DEF Confirm, setting, ghosts
  <2>2. Behind' = {}
    BY <2>1, <1>a DEF Behind
  <2>3. foreign = 0 => ExactDisk'
    BY <2>1, <2>2 DEF ExactDisk, Early, NoneMoved
  <2> QED
    BY <2>1, <2>2, <2>3 DEF ExactSoFar, InMoves, Early, NoneMoved
<1>3. CASE Moving /\ at' = at + 1 /\ UNCHANGED <<pc, ans, foreign, there>>
           /\ succeed \subseteq succeed' /\ succeed' \subseteq succeed \cup {Raw}
           /\ \/ UNCHANGED <<disk, succeed>>
              \/ MoveNothing
              \/ MoveToFree \/ MoveOver
  <2>1. at \in 1 .. Len(ans) /\ Behind' = Behind \cup {at} /\ at \notin Behind /\ Raw = ans[at].raw
    BY <1>3, <1>a DEF Moving, Behind, Raw
  <2>2. succeed \subseteq {ans[i].raw : i \in Behind} /\ pc = "move" /\ pc' = "move"
    BY <1>3 DEF Moving, ExactSoFar, InMoves
  <2>3. succeed' \subseteq {ans'[i].raw : i \in Behind'}
    BY <1>3, <2>1, <2>2
  <2> SUFFICES ASSUME foreign = 0, OrderSafe, \A i \in Behind \cup {at} : ans[i].raw \in succeed'
               PROVE  ExactDisk'
    BY <1>3, <2>1, <2>2, <2>3 DEF ExactSoFar, OrderSafe, Target
  <2>4. \A i \in Behind : ans[i].raw # Raw
    BY <2>1 DEF OrderSafe, Behind
  <2>5. \A i \in Behind : ans[i].raw \in succeed
    BY <2>4, <1>3
  <2>6. ExactDisk
    BY <2>2, <2>5 DEF ExactSoFar, InMoves
  <2>7. /\ disk[Raw] = Raw /\ disk[Dest] = Absent /\ Raw # Dest
        /\ \A i \in Behind : Target(i) # Dest /\ Target(i) # Raw /\ ans[i].raw # Raw
    BY <1>3, <2>6, SafeEntry
  <2>8. Raw \notin succeed /\ Raw \in succeed'
    BY <2>1, <2>2, <2>4
  <2>9. Raw \in Paths /\ Dest \in Paths /\ Raw \in there /\ Target(at) = Dest
    BY <1>3, <2>1, EntryType DEF PlanOK, Target, Dest, Raw
  <2>10. disk' = [disk EXCEPT ![Raw] = Absent, ![Dest] = disk[Raw]]
    BY <1>3, <2>7, <2>8 DEF MoveNothing, MoveToFree, MoveOver, Shift
  <2>11. disk'[Raw] = Absent /\ disk'[Dest] = Raw
         /\ \A p \in Paths : p # Raw /\ p # Dest => disk'[p] = disk[p]
    BY <2>7, <2>9, <2>10, <1>a
  <2>12. \A i \in Behind' : disk'[Target(i)] = ans[i].raw
    <3> SUFFICES ASSUME NEW i \in Behind PROVE disk'[Target(i)] = ans[i].raw
      BY <2>1, <2>9, <2>11
    <3>1. ans[i] \in [raw : Paths, nw : Names]
      BY ElementOfSeq DEF Behind, TypeOK
    <3>2. Target(i) \in Paths
      BY <3>1 DEF Target, Paths
    <3> QED
      BY <3>2, <2>6, <2>7, <2>11 DEF ExactDisk
  <2>13. ASSUME NEW p \in Paths, \A i \in Behind' : Target(i) # p
         PROVE  disk'[p] = IF p \in there /\ \A i \in Behind' : ans[i].raw # p
                           THEN p ELSE Absent
    <3>1. p # Dest /\ \A i \in Behind : Target(i) # p
      BY <2>13, <2>1, <2>9
    <3>2. CASE p = Raw
      BY <3>2, <2>1, <2>11
    <3>3. CASE p # Raw
      BY <3>1, <3>3, <2>1, <2>6, <2>11 DEF ExactDisk
    <3> QED
      BY <3>2, <3>3
  <2> QED
    BY <2>12, <2>13, <1>3 DEF ExactDisk, Target
<1>4. CASE MoveFails \/ MoveNothing \/ MoveToFree \/ MoveOver
  BY <1>4, <1>3 DEF MoveFails, MoveNothing, MoveToFree, MoveOver, ToNext, Count,
                    setting, ghosts
<1>5. CASE Finish
  <2>1. pc = "move" /\ pc' = "done" /\ at > Len(ans)
        /\ UNCHANGED <<disk, ans, at, succeed, foreign, there>>
    BY <1>5 DEF Finish, setting, ghosts
  <2> QED
    BY <2>1, <1>b DEF ExactSoFar, InMoves
<1>6. ASSUME NEW p \in Paths, ForeignCreate(p) \/ ForeignDelete(p)
      PROVE  ExactSoFar'
  <2>1. foreign' # 0 /\ UNCHANGED <<pc, at, ans, succeed>>
    BY <1>6, <1>a DEF ForeignCreate, ForeignDelete, setting
  <2> QED
    BY <2>1 DEF ExactSoFar, InMoves, Behind
<1>7. CASE Terminated \/ UNCHANGED vars
  <2>1. UNCHANGED <<disk, ans, at, there, succeed, foreign, pc>>
    BY <1>7 DEF Terminated, vars
  <2> QED
    BY <2>1, <1>b DEF ExactSoFar, InMoves
<1> QED
  BY <1>1, <1>2, <1>4, <1>5, <1>6, <1>7 DEF Next, Program

(* A plan that lets every file go before another one comes ends, when all of *)
(* it was counted, in exactly the renaming that was shown.                   *)
THEOREM SafePlansAreExact == Spec => []OrderSafePlanIsExact
<1> DEFINE I == TypeOK /\ PlanOK /\ Early /\ ExactSoFar
<1>1. Init => I
  BY InitType, EarlyInit, ExactInit
<1>2. I /\ [Next]_vars => I'
  BY StepType, EarlyStep, ExactStep
<1>3. I => OrderSafePlanIsExact
  <2> SUFFICES ASSUME I, pc = "done", foreign = 0, OrderSafe,
                      succeed = {ans[i].raw : i \in 1 .. Len(ans)}, succeed # {}
               PROVE  \A i \in 1 .. Len(ans) : disk[Target(i)] = ans[i].raw
    BY DEF OrderSafePlanIsExact
  <2>1. at > Len(ans) /\ at \in Nat /\ Len(ans) \in Nat
    BY DEF ExactSoFar, InMoves, TypeOK
  <2>2. Behind = 1 .. Len(ans)
    BY <2>1 DEF Behind
  <2> QED
    BY <2>2 DEF ExactSoFar, InMoves, ExactDisk
<1> QED
  BY <1>1, <1>2, <1>3, PTL DEF Spec

-----------------------------------------------------------------------------
(* Refinement: when the user overwrites nothing and no other program acts.   *)

Undisturbed == agreed = {} /\ foreign = 0

LEMMA UndisturbedStep ==
    ASSUME MayOverwrite = FALSE, MaxForeign = 0, TypeOK, Undisturbed, [Next]_vars
    PROVE  Undisturbed'
<1>1. ~MoveOver
  BY DEF MoveOver
<1>2. \A p \in Paths : ~ForeignCreate(p) /\ ~ForeignDelete(p)
  BY DEF ForeignCreate, ForeignDelete, Undisturbed
<1> QED
  BY <1>1, <1>2
  DEF Next, Program, FindConfig, NoConfig, LoadFails, LoadConfig, PassFile, PlanFile,
      PlanFails, ShowPlan, Cancel, Confirm, MoveFails, MoveToFree, MoveNothing, Finish,
      Kill, Terminated, vars, setting, ghosts, Undisturbed

LEMMA BatchInit == Init => Batch!Init
<1> SUFFICES ASSUME Init PROVE Batch!Init
  OBVIOUS
<1>1. TypeOK
  BY InitType
<1>2. [p \in Paths |-> Goal(p)] \in [Paths -> Paths]
  BY <1>1, GoalType
<1>3. there \in SUBSET Paths /\ disk = [p \in Paths |-> IF p \in there THEN p ELSE Absent]
  BY DEF Init
<1> QED
  BY <1>2, <1>3 DEF Batch!Init

LEMMA BatchStep ==
    ASSUME MayOverwrite = FALSE, MaxForeign = 0,
           TypeOK, PlanOK, AtOriginOrGoal, Undisturbed, [Next]_vars
    PROVE  [Batch!Next]_(Batch!vars)
<1>1. CASE MoveToFree
  <2>1. /\ disk[Raw] = Raw /\ Dest = Goal(Raw)
        /\ Raw \in Paths /\ Dest \in Paths /\ Raw # Dest
    BY <1>1, SourceIsItself DEF Undisturbed
  <2>2. /\ disk' = [disk EXCEPT ![Raw] = Absent, ![Dest] = disk[Raw]]
        /\ disk[Dest] = Absent /\ rule' = rule
    BY <1>1 DEF MoveToFree, Shift, setting
  <2>3. [p \in Paths |-> Goal(p)]' = [p \in Paths |-> Goal(p)]
    BY <2>2 DEF Goal
  <2>4. Batch!Rename(Raw)
    BY <2>1, <2>2, <2>3 DEF Batch!Rename
  <2> QED
    BY <2>1, <2>4 DEF Batch!Next
<1>2. CASE UNCHANGED <<disk, rule>>
  BY <1>2 DEF Batch!vars, Goal
<1>3. ~MoveOver
  BY DEF MoveOver
<1>4. \A p \in Paths : ~ForeignCreate(p) /\ ~ForeignDelete(p)
  BY DEF ForeignCreate, ForeignDelete, Undisturbed
<1> QED
  BY <1>1, <1>2, <1>3, <1>4
  DEF Next, Program, FindConfig, NoConfig, LoadFails, LoadConfig, PassFile, PlanFile,
      PlanFails, ShowPlan, Cancel, Confirm, MoveFails, MoveNothing, Finish, Kill,
      Terminated, vars, setting

(* The sequence of commands implements the bulk rename: each file moves at   *)
(* most once, from its own path to its own new name, and onto nothing.       *)
THEOREM Refinement ==
    ASSUME MayOverwrite = FALSE, MaxForeign = 0
    PROVE  Spec => ImplementsBatch
<1> DEFINE I == TypeOK /\ PlanOK /\ AtOriginOrGoal /\ Undisturbed
<1>1. Init => I
  BY InitType, GoalInit DEF Init, Undisturbed
<1>2. I /\ [Next]_vars => I'
  BY StepType, GoalStep, UndisturbedStep
<1>3. Init => Batch!Init
  BY BatchInit
<1>4. I /\ [Next]_vars => [Batch!Next]_(Batch!vars)
  BY BatchStep
<1> QED
  BY <1>1, <1>2, <1>3, <1>4, PTL DEF Spec, ImplementsBatch, Batch!Spec
=============================================================================
