-------------------------- MODULE CommandLineProofs --------------------------
(* Theorems about CommandLine for all arguments, patterns and disks.         *)
EXTENDS CommandLine, NatLemmas, FiniteSetTheorems, SequenceTheorems, TLAPS

-----------------------------------------------------------------------------
(* Which arguments are values.                                               *)

(* What a step does not change of the command line.                          *)
LEMMA SameLine ==
    ASSUME UNCHANGED <<program, argv>>
    PROVE  /\ \A k : (Consumed(k)' <=> Consumed(k)) /\ (TakesValue(k)' <=> TakesValue(k))
           /\ \A k, o : Is(k, o)' <=> Is(k, o)
           /\ \A o : Given(o)' = Given(o)
BY DEF Consumed, Is, Given, Of, Runs, HasInt, HasFloat, TakesValue

LEMMA LineStays == [Next]_vars => UNCHANGED <<program, argv>>
<1> SUFFICES ASSUME [Next]_vars PROVE UNCHANGED <<program, argv>>
  OBVIOUS
<1>1. CASE Start \/ SearchFirst \/ SearchNothing \/ SearchNext \/ SearchEnds \/ NoValue
           \/ ArgsEnd \/ Others \/ Terminated
  BY <1>1 DEF Start, SearchFirst, SearchNothing, SearchNext, SearchEnds, NoValue, ArgsEnd,
     Others, Terminated, vars
<1>2. CASE DryRun \/ Unrecognized \/ Cred \/ Wait \/ Number
  BY <1>2 DEF DryRun, Unrecognized, Cred, Wait, Number, Goto
<1>3. CASE Time
  BY <1>3 DEF Time, Goto
<1>4. CASE UNCHANGED vars
  BY <1>4 DEF vars
<1> QED
  BY <1>1, <1>2, <1>3, <1>4 DEF Next, Step

(* An option is no number.                                                   *)
LEMMA OptionIsNoNumber ==
    ASSUME CommandLineAssumption, NEW a \in Args, Option[a] # "none"
    PROVE  ~ IsInt(Texts[a]) /\ ~ IsFloat(Texts[a])
<1>1. /\ Texts[a] \in Seq(Digits \cup {Point, Minus, Other}) /\ Texts[a] # <<>>
      /\ Texts[a][1] \in {Minus, Other} /\ Texts[a][1] \notin Digits \cup {Point}
  <2>1. /\ Texts[a] \in Seq(Digits \cup {Point, Minus, Other}) /\ Texts[a] # <<>>
        /\ Texts[a][1] \in {Minus, Other}
    BY DEF CommandLineAssumption
  <2>2. Minus \notin Digits /\ Other \notin Digits
    BY Zenon DEF CommandLineAssumption
  <2>3. Minus # Point /\ Other # Point
    BY DEF CommandLineAssumption
  <2> QED BY <2>1, <2>2, <2>3
<1>2. Len(Texts[a]) >= 1
  BY <1>1
<1>3. Texts[a] \notin Seq(Digits \cup {Point}) /\ Texts[a] \notin Seq(Digits)
  BY <1>1, <1>2
<1> QED
  BY <1>3 DEF IsInt, IsFloat

LEMMA NumberIsNoOption ==
    ASSUME CommandLineAssumption, argv \in Seq(Args), NEW k \in Int, NEW o, o # "none",
           HasInt(k) \/ HasFloat(k)
    PROVE  ~ Is(k, o)
<1> SUFFICES ASSUME Is(k, o) PROVE FALSE
  OBVIOUS
<1>1. k \in 1 .. Len(argv) /\ argv[k] \in Args /\ Option[argv[k]] # "none"
  BY DEF Is
<1> QED
  BY <1>1, OptionIsNoNumber DEF HasInt, HasFloat

(* The run of /c before an argument grows by one /c, or ends.                *)
LEMMA RunsNext ==
    ASSUME NEW k \in Nat, k >= 1
    PROVE  Runs(k + 1) = IF Is(k, "c") THEN Runs(k) \cup {k} ELSE {}
<1>1. (k + 1) - 1 = k
  OBVIOUS
<1>2. CASE Is(k, "c")
  <2>1. ASSUME NEW j \in 1 .. k
        PROVE  (\A l \in j .. k : Is(l, "c")) <=> j = k \/ \A l \in j .. k - 1 : Is(l, "c")
    <3>1. \A l \in j .. k : l = k \/ l \in j .. k - 1
      OBVIOUS
    <3>2. \A l \in j .. k - 1 : l \in j .. k
      OBVIOUS
    <3>3. j = k => \A l \in j .. k : l = k
      OBVIOUS
    <3> QED BY <3>1, <3>2, <3>3, <1>2
  <2>2. {j \in 1 .. k : \A l \in j .. k : Is(l, "c")}
        = {j \in 1 .. k - 1 : \A l \in j .. k - 1 : Is(l, "c")} \cup {k}
    <3>1. \A j \in 1 .. k : j = k \/ j \in 1 .. k - 1
      OBVIOUS
    <3>2. \A j \in 1 .. k - 1 : j \in 1 .. k
      OBVIOUS
    <3> QED BY <2>1, <3>1, <3>2
  <2> QED BY <1>1, <1>2, <2>2 DEF Runs
<1>3. CASE ~ Is(k, "c")
  <2>1. \A j \in 1 .. k : k \in j .. k
    OBVIOUS
  <2> QED BY <1>1, <1>3, <2>1 DEF Runs
<1> QED BY <1>2, <1>3

LEMMA RunsFinite ==
    ASSUME NEW k \in Nat
    PROVE  IsFiniteSet(Runs(k)) /\ Cardinality(Runs(k)) \in Nat
<1>1. IsFiniteSet(1 .. k - 1) /\ Runs(k) \subseteq 1 .. k - 1
  BY FS_Interval DEF Runs
<1> QED
  BY <1>1, FS_Subset, FS_CardinalityType

(* Of adjacent /c, every other one is the value of the one before it.        *)
LEMMA EveryOther ==
    ASSUME Of("Auth"), NEW k \in Nat, k >= 1
    PROVE  Consumed(k + 1) <=> Is(k, "c") /\ ~ Consumed(k)
<1>1. \A m : Consumed(m) <=> Cardinality(Runs(m)) % 2 = 1
  BY DEF Consumed, Of
<1>2. IsFiniteSet(Runs(k)) /\ Cardinality(Runs(k)) \in Nat
  BY RunsFinite
<1>3. CASE Is(k, "c")
  <2>1. k \notin Runs(k)
    BY DEF Runs
  <2>2. Cardinality(Runs(k + 1)) = Cardinality(Runs(k)) + 1
    <3>1. Runs(k + 1) = Runs(k) \cup {k}
      BY <1>3, RunsNext
    <3> QED BY <1>2, <2>1, <3>1, FS_AddElement
  <2>3. \A n \in Nat : (n + 1) % 2 = 1 <=> ~ (n % 2 = 1)
    OBVIOUS
  <2> QED BY <1>1, <1>2, <1>3, <2>2, <2>3
<1>4. CASE ~ Is(k, "c")
  <2>1. Runs(k + 1) = {}
    BY <1>4, RunsNext
  <2>2. Cardinality(Runs(k + 1)) = 0
    BY <2>1, FS_EmptySet
  <2> QED BY <1>1, <1>4, <2>2
<1> QED BY <1>3, <1>4

(* The first argument is no value.                                           *)
LEMMA FirstIsNoValue ==
    ASSUME argv \in Seq(Args) PROVE ~ Consumed(1)
<1>1. Runs(1) = {}
  BY DEF Runs
<1>2. Cardinality(Runs(1)) % 2 # 1
  BY <1>1, FS_EmptySet
<1>3. \A o : ~ Is(0, o) /\ ~ Is(-1, o)
  BY DEF Is
<1> QED
  BY <1>2, <1>3 DEF Consumed

-----------------------------------------------------------------------------
(* The loop.                                                                 *)

Line ==
    /\ program \in Programs /\ argv \in Seq(Args)
    /\ pc \in {"start", "args", "search", "help", "crashed", "done"}
    /\ i \in 1 .. Len(argv) + 1
    /\ pc = "start" => i = 1
    /\ pc \in {"search", "crashed"} => i <= Len(argv)
    /\ pc = "done" => i = Len(argv) + 1
    /\ pc = "help" => HelpDetected
    /\ pc \in {"args", "search", "crashed", "done"} => ~ HelpDetected

(* The argument in turn is the value of no option before it, ...             *)
InTurn == \A k \in DOMAIN argv : k = i /\ pc \in {"args", "search", "crashed"} => ~ Consumed(k)

(* and those between it and the next are.                                    *)
StepsTo(m) ==
    /\ m \in i + 1 .. Len(argv) + 1
    /\ \A k \in i + 1 .. m - 1 : Consumed(k)
    /\ \A k \in DOMAIN argv : k = m => ~ Consumed(k)

Looping == pc = "args" /\ i <= Len(argv)

LEMMA NoStepOver ==
    ASSUME Line, i <= Len(argv), ~ Consumed(i + 1)
    PROVE  StepsTo(i + 1)
BY DEF Line, StepsTo

(* Behind an argument that wants no value stands no value.                   *)
WantsNone ==
    /\ Of("Auth") => ~ Is(i, "c")
    /\ Of("Checker") => \A o \in {"t", "w", "n"} : ~ Is(i, o)

LEMMA PlainStep ==
    ASSUME Line, i <= Len(argv), ~ Consumed(i), WantsNone
    PROVE  StepsTo(i + 1)
<1>1. i \in 1 .. Len(argv) /\ i \in Nat /\ Len(argv) \in Nat
  BY DEF Line
<1>2. SUFFICES ~ Consumed(i + 1)
  BY NoStepOver
<1>4. CASE Of("Renamer")
  BY <1>4 DEF Consumed, Of
<1>5. CASE Of("Auth")
  BY <1>1, <1>5, EveryOther DEF WantsNone
<1>6. CASE Of("Checker")
  <2>1. \A p \in {"t", "w", "n"} : ~ Is(i, p)
    BY <1>6 DEF WantsNone
  <2>2. (i + 1) - 1 = i /\ (i + 1) - 2 = i - 1
    BY <1>1
  <2>3. Is(i - 1, "t") /\ HasInt(i) => ~ (i < Len(argv))
    BY <1>6 DEF Consumed
  <2>4. HasFloat(i + 1) => i < Len(argv)
    BY <1>1 DEF HasFloat
  <2> QED BY <1>6, <2>1, <2>2, <2>3, <2>4 DEF Consumed, Of
<1> QED
  BY <1>4, <1>5, <1>6 DEF Line, Programs, Of

(* An option of the Checker that has no value, or is skipped with a bad one. *)
LEMMA CheckerOption ==
    ASSUME CommandLineAssumption, Line, Looping, Of("Checker"),
           NEW o \in {"t", "w", "n"}, At(o)
    PROVE  /\ i \in 1 .. Len(argv) /\ i \in Nat /\ Is(i, o)
           /\ \A p : p # o => ~ Is(i, p)
           /\ ~ HasInt(i) /\ ~ HasFloat(i)
           /\ \A k : Consumed(k) <=>
                  \/ Is(k - 1, "w") /\ HasFloat(k)
                  \/ Is(k - 1, "n") /\ HasInt(k)
                  \/ Is(k - 1, "t") /\ HasInt(k) /\ k < Len(argv)
                  \/ Is(k - 2, "t") /\ HasInt(k - 1) /\ HasFloat(k)
           /\ \A k \in Nat : HasInt(k) \/ HasFloat(k) =>
                  ~ Is(k, "t") /\ ~ Is(k, "w") /\ ~ Is(k, "n")
<1>1. i \in 1 .. Len(argv) /\ i \in Nat /\ Is(i, o) /\ \A p : p # o => ~ Is(i, p)
  BY DEF Line, Looping, At, Is, Of
<1>2. ~ HasInt(i) /\ ~ HasFloat(i)
  BY <1>1, NumberIsNoOption DEF Line
<1>3. \A k \in Nat : HasInt(k) \/ HasFloat(k) =>
          ~ Is(k, "t") /\ ~ Is(k, "w") /\ ~ Is(k, "n")
  BY NumberIsNoOption DEF Line
<1>4. \A k : Consumed(k) <=>
                  \/ Is(k - 1, "w") /\ HasFloat(k)
                  \/ Is(k - 1, "n") /\ HasInt(k)
                  \/ Is(k - 1, "t") /\ HasInt(k) /\ k < Len(argv)
                  \/ Is(k - 2, "t") /\ HasInt(k - 1) /\ HasFloat(k)
  BY DEF Consumed, Of
<1> QED BY <1>1, <1>2, <1>3, <1>4

LEMMA CredStep ==
    ASSUME CommandLineAssumption, Line, InTurn, Of("Auth"), At("c"), i < Len(argv)
    PROVE  StepsTo(i + 2)
<1>1. i \in 1 .. Len(argv) /\ i \in Nat /\ Len(argv) \in Nat /\ Is(i, "c") /\ ~ Consumed(i)
  BY DEF Line, At, Is, Of, InTurn
<1>2. Consumed(i + 1)
  BY <1>1, EveryOther
<1>3. ~ Consumed(i + 2)
  <2>1. i + 1 \in Nat /\ i + 1 >= 1 /\ (i + 1) + 1 = i + 2
    BY <1>1
  <2> QED BY <1>2, <2>1, EveryOther
<1>4. \A k \in i + 1 .. (i + 2) - 1 : k = i + 1
  BY <1>1
<1>5. i + 2 \in i + 1 .. Len(argv) + 1
  BY <1>1
<1> QED
  BY <1>2, <1>3, <1>4, <1>5 DEF StepsTo

(* /w and /n.                                                                *)
LEMMA ValueStep ==
    ASSUME CommandLineAssumption, Line, Of("Checker"), i < Len(argv),
           NEW o \in {"w", "n"}, At(o)
    PROVE  LET good == IF o = "w" THEN HasFloat(i + 1) ELSE HasInt(i + 1)
           IN  StepsTo(IF good THEN i + 2 ELSE i + 1)
<1> DEFINE good == IF o = "w" THEN HasFloat(i + 1) ELSE HasInt(i + 1)
<1>1. Looping /\ Len(argv) \in Nat
  BY DEF Looping, At, Line
<1>2. /\ i \in 1 .. Len(argv) /\ i \in Nat /\ Is(i, o)
      /\ \A p : p # o => ~ Is(i, p)
      /\ ~ HasInt(i) /\ ~ HasFloat(i)
      /\ \A k : Consumed(k) <=>
             \/ Is(k - 1, "w") /\ HasFloat(k)
             \/ Is(k - 1, "n") /\ HasInt(k)
             \/ Is(k - 1, "t") /\ HasInt(k) /\ k < Len(argv)
             \/ Is(k - 2, "t") /\ HasInt(k - 1) /\ HasFloat(k)
      /\ \A k \in Nat : HasInt(k) \/ HasFloat(k) =>
             ~ Is(k, "t") /\ ~ Is(k, "w") /\ ~ Is(k, "n")
  BY <1>1, CheckerOption
<1>3. /\ (i + 1) - 1 = i /\ (i + 1) - 2 = i - 1 /\ (i + 2) - 1 = i + 1 /\ (i + 2) - 2 = i
      /\ i + 1 \in Nat
  BY <1>2
<1>4. Consumed(i + 1) <=> good
  <2>1. Consumed(i + 1) <=>
             \/ Is(i, "w") /\ HasFloat(i + 1)
             \/ Is(i, "n") /\ HasInt(i + 1)
             \/ Is(i, "t") /\ HasInt(i + 1) /\ i + 1 < Len(argv)
             \/ Is(i - 1, "t") /\ HasInt(i) /\ HasFloat(i + 1)
    BY <1>2, <1>3
  <2>2. CASE o = "w"
    BY <2>1, <2>2, <1>2
  <2>3. CASE o = "n"
    BY <2>1, <2>3, <1>2
  <2> QED BY <2>2, <2>3
<1>5. CASE good
  <2>1. ~ Consumed(i + 2)
    <3>1. HasInt(i + 1) \/ HasFloat(i + 1)
      BY <1>5
    <3>2. ~ Is(i + 1, "t") /\ ~ Is(i + 1, "w") /\ ~ Is(i + 1, "n") /\ ~ Is(i, "t")
      BY <3>1, <1>2, <1>3
    <3> QED BY <3>2, <1>2, <1>3
  <2>2. \A k \in i + 1 .. (i + 2) - 1 : k = i + 1
    BY <1>2
  <2>3. i + 2 \in i + 1 .. Len(argv) + 1
    BY <1>1, <1>2
  <2>4. StepsTo(i + 2)
    BY <1>4, <1>5, <2>1, <2>2, <2>3 DEF StepsTo
  <2> QED BY <1>5, <2>4
<1>6. CASE ~ good
  BY <1>1, <1>4, <1>6, NoStepOver DEF Looping
<1> QED BY <1>5, <1>6

(* /t.                                                                       *)
TimeNext ==
    IF HasInt(i + 1) THEN IF Timed THEN i + 3 ELSE IF i + 1 < Len(argv) THEN i + 2 ELSE i + 1
    ELSE i + 1

LEMMA TimeSteps ==
    ASSUME CommandLineAssumption, Line, Of("Checker"), i < Len(argv), At("t")
    PROVE  StepsTo(TimeNext)
<1>1. Looping /\ Len(argv) \in Nat
  BY DEF Looping, At, Line
<1>2. /\ i \in 1 .. Len(argv) /\ i \in Nat /\ Is(i, "t")
      /\ ~ Is(i, "w") /\ ~ Is(i, "n")
      /\ ~ HasInt(i) /\ ~ HasFloat(i)
      /\ \A k : Consumed(k) <=>
             \/ Is(k - 1, "w") /\ HasFloat(k)
             \/ Is(k - 1, "n") /\ HasInt(k)
             \/ Is(k - 1, "t") /\ HasInt(k) /\ k < Len(argv)
             \/ Is(k - 2, "t") /\ HasInt(k - 1) /\ HasFloat(k)
      /\ \A k \in Nat : HasInt(k) \/ HasFloat(k) =>
             ~ Is(k, "t") /\ ~ Is(k, "w") /\ ~ Is(k, "n")
  BY <1>1, CheckerOption
<1>3. /\ (i + 1) - 1 = i /\ (i + 1) - 2 = i - 1 /\ (i + 2) - 1 = i + 1 /\ (i + 2) - 2 = i
      /\ (i + 3) - 1 = i + 2 /\ (i + 3) - 2 = i + 1
      /\ i + 1 \in Nat /\ i + 2 \in Nat
  BY <1>2
<1>4. Consumed(i + 1) <=> HasInt(i + 1) /\ i + 1 < Len(argv)
  <2>1. Consumed(i + 1) <=>
             \/ Is(i, "w") /\ HasFloat(i + 1)
             \/ Is(i, "n") /\ HasInt(i + 1)
             \/ Is(i, "t") /\ HasInt(i + 1) /\ i + 1 < Len(argv)
             \/ Is(i - 1, "t") /\ HasInt(i) /\ HasFloat(i + 1)
    BY <1>2, <1>3
  <2> QED BY <2>1, <1>2
<1>5. HasInt(i + 1) => (Consumed(i + 2) <=> HasFloat(i + 2))
  <2>1. Consumed(i + 2) <=>
             \/ Is(i + 1, "w") /\ HasFloat(i + 2)
             \/ Is(i + 1, "n") /\ HasInt(i + 2)
             \/ Is(i + 1, "t") /\ HasInt(i + 2) /\ i + 2 < Len(argv)
             \/ Is(i, "t") /\ HasInt(i + 1) /\ HasFloat(i + 2)
    BY <1>2, <1>3
  <2> QED BY <2>1, <1>2, <1>3
<1>6. HasInt(i + 1) /\ HasFloat(i + 2) => ~ Consumed(i + 3)
  <2>1. Consumed(i + 3) <=>
             \/ Is(i + 2, "w") /\ HasFloat(i + 3)
             \/ Is(i + 2, "n") /\ HasInt(i + 3)
             \/ Is(i + 2, "t") /\ HasInt(i + 3) /\ i + 3 < Len(argv)
             \/ Is(i + 1, "t") /\ HasInt(i + 2) /\ HasFloat(i + 3)
    BY <1>2, <1>3
  <2> QED BY <2>1, <1>2, <1>3
<1>7. CASE HasInt(i + 1) /\ Timed
  <2>1. i + 1 < Len(argv) /\ HasFloat(i + 2)
    BY <1>7 DEF Timed
  <2>2. \A k \in i + 1 .. (i + 3) - 1 : k = i + 1 \/ k = i + 2
    BY <1>2
  <2>3. i + 3 \in i + 1 .. Len(argv) + 1
    BY <1>1, <1>2, <2>1
  <2>4. StepsTo(i + 3)
    BY <1>4, <1>5, <1>6, <1>7, <2>1, <2>2, <2>3 DEF StepsTo
  <2> QED BY <1>7, <2>4 DEF TimeNext
<1>8. CASE HasInt(i + 1) /\ ~ Timed /\ i + 1 < Len(argv)
  <2>1. ~ HasFloat(i + 2)
    BY <1>8 DEF Timed
  <2>2. \A k \in i + 1 .. (i + 2) - 1 : k = i + 1
    BY <1>2
  <2>3. i + 2 \in i + 1 .. Len(argv) + 1
    BY <1>1, <1>2, <1>8
  <2>4. StepsTo(i + 2)
    BY <1>4, <1>5, <1>8, <2>1, <2>2, <2>3 DEF StepsTo
  <2> QED BY <1>8, <2>4 DEF TimeNext
<1>9. CASE ~ HasInt(i + 1) \/ ~ (i + 1 < Len(argv))
  <2>1. StepsTo(i + 1)
    BY <1>1, <1>4, <1>9, NoStepOver DEF Looping
  <2>2. TimeNext = i + 1
    BY <1>9 DEF TimeNext, Timed
  <2> QED BY <2>1, <2>2
<1> QED BY <1>7, <1>8, <1>9

-----------------------------------------------------------------------------
(* The invariants.                                                           *)

(* No option that lacks its value is passed.                                 *)
NoneLacked ==
    /\ i > Len(argv) => ~ TakesValue(Len(argv))
    /\ pc = "crashed" => i = Len(argv) /\ TakesValue(i)

(* What was searched for is what is to be searched for, up to now.           *)
Sought(k) == Of("Renamer") \/ (Is(k, "none") /\ ~ Consumed(k))
Now       == IF pc = "search" THEN i + 1 ELSE i
SearchedSoFar ==
    /\ searched \in Seq(1 .. Len(argv))
    /\ \A j, k \in DOMAIN searched : j < k => searched[j] < searched[k]
    /\ \A j \in DOMAIN searched : searched[j] < Now /\ Sought(searched[j])
    /\ \A k \in DOMAIN argv : k < Now /\ Sought(k) => \E j \in DOMAIN searched : searched[j] = k

(* And each argument was taken once when it was in turn, once by the option  *)
(* before it whose value it is, and once by the /t two before it.            *)
ValueOf(k) ==
    \/ Of("Auth") /\ k - 1 \in Given("c")
    \/ /\ Of("Checker")
       /\ \/ Is(k - 1, "w") /\ HasFloat(k)
          \/ Is(k - 1, "n") /\ HasInt(k)
          \/ Is(k - 1, "t") /\ HasInt(k)
TimeOf(k) == Of("Checker") /\ Is(k - 2, "t") /\ HasFloat(k)
UsesSoFar ==
    /\ uses \in [1 .. Len(argv) -> Nat]
    /\ \A k \in 1 .. Len(argv) :
          uses[k] = Once(k < Now /\ ~ Consumed(k)) + Once(k - 1 < i /\ ValueOf(k))
                    + Once(k - 2 < i /\ TimeOf(k))

(* Each setting is that of the last option up to now.                        *)
Before(K)      == {k \in K : k < i}
IntsOf(o)      == {k \in Before(Given(o)) : HasInt(k + 1)}
FloatsOf(o, n) == {k \in Before(Given(o)) : HasFloat(k + n)}

CredentialSoFar == credential = LastOf(Before(Given("c")), LAMBDA k : argv[k + 1], "auth.txt")
PeriodSoFar     == period = LastOf(IntsOf("t"), LAMBDA k : IntAt(k + 1), -1)
CountSoFar      == ping_cnt = LastOf(IntsOf("n"), LAMBDA k : IntAt(k + 1), 0)
TimeoutSoFar    == ping_timeout = LastOf(FloatsOf("w", 1), LAMBDA k : FloatAt(k + 1), <<1>>)
WaitSoFar       == sec_per_wait = LastOf(FloatsOf("t", 2), LAMBDA k : FloatAt(k + 2), <<1>>)
NoneSkipped     ==
    /\ Before(Given("unknown")) \cup Before(Given("c")) = {}
    /\ \A o \in {"t", "n"} : Before(Given(o)) \subseteq IntsOf(o)
    /\ \A k \in Before(Given("w")) : HasFloat(k + 1)
DryRunSoFar     == dryrun <=> ~Of("Renamer") /\ Before(Given("dry-run")) # {}
SettingsSoFar ==
    /\ Of("Auth") => CredentialSoFar
    /\ Of("Checker") =>
          /\ PeriodSoFar /\ CountSoFar /\ TimeoutSoFar /\ WaitSoFar
          /\ err = 0 <=> NoneSkipped
    /\ DryRunSoFar

(* The search that is open is that for the argument in turn.  It must still  *)
(* give all files that were there all the time, and gives only files that    *)
(* were there at some time.                                                  *)
Searching ==
    IF pc = "search"
    THEN /\ handle = [pat  |-> PatternOf[argv[i]], seen |-> handle.seen,
                      may  |-> handle.may,         must |-> handle.must]
         /\ handle.seen # {} /\ handle.seen \subseteq handle.may
         /\ Matches(handle.pat, always) \subseteq handle.must
         /\ handle.must \subseteq handle.may
         /\ handle.may \subseteq Matches(handle.pat, ever)
         /\ Len(searched) >= 1 /\ searched[Len(searched)] = i /\ Sought(i)
    ELSE handle = NoHandle

(* A path stands in the list at least once for each search that ended and    *)
(* found it, and once more if the open one gave it.                          *)
Listable   == {FullPath(PatternOf[a], x) : a \in Args, x \in Paths}
Listed(e)  == {j \in DOMAIN files : files[j] = e}
Gave(e)    == pc = "search" /\ \E x \in handle.seen \ Folders : e = FullPath(handle.pat, x)
Over(j)    == j \in DOMAIN searched /\ (pc = "search" => j # Len(searched))
Times(e, S) ==
    {j \in DOMAIN searched : IF Over(j) THEN e \in Found(searched[j], S) ELSE Gave(e)}
ListedSoFar ==
    /\ files \in Seq(Listable)
    /\ \A e \in Listable :
          /\ Cardinality(Listed(e)) >= Cardinality(Times(e, always))
          /\ e # NoPath => Cardinality(Listed(e)) <= Cardinality(Times(e, ever))
    /\ Listed(NoPath) # {} => Times(NoPath, ever) # {}

Settings ==
    /\ credential \in Args \cup {"auth.txt"} /\ dryrun \in BOOLEAN /\ err \in {0, 1}
    /\ period \in -1 .. MaxInt /\ ping_cnt \in 0 .. MaxInt
    /\ sec_per_wait \in Seq(Digits \cup {Point}) /\ ping_timeout \in Seq(Digits \cup {Point})
Disk ==
    /\ Folders \subseteq always /\ always \subseteq disk
    /\ disk \subseteq ever /\ ever \subseteq Paths /\ foreign \in 0 .. MaxForeign

-----------------------------------------------------------------------------
(* The steps of the loop.                                                    *)

(* The argument in turn is done with, and the next one is no value.          *)
MovesOn ==
    /\ pc \in {"args", "search"} /\ i <= Len(argv) /\ pc' = "args"
    /\ UNCHANGED <<program, argv>>
    /\ StepsTo(i')
    /\ ~ Consumed(i)
    /\ i < Len(argv) \/ ~ TakesValue(i)

LEMMA InOptionStep ==
    ASSUME Line, InTurn, NEW o, At(o)
    PROVE  /\ i \in 1 .. Len(argv) /\ i \in Nat /\ Len(argv) \in Nat /\ ~ Consumed(i)
           /\ pc = "args"
           /\ IF Of("Renamer") THEN o = "none" ELSE Is(i, o) /\ \A p : p # o => ~ Is(i, p)
BY DEF Line, InTurn, At, Is, Of

LEMMA NoValueWanted ==
    ASSUME WantsNone PROVE ~ TakesValue(i)
BY DEF WantsNone, TakesValue, Given

(* An option.                                                                *)
LEMMA OptionMovesOn ==
    ASSUME CommandLineAssumption, Line, InTurn,
           DryRun \/ Unrecognized \/ Cred \/ Time \/ Wait \/ Number
    PROVE  /\ MovesOn
           /\ UNCHANGED <<searchVars, pc, searched>>
           /\ ~ Sought(i)
<1>1. CASE DryRun
  <2>1. At("dry-run") /\ i' = i + 1 /\ UNCHANGED <<searchVars, program, argv, pc, searched>>
    BY <1>1 DEF DryRun, Goto
  <2>2. /\ i \in 1 .. Len(argv) /\ ~ Consumed(i) /\ pc = "args" /\ ~ Of("Renamer")
        /\ \A p : p # "dry-run" => ~ Is(i, p)
    BY <2>1, InOptionStep
  <2>3. WantsNone
    BY <2>2 DEF WantsNone
  <2>4. StepsTo(i + 1) /\ ~ TakesValue(i)
    BY <2>2, <2>3, PlainStep, NoValueWanted
  <2> QED BY <2>1, <2>2, <2>4 DEF MovesOn, Sought
<1>2. CASE Unrecognized
  <2>1. NotItsOwn /\ i' = i + 1 /\ UNCHANGED <<searchVars, program, argv, pc, searched>>
    BY <1>2 DEF Unrecognized, Goto
  <2>2. PICK o : /\ At(o) /\ o \in {"unknown", "t", "w", "n", "c"}
                 /\ Of("Auth") => o # "c"
                 /\ Of("Checker") => o \notin {"t", "w", "n"}
    BY <2>1 DEF NotItsOwn, Of
  <2>3. /\ i \in 1 .. Len(argv) /\ ~ Consumed(i) /\ pc = "args" /\ ~ Of("Renamer")
        /\ \A p : p # o => ~ Is(i, p)
    BY <2>2, InOptionStep
  <2>4. WantsNone
    BY <2>2, <2>3 DEF WantsNone
  <2>5. StepsTo(i + 1) /\ ~ TakesValue(i)
    BY <2>3, <2>4, PlainStep, NoValueWanted
  <2>6. ~ Sought(i)
    BY <2>2, <2>3 DEF Sought
  <2> QED BY <2>1, <2>3, <2>5, <2>6 DEF MovesOn
<1>3. CASE Cred
  <2>1. /\ Of("Auth") /\ At("c") /\ i < Len(argv) /\ i' = i + 2
        /\ UNCHANGED <<searchVars, program, argv, pc, searched>>
    BY <1>3 DEF Cred, Goto
  <2>2. /\ i \in 1 .. Len(argv) /\ ~ Consumed(i) /\ pc = "args" /\ ~ Of("Renamer")
        /\ ~ Is(i, "none")
    BY <2>1, InOptionStep
  <2>3. StepsTo(i + 2)
    BY <2>1, CredStep
  <2> QED BY <2>1, <2>2, <2>3 DEF MovesOn, Sought
<1>4. CASE Time
  <2>1. /\ Of("Checker") /\ At("t") /\ i < Len(argv) /\ i' = TimeNext
        /\ UNCHANGED <<searchVars, program, argv, pc, searched>>
    BY <1>4 DEF Time, Goto, TimeNext
  <2>2. /\ i \in 1 .. Len(argv) /\ ~ Consumed(i) /\ pc = "args" /\ ~ Of("Renamer")
        /\ ~ Is(i, "none")
    BY <2>1, InOptionStep
  <2>3. StepsTo(TimeNext)
    BY <2>1, TimeSteps
  <2> QED BY <2>1, <2>2, <2>3 DEF MovesOn, Sought
<1>5. ASSUME NEW o \in {"w", "n"},
             IF o = "w" THEN Wait ELSE Number
      PROVE  /\ MovesOn
             /\ UNCHANGED <<searchVars, pc, searched>>
             /\ ~ Sought(i)
  <2> DEFINE good == IF o = "w" THEN HasFloat(i + 1) ELSE HasInt(i + 1)
  <2>1. /\ Of("Checker") /\ At(o) /\ i < Len(argv)
        /\ i' = IF good THEN i + 2 ELSE i + 1
        /\ UNCHANGED <<searchVars, program, argv, pc, searched>>
    BY <1>5 DEF Wait, Number, Goto
  <2>2. /\ i \in 1 .. Len(argv) /\ ~ Consumed(i) /\ pc = "args" /\ ~ Of("Renamer")
        /\ ~ Is(i, "none")
    BY <2>1, InOptionStep
  <2>3. StepsTo(IF good THEN i + 2 ELSE i + 1)
    BY <2>1, ValueStep
  <2> QED BY <2>1, <2>2, <2>3 DEF MovesOn, Sought
<1> QED BY <1>1, <1>2, <1>3, <1>4, <1>5

(* What is searched for.                                                     *)
LEMMA SearchMovesOn ==
    ASSUME Line, InTurn, Searching, SearchNothing \/ SearchEnds
    PROVE  MovesOn /\ i' = i + 1 /\ Sought(i) /\ ~ TakesValue(i) /\ WantsNone
<1>1. /\ pc \in {"args", "search"} /\ i <= Len(argv) /\ pc' = "args" /\ i' = i + 1
      /\ UNCHANGED <<program, argv>>
  BY DEF SearchNothing, SearchEnds, At, Line
<1>2. i \in 1 .. Len(argv) /\ ~ Consumed(i)
  BY <1>1 DEF Line, InTurn
<1>3. Of("Renamer") \/ Is(i, "none")
  <2>1. CASE pc = "search"
    BY <2>1 DEF Searching, Sought
  <2>2. CASE pc = "args"
    <3>1. At("none")
      BY <2>2 DEF SearchNothing, SearchEnds
    <3> QED BY <3>1, InOptionStep
  <2> QED BY <1>1, <2>1, <2>2
<1>4. WantsNone
  BY <1>3 DEF WantsNone, Is, Of
<1>5. StepsTo(i + 1) /\ ~ TakesValue(i)
  BY <1>1, <1>2, <1>4, PlainStep, NoValueWanted
<1>6. Sought(i)
  BY <1>2, <1>3 DEF Sought
<1> QED BY <1>1, <1>2, <1>4, <1>5, <1>6 DEF MovesOn

LEMMA HelpStays == UNCHANGED argv => (HelpDetected' <=> HelpDetected)
BY DEF HelpDetected

LEMMA NextInTurn ==
    ASSUME Line, MovesOn
    PROVE  Line' /\ InTurn' /\ (NoneLacked => NoneLacked')
<1>1. /\ i' \in i + 1 .. Len(argv) + 1
      /\ \A k \in i + 1 .. i' - 1 : Consumed(k)
      /\ \A k \in DOMAIN argv : k = i' => ~ Consumed(k)
      /\ pc' = "args" /\ UNCHANGED <<program, argv>> /\ i \in 1 .. Len(argv)
      /\ i < Len(argv) \/ ~ TakesValue(i)
  <2>1. StepsTo(i') /\ i <= Len(argv) /\ i \in 1 .. Len(argv) + 1 /\ argv \in Seq(Args)
    BY DEF MovesOn, Line
  <2>2. i \in 1 .. Len(argv)
    BY <2>1
  <2> QED BY <2>1, <2>2 DEF MovesOn, StepsTo
<1>2. Line'
  BY <1>1, HelpStays DEF Line, MovesOn
<1>3. InTurn'
  <2>1. \A k : Consumed(k)' <=> Consumed(k)
    BY <1>1, SameLine
  <2>2. ASSUME NEW k \in DOMAIN argv', k = i'
        PROVE  ~ Consumed(k)'
    BY <1>1, <2>1, <2>2
  <2> QED BY <2>2 DEF InTurn
<1>4. NoneLacked'
  <2>1. SUFFICES i' > Len(argv) => ~ TakesValue(Len(argv))
    BY <1>1, SameLine DEF NoneLacked
  <2>2. CASE i = Len(argv)
    BY <1>1, <2>2
  <2>3. CASE i < Len(argv) /\ i' > Len(argv)
    <3>1. Len(argv) \in i + 1 .. i' - 1
      BY <1>1, <2>3
    <3> QED BY <1>1, <3>1 DEF TakesValue, Given
  <2> QED BY <1>1, <2>2, <2>3
<1> QED BY <1>2, <1>3, <1>4

(* The other steps look at the argument in turn again, or at none.           *)
Flow == Line /\ InTurn /\ NoneLacked

LEMMA FlowStep ==
    ASSUME CommandLineAssumption, Flow, Searching, [Next]_vars
    PROVE  Flow'
<1>1. UNCHANGED <<program, argv>>
  BY LineStays
<1>2. /\ \A k : (Consumed(k)' <=> Consumed(k)) /\ (TakesValue(k)' <=> TakesValue(k))
      /\ HelpDetected' <=> HelpDetected
  BY <1>1, SameLine, HelpStays
<1>3. CASE DryRun \/ Unrecognized \/ Cred \/ Time \/ Wait \/ Number
  BY <1>3, OptionMovesOn, NextInTurn DEF Flow
<1>4. CASE SearchNothing \/ SearchEnds
  BY <1>4, SearchMovesOn, NextInTurn DEF Flow
<1>5. CASE Start
  <2>1. i = 1 /\ argv \in Seq(Args)
    BY <1>5 DEF Start, Flow, Line
  <2>2. ~ Consumed(1)
    BY <2>1, FirstIsNoValue
  <2>3. Line'
    BY <1>1, <1>2, <1>5 DEF Flow, Line, Start
  <2>4. InTurn'
    BY <1>1, <1>2, <1>5, <2>1, <2>2 DEF InTurn, Start
  <2>5. NoneLacked'
    BY <1>1, <1>2, <1>5 DEF NoneLacked, Flow, Start
  <2> QED BY <2>3, <2>4, <2>5 DEF Flow
<1>6. CASE SearchFirst
  <2>1. pc = "args" /\ pc' = "search" /\ i <= Len(argv) /\ i' = i
    BY <1>6 DEF SearchFirst, At
  <2>3. Line'
    BY <1>1, <1>2, <2>1 DEF Flow, Line
  <2>4. InTurn'
    BY <1>1, <1>2, <2>1 DEF InTurn, Flow
  <2>5. NoneLacked'
    BY <1>1, <1>2, <2>1 DEF NoneLacked, Flow
  <2> QED BY <2>3, <2>4, <2>5 DEF Flow
<1>7. CASE NoValue
  <2>1. pc = "args" /\ pc' = "crashed" /\ i = Len(argv) /\ i' = i
    BY <1>7 DEF NoValue, At
  <2>2. TakesValue(i)
    <3>1. PICK o : /\ At(o)
                   /\ \/ Of("Auth") /\ o = "c"
                      \/ Of("Checker") /\ o \in {"t", "w", "n"}
      <4>1. CASE Of("Auth") /\ At("c")
        BY <4>1
      <4>2. CASE Of("Checker") /\ \E o \in {"t", "w", "n"} : At(o)
        BY <4>2
      <4> QED BY <1>7, <4>1, <4>2 DEF NoValue
    <3>2. Is(i, o) /\ ~ Consumed(i) /\ i \in DOMAIN argv
      <4>1. ~ Of("Renamer")
        BY <3>1 DEF Of
      <4> QED BY <3>1, <4>1, InOptionStep DEF Flow, Is
    <3> QED BY <3>1, <3>2 DEF TakesValue, Given
  <2>3. Line'
    BY <1>1, <1>2, <2>1 DEF Flow, Line
  <2>4. InTurn'
    BY <1>1, <1>2, <2>1 DEF InTurn, Flow
  <2>5. NoneLacked'
    <3>1. TakesValue(i)'
      BY <1>2, <2>1, <2>2
    <3> QED BY <1>1, <2>1, <3>1 DEF NoneLacked, Flow, Line
  <2> QED BY <2>3, <2>4, <2>5 DEF Flow
<1>8. CASE ArgsEnd
  <2>1. pc = "args" /\ pc' = "done" /\ i > Len(argv) /\ i' = i
    BY <1>8 DEF ArgsEnd
  <2>3. Line'
    BY <1>1, <1>2, <2>1 DEF Flow, Line
  <2>4. InTurn'
    BY <1>1, <1>2, <2>1 DEF InTurn
  <2>5. NoneLacked'
    BY <1>1, <1>2, <2>1 DEF NoneLacked, Flow
  <2> QED BY <2>3, <2>4, <2>5 DEF Flow
<1>9. CASE SearchNext \/ Others \/ Terminated \/ UNCHANGED vars
  <2>1. UNCHANGED <<pc, i>>
    BY <1>9 DEF SearchNext, Others, Terminated, vars
  <2>3. Line'
    BY <1>1, <1>2, <2>1 DEF Flow, Line
  <2>4. InTurn'
    BY <1>1, <1>2, <2>1 DEF InTurn, Flow
  <2>5. NoneLacked'
    BY <1>1, <1>2, <2>1 DEF NoneLacked, Flow
  <2> QED BY <2>3, <2>4, <2>5 DEF Flow
<1> QED
  BY <1>3, <1>4, <1>5, <1>6, <1>7, <1>8, <1>9 DEF Next, Step

-----------------------------------------------------------------------------
(* The search that is open.                                                  *)

LEMMA SoughtStays ==
    ASSUME UNCHANGED <<program, argv>>
    PROVE  \A k : Sought(k)' <=> Sought(k)
BY SameLine DEF Sought, Of

LEMMA MatchesGrow ==
    ASSUME NEW p, NEW S, NEW T, S \subseteq T PROVE Matches(p, S) \subseteq Matches(p, T)
BY DEF Matches

LEMMA SearchFirstIs ==
    ASSUME Line, InTurn, SearchFirst
    PROVE  /\ pc = "args" /\ pc' = "search" /\ i \in 1 .. Len(argv) /\ Sought(i)
           /\ UNCHANGED <<program, argv, i, settings, disk, foreign, ever, always>>
           /\ searched' = Append(searched, i)
           /\ \E x \in Matches(PatternOf[argv[i]], disk) :
                 /\ handle' = [pat  |-> PatternOf[argv[i]], seen |-> {x},
                               may  |-> Matches(PatternOf[argv[i]], disk),
                               must |-> Matches(PatternOf[argv[i]], disk)]
                 /\ List(PatternOf[argv[i]], x)
<1>1. At("none") /\ FindFirst(PatternOf[argv[i]])
  BY DEF SearchFirst
<1>2. i \in 1 .. Len(argv) /\ Sought(i)
  BY <1>1, InOptionStep DEF Sought
<1> QED BY <1>1, <1>2 DEF SearchFirst, FindFirst, At

LEMMA HandleExcept ==
    ASSUME NEW p, NEW s, NEW m, NEW u, NEW T
    PROVE  LET h == [pat |-> p, seen |-> s, may |-> m, must |-> u]
           IN  /\ [h EXCEPT !.seen = @ \cup T]
                  = [pat |-> p, seen |-> s \cup T, may |-> m, must |-> u]
               /\ [h EXCEPT !.may = @ \cup T]
                  = [pat |-> p, seen |-> s, may |-> m \cup T, must |-> u]
               /\ [h EXCEPT !.must = @ \ T]
                  = [pat |-> p, seen |-> s, may |-> m, must |-> u \ T]
OBVIOUS

LEMMA HandleStep ==
    ASSUME CommandLineAssumption, SearchAssumption, Flow, Disk, Searching,
           searched \in Seq(1 .. Len(argv)), [Next]_vars
    PROVE  Searching'
<1>1. UNCHANGED <<program, argv>>
  BY LineStays
<1>2. \A k : Sought(k)' <=> Sought(k)
  BY <1>1, SoughtStays
<1>3. CASE DryRun \/ Unrecognized \/ Cred \/ Time \/ Wait \/ Number
  <2>1. MovesOn /\ UNCHANGED <<searchVars, pc, searched>>
    BY <1>3, OptionMovesOn DEF Flow
  <2>2. pc' # "search" /\ pc # "search" /\ handle' = handle
    BY <2>1 DEF MovesOn, searchVars
  <2> QED BY <2>2 DEF Searching
<1>4. CASE Start \/ NoValue \/ ArgsEnd \/ SearchNothing
  <2>1. pc' # "search" /\ pc # "search" /\ handle' = handle
    BY <1>4 DEF Start, NoValue, ArgsEnd, SearchNothing, NoneFound, searchVars, At
  <2> QED BY <2>1 DEF Searching
<1>5. CASE SearchEnds
  BY <1>5 DEF SearchEnds, NoMoreFiles, Searching
<1>6. CASE SearchFirst
  <2> DEFINE p == PatternOf[argv[i]]
  <2>1. /\ pc' = "search" /\ i \in 1 .. Len(argv) /\ Sought(i)
        /\ UNCHANGED <<argv, i, ever, always>>
        /\ searched' = Append(searched, i)
    BY <1>6, SearchFirstIs DEF Flow
  <2>2. PICK x \in Matches(p, disk) :
            handle' = [pat  |-> p, seen |-> {x}, may  |-> Matches(p, disk),
                       must |-> Matches(p, disk)]
    BY <1>6, SearchFirstIs DEF Flow
  <2> HIDE DEF p
  <2>3. Matches(p, always) \subseteq Matches(p, disk) /\ Matches(p, disk) \subseteq Matches(p, ever)
    BY MatchesGrow DEF Disk
  <2>4. /\ handle'.pat = p /\ handle'.seen = {x} /\ handle'.may = Matches(p, disk)
        /\ handle'.must = Matches(p, disk)
        /\ p' = p
    BY <2>1, <2>2 DEF p
  <2>5. Len(searched') >= 1 /\ searched'[Len(searched')] = i'
    BY <2>1
  <2>6. /\ handle' = [pat  |-> PatternOf[argv'[i']], seen |-> handle'.seen,
                      may  |-> handle'.may,         must |-> handle'.must]
        /\ handle'.pat = p
    BY <2>1, <2>2, <2>4 DEF p
  <2>7. /\ handle'.seen # {} /\ handle'.seen \subseteq handle'.may
        /\ handle'.must \subseteq handle'.may
    BY <2>4
  <2>8. /\ Matches(handle.pat, always)' = Matches(p, always)
        /\ Matches(handle.pat, ever)' = Matches(p, ever)
    BY <2>1, <2>4 DEF Matches
  <2>9. Sought(i)'
    BY <1>2, <2>1
  <2> QED BY <2>1, <2>3, <2>4, <2>5, <2>6, <2>7, <2>8, <2>9 DEF Searching
<1>7. CASE SearchNext
  <2>1. /\ pc = "search" /\ UNCHANGED <<argv, pc, i, searched, ever, always>>
    BY <1>7 DEF SearchNext, FindNext, history
  <2>2. PICK x \in handle.may \ handle.seen :
            handle' = [handle EXCEPT !.seen = @ \cup {x}]
    BY <1>7 DEF SearchNext, FindNext
  <2>b. PICK s, m, u :
            handle = [pat |-> PatternOf[argv[i]], seen |-> s, may |-> m, must |-> u]
    BY <2>1 DEF Searching
  <2>c. handle.seen = s /\ handle.may = m /\ handle.must = u
    BY <2>b
  <2>d. handle' = [pat |-> PatternOf[argv[i]], seen |-> s \cup {x}, may |-> m, must |-> u]
    BY <2>2, <2>b, HandleExcept
  <2>a. handle' = [pat |-> PatternOf[argv[i]], seen |-> handle.seen \cup {x},
                   may |-> handle.may, must |-> handle.must]
    BY <2>c, <2>d
  <2>3. /\ handle'.pat = handle.pat /\ handle'.may = handle.may /\ handle'.must = handle.must
        /\ handle'.seen = handle.seen \cup {x}
        /\ handle' = [pat  |-> PatternOf[argv'[i']], seen |-> handle'.seen,
                      may  |-> handle'.may,         must |-> handle'.must]
    BY <2>1, <2>a DEF Searching
  <2>4. /\ Matches(handle.pat, always)' = Matches(handle.pat, always)
        /\ Matches(handle.pat, ever)' = Matches(handle.pat, ever)
    BY <2>1, <2>3 DEF Matches
  <2>5. Sought(i)'
    BY <1>2, <2>1 DEF Searching
  <2> QED BY <2>1, <2>3, <2>4, <2>5 DEF Searching
<1>8. CASE Others
  <2>1. /\ UNCHANGED <<argv, pc, i, searched>> /\ Foreign
    BY <1>8 DEF Others, history
  <2>2. pc = "search"
    BY <2>1 DEF Foreign, Searching
  <2>3. Sought(i)'
    BY <1>2, <2>1, <2>2 DEF Searching
  <2>4. CASE \E x \in Paths \ disk :
                /\ ever' = ever \cup {x} /\ always' = always
                /\ handle' = [handle EXCEPT !.may = @ \cup Matches(handle.pat, {x})]
    <3>1. PICK x \in Paths \ disk :
                /\ ever' = ever \cup {x} /\ always' = always
                /\ handle' = [handle EXCEPT !.may = @ \cup Matches(handle.pat, {x})]
      BY <2>4
    <3>b. PICK s, m, u :
              handle = [pat |-> PatternOf[argv[i]], seen |-> s, may |-> m, must |-> u]
      BY <2>2 DEF Searching
    <3>c. handle.seen = s /\ handle.may = m /\ handle.must = u
      BY <3>b
    <3>d. handle' = [pat |-> PatternOf[argv[i]], seen |-> s, may |-> m \cup Matches(handle.pat, {x}),
                     must |-> u]
      BY <3>1, <3>b, HandleExcept
    <3>a. handle' = [pat |-> PatternOf[argv[i]], seen |-> handle.seen,
                     may |-> handle.may \cup Matches(handle.pat, {x}), must |-> handle.must]
      BY <3>c, <3>d
    <3>2. /\ handle'.pat = handle.pat /\ handle'.must = handle.must
          /\ handle'.seen = handle.seen
          /\ handle'.may = handle.may \cup Matches(handle.pat, {x})
          /\ handle' = [pat  |-> PatternOf[argv'[i']], seen |-> handle'.seen,
                        may  |-> handle'.may,         must |-> handle'.must]
      BY <2>1, <2>2, <3>a DEF Searching
    <3>3. /\ Matches(handle.pat, always)' = Matches(handle.pat, always)
          /\ Matches(handle.pat, ever)' = Matches(handle.pat, ever \cup {x})
      BY <3>1, <3>2 DEF Matches
    <3>4. /\ Matches(handle.pat, {x}) \subseteq Matches(handle.pat, ever \cup {x})
          /\ Matches(handle.pat, ever) \subseteq Matches(handle.pat, ever \cup {x})
      BY MatchesGrow
    <3> QED BY <2>1, <2>2, <2>3, <3>2, <3>3, <3>4 DEF Searching
  <2>5. CASE \E x \in disk \ Folders :
                /\ always' = always \ {x} /\ ever' = ever
                /\ handle' = [handle EXCEPT !.must = @ \ {x}]
    <3>1. PICK x \in disk \ Folders :
                /\ always' = always \ {x} /\ ever' = ever
                /\ handle' = [handle EXCEPT !.must = @ \ {x}]
      BY <2>5
    <3>b. PICK s, m, u :
              handle = [pat |-> PatternOf[argv[i]], seen |-> s, may |-> m, must |-> u]
      BY <2>2 DEF Searching
    <3>c. handle.seen = s /\ handle.may = m /\ handle.must = u
      BY <3>b
    <3>d. handle' = [pat |-> PatternOf[argv[i]], seen |-> s, may |-> m,
                     must |-> u \ {x}]
      BY <3>1, <3>b, HandleExcept
    <3>a. handle' = [pat |-> PatternOf[argv[i]], seen |-> handle.seen,
                     may |-> handle.may, must |-> handle.must \ {x}]
      BY <3>c, <3>d
    <3>2. /\ handle'.pat = handle.pat /\ handle'.may = handle.may
          /\ handle'.seen = handle.seen
          /\ handle'.must = handle.must \ {x}
          /\ handle' = [pat  |-> PatternOf[argv'[i']], seen |-> handle'.seen,
                        may  |-> handle'.may,         must |-> handle'.must]
      BY <2>1, <2>2, <3>a DEF Searching
    <3>3. /\ Matches(handle.pat, always)' = Matches(handle.pat, always) \ {x}
          /\ Matches(handle.pat, ever)' = Matches(handle.pat, ever)
      BY <3>1, <3>2 DEF Matches
    <3> QED BY <2>1, <2>2, <2>3, <3>2, <3>3 DEF Searching
  <2> QED BY <2>1, <2>4, <2>5 DEF Foreign
<1>9. CASE Terminated \/ UNCHANGED vars
  <2>1. UNCHANGED <<argv, pc, i, searched, handle, ever, always>>
    BY <1>9 DEF Terminated, vars, searchVars, history
  <2>2. Sought(i)' <=> Sought(i)
    BY <1>2, <2>1
  <2>3. Matches(handle.pat, always)' = Matches(handle.pat, always)
    BY <2>1 DEF Matches
  <2>4. Matches(handle.pat, ever)' = Matches(handle.pat, ever)
    BY <2>1 DEF Matches
  <2> QED BY <2>1, <2>2, <2>3, <2>4 DEF Searching
<1> QED
  BY <1>3, <1>4, <1>5, <1>6, <1>7, <1>8, <1>9 DEF Next, Step

(* What was there at some time, and all the time.                            *)
LEMMA DiskStep ==
    ASSUME CommandLineAssumption, SearchAssumption, Flow, Disk, Searching, [Next]_vars
    PROVE  Disk'
<1>1. CASE DryRun \/ Unrecognized \/ Cred \/ Time \/ Wait \/ Number
  <2>1. UNCHANGED searchVars
    BY <1>1, OptionMovesOn DEF Flow
  <2> QED BY <2>1 DEF Disk, searchVars
<1>2. CASE Others
  <2>1. /\ foreign < MaxForeign /\ foreign' = foreign + 1
        /\ \/ \E x \in Paths \ disk :
                 disk' = disk \cup {x} /\ ever' = ever \cup {x} /\ always' = always
           \/ \E x \in disk \ Folders :
                 disk' = disk \ {x} /\ always' = always \ {x} /\ ever' = ever
    BY <1>2 DEF Others, Foreign
  <2>2. MaxForeign \in Nat
    BY DEF SearchAssumption
  <2> QED BY <2>1, <2>2 DEF Disk
<1>3. CASE \/ Start \/ SearchFirst \/ SearchNothing \/ SearchNext \/ SearchEnds \/ NoValue
           \/ ArgsEnd \/ Terminated \/ UNCHANGED vars
  <2>1. UNCHANGED <<disk, foreign, ever, always>>
    BY <1>3 DEF Start, SearchFirst, SearchNothing, SearchNext, SearchEnds, NoValue, ArgsEnd,
       Terminated, vars, searchVars, FindFirst, FindNext, NoneFound, NoMoreFiles
  <2> QED BY <2>1 DEF Disk
<1> QED BY <1>1, <1>2, <1>3 DEF Next, Step

-----------------------------------------------------------------------------
(* What was searched for.                                                    *)

LEMMA SoughtBetween ==
    ASSUME NEW m, StepsTo(m), NEW k \in i + 1 .. m - 1 PROVE ~ Sought(k)
BY DEF StepsTo, Sought, Consumed, Of

LEMMA OneMoreSearched ==
    ASSUME SearchedSoFar, Now = i, i \in 1 .. Len(argv), Sought(i),
           UNCHANGED <<program, argv>>, searched' = Append(searched, i), Now' = i + 1
    PROVE  SearchedSoFar'
<1>1. /\ searched \in Seq(1 .. Len(argv)) /\ i \in Nat
      /\ \A j, k \in DOMAIN searched : j < k => searched[j] < searched[k]
      /\ \A j \in DOMAIN searched : searched[j] < i /\ Sought(searched[j])
      /\ \A k \in DOMAIN argv : k < i /\ Sought(k) => \E j \in DOMAIN searched : searched[j] = k
  BY DEF SearchedSoFar
<1>2. \A k : Sought(k)' <=> Sought(k)
  BY SoughtStays
<1>3. /\ searched' \in Seq(1 .. Len(argv)) /\ Len(searched') = Len(searched) + 1
      /\ DOMAIN searched = 1 .. Len(searched) /\ Len(searched) \in Nat
      /\ \A j \in DOMAIN searched : searched'[j] = searched[j] /\ searched[j] \in Nat
      /\ searched'[Len(searched) + 1] = i
      /\ DOMAIN searched' = DOMAIN searched \cup {Len(searched) + 1}
  BY <1>1
<1>4. \A j, k \in DOMAIN searched' : j < k => searched'[j] < searched'[k]
  <2> SUFFICES ASSUME NEW j \in DOMAIN searched', NEW k \in DOMAIN searched', j < k
               PROVE  searched'[j] < searched'[k]
    OBVIOUS
  <2>1. j \in DOMAIN searched
    BY <1>3
  <2>2. CASE k \in DOMAIN searched
    BY <1>1, <1>3, <2>1, <2>2
  <2>3. CASE k = Len(searched) + 1
    BY <1>1, <1>3, <2>1, <2>3
  <2> QED BY <1>3, <2>2, <2>3
<1>5. \A j \in DOMAIN searched' : searched'[j] < i + 1 /\ Sought(searched'[j])
  <2>1. \A j \in DOMAIN searched : searched[j] < i + 1
    BY <1>1, <1>3
  <2> QED BY <1>1, <1>3, <2>1
<1>6. ASSUME NEW k \in DOMAIN argv, k < i + 1, Sought(k)
      PROVE  \E j \in DOMAIN searched' : searched'[j] = k
  <2>1. CASE k = i
    BY <1>3, <2>1
  <2>2. CASE k < i
    BY <1>1, <1>3, <1>6, <2>2
  <2>3. k \in Nat
    BY <1>6
  <2> QED BY <1>1, <1>6, <2>1, <2>2, <2>3
<1> QED
  BY <1>2, <1>3, <1>4, <1>5, <1>6 DEF SearchedSoFar

LEMMA NoMoreSearched ==
    ASSUME SearchedSoFar, argv \in Seq(Args), UNCHANGED <<program, argv, searched>>,
           Now \in Nat, Now' \in Nat, Now <= Now',
           \A k \in Now .. Now' - 1 : ~ Sought(k)
    PROVE  SearchedSoFar'
<1>1. /\ searched \in Seq(1 .. Len(argv))
      /\ \A j, k \in DOMAIN searched : j < k => searched[j] < searched[k]
      /\ \A j \in DOMAIN searched : searched[j] < Now /\ Sought(searched[j])
      /\ \A k \in DOMAIN argv : k < Now /\ Sought(k) => \E j \in DOMAIN searched : searched[j] = k
  BY DEF SearchedSoFar
<1>2. \A k : Sought(k)' <=> Sought(k)
  BY SoughtStays
<1> DEFINE a == Now
           b == Now'
<1> HIDE DEF a, b
<1>3. a \in Nat /\ b \in Nat /\ a <= b /\ \A k \in a .. b - 1 : ~ Sought(k)
  BY DEF a, b
<1>4. \A j \in DOMAIN searched : searched[j] < b /\ Sought(searched[j])
  <2>1. \A j \in DOMAIN searched : searched[j] \in Int /\ searched[j] < a
    BY <1>1 DEF a
  <2> QED BY <1>1, <1>3, <2>1
<1>5. \A k \in DOMAIN argv : k < b /\ Sought(k) => k < a
  <2>1. \A k \in DOMAIN argv : k \in Int
    OBVIOUS
  <2> QED BY <1>3, <2>1
<1> QED BY <1>1, <1>2, <1>4, <1>5 DEF SearchedSoFar, a, b

LEMMA SearchedStep ==
    ASSUME CommandLineAssumption, Flow, Searching, SearchedSoFar, [Next]_vars
    PROVE  SearchedSoFar'
<1>0. UNCHANGED <<program, argv>> /\ i \in Nat /\ argv \in Seq(Args)
  BY LineStays DEF Flow, Line
<1>1. CASE DryRun \/ Unrecognized \/ Cred \/ Time \/ Wait \/ Number
  <2>1. MovesOn /\ UNCHANGED <<pc, searched>> /\ ~ Sought(i)
    BY <1>1, OptionMovesOn DEF Flow
  <2>2. pc = "args" /\ StepsTo(i') /\ i' \in i + 1 .. Len(argv) + 1
    BY <2>1 DEF MovesOn, StepsTo
  <2>3. \A k \in i + 1 .. i' - 1 : ~ Sought(k)
    BY <2>2, SoughtBetween
  <2>4. \A k \in i .. i' - 1 : ~ Sought(k)
    BY <1>0, <2>1, <2>3
  <2>5. Now = i /\ Now' = i' /\ i' \in Nat /\ i <= i'
    BY <1>0, <2>1, <2>2 DEF Now
  <2> QED BY <1>0, <2>1, <2>4, <2>5, NoMoreSearched
<1>2. CASE SearchNothing
  <2>1. MovesOn /\ i' = i + 1 /\ Sought(i)
    BY <1>2, SearchMovesOn DEF Flow
  <2>2. pc = "args" /\ searched' = Append(searched, i) /\ i \in 1 .. Len(argv)
    BY <1>0, <1>2, <2>1 DEF SearchNothing, At, MovesOn, Flow, Line
  <2>3. Now = i /\ Now' = i + 1
    BY <2>1, <2>2 DEF Now, MovesOn
  <2> QED BY <1>0, <2>1, <2>2, <2>3, OneMoreSearched
<1>3. CASE SearchFirst
  <2>1. /\ pc = "args" /\ pc' = "search" /\ i \in 1 .. Len(argv) /\ Sought(i) /\ i' = i
        /\ searched' = Append(searched, i)
    BY <1>3, SearchFirstIs DEF Flow
  <2>2. Now = i /\ Now' = i + 1
    BY <2>1 DEF Now
  <2> QED BY <1>0, <2>1, <2>2, OneMoreSearched
<1>4. CASE \/ Start \/ SearchNext \/ SearchEnds \/ NoValue \/ ArgsEnd \/ Others \/ Terminated
           \/ UNCHANGED vars
  <2>1. searched' = searched /\ Now' = Now
    BY <1>4 DEF Start, SearchNext, SearchEnds, NoValue, ArgsEnd, Others, Terminated, vars, Now, At, history
  <2>2. Now \in Nat
    BY <1>0 DEF Now
  <2>3. \A k \in Now .. Now - 1 : FALSE
    BY <2>2
  <2> QED BY <1>0, <2>1, <2>2, <2>3, NoMoreSearched
<1> QED BY <1>1, <1>2, <1>3, <1>4 DEF Next, Step

-----------------------------------------------------------------------------
(* What was taken.                                                           *)

LEMMA ValuesStay ==
    ASSUME UNCHANGED <<program, argv>>
    PROVE  \A k : /\ Consumed(k)' <=> Consumed(k)
                  /\ ValueOf(k)' <=> ValueOf(k)
                  /\ TimeOf(k)' <=> TimeOf(k)
<1>1. /\ \A k : Consumed(k)' <=> Consumed(k)
      /\ \A k, o : Is(k, o)' <=> Is(k, o)
      /\ Given("c")' = Given("c")
  BY SameLine
<1>2. SUFFICES ASSUME NEW k
               PROVE  /\ Consumed(k)' <=> Consumed(k)
                      /\ ValueOf(k)' <=> ValueOf(k)
                      /\ TimeOf(k)' <=> TimeOf(k)
  OBVIOUS
<1>3. (HasInt(k)' <=> HasInt(k)) /\ (HasFloat(k)' <=> HasFloat(k))
  BY DEF HasInt, HasFloat
<1>4. /\ \A o : Is(k - 1, o)' <=> Is(k - 1, o)
      /\ Is(k - 2, "t")' <=> Is(k - 2, "t")
  BY <1>1
<1>5. \A p : Of(p)' <=> Of(p)
  BY DEF Of
<1>6. (k - 1 \in Given("c"))' <=> k - 1 \in Given("c")
  BY <1>1
<1>7. ValueOf(k)' <=> ValueOf(k)
  BY <1>3, <1>4, <1>5, <1>6, Zenon DEF ValueOf
<1>8. TimeOf(k)' <=> TimeOf(k)
  BY <1>3, <1>4, <1>5, Zenon DEF TimeOf
<1> QED BY <1>1, <1>7, <1>8

(* An argument that is a value gives none.                                   *)
LEMMA ValueTakesNone ==
    ASSUME CommandLineAssumption, Line, NEW k \in 1 .. Len(argv), Consumed(k)
    PROVE  ~ ValueOf(k + 1) /\ ~ TimeOf(k + 2)
<1>1. k \in Nat /\ (k + 1) - 1 = k /\ (k + 2) - 2 = k /\ argv \in Seq(Args)
  BY DEF Line
<1>2. CASE Of("Auth")
  BY <1>1, <1>2 DEF ValueOf, TimeOf, Of, Given
<1>3. CASE Of("Checker")
  <2>1. HasInt(k) \/ HasFloat(k)
    BY <1>3 DEF Consumed, Of
  <2>2. ~ Is(k, "t") /\ ~ Is(k, "w") /\ ~ Is(k, "n")
    BY <1>1, <2>1, NumberIsNoOption
  <2> QED BY <1>1, <1>3, <2>2 DEF ValueOf, TimeOf, Of
<1>4. CASE Of("Renamer")
  BY <1>4 DEF Consumed, Of
<1> QED BY <1>2, <1>3, <1>4 DEF Line, Of, Programs

(* Nor does one that is searched for.                                        *)
LEMMA PatternTakesNone ==
    ASSUME Line, Sought(i) PROVE ~ ValueOf(i + 1) /\ ~ TimeOf(i + 2)
<1>1. i \in Nat /\ (i + 1) - 1 = i /\ (i + 2) - 2 = i
  BY DEF Line
<1>2. ~ Of("Renamer") => \A o : o # "none" => ~ Is(i, o)
  BY DEF Sought, Is
<1> QED BY <1>1, <1>2 DEF ValueOf, TimeOf, Of, Given

(* What an argument in turn takes.                                           *)
Takes(k) == k = i \/ (k = i + 1 /\ ValueOf(k)) \/ (k = i + 2 /\ TimeOf(k))

LEMMA TakenIs ==
    ASSUME CommandLineAssumption, Line, InTurn, NEW k \in 1 .. Len(argv),
           uses \in [1 .. Len(argv) -> Nat],
           \/ DryRun \/ Unrecognized \/ Cred \/ Time \/ Wait \/ Number
    PROVE  /\ uses' \in [1 .. Len(argv) -> Nat]
           /\ uses'[k] = uses[k] + Once(Takes(k))
<1>0. i \in 1 .. Len(argv) + 1 /\ Len(argv) \in Nat /\ argv \in Seq(Args)
  BY DEF Line
<1>1. ASSUME NEW K, Taken(K), k \in K <=> Takes(k)
      PROVE  /\ uses' \in [1 .. Len(argv) -> Nat]
             /\ uses'[k] = uses[k] + Once(Takes(k))
  BY <1>1 DEF Taken, Once
<1>2. CASE DryRun \/ Unrecognized
  <2>1. Taken({i})
    BY <1>2 DEF DryRun, Unrecognized
  <2>2. PICK o : /\ At(o) /\ o \in {"dry-run", "unknown", "t", "w", "n", "c"}
                 /\ Of("Auth") => o # "c"
                 /\ Of("Checker") => o \notin {"t", "w", "n"}
    <3>1. At("dry-run") \/ NotItsOwn
      BY <1>2 DEF DryRun, Unrecognized
    <3>2. CASE At("dry-run")
      BY <3>2
    <3>3. CASE NotItsOwn
      <4>1. CASE At("unknown")
        BY <4>1
      <4>2. CASE Of("Auth") /\ \E o \in {"t", "w", "n"} : At(o)
        BY <4>2 DEF Of
      <4>3. CASE Of("Checker") /\ At("c")
        BY <4>3 DEF Of
      <4> QED BY <3>3, <4>1, <4>2, <4>3 DEF NotItsOwn
    <3> QED BY <3>1, <3>2, <3>3
  <2>3. /\ ~ Of("Renamer") /\ \A p : p # o => ~ Is(i, p)
        /\ i \in Nat /\ (i + 1) - 1 = i /\ (i + 2) - 2 = i
    BY <2>2, InOptionStep
  <2>4. ~ ValueOf(i + 1) /\ ~ TimeOf(i + 2)
    BY <2>2, <2>3 DEF ValueOf, TimeOf, Given
  <2>5. k \in {i} <=> Takes(k)
    BY <2>4 DEF Takes
  <2> QED BY <1>1, <2>1, <2>5
<1>3. CASE Cred
  <2>1. Of("Auth") /\ At("c") /\ Taken({i, i + 1})
    BY <1>3 DEF Cred
  <2>2. i \in Nat /\ (i + 1) - 1 = i /\ i \in DOMAIN argv /\ Is(i, "c") /\ ~ Consumed(i)
    BY <1>0, <2>1, InOptionStep DEF Of
  <2>3. ValueOf(i + 1) /\ ~ TimeOf(i + 2)
    BY <2>1, <2>2 DEF ValueOf, TimeOf, Given, Of
  <2>4. k \in {i, i + 1} <=> Takes(k)
    BY <2>3 DEF Takes
  <2> QED BY <1>1, <2>1, <2>4
<1>4. CASE Time
  <2> DEFINE K == {i} \cup {m \in {i + 1} : HasInt(m)} \cup {m \in {i + 2} : Timed}
  <2>1. Of("Checker") /\ At("t") /\ Taken(K)
    BY <1>4 DEF Time
  <2>2. /\ i \in Nat /\ (i + 1) - 1 = i /\ (i + 2) - 2 = i /\ ~ Of("Auth")
        /\ Is(i, "t") /\ \A p : p # "t" => ~ Is(i, p)
    BY <2>1, InOptionStep DEF Of
  <2>3. Timed <=> HasFloat(i + 2)
    BY <1>0, <2>2 DEF Timed, HasFloat
  <2>4. (ValueOf(i + 1) <=> HasInt(i + 1)) /\ (TimeOf(i + 2) <=> Timed)
    BY <2>1, <2>2, <2>3 DEF ValueOf, TimeOf
  <2>5. k \in K <=> Takes(k)
    BY <2>4 DEF Takes
  <2> QED BY <1>1, <2>1, <2>5
<1>5. CASE Wait
  <2> DEFINE K == {i} \cup {m \in {i + 1} : HasFloat(m)}
  <2>1. Of("Checker") /\ At("w") /\ Taken(K)
    BY <1>5 DEF Wait
  <2>2. /\ i \in Nat /\ (i + 1) - 1 = i /\ (i + 2) - 2 = i /\ ~ Of("Auth")
        /\ Is(i, "w") /\ \A p : p # "w" => ~ Is(i, p)
    BY <2>1, InOptionStep DEF Of
  <2>3. (ValueOf(i + 1) <=> HasFloat(i + 1)) /\ ~ TimeOf(i + 2)
    BY <2>1, <2>2 DEF ValueOf, TimeOf
  <2>4. k \in K <=> Takes(k)
    BY <2>3 DEF Takes
  <2> QED BY <1>1, <2>1, <2>4
<1>6. CASE Number
  <2> DEFINE K == {i} \cup {m \in {i + 1} : HasInt(m)}
  <2>1. Of("Checker") /\ At("n") /\ Taken(K)
    BY <1>6 DEF Number
  <2>2. /\ i \in Nat /\ (i + 1) - 1 = i /\ (i + 2) - 2 = i /\ ~ Of("Auth")
        /\ Is(i, "n") /\ \A p : p # "n" => ~ Is(i, p)
    BY <2>1, InOptionStep DEF Of
  <2>3. (ValueOf(i + 1) <=> HasInt(i + 1)) /\ ~ TimeOf(i + 2)
    BY <2>1, <2>2 DEF ValueOf, TimeOf
  <2>4. k \in K <=> Takes(k)
    BY <2>3 DEF Takes
  <2> QED BY <1>1, <2>1, <2>4
<1> QED
  BY <1>2, <1>3, <1>4, <1>5, <1>6

(* The three counts of an argument as the loop moves on from i to m: those   *)
(* between take nothing.                                                     *)
LEMMA CountsMoveOn ==
    ASSUME CommandLineAssumption, Line, i <= Len(argv), NEW m, StepsTo(m), ~ Consumed(i),
           NEW k \in 1 .. Len(argv)
    PROVE  /\ k < m /\ ~ Consumed(k) <=> (k < i \/ k = i) /\ ~ Consumed(k)
           /\ k - 1 < m /\ ValueOf(k) <=> (k - 1 < i \/ k = i + 1) /\ ValueOf(k)
           /\ k - 2 < m /\ TimeOf(k) <=> (k - 2 < i \/ k = i + 2) /\ TimeOf(k)
<1>1. /\ i \in Nat /\ Len(argv) \in Nat /\ k \in Nat /\ m \in Nat /\ m > i
      /\ m \in i + 1 .. Len(argv) + 1 /\ i >= 1 /\ 1 <= k /\ k <= Len(argv)
      /\ \A j \in i + 1 .. m - 1 : Consumed(j)
  BY DEF Line, StepsTo
<1>2. ASSUME NEW n \in {0, 1, 2}, k - n < m, ~ (k - n < i \/ k = i + n)
      PROVE  k - n \in i + 1 .. m - 1 /\ k - n \in 1 .. Len(argv)
  BY <1>1, <1>2
<1>3. \A j \in 1 .. Len(argv) : Consumed(j) => ~ ValueOf(j + 1) /\ ~ TimeOf(j + 2)
  BY ValueTakesNone
<1>4. k < m /\ ~ Consumed(k) => k < i \/ k = i
  <2> SUFFICES ASSUME k < m, ~ (k < i \/ k = i) PROVE Consumed(k)
    OBVIOUS
  <2>1. k \in i + 1 .. m - 1
    BY <1>1
  <2> QED BY <1>1, <2>1
<1>5. k - 1 < m /\ ValueOf(k) => k - 1 < i \/ k = i + 1
  <2> SUFFICES ASSUME k - 1 < m, ~ (k - 1 < i \/ k = i + 1) PROVE ~ ValueOf(k)
    OBVIOUS
  <2>1. k - 1 \in i + 1 .. m - 1 /\ k - 1 \in 1 .. Len(argv) /\ (k - 1) + 1 = k
    BY <1>1
  <2>2. ~ ValueOf((k - 1) + 1)
    BY <1>1, <1>3, <2>1, Zenon
  <2> QED BY <2>1, <2>2
<1>6. k - 2 < m /\ TimeOf(k) => k - 2 < i \/ k = i + 2
  <2> SUFFICES ASSUME k - 2 < m, ~ (k - 2 < i \/ k = i + 2) PROVE ~ TimeOf(k)
    OBVIOUS
  <2>1. k - 2 \in i + 1 .. m - 1 /\ k - 2 \in 1 .. Len(argv) /\ (k - 2) + 2 = k
    BY <1>1
  <2>2. ~ TimeOf((k - 2) + 2)
    BY <1>1, <1>3, <2>1, Zenon
  <2> QED BY <2>1, <2>2
<1>7. /\ k < i \/ k = i => k < m
      /\ k - 1 < i \/ k = i + 1 => k - 1 < m
      /\ k - 2 < i \/ k = i + 2 => k - 2 < m
  BY <1>1
<1> QED BY <1>4, <1>5, <1>6, <1>7

LEMMA UsesStep ==
    ASSUME CommandLineAssumption, Flow, Searching, UsesSoFar, [Next]_vars
    PROVE  UsesSoFar'
<1>0. /\ UNCHANGED <<program, argv>> /\ i \in Nat /\ argv \in Seq(Args) /\ Line /\ InTurn
      /\ Len(argv) \in Nat /\ uses \in [1 .. Len(argv) -> Nat]
  BY LineStays DEF Flow, Line, UsesSoFar
<1>1. \A k : /\ Consumed(k)' <=> Consumed(k)
             /\ ValueOf(k)' <=> ValueOf(k)
             /\ TimeOf(k)' <=> TimeOf(k)
  BY <1>0, ValuesStay
<1>2. CASE DryRun \/ Unrecognized \/ Cred \/ Time \/ Wait \/ Number
  <2>1. MovesOn /\ UNCHANGED pc
    BY <1>0, <1>2, OptionMovesOn
  <2>2. /\ pc = "args" /\ StepsTo(i') /\ i' \in Nat /\ i < i' /\ i <= Len(argv)
        /\ ~ Consumed(i) /\ Now = i /\ Now' = i'
    <3>1. /\ pc = "args" /\ pc' = "args" /\ StepsTo(i') /\ i <= Len(argv) /\ ~ Consumed(i)
      BY <2>1 DEF MovesOn
    <3>2. i' \in i + 1 .. Len(argv) + 1
      BY <3>1 DEF StepsTo
    <3> QED BY <1>0, <3>1, <3>2 DEF Now
  <2> SUFFICES ASSUME NEW k \in 1 .. Len(argv)
               PROVE  /\ uses' \in [1 .. Len(argv) -> Nat]
                      /\ uses'[k] = Once(k < i' /\ ~ Consumed(k))
                                    + Once(k - 1 < i' /\ ValueOf(k))
                                    + Once(k - 2 < i' /\ TimeOf(k))
    <3>1. 1 .. Len(argv) # {}
      <4>1. i >= 1
        BY <1>0 DEF Line
      <4>2. i \in 1 .. Len(argv)
        BY <1>0, <2>2, <4>1
      <4> QED BY <4>2
    <3>2. uses' \in [1 .. Len(argv) -> Nat]
      BY <3>1
    <3>3. \A k \in 1 .. Len(argv) :
              uses'[k] = Once(k < Now' /\ ~ Consumed(k)') + Once(k - 1 < i' /\ ValueOf(k)')
                         + Once(k - 2 < i' /\ TimeOf(k)')
      BY <1>1, <2>2
    <3> QED BY <1>0, <3>2, <3>3 DEF UsesSoFar
  <2>3. /\ uses' \in [1 .. Len(argv) -> Nat]
        /\ uses'[k] = uses[k] + Once(Takes(k))
    BY <1>0, <1>2, TakenIs
  <2>4. uses[k] = Once(k < i /\ ~ Consumed(k)) + Once(k - 1 < i /\ ValueOf(k))
                  + Once(k - 2 < i /\ TimeOf(k))
    BY <2>2 DEF UsesSoFar
  <2>5. /\ k < i' /\ ~ Consumed(k) <=> (k < i \/ k = i) /\ ~ Consumed(k)
        /\ k - 1 < i' /\ ValueOf(k) <=> (k - 1 < i \/ k = i + 1) /\ ValueOf(k)
        /\ k - 2 < i' /\ TimeOf(k) <=> (k - 2 < i \/ k = i + 2) /\ TimeOf(k)
    BY <1>0, <2>2, CountsMoveOn
  <2> QED BY <1>0, <2>2, <2>3, <2>4, <2>5 DEF Takes, Once
<1>3. CASE SearchFirst \/ SearchNothing
  <2>1. /\ pc = "args" /\ Taken({i}) /\ i \in 1 .. Len(argv) /\ Sought(i) /\ ~ Consumed(i)
        /\ Now' = i + 1 /\ Now = i /\ i' \in {i, i + 1}
    <3>0. At("none") /\ Taken({i})
      BY <1>3 DEF SearchFirst, SearchNothing
    <3>1. pc = "args" /\ Taken({i}) /\ i \in 1 .. Len(argv) /\ Sought(i)
      BY <1>0, <3>0, InOptionStep DEF Sought
    <3>2. Now' = i + 1 /\ Now = i /\ i' \in {i, i + 1}
      BY <1>3, <3>1 DEF SearchFirst, SearchNothing, Now
    <3> QED BY <1>0, <3>1, <3>2 DEF InTurn
  <2> SUFFICES ASSUME NEW k \in 1 .. Len(argv)
               PROVE  uses'[k] = Once(k < i + 1 /\ ~ Consumed(k))
                                 + Once(k - 1 < i' /\ ValueOf(k))
                                 + Once(k - 2 < i' /\ TimeOf(k))
    <3>1. uses' \in [1 .. Len(argv) -> Nat]
      BY <1>0, <2>1 DEF Taken
    <3>3. \A k \in 1 .. Len(argv) :
              uses'[k] = Once(k < Now' /\ ~ Consumed(k)') + Once(k - 1 < i' /\ ValueOf(k)')
                         + Once(k - 2 < i' /\ TimeOf(k)')
      BY <1>1, <2>1
    <3> QED BY <1>0, <3>1, <3>3 DEF UsesSoFar
  <2>2. uses'[k] = uses[k] + Once(k = i)
    <3>1. uses \in [1 .. Len(argv) -> Nat]
      BY <1>0
    <3>2. uses'[k] = IF k \in {i} THEN uses[k] + 1 ELSE uses[k]
      BY <2>1, <3>1 DEF Taken
    <3>3. uses[k] \in Nat
      BY <3>1
    <3> QED BY <3>2, <3>3 DEF Once
  <2>3. uses[k] = Once(k < i /\ ~ Consumed(k)) + Once(k - 1 < i /\ ValueOf(k))
                  + Once(k - 2 < i /\ TimeOf(k))
    BY <2>1 DEF UsesSoFar
  <2>4. ~ ValueOf(i + 1) /\ ~ TimeOf(i + 2)
    BY <1>0, <2>1, PatternTakesNone
  <2>5. /\ k - 1 < i' /\ ValueOf(k) <=> k - 1 < i /\ ValueOf(k)
        /\ k - 2 < i' /\ TimeOf(k) <=> k - 2 < i /\ TimeOf(k)
    <3>1. k \in Nat /\ (k - 1 < i + 1 <=> k - 1 < i \/ k = i + 1)
          /\ (k - 2 < i + 1 <=> k - 2 < i \/ k = i + 2)
      BY <1>0
    <3> QED BY <2>1, <2>4, <3>1
  <2> QED BY <1>0, <2>1, <2>2, <2>3, <2>5 DEF Once
<1>4. CASE SearchEnds
  <2>1. /\ pc = "search" /\ pc' = "args" /\ i' = i + 1 /\ uses' = uses /\ Sought(i)
    BY <1>0, <1>4, SearchMovesOn DEF SearchEnds, history
  <2>2. Now = i + 1 /\ Now' = i + 1
    BY <2>1 DEF Now
  <2>3. ~ ValueOf(i + 1) /\ ~ TimeOf(i + 2)
    BY <1>0, <2>1, PatternTakesNone
  <2> SUFFICES ASSUME NEW k \in 1 .. Len(argv)
               PROVE  uses[k] = Once(k < i + 1 /\ ~ Consumed(k))
                                + Once(k - 1 < i + 1 /\ ValueOf(k))
                                + Once(k - 2 < i + 1 /\ TimeOf(k))
    <3>3. \A k \in 1 .. Len(argv) :
              uses'[k] = Once(k < Now' /\ ~ Consumed(k)') + Once(k - 1 < i' /\ ValueOf(k)')
                         + Once(k - 2 < i' /\ TimeOf(k)')
      BY <1>1, <2>1, <2>2
    <3> QED BY <1>0, <2>1, <3>3 DEF UsesSoFar
  <2>4. uses[k] = Once(k < i + 1 /\ ~ Consumed(k)) + Once(k - 1 < i /\ ValueOf(k))
                  + Once(k - 2 < i /\ TimeOf(k))
    BY <2>2 DEF UsesSoFar
  <2>5. k \in Nat /\ (k - 1 < i + 1 <=> k - 1 < i \/ k = i + 1)
        /\ (k - 2 < i + 1 <=> k - 2 < i \/ k = i + 2)
    BY <1>0
  <2> QED BY <2>3, <2>4, <2>5
<1>5. CASE \/ Start \/ SearchNext \/ NoValue \/ ArgsEnd \/ Others \/ Terminated
           \/ UNCHANGED vars
  <2>1. uses' = uses /\ Now' = Now /\ i' = i
    BY <1>5 DEF Start, SearchNext, NoValue, ArgsEnd, Others, Terminated, vars, Now, At, history
  <2>2. \A k \in 1 .. Len(argv) :
            uses'[k] = Once(k < Now' /\ ~ Consumed(k)') + Once(k - 1 < i' /\ ValueOf(k)')
                       + Once(k - 2 < i' /\ TimeOf(k)')
    BY <1>1, <2>1 DEF UsesSoFar
  <2> QED BY <1>0, <2>1, <2>2 DEF UsesSoFar
<1> QED BY <1>2, <1>3, <1>4, <1>5 DEF Next, Step

-----------------------------------------------------------------------------
(* The settings.                                                             *)

(* The options up to now are one more if the one that is done with is one.   *)
LEMMA OneMoreGiven ==
    ASSUME Line, MovesOn, NEW o
    PROVE  Before(Given(o))' = Before(Given(o)) \cup (IF Is(i, o) THEN {i} ELSE {})
<1>1. Given(o)' = Given(o)
  BY SameLine DEF MovesOn
<1>2. /\ i \in 1 .. Len(argv) /\ i \in Nat /\ Len(argv) \in Nat /\ ~ Consumed(i)
      /\ i' \in i + 1 .. Len(argv) + 1 /\ \A k \in i + 1 .. i' - 1 : Consumed(k)
  <2>1. StepsTo(i') /\ i <= Len(argv) /\ i \in 1 .. Len(argv) + 1 /\ argv \in Seq(Args)
    BY DEF MovesOn, Line
  <2>2. i \in 1 .. Len(argv) /\ i \in Nat /\ Len(argv) \in Nat
    BY <2>1
  <2> QED BY <2>1, <2>2 DEF MovesOn, StepsTo
<1>3. \A k \in Given(o) : k \in 1 .. Len(argv) /\ ~ Consumed(k)
  BY DEF Given, Line
<1>4. \A k \in Given(o) : k < i' <=> k < i \/ k = i
  <2>1. i' \in Nat /\ i < i'
    BY <1>2
  <2>2. ASSUME NEW k \in Given(o), k < i' PROVE k <= i
    <3>1. k \in Nat /\ i \in Nat
      BY <1>2, <1>3
    <3>2. k \notin i + 1 .. i' - 1
      BY <1>2, <1>3, Zenon
    <3>3. \A n \in Nat : k < n /\ k \notin i + 1 .. n - 1 => k <= i
      BY <3>1
    <3> QED BY <2>1, <2>2, <3>2, <3>3
  <2>3. \A k \in Given(o) : k \in Nat
    BY <1>3
  <2> QED BY <1>2, <2>1, <2>2, <2>3
<1>5. i \in Given(o) <=> Is(i, o)
  BY <1>2 DEF Given
<1>6. Before(Given(o))' = {k \in Given(o) : k < i'}
  BY <1>1 DEF Before
<1> QED BY <1>4, <1>5, <1>6 DEF Before

LEMMA OneMoreValue ==
    ASSUME Line, MovesOn, NEW o, NEW n
    PROVE  /\ IntsOf(o)' = IntsOf(o) \cup (IF Is(i, o) /\ HasInt(i + 1) THEN {i} ELSE {})
           /\ FloatsOf(o, n)'
              = FloatsOf(o, n) \cup (IF Is(i, o) /\ HasFloat(i + n) THEN {i} ELSE {})
<1>1. argv' = argv
  BY DEF MovesOn
<1>2. \A k : (HasInt(k)' <=> HasInt(k)) /\ (HasFloat(k)' <=> HasFloat(k))
  BY <1>1 DEF HasInt, HasFloat
<1>3. Before(Given(o))' = Before(Given(o)) \cup (IF Is(i, o) THEN {i} ELSE {})
  BY OneMoreGiven
<1>4. /\ IntsOf(o)' = {k \in Before(Given(o))' : HasInt(k + 1)}
      /\ FloatsOf(o, n)' = {k \in Before(Given(o))' : HasFloat(k + n)'}
  BY <1>2 DEF IntsOf, FloatsOf
<1>5. IntsOf(o)' = IntsOf(o) \cup (IF Is(i, o) /\ HasInt(i + 1) THEN {i} ELSE {})
  BY <1>3, <1>4 DEF IntsOf
<1>6. FloatsOf(o, n)' = {k \in Before(Given(o))' : HasFloat(k + n)}
  BY <1>2 DEF FloatsOf
<1>7. FloatsOf(o, n)' = FloatsOf(o, n) \cup (IF Is(i, o) /\ HasFloat(i + n) THEN {i} ELSE {})
  BY <1>3, <1>6 DEF FloatsOf
<1> QED BY <1>5, <1>7

(* The one that is done with is the last up to now.                          *)
LEMMA TheLast ==
    ASSUME Line, i <= Len(argv), NEW K \in SUBSET Nat, \A k \in K : k < i
    PROVE  K \cup {i} # {} /\ Max(K \cup {i}) = i
<1>1. i \in Nat /\ K \cup {i} \subseteq Int /\ \A k \in K \cup {i} : k <= i
  BY DEF Line
<1> QED BY <1>1, MaxIs

LEMMA BeforeNow ==
    ASSUME Line, NEW o
    PROVE  /\ Before(Given(o)) \in SUBSET Nat /\ \A k \in Before(Given(o)) : k < i
           /\ IntsOf(o) \in SUBSET Nat /\ \A k \in IntsOf(o) : k < i
           /\ \A n : FloatsOf(o, n) \in SUBSET Nat /\ \A k \in FloatsOf(o, n) : k < i
BY DEF Before, Given, IntsOf, FloatsOf, Line

LEMMA CredentialStep ==
    ASSUME Line, MovesOn, CredentialSoFar,
           credential' = IF Is(i, "c") THEN argv[i + 1] ELSE credential
    PROVE  CredentialSoFar'
<1> DEFINE K == Before(Given("c"))
<1>1. K' = K \cup (IF Is(i, "c") THEN {i} ELSE {}) /\ argv' = argv /\ i <= Len(argv)
  BY OneMoreGiven DEF MovesOn
<1>2. K \cup {i} # {} /\ Max(K \cup {i}) = i
  BY <1>1, BeforeNow, TheLast
<1>3. credential' = IF K' = {} THEN "auth.txt" ELSE argv[Max(K') + 1]
  <2>1. credential = IF K = {} THEN "auth.txt" ELSE argv[Max(K) + 1]
    BY DEF CredentialSoFar, LastOf
  <2> QED BY <1>1, <1>2, <2>1
<1> QED BY <1>1, <1>3 DEF CredentialSoFar, LastOf

LEMMA PeriodStep ==
    ASSUME Line, MovesOn, PeriodSoFar,
           period' = IF Is(i, "t") /\ HasInt(i + 1) THEN IntAt(i + 1) ELSE period
    PROVE  PeriodSoFar'
<1> DEFINE K == IntsOf("t")
<1>1. K' = K \cup (IF Is(i, "t") /\ HasInt(i + 1) THEN {i} ELSE {}) /\ argv' = argv
      /\ i <= Len(argv)
  BY OneMoreValue DEF MovesOn
<1>2. K \cup {i} # {} /\ Max(K \cup {i}) = i
  BY <1>1, BeforeNow, TheLast
<1>3. period' = IF K' = {} THEN -1 ELSE IntAt(Max(K') + 1)
  <2>1. period = IF K = {} THEN -1 ELSE IntAt(Max(K) + 1)
    BY DEF PeriodSoFar, LastOf
  <2> QED BY <1>1, <1>2, <2>1
<1>4. \A k : IntAt(k)' = IntAt(k)
  BY <1>1 DEF IntAt
<1> QED BY <1>3, <1>4 DEF PeriodSoFar, LastOf

LEMMA CountStep ==
    ASSUME Line, MovesOn, CountSoFar,
           ping_cnt' = IF Is(i, "n") /\ HasInt(i + 1) THEN IntAt(i + 1) ELSE ping_cnt
    PROVE  CountSoFar'
<1> DEFINE K == IntsOf("n")
<1>1. K' = K \cup (IF Is(i, "n") /\ HasInt(i + 1) THEN {i} ELSE {}) /\ argv' = argv
      /\ i <= Len(argv)
  BY OneMoreValue DEF MovesOn
<1>2. K \cup {i} # {} /\ Max(K \cup {i}) = i
  BY <1>1, BeforeNow, TheLast
<1>3. ping_cnt' = IF K' = {} THEN 0 ELSE IntAt(Max(K') + 1)
  <2>1. ping_cnt = IF K = {} THEN 0 ELSE IntAt(Max(K) + 1)
    BY DEF CountSoFar, LastOf
  <2> QED BY <1>1, <1>2, <2>1
<1>4. \A k : IntAt(k)' = IntAt(k)
  BY <1>1 DEF IntAt
<1> QED BY <1>3, <1>4 DEF CountSoFar, LastOf

LEMMA TimeoutStep ==
    ASSUME Line, MovesOn, TimeoutSoFar,
           ping_timeout' = IF Is(i, "w") /\ HasFloat(i + 1) THEN FloatAt(i + 1) ELSE ping_timeout
    PROVE  TimeoutSoFar'
<1> DEFINE K == FloatsOf("w", 1)
<1>1. K' = K \cup (IF Is(i, "w") /\ HasFloat(i + 1) THEN {i} ELSE {}) /\ argv' = argv
      /\ i <= Len(argv)
  BY OneMoreValue DEF MovesOn
<1>2. K \cup {i} # {} /\ Max(K \cup {i}) = i
  BY <1>1, BeforeNow, TheLast
<1>3. ping_timeout' = IF K' = {} THEN <<1>> ELSE FloatAt(Max(K') + 1)
  <2>1. ping_timeout = IF K = {} THEN <<1>> ELSE FloatAt(Max(K) + 1)
    BY DEF TimeoutSoFar, LastOf
  <2> QED BY <1>1, <1>2, <2>1
<1>4. \A k : FloatAt(k)' = FloatAt(k)
  BY <1>1 DEF FloatAt
<1> QED BY <1>3, <1>4 DEF TimeoutSoFar, LastOf

LEMMA WaitStep ==
    ASSUME Line, MovesOn, WaitSoFar,
           sec_per_wait' = IF Is(i, "t") /\ HasFloat(i + 2) THEN FloatAt(i + 2) ELSE sec_per_wait
    PROVE  WaitSoFar'
<1> DEFINE K == FloatsOf("t", 2)
<1>1. K' = K \cup (IF Is(i, "t") /\ HasFloat(i + 2) THEN {i} ELSE {}) /\ argv' = argv
      /\ i <= Len(argv)
  BY OneMoreValue DEF MovesOn
<1>2. K \cup {i} # {} /\ Max(K \cup {i}) = i
  BY <1>1, BeforeNow, TheLast
<1>3. sec_per_wait' = IF K' = {} THEN <<1>> ELSE FloatAt(Max(K') + 2)
  <2>1. sec_per_wait = IF K = {} THEN <<1>> ELSE FloatAt(Max(K) + 2)
    BY DEF WaitSoFar, LastOf
  <2> QED BY <1>1, <1>2, <2>1
<1>4. \A k : FloatAt(k)' = FloatAt(k)
  BY <1>1 DEF FloatAt
<1> QED BY <1>3, <1>4 DEF WaitSoFar, LastOf

(* The argument in turn is skipped with an error.                            *)
Skipped ==
    \/ Is(i, "unknown") \/ Is(i, "c")
    \/ (Is(i, "t") \/ Is(i, "n")) /\ ~ HasInt(i + 1)
    \/ Is(i, "w") /\ ~ HasFloat(i + 1)

LEMMA ErrStep ==
    ASSUME Line, MovesOn, err = 0 <=> NoneSkipped,
           err' = IF Skipped THEN 1 ELSE err
    PROVE  (err = 0)' <=> NoneSkipped'
<1> DEFINE B(o) == Before(Given(o))
<1>1. \A o : B(o)' = B(o) \cup (IF Is(i, o) THEN {i} ELSE {})
  BY OneMoreGiven
<1>2. \A o : IntsOf(o)' = IntsOf(o) \cup (IF Is(i, o) /\ HasInt(i + 1) THEN {i} ELSE {})
  BY OneMoreValue
<1>3. \A k : HasFloat(k)' <=> HasFloat(k)
  BY DEF HasFloat, MovesOn
<1>4. \A o : i \notin B(o) /\ i \notin IntsOf(o)
  BY BeforeNow DEF Line
<1>5. NoneSkipped' <=> /\ B("unknown")' \cup B("c")' = {}
                       /\ B("t")' \subseteq IntsOf("t")' /\ B("n")' \subseteq IntsOf("n")'
                       /\ \A k \in B("w")' : HasFloat(k + 1)
  BY <1>3 DEF NoneSkipped
<1>6. NoneSkipped <=> /\ B("unknown") \cup B("c") = {}
                      /\ B("t") \subseteq IntsOf("t") /\ B("n") \subseteq IntsOf("n")
                      /\ \A k \in B("w") : HasFloat(k + 1)
  BY DEF NoneSkipped
<1> HIDE DEF B
<1>7. B("unknown")' \cup B("c")' = {}
      <=> B("unknown") \cup B("c") = {} /\ ~ Is(i, "unknown") /\ ~ Is(i, "c")
  BY <1>1
<1>8. \A o : B(o)' \subseteq IntsOf(o)'
             <=> B(o) \subseteq IntsOf(o) /\ (Is(i, o) => HasInt(i + 1))
  <2> TAKE o
  <2>1. CASE Is(i, o) /\ HasInt(i + 1)
    BY <1>1, <1>2, <1>4, <2>1
  <2>2. CASE Is(i, o) /\ ~ HasInt(i + 1)
    BY <1>1, <1>2, <1>4, <2>2
  <2>3. CASE ~ Is(i, o)
    BY <1>1, <1>2, <1>4, <2>3
  <2> QED BY <2>1, <2>2, <2>3
<1>9. (\A k \in B("w")' : HasFloat(k + 1))
      <=> (\A k \in B("w") : HasFloat(k + 1)) /\ (Is(i, "w") => HasFloat(i + 1))
  BY <1>1
<1>10. NoneSkipped' <=> NoneSkipped /\ ~ Skipped
  BY <1>5, <1>6, <1>7, <1>8, <1>9 DEF Skipped
<1>11. CASE Skipped
  BY <1>10, <1>11
<1>12. CASE ~ Skipped
  BY <1>10, <1>12
<1> QED BY <1>11, <1>12

LEMMA DryRunStep ==
    ASSUME Line, MovesOn, DryRunSoFar, dryrun \in BOOLEAN,
           dryrun' = IF ~ Of("Renamer") /\ Is(i, "dry-run") THEN TRUE ELSE dryrun
    PROVE  DryRunSoFar'
<1> DEFINE K == Before(Given("dry-run"))
<1>1. K' = K \cup (IF Is(i, "dry-run") THEN {i} ELSE {}) /\ (Of("Renamer")' <=> Of("Renamer"))
  BY OneMoreGiven DEF MovesOn, Of
<1>2. dryrun <=> ~ Of("Renamer") /\ K # {}
  BY DEF DryRunSoFar
<1>3. K' # {} <=> K # {} \/ Is(i, "dry-run")
  BY <1>1
<1> HIDE DEF K
<1>4. dryrun' <=> ~ Of("Renamer") /\ K' # {}
  BY <1>2, <1>3
<1> QED BY <1>1, <1>4 DEF DryRunSoFar, K

(* What the argument that is done with sets.                                 *)
SetsWhatItSays ==
    /\ Of("Auth") => credential' = IF Is(i, "c") THEN argv[i + 1] ELSE credential
    /\ Of("Checker") =>
          /\ period' = IF Is(i, "t") /\ HasInt(i + 1) THEN IntAt(i + 1) ELSE period
          /\ ping_cnt' = IF Is(i, "n") /\ HasInt(i + 1) THEN IntAt(i + 1) ELSE ping_cnt
          /\ ping_timeout' = IF Is(i, "w") /\ HasFloat(i + 1) THEN FloatAt(i + 1)
                             ELSE ping_timeout
          /\ sec_per_wait' = IF Is(i, "t") /\ HasFloat(i + 2) THEN FloatAt(i + 2)
                             ELSE sec_per_wait
          /\ err' = IF Skipped THEN 1 ELSE err
    /\ dryrun' = IF ~ Of("Renamer") /\ Is(i, "dry-run") THEN TRUE ELSE dryrun

LEMMA Sets ==
    ASSUME CommandLineAssumption, Line, InTurn, Searching,
           \/ DryRun \/ Unrecognized \/ Cred \/ Time \/ Wait \/ Number
           \/ SearchNothing \/ SearchEnds
    PROVE  SetsWhatItSays
<1>0. Of("Auth") \/ Of("Checker") => ~ Of("Renamer")
  BY DEF Of
<1>1. CASE DryRun
  <2>1. At("dry-run") /\ UNCHANGED <<credential, period, sec_per_wait, ping_timeout, ping_cnt, err>>
        /\ dryrun' = TRUE
    BY <1>1 DEF DryRun
  <2>2. ~ Of("Renamer") /\ Is(i, "dry-run") /\ \A p : p # "dry-run" => ~ Is(i, p)
    BY <2>1, InOptionStep
  <2> QED BY <2>1, <2>2 DEF SetsWhatItSays, Skipped
<1>2. CASE Unrecognized
  <2>1. /\ NotItsOwn
        /\ UNCHANGED <<credential, dryrun, period, sec_per_wait, ping_timeout, ping_cnt>>
        /\ Of("Checker") => err' = 1
    BY <1>2 DEF Unrecognized, Fails
  <2>2. PICK o : /\ At(o) /\ o \in {"unknown", "t", "w", "n", "c"}
                 /\ Of("Auth") => o # "c"
                 /\ Of("Checker") => o \in {"unknown", "c"}
    BY <2>1 DEF NotItsOwn, Of
  <2>3. ~ Of("Renamer") /\ Is(i, o) /\ \A p : p # o => ~ Is(i, p)
    BY <2>2, InOptionStep
  <2> QED BY <2>1, <2>2, <2>3 DEF SetsWhatItSays, Skipped
<1>3. CASE Cred
  <2>1. /\ Of("Auth") /\ At("c") /\ credential' = argv[i + 1]
        /\ UNCHANGED <<dryrun, period, sec_per_wait, ping_timeout, ping_cnt, err>>
    BY <1>3 DEF Cred
  <2>2. ~ Of("Renamer") /\ Is(i, "c") /\ ~ Is(i, "dry-run")
    BY <1>0, <2>1, InOptionStep
  <2> QED BY <2>1, <2>2 DEF SetsWhatItSays, Of
<1>4. CASE Time
  <2>1. /\ Of("Checker") /\ At("t") /\ i < Len(argv) /\ UNCHANGED <<dryrun, ping_timeout, ping_cnt>>
        /\ period' = IF HasInt(i + 1) THEN IntAt(i + 1) ELSE period
        /\ sec_per_wait' = IF Timed THEN FloatAt(i + 2) ELSE sec_per_wait
        /\ err' = IF HasInt(i + 1) THEN err ELSE 1
    BY <1>4 DEF Time, Fails
  <2>2. /\ ~ Of("Renamer") /\ Is(i, "t") /\ \A p : p # "t" => ~ Is(i, p)
        /\ i \in Nat /\ Len(argv) \in Nat
    BY <1>0, <2>1, InOptionStep
  <2>3. Timed <=> HasFloat(i + 2)
    BY <2>2 DEF Timed, HasFloat
  <2>4. Skipped <=> ~ HasInt(i + 1)
    BY <2>2 DEF Skipped
  <2>5. ~ Of("Auth")
    BY <2>1 DEF Of
  <2> QED BY <2>1, <2>2, <2>3, <2>4, <2>5 DEF SetsWhatItSays
<1>5. CASE Wait
  <2>1. /\ Of("Checker") /\ At("w") /\ UNCHANGED <<dryrun, period, sec_per_wait, ping_cnt>>
        /\ ping_timeout' = IF HasFloat(i + 1) THEN FloatAt(i + 1) ELSE ping_timeout
        /\ err' = IF HasFloat(i + 1) THEN err ELSE 1
    BY <1>5 DEF Wait, Fails
  <2>2. ~ Of("Renamer") /\ Is(i, "w") /\ \A p : p # "w" => ~ Is(i, p)
    BY <1>0, <2>1, InOptionStep
  <2>4. Skipped <=> ~ HasFloat(i + 1)
    BY <2>2 DEF Skipped
  <2>5. ~ Of("Auth")
    BY <2>1 DEF Of
  <2> QED BY <2>1, <2>2, <2>4, <2>5 DEF SetsWhatItSays
<1>6. CASE Number
  <2>1. /\ Of("Checker") /\ At("n") /\ UNCHANGED <<dryrun, period, sec_per_wait, ping_timeout>>
        /\ ping_cnt' = IF HasInt(i + 1) THEN IntAt(i + 1) ELSE ping_cnt
        /\ err' = IF HasInt(i + 1) THEN err ELSE 1
    BY <1>6 DEF Number, Fails
  <2>2. ~ Of("Renamer") /\ Is(i, "n") /\ \A p : p # "n" => ~ Is(i, p)
    BY <1>0, <2>1, InOptionStep
  <2>4. Skipped <=> ~ HasInt(i + 1)
    BY <2>2 DEF Skipped
  <2>5. ~ Of("Auth")
    BY <2>1 DEF Of
  <2> QED BY <2>1, <2>2, <2>4, <2>5 DEF SetsWhatItSays
<1>7. CASE SearchNothing \/ SearchEnds
  <2>1. UNCHANGED settings
    BY <1>7 DEF SearchNothing, SearchEnds
  <2>2. Of("Renamer") \/ Is(i, "none")
    BY <1>7, SearchMovesOn DEF Sought
  <2>3. ~ Of("Renamer") => \A p : p # "none" => ~ Is(i, p)
    BY <2>2 DEF Is
  <2>4. Of("Checker") => ~ Skipped
    BY <1>0, <2>3 DEF Skipped
  <2> QED BY <1>0, <2>1, <2>3, <2>4 DEF SetsWhatItSays, settings
<1> QED BY <1>1, <1>2, <1>3, <1>4, <1>5, <1>6, <1>7

LEMMA SettingsStay ==
    ASSUME UNCHANGED <<program, argv, i, settings>>, SettingsSoFar PROVE SettingsSoFar'
<1>1. \A o : Given(o)' = Given(o)
  BY SameLine
<1>2. \A o : Before(Given(o))' = Before(Given(o))
  BY <1>1 DEF Before
<1>3. \A k : (HasInt(k)' <=> HasInt(k)) /\ (HasFloat(k)' <=> HasFloat(k))
  BY DEF HasInt, HasFloat
<1>4. \A o : IntsOf(o)' = IntsOf(o)
  BY <1>2, <1>3 DEF IntsOf
<1>5. FloatsOf("w", 1)' = FloatsOf("w", 1) /\ FloatsOf("t", 2)' = FloatsOf("t", 2)
  BY <1>2, <1>3 DEF FloatsOf
<1>6. \A k : IntAt(k)' = IntAt(k) /\ FloatAt(k)' = FloatAt(k)
  BY DEF IntAt, FloatAt
<1>7. CredentialSoFar' <=> CredentialSoFar
  BY <1>2 DEF CredentialSoFar, LastOf, settings
<1>8. PeriodSoFar' <=> PeriodSoFar
  BY <1>4, <1>6 DEF PeriodSoFar, LastOf, settings
<1>9. CountSoFar' <=> CountSoFar
  BY <1>4, <1>6 DEF CountSoFar, LastOf, settings
<1>10. TimeoutSoFar' <=> TimeoutSoFar
  BY <1>5, <1>6 DEF TimeoutSoFar, LastOf, settings
<1>11. WaitSoFar' <=> WaitSoFar
  BY <1>5, <1>6 DEF WaitSoFar, LastOf, settings
<1>12. NoneSkipped' <=> NoneSkipped
  BY <1>2, <1>3, <1>4 DEF NoneSkipped
<1>13. DryRunSoFar' <=> DryRunSoFar
  BY <1>2 DEF DryRunSoFar, settings, Of
<1>14. \A p : Of(p)' <=> Of(p)
  BY DEF Of
<1>15. err' = err
  BY DEF settings
<1> QED
  BY <1>7, <1>8, <1>9, <1>10, <1>11, <1>12, <1>13, <1>14, <1>15 DEF SettingsSoFar

LEMMA SettingsStep ==
    ASSUME CommandLineAssumption, Flow, Searching, Settings, SettingsSoFar, [Next]_vars
    PROVE  SettingsSoFar'
<1>1. UNCHANGED <<program, argv>>
  BY LineStays
<1>2. CASE \/ DryRun \/ Unrecognized \/ Cred \/ Time \/ Wait \/ Number
           \/ SearchNothing \/ SearchEnds
  <2>1. MovesOn /\ SetsWhatItSays /\ Line
    BY <1>2, OptionMovesOn, SearchMovesOn, Sets DEF Flow
  <2>2. \A p : Of(p)' <=> Of(p)
    BY <1>1 DEF Of
  <2>3. Of("Auth") => CredentialSoFar'
    BY <2>1, CredentialStep DEF SettingsSoFar, SetsWhatItSays
  <2>4. Of("Checker") => PeriodSoFar' /\ CountSoFar'
    BY <2>1, PeriodStep, CountStep DEF SettingsSoFar, SetsWhatItSays
  <2>5. Of("Checker") => TimeoutSoFar' /\ WaitSoFar'
    BY <2>1, TimeoutStep, WaitStep DEF SettingsSoFar, SetsWhatItSays
  <2>6. Of("Checker") => ((err = 0)' <=> NoneSkipped')
    BY <2>1, ErrStep DEF SettingsSoFar, SetsWhatItSays
  <2>7. DryRunSoFar'
    BY <2>1, DryRunStep DEF SettingsSoFar, SetsWhatItSays, Settings
  <2> QED BY <2>2, <2>3, <2>4, <2>5, <2>6, <2>7 DEF SettingsSoFar
<1>3. CASE \/ Start \/ SearchFirst \/ SearchNext \/ NoValue \/ ArgsEnd \/ Others \/ Terminated
           \/ UNCHANGED vars
  <2>1. UNCHANGED <<i, settings>>
    BY <1>3 DEF Start, SearchFirst, SearchNext, NoValue, ArgsEnd, Others, Terminated, vars
  <2> QED BY <1>1, <2>1, SettingsStay
<1> QED BY <1>2, <1>3 DEF Next, Step

-----------------------------------------------------------------------------
(* The types of the settings.                                                *)

(* A number read from digits and points consists of them.                    *)
LEMMA FloatIs ==
    ASSUME NEW s \in Seq(Digits \cup {Point})
    PROVE  FloatOf(s) \in Seq(Digits \cup {Point})
<1> DEFINE Firsts == {m \in 0 .. Len(s) : Cardinality({k \in 1 .. m : s[k] = Point}) <= 1}
<1>1. Firsts \subseteq Nat /\ Len(s) \in Nat /\ \A m \in Firsts : m <= Len(s)
  OBVIOUS
<1>2. 0 \in Firsts
  <2>1. {k \in 1 .. 0 : s[k] = Point} = {}
    OBVIOUS
  <2>2. Cardinality({k \in 1 .. 0 : s[k] = Point}) <= 1
    BY <2>1, FS_EmptySet
  <2> QED BY <2>2
<1>3. Firsts \subseteq 0 .. Len(s)
  OBVIOUS
<1> HIDE DEF Firsts
<1>4. Max(Firsts) \in 0 .. Len(s)
  BY <1>1, <1>2, <1>3, MaxIsGreatest
<1>5. SubSeq(s, 1, Max(Firsts)) \in Seq(Digits \cup {Point})
  BY <1>4
<1> QED BY <1>5 DEF FloatOf, Firsts

LEMMA SettingsTyped ==
    ASSUME CommandLineAssumption, Line, InTurn, Settings,
           Of("Auth") \/ Of("Checker") \/ Of("Renamer"), MovesOn, SetsWhatItSays,
           ~ Of("Auth") => credential' = credential,
           ~ Of("Checker") =>
               UNCHANGED <<period, ping_cnt, ping_timeout, sec_per_wait, err>>
    PROVE  Settings'
<1>1. credential' \in Args \cup {"auth.txt"}
  <2>1. CASE Of("Auth") /\ Is(i, "c")
    <3>1. i \in 1 .. Len(argv) /\ argv \in Seq(Args)
      BY DEF Line, MovesOn
    <3>2. i < Len(argv)
      <4>1. TakesValue(i)
        BY <2>1, <3>1 DEF TakesValue, Given, MovesOn
      <4> QED BY <4>1 DEF MovesOn
    <3>3. argv[i + 1] \in Args
      BY <3>1, <3>2
    <3> QED BY <2>1, <3>3 DEF SetsWhatItSays
  <2>2. CASE ~ (Of("Auth") /\ Is(i, "c"))
    BY <2>2 DEF SetsWhatItSays, Settings
  <2> QED BY <2>1, <2>2
<1>2. \A k : HasInt(k) => IntAt(k) \in 0 .. MaxInt
  BY DEF HasInt, IntAt, IsInt
<1>3. \A k : HasFloat(k) => FloatAt(k) \in Seq(Digits \cup {Point})
  BY FloatIs DEF HasFloat, FloatAt, IsFloat
<1>4. MaxInt \in Nat
  BY DEF CommandLineAssumption
<1>5. period' \in -1 .. MaxInt /\ ping_cnt' \in 0 .. MaxInt
  <2>1. \A v \in 0 .. MaxInt : v \in -1 .. MaxInt
    BY <1>4
  <2>2. period \in -1 .. MaxInt /\ ping_cnt \in 0 .. MaxInt
    BY DEF Settings
  <2>3. CASE Of("Checker")
    <3>1. /\ period' = IF Is(i, "t") /\ HasInt(i + 1) THEN IntAt(i + 1) ELSE period
          /\ ping_cnt' = IF Is(i, "n") /\ HasInt(i + 1) THEN IntAt(i + 1) ELSE ping_cnt
      BY <2>3 DEF SetsWhatItSays
    <3> QED BY <1>2, <2>1, <2>2, <3>1
  <2>4. CASE ~ Of("Checker")
    BY <2>2, <2>4
  <2> QED BY <2>3, <2>4
<1>6. /\ sec_per_wait' \in Seq(Digits \cup {Point})
      /\ ping_timeout' \in Seq(Digits \cup {Point})
  BY <1>3 DEF SetsWhatItSays, Settings
<1>7. dryrun' \in BOOLEAN /\ err' \in {0, 1}
  BY DEF SetsWhatItSays, Settings
<1> QED BY <1>1, <1>5, <1>6, <1>7 DEF Settings

LEMMA SettingsTypedStep ==
    ASSUME CommandLineAssumption, Flow, Searching, Settings, [Next]_vars
    PROVE  Settings'
<1>1. CASE \/ DryRun \/ Unrecognized \/ Cred \/ Time \/ Wait \/ Number
           \/ SearchNothing \/ SearchEnds
  <2>1. MovesOn /\ SetsWhatItSays /\ Line /\ InTurn
    BY <1>1, OptionMovesOn, SearchMovesOn, Sets DEF Flow
  <2>2. Of("Auth") \/ Of("Checker") \/ Of("Renamer")
    BY <2>1 DEF Line, Of, Programs
  <2>3. ~ Of("Auth") => credential' = credential
    BY <1>1 DEF DryRun, Unrecognized, Cred, Time, Wait, Number, SearchNothing, SearchEnds,
       settings
  <2>4. ~ Of("Checker") => UNCHANGED <<period, ping_cnt, ping_timeout, sec_per_wait, err>>
    BY <1>1 DEF DryRun, Unrecognized, Cred, Time, Wait, Number, SearchNothing, SearchEnds,
       settings, Fails
  <2> QED BY <2>1, <2>2, <2>3, <2>4, SettingsTyped
<1>2. CASE \/ Start \/ SearchFirst \/ SearchNext \/ NoValue \/ ArgsEnd \/ Others \/ Terminated
           \/ UNCHANGED vars
  <2>1. UNCHANGED settings
    BY <1>2 DEF Start, SearchFirst, SearchNext, NoValue, ArgsEnd, Others, Terminated, vars
  <2> QED BY <2>1 DEF Settings, settings
<1> QED BY <1>1, <1>2 DEF Next, Step

-----------------------------------------------------------------------------
(* The list.                                                                 *)

LEMMA TimesFinite ==
    ASSUME searched \in Seq(1 .. Len(argv)), NEW e, NEW S
    PROVE  IsFiniteSet(Times(e, S)) /\ Cardinality(Times(e, S)) \in Nat
<1>1. Times(e, S) \subseteq 1 .. Len(searched) /\ IsFiniteSet(1 .. Len(searched))
  BY FS_Interval DEF Times
<1> QED BY <1>1, FS_Subset, FS_CardinalityType

LEMMA ListedFinite ==
    ASSUME files \in Seq(Listable), NEW e
    PROVE  IsFiniteSet(Listed(e)) /\ Cardinality(Listed(e)) \in Nat
<1>1. Listed(e) \subseteq 1 .. Len(files) /\ IsFiniteSet(1 .. Len(files))
  BY FS_Interval DEF Listed
<1> QED BY <1>1, FS_Subset, FS_CardinalityType

LEMMA FoundGrows ==
    ASSUME NEW k, NEW S, NEW T, S \subseteq T PROVE Found(k, S) \subseteq Found(k, T)
BY DEF Found, Matches

LEMMA FoundIsListable ==
    ASSUME CommandLineAssumption, argv \in Seq(Args), NEW k \in 1 .. Len(argv),
           NEW S, S \subseteq Paths
    PROVE  Found(k, S) \subseteq Listable
<1>1. argv[k] \in Args
  OBVIOUS
<1> QED BY <1>1 DEF Found, Matches, Entry, Listable

(* The list stays, and nothing is found more surely.                         *)
LEMMA ListStays ==
    ASSUME ListedSoFar, files' = files, searched \in Seq(1 .. Len(argv)),
           (searched \in Seq(1 .. Len(argv)))',
           \A e : /\ Times(e, always)' \subseteq Times(e, always)
                  /\ Times(e, ever) \subseteq Times(e, ever)'
    PROVE  ListedSoFar'
<1>1. Listable' = Listable /\ \A e : Listed(e)' = Listed(e)
  BY DEF Listable, Listed
<1>2. files \in Seq(Listable)
  BY DEF ListedSoFar
<1>3. ASSUME NEW e \in Listable
      PROVE  /\ Cardinality(Listed(e)) >= Cardinality(Times(e, always)')
             /\ e # NoPath => Cardinality(Listed(e)) <= Cardinality(Times(e, ever)')
  <2>1. IsFiniteSet(Times(e, always)) /\ IsFiniteSet(Times(e, ever))
    BY TimesFinite
  <2>2. IsFiniteSet(Times(e, always)') /\ IsFiniteSet(Times(e, ever)')
    <3>1. (IsFiniteSet(Times(e, always)) /\ IsFiniteSet(Times(e, ever)))'
      <4>1. Times(e, always)' \subseteq 1 .. Len(searched') /\ IsFiniteSet(1 .. Len(searched'))
        BY FS_Interval DEF Times
      <4>2. Times(e, ever)' \subseteq 1 .. Len(searched')
        BY DEF Times
      <4> QED BY <4>1, <4>2, FS_Subset
    <3> QED BY <3>1
  <2>3. /\ Cardinality(Times(e, always)') <= Cardinality(Times(e, always))
        /\ Cardinality(Times(e, ever)) <= Cardinality(Times(e, ever)')
    BY <2>1, <2>2, FS_Subset
  <2>4. /\ Cardinality(Times(e, always)') \in Nat /\ Cardinality(Times(e, always)) \in Nat
        /\ Cardinality(Times(e, ever)') \in Nat /\ Cardinality(Times(e, ever)) \in Nat
        /\ Cardinality(Listed(e)) \in Nat
    BY <1>2, <2>1, <2>2, ListedFinite, FS_CardinalityType
  <2>5. /\ Cardinality(Listed(e)) >= Cardinality(Times(e, always))
        /\ e # NoPath => Cardinality(Listed(e)) <= Cardinality(Times(e, ever))
    BY DEF ListedSoFar
  <2> QED BY <2>3, <2>4, <2>5
<1>4. Listed(NoPath) # {} => Times(NoPath, ever)' # {}
  BY DEF ListedSoFar
<1>5. NoPath' = NoPath
  BY DEF NoPath
<1>6. (files \in Seq(Listable))'
  BY <1>1, <1>2
<1> QED
  BY <1>1, <1>3, <1>4, <1>5, <1>6 DEF ListedSoFar

(* A file is put behind the list, and what stands there once more is found   *)
(* once more.                                                                *)
LEMMA ListGrows ==
    ASSUME ListedSoFar, searched \in Seq(1 .. Len(argv)),
           NEW p, NEW x, List(p, x), FullPath(p, x) \in Listable, NEW n,
           \A e : LET T == IF x \notin Folders /\ e = FullPath(p, x) THEN {n} ELSE {}
                  IN  /\ Times(e, always)' = Times(e, always) \cup T
                      /\ Times(e, ever)' = Times(e, ever) \cup T
                      /\ T # {} /\ e # NoPath => n \notin Times(e, ever)
    PROVE  ListedSoFar'
<1> DEFINE New(e) == x \notin Folders /\ e = FullPath(p, x)
<1>1. Listable' = Listable /\ NoPath' = NoPath /\ files \in Seq(Listable) /\ Len(files) \in Nat
  BY DEF Listable, NoPath, ListedSoFar
<1>2. files' = IF x \in Folders THEN files ELSE Append(files, FullPath(p, x))
  BY DEF List
<1>3. (files \in Seq(Listable))'
  BY <1>1, <1>2
<1>4. \A e : Listed(e)' = Listed(e) \cup (IF New(e) THEN {Len(files) + 1} ELSE {})
  <2> TAKE e
  <2>1. CASE x \in Folders
    BY <1>2, <2>1 DEF Listed
  <2>2. CASE x \notin Folders
    <3>1. /\ DOMAIN files' = DOMAIN files \cup {Len(files) + 1}
          /\ \A j \in DOMAIN files : files'[j] = files[j]
          /\ files'[Len(files) + 1] = FullPath(p, x)
      BY <1>1, <1>2, <2>2
    <3> QED BY <2>2, <3>1 DEF Listed
  <2> QED BY <2>1, <2>2
<1>5. \A e : /\ Times(e, always)' = Times(e, always) \cup (IF New(e) THEN {n} ELSE {})
             /\ Times(e, ever)' = Times(e, ever) \cup (IF New(e) THEN {n} ELSE {})
             /\ New(e) /\ e # NoPath => n \notin Times(e, ever)
  OBVIOUS
<1> HIDE DEF New
<1>6. ASSUME NEW e \in Listable
      PROVE  /\ Cardinality(Listed(e)') >= Cardinality(Times(e, always)')
             /\ e # NoPath => Cardinality(Listed(e)') <= Cardinality(Times(e, ever)')
  <2>1. /\ IsFiniteSet(Times(e, always)) /\ IsFiniteSet(Times(e, ever)) /\ IsFiniteSet(Listed(e))
        /\ Cardinality(Times(e, always)) \in Nat /\ Cardinality(Times(e, ever)) \in Nat
        /\ Cardinality(Listed(e)) \in Nat
    BY <1>1, TimesFinite, ListedFinite
  <2>2. /\ Cardinality(Listed(e)) >= Cardinality(Times(e, always))
        /\ e # NoPath => Cardinality(Listed(e)) <= Cardinality(Times(e, ever))
    BY DEF ListedSoFar
  <2>3. CASE ~ New(e)
    BY <1>4, <1>5, <2>2, <2>3
  <2>4. CASE New(e)
    <3>1. Len(files) + 1 \notin Listed(e)
      BY <1>1 DEF Listed
    <3>2. Cardinality(Listed(e)') = Cardinality(Listed(e)) + 1
      BY <1>4, <2>1, <2>4, <3>1, FS_AddElement
    <3>3. \/ Cardinality(Times(e, always)') = Cardinality(Times(e, always))
          \/ Cardinality(Times(e, always)') = Cardinality(Times(e, always)) + 1
      BY <1>5, <2>1, <2>4, FS_AddElement
    <3>4. e # NoPath => Cardinality(Times(e, ever)') = Cardinality(Times(e, ever)) + 1
      BY <1>5, <2>1, <2>4, FS_AddElement
    <3> QED BY <2>1, <2>2, <3>2, <3>3, <3>4
  <2> QED BY <2>3, <2>4
<1>7. Listed(NoPath)' # {} => Times(NoPath, ever)' # {}
  <2>1. Listed(NoPath) # {} => Times(NoPath, ever) # {}
    BY DEF ListedSoFar
  <2> QED BY <1>4, <1>5, <2>1
<1> QED
  BY <1>1, <1>3, <1>6, <1>7 DEF ListedSoFar

(* Between the steps that begin and end a search.                            *)
LEMMA GrowAndShrink ==
    ASSUME UNCHANGED <<argv, searched, pc>>, \A e : Gave(e)' <=> Gave(e),
           always' \subseteq always, ever \subseteq ever'
    PROVE  \A e : /\ Times(e, always)' \subseteq Times(e, always)
                  /\ Times(e, ever) \subseteq Times(e, ever)'
<1> TAKE e
<1>1. \A k : Found(k, always)' \subseteq Found(k, always)
  BY DEF Found, Entry, Matches
<1>2. \A k : Found(k, ever) \subseteq Found(k, ever)'
  BY DEF Found, Entry, Matches
<1>3. \A j : Over(j)' <=> Over(j)
  BY DEF Over
<1>4. /\ Times(e, always)' = {j \in DOMAIN searched : IF Over(j) THEN e \in Found(searched[j], always)'
                                                      ELSE Gave(e)}
      /\ Times(e, ever)' = {j \in DOMAIN searched : IF Over(j) THEN e \in Found(searched[j], ever)'
                                                    ELSE Gave(e)}
  BY <1>3 DEF Times, Found, Entry
<1> QED BY <1>1, <1>2, <1>4 DEF Times

LEMMA TimesNext ==
    ASSUME argv' = argv, NEW e
    PROVE  /\ Times(e, always)' = {j \in DOMAIN searched' :
                  IF Over(j)' THEN e \in Found(searched'[j], always') ELSE Gave(e)'}
           /\ Times(e, ever)' = {j \in DOMAIN searched' :
                  IF Over(j)' THEN e \in Found(searched'[j], ever') ELSE Gave(e)'}
BY DEF Times, Found, Entry

(* Another argument was searched for: what Times becomes.                    *)
LEMMA TimesOfOneMore ==
    ASSUME searched \in Seq(1 .. Len(argv)), i \in 1 .. Len(argv), pc = "args",
           searched' = Append(searched, i), UNCHANGED <<argv, ever, always>>,
           NEW e
    PROVE  LET n    == Len(searched) + 1
               T(S) == Times(e, S) \cup (IF IF pc' = "search" THEN Gave(e)' ELSE e \in Found(i, S)
                                         THEN {n} ELSE {})
           IN  /\ Times(e, always)' = T(always) /\ Times(e, ever)' = T(ever)
               /\ n \notin Times(e, ever)
<1>0. PICK n : n = Len(searched) + 1
  OBVIOUS
<1>1. /\ DOMAIN searched' = DOMAIN searched \cup {n} /\ n \notin DOMAIN searched
      /\ Len(searched') = n
      /\ \A j \in DOMAIN searched : searched'[j] = searched[j] /\ j # n
      /\ searched'[n] = i
  BY <1>0
<1>2. \A j \in DOMAIN searched : Over(j)' /\ Over(j)
  BY <1>1 DEF Over
<1>3. Over(n)' <=> pc' # "search"
  BY <1>1 DEF Over
<1>5. /\ Times(e, always) = {j \in DOMAIN searched : e \in Found(searched[j], always)}
      /\ Times(e, ever) = {j \in DOMAIN searched : e \in Found(searched[j], ever)}
  BY <1>2 DEF Times
<1>6. /\ Times(e, always)' = {j \in DOMAIN searched' :
             IF Over(j)' THEN e \in Found(searched'[j], always) ELSE Gave(e)'}
      /\ Times(e, ever)' = {j \in DOMAIN searched' :
             IF Over(j)' THEN e \in Found(searched'[j], ever) ELSE Gave(e)'}
  BY TimesNext
<1>7. ASSUME NEW j \in DOMAIN searched
      PROVE  /\ j \in Times(e, always)' <=> j \in Times(e, always)
             /\ j \in Times(e, ever)' <=> j \in Times(e, ever)
  BY <1>1, <1>2, <1>5, <1>6
<1>8. /\ n \in Times(e, always)' <=>
             IF pc' = "search" THEN Gave(e)' ELSE e \in Found(i, always)
      /\ n \in Times(e, ever)' <=>
             IF pc' = "search" THEN Gave(e)' ELSE e \in Found(i, ever)
  BY <1>1, <1>3, <1>6
<1>9. /\ Times(e, always)' \subseteq DOMAIN searched \cup {n}
      /\ Times(e, ever)' \subseteq DOMAIN searched \cup {n}
      /\ Times(e, always) \subseteq DOMAIN searched /\ Times(e, ever) \subseteq DOMAIN searched
      /\ n \notin Times(e, ever)
  BY <1>1, <1>5, <1>6
<1>10. Times(e, always)'
       = Times(e, always) \cup (IF IF pc' = "search" THEN Gave(e)' ELSE e \in Found(i, always)
                                THEN {n} ELSE {})
  BY <1>7, <1>8, <1>9
<1>11. Times(e, ever)'
       = Times(e, ever) \cup (IF IF pc' = "search" THEN Gave(e)' ELSE e \in Found(i, ever)
                              THEN {n} ELSE {})
  BY <1>7, <1>8, <1>9
<1> QED BY <1>0, <1>9, <1>10, <1>11

(* Two files of one search have different paths, if they have any.           *)
LEMMA PathsDiffer ==
    ASSUME SearchAssumption, NEW p, NEW S, S \subseteq Paths,
           NEW x \in Matches(p, S), NEW y \in Matches(p, S),
           FullPath(p, x) = FullPath(p, y), FullPath(p, x) # NoPath
    PROVE  x = y
<1>1. x \in Paths /\ y \in Paths /\ x[1] = y[1]
  BY DEF Matches
<1>2. x = <<x[1], x[2]>> /\ y = <<y[1], y[2]>>
  BY <1>1 DEF SearchAssumption
<1> DEFINE dir == IF p.dir = NoDir THEN Cwd ELSE p.dir
<1>3. <<dir, x[2]>> = <<dir, y[2]>>
  BY DEF FullPath
<1> HIDE DEF dir
<1>4. x[2] = y[2]
  BY <1>3
<1> QED BY <1>1, <1>2, <1>4

LEMMA ListedStep ==
    ASSUME CommandLineAssumption, SearchAssumption, Flow, Disk, Searching, SearchedSoFar,
           ListedSoFar, SearchedSoFar', [Next]_vars
    PROVE  ListedSoFar'
<1>0. /\ UNCHANGED <<program, argv>> /\ argv \in Seq(Args)
      /\ searched \in Seq(1 .. Len(argv)) /\ (searched \in Seq(1 .. Len(argv)))'
      /\ files \in Seq(Listable)
  BY LineStays DEF Flow, Line, SearchedSoFar, ListedSoFar
<1>1. ASSUME UNCHANGED <<searched, pc, handle, ever, always, files>>
      PROVE  ListedSoFar'
  <2>1. \A e : Gave(e)' <=> Gave(e)
    BY <1>1 DEF Gave
  <2>2. \A e : Times(e, always)' \subseteq Times(e, always) /\ Times(e, ever) \subseteq Times(e, ever)'
    BY <1>0, <1>1, <2>1, GrowAndShrink
  <2> QED BY <1>0, <1>1, <2>2, ListStays
<1>2. CASE DryRun \/ Unrecognized \/ Cred \/ Time \/ Wait \/ Number
  <2>1. UNCHANGED <<searchVars, pc, searched>>
    BY <1>2, OptionMovesOn DEF Flow
  <2> QED BY <1>1, <2>1 DEF searchVars
<1>3. CASE Terminated \/ UNCHANGED vars
  <2>1. UNCHANGED <<searched, pc, handle, ever, always, files>>
    BY <1>3 DEF Terminated, vars, searchVars, history
  <2> QED BY <1>1, <2>1
<1>4. CASE Start \/ NoValue \/ ArgsEnd
  <2>1. UNCHANGED <<searched, handle, ever, always, files>> /\ pc # "search" /\ pc' # "search"
    BY <1>4 DEF Start, NoValue, ArgsEnd, At, searchVars, history
  <2>2. /\ \A e : ~ Gave(e) /\ ~ Gave(e)'
        /\ \A j : (Over(j) <=> j \in DOMAIN searched) /\ (Over(j)' <=> j \in DOMAIN searched)
    BY <2>1 DEF Gave, Over
  <2>4. ASSUME NEW e
        PROVE  Times(e, always)' = Times(e, always) /\ Times(e, ever)' = Times(e, ever)
    <3>1. /\ Times(e, always) = {j \in DOMAIN searched : e \in Found(searched[j], always)}
          /\ Times(e, ever) = {j \in DOMAIN searched : e \in Found(searched[j], ever)}
      BY <2>2 DEF Times
    <3>2. /\ Times(e, always)' = {j \in DOMAIN searched : e \in Found(searched[j], always)}
          /\ Times(e, ever)' = {j \in DOMAIN searched : e \in Found(searched[j], ever)}
      BY <1>0, <2>1, <2>2, TimesNext
    <3> QED BY <3>1, <3>2
  <2> QED BY <1>0, <2>1, <2>4, ListStays
<1>5. CASE SearchFirst
  <2> DEFINE p == PatternOf[argv[i]]
             n == Len(searched) + 1
  <2>1. /\ pc = "args" /\ pc' = "search" /\ i \in 1 .. Len(argv)
        /\ UNCHANGED <<argv, ever, always>> /\ searched' = Append(searched, i)
    BY <1>5, SearchFirstIs DEF Flow
  <2>2. PICK x \in Matches(p, disk) :
            /\ handle' = [pat  |-> p, seen |-> {x}, may  |-> Matches(p, disk),
                          must |-> Matches(p, disk)]
            /\ List(p, x)
    BY <1>5, SearchFirstIs DEF Flow
  <2>3. FullPath(p, x) \in Listable
    <3>1. x \in Paths /\ argv[i] \in Args
      BY <1>0, <2>1, <2>2 DEF Matches, Disk
    <3> QED BY <3>1 DEF Listable
  <2> HIDE DEF p
  <2>4. handle'.pat = p /\ handle'.seen = {x}
    BY <2>2
  <2>5. \A e : Gave(e)' <=> x \notin Folders /\ e = FullPath(p, x)
    BY <2>1, <2>4 DEF Gave, FullPath
  <2>6. ASSUME NEW e
        PROVE  LET T == IF x \notin Folders /\ e = FullPath(p, x) THEN {n} ELSE {}
               IN  /\ Times(e, always)' = Times(e, always) \cup T
                   /\ Times(e, ever)' = Times(e, ever) \cup T
                   /\ T # {} /\ e # NoPath => n \notin Times(e, ever)
    <3>1. /\ Times(e, always)' = Times(e, always) \cup (IF Gave(e)' THEN {n} ELSE {})
          /\ Times(e, ever)' = Times(e, ever) \cup (IF Gave(e)' THEN {n} ELSE {})
          /\ n \notin Times(e, ever)
      BY <1>0, <2>1, TimesOfOneMore
    <3>2. CASE x \notin Folders /\ e = FullPath(p, x)
      BY <2>5, <3>1, <3>2
    <3>3. CASE ~ (x \notin Folders /\ e = FullPath(p, x))
      BY <2>5, <3>1, <3>3
    <3> QED BY <3>2, <3>3
  <2>7. List(p, x)
    BY <2>2
  <2> HIDE DEF n
  <2> QED BY <1>0, <2>3, <2>6, <2>7, ListGrows
<1>6. CASE SearchNothing
  <2>1. /\ pc = "args" /\ pc' = "args" /\ i \in 1 .. Len(argv) /\ searched' = Append(searched, i)
        /\ UNCHANGED <<ever, always, files>> /\ Matches(PatternOf[argv[i]], disk) = {}
    BY <1>0, <1>6 DEF SearchNothing, NoneFound, searchVars, At, Flow, Line
  <2>2. Found(i, always) = {}
    <3>1. Found(i, disk) = {} /\ Found(i, always) \subseteq Found(i, disk)
      BY <2>1, FoundGrows DEF Found, Matches, Disk
    <3> QED BY <3>1
  <2>3. ASSUME NEW e
        PROVE  Times(e, always)' \subseteq Times(e, always) /\ Times(e, ever) \subseteq Times(e, ever)'
    BY <1>0, <2>1, <2>2, TimesOfOneMore
  <2> QED BY <1>0, <2>1, <2>3, ListStays
<1>7. CASE SearchNext
  <2> DEFINE p == handle.pat
             n == Len(searched)
  <2>1. pc = "search" /\ UNCHANGED <<pc, searched, ever, always>>
    BY <1>7 DEF SearchNext, FindNext, history
  <2>2. PICK x \in handle.may \ handle.seen :
            handle' = [handle EXCEPT !.seen = @ \cup {x}] /\ List(p, x)
    BY <1>7 DEF SearchNext, FindNext
  <2>3. /\ handle.pat = PatternOf[argv[i]] /\ handle.seen \subseteq Matches(p, ever)
        /\ x \in Matches(p, ever) /\ n \in DOMAIN searched
        /\ handle'.pat = p /\ handle'.seen = handle.seen \cup {x}
    <3>1. PICK s, m, u :
              handle = [pat |-> PatternOf[argv[i]], seen |-> s, may |-> m, must |-> u]
      BY <2>1 DEF Searching
    <3>2. handle' = [pat |-> PatternOf[argv[i]], seen |-> s \cup {x}, may |-> m, must |-> u]
      BY <2>2, <3>1, HandleExcept
    <3>3. handle.pat = PatternOf[argv[i]] /\ handle'.pat = p /\ handle'.seen = handle.seen \cup {x}
      BY <3>1, <3>2
    <3>4. handle.seen \subseteq handle.may /\ handle.may \subseteq Matches(p, ever)
          /\ Len(searched) >= 1
      BY <2>1 DEF Searching
    <3>5. n \in DOMAIN searched
      BY <1>0, <3>4
    <3> QED BY <2>2, <3>3, <3>4, <3>5
  <2>4. FullPath(p, x) \in Listable
    <3>1. x \in Paths /\ argv[i] \in Args
      <4>1. i \in 1 .. Len(argv)
        BY <1>0, <2>1 DEF Flow, Line
      <4> QED BY <1>0, <2>3, <4>1 DEF Matches, Disk
    <3> QED BY <2>3, <3>1 DEF Listable
  <2> HIDE DEF p, n
  <2>5. \A e : Gave(e)' <=> Gave(e) \/ (x \notin Folders /\ e = FullPath(p, x))
    BY <2>1, <2>3 DEF Gave, FullPath, p
  <2>7. \A j : (Over(j) <=> j \in DOMAIN searched /\ j # n)
               /\ (Over(j)' <=> j \in DOMAIN searched /\ j # n)
    BY <2>1 DEF Over, n
  <2>8. ASSUME NEW e
        PROVE  LET T == IF x \notin Folders /\ e = FullPath(p, x) THEN {n} ELSE {}
               IN  /\ Times(e, always)' = Times(e, always) \cup T
                   /\ Times(e, ever)' = Times(e, ever) \cup T
                   /\ T # {} /\ e # NoPath => n \notin Times(e, ever)
    <3> DEFINE T == IF x \notin Folders /\ e = FullPath(p, x) THEN {n} ELSE {}
    <3>1. /\ Times(e, always)'
             = {j \in DOMAIN searched : IF j # n THEN e \in Found(searched[j], always) ELSE Gave(e)'}
          /\ Times(e, ever)'
             = {j \in DOMAIN searched : IF j # n THEN e \in Found(searched[j], ever) ELSE Gave(e)'}
      BY <1>0, <2>1, <2>7, TimesNext
    <3>2. /\ Times(e, always)
             = {j \in DOMAIN searched : IF j # n THEN e \in Found(searched[j], always) ELSE Gave(e)}
          /\ Times(e, ever)
             = {j \in DOMAIN searched : IF j # n THEN e \in Found(searched[j], ever) ELSE Gave(e)}
      BY <2>7 DEF Times
    <3>3. Times(e, always)' = Times(e, always) \cup T /\ Times(e, ever)' = Times(e, ever) \cup T
      BY <2>3, <2>5, <3>1, <3>2
    <3>4. T # {} /\ e # NoPath => n \notin Times(e, ever)
      <4>1. SUFFICES ASSUME e = FullPath(p, x), e # NoPath PROVE ~ Gave(e)
        BY <3>2
      <4>2. SUFFICES ASSUME NEW y \in handle.seen, FullPath(p, y) = e PROVE FALSE
        BY DEF Gave, p
      <4>3. x = y
        BY <2>3, <4>1, <4>2, PathsDiffer DEF Disk
      <4> QED BY <2>2, <4>3
    <3> QED BY <3>3, <3>4
  <2>9. List(p, x)
    BY <2>2 DEF p
  <2> QED BY <1>0, <2>4, <2>8, <2>9, ListGrows
<1>8. CASE SearchEnds
  <2> DEFINE n == Len(searched)
  <2>1. /\ pc = "search" /\ pc' = "args" /\ UNCHANGED <<searched, ever, always, files>>
        /\ handle.must \subseteq handle.seen
    BY <1>8 DEF SearchEnds, NoMoreFiles, history
  <2>2. /\ handle.pat = PatternOf[argv[i]] /\ searched[n] = i /\ n \in DOMAIN searched
        /\ Matches(handle.pat, always) \subseteq handle.seen
        /\ handle.seen \subseteq Matches(handle.pat, ever)
    <3>1. handle.pat = PatternOf[argv[i]]
      <4>1. PICK s, m, u :
                handle = [pat |-> PatternOf[argv[i]], seen |-> s, may |-> m, must |-> u]
        BY <2>1 DEF Searching
      <4> QED BY <4>1
    <3>2. /\ Matches(handle.pat, always) \subseteq handle.must /\ handle.seen \subseteq handle.may
          /\ handle.may \subseteq Matches(handle.pat, ever)
          /\ Len(searched) >= 1 /\ searched[n] = i
      BY <2>1 DEF Searching
    <3>3. n \in DOMAIN searched
      BY <1>0, <3>2
    <3> QED BY <2>1, <3>1, <3>2, <3>3
  <2>3. \A e : (e \in Found(i, always) => Gave(e)) /\ (Gave(e) => e \in Found(i, ever))
    BY <2>1, <2>2 DEF Found, Entry, Gave, Matches
  <2> HIDE DEF n
  <2>5. \A j : (Over(j) <=> j \in DOMAIN searched /\ j # n)
               /\ (Over(j)' <=> j \in DOMAIN searched)
    BY <2>1 DEF Over, n
  <2>6. ASSUME NEW e
        PROVE  Times(e, always)' \subseteq Times(e, always) /\ Times(e, ever) \subseteq Times(e, ever)'
    <3>1. /\ Times(e, always)' = {j \in DOMAIN searched : e \in Found(searched[j], always)}
          /\ Times(e, ever)' = {j \in DOMAIN searched : e \in Found(searched[j], ever)}
      BY <1>0, <2>1, <2>5, TimesNext
    <3>2. /\ Times(e, always)
             = {j \in DOMAIN searched : IF j # n THEN e \in Found(searched[j], always) ELSE Gave(e)}
          /\ Times(e, ever)
             = {j \in DOMAIN searched : IF j # n THEN e \in Found(searched[j], ever) ELSE Gave(e)}
      BY <2>5 DEF Times
    <3> QED BY <2>2, <2>3, <3>1, <3>2
  <2> QED BY <1>0, <2>1, <2>6, ListStays
<1>9. CASE Others
  <2>1. UNCHANGED <<searched, pc, files>> /\ Foreign
    BY <1>9 DEF Others, Foreign, history
  <2>2. always' \subseteq always /\ ever \subseteq ever'
    BY <2>1 DEF Foreign
  <2>3. \A e : Gave(e)' <=> Gave(e)
    <3>1. pc = "search"
      BY <2>1 DEF Foreign, Searching
    <3>2. handle'.pat = handle.pat /\ handle'.seen = handle.seen
      <4>1. PICK s, m, u :
                handle = [pat |-> PatternOf[argv[i]], seen |-> s, may |-> m, must |-> u]
        BY <3>1 DEF Searching
      <4>2. CASE \E x : handle' = [handle EXCEPT !.may = @ \cup Matches(handle.pat, {x})]
        <5>1. PICK X : handle' = [handle EXCEPT !.may = @ \cup X]
          BY <4>2
        <5>2. handle' = [pat |-> PatternOf[argv[i]], seen |-> s, may |-> m \cup X, must |-> u]
          BY <4>1, <5>1, HandleExcept
        <5> QED BY <4>1, <5>2
      <4>3. CASE \E x : handle' = [handle EXCEPT !.must = @ \ {x}]
        <5>1. PICK X : handle' = [handle EXCEPT !.must = @ \ X]
          BY <4>3
        <5>2. handle' = [pat |-> PatternOf[argv[i]], seen |-> s, may |-> m, must |-> u \ X]
          BY <4>1, <5>1, HandleExcept
        <5> QED BY <4>1, <5>2
      <4> QED BY <2>1, <4>2, <4>3 DEF Foreign
    <3> QED BY <2>1, <3>2 DEF Gave, FullPath
  <2>4. \A e : Times(e, always)' \subseteq Times(e, always) /\ Times(e, ever) \subseteq Times(e, ever)'
    BY <1>0, <2>1, <2>2, <2>3, GrowAndShrink
  <2> QED BY <1>0, <2>1, <2>4, ListStays
<1> QED
  BY <1>2, <1>3, <1>4, <1>5, <1>6, <1>7, <1>8, <1>9 DEF Next, Step

-----------------------------------------------------------------------------
(* The invariants together.                                                  *)

Called == <<program, argv>> \in Inputs
SoFar ==
    /\ Called /\ Flow /\ Disk /\ Searching /\ SearchedSoFar /\ UsesSoFar
    /\ Settings /\ SettingsSoFar /\ ListedSoFar

LEMMA SoFarInit ==
    ASSUME CommandLineAssumption, SearchAssumption, Init PROVE SoFar
<1>1. PICK in \in Inputs : program = in[1] /\ argv = in[2]
  BY DEF Init
<1>2. /\ program \in Programs /\ argv \in Seq(Args) /\ pc = "start" /\ i = 1 /\ searched = <<>>
      /\ handle = NoHandle /\ files = <<>> /\ Len(argv) \in Nat
  BY <1>1 DEF Init, SearchInit, CommandLineAssumption
<1>3. Flow
  <2>1. Line /\ InTurn
    BY <1>2 DEF Line, InTurn
  <2>2. NoneLacked
    <3>1. 1 > Len(argv) => Len(argv) \notin 1 .. Len(argv)
      BY <1>2
    <3> QED BY <1>2, <3>1 DEF NoneLacked, TakesValue, Given
  <2> QED BY <2>1, <2>2 DEF Flow
<1>4. Disk
  BY DEF Init, SearchInit, Disk, SearchAssumption
<1>5. Searching
  BY <1>2 DEF Searching
<1>6. SearchedSoFar
  <2>1. Now = 1
    BY <1>2 DEF Now
  <2>2. \A k \in DOMAIN argv : ~ (k < 1)
    BY <1>2
  <2> QED BY <1>2, <2>1, <2>2 DEF SearchedSoFar
<1>7. Settings
  <2>1. MaxInt \in Nat
    BY DEF CommandLineAssumption
  <2>2. <<1>> \in Seq(Digits \cup {Point})
    BY DEF Digits
  <2>3. -1 \in -1 .. MaxInt /\ 0 \in 0 .. MaxInt
    BY <2>1
  <2>4. /\ credential = "auth.txt" /\ dryrun = FALSE /\ err = 0
        /\ period = -1 /\ sec_per_wait = <<1>> /\ ping_timeout = <<1>> /\ ping_cnt = 0
    BY DEF Init
  <2> QED BY <2>2, <2>3, <2>4 DEF Settings
<1>8. SettingsSoFar
  <2>1. \A o : Before(Given(o)) = {}
    <3>1. \A k \in DOMAIN argv : ~ (k < i)
      BY <1>2
    <3> QED BY <3>1 DEF Before, Given
  <2>2. \A o : IntsOf(o) = {}
    BY <2>1 DEF IntsOf
  <2>3. FloatsOf("w", 1) = {} /\ FloatsOf("t", 2) = {}
    BY <2>1 DEF FloatsOf
  <2>4. CredentialSoFar
    BY <2>1 DEF CredentialSoFar, LastOf, Init
  <2>5. PeriodSoFar /\ CountSoFar
    BY <2>2 DEF PeriodSoFar, CountSoFar, LastOf, Init
  <2>6. TimeoutSoFar /\ WaitSoFar
    BY <2>3 DEF TimeoutSoFar, WaitSoFar, LastOf, Init
  <2>7. NoneSkipped /\ err = 0
    BY <2>1, <2>2 DEF NoneSkipped, Init
  <2>8. DryRunSoFar
    BY <2>1 DEF DryRunSoFar, Init
  <2> QED BY <2>4, <2>5, <2>6, <2>7, <2>8 DEF SettingsSoFar
<1>9. ListedSoFar
  <2>1. \A e : Listed(e) = {} /\ Times(e, always) = {} /\ Times(e, ever) = {}
    BY <1>2 DEF Listed, Times
  <2>2. files \in Seq(Listable)
    BY <1>2
  <2>3. Cardinality({}) = 0
    BY FS_EmptySet
  <2>4. ASSUME NEW e
        PROVE  /\ Cardinality(Listed(e)) >= Cardinality(Times(e, always))
               /\ Cardinality(Listed(e)) <= Cardinality(Times(e, ever))
    <3>1. Listed(e) = {} /\ Times(e, always) = {} /\ Times(e, ever) = {}
      BY <2>1
    <3> QED BY <2>3, <3>1
  <2> QED BY <2>1, <2>2, <2>4 DEF ListedSoFar
<1>10. Called
  BY <1>1 DEF Called, CommandLineAssumption
<1>11. UsesSoFar
  <2>1. uses = [k \in 1 .. Len(argv) |-> 0]
    BY DEF Init
  <2>2. \A k \in 1 .. Len(argv) :
            /\ ~ (k < Now) /\ ~ (k - 1 < i /\ ValueOf(k)) /\ ~ (k - 2 < i /\ TimeOf(k))
    <3>1. \A k \in 1 .. Len(argv) : ~ (k < Now)
      BY <1>2 DEF Now
    <3>2. \A o : Given(o) \subseteq 1 .. Len(argv) /\ \A k : Is(k, o) => k \in 1 .. Len(argv)
      BY <1>2 DEF Given, Is
    <3>3. \A k \in 1 .. Len(argv) : k - 1 < i => k - 1 \notin 1 .. Len(argv)
      BY <1>2
    <3>4. \A k \in 1 .. Len(argv) : ValueOf(k) => k - 1 \in 1 .. Len(argv)
      BY <3>2 DEF ValueOf
    <3>5. \A k \in 1 .. Len(argv) : TimeOf(k) => k - 2 \in 1 .. Len(argv)
      BY <3>2 DEF TimeOf
    <3>6. \A k \in 1 .. Len(argv) : k - 2 < i => k - 2 \notin 1 .. Len(argv)
      BY <1>2
    <3> QED BY <3>1, <3>3, <3>4, <3>5, <3>6
  <2> QED BY <2>1, <2>2 DEF UsesSoFar, Once
<1> QED BY <1>3, <1>4, <1>5, <1>6, <1>7, <1>8, <1>9, <1>10, <1>11 DEF SoFar

LEMMA SoFarStep ==
    ASSUME CommandLineAssumption, SearchAssumption, SoFar, [Next]_vars PROVE SoFar'
<1>1. Called'
  BY LineStays DEF SoFar, Called
<1>2. Flow' /\ Disk'
  BY FlowStep, DiskStep DEF SoFar
<1>3. Searching' /\ SearchedSoFar' /\ UsesSoFar'
  BY HandleStep, SearchedStep, UsesStep DEF SoFar, SearchedSoFar
<1>4. Settings' /\ SettingsSoFar'
  BY SettingsTypedStep, SettingsStep DEF SoFar
<1>5. ListedSoFar'
  BY <1>3, ListedStep DEF SoFar
<1> QED BY <1>1, <1>2, <1>3, <1>4, <1>5 DEF SoFar

THEOREM AlwaysSoFar == Spec => []SoFar
<1>1. CommandLineAssumption /\ SearchAssumption
  BY CommandLineAssumption, SearchAssumption
<1>2. Init => SoFar
  BY <1>1, SoFarInit
<1>3. SoFar /\ [Next]_vars => SoFar'
  BY <1>1, SoFarStep
<1> QED BY <1>2, <1>3, PTL DEF Spec

-----------------------------------------------------------------------------
(* A list holds paths, the disk changes within what there is, a search is    *)
(* open while one runs, and the settings are what get_int and get_float make *)
(* (lib.cpp:56-77, 95-134).                                                  *)
THEOREM TypeCorrect == Spec => []TypeOK
<1>1. SoFar => TypeOK
  <2> SUFFICES ASSUME SoFar PROVE TypeOK
    OBVIOUS
  <2>1. \A k \in 1 .. Len(files) : files[k] = NoPath \/ Len(files[k]) = 2
    <3>1. \A k \in 1 .. Len(files) : files[k] \in Listable
      BY DEF SoFar, ListedSoFar
    <3>2. ASSUME NEW e \in Listable PROVE e = NoPath \/ Len(e) = 2
      <4>1. PICK a \in Args, x \in Paths : e = FullPath(PatternOf[a], x)
        BY DEF Listable
      <4>2. \/ e = NoPath
            \/ e = <<IF PatternOf[a].dir = NoDir THEN Cwd ELSE PatternOf[a].dir, x[2]>>
        BY <4>1 DEF FullPath
      <4>3. \A c, d : Len(<<c, d>>) = 2
        OBVIOUS
      <4> QED BY <4>2, <4>3
    <3> QED BY <3>1, <3>2
  <2>2. pc = "search" <=> handle # NoHandle
    BY DEF SoFar, Searching, NoHandle
  <2>3. handle.must \subseteq handle.may /\ handle.seen \subseteq handle.may
    BY DEF SoFar, Searching, NoHandle
  <2>4. SearchTypeOK
    BY <2>1, <2>3 DEF SearchTypeOK, SoFar, Disk
  <2> QED BY <2>2, <2>4 DEF TypeOK, SoFar, Called, Flow, Line, Settings, UsesSoFar
<1> QED BY <1>1, AlwaysSoFar, PTL

(* A run is given up only where the last argument is an option that lacks    *)
(* its value, and then it is (Auth.cpp:42, Checker.cpp:49-57).               *)
THEOREM EndsAsTheLineSays == Spec => []EndsAsGiven
<1>1. SoFar => EndsAsGiven
  <2> SUFFICES ASSUME SoFar, Ended PROVE EndsAsGiven
    BY DEF EndsAsGiven
  <2>1. CASE pc = "help"
    BY <2>1 DEF EndsAsGiven, SoFar, Flow, Line
  <2>2. CASE pc = "crashed"
    BY <2>2 DEF EndsAsGiven, SoFar, Flow, Line, NoneLacked
  <2>3. CASE pc = "done"
    <3>1. i = Len(argv) + 1 /\ Len(argv) \in Nat /\ ~ HelpDetected
      BY <2>3 DEF SoFar, Flow, Line
    <3>2. ~ TakesValue(Len(argv))
      BY <3>1 DEF SoFar, Flow, NoneLacked
    <3> QED BY <2>3, <3>1, <3>2 DEF EndsAsGiven
  <2> QED BY <2>1, <2>2, <2>3 DEF Ended
<1> QED BY <1>1, AlwaysSoFar, PTL

(* Every argument the loop is past was taken for something, and for two      *)
(* things only as a period at the end of the line or where the time of a bad *)
(* period would stand; what is searched for, in order, is what is neither an *)
(* option nor a value that is stepped over (Auth.cpp:36-56,                  *)
(* Checker.cpp:47-66).                                                       *)
THEOREM NoArgumentIsLost == Spec => []EveryArgumentHasOnePlace
<1>1. SoFar => EveryArgumentHasOnePlace
  <2> SUFFICES ASSUME SoFar, pc \in {"done", "crashed"} PROVE EveryArgumentHasOnePlace
    BY DEF EveryArgumentHasOnePlace
  <2>1. /\ argv \in Seq(Args) /\ Len(argv) \in Nat /\ i \in 1 .. Len(argv) + 1
        /\ pc = "done" => i = Len(argv) + 1
        /\ pc = "crashed" => i = Len(argv) /\ TakesValue(i)
    BY DEF SoFar, Flow, Line, NoneLacked
  <2>2. Now = i
    BY DEF Now
  <2>3. /\ searched \in Seq(1 .. Len(argv))
        /\ \A j, k \in DOMAIN searched : j < k => searched[j] < searched[k]
        /\ \A j \in DOMAIN searched : searched[j] < i /\ Sought(searched[j])
        /\ \A k \in DOMAIN argv : k < i /\ Sought(k) => \E j \in DOMAIN searched : searched[j] = k
    BY <2>2 DEF SoFar, SearchedSoFar
  <2>4. \A k \in DOMAIN argv : Sought(k) => k < i
    <3>1. CASE pc = "done"
      BY <2>1, <3>1
    <3>2. CASE pc = "crashed"
      <4>1. ~ Sought(i)
        <5>1. ~ Of("Renamer") /\ ~ Is(i, "none")
          BY <2>1, <3>2 DEF TakesValue, Given, Is, Of
        <5> QED BY <5>1 DEF Sought
      <4> QED BY <2>1, <3>2, <4>1
    <3> QED BY <3>1, <3>2
  <2>5. ToSet(searched) = {k \in DOMAIN argv : Sought(k)}
    BY <2>1, <2>3, <2>4 DEF ToSet
  <2>6. ASSUME NEW k \in 1 .. i - 1
        PROVE  uses[k] = 1 + Once(LastPeriod(k)) + Once(TimeOfBadPeriod(k))
    <3>1. /\ k \in Nat /\ k \in 1 .. Len(argv) /\ k < i /\ k - 1 < i /\ k - 2 < i /\ k >= 1
          /\ k - 1 \in Int /\ i \in Nat
      BY <2>1
    <3>2. uses[k] = Once(~ Consumed(k)) + Once(ValueOf(k)) + Once(TimeOf(k))
      <4>1. uses[k] = Once(k < Now /\ ~ Consumed(k)) + Once(k - 1 < i /\ ValueOf(k))
                      + Once(k - 2 < i /\ TimeOf(k))
        BY <3>1 DEF SoFar, UsesSoFar
      <4>2. /\ k < Now /\ ~ Consumed(k) <=> ~ Consumed(k)
            /\ k - 1 < i /\ ValueOf(k) <=> ValueOf(k)
            /\ k - 2 < i /\ TimeOf(k) <=> TimeOf(k)
        BY <2>2, <3>1
      <4> QED BY <4>1, <4>2 DEF Once
    <3>3. CASE Of("Auth")
      <4>1. Consumed(k) <=> ValueOf(k)
        <5>1. CASE k = 1
          BY <2>1, <3>3, <5>1, FirstIsNoValue DEF ValueOf, Given, Of
        <5>2. CASE k # 1
          <6>1. k - 1 \in Nat /\ k - 1 >= 1 /\ (k - 1) + 1 = k /\ k - 1 \in DOMAIN argv
            BY <2>1, <3>1, <5>2
          <6>2. Consumed((k - 1) + 1) <=> Is(k - 1, "c") /\ ~ Consumed(k - 1)
            BY <3>3, <6>1, EveryOther
          <6> QED BY <3>3, <6>1, <6>2 DEF ValueOf, Given, Of
        <5> QED BY <5>1, <5>2
      <4>2. ~ TimeOf(k) /\ ~ LastPeriod(k) /\ ~ TimeOfBadPeriod(k)
        BY <3>3 DEF TimeOf, LastPeriod, TimeOfBadPeriod, Of
      <4> QED BY <3>2, <4>1, <4>2 DEF Once
    <3>4. CASE Of("Renamer")
      BY <3>2, <3>4 DEF Consumed, ValueOf, TimeOf, LastPeriod, TimeOfBadPeriod, Of, Once
    <3>5. CASE Of("Checker")
      <4>1. Consumed(k) <=> \/ Is(k - 1, "w") /\ HasFloat(k)
                            \/ Is(k - 1, "n") /\ HasInt(k)
                            \/ Is(k - 1, "t") /\ HasInt(k) /\ k < Len(argv)
                            \/ Is(k - 2, "t") /\ HasInt(k - 1) /\ HasFloat(k)
        BY <3>5 DEF Consumed, Of
      <4>2. ValueOf(k) <=> \/ Is(k - 1, "w") /\ HasFloat(k)
                           \/ Is(k - 1, "n") /\ HasInt(k)
                           \/ Is(k - 1, "t") /\ HasInt(k)
        BY <3>5 DEF ValueOf, Of
      <4>3. TimeOf(k) <=> Is(k - 2, "t") /\ HasFloat(k)
        BY <3>5 DEF TimeOf
      <4>4. HasInt(k - 1) => ~ Is(k - 1, "t") /\ ~ Is(k - 1, "w") /\ ~ Is(k - 1, "n")
        BY <2>1, <3>1, CommandLineAssumption, NumberIsNoOption
      <4>5. k < Len(argv) \/ k = Len(argv)
        BY <2>1, <3>1
      <4>6. /\ LastPeriod(k) <=> Is(k - 1, "t") /\ HasInt(k) /\ k = Len(argv)
            /\ TimeOfBadPeriod(k) <=> Is(k - 2, "t") /\ ~ HasInt(k - 1) /\ HasFloat(k)
        BY <3>5 DEF LastPeriod, TimeOfBadPeriod
      <4>7. \A p, o : Is(k - 1, o) /\ Is(k - 1, p) => o = p
        BY DEF Is
      <4>8. k = Len(argv) => ~ (k < Len(argv))
        BY <2>1
      <4>9. ~ Consumed(k) /\ ValueOf(k) <=> LastPeriod(k)
        BY <4>1, <4>2, <4>4, <4>5, <4>6, <4>7, <4>8
      <4>10. ~ ValueOf(k) /\ Consumed(k) <=> TimeOf(k) /\ ~ TimeOfBadPeriod(k)
        BY <4>1, <4>2, <4>3, <4>4, <4>6
      <4>11. TimeOfBadPeriod(k) => TimeOf(k)
        BY <4>3, <4>6
      <4> QED BY <3>2, <4>9, <4>10, <4>11 DEF Once
    <3> QED BY <3>3, <3>4, <3>5 DEF SoFar, Flow, Line, Programs, Of
  <2> QED BY <2>3, <2>5, <2>6 DEF EveryArgumentHasOnePlace, Sought
<1> QED BY <1>1, AlwaysSoFar, PTL

(* Whatever stands between them, each setting is the value of the last       *)
(* option whose value get_int or get_float takes, and the exit code tells    *)
(* whether something was skipped (Auth.cpp:28-60, Checker.cpp:35-74).        *)
THEOREM TheLastGoodCounts == Spec => []SettingsAreTheLastGood
<1>1. SoFar => SettingsAreTheLastGood
  <2> SUFFICES ASSUME SoFar, pc = "done" PROVE SettingsAreTheLastGood
    BY DEF SettingsAreTheLastGood
  <2>1. i = Len(argv) + 1 /\ argv \in Seq(Args) /\ Len(argv) \in Nat
    BY DEF SoFar, Flow, Line
  <2>2. \A o : Before(Given(o)) = Given(o)
    <3>1. \A k \in DOMAIN argv : k < i
      BY <2>1
    <3> QED BY <3>1 DEF Before, Given
  <2>3. \A o : IntsOf(o) = {k \in Given(o) : HasInt(k + 1)}
    BY <2>2 DEF IntsOf
  <2>4. \A o, n : FloatsOf(o, n) = {k \in Given(o) : HasFloat(k + n)}
    BY <2>2 DEF FloatsOf
  <2>5. SettingsSoFar
    BY DEF SoFar
  <2>6. Of("Auth") => credential = LastOf(Given("c"), LAMBDA k : argv[k + 1], "auth.txt")
    BY <2>2, <2>5 DEF SettingsSoFar, CredentialSoFar
  <2>7. ASSUME Of("Checker")
        PROVE  /\ period = LastOf({k \in Given("t") : HasInt(k + 1)},
                                  LAMBDA k : IntAt(k + 1), -1)
               /\ ping_cnt = LastOf({k \in Given("n") : HasInt(k + 1)},
                                    LAMBDA k : IntAt(k + 1), 0)
               /\ ping_timeout = LastOf({k \in Given("w") : HasFloat(k + 1)},
                                        LAMBDA k : FloatAt(k + 1), <<1>>)
               /\ sec_per_wait = LastOf({k \in Given("t") : HasFloat(k + 2)},
                                        LAMBDA k : FloatAt(k + 2), <<1>>)
    <3>1. PeriodSoFar /\ CountSoFar /\ TimeoutSoFar /\ WaitSoFar
      BY <2>5, <2>7 DEF SettingsSoFar
    <3>2. period = LastOf({k \in Given("t") : HasInt(k + 1)}, LAMBDA k : IntAt(k + 1), -1)
      BY <2>3, <3>1 DEF PeriodSoFar, LastOf
    <3>3. ping_cnt = LastOf({k \in Given("n") : HasInt(k + 1)}, LAMBDA k : IntAt(k + 1), 0)
      BY <2>3, <3>1 DEF CountSoFar, LastOf
    <3>4. ping_timeout = LastOf({k \in Given("w") : HasFloat(k + 1)},
                                LAMBDA k : FloatAt(k + 1), <<1>>)
      BY <2>4, <3>1 DEF TimeoutSoFar, LastOf
    <3>5. sec_per_wait = LastOf({k \in Given("t") : HasFloat(k + 2)},
                                LAMBDA k : FloatAt(k + 2), <<1>>)
      BY <2>4, <3>1 DEF WaitSoFar, LastOf
    <3> QED BY <3>2, <3>3, <3>4, <3>5
  <2>8. Of("Checker") =>
            (err = 0 <=> /\ Given("unknown") \cup Given("c") = {}
                         /\ \A o \in {"t", "n"} : Given(o) \subseteq {k \in Given(o) : HasInt(k + 1)}
                         /\ \A k \in Given("w") : HasFloat(k + 1))
    BY <2>2, <2>3, <2>5 DEF SettingsSoFar, NoneSkipped
  <2>9. dryrun <=> ~Of("Renamer") /\ Given("dry-run") # {}
    BY <2>2, <2>5 DEF SettingsSoFar, DryRunSoFar
  <2> QED BY <2>6, <2>7, <2>8, <2>9 DEF SettingsAreTheLastGood
<1> QED BY <1>1, AlwaysSoFar, PTL

(* Whatever other programs create and delete, and however patterns overlap,  *)
(* a path stands in the list at most once for each argument that finds it,   *)
(* and a file that was there all the time exactly so often (lib.cpp:56-77).  *)
THEOREM ListedOnce == Spec => []ListedOncePerArgument
<1>1. SoFar => ListedOncePerArgument
  <2> SUFFICES ASSUME SoFar, pc \in {"args", "done"} PROVE ListedOncePerArgument
    BY DEF ListedOncePerArgument
  <2>1. \A e : Finders(e, always) = Times(e, always) /\ Finders(e, ever) = Times(e, ever)
    BY DEF Finders, Times, Over
  <2>2. \A e : Listed(e) = {j \in DOMAIN files : files[j] = e}
    BY DEF Listed
  <2>3. /\ argv \in Seq(Args) /\ searched \in Seq(1 .. Len(argv)) /\ files \in Seq(Listable)
        /\ always \subseteq Paths /\ ever \subseteq Paths
    BY DEF SoFar, Flow, Line, SearchedSoFar, ListedSoFar, Disk
  <2>4. \A e : IsFiniteSet(Times(e, always)) /\ IsFiniteSet(Listed(e))
    BY <2>3, TimesFinite, ListedFinite
  <2>5. ASSUME NEW e, e \notin Listable
        PROVE  Finders(e, always) = {} /\ Finders(e, ever) = {} /\ Listed(e) = {}
    <3>1. \A k \in 1 .. Len(argv) : /\ Found(k, always) \subseteq Listable
                                    /\ Found(k, ever) \subseteq Listable
      BY <2>3, CommandLineAssumption, FoundIsListable
    <3>2. \A j \in DOMAIN searched : /\ Found(searched[j], always) \subseteq Listable
                                     /\ Found(searched[j], ever) \subseteq Listable
      BY <2>3, <3>1
    <3>3. \A j \in DOMAIN files : files[j] \in Listable
      BY <2>3
    <3> QED BY <2>5, <3>2, <3>3 DEF Finders, Listed
  <2>6. ASSUME NEW e
        PROVE  /\ Cardinality(Listed(e)) >= Cardinality(Finders(e, always))
               /\ Cardinality(Listed(e)) <= Cardinality(Finders(e, ever)) \/ e = NoPath
    <3>1. CASE e \in Listable
      BY <2>1, <3>1 DEF SoFar, ListedSoFar
    <3>2. CASE e \notin Listable
      <4>1. Cardinality({}) = 0
        BY FS_EmptySet
      <4>2. Finders(e, always) = {} /\ Finders(e, ever) = {} /\ Listed(e) = {}
        BY <2>5, <3>2
      <4> QED BY <4>1, <4>2
    <3> QED BY <3>1, <3>2
  <2>7. NoPath \in ToSet(files) => Finders(NoPath, ever) # {}
    <3>1. NoPath \in ToSet(files) => Listed(NoPath) # {}
      BY DEF ToSet, Listed
    <3> QED BY <2>1, <3>1 DEF SoFar, ListedSoFar
  <2>8. Finders(NoPath, always) # {} => NoPath \in ToSet(files)
    <3>1. SUFFICES ASSUME Finders(NoPath, always) # {} PROVE Listed(NoPath) # {}
      BY DEF ToSet, Listed
    <3>2. /\ Cardinality(Finders(NoPath, always)) \in Nat
          /\ Cardinality(Finders(NoPath, always)) # 0
      BY <2>1, <2>4, <3>1, FS_EmptySet, FS_CardinalityType
    <3>3. Cardinality(Listed(NoPath)) # 0
      BY <2>4, <2>6, <3>2, FS_CardinalityType
    <3> QED BY <3>3, FS_EmptySet
  <2> QED BY <2>2, <2>6, <2>7, <2>8 DEF ListedOncePerArgument
<1> QED BY <1>1, AlwaysSoFar, PTL
=============================================================================
