----------------------------- MODULE CommandLine -----------------------------
(* The command line of the three programs: HelpDetected, get_int, get_float  *)
(* (src/stdlib/lib.cpp) and the loops over the arguments in the main of      *)
(* Auth.cpp, Checker.cpp and Renamer.cpp, which call Search for what is no   *)
(* option.                                                                   *)
EXTENDS Search, SequencesExt

CONSTANTS
    Args,          \* arguments
    Option,        \* argument -> its option, in lower case, or "none", see below
    Texts,         \* argument -> its characters
    PatternOf,     \* argument -> what Search makes of it
    Point, Minus, Other,  \* '.', '-', and characters that are none of these
    MaxInt,
    Inputs         \* the calls: pairs of a program and its arguments

Programs == {"Auth", "Checker", "Renamer"}
Digits   == 0 .. 9

(* "help" is "--help" or "/help" or "/?".  "none" is what has no '/' first.  *)
Options == {"help", "none", "c", "dry-run", "t", "w", "n", "unknown"}

ASSUME CommandLineAssumption ==
    /\ Option \in [Args -> Options]
    /\ {Point, Minus, Other} \cap Digits = {} /\ Point \notin {Minus, Other}
    /\ \A a \in Args : /\ Texts[a] \in Seq(Digits \cup {Point, Minus, Other})
                       /\ Option[a] # "none" => /\ Texts[a] # <<>>
                                                /\ Texts[a][1] \in {Minus, Other}
    /\ DOMAIN PatternOf = Args /\ MaxInt \in Nat
    /\ Inputs \subseteq Programs \X Seq(Args)

VARIABLES
    program, argv,
    pc,            \* "start", "args", "search", or how it ended
    i,             \* the argument in turn
    credential,    \* Auth: an argument, or "auth.txt"
    dryrun,
    period,        \* Checker: an integer, the others decimal fractions,
    sec_per_wait,  \*          kept as the characters they are read from
    ping_timeout,
    ping_cnt,
    err,           \* Checker: the exit code
    \* History, read by properties only:
    searched,      \* the arguments that Search was called for, in their order
    uses           \* argument -> how often it was taken for something: for an
                   \* option, for a value that is stored, or for a pattern

settings == <<credential, dryrun, period, sec_per_wait, ping_timeout, ping_cnt, err>>
history  == <<searched, uses>>
vars     == <<searchVars, program, argv, pc, i, settings, history>>

-----------------------------------------------------------------------------
(* get_int and get_float.                                                    *)
IntOf(s)   == FoldLeft(LAMBDA v, d : 10 * v + d, 0, s)
IsInt(s)   == s # <<>> /\ s \in Seq(Digits) /\ IntOf(s) \in 0 .. MaxInt

(* A second point ends the number.                                           *)
FloatOf(s) ==
    SubSeq(s, 1, Max({m \in 0 .. Len(s) : Cardinality({k \in 1 .. m : s[k] = Point}) <= 1}))
IsFloat(s) ==
    s \in Seq(Digits \cup {Point}) /\ \E k \in DOMAIN FloatOf(s) : FloatOf(s)[k] \in Digits

IntAt(k)    == IntOf(Texts[argv[k]])
HasInt(k)   == k <= Len(argv) /\ IsInt(Texts[argv[k]])
FloatAt(k)  == FloatOf(Texts[argv[k]])
HasFloat(k) == k <= Len(argv) /\ IsFloat(Texts[argv[k]])

-----------------------------------------------------------------------------
Init ==
    /\ SearchInit
    /\ \E in \in Inputs : program = in[1] /\ argv = in[2]
    /\ pc = "start" /\ i = 1 /\ searched = <<>> /\ uses = [k \in 1 .. Len(argv) |-> 0]
    /\ credential = "auth.txt" /\ dryrun = FALSE /\ err = 0
    /\ period = -1 /\ sec_per_wait = <<1>> /\ ping_timeout = <<1>> /\ ping_cnt = 0

HelpDetected == argv = <<>> \/ \E k \in DOMAIN argv : Option[argv[k]] = "help"

Start ==
    /\ pc = "start"
    /\ pc' = IF HelpDetected THEN "help" ELSE "args"
    /\ UNCHANGED <<searchVars, program, argv, i, settings, history>>

(* The argument in turn: Renamer searches for whatever it is.                *)
At(option) ==
    /\ pc = "args" /\ i <= Len(argv)
    /\ option = IF program = "Renamer" THEN "none" ELSE Option[argv[i]]
Of(p)      == program = p
Taken(K)   == uses' = [k \in DOMAIN uses |-> IF k \in K THEN uses[k] + 1 ELSE uses[k]]
Goto(k)    == i' = k /\ UNCHANGED <<searchVars, program, argv, pc, searched>>

-----------------------------------------------------------------------------
(* Search.                                                                   *)
SearchFirst ==
    /\ At("none") /\ FindFirst(PatternOf[argv[i]])
    /\ searched' = Append(searched, i) /\ Taken({i}) /\ pc' = "search"
    /\ UNCHANGED <<program, argv, i, settings>>

SearchNothing ==
    /\ At("none") /\ NoneFound(PatternOf[argv[i]])
    /\ searched' = Append(searched, i) /\ Taken({i}) /\ i' = i + 1
    /\ UNCHANGED <<program, argv, pc, settings>>

SearchNext ==
    /\ pc = "search" /\ FindNext
    /\ UNCHANGED <<program, argv, pc, i, settings, history>>

SearchEnds ==
    /\ pc = "search" /\ NoMoreFiles
    /\ pc' = "args" /\ i' = i + 1
    /\ UNCHANGED <<program, argv, settings, history>>

-----------------------------------------------------------------------------
(* Options.                                                                  *)
DryRun ==
    /\ At("dry-run")
    /\ dryrun' = TRUE
    /\ Goto(i + 1) /\ Taken({i})
    /\ UNCHANGED <<credential, period, sec_per_wait, ping_timeout, ping_cnt, err>>

Fails == err' = IF Of("Checker") THEN 1 ELSE err
NotItsOwn ==
    \/ At("unknown")
    \/ Of("Auth") /\ \E o \in {"t", "w", "n"} : At(o)
    \/ Of("Checker") /\ At("c")
Unrecognized_Stays ==      \* Mutant: the loop does not go on
    /\ NotItsOwn
    /\ Fails
    /\ Goto(i) /\ Taken({})
    /\ UNCHANGED <<credential, dryrun, period, sec_per_wait, ping_timeout, ping_cnt>>
Unrecognized ==
    /\ NotItsOwn
    /\ Fails
    /\ Goto(i + 1) /\ Taken({i})
    /\ UNCHANGED <<credential, dryrun, period, sec_per_wait, ping_timeout, ping_cnt>>

(* Mutant: the name is looked at again as an argument of its own.            *)
Cred_Again ==
    /\ Of("Auth") /\ At("c") /\ i < Len(argv)
    /\ credential' = argv[i + 1]
    /\ Goto(i + 1) /\ Taken({i, i + 1})
    /\ UNCHANGED <<dryrun, period, sec_per_wait, ping_timeout, ping_cnt, err>>
Cred ==
    /\ Of("Auth") /\ At("c") /\ i < Len(argv)
    /\ credential' = argv[i + 1]
    /\ Goto(i + 2) /\ Taken({i, i + 1})
    /\ UNCHANGED <<dryrun, period, sec_per_wait, ping_timeout, ping_cnt, err>>

(* The time is read if the period is not the last argument, be the period    *)
(* good or not; a period that is the last argument is looked at again.       *)
Timed == i + 1 < Len(argv) /\ HasFloat(i + 2)
Time_Ahead ==      \* Mutant: nxt is not taken back
    /\ Of("Checker") /\ At("t") /\ i < Len(argv)
    /\ period' = IF HasInt(i + 1) THEN IntAt(i + 1) ELSE period
    /\ sec_per_wait' = IF Timed THEN FloatAt(i + 2) ELSE sec_per_wait
    /\ IF HasInt(i + 1) THEN Goto(i + 3) /\ UNCHANGED err ELSE Goto(i + 1) /\ Fails
    /\ Taken({i} \cup {k \in {i + 1} : HasInt(k)} \cup {k \in {i + 2} : Timed})
    /\ UNCHANGED <<credential, dryrun, ping_timeout, ping_cnt>>
Time ==
    /\ Of("Checker") /\ At("t") /\ i < Len(argv)
    /\ period' = IF HasInt(i + 1) THEN IntAt(i + 1) ELSE period
    /\ sec_per_wait' = IF Timed THEN FloatAt(i + 2) ELSE sec_per_wait
    /\ IF HasInt(i + 1)
       THEN Goto(IF Timed THEN i + 3 ELSE IF i + 1 < Len(argv) THEN i + 2 ELSE i + 1)
            /\ UNCHANGED err
       ELSE Goto(i + 1) /\ Fails
    /\ Taken({i} \cup {k \in {i + 1} : HasInt(k)} \cup {k \in {i + 2} : Timed})
    /\ UNCHANGED <<credential, dryrun, ping_timeout, ping_cnt>>

(* Mutant: get_float stores what it reads before it looks at it.             *)
Wait_Clears ==
    /\ Of("Checker") /\ At("w") /\ i < Len(argv)
    /\ IF HasFloat(i + 1) THEN ping_timeout' = FloatAt(i + 1) /\ Goto(i + 2) /\ UNCHANGED err
                          ELSE ping_timeout' = <<0>> /\ Goto(i + 1) /\ Fails
    /\ Taken({i} \cup {k \in {i + 1} : HasFloat(k)})
    /\ UNCHANGED <<credential, dryrun, period, sec_per_wait, ping_cnt>>
Wait ==
    /\ Of("Checker") /\ At("w") /\ i < Len(argv)
    /\ IF HasFloat(i + 1) THEN ping_timeout' = FloatAt(i + 1) /\ Goto(i + 2) /\ UNCHANGED err
                          ELSE UNCHANGED ping_timeout /\ Goto(i + 1) /\ Fails
    /\ Taken({i} \cup {k \in {i + 1} : HasFloat(k)})
    /\ UNCHANGED <<credential, dryrun, period, sec_per_wait, ping_cnt>>

Number ==
    /\ Of("Checker") /\ At("n") /\ i < Len(argv)
    /\ IF HasInt(i + 1) THEN ping_cnt' = IntAt(i + 1) /\ Goto(i + 2) /\ UNCHANGED err
                        ELSE UNCHANGED ping_cnt /\ Goto(i + 1) /\ Fails
    /\ Taken({i} \cup {k \in {i + 1} : HasInt(k)})
    /\ UNCHANGED <<credential, dryrun, period, sec_per_wait, ping_timeout>>

(* A string is made of argv[argc], which is NULL: the run ends there.        *)
NoValue ==
    /\ i = Len(argv)
    /\ \/ Of("Auth") /\ At("c")
       \/ Of("Checker") /\ \E o \in {"t", "w", "n"} : At(o)
    /\ pc' = "crashed"
    /\ UNCHANGED <<searchVars, program, argv, i, settings, history>>

ArgsEnd ==
    /\ pc = "args" /\ i > Len(argv)
    /\ pc' = "done"
    /\ UNCHANGED <<searchVars, program, argv, i, settings, history>>

Ended      == pc \in {"help", "crashed", "done"}
Terminated == Ended /\ UNCHANGED vars
Others     == Foreign /\ UNCHANGED <<program, argv, pc, i, settings, history>>

Step ==
    \/ Start \/ SearchFirst \/ SearchNothing \/ SearchNext \/ SearchEnds
    \/ DryRun \/ Unrecognized \/ Cred \/ Time \/ Wait \/ Number \/ NoValue \/ ArgsEnd
Next     == Step \/ Others \/ Terminated
Spec     == Init /\ [][Next]_vars
FairSpec == Spec /\ WF_vars(Step)

-----------------------------------------------------------------------------
(* The command line without the loop.                                        *)

Is(k, option) == k \in DOMAIN argv /\ Option[argv[k]] = option

(* An argument is the value of an option before it.  Auth takes whatever     *)
(* comes behind /c, another /c too; Checker takes numbers only.              *)
Runs(k)     == {j \in 1 .. k - 1 : \A l \in j .. k - 1 : Is(l, "c")}
Consumed(k) ==
    \/ Of("Auth") /\ Cardinality(Runs(k)) % 2 = 1
    \/ /\ Of("Checker")
       /\ \/ Is(k - 1, "w") /\ HasFloat(k)
          \/ Is(k - 1, "n") /\ HasInt(k)
          \/ Is(k - 1, "t") /\ HasInt(k) /\ k < Len(argv)
          \/ Is(k - 2, "t") /\ HasInt(k - 1) /\ HasFloat(k)
Given(option) == {k \in DOMAIN argv : Is(k, option) /\ ~Consumed(k)}

TakesValue(k) ==
    \/ Of("Auth") /\ k \in Given("c")
    \/ Of("Checker") /\ \E o \in {"t", "w", "n"} : k \in Given(o)

-----------------------------------------------------------------------------
TypeOK ==
    /\ SearchTypeOK /\ <<program, argv>> \in Inputs
    /\ pc \in {"start", "args", "search", "help", "crashed", "done"}
    /\ i \in 1 .. Len(argv) + 1 /\ (pc = "search" <=> handle # NoHandle)
    /\ credential \in Args \cup {"auth.txt"} /\ dryrun \in BOOLEAN /\ err \in {0, 1}
    /\ uses \in [1 .. Len(argv) -> Nat]
    /\ period \in -1 .. MaxInt /\ ping_cnt \in 0 .. MaxInt
    /\ sec_per_wait \in Seq(Digits \cup {Point}) /\ ping_timeout \in Seq(Digits \cup {Point})

(* Whatever bad values, values that look like options and unknown options    *)
(* stand between them, each setting is the value of the last option that has *)
(* one get_int or get_float takes (Checker.cpp:35-74, Auth.cpp:28-60), and   *)
(* the exit code tells whether something was skipped.  A time counts behind  *)
(* a bad period too; and -1 is a bad one, although the help offers it: a     *)
(* minus sign is no digit to get_int (lib.cpp:17), so that /t 5 /t -1 leaves *)
(* the period at 5.                                                          *)
LastOf(K, Setting(_), default) == IF K = {} THEN default ELSE Setting(Max(K))
SettingsAreTheLastGood ==
    pc = "done" =>
        /\ Of("Auth") =>
              credential = LastOf(Given("c"), LAMBDA k : argv[k + 1], "auth.txt")
        /\ Of("Checker") =>
              LET Ints(o) == {k \in Given(o) : HasInt(k + 1)}
              IN  /\ period = LastOf(Ints("t"), LAMBDA k : IntAt(k + 1), -1)
                  /\ ping_cnt = LastOf(Ints("n"), LAMBDA k : IntAt(k + 1), 0)
                  /\ ping_timeout = LastOf({k \in Given("w") : HasFloat(k + 1)},
                                           LAMBDA k : FloatAt(k + 1), <<1>>)
                  /\ sec_per_wait = LastOf({k \in Given("t") : HasFloat(k + 2)},
                                           LAMBDA k : FloatAt(k + 2), <<1>>)
                  /\ err = 0 <=> /\ Given("unknown") \cup Given("c") = {}
                                 /\ \A o \in {"t", "n"} : Given(o) \subseteq Ints(o)
                                 /\ \A k \in Given("w") : HasFloat(k + 1)
        /\ dryrun <=> ~Of("Renamer") /\ Given("dry-run") # {}

(* No argument is lost: each that the loop is past was taken for an option,  *)
(* a value or a pattern, and what is searched for, once and in order, is     *)
(* what is no option and no value that is stepped over (the step of nxt in   *)
(* Checker.cpp:47-66 and Auth.cpp:36-56).  Two kinds of arguments, and no    *)
(* others, are taken once more: a period that is the last argument is stored *)
(* and then searched for, and what stands where the time of a bad period     *)
(* would is stored as the time and then taken for what else it is.           *)
LastPeriod(k)      == Of("Checker") /\ Is(k - 1, "t") /\ HasInt(k) /\ k = Len(argv)
TimeOfBadPeriod(k) == Of("Checker") /\ Is(k - 2, "t") /\ ~HasInt(k - 1) /\ HasFloat(k)
Once(b)            == IF b THEN 1 ELSE 0
EveryArgumentHasOnePlace ==
    pc \in {"done", "crashed"} =>
        /\ \A j, k \in DOMAIN searched : j < k => searched[j] < searched[k]
        /\ ToSet(searched) = {k \in DOMAIN argv :
                                 Of("Renamer") \/ (Is(k, "none") /\ ~Consumed(k))}
        /\ \A k \in 1 .. i - 1 : uses[k] = 1 + Once(LastPeriod(k)) + Once(TimeOfBadPeriod(k))

(* The code gives a run up at its command line exactly where the last        *)
(* argument is an option that takes a value, an option that is a value       *)
(* itself not counted (Auth.cpp:42, Checker.cpp:49-57).  Help comes before   *)
(* this (lib.cpp:81).  The message for a missing value says that the argument*)
(* is skipped (Checker.cpp:70, Auth.cpp:58); the code makes a string of NULL.*)
EndsAsGiven ==
    Ended => pc = IF HelpDetected THEN "help"
                  ELSE IF TakesValue(Len(argv)) THEN "crashed" ELSE "done"

(* The list of a run, whatever other programs create and delete meanwhile    *)
(* and however the patterns overlap: a path stands in it at most once for    *)
(* each argument that finds it, and a file that was there all the time       *)
(* exactly so often (lib.cpp:56-77).  The files whose paths do not fit share *)
(* one entry, and there is one only if there is such a file.                 *)
Entry(k, x)   == FullPath(PatternOf[argv[k]], x)
Found(k, S)   == {Entry(k, x) : x \in Matches(PatternOf[argv[k]], S \ Folders)}
Finders(e, S) == {j \in DOMAIN searched : e \in Found(searched[j], S)}
ListedOncePerArgument ==
    pc \in {"args", "done"} =>
        /\ \A e \in ToSet(files) \cup always :
              LET listed == Cardinality({j \in DOMAIN files : files[j] = e})
              IN  /\ listed >= Cardinality(Finders(e, always))
                  /\ listed <= Cardinality(Finders(e, ever)) \/ e = NoPath
        /\ NoPath \in ToSet(files) => Finders(NoPath, ever) # {}
        /\ Finders(NoPath, always) # {} => NoPath \in ToSet(files)

(* Each run comes to its end, if it is given time.                           *)
Termination == <>Ended

-----------------------------------------------------------------------------
(* What the program's own texts say of it, and the code does otherwise.      *)

(* "Search for files matching the wildcard and store them in [ans]"          *)
(* (lib.h:29): what is stored is a file that was found.                      *)
ListedIsFound == \A k \in DOMAIN files : files[k] # NoPath => files[k] \in ever
=============================================================================
