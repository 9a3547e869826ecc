# Specifications of OpenVPN Config Manager

The repository holds three small Windows programs that treat OpenVPN
configuration files in bulk, and an installer for them. Each of the programs
changes things that others change too (files, windows, the PATH of the machine)
while its user answers prompts, and each can be stopped anywhere. These modules
say what the programs do then, TLC checks it on small instances, and TLAPS proves
every one of the invariants for every instance.

- [The system](#the-system)
- [The modules](#the-modules)
- [The runs](#the-runs)
- [Where code and text differ](#where-code-and-text-differ)
- [Bounds](#bounds) and [fairness](#fairness)
- [The proofs](#the-proofs)
- [What is not modelled](#what-is-not-modelled)
- [Plan](#plan)

## The system

| part | source | state | operations |
| --- | --- | --- | --- |
| Authorizer (`Auth.exe`) | `Authorizer/Auth.cpp` | the list of files, the lines of the file in hand, the offsets of the search, the output file, the count | per file: read, search `auth-user-pass` line by line, propose and insert the credential, ask for the output file, write it, retry |
| Renamer (`Renamer.exe`) | `Renamer/Renamer.cpp` | the list of files, the rule, the plan `ans`, the map `succeed` | choose the config file, load it, plan, show, confirm, run one `move` command per entry |
| Checker (`Checker.exe`) | `Checker/Checker.cpp` | the set of addresses, the count, the windows on the desktop | collect addresses, confirm, start one window per address with breaks or one by one |
| Installer, uninstaller | `Setup.nsi.in`, `lib.nsh` | the program directory, start menu, right-click menu, list of programs, PATH in the registry and in every environment | the two sections, `AddToPath`, `un.RemoveFromPath` |
| Template language | `stdlib/lib.cpp` (`get_ini`, `string2re`, `re2string`, `parse_error`) | none | turn a pattern into a regular expression, a match into a new name |
| File search, paths | `stdlib/lib.cpp` (`Search`, `parse_filepath`, `extract_suffix`) | the list of files | expand a wildcard, append full paths |
| Command line | the loops over `argv`, `HelpDetected`, `get_int`, `get_float` | the options, the place in `argv` | read options with look-ahead, search for the rest, skip what is bad |
| Roll back | `stdlib/lib.cpp` (`roll_back`) | none | move renamed files back; nobody calls it |
| INI reader | `inih/ini.c`, `inih/cpp/INIReader.cpp` (third party) | line number, section, last name, first error, the map of values | read a file line by line, look a value up |
| Icons, tests, build files, resources, GoogleTest | | | |

**How the parts interact.** Each program reads its command line first
(`CommandLine`), calls `Search` for every argument that is no option, and works on the
list that results. The Renamer then gives the config file in it to the INI reader, and
its template to the template language. The three programs share no memory. They interact
through the file system: the Renamer's output names are the Checker's and the
Authorizer's inputs, and every one of them works on a list of files that was put
together once, at the start. The Renamer and the Checker act through `cmd.exe`
(`system`), whose commands they start and whose exit status is all they hear. The
Checker's windows are processes of their own and outlive the loop that starts
them. The installer reads PATH from its own environment and from the registry, and
writes it to the registry, where other programs write it as well.

**What is hard here.** Prompts between reading and writing; a truncating open
followed by unchecked writes; offsets into a line that grows; a list with
repetitions; a batch of commands each of which can fail, overwrite, or act on what
an earlier one left; windows that end in any order; a directory that changes while it is listed; look-ahead
in `argv`; lines of a config file that mean what the lines before them say; a two-step read and write of
PATH; interruptions at every point. `PROJECT.json` lists these places line by line
under `hazards`, with the properties that watch them.

**What makes each part correct.**

- Authorizer: the text written is the text read plus exactly the confirmed
  insertions; no directive is forgotten; a finished file is not asked for again, unless
  the credential is one that reading it back does not find; a dry run writes nothing; only the file in hand can be damaged by a stop;
  the retries come to an end.
- Renamer: no content is lost or doubled; what moved is counted; the config file
  stays unless it was passed twice; a name without a target keeps all files; a plan
  whose order is safe ends as it was shown; the batch of commands implements a bulk
  rename.
- Command line and search: each setting is the last value given that the code takes; each
  argument is an option, a value of one or searched for, and two kinds of arguments, no
  others, are two things at once; only a missing value ends a run; the
  list has each file once for each argument that finds it, whatever changes meanwhile.
- INI reader: a key has the values of its own lines, whatever stands between them; the
  first bad line is the one reported; a rule of the documented form works,
  and which of them do not is known exactly.
- Template language: a name comes out exactly of well-formed templates; the captures
  put back into the pattern are the file's name; the new name is the target with each
  variable replaced.
- Checker: every address is reported once and tried once; one by one means one by
  one; breaks come when they should; the run ends.
- Installer: the entries of other programs survive; what still names a directory
  leaves the means to uninstall; no entry is doubled; adding and removing cancel out.

## The modules

`Authorizer.tla`. A text is a sequence of lines as the code splits it, so that an
empty line at the end makes no difference, and a line is a sequence of characters, of
which the code tells five kinds apart: letters and digits, other marks, blanks, white space
in general, and `#`. `ReadFile` cuts each line at its first `#` (95-101) and
`WriteLine` puts the comment back, so what a second turn reads is what the code reads from
a file it has written, with whatever the credential has in it. The search is the one of 102-137:
`at` is `pos` + 1 and `Idx` is `idx` + 1; `Hits` are the places where `find` finds the
directive, also inside other words, and `Longer` is the test of line 109, which looks at
the next character only: `auth-user-pass2` is passed over, `auth-user-pass-verify` and
`x.auth-user-pass` are not. The bound `end` of the loop always lies behind what `find`
can find, so it never ends the search and is left out. `PassLonger`, `AlreadyThere`, `ShowOnly`, `AskToAppend`,
`ConfirmAppend`, `DeclineAppend` and `NextLine` are the branches of that loop, and
`StepOver` the careless step of `credential.length() + 1` at line 135. `AssignOutput`,
`OpenOutput`, `OpenFails`, `RetryOutput`, `GiveUp`, `WriteLine`, `WriteFails` and
`CloseOutput` are the loop at 153-175. The disk is shared with other programs
(`ForeignStore`). `CannotOpen` and `OpenFails` are always possible, since another
program may deny the access. The directive is any string that cannot overlap itself, and
TLC takes one of three characters for it. `orig`, `shown`, `yes`, `refused`, `holds`,
`settled` and `cutoff` are history that no guard reads.

`Renamer.tla`. The content that a path holds at first is called by that path, so
that the disk tells where each content has gone. What the regular expressions do to
a name is a function of the name (`rule`), arbitrary, with the two outcomes "does not
match" and "no target". One action per branch of `main`; the commands are
`MoveFails`, `MoveToFree`, `MoveOver` and `MoveNothing`, what `move` of `cmd.exe`
does with a source that is gone, a free target, a target that exists and is
overwritten after its question, and one that is not. A blank in a
path breaks the unquoted command: that is one more way to `MoveFails`.

`BatchRename.tla` is what a bulk rename promises: every file makes at most one
move, from its first path straight to its new name, onto a free path. `Renamer`
implements it (`ImplementsBatch`) with `goal` mapped to the rule.

`Search.tla`. `Search` as it goes from `FindFirstFileA` to the last `FindNextFileA`,
one call a step (`FindFirst`, `NoneFound`, `FindNext`, `NoMoreFiles`), while `Foreign` creates
and deletes files: one that came or went since the first call may be given or not. A
pattern is a record of the directory that Windows searches, the names that match, and
the text before the last backslash, from which the code builds the paths (`FullPath`).
`ever` and `always` are history.

`CommandLine.tla` extends `Search` with the loops of the three programs. An argument
has an option or none, a text of digits, points and other characters (so `get_int` and
`get_float` are modelled by what they read: a number that does not fit an `int` fails,
a second point ends a fraction), and a pattern. `Time` has the look-ahead of
`Checker.cpp:47-53`: the time is stored whether the period was good or not, and a period
that is the last argument is looked at again. `NoValue` is the read behind the end of
`argv`. `searched` and `uses` (for how many things each argument was taken) are history. What the loop leaves behind are the constants and first
states of the other modules: `Queue` and `dryrun` of Authorizer, `FileLists` of Renamer,
`Periods`, `dryrun` and `endless` of Checker.

`IniFile.tla`. The config file as inih reads it: a line is the sequence of its
characters, a keyword counts as one, and there is one action for each kind of line
(`Comment`, `Continuation`, `Section`, `Pair`, `BadLine`), with the cut of
overlong lines and names, the first error, and the map `values` of INIReader that
`ValueHandler` fills. `GetIni` is `get_ini`. A newline at the end of the file is an empty
last line, so that a last line that fills the buffer to the last character and has no
newline is not taken for overlong, as in `ini.c:166-169`.

`Template.tla` extends `IniFile`: `ReadConfig` is a step of it, then `NoConfig` and `Configured`
are the tests of `Renamer.cpp:42-68`. A template is a sequence of characters
among which only the two brackets are special, a regular expression a sequence of
characters and of groups `Regex[type]`, and one action stands for one branch of the loops of `string2re`
and `re2string`. `Cuts` and `Greedy` are what `regex_match` does with such an expression:
of all ways to cut the name it takes the one whose first group is longest, then its
second, and so on. The module runs one config file on one file name; `Renamer` keeps an
arbitrary function in its place, which includes every function that a template defines.

`Checker.tla`. Words are numbers in the order of strings, because the loop walks
through a `set<string>`. The windows are separate actors: `PingsDone` and
`UserCloses` happen at any time, also after the program's end. `start /wait` is the
state `wait` that `WindowClosed` leaves.

`Installer.tla`. The steps of the two sections in their order; what another program could
change between two of them, PATH, is read and written in actions of its own, and
`CreateShortCuts`, `RegisterMenu`, `DeleteMenu` and `WriteUninstallKey` each stand for a
row of operations of one kind, which nothing modelled comes between. PATH is a
sequence of entries in which an empty entry stands for two adjacent semicolons or
the last one. `shells` are the values of PATH that running processes may still
have, and the installer's environment is one of them. `RemoveFile` deletes the parts
of the program in any order and may stop early.

`MCAuthorizer`, `MCRenamer`, `MCTemplate`, `MCChecker`, `MCCommandLine` and `MCInstaller` hold the instances;
`AuthorizerProofs`, `RenamerProofs`, `CheckerProofs`, `InstallerProofs`, `CommandLineProofs`,
`IniFileProofs` and `TemplateProofs` the theorems; `NatLemmas` the lemmas on least and
greatest numbers that several of them need. The definitions whose name has
an underscore and a second part (`StepOver_Line`) are mutated forms of the one they
are named after: a plausible mistake in that code, under which the property listed
with it in `PROJECT.json` fails.

## The runs

| run | asks |
| --- | --- |
| `Authorizer_search` | is the edited text the text read plus the confirmed insertions, is every directive served, does a dry run stay away from the prompts and writes? One file between a path of another kind and one without a dot; every line of up to four pieces out of the directive, a letter, a mark, a blank and a `#`; seven credentials, among them the empty one, one with a `#`, one that begins with a blank, two that overlap the directive; every pattern of answers, with and without `/dry-run` |
| `Authorizer_files` | a file named twice, outputs over inputs, failing opens and writes, another program, a stop anywhere, three credentials of which one has a `#`: is a finished file asked for again when it is read and cut at its comments anew, can anything but the file in hand be damaged, does the run end? |
| `Renamer_overwrite` | under every rule on three files, with consent to overwrite and another program: is any content lost or doubled, anything moved and not counted, the config file moved, does the run end? |
| `Renamer_batch` | the config file passed once and twice, and two directories with files of equal names: does the batch implement the bulk rename, does a safe order end as shown, is it all or nothing before the first command? |
| `Template_rename` | config files of at most three lines out of the odd ones, or of two among which are rules with equal signs, semicolons, blanks, brackets and `#` in them; a usual file with one of these lines anywhere, and usual files with every pattern of up to three characters over the brackets, a letter and a digit, those of four that open with a bracket, and some with two variables, with targets that show every error and four maps; 26 names: does each key have the values of its own lines, is the first bad line reported, which rules work behind bad lines, and which do not, does a name come out exactly of good templates, do the captures restore the file's name, is the new name the filled target? |
| `Checker_windows` | all periods from -1 to 3, files that share servers, windows that end, are closed or do not open: do the reports add up, is each address tried once, one by one, with breaks in time, does the run end? |
| `Installer_interrupted` | three runs in two directories, interrupted anywhere, with another writer of PATH: are others' entries kept, does the uninstaller stay while anything names its directory, is an entry doubled, is removing what was added the identity? |
| `CommandLine_search` | every call of Auth with up to four arguments out of six, of Checker with up to three out of nine or with two or three options that have good, bad or no values, of Renamer with up to two patterns out of six, on three directories that another program changes twice: do settings, what each argument was taken for, searches and the way the run ends follow from the arguments, is the list complete and without doubles, does the run end? |

Deadlock is checked in all of them: a finished run stutters explicitly
(`Terminated`, `Rest`), so a deadlock is a state in which the program can go
nowhere.

### Where code and text differ

`PROJECT.json` quotes the lines under `findings`. Four runs check what a help text, a
message or a comment of the repository says, and find a counterexample:

- `Authorizer_shortwrite`: a write cut off by a full disk is counted as a success.
- `Template_case`: a text is replaced by the value of a key that differs from it in
  case.
- `Search_root`: for `\*` in another directory than the root, and for `sub/*`, the list
  gets paths in the working directory where no such file is.
- `Installer_longpath`: a PATH that does not fit into a string is replaced.

In six cases a property says exactly what the code does, and holds, where a text says
something else. None of them is excused by its property; each is a disagreement that
the passing run, and the theorem for all instances, establishes:

- `AllDirectivesServed` (`Authorizer_search`): words such as `auth-user-pass-verify` get the
  credential too, inside the word, where the help speaks of effective `auth-user-pass`
  parts.
- `EndsAsGiven` (`CommandLine_search`): an option that comes last without its value ends the run
  with a crash, where the message says that it is skipped.
- `EveryArgumentHasOnePlace` (`CommandLine_search`): a period that is the last argument is
  searched for as a config file as well; the time behind a refused period is stored although the
  option is reported as skipped.
- `SettingsAreTheLastGood` (`CommandLine_search`): `/t -1` never sets the period, where the help
  offers it and says that the last `/t` matters.
- `RulesWork` (`Template_rename`): a rule with a `=` in its key, or a semicolon behind a blank
  in either part, does not work, where the help makes no exception.
- `GoodOnesPass` (`Template_rename`): a template with a bracket that is still open at its end is
  followed without its rest, where the message for it is never shown.

## Bounds

- Authorizer: four pieces are enough for two directives with a credential, a mark or a
  comment between or behind them, words that go on with a letter, with a mark or not at
  all, and the step of line 135 that ends within, before and behind what follows. The
  directive has three characters: a letter, a mark, another letter. Of the credentials one
  is empty, some have one character and some more, so that steps of one to five characters
  occur. Several lines, files and turns are in `Authorizer_files`, where three turns on
  two files give every order of reading after writing. `MaxForeignEdits` = 1: a second store
  by another program only repeats the first one's effect in a later turn.
- Renamer: three files, one of them the config file, which may be passed twice, and a
  fourth name, free or taken, give chains, swaps, cycles and merges; all functions
  from the three names to new names are tried. `MaxForeign` = 1 lets a
  file vanish or appear between any two steps.
- Config file: three lines are enough for a header, a pair and what comes between them
  or continues it; the odd lines have every branch of the parser, keys that differ in case
  or are repeated, semicolons behind a character and behind a blank, rules with `=`, `#`, `[`, `]`, blanks and semicolons in them, a line that just
  fits into `MaxLine` = 16, one that fits only as the last line, one that does not fit, and a section that does not fit into
  `MaxName` = 5.
- Template: three and four characters are enough for a variable beside a literal, for every
  error and for a bracket that stays open; the longer patterns add a second variable,
  with and without a literal between them, a name that comes twice, and two names that
  differ in case. The names of up to four characters hold two groups that compete for
  the same characters, and a number with a dot.
- Command line: three arguments show each option with its value and what follows;
  two options with up to two values each, and `/t 5` between them, show what a bad
  value leaves to the next one. `MaxInt` = 12, so that 13 overflows. `MaxForeign` = 2:
  a file may come and go again during a search; what happens between two searches is the
  same as what happens at the end of the first.
- Checker: five words of which one is `remote`, three files, periods up to 3, so that bursts
  are cut off, full and exceeded. `cnt` is bounded by the number of addresses.
- Installer: `MaxRuns` = 3 covers install, install again
  elsewhere, uninstall; `MaxForeign` = 1; `MaxString` counts entries where the
  installer counts characters, 9 (never reached) or 2.

## Fairness

- Authorizer: weak fairness of the program's steps: it runs on and its user answers
  the prompts. Strong fairness of `GiveUp`: a user who is asked for another output
  file again and again ends with an empty answer at some time. Without it the loop at
  153-174 need not end. Nothing is assumed of `Kill`, other programs or the answers.
- Renamer: weak fairness of the program's steps; no command is obliged to succeed.
- Command line: weak fairness of the program's steps. A search ends because other
  programs act a bounded number of times; nothing in the code would end it in a directory
  that grows for ever.
- Checker: weak fairness of the program's steps and of the end of each finite ping;
  the user owes nothing. With `-1` and endless pings `Termination` therefore excepts
  the run that waits.

## The proofs

Every invariant that a run checks is a theorem for arbitrary constants, and so is the
refinement `ImplementsBatch`. The constants obey named assumptions, which TLC evaluates
in every run that extends their module:

- `AuthorizerAssumption`: types; the kinds of characters differ; the directive has at least
  two characters, none of them white space or `#`, and cannot overlap itself, as is true of
  `auth-user-pass`. Nothing is assumed of credentials: where a property is about ordinary
  ones only, it says so itself (`Apart`, `Ordinary`).
- `RenamerAssumption`, `CheckerAssumption`: types.
- `InstallerAssumption`: types; the directories of the program, those of others and the
  empty entry differ; at first PATH names no directory of the program, and it is not
  one empty entry, which cannot be told from an empty PATH.
- `CommandLineAssumption`, `SearchAssumption`: types; an option begins with a character
  that no number begins with; a path is a directory and a name; the directories exist all
  the time.
- `IniFileAssumption`: types; the characters that the parser looks for differ from each
  other and from the rest.
- `TemplateAssumption`: types; a group is no character; a file name has a character, and
  no angle bracket (which Windows does not allow) and no keyword in it. Nothing is assumed
  of the replacement values, which may have angle brackets.

Three of the proofs have to follow something that is computed step by step along a
sequence: the lines of a file, the pieces of a template, the search along a line that grows. The
functions are recursive ones (`f[n \in Nat]`), and the induction is that of `LeastNat`:
if some number is a counterexample there is a least one, whose predecessor is none.

`AuthorizerProofs`:

- `TypeCorrect`. `TypeOK` is not inductive alone: writing needs that the output
  file exists (`OutThere`), inserting that the prompt stands at a directive
  (`AtDirective`), the next file that there is one (`FileInTurn`). `PlaceOK` is the
  conjunction; `PlaceStep` has one step per action. The lemma `InsertedLine` says
  what an insertion makes of a line.
- `DryRunIsReadOnly`: `DryRunNeverWrites` is inductive.
- `AllServed`: the argument why the careless step at `Auth.cpp:135` forgets nothing.
  `Served` says that, in a text none of whose appendages was refused, the lines above have
  no unserved directive (`RowsDone`), and that those of the line in turn lie from the
  search on (`RowDone`). `PassedOver`: a directive that begins before the end of the step would
  share a character with the credential that was found or inserted there, which
  `Apart` excludes, or stand directly behind it.
- `OnlyTheFileInHand`: while a file is written without failure it holds the lines
  handed over so far (`WrittenSoFar`), so that at its closing it is what was meant.
- `NeverAskedTwice`: a second turn reads the written line and takes steps of its own, so
  the proof compares two searches. `Step` is one step of a search that needs no question,
  a set of positions is `Closed` when such steps lead from each of them to another of them or to the end of
  the line, and a line is `Quiet` from a position that is in a closed set. A `Trail` leads
  from the begin of the line to where the search stands, over positions of the edited line;
  each insertion keeps it (`TrailInserted`), since it comes behind all of them, and adds
  one step. At the end of the line the trail makes it quiet (`TrailEnds`). `CodeAgain`: a
  line that is put together from its code and its comment is cut at the same place again,
  because an ordinary credential has no `#`. So what a finished file holds is quiet
  (`SettledQuiet`) and is so in memory when the file comes again (`SettledTurn`), and a prompt stands only
  where a line is not.
- `OnlyConfirmedEdits`: every confirmed place lies before the search, counted in the
  characters of the text that was read (`Was`, `EditsSoFar`). An insertion then is one more
  confirmed place behind all others: `EditedOnceMore` says, character by character, what
  that does to `IsEdited`.

`RenamerProofs`:

- `TypeCorrect`, with `PlanOK`: every entry of the plan comes from the rule.
- `NothingLost`, `CountIsComplete`: preserved together, command by command.
- `StraightToGoal`: what stands at a source when its command runs is that source's
  own first content (`SourceIsItself`): a content that had arrived there earlier
  would have filled a path whose owner is still to move.
- `Refinement`: every step of the Renamer is a step of `BatchRename` or leaves its
  variables alone, where nobody agrees to overwrite and no other program acts.
- `ConfigFileStays`: a config file that is passed once is never in the plan
  (`NotPlanned`); before the commands nothing has moved (`NoneMoved`, `Early`).
- `AllOrNothingIsRenamed`: the files planned so far have good targets (`GoodSoFar`),
  and whoever comes to the commands comes there from the end of the list
  (`AtBeginning`).
- `SafePlansAreExact`: while every command has succeeded, the disk is the first disk with
  the moves so far made all at once (`ExactDisk`). `SafeEntry` is why the order matters:
  in a plan whose order is safe, the move in turn finds its file at its source and nothing
  at its target.

`CheckerProofs`:

- `TypeCorrect`, with `NotYet` (nothing is launched before the loop), and the lemma
  `AddrType`: what is left of a set of natural numbers has a least element, finite or
  not, so the next address exists.
- `NewsAddUp`: the files not yet read have added nothing (`NoNewsYet`).
- `NoneLeftOut`: the addresses tried are exactly those up to the last one
  (`Progress`), which one launch keeps because it goes to the least one behind it.
- `BreaksAreInTime`: a launch that would exceed the period finds the number of
  launches at a multiple of it (`LessDivisor`), so a break was due, and behind a break
  the burst is empty (`FreshBurst`).
- `NeverTwoWindows`: the only window is that of the last launch, and it is closed
  when the loop goes on (`LastWindow`).

`InstallerProofs`:

- `TypeCorrect` (`Types`: the steps in which a run can be, and PATH as a sequence that can
  be written down).
- `OthersAreKept`: what is written is computed from what was read, and as long as nobody
  else wrote and nothing was cut this is what PATH holds (`ReadIsPath`). The lemmas
  `RemovedShortens`, `RemovedKeepsOthers`, `AddedKeepsOthers` say what the two string
  functions of `lib.nsh` do to the entries.
- `AddingIsUndone`: `AddedIsRemoved`, that `un.RemoveFromPath` after `AddToPath` gives
  back the PATH before, semicolons included, for every PATH without the directory.
- `EnteredOnce`, as long as no environment is out of date and PATH fits into a string: the check reads PATH in the environment of the installer and the write
  goes to the registry. `NothingTwice` relates the two: unless an environment is out of
  date or PATH was cut, the directories in the registry are in the environment until
  the check, and after it the one to be added is not in the registry.
- `AlwaysUninstallable`: `NamedWhileThere` says, step by step of both sections, which
  of the uninstaller, the links and the registry still stand for the directory in hand.

`CommandLineProofs`:

- `AlwaysSoFar`: `SoFar` is the invariant of all the loops at once. `Line` says where
  the loop can stand, `InTurn` that it never stands on a value that an option consumes,
  `NoneLacked` that no option before it lacks its value, `Disk` and `Searching` what
  the open search has found of what exists,
  `SearchedSoFar` that every argument to be searched for before this one was,
  `SettingsSoFar` that each setting is the last good value before it, and `ListedSoFar`
  how often each path is in the list.
- `NoArgumentIsLost`, `TheLastGoodCounts`, `ListedOnce`, `EndsAsTheLineSays`,
  `TypeCorrect` are what these say at the end of the line. `UsesSoFar` counts what each
  argument was taken for: once each, but for the two cases that the property names. The subtle one is `/t` of
  Checker (`TimeSteps`): its first value is looked at again when it is the last argument.
  In a row of `/c` of Auth every second one is a value (`RunsNext`, `EveryOther`).

`IniFileProofs`, of the specification `IniSpec` of the reader alone:

- `ReaderTypeCorrect`; `FirstErrorIsKept`: for files without indented lines, the error is the least of the bad lines read
  (`FirstBad`), which `LineIs` carries over the five kinds of lines.
- `ReadIsWritten`: `Meaning` relates the state of the parser to the lines behind it (of a
  file without indented lines): the section in force is that of the last header, the map
  has the keys of the pairs read, and each value is what the lines of its key join to, in
  their order (`Chain`).
- `RulesAreFound`: of the rules of the documented form, exactly those work whose key has no
  `=` or `:` and whose parts have no semicolon behind a blank. `Laid` says where each of the
  characters of a rule stands and `RuleIs` that the parser cuts a plain one where the help means it to,
  whatever other characters are in it, and another value earlier (`PlainKey`). That no
  other key is ever found (`OtherKey`) is because no name the parser makes has these
  characters (`NameIsPlain`), and folding the case moves none (`SameSpecials`).

`TemplateProofs`:

- `RunsReadTheFile`: every behaviour of Template is one of `IniSpec` on the variables of
  the reader, so `RunsReadAsWritten` gets the three invariants of `IniFileProofs`.
- `TypeCorrect`: `Typed` adds that the map is finite, that there are as many groups in
  the expression as were counted, and that a match has a text for each. `GreedyIs`
  proves that a name that matches at all has a way to cut it that is greedier than
  all others: those that are best up to one place are compared at the next.
- `OnlyGoodTemplates`: `BracketsSoFar`, where the loop stands between the brackets (`At`),
  and that the names in the map are the variables closed so far (`Known`); the three
  branches keep it by `OpenStep`, `CloseStep` and `OtherStep`.
- `NewNamesAreFilled`: the new name is the pieces of the target so far, one after the
  other (`AnsSoFar`); `FlattenIs` says what it is to join pieces.
- `CapturesAreExact`: `RegexSoFar` says which token of the expression each character of
  the pattern became and where the number of a variable's group comes from (`Emits`), and
  how a match cuts the name along them (`MatchedAs`). The pieces of the name between the
  cuts are then the pieces of the pattern with captures in place of variables.

Only model-checked: the four `Termination` properties. The prover has no rules for
ENABLED, and so none for fairness. The four properties that runs refute are, of course,
no theorems.

## What is not modelled

- `roll_back` has no caller: no run of the programs comes to it.
- Of inih, what no program calls: the typed getters, the parsing of strings, and the
  build options that are not set, with the byte order mark.
- GoogleTest. The vendored sources of the test framework are nearly all of the
  repository by lines (about 44,000 of 45,000); nothing of the programs runs them, and
  a model of them would say nothing about the programs. The share of all lines that the
  modules cover is therefore small, while of the programs' own sources (`Authorizer`,
  `Renamer`, `Checker`, `stdlib/lib.cpp`, the installer scripts, and what they run of
  inih) the state-changing code is covered.
- Icons, workflows, templates and drawings have no state of the programs.
- Errors of `FindNextFileA`, which the code takes for the end of the directory; the
  conversion of a large timeout to `int`, which is undefined and reaches only the text
  of a command.
- Within the modelled parts: the kinds of line ends, the texts of messages, code pages, the DOS branch of the
  PATH functions, the trimming of blanks around PATH, the notification of other
  processes after PATH was written, the subkeys one by one of the right-click
  menu, and installer steps that fail while the script, which does not look, goes on
  (what is modelled is that it is stopped at any step).

## Plan

In the order of what a mistake would cost:

1. `Authorizer`, `Renamer` with `BatchRename`, `Template`, `Checker`, `Installer`:
   done, with the first theorems.
2. `IniFile` under `Template`, `Search` under `CommandLine`: done.
3. Theorems for all invariants of the runs: done.
4. `Suite`: Renamer and Authorizer at work in one directory, with the lists that
   CommandLine gives them.
5. Template as the source of the Renamer's rules: that the outcome of a template on all
   names of a directory is a function in `Rules`, so that the theorems of `RenamerProofs`
   speak of every config file.
