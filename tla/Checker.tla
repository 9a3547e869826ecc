------------------------------- MODULE Checker -------------------------------
(* Checker.exe (src/Checker/Checker.cpp): collects the server addresses that *)
(* the files name, and opens for each of them a console window that pings    *)
(* it.  The windows are processes of their own: they outlive the step that   *)
(* starts them, end when their pings are done, or when the user closes them. *)
(*                                                                           *)
(* A text is the sequence of its words, and a word is a number: its place in *)
(* the order of strings, in which a set<string> is walked through.           *)
EXTENDS Integers, Sequences, FiniteSets

CONSTANTS
    Words,       \* the numbers of the words
    Remote,      \* the number of the word "remote"
    Texts,       \* what a file may hold
    Ovpn,        \* for each file of the command line: does it end in ".ovpn"?
    Periods,     \* what /t[ime] may have set: -1 (one by one), 0 (all) or more
    Silent       \* the build with SILENT defined

ASSUME CheckerAssumption ==
    /\ Words \subseteq Nat \ {0}
    /\ Remote \in Words
    /\ Texts \subseteq Seq(Words)
    /\ Ovpn \in Seq(BOOLEAN)
    /\ Periods \subseteq Nat \cup {-1}
    /\ Silent \in BOOLEAN

Files == 1 .. Len(Ovpn)

VARIABLES
    texts,     \* file -> its text
    period,    \* -1, 0 or the number of launches between two breaks
    dryrun,    \* /dry-run was given
    endless,   \* ping_cnt = 0: the windows ping until they are closed
    pc,        \* where the program stands
    file,      \* the number of the file in turn
    address,   \* set<string> address
    last,      \* the address launched last, 0 before the first
    cnt,       \* the launches so far
    windows,   \* the addresses that have an open window
    \* History, read by properties only:
    news,      \* file -> the addresses that it was reported to add
    tried,     \* the addresses whose `start' command was run, in order
    burst      \* the launches since the last break

vars == <<texts, period, dryrun, endless, pc, file, address, last, cnt, windows, news,
          tried, burst>>

options   == <<texts, period, dryrun, endless>>
found     == <<file, address, news>>
launching == <<last, cnt, tried, burst>>

Ended == {"done", "killed"}

-----------------------------------------------------------------------------
(* The words behind "remote".  A word read as an address is no directive.    *)
Named(w) ==
    LET directive[k \in 0 .. Len(w)] ==
            k > 0 /\ w[k] = Remote /\ ~directive[k - 1]
    IN  {w[k + 1] : k \in {k \in 1 .. Len(w) - 1 : directive[k]}}

Init ==
    /\ texts \in [Files -> Texts]
    /\ period \in Periods /\ dryrun \in BOOLEAN /\ endless \in BOOLEAN
    /\ pc = "collect" /\ file = 1 /\ address = {}
    /\ last = 0 /\ cnt = 0 /\ windows = {}
    /\ news = [f \in Files |-> {}] /\ tried = <<>> /\ burst = 0

Unsupported ==
    /\ pc = "collect" /\ file \in Files /\ ~Ovpn[file]
    /\ file' = file + 1
    /\ UNCHANGED <<options, pc, address, news, windows, launching>>

(* Mutant: an address is new whenever the file names it.                     *)
CollectFile_AllNew ==
    /\ pc = "collect" /\ file \in Files /\ Ovpn[file]
    /\ LET new_address == Named(texts[file])
       IN  /\ address' = address \cup new_address
           /\ news' = [news EXCEPT ![file] = new_address]
    /\ file' = file + 1
    /\ UNCHANGED <<options, pc, windows, launching>>

CollectFile ==
    /\ pc = "collect" /\ file \in Files /\ Ovpn[file]
    /\ LET new_address == Named(texts[file]) \ address
       IN  /\ address' = address \cup new_address
           /\ news' = [news EXCEPT ![file] = new_address]
    /\ file' = file + 1
    /\ UNCHANGED <<options, pc, windows, launching>>

(* The file cannot be opened: the loop reads no word.                        *)
CannotOpen ==
    /\ pc = "collect" /\ file \in Files /\ Ovpn[file]
    /\ file' = file + 1
    /\ UNCHANGED <<options, pc, address, news, windows, launching>>

(* No address, a dry run, or a refusal: nothing is launched.                 *)
NothingToDo ==
    /\ pc = "collect" /\ file \notin Files
    /\ address = {} \/ dryrun \/ ~Silent
    /\ pc' = "done"
    /\ UNCHANGED <<options, found, windows, launching>>

Confirm ==
    /\ pc = "collect" /\ file \notin Files /\ address # {} /\ ~dryrun
    /\ pc' = "next"
    /\ UNCHANGED <<options, found, windows, launching>>

-----------------------------------------------------------------------------
(* The loop over the addresses.                                              *)

Left_AlsoLast == {x \in address : x >= last}      \* Mutant
Left  == {x \in address : x > last}
Addr  == CHOOSE x \in Left : \A y \in Left : x <= y

BreakDue_Late == period > 0 /\ cnt > 1 /\ cnt % period = 1      \* Mutant
BreakDue == period > 0 /\ cnt > 0 /\ cnt % period = 0

Sleep ==
    /\ pc = "next" /\ Left # {} /\ BreakDue
    /\ pc' = "slept" /\ burst' = 0
    /\ UNCHANGED <<options, found, last, cnt, tried, windows>>

Ready_Awake == Left # {} /\ pc = "next" /\ ~BreakDue   \* Mutant: stuck in the break
Ready == Left # {} /\ pc \in {"next", "slept"} /\ (BreakDue => pc = "slept")

Advance_Uncounted ==      \* Mutant: a launch is not counted
    /\ last' = Addr /\ cnt' = cnt
    /\ tried' = Append(tried, Addr) /\ burst' = burst + 1
Advance ==
    /\ last' = Addr /\ cnt' = cnt + 1
    /\ tried' = Append(tried, Addr) /\ burst' = burst + 1

(* `start /wait' comes back when the window is closed, `start' at once.      *)
Launch_NoWait ==      \* Mutant: /wait is forgotten
    /\ Ready
    /\ windows' = windows \cup {Addr}
    /\ Advance
    /\ pc' = "next"
    /\ UNCHANGED <<options, found>>
Launch ==
    /\ Ready
    /\ windows' = windows \cup {Addr}
    /\ Advance
    /\ pc' = IF period = -1 THEN "wait" ELSE "next"
    /\ UNCHANGED <<options, found>>

(* The status of the command is not looked at.                               *)
LaunchFails ==
    /\ Ready
    /\ Advance
    /\ pc' = "next"
    /\ UNCHANGED <<options, found, windows>>

WindowClosed ==
    /\ pc = "wait" /\ last \notin windows
    /\ pc' = "next"
    /\ UNCHANGED <<options, found, windows, launching>>

Summary ==
    /\ pc = "next" /\ Left = {}
    /\ pc' = "done"
    /\ UNCHANGED <<options, found, windows, launching>>

-----------------------------------------------------------------------------
(* The surroundings.                                                         *)

PingsDone(x) ==
    /\ x \in windows /\ ~endless
    /\ windows' = windows \ {x}
    /\ UNCHANGED <<options, pc, found, launching>>

UserCloses(x) ==
    /\ x \in windows
    /\ windows' = windows \ {x}
    /\ UNCHANGED <<options, pc, found, launching>>

(* The program is stopped; its windows stay.                                 *)
Kill ==
    /\ pc \notin Ended
    /\ pc' = "killed"
    /\ UNCHANGED <<options, found, windows, launching>>

Terminated == pc \in Ended /\ UNCHANGED vars

Program ==
    \/ Unsupported \/ CollectFile \/ CannotOpen \/ NothingToDo \/ Confirm
    \/ Sleep \/ Launch \/ LaunchFails \/ WindowClosed \/ Summary

Next ==
    \/ Program \/ Kill
    \/ \E x \in Words : PingsDone(x) \/ UserCloses(x)
    \/ Terminated

Spec == Init /\ [][Next]_vars

(* The program runs on, and so do the pings; the user owes nothing.          *)
FairSpec ==
    Spec /\ WF_vars(Program) /\ \A x \in Words : WF_vars(PingsDone(x))

-----------------------------------------------------------------------------
TypeOK ==
    /\ texts \in [Files -> Seq(Words)]
    /\ period \in Nat \cup {-1} /\ dryrun \in BOOLEAN /\ endless \in BOOLEAN
    /\ pc \in {"collect", "next", "slept", "wait"} \cup Ended
    /\ file \in 1 .. Len(Ovpn) + 1
    /\ address \subseteq Words
    /\ last \in address \cup {0}
    /\ cnt \in Nat /\ burst \in 0 .. cnt
    /\ windows \subseteq address
    /\ news \in [Files -> SUBSET address]
    /\ tried \in Seq(address)

(* Every address is reported as new by exactly one of the files that name it,*)
(* so the numbers shown per file add up to the total (Checker.cpp:76-107).   *)
NewsArePartition ==
    /\ address = UNION {news[f] : f \in Files}
    /\ \A f, g \in Files : f # g => news[f] \cap news[g] = {}
    /\ \A f \in Files : news[f] \subseteq Named(texts[f])

(* The loop tries each address once, in order, and at its end none is left   *)
(* out, whatever windows were closed or did not open meanwhile.              *)
EachTriedOnce ==
    /\ cnt = Len(tried)
    /\ \A i, j \in 1 .. Len(tried) : i < j => tried[i] < tried[j]
    /\ pc = "done" /\ tried # <<>> =>
          address = {tried[i] : i \in 1 .. Len(tried)}

(* "-1: process each file one by one" (Help.txt.in:17): with `start /wait'   *)
(* no window opens while another one is open.                                *)
OneByOne == period = -1 => Cardinality(windows) <= 1

(* With a positive period there is a break after every period launches, and  *)
(* none in between.                                                          *)
BreaksInTime ==
    period > 0 => burst <= period /\ (cnt - burst) % period = 0

(* Every run ends, unless it waits for windows that ping for ever.           *)
Termination == <>(pc \in Ended) \/ (period = -1 /\ endless)
=============================================================================
