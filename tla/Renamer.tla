------------------------------- MODULE Renamer -------------------------------
(* Renamer.exe (src/Renamer/Renamer.cpp): from the files its arguments match *)
(* it takes the first *.ini as the rule, works out the new name of every     *)
(* other one, shows the whole plan, and after one confirmation runs one      *)
(* `move' command per entry.  Everything can change between two commands,    *)
(* and no entry knows of another one.                                        *)
(*                                                                           *)
(* A path is a directory and a name.  The content a path holds at first is   *)
(* called by that path, so that the disk tells where each content has gone.  *)
(* What the regular expressions of the rule do to a name is a function.      *)
EXTENDS Integers, Sequences, FiniteSets

CONSTANTS
    Dirs, Names,      \* directories, and the names of the files in them
    Ini,              \* the names with the suffix ".ini"
    Absent,           \* no file
    Stranger,         \* a content that another program stored
    NoMatch,          \* the pattern does not match the name
    BadTarget,        \* re2string fails on the name
    Rules,            \* what the config file may say: name -> new name
    FileLists,        \* what the arguments may match, in order
    Silent,           \* the build with SILENT defined
    MayOverwrite,     \* the user may agree to `Overwrite ...?' of move
    MaxForeign        \* bound: how often another program acts

Paths == Dirs \X Names

ASSUME RenamerAssumption ==
    /\ Ini \subseteq Names
    /\ Absent \notin Paths /\ Stranger \notin Paths /\ Absent # Stranger
    /\ NoMatch \notin Names /\ BadTarget \notin Names /\ NoMatch # BadTarget
    /\ Rules \subseteq [Names -> Names \cup {NoMatch, BadTarget}]
    /\ FileLists \subseteq Seq(Paths)
    /\ Silent \in BOOLEAN /\ MayOverwrite \in BOOLEAN
    /\ MaxForeign \in Nat

VARIABLES
    disk,      \* path -> its content or Absent
    files,     \* what Search put together, repetitions included
    config,    \* the number of the config file in files
    rule,      \* the rule that was loaded
    ans,       \* the plan: pairs of path and new name
    pc,        \* where the program stands
    at,        \* the number of the file, or of the entry of ans, in turn
    succeed,   \* the keys of map<string,string> succeed
    foreign,   \* actions of other programs so far
    \* History, read by properties only:
    there,     \* the paths that existed at first
    agreed,    \* contents overwritten with the user's consent
    deleted    \* contents that another program deleted

vars == <<disk, files, config, rule, ans, pc, at, succeed, foreign, there,
          agreed, deleted>>

setting == <<files, config, rule, ans>>
ghosts  == <<foreign, there, agreed, deleted>>

Ended == {"done", "failed", "killed"}

-----------------------------------------------------------------------------
Init ==
    /\ files \in FileLists
    /\ there \in {S \in SUBSET Paths : \A i \in 1 .. Len(files) : files[i] \in S}
    /\ disk = [p \in Paths |-> IF p \in there THEN p ELSE Absent]
    /\ rule \in Rules
    /\ config = 0 /\ ans = <<>> /\ pc = "config" /\ at = 1 /\ succeed = {}
    /\ foreign = 0 /\ agreed = {} /\ deleted = {}

(* The first *.ini among the files.                                          *)
FindConfig ==
    /\ pc = "config"
    /\ config' \in {i \in 1 .. Len(files) :
                      /\ files[i][2] \in Ini
                      /\ \A j \in 1 .. i-1 : files[j][2] \notin Ini}
    /\ pc' = "load"
    /\ UNCHANGED <<disk, files, rule, ans, at, succeed, ghosts>>

NoConfig ==
    /\ pc = "config" /\ \A i \in 1 .. Len(files) : files[i][2] \notin Ini
    /\ pc' = "failed"
    /\ UNCHANGED <<disk, setting, at, succeed, ghosts>>

(* The file cannot be opened, or pattern or target is missing or wrong.      *)
LoadFails ==
    /\ pc = "load"
    /\ pc' = "failed"
    /\ UNCHANGED <<disk, setting, at, succeed, ghosts>>

LoadConfig ==
    /\ pc = "load" /\ disk[files[config]] # Absent
    /\ pc' = "plan"
    /\ UNCHANGED <<disk, setting, at, succeed, ghosts>>

-----------------------------------------------------------------------------
(* The plan.                                                                 *)

Planning == pc = "plan" /\ at <= Len(files)
NewName  == rule[files[at][2]]

PassFile ==
    /\ Planning /\ (at = config \/ NewName = NoMatch)
    /\ at' = at + 1
    /\ UNCHANGED <<disk, setting, pc, succeed, ghosts>>

(* Mutants: the pattern is not asked, or the config file is planned too.     *)
PlanFile_Always ==
    /\ Planning /\ at # config /\ NewName # BadTarget
    /\ ans' = Append(ans, [raw |-> files[at], nw |-> NewName])
    /\ at' = at + 1
    /\ UNCHANGED <<disk, files, config, rule, pc, succeed, ghosts>>
PlanFile_Config ==
    /\ Planning /\ NewName \in Names
    /\ ans' = Append(ans, [raw |-> files[at], nw |-> NewName])
    /\ at' = at + 1
    /\ UNCHANGED <<disk, files, config, rule, pc, succeed, ghosts>>

PlanFile ==
    /\ Planning /\ at # config /\ NewName \in Names
    /\ ans' = Append(ans, [raw |-> files[at], nw |-> NewName])
    /\ at' = at + 1
    /\ UNCHANGED <<disk, files, config, rule, pc, succeed, ghosts>>

(* Mutant: a name without a target is left out of the plan.                  *)
PlanFails_Skips ==
    /\ Planning /\ at # config /\ NewName = BadTarget
    /\ at' = at + 1
    /\ UNCHANGED <<disk, setting, pc, succeed, ghosts>>

(* One name without a target ends the whole run.                             *)
PlanFails ==
    /\ Planning /\ at # config /\ NewName = BadTarget
    /\ pc' = "failed"
    /\ UNCHANGED <<disk, setting, at, succeed, ghosts>>

ShowPlan ==
    /\ pc = "plan" /\ at > Len(files)
    /\ pc' = "confirm"
    /\ UNCHANGED <<disk, setting, at, succeed, ghosts>>

Cancel ==
    /\ pc = "confirm" /\ ~Silent
    /\ pc' = "done"
    /\ UNCHANGED <<disk, setting, at, succeed, ghosts>>

Confirm ==
    /\ pc = "confirm"
    /\ pc' = "move" /\ at' = 1
    /\ UNCHANGED <<disk, setting, succeed, ghosts>>

-----------------------------------------------------------------------------
(* The moves: one command of cmd.exe for each entry of the plan.             *)

Moving == pc = "move" /\ at <= Len(ans)
Raw    == ans[at].raw
Dest_FirstDir == <<files[1][1], ans[at].nw>>    \* Mutant: one directory for all
Dest   == <<Raw[1], ans[at].nw>>
ToNext == at' = at + 1
Count  == succeed' = succeed \cup {Raw}

(* Mutants: a failed command is tried again, or counted.                     *)
MoveFails_Retry == Moving /\ UNCHANGED vars
MoveFails_Counted ==
    /\ Moving
    /\ Count /\ ToNext
    /\ UNCHANGED <<disk, setting, pc, ghosts>>

(* Nothing there to move, no access, or a name with a blank inside: the      *)
(* names stand in the command without quotes.                                *)
MoveFails ==
    /\ Moving
    /\ ToNext
    /\ UNCHANGED <<disk, setting, pc, succeed, ghosts>>

Shift(src, dst) == disk' = [disk EXCEPT ![src] = Absent, ![dst] = disk[src]]

(* Mutants: a file that is in the way is replaced, or nothing is counted.    *)
MoveToFree_Replaces ==
    /\ Moving /\ disk[Raw] # Absent /\ Raw # Dest
    /\ Shift(Raw, Dest)
    /\ Count /\ ToNext
    /\ UNCHANGED <<setting, pc, ghosts>>
MoveToFree_Uncounted ==
    /\ Moving /\ disk[Raw] # Absent /\ disk[Dest] = Absent
    /\ Shift(Raw, Dest)
    /\ ToNext
    /\ UNCHANGED <<setting, pc, succeed, ghosts>>

MoveToFree ==
    /\ Moving /\ disk[Raw] # Absent /\ disk[Dest] = Absent
    /\ Shift(Raw, Dest)
    /\ Count /\ ToNext
    /\ UNCHANGED <<setting, pc, ghosts>>

(* move asks before it replaces a file, and is told to.                      *)
MoveOver ==
    /\ Moving /\ MayOverwrite
    /\ disk[Raw] # Absent /\ disk[Dest] # Absent /\ Raw # Dest
    /\ agreed' = agreed \cup {disk[Dest]}
    /\ Shift(Raw, Dest)
    /\ Count /\ ToNext
    /\ UNCHANGED <<setting, pc, foreign, there, deleted>>

(* It is told not to, or source and target are one file: nothing changes,    *)
(* but the status of the command may be 0 nevertheless.                      *)
MoveNothing ==
    /\ Moving /\ disk[Raw] # Absent /\ disk[Dest] # Absent
    /\ Count /\ ToNext
    /\ UNCHANGED <<disk, setting, pc, ghosts>>

Finish ==
    /\ pc = "move" /\ at > Len(ans)
    /\ pc' = "done"
    /\ UNCHANGED <<disk, setting, at, succeed, ghosts>>

-----------------------------------------------------------------------------
(* The surroundings.                                                         *)

Kill ==
    /\ pc \notin Ended
    /\ pc' = "killed"
    /\ UNCHANGED <<disk, setting, at, succeed, ghosts>>

ForeignCreate(p) ==
    /\ pc \notin Ended /\ foreign < MaxForeign /\ disk[p] = Absent
    /\ disk' = [disk EXCEPT ![p] = Stranger]
    /\ foreign' = foreign + 1
    /\ UNCHANGED <<setting, pc, at, succeed, there, agreed, deleted>>

ForeignDelete(p) ==
    /\ pc \notin Ended /\ foreign < MaxForeign /\ disk[p] # Absent
    /\ disk' = [disk EXCEPT ![p] = Absent]
    /\ deleted' = deleted \cup {disk[p]}
    /\ foreign' = foreign + 1
    /\ UNCHANGED <<setting, pc, at, succeed, there, agreed>>

Terminated == pc \in Ended /\ UNCHANGED vars

Program ==
    \/ FindConfig \/ NoConfig \/ LoadFails \/ LoadConfig
    \/ PassFile \/ PlanFile \/ PlanFails \/ ShowPlan \/ Cancel \/ Confirm
    \/ MoveFails \/ MoveToFree \/ MoveOver \/ MoveNothing \/ Finish

Next ==
    \/ Program \/ Kill
    \/ \E p \in Paths : ForeignCreate(p) \/ ForeignDelete(p)
    \/ Terminated

Spec     == Init /\ [][Next]_vars
FairSpec == Spec /\ WF_vars(Program)

-----------------------------------------------------------------------------
TypeOK ==
    /\ disk \in [Paths -> Paths \cup {Absent, Stranger}]
    /\ files \in Seq(Paths) /\ rule \in [Names -> Names \cup {NoMatch, BadTarget}]
    /\ config \in 0 .. Len(files)
    /\ ans \in Seq([raw : Paths, nw : Names])
    /\ pc \in {"config", "load", "plan", "confirm", "move"} \cup Ended
    /\ at \in Nat \ {0}
    /\ succeed \subseteq Paths
    /\ foreign \in 0 .. MaxForeign
    /\ there \subseteq Paths
    /\ agreed \subseteq Paths \cup {Stranger}
    /\ deleted \subseteq Paths \cup {Stranger}

(* Wherever the run stops, each file's content is at exactly one path, unless*)
(* the user agreed to overwrite it or another program deleted it: the blind  *)
(* sequence of commands (Renamer.cpp:109) neither drops nor doubles a file.  *)
ContentsKept ==
    \A x \in there :
        /\ x \in agreed \cup deleted \/ \E p \in Paths : disk[p] = x
        /\ \A p, q \in Paths : disk[p] = x /\ disk[q] = x => p = q

(* The path that the plan has for the file p.                                *)
Goal(p) == IF rule[p[2]] \in Names THEN <<p[1], rule[p[2]]>> ELSE p

(* Without an overwriting and without other programs, no file ever gets      *)
(* further than to its own new name, although targets of some entries are    *)
(* sources of others, files may be named repeatedly, and each command acts   *)
(* on whatever stands at its source by then.                                 *)
AtOriginOrGoal ==
    agreed = {} /\ foreign = 0 =>
        \A x \in there : disk[x] = x \/ disk[Goal(x)] = x

(* "N file(s) renamed" leaves none out: a file that is no longer at its path *)
(* is counted, or was overwritten or deleted (Renamer.cpp:108-111).          *)
NoneMovedUncounted ==
    \A x \in there : disk[x] # x => x \in succeed \cup agreed \cup deleted

(* The config file is renamed only if it was passed twice (Help.txt.in:8).   *)
ConfigStays ==
    config # 0 /\ (\A i \in 1 .. Len(files) : files[i] = files[config] => i = config)
    => disk[files[config]] = files[config] \/ files[config] \in agreed \cup deleted

(* If there is no target for one of the files, then none is renamed.         *)
AllOrNothing ==
    foreign = 0 /\ (\E i \in 1 .. Len(files) : i # config /\ rule[files[i][2]] = BadTarget)
    => \A x \in there : disk[x] = x

(* A plan whose order lets every file go before another one comes.           *)
Target(i) == <<ans[i].raw[1], ans[i].nw>>
OrderSafe ==
    /\ \A i, j \in 1 .. Len(ans) :
          i # j => ans[i].raw # ans[j].raw /\ Target(i) # Target(j)
    /\ \A i \in 1 .. Len(ans) :
          Target(i) \in there => \E j \in 1 .. i-1 : ans[j].raw = Target(i)

(* Such a plan ends, when every entry of it was counted, in exactly the      *)
(* renaming that was shown, chains a -> b, b -> c included.                  *)
OrderSafePlanIsExact ==
    /\ pc = "done" /\ foreign = 0 /\ OrderSafe
    /\ succeed = {ans[i].raw : i \in 1 .. Len(ans)} /\ succeed # {}
    => \A i \in 1 .. Len(ans) : disk[Target(i)] = ans[i].raw

(* The commands, one after the other, implement a bulk rename in which each  *)
(* file goes straight to its new name, as long as nothing is overwritten and *)
(* no other program acts.                                                    *)
Batch == INSTANCE BatchRename WITH goal <- [p \in Paths |-> Goal(p)]
ImplementsBatch == Batch!Spec

(* Every run comes to its end.                                               *)
Termination == <>(pc \in Ended)
=============================================================================
