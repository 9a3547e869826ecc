------------------------------ MODULE Installer ------------------------------
(* Setup.exe and Uninstall.exe (src/Setup.nsi.in, src/lib.nsh): the steps by *)
(* which they put the tools on the machine and take them away again.  A run  *)
(* may be stopped between any two steps, another program may change PATH at  *)
(* any time, and the PATH a run finds in its environment may be older than   *)
(* the one in the registry.                                                  *)
(*                                                                           *)
(* A PATH is the sequence of its entries, an empty one between two adjacent  *)
(* semicolons or behind the last; the empty string is <<>>.                  *)
EXTENDS Integers, Sequences, SequencesExt, FiniteSets

CONSTANTS
    Dirs,         \* the directories the user may install into
    Spelling,     \* directory -> its other spellings ("dir\", short name)
    Empty,        \* the empty entry of a PATH
    FirstPaths,   \* what PATH may be at first
    Others,       \* the entries that other programs may append
    Nowhere,      \* a registry value or shortcut that does not exist
    MaxString,    \* the entries that fit into a string of the installer
    MaxRuns,      \* bound: runs of installer and uninstaller
    MaxForeign    \* bound: changes of PATH by other programs

(* The entries that a PATH may come to have.                                 *)
Entries == Others \cup Dirs \cup {Empty} \cup UNION {Spelling[d] : d \in Dirs}

(* The program is not in PATH before it is installed, but in another spelling*)
(* perhaps.  A single empty entry is no string: ";" has two.                 *)
ASSUME InstallerAssumption ==
    /\ Empty \notin Dirs /\ Nowhere \notin Dirs
    /\ Others \cap (Dirs \cup {Empty}) = {}
    /\ FirstPaths \subseteq Seq(Entries \ Dirs) \ {<<Empty>>}
    /\ MaxString \in Nat /\ MaxRuns \in Nat /\ MaxForeign \in Nat

VARIABLES
    path,       \* PATH in the registry
    shells,     \* the values of PATH that running processes still have
    files,      \* directory -> parts of the program in it
    links,      \* the directory that the start menu points to
    menu,       \* the directory that the right-click menu points to
    key,        \* the directory that UNINST_KEY points to
    pc,         \* the next step of the run, or "idle"
    dir,        \* $INSTDIR
    env,        \* PATH in the environment of the run
    read,       \* $1: PATH as the run read it from the registry
    runs, foreign,
    \* History, read by properties only:
    kept,       \* the entries of others that were ever put into PATH, in order
    stale,      \* some installer had an environment older than the registry
    raced,      \* another program wrote PATH between a run's read and write
    cut         \* a run met a PATH with no room for its entry in a string

vars == <<path, shells, files, links, menu, key, pc, dir, env, read, runs,
          foreign, kept, stale, raced, cut>>

machine == <<files, links, menu, key>>
run     == <<dir, env, runs, stale>>
ghosts  == <<foreign, kept, raced, cut>>

Fits(s) == Len(s) <= MaxString

-----------------------------------------------------------------------------
(* AddToPath and un.RemoveFromPath on strings.                               *)

(* ReadRegStr gives "" for what does not fit.                                *)
AsRead(s) == IF Fits(s) THEN s ELSE <<>>

InEnvironment_Unasked(d, s) == FALSE      \* Mutant: entries are not looked for
InEnvironment(d, s) ==
    Fits(s) /\ \E i \in 1 .. Len(s) : s[i] \in {d} \cup Spelling[d]

(* "$1;$0", or "$0" alone behind an empty PATH; what is too much is dropped. *)
Added_Unset(s, d) == Append(s, Nowhere)     \* Mutant: the wrong register
Added(s, d) == IF Fits(Append(s, d)) THEN Append(s, d) ELSE s

(* A semicolon is appended where there is none, "$0;" is cut out where it is *)
(* first found, and a last semicolon dropped.                                *)
Closed_Not(s) == s        \* Mutant: no semicolon is appended
Closed(s) == IF s # <<>> /\ Last(s) = Empty THEN s ELSE Append(s, Empty)
First(s, d) == CHOOSE i \in 1 .. Len(s) : s[i] = d /\ \A j \in 1 .. i-1 : s[j] # d
Cut(s, d) == Front(RemoveAt(Closed(s), First(s, d)))
Removed_Rest(s, d) == SubSeq(s, 1, First(s, d) - 1)   \* Mutant: the rest is lost
Removed(s, d) == IF Cut(s, d) = <<Empty>> THEN <<>> ELSE Cut(s, d)

-----------------------------------------------------------------------------
(* k is what s has of the entries of other programs, in its order.           *)
AreOthersOf(k, s) ==
    \E at \in [1 .. Len(k) -> 1 .. Len(s)] :
        /\ \A m, n \in 1 .. Len(k) : m < n => at[m] < at[n]
        /\ \A n \in 1 .. Len(k) : s[at[n]] = k[n]
        /\ \A i \in 1 .. Len(s) : s[i] \in Others <=> \E n \in 1 .. Len(k) : at[n] = i

Init ==
    /\ path \in FirstPaths /\ shells = {path}
    /\ files = [d \in Dirs |-> {}]
    /\ links = Nowhere /\ menu = Nowhere /\ key = Nowhere
    /\ pc = "idle" /\ dir \in Dirs /\ env = path /\ read = <<>>
    /\ runs = 0 /\ foreign = 0
    /\ kept \in {k \in BoundedSeq(Others, Len(path)) : AreOthersOf(k, path)}
    /\ stale = FALSE /\ raced = FALSE /\ cut = FALSE

Start(d, first) ==
    /\ pc = "idle" /\ runs < MaxRuns
    /\ runs' = runs + 1 /\ dir' = d /\ pc' = first
    /\ UNCHANGED <<path, shells, machine, read, ghosts>>

(* The installer has the PATH of the process that started it.                *)
StartInstall(d) ==
    /\ Start(d, "files")
    /\ env' \in shells
    /\ stale' = (stale \/ env' # path)

StartUninstall(d) ==
    /\ "uninstaller" \in files[d]
    /\ Start(d, "unkey")
    /\ UNCHANGED <<env, stale>>

Step(from, to) == pc = from /\ pc' = to

-----------------------------------------------------------------------------
(* Section "install".                                                        *)

CopyFiles ==
    /\ Step("files", "uninstaller")
    /\ files' = [files EXCEPT ![dir] = @ \cup {"program"}]
    /\ UNCHANGED <<path, shells, links, menu, key, run, read, ghosts>>

WriteUninstaller ==
    /\ Step("uninstaller", "links")
    /\ files' = [files EXCEPT ![dir] = @ \cup {"uninstaller"}]
    /\ UNCHANGED <<path, shells, links, menu, key, run, read, ghosts>>

CreateShortCuts ==
    /\ Step("links", "path")
    /\ links' = dir
    /\ UNCHANGED <<path, shells, files, menu, key, run, read, ghosts>>

Note == cut' = (cut \/ ~Fits(Append(path, dir)))

(* The environment has the directory already.                                *)
AlreadyInPath ==
    /\ Step("path", "menu")
    /\ InEnvironment(dir, env)
    /\ UNCHANGED <<path, shells, machine, run, read, ghosts>>

AddReadsPath ==
    /\ Step("path", "addpath")
    /\ ~InEnvironment(dir, env)
    /\ read' = AsRead(path)
    /\ Note
    /\ UNCHANGED <<path, shells, machine, run, foreign, kept, raced>>

Store(s) == path' = s /\ shells' = shells \cup {s}

AddWritesPath ==
    /\ Step("addpath", "menu")
    /\ Store(Added(read, dir))
    /\ read' = <<>>
    /\ UNCHANGED <<machine, run, ghosts>>

RegisterMenu ==
    /\ Step("menu", "key")
    /\ menu' = dir
    /\ UNCHANGED <<path, shells, files, links, key, run, read, ghosts>>

WriteUninstallKey ==
    /\ Step("key", "idle")
    /\ key' = dir
    /\ UNCHANGED <<path, shells, files, links, menu, run, read, ghosts>>

-----------------------------------------------------------------------------
(* Section "uninstall".                                                      *)

(* Mutant: the files go first.                                               *)
DeleteUninstallKey_FilesFirst ==
    /\ Step("unkey", "unmenu")
    /\ key' = Nowhere /\ files' = [files EXCEPT ![dir] = {}]
    /\ UNCHANGED <<path, shells, links, menu, run, read, ghosts>>
DeleteUninstallKey ==
    /\ Step("unkey", "unmenu")
    /\ key' = Nowhere
    /\ UNCHANGED <<path, shells, files, links, menu, run, read, ghosts>>

DeleteMenu ==
    /\ Step("unmenu", "unpath")
    /\ menu' = Nowhere
    /\ UNCHANGED <<path, shells, files, links, key, run, read, ghosts>>

NotInPath ==
    /\ Step("unpath", "unlinks")
    /\ ~Contains(AsRead(path), dir)
    /\ Note
    /\ UNCHANGED <<path, shells, machine, run, read, foreign, kept, raced>>

RemoveReadsPath ==
    /\ Step("unpath", "cutpath")
    /\ Contains(AsRead(path), dir)
    /\ read' = path
    /\ UNCHANGED <<path, shells, machine, run, ghosts>>

RemoveWritesPath ==
    /\ Step("cutpath", "unlinks")
    /\ Store(Removed(read, dir))
    /\ read' = <<>>
    /\ UNCHANGED <<machine, run, ghosts>>

RemoveShortCuts ==
    /\ Step("unlinks", "unfiles")
    /\ links' = Nowhere
    /\ UNCHANGED <<path, shells, files, menu, key, run, read, ghosts>>

(* RMDir /r deletes one file after the other, and leaves those in use.       *)
RemoveFile(part) ==
    /\ pc = "unfiles" /\ part \in files[dir]
    /\ files' = [files EXCEPT ![dir] = @ \ {part}]
    /\ UNCHANGED <<path, shells, links, menu, key, pc, run, read, ghosts>>

UninstallEnds ==
    /\ Step("unfiles", "idle")
    /\ UNCHANGED <<path, shells, machine, run, read, ghosts>>

-----------------------------------------------------------------------------
(* The surroundings.                                                         *)

(* The run is stopped.                                                       *)
Kill ==
    /\ pc # "idle"
    /\ pc' = "idle" /\ read' = <<>>
    /\ UNCHANGED <<path, shells, machine, run, ghosts>>

(* Another program appends an entry to PATH.                                 *)
ForeignAppend(x) ==
    /\ foreign < MaxForeign
    /\ path' = Append(path, x) /\ shells' = shells \cup {path'}
    /\ kept' = Append(kept, x)
    /\ raced' = (raced \/ pc \in {"addpath", "cutpath"})
    /\ foreign' = foreign + 1
    /\ UNCHANGED <<machine, pc, run, read, cut>>

Rest == pc = "idle" /\ runs = MaxRuns /\ UNCHANGED vars

Next ==
    \/ \E d \in Dirs : StartInstall(d) \/ StartUninstall(d)
    \/ CopyFiles \/ WriteUninstaller \/ CreateShortCuts
    \/ AlreadyInPath \/ AddReadsPath \/ AddWritesPath
    \/ RegisterMenu \/ WriteUninstallKey
    \/ DeleteUninstallKey \/ DeleteMenu
    \/ NotInPath \/ RemoveReadsPath \/ RemoveWritesPath
    \/ RemoveShortCuts \/ UninstallEnds
    \/ \E part \in {"program", "uninstaller"} : RemoveFile(part)
    \/ Kill
    \/ \E x \in Others : ForeignAppend(x)
    \/ Rest

Spec == Init /\ [][Next]_vars

-----------------------------------------------------------------------------
TypeOK ==
    /\ path \in Seq(Entries)
    /\ path \in shells
    /\ files \in [Dirs -> SUBSET {"program", "uninstaller"}]
    /\ {links, menu, key} \subseteq Dirs \cup {Nowhere}
    /\ dir \in Dirs /\ env \in shells
    /\ pc # "addpath" /\ pc # "cutpath" => read = <<>>
    /\ runs \in 0 .. MaxRuns /\ foreign \in 0 .. MaxForeign

(* Installing and uninstalling, in any directories, as often as one likes,   *)
(* interrupted anywhere, leaves the entries of all other programs in PATH    *)
(* and in their order, unless one of them writes PATH between the reading    *)
(* and the writing of a run (lib.nsh:122-129, 224-244), or PATH is too long. *)
OthersKept ==
    ~raced /\ ~cut => AreOthersOf(kept, path)

(* Wherever a run is interrupted, a directory that the start menu, the right-*)
(* click menu, the list of programs or PATH still names has its uninstaller, *)
(* so that the user can finish the job.  (Of PATH only when no installer had *)
(* an old environment and PATH was never too long.)                          *)
Uninstallable ==
    \A d \in Dirs :
        d \in {links, menu, key} \/ (Contains(path, d) /\ ~stale /\ ~cut)
        => "uninstaller" \in files[d]

(* With environments that are up to date, and a PATH that is not cut,        *)
(* repeated installation enters each directory once.                         *)
PathHasItOnce ==
    ~stale /\ ~cut =>
        \A i, j \in 1 .. Len(path) : path[i] = path[j] /\ path[i] \in Dirs => i = j

(* What AddToPath puts in, un.RemoveFromPath takes out without a trace: the  *)
(* semicolon it needs, and the one it drops, cancel out on every PATH.       *)
RoundTrip ==
    \A d \in Dirs : ~Contains(path, d) /\ Fits(Append(path, d)) =>
        Removed(Added(path, d), d) = path

-----------------------------------------------------------------------------
(* What the scripts' own texts say, and the code does otherwise.             *)

(* "Add to PATH" (Setup.nsi.in:51): it takes nothing away.                   *)
AddTakesNothing == ~raced => AreOthersOf(kept, path)
=============================================================================
