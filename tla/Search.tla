-------------------------------- MODULE Search --------------------------------
(* Search (src/stdlib/lib.cpp): the files that match an argument are put     *)
(* behind a list, one call of FindFirstFileA or FindNextFileA after the other*)
(* while other programs create and delete files.                             *)
EXTENDS Integers, Sequences, FiniteSets

CONSTANTS
    Cwd,         \* the directory the program runs in
    Paths,       \* pairs of a directory and a name in it
    Folders,     \* those of them that are directories
    TooLong,     \* those that do not fit into MAX_PATH
    NoDir,
    Disks,       \* what there may be when the program starts
    MaxForeign   \* bound: what other programs do

NoPath == <<>>   \* what GetFullPathNameA leaves of a path that does not fit

ASSUME SearchAssumption ==
    /\ \A x \in Paths : x = <<x[1], x[2]>>
    /\ Folders \subseteq Paths /\ Disks \subseteq {S \in SUBSET Paths : Folders \subseteq S}
    /\ TooLong \subseteq Paths /\ MaxForeign \in Nat

VARIABLES
    disk,      \* the files and directories that exist
    files,     \* the list
    handle,    \* the search that is open, or NoHandle
    foreign,   \* what other programs did so far
    ever,      \* history: what existed at some time
    always     \* history: what existed all the time

searchVars == <<disk, files, handle, foreign, ever, always>>

(* A pattern says in which directory to search for which names; dir is what  *)
(* stands before its last backslash, NoDir if this is nothing.  The two      *)
(* directories differ for "\*", where the backslash comes first, and for     *)
(* "a/*", which has none.                                                    *)
Pattern(in, dir, names) == [in |-> in, dir |-> dir, names |-> names]
Matches(p, S) == {x \in S : x[1] = p.in /\ x[2] \in p.names}

NoHandle == [pat |-> Pattern(NoDir, NoDir, {}), seen |-> {}, may |-> {}, must |-> {}]

FullPath(p, x) ==
    LET path == <<IF p.dir = NoDir THEN Cwd ELSE p.dir, x[2]>>
    IN  IF path \in TooLong THEN NoPath ELSE path

List(p, x) == files' = IF x \in Folders THEN files ELSE Append(files, FullPath(p, x))

-----------------------------------------------------------------------------
SearchInit ==
    /\ disk \in Disks
    /\ files = <<>> /\ handle = NoHandle /\ foreign = 0
    /\ ever = disk /\ always = disk

(* Mutant: the first file is only asked for, as by a while loop.             *)
FindFirst_Drops(p) ==
    \E x \in Matches(p, disk) :
        /\ handle' = [pat |-> p, seen |-> {x}, may |-> Matches(p, disk),
                      must |-> Matches(p, disk)]
        /\ UNCHANGED <<files, disk, foreign, ever, always>>
FindFirst(p) ==
    \E x \in Matches(p, disk) :
        /\ handle' = [pat |-> p, seen |-> {x}, may |-> Matches(p, disk),
                      must |-> Matches(p, disk)]
        /\ List(p, x)
        /\ UNCHANGED <<disk, foreign, ever, always>>

NoneFound(p) == Matches(p, disk) = {} /\ UNCHANGED searchVars

(* A file that came or went since the first call may be given or not; no     *)
(* file is given twice.                                                      *)
FindNext ==
    \E x \in handle.may \ handle.seen :
        /\ handle' = [handle EXCEPT !.seen = @ \cup {x}]
        /\ List(handle.pat, x)
        /\ UNCHANGED <<disk, foreign, ever, always>>

NoMoreFiles ==
    /\ handle.must \subseteq handle.seen
    /\ handle' = NoHandle
    /\ UNCHANGED <<disk, files, foreign, ever, always>>

(* Another program creates or deletes a file.  What it does between two      *)
(* searches it could as well do at the end of the first.                     *)
Foreign ==
    /\ handle # NoHandle /\ foreign < MaxForeign
    /\ foreign' = foreign + 1
    /\ \/ \E x \in Paths \ disk :
             /\ disk' = disk \cup {x} /\ ever' = ever \cup {x}
             /\ handle' = [handle EXCEPT !.may = @ \cup Matches(handle.pat, {x})]
             /\ UNCHANGED always
       \/ \E x \in disk \ Folders :
             /\ disk' = disk \ {x} /\ always' = always \ {x}
             /\ handle' = [handle EXCEPT !.must = @ \ {x}]
             /\ UNCHANGED ever
    /\ UNCHANGED files

-----------------------------------------------------------------------------
SearchTypeOK ==
    /\ Folders \subseteq always /\ always \subseteq disk
    /\ disk \subseteq ever /\ ever \subseteq Paths
    /\ \A k \in 1 .. Len(files) : files[k] = NoPath \/ Len(files[k]) = 2
    /\ handle.must \subseteq handle.may /\ handle.seen \subseteq handle.may
    /\ foreign \in 0 .. MaxForeign
=============================================================================
