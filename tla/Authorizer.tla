----------------------------- MODULE Authorizer -----------------------------
(* Auth.exe (src/Authorizer/Auth.cpp): for every file of its command line it *)
(* reads the text, proposes to insert the credential behind every directive  *)
(* "auth-user-pass" that has none, and writes the edited lines into the file *)
(* the user names.  The user, the file system and other programs act between *)
(* any two steps.                                                            *)
(*                                                                           *)
(* A text is the sequence of its lines, as the code splits it, and a line is *)
(* the sequence of its characters.  The last line is what stands behind the  *)
(* last line end, so that a text has as many lines after it was written and  *)
(* read again; an empty one more or less makes no difference.  Positions     *)
(* count from 1: `at' is pos + 1, Idx is idx + 1.                            *)
EXTENDS Integers, Sequences, SequencesExt, FiniteSets

CONSTANTS
    Paths,           \* the files of the file system that matter
    Absent,          \* the content of a path that does not exist
    Alnum,           \* characters: letters and digits,
    Marks,           \*   marks within words, as '-',
    White,           \*   white space, line ends included,
    Blank,           \*   ' ', one of them,
    Sharp,           \*   and '#', where a comment begins
    Directive,       \* "auth-user-pass"
    Credentials,     \* the credentials that a run may have
    InitialDisks,    \* what the file system may hold at first
    ForeignTexts,    \* the texts another program may store meanwhile
    Queue,           \* the paths of the command line, in order
    Kind,            \* what the path looks like: "ovpn", "other" or "nodot"
    Silent,          \* the build with SILENT defined (it asks no question)
    MaxForeignEdits  \* bound: how often another program stores a file

Char == Alnum \cup Marks \cup White \cup {Sharp}
Line == Seq(Char)
Text == Seq(Line)

(* The string p stands at position k of the line s.                          *)
OccursAt(p, s, k) ==
    /\ k >= 1 /\ k + Len(p) - 1 <= Len(s)
    /\ \A j \in 1 .. Len(p) : s[k + j - 1] = p[j]

(* The strings p and q, q as much as n places behind the begin of p, have a  *)
(* place in common and do not differ there.                                  *)
Overlap(p, q, n) ==
    /\ -Len(q) < n /\ n < Len(p)
    /\ \A j \in 1 .. Len(q) : n + j \in 1 .. Len(p) => p[n + j] = q[j]

ASSUME AuthorizerAssumption ==
    /\ Blank \in White /\ Blank # Sharp /\ {Blank, Sharp} \cap (Alnum \cup Marks) = {}
    /\ Directive \in Seq(Alnum \cup Marks) /\ Len(Directive) >= 2
    /\ \A n \in 1 .. Len(Directive) : ~Overlap(Directive, Directive, n)
    /\ Credentials \subseteq Line
    /\ Absent \notin Text
    /\ Paths # {}
    /\ InitialDisks \subseteq [Paths -> Text \cup {Absent}]
    /\ ForeignTexts \subseteq Text
    /\ Queue \in Seq(Paths)
    /\ Kind \in [Paths -> {"ovpn", "other", "nodot"}]
    /\ Silent \in BOOLEAN
    /\ MaxForeignEdits \in Nat

VARIABLES
    credential, \* as the command line has it
    dryrun,     \* /dry-run was given
    disk,       \* path -> text or Absent
    pc,         \* where the program stands
    file,       \* the number of the file in Queue
    buf,        \* vector<string> line: of each line what comes before the comment
    comment,    \* and the comment of each
    row,        \* the number of the line being searched
    at,         \* the position where the search goes on
    updated,    \* file_updated
    out,        \* output_filename
    wrote,      \* lines handed to fileout.write
    cnt,        \* files counted as appended
    foreign,    \* stores by other programs so far
    \* History, read by properties only:
    orig,       \* buf as it was read
    shown,      \* <<line, position of orig>> of the appendages shown
    yes,        \* those of them that were confirmed
    refused,    \* an appendage of this text was refused
    holds,      \* path -> the text its last completed writer meant it to hold
    settled,    \* paths last written with every appendage confirmed
    cutoff      \* paths whose last write failed half-way

options == <<credential, dryrun>>
world   == <<options, disk, foreign, holds, settled, cutoff>>
editing == <<buf, comment, row, at, updated, orig, shown, yes, refused>>
writing == <<out, wrote, cnt>>
vars    == <<world, editing, writing, pc, file>>

Ended == {"done", "killed", "thrown"}

-----------------------------------------------------------------------------
(* The search on one line.                                                   *)

Occurrences(p, s, k) == {j \in k .. Len(s) + 1 : OccursAt(p, s, j)}

(* The line and its comment.                                                 *)
SharpAt(s)  == Min({k \in 1 .. Len(s) : s[k] = Sharp} \cup {Len(s) + 1})
Code(s)     == SubSeq(s, 1, SharpAt(s) - 1)
Comment(s)  == SubSeq(s, SharpAt(s), Len(s))

(* idx behind the next directive of line s from k on, if there is one: the   *)
(* bound `end' of the loop always lies behind what find() can find.          *)
Hits(s, k)   == Occurrences(Directive, s, k)
Behind(s, k) == Min(Hits(s, k)) + Len(Directive)

(* The directive before k is the beginning of a longer word.                 *)
Longer(s, k) == k <= Len(s) /\ s[k] \in Alnum

(* Mutant: the search for the credential starts one character late.          *)
Provided_Late(s, k) ==
    LET places == Occurrences(credential, s, k + 2)
    IN  places # {} /\ Min(places) <= Len(s) /\ s[Min(places)] # Blank

(* s.find(credential, idx) finds it, and find_first_not_of stays there.      *)
Provided(s, k) ==
    LET places == Occurrences(credential, s, k)
    IN  places # {} /\ Min(places) <= Len(s) /\ s[Min(places)] # Blank

Insertion == <<Blank>> \o credential
Inserted(s, k) == SubSeq(s, 1, k - 1) \o Insertion \o SubSeq(s, k, Len(s))

(* The positions of line r of the original where an appendage was confirmed, *)
(* and the one that stands at position k of the edited line in turn when all *)
(* of them are before it.                                                    *)
Confirmed(r) == {k \in 1 .. Len(orig[r]) + 1 : <<r, k>> \in yes}
Was(k) == k - Cardinality(Confirmed(row)) * Len(Insertion)

-----------------------------------------------------------------------------
Init ==
    /\ credential \in Credentials /\ dryrun \in BOOLEAN
    /\ disk \in InitialDisks
    /\ pc = "next" /\ file = 1
    /\ buf = <<>> /\ comment = <<>> /\ row = 1 /\ at = 1 /\ updated = FALSE
    /\ out = (CHOOSE p \in Paths : TRUE) /\ wrote = 0 /\ cnt = 0
    /\ foreign = 0
    /\ orig = <<>> /\ shown = {} /\ yes = {} /\ refused = FALSE
    /\ holds = disk /\ settled = {} /\ cutoff = {}

(* `continue' of the loop over the files, or its increment.  The variables   *)
(* of the loop's body go out of scope.                                       *)
ToNextFile_KeepsRow ==      \* Mutant: the number of the line is not reset
    /\ pc' = "next" /\ file' = file + 1
    /\ buf' = <<>> /\ comment' = <<>> /\ row' = row /\ at' = 1 /\ updated' = FALSE
    /\ orig' = <<>> /\ shown' = {} /\ yes' = {} /\ refused' = FALSE
ToNextFile ==
    /\ pc' = "next" /\ file' = file + 1
    /\ buf' = <<>> /\ comment' = <<>> /\ row' = 1 /\ at' = 1 /\ updated' = FALSE
    /\ orig' = <<>> /\ shown' = {} /\ yes' = {} /\ refused' = FALSE

(* The path has no dot: find_last_of yields npos and substr throws.          *)
NoDot ==
    /\ pc = "next" /\ file <= Len(Queue) /\ Kind[Queue[file]] = "nodot"
    /\ pc' = "thrown"
    /\ UNCHANGED <<file, world, editing, writing>>

Unsupported ==
    /\ pc = "next" /\ file <= Len(Queue) /\ Kind[Queue[file]] = "other"
    /\ ToNextFile
    /\ UNCHANGED <<world, writing>>

(* The file is not there, or another program denies the access.              *)
CannotOpen ==
    /\ pc = "next" /\ file <= Len(Queue) /\ Kind[Queue[file]] = "ovpn"
    /\ ToNextFile
    /\ UNCHANGED <<world, writing>>

ReadFile ==
    /\ pc = "next" /\ file <= Len(Queue) /\ Kind[Queue[file]] = "ovpn"
    /\ disk[Queue[file]] # Absent
    /\ pc' = "scan"
    /\ LET t == disk[Queue[file]]
       IN  /\ buf'     = [r \in 1 .. Len(t) |-> Code(t[r])]
           /\ comment' = [r \in 1 .. Len(t) |-> Comment(t[r])]
    /\ orig' = buf'
    /\ UNCHANGED <<file, row, at, updated, shown, yes, refused, world, writing>>

-----------------------------------------------------------------------------
(* The loop over the lines, and in each over the directives.                 *)

Scanning   == pc = "scan" /\ row <= Len(buf)
SearchOver == pc = "scan" /\ row > Len(buf)
Found      == Scanning /\ Hits(buf[row], at) # {}
Idx        == Behind(buf[row], at)
Proposes   == Found /\ ~Longer(buf[row], Idx) /\ ~Provided(buf[row], Idx)
Show       == shown' = shown \cup {<<row, Was(Idx)>>}

PassLonger ==
    /\ Found /\ Longer(buf[row], Idx)
    /\ at' = Idx
    /\ UNCHANGED <<pc, file, buf, comment, row, updated, orig, shown, yes, refused,
                   world, writing>>

(* Mutant: as if there were nothing behind the credential.                   *)
StepOver_Line == at' = Len(buf[row]) + 1

(* pos = idx + credential.length() + 1, inserted or not.                     *)
StepOver == at' = Idx + Len(credential) + 1

AlreadyThere ==
    /\ Found /\ ~Longer(buf[row], Idx) /\ Provided(buf[row], Idx)
    /\ StepOver
    /\ UNCHANGED <<pc, file, buf, comment, row, updated, orig, shown, yes, refused,
                   world, writing>>

ShowOnly ==
    /\ Proposes /\ dryrun
    /\ Show
    /\ StepOver
    /\ UNCHANGED <<pc, file, buf, comment, row, updated, orig, yes, refused, world, writing>>

(* Mutant: the dry run asks as well.                                         *)
AskToAppend_DryToo ==
    /\ Proposes
    /\ Show
    /\ pc' = "confirm"
    /\ UNCHANGED <<file, buf, comment, row, at, updated, orig, yes, refused, world, writing>>
AskToAppend ==
    /\ Proposes /\ ~dryrun
    /\ Show
    /\ pc' = "confirm"
    /\ UNCHANGED <<file, buf, comment, row, at, updated, orig, yes, refused, world, writing>>

(* Mutant: the credential is inserted where the search stands.               *)
ConfirmAppend_Before ==
    /\ pc = "confirm"
    /\ buf' = [buf EXCEPT ![row] = Inserted(buf[row], at)]
    /\ yes' = yes \cup {<<row, Was(Idx)>>}
    /\ updated' = TRUE
    /\ StepOver
    /\ pc' = "scan"
    /\ UNCHANGED <<file, comment, row, orig, shown, refused, world, writing>>
ConfirmAppend ==
    /\ pc = "confirm"
    /\ buf' = [buf EXCEPT ![row] = Inserted(buf[row], Idx)]
    /\ yes' = yes \cup {<<row, Was(Idx)>>}
    /\ updated' = TRUE
    /\ StepOver
    /\ pc' = "scan"
    /\ UNCHANGED <<file, comment, row, orig, shown, refused, world, writing>>

(* Mutant: a refusal leaves the search where it was.                         *)
DeclineAppend_Stays ==
    /\ pc = "confirm" /\ ~Silent
    /\ refused' = TRUE
    /\ pc' = "scan"
    /\ UNCHANGED <<file, buf, comment, row, at, updated, orig, shown, yes, world, writing>>
DeclineAppend ==
    /\ pc = "confirm" /\ ~Silent
    /\ StepOver
    /\ refused' = TRUE
    /\ pc' = "scan"
    /\ UNCHANGED <<file, buf, comment, row, updated, orig, shown, yes, world, writing>>

NextLine ==
    /\ Scanning /\ ~Found
    /\ row' = row + 1 /\ at' = 1
    /\ UNCHANGED <<pc, file, buf, comment, updated, orig, shown, yes, refused, world, writing>>

NoUpdates ==
    /\ SearchOver /\ ~updated
    /\ ToNextFile
    /\ UNCHANGED <<world, writing>>

-----------------------------------------------------------------------------
(* The output file.                                                          *)

(* The empty answer, or no question at all, stands for the file itself.      *)
AssignOutput ==
    /\ SearchOver /\ updated
    /\ out' \in IF Silent THEN {Queue[file]} ELSE Paths
    /\ pc' = "open"
    /\ UNCHANGED <<file, wrote, cnt, editing, world>>

(* Mutant: writing starts at the second line.                                *)
OpenOutput_SkipsFirst ==
    /\ pc = "open"
    /\ disk' = [disk EXCEPT ![out] = <<>>]
    /\ wrote' = 1
    /\ cutoff' = cutoff \ {out}
    /\ pc' = "write"
    /\ UNCHANGED <<options, file, out, cnt, foreign, holds, settled, editing>>

(* ofstream's constructor truncates the file, or creates it.                 *)
OpenOutput ==
    /\ pc = "open"
    /\ disk' = [disk EXCEPT ![out] = <<>>]
    /\ wrote' = 0
    /\ cutoff' = cutoff \ {out}
    /\ pc' = "write"
    /\ UNCHANGED <<options, file, out, cnt, foreign, holds, settled, editing>>

OpenFails ==
    /\ pc = "open"
    /\ IF Silent THEN ToNextFile
                 ELSE pc' = "retry" /\ UNCHANGED <<file, editing>>
    /\ UNCHANGED <<world, writing>>

RetryOutput ==
    /\ pc = "retry"
    /\ out' \in Paths
    /\ pc' = "open"
    /\ UNCHANGED <<file, wrote, cnt, editing, world>>

GiveUp ==
    /\ pc = "retry"
    /\ ToNextFile
    /\ UNCHANGED <<world, writing>>

Edited == [r \in 1 .. Len(buf) |-> buf[r] \o comment[r]]

WriteLine ==
    /\ pc = "write" /\ wrote < Len(buf)
    /\ disk' = [disk EXCEPT ![out] = Append(disk[out], Edited[wrote + 1])]
    /\ wrote' = wrote + 1
    /\ UNCHANGED <<options, pc, file, out, cnt, foreign, holds, settled, cutoff, editing>>

(* The first failed write sets badbit; the later ones do nothing, and nobody *)
(* looks at the state of the stream.                                         *)
WriteFails ==
    /\ pc = "write" /\ wrote < Len(buf)
    /\ wrote' = Len(buf)
    /\ cutoff' = cutoff \cup {out}
    /\ UNCHANGED <<options, disk, pc, file, out, cnt, foreign, holds, settled, editing>>

CloseOutput ==
    /\ pc = "write" /\ wrote = Len(buf)
    /\ cnt' = cnt + 1
    /\ holds' = [holds EXCEPT ![out] = Edited]
    /\ settled' = IF ~refused /\ disk[out] = Edited
                  THEN settled \cup {out} ELSE settled \ {out}
    /\ ToNextFile
    /\ UNCHANGED <<options, disk, foreign, out, wrote, cutoff>>

Summary ==
    /\ pc = "next" /\ file > Len(Queue)
    /\ pc' = "done"
    /\ UNCHANGED <<file, world, editing, writing>>

-----------------------------------------------------------------------------
(* The surroundings.                                                         *)

(* The console is closed or the machine stops.                               *)
Kill ==
    /\ pc \notin Ended
    /\ pc' = "killed"
    /\ UNCHANGED <<file, world, editing, writing>>

(* Another program stores a file that this one does not hold open.           *)
ForeignStore(p) ==
    /\ foreign < MaxForeignEdits
    /\ pc \notin Ended /\ ~(pc = "write" /\ p = out)
    /\ \E t \in ForeignTexts :
          /\ disk'  = [disk EXCEPT ![p] = t]
          /\ holds' = [holds EXCEPT ![p] = t]
    /\ foreign' = foreign + 1
    /\ settled' = settled \ {p} /\ cutoff' = cutoff \ {p}
    /\ UNCHANGED <<options, pc, file, editing, writing>>

Terminated == pc \in Ended /\ UNCHANGED vars

Program ==
    \/ NoDot \/ Unsupported \/ CannotOpen \/ ReadFile
    \/ PassLonger \/ AlreadyThere \/ ShowOnly \/ AskToAppend
    \/ ConfirmAppend \/ DeclineAppend \/ NextLine \/ NoUpdates
    \/ AssignOutput \/ OpenOutput \/ OpenFails \/ RetryOutput \/ GiveUp
    \/ WriteLine \/ WriteFails \/ CloseOutput \/ Summary

Next == Program \/ Kill \/ (\E p \in Paths : ForeignStore(p)) \/ Terminated

Spec == Init /\ [][Next]_vars

(* The program runs on, its user answers every prompt, and does not for ever *)
(* name output files that cannot be opened.                                  *)
FairSpec == Spec /\ WF_vars(Program) /\ SF_vars(GiveUp)

-----------------------------------------------------------------------------
TypeOK ==
    /\ credential \in Line /\ dryrun \in BOOLEAN
    /\ disk \in [Paths -> Text \cup {Absent}]
    /\ holds \in [Paths -> Text \cup {Absent}]
    /\ pc \in {"next", "scan", "confirm", "open", "retry", "write"} \cup Ended
    /\ file \in 1 .. Len(Queue) + 1
    /\ buf \in Text /\ comment \in Text /\ orig \in Text
    /\ row \in 1 .. Len(buf) + 1 /\ at \in Nat \ {0}
    /\ updated \in BOOLEAN
    /\ out \in Paths /\ wrote \in Nat /\ cnt \in Nat
    /\ foreign \in 0 .. MaxForeignEdits
    /\ settled \subseteq Paths /\ cutoff \subseteq Paths
    /\ refused \in BOOLEAN

(* A dry run never comes to the prompts nor to a write, whatever the texts   *)
(* hold, so it counts nothing (Auth.cpp:121-132, 140-144).                   *)
DryRunNeverWrites ==
    dryrun => /\ pc \notin {"confirm", "open", "retry", "write"}
              /\ ~updated /\ cnt = 0

(* t is line s with the insertion before its positions ks: each character    *)
(* stands as much further back as insertions come before it.                 *)
IsEdited(t, s, ks) ==
    LET w        == Len(Insertion)
        Shift(S) == Cardinality(S) * w
    IN  /\ Len(t) = Len(s) + Shift(ks)
        /\ \A k \in 1 .. Len(s) : t[k + Shift({j \in ks : j <= k})] = s[k]
        /\ \A k \in ks : OccursAt(Insertion, t, k + Shift({j \in ks : j < k}))

(* However the offsets move while the line grows, the buffer is the text     *)
(* that was read with a blank and the credential at exactly the places that  *)
(* were confirmed; each is directly behind a directive of the text that was  *)
(* read, which no letter or digit continues (Auth.cpp:106-137).  Another     *)
(* mark may: "auth-user-pass-verify" is edited inside.                       *)
EditsAreTheConfirmedOnes ==
    /\ Len(buf) = Len(orig)
    /\ \A r \in 1 .. Len(buf) : IsEdited(buf[r], orig[r], Confirmed(r))
    /\ \A y \in yes : /\ y \in shown
                      /\ OccursAt(Directive, orig[y[1]], y[2] - Len(Directive))
                      /\ ~Longer(orig[y[1]], y[2])

(* When the search of a text is over and every question was answered with    *)
(* yes, each directive of the edited text has a credential behind it on its  *)
(* line: passing over credential.length() + 1 characters where nothing was   *)
(* inserted (Auth.cpp:135) loses none, but one that stands directly behind a *)
(* credential.  This holds for credentials that cannot overlap a directive,  *)
(* as "pass" or "auth-user-pass.txt" would.                                  *)
Apart == credential # <<>> /\ \A n \in -Len(Directive) .. Len(credential) :
                                  ~Overlap(credential, Directive, n)
Unserved(s) ==
    {k \in 1 .. Len(s) + 1 :
        /\ OccursAt(Directive, s, k - Len(Directive)) /\ ~Longer(s, k)
        /\ Occurrences(credential, s, k) = {}
        /\ ~OccursAt(credential, s, k - Len(Directive) - Len(credential))}
AllDirectivesServed ==
    (SearchOver \/ pc \in {"open", "retry", "write"}) /\ ~refused /\ ~dryrun /\ Apart =>
        \A r \in 1 .. Len(buf) : Unserved(buf[r]) = {}

(* A file that was written with every appendage confirmed and that nobody    *)
(* touched since never makes the program ask again, when it is named twice   *)
(* or was the output file of an earlier one: on the longer lines, which are  *)
(* read with their comments as on the first day, the search goes the same    *)
(* way, whatever it passes over (Auth.cpp:62-176).  A '#' would make a       *)
(* comment of the credential, an empty credential or one with a blank first  *)
(* is appended each time.                                                    *)
Ordinary ==
    /\ credential # <<>> /\ credential[1] # Blank
    /\ \A k \in 1 .. Len(credential) : credential[k] # Sharp
NotAskedTwice == pc = "confirm" /\ Ordinary => Queue[file] \notin settled

(* Whenever the program is stopped, every file but the one it was writing is *)
(* what its last writer meant it to be, or that writer was cut off by a      *)
(* failed write (Auth.cpp:156-163).                                          *)
OthersIntact ==
    \A p \in Paths \ cutoff :
        disk[p] # holds[p] => p = out /\ pc \in {"write", "killed"}

(* Every run comes to its end.                                               *)
Termination == <>(pc \in Ended)

-----------------------------------------------------------------------------
(* What the program's own texts say of it, and the code does otherwise.      *)

(* "file(s) appended successfully": at a summary each file holds what its    *)
(* writer meant it to hold (Auth.cpp:177).                                   *)
CountedMeansWritten == pc = "done" => \A p \in Paths : disk[p] = holds[p]
=============================================================================
