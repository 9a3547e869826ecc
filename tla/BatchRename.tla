----------------------------- MODULE BatchRename -----------------------------
(* What a bulk rename promises: every file makes at most one move, from the  *)
(* path it had at first straight to the new name worked out for it, and only *)
(* onto a path that is free at that moment.  Order and completeness are left *)
(* open.                                                                     *)
CONSTANTS Paths, Absent

VARIABLES disk,   \* path -> its content, called by the path it had at first
          goal    \* path -> the path that its first content is meant for

vars == <<disk, goal>>

Init ==
    /\ goal \in [Paths -> Paths]
    /\ \E S \in SUBSET Paths :
          disk = [p \in Paths |-> IF p \in S THEN p ELSE Absent]

Rename(x) ==
    /\ disk[x] = x /\ disk[goal[x]] = Absent
    /\ disk' = [disk EXCEPT ![x] = Absent, ![goal[x]] = x]
    /\ UNCHANGED goal

Next == \E x \in Paths : Rename(x)

Spec == Init /\ [][Next]_vars
=============================================================================
