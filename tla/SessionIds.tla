----------------------------- MODULE SessionIds -----------------------------
(***************************************************************************)
(* What starts promise about session ids while nothing is deleted: each    *)
(* session takes the number after the job's highest, at once.  The code    *)
(* reads the highest number in one transaction and takes the next one in   *)
(* another, long after; SessionLedger is shown to implement this.          *)
(***************************************************************************)
EXTENDS Integers

CONSTANT Jobs

VARIABLE ids  \* the numbers of each job's sessions

Init == ids = [job \in Jobs |-> {}]

After(taken) == {m + 1 : m \in taken \cup {0}}

Take(job) ==
  \E n \in After(ids[job]) :
    /\ \A m \in ids[job] : m < n
    /\ ids' = [ids EXCEPT ![job] = @ \cup {n}]

Next == \E job \in Jobs : Take(job)

Spec == Init /\ [][Next]_ids
=============================================================================
