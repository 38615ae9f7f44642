---------------------------- MODULE ParallelFor -----------------------------
(***************************************************************************)
(* What the thread pool of a codec promises: a call runs each of its jobs  *)
(* once, in any order and several at a time, and returns when the last of  *)
(* them has ended.                                                         *)
(***************************************************************************)
EXTENDS Naturals

CONSTANT MaxJobs    \* bound: the jobs of a call

VARIABLES
    calling,        \* a call is in progress
    job             \* the jobs of the call, and what has become of each

vars == <<calling, job>>

Init == calling = FALSE /\ job = <<>>

Call == \E n \in 1 .. MaxJobs :
    /\ ~calling
    /\ calling' = TRUE
    /\ job' = [j \in 0 .. n - 1 |-> "todo"]

Move(from, to) == \E j \in DOMAIN job :
    /\ calling
    /\ job[j] = from
    /\ job' = [job EXCEPT ![j] = to]
    /\ UNCHANGED calling

Return ==
    /\ calling
    /\ \A j \in DOMAIN job : job[j] = "done"
    /\ calling' = FALSE
    /\ UNCHANGED job

Next == Call \/ Move("todo", "running") \/ Move("running", "done") \/ Return

Spec == Init /\ [][Next]_vars
=============================================================================
