----------------------------- MODULE ThreadPool -----------------------------
(***************************************************************************)
(* The threads a codec decodes slices with (libavcodec/pthread.c).  A      *)
(* worker's first job of a call is its own number, which no counter hands  *)
(* out; the jobs after those are handed out by current_job, which also     *)
(* tells when the call is over.  All of that is under current_job_lock,    *)
(* so a critical section is one step; the lock itself is held for longer   *)
(* only while the threads are created.  Waiting on a condition variable    *)
(* has no loop around it that checks why it ended: conditions without a    *)
(* signal (spurious wakeups) are left out.                                 *)
(***************************************************************************)
EXTENDS Integers, FiniteSets

CONSTANTS
    Worker,     \* the threads avcodec_thread_init is asked for
    MaxJobs     \* bound: the jobs of a call

ASSUME WorkerAssumption == IsFiniteSet(Worker) /\ Worker # {}
ASSUME JobsAssumption   == MaxJobs \in Nat \ {0}

\* A worker waits for jobs on current_job_cond, the caller for the last one on
\* last_job_cond.
WorkerLabel == {"none", "start", "wait", "woken", "run", "next", "gone"}
CallerLabel == {"create", "park_init", "init_over", "failed",
                "idle", "park", "call_over", "join", "over"}

VARIABLES
    thread_count,           \* avctx->thread_count
    job_count, current_job, done,   \* ThreadContext
    at,                     \* where each worker is
    self_id, our_job,       \* its locals
    caller,                 \* where the thread of the codec's user is
    job                     \* history: what has become of each job of the call

context == <<thread_count, job_count, current_job, done>>
workers == <<at, self_id, our_job>>
vars    == <<context, workers, caller, job>>

Init ==
    /\ thread_count = Cardinality(Worker)
    /\ job_count = 0 /\ current_job = 0 /\ done = FALSE
    /\ at = [w \in Worker |-> "none"]
    /\ self_id = [w \in Worker |-> 0] /\ our_job = [w \in Worker |-> 0]
    /\ caller = "create"
    /\ job = <<>>

Created == {w \in Worker : at[w] # "none"}

\* avcodec_thread_init holds the lock until it waits or gives up.
Unlocked == caller # "create"

-----------------------------------------------------------------------------
(***************************************************************************)
(* The workers                                                             *)
(***************************************************************************)

\* A fault: the last job is looked for one too early.
LastButOne(c) == c = thread_count + job_count - 1

\* All jobs of the call have been counted.
Last(c) == c = thread_count + job_count

\* Nothing to do: the caller is told if that was the last job, and the worker
\* waits.  c is current_job by then.
Park(w, c) ==
    /\ at' = [at EXCEPT ![w] = "wait"]
    /\ caller' = IF ~Last(c) THEN caller
                 ELSE IF caller = "park_init" THEN "init_over"
                 ELSE IF caller = "park" THEN "call_over"
                 ELSE caller

Begin(w, j) ==
    /\ at' = [at EXCEPT ![w] = "run"]
    /\ our_job' = [our_job EXCEPT ![w] = j]
    /\ job' = [job EXCEPT ![j] = IF @ = "todo" THEN "running" ELSE "twice"]

Start(w) ==
    /\ at[w] = "start"
    /\ Unlocked
    /\ self_id' = [self_id EXCEPT ![w] = current_job]
    /\ current_job' = current_job + 1
    /\ Park(w, current_job + 1)
    /\ UNCHANGED <<thread_count, job_count, done, our_job, job>>

\* A fault: the worker looks at what to do before it looks at done.
LeaveLate(w) ==
    /\ at[w] = "woken"
    /\ Unlocked
    /\ done
    /\ self_id[w] < job_count
    /\ at' = [at EXCEPT ![w] = "gone"]
    /\ UNCHANGED <<context, self_id, our_job, caller, job>>

Leave(w) ==
    /\ at[w] = "woken"
    /\ Unlocked
    /\ done
    /\ at' = [at EXCEPT ![w] = "gone"]
    /\ UNCHANGED <<context, self_id, our_job, caller, job>>

\* A worker that is woken for a call that has fewer jobs than threads.
WokenForNothing(w) ==
    /\ at[w] = "woken"
    /\ Unlocked
    /\ ~done
    /\ self_id[w] >= job_count
    /\ Park(w, current_job)
    /\ UNCHANGED <<context, self_id, our_job, job>>

FirstJob(w) ==
    /\ at[w] = "woken"
    /\ Unlocked
    /\ ~done
    /\ self_id[w] < job_count
    /\ Begin(w, self_id[w])
    /\ UNCHANGED <<context, self_id, caller>>

\* func returns, and its result is stored, before the lock is taken.
Finish(w) ==
    /\ at[w] = "run"
    /\ at' = [at EXCEPT ![w] = "next"]
    /\ job' = [job EXCEPT ![our_job[w]] = "done"]
    /\ UNCHANGED <<context, self_id, our_job, caller>>

NextJob(w) ==
    /\ at[w] = "next"
    /\ current_job < job_count
    /\ current_job' = current_job + 1
    /\ Begin(w, current_job)
    /\ UNCHANGED <<thread_count, job_count, done, self_id, caller>>

NoMoreJobs(w) ==
    /\ at[w] = "next"
    /\ current_job >= job_count
    /\ current_job' = current_job + 1
    /\ Park(w, current_job + 1)
    /\ UNCHANGED <<thread_count, job_count, done, self_id, our_job, job>>

WorkerStep(w) ==
    \/ Start(w) \/ Leave(w) \/ WokenForNothing(w) \/ FirstJob(w)
    \/ Finish(w) \/ NextJob(w) \/ NoMoreJobs(w)

-----------------------------------------------------------------------------
(***************************************************************************)
(* The caller: avcodec_thread_init, _execute and _free.                    *)
(***************************************************************************)

\* A fault: one thread is woken, as by pthread_cond_signal.
SignalOne ==
    LET waiting == {w \in Worker : at[w] = "wait"}
    IN at' = [w \in Worker |->
                IF w \in waiting /\ w = (CHOOSE v \in waiting : TRUE) THEN "woken" ELSE at[w]]

\* pthread_cond_broadcast reaches those who wait.
Broadcast == at' = [w \in Worker |-> IF at[w] = "wait" THEN "woken" ELSE at[w]]

Create == \E w \in Worker \ Created :
    /\ caller = "create"
    /\ at' = [at EXCEPT ![w] = "start"]
    /\ UNCHANGED <<context, self_id, our_job, caller, job>>

AllCreated ==
    /\ caller = "create"
    /\ Created = Worker
    /\ caller' = "park_init"
    /\ UNCHANGED <<context, workers, job>>

CreateFails ==
    /\ caller = "create"
    /\ Created # Worker
    /\ thread_count' = Cardinality(Created)
    /\ caller' = "failed"
    /\ UNCHANGED <<job_count, current_job, done, workers, job>>

InitReturns ==
    /\ caller = "init_over"
    /\ caller' = "idle"
    /\ UNCHANGED <<context, workers, job>>

\* A fault: the count starts at zero, as after avcodec_thread_init.
CallFromZero == \E n \in 1 .. MaxJobs :
    /\ caller = "idle"
    /\ current_job' = 0
    /\ job_count' = n
    /\ job' = [j \in 0 .. n - 1 |-> "todo"]
    /\ Broadcast
    /\ caller' = "park"
    /\ UNCHANGED <<thread_count, done, self_id, our_job>>

\* With no jobs the call returns at once.
Call == \E n \in 1 .. MaxJobs :
    /\ caller = "idle"
    /\ current_job' = thread_count
    /\ job_count' = n
    /\ job' = [j \in 0 .. n - 1 |-> "todo"]
    /\ Broadcast
    /\ caller' = "park"
    /\ UNCHANGED <<thread_count, done, self_id, our_job>>

CallReturns ==
    /\ caller = "call_over"
    /\ caller' = "idle"
    /\ UNCHANGED <<context, workers, job>>

\* The end of the codec, or of an avcodec_thread_init that failed.
FreeFrom(label) ==
    /\ caller = label
    /\ done' = TRUE
    /\ Broadcast
    /\ caller' = "join"
    /\ UNCHANGED <<thread_count, job_count, current_job, self_id, our_job, job>>

Joined ==
    /\ caller = "join"
    /\ \A w \in Created : at[w] = "gone"
    /\ caller' = "over"
    /\ UNCHANGED <<context, workers, job>>

\* What the caller does once it is inside of a function; the rest is up to the
\* codec.
CallerStep == Create \/ AllCreated \/ InitReturns \/ CallReturns \/ FreeFrom("failed") \/ Joined

Next ==
    \/ \E w \in Worker : WorkerStep(w)
    \/ CallerStep \/ CreateFails
    \/ Call \/ FreeFrom("idle")

Spec == Init /\ [][Next]_vars

\* Threads run; none is kept from the lock for ever once it is free for good.
FairSpec == Spec /\ WF_vars(CallerStep) /\ \A w \in Worker : WF_vars(WorkerStep(w))

-----------------------------------------------------------------------------
(***************************************************************************)
(* Properties                                                              *)
(***************************************************************************)

\* The types of the variables.
TypeOK ==
    /\ thread_count \in 0 .. Cardinality(Worker)
    /\ job_count \in 0 .. MaxJobs
    /\ current_job \in 0 .. Cardinality(Worker) + MaxJobs
    /\ done \in BOOLEAN
    /\ at \in [Worker -> WorkerLabel]
    /\ self_id \in [Worker -> 0 .. Cardinality(Worker) - 1]
    /\ our_job \in [Worker -> 0 .. MaxJobs - 1]
    /\ caller \in CallerLabel
    /\ job \in [0 .. job_count - 1 -> {"todo", "running", "done"}]

\* Whoever runs a job runs it for the call in progress, nobody else does, and
\* what the call is told to be the last job is the last one: when the caller
\* is woken every job has ended and nobody touches the array of results, a
\* local of the caller (avcodec_thread_execute's dummy_ret).
Alone ==
    /\ \A v, w \in Worker : v # w /\ at[v] = "run" /\ at[w] = "run" => our_job[v] # our_job[w]
    /\ caller # "park" => \A w \in Worker : at[w] \notin {"run", "next"}

\* A call is what it promises: every job once, and none left when it returns.
Loop == INSTANCE ParallelFor WITH calling <- caller \in {"park", "call_over"}
ImplementsParallelFor == Loop!Spec

\* No wakeup is lost: a call returns, with fewer jobs than threads or more, and
\* though workers come late from the call before (the waits without a loop).
CallsReturn == caller \in {"park_init", "park"} ~> caller = "idle"

\* The end of the codec is reached: every thread sees done, whatever it was
\* woken for.  It holds where all threads were created: one that has not taken
\* its number when avcodec_thread_free runs never looks at done.
FreeReturns == caller = "join" /\ Created = Worker ~> caller = "over"
=============================================================================
