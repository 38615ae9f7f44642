-------------------------- MODULE ThreadPool_proofs --------------------------
(***************************************************************************)
(* Proofs about ThreadPool, for any number of workers and jobs.            *)
(***************************************************************************)
EXTENDS ThreadPool, FiniteSetTheorems, FunctionTheorems, TLAPS

N == Cardinality(Worker)

\* The workers that have taken their number.
Numbered == {w \in Worker : at[w] \notin {"none", "start"}}

\* The workers the call waits for: those with a job, and those that have been
\* woken and will take their first one.
Busy == {w \in Worker : \/ at[w] \in {"run", "next"}
                        \/ at[w] = "woken" /\ self_id[w] < job_count}

(* Before the first call the workers take their numbers; nobody is told that *)
(* the pool is ready before all have.                                        *)
PhaseInv ==
    /\ job_count = 0 => /\ current_job = Cardinality(Numbered)
                        /\ job = <<>>
                        /\ \A w \in Worker : at[w] \notin {"run", "next"}
    /\ job_count > 0 => caller \in {"idle", "park", "call_over", "join", "over"}
    /\ caller = "park_init" => Created = Worker
    /\ caller \in {"park", "call_over"} => job_count > 0
    /\ caller \in {"init_over", "idle"} \/ job_count > 0 =>
         /\ thread_count = N
         /\ Numbered = Worker
    /\ caller \in {"create", "park_init"} => thread_count = N
    /\ \A w \in Worker : at[w] = "gone" => caller \in {"join", "over"}
    /\ \A w \in Worker : at[w] = "woken" => caller \in {"join", "over"} \/ job_count > 0
    /\ caller \in {"join", "over"} => \A w \in Worker : at[w] \notin {"run", "next"}

(* The workers are told to leave when nothing else is left to do.            *)
DoneInv == done <=> caller \in {"join", "over"}

(* The numbers are 0, 1, ... and no two workers have the same.               *)
IdInv ==
    /\ \A v, w \in Numbered : self_id[v] = self_id[w] => v = w
    /\ job_count = 0 => /\ \A w \in Numbered : self_id[w] < current_job
                        /\ \A i \in 0 .. current_job - 1 : \E w \in Numbered : self_id[w] = i
    /\ job_count > 0 => \A i \in 0 .. N - 1 : \E w \in Worker : self_id[w] = i

(* What current_job counts besides the jobs it hands out: a worker that      *)
(* finds none any more is one less to wait for.                              *)
CountInv ==
    job_count > 0 /\ caller \notin {"join", "over"} =>
        /\ current_job >= N
        /\ Cardinality(Busy) = IF current_job <= job_count THEN N ELSE N + job_count - current_job
        /\ caller # "park" => Busy = {}

(* Every job is still to be handed out, or waits for the worker that has its *)
(* number, or is run by exactly one worker, or has ended.                    *)
JobInv ==
    job_count > 0 /\ caller \notin {"join", "over"} =>
        /\ \A w \in Worker : at[w] = "run" =>
             /\ our_job[w] < job_count /\ our_job[w] < current_job
             /\ our_job[w] = self_id[w] \/ our_job[w] >= N
             /\ job[our_job[w]] = "running"
        /\ \A w \in Worker : at[w] = "woken" /\ self_id[w] < job_count => job[self_id[w]] = "todo"
        /\ \A j \in 0 .. job_count - 1 : j >= current_job => job[j] = "todo"
        /\ \A j \in 0 .. job_count - 1 :
             job[j] = "todo" => \/ j >= current_job
                                \/ \E w \in Worker : at[w] = "woken" /\ self_id[w] = j
        /\ \A j \in 0 .. job_count - 1 :
             job[j] = "running" => \E w \in Worker : at[w] = "run" /\ our_job[w] = j

(* No two workers run the same job.                                          *)
DistinctInv ==
    \A v, w \in Worker : v # w /\ at[v] = "run" /\ at[w] = "run" => our_job[v] # our_job[w]

Inv == TypeOK /\ PhaseInv /\ DoneInv /\ IdInv /\ CountInv /\ JobInv /\ DistinctInv

\* The counts are natural numbers (avcodec_thread_init).
LEMMA Counts ==
    /\ N \in Nat \ {0}
    /\ IsFiniteSet(Numbered) /\ Cardinality(Numbered) \in 0 .. N
    /\ Cardinality(Numbered) = N => Numbered = Worker
    /\ IsFiniteSet(Busy) /\ Cardinality(Busy) \in Nat
    /\ Busy \subseteq Worker
<1>1. Numbered \subseteq Worker /\ Busy \subseteq Worker
    BY DEF Numbered, Busy
<1>2. N \in Nat
    BY WorkerAssumption, FS_CardinalityType DEF N
<1>3. N # 0
    BY WorkerAssumption, FS_EmptySet DEF N
<1>4. /\ IsFiniteSet(Numbered) /\ Cardinality(Numbered) <= N
      /\ Cardinality(Numbered) = N => Numbered = Worker
    BY <1>1, FS_Subset, WorkerAssumption DEF N
<1>5. IsFiniteSet(Busy)
    BY <1>1, FS_Subset, WorkerAssumption
<1> QED
    BY <1>1, <1>2, <1>3, <1>4, <1>5, FS_CardinalityType

\* avcodec_thread_init starts in the invariant.
LEMMA InitInv == Init => Inv
<1> SUFFICES ASSUME Init PROVE Inv
    OBVIOUS
<1> USE DEF Init
<1>1. TypeOK
  <2>1. job \in [0 .. job_count - 1 -> {"todo", "running", "done"}]
    <3>1. 0 .. job_count - 1 = {}
        OBVIOUS
    <3>2. job = [x \in {} |-> "todo"]
        OBVIOUS
    <3> QED
        BY <3>1, <3>2
  <2>2. Cardinality(Worker) \in Nat \ {0} /\ MaxJobs \in Nat \ {0}
    BY Counts, JobsAssumption DEF N
  <2>3. /\ thread_count = Cardinality(Worker)
        /\ job_count = 0 /\ current_job = 0 /\ done = FALSE /\ caller = "create"
    OBVIOUS
  <2>5. /\ thread_count \in 0 .. Cardinality(Worker)
        /\ job_count \in 0 .. MaxJobs /\ current_job \in 0 .. Cardinality(Worker) + MaxJobs
    BY <2>2, <2>3
  <2>6. done \in BOOLEAN /\ caller \in CallerLabel
    BY <2>3 DEF CallerLabel
  <2>4. /\ at \in [Worker -> WorkerLabel]
        /\ self_id \in [Worker -> 0 .. Cardinality(Worker) - 1]
        /\ our_job \in [Worker -> 0 .. MaxJobs - 1]
    BY <2>2 DEF WorkerLabel
  <2> QED
    BY <2>1, <2>4, <2>5, <2>6 DEF TypeOK
<1>2. Numbered = {} /\ Cardinality(Numbered) = 0
    BY FS_EmptySet DEF Numbered
<1>3. PhaseInv
    BY <1>2 DEF PhaseInv, N
<1>4. IdInv /\ CountInv /\ JobInv /\ DistinctInv
    BY <1>2 DEF IdInv, CountInv, JobInv, DistinctInv
<1>5. DoneInv
    BY DEF DoneInv
<1> QED
    BY <1>1, <1>3, <1>4, <1>5 DEF Inv

\* What the invariant says of the types, without the Boolean.
LEMMA Types ==
    ASSUME Inv
    PROVE  /\ thread_count \in Nat /\ job_count \in Nat /\ job_count <= MaxJobs
           /\ current_job \in Nat /\ MaxJobs \in Nat /\ N \in Nat
           /\ at \in [Worker -> WorkerLabel]
           /\ self_id \in [Worker -> 0 .. N - 1]
           /\ our_job \in [Worker -> 0 .. MaxJobs - 1]
           /\ job \in [0 .. job_count - 1 -> {"todo", "running", "done"}]
<1> USE Counts, JobsAssumption DEF Inv, TypeOK, N
<1> QED
    OBVIOUS

\* A worker takes its number (pthread.c 54).
LEMMA StartInv == ASSUME Inv, NEW w \in Worker, Start(w) PROVE Inv'
<1> USE Types
<1> USE DEF Inv
<1>a. /\ at[w] = "start" /\ caller # "create"
      /\ at' = [at EXCEPT ![w] = "wait"]
      /\ self_id' = [self_id EXCEPT ![w] = current_job]
      /\ current_job' = current_job + 1
      /\ UNCHANGED <<thread_count, job_count, our_job, job>>
    BY DEF Start, Park, Unlocked
<1>b. w \notin Numbered /\ job_count = 0 /\ current_job = Cardinality(Numbered)
    BY <1>a DEF Numbered, PhaseInv
<1>c. Numbered' = Numbered \cup {w}
    BY <1>a DEF Numbered
<1>d. Cardinality(Numbered') = Cardinality(Numbered) + 1
    BY <1>b, <1>c, Counts, FS_AddElement
<1>e. current_job < N
    BY <1>b, <1>d, <1>c, Counts
<1>f. \/ caller' = caller
      \/ caller = "park_init" /\ caller' = "init_over" /\ current_job + 1 = thread_count
  <2>1. caller # "park" /\ job_count = 0 /\ thread_count \in Nat /\ current_job \in Nat
    BY <1>b DEF PhaseInv
  <2>2. caller' = IF ~(current_job + 1 = thread_count + job_count) THEN caller
                  ELSE IF caller = "park_init" THEN "init_over"
                  ELSE IF caller = "park" THEN "call_over" ELSE caller
    BY DEF Start, Park, Last
  <2> QED
    BY <2>1, <2>2
<1>g. caller \in CallerLabel /\ caller' \in CallerLabel
    BY <1>f DEF TypeOK, CallerLabel
<1>1. TypeOK'
  <2>1. /\ thread_count' \in 0 .. N /\ job_count' \in 0 .. MaxJobs /\ current_job' \in 0 .. N + MaxJobs
    BY <1>a, <1>e DEF TypeOK, N
  <2>2. /\ at' \in [Worker -> WorkerLabel] /\ self_id' \in [Worker -> 0 .. N - 1]
        /\ our_job' \in [Worker -> 0 .. MaxJobs - 1]
        /\ job' \in [0 .. job_count' - 1 -> {"todo", "running", "done"}]
    BY <1>a, <1>e DEF WorkerLabel
  <2>3. done' \in BOOLEAN
    BY DEF TypeOK, Start
  <2> QED
    BY <1>g, <2>1, <2>2, <2>3 DEF TypeOK, N
<1>2. PhaseInv'
  <2>1. caller = "park_init" => Created' = Worker
    BY <1>a DEF PhaseInv, Created
  <2>2. caller' = "init_over" => thread_count' = N /\ Numbered' = Worker
    <3>1. CASE caller' = caller
        BY <1>b, <3>1 DEF PhaseInv
    <3>2. CASE caller = "park_init" /\ current_job + 1 = thread_count
      <4>1. thread_count = N /\ Cardinality(Numbered') = N
        BY <1>b, <1>d, <3>2 DEF PhaseInv
      <4>2. Numbered' \subseteq Worker
        BY DEF Numbered
      <4>3. Numbered' = Worker
        BY <4>1, <4>2, FS_Subset, WorkerAssumption DEF N
      <4> QED
        BY <1>a, <4>1, <4>3
    <3> QED
        BY <1>f, <3>1, <3>2
  <2> QED
    BY <1>a, <1>b, <1>c, <1>d, <1>f, <2>1, <2>2 DEF PhaseInv, CallerLabel
<1>3. DoneInv'
    BY <1>f DEF DoneInv, Start
<1>4. IdInv'
  <2>1. \A v \in Numbered : self_id[v] < current_job /\ self_id'[v] = self_id[v]
    BY <1>a, <1>b DEF IdInv, Numbered
  <2>2. self_id'[w] = current_job
    BY <1>a
  <2>3. \A u, v \in Numbered' : self_id'[u] = self_id'[v] => u = v
    <3>1. \A u, v \in Numbered : self_id[u] = self_id[v] => u = v
        BY DEF IdInv
    <3>2. \A v \in Numbered : self_id[v] # current_job
        BY <2>1, <1>a DEF Numbered
    <3>3. \A v \in Numbered' : v = w \/ v \in Numbered
        BY <1>c
    <3> QED
        BY <2>1, <2>2, <3>1, <3>2, <3>3
  <2>4. \A i \in 0 .. current_job' - 1 : \E v \in Numbered' : self_id'[v] = i
    <3> SUFFICES ASSUME NEW i \in 0 .. current_job' - 1 PROVE \E v \in Numbered' : self_id'[v] = i
        OBVIOUS
    <3>1. CASE i = current_job
        BY <1>c, <2>2, <3>1
    <3>2. CASE i \in 0 .. current_job - 1
        BY <1>b, <1>c, <2>1, <3>2 DEF IdInv
    <3> QED
        BY <1>a, <3>1, <3>2
  <2>5. \A v \in Numbered' : self_id'[v] < current_job'
    BY <1>a, <1>c, <2>1, <2>2, <1>b DEF Numbered
  <2> QED
    BY <1>a, <1>b, <2>3, <2>4, <2>5 DEF IdInv
<1>5. CountInv' /\ JobInv'
    BY <1>a, <1>b DEF CountInv, JobInv
<1>6. DistinctInv'
    BY <1>a DEF DistinctInv
<1> QED
    BY <1>1, <1>2, <1>3, <1>4, <1>5, <1>6

\* The end of a worker (pthread.c 63-66).
LEMMA LeaveInv == ASSUME Inv, NEW w \in Worker, Leave(w) PROVE Inv'
<1> USE Types
<1> USE DEF Inv
<1>a. /\ at[w] = "woken" /\ at' = [at EXCEPT ![w] = "gone"]
      /\ UNCHANGED <<thread_count, job_count, current_job, self_id, our_job, caller, job>>
    BY DEF Leave, context
<1>b. caller \in {"join", "over"}
    BY DEF Leave, DoneInv
<1>c. Numbered' = Numbered
    BY <1>a DEF Numbered
<1>1. TypeOK'
  <2>1. at' \in [Worker -> WorkerLabel]
    BY <1>a DEF WorkerLabel
  <2>2. done' \in BOOLEAN
    BY DEF TypeOK, Leave, context
  <2> QED
    BY <1>a, <2>1, <2>2 DEF TypeOK
<1>2. PhaseInv'
    BY <1>a, <1>b, <1>c DEF PhaseInv
<1>3. DoneInv'
    BY DEF DoneInv, Leave, context
<1>4. IdInv'
    BY <1>a, <1>c DEF IdInv
<1>5. CountInv' /\ JobInv'
    BY <1>a, <1>b DEF CountInv, JobInv
<1>6. DistinctInv'
    BY <1>a DEF DistinctInv
<1> QED
    BY <1>1, <1>2, <1>3, <1>4, <1>5, <1>6

\* A worker that was woken for nothing (pthread.c 56-61).
LEMMA WokenForNothingInv == ASSUME Inv, NEW w \in Worker, WokenForNothing(w) PROVE Inv'
<1> USE Types
<1> USE DEF Inv
<1>a. /\ at[w] = "woken" /\ at' = [at EXCEPT ![w] = "wait"] /\ self_id[w] >= job_count
      /\ UNCHANGED <<thread_count, job_count, current_job, self_id, our_job, job>>
    BY DEF WokenForNothing, Park, context
<1>b. caller \notin {"join", "over"}
    BY DEF WokenForNothing, DoneInv
<1>c. /\ job_count > 0 /\ thread_count = N /\ Numbered = Worker
      /\ caller \in {"idle", "park", "call_over"}
    BY <1>a, <1>b DEF PhaseInv
<1>d. \/ caller' = caller
      \/ caller = "park" /\ caller' = "call_over" /\ current_job = N + job_count
  <2>1. caller' = IF ~(current_job = thread_count + job_count) THEN caller
                  ELSE IF caller = "park_init" THEN "init_over"
                  ELSE IF caller = "park" THEN "call_over" ELSE caller
    BY DEF WokenForNothing, Park, Last
  <2> QED
    BY <1>c, <2>1
<1>e. Numbered' = Numbered /\ Busy' = Busy
    BY <1>a DEF Numbered, Busy
<1>1. TypeOK'
  <2>1. at' \in [Worker -> WorkerLabel] /\ caller' \in CallerLabel
    BY <1>a, <1>c, <1>d DEF WorkerLabel, CallerLabel
  <2>2. done' \in BOOLEAN
    BY DEF TypeOK, WokenForNothing, context
  <2> QED
    BY <1>a, <2>1, <2>2 DEF TypeOK
<1>2. PhaseInv'
    BY <1>a, <1>c, <1>d, <1>e DEF PhaseInv
<1>3. DoneInv'
  <2>1. caller' \notin {"join", "over"}
    BY <1>c, <1>d
  <2> QED
    BY <1>b, <2>1 DEF DoneInv, WokenForNothing, context
<1>4. IdInv'
    BY <1>a, <1>c, <1>e DEF IdInv
<1>5. CountInv'
  <2>1. CASE caller' = caller
    BY <1>a, <1>e, <2>1 DEF CountInv
  <2>2. CASE caller = "park" /\ caller' = "call_over" /\ current_job = N + job_count
    <3>1. Cardinality(Busy) = 0
        BY <1>c, <2>2, Counts DEF CountInv
    <3>2. Busy = {}
        BY <3>1, Counts, FS_EmptySet
    <3> QED
        BY <1>a, <1>b, <1>e, <2>2, <3>2 DEF CountInv
  <2> QED
    BY <1>d, <2>1, <2>2
<1>6. JobInv'
  <2> USE <1>a, <1>b, <1>c
  <2>1. \A v \in Worker : at'[v] = "run" <=> at[v] = "run"
    OBVIOUS
  <2>2. \A v \in Worker : at'[v] = "woken" => at[v] = "woken"
    OBVIOUS
  <2>3. \A v \in Worker : at[v] = "woken" /\ self_id[v] < job_count => at'[v] = "woken"
    OBVIOUS
  <2> QED
    BY <2>1, <2>2, <2>3 DEF JobInv
<1>7. DistinctInv'
    BY <1>a DEF DistinctInv
<1> QED
    BY <1>1, <1>2, <1>3, <1>4, <1>5, <1>6, <1>7

\* A worker takes its first job of a call (pthread.c 61-70).
LEMMA FirstJobInv ==
    ASSUME Inv, NEW w \in Worker, FirstJob(w)
    PROVE  Inv' /\ job[self_id[w]] = "todo" /\ caller = "park"
<1> USE Types
<1> USE DEF Inv
<1>a. /\ at[w] = "woken" /\ at' = [at EXCEPT ![w] = "run"] /\ self_id[w] < job_count
      /\ our_job' = [our_job EXCEPT ![w] = self_id[w]]
      /\ job' = [job EXCEPT ![self_id[w]] = IF job[self_id[w]] = "todo" THEN "running" ELSE "twice"]
      /\ UNCHANGED <<thread_count, job_count, current_job, self_id, caller>>
    BY DEF FirstJob, Begin, context
<1>b. caller \notin {"join", "over"}
    BY DEF FirstJob, DoneInv
<1>c. job_count > 0 /\ w \in Busy /\ caller = "park" /\ current_job >= N
    BY <1>a, <1>b DEF PhaseInv, CountInv, Busy
<1>d. Numbered' = Numbered /\ Busy' = Busy
    BY <1>a DEF Numbered, Busy
<1>e. /\ self_id[w] \in 0 .. job_count - 1 /\ self_id[w] < N
      /\ job[self_id[w]] = "todo" /\ job' = [job EXCEPT ![self_id[w]] = "running"]
  <2>1. self_id[w] \in 0 .. job_count - 1 /\ self_id[w] < N
    BY <1>a
  <2>2. job[self_id[w]] = "todo"
    BY <1>a, <1>b, <1>c DEF JobInv
  <2> QED
    BY <1>a, <2>1, <2>2
<1>1. TypeOK'
  <2>1. /\ at' \in [Worker -> WorkerLabel] /\ our_job' \in [Worker -> 0 .. MaxJobs - 1]
        /\ job' \in [0 .. job_count' - 1 -> {"todo", "running", "done"}]
    BY <1>a, <1>e DEF WorkerLabel
  <2>2. done' \in BOOLEAN
    BY DEF TypeOK, FirstJob, context
  <2> QED
    BY <1>a, <2>1, <2>2 DEF TypeOK
<1>2. PhaseInv'
    BY <1>a, <1>b, <1>c, <1>d DEF PhaseInv
<1>3. DoneInv'
    BY DEF DoneInv, FirstJob, context
<1>4. IdInv'
    BY <1>a, <1>c, <1>d DEF IdInv
<1>5. CountInv'
    BY <1>a, <1>d DEF CountInv
<1>6. JobInv'
  <2> USE <1>a, <1>b, <1>c, <1>e
  <2>1. \A v \in Worker : at[v] = "run" => our_job[v] # self_id[w] /\ our_job[v] \in 0 .. job_count - 1
    BY DEF JobInv
  <2>2. \A v \in Worker : at'[v] = "run" =>
             /\ our_job'[v] < job_count' /\ our_job'[v] < current_job'
             /\ our_job'[v] = self_id'[v] \/ our_job'[v] >= N
             /\ job'[our_job'[v]] = "running"
    <3> SUFFICES ASSUME NEW v \in Worker, at'[v] = "run"
                 PROVE  /\ our_job'[v] < job_count' /\ our_job'[v] < current_job'
                        /\ our_job'[v] = self_id'[v] \/ our_job'[v] >= N
                        /\ job'[our_job'[v]] = "running"
        OBVIOUS
    <3>1. CASE v = w
        BY <3>1
    <3>2. CASE v # w
        BY <2>1, <3>2 DEF JobInv
    <3> QED
        BY <3>1, <3>2
  <2>3. \A v \in Worker : at'[v] = "woken" /\ self_id'[v] < job_count' => job'[self_id'[v]] = "todo"
    <3>1. \A v \in Worker : v # w => self_id[v] # self_id[w]
        BY DEF IdInv, PhaseInv
    <3> QED
        BY <3>1 DEF JobInv
  <2>4. \A j \in 0 .. job_count' - 1 : j >= current_job' => job'[j] = "todo"
    BY DEF JobInv
  <2>5. \A j \in 0 .. job_count' - 1 :
             job'[j] = "todo" => \/ j >= current_job'
                                 \/ \E v \in Worker : at'[v] = "woken" /\ self_id'[v] = j
    BY DEF JobInv
  <2>6. \A j \in 0 .. job_count' - 1 :
             job'[j] = "running" => \E v \in Worker : at'[v] = "run" /\ our_job'[v] = j
    BY DEF JobInv
  <2> QED
    BY <2>2, <2>3, <2>4, <2>5, <2>6 DEF JobInv
<1>7. DistinctInv'
  <2>1. \A v \in Worker : at[v] = "run" => our_job[v] # self_id[w]
    BY <1>b, <1>c, <1>e DEF JobInv
  <2> QED
    BY <1>a, <2>1 DEF DistinctInv
<1> QED
    BY <1>c, <1>e, <1>1, <1>2, <1>3, <1>4, <1>5, <1>6, <1>7

\* A job ends (pthread.c 70-72).
LEMMA FinishInv ==
    ASSUME Inv, NEW w \in Worker, Finish(w)
    PROVE  Inv' /\ our_job[w] \in DOMAIN job /\ job[our_job[w]] = "running" /\ caller = "park"
<1> USE Types
<1> USE DEF Inv
<1>a. /\ at[w] = "run" /\ at' = [at EXCEPT ![w] = "next"]
      /\ job' = [job EXCEPT ![our_job[w]] = "done"]
      /\ UNCHANGED <<thread_count, job_count, current_job, self_id, our_job, caller>>
    BY DEF Finish, context
<1>b. caller \notin {"join", "over"} /\ job_count > 0
    BY <1>a DEF PhaseInv
<1>c. w \in Busy /\ caller = "park" /\ current_job >= N
    BY <1>a, <1>b DEF CountInv, Busy
<1>d. Numbered' = Numbered /\ Busy' = Busy
    BY <1>a DEF Numbered, Busy
<1>e. our_job[w] \in 0 .. job_count - 1 /\ job[our_job[w]] = "running"
    BY <1>a, <1>b DEF JobInv
<1>1. TypeOK'
  <2>1. /\ at' \in [Worker -> WorkerLabel]
        /\ job' \in [0 .. job_count' - 1 -> {"todo", "running", "done"}]
    BY <1>a, <1>e DEF WorkerLabel
  <2>2. done' \in BOOLEAN
    BY DEF TypeOK, Finish, context
  <2> QED
    BY <1>a, <2>1, <2>2 DEF TypeOK
<1>2. PhaseInv'
    BY <1>a, <1>b, <1>c, <1>d DEF PhaseInv
<1>3. DoneInv'
    BY DEF DoneInv, Finish, context
<1>4. IdInv'
    BY <1>a, <1>c, <1>d DEF IdInv
<1>5. CountInv'
    BY <1>a, <1>d DEF CountInv
<1>6. JobInv'
  <2> USE <1>a, <1>b, <1>c, <1>e
  <2>1. \A v \in Worker : at'[v] = "run" => /\ v # w /\ at[v] = "run"
                                            /\ our_job[v] # our_job[w]
                                            /\ our_job[v] \in 0 .. job_count - 1
    BY DEF DistinctInv, JobInv
  <2>2. \A v \in Worker : at'[v] = "run" =>
             /\ our_job'[v] < job_count' /\ our_job'[v] < current_job'
             /\ our_job'[v] = self_id'[v] \/ our_job'[v] >= N
             /\ job'[our_job'[v]] = "running"
    BY <2>1 DEF JobInv
  <2>3. \A v \in Worker : at'[v] = "woken" /\ self_id'[v] < job_count' => job'[self_id'[v]] = "todo"
    <3> SUFFICES ASSUME NEW v \in Worker, at'[v] = "woken", self_id'[v] < job_count'
                 PROVE  job'[self_id'[v]] = "todo"
        OBVIOUS
    <3>1. self_id[v] \in 0 .. job_count - 1 /\ job[self_id[v]] = "todo"
        BY DEF JobInv
    <3> QED
        BY <3>1
  <2>4. \A j \in 0 .. job_count' - 1 : j >= current_job' => job'[j] = "todo"
    BY DEF JobInv
  <2>5. \A j \in 0 .. job_count' - 1 :
             job'[j] = "todo" => \/ j >= current_job'
                                 \/ \E v \in Worker : at'[v] = "woken" /\ self_id'[v] = j
    BY DEF JobInv
  <2>6. \A j \in 0 .. job_count' - 1 :
             job'[j] = "running" => \E v \in Worker : at'[v] = "run" /\ our_job'[v] = j
    <3> SUFFICES ASSUME NEW j \in 0 .. job_count - 1, job'[j] = "running"
                 PROVE  \E v \in Worker : at'[v] = "run" /\ our_job'[v] = j
        OBVIOUS
    <3>1. j # our_job[w] /\ job[j] = "running"
        OBVIOUS
    <3>2. PICK v \in Worker : at[v] = "run" /\ our_job[v] = j
        BY <3>1 DEF JobInv
    <3> QED
        BY <3>1, <3>2
  <2> QED
    BY <2>2, <2>3, <2>4, <2>5, <2>6 DEF JobInv
<1>7. DistinctInv'
    BY <1>a DEF DistinctInv
<1> QED
    BY <1>b, <1>c, <1>e, <1>1, <1>2, <1>3, <1>4, <1>5, <1>6, <1>7

\* A worker takes the next job that is left (pthread.c 72-74).
LEMMA NextJobInv ==
    ASSUME Inv, NEW w \in Worker, NextJob(w)
    PROVE  Inv' /\ current_job \in DOMAIN job /\ job[current_job] = "todo" /\ caller = "park"
<1> USE Types
<1> USE DEF Inv
<1>a. /\ at[w] = "next" /\ at' = [at EXCEPT ![w] = "run"] /\ current_job < job_count
      /\ current_job' = current_job + 1
      /\ our_job' = [our_job EXCEPT ![w] = current_job]
      /\ job' = [job EXCEPT ![current_job] = IF job[current_job] = "todo" THEN "running" ELSE "twice"]
      /\ UNCHANGED <<thread_count, job_count, self_id, caller>>
    BY DEF NextJob, Begin
<1>b. caller \notin {"join", "over"} /\ job_count > 0
    BY <1>a DEF PhaseInv
<1>c. w \in Busy /\ caller = "park" /\ current_job >= N
    BY <1>a, <1>b DEF CountInv, Busy
<1>d. Numbered' = Numbered /\ Busy' = Busy
    BY <1>a DEF Numbered, Busy
<1>e. /\ current_job \in 0 .. job_count - 1
      /\ job[current_job] = "todo" /\ job' = [job EXCEPT ![current_job] = "running"]
  <2>1. current_job \in 0 .. job_count - 1
    BY <1>a
  <2>2. job[current_job] = "todo"
    BY <1>b, <2>1 DEF JobInv
  <2> QED
    BY <1>a, <2>1, <2>2
<1>1. TypeOK'
  <2>1. /\ at' \in [Worker -> WorkerLabel] /\ our_job' \in [Worker -> 0 .. MaxJobs - 1]
        /\ job' \in [0 .. job_count' - 1 -> {"todo", "running", "done"}]
        /\ current_job' \in 0 .. N + MaxJobs
    BY <1>a, <1>e, Counts DEF WorkerLabel
  <2>2. done' \in BOOLEAN
    BY DEF TypeOK, NextJob
  <2> QED
    BY <1>a, <2>1, <2>2 DEF TypeOK, N
<1>2. PhaseInv'
    BY <1>a, <1>b, <1>c, <1>d DEF PhaseInv
<1>3. DoneInv'
    BY DEF DoneInv, NextJob
<1>4. IdInv'
    BY <1>a, <1>b, <1>d DEF IdInv
<1>5. CountInv'
    BY <1>a, <1>b, <1>c, <1>d DEF CountInv
<1>6. JobInv'
  <2> USE <1>a, <1>b, <1>c, <1>e
  <2>1. \A v \in Worker : at[v] = "run" => our_job[v] # current_job /\ our_job[v] \in 0 .. job_count - 1
    BY DEF JobInv
  <2>2. \A v \in Worker : at'[v] = "run" =>
             /\ our_job'[v] < job_count' /\ our_job'[v] < current_job'
             /\ our_job'[v] = self_id'[v] \/ our_job'[v] >= N
             /\ job'[our_job'[v]] = "running"
    <3> SUFFICES ASSUME NEW v \in Worker, at'[v] = "run"
                 PROVE  /\ our_job'[v] < job_count' /\ our_job'[v] < current_job'
                        /\ our_job'[v] = self_id'[v] \/ our_job'[v] >= N
                        /\ job'[our_job'[v]] = "running"
        OBVIOUS
    <3>1. CASE v = w
        BY <3>1
    <3>2. CASE v # w
      <4>1. at[v] = "run" /\ our_job'[v] = our_job[v]
        BY <3>2
      <4> QED
        BY <2>1, <4>1 DEF JobInv
    <3> QED
        BY <3>1, <3>2
  <2>3. \A v \in Worker : at'[v] = "woken" /\ self_id'[v] < job_count' => job'[self_id'[v]] = "todo"
    <3>1. \A v \in Worker : self_id[v] # current_job
        BY Counts
    <3> QED
        BY <3>1 DEF JobInv
  <2>4. \A j \in 0 .. job_count' - 1 : j >= current_job' => job'[j] = "todo"
    BY DEF JobInv
  <2>5. \A j \in 0 .. job_count' - 1 :
             job'[j] = "todo" => \/ j >= current_job'
                                 \/ \E v \in Worker : at'[v] = "woken" /\ self_id'[v] = j
    <3> SUFFICES ASSUME NEW j \in 0 .. job_count - 1, job'[j] = "todo", ~(j >= current_job + 1)
                 PROVE  \E v \in Worker : at'[v] = "woken" /\ self_id'[v] = j
        OBVIOUS
    <3>1. j # current_job /\ job[j] = "todo"
        OBVIOUS
    <3>2. PICK v \in Worker : at[v] = "woken" /\ self_id[v] = j
        BY <3>1 DEF JobInv
    <3> QED
        BY <3>2
  <2>6. \A j \in 0 .. job_count' - 1 :
             job'[j] = "running" => \E v \in Worker : at'[v] = "run" /\ our_job'[v] = j
    <3> SUFFICES ASSUME NEW j \in 0 .. job_count - 1, job'[j] = "running"
                 PROVE  \E v \in Worker : at'[v] = "run" /\ our_job'[v] = j
        OBVIOUS
    <3>1. CASE j = current_job
        BY <3>1
    <3>2. CASE j # current_job
      <4>1. PICK v \in Worker : at[v] = "run" /\ our_job[v] = j
        BY <3>2 DEF JobInv
      <4> QED
        BY <4>1
    <3> QED
        BY <3>1, <3>2
  <2> QED
    BY <2>2, <2>3, <2>4, <2>5, <2>6 DEF JobInv
<1>7. DistinctInv'
  <2>1. \A v \in Worker : at[v] = "run" => our_job[v] # current_job
    BY <1>b, <1>c, <1>e DEF JobInv
  <2> QED
    BY <1>a, <2>1 DEF DistinctInv
<1> QED
    BY <1>c, <1>e, <1>1, <1>2, <1>3, <1>4, <1>5, <1>6, <1>7

\* A worker that finds no more jobs, and the one that finds that it was the last
\* (pthread.c 72-73, 56-60).
LEMMA NoMoreJobsInv == ASSUME Inv, NEW w \in Worker, NoMoreJobs(w) PROVE Inv'
<1> USE Types
<1> USE DEF Inv
<1>a. /\ at[w] = "next" /\ at' = [at EXCEPT ![w] = "wait"] /\ current_job >= job_count
      /\ current_job' = current_job + 1
      /\ UNCHANGED <<thread_count, job_count, self_id, our_job, job>>
    BY DEF NoMoreJobs, Park
<1>b. caller \notin {"join", "over"} /\ job_count > 0 /\ thread_count = N /\ Numbered = Worker
    BY <1>a DEF PhaseInv
<1>c. w \in Busy /\ caller = "park" /\ current_job >= N
    BY <1>a, <1>b DEF CountInv, Busy
<1>d. \/ caller' = caller
      \/ caller' = "call_over" /\ current_job + 1 = N + job_count
  <2>1. caller' = IF ~(current_job + 1 = thread_count + job_count) THEN caller
                  ELSE IF caller = "park_init" THEN "init_over"
                  ELSE IF caller = "park" THEN "call_over" ELSE caller
    BY DEF NoMoreJobs, Park, Last
  <2> QED
    BY <1>b, <1>c, <2>1
<1>e. Numbered' = Numbered /\ Busy' = Busy \ {w}
    BY <1>a DEF Numbered, Busy
<1>f. Cardinality(Busy) = N + job_count - current_job
    BY <1>a, <1>b DEF CountInv
<1>g. Cardinality(Busy') = N + job_count - current_job'
  <2>1. Cardinality(Busy \ {w}) = Cardinality(Busy) - 1
    BY <1>c, Counts, FS_RemoveElement
  <2> QED
    BY <1>a, <1>e, <1>f, <2>1
<1>h. Cardinality(Busy') >= 0 /\ IsFiniteSet(Busy')
    BY <1>c, <1>e, Counts, FS_RemoveElement, FS_CardinalityType
<1>1. TypeOK'
  <2>1. at' \in [Worker -> WorkerLabel] /\ caller' \in CallerLabel /\ current_job' \in 0 .. N + MaxJobs
    BY <1>a, <1>c, <1>d, <1>g, <1>h DEF WorkerLabel, CallerLabel
  <2>2. done' \in BOOLEAN
    BY DEF TypeOK, NoMoreJobs
  <2> QED
    BY <1>a, <2>1, <2>2 DEF TypeOK, N
<1>2. PhaseInv'
    BY <1>a, <1>b, <1>c, <1>d, <1>e DEF PhaseInv
<1>3. DoneInv'
  <2>1. caller' \notin {"join", "over"}
    BY <1>c, <1>d
  <2> QED
    BY <1>b, <2>1 DEF DoneInv, NoMoreJobs
<1>4. IdInv'
    BY <1>a, <1>b, <1>e DEF IdInv
<1>5. CountInv'
  <2>1. current_job' >= N /\ current_job' > job_count'
    BY <1>a, <1>c
  <2>2. caller' # "park" => Busy' = {}
    BY <1>a, <1>c, <1>d, <1>g, <1>h, FS_EmptySet
  <2> QED
    BY <1>a, <1>g, <2>1, <2>2 DEF CountInv
<1>6. JobInv'
  <2> USE <1>a, <1>b, <1>c
  <2>1. \A v \in Worker : at'[v] = "run" <=> at[v] = "run"
    OBVIOUS
  <2>2. \A v \in Worker : at'[v] = "woken" <=> at[v] = "woken"
    OBVIOUS
  <2>3. \A v \in Worker : at'[v] = "run" =>
             /\ our_job'[v] < job_count' /\ our_job'[v] < current_job'
             /\ our_job'[v] = self_id'[v] \/ our_job'[v] >= N
             /\ job'[our_job'[v]] = "running"
    BY <2>1 DEF JobInv
  <2>4. \A v \in Worker : at'[v] = "woken" /\ self_id'[v] < job_count' => job'[self_id'[v]] = "todo"
    BY <2>2 DEF JobInv
  <2>5. \A j \in 0 .. job_count' - 1 : j >= current_job' => job'[j] = "todo"
    OBVIOUS
  <2>6. \A j \in 0 .. job_count' - 1 :
             job'[j] = "todo" => \/ j >= current_job'
                                 \/ \E v \in Worker : at'[v] = "woken" /\ self_id'[v] = j
    <3> SUFFICES ASSUME NEW j \in 0 .. job_count - 1, job[j] = "todo"
                 PROVE  \E v \in Worker : at'[v] = "woken" /\ self_id'[v] = j
        OBVIOUS
    <3>1. PICK v \in Worker : at[v] = "woken" /\ self_id[v] = j
        BY DEF JobInv
    <3> QED
        BY <2>2, <3>1
  <2>7. \A j \in 0 .. job_count' - 1 :
             job'[j] = "running" => \E v \in Worker : at'[v] = "run" /\ our_job'[v] = j
    BY <2>1 DEF JobInv
  <2> QED
    BY <2>3, <2>4, <2>5, <2>6, <2>7 DEF JobInv
<1>7. DistinctInv'
    BY <1>a DEF DistinctInv
<1> QED
    BY <1>1, <1>2, <1>3, <1>4, <1>5, <1>6, <1>7

\* As many workers have a number below n as there are such numbers.
LEMMA NumbersBelow ==
    ASSUME NEW n \in Nat, n <= N, self_id \in [Worker -> 0 .. N - 1],
           \A v, w \in Worker : self_id[v] = self_id[w] => v = w,
           \A i \in 0 .. N - 1 : \E w \in Worker : self_id[w] = i
    PROVE  Cardinality({w \in Worker : self_id[w] < n}) = n
<1> DEFINE S == {w \in Worker : self_id[w] < n}
           f == [w \in S |-> self_id[w]]
<1>1. IsFiniteSet(S)
    BY FS_Subset, WorkerAssumption
<1>2. f \in [S -> 0 .. n - 1]
    BY Counts
<1>3. \A v, w \in S : f[v] = f[w] => v = w
    OBVIOUS
<1>4. \A i \in 0 .. n - 1 : \E w \in S : f[w] = i
    BY Counts
<1>5. f \in Bijection(S, 0 .. n - 1)
    BY <1>2, <1>3, <1>4, Fun_IsBij
<1>6. Cardinality(0 .. n - 1) = Cardinality(S)
    BY <1>1, <1>5, FS_Bijection, Fun_ExistsBij
<1> QED
    BY <1>6, FS_Interval

\* A call wakes everybody (avcodec_thread_execute).
LEMMA CallInv ==
    ASSUME Inv, Call
    PROVE  Inv' /\ caller = "idle" /\ caller' = "park"
           /\ \E n \in 1 .. MaxJobs : job' = [j \in 0 .. n - 1 |-> "todo"]
<1> USE Types
<1> USE DEF Inv
<1>a. PICK n \in 1 .. MaxJobs :
        /\ caller = "idle" /\ caller' = "park"
        /\ current_job' = thread_count /\ job_count' = n
        /\ job' = [j \in 0 .. n - 1 |-> "todo"]
        /\ at' = [w \in Worker |-> IF at[w] = "wait" THEN "woken" ELSE at[w]]
        /\ UNCHANGED <<thread_count, self_id, our_job>>
    BY DEF Call, Broadcast
<1>b. thread_count = N /\ Numbered = Worker
    BY <1>a DEF PhaseInv
<1>c. \A w \in Worker : at[w] \in {"wait", "woken"}
  <2>1. \A w \in Worker : at[w] \notin {"none", "start", "gone"}
    BY <1>a, <1>b DEF PhaseInv, Numbered
  <2>2. \A w \in Worker : at[w] \notin {"run", "next"}
    <3>1. CASE job_count = 0
        BY <3>1 DEF PhaseInv
    <3>2. CASE job_count > 0
        BY <1>a, <3>2 DEF CountInv, Busy
    <3> QED
        BY <3>1, <3>2
  <2> QED
    BY <2>1, <2>2 DEF WorkerLabel
<1>d. \A w \in Worker : at'[w] = "woken"
    BY <1>a, <1>c
<1>e. Numbered' = Worker /\ Busy' = {w \in Worker : self_id[w] < n}
    BY <1>a, <1>d DEF Numbered, Busy
<1>f. /\ \A v, w \in Worker : self_id[v] = self_id[w] => v = w
      /\ \A i \in 0 .. N - 1 : \E w \in Worker : self_id[w] = i
  <2>1. job_count = 0 => current_job = N
    BY <1>b DEF PhaseInv, N
  <2> QED
    BY <1>b, <2>1 DEF IdInv
<1>1. TypeOK'
  <2>1. /\ at' \in [Worker -> WorkerLabel] /\ caller' \in CallerLabel
        /\ current_job' \in 0 .. N + MaxJobs /\ job_count' \in 0 .. MaxJobs
        /\ job' \in [0 .. job_count' - 1 -> {"todo", "running", "done"}]
    BY <1>a, <1>b, <1>c, <1>d DEF WorkerLabel, CallerLabel
  <2>2. done' \in BOOLEAN
    BY DEF TypeOK, Call
  <2> QED
    BY <1>a, <2>1, <2>2 DEF TypeOK, N
<1>2. PhaseInv'
    BY <1>a, <1>b, <1>d, <1>e DEF PhaseInv
<1>3. DoneInv'
  <2>1. caller' \notin {"join", "over"} /\ caller \notin {"join", "over"}
    BY <1>a
  <2> QED
    BY <2>1 DEF DoneInv, Call
<1>4. IdInv'
    BY <1>a, <1>e, <1>f DEF IdInv
<1>5. CountInv'
  <2>1. CASE N <= n
    <3>1. Busy' = Worker
        BY <1>e, <2>1
    <3> QED
        BY <1>a, <1>b, <2>1, <3>1 DEF CountInv, N
  <2>2. CASE n < N
    <3>1. Cardinality(Busy') = n
      <4>1. n \in Nat /\ n <= N /\ self_id \in [Worker -> 0 .. N - 1]
        BY <2>2
      <4>2. Cardinality({w \in Worker : self_id[w] < n}) = n
        BY ONLY <4>1, <1>f, NumbersBelow, Counts
      <4> QED
        BY <1>e, <4>2
    <3> QED
        BY <1>a, <1>b, <2>2, <3>1 DEF CountInv
  <2> QED
    BY <2>1, <2>2
<1>6. JobInv'
  <2>1. \A j \in 0 .. n - 1 : job'[j] = "todo"
    BY <1>a
  <2>2. \A w \in Worker : at'[w] # "run" /\ self_id'[w] = self_id[w] /\ self_id[w] \in 0 .. N - 1
    BY <1>a, <1>d
  <2>3. \A j \in 0 .. n - 1 : j >= current_job' \/ \E w \in Worker : at'[w] = "woken" /\ self_id'[w] = j
    BY <1>a, <1>b, <1>d, <1>f
  <2> QED
    BY <1>a, <2>1, <2>2, <2>3 DEF JobInv
<1>7. DistinctInv'
    BY <1>d DEF DistinctInv
<1> QED
    BY <1>a, <1>1, <1>2, <1>3, <1>4, <1>5, <1>6, <1>7

\* pthread_create succeeds (pthread.c 108).
LEMMA CreateInv == ASSUME Inv, Create PROVE Inv'
<1> USE Types
<1> USE DEF Inv
<1>a. PICK w \in Worker :
        /\ caller = "create" /\ at[w] = "none" /\ at' = [at EXCEPT ![w] = "start"]
        /\ UNCHANGED <<thread_count, job_count, current_job, self_id, our_job, caller, job>>
    BY DEF Create, Created, context
<1>b. job_count = 0
    BY <1>a DEF PhaseInv
<1>c. Numbered' = Numbered
    BY <1>a DEF Numbered
<1>1. TypeOK'
  <2>1. at' \in [Worker -> WorkerLabel]
    BY <1>a DEF WorkerLabel
  <2>2. done' \in BOOLEAN
    BY DEF TypeOK, Create, context
  <2> QED
    BY <1>a, <2>1, <2>2 DEF TypeOK
<1>2. PhaseInv'
    BY <1>a, <1>b, <1>c DEF PhaseInv
<1>3. DoneInv'
    BY DEF DoneInv, Create, context
<1>4. IdInv'
    BY <1>a, <1>b, <1>c DEF IdInv
<1>5. CountInv' /\ JobInv'
    BY <1>a, <1>b DEF CountInv, JobInv
<1>6. DistinctInv'
    BY <1>a DEF DistinctInv
<1> QED
    BY <1>1, <1>2, <1>3, <1>4, <1>5, <1>6

\* The caller moves on without touching the pool: it has created all workers,
\* returns from a function or has joined the workers.
LEMMA CallerMovesInv ==
    ASSUME Inv, AllCreated \/ InitReturns \/ CallReturns \/ Joined
    PROVE  Inv'
<1> USE Types
<1> USE DEF Inv
<1>a. /\ UNCHANGED <<thread_count, job_count, current_job, at, self_id, our_job, job>>
      /\ \/ caller = "create" /\ caller' = "park_init" /\ Created = Worker
         \/ caller = "init_over" /\ caller' = "idle"
         \/ caller = "call_over" /\ caller' = "idle"
         \/ caller = "join" /\ caller' = "over"
    BY DEF AllCreated, InitReturns, CallReturns, Joined, context, workers
<1>b. done' = done
    BY DEF AllCreated, InitReturns, CallReturns, Joined, context
<1>c. Numbered' = Numbered /\ Busy' = Busy /\ Created' = Created
    BY <1>a DEF Numbered, Busy, Created
<1>1. TypeOK'
  <2>1. caller' \in CallerLabel
    BY <1>a DEF CallerLabel
  <2>2. done' \in BOOLEAN
    BY <1>b DEF TypeOK
  <2> QED
    BY <1>a, <2>1, <2>2 DEF TypeOK
<1>2. PhaseInv'
    BY <1>a, <1>c DEF PhaseInv
<1>3. DoneInv'
  <2>1. caller \in {"join", "over"} <=> caller' \in {"join", "over"}
    BY <1>a
  <2> QED
    BY <1>b, <2>1 DEF DoneInv
<1>4. IdInv'
    BY <1>a, <1>c DEF IdInv
<1>5. CountInv'
    BY <1>a, <1>c DEF CountInv, PhaseInv
<1>6. JobInv'
    BY <1>a DEF JobInv, PhaseInv
<1>7. DistinctInv'
    BY <1>a DEF DistinctInv
<1> QED
    BY <1>1, <1>2, <1>3, <1>4, <1>5, <1>6, <1>7

\* pthread_create fails (pthread.c 108-112).
LEMMA CreateFailsInv == ASSUME Inv, CreateFails PROVE Inv'
<1> USE Types
<1> USE DEF Inv
<1>a. /\ caller = "create" /\ caller' = "failed" /\ thread_count' = Cardinality(Created)
      /\ UNCHANGED <<job_count, current_job, at, self_id, our_job, job>>
    BY DEF CreateFails, workers
<1>b. job_count = 0
    BY <1>a DEF PhaseInv
<1>c. Cardinality(Created) \in 0 .. N
  <2>1. Created \subseteq Worker
    BY DEF Created
  <2>2. IsFiniteSet(Created) /\ Cardinality(Created) <= N
    BY <2>1, FS_Subset, WorkerAssumption DEF N
  <2> QED
    BY <2>2, FS_CardinalityType
<1>d. Numbered' = Numbered
    BY <1>a DEF Numbered
<1>1. TypeOK'
  <2>1. caller' \in CallerLabel
    BY <1>a DEF CallerLabel
  <2>2. done' \in BOOLEAN
    BY DEF TypeOK, CreateFails
  <2> QED
    BY <1>a, <1>c, <2>1, <2>2 DEF TypeOK, N
<1>2. PhaseInv'
    BY <1>a, <1>b, <1>d DEF PhaseInv
<1>3. DoneInv'
  <2>1. caller \notin {"join", "over"} /\ caller' \notin {"join", "over"}
    BY <1>a
  <2> QED
    BY <2>1 DEF DoneInv, CreateFails
<1>4. IdInv'
    BY <1>a, <1>b, <1>d DEF IdInv
<1>5. CountInv' /\ JobInv'
    BY <1>a, <1>b DEF CountInv, JobInv
<1>6. DistinctInv'
    BY <1>a DEF DistinctInv
<1> QED
    BY <1>1, <1>2, <1>3, <1>4, <1>5, <1>6

\* Outside of a call nobody has a job (what avcodec_thread_execute relies on).
LEMMA NobodyRuns ==
    ASSUME Inv, caller # "park"
    PROVE  \A w \in Worker : at[w] \notin {"run", "next"}
<1> USE DEF Inv
<1>1. CASE job_count = 0 \/ caller \in {"join", "over"}
    BY <1>1 DEF PhaseInv
<1>2. CASE job_count > 0 /\ caller \notin {"join", "over"}
    BY <1>2 DEF CountInv, Busy
<1> QED
    BY <1>1, <1>2, Types

\* The pool is told to leave (avcodec_thread_free).
LEMMA FreeInv ==
    ASSUME Inv, FreeFrom("failed") \/ FreeFrom("idle")
    PROVE  Inv'
<1> USE Types
<1> USE DEF Inv
<1>a. /\ caller \in {"failed", "idle"} /\ caller' = "join"
      /\ at' = [w \in Worker |-> IF at[w] = "wait" THEN "woken" ELSE at[w]]
      /\ UNCHANGED <<thread_count, job_count, current_job, self_id, our_job, job>>
    BY DEF FreeFrom, Broadcast
<1>b. \A w \in Worker : at[w] \notin {"run", "next"}
    BY <1>a, NobodyRuns
<1>c. Numbered' = Numbered
    BY <1>a DEF Numbered
<1>1. TypeOK'
  <2>1. at' \in [Worker -> WorkerLabel] /\ caller' \in CallerLabel
    BY <1>a DEF WorkerLabel, CallerLabel
  <2>2. done' \in BOOLEAN
    BY DEF FreeFrom
  <2> QED
    BY <1>a, <2>1, <2>2 DEF TypeOK
<1>2. PhaseInv'
    BY <1>a, <1>b, <1>c DEF PhaseInv
<1>3. DoneInv'
    BY DEF DoneInv, FreeFrom
<1>4. IdInv'
    BY <1>a, <1>c DEF IdInv
<1>5. CountInv' /\ JobInv'
    BY <1>a DEF CountInv, JobInv
<1>6. DistinctInv'
    BY <1>a, <1>b DEF DistinctInv
<1> QED
    BY <1>1, <1>2, <1>3, <1>4, <1>5, <1>6

\* Every step keeps the invariant.
LEMMA NextInv == ASSUME Inv, [Next]_vars PROVE Inv'
<1>1. CASE UNCHANGED vars
  <2> USE <1>1 DEF Inv, vars, context, workers
  <2>1. TypeOK'
    BY DEF TypeOK
  <2>2. PhaseInv' /\ IdInv' /\ DistinctInv'
    BY DEF PhaseInv, IdInv, DistinctInv, Numbered, Created
  <2>3. DoneInv'
    BY DEF DoneInv
  <2>4. CountInv' /\ JobInv'
    BY DEF CountInv, JobInv, Busy
  <2> QED
    BY <2>1, <2>2, <2>3, <2>4
<1>2. CASE \E w \in Worker : WorkerStep(w)
  <2> PICK w \in Worker : WorkerStep(w)
    BY <1>2
  <2> QED
    BY StartInv, LeaveInv, WokenForNothingInv, FirstJobInv, FinishInv, NextJobInv, NoMoreJobsInv
       DEF WorkerStep
<1>3. CASE CallerStep \/ CreateFails
    BY <1>3, CreateInv, CallerMovesInv, FreeInv, CreateFailsInv DEF CallerStep
<1>4. CASE Call \/ FreeFrom("idle")
    BY <1>4, CallInv, FreeInv
<1> QED
    BY <1>1, <1>2, <1>3, <1>4 DEF Next

\* The invariant holds throughout (induction over the steps of the pool and of
\* its caller).
THEOREM Invariant == Spec => []Inv
<1>1. Init => Inv
    BY InitInv
<1>2. Inv /\ [Next]_vars => Inv'
    BY NextInv
<1> QED
    BY <1>1, <1>2, PTL DEF Spec

-----------------------------------------------------------------------------
(* The counters of ThreadContext stay in range, and no job is run twice: the *)
(* history never holds anything but the three states a job may be in.        *)
THEOREM TypeCorrect == Spec => []TypeOK
<1>1. Inv => TypeOK
    BY DEF Inv
<1> QED
    BY <1>1, Invariant, PTL

(* avcodec_thread_execute's caller is woken when every job has ended, and no *)
(* job is run by two workers.                                                *)
THEOREM AlwaysAlone == Spec => []Alone
<1>1. Inv => Alone
    BY NobodyRuns DEF Inv, Alone, DistinctInv
<1> QED
    BY <1>1, Invariant, PTL

\* When the caller has been woken, all jobs have ended (pthread.c 57, 99).
LEMMA AllDone ==
    ASSUME Inv, caller = "call_over"
    PROVE  \A j \in DOMAIN job : job[j] = "done"
<1> USE Types
<1> USE DEF Inv
<1>1. job_count > 0 /\ DOMAIN job = 0 .. job_count - 1
    BY DEF PhaseInv
<1>2. Busy = {} /\ Cardinality(Busy) = 0
  <2>1. Busy = {}
    BY <1>1 DEF CountInv
  <2> QED
    BY <2>1, FS_EmptySet
<1>3. current_job > job_count
    BY <1>1, <1>2, Counts DEF CountInv
<1>4. ASSUME NEW j \in DOMAIN job PROVE job[j] # "todo" /\ job[j] # "running"
    BY <1>1, <1>2, <1>3, <1>4 DEF JobInv, Busy
<1> QED
    BY <1>1, <1>4

\* A worker that waits again ends no call in the caller's eyes.
LEMMA ParkStutters ==
    ASSUME NEW w \in Worker, NEW c, Park(w, c), UNCHANGED job
    PROVE  UNCHANGED Loop!vars
BY DEF Park, Loop!vars

(* The pool does what ParallelFor promises: each job of a call is run once,  *)
(* and the call returns when the last has ended.                             *)
THEOREM PoolImplementsParallelFor == Spec => ImplementsParallelFor
<1>1. Init => Loop!Init
    BY DEF Init, Loop!Init
<1>2. ASSUME Inv, [Next]_vars PROVE [Loop!Next]_(Loop!vars)
  <2> USE Types
  <2>1. CASE UNCHANGED vars
    BY <2>1 DEF vars, context, workers, Loop!vars
  <2>2. ASSUME NEW w \in Worker, Start(w) \/ WokenForNothing(w) \/ NoMoreJobs(w)
        PROVE  UNCHANGED Loop!vars
    BY <2>2, ParkStutters DEF Start, WokenForNothing, NoMoreJobs
  <2>3. ASSUME NEW w \in Worker, Leave(w) PROVE UNCHANGED Loop!vars
    BY <2>3 DEF Leave, Loop!vars
  <2>4. ASSUME NEW w \in Worker, FirstJob(w) PROVE Loop!Move("todo", "running")
    <3>1. Inv /\ FirstJob(w)
        BY <1>2, <2>4
    <3>2. job[self_id[w]] = "todo" /\ caller = "park"
        BY <3>1, FirstJobInv
    <3>3. /\ self_id[w] \in 0 .. job_count - 1
          /\ caller' = caller
          /\ job' = [job EXCEPT ![self_id[w]] = IF job[self_id[w]] = "todo" THEN "running" ELSE "twice"]
        BY <1>2, <2>4 DEF FirstJob, Begin
    <3>4. self_id[w] \in DOMAIN job /\ job' = [job EXCEPT ![self_id[w]] = "running"]
        BY <1>2, <3>2, <3>3
    <3> QED
        BY <3>2, <3>3, <3>4 DEF Loop!Move
  <2>5. ASSUME NEW w \in Worker, Finish(w) PROVE Loop!Move("running", "done")
    <3>1. our_job[w] \in DOMAIN job /\ job[our_job[w]] = "running" /\ caller = "park"
        BY <1>2, <2>5, FinishInv
    <3> QED
        BY <2>5, <3>1 DEF Finish, Loop!Move
  <2>6. ASSUME NEW w \in Worker, NextJob(w) PROVE Loop!Move("todo", "running")
    <3>1. current_job \in DOMAIN job /\ job[current_job] = "todo" /\ caller = "park"
        BY <1>2, <2>6, NextJobInv
    <3> QED
        BY <2>6, <3>1 DEF NextJob, Begin, Loop!Move
  <2>7. ASSUME Create \/ AllCreated \/ InitReturns \/ Joined \/ CreateFails PROVE UNCHANGED Loop!vars
    BY <2>7 DEF Create, AllCreated, InitReturns, Joined, CreateFails, Loop!vars
  <2>8. ASSUME FreeFrom("failed") \/ FreeFrom("idle") PROVE UNCHANGED Loop!vars
    BY <2>8 DEF FreeFrom, Loop!vars
  <2>9. ASSUME Call PROVE Loop!Call
    BY <1>2, <2>9, CallInv DEF Loop!Call
  <2>10. ASSUME CallReturns PROVE Loop!Return
    <3>1. \A j \in DOMAIN job : job[j] = "done"
        BY <1>2, <2>10, AllDone DEF CallReturns
    <3> QED
        BY <2>10, <3>1 DEF CallReturns, Loop!Return
  <2> QED
    BY <1>2, <2>1, <2>2, <2>3, <2>4, <2>5, <2>6, <2>7, <2>8, <2>9, <2>10
       DEF Next, WorkerStep, CallerStep, Loop!Next
<1> QED
    BY <1>1, <1>2, Invariant, PTL DEF Spec, ImplementsParallelFor, Loop!Spec

-----------------------------------------------------------------------------
(* What CallsReturn and FreeReturns rest on.                                 *)

(* Who the caller waits for is not itself waiting: avcodec_thread_init waits *)
(* while a worker has yet to take its number, avcodec_thread_execute while   *)
(* one has a job or has been woken for one, and avcodec_thread_free joins    *)
(* workers none of which waits on current_job_cond any more.                 *)
NoWakeupLost ==
    /\ caller = "park_init" => \E w \in Worker : at[w] = "start"
    /\ caller = "park" => ~done /\ Busy # {}
    /\ caller = "join" /\ Created = Worker =>
         done /\ \A w \in Worker : at[w] \in {"woken", "gone"}

(* No worker takes a number before avcodec_thread_init waits, and the last   *)
(* one to do so wakes it; the step that counts the last job of a call wakes  *)
(* avcodec_thread_execute.                                                   *)
WaitInv ==
    /\ caller = "create" => Numbered = {}
    /\ caller = "park_init" => \E w \in Worker : at[w] = "start"
    /\ caller = "park" => current_job < N + job_count
    /\ caller = "failed" => Created # Worker
    /\ caller = "join" /\ Created = Worker => \A w \in Worker : at[w] \in {"woken", "gone"}

\* A worker takes its number: the last one to do so wakes avcodec_thread_init.
LEMMA StartWaitInv == ASSUME Inv, WaitInv, NEW w \in Worker, Start(w) PROVE WaitInv'
<1> USE Types DEF WaitInv
<1>a. /\ at[w] = "start" /\ caller # "create"
      /\ at' = [at EXCEPT ![w] = "wait"]
      /\ UNCHANGED <<thread_count, job_count>>
    BY DEF Start, Park, Unlocked
<1>b. /\ caller' = IF ~(current_job + 1 = thread_count + job_count) THEN caller
                   ELSE IF caller = "park_init" THEN "init_over"
                   ELSE IF caller = "park" THEN "call_over" ELSE caller
      /\ current_job' = current_job + 1
    BY DEF Start, Park, Last
<1>c. w \notin Numbered /\ job_count = 0 /\ current_job = Cardinality(Numbered)
    BY <1>a DEF Inv, Numbered, PhaseInv
<1>d. caller # "park"
    BY <1>c DEF Inv, PhaseInv
<1>e. Created' = Created
    BY <1>a DEF Created
<1>1. caller' = "park_init" => \E v \in Worker : at'[v] = "start"
  <2> SUFFICES ASSUME caller' = "park_init", \A v \in Worker : at'[v] # "start" PROVE FALSE
    OBVIOUS
  <2>1. caller = "park_init" /\ current_job + 1 # thread_count
    BY <1>b, <1>c, <1>d
  <2>2. Created = Worker /\ thread_count = N
    BY <2>1 DEF Inv, PhaseInv
  <2>3. Worker = Numbered \cup {w}
    BY <1>a, <2>2 DEF Numbered, Created
  <2>4. N = Cardinality(Numbered) + 1
    BY <1>c, <2>3, Counts, FS_AddElement DEF N
  <2> QED
    BY <1>c, <2>1, <2>2, <2>4
<1>2. caller' # "create" /\ caller' # "park"
    BY <1>a, <1>b, <1>d
<1>3. caller' = "failed" => Created' # Worker
    BY <1>b, <1>e
<1>4. caller' = "join" /\ Created' = Worker => \A v \in Worker : at'[v] \in {"woken", "gone"}
  <2>1. caller' = "join" => caller = "join"
    BY <1>b
  <2> QED
    BY <1>a, <1>e, <2>1
<1> QED
    BY <1>1, <1>2, <1>3, <1>4

\* A worker that finds nothing to do ends the call if it was the last to.
LEMMA ParkWaitInv ==
    ASSUME Inv, WaitInv, NEW w \in Worker, NoMoreJobs(w) \/ WokenForNothing(w)
    PROVE  WaitInv'
<1> USE Types DEF WaitInv
<1>a. /\ at[w] \in {"next", "woken"} /\ UNCHANGED <<thread_count, job_count>>
      /\ caller' = IF ~(current_job' = thread_count + job_count) THEN caller
                   ELSE IF caller = "park_init" THEN "init_over"
                   ELSE IF caller = "park" THEN "call_over" ELSE caller
      /\ current_job' = current_job + 1 \/ current_job' = current_job
    BY DEF NoMoreJobs, WokenForNothing, Park, Last, context
<1>b. caller \notin {"join", "over"}
    BY <1>a DEF NoMoreJobs, WokenForNothing, Inv, DoneInv, PhaseInv
<1>c. job_count > 0 /\ thread_count = N /\ caller \in {"idle", "park", "call_over"}
    BY <1>a, <1>b DEF Inv, PhaseInv
<1>d. caller' = "park" => current_job' < N + job_count'
  <2> SUFFICES ASSUME caller' = "park" PROVE current_job' < N + job_count'
    OBVIOUS
  <2>1. caller = "park" /\ current_job' # N + job_count
    BY <1>a, <1>c
  <2>2. current_job < N + job_count
    BY <2>1
  <2>3. current_job' # N + job_count /\ job_count' = job_count
    BY <1>a, <1>c, <2>1
  <2>4. current_job' = current_job + 1 \/ current_job' = current_job
    BY <1>a
  <2>5. current_job \in Nat /\ job_count \in Nat /\ N \in Nat
    BY Types
  <2> QED
    BY ONLY <2>2, <2>3, <2>4, <2>5
<1>e. caller' \in {"idle", "park", "call_over"}
    BY <1>a, <1>c
<1> QED
    BY <1>d, <1>e

\* A worker runs a job or looks for the next, and finds one.
LEMMA WorkWaitInv ==
    ASSUME Inv, WaitInv, NEW w \in Worker, FirstJob(w) \/ Finish(w) \/ NextJob(w)
    PROVE  WaitInv'
<1> USE Types DEF WaitInv
<1>a. /\ at[w] \in {"woken", "run", "next"} /\ job_count' = job_count /\ caller' = caller
      /\ \/ current_job' = current_job
         \/ current_job < job_count /\ current_job' = current_job + 1
  <2>1. CASE FirstJob(w)
    BY <2>1 DEF FirstJob, context
  <2>2. CASE Finish(w)
    BY <2>2 DEF Finish, context
  <2>3. CASE NextJob(w)
    BY <2>3 DEF NextJob
  <2> QED
    BY <2>1, <2>2, <2>3
<1>b. caller \notin {"join", "over"}
    BY <1>a DEF FirstJob, Finish, NextJob, Inv, DoneInv, PhaseInv
<1>c. caller \in {"idle", "park", "call_over"}
    BY <1>a, <1>b DEF Inv, PhaseInv
<1>d. N > 0 /\ N \in Nat /\ job_count \in Nat /\ current_job \in Nat
    BY Counts, Types
<1>e. current_job < N + job_count => current_job' < N + job_count'
  <2>1. /\ job_count' = job_count
        /\ \/ current_job' = current_job
           \/ current_job < job_count /\ current_job' = current_job + 1
    BY <1>a
  <2> QED
    BY ONLY <2>1, <1>d
<1> QED
    BY <1>a, <1>c, <1>e

\* A worker leaves.
LEMMA LeaveWaitInv == ASSUME Inv, WaitInv, NEW w \in Worker, Leave(w) PROVE WaitInv'
<1> USE Types DEF WaitInv
<1>a. /\ at[w] = "woken" /\ at' = [at EXCEPT ![w] = "gone"] /\ caller' = caller
    BY DEF Leave
<1>b. caller \in {"join", "over"}
    BY DEF Leave, Inv, DoneInv
<1>c. Created' = Created
    BY <1>a DEF Created
<1> QED
    BY <1>a, <1>b, <1>c

\* avcodec_thread_init, and what the caller does between its functions.
LEMMA CallerWaitInv ==
    ASSUME Inv, WaitInv,
           Create \/ AllCreated \/ CreateFails \/ InitReturns \/ CallReturns \/ Joined \/ Call
    PROVE  WaitInv'
<1> USE Types DEF WaitInv
<1>1. CASE Create
  <2>1. caller' = "create" /\ Numbered' = Numbered
    BY <1>1 DEF Create, Created, Numbered
  <2> QED
    BY <1>1, <2>1 DEF Create
<1>2. CASE AllCreated
  <2>1. PICK w \in Worker : TRUE
    BY WorkerAssumption
  <2>2. at[w] = "start"
    BY <1>2 DEF AllCreated, Created, Numbered
  <2> QED
    BY <1>2, <2>2 DEF AllCreated, workers
<1>3. CASE CreateFails
  <2>1. Created # Worker /\ Created' = Created
    BY <1>3 DEF CreateFails, Created, workers
  <2> QED
    BY <1>3, <2>1 DEF CreateFails
<1>4. CASE InitReturns \/ CallReturns \/ Joined
    BY <1>4 DEF InitReturns, CallReturns, Joined
<1>5. CASE Call
  <2>1. caller = "idle" /\ caller' = "park" /\ current_job' = thread_count /\ job_count' > 0
        /\ job_count' \in Nat
    BY <1>5, JobsAssumption DEF Call
  <2>2. thread_count = N
    BY <2>1 DEF Inv, PhaseInv
  <2> QED
    BY <2>1, <2>2
<1> QED
    BY <1>1, <1>2, <1>3, <1>4, <1>5

\* avcodec_thread_free wakes whoever waits.
LEMMA FreeWaitInv ==
    ASSUME Inv, WaitInv, FreeFrom("failed") \/ FreeFrom("idle")
    PROVE  WaitInv'
<1> USE Types DEF WaitInv
<1>a. /\ caller \in {"failed", "idle"} /\ caller' = "join"
      /\ at' = [w \in Worker |-> IF at[w] = "wait" THEN "woken" ELSE at[w]]
    BY DEF FreeFrom, Broadcast
<1>b. Created' = Created
    BY <1>a DEF Created
<1>c. ASSUME caller = "idle" PROVE \A w \in Worker : at'[w] \in {"woken", "gone"}
  <2>1. \A w \in Worker : at[w] \notin {"none", "start"}
    BY <1>c DEF Inv, PhaseInv, Numbered
  <2>2. \A w \in Worker : at[w] \notin {"run", "next"}
    BY <1>c, NobodyRuns
  <2> QED
    BY <1>a, <2>1, <2>2 DEF WorkerLabel
<1> QED
    BY <1>a, <1>b, <1>c

\* Whoever waits is owed a signal, throughout.
LEMMA WaitInvariance == Spec => []WaitInv
<1>1. Init => WaitInv
    BY DEF Init, WaitInv, Numbered
<1>2. Inv /\ WaitInv /\ [Next]_vars => WaitInv'
  <2> SUFFICES ASSUME Inv, WaitInv, [Next]_vars PROVE WaitInv'
    OBVIOUS
  <2>1. CASE UNCHANGED vars
    BY <2>1 DEF vars, context, workers, WaitInv, Numbered, Created
  <2>2. CASE \E w \in Worker : WorkerStep(w)
    BY <2>2, StartWaitInv, ParkWaitInv, WorkWaitInv, LeaveWaitInv DEF WorkerStep
  <2>3. CASE CallerStep \/ CreateFails \/ Call \/ FreeFrom("idle")
    BY <2>3, CallerWaitInv, FreeWaitInv DEF CallerStep
  <2> QED
    BY <2>1, <2>2, <2>3 DEF Next
<1> QED
    BY <1>1, <1>2, Invariant, PTL DEF Spec

(* avcodec_thread_init, _execute and _free never wait for workers all of     *)
(* which wait themselves: the signal that a waiting caller needs has not     *)
(* been sent, and somebody awake has yet to send it.                         *)
THEOREM NoWakeupIsLost == Spec => []NoWakeupLost
<1>1. Inv /\ WaitInv => NoWakeupLost
  <2> SUFFICES ASSUME Inv, WaitInv PROVE NoWakeupLost
    OBVIOUS
  <2>1. caller = "park" => ~done /\ Busy # {}
    <3> SUFFICES ASSUME caller = "park" PROVE ~done /\ Busy # {}
        OBVIOUS
    <3>1. ~done /\ job_count > 0
        BY DEF Inv, DoneInv, PhaseInv
    <3>2. Cardinality(Busy) = IF current_job <= job_count THEN N ELSE N + job_count - current_job
        BY <3>1 DEF Inv, CountInv
    <3>3. current_job < N + job_count /\ N > 0
        BY Counts DEF WaitInv
    <3>4. Cardinality(Busy) # 0
        BY <3>2, <3>3, Types
    <3> QED
        BY <3>1, <3>4, FS_EmptySet
  <2>2. caller = "join" => done
    BY DEF Inv, DoneInv
  <2> QED
    BY <2>1, <2>2 DEF WaitInv, NoWakeupLost
<1> QED
    BY <1>1, Invariant, WaitInvariance, PTL
=============================================================================
