-------------------------------- MODULE Repeats --------------------------------
(***************************************************************************)
(* The background jobs of the bot (src/src/utils/utils.py) and the         *)
(* scheduler that starts them (src/src/utils/scheduler.py).  A plugin      *)
(* registers jobs that repeat, or run once, while it is loaded; they wait  *)
(* until the scheduler runs, and one registered later starts at once.      *)
(* Each sleeps for a delay of its own.  A repeating job plans its runs one *)
(* interval apart from the first, whatever a run takes and whether or not  *)
(* it raises, so it catches up after a run that took long.                 *)
(***************************************************************************)
EXTENDS Integers

CONSTANTS
    Repeating,      \* the jobs of repeat_with_interval
    Once,           \* the jobs of async_task
    Interval,       \* the seconds between two runs
    MaxDelay,       \* startup_task_delay_seconds.max
    MaxTime         \* bound: the clock stops here

Jobs == Repeating \cup Once

\* What the constants are taken to be.
RepeatsAssumption ==
    /\ Repeating \cap Once = {}
    /\ Interval \in Nat \ {0}
    /\ MaxDelay \in Nat

VARIABLES
    now,
    scheduler,      \* whether the scheduler runs
    at,             \* at[j]: where the job j is
    wake,           \* wake[j]: when its delay ends
    next,           \* next[j]: next_time
    first,          \* history: first[j]: the time of its first planned run
    runs,           \* history: runs[j]: the runs begun
    tasks           \* history: tasks[j]: the tasks created for it

vars == <<now, scheduler, at, wake, next, first, runs, tasks>>

\* The invariant on types: what each variable may hold.
TypeOK ==
    /\ now \in 0..MaxTime
    /\ scheduler \in {"off", "running", "stopped"}
    /\ at \in [Jobs -> {"unknown", "pending", "delayed", "waiting", "running", "over"}]
    /\ wake \in [Jobs -> 0..(MaxTime + MaxDelay)]
    /\ {next, first} \subseteq [Jobs -> Nat]
    /\ runs \in [Jobs -> Nat]
    /\ tasks \in [Jobs -> Nat]

Init ==
    /\ now = 0
    /\ scheduler = "off"
    /\ at = [j \in Jobs |-> "unknown"]
    /\ wake = [j \in Jobs |-> 0]
    /\ next = [j \in Jobs |-> 0]
    /\ first = [j \in Jobs |-> 0]
    /\ runs = [j \in Jobs |-> 0]
    /\ tasks = [j \in Jobs |-> 0]

\* A task that starts with the scheduler waits first.
StartupDelay == 0..MaxDelay

\* A job is put among the pending ones and, when the scheduler runs, taken out again.
Register(j) ==
    /\ at[j] = "unknown"
    /\ IF scheduler = "running"
       THEN /\ \E d \in StartupDelay : wake' = [wake EXCEPT ![j] = now + d]
            /\ at' = [at EXCEPT ![j] = "delayed"]
            /\ tasks' = [tasks EXCEPT ![j] = @ + 1]
       ELSE /\ at' = [at EXCEPT ![j] = "pending"]
            /\ UNCHANGED <<wake, tasks>>
    /\ UNCHANGED <<now, scheduler, next, first, runs>>

\* The scheduler starts, once, and every pending job with it.
StartScheduler ==
    /\ scheduler = "off"
    /\ scheduler' = "running"
    /\ \E d \in [Jobs -> StartupDelay] :
         wake' = [j \in Jobs |-> IF at[j] = "pending" THEN now + d[j] ELSE wake[j]]
    /\ at' = [j \in Jobs |-> IF at[j] = "pending" THEN "delayed" ELSE at[j]]
    /\ tasks' = [j \in Jobs |-> IF at[j] = "pending" THEN tasks[j] + 1 ELSE tasks[j]]
    /\ UNCHANGED <<now, next, first, runs>>

StopScheduler ==
    /\ scheduler = "running"
    /\ scheduler' = "stopped"
    /\ at' = [j \in Jobs |-> "over"]        \* the loop of the bot ends with its tasks
    /\ UNCHANGED <<now, wake, next, first, runs, tasks>>

\* The delay is over: a repeating job plans its first run, another runs.
Begin(j) ==
    /\ at[j] = "delayed" /\ wake[j] <= now
    /\ IF j \in Repeating
       THEN /\ at' = [at EXCEPT ![j] = "waiting"]
            /\ next' = [next EXCEPT ![j] = now + 1]
            /\ first' = [first EXCEPT ![j] = now + 1]
            /\ UNCHANGED runs
       ELSE /\ at' = [at EXCEPT ![j] = "running"]
            /\ runs' = [runs EXCEPT ![j] = @ + 1]
            /\ UNCHANGED <<next, first>>
    /\ UNCHANGED <<now, scheduler, wake, tasks>>

\* Faulty variant: the next run is planned from now, not from when this one was due.
RunFromNow(j) ==
    /\ at[j] = "waiting" /\ next[j] <= now
    /\ at' = [at EXCEPT ![j] = "running"]
    /\ next' = [next EXCEPT ![j] = now + Interval]
    /\ runs' = [runs EXCEPT ![j] = @ + 1]
    /\ UNCHANGED <<now, scheduler, wake, first, tasks>>

\* The time of the next run has come, or went by during the last one.
Run(j) ==
    /\ at[j] = "waiting" /\ next[j] <= now
    /\ at' = [at EXCEPT ![j] = "running"]
    /\ next' = [next EXCEPT ![j] = @ + Interval]
    /\ runs' = [runs EXCEPT ![j] = @ + 1]
    /\ UNCHANGED <<now, scheduler, wake, first, tasks>>

\* Faulty variant: what a run raises is not caught and ends the job.
RunEndsForGood(j) ==
    /\ at[j] = "running"
    /\ at' = [at EXCEPT ![j] = "over"]
    /\ UNCHANGED <<now, scheduler, wake, next, first, runs, tasks>>

\* A run returns, or raises what is caught: the job goes on as planned.
RunEnds(j) ==
    /\ at[j] = "running"
    /\ at' = [at EXCEPT ![j] = IF j \in Repeating THEN "waiting" ELSE "over"]
    /\ UNCHANGED <<now, scheduler, wake, next, first, runs, tasks>>

\* Time passes while jobs sleep or run; what is due is begun first.
Tick ==
    /\ now < MaxTime
    /\ \A j \in Jobs : /\ at[j] = "delayed" => now < wake[j]
                       /\ at[j] = "waiting" => now < next[j]
    /\ now' = now + 1
    /\ UNCHANGED <<scheduler, at, wake, next, first, runs, tasks>>

Next ==
    \/ \E j \in Jobs : Register(j) \/ Begin(j) \/ Run(j) \/ RunEnds(j)
    \/ StartScheduler \/ StopScheduler \/ Tick

Spec == Init /\ [][Next]_vars

\* The bot starts its scheduler, its loop wakes what sleeps, and every run ends.
Fairness ==
    /\ WF_vars(StartScheduler) /\ WF_vars(Tick)
    /\ \A j \in Jobs : WF_vars(Begin(j)) /\ WF_vars(Run(j)) /\ WF_vars(RunEnds(j))
FairSpec == Spec /\ Fairness

-------------------------------------------------------------------------------

\* The runs of a job keep to its plan: no more were begun than it had times for, and a
\* job that waits for its next run has begun one for each time that went by, however
\* long the others took (utils.py:287-325).
RunsOnTime == \A j \in Repeating :
    at[j] \in {"waiting", "running"} =>
        LET due == IF now < first[j] THEN 0 ELSE 1 + (now - first[j]) \div Interval
        IN  runs[j] <= due /\ (at[j] = "waiting" /\ next[j] > now => runs[j] = due)

\* A job registered before or after the scheduler starts has one task
\* (utils.py:321-331, 390-399).
OneTaskEach == \A j \in Jobs :
    /\ tasks[j] <= 1
    /\ at[j] \in {"delayed", "waiting", "running"} => tasks[j] = 1

\* A registered job runs in the end, unless the bot stops or the clock does, and a run
\* of a repeating one, whatever it ends in, is followed by the next.
JobsRun ==
    /\ \A j \in Jobs : at[j] = "pending" ~> runs[j] > 0 \/ scheduler = "stopped" \/ now = MaxTime
    /\ \A j \in Repeating : at[j] = "running" ~> at[j] = "waiting" \/ scheduler = "stopped"

===============================================================================
