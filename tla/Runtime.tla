------------------------------- MODULE Runtime -------------------------------
(***************************************************************************)
(* The job scheduler (packages/runtime/src/index.ts): timers fire runJob,  *)
(* which skips, or runs the agent once.  runJob is also public, and start  *)
(* and stop may be called at any time, any number of times.                *)
(***************************************************************************)
EXTENDS Naturals

CONSTANTS
  Jobs,        \* the job names
  MaxRuns,     \* job.maxRuns, the same for every job
  MaxStarts    \* bound: how often start() is called

ASSUME BoundsAssumption == MaxRuns \in Nat /\ MaxStarts \in Nat

VARIABLES
  stopped,     \* this.stopped
  timers,      \* how many live timers fire each job
  inFlight,    \* this.inFlight
  runCounts,   \* this.runCounts
  awaiting,    \* invocations of each job suspended in job.input()
  running,     \* invocations of each job suspended in agent.run
  succeeded,   \* how many runs of each job have succeeded
  starts       \* calls of start() so far

jobVars == <<inFlight, runCounts, awaiting, running, succeeded>>
vars == <<stopped, timers, jobVars, starts>>

Init == /\ stopped = FALSE
        /\ timers = [j \in Jobs |-> 0]
        /\ inFlight = {}
        /\ runCounts = [j \in Jobs |-> 0]
        /\ awaiting = [j \in Jobs |-> 0]
        /\ running = [j \in Jobs |-> 0]
        /\ succeeded = [j \in Jobs |-> 0]
        /\ starts = 0

-----------------------------------------------------------------------------
\* start(): one more timer for every job, whatever timers there are.
Start == /\ starts < MaxStarts
         /\ starts' = starts + 1
         /\ stopped' = FALSE
         /\ timers' = [j \in Jobs |-> timers[j] + 1]
         /\ UNCHANGED jobVars

\* stop(): no timer is left, and runJob returns at once.
Stop == /\ stopped' = TRUE
        /\ timers' = [j \in Jobs |-> 0]
        /\ UNCHANGED <<jobVars, starts>>

\* A bug: the limit is looked up in the run that is starting, one too late.
Admissible_OneMore(j) == ~stopped /\ j \notin inFlight /\ runCounts[j] <= MaxRuns

\* A bug: only the timers know that the runtime was stopped.
Admissible_Stopped(j) == j \notin inFlight /\ runCounts[j] < MaxRuns

\* The three early returns of runJob.
Admissible(j) == ~stopped /\ j \notin inFlight /\ runCounts[j] < MaxRuns

\* A bug: the job is marked in flight only once its input is there.
Mark_Late(j) == UNCHANGED inFlight

\* inFlight.add, before the first await.
Mark(j) == inFlight' = inFlight \cup {j}

\* runJob up to its first await: the run is counted before it has happened.
RunJob(j) ==
  /\ Admissible(j)
  /\ Mark(j)
  /\ runCounts' = [runCounts EXCEPT ![j] = @ + 1]
  /\ awaiting' = [awaiting EXCEPT ![j] = @ + 1]
  /\ UNCHANGED <<running, succeeded>>

\* A timer fires; a tick that is not admissible does nothing.
Tick(j) == timers[j] > 0 /\ RunJob(j) /\ UNCHANGED <<stopped, timers, starts>>

\* A caller of the library invokes runJob itself.
Invoke(j) == RunJob(j) /\ UNCHANGED <<stopped, timers, starts>>

\* job.input() returned (at once, when it is a string): agent.run is called.
RunAgent(j) ==
  /\ awaiting[j] > 0
  /\ awaiting' = [awaiting EXCEPT ![j] = @ - 1]
  /\ running' = [running EXCEPT ![j] = @ + 1]
  /\ UNCHANGED <<stopped, timers, inFlight, runCounts, succeeded, starts>>

\* agent.run answered.
Complete(j) ==
  /\ running[j] > 0
  /\ running' = [running EXCEPT ![j] = @ - 1]
  /\ succeeded' = [succeeded EXCEPT ![j] = @ + 1]
  /\ inFlight' = inFlight \ {j}
  /\ UNCHANGED <<stopped, timers, runCounts, awaiting, starts>>

\* A bug: a failed run is not taken out of inFlight.
FailJob_Leaks(j) ==
  /\ \/ /\ awaiting[j] > 0
        /\ awaiting' = [awaiting EXCEPT ![j] = @ - 1]
        /\ UNCHANGED running
     \/ /\ running[j] > 0
        /\ running' = [running EXCEPT ![j] = @ - 1]
        /\ UNCHANGED awaiting
  /\ UNCHANGED <<stopped, timers, inFlight, runCounts, succeeded, starts>>

\* job.input() or agent.run rejected: logged, and the finally runs all the same.
FailJob(j) ==
  /\ \/ /\ awaiting[j] > 0
        /\ awaiting' = [awaiting EXCEPT ![j] = @ - 1]
        /\ UNCHANGED running
     \/ /\ running[j] > 0
        /\ running' = [running EXCEPT ![j] = @ - 1]
        /\ UNCHANGED awaiting
  /\ inFlight' = inFlight \ {j}
  /\ UNCHANGED <<stopped, timers, runCounts, succeeded, starts>>

Next == \/ Start \/ Stop
        \/ \E j \in Jobs : Tick(j) \/ Invoke(j) \/ RunAgent(j) \/ Complete(j) \/ FailJob(j)

\* A live timer keeps firing, and what a run awaits settles; nobody has to start or stop.
Fairness == \A j \in Jobs : /\ WF_vars(Tick(j))
                            /\ WF_vars(RunAgent(j))
                            /\ WF_vars(Complete(j) \/ FailJob(j))

Safe == Init /\ [][Next]_vars
Spec == Safe /\ Fairness

-----------------------------------------------------------------------------
TypeOK ==
  /\ stopped \in BOOLEAN
  /\ timers \in [Jobs -> 0..MaxStarts]
  /\ inFlight \in SUBSET Jobs
  /\ runCounts \in [Jobs -> 0..MaxRuns]
  /\ awaiting \in [Jobs -> Nat]
  /\ running \in [Jobs -> Nat]
  /\ succeeded \in [Jobs -> 0..MaxRuns]
  /\ starts \in 0..MaxStarts

\* "A job that is still running when its next tick fires is skipped": doubled timers, a
\* direct runJob, or a stop and a new start while a run is in flight never overlap two
\* runs of one job, and inFlight names exactly the jobs with a run under way.
NoOverlap ==
  \A j \in Jobs : awaiting[j] + running[j] = (IF j \in inFlight THEN 1 ELSE 0)

\* maxRuns bounds what a job can do in all: every run that succeeded or is under way was
\* counted, across restarts of the runtime.
RunsCapped ==
  \A j \in Jobs : succeeded[j] + awaiting[j] + running[j] <= MaxRuns

\* "In-flight runs complete naturally; new runs are blocked": from stop() to the next start()
\* runs only end, whether a late tick or a caller invokes runJob, and an input that is
\* still awaited is the input of a run that was there before.
StoppedOnlyDrains ==
  [][stopped => \A j \in Jobs : /\ runCounts'[j] = runCounts[j]
                                /\ awaiting'[j] <= awaiting[j]
                                /\ awaiting'[j] + running'[j] <= awaiting[j] + running[j]]_vars

\* A job whose timer lives on is fired until its limit is reached: a failed run neither
\* stops the schedule nor wedges the job.
JobsKeepFiring ==
  \A j \in Jobs : <>[](timers[j] > 0) => <>(runCounts[j] = MaxRuns)
=============================================================================
