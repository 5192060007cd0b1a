---------------------------- MODULE RuntimeProofs ----------------------------
(***************************************************************************)
(* The safety properties of Runtime, for any set of jobs, any limit and    *)
(* any number of starts, and what of them a Daemon keeps.                  *)
(***************************************************************************)
EXTENDS Daemon, TLAPS

\* TypeOK without the upper bounds, which do not follow from the types alone.
Types ==
  /\ stopped \in BOOLEAN
  /\ timers \in [Jobs -> Nat]
  /\ inFlight \in SUBSET Jobs
  /\ runCounts \in [Jobs -> Nat]
  /\ awaiting \in [Jobs -> Nat]
  /\ running \in [Jobs -> Nat]
  /\ succeeded \in [Jobs -> Nat]
  /\ starts \in Nat

\* Every run that succeeded or is under way has been counted, and the count is within
\* the limit.
Counted ==
  \A j \in Jobs : /\ succeeded[j] + awaiting[j] + running[j] <= runCounts[j]
                  /\ runCounts[j] <= MaxRuns

\* No more timers fire a job than there were calls of start().
TimersStarted == starts <= MaxStarts /\ \A j \in Jobs : timers[j] <= starts

IInv == Types /\ NoOverlap /\ Counted /\ TimersStarted

-----------------------------------------------------------------------------
\* Only a job with no run under way is admitted, so marking it keeps NoOverlap.
LEMMA RunJobStep ==
  ASSUME IInv, NEW j \in Jobs, RunJob(j), UNCHANGED <<stopped, timers, starts>>
  PROVE  IInv'
<1> USE BoundsAssumption DEF IInv, Types, NoOverlap, Counted, TimersStarted
<1>1. Types'
  BY DEF RunJob, Mark
<1>2. NoOverlap'
  BY DEF RunJob, Mark, Admissible
<1>3. Counted'
  BY DEF RunJob, Mark, Admissible
<1>4. TimersStarted'
  BY DEF RunJob
<1> QED BY <1>1, <1>2, <1>3, <1>4

\* A run that goes from its input to the agent stays one run.
LEMMA RunAgentStep ==
  ASSUME IInv, NEW j \in Jobs, RunAgent(j)
  PROVE  IInv'
<1> USE BoundsAssumption DEF IInv, Types, NoOverlap, Counted, TimersStarted
<1>1. Types'
  BY DEF RunAgent
<1>2. NoOverlap' /\ Counted' /\ TimersStarted'
  BY DEF RunAgent
<1> QED BY <1>1, <1>2

\* A run that succeeds was the only one of its job: inFlight loses it, the sum stays.
LEMMA CompleteStep ==
  ASSUME IInv, NEW j \in Jobs, Complete(j)
  PROVE  IInv'
<1> USE BoundsAssumption DEF IInv, Types, NoOverlap, Counted, TimersStarted
<1>1. running[j] \in Nat /\ running[j] - 1 \in Nat /\ succeeded[j] + 1 \in Nat
  BY DEF Complete
<1>2. running' \in [Jobs -> Nat] /\ succeeded' \in [Jobs -> Nat]
  BY <1>1 DEF Complete
<1>3. Types'
  BY <1>2 DEF Complete
<1>4. NoOverlap'
  BY <1>1, <1>2 DEF Complete
<1>5. Counted' /\ TimersStarted'
  BY <1>1, <1>2 DEF Complete
<1> QED BY <1>3, <1>4, <1>5

\* A run that fails, before or after its input, was the only one of its job.
LEMMA FailJobStep ==
  ASSUME IInv, NEW j \in Jobs, FailJob(j)
  PROVE  IInv'
<1> USE BoundsAssumption DEF IInv, Types, NoOverlap, Counted, TimersStarted
<1>1. CASE awaiting[j] > 0 /\ awaiting' = [awaiting EXCEPT ![j] = @ - 1] /\ UNCHANGED running
  <2>1. awaiting[j] \in Nat /\ awaiting[j] - 1 \in Nat
    BY <1>1
  <2>2. awaiting' \in [Jobs -> Nat]
    BY <1>1, <2>1
  <2>3. Types'
    BY <1>1, <2>2 DEF FailJob
  <2>4. NoOverlap'
    BY <1>1, <2>1, <2>2 DEF FailJob
  <2>5. Counted' /\ TimersStarted'
    BY <1>1, <2>1, <2>2 DEF FailJob
  <2> QED BY <2>3, <2>4, <2>5
<1>2. CASE running[j] > 0 /\ running' = [running EXCEPT ![j] = @ - 1] /\ UNCHANGED awaiting
  <2>1. running[j] \in Nat /\ running[j] - 1 \in Nat
    BY <1>2
  <2>2. running' \in [Jobs -> Nat]
    BY <1>2, <2>1
  <2>3. Types'
    BY <1>2, <2>2 DEF FailJob
  <2>4. NoOverlap'
    BY <1>2, <2>1, <2>2 DEF FailJob
  <2>5. Counted' /\ TimersStarted'
    BY <1>2, <2>1, <2>2 DEF FailJob
  <2> QED BY <2>3, <2>4, <2>5
<1> QED BY <1>1, <1>2 DEF FailJob

\* The inductive invariant holds in every reachable state.
THEOREM Invariance == Safe => []IInv
<1>1. Init => IInv
  <2> SUFFICES ASSUME Init PROVE IInv
    OBVIOUS
  <2>1. Types
    BY DEF Init, Types
  <2>2. \A j \in Jobs : /\ timers[j] = 0 /\ runCounts[j] = 0
                       /\ awaiting[j] = 0 /\ running[j] = 0 /\ succeeded[j] = 0
    BY DEF Init
  <2>3. NoOverlap /\ Counted /\ TimersStarted
    BY <2>2, BoundsAssumption DEF Init, NoOverlap, Counted, TimersStarted
  <2> QED BY <2>1, <2>3 DEF IInv
<1>2. IInv /\ [Next]_vars => IInv'
  <2> SUFFICES ASSUME IInv, [Next]_vars PROVE IInv'
    OBVIOUS
  <2> USE BoundsAssumption
  <2>1. CASE Start
    <3>1. starts + 1 \in Nat /\ \A j \in Jobs : timers[j] + 1 \in Nat
      BY DEF IInv, Types
    <3>2. Types'
      BY <2>1, <3>1 DEF Start, jobVars, IInv, Types
    <3>3. NoOverlap' /\ Counted'
      BY <2>1 DEF Start, jobVars, IInv, NoOverlap, Counted
    <3>4. starts' = starts + 1 /\ \A j \in Jobs : timers'[j] = timers[j] + 1
      BY <2>1 DEF Start
    <3>5. TimersStarted'
      BY <2>1, <3>4 DEF Start, IInv, Types, TimersStarted
    <3> QED BY <3>2, <3>3, <3>5 DEF IInv
  <2>2. CASE Stop
    BY <2>2 DEF Stop, jobVars, IInv, Types, NoOverlap, Counted, TimersStarted
  <2>3. ASSUME NEW j \in Jobs, Tick(j) PROVE IInv'
    BY <2>3, RunJobStep DEF Tick
  <2>4. ASSUME NEW j \in Jobs, Invoke(j) PROVE IInv'
    BY <2>4, RunJobStep DEF Invoke
  <2>5. ASSUME NEW j \in Jobs, RunAgent(j) PROVE IInv'
    BY <2>5, RunAgentStep
  <2>6. ASSUME NEW j \in Jobs, Complete(j) PROVE IInv'
    BY <2>6, CompleteStep
  <2>7. ASSUME NEW j \in Jobs, FailJob(j) PROVE IInv'
    BY <2>7, FailJobStep
  <2>8. CASE UNCHANGED vars
    BY <2>8 DEF vars, jobVars, IInv, Types, NoOverlap, Counted, TimersStarted
  <2> QED BY <2>1, <2>2, <2>3, <2>4, <2>5, <2>6, <2>7, <2>8 DEF Next
<1> QED BY <1>1, <1>2, PTL DEF Safe

-----------------------------------------------------------------------------
\* The state of the scheduler keeps its types and stays within its limits: no job has
\* more timers than start() was called, none is counted above maxRuns.
THEOREM TypeCorrect == Safe => []TypeOK
<1>1. IInv => TypeOK
  BY BoundsAssumption DEF IInv, Types, NoOverlap, Counted, TimersStarted, TypeOK
<1> QED BY <1>1, Invariance, PTL

\* However ticks, direct runJob calls, stops and restarts interleave, a job has at most one
\* run under way, and has one exactly when inFlight names it.
THEOREM OneRunAtATime == Safe => []NoOverlap
<1>1. IInv => NoOverlap
  BY DEF IInv
<1> QED BY <1>1, Invariance, PTL

\* The runs that succeeded and the one under way never exceed maxRuns, over any number of
\* stops and restarts.
THEOREM RunLimit == Safe => []RunsCapped
<1>1. IInv => RunsCapped
  <2> SUFFICES ASSUME IInv, NEW j \in Jobs
               PROVE  succeeded[j] + awaiting[j] + running[j] <= MaxRuns
    BY DEF RunsCapped
  <2>1. /\ succeeded[j] \in Nat /\ awaiting[j] \in Nat
        /\ running[j] \in Nat /\ runCounts[j] \in Nat
    BY DEF IInv, Types
  <2>2. succeeded[j] + awaiting[j] + running[j] <= runCounts[j] /\ runCounts[j] <= MaxRuns
    BY DEF IInv, Counted
  <2> QED BY <2>1, <2>2, BoundsAssumption
<1> QED BY <1>1, Invariance, PTL

\* A stopped runtime admits no run, from a late tick or from a direct call of runJob; what is
\* under way ends, or goes from its input to the agent.
THEOREM StopBlocks == Safe => StoppedOnlyDrains
<1> DEFINE Drains(j) == /\ runCounts'[j] = runCounts[j]
                        /\ awaiting'[j] <= awaiting[j]
                        /\ awaiting'[j] + running'[j] <= awaiting[j] + running[j]
<1>1. ASSUME IInv, [Next]_vars, stopped, NEW j \in Jobs
      PROVE  Drains(j)
  <2>1. awaiting[j] \in Nat /\ running[j] \in Nat
    BY <1>1 DEF IInv, Types
  <2>2. awaiting \in [Jobs -> Nat] /\ running \in [Jobs -> Nat]
    BY <1>1 DEF IInv, Types
  <2>3. CASE UNCHANGED vars
    BY <2>1, <2>3 DEF vars, jobVars
  <2>4. CASE Start \/ Stop
    BY <2>1, <2>4 DEF Start, Stop, jobVars
  <2>5. ASSUME NEW k \in Jobs, Tick(k) \/ Invoke(k)
        PROVE  FALSE
    BY <1>1, <2>5 DEF Tick, Invoke, RunJob, Admissible
  <2>6. ASSUME NEW k \in Jobs, RunAgent(k)
        PROVE  Drains(j)
    BY <2>1, <2>2, <2>6 DEF RunAgent
  <2>7. ASSUME NEW k \in Jobs, Complete(k)
        PROVE  Drains(j)
    BY <2>1, <2>2, <2>7 DEF Complete
  <2>8. ASSUME NEW k \in Jobs, FailJob(k)
        PROVE  Drains(j)
    BY <2>1, <2>2, <2>8 DEF FailJob
  <2> QED
    BY <1>1, <2>3, <2>4, <2>5, <2>6, <2>7, <2>8 DEF Next
<1>2. IInv /\ [Next]_vars => (stopped => \A j \in Jobs : Drains(j))
  <2> HIDE DEF Drains
  <2> QED
    BY <1>1
<1> QED
  BY <1>2, Invariance, PTL DEF Safe, StoppedOnlyDrains

-----------------------------------------------------------------------------
(* The process around the scheduler. *)

\* A daemon (heads/daemon, heads/trading-agent, heads/walrus-demo) uses the scheduler as it
\* is meant to be used: every step of the process is one of the scheduler's or leaves it
\* alone, so that the theorems above hold in it.
THEOREM DaemonIsScheduler == DSpec => Safe
<1>1. DInit => Init
  BY DEF DInit
<1>2. [DNext]_dvars => [Next]_vars
  BY DEF DNext, Boot, Work, Signal, Exit, Gone, Next, dvars, vars
<1> QED
  BY <1>1, <1>2, PTL DEF DSpec, Safe

\* From the signal on, the scheduler is stopped.
SignalledIsStopped ==
  process \in {"booting", "up", "stopping", "exited"} /\ (Signalled => stopped)

\* After SIGINT or SIGTERM (heads/daemon/src/main.ts) no job is taken up, whatever ticks were
\* due: the process waits for nothing, but starts nothing either.
THEOREM SignalIsRespected == DSpec => NothingBeginsAfterSignal
<1>1. DInit => SignalledIsStopped
  BY DEF DInit, Signalled, SignalledIsStopped
<1>2. SignalledIsStopped /\ [DNext]_dvars => SignalledIsStopped'
  BY DEF Signalled, SignalledIsStopped, DNext, Boot, Work, Signal, Exit, Gone, dvars, vars, jobVars,
         Start, Stop, Tick, RunJob, Admissible, RunAgent, Complete, FailJob
<1>3. SignalledIsStopped /\ [DNext]_dvars =>
        [Signalled => Signalled' /\ runCounts' = runCounts /\ inFlight' \subseteq inFlight]_dvars
  BY DEF Signalled, SignalledIsStopped, DNext, Boot, Work, Signal, Exit, Gone, dvars, vars, jobVars,
         Start, Stop, Tick, RunJob, Admissible, RunAgent, Complete, FailJob
<1> QED
  BY <1>1, <1>2, <1>3, PTL DEF DSpec, NothingBeginsAfterSignal
=============================================================================
