-------------------------------- MODULE Daemon --------------------------------
(***************************************************************************)
(* A head that runs the scheduler as a process (heads/daemon, and in the   *)
(* same form heads/trading-agent and heads/walrus-demo): it starts the     *)
(* runtime once; SIGINT or SIGTERM stops it and then exits the process.    *)
(***************************************************************************)
EXTENDS Runtime

VARIABLE process   \* "booting", "up", "stopping" between stop() and exit, "exited"

dvars == <<vars, process>>

DInit == Init /\ process = "booting"

\* main: runtime.start().
Boot == /\ process = "booting"
        /\ Start
        /\ process' = "up"

\* The scheduler's own steps; a daemon never calls runJob, start or stop itself.
Work == /\ process \in {"up", "stopping"}
        /\ \E j \in Jobs : Tick(j) \/ RunAgent(j) \/ Complete(j) \/ FailJob(j)
        /\ UNCHANGED process

\* shutdown(): await runtime.stop().
Signal == /\ process = "up"
          /\ Stop
          /\ process' = "stopping"

\* process.exit(0), as soon as stop() has resolved.
Exit == /\ process = "stopping"
        /\ process' = "exited"
        /\ UNCHANGED vars

\* The process is gone.
Gone == process = "exited" /\ UNCHANGED dvars

DNext == Boot \/ Work \/ Signal \/ Exit \/ Gone

DSpec == DInit /\ [][DNext]_dvars

-----------------------------------------------------------------------------
\* The runtime's "In-flight runs complete naturally" (runtime/src/index.ts:133) and the
\* head's "Graceful SIGINT/SIGTERM shutdown" (heads/daemon/src/main.ts:7): the process does
\* not exit under a run.  Checked on its own; stop() does not wait for the runs.
ExitsIdle == process = "exited" => inFlight = {}

\* What the graceful shutdown does give: from the signal on no job is taken up, though a
\* tick may be queued when stop() runs (runtime/src/index.ts:76); what has been taken up, and
\* waits for its input or its run, goes on.  The process does not come back.
Signalled == process \in {"stopping", "exited"}
NothingBeginsAfterSignal ==
  [][Signalled => Signalled' /\ runCounts' = runCounts /\ inFlight' \subseteq inFlight]_dvars
=============================================================================
