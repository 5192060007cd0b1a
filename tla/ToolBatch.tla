------------------------------ MODULE ToolBatch ------------------------------
(***************************************************************************)
(* The ACT phase of one ReAct step: runLoop in packages/core/src/loop.ts.  *)
(* The calls of one model response run as concurrent async functions; each *)
(* takes all its resource locks at once or waits, with Promise.race, for   *)
(* any of the promises that hold one of them, and retries.                 *)
(*                                                                         *)
(* JavaScript runs each piece of code between two awaits without           *)
(* interruption: one action here is one such piece.  The order in which    *)
(* ready continuations run is left open.                                   *)
(***************************************************************************)
EXTENDS Naturals

CONSTANTS NCalls,   \* how many calls the model response carries
          Locks     \* the resource lock keys tools may declare

ASSUME NCallsAssumption == NCalls \in Nat \ {0}

Calls == 1..NCalls
NoCall == 0         \* no promise is registered under a lock

VARIABLES
  batch,         \* response.toolCalls: is each tool registered, and its locks
  state,         \* where each call's async function is suspended
  lockPromises,  \* Map<lock, promise>; a promise is named by the call that made it
  racing,        \* the promises a waiting call gave to Promise.race
  toolResults,   \* toolResults[index]
  phase          \* the run: "acting", then "observed" or "rejected"

vars == <<batch, state, lockPromises, racing, toolResults, phase>>

States == {"unmapped", "waiting", "woken", "granted", "executing", "done", "threw"}
Results == {"none", "ok", "error"}
Requests == [known : BOOLEAN, locks : SUBSET Locks]

Init == /\ batch \in [Calls -> Requests]
        /\ state = [c \in Calls |-> "unmapped"]
        /\ lockPromises = [l \in Locks |-> NoCall]
        /\ racing = [c \in Calls |-> {}]
        /\ toolResults = [c \in Calls |-> "none"]
        /\ phase = "acting"

-----------------------------------------------------------------------------
\* toolCalls.map starts the calls in request order, without a pause between them.
Mapped == \A c \in Calls : state[c] # "unmapped"
NextToMap(c) == /\ state[c] = "unmapped"
                /\ \A d \in Calls : d < c => state[d] # "unmapped"

\* A bug: the wait is followed by no second look at the lock table.
Conflicting_NoRecheck(c) ==
  IF state[c] = "woken" THEN {}
  ELSE {lockPromises[l] : l \in batch[c].locks} \ {NoCall}

\* A bug: the undefined entries of free locks are not filtered out.
Conflicting_NoFilter(c) == {lockPromises[l] : l \in batch[c].locks}

\* The promises registered under the locks of call c.
Conflicting(c) == {lockPromises[l] : l \in batch[c].locks} \ {NoCall}

\* One iteration of acquireLocks: take every lock at once ...
Acquire(c) ==
  /\ Conflicting(c) = {}
  /\ lockPromises' = [l \in Locks |-> IF l \in batch[c].locks THEN c ELSE lockPromises[l]]
  /\ state' = [state EXCEPT ![c] = "granted"]
  /\ racing' = [racing EXCEPT ![c] = {}]

\* A bug: a call keeps the free locks it found while it waits for the others.
Wait_Hold(c) ==
  /\ Conflicting(c) # {}
  /\ lockPromises' = [l \in Locks |-> IF l \in batch[c].locks /\ lockPromises[l] = NoCall
                                      THEN c ELSE lockPromises[l]]
  /\ state' = [state EXCEPT ![c] = "waiting"]
  /\ racing' = [racing EXCEPT ![c] = Conflicting(c)]

\* ... or wait for whichever of the conflicting promises settles first.
Wait(c) ==
  /\ Conflicting(c) # {}
  /\ state' = [state EXCEPT ![c] = "waiting"]
  /\ racing' = [racing EXCEPT ![c] = Conflicting(c)]
  /\ UNCHANGED lockPromises

\* ctx.tools.get(call.name) throws for an unregistered tool: this call's promise rejects.
Unknown(c) ==
  /\ ~batch[c].known
  /\ state' = [state EXCEPT ![c] = "threw"]
  /\ UNCHANGED <<lockPromises, racing>>

\* The synchronous head of one call's async function.
Map(c) ==
  /\ NextToMap(c)
  /\ Unknown(c) \/ (batch[c].known /\ (Acquire(c) \/ Wait(c)))
  /\ UNCHANGED <<batch, toolResults, phase>>

\* The race settled: the for (;;) of acquireLocks goes round again.
Retry(c) ==
  /\ Mapped
  /\ state[c] = "woken"
  /\ Acquire(c) \/ Wait(c)
  /\ UNCHANGED <<batch, toolResults, phase>>

\* executeToolCall begins, one microtask after the locks were taken.
Execute(c) ==
  /\ Mapped
  /\ state[c] = "granted"
  /\ state' = [state EXCEPT ![c] = "executing"]
  /\ UNCHANGED <<batch, lockPromises, racing, toolResults, phase>>

\* A bug: the release resumes one of the waiting calls only.
Resolved_One(c) ==
  LET waiters == {d \in Calls : state[d] = "waiting" /\ c \in racing[d]}
  IN  [d \in Calls |->
         IF d = c THEN "done"
         ELSE IF d \in waiters /\ \A e \in waiters : d <= e THEN "woken" ELSE state[d]]

\* resolve(): every call that raced on this call's promise becomes runnable.
Resolved(c) ==
  [d \in Calls |->
     IF d = c THEN "done"
     ELSE IF state[d] = "waiting" /\ c \in racing[d] THEN "woken" ELSE state[d]]

\* A bug: a tool that throws skips the release.
Released_OnSuccess(c) ==
  [l \in Locks |-> IF lockPromises[l] = c /\ toolResults'[c] = "ok"
                   THEN NoCall ELSE lockPromises[l]]

\* releaseLocks: drop the entries that are still this call's own promise.
Released(c) ==
  [l \in Locks |-> IF l \in batch[c].locks /\ lockPromises[l] = c
                   THEN NoCall ELSE lockPromises[l]]

\* The tool returned or threw: executeToolCall turns either into a result, the
\* result is stored at the call's index and, in the finally, the locks are freed.
Finish(c, result) ==
  /\ state[c] = "executing"
  /\ toolResults' = [toolResults EXCEPT ![c] = result]
  /\ lockPromises' = Released(c)
  /\ state' = Resolved(c)
  /\ UNCHANGED <<batch, racing, phase>>

\* Promise.all fulfils: every result is pushed to the transcript.
Observe ==
  /\ phase = "acting"
  /\ \A c \in Calls : state[c] = "done"
  /\ phase' = "observed"
  /\ UNCHANGED <<batch, state, lockPromises, racing, toolResults>>

\* Promise.all rejects as soon as one call rejects: runLoop throws, and the other
\* calls of the batch go on without it.
Reject ==
  /\ phase = "acting"
  /\ Mapped
  /\ \E c \in Calls : state[c] = "threw"
  /\ phase' = "rejected"
  /\ UNCHANGED <<batch, state, lockPromises, racing, toolResults>>

\* The batch is over: nothing of it is left to run.
Settled ==
  /\ phase # "acting"
  /\ \A c \in Calls : state[c] \in {"done", "threw"}
  /\ UNCHANGED vars

Call(c) == \/ Map(c) \/ Retry(c) \/ Execute(c)
           \/ \E result \in {"ok", "error"} : Finish(c, result)

Next == (\E c \in Calls : Call(c)) \/ Observe \/ Reject \/ Settled

\* The JavaScript job queue runs every ready continuation.  That a tool's execute
\* settles is an assumption on the tools: the kernel puts no time limit on them.
Fairness ==
  /\ \A c \in Calls : /\ WF_vars(Map(c) \/ Retry(c) \/ Execute(c))
                      /\ WF_vars(\E result \in {"ok", "error"} : Finish(c, result))
  /\ WF_vars(Observe)
  /\ WF_vars(Reject)

Safe == Init /\ [][Next]_vars
Spec == Safe /\ Fairness

-----------------------------------------------------------------------------
TypeOK ==
  /\ batch \in [Calls -> Requests]
  /\ state \in [Calls -> States]
  /\ lockPromises \in [Locks -> Calls \cup {NoCall}]
  /\ racing \in [Calls -> SUBSET Calls]
  /\ toolResults \in [Calls -> Results]
  /\ phase \in {"acting", "observed", "rejected"}

Holding(c) == state[c] \in {"granted", "executing"}

\* Two calls that share a lock key are never both between acquireLocks and
\* releaseLocks: Tool.locks "will be serialized rather than executed concurrently".
MutualExclusion ==
  \A c, d \in Calls :
    c # d /\ Holding(c) /\ Holding(d) => batch[c].locks \cap batch[d].locks = {}

\* The lock table names exactly the calls between acquireLocks and releaseLocks:
\* no lock outlives its holder, whatever the tool did, and none is held off the books.
TableMatchesHolders ==
  \A l \in Locks, c \in Calls :
    lockPromises[l] = c <=> Holding(c) /\ l \in batch[c].locks

\* A suspended call has someone to wake it: each promise it races on belongs to a call
\* that still holds one of its locks (and so will resolve it), and there is one.
NoLostWakeup ==
  \A c \in Calls : state[c] = "waiting" =>
    /\ racing[c] # {}
    /\ \A d \in racing[c] : Holding(d) /\ batch[c].locks \cap batch[d].locks # {}

\* What is pushed to the transcript has a result for every requested call: the model
\* never sees a batch with a hole in it (Promise.all, then messages.push).
ObservesEveryResult ==
  phase = "observed" => \A c \in Calls : toolResults[c] # "none"

\* Every call of a registered tool returns, also after the run itself was rejected:
\* no interleaving of acquire, wait and release leaves a call waiting for ever.
EveryKnownCallReturns == \A c \in Calls : batch[c].known ~> state[c] = "done"

\* loop.ts:62 and docs/ARCHITECTURE.md:189: a failed tool call becomes an observation,
\* "no crash".  Checked on its own; a call of an unregistered tool refutes it.
ErrorsAreObservations == phase # "rejected"

-----------------------------------------------------------------------------
AbstractStatus ==
  [c \in Calls |-> CASE state[c] \in {"unmapped", "waiting", "woken"} -> "pending"
                     [] state[c] \in {"granted", "executing"} -> "running"
                     [] state[c] = "done" -> "returned"
                     [] OTHER -> "refused"]

Serial == INSTANCE SerialTools WITH status <- AbstractStatus

\* The lock protocol implements SerialTools, its liveness included.
ImplementsSerialTools == Serial!ASpec
=============================================================================
