-------------------------------- MODULE Budget --------------------------------
(***************************************************************************)
(* budgetMiddleware (packages/core/src/middleware/budget.ts): one pair of  *)
(* counters per middleware, shared by every run of the agent it is         *)
(* installed in.  The check and the call counter come before the await of  *)
(* the model call, the token counter after it.                             *)
(***************************************************************************)
EXTENDS Integers, FiniteSets

CONSTANTS
  Runs,        \* the runs of the agent
  MaxCalls,    \* opts.maxCalls
  MaxTokens,   \* opts.maxTokens
  MaxUse       \* bound: the most tokens that one model call uses

ASSUME LimitsAssumption == /\ MaxCalls \in Nat \ {0} /\ MaxTokens \in Nat \ {0}
                           /\ MaxUse \in Nat
ASSUME RunsAssumption == IsFiniteSet(Runs)

VARIABLES
  perTurn,       \* does the head run one turn at a time and reset() before each
  pc,            \* "idle", "ready" between model calls, "calling", "ended", "refused"
  totalCalls,    \* the middleware's counters
  totalTokens,
  calls,         \* what each run has used itself: model calls made ...
  tokens         \* ... and tokens reported for them

vars == <<perTurn, pc, totalCalls, totalTokens, calls, tokens>>

Init == /\ perTurn \in BOOLEAN
        /\ pc = [r \in Runs |-> "idle"]
        /\ totalCalls = 0
        /\ totalTokens = 0
        /\ calls = [r \in Runs |-> 0]
        /\ tokens = [r \in Runs |-> 0]

-----------------------------------------------------------------------------
Active(r) == pc[r] \in {"ready", "calling"}
Calling == {r \in Runs : pc[r] = "calling"}

\* A bug: reset() forgets the token counter.
Reset_CallsOnly == totalCalls' = 0 /\ UNCHANGED totalTokens

\* reset(): the REPL head calls it before each agent.run.
Reset == totalCalls' = 0 /\ totalTokens' = 0

Begin(r) ==
  /\ pc[r] = "idle"
  /\ pc' = [pc EXCEPT ![r] = "ready"]
  /\ IF perTurn THEN (\A o \in Runs : ~Active(o)) /\ Reset
                 ELSE UNCHANGED <<totalCalls, totalTokens>>
  /\ UNCHANGED <<perTurn, calls, tokens>>

\* A bug: the token limit is not looked at.
Exceeded_CallsOnly == totalCalls >= MaxCalls

\* A bug: the call limit lets one more call through.
Exceeded_OneMore == totalCalls > MaxCalls \/ totalTokens > MaxTokens

\* The checks before the call.
Exceeded == totalCalls >= MaxCalls \/ totalTokens > MaxTokens

\* The middleware lets a model call through: totalCalls++, then the await.
CallModel(r) ==
  /\ pc[r] = "ready"
  /\ ~Exceeded
  /\ totalCalls' = totalCalls + 1
  /\ calls' = [calls EXCEPT ![r] = @ + 1]
  /\ pc' = [pc EXCEPT ![r] = "calling"]
  /\ UNCHANGED <<perTurn, totalTokens, tokens>>

\* BudgetError: the run is terminated, not fed back to the model.
Refuse(r) ==
  /\ pc[r] = "ready"
  /\ Exceeded
  /\ pc' = [pc EXCEPT ![r] = "refused"]
  /\ UNCHANGED <<perTurn, totalCalls, totalTokens, calls, tokens>>

\* The model answers: its usage (0 when the provider reports none) is added.
Return(r, used) ==
  /\ pc[r] = "calling"
  /\ totalTokens' = totalTokens + used
  /\ tokens' = [tokens EXCEPT ![r] = @ + used]
  /\ pc' = [pc EXCEPT ![r] = "ready"]
  /\ UNCHANGED <<perTurn, totalCalls, calls>>

\* The model call rejects: it stays counted, its tokens are unknown, the run fails.
CallFails(r) ==
  /\ pc[r] = "calling"
  /\ pc' = [pc EXCEPT ![r] = "ended"]
  /\ UNCHANGED <<perTurn, totalCalls, totalTokens, calls, tokens>>

\* The run ends for a reason of its own (an answer, MaxStepsError).
End(r) ==
  /\ pc[r] = "ready"
  /\ calls[r] > 0
  /\ pc' = [pc EXCEPT ![r] = "ended"]
  /\ UNCHANGED <<perTurn, totalCalls, totalTokens, calls, tokens>>

AllOver == /\ \A r \in Runs : pc[r] \in {"ended", "refused"}
           /\ UNCHANGED vars

Next == \/ \E r \in Runs : \/ Begin(r) \/ CallModel(r) \/ Refuse(r)
                           \/ (\E used \in 0..MaxUse : Return(r, used))
                           \/ CallFails(r) \/ End(r)
        \/ AllOver

Spec == Init /\ [][Next]_vars

-----------------------------------------------------------------------------
TypeOK ==
  /\ perTurn \in BOOLEAN
  /\ pc \in [Runs -> {"idle", "ready", "calling", "ended", "refused"}]
  /\ totalCalls \in Nat
  /\ totalTokens \in Nat
  /\ calls \in [Runs -> Nat]
  /\ tokens \in [Runs -> Nat]

\* "Hard cap on the total number of model calls": no interleaving of concurrent runs
\* makes more of them than maxCalls, so none makes more by itself.
CallsCapped == totalCalls <= MaxCalls /\ \A r \in Runs : calls[r] <= MaxCalls

\* "The call that first tips over the limit executes; subsequent calls are blocked":
\* with concurrent runs every call then in flight may tip it over, and no other, so the
\* overshoot is bounded by one call per run.
OvershootBounded ==
  totalTokens + Cardinality(Calling) * MaxUse <= MaxTokens + Cardinality(Runs) * MaxUse

\* budget.ts:8 and 19: the limits are those of "a single agent run", so a run is refused
\* only for what it used itself.  That takes a head that runs one turn at a time and
\* resets before each, as the REPL does (heads/cli/src/main.ts:992); a head that does
\* neither has limits for the life of the process.
RefusedForOwnUse ==
  perTurn => \A r \in Runs : pc[r] = "refused" => calls[r] >= MaxCalls \/ tokens[r] > MaxTokens
=============================================================================
