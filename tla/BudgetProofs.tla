----------------------------- MODULE BudgetProofs -----------------------------
(***************************************************************************)
(* The two limits of Budget, proved for every number of concurrent runs    *)
(* and every limit.                                                        *)
(***************************************************************************)
EXTENDS Budget, FiniteSetTheorems, TLAPS

\* A run's own calls are among those the shared counter has seen since the run began,
\* and in a REPL head nobody resets the counter under an active run.
OwnCallsCounted ==
  /\ \A r \in Runs : pc[r] = "idle" => calls[r] = 0
  /\ \A r \in Runs : Active(r) => calls[r] <= totalCalls
  /\ perTurn => \A r, o \in Runs : Active(r) /\ Active(o) => r = o

IInv == TypeOK /\ CallsCapped /\ OwnCallsCounted /\ OvershootBounded

-----------------------------------------------------------------------------
\* The runs in flight are finitely many, at most all.
LEMMA CallingBound ==
  ASSUME NEW S \in SUBSET Runs
  PROVE  /\ IsFiniteSet(S) /\ Cardinality(S) \in Nat /\ Cardinality(Runs) \in Nat
         /\ Cardinality(S) <= Cardinality(Runs)
  BY RunsAssumption, FS_Subset, FS_CardinalityType

\* More calls in flight may use more tokens.
LEMMA Scaled ==
  ASSUME NEW m \in Nat, NEW n \in Nat, m <= n
  PROVE  m * MaxUse <= n * MaxUse
  BY LimitsAssumption

\* What one more call in flight may still use.
LEMMA Products ==
  ASSUME NEW n \in Nat
  PROVE  n * MaxUse \in Nat /\ (n + 1) * MaxUse = n * MaxUse + MaxUse
  BY LimitsAssumption

\* Before the first call nothing is used and nothing is in flight.
LEMMA InitInv == Init => IInv
<1> SUFFICES ASSUME Init PROVE IInv
  OBVIOUS
<1>1. TypeOK /\ CallsCapped /\ OwnCallsCounted
  BY LimitsAssumption DEF Init, TypeOK, CallsCapped, OwnCallsCounted, Active
<1>2. OvershootBounded
  <2>1. Calling \subseteq Runs
    BY DEF Calling
  <2>2. Cardinality(Calling) * MaxUse <= Cardinality(Runs) * MaxUse
    BY <2>1, CallingBound, Scaled
  <2> QED
    BY <2>1, <2>2, CallingBound, Products, LimitsAssumption DEF Init, OvershootBounded
<1> QED
  BY <1>1, <1>2 DEF IInv

\* A call is let through while the counters are within the limits, so whatever is then
\* in flight overshoots by a call per run at most.
LEMMA CallModelInv ==
  ASSUME IInv, NEW r \in Runs, CallModel(r)
  PROVE  IInv'
<1> USE DEF IInv, CallModel
<1>1. TypeOK'
  BY DEF TypeOK
<1>2. CallsCapped' /\ OwnCallsCounted'
  BY LimitsAssumption DEF TypeOK, CallsCapped, OwnCallsCounted, Active, Exceeded
<1>3. OvershootBounded'
  <2>1. Calling' \subseteq Runs
    BY DEF Calling
  <2>2. Cardinality(Calling') * MaxUse <= Cardinality(Runs) * MaxUse
    BY <2>1, CallingBound, Scaled
  <2>3. totalTokens' <= MaxTokens
    BY LimitsAssumption DEF Exceeded, TypeOK
  <2> QED
    BY <1>1, <2>1, <2>2, <2>3, CallingBound, Products, LimitsAssumption
    DEF OvershootBounded, TypeOK, Calling
<1> QED
  BY <1>1, <1>2, <1>3

\* A call leaves the set in flight, and brings at most its share of tokens.
LEMMA LeaveInv ==
  ASSUME IInv, TypeOK', NEW r \in Runs, pc[r] = "calling",
         NEW s \in {"ready", "ended"}, pc' = [pc EXCEPT ![r] = s],
         NEW used \in 0..MaxUse, totalTokens' = totalTokens + used
  PROVE  OvershootBounded'
<1> USE DEF IInv
<1> DEFINE n == Cardinality(Calling')
<1>1. r \in Calling /\ Calling' = Calling \ {r} /\ Calling \in SUBSET Runs /\ Calling' \in SUBSET Runs
  BY DEF Calling, TypeOK
<1>2. n \in Nat /\ Cardinality(Calling) = n + 1 /\ Cardinality(Runs) \in Nat
  BY <1>1, CallingBound, FS_RemoveElement
<1>3. Cardinality(Calling) * MaxUse = n * MaxUse + MaxUse
  BY <1>2, Products
<1>4. n * MaxUse \in Nat /\ Cardinality(Runs) * MaxUse \in Nat
  BY <1>2, Products
<1> HIDE DEF n
<1>5. totalTokens + n * MaxUse + MaxUse <= MaxTokens + Cardinality(Runs) * MaxUse
  BY <1>2, <1>3, <1>4, LimitsAssumption DEF OvershootBounded, TypeOK
<1>6. totalTokens' + n * MaxUse <= MaxTokens + Cardinality(Runs) * MaxUse
  BY <1>4, <1>5, LimitsAssumption DEF TypeOK
<1> QED
  BY <1>6 DEF OvershootBounded, n

\* An answer adds its tokens and takes its call out of flight.
LEMMA ReturnInv ==
  ASSUME IInv, NEW r \in Runs, NEW used \in 0..MaxUse, Return(r, used)
  PROVE  IInv'
<1>1. TypeOK'
  BY LimitsAssumption DEF IInv, TypeOK, Return
<1>2. CallsCapped' /\ OwnCallsCounted'
  BY DEF IInv, TypeOK, CallsCapped, OwnCallsCounted, Active, Return
<1>3. OvershootBounded'
  BY <1>1, LeaveInv DEF Return
<1> QED
  BY <1>1, <1>2, <1>3 DEF IInv

\* A failed call adds no tokens.
LEMMA CallFailsInv ==
  ASSUME IInv, NEW r \in Runs, CallFails(r)
  PROVE  IInv'
<1>1. TypeOK'
  BY DEF IInv, TypeOK, CallFails
<1>2. CallsCapped' /\ OwnCallsCounted'
  BY DEF IInv, TypeOK, CallsCapped, OwnCallsCounted, Active, CallFails
<1>3. totalTokens' = totalTokens + 0 /\ 0 \in 0..MaxUse
  BY LimitsAssumption DEF IInv, TypeOK, CallFails
<1>4. OvershootBounded'
  BY <1>1, <1>3, LeaveInv DEF CallFails
<1> QED
  BY <1>1, <1>2, <1>4 DEF IInv

\* The steps that leave the set of calls in flight alone.
LEMMA BeginInv ==
  ASSUME IInv, NEW r \in Runs, Begin(r)
  PROVE  IInv'
<1> USE DEF IInv, Begin, Reset
<1>1. TypeOK'
  BY DEF TypeOK
<1>2. CallsCapped' /\ OwnCallsCounted'
  BY LimitsAssumption DEF TypeOK, CallsCapped, OwnCallsCounted, Active
<1>3. Calling' = Calling /\ totalTokens' <= totalTokens /\ Calling \in SUBSET Runs
  BY DEF Calling, TypeOK
<1>4. OvershootBounded'
  BY <1>1, <1>3, CallingBound, Products, LimitsAssumption DEF OvershootBounded, TypeOK
<1> QED
  BY <1>1, <1>2, <1>4

\* A run that is refused or ends has no call in flight.
LEMMA StopInv ==
  ASSUME IInv, NEW r \in Runs, Refuse(r) \/ End(r)
  PROVE  IInv'
<1> USE DEF IInv, Refuse, End
<1>1. TypeOK'
  BY DEF TypeOK
<1>2. CallsCapped' /\ OwnCallsCounted'
  BY DEF TypeOK, CallsCapped, OwnCallsCounted, Active
<1>3. Calling' = Calling
  BY DEF Calling, TypeOK
<1>4. OvershootBounded'
  BY <1>3 DEF OvershootBounded
<1> QED
  BY <1>1, <1>2, <1>4

\* Every step keeps the invariant.
LEMMA StepInv == IInv /\ [Next]_vars => IInv'
<1> SUFFICES ASSUME IInv, [Next]_vars PROVE IInv'
  OBVIOUS
<1>1. CASE AllOver \/ UNCHANGED vars
  <2>1. TypeOK' /\ CallsCapped' /\ OwnCallsCounted'
    BY <1>1 DEF IInv, TypeOK, CallsCapped, OwnCallsCounted, Active, AllOver, vars
  <2>2. Calling' = Calling /\ totalTokens' = totalTokens
    BY <1>1 DEF Calling, AllOver, vars
  <2>3. OvershootBounded'
    BY <2>2 DEF IInv, OvershootBounded
  <2> QED BY <2>1, <2>3 DEF IInv
<1> QED
  BY <1>1, BeginInv, CallModelInv, ReturnInv, CallFailsInv, StopInv DEF Next

-----------------------------------------------------------------------------
\* The inductive invariant holds in every reachable state.
THEOREM Invariance == Spec => []IInv
  BY InitInv, StepInv, PTL DEF Spec

\* The counters are natural numbers, whatever calls fail.
THEOREM TypeCorrect == Spec => []TypeOK
  BY Invariance, PTL DEF IInv

\* No interleaving of concurrent runs makes more model calls than maxCalls.
THEOREM CallCap == Spec => []CallsCapped
  BY Invariance, PTL DEF IInv

\* The token limit is overshot by at most one call of each concurrent run.
THEOREM TokenOvershoot == Spec => []OvershootBounded
  BY Invariance, PTL DEF IInv

-----------------------------------------------------------------------------
\* In a REPL head the counters are those of the one active run.
CountersAreOwn ==
  perTurn =>
  /\ \A r \in Runs : pc[r] = "idle" => calls[r] = 0 /\ tokens[r] = 0
  /\ \A r \in Runs : Active(r) => totalCalls = calls[r] /\ totalTokens = tokens[r]
  /\ \A r, o \in Runs : Active(r) /\ Active(o) => r = o

\* With one turn at a time and a reset before each, every step keeps the counters own.
LEMMA OwnStep ==
  ASSUME TypeOK, CountersAreOwn, RefusedForOwnUse, [Next]_vars
  PROVE  CountersAreOwn' /\ RefusedForOwnUse'
<1> USE DEF TypeOK, CountersAreOwn, RefusedForOwnUse, Active
<1>1. ASSUME NEW r \in Runs, Begin(r) PROVE CountersAreOwn' /\ RefusedForOwnUse'
  BY <1>1 DEF Begin, Reset
<1>2. ASSUME NEW r \in Runs, CallModel(r) PROVE CountersAreOwn' /\ RefusedForOwnUse'
  BY <1>2, LimitsAssumption DEF CallModel
<1>3. ASSUME NEW r \in Runs, Refuse(r) PROVE CountersAreOwn' /\ RefusedForOwnUse'
  BY <1>3 DEF Refuse, Exceeded
<1>4. ASSUME NEW r \in Runs, NEW used \in 0..MaxUse, Return(r, used)
      PROVE  CountersAreOwn' /\ RefusedForOwnUse'
  BY <1>4, LimitsAssumption DEF Return
<1>5. ASSUME NEW r \in Runs, CallFails(r) \/ End(r)
      PROVE  CountersAreOwn' /\ RefusedForOwnUse'
  BY <1>5 DEF CallFails, End
<1>6. CASE AllOver \/ UNCHANGED vars
  BY <1>6 DEF AllOver, vars
<1> QED
  BY <1>1, <1>2, <1>3, <1>4, <1>5, <1>6 DEF Next

\* In a head that runs one turn at a time and resets before each, a run is refused only
\* for the calls and tokens it used itself.
THEOREM PerRunLimits == Spec => []RefusedForOwnUse
<1>1. Init => CountersAreOwn /\ RefusedForOwnUse
  BY DEF Init, CountersAreOwn, RefusedForOwnUse, Active
<1>2. TypeOK /\ CountersAreOwn /\ RefusedForOwnUse /\ [Next]_vars
        => CountersAreOwn' /\ RefusedForOwnUse'
  BY OwnStep
<1> QED
  BY <1>1, <1>2, TypeCorrect, PTL DEF Spec
=============================================================================
