--------------------------- MODULE ToolBatchProofs ---------------------------
(***************************************************************************)
(* Machine-checked facts about ToolBatch, for any number of calls and any  *)
(* set of locks.  The inductive invariant is TypeOK, the agreement of the  *)
(* lock table with the calls that hold locks, and two local facts; mutual  *)
(* exclusion follows because a table entry names one call only.            *)
(***************************************************************************)
EXTENDS ToolBatch, TLAPS

\* A call is done exactly with its result, and only a batch of done calls is observed.
ResultsFollowCalls ==
  /\ \A c \in Calls : state[c] = "done" => toolResults[c] # "none"
  /\ phase = "observed" => \A c \in Calls : state[c] = "done"

\* Only a call of an unregistered tool throws, and it never passes Map.
UnknownNeverRuns ==
  \A c \in Calls : state[c] # "unmapped" => (state[c] = "threw" <=> ~batch[c].known)

IInv == /\ TypeOK
        /\ TableMatchesHolders
        /\ NoLostWakeup
        /\ ResultsFollowCalls
        /\ UnknownNeverRuns

-----------------------------------------------------------------------------
\* The promises a call would race on belong to other calls that hold one of its locks.
LEMMA ConflictingAreHolders ==
  ASSUME TypeOK, TableMatchesHolders, NEW c \in Calls, NEW d \in Conflicting(c)
  PROVE  d \in Calls /\ Holding(d) /\ batch[c].locks \cap batch[d].locks # {}
<1>1. PICK l \in batch[c].locks : d = lockPromises[l] /\ d # NoCall
  BY DEF Conflicting
<1>2. l \in Locks
  BY <1>1 DEF TypeOK, Requests
<1>3. d \in Calls
  BY <1>1, <1>2 DEF TypeOK
<1> QED
  BY <1>1, <1>2, <1>3 DEF TableMatchesHolders

\* A call with no conflict finds all its locks free.
LEMMA NoConflictMeansFree ==
  ASSUME NEW c \in Calls, Conflicting(c) = {}, NEW l \in batch[c].locks
  PROVE  lockPromises[l] = NoCall
  BY DEF Conflicting

\* The table determines the holder of each lock, so no two holders share one.
LEMMA TableImpliesMutualExclusion ==
  TypeOK /\ TableMatchesHolders => MutualExclusion
  BY DEF TypeOK, TableMatchesHolders, MutualExclusion, Requests

-----------------------------------------------------------------------------
LEMMA InitInv == Init => IInv
<1> SUFFICES ASSUME Init PROVE IInv
  OBVIOUS
<1>1. TypeOK
  BY DEF Init, TypeOK, States, Results, Calls, NoCall
<1>2. TableMatchesHolders
  BY DEF Init, TableMatchesHolders, Holding, Calls, NoCall
<1> QED
  BY <1>1, <1>2 DEF Init, IInv, NoLostWakeup, ResultsFollowCalls, UnknownNeverRuns

\* Taking every lock at once, from a table in which they are all free.
LEMMA AcquireInv ==
  ASSUME IInv, NEW c \in Calls, state[c] \in {"unmapped", "woken"}, batch[c].known,
         Acquire(c), UNCHANGED <<batch, toolResults, phase>>
  PROVE  IInv'
<1> USE DEF IInv
<1>1. TypeOK'
  BY DEF TypeOK, Acquire, States
<1>2. \A d \in Calls : Holding(d)' <=> Holding(d) \/ d = c
  BY DEF TypeOK, Acquire, Holding
<1>3. TableMatchesHolders'
  <2> SUFFICES ASSUME NEW l \in Locks, NEW d \in Calls
               PROVE  (lockPromises[l] = d <=> Holding(d) /\ l \in batch[d].locks)'
    BY DEF TableMatchesHolders
  <2>1. CASE l \in batch[c].locks
    <3>1. lockPromises[l] = NoCall
      BY <2>1, NoConflictMeansFree DEF Acquire
    <3>2. lockPromises'[l] = c
      BY <2>1 DEF Acquire
    <3>3. ~(Holding(d) /\ l \in batch[d].locks)
      BY <3>1 DEF TableMatchesHolders, Calls, NoCall
    <3> QED
      BY <2>1, <3>2, <3>3, <1>2
  <2>2. CASE l \notin batch[c].locks
    <3>1. lockPromises'[l] = lockPromises[l]
      BY <2>2 DEF Acquire
    <3>2. ~Holding(c)
      BY DEF Holding
    <3> QED
      BY <2>2, <3>1, <3>2, <1>2 DEF TableMatchesHolders
  <2> QED
    BY <2>1, <2>2
<1>4. NoLostWakeup'
  <2> SUFFICES ASSUME NEW d \in Calls, state'[d] = "waiting"
               PROVE  /\ racing'[d] # {}
                      /\ \A e \in racing'[d] : Holding(e)' /\ batch'[d].locks \cap batch'[e].locks # {}
    BY DEF NoLostWakeup
  <2>1. d # c /\ state[d] = "waiting" /\ racing'[d] = racing[d]
    BY DEF Acquire, TypeOK
  <2>2. \A e \in racing[d] : e \in Calls
    BY DEF TypeOK
  <2> QED
    BY <2>1, <2>2, <1>2 DEF NoLostWakeup
<1>5. ResultsFollowCalls' /\ UnknownNeverRuns'
  BY DEF ResultsFollowCalls, UnknownNeverRuns, Acquire, TypeOK
<1> QED
  BY <1>1, <1>3, <1>4, <1>5

\* Waiting touches nothing but the waiter, and what it waits for are lock holders.
LEMMA WaitInv ==
  ASSUME IInv, NEW c \in Calls, state[c] \in {"unmapped", "woken"}, batch[c].known,
         Wait(c), UNCHANGED <<batch, toolResults, phase>>
  PROVE  IInv'
<1> USE DEF IInv
<1>1. \A d \in Conflicting(c) : d \in Calls /\ Holding(d) /\ batch[c].locks \cap batch[d].locks # {}
  BY ConflictingAreHolders
<1>2. TypeOK'
  BY <1>1 DEF TypeOK, Wait, States
<1>3. \A d \in Calls : Holding(d)' <=> Holding(d)
  BY DEF TypeOK, Wait, Holding
<1>4. TableMatchesHolders'
  BY <1>3 DEF TableMatchesHolders, Wait
<1>5. NoLostWakeup'
  <2> SUFFICES ASSUME NEW d \in Calls, state'[d] = "waiting"
               PROVE  /\ racing'[d] # {}
                      /\ \A e \in racing'[d] : Holding(e)' /\ batch'[d].locks \cap batch'[e].locks # {}
    BY DEF NoLostWakeup
  <2>1. CASE d = c
    BY <2>1, <1>1, <1>3 DEF Wait, TypeOK
  <2>2. CASE d # c
    <3>1. state[d] = "waiting" /\ racing'[d] = racing[d] /\ racing[d] \subseteq Calls
      BY <2>2 DEF Wait, TypeOK
    <3> QED
      BY <3>1, <1>3 DEF NoLostWakeup
  <2> QED
    BY <2>1, <2>2
<1>6. ResultsFollowCalls' /\ UnknownNeverRuns'
  BY DEF ResultsFollowCalls, UnknownNeverRuns, Wait, TypeOK
<1> QED
  BY <1>2, <1>4, <1>5, <1>6

LEMMA MapInv ==
  ASSUME IInv, NEW c \in Calls, Map(c)
  PROVE  IInv'
<1>1. CASE Unknown(c)
  <2> USE <1>1 DEF IInv, Map, NextToMap, Unknown
  <2>1. TypeOK'
    BY DEF TypeOK, States
  <2>2. \A d \in Calls : Holding(d)' <=> Holding(d)
    BY DEF TypeOK, Holding
  <2>3. TableMatchesHolders'
    BY <2>2 DEF TableMatchesHolders
  <2>4. NoLostWakeup'
    BY <2>2 DEF NoLostWakeup, TypeOK
  <2>5. ResultsFollowCalls' /\ UnknownNeverRuns'
    BY DEF ResultsFollowCalls, UnknownNeverRuns, TypeOK
  <2> QED
    BY <2>1, <2>3, <2>4, <2>5
<1>2. CASE batch[c].known /\ Acquire(c)
  BY <1>2, AcquireInv DEF Map, NextToMap
<1>3. CASE batch[c].known /\ Wait(c)
  BY <1>3, WaitInv DEF Map, NextToMap
<1> QED
  BY <1>1, <1>2, <1>3 DEF Map

LEMMA RetryInv ==
  ASSUME IInv, NEW c \in Calls, Retry(c)
  PROVE  IInv'
<1>1. batch[c].known
  BY DEF IInv, UnknownNeverRuns, Retry
<1> QED
  BY <1>1, AcquireInv, WaitInv DEF Retry

LEMMA ExecuteInv ==
  ASSUME IInv, NEW c \in Calls, Execute(c)
  PROVE  IInv'
<1> USE DEF IInv, Execute
<1>1. TypeOK'
  BY DEF TypeOK, States
<1>2. \A d \in Calls : Holding(d)' <=> Holding(d)
  BY DEF TypeOK, Holding
<1>3. TableMatchesHolders'
  BY <1>2 DEF TableMatchesHolders
<1>4. NoLostWakeup'
  BY <1>2 DEF NoLostWakeup, TypeOK
<1>5. ResultsFollowCalls' /\ UnknownNeverRuns'
  BY DEF ResultsFollowCalls, UnknownNeverRuns, TypeOK
<1> QED
  BY <1>1, <1>3, <1>4, <1>5

\* The release frees the call's own entries only, and wakes all who raced on it.
LEMMA FinishInv ==
  ASSUME IInv, NEW c \in Calls, NEW result \in {"ok", "error"}, Finish(c, result)
  PROVE  IInv'
<1> USE DEF IInv, Finish
<1>1. TypeOK'
  BY DEF TypeOK, Released, Resolved, States, Results
<1>2. \A d \in Calls : Holding(d)' <=> Holding(d) /\ d # c
  BY DEF TypeOK, Holding, Resolved
<1>3. TableMatchesHolders'
  <2> SUFFICES ASSUME NEW l \in Locks, NEW d \in Calls
               PROVE  (lockPromises[l] = d <=> Holding(d) /\ l \in batch[d].locks)'
    BY DEF TableMatchesHolders
  <2>1. lockPromises[l] = d <=> Holding(d) /\ l \in batch[d].locks
    BY DEF TableMatchesHolders
  <2>2. CASE lockPromises[l] = c
    <3>1. l \in batch[c].locks
      BY <2>2 DEF TableMatchesHolders
    <3>2. lockPromises'[l] = NoCall
      BY <2>2, <3>1 DEF Released
    <3>3. d # NoCall
      BY DEF Calls, NoCall
    <3> QED
      BY <2>1, <2>2, <3>2, <3>3, <1>2
  <2>3. CASE lockPromises[l] # c
    <3>1. lockPromises'[l] = lockPromises[l]
      BY <2>3 DEF Released
    <3> QED
      BY <2>1, <2>3, <3>1, <1>2
  <2> QED
    BY <2>2, <2>3
<1>4. NoLostWakeup'
  <2> SUFFICES ASSUME NEW d \in Calls, state'[d] = "waiting"
               PROVE  /\ racing'[d] # {}
                      /\ \A e \in racing'[d] : Holding(e)' /\ batch'[d].locks \cap batch'[e].locks # {}
    BY DEF NoLostWakeup
  <2>1. state[d] = "waiting" /\ c \notin racing[d]
    BY DEF TypeOK, Resolved
  <2>2. racing[d] \subseteq Calls
    BY DEF TypeOK
  <2> QED
    BY <2>1, <2>2, <1>2 DEF NoLostWakeup
<1>5. ResultsFollowCalls'
  BY DEF ResultsFollowCalls, TypeOK, Resolved
<1>6. UnknownNeverRuns'
  BY DEF UnknownNeverRuns, TypeOK, Resolved
<1> QED
  BY <1>1, <1>3, <1>4, <1>5, <1>6

\* The run's own steps leave the calls alone.
LEMMA RunInv ==
  ASSUME IInv, Observe \/ Reject \/ Settled \/ UNCHANGED vars
  PROVE  IInv'
<1> USE DEF IInv, TypeOK, TableMatchesHolders, NoLostWakeup, ResultsFollowCalls,
            UnknownNeverRuns, Holding
<1>1. CASE Observe
  BY <1>1 DEF Observe
<1>2. CASE Reject
  BY <1>2 DEF Reject
<1>3. CASE Settled \/ UNCHANGED vars
  BY <1>3 DEF Settled, vars
<1> QED
  BY <1>1, <1>2, <1>3

LEMMA StepInv == IInv /\ [Next]_vars => IInv'
<1> SUFFICES ASSUME IInv, [Next]_vars PROVE IInv'
  OBVIOUS
<1>1. ASSUME NEW c \in Calls, Call(c) PROVE IInv'
  BY <1>1, MapInv, RetryInv, ExecuteInv, FinishInv DEF Call
<1>2. CASE Observe \/ Reject \/ Settled \/ UNCHANGED vars
  BY <1>2, RunInv
<1> QED
  BY <1>1, <1>2 DEF Next

-----------------------------------------------------------------------------
\* Every state of the ACT phase satisfies the inductive invariant.
THEOREM Invariance == Safe => []IInv
  BY InitInv, StepInv, PTL DEF Safe

\* The state stays within its types: loop.ts keeps no entry for a settled promise
\* under a lock and no result outside the batch.
THEOREM TypeCorrect == Safe => []TypeOK
  BY Invariance, PTL DEF IInv

\* Two calls that share a lock are never both between acquire and release, for every
\* number of calls and every set of locks.
THEOREM Exclusion == Safe => []MutualExclusion
<1>1. IInv => MutualExclusion
  BY TableImpliesMutualExclusion DEF IInv
<1> QED
  BY <1>1, Invariance, PTL

\* No call waits on promises that nobody will resolve.
THEOREM WaitersHaveWakers == Safe => []NoLostWakeup
  BY Invariance, PTL DEF IInv

\* The lock table is exact.
THEOREM TableExact == Safe => []TableMatchesHolders
  BY Invariance, PTL DEF IInv

\* The transcript gets a result for every call of the batch.
THEOREM NothingMissing == Safe => []ObservesEveryResult
<1>1. IInv => ObservesEveryResult
  BY DEF IInv, ResultsFollowCalls, ObservesEveryResult
<1> QED
  BY <1>1, Invariance, PTL

-----------------------------------------------------------------------------
\* The status of a call as SerialTools sees it, one case at a time.
LEMMA StatusCases ==
  ASSUME NEW c \in Calls, TypeOK
  PROVE  /\ AbstractStatus[c] = "pending" <=> state[c] \in {"unmapped", "waiting", "woken"}
         /\ AbstractStatus[c] = "running" <=> Holding(c)
         /\ AbstractStatus[c] = "returned" <=> state[c] = "done"
         /\ AbstractStatus[c] = "refused" <=> state[c] = "threw"
<1>1. state[c] \in States
  BY DEF TypeOK
<1> QED
  BY <1>1 DEF AbstractStatus, States, Holding

\* A step that moves at most one call moves at most one abstract status.
LEMMA OnlyOneStatusMoves ==
  ASSUME NEW c \in Calls, NEW s,
         \A d \in Calls : d # c => AbstractStatus'[d] = AbstractStatus[d],
         AbstractStatus'[c] = s
  PROVE  AbstractStatus' = [AbstractStatus EXCEPT ![c] = s]
  BY DEF AbstractStatus

\* Acquiring the locks is the abstract Begin: no running call shares one of them.
LEMMA AcquireBegins ==
  ASSUME IInv, IInv', NEW c \in Calls, state[c] \in {"unmapped", "woken"}, batch[c].known,
         Acquire(c), UNCHANGED batch
  PROVE  Serial!Begin(c)
<1>1. AbstractStatus[c] = "pending"
  BY StatusCases DEF IInv
<1>2. ASSUME NEW d \in Calls, AbstractStatus[d] = "running"
      PROVE  ~Serial!SharesLock(c, d)
  <2>1. Holding(d)
    BY <1>2, StatusCases DEF IInv
  <2>2. ASSUME NEW l \in batch[c].locks \cap batch[d].locks PROVE FALSE
    <3>1. l \in Locks
      BY <2>2 DEF IInv, TypeOK, Requests
    <3>2. lockPromises[l] = d
      BY <2>1, <2>2, <3>1 DEF IInv, TableMatchesHolders
    <3> QED
      BY <3>2, <2>2, NoConflictMeansFree DEF Acquire, Calls, NoCall
  <2> QED
    BY <2>2 DEF Serial!SharesLock
<1>3. AbstractStatus' = [AbstractStatus EXCEPT ![c] = "running"]
  <2>1. state' = [state EXCEPT ![c] = "granted"] /\ state \in [Calls -> States]
    BY DEF Acquire, IInv, TypeOK
  <2>2. AbstractStatus'[c] = "running"
    BY <2>1 DEF AbstractStatus
  <2>3. \A d \in Calls : d # c => AbstractStatus'[d] = AbstractStatus[d]
    BY <2>1 DEF AbstractStatus
  <2> QED
    BY <2>2, <2>3, OnlyOneStatusMoves
<1> QED
  BY <1>1, <1>2, <1>3 DEF Serial!Begin, Serial!Calls, Calls

\* Waiting, and the microtask between the grant and the execution, change no status.
LEMMA StutterKeepsStatus ==
  ASSUME TypeOK, NEW c \in Calls,
         \/ state[c] \in {"unmapped", "woken"} /\ Wait(c)
         \/ Execute(c)
  PROVE  AbstractStatus' = AbstractStatus
  BY DEF AbstractStatus, Wait, Execute, TypeOK

LEMMA FinishEnds ==
  ASSUME IInv, NEW c \in Calls, NEW result \in {"ok", "error"}, Finish(c, result)
  PROVE  Serial!End(c)
<1>1. AbstractStatus[c] = "running"
  BY StatusCases DEF IInv, Finish, Holding
<1>2. AbstractStatus' = [AbstractStatus EXCEPT ![c] = "returned"]
  <2>1. state' = Resolved(c) /\ state \in [Calls -> States]
    BY DEF Finish, IInv, TypeOK
  <2>2. AbstractStatus'[c] = "returned"
    BY <2>1 DEF AbstractStatus, Resolved
  <2>3. \A d \in Calls : d # c => AbstractStatus'[d] = AbstractStatus[d]
    BY <2>1 DEF AbstractStatus, Resolved
  <2> QED
    BY <2>2, <2>3, OnlyOneStatusMoves
<1> QED
  BY <1>1, <1>2 DEF Serial!End, Finish

LEMMA UnknownRefuses ==
  ASSUME IInv, NEW c \in Calls, Map(c), Unknown(c)
  PROVE  Serial!Refuse(c)
<1>1. AbstractStatus[c] = "pending"
  BY StatusCases DEF IInv, Map, NextToMap
<1>2. AbstractStatus' = [AbstractStatus EXCEPT ![c] = "refused"]
  <2>1. state' = [state EXCEPT ![c] = "threw"] /\ state \in [Calls -> States]
    BY DEF Unknown, IInv, TypeOK
  <2>2. AbstractStatus'[c] = "refused"
    BY <2>1 DEF AbstractStatus
  <2>3. \A d \in Calls : d # c => AbstractStatus'[d] = AbstractStatus[d]
    BY <2>1 DEF AbstractStatus
  <2> QED
    BY <2>2, <2>3, OnlyOneStatusMoves
<1> QED
  BY <1>1, <1>2 DEF Serial!Refuse, Map, Unknown

LEMMA CallImplements ==
  ASSUME IInv, IInv', NEW c \in Calls, Call(c)
  PROVE  [Serial!ANext]_(Serial!avars)
<1>1. CASE Map(c)
  <2>1. CASE Unknown(c)
    BY <1>1, <2>1, UnknownRefuses DEF Serial!ANext, Serial!Calls, Calls
  <2>2. CASE batch[c].known /\ Acquire(c)
    BY <1>1, <2>2, AcquireBegins DEF Map, NextToMap, Serial!ANext, Serial!Calls, Calls
  <2>3. CASE batch[c].known /\ Wait(c)
    BY <1>1, <2>3, StutterKeepsStatus DEF Map, NextToMap, IInv, Serial!avars
  <2> QED
    BY <1>1, <2>1, <2>2, <2>3 DEF Map
<1>2. CASE Retry(c)
  <2>1. batch[c].known
    BY <1>2 DEF IInv, UnknownNeverRuns, Retry
  <2>2. CASE Acquire(c)
    BY <1>2, <2>1, <2>2, AcquireBegins DEF Retry, Serial!ANext, Serial!Calls, Calls
  <2>3. CASE Wait(c)
    BY <1>2, <2>3, StutterKeepsStatus DEF Retry, IInv, Serial!avars
  <2> QED
    BY <1>2, <2>2, <2>3 DEF Retry
<1>3. CASE Execute(c)
  BY <1>3, StutterKeepsStatus DEF Execute, IInv, Serial!avars
<1>4. ASSUME NEW result \in {"ok", "error"}, Finish(c, result)
      PROVE  [Serial!ANext]_(Serial!avars)
  BY <1>4, FinishEnds DEF Serial!ANext, Serial!Calls, Calls
<1> QED
  BY <1>1, <1>2, <1>3, <1>4 DEF Call

LEMMA RunStutters ==
  ASSUME Observe \/ Reject \/ Settled \/ UNCHANGED vars
  PROVE  UNCHANGED Serial!avars
  BY DEF Observe, Reject, Settled, vars, Serial!avars, AbstractStatus

\* The lock protocol of loop.ts implements the serialization that Tool.locks promises:
\* its states and steps are states and steps (or stutters) of SerialTools.
THEOREM Refinement == Safe => Serial!ASafe
<1>1. Init => Serial!AInit
  BY DEF Init, Serial!AInit, AbstractStatus, Serial!Calls, Calls, Serial!Requests, Requests
<1>2. IInv /\ IInv' /\ [Next]_vars => [Serial!ANext]_(Serial!avars)
  BY CallImplements, RunStutters DEF Next
<1> QED
  BY <1>1, <1>2, Invariance, PTL DEF Safe, Serial!ASafe
=============================================================================
