------------------------------ MODULE AgentRun ------------------------------
(***************************************************************************)
(* agent.run (packages/core/src/agent.ts) around runLoop (loop.ts): load   *)
(* the session, run the ReAct loop, store the whole transcript again.  The *)
(* runs of one agent share its memory backend and interleave at each       *)
(* await.  The ACT phase of a step is one action here (ToolBatch has its   *)
(* details), except for the delegate_task tool (plugins/agents), which     *)
(* runs a loop of its own (spawn.ts).                                      *)
(***************************************************************************)
EXTENDS ModelMiddleware

CONSTANTS
  Sessions,      \* session ids
  Delegations,   \* the batches with a call of delegate_task
  MaxSteps,      \* AgentConfig.maxSteps, of sub-agents too
  MaxSpawnDepth, \* makeSpawn's limit
  SystemPrompt,  \* is AgentConfig.systemPrompt set
  Agents         \* what createAgent may have been given: a persona, plugins, compaction

ASSUME LimitsAssumption == MaxSteps \in Nat \ {0} /\ MaxSpawnDepth \in Nat
ASSUME FlagAssumption == SystemPrompt \in BOOLEAN
ASSUME DelegationsAssumption == Delegations \subseteq Signatures
ASSUME AgentsAssumption == \A agent \in Agents : IsAgent(agent)

MAX_REPEAT == 3

VARIABLES
  overlap,    \* does the caller start a run while another one of its session is active
  pc,         \* where each run is suspended
  session,    \* the session each run works on
  messages,   \* each run's transcript
  loops,      \* each run's loop, and above it those of the sub-agents it waits for
  store       \* the memory backend: one transcript per session

vars == <<overlap, pc, session, messages, loops, store>>

\* A runLoop: model calls answered so far, lastSignature, how many times in a row the model
\* asked for it, and whether the batch's delegate_task has its result.
Loop == [step : 0..MaxSteps - 1, signature : Signatures \cup {NoCalls},
         repeats : 0..MAX_REPEAT, told : BOOLEAN]
FirstStep == [step |-> 0, signature |-> NoCalls, repeats |-> 0, told |-> FALSE]

Active(r) == pc[r] \in {"loading", "thinking", "acting", "saving"}

Init == /\ overlap \in BOOLEAN
        /\ pc = [r \in Runs |-> "idle"]
        /\ session \in [Runs -> Sessions]
        /\ messages = [r \in Runs |-> <<>>]
        /\ loops = [r \in Runs |-> <<>>]
        /\ store = [s \in Sessions |-> <<>>]

-----------------------------------------------------------------------------
Goto(r, where) == pc' = [pc EXCEPT ![r] = where]
Top(r) == Last(loops[r])
SetTop(r, loop) == loops' = [loops EXCEPT ![r] = Append(Front(@), loop)]
InSubAgent(r) == Len(loops[r]) > 1

\* What a sub-agent does is not in the run's transcript.
Push(r, m) == messages' = IF InSubAgent(r) THEN messages
                          ELSE [messages EXCEPT ![r] = Append(@, m)]

\* The innermost loop returns or throws: agent.run goes on, or delegate_task has its
\* result (an error is an observation).
EndLoop(r, where) ==
  IF InSubAgent(r)
  THEN /\ loops' = [loops EXCEPT ![r] = [Front(@) EXCEPT ![Len(@) - 1].told = TRUE]]
       /\ Goto(r, "acting")
  ELSE /\ loops' = [loops EXCEPT ![r] = <<>>]
       /\ Goto(r, where)

\* agent.run is called; it suspends in memory.load.
Start(r) ==
  /\ pc[r] = "idle"
  /\ overlap \/ \A o \in Runs : Active(o) => session[o] # session[r]
  /\ Goto(r, "loading")
  /\ UNCHANGED <<overlap, session, messages, loops, store>>

\* A bug: a session without a system message starts from the prompt alone.
Seed_Forgets(r, history) ==
  IF SystemPrompt /\ \A i \in DOMAIN history : history[i].role # "system"
  THEN <<Msg("system", r, NoCalls)>>
  ELSE <<>>

\* The history, with the system prompt in front of it if it has none.
Seed(r, history) ==
  IF SystemPrompt /\ \A i \in DOMAIN history : history[i].role # "system"
  THEN <<Msg("system", r, NoCalls)>> \o history
  ELSE history

\* The session is loaded: runLoop starts with the seed and the user's input.
Load(r) ==
  /\ pc[r] = "loading"
  /\ messages' = [messages EXCEPT ![r] =
                    Append(Seed(r, store[session[r]]), Msg("user", r, NoCalls))]
  /\ loops' = [loops EXCEPT ![r] = <<FirstStep>>]
  /\ Goto(r, "thinking")
  /\ UNCHANGED <<overlap, session, store>>

\* The model answers without tool calls: the loop is finished.
Answer(r) ==
  /\ pc[r] = "thinking"
  /\ Push(r, Msg("assistant", r, NoCalls))
  /\ EndLoop(r, "saving")
  /\ UNCHANGED <<overlap, session, store>>

\* A bug: the guard counts repetitions from zero.
RepeatCount_FromZero(loop, calls) == IF calls = loop.signature THEN loop.repeats + 1 ELSE 0

\* How many times in a row the model has asked for these calls.
RepeatCount(loop, calls) == IF calls = loop.signature THEN loop.repeats + 1 ELSE 1

\* The model asks for tool calls.  The repeat guard ends the loop instead of acting
\* when it has asked for the same calls MAX_REPEAT times in a row.
Ask(r, calls) ==
  LET n == RepeatCount(Top(r), calls) IN
  /\ pc[r] = "thinking"
  /\ Push(r, Msg("assistant", r, calls))
  /\ IF n >= MAX_REPEAT
     THEN EndLoop(r, "saving")
     ELSE /\ SetTop(r, [Top(r) EXCEPT !.signature = calls, !.repeats = n])
          /\ Goto(r, "acting")
  /\ UNCHANGED <<overlap, session, store>>

\* A bug: the first sub-agent is not counted.
MaySpawn_OneDeeper(r) == Len(loops[r]) <= MaxSpawnDepth + 1

\* currentDepth < maxSpawnDepth; the run's own loop spawns at depth 0.
MaySpawn(r) == Len(loops[r]) <= MaxSpawnDepth

\* delegate_task starts a sub-agent: a loop without the run's middleware, history and
\* memory.  Too deep, it throws.
Delegate(r) ==
  /\ pc[r] = "acting" /\ Top(r).signature \in Delegations /\ ~Top(r).told
  /\ IF MaySpawn(r)
     THEN /\ loops' = [loops EXCEPT ![r] = Append(@, FirstStep)]
          /\ Goto(r, "thinking")
     ELSE /\ SetTop(r, [Top(r) EXCEPT !.told = TRUE])
          /\ UNCHANGED pc
  /\ UNCHANGED <<overlap, session, messages, store>>

\* The for condition.
MoreSteps(loop) == loop.step + 1 < MaxSteps

\* All tools of the batch have returned or failed: their results are pushed.  After the
\* last step runLoop throws MaxStepsError.
Observe(r) ==
  /\ pc[r] = "acting" /\ (Top(r).signature \in Delegations => Top(r).told)
  /\ Push(r, Msg("tool", r, Top(r).signature))
  /\ IF MoreSteps(Top(r))
     THEN /\ SetTop(r, [Top(r) EXCEPT !.step = @ + 1, !.told = FALSE])
          /\ Goto(r, "thinking")
     ELSE EndLoop(r, "failed")
  /\ UNCHANGED <<overlap, session, store>>

\* A bug: what a failing run has done so far is stored in a finally block.
Fail_Stores(r) ==
  /\ Active(r)
  /\ EndLoop(r, "failed")
  /\ store' = [store EXCEPT ![session[r]] = messages[r]]
  /\ UNCHANGED <<overlap, session, messages>>

\* memory.load, generate (a provider error, or a BudgetError), the summarizer, a call of an
\* unknown tool, or memory.append rejects: agent.run rejects and stores nothing.
Fail(r) ==
  /\ Active(r)
  /\ EndLoop(r, "failed")
  /\ UNCHANGED <<overlap, session, messages, store>>

\* A bug: a run defers its append until it is alone in its session.
Save_WhenAlone(r) ==
  /\ pc[r] = "saving"
  /\ \A o \in Runs \ {r} : Active(o) => session[o] # session[r]
  /\ store' = [store EXCEPT ![session[r]] = messages[r]]
  /\ Goto(r, "done")
  /\ UNCHANGED <<overlap, session, messages, loops>>

\* memory.append replaces the session's transcript with this run's.
Save(r) ==
  /\ pc[r] = "saving"
  /\ store' = [store EXCEPT ![session[r]] = messages[r]]
  /\ Goto(r, "done")
  /\ UNCHANGED <<overlap, session, messages, loops>>

\* No run is active; later turns are not modelled.
Quiet == /\ \A r \in Runs : pc[r] \in {"done", "failed"}
         /\ UNCHANGED vars

Run(r) == \/ Start(r) \/ Load(r) \/ Answer(r) \/ (\E calls \in Signatures : Ask(r, calls))
          \/ Delegate(r) \/ Observe(r) \/ Save(r) \/ Fail(r)

Next == (\E r \in Runs : Run(r)) \/ Quiet

\* Every await settles: the model, the tools and the backend answer or fail.
Fairness == \A r \in Runs :
  /\ WF_vars(Load(r))
  /\ WF_vars(Answer(r) \/ \E calls \in Signatures : Ask(r, calls))
  /\ WF_vars(Delegate(r) \/ Observe(r))
  /\ WF_vars(Save(r))

Safe == Init /\ [][Next]_vars
Spec == Safe /\ Fairness

-----------------------------------------------------------------------------
TypeOK ==
  /\ overlap \in BOOLEAN
  /\ pc \in [Runs -> {"idle", "loading", "thinking", "acting", "saving", "done", "failed"}]
  /\ session \in [Runs -> Sessions]
  /\ messages \in [Runs -> Seq(Message)]
  /\ loops \in [Runs -> Seq(Loop)] /\ \A r \in Runs : Len(loops[r]) <= 1 + MaxSpawnDepth
  /\ store \in [Sessions -> Seq(Message)]

AsksForTools(m) == m.role = "assistant" /\ m.calls # NoCalls

\* The calls of message i are answered by the message after it.
AnsweredAt(t, i) == i + 1 \in DOMAIN t /\ t[i + 1].role = "tool" /\ t[i + 1].calls = t[i].calls

Unanswered(t) == {i \in DOMAIN t : AsksForTools(t[i]) /\ ~AnsweredAt(t, i)}

\* Message i is the last of n rounds of one run that ask for the same calls.
RepeatedRounds(t, i, n) ==
  \A k \in 0..n - 1 : /\ i - 2 * k \in DOMAIN t
                      /\ AsksForTools(t[i - 2 * k])
                      /\ t[i - 2 * k].run = t[i].run
                      /\ t[i - 2 * k].calls = t[i].calls

\* The model calls run r has made: an answer each, and the one it is waiting for.
ModelCalls(r) ==
  LET answers == {i \in DOMAIN messages[r] :
                    messages[r][i].run = r /\ messages[r][i].role = "assistant"}
  IN  Cardinality(answers) + (IF pc[r] = "thinking" /\ ~InSubAgent(r) THEN 1 ELSE 0)

\* The guards of the loop: no run executes the same calls MAX_REPEAT times in a row ("bail
\* gracefully instead of spinning to maxSteps"), and it makes at most MaxSteps model calls,
\* however its steps end ("circuit breaker against infinite tool loops").
LoopGuards ==
  \A r \in Runs :
    /\ ModelCalls(r) <= MaxSteps
    /\ \A i \in DOMAIN messages[r] :
         RepeatedRounds(messages[r], i, MAX_REPEAT) => ~AnsweredAt(messages[r], i)

\* A stored transcript is made of whole turns of finished runs: turns are not mixed,
\* whatever runs overlapped, and what a failed run did is not in it; and it leaves no tool
\* call unanswered but those at which the repeat guard ended a run.
StoresWholeTurns ==
  \A s \in Sessions : \A i \in DOMAIN store[s] :
    LET t == store[s] IN
    /\ pc[t[i].run] = "done" /\ session[t[i].run] = s
    /\ \A j \in i..Len(t) : t[j].run = t[i].run => \A k \in i..j : t[k].run = t[i].run
    /\ (i = Len(t) \/ t[i + 1].run # t[i].run) => t[i].role = "assistant"
    /\ (i = 1 \/ t[i - 1].run # t[i].run) => t[i].role \in {"system", "user"}
    /\ \A u \in Unanswered(t) : RepeatedRounds(t, u, MAX_REPEAT)

\* What the run asks the model with is well-formed, whatever the agent's middleware and
\* whatever the session's transcript has become.
RequestsWellFormed ==
  \A r \in Runs : pc[r] = "thinking" /\ ~InSubAgent(r) =>
    \A agent \in Agents : WellFormed(agent, messages[r], composeModel(agent, messages[r]))

\* domain/messages.ts:3: the id of every tool call "must be echoed back" in a tool
\* message, so a request to the model has no unanswered call.  Checked on its own: the
\* turn after a run that the repeat guard ended refutes it.
RequestsAnswerEveryCall ==
  \A r \in Runs : pc[r] = "thinking" /\ ~InSubAgent(r) => Unanswered(messages[r]) = {}

\* With one active run per session a conversation only grows: what a finished turn
\* stored is still there, in place and under the one system prompt, after the next one.
ConversationOnlyGrows ==
  [][~overlap => \A s \in Sessions :
       /\ Len(store[s]) <= Len(store'[s])
       /\ \A i \in DOMAIN store'[s] :
            IF i \in DOMAIN store[s] THEN store'[s][i] = store[s][i]
            ELSE store'[s][i].role = "system" => SystemPrompt /\ i = 1]_vars

\* Every run that starts ends, its model, tools and memory answering: with its turn
\* stored, or failed.
RunsEnd == \A r \in Runs : pc[r] = "loading" ~> pc[r] \in {"done", "failed"}
=============================================================================
