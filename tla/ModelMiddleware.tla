---------------------------- MODULE ModelMiddleware ----------------------------
(***************************************************************************)
(* What a model call is made with: the transcript, as the middleware of an *)
(* agent rewrites it (core: compose.ts, plugin.ts, identity.ts,            *)
(* compaction.ts; the contexts of the agent-skills, walrus-memory,         *)
(* semantic-memory and knowledge plugins).  A plugin that has nothing to   *)
(* add is one that is not there.  None of them changes the transcript.     *)
(***************************************************************************)
EXTENDS Integers, SequencesExt

CONSTANTS
  Runs,        \* the calls of agent.run
  Signatures,  \* what a batch of tool calls can look like (names and arguments)
  Undefined    \* an option that is not given

NoCalls == "no calls"
ASSUME SignaturesAssumption == NoCalls \notin Signatures

\* Who writes a system message into a request, besides the runs.
Writers == {"identity", "summary", "skills", "user memory", "memories", "knowledge"}
ASSUME WritersAssumption == Runs \cap Writers = {}

\* A message: its role, the run or middleware that wrote it, and the tool calls it asks
\* for (assistant) or answers (tool: all the results of the batch).
Roles == {"system", "user", "assistant", "tool"}
Message == [role : Roles, run : Runs, calls : Signatures \cup {NoCalls}]
Msg(role, r, calls) == [role |-> role, run |-> r, calls |-> calls]

Context(name) == Msg("system", name, NoCalls)
Identity == Context("identity")
Summary == Context("summary")

IsSystem(m) == m.role = "system"
IsTurn(m) == m.role # "system"

-----------------------------------------------------------------------------
\* Array.filter: what s has at these places, in its order.
Selected(s, places) ==
  LET upTo[n \in 0..Len(s)] ==
        IF n = 0 THEN <<>>
        ELSE IF n \in places THEN Append(upTo[n - 1], s[n]) ELSE upTo[n - 1]
  IN  upTo[Len(s)]

SystemMessages(req) == Selected(req, {i \in DOMAIN req : IsSystem(req[i])})
Conversation(req) == Selected(req, {i \in DOMAIN req : IsTurn(req[i])})

identityMiddleware(req) == <<Identity>> \o Selected(req, {i \in DOMAIN req : req[i] # Identity})

\* A context goes in front, but behind the identity.
Inject(context, req) == IF req # <<>> /\ Head(req) = Identity
                        THEN <<Identity, context>> \o Tail(req)
                        ELSE <<context>> \o req

skillContextMiddleware(req) == Inject(Context("skills"), req)

contextMiddleware(req) == Inject(Context("user memory"), req)

\* Memories and documents are those next to the last message of the user, if there is one.
AboutLastUser(context, req) ==
  IF \E i \in DOMAIN req : req[i].role = "user" THEN Inject(context, req) ELSE req

memoryMiddleware(req) == AboutLastUser(Context("memories"), req)
retrievalMiddleware(req) == AboutLastUser(Context("knowledge"), req)

\* In units of a short message; the results of a batch are long.
estimateMessageTokens(m) == IF m.role = "tool" THEN 2 ELSE 1
estimateTotalTokens(messages) == FoldLeft(LAMBDA n, m : n + estimateMessageTokens(m), 0, messages)
SummaryReserved == 1

ShouldCompact(o, req) ==
  \/ o.maxMessages # Undefined /\ Len(req) > o.maxMessages
  \/ o.maxTokens # Undefined /\ estimateTotalTokens(req) > o.maxTokens

LastOnes(body, n) == SubSeq(body, Len(body) - n + 1, Len(body))

\* A bug: what the budget has no room for goes, keepRecent or not.
KeepCount_BudgetOnly(o, system, body) ==
  LET budget == o.maxTokens - estimateTotalTokens(system) - SummaryReserved IN
  IF o.maxTokens = Undefined THEN o.keepRecent
  ELSE Max({n \in 0..Len(body) : n <= 1 \/ estimateTotalTokens(LastOnes(body, n)) <= budget})

\* keepRecent messages, and as many more as the token budget has room for.
KeepCount(o, system, body) ==
  LET budget == o.maxTokens - estimateTotalTokens(system) - SummaryReserved IN
  IF o.maxTokens = Undefined THEN o.keepRecent
  ELSE Max({o.keepRecent} \cup
           {n \in 0..Len(body) : estimateTotalTokens(LastOnes(body, n)) <= budget})

\* body.slice(-n): for n = 0 that is all of it.
Recent(body, n) == IF n = 0 THEN body ELSE LastOnes(body, n)

compactionMiddleware(o, req) ==
  LET system == SystemMessages(req)
      body == Conversation(req)
      n == KeepCount(o, system, body)
  IN  IF ~ShouldCompact(o, req) \/ Len(body) <= n THEN req
      ELSE system \o <<Summary>> \o Recent(body, n)

Middleware(name, agent, req) ==
  CASE name = "identity" -> identityMiddleware(req)
    [] name = "agent-skills" -> skillContextMiddleware(req)
    [] name = "walrus-memory" -> contextMiddleware(req)
    [] name = "semantic-memory" -> memoryMiddleware(req)
    [] name = "knowledge" -> retrievalMiddleware(req)
    [] name = "compaction" -> compactionMiddleware(agent.compaction, req)

\* What createAgent takes.  No plugin is there twice: registry.register throws on a tool
\* that is registered already.
PluginNames == {"agent-skills", "walrus-memory", "semantic-memory", "knowledge", "compaction"}
IsAgent(agent) ==
  /\ agent.persona \in BOOLEAN
  /\ agent.plugins \in Seq(PluginNames) /\ IsInjective(agent.plugins)
  /\ agent.compaction.keepRecent \in Nat

\* The persona's middleware comes before those of the plugins, in their order; the first
\* one sees the request first.
loadPlugins(agent) == (IF agent.persona THEN <<"identity">> ELSE <<>>) \o agent.plugins

composeModel(agent, messages) ==
  LET names == loadPlugins(agent)
      req[n \in 0..Len(names)] ==
        IF n = 0 THEN messages ELSE Middleware(names[n], agent, req[n - 1])
  IN  req[Len(names)]

-----------------------------------------------------------------------------
Count(m, req) == Cardinality({i \in DOMAIN req : req[i] = m})

\* In a request, each system message stands before the conversation; the persona's
\* instruction is the first message, and there once (identity.ts: "the first thing the model
\* reads"); the conversation is there from some message on to its end, unless a summary
\* stands for the rest with no less than keepRecent messages; and the results of tools
\* stand behind their calls, except those that compaction has cut off from them.
WellFormed(agent, messages, req) ==
  LET body == Conversation(req)
      all == Conversation(messages)
      summed == Count(Summary, req)
      left == Len(all) - Len(body)
  IN
  /\ \A i, j \in DOMAIN req : i < j /\ IsSystem(req[j]) => IsSystem(req[i])
  /\ agent.persona => Head(req) = Identity /\ Count(Identity, req) = 1
  /\ IsSuffix(body, all) /\ summed <= 1
  /\ left > 0 => summed = 1 /\ Len(body) >= agent.compaction.keepRecent
  /\ summed = 1 => left > 0 \/ agent.compaction.keepRecent = 0
  /\ \A i \in DOMAIN body :
       body[i].role = "tool" =>
         IF i > 1 THEN body[i - 1].role = "assistant" /\ body[i - 1].calls = body[i].calls
                  ELSE summed = 1
=============================================================================
