------------------------------ MODULE ToolChain -------------------------------
(***************************************************************************)
(* One tool call from the loop to the chain: the composed tool middleware  *)
(* (core: compose.ts, policy.ts, simulate.ts, approvers.ts; the resilience *)
(* and trading-policy plugins) around the tools of the plugins and of the  *)
(* CLI, up to the signers.  A timed-out attempt is not cancelled: it goes  *)
(* on beside the next one.                                                 *)
(***************************************************************************)
EXTENDS Naturals, SequencesExt

CONSTANTS
  Calls,       \* the tool calls, numbered in the order they are made
  NoSigner,    \* suiSignerRef while there is no wallet
  Unlimited    \* perMinute of an agent without rateLimit

ASSUME CallsAssumption == Calls \subseteq Nat

VARIABLES
  chain,  \* how this agent was created: its middleware, keys, network and audit logger
  signer, \* suiSignerRef: the wallet and the network it signs on
  req,    \* each call's request
  call,   \* where each call is
  tries,  \* attempts of each call begun
  att,    \* each call's attempts
  memo,   \* toolCache: the requests answered; idempotency: the keys
  hits,   \* rateLimit: the attempts of the last minute
  beside  \* ghost: calls that began an attempt beside another call with their MemoKey

chainVars == <<chain, signer, req, call, tries, att, memo, hits, beside>>

\* A tool: is it sensitive, and what its execute awaits in turn.  (Locks are ToolBatch's.)
Tool(sensitive, awaits) == [sensitive |-> sensitive, awaits |-> awaits]
Read == Tool(FALSE, <<"fetch">>)
SuiSend == Tool(TRUE, <<"inspect", "submit", "confirm">>)

evmPlugin == [evm_get_balance |-> Read, evm_read_contract |-> Read,
              evm_send_native |-> Tool(TRUE, <<"submit", "confirm">>)]
tokensPlugin == [erc20_balance |-> Read, erc20_allowance |-> Read,
                 erc20_approve |-> Tool(TRUE, <<"submit">>),
                 erc20_transfer |-> Tool(TRUE, <<"submit">>)]
solanaPlugin == [solana_get_balance |-> Read,
                 solana_send_sol |-> Tool(TRUE, <<"submit", "confirm">>)]
suiPlugin == [sui_balance |-> Read, sui_object |-> Read, sui_transfer |-> SuiSend,
              sui_execute_ptb |-> SuiSend, sui_move_call |-> SuiSend]
marketPlugin == [market_price |-> Read, portfolio_update |-> Tool(FALSE, <<>>),
                 portfolio_get |-> Tool(FALSE, <<>>)]
webSearchPlugin == [web_search |-> Read]
createFetchUrlTool == [fetch_url |-> Read]
knowledgePlugin == [knowledge_search |-> Read]
memwalFactsPlugin == [remember_fact |-> Read, recall_memory |-> Read]

\* A sub-agent's loop (AgentRun's Delegate): its own calls do not come through this chain.
agentsPlugin == [delegate_task |-> Tool(FALSE, <<"spawn">>), update_plan |-> Tool(FALSE, <<>>)]

\* All of it is synchronous, npx in a child process too: nothing else runs meanwhile.  Of what is
\* written only skill_list knows before the next start.
agentSkillsPlugin == [n \in {"skill_list", "skill_find", "skill_install", "skill_create", "skill_format"} |->
                        Tool(FALSE, <<>>)]

\* The tools of an MCP server, Rill's say: whatever they do there, none is sensitive here.
buildMcpPlugin == [mcp_tool |-> Tool(FALSE, <<"fetch">>)]

\* The CLI's own tools; those that make or read a key pair await the import of its library.
walletTools == [sui_setup |-> Tool(TRUE, <<"import">>),
                sui_create_wallet |-> Tool(TRUE, <<"import">>),
                sui_import_wallet |-> Tool(TRUE, <<"import">>),
                sui_export_wallet |-> Tool(TRUE, <<>>),
                sui_use_wallet |-> Tool(FALSE, <<>>),
                sui_wallets |-> Tool(FALSE, <<>>),
                sui_balances |-> Read]

Plugins == {walletTools, suiPlugin, evmPlugin, tokensPlugin, solanaPlugin, marketPlugin, webSearchPlugin,
            createFetchUrlTool, knowledgePlugin, memwalFactsPlugin, agentsPlugin, agentSkillsPlugin,
            buildMcpPlugin}

registry == [n \in UNION {DOMAIN p : p \in Plugins} |-> (CHOOSE p \in Plugins : n \in DOMAIN p)[n]]

\* How an agent may be created, and a call of one of its tools.
Agent == [policy : {"none", "transfer", "trading"}, approver : BOOLEAN, allowed : SUBSET DOMAIN registry,
          simulate : BOOLEAN, memo : {"none", "toolCache", "idempotency"}, retries : Nat, timeout : BOOLEAN,
          key : {"absent", "testnet", "mainnet"}, suiNetwork : {"testnet", "mainnet"},
          perMinute : {Unlimited} \cup Nat, audit : BOOLEAN]

\* The argument that matters, an optional one, and the idempotencyKey.
IsRequest(r) == /\ r = [tool |-> r.tool, arg |-> r.arg, opt |-> r.opt, key |-> r.key]
                /\ r.tool \in DOMAIN registry

-----------------------------------------------------------------------------
(* Policy: decisions are computed from the tool and its arguments alone. *)

SWAP_TOOLS == {"swap_execute", "sol_swap_execute", "erc20_approve", "erc20_transfer"}

\* The asset, the size and the implied slippage are the argument's class.
tradingPolicyRules(r) ==
  CASE r.tool \notin SWAP_TOOLS -> "abstain"
    [] r.tool \in SWAP_TOOLS /\ r.arg \in {"over", "stranger"} -> "deny"
    [] OTHER -> "approve"

\* A cap and an allowlist for one tool.
Capped(r, tool) ==
  CASE r.tool # tool -> "abstain"
    [] r.tool = tool /\ r.arg \in {"over", "stranger"} -> "deny"
    [] OTHER -> "approve"

evmTransferRules(r) == Capped(r, "evm_send_native")
solanaTransferRules(r) == Capped(r, "solana_send_sol")
\* Nothing is said of erc20_transfer.
erc20ApproveRules(r) == Capped(r, "erc20_approve")

Rules(r) == CASE chain.policy = "trading" -> <<tradingPolicyRules(r)>>
              [] chain.policy = "transfer" -> <<evmTransferRules(r), solanaTransferRules(r), erc20ApproveRules(r)>>
              [] OTHER -> <<>>

\* The first rule that does not abstain, or the default.
evaluateRules(r) ==
  LET said == SelectSeq(Rules(r), LAMBDA d : d # "abstain") IN
  CASE said # <<>> -> Head(said)
    [] said = <<>> /\ registry[r.tool].sensitive -> "approve"
    [] OTHER -> "allow"

\* policyMiddleware throws before anything is awaited: a denial, or nobody to approve.
PolicyThrows(r) ==
  /\ chain.policy # "none"
  /\ evaluateRules(r) = "deny" \/ (evaluateRules(r) = "approve" /\ ~chain.approver)

\* autoApprover has a list of tools; denyApprover has none.
Approves(r) == r.tool \in chain.allowed

\* What an attempt awaits: the approver, the simulator, then the tool's own calls; the Sui
\* tools return SETUP_NEEDED at once while there is no wallet.
Gates(r) == (IF chain.policy # "none" /\ evaluateRules(r) = "approve" THEN <<"approve">> ELSE <<>>)
            \o (IF chain.simulate /\ registry[r.tool].sensitive THEN <<"simulate">> ELSE <<>>)
GateStages == {"approve", "simulate"}
SetupNeeded(r) == r.tool \in DOMAIN suiPlugin /\ signer = NoSigner
Awaits(r) == Gates(r) \o (IF SetupNeeded(r) THEN <<>> ELSE registry[r.tool].awaits)

\* The tool has nothing to sign with, or evm_send_native would sign on mainnet: it throws.
NoKey(r) == \/ r.tool = "evm_send_native" /\ chain.key # "testnet"
            \/ r.tool \in {"erc20_approve", "erc20_transfer", "solana_send_sol"} /\ chain.key = "absent"

\* How each await may settle: did it put a transaction on the chain, and does execute go on,
\* return, or throw.  A transaction that aborts on the chain is returned as a success.
Replies(stage, r) ==
  LET Out(sent, how) == [sent |-> sent, how |-> how] IN
  CASE stage = "approve" -> {Out(FALSE, IF Approves(r) THEN "next" ELSE "failed")}
    [] stage = "inspect" -> {Out(FALSE, "next"), Out(FALSE, "answered"), Out(FALSE, "failed")}
    [] stage = "submit" -> [sent : BOOLEAN, how : {"next", "failed"}]
    [] OTHER -> {Out(FALSE, "next"), Out(FALSE, "failed")}

\* The tools that log what they are about to send.
Announcing == {"evm_send_native", "erc20_approve", "erc20_transfer", "solana_send_sol"}

\* What is logged when such an await settles: the approver's decision, the end of the
\* sub-agent, and behind the simulator that a payment is sent.  (The entry of the call
\* as a whole, tool_call, is the loop's: it is written when the loop has its answer.)
Logs(stage, reply, r) ==
  \/ stage = "approve"
  \/ stage = "spawn" /\ reply.how = "next"
  \/ stage = "simulate" /\ reply.how = "next" /\ r.tool \in Announcing /\ ~NoKey(r)

-----------------------------------------------------------------------------
\* A bug: an idempotencyKey is good for the same arguments only.
MemoKey_WithArgs(r) == r

\* toolCache goes by tool and arguments, idempotency by the idempotencyKey alone.
MemoKey(r) == IF chain.memo = "idempotency" THEN r.key ELSE r

Memoises(r) == chain.memo = "toolCache" \/ (chain.memo = "idempotency" /\ r.key # "absent")
Hit(r) == Memoises(r) /\ MemoKey(r) \in memo
Remembering(r) == IF Memoises(r) THEN memo \cup {MemoKey(r)} ELSE memo

\* A bug: retries counts the attempts from zero.
MayRetry_OneMore(n) == n <= chain.retries + 1

\* The first attempt and `retries` more.
MayRetry(n) == n <= chain.retries

\* The race and the retry loop look at the last attempt alone, and nobody looks at one that
\* has timed out.
Awaited(c, n) == call[c] = "running" /\ n = tries[c]

\* How call c stands once attempt n is over.
Outcome(c, n, how) ==
  CASE ~Awaited(c, n) -> call[c]
    [] Awaited(c, n) /\ how = "failed" /\ MayRetry(n) -> "backoff"
    [] OTHER -> how

UnderWay(c) == \E n \in DOMAIN att[c] : att[c][n].todo # <<>>
Attempt(todo) == [todo |-> todo, sent |-> FALSE, shaky |-> FALSE]

ChainInit == /\ req = [c \in Calls |-> [tool |-> "none", arg |-> "none", opt |-> "none", key |-> "absent"]]
             /\ call = [c \in Calls |-> "unused"]
             /\ tries = [c \in Calls |-> 0]
             /\ att = [c \in Calls |-> <<>>]
             /\ memo = {} /\ hits = 0 /\ beside = {}

\* rateLimit: as many attempts as it lets through in a minute are through.
Limited == chain.perMinute # Unlimited /\ hits >= chain.perMinute

\* It throws before its first await; `throws`: the tool finds it cannot do it.
ThrowsAtOnce(r, throws) == PolicyThrows(r) \/ (Gates(r) = <<>> /\ (NoKey(r) \/ throws))

\* How far a request gets before its first await.
AtOnce(r, throws) ==
  CASE Limited -> "failed"
    [] ~Limited /\ Hit(r) -> "answered"
    [] ~Limited /\ ~Hit(r) /\ ThrowsAtOnce(r, throws) -> "failed"
    [] ~Limited /\ ~Hit(r) /\ ~ThrowsAtOnce(r, throws) /\ Awaits(r) = <<>> -> "answered"
    [] OTHER -> "running"

\* The tool itself is executed, and to its end, before anything is awaited.
RunsAtOnce(r, throws) == ~Hit(r) /\ AtOnce(r, throws) = "answered"

\* An attempt goes down the chain as far as its first await.
Begin(c, n, r, throws) ==
  LET how == AtOnce(r, throws) IN
  /\ tries' = [tries EXCEPT ![c] = n]
  /\ beside' = IF \E d \in Calls \ {c} : UnderWay(d) /\ MemoKey(req[d]) = MemoKey(r)
               THEN beside \cup {c} ELSE beside
  /\ att' = [att EXCEPT ![c] = Append(@, Attempt(IF how = "running" THEN Awaits(r) ELSE <<>>))]
  /\ call' = [call EXCEPT ![c] = IF how = "failed" /\ MayRetry(n) THEN "backoff" ELSE how]
  /\ memo' = IF how = "answered" THEN Remembering(r) ELSE memo
  /\ hits' = IF chain.perMinute = Unlimited \/ Limited THEN hits ELSE hits + 1

\* The loop hands call c to the chain.
Issue(c, r, throws) ==
  /\ call[c] = "unused" /\ \A d \in Calls : d < c => call[d] # "unused"
  /\ req' = [req EXCEPT ![c] = r]
  /\ Begin(c, 1, r, throws)
  /\ UNCHANGED chain

\* The backoff of retry is over.
Retry(c, throws) ==
  /\ call[c] = "backoff"
  /\ Begin(c, tries[c] + 1, req[c], throws)
  /\ UNCHANGED <<chain, req>>

\* What attempt n awaits settles, whether anybody still waits for the attempt or not; behind
\* the last gate execute begins, which may throw.
Step(c, n, reply, throws) ==
  LET stage == Head(att[c][n].todo)
      rest == Tail(att[c][n].todo)
      refused == stage \in GateStages /\ rest = registry[req[c].tool].awaits /\ (NoKey(req[c]) \/ throws)
      how == CASE reply.how = "next" /\ refused -> "failed"
               [] reply.how = "next" /\ ~refused /\ rest = <<>> -> "answered"
               [] OTHER -> reply.how
  IN
  /\ reply \in Replies(stage, req[c])
  /\ att' = [att EXCEPT ![c][n].todo = IF how = "next" THEN rest ELSE <<>>,
                        ![c][n].sent = (@ \/ reply.sent),
                        ![c][n].shaky =
                          (@ \/ (how = "failed" /\ (att[c][n].sent \/ reply.sent)))]
  /\ call' = IF how = "next" THEN call ELSE [call EXCEPT ![c] = Outcome(c, n, how)]
  /\ memo' = IF how = "answered" THEN Remembering(req[c]) ELSE memo
  /\ UNCHANGED <<chain, req, tries, hits, beside>>

\* The race of timeout is lost: the attempt goes on, its answer will reach only the cache.
TimeOut(c) ==
  /\ chain.timeout /\ call[c] = "running"
  /\ call' = [call EXCEPT ![c] = Outcome(c, tries[c], "failed")]
  /\ att' = [att EXCEPT ![c][tries[c]].shaky = TRUE]
  /\ UNCHANGED <<chain, req, tries, memo, hits, beside>>

\* The oldest attempt that rateLimit counts was more than a minute ago.
MinuteOver == /\ hits > 0 /\ hits' = hits - 1
              /\ UNCHANGED <<chain, req, call, tries, att, memo, beside>>

-----------------------------------------------------------------------------
Payments(c) == Cardinality({n \in DOMAIN att[c] : att[c][n].sent})
Shaky(c) == Cardinality({n \in DOMAIN att[c] : att[c][n].shaky})

\* A payment is made once.  Every further transaction of one call is explained by an attempt
\* that timed out, or that threw after its transaction was on the chain (resilience: "Retrying
\* a non-idempotent tool can cause duplicate side effects"); and of two calls with one
\* idempotencyKey, or with one entry in the cache, both pay only if one began an attempt while
\* the other was under way, or if one of them is such a call.
PaidOnce ==
  /\ \A c \in Calls : Payments(c) <= 1 + Shaky(c)
  /\ \A c, d \in Calls :
       /\ c < d /\ call[d] # "unused"
       /\ IF chain.memo = "idempotency" THEN req[c].key = req[d].key /\ req[c].key # "absent"
                                        ELSE chain.memo = "toolCache" /\ req[c] = req[d]
       /\ Payments(c) > 0 /\ Payments(d) > 0
       => c \in beside \/ d \in beside \/ Shaky(c) + Shaky(d) > 0
=============================================================================
