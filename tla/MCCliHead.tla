------------------------------ MODULE MCCliHead -------------------------------
(* Small instances of the CLI with each kind of middleware, and of a program without it. *)
EXTENDS CliHead

CONSTANTS w1, w2, w3, openai, ollama

Plain == [policy |-> "none", approver |-> FALSE, allowed |-> {}, simulate |-> FALSE, memo |-> "none",
          retries |-> 0, timeout |-> FALSE, key |-> "absent", suiNetwork |-> "testnet",
          perMinute |-> Unlimited,
          audit |-> FALSE]

\* The CLI as it is, with an audit trail, and with the resilience or the trading-policy skill.
Audited == [Plain EXCEPT !.audit = TRUE]
Resilient == [Plain EXCEPT !.retries = 1, !.timeout = TRUE, !.memo = "toolCache", !.key = "testnet"]
Watched == [Resilient EXCEPT !.audit = TRUE, !.retries = 0]
Guarded == [Plain EXCEPT !.policy = "trading", !.key = "testnet"]

\* Programs on the library: one with the trading agent's policy, and one with every other
\* middleware.
Trader == [Guarded EXCEPT !.approver = TRUE, !.allowed = {"erc20_transfer"}]
Careful(allowed, key) ==
  [Plain EXCEPT !.policy = "transfer", !.approver = TRUE, !.allowed = allowed, !.simulate = TRUE, !.memo = "idempotency",
                !.retries = 1, !.key = key, !.perMinute = 2]

Sends == {n \in DOMAIN registry : "submit" \in ToSet(registry[n].awaits)}

Opt(tool, arg, opt) == [tool |-> tool, arg |-> arg, opt |-> opt, key |-> "absent"]
R(tool, arg) == Opt(tool, arg, "none")
K(tool, arg) == [tool |-> tool, arg |-> arg, opt |-> "none", key |-> "k"]

Programs == {Trader, Careful(Sends, "testnet"), Careful(Sends, "mainnet"), Careful({}, "testnet")}
MCAgents == {Plain, Audited, Resilient, Watched, Guarded} \cup Programs

MCAsks(how) ==
  CASE how = Plain -> {Opt("sui_import_wallet", w3, "aside"), Opt("sui_setup", "generate", "mainnet"),
                       R("sui_use_wallet", w2)}
    [] how = Audited -> {R("sui_wallets", "all"), R("sui_transfer", "ok"), R("delegate_task", "ok"),
                         Opt("sui_create_wallet", "generate", "activate")}
    [] how = Watched -> {R("delegate_task", "ok")}
    [] how = Resilient -> {Opt("sui_create_wallet", "generate", "aside"), R("erc20_approve", "ok"),
                           Opt("sui_import_wallet", w2, "activate"), Opt("sui_import_wallet", "no key", "activate")}
    [] how \in {Guarded, Trader} ->
         {R("erc20_transfer", "ok"), R("erc20_transfer", "over"), Opt("sui_setup", "generate", "testnet"),
          R("sui_move_call", "ok"), R("mcp_tool", "ok"), R("skill_create", "refused")}
    [] OTHER -> {K("evm_send_native", "ok"), K("erc20_approve", "ok"),
                 K("solana_send_sol", "ok"), R("erc20_transfer", "ok")}

\* The file: nothing in it; the legacy shape; two wallets and two providers.
Files == {EmptyConfig,
          [EmptyConfig EXCEPT !.legacy = w1, !.oldModel = [id |-> openai, model |-> "large"]],
          [EmptyConfig EXCEPT !.wallets = <<w1, w2>>, !.active = w2,
                              !.providers = <<[id |-> openai, model |-> "large"], [id |-> ollama, model |-> "large"]>>,
                              !.activeId = openai]}

MCInit ==
  /\ \/ at = "prompt" /\ chain = Plain /\ file \in Files
     \/ at = "prompt" /\ chain \in {Audited, Resilient, Watched, Guarded}
        /\ file = [EmptyConfig EXCEPT !.wallets = <<w1, w2>>]
     \/ at = "library" /\ file = [EmptyConfig EXCEPT !.legacy = w1]
        /\ chain \in Programs
  /\ CliInit
  /\ chain = Plain \/ term.runs = MaxTerminal
  /\ session = IF chain \in {Audited, Watched} THEN 1 ELSE MaxSessions

Spec == MCInit /\ [][CliNext]_vars
===============================================================================
