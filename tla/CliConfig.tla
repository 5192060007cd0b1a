------------------------------ MODULE CliConfig -------------------------------
(***************************************************************************)
(* ~/.thiny/config.json (heads/cli, onboarding.ts): the wallets and model  *)
(* providers of one user, in their present and their legacy shapes, and    *)
(* the other terminal, in which `thiny init` or `thiny sui init` asks its  *)
(* questions while the chat runs.  Every writer loads the whole file,      *)
(* changes its copy and writes the whole copy back.                        *)
(***************************************************************************)
EXTENDS Naturals, SequencesExt

CONSTANTS
  Wallets,     \* key pairs; a wallet's address and its secret key are one value here
  Providers,   \* ids of model providers
  Models,      \* model strings
  MaxTerminal, \* bound: commands run in the other terminal
  None

ASSUME NoneAssumption == None \notin Wallets

VARIABLES
  file,   \* config.json
  kept,   \* ghost: the wallets whose keys the file has to hold
  term,   \* the other terminal: the command it runs and the copy it loaded
  known   \* the key pairs that exist: generated here, or held by the user to import

configVars == <<file, kept, term, known>>

Provider == [id : Providers, model : Models]
Networks == {"testnet", "mainnet"}

\* ThinyConfig: sui.wallets, sui.activeAddress, sui.network, and the legacy pair sui.wallet and
\* sui.address; providers, activeProviderId, and the legacy model, baseUrl and apiKey.  A file
\* without a sui section is one for testnet, as the start takes it.
ThinyConfig == [wallets : Seq(Wallets), active : Wallets \cup {None}, legacy : Wallets \cup {None},
                network : Networks, providers : Seq(Provider), activeId : Providers \cup {None},
                oldModel : Provider \cup {None}]

EmptyConfig == [wallets |-> <<>>, active |-> None, legacy |-> None, network |-> "testnet",
                providers |-> <<>>, activeId |-> None, oldModel |-> None]

-----------------------------------------------------------------------------
\* The list, or else what the legacy shape holds.
Listed(list, legacy) == CASE list # <<>> -> list
                          [] list = <<>> /\ legacy # None -> <<legacy>>
                          [] OTHER -> <<>>

suiWalletsOf(c) == Listed(c.wallets, c.legacy)

\* The wallet the signer should use: the active one, or the first.
activeSuiWallet(c) ==
  LET all == suiWalletsOf(c)
      want == IF c.active # None THEN c.active ELSE c.legacy
  IN  CASE want \in ToSet(all) -> want
        [] want \notin ToSet(all) /\ all # <<>> -> Head(all)
        [] OTHER -> None

\* No list the code has written has an address, or an id, twice.
NoneTwice(c) ==
  /\ \A i, j \in DOMAIN c.wallets : c.wallets[i] = c.wallets[j] => i = j
  /\ \A i, j \in DOMAIN c.providers : c.providers[i].id = c.providers[j].id => i = j

\* list.filter(...) and push(x): x goes behind the others, and the one entry in place `old`,
\* if there is one, away.
Put(list, old, x) == Append(IF old = {} THEN list ELSE RemoveAt(list, CHOOSE i \in old : TRUE), x)

Places(list, w) == {i \in DOMAIN list : list[i] = w}

\* A bug: the list starts from what is in it, and the legacy wallet is dropped.
saveSuiWallet_ListOnly(c, network, w, makeActive) ==
  [c EXCEPT !.wallets = Put(c.wallets, Places(c.wallets, w), w),
            !.legacy = None, !.network = network,
            !.active = IF makeActive \/ @ = None THEN w ELSE @]

\* Add a wallet, or replace it by address; the legacy mirror goes.
saveSuiWallet(c, network, w, makeActive) ==
  [c EXCEPT !.wallets = Put(suiWalletsOf(c), Places(suiWalletsOf(c), w), w),
            !.legacy = None, !.network = network,
            !.active = IF makeActive \/ @ = None THEN w ELSE @]

providersOf(c) == Listed(c.providers, c.oldModel)

HasProvider(c, id) == \E p \in ToSet(providersOf(c)) : p.id = id
ProviderWith(c, id) == CHOOSE p \in ToSet(providersOf(c)) : p.id = id

\* The provider the model layer should use: the active one, or the first.
activeProvider(c) == CASE HasProvider(c, c.activeId) -> ProviderWith(c, c.activeId)
                       [] ~HasProvider(c, c.activeId) /\ providersOf(c) # <<>> -> Head(providersOf(c))
                       [] OTHER -> None

saveProvider(c, p, makeActive) ==
  [c EXCEPT !.providers = Put(providersOf(c), {i \in DOMAIN providersOf(c) : providersOf(c)[i].id = p.id}, p),
            !.oldModel = None,
            !.activeId = IF makeActive \/ @ = None THEN p.id ELSE @]

\* The migrated list is written too; the legacy fields stay.
setActiveProvider(c, id) == [c EXCEPT !.providers = providersOf(c), !.activeId = id]

-----------------------------------------------------------------------------
\* saveConfig of a copy that was made from `base`.  What the file has to hold afterwards
\* is what it held and the new wallet, unless someone wrote between the load and the save.
saveConfig(c, base, new) ==
  /\ file' = c
  /\ kept' = (IF base = file THEN kept ELSE kept \cap ToSet(suiWalletsOf(c))) \cup new

\* sui_setup replaces the whole sui section, and with it every other wallet.
saveSetup(w, network) ==
  /\ file' = [file EXCEPT !.wallets = <<>>, !.active = None, !.legacy = w, !.network = network]
  /\ kept' = {w}

\* A file that the code has written: what it calls active is in it.
ConfigInit == /\ file \in ThinyConfig /\ NoneTwice(file)
              /\ file.active # None => file.active \in ToSet(suiWalletsOf(file))
              /\ kept = ToSet(suiWalletsOf(file))
              /\ \E n \in 0..MaxTerminal : term = [does |-> "nothing", copy |-> EmptyConfig, runs |-> n]
              /\ known = kept

-----------------------------------------------------------------------------
TermStep(does, copy) == term' = [term EXCEPT !.does = does, !.copy = copy]

\* The command loads the file and asks its questions.
TermOpen == /\ term.does = "nothing" /\ term.runs < MaxTerminal
            /\ \E cmd \in {"init", "sui init"} :
                 term' = [does |-> cmd, copy |-> file, runs |-> term.runs + 1]
            /\ UNCHANGED <<file, kept, known>>

\* `thiny init`: the answers make a provider, and the copy is saved with it.
baseSetup == /\ term.does = "init"
             /\ \E p \in Provider : saveConfig(saveProvider(term.copy, p, TRUE), term.copy, {})
             /\ TermStep("nothing", EmptyConfig)
             /\ UNCHANGED known

\* `thiny sui init`: a network is chosen, and the wallet is generated, or pasted; with the choice "rill" one more
\* question follows, and the same copy is saved a second time with its answer.
suiInit == /\ term.does = "sui init"
           /\ \E w \in Wallets, network \in Networks, rill \in BOOLEAN :
                LET c == saveSuiWallet(term.copy, network, w, TRUE) IN
                /\ rill => w \notin known
                /\ saveConfig(c, term.copy, {w})
                /\ known' = known \cup {w}
                /\ IF rill THEN TermStep("rill", c) ELSE TermStep("nothing", EmptyConfig)

rillUrl == /\ term.does = "rill"
           /\ saveConfig(term.copy, term.copy, {})
           /\ TermStep("nothing", EmptyConfig)
           /\ UNCHANGED known

\* A prompt is cancelled: process.exit(0).
bail == /\ term.does # "nothing"
        /\ TermStep("nothing", EmptyConfig)
        /\ UNCHANGED <<file, kept, known>>

Terminal == TermOpen \/ baseSetup \/ suiInit \/ rillUrl \/ bail

-----------------------------------------------------------------------------
\* No key is lost: whatever tools, menus and terminals wrote, the file holds every wallet
\* that was ever put into it, over the change from the legacy shape to the list too.  Lost
\* are only the wallets that sui_setup replaced, and those that a save of a copy did not
\* know because the file had changed since the copy was loaded.
KeysKept == kept \subseteq ToSet(suiWalletsOf(file))
=============================================================================
