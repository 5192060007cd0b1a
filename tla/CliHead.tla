------------------------------- MODULE CliHead --------------------------------
(***************************************************************************)
(* The interactive CLI (heads/cli, main.ts): one prompt, one turn at a     *)
(* time, the wallet tools, which write config.json and swap the live       *)
(* signer, the menus, which write it too and swap the live model, and the  *)
(* audit trail, whose buffer is flushed in the background after a turn.    *)
(* Beside it the user may run other commands in a second terminal          *)
(* (CliConfig), and the agent's tools run behind the middleware of the     *)
(* loaded skills (ToolChain).  A program built on the library instead, as  *)
(* the trading agent is, has no prompt: its runs call tools side by side.  *)
(***************************************************************************)
EXTENDS CliConfig, ToolChain

CONSTANTS
  Agents,      \* how agents are created
  Asks(_),     \* the requests a model makes of such an agent
  MaxTurns, MaxSessions  \* bounds

ASSUME NoSignerIsNone == NoSigner = None

ASSUME AsksAssumption ==
  \A agent \in Agents :
    /\ agent \in Agent
    /\ \A r \in Asks(agent) :
         /\ IsRequest(r)
         /\ r.tool = "sui_import_wallet" => r.arg \in Wallets \cup {"no key"}
         /\ r.tool = "sui_setup" => r.opt \in Networks

ASSUME BoundsAssumption == MaxTurns \in Nat /\ MaxSessions \in Nat

VARIABLES
  at,      \* what the process is doing
  session, \* currentSessionId
  turns,   \* the turns so far: the session of each, and how it ended
  esc,     \* Esc was pressed in this turn
  copy,    \* the configuration the open menu has loaded
  model,   \* activeModel
  buffer,  \* walrusAudit: the turns that have entries in the buffer
  late,    \* and the entries in it of attempts that nobody waits for any more
  uploads, \* its flushes: session, turns, late entries and what became of them
  strayed  \* ghost: the file's active wallet was changed without the live signer

auditVars == <<buffer, late, uploads>>
cliVars == <<at, session, turns, esc, copy, model, auditVars, strayed>>
vars == <<configVars, chainVars, cliVars>>

-----------------------------------------------------------------------------
(* The wallet tools. *)

\* What execute throws before it awaits anything.
Throws(r) == \/ r.tool = "sui_use_wallet" /\ r.arg \notin ToSet(suiWalletsOf(file))
             \/ r.tool = "sui_export_wallet" /\ activeSuiWallet(file) = None
             \/ r.tool = "sui_import_wallet" /\ r.arg = "no key"
             \/ r.tool \in {"skill_create", "skill_install"} /\ r.arg = "refused"

\* What a start on this network makes of a file.
SignerOf(c, network) ==
  IF activeSuiWallet(c) = None THEN NoSigner
  ELSE [wallet |-> activeSuiWallet(c), network |-> network]

\* The network is the one the process was started on, whatever sui_setup has chosen since.
activateSigner(w) == signer' = [wallet |-> w, network |-> chain.suiNetwork]

\* saveSuiWallet of a file that has just been read, and activateSigner if it is to be active.
\* With no activeAddress in the file the new wallet becomes the active one all the same.
AddWallet(w, makeActive) ==
  /\ saveConfig(saveSuiWallet(file, chain.suiNetwork, w, makeActive), file, {w})
  /\ known' = known \cup {w}
  /\ IF makeActive THEN activateSigner(w) ELSE UNCHANGED signer
  /\ strayed' = (~makeActive /\ (strayed \/ file.active = None))

\* The key pair is there: what the tool does with it.
KeyReady(r) ==
  \/ /\ r.tool = "sui_create_wallet"
     /\ \E w \in Wallets \ known : AddWallet(w, r.opt = "activate")
  \/ /\ r.tool = "sui_import_wallet"
     /\ AddWallet(r.arg, r.opt = "activate")
  \/ /\ r.tool = "sui_setup"
     /\ \E w \in (Wallets \ known) \cup (Wallets \cap {r.arg}) :
          /\ r.arg \in Wallets => w = r.arg
          /\ saveSetup(w, r.opt) /\ known' = known \cup {w}
          /\ signer' = [wallet |-> w, network |-> r.opt] /\ strayed' = FALSE

\* A bug: the file is switched, and the signer with the next start.
useWallet_FileOnly(w) ==
  /\ saveConfig([file EXCEPT !.active = w], file, {})
  /\ UNCHANGED <<signer, known>>
  /\ strayed' = FALSE

\* sui_use_wallet, in one go.
useWallet(w) ==
  /\ saveConfig([file EXCEPT !.active = w], file, {})
  /\ activateSigner(w)
  /\ UNCHANGED known
  /\ strayed' = FALSE

NoWalletEffect == UNCHANGED <<file, kept, known, signer, strayed>>

\* The effect of an attempt that gets as far as execute without an await.
AtOnceEffect(r) ==
  IF r.tool = "sui_use_wallet" /\ RunsAtOnce(r, Throws(r)) THEN useWallet(r.arg) ELSE NoWalletEffect

-----------------------------------------------------------------------------
(* A turn. *)

\* The user's line: the run starts, and logs session_start.
Submit == /\ at = "prompt" /\ Len(turns) < MaxTurns
          /\ at' = "thinking" /\ esc' = FALSE
          /\ turns' = Append(turns, [session |-> session, ended |-> "no"])
          /\ buffer' = IF chain.audit THEN buffer \cup {Len(turns')} ELSE buffer
          /\ UNCHANGED <<session, copy, model, late, uploads, strayed, configVars, chainVars>>

\* Esc aborts the request to the model; tools that run are not told.
Escape == /\ at \in {"thinking", "acting"} /\ ~esc
          /\ esc' = TRUE
          /\ UNCHANGED <<at, session, turns, copy, model, auditVars, strayed, configVars, chainVars>>

\* The model's answer asks for tools, or the loop starts the next one of its batch; a run of
\* another program does it whenever it gets there.
Act(c, r) == /\ at \in {"acting", "library"} \/ (at = "thinking" /\ ~esc)
             /\ at' = IF at = "thinking" THEN "acting" ELSE at
             /\ Issue(c, r, Throws(r))
             /\ AtOnceEffect(r)
             /\ UNCHANGED <<term, session, turns, esc, copy, model, auditVars>>

Again(c) == /\ Retry(c, Throws(req[c]))
            /\ AtOnceEffect(req[c])
            /\ UNCHANGED <<term, at, session, turns, esc, copy, model, auditVars>>

\* What a tool awaits settles; the last await of a wallet tool is the key pair's.  What the
\* attempt then logs is in the buffer, behind the turn that gave it up too.
Settle(c, n, reply) ==
  /\ Step(c, n, reply, Throws(req[c]))
  /\ IF Head(att[c][n].todo) = "import" /\ reply.how = "next" THEN KeyReady(req[c]) ELSE NoWalletEffect
  /\ late' = IF chain.audit /\ ~Awaited(c, n) /\ Logs(Head(att[c][n].todo), reply, req[c])
             THEN late \cup {<<c, n, Len(att[c][n].todo)>>} ELSE late
  /\ UNCHANGED <<term, at, session, turns, esc, copy, model, buffer, uploads>>

Late(c) == /\ TimeOut(c)
           /\ NoWalletEffect
           /\ UNCHANGED <<term, at, session, turns, esc, copy, model, auditVars>>

Forget == /\ MinuteOver
          /\ NoWalletEffect
          /\ UNCHANGED <<term, at, session, turns, esc, copy, model, auditVars>>

\* Every call of the batch has its observation.
Observe == /\ at = "acting" /\ \A c \in Calls : call[c] \in {"unused", "answered", "failed"}
           /\ at' = "thinking"
           /\ UNCHANGED <<session, turns, esc, copy, model, auditVars, strayed, configVars, chainVars>>

EndTurn(how) == /\ at = "thinking" /\ at' = "prompt"
                /\ turns' = [turns EXCEPT ![Len(turns)].ended = how]

Flush == IF buffer = {} /\ late = {} THEN uploads
         ELSE Append(uploads, [session |-> session, turns |-> buffer, late |-> late, state |-> "flying"])

\* A bug: the buffer is reset when the upload has landed.
Answer_NoReset == /\ EndTurn("answered")
                  /\ uploads' = Flush /\ UNCHANGED <<buffer, late>>
                  /\ UNCHANGED <<session, esc, copy, model, strayed, configVars, chainVars>>

\* The run answers: its log and whatever else is in the buffer go up under the session of now.
Answer == /\ EndTurn("answered")
          /\ uploads' = Flush /\ buffer' = {} /\ late' = {}
          /\ UNCHANGED <<session, esc, copy, model, strayed, configVars, chainVars>>

\* The run throws: cancelled, or an error of the model.  Nothing is flushed.
TurnDies == /\ EndTurn("died")
            /\ UNCHANGED <<session, esc, copy, model, auditVars, strayed, configVars, chainVars>>

Land == \E i \in DOMAIN uploads, how \in {"stored", "lost"} :
          /\ uploads[i].state = "flying"
          /\ uploads' = [uploads EXCEPT ![i].state = how]
          /\ UNCHANGED <<at, session, turns, esc, copy, model, buffer, late, strayed, configVars, chainVars>>

-----------------------------------------------------------------------------
(* The slash commands that change something. *)

New == /\ at = "prompt" /\ session < MaxSessions
       /\ session' = session + 1
       /\ UNCHANGED <<at, turns, esc, copy, model, auditVars, strayed, configVars, chainVars>>

\* A menu writes its copy back.  If the file has changed since, its wallets go with it.
SaveMenu(c, base) ==
  /\ saveConfig(c, base, {})
  /\ strayed' = (strayed \/ base # file)
  /\ at' = "prompt" /\ copy' = EmptyConfig
  /\ UNCHANGED <<session, turns, esc, auditVars, term, known, chainVars>>

connectTo(c, base) == \E p \in ToSet(providersOf(c)) :
                        /\ SaveMenu(setActiveProvider(c, p.id), base)
                        /\ model' = ProviderWith(c, p.id)

setModel(c, base) == \E m \in Models :
                       LET p == [activeProvider(c) EXCEPT !.model = m] IN
                       /\ SaveMenu(saveProvider(c, p, TRUE), base)
                       /\ model' = p

\* With an argument the command loads and saves in one go; without one it asks first.
OpenMenu(menu) == /\ at = "prompt" /\ providersOf(file) # <<>>
                  /\ at' = menu /\ copy' = file
                  /\ UNCHANGED <<session, turns, esc, model, auditVars, strayed, configVars, chainVars>>

handleConnect == \/ at = "prompt" /\ connectTo(file, file)
                 \/ OpenMenu("connect")
                 \/ at = "connect" /\ connectTo(copy, copy)

handleModels == \/ at = "prompt" /\ providersOf(file) # <<>> /\ setModel(file, file)
                \/ OpenMenu("models")
                \/ at = "models" /\ setModel(copy, copy)

\* A blank answer, or Ctrl-D.
MenuCancel == /\ at \in {"connect", "models"}
              /\ at' = "prompt" /\ copy' = EmptyConfig
              /\ UNCHANGED <<session, turns, esc, model, auditVars, strayed, configVars, chainVars>>

\* Ctrl-D.  What is under way goes on until it is done.
Exit == /\ at = "prompt" /\ at' = "gone"
        /\ UNCHANGED <<session, turns, esc, copy, model, auditVars, strayed, configVars, chainVars>>

\* Ctrl-C at a prompt: process.exit, with whatever is under way.
CtrlC == /\ at \in {"prompt", "connect", "models"} /\ at' = "gone" /\ copy' = EmptyConfig
         /\ uploads' = [i \in DOMAIN uploads |->
                          [uploads[i] EXCEPT !.state = IF @ = "flying" THEN "lost" ELSE @]]
         /\ att' = [c \in Calls |-> [n \in DOMAIN att[c] |-> [att[c][n] EXCEPT !.todo = <<>>]]]
         /\ UNCHANGED <<session, turns, esc, model, buffer, late, strayed, configVars,
                        chain, signer, req, call, tries, memo, hits, beside>>

\* The other terminal: the wallet that `thiny sui init` makes active is news to the running
\* CLI, and what either command writes from a copy that is no longer the file.
OtherTerminal ==
  /\ at # "library" /\ Terminal
  /\ strayed' = (strayed \/ (file' # file /\ (term.does = "sui init" \/ term.copy # file)))
  /\ UNCHANGED <<at, session, turns, esc, copy, model, auditVars, chainVars>>

-----------------------------------------------------------------------------
\* What the process has at its first prompt: the signer and the model of the file.
CliInit == /\ at \in {"prompt", "library"} /\ chain \in Agents
           /\ ConfigInit /\ ChainInit
           /\ session \in 1..MaxSessions /\ turns = <<>> /\ esc = FALSE /\ copy = EmptyConfig
           /\ chain.suiNetwork = file.network
           /\ signer = SignerOf(file, chain.suiNetwork) /\ model = activeProvider(file)
           /\ buffer = {} /\ late = {} /\ uploads = <<>> /\ strayed = FALSE

CliNext == \/ Submit \/ Escape \/ Observe \/ Answer \/ TurnDies \/ Land
           \/ New \/ handleConnect \/ handleModels \/ MenuCancel \/ Exit \/ CtrlC \/ OtherTerminal \/ Forget
           \/ \E c \in Calls :
                \/ \E r \in Asks(chain) : Act(c, r)
                \/ Again(c) \/ Late(c)
                \/ \E n \in {m \in DOMAIN att[c] : att[c][m].todo # <<>>} :
                     \E reply \in Replies(Head(att[c][n].todo), req[c]) : Settle(c, n, reply)

CliSpec == CliInit /\ [][CliNext]_vars

-----------------------------------------------------------------------------
TypeOK ==
  /\ at \in {"prompt", "thinking", "acting", "connect", "models", "gone", "library"}
  /\ file \in ThinyConfig /\ term.copy \in ThinyConfig /\ copy \in ThinyConfig
  /\ kept \subseteq Wallets /\ known \subseteq Wallets
  /\ signer \in [wallet : Wallets, network : Networks] \cup {None} /\ model \in Provider \cup {None}
  /\ session \in 1..MaxSessions /\ Len(turns) <= MaxTurns
  /\ \A i \in DOMAIN turns : turns[i].ended \in {"no", "answered", "died"}
  /\ buffer \subseteq DOMAIN turns /\ late \subseteq Calls \X Nat \X Nat
  /\ \A c \in Calls : /\ call[c] \in {"unused", "running", "backoff", "answered", "failed"}
                      /\ tries[c] = Len(att[c]) /\ tries[c] \in 0..(chain.retries + 1)
  /\ beside \subseteq Calls
  /\ IF chain.perMinute = Unlimited THEN hits = 0 ELSE hits \in 0..chain.perMinute
  /\ esc \in BOOLEAN /\ strayed \in BOOLEAN

\* The CLI signs as the wallet that the file calls active, on the network that the file names,
\* after every tool, menu, failure and late answer.  There are three exceptions.  Another process
\* wrote the file.  A wallet was added to a file that names no active one and was not to be
\* activated: then the file makes it active, and the process does not.  And once sui_setup has
\* chosen another network than that of the start, a wallet picked by sui_use_wallet signs on the
\* network of the start.
SignerIsActive ==
  \/ at = "library" \/ strayed
  \/ signer = SignerOf(file, file.network)
  \/ file.network # chain.suiNetwork /\ signer = SignerOf(file, chain.suiNetwork)

\* "Store this turn's action log": what the run of an answered turn logged goes up in one
\* upload, under the turn's session, and in no other, and nothing of it stays behind ("clearing
\* it now can't drop entries from the in-flight upload").  Only this one upload is tried: when it
\* fails, or the process ends before it lands, the turn is in no trail.  What else an upload may
\* carry, of whichever session: turns that were cancelled or failed, and entries that attempts
\* logged after they had timed out, each of them once.
TurnsUploadedOnce ==
  /\ \A i \in DOMAIN turns :
       chain.audit /\ turns[i].ended = "answered" =>
         /\ i \notin buffer
         /\ \E u \in DOMAIN uploads :
              /\ i \in uploads[u].turns /\ uploads[u].session = turns[i].session
              /\ \A v \in DOMAIN uploads : i \in uploads[v].turns => v = u
  /\ \A u \in DOMAIN uploads :
       /\ \A i \in uploads[u].turns : turns[i].session = uploads[u].session \/ turns[i].ended = "died"
       /\ \A e \in uploads[u].late :
            /\ att[e[1]][e[2]].shaky
            /\ e \notin late /\ \A v \in DOMAIN uploads : e \in uploads[v].late => v = u
=============================================================================
