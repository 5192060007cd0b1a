SPECIFICATION Spec
CONSTANTS
  w1 = w1
  w2 = w2
  w3 = w3
  openai = openai
  ollama = ollama
  None = None
  NoSigner = None
  Unlimited = Unlimited
  Wallets = {w1, w2, w3}
  Providers = {openai, ollama}
  Models = {"large"}
  Calls = {1, 2}
  Agents <- MCAgents
  Asks <- MCAsks
  MaxTerminal = 1
  MaxTurns = 2
  MaxSessions = 2
INVARIANTS TypeOK KeysKept SignerIsActive PaidOnce TurnsUploadedOnce
CHECK_DEADLOCK FALSE
