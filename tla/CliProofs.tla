------------------------------ MODULE CliProofs -------------------------------
(***************************************************************************)
(* Proofs about CliHead, with CliConfig and ToolChain: for every set of    *)
(* wallets, providers, agents and requests, and for every number of calls, *)
(* turns and sessions.                                                     *)
(*                                                                         *)
(* The inductive invariant has four parts: the configuration with what the *)
(* process holds of it, the turns with their log, the calls with their     *)
(* attempts, and the entries that attempts log after they have timed out.  *)
(***************************************************************************)
EXTENDS CliHead, SequenceTheorems, FiniteSetTheorems, TLAPS

Stages == {"approve", "simulate", "fetch", "spawn", "inspect", "submit", "confirm", "import"}
AttemptType == [todo : Seq(Stages), sent : BOOLEAN, shaky : BOOLEAN]

\* A configuration in which nothing is listed twice, and what is called active is listed.
Consistent(c) == c \in ThinyConfig /\ NoneTwice(c) /\ (c.active # None => c.active \in ToSet(suiWalletsOf(c)))

Signer == [wallet : Wallets, network : Networks]

ConfigTypes ==
  /\ Consistent(file) /\ Consistent(copy) /\ Consistent(term.copy)
  /\ term = [does |-> term.does, copy |-> term.copy, runs |-> term.runs]
  /\ kept \subseteq Wallets /\ known \subseteq Wallets
  /\ signer \in Signer \cup {None} /\ chain.suiNetwork \in Networks /\ model \in Provider \cup {None}
  /\ strayed \in BOOLEAN
  /\ at \in {"connect", "models"} => providersOf(copy) # <<>>

\* A signer that fits a configuration: on the network of the start, or, as sui_setup leaves the
\* two, on that of the configuration, which then names no active wallet.
Signed(s, c, network) == s = SignerOf(c, network) \/ (c.active = None /\ s = SignerOf(c, c.network))

Signing == at # "library" => strayed \/ Signed(signer, file, chain.suiNetwork)

ConfigInv == ConfigTypes /\ KeysKept /\ Signing

\* The process: a turn that is under way is the last one, and in the current session.
InTurn == at \in {"thinking", "acting"}
Turn == [session : 1..MaxSessions, ended : {"no", "answered", "died"}]
Entry == Calls \X Nat \X Nat
Upload == [session : 1..MaxSessions, turns : SUBSET Nat, late : SUBSET Entry,
           state : {"flying", "stored", "lost"}]

TurnTypes ==
  /\ at \in {"prompt", "thinking", "acting", "connect", "models", "gone", "library"}
  /\ session \in 1..MaxSessions /\ esc \in BOOLEAN /\ chain \in Agents
  /\ turns \in Seq(Turn) /\ Len(turns) <= MaxTurns
  /\ uploads \in Seq(Upload) /\ late \subseteq Entry
  /\ buffer \subseteq DOMAIN turns /\ \A u \in DOMAIN uploads : uploads[u].turns \subseteq DOMAIN turns
  /\ InTurn => turns # <<>> /\ turns[Len(turns)].session = session
  /\ \A i \in DOMAIN turns : turns[i].ended = "no" <=> i = Len(turns) /\ InTurn

\* What has been logged of a turn is in the buffer or in one upload: in the buffer until the
\* turn, or one after it, is answered.
LoggedInOnePlace ==
  /\ \A i \in DOMAIN turns : chain.audit =>
       /\ turns[i].ended = "no" => i \in buffer
       /\ turns[i].ended = "answered" => \E u \in DOMAIN uploads : i \in uploads[u].turns
  /\ \A i \in buffer : turns[i].ended # "answered" /\ \A u \in DOMAIN uploads : i \notin uploads[u].turns
  /\ \A u \in DOMAIN uploads : \A i \in uploads[u].turns :
       /\ turns[i].ended # "no"
       /\ turns[i].ended = "answered" => turns[i].session = uploads[u].session
       /\ \A v \in DOMAIN uploads : i \in uploads[v].turns => v = u

TurnInv == TurnTypes /\ LoggedInOnePlace

CallTypes ==
  /\ req = [c \in Calls |-> req[c]] /\ call = [c \in Calls |-> call[c]] /\ tries = [c \in Calls |-> tries[c]]
  /\ att \in [Calls -> Seq(AttemptType)] /\ chain \in Agents /\ beside \subseteq Calls
  /\ \A c \in Calls :
       /\ call[c] \in {"unused", "running", "backoff", "answered", "failed"}
       /\ tries[c] = Len(att[c]) /\ tries[c] <= chain.retries + 1
       /\ call[c] = "backoff" => tries[c] <= chain.retries
       /\ call[c] = "unused" <=> tries[c] = 0
       /\ call[c] # "unused" => req[c] \in Asks(chain)
  /\ IF chain.perMinute = Unlimited THEN hits = 0 ELSE hits \in 0..chain.perMinute

\* Between the turns of the CLI, no call is waited for.
QuietBetweenTurns == at \notin {"acting", "library"} => \A c \in Calls : call[c] \notin {"running", "backoff"}

Current(c, n) == call[c] = "running" /\ n = Len(att[c])

\* The attempt of a call that is waited for is under way.  One that is not has ended or timed
\* out; if it put a transaction on the chain, it answered, and is remembered, or its failure is
\* one that explains another payment.
Attempts ==
  \A c \in Calls : \A n \in DOMAIN att[c] :
    IF Current(c, n) THEN att[c][n].todo # <<>>
    ELSE /\ att[c][n].todo = <<>> \/ att[c][n].shaky
         /\ att[c][n].sent /\ ~att[c][n].shaky =>
              /\ n = Len(att[c]) /\ call[c] = "answered"
              /\ Memoises(req[c]) => MemoKey(req[c]) \in memo

SameEntry(c, d) == c # d /\ Memoises(req[c]) /\ Memoises(req[d]) /\ MemoKey(req[c]) = MemoKey(req[d])
Paid(c) == \E n \in DOMAIN att[c] : att[c][n].sent
Explained(c) == \E n \in DOMAIN att[c] : att[c][n].shaky

\* Under way, or paid, and nothing of it has timed out.
Involved(c) == call[c] # "unused" /\ (UnderWay(c) \/ (Paid(c) /\ ~Explained(c)))

\* Of two such calls with one entry, one began beside the other.
BesideEachOther ==
  \A c, d \in Calls : SameEntry(c, d) /\ Involved(c) /\ Involved(d) => c \in beside \/ d \in beside

\* An attempt to import a wallet awaits the gates that are left and then the key pair, and the
\* key pair alone only with a key.
ImportAwaits(r, todo) ==
  \/ todo = <<>>
  \/ todo \in {<<"approve", "import">>, <<"simulate", "import">>, <<"approve", "simulate", "import">>}
  \/ todo = <<"import">> /\ r.arg \in Wallets

ImportHasKey ==
  \A c \in Calls : \A n \in DOMAIN att[c] :
    req[c].tool = "sui_import_wallet" => ImportAwaits(req[c], att[c][n].todo)

\* An import without a key throws.
MindsKey(r, throws) == r.tool = "sui_import_wallet" /\ r.arg = "no key" => throws

CallInv == CallTypes /\ QuietBetweenTurns /\ Attempts /\ BesideEachOther /\ ImportHasKey

\* The attempt that logged this entry has timed out, and has come further since.
GivenUp(e) == /\ e[2] \in DOMAIN att[e[1]] /\ att[e[1]][e[2]].shaky
              /\ Len(att[e[1]][e[2]].todo) < e[3]

\* Such an entry is in the buffer or in one upload.
LateInOnePlace ==
  /\ \A e \in late : GivenUp(e)
  /\ \A u \in DOMAIN uploads : \A e \in uploads[u].late :
       /\ GivenUp(e) /\ e \notin late
       /\ \A v \in DOMAIN uploads : e \in uploads[v].late => v = u

IInv == ConfigInv /\ TurnInv /\ CallInv /\ LateInOnePlace

-----------------------------------------------------------------------------
(* The configuration's operators. *)

\* What RemoveAt leaves.
LEMMA RemoveAtIs ==
  ASSUME NEW S, NEW q \in Seq(S), NEW i \in DOMAIN q
  PROVE  /\ RemoveAt(q, i) \in Seq(S) /\ Len(RemoveAt(q, i)) = Len(q) - 1
         /\ \A j \in 1..(Len(q) - 1) : RemoveAt(q, i)[j] = IF j < i THEN q[j] ELSE q[j + 1]
<1> DEFINE front == SubSeq(q, 1, i - 1)
           back == SubSeq(q, i + 1, Len(q))
<1>1. i \in 1..Len(q) /\ Len(q) \in Nat /\ \A j \in 1..Len(q) : q[j] \in S
  OBVIOUS
<1>2. /\ front \in Seq(S) /\ Len(front) = i - 1
      /\ \A j \in 1..(i - 1) : front[j] = q[j]
  BY <1>1, SubSeqProperties
<1>3. /\ back \in Seq(S) /\ Len(back) = Len(q) - i
      /\ \A j \in 1..(Len(q) - i) : back[j] = q[i + j]
  BY <1>1, SubSeqProperties
<1> HIDE DEF front, back
<1>4. /\ front \o back \in Seq(S) /\ Len(front \o back) = Len(q) - 1
      /\ \A j \in 1..(Len(q) - 1) : (front \o back)[j] = IF j <= i - 1 THEN front[j] ELSE back[j - (i - 1)]
  BY <1>1, <1>2, <1>3, ConcatProperties
<1>5. \A j \in 1..(Len(q) - 1) : (front \o back)[j] = IF j < i THEN q[j] ELSE q[j + 1]
  <2> SUFFICES ASSUME NEW j \in 1..(Len(q) - 1)
               PROVE  (front \o back)[j] = IF j < i THEN q[j] ELSE q[j + 1]
    OBVIOUS
  <2>1. CASE j < i
    BY <1>1, <1>2, <1>4, <2>1
  <2>2. CASE ~(j < i)
    <3>1. j - (i - 1) \in 1..(Len(q) - i) /\ i + (j - (i - 1)) = j + 1
      BY <1>1, <2>2
    <3>2. (front \o back)[j] = back[j - (i - 1)]
      <4>1. ~(j <= i - 1)
        BY <1>1, <2>2
      <4> QED
        BY <1>4, <4>1
    <3> QED
      BY <1>3, <2>2, <3>1, <3>2
  <2> QED
    BY <2>1, <2>2
<1> QED
  BY <1>4, <1>5 DEF RemoveAt, front, back

\* Put puts x in, takes nothing else in, and loses no more than the entry in place `old`.
LEMMA PutIs ==
  ASSUME NEW S, NEW list \in Seq(S), NEW old \in SUBSET DOMAIN list, NEW x \in S
  PROVE  /\ Put(list, old, x) \in Seq(S) /\ Put(list, old, x) # <<>>
         /\ x \in ToSet(Put(list, old, x)) /\ ToSet(Put(list, old, x)) \subseteq ToSet(list) \cup {x}
         /\ (\A i \in old : list[i] = x) => ToSet(list) \subseteq ToSet(Put(list, old, x))
<1> DEFINE others == IF old = {} THEN list ELSE RemoveAt(list, CHOOSE i \in old : TRUE)
<1>1. /\ others \in Seq(S) /\ ToSet(others) \subseteq ToSet(list)
      /\ (\A i \in old : list[i] = x) => ToSet(list) \subseteq ToSet(others) \cup {x}
  <2>1. CASE old = {}
    BY <2>1
  <2>2. CASE old # {}
    <3>1. PICK i \in old : i = CHOOSE j \in old : TRUE
      BY <2>2
    <3>2. others = RemoveAt(list, i)
      BY <2>2, <3>1
    <3> HIDE DEF others
    <3>3. i \in 1..Len(list) /\ Len(list) \in Nat
      OBVIOUS
    <3>4. /\ others \in Seq(S) /\ Len(others) = Len(list) - 1
          /\ \A j \in 1..(Len(list) - 1) : others[j] = IF j < i THEN list[j] ELSE list[j + 1]
      BY <3>2, RemoveAtIs
    <3>5. ASSUME NEW j \in DOMAIN others PROVE others[j] \in ToSet(list)
      <4>1. j \in 1..(Len(list) - 1) /\ j \in DOMAIN list /\ j + 1 \in DOMAIN list
        BY <3>3, <3>4
      <4> QED
        BY <3>4, <4>1 DEF ToSet
    <3>6. ASSUME NEW j \in DOMAIN list, j # i PROVE list[j] \in ToSet(others)
      <4>1. CASE j < i
        <5>1. j \in 1..(Len(list) - 1) /\ j \in DOMAIN others
          BY <3>3, <3>4, <4>1
        <5> QED
          BY <3>4, <4>1, <5>1 DEF ToSet
      <4>2. CASE ~(j < i)
        <5>1. j - 1 \in 1..(Len(list) - 1) /\ j - 1 \in DOMAIN others /\ ~(j - 1 < i) /\ (j - 1) + 1 = j
          BY <3>3, <3>4, <3>6, <4>2
        <5>2. others[j - 1] = list[j]
          BY <3>4, <5>1
        <5> QED
          BY <5>1, <5>2 DEF ToSet
      <4> QED
        BY <4>1, <4>2
    <3>7. ASSUME \A k \in old : list[k] = x, NEW j \in DOMAIN list PROVE list[j] \in ToSet(others) \cup {x}
      <4>1. CASE j = i
        BY <3>7, <4>1
      <4>2. CASE j # i
        BY <3>6, <4>2
      <4> QED
        BY <4>1, <4>2
    <3>8. ToSet(others) \subseteq ToSet(list)
      BY <3>5 DEF ToSet
    <3>9. (\A k \in old : list[k] = x) => ToSet(list) \subseteq ToSet(others) \cup {x}
      <4>1. SUFFICES ASSUME \A k \in old : list[k] = x, NEW y \in ToSet(list)
                     PROVE  y \in ToSet(others) \cup {x}
        OBVIOUS
      <4>2. PICK j \in DOMAIN list : y = list[j]
        BY DEF ToSet
      <4> QED
        BY <3>7, <4>1, <4>2
    <3> QED
      BY <3>4, <3>8, <3>9
  <2> QED
    BY <2>1, <2>2
<1>2. Put(list, old, x) = Append(others, x)
  BY DEF Put
<1> HIDE DEF others
<1>3. /\ Append(others, x) \in Seq(S) /\ Len(Append(others, x)) = Len(others) + 1 /\ Len(others) \in Nat
      /\ \A j \in 1..Len(others) : Append(others, x)[j] = others[j]
      /\ Append(others, x)[Len(others) + 1] = x
  BY <1>1, AppendProperties
<1>4. ToSet(Append(others, x)) = ToSet(others) \cup {x}
  <2>1. DOMAIN Append(others, x) = 1..(Len(others) + 1) /\ DOMAIN others = 1..Len(others)
    BY <1>1, <1>3
  <2>2. 1..(Len(others) + 1) = 1..Len(others) \cup {Len(others) + 1}
    BY <1>3
  <2> QED
    BY <1>3, <2>1, <2>2 DEF ToSet
<1>5. Append(others, x) # <<>>
  BY <1>3
<1> QED
  BY <1>1, <1>2, <1>3, <1>4, <1>5

\* No two entries of a list have one key.
Apart(key, list) == \A i, j \in DOMAIN list : key[list[i]] = key[list[j]] => i = j

\* Put keeps a list free of repeated keys, when it takes away what has the new entry's key.
LEMMA PutKeepsApart ==
  ASSUME NEW S, NEW V, NEW key \in [S -> V], NEW list \in Seq(S), NEW x \in S, Apart(key, list),
         NEW old, old = {i \in DOMAIN list : key[list[i]] = key[x]},
         NEW new, new = Put(list, old, x)
  PROVE  Apart(key, new)
<1> DEFINE others == IF old = {} THEN list ELSE RemoveAt(list, CHOOSE i \in old : TRUE)
<1>1. /\ others \in Seq(S) /\ \A i \in DOMAIN others : key[others[i]] # key[x]
      /\ \A i, j \in DOMAIN others : key[others[i]] = key[others[j]] => i = j
  <2>1. CASE old = {}
    BY <2>1 DEF Apart
  <2>2. CASE old # {}
    <3>1. PICK k \in old : k = CHOOSE j \in old : TRUE
      BY <2>2
    <3>2. others = RemoveAt(list, k)
      BY <2>2, <3>1
    <3> HIDE DEF others
    <3>3. k \in 1..Len(list) /\ Len(list) \in Nat /\ DOMAIN list = 1..Len(list)
      OBVIOUS
    <3>4. /\ others \in Seq(S) /\ Len(others) = Len(list) - 1
          /\ \A j \in 1..(Len(list) - 1) : others[j] = IF j < k THEN list[j] ELSE list[j + 1]
      BY <3>2, RemoveAtIs
    <3> DEFINE from(j) == IF j < k THEN j ELSE j + 1
    <3>5. DOMAIN others = 1..(Len(list) - 1)
      BY <3>3, <3>4
    <3>6. \A j \in DOMAIN others : from(j) \in DOMAIN list /\ from(j) # k /\ others[j] = list[from(j)]
      BY <3>3, <3>4, <3>5
    <3>7. \A i, j \in DOMAIN others : from(i) = from(j) => i = j
      BY <3>3, <3>5
    <3> HIDE DEF from
    <3>8. \A i \in DOMAIN others : key[others[i]] # key[x]
      BY <3>1, <3>6
    <3> QED
      BY <3>4, <3>6, <3>7, <3>8 DEF Apart
  <2> QED
    BY <2>1, <2>2
<1>2. new = Append(others, x)
  BY DEF Put
<1> HIDE DEF others
<1>3. /\ Len(Append(others, x)) = Len(others) + 1 /\ Len(others) \in Nat
      /\ DOMAIN Append(others, x) = 1..(Len(others) + 1) /\ DOMAIN others = 1..Len(others)
      /\ \A j \in DOMAIN others : Append(others, x)[j] = others[j]
      /\ Append(others, x)[Len(others) + 1] = x
  BY <1>1, AppendProperties
<1>4. 1..(Len(others) + 1) = 1..Len(others) \cup {Len(others) + 1}
  BY <1>3
<1> QED
  BY <1>1, <1>2, <1>3, <1>4 DEF Apart

\* What a configuration lists, and what it calls active.
LEMMA ListsTyped ==
  ASSUME NEW c \in ThinyConfig
  PROVE  /\ c.wallets \in Seq(Wallets) /\ c.active \in Wallets \cup {None} /\ c.legacy \in Wallets \cup {None}
         /\ c.providers \in Seq(Provider) /\ c.activeId \in Providers \cup {None}
         /\ c.oldModel \in Provider \cup {None}
         /\ suiWalletsOf(c) \in Seq(Wallets) /\ providersOf(c) \in Seq(Provider)
<1>1. /\ c.wallets \in Seq(Wallets) /\ c.active \in Wallets \cup {None} /\ c.legacy \in Wallets \cup {None}
      /\ c.providers \in Seq(Provider) /\ c.activeId \in Providers \cup {None}
      /\ c.oldModel \in Provider \cup {None}
  BY DEF ThinyConfig
<1>2. ASSUME NEW S, NEW list \in Seq(S), NEW legacy \in S \cup {None} PROVE Listed(list, legacy) \in Seq(S)
  <2>1. CASE list # <<>>
    BY <2>1 DEF Listed
  <2>2. CASE list = <<>> /\ legacy # None
    <3>1. legacy \in S
      BY <2>2
    <3>2. <<legacy>> \in Seq(S)
      BY <3>1
    <3> QED
      BY <2>2, <3>2 DEF Listed
  <2>3. CASE list = <<>> /\ legacy = None
    BY <2>3 DEF Listed
  <2> QED
    BY <2>1, <2>2, <2>3
<1> QED
  BY <1>1, <1>2 DEF suiWalletsOf, providersOf

LEMMA ListsApart ==
  ASSUME NEW c, NoneTwice(c)
  PROVE  /\ \A i, j \in DOMAIN suiWalletsOf(c) : suiWalletsOf(c)[i] = suiWalletsOf(c)[j] => i = j
         /\ \A i, j \in DOMAIN providersOf(c) : providersOf(c)[i].id = providersOf(c)[j].id => i = j
<1>1. ASSUME NEW list, NEW legacy
      PROVE  Listed(list, legacy) = list \/ \A i, j \in DOMAIN Listed(list, legacy) : i = j
  BY DEF Listed
<1> QED
  BY <1>1 DEF NoneTwice, suiWalletsOf, providersOf

LEMMA MembersOf ==
  ASSUME NEW S, NEW list \in Seq(S)
  PROVE  /\ ToSet(list) \subseteq S
         /\ list # <<>> => Head(list) \in S /\ Head(list) \in ToSet(list)
<1>1. \A i \in DOMAIN list : list[i] \in S
  OBVIOUS
<1>2. ASSUME list # <<>> PROVE 1 \in DOMAIN list /\ Head(list) = list[1]
  BY <1>2
<1> QED
  BY <1>1, <1>2 DEF ToSet

LEMMA ActiveTyped ==
  ASSUME NEW c \in ThinyConfig
  PROVE  /\ activeSuiWallet(c) \in Wallets \cup {None} /\ ToSet(suiWalletsOf(c)) \subseteq Wallets
         /\ c.active \in ToSet(suiWalletsOf(c)) => activeSuiWallet(c) = c.active
<1> DEFINE all == suiWalletsOf(c)
           want == IF c.active # None THEN c.active ELSE c.legacy
<1>1. all \in Seq(Wallets) /\ ToSet(all) \subseteq Wallets /\ (all # <<>> => Head(all) \in Wallets)
  BY ListsTyped, MembersOf
<1>2. activeSuiWallet(c) = CASE want \in ToSet(all) -> want
                             [] want \notin ToSet(all) /\ all # <<>> -> Head(all)
                             [] OTHER -> None
  BY DEF activeSuiWallet
<1>3. c.active \in ToSet(all) => want = c.active
  BY <1>1, NoneAssumption
<1> HIDE DEF all, want
<1>4. activeSuiWallet(c) \in Wallets \cup {None}
  <2>1. CASE want \in ToSet(all)
    BY <1>1, <1>2, <2>1
  <2>2. CASE want \notin ToSet(all) /\ all # <<>>
    BY <1>1, <1>2, <2>2
  <2>3. CASE want \notin ToSet(all) /\ all = <<>>
    BY <1>2, <2>3
  <2> QED
    BY <2>1, <2>2, <2>3
<1>5. c.active \in ToSet(all) => activeSuiWallet(c) = c.active
  BY <1>2, <1>3
<1> QED
  BY <1>1, <1>4, <1>5 DEF all

\* What a configuration says of wallets.
SameWallets(c, d) == /\ suiWalletsOf(c) = suiWalletsOf(d) /\ c.active = d.active /\ c.network = d.network
                     /\ activeSuiWallet(c) = activeSuiWallet(d)

LEMMA SameWalletsIf ==
  ASSUME NEW c, NEW d, c.wallets = d.wallets, c.legacy = d.legacy, c.active = d.active, c.network = d.network
  PROVE  SameWallets(c, d)
<1>1. suiWalletsOf(c) = suiWalletsOf(d)
  BY DEF suiWalletsOf
<1> QED
  BY <1>1 DEF SameWallets, activeSuiWallet

LEMMA SameSigner ==
  ASSUME NEW c, NEW d, SameWallets(c, d), NEW s, NEW network
  PROVE  Signed(s, c, network) <=> Signed(s, d, network)
  BY DEF SameWallets, Signed, SignerOf

\* The signer of a wallet that is one.
LEMMA SignerIs ==
  ASSUME NEW c, NEW w \in Wallets, activeSuiWallet(c) = w, NEW network
  PROVE  SignerOf(c, network) = [wallet |-> w, network |-> network]
  BY NoneAssumption DEF SignerOf

\* saveSuiWallet adds one wallet to what is there.
LEMMA SavesWallet ==
  ASSUME NEW c, Consistent(c), NEW w \in Wallets, NEW makeActive \in BOOLEAN,
         NEW network \in Networks, NEW d, d = saveSuiWallet(c, network, w, makeActive)
  PROVE  /\ Consistent(d)
         /\ ToSet(suiWalletsOf(d)) = ToSet(suiWalletsOf(c)) \cup {w}
         /\ activeSuiWallet(d) = IF makeActive \/ c.active = None THEN w ELSE c.active
         /\ d.active = IF makeActive \/ c.active = None THEN w ELSE c.active
<1> DEFINE all == suiWalletsOf(c)
           new == Put(all, Places(all, w), w)
<1>1. c \in ThinyConfig /\ all \in Seq(Wallets)
  BY ListsTyped DEF Consistent
<1>2. /\ new \in Seq(Wallets) /\ new # <<>> /\ ToSet(new) = ToSet(all) \cup {w}
  <2>1. Places(all, w) \in SUBSET DOMAIN all /\ \A i \in Places(all, w) : all[i] = w
    BY DEF Places
  <2> QED
    BY <1>1, <2>1, PutIs
<1>3. d = [c EXCEPT !.wallets = new, !.legacy = None, !.network = network,
                    !.active = IF makeActive \/ @ = None THEN w ELSE @]
  BY DEF saveSuiWallet
<1>4. c.active # None => c.active \in ToSet(all)
  BY DEF Consistent
<1> HIDE DEF all, new
<1>5. /\ d \in ThinyConfig /\ d.wallets = new
      /\ d.active = IF makeActive \/ c.active = None THEN w ELSE c.active
  BY <1>1, <1>2, <1>3 DEF ThinyConfig
<1>6. NoneTwice(d)
  <2> DEFINE key == [v \in Wallets |-> v]
  <2>1. key \in [Wallets -> Wallets] /\ \A v \in Wallets : key[v] = v
    OBVIOUS
  <2>2. Apart(key, all)
    BY <1>1, <2>1, ListsApart DEF Consistent, all, Apart
  <2>3. PICK old : old = Places(all, w)
    OBVIOUS
  <2>4. old = {i \in DOMAIN all : key[all[i]] = key[w]}
    BY <1>1, <2>1, <2>3 DEF Places
  <2>5. new = Put(all, old, w)
    BY <2>3 DEF new
  <2> HIDE DEF key
  <2>6. Apart(key, new)
    BY <1>1, <2>1, <2>2, <2>4, <2>5, PutKeepsApart
  <2>7. \A i, j \in DOMAIN new : new[i] = new[j] => i = j
    BY <1>2, <2>1, <2>6 DEF Apart
  <2>8. d.providers = c.providers
    BY <1>1, <1>3 DEF ThinyConfig
  <2>9. \A i, j \in DOMAIN c.providers : c.providers[i].id = c.providers[j].id => i = j
    BY DEF NoneTwice, Consistent
  <2> QED
    BY <1>5, <2>7, <2>8, <2>9 DEF NoneTwice
<1>7. suiWalletsOf(d) = new
  BY <1>2, <1>5 DEF suiWalletsOf, Listed
<1>8. d.active \in ToSet(suiWalletsOf(d))
  BY <1>2, <1>4, <1>5, <1>7
<1>9. activeSuiWallet(d) = d.active
  BY <1>5, <1>8, ActiveTyped
<1> QED
  BY <1>2, <1>5, <1>7, <1>8, <1>9, <1>6 DEF Consistent, all

\* sui_use_wallet's change, and sui_setup's.
LEMMA SwitchesWallet ==
  ASSUME NEW c, Consistent(c), NEW w \in ToSet(suiWalletsOf(c)), NEW d, d = [c EXCEPT !.active = w]
  PROVE  /\ Consistent(d) /\ suiWalletsOf(d) = suiWalletsOf(c)
         /\ activeSuiWallet(d) = w /\ w \in Wallets
<1>1. c \in ThinyConfig /\ w \in Wallets
  BY ActiveTyped DEF Consistent
<1>2. /\ d \in ThinyConfig /\ d.active = w /\ d.wallets = c.wallets /\ d.legacy = c.legacy
      /\ d.providers = c.providers
  BY <1>1 DEF ThinyConfig
<1>3. suiWalletsOf(d) = suiWalletsOf(c)
  BY <1>2 DEF suiWalletsOf
<1>4. NoneTwice(d)
  BY <1>2 DEF Consistent, NoneTwice
<1> QED
  BY <1>1, <1>2, <1>3, <1>4, ActiveTyped DEF Consistent

SetUp(c, w, network) == [c EXCEPT !.wallets = <<>>, !.active = None, !.legacy = w, !.network = network]

LEMMA ReplacesWallets ==
  ASSUME NEW c, Consistent(c), NEW w \in Wallets, NEW network \in Networks, NEW d, d = SetUp(c, w, network)
  PROVE  /\ Consistent(d) /\ ToSet(suiWalletsOf(d)) = {w} /\ activeSuiWallet(d) = w
         /\ d.active = None /\ d.network = network
<1>1. c \in ThinyConfig /\ <<>> \in Seq(Wallets)
  BY DEF Consistent
<1>2. /\ d \in ThinyConfig /\ d.wallets = <<>> /\ d.active = None /\ d.legacy = w
      /\ d.providers = c.providers /\ d.network = network
  BY <1>1 DEF ThinyConfig, SetUp
<1>3. NoneTwice(d)
  BY <1>2 DEF Consistent, NoneTwice
<1>4. suiWalletsOf(d) = <<w>>
  BY <1>2, NoneAssumption DEF suiWalletsOf, Listed
<1>5. ToSet(<<w>>) = {w}
  BY DEF ToSet
<1>6. activeSuiWallet(d) = w
  BY <1>2, <1>4, <1>5 DEF activeSuiWallet
<1> QED
  BY <1>2, <1>4, <1>5, <1>6, <1>3 DEF Consistent

LEMMA KeepsConsistent ==
  ASSUME NEW c, Consistent(c), NEW d \in ThinyConfig, NoneTwice(d), SameWallets(d, c)
  PROVE  Consistent(d)
  BY DEF Consistent, SameWallets

\* Who writes a provider leaves the wallets alone.
LEMMA SavesProvider ==
  ASSUME NEW c, Consistent(c), NEW p \in Provider, NEW d, d = saveProvider(c, p, TRUE)
  PROVE  Consistent(d) /\ SameWallets(d, c)
<1> DEFINE all == providersOf(c)
           places == {i \in DOMAIN all : all[i].id = p.id}
           new == Put(all, places, p)
<1>1. c \in ThinyConfig /\ all \in Seq(Provider)
  BY ListsTyped DEF Consistent
<1>2. new \in Seq(Provider)
  BY <1>1, PutIs
<1>3. p.id \in Providers
  BY DEF Provider
<1>4. d = [c EXCEPT !.providers = new, !.oldModel = None, !.activeId = p.id]
  BY DEF saveProvider
<1> HIDE DEF all, places, new
<1>5. /\ d \in ThinyConfig /\ d.wallets = c.wallets /\ d.legacy = c.legacy /\ d.active = c.active
      /\ d.providers = new /\ d.network = c.network
  BY <1>1, <1>2, <1>3, <1>4 DEF ThinyConfig
<1>6. NoneTwice(d)
  <2> DEFINE key == [v \in Provider |-> v.id]
  <2>1. key \in [Provider -> Providers] /\ \A v \in Provider : key[v] = v.id
    BY DEF Provider
  <2>2. Apart(key, all)
    BY <1>1, <2>1, ListsApart DEF Consistent, all, Apart
  <2>3. places = {i \in DOMAIN all : key[all[i]] = key[p]}
    BY <1>1, <2>1 DEF places
  <2>4. new = Put(all, places, p)
    BY DEF new
  <2> HIDE DEF key
  <2>5. Apart(key, new)
    BY <1>1, <2>1, <2>2, <2>3, <2>4, PutKeepsApart
  <2>6. \A i \in DOMAIN new : key[new[i]] = new[i].id
    BY <1>2, <2>1
  <2>7. \A i, j \in DOMAIN new : new[i].id = new[j].id => i = j
    BY <2>5, <2>6 DEF Apart
  <2>8. \A i, j \in DOMAIN c.wallets : c.wallets[i] = c.wallets[j] => i = j
    BY DEF NoneTwice, Consistent
  <2>9. /\ \A i, j \in DOMAIN d.wallets : d.wallets[i] = d.wallets[j] => i = j
        /\ \A i, j \in DOMAIN d.providers : d.providers[i].id = d.providers[j].id => i = j
    <3>1. d.wallets = c.wallets /\ d.providers = new
      BY <1>5
    <3>2. \A i, j \in DOMAIN d.wallets : d.wallets[i] = d.wallets[j] => i = j
      BY <3>1, <2>8
    <3>3. \A i, j \in DOMAIN d.providers : d.providers[i].id = d.providers[j].id => i = j
      BY <3>1, <2>7
    <3> QED
      BY <3>2, <3>3
  <2> QED
    BY <2>9 DEF NoneTwice
<1> QED
  BY <1>5, <1>6, SameWalletsIf, KeepsConsistent

LEMMA SwitchesProvider ==
  ASSUME NEW c, Consistent(c), NEW id \in Providers, NEW d, d = setActiveProvider(c, id)
  PROVE  Consistent(d) /\ SameWallets(d, c)
<1>1. c \in ThinyConfig /\ providersOf(c) \in Seq(Provider)
  BY ListsTyped DEF Consistent
<1>2. /\ d \in ThinyConfig /\ d.wallets = c.wallets /\ d.legacy = c.legacy /\ d.active = c.active
      /\ d.providers = providersOf(c) /\ d.network = c.network
  BY <1>1 DEF ThinyConfig, setActiveProvider
<1>3. NoneTwice(d)
  BY <1>2, ListsApart DEF Consistent, NoneTwice
<1> QED
  BY <1>2, <1>3, SameWalletsIf, KeepsConsistent

LEMMA ProviderTyped ==
  ASSUME NEW c \in ThinyConfig
  PROVE  /\ \A id : HasProvider(c, id) => ProviderWith(c, id) \in Provider
         /\ activeProvider(c) \in Provider \cup {None}
         /\ providersOf(c) # <<>> => activeProvider(c) \in Provider
<1> DEFINE all == providersOf(c)
<1>1. all \in Seq(Provider) /\ ToSet(all) \subseteq Provider /\ (all # <<>> => Head(all) \in Provider)
  BY ListsTyped, MembersOf
<1>2. ASSUME NEW id, HasProvider(c, id) PROVE ProviderWith(c, id) \in Provider
  BY <1>1, <1>2 DEF HasProvider, ProviderWith
<1>3. CASE HasProvider(c, c.activeId)
  BY <1>2, <1>3 DEF activeProvider
<1>4. CASE ~HasProvider(c, c.activeId) /\ all # <<>>
  BY <1>1, <1>2, <1>4 DEF activeProvider
<1>5. CASE ~HasProvider(c, c.activeId) /\ all = <<>>
  BY <1>2, <1>5 DEF activeProvider
<1> QED
  BY <1>2, <1>3, <1>4, <1>5

LEMMA EmptyIsConsistent == Consistent(EmptyConfig)
<1>1. <<>> \in Seq(Wallets) /\ <<>> \in Seq(Provider)
  OBVIOUS
<1>2. NoneTwice(EmptyConfig)
  BY DEF NoneTwice, EmptyConfig
<1> QED
  BY <1>1, <1>2 DEF Consistent, EmptyConfig, ThinyConfig, Networks

-----------------------------------------------------------------------------
(* The configuration under each step. *)

Menus == {"connect", "models"}

\* What the library runs, it runs to the end; no menu opens by itself.
AtMoves == (at = "library" => at' = "library") /\ (at' \in Menus => at \in Menus)

LEMMA ConfigFrame ==
  ASSUME ConfigInv, AtMoves, UNCHANGED <<file, kept, term, known, signer, chain, model, copy, strayed>>
  PROVE  ConfigInv'
<1>1. ConfigTypes'
  BY DEF ConfigInv, ConfigTypes, Consistent, AtMoves, Menus
<1>2. KeysKept' /\ Signing'
  BY DEF ConfigInv, KeysKept, Signing, Signed, AtMoves
<1> QED
  BY <1>1, <1>2 DEF ConfigInv

\* The file is written: what has to be shown of it.
LEMMA ConfigWritten ==
  ASSUME ConfigInv, at = "library" => at' = "library", at' \in Menus => at \in Menus /\ UNCHANGED copy,
         Consistent(copy'), Consistent(term'.copy),
         term' = [does |-> term'.does, copy |-> term'.copy, runs |-> term'.runs],
         Consistent(file'), kept' \subseteq ToSet(suiWalletsOf(file')), known' \subseteq Wallets,
         signer' \in Signer \cup {None}, model' \in Provider \cup {None}, strayed' \in BOOLEAN,
         UNCHANGED chain, at # "library" => strayed' \/ Signed(signer', file', chain.suiNetwork)
  PROVE  ConfigInv'
<1>1. kept' \subseteq Wallets
  BY ActiveTyped DEF Consistent
<1>2. at' \in Menus => providersOf(copy') # <<>>
  BY DEF ConfigInv, ConfigTypes, Menus
<1>3. ConfigTypes'
  BY <1>1, <1>2 DEF ConfigInv, ConfigTypes, Menus, Consistent
<1>4. KeysKept' /\ Signing'
  BY DEF ConfigInv, KeysKept, Signing, Signed
<1> QED
  BY <1>3, <1>4 DEF ConfigInv

\* The same for a tool, which knows of no copy.
LEMMA FileWritten ==
  ASSUME ConfigInv, AtMoves, UNCHANGED <<term, chain, copy, model>>,
         Consistent(file'), kept' \subseteq ToSet(suiWalletsOf(file')), known' \subseteq Wallets,
         signer' \in Signer \cup {None}, strayed' \in BOOLEAN,
         at # "library" => strayed' \/ Signed(signer', file', chain.suiNetwork)
  PROVE  ConfigInv'
<1>1. /\ Consistent(copy') /\ Consistent(term'.copy) /\ model' \in Provider \cup {None}
      /\ term' = [does |-> term'.does, copy |-> term'.copy, runs |-> term'.runs]
  BY DEF ConfigInv, ConfigTypes
<1> QED
  BY <1>1, ConfigWritten DEF AtMoves

LEMMA AddWalletConfig ==
  ASSUME ConfigInv, AtMoves, UNCHANGED <<term, chain, copy, model>>,
         NEW w \in Wallets, NEW makeActive \in BOOLEAN, AddWallet(w, makeActive)
  PROVE  ConfigInv'
<1> DEFINE network == chain.suiNetwork
<1>1. /\ Consistent(file) /\ kept \subseteq ToSet(suiWalletsOf(file)) /\ known \subseteq Wallets
      /\ signer \in Signer \cup {None} /\ strayed \in BOOLEAN /\ network \in Networks
  BY DEF ConfigInv, ConfigTypes, KeysKept
<1>2. /\ file' = saveSuiWallet(file, network, w, makeActive) /\ kept' = kept \cup {w} /\ known' = known \cup {w}
      /\ signer' = IF makeActive THEN [wallet |-> w, network |-> network] ELSE signer
      /\ strayed' = (~makeActive /\ (strayed \/ file.active = None))
  BY DEF AddWallet, saveConfig, activateSigner
<1> HIDE DEF network
<1>3. /\ Consistent(file')
      /\ ToSet(suiWalletsOf(file')) = ToSet(suiWalletsOf(file)) \cup {w}
      /\ activeSuiWallet(file') = IF makeActive \/ file.active = None THEN w ELSE file.active
  BY <1>1, <1>2, SavesWallet
<1>4. ASSUME at # "library", ~strayed' PROVE signer' = SignerOf(file', network)
  <2>1. CASE makeActive
    BY <1>2, <1>3, <2>1, SignerIs
  <2>2. CASE ~makeActive
    <3>1. ~strayed /\ file.active # None
      BY <1>2, <1>4, <2>2
    <3>2. signer = SignerOf(file, network) /\ activeSuiWallet(file) = file.active
      BY <1>1, <1>4, <3>1, ActiveTyped DEF ConfigInv, Signing, Signed, Consistent, network
    <3>3. signer' = signer /\ activeSuiWallet(file') = activeSuiWallet(file)
      BY <1>2, <1>3, <2>2, <3>1, <3>2
    <3> QED
      BY <3>2, <3>3 DEF SignerOf
  <2> QED
    BY <2>1, <2>2
<1>5. signer' \in Signer \cup {None} /\ strayed' \in BOOLEAN /\ known' \subseteq Wallets
  BY <1>1, <1>2 DEF Signer
<1>6. kept' \subseteq ToSet(suiWalletsOf(file'))
  BY <1>1, <1>2, <1>3
<1>7. at # "library" => strayed' \/ Signed(signer', file', chain.suiNetwork)
  BY <1>4 DEF Signed, network
<1> QED
  BY <1>3, <1>5, <1>6, <1>7, FileWritten

LEMMA UseWalletConfig ==
  ASSUME ConfigInv, AtMoves, UNCHANGED <<term, chain, copy, model>>,
         NEW w \in ToSet(suiWalletsOf(file)), useWallet(w)
  PROVE  ConfigInv'
<1>1. /\ Consistent(file) /\ kept \subseteq ToSet(suiWalletsOf(file)) /\ known \subseteq Wallets
      /\ chain.suiNetwork \in Networks
  BY DEF ConfigInv, ConfigTypes, KeysKept
<1>2. /\ file' = [file EXCEPT !.active = w] /\ kept' = kept /\ known' = known
      /\ signer' = [wallet |-> w, network |-> chain.suiNetwork] /\ strayed' = FALSE
  BY DEF useWallet, saveConfig, activateSigner
<1>3. /\ Consistent(file') /\ suiWalletsOf(file') = suiWalletsOf(file)
      /\ activeSuiWallet(file') = w /\ w \in Wallets
  BY <1>1, <1>2, SwitchesWallet
<1>4. signer' \in Signer /\ signer' = SignerOf(file', chain.suiNetwork)
  BY <1>1, <1>2, <1>3, SignerIs DEF Signer
<1> QED
  BY <1>1, <1>2, <1>3, <1>4, FileWritten DEF Signed

LEMMA SetupConfig ==
  ASSUME ConfigInv, AtMoves, UNCHANGED <<term, chain, copy, model>>,
         NEW w \in Wallets, NEW network \in Networks,
         saveSetup(w, network), known' = known \cup {w},
         signer' = [wallet |-> w, network |-> network], strayed' = FALSE
  PROVE  ConfigInv'
<1>1. Consistent(file) /\ known \subseteq Wallets
  BY DEF ConfigInv, ConfigTypes
<1>2. file' = SetUp(file, w, network) /\ kept' = {w}
  BY DEF saveSetup, SetUp
<1>3. /\ Consistent(file') /\ ToSet(suiWalletsOf(file')) = {w} /\ activeSuiWallet(file') = w
      /\ file'.active = None /\ file'.network = network
  BY <1>1, <1>2, ReplacesWallets
<1>4. signer' \in Signer /\ signer' = SignerOf(file', file'.network)
  BY <1>3, SignerIs DEF Signer
<1> QED
  BY <1>1, <1>2, <1>3, <1>4, FileWritten DEF Signed

LEMMA KeyReadyConfig ==
  ASSUME ConfigInv, AtMoves, UNCHANGED <<term, chain, copy, model>>,
         NEW r, r.tool = "sui_import_wallet" => r.arg \in Wallets, r.tool = "sui_setup" => r.opt \in Networks,
         KeyReady(r)
  PROVE  ConfigInv'
<1>1. CASE r.tool = "sui_create_wallet" /\ \E w \in Wallets \ known : AddWallet(w, r.opt = "activate")
  BY <1>1, AddWalletConfig
<1>2. CASE r.tool = "sui_import_wallet" /\ AddWallet(r.arg, r.opt = "activate")
  BY <1>2, AddWalletConfig
<1>3. CASE /\ r.tool = "sui_setup"
           /\ \E w \in (Wallets \ known) \cup (Wallets \cap {r.arg}) :
                /\ r.arg \in Wallets => w = r.arg
                /\ saveSetup(w, r.opt) /\ known' = known \cup {w}
                /\ signer' = [wallet |-> w, network |-> r.opt] /\ strayed' = FALSE
  <2>1. PICK w \in Wallets : /\ saveSetup(w, r.opt) /\ known' = known \cup {w}
                            /\ signer' = [wallet |-> w, network |-> r.opt] /\ strayed' = FALSE
    BY <1>3
  <2> QED
    BY <1>3, <2>1, SetupConfig
<1> QED
  BY <1>1, <1>2, <1>3 DEF KeyReady

LEMMA NoEffectConfig ==
  ASSUME ConfigInv, AtMoves, UNCHANGED <<term, chain, copy, model>>, NoWalletEffect
  PROVE  ConfigInv'
  BY ConfigFrame DEF NoWalletEffect

\* A tool that executes before anything is awaited has thrown if it has to.
LEMMA RanAtOnce ==
  ASSUME NEW r, NEW throws \in BOOLEAN, RunsAtOnce(r, throws)
  PROVE  ~throws /\ ~NoKey(r) /\ Awaits(r) = <<>> /\ Gates(r) = <<>>
<1>1. AtOnce(r, throws) = "answered" /\ ~Hit(r)
  BY DEF RunsAtOnce
<1>2. Limited \in BOOLEAN /\ Hit(r) \in BOOLEAN /\ ThrowsAtOnce(r, throws) \in BOOLEAN
  BY DEF Limited, Hit, ThrowsAtOnce
<1>3. ~Limited /\ ~ThrowsAtOnce(r, throws) /\ Awaits(r) = <<>>
  BY <1>1, <1>2 DEF AtOnce
<1>5. Gates(r) = <<>>
  BY <1>3 DEF Awaits, Gates
<1> QED
  BY <1>3, <1>5 DEF ThrowsAtOnce

LEMMA AtOnceEffectConfig ==
  ASSUME ConfigInv, AtMoves, UNCHANGED <<term, chain, copy, model>>, NEW r, AtOnceEffect(r)
  PROVE  ConfigInv'
<1>1. CASE r.tool = "sui_use_wallet" /\ RunsAtOnce(r, Throws(r))
  <2>1. ~Throws(r)
    <3>1. Throws(r) \in BOOLEAN
      BY DEF Throws
    <3> QED
      BY <1>1, <3>1, RanAtOnce
  <2>2. r.arg \in ToSet(suiWalletsOf(file))
    BY <1>1, <2>1 DEF Throws
  <2>3. useWallet(r.arg)
    BY <1>1 DEF AtOnceEffect
  <2> QED
    BY <2>2, <2>3, UseWalletConfig
<1>2. CASE ~(r.tool = "sui_use_wallet" /\ RunsAtOnce(r, Throws(r)))
  <2>1. NoWalletEffect
    BY <1>2 DEF AtOnceEffect
  <2> QED
    BY <2>1, NoEffectConfig
<1> QED
  BY <1>1, <1>2

\* A menu writes back the copy it was made from.
LEMMA SaveMenuConfig ==
  ASSUME ConfigInv, at # "library", NEW base, base = file \/ base = copy,
         NEW d, Consistent(d), SameWallets(d, base), SaveMenu(d, base), model' \in Provider
  PROVE  ConfigInv'
<1>1. /\ kept \subseteq ToSet(suiWalletsOf(file)) /\ known \subseteq Wallets /\ strayed \in BOOLEAN
      /\ signer \in Signer \cup {None} /\ (strayed \/ Signed(signer, file, chain.suiNetwork))
      /\ Consistent(term.copy)
      /\ term = [does |-> term.does, copy |-> term.copy, runs |-> term.runs]
  BY DEF ConfigInv, ConfigTypes, KeysKept, Signing
<1>2. /\ file' = d /\ kept' = (IF base = file THEN kept ELSE kept \cap ToSet(suiWalletsOf(d))) \cup {}
      /\ strayed' = (strayed \/ base # file) /\ at' = "prompt" /\ copy' = EmptyConfig
      /\ term' = term /\ known' = known /\ signer' = signer /\ chain' = chain
  BY DEF SaveMenu, saveConfig, chainVars
<1>3. kept' \subseteq ToSet(suiWalletsOf(d))
  BY <1>1, <1>2 DEF SameWallets
<1>4. strayed' \/ Signed(signer', d, chain.suiNetwork)
  BY <1>1, <1>2, SameSigner
<1>5. at' \notin Menus /\ strayed' \in BOOLEAN
  BY <1>1, <1>2 DEF Menus
<1>6. /\ Consistent(copy') /\ Consistent(file') /\ Consistent(term'.copy)
      /\ term' = [does |-> term'.does, copy |-> term'.copy, runs |-> term'.runs]
  <2>1. Consistent(copy') /\ Consistent(file')
    BY <1>2, EmptyIsConsistent
  <2> QED
    BY <1>1, <1>2, <2>1
<1>7. /\ kept' \subseteq ToSet(suiWalletsOf(file')) /\ (strayed' \/ Signed(signer', file', chain.suiNetwork))
      /\ known' \subseteq Wallets /\ signer' \in Signer \cup {None} /\ model' \in Provider \cup {None}
  BY <1>1, <1>2, <1>3, <1>4
<1> QED
  BY <1>2, <1>5, <1>6, <1>7, ConfigWritten

LEMMA ConnectToConfig ==
  ASSUME ConfigInv, at # "library", NEW c, c = file \/ c = copy, connectTo(c, c)
  PROVE  ConfigInv'
<1>1. Consistent(c) /\ c \in ThinyConfig
  BY DEF ConfigInv, ConfigTypes, Consistent
<1>2. PICK p \in ToSet(providersOf(c)) :
        /\ SaveMenu(setActiveProvider(c, p.id), c) /\ model' = ProviderWith(c, p.id)
  BY DEF connectTo
<1>3. p \in Provider /\ HasProvider(c, p.id)
  BY <1>1, ListsTyped, MembersOf DEF HasProvider
<1>4. p.id \in Providers /\ model' \in Provider
  BY <1>1, <1>2, <1>3, ProviderTyped DEF Provider
<1>5. Consistent(setActiveProvider(c, p.id)) /\ SameWallets(setActiveProvider(c, p.id), c)
  BY <1>1, <1>4, SwitchesProvider
<1> QED
  BY <1>2, <1>4, <1>5, SaveMenuConfig

LEMMA SetModelConfig ==
  ASSUME ConfigInv, at # "library", NEW c, c = file \/ c = copy, providersOf(c) # <<>>, setModel(c, c)
  PROVE  ConfigInv'
<1>1. Consistent(c) /\ c \in ThinyConfig
  BY DEF ConfigInv, ConfigTypes, Consistent
<1>2. PICK m \in Models :
        /\ SaveMenu(saveProvider(c, [activeProvider(c) EXCEPT !.model = m], TRUE), c)
        /\ model' = [activeProvider(c) EXCEPT !.model = m]
  BY DEF setModel
<1>3. activeProvider(c) \in Provider
  BY <1>1, ProviderTyped
<1>4. [activeProvider(c) EXCEPT !.model = m] \in Provider
  BY <1>3 DEF Provider
<1> DEFINE p == [activeProvider(c) EXCEPT !.model = m]
<1> HIDE DEF p
<1>5. SaveMenu(saveProvider(c, p, TRUE), c) /\ model' = p /\ p \in Provider
  BY <1>2, <1>4 DEF p
<1>6. Consistent(saveProvider(c, p, TRUE)) /\ SameWallets(saveProvider(c, p, TRUE), c)
  BY <1>1, <1>5, SavesProvider
<1> QED
  BY <1>5, <1>6, SaveMenuConfig

LEMMA OpenMenuConfig ==
  ASSUME ConfigInv, NEW menu, OpenMenu(menu)
  PROVE  ConfigInv'
<1>1. /\ at = "prompt" /\ providersOf(file) # <<>> /\ at' = menu /\ copy' = file
      /\ UNCHANGED <<file, kept, term, known, signer, chain, model, strayed>>
  BY DEF OpenMenu, configVars, chainVars
<1>2. ConfigTypes'
  BY <1>1 DEF ConfigInv, ConfigTypes, Consistent
<1>3. KeysKept' /\ Signing'
  BY <1>1 DEF ConfigInv, KeysKept, Signing, Signed
<1> QED
  BY <1>2, <1>3 DEF ConfigInv

LEMMA MenusConfig ==
  ASSUME ConfigInv, handleConnect \/ handleModels
  PROVE  ConfigInv'
<1>1. at \in Menus => providersOf(copy) # <<>>
  BY DEF ConfigInv, ConfigTypes, Menus
<1>2. CASE handleConnect
  BY <1>2, OpenMenuConfig, ConnectToConfig DEF handleConnect
<1>3. CASE handleModels
  <2>1. CASE at = "prompt" /\ providersOf(file) # <<>> /\ setModel(file, file)
    BY <2>1, SetModelConfig
  <2>2. CASE OpenMenu("models")
    BY <2>2, OpenMenuConfig
  <2>3. CASE at = "models" /\ setModel(copy, copy)
    BY <1>1, <2>3, SetModelConfig DEF Menus
  <2> QED
    BY <1>3, <2>1, <2>2, <2>3 DEF handleModels
<1> QED
  BY <1>2, <1>3

\* The other terminal.
LEMMA TerminalConfig ==
  ASSUME ConfigInv, OtherTerminal
  PROVE  ConfigInv'
<1>1. /\ at # "library" /\ at' = at /\ copy' = copy /\ model' = model /\ signer' = signer /\ chain' = chain
      /\ strayed' = (strayed \/ (file' # file /\ (term.does = "sui init" \/ term.copy # file)))
  BY DEF OtherTerminal, chainVars
<1>2. /\ Consistent(file) /\ Consistent(copy) /\ Consistent(term.copy)
      /\ term = [does |-> term.does, copy |-> term.copy, runs |-> term.runs]
      /\ kept \subseteq ToSet(suiWalletsOf(file)) /\ known \subseteq Wallets
      /\ signer \in Signer \cup {None} /\ model \in Provider \cup {None} /\ strayed \in BOOLEAN
      /\ (strayed \/ Signed(signer, file, chain.suiNetwork))
  BY <1>1 DEF ConfigInv, ConfigTypes, KeysKept, Signing
<1> DEFINE TermGood == /\ Consistent(term'.copy)
                       /\ term' = [does |-> term'.does, copy |-> term'.copy, runs |-> term'.runs]
           Good == /\ TermGood
                   /\ Consistent(file') /\ kept' \subseteq ToSet(suiWalletsOf(file')) /\ known' \subseteq Wallets
                   /\ strayed' \/ SameWallets(file', file)
<1>3. \A does, c : TermStep(does, c) /\ Consistent(c) => TermGood
  <2> SUFFICES ASSUME NEW does, NEW c, TermStep(does, c), Consistent(c) PROVE TermGood
    OBVIOUS
  <2>1. term' = [does |-> does, copy |-> c, runs |-> term.runs]
    <3>1. PICK t : t = term
      OBVIOUS
    <3>2. t = [does |-> t.does, copy |-> t.copy, runs |-> t.runs] /\ term' = [t EXCEPT !.does = does, !.copy = c]
      BY <1>2, <3>1 DEF TermStep
    <3>3. term' = [does |-> does, copy |-> c, runs |-> t.runs]
      BY <3>2
    <3> QED
      BY <3>1, <3>3
  <2> QED
    BY <2>1
<1> SUFFICES Good
  <2> SUFFICES ASSUME Good PROVE ConfigInv'
    OBVIOUS
  <2>1. at' \in Menus => at \in Menus /\ UNCHANGED copy
    BY <1>1
  <2>2. strayed' \in BOOLEAN /\ (strayed' \/ Signed(signer', file', chain.suiNetwork))
    BY <1>1, <1>2, SameSigner
  <2>3. Consistent(copy') /\ signer' \in Signer \cup {None} /\ model' \in Provider \cup {None}
    BY <1>1, <1>2
  <2> QED
    BY <1>1, <2>1, <2>2, <2>3, ConfigWritten
<1> HIDE DEF TermGood
<1>4. CASE TermOpen
  <2>1. PICK cmd : term' = [does |-> cmd, copy |-> file, runs |-> term.runs + 1]
    BY <1>4 DEF TermOpen
  <2>2. UNCHANGED <<file, kept, known>>
    BY <1>4 DEF TermOpen
  <2>3. TermGood
    BY <1>2, <2>1 DEF TermGood
  <2> QED
    BY <1>2, <2>2, <2>3 DEF SameWallets
<1>5. CASE baseSetup
  <2>1. PICK p \in Provider : saveConfig(saveProvider(term.copy, p, TRUE), term.copy, {})
    BY <1>5 DEF baseSetup
  <2> DEFINE d == saveProvider(term.copy, p, TRUE)
  <2>2. Consistent(d) /\ SameWallets(d, term.copy)
    BY <1>2, SavesProvider
  <2>3. /\ file' = d
        /\ kept' = (IF term.copy = file THEN kept ELSE kept \cap ToSet(suiWalletsOf(d))) \cup {}
    BY <2>1 DEF saveConfig
  <2>4. known' = known /\ TermGood
    BY <1>3, <1>5, EmptyIsConsistent DEF baseSetup
  <2> HIDE DEF d
  <2>5. kept' \subseteq ToSet(suiWalletsOf(file')) /\ Consistent(file')
    BY <1>2, <2>2, <2>3 DEF SameWallets
  <2>6. strayed' \/ SameWallets(file', file)
    <3>1. CASE term.copy = file
      BY <2>2, <2>3, <3>1
    <3>2. CASE term.copy # file /\ file' = file
      BY <3>2 DEF SameWallets
    <3>3. CASE term.copy # file /\ file' # file
      BY <1>1, <3>3
    <3> QED
      BY <3>1, <3>2, <3>3
  <2> QED
    BY <1>2, <2>4, <2>5, <2>6
<1>6. CASE suiInit
  <2>1. PICK w \in Wallets, network \in Networks, rill \in BOOLEAN :
          /\ saveConfig(saveSuiWallet(term.copy, network, w, TRUE), term.copy, {w})
          /\ known' = known \cup {w}
          /\ IF rill THEN TermStep("rill", saveSuiWallet(term.copy, network, w, TRUE))
                     ELSE TermStep("nothing", EmptyConfig)
    BY <1>6 DEF suiInit
  <2> DEFINE d == saveSuiWallet(term.copy, network, w, TRUE)
  <2>2. Consistent(d) /\ ToSet(suiWalletsOf(d)) = ToSet(suiWalletsOf(term.copy)) \cup {w}
    <3>1. PICK yes \in BOOLEAN : yes = TRUE
      OBVIOUS
    <3>2. PICK base, new : base = term.copy /\ new = d
      OBVIOUS
    <3>3. new = saveSuiWallet(base, network, w, yes) /\ Consistent(base)
      BY <1>2, <3>1, <3>2
    <3>4. Consistent(new) /\ ToSet(suiWalletsOf(new)) = ToSet(suiWalletsOf(base)) \cup {w}
      BY <3>3, SavesWallet
    <3> QED
      BY <3>2, <3>4
  <2>3. /\ file' = d
        /\ kept' = (IF term.copy = file THEN kept ELSE kept \cap ToSet(suiWalletsOf(d))) \cup {w}
    BY <2>1 DEF saveConfig
  <2>4. TermGood
    BY <1>3, <2>1, <2>2, EmptyIsConsistent
  <2> HIDE DEF d
  <2>5. kept' \subseteq ToSet(suiWalletsOf(file')) /\ Consistent(file')
    BY <1>2, <2>2, <2>3
  <2>6. known' \subseteq Wallets
    BY <1>2, <2>1
  <2>7. strayed' \/ SameWallets(file', file)
    BY <1>1, <1>6 DEF suiInit, SameWallets
  <2> QED
    BY <2>4, <2>5, <2>6, <2>7
<1>7. CASE rillUrl
  <2>1. /\ file' = term.copy /\ known' = known
        /\ kept' = (IF term.copy = file THEN kept ELSE kept \cap ToSet(suiWalletsOf(term.copy))) \cup {}
    BY <1>7 DEF rillUrl, saveConfig
  <2>2. TermGood
    BY <1>3, <1>7, EmptyIsConsistent DEF rillUrl
  <2>3. kept' \subseteq ToSet(suiWalletsOf(file')) /\ Consistent(file')
    BY <1>2, <2>1
  <2>4. strayed' \/ SameWallets(file', file)
    BY <1>1, <2>1 DEF SameWallets
  <2> QED
    BY <1>2, <2>1, <2>2, <2>3, <2>4
<1>8. CASE bail
  <2>1. UNCHANGED <<file, kept, known>> /\ TermGood
    BY <1>3, <1>8, EmptyIsConsistent DEF bail
  <2> QED
    BY <1>2, <2>1 DEF SameWallets
<1> QED
  BY <1>4, <1>5, <1>6, <1>7, <1>8 DEF OtherTerminal, Terminal

-----------------------------------------------------------------------------
(* The turns and their log under each step. *)

LEMMA TurnFrame ==
  ASSUME TurnInv, UNCHANGED <<session, turns, buffer, uploads, chain>>, late' = late \/ late' \subseteq Entry,
         at' \in {"prompt", "thinking", "acting", "connect", "models", "gone", "library"},
         InTurn' <=> InTurn, esc' \in BOOLEAN
  PROVE  TurnInv'
  BY DEF TurnInv, TurnTypes, LoggedInOnePlace

\* The uploads have come as far as they have: nothing else about them is new.
SameUploads ==
  /\ DOMAIN uploads' = DOMAIN uploads
  /\ \A u \in DOMAIN uploads : /\ uploads'[u].turns = uploads[u].turns /\ uploads'[u].late = uploads[u].late
                              /\ uploads'[u].session = uploads[u].session

LEMMA UploadsMove ==
  ASSUME TurnInv, UNCHANGED <<session, turns, buffer, late, esc, chain>>,
         at' \in {"prompt", "thinking", "acting", "connect", "models", "gone", "library"},
         InTurn' <=> InTurn,
         uploads' \in Seq(Upload), SameUploads
  PROVE  TurnInv'
<1>1. TurnTypes'
  BY DEF TurnInv, TurnTypes, SameUploads
<1>2. LoggedInOnePlace'
  <2>1. \A i \in DOMAIN turns' : chain'.audit =>
          /\ turns'[i].ended = "no" => i \in buffer'
          /\ turns'[i].ended = "answered" => \E u \in DOMAIN uploads' : i \in uploads'[u].turns
    BY DEF TurnInv, LoggedInOnePlace, SameUploads
  <2>2. \A i \in buffer' : turns'[i].ended # "answered" /\ \A u \in DOMAIN uploads' : i \notin uploads'[u].turns
    BY DEF TurnInv, LoggedInOnePlace, SameUploads
  <2>3. \A u \in DOMAIN uploads' : \A i \in uploads'[u].turns :
          /\ turns'[i].ended # "no"
          /\ turns'[i].ended = "answered" => turns'[i].session = uploads'[u].session
          /\ \A v \in DOMAIN uploads' : i \in uploads'[v].turns => v = u
    BY DEF TurnInv, LoggedInOnePlace, SameUploads
  <2> QED
    BY <2>1, <2>2, <2>3 DEF LoggedInOnePlace
<1> QED
  BY <1>1, <1>2 DEF TurnInv

LEMMA LandTurn ==
  ASSUME TurnInv, Land
  PROVE  TurnInv' /\ SameUploads
<1>1. uploads \in Seq(Upload) /\ esc \in BOOLEAN
      /\ at \in {"prompt", "thinking", "acting", "connect", "models", "gone", "library"}
  BY DEF TurnInv, TurnTypes
<1>2. PICK i \in DOMAIN uploads, how \in {"stored", "lost"} : uploads' = [uploads EXCEPT ![i].state = how]
  BY DEF Land
<1>3. UNCHANGED <<at, session, turns, esc, buffer, late, chain>>
  BY DEF Land, chainVars
<1> DEFINE x == [uploads[i] EXCEPT !.state = how]
<1>4. uploads[i] \in Upload
  BY <1>1
<1>5. x \in Upload /\ x.turns = uploads[i].turns /\ x.late = uploads[i].late /\ x.session = uploads[i].session
  BY <1>4 DEF Upload
<1>6. uploads' = [uploads EXCEPT ![i] = x]
  BY <1>2
<1> HIDE DEF x
<1>7. /\ uploads' \in Seq(Upload) /\ DOMAIN uploads' = DOMAIN uploads
      /\ \A u \in DOMAIN uploads : uploads'[u] = IF u = i THEN x ELSE uploads[u]
  BY <1>1, <1>5, <1>6
<1>8. SameUploads
  BY <1>5, <1>7 DEF SameUploads
<1> QED
  BY <1>1, <1>3, <1>7, <1>8, UploadsMove DEF InTurn

LEMMA CtrlCTurn ==
  ASSUME TurnInv, CtrlC
  PROVE  TurnInv' /\ SameUploads
<1>1. uploads \in Seq(Upload)
  BY DEF TurnInv, TurnTypes
<1> DEFINE over(u) == [uploads[u] EXCEPT !.state = IF @ = "flying" THEN "lost" ELSE @]
<1>2. uploads' = [u \in DOMAIN uploads |-> over(u)]
  BY DEF CtrlC
<1>3. ASSUME NEW u \in DOMAIN uploads
      PROVE  /\ over(u) \in Upload /\ over(u).turns = uploads[u].turns
             /\ over(u).late = uploads[u].late /\ over(u).session = uploads[u].session
  <2>1. PICK x \in Upload : x = uploads[u]
    BY <1>1
  <2>2. PICK s \in {"flying", "stored", "lost"} : s = IF x.state = "flying" THEN "lost" ELSE x.state
    BY <2>1 DEF Upload
  <2>3. over(u) = [x EXCEPT !.state = s]
    BY <2>1, <2>2
  <2>4. [x EXCEPT !.state = s] \in Upload /\ [x EXCEPT !.state = s].turns = x.turns
        /\ [x EXCEPT !.state = s].late = x.late /\ [x EXCEPT !.state = s].session = x.session
    BY DEF Upload
  <2> QED
    BY <2>1, <2>3, <2>4
<1>4. \A u \in DOMAIN uploads : uploads'[u] = over(u)
  BY <1>2
<1> HIDE DEF over
<1>5. DOMAIN uploads' = DOMAIN uploads /\ uploads' \in [1..Len(uploads) -> Upload]
  BY <1>1, <1>2, <1>3
<1>6. uploads' \in Seq(Upload)
  <2>1. Len(uploads) \in Nat
    BY <1>1
  <2> QED
    BY <1>5, <2>1, SeqDef
<1>7. SameUploads
  BY <1>3, <1>4, <1>5 DEF SameUploads
<1>8. UNCHANGED <<session, turns, buffer, late, esc, chain>> /\ at' = "gone" /\ ~InTurn /\ ~InTurn'
  BY DEF CtrlC, InTurn
<1> QED
  BY <1>6, <1>7, <1>8, UploadsMove

LEMMA NewTurn ==
  ASSUME TurnInv, New
  PROVE  TurnInv'
<1>1. /\ at = "prompt" /\ session < MaxSessions /\ session' = session + 1
      /\ UNCHANGED <<at, turns, esc, buffer, late, uploads, chain>>
  BY DEF New, auditVars, chainVars
<1>2. session' \in 1..MaxSessions
  BY <1>1, BoundsAssumption DEF TurnInv, TurnTypes
<1> QED
  BY <1>1, <1>2 DEF TurnInv, TurnTypes, LoggedInOnePlace, InTurn

LEMMA SubmitTurn ==
  ASSUME TurnInv, Submit
  PROVE  TurnInv'
<1> DEFINE turn == [session |-> session, ended |-> "no"]
           n == Len(turns) + 1
<1>1. /\ at = "prompt" /\ at' = "thinking" /\ Len(turns) < MaxTurns /\ esc' = FALSE
      /\ turns' = Append(turns, turn) /\ UNCHANGED <<session, late, uploads, chain>>
      /\ buffer' = IF chain.audit THEN buffer \cup {Len(turns')} ELSE buffer
  BY DEF Submit, chainVars
<1>2. /\ turns \in Seq(Turn) /\ session \in 1..MaxSessions /\ Len(turns) \in Nat
      /\ buffer \subseteq DOMAIN turns /\ \A u \in DOMAIN uploads : uploads[u].turns \subseteq DOMAIN turns
      /\ \A i \in DOMAIN turns : turns[i].ended # "no"
  BY <1>1 DEF TurnInv, TurnTypes, InTurn
<1>3. turn \in Turn /\ turn.session = session /\ turn.ended = "no"
  BY <1>2 DEF Turn
<1> HIDE DEF turn
<1>4. /\ turns' \in Seq(Turn) /\ Len(turns') = n /\ turns'[n] = turn
      /\ \A i \in 1..Len(turns) : turns'[i] = turns[i]
  BY <1>1, <1>2, <1>3, AppendProperties
<1>5. DOMAIN turns = 1..Len(turns) /\ DOMAIN turns' = 1..n /\ 1..n = 1..Len(turns) \cup {n}
      /\ n \notin 1..Len(turns) /\ turns' # <<>>
  BY <1>2, <1>4
<1>6. buffer' \subseteq buffer \cup {n} /\ buffer \subseteq buffer' /\ (chain.audit => n \in buffer')
  BY <1>1, <1>4
<1> HIDE DEF n
<1>7. TurnTypes'
  <2>1. Len(turns') <= MaxTurns
    BY <1>1, <1>2, <1>4, BoundsAssumption DEF n
  <2>2. buffer' \subseteq DOMAIN turns' /\ \A u \in DOMAIN uploads : uploads[u].turns \subseteq DOMAIN turns'
    BY <1>2, <1>5, <1>6
  <2>3. \A i \in DOMAIN turns' : turns'[i].ended = "no" <=> i = Len(turns') /\ InTurn'
    BY <1>1, <1>2, <1>3, <1>4, <1>5 DEF InTurn
  <2>4. turns'[Len(turns')].session = session'
    BY <1>1, <1>3, <1>4
  <2> QED
    BY <1>1, <1>4, <1>5, <2>1, <2>2, <2>3, <2>4 DEF TurnInv, TurnTypes
<1>8. LoggedInOnePlace'
  <2>1. \A i \in DOMAIN turns : turns'[i] = turns[i]
    BY <1>4, <1>5
  <2>2. \A i \in DOMAIN turns' : chain'.audit =>
          /\ turns'[i].ended = "no" => i \in buffer'
          /\ turns'[i].ended = "answered" => \E u \in DOMAIN uploads' : i \in uploads'[u].turns
    BY <1>1, <1>2, <1>3, <1>4, <1>5, <1>6, <2>1 DEF TurnInv, LoggedInOnePlace
  <2>3. \A i \in buffer' : turns'[i].ended # "answered" /\ \A u \in DOMAIN uploads' : i \notin uploads'[u].turns
    BY <1>1, <1>2, <1>3, <1>4, <1>5, <1>6, <2>1 DEF TurnInv, LoggedInOnePlace
  <2>4. \A u \in DOMAIN uploads' : \A i \in uploads'[u].turns :
          /\ turns'[i].ended # "no"
          /\ turns'[i].ended = "answered" => turns'[i].session = uploads'[u].session
          /\ \A v \in DOMAIN uploads' : i \in uploads'[v].turns => v = u
    BY <1>1, <1>2, <2>1 DEF TurnInv, LoggedInOnePlace
  <2> QED
    BY <2>2, <2>3, <2>4 DEF LoggedInOnePlace
<1> QED
  BY <1>7, <1>8 DEF TurnInv

\* The turn that is under way ends.
LEMMA EndTurnIs ==
  ASSUME TurnInv, NEW how \in {"answered", "died"}, EndTurn(how), session' = session
  PROVE  /\ turns' \in Seq(Turn) /\ Len(turns') = Len(turns) /\ DOMAIN turns' = DOMAIN turns
         /\ Len(turns) \in DOMAIN turns /\ turns[Len(turns)].ended = "no"
         /\ turns'[Len(turns)].ended = how /\ turns'[Len(turns)].session = session
         /\ \A i \in DOMAIN turns : i # Len(turns) => turns'[i] = turns[i] /\ turns[i].ended # "no"
         /\ ~InTurn'
<1> DEFINE n == Len(turns)
           x == [turns[n] EXCEPT !.ended = how]
<1>1. /\ turns \in Seq(Turn) /\ InTurn /\ turns # <<>> /\ turns[n].session = session /\ ~InTurn'
      /\ \A i \in DOMAIN turns : turns[i].ended = "no" <=> i = n
  BY DEF EndTurn, TurnInv, TurnTypes, InTurn
<1>2. n \in DOMAIN turns /\ turns[n] \in Turn
  BY <1>1
<1>3. x \in Turn /\ x.ended = how /\ x.session = session
  BY <1>1, <1>2 DEF Turn
<1>4. turns' = [turns EXCEPT ![n] = x]
  BY DEF EndTurn
<1> HIDE DEF x
<1>5. /\ turns' \in Seq(Turn) /\ Len(turns') = Len(turns) /\ DOMAIN turns' = DOMAIN turns
      /\ turns'[n] = x /\ \A i \in DOMAIN turns : i # n => turns'[i] = turns[i]
  BY <1>1, <1>2, <1>3, <1>4
<1> QED
  BY <1>1, <1>2, <1>3, <1>5

LEMMA TurnDiesTurn ==
  ASSUME TurnInv, TurnDies
  PROVE  TurnInv'
<1> DEFINE n == Len(turns)
<1>1. EndTurn("died") /\ at' = "prompt" /\ UNCHANGED <<session, esc, buffer, late, uploads, chain>>
  BY DEF TurnDies, EndTurn, auditVars, chainVars
<1>2. /\ turns' \in Seq(Turn) /\ Len(turns') = n /\ DOMAIN turns' = DOMAIN turns
      /\ n \in DOMAIN turns /\ turns[n].ended = "no" /\ turns'[n].ended = "died"
      /\ \A i \in DOMAIN turns : i # n => turns'[i] = turns[i] /\ turns[i].ended # "no"
      /\ ~InTurn'
  BY <1>1, EndTurnIs
<1> HIDE DEF n
<1>3. TurnTypes'
  <2>1. \A i \in DOMAIN turns' : turns'[i].ended # "no"
    BY <1>2
  <2> QED
    BY <1>1, <1>2, <2>1 DEF TurnInv, TurnTypes
<1>4. LoggedInOnePlace'
  <2>1. \A i \in DOMAIN turns' : chain'.audit =>
          /\ turns'[i].ended = "no" => i \in buffer'
          /\ turns'[i].ended = "answered" => \E u \in DOMAIN uploads' : i \in uploads'[u].turns
    BY <1>1, <1>2 DEF TurnInv, LoggedInOnePlace
  <2>2. \A i \in buffer' : turns'[i].ended # "answered" /\ \A u \in DOMAIN uploads' : i \notin uploads'[u].turns
    BY <1>1, <1>2 DEF TurnInv, LoggedInOnePlace, TurnTypes
  <2>3. \A u \in DOMAIN uploads' : \A i \in uploads'[u].turns :
          /\ turns'[i].ended # "no"
          /\ turns'[i].ended = "answered" => turns'[i].session = uploads'[u].session
          /\ \A v \in DOMAIN uploads' : i \in uploads'[v].turns => v = u
    BY <1>1, <1>2 DEF TurnInv, LoggedInOnePlace, TurnTypes
  <2> QED
    BY <2>1, <2>2, <2>3 DEF LoggedInOnePlace
<1> QED
  BY <1>3, <1>4 DEF TurnInv

\* What is in the buffer goes up.
AnswersLoad == [session |-> session, turns |-> buffer, late |-> late, state |-> "flying"]

LEMMA AnswerFlushes ==
  ASSUME TurnInv, Answer, NEW last, last = Len(uploads) + 1
  PROVE  /\ uploads' \in Seq(Upload) /\ last \notin DOMAIN uploads
         /\ \A u \in DOMAIN uploads : u \in DOMAIN uploads' /\ uploads'[u] = uploads[u]
         /\ \A u \in DOMAIN uploads' : u \in DOMAIN uploads \/ (u = last /\ uploads'[u] = AnswersLoad)
         /\ buffer # {} => last \in DOMAIN uploads' /\ uploads'[last] = AnswersLoad
<1> DEFINE empty == buffer = {} /\ late = {}
<1>1. uploads' = IF empty THEN uploads ELSE Append(uploads, AnswersLoad)
  BY DEF Answer, Flush, AnswersLoad
<1>2. /\ uploads \in Seq(Upload) /\ session \in 1..MaxSessions /\ Len(uploads) \in Nat
      /\ buffer \subseteq DOMAIN turns /\ turns \in Seq(Turn) /\ late \subseteq Entry
  BY DEF TurnInv, TurnTypes
<1>3. AnswersLoad \in Upload
  <2>1. buffer \subseteq Nat
    BY <1>2
  <2> QED
    BY <1>2, <2>1 DEF Upload, AnswersLoad
<1>4. DOMAIN uploads = 1..Len(uploads) /\ 1..last = 1..Len(uploads) \cup {last} /\ last \notin 1..Len(uploads)
  BY <1>2
<1>5. CASE empty
  BY <1>1, <1>2, <1>4, <1>5
<1>6. CASE ~empty
  <2>1. /\ uploads' \in Seq(Upload) /\ Len(uploads') = last /\ uploads'[last] = AnswersLoad
        /\ DOMAIN uploads' = 1..last /\ \A u \in 1..Len(uploads) : uploads'[u] = uploads[u]
    BY <1>1, <1>2, <1>3, <1>6, AppendProperties
  <2> QED
    BY <1>4, <2>1
<1> QED
  BY <1>5, <1>6

\* The buffer goes up under the session of the turn that is answered: its own entries are of
\* that session, the others of turns that died.
LEMMA AnswerTurn ==
  ASSUME TurnInv, Answer
  PROVE  TurnInv'
<1> DEFINE n == Len(turns)
           last == Len(uploads) + 1
<1>1. /\ EndTurn("answered") /\ at' = "prompt" /\ UNCHANGED <<session, esc, chain>>
      /\ buffer' = {} /\ late' = {}
  BY DEF Answer, EndTurn, chainVars
<1>2. /\ turns' \in Seq(Turn) /\ Len(turns') = n /\ DOMAIN turns' = DOMAIN turns
      /\ n \in DOMAIN turns /\ turns[n].ended = "no"
      /\ turns'[n].ended = "answered" /\ turns'[n].session = session
      /\ \A i \in DOMAIN turns : i # n => turns'[i] = turns[i] /\ turns[i].ended # "no"
      /\ ~InTurn'
  BY <1>1, EndTurnIs
<1>3. /\ buffer \subseteq DOMAIN turns
      /\ \A u \in DOMAIN uploads : uploads[u].turns \subseteq DOMAIN turns
  BY DEF TurnInv, TurnTypes
<1> DEFINE new == AnswersLoad
<1>4. new.session = session /\ new.turns = buffer
  BY DEF AnswersLoad
<1>5. \A u \in DOMAIN uploads : u \in DOMAIN uploads' /\ uploads'[u] = uploads[u]
  BY AnswerFlushes
<1>6. \A u \in DOMAIN uploads' : u \in DOMAIN uploads \/ (u = last /\ uploads'[u] = new)
  BY AnswerFlushes
<1>7. buffer # {} => last \in DOMAIN uploads' /\ uploads'[last] = new
  BY AnswerFlushes
<1>8. uploads' \in Seq(Upload)
  BY AnswerFlushes
<1> HIDE DEF new
<1> HIDE DEF n, last
<1>9. TurnTypes'
  <2>1. \A i \in DOMAIN turns' : turns'[i].ended # "no"
    BY <1>2
  <2>2. \A u \in DOMAIN uploads' : uploads'[u].turns \subseteq DOMAIN turns'
    BY <1>2, <1>3, <1>4, <1>5, <1>6
  <2> QED
    BY <1>1, <1>2, <1>8, <2>1, <2>2 DEF TurnInv, TurnTypes
<1>10. LoggedInOnePlace'
  <2>1. ASSUME NEW i \in DOMAIN turns', chain'.audit, turns'[i].ended = "answered"
        PROVE  \E u \in DOMAIN uploads' : i \in uploads'[u].turns
    <3>1. CASE i = n
      <4>1. i \in buffer
        BY <1>1, <1>2, <2>1, <3>1 DEF TurnInv, LoggedInOnePlace
      <4> QED
        BY <1>4, <1>7, <4>1
    <3>2. CASE i # n
      <4>1. turns[i].ended = "answered" /\ chain.audit /\ i \in DOMAIN turns
        BY <1>1, <1>2, <2>1, <3>2
      <4>2. PICK u \in DOMAIN uploads : i \in uploads[u].turns
        BY <4>1 DEF TurnInv, LoggedInOnePlace
      <4> QED
        BY <1>5, <4>2
    <3> QED
      BY <3>1, <3>2
  <2>2. \A i \in DOMAIN turns' : turns'[i].ended # "no"
    BY <1>2
  <2>3. ASSUME NEW u \in DOMAIN uploads', NEW i \in uploads'[u].turns
        PROVE  /\ i \in DOMAIN turns
               /\ turns'[i].ended = "answered" => turns'[i].session = uploads'[u].session
               /\ \A v \in DOMAIN uploads' : i \in uploads'[v].turns => v = u
    <3>1. CASE u \in DOMAIN uploads
      <4>1. i \in uploads[u].turns /\ uploads'[u] = uploads[u] /\ i \in DOMAIN turns
        BY <1>3, <1>5, <2>3, <3>1
      <4>2. i # n /\ i \notin buffer /\ turns'[i] = turns[i]
        BY <1>2, <3>1, <4>1 DEF TurnInv, LoggedInOnePlace
      <4>3. turns[i].ended = "answered" => turns[i].session = uploads[u].session
        BY <3>1, <4>1 DEF TurnInv, LoggedInOnePlace
      <4>4. ASSUME NEW v \in DOMAIN uploads', i \in uploads'[v].turns PROVE v = u
        <5>1. v \in DOMAIN uploads /\ i \in uploads[v].turns
          BY <1>4, <1>5, <1>6, <4>2, <4>4
        <5> QED
          BY <3>1, <4>1, <5>1 DEF TurnInv, LoggedInOnePlace
      <4> QED
        BY <4>1, <4>2, <4>3, <4>4
    <3>2. CASE u \notin DOMAIN uploads
      <4>1. u = last /\ uploads'[u] = new /\ i \in buffer /\ i \in DOMAIN turns
        BY <1>3, <1>4, <1>6, <2>3, <3>2
      <4>2. turns[i].ended # "answered" /\ \A v \in DOMAIN uploads : i \notin uploads[v].turns
        BY <4>1 DEF TurnInv, LoggedInOnePlace
      <4>3. turns'[i].ended = "answered" => turns'[i].session = uploads'[u].session
        <5>1. CASE i = n
          BY <1>2, <1>4, <4>1, <5>1
        <5>2. CASE i # n
          BY <1>2, <4>1, <4>2, <5>2
        <5> QED
          BY <5>1, <5>2
      <4>4. \A v \in DOMAIN uploads' : i \in uploads'[v].turns => v = u
        BY <1>5, <1>6, <4>1, <4>2
      <4> QED
        BY <4>1, <4>3, <4>4
    <3> QED
      BY <3>1, <3>2
  <2>4. \A i \in DOMAIN turns' : chain'.audit =>
          /\ turns'[i].ended = "no" => i \in buffer'
          /\ turns'[i].ended = "answered" => \E u \in DOMAIN uploads' : i \in uploads'[u].turns
    BY <2>1, <2>2
  <2>5. \A i \in buffer' : turns'[i].ended # "answered" /\ \A u \in DOMAIN uploads' : i \notin uploads'[u].turns
    BY <1>1
  <2>6. \A u \in DOMAIN uploads' : \A i \in uploads'[u].turns :
          /\ turns'[i].ended # "no"
          /\ turns'[i].ended = "answered" => turns'[i].session = uploads'[u].session
          /\ \A v \in DOMAIN uploads' : i \in uploads'[v].turns => v = u
    BY <1>2, <2>2, <2>3
  <2> QED
    BY <2>4, <2>5, <2>6 DEF LoggedInOnePlace
<1> QED
  BY <1>9, <1>10 DEF TurnInv

-----------------------------------------------------------------------------
(* The tools and their middleware. *)

ToolType == [sensitive : BOOLEAN, awaits : Seq(Stages)]

\* Every tool of a plugin is one.
LEMMA PluginTools == \A p \in Plugins : \A n \in DOMAIN p : p[n] \in ToolType
<1>1. /\ <<>> \in Seq(Stages) /\ <<"fetch">> \in Seq(Stages) /\ <<"spawn">> \in Seq(Stages)
      /\ <<"import">> \in Seq(Stages) /\ <<"submit">> \in Seq(Stages)
      /\ <<"submit", "confirm">> \in Seq(Stages) /\ <<"inspect", "submit", "confirm">> \in Seq(Stages)
  BY DEF Stages
<1>2. /\ Tool(TRUE, <<"import">>) \in ToolType /\ Tool(TRUE, <<>>) \in ToolType
      /\ Tool(TRUE, <<"submit">>) \in ToolType /\ Tool(TRUE, <<"submit", "confirm">>) \in ToolType
      /\ Tool(FALSE, <<>>) \in ToolType /\ Tool(FALSE, <<"spawn">>) \in ToolType
      /\ Tool(FALSE, <<"fetch">>) \in ToolType
  BY <1>1 DEF Tool, ToolType
<1>3. Read \in ToolType /\ SuiSend \in ToolType
  BY <1>1 DEF Read, SuiSend, Tool, ToolType
<1> DEFINE Now == Tool(FALSE, <<>>)
           Key == Tool(TRUE, <<"import">>)
           Secret == Tool(TRUE, <<>>)
           Fire == Tool(TRUE, <<"submit">>)
           Send == Tool(TRUE, <<"submit", "confirm">>)
           Delegate == Tool(FALSE, <<"spawn">>)
           Remote == Tool(FALSE, <<"fetch">>)
<1>4. /\ walletTools = [sui_setup |-> Key, sui_create_wallet |-> Key, sui_import_wallet |-> Key,
                        sui_export_wallet |-> Secret, sui_use_wallet |-> Now, sui_wallets |-> Now,
                        sui_balances |-> Read]
      /\ evmPlugin = [evm_get_balance |-> Read, evm_read_contract |-> Read, evm_send_native |-> Send]
      /\ tokensPlugin = [erc20_balance |-> Read, erc20_allowance |-> Read, erc20_approve |-> Fire,
                         erc20_transfer |-> Fire]
      /\ solanaPlugin = [solana_get_balance |-> Read, solana_send_sol |-> Send]
      /\ marketPlugin = [market_price |-> Read, portfolio_update |-> Now, portfolio_get |-> Now]
      /\ agentsPlugin = [delegate_task |-> Delegate, update_plan |-> Now]
      /\ \A n \in DOMAIN agentSkillsPlugin : agentSkillsPlugin[n] = Now
      /\ buildMcpPlugin = [mcp_tool |-> Remote]
  BY DEF walletTools, evmPlugin, tokensPlugin, solanaPlugin, marketPlugin, agentsPlugin,
         agentSkillsPlugin, buildMcpPlugin
<1> HIDE DEF Now, Key, Secret, Fire, Send, Delegate, Remote
<1>5. /\ Now \in ToolType /\ Key \in ToolType /\ Secret \in ToolType /\ Fire \in ToolType
      /\ Send \in ToolType /\ Delegate \in ToolType /\ Remote \in ToolType
  BY <1>2 DEF Now, Key, Secret, Fire, Send, Delegate, Remote
<1>6. /\ \A n \in DOMAIN walletTools : walletTools[n] \in ToolType
      /\ \A n \in DOMAIN evmPlugin : evmPlugin[n] \in ToolType
      /\ \A n \in DOMAIN tokensPlugin : tokensPlugin[n] \in ToolType
      /\ \A n \in DOMAIN solanaPlugin : solanaPlugin[n] \in ToolType
  BY <1>3, <1>4, <1>5
<1>7. /\ \A n \in DOMAIN marketPlugin : marketPlugin[n] \in ToolType
      /\ \A n \in DOMAIN agentsPlugin : agentsPlugin[n] \in ToolType
      /\ \A n \in DOMAIN agentSkillsPlugin : agentSkillsPlugin[n] \in ToolType
      /\ \A n \in DOMAIN buildMcpPlugin : buildMcpPlugin[n] \in ToolType
  BY <1>3, <1>4, <1>5
<1>8. /\ \A n \in DOMAIN suiPlugin : suiPlugin[n] \in ToolType
      /\ \A n \in DOMAIN webSearchPlugin : webSearchPlugin[n] \in ToolType
      /\ \A n \in DOMAIN createFetchUrlTool : createFetchUrlTool[n] \in ToolType
      /\ \A n \in DOMAIN knowledgePlugin : knowledgePlugin[n] \in ToolType
      /\ \A n \in DOMAIN memwalFactsPlugin : memwalFactsPlugin[n] \in ToolType
  BY <1>3 DEF suiPlugin, webSearchPlugin, createFetchUrlTool, knowledgePlugin, memwalFactsPlugin
<1> QED
  BY <1>6, <1>7, <1>8 DEF Plugins

LEMMA RegistryTyped == \A n \in DOMAIN registry : registry[n].awaits \in Seq(Stages)
<1> SUFFICES ASSUME NEW n \in DOMAIN registry PROVE registry[n].awaits \in Seq(Stages)
  OBVIOUS
<1>1. \E p \in Plugins : n \in DOMAIN p
  BY DEF registry
<1>2. PICK p \in Plugins : n \in DOMAIN p /\ p = CHOOSE q \in Plugins : n \in DOMAIN q
  BY <1>1
<1>3. registry[n] = p[n]
  BY <1>2 DEF registry
<1>4. registry[n] \in ToolType
  BY <1>2, <1>3, PluginTools
<1> QED
  BY <1>4 DEF ToolType

LEMMA AwaitsTyped ==
  ASSUME NEW r, r.tool \in DOMAIN registry
  PROVE  Awaits(r) \in Seq(Stages)
<1>1. registry[r.tool].awaits \in Seq(Stages) /\ <<>> \in Seq(Stages)
  BY RegistryTyped
<1> DEFINE first == IF chain.policy # "none" /\ evaluateRules(r) = "approve" THEN <<"approve">> ELSE <<>>
           second == IF chain.simulate /\ registry[r.tool].sensitive THEN <<"simulate">> ELSE <<>>
           third == IF SetupNeeded(r) THEN <<>> ELSE registry[r.tool].awaits
<1>6. <<"approve">> \in Seq(Stages) /\ <<"simulate">> \in Seq(Stages)
  BY DEF Stages
<1>2. first \in Seq(Stages)
  BY <1>1, <1>6
<1>3. second \in Seq(Stages)
  BY <1>1, <1>6
<1>4. third \in Seq(Stages)
  BY <1>1
<1>5. Awaits(r) = (first \o second) \o third
  BY DEF Awaits, Gates
<1> HIDE DEF first, second, third
<1> QED
  BY <1>2, <1>3, <1>4, <1>5, ConcatProperties

LEMMA RepliesTyped ==
  ASSUME NEW stage, NEW r, NEW reply \in Replies(stage, r)
  PROVE  reply.sent \in BOOLEAN /\ reply.how \in {"next", "answered", "failed"}
<1> DEFINE Out(sent, how) == [sent |-> sent, how |-> how]
<1>1. CASE stage = "approve"
  <2>1. reply = [sent |-> FALSE, how |-> IF Approves(r) THEN "next" ELSE "failed"]
    BY <1>1 DEF Replies
  <2>2. PICK how \in {"next", "failed"} : how = IF Approves(r) THEN "next" ELSE "failed"
    OBVIOUS
  <2>3. reply = [sent |-> FALSE, how |-> how]
    BY <2>1, <2>2
  <2> QED
    BY <2>3
<1>2. CASE stage = "inspect"
  <2>1. reply \in {Out(FALSE, "next"), Out(FALSE, "answered"), Out(FALSE, "failed")}
    BY <1>2 DEF Replies
  <2>2. PICK how \in {"next", "answered", "failed"} : reply = [sent |-> FALSE, how |-> how]
    BY <2>1
  <2> QED
    BY <2>2
<1>3. CASE stage = "submit"
  <2>1. reply \in [sent : BOOLEAN, how : {"next", "failed"}]
    BY <1>3 DEF Replies
  <2> QED
    BY <2>1
<1>4. CASE stage \notin {"approve", "inspect", "submit"}
  <2>1. reply \in {Out(FALSE, "next"), Out(FALSE, "failed")}
    BY <1>4 DEF Replies
  <2>2. PICK how \in {"next", "failed"} : reply = [sent |-> FALSE, how |-> how]
    BY <2>1
  <2> QED
    BY <2>2
<1> QED
  BY <1>1, <1>2, <1>3, <1>4

\* How far a request gets at once.
LEMMA AtOnceIs ==
  ASSUME NEW r, NEW throws \in BOOLEAN
  PROVE  /\ AtOnce(r, throws) \in {"failed", "answered", "running"}
         /\ AtOnce(r, throws) = "running" => /\ Awaits(r) # <<>> /\ ~Hit(r) /\ ~ThrowsAtOnce(r, throws)
                                             /\ ~Limited
<1>1. Limited \in BOOLEAN /\ Hit(r) \in BOOLEAN /\ ThrowsAtOnce(r, throws) \in BOOLEAN
  BY DEF Limited, Hit, ThrowsAtOnce
<1> QED
  BY <1>1 DEF AtOnce

\* What the import tool awaits: of all plugins' tools one has its name.
LEMMA ImportTool == "sui_import_wallet" \notin DOMAIN suiPlugin /\ registry["sui_import_wallet"].awaits = <<"import">>
<1> DEFINE name == "sui_import_wallet"
<1>1. /\ name \notin DOMAIN suiPlugin /\ name \notin DOMAIN evmPlugin /\ name \notin DOMAIN tokensPlugin
      /\ name \notin DOMAIN solanaPlugin /\ name \notin DOMAIN marketPlugin
  BY DEF suiPlugin, evmPlugin, tokensPlugin, solanaPlugin, marketPlugin
<1>2. /\ name \notin DOMAIN webSearchPlugin /\ name \notin DOMAIN createFetchUrlTool
      /\ name \notin DOMAIN knowledgePlugin /\ name \notin DOMAIN memwalFactsPlugin
      /\ name \notin DOMAIN agentsPlugin /\ name \notin DOMAIN agentSkillsPlugin
      /\ name \notin DOMAIN buildMcpPlugin
  BY DEF webSearchPlugin, createFetchUrlTool, knowledgePlugin, memwalFactsPlugin, agentsPlugin,
         agentSkillsPlugin, buildMcpPlugin
<1>3. name \in DOMAIN walletTools /\ walletTools[name] = Tool(TRUE, <<"import">>)
  BY DEF walletTools
<1> HIDE DEF name
<1>4. walletTools \in Plugins /\ \A p \in Plugins : name \in DOMAIN p => p = walletTools
  BY <1>1, <1>2 DEF Plugins
<1>5. (CHOOSE p \in Plugins : name \in DOMAIN p) = walletTools
  BY <1>3, <1>4
<1>6. registry[name] = (CHOOSE p \in Plugins : name \in DOMAIN p)[name]
  BY <1>3, <1>4 DEF registry
<1>7. registry[name].awaits = <<"import">>
  <2>1. registry[name] = Tool(TRUE, <<"import">>)
    BY <1>3, <1>5, <1>6
  <2> QED
    BY <2>1 DEF Tool
<1> QED
  BY <1>1, <1>7 DEF name

\* Short sequences.
LEMMA ShortEqual ==
  ASSUME NEW S, NEW s \in Seq(S), NEW t \in Seq(S), Len(s) = Len(t), Len(s) \in {1, 2, 3},
         s[1] = t[1], Len(s) > 1 => s[2] = t[2], Len(s) > 2 => s[3] = t[3]
  PROVE  s = t
<1>1. \A i \in 1..Len(s) : i = 1 \/ (i = 2 /\ Len(s) > 1) \/ (i = 3 /\ Len(s) > 2)
  OBVIOUS
<1>2. \A i \in 1..Len(s) : s[i] = t[i]
  BY <1>1
<1> QED
  BY <1>2, SeqEqual

LEMMA ShortConcat ==
  ASSUME NEW S, NEW a \in S, NEW b \in S, NEW c \in S
  PROVE  <<a>> \o <<b>> = <<a, b>> /\ <<a, b>> \o <<c>> = <<a, b, c>>
<1>1. <<a>> \o <<b>> = <<a, b>>
  <2> DEFINE s == <<a>> \o <<b>>
             t == <<a, b>>
  <2>1. s \in Seq(S) /\ Len(s) = 2 /\ s[1] = a /\ s[2] = b
    OBVIOUS
  <2>2. t \in Seq(S) /\ Len(t) = 2 /\ t[1] = a /\ t[2] = b
    OBVIOUS
  <2> HIDE DEF s, t
  <2>3. s = t
    BY <2>1, <2>2, ShortEqual
  <2> QED
    BY <2>3 DEF s, t
<1>2. <<a, b>> \o <<c>> = <<a, b, c>>
  <2> DEFINE s == <<a, b>> \o <<c>>
             t == <<a, b, c>>
  <2>1. s \in Seq(S) /\ Len(s) = 3 /\ s[1] = a /\ s[2] = b /\ s[3] = c
    OBVIOUS
  <2>2. t \in Seq(S) /\ Len(t) = 3 /\ t[1] = a /\ t[2] = b /\ t[3] = c
    OBVIOUS
  <2> HIDE DEF s, t
  <2>3. s = t
    BY <2>1, <2>2, ShortEqual
  <2> QED
    BY <2>3 DEF s, t
<1> QED
  BY <1>1, <1>2

LEMMA ShortTail ==
  ASSUME NEW S, NEW a \in S, NEW b \in S, NEW c \in S
  PROVE  Tail(<<a, b>>) = <<b>> /\ Tail(<<a, b, c>>) = <<b, c>>
<1>1. Tail(<<a, b>>) = <<b>>
  <2> DEFINE s == Tail(<<a, b>>)
             t == <<b>>
  <2>1. s \in Seq(S) /\ Len(s) = 1 /\ s[1] = b
    OBVIOUS
  <2>2. t \in Seq(S) /\ Len(t) = 1 /\ t[1] = b
    OBVIOUS
  <2> HIDE DEF s, t
  <2>3. s = t
    BY <2>1, <2>2, ShortEqual
  <2> QED
    BY <2>3 DEF s, t
<1>2. Tail(<<a, b, c>>) = <<b, c>>
  <2> DEFINE s == Tail(<<a, b, c>>)
             t == <<b, c>>
  <2>1. s \in Seq(S) /\ Len(s) = 2 /\ s[1] = b /\ s[2] = c
    OBVIOUS
  <2>2. t \in Seq(S) /\ Len(t) = 2 /\ t[1] = b /\ t[2] = c
    OBVIOUS
  <2> HIDE DEF s, t
  <2>3. s = t
    BY <2>1, <2>2, ShortEqual
  <2> QED
    BY <2>3 DEF s, t
<1> QED
  BY <1>1, <1>2

\* The stages a gated import goes through, put together and taken off one by one.
LEMMA ImportStages ==
  /\ <<"approve">> \o <<"simulate">> = <<"approve", "simulate">>
  /\ <<"approve">> \o <<"import">> = <<"approve", "import">>
  /\ <<"simulate">> \o <<"import">> = <<"simulate", "import">>
  /\ <<"approve", "simulate">> \o <<"import">> = <<"approve", "simulate", "import">>
  /\ Tail(<<"approve", "import">>) = <<"import">>
  /\ Tail(<<"simulate", "import">>) = <<"import">>
  /\ Tail(<<"approve", "simulate", "import">>) = <<"simulate", "import">>
<1>1. \A a, b, c \in Stages : /\ <<a>> \o <<b>> = <<a, b>> /\ <<a, b>> \o <<c>> = <<a, b, c>>
                             /\ Tail(<<a, b>>) = <<b>> /\ Tail(<<a, b, c>>) = <<b, c>>
  <2> TAKE a, b, c \in Stages
  <2>1. <<a>> \o <<b>> = <<a, b>> /\ <<a, b>> \o <<c>> = <<a, b, c>>
    BY ShortConcat
  <2>2. Tail(<<a, b>>) = <<b>> /\ Tail(<<a, b, c>>) = <<b, c>>
    BY ShortTail
  <2> QED
    BY <2>1, <2>2
<1>2. "approve" \in Stages /\ "simulate" \in Stages /\ "import" \in Stages
  BY DEF Stages
<1> QED
  BY <1>1, <1>2

\* What is in front of a tool.
LEMMA GatesAre ==
  ASSUME NEW r
  PROVE  Gates(r) \in {<<>>, <<"approve">>, <<"simulate">>, <<"approve", "simulate">>}
<1> DEFINE first == IF chain.policy # "none" /\ evaluateRules(r) = "approve" THEN <<"approve">> ELSE <<>>
           second == IF chain.simulate /\ registry[r.tool].sensitive THEN <<"simulate">> ELSE <<>>
<1>1. Gates(r) = first \o second
  BY DEF Gates
<1>2. first \in {<<>>, <<"approve">>} /\ second \in {<<>>, <<"simulate">>}
  OBVIOUS
<1> HIDE DEF first, second
<1>3. <<>> \o <<>> = <<>> /\ <<>> \o <<"simulate">> = <<"simulate">> /\ <<"approve">> \o <<>> = <<"approve">>
  OBVIOUS
<1>4. <<"approve">> \o <<"simulate">> = <<"approve", "simulate">>
  BY ImportStages
<1> QED
  BY <1>1, <1>2, <1>3, <1>4

\* What an attempt of an import that waits begins with.
LEMMA ImportBegins ==
  ASSUME chain \in Agents, NEW r \in Asks(chain), r.tool = "sui_import_wallet",
         NEW throws \in BOOLEAN, MindsKey(r, throws), AtOnce(r, throws) = "running"
  PROVE  ImportAwaits(r, Awaits(r))
<1>1. r.arg \in Wallets \cup {"no key"}
  BY AsksAssumption
<1>2. Awaits(r) = Gates(r) \o <<"import">>
  BY ImportTool DEF Awaits, SetupNeeded
<1>3. Gates(r) = <<>> => ~throws
  BY AtOnceIs DEF ThrowsAtOnce
<1>4. /\ <<>> \o <<"import">> = <<"import">> /\ <<"approve">> \o <<"import">> = <<"approve", "import">>
      /\ <<"simulate">> \o <<"import">> = <<"simulate", "import">>
      /\ <<"approve", "simulate">> \o <<"import">> = <<"approve", "simulate", "import">>
  <2>1. <<>> \o <<"import">> = <<"import">>
    OBVIOUS
  <2> QED
    BY <2>1, ImportStages
<1> QED
  <2>1. CASE Gates(r) = <<>>
    BY <1>1, <1>2, <1>3, <1>4, <2>1 DEF ImportAwaits, MindsKey
  <2>2. CASE Gates(r) # <<>>
    BY <1>2, <1>4, <2>2, GatesAre DEF ImportAwaits
  <2> QED
    BY <2>1, <2>2

-----------------------------------------------------------------------------
(* The calls and their attempts under each step. *)

Waiting == {"running", "backoff"}

LEMMA CallFrame ==
  ASSUME CallInv, UNCHANGED <<chain, req, call, tries, att, memo, hits, beside>>,
         at' \notin {"acting", "library"} => \A c \in Calls : call[c] \notin Waiting
  PROVE  CallInv'
<1>1. CallTypes' /\ Attempts' /\ ImportHasKey'
  BY DEF CallInv, CallTypes, Attempts, ImportHasKey, Current, Memoises, MemoKey
<1>2. QuietBetweenTurns'
  BY DEF QuietBetweenTurns, Waiting
<1>3. BesideEachOther'
  BY DEF CallInv, BesideEachOther, SameEntry, Involved, UnderWay, Paid, Explained, Memoises, MemoKey
<1> QED
  BY <1>1, <1>2, <1>3 DEF CallInv

\* No attempt goes, or comes back.
AttemptsGoOn ==
  \A c \in Calls : \A n \in DOMAIN att[c] :
    /\ n \in DOMAIN att'[c] /\ (att[c][n].shaky => att'[c][n].shaky)
    /\ Len(att'[c][n].todo) <= Len(att[c][n].todo)

\* What an attempt still awaits has a length.
LEMMA TodoTyped ==
  ASSUME CallInv, NEW c \in Calls, NEW n \in DOMAIN att[c]
  PROVE  att[c][n].todo \in Seq(Stages) /\ Len(att[c][n].todo) \in Nat
<1>1. PICK x \in AttemptType : x = att[c][n]
  BY DEF CallInv, CallTypes
<1> QED
  BY <1>1 DEF AttemptType

\* What nobody has touched is as it was.
Untouched(d) == req'[d] = req[d] /\ call'[d] = call[d] /\ att'[d] = att[d]

LEMMA UntouchedInvolved ==
  ASSUME NEW d, Untouched(d)
  PROVE  Involved(d)' <=> Involved(d)
  BY DEF Untouched, Involved, UnderWay, Paid, Explained

LEMMA EntriesStay ==
  ASSUME UNCHANGED chain, NEW c, NEW d, req'[c] = req[c], req'[d] = req[d]
  PROVE  SameEntry(c, d)' <=> SameEntry(c, d)
  BY DEF SameEntry, Memoises, MemoKey

\* Only call c has moved.
LEMMA BesideKept ==
  ASSUME BesideEachOther, UNCHANGED chain, NEW c \in Calls, beside \subseteq beside',
         \A d \in Calls \ {c} : Untouched(d),
         \A d \in Calls : SameEntry(c, d)' /\ Involved(c)' /\ Involved(d)' => c \in beside' \/ d \in beside'
  PROVE  BesideEachOther'
<1> SUFFICES ASSUME NEW x \in Calls, NEW y \in Calls, SameEntry(x, y)', Involved(x)', Involved(y)'
             PROVE  x \in beside' \/ y \in beside'
  BY DEF BesideEachOther
<1>1. SameEntry(y, x)'
  BY DEF SameEntry
<1>2. CASE x = c
  BY <1>2
<1>3. CASE y = c
  BY <1>1, <1>3
<1>4. CASE x # c /\ y # c
  <2>1. Untouched(x) /\ Untouched(y)
    BY <1>4
  <2>2. SameEntry(x, y)
    BY <2>1, EntriesStay DEF Untouched
  <2>3. Involved(x) /\ Involved(y)
    BY <2>1, UntouchedInvolved
  <2> QED
    BY <2>2, <2>3 DEF BesideEachOther
<1> QED
  BY <1>2, <1>3, <1>4

\* Call c was involved before, if it is now, and in the same entry.
LEMMA StillBeside ==
  ASSUME BesideEachOther, UNCHANGED chain, NEW c \in Calls, UNCHANGED beside, req'[c] = req[c],
         \A d \in Calls \ {c} : Untouched(d), Involved(c)
  PROVE  BesideEachOther'
<1>1. ASSUME NEW d \in Calls, SameEntry(c, d)', Involved(d)' PROVE c \in beside' \/ d \in beside'
  <2>1. d # c
    BY <1>1 DEF SameEntry
  <2>2. Untouched(d)
    BY <2>1
  <2>3. SameEntry(c, d)
    BY <1>1, <2>2, EntriesStay DEF Untouched
  <2>4. Involved(d)
    BY <1>1, <2>2, UntouchedInvolved
  <2> QED
    BY <2>3, <2>4 DEF BesideEachOther
<1> QED
  BY <1>1, BesideKept

\* The attempts of the untouched calls: what is remembered stays remembered.
LEMMA UntouchedAttempts ==
  ASSUME CallInv, UNCHANGED chain, memo \subseteq memo', NEW d \in Calls, Untouched(d),
         NEW n \in DOMAIN att'[d]
  PROVE  IF Current(d, n)' THEN att'[d][n].todo # <<>>
         ELSE /\ att'[d][n].todo = <<>> \/ att'[d][n].shaky
              /\ att'[d][n].sent /\ ~att'[d][n].shaky =>
                   /\ n = Len(att'[d]) /\ call'[d] = "answered"
                   /\ Memoises(req[d])' => MemoKey(req[d])' \in memo'
<1>1. n \in DOMAIN att[d] /\ att'[d] = att[d] /\ (Current(d, n)' <=> Current(d, n))
  BY DEF Untouched, Current
<1>2. (Memoises(req[d])' <=> Memoises(req[d])) /\ MemoKey(req[d])' = MemoKey(req[d])
  BY DEF Untouched, Memoises, MemoKey
<1> QED
  BY <1>1, <1>2 DEF CallInv, Attempts, Untouched

\* Nobody waits for the call: whatever it has put on the chain is explained or remembered.
LEMMA PaidIsRemembered ==
  ASSUME CallInv, NEW d \in Calls, Paid(d), ~Explained(d), ~UnderWay(d)
  PROVE  Memoises(req[d]) => MemoKey(req[d]) \in memo
<1>1. PICK n \in DOMAIN att[d] : att[d][n].sent
  BY DEF Paid
<1>2. ~att[d][n].shaky /\ att[d][n].todo = <<>>
  BY <1>1 DEF Explained, UnderWay
<1>3. ~Current(d, n)
  BY <1>1, <1>2 DEF CallInv, Attempts
<1> QED
  BY <1>1, <1>2, <1>3 DEF CallInv, Attempts

\* Attempt n of call c has begun: it got as far as `how`, and awaits `todo`.
Began(c, n, r, throws, todo, how) ==
  /\ how = AtOnce(r, throws)
  /\ how = "running" => todo = Awaits(r) /\ todo # <<>> /\ ~Hit(r)
  /\ how # "running" => todo = <<>>
  /\ att' \in [Calls -> Seq(AttemptType)]
  /\ Len(att'[c]) = n /\ n \in Nat /\ Len(att[c]) \in Nat /\ n = Len(att[c]) + 1
  /\ DOMAIN att'[c] = DOMAIN att[c] \cup {n} /\ n \notin DOMAIN att[c]
  /\ att'[c][n] = Attempt(todo)
  /\ \A m \in DOMAIN att[c] : att'[c][m] = att[c][m]
  /\ \A d \in Calls \ {c} : att'[d] = att[d] /\ call'[d] = call[d]
  /\ call' = [call EXCEPT ![c] = IF how = "failed" /\ MayRetry(n) THEN "backoff" ELSE how]

LEMMA BeginIs ==
  ASSUME CallInv, NEW c \in Calls, NEW r \in Asks(chain), NEW throws \in BOOLEAN, NEW n,
         n = tries[c] + 1, Begin(c, n, r, throws)
  PROVE  \E todo \in Seq(Stages), how \in {"failed", "answered", "running"} : Began(c, n, r, throws, todo, how)
<1> DEFINE how == AtOnce(r, throws)
           todo == IF how = "running" THEN Awaits(r) ELSE <<>>
<1>1. how \in {"failed", "answered", "running"} /\ (how = "running" => Awaits(r) # <<>> /\ ~Hit(r))
  BY AtOnceIs
<1>2. Awaits(r) \in Seq(Stages)
  <2>1. chain \in Agents
    BY DEF CallInv, CallTypes
  <2>2. r.tool \in DOMAIN registry
    BY <2>1, AsksAssumption DEF IsRequest
  <2> QED
    BY <2>2, AwaitsTyped
<1>3. todo \in Seq(Stages)
  BY <1>2
<1>4. /\ att' = [att EXCEPT ![c] = Append(@, Attempt(todo))]
      /\ call' = [call EXCEPT ![c] = IF how = "failed" /\ MayRetry(n) THEN "backoff" ELSE how]
  BY DEF Begin
<1>5. todo # <<>> => how = "running"
  OBVIOUS
<1>6. how = "running" => todo = Awaits(r)
  OBVIOUS
<1>7. how # "running" => todo = <<>>
  OBVIOUS
<1> HIDE DEF how, todo
<1>8. PICK x \in AttemptType : x = Attempt(todo)
  <2>1. Attempt(todo) \in AttemptType
    BY <1>3 DEF Attempt, AttemptType
  <2> QED
    BY <2>1
<1>9. /\ att \in [Calls -> Seq(AttemptType)] /\ tries[c] = Len(att[c]) /\ DOMAIN call = Calls
  BY DEF CallInv, CallTypes
<1>10. PICK a \in Seq(AttemptType) : a = att[c]
  BY <1>9
<1>11. /\ Append(a, x) \in Seq(AttemptType) /\ Len(Append(a, x)) = n /\ n \in Nat /\ Len(a) \in Nat
       /\ n = Len(a) + 1 /\ Append(a, x)[n] = x /\ \A m \in DOMAIN a : Append(a, x)[m] = a[m]
       /\ DOMAIN Append(a, x) = 1..n /\ DOMAIN a = 1..Len(a)
  BY <1>9, <1>10, AppendProperties
<1>12. 1..n = 1..Len(a) \cup {n} /\ n \notin 1..Len(a)
  BY <1>11
<1>13. /\ att' = [att EXCEPT ![c] = Append(a, x)]
  BY <1>4, <1>8, <1>10
<1>14. /\ att' \in [Calls -> Seq(AttemptType)] /\ att'[c] = Append(a, x)
       /\ \A d \in Calls \ {c} : att'[d] = att[d] /\ call'[d] = call[d]
  BY <1>4, <1>9, <1>11, <1>13
<1>15. how = "running" => todo # <<>> /\ ~Hit(r)
  BY <1>1, <1>6
<1>16. how = AtOnce(r, throws)
  BY DEF how
<1>17. /\ Len(att'[c]) = n /\ n \in Nat /\ Len(att[c]) \in Nat /\ n = Len(att[c]) + 1
       /\ DOMAIN att'[c] = DOMAIN att[c] \cup {n} /\ n \notin DOMAIN att[c]
       /\ att'[c][n] = Attempt(todo) /\ \A m \in DOMAIN att[c] : att'[c][m] = att[c][m]
  BY <1>8, <1>10, <1>11, <1>12, <1>14
<1> QED
  BY <1>1, <1>3, <1>4, <1>6, <1>7, <1>14, <1>15, <1>16, <1>17 DEF Began

LEMMA BeginCall ==
  ASSUME CallInv, NEW c \in Calls, NEW r \in Asks(chain), NEW throws \in BOOLEAN, NEW n,
         n = tries[c] + 1, n <= chain.retries + 1, call[c] \in {"unused", "backoff"},
         req' = [d \in Calls |-> req'[d]], req'[c] = r, \A d \in Calls \ {c} : req'[d] = req[d],
         call[c] # "unused" => req[c] = r,
         UNCHANGED chain, at' \in {"acting", "library"},
         MindsKey(r, throws),
         Begin(c, n, r, throws)
  PROVE  CallInv' /\ AttemptsGoOn
<1>0. PICK todo \in Seq(Stages), how \in {"failed", "answered", "running"} : Began(c, n, r, throws, todo, how)
  BY BeginIs
<1>1. /\ how = AtOnce(r, throws)
      /\ how = "running" => todo = Awaits(r) /\ todo # <<>> /\ ~Hit(r)
      /\ how # "running" => todo = <<>>
      /\ att' \in [Calls -> Seq(AttemptType)]
      /\ Len(att'[c]) = n /\ n \in Nat /\ Len(att[c]) \in Nat /\ n = Len(att[c]) + 1
      /\ DOMAIN att'[c] = DOMAIN att[c] \cup {n} /\ n \notin DOMAIN att[c]
      /\ att'[c][n] = Attempt(todo)
      /\ \A m \in DOMAIN att[c] : att'[c][m] = att[c][m]
      /\ \A d \in Calls \ {c} : att'[d] = att[d] /\ call'[d] = call[d]
      /\ call' = [call EXCEPT ![c] = IF how = "failed" /\ MayRetry(n) THEN "backoff" ELSE how]
  BY <1>0 DEF Began
<1> DEFINE new == Attempt(todo)
<1>2. new.todo = todo /\ new.sent = FALSE /\ new.shaky = FALSE
  BY DEF Attempt
<1>3. att'[c][n] = new
  BY <1>1
<1> HIDE DEF new
<1>4. /\ tries' = [tries EXCEPT ![c] = n]
      /\ beside' = IF \E d \in Calls \ {c} : UnderWay(d) /\ MemoKey(req[d]) = MemoKey(r)
                   THEN beside \cup {c} ELSE beside
      /\ memo' = IF how = "answered" THEN Remembering(r) ELSE memo
      /\ hits' = IF chain.perMinute = Unlimited \/ Limited THEN hits ELSE hits + 1
  BY <1>1 DEF Begin
<1>5. /\ call = [d \in Calls |-> call[d]] /\ tries = [d \in Calls |-> tries[d]]
      /\ beside \subseteq Calls /\ chain \in Agents /\ tries[c] = Len(att[c])
      /\ chain.perMinute \in {Unlimited} \cup Nat /\ chain.retries \in Nat
  <2>1. chain \in Agents
    BY DEF CallInv, CallTypes
  <2>2. chain \in Agent
    BY <2>1, AsksAssumption
  <2>3. chain.perMinute \in {Unlimited} \cup Nat /\ chain.retries \in Nat
    BY <2>2 DEF Agent
  <2> QED
    BY <2>1, <2>3 DEF CallInv, CallTypes
<1>6. /\ call'[c] = (IF how = "failed" /\ MayRetry(n) THEN "backoff" ELSE how)
      /\ tries'[c] = n /\ \A d \in Calls \ {c} : tries'[d] = tries[d]
      /\ call' = [d \in Calls |-> call'[d]] /\ tries' = [d \in Calls |-> tries'[d]]
  BY <1>1, <1>4, <1>5
<1>7. \A d \in Calls \ {c} : Untouched(d)
  BY <1>1 DEF Untouched
<1>8. memo \subseteq memo' /\ beside \subseteq beside'
  BY <1>4 DEF Remembering
<1>9. CallTypes'
  <2>1. beside' \subseteq Calls
    BY <1>4, <1>5
  <2>2. IF chain'.perMinute = Unlimited THEN hits' = 0 ELSE hits' \in 0..chain'.perMinute
    <3>1. CASE chain.perMinute = Unlimited
      BY <1>4, <3>1 DEF CallInv, CallTypes
    <3>2. CASE chain.perMinute # Unlimited /\ Limited
      BY <1>4, <3>2 DEF CallInv, CallTypes
    <3>3. CASE chain.perMinute # Unlimited /\ ~Limited
      <4>1. hits \in 0..chain.perMinute /\ chain.perMinute \in Nat /\ hits' = hits + 1
        BY <1>4, <1>5, <3>3 DEF CallInv, CallTypes
      <4>2. ~(hits >= chain.perMinute)
        BY <3>3 DEF Limited
      <4> QED
        BY <3>3, <4>1, <4>2
    <3> QED
      BY <3>1, <3>2, <3>3
  <2>3. ASSUME NEW d \in Calls
        PROVE  /\ call'[d] \in {"unused", "running", "backoff", "answered", "failed"}
               /\ tries'[d] = Len(att'[d]) /\ tries'[d] <= chain'.retries + 1
               /\ call'[d] = "backoff" => tries'[d] <= chain'.retries
               /\ call'[d] = "unused" <=> tries'[d] = 0
               /\ call'[d] # "unused" => req'[d] \in Asks(chain')
    <3>1. CASE d = c
      <4>1. call'[c] \in {"running", "backoff", "answered", "failed"} /\ n # 0
        BY <1>1, <1>6
      <4>2. call'[c] = "backoff" => n <= chain.retries
        BY <1>6 DEF MayRetry
      <4> QED
        BY <1>1, <1>6, <3>1, <4>1, <4>2
    <3>2. CASE d # c
      BY <1>1, <1>6, <3>2 DEF CallInv, CallTypes
    <3> QED
      BY <3>1, <3>2
  <2> QED
    BY <1>1, <1>5, <1>6, <2>1, <2>2, <2>3 DEF CallTypes
<1>10. QuietBetweenTurns'
  BY DEF QuietBetweenTurns
\* Whatever was tried before this attempt has been given up.
<1>11. ASSUME NEW m \in DOMAIN att[c]
       PROVE  (att[c][m].todo = <<>> \/ att[c][m].shaky) /\ (att[c][m].sent => att[c][m].shaky)
  <2>1. ~Current(c, m) /\ call[c] # "answered"
    BY DEF Current
  <2> QED
    BY <2>1 DEF CallInv, Attempts
<1>12. Attempts'
  <2> SUFFICES ASSUME NEW d \in Calls, NEW m \in DOMAIN att'[d]
               PROVE  IF Current(d, m)' THEN att'[d][m].todo # <<>>
                      ELSE /\ att'[d][m].todo = <<>> \/ att'[d][m].shaky
                           /\ att'[d][m].sent /\ ~att'[d][m].shaky =>
                                /\ m = Len(att'[d]) /\ call'[d] = "answered"
                                /\ Memoises(req[d])' => MemoKey(req[d])' \in memo'
    BY DEF Attempts
  <2>1. CASE d # c
    BY <1>7, <1>8, <2>1, UntouchedAttempts
  <2>2. CASE d = c /\ m # n
    <3>1. m \in DOMAIN att[c] /\ att'[c][m] = att[c][m] /\ ~Current(c, m)'
      BY <1>1, <2>2 DEF Current
    <3> QED
      BY <1>11, <2>2, <3>1
  <2>3. CASE d = c /\ m = n /\ how = "running"
    BY <1>1, <1>2, <1>3, <1>6, <2>3 DEF Current
  <2>4. CASE d = c /\ m = n /\ how # "running"
    BY <1>1, <1>2, <1>3, <1>6, <2>4 DEF Current
  <2> QED
    BY <2>1, <2>2, <2>3, <2>4
<1>13. BesideEachOther'
  <2>1. ASSUME NEW d \in Calls, SameEntry(c, d)', Involved(c)', Involved(d)'
        PROVE  c \in beside' \/ d \in beside'
    <3>1. d # c /\ Untouched(d) /\ Involved(d)
      BY <1>7, <2>1, UntouchedInvolved DEF SameEntry
    <3>2. /\ Memoises(r) /\ Memoises(req[d]) /\ MemoKey(r) = MemoKey(req[d])
      BY <2>1, <3>1 DEF SameEntry, Memoises, MemoKey, Untouched
    \* It has not paid unexplained: it is under way.
    <3>3. ~(Paid(c)' /\ ~Explained(c)')
      <4>1. SUFFICES ASSUME NEW m \in DOMAIN att'[c], att'[c][m].sent PROVE att'[c][m].shaky
        BY DEF Paid, Explained
      <4>2. m # n
        BY <1>2, <1>3, <4>1
      <4>3. m \in DOMAIN att[c] /\ att'[c][m] = att[c][m]
        BY <1>1, <4>2
      <4> QED
        BY <1>11, <4>1, <4>3
    <3>4. UnderWay(c)'
      BY <2>1, <3>3 DEF Involved
    <3>5. PICK m \in DOMAIN att'[c] : att'[c][m].todo # <<>>
      BY <3>4 DEF UnderWay
    \* An attempt that was given up goes on: both were involved before.
    <3>6. CASE m # n
      <4>1. m \in DOMAIN att[c] /\ att[c][m].todo # <<>>
        BY <1>1, <3>5, <3>6
      <4>2. tries[c] # 0 /\ call[c] # "unused"
        <5>1. att[c] \in Seq(AttemptType) /\ att[c] # <<>>
          BY <4>1 DEF CallInv, CallTypes
        <5>2. tries[c] # 0
          BY <1>5, <5>1
        <5> QED
          BY <5>2 DEF CallInv, CallTypes
      <4>3. Involved(c)
        BY <4>1, <4>2 DEF Involved, UnderWay
      <4>4. SameEntry(c, d)
        BY <3>1, <3>2, <4>2 DEF SameEntry
      <4> QED
        BY <1>8, <3>1, <4>3, <4>4 DEF CallInv, BesideEachOther
    \* This attempt is the one: the entry is not there, so the other has not paid unless it is
    \* under way.
    <3>7. CASE m = n
      <4>1. ~Hit(r)
        BY <1>1, <1>2, <1>3, <3>5, <3>7
      <4>2. MemoKey(r) \notin memo
        BY <3>2, <4>1 DEF Hit
      <4>3. UnderWay(d)
        BY <3>1, <3>2, <4>2, PaidIsRemembered DEF Involved
      <4> QED
        BY <1>4, <3>1, <3>2, <4>3
    <3> QED
      BY <3>6, <3>7
  <2> QED
    BY <1>7, <1>8, <2>1, BesideKept DEF CallInv
<1>14. ImportHasKey'
  <2> SUFFICES ASSUME NEW d \in Calls, NEW m \in DOMAIN att'[d], req'[d].tool = "sui_import_wallet"
               PROVE  ImportAwaits(req'[d], att'[d][m].todo)
    BY DEF ImportHasKey
  <2>1. CASE d # c
    BY <1>7, <2>1 DEF CallInv, ImportHasKey, Untouched
  <2>2. CASE d = c /\ m # n
    <3>1. m \in DOMAIN att[c] /\ att'[c][m] = att[c][m]
      BY <1>1, <2>2
    <3>2. tries[c] # 0 /\ call[c] # "unused"
      <4>1. att[c] \in Seq(AttemptType) /\ att[c] # <<>>
        BY <3>1 DEF CallInv, CallTypes
      <4>2. tries[c] # 0
        BY <1>5, <4>1
      <4> QED
        BY <4>2 DEF CallInv, CallTypes
    <3> QED
      BY <2>2, <3>1, <3>2 DEF CallInv, ImportHasKey
  <2>3. CASE d = c /\ m = n
    <3>1. att'[c][n].todo = todo /\ r.tool = "sui_import_wallet" /\ chain \in Agents
      BY <1>2, <1>3, <2>3 DEF CallInv, CallTypes
    <3>2. CASE how = "running"
      BY <1>1, <2>3, <3>1, <3>2, ImportBegins
    <3>3. CASE how # "running"
      BY <1>1, <2>3, <3>1, <3>3 DEF ImportAwaits
    <3> QED
      BY <3>2, <3>3
  <2> QED
    BY <2>1, <2>2, <2>3
<1>15. AttemptsGoOn
  <2> SUFFICES ASSUME NEW d \in Calls, NEW m \in DOMAIN att[d]
               PROVE  m \in DOMAIN att'[d] /\ att'[d][m] = att[d][m]
    BY TodoTyped DEF AttemptsGoOn
  <2> QED
    BY <1>1
<1> QED
  BY <1>9, <1>10, <1>12, <1>13, <1>14, <1>15 DEF CallInv

\* What stands of a call once an attempt of it is over.
LEMMA OutcomeIs ==
  ASSUME NEW c \in Calls, NEW n, NEW how
  PROVE  /\ ~(call[c] = "running" /\ n = tries[c]) => Outcome(c, n, how) = call[c]
         /\ call[c] = "running" /\ n = tries[c] =>
              Outcome(c, n, how) = IF how = "failed" /\ MayRetry(n) THEN "backoff" ELSE how
<1> DEFINE waited == call[c] = "running" /\ n = tries[c]
<1>1. MayRetry(n) \in BOOLEAN
  BY DEF MayRetry
<1>2. CASE ~waited
  BY <1>2 DEF Outcome, Awaited
<1>3. CASE waited /\ how = "failed" /\ MayRetry(n)
  BY <1>3 DEF Outcome, Awaited
<1>4. CASE waited /\ ~(how = "failed" /\ MayRetry(n))
  BY <1>4 DEF Outcome, Awaited
<1> QED
  BY <1>2, <1>3, <1>4

\* The call is waited for: its last attempt is under way.
LEMMA RunningIsUnderWay ==
  ASSUME CallInv, NEW c \in Calls, call[c] = "running"
  PROVE  /\ tries[c] \in DOMAIN att[c] /\ Current(c, tries[c]) /\ Involved(c)
         /\ att[c][tries[c]].todo # <<>>
<1>1. tries[c] = Len(att[c]) /\ tries[c] # 0 /\ att[c] \in Seq(AttemptType)
  BY DEF CallInv, CallTypes
<1>2. tries[c] \in DOMAIN att[c]
  BY <1>1
<1>3. Current(c, tries[c])
  BY <1>1 DEF Current
<1>4. att[c][tries[c]].todo # <<>>
  BY <1>2, <1>3 DEF CallInv, Attempts
<1> QED
  BY <1>2, <1>3, <1>4 DEF Involved, UnderWay

LEMMA TimeOutCall ==
  ASSUME CallInv, NEW c \in Calls, TimeOut(c), UNCHANGED at
  PROVE  CallInv' /\ AttemptsGoOn
<1> DEFINE n == tries[c]
           x == [att[c][n] EXCEPT !.shaky = TRUE]
<1>1. /\ call[c] = "running" /\ UNCHANGED <<chain, req, tries, memo, hits, beside>>
      /\ call' = [call EXCEPT ![c] = Outcome(c, n, "failed")]
      /\ att' = [att EXCEPT ![c][n].shaky = TRUE]
  BY DEF TimeOut
<1>2. /\ n \in DOMAIN att[c] /\ Current(c, n) /\ Involved(c)
  BY <1>1, RunningIsUnderWay
<1>3. /\ att \in [Calls -> Seq(AttemptType)] /\ n = Len(att[c]) /\ call = [d \in Calls |-> call[d]]
      /\ n <= chain.retries + 1
  BY DEF CallInv, CallTypes
<1>4. PICK a \in Seq(AttemptType) : a = att[c]
  BY <1>3
<1>5. a[n] \in AttemptType /\ n \in DOMAIN a
  BY <1>2, <1>4
<1>6. x \in AttemptType /\ x.shaky = TRUE /\ x.todo = a[n].todo
  BY <1>4, <1>5 DEF AttemptType
<1>7. att' = [att EXCEPT ![c] = [a EXCEPT ![n] = x]]
  BY <1>1, <1>4
<1> HIDE DEF x
<1>8. /\ [a EXCEPT ![n] = x] \in Seq(AttemptType) /\ Len([a EXCEPT ![n] = x]) = Len(a)
      /\ DOMAIN [a EXCEPT ![n] = x] = DOMAIN a
      /\ \A m \in DOMAIN a : [a EXCEPT ![n] = x][m] = IF m = n THEN x ELSE a[m]
  BY <1>5, <1>6
<1>9. /\ att' \in [Calls -> Seq(AttemptType)] /\ att'[c] = [a EXCEPT ![n] = x]
      /\ \A d \in Calls \ {c} : att'[d] = att[d]
  BY <1>3, <1>7, <1>8
<1>10. /\ Len(att'[c]) = n /\ DOMAIN att'[c] = DOMAIN att[c]
       /\ \A m \in DOMAIN att[c] : att'[c][m] = IF m = n THEN x ELSE att[c][m]
  BY <1>3, <1>4, <1>8, <1>9
<1>11. /\ call'[c] = IF MayRetry(n) THEN "backoff" ELSE "failed"
       /\ \A d \in Calls \ {c} : call'[d] = call[d]
       /\ call' = [d \in Calls |-> call'[d]]
  BY <1>1, <1>3, OutcomeIs
<1> HIDE DEF n
<1>12. \A d \in Calls \ {c} : Untouched(d)
  BY <1>1, <1>9, <1>11 DEF Untouched
<1>13. CallTypes'
  <2>1. ASSUME NEW d \in Calls
        PROVE  /\ call'[d] \in {"unused", "running", "backoff", "answered", "failed"}
               /\ tries'[d] = Len(att'[d]) /\ tries'[d] <= chain'.retries + 1
               /\ call'[d] = "backoff" => tries'[d] <= chain'.retries
               /\ call'[d] = "unused" <=> tries'[d] = 0
               /\ call'[d] # "unused" => req'[d] \in Asks(chain')
    <3>1. CASE d = c
      <4>1. call'[c] = "backoff" => n <= chain.retries
        BY <1>11 DEF MayRetry
      <4>2. call'[c] \in {"backoff", "failed"}
        BY <1>11
      <4> QED
        BY <1>1, <1>3, <1>10, <3>1, <4>1, <4>2 DEF CallInv, CallTypes, n
    <3>2. CASE d # c
      BY <1>1, <1>9, <1>11, <3>2 DEF CallInv, CallTypes
    <3> QED
      BY <3>1, <3>2
  <2> QED
    BY <1>1, <1>9, <1>11, <2>1 DEF CallInv, CallTypes
<1>14. QuietBetweenTurns'
  BY <1>1, <1>11 DEF CallInv, QuietBetweenTurns
<1>15. Attempts'
  <2> SUFFICES ASSUME NEW d \in Calls, NEW m \in DOMAIN att'[d]
               PROVE  IF Current(d, m)' THEN att'[d][m].todo # <<>>
                      ELSE /\ att'[d][m].todo = <<>> \/ att'[d][m].shaky
                           /\ att'[d][m].sent /\ ~att'[d][m].shaky =>
                                /\ m = Len(att'[d]) /\ call'[d] = "answered"
                                /\ Memoises(req[d])' => MemoKey(req[d])' \in memo'
    BY DEF Attempts
  <2>1. CASE d # c
    BY <1>1, <1>12, <2>1, UntouchedAttempts
  <2>2. CASE d = c /\ m = n
    <3>1. ~Current(c, m)' /\ att'[c][m].shaky
      BY <1>2, <1>6, <1>10, <1>11, <2>2 DEF Current
    <3> QED
      BY <2>2, <3>1
  <2>3. CASE d = c /\ m # n
    <3>1. m \in DOMAIN att[c] /\ att'[c][m] = att[c][m] /\ ~Current(c, m) /\ ~Current(c, m)'
      BY <1>3, <1>10, <2>3 DEF Current
    <3>2. /\ att[c][m].todo = <<>> \/ att[c][m].shaky
          /\ ~(att[c][m].sent /\ ~att[c][m].shaky)
      BY <1>1, <3>1 DEF CallInv, Attempts
    <3> QED
      BY <2>3, <3>1, <3>2
  <2> QED
    BY <2>1, <2>2, <2>3
<1>16. BesideEachOther'
  BY <1>1, <1>2, <1>12, StillBeside DEF CallInv
<1>17. ImportHasKey'
  <2> SUFFICES ASSUME NEW d \in Calls, NEW m \in DOMAIN att'[d], req'[d].tool = "sui_import_wallet"
               PROVE  ImportAwaits(req'[d], att'[d][m].todo)
    BY DEF ImportHasKey
  <2>1. m \in DOMAIN att[d] /\ att'[d][m].todo = att[d][m].todo
    BY <1>4, <1>6, <1>9, <1>10
  <2> QED
    BY <1>1, <2>1 DEF CallInv, ImportHasKey
<1>18. AttemptsGoOn
  <2> SUFFICES ASSUME NEW d \in Calls, NEW m \in DOMAIN att[d]
               PROVE  /\ m \in DOMAIN att'[d] /\ (att[d][m].shaky => att'[d][m].shaky)
                      /\ att'[d][m].todo = att[d][m].todo
    BY TodoTyped DEF AttemptsGoOn
  <2> QED
    BY <1>4, <1>6, <1>9, <1>10
<1> QED
  BY <1>13, <1>14, <1>15, <1>16, <1>17, <1>18 DEF CallInv

\* What has settled takes its attempt one step further, or ends it.
Settled(c, n, todo, sent, shaky, how, throws) ==
  /\ todo = IF how = "next" THEN Tail(att[c][n].todo) ELSE <<>>
  /\ how = "next" => todo # <<>> /\ ~(Head(att[c][n].todo) \in GateStages /\ todo = registry[req[c].tool].awaits /\ throws)
  /\ shaky <=> att[c][n].shaky \/ (how = "failed" /\ sent)
  /\ att' = [att EXCEPT ![c][n].todo = todo, ![c][n].sent = sent, ![c][n].shaky = shaky]
  /\ call' = IF how = "next" THEN call ELSE [call EXCEPT ![c] = Outcome(c, n, how)]
  /\ memo' = IF how = "answered" THEN Remembering(req[c]) ELSE memo
  /\ UNCHANGED <<chain, req, tries, hits, beside>>

LEMMA StepIs ==
  ASSUME CallInv, NEW c \in Calls, NEW n \in DOMAIN att[c], att[c][n].todo # <<>>,
         NEW reply, NEW throws \in BOOLEAN, Step(c, n, reply, throws)
  PROVE  \E todo \in Seq(Stages), sent \in BOOLEAN, shaky \in BOOLEAN, how \in {"next", "answered", "failed"} :
           Settled(c, n, todo, sent, shaky, how, throws)
<1> DEFINE stage == Head(att[c][n].todo)
           rest == Tail(att[c][n].todo)
           refused == stage \in GateStages /\ rest = registry[req[c].tool].awaits /\ (NoKey(req[c]) \/ throws)
           how == CASE reply.how = "next" /\ refused -> "failed"
                    [] reply.how = "next" /\ ~refused /\ rest = <<>> -> "answered"
                    [] OTHER -> reply.how
           todo == IF how = "next" THEN rest ELSE <<>>
           sent == att[c][n].sent \/ reply.sent
           shaky == att[c][n].shaky \/ (how = "failed" /\ sent)
<1>1. reply \in Replies(stage, req[c])
  BY DEF Step
<1>2. reply.sent \in BOOLEAN /\ reply.how \in {"next", "answered", "failed"}
  BY <1>1, RepliesTyped
<1>3. PICK x \in AttemptType : x = att[c][n]
  BY DEF CallInv, CallTypes
<1>4. x.todo \in Seq(Stages) /\ x.todo # <<>>
  BY <1>3 DEF AttemptType
<1>5. rest \in Seq(Stages)
  BY <1>3, <1>4
<1>6. refused \in BOOLEAN
  OBVIOUS
<1>7. /\ att' = [att EXCEPT ![c][n].todo = todo, ![c][n].sent = (@ \/ reply.sent),
                            ![c][n].shaky = (@ \/ (how = "failed" /\ sent))]
      /\ call' = IF how = "next" THEN call ELSE [call EXCEPT ![c] = Outcome(c, n, how)]
      /\ memo' = IF how = "answered" THEN Remembering(req[c]) ELSE memo
      /\ UNCHANGED <<chain, req, tries, hits, beside>>
  BY DEF Step
<1>8. how \in {"next", "answered", "failed"} /\ (how = "next" => rest # <<>> /\ ~refused)
  <2> HIDE DEF refused, rest, stage
  <2>1. CASE reply.how = "next" /\ refused
    BY <1>2, <1>6, <2>1
  <2>2. CASE reply.how = "next" /\ ~refused /\ rest = <<>>
    BY <1>2, <1>6, <2>2
  <2>3. CASE reply.how = "next" /\ ~refused /\ rest # <<>>
    BY <1>2, <1>6, <2>3
  <2>4. CASE reply.how # "next"
    BY <1>2, <1>6, <2>4
  <2> QED
    BY <1>2, <1>6, <2>1, <2>2, <2>3, <2>4
<1> HIDE DEF how
<1>9. todo \in Seq(Stages) /\ (how = "next" => todo # <<>>)
  BY <1>5, <1>8
<1>10. att' = [att EXCEPT ![c][n].todo = todo, ![c][n].sent = sent, ![c][n].shaky = shaky]
  BY <1>7
<1>11. sent \in BOOLEAN /\ shaky \in BOOLEAN
  OBVIOUS
<1>12. Settled(c, n, todo, sent, shaky, how, throws)
  BY <1>7, <1>8, <1>9, <1>10 DEF Settled
<1> QED
  BY <1>8, <1>9, <1>11, <1>12

LEMMA StepCall ==
  ASSUME CallInv, NEW c \in Calls, NEW n \in DOMAIN att[c], att[c][n].todo # <<>>,
         NEW reply, NEW throws \in BOOLEAN, Step(c, n, reply, throws), MindsKey(req[c], throws), UNCHANGED at
  PROVE  /\ CallInv' /\ AttemptsGoOn
         /\ Len(att'[c][n].todo) < Len(att[c][n].todo)
<1>1. PICK todo \in Seq(Stages), sent \in BOOLEAN, shaky \in BOOLEAN, how \in {"next", "answered", "failed"} :
        Settled(c, n, todo, sent, shaky, how, throws)
  BY StepIs
<1>2. /\ todo = IF how = "next" THEN Tail(att[c][n].todo) ELSE <<>>
      /\ how = "next" => todo # <<>> /\ ~(Head(att[c][n].todo) \in GateStages /\ todo = registry[req[c].tool].awaits /\ throws)
      /\ shaky <=> att[c][n].shaky \/ (how = "failed" /\ sent)
      /\ att' = [att EXCEPT ![c][n].todo = todo, ![c][n].sent = sent, ![c][n].shaky = shaky]
      /\ call' = IF how = "next" THEN call ELSE [call EXCEPT ![c] = Outcome(c, n, how)]
      /\ memo' = IF how = "answered" THEN Remembering(req[c]) ELSE memo
      /\ UNCHANGED <<chain, req, tries, hits, beside>>
  BY <1>1 DEF Settled
<1> DEFINE y == [[[att[c][n] EXCEPT !.todo = todo] EXCEPT !.sent = sent] EXCEPT !.shaky = shaky]
<1>3. /\ att \in [Calls -> Seq(AttemptType)] /\ tries[c] = Len(att[c]) /\ call = [d \in Calls |-> call[d]]
      /\ tries[c] <= chain.retries + 1 /\ call[c] \in {"unused", "running", "backoff", "answered", "failed"}
      /\ (call[c] = "unused" <=> tries[c] = 0)
  BY DEF CallInv, CallTypes
<1>4. PICK a \in Seq(AttemptType) : a = att[c]
  BY <1>3
<1>5. a[n] \in AttemptType /\ n \in DOMAIN a /\ Len(a) # 0
  BY <1>4
<1>6. PICK old \in AttemptType : old = a[n]
  BY <1>5
<1>7. y \in AttemptType /\ y.todo = todo /\ y.sent = sent /\ y.shaky = shaky
  <2>1. y = [[[old EXCEPT !.todo = todo] EXCEPT !.sent = sent] EXCEPT !.shaky = shaky]
    BY <1>4, <1>6
  <2>2. y = [todo |-> todo, sent |-> sent, shaky |-> shaky]
    <3>1. [old EXCEPT !.todo = todo] = [todo |-> todo, sent |-> old.sent, shaky |-> old.shaky]
      BY DEF AttemptType
    <3>2. y = [[[todo |-> todo, sent |-> old.sent, shaky |-> old.shaky] EXCEPT !.sent = sent] EXCEPT !.shaky = shaky]
      BY <2>1, <3>1
    <3> HIDE DEF y
    <3> QED
      BY <3>2
  <2> HIDE DEF y
  <2> QED
    BY <2>2 DEF AttemptType
<1>8. att' = [att EXCEPT ![c] = [a EXCEPT ![n] = y]]
  BY <1>2, <1>3, <1>4, <1>5
<1> HIDE DEF y
<1>9. /\ [a EXCEPT ![n] = y] \in Seq(AttemptType) /\ Len([a EXCEPT ![n] = y]) = Len(a)
      /\ DOMAIN [a EXCEPT ![n] = y] = DOMAIN a
      /\ \A m \in DOMAIN a : [a EXCEPT ![n] = y][m] = IF m = n THEN y ELSE a[m]
  BY <1>5, <1>7
<1>10. /\ att' \in [Calls -> Seq(AttemptType)] /\ att'[c] = [a EXCEPT ![n] = y]
       /\ \A d \in Calls \ {c} : att'[d] = att[d]
  BY <1>3, <1>8, <1>9
<1>11. /\ Len(att'[c]) = tries[c] /\ DOMAIN att'[c] = DOMAIN att[c] /\ att'[c][n] = y
       /\ \A m \in DOMAIN att[c] : m # n => att'[c][m] = att[c][m]
  BY <1>3, <1>4, <1>5, <1>9, <1>10
<1>12. call[c] # "unused" /\ Involved(c)
  <2>1. call[c] # "unused"
    BY <1>3, <1>4, <1>5
  <2> QED
    BY <2>1 DEF Involved, UnderWay
\* The loop hears of it only if it waits for this attempt.
<1>13. /\ ~(call[c] = "running" /\ n = tries[c]) \/ how = "next" => call'[c] = call[c]
       /\ call[c] = "running" /\ n = tries[c] /\ how # "next" =>
            call'[c] = IF how = "failed" /\ MayRetry(n) THEN "backoff" ELSE how
       /\ \A d \in Calls \ {c} : call'[d] = call[d]
       /\ call' = [d \in Calls |-> call'[d]]
  <2>1. CASE how = "next"
    BY <1>2, <1>3, <2>1
  <2>2. CASE how # "next"
    <3>1. call' = [call EXCEPT ![c] = Outcome(c, n, how)]
      BY <1>2, <2>2
    <3>2. call'[c] = Outcome(c, n, how)
      BY <1>3, <3>1
    <3> QED
      BY <1>3, <2>2, <3>1, <3>2, OutcomeIs
  <2> QED
    BY <2>1, <2>2
<1>14. \A d \in Calls \ {c} : Untouched(d)
  BY <1>2, <1>10, <1>13 DEF Untouched
<1>15. memo \subseteq memo'
  BY <1>2 DEF Remembering
<1>16. CallTypes'
  <2>1. ASSUME NEW d \in Calls
        PROVE  /\ call'[d] \in {"unused", "running", "backoff", "answered", "failed"}
               /\ tries'[d] = Len(att'[d]) /\ tries'[d] <= chain'.retries + 1
               /\ call'[d] = "backoff" => tries'[d] <= chain'.retries
               /\ call'[d] = "unused" <=> tries'[d] = 0
               /\ call'[d] # "unused" => req'[d] \in Asks(chain')
    <3>1. CASE d = c /\ call'[c] = call[c]
      BY <1>2, <1>11, <3>1 DEF CallInv, CallTypes
    <3>2. CASE d = c /\ call'[c] # call[c]
      <4>1. call[c] = "running" /\ n = tries[c] /\ how # "next"
            /\ call'[c] = IF how = "failed" /\ MayRetry(n) THEN "backoff" ELSE how
        BY <1>13, <3>2
      <4>2. call'[c] \in {"backoff", "answered", "failed"}
        BY <4>1
      <4>3. call'[c] = "backoff" => tries[c] <= chain.retries
        BY <4>1 DEF MayRetry
      <4> QED
        BY <1>2, <1>3, <1>11, <1>12, <3>2, <4>2, <4>3 DEF CallInv, CallTypes
    <3>3. CASE d # c
      BY <1>2, <1>10, <1>13, <3>3 DEF CallInv, CallTypes
    <3> QED
      BY <3>1, <3>2, <3>3
  <2> QED
    BY <1>2, <1>10, <1>13, <2>1 DEF CallInv, CallTypes
<1>17. QuietBetweenTurns'
  <2>1. \A d \in Calls : call'[d] \in {"running", "backoff"} => call[d] \in {"running", "backoff"}
    BY <1>13
  <2> QED
    BY <2>1 DEF CallInv, QuietBetweenTurns
<1>18. Attempts'
  <2> SUFFICES ASSUME NEW d \in Calls, NEW m \in DOMAIN att'[d]
               PROVE  IF Current(d, m)' THEN att'[d][m].todo # <<>>
                      ELSE /\ att'[d][m].todo = <<>> \/ att'[d][m].shaky
                           /\ att'[d][m].sent /\ ~att'[d][m].shaky =>
                                /\ m = Len(att'[d]) /\ call'[d] = "answered"
                                /\ Memoises(req[d])' => MemoKey(req[d])' \in memo'
    BY DEF Attempts
  <2>1. CASE d # c
    BY <1>2, <1>14, <1>15, <2>1, UntouchedAttempts
  <2>2. (Memoises(req[c])' <=> Memoises(req[c])) /\ MemoKey(req[c])' = MemoKey(req[c])
    BY <1>2 DEF Memoises, MemoKey
  <2>3. CASE d = c /\ m = n /\ Current(c, n)
    <3>1. call[c] = "running" /\ n = tries[c]
      BY <1>3, <2>3 DEF Current
    <3>2. CASE how = "next"
      <4>1. Current(c, n)' /\ att'[c][n].todo # <<>>
        BY <1>2, <1>7, <1>11, <1>13, <3>1, <3>2 DEF Current
      <4> QED
        BY <2>3, <4>1
    <3>3. CASE how = "answered"
      <4>1. call'[c] = "answered" /\ memo' = Remembering(req[c])
        BY <1>2, <1>13, <3>1, <3>3
      <4>2. Memoises(req[c]) => MemoKey(req[c]) \in memo'
        BY <4>1 DEF Remembering
      <4>3. ~Current(c, n)' /\ att'[c][n].todo = <<>> /\ n = Len(att'[c])
        BY <1>2, <1>7, <1>11, <3>1, <3>3, <4>1 DEF Current
      <4> QED
        BY <2>2, <2>3, <4>1, <4>2, <4>3
    <3>4. CASE how = "failed"
      <4>1. call'[c] \in {"backoff", "failed"}
        BY <1>13, <3>1, <3>4
      <4>2. ~Current(c, n)' /\ att'[c][n].todo = <<>> /\ ~(att'[c][n].sent /\ ~att'[c][n].shaky)
        BY <1>2, <1>7, <1>11, <3>4, <4>1 DEF Current
      <4> QED
        BY <2>3, <4>2
    <3> QED
      BY <3>2, <3>3, <3>4
  \* Nobody waits for it: it has timed out, and stays so.
  <2>4. CASE d = c /\ m = n /\ ~Current(c, n)
    <3>1. att[c][n].shaky
      BY <2>4 DEF CallInv, Attempts
    <3>2. att'[c][n].shaky
      BY <1>2, <1>7, <1>11, <3>1
    <3>3. call'[c] = call[c]
      BY <1>3, <1>13, <2>4 DEF Current
    <3>4. ~Current(c, n)'
      BY <1>3, <1>11, <2>4, <3>3 DEF Current
    <3> QED
      BY <2>4, <3>2, <3>4
  <2>5. CASE d = c /\ m # n
    <3>1. m \in DOMAIN att[c] /\ att'[c][m] = att[c][m]
      BY <1>11, <2>5
    <3>2. CASE call'[c] = call[c]
      <4>1. Current(c, m)' <=> Current(c, m)
        BY <1>3, <1>11, <3>2 DEF Current
      <4>2. IF Current(c, m) THEN att[c][m].todo # <<>>
            ELSE /\ att[c][m].todo = <<>> \/ att[c][m].shaky
                 /\ att[c][m].sent /\ ~att[c][m].shaky =>
                      /\ m = Len(att[c]) /\ call[c] = "answered"
                      /\ Memoises(req[c]) => MemoKey(req[c]) \in memo
        BY <3>1 DEF CallInv, Attempts
      <4> QED
        BY <1>3, <1>11, <1>15, <2>2, <2>5, <3>1, <3>2, <4>1, <4>2
    <3>3. CASE call'[c] # call[c]
      <4>1. call[c] = "running" /\ n = tries[c] /\ how # "next"
        BY <1>13, <3>3
      <4>2. ~Current(c, m) /\ ~Current(c, m)'
        BY <1>3, <1>11, <2>5, <4>1 DEF Current
      <4>3. /\ att[c][m].todo = <<>> \/ att[c][m].shaky
            /\ ~(att[c][m].sent /\ ~att[c][m].shaky)
        BY <3>1, <4>1, <4>2 DEF CallInv, Attempts
      <4> QED
        BY <2>5, <3>1, <4>2, <4>3
    <3> QED
      BY <3>2, <3>3
  <2> QED
    BY <2>1, <2>3, <2>4, <2>5
<1>19. BesideEachOther'
  BY <1>2, <1>12, <1>14, StillBeside DEF CallInv
<1>20. ImportHasKey'
  <2> SUFFICES ASSUME NEW d \in Calls, NEW m \in DOMAIN att'[d], req'[d].tool = "sui_import_wallet"
               PROVE  ImportAwaits(req'[d], att'[d][m].todo)
    BY DEF ImportHasKey
  <2>1. CASE d # c
    BY <1>14, <2>1 DEF CallInv, ImportHasKey, Untouched
  <2>2. CASE d = c /\ m # n
    <3>1. m \in DOMAIN att[c] /\ att'[c][m] = att[c][m]
      BY <1>11, <2>2
    <3> QED
      BY <1>2, <2>2, <3>1 DEF CallInv, ImportHasKey
  <2>3. CASE d = c /\ m = n
    <3>1. /\ req' = req /\ req[c].tool = "sui_import_wallet" /\ att'[c][n].todo = todo
          /\ ImportAwaits(req[c], att[c][n].todo) /\ req[c].arg \in Wallets \cup {"no key"}
      BY <1>2, <1>7, <1>11, <1>12, <2>3, AsksAssumption DEF CallInv, CallTypes, ImportHasKey
    <3>2. CASE how # "next"
      BY <1>2, <2>3, <3>1, <3>2 DEF ImportAwaits
    <3>3. CASE how = "next"
      <4>1. PICK was : was = att[c][n].todo
        OBVIOUS
      <4>2. /\ was # <<>> /\ ImportAwaits(req[c], was) /\ todo = Tail(was) /\ todo # <<>>
            /\ ~(Head(was) \in GateStages /\ todo = registry[req[c].tool].awaits /\ throws)
        BY <1>2, <3>1, <3>3, <4>1
      <4>3. was # <<"import">>
        BY <4>2
      <4>4. /\ was \in {<<"approve", "import">>, <<"simulate", "import">>, <<"approve", "simulate", "import">>}
        BY <4>2, <4>3 DEF ImportAwaits
      <4>5. Head(was) \in GateStages /\ todo \in {<<"import">>, <<"simulate", "import">>}
        <5>1. CASE was = <<"approve", "import">>
          BY <4>2, <5>1, ImportStages DEF GateStages
        <5>2. CASE was = <<"simulate", "import">>
          BY <4>2, <5>2, ImportStages DEF GateStages
        <5>3. CASE was = <<"approve", "simulate", "import">>
          BY <4>2, <5>3, ImportStages DEF GateStages
        <5> QED
          BY <4>4, <5>1, <5>2, <5>3
      <4>6. todo = <<"import">> => req[c].arg \in Wallets
        BY <3>1, <4>2, <4>5, ImportTool DEF MindsKey
      <4> QED
        BY <2>3, <3>1, <4>5, <4>6 DEF ImportAwaits
    <3> QED
      BY <3>2, <3>3
  <2> QED
    BY <2>1, <2>2, <2>3
<1>21. Len(att'[c][n].todo) < Len(att[c][n].todo)
  <2>1. old.todo \in Seq(Stages) /\ old.todo # <<>>
    BY <1>4, <1>6 DEF AttemptType
  <2>2. Len(todo) < Len(old.todo)
    BY <1>2, <1>4, <1>6, <2>1
  <2> QED
    BY <1>4, <1>6, <1>7, <1>11, <2>2
<1>22. AttemptsGoOn
  <2> SUFFICES ASSUME NEW d \in Calls, NEW m \in DOMAIN att[d]
               PROVE  /\ m \in DOMAIN att'[d] /\ (att[d][m].shaky => att'[d][m].shaky)
                      /\ Len(att'[d][m].todo) <= Len(att[d][m].todo)
    BY DEF AttemptsGoOn
  <2>1. CASE d = c /\ m = n
    <3>1. att[c][n].shaky => att'[c][n].shaky
      BY <1>2, <1>7, <1>11
    <3>2. Len(att'[c][n].todo) <= Len(att[c][n].todo)
      <4>1. Len(todo) \in Nat /\ att'[c][n].todo = todo
        BY <1>7, <1>11
      <4> QED
        BY <1>21, <4>1, TodoTyped
    <3> QED
      BY <1>11, <2>1, <3>1, <3>2
  <2>2. CASE ~(d = c /\ m = n)
    <3>1. m \in DOMAIN att'[d] /\ att'[d][m] = att[d][m]
      BY <1>10, <1>11, <2>2
    <3> QED
      BY <3>1, TodoTyped
  <2> QED
    BY <2>1, <2>2
<1> QED
  BY <1>16, <1>17, <1>18, <1>19, <1>20, <1>21, <1>22 DEF CallInv

LEMMA CtrlCCall ==
  ASSUME CallInv, CtrlC
  PROVE  CallInv' /\ AttemptsGoOn
<1>1. /\ at \in {"prompt", "connect", "models"} /\ at' = "gone"
      /\ UNCHANGED <<chain, req, call, tries, memo, hits, beside>>
      /\ att' = [c \in Calls |-> [n \in DOMAIN att[c] |-> [att[c][n] EXCEPT !.todo = <<>>]]]
  BY DEF CtrlC
<1>2. att \in [Calls -> Seq(AttemptType)]
  BY DEF CallInv, CallTypes
<1>3. ASSUME NEW c \in Calls
      PROVE  /\ DOMAIN att'[c] = DOMAIN att[c] /\ Len(att'[c]) = Len(att[c]) /\ att'[c] \in Seq(AttemptType)
             /\ \A n \in DOMAIN att[c] : /\ att'[c][n].todo = <<>> /\ att'[c][n].sent = att[c][n].sent
                                         /\ att'[c][n].shaky = att[c][n].shaky
  <2>1. PICK a \in Seq(AttemptType) : a = att[c]
    BY <1>2
  <2> DEFINE over(n) == [a[n] EXCEPT !.todo = <<>>]
  <2>2. att'[c] = [n \in DOMAIN a |-> over(n)]
    BY <1>1, <2>1
  <2>3. ASSUME NEW n \in DOMAIN a
        PROVE  /\ over(n) \in AttemptType /\ over(n).todo = <<>>
               /\ over(n).sent = a[n].sent /\ over(n).shaky = a[n].shaky
    <3>1. PICK x \in AttemptType : x = a[n]
      OBVIOUS
    <3>2. <<>> \in Seq(Stages)
      OBVIOUS
    <3>3. /\ [x EXCEPT !.todo = <<>>] \in AttemptType /\ [x EXCEPT !.todo = <<>>].todo = <<>>
          /\ [x EXCEPT !.todo = <<>>].sent = x.sent /\ [x EXCEPT !.todo = <<>>].shaky = x.shaky
      BY <3>2 DEF AttemptType
    <3> QED
      BY <3>1, <3>3
  <2> HIDE DEF over
  <2>4. DOMAIN a = 1..Len(a) /\ Len(a) \in Nat
    OBVIOUS
  <2>5. att'[c] \in [1..Len(a) -> AttemptType] /\ DOMAIN att'[c] = 1..Len(a)
    BY <2>2, <2>3, <2>4
  <2>6. att'[c] \in Seq(AttemptType) /\ Len(att'[c]) = Len(a)
    BY <2>4, <2>5, SeqDef, LenProperties
  <2> QED
    BY <2>1, <2>2, <2>3, <2>4, <2>5, <2>6
<1>4. att' \in [Calls -> Seq(AttemptType)]
  BY <1>1, <1>3
<1>5. \A c \in Calls : call[c] \notin {"running", "backoff"}
  BY <1>1 DEF CallInv, QuietBetweenTurns
<1>6. CallTypes' /\ QuietBetweenTurns'
  BY <1>1, <1>3, <1>4, <1>5 DEF CallInv, CallTypes, QuietBetweenTurns
<1>7. Attempts'
  <2> SUFFICES ASSUME NEW c \in Calls, NEW n \in DOMAIN att'[c]
               PROVE  /\ ~Current(c, n)' /\ att'[c][n].todo = <<>>
                      /\ att'[c][n].sent /\ ~att'[c][n].shaky =>
                           /\ n = Len(att'[c]) /\ call'[c] = "answered"
                           /\ Memoises(req[c])' => MemoKey(req[c])' \in memo'
    BY DEF Attempts
  <2>1. ~Current(c, n) /\ ~Current(c, n)'
    BY <1>1, <1>5 DEF Current
  <2>2. n \in DOMAIN att[c] /\ (Memoises(req[c])' <=> Memoises(req[c])) /\ MemoKey(req[c])' = MemoKey(req[c])
    BY <1>1, <1>3 DEF Memoises, MemoKey
  <2> QED
    BY <1>1, <1>3, <2>1, <2>2 DEF CallInv, Attempts
<1>8. BesideEachOther'
  <2>1. ASSUME NEW c \in Calls PROVE Involved(c)' => Involved(c)
    BY <1>1, <1>3 DEF Involved, UnderWay, Paid, Explained
  <2>2. ASSUME NEW c \in Calls, NEW d \in Calls PROVE SameEntry(c, d)' <=> SameEntry(c, d)
    BY <1>1, EntriesStay
  <2> QED
    BY <1>1, <2>1, <2>2 DEF CallInv, BesideEachOther
<1>9. ImportHasKey'
  BY <1>3 DEF ImportHasKey, ImportAwaits
<1>10. AttemptsGoOn
  <2> SUFFICES ASSUME NEW c \in Calls, NEW n \in DOMAIN att[c]
               PROVE  /\ n \in DOMAIN att'[c] /\ (att[c][n].shaky => att'[c][n].shaky)
                      /\ Len(att'[c][n].todo) <= Len(att[c][n].todo)
    BY DEF AttemptsGoOn
  <2>1. Len(att[c][n].todo) \in Nat /\ Len(<<>>) = 0
    BY TodoTyped
  <2> QED
    BY <1>3, <2>1
<1> QED
  BY <1>6, <1>7, <1>8, <1>9, <1>10 DEF CallInv

LEMMA MinuteOverCall ==
  ASSUME CallInv, MinuteOver, UNCHANGED at
  PROVE  CallInv'
<1>1. UNCHANGED <<chain, req, call, tries, att, memo, beside>> /\ hits > 0 /\ hits' = hits - 1
  BY DEF MinuteOver
<1>2. CallTypes'
  <2>1. IF chain'.perMinute = Unlimited THEN hits' = 0 ELSE hits' \in 0..chain'.perMinute
    <3>1. CASE chain.perMinute = Unlimited
      BY <1>1, <3>1 DEF CallInv, CallTypes
    <3>2. CASE chain.perMinute # Unlimited
      <4>1. hits \in 0..chain.perMinute /\ chain.perMinute \in Nat
        BY <3>2, AsksAssumption DEF CallInv, CallTypes, Agent
      <4> QED
        BY <1>1, <3>2, <4>1
    <3> QED
      BY <3>1, <3>2
  <2> QED
    BY <1>1, <2>1 DEF CallInv, CallTypes
<1>3. QuietBetweenTurns' /\ Attempts' /\ ImportHasKey'
  BY <1>1 DEF CallInv, QuietBetweenTurns, Attempts, ImportHasKey, Current, Memoises, MemoKey
<1>4. BesideEachOther'
  BY <1>1 DEF CallInv, BesideEachOther, SameEntry, Involved, UnderWay, Paid, Explained, Memoises, MemoKey
<1> QED
  BY <1>2, <1>3, <1>4 DEF CallInv

-----------------------------------------------------------------------------
(* The entries of attempts that have timed out, under each step. *)

LEMMA StaysGivenUp ==
  ASSUME CallInv, CallInv', AttemptsGoOn, NEW e \in Entry, GivenUp(e)
  PROVE  GivenUp(e)'
<1>1. e[1] \in Calls /\ e[2] \in DOMAIN att[e[1]] /\ e[3] \in Nat
  BY DEF GivenUp, Entry
<1>2. /\ e[2] \in DOMAIN att'[e[1]] /\ att'[e[1]][e[2]].shaky
      /\ Len(att'[e[1]][e[2]].todo) <= Len(att[e[1]][e[2]].todo)
  BY <1>1 DEF AttemptsGoOn, GivenUp
<1>3. Len(att[e[1]][e[2]].todo) \in Nat /\ Len(att[e[1]][e[2]].todo) < e[3]
  BY <1>1, TodoTyped DEF GivenUp
<1>4. Len(att'[e[1]][e[2]].todo) \in Nat
  <2>1. PICK x \in AttemptType : x = att'[e[1]][e[2]]
    BY <1>1, <1>2 DEF CallInv, CallTypes
  <2> QED
    BY <2>1 DEF AttemptType
<1>5. Len(att'[e[1]][e[2]].todo) < e[3]
  <2>1. \A i, j, k \in Nat : i <= j /\ j < k => i < k
    OBVIOUS
  <2> QED
    BY <1>1, <1>2, <1>3, <1>4, <2>1
<1> QED
  BY <1>2, <1>5 DEF GivenUp

\* No entry is written, and none goes up.
LEMMA LateFrame ==
  ASSUME TurnInv, CallInv, CallInv', LateInOnePlace, AttemptsGoOn \/ UNCHANGED att,
         UNCHANGED late, SameUploads \/ UNCHANGED uploads
  PROVE  LateInOnePlace'
<1>1. late \subseteq Entry /\ \A u \in DOMAIN uploads : uploads[u].late \subseteq Entry
  <2>1. late \subseteq Entry /\ \A u \in DOMAIN uploads : uploads[u] \in Upload
    BY DEF TurnInv, TurnTypes
  <2> QED
    BY <2>1 DEF Upload
<1>2. \A e \in Entry : GivenUp(e) => GivenUp(e)'
  <2>1. CASE AttemptsGoOn
    BY <2>1, StaysGivenUp
  <2>2. CASE UNCHANGED att
    BY <2>2 DEF GivenUp
  <2> QED
    BY <2>1, <2>2
<1>3. /\ DOMAIN uploads' = DOMAIN uploads
      /\ \A u \in DOMAIN uploads : uploads'[u].late = uploads[u].late
  BY DEF SameUploads
<1>4. \A e \in late' : GivenUp(e)'
  BY <1>1, <1>2 DEF LateInOnePlace
<1>5. \A u \in DOMAIN uploads' : \A e \in uploads'[u].late :
        /\ GivenUp(e)' /\ e \notin late'
        /\ \A v \in DOMAIN uploads' : e \in uploads'[v].late => v = u
  BY <1>1, <1>2, <1>3 DEF LateInOnePlace
<1> QED
  BY <1>4, <1>5 DEF LateInOnePlace

\* What the buffer holds goes up together, and once.
LEMMA AnswerLate ==
  ASSUME TurnInv, LateInOnePlace, Answer
  PROVE  LateInOnePlace'
<1> DEFINE last == Len(uploads) + 1
<1>1. late' = {} /\ att' = att
  BY DEF Answer, chainVars
<1>2. \A u \in DOMAIN uploads : u \in DOMAIN uploads' /\ uploads'[u] = uploads[u]
  BY AnswerFlushes
<1>3. \A u \in DOMAIN uploads' : u \in DOMAIN uploads \/ (u = last /\ uploads'[u].late = late)
  BY AnswerFlushes DEF AnswersLoad
<1> HIDE DEF last
<1>4. ASSUME NEW u \in DOMAIN uploads', NEW e \in uploads'[u].late
      PROVE  GivenUp(e) /\ \A v \in DOMAIN uploads' : e \in uploads'[v].late => v = u
  <2>1. CASE u \in DOMAIN uploads
    <3>1. e \in uploads[u].late /\ e \notin late
      BY <1>2, <2>1 DEF LateInOnePlace
    <3>2. ASSUME NEW v \in DOMAIN uploads', e \in uploads'[v].late PROVE v = u
      <4>1. v \in DOMAIN uploads /\ e \in uploads[v].late
        BY <1>2, <1>3, <3>1, <3>2
      <4> QED
        BY <2>1, <3>1, <4>1 DEF LateInOnePlace
    <3> QED
      BY <2>1, <3>1, <3>2 DEF LateInOnePlace
  <2>2. CASE u \notin DOMAIN uploads
    <3>1. u = last /\ e \in late
      BY <1>3, <2>2
    <3>2. \A v \in DOMAIN uploads : e \notin uploads[v].late
      BY <3>1 DEF LateInOnePlace
    <3>3. \A v \in DOMAIN uploads' : e \in uploads'[v].late => v = u
      BY <1>2, <1>3, <3>1, <3>2
    <3> QED
      BY <3>1, <3>3 DEF LateInOnePlace
  <2> QED
    BY <2>1, <2>2
<1>5. \A e : GivenUp(e)' <=> GivenUp(e)
  BY <1>1 DEF GivenUp
<1> QED
  BY <1>1, <1>4, <1>5 DEF LateInOnePlace

\* An attempt that nobody waits for logs what it has come to: this entry is new, since the
\* attempt has less to do afterwards.
LEMMA SettleLate ==
  ASSUME TurnInv, CallInv, CallInv', LateInOnePlace, AttemptsGoOn, UNCHANGED uploads,
         NEW c \in Calls, NEW n \in DOMAIN att[c], att[c][n].todo # <<>>, ~Awaited(c, n),
         Len(att'[c][n].todo) < Len(att[c][n].todo),
         late' = late \cup {<<c, n, Len(att[c][n].todo)>>}
  PROVE  LateInOnePlace' /\ late' \subseteq Entry
<1>1. PICK new \in Entry : new = <<c, n, Len(att[c][n].todo)>>
  <2>1. n \in Nat
    BY DEF CallInv, CallTypes
  <2> QED
    BY <2>1, TodoTyped DEF Entry
<1>2. late \subseteq Entry /\ \A u \in DOMAIN uploads : uploads[u].late \subseteq Entry
  <2>1. late \subseteq Entry /\ \A u \in DOMAIN uploads : uploads[u] \in Upload
    BY DEF TurnInv, TurnTypes
  <2> QED
    BY <2>1 DEF Upload
<1>3. \A e \in Entry : GivenUp(e) => GivenUp(e)'
  BY StaysGivenUp
<1>4. GivenUp(new)'
  <2>1. tries[c] = Len(att[c])
    BY DEF CallInv, CallTypes
  <2>2. ~Current(c, n)
    BY <2>1 DEF Current, Awaited
  <2>3. att[c][n].shaky
    BY <2>2 DEF CallInv, Attempts
  <2>4. n \in DOMAIN att'[c] /\ att'[c][n].shaky
    BY <2>3 DEF AttemptsGoOn
  <2> QED
    BY <1>1, <2>4 DEF GivenUp
<1>5. ~GivenUp(new)
  <2>1. Len(att[c][n].todo) \in Nat
    BY TodoTyped
  <2> QED
    BY <1>1, <2>1 DEF GivenUp
<1>6. \A u \in DOMAIN uploads : new \notin uploads[u].late
  BY <1>5 DEF LateInOnePlace
<1>7. late' = late \cup {new}
  BY <1>1
<1>8. \A e \in late' : GivenUp(e)'
  BY <1>2, <1>3, <1>4, <1>7 DEF LateInOnePlace
<1>9. \A u \in DOMAIN uploads' : \A e \in uploads'[u].late :
        /\ GivenUp(e)' /\ e \notin late'
        /\ \A v \in DOMAIN uploads' : e \in uploads'[v].late => v = u
  BY <1>2, <1>3, <1>6, <1>7 DEF LateInOnePlace
<1> QED
  BY <1>2, <1>7, <1>8, <1>9 DEF LateInOnePlace

-----------------------------------------------------------------------------
(* The invariant. *)

LEMMA InitInv == CliInit => IInv
<1> SUFFICES ASSUME CliInit PROVE IInv
  OBVIOUS
<1>1. /\ at \in {"prompt", "library"} /\ chain \in Agents /\ ConfigInit /\ ChainInit
      /\ session \in 1..MaxSessions /\ turns = <<>> /\ esc = FALSE /\ copy = EmptyConfig
      /\ signer = SignerOf(file, chain.suiNetwork) /\ model = activeProvider(file)
      /\ buffer = {} /\ late = {} /\ uploads = <<>> /\ strayed = FALSE
  BY DEF CliInit
<1>2. ConfigInv
  <2>1. PICK n \in 0..MaxTerminal : term = [does |-> "nothing", copy |-> EmptyConfig, runs |-> n]
    BY <1>1 DEF ConfigInit
  <2>2. Consistent(file) /\ file \in ThinyConfig /\ kept = ToSet(suiWalletsOf(file)) /\ known = kept
    BY <1>1 DEF ConfigInit, Consistent
  <2>3. /\ kept \subseteq Wallets /\ model \in Provider \cup {None}
        /\ activeSuiWallet(file) \in Wallets \cup {None}
    BY <1>1, <2>2, ActiveTyped, ProviderTyped
  <2>4. /\ term = [does |-> term.does, copy |-> term.copy, runs |-> term.runs] /\ term.copy = EmptyConfig
    BY <2>1
  <2>5. chain.suiNetwork \in Networks
    BY <1>1, AsksAssumption DEF Agent, Networks
  <2>6. signer \in Signer \cup {None}
    BY <1>1, <2>3, <2>5, NoSignerIsNone DEF SignerOf, Signer
  <2>7. ConfigTypes
    BY <1>1, <2>2, <2>3, <2>4, <2>5, <2>6, EmptyIsConsistent DEF ConfigTypes
  <2> QED
    BY <1>1, <2>2, <2>7 DEF ConfigInv, KeysKept, Signing, Signed
<1>3. TurnInv
  <2>1. /\ <<>> \in Seq(Turn) /\ <<>> \in Seq(Upload) /\ Len(<<>>) = 0 /\ DOMAIN <<>> = {} /\ 0 <= MaxTurns
    BY BoundsAssumption
  <2>2. ~InTurn
    BY <1>1 DEF InTurn
  <2>3. TurnTypes
    BY <1>1, <2>1, <2>2 DEF TurnTypes
  <2>4. LoggedInOnePlace
    BY <1>1, <2>1 DEF LoggedInOnePlace
  <2> QED
    BY <2>3, <2>4 DEF TurnInv
<1>4. CallInv
  <2>1. /\ req = [c \in Calls |-> [tool |-> "none", arg |-> "none", opt |-> "none", key |-> "absent"]]
        /\ call = [c \in Calls |-> "unused"] /\ tries = [c \in Calls |-> 0] /\ att = [c \in Calls |-> <<>>]
        /\ memo = {} /\ hits = 0 /\ beside = {}
    BY <1>1 DEF ChainInit
  <2>2. \A c \in Calls : call[c] = "unused" /\ tries[c] = 0 /\ att[c] = <<>>
    BY <2>1
  <2>3. <<>> \in Seq(AttemptType) /\ Len(<<>>) = 0 /\ DOMAIN <<>> = {}
    OBVIOUS
  <2>4. chain.perMinute \in {Unlimited} \cup Nat /\ chain.retries \in Nat
    BY <1>1, AsksAssumption DEF Agent
  <2>5. att \in [Calls -> Seq(AttemptType)]
    BY <2>1, <2>3
  <2>6. \A c \in Calls : tries[c] = Len(att[c]) /\ tries[c] <= chain.retries + 1
    BY <2>2, <2>3, <2>4
  <2>7. IF chain.perMinute = Unlimited THEN hits = 0 ELSE hits \in 0..chain.perMinute
    BY <2>1, <2>4
  <2>8. CallTypes
    BY <1>1, <2>1, <2>2, <2>5, <2>6, <2>7 DEF CallTypes
  <2>9. QuietBetweenTurns /\ Attempts /\ ImportHasKey
    BY <2>2, <2>3 DEF QuietBetweenTurns, Attempts, ImportHasKey
  <2>10. BesideEachOther
    BY <2>2 DEF BesideEachOther, Involved
  <2> QED
    BY <2>8, <2>9, <2>10 DEF CallInv
<1>5. LateInOnePlace
  BY <1>1 DEF LateInOnePlace
<1> QED
  BY <1>2, <1>3, <1>4, <1>5 DEF IInv

\* A step that makes no call and lets none go on.
LEMMA NoCallMoves ==
  ASSUME IInv, UNCHANGED <<chain, req, call, tries, att, memo, hits, beside>>,
         at' \in {"acting", "library"} \/ at \notin {"acting", "library"}
           \/ \A c \in Calls : call[c] \in {"unused", "answered", "failed"}
  PROVE  CallInv'
<1>1. at' \notin {"acting", "library"} => \A c \in Calls : call[c] \notin Waiting
  BY DEF IInv, CallInv, QuietBetweenTurns, Waiting
<1> QED
  BY <1>1, CallFrame DEF IInv

\* A turn, up to the model's next answer.
LEMMA TurnSteps ==
  ASSUME IInv, Submit \/ Escape \/ Observe \/ Answer \/ TurnDies
  PROVE  IInv'
<1>1. CASE Submit
  <2>1. /\ at = "prompt" /\ at' = "thinking"
        /\ UNCHANGED <<file, kept, term, known, signer, model, copy, strayed>>
        /\ UNCHANGED <<chain, req, call, tries, att, memo, hits, beside>>
    BY <1>1 DEF Submit, auditVars, configVars, chainVars
  <2>2. ConfigInv'
    BY <2>1, ConfigFrame DEF IInv, AtMoves, Menus
  <2>3. CallInv'
    BY <2>1, NoCallMoves
  <2>4. UNCHANGED <<late, uploads>>
    BY <1>1 DEF Submit
  <2>5. LateInOnePlace'
    BY <2>1, <2>3, <2>4, LateFrame DEF IInv
  <2> QED
    BY <1>1, <2>2, <2>3, <2>5, SubmitTurn DEF IInv
<1>2. CASE Escape
  <2>1. /\ at' = at /\ esc' = TRUE /\ at \in {"thinking", "acting"}
        /\ UNCHANGED <<file, kept, term, known, signer, model, copy, strayed>>
        /\ UNCHANGED <<chain, req, call, tries, att, memo, hits, beside>>
        /\ UNCHANGED <<session, turns, buffer, late, uploads>>
    BY <1>2 DEF Escape, auditVars, configVars, chainVars
  <2>2. ConfigInv' /\ CallInv'
    BY <2>1, ConfigFrame, NoCallMoves DEF IInv, AtMoves
  <2>3. TurnInv'
    BY <2>1, TurnFrame DEF IInv, InTurn
  <2>4. LateInOnePlace'
    BY <2>1, <2>2, LateFrame DEF IInv
  <2> QED
    BY <2>2, <2>3, <2>4 DEF IInv
<1>3. CASE Observe
  <2>1. /\ at = "acting" /\ at' = "thinking" /\ \A c \in Calls : call[c] \in {"unused", "answered", "failed"}
        /\ UNCHANGED <<file, kept, term, known, signer, model, copy, strayed>>
        /\ UNCHANGED <<chain, req, call, tries, att, memo, hits, beside>>
        /\ UNCHANGED <<session, turns, buffer, late, uploads, esc>>
    BY <1>3 DEF Observe, auditVars, configVars, chainVars
  <2>2. ConfigInv' /\ CallInv'
    BY <2>1, ConfigFrame, NoCallMoves DEF IInv, AtMoves, Menus
  <2>3. TurnInv'
    BY <2>1, TurnFrame DEF IInv, InTurn, TurnInv, TurnTypes
  <2>4. LateInOnePlace'
    BY <2>1, <2>2, LateFrame DEF IInv
  <2> QED
    BY <2>2, <2>3, <2>4 DEF IInv
<1>4. CASE Answer \/ TurnDies
  <2>1. /\ at = "thinking" /\ at' = "prompt"
        /\ UNCHANGED <<file, kept, term, known, signer, model, copy, strayed>>
        /\ UNCHANGED <<chain, req, call, tries, att, memo, hits, beside>>
    BY <1>4 DEF Answer, TurnDies, EndTurn, auditVars, configVars, chainVars
  <2>2. ConfigInv' /\ CallInv'
    BY <2>1, ConfigFrame, NoCallMoves DEF IInv, AtMoves, Menus
  <2>3. TurnInv'
    BY <1>4, AnswerTurn, TurnDiesTurn DEF IInv
  <2>4. LateInOnePlace'
    <3>1. CASE Answer
      BY <3>1, AnswerLate DEF IInv
    <3>2. CASE TurnDies
      <4>1. UNCHANGED <<late, uploads>>
        BY <3>2 DEF TurnDies, auditVars
      <4> QED
        BY <2>1, <2>2, <4>1, LateFrame DEF IInv
    <3> QED
      BY <1>4, <3>1, <3>2
  <2> QED
    BY <2>2, <2>3, <2>4 DEF IInv
<1> QED
  BY <1>1, <1>2, <1>3, <1>4

\* The background upload, the commands, and the other terminal.
LEMMA OtherSteps ==
  ASSUME IInv, Land \/ New \/ handleConnect \/ handleModels \/ MenuCancel \/ Exit \/ CtrlC \/ OtherTerminal
  PROVE  IInv'
<1>1. CASE Land \/ New
  <2>1. /\ at' = at
        /\ UNCHANGED <<file, kept, term, known, signer, model, copy, strayed>>
        /\ UNCHANGED <<chain, req, call, tries, att, memo, hits, beside>>
    BY <1>1 DEF Land, New, auditVars, configVars, chainVars
  <2>2. ConfigInv' /\ CallInv'
    BY <2>1, ConfigFrame, NoCallMoves DEF IInv, AtMoves
  <2>3. TurnInv'
    BY <1>1, LandTurn, NewTurn DEF IInv
  <2>4. UNCHANGED late /\ (SameUploads \/ UNCHANGED uploads)
    BY <1>1, LandTurn DEF IInv, Land, New, auditVars
  <2>5. LateInOnePlace'
    BY <2>1, <2>2, <2>4, LateFrame DEF IInv
  <2> QED
    BY <2>2, <2>3, <2>5 DEF IInv
<1>2. CASE handleConnect \/ handleModels
  <2>1. /\ at \in {"prompt", "connect", "models"} /\ at' \in {"prompt", "connect", "models"}
        /\ UNCHANGED <<chain, req, call, tries, att, memo, hits, beside>>
        /\ UNCHANGED <<session, turns, buffer, late, uploads, esc>>
    BY <1>2 DEF handleConnect, handleModels, OpenMenu, connectTo, setModel, SaveMenu, auditVars, chainVars
  <2>2. ConfigInv'
    BY <1>2, MenusConfig DEF IInv
  <2>3. CallInv'
    BY <2>1, NoCallMoves
  <2>4. TurnInv'
    BY <2>1, TurnFrame DEF IInv, InTurn, TurnInv, TurnTypes
  <2>5. LateInOnePlace'
    BY <2>1, <2>3, LateFrame DEF IInv
  <2> QED
    BY <2>2, <2>3, <2>4, <2>5 DEF IInv
<1>3. CASE MenuCancel
  <2>1. /\ at \in {"connect", "models"} /\ at' = "prompt" /\ copy' = EmptyConfig
        /\ UNCHANGED <<file, kept, term, known, signer, model, strayed>>
        /\ UNCHANGED <<chain, req, call, tries, att, memo, hits, beside>>
        /\ UNCHANGED <<session, turns, buffer, late, uploads, esc>>
    BY <1>3 DEF MenuCancel, auditVars, configVars, chainVars
  <2>2. ConfigInv'
    BY <2>1, EmptyIsConsistent DEF IInv, ConfigInv, ConfigTypes, Consistent, KeysKept, Signing, Signed
  <2>3. CallInv'
    BY <2>1, NoCallMoves
  <2>4. TurnInv'
    BY <2>1, TurnFrame DEF IInv, InTurn, TurnInv, TurnTypes
  <2>5. LateInOnePlace'
    BY <2>1, <2>3, LateFrame DEF IInv
  <2> QED
    BY <2>2, <2>3, <2>4, <2>5 DEF IInv
<1>4. CASE Exit
  <2>1. /\ at = "prompt" /\ at' = "gone"
        /\ UNCHANGED <<file, kept, term, known, signer, model, copy, strayed>>
        /\ UNCHANGED <<chain, req, call, tries, att, memo, hits, beside>>
        /\ UNCHANGED <<session, turns, buffer, late, uploads, esc>>
    BY <1>4 DEF Exit, auditVars, configVars, chainVars
  <2>2. ConfigInv' /\ CallInv'
    BY <2>1, ConfigFrame, NoCallMoves DEF IInv, AtMoves, Menus
  <2>3. TurnInv'
    BY <2>1, TurnFrame DEF IInv, InTurn, TurnInv, TurnTypes
  <2>4. LateInOnePlace'
    BY <2>1, <2>2, LateFrame DEF IInv
  <2> QED
    BY <2>2, <2>3, <2>4 DEF IInv
<1>5. CASE CtrlC
  <2>1. /\ at \in {"prompt", "connect", "models"} /\ at' = "gone" /\ copy' = EmptyConfig
        /\ UNCHANGED <<file, kept, term, known, signer, chain, model, strayed>>
    BY <1>5 DEF CtrlC, configVars
  <2>2. ConfigInv'
    BY <2>1, EmptyIsConsistent DEF IInv, ConfigInv, ConfigTypes, Consistent, KeysKept, Signing, Signed
  <2>3. TurnInv' /\ CallInv' /\ SameUploads /\ AttemptsGoOn
    BY <1>5, CtrlCTurn, CtrlCCall DEF IInv
  <2>4. LateInOnePlace'
    <3>1. UNCHANGED late
      BY <1>5 DEF CtrlC
    <3> QED
      BY <2>3, <3>1, LateFrame DEF IInv
  <2> QED
    BY <2>2, <2>3, <2>4 DEF IInv
<1>6. CASE OtherTerminal
  <2>1. /\ at' = at /\ UNCHANGED <<chain, req, call, tries, att, memo, hits, beside>>
        /\ UNCHANGED <<session, turns, buffer, late, uploads, esc>>
    BY <1>6 DEF OtherTerminal, auditVars, chainVars
  <2>2. ConfigInv' /\ CallInv'
    BY <1>6, <2>1, TerminalConfig, NoCallMoves DEF IInv
  <2>3. TurnInv'
    BY <2>1, TurnFrame DEF IInv, InTurn, TurnInv, TurnTypes
  <2>4. LateInOnePlace'
    BY <2>1, <2>2, LateFrame DEF IInv
  <2> QED
    BY <2>2, <2>3, <2>4 DEF IInv
<1> QED
  BY <1>1, <1>2, <1>3, <1>4, <1>5, <1>6

\* A tool call goes on: only the calls, the file and what the process holds of it change.
CallStepFrame ==
  UNCHANGED <<term, session, turns, esc, copy, model, buffer, uploads, chain>> /\ (late' = late \/ late' \subseteq Entry)

LEMMA CallStepTurn ==
  ASSUME TurnInv, CallStepFrame, at' = at \/ (at = "thinking" /\ at' = "acting")
  PROVE  TurnInv'
  BY TurnFrame DEF CallStepFrame, InTurn, TurnInv, TurnTypes

LEMMA CallSteps ==
  ASSUME IInv, NEW c \in Calls,
         \/ \E r \in Asks(chain) : Act(c, r)
         \/ Again(c) \/ Late(c)
         \/ \E n \in {m \in DOMAIN att[c] : att[c][m].todo # <<>>} :
              \E reply \in Replies(Head(att[c][n].todo), req[c]) : Settle(c, n, reply)
  PROVE  IInv'
<1>1. /\ call[c] \in {"unused", "running", "backoff", "answered", "failed"} /\ tries[c] = Len(att[c])
      /\ att[c] \in Seq(AttemptType) /\ tries[c] \in Nat /\ chain \in Agents
      /\ (call[c] = "backoff" => tries[c] <= chain.retries) /\ (call[c] = "unused" <=> tries[c] = 0)
      /\ (call[c] # "unused" => req[c] \in Asks(chain)) /\ req = [d \in Calls |-> req[d]]
  BY DEF IInv, CallInv, CallTypes
<1>2. chain.retries \in Nat
  BY <1>1, AsksAssumption DEF Agent
<1>3. ASSUME NEW r \in Asks(chain), Act(c, r) PROVE IInv'
  <2>1. /\ at \in {"acting", "library"} \/ (at = "thinking" /\ ~esc)
        /\ at' = IF at = "thinking" THEN "acting" ELSE at
        /\ Issue(c, r, Throws(r)) /\ AtOnceEffect(r)
        /\ UNCHANGED <<term, session, turns, esc, copy, model, buffer, late, uploads>>
    BY <1>3 DEF Act, auditVars
  <2>2. /\ call[c] = "unused" /\ req' = [req EXCEPT ![c] = r] /\ Begin(c, 1, r, Throws(r)) /\ UNCHANGED chain
    BY <2>1 DEF Issue
  <2>3. /\ req' = [d \in Calls |-> req'[d]] /\ req'[c] = r /\ \A d \in Calls \ {c} : req'[d] = req[d]
    BY <1>1, <2>2
  <2>4. 1 = tries[c] + 1 /\ 1 <= chain.retries + 1
    BY <1>1, <1>2, <2>2
  <2>5. Throws(r) \in BOOLEAN
    BY DEF Throws
  <2>6. at' \in {"acting", "library"} /\ AtMoves
    BY <2>1 DEF AtMoves, Menus
  <2>7. MindsKey(r, Throws(r))
    BY DEF Throws, MindsKey
  <2>8. CallInv' /\ AttemptsGoOn
    BY <2>2, <2>3, <2>4, <2>5, <2>6, <2>7, BeginCall DEF IInv
  <2>9. ConfigInv'
    BY <2>1, <2>2, <2>6, AtOnceEffectConfig DEF IInv
  <2>10. TurnInv'
    BY <2>1, <2>2, CallStepTurn DEF IInv, CallStepFrame
  <2>11. LateInOnePlace'
    BY <2>1, <2>8, LateFrame DEF IInv
  <2> QED
    BY <2>8, <2>9, <2>10, <2>11 DEF IInv
<1>4. CASE Again(c)
  <2> DEFINE r == req[c]
  <2>1. /\ Retry(c, Throws(r)) /\ AtOnceEffect(r)
        /\ UNCHANGED <<term, at, session, turns, esc, copy, model, buffer, late, uploads>>
    BY <1>4 DEF Again, auditVars
  <2>2. /\ call[c] = "backoff" /\ Begin(c, tries[c] + 1, r, Throws(r)) /\ UNCHANGED <<chain, req>>
    BY <2>1 DEF Retry
  <2>3. r \in Asks(chain)
    BY <1>1, <2>2
  <2>4. /\ req' = [d \in Calls |-> req'[d]] /\ req'[c] = r /\ \A d \in Calls \ {c} : req'[d] = req[d]
    BY <1>1, <2>2
  <2>5. tries[c] + 1 <= chain.retries + 1
    BY <1>1, <1>2, <2>2
  <2>6. at' \in {"acting", "library"}
    BY <2>1, <2>2 DEF IInv, CallInv, QuietBetweenTurns
  <2> HIDE DEF r
  <2>7. Throws(r) \in BOOLEAN
    BY DEF Throws
  <2>8. MindsKey(r, Throws(r))
    BY DEF Throws, MindsKey
  <2>9. req[c] = r
    BY DEF r
  <2>10. CallInv' /\ AttemptsGoOn
    BY <2>2, <2>3, <2>4, <2>5, <2>6, <2>7, <2>8, <2>9, BeginCall DEF IInv
  <2>11. ConfigInv'
    BY <2>1, <2>2, AtOnceEffectConfig DEF IInv, AtMoves
  <2>12. TurnInv'
    BY <2>1, <2>2, CallStepTurn DEF IInv, CallStepFrame
  <2>13. LateInOnePlace'
    BY <2>1, <2>10, LateFrame DEF IInv
  <2> QED
    BY <2>10, <2>11, <2>12, <2>13 DEF IInv
<1>5. CASE Late(c)
  <2>1. /\ TimeOut(c) /\ NoWalletEffect
        /\ UNCHANGED <<term, at, session, turns, esc, copy, model, buffer, late, uploads>>
    BY <1>5 DEF Late, auditVars
  <2>2. UNCHANGED chain
    BY <2>1 DEF TimeOut
  <2>3. CallInv' /\ AttemptsGoOn
    BY <2>1, TimeOutCall DEF IInv
  <2>4. ConfigInv'
    BY <2>1, <2>2, NoEffectConfig DEF IInv, AtMoves
  <2>5. TurnInv'
    BY <2>1, <2>2, CallStepTurn DEF IInv, CallStepFrame
  <2>6. LateInOnePlace'
    BY <2>1, <2>3, LateFrame DEF IInv
  <2> QED
    BY <2>3, <2>4, <2>5, <2>6 DEF IInv
<1>6. ASSUME NEW n \in DOMAIN att[c], att[c][n].todo # <<>>, NEW reply, Settle(c, n, reply) PROVE IInv'
  <2>1. /\ Step(c, n, reply, Throws(req[c]))
        /\ IF Head(att[c][n].todo) = "import" /\ reply.how = "next" THEN KeyReady(req[c]) ELSE NoWalletEffect
        /\ UNCHANGED <<term, at, session, turns, esc, copy, model, buffer, uploads>>
    BY <1>6 DEF Settle
  <2>2. UNCHANGED chain
    BY <2>1 DEF Step
  <2>3. CallInv' /\ AttemptsGoOn /\ Len(att'[c][n].todo) < Len(att[c][n].todo)
    <3>1. Throws(req[c]) \in BOOLEAN /\ MindsKey(req[c], Throws(req[c]))
      BY DEF Throws, MindsKey
    <3> QED
      BY <1>6, <2>1, <3>1, StepCall DEF IInv
  <2>4. ConfigInv'
    <3>1. CASE Head(att[c][n].todo) = "import" /\ reply.how = "next"
      <4>1. req[c].tool = "sui_import_wallet" => ImportAwaits(req[c], att[c][n].todo)
        BY DEF IInv, CallInv, ImportHasKey
      <4>2. req[c].tool = "sui_import_wallet" => req[c].arg \in Wallets
        BY <1>6, <3>1, <4>1 DEF ImportAwaits
      <4>3. KeyReady(req[c])
        BY <2>1, <3>1
      <4>4. req[c].tool = "sui_setup" => req[c].opt \in Networks
        <5>1. tries[c] # 0
          BY <1>1, <1>6
        <5> QED
          BY <1>1, <5>1, AsksAssumption
      <4> QED
        BY <2>1, <2>2, <4>2, <4>3, <4>4, KeyReadyConfig DEF IInv, AtMoves
    <3>2. CASE ~(Head(att[c][n].todo) = "import" /\ reply.how = "next")
      BY <2>1, <2>2, <3>2, NoEffectConfig DEF IInv, AtMoves
    <3> QED
      BY <3>1, <3>2
  <2>5. CASE UNCHANGED late
    <3>1. TurnInv'
      BY <2>1, <2>2, <2>5, CallStepTurn DEF IInv, CallStepFrame
    <3>2. LateInOnePlace'
      BY <2>1, <2>3, <2>5, LateFrame DEF IInv
    <3> QED
      BY <2>3, <2>4, <3>1, <3>2 DEF IInv
  <2>6. CASE ~Awaited(c, n) /\ late' = late \cup {<<c, n, Len(att[c][n].todo)>>}
    <3>1. LateInOnePlace' /\ late' \subseteq Entry
      BY <1>6, <2>1, <2>3, <2>6, SettleLate DEF IInv
    <3>2. TurnInv'
      BY <2>1, <2>2, <3>1, CallStepTurn DEF IInv, CallStepFrame
    <3> QED
      BY <2>3, <2>4, <3>1, <3>2 DEF IInv
  <2> QED
    BY <1>6, <2>5, <2>6 DEF Settle
<1> QED
  BY <1>3, <1>4, <1>5, <1>6

LEMMA ForgetStep ==
  ASSUME IInv, Forget
  PROVE  IInv'
<1>1. /\ MinuteOver /\ NoWalletEffect
      /\ UNCHANGED <<term, at, session, turns, esc, copy, model, buffer, late, uploads>>
  BY DEF Forget, auditVars
<1>2. UNCHANGED chain
  BY <1>1 DEF MinuteOver
<1>3. ConfigInv' /\ CallInv'
  BY <1>1, <1>2, NoEffectConfig, MinuteOverCall DEF IInv, AtMoves
<1>4. TurnInv'
  BY <1>1, <1>2, CallStepTurn DEF IInv, CallStepFrame
<1>5. LateInOnePlace'
  <2>1. UNCHANGED att
    BY <1>1 DEF MinuteOver
  <2> QED
    BY <1>1, <1>3, <2>1, LateFrame DEF IInv
<1> QED
  BY <1>3, <1>4, <1>5 DEF IInv

LEMMA NextInv == IInv /\ [CliNext]_vars => IInv'
<1> SUFFICES ASSUME IInv, [CliNext]_vars PROVE IInv'
  OBVIOUS
<1>1. CASE UNCHANGED vars
  <2>1. /\ at' = at /\ UNCHANGED <<file, kept, term, known, signer, model, copy, strayed>>
        /\ UNCHANGED <<chain, req, call, tries, att, memo, hits, beside>>
        /\ UNCHANGED <<session, turns, buffer, late, uploads, esc>>
    BY <1>1 DEF vars, auditVars, configVars, chainVars, cliVars
  <2>2. ConfigInv' /\ CallInv'
    BY <2>1, ConfigFrame, NoCallMoves DEF IInv, AtMoves
  <2>3. TurnInv'
    BY <2>1, TurnFrame DEF IInv, InTurn, TurnInv, TurnTypes
  <2>4. LateInOnePlace'
    BY <2>1, <2>2, LateFrame DEF IInv
  <2> QED
    BY <2>2, <2>3, <2>4 DEF IInv
<1>2. CASE CliNext
  BY <1>2, TurnSteps, OtherSteps, CallSteps, ForgetStep DEF CliNext
<1> QED
  BY <1>1, <1>2

THEOREM Invariance == CliSpec => []IInv
  BY InitInv, NextInv, PTL DEF CliSpec

-----------------------------------------------------------------------------
(* The theorems. *)

\* Type correctness: what the process, the file, the other terminal, the turns and the calls
\* can be, and how often a call is tried.
THEOREM TypeCorrect == CliSpec => []TypeOK
<1>1. IInv => TypeOK
  <2> SUFFICES ASSUME IInv PROVE TypeOK
    OBVIOUS
  <2>1. /\ file \in ThinyConfig /\ term.copy \in ThinyConfig /\ copy \in ThinyConfig
        /\ kept \subseteq Wallets /\ known \subseteq Wallets
        /\ signer \in [wallet : Wallets, network : Networks] \cup {None}
        /\ model \in Provider \cup {None} /\ strayed \in BOOLEAN
    BY DEF IInv, ConfigInv, ConfigTypes, Consistent, Signer
  <2>2. /\ at \in {"prompt", "thinking", "acting", "connect", "models", "gone", "library"}
        /\ session \in 1..MaxSessions /\ Len(turns) <= MaxTurns /\ esc \in BOOLEAN
        /\ buffer \subseteq DOMAIN turns /\ turns \in Seq(Turn) /\ late \subseteq Calls \X Nat \X Nat
    BY DEF IInv, TurnInv, TurnTypes, Entry
  <2>3. \A i \in DOMAIN turns : turns[i].ended \in {"no", "answered", "died"}
    <3>1. \A i \in DOMAIN turns : turns[i] \in Turn
      BY <2>2
    <3> QED
      BY <3>1 DEF Turn
  <2>4. \A c \in Calls : /\ call[c] \in {"unused", "running", "backoff", "answered", "failed"}
                         /\ tries[c] = Len(att[c]) /\ tries[c] \in 0..(chain.retries + 1)
    <3>1. chain.retries \in Nat
      BY AsksAssumption DEF IInv, CallInv, CallTypes, Agent
    <3>2. \A c \in Calls : Len(att[c]) \in Nat
      BY DEF IInv, CallInv, CallTypes
    <3> QED
      BY <3>1, <3>2 DEF IInv, CallInv, CallTypes
  <2>5. beside \subseteq Calls /\ IF chain.perMinute = Unlimited THEN hits = 0 ELSE hits \in 0..chain.perMinute
    BY DEF IInv, CallInv, CallTypes
  <2> QED
    BY <2>1, <2>2, <2>3, <2>4, <2>5 DEF TypeOK
<1> QED
  BY <1>1, Invariance, PTL

\* No wallet's key is lost from config.json, whatever tools, menus and the other terminal
\* write, over the change of its shape too: saveSuiWallet, saveProvider, setActiveProvider.
THEOREM KeysStay == CliSpec => []KeysKept
  BY Invariance, PTL DEF IInv, ConfigInv

\* The live signer is the file's active wallet on the file's network, after every tool and menu.
\* What is left out is in the statement: another process wrote the file, a wallet was put aside
\* in a file that names no active one, or sui_setup has chosen another network than the start's,
\* on which sui_use_wallet still signs.
THEOREM SignerActive == CliSpec => []SignerIsActive
<1>1. IInv => SignerIsActive
  BY DEF IInv, ConfigInv, Signing, Signed, SignerIsActive
<1> QED
  BY <1>1, Invariance, PTL

\* What an answered turn logged goes up once, and under its session; the reset of the buffer
\* behind the flush leaves nothing of it behind; and what attempts log after they have timed
\* out goes up at most once.
THEOREM UploadedOnce == CliSpec => []TurnsUploadedOnce
<1>1. IInv => TurnsUploadedOnce
  <2> SUFFICES ASSUME IInv PROVE TurnsUploadedOnce
    OBVIOUS
  <2>1. LoggedInOnePlace /\ turns \in Seq(Turn) /\ \A u \in DOMAIN uploads : uploads[u].turns \subseteq DOMAIN turns
    BY DEF IInv, TurnInv, TurnTypes
  <2>2. ASSUME NEW i \in DOMAIN turns, chain.audit, turns[i].ended = "answered"
        PROVE  /\ i \notin buffer
               /\ \E u \in DOMAIN uploads :
                    /\ i \in uploads[u].turns /\ uploads[u].session = turns[i].session
                    /\ \A v \in DOMAIN uploads : i \in uploads[v].turns => v = u
    <3>1. PICK u \in DOMAIN uploads : i \in uploads[u].turns
      BY <2>1, <2>2 DEF LoggedInOnePlace
    <3>2. /\ turns[i].session = uploads[u].session /\ i \notin buffer
          /\ \A v \in DOMAIN uploads : i \in uploads[v].turns => v = u
      BY <2>1, <2>2, <3>1 DEF LoggedInOnePlace
    <3> QED
      BY <3>1, <3>2
  <2>3. ASSUME NEW u \in DOMAIN uploads, NEW i \in uploads[u].turns
        PROVE  turns[i].session = uploads[u].session \/ turns[i].ended = "died"
    <3>1. turns[i] \in Turn
      BY <2>1
    <3>2. turns[i].ended \in {"no", "answered", "died"} /\ turns[i].ended # "no"
          /\ (turns[i].ended = "answered" => turns[i].session = uploads[u].session)
      BY <2>1, <3>1 DEF LoggedInOnePlace, Turn
    <3> QED
      BY <3>2
  <2>4. ASSUME NEW u \in DOMAIN uploads, NEW e \in uploads[u].late
        PROVE  /\ att[e[1]][e[2]].shaky
               /\ e \notin late /\ \A v \in DOMAIN uploads : e \in uploads[v].late => v = u
    BY DEF IInv, LateInOnePlace, GivenUp
  <2> QED
    BY <2>2, <2>3, <2>4 DEF TurnsUploadedOnce
<1> QED
  BY <1>1, Invariance, PTL

\* How the payments of a call and its explanations are counted.
LEMMA PaymentsOf ==
  ASSUME CallInv, NEW c \in Calls
  PROVE  /\ Payments(c) <= 1 + Shaky(c) /\ Payments(c) \in Nat /\ Shaky(c) \in Nat
         /\ Payments(c) > 0 => Paid(c)
         /\ Shaky(c) = 0 => ~Explained(c)
<1> DEFINE Dom == DOMAIN att[c]
           Sent == {n \in Dom : att[c][n].sent}
           Unsure == {n \in Dom : att[c][n].shaky}
           last == Len(att[c])
<1>1. att[c] \in Seq(AttemptType) /\ last \in Nat /\ Dom = 1..last
  BY DEF CallInv, CallTypes
<1>2. IsFiniteSet(Dom)
  BY <1>1, FS_Interval
<1>3. IsFiniteSet(Sent) /\ IsFiniteSet(Unsure)
  BY <1>2, FS_Subset
<1>4. Sent \subseteq Unsure \cup {last}
  <2> SUFFICES ASSUME NEW n \in Dom, att[c][n].sent, ~att[c][n].shaky PROVE n = last
    OBVIOUS
  <2>1. CASE Current(c, n)
    BY <2>1 DEF Current
  <2>2. CASE ~Current(c, n)
    BY <2>2 DEF CallInv, Attempts
  <2> QED
    BY <2>1, <2>2
<1>5. Payments(c) = Cardinality(Sent) /\ Shaky(c) = Cardinality(Unsure)
  BY DEF Payments, Shaky
<1> HIDE DEF Sent, Unsure, last, Dom
<1>6. Cardinality(Sent) \in Nat /\ Cardinality(Unsure) \in Nat
  BY <1>3, FS_CardinalityType
<1>7. IsFiniteSet(Unsure \cup {last}) /\ Cardinality(Unsure \cup {last}) <= Cardinality(Unsure) + 1
  <2>1. /\ IsFiniteSet(Unsure \cup {last})
        /\ Cardinality(Unsure \cup {last}) = IF last \in Unsure THEN Cardinality(Unsure) ELSE Cardinality(Unsure) + 1
    BY <1>3, FS_AddElement
  <2> QED
    BY <1>6, <2>1
<1>8. Cardinality(Sent) <= Cardinality(Unsure \cup {last})
  BY <1>4, <1>7, FS_Subset
<1>9. Cardinality(Unsure \cup {last}) \in Nat
  BY <1>7, FS_CardinalityType
<1>10. Cardinality(Sent) <= 1 + Cardinality(Unsure)
  BY <1>6, <1>7, <1>8, <1>9
<1>11. Cardinality(Sent) > 0 => Sent # {}
  BY FS_EmptySet
<1>12. Cardinality(Unsure) = 0 => Unsure = {}
  BY <1>3, FS_EmptySet
<1>13. (Sent # {} => Paid(c)) /\ (Unsure = {} => ~Explained(c))
  BY DEF Sent, Unsure, Dom, Paid, Explained
<1> QED
  BY <1>5, <1>6, <1>10, <1>11, <1>12, <1>13

\* A payment is made once, whatever is retried, times out and comes late: every further one of
\* a call has an explanation, and two calls with one entry in the cache pay both only if one
\* began beside the other, or one of them has an explanation.
THEOREM PaymentsOnce == CliSpec => []PaidOnce
<1>1. IInv => PaidOnce
  <2> SUFFICES ASSUME IInv PROVE PaidOnce
    OBVIOUS
  <2>1. CallInv
    BY DEF IInv
  <2>2. \A c \in Calls : Payments(c) <= 1 + Shaky(c)
    BY <2>1, PaymentsOf
  <2>3. ASSUME NEW c \in Calls, NEW d \in Calls, c < d, call[d] # "unused",
               IF chain.memo = "idempotency" THEN req[c].key = req[d].key /\ req[c].key # "absent"
                                             ELSE chain.memo = "toolCache" /\ req[c] = req[d],
               Payments(c) > 0, Payments(d) > 0
        PROVE  c \in beside \/ d \in beside \/ Shaky(c) + Shaky(d) > 0
    <3>1. SUFFICES ASSUME ~(Shaky(c) + Shaky(d) > 0) PROVE c \in beside \/ d \in beside
      OBVIOUS
    <3>2. Shaky(c) = 0 /\ Shaky(d) = 0
      BY <2>1, <3>1, PaymentsOf
    <3>3. Paid(c) /\ Paid(d) /\ ~Explained(c) /\ ~Explained(d)
      BY <2>1, <2>3, <3>2, PaymentsOf
    <3>4. call[c] # "unused"
      <4>1. PICK n \in DOMAIN att[c] : TRUE
        BY <3>3 DEF Paid
      <4>2. att[c] \in Seq(AttemptType) /\ Len(att[c]) # 0
        BY <2>1, <4>1 DEF CallInv, CallTypes
      <4> QED
        BY <2>1, <4>2 DEF CallInv, CallTypes
    <3>5. SameEntry(c, d)
      <4>1. c # d
        BY <2>3, CallsAssumption
      <4>2. CASE chain.memo = "idempotency"
        BY <2>3, <4>1, <4>2 DEF SameEntry, Memoises, MemoKey
      <4>3. CASE chain.memo # "idempotency"
        BY <2>3, <4>1, <4>3 DEF SameEntry, Memoises, MemoKey
      <4> QED
        BY <4>2, <4>3
    <3> QED
      BY <2>1, <2>3, <3>3, <3>4, <3>5 DEF CallInv, BesideEachOther, Involved
  <2> QED
    BY <2>2, <2>3 DEF PaidOnce
<1> QED
  BY <1>1, Invariance, PTL
=============================================================================
