----------------------------- MODULE WalrusFacts -----------------------------
(***************************************************************************)
(* walrusMemoryPlugin (packages/adapters/walrus/src/index.ts): a user's    *)
(* durable facts.  Every agent process keeps them in memory (cache),       *)
(* mirrors them in a local file (cacheFile, written at once) and uploads   *)
(* them in the background as a Walrus blob, then moves a pointer to the    *)
(* new blob.  Blobs are content-addressed: a blob id is its content here,  *)
(* and the pointer is the content it leads to.  The pointer is kept by     *)
(* filePointerStore, which rewrites its file in two steps.                 *)
(***************************************************************************)
EXTENDS Naturals, Sequences, SequencesExt

CONSTANTS
  Agents,       \* processes with this userId and pointer file, each with a cacheFile of its own
  Facts,        \* what can be remembered
  MaxFacts,     \* opts.maxFacts
  Missing,      \* no cache, no file, no pointer, a blob not uploaded yet
  NotJSON,      \* a pointer file that writeFile has truncated, and not come to its end
  MaxLoaders,   \* bound: concurrent callers of load()
  MaxQueued     \* bound: background writes of one process queued at a time

ASSUME BoundsAssumption == /\ MaxFacts \in Nat \ {0} /\ MaxLoaders \in Nat /\ MaxQueued \in Nat

ASSUME MissingAssumption ==
  Missing \notin Seq(Facts) /\ NotJSON \notin Seq(Facts) /\ NotJSON # Missing

VARIABLES
  useFile,   \* is opts.cacheFile set
  up,        \* is the process running
  cache,     \* let cache: WalrusFacts | undefined
  loads,     \* loads[a]: what each load in flight has read of the pointer
  queue,     \* the chain of background writes: the blob id of each, once uploaded
  file,      \* cacheFile
  pointer,   \* the pointer file: its entry facts:<userId>
  writing,   \* is the file being rewritten by this process
  evicted,   \* facts that the maxFacts limit has ever pushed out
  lastWrite, \* how this process's latest background write ended: "none", "ok", "failed"
  hiccup,    \* has a read from Walrus or the pointer store ever failed
  stored,    \* ghost: every fact that the pointer has ever led to
  cut        \* ghost: has a process without a cacheFile ended on a torn pointer file

ghostVars == <<hiccup, stored, cut>>
vars == <<useFile, up, cache, loads, queue, file, pointer, writing, evicted, lastWrite, ghostVars>>

Init == /\ useFile \in BOOLEAN
        /\ up = [a \in Agents |-> FALSE]
        /\ cache = [a \in Agents |-> Missing]
        /\ loads = [a \in Agents |-> <<>>]
        /\ queue = [a \in Agents |-> <<>>]
        /\ file = [a \in Agents |-> Missing]
        /\ pointer = Missing
        /\ evicted = {}
        /\ lastWrite = [a \in Agents |-> "none"]
        /\ writing = [a \in Agents |-> FALSE]
        /\ hiccup = FALSE /\ stored = {} /\ cut = FALSE

FactsIn(list) == IF list \in {Missing, NotJSON} THEN {} ELSE ToSet(list)

-----------------------------------------------------------------------------
\* A bug: a process that starts asks the pointer store and not the cacheFile.
Boot_PointerFirst(a) ==
  /\ ~up[a]
  /\ up' = [up EXCEPT ![a] = TRUE]
  /\ UNCHANGED <<useFile, cache, loads, queue, file, pointer, writing, evicted, lastWrite, ghostVars>>

\* The process starts; cacheFile, if there is one, is read at once (void load()).
Boot(a) ==
  /\ ~up[a]
  /\ up' = [up EXCEPT ![a] = TRUE]
  /\ cache' = [cache EXCEPT ![a] = file[a]]
  /\ UNCHANGED <<useFile, loads, queue, file, pointer, writing, evicted, lastWrite, ghostVars>>

\* A bug: each caller of load() starts a load of its own.
MayLoad_NoDedupe(a) == Len(loads[a]) < MaxLoaders

\* loading ??= ...: there is one load, and later callers share its promise.
MayLoad(a) == Len(loads[a]) < MaxLoaders /\ loads[a] = <<>>

\* readAll: a file that is not JSON is one without entries.
PointerRead == IF pointer = NotJSON THEN Missing ELSE pointer

\* load() without a local copy asks the pointer store.
StartLoad(a) ==
  /\ up[a] /\ cache[a] = Missing
  /\ MayLoad(a)
  /\ loads' = [loads EXCEPT ![a] = Append(@, PointerRead)]
  /\ UNCHANGED <<useFile, up, cache, queue, file, pointer, writing, evicted, lastWrite, ghostVars>>

\* The blob arrives, or there was no pointer: the cache is filled.
EndLoad(a, i) ==
  /\ up[a] /\ i \in DOMAIN loads[a]
  /\ cache' = [cache EXCEPT ![a] = IF loads[a][i] = Missing THEN <<>> ELSE loads[a][i]]
  /\ loads' = [loads EXCEPT ![a] = RemoveAt(@, i)]
  /\ UNCHANGED <<useFile, up, queue, file, pointer, writing, evicted, lastWrite, ghostVars>>

\* The pointer store or Walrus rejects: the process goes on with no facts.
FailLoad(a, i) ==
  /\ up[a] /\ i \in DOMAIN loads[a]
  /\ cache' = [cache EXCEPT ![a] = <<>>]
  /\ loads' = [loads EXCEPT ![a] = RemoveAt(@, i)]
  /\ hiccup' = TRUE
  /\ UNCHANGED <<useFile, up, queue, file, pointer, writing, evicted, lastWrite, stored, cut>>

\* A bug: a fact that is already known is moved to the end, and counted twice.
WithFact_Twice(list, f) ==
  IF Len(list) < MaxFacts THEN Append(list, f) ELSE Append(Tail(list), f)

\* list.push(fact), unless it is known; list.shift() when the list is too long.
WithFact(list, f) ==
  IF f \in ToSet(list) THEN list
  ELSE IF Len(list) < MaxFacts THEN Append(list, f) ELSE Append(Tail(list), f)

\* writeFileSync(cacheFile), before remember_fact returns.
Mirror(a, list) == file' = IF useFile THEN [file EXCEPT ![a] = list] ELSE file

\* A bug: no write is chained while one is under way.
Chain_Coalesced(writes) == IF writes = <<>> THEN <<Missing>> ELSE writes

\* pending = pending.then(...)
Chain(writes) == Append(writes, Missing)

\* remember_fact: the cached list changes, is mirrored, and a write is chained.
Remember(a, f) ==
  /\ up[a] /\ cache[a] # Missing
  /\ Len(queue[a]) < MaxQueued
  /\ LET list == WithFact(cache[a], f) IN
       /\ cache' = [cache EXCEPT ![a] = list]
       /\ Mirror(a, list)
       /\ evicted' = evicted \cup (FactsIn(cache[a]) \ FactsIn(list))
  /\ queue' = [queue EXCEPT ![a] = Chain(@)]
  /\ UNCHANGED <<useFile, up, loads, pointer, writing, lastWrite, ghostVars>>

\* A bug: the writes are not chained, each runs by itself.
Runnable_Unchained(a) == DOMAIN queue[a]

\* pending.then(...): only the oldest write of the chain runs.
Runnable(a) == {i \in DOMAIN queue[a] : i = 1}

\* putBlob: the facts are serialised when the upload begins, not when it was chained.
Upload(a, i) ==
  /\ up[a] /\ i \in Runnable(a) /\ queue[a][i] = Missing
  /\ queue' = [queue EXCEPT ![a] = ReplaceAt(@, i, cache[a])]
  /\ UNCHANGED <<useFile, up, cache, loads, file, pointer, writing, evicted, lastWrite, ghostVars>>

\* The blob is stored.  pointers.set has read the file, and writeFile truncates it.
RewritePointers(a, i) ==
  /\ up[a] /\ i \in Runnable(a) /\ queue[a][i] # Missing /\ ~writing[a]
  /\ pointer' = NotJSON
  /\ writing' = [writing EXCEPT ![a] = TRUE]
  /\ UNCHANGED <<useFile, up, cache, loads, queue, file, evicted, lastWrite, ghostVars>>

\* The file is written, and the next write of the chain may run.  Of two processes that write
\* at a time nobody knows what is left.
MovePointer(a, i) ==
  /\ up[a] /\ i \in Runnable(a) /\ writing[a]
  /\ \/ pointer' = queue[a][i]
     \/ pointer' = NotJSON /\ \E b \in Agents \ {a} : writing[b]
  /\ stored' = stored \cup FactsIn(pointer')
  /\ writing' = [writing EXCEPT ![a] = FALSE]
  /\ queue' = [queue EXCEPT ![a] = RemoveAt(@, i)]
  /\ lastWrite' = [lastWrite EXCEPT ![a] = "ok"]
  /\ UNCHANGED <<useFile, up, cache, loads, file, evicted, hiccup, cut>>

\* A bug: a failed write is tried again until it succeeds.
FailWrite_Retries(a, i) ==
  /\ up[a] /\ i \in Runnable(a)
  /\ queue' = [queue EXCEPT ![a] = ReplaceAt(@, i, Missing)]
  /\ lastWrite' = [lastWrite EXCEPT ![a] = "failed"]
  /\ writing' = [writing EXCEPT ![a] = FALSE]
  /\ UNCHANGED <<useFile, up, cache, loads, file, pointer, evicted, ghostVars>>

\* putBlob or pointers.set rejects: swallowed, and this write is given up.  A writeFile that
\* fails half-way leaves the file as it is by then.
FailWrite(a, i) ==
  /\ up[a] /\ i \in Runnable(a)
  /\ queue' = [queue EXCEPT ![a] = RemoveAt(@, i)]
  /\ lastWrite' = [lastWrite EXCEPT ![a] = "failed"]
  /\ writing' = [writing EXCEPT ![a] = FALSE]
  /\ UNCHANGED <<useFile, up, cache, loads, file, pointer, evicted, ghostVars>>

\* The process exits or is killed; its memory and its background writes are gone, and a
\* pointer file it was rewriting stays torn.
Crash(a) ==
  /\ up[a]
  /\ up' = [up EXCEPT ![a] = FALSE]
  /\ cache' = [cache EXCEPT ![a] = Missing]
  /\ loads' = [loads EXCEPT ![a] = <<>>]
  /\ queue' = [queue EXCEPT ![a] = <<>>]
  /\ writing' = [writing EXCEPT ![a] = FALSE]
  /\ lastWrite' = [lastWrite EXCEPT ![a] = "none"]
  /\ cut' = (cut \/ (pointer = NotJSON /\ ~useFile))
  /\ UNCHANGED <<useFile, file, pointer, evicted, hiccup, stored>>

LoadStep(a) == StartLoad(a) \/ \E i \in 1..MaxLoaders : EndLoad(a, i) \/ FailLoad(a, i)
WriteStep(a) == \E i \in 1..MaxQueued : \/ Upload(a, i) \/ RewritePointers(a, i)
                                        \/ MovePointer(a, i) \/ FailWrite(a, i)

Next == \E a \in Agents : \/ Boot(a) \/ LoadStep(a) \/ (\E f \in Facts : Remember(a, f))
                          \/ WriteStep(a) \/ Crash(a)

\* Loads and background writes settle.
Fairness == \A a \in Agents : WF_vars(LoadStep(a)) /\ WF_vars(WriteStep(a))

Safe == Init /\ [][Next]_vars
Spec == Safe /\ Fairness

-----------------------------------------------------------------------------
\* A fact is in a list once, and there are at most maxFacts.
FactLists == {list \in UNION {[1..n -> Facts] : n \in 0..MaxFacts} : IsInjective(list)}
MaybeList == FactLists \cup {Missing}

\* Every copy of the facts, in memory, in flight, in the file and on Walrus, is such a list.
TypeOK ==
  /\ useFile \in BOOLEAN /\ hiccup \in BOOLEAN /\ cut \in BOOLEAN
  /\ up \in [Agents -> BOOLEAN] /\ writing \in [Agents -> BOOLEAN]
  /\ cache \in [Agents -> MaybeList]
  /\ loads \in [Agents -> Seq(MaybeList)] /\ queue \in [Agents -> Seq(MaybeList)]
  /\ file \in [Agents -> MaybeList]
  /\ pointer \in MaybeList \cup {NotJSON}
  /\ evicted \in SUBSET Facts /\ stored \in SUBSET Facts
  /\ lastWrite \in [Agents -> {"none", "ok", "failed"}]

\* "so the fact survives even an immediate exit": what remember_fact has returned for is
\* not lost by the running process, not by a load that ends late either; and with a
\* cacheFile it is in the file a restarted process begins with.  Only the maxFacts limit
\* drops a fact.
RememberedFactsStay ==
  [][\A a \in Agents :
       LET kept == IF up'[a] THEN cache'[a] ELSE file'[a] IN
       up[a] /\ (up'[a] \/ useFile) => FactsIn(cache[a]) \subseteq evicted' \cup FactsIn(kept)]_vars

\* Where a fact of the pointer is while the pointer file is torn: in the memory of a process
\* that runs, or in the cacheFile that one will start with.
Copy(a) == IF cache[a] # Missing THEN cache[a] ELSE file[a]

\* Every fact that the pointer ever led to can still be found, unless the limit dropped it.
NothingForgotten ==
  stored \ evicted \subseteq IF pointer # NotJSON THEN FactsIn(pointer)
                             ELSE UNION {FactsIn(Copy(a)) : a \in Agents}

\* "Writes are chained to avoid racing the pointer", and "the prior facts still persist"
\* when a process exits before its upload, or in the middle of it: no stored fact of one
\* process and its restarts is forgotten, as long as no read has failed.  One end is not
\* survived: that of a process without a cacheFile while the pointer file is torn.
PriorFactsPersist == ~hiccup /\ ~cut => NothingForgotten

\* flush(): when the chain has run empty and its last write succeeded, the pointer leads
\* to exactly what the process remembers.
FlushedMeansStored ==
  \A a \in Agents : queue[a] = <<>> /\ lastWrite[a] = "ok" => pointer = cache[a]

\* flush() resolves once no more facts are remembered, also when every upload fails.
FlushResolves ==
  \A a \in Agents :
    <>[][\A f \in Facts : ~Remember(a, f)]_vars => []<>(queue[a] = <<>>)

\* index.ts:455: "a Walrus hiccup degrades to no memory this turn", so the facts of earlier
\* sessions outlive it.  Checked on its own: after a failed load the process goes on with
\* an empty list, and its next write moves the pointer to that.
HiccupForgetsNothing == ~cut => NothingForgotten

\* index.ts:430: the userId is to be shared "across agents to share context", so what one of
\* them has stored is there for the others, until a read fails.  Each agent writes
\* the whole list of its own cache, so this needs that they are not up side by side.
StoredIsShared ==
  ~hiccup => \A a \in Agents :
    queue[a] = <<>> /\ lastWrite[a] = "ok" => FactsIn(cache[a]) \subseteq FactsIn(pointer) \cup evicted
=============================================================================
