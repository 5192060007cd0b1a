-------------------------- MODULE WalrusFactsProofs --------------------------
(***************************************************************************)
(* The two long-term memories: the user facts of walrusMemoryPlugin, for   *)
(* any limit and any facts, and below them the JSON vector store, for any  *)
(* number of processes and memories.                                       *)
(***************************************************************************)
EXTENDS WalrusFacts, VectorMemory, SequenceTheorems, TLAPS

\* A process that is down has nothing; one without a cache has neither written nor chained
\* a write; at most one load is in flight, and only while there is no cache.
ProcessState ==
  \A a \in Agents :
    /\ ~up[a] => cache[a] = Missing
    /\ cache[a] = Missing => queue[a] = <<>> /\ lastWrite[a] = "none"
    /\ writing[a] => queue[a] # <<>>
    /\ loads[a] # <<>> => up[a] /\ cache[a] = Missing /\ Len(loads[a]) = 1

\* Only the oldest write of a chain has begun its upload, and what it uploads is what is
\* remembered unless a later write follows.
OldestWrite ==
  \A a \in Agents :
    /\ \A i \in DOMAIN queue[a] : i # 1 => queue[a][i] = Missing
    /\ Len(queue[a]) = 1 /\ queue[a][1] # Missing => queue[a][1] = cache[a]
    /\ writing[a] => queue[a][1] # Missing

ChainInv == TypeOK /\ ProcessState /\ OldestWrite

\* Of one process with its restarts: a load in flight brings what the pointer still is.
LoadIsFresh == \A a \in Agents : loads[a] # <<>> => loads[a][1] = PointerRead

\* cacheFile holds what the process remembers, from the first remember_fact on; before it
\* there is nothing to remember anywhere.
MirrorExact ==
  \A a \in Agents :
    /\ ~useFile => file[a] = Missing
    /\ useFile /\ up[a] => cache[a] = file[a] \/ (file[a] = Missing /\ cache[a] = <<>>)
    /\ useFile /\ file[a] = Missing => pointer = Missing /\ queue[a] = <<>>

\* While the pointer file is torn, somebody has the list, unless that end came which cut says.
TornIsHeld ==
  pointer = NotJSON /\ ~cut =>
    \E a \in Agents : cache[a] # Missing \/ (useFile /\ file[a] # Missing)

\* Until a read fails, every list that the pointer leads to or will lead to has the stored facts.
Has(list) == stored \subseteq FactsIn(list) \cup evicted

NextHasFacts ==
  ~hiccup /\ ~cut =>
    /\ pointer # NotJSON => Has(pointer)
    /\ \A a \in Agents :
         /\ cache[a] # Missing => Has(cache[a])
         /\ useFile /\ file[a] # Missing => Has(file[a])
         /\ queue[a] # <<>> /\ queue[a][1] # Missing =>
              /\ Has(queue[a][1])
              /\ FactsIn(queue[a][1]) \subseteq FactsIn(cache[a]) \cup evicted

IInv == ChainInv /\ FlushedMeansStored /\ LoadIsFresh /\ MirrorExact /\ TornIsHeld /\ NextHasFacts

\* Of the vector store: only the oldest add of a process is under way.
OldestAdd == \A p \in Processes : \A i \in DOMAIN adds[p] : i # 1 => adds[p][i].at = "queued"

\* Until the file is hurt one process is at it, and it is torn just while that one writes.
UnderWay(p) == adds[p] # <<>> /\ adds[p][1].at # "queued"
Writing(p) == adds[p] # <<>> /\ adds[p][1].at = "writing"

OneAtTheFile ==
  ~hurt => /\ \A p, q \in Processes : UnderWay(p) /\ UnderWay(q) => p = q
           /\ disk = Torn <=> \E p \in Processes : Writing(p)

\* Until then, the add under way carries every saved memory along at each of its awaits.
CarriesSaved ==
  ~hurt =>
    /\ disk # Torn => saved \subseteq disk
    /\ \A p \in Processes : adds[p] # <<>> =>
         /\ adds[p][1].at = "reading" => saved \subseteq adds[p][1].text
         /\ adds[p][1].at = "saving" => saved \cup {adds[p][1].memory} \subseteq items[p]
         /\ adds[p][1].at = "writing" => saved \cup {adds[p][1].memory} \subseteq adds[p][1].text

AddRecords == [memory : Memories, at : {"queued", "reading", "saving", "writing"}, text : SUBSET Memories]

\* A file's text, and every copy of it in memory or in flight, is a set of memories.
VecTypeOK ==
  /\ disk \in (SUBSET Memories) \cup {Torn} /\ saved \subseteq Memories /\ hurt \in BOOLEAN
  /\ items \in [Processes -> SUBSET Memories] /\ ready \in [Processes -> BOOLEAN]
  /\ reads \in [Processes -> Seq(SUBSET Memories)]
  /\ adds \in [Processes -> Seq(AddRecords)]

VecInv == VecTypeOK /\ OldestAdd /\ OneAtTheFile /\ CarriesSaved

-----------------------------------------------------------------------------
(* Lists of facts. *)

LEMMA FactListsAre ==
  ASSUME NEW list
  PROVE  list \in FactLists <=> /\ list \in Seq(Facts) /\ Len(list) <= MaxFacts
                               /\ \A i, j \in 1..Len(list) : list[i] = list[j] => i = j
<1> USE BoundsAssumption
<1>1. ASSUME list \in FactLists
      PROVE  /\ list \in Seq(Facts) /\ Len(list) <= MaxFacts
             /\ \A i, j \in 1..Len(list) : list[i] = list[j] => i = j
  <2>1. PICK n \in 0..MaxFacts : list \in [1..n -> Facts] /\ IsInjective(list)
    BY <1>1 DEF FactLists
  <2>2. list \in Seq(Facts) /\ Len(list) = n
    BY <2>1
  <2> QED
    BY <2>1, <2>2 DEF IsInjective
<1>2. ASSUME list \in Seq(Facts), Len(list) <= MaxFacts,
             \A i, j \in 1..Len(list) : list[i] = list[j] => i = j
      PROVE  list \in FactLists
  <2>1. Len(list) \in 0..MaxFacts /\ list \in [1..Len(list) -> Facts] /\ IsInjective(list)
    BY <1>2 DEF IsInjective
  <2> QED
    BY <2>1 DEF FactLists
<1> QED
  BY <1>1, <1>2

LEMMA NotMissing ==
  /\ Missing \notin FactLists /\ <<>> \in FactLists /\ NotJSON \notin MaybeList
  /\ FactsIn(<<>>) = {} /\ FactsIn(Missing) = {} /\ FactsIn(NotJSON) = {}
  /\ \A list \in MaybeList : FactsIn(list) \subseteq Facts
<1>1. <<>> \in FactLists
  <2>1. <<>> \in Seq(Facts) /\ Len(<<>>) = 0 /\ 0 <= MaxFacts /\ 1..0 = {}
    BY BoundsAssumption
  <2>2. \A i, j \in 1..Len(<<>>) : <<>>[i] = <<>>[j] => i = j
    BY <2>1
  <2> DEFINE empty == <<>>
  <2> HIDE DEF empty
  <2>3. empty \in FactLists
    BY <2>1, <2>2, FactListsAre DEF empty
  <2> QED
    BY <2>3 DEF empty
<1>2. \A list \in FactLists : list # Missing /\ list # NotJSON /\ FactsIn(list) \subseteq Facts
  BY FactListsAre, MissingAssumption DEF FactsIn, ToSet
<1>3. FactsIn(<<>>) = {}
  BY DEF FactsIn, ToSet
<1>4. FactsIn(Missing) = {} /\ FactsIn(NotJSON) = {}
  BY DEF FactsIn
<1> QED
  BY <1>1, <1>2, <1>3, <1>4, MissingAssumption DEF MaybeList

\* remember_fact keeps the list a list without repetition and within its limit.
LEMMA WithFactIsList ==
  ASSUME NEW list \in FactLists, NEW f \in Facts
  PROVE  WithFact(list, f) \in FactLists
<1>1. list \in Seq(Facts) /\ Len(list) <= MaxFacts /\ \A i, j \in 1..Len(list) : list[i] = list[j] => i = j
  BY FactListsAre
<1>2. CASE f \in ToSet(list)
  BY <1>2 DEF WithFact
<1>3. CASE f \notin ToSet(list) /\ Len(list) < MaxFacts
  <2> DEFINE l == Append(list, f)
  <2>1. l \in Seq(Facts) /\ Len(l) = Len(list) + 1
    BY <1>1
  <2>2. \A i \in 1..Len(list) : l[i] = list[i] /\ l[i] # f
    BY <1>1, <1>3 DEF ToSet
  <2>3. l[Len(l)] = f
    BY <1>1
  <2>4. \A i, j \in 1..Len(l) : l[i] = l[j] => i = j
    <3> HIDE DEF l
    <3> QED
      BY <1>1, <2>1, <2>2, <2>3
  <2>5. Len(l) <= MaxFacts
    BY <1>1, <1>3, <2>1, BoundsAssumption
  <2> QED
    BY <1>3, <2>1, <2>4, <2>5, FactListsAre DEF WithFact
<1>4. CASE f \notin ToSet(list) /\ ~(Len(list) < MaxFacts)
  <2> DEFINE l == Append(Tail(list), f)
  <2>0. list # <<>> /\ Len(list) \in Nat \ {0} /\ Len(list) = MaxFacts
    BY <1>1, <1>4, BoundsAssumption
  <2>1. l \in Seq(Facts) /\ Len(l) = Len(list) /\ Tail(list) \in Seq(Facts)
    BY <1>1, <2>0
  <2>2. \A i \in 1..(Len(list) - 1) : l[i] = list[i + 1] /\ l[i] # f
    BY <1>1, <1>4, <2>0 DEF ToSet
  <2>3. l[Len(l)] = f
    BY <1>1, <2>0, <2>1
  <2>4. \A i, j \in 1..Len(l) : l[i] = l[j] => i = j
    <3> HIDE DEF l
    <3>1. \A i \in 1..(Len(list) - 1) : i + 1 \in 1..Len(list)
      BY <2>0
    <3> QED
      BY <1>1, <2>0, <2>1, <2>2, <2>3, <3>1
  <2> QED
    BY <1>4, <2>0, <2>1, <2>4, FactListsAre DEF WithFact
<1> QED
  BY <1>2, <1>3, <1>4

-----------------------------------------------------------------------------
(* The chain of background writes. *)

\* What RemoveAt and ReplaceAt do.
LEMMA RemoveAtIs ==
  ASSUME NEW S, NEW q \in Seq(S), NEW i \in DOMAIN q
  PROVE  /\ RemoveAt(q, i) \in Seq(S) /\ Len(RemoveAt(q, i)) = Len(q) - 1
         /\ \A j \in 1..(Len(q) - 1) : RemoveAt(q, i)[j] = IF j < i THEN q[j] ELSE q[j + 1]
<1> DEFINE front == SubSeq(q, 1, i - 1)
           back == SubSeq(q, i + 1, Len(q))
<1>1. i \in 1..Len(q) /\ Len(q) \in Nat /\ \A j \in 1..Len(q) : q[j] \in S
  OBVIOUS
<1>2. /\ front \in Seq(S) /\ Len(front) = i - 1
      /\ \A j \in 1..(i - 1) : front[j] = q[j]
  BY <1>1, SubSeqProperties
<1>3. /\ back \in Seq(S) /\ Len(back) = Len(q) - i
      /\ \A j \in 1..(Len(q) - i) : back[j] = q[i + j]
  BY <1>1, SubSeqProperties
<1> HIDE DEF front, back
<1>4. /\ front \o back \in Seq(S) /\ Len(front \o back) = Len(q) - 1
      /\ \A j \in 1..(Len(q) - 1) : (front \o back)[j] = IF j <= i - 1 THEN front[j] ELSE back[j - (i - 1)]
  BY <1>1, <1>2, <1>3, ConcatProperties
<1>5. \A j \in 1..(Len(q) - 1) : (front \o back)[j] = IF j < i THEN q[j] ELSE q[j + 1]
  <2> SUFFICES ASSUME NEW j \in 1..(Len(q) - 1)
               PROVE  (front \o back)[j] = IF j < i THEN q[j] ELSE q[j + 1]
    OBVIOUS
  <2>1. CASE j < i
    BY <1>1, <1>2, <1>4, <2>1
  <2>2. CASE ~(j < i)
    <3>1. j - (i - 1) \in 1..(Len(q) - i) /\ i + (j - (i - 1)) = j + 1
      BY <1>1, <2>2
    <3>2. (front \o back)[j] = back[j - (i - 1)]
      <4>1. ~(j <= i - 1)
        BY <1>1, <2>2
      <4> QED
        BY <1>4, <4>1
    <3> QED
      BY <1>3, <2>2, <3>1, <3>2
  <2> QED
    BY <2>1, <2>2
<1> QED
  BY <1>4, <1>5 DEF RemoveAt, front, back

LEMMA ReplaceFirst ==
  ASSUME NEW S, NEW q \in Seq(S), 1 \in DOMAIN q, NEW x \in S
  PROVE  /\ ReplaceAt(q, 1, x) \in Seq(S) /\ Len(ReplaceAt(q, 1, x)) = Len(q)
         /\ ReplaceAt(q, 1, x)[1] = x
         /\ \A i \in DOMAIN q : i # 1 => ReplaceAt(q, 1, x)[i] = q[i]
  BY DEF ReplaceAt

\* A write leaves the chain, or a load is over.
LEMMA DropFirst ==
  ASSUME NEW S, NEW q \in Seq(S), 1 \in DOMAIN q
  PROVE  /\ RemoveAt(q, 1) \in Seq(S) /\ Len(RemoveAt(q, 1)) = Len(q) - 1
         /\ Len(q) = 1 => RemoveAt(q, 1) = <<>>
         /\ \A i \in DOMAIN RemoveAt(q, 1) : i + 1 \in DOMAIN q /\ i + 1 # 1 /\ RemoveAt(q, 1)[i] = q[i + 1]
<1> DEFINE r == RemoveAt(q, 1)
<1>1. /\ r \in Seq(S) /\ Len(r) = Len(q) - 1
      /\ \A j \in 1..(Len(q) - 1) : r[j] = IF j < 1 THEN q[j] ELSE q[j + 1]
  BY RemoveAtIs
<1> HIDE DEF r
<1>2. DOMAIN r = 1..(Len(q) - 1) /\ DOMAIN q = 1..Len(q) /\ Len(q) \in Nat
  BY <1>1
<1>3. Len(q) = 1 => r = <<>>
  BY <1>1
<1>4. \A i \in DOMAIN r : i + 1 \in DOMAIN q /\ i + 1 # 1 /\ r[i] = q[i + 1]
  BY <1>1, <1>2
<1> QED
  BY <1>1, <1>3, <1>4 DEF r

-----------------------------------------------------------------------------
(* The chain invariant, for any number of processes. *)

LEMMA InitChain == Init => ChainInv
<1> SUFFICES ASSUME Init PROVE ChainInv
  OBVIOUS
<1> USE DEF Init
<1>1. TypeOK
  <2>1. <<>> \in Seq(MaybeList) /\ Missing \in MaybeList
    BY DEF MaybeList
  <2> QED
    BY <2>1 DEF TypeOK
<1>2. ProcessState
  BY DEF ProcessState
<1>3. OldestWrite
  <2>1. \A a \in Agents : queue[a] = <<>> /\ Len(queue[a]) = 0 /\ DOMAIN queue[a] = {}
    OBVIOUS
  <2> QED
    BY <2>1 DEF OldestWrite
<1> QED
  BY <1>1, <1>2, <1>3 DEF ChainInv

LEMMA BootChain ==
  ASSUME ChainInv, NEW a \in Agents, Boot(a)
  PROVE  ChainInv'
<1> USE DEF ChainInv, Boot, ghostVars
<1>1. TypeOK'
  BY DEF TypeOK
<1>2. ProcessState'
  BY DEF TypeOK, ProcessState
<1>3. OldestWrite'
  BY DEF TypeOK, ProcessState, OldestWrite
<1> QED
  BY <1>1, <1>2, <1>3

LEMMA StartLoadChain ==
  ASSUME ChainInv, NEW a \in Agents, StartLoad(a)
  PROVE  ChainInv' /\ loads' = [loads EXCEPT ![a] = <<PointerRead>>]
<1> USE DEF ChainInv
<1>1. loads' = [loads EXCEPT ![a] = <<PointerRead>>]
  <2>1. loads[a] = <<>> /\ loads' = [loads EXCEPT ![a] = Append(@, PointerRead)]
    BY DEF StartLoad, MayLoad
  <2>2. Append(<<>>, PointerRead) = <<PointerRead>>
    OBVIOUS
  <2> QED
    BY <2>1, <2>2
<1>2. <<PointerRead>> \in Seq(MaybeList) /\ Len(<<PointerRead>>) = 1
  BY DEF TypeOK, PointerRead, MaybeList
<1>3. TypeOK'
  BY <1>1, <1>2 DEF StartLoad, TypeOK, ghostVars
<1>4. ProcessState'
  BY <1>1, <1>2 DEF StartLoad, TypeOK, ProcessState
<1>5. OldestWrite'
  BY DEF StartLoad, OldestWrite
<1> QED
  BY <1>1, <1>3, <1>4, <1>5

\* The one load in flight ends, with a list or without.
LEMMA LoadEndsChain ==
  ASSUME ChainInv, NEW a \in Agents, NEW i, EndLoad(a, i) \/ FailLoad(a, i)
  PROVE  /\ ChainInv'
         /\ up[a] /\ cache[a] = Missing /\ queue[a] = <<>> /\ lastWrite[a] = "none"
         /\ loads[a] # <<>> /\ i = 1 /\ loads' = [loads EXCEPT ![a] = <<>>]
         /\ cache'[a] \in FactLists
<1> USE DEF ChainInv
<1>1. /\ i \in DOMAIN loads[a] /\ loads' = [loads EXCEPT ![a] = RemoveAt(@, i)] /\ up[a]
      /\ loads[a] \in Seq(MaybeList)
      /\ UNCHANGED <<useFile, up, queue, file, pointer, writing, evicted, lastWrite, stored, cut>>
  BY DEF EndLoad, FailLoad, TypeOK, ghostVars
<1>2. loads[a] # <<>> /\ Len(loads[a]) = 1 /\ i = 1
  BY <1>1 DEF ProcessState
<1>3. cache[a] = Missing /\ queue[a] = <<>> /\ lastWrite[a] = "none"
  BY <1>2 DEF ProcessState
<1>4. loads' = [loads EXCEPT ![a] = <<>>]
  BY <1>1, <1>2, DropFirst
<1>5. \E list \in FactLists : cache' = [cache EXCEPT ![a] = list]
  <2>1. loads[a][1] \in MaybeList
    BY <1>1, <1>2
  <2>2. (IF loads[a][i] = Missing THEN <<>> ELSE loads[a][i]) \in FactLists
    BY <1>2, <2>1, NotMissing DEF MaybeList
  <2> QED
    BY <2>2, NotMissing DEF EndLoad, FailLoad
<1>6. TypeOK'
  <2>1. <<>> \in Seq(MaybeList)
    OBVIOUS
  <2>2. hiccup' \in BOOLEAN
    BY DEF EndLoad, FailLoad, TypeOK, ghostVars
  <2>3. cache' \in [Agents -> MaybeList]
    BY <1>5 DEF TypeOK, MaybeList
  <2>4. \A b \in Agents : loads'[b] \in Seq(MaybeList) /\ queue'[b] \in Seq(MaybeList)
    BY <1>1, <1>4, <2>1 DEF TypeOK
  <2> QED
    BY <1>1, <2>2, <2>3, <2>4 DEF TypeOK
<1>7. ProcessState'
  <2> SUFFICES ASSUME NEW b \in Agents
               PROVE  /\ ~up[b] => cache'[b] = Missing
                      /\ cache'[b] = Missing => queue[b] = <<>> /\ lastWrite[b] = "none"
                      /\ writing[b] => queue[b] # <<>>
                      /\ loads'[b] # <<>> => up[b] /\ cache'[b] = Missing /\ Len(loads'[b]) = 1
    BY <1>1 DEF ProcessState
  <2>1. CASE b = a
    BY <1>1, <1>4, <1>5, <2>1, NotMissing DEF TypeOK, ProcessState
  <2>2. CASE b # a
    BY <1>4, <1>5, <2>2 DEF TypeOK, ProcessState
  <2> QED
    BY <2>1, <2>2
<1>8. OldestWrite'
  BY <1>1, <1>3, <1>5 DEF TypeOK, OldestWrite
<1> QED
  BY <1>1, <1>2, <1>3, <1>4, <1>5, <1>6, <1>7, <1>8 DEF TypeOK

\* A fact is remembered: one more write on a chain whose earlier writes are as they were.
LEMMA RememberChain ==
  ASSUME ChainInv, NEW a \in Agents, NEW f \in Facts, Remember(a, f)
  PROVE  /\ ChainInv'
         /\ cache[a] \in FactLists /\ cache' = [cache EXCEPT ![a] = WithFact(cache[a], f)]
         /\ cache'[a] \in FactLists
         /\ evicted' = evicted \cup (FactsIn(cache[a]) \ FactsIn(cache'[a]))
         /\ file' = IF useFile THEN [file EXCEPT ![a] = cache'[a]] ELSE file
         /\ queue'[a] # <<>> /\ (queue[a] = <<>> => queue'[a][1] = Missing)
         /\ queue[a] # <<>> => queue'[a][1] = queue[a][1]
         /\ \A b \in Agents : b # a => queue'[b] = queue[b]
<1> USE DEF ChainInv
<1>1. /\ up[a] /\ cache[a] \in FactLists
      /\ UNCHANGED <<useFile, up, loads, pointer, writing, lastWrite, hiccup, stored, cut>>
  BY DEF Remember, TypeOK, MaybeList, ghostVars
<1>2. cache' = [cache EXCEPT ![a] = WithFact(cache[a], f)] /\ WithFact(cache[a], f) \in FactLists
  BY <1>1, WithFactIsList DEF Remember
<1>3. cache'[a] = WithFact(cache[a], f)
  BY <1>2 DEF TypeOK
<1>4. /\ evicted' = evicted \cup (FactsIn(cache[a]) \ FactsIn(cache'[a]))
      /\ file' = IF useFile THEN [file EXCEPT ![a] = cache'[a]] ELSE file
  BY <1>3 DEF Remember, Mirror
<1>5. /\ queue' = [queue EXCEPT ![a] = Append(queue[a], Missing)] /\ queue[a] \in Seq(MaybeList)
      /\ Missing \in MaybeList
  BY DEF Remember, Chain, TypeOK, MaybeList
<1>6. /\ Append(queue[a], Missing) \in Seq(MaybeList)
      /\ Len(Append(queue[a], Missing)) = Len(queue[a]) + 1
      /\ Append(queue[a], Missing)[Len(queue[a]) + 1] = Missing
      /\ \A i \in 1..Len(queue[a]) : Append(queue[a], Missing)[i] = queue[a][i]
  BY <1>5
<1>7. TypeOK'
  <2>1. FactsIn(cache[a]) \subseteq Facts
    BY <1>1, NotMissing DEF MaybeList
  <2>2. cache' \in [Agents -> MaybeList] /\ file' \in [Agents -> MaybeList]
    BY <1>2, <1>3, <1>4 DEF TypeOK, MaybeList
  <2>3. queue' \in [Agents -> Seq(MaybeList)]
    BY <1>5, <1>6 DEF TypeOK
  <2> QED
    BY <1>1, <1>4, <2>1, <2>2, <2>3 DEF TypeOK
<1>8. ProcessState'
  <2> SUFFICES ASSUME NEW b \in Agents
               PROVE  /\ ~up[b] => cache'[b] = Missing
                      /\ cache'[b] = Missing => queue'[b] = <<>> /\ lastWrite[b] = "none"
                      /\ writing[b] => queue'[b] # <<>>
                      /\ loads[b] # <<>> => up[b] /\ cache'[b] = Missing /\ Len(loads[b]) = 1
    BY <1>1 DEF ProcessState
  <2>1. CASE b = a
    <3>1. queue'[a] # <<>>
      <4>1. queue'[a] = Append(queue[a], Missing) /\ Len(queue[a]) + 1 # 0
        BY <1>5 DEF TypeOK
      <4> QED
        BY <1>6, <4>1
    <3> QED
      BY <1>1, <1>2, <1>3, <2>1, <3>1, NotMissing DEF ProcessState
  <2>2. CASE b # a
    BY <1>2, <1>5, <2>2 DEF TypeOK, ProcessState
  <2> QED
    BY <2>1, <2>2
<1>9. queue'[a] = Append(queue[a], Missing)
  BY <1>5 DEF TypeOK
<1>10. OldestWrite'
  <2> SUFFICES ASSUME NEW b \in Agents
               PROVE  /\ \A i \in DOMAIN queue'[b] : i # 1 => queue'[b][i] = Missing
                      /\ Len(queue'[b]) = 1 /\ queue'[b][1] # Missing => queue'[b][1] = cache'[b]
                      /\ writing[b] => queue'[b][1] # Missing
    BY <1>1 DEF OldestWrite
  <2>1. CASE b = a
    <3>1. DOMAIN queue'[a] = 1..(Len(queue[a]) + 1) /\ Len(queue[a]) \in Nat
      BY <1>5, <1>6, <1>9
    <3>2. \A i \in DOMAIN queue'[a] : i # 1 => queue'[a][i] = Missing
      BY <1>6, <1>9, <3>1 DEF OldestWrite
    <3>3. Len(queue'[a]) = 1 => queue'[a][1] = Missing
      BY <1>6, <1>9, <3>1
    <3>4. writing[a] => queue'[a][1] # Missing
      <4>1. writing[a] => queue[a] # <<>> /\ queue[a][1] # Missing
        BY DEF ProcessState, OldestWrite
      <4>2. queue[a] # <<>> => 1 \in 1..Len(queue[a])
        BY <1>5
      <4> QED
        BY <1>6, <1>9, <4>1, <4>2
    <3> QED
      BY <2>1, <3>2, <3>3, <3>4
  <2>2. CASE b # a
    BY <1>2, <1>5, <2>2 DEF TypeOK, OldestWrite
  <2> QED
    BY <2>1, <2>2
<1>11. /\ queue'[a] # <<>> /\ (queue[a] = <<>> => queue'[a][1] = Missing)
       /\ queue[a] # <<>> => queue'[a][1] = queue[a][1]
       /\ \A b \in Agents : b # a => queue'[b] = queue[b]
  <2>1. Len(queue[a]) \in Nat /\ (queue[a] = <<>> <=> Len(queue[a]) = 0)
    BY <1>5
  <2>2. Len(queue'[a]) = Len(queue[a]) + 1 /\ queue'[a] \in Seq(MaybeList)
    BY <1>6, <1>9
  <2>3. queue'[a] # <<>>
    BY <2>1, <2>2
  <2>4. queue[a] = <<>> => queue'[a][1] = Missing
    BY <1>6, <1>9, <2>1
  <2>5. queue[a] # <<>> => queue'[a][1] = queue[a][1]
    <3>1. queue[a] # <<>> => 1 \in 1..Len(queue[a])
      BY <2>1
    <3> QED
      BY <1>6, <1>9, <3>1
  <2>6. \A b \in Agents : b # a => queue'[b] = queue[b]
    BY <1>5 DEF TypeOK
  <2> QED
    BY <2>3, <2>4, <2>5, <2>6
<1> QED
  BY <1>1, <1>2, <1>3, <1>4, <1>7, <1>8, <1>10, <1>11

LEMMA UploadChain ==
  ASSUME ChainInv, NEW a \in Agents, NEW i, Upload(a, i)
  PROVE  /\ ChainInv' /\ queue[a] # <<>> /\ queue'[a] # <<>> /\ queue'[a][1] = cache[a]
         /\ \A b \in Agents : b # a => queue'[b] = queue[b]
<1> USE DEF ChainInv
<1>1. /\ i = 1 /\ 1 \in DOMAIN queue[a] /\ queue[a] \in Seq(MaybeList)
      /\ queue' = [queue EXCEPT ![a] = ReplaceAt(queue[a], 1, cache[a])]
      /\ UNCHANGED <<useFile, up, cache, loads, file, pointer, writing, evicted, lastWrite, hiccup, stored, cut>>
  BY DEF Upload, Runnable, TypeOK, ghostVars
<1>2. queue'[a] = ReplaceAt(queue[a], 1, cache[a]) /\ cache[a] \in MaybeList
  BY <1>1 DEF TypeOK
<1>3. /\ queue'[a] \in Seq(MaybeList) /\ Len(queue'[a]) = Len(queue[a]) /\ queue'[a][1] = cache[a]
      /\ \A j \in DOMAIN queue[a] : j # 1 => queue'[a][j] = queue[a][j]
  <2> DEFINE r == ReplaceAt(queue[a], 1, cache[a])
  <2>1. /\ r \in Seq(MaybeList) /\ Len(r) = Len(queue[a]) /\ r[1] = cache[a]
        /\ \A j \in DOMAIN queue[a] : j # 1 => r[j] = queue[a][j]
    <3> DEFINE q == queue[a]
               x == cache[a]
    <3> HIDE DEF q, x
    <3>1. q \in Seq(MaybeList) /\ 1 \in DOMAIN q /\ x \in MaybeList
      BY <1>1, <1>2 DEF q, x
    <3>2. ReplaceAt(q, 1, x) = r
      BY DEF q, x
    <3>3. /\ ReplaceAt(q, 1, x) \in Seq(MaybeList) /\ Len(ReplaceAt(q, 1, x)) = Len(q)
          /\ ReplaceAt(q, 1, x)[1] = x
          /\ \A j \in DOMAIN q : j # 1 => ReplaceAt(q, 1, x)[j] = q[j]
      BY <3>1, ReplaceFirst
    <3> QED
      BY <3>2, <3>3 DEF q, x
  <2>2. queue'[a] = r
    BY <1>2
  <2> HIDE DEF r
  <2> QED
    BY <2>1, <2>2
<1>4. DOMAIN queue'[a] = DOMAIN queue[a] /\ queue[a] # <<>> /\ queue'[a] # <<>>
  BY <1>1, <1>3
<1>5. \A b \in Agents : b # a => queue'[b] = queue[b]
  BY <1>1 DEF TypeOK
<1>6. TypeOK'
  <2>1. queue' \in [Agents -> Seq(MaybeList)]
    BY <1>1, <1>2, <1>3 DEF TypeOK
  <2> QED
    BY <1>1, <2>1 DEF TypeOK
<1>7. cache[a] # Missing
  BY <1>4 DEF ProcessState
<1>8. ProcessState' /\ OldestWrite'
  BY <1>1, <1>3, <1>4, <1>5, <1>7 DEF ProcessState, OldestWrite
<1> QED
  BY <1>3, <1>4, <1>5, <1>6, <1>8

\* The blob of the oldest write is stored, and the pointer file truncated.
LEMMA RewriteChain ==
  ASSUME ChainInv, NEW a \in Agents, NEW i, RewritePointers(a, i)
  PROVE  /\ ChainInv' /\ queue[a] # <<>> /\ cache[a] # Missing /\ up[a] /\ pointer' = NotJSON
         /\ UNCHANGED <<useFile, up, cache, loads, queue, file, evicted, lastWrite, hiccup, stored, cut>>
<1> USE DEF ChainInv
<1>1. /\ i = 1 /\ 1 \in DOMAIN queue[a] /\ queue[a][1] # Missing /\ up[a] /\ pointer' = NotJSON
      /\ writing' = [writing EXCEPT ![a] = TRUE]
      /\ UNCHANGED <<useFile, up, cache, loads, queue, file, evicted, lastWrite, hiccup, stored, cut>>
  BY DEF RewritePointers, Runnable, ghostVars
<1>2. queue[a] # <<>> /\ cache[a] # Missing
  BY <1>1 DEF ProcessState
<1>3. TypeOK'
  BY <1>1 DEF TypeOK
<1>4. ProcessState' /\ OldestWrite'
  BY <1>1, <1>2 DEF TypeOK, ProcessState, OldestWrite
<1> QED
  BY <1>1, <1>2, <1>3, <1>4

\* The oldest write of a chain is over.
LEMMA WriteEndsChain ==
  ASSUME ChainInv, NEW a \in Agents, NEW i, MovePointer(a, i) \/ FailWrite(a, i)
  PROVE  /\ ChainInv' /\ queue[a] # <<>> /\ cache[a] # Missing
         /\ MovePointer(a, i) => /\ queue[a][1] # Missing /\ queue[a][1] \in FactLists
                                 /\ pointer' = queue[a][1] \/ \E b \in Agents \ {a} : writing[b]
                                 /\ stored' = stored \cup FactsIn(pointer')
         /\ queue'[a] # <<>> => queue'[a][1] = Missing
         /\ queue'[a] = <<>> => Len(queue[a]) = 1
         /\ \A b \in Agents : b # a => queue'[b] = queue[b]
<1> USE DEF ChainInv
<1>1. /\ i = 1 /\ 1 \in DOMAIN queue[a] /\ queue[a] \in Seq(MaybeList)
      /\ queue' = [queue EXCEPT ![a] = RemoveAt(queue[a], 1)]
      /\ writing' = [writing EXCEPT ![a] = FALSE]
      /\ UNCHANGED <<useFile, up, cache, loads, file, evicted, hiccup, cut>>
      /\ \E how \in {"ok", "failed"} : lastWrite' = [lastWrite EXCEPT ![a] = how]
  BY DEF MovePointer, FailWrite, Runnable, TypeOK, ghostVars
<1>2. queue'[a] = RemoveAt(queue[a], 1) /\ queue[a][1] \in MaybeList
  BY <1>1 DEF TypeOK
<1>3. /\ queue'[a] \in Seq(MaybeList) /\ Len(queue'[a]) = Len(queue[a]) - 1
      /\ \A j \in DOMAIN queue'[a] : j + 1 \in DOMAIN queue[a] /\ j + 1 # 1 /\ queue'[a][j] = queue[a][j + 1]
  BY <1>1, <1>2, DropFirst
<1>4. \A j \in DOMAIN queue'[a] : queue'[a][j] = Missing
  BY <1>3 DEF OldestWrite
<1>5. queue[a] # <<>> /\ cache[a] # Missing
  BY <1>1 DEF ProcessState
<1>6. \A b \in Agents : b # a => queue'[b] = queue[b]
  BY <1>1 DEF TypeOK
<1>7. TypeOK'
  <2>1. queue' \in [Agents -> Seq(MaybeList)]
    BY <1>1, <1>2, <1>3 DEF TypeOK
  <2>2. pointer' \in MaybeList \cup {NotJSON} /\ (stored' = stored \/ stored' = stored \cup FactsIn(pointer'))
    BY <1>1, <1>2 DEF MovePointer, FailWrite, TypeOK, ghostVars
  <2>3. stored' \in SUBSET Facts
    BY <2>2, NotMissing DEF TypeOK
  <2> QED
    BY <1>1, <2>1, <2>2, <2>3 DEF TypeOK
<1>8. queue'[a] # <<>> => 1 \in DOMAIN queue'[a]
  BY <1>3
<1>9. ProcessState' /\ OldestWrite'
  <2>1. ProcessState'
    BY <1>1, <1>5, <1>6 DEF ProcessState, TypeOK
  <2>2. Len(queue'[a]) = 1 => queue'[a][1] = Missing
    BY <1>3, <1>4
  <2> QED
    BY <1>1, <1>4, <1>6, <2>1, <2>2 DEF OldestWrite, TypeOK
<1>10. queue'[a] = <<>> => Len(queue[a]) = 1
  <2>1. Len(queue[a]) \in Nat /\ Len(<<>>) = 0
    BY <1>1
  <2> QED
    BY <1>3, <2>1
<1> QED
  <2>1. MovePointer(a, i) => queue[a][1] # Missing /\ queue[a][1] \in FactLists
    BY <1>1, <1>2 DEF MovePointer, OldestWrite, MaybeList
  <2>2. MovePointer(a, i) => /\ pointer' = queue[a][1] \/ \E b \in Agents \ {a} : writing[b]
                             /\ stored' = stored \cup FactsIn(pointer')
    BY <1>1 DEF MovePointer
  <2> QED
    BY <1>1, <1>4, <1>5, <1>6, <1>7, <1>8, <1>9, <1>10, <2>1, <2>2

LEMMA CrashChain ==
  ASSUME ChainInv, NEW a \in Agents, Crash(a)
  PROVE  ChainInv'
<1> USE DEF ChainInv, Crash
<1>1. <<>> \in Seq(MaybeList) /\ Missing \in MaybeList
  BY DEF MaybeList
<1>2. TypeOK'
  BY <1>1 DEF TypeOK
<1>3. ProcessState'
  BY DEF TypeOK, ProcessState
<1>4. OldestWrite'
  <2>1. DOMAIN <<>> = {} /\ Len(<<>>) = 0
    OBVIOUS
  <2> QED
    BY <2>1 DEF TypeOK, OldestWrite
<1> QED
  BY <1>2, <1>3, <1>4

\* Every step of every process.
LEMMA NextChain == ChainInv /\ [Next]_vars => ChainInv'
<1> SUFFICES ASSUME ChainInv, [Next]_vars PROVE ChainInv'
  OBVIOUS
<1>1. ASSUME NEW a \in Agents, LoadStep(a) PROVE ChainInv'
  BY <1>1, StartLoadChain, LoadEndsChain DEF LoadStep
<1>2. ASSUME NEW a \in Agents, WriteStep(a) PROVE ChainInv'
  BY <1>2, UploadChain, RewriteChain, WriteEndsChain DEF WriteStep
<1>3. CASE UNCHANGED vars
  BY <1>3 DEF vars, ghostVars, ChainInv, TypeOK, ProcessState, OldestWrite
<1> QED
  BY <1>1, <1>2, <1>3, BootChain, RememberChain, CrashChain DEF Next

\* Every copy of the facts is a list that has a fact once and keeps to maxFacts, whatever
\* loads, uploads and restarts of however many processes come in between.
THEOREM TypeCorrect == Spec => []TypeOK
<1>1. Init => ChainInv
  BY InitChain
<1>2. ChainInv /\ [Next]_vars => ChainInv'
  BY NextChain
<1>3. ChainInv => TypeOK
  BY DEF ChainInv
<1> QED
  BY <1>1, <1>2, <1>3, PTL DEF Spec, Safe

-----------------------------------------------------------------------------
(* One process and its restarts: what is remembered reaches the pointer and stays. *)

Alone == \A a, b \in Agents : a = b

LEMMA InitAlone == Init => IInv
<1> SUFFICES ASSUME Init PROVE IInv
  OBVIOUS
<1>1. ChainInv
  BY InitChain
<1>2. FlushedMeansStored /\ LoadIsFresh /\ MirrorExact
  BY DEF Init, FlushedMeansStored, LoadIsFresh, MirrorExact
<1>3. TornIsHeld /\ NextHasFacts
  <2>1. pointer # NotJSON /\ stored = {} /\ \A a \in Agents : queue[a] = <<>>
    BY MissingAssumption DEF Init
  <2> QED
    BY <2>1 DEF Init, TornIsHeld, NextHasFacts, Has
<1> QED
  BY <1>1, <1>2, <1>3 DEF IInv

\* What a step does to the facts of a process: they stay in its memory, or in its file when
\* it ends.
ProcessKeeps ==
  \A a \in Agents :
    LET kept == IF up'[a] THEN cache'[a] ELSE file'[a] IN
    up[a] /\ (up'[a] \/ useFile) => FactsIn(cache[a]) \subseteq evicted' \cup FactsIn(kept)

\* What the pointer led to can be found: in the pointer, or where TornIsHeld says.
LEMMA HeldIsFound ==
  ASSUME TornIsHeld, NextHasFacts
  PROVE  PriorFactsPersist
<1> SUFFICES ASSUME ~hiccup, ~cut, pointer = NotJSON
             PROVE  stored \ evicted \subseteq UNION {FactsIn(Copy(a)) : a \in Agents}
  BY DEF PriorFactsPersist, NothingForgotten, NextHasFacts, Has
<1>1. PICK a \in Agents : cache[a] # Missing \/ (useFile /\ file[a] # Missing)
  BY DEF TornIsHeld
<1>2. Has(Copy(a))
  BY <1>1 DEF NextHasFacts, Copy
<1> QED
  BY <1>2 DEF Has

LEMMA BootAlone ==
  ASSUME Alone, IInv, NEW a \in Agents, Boot(a)
  PROVE  IInv' /\ ProcessKeeps
<1>1. ChainInv'
  BY BootChain DEF IInv
<1> USE DEF IInv, ChainInv, Boot, Alone, ghostVars
<1>2. /\ cache[a] = Missing /\ queue[a] = <<>> /\ lastWrite[a] = "none" /\ loads[a] = <<>>
      /\ cache'[a] = file[a] /\ up'[a]
  BY DEF TypeOK, ProcessState
<1>3. FlushedMeansStored' /\ LoadIsFresh'
  BY <1>2 DEF FlushedMeansStored, LoadIsFresh, PointerRead
<1>4. MirrorExact'
  BY <1>2 DEF MirrorExact
<1>5. TornIsHeld'
  BY <1>2 DEF TornIsHeld
<1>6. NextHasFacts'
  BY <1>2 DEF MirrorExact, NextHasFacts, Has
<1>7. ProcessKeeps
  BY DEF ProcessKeeps
<1> QED
  BY <1>1, <1>3, <1>4, <1>5, <1>6, <1>7

LEMMA StartLoadAlone ==
  ASSUME Alone, IInv, NEW a \in Agents, StartLoad(a)
  PROVE  IInv' /\ ProcessKeeps
<1>1. ChainInv' /\ loads' = [loads EXCEPT ![a] = <<PointerRead>>]
  BY StartLoadChain DEF IInv
<1> USE DEF IInv, ChainInv, StartLoad, Alone, ghostVars
<1>2. loads'[a] = <<PointerRead>> /\ <<PointerRead>>[1] = PointerRead /\ PointerRead' = PointerRead
  BY <1>1 DEF TypeOK, PointerRead
<1>3. LoadIsFresh'
  BY <1>2 DEF LoadIsFresh
<1>4. FlushedMeansStored' /\ MirrorExact' /\ TornIsHeld' /\ NextHasFacts'
  BY DEF FlushedMeansStored, MirrorExact, TornIsHeld, NextHasFacts, Has
<1>5. ProcessKeeps
  BY DEF ProcessKeeps
<1> QED
  BY <1>1, <1>3, <1>4, <1>5

\* The cache becomes what the pointer leads to, or nothing after a failed read.  A process
\* that has to ask the pointer finds it whole, or its end before was the one that cut says.
LEMMA LoadEndsAlone ==
  ASSUME Alone, IInv, NEW a \in Agents, NEW i, EndLoad(a, i) \/ FailLoad(a, i)
  PROVE  IInv' /\ ProcessKeeps
<1>1. /\ ChainInv' /\ up[a] /\ cache[a] = Missing /\ queue[a] = <<>> /\ lastWrite[a] = "none"
      /\ loads[a] # <<>> /\ i = 1 /\ loads' = [loads EXCEPT ![a] = <<>>]
      /\ cache'[a] \in FactLists
  BY LoadEndsChain DEF IInv
<1> USE DEF IInv, ChainInv, Alone
<1>2. /\ UNCHANGED <<useFile, up, queue, file, pointer, writing, evicted, lastWrite, stored, cut>>
      /\ hiccup' \/ (hiccup' = hiccup /\ cache'[a] = IF PointerRead = Missing THEN <<>> ELSE PointerRead)
      /\ hiccup => hiccup'
      /\ PointerRead = Missing => cache'[a] = <<>>
  BY <1>1 DEF EndLoad, FailLoad, LoadIsFresh, TypeOK, ghostVars
<1>3. LoadIsFresh' /\ FlushedMeansStored'
  BY <1>1, <1>2 DEF TypeOK, FlushedMeansStored, LoadIsFresh
<1>4. useFile => file[a] = Missing
  BY <1>1 DEF MirrorExact
<1>5. pointer = NotJSON => cut
  BY <1>1, <1>4 DEF TornIsHeld
<1>6. MirrorExact'
  BY <1>1, <1>2, <1>4, NotMissing DEF MirrorExact, PointerRead
<1>7. TornIsHeld'
  BY <1>2, <1>5 DEF TornIsHeld
<1>8. NextHasFacts'
  <2>1. ~hiccup' /\ ~cut => FactsIn(cache'[a]) = FactsIn(pointer)
    BY <1>2, <1>5, NotMissing DEF PointerRead
  <2>2. ~hiccup' /\ ~cut => Has(pointer) /\ Has(cache'[a])
    BY <1>2, <1>5, <2>1 DEF NextHasFacts, Has
  <2> QED
    BY <1>1, <1>2, <2>2 DEF NextHasFacts, Has
<1>9. ProcessKeeps
  BY <1>1, <1>2, NotMissing DEF ProcessKeeps
<1> QED
  BY <1>1, <1>3, <1>6, <1>7, <1>8, <1>9

LEMMA RememberAlone ==
  ASSUME Alone, IInv, NEW a \in Agents, NEW f \in Facts, Remember(a, f)
  PROVE  IInv' /\ ProcessKeeps
<1>1. /\ ChainInv' /\ cache[a] \in FactLists /\ cache'[a] \in FactLists
      /\ evicted' = evicted \cup (FactsIn(cache[a]) \ FactsIn(cache'[a]))
      /\ file' = IF useFile THEN [file EXCEPT ![a] = cache'[a]] ELSE file
      /\ queue'[a] # <<>> /\ (queue[a] = <<>> => queue'[a][1] = Missing)
      /\ queue[a] # <<>> => queue'[a][1] = queue[a][1]
  BY RememberChain DEF IInv
<1>2. up[a] /\ UNCHANGED <<useFile, up, loads, pointer, writing, lastWrite, hiccup, stored, cut>>
  BY DEF Remember, ghostVars
<1> USE DEF IInv, ChainInv, Alone
<1>3. useFile => file'[a] = cache'[a]
  BY <1>1 DEF TypeOK
<1>4. loads[a] = <<>> /\ cache[a] # Missing /\ cache'[a] # Missing
  BY <1>1, NotMissing DEF ProcessState
<1>5. FlushedMeansStored' /\ LoadIsFresh'
  BY <1>1, <1>2, <1>4 DEF FlushedMeansStored, LoadIsFresh
<1>6. MirrorExact' /\ TornIsHeld'
  BY <1>1, <1>2, <1>3, <1>4 DEF MirrorExact, TornIsHeld
<1>7. FactsIn(cache[a]) \subseteq FactsIn(cache'[a]) \cup evicted' /\ evicted \subseteq evicted'
  BY <1>1
<1>8. NextHasFacts'
  <2> SUFFICES ASSUME ~hiccup, ~cut PROVE NextHasFacts'
    BY <1>2 DEF NextHasFacts
  <2>1. stored \subseteq FactsIn(cache'[a]) \cup evicted'
    BY <1>4, <1>7 DEF NextHasFacts, Has
  <2>2. queue'[a][1] # Missing =>
          /\ stored \subseteq FactsIn(queue'[a][1]) \cup evicted'
          /\ FactsIn(queue'[a][1]) \subseteq FactsIn(cache'[a]) \cup evicted'
    BY <1>1, <1>7 DEF NextHasFacts, Has
  <2>3. pointer # NotJSON => stored \subseteq FactsIn(pointer) \cup evicted'
    BY <1>7 DEF NextHasFacts, Has
  <2> QED
    BY <1>2, <1>3, <2>1, <2>2, <2>3 DEF NextHasFacts, Has
<1>9. ProcessKeeps
  BY <1>2, <1>7 DEF ProcessKeeps
<1> QED
  BY <1>1, <1>5, <1>6, <1>8, <1>9

LEMMA UploadAlone ==
  ASSUME Alone, IInv, NEW a \in Agents, NEW i, Upload(a, i)
  PROVE  IInv' /\ ProcessKeeps
<1>1. ChainInv' /\ queue[a] # <<>> /\ queue'[a] # <<>> /\ queue'[a][1] = cache[a]
  BY UploadChain DEF IInv
<1>2. UNCHANGED <<useFile, up, cache, loads, file, pointer, writing, evicted, lastWrite, hiccup, stored, cut>>
  BY DEF Upload, ghostVars
<1> USE DEF IInv, ChainInv, Alone
<1>3. FlushedMeansStored' /\ LoadIsFresh' /\ MirrorExact' /\ TornIsHeld' /\ NextHasFacts'
  BY <1>1, <1>2 DEF FlushedMeansStored, LoadIsFresh, PointerRead, MirrorExact, TornIsHeld, NextHasFacts, Has
<1>4. ProcessKeeps
  BY <1>2 DEF ProcessKeeps
<1> QED
  BY <1>1, <1>3, <1>4

\* The pointer file is torn, and the process that writes it has the list.
LEMMA RewriteAlone ==
  ASSUME Alone, IInv, NEW a \in Agents, NEW i, RewritePointers(a, i)
  PROVE  IInv' /\ ProcessKeeps
<1>1. /\ ChainInv' /\ queue[a] # <<>> /\ cache[a] # Missing /\ up[a] /\ pointer' = NotJSON
      /\ UNCHANGED <<useFile, up, cache, loads, queue, file, evicted, lastWrite, hiccup, stored, cut>>
  BY RewriteChain DEF IInv
<1> USE DEF IInv, ChainInv, Alone
<1>2. loads[a] = <<>>
  BY <1>1 DEF ProcessState
<1>3. FlushedMeansStored' /\ LoadIsFresh' /\ MirrorExact' /\ TornIsHeld' /\ NextHasFacts'
  BY <1>1, <1>2 DEF FlushedMeansStored, LoadIsFresh, MirrorExact, TornIsHeld, NextHasFacts, Has
<1>4. ProcessKeeps
  BY <1>1 DEF ProcessKeeps
<1> QED
  BY <1>1, <1>3, <1>4

\* The pointer moves to what the oldest write has uploaded, or that write is given up.
LEMMA WriteEndsAlone ==
  ASSUME Alone, IInv, NEW a \in Agents, NEW i, MovePointer(a, i) \/ FailWrite(a, i)
  PROVE  IInv' /\ ProcessKeeps
<1>1. /\ ChainInv' /\ queue[a] # <<>> /\ cache[a] # Missing
      /\ MovePointer(a, i) => /\ queue[a][1] # Missing /\ queue[a][1] \in FactLists
                              /\ pointer' = queue[a][1] \/ \E b \in Agents \ {a} : writing[b]
                              /\ stored' = stored \cup FactsIn(pointer')
      /\ queue'[a] # <<>> => queue'[a][1] = Missing
      /\ queue'[a] = <<>> => Len(queue[a]) = 1
  BY WriteEndsChain DEF IInv
<1> USE DEF IInv, ChainInv, Alone
<1>2. /\ UNCHANGED <<useFile, up, cache, loads, file, evicted, hiccup, cut>>
      /\ \/ pointer' = queue[a][1] /\ queue[a][1] # Missing /\ stored' = stored \cup FactsIn(queue[a][1])
         \/ /\ UNCHANGED <<pointer, stored>>
            /\ lastWrite' = [lastWrite EXCEPT ![a] = "failed"]
  BY <1>1 DEF MovePointer, FailWrite, ghostVars
<1>3. loads[a] = <<>> /\ up[a]
  BY <1>1 DEF ProcessState
<1>4. FlushedMeansStored' /\ LoadIsFresh'
  <2>1. queue'[a] = <<>> /\ lastWrite'[a] = "ok" => pointer' = cache[a]
    BY <1>1, <1>2 DEF TypeOK, OldestWrite
  <2> QED
    BY <1>2, <1>3, <2>1 DEF FlushedMeansStored, LoadIsFresh
<1>5. MirrorExact' /\ TornIsHeld'
  BY <1>1, <1>2 DEF MirrorExact, TornIsHeld
<1>6. NextHasFacts'
  <2> SUFFICES ASSUME ~hiccup, ~cut PROVE NextHasFacts'
    BY <1>2 DEF NextHasFacts
  <2>1. CASE UNCHANGED <<pointer, stored>>
    BY <1>1, <1>2, <1>3, <2>1 DEF NextHasFacts, Has
  <2>2. CASE pointer' = queue[a][1] /\ queue[a][1] # Missing /\ stored' = stored \cup FactsIn(queue[a][1])
    <3>1. Has(pointer)'
      BY <1>1, <1>2, <2>2 DEF NextHasFacts, Has
    <3>2. Has(cache[a])'
      BY <1>1, <1>2, <2>2 DEF NextHasFacts, Has
    <3>3. useFile /\ file[a] # Missing => Has(file[a])'
      <4>1. useFile /\ file[a] # Missing => cache[a] = file[a]
        BY <1>3 DEF MirrorExact
      <4> QED
        BY <1>2, <3>2, <4>1 DEF Has
    <3> QED
      BY <1>1, <1>2, <3>1, <3>2, <3>3 DEF NextHasFacts
  <2> QED
    BY <1>2, <2>1, <2>2
<1>7. ProcessKeeps
  BY <1>2 DEF ProcessKeeps
<1> QED
  BY <1>1, <1>4, <1>5, <1>6, <1>7

LEMMA CrashAlone ==
  ASSUME Alone, IInv, NEW a \in Agents, Crash(a)
  PROVE  IInv' /\ ProcessKeeps
<1>1. ChainInv'
  BY CrashChain DEF IInv
<1> USE DEF IInv, ChainInv, Crash, Alone
<1>2. /\ cache'[a] = Missing /\ loads'[a] = <<>> /\ queue'[a] = <<>> /\ lastWrite'[a] = "none" /\ ~up'[a]
      /\ up[a] /\ UNCHANGED <<useFile, file, pointer, evicted, hiccup, stored>>
      /\ cut' = (cut \/ (pointer = NotJSON /\ ~useFile))
  BY DEF TypeOK
<1>3. FlushedMeansStored' /\ LoadIsFresh' /\ MirrorExact'
  BY <1>2 DEF FlushedMeansStored, LoadIsFresh, MirrorExact
<1>4. ~cut' => ~cut /\ (pointer # NotJSON \/ useFile)
  BY DEF TypeOK
<1>5. TornIsHeld'
  BY <1>2, <1>4, MissingAssumption DEF TornIsHeld, MirrorExact
<1>6. NextHasFacts'
  BY <1>2, <1>4 DEF NextHasFacts, Has
<1>7. ProcessKeeps
  BY <1>2, NotMissing DEF MirrorExact, ProcessKeeps
<1> QED
  BY <1>1, <1>3, <1>5, <1>6, <1>7

LEMMA NextAlone ==
  ASSUME Alone, IInv, [Next]_vars
  PROVE  IInv' /\ (Next => ProcessKeeps)
<1>1. ASSUME NEW a \in Agents, LoadStep(a) PROVE IInv' /\ ProcessKeeps
  BY <1>1, StartLoadAlone, LoadEndsAlone DEF LoadStep
<1>2. ASSUME NEW a \in Agents, WriteStep(a) PROVE IInv' /\ ProcessKeeps
  BY <1>2, UploadAlone, RewriteAlone, WriteEndsAlone DEF WriteStep
<1>3. CASE Next
  BY <1>1, <1>2, <1>3, BootAlone, RememberAlone, CrashAlone DEF Next
<1>4. CASE UNCHANGED vars
  BY <1>3, <1>4 DEF vars, ghostVars, IInv, ChainInv, TypeOK, ProcessState, OldestWrite, FlushedMeansStored,
                    LoadIsFresh, PointerRead, MirrorExact, TornIsHeld, NextHasFacts, Has
<1> QED
  BY <1>3, <1>4

\* flush(): when the chain of writes has run empty and its last write succeeded, the pointer
\* leads to exactly what the process remembers.
THEOREM FlushStores == ASSUME Alone PROVE Spec => []FlushedMeansStored
<1>1. Init => IInv
  BY InitAlone
<1>2. IInv /\ [Next]_vars => IInv'
  BY Alone, NextAlone
<1>3. IInv => FlushedMeansStored
  BY DEF IInv
<1> QED
  BY <1>1, <1>2, <1>3, PTL DEF Spec, Safe

\* No fact that the pointer ever led to is forgotten, over failed uploads, rewrites of the
\* pointer file that are cut short and restarts, unless the limit drops it; until a read has
\* failed, and unless a process without a cacheFile ends while the pointer file is torn.
THEOREM PriorFactsStay == ASSUME Alone PROVE Spec => []PriorFactsPersist
<1>1. Init => IInv
  BY InitAlone
<1>2. IInv /\ [Next]_vars => IInv'
  BY Alone, NextAlone
<1>3. IInv => PriorFactsPersist
  BY HeldIsFound DEF IInv
<1> QED
  BY <1>1, <1>2, <1>3, PTL DEF Spec, Safe

\* What remember_fact has returned for is lost neither by a load that ends late nor, with a
\* cacheFile, by an exit at any moment; only the limit drops it.
THEOREM RememberedStay == ASSUME Alone PROVE Spec => RememberedFactsStay
<1>1. Init => IInv
  BY InitAlone
<1>2. IInv /\ [Next]_vars => IInv'
  BY Alone, NextAlone
<1>3. IInv /\ [Next]_vars => [ProcessKeeps]_vars
  BY Alone, NextAlone
<1> QED
  BY <1>1, <1>2, <1>3, PTL DEF Spec, Safe, RememberedFactsStay, ProcessKeeps

-----------------------------------------------------------------------------
(* Agents that share a userId, one process after the other, without cacheFiles. *)

InTurns == ~useFile /\ \A a, b \in Agents : up[a] /\ up[b] => a = b

NoFiles == \A a \in Agents : file[a] = Missing

TurnInv == ChainInv /\ FlushedMeansStored /\ LoadIsFresh /\ TornIsHeld /\ NextHasFacts /\ NoFiles

\* Nothing is left of a process that is down.
Blank(a) == /\ cache[a] = Missing /\ loads[a] = <<>> /\ queue[a] = <<>> /\ lastWrite[a] = "none"
            /\ ~writing[a]

LEMMA OthersBlank ==
  ASSUME ChainInv, InTurns, NEW a \in Agents, up[a], NEW b \in Agents, b # a
  PROVE  Blank(b)
<1>1. ~up[b]
  BY DEF InTurns
<1> QED
  BY <1>1 DEF ChainInv, ProcessState, Blank

LEMMA BootInTurns ==
  ASSUME TurnInv, InTurns, InTurns', NEW a \in Agents, Boot(a)
  PROVE  TurnInv'
<1> USE DEF TurnInv, ChainInv, Boot, ghostVars
<1>1. ChainInv'
  BY BootChain
<1>2. Blank(a) /\ cache' = [cache EXCEPT ![a] = Missing]
  BY DEF TypeOK, ProcessState, Blank, NoFiles
<1>3. ASSUME NEW b \in Agents, b # a
      PROVE  Blank(b)
  <2>1. up'[a] /\ up'[b] = up[b]
    BY <1>3 DEF TypeOK
  <2>2. ~up[b]
    BY <1>3, <2>1 DEF InTurns
  <2> QED
    BY <2>2 DEF ProcessState, Blank
<1>4. \A b \in Agents : Blank(b) /\ cache'[b] = Missing
  BY <1>2, <1>3 DEF Blank, TypeOK
<1>5. cache' = cache
  BY <1>2, <1>4 DEF Blank, TypeOK
<1>6. FlushedMeansStored' /\ LoadIsFresh' /\ TornIsHeld' /\ NextHasFacts' /\ NoFiles'
  BY <1>4, <1>5 DEF FlushedMeansStored, LoadIsFresh, TornIsHeld, NextHasFacts, Has, NoFiles, Blank
<1> QED
  BY <1>1, <1>6

LEMMA StartLoadInTurns ==
  ASSUME TurnInv, InTurns, NEW a \in Agents, StartLoad(a)
  PROVE  TurnInv'
<1>1. ChainInv' /\ loads' = [loads EXCEPT ![a] = <<PointerRead>>]
  BY StartLoadChain DEF TurnInv
<1> USE DEF TurnInv, ChainInv, StartLoad, ghostVars
<1>2. LoadIsFresh'
  <2>1. /\ loads'[a] = <<PointerRead>> /\ <<PointerRead>>[1] = PointerRead /\ PointerRead' = PointerRead
        /\ \A b \in Agents : b # a => loads'[b] = loads[b]
    BY <1>1 DEF TypeOK, PointerRead
  <2> QED
    BY <2>1 DEF LoadIsFresh
<1>3. FlushedMeansStored' /\ TornIsHeld' /\ NextHasFacts' /\ NoFiles'
  BY DEF FlushedMeansStored, TornIsHeld, NextHasFacts, Has, NoFiles
<1> QED
  BY <1>1, <1>2, <1>3

LEMMA LoadEndsInTurns ==
  ASSUME TurnInv, InTurns, NEW a \in Agents, NEW i, EndLoad(a, i) \/ FailLoad(a, i)
  PROVE  TurnInv'
<1>1. /\ ChainInv' /\ up[a] /\ cache[a] = Missing /\ queue[a] = <<>> /\ lastWrite[a] = "none"
      /\ loads[a] # <<>> /\ i = 1 /\ loads' = [loads EXCEPT ![a] = <<>>]
      /\ cache'[a] \in FactLists
  BY LoadEndsChain DEF TurnInv
<1> USE DEF TurnInv, ChainInv
<1>2. /\ UNCHANGED <<useFile, up, queue, file, pointer, writing, evicted, lastWrite, stored, cut>>
      /\ hiccup' \/ (hiccup' = hiccup /\ cache'[a] = IF PointerRead = Missing THEN <<>> ELSE PointerRead)
      /\ hiccup => hiccup'
      /\ \A b \in Agents : b # a => cache'[b] = cache[b] /\ loads'[b] = loads[b]
      /\ loads'[a] = <<>>
  BY <1>1 DEF EndLoad, FailLoad, LoadIsFresh, TypeOK, ghostVars
<1>3. \A b \in Agents : b # a => Blank(b)
  BY <1>1, OthersBlank
<1>4. LoadIsFresh' /\ FlushedMeansStored' /\ NoFiles'
  BY <1>1, <1>2, <1>3 DEF FlushedMeansStored, LoadIsFresh, NoFiles, Blank
<1>5. pointer = NotJSON => cut
  BY <1>1, <1>3 DEF TornIsHeld, InTurns, Blank
<1>6. TornIsHeld'
  BY <1>2, <1>5 DEF TornIsHeld
<1>7. NextHasFacts'
  <2>1. ~hiccup' /\ ~cut => FactsIn(cache'[a]) = FactsIn(pointer)
    BY <1>2, <1>5, NotMissing DEF PointerRead
  <2>2. ~hiccup' /\ ~cut => Has(pointer) /\ Has(cache'[a])
    BY <1>2, <1>5, <2>1 DEF NextHasFacts, Has
  <2> QED
    BY <1>1, <1>2, <1>3, <2>2 DEF NextHasFacts, Has, NoFiles, Blank
<1> QED
  BY <1>1, <1>4, <1>6, <1>7

LEMMA RememberInTurns ==
  ASSUME TurnInv, InTurns, NEW a \in Agents, NEW f \in Facts, Remember(a, f)
  PROVE  TurnInv'
<1>1. /\ ChainInv' /\ cache[a] \in FactLists /\ cache'[a] \in FactLists
      /\ evicted' = evicted \cup (FactsIn(cache[a]) \ FactsIn(cache'[a]))
      /\ file' = IF useFile THEN [file EXCEPT ![a] = cache'[a]] ELSE file
      /\ queue'[a] # <<>> /\ (queue[a] = <<>> => queue'[a][1] = Missing)
      /\ queue[a] # <<>> => queue'[a][1] = queue[a][1]
  BY RememberChain DEF TurnInv
<1> USE DEF TurnInv, ChainInv
<1>2. /\ up[a] /\ UNCHANGED <<useFile, up, loads, pointer, writing, lastWrite, hiccup, stored, cut>> /\ file' = file
      /\ \A b \in Agents : b # a => cache'[b] = cache[b] /\ queue'[b] = queue[b]
  BY <1>1 DEF Remember, InTurns, TypeOK, ghostVars
<1>3. \A b \in Agents : b # a => Blank(b)
  BY <1>2, OthersBlank
<1>4. LoadIsFresh' /\ FlushedMeansStored' /\ NoFiles'
  BY <1>1, <1>2, <1>3 DEF FlushedMeansStored, LoadIsFresh, PointerRead, NoFiles, Blank
<1>5. FactsIn(cache[a]) \subseteq FactsIn(cache'[a]) \cup evicted' /\ evicted \subseteq evicted'
  BY <1>1
<1>6. cache[a] # Missing /\ cache'[a] # Missing
  BY <1>1, NotMissing
<1>7. TornIsHeld'
  BY <1>6 DEF TornIsHeld
<1>8. NextHasFacts'
  <2> SUFFICES ASSUME ~hiccup, ~cut PROVE NextHasFacts'
    BY <1>2 DEF NextHasFacts
  <2>1. stored \subseteq FactsIn(cache'[a]) \cup evicted'
    BY <1>5, <1>6 DEF NextHasFacts, Has
  <2>2. queue'[a][1] # Missing =>
          /\ stored \subseteq FactsIn(queue'[a][1]) \cup evicted'
          /\ FactsIn(queue'[a][1]) \subseteq FactsIn(cache'[a]) \cup evicted'
    BY <1>1, <1>5 DEF NextHasFacts, Has
  <2>3. \A b \in Agents : b # a => cache'[b] = Missing /\ queue'[b] = <<>>
    BY <1>2, <1>3 DEF Blank
  <2>4. pointer # NotJSON => stored \subseteq FactsIn(pointer) \cup evicted'
    BY <1>5 DEF NextHasFacts, Has
  <2> QED
    BY <1>2, <1>4, <2>1, <2>2, <2>3, <2>4 DEF NextHasFacts, Has, NoFiles
<1> QED
  BY <1>1, <1>4, <1>7, <1>8

LEMMA UploadInTurns ==
  ASSUME TurnInv, InTurns, NEW a \in Agents, NEW i, Upload(a, i)
  PROVE  TurnInv'
<1>1. ChainInv' /\ queue[a] # <<>> /\ queue'[a] # <<>> /\ queue'[a][1] = cache[a]
  BY UploadChain DEF TurnInv
<1> USE DEF TurnInv, ChainInv
<1>2. /\ up[a]
      /\ UNCHANGED <<useFile, up, cache, loads, file, pointer, writing, evicted, lastWrite, hiccup, stored, cut>>
      /\ \A b \in Agents : b # a => queue'[b] = queue[b]
  BY DEF Upload, TypeOK, ghostVars
<1>3. FlushedMeansStored' /\ LoadIsFresh' /\ TornIsHeld' /\ NextHasFacts' /\ NoFiles'
  BY <1>1, <1>2 DEF FlushedMeansStored, LoadIsFresh, PointerRead, TornIsHeld, NextHasFacts, Has, NoFiles
<1> QED
  BY <1>1, <1>3

LEMMA RewriteInTurns ==
  ASSUME TurnInv, InTurns, NEW a \in Agents, NEW i, RewritePointers(a, i)
  PROVE  TurnInv'
<1>1. /\ ChainInv' /\ queue[a] # <<>> /\ cache[a] # Missing /\ up[a] /\ pointer' = NotJSON
      /\ UNCHANGED <<useFile, up, cache, loads, queue, file, evicted, lastWrite, hiccup, stored, cut>>
  BY RewriteChain DEF TurnInv
<1> USE DEF TurnInv, ChainInv
<1>2. loads[a] = <<>> /\ \A b \in Agents : b # a => Blank(b)
  BY <1>1, OthersBlank DEF ProcessState
<1>3. FlushedMeansStored' /\ LoadIsFresh'
  BY <1>1, <1>2 DEF FlushedMeansStored, LoadIsFresh, Blank
<1>4. TornIsHeld' /\ NextHasFacts' /\ NoFiles'
  BY <1>1 DEF TornIsHeld, NextHasFacts, Has, NoFiles
<1> QED
  BY <1>1, <1>3, <1>4

LEMMA WriteEndsInTurns ==
  ASSUME TurnInv, InTurns, NEW a \in Agents, NEW i, MovePointer(a, i) \/ FailWrite(a, i)
  PROVE  TurnInv'
<1>1. /\ ChainInv' /\ queue[a] # <<>> /\ cache[a] # Missing
      /\ MovePointer(a, i) => /\ queue[a][1] # Missing /\ queue[a][1] \in FactLists
                              /\ pointer' = queue[a][1] \/ \E b \in Agents \ {a} : writing[b]
                              /\ stored' = stored \cup FactsIn(pointer')
      /\ queue'[a] # <<>> => queue'[a][1] = Missing
      /\ queue'[a] = <<>> => Len(queue[a]) = 1
  BY WriteEndsChain DEF TurnInv
<1> USE DEF TurnInv, ChainInv
<1>2. /\ UNCHANGED <<useFile, up, cache, loads, file, evicted, hiccup, cut>>
      /\ \A b \in Agents : b # a => queue'[b] = queue[b] /\ lastWrite'[b] = lastWrite[b]
  BY DEF MovePointer, FailWrite, TypeOK, ghostVars
<1>3. loads[a] = <<>> /\ up[a]
  BY <1>1 DEF ProcessState
<1>4. \A b \in Agents : b # a => Blank(b)
  BY <1>3, OthersBlank
<1>5. \/ pointer' = queue[a][1] /\ queue[a][1] # Missing /\ stored' = stored \cup FactsIn(queue[a][1])
      \/ UNCHANGED <<pointer, stored>> /\ lastWrite' = [lastWrite EXCEPT ![a] = "failed"]
  BY <1>1, <1>4 DEF FailWrite, ghostVars, Blank
<1>6. FlushedMeansStored' /\ LoadIsFresh' /\ NoFiles'
  <2>1. queue'[a] = <<>> /\ lastWrite'[a] = "ok" => pointer' = cache[a]
    BY <1>1, <1>5 DEF TypeOK, OldestWrite
  <2>2. \A b \in Agents : b # a => lastWrite'[b] = "none"
    BY <1>2, <1>4 DEF Blank
  <2>3. \A b \in Agents : loads'[b] = <<>>
    BY <1>2, <1>3, <1>4 DEF Blank
  <2> QED
    BY <1>2, <2>1, <2>2, <2>3 DEF FlushedMeansStored, LoadIsFresh, NoFiles
<1>7. TornIsHeld'
  BY <1>1, <1>2 DEF TornIsHeld
<1>8. NextHasFacts'
  <2> SUFFICES ASSUME ~hiccup, ~cut PROVE NextHasFacts'
    BY <1>2 DEF NextHasFacts
  <2>1. \A b \in Agents : b # a => cache'[b] = Missing /\ queue'[b] = <<>>
    BY <1>2, <1>4 DEF Blank
  <2>2. CASE UNCHANGED <<pointer, stored>>
    BY <1>1, <1>2, <1>6, <2>1, <2>2 DEF NextHasFacts, Has, NoFiles
  <2>3. CASE pointer' = queue[a][1] /\ queue[a][1] # Missing /\ stored' = stored \cup FactsIn(queue[a][1])
    <3>1. Has(pointer)' /\ Has(cache[a])'
      BY <1>1, <1>2, <2>3 DEF NextHasFacts, Has
    <3> QED
      BY <1>1, <1>2, <1>6, <2>1, <3>1 DEF NextHasFacts, NoFiles
  <2> QED
    BY <1>5, <2>2, <2>3
<1> QED
  BY <1>1, <1>6, <1>7, <1>8

LEMMA CrashInTurns ==
  ASSUME TurnInv, InTurns, NEW a \in Agents, Crash(a)
  PROVE  TurnInv'
<1>1. ChainInv'
  BY CrashChain DEF TurnInv
<1> USE DEF TurnInv, ChainInv, Crash
<1>2. /\ cache'[a] = Missing /\ loads'[a] = <<>> /\ queue'[a] = <<>> /\ lastWrite'[a] = "none"
      /\ UNCHANGED <<useFile, file, pointer, evicted, hiccup, stored>>
      /\ cut' = (cut \/ pointer = NotJSON)
      /\ \A b \in Agents : b # a => /\ cache'[b] = cache[b] /\ loads'[b] = loads[b] /\ queue'[b] = queue[b]
                                    /\ lastWrite'[b] = lastWrite[b]
  BY DEF TypeOK, InTurns
<1>3. FlushedMeansStored' /\ LoadIsFresh' /\ NoFiles'
  BY <1>2 DEF FlushedMeansStored, LoadIsFresh, PointerRead, NoFiles
<1>4. ~cut' => ~cut /\ pointer # NotJSON
  <2>1. ~useFile
    BY DEF InTurns
  <2> QED
    BY <2>1 DEF TypeOK
<1>5. TornIsHeld'
  BY <1>2, <1>4 DEF TornIsHeld
<1>6. NextHasFacts'
  BY <1>2, <1>4 DEF NextHasFacts, Has
<1> QED
  BY <1>1, <1>3, <1>5, <1>6

LEMMA NextInTurns ==
  ASSUME TurnInv, InTurns, InTurns', [Next]_vars
  PROVE  TurnInv'
<1>1. ASSUME NEW a \in Agents, LoadStep(a) PROVE TurnInv'
  BY <1>1, StartLoadInTurns, LoadEndsInTurns DEF LoadStep
<1>2. ASSUME NEW a \in Agents, WriteStep(a) PROVE TurnInv'
  BY <1>2, UploadInTurns, RewriteInTurns, WriteEndsInTurns DEF WriteStep
<1>3. CASE Next
  BY <1>1, <1>2, <1>3, BootInTurns, RememberInTurns, CrashInTurns DEF Next
<1>4. CASE UNCHANGED vars
  BY <1>4 DEF vars, ghostVars, TurnInv, ChainInv, TypeOK, ProcessState, OldestWrite, FlushedMeansStored,
              LoadIsFresh, PointerRead, TornIsHeld, NextHasFacts, Has, NoFiles
<1> QED
  BY <1>3, <1>4

LEMMA InitInTurns == Init => TurnInv
<1>1. Init => pointer # NotJSON /\ stored = {} /\ \A a \in Agents : queue[a] = <<>>
  BY MissingAssumption DEF Init
<1> QED
  BY <1>1, InitChain DEF Init, TurnInv, FlushedMeansStored, LoadIsFresh, TornIsHeld, NextHasFacts, Has, NoFiles

\* Of agents that share a userId, as long as each starts when the one before it has ended and
\* none has a cacheFile: what one of them has stored is there for the others.  (With a
\* cacheFile an agent begins with its own old list; side by side, each has its own cache.)
THEOREM SharedInTurns == Safe /\ []InTurns => []StoredIsShared
<1>1. Init => TurnInv
  BY InitInTurns
<1>2. TurnInv /\ InTurns /\ InTurns' /\ [Next]_vars => TurnInv'
  BY NextInTurns
<1>3. TurnInv => StoredIsShared
  BY DEF TurnInv, FlushedMeansStored, StoredIsShared
<1> QED
  BY <1>1, <1>2, <1>3, PTL DEF Safe

\* And no write of one of them drops what another has stored, nor does a rewrite of the
\* pointer file that fails half-way; until a read has failed, or an agent has ended while the
\* file was torn.
THEOREM SharedFactsStay == Safe /\ []InTurns => []PriorFactsPersist
<1>1. Init => TurnInv
  BY InitInTurns
<1>2. TurnInv /\ InTurns /\ InTurns' /\ [Next]_vars => TurnInv'
  BY NextInTurns
<1>3. TurnInv => PriorFactsPersist
  BY HeldIsFound DEF TurnInv
<1> QED
  BY <1>1, <1>2, <1>3, PTL DEF Safe

-----------------------------------------------------------------------------
(* The JSON vector store. *)

\* A process is in a phase by its oldest add.
LEMMA PhaseIs ==
  ASSUME VecTypeOK, OldestAdd, NEW p \in Processes, NEW phases, "queued" \notin phases
  PROVE  InPhase(p, phases) <=> adds[p] # <<>> /\ adds[p][1].at \in phases
<1>1. adds[p] \in Seq(AddRecords)
  BY DEF VecTypeOK
<1>2. adds[p] # <<>> => 1 \in DOMAIN adds[p]
  BY <1>1
<1>3. adds[p] = <<>> => DOMAIN adds[p] = {}
  OBVIOUS
<1> QED
  BY <1>2, <1>3 DEF OldestAdd, InPhase

LEMMA ParsedIs == ASSUME VecTypeOK PROVE Parsed(disk) \in SUBSET Memories
<1>1. {} \in SUBSET Memories /\ (disk # Torn => disk \in SUBSET Memories)
  BY DEF VecTypeOK
<1> QED
  BY <1>1 DEF Parsed

\* An add goes on: the oldest one, and nothing else of the chain.
LEMMA GoesIs ==
  ASSUME VecTypeOK, OldestAdd, NEW p \in Processes, NEW i, NEW from, At(p, i, from),
         NEW to \in {"reading", "saving", "writing"}, NEW text \in SUBSET Memories, Goes(p, i, to, text)
  PROVE  /\ i = 1 /\ adds[p] # <<>> /\ adds[p][1] \in AddRecords /\ adds[p][1].at = from
         /\ adds' \in [Processes -> Seq(AddRecords)] /\ OldestAdd'
         /\ adds'[p] # <<>> /\ adds'[p][1] = [memory |-> adds[p][1].memory, at |-> to, text |-> text]
         /\ \A q \in Processes : q # p => adds'[q] = adds[q]
<1> DEFINE new == [memory |-> adds[p][1].memory, at |-> to, text |-> text]
           chain == [adds[p] EXCEPT ![1] = new]
<1>1. /\ i = 1 /\ adds[p] \in Seq(AddRecords) /\ 1 \in DOMAIN adds[p] /\ adds[p][1].at = from
      /\ adds \in [Processes -> Seq(AddRecords)]
  BY DEF VecTypeOK, At, Chained
<1>2. adds[p][1] \in AddRecords /\ new \in AddRecords /\ adds[p] # <<>>
  <2>1. adds[p][1] \in AddRecords
    BY <1>1
  <2> QED
    BY <1>1, <2>1 DEF AddRecords
<1>3. adds' = [adds EXCEPT ![p] = chain]
  <2>1. adds[p][1] = [memory |-> adds[p][1].memory, at |-> adds[p][1].at, text |-> adds[p][1].text]
    BY <1>2 DEF AddRecords
  <2> DEFINE moved == [adds EXCEPT ![p] = [adds[p] EXCEPT ![1] = [adds[p][1] EXCEPT !.at = to]]]
  <2>2. [adds[p][1] EXCEPT !.at = to] = [memory |-> adds[p][1].memory, at |-> to, text |-> adds[p][1].text]
    BY <2>1
  <2>3. moved[p] = [adds[p] EXCEPT ![1] = [adds[p][1] EXCEPT !.at = to]]
    BY <1>1
  <2>4. moved[p][1] = [memory |-> adds[p][1].memory, at |-> to, text |-> adds[p][1].text]
    BY <1>1, <2>2, <2>3
  <2>5. adds' = [moved EXCEPT ![p] = [moved[p] EXCEPT ![1] = [moved[p][1] EXCEPT !.text = text]]]
    BY <1>1 DEF Goes
  <2>6. [moved[p][1] EXCEPT !.text = text] = new
    BY <2>4
  <2>7. [moved[p] EXCEPT ![1] = new] = chain
    BY <1>1, <2>3
  <2>8. adds' = [moved EXCEPT ![p] = chain]
    BY <2>5, <2>6, <2>7
  <2> QED
    BY <1>1, <2>8
<1>4. /\ chain \in Seq(AddRecords) /\ Len(chain) = Len(adds[p]) /\ chain[1] = new /\ chain # <<>>
      /\ \A j \in DOMAIN chain : j # 1 => chain[j] = adds[p][j] /\ j \in DOMAIN adds[p]
  <2> HIDE DEF new
  <2> QED
    BY <1>1, <1>2
<1> HIDE DEF chain
<1>5. adds'[p] = chain /\ \A q \in Processes : q # p => adds'[q] = adds[q]
  BY <1>1, <1>3
<1>6. OldestAdd'
  BY <1>4, <1>5 DEF OldestAdd
<1> QED
  BY <1>1, <1>2, <1>3, <1>4, <1>5, <1>6

\* An add leaves the chain, and the next one is still to begin.
LEMMA DropIs ==
  ASSUME VecTypeOK, OldestAdd, NEW p \in Processes, NEW i, NEW from, At(p, i, from), Drop(p, i)
  PROVE  /\ i = 1 /\ adds[p] # <<>> /\ adds[p][1] \in AddRecords /\ adds[p][1].at = from
         /\ adds' \in [Processes -> Seq(AddRecords)] /\ OldestAdd'
         /\ adds'[p] # <<>> => adds'[p][1].at = "queued"
         /\ \A q \in Processes : q # p => adds'[q] = adds[q]
<1>1. /\ i = 1 /\ adds[p] \in Seq(AddRecords) /\ 1 \in DOMAIN adds[p] /\ adds[p][1].at = from
      /\ adds \in [Processes -> Seq(AddRecords)]
  BY DEF VecTypeOK, At, Chained
<1>2. adds[p][1] \in AddRecords /\ adds[p] # <<>>
  BY <1>1
<1> DEFINE rest == RemoveAt(adds[p], 1)
<1>3. /\ rest \in Seq(AddRecords)
      /\ \A j \in DOMAIN rest : j + 1 \in DOMAIN adds[p] /\ j + 1 # 1 /\ rest[j] = adds[p][j + 1]
  BY <1>1, DropFirst
<1>4. adds' = [adds EXCEPT ![p] = rest]
  BY <1>1 DEF Drop
<1> HIDE DEF rest
<1>5. adds'[p] = rest /\ \A q \in Processes : q # p => adds'[q] = adds[q]
  BY <1>1, <1>4
<1>6. \A j \in DOMAIN rest : rest[j].at = "queued"
  BY <1>3 DEF OldestAdd
<1>7. OldestAdd'
  BY <1>5, <1>6 DEF OldestAdd
<1>8. rest # <<>> => 1 \in DOMAIN rest
  BY <1>3
<1> QED
  BY <1>1, <1>2, <1>3, <1>4, <1>5, <1>6, <1>7, <1>8

LEMMA InitVec == VecInit => VecInv
<1> SUFFICES ASSUME VecInit PROVE VecInv
  OBVIOUS
<1> USE DEF VecInit
<1>1. <<>> \in Seq(AddRecords) /\ <<>> \in Seq(SUBSET Memories) /\ DOMAIN <<>> = {}
  OBVIOUS
<1>2. disk # Torn
  BY TornAssumption
<1>3. VecTypeOK
  BY <1>1 DEF VecTypeOK
<1>4. OldestAdd /\ OneAtTheFile /\ CarriesSaved
  BY <1>1, <1>2 DEF OldestAdd, OneAtTheFile, CarriesSaved, UnderWay, Writing
<1> QED
  BY <1>3, <1>4 DEF VecInv

\* Busy and InPhase speak of the oldest adds.
LEMMA BusyIs ==
  ASSUME VecTypeOK, OldestAdd, NEW p \in Processes
  PROVE  (Busy(p) <=> UnderWay(p)) /\ (InPhase(p, {"writing"}) <=> Writing(p))
<1>1. adds[p] # <<>> => adds[p][1] \in AddRecords
  BY DEF VecTypeOK
<1>2. Busy(p) <=> adds[p] # <<>> /\ adds[p][1].at \in {"reading", "saving", "writing"}
  BY PhaseIs DEF Busy
<1>3. InPhase(p, {"writing"}) <=> Writing(p)
  BY PhaseIs DEF Writing
<1> QED
  BY <1>1, <1>2, <1>3 DEF AddRecords, UnderWay

LEMMA FirstUseVec ==
  ASSUME VecInv, NEW p \in Processes, FirstUse(p)
  PROVE  VecInv'
<1> USE DEF VecInv, FirstUse
<1>1. VecTypeOK'
  <2>1. Append(reads[p], Parsed(disk)) \in Seq(SUBSET Memories)
    BY ParsedIs DEF VecTypeOK
  <2> QED
    BY <2>1 DEF VecTypeOK
<1>2. OldestAdd' /\ OneAtTheFile' /\ CarriesSaved'
  BY DEF OldestAdd, OneAtTheFile, CarriesSaved, UnderWay, Writing
<1> QED
  BY <1>1, <1>2

\* The first read replaces the items: harmless unless an add is about to write them.
LEMMA EndFirstUseVec ==
  ASSUME VecInv, NEW p \in Processes, NEW i, EndFirstUse(p, i)
  PROVE  VecInv'
<1> USE DEF VecInv
<1>1. /\ reads[p][i] \in SUBSET Memories /\ RemoveAt(reads[p], i) \in Seq(SUBSET Memories)
      /\ items' = [items EXCEPT ![p] = reads[p][i]]
      /\ UNCHANGED <<disk, adds, saved>>
      /\ hurt' \in BOOLEAN /\ (~hurt' => ~hurt /\ ~InPhase(p, {"saving"}))
  <2>1. reads[p] \in Seq(SUBSET Memories) /\ i \in DOMAIN reads[p]
    BY DEF EndFirstUse, VecTypeOK
  <2>2. RemoveAt(reads[p], i) \in Seq(SUBSET Memories)
    BY <2>1, RemoveAtIs
  <2>3. reads[p][i] \in SUBSET Memories
    BY <2>1
  <2> QED
    BY <2>2, <2>3 DEF EndFirstUse, VecTypeOK
<1>2. VecTypeOK'
  BY <1>1 DEF EndFirstUse, VecTypeOK
<1>3. OldestAdd' /\ OneAtTheFile'
  BY <1>1 DEF OldestAdd, OneAtTheFile, UnderWay, Writing
<1>4. CarriesSaved'
  <2>1. ~hurt' => ~(adds[p] # <<>> /\ adds[p][1].at = "saving")
    BY <1>1, PhaseIs
  <2> QED
    BY <1>1, <2>1 DEF CarriesSaved, VecTypeOK
<1> QED
  BY <1>2, <1>3, <1>4

LEMMA IngestVec ==
  ASSUME VecInv, NEW p \in Processes, NEW m \in Memories, Ingest(p, m)
  PROVE  VecInv'
<1> USE DEF VecInv
<1> DEFINE new == [memory |-> m, at |-> "queued", text |-> {}]
           chain == Append(adds[p], new)
<1>1. /\ adds[p] \in Seq(AddRecords) /\ adds' = [adds EXCEPT ![p] = chain]
      /\ UNCHANGED <<disk, items, ready, reads, saved, hurt>>
  BY DEF Ingest, VecTypeOK
<1>2. new \in AddRecords /\ new.at = "queued"
  BY DEF AddRecords
<1> HIDE DEF new
<1>3. /\ chain \in Seq(AddRecords) /\ Len(chain) = Len(adds[p]) + 1 /\ chain[Len(chain)] = new
      /\ \A j \in DOMAIN adds[p] : chain[j] = adds[p][j]
  BY <1>1, <1>2
<1> HIDE DEF chain
<1>4. adds'[p] = chain /\ \A q \in Processes : q # p => adds'[q] = adds[q]
  BY <1>1 DEF VecTypeOK
<1>5. VecTypeOK'
  BY <1>1, <1>3 DEF VecTypeOK
<1>6. OldestAdd'
  <2>1. \A j \in DOMAIN chain : j # 1 => chain[j].at = "queued"
    BY <1>1, <1>2, <1>3 DEF OldestAdd
  <2> QED
    BY <1>4, <2>1 DEF OldestAdd
<1>7. /\ chain # <<>> /\ (adds[p] = <<>> => chain[1].at = "queued")
      /\ adds[p] # <<>> => chain[1] = adds[p][1]
  BY <1>1, <1>2, <1>3
<1>8. OneAtTheFile'
  <2>1. \A q \in Processes : UnderWay(q)' = UnderWay(q) /\ Writing(q)' = Writing(q)
    BY <1>2, <1>4, <1>7 DEF UnderWay, Writing
  <2> QED
    BY <1>1, <2>1 DEF OneAtTheFile
<1>9. CarriesSaved'
  BY <1>1, <1>4, <1>7 DEF CarriesSaved
<1> QED
  BY <1>5, <1>6, <1>8, <1>9

\* While the file is not hurt, an add that is under way is the only one.
LEMMA Only ==
  ASSUME VecInv, ~hurt, NEW p \in Processes, UnderWay(p)
  PROVE  \A q \in Processes : q # p => ~UnderWay(q) /\ ~Writing(q)
  BY DEF VecInv, OneAtTheFile, UnderWay, Writing

\* The add begins with all that is saved, or the file is hurt by another that is under way.
LEMMA ReadVec ==
  ASSUME VecInv, NEW p \in Processes, NEW i, Read(p, i)
  PROVE  VecInv'
<1> USE DEF VecInv
<1>1. /\ At(p, i, "queued") /\ Goes(p, i, "reading", Parsed(disk))
      /\ hurt' = (hurt \/ \E q \in Processes \ {p} : Busy(q))
      /\ UNCHANGED <<disk, items, ready, reads, saved>>
  BY DEF Read
<1>2. /\ adds[p] # <<>> /\ adds[p][1].at = "queued"
      /\ adds' \in [Processes -> Seq(AddRecords)] /\ OldestAdd'
      /\ adds'[p] # <<>> /\ adds'[p][1] = [memory |-> adds[p][1].memory, at |-> "reading", text |-> Parsed(disk)]
      /\ \A q \in Processes : q # p => adds'[q] = adds[q]
  BY <1>1, ParsedIs, GoesIs
<1>3. VecTypeOK'
  <2>1. hurt' \in BOOLEAN
    BY <1>1 DEF VecTypeOK
  <2> QED
    BY <1>1, <1>2, <2>1 DEF VecTypeOK
<1>4. ~hurt' => ~hurt /\ disk # Torn /\ \A q \in Processes : ~UnderWay(q) /\ ~Writing(q)
  <2>1. ~UnderWay(p)
    BY <1>2 DEF UnderWay
  <2>2. ~hurt' => ~hurt /\ \A q \in Processes \ {p} : ~UnderWay(q)
    BY <1>1, BusyIs
  <2>3. \A q \in Processes : Writing(q) => UnderWay(q)
    BY DEF UnderWay, Writing
  <2> QED
    BY <2>1, <2>2, <2>3 DEF OneAtTheFile
<1>5. \A q \in Processes : q # p => UnderWay(q)' = UnderWay(q) /\ Writing(q)' = Writing(q)
  BY <1>2 DEF UnderWay, Writing
<1>6. adds'[p][1].at = "reading" /\ adds'[p][1].text = Parsed(disk) /\ ~Writing(p)'
  BY <1>2 DEF Writing
<1>7. OneAtTheFile'
  BY <1>1, <1>4, <1>5, <1>6 DEF OneAtTheFile
<1>8. CarriesSaved'
  <2>1. ~hurt' => saved \subseteq Parsed(disk) /\ saved \subseteq disk
    BY <1>4 DEF CarriesSaved, Parsed
  <2> QED
    BY <1>1, <1>2, <1>4, <1>6, <2>1 DEF CarriesSaved
<1> QED
  BY <1>2, <1>3, <1>7, <1>8

LEMMA PushItemVec ==
  ASSUME VecInv, NEW p \in Processes, NEW i, PushItem(p, i)
  PROVE  VecInv'
<1> USE DEF VecInv
<1>1. /\ At(p, i, "reading") /\ Goes(p, i, "saving", {}) /\ {} \in SUBSET Memories
      /\ UNCHANGED <<disk, ready, reads, saved, hurt>>
  BY DEF PushItem
<1>2. /\ i = 1 /\ adds[p] # <<>> /\ adds[p][1] \in AddRecords /\ adds[p][1].at = "reading"
      /\ adds' \in [Processes -> Seq(AddRecords)] /\ OldestAdd'
      /\ adds'[p] # <<>> /\ adds'[p][1] = [memory |-> adds[p][1].memory, at |-> "saving", text |-> {}]
      /\ \A q \in Processes : q # p => adds'[q] = adds[q]
  BY <1>1, GoesIs
<1>3. /\ items' = [items EXCEPT ![p] = adds[p][1].text \cup {adds[p][1].memory}]
      /\ adds[p][1].text \cup {adds[p][1].memory} \in SUBSET Memories
  BY <1>2 DEF PushItem, AddRecords
<1>4. VecTypeOK'
  BY <1>1, <1>2, <1>3 DEF VecTypeOK
<1>5. items'[p] = adds[p][1].text \cup {adds[p][1].memory} /\ \A q \in Processes : q # p => items'[q] = items[q]
  BY <1>3 DEF VecTypeOK
<1>6. adds'[p][1].at = "saving" /\ adds'[p][1].memory = adds[p][1].memory
  BY <1>2
<1>7. \A q \in Processes : UnderWay(q)' = UnderWay(q) /\ Writing(q)' = Writing(q)
  BY <1>2, <1>6 DEF UnderWay, Writing
<1>8. OneAtTheFile'
  BY <1>1, <1>7 DEF OneAtTheFile
<1>9. CarriesSaved'
  BY <1>1, <1>2, <1>5, <1>6 DEF CarriesSaved
<1> QED
  BY <1>2, <1>4, <1>8, <1>9

LEMMA TruncateVec ==
  ASSUME VecInv, NEW p \in Processes, NEW i, Truncate(p, i)
  PROVE  VecInv'
<1> USE DEF VecInv
<1>1. /\ At(p, i, "saving") /\ Goes(p, i, "writing", items[p]) /\ items[p] \in SUBSET Memories
      /\ disk' = Torn /\ UNCHANGED <<items, ready, reads, saved, hurt>>
  BY DEF Truncate, VecTypeOK
<1>2. /\ adds[p] # <<>> /\ adds[p][1].at = "saving"
      /\ adds' \in [Processes -> Seq(AddRecords)] /\ OldestAdd'
      /\ adds'[p] # <<>> /\ adds'[p][1] = [memory |-> adds[p][1].memory, at |-> "writing", text |-> items[p]]
      /\ \A q \in Processes : q # p => adds'[q] = adds[q]
  BY <1>1, GoesIs
<1>3. VecTypeOK'
  BY <1>1, <1>2 DEF VecTypeOK
<1>4. /\ adds'[p][1].at = "writing" /\ adds'[p][1].memory = adds[p][1].memory /\ adds'[p][1].text = items[p]
  BY <1>2
<1>5. Writing(p)' /\ \A q \in Processes : UnderWay(q)' = UnderWay(q)
  BY <1>2, <1>4 DEF UnderWay, Writing
<1>6. OneAtTheFile'
  BY <1>1, <1>5 DEF OneAtTheFile
<1>7. CarriesSaved'
  BY <1>1, <1>2, <1>4 DEF CarriesSaved
<1> QED
  BY <1>2, <1>3, <1>6, <1>7

\* The write is done: the file has every saved memory, and the new one.
LEMMA WrittenVec ==
  ASSUME VecInv, ~hurt, NEW p \in Processes, NEW i, Written(p, i)
  PROVE  VecInv'
<1> USE DEF VecInv
<1>1. /\ At(p, i, "writing") /\ Drop(p, i) /\ saved' = saved \cup {adds[p][i].memory}
      /\ UNCHANGED <<items, ready, reads, hurt>>
  BY DEF Written
<1>2. /\ i = 1 /\ adds[p] # <<>> /\ adds[p][1] \in AddRecords /\ adds[p][1].at = "writing"
      /\ adds' \in [Processes -> Seq(AddRecords)] /\ OldestAdd'
      /\ adds'[p] # <<>> => adds'[p][1].at = "queued"
      /\ \A q \in Processes : q # p => adds'[q] = adds[q]
  BY <1>1, DropIs
<1>3. Writing(p) /\ UnderWay(p)
  BY <1>2 DEF Writing, UnderWay
<1>4. \A q \in Processes : q # p => ~UnderWay(q) /\ ~Writing(q)
  BY <1>3, Only
<1>5. disk' = adds[p][1].text /\ adds[p][1].text \in SUBSET Memories /\ adds[p][1].memory \in Memories
  BY <1>2, <1>4, BusyIs DEF Written, AddRecords
<1>6. disk' # Torn
  BY <1>5, TornAssumption
<1>7. VecTypeOK'
  BY <1>1, <1>2, <1>5 DEF VecTypeOK
<1>8. \A q \in Processes : ~UnderWay(q)' /\ ~Writing(q)'
  BY <1>2, <1>4 DEF UnderWay, Writing
<1>9. OneAtTheFile'
  BY <1>6, <1>8 DEF OneAtTheFile
<1>10. CarriesSaved'
  <2>1. saved' \subseteq disk'
    BY <1>1, <1>2, <1>5 DEF CarriesSaved
  <2>2. \A q \in Processes : adds'[q] # <<>> => adds'[q][1].at = "queued"
    BY <1>8 DEF UnderWay
  <2> QED
    BY <2>1, <2>2 DEF CarriesSaved
<1> QED
  BY <1>2, <1>7, <1>9, <1>10

LEMMA AddFailsVec ==
  ASSUME VecInv, NEW p \in Processes, NEW i, AddFails(p, i)
  PROVE  VecInv'
<1> USE DEF VecInv
<1>1. PICK at \in {"reading", "saving", "writing"} : At(p, i, at)
  BY DEF AddFails
<1>2. Drop(p, i) /\ hurt' = (hurt \/ adds[p][i].at = "writing") /\ UNCHANGED <<disk, items, ready, reads, saved>>
  BY DEF AddFails
<1>3. /\ i = 1 /\ adds[p] # <<>>
      /\ adds' \in [Processes -> Seq(AddRecords)] /\ OldestAdd'
      /\ adds'[p] # <<>> => adds'[p][1].at = "queued"
      /\ \A q \in Processes : q # p => adds'[q] = adds[q]
  BY <1>1, <1>2, DropIs
<1>4. VecTypeOK'
  <2>1. hurt' \in BOOLEAN
    BY <1>2 DEF VecTypeOK
  <2> QED
    BY <1>2, <1>3, <2>1 DEF VecTypeOK
<1>5. /\ ~UnderWay(p)' /\ ~Writing(p)'
      /\ \A q \in Processes : q # p => UnderWay(q)' = UnderWay(q) /\ Writing(q)' = Writing(q)
  BY <1>3 DEF UnderWay, Writing
<1>6. ~hurt' => ~hurt /\ ~Writing(p)
  BY <1>2, <1>3 DEF Writing
<1>7. OneAtTheFile'
  BY <1>2, <1>5, <1>6 DEF OneAtTheFile
<1>8. CarriesSaved'
  BY <1>2, <1>3, <1>6 DEF CarriesSaved
<1> QED
  BY <1>3, <1>4, <1>7, <1>8

LEMMA RestartVec ==
  ASSUME VecInv, NEW p \in Processes, Restart(p)
  PROVE  VecInv'
<1> USE DEF VecInv
<1>1. /\ items' = [items EXCEPT ![p] = {}] /\ ready' = [ready EXCEPT ![p] = FALSE]
      /\ reads' = [reads EXCEPT ![p] = <<>>] /\ adds' = [adds EXCEPT ![p] = <<>>]
      /\ hurt' = (hurt \/ InPhase(p, {"writing"})) /\ UNCHANGED <<disk, saved>>
  BY DEF Restart
<1>2. {} \in SUBSET Memories /\ <<>> \in Seq(SUBSET Memories) /\ <<>> \in Seq(AddRecords) /\ DOMAIN <<>> = {}
  OBVIOUS
<1>3. VecTypeOK'
  <2>1. hurt' \in BOOLEAN
    BY <1>1 DEF VecTypeOK
  <2> QED
    BY <1>1, <1>2, <2>1 DEF VecTypeOK
<1>4. adds'[p] = <<>> /\ \A q \in Processes : q # p => adds'[q] = adds[q] /\ items'[q] = items[q]
  BY <1>1 DEF VecTypeOK
<1>5. OldestAdd'
  BY <1>2, <1>4 DEF OldestAdd
<1>6. ~hurt' => ~hurt /\ ~Writing(p)
  BY <1>1, BusyIs
<1>7. /\ ~UnderWay(p)' /\ ~Writing(p)'
      /\ \A q \in Processes : q # p => UnderWay(q)' = UnderWay(q) /\ Writing(q)' = Writing(q)
  BY <1>4 DEF UnderWay, Writing
<1>8. OneAtTheFile'
  BY <1>1, <1>6, <1>7 DEF OneAtTheFile
<1>9. CarriesSaved'
  BY <1>1, <1>4, <1>6 DEF CarriesSaved
<1> QED
  BY <1>3, <1>5, <1>8, <1>9

LEMMA NextVec == VecInv /\ [VecNext]_vecVars => VecInv'
<1> SUFFICES ASSUME VecInv, [VecNext]_vecVars PROVE VecInv'
  OBVIOUS
<1>1. CASE UNCHANGED vecVars
  BY <1>1 DEF vecVars, VecInv, VecTypeOK, OldestAdd, OneAtTheFile, CarriesSaved, UnderWay, Writing
<1>2. ASSUME NEW p \in Processes, NEW i, Add(p, i), ~hurt PROVE VecInv'
  BY <1>2, ReadVec, PushItemVec, TruncateVec, WrittenVec, AddFailsVec DEF Add
<1> QED
  BY <1>1, <1>2, FirstUseVec, EndFirstUseVec, IngestVec, RestartVec DEF VecNext

\* What memory_save_semantic has returned for stays in the file, for any number of processes
\* that share it, until a write is killed half-way or two processes write at a time.
THEOREM SavedStay == VecSpec => []SavedMemoriesStay
<1>1. VecInit => VecInv
  BY InitVec
<1>2. VecInv /\ [VecNext]_vecVars => VecInv'
  BY NextVec
<1>3. VecInv => SavedMemoriesStay
  <2> SUFFICES ASSUME VecInv, ~hurt PROVE saved \subseteq Kept
    BY DEF SavedMemoriesStay
  <2> USE DEF VecInv
  <2>1. CASE disk # Torn
    BY <2>1 DEF CarriesSaved, Kept
  <2>2. CASE disk = Torn
    <3>1. PICK p \in Processes : Writing(p)
      BY <2>2 DEF OneAtTheFile
    <3>2. 1 \in DOMAIN adds[p] /\ adds[p][1].at = "writing" /\ saved \subseteq adds[p][1].text
      BY <3>1 DEF Writing, CarriesSaved, VecTypeOK
    <3>3. saved \subseteq Memories
      BY DEF VecTypeOK
    <3> QED
      BY <2>2, <3>2, <3>3 DEF Kept
  <2> QED
    BY <2>1, <2>2
<1> QED
  BY <1>1, <1>2, <1>3, PTL DEF VecSpec
=============================================================================
