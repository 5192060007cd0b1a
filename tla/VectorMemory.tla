----------------------------- MODULE VectorMemory -----------------------------
(***************************************************************************)
(* semanticMemoryPlugin (packages/adapters/memory-vec): memories in one    *)
(* JSON file, which every process that runs in its directory shares.  A    *)
(* memory is added by reading the whole file and writing it again; the     *)
(* adds of one process are chained, those of two are not.  The middleware  *)
(* reads the file at its first use.  Vectors and their order are left out: *)
(* the file is the set of its texts.                                       *)
(***************************************************************************)
EXTENDS Naturals, Sequences, SequencesExt

CONSTANTS
  Processes,  \* agents with this filePath
  Memories,   \* what can be remembered
  Torn,       \* a file that is not JSON: writeFile has truncated it, and not come to its end
  MaxReads,   \* bound: concurrent first uses
  MaxAdds     \* bound: adds of one process chained at a time

ASSUME TornAssumption == \A texts \in SUBSET Memories : texts # Torn

VARIABLES
  disk,   \* filePath
  items,  \* the store's items, in memory
  ready,  \* initialized
  reads,  \* store.load() of ensureInitialized in flight: what each has read
  adds,   \* writePromise: the memory each add is for, where it is, what it has read or writes
  saved,  \* ghost: the memories whose memory_save_semantic has returned
  hurt    \* ghost: has something happened that the store does not survive

vecVars == <<disk, items, ready, reads, adds, saved, hurt>>

VecInit == /\ disk = {} /\ saved = {} /\ hurt = FALSE
           /\ items = [p \in Processes |-> {}]
           /\ ready = [p \in Processes |-> FALSE]
           /\ reads = [p \in Processes |-> <<>>]
           /\ adds = [p \in Processes |-> <<>>]

\* JSON.parse throws an error without a code, which is taken for a missing file.
Parsed(text) == IF text = Torn THEN {} ELSE text

\* ensureInitialized, before the first search or the first add.
FirstUse(p) == /\ ~ready[p] /\ Len(reads[p]) < MaxReads
               /\ reads' = [reads EXCEPT ![p] = Append(@, Parsed(disk))]
               /\ UNCHANGED <<disk, items, ready, adds, saved, hurt>>

InPhase(p, phases) == \E i \in DOMAIN adds[p] : adds[p][i].at \in phases
Busy(p) == InPhase(p, {"reading", "saving", "writing"})

\* The read arrives.  It replaces the items, those that an add is about to write as well.
EndFirstUse(p, i) == /\ i \in DOMAIN reads[p]
                     /\ items' = [items EXCEPT ![p] = reads[p][i]]
                     /\ ready' = [ready EXCEPT ![p] = TRUE]
                     /\ reads' = [reads EXCEPT ![p] = RemoveAt(@, i)]
                     /\ hurt' = (hurt \/ InPhase(p, {"saving"}))
                     /\ UNCHANGED <<disk, adds, saved>>

\* ingest: the store is initialized, the text is embedded, and an add is chained.
Ingest(p, m) == /\ ready[p] /\ Len(adds[p]) < MaxAdds
                /\ adds' = [adds EXCEPT ![p] = Append(@, [memory |-> m, at |-> "queued", text |-> {}])]
                /\ UNCHANGED <<disk, items, ready, reads, saved, hurt>>

\* A bug: the adds are not chained.
Chained_Not(p) == DOMAIN adds[p]

\* this.writePromise.then(...): the oldest add runs.
Chained(p) == {i \in DOMAIN adds[p] : i = 1}

At(p, i, from) == i \in Chained(p) /\ adds[p][i].at = from
Goes(p, i, to, text) == adds' = [adds EXCEPT ![p][i].at = to, ![p][i].text = text]

\* The add's own load begins.
Read(p, i) == /\ At(p, i, "queued") /\ Goes(p, i, "reading", Parsed(disk))
              /\ hurt' = (hurt \/ \E q \in Processes \ {p} : Busy(q))
              /\ UNCHANGED <<disk, items, ready, reads, saved>>

\* The load ends; the new item is pushed, and mkdir is awaited.
PushItem(p, i) == /\ At(p, i, "reading") /\ Goes(p, i, "saving", {})
                  /\ items' = [items EXCEPT ![p] = adds[p][i].text \cup {adds[p][i].memory}]
                  /\ UNCHANGED <<disk, ready, reads, saved, hurt>>

\* writeFile: the items are serialised, and the file is truncated.
Truncate(p, i) == /\ At(p, i, "saving") /\ Goes(p, i, "writing", items[p])
                  /\ disk' = Torn
                  /\ UNCHANGED <<items, ready, reads, saved, hurt>>

Drop(p, i) == adds' = [adds EXCEPT ![p] = RemoveAt(@, i)]

\* The file is written; of two processes that write at a time nobody knows what is left.
Written(p, i) == /\ At(p, i, "writing") /\ Drop(p, i)
                 /\ \/ disk' = adds[p][i].text
                    \/ disk' = Torn /\ \E q \in Processes \ {p} : InPhase(q, {"writing"})
                 /\ saved' = saved \cup {adds[p][i].memory}
                 /\ UNCHANGED <<items, ready, reads, hurt>>

\* readFile, mkdir or writeFile rejects: the tool fails, the chain goes on.
AddFails(p, i) == /\ \E at \in {"reading", "saving", "writing"} : At(p, i, at)
                  /\ Drop(p, i)
                  /\ hurt' = (hurt \/ adds[p][i].at = "writing")
                  /\ UNCHANGED <<disk, items, ready, reads, saved>>

\* The process is killed, and started again.
Restart(p) == /\ items' = [items EXCEPT ![p] = {}]
              /\ ready' = [ready EXCEPT ![p] = FALSE]
              /\ reads' = [reads EXCEPT ![p] = <<>>]
              /\ adds' = [adds EXCEPT ![p] = <<>>]
              /\ hurt' = (hurt \/ InPhase(p, {"writing"}))
              /\ UNCHANGED <<disk, saved>>

Add(p, i) == Read(p, i) \/ PushItem(p, i) \/ Truncate(p, i) \/ Written(p, i) \/ AddFails(p, i)

VecNext == \/ \E p \in Processes :
                /\ ~hurt
                /\ \/ FirstUse(p) \/ (\E i \in 1..MaxReads : EndFirstUse(p, i))
                   \/ (\E m \in Memories : Ingest(p, m)) \/ (\E i \in 1..MaxAdds : Add(p, i))
                   \/ Restart(p)
           \* What becomes of a file that is hurt is not followed.
           \/ hurt /\ UNCHANGED vecVars

VecSpec == VecInit /\ [][VecNext]_vecVars

-----------------------------------------------------------------------------
\* What the file holds, or will when the write under way is done.
Kept == IF disk # Torn THEN disk
        ELSE {m \in Memories : \E p \in Processes : \E i \in DOMAIN adds[p] :
                adds[p][i].at = "writing" /\ m \in adds[p][i].text}

\* "Fact saved to semantic memory": it stays in the file, whatever is added later and by
\* whatever process, in whatever order the loads and adds end, and whatever fails.  What the
\* store does not survive is a write that is killed or fails half-way (the next add takes
\* the torn file for an empty one), adds of two processes at a time, and a first read that
\* ends just before the file is written.
SavedMemoriesStay == hurt \/ saved \subseteq Kept
=============================================================================
