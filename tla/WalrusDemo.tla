------------------------------ MODULE WalrusDemo ------------------------------
(***************************************************************************)
(* The Walrus demo head (heads/walrus-demo): a scheduled agent whose       *)
(* transcript, audit trail and reports are Walrus blobs, with the pointer  *)
(* to the latest transcript in a JSON file or in an object on Sui.         *)
(*                                                                         *)
(* A tick runs the agent (load, think and act, append), stores a report,   *)
(* flushes the audit buffer and, on chain, starts an update of the audit   *)
(* pointer that nobody awaits.  On chain an update reads both pointers and *)
(* writes both.  A blob is its content: its id is a hash of it.            *)
(***************************************************************************)
EXTENDS Naturals, Sequences, SequencesExt

CONSTANTS MaxTicks,   \* maxRuns of the job, counted over all lives of the process here
          MaxCrashes  \* bound: exits and crashes of the process

ASSUME DemoAssumption == MaxTicks \in Nat /\ MaxCrashes \in Nat

VARIABLES
  onChain,    \* whether SUI_* is configured; if not the pointer is in a file
  pointers,   \* the memory-head object, or the file with only the transcript
  torn,       \* the file is truncated: writeFile has begun and not ended
  stored,     \* the blobs on Walrus
  updates,    \* calls of head.update in flight, the tick's own and background ones
  pc,         \* the await that the tick is suspended in
  run,        \* how many ticks have begun
  turns,      \* the transcript this tick works on
  buffer,     \* the entries of the audit logger
  uploading,  \* the entries serialised by flush
  strays,     \* failed runs that have left a tool running
  crashes,
  captured,   \* ghost: the entries captured in this life of the process
  acked,      \* ghost: the last transcript whose append has resolved
  excused     \* ghost: a write of the pointers was stale, aborted or cut short

demoVars == <<turns, buffer, uploading, strays, captured>>
ghosts == <<acked, excused>>
vars == <<onChain, pointers, torn, stored, updates, pc, run, demoVars, crashes, ghosts>>

Transcript(t) == [kind |-> "transcript", turns |-> t]
Trail(entries) == [kind |-> "audit", entries |-> entries]
Report(n) == [kind |-> "artifact", tick |-> n]
None == Transcript(<<>>)      \* the empty string, a missing key, a missing file
NoTrail == Trail({})

Entry(n, at) == [run |-> n, at |-> at]
Boot == Entry(0, "boot")      \* plugins_loaded, logged by createAgent

Init == /\ onChain \in BOOLEAN
        /\ pointers = [transcript |-> None, audit |-> NoTrail]
        /\ torn = FALSE
        /\ stored = {} /\ updates = {}
        /\ pc = "idle" /\ run = 0 /\ turns = <<>>
        /\ buffer = {Boot} /\ captured = {Boot}
        /\ uploading = {} /\ strays = {}
        /\ crashes = 0 /\ acked = <<>> /\ excused = FALSE

\* audit.info / warn / error: the entry is buffered (and forwarded, which is left out).
Capture(entries) == /\ buffer' = buffer \cup entries
                    /\ captured' = captured \cup entries

\* putBlob resolves with the id of the content; getBlob of an id returns that content.
PutBlob(b) == stored' = stored \cup {b}
GetBlob(b) == b \in stored /\ turns' = b.turns

\* head.update is called; with a file there is no head.
StartUpdate(f, b) ==
  updates' = IF onChain
             THEN updates \cup {[field |-> f, blob |-> b, pc |-> "reading", read |-> pointers]}
             ELSE updates

-----------------------------------------------------------------------------
\* A bug: the tick is counted after the comparison with maxRuns.
StartTick_OneMore ==
  /\ pc = "idle" /\ run <= MaxTicks
  /\ run' = run + 1
  /\ Capture({Entry(run + 1, "start")})
  /\ pc' = "get"
  /\ UNCHANGED <<onChain, pointers, torn, stored, updates, turns, uploading, strays, crashes, ghosts>>

\* The tick: the scheduler fires only while no tick is under way.
StartTick == /\ pc = "idle" /\ run < MaxTicks
             /\ run' = run + 1
             /\ Capture({Entry(run + 1, "start")})
             /\ pc' = "get"
             /\ UNCHANGED <<onChain, pointers, torn, stored, updates, turns, uploading, strays, crashes, ghosts>>

\* walrusMemory.load: the pointer, then the blob.
Resolve == /\ pc = "get"
           /\ turns' = <<>>
           /\ pc' = IF pointers.transcript = None THEN "loop" ELSE "fetch"
           /\ UNCHANGED <<onChain, pointers, torn, stored, updates, run, buffer, uploading, strays, captured, crashes, ghosts>>

Fetch == /\ pc = "fetch"
         /\ GetBlob(pointers.transcript)
         /\ pc' = "loop"
         /\ UNCHANGED <<onChain, pointers, torn, stored, updates, run, buffer, uploading, strays, captured, crashes, ghosts>>

\* runLoop: model and tool calls are audited; the turn is complete.
Think == /\ pc = "loop"
         /\ turns' = Append(turns, run)
         /\ Capture({Entry(run, "call")})
         /\ pc' = "put"
         /\ UNCHANGED <<onChain, pointers, torn, stored, updates, run, uploading, strays, crashes, ghosts>>

\* A bug: the pointer is moved while the blob is still being stored.
PutTranscript_PointerFirst ==
  /\ pc = "put"
  /\ StartUpdate("transcript", Transcript(turns))
  /\ pc' = "set"
  /\ UNCHANGED <<onChain, pointers, torn, stored, run, demoVars, crashes, ghosts>>

\* append: the blob is stored, then pointers.set begins.
PutTranscript ==
  /\ pc = "put"
  /\ PutBlob(Transcript(turns))
  /\ StartUpdate("transcript", Transcript(turns))
  /\ pc' = "set"
  /\ UNCHANGED <<onChain, pointers, torn, run, demoVars, crashes, ghosts>>

\* pointers.set and append have resolved: session_end is logged.
Appended == /\ pc' = "artifact"
            /\ acked' = turns
            /\ Capture({Entry(run, "end")})

\* filePointerStore.set: writeFile truncates the file, which then reads as empty, and fills it.
Truncate == /\ pc = "set" /\ ~onChain
            /\ torn' = TRUE
            /\ pointers' = [pointers EXCEPT !.transcript = None]
            /\ pc' = "fill"
            /\ UNCHANGED <<onChain, stored, updates, run, demoVars, crashes, ghosts>>

Fill == /\ pc = "fill"
        /\ torn' = FALSE
        /\ pointers' = [pointers EXCEPT !.transcript = Transcript(turns)]
        /\ Appended
        /\ UNCHANGED <<onChain, stored, updates, run, turns, uploading, strays, crashes, excused>>

\* flush: the buffer is serialised before its upload is awaited.
Serialise == uploading' = buffer

\* artifacts.put has resolved, and flush begins.
Store == /\ pc = "artifact"
         /\ PutBlob(Report(run))
         /\ Serialise
         /\ pc' = "flush"
         /\ UNCHANGED <<onChain, pointers, torn, updates, run, turns, buffer, strays, captured, crashes, ghosts>>

\* The trail is stored: the buffer is reset, and onAudit starts an update of the head.
Flushed ==
  /\ pc = "flush"
  /\ PutBlob(Trail(uploading))
  /\ buffer' = {} /\ uploading' = {}
  /\ StartUpdate("audit", Trail(uploading))
  /\ pc' = "idle"
  /\ UNCHANGED <<onChain, pointers, torn, run, turns, strays, captured, crashes, ghosts>>

\* A bug: the buffer is reset in a finally, whether the upload succeeded or not.
TickFails_Resets ==
  /\ pc \in {"get", "fetch", "loop", "put", "fill", "artifact", "flush"}
  /\ strays' \in IF pc = "loop" THEN {strays, strays \cup {run}} ELSE {strays}
  /\ buffer' = IF pc = "flush" THEN {} ELSE buffer
  /\ pc' = "idle" /\ uploading' = {}
  /\ excused' = (excused \/ torn)
  /\ UNCHANGED <<onChain, pointers, torn, stored, updates, run, turns, captured, crashes, acked>>

\* What the tick awaits rejects: the scheduler logs it, and the buffer is kept for the next
\* flush.  A run that an unknown tool rejected leaves the other calls of its batch running.
TickFails ==
  /\ pc \in {"get", "fetch", "loop", "put", "fill", "artifact", "flush"}
  /\ strays' \in IF pc = "loop" THEN {strays, strays \cup {run}} ELSE {strays}
  /\ pc' = "idle" /\ uploading' = {}
  /\ excused' = (excused \/ torn)
  /\ UNCHANGED <<onChain, pointers, torn, stored, updates, run, turns, buffer, captured, crashes, acked>>

\* toolAuditMiddleware: a call left running ends, and is logged.
StrayEnds(n) == /\ strays' = strays \ {n}
                /\ Capture({Entry(n, "stray")})
                /\ UNCHANGED <<onChain, pointers, torn, stored, updates, pc, run, turns, uploading, crashes, ghosts>>

-----------------------------------------------------------------------------
\* suiMemoryHead.update: read, then one transaction that writes both pointers.
ReadHead(u) ==
  /\ u.pc = "reading"
  /\ updates' = (updates \ {u}) \cup {[u EXCEPT !.pc = "executing", !.read = pointers]}
  /\ UNCHANGED <<onChain, pointers, torn, stored, pc, run, demoVars, crashes, ghosts>>

\* A bug: the field that is not passed is sent empty.
Written_Clears(u) == IF u.field = "transcript" THEN [transcript |-> u.blob, audit |-> NoTrail]
                     ELSE [transcript |-> None, audit |-> u.blob]

\* pointers.transcript ?? current.transcript, pointers.audit ?? current.audit
Written(u) == [u.read EXCEPT ![u.field] = u.blob]

\* memory_head::update on the chain: the sender is the owner, and both fields are written.
Applies(u) == /\ pointers' = Written(u)
              /\ excused' = (excused \/ u.read # pointers)

\* The transaction aborts (ENotOwner, gas): its effects say so, and nobody reads them.
Aborts == excused' = TRUE /\ UNCHANGED pointers

\* signAndExecuteTransaction: the chain has the transaction.
Execute(u) ==
  /\ u.pc = "executing"
  /\ updates' = (updates \ {u}) \cup {[u EXCEPT !.pc = "confirming"]}
  /\ Applies(u) \/ Aborts
  /\ UNCHANGED <<onChain, torn, stored, pc, run, demoVars, crashes, acked>>

\* Whether the tick in progress awaits this update.
Awaited(u) == u.field = "transcript" /\ pc = "set" /\ u.blob = Transcript(turns)

\* waitForTransaction resolves.
Confirm(u) ==
  /\ u.pc = "confirming"
  /\ updates' = updates \ {u}
  /\ IF Awaited(u) THEN Appended ELSE UNCHANGED <<pc, acked, buffer, captured>>
  /\ UNCHANGED <<onChain, pointers, torn, stored, run, turns, uploading, strays, crashes, excused>>

\* The read, the submission or the confirmation rejects, the last after the chain has moved:
\* the tick fails; a background update is logged and forgotten.
FailUpdate(u) ==
  /\ updates' = updates \ {u}
  /\ pc' = IF Awaited(u) THEN "idle" ELSE pc
  /\ UNCHANGED <<onChain, pointers, torn, stored, run, demoVars, crashes, ghosts>>

-----------------------------------------------------------------------------
\* A signal or a crash ends the process and it starts again: what was not stored is gone, a
\* submitted transaction may still execute, and a file that was being written stays corrupt.
Restart ==
  /\ crashes < MaxCrashes
  /\ crashes' = crashes + 1
  /\ updates' = {u \in updates : u.pc = "executing"}
  /\ pc' = "idle" /\ turns' = <<>> /\ uploading' = {} /\ strays' = {}
  /\ buffer' = {Boot} /\ captured' = {Boot}
  /\ excused' = (excused \/ torn)
  /\ UNCHANGED <<onChain, pointers, torn, stored, run, acked>>

\* Every tick has happened and nothing is under way.
AllDone == /\ pc = "idle" /\ run = MaxTicks /\ updates = {} /\ strays = {}
           /\ UNCHANGED vars

Tick == \/ StartTick \/ Resolve \/ Fetch \/ Think \/ PutTranscript \/ Truncate \/ Fill
        \/ Store \/ Flushed \/ TickFails

Next == \/ Tick
        \/ \E n \in strays : StrayEnds(n)
        \/ \E u \in updates : ReadHead(u) \/ Execute(u) \/ Confirm(u) \/ FailUpdate(u)
        \/ Restart
        \/ AllDone

Spec == Init /\ [][Next]_vars

-----------------------------------------------------------------------------
Turns == UNION {[1..n -> 1..MaxTicks] : n \in 0..MaxTicks}
Entries == [run : 0..MaxTicks, at : {"boot", "start", "call", "end", "stray"}]
IsTranscript(b) == b.kind = "transcript" /\ b.turns \in Turns
IsTrail(b) == b.kind = "audit" /\ b.entries \subseteq Entries

TypeOK ==
  /\ onChain \in BOOLEAN /\ torn \in BOOLEAN /\ excused \in BOOLEAN
  /\ IsTranscript(pointers.transcript) /\ IsTrail(pointers.audit)
  /\ \A b \in stored : IsTranscript(b) \/ IsTrail(b) \/ (b.kind = "artifact" /\ b.tick \in 1..MaxTicks)
  /\ \A u \in updates : /\ u.field \in {"transcript", "audit"}
                        /\ u.pc \in {"reading", "executing", "confirming"}
                        /\ IsTranscript(u.blob) \/ IsTrail(u.blob)
                        /\ IsTranscript(u.read.transcript) /\ IsTrail(u.read.audit)
  /\ pc \in {"idle", "get", "fetch", "loop", "put", "set", "fill", "artifact", "flush"}
  /\ run \in 0..MaxTicks /\ turns \in Turns /\ acked \in Turns
  /\ buffer \subseteq Entries /\ uploading \subseteq Entries /\ captured \subseteq Entries
  /\ strays \subseteq 1..MaxTicks /\ crashes \in 0..MaxCrashes

\* The blob is stored before its pointer moves: through failures, restarts, transactions that
\* land late and stale writes, a pointer never names a blob that is not on Walrus.
PointersLead == /\ pointers.transcript \in stored \cup {None}
                /\ pointers.audit \in stored \cup {NoTrail}

\* "Fixed sessionId: memory accumulates and resumes across restarts" (main.ts:108): a turn
\* whose append resolved stays in the transcript the next tick loads, unless a head update
\* wrote pointers it had read before another update, a transaction aborted (its effects are
\* never looked at), or the process ended in the middle of writing the file.
AcknowledgedTurnsStay == excused \/ torn \/ IsPrefix(acked, pointers.transcript.turns)

\* The flushed trails are the log of this life of the process: an entry leaves the buffer
\* only into a stored blob, whatever fails between flush and reset.  Only the entry of a tool
\* that a failed run left behind can fall between the snapshot and the reset.
OnlyStraysDropped ==
  \A e \in captured : \/ e \in buffer
                      \/ e.at = "stray"
                      \/ \E b \in stored : b.kind = "audit" /\ e \in b.entries
=============================================================================
