--------------------------- MODULE WalrusDemoProofs ---------------------------
(***************************************************************************)
(* The Walrus demo head, for any number of ticks and restarts: its         *)
(* pointers lead to stored blobs, its audit entries are stored before they *)
(* leave the buffer, and an acknowledged turn stays in the transcript.     *)
(***************************************************************************)
EXTENDS WalrusDemo, SequenceTheorems, TLAPS

Transcripts == [kind : {"transcript"}, turns : Turns]
Trails == [kind : {"audit"}, entries : SUBSET Entries]
Artifacts == [kind : {"artifact"}, tick : 1..MaxTicks]
Heads == [transcript : Transcripts, audit : Trails]
Updates == [field : {"transcript", "audit"}, blob : Transcripts \cup Trails,
            pc : {"reading", "executing", "confirming"}, read : Heads]

\* TypeOK, with the records named: what a pointer leads to is what its field is for.
Types ==
  /\ onChain \in BOOLEAN /\ torn \in BOOLEAN /\ excused \in BOOLEAN
  /\ pointers \in Heads
  /\ stored \subseteq Transcripts \cup Trails \cup Artifacts
  /\ updates \subseteq Updates
  /\ \A u \in updates : u.blob \in (IF u.field = "transcript" THEN Transcripts ELSE Trails)
  /\ pc \in {"idle", "get", "fetch", "loop", "put", "set", "fill", "artifact", "flush"}
  /\ run \in 0..MaxTicks /\ turns \in Turns /\ acked \in Turns
  /\ buffer \subseteq Entries /\ uploading \subseteq Entries /\ captured \subseteq Entries
  /\ strays \subseteq 1..MaxTicks /\ crashes \in 0..MaxCrashes

Early == {"get", "fetch", "loop"}

\* A transcript with the turns of the first n ticks at most.
UpTo(t, n) == Len(t) <= n /\ \A i \in 1..Len(t) : t[i] <= n

\* No transcript is ahead of the ticks, and until this tick's own is stored and its update is
\* called, none anywhere has its turn.
Bounded ==
  /\ pc \in {"get", "fetch", "loop", "put", "set", "fill", "artifact", "flush"} => run > 0
  /\ UpTo(turns, IF pc \in Early THEN run - 1 ELSE run)
  /\ LET n == IF pc \in {"get", "fetch", "loop", "put"} THEN run - 1 ELSE run IN
       /\ UpTo(pointers.transcript.turns, n)
       /\ \A u \in updates : /\ UpTo(u.read.transcript.turns, n)
                             /\ u.field = "transcript" => UpTo(u.blob.turns, n)
  /\ pc \in {"put", "set"} => turns # <<>> /\ turns[Len(turns)] = run
  /\ pc = "set" => \A u \in updates : u.field = "transcript" /\ ~Awaited(u) =>
                     UpTo(u.blob.turns, run - 1) /\ UpTo(u.read.transcript.turns, run - 1)

\* With a file there are no updates; on chain at most one is awaited, and one of a transcript
\* that nobody awaits was left by an earlier life of the process, at its transaction.
OneAwaited ==
  /\ ~onChain => updates = {}
  /\ pc = "fill" => ~onChain
  /\ \A u, v \in updates : Awaited(u) /\ Awaited(v) => u = v
  /\ \A u \in updates : u.field = "transcript" /\ u.pc = "reading" => Awaited(u)

\* Everything that may become a pointer is stored.
BlobsFirst ==
  /\ PointersLead
  /\ \A u \in updates : /\ u.blob \in stored
                        /\ u.read.transcript \in stored \cup {None}
                        /\ u.read.audit \in stored \cup {NoTrail}
  /\ pc \in {"set", "fill"} => Transcript(turns) \in stored

\* What is being flushed is the buffer, but for the tools that ended since.
Serialised ==
  /\ OnlyStraysDropped
  /\ pc = "flush" => \A e \in buffer : e \in uploading \/ e.at = "stray"

\* Until a write of the pointers goes wrong, whatever the pointer may become extends what has
\* been acknowledged: the tick's transcript, the pointer that its update has moved, and the
\* updates under way, unless they have read pointers that are behind.
AckedKept ==
  /\ torn => excused \/ pc = "fill"
  /\ excused \/
     /\ torn \/ IsPrefix(acked, pointers.transcript.turns)
     /\ pc \in {"loop", "put", "set"} => IsPrefix(acked, turns)
     /\ \A u \in updates :
          u.field = "transcript" =>
            /\ u.pc = "reading" => IsPrefix(acked, u.blob.turns)
            /\ u.pc = "executing" => \/ IsPrefix(acked, u.blob.turns)
                                     \/ ~IsPrefix(acked, u.read.transcript.turns)
            /\ u.pc = "confirming" /\ Awaited(u) => pointers.transcript = u.blob

IInv == Types /\ Bounded /\ OneAwaited /\ BlobsFirst /\ Serialised /\ AckedKept

-----------------------------------------------------------------------------
(* Transcripts. *)

LEMMA TurnsAre ==
  ASSUME NEW t
  PROVE  t \in Turns <=> t \in Seq(1..MaxTicks) /\ Len(t) <= MaxTicks
<1> USE DemoAssumption
<1>1. ASSUME t \in Turns PROVE t \in Seq(1..MaxTicks) /\ Len(t) <= MaxTicks
  <2>1. PICK n \in 0..MaxTicks : t \in [1..n -> 1..MaxTicks]
    BY <1>1 DEF Turns
  <2> QED
    BY <2>1
<1>2. ASSUME t \in Seq(1..MaxTicks), Len(t) <= MaxTicks PROVE t \in Turns
  <2>1. Len(t) \in 0..MaxTicks /\ t \in [1..Len(t) -> 1..MaxTicks]
    BY <1>2
  <2> QED
    BY <2>1 DEF Turns
<1> QED
  BY <1>1, <1>2

LEMMA NoTurns == <<>> \in Turns /\ \A n \in Nat : UpTo(<<>>, n)
<1>1. <<>> \in Seq(1..MaxTicks) /\ Len(<<>>) = 0 /\ 0 <= MaxTicks /\ 1..0 = {}
  BY DemoAssumption
<1> DEFINE t == <<>>
<1> HIDE DEF t
<1>2. t \in Seq(1..MaxTicks) /\ Len(t) = 0
  BY <1>1 DEF t
<1>3. t \in Turns
  <2>1. Len(t) <= MaxTicks
    BY <1>2, DemoAssumption
  <2> QED
    BY <1>2, <2>1, TurnsAre
<1>4. \A n \in Nat : UpTo(t, n)
  BY <1>2 DEF UpTo
<1> QED
  BY <1>3, <1>4 DEF t

\* The turn of this tick at the end.
LEMMA AppendTurn ==
  ASSUME NEW t \in Turns, NEW n \in 1..MaxTicks, UpTo(t, n - 1)
  PROVE  /\ Append(t, n) \in Turns /\ UpTo(Append(t, n), n)
         /\ Append(t, n) # <<>> /\ Append(t, n)[Len(Append(t, n))] = n
<1> DEFINE a == Append(t, n)
<1>1. t \in Seq(1..MaxTicks) /\ Len(t) \in Nat /\ MaxTicks \in Nat
  BY TurnsAre, DemoAssumption
<1>2. /\ a \in Seq(1..MaxTicks) /\ Len(a) = Len(t) + 1 /\ a[Len(a)] = n /\ a # <<>>
      /\ \A i \in 1..Len(t) : a[i] = t[i]
  BY <1>1
<1>3. \A i \in 1..Len(t) : t[i] \in 1..MaxTicks
  BY <1>1
<1> HIDE DEF a
<1>4. Len(a) <= n /\ Len(a) <= MaxTicks
  BY <1>1, <1>2 DEF UpTo
<1>5. \A i \in 1..Len(a) : a[i] <= n
  <2> SUFFICES ASSUME NEW i \in 1..Len(a) PROVE a[i] <= n
    OBVIOUS
  <2>1. i \in 1..Len(t) \/ i = Len(a)
    BY <1>1, <1>2
  <2> QED
    BY <1>2, <1>3, <2>1 DEF UpTo
<1>6. a \in Turns
  BY <1>2, <1>4, TurnsAre
<1> QED
  BY <1>2, <1>4, <1>5, <1>6 DEF UpTo, a

LEMMA UpToLater ==
  ASSUME NEW t \in Turns, NEW n \in Int, NEW m \in Int, n <= m, UpTo(t, n)
  PROVE  UpTo(t, m)
<1>1. t \in Seq(1..MaxTicks) /\ Len(t) \in Nat /\ \A i \in 1..Len(t) : t[i] \in Int
  BY TurnsAre, DemoAssumption
<1> QED
  BY <1>1 DEF UpTo

LEMMA FrontIs ==
  ASSUME NEW t \in Turns, NEW n \in 0..Len(t)
  PROVE  /\ SubSeq(t, 1, n) \in Seq(1..MaxTicks) /\ Len(SubSeq(t, 1, n)) = n
         /\ \A i \in 1..n : SubSeq(t, 1, n)[i] = t[i]
<1>1. t \in Seq(1..MaxTicks) /\ MaxTicks \in Nat
  BY TurnsAre, DemoAssumption
<1>2. n \in Nat /\ \A i \in 1..n : t[i] \in 1..MaxTicks
  BY <1>1
<1> DEFINE front == SubSeq(t, 1, n)
<1>3. /\ front \in Seq(1..MaxTicks) /\ Len(front) = IF 1 <= n THEN n - 1 + 1 ELSE 0
      /\ \A i \in 1..(n - 1 + 1) : front[i] = t[1 + i - 1]
  BY <1>2, SubSeqProperties
<1> HIDE DEF front
<1>4. Len(front) = n /\ \A i \in 1..n : front[i] = t[i]
  BY <1>2, <1>3
<1> QED
  BY <1>3, <1>4 DEF front

LEMMA PrefixIs ==
  ASSUME NEW s \in Turns, NEW t \in Turns
  PROVE  IsPrefix(s, t) <=> Len(s) <= Len(t) /\ \A i \in 1..Len(s) : s[i] = t[i]
<1>1. Len(s) \in Nat /\ Len(t) \in Nat
  BY TurnsAre
<1> DEFINE front(r) == SubSeq(r, 1, Len(s))
<1>2. CASE Len(s) <= Len(t)
  <2>1. Len(s) \in 0..Len(s) /\ Len(s) \in 0..Len(t)
    BY <1>1, <1>2
  <2>2. /\ front(s) \in Seq(1..MaxTicks) /\ Len(front(s)) = Len(s) /\ \A i \in 1..Len(s) : front(s)[i] = s[i]
        /\ front(t) \in Seq(1..MaxTicks) /\ Len(front(t)) = Len(s) /\ \A i \in 1..Len(s) : front(t)[i] = t[i]
    BY <2>1, FrontIs
  <2>3. front(s) = front(t) <=> \A i \in 1..Len(s) : s[i] = t[i]
    <3> HIDE DEF front
    <3> QED
      BY <2>2, SeqEqual
  <2> QED
    BY <1>2, <2>3 DEF IsPrefix
<1> QED
  BY <1>2 DEF IsPrefix

LEMMA PrefixRefl == \A t \in Turns : IsPrefix(t, t)
  BY PrefixIs, TurnsAre

LEMMA PrefixTrans ==
  ASSUME NEW r \in Turns, NEW s \in Turns, NEW t \in Turns, IsPrefix(r, s), IsPrefix(s, t)
  PROVE  IsPrefix(r, t)
<1>1. Len(r) \in Nat /\ Len(s) \in Nat /\ Len(t) \in Nat
  BY TurnsAre
<1> QED
  BY <1>1, PrefixIs

LEMMA PrefixAppend ==
  ASSUME NEW s \in Turns, NEW t \in Turns, NEW n \in 1..MaxTicks, Append(t, n) \in Turns, IsPrefix(s, t)
  PROVE  IsPrefix(s, Append(t, n))
<1> DEFINE a == Append(t, n)
<1>1. Len(s) \in Nat /\ Len(t) \in Nat /\ t \in Seq(1..MaxTicks)
  BY TurnsAre
<1>3. Len(a) = Len(t) + 1 /\ \A i \in 1..Len(t) : a[i] = t[i]
  BY <1>1
<1> HIDE DEF a
<1>4. Len(s) <= Len(t) /\ \A i \in 1..Len(s) : s[i] = t[i]
  BY PrefixIs
<1>5. Len(s) <= Len(a) /\ \A i \in 1..Len(s) : s[i] = a[i]
  BY <1>1, <1>3, <1>4
<1> QED
  BY <1>5, PrefixIs DEF a

\* A transcript with this tick's turn is a prefix of none without it.
LEMMA NotBehind ==
  ASSUME NEW s \in Turns, NEW t \in Turns, NEW n \in Nat, s # <<>>, s[Len(s)] = n, UpTo(t, n - 1)
  PROVE  ~IsPrefix(s, t)
<1>1. s \in Seq(1..MaxTicks) /\ t \in Seq(1..MaxTicks) /\ Len(s) \in 1..Len(s) /\ Len(t) \in Nat
  BY TurnsAre
<1>2. \A i \in 1..Len(t) : t[i] \in Int /\ t[i] <= n - 1
  BY <1>1, DemoAssumption DEF UpTo
<1>3. SUFFICES ASSUME IsPrefix(s, t) PROVE FALSE
  OBVIOUS
<1>4. Len(s) \in 1..Len(t) /\ s[Len(s)] = t[Len(s)]
  BY <1>1, <1>3, PrefixIs
<1> QED
  BY <1>2, <1>4

-----------------------------------------------------------------------------
(* The head's updates. *)

\* What one writes is a head again, and of the field that it was not called for what it read.
LEMMA WrittenIs ==
  ASSUME Types, NEW u \in updates
  PROVE  /\ Written(u) \in Heads
         /\ u.field = "transcript" => Written(u) = [transcript |-> u.blob, audit |-> u.read.audit]
         /\ u.field = "audit" => Written(u) = [transcript |-> u.read.transcript, audit |-> u.blob]
<1>1. /\ u \in Updates /\ u.read \in Heads /\ u.field \in {"transcript", "audit"}
      /\ u.field = "transcript" => u.blob \in Transcripts
      /\ u.field = "audit" => u.blob \in Trails
  BY DEF Types, Updates
<1>2. u.read = [transcript |-> u.read.transcript, audit |-> u.read.audit]
      /\ u.read.transcript \in Transcripts /\ u.read.audit \in Trails
  BY <1>1 DEF Heads
<1>3. CASE u.field = "transcript"
  <2>1. Written(u) = [transcript |-> u.blob, audit |-> u.read.audit]
    BY <1>2, <1>3 DEF Written
  <2> QED
    BY <1>1, <1>2, <1>3, <2>1 DEF Heads
<1>4. CASE u.field = "audit"
  <2>1. Written(u) = [transcript |-> u.read.transcript, audit |-> u.blob]
    BY <1>2, <1>4 DEF Written
  <2> QED
    BY <1>1, <1>2, <1>4, <2>1 DEF Heads
<1> QED
  BY <1>1, <1>3, <1>4

\* An update goes on: it keeps its field and its blob.
LEMMA ReadHeadIs ==
  ASSUME Types, NEW u \in updates, ReadHead(u)
  PROVE  \E v \in Updates : /\ v = [field |-> u.field, blob |-> u.blob, pc |-> "executing", read |-> pointers]
                            /\ updates' = (updates \ {u}) \cup {v}
<1> DEFINE v == [field |-> u.field, blob |-> u.blob, pc |-> "executing", read |-> pointers]
<1>1. u \in Updates /\ pointers \in Heads
  BY DEF Types
<1>2. u = [field |-> u.field, blob |-> u.blob, pc |-> u.pc, read |-> u.read] /\ v \in Updates
  BY <1>1 DEF Updates
<1> DEFINE w == [u EXCEPT !.pc = "executing"]
<1>3. w = [field |-> u.field, blob |-> u.blob, pc |-> "executing", read |-> u.read]
  BY <1>2
<1>4. [w EXCEPT !.read = pointers] = v
  <2> HIDE DEF w
  <2> QED
    BY <1>3
<1>5. [u EXCEPT !.pc = "executing", !.read = pointers] = [w EXCEPT !.read = pointers]
  OBVIOUS
<1> QED
  BY <1>2, <1>4, <1>5 DEF ReadHead

LEMMA ExecuteIs ==
  ASSUME Types, NEW u \in updates, Execute(u)
  PROVE  \E v \in Updates : /\ v = [field |-> u.field, blob |-> u.blob, pc |-> "confirming", read |-> u.read]
                            /\ updates' = (updates \ {u}) \cup {v}
<1> DEFINE v == [field |-> u.field, blob |-> u.blob, pc |-> "confirming", read |-> u.read]
<1>1. u \in Updates
  BY DEF Types
<1>2. [u EXCEPT !.pc = "confirming"] = v /\ v \in Updates
  BY <1>1 DEF Updates
<1> QED
  BY <1>2 DEF Execute

\* A new update is called with a stored blob and has read nothing yet.
LEMMA StartIs ==
  ASSUME Types, NEW f, NEW b, StartUpdate(f, b),
         (f = "transcript" /\ b \in Transcripts) \/ (f = "audit" /\ b \in Trails)
  PROVE  /\ ~onChain => updates' = updates
         /\ onChain => \E v \in Updates : /\ v = [field |-> f, blob |-> b, pc |-> "reading", read |-> pointers]
                                          /\ updates' = updates \cup {v}
  BY DEF StartUpdate, Types, Updates

-----------------------------------------------------------------------------
(* Types. *)

LEMMA EntriesAre ==
  ASSUME Types
  PROVE  /\ Boot \in Entries
         /\ \A n \in 0..MaxTicks, at \in {"start", "call", "end", "stray"} : Entry(n, at) \in Entries
  BY DemoAssumption DEF Boot, Entry, Entries

LEMMA BlobsAre ==
  /\ \A t \in Turns : Transcript(t) \in Transcripts /\ Transcript(t).turns = t
  /\ \A b \in Transcripts : b = Transcript(b.turns) /\ b.turns \in Turns
  /\ \A entries \in SUBSET Entries : Trail(entries) \in Trails /\ Trail(entries).entries = entries
  /\ None \in Transcripts /\ None.turns = <<>> /\ NoTrail \in Trails
  BY NoTurns DEF Transcript, Trail, Transcripts, Trails, None, NoTrail

LEMMA AppendedTypes ==
  ASSUME Types, Appended
  PROVE  pc' = "artifact" /\ acked' \in Turns /\ buffer' \subseteq Entries /\ captured' \subseteq Entries
<1>1. Entry(run, "end") \in Entries
  BY EntriesAre DEF Types
<1> QED
  BY <1>1 DEF Appended, Capture, Types

LEMMA InitTypes == Init => Types /\ Bounded
<1> SUFFICES ASSUME Init PROVE Types /\ Bounded
  OBVIOUS
<1>1. Boot \in Entries /\ 0 \in 0..MaxTicks /\ 0 \in 0..MaxCrashes
  BY DemoAssumption DEF Boot, Entry, Entries
<1>2. [transcript |-> None, audit |-> NoTrail] \in Heads
  BY BlobsAre DEF Heads
<1>3. Types
  BY <1>1, <1>2, NoTurns DEF Init, Types
<1>4. UpTo(<<>>, 0) /\ pointers.transcript.turns = <<>>
  BY NoTurns, BlobsAre DEF Init
<1>5. Bounded
  BY <1>4 DEF Init, Bounded, Early
<1> QED
  BY <1>3, <1>5

LEMMA TypesStep ==
  ASSUME Types, Bounded, [Next]_vars
  PROVE  Types'
<1>1. CASE StartTick
  <2>1. run + 1 \in 0..MaxTicks /\ Entry(run + 1, "start") \in Entries
    BY <1>1, EntriesAre, DemoAssumption DEF StartTick, Types
  <2> QED
    BY <1>1, <2>1 DEF StartTick, Capture, Types, ghosts
<1>2. CASE Resolve
  BY <1>2, NoTurns DEF Resolve, Types, ghosts
<1>3. CASE Fetch
  <2>1. pointers.transcript.turns \in Turns
    BY BlobsAre DEF Types, Heads
  <2> QED
    BY <1>3, <2>1 DEF Fetch, GetBlob, Types, ghosts
<1>4. CASE Think
  <2>1. run \in 1..MaxTicks /\ UpTo(turns, run - 1)
    BY <1>4 DEF Think, Types, Bounded, Early
  <2>2. Append(turns, run) \in Turns
    BY <2>1, AppendTurn DEF Types
  <2>3. Entry(run, "call") \in Entries
    BY EntriesAre DEF Types
  <2> QED
    BY <1>4, <2>2, <2>3 DEF Think, Capture, Types, ghosts
<1>5. CASE PutTranscript
  <2>1. Transcript(turns) \in Transcripts
    BY BlobsAre DEF Types
  <2>2. /\ ~onChain => updates' = updates
        /\ onChain => \E v \in Updates : /\ v = [field |-> "transcript", blob |-> Transcript(turns), pc |-> "reading", read |-> pointers]
                                         /\ updates' = updates \cup {v}
    BY <1>5, <2>1, StartIs DEF PutTranscript
  <2>3. updates' \subseteq Updates /\ \A u \in updates' : u.blob \in (IF u.field = "transcript" THEN Transcripts ELSE Trails)
    BY <2>1, <2>2 DEF Types
  <2> QED
    BY <1>5, <2>1, <2>3 DEF PutTranscript, PutBlob, Types, ghosts, demoVars
<1>6. CASE Truncate
  <2>1. pointers' \in Heads
    BY <1>6, BlobsAre DEF Truncate, Types, Heads
  <2> QED
    BY <1>6, <2>1 DEF Truncate, Types, ghosts, demoVars
<1>7. CASE Fill
  <2>1. pointers' \in Heads
    BY <1>7, BlobsAre DEF Fill, Types, Heads
  <2> QED
    BY <1>7, <2>1, AppendedTypes DEF Fill, Types
<1>8. CASE Store
  <2>1. Report(run) \in Artifacts
    BY <1>8 DEF Store, Report, Artifacts, Types, Bounded
  <2> QED
    BY <1>8, <2>1 DEF Store, PutBlob, Serialise, Types, ghosts
<1>9. CASE Flushed
  <2>1. Trail(uploading) \in Trails
    BY BlobsAre DEF Types
  <2>2. /\ ~onChain => updates' = updates
        /\ onChain => \E v \in Updates : /\ v = [field |-> "audit", blob |-> Trail(uploading), pc |-> "reading", read |-> pointers]
                                         /\ updates' = updates \cup {v}
    BY <1>9, <2>1, StartIs DEF Flushed
  <2>3. updates' \subseteq Updates /\ \A u \in updates' : u.blob \in (IF u.field = "transcript" THEN Transcripts ELSE Trails)
    BY <2>1, <2>2 DEF Types
  <2> QED
    BY <1>9, <2>1, <2>3 DEF Flushed, PutBlob, Types, ghosts
<1>10. CASE TickFails
  <2>1. run \in 1..MaxTicks
    BY <1>10 DEF TickFails, Types, Bounded
  <2>2. strays' \subseteq 1..MaxTicks /\ excused' \in BOOLEAN
    BY <1>10, <2>1 DEF TickFails, Types
  <2> QED
    BY <1>10, <2>2 DEF TickFails, Types
<1>11. ASSUME NEW n \in strays, StrayEnds(n) PROVE Types'
  <2>1. Entry(n, "stray") \in Entries
    BY EntriesAre, DemoAssumption DEF Types
  <2> QED
    BY <1>11, <2>1 DEF StrayEnds, Capture, Types, ghosts
<1>12. ASSUME NEW u \in updates, ReadHead(u) PROVE Types'
  <2>1. updates' \subseteq Updates /\ \A v \in updates' : v.blob \in (IF v.field = "transcript" THEN Transcripts ELSE Trails)
    BY <1>12, ReadHeadIs DEF Types
  <2> QED
    BY <1>12, <2>1 DEF ReadHead, Types, ghosts, demoVars
<1>13. ASSUME NEW u \in updates, Execute(u) PROVE Types'
  <2>1. updates' \subseteq Updates /\ \A v \in updates' : v.blob \in (IF v.field = "transcript" THEN Transcripts ELSE Trails)
    BY <1>13, ExecuteIs DEF Types
  <2>2. pointers' \in Heads /\ excused' \in BOOLEAN
    BY <1>13, WrittenIs DEF Execute, Applies, Aborts, Types
  <2> QED
    BY <1>13, <2>1, <2>2 DEF Execute, Types, demoVars
<1>14. ASSUME NEW u \in updates, Confirm(u) PROVE Types'
  <2>1. updates' \subseteq updates
    BY <1>14 DEF Confirm
  <2>2. pc' \in {pc, "artifact"} /\ acked' \in Turns /\ buffer' \subseteq Entries /\ captured' \subseteq Entries
    BY <1>14, AppendedTypes DEF Confirm, Types
  <2> QED
    BY <1>14, <2>1, <2>2 DEF Confirm, Types
<1>15. ASSUME NEW u \in updates, FailUpdate(u) PROVE Types'
  BY <1>15 DEF FailUpdate, Types, ghosts, demoVars
<1>16. CASE Restart
  <2>1. crashes' \in 0..MaxCrashes /\ Boot \in Entries /\ updates' \subseteq updates /\ excused' \in BOOLEAN
    BY <1>16, EntriesAre, DemoAssumption DEF Restart, Types
  <2> QED
    BY <1>16, <2>1, NoTurns DEF Restart, Types
<1>17. CASE UNCHANGED vars
  BY <1>17 DEF vars, demoVars, ghosts, Types
<1> QED
  BY <1>1, <1>2, <1>3, <1>4, <1>5, <1>6, <1>7, <1>8, <1>9, <1>10, <1>11, <1>12, <1>13, <1>14, <1>15,
     <1>16, <1>17 DEF Next, Tick, AllDone

-----------------------------------------------------------------------------
(* Which turns a transcript has, and which updates are under way. *)

LEMMA TurnsEverywhere ==
  ASSUME Types
  PROVE  /\ run \in Nat /\ pointers.transcript.turns \in Turns
         /\ \A u \in updates : /\ u.read.transcript.turns \in Turns
                               /\ u.field = "transcript" => u.blob.turns \in Turns
         /\ \A t \in Turns : UpTo(t, run - 1) => UpTo(t, run)
<1>1. run \in Nat /\ run - 1 \in Int
  BY DemoAssumption DEF Types
<1>2. \A t \in Turns : UpTo(t, run - 1) => UpTo(t, run)
  BY <1>1, UpToLater
<1>3. pointers.transcript.turns \in Turns
  BY BlobsAre DEF Types, Heads
<1>4. \A u \in updates : u.read.transcript.turns \in Turns /\ (u.field = "transcript" => u.blob.turns \in Turns)
  BY BlobsAre DEF Types, Heads, Updates
<1> QED
  BY <1>1, <1>2, <1>3, <1>4

LEMMA AtMostRun ==
  ASSUME Types, Bounded
  PROVE  /\ UpTo(turns, run) /\ UpTo(pointers.transcript.turns, run)
         /\ \A u \in updates : /\ UpTo(u.read.transcript.turns, run)
                               /\ u.field = "transcript" => UpTo(u.blob.turns, run)
<1>1. turns \in Turns
  BY DEF Types
<1> QED
  BY <1>1, TurnsEverywhere DEF Bounded

\* After the tick, or without one, the bound is that of all ticks.
LEMMA BoundedAtRest ==
  ASSUME Types, pc' \in {"idle", "fill", "artifact", "flush"}, run' = run, pc' # "idle" => run > 0,
         UpTo(turns', run), UpTo(pointers'.transcript.turns, run),
         \A u \in updates' : UpTo(u.read.transcript.turns, run) /\ (u.field = "transcript" => UpTo(u.blob.turns, run))
  PROVE  Bounded'
  BY DEF Bounded, Early

LEMMA BoundedStep ==
  ASSUME Types, Bounded, OneAwaited, [Next]_vars
  PROVE  Bounded'
<1> USE TurnsEverywhere, AtMostRun
<1>1. CASE StartTick
  <2>1. run' - 1 = run /\ run' > 0 /\ pc' = "get" /\ pc = "idle" /\ UNCHANGED <<pointers, updates, turns>>
    BY <1>1 DEF StartTick
  <2> QED
    BY <2>1 DEF Bounded, Early
<1>2. CASE Resolve
  <2>1. /\ pc = "get" /\ pc' \in {"loop", "fetch"} /\ turns' = <<>> /\ UNCHANGED <<pointers, updates, run>>
        /\ run > 0
    BY <1>2 DEF Resolve, Bounded
  <2>2. UpTo(turns', run - 1)
    BY <2>1, NoTurns
  <2> QED
    BY <2>1, <2>2 DEF Bounded, Early
<1>3. CASE Fetch
  BY <1>3 DEF Fetch, GetBlob, Bounded, Early
<1>4. CASE Think
  <2>1. /\ pc = "loop" /\ pc' = "put" /\ turns' = Append(turns, run) /\ UNCHANGED <<pointers, updates, run>>
        /\ run \in 1..MaxTicks /\ UpTo(turns, run - 1) /\ turns \in Turns
    BY <1>4 DEF Think, Types, Bounded, Early
  <2>2. UpTo(turns', run) /\ turns' # <<>> /\ turns'[Len(turns')] = run
    BY <2>1, AppendTurn
  <2> QED
    BY <2>1, <2>2 DEF Bounded, Early
<1>5. CASE PutTranscript
  <2>1. pc = "put" /\ pc' = "set" /\ UNCHANGED <<pointers, run, turns>> /\ turns \in Turns
    BY <1>5 DEF PutTranscript, demoVars, Types
  <2>2. PICK v : /\ v.field = "transcript" /\ v.blob = Transcript(turns) /\ v.blob.turns = turns
                 /\ v.read.transcript.turns = pointers.transcript.turns
                 /\ updates' \subseteq updates \cup {v}
    <3> DEFINE v == [field |-> "transcript", blob |-> Transcript(turns), pc |-> "reading", read |-> pointers]
    <3>1. updates' \subseteq updates \cup {v}
      BY <1>5 DEF PutTranscript, StartUpdate
    <3>2. /\ v.field = "transcript" /\ v.blob = Transcript(turns) /\ v.blob.turns = turns
          /\ v.read.transcript.turns = pointers.transcript.turns
      BY <2>1, BlobsAre
    <3> QED
      BY <3>1, <3>2
  <2>3. Awaited(v)'
    BY <2>1, <2>2 DEF Awaited
  <2>4. \A u \in updates' : UpTo(u.read.transcript.turns, run) /\ (u.field = "transcript" => UpTo(u.blob.turns, run))
    BY <2>1, <2>2
  <2>5. \A u \in updates : UpTo(u.read.transcript.turns, run - 1) /\ (u.field = "transcript" => UpTo(u.blob.turns, run - 1))
    BY <2>1 DEF Bounded
  <2>6. /\ run > 0 /\ turns # <<>> /\ turns[Len(turns)] = run /\ UpTo(turns, run)
        /\ UpTo(pointers.transcript.turns, run)
    BY <2>1 DEF Bounded
  <2>7. \A u \in updates' : u.field = "transcript" /\ ~Awaited(u)' => u \in updates
    BY <2>2, <2>3
  <2> QED
    BY <2>1, <2>4, <2>5, <2>6, <2>7 DEF Bounded, Early
<1>6. CASE Truncate
  <2>1. /\ pc = "set" /\ pc' = "fill" /\ pointers'.transcript = None /\ UNCHANGED <<updates, run, turns>> /\ run > 0
    BY <1>6 DEF Truncate, demoVars, Types, Heads, Bounded
  <2>2. UpTo(pointers'.transcript.turns, run)
    BY <2>1, BlobsAre, NoTurns
  <2> QED
    BY <2>1, <2>2, BoundedAtRest
<1>7. CASE Fill
  <2>1. /\ pc = "fill" /\ pc' = "artifact" /\ pointers'.transcript = Transcript(turns) /\ UNCHANGED <<updates, run, turns>> /\ run > 0
    BY <1>7 DEF Fill, Appended, Types, Heads, Bounded
  <2>2. UpTo(pointers'.transcript.turns, run)
    BY <2>1, BlobsAre DEF Types
  <2> QED
    BY <2>1, <2>2, BoundedAtRest
<1>8. CASE Store
  <2>1. pc = "artifact" /\ pc' = "flush" /\ UNCHANGED <<pointers, updates, run, turns>> /\ run > 0
    BY <1>8 DEF Store, Bounded
  <2> QED
    BY <2>1, BoundedAtRest
<1>9. CASE Flushed
  <2> DEFINE v == [field |-> "audit", blob |-> Trail(uploading), pc |-> "reading", read |-> pointers]
  <2>1. pc' = "idle" /\ UNCHANGED <<pointers, run, turns>> /\ updates' \subseteq updates \cup {v}
    BY <1>9 DEF Flushed, StartUpdate
  <2>2. v.field = "audit" /\ v.read.transcript.turns = pointers.transcript.turns
    OBVIOUS
  <2> HIDE DEF v
  <2>3. \A u \in updates' : UpTo(u.read.transcript.turns, run) /\ (u.field = "transcript" => UpTo(u.blob.turns, run))
    BY <2>1, <2>2
  <2> QED
    BY <2>1, <2>3, BoundedAtRest
<1>10. CASE TickFails
  <2>1. pc' = "idle" /\ UNCHANGED <<pointers, updates, run, turns>>
    BY <1>10 DEF TickFails
  <2> QED
    BY <2>1, BoundedAtRest
<1>11. ASSUME NEW n \in strays, StrayEnds(n) PROVE Bounded'
  BY <1>11 DEF StrayEnds, Bounded, Awaited
<1>12. ASSUME NEW u \in updates, ReadHead(u) PROVE Bounded'
  <2>1. PICK v : /\ v.field = u.field /\ v.blob = u.blob /\ v.read = pointers
                 /\ updates' = (updates \ {u}) \cup {v}
    BY <1>12, ReadHeadIs
  <2>2. u.pc = "reading" /\ UNCHANGED <<pc, run, turns, pointers>>
    BY <1>12 DEF ReadHead, demoVars
  <2>3. v.field = "transcript" => Awaited(v)'
    BY <2>1, <2>2 DEF OneAwaited, Awaited
  <2> QED
    BY <2>1, <2>2, <2>3 DEF Bounded, Awaited
<1>13. ASSUME NEW u \in updates, Execute(u) PROVE Bounded'
  <2>1. PICK v : /\ v.field = u.field /\ v.blob = u.blob /\ v.read = u.read
                 /\ updates' = (updates \ {u}) \cup {v}
    BY <1>13, ExecuteIs
  <2>2. UNCHANGED <<pc, run, turns>>
    BY <1>13 DEF Execute, demoVars
  <2>3. \/ pointers' = pointers
        \/ u.field = "transcript" /\ pointers'.transcript = u.blob
        \/ pointers'.transcript = u.read.transcript
    <3>1. u.field \in {"transcript", "audit"}
      BY DEF Types, Updates
    <3> QED
      BY <1>13, <3>1, WrittenIs DEF Execute, Applies, Aborts
  <2> QED
    BY <2>1, <2>2, <2>3 DEF Bounded, Awaited
<1>14. ASSUME NEW u \in updates, Confirm(u) PROVE Bounded'
  <2>1. updates' \subseteq updates /\ UNCHANGED <<pointers, run, turns>>
    BY <1>14 DEF Confirm
  <2>2. CASE Awaited(u)
    <3>1. pc = "set" /\ pc' = "artifact" /\ run > 0
      BY <1>14, <2>2 DEF Confirm, Appended, Awaited, Bounded
    <3> QED
      BY <2>1, <3>1, BoundedAtRest
  <2>3. CASE ~Awaited(u)
    <3>1. pc' = pc
      BY <1>14, <2>3 DEF Confirm
    <3> QED
      BY <2>1, <3>1 DEF Bounded, Awaited
  <2> QED
    BY <2>2, <2>3
<1>15. ASSUME NEW u \in updates, FailUpdate(u) PROVE Bounded'
  <2>1. updates' \subseteq updates /\ UNCHANGED <<pointers, run, turns>> /\ pc' \in {pc, "idle"}
    BY <1>15 DEF FailUpdate, demoVars
  <2>2. CASE pc' = "idle"
    BY <2>1, <2>2, BoundedAtRest
  <2>3. CASE pc' = pc
    BY <2>1, <2>3 DEF Bounded, Awaited
  <2> QED
    BY <2>1, <2>2, <2>3
<1>16. CASE Restart
  <2>1. pc' = "idle" /\ updates' \subseteq updates /\ turns' = <<>> /\ UNCHANGED <<pointers, run>>
    BY <1>16 DEF Restart
  <2>2. UpTo(turns', run)
    BY <2>1, NoTurns
  <2> QED
    BY <2>1, <2>2, BoundedAtRest
<1>17. CASE UNCHANGED vars
  BY <1>17 DEF vars, demoVars, Bounded, Awaited
<1> QED
  BY <1>1, <1>2, <1>3, <1>4, <1>5, <1>6, <1>7, <1>8, <1>9, <1>10, <1>11, <1>12, <1>13, <1>14, <1>15,
     <1>16, <1>17 DEF Next, Tick, AllDone

LEMMA NoneAwaited ==
  ASSUME OneAwaited, pc # "set", pc' # "set", pc' = "fill" => pc = "fill", onChain' = onChain,
         onChain \/ updates' \subseteq updates, \A u \in updates' : u.field = "transcript" => u \in updates
  PROVE  OneAwaited'
  BY DEF OneAwaited, Awaited

LEMMA OneAwaitedStep ==
  ASSUME Types, Bounded, OneAwaited, [Next]_vars
  PROVE  OneAwaited'
<1> USE DEF OneAwaited, Awaited
<1>1. CASE StartTick \/ Resolve \/ Fetch \/ Think \/ Store \/ TickFails
  <2>1. pc # "set" /\ pc' # "set" /\ pc' # "fill" /\ UNCHANGED <<onChain, updates>>
    BY <1>1 DEF StartTick, Resolve, Fetch, Think, Store, TickFails
  <2> QED
    BY <2>1, NoneAwaited
<1>11. ASSUME NEW n \in strays, StrayEnds(n) PROVE OneAwaited'
  BY <1>11 DEF StrayEnds
<1>2. CASE PutTranscript
  <2>1. pc = "put" /\ pc' = "set" /\ UNCHANGED <<onChain, turns, run>>
    BY <1>2 DEF PutTranscript, demoVars
  <2>2. PICK v : v.field = "transcript" /\ v.blob = Transcript(turns) /\ updates' = IF onChain THEN updates \cup {v} ELSE updates
    <3> DEFINE v == [field |-> "transcript", blob |-> Transcript(turns), pc |-> "reading", read |-> pointers]
    <3>1. updates' = IF onChain THEN updates \cup {v} ELSE updates
      BY <1>2 DEF PutTranscript, StartUpdate
    <3>2. v.field = "transcript" /\ v.blob = Transcript(turns)
      OBVIOUS
    <3> QED
      BY <3>1, <3>2
  <2>3. \A u \in updates : u.field = "transcript" => u.blob # Transcript(turns) /\ u.pc # "reading"
    <3> SUFFICES ASSUME NEW u \in updates, u.field = "transcript" PROVE u.blob # Transcript(turns) /\ u.pc # "reading"
      OBVIOUS
    <3>1. u.blob.turns \in Turns /\ UpTo(u.blob.turns, run - 1)
      BY <2>1, TurnsEverywhere DEF Bounded
    <3>2. turns \in Turns /\ turns # <<>> /\ turns[Len(turns)] = run
      BY <2>1 DEF Types, Bounded
    <3>3. ~IsPrefix(turns, u.blob.turns) /\ IsPrefix(turns, turns)
      BY <3>1, <3>2, NotBehind, PrefixRefl, TurnsEverywhere
    <3>4. Transcript(turns).turns = turns
      BY <3>2, BlobsAre
    <3>5. u.pc # "reading"
      BY <2>1
    <3> QED
      BY <3>3, <3>4, <3>5
  <2> QED
    BY <2>1, <2>2, <2>3
<1>3. CASE Truncate \/ Fill
  BY <1>3 DEF Truncate, Fill, Appended, demoVars
<1>4. CASE Flushed
  <2>1. /\ pc = "flush" /\ pc' = "idle" /\ UNCHANGED onChain
        /\ onChain \/ updates' \subseteq updates
        /\ \A u \in updates' : u.field = "transcript" => u \in updates
    BY <1>4 DEF Flushed, StartUpdate
  <2> QED
    BY <2>1, NoneAwaited
<1>5. ASSUME NEW u \in updates, ReadHead(u) PROVE OneAwaited'
  <2>1. PICK v : /\ v.field = u.field /\ v.blob = u.blob /\ v.pc = "executing"
                 /\ updates' = (updates \ {u}) \cup {v}
    BY <1>5, ReadHeadIs
  <2>2. UNCHANGED <<pc, turns, onChain>>
    BY <1>5 DEF ReadHead, demoVars
  <2> QED
    BY <2>1, <2>2
<1>6. ASSUME NEW u \in updates, Execute(u) PROVE OneAwaited'
  <2>1. PICK v : /\ v.field = u.field /\ v.blob = u.blob /\ v.pc = "confirming"
                 /\ updates' = (updates \ {u}) \cup {v}
    BY <1>6, ExecuteIs
  <2>2. UNCHANGED <<pc, turns, onChain>>
    BY <1>6 DEF Execute, demoVars
  <2> QED
    BY <2>1, <2>2
<1>7. ASSUME NEW u \in updates, Confirm(u) PROVE OneAwaited'
  <2>1. updates' = updates \ {u} /\ UNCHANGED <<onChain, turns>>
        /\ pc' = IF Awaited(u) THEN "artifact" ELSE pc
    BY <1>7 DEF Confirm, Appended
  <2> QED
    BY <2>1
<1>8. ASSUME NEW u \in updates, FailUpdate(u) PROVE OneAwaited'
  <2>1. updates' = updates \ {u} /\ UNCHANGED <<onChain, turns>>
        /\ pc' = IF Awaited(u) THEN "idle" ELSE pc
    BY <1>8 DEF FailUpdate, demoVars
  <2> QED
    BY <2>1
<1>9. CASE Restart
  <2>1. /\ pc' = "idle" /\ UNCHANGED onChain /\ updates' \subseteq updates
        /\ \A u \in updates' : u.pc # "reading"
    BY <1>9 DEF Restart
  <2> QED
    BY <2>1
<1>10. CASE UNCHANGED vars
  BY <1>10 DEF vars, demoVars
<1> QED
  BY <1>1, <1>2, <1>3, <1>4, <1>5, <1>6, <1>7, <1>8, <1>9, <1>10, <1>11 DEF Next, Tick, AllDone

-----------------------------------------------------------------------------
(* The blob before its pointer; the entry before the reset. *)

LEMMA BlobsFirstStep ==
  ASSUME Types, BlobsFirst, [Next]_vars
  PROVE  BlobsFirst'
<1> USE DEF BlobsFirst, PointersLead
<1>1. CASE \/ StartTick \/ Resolve \/ Fetch \/ Think \/ TickFails
  BY <1>1 DEF StartTick, Resolve, Fetch, Think, TickFails
<1>2. CASE PutTranscript
  <2>1. /\ stored' = stored \cup {Transcript(turns)} /\ UNCHANGED <<pointers, turns>>
    BY <1>2 DEF PutTranscript, PutBlob, demoVars
  <2>2. \A u \in updates' : u \in updates \/ (u.blob = Transcript(turns) /\ u.read = pointers)
    BY <1>2 DEF PutTranscript, StartUpdate
  <2> QED
    BY <2>1, <2>2
<1>3. CASE Truncate
  <2>1. pointers'.transcript = None /\ pointers'.audit = pointers.audit
    BY <1>3 DEF Truncate, Types, Heads
  <2> QED
    BY <1>3, <2>1 DEF Truncate, demoVars
<1>4. CASE Fill
  <2>1. pointers'.transcript = Transcript(turns) /\ pointers'.audit = pointers.audit
    BY <1>4 DEF Fill, Types, Heads
  <2> QED
    BY <1>4, <2>1 DEF Fill, Appended
<1>5. CASE Store
  BY <1>5 DEF Store, PutBlob
<1>6. CASE Flushed
  <2>1. stored' = stored \cup {Trail(uploading)} /\ pc' = "idle" /\ UNCHANGED pointers
    BY <1>6 DEF Flushed, PutBlob
  <2>2. \A u \in updates' : u \in updates \/ (u.blob = Trail(uploading) /\ u.read = pointers)
    BY <1>6 DEF Flushed, StartUpdate
  <2> QED
    BY <2>1, <2>2
<1>7. ASSUME NEW n \in strays, StrayEnds(n) PROVE BlobsFirst'
  BY <1>7 DEF StrayEnds
<1>8. ASSUME NEW u \in updates, ReadHead(u) PROVE BlobsFirst'
  <2>1. \A v \in updates' : v \in updates \/ (v.blob = u.blob /\ v.read = pointers)
    BY <1>8, ReadHeadIs
  <2> QED
    BY <1>8, <2>1 DEF ReadHead, demoVars
<1>9. ASSUME NEW u \in updates, Execute(u) PROVE BlobsFirst'
  <2>1. \A v \in updates' : v \in updates \/ (v.blob = u.blob /\ v.read = u.read)
    BY <1>9, ExecuteIs
  <2>2. UNCHANGED <<stored, pc, turns>>
    BY <1>9 DEF Execute, demoVars
  <2>3. /\ pointers'.transcript \in {pointers.transcript, u.read.transcript, u.blob}
        /\ pointers'.audit \in {pointers.audit, u.read.audit, u.blob}
    <3>1. u.field \in {"transcript", "audit"}
      BY DEF Types, Updates
    <3> QED
      BY <1>9, <3>1, WrittenIs DEF Execute, Applies, Aborts
  <2>4. PointersLead'
    BY <2>2, <2>3
  <2> QED
    BY <2>1, <2>2, <2>4
<1>10. ASSUME NEW u \in updates, Confirm(u) PROVE BlobsFirst'
  BY <1>10 DEF Confirm, Appended
<1>11. ASSUME NEW u \in updates, FailUpdate(u) PROVE BlobsFirst'
  BY <1>11 DEF FailUpdate, demoVars
<1>12. CASE Restart
  BY <1>12 DEF Restart
<1>13. CASE UNCHANGED vars
  BY <1>13 DEF vars, demoVars
<1> QED
  BY <1>1, <1>2, <1>3, <1>4, <1>5, <1>6, <1>7, <1>8, <1>9, <1>10, <1>11, <1>12, <1>13 DEF Next, Tick, AllDone

\* An entry that is captured is in the buffer from then on.
LEMMA Captured ==
  ASSUME Serialised, pc' # "flush", UNCHANGED stored,
         \E entries : buffer' = buffer \cup entries /\ captured' = captured \cup entries
  PROVE  Serialised'
  BY DEF Serialised, OnlyStraysDropped

LEMMA SerialisedStep ==
  ASSUME Types, Serialised, [Next]_vars
  PROVE  Serialised'
<1>1. CASE StartTick \/ Think \/ Fill
  BY <1>1, Captured DEF StartTick, Think, Fill, Appended, Capture
<1>2. CASE Resolve \/ Fetch \/ Truncate \/ TickFails
  BY <1>2 DEF Resolve, Fetch, Truncate, TickFails, Serialised, OnlyStraysDropped, demoVars
<1>3. CASE PutTranscript
  BY <1>3 DEF PutTranscript, PutBlob, Serialised, OnlyStraysDropped, demoVars
<1>4. CASE Store
  BY <1>4 DEF Store, PutBlob, Serialise, Serialised, OnlyStraysDropped
<1>5. CASE Flushed
  <2>1. /\ stored' = stored \cup {Trail(uploading)} /\ pc = "flush" /\ pc' = "idle" /\ UNCHANGED captured
    BY <1>5 DEF Flushed, PutBlob
  <2>2. Trail(uploading).kind = "audit" /\ Trail(uploading).entries = uploading
    BY DEF Trail
  <2>3. \A e \in buffer : e.at = "stray" \/ \E b \in stored' : b.kind = "audit" /\ e \in b.entries
    BY <2>1, <2>2 DEF Serialised
  <2> QED
    BY <2>1, <2>3 DEF Serialised, OnlyStraysDropped
<1>6. ASSUME NEW n \in strays, StrayEnds(n) PROVE Serialised'
  <2>1. Entry(n, "stray").at = "stray"
    BY DEF Entry
  <2> QED
    BY <1>6, <2>1 DEF StrayEnds, Capture, Serialised, OnlyStraysDropped
<1>7. ASSUME NEW u \in updates, ReadHead(u) \/ Execute(u) \/ FailUpdate(u) PROVE Serialised'
  BY <1>7 DEF ReadHead, Execute, FailUpdate, Serialised, OnlyStraysDropped, demoVars
<1>8. ASSUME NEW u \in updates, Confirm(u) PROVE Serialised'
  <2>1. CASE Awaited(u)
    BY <1>8, <2>1, Captured DEF Confirm, Appended, Capture
  <2>2. CASE ~Awaited(u)
    BY <1>8, <2>2 DEF Confirm, Serialised, OnlyStraysDropped
  <2> QED
    BY <2>1, <2>2
<1>9. CASE Restart
  BY <1>9 DEF Restart, Serialised, OnlyStraysDropped
<1>10. CASE UNCHANGED vars
  BY <1>10 DEF vars, demoVars, Serialised, OnlyStraysDropped
<1> QED
  BY <1>1, <1>2, <1>3, <1>4, <1>5, <1>6, <1>7, <1>8, <1>9, <1>10 DEF Next, Tick, AllDone

-----------------------------------------------------------------------------
(* Acknowledged turns. *)

\* The turn is appended to the transcript that the pointer leads to: whatever may still be
\* written either has it, or has read pointers that are behind it.
LEMMA AppendedKept ==
  ASSUME Types, Bounded, OneAwaited, AckedKept, Appended, pc = "set", ~excused, UNCHANGED <<torn, excused, pointers>>,
         updates' \subseteq updates, pointers.transcript = Transcript(turns)
  PROVE  AckedKept'
<1>1. pc' = "artifact" /\ acked' = turns /\ turns \in Turns /\ acked \in Turns /\ ~torn
  BY DEF Appended, Types, AckedKept
<1>2. IsPrefix(turns, pointers.transcript.turns)
  BY <1>1, BlobsAre, PrefixRefl
<1>3. ASSUME NEW u \in updates, u.field = "transcript"
      PROVE  /\ u.pc = "reading" => IsPrefix(turns, u.blob.turns)
             /\ u.pc = "executing" => \/ IsPrefix(turns, u.blob.turns)
                                      \/ ~IsPrefix(turns, u.read.transcript.turns)
  <2>1. CASE Awaited(u)
    <3>1. u.blob.turns = turns
      BY <1>1, <2>1, BlobsAre DEF Awaited
    <3> QED
      BY <1>1, <3>1, PrefixRefl
  <2>2. CASE ~Awaited(u)
    <3>1. u.pc # "reading"
      BY <1>3, <2>2 DEF OneAwaited
    <3>2. UpTo(u.read.transcript.turns, run - 1) /\ turns # <<>> /\ turns[Len(turns)] = run
      BY <1>3, <2>2 DEF Bounded
    <3>3. ~IsPrefix(turns, u.read.transcript.turns)
      BY <1>1, <3>2, NotBehind, TurnsEverywhere
    <3> QED
      BY <3>1, <3>3
  <2> QED
    BY <2>1, <2>2
<1> QED
  BY <1>1, <1>2, <1>3 DEF AckedKept, Awaited

LEMMA AckedKeptStep ==
  ASSUME Types, Bounded, OneAwaited, AckedKept, [Next]_vars
  PROVE  AckedKept'
<1>0. turns \in Turns /\ acked \in Turns
  BY DEF Types
<1>1. CASE StartTick
  BY <1>1 DEF StartTick, AckedKept, Awaited, ghosts
<1>2. CASE Resolve
  <2>1. pc = "get" /\ turns' = <<>> /\ UNCHANGED <<torn, excused, pointers, updates, acked>>
        /\ pc' = IF pointers.transcript = None THEN "loop" ELSE "fetch"
    BY <1>2 DEF Resolve, ghosts
  <2>2. ~excused => ~torn /\ IsPrefix(acked, pointers.transcript.turns)
    BY <2>1 DEF AckedKept
  <2>3. ~excused /\ pc' = "loop" => IsPrefix(acked, turns')
    BY <2>1, <2>2, BlobsAre
  <2> QED
    BY <2>1, <2>2, <2>3 DEF AckedKept, Awaited
<1>3. CASE Fetch
  <2>1. pc = "fetch" /\ pc' = "loop" /\ turns' = pointers.transcript.turns /\ UNCHANGED <<torn, excused, pointers, updates, acked>>
    BY <1>3 DEF Fetch, GetBlob, ghosts
  <2>2. ~excused => ~torn /\ IsPrefix(acked, turns')
    BY <2>1 DEF AckedKept
  <2> QED
    BY <2>1, <2>2 DEF AckedKept, Awaited
<1>4. CASE Think
  <2>1. pc = "loop" /\ pc' = "put" /\ turns' = Append(turns, run) /\ UNCHANGED <<torn, excused, pointers, updates, acked>>
        /\ run \in 1..MaxTicks /\ UpTo(turns, run - 1)
    BY <1>4 DEF Think, Types, Bounded, Early, ghosts
  <2>2. Append(turns, run) \in Turns
    BY <1>0, <2>1, AppendTurn
  <2>3. ~excused => IsPrefix(acked, turns')
    <3>1. ~excused => IsPrefix(acked, turns)
      BY <2>1 DEF AckedKept
    <3> QED
      BY <1>0, <2>1, <2>2, <3>1, PrefixAppend
  <2> QED
    BY <2>1, <2>3 DEF AckedKept, Awaited
<1>5. CASE PutTranscript
  <2>1. pc = "put" /\ pc' = "set" /\ UNCHANGED <<torn, excused, pointers, turns, acked, run>>
    BY <1>5 DEF PutTranscript, ghosts, demoVars
  <2>2. \A u \in updates' : u \in updates \/ (u.field = "transcript" /\ u.pc = "reading" /\ u.blob = Transcript(turns))
    BY <1>5 DEF PutTranscript, StartUpdate
  <2>3. Transcript(turns).turns = turns
    BY <1>0, BlobsAre
  <2>4. \A u \in updates : u.field = "transcript" => u.blob # Transcript(turns)
    <3> SUFFICES ASSUME NEW u \in updates, u.field = "transcript", u.blob = Transcript(turns) PROVE FALSE
      OBVIOUS
    <3>1. UpTo(turns, run - 1) /\ turns # <<>> /\ turns[Len(turns)] = run
      BY <2>1, <2>3 DEF Bounded
    <3> QED
      BY <1>0, <3>1, NotBehind, PrefixRefl, TurnsEverywhere
  <2> QED
    BY <2>1, <2>2, <2>3, <2>4 DEF AckedKept, Awaited
<1>6. CASE Truncate
  <2>1. pc = "set" /\ pc' = "fill" /\ torn' /\ UNCHANGED <<excused, updates, acked>> /\ updates = {}
    BY <1>6 DEF Truncate, ghosts, OneAwaited
  <2> QED
    BY <2>1 DEF AckedKept, Types
<1>7. CASE Fill
  <2>1. pc' = "artifact" /\ ~torn' /\ UNCHANGED <<excused, updates>> /\ updates = {}
        /\ acked' = turns /\ pointers'.transcript = Transcript(turns)
    BY <1>7 DEF Fill, Appended, OneAwaited, Types, Heads
  <2>2. IsPrefix(acked', pointers'.transcript.turns)
    BY <1>0, <2>1, BlobsAre, PrefixRefl
  <2> QED
    BY <2>1, <2>2 DEF AckedKept
<1>8. CASE Store
  BY <1>8 DEF Store, AckedKept, Awaited, ghosts
<1>9. CASE Flushed
  <2>1. pc = "flush" /\ pc' = "idle" /\ UNCHANGED <<torn, excused, pointers, acked>>
    BY <1>9 DEF Flushed, ghosts
  <2>2. \A u \in updates' : u.field = "transcript" => u \in updates
    BY <1>9 DEF Flushed, StartUpdate
  <2> QED
    BY <2>1, <2>2 DEF AckedKept, Awaited
<1>10. CASE TickFails
  <2>1. pc # "set" /\ pc' = "idle" /\ UNCHANGED <<torn, pointers, updates, turns, acked>> /\ excused' = (excused \/ torn)
    BY <1>10 DEF TickFails
  <2> QED
    BY <2>1 DEF AckedKept, Awaited
<1>11. ASSUME NEW n \in strays, StrayEnds(n) PROVE AckedKept'
  BY <1>11 DEF StrayEnds, AckedKept, Awaited, ghosts
<1>12. ASSUME NEW u \in updates, ReadHead(u) PROVE AckedKept'
  <2>1. PICK v : /\ v = [field |-> u.field, blob |-> u.blob, pc |-> "executing", read |-> pointers]
                 /\ updates' = (updates \ {u}) \cup {v}
    BY <1>12, ReadHeadIs
  <2>2. v.field = u.field /\ v.blob = u.blob /\ v.pc = "executing"
    BY <2>1
  <2>3. u.pc = "reading" /\ UNCHANGED <<pc, torn, excused, pointers, turns, acked>>
    BY <1>12 DEF ReadHead, ghosts, demoVars
  <2> QED
    BY <2>1, <2>2, <2>3 DEF AckedKept, Awaited
<1>13. ASSUME NEW u \in updates, Execute(u) PROVE AckedKept'
  <2>1. PICK v : /\ v.field = u.field /\ v.blob = u.blob /\ v.pc = "confirming" /\ v.read = u.read
                 /\ updates' = (updates \ {u}) \cup {v}
    BY <1>13, ExecuteIs
  <2>2. u.pc = "executing" /\ UNCHANGED <<pc, torn, turns, acked, onChain>> /\ (excused => excused')
    BY <1>13 DEF Execute, Applies, Aborts, demoVars
  <2>3. CASE excused'
    BY <2>1, <2>2, <2>3 DEF AckedKept
  <2>4. CASE ~excused'
    <3>1. ~excused /\ u.read = pointers /\ pointers' = Written(u)
      BY <1>13, <2>4 DEF Execute, Applies, Aborts, Types
    <3>2. ~torn
      BY <3>1 DEF AckedKept, OneAwaited
    <3>3. CASE u.field = "audit"
      <4>1. pointers'.transcript = pointers.transcript
        BY <3>1, <3>3, WrittenIs
      <4> QED
        BY <2>1, <2>2, <3>1, <3>2, <3>3, <4>1 DEF AckedKept, Awaited
    <3>4. CASE u.field = "transcript"
      <4>1. pointers'.transcript = u.blob
        BY <3>1, <3>4, WrittenIs
      <4>2. IsPrefix(acked, u.blob.turns)
        BY <2>2, <3>1, <3>2, <3>4 DEF AckedKept
      <4>3. ASSUME NEW w \in updates, w # u, w.field = "transcript", w.pc = "confirming", Awaited(w)
            PROVE  FALSE
        <5>1. pointers.transcript = w.blob /\ ~Awaited(u) /\ pc = "set" /\ w.blob = Transcript(turns)
          BY <3>1, <4>3 DEF AckedKept, OneAwaited, Awaited
        <5>2. UpTo(turns, run - 1) /\ turns # <<>> /\ turns[Len(turns)] = run
          BY <1>0, <3>1, <3>4, <5>1, BlobsAre DEF Bounded
        <5> QED
          BY <1>0, <5>2, NotBehind, PrefixRefl, TurnsEverywhere
      <4> QED
        BY <2>1, <2>2, <3>1, <3>2, <4>1, <4>2, <4>3 DEF AckedKept, Awaited
    <3>5. u.field \in {"transcript", "audit"}
      BY DEF Types, Updates
    <3> QED
      BY <3>3, <3>4, <3>5
  <2> QED
    BY <2>3, <2>4
<1>14. ASSUME NEW u \in updates, Confirm(u) PROVE AckedKept'
  <2>1. updates' \subseteq updates /\ UNCHANGED <<torn, excused, pointers, turns>> /\ u.pc = "confirming"
    BY <1>14 DEF Confirm
  <2>2. CASE Awaited(u)
    <3>1. Appended /\ pc = "set" /\ u.field = "transcript" /\ u.blob = Transcript(turns)
      BY <1>14, <2>2 DEF Confirm, Awaited
    <3>2. CASE excused
      <4>1. pc' = "artifact"
        BY <3>1 DEF Appended
      <4> QED
        BY <2>1, <3>2 DEF AckedKept
    <3>3. CASE ~excused
      <4>1. pointers.transcript = Transcript(turns)
        BY <2>1, <2>2, <3>1, <3>3 DEF AckedKept
      <4> QED
        BY <2>1, <3>1, <3>3, <4>1, AppendedKept
    <3> QED
      BY <3>2, <3>3
  <2>3. CASE ~Awaited(u)
    <3>1. UNCHANGED <<pc, acked>>
      BY <1>14, <2>3 DEF Confirm
    <3> QED
      BY <2>1, <3>1 DEF AckedKept, Awaited
  <2> QED
    BY <2>2, <2>3
<1>15. ASSUME NEW u \in updates, FailUpdate(u) PROVE AckedKept'
  <2>1. updates' \subseteq updates /\ UNCHANGED <<torn, excused, pointers, turns, acked>>
        /\ pc' = IF Awaited(u) THEN "idle" ELSE pc
    BY <1>15 DEF FailUpdate, ghosts, demoVars
  <2> QED
    BY <2>1 DEF AckedKept, Awaited
<1>16. CASE Restart
  <2>1. pc' = "idle" /\ updates' \subseteq updates /\ UNCHANGED <<torn, pointers, acked>> /\ excused' = (excused \/ torn)
    BY <1>16 DEF Restart
  <2> QED
    BY <2>1 DEF AckedKept, Awaited
<1>17. CASE UNCHANGED vars
  BY <1>17 DEF vars, demoVars, ghosts, AckedKept, Awaited
<1> QED
  BY <1>1, <1>2, <1>3, <1>4, <1>5, <1>6, <1>7, <1>8, <1>9, <1>10, <1>11, <1>12, <1>13, <1>14, <1>15,
     <1>16, <1>17 DEF Next, Tick, AllDone

-----------------------------------------------------------------------------
LEMMA InitIInv == Init => IInv
<1> SUFFICES ASSUME Init PROVE IInv
  OBVIOUS
<1>1. Types /\ Bounded
  BY InitTypes
<1>2. OneAwaited /\ BlobsFirst
  BY DEF Init, OneAwaited, BlobsFirst, PointersLead, Awaited
<1>3. Serialised
  BY DEF Init, Serialised, OnlyStraysDropped
<1>4. AckedKept
  <2>1. IsPrefix(acked, pointers.transcript.turns)
    BY NoTurns, BlobsAre, PrefixRefl DEF Init
  <2> QED
    BY <2>1 DEF Init, AckedKept
<1> QED
  BY <1>1, <1>2, <1>3, <1>4 DEF IInv

THEOREM Invariance == Spec => []IInv
<1>1. Init => IInv
  BY InitIInv
<1>2. IInv /\ [Next]_vars => IInv'
  BY TypesStep, BoundedStep, OneAwaitedStep, BlobsFirstStep, SerialisedStep, AckedKeptStep DEF IInv
<1> QED
  BY <1>1, <1>2, PTL DEF Spec

\* Every pointer, in the file, on the chain and in an update under way, leads to a blob of its
\* own kind, and no transcript is longer than the ticks there were.
THEOREM TypeCorrect == Spec => []TypeOK
<1>1. IInv => TypeOK
  <2> SUFFICES ASSUME Types PROVE TypeOK
    BY DEF IInv
  <2>1. \A b \in Transcripts : IsTranscript(b)
    BY DEF Transcripts, IsTranscript
  <2>2. \A b \in Trails : IsTrail(b)
    BY DEF Trails, IsTrail
  <2>3. \A b \in Artifacts : b.kind = "artifact" /\ b.tick \in 1..MaxTicks
    BY DEF Artifacts
  <2>4. \A h \in Heads : IsTranscript(h.transcript) /\ IsTrail(h.audit)
    BY <2>1, <2>2 DEF Heads
  <2> QED
    BY <2>1, <2>2, <2>3, <2>4 DEF Types, Updates, TypeOK
<1> QED
  BY <1>1, Invariance, PTL

\* A pointer never leads to a blob that is not on Walrus: through failed ticks, restarts,
\* transactions that land late, and writes of pointers that were read too early.
THEOREM PointersLeadToBlobs == Spec => []PointersLead
<1>1. IInv => PointersLead
  BY DEF IInv, BlobsFirst
<1> QED
  BY <1>1, Invariance, PTL

\* An audit entry leaves the buffer only into a stored trail, whatever fails between flush and
\* reset, but for the tools that a failed run left behind.
THEOREM EntriesFlushed == Spec => []OnlyStraysDropped
<1>1. IInv => OnlyStraysDropped
  BY DEF IInv, Serialised
<1> QED
  BY <1>1, Invariance, PTL

\* The next tick loads every turn whose append has resolved, on chain and with a file, unless a
\* write of the pointers was stale, aborted or cut short.
THEOREM AcknowledgedStay == Spec => []AcknowledgedTurnsStay
<1>1. IInv => AcknowledgedTurnsStay
  BY DEF IInv, AckedKept, AcknowledgedTurnsStay
<1> QED
  BY <1>1, Invariance, PTL
=============================================================================
