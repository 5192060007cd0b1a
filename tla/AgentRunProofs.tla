---------------------------- MODULE AgentRunProofs ----------------------------
(***************************************************************************)
(* agent.run, for any number of runs, sessions, steps and sub-agents: what *)
(* a session stores are whole turns, the loop's guards hold, one run at a  *)
(* time makes a conversation grow, and what the middleware of any agent    *)
(* make of a transcript is a well-formed request.                          *)
(***************************************************************************)
EXTENDS AgentRun, SequenceTheorems, FiniteSetTheorems, WellFoundedInduction, TLAPS

\* What may follow a message in one run.
Follows(m, n) == \/ m.role = "system" /\ n.role = "user"
                 \/ m.role \in {"user", "tool"} /\ n.role = "assistant"
                 \/ AsksForTools(m) /\ n.role = "tool" /\ n.calls = m.calls

\* A turn begins where another one has ended.
Begins(m, n) == m.role = "assistant" /\ n.role = "user"

CutByGuard(t, i) == AsksForTools(t[i]) => RepeatedRounds(t, i, MAX_REPEAT)

\* A transcript of whole turns, of which the last may still be under way: the system prompt
\* first, each run's messages in one piece and in the order of the loop, calls unanswered only
\* where the repeat guard has ended a run, and answered only where it has not.
Turnwise(t) ==
  /\ t # <<>> => t[1].role = IF SystemPrompt THEN "system" ELSE "user"
  /\ \A i \in 1..Len(t) : i + 1 <= Len(t) =>
       IF t[i].run = t[i + 1].run THEN Follows(t[i], t[i + 1])
       ELSE Begins(t[i], t[i + 1]) /\ CutByGuard(t, i)
  /\ \A i, j \in 1..Len(t) : i <= j /\ t[i].run = t[j].run => \A k \in i..j : t[k].run = t[i].run
  /\ \A i \in 1..Len(t) : RepeatedRounds(t, i, MAX_REPEAT) => ~AnsweredAt(t, i)

\* No turn is under way in it.
Ended(t) == t # <<>> => t[Len(t)].role = "assistant" /\ CutByGuard(t, Len(t))

Answers(r) == {i \in DOMAIN messages[r] : messages[r][i].run = r /\ messages[r][i].role = "assistant"}

\* Of the asks at its end, the last `loop.repeats` are for the same calls.
CountsRounds(t, i, loop) ==
  /\ loop.repeats \in 1..MAX_REPEAT - 1
  /\ \A k \in 1..MAX_REPEAT : RepeatedRounds(t, i, k) <=> k <= loop.repeats

\* The run's own loop waits for the model.
Thinking(r) ==
  LET t == messages[r] IN
  /\ Cardinality(Answers(r)) = loops[r][1].step
  /\ \/ t[Len(t)].role = "user" /\ loops[r][1].signature = NoCalls
     \/ /\ t[Len(t)].role = "tool" /\ t[Len(t)].calls = loops[r][1].signature
        /\ CountsRounds(t, Len(t) - 1, loops[r][1])

\* It waits for the tools of its last answer, a sub-agent among them.
Acting(r) ==
  LET t == messages[r] IN
  /\ Cardinality(Answers(r)) = loops[r][1].step + 1
  /\ AsksForTools(t[Len(t)]) /\ t[Len(t)].calls = loops[r][1].signature
  /\ CountsRounds(t, Len(t), loops[r][1])

\* Where a run is: its loops, and the end of its transcript.
RunOk(r) ==
  /\ pc[r] \in {"thinking", "acting"} <=> loops[r] # <<>>
  /\ pc[r] \in {"idle", "loading"} => messages[r] = <<>>
  /\ pc[r] \in {"thinking", "acting", "saving"} => messages[r] # <<>> /\ messages[r][Len(messages[r])].run = r
  /\ pc[r] = "thinking" /\ ~InSubAgent(r) => Thinking(r)
  /\ pc[r] \in {"thinking", "acting"} /\ (pc[r] = "acting" \/ InSubAgent(r)) => Acting(r)
  /\ pc[r] = "saving" => Ended(messages[r])
  /\ Cardinality(Answers(r)) <= MaxSteps

RunState == \A r \in Runs : RunOk(r)

\* Whose messages a run's transcript has: its own and those of runs that its session has stored.
Own ==
  \A r \in Runs : \A i \in 1..Len(messages[r]) :
    LET o == messages[r][i].run IN o = r \/ (pc[o] = "done" /\ session[o] = session[r])

TurnsWhole ==
  /\ \A r \in Runs : Turnwise(messages[r])
  /\ \A s \in Sessions :
       /\ Turnwise(store[s]) /\ Ended(store[s])
       /\ \A i \in 1..Len(store[s]) : pc[store[s][i].run] = "done" /\ session[store[s][i].run] = s

\* With one active run per session, it works on what the session has stored.
OnStored ==
  ~overlap =>
    /\ \A r, o \in Runs : Active(r) /\ Active(o) /\ session[r] = session[o] => r = o
    /\ \A r \in Runs : pc[r] \in {"thinking", "acting", "saving"} =>
         /\ Len(store[session[r]]) <= Len(messages[r])
         /\ \A i \in 1..Len(store[session[r]]) : messages[r][i] = store[session[r]][i]

IInv == TypeOK /\ RunState /\ Own /\ TurnsWhole /\ OnStored

-----------------------------------------------------------------------------
(* A message is pushed. *)

LEMMA PushIs ==
  ASSUME NEW t \in Seq(Message), NEW m \in Message
  PROVE  /\ Append(t, m) \in Seq(Message) /\ Len(Append(t, m)) = Len(t) + 1 /\ Len(t) \in Nat
         /\ Append(t, m)[Len(t) + 1] = m /\ Append(t, m) # <<>>
         /\ \A i \in 1..Len(t) : Append(t, m)[i] = t[i]
  OBVIOUS

\* The rounds that end at an earlier message are what they were.
LEMMA RoundsKeep ==
  ASSUME NEW t, NEW a, Len(t) \in Nat, Len(a) \in Nat, DOMAIN t = 1..Len(t), DOMAIN a = 1..Len(a),
         Len(t) <= Len(a), \A j \in 1..Len(t) : a[j] = t[j],
         NEW i \in 1..Len(t), NEW n \in Nat
  PROVE  RepeatedRounds(a, i, n) <=> RepeatedRounds(t, i, n)
<1>1. \A k \in 0..n - 1 : i - 2 * k \in Int /\ i - 2 * k <= Len(t)
  OBVIOUS
<1>2. \A k \in 0..n - 1 : i - 2 * k \in DOMAIN t <=> i - 2 * k \in DOMAIN a
  BY <1>1
<1>3. \A k \in 0..n - 1 : i - 2 * k \in DOMAIN t => a[i - 2 * k] = t[i - 2 * k]
  OBVIOUS
<1>4. a[i] = t[i]
  OBVIOUS
<1> QED
  BY <1>2, <1>3, <1>4 DEF RepeatedRounds

\* One more round ends at the ask that is pushed, if the one before it was for the same calls.
LEMMA OneMoreRound ==
  ASSUME NEW t \in Seq(Message), NEW m \in Message, AsksForTools(m), NEW n \in Nat, n >= 1
  PROVE  RepeatedRounds(Append(t, m), Len(t) + 1, n) <=>
           \/ n = 1
           \/ /\ Len(t) - 1 \in 1..Len(t) /\ t[Len(t) - 1].run = m.run /\ t[Len(t) - 1].calls = m.calls
              /\ RepeatedRounds(t, Len(t) - 1, n - 1)
<1> DEFINE a == Append(t, m)
<1>1. /\ a \in Seq(Message) /\ Len(a) = Len(t) + 1 /\ Len(t) \in Nat /\ DOMAIN a = 1..(Len(t) + 1) /\ DOMAIN t = 1..Len(t)
      /\ a[Len(t) + 1] = m /\ \A i \in 1..Len(t) : a[i] = t[i]
  BY PushIs
<1> HIDE DEF a
<1>2. ASSUME RepeatedRounds(a, Len(t) + 1, n), n # 1
      PROVE  /\ Len(t) - 1 \in 1..Len(t) /\ t[Len(t) - 1].run = m.run /\ t[Len(t) - 1].calls = m.calls
             /\ RepeatedRounds(t, Len(t) - 1, n - 1)
  <2>1. \A k \in 0..n - 1 : /\ Len(t) + 1 - 2 * k \in 1..(Len(t) + 1) /\ AsksForTools(a[Len(t) + 1 - 2 * k])
                            /\ a[Len(t) + 1 - 2 * k].run = m.run /\ a[Len(t) + 1 - 2 * k].calls = m.calls
    BY <1>1, <1>2 DEF RepeatedRounds
  <2>2. \A k \in 0..n - 2 : /\ k + 1 \in 0..n - 1 /\ Len(t) + 1 - 2 * (k + 1) = Len(t) - 1 - 2 * k
    BY <1>1
  <2>3. \A k \in 0..n - 2 : /\ Len(t) - 1 - 2 * k \in 1..(Len(t) + 1) /\ AsksForTools(a[Len(t) - 1 - 2 * k])
                            /\ a[Len(t) - 1 - 2 * k].run = m.run /\ a[Len(t) - 1 - 2 * k].calls = m.calls
    BY <2>1, <2>2
  <2>4. \A k \in 0..n - 2 : Len(t) - 1 - 2 * k \in 1..Len(t)
    BY <1>1, <2>3
  <2>5. \A k \in 0..n - 2 : /\ Len(t) - 1 - 2 * k \in DOMAIN t /\ AsksForTools(t[Len(t) - 1 - 2 * k])
                            /\ t[Len(t) - 1 - 2 * k].run = m.run /\ t[Len(t) - 1 - 2 * k].calls = m.calls
    BY <1>1, <2>3, <2>4
  <2>6. Len(t) - 1 \in 1..Len(t) /\ t[Len(t) - 1].run = m.run /\ t[Len(t) - 1].calls = m.calls
    <3>1. 0 \in 0..n - 2 /\ Len(t) - 1 - 2 * 0 = Len(t) - 1
      BY <1>1, <1>2
    <3> QED
      BY <1>1, <2>5, <3>1
  <2>7. (n - 1) - 1 = n - 2
    OBVIOUS
  <2> QED
    BY <2>5, <2>6, <2>7 DEF RepeatedRounds
<1>3. ASSUME n = 1 PROVE RepeatedRounds(a, Len(t) + 1, n)
  <2>1. \A k \in 0..n - 1 : k = 0 /\ Len(t) + 1 - 2 * k = Len(t) + 1
    BY <1>1, <1>3
  <2> QED
    BY <1>1, <2>1 DEF RepeatedRounds
<1>4. ASSUME Len(t) - 1 \in 1..Len(t), t[Len(t) - 1].run = m.run, t[Len(t) - 1].calls = m.calls,
             RepeatedRounds(t, Len(t) - 1, n - 1)
      PROVE  RepeatedRounds(a, Len(t) + 1, n)
  <2> SUFFICES ASSUME NEW k \in 0..n - 1
               PROVE  /\ Len(t) + 1 - 2 * k \in 1..(Len(t) + 1) /\ AsksForTools(a[Len(t) + 1 - 2 * k])
                      /\ a[Len(t) + 1 - 2 * k].run = m.run /\ a[Len(t) + 1 - 2 * k].calls = m.calls
    BY <1>1 DEF RepeatedRounds
  <2>1. CASE k = 0
    BY <1>1, <2>1
  <2>2. CASE k # 0
    <3>1. k - 1 \in 0..(n - 1) - 1 /\ Len(t) + 1 - 2 * k = Len(t) - 1 - 2 * (k - 1)
      BY <1>1, <2>2
    <3>2. /\ Len(t) + 1 - 2 * k \in 1..Len(t) /\ AsksForTools(t[Len(t) + 1 - 2 * k])
          /\ t[Len(t) + 1 - 2 * k].run = m.run /\ t[Len(t) + 1 - 2 * k].calls = m.calls
      BY <1>1, <1>4, <3>1 DEF RepeatedRounds
    <3> QED
      BY <1>1, <3>2
  <2> QED
    BY <2>1, <2>2
<1> QED
  BY <1>2, <1>3, <1>4 DEF a

\* A turn goes on, or a new one begins.
LEMMA TurnGoesOn ==
  ASSUME NEW t \in Seq(Message), t # <<>>, NEW m \in Message, Turnwise(t),
         \/ /\ t[Len(t)].run = m.run /\ Follows(t[Len(t)], m)
            /\ m.role = "tool" => ~RepeatedRounds(t, Len(t), MAX_REPEAT)
         \/ /\ Begins(t[Len(t)], m) /\ CutByGuard(t, Len(t))
            /\ \A i \in 1..Len(t) : t[i].run # m.run
  PROVE  Turnwise(Append(t, m))
<1> DEFINE a == Append(t, m)
<1>1. /\ a \in Seq(Message) /\ Len(a) = Len(t) + 1 /\ DOMAIN a = 1..Len(a) /\ DOMAIN t = 1..Len(t)
      /\ a[Len(t) + 1] = m /\ a # <<>> /\ \A i \in 1..Len(t) : a[i] = t[i]
  BY PushIs
<1>2. Len(t) \in Nat /\ Len(t) >= 1
  OBVIOUS
<1> HIDE DEF a
<1>3. \A i \in 1..Len(t) : RepeatedRounds(a, i, MAX_REPEAT) <=> RepeatedRounds(t, i, MAX_REPEAT)
  <2>1. MAX_REPEAT \in Nat /\ Len(t) <= Len(a) /\ Len(a) \in Nat
    BY <1>1, <1>2 DEF MAX_REPEAT
  <2> QED
    BY <1>1, <1>2, <2>1, RoundsKeep
<1>4. a[1].role = IF SystemPrompt THEN "system" ELSE "user"
  BY <1>1, <1>2 DEF Turnwise
<1>5. ASSUME NEW i \in 1..Len(a), i + 1 <= Len(a)
      PROVE  IF a[i].run = a[i + 1].run THEN Follows(a[i], a[i + 1])
             ELSE Begins(a[i], a[i + 1]) /\ CutByGuard(a, i)
  <2>1. i \in 1..Len(t) /\ a[i] = t[i]
    BY <1>1, <1>2, <1>5
  <2>2. CASE i + 1 <= Len(t)
    <3>1. a[i + 1] = t[i + 1]
      BY <1>1, <1>2, <2>1, <2>2
    <3> QED
      BY <1>3, <2>1, <2>2, <3>1 DEF Turnwise, CutByGuard
  <2>3. CASE i = Len(t)
    <3>1. a[i + 1] = m /\ a[i] = t[Len(t)] /\ Len(t) \in 1..Len(t)
      BY <1>1, <1>2, <2>1, <2>3
    <3>2. CASE t[Len(t)].run = m.run /\ Follows(t[Len(t)], m)
      BY <3>1, <3>2
    <3>3. CASE Begins(t[Len(t)], m) /\ CutByGuard(t, Len(t)) /\ \A l \in 1..Len(t) : t[l].run # m.run
      <4>1. t[Len(t)].run # m.run
        BY <3>1, <3>3
      <4>2. CutByGuard(a, i)
        BY <1>3, <2>1, <2>3, <3>1, <3>3 DEF CutByGuard
      <4> QED
        BY <3>1, <3>3, <4>1, <4>2
    <3> QED
      BY <3>2, <3>3
  <2>4. i + 1 <= Len(t) \/ i = Len(t)
    BY <1>2, <2>1
  <2> QED
    BY <2>2, <2>3, <2>4
<1>6. ASSUME NEW i \in 1..Len(a), NEW j \in 1..Len(a), i <= j, a[i].run = a[j].run, NEW k \in i..j
      PROVE  a[k].run = a[i].run
  <2>1. CASE j <= Len(t)
    <3>1. i \in 1..Len(t) /\ j \in 1..Len(t) /\ k \in 1..Len(t)
      BY <1>2, <1>6, <2>1
    <3>2. t[i].run = t[j].run
      BY <1>1, <1>6, <3>1
    <3>3. t[k].run = t[i].run
      BY <1>6, <3>1, <3>2 DEF Turnwise
    <3> QED
      BY <1>1, <3>1, <3>3
  <2>2. CASE j = Len(t) + 1
    <3>1. a[i].run = m.run
      BY <1>1, <1>6, <2>2
    <3>2. CASE i = Len(t) + 1 \/ k = Len(t) + 1
      <4>1. k = Len(t) + 1
        BY <1>2, <1>6, <2>2, <3>2
      <4> QED
        BY <1>1, <3>1, <4>1
    <3>3. CASE i # Len(t) + 1 /\ k # Len(t) + 1
      <4>1. i \in 1..Len(t) /\ k \in i..Len(t) /\ k \in 1..Len(t) /\ Len(t) \in 1..Len(t) /\ i <= Len(t)
        BY <1>1, <1>2, <1>6, <2>2, <3>3
      <4>2. t[i].run = m.run
        BY <1>1, <3>1, <4>1
      <4>3. t[Len(t)].run = m.run
        BY <4>1, <4>2
      <4>4. t[k].run = t[i].run
        BY <4>1, <4>2, <4>3 DEF Turnwise
      <4> QED
        BY <1>1, <4>1, <4>4
    <3> QED
      BY <3>2, <3>3
  <2> QED
    BY <1>1, <1>2, <1>6, <2>1, <2>2
<1>7. ASSUME NEW i \in 1..Len(a), RepeatedRounds(a, i, MAX_REPEAT), AnsweredAt(a, i) PROVE FALSE
  <2>1. i \in 1..Len(t) /\ a[i + 1].role = "tool" /\ a[i + 1].calls = a[i].calls /\ i + 1 \in 1..Len(a)
    BY <1>1, <1>2, <1>7 DEF AnsweredAt
  <2>2. CASE i + 1 \in 1..Len(t)
    <3>1. AnsweredAt(t, i)
      BY <1>1, <2>1, <2>2 DEF AnsweredAt
    <3> QED
      BY <1>3, <1>7, <2>1, <3>1 DEF Turnwise
  <2>3. CASE i = Len(t)
    <3>1. m.role = "tool" /\ RepeatedRounds(t, Len(t), MAX_REPEAT)
      BY <1>1, <1>3, <1>7, <2>1, <2>3
    <3>2. ~(t[Len(t)].run = m.run /\ Follows(t[Len(t)], m) /\ (m.role = "tool" => ~RepeatedRounds(t, Len(t), MAX_REPEAT)))
      BY <3>1
    <3>3. ~Begins(t[Len(t)], m)
      BY <3>1 DEF Begins
    <3> QED
      BY <3>2, <3>3, Zenon
  <2>4. i + 1 \in 1..Len(t) \/ i = Len(t)
    BY <1>2, <2>1
  <2> QED
    BY <2>2, <2>3, <2>4
<1>8. Turnwise(a)
  BY <1>4, <1>5, <1>6, <1>7 DEF Turnwise
<1> QED
  BY <1>8 DEF a

-----------------------------------------------------------------------------
(* The stack of a run's loops. *)

LEMMA FrontIs ==
  ASSUME NEW L \in Seq(Loop), L # <<>>
  PROVE  /\ Front(L) \in Seq(Loop) /\ Len(Front(L)) = Len(L) - 1
         /\ \A i \in 1..Len(L) - 1 : Front(L)[i] = L[i] /\ L[i] \in Loop
<1>1. Len(L) \in Nat /\ Len(L) >= 1 /\ \A i \in 1..Len(L) - 1 : L[i] \in Loop
  OBVIOUS
<1> DEFINE n == Len(L) - 1
           f == SubSeq(L, 1, n)
<1>2. n \in Nat /\ n = Len(L) - 1
  BY <1>1
<1> HIDE DEF n
<1>3. /\ f \in Seq(Loop) /\ Len(f) = IF 1 <= n THEN n - 1 + 1 ELSE 0
      /\ \A i \in 1..n - 1 + 1 : f[i] = L[1 + i - 1]
  BY <1>1, <1>2, SubSeqProperties
<1> HIDE DEF f
<1>4. f \in Seq(Loop) /\ Len(f) = n /\ \A i \in 1..n : f[i] = L[i]
  BY <1>2, <1>3
<1>5. /\ SubSeq(L, 1, Len(L) - 1) \in Seq(Loop) /\ Len(SubSeq(L, 1, Len(L) - 1)) = Len(L) - 1
      /\ \A i \in 1..Len(L) - 1 : SubSeq(L, 1, Len(L) - 1)[i] = L[i]
  BY <1>4 DEF f, n
<1> QED
  BY <1>1, <1>5 DEF Front

\* The innermost loop is replaced.
LEMMA SetTopIs ==
  ASSUME NEW L \in Seq(Loop), L # <<>>, NEW loop \in Loop
  PROVE  LET M == Append(Front(L), loop) IN
         /\ M \in Seq(Loop) /\ Len(M) = Len(L) /\ M # <<>> /\ M[Len(L)] = loop
         /\ Len(L) > 1 => M[1] = L[1]
<1> DEFINE F == Front(L)
<1>1. Len(L) \in Nat /\ Len(L) >= 1
  OBVIOUS
<1>3. F \in Seq(Loop) /\ Len(F) = Len(L) - 1 /\ \A i \in 1..Len(L) - 1 : F[i] = L[i]
  BY FrontIs
<1> HIDE DEF F
<1> DEFINE M == Append(F, loop)
<1>4. M \in Seq(Loop) /\ Len(M) = Len(L) /\ M # <<>> /\ M[Len(L)] = loop /\ \A i \in 1..Len(L) - 1 : M[i] = F[i]
  BY <1>1, <1>3
<1>5. ASSUME Len(L) > 1 PROVE M[1] = L[1]
  BY <1>1, <1>3, <1>4, <1>5
<1> QED
  BY <1>4, <1>5 DEF F

\* A sub-agent's loop ends: of the loop that waits for it, only `told` changes.
LEMMA EndIs ==
  ASSUME NEW L \in Seq(Loop), Len(L) > 1
  PROVE  LET M == [Front(L) EXCEPT ![Len(L) - 1].told = TRUE] IN
         /\ M \in Seq(Loop) /\ Len(M) = Len(L) - 1 /\ M # <<>>
         /\ M[1].step = L[1].step /\ M[1].signature = L[1].signature /\ M[1].repeats = L[1].repeats
<1> DEFINE F == Front(L)
           n == Len(L) - 1
<1>1. Len(L) \in Nat /\ n \in Nat /\ n >= 1
  OBVIOUS
<1>2. F \in Seq(Loop) /\ Len(F) = n /\ \A i \in 1..n : F[i] = L[i] /\ F[i] \in Loop
  BY <1>1, FrontIs
<1>3. n = Len(L) - 1
  OBVIOUS
<1> HIDE DEF F, n
<1> DEFINE x == [F[n] EXCEPT !.told = TRUE]
<1>4. x \in Loop /\ x.step = F[n].step /\ x.signature = F[n].signature /\ x.repeats = F[n].repeats
  <2> DEFINE y == F[n]
  <2>1. y \in Loop
    BY <1>1, <1>2
  <2>2. x = [y EXCEPT !.told = TRUE]
    OBVIOUS
  <2> HIDE DEF x, y
  <2>3. x \in Loop /\ x.step = y.step /\ x.signature = y.signature /\ x.repeats = y.repeats
    BY <2>1, <2>2 DEF Loop
  <2> QED
    BY <2>3 DEF y
<1> HIDE DEF x
<1> DEFINE M == [F EXCEPT ![n] = x]
<1>5. M \in Seq(Loop) /\ Len(M) = n /\ M # <<>> /\ M[n] = x /\ \A i \in 1..n : i # n => M[i] = F[i]
  BY <1>1, <1>2, <1>4
<1>6. M[1].step = L[1].step /\ M[1].signature = L[1].signature /\ M[1].repeats = L[1].repeats
  <2>1. CASE n = 1
    BY <1>1, <1>2, <1>4, <1>5, <2>1
  <2>2. CASE n # 1
    BY <1>1, <1>2, <1>5, <2>2
  <2> QED
    BY <2>1, <2>2
<1>7. M = [F EXCEPT ![n].told = TRUE]
  BY DEF M, x
<1> QED
  BY <1>3, <1>5, <1>6, <1>7 DEF F, n

LEMMA LoopTypes ==
  ASSUME NEW L \in Seq(Loop), L # <<>>
  PROVE  /\ Len(L) \in Nat /\ Len(L) >= 1 /\ L[1] \in Loop /\ Last(L) = L[Len(L)] /\ Last(L) \in Loop
         /\ Len(L) = 1 => Last(L) = L[1]
<1>1. Len(L) \in Nat /\ Len(L) >= 1
  OBVIOUS
<1>2. 1 \in 1..Len(L) /\ Len(L) \in 1..Len(L)
  BY <1>1
<1> QED
  BY <1>1, <1>2 DEF Last

LEMMA FirstStepIs ==
  /\ FirstStep \in Loop /\ FirstStep.step = 0 /\ FirstStep.signature = NoCalls
  /\ <<FirstStep>> \in Seq(Loop) /\ Len(<<FirstStep>>) = 1 /\ <<FirstStep>>[1] = FirstStep /\ <<FirstStep>> # <<>>
<1>1. FirstStep \in Loop /\ FirstStep.step = 0 /\ FirstStep.signature = NoCalls
  BY LimitsAssumption DEF FirstStep, Loop, MAX_REPEAT
<1> HIDE DEF FirstStep
<1> QED
  BY <1>1

-----------------------------------------------------------------------------
(* A run that takes no step keeps its place; so does the own loop of a run whose sub-agent *)
(* takes one.                                                                              *)

LEMMA OthersKeep ==
  ASSUME NEW o \in Runs, RunOk(o), pc'[o] = pc[o], messages'[o] = messages[o], loops'[o] = loops[o]
  PROVE  RunOk(o)'
<1>1. Answers(o)' = Answers(o)
  BY DEF Answers
<1> QED
  BY <1>1 DEF RunOk, Thinking, Acting, InSubAgent

\* Where a sub-agent works, or is started.
WithSubAgent(r) == pc[r] \in {"thinking", "acting"} /\ (pc[r] = "acting" \/ InSubAgent(r))

\* What its steps do: the run's own loop goes on waiting for the batch.
SubAgentStep(r) ==
  /\ WithSubAgent(r)
  /\ \E where \in {"thinking", "acting"}, L \in Seq(Loop) :
       /\ pc' = [pc EXCEPT ![r] = where] /\ loops' = [loops EXCEPT ![r] = L]
       /\ L # <<>> /\ Len(L) <= 1 + MaxSpawnDepth /\ (where = "thinking" => Len(L) > 1)
       /\ L[1].step = loops[r][1].step /\ L[1].signature = loops[r][1].signature
       /\ L[1].repeats = loops[r][1].repeats
  /\ UNCHANGED <<overlap, session, messages, store>>

LEMMA RunTypes ==
  ASSUME TypeOK, RunState, NEW r \in Runs
  PROVE  /\ messages[r] \in Seq(Message) /\ Len(messages[r]) \in Nat /\ DOMAIN messages[r] = 1..Len(messages[r])
         /\ loops[r] \in Seq(Loop) /\ Len(loops[r]) \in Nat /\ Len(loops[r]) <= 1 + MaxSpawnDepth
         /\ session[r] \in Sessions /\ store[session[r]] \in Seq(Message)
         /\ pc[r] \in {"thinking", "acting"} => loops[r] # <<>> /\ Len(loops[r]) >= 1
         /\ pc[r] \notin {"thinking", "acting"} => loops[r] = <<>> /\ Len(loops[r]) = 0
         /\ RunOk(r)
<1>1. /\ messages[r] \in Seq(Message) /\ loops[r] \in Seq(Loop) /\ Len(loops[r]) <= 1 + MaxSpawnDepth
      /\ session[r] \in Sessions /\ store[session[r]] \in Seq(Message)
  BY DEF TypeOK
<1>2. RunOk(r)
  BY DEF RunState
<1>3. pc[r] \in {"thinking", "acting"} <=> loops[r] # <<>>
  BY <1>2 DEF RunOk
<1>4. Len(messages[r]) \in Nat /\ DOMAIN messages[r] = 1..Len(messages[r]) /\ Len(loops[r]) \in Nat
  BY <1>1
<1>5. loops[r] # <<>> <=> Len(loops[r]) >= 1
  BY <1>1
<1> QED
  BY <1>1, <1>2, <1>3, <1>4, <1>5

LEMMA RunsOf ==
  ASSUME TypeOK
  PROVE  /\ \A r \in Runs : \A i \in 1..Len(messages[r]) : messages[r][i].run \in Runs
         /\ \A s \in Sessions : \A i \in 1..Len(store[s]) : store[s][i].run \in Runs
<1>1. \A t \in Seq(Message) : \A i \in 1..Len(t) : t[i].run \in Runs
  <2> SUFFICES ASSUME NEW t \in Seq(Message), NEW i \in 1..Len(t) PROVE t[i].run \in Runs
    OBVIOUS
  <2>1. t[i] \in Message
    OBVIOUS
  <2> QED
    BY <2>1 DEF Message
<1> QED
  BY <1>1 DEF TypeOK

LEMMA SubAgentSteps ==
  ASSUME TypeOK, RunState, NEW r \in Runs, WithSubAgent(r),
         \/ Delegate(r)
         \/ InSubAgent(r) /\ (Answer(r) \/ (\E calls \in Signatures : Ask(r, calls)) \/ Observe(r) \/ Fail(r))
  PROVE  SubAgentStep(r)
<1> DEFINE L == loops[r]
<1>1. /\ L \in Seq(Loop) /\ L # <<>> /\ Len(L) \in Nat /\ Len(L) >= 1 /\ Len(L) <= 1 + MaxSpawnDepth
      /\ L[1] \in Loop /\ Last(L) = L[Len(L)] /\ Last(L) \in Loop /\ Top(r) = Last(L)
      /\ InSubAgent(r) <=> Len(L) > 1
  BY RunTypes, LoopTypes DEF WithSubAgent, Top, InSubAgent
<1>2. pc[r] \in {"thinking", "acting"}
  BY DEF WithSubAgent
<1>2a. Len(L) > 1 \/ Len(L) = 1
  <2>1. \A n \in Nat : n >= 1 => n > 1 \/ n = 1
    OBVIOUS
  <2>2. Len(L) \in Nat /\ Len(L) >= 1
    BY <1>1
  <2> HIDE DEF L
  <2> QED
    BY <2>1, <2>2, Zenon
<1>3. ASSUME NEW where, InSubAgent(r), EndLoop(r, where), UNCHANGED <<overlap, session, messages, store>>
      PROVE  SubAgentStep(r)
  <2> DEFINE M == [Front(L) EXCEPT ![Len(L) - 1].told = TRUE]
  <2>1. /\ M \in Seq(Loop) /\ Len(M) = Len(L) - 1 /\ M # <<>>
        /\ M[1].step = L[1].step /\ M[1].signature = L[1].signature /\ M[1].repeats = L[1].repeats
    BY <1>1, <1>3, EndIs
  <2>2. loops' = [loops EXCEPT ![r] = M] /\ pc' = [pc EXCEPT ![r] = "acting"]
    BY <1>3 DEF EndLoop, Goto
  <2>3. Len(M) <= 1 + MaxSpawnDepth
    BY <1>1, <2>1, LimitsAssumption
  <2> HIDE DEF M
  <2> QED
    BY <1>3, <2>1, <2>2, <2>3 DEF SubAgentStep
<1>4. ASSUME NEW where \in {"thinking", "acting"}, NEW loop \in Loop, SetTop(r, loop), Goto(r, where),
             where = "thinking" => InSubAgent(r),
             \/ loop.step = Top(r).step /\ loop.signature = Top(r).signature /\ loop.repeats = Top(r).repeats
             \/ InSubAgent(r),
             UNCHANGED <<overlap, session, messages, store>>
      PROVE  SubAgentStep(r)
  <2> DEFINE M == Append(Front(L), loop)
  <2>1. /\ M \in Seq(Loop) /\ Len(M) = Len(L) /\ M # <<>> /\ M[Len(L)] = loop
        /\ Len(L) > 1 => M[1] = L[1]
    BY <1>1, SetTopIs
  <2>2. loops' = [loops EXCEPT ![r] = M] /\ pc' = [pc EXCEPT ![r] = where]
    BY <1>4 DEF SetTop, Goto
  <2> HIDE DEF M
  <2>3. M[1].step = L[1].step /\ M[1].signature = L[1].signature /\ M[1].repeats = L[1].repeats
    <3>1. CASE Len(L) > 1
      BY <2>1, <3>1
    <3>2. CASE Len(L) = 1
      <4>1. M[1] = loop /\ Top(r) = L[1] /\ ~InSubAgent(r)
        BY <1>1, <2>1, <3>2
      <4>2. loop.step = Top(r).step /\ loop.signature = Top(r).signature /\ loop.repeats = Top(r).repeats
        BY <1>4, <4>1, Zenon
      <4> HIDE DEF L, M
      <4> QED
        BY <4>1, <4>2
    <3>3. Len(L) > 1 \/ Len(L) = 1
      BY <1>2a
    <3> QED
      BY <3>1, <3>2, <3>3
  <2> QED
    BY <1>1, <1>4, <2>1, <2>2, <2>3 DEF SubAgentStep
<1>5. ASSUME InSubAgent(r), NEW m, Push(r, m) PROVE UNCHANGED messages
  BY <1>5 DEF Push
<1>6. CASE Delegate(r)
  <2>1. CASE MaySpawn(r)
    <3> DEFINE M == Append(L, FirstStep)
    <3>1. M \in Seq(Loop) /\ Len(M) = Len(L) + 1 /\ M # <<>> /\ M[1] = L[1]
      BY <1>1, FirstStepIs
    <3>2. loops' = [loops EXCEPT ![r] = M] /\ pc' = [pc EXCEPT ![r] = "thinking"]
      BY <1>6, <2>1 DEF Delegate, Goto
    <3>3. Len(M) <= 1 + MaxSpawnDepth /\ Len(M) > 1
      BY <1>1, <2>1, <3>1, LimitsAssumption DEF MaySpawn
    <3> HIDE DEF M
    <3> QED
      BY <1>6, <3>1, <3>2, <3>3 DEF SubAgentStep, Delegate
  <2>2. CASE ~MaySpawn(r)
    <3> DEFINE loop == [Last(L) EXCEPT !.told = TRUE]
    <3>1. loop \in Loop /\ loop.step = Last(L).step /\ loop.signature = Last(L).signature /\ loop.repeats = Last(L).repeats
      BY <1>1 DEF Loop
    <3>2. SetTop(r, loop) /\ UNCHANGED pc /\ pc[r] = "acting" /\ UNCHANGED <<overlap, session, messages, store>>
      BY <1>1, <1>6, <2>2 DEF Delegate
    <3>3. Goto(r, "acting")
      BY <3>2 DEF Goto, TypeOK
    <3> HIDE DEF loop
    <3> QED
      BY <1>1, <1>4, <3>1, <3>2, <3>3
  <2> QED
    BY <2>1, <2>2
<1>7. CASE InSubAgent(r) /\ Answer(r)
  BY <1>3, <1>5, <1>7 DEF Answer
<1>8. ASSUME InSubAgent(r), NEW calls \in Signatures, Ask(r, calls) PROVE SubAgentStep(r)
  <2> DEFINE n == RepeatCount(Top(r), calls)
  <2>1. Push(r, Msg("assistant", r, calls)) /\ UNCHANGED <<overlap, session, store>>
    BY <1>8 DEF Ask
  <2>2. UNCHANGED <<overlap, session, messages, store>>
    BY <1>5, <1>8, <2>1
  <2>3. CASE n >= MAX_REPEAT
    BY <1>3, <1>8, <2>2, <2>3 DEF Ask
  <2>4. CASE ~(n >= MAX_REPEAT)
    <3> DEFINE loop == [Last(L) EXCEPT !.signature = calls, !.repeats = n]
    <3>1. n \in 0..MAX_REPEAT
      BY <1>1, <2>4 DEF RepeatCount, Loop, MAX_REPEAT
    <3>2. SetTop(r, loop) /\ Goto(r, "acting")
      BY <1>1, <1>8, <2>4 DEF Ask
    <3>3. loop \in Loop
      <4> HIDE DEF n
      <4> QED
        BY <1>1, <3>1 DEF Loop
    <3> HIDE DEF loop
    <3> QED
      BY <1>4, <1>8, <2>2, <3>2, <3>3
  <2> QED
    BY <2>3, <2>4
<1>9. CASE InSubAgent(r) /\ Observe(r)
  <2>1. UNCHANGED <<overlap, session, messages, store>>
    BY <1>5, <1>9 DEF Observe
  <2>2. CASE ~MoreSteps(Top(r))
    BY <1>3, <1>9, <2>1, <2>2 DEF Observe
  <2>3. CASE MoreSteps(Top(r))
    <3> DEFINE loop == [Last(L) EXCEPT !.step = @ + 1, !.told = FALSE]
    <3>1. SetTop(r, loop) /\ Goto(r, "thinking")
      BY <1>1, <1>9, <2>3 DEF Observe
    <3>2. Last(L).step + 1 \in 0..MaxSteps - 1
      <4> DEFINE x == Last(L)
      <4>1. x \in Loop /\ x.step + 1 < MaxSteps
        BY <1>1, <2>3 DEF MoreSteps
      <4> HIDE DEF x
      <4>2. x.step + 1 \in 0..MaxSteps - 1
        BY <4>1, LimitsAssumption DEF Loop
      <4> QED
        BY <4>2 DEF x
    <3>3. loop \in Loop
      BY <1>1, <3>2 DEF Loop
    <3> HIDE DEF loop
    <3> QED
      BY <1>4, <1>9, <2>1, <3>1, <3>3
  <2> QED
    BY <2>2, <2>3
<1>10. CASE InSubAgent(r) /\ Fail(r)
  BY <1>3, <1>10 DEF Fail
<1> QED
  BY <1>6, <1>7, <1>8, <1>9, <1>10

\* A sub-agent's step keeps the invariant.
LEMMA SubAgentKeeps ==
  ASSUME IInv, NEW r \in Runs, SubAgentStep(r)
  PROVE  IInv'
<1> USE DEF IInv
<1>1. PICK where \in {"thinking", "acting"}, L \in Seq(Loop) :
        /\ pc' = [pc EXCEPT ![r] = where] /\ loops' = [loops EXCEPT ![r] = L]
        /\ L # <<>> /\ Len(L) <= 1 + MaxSpawnDepth /\ (where = "thinking" => Len(L) > 1)
        /\ L[1].step = loops[r][1].step /\ L[1].signature = loops[r][1].signature
        /\ L[1].repeats = loops[r][1].repeats
  BY DEF SubAgentStep
<1>2. UNCHANGED <<overlap, session, messages, store>> /\ pc[r] \in {"thinking", "acting"} /\ Acting(r)
  BY RunTypes DEF SubAgentStep, WithSubAgent, RunOk
<1>3. TypeOK'
  BY <1>1, <1>2 DEF TypeOK
<1>4. pc'[r] = where /\ loops'[r] = L /\ \A o \in Runs : o # r => pc'[o] = pc[o] /\ loops'[o] = loops[o]
  BY <1>1 DEF TypeOK
<1>5. RunState'
  <2> SUFFICES ASSUME NEW o \in Runs PROVE RunOk(o)'
    BY DEF RunState
  <2>1. CASE o # r
    BY <1>2, <1>4, <2>1, RunTypes, OthersKeep
  <2>2. CASE o = r
    <3>1. Answers(r)' = Answers(r)
      BY <1>2 DEF Answers
    <3>2. Acting(r)'
      BY <1>1, <1>2, <1>4, <3>1 DEF Acting, CountsRounds
    <3>3. RunOk(r)
      BY RunTypes
    <3>4. messages'[r] # <<>> /\ messages'[r][Len(messages'[r])].run = r /\ Cardinality(Answers(r))' <= MaxSteps
      BY <1>2, <3>1, <3>3 DEF RunOk
    <3> QED
      BY <1>1, <1>4, <2>2, <3>2, <3>4 DEF RunOk, InSubAgent
  <2> QED
    BY <2>1, <2>2
<1>6. \A o \in Runs : (pc'[o] = "done" <=> pc[o] = "done") /\ (Active(o)' <=> Active(o))
                      /\ (pc'[o] \in {"thinking", "acting", "saving"} <=> pc[o] \in {"thinking", "acting", "saving"})
  BY <1>1, <1>2, <1>4 DEF Active
<1>7. Own'
  BY <1>2, <1>6, RunsOf DEF Own
<1>8. TurnsWhole'
  BY <1>2, <1>6, RunsOf DEF TurnsWhole
<1>9. OnStored'
  BY <1>2, <1>6 DEF OnStored
<1> QED
  BY <1>3, <1>5, <1>7, <1>8, <1>9

-----------------------------------------------------------------------------
(* A run's own steps. *)

\* What a step of one run has to keep, when the store stays as it is.
LEMMA OwnStepKeeps ==
  ASSUME IInv, NEW r \in Runs, NEW t \in Seq(Message), NEW L \in Seq(Loop), Len(L) <= 1 + MaxSpawnDepth,
         NEW where \in {"loading", "thinking", "acting", "saving", "failed"},
         pc' = [pc EXCEPT ![r] = where], messages' = [messages EXCEPT ![r] = t],
         loops' = [loops EXCEPT ![r] = L], UNCHANGED <<overlap, session, store>>,
         pc[r] # "done", RunOk(r)', Turnwise(t),
         \A i \in 1..Len(t) : t[i].run = r \/ (pc[t[i].run] = "done" /\ session[t[i].run] = session[r]),
         Active(r) \/ \A o \in Runs : ~overlap /\ Active(o) => session[o] # session[r],
         ~overlap /\ where \in {"thinking", "acting", "saving"} =>
           /\ Len(store[session[r]]) <= Len(t)
           /\ \A i \in 1..Len(store[session[r]]) : t[i] = store[session[r]][i]
  PROVE  IInv'
<1> USE DEF IInv
<1>1. TypeOK'
  BY DEF TypeOK
<1>2. /\ pc'[r] = where /\ messages'[r] = t /\ loops'[r] = L
      /\ \A o \in Runs : o # r => pc'[o] = pc[o] /\ messages'[o] = messages[o] /\ loops'[o] = loops[o]
  BY DEF TypeOK
<1>3. RunState'
  <2> SUFFICES ASSUME NEW o \in Runs PROVE RunOk(o)'
    BY DEF RunState
  <2>1. CASE o # r
    BY <1>2, <2>1, RunTypes, OthersKeep
  <2> QED
    BY <2>1
<1>4. \A o \in Runs : pc[o] = "done" => pc'[o] = "done"
  BY <1>2
<1>5. Own'
  <2> SUFFICES ASSUME NEW o \in Runs, NEW i \in 1..Len(messages'[o])
               PROVE  \/ messages'[o][i].run = o
                      \/ pc'[messages'[o][i].run] = "done" /\ session[messages'[o][i].run] = session[o]
    BY DEF Own
  <2>1. CASE o = r
    <3>1. t[i] \in Message
      BY <1>2, <2>1
    <3>2. t[i].run \in Runs
      BY <3>1 DEF Message
    <3> QED
      BY <1>2, <1>4, <2>1, <3>2
  <2>2. CASE o # r
    BY <1>2, <1>4, <2>2, RunsOf DEF Own
  <2> QED
    BY <2>1, <2>2
<1>6. TurnsWhole'
  <2>1. \A o \in Runs : Turnwise(messages'[o])
    BY <1>2 DEF TurnsWhole
  <2>2. \A s \in Sessions : \A i \in 1..Len(store[s]) : pc'[store[s][i].run] = "done"
    BY <1>4, RunsOf DEF TurnsWhole
  <2> QED
    BY <2>1, <2>2 DEF TurnsWhole
<1>7. ASSUME ~overlap PROVE \A a, o \in Runs : Active(a)' /\ Active(o)' /\ session[a] = session[o] => a = o
  <2>1. \A o \in Runs : o # r => (Active(o)' <=> Active(o))
    BY <1>2 DEF Active
  <2>2. \A a, o \in Runs : Active(a) /\ Active(o) /\ session[a] = session[o] => a = o
    BY <1>7 DEF OnStored
  <2>3. ASSUME NEW o \in Runs, o # r, Active(o) PROVE session[o] # session[r]
    BY <1>7, <2>2, <2>3
  <2> QED
    BY <2>1, <2>2, <2>3
<1>8. ASSUME ~overlap, NEW o \in Runs, pc'[o] \in {"thinking", "acting", "saving"}
      PROVE  /\ Len(store[session[o]]) <= Len(messages'[o])
             /\ \A i \in 1..Len(store[session[o]]) : messages'[o][i] = store[session[o]][i]
  <2>1. CASE o = r
    BY <1>2, <1>8, <2>1
  <2>2. CASE o # r
    BY <1>2, <1>8, <2>2 DEF OnStored
  <2> QED
    BY <2>1, <2>2
<1>9. OnStored'
  BY <1>7, <1>8 DEF OnStored
<1> QED
  BY <1>1, <1>3, <1>5, <1>6, <1>9

\* The model's answers are those with an index of their own.
LEMMA AnswersPushed ==
  ASSUME TypeOK, NEW r \in Runs, NEW m \in Message, m.run = r,
         messages'[r] = Append(messages[r], m)
  PROVE  /\ Cardinality(Answers(r)) \in Nat
         /\ m.role = "assistant" => Cardinality(Answers(r)') = Cardinality(Answers(r)) + 1
         /\ m.role # "assistant" => Answers(r)' = Answers(r)
<1> DEFINE t == messages[r]
           a == Append(t, m)
<1>1. t \in Seq(Message) /\ Len(t) \in Nat /\ DOMAIN t = 1..Len(t)
  BY DEF TypeOK
<1>2. /\ a \in Seq(Message) /\ Len(a) = Len(t) + 1 /\ DOMAIN a = 1..(Len(t) + 1)
      /\ a[Len(t) + 1] = m /\ \A i \in 1..Len(t) : a[i] = t[i]
  BY <1>1, PushIs
<1>3. Answers(r) = {i \in 1..Len(t) : t[i].run = r /\ t[i].role = "assistant"}
  BY <1>1 DEF Answers
<1>4. Answers(r)' = {i \in 1..(Len(t) + 1) : a[i].run = r /\ a[i].role = "assistant"}
  BY <1>2 DEF Answers
<1> HIDE DEF t, a
<1>5. IsFiniteSet(Answers(r))
  <2>1. IsFiniteSet(1..Len(t))
    <3>1. Len(t) \in Int /\ 1 \in Int
      BY <1>1
    <3> QED
      BY <3>1, FS_Interval
  <2> QED
    BY <1>3, <2>1, FS_Subset
<1>6. Len(t) + 1 \notin Answers(r)
  BY <1>1, <1>3
<1>7. ASSUME m.role = "assistant" PROVE Cardinality(Answers(r)') = Cardinality(Answers(r)) + 1
  <2>1. Answers(r)' = Answers(r) \cup {Len(t) + 1}
    BY <1>1, <1>2, <1>3, <1>4, <1>7
  <2> QED
    BY <1>5, <1>6, <2>1, FS_AddElement
<1>8. ASSUME m.role # "assistant" PROVE Answers(r)' = Answers(r)
  BY <1>1, <1>2, <1>3, <1>4, <1>8
<1> QED
  BY <1>5, <1>7, <1>8, FS_CardinalityType

LEMMA MsgIs ==
  ASSUME NEW role \in Roles, NEW r \in Runs, NEW calls \in Signatures \cup {NoCalls}
  PROVE  /\ Msg(role, r, calls) \in Message /\ Msg(role, r, calls).role = role
         /\ Msg(role, r, calls).run = r /\ Msg(role, r, calls).calls = calls
  BY DEF Msg, Message

\* The run's own loop pushes a message that follows the one before it.
LEMMA PushKeeps ==
  ASSUME IInv, NEW r \in Runs, pc[r] \in {"thinking", "acting"}, NEW m \in Message, m.run = r,
         Follows(messages[r][Len(messages[r])], m),
         m.role = "tool" => ~RepeatedRounds(messages[r], Len(messages[r]), MAX_REPEAT),
         NEW L \in Seq(Loop), Len(L) <= 1,
         NEW where \in {"thinking", "acting", "saving", "failed"},
         pc' = [pc EXCEPT ![r] = where], messages' = [messages EXCEPT ![r] = Append(messages[r], m)],
         loops' = [loops EXCEPT ![r] = L], UNCHANGED <<overlap, session, store>>,
         RunOk(r)'
  PROVE  IInv'
<1> DEFINE a == Append(messages[r], m)
<1>1. /\ TypeOK /\ RunState /\ messages[r] \in Seq(Message) /\ messages[r] # <<>>
      /\ messages[r][Len(messages[r])].run = r /\ Len(messages[r]) \in Nat
  BY RunTypes DEF IInv, RunOk
<1>2. /\ a \in Seq(Message) /\ Len(a) = Len(messages[r]) + 1 /\ a[Len(messages[r]) + 1] = m
      /\ \A i \in 1..Len(messages[r]) : a[i] = messages[r][i]
  BY <1>1, PushIs
<1>3. Turnwise(a)
  BY <1>1, TurnGoesOn DEF IInv, TurnsWhole
<1> HIDE DEF a
<1>4. \A i \in 1..Len(a) : a[i].run = r \/ (pc[a[i].run] = "done" /\ session[a[i].run] = session[r])
  <2> SUFFICES ASSUME NEW i \in 1..Len(a)
               PROVE  a[i].run = r \/ (pc[a[i].run] = "done" /\ session[a[i].run] = session[r])
    OBVIOUS
  <2>1. CASE i \in 1..Len(messages[r])
    BY <1>2, <2>1 DEF IInv, Own
  <2>2. CASE i = Len(messages[r]) + 1
    BY <1>2, <2>2
  <2>3. i \in 1..Len(messages[r]) \/ i = Len(messages[r]) + 1
    BY <1>1, <1>2
  <2> QED
    BY <2>1, <2>2, <2>3
<1>5. ~overlap => /\ Len(store[session[r]]) <= Len(a)
                  /\ \A i \in 1..Len(store[session[r]]) : a[i] = store[session[r]][i]
  <2> SUFFICES ASSUME ~overlap
               PROVE  /\ Len(store[session[r]]) <= Len(a)
                      /\ \A i \in 1..Len(store[session[r]]) : a[i] = store[session[r]][i]
    OBVIOUS
  <2>1. /\ Len(store[session[r]]) <= Len(messages[r])
        /\ \A i \in 1..Len(store[session[r]]) : messages[r][i] = store[session[r]][i]
    BY DEF IInv, OnStored
  <2>2. Len(store[session[r]]) \in Nat
    BY <1>1, RunTypes
  <2> QED
    BY <1>1, <1>2, <2>1, <2>2
<1>6. Active(r) /\ pc[r] # "done" /\ Len(L) <= 1 + MaxSpawnDepth
  BY LimitsAssumption DEF Active
<1>7. messages' = [messages EXCEPT ![r] = a] /\ where \in {"loading", "thinking", "acting", "saving", "failed"}
  BY DEF a
<1> QED
  BY <1>2, <1>3, <1>4, <1>5, <1>6, <1>7, OwnStepKeeps

\* A transcript of one message.
LEMMA FirstMessage ==
  ASSUME NEW m \in Message, m.role = IF SystemPrompt THEN "system" ELSE "user"
  PROVE  Turnwise(<<m>>) /\ <<m>> \in Seq(Message) /\ Len(<<m>>) = 1 /\ <<m>>[1] = m /\ <<m>> # <<>>
<1> DEFINE t == <<m>>
<1>1. t \in Seq(Message) /\ Len(t) = 1 /\ t[1] = m /\ t # <<>> /\ DOMAIN t = 1..1
  OBVIOUS
<1> HIDE DEF t
<1>2. t # <<>> => t[1].role = IF SystemPrompt THEN "system" ELSE "user"
  BY <1>1
<1>3. \A i \in 1..Len(t) : ~(i + 1 <= Len(t)) /\ i + 1 \notin DOMAIN t
  BY <1>1
<1>4. \A i, j \in 1..Len(t) : \A k \in i..j : k = 1 /\ i = 1
  BY <1>1
<1>5. Turnwise(t)
  BY <1>2, <1>3, <1>4 DEF Turnwise, AnsweredAt
<1> QED
  BY <1>1, <1>5 DEF t

\* What a run starts from: the turns its session has stored, and the user's input.
LEMMA Seeded ==
  ASSUME IInv, NEW r \in Runs, pc[r] = "loading"
  PROVE  LET h == store[session[r]]
             t == Append(Seed(r, h), Msg("user", r, NoCalls)) IN
         /\ t \in Seq(Message) /\ t # <<>> /\ t[Len(t)] = Msg("user", r, NoCalls)
         /\ Turnwise(t)
         /\ \A i \in 1..Len(t) : \/ t[i].run = r /\ t[i].role # "assistant"
                                 \/ t[i].run # r /\ pc[t[i].run] = "done" /\ session[t[i].run] = session[r]
         /\ Len(h) <= Len(t) /\ \A i \in 1..Len(h) : t[i] = h[i]
<1> DEFINE h == store[session[r]]
           u == Msg("user", r, NoCalls)
           p == Msg("system", r, NoCalls)
           g == Seed(r, h)
           t == Append(g, u)
<1>1. /\ h \in Seq(Message) /\ Len(h) \in Nat /\ DOMAIN h = 1..Len(h) /\ session[r] \in Sessions
      /\ h # <<>> => Len(h) >= 1
  BY RunTypes DEF IInv
<1>2. Turnwise(h) /\ Ended(h) /\ \A i \in 1..Len(h) : pc[h[i].run] = "done" /\ session[h[i].run] = session[r]
  BY <1>1 DEF IInv, TurnsWhole
<1>3. \A i \in 1..Len(h) : h[i].run # r
  BY <1>2
<1>4. u \in Message /\ u.role = "user" /\ u.run = r /\ p \in Message /\ p.role = "system" /\ p.run = r
  BY MsgIs DEF Roles
<1>5. \/ g = h /\ h # <<>>
      \/ g = <<>> /\ h = <<>> /\ ~SystemPrompt
      \/ g = <<p>> /\ h = <<>> /\ SystemPrompt
  <2>1. CASE h # <<>>
    <3>1. SystemPrompt => 1 \in DOMAIN h /\ h[1].role = "system"
      BY <1>1, <1>2, <2>1 DEF Turnwise
    <3>2. g = h
      BY <3>1 DEF Seed
    <3> QED
      BY <2>1, <3>2
  <2>2. CASE h = <<>> /\ ~SystemPrompt
    <3>1. g = h
      BY <2>2 DEF Seed
    <3> QED
      BY <2>2, <3>1
  <2>3. CASE h = <<>> /\ SystemPrompt
    <3>1. \A i \in DOMAIN h : h[i].role # "system"
      BY <2>3
    <3>2. g = <<p>> \o h
      BY <2>3, <3>1 DEF Seed
    <3>3. <<p>> \o <<>> = <<p>>
      BY <1>4
    <3> QED
      BY <2>3, <3>2, <3>3
  <2> QED
    BY <2>1, <2>2, <2>3
<1> HIDE DEF h, u, p, g
<1>6. CASE g = h /\ h # <<>>
  <2>1. /\ t \in Seq(Message) /\ Len(t) = Len(h) + 1 /\ t[Len(h) + 1] = u /\ t # <<>>
        /\ \A i \in 1..Len(h) : t[i] = h[i]
    BY <1>1, <1>4, <1>6, PushIs
  <2>2. Begins(h[Len(h)], u) /\ CutByGuard(h, Len(h)) /\ \A i \in 1..Len(h) : h[i].run # u.run
    BY <1>2, <1>3, <1>4, <1>6 DEF Ended, Begins
  <2>3. Turnwise(t)
    BY <1>1, <1>2, <1>4, <1>6, <2>2, TurnGoesOn
  <2> HIDE DEF t
  <2>4. \A i \in 1..Len(t) : \/ t[i].run = r /\ t[i].role # "assistant"
                             \/ t[i].run # r /\ pc[t[i].run] = "done" /\ session[t[i].run] = session[r]
    <3> SUFFICES ASSUME NEW i \in 1..Len(t)
                 PROVE  \/ t[i].run = r /\ t[i].role # "assistant"
                        \/ t[i].run # r /\ pc[t[i].run] = "done" /\ session[t[i].run] = session[r]
      OBVIOUS
    <3>1. i \in 1..Len(h) \/ i = Len(h) + 1
      BY <1>1, <2>1
    <3>2. CASE i \in 1..Len(h)
      BY <1>2, <1>3, <2>1, <3>2
    <3>3. CASE i = Len(h) + 1
      BY <1>4, <2>1, <3>3
    <3> QED
      BY <3>1, <3>2, <3>3
  <2>5. Len(h) <= Len(t) /\ t[Len(t)] = u
    BY <1>1, <2>1
  <2> QED
    BY <2>1, <2>3, <2>4, <2>5 DEF t, g, h, u
<1>7. CASE g = <<>> /\ h = <<>> /\ ~SystemPrompt
  <2>1. t = <<u>> /\ Len(h) = 0
    BY <1>4, <1>7
  <2> HIDE DEF t
  <2>2. t \in Seq(Message) /\ Len(t) = 1 /\ t[1] = u /\ t # <<>> /\ Turnwise(t)
    BY <1>4, <1>7, <2>1, FirstMessage
  <2>3. \A i \in 1..Len(t) : t[i].run = r /\ t[i].role # "assistant"
    BY <1>4, <2>2
  <2>4. Len(h) <= Len(t) /\ \A i \in 1..Len(h) : t[i] = h[i]
    BY <2>1, <2>2
  <2>5. t[Len(t)] = u
    BY <2>2
  <2> QED
    BY <2>2, <2>3, <2>4, <2>5 DEF t, g, h, u
<1>8. CASE g = <<p>> /\ h = <<>> /\ SystemPrompt
  <2>1. g \in Seq(Message) /\ Len(g) = 1 /\ g[1] = p /\ g # <<>> /\ Turnwise(g)
    BY <1>4, <1>8, FirstMessage
  <2>2. Follows(g[1], u) /\ g[Len(g)].run = u.run /\ u.role # "tool"
    BY <1>4, <2>1 DEF Follows
  <2>3. Turnwise(t)
    BY <1>4, <2>1, <2>2, TurnGoesOn
  <2>4. t \in Seq(Message) /\ Len(t) = 2 /\ t[2] = u /\ t # <<>> /\ t[1] = p
    <3>1. /\ t \in Seq(Message) /\ Len(t) = Len(g) + 1 /\ t[Len(g) + 1] = u /\ t # <<>>
          /\ \A i \in 1..Len(g) : t[i] = g[i]
      BY <1>4, <2>1, PushIs
    <3> HIDE DEF t
    <3> QED
      BY <2>1, <3>1
  <2>5. Len(h) = 0
    BY <1>8
  <2> HIDE DEF t
  <2>6. \A i \in 1..Len(t) : t[i].run = r /\ t[i].role # "assistant"
    <3>1. \A i \in 1..Len(t) : i = 1 \/ i = 2
      BY <2>4
    <3> QED
      BY <1>4, <2>4, <3>1
  <2>7. Len(h) <= Len(t) /\ \A i \in 1..Len(h) : t[i] = h[i]
    BY <2>4, <2>5
  <2>8. t[Len(t)] = u
    BY <2>4
  <2> QED
    BY <2>3, <2>4, <2>6, <2>7, <2>8 DEF t, g, h, u
<1> QED
  BY <1>5, <1>6, <1>7, <1>8

-----------------------------------------------------------------------------
(* Every step keeps the invariant. *)

\* A run is stopped, or takes its first step: its transcript stays as it is.
LEMMA StopsKeep ==
  ASSUME IInv, NEW r \in Runs,
         NEW where \in {"loading", "failed"}, pc' = [pc EXCEPT ![r] = where],
         loops' = [loops EXCEPT ![r] = <<>>], UNCHANGED <<overlap, session, messages, store>>,
         \/ where = "failed" /\ Active(r)
         \/ /\ where = "loading" /\ pc[r] = "idle"
            /\ overlap \/ \A o \in Runs : Active(o) => session[o] # session[r]
  PROVE  IInv'
<1>1. TypeOK /\ RunState /\ messages[r] \in Seq(Message) /\ RunOk(r)
  BY RunTypes DEF IInv
<1>2. pc'[r] = where /\ loops'[r] = <<>> /\ messages'[r] = messages[r]
  BY <1>1 DEF TypeOK
<1>3. RunOk(r)'
  <2>1. Answers(r)' = Answers(r)
    BY DEF Answers
  <2> QED
    BY <1>1, <1>2, <2>1 DEF RunOk
<1>4. messages' = [messages EXCEPT ![r] = messages[r]]
  BY <1>1 DEF TypeOK
<1>5. <<>> \in Seq(Loop) /\ Len(<<>>) <= 1 + MaxSpawnDepth
  BY LimitsAssumption
<1>6. Turnwise(messages[r])
  BY DEF IInv, TurnsWhole
<1>7. \A i \in 1..Len(messages[r]) :
        messages[r][i].run = r \/ (pc[messages[r][i].run] = "done" /\ session[messages[r][i].run] = session[r])
  BY DEF IInv, Own
<1>8. pc[r] # "done" /\ (Active(r) \/ \A o \in Runs : ~overlap /\ Active(o) => session[o] # session[r])
  BY DEF Active
<1> QED
  BY <1>1, <1>3, <1>4, <1>5, <1>6, <1>7, <1>8, OwnStepKeeps

LEMMA StartKeeps == ASSUME IInv, NEW r \in Runs, Start(r) PROVE IInv'
<1>1. loops[r] = <<>>
  BY RunTypes DEF IInv, Start
<1>2. loops' = [loops EXCEPT ![r] = <<>>]
  BY <1>1 DEF IInv, TypeOK, Start
<1> QED
  BY <1>2, StopsKeep DEF Start, Goto

LEMMA LoadKeeps == ASSUME IInv, NEW r \in Runs, Load(r) PROVE IInv'
<1> DEFINE h == store[session[r]]
           t == Append(Seed(r, h), Msg("user", r, NoCalls))
<1>1. /\ t \in Seq(Message) /\ t # <<>> /\ t[Len(t)] = Msg("user", r, NoCalls) /\ Turnwise(t)
      /\ \A i \in 1..Len(t) : \/ t[i].run = r /\ t[i].role # "assistant"
                              \/ t[i].run # r /\ pc[t[i].run] = "done" /\ session[t[i].run] = session[r]
      /\ Len(h) <= Len(t) /\ \A i \in 1..Len(h) : t[i] = h[i]
  BY Seeded DEF Load
<1>2. /\ messages' = [messages EXCEPT ![r] = t] /\ loops' = [loops EXCEPT ![r] = <<FirstStep>>]
      /\ pc' = [pc EXCEPT ![r] = "thinking"] /\ UNCHANGED <<overlap, session, store>> /\ pc[r] = "loading"
  BY DEF Load, Goto
<1> HIDE DEF t, h
<1>3. messages'[r] = t /\ loops'[r] = <<FirstStep>> /\ pc'[r] = "thinking"
  BY <1>2 DEF IInv, TypeOK
<1>4. Msg("user", r, NoCalls).role = "user" /\ Msg("user", r, NoCalls).run = r
  BY MsgIs DEF Roles
<1>5. DOMAIN t = 1..Len(t)
  BY <1>1
<1>6. Answers(r)' = {}
  BY <1>1, <1>3, <1>5 DEF Answers
<1>7. Cardinality(Answers(r)') = 0 /\ 0 <= MaxSteps
  BY <1>6, FS_EmptySet, LimitsAssumption
<1>8. Thinking(r)'
  BY <1>1, <1>3, <1>4, <1>7, FirstStepIs DEF Thinking
<1>9. RunOk(r)'
  BY <1>1, <1>3, <1>4, <1>7, <1>8, FirstStepIs DEF RunOk, InSubAgent
<1>10. Len(<<FirstStep>>) <= 1 + MaxSpawnDepth /\ <<FirstStep>> \in Seq(Loop)
  BY FirstStepIs, LimitsAssumption
<1> QED
  BY <1>1, <1>2, <1>9, <1>10, OwnStepKeeps DEF h, Active

\* Where no sub-agent works, the loop on top is the run's own.
LEMMA OwnLoop ==
  ASSUME IInv, NEW r \in Runs, pc[r] \in {"thinking", "acting"}, ~InSubAgent(r)
  PROVE  /\ TypeOK /\ RunState /\ RunOk(r) /\ Len(loops[r]) = 1 /\ Top(r) = loops[r][1] /\ loops[r][1] \in Loop
         /\ messages[r] \in Seq(Message) /\ messages[r] # <<>> /\ Len(messages[r]) \in Nat /\ Len(messages[r]) >= 1
         /\ messages[r][Len(messages[r])].run = r
         /\ \A m : Push(r, m) => messages' = [messages EXCEPT ![r] = Append(messages[r], m)]
         /\ \A where : EndLoop(r, where) => /\ loops' = [loops EXCEPT ![r] = <<>>]
                                            /\ pc' = [pc EXCEPT ![r] = where]
         /\ \A loop \in Loop : SetTop(r, loop) =>
              \E L \in Seq(Loop) : Len(L) = 1 /\ L # <<>> /\ L[1] = loop /\ loops' = [loops EXCEPT ![r] = L]
<1>1. /\ TypeOK /\ RunState /\ RunOk(r) /\ loops[r] \in Seq(Loop) /\ loops[r] # <<>> /\ messages[r] \in Seq(Message)
  BY RunTypes DEF IInv
<1>2. messages[r] # <<>> /\ messages[r][Len(messages[r])].run = r
  BY <1>1 DEF RunOk
<1>3. Len(messages[r]) \in Nat /\ Len(messages[r]) >= 1
  BY <1>1, <1>2
<1>4. Len(loops[r]) = 1
  <2>1. \A n \in Nat : n >= 1 /\ ~(n > 1) => n = 1
    OBVIOUS
  <2>2. Len(loops[r]) \in Nat /\ Len(loops[r]) >= 1 /\ ~(Len(loops[r]) > 1)
    BY <1>1 DEF InSubAgent
  <2> QED
    BY <2>1, <2>2, Zenon
<1>5. Top(r) = loops[r][1] /\ loops[r][1] \in Loop
  BY <1>1, <1>4, LoopTypes DEF Top
<1>6. ASSUME NEW m, Push(r, m) PROVE messages' = [messages EXCEPT ![r] = Append(messages[r], m)]
  BY <1>6 DEF Push
<1>7. ASSUME NEW where, EndLoop(r, where)
      PROVE  loops' = [loops EXCEPT ![r] = <<>>] /\ pc' = [pc EXCEPT ![r] = where]
  BY <1>7 DEF EndLoop, Goto
<1>8. ASSUME NEW loop \in Loop, SetTop(r, loop)
      PROVE  \E L \in Seq(Loop) : Len(L) = 1 /\ L # <<>> /\ L[1] = loop /\ loops' = [loops EXCEPT ![r] = L]
  <2> DEFINE M == Append(Front(loops[r]), loop)
  <2>1. M \in Seq(Loop) /\ Len(M) = 1 /\ M # <<>> /\ M[1] = loop
    BY <1>1, <1>4, SetTopIs
  <2>2. loops' = [loops EXCEPT ![r] = M]
    BY <1>8 DEF SetTop
  <2> HIDE DEF M
  <2> QED
    BY <2>1, <2>2
<1> QED
  BY <1>1, <1>2, <1>3, <1>4, <1>5, <1>6, <1>7, <1>8

\* The last message of a run that waits for the model lets it answer.
LEMMA AnswerFollows ==
  ASSUME IInv, NEW r \in Runs, pc[r] = "thinking", ~InSubAgent(r), NEW m \in Message, m.role = "assistant"
  PROVE  Thinking(r) /\ Follows(messages[r][Len(messages[r])], m) /\ m.role # "tool"
<1>1. Thinking(r)
  BY OwnLoop DEF RunOk
<1> QED
  BY <1>1 DEF Thinking, Follows

\* The run has an answer more, and has its steps.
LEMMA OneMoreAnswer ==
  ASSUME IInv, NEW r \in Runs, pc[r] = "thinking", ~InSubAgent(r), NEW m \in Message, m.role = "assistant", m.run = r,
         messages'[r] = Append(messages[r], m)
  PROVE  Cardinality(Answers(r)') = loops[r][1].step + 1 /\ Cardinality(Answers(r)') <= MaxSteps
<1>1. TypeOK /\ Thinking(r) /\ loops[r][1] \in Loop
  BY OwnLoop, AnswerFollows
<1>2. Cardinality(Answers(r)') = Cardinality(Answers(r)) + 1
  BY <1>1, AnswersPushed
<1>3. Cardinality(Answers(r)) = loops[r][1].step
  BY <1>1 DEF Thinking
<1>4. loops[r][1].step \in 0..MaxSteps - 1
  BY <1>1 DEF Loop
<1> QED
  BY <1>2, <1>3, <1>4, LimitsAssumption

LEMMA AnswerKeeps == ASSUME IInv, NEW r \in Runs, Answer(r), ~InSubAgent(r) PROVE IInv'
<1> DEFINE m == Msg("assistant", r, NoCalls)
<1>1. m \in Message /\ m.role = "assistant" /\ m.run = r /\ m.calls = NoCalls
  BY MsgIs DEF Roles
<1>2. pc[r] = "thinking" /\ Push(r, m) /\ EndLoop(r, "saving") /\ UNCHANGED <<overlap, session, store>>
  BY DEF Answer
<1> HIDE DEF m
<1> DEFINE a == Append(messages[r], m)
<1>3. /\ TypeOK /\ messages[r] \in Seq(Message) /\ messages' = [messages EXCEPT ![r] = a]
      /\ loops' = [loops EXCEPT ![r] = <<>>] /\ pc' = [pc EXCEPT ![r] = "saving"]
  BY <1>2, OwnLoop
<1>4. messages'[r] = a /\ loops'[r] = <<>> /\ pc'[r] = "saving"
  BY <1>3 DEF TypeOK
<1>5. Follows(messages[r][Len(messages[r])], m) /\ m.role # "tool"
  BY <1>1, <1>2, AnswerFollows
<1>6. Cardinality(Answers(r)') <= MaxSteps
  BY <1>1, <1>2, <1>4, OneMoreAnswer
<1>7. a # <<>> /\ Len(a) = Len(messages[r]) + 1 /\ a[Len(messages[r]) + 1] = m
  BY <1>1, <1>3, PushIs
<1> HIDE DEF a
<1>8. a[Len(a)] = m
  BY <1>7
<1>9. Ended(a)
  BY <1>1, <1>8 DEF Ended, CutByGuard, AsksForTools
<1>10. RunOk(r)'
  BY <1>1, <1>4, <1>6, <1>7, <1>8, <1>9 DEF RunOk, InSubAgent
<1>11. <<>> \in Seq(Loop) /\ Len(<<>>) <= 1
  OBVIOUS
<1> QED
  BY <1>1, <1>2, <1>3, <1>5, <1>10, <1>11, PushKeeps DEF a

\* What the repeat guard counts: how many of the rounds at the end are for the same calls.
LEMMA GuardCounts ==
  ASSUME IInv, NEW r \in Runs, pc[r] = "thinking", ~InSubAgent(r), NEW calls \in Signatures,
         NEW m \in Message, m.role = "assistant", m.run = r, m.calls = calls
  PROVE  LET n == RepeatCount(loops[r][1], calls)
             a == Append(messages[r], m) IN
         /\ n \in 1..MAX_REPEAT
         /\ \A k \in 1..MAX_REPEAT : RepeatedRounds(a, Len(messages[r]) + 1, k) <=> k <= n
<1> DEFINE t == messages[r]
           loop == loops[r][1]
           n == RepeatCount(loop, calls)
           Before(k) == /\ Len(t) - 1 \in 1..Len(t) /\ t[Len(t) - 1].run = m.run /\ t[Len(t) - 1].calls = m.calls
                        /\ RepeatedRounds(t, Len(t) - 1, k)
<1>1. /\ t \in Seq(Message) /\ t # <<>> /\ Len(t) \in Nat /\ Len(t) >= 1 /\ t[Len(t)].run = r /\ DOMAIN t = 1..Len(t)
      /\ loop \in Loop /\ Turnwise(t)
  BY OwnLoop DEF IInv, TurnsWhole
<1>2. \/ t[Len(t)].role = "user" /\ loop.signature = NoCalls
      \/ t[Len(t)].role = "tool" /\ t[Len(t)].calls = loop.signature /\ CountsRounds(t, Len(t) - 1, loop)
  BY AnswerFollows DEF Thinking
<1>3. AsksForTools(m) /\ calls # NoCalls
  BY SignaturesAssumption DEF AsksForTools
<1>4. \A k \in 1..MAX_REPEAT : RepeatedRounds(Append(t, m), Len(t) + 1, k) <=> k = 1 \/ Before(k - 1)
  <2> SUFFICES ASSUME NEW k \in 1..MAX_REPEAT
               PROVE  RepeatedRounds(Append(t, m), Len(t) + 1, k) <=> k = 1 \/ Before(k - 1)
    OBVIOUS
  <2>1. k \in Nat /\ k >= 1
    BY DEF MAX_REPEAT
  <2> QED
    BY <1>1, <1>3, <2>1, OneMoreRound
<1> HIDE DEF t, loop
<1>5. ASSUME Len(t) - 1 \in 1..Len(t), t[Len(t) - 1].run = r
      PROVE  Follows(t[Len(t) - 1], t[Len(t)])
  <2>1. (Len(t) - 1) + 1 = Len(t) /\ (Len(t) - 1) + 1 <= Len(t)
    BY <1>1
  <2> QED
    BY <1>1, <1>5, <2>1 DEF Turnwise
<1>6. CASE t[Len(t)].role = "user" /\ loop.signature = NoCalls
  <2>1. n = 1
    BY <1>3, <1>6 DEF RepeatCount
  <2>2. ASSUME NEW k \in 1..MAX_REPEAT, k # 1, Before(k - 1) PROVE FALSE
    <3>1. t[Len(t) - 1].role = "system"
      BY <1>5, <1>6, <2>2 DEF Follows
    <3>2. 0 \in 0..(k - 1) - 1 /\ Len(t) - 1 - 2 * 0 = Len(t) - 1
      BY <1>1, <2>2 DEF MAX_REPEAT
    <3>3. AsksForTools(t[Len(t) - 1])
      BY <2>2, <3>2 DEF RepeatedRounds
    <3> QED
      BY <3>1, <3>3 DEF AsksForTools
  <2>3. \A k \in 1..MAX_REPEAT : (k = 1 \/ Before(k - 1)) <=> k <= n
    <3> HIDE DEF Before, n
    <3> QED
      BY <2>1, <2>2 DEF MAX_REPEAT
  <2>4. n \in 1..MAX_REPEAT
    BY <2>1 DEF MAX_REPEAT
  <2> QED
    BY <1>4, <2>3, <2>4 DEF t, loop
<1>7. CASE t[Len(t)].role = "tool" /\ t[Len(t)].calls = loop.signature /\ CountsRounds(t, Len(t) - 1, loop)
  <2>1. /\ loop.repeats \in 1..MAX_REPEAT - 1
        /\ \A k \in 1..MAX_REPEAT : RepeatedRounds(t, Len(t) - 1, k) <=> k <= loop.repeats
    BY <1>7 DEF CountsRounds
  <2>2. Len(t) - 1 \in 1..Len(t)
    <3>1. RepeatedRounds(t, Len(t) - 1, 1)
      BY <2>1 DEF MAX_REPEAT
    <3>2. 0 \in 0..1 - 1 /\ Len(t) - 1 - 2 * 0 = Len(t) - 1
      BY <1>1
    <3> QED
      BY <1>1, <3>1, <3>2 DEF RepeatedRounds
  <2>3. t[Len(t) - 1].run = r /\ t[Len(t) - 1].calls = loop.signature
    <3>1. (Len(t) - 1) + 1 = Len(t) /\ (Len(t) - 1) + 1 <= Len(t)
      BY <1>1
    <3>2. ~Begins(t[Len(t) - 1], t[Len(t)])
      BY <1>7 DEF Begins
    <3>3. t[Len(t) - 1].run = t[Len(t)].run /\ Follows(t[Len(t) - 1], t[Len(t)])
      BY <1>1, <2>2, <3>1, <3>2 DEF Turnwise
    <3> QED
      BY <1>1, <1>7, <3>3 DEF Follows
  <2>4. CASE calls = loop.signature
    <3>1. n = loop.repeats + 1
      BY <2>4 DEF RepeatCount
    <3>2. \A k \in 1..MAX_REPEAT : k # 1 => (Before(k - 1) <=> k - 1 <= loop.repeats)
      BY <2>1, <2>2, <2>3, <2>4 DEF MAX_REPEAT
    <3>3. \A k \in 1..MAX_REPEAT : (k = 1 \/ Before(k - 1)) <=> k <= n
      <4> HIDE DEF Before, n
      <4> QED
        BY <2>1, <3>1, <3>2 DEF MAX_REPEAT
    <3>4. n \in 1..MAX_REPEAT
      BY <2>1, <3>1 DEF MAX_REPEAT
    <3> QED
      BY <1>4, <3>3, <3>4 DEF t, loop
  <2>5. CASE calls # loop.signature
    <3>1. n = 1
      BY <2>5 DEF RepeatCount
    <3>2. \A k \in 1..MAX_REPEAT : ~Before(k - 1)
      BY <2>3, <2>5
    <3>3. \A k \in 1..MAX_REPEAT : (k = 1 \/ Before(k - 1)) <=> k <= n
      <4> HIDE DEF Before, n
      <4> QED
        BY <3>1, <3>2 DEF MAX_REPEAT
    <3>4. n \in 1..MAX_REPEAT
      BY <3>1 DEF MAX_REPEAT
    <3> QED
      BY <1>4, <3>3, <3>4 DEF t, loop
  <2> QED
    BY <2>4, <2>5
<1> QED
  BY <1>2, <1>6, <1>7

LEMMA AskKeeps ==
  ASSUME IInv, NEW r \in Runs, NEW calls \in Signatures, Ask(r, calls), ~InSubAgent(r)
  PROVE  IInv'
<1> DEFINE m == Msg("assistant", r, calls)
           n == RepeatCount(loops[r][1], calls)
           a == Append(messages[r], m)
<1>1. m \in Message /\ m.role = "assistant" /\ m.run = r /\ m.calls = calls
  BY MsgIs DEF Roles
<1>2. /\ TypeOK /\ messages[r] \in Seq(Message) /\ Len(messages[r]) \in Nat /\ Top(r) = loops[r][1]
      /\ loops[r][1] \in Loop /\ pc[r] = "thinking" /\ UNCHANGED <<overlap, session, store>>
      /\ messages' = [messages EXCEPT ![r] = a]
  BY OwnLoop DEF Ask
<1>3. n \in 1..MAX_REPEAT /\ \A k \in 1..MAX_REPEAT : RepeatedRounds(a, Len(messages[r]) + 1, k) <=> k <= n
  <2> HIDE DEF m
  <2> QED
    BY <1>1, <1>2, GuardCounts
<1>4. /\ n >= MAX_REPEAT => EndLoop(r, "saving")
      /\ ~(n >= MAX_REPEAT) => /\ SetTop(r, [loops[r][1] EXCEPT !.signature = calls, !.repeats = n])
                               /\ Goto(r, "acting")
  BY <1>2 DEF Ask
<1> HIDE DEF m, n
<1>5. a # <<>> /\ Len(a) = Len(messages[r]) + 1 /\ a[Len(messages[r]) + 1] = m
  BY <1>1, <1>2, PushIs
<1> HIDE DEF a
<1>6. a[Len(a)] = m
  BY <1>5
<1>7. messages'[r] = a
  BY <1>2 DEF TypeOK
<1>8. Cardinality(Answers(r)') = loops[r][1].step + 1 /\ Cardinality(Answers(r)') <= MaxSteps
  BY <1>1, <1>2, <1>7, OneMoreAnswer DEF a
<1>9. Follows(messages[r][Len(messages[r])], m) /\ m.role # "tool"
  BY <1>1, <1>2, AnswerFollows
<1>10. messages' = [messages EXCEPT ![r] = Append(messages[r], m)]
  BY <1>2 DEF a
<1>11. CASE n >= MAX_REPEAT
  <2>1. loops' = [loops EXCEPT ![r] = <<>>] /\ pc' = [pc EXCEPT ![r] = "saving"]
    BY <1>2, <1>4, <1>11, OwnLoop
  <2>2. loops'[r] = <<>> /\ pc'[r] = "saving"
    BY <1>2, <2>1 DEF TypeOK
  <2>3. RepeatedRounds(a, Len(a), MAX_REPEAT)
    BY <1>3, <1>5, <1>11 DEF MAX_REPEAT
  <2>4. Ended(a)
    BY <1>1, <1>6, <2>3 DEF Ended, CutByGuard
  <2>5. RunOk(r)'
    BY <1>1, <1>5, <1>6, <1>7, <1>8, <2>2, <2>4 DEF RunOk, InSubAgent
  <2>6. <<>> \in Seq(Loop) /\ Len(<<>>) <= 1
    OBVIOUS
  <2> QED
    BY <1>1, <1>2, <1>9, <1>10, <2>1, <2>5, <2>6, PushKeeps
<1>12. CASE ~(n >= MAX_REPEAT)
  <2> DEFINE loop == [loops[r][1] EXCEPT !.signature = calls, !.repeats = n]
  <2>1. n \in 1..MAX_REPEAT - 1
    BY <1>3, <1>12 DEF MAX_REPEAT
  <2>2. loop \in Loop /\ loop.step = loops[r][1].step /\ loop.signature = calls /\ loop.repeats = n
    <3> DEFINE x == loops[r][1]
    <3>1. x \in Loop /\ loop = [x EXCEPT !.signature = calls, !.repeats = n] /\ n \in 0..MAX_REPEAT
      BY <1>2, <2>1 DEF MAX_REPEAT
    <3> HIDE DEF x, loop
    <3>2. loop \in Loop /\ loop.step = x.step /\ loop.signature = calls /\ loop.repeats = n
      BY <3>1 DEF Loop
    <3> QED
      BY <3>2 DEF x
  <2>3. SetTop(r, loop) /\ pc' = [pc EXCEPT ![r] = "acting"]
    BY <1>4, <1>12 DEF Goto
  <2> HIDE DEF loop
  <2>4. PICK L \in Seq(Loop) : Len(L) = 1 /\ L # <<>> /\ L[1] = loop /\ loops' = [loops EXCEPT ![r] = L]
    BY <1>2, <2>2, <2>3, OwnLoop
  <2>5. loops'[r] = L /\ pc'[r] = "acting"
    BY <1>2, <2>3, <2>4 DEF TypeOK
  <2>6. AsksForTools(m)
    BY <1>1, SignaturesAssumption DEF AsksForTools
  <2>7. CountsRounds(a, Len(a), loop)
    BY <1>3, <1>5, <2>1, <2>2 DEF CountsRounds
  <2>8. Acting(r)'
    BY <1>1, <1>6, <1>7, <1>8, <2>2, <2>4, <2>5, <2>6, <2>7 DEF Acting
  <2>9. RunOk(r)'
    BY <1>1, <1>5, <1>6, <1>7, <1>8, <2>4, <2>5, <2>8 DEF RunOk, InSubAgent
  <2>10. Len(L) <= 1
    BY <2>4
  <2> QED
    BY <1>1, <1>2, <1>9, <1>10, <2>3, <2>4, <2>9, <2>10, PushKeeps
<1> QED
  BY <1>11, <1>12

LEMMA ObserveKeeps == ASSUME IInv, NEW r \in Runs, Observe(r), ~InSubAgent(r) PROVE IInv'
<1> DEFINE t == messages[r]
           x == loops[r][1]
           m == Msg("tool", r, x.signature)
           a == Append(t, m)
<1>1. /\ TypeOK /\ t \in Seq(Message) /\ Len(t) \in Nat /\ Len(t) >= 1 /\ Top(r) = x /\ DOMAIN t = 1..Len(t)
      /\ x \in Loop /\ pc[r] = "acting" /\ UNCHANGED <<overlap, session, store>> /\ RunOk(r)
      /\ messages' = [messages EXCEPT ![r] = a]
  BY OwnLoop DEF Observe
<1>2. Acting(r)
  BY <1>1 DEF RunOk
<1>3. /\ Cardinality(Answers(r)) = x.step + 1 /\ AsksForTools(t[Len(t)]) /\ t[Len(t)].calls = x.signature
      /\ CountsRounds(t, Len(t), x) /\ Cardinality(Answers(r)) <= MaxSteps
  BY <1>1, <1>2 DEF Acting, RunOk
<1>4. m \in Message /\ m.role = "tool" /\ m.run = r /\ m.calls = x.signature
  <2>1. x.signature \in Signatures \cup {NoCalls}
    BY <1>1 DEF Loop
  <2> QED
    BY <2>1, MsgIs DEF Roles
<1>5. /\ MoreSteps(x) => SetTop(r, [x EXCEPT !.step = @ + 1, !.told = FALSE]) /\ Goto(r, "thinking")
      /\ ~MoreSteps(x) => EndLoop(r, "failed")
  BY <1>1 DEF Observe
<1>6. /\ a \in Seq(Message) /\ a # <<>> /\ Len(a) = Len(t) + 1 /\ a[Len(t) + 1] = m
      /\ \A i \in 1..Len(t) : a[i] = t[i]
  <2> HIDE DEF m
  <2> QED
    BY <1>1, <1>4, PushIs
<1>7. messages'[r] = a
  BY <1>1 DEF TypeOK
<1>8. Follows(t[Len(t)], m)
  BY <1>3, <1>4 DEF Follows
<1>9. ~RepeatedRounds(t, Len(t), MAX_REPEAT)
  BY <1>3 DEF CountsRounds, MAX_REPEAT
<1>10. Answers(r)' = Answers(r)
  <2> HIDE DEF m
  <2> QED
    BY <1>1, <1>4, <1>7, AnswersPushed
<1>11. messages' = [messages EXCEPT ![r] = Append(messages[r], m)]
  BY <1>1
<1> HIDE DEF a, m, x
<1>12. a[Len(a)] = m
  BY <1>6
<1>13. CASE ~MoreSteps(x)
  <2>1. loops' = [loops EXCEPT ![r] = <<>>] /\ pc' = [pc EXCEPT ![r] = "failed"]
    BY <1>1, <1>5, <1>13, OwnLoop
  <2>2. loops'[r] = <<>> /\ pc'[r] = "failed"
    BY <1>1, <2>1 DEF TypeOK
  <2>3. RunOk(r)'
    BY <1>3, <1>10, <2>2 DEF RunOk, InSubAgent
  <2>4. <<>> \in Seq(Loop) /\ Len(<<>>) <= 1
    OBVIOUS
  <2> QED
    BY <1>1, <1>4, <1>8, <1>9, <1>11, <2>1, <2>3, <2>4, PushKeeps
<1>14. CASE MoreSteps(x)
  <2> DEFINE loop == [x EXCEPT !.step = @ + 1, !.told = FALSE]
  <2>1. x.step + 1 \in 0..MaxSteps - 1
    <3>1. x.step \in 0..MaxSteps - 1
      BY <1>1 DEF Loop
    <3> QED
      BY <3>1, <1>14, LimitsAssumption DEF MoreSteps
  <2>2. loop \in Loop /\ loop.step = x.step + 1 /\ loop.signature = x.signature /\ loop.repeats = x.repeats
    BY <1>1, <2>1 DEF Loop
  <2>3. SetTop(r, loop) /\ pc' = [pc EXCEPT ![r] = "thinking"]
    BY <1>5, <1>14 DEF Goto
  <2> HIDE DEF loop
  <2>4. PICK L \in Seq(Loop) : Len(L) = 1 /\ L # <<>> /\ L[1] = loop /\ loops' = [loops EXCEPT ![r] = L]
    BY <1>1, <2>2, <2>3, OwnLoop
  <2>5. loops'[r] = L /\ pc'[r] = "thinking"
    BY <1>1, <2>3, <2>4 DEF TypeOK
  <2>6. CountsRounds(a, Len(a) - 1, loop)
    <3>1. Len(a) - 1 = Len(t) /\ Len(t) \in 1..Len(t) /\ Len(t) <= Len(a) /\ DOMAIN a = 1..Len(a) /\ Len(a) \in Nat
      BY <1>1, <1>6
    <3>2. \A k \in 1..MAX_REPEAT : RepeatedRounds(a, Len(t), k) <=> RepeatedRounds(t, Len(t), k)
      <4> SUFFICES ASSUME NEW k \in 1..MAX_REPEAT PROVE RepeatedRounds(a, Len(t), k) <=> RepeatedRounds(t, Len(t), k)
        OBVIOUS
      <4>1. k \in Nat
        BY DEF MAX_REPEAT
      <4> HIDE DEF t
      <4> QED
        BY <1>1, <1>6, <3>1, <4>1, RoundsKeep
    <3> QED
      BY <1>3, <2>2, <3>1, <3>2 DEF CountsRounds
  <2>7. Thinking(r)'
    BY <1>3, <1>4, <1>7, <1>10, <1>12, <2>2, <2>4, <2>5, <2>6 DEF Thinking
  <2>8. RunOk(r)'
    <3>1. messages'[r] # <<>> /\ messages'[r][Len(messages'[r])].run = r
      BY <1>4, <1>6, <1>7, <1>12
    <3>2. Cardinality(Answers(r)') <= MaxSteps
      BY <1>3, <1>10
    <3>3. loops'[r] # <<>> /\ ~(Len(loops'[r]) > 1)
      <4>1. loops'[r] = L /\ L # <<>> /\ Len(L) = 1
        BY <2>4, <2>5
      <4>2. ~(1 > 1)
        OBVIOUS
      <4> QED
        BY <4>1, <4>2, Zenon
    <3> QED
      BY <2>5, <2>7, <3>1, <3>2, <3>3 DEF RunOk, InSubAgent
  <2>9. Len(L) <= 1
    BY <2>4
  <2> QED
    BY <1>1, <1>4, <1>8, <1>9, <1>11, <2>3, <2>4, <2>8, <2>9, PushKeeps
<1> QED
  BY <1>13, <1>14

LEMMA FailKeeps == ASSUME IInv, NEW r \in Runs, Fail(r), ~InSubAgent(r) PROVE IInv'
<1>1. Active(r) /\ UNCHANGED <<overlap, session, messages, store>>
  BY DEF Fail
<1>2. loops' = [loops EXCEPT ![r] = <<>>] /\ pc' = [pc EXCEPT ![r] = "failed"]
  BY DEF Fail, EndLoop, Goto
<1> QED
  BY <1>1, <1>2, StopsKeep

LEMMA SaveKeeps == ASSUME IInv, NEW r \in Runs, Save(r) PROVE IInv'
<1> USE DEF IInv
<1> DEFINE t == messages[r]
           s == session[r]
<1>1. /\ pc[r] = "saving" /\ store' = [store EXCEPT ![s] = t] /\ pc' = [pc EXCEPT ![r] = "done"]
      /\ UNCHANGED <<overlap, session, messages, loops>>
  BY DEF Save, Goto
<1>2. /\ t \in Seq(Message) /\ s \in Sessions /\ RunOk(r) /\ Ended(t) /\ Turnwise(t)
  BY <1>1, RunTypes DEF RunOk, TurnsWhole
<1>3. TypeOK'
  BY <1>1, <1>2 DEF TypeOK
<1>4. /\ pc'[r] = "done" /\ store'[s] = t
      /\ \A o \in Runs : o # r => pc'[o] = pc[o]
      /\ \A u \in Sessions : u # s => store'[u] = store[u]
  BY <1>1, <1>2 DEF TypeOK
<1>5. RunState'
  <2> SUFFICES ASSUME NEW o \in Runs PROVE RunOk(o)'
    BY DEF RunState
  <2>1. RunOk(o) /\ Answers(o)' = Answers(o)
    BY <1>1, RunTypes DEF Answers
  <2>2. CASE o # r
    BY <1>1, <1>4, <2>1, <2>2, OthersKeep
  <2>3. CASE o = r
    BY <1>1, <1>4, <2>1, <2>3 DEF RunOk
  <2> QED
    BY <2>2, <2>3
<1>6. \A o \in Runs : pc[o] = "done" => pc'[o] = "done"
  BY <1>4
<1>7. Own'
  BY <1>1, <1>6, RunsOf DEF Own
<1>8. TurnsWhole'
  <2>1. \A o \in Runs : Turnwise(messages'[o])
    BY <1>1 DEF TurnsWhole
  <2>2. ASSUME NEW u \in Sessions
        PROVE  /\ Turnwise(store'[u]) /\ Ended(store'[u])
               /\ \A i \in 1..Len(store'[u]) : pc'[store'[u][i].run] = "done" /\ session[store'[u][i].run] = u
    <3>1. CASE u # s
      BY <1>4, <1>6, <3>1, RunsOf DEF TurnsWhole
    <3>2. CASE u = s
      <4>1. \A i \in 1..Len(t) : t[i].run = r \/ (pc[t[i].run] = "done" /\ session[t[i].run] = s)
        BY DEF Own
      <4>2. \A i \in 1..Len(t) : t[i].run \in Runs
        BY RunsOf
      <4> HIDE DEF t
      <4> QED
        BY <1>2, <1>4, <1>6, <3>2, <4>1, <4>2
    <3> QED
      BY <3>1, <3>2
  <2> QED
    BY <1>1, <2>1, <2>2 DEF TurnsWhole
<1>9. OnStored'
  <2> SUFFICES ASSUME ~overlap PROVE OnStored'
    BY <1>1 DEF OnStored
  <2>1. Active(r) /\ ~Active(r)' /\ \A o \in Runs : o # r => (Active(o)' <=> Active(o))
    BY <1>1, <1>4 DEF Active
  <2>2. ASSUME NEW o \in Runs, pc'[o] \in {"thinking", "acting", "saving"}
        PROVE  o # r /\ session[o] # s /\ session[o] \in Sessions /\ pc[o] = pc'[o]
    <3>1. o # r
      BY <1>4, <2>2
    <3>2. Active(o)
      BY <1>4, <2>2, <3>1 DEF Active
    <3> QED
      BY <1>4, <2>1, <3>1, <3>2, RunTypes DEF OnStored
  <2> QED
    BY <1>1, <1>4, <2>1, <2>2 DEF OnStored
<1> QED
  BY <1>3, <1>5, <1>7, <1>8, <1>9

LEMMA InitHolds == ASSUME Init PROVE IInv
<1>1. /\ \A r \in Runs : pc[r] = "idle" /\ messages[r] = <<>> /\ loops[r] = <<>>
      /\ \A s \in Sessions : store[s] = <<>>
  BY DEF Init
<1>2. TypeOK
  BY LimitsAssumption DEF Init, TypeOK
<1>3. Turnwise(<<>>) /\ Ended(<<>>)
  BY DEF Turnwise, Ended
<1>4. RunState
  <2> SUFFICES ASSUME NEW r \in Runs PROVE RunOk(r)
    BY DEF RunState
  <2>1. Answers(r) = {}
    BY <1>1 DEF Answers
  <2>2. Cardinality(Answers(r)) <= MaxSteps
    BY <2>1, FS_EmptySet, LimitsAssumption
  <2> QED
    BY <1>1, <2>2 DEF RunOk
<1>5. Own
  BY <1>1 DEF Own
<1>6. TurnsWhole
  <2>1. \A s \in Sessions : \A i \in 1..Len(store[s]) : FALSE
    BY <1>1
  <2> QED
    BY <1>1, <1>3, <2>1 DEF TurnsWhole
<1>7. OnStored
  BY <1>1 DEF OnStored, Active
<1> QED
  BY <1>2, <1>4, <1>5, <1>6, <1>7 DEF IInv

LEMMA RunKeeps == ASSUME IInv, NEW r \in Runs, Run(r) PROVE IInv'
<1>1. TypeOK /\ RunState
  BY DEF IInv
<1>2. CASE Delegate(r)
  <2>1. WithSubAgent(r)
    BY <1>2 DEF WithSubAgent, Delegate
  <2> QED
    BY <1>1, <1>2, <2>1, SubAgentSteps, SubAgentKeeps
<1>3. CASE InSubAgent(r) /\ (Answer(r) \/ (\E calls \in Signatures : Ask(r, calls)) \/ Observe(r) \/ Fail(r))
  <2>1. pc[r] \in {"thinking", "acting"}
    BY <1>1, <1>3, RunTypes DEF InSubAgent
  <2>2. WithSubAgent(r)
    BY <1>3, <2>1 DEF WithSubAgent
  <2> QED
    BY <1>1, <1>3, <2>2, SubAgentSteps, SubAgentKeeps
<1>4. CASE ~InSubAgent(r) /\ Answer(r)
  BY <1>4, AnswerKeeps
<1>5. CASE ~InSubAgent(r) /\ \E calls \in Signatures : Ask(r, calls)
  BY <1>5, AskKeeps
<1>6. CASE ~InSubAgent(r) /\ Observe(r)
  BY <1>6, ObserveKeeps
<1>7. CASE ~InSubAgent(r) /\ Fail(r)
  BY <1>7, FailKeeps
<1> QED
  BY <1>2, <1>3, <1>4, <1>5, <1>6, <1>7, StartKeeps, LoadKeeps, SaveKeeps DEF Run

LEMMA StutterKeeps == ASSUME IInv, UNCHANGED vars PROVE IInv'
<1>1. UNCHANGED <<overlap, pc, session, messages, loops, store>>
  BY DEF vars
<1>2. TypeOK'
  BY <1>1 DEF IInv, TypeOK
<1>3. RunState'
  BY <1>1, RunTypes, OthersKeep DEF IInv, RunState
<1>4. Own' /\ TurnsWhole' /\ OnStored'
  BY <1>1 DEF IInv, Own, TurnsWhole, OnStored, Active
<1> QED
  BY <1>2, <1>3, <1>4 DEF IInv

\* The invariant holds in every state that runs of an agent can reach.
THEOREM Invariance == Safe => []IInv
<1>1. Init => IInv
  BY InitHolds
<1>2. IInv /\ [Next]_vars => IInv'
  BY RunKeeps, StutterKeeps DEF Next, Quiet
<1> QED
  BY <1>1, <1>2, PTL DEF Safe

\* Every variable keeps its type, and sub-agents are never nested deeper than the limit of
\* makeSpawn (spawn.ts): the stack of loops is one longer at most.
THEOREM TypeCorrect == Spec => []TypeOK
<1>1. IInv => TypeOK
  BY DEF IInv
<1> QED
  BY <1>1, Invariance, PTL DEF Spec

-----------------------------------------------------------------------------
(* What the invariant says of the guards, of the store, and of a conversation. *)

\* runLoop's guards (loop.ts), for any number of steps and any batches: a run makes at most
\* MaxSteps model calls, and never executes the same calls MAX_REPEAT times in a row.
THEOREM GuardsHold == Spec => []LoopGuards
<1>1. IInv => LoopGuards
  <2> SUFFICES ASSUME IInv, NEW r \in Runs
               PROVE  /\ ModelCalls(r) <= MaxSteps
                      /\ \A i \in DOMAIN messages[r] :
                           RepeatedRounds(messages[r], i, MAX_REPEAT) => ~AnsweredAt(messages[r], i)
    BY DEF LoopGuards
  <2>1. TypeOK /\ RunState /\ RunOk(r) /\ Cardinality(Answers(r)) <= MaxSteps /\ DOMAIN messages[r] = 1..Len(messages[r])
    BY RunTypes DEF IInv, RunOk
  <2>2. Cardinality(Answers(r)) \in Nat
    <3>1. messages[r] \in Seq(Message) /\ Len(messages[r]) \in Int /\ 1 \in Int
      BY <2>1, RunTypes
    <3>2. IsFiniteSet(1..Len(messages[r]))
      BY <3>1, FS_Interval
    <3>3. Answers(r) \subseteq 1..Len(messages[r])
      BY <2>1 DEF Answers
    <3> QED
      BY <3>2, <3>3, FS_Subset, FS_CardinalityType
  <2>3. ModelCalls(r) = Cardinality(Answers(r)) + (IF pc[r] = "thinking" /\ ~InSubAgent(r) THEN 1 ELSE 0)
    BY DEF ModelCalls, Answers
  <2>4. CASE pc[r] = "thinking" /\ ~InSubAgent(r)
    <3>1. Thinking(r) /\ loops[r][1] \in Loop
      BY <2>4, OwnLoop DEF RunOk
    <3>2. Cardinality(Answers(r)) \in 0..MaxSteps - 1
      BY <3>1 DEF Thinking, Loop
    <3> QED
      BY <2>1, <2>3, <2>4, <3>2, LimitsAssumption DEF IInv, TurnsWhole, Turnwise
  <2>5. CASE ~(pc[r] = "thinking" /\ ~InSubAgent(r))
    BY <2>1, <2>2, <2>3, <2>5, LimitsAssumption DEF IInv, TurnsWhole, Turnwise
  <2> QED
    BY <2>4, <2>5
<1> QED
  BY <1>1, Invariance, PTL DEF Spec

\* agent.run (agent.ts) stores nothing until its loop has ended, and then everything: what
\* memory.append has put in the store is made of whole turns of runs that are done, one
\* after the other, whatever runs overlapped and wherever one failed.
THEOREM WholeTurnsStored == Spec => []StoresWholeTurns
<1>1. IInv => StoresWholeTurns
  <2> SUFFICES ASSUME IInv, NEW s \in Sessions, NEW i \in DOMAIN store[s]
               PROVE  LET t == store[s] IN
                      /\ pc[t[i].run] = "done" /\ session[t[i].run] = s
                      /\ \A j \in i..Len(t) : t[j].run = t[i].run => \A k \in i..j : t[k].run = t[i].run
                      /\ (i = Len(t) \/ t[i + 1].run # t[i].run) => t[i].role = "assistant"
                      /\ (i = 1 \/ t[i - 1].run # t[i].run) => t[i].role \in {"system", "user"}
                      /\ \A u \in Unanswered(t) : RepeatedRounds(t, u, MAX_REPEAT)
    BY DEF StoresWholeTurns
  <2> DEFINE t == store[s]
  <2>1. t \in Seq(Message)
    BY DEF IInv, TypeOK
  <2>2. Len(t) \in Nat /\ DOMAIN t = 1..Len(t) /\ t # <<>> /\ i \in 1..Len(t) /\ Len(t) >= 1
    BY <2>1
  <2>3. Turnwise(t) /\ Ended(t) /\ pc[t[i].run] = "done" /\ session[t[i].run] = s
    BY <2>2 DEF IInv, TurnsWhole
  <2> HIDE DEF t
  <2>4. ASSUME NEW j \in i..Len(t), t[j].run = t[i].run, NEW k \in i..j PROVE t[k].run = t[i].run
    <3>1. j \in 1..Len(t) /\ i <= j
      BY <2>2
    <3> QED
      BY <2>2, <2>3, <2>4, <3>1 DEF Turnwise
  <2>5. ASSUME i = Len(t) \/ t[i + 1].run # t[i].run PROVE t[i].role = "assistant"
    <3>1. CASE i = Len(t)
      BY <2>2, <2>3, <3>1 DEF Ended
    <3>2. CASE i # Len(t)
      <4>1. i + 1 <= Len(t)
        BY <2>2, <3>2
      <4>2. Begins(t[i], t[i + 1])
        BY <2>2, <2>3, <2>5, <3>2, <4>1 DEF Turnwise
      <4> QED
        BY <4>2 DEF Begins
    <3> QED
      BY <3>1, <3>2
  <2>6. ASSUME i = 1 \/ t[i - 1].run # t[i].run PROVE t[i].role \in {"system", "user"}
    <3>1. CASE i = 1
      BY <2>2, <2>3, <3>1 DEF Turnwise
    <3>2. CASE i # 1
      <4>1. i - 1 \in 1..Len(t) /\ (i - 1) + 1 = i /\ (i - 1) + 1 <= Len(t)
        BY <2>2, <3>2
      <4>2. Begins(t[i - 1], t[i])
        BY <2>3, <2>6, <3>2, <4>1 DEF Turnwise
      <4> QED
        BY <4>2 DEF Begins
    <3> QED
      BY <3>1, <3>2
  <2>7. ASSUME NEW u \in Unanswered(t) PROVE RepeatedRounds(t, u, MAX_REPEAT)
    <3>1. u \in 1..Len(t) /\ AsksForTools(t[u]) /\ ~AnsweredAt(t, u)
      BY <2>2 DEF Unanswered
    <3>2. CASE u = Len(t)
      BY <2>2, <2>3, <3>1, <3>2 DEF Ended, CutByGuard
    <3>3. CASE u # Len(t)
      <4>1. u + 1 <= Len(t) /\ u + 1 \in 1..Len(t)
        <5>1. \A n \in Nat : \A v \in 1..n : v # n => v + 1 <= n /\ v + 1 \in 1..n
          OBVIOUS
        <5> QED
          BY <2>2, <3>1, <3>3, <5>1, Zenon
      <4>2. CASE t[u].run = t[u + 1].run
        <5>1. Follows(t[u], t[u + 1])
          BY <2>3, <3>1, <4>1, <4>2 DEF Turnwise
        <5>2. t[u + 1].role = "tool" /\ t[u + 1].calls = t[u].calls
          BY <3>1, <5>1 DEF Follows, AsksForTools
        <5> QED
          BY <2>2, <3>1, <4>1, <5>2 DEF AnsweredAt
      <4>3. CASE t[u].run # t[u + 1].run
        <5>1. CutByGuard(t, u)
          BY <2>3, <3>1, <4>1, <4>3 DEF Turnwise
        <5> QED
          BY <3>1, <5>1 DEF CutByGuard
      <4> QED
        BY <4>2, <4>3
    <3> QED
      BY <3>2, <3>3
  <2> QED
    BY <2>3, <2>4, <2>5, <2>6, <2>7 DEF t
<1> QED
  BY <1>1, Invariance, PTL DEF Spec

LEMMA OneSystemPrompt ==
  ASSUME NEW t \in Seq(Message), Turnwise(t), NEW i \in DOMAIN t, t[i].role = "system"
  PROVE  SystemPrompt /\ i = 1
<1>1. Len(t) \in Nat /\ DOMAIN t = 1..Len(t) /\ i \in 1..Len(t) /\ t # <<>>
  OBVIOUS
<1>2. CASE i = 1
  BY <1>1, <1>2 DEF Turnwise
<1>3. CASE i # 1
  <2>1. i - 1 \in 1..Len(t) /\ (i - 1) + 1 = i /\ (i - 1) + 1 <= Len(t)
    BY <1>1, <1>3
  <2>2. Follows(t[i - 1], t[i]) \/ Begins(t[i - 1], t[i])
    BY <2>1 DEF Turnwise
  <2> QED
    BY <2>2 DEF Follows, Begins
<1> QED
  BY <1>2, <1>3

\* With one active run per session a run's transcript extends what the session has stored,
\* so that memory.append (agent.ts), which replaces it, only adds a turn at its end.
THEOREM ConversationsGrow == Spec => ConversationOnlyGrows
<1> DEFINE Grows(s) ==
             /\ Len(store[s]) <= Len(store'[s])
             /\ \A i \in DOMAIN store'[s] :
                  IF i \in DOMAIN store[s] THEN store'[s][i] = store[s][i]
                  ELSE store'[s][i].role = "system" => SystemPrompt /\ i = 1
<1>1. ASSUME IInv, [Next]_vars, ~overlap, NEW s \in Sessions PROVE Grows(s)
  <2>1. store[s] \in Seq(Message) /\ Len(store[s]) \in Nat /\ DOMAIN store[s] = 1..Len(store[s])
    BY <1>1 DEF IInv, TypeOK
  <2>2. CASE store'[s] = store[s]
    BY <2>1, <2>2
  <2>3. ASSUME NEW r \in Runs, Save(r), session[r] = s PROVE Grows(s)
    <3>1. /\ store'[s] = messages[r] /\ messages[r] \in Seq(Message) /\ Turnwise(messages[r]) /\ pc[r] = "saving"
      BY <1>1, <2>3 DEF IInv, TypeOK, TurnsWhole, Save
    <3>2. Len(store[s]) <= Len(messages[r]) /\ \A i \in 1..Len(store[s]) : messages[r][i] = store[s][i]
      BY <1>1, <2>3, <3>1 DEF IInv, OnStored
    <3> QED
      BY <2>1, <3>1, <3>2, OneSystemPrompt
  <2>4. ASSUME NEW r \in Runs, Save(r), session[r] # s PROVE store'[s] = store[s]
    BY <1>1, <2>4 DEF IInv, TypeOK, Save
  <2>5. ASSUME NEW r \in Runs, Run(r), ~Save(r) PROVE store' = store
    BY <2>5 DEF Run, Start, Load, Answer, Ask, Delegate, Observe, Fail
  <2> HIDE DEF Grows
  <2> QED
    BY <1>1, <2>2, <2>3, <2>4, <2>5 DEF Next, Quiet, vars
<1>2. IInv /\ [Next]_vars => (~overlap => \A s \in Sessions : Grows(s))
  <2> HIDE DEF Grows
  <2> QED
    BY <1>1
<1> QED
  BY <1>2, Invariance, PTL DEF Spec, Safe, ConversationOnlyGrows

-----------------------------------------------------------------------------
(* Induction and recursion on the natural numbers.  No prover can instantiate a theorem about  *)
(* a predicate P(_); in these a set stands for the predicate.                                  *)

LEMMA LeastNatural ==
  ASSUME NEW T, T \subseteq Nat, T # {}
  PROVE  \E x \in T : \A y \in T : x <= y
<1> DEFINE less == OpToRel(<, Nat)
<1>1. IsWellFoundedOn(less, Nat)
  BY NatLessThanWellFounded
<1>2. \A x, y \in Nat : y < x => <<y, x>> \in less
  BY DEF OpToRel
<1> HIDE DEF less
<1>3. PICK x \in T : \A y \in T : ~(<<y, x>> \in less)
  BY <1>1, WFMin
<1>4. \A y \in T : x \in Nat /\ y \in Nat /\ ~(y < x)
  BY <1>2, <1>3
<1> QED
  BY <1>3, <1>4

\* What holds of 0 and is passed on holds of every number.
LEMMA SetInduction ==
  ASSUME NEW S, 0 \in S, \A n \in Nat : n \in S => n + 1 \in S
  PROVE  Nat \subseteq S
<1> SUFFICES ASSUME ~(Nat \subseteq S) PROVE FALSE
  OBVIOUS
<1> DEFINE T == {n \in Nat : n \notin S}
<1>1. T \subseteq Nat /\ T # {}
  OBVIOUS
<1> HIDE DEF T
<1>2. PICK x \in T : \A y \in T : x <= y
  BY <1>1, LeastNatural
<1>3. x \in Nat /\ x # 0 /\ x - 1 \in Nat /\ x = (x - 1) + 1
  BY <1>1, <1>2 DEF T
<1>4. x - 1 \in T
  BY <1>2, <1>3 DEF T
<1> QED
  BY <1>2, <1>3, <1>4

\* What the values of a function lie in, step after step.
Closed(step, N, V) == \A n \in 1..N : \A v \in V[n - 1] : step[n][v] \in V[n]
Iterates(f, step, N, V, first) ==
  /\ f = [n \in 0..N |-> f[n]] /\ \A n \in 0..N : f[n] \in V[n]
  /\ f[0] = first /\ \A n \in 1..N : f[n] = step[n][f[n - 1]]

\* A function can be defined from its first value on, one step after the other.
LEMMA StepByStep ==
  ASSUME NEW N \in Nat, NEW V, NEW first \in V[0], NEW step, Closed(step, N, V)
  PROVE  \E f : Iterates(f, step, N, V, first)
<1> USE DEF Closed, Iterates
<1> DEFINE Good == {k \in Nat : k <= N => \E f : Iterates(f, step, k, V, first)}
<1>1. 0 \in Good
  <2>1. Iterates([n \in 0..0 |-> first], step, 0, V, first)
    OBVIOUS
  <2> QED
    BY <2>1
<1>2. ASSUME NEW k \in Nat, k \in Good
      PROVE  k + 1 \in Good
  <2> SUFFICES ASSUME k + 1 <= N
               PROVE  \E f : Iterates(f, step, k + 1, V, first)
    OBVIOUS
  <2>1. PICK f : Iterates(f, step, k, V, first)
    BY <1>2
  <2> DEFINE g == [n \in 0..(k + 1) |-> IF n = k + 1 THEN step[k + 1][f[k]] ELSE f[n]]
  <2>2. k + 1 \in 1..N /\ (k + 1) - 1 = k /\ k \in 0..k /\ k # k + 1
    OBVIOUS
  <2>3. f[k] \in V[k] /\ step[k + 1][f[k]] \in V[k + 1]
    BY <2>1, <2>2
  <2>4. g[k + 1] = step[k + 1][f[k]] /\ g[k] = f[k] /\ g[0] = first
    BY <2>1, <2>2
  <2>5. \A n \in 0..k : g[n] = f[n]
    BY <2>2
  <2>6. ASSUME NEW n \in 0..(k + 1)
        PROVE  g[n] \in V[n]
    BY <2>1, <2>3, <2>4, <2>5
  <2>7. ASSUME NEW n \in 1..(k + 1)
        PROVE  g[n] = step[n][g[n - 1]]
    <3>1. CASE n = k + 1
      BY <2>2, <2>4, <3>1
    <3>2. CASE n # k + 1
      <4>1. n \in 1..k /\ n \in 0..k /\ n - 1 \in 0..k
        BY <3>2
      <4> QED
        BY <2>1, <2>5, <4>1
    <3> QED
      BY <3>1, <3>2
  <2>8. g = [n \in 0..(k + 1) |-> g[n]]
    OBVIOUS
  <2> HIDE DEF g
  <2> QED
    BY <2>4, <2>6, <2>7, <2>8
<1> HIDE DEF Good
<1>3. N \in Good
  BY <1>1, <1>2, SetInduction
<1> QED
  BY <1>3 DEF Good

\* The largest of a bounded set of numbers.
LEMMA LargestNatural ==
  ASSUME NEW T, NEW b \in Nat, T \subseteq 0..b, T # {}
  PROVE  Max(T) \in T /\ \A y \in T : y <= Max(T)
<1> DEFINE gaps == {b - y : y \in T}
<1>1. gaps \subseteq Nat /\ gaps # {}
  <2>1. \A y \in T : b - y \in Nat
    OBVIOUS
  <2>2. PICK y \in T : TRUE
    OBVIOUS
  <2> QED
    BY <2>1, <2>2
<1>2. PICK g \in gaps : \A y \in gaps : g <= y
  <2> HIDE DEF gaps
  <2> QED BY <1>1, LeastNatural
<1>3. PICK x \in T : g = b - x
  OBVIOUS
<1>4. \A y \in T : x >= y
  <2> TAKE y \in T
  <2>1. b - y \in gaps /\ x \in 0..b /\ y \in 0..b
    OBVIOUS
  <2> HIDE DEF gaps
  <2> QED
    BY <1>2, <1>3, <2>1
<1>5. Max(T) \in T /\ \A y \in T : Max(T) >= y
  BY <1>4 DEF Max
<1> QED
  BY <1>5

-----------------------------------------------------------------------------
(* Array.filter. *)

\* Of the places 1..N, these are the ones from a + 1 on up to b.
Interval(places, N, a, b) == \A n \in 1..N : n \in places <=> n \in (a + 1)..b

\* What is selected from an interval is that interval.
LEMMA SelectedInterval ==
  ASSUME NEW S, NEW s \in Seq(S), NEW a \in 0..Len(s), NEW b \in a..Len(s), NEW places,
         Interval(places, Len(s), a, b)
  PROVE  Selected(s, places) = SubSeq(s, a + 1, b)
<1> DEFINE upto(n) == SubSeq(s, a + 1, IF n <= b THEN n ELSE b)
           V == [n \in 0..Len(s) |-> {upto(n)}]
           step == [n \in 1..Len(s) |-> [v \in {upto(n - 1)} |->
                                           IF n \in places THEN Append(v, s[n]) ELSE v]]
           Def(g) == [n \in 0..Len(s) |->
                        IF n = 0 THEN <<>>
                        ELSE IF n \in places THEN Append(g[n - 1], s[n]) ELSE g[n - 1]]
<1>1. Len(s) \in Nat /\ a \in Nat /\ b \in Nat /\ a <= b /\ b <= Len(s) /\ \A n \in 1..Len(s) : s[n] \in S
  OBVIOUS
<1>2. <<>> = upto(0)
  BY <1>1
<1>3. ASSUME NEW n \in 1..Len(s)
      PROVE  upto(n) = IF n \in places THEN Append(upto(n - 1), s[n]) ELSE upto(n - 1)
  <2>1. CASE n \in places
    <3>1. n \in Nat /\ a + 1 <= n /\ n <= b /\ n - 1 <= b /\ n - 1 \in Nat
      BY <1>1, <2>1 DEF Interval
    <3>2. SubSeq(s, a + 1, n) = Append(SubSeq(s, a + 1, n - 1), s[n])
      BY <1>1, <3>1
    <3> QED
      BY <2>1, <3>1, <3>2
  <2>2. CASE n \notin places
    <3>1. n <= a \/ b < n
      BY <1>1, <2>2 DEF Interval
    <3>2. CASE n <= a
      <4>1. SubSeq(s, a + 1, n) = <<>> /\ SubSeq(s, a + 1, n - 1) = <<>>
        BY <1>1, <3>2
      <4> QED
        BY <1>1, <2>2, <3>2, <4>1
    <3>3. CASE b < n
      BY <1>1, <2>2, <3>3
    <3> QED
      BY <3>1, <3>2, <3>3
  <2> QED
    BY <2>1, <2>2
<1> HIDE DEF upto
<1>4. Closed(step, Len(s), V)
  <2> SUFFICES ASSUME NEW n \in 1..Len(s), NEW v \in V[n - 1]
               PROVE  step[n][v] \in V[n]
    BY DEF Closed
  <2>1. n - 1 \in 0..Len(s) /\ n \in 0..Len(s)
    BY <1>1
  <2>2. v = upto(n - 1)
    BY <2>1
  <2> QED
    BY <1>3, <2>1, <2>2
<1>5. PICK f : Iterates(f, step, Len(s), V, <<>>)
  <2>1. <<>> \in V[0]
    BY <1>1, <1>2
  <2> HIDE DEF step, V
  <2> QED BY <1>1, <1>4, <2>1, StepByStep
<1>6. \A n \in 0..Len(s) : f[n] = upto(n)
  BY <1>5 DEF Iterates
<1>7. f = Def(f)
  <2>1. \A n \in 0..Len(s) : f[n] = Def(f)[n]
    <3> TAKE n \in 0..Len(s)
    <3>1. n = 0 \/ (n # 0 /\ n \in 1..Len(s) /\ n - 1 \in 0..Len(s))
      BY <1>1
    <3> QED
      BY <1>2, <1>3, <1>6, <3>1
  <2>2. f = [n \in 0..Len(s) |-> f[n]]
    BY <1>5 DEF Iterates
  <2> QED
    BY <2>1, <2>2
<1> DEFINE c == CHOOSE g : g = Def(g)
<1>8. c = Def(c)
  <2> HIDE DEF Def
  <2> QED BY <1>7
<1>9. Selected(s, places) = c[Len(s)]
  BY DEF Selected
<1> DEFINE Same == {n \in Nat : n <= Len(s) => c[n] = upto(n)}
<1>10. \A n \in 0..Len(s) : c[n] = Def(c)[n]
  <2> HIDE DEF Def, c
  <2> QED BY <1>8
<1> HIDE DEF c
<1>11. 0 \in Same
  BY <1>1, <1>2, <1>10
<1>12. ASSUME NEW n \in Nat, n \in Same PROVE n + 1 \in Same
  <2> SUFFICES ASSUME n + 1 <= Len(s) PROVE c[n + 1] = upto(n + 1)
    OBVIOUS
  <2>1. n + 1 \in 1..Len(s) /\ n + 1 \in 0..Len(s) /\ (n + 1) - 1 = n /\ n + 1 # 0 /\ c[n] = upto(n)
    BY <1>1, <1>12
  <2>2. c[n + 1] = IF n + 1 \in places THEN Append(c[n], s[n + 1]) ELSE c[n]
    BY <1>10, <2>1
  <2> QED
    BY <1>3, <2>1, <2>2
<1>13. Len(s) \in Same
  <2> HIDE DEF Same
  <2> QED BY <1>1, <1>11, <1>12, SetInduction
<1>14. upto(Len(s)) = SubSeq(s, a + 1, b)
  BY <1>1 DEF upto
<1> QED
  BY <1>1, <1>9, <1>13, <1>14
-----------------------------------------------------------------------------
(* What a request is made of (compose.ts, identity.ts, compaction.ts). *)

Prompts == {m \in Message : IsSystem(m)} \cup {Context(name) : name \in Writers}
Turns == {m \in Message : IsTurn(m)}

\* The part of a conversation that is there from its message d + 1 on.
Rest(all, d) == SubSeq(all, d + 1, Len(all))

\* The identity is the first system message, and there once.
Leads(sys) == sys # <<>> /\ sys[1] = Identity /\ \A i \in 2..Len(sys) : sys[i] # Identity

\* The request after n middleware: these system messages, and the conversation without its
\* first d messages.
Fits(agent, all, n, sys, d) ==
  /\ n = 0 => \A i \in 1..Len(sys) : sys[i] \in Message
  /\ agent.persona /\ n >= 1 => Leads(sys)
  /\ \/ d = 0 /\ \A i \in 1..Len(sys) : sys[i] # Summary
     \/ /\ \E j \in 1..n : loadPlugins(agent)[j] = "compaction"
        /\ \E i \in 1..Len(sys) : \A l \in 1..Len(sys) : sys[l] = Summary <=> l = i
        /\ Len(all) - d >= agent.compaction.keepRecent
        /\ d > 0 \/ agent.compaction.keepRecent = 0

Assembled(agent, all, n, req) ==
  \E sys \in Seq(Prompts), d \in 0..Len(all) : req = sys \o Rest(all, d) /\ Fits(agent, all, n, sys, d)

LEMMA PromptsAndTurns ==
  /\ \A m \in Prompts : IsSystem(m) /\ ~IsTurn(m)
  /\ \A m \in Turns : IsTurn(m) /\ ~IsSystem(m) /\ m \in Message /\ m \notin Prompts
  /\ \A name \in Writers : Context(name) \in Prompts /\ Context(name) \notin Message
  /\ Identity \in Prompts /\ Summary \in Prompts /\ Identity # Summary
  /\ Identity \notin Message /\ Summary \notin Message
  /\ \A name \in {"skills", "user memory", "memories", "knowledge"} :
       Context(name) \in Prompts /\ Context(name) # Identity /\ Context(name) # Summary
<1>1. \A name \in Writers : IsSystem(Context(name)) /\ Context(name).run = name
  BY DEF IsSystem, Context, Msg
<1>2. \A m \in Message : m.run \in Runs
  BY DEF Message
<1>3. \A name \in Writers : Context(name) \in Prompts /\ Context(name) \notin Message
  BY <1>1, <1>2, WritersAssumption DEF Prompts
<1>4. \A m \in Prompts : IsSystem(m)
  BY <1>1 DEF Prompts
<1> QED
  BY <1>1, <1>3, <1>4 DEF IsSystem, IsTurn, Turns, Writers, Identity, Summary

LEMMA RestIs ==
  ASSUME NEW all \in Seq(Turns), NEW d \in 0..Len(all)
  PROVE  /\ Rest(all, d) \in Seq(Turns) /\ Len(Rest(all, d)) = Len(all) - d
         /\ Len(all) \in Nat /\ d \in Nat /\ Len(all) - d \in Nat
         /\ \A i \in 1..Len(all) - d : Rest(all, d)[i] = all[d + i] /\ Rest(all, d)[i] \in Turns
<1>1. Len(all) \in Nat /\ d \in Nat /\ Len(all) - d \in Nat /\ d + 1 \in Int /\ Len(all) \in Int
  OBVIOUS
<1>2. \A i \in d + 1 .. Len(all) : all[i] \in Turns
  BY <1>1
<1>3. /\ SubSeq(all, d + 1, Len(all)) \in Seq(Turns)
      /\ Len(SubSeq(all, d + 1, Len(all))) = IF d + 1 <= Len(all) THEN Len(all) - (d + 1) + 1 ELSE 0
      /\ \A i \in 1..Len(all) - (d + 1) + 1 : SubSeq(all, d + 1, Len(all))[i] = all[(d + 1) + i - 1]
  BY <1>1, <1>2, SubSeqProperties
<1>4. \A i \in 1..Len(all) - d : (d + 1) + i - 1 = d + i /\ d + i \in d + 1..Len(all)
  BY <1>1
<1> QED
  BY <1>1, <1>2, <1>3, <1>4 DEF Rest

\* System messages before a conversation, one by one.
LEMMA JoinedIs ==
  ASSUME NEW sys \in Seq(Prompts), NEW body \in Seq(Turns)
  PROVE  LET req == sys \o body IN
         /\ sys \in Seq(Prompts \cup Turns) /\ body \in Seq(Prompts \cup Turns)
         /\ req \in Seq(Prompts \cup Turns) /\ Len(req) = Len(sys) + Len(body)
         /\ DOMAIN req = 1..Len(req) /\ Len(sys) \in Nat /\ Len(body) \in Nat
         /\ \A i \in 1..Len(sys) : req[i] = sys[i] /\ req[i] \in Prompts /\ IsSystem(req[i]) /\ ~IsTurn(req[i])
         /\ \A i \in Len(sys) + 1..Len(req) :
              req[i] = body[i - Len(sys)] /\ req[i] \in Turns /\ IsTurn(req[i]) /\ ~IsSystem(req[i])
<1> DEFINE req == sys \o body
<1>1. sys \in Seq(Prompts \cup Turns) /\ body \in Seq(Prompts \cup Turns)
  BY SeqMonotonic
<1>2. /\ req \in Seq(Prompts \cup Turns) /\ Len(req) = Len(sys) + Len(body)
      /\ \A i \in 1..Len(sys) + Len(body) : req[i] = IF i <= Len(sys) THEN sys[i] ELSE body[i - Len(sys)]
  BY <1>1, ConcatProperties
<1>3. Len(sys) \in Nat /\ Len(body) \in Nat /\ DOMAIN req = 1..Len(req)
  BY <1>2
<1>4. \A i \in 1..Len(sys) : sys[i] \in Prompts /\ i <= Len(sys) /\ i \in 1..Len(sys) + Len(body)
  BY <1>3
<1>5. \A i \in Len(sys) + 1..Len(sys) + Len(body) :
        ~(i <= Len(sys)) /\ i \in 1..Len(sys) + Len(body) /\ i - Len(sys) \in 1..Len(body) /\ body[i - Len(sys)] \in Turns
  BY <1>3
<1> HIDE DEF req
<1>6. \A i \in 1..Len(sys) : req[i] = sys[i] /\ req[i] \in Prompts
  BY <1>2, <1>4
<1>7. \A i \in Len(sys) + 1..Len(req) : req[i] = body[i - Len(sys)] /\ req[i] \in Turns
  BY <1>2, <1>5
<1>8. /\ \A i \in 1..Len(sys) : IsSystem(req[i]) /\ ~IsTurn(req[i])
      /\ \A i \in Len(sys) + 1..Len(req) : IsTurn(req[i]) /\ ~IsSystem(req[i])
  BY <1>6, <1>7, PromptsAndTurns
<1> QED
  BY <1>1, <1>2, <1>3, <1>6, <1>7, <1>8 DEF req

\* They are told apart again.
LEMMA PartsAre ==
  ASSUME NEW sys \in Seq(Prompts), NEW body \in Seq(Turns)
  PROVE  SystemMessages(sys \o body) = sys /\ Conversation(sys \o body) = body
<1> DEFINE req == sys \o body
           n == Len(sys)
           N == Len(req)
<1>1. /\ req \in Seq(Prompts \cup Turns) /\ DOMAIN req = 1..N /\ N = n + Len(body) /\ n \in Nat /\ N \in Nat /\ Len(body) \in Nat
      /\ \A i \in 1..n : IsSystem(req[i]) /\ ~IsTurn(req[i]) /\ req[i] = sys[i]
      /\ \A i \in n + 1..N : IsTurn(req[i]) /\ ~IsSystem(req[i]) /\ req[i] = body[i - n]
      /\ sys \in Seq(Prompts \cup Turns) /\ body \in Seq(Prompts \cup Turns)
  BY JoinedIs
<1> HIDE DEF req
<1>2. SystemMessages(req) = SubSeq(req, 1, n)
  <2> DEFINE places == {i \in DOMAIN req : IsSystem(req[i])}
  <2>1. Interval(places, N, 0, n)
    BY <1>1 DEF Interval
  <2>2. 0 \in 0..N /\ n \in 0..N
    BY <1>1
  <2> HIDE DEF places
  <2>3. Selected(req, places) = SubSeq(req, 0 + 1, n)
    BY <1>1, <2>1, <2>2, SelectedInterval
  <2> QED
    BY <2>3 DEF SystemMessages, places
<1>3. Conversation(req) = SubSeq(req, n + 1, N)
  <2> DEFINE places == {i \in DOMAIN req : IsTurn(req[i])}
  <2>1. Interval(places, N, n, N)
    BY <1>1 DEF Interval
  <2>2. n \in 0..N /\ N \in n..N
    BY <1>1
  <2> HIDE DEF places
  <2>3. Selected(req, places) = SubSeq(req, n + 1, N)
    BY <1>1, <2>1, <2>2, SelectedInterval
  <2> QED
    BY <2>3 DEF Conversation, places
<1>4. SubSeq(req, 1, n) = sys
  <2>1. /\ SubSeq(req, 1, n) \in Seq(Prompts \cup Turns) /\ Len(SubSeq(req, 1, n)) = n
        /\ \A i \in 1..n : SubSeq(req, 1, n)[i] = req[i]
    <3>1. \A i \in 1..n : req[i] \in Prompts \cup Turns
      BY <1>1
    <3> QED
      BY <1>1, <3>1, SubSeqProperties
  <2> QED
    BY <1>1, <2>1, SeqEqual
<1>5. SubSeq(req, n + 1, N) = body
  <2>1. /\ SubSeq(req, n + 1, N) \in Seq(Prompts \cup Turns) /\ Len(SubSeq(req, n + 1, N)) = N - n
        /\ \A i \in 1..N - n : SubSeq(req, n + 1, N)[i] = req[n + i]
    <3>1. \A i \in n + 1..N : req[i] \in Prompts \cup Turns
      BY <1>1
    <3>2. /\ SubSeq(req, n + 1, N) \in Seq(Prompts \cup Turns)
          /\ Len(SubSeq(req, n + 1, N)) = IF n + 1 <= N THEN N - (n + 1) + 1 ELSE 0
          /\ \A i \in 1..N - (n + 1) + 1 : SubSeq(req, n + 1, N)[i] = req[(n + 1) + i - 1]
      BY <1>1, <3>1, SubSeqProperties
    <3> QED
      BY <1>1, <3>2
  <2>2. \A i \in 1..Len(body) : i \in 1..N - n /\ n + i \in n + 1..N /\ (n + i) - n = i
    BY <1>1
  <2>3. Len(SubSeq(req, n + 1, N)) = Len(body)
    BY <1>1, <2>1
  <2>4. \A i \in 1..Len(body) : SubSeq(req, n + 1, N)[i] = body[i]
    BY <1>1, <2>1, <2>2
  <2> QED
    BY <1>1, <2>1, <2>3, <2>4, SeqEqual
<1> QED
  BY <1>2, <1>3, <1>4, <1>5 DEF req
-----------------------------------------------------------------------------
(* What each middleware makes of it. *)

\* One message more, at place p of the system messages.
Inserted(sys, more, p, c) ==
  /\ more \in Seq(Prompts) /\ Len(more) = Len(sys) + 1 /\ p \in 1..Len(sys) + 1 /\ more[p] = c
  /\ \A i \in 1..Len(sys) : IF i < p THEN more[i] = sys[i] ELSE more[i + 1] = sys[i]

LEMMA InFrontIs ==
  ASSUME NEW sys \in Seq(Prompts), NEW body \in Seq(Turns), NEW c \in Prompts
  PROVE  /\ Inserted(sys, <<c>> \o sys, 1, c)
         /\ <<c>> \o (sys \o body) = (<<c>> \o sys) \o body
<1>1. <<c>> \in Seq(Prompts) /\ Len(<<c>>) = 1 /\ <<c>>[1] = c /\ Len(sys) \in Nat
  OBVIOUS
<1>2. /\ <<c>> \o sys \in Seq(Prompts) /\ Len(<<c>> \o sys) = 1 + Len(sys)
      /\ \A i \in 1..1 + Len(sys) : (<<c>> \o sys)[i] = IF i <= 1 THEN <<c>>[i] ELSE sys[i - 1]
  BY <1>1, ConcatProperties
<1>3. \A i \in 1..Len(sys) : i + 1 \in 1..1 + Len(sys) /\ ~(i + 1 <= 1) /\ (i + 1) - 1 = i /\ ~(i < 1)
  BY <1>1
<1>4. Inserted(sys, <<c>> \o sys, 1, c)
  BY <1>1, <1>2, <1>3 DEF Inserted
<1>5. <<c>> \in Seq(Prompts \cup Turns) /\ sys \in Seq(Prompts \cup Turns) /\ body \in Seq(Prompts \cup Turns)
  BY <1>1, SeqMonotonic
<1>6. <<c>> \o (sys \o body) = (<<c>> \o sys) \o body
  BY <1>5, ConcatAssociative
<1> QED
  BY <1>4, <1>6

LEMMA IdentityComesFirst ==
  ASSUME NEW sys \in Seq(Prompts), NEW body \in Seq(Turns), \A i \in 1..Len(sys) : sys[i] # Identity
  PROVE  identityMiddleware(sys \o body) = (<<Identity>> \o sys) \o body
<1> DEFINE req == sys \o body
           places == {i \in DOMAIN req : req[i] # Identity}
<1>1. /\ req \in Seq(Prompts \cup Turns) /\ DOMAIN req = 1..Len(req) /\ Len(req) \in Nat
      /\ \A i \in 1..Len(req) : req[i] # Identity
  <2>1. /\ req \in Seq(Prompts \cup Turns) /\ DOMAIN req = 1..Len(req) /\ Len(req) = Len(sys) + Len(body)
        /\ Len(sys) \in Nat /\ Len(body) \in Nat
        /\ \A i \in 1..Len(sys) : req[i] = sys[i]
        /\ \A i \in Len(sys) + 1..Len(req) : req[i] \in Turns
    BY JoinedIs
  <2> HIDE DEF req
  <2>2. \A i \in 1..Len(req) : i \in 1..Len(sys) \/ i \in Len(sys) + 1..Len(req)
    BY <2>1
  <2>3. \A i \in 1..Len(sys) : req[i] # Identity
    BY <2>1
  <2>4. \A i \in Len(sys) + 1..Len(req) : req[i] # Identity
    BY <2>1, PromptsAndTurns
  <2>5. Len(req) \in Nat
    BY <2>1
  <2> QED
    BY <2>1, <2>2, <2>3, <2>4, <2>5
<1>2. Selected(req, places) = SubSeq(req, 1, Len(req))
  <2> HIDE DEF req
  <2>1. Interval(places, Len(req), 0, Len(req))
    BY <1>1 DEF Interval
  <2>2. 0 \in 0..Len(req) /\ Len(req) \in 0..Len(req) /\ 0 + 1 = 1
    BY <1>1
  <2> HIDE DEF places
  <2>3. Selected(req, places) = SubSeq(req, 0 + 1, Len(req))
    BY <1>1, <2>1, <2>2, SelectedInterval
  <2> QED
    BY <2>2, <2>3
<1>3. SubSeq(req, 1, Len(req)) = req
  <2> HIDE DEF req
  <2> QED BY <1>1, SubSeqFull
<1>4. identityMiddleware(req) = <<Identity>> \o req
  <2> HIDE DEF req
  <2> QED BY <1>2, <1>3 DEF identityMiddleware
<1>5. Identity \in Prompts
  BY PromptsAndTurns
<1> QED
  BY <1>4, <1>5, InFrontIs

\* A context is put before or behind the first system message.
LEMMA InjectIs ==
  ASSUME NEW sys \in Seq(Prompts), NEW body \in Seq(Turns), NEW c \in Prompts
  PROVE  \E more \in Seq(Prompts), p \in {1, 2} :
           /\ Inject(c, sys \o body) = more \o body
           /\ Inserted(sys, more, p, c) /\ (Leads(sys) => p = 2)
<1> DEFINE req == sys \o body
<1>1. /\ req \in Seq(Prompts \cup Turns) /\ Len(req) = Len(sys) + Len(body) /\ Len(sys) \in Nat /\ Len(body) \in Nat
      /\ sys \in Seq(Prompts \cup Turns) /\ body \in Seq(Prompts \cup Turns)
      /\ \A i \in 1..Len(sys) : req[i] = sys[i] /\ req[i] \in Prompts
      /\ \A i \in Len(sys) + 1..Len(req) : req[i] = body[i - Len(sys)] /\ req[i] \in Turns
  BY JoinedIs
<1>2. ASSUME NEW s \in Seq(Prompts \cup Turns), s # <<>>
      PROVE  Head(s) = s[1] /\ Len(s) >= 1
  BY <1>2
<1>3. CASE req # <<>> /\ Head(req) = Identity
  <2> HIDE DEF req
  <2>1. 1 \in 1..Len(sys) /\ sys[1] = Identity
    <3>1. req[1] = Identity /\ 1 \in 1..Len(req)
      BY <1>1, <1>2, <1>3
    <3>2. 1 \in 1..Len(sys) \/ 1 \in Len(sys) + 1..Len(req)
      BY <1>1, <3>1
    <3>3. req[1] \notin Turns
      BY <3>1, PromptsAndTurns
    <3> QED
      BY <1>1, <3>1, <3>2, <3>3
  <2>2. sys # <<>> /\ Tail(sys) \in Seq(Prompts) /\ Len(Tail(sys)) = Len(sys) - 1
        /\ \A i \in 1..Len(sys) - 1 : Tail(sys)[i] = sys[i + 1]
    BY <1>1, <2>1
  <2> DEFINE more == <<Identity, c>> \o Tail(sys)
  <2>3. <<Identity, c>> \in Seq(Prompts) /\ Len(<<Identity, c>>) = 2 /\ <<Identity, c>>[1] = Identity /\ <<Identity, c>>[2] = c
    <3>1. Identity \in Prompts
      BY PromptsAndTurns
    <3> QED
      BY <3>1
  <2>4. /\ more \in Seq(Prompts) /\ Len(more) = 2 + (Len(sys) - 1)
        /\ \A i \in 1..2 + (Len(sys) - 1) : more[i] = IF i <= 2 THEN <<Identity, c>>[i] ELSE Tail(sys)[i - 2]
    BY <2>2, <2>3, ConcatProperties
  <2>5. Inserted(sys, more, 2, c)
    <3> HIDE DEF more
    <3>1. Len(more) = Len(sys) + 1 /\ 2 \in 1..Len(sys) + 1 /\ more[2] = c
      BY <1>1, <2>1, <2>3, <2>4
    <3>2. ASSUME NEW i \in 1..Len(sys)
          PROVE  IF i < 2 THEN more[i] = sys[i] ELSE more[i + 1] = sys[i]
      <4>1. CASE i = 1
        BY <1>1, <2>1, <2>3, <2>4, <4>1
      <4>2. CASE i # 1
        <5>1. /\ i + 1 \in 1..2 + (Len(sys) - 1) /\ ~(i + 1 <= 2) /\ (i + 1) - 2 = i - 1
              /\ i - 1 \in 1..Len(sys) - 1 /\ (i - 1) + 1 = i /\ ~(i < 2)
          BY <1>1, <4>2
        <5> QED
          BY <2>2, <2>4, <5>1
      <4> QED
        BY <4>1, <4>2
    <3> QED
      BY <2>4, <3>1, <3>2 DEF Inserted
  <2>6. Tail(req) = Tail(sys) \o body
    <3>1. Tail(sys) \o body \in Seq(Prompts \cup Turns) /\ Len(Tail(sys) \o body) = (Len(sys) - 1) + Len(body)
          /\ \A i \in 1..(Len(sys) - 1) + Len(body) :
               (Tail(sys) \o body)[i] = IF i <= Len(sys) - 1 THEN Tail(sys)[i] ELSE body[i - (Len(sys) - 1)]
      <4>1. Tail(sys) \in Seq(Prompts \cup Turns)
        BY <2>2, SeqMonotonic
      <4> QED
        BY <1>1, <2>2, <4>1, ConcatProperties
    <3>2. Tail(req) \in Seq(Prompts \cup Turns) /\ Len(Tail(req)) = Len(req) - 1
          /\ \A i \in 1..Len(req) - 1 : Tail(req)[i] = req[i + 1]
      BY <1>1, <1>3
    <3>3. ASSUME NEW i \in 1..Len(Tail(req))
          PROVE  Tail(req)[i] = (Tail(sys) \o body)[i]
      <4>1. i \in 1..Len(req) - 1 /\ i \in 1..(Len(sys) - 1) + Len(body)
        BY <1>1, <3>2
      <4>2. CASE i <= Len(sys) - 1
        <5>1. i \in 1..Len(sys) - 1 /\ i + 1 \in 1..Len(sys)
          BY <1>1, <4>1, <4>2
        <5> QED
          BY <1>1, <2>2, <3>1, <3>2, <4>1, <4>2, <5>1
      <4>3. CASE ~(i <= Len(sys) - 1)
        <5>1. i + 1 \in Len(sys) + 1..Len(req) /\ (i + 1) - Len(sys) = i - (Len(sys) - 1)
          BY <1>1, <4>1, <4>3
        <5> QED
          BY <1>1, <3>1, <3>2, <4>1, <4>3, <5>1
      <4> QED
        BY <4>2, <4>3
    <3>4. Len(Tail(req)) = Len(Tail(sys) \o body)
      BY <1>1, <3>1, <3>2
    <3> QED
      BY <3>1, <3>2, <3>3, <3>4, SeqEqual
  <2>7. <<Identity, c>> \o Tail(req) = more \o body
    <3>1. <<Identity, c>> \in Seq(Prompts \cup Turns) /\ Tail(sys) \in Seq(Prompts \cup Turns)
      BY <2>2, <2>3, SeqMonotonic
    <3>2. more \o body = <<Identity, c>> \o (Tail(sys) \o body)
      BY <1>1, <3>1, ConcatAssociative
    <3> QED
      BY <2>6, <3>2
  <2>8. Inject(c, req) = more \o body
    BY <1>3, <2>7 DEF Inject
  <2> QED
    BY <2>4, <2>5, <2>8 DEF req
<1>4. CASE ~(req # <<>> /\ Head(req) = Identity)
  <2>1. Inject(c, req) = <<c>> \o req
    BY <1>4 DEF Inject
  <2>2. ~Leads(sys)
    <3> SUFFICES ASSUME Leads(sys) PROVE FALSE
      OBVIOUS
    <3> HIDE DEF req
    <3>1. Len(sys) >= 1 /\ sys[1] = Identity
      BY <1>1, <1>2 DEF Leads
    <3>2. Len(req) >= 1 /\ req[1] = Identity
      BY <1>1, <3>1
    <3>3. req # <<>>
      BY <3>2
    <3> QED
      BY <1>1, <1>2, <1>4, <3>2, <3>3
  <2>3. Inserted(sys, <<c>> \o sys, 1, c) /\ <<c>> \o req = (<<c>> \o sys) \o body
    BY InFrontIs
  <2>4. <<c>> \o sys \in Seq(Prompts)
    BY <2>3 DEF Inserted
  <2> QED
    BY <2>1, <2>2, <2>3, <2>4
<1> QED
  BY <1>3, <1>4

\* A message that is neither the identity nor a summary changes nothing about those.
LEMMA InsertedFits ==
  ASSUME NEW agent, IsAgent(agent), NEW all \in Seq(Turns), NEW n \in Nat, n >= 1, NEW d \in 0..Len(all),
         NEW sys \in Seq(Prompts), Fits(agent, all, n - 1, sys, d),
         NEW more, NEW p \in {1, 2}, NEW c \in Prompts, Inserted(sys, more, p, c),
         Leads(sys) => p = 2, c # Identity, c # Summary, n = 1 => ~agent.persona
  PROVE  Fits(agent, all, n, more, d)
<1>1. /\ Len(sys) \in Nat /\ Len(more) = Len(sys) + 1 /\ Len(more) \in Nat /\ p \in 1..Len(sys) + 1 /\ more[p] = c
      /\ more \in Seq(Prompts)
      /\ \A i \in 1..Len(sys) : IF i < p THEN more[i] = sys[i] ELSE more[i + 1] = sys[i]
  BY DEF Inserted
<1> DEFINE at(i) == IF i < p THEN i ELSE i + 1
           from(l) == IF l < p THEN l ELSE l - 1
<1>2. \A i \in 1..Len(sys) : at(i) \in 1..Len(more) /\ at(i) # p /\ more[at(i)] = sys[i] /\ from(at(i)) = i
  BY <1>1
<1>3. \A l \in 1..Len(more) : l = p \/ (from(l) \in 1..Len(sys) /\ at(from(l)) = l /\ more[l] = sys[from(l)])
  <2> SUFFICES ASSUME NEW l \in 1..Len(more), l # p
               PROVE  from(l) \in 1..Len(sys) /\ at(from(l)) = l /\ more[l] = sys[from(l)]
    OBVIOUS
  <2>1. from(l) \in 1..Len(sys) /\ at(from(l)) = l
    BY <1>1
  <2> HIDE DEF at, from
  <2> QED
    BY <1>2, <2>1
<1>4. ASSUME agent.persona
      PROVE  Leads(more)
  <2>1. n - 1 >= 1 /\ Leads(sys)
    BY <1>4 DEF Fits
  <2>2. p = 2 /\ sys # <<>> /\ sys[1] = Identity /\ 1 \in 1..Len(sys)
    BY <1>1, <2>1 DEF Leads
  <2>3. more[1] = Identity /\ more # <<>>
    BY <1>1, <2>2
  <2>4. ASSUME NEW l \in 2..Len(more)
        PROVE  more[l] # Identity
    <3>1. CASE l = p
      BY <1>1, <3>1
    <3>2. CASE l # p
      <4>1. l \in 1..Len(more) /\ from(l) \in 2..Len(sys)
        BY <1>1, <2>2, <3>2
      <4> QED
        BY <1>3, <2>1, <3>2, <4>1 DEF Leads
    <3> QED
      BY <3>1, <3>2
  <2> QED
    BY <2>3, <2>4 DEF Leads
<1>5. CASE d = 0 /\ \A i \in 1..Len(sys) : sys[i] # Summary
  <2>1. \A l \in 1..Len(more) : more[l] # Summary
    BY <1>1, <1>3, <1>5
  <2> QED
    BY <1>4, <1>5, <2>1 DEF Fits
<1>6. CASE /\ \E j \in 1..n - 1 : loadPlugins(agent)[j] = "compaction"
           /\ \E i \in 1..Len(sys) : \A l \in 1..Len(sys) : sys[l] = Summary <=> l = i
           /\ Len(all) - d >= agent.compaction.keepRecent
           /\ d > 0 \/ agent.compaction.keepRecent = 0
  <2>1. PICK i \in 1..Len(sys) : \A l \in 1..Len(sys) : sys[l] = Summary <=> l = i
    BY <1>6
  <2>2. \A l \in 1..Len(more) : more[l] = Summary <=> l = at(i)
    <3> TAKE l \in 1..Len(more)
    <3>1. CASE l = p
      BY <1>1, <1>2, <2>1, <3>1
    <3>2. CASE l # p
      <4>1. from(l) \in 1..Len(sys) /\ at(from(l)) = l /\ more[l] = sys[from(l)]
        BY <1>3, <3>2
      <4>2. from(at(i)) = i /\ more[at(i)] = sys[i]
        BY <1>2, <2>1
      <4> HIDE DEF at, from
      <4> QED
        BY <2>1, <4>1, <4>2
    <3> QED
      BY <3>1, <3>2
  <2>3. at(i) \in 1..Len(more)
    BY <1>2, <2>1
  <2>4. \E j \in 1..n : loadPlugins(agent)[j] = "compaction"
    <3>1. \A j \in 1..n - 1 : j \in 1..n
      OBVIOUS
    <3> QED
      BY <1>6, <3>1
  <2>5. \E a \in 1..Len(more) : \A l \in 1..Len(more) : more[l] = Summary <=> l = a
    BY <2>2, <2>3
  <2> HIDE DEF at, from
  <2> QED
    BY <1>4, <1>6, <2>4, <2>5 DEF Fits
<1> QED
  BY <1>5, <1>6 DEF Fits
\* A middleware may leave the request as it is.
LEMMA UnchangedFits ==
  ASSUME NEW agent, NEW all, NEW n \in Nat, n >= 1, NEW sys, NEW d,
         Fits(agent, all, n - 1, sys, d), n = 1 => ~agent.persona
  PROVE  Fits(agent, all, n, sys, d)
<1>1. \A j \in 1..n - 1 : j \in 1..n
  OBVIOUS
<1>2. agent.persona => n - 1 >= 1
  OBVIOUS
<1> QED
  BY <1>1, <1>2 DEF Fits

LEMMA NamesAre ==
  ASSUME NEW agent, IsAgent(agent)
  PROVE  LET names == loadPlugins(agent) IN
         /\ Len(names) \in Nat
         /\ agent.persona => Len(names) >= 1 /\ names[1] = "identity"
         /\ \A i \in 1..Len(names) : ~(agent.persona /\ i = 1) => names[i] \in PluginNames
         /\ \A i, j \in 1..Len(names) : names[i] = names[j] => i = j
<1> DEFINE names == loadPlugins(agent)
           plugins == agent.plugins
<1>1. /\ plugins \in Seq(PluginNames) /\ Len(plugins) \in Nat /\ agent.persona \in BOOLEAN
      /\ \A i, j \in 1..Len(plugins) : plugins[i] = plugins[j] => i = j
      /\ \A i \in 1..Len(plugins) : plugins[i] \in PluginNames
  BY DEF IsAgent, IsInjective
<1>2. CASE agent.persona
  <2> DEFINE Names == PluginNames \cup {"identity"}
  <2>1. <<"identity">> \in Seq(Names) /\ plugins \in Seq(Names) /\ Len(<<"identity">>) = 1 /\ <<"identity">>[1] = "identity"
    BY <1>1, SeqMonotonic
  <2>2. names = <<"identity">> \o plugins
    BY <1>2 DEF loadPlugins
  <2> HIDE DEF names, Names, plugins
  <2>3. /\ Len(names) = 1 + Len(plugins)
        /\ \A i \in 1..1 + Len(plugins) : names[i] = IF i <= 1 THEN <<"identity">>[i] ELSE plugins[i - 1]
    BY <2>1, <2>2, ConcatProperties
  <2>4. Len(names) \in Nat /\ Len(names) >= 1 /\ names[1] = "identity"
    BY <1>1, <2>1, <2>3
  <2>5. \A i \in 1..Len(names) : i # 1 => names[i] = plugins[i - 1] /\ i - 1 \in 1..Len(plugins) /\ names[i] \in PluginNames
    BY <1>1, <2>3
  <2>6. ASSUME NEW i \in 1..Len(names), NEW j \in 1..Len(names), names[i] = names[j]
        PROVE  i = j
    <3>1. "identity" \notin PluginNames
      BY DEF PluginNames
    <3>2. (i = 1) <=> (j = 1)
      BY <2>4, <2>5, <2>6, <3>1
    <3>3. CASE i # 1 /\ j # 1
      <4>1. plugins[i - 1] = plugins[j - 1] /\ i - 1 \in 1..Len(plugins) /\ j - 1 \in 1..Len(plugins)
        BY <2>5, <2>6, <3>3
      <4>2. i - 1 = j - 1
        BY <1>1, <4>1
      <4> QED
        BY <4>2
    <3> QED
      BY <3>2, <3>3
  <2>7. \A i \in 1..Len(names) : ~(agent.persona /\ i = 1) => names[i] \in PluginNames
    BY <1>2, <2>5
  <2> QED
    BY <2>4, <2>6, <2>7 DEF names
<1>3. CASE ~agent.persona
  <2>1. names = plugins
    BY <1>1, <1>3, ConcatEmptySeq DEF loadPlugins
  <2> HIDE DEF names
  <2> QED
    BY <1>1, <1>3, <2>1 DEF names
<1> QED
  BY <1>2, <1>3

\* How many messages of the conversation a summary leaves: not less than keepRecent.
LEMMA KeepCountIs ==
  ASSUME NEW o, o.keepRecent \in Nat, NEW system, NEW body, Len(body) \in Nat
  PROVE  KeepCount(o, system, body) \in Nat /\ KeepCount(o, system, body) >= o.keepRecent
<1> DEFINE T == {o.keepRecent} \cup
                {n \in 0..Len(body) : estimateTotalTokens(LastOnes(body, n))
                                        <= o.maxTokens - estimateTotalTokens(system) - SummaryReserved}
<1>1. T \subseteq 0..(o.keepRecent + Len(body)) /\ o.keepRecent \in T /\ o.keepRecent + Len(body) \in Nat
  OBVIOUS
<1>2. Max(T) \in T /\ \A y \in T : y <= Max(T)
  <2> HIDE DEF T
  <2> QED BY <1>1, LargestNatural
<1>3. Max(T) \in Nat /\ Max(T) >= o.keepRecent
  <2> HIDE DEF T
  <2>1. Max(T) \in 0..(o.keepRecent + Len(body))
    BY <1>1, <1>2
  <2>2. o.keepRecent <= Max(T)
    BY <1>1, <1>2
  <2> QED
    BY <1>1, <2>1, <2>2
<1>4. KeepCount(o, system, body) = IF o.maxTokens = Undefined THEN o.keepRecent ELSE Max(T)
  BY DEF KeepCount
<1> HIDE DEF T
<1> QED
  BY <1>3, <1>4

\* Compaction, the first time: the summary comes behind the other system messages.
LEMMA CompactionFits ==
  ASSUME NEW agent, IsAgent(agent), NEW all \in Seq(Turns), NEW n \in Nat, n >= 1,
         NEW sys \in Seq(Prompts), Fits(agent, all, n - 1, sys, 0), n = 1 => ~agent.persona,
         \A i \in 1..Len(sys) : sys[i] # Summary, loadPlugins(agent)[n] = "compaction"
  PROVE  \E more \in Seq(Prompts), e \in 0..Len(all) :
           /\ compactionMiddleware(agent.compaction, sys \o Rest(all, 0)) = more \o Rest(all, e)
           /\ Fits(agent, all, n, more, e)
<1> DEFINE o == agent.compaction
           body == Rest(all, 0)
           req == sys \o body
           keep == KeepCount(o, sys, body)
<1>1. body = all /\ all \in Seq(Turns) /\ Len(all) \in Nat /\ 0 \in 0..Len(all)
  BY SubSeqFull DEF Rest
<1>2. SystemMessages(req) = sys /\ Conversation(req) = body
  BY <1>1, PartsAre
<1>3. o.keepRecent \in Nat /\ keep \in Nat /\ keep >= o.keepRecent
  BY <1>1, KeepCountIs DEF IsAgent
<1>4. compactionMiddleware(o, req) = IF ~ShouldCompact(o, req) \/ Len(body) <= keep THEN req
                                     ELSE sys \o <<Summary>> \o Recent(body, keep)
  <2> HIDE DEF req, body, o
  <2> QED BY <1>2 DEF compactionMiddleware, keep
<1> HIDE DEF keep
<1>5. CASE ~ShouldCompact(o, req) \/ Len(body) <= keep
  BY <1>1, <1>4, <1>5, UnchangedFits
<1>6. CASE ~(~ShouldCompact(o, req) \/ Len(body) <= keep)
  <2> DEFINE more == sys \o <<Summary>>
             e == IF keep = 0 THEN 0 ELSE Len(all) - keep
  <2>1. Len(all) > keep
    BY <1>1, <1>3, <1>6
  <2>2. e \in 0..Len(all) /\ Len(all) - e >= o.keepRecent /\ (e > 0 \/ o.keepRecent = 0)
    BY <1>1, <1>3, <2>1
  <2>3. Recent(body, keep) = Rest(all, e)
    BY <1>1, <1>3, <2>1 DEF Recent, LastOnes, Rest
  <2>4. <<Summary>> \in Seq(Prompts) /\ Len(<<Summary>>) = 1 /\ <<Summary>>[1] = Summary /\ Len(sys) \in Nat
    <3>1. Summary \in Prompts
      BY PromptsAndTurns
    <3> QED
      BY <3>1
  <2>5. /\ more \in Seq(Prompts) /\ Len(more) = Len(sys) + 1
        /\ \A i \in 1..Len(sys) + 1 : more[i] = IF i <= Len(sys) THEN sys[i] ELSE <<Summary>>[i - Len(sys)]
    BY <2>4, ConcatProperties
  <2> HIDE DEF e
  <2>6. compactionMiddleware(o, req) = more \o Rest(all, e)
    BY <1>4, <1>6, <2>3
  <2> HIDE DEF more
  <2>7. more[Len(sys) + 1] = Summary /\ \A i \in 1..Len(sys) : more[i] = sys[i]
    <3>1. Len(sys) + 1 \in 1..Len(sys) + 1 /\ ~(Len(sys) + 1 <= Len(sys)) /\ (Len(sys) + 1) - Len(sys) = 1
      BY <2>4
    <3> QED
      BY <2>4, <2>5, <3>1
  <2>8. \A l \in 1..Len(more) : more[l] = Summary <=> l = Len(sys) + 1
    BY <2>4, <2>5, <2>7
  <2>9. ASSUME agent.persona
        PROVE  Leads(more)
    <3>1. Leads(sys)
      <4>1. n - 1 >= 1
        BY <2>9
      <4> QED
        BY <2>9, <4>1 DEF Fits
    <3>2. 1 \in 1..Len(sys) /\ sys[1] = Identity /\ \A i \in 2..Len(sys) : sys[i] # Identity
      BY <2>4, <3>1 DEF Leads
    <3>3. more # <<>> /\ more[1] = Identity
      BY <2>4, <2>5, <2>7, <3>2
    <3>4. ASSUME NEW i \in 2..Len(more)
          PROVE  more[i] # Identity
      <4>1. CASE i = Len(sys) + 1
        BY <2>7, <4>1, PromptsAndTurns
      <4>2. CASE i # Len(sys) + 1
        <5>1. i \in 1..Len(sys) /\ i \in 2..Len(sys)
          BY <2>4, <2>5, <4>2
        <5> QED
          BY <2>7, <3>2, <5>1
      <4> QED
        BY <4>1, <4>2
    <3> QED
      BY <3>3, <3>4 DEF Leads
  <2>10. Fits(agent, all, n, more, e)
    <3>1. n \in 1..n /\ n # 0
      OBVIOUS
    <3>2. \E i \in 1..Len(more) : \A l \in 1..Len(more) : more[l] = Summary <=> l = i
      <4>1. Len(sys) + 1 \in 1..Len(more)
        BY <2>4, <2>5
      <4> QED
        BY <2>8, <4>1
    <3> QED
      BY <2>2, <2>9, <3>1, <3>2 DEF Fits
  <2> QED
    BY <2>2, <2>5, <2>6, <2>10
<1> QED
  BY <1>5, <1>6

\* A middleware makes a request of the next stage from one of its own.
LEMMA MiddlewareFits ==
  ASSUME NEW agent, IsAgent(agent), NEW all \in Seq(Turns), NEW n \in 1..Len(loadPlugins(agent)), NEW v,
         Assembled(agent, all, n - 1, v)
  PROVE  Assembled(agent, all, n, Middleware(loadPlugins(agent)[n], agent, v))
<1> DEFINE name == loadPlugins(agent)[n]
<1>1. PICK sys \in Seq(Prompts), d \in 0..Len(all) : v = sys \o Rest(all, d) /\ Fits(agent, all, n - 1, sys, d)
  BY DEF Assembled
<1>2. /\ Len(loadPlugins(agent)) \in Nat /\ n \in Nat /\ n >= 1 /\ agent.persona \in BOOLEAN
      /\ agent.persona /\ n = 1 => name = "identity"
      /\ ~(agent.persona /\ n = 1) => name \in PluginNames
      /\ \A j \in 1..n - 1 : loadPlugins(agent)[j] # name
  <2>1. /\ Len(loadPlugins(agent)) \in Nat /\ agent.persona \in BOOLEAN
        /\ agent.persona => loadPlugins(agent)[1] = "identity"
        /\ \A i \in 1..Len(loadPlugins(agent)) : ~(agent.persona /\ i = 1) => loadPlugins(agent)[i] \in PluginNames
        /\ \A i, j \in 1..Len(loadPlugins(agent)) : loadPlugins(agent)[i] = loadPlugins(agent)[j] => i = j
    BY NamesAre DEF IsAgent
  <2>2. \A j \in 1..n - 1 : j \in 1..Len(loadPlugins(agent)) /\ j # n
    BY <2>1
  <2> QED
    BY <2>1, <2>2
<1>3. Rest(all, d) \in Seq(Turns)
  BY RestIs
<1>4. CASE agent.persona /\ n = 1
  <2>1. name = "identity" /\ "identity" \notin PluginNames
    BY <1>2, <1>4 DEF PluginNames
  <2>2. \A i \in 1..Len(sys) : sys[i] \in Message
    <3>1. n - 1 = 0
      BY <1>4
    <3> QED
      BY <1>1, <3>1 DEF Fits
  <2>3. \A i \in 1..Len(sys) : sys[i] # Identity
    BY <2>2, PromptsAndTurns
  <2> DEFINE more == <<Identity>> \o sys
  <2>4. Middleware(name, agent, v) = more \o Rest(all, d)
    BY <1>1, <1>3, <2>1, <2>3, IdentityComesFirst DEF Middleware
  <2>5. Inserted(sys, more, 1, Identity)
    BY <1>3, PromptsAndTurns, InFrontIs
  <2> HIDE DEF more, name
  <2>6. /\ more \in Seq(Prompts) /\ Len(more) = Len(sys) + 1 /\ more[1] = Identity /\ Len(sys) \in Nat
        /\ \A i \in 1..Len(sys) : more[i + 1] = sys[i]
    <3>1. \A i \in 1..Len(sys) : ~(i < 1)
      OBVIOUS
    <3> QED
      BY <2>5, <3>1 DEF Inserted
  <2>7. \A i \in 2..Len(more) : more[i] # Identity /\ more[i] # Summary
    <3> TAKE i \in 2..Len(more)
    <3>1. i - 1 \in 1..Len(sys) /\ (i - 1) + 1 = i
      BY <2>6
    <3> QED
      BY <2>2, <2>6, <3>1, PromptsAndTurns
  <2>8. Leads(more)
    BY <2>6, <2>7 DEF Leads
  <2>9. d = 0 /\ \A i \in 1..Len(more) : more[i] # Summary
    <3>1. d = 0
      <4>1. \A j \in 1..n - 1 : FALSE
        BY <1>4
      <4> QED
        BY <1>1, <4>1 DEF Fits
    <3>2. \A i \in 1..Len(more) : i = 1 \/ i \in 2..Len(more)
      BY <2>6
    <3> QED
      BY <2>6, <2>7, <3>1, <3>2, PromptsAndTurns
  <2>10. Fits(agent, all, n, more, d)
    BY <1>2, <2>8, <2>9 DEF Fits
  <2> QED
    BY <2>4, <2>6, <2>10 DEF Assembled, name
<1>5. CASE ~(agent.persona /\ n = 1)
  <2>1. name \in PluginNames /\ (n = 1 => ~agent.persona)
    BY <1>2, <1>5
  <2>2. ASSUME NEW c \in {Context(k) : k \in {"skills", "user memory", "memories", "knowledge"}}
        PROVE  Assembled(agent, all, n, Inject(c, v))
    <3>1. c \in Prompts /\ c # Identity /\ c # Summary
      BY PromptsAndTurns
    <3>2. PICK more \in Seq(Prompts), p \in {1, 2} :
            Inject(c, v) = more \o Rest(all, d) /\ Inserted(sys, more, p, c) /\ (Leads(sys) => p = 2)
      BY <1>1, <1>3, <3>1, InjectIs
    <3>3. Fits(agent, all, n, more, d)
      BY <1>1, <1>2, <2>1, <3>1, <3>2, InsertedFits
    <3> QED
      BY <3>2, <3>3 DEF Assembled
  <2>3. Assembled(agent, all, n, v)
    <3>1. Fits(agent, all, n, sys, d)
      BY <1>1, <1>2, <2>1, UnchangedFits
    <3> QED
      BY <1>1, <3>1 DEF Assembled
  <2>4. CASE name = "compaction"
    <3>1. d = 0 /\ \A i \in 1..Len(sys) : sys[i] # Summary
      BY <1>1, <1>2, <2>4 DEF Fits
    <3>2. \E more \in Seq(Prompts), e \in 0..Len(all) :
            /\ compactionMiddleware(agent.compaction, sys \o Rest(all, 0)) = more \o Rest(all, e)
            /\ Fits(agent, all, n, more, e)
      BY <1>1, <1>2, <2>1, <2>4, <3>1, CompactionFits
    <3>3. Middleware(name, agent, v) = compactionMiddleware(agent.compaction, sys \o Rest(all, 0))
      <4> HIDE DEF name
      <4> QED BY <1>1, <2>4, <3>1 DEF Middleware
    <3> QED
      BY <3>2, <3>3 DEF Assembled
  <2>5. CASE name = "agent-skills"
    <3>1. Middleware(name, agent, v) = Inject(Context("skills"), v)
      <4> HIDE DEF name
      <4> QED BY <2>5 DEF Middleware, skillContextMiddleware
    <3> QED
      BY <2>2, <3>1
  <2>6. CASE name = "walrus-memory"
    <3>1. Middleware(name, agent, v) = Inject(Context("user memory"), v)
      <4> HIDE DEF name
      <4> QED BY <2>6 DEF Middleware, contextMiddleware
    <3> QED
      BY <2>2, <3>1
  <2>7. CASE name = "semantic-memory"
    <3>1. Middleware(name, agent, v) \in {Inject(Context("memories"), v), v}
      <4> HIDE DEF name
      <4> QED BY <2>7 DEF Middleware, memoryMiddleware, AboutLastUser
    <3> QED
      BY <2>2, <2>3, <3>1
  <2>8. CASE name = "knowledge"
    <3>1. Middleware(name, agent, v) \in {Inject(Context("knowledge"), v), v}
      <4> HIDE DEF name
      <4> QED BY <2>8 DEF Middleware, retrievalMiddleware, AboutLastUser
    <3> QED
      BY <2>2, <2>3, <3>1
  <2> QED
    BY <2>1, <2>4, <2>5, <2>6, <2>7, <2>8 DEF PluginNames
<1> QED
  BY <1>4, <1>5

\* What the model is asked with.
LEMMA ComposedFits ==
  ASSUME NEW agent, IsAgent(agent), NEW all \in Seq(Turns), NEW sys \in Seq(Prompts),
         \A i \in 1..Len(sys) : sys[i] \in Message
  PROVE  Assembled(agent, all, Len(loadPlugins(agent)), composeModel(agent, sys \o all))
<1> DEFINE names == loadPlugins(agent)
           N == Len(names)
           first == sys \o all
           V == [n \in 0..N |-> {v \in Seq(Prompts \cup Turns) : Assembled(agent, all, n, v)}]
           step == [n \in 1..N |-> [v \in V[n - 1] |-> Middleware(names[n], agent, v)]]
           Def(g) == [n \in 0..N |-> IF n = 0 THEN first ELSE Middleware(names[n], agent, g[n - 1])]
<1>1. N \in Nat
  BY NamesAre
<1>2. ASSUME NEW n, NEW v, Assembled(agent, all, n, v)
      PROVE  v \in Seq(Prompts \cup Turns)
  <2>1. PICK s \in Seq(Prompts), d \in 0..Len(all) : v = s \o Rest(all, d)
    BY <1>2 DEF Assembled
  <2>2. Rest(all, d) \in Seq(Turns)
    BY RestIs
  <2> QED
    BY <2>1, <2>2, JoinedIs
<1>3. Assembled(agent, all, 0, first)
  <2>1. 0 \in 0..Len(all) /\ Rest(all, 0) = all
    BY SubSeqFull DEF Rest
  <2>2. \A i \in 1..Len(sys) : sys[i] # Summary
    BY PromptsAndTurns
  <2>3. Fits(agent, all, 0, sys, 0)
    BY <2>2 DEF Fits
  <2> QED
    BY <2>1, <2>3 DEF Assembled
<1> HIDE DEF names, first
<1>4. Closed(step, N, V)
  <2> SUFFICES ASSUME NEW n \in 1..N, NEW v \in V[n - 1]
               PROVE  step[n][v] \in V[n]
    BY DEF Closed
  <2>1. n - 1 \in 0..N /\ n \in 0..N
    BY <1>1
  <2>2. Assembled(agent, all, n - 1, v)
    BY <2>1
  <2>3. Assembled(agent, all, n, Middleware(names[n], agent, v))
    BY <2>2, MiddlewareFits DEF names
  <2>4. step[n][v] = Middleware(names[n], agent, v)
    OBVIOUS
  <2> QED
    BY <1>2, <2>1, <2>3, <2>4
<1>5. PICK f : Iterates(f, step, N, V, first)
  <2>1. first \in V[0]
    BY <1>1, <1>2, <1>3
  <2> HIDE DEF step, V, N
  <2> QED BY <1>1, <1>4, <2>1, StepByStep
<1>6. /\ f = [n \in 0..N |-> f[n]] /\ f[0] = first
      /\ \A n \in 1..N : f[n] = Middleware(names[n], agent, f[n - 1])
  <2>1. /\ f = [n \in 0..N |-> f[n]] /\ f[0] = first
        /\ \A n \in 0..N : f[n] \in V[n]
        /\ \A n \in 1..N : f[n] = step[n][f[n - 1]]
    <3> HIDE DEF step, V, N
    <3> QED BY <1>5 DEF Iterates
  <2>2. ASSUME NEW n \in 1..N PROVE f[n] = Middleware(names[n], agent, f[n - 1])
    <3>1. n - 1 \in 0..N
      BY <1>1
    <3>2. f[n - 1] \in V[n - 1] /\ f[n] = step[n][f[n - 1]]
      <4> HIDE DEF step, V, N
      <4> QED BY <2>1, <3>1
    <3>3. step[n] = [v \in V[n - 1] |-> Middleware(names[n], agent, v)]
      <4> HIDE DEF V, N
      <4> QED OBVIOUS
    <3> HIDE DEF step, V, N
    <3> QED
      BY <3>2, <3>3
  <2> HIDE DEF step, V, N
  <2> QED
    BY <2>1, <2>2
<1>7. f = Def(f)
  <2>1. \A n \in 0..N : f[n] = Def(f)[n]
    <3> TAKE n \in 0..N
    <3>1. n = 0 \/ (n # 0 /\ n \in 1..N)
      BY <1>1
    <3> HIDE DEF N
    <3> QED
      BY <1>6, <3>1
  <2> HIDE DEF N
  <2> QED
    BY <1>6, <2>1
<1> DEFINE c == CHOOSE g : g = Def(g)
<1>8. c = Def(c)
  <2> HIDE DEF Def
  <2> QED BY <1>7
<1>9. composeModel(agent, first) = c[N]
  BY DEF composeModel, names
<1> HIDE DEF V, step, N
<1>10. \A n \in 0..N : c[n] = Def(c)[n]
  <2> HIDE DEF Def, c
  <2> QED BY <1>8
<1> HIDE DEF c
<1> DEFINE Good == {n \in Nat : n <= N => Assembled(agent, all, n, c[n])}
<1>11. 0 \in Good
  BY <1>1, <1>3, <1>10
<1>12. ASSUME NEW n \in Nat, n \in Good PROVE n + 1 \in Good
  <2> SUFFICES ASSUME n + 1 <= N PROVE Assembled(agent, all, n + 1, c[n + 1])
    OBVIOUS
  <2>1. n + 1 \in 1..N /\ n + 1 \in 0..N /\ (n + 1) - 1 = n /\ n + 1 # 0 /\ Assembled(agent, all, n, c[n])
    BY <1>1, <1>12
  <2>2. c[n + 1] = Middleware(names[n + 1], agent, c[n])
    BY <1>10, <2>1
  <2>3. Assembled(agent, all, n + 1, Middleware(names[n + 1], agent, c[n]))
    BY <2>1, MiddlewareFits DEF names, N
  <2> QED
    BY <2>2, <2>3
<1>13. N \in Good
  <2> HIDE DEF Good
  <2> QED BY <1>1, <1>11, <1>12, SetInduction
<1> QED
  BY <1>1, <1>9, <1>13 DEF names, N, first

\* What is left of a conversation is its end.
LEMMA SuffixIs ==
  ASSUME NEW all \in Seq(Turns), NEW d \in 0..Len(all)
  PROVE  IsSuffix(Rest(all, d), all)
<1> DEFINE body == Rest(all, d)
           n == Len(all) - d
           back == Reverse(body)
           allBack == Reverse(all)
<1>1. /\ Len(body) = n /\ Len(all) \in Nat /\ d \in Nat /\ n \in Nat
      /\ \A i \in 1..n : body[i] = all[d + i] /\ body[i] \in Turns
  BY RestIs
<1>2. n <= Len(all)
  BY <1>1
<1>3. \A i \in 1..n : (n - i) + 1 \in 1..n /\ d + ((n - i) + 1) = (Len(all) - i) + 1
  BY <1>1
<1>4. /\ back = [i \in 1..n |-> body[(n - i) + 1]]
      /\ allBack = [i \in 1..Len(all) |-> all[(Len(all) - i) + 1]]
  BY <1>1 DEF Reverse
<1> HIDE DEF body, back, allBack
<1>5. back \in Seq(Turns) /\ Len(back) = n /\ allBack \in Seq(Turns) /\ Len(allBack) = Len(all)
  <2>1. \A i \in 1..n : body[(n - i) + 1] \in Turns
    BY <1>1, <1>3
  <2>2. \A i \in 1..Len(all) : all[(Len(all) - i) + 1] \in Turns
    BY <1>1
  <2>3. back \in [1..n -> Turns] /\ allBack \in [1..Len(all) -> Turns]
    BY <1>4, <2>1, <2>2
  <2>4. \A k \in Nat : \A f : f \in [1..k -> Turns] => f \in Seq(Turns) /\ Len(f) = k
    OBVIOUS
  <2> QED
    BY <1>1, <2>3, <2>4
<1>6. \A i \in 1..n : back[i] = allBack[i]
  <2> TAKE i \in 1..n
  <2>1. i \in 1..Len(all)
    BY <1>1, <1>2
  <2>2. back[i] = body[(n - i) + 1] /\ allBack[i] = all[(Len(all) - i) + 1]
    BY <1>4, <2>1
  <2>3. body[(n - i) + 1] = all[d + ((n - i) + 1)]
    BY <1>1, <1>3
  <2> QED
    BY <1>3, <2>2, <2>3
<1> HIDE DEF n
<1>7. SubSeq(back, 1, n) = SubSeq(allBack, 1, n)
  <2>1. n \in Int /\ 1 \in Int
    BY <1>1
  <2>2. \A i \in 1..n : back[i] \in Turns
    BY <1>5, ElementOfSeq
  <2>3. \A i \in 1..n : allBack[i] \in Turns
    BY <1>6, <2>2
  <2>4. /\ SubSeq(back, 1, n) \in Seq(Turns) /\ Len(SubSeq(back, 1, n)) = IF 1 <= n THEN n - 1 + 1 ELSE 0
        /\ \A i \in 1..n - 1 + 1 : SubSeq(back, 1, n)[i] = back[1 + i - 1]
    BY <2>1, <2>2, SubSeqProperties
  <2>5. /\ SubSeq(allBack, 1, n) \in Seq(Turns) /\ Len(SubSeq(allBack, 1, n)) = IF 1 <= n THEN n - 1 + 1 ELSE 0
        /\ \A i \in 1..n - 1 + 1 : SubSeq(allBack, 1, n)[i] = allBack[1 + i - 1]
    BY <2>1, <2>3, SubSeqProperties
  <2>6. \A i \in 1..Len(SubSeq(back, 1, n)) : i \in 1..n /\ i \in 1..n - 1 + 1 /\ 1 + i - 1 = i
    BY <1>1, <2>4
  <2>7. \A i \in 1..Len(SubSeq(back, 1, n)) : SubSeq(back, 1, n)[i] = SubSeq(allBack, 1, n)[i]
    BY <1>6, <2>4, <2>5, <2>6
  <2> QED
    BY <2>4, <2>5, <2>7, SeqEqual
<1>8. IsPrefix(back, allBack)
  BY <1>2, <1>5, <1>7 DEF IsPrefix
<1> QED
  BY <1>8 DEF IsSuffix, back, allBack, body

\* In a conversation, results stand behind their calls.
ResultsBehindCalls(t) ==
  \A i \in 1..Len(t) : t[i].role = "tool" =>
    i > 1 /\ t[i - 1].role = "assistant" /\ t[i - 1].calls = t[i].calls

LEMMA ComposedIsWellFormed ==
  ASSUME NEW agent, IsAgent(agent), NEW all \in Seq(Turns), NEW given \in Seq(Prompts),
         \A i \in 1..Len(given) : given[i] \in Message, ResultsBehindCalls(all)
  PROVE  WellFormed(agent, given \o all, composeModel(agent, given \o all))
<1> DEFINE N == Len(loadPlugins(agent))
           req == composeModel(agent, given \o all)
           keepRecent == agent.compaction.keepRecent
<1>1. PICK sys \in Seq(Prompts), d \in 0..Len(all) : req = sys \o Rest(all, d) /\ Fits(agent, all, N, sys, d)
  BY ComposedFits DEF Assembled
<1> DEFINE body == Rest(all, d)
<1>2. /\ body \in Seq(Turns) /\ Len(body) = Len(all) - d /\ Len(all) \in Nat /\ d \in Nat /\ Len(body) \in Nat
      /\ \A i \in 1..Len(body) : body[i] = all[d + i]
  BY RestIs
<1>3. Conversation(req) = body /\ Conversation(given \o all) = all
  BY <1>1, <1>2, PartsAre
<1>4. /\ req \in Seq(Prompts \cup Turns) /\ DOMAIN req = 1..Len(req) /\ Len(req) = Len(sys) + Len(body) /\ Len(sys) \in Nat
      /\ \A i \in 1..Len(sys) : req[i] = sys[i] /\ IsSystem(req[i])
      /\ \A i \in Len(sys) + 1..Len(req) : req[i] \in Turns /\ ~IsSystem(req[i])
  <2> DEFINE joined == sys \o body
  <2> HIDE DEF body
  <2>1. /\ joined \in Seq(Prompts \cup Turns) /\ DOMAIN joined = 1..Len(joined) /\ Len(joined) = Len(sys) + Len(body)
        /\ Len(sys) \in Nat
        /\ \A i \in 1..Len(sys) : joined[i] = sys[i] /\ IsSystem(joined[i])
        /\ \A i \in Len(sys) + 1..Len(joined) : joined[i] \in Turns /\ ~IsSystem(joined[i])
    BY <1>2, JoinedIs
  <2>2. req = joined
    BY <1>1 DEF body
  <2> HIDE DEF req, joined
  <2> QED
    BY <2>1, <2>2
<1> HIDE DEF req, body
<1>5. \A i \in 1..Len(req) : i \in 1..Len(sys) \/ i \in Len(sys) + 1..Len(req)
  BY <1>2, <1>4
<1>6. ASSUME NEW i \in DOMAIN req, NEW j \in DOMAIN req, i < j, IsSystem(req[j])
      PROVE  IsSystem(req[i])
  <2>1. j \in 1..Len(sys)
    BY <1>4, <1>5, <1>6
  <2>2. i \in 1..Len(sys)
    BY <1>4, <1>6, <2>1
  <2> QED
    BY <1>4, <2>2
<1>7. ASSUME agent.persona
      PROVE  Head(req) = Identity /\ Count(Identity, req) = 1
  <2>1. Leads(sys)
    <3>1. N >= 1
      BY <1>7, NamesAre
    <3> QED
      BY <1>1, <1>7, <3>1 DEF Fits
  <2>2. 1 \in 1..Len(sys) /\ sys[1] = Identity
    BY <1>4, <2>1 DEF Leads
  <2>3. Head(req) = Identity
    <3>1. Len(req) >= 1
      BY <1>2, <1>4, <2>2
    <3>2. Head(req) = req[1]
      BY <1>4, <3>1
    <3> QED
      BY <1>4, <2>2, <3>2
  <2>4. {i \in DOMAIN req : req[i] = Identity} = {1}
    <3>1. ASSUME NEW i \in DOMAIN req, req[i] = Identity
          PROVE  i = 1
      <4>1. i \in 1..Len(sys)
        BY <1>4, <1>5, <3>1, PromptsAndTurns
      <4>2. i \notin 2..Len(sys)
        BY <1>4, <2>1, <3>1, <4>1 DEF Leads
      <4> QED
        BY <1>4, <4>1, <4>2
    <3>2. 1 \in DOMAIN req /\ req[1] = Identity
      BY <1>2, <1>4, <2>2
    <3> QED
      BY <3>1, <3>2
  <2> QED
    BY <2>3, <2>4, FS_Singleton DEF Count
<1>8. \/ d = 0 /\ Count(Summary, req) = 0
      \/ Count(Summary, req) = 1 /\ Len(body) >= keepRecent /\ (d > 0 \/ keepRecent = 0)
  <2>1. \A i \in DOMAIN req : req[i] = Summary => i \in 1..Len(sys)
    BY <1>4, <1>5, PromptsAndTurns
  <2>2. CASE d = 0 /\ \A i \in 1..Len(sys) : sys[i] # Summary
    <3>1. {i \in DOMAIN req : req[i] = Summary} = {}
      BY <1>4, <2>1, <2>2
    <3> QED
      BY <2>2, <3>1, FS_EmptySet DEF Count
  <2>3. CASE /\ \E i \in 1..Len(sys) : \A l \in 1..Len(sys) : sys[l] = Summary <=> l = i
             /\ Len(all) - d >= keepRecent /\ (d > 0 \/ keepRecent = 0)
    <3>1. PICK i \in 1..Len(sys) : \A l \in 1..Len(sys) : sys[l] = Summary <=> l = i
      BY <2>3
    <3>2. i \in DOMAIN req /\ req[i] = Summary
      <4>1. sys[i] = Summary
        BY <3>1
      <4>2. Len(req) = Len(sys) + Len(body) /\ Len(sys) \in Nat /\ Len(body) \in Nat
        BY <1>2, <1>4
      <4>3. i \in 1..Len(req)
        BY <4>2
      <4> QED
        BY <1>4, <4>1, <4>3
    <3>3. {l \in DOMAIN req : req[l] = Summary} = {i}
      BY <1>4, <2>1, <3>1, <3>2
    <3> QED
      BY <1>2, <2>3, <3>3, FS_Singleton DEF Count
  <2> QED
    BY <1>1, <2>2, <2>3 DEF Fits
<1>9. ASSUME NEW i \in DOMAIN body, body[i].role = "tool"
      PROVE  IF i > 1 THEN body[i - 1].role = "assistant" /\ body[i - 1].calls = body[i].calls
                      ELSE Count(Summary, req) = 1
  <2>1. i \in 1..Len(body) /\ d + i \in 1..Len(all) /\ body[i] = all[d + i]
    BY <1>2
  <2>2. d + i > 1 /\ all[d + i - 1].role = "assistant" /\ all[d + i - 1].calls = all[d + i].calls
    BY <1>9, <2>1 DEF ResultsBehindCalls
  <2>3. CASE i > 1
    <3>1. i - 1 \in 1..Len(body) /\ d + (i - 1) = d + i - 1
      BY <1>2, <2>1, <2>3
    <3>2. body[i - 1] = all[d + i - 1]
      BY <1>2, <3>1
    <3> QED
      BY <2>1, <2>2, <2>3, <3>2
  <2>4. CASE ~(i > 1)
    <3>1. d > 0
      BY <1>2, <2>1, <2>2, <2>4
    <3> QED
      BY <1>2, <1>8, <2>4, <3>1
  <2> QED
    BY <2>3, <2>4
<1>10. IsSuffix(body, all)
  BY SuffixIs DEF body
<1>11. /\ Count(Summary, req) <= 1
       /\ Len(all) - Len(body) > 0 => Count(Summary, req) = 1 /\ Len(body) >= keepRecent
       /\ Count(Summary, req) = 1 => Len(all) - Len(body) > 0 \/ keepRecent = 0
  BY <1>2, <1>8
<1> QED
  BY <1>3, <1>6, <1>7, <1>9, <1>10, <1>11 DEF WellFormed, req

\* Whatever transcript a model call is made with: its requests are well-formed if only its
\* first message is of the system and results stand behind their calls.
LEMMA RequestIsWellFormed ==
  ASSUME NEW agent, IsAgent(agent), NEW t \in Seq(Message), \A i \in 2..Len(t) : IsTurn(t[i]), ResultsBehindCalls(t)
  PROVE  WellFormed(agent, t, composeModel(agent, t))
<1>1. CASE \A i \in 1..Len(t) : IsTurn(t[i])
  <2>1. t \in Seq(Turns)
    BY <1>1 DEF Turns
  <2>2. <<>> \in Seq(Prompts) /\ <<>> \o t = t /\ \A i \in 1..Len(<<>>) : <<>>[i] \in Message
    BY ConcatEmptySeq
  <2> QED
    BY <2>1, <2>2, ComposedIsWellFormed
<1>2. CASE ~\A i \in 1..Len(t) : IsTurn(t[i])
  <2>1. t # <<>> /\ 1 \in 1..Len(t) /\ t[1] \in Message /\ IsSystem(t[1]) /\ Len(t) \in Nat
    <3>1. PICK i \in 1..Len(t) : ~IsTurn(t[i])
      BY <1>2
    <3>2. i = 1
      BY <3>1
    <3> QED
      BY <3>1, <3>2 DEF IsTurn, IsSystem
  <2> DEFINE all == Tail(t)
             given == <<t[1]>>
  <2>2. /\ all \in Seq(Message) /\ Len(all) = Len(t) - 1
        /\ \A i \in 1..Len(t) - 1 : all[i] = t[i + 1]
    BY <2>1
  <2>3. t = given \o all
    <3>1. t = <<Head(t)>> \o Tail(t) /\ Head(t) = t[1]
      BY <2>1
    <3> QED
      BY <3>1
  <2>4. given \in Seq(Prompts) /\ Len(given) = 1 /\ given[1] = t[1]
    <3>1. t[1] \in Prompts
      BY <2>1 DEF Prompts
    <3> QED
      BY <3>1
  <2> HIDE DEF all, given
  <2>5. all \in Seq(Turns)
    <3>1. \A i \in 1..Len(all) : all[i] \in Turns
      <4> TAKE i \in 1..Len(all)
      <4>1. i \in 1..Len(t) - 1 /\ i + 1 \in 2..Len(t) /\ all[i] \in Message
        BY <2>1, <2>2
      <4> QED
        BY <2>2, <4>1 DEF Turns
    <3> QED
      BY <2>2, <3>1
  <2>6. ResultsBehindCalls(all)
    <3> SUFFICES ASSUME NEW i \in 1..Len(all), all[i].role = "tool"
                 PROVE  i > 1 /\ all[i - 1].role = "assistant" /\ all[i - 1].calls = all[i].calls
      BY DEF ResultsBehindCalls
    <3>1. i \in 1..Len(t) - 1 /\ i + 1 \in 1..Len(t) /\ all[i] = t[i + 1] /\ (i + 1) - 1 = i
      BY <2>1, <2>2
    <3>2. t[i].role = "assistant" /\ t[i].calls = t[i + 1].calls
      BY <3>1 DEF ResultsBehindCalls
    <3>3. i # 1
      BY <2>1, <3>2 DEF IsSystem
    <3>4. i > 1 /\ i - 1 \in 1..Len(t) - 1 /\ (i - 1) + 1 = i
      BY <3>1, <3>3
    <3> QED
      BY <2>2, <3>1, <3>2, <3>4
  <2>7. \A i \in 1..Len(given) : given[i] \in Message
    BY <2>1, <2>4
  <2> QED
    BY <2>3, <2>4, <2>5, <2>6, <2>7, ComposedIsWellFormed
<1> QED
  BY <1>1, <1>2

\* In a transcript of turns the system prompt comes first, and results behind their calls.
LEMMA TurnsCompose ==
  ASSUME NEW t \in Seq(Message), Turnwise(t)
  PROVE  (\A i \in 2..Len(t) : IsTurn(t[i])) /\ ResultsBehindCalls(t)
<1>1. ASSUME NEW i \in 2..Len(t)
      PROVE  \/ t[i - 1].run = t[i].run /\ Follows(t[i - 1], t[i])
             \/ Begins(t[i - 1], t[i])
  <2>1. i - 1 \in 1..Len(t) /\ (i - 1) + 1 = i /\ (i - 1) + 1 <= Len(t)
    OBVIOUS
  <2> QED
    BY <2>1 DEF Turnwise
<1>2. \A i \in 2..Len(t) : IsTurn(t[i])
  BY <1>1 DEF Follows, Begins, IsTurn
<1>3. ASSUME NEW i \in 1..Len(t), t[i].role = "tool"
      PROVE  i > 1 /\ t[i - 1].role = "assistant" /\ t[i - 1].calls = t[i].calls
  <2>1. i # 1
    BY <1>3 DEF Turnwise
  <2>2. i \in 2..Len(t)
    BY <2>1
  <2> QED
    BY <1>1, <1>3, <2>2 DEF Follows, Begins, AsksForTools
<1> QED
  BY <1>2, <1>3 DEF ResultsBehindCalls

\* Whatever persona, plugins and compaction an agent was made with, and whatever the session's
\* transcript has become: what composeModel (compose.ts) asks the model with has its system
\* messages first and the persona's instruction once, before them; its conversation is cut off
\* only where a summary stands for the rest and keepRecent messages are left; and no results are
\* there without their calls before them but where the cut is.
THEOREM RequestsAreWellFormed == Spec => []RequestsWellFormed
<1>1. IInv => RequestsWellFormed
  <2> SUFFICES ASSUME IInv, NEW r \in Runs, NEW agent \in Agents
               PROVE  WellFormed(agent, messages[r], composeModel(agent, messages[r]))
    BY DEF RequestsWellFormed
  <2>1. messages[r] \in Seq(Message) /\ Turnwise(messages[r])
    BY DEF IInv, TypeOK, TurnsWhole
  <2>2. IsAgent(agent)
    BY AgentsAssumption
  <2>3. (\A i \in 2..Len(messages[r]) : IsTurn(messages[r][i])) /\ ResultsBehindCalls(messages[r])
    BY <2>1, TurnsCompose
  <2> QED
    BY <2>1, <2>2, <2>3, RequestIsWellFormed
<1> QED
  BY <1>1, Invariance, PTL DEF Spec
=============================================================================
