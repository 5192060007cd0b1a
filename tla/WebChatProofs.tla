---------------------------- MODULE WebChatProofs ----------------------------
(***************************************************************************)
(* The HTTP head and its clients, for any number of requests and sessions. *)
(***************************************************************************)
EXTENDS WebChat, TLAPS

\* What has been written to a response so far: nothing before the request is let in, at most
\* the timer's end while the run goes on, and then one answer, before the end or behind it.
ResponseShape ==
  \A r \in Requests :
    /\ rpc[r] \in {"unsent", "sent"} => resp[r] = <<>>
    /\ InFlight(r) => resp[r] = <<>> \/ resp[r] = <<"end">>
    /\ rpc[r] = "finished" => \/ \E f \in {"refused", "done", "error"} : resp[r] = <<f, "end">>
                              \/ \E f \in {"done", "error"} : resp[r] = <<"end", f>>

\* An end on its way to a client is the last frame, and the response has ended.
EndIsLast ==
  \A r \in Requests : \A i \in DOMAIN wire[r] :
    wire[r][i] = "end" => i = Len(wire[r]) /\ Ended(r)

\* The turn of a run that has stored it is in the table or was taken out of it.
TurnsKept ==
  \A r \in Requests :
    rpc[r] = "stored" \/ "done" \in Range(resp[r]) => r \in Range(db[sess[r]]) \cup gone

ServerInv == ServerTypeOK /\ ResponseShape /\ EndIsLast /\ TurnsKept

-----------------------------------------------------------------------------
\* What is in the short sequences that a response can be.
LEMMA RangeOfShort ==
  ASSUME NEW f, NEW g
  PROVE  Range(<<>>) = {} /\ Range(<<f>>) = {f} /\ Range(<<f, g>>) = {f, g}
<1>1. \A x : x \in Range(<<f, g>>) <=> x \in {f, g}
  BY DEF Range
<1> QED
  BY <1>1 DEF Range

\* The last element joins the others.
LEMMA RangeOfAppend ==
  ASSUME NEW S, NEW s \in Seq(S), NEW x
  PROVE  Range(Append(s, x)) = Range(s) \cup {x}
<1>1. /\ DOMAIN Append(s, x) = 1..(Len(s) + 1) /\ DOMAIN s = 1..Len(s) /\ Len(s) \in Nat
      /\ Append(s, x)[Len(s) + 1] = x
      /\ \A i \in 1..Len(s) : Append(s, x)[i] = s[i]
  OBVIOUS
<1>2. ASSUME NEW y \in Range(Append(s, x)) PROVE y \in Range(s) \cup {x}
  <2>1. PICK i \in 1..(Len(s) + 1) : y = Append(s, x)[i]
    BY <1>1 DEF Range
  <2>2. CASE i = Len(s) + 1
    BY <1>1, <2>1, <2>2
  <2>3. CASE i # Len(s) + 1
    BY <1>1, <2>1, <2>3 DEF Range
  <2> QED
    BY <2>2, <2>3
<1>3. ASSUME NEW y \in Range(s) PROVE y \in Range(Append(s, x))
  <2>1. PICK i \in 1..Len(s) : y = s[i]
    BY <1>1 DEF Range
  <2>2. i \in DOMAIN Append(s, x) /\ y = Append(s, x)[i]
    BY <1>1, <2>1
  <2> QED
    BY <2>2 DEF Range
<1>4. x \in Range(Append(s, x))
  BY <1>1 DEF Range
<1> QED
  BY <1>2, <1>3, <1>4

\* A request that is concluded: what becomes of the responses and the wires.
LEMMA ConcludeInv ==
  ASSUME ServerTypeOK, ResponseShape, EndIsLast, NEW r \in Requests,
         rpc[r] # "unsent", rpc[r] # "finished", NEW frame \in {"refused", "done", "error"},
         frame = "refused" => rpc[r] = "sent",
         Conclude(r, frame), rpc' = [rpc EXCEPT ![r] = "finished"]
  PROVE  /\ resp' \in [Requests -> Seq(Frames \ {"delta"})] /\ wire' \in [Requests -> Seq(Frames)]
         /\ open' = open
         /\ \A q \in Requests : wire'[q] # <<>> => q \in open
         /\ ResponseShape' /\ EndIsLast'
         /\ \A q \in Requests : q # r => resp'[q] = resp[q]
         /\ resp'[r] = <<"end", frame>> \/ resp'[r] = <<frame, "end">>
<1> USE DEF ServerTypeOK
<1>1. resp[r] = <<>> \/ resp[r] = <<"end">>
  BY DEF ResponseShape, InFlight
<1>2. CASE Ended(r)
  <2>1. resp[r] = <<"end">>
    BY <1>1, <1>2, RangeOfShort DEF Ended
  <2>2. resp' = [resp EXCEPT ![r] = Append(resp[r], frame)] /\ UNCHANGED <<open, wire>>
    BY <1>2 DEF Conclude
  <2>3. Append(resp[r], frame) = <<"end", frame>> /\ <<"end", frame>> \in Seq(Frames \ {"delta"})
    <3>1. Append(<<"end">>, frame) = <<"end", frame>>
      <4>1. <<"end">> \in Seq(Frames) /\ frame \in Frames
        BY DEF Frames
      <4>2. /\ Append(<<"end">>, frame) \in Seq(Frames) /\ Len(Append(<<"end">>, frame)) = 2
            /\ Append(<<"end">>, frame)[1] = "end" /\ Append(<<"end">>, frame)[2] = frame
        BY <4>1
      <4>3. <<"end", frame>> \in Seq(Frames) /\ Len(<<"end", frame>>) = 2
        BY <4>1
      <4> DEFINE s == Append(<<"end">>, frame)
                 t == <<"end", frame>>
      <4>4. s = [i \in 1..2 |-> s[i]] /\ t = [i \in 1..2 |-> t[i]]
        BY <4>2, <4>3
      <4>5. \A i \in 1..2 : s[i] = t[i]
        BY <4>2
      <4> HIDE DEF s, t
      <4>6. s = t
        BY <4>4, <4>5
      <4> QED
        BY <4>6 DEF s, t
    <3>2. <<"end", frame>> \in Seq(Frames \ {"delta"})
      BY DEF Frames
    <3> QED
      BY <2>1, <3>1, <3>2
  <2>4. resp' = [resp EXCEPT ![r] = <<"end", frame>>]
    BY <2>2, <2>3
  <2>5. frame \in {"done", "error"}
    <3>1. <<"end">> # <<>>
      OBVIOUS
    <3>2. rpc[r] # "sent"
      BY <2>1, <3>1 DEF ResponseShape
    <3> QED
      BY <3>2
  <2>6. ResponseShape'
    BY <2>4, <2>5 DEF ResponseShape, InFlight
  <2>7. Range(<<"end", frame>>) = {"end", frame}
    BY RangeOfShort
  <2>8. EndIsLast'
    BY <1>2, <2>2, <2>4, <2>7 DEF EndIsLast, Ended
  <2> QED
    BY <2>2, <2>3, <2>4, <2>6, <2>8
<1>3. CASE ~Ended(r)
  <2>1. resp[r] = <<>>
    BY <1>1, <1>3, RangeOfShort DEF Ended
  <2>2. Write(r, <<frame, "end">>)
    BY <1>3 DEF Conclude
  <2>3. resp' = [resp EXCEPT ![r] = <<frame, "end">>]
    BY <2>1, <2>2 DEF Write
  <2>4. wire' = [wire EXCEPT ![r] = IF r \in open THEN wire[r] \o <<frame, "end">> ELSE <<>>] /\ open' = open
    BY <2>2 DEF Write, Transmit
  <2>5. <<frame, "end">> \in Seq(Frames \ {"delta"}) /\ <<frame, "end">> \in Seq(Frames)
    BY DEF Frames
  <2>6. wire' \in [Requests -> Seq(Frames)]
    BY <2>4, <2>5
  <2>7. \A q \in Requests : wire'[q] # <<>> => q \in open
    BY <2>4
  <2>8. ResponseShape'
    BY <2>3 DEF ResponseShape, InFlight
  <2>9. EndIsLast'
    <3> SUFFICES ASSUME NEW q \in Requests, NEW i \in DOMAIN wire'[q], wire'[q][i] = "end"
                 PROVE  i = Len(wire'[q]) /\ Ended(q)'
      BY DEF EndIsLast
    <3>1. CASE q = r
      <4>1. Ended(r)'
        <5>1. resp'[r] = <<frame, "end">>
          BY <2>3
        <5>2. Range(<<frame, "end">>) = {frame, "end"}
          BY RangeOfShort
        <5> QED
          BY <5>1, <5>2 DEF Ended
      <4>2. \A j \in DOMAIN wire[r] : wire[r][j] # "end"
        BY <1>3 DEF EndIsLast
      <4>3. wire'[r] = wire[r] \o <<frame, "end">>
        BY <3>1, <2>4
      <4>4. wire[r] \in Seq(Frames)
        OBVIOUS
      <4>5. Len(wire'[r]) = Len(wire[r]) + 2 /\ wire'[r][Len(wire[r]) + 1] = frame
        BY <4>3, <4>4
      <4>6. \A j \in 1..Len(wire[r]) : wire'[r][j] # "end"
        BY <4>2, <4>3, <4>4
      <4> QED
        BY <3>1, <4>1, <4>3, <4>4, <4>5, <4>6
    <3>2. CASE q # r
      BY <3>2, <2>3, <2>4 DEF EndIsLast, Ended
    <3> QED
      BY <3>1, <3>2
  <2> QED
    BY <2>3, <2>4, <2>5, <2>6, <2>7, <2>8, <2>9
<1> QED
  BY <1>2, <1>3

\* A concluded request keeps every turn that was kept, if the answer is not "done" or its
\* own turn is.
LEMMA ConcludeKeeps ==
  ASSUME ServerInv, NEW r \in Requests, rpc[r] # "unsent", rpc[r] # "finished",
         NEW frame \in {"refused", "done", "error"},
         frame = "done" => rpc[r] = "stored", frame = "refused" => rpc[r] = "sent",
         Conclude(r, frame), rpc' = [rpc EXCEPT ![r] = "finished"],
         UNCHANGED <<sess, db, gone>>
  PROVE  TurnsKept'
<1> USE DEF ServerInv
<1>1. SUFFICES ASSUME NEW q \in Requests, rpc'[q] = "stored" \/ "done" \in Range(resp'[q])
              PROVE  q \in Range(db[sess[q]]) \cup gone
  BY DEF TurnsKept
<1>2. CASE q # r
  BY <1>1, <1>2, ConcludeInv DEF TurnsKept, ServerTypeOK
<1>3. CASE q = r
  <2>1. "done" \in Range(resp'[r])
    BY <1>1, <1>3 DEF ServerTypeOK
  <2>2. CASE resp'[r] = <<"end", frame>>
    <3>1. Range(<<"end", frame>>) = {"end", frame}
      BY RangeOfShort
    <3> QED
      BY <1>3, <2>1, <2>2, <3>1 DEF TurnsKept
  <2>3. CASE resp'[r] = <<frame, "end">>
    <3>1. Range(<<frame, "end">>) = {frame, "end"}
      BY RangeOfShort
    <3> QED
      BY <1>3, <2>1, <2>3, <3>1 DEF TurnsKept
  <2> QED
    BY <2>2, <2>3, ConcludeInv
<1> QED
  BY <1>2, <1>3

LEMMA RefuseInv ==
  ASSUME ServerInv, NEW r \in Requests, rpc[r] = "sent", Refuse(r), rate' \in 0..RATE_LIMIT_MAX,
         UNCHANGED <<sess, dbVars>>
  PROVE  ServerInv'
<1> USE DEF ServerInv
<1>1. Conclude(r, "refused") /\ rpc' = [rpc EXCEPT ![r] = "finished"]
  <2>1. ~Ended(r)
    BY RangeOfShort DEF ResponseShape, Ended
  <2> QED
    BY <2>1 DEF Refuse, Conclude
<1>2. ServerTypeOK' /\ ResponseShape' /\ EndIsLast'
  BY <1>1, ConcludeInv DEF ServerTypeOK, dbVars
<1>3. TurnsKept'
  BY <1>1, ConcludeKeeps DEF dbVars
<1> QED
  BY <1>2, <1>3

LEMMA ArriveInv ==
  ASSUME ServerInv, NEW r \in Requests, Arrive(r)
  PROVE  ServerInv'
<1> USE DEF ServerInv
<1>1. UNCHANGED <<sess, dbVars>> /\ rpc[r] = "sent"
  BY DEF Arrive
<1>2. CASE Refuse(r) /\ UNCHANGED rate
  BY <1>1, <1>2, RefuseInv DEF ServerTypeOK
<1>3. CASE Admit /\ Refuse(r)
  <2>1. rate' \in 0..RATE_LIMIT_MAX
    BY <1>3, HttpAssumption DEF Admit, ServerTypeOK
  <2> QED
    BY <1>1, <1>3, <2>1, RefuseInv
<1>4. CASE Admit /\ rpc' = [rpc EXCEPT ![r] = "loading"] /\ UNCHANGED respVars
  <2>1. rate' \in 0..RATE_LIMIT_MAX
    BY <1>4, HttpAssumption DEF Admit, ServerTypeOK
  <2>2. ServerTypeOK'
    BY <1>1, <1>4, <2>1 DEF ServerTypeOK, dbVars, respVars
  <2> QED
    BY <1>1, <1>4, <2>2 DEF ServerTypeOK, dbVars, respVars, ResponseShape, InFlight, EndIsLast, Ended, TurnsKept
<1> QED
  BY <1>2, <1>3, <1>4 DEF Arrive

LEMMA LoadInv ==
  ASSUME ServerInv, NEW r \in Requests, Load(r)
  PROVE  ServerInv'
<1> USE DEF ServerInv, Load, respVars
<1>1. ServerTypeOK'
  BY DEF ServerTypeOK
<1> QED
  BY <1>1 DEF ServerTypeOK, ResponseShape, InFlight, EndIsLast, Ended, TurnsKept

LEMMA DeltaInv ==
  ASSUME ServerInv, NEW r \in Requests, Delta(r)
  PROVE  ServerInv'
<1> USE DEF ServerInv
<1>1. CASE Ended(r)
  BY <1>1 DEF Delta, respVars, dbVars, ServerTypeOK, ResponseShape, InFlight, EndIsLast, Ended, TurnsKept
<1>2. CASE ~Ended(r)
  <2>1. wire' = [wire EXCEPT ![r] = IF r \in open THEN wire[r] \o <<"delta">> ELSE <<>>]
    BY <1>2 DEF Delta, Transmit
  <2>2. UNCHANGED <<rpc, sess, open, resp, db, hist, gone, rate>>
    BY <1>2 DEF Delta, Transmit, dbVars
  <2>3. wire[r] \in Seq(Frames) /\ <<"delta">> \in Seq(Frames)
    BY DEF ServerTypeOK, Frames
  <2>4. ServerTypeOK'
    BY <2>1, <2>2, <2>3 DEF ServerTypeOK
  <2>5. EndIsLast'
    <3> SUFFICES ASSUME NEW q \in Requests, NEW i \in DOMAIN wire'[q], wire'[q][i] = "end"
                 PROVE  i = Len(wire'[q]) /\ Ended(q)
      BY <2>2 DEF EndIsLast, Ended
    <3>1. CASE q = r
      <4>1. \A j \in DOMAIN wire[r] : wire[r][j] # "end"
        BY <1>2 DEF EndIsLast
      <4>2. \A j \in DOMAIN wire'[r] : wire'[r][j] # "end"
        <5>1. CASE r \in open
          <6>1. wire'[r] = Append(wire[r], "delta")
            BY <2>1, <2>3, <5>1 DEF ServerTypeOK
          <6> QED
            BY <2>3, <4>1, <6>1
        <5>2. CASE r \notin open
          BY <2>1, <5>2 DEF ServerTypeOK
        <5> QED
          BY <5>1, <5>2
      <4> QED
        BY <3>1, <4>2
    <3>2. CASE q # r
      BY <3>2, <2>1 DEF EndIsLast, ServerTypeOK
    <3> QED
      BY <3>1, <3>2
  <2> QED
    BY <2>2, <2>4, <2>5 DEF ResponseShape, InFlight, TurnsKept
<1> QED
  BY <1>1, <1>2

\* An upsert replaces what its run had loaded; the other turns of the row are in gone.
LEMMA StoreInv ==
  ASSUME ServerInv, NEW r \in Requests, Store(r)
  PROVE  ServerInv'
<1> USE DEF ServerInv
<1>1. /\ hist[r] \in Seq(Requests) /\ db[sess[r]] \in Seq(Requests)
      /\ Range(hist[r]) \subseteq Requests /\ Range(db[sess[r]]) \subseteq Requests
  BY DEF ServerTypeOK, Range
<1>2. Append(hist[r], r) \in Seq(Requests)
  BY <1>1
<1>3. Range(Append(hist[r], r)) = Range(hist[r]) \cup {r}
  BY <1>1, RangeOfAppend
<1>4. ServerTypeOK'
  BY <1>1, <1>2 DEF ServerTypeOK, Store, respVars
<1>5. ResponseShape' /\ EndIsLast'
  BY DEF ServerTypeOK, Store, respVars, ResponseShape, InFlight, EndIsLast, Ended
<1>6. TurnsKept'
  <2> SUFFICES ASSUME NEW q \in Requests, rpc'[q] = "stored" \/ "done" \in Range(resp'[q])
               PROVE  q \in Range(db'[sess[q]]) \cup gone'
    BY DEF TurnsKept, Store
  <2>1. CASE q = r
    BY <1>3, <2>1 DEF Store, ServerTypeOK
  <2>2. CASE q # r
    <3>1. q \in Range(db[sess[q]]) \cup gone
      BY <2>2 DEF TurnsKept, Store, respVars, ServerTypeOK
    <3>2. CASE sess[q] = sess[r]
      BY <1>3, <3>1, <3>2 DEF Store, ServerTypeOK
    <3>3. CASE sess[q] # sess[r]
      BY <3>1, <3>3 DEF Store, ServerTypeOK
    <3> QED
      BY <3>2, <3>3
  <2> QED
    BY <2>1, <2>2
<1> QED
  BY <1>4, <1>5, <1>6

LEMMA FinishInv ==
  ASSUME ServerInv, NEW r \in Requests, Finish(r)
  PROVE  ServerInv'
<1> USE DEF ServerInv
<1>1. /\ rpc[r] = "stored" /\ Conclude(r, "done") /\ rpc' = [rpc EXCEPT ![r] = "finished"]
      /\ UNCHANGED <<sess, db, hist, gone, rate>>
  BY DEF Finish, dbVars
<1>2. ServerTypeOK' /\ ResponseShape' /\ EndIsLast'
  BY <1>1, ConcludeInv DEF ServerTypeOK
<1>3. TurnsKept'
  BY <1>1, ConcludeKeeps
<1> QED
  BY <1>2, <1>3

LEMMA FailRunInv ==
  ASSUME ServerInv, NEW r \in Requests, FailRun(r)
  PROVE  ServerInv'
<1> USE DEF ServerInv
<1>1. /\ rpc[r] # "unsent" /\ rpc[r] # "finished"
      /\ Conclude(r, "error") /\ rpc' = [rpc EXCEPT ![r] = "finished"]
      /\ hist' = [hist EXCEPT ![r] = <<>>] /\ UNCHANGED <<sess, db, gone, rate>>
  BY DEF FailRun, InFlight
<1>2. hist' \in [Requests -> Seq(Requests)]
  BY <1>1 DEF ServerTypeOK
<1>3. ServerTypeOK' /\ ResponseShape' /\ EndIsLast'
  BY <1>1, <1>2, ConcludeInv DEF ServerTypeOK
<1>4. TurnsKept'
  BY <1>1, ConcludeKeeps
<1> QED
  BY <1>3, <1>4

\* The timer ends a response that is still empty.
LEMMA TimeoutInv ==
  ASSUME ServerInv, NEW r \in Requests, Timeout(r)
  PROVE  ServerInv'
<1> USE DEF ServerInv
<1>1. resp[r] = <<>>
  <2>1. resp[r] = <<>> \/ resp[r] = <<"end">>
    BY DEF ResponseShape, Timeout
  <2> QED
    BY <2>1, RangeOfShort DEF Timeout, Ended
<1>2. resp' = [resp EXCEPT ![r] = <<"end">>]
  BY <1>1 DEF Timeout, Write
<1>3. wire' = [wire EXCEPT ![r] = IF r \in open THEN wire[r] \o <<"end">> ELSE <<>>]
  BY DEF Timeout, Write, Transmit
<1>4. UNCHANGED <<rpc, sess, open, db, hist, gone, rate>> /\ InFlight(r)
  BY DEF Timeout, Write, Transmit, dbVars
<1>5. wire[r] \in Seq(Frames) /\ <<"end">> \in Seq(Frames) /\ <<"end">> \in Seq(Frames \ {"delta"})
  BY DEF ServerTypeOK, Frames
<1>6. ServerTypeOK'
  BY <1>2, <1>3, <1>4, <1>5 DEF ServerTypeOK
<1>7. ResponseShape'
  BY <1>2, <1>4 DEF ServerTypeOK, ResponseShape, InFlight
<1>8. Range(resp'[r]) = {"end"}
  BY <1>2, RangeOfShort DEF ServerTypeOK
<1>9. EndIsLast'
  <2> SUFFICES ASSUME NEW q \in Requests, NEW i \in DOMAIN wire'[q], wire'[q][i] = "end"
               PROVE  i = Len(wire'[q]) /\ Ended(q)'
    BY DEF EndIsLast
  <2>1. CASE q = r
    <3>1. r \in open
      BY <1>3, <2>1 DEF ServerTypeOK
    <3>2. wire'[r] = Append(wire[r], "end")
      BY <1>3, <1>5, <3>1 DEF ServerTypeOK
    <3>3. \A j \in DOMAIN wire[r] : wire[r][j] # "end"
      BY DEF EndIsLast, Timeout
    <3>4. Ended(r)'
      BY <1>8 DEF Ended
    <3> QED
      BY <1>5, <2>1, <3>2, <3>3, <3>4
  <2>2. CASE q # r
    BY <1>2, <1>3, <2>2 DEF EndIsLast, Ended, ServerTypeOK
  <2> QED
    BY <2>1, <2>2
<1>10. TurnsKept'
  <2> SUFFICES ASSUME NEW q \in Requests, rpc[q] = "stored" \/ "done" \in Range(resp'[q])
               PROVE  q \in Range(db[sess[q]]) \cup gone
    BY <1>4 DEF TurnsKept
  <2>1. rpc[q] = "stored" \/ "done" \in Range(resp[q])
    BY <1>2, <1>8 DEF ServerTypeOK
  <2> QED
    BY <2>1 DEF TurnsKept
<1> QED
  BY <1>6, <1>7, <1>9, <1>10

LEMMA DeleteSessionInv ==
  ASSUME ServerInv, NEW s \in Sessions, DeleteSession(s)
  PROVE  ServerInv'
<1> USE DEF ServerInv
<1>1. Range(db[s]) \subseteq Requests
  BY DEF ServerTypeOK, Range
<1>2. ServerTypeOK'
  <2>1. db' \in [Sessions -> Seq(Requests)] /\ gone' \subseteq Requests
    BY <1>1 DEF DeleteSession, ServerTypeOK
  <2> QED
    BY <2>1 DEF DeleteSession, ServerTypeOK, respVars
<1>3. ResponseShape' /\ EndIsLast'
  BY DEF DeleteSession, respVars, ResponseShape, InFlight, EndIsLast, Ended
<1>4. TurnsKept'
  BY DEF DeleteSession, ServerTypeOK, respVars, TurnsKept
<1> QED
  BY <1>2, <1>3, <1>4

LEMMA ServerStepInv ==
  ASSUME ServerInv, ServerNext
  PROVE  ServerInv'
<1>1. CASE WindowEnds
  <2>1. 0 \in 0..RATE_LIMIT_MAX
    BY HttpAssumption
  <2> QED
    BY <1>1, <2>1 DEF WindowEnds, ServerInv, ServerTypeOK, respVars, dbVars, ResponseShape, InFlight,
                      EndIsLast, Ended, TurnsKept
<1>2. ASSUME NEW r \in Requests, Serve(r) PROVE ServerInv'
  BY <1>2, ArriveInv, LoadInv, DeltaInv, StoreInv, FinishInv, FailRunInv, TimeoutInv DEF Serve
<1>3. ASSUME NEW s \in Sessions, DeleteSession(s) PROVE ServerInv'
  BY <1>3, DeleteSessionInv
<1> QED
  BY <1>1, <1>2, <1>3 DEF ServerNext

-----------------------------------------------------------------------------
\* The client's half of TypeOK.
ClientTypeOK ==
  /\ view \in {"chat", "sessions"} /\ chat \in Sessions
  /\ streaming \in BOOLEAN /\ strayed \in BOOLEAN
  /\ messages \in Seq([req : Requests, text : SUBSET Requests])
  /\ partial \subseteq Requests /\ finalized \subseteq reading
  /\ ctrl \in 0..MaxRequests /\ pageReq \in 0..MaxRequests

\* While no reader has strayed: there is one, that of the mounted InputBar, the buffer is
\* its own, and the message that is streaming is the one it was started for.
OneReader ==
  ~strayed => /\ reading \subseteq {ctrl}
              /\ reading # {} => partial \subseteq {ctrl}
              /\ streaming => messages # <<>>
              /\ streaming /\ reading # {} => messages[Len(messages)].req = ctrl

ClientInv == ClientTypeOK /\ OneReader /\ TextIsOwn

IInv == ServerInv /\ ClientInv

-----------------------------------------------------------------------------
\* A request that is sent, and readers that are stopped, leave the server as it was.
LEMMA SendInv ==
  ASSUME ServerInv, NEW r \in Requests, NEW s \in Sessions, NEW nowOpen \in SUBSET Requests,
         Send(r, s, nowOpen)
  PROVE  ServerInv' /\ open' = nowOpen
<1> USE DEF ServerInv, Send, dbVars
<1>1. ServerTypeOK'
  BY DEF ServerTypeOK
<1>2. ResponseShape'
  BY DEF ServerTypeOK, ResponseShape, InFlight
<1>3. EndIsLast'
  BY DEF ServerTypeOK, EndIsLast, Ended
<1>4. TurnsKept'
  <2> SUFFICES ASSUME NEW q \in Requests, rpc'[q] = "stored" \/ "done" \in Range(resp[q])
               PROVE  q \in Range(db[sess'[q]]) \cup gone
    BY DEF TurnsKept
  <2>1. CASE q = r
    <3>1. resp[r] = <<>> /\ rpc'[r] = "sent"
      BY DEF ServerTypeOK, ResponseShape
    <3> QED
      BY <2>1, <3>1, RangeOfShort
  <2>2. CASE q # r
    BY <2>2 DEF TurnsKept, ServerTypeOK
  <2> QED
    BY <2>1, <2>2
<1> QED
  BY <1>1, <1>2, <1>3, <1>4

LEMMA ReaderInv ==
  ASSUME ServerInv, NEW r \in Requests, UNCHANGED <<rpc, sess, resp, dbVars, rate>>,
         \/ open' = open \ {r} /\ wire' = [wire EXCEPT ![r] = <<>>]
         \/ open' = open /\ r \in open /\ wire[r] # <<>> /\ wire' = [wire EXCEPT ![r] = Tail(@)]
  PROVE  ServerInv'
<1> USE DEF ServerInv, dbVars
<1>1. wire[r] \in Seq(Frames)
  BY DEF ServerTypeOK
<1>2. wire'[r] \in Seq(Frames)
  <2>1. CASE wire' = [wire EXCEPT ![r] = <<>>]
    BY <2>1 DEF ServerTypeOK
  <2>2. CASE wire[r] # <<>> /\ wire' = [wire EXCEPT ![r] = Tail(@)]
    <3>1. Tail(wire[r]) \in Seq(Frames)
      BY <1>1, <2>2
    <3> QED
      BY <2>2, <3>1 DEF ServerTypeOK
  <2> QED
    BY <2>1, <2>2
<1>3. ServerTypeOK'
  BY <1>2 DEF ServerTypeOK
<1>4. ResponseShape' /\ TurnsKept'
  BY DEF ResponseShape, InFlight, TurnsKept
<1>5. EndIsLast'
  <2> SUFFICES ASSUME NEW q \in Requests, NEW i \in DOMAIN wire'[q], wire'[q][i] = "end"
               PROVE  i = Len(wire'[q]) /\ Ended(q)
    BY DEF EndIsLast, Ended
  <2>1. CASE q # r
    BY <2>1 DEF EndIsLast, ServerTypeOK
  <2>2. CASE q = r
    <3>1. wire[r] # <<>> /\ wire'[r] = Tail(wire[r])
      BY <2>2 DEF ServerTypeOK
    <3>2. i \in 1..(Len(wire[r]) - 1) /\ wire[r][i + 1] = "end" /\ Len(wire'[r]) = Len(wire[r]) - 1
      BY <1>1, <2>2, <3>1
    <3>3. i + 1 \in DOMAIN wire[r]
      BY <1>1, <3>2
    <3> QED
      BY <1>1, <2>2, <3>2, <3>3 DEF EndIsLast
  <2> QED
    BY <2>1, <2>2
<1> QED
  BY <1>3, <1>4, <1>5

\* The message of the request that is sent is the last one, and the only reader is its own.
LEMMA SubmitInv ==
  ASSUME IInv, NEW r \in Requests, Submit(r)
  PROVE  IInv'
<1> USE DEF IInv, ClientInv, reading
<1>1. (reading \ Aborted) \cup {r} \in SUBSET Requests
  BY DEF ServerTypeOK, ServerInv
<1>2. ServerInv' /\ reading' = (reading \ Aborted) \cup {r}
  BY <1>1, SendInv DEF Submit, ClientTypeOK
<1>3. [req |-> r, text |-> {}] \in [req : Requests, text : SUBSET Requests]
  OBVIOUS
<1>4. /\ messages' \in Seq([req : Requests, text : SUBSET Requests])
      /\ Len(messages') = Len(messages) + 1 /\ messages'[Len(messages')] = [req |-> r, text |-> {}]
      /\ \A i \in 1..Len(messages) : messages'[i] = messages[i]
  BY <1>3 DEF Submit, ClientTypeOK
<1>5. ClientTypeOK'
  BY <1>2, <1>4 DEF Submit, ClientTypeOK, Requests
<1>6. OneReader'
  BY <1>2, <1>4 DEF Submit, OneReader, Aborted
<1>7. TextIsOwn'
  <2> SUFFICES ASSUME ~strayed, NEW i \in DOMAIN messages'
               PROVE  messages'[i].text \subseteq {messages'[i].req}
    BY DEF TextIsOwn, Submit
  <2>1. CASE i = Len(messages')
    BY <1>4, <2>1
  <2>2. CASE i # Len(messages')
    BY <1>4, <2>2 DEF TextIsOwn, ClientTypeOK
  <2> QED
    BY <2>1, <2>2
<1> QED
  BY <1>2, <1>5, <1>6, <1>7

\* An answer whose text is its own goes into its own message.
LEMMA FinalizeInv ==
  ASSUME IInv, NEW r \in reading, NEW text \in SUBSET Requests, text \subseteq partial \cup {r},
         Finalize(r, text), UNCHANGED <<ctrl, strayed>>, reading' \subseteq reading
  PROVE  /\ messages' \in Seq([req : Requests, text : SUBSET Requests])
         /\ streaming' \in BOOLEAN /\ partial' \subseteq Requests
         /\ OneReader' /\ TextIsOwn'
<1> USE DEF IInv, ClientInv, reading
<1>1. ~strayed => ctrl = r /\ text \subseteq {r}
  BY DEF OneReader
<1>2. CASE r \in finalized
  <2>1. partial' = text /\ UNCHANGED <<messages, streaming>>
    BY <1>2 DEF Finalize
  <2>2. OneReader'
    BY <1>1, <2>1 DEF OneReader
  <2>3. TextIsOwn'
    BY <1>1, <2>1 DEF TextIsOwn, OneReader, ClientTypeOK
  <2> QED
    BY <2>1, <2>2, <2>3 DEF ClientTypeOK
<1>3. CASE r \notin finalized
  <2> DEFINE M == [req : Requests, text : SUBSET Requests]
  <2>1. /\ messages' = [i \in DOMAIN messages |->
                          IF messages[i].req = r THEN [messages[i] EXCEPT !.text = text] ELSE messages[i]]
        /\ streaming' = FALSE /\ partial' = {}
    BY <1>3 DEF Finalize
  <2>2. messages \in Seq(M) /\ DOMAIN messages = 1..Len(messages) /\ Len(messages) \in Nat
    BY DEF ClientTypeOK
  <2>3. \A i \in 1..Len(messages) : messages[i] \in M
    <3> HIDE DEF M
    <3> QED
      BY <2>2
  <2>4. \A i \in 1..Len(messages) :
          /\ messages'[i] \in M /\ messages'[i].req = messages[i].req
          /\ messages'[i].text = IF messages[i].req = r THEN text ELSE messages[i].text
    BY <2>1, <2>2, <2>3
  <2>5. messages' \in Seq(M) /\ DOMAIN messages' = 1..Len(messages)
    BY <2>1, <2>2, <2>4
  <2>6. TextIsOwn'
    BY <1>1, <2>1, <2>2, <2>4, <2>5 DEF TextIsOwn
  <2>7. OneReader'
    BY <2>1 DEF OneReader
  <2> QED
    BY <2>1, <2>5, <2>6, <2>7
<1> QED
  BY <1>2, <1>3

LEMMA ReadEndInv ==
  ASSUME IInv, NEW r \in reading, NEW text \in SUBSET Requests, text \subseteq partial \cup {r},
         Closed(r), Finalize(r, text),
         UNCHANGED <<rpc, sess, resp, dbVars, rate, view, chat, ctrl, pageReq, strayed>>
  PROVE  IInv'
<1> USE DEF IInv, ClientInv, reading
<1>1. r \in Requests
  BY DEF ServerInv, ServerTypeOK
<1>2. ServerInv'
  BY <1>1, ReaderInv DEF Closed
<1>3. finalized' \subseteq reading' /\ reading' \subseteq reading
  BY DEF Closed, ClientTypeOK
<1>4. /\ messages' \in Seq([req : Requests, text : SUBSET Requests])
      /\ streaming' \in BOOLEAN /\ partial' \subseteq Requests
      /\ OneReader' /\ TextIsOwn'
  BY <1>3, FinalizeInv
<1>5. ClientTypeOK'
  BY <1>3, <1>4 DEF ClientTypeOK
<1> QED
  BY <1>2, <1>4, <1>5

LEMMA ReadInv ==
  ASSUME IInv, NEW r \in Requests, Read(r)
  PROVE  IInv'
<1> USE DEF IInv, ClientInv, reading
<1>1. /\ r \in reading /\ wire[r] # <<>>
      /\ UNCHANGED <<rpc, sess, resp, dbVars, rate, view, chat, ctrl, pageReq, strayed>>
  BY DEF Read
<1>2. partial \in SUBSET Requests /\ partial \cup {r} \in SUBSET Requests
  BY DEF ClientTypeOK
<1>3. CASE ReadEnd(r)
  BY <1>1, <1>2, <1>3, ReadEndInv DEF ReadEnd
<1>4. CASE wire' = [wire EXCEPT ![r] = Tail(@)] /\ UNCHANGED open
  <2>1. ServerInv'
    BY <1>1, <1>4, ReaderInv
  <2>2. CASE partial' = partial \cup {r} /\ UNCHANGED <<messages, streaming, finalized>>
    <3>1. ClientTypeOK'
      BY <1>1, <1>2, <1>4, <2>2 DEF ClientTypeOK
    <3>2. OneReader'
      BY <1>1, <1>4, <2>2 DEF OneReader
    <3>3. TextIsOwn'
      BY <1>1, <2>2 DEF TextIsOwn, OneReader, ClientTypeOK
    <3> QED
      BY <2>1, <3>1, <3>2, <3>3
  <2>3. CASE /\ Finalize(r, partial \cup {r}) \/ Finalize(r, partial)
             /\ finalized' = finalized \cup {r}
    <3>1. /\ messages' \in Seq([req : Requests, text : SUBSET Requests])
          /\ streaming' \in BOOLEAN /\ partial' \subseteq Requests
          /\ OneReader' /\ TextIsOwn'
      BY <1>1, <1>2, <1>4, <2>3, FinalizeInv
    <3>2. ClientTypeOK'
      BY <1>1, <1>4, <2>3, <3>1 DEF ClientTypeOK
    <3> QED
      BY <2>1, <3>1, <3>2
  <2> QED
    BY <1>4, <2>2, <2>3 DEF Read, ReadEnd, Closed
<1> QED
  BY <1>3, <1>4 DEF Read

LEMMA BreakInv ==
  ASSUME IInv, NEW r \in Requests, Break(r)
  PROVE  IInv'
<1>1. partial \cup {r} \in SUBSET Requests
  BY DEF IInv, ClientInv, ClientTypeOK
<1> QED
  BY <1>1, ReadEndInv DEF Break

\* Steps of the app that the server does not see.
LEMMA ServerUnchanged ==
  ASSUME ServerInv, UNCHANGED serverVars
  PROVE  ServerInv' /\ open' = open
  BY DEF serverVars, respVars, dbVars, ServerInv, ServerTypeOK, ResponseShape, InFlight, EndIsLast,
         Ended, TurnsKept

\* A new session starts with nothing shown, whatever is still being read.
LEMMA SwitchInv ==
  ASSUME IInv, NEW s \in Sessions, Switch(s), view' \in {"chat", "sessions"}
  PROVE  IInv'
<1> USE DEF IInv, ClientInv, reading
<1>1. ServerInv' /\ open' = open
  BY ServerUnchanged DEF Switch
<1>2. messages' = <<>> /\ strayed' = (reading \ {ctrl} # {}) /\ streaming' = FALSE /\ partial' = {}
  BY DEF Switch
<1>3. strayed' \in BOOLEAN /\ <<>> \in Seq([req : Requests, text : SUBSET Requests])
  BY <1>2
<1>4. ClientTypeOK'
  BY <1>1, <1>2, <1>3 DEF Switch, ClientTypeOK
<1>5. OneReader'
  <2>1. ctrl' = ctrl
    BY DEF Switch
  <2> QED
    BY <1>1, <1>2, <2>1 DEF OneReader
<1>6. TextIsOwn'
  BY <1>2 DEF TextIsOwn
<1> QED
  BY <1>1, <1>4, <1>5, <1>6

LEMMA UserInv ==
  ASSUME IInv, User
  PROVE  IInv'
<1> USE DEF reading
<1>1. ASSUME NEW r \in Requests, PageSubmit(r) PROVE IInv'
  <2> USE DEF IInv, ClientInv
  <2>1. ServerInv' /\ open' = open
    <3>1. Web \in Sessions /\ open \in SUBSET Requests
      BY WebAssumption DEF ServerInv, ServerTypeOK
    <3> QED
      BY <1>1, <3>1, SendInv DEF PageSubmit
  <2>2. ClientTypeOK'
    BY <1>1, <2>1 DEF PageSubmit, ClientTypeOK, storeVars, Requests
  <2>3. OneReader' /\ TextIsOwn'
    BY <1>1, <2>1 DEF PageSubmit, OneReader, TextIsOwn, storeVars
  <2> QED
    BY <2>1, <2>2, <2>3
<1>2. CASE NewSession
  BY <1>2, SwitchInv DEF NewSession
<1>3. ASSUME NEW s \in Sessions, PickSession(s) PROVE IInv'
  BY <1>3, SwitchInv DEF PickSession
<1>4. CASE OpenSessions
  <2> USE DEF IInv, ClientInv
  <2>1. ServerInv' /\ open' = open
    BY <1>4, ServerUnchanged DEF OpenSessions
  <2>2. ClientTypeOK'
    <3>1. strayed' \in BOOLEAN /\ 0 \in 0..MaxRequests
      BY <1>4, HttpAssumption DEF OpenSessions
    <3> QED
      BY <1>4, <2>1, <3>1 DEF OpenSessions, storeVars, ClientTypeOK
  <2>3. OneReader' /\ TextIsOwn'
    BY <1>4, <2>1 DEF OpenSessions, storeVars, OneReader, TextIsOwn, ClientTypeOK
  <2> QED
    BY <2>1, <2>2, <2>3
<1>5. CASE OpenChat
  BY <1>5, ServerUnchanged DEF OpenChat, storeVars, IInv, ClientInv, ClientTypeOK, OneReader, TextIsOwn
<1> QED
  BY <1>1, <1>2, <1>3, <1>4, <1>5, SubmitInv DEF User

\* The server's own steps close no reader's connection and reach the app by the wire alone.
LEMMA ServerNextInv ==
  ASSUME IInv, ServerNext, UNCHANGED clientVars
  PROVE  IInv'
<1> USE DEF IInv, ClientInv, reading
<1>1. open' = open
  BY DEF ServerNext, WindowEnds, Serve, Arrive, Refuse, Load, Delta, Store, Finish, FailRun, Timeout,
         Conclude, Write, Transmit, DeleteSession, respVars
<1>2. ServerInv'
  BY ServerStepInv
<1>3. ClientInv'
  BY <1>1 DEF clientVars, storeVars, ClientTypeOK, OneReader, TextIsOwn
<1> QED
  BY <1>2, <1>3

-----------------------------------------------------------------------------
LEMMA InitInv == Init => IInv
<1> SUFFICES ASSUME Init PROVE IInv
  OBVIOUS
<1> USE DEF Init, ServerInit
<1>1. ServerTypeOK
  <2>1. \A S : <<>> \in Seq(S)
    OBVIOUS
  <2>2. AnySession \in Sessions /\ RATE_LIMIT_MAX \in Nat
    BY WebAssumption, HttpAssumption DEF AnySession
  <2> QED
    BY <2>1, <2>2 DEF ServerTypeOK
<1>2. ResponseShape /\ EndIsLast
  BY DEF ResponseShape, InFlight, EndIsLast
<1>3. TurnsKept
  <2>1. \A r \in Requests : Range(resp[r]) = {} /\ rpc[r] = "unsent"
    BY RangeOfShort
  <2> QED
    BY <2>1 DEF TurnsKept
<1>4. ClientTypeOK
  <2>1. <<>> \in Seq([req : Requests, text : SUBSET Requests]) /\ 0 \in 0..MaxRequests
    BY HttpAssumption
  <2> QED
    BY <2>1, WebAssumption DEF ClientTypeOK, reading
<1>5. OneReader /\ TextIsOwn
  BY DEF OneReader, TextIsOwn, reading
<1> QED
  BY <1>1, <1>2, <1>3, <1>4, <1>5 DEF IInv, ServerInv, ClientInv

LEMMA NextInv == IInv /\ [Next]_vars => IInv'
<1> SUFFICES ASSUME IInv, [Next]_vars PROVE IInv'
  OBVIOUS
<1>1. CASE PageDone
  <2>1. 0 \in 0..MaxRequests
    BY HttpAssumption
  <2> QED
    BY <1>1, <2>1, ServerUnchanged DEF PageDone, storeVars, IInv, ClientInv, ClientTypeOK, OneReader, TextIsOwn,
                                       reading
<1>2. CASE UNCHANGED vars
  BY <1>2, ServerUnchanged DEF vars, clientVars, storeVars, IInv, ClientInv, ClientTypeOK, OneReader, TextIsOwn,
                               reading
<1> QED
  BY <1>1, <1>2, UserInv, ReadInv, BreakInv, ServerNextInv DEF Next

LEMMA Invariance == Spec => []IInv
  BY InitInv, NextInv, PTL DEF Spec

-----------------------------------------------------------------------------
\* The types of the server and of its clients.
THEOREM TypeCorrect == Spec => []TypeOK
<1>1. IInv => TypeOK
  BY DEF IInv, ServerInv, ClientInv, ClientTypeOK, TypeOK
<1> QED
  BY <1>1, Invariance, PTL

\* However the timer, the run, its failure and the client's disconnection interleave
\* (heads/http, main.ts), a response is answered once and ended once, and only a run that the
\* timer cut off writes behind the end, which no client reads.
THEOREM OneAnswer == Spec => []AnsweredOnce
<1>1. IInv => AnsweredOnce
  <2> SUFFICES ASSUME IInv, NEW r \in Requests
               PROVE  /\ \A i, j \in DOMAIN resp[r] : (resp[r][i] = "end") = (resp[r][j] = "end") => i = j
                      /\ rpc[r] = "finished" => Len(resp[r]) = 2
                      /\ \A i \in DOMAIN resp[r] :
                           resp[r][i] = "end" /\ i < Len(resp[r]) => resp[r][i + 1] \in {"done", "error"}
                      /\ \A i \in DOMAIN wire[r] : wire[r][i] = "end" => i = Len(wire[r])
    BY DEF AnsweredOnce
  <2>1. \A i \in DOMAIN wire[r] : wire[r][i] = "end" => i = Len(wire[r])
    BY DEF IInv, ServerInv, EndIsLast
  <2>2. /\ rpc[r] # "finished" => resp[r] = <<>> \/ resp[r] = <<"end">>
        /\ rpc[r] = "finished" => \/ \E f \in {"refused", "done", "error"} : resp[r] = <<f, "end">>
                                  \/ \E f \in {"done", "error"} : resp[r] = <<"end", f>>
    BY DEF IInv, ServerInv, ServerTypeOK, ResponseShape, InFlight
  <2>3. CASE resp[r] = <<>>
    BY <2>1, <2>2, <2>3
  <2>4. CASE resp[r] = <<"end">>
    BY <2>1, <2>2, <2>4
  <2>5. ASSUME NEW f \in {"refused", "done", "error"},
               resp[r] = <<f, "end">> \/ (f # "refused" /\ resp[r] = <<"end", f>>)
        PROVE  /\ \A i, j \in DOMAIN resp[r] : (resp[r][i] = "end") = (resp[r][j] = "end") => i = j
               /\ Len(resp[r]) = 2
               /\ \A i \in DOMAIN resp[r] :
                    resp[r][i] = "end" /\ i < Len(resp[r]) => resp[r][i + 1] \in {"done", "error"}
    <3>1. DOMAIN resp[r] = {1, 2} /\ Len(resp[r]) = 2
      BY <2>5
    <3>2. \/ resp[r][1] = f /\ resp[r][2] = "end"
          \/ resp[r][1] = "end" /\ resp[r][2] = f /\ f # "refused"
      BY <2>5
    <3>3. f # "end"
      OBVIOUS
    <3> QED
      BY <3>1, <3>2, <3>3
  <2> QED
    BY <2>1, <2>2, <2>3, <2>4, <2>5
<1> QED
  BY <1>1, Invariance, PTL

\* "done" is written for a turn that SqliteMemory.append has stored, and no other run's upsert
\* or DELETE takes a turn out of the table unnoticed.
THEOREM DoneIsStored == Spec => []DoneMeansStored
<1>1. IInv => DoneMeansStored
  BY DEF IInv, ServerInv, TurnsKept, DoneMeansStored
<1> QED
  BY <1>1, Invariance, PTL

\* The app's one buffer (apps/web, chat.ts) never puts a piece of one answer into another,
\* but for an answer whose InputBar was unmounted.
THEOREM TextsDoNotMix == Spec => []TextIsOwn
<1>1. IInv => TextIsOwn
  BY DEF IInv, ClientInv
<1> QED
  BY <1>1, Invariance, PTL
=============================================================================
