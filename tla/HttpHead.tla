------------------------------- MODULE HttpHead -------------------------------
(***************************************************************************)
(* The HTTP head (heads/http): POST /chat streams one agent run per        *)
(* request over SSE; sessions live in SQLite and can be listed and         *)
(* deleted.  A timer ends a response after two minutes, the run behind it  *)
(* goes on.  Requests are numbered in the order in which they are sent.    *)
(***************************************************************************)
EXTENDS Naturals, Sequences, FiniteSets, Functions

CONSTANTS Sessions,        \* session ids
          MaxRequests,     \* bound: chat requests
          MaxDeltas,       \* bound: tokens of one answer on their way
          RATE_LIMIT_MAX

ASSUME HttpAssumption ==
  MaxRequests \in Nat /\ MaxDeltas \in Nat /\ RATE_LIMIT_MAX \in Nat \ {0}

Requests == 1..MaxRequests

VARIABLES
  rpc,      \* where each request is
  sess,     \* the session it asks for
  open,     \* the requests whose client is still connected
  wire,     \* the frames on their way to its client
  resp,     \* ghost: the writes of its response other than tokens, and its end, in order
  hist,     \* the transcript its run has loaded
  db,       \* the transcripts table: the turns of each session
  rate,     \* the count of the client's rate-limit entry; 0: no entry, or an expired one
  gone      \* ghost: turns that another run's upsert or a DELETE took out of the table

dbVars == <<db, hist, gone>>
respVars == <<open, wire, resp>>
serverVars == <<rpc, sess, respVars, dbVars, rate>>

AnySession == CHOOSE s \in Sessions : TRUE     \* of a request that is not there yet

ServerInit ==
  /\ rpc = [r \in Requests |-> "unsent"]
  /\ sess = [r \in Requests |-> AnySession]
  /\ open = {}
  /\ wire = [r \in Requests |-> <<>>]
  /\ resp = [r \in Requests |-> <<>>]
  /\ hist = [r \in Requests |-> <<>>]
  /\ db = [s \in Sessions |-> <<>>]
  /\ rate = 0 /\ gone = {}

\* The timer and the run both end the response: whoever is second finds writableEnded.
Ended(r) == "end" \in Range(resp[r])

\* res.write and res.end: what is written to a response whose client has left is lost.
Transmit(r, frames) ==
  /\ wire' = [wire EXCEPT ![r] = IF r \in open THEN @ \o frames ELSE <<>>]
  /\ UNCHANGED open

\* Frames that are not tokens.
Write(r, frames) == Transmit(r, frames) /\ resp' = [resp EXCEPT ![r] = @ \o frames]

\* A bug: the response is ended without a look at writableEnded.
Conclude_Again(r, frame) == Write(r, <<frame, "end">>)

\* The last frame of streamChat is written whether or not the timer has ended the response,
\* and reaches no client then; only res.end looks at writableEnded.
Conclude(r, frame) ==
  IF Ended(r)
  THEN resp' = [resp EXCEPT ![r] = Append(@, frame)] /\ UNCHANGED <<open, wire>>
  ELSE Write(r, <<frame, "end">>)

\* writeHead(4xx) and end.
Refuse(r) == Write(r, <<"refused", "end">>) /\ rpc' = [rpc EXCEPT ![r] = "finished"]

-----------------------------------------------------------------------------
\* A bug: one request too many.
Admit_OneMore == rate <= RATE_LIMIT_MAX /\ rate' = rate + 1

\* checkRateLimit counts the request, in a new window or in the one that is open.
Admit == rate < RATE_LIMIT_MAX /\ rate' = rate + 1

\* The window is over: the entry has expired, and the periodic clean-up may drop it.  (Bound:
\* while there is still a request to count.)
WindowEnds == /\ rate > 0 /\ \E r \in Requests : rpc[r] \in {"unsent", "sent"}
              /\ rate' = 0
              /\ UNCHANGED <<rpc, sess, respVars, dbVars>>

\* A chat request: over the limit (429); counted and then refused for its token, its body or
\* its fields (401, 413, 400); or let in: the timer is set and the SSE header written.
Arrive(r) ==
  /\ rpc[r] = "sent"
  /\ \/ rate >= RATE_LIMIT_MAX /\ Refuse(r) /\ UNCHANGED rate
     \/ Admit /\ Refuse(r)
     \/ Admit /\ rpc' = [rpc EXCEPT ![r] = "loading"] /\ UNCHANGED respVars
  /\ UNCHANGED <<sess, dbVars>>

\* The run is between streamChat's start and its end: the timer is armed.
InFlight(r) == rpc[r] \in {"loading", "running", "stored"}

\* SqliteMemory.load: no row, no messages.
Load(r) == /\ rpc[r] = "loading"
           /\ hist' = [hist EXCEPT ![r] = db[sess[r]]]
           /\ rpc' = [rpc EXCEPT ![r] = "running"]
           /\ UNCHANGED <<sess, respVars, db, gone, rate>>

\* assembleStream: a text delta is passed to onToken, which writes a frame, to an ended
\* response in vain.
Delta(r) == /\ rpc[r] = "running"
            /\ Len(SelectSeq(wire[r], LAMBDA f : f = "delta")) < MaxDeltas
            /\ IF Ended(r) THEN UNCHANGED respVars ELSE Transmit(r, <<"delta">>) /\ UNCHANGED resp
            /\ UNCHANGED <<rpc, sess, dbVars, rate>>

\* SqliteMemory.append: an upsert of the whole transcript.
Store(r) ==
  LET s == sess[r] IN
  /\ rpc[r] = "running"
  /\ db' = [db EXCEPT ![s] = Append(hist[r], r)]
  /\ gone' = gone \cup (Range(db[s]) \ Range(hist[r]))
  /\ rpc' = [rpc EXCEPT ![r] = "stored"]
  /\ hist' = [hist EXCEPT ![r] = <<>>]
  /\ UNCHANGED <<sess, respVars, rate>>

\* agent.run resolves: the done frame; the timer is cleared and the response ended.
Finish(r) == /\ rpc[r] = "stored"
             /\ Conclude(r, "done")
             /\ rpc' = [rpc EXCEPT ![r] = "finished"]
             /\ UNCHANGED <<sess, dbVars, rate>>

\* A bug: the finally of streamChat writes the done frame, after an error as well.
FailRun_Done(r) == /\ InFlight(r)
                   /\ Conclude(r, "done")
                   /\ rpc' = [rpc EXCEPT ![r] = "finished"]
                   /\ hist' = [hist EXCEPT ![r] = <<>>]
                   /\ UNCHANGED <<sess, db, gone, rate>>

\* agent.run rejects: the error frame instead.
FailRun(r) == /\ InFlight(r)
              /\ Conclude(r, "error")
              /\ rpc' = [rpc EXCEPT ![r] = "finished"]
              /\ hist' = [hist EXCEPT ![r] = <<>>]
              /\ UNCHANGED <<sess, db, gone, rate>>

\* REQUEST_TIMEOUT_MS after the header: the response ends, the run goes on.
Timeout(r) == /\ InFlight(r) /\ ~Ended(r)
              /\ Write(r, <<"end">>)
              /\ UNCHANGED <<rpc, sess, dbVars, rate>>

\* DELETE /sessions/:id, under whatever runs of the session are in flight.
DeleteSession(s) ==
  /\ db[s] # <<>>
  /\ gone' = gone \cup Range(db[s])
  /\ db' = [db EXCEPT ![s] = <<>>]
  /\ UNCHANGED <<rpc, sess, respVars, hist, rate>>

\* What GET /sessions answers now, or answered before the rows went.
Listable == {s \in Sessions : db[s] # <<>> \/ \E r \in gone : sess[r] = s}

Serve(r) == \/ Arrive(r) \/ Load(r) \/ Delta(r) \/ Store(r)
            \/ Finish(r) \/ FailRun(r) \/ Timeout(r)

ServerNext == WindowEnds \/ (\E r \in Requests : Serve(r)) \/ (\E s \in Sessions : DeleteSession(s))

-----------------------------------------------------------------------------
Frames == {"refused", "delta", "done", "error", "end"}

ServerTypeOK ==
  /\ rpc \in [Requests -> {"unsent", "sent", "loading", "running", "stored", "finished"}]
  /\ sess \in [Requests -> Sessions]
  /\ open \subseteq Requests
  /\ resp \in [Requests -> Seq(Frames \ {"delta"})] /\ wire \in [Requests -> Seq(Frames)]
  /\ \A r \in Requests : wire[r] # <<>> => r \in open
  /\ hist \in [Requests -> Seq(Requests)] /\ db \in [Sessions -> Seq(Requests)]
  /\ gone \subseteq Requests /\ rate \in 0..RATE_LIMIT_MAX

\* Whatever the timer, the run and its failure do in which order, a response gets one answer
\* and is ended once: a finished one has both, and what was written behind the end is the
\* answer of a run that its timer had cut off.  No client reads anything after the end.
AnsweredOnce ==
  \A r \in Requests :
    /\ \A i, j \in DOMAIN resp[r] : (resp[r][i] = "end") = (resp[r][j] = "end") => i = j
    /\ rpc[r] = "finished" => Len(resp[r]) = 2
    /\ \A i \in DOMAIN resp[r] :
         resp[r][i] = "end" /\ i < Len(resp[r]) => resp[r][i + 1] \in {"done", "error"}
    /\ \A i \in DOMAIN wire[r] : wire[r][i] = "end" => i = Len(wire[r])

\* The turn of a run that writes "done", to a client that still listens or in vain, is in the
\* table, unless a run of the same session that had loaded earlier stored over it or the
\* session was deleted meanwhile.
DoneMeansStored ==
  \A r \in Requests : "done" \in Range(resp[r]) => r \in Range(db[sess[r]]) \cup gone
=============================================================================
