------------------------------- MODULE WebChat --------------------------------
(***************************************************************************)
(* The web app (apps/web) and the page the HTTP head serves (heads/http,   *)
(* web.ts) as clients of the server.  The app keeps one text buffer and    *)
(* one streaming flag for whatever answer is being read.                   *)
(***************************************************************************)
EXTENDS HttpHead

CONSTANTS Web,        \* the session of the served page
          FirstChat   \* the session the app generates at start

ASSUME WebAssumption == Web \in Sessions /\ FirstChat \in Sessions

VARIABLES
  view,        \* the app's route
  chat,        \* chat.ts: sessionId
  messages,    \* chat.ts: the agent messages shown, each with the request it belongs to
  streaming,   \* chat.ts
  partial,     \* chat.ts: partialText, as the set of requests its pieces came from
  finalized,   \* the requests being read that have been finalized
  ctrl,        \* the controller of the mounted InputBar; 0 for none
  pageReq,     \* the request the served page is waiting for; 0 for none
  strayed      \* ghost: an InputBar was unmounted while its answer was being read

reading == open     \* the requests whose reader loop is alive in the app
storeVars == <<chat, messages, streaming, partial>>
clientVars == <<view, storeVars, finalized, ctrl, pageReq, strayed>>
vars == <<serverVars, clientVars>>

Init == /\ ServerInit
        /\ view = "chat" /\ chat = FirstChat
        /\ messages = <<>> /\ streaming = FALSE /\ partial = {}
        /\ finalized = {} /\ ctrl = 0 /\ pageReq = 0 /\ strayed = FALSE

\* fetch("/chat", { input, sessionId }); the connections that are not nowOpen are closed.
Send(r, s, nowOpen) ==
  /\ rpc[r] = "unsent" /\ \A q \in 1..(r - 1) : rpc[q] # "unsent"
  /\ sess' = [sess EXCEPT ![r] = s]
  /\ rpc' = [rpc EXCEPT ![r] = "sent"]
  /\ open' = nowOpen
  /\ wire' = [q \in Requests |-> IF q \in nowOpen THEN wire[q] ELSE <<>>]
  /\ UNCHANGED <<resp, dbVars, rate>>

-----------------------------------------------------------------------------
\* A bug: the controller of the last answer is replaced and not aborted.
Aborted_Kept == {}

\* controllerRef.current?.abort(): the reader of the last answer is stopped.
Aborted == {ctrl} \cap reading

\* InputBar.handleSubmit and sendMessage: the message placeholder is there before the fetch.
Submit(r) ==
  /\ view = "chat" /\ ~streaming
  /\ Send(r, chat, (reading \ Aborted) \cup {r})
  /\ messages' = Append(messages, [req |-> r, text |-> {}])
  /\ streaming' = TRUE /\ partial' = {}
  /\ finalized' = finalized \ Aborted
  /\ ctrl' = r
  /\ UNCHANGED <<view, chat, pageReq, strayed>>

\* finalizeStreaming: the message, if it is still shown, takes the buffered text.
Finalize(r, text) ==
  IF r \in finalized
  THEN partial' = text /\ UNCHANGED <<messages, streaming>>
  ELSE /\ messages' = [i \in DOMAIN messages |->
                         IF messages[i].req = r THEN [messages[i] EXCEPT !.text = text]
                         ELSE messages[i]]
       /\ streaming' = FALSE /\ partial' = {}

\* The reader loop of r is over.
Closed(r) == /\ open' = open \ {r} /\ wire' = [wire EXCEPT ![r] = <<>>]
             /\ finalized' = finalized \ {r}

\* A bug: the stream ends without a done frame, and the fallback is forgotten.
ReadEnd_NoFallback(r) == Closed(r) /\ UNCHANGED <<messages, streaming, partial>>

\* The loop ends with the response; its fallback finalizes.
ReadEnd(r) == Closed(r) /\ Finalize(r, partial)

\* One frame of sendMessage's reader loop.
Read(r) ==
  LET frame == Head(wire[r]) IN
  /\ r \in reading /\ wire[r] # <<>>
  /\ \/ frame = "end" /\ ReadEnd(r)
     \/ /\ frame # "end"
        /\ wire' = [wire EXCEPT ![r] = Tail(@)]
        /\ CASE frame = "delta" -> /\ partial' = partial \cup {r}
                                   /\ UNCHANGED <<messages, streaming, finalized>>
             [] frame = "error" -> /\ Finalize(r, partial \cup {r})
                                   /\ finalized' = finalized \cup {r}
             [] OTHER -> Finalize(r, partial) /\ finalized' = finalized \cup {r}
        /\ UNCHANGED open
  /\ UNCHANGED <<rpc, sess, resp, dbVars, rate, view, chat, ctrl, pageReq, strayed>>

\* The connection breaks: the catch of sendMessage.  The run goes on.
Break(r) ==
  /\ r \in reading
  /\ Closed(r)
  /\ Finalize(r, partial \cup {r})
  /\ UNCHANGED <<rpc, sess, resp, dbVars, rate, view, chat, ctrl, pageReq, strayed>>

-----------------------------------------------------------------------------
\* newSession and setSession: the messages, the flag and the buffer of the old one are dropped;
\* its reader is not stopped.
Switch(s) == /\ chat' = s
             /\ messages' = <<>> /\ streaming' = FALSE /\ partial' = {}
             /\ strayed' = (reading \ {ctrl} # {})
             /\ UNCHANGED <<serverVars, finalized, ctrl, pageReq>>

\* "+ new" in the strip or the tab bar, which also navigates to the chat.
NewSession == /\ \E s \in Sessions \ {Web, chat} :
                   (\A r \in Requests : sess[r] = s => rpc[r] = "unsent") /\ Switch(s)
              /\ view' = "chat"

\* The sessions route: the InputBar is unmounted, and its controller with it.
OpenSessions == /\ view = "chat"
                /\ view' = "sessions"
                /\ ctrl' = 0
                /\ strayed' = (strayed \/ ctrl \in reading)
                /\ UNCHANGED <<serverVars, storeVars, finalized, pageReq>>

\* A row of the list, fetched when the page was mounted, is clicked.
PickSession(s) == /\ view = "sessions" /\ s \in Listable
                  /\ Switch(s)
                  /\ view' = "chat"

\* The chat tab: the InputBar is mounted again, on whatever is streaming.
OpenChat == /\ view = "sessions"
            /\ view' = "chat"
            /\ UNCHANGED <<serverVars, storeVars, finalized, ctrl, pageReq, strayed>>

\* The served page: its button is disabled until the answer has been read.  It shows the
\* frames as they come, and nothing else depends on them: its connection is not in open.
PageSubmit(r) == /\ pageReq = 0
                 /\ Send(r, Web, open)
                 /\ pageReq' = r
                 /\ UNCHANGED <<view, storeVars, finalized, ctrl, strayed>>

\* The page's reader loop has ended with the response, or its connection broke.
PageDone == /\ pageReq # 0
            /\ pageReq' = 0
            /\ UNCHANGED <<serverVars, view, storeVars, finalized, ctrl, strayed>>

User == \/ \E r \in Requests : Submit(r) \/ PageSubmit(r)
        \/ NewSession \/ OpenSessions \/ OpenChat
        \/ \E s \in Sessions : PickSession(s)

Next == \/ User
        \/ \E r \in Requests : Read(r) \/ Break(r)
        \/ PageDone
        \/ ServerNext /\ UNCHANGED clientVars

\* The network delivers, the timer fires, and a ready reader reads.  A run need not end.
Fairness == \A r \in Requests : /\ WF_vars(Arrive(r) /\ UNCHANGED clientVars)
                                /\ WF_vars(Timeout(r) /\ UNCHANGED clientVars)
                                /\ WF_vars(Read(r))

Spec == Init /\ [][Next]_vars /\ Fairness

-----------------------------------------------------------------------------
TypeOK ==
  /\ ServerTypeOK
  /\ view \in {"chat", "sessions"} /\ chat \in Sessions
  /\ streaming \in BOOLEAN /\ strayed \in BOOLEAN
  /\ messages \in Seq([req : Requests, text : SUBSET Requests])
  /\ partial \subseteq Requests /\ finalized \subseteq reading
  /\ ctrl \in 0..MaxRequests /\ pageReq \in 0..MaxRequests

\* The one text buffer of the app never mixes two answers, through new sessions, aborted and
\* late streams: what a message shows came from its own request.  Only an answer that was
\* being read when its InputBar was unmounted is never aborted and can get into another's.
TextIsOwn ==
  strayed \/ \A i \in DOMAIN messages :
               /\ messages[i].text \subseteq {messages[i].req}
               /\ streaming /\ i = Len(messages) => partial \subseteq {messages[i].req}

\* The input is never disabled for ever, not even by a run that hangs: the timer ends the
\* response, and the end of the stream finalizes the message.
StreamingEnds == streaming ~> ~streaming
=============================================================================
