----------------------------- MODULE NodeHandler -----------------------------
(***************************************************************************)
(* One request through toNodeHandler (packages/api/src/to-node-handler.ts) *)
(* and waitForDrain (wait-for-drain.ts): the body is read once and shared, *)
(* the reply is written to a response whose client may leave at any time.  *)
(* Bytes are counted in chunks.                                            *)
(***************************************************************************)
EXTENDS Naturals

CONSTANTS
  Limit,     \* maxBodyBytes
  MaxUpload, \* bound: the chunks the client uploads
  MaxReply   \* bound: the chunks a streaming reply has

ASSUME NodeAssumption == {Limit, MaxUpload, MaxReply} \subseteq Nat

\* What the pipeline's reply may be: `typed` is whether it is raw or its status
\* declares a contentType, `ok` whether its headers validate, or, without headers,
\* whether its body serializes.
ReplyType == [raw : BOOLEAN, typed : BOOLEAN, body : {"none", "whole", "stream"},
              headers : BOOLEAN, ok : BOOLEAN]
ApiReplies ==
  {r \in ReplyType : /\ r.raw => r.typed /\ ~r.headers /\ r.body # "whole"
                     /\ r.typed /\ ~r.headers => r.ok}

\* Written chunk by chunk.  A ReadableStream of a status that is not typed is
\* serialized, as any other value is.
Streams(r) == r.body = "stream" /\ r.typed

VARIABLES
  head,       \* the method is HEAD
  declared,   \* the content-length is past the limit
  upload,     \* incoming: "flowing", "ended" (readableEnded) or "destroyed"
  received,   \* chunks that have arrived
  body,       \* the promise of readBytes: "none", "pending" or how it settled
  pc,         \* where the adapter is
  awaits,     \* the route's code awaits the body
  apiReply,   \* the pipeline's reply
  source,     \* a streaming reply's source: "none", "open", "ended", "failed", "cancelled"
  status,     \* the status line on the wire: 0, 200 (the reply's) or 500
  written,    \* chunks of a streaming reply written
  full,       \* write returned false, and no drain since
  out,        \* outgoing: "open", "ended" (end was called) or "destroyed"
  finished,   \* outgoing.writableFinished
  closed,     \* outgoing has emitted 'close'
  signal      \* "none", "late" (asked for after the close), "armed", "aborted"

request == <<head, declared>>
bodyVars == <<upload, received, body>>
outVars == <<source, status, written, full, out, finished>>
connection == <<closed, signal>>
nodeVars == <<request, bodyVars, pc, awaits, apiReply, outVars, connection>>

NoApiReply == [raw |-> FALSE, typed |-> FALSE, body |-> "none", headers |-> FALSE, ok |-> TRUE]

\* A body parser upstream may have read the stream to its end already.
NodeInit ==
  /\ head \in BOOLEAN /\ declared \in BOOLEAN
  /\ upload \in {"flowing", "ended"}
  /\ received \in 0 .. (IF upload = "ended" THEN MaxUpload ELSE 0)
  /\ body = "none" /\ pc = "called" /\ awaits = FALSE /\ apiReply = NoApiReply
  /\ source = "none" /\ status = 0 /\ written = 0 /\ full = FALSE
  /\ out = "open" /\ finished = FALSE /\ closed = FALSE /\ signal = "none"

-----------------------------------------------------------------------------
(***************************************************************************)
(* The request as the route's code sees it.                                *)
(***************************************************************************)
\* Mutation: only readableEnded is looked at before the listeners are attached.
ReadBytesAborted ==
  IF declared THEN "tooLarge"
  ELSE IF upload = "ended" THEN (IF received > Limit THEN "tooLarge" ELSE "resolved")
  ELSE "pending"

\* readBytes, up to its listeners.
ReadBytes ==
  IF declared THEN "tooLarge"
  ELSE IF upload = "ended" THEN (IF received > Limit THEN "tooLarge" ELSE "resolved")
  ELSE IF upload = "destroyed" THEN "rejected"
  ELSE "pending"

\* readBody, readText or readBytes: the first one reads, all share the promise.
Reads ==
  /\ pc = "handling" /\ ~awaits
  /\ body' = IF body = "none" THEN ReadBytes ELSE body
  /\ awaits' = TRUE
  /\ UNCHANGED <<request, upload, received, pc, apiReply, outVars, connection>>

BodyRead ==
  /\ awaits /\ body # "pending"
  /\ awaits' = FALSE
  /\ UNCHANGED <<request, bodyVars, pc, apiReply, outVars, connection>>

\* request.signal: the listener for 'close' is attached at the first look, by the
\* route's code while it waits too, or by the source of its reply.
AsksSignal ==
  /\ pc \notin {"called", "declined"} /\ signal = "none"
  /\ signal' = IF closed THEN "late" ELSE "armed"
  /\ UNCHANGED <<request, bodyVars, pc, awaits, apiReply, outVars, closed>>

\* api.handle resolves.
Handled ==
  /\ pc = "handling" /\ ~awaits
  /\ apiReply' \in ApiReplies
  /\ source' = IF apiReply'.body = "stream" THEN "open" ELSE "none"
  /\ pc' = "handled"
  /\ UNCHANGED <<request, bodyVars, awaits, status, written, full, out, finished, connection>>

-----------------------------------------------------------------------------
(***************************************************************************)
(* Writing the reply.                                                      *)
(***************************************************************************)
\* The outer catch: the adapter's own 500; or the connection is dropped, where the
\* status line has gone out, past the adapter, or the 500 throws as well.
Answer500 ==
  /\ \/ status' = 500 /\ out' = "ended"
     \/ status' = status /\ out' = "destroyed"
  /\ pc' = "done"
  /\ UNCHANGED <<source, written, full, finished, bodyVars, connection>>

\* api.handle rejects: onError or a formatter threw.
HandleRejects ==
  /\ pc = "handling" /\ ~awaits
  /\ Answer500
  /\ UNCHANGED <<request, awaits, apiReply>>

\* Headers are validated behind an await, what does not serialize throws.
Throws ==
  ~apiReply.ok /\ (apiReply.headers \/ (apiReply.body = "whole" /\ ~apiReply.typed /\ ~head))

Fails ==
  /\ pc = "handled" /\ Throws
  /\ Answer500
  /\ UNCHANGED <<request, awaits, apiReply>>

Sendable == pc = "handled" /\ ~Throws

AnswersHead ==
  /\ Sendable /\ head
  /\ source' = IF source = "open" THEN "cancelled" ELSE source
  /\ status' = 200 /\ out' = "ended" /\ pc' = "done"
  /\ UNCHANGED <<request, bodyVars, awaits, apiReply, written, full, finished, connection>>

AnswersWhole ==
  /\ Sendable /\ ~head /\ ~Streams(apiReply)
  /\ status' = 200 /\ out' = "ended" /\ pc' = "done"
  /\ UNCHANGED <<request, bodyVars, awaits, apiReply, source, written, full, finished, connection>>

StartsPump ==
  /\ Sendable /\ ~head /\ Streams(apiReply)
  /\ status' = 200 /\ pc' = "pumping"
  /\ UNCHANGED <<request, bodyVars, awaits, apiReply, source, written, full, out, finished, connection>>

\* The source yields a chunk; a full buffer is waited for.
Writes ==
  /\ pc = "pumping" /\ source = "open" /\ written < MaxReply /\ ~closed
  /\ written' = written + 1
  /\ full' \in BOOLEAN
  /\ pc' = IF full' THEN "draining" ELSE "pumping"
  /\ UNCHANGED <<request, bodyVars, awaits, apiReply, source, status, out, finished, connection>>

\* Mutation: the error of a closed response is swallowed and the reply ended.
HangsUpEnding ==
  /\ pc' = "done" /\ out' = "ended"
  /\ source' = IF source = "open" THEN "cancelled" ELSE source
  /\ UNCHANGED <<request, bodyVars, awaits, apiReply, status, written, full, finished, connection>>

\* The pump's own catch: the source is cancelled, where it has not failed, for the
\* for-await is left, and the connection dropped; its 'close' comes in a later turn.
HangsUp ==
  /\ pc' = "done" /\ out' = "destroyed"
  /\ source' = IF source = "open" THEN "cancelled" ELSE source
  /\ UNCHANGED <<request, bodyVars, awaits, apiReply, status, written, full, finished, connection>>

\* The source yields a chunk, and write says false because the response has closed:
\* waitForDrain says false at once.  The pump notices no close before that.
WritesClosed ==
  /\ pc = "pumping" /\ source = "open" /\ written < MaxReply /\ closed
  /\ HangsUp

\* waitForDrain says false when the response closes.
Stops == pc = "draining" /\ closed /\ HangsUp

SourceEnds ==
  /\ pc = "pumping" /\ source = "open"
  /\ source' = "ended" /\ out' = "ended" /\ pc' = "done"
  /\ UNCHANGED <<request, bodyVars, awaits, apiReply, status, written, full, finished, connection>>

SourceFails ==
  /\ pc = "pumping" /\ source = "open"
  /\ source' = "failed" /\ pc' = "done" /\ out' = "destroyed"
  /\ UNCHANGED <<request, bodyVars, awaits, apiReply, status, written, full, finished, connection>>

-----------------------------------------------------------------------------
(***************************************************************************)
(* The client and its connection.                                          *)
(***************************************************************************)
\* A chunk, once the body is read; past the limit the socket is torn down, and its
\* 'close' comes in a later turn.
Arrives ==
  /\ upload = "flowing" /\ body = "pending" /\ received < MaxUpload
  /\ received' = received + 1
  /\ IF received' > Limit THEN upload' = "destroyed" /\ body' = "tooLarge"
                          ELSE UNCHANGED <<upload, body>>
  /\ UNCHANGED <<request, pc, awaits, apiReply, outVars, connection>>

UploadEnds ==
  /\ upload = "flowing" /\ body = "pending"
  /\ upload' = "ended" /\ body' = "resolved"
  /\ UNCHANGED <<request, received, pc, awaits, apiReply, outVars, connection>>

\* The adapter has torn the socket down, and 'close' is still to come.
Torn == (upload = "destroyed" \/ out = "destroyed") /\ ~closed

\* Mutation: a reply that has ended is taken for one that is finished.
ClosesIfOpen ==
  /\ ~closed
  /\ closed' = TRUE
  /\ signal' = IF signal = "armed" /\ out = "open" THEN "aborted" ELSE signal
  /\ upload' = IF upload = "flowing" THEN "destroyed" ELSE upload
  /\ body' = IF body = "pending" THEN "rejected" ELSE body
  /\ UNCHANGED <<request, received, pc, awaits, apiReply, outVars>>

\* The response closes, for the client leaves, the adapter has torn the socket down
\* or all of the reply is out.  An upload that is still read is settled, and the
\* signal aborts unless all of the reply has gone out.
Closes ==
  /\ ~closed
  /\ closed' = TRUE
  /\ signal' = IF signal = "armed" /\ ~finished THEN "aborted" ELSE signal
  /\ upload' = IF upload = "flowing" THEN "destroyed" ELSE upload
  /\ body' = IF body = "pending" THEN "rejected" ELSE body
  /\ UNCHANGED <<request, received, pc, awaits, apiReply, outVars>>

\* 'drain': the pump goes on.
Drains ==
  /\ pc = "draining" /\ ~closed /\ ~Torn
  /\ full' = FALSE /\ pc' = "pumping"
  /\ UNCHANGED <<request, bodyVars, awaits, apiReply, source, status, written, out, finished, connection>>

\* The last byte has been handed to the system.
Finishes ==
  /\ out = "ended" /\ ~finished /\ ~closed /\ ~Torn
  /\ finished' = TRUE
  /\ UNCHANGED <<request, bodyVars, pc, awaits, apiReply, source, status, written, full, out, connection>>

\* In front of other middleware, what the API has no route for is passed on.
Declines ==
  /\ pc = "called"
  /\ pc' = "declined"
  /\ UNCHANGED <<request, bodyVars, awaits, apiReply, outVars, connection>>

Accepts ==
  /\ pc = "called"
  /\ pc' = "handling"
  /\ UNCHANGED <<request, bodyVars, awaits, apiReply, outVars, connection>>

Enters == Declines \/ Accepts
RouteStep == Handled \/ HandleRejects
SourceStep == Writes \/ WritesClosed \/ SourceEnds \/ SourceFails
AdapterStep == BodyRead \/ Fails \/ AnswersHead \/ AnswersWhole \/ StartsPump \/ Stops
ClientStep == Arrives \/ UploadEnds \/ Closes \/ Drains \/ Finishes
NodeNext == Enters \/ Reads \/ AsksSignal \/ RouteStep \/ SourceStep \/ AdapterStep \/ ClientStep

\* The route's code comes to its end however often it reads the body, its source
\* to its own, though its client has left and it may never look at the signal; a
\* client that stays uploads and reads to the end; a torn down socket closes.
NodeSpec ==
  /\ NodeInit /\ [][NodeNext]_nodeVars
  /\ WF_nodeVars(Enters) /\ WF_nodeVars(AdapterStep) /\ SF_nodeVars(RouteStep)
  /\ WF_nodeVars(SourceStep) /\ WF_nodeVars(UploadEnds) /\ WF_nodeVars(Drains)
  /\ WF_nodeVars(Torn /\ Closes)

-----------------------------------------------------------------------------
(***************************************************************************)
(* Properties.                                                             *)
(***************************************************************************)
\* Every variable has its type; nothing is streamed ahead of the status line; an
\* adapter that is done has ended the response or dropped it, and has not ended it
\* without a status line; a pump whose buffer is full waits.
NodeTypeOK ==
  /\ head \in BOOLEAN /\ declared \in BOOLEAN /\ awaits \in BOOLEAN
  /\ upload \in {"flowing", "ended", "destroyed"} /\ received \in Nat
  /\ body \in {"none", "pending", "resolved", "tooLarge", "rejected"}
  /\ pc \in {"called", "declined", "handling", "handled", "pumping", "draining", "done"}
  /\ apiReply \in ReplyType
  /\ source \in {"none", "open", "ended", "failed", "cancelled"}
  /\ status \in {0, 200, 500} /\ written \in Nat /\ full \in BOOLEAN
  /\ out \in {"open", "ended", "destroyed"}
  /\ finished \in BOOLEAN /\ closed \in BOOLEAN
  /\ signal \in {"none", "late", "armed", "aborted"}
  /\ (pc \in {"pumping", "draining"} \/ written > 0) => status = 200
  /\ pc = "done" => out # "open" /\ (out = "ended" => status # 0)
  /\ pc = "draining" <=> (full /\ pc # "done")

\* A streamed reply that was cut short, by its source, by a closed connection or
\* by the wait for 'drain', is never ended as if it were whole.
WholeOrBroken ==
  out = "ended" /\ status = 200 /\ Streams(apiReply) /\ ~head => source = "ended"

\* The source of a streamed reply is not left open: it is read to its end, or
\* cancelled, on a HEAD and on a closed connection too.  (The 500 for headers
\* that do not validate leaves it open, and so does a ReadableStream of a status
\* without contentType, which goes out as "{}".)
SourceReleased ==
  pc = "done" /\ status = 200 /\ (apiReply.typed \/ head) => source # "open"

\* A signal that was asked for before the response has closed aborts when it
\* closes, be it that the client leaves, that the upload is cut off past its cap or
\* that the pump drops the connection, unless all of the reply had gone out: one
\* asked for after the socket was torn down as well, and one the source of a
\* streamed reply asks for, to which the pump, waiting for the next chunk, could
\* not tell it.  A signal that has aborted tells of nothing else.  Of one that is
\* first asked for after the response has closed ("late") nothing is said: it never
\* aborts, though types.ts:136 says that it does when the client disconnects.
SignalTells ==
  /\ closed /\ signal = "armed" => finished
  /\ signal = "aborted" => closed /\ ~finished

\* No body past the cap is handed out, whether its length was declared, whether
\* it comes from the socket or from a parser in front.
Capped == body = "resolved" => ~declared /\ received <= Limit

NodeInv == NodeTypeOK /\ WholeOrBroken /\ SourceReleased /\ Capped

\* The adapter comes to an end, whoever leaves, fails or lags behind, and so does
\* every wait for the body.
Ends == <>(pc \in {"declined", "done"})
=============================================================================
