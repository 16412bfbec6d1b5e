------------------------ MODULE RealtimeConnection ------------------------
(***************************************************************************)
(* connectRealtime (packages/api/src/connect-realtime.ts): transports are  *)
(* tried in order, each behind a deadline and the caller's abort signal,   *)
(* and the one that connects feeds a MessageQueue.  attempt is the         *)
(* transport the loop is at, race what Promise.race of withDeadline        *)
(* settled with.  A race settles in one task and the code after its await  *)
(* runs in a microtask (Resume), so other program code (Abort) can come    *)
(* between the two but no event of a transport can.                        *)
(***************************************************************************)
EXTENDS Naturals, Sequences, Failures

CONSTANTS
  Order,       \* options.transports
  MaxFrames,   \* bound: frames that reach the client
  MaxAsked     \* bound: calls of next() on connection.messages

ASSUME RealtimeAssumption ==
  /\ Order \in Seq({"webtransport", "websocket"})
  /\ MaxFrames \in Nat
  /\ MaxAsked \in Nat

VARIABLES
  attempt,     \* index in Order of the transport being tried, 0 before
  phase,       \* "next": top of the loop; "racing"; "failing": in the catch;
               \* "open" and "rejected": what the returned promise settled with
  race,        \* none, pending, won, or why the attempt was lost
  endpoint,    \* endpoint[i]: the session or socket of attempt i
  timer,       \* the deadline's setTimeout is armed
  aborted,     \* options.signal.aborted
  missed,      \* history: the abort came between a won race and Resume
  skipped,     \* history: calls of onFallback that returned
  done,        \* the flag of the connection's close()
  closed,      \* connection.closed has settled
  pumping,     \* WebTransport: the pump still reads the stream
  received,    \* history: frames the open transport delivered
  buffered, waiting, failure, ended, answers, sent  \* connection.messages

Queue == INSTANCE MessageQueue
           WITH Values <- 1..MaxFrames, MaxSent <- MaxFrames

queueVars == <<buffered, waiting, failure, ended, answers, sent>>
loopVars == <<attempt, phase, race, endpoint, timer, skipped>>
openVars == <<done, closed, pumping, received>>
realtimeVars == <<loopVars, aborted, missed, openVars, queueVars>>

Live == {"connecting", "ready", "open"}   \* held and not asked to close
Quic == Order[attempt] = "webtransport"

RealtimeInit ==
  /\ attempt = 0 /\ phase = "next" /\ race = "none"
  /\ endpoint = [i \in 1..Len(Order) |-> "absent"]
  /\ timer = FALSE /\ aborted = FALSE /\ missed = FALSE /\ skipped = 0
  /\ done = FALSE /\ closed = FALSE /\ pumping = FALSE /\ received = 0
  /\ Queue!Init

-----------------------------------------------------------------------------
(***************************************************************************)
(* The loop over the transports.                                           *)
(***************************************************************************)

Begin ==
  /\ phase = "next"
  /\ attempt < Len(Order)
  /\ ~aborted
  /\ attempt' = attempt + 1

\* The constructor returns and withDeadline starts the race ...
Start ==
  /\ Begin
  /\ phase' = "racing" /\ race' = "pending"
  /\ endpoint' = [endpoint EXCEPT ![attempt + 1] = "connecting"]
  /\ timer' = TRUE
  /\ UNCHANGED <<skipped, aborted, missed, openVars, queueVars>>

\* ... or there is none in this runtime, or it throws.
Unavailable ==
  /\ Begin
  /\ phase' = "failing" /\ race' = "unavailable"
  /\ UNCHANGED <<endpoint, timer, skipped, aborted, missed, openVars, queueVars>>

\* Every transport failed, or the signal is seen before the next one.
Rejects ==
  /\ phase = "next"
  /\ aborted \/ attempt = Len(Order)
  /\ phase' = "rejected"
  /\ UNCHANGED <<attempt, race, endpoint, timer, skipped, aborted, missed, openVars, queueVars>>

\* session.ready resolves; createBidirectionalStream() is called.
SessionReady ==
  /\ race = "pending" /\ Quic
  /\ endpoint[attempt] = "connecting"
  /\ endpoint' = [endpoint EXCEPT ![attempt] = "ready"]
  /\ UNCHANGED <<attempt, phase, race, timer, skipped, aborted, missed, openVars, queueVars>>

Opens ==
  /\ race = "pending"
  /\ endpoint[attempt] = IF Quic THEN "ready" ELSE "connecting"
  /\ endpoint' = [endpoint EXCEPT ![attempt] = "open"]
  /\ race' = "won"
  /\ UNCHANGED <<attempt, phase, timer, skipped, aborted, missed, openVars, queueVars>>

\* The handshake is refused, or the stream of a ready session is: the session
\* itself is then still there.
Refused ==
  /\ race = "pending"
  /\ race' = "refused"
  /\ \E s \in {"closed", endpoint[attempt]} \ {"connecting"} :
       endpoint' = [endpoint EXCEPT ![attempt] = s]
  /\ UNCHANGED <<attempt, phase, timer, skipped, aborted, missed, openVars, queueVars>>

Deadline ==
  /\ race = "pending" /\ timer
  /\ race' = "deadline"
  /\ timer' = FALSE
  /\ UNCHANGED <<attempt, phase, endpoint, skipped, aborted, missed, openVars, queueVars>>

\* The code after the await.  A winner gets its listeners and its pump; a
\* loser is closed, since nothing owns it any more.
\* Mutation: the loser is left connecting.
ResumeLeaks ==
  /\ phase = "racing" /\ race # "pending"
  /\ timer' = FALSE
  /\ phase' = IF race = "won" THEN "open" ELSE "failing"
  /\ pumping' = (race = "won" /\ Quic)
  /\ UNCHANGED <<attempt, race, endpoint, skipped, aborted, missed, done, closed, received, queueVars>>

Resume ==
  /\ phase = "racing" /\ race # "pending"
  /\ timer' = FALSE
  /\ phase' = IF race = "won" THEN "open" ELSE "failing"
  /\ endpoint' = IF race = "won" THEN endpoint
                 ELSE [endpoint EXCEPT ![attempt] = "closed"]
  /\ pumping' = (race = "won" /\ Quic)
  /\ UNCHANGED <<attempt, race, skipped, aborted, missed, done, closed, received, queueVars>>

\* The catch of the loop: onFallback may itself throw, which rejects.
Fallback ==
  /\ phase = "failing"
  /\ race' = "none"
  /\ \/ phase' = "next" /\ skipped' = skipped + 1
     \/ phase' = "rejected" /\ UNCHANGED skipped
  /\ UNCHANGED <<attempt, endpoint, timer, aborted, missed, openVars, queueVars>>

-----------------------------------------------------------------------------
(***************************************************************************)
(* The open connection.                                                    *)
(***************************************************************************)
EndQueue(e) == IF ended THEN UNCHANGED queueVars ELSE Queue!End(e)

\* close(): once; a WebTransport connection also ends its messages at once, a
\* WebSocket one when its close event comes.
Closing ==
  IF done THEN UNCHANGED <<done, endpoint, queueVars>>
  ELSE /\ done' = TRUE
       /\ endpoint' = IF endpoint[attempt] = "open"
                      THEN [endpoint EXCEPT ![attempt] = "closing"] ELSE endpoint
       /\ IF Quic THEN EndQueue(NoError) ELSE UNCHANGED queueVars

Close ==
  /\ phase = "open" /\ ~done
  /\ Closing
  /\ UNCHANGED <<attempt, phase, race, timer, skipped, aborted, missed, closed, pumping, received>>

\* controller.abort(): rejects the race under way, closes the open connection.
\* The listener that closes is there from Resume on only.
\* Mutation: the signal is for the attempt only.
AbortAttempt ==
  /\ ~aborted /\ phase # "rejected"
  /\ aborted' = TRUE
  /\ race' = IF race = "pending" THEN "signal" ELSE race
  /\ missed' = (phase = "racing" /\ race = "won")
  /\ UNCHANGED <<done, endpoint, queueVars>>
  /\ UNCHANGED <<attempt, phase, timer, skipped, closed, pumping, received>>

Abort ==
  /\ ~aborted /\ phase # "rejected"
  /\ aborted' = TRUE
  /\ race' = IF race = "pending" THEN "signal" ELSE race
  /\ missed' = (phase = "racing" /\ race = "won")
  /\ IF phase = "open" THEN Closing ELSE UNCHANGED <<done, endpoint, queueVars>>
  /\ UNCHANGED <<attempt, phase, timer, skipped, closed, pumping, received>>

Pushed(v) == IF ended THEN UNCHANGED queueVars ELSE Queue!Push(v)

\* A message event, or a frame the pump decodes.  A frame after the end is
\* dropped by the queue.
Deliver ==
  /\ phase = "open" /\ endpoint[attempt] \in {"open", "closing"}
  /\ Quic => pumping
  /\ received < MaxFrames
  /\ received' = received + 1
  /\ Pushed(received + 1)
  /\ UNCHANGED <<loopVars, aborted, missed, done, closed, pumping>>

\* The stream is over, its read rejects, or a frame cannot be decoded.
StreamOver(e) ==
  /\ phase = "open" /\ pumping
  /\ pumping' = FALSE
  /\ EndQueue(e)
  /\ UNCHANGED <<loopVars, aborted, missed, done, closed, received>>

\* The close event of the socket, or session.closed settling.
\* Mutation: the socket's close resolves `closed` and leaves the messages open.
ClosedOnly ==
  /\ phase = "open" /\ ~closed
  /\ endpoint' = [endpoint EXCEPT ![attempt] = "closed"]
  /\ closed' = TRUE
  /\ UNCHANGED <<attempt, phase, race, timer, skipped, aborted, missed, done, pumping, received, queueVars>>

Closed ==
  /\ phase = "open" /\ ~closed
  /\ endpoint' = [endpoint EXCEPT ![attempt] = "closed"]
  /\ closed' = TRUE
  /\ EndQueue(NoError)
  /\ UNCHANGED <<attempt, phase, race, timer, skipped, aborted, missed, done, pumping, received>>

\* The program reads connection.messages, or leaves its loop.
Consume ==
  /\ phase = "open"
  /\ Queue!Ask \/ Queue!Return
  /\ UNCHANGED <<loopVars, aborted, missed, openVars>>

LoopStep == Start \/ Unavailable \/ Rejects \/ Resume \/ Fallback
TransportStep ==
  \/ SessionReady \/ Opens \/ Refused \/ Deliver \/ Closed
  \/ \E e \in Errors \cup {NoError} : StreamOver(e)
RealtimeNext == LoopStep \/ Deadline \/ TransportStep \/ Abort \/ Close \/ Consume

\* Microtasks run, the timer fires, and a transport that was asked to close
\* says that it has.  Nothing says that a transport ever answers a handshake.
RealtimeFairness ==
  /\ WF_realtimeVars(LoopStep)
  /\ WF_realtimeVars(Deadline)
  /\ WF_realtimeVars(done /\ Closed)

RealtimeSpec == RealtimeInit /\ [][RealtimeNext]_realtimeVars /\ RealtimeFairness

-----------------------------------------------------------------------------
(***************************************************************************)
(* Properties.                                                             *)
(***************************************************************************)
RealtimeTypeOK ==
  /\ attempt \in 0..Len(Order)
  /\ phase \in {"next", "racing", "failing", "open", "rejected"}
  /\ race \in {"none", "pending", "won", "unavailable", "refused", "deadline", "signal"}
  /\ endpoint \in [1..Len(Order) -> Live \cup {"absent", "closing", "closed"}]
  /\ {timer, aborted, missed, done, closed, pumping} \subseteq BOOLEAN
  /\ skipped \in 0..attempt
  /\ received \in 0..MaxFrames
  /\ attempt = 0 => phase \in {"next", "rejected"}
  /\ race = "pending" => phase = "racing"
  /\ pumping => phase = "open"

\* Whatever wins the race, and whenever the losing transport would have
\* connected, no session or socket but the one handed out (or still raced for)
\* is left open, and no timer outlives its race (lines 189-193, 221-232, 321-333).
NothingLeftBehind ==
  /\ \A i \in 1..Len(Order) :
       endpoint[i] \in Live => i = attempt /\ phase \in {"racing", "open"}
  /\ timer => phase = "racing"

\* Until the messages end, what the connection has been given is what its
\* transport delivered, in that order and without a gap, however many calls of
\* next() were waiting; and the k-th call is never given another frame than
\* the k-th.
FramesInOrder ==
  /\ ~ended => sent = [k \in 1..received |-> k]
  /\ \A k \in 1..Len(answers) :
       answers[k].kind \in {"done", "failed"} =>
         ended /\ k > Len(sent)
  /\ \A k \in 1..Len(answers) :
       answers[k].kind = "value" => answers[k].value = k

RealtimeInv == RealtimeTypeOK /\ NothingLeftBehind /\ FramesInOrder

\* The promise settles even when no transport ever answers, since the deadline
\* makes the fallback run (lines 72-81).  And once the signal is aborted it
\* rejects or the connection closes, at whatever moment of whichever attempt,
\* but for an abort that comes after a race is won and before the listener of
\* line 264 or 356 is attached.
Settles ==
  /\ <>(phase \in {"open", "rejected"})
  /\ aborted ~> (phase = "rejected" \/ closed \/ missed)

\* Nobody stays parked on the messages of a connection that is gone, whether
\* the program closed it, the peer did, or its stream is over.
ConsumersReleased ==
  (phase = "open" /\ (done \/ closed \/ (Quic /\ ~pumping)))
    ~> (ended /\ waiting = <<>>)
=============================================================================
