----------------------------- MODULE MessageLink -----------------------------
(***************************************************************************)
(* A client channel (connect-messages.ts) and a server channel             *)
(* (bind-messages.ts) at the two ends of one connection.  The client's is  *)
(* fed by a pump that drains connection.messages, the server's by the      *)
(* socket's listeners.  Each direction of the wire is in order; Bye is a   *)
(* close handshake frame.  The connection that has opened behaves as in    *)
(* RealtimeConnection.  An event of the transport is a task of the event   *)
(* loop: the pump and the handlers of promises have run before it.         *)
(***************************************************************************)
EXTENDS Naturals, Sequences, Functions, Failures

CONSTANTS
  MaxDown,       \* bound: frames the server sends
  MaxUp,         \* bound: frames the client sends
  MaxReads       \* bound: calls of next() on the client's messages

ASSUME LinkAssumption ==
  /\ Errors # {}
  /\ {MaxDown, MaxUp, MaxReads} \subseteq Nat

VARIABLES
  inSent, inAnswers, inEnded, inFailure,      \* connection.messages
  pumped,        \* answers of connection.messages the pump has dealt with
  pumpOver,      \* the client's for await has ended
  cliSent, cliAnswers, cliEnded, cliFailure,  \* the client's messages
  binSent, binAnswers, binEnded, binFailure,  \* the client's binary
  srvSent, srvAnswers, srvEnded, srvFailure,  \* the server's messages
  srvBinSent, srvBinAnswers, srvBinEnded, srvBinFailure,
  quic,          \* the connection is a WebTransport one
  down, up,      \* the wire: frames, then perhaps Bye
  broken,        \* the link has failed
  cDone, sDone,  \* each end has asked to close
  cClosed, sClosed,  \* each end has had its close event
  closedSeen,    \* the handler of connection.closed has run
  left,          \* history: the client's program left its loop
  pardoned,      \* history: bad frames the client's hook ignored
  downLog, upLog \* history: what each end sent

Kinds == {"valid", "bad", "binary"}
Frames == [id : 1..(MaxDown + MaxUp), kind : Kinds]
Bye == [id |-> 0, kind |-> "bye"]

In == INSTANCE MessageStream
        WITH Values <- Frames, sent <- inSent, answers <- inAnswers,
             ended <- inEnded, failure <- inFailure

Client == INSTANCE MessageChannel
            WITH ReceiveBinary <- TRUE, sent <- cliSent, answers <- cliAnswers,
                 ended <- cliEnded, failure <- cliFailure

Server == INSTANCE MessageChannel
            WITH ReceiveBinary <- FALSE, sent <- srvSent,
                 answers <- srvAnswers, ended <- srvEnded,
                 failure <- srvFailure, binSent <- srvBinSent,
                 binAnswers <- srvBinAnswers, binEnded <- srvBinEnded,
                 binFailure <- srvBinFailure

inbox == <<inSent, inAnswers, inEnded, inFailure>>
client == <<cliSent, cliAnswers, cliEnded, cliFailure,
            binSent, binAnswers, binEnded, binFailure>>
server == <<srvSent, srvAnswers, srvEnded, srvFailure,
            srvBinSent, srvBinAnswers, srvBinEnded, srvBinFailure>>
pump == <<pumped, pumpOver>>
wire == <<down, up>>
ends == <<cDone, sDone, cClosed, sClosed>>
logs == <<left, pardoned, downLog, upLog>>
vars == <<inbox, pump, client, server, wire, ends, quic, broken, closedSeen, logs>>

Init ==
  /\ In!Init /\ Client!Init /\ Server!Init
  /\ pumped = 0 /\ pumpOver = FALSE
  /\ quic \in BOOLEAN
  /\ down = <<>> /\ up = <<>> /\ broken = FALSE
  /\ cDone = FALSE /\ sDone = FALSE /\ cClosed = FALSE /\ sClosed = FALSE
  /\ closedSeen = FALSE /\ left = FALSE /\ pardoned = {}
  /\ downLog = <<>> /\ upLog = <<>>

-----------------------------------------------------------------------------
(***************************************************************************)
(* The client.                                                             *)
(***************************************************************************)
EndInbox(e) == IF inEnded THEN UNCHANGED inbox ELSE In!Close(e)

\* connection.close(): once; WebTransport also ends connection.messages.
CloseConnection ==
  /\ cDone' = TRUE
  /\ up' = IF cDone \/ cClosed \/ broken THEN up ELSE Append(up, Bye)
  /\ IF quic /\ ~cDone THEN EndInbox(NoError) ELSE UNCHANGED inbox

\* The for await of the pump calls next().
PumpAsks ==
  /\ ~pumpOver /\ Len(inAnswers) = pumped
  /\ In!Question
  /\ UNCHANGED <<pump, client, server, wire, ends, quic, broken, closedSeen, logs>>

Answered == ~pumpOver /\ Len(inAnswers) = pumped + 1
Answer == inAnswers[pumped + 1]

\* Mutation: a throw of onInvalid escapes accept(): the pump's catch ends the
\* channel and nothing closes the connection.
PumpTakesThrow(opinion) ==
  /\ Answered /\ Answer.kind = "value"
  /\ pumped' = pumped + 1
  /\ LET f == Answer.value IN
       IF f.kind # "valid" /\ opinion = "throws"
       THEN /\ pumpOver' = TRUE
            /\ \E e \in Errors : Client!EndAll(e)
            /\ UNCHANGED <<cDone, up, inbox, pardoned>>
       ELSE /\ Client!Accept(f, opinion)
            /\ pardoned' = IF f.kind = "bad" /\ opinion = "ignore"
                           THEN pardoned \cup {f.id} ELSE pardoned
            /\ IF Client!Closes(f, opinion) THEN CloseConnection
               ELSE UNCHANGED <<cDone, up, inbox>>
            /\ UNCHANGED pumpOver
  /\ UNCHANGED <<server, down, sDone, cClosed, sClosed, quic, broken,
                 closedSeen, left, downLog, upLog>>

PumpTakes(opinion) ==
  /\ Answered /\ Answer.kind = "value"
  /\ pumped' = pumped + 1
  /\ LET f == Answer.value IN
       /\ Client!Accept(f, opinion)
       /\ pardoned' = IF f.kind = "bad" /\ opinion = "ignore"
                      THEN pardoned \cup {f.id} ELSE pardoned
       /\ IF Client!Closes(f, opinion) THEN CloseConnection
          ELSE UNCHANGED <<cDone, up, inbox>>
  /\ UNCHANGED <<pumpOver, server, down, sDone, cClosed, sClosed, quic, broken,
                 closedSeen, left, downLog, upLog>>

PumpEnds ==
  /\ Answered /\ Answer.kind \in {"done", "failed"}
  /\ pumped' = pumped + 1 /\ pumpOver' = TRUE
  /\ Client!EndAll(IF Answer.kind = "failed" THEN Answer.error ELSE NoError)
  /\ UNCHANGED <<inbox, server, wire, ends, quic, broken, closedSeen, logs>>

\* connection.closed.then(() => endAll())
ClosedHandler ==
  /\ cClosed /\ ~closedSeen
  /\ closedSeen' = TRUE
  /\ Client!EndAll(NoError)
  /\ UNCHANGED <<inbox, pump, server, wire, ends, quic, broken, logs>>

\* The program: send, close, read, and leave the loop.
ClientSends(kind) ==
  /\ ~cDone /\ ~cClosed /\ ~broken /\ Len(upLog) < MaxUp
  /\ LET f == [id |-> MaxDown + Len(upLog) + 1, kind |-> kind] IN
       /\ up' = Append(up, f)
       /\ upLog' = Append(upLog, f)
  /\ UNCHANGED <<inbox, pump, client, server, down, ends, quic, broken,
                 closedSeen, left, pardoned, downLog>>

ClientCloses ==
  /\ ~cDone
  /\ Client!EndAll(NoError)
  /\ CloseConnection
  /\ UNCHANGED <<pump, server, down, sDone, cClosed, sClosed, quic, broken, closedSeen, logs>>

ClientReads ==
  /\ ~left /\ Len(cliAnswers) < MaxReads
  /\ Client!Messages!Question
  /\ UNCHANGED <<binSent, binAnswers, binEnded, binFailure, inbox, pump, server,
                 wire, ends, quic, broken, closedSeen, logs>>

ClientLeaves ==
  /\ ~left
  /\ left' = TRUE
  /\ Client!Messages!Abandon
  /\ UNCHANGED <<binSent, binAnswers, binEnded, binFailure, inbox, pump, server,
                 wire, ends, quic, broken, closedSeen, pardoned, downLog, upLog>>

-----------------------------------------------------------------------------
(***************************************************************************)
(* The connection.                                                         *)
(***************************************************************************)
\* The microtasks have run: the pump is parked, the handler of closed has run.
MicrotasksDone ==
  /\ pumpOver \/ (Len(inAnswers) = pumped + 1 /\ inAnswers[pumped + 1].kind = "pending")
  /\ cClosed => closedSeen

\* A frame reaches the client's connection.  One task may bring several: the
\* frames of a chunk are decoded in one go.
Arrives ==
  /\ down # <<>> /\ Head(down) # Bye /\ ~cClosed
  /\ down' = Tail(down)
  /\ IF inEnded THEN UNCHANGED inbox ELSE In!Send(Head(down))
  /\ UNCHANGED <<pump, client, server, up, ends, quic, broken, closedSeen, logs>>

\* The stream of a WebTransport session rejects the read of its pump.
StreamFails(e) ==
  /\ quic /\ broken /\ ~inEnded /\ MicrotasksDone
  /\ In!Close(e)
  /\ UNCHANGED <<pump, client, server, wire, ends, quic, broken, closedSeen, logs>>

\* The close event: connection.messages end and connection.closed resolves.  A
\* session that fails may settle its stream and its `closed` in one task.
ClientClosed ==
  /\ ~cClosed
  /\ MicrotasksDone \/ inFailure # NoError
  /\ broken \/ (down # <<>> /\ Head(down) = Bye)
  /\ cClosed' = TRUE
  /\ down' = <<>>
  /\ up' = IF cDone \/ broken THEN up ELSE Append(up, Bye)
  /\ EndInbox(NoError)
  /\ UNCHANGED <<pump, client, server, cDone, sDone, sClosed, quic, broken, closedSeen, logs>>

\* The link fails and takes with it what is on the wire.
Breaks ==
  /\ ~broken /\ ~(cClosed /\ sClosed)
  /\ broken' = TRUE
  /\ down' = <<>> /\ up' = <<>>
  /\ UNCHANGED <<inbox, pump, client, server, ends, quic, closedSeen, logs>>

-----------------------------------------------------------------------------
(***************************************************************************)
(* The server.                                                             *)
(***************************************************************************)
CloseSocket ==
  /\ sDone' = TRUE
  /\ down' = IF sDone \/ sClosed \/ broken THEN down ELSE Append(down, Bye)

\* send(), and the binary frames an app sends on the socket itself.
ServerSends(kind) ==
  /\ ~sDone /\ ~sClosed /\ ~broken /\ Len(downLog) < MaxDown
  /\ LET f == [id |-> Len(downLog) + 1, kind |-> kind] IN
       /\ down' = Append(down, f)
       /\ downLog' = Append(downLog, f)
  /\ UNCHANGED <<inbox, pump, client, server, up, ends, quic, broken,
                 closedSeen, left, pardoned, upLog>>

\* The message listener.
ServerAccepts(opinion) ==
  /\ up # <<>> /\ Head(up) # Bye /\ ~sClosed
  /\ up' = Tail(up)
  /\ Server!Accept(Head(up), opinion)
  /\ IF Server!Closes(Head(up), opinion) THEN CloseSocket
     ELSE UNCHANGED <<sDone, down>>
  /\ UNCHANGED <<inbox, pump, client, cDone, cClosed, sClosed, quic, broken, closedSeen, logs>>

\* Mutation: a socket that fails without a close event ends nothing.
ServerClosedByEvent ==
  /\ ~sClosed
  /\ up # <<>> /\ Head(up) = Bye
  /\ sClosed' = TRUE
  /\ up' = <<>>
  /\ down' = IF sDone THEN down ELSE Append(down, Bye)
  /\ Server!EndAll(NoError)
  /\ UNCHANGED <<inbox, pump, client, cDone, sDone, cClosed, quic, broken, closedSeen, logs>>

\* The close listener, and the error listener of a socket that fails.
ServerClosed ==
  /\ ~sClosed
  /\ broken \/ (up # <<>> /\ Head(up) = Bye)
  /\ sClosed' = TRUE
  /\ up' = <<>>
  /\ down' = IF sDone \/ broken THEN down ELSE Append(down, Bye)
  /\ Server!EndAll(NoError)
  /\ UNCHANGED <<inbox, pump, client, cDone, sDone, cClosed, quic, broken, closedSeen, logs>>

ServerCloses ==
  /\ ~sDone
  /\ Server!EndAll(NoError)
  /\ CloseSocket
  /\ UNCHANGED <<inbox, pump, client, up, cDone, cClosed, sClosed, quic, broken, closedSeen, logs>>

\* end(error), which the app calls when its runtime tells it so.
ServerEnds(e) ==
  /\ ~srvEnded
  /\ Server!EndAll(e)
  /\ UNCHANGED <<inbox, pump, client, wire, ends, quic, broken, closedSeen, logs>>

PumpStep == PumpAsks \/ (\E o \in Client!Opinions : PumpTakes(o)) \/ PumpEnds
Transport == Arrives \/ ClientClosed \/ ServerClosed
               \/ \E o \in Server!Opinions : ServerAccepts(o)
Program ==
  \/ \E k \in Kinds : ClientSends(k) \/ ServerSends(k)
  \/ ClientCloses \/ ClientReads \/ ClientLeaves \/ ServerCloses
  \/ \E e \in Errors : ServerEnds(e)
Next ==
  \/ PumpStep \/ ClosedHandler \/ Transport \/ Program \/ Breaks
  \/ \E e \in Errors : StreamFails(e)

\* Microtasks run; the wire delivers what is on it until it breaks.
Fairness ==
  /\ WF_vars(PumpStep) /\ WF_vars(ClosedHandler)
  /\ WF_vars(Arrives) /\ WF_vars(ClientClosed) /\ WF_vars(ServerClosed)
  /\ WF_vars(\E o \in Server!Opinions : ServerAccepts(o))

Spec == Init /\ [][Next]_vars /\ Fairness

-----------------------------------------------------------------------------
(***************************************************************************)
(* Properties.                                                             *)
(***************************************************************************)
\* got holds the first frames of this kind in log, in order and without a gap
\* (the ids of a log are in the order of its frames).
FirstOfKind(got, log, kind) ==
  /\ \A j \in 1..Len(got) : got[j] \in Range(log) /\ got[j].kind = kind
  /\ \A i, j \in 1..Len(got) : i < j => got[i].id < got[j].id
  /\ \A f \in Range(log), j \in 1..Len(got) :
       f.kind = kind /\ f.id < got[j].id => f \in Range(got)

TypeOK ==
  /\ pumped \in 0..Len(inAnswers) /\ Len(inAnswers) <= pumped + 1
  /\ {pumpOver, quic, broken, cDone, sDone, cClosed, sClosed, closedSeen, left}
       \subseteq BOOLEAN
  /\ down \in Seq(Frames \cup {Bye}) /\ up \in Seq(Frames \cup {Bye})
  /\ inSent \in Seq(Frames) /\ cliSent \in Seq(Frames)
  /\ srvSent \in Seq(Frames) /\ srvBinSent = <<>>
  /\ pardoned \subseteq 1..MaxDown

\* Whatever the transport, the hook, and the order of frames, closes and
\* failures: each program is given the valid frames its peer sent, from the
\* first one on, in order and without a gap, and nothing its contract rejects;
\* binary frames never mix with them (connect-messages.ts:24, bind-messages.ts:35).
OnlyWhatWasSent ==
  /\ FirstOfKind(cliSent, downLog, "valid")
  /\ FirstOfKind(binSent, downLog, "binary")
  /\ FirstOfKind(srvSent, upLog, "valid")

Inv == TypeOK /\ OnlyWhatWasSent

\* A frame that breaks the contract takes the connection down unless the hook
\* said to ignore it: a hook that throws or says nothing cannot keep it open,
\* and no frame behind it reaches the program (message-channel.ts:268-283).
ViolationsClose ==
  \A i \in 1..Len(inSent) :
    i <= pumped /\ inSent[i].kind = "bad" /\ inSent[i].id \notin pardoned =>
      /\ cDone /\ cliEnded
      /\ \A j \in 1..Len(cliSent) : cliSent[j].id < inSent[i].id

\* A close asked for by either end, or a link that fails, ends all four streams:
\* no consumer of either end is left parked (bind-messages.ts:159-162).
CloseReachesBoth ==
  (cDone \/ sDone \/ broken) ~>
    (cClosed /\ sClosed /\ cliEnded /\ binEnded /\ srvEnded /\ srvBinEnded)

\* Every valid frame the connection received is handed on before the channel
\* ends, unless the program closed or left, or a bad frame did: the handler of
\* connection.closed (connect-messages.ts:113) ends the messages beside the pump
\* that still drains the connection, and has to find it drained.
CloseKeepsFrames ==
  cliEnded /\ ~cDone /\ ~left =>
    \A i \in 1..Len(inSent) : inSent[i].kind = "valid" => inSent[i] \in Range(cliSent)
=============================================================================
