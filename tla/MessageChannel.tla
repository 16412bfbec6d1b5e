--------------------------- MODULE MessageChannel ---------------------------
(***************************************************************************)
(* createIngest (packages/api/src/message-channel.ts): what both ends of a *)
(* contract channel do with an inbound frame.  The two queues are taken by *)
(* their promise, MessageStream, which MessageQueue implements.  A frame   *)
(* is a record [id, kind]; kind is the verdict of parseMessage on it.      *)
(***************************************************************************)
EXTENDS Naturals, Sequences

CONSTANTS
  Frames,          \* the frames this end may be given
  Errors, NoError,
  ReceiveBinary    \* options.receiveBinary

VARIABLES
  sent, answers, ended, failure,              \* channel.messages
  binSent, binAnswers, binEnded, binFailure   \* channel.binary

Messages == INSTANCE MessageStream WITH Values <- Frames

Binary == INSTANCE MessageStream
            WITH Values <- Frames, sent <- binSent, answers <- binAnswers,
                 ended <- binEnded, failure <- binFailure

messages == <<sent, answers, ended, failure>>
binary == <<binSent, binAnswers, binEnded, binFailure>>
channel == <<messages, binary>>

\* What onInvalid does with a failure: it may decide, return nothing, or throw.
Opinions == {"close", "ignore", "none", "throws"}

\* An unwanted binary stream is ended up front.
Init ==
  /\ Messages!Init
  /\ binSent = <<>> /\ binAnswers = <<>> /\ binFailure = NoError
  /\ binEnded = ~ReceiveBinary

EndAll(e) ==
  /\ IF ended THEN UNCHANGED messages ELSE Messages!Close(e)
  /\ IF binEnded THEN UNCHANGED binary ELSE Binary!Close(e)

\* A throwing hook has no opinion.  A binary frame is foreign traffic, any
\* other failure breaks the contract.
Closes(f, opinion) ==
  /\ f.kind # "valid"
  /\ \/ opinion = "close"
     \/ opinion \in {"none", "throws"} /\ f.kind # "binary"

\* Mutation: a frame the hook pardons is handed to the program.
DeliverPardoned(f, opinion) ==
  /\ ~Closes(f, opinion)
  /\ f.kind # "binary"
  /\ IF ended THEN UNCHANGED messages ELSE Messages!Send(f)
  /\ UNCHANGED binary

\* Mutation: a frame no consumer waits for is dropped.
DeliverIfAsked(f, opinion) ==
  /\ f.kind = "valid"
  /\ IF ended \/ Len(answers) <= Len(sent) THEN UNCHANGED messages
     ELSE Messages!Send(f)
  /\ UNCHANGED binary

Deliver(f, opinion) ==
  /\ f.kind = "valid"
  /\ IF ended THEN UNCHANGED messages ELSE Messages!Send(f)
  /\ UNCHANGED binary

Keep(f, opinion) ==
  /\ f.kind # "valid" /\ ~Closes(f, opinion)
  /\ IF f.kind = "binary" /\ ReceiveBinary /\ ~binEnded
     THEN Binary!Send(f) ELSE UNCHANGED binary
  /\ UNCHANGED messages

\* accept(raw) without the close the caller injects.
Accept(f, opinion) ==
  Deliver(f, opinion) \/ Keep(f, opinion) \/ (Closes(f, opinion) /\ EndAll(NoError))
=============================================================================
