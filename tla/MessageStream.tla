---------------------------- MODULE MessageStream ---------------------------
(***************************************************************************)
(* What a MessageQueue promises, without its buffer and its parked calls.  *)
(* The answers are a function of what was sent, how many times a consumer  *)
(* asked and how the stream ended: the k-th question is answered with the  *)
(* k-th message, and past the last message with the end.                   *)
(***************************************************************************)
EXTENDS Naturals, Sequences

CONSTANTS Values, Errors, NoError

VARIABLES sent, answers, ended, failure

streamVars == <<sent, answers, ended, failure>>

Ending(e) == IF e = NoError THEN [kind |-> "done"]
                            ELSE [kind |-> "failed", error |-> e]

Reply(k, msgs, over, e) ==
  IF k <= Len(msgs) THEN [kind |-> "value", value |-> msgs[k]]
  ELSE IF over THEN Ending(e) ELSE [kind |-> "pending"]

\* n questions, each answered from the state the step leads to.
Replies(n, msgs, over, e) ==
  answers' = [k \in 1..n |-> Reply(k, msgs, over, e)]

Init ==
  /\ sent = <<>>
  /\ answers = <<>>
  /\ ended = FALSE
  /\ failure = NoError

Send(v) ==
  /\ ~ended
  /\ sent' = Append(sent, v)
  /\ Replies(Len(answers), Append(sent, v), ended, failure)
  /\ UNCHANGED <<ended, failure>>

Question ==
  /\ Replies(Len(answers) + 1, sent, ended, failure)
  /\ UNCHANGED <<sent, ended, failure>>

Close(e) ==
  /\ ~ended
  /\ ended' = TRUE
  /\ failure' = e
  /\ Replies(Len(answers), sent, TRUE, e)
  /\ UNCHANGED sent

\* The messages somebody asked for.
Asked == IF Len(answers) < Len(sent) THEN SubSeq(sent, 1, Len(answers))
                                     ELSE sent

\* The consumer leaves: messages nobody asked for are forgotten.
Abandon ==
  /\ ended' = TRUE
  /\ sent' = Asked
  /\ Replies(Len(answers), Asked, TRUE, failure)
  /\ UNCHANGED failure

Next ==
  \/ \E v \in Values : Send(v)
  \/ Question
  \/ \E e \in Errors \cup {NoError} : Close(e)
  \/ Abandon

Spec == Init /\ [][Next]_streamVars
=============================================================================
