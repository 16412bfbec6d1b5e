---------------------------- MODULE MessageQueue ----------------------------
(***************************************************************************)
(* createMessageQueue (packages/api/src/create-message-queue.ts): a push   *)
(* source turned into something `for await` can read.  JavaScript runs     *)
(* each of push, end, next and return to completion, so each is one        *)
(* action.  A call of next() returns a promise; answers[k] is what the     *)
(* promise of the k-th call holds, Pending while that consumer is parked.  *)
(***************************************************************************)
EXTENDS Naturals, Sequences

CONSTANTS
  Values,      \* what a producer may push (any value, `undefined` included)
  Errors,      \* what end(error) may be given
  NoError,     \* the `undefined` of end() and of an unset failure
  MaxSent,     \* bound: accepted pushes
  MaxAsked     \* bound: calls of next()

ASSUME QueueAssumption ==
  /\ NoError \notin Errors
  /\ MaxSent \in Nat
  /\ MaxAsked \in Nat

VARIABLES
  buffered,    \* values pushed that no consumer has taken
  waiting,     \* the parked calls of next(), oldest first
  failure,     \* the error the stream ended with, or NoError
  ended,       \* no push is accepted any more
  answers,     \* answers[k]: the promise of the k-th call of next()
  sent         \* history: the values accepted and not dropped by return()

vars == <<buffered, waiting, failure, ended, answers, sent>>

Pending   == [kind |-> "pending"]
Value(v)  == [kind |-> "value", value |-> v]
Done      == [kind |-> "done"]
Failed(e) == [kind |-> "failed", error |-> e]

Answers == {Pending, Done} \cup {Value(v) : v \in Values}
                           \cup {Failed(e) : e \in Errors}

Init ==
  /\ buffered = <<>>
  /\ waiting = <<>>
  /\ failure = NoError
  /\ ended = FALSE
  /\ answers = <<>>
  /\ sent = <<>>

(***************************************************************************)
(* push(value): dropped once ended; handed to the oldest parked consumer   *)
(* if there is one, otherwise buffered.                                    *)
(***************************************************************************)

PushWaiter(v) ==
  /\ waiting # <<>>
  /\ answers' = [answers EXCEPT ![Head(waiting)] = Value(v)]
  /\ waiting' = Tail(waiting)
  /\ UNCHANGED buffered

PushBuffer(v) ==
  /\ waiting = <<>>
  /\ buffered' = Append(buffered, v)
  /\ UNCHANGED <<answers, waiting>>

Push(v) ==
  /\ ~ended
  /\ Len(sent) < MaxSent
  /\ sent' = Append(sent, v)
  /\ PushWaiter(v) \/ PushBuffer(v)
  /\ UNCHANGED <<failure, ended>>

(***************************************************************************)
(* end(error): a no-op once ended; otherwise every parked consumer is      *)
(* released, rejected when there is an error and done when there is none.  *)
(***************************************************************************)
Parked == {waiting[i] : i \in 1..Len(waiting)}

Closing(e) == IF e = NoError THEN Done ELSE Failed(e)

\* Mutation: parked consumers always released as done (the defect lines 30-35
\* tell of).
ReleaseAsDone(e) == [k \in DOMAIN answers |->
                       IF k \in Parked THEN Done ELSE answers[k]]

Release(e) == [k \in DOMAIN answers |->
                 IF k \in Parked THEN Closing(e) ELSE answers[k]]

End(e) ==
  /\ ~ended
  /\ ended' = TRUE
  /\ failure' = e
  /\ answers' = Release(e)
  /\ waiting' = <<>>
  /\ UNCHANGED <<buffered, sent>>

(***************************************************************************)
(* next(): a buffered value first, then the failure, then the end; a call  *)
(* that finds none of them parks.                                          *)
(***************************************************************************)
NextBuffered ==
  /\ buffered # <<>>
  /\ answers' = Append(answers, Value(Head(buffered)))
  /\ buffered' = Tail(buffered)
  /\ UNCHANGED waiting

\* Mutation: the end is reported before the buffer is drained.
NextEndedAtOnce ==
  /\ ended
  /\ answers' = Append(answers, Closing(failure))
  /\ UNCHANGED <<buffered, waiting>>

NextEnded ==
  /\ buffered = <<>>
  /\ ended
  /\ answers' = Append(answers, Closing(failure))
  /\ UNCHANGED <<buffered, waiting>>

NextParked ==
  /\ buffered = <<>>
  /\ ~ended
  /\ answers' = Append(answers, Pending)
  /\ waiting' = Append(waiting, Len(answers) + 1)
  /\ UNCHANGED buffered

Ask ==
  /\ Len(answers) < MaxAsked
  /\ NextBuffered \/ NextEnded \/ NextParked
  /\ UNCHANGED <<failure, ended, sent>>

(***************************************************************************)
(* return(), where `break` out of a `for await` lands: what is buffered is *)
(* dropped, then end() without an error.  `sent` forgets what it dropped,  *)
(* which is the tail no call of next() was given.                          *)
(***************************************************************************)
Return ==
  /\ buffered' = <<>>
  /\ sent' = SubSeq(sent, 1, Len(sent) - Len(buffered))
  /\ IF ended
     THEN UNCHANGED <<ended, answers, waiting>>
     ELSE /\ ended' = TRUE
          /\ answers' = Release(NoError)
          /\ waiting' = <<>>
  /\ UNCHANGED failure

Next ==
  \/ \E v \in Values : Push(v)
  \/ \E e \in Errors \cup {NoError} : End(e)
  \/ Ask
  \/ Return

Spec == Init /\ [][Next]_vars

-----------------------------------------------------------------------------
(***************************************************************************)
(* Properties.                                                             *)
(***************************************************************************)

TypeOK ==
  /\ buffered \in Seq(Values)
  /\ sent \in Seq(Values)
  /\ answers \in Seq(Answers)
  /\ waiting \in Seq(Nat)
  /\ failure \in Errors \cup {NoError}
  /\ ended \in BOOLEAN

\* What the promise of the k-th next() has to hold: the k-th value that was
\* accepted, and past the last one the way the stream ended, if it did.
Owed(k) ==
  IF k <= Len(sent) THEN Value(sent[k])
  ELSE IF ended THEN Closing(failure) ELSE Pending

\* Every consumer is given exactly what the pushes owe it, in the order the
\* calls were made: no value is lost, duplicated or reordered whichever of push
\* and next() came first, a close that races the last message does not swallow
\* it (lines 51-53), and a failure never reads as a clean end (lines 30-35).
AnswersOwed == \A k \in 1..Len(answers) : answers[k] = Owed(k)

\* A promise settles once: whatever a call of next() was told, no later push,
\* end or return takes back, not even the return() that drops the buffer.
SettlesOnce ==
  [][\A k \in DOMAIN answers : answers[k] # Pending => answers'[k] = answers[k]]_vars

\* The stronger, inductive form: what is buffered is the undelivered tail of
\* what was accepted, and the parked calls are the undelivered tail of the
\* calls, so at most one of the two is non-empty.
Tails ==
  /\ Len(answers) <= Len(sent) =>
        /\ Len(sent) = Len(answers) + Len(buffered)
        /\ waiting = <<>>
  /\ Len(answers) > Len(sent) =>
        /\ buffered = <<>>
        /\ ~ended => Len(answers) = Len(sent) + Len(waiting)
  /\ ended => waiting = <<>>
  /\ \A i \in 1..Len(buffered) : buffered[i] = sent[Len(answers) + i]
  /\ \A i \in 1..Len(waiting) : waiting[i] = Len(sent) + i

FailureOnlyAtEnd == ~ended => failure = NoError

IInv == TypeOK /\ Tails /\ FailureOnlyAtEnd /\ AnswersOwed

(***************************************************************************)
(* The abstract stream this queue implements.                              *)
(***************************************************************************)
Stream == INSTANCE MessageStream
            WITH Values <- Values, Errors <- Errors, NoError <- NoError,
                 sent <- sent, answers <- answers, ended <- ended,
                 failure <- failure
StreamSpec == Stream!Spec
=============================================================================
