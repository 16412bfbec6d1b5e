------------------------- MODULE MessageQueueProofs -------------------------
(***************************************************************************)
(* Proofs about MessageQueue: the inductive invariant IInv, the promise    *)
(* AnswersOwed, SettlesOnce, and that the queue implements MessageStream,  *)
(* for any set of values and errors and any bounds.                        *)
(***************************************************************************)
EXTENDS MessageQueue, SequenceTheorems, TLAPS

LEMMA InitIInv == Init => IInv
<1> SUFFICES ASSUME Init PROVE IInv
  OBVIOUS
<1>1. TypeOK
  BY EmptySeq DEF Init, TypeOK
<1>2. Tails
  BY DEF Init, Tails
<1>3. AnswersOwed
  BY DEF Init, AnswersOwed
<1>4. FailureOnlyAtEnd
  BY DEF Init, FailureOnlyAtEnd
<1> QED BY <1>1, <1>2, <1>3, <1>4 DEF IInv

(***************************************************************************)
(* push                                                                    *)
(***************************************************************************)

\* A pushed value that meets a parked consumer: what changes in the sequences.
LEMMA PushWaiterFacts ==
  ASSUME IInv, NEW v \in Values, Push(v), PushWaiter(v)
  PROVE  /\ answers' \in Seq(Answers) /\ Len(answers') = Len(answers)
         /\ ~ended
         /\ Len(answers) > Len(sent)
         /\ answers'[Len(sent) + 1] = Value(v)
         /\ \A k \in 1..Len(answers) :
              k # Len(sent) + 1 => answers'[k] = answers[k]
         /\ waiting' \in Seq(Nat) /\ Len(waiting') = Len(waiting) - 1
         /\ \A i \in 1..Len(waiting') : waiting'[i] = waiting[i + 1]
<1> USE DEF IInv, TypeOK, Tails
<1>1. /\ waiting # <<>> /\ Len(waiting) \in Nat /\ Len(waiting) > 0
      /\ Head(waiting) = waiting[1]
  BY EmptySeq DEF PushWaiter
<1>2. ~ended /\ Len(answers) > Len(sent)
  <2>1. ~ended
    BY DEF Push
  <2>2. Len(answers) \in Nat /\ Len(sent) \in Nat
    BY LenProperties
  <2> QED BY <1>1, <2>1, <2>2
<1>3. Head(waiting) = Len(sent) + 1 /\ Head(waiting) \in 1..Len(answers)
  <2>1. Len(answers) \in Nat /\ Len(sent) \in Nat
    BY LenProperties
  <2> QED BY <1>1, <1>2, <2>1
<1>4. Value(v) \in Answers
  BY DEF Answers
<1>5. answers' = [answers EXCEPT ![Head(waiting)] = Value(v)]
      /\ waiting' = Tail(waiting)
  BY DEF PushWaiter
<1>6. /\ answers' \in Seq(Answers) /\ Len(answers') = Len(answers)
      /\ \A k \in 1..Len(answers) :
           answers'[k] = IF k = Head(waiting) THEN Value(v) ELSE answers[k]
  BY <1>3, <1>4, <1>5, ExceptSeq
<1>7. /\ waiting' \in Seq(Nat) /\ Len(waiting') = Len(waiting) - 1
      /\ \A i \in 1..Len(waiting') : waiting'[i] = waiting[i + 1]
  BY <1>1, <1>5, HeadTailProperties
<1> QED BY <1>2, <1>3, <1>6, <1>7

\* A value appended to a sequence, in the form the leaves below use.
LEMMA AppendFacts ==
  ASSUME NEW S, NEW s \in Seq(S), NEW x \in S
  PROVE  /\ Append(s, x) \in Seq(S)
         /\ Len(s) \in Nat /\ Len(Append(s, x)) = Len(s) + 1
         /\ Append(s, x)[Len(s) + 1] = x
         /\ \A i \in 1..Len(s) : Append(s, x)[i] = s[i]
BY AppendProperties, LenProperties

LEMMA PushIInv == ASSUME IInv, NEW v \in Values, Push(v) PROVE IInv'
<1>0. /\ buffered \in Seq(Values) /\ sent \in Seq(Values)
      /\ answers \in Seq(Answers) /\ waiting \in Seq(Nat)
      /\ failure \in Errors \cup {NoError} /\ ended \in BOOLEAN
      /\ Len(buffered) \in Nat /\ Len(sent) \in Nat
      /\ Len(answers) \in Nat /\ Len(waiting) \in Nat
      /\ failure' = failure /\ ended' = ended /\ ~ended
  BY LenProperties DEF IInv, TypeOK, Push
<1>F. FailureOnlyAtEnd'
  BY <1>0 DEF IInv, FailureOnlyAtEnd
<1>1. /\ sent' \in Seq(Values) /\ Len(sent') = Len(sent) + 1
      /\ sent'[Len(sent) + 1] = v
      /\ \A i \in 1..Len(sent) : sent'[i] = sent[i]
  BY <1>0, AppendFacts DEF Push
<1>2. CASE PushWaiter(v)
  <2> buffered' = buffered
    BY <1>2 DEF PushWaiter
  <2>1. TypeOK'
    BY <1>0, <1>1, <1>2, PushWaiterFacts DEF TypeOK
  <2>2. Tails'
    <3>1. buffered = <<>>
      BY <1>0, <1>2, PushWaiterFacts DEF Tails, IInv
    <3> QED
      BY <1>0, <1>1, <1>2, <3>1, PushWaiterFacts DEF Tails, IInv
  <2>3. AnswersOwed'
    BY <1>0, <1>1, <1>2, PushWaiterFacts DEF AnswersOwed, Owed, IInv
  <2> QED BY <2>1, <2>2, <2>3, <1>F DEF IInv
<1>3. CASE PushBuffer(v)
  <2>0. /\ answers' = answers /\ waiting' = waiting /\ waiting = <<>>
        /\ Len(answers) <= Len(sent)
    BY <1>0, <1>3 DEF PushBuffer, IInv, Tails
  <2>1. /\ buffered' \in Seq(Values) /\ Len(buffered') = Len(buffered) + 1
        /\ buffered'[Len(buffered) + 1] = v
        /\ \A i \in 1..Len(buffered) : buffered'[i] = buffered[i]
    BY <1>0, <1>3, AppendFacts DEF PushBuffer
  <2>2. TypeOK'
    BY <1>0, <1>1, <2>0, <2>1 DEF TypeOK
  <2>3. Tails'
    <3>1. Len(sent) = Len(answers) + Len(buffered)
      BY <1>0, <2>0 DEF Tails, IInv
    <3>2. \A i \in 1..Len(buffered)' : buffered'[i] = sent'[Len(answers) + i]
      <4> SUFFICES ASSUME NEW i \in 1..Len(buffered)'
                   PROVE  buffered'[i] = sent'[Len(answers) + i]
        OBVIOUS
      <4>1. CASE i = Len(buffered) + 1
        BY <4>1, <1>0, <1>1, <2>1, <3>1
      <4>2. CASE i # Len(buffered) + 1
        <5>1. i \in 1..Len(buffered) /\ Len(answers) + i \in 1..Len(sent)
          BY <4>2, <1>0, <2>1, <3>1
        <5>2. buffered[i] = sent[Len(answers) + i]
          BY <5>1 DEF Tails, IInv
        <5> QED BY <5>1, <5>2, <1>1, <2>1
      <4> QED BY <4>1, <4>2
    <3>3. waiting' = <<>> /\ Len(waiting') = 0
      BY <2>0
    <3>4. Len(answers') <= Len(sent') /\ Len(sent') = Len(answers') + Len(buffered')
      BY <1>0, <1>1, <2>0, <2>1, <3>1
    <3>5. ~(Len(answers') > Len(sent')) /\ ~ended'
      BY <1>0, <1>1, <2>0, <3>4
    <3>6. \A i \in 1..Len(buffered') : buffered'[i] = sent'[Len(answers') + i]
      BY <2>0, <3>2
    <3>7. \A i \in 1..Len(waiting') : waiting'[i] = Len(sent') + i
      BY <3>3
    <3> QED BY <3>3, <3>4, <3>5, <3>6, <3>7 DEF Tails
  <2>4. AnswersOwed'
    BY <1>0, <1>1, <2>0, <2>1 DEF AnswersOwed, Owed, IInv
  <2> QED BY <2>2, <2>3, <2>4, <1>F DEF IInv
<1> QED BY <1>2, <1>3 DEF Push
(***************************************************************************)
(* end                                                                     *)
(***************************************************************************)

\* The parked calls are exactly the calls beyond the last accepted value.
LEMMA ParkedIsTail ==
  ASSUME IInv, ~ended
  PROVE  Parked = {k \in 1..Len(answers) : k > Len(sent)}
<1>0. Len(answers) \in Nat /\ Len(sent) \in Nat /\ Len(waiting) \in Nat
  BY LenProperties DEF IInv, TypeOK
<1>1. CASE Len(answers) <= Len(sent)
  <2>1. Len(waiting) = 0
    BY <1>1, <1>0 DEF IInv, Tails
  <2> QED BY <1>0, <1>1, <2>1 DEF Parked
<1>2. CASE Len(answers) > Len(sent)
  <2>1. Len(answers) = Len(sent) + Len(waiting)
    BY <1>2, <1>0 DEF IInv, Tails
  <2>2. \A i \in 1..Len(waiting) : waiting[i] = Len(sent) + i
    BY DEF IInv, Tails
  <2>3. \A k \in 1..Len(answers) : k > Len(sent) =>
          k - Len(sent) \in 1..Len(waiting) /\ waiting[k - Len(sent)] = k
    BY <1>0, <2>1, <2>2
  <2>4. \A i \in 1..Len(waiting) :
          waiting[i] \in 1..Len(answers) /\ waiting[i] > Len(sent)
    BY <1>0, <2>1, <2>2
  <2> QED BY <2>3, <2>4 DEF Parked
<1> QED BY <1>0, <1>1, <1>2

\* Releasing the parked calls when the stream ends: the answers are what is
\* owed once it has ended, and the buffer is not looked at.
LEMMA ReleaseFacts ==
  ASSUME IInv, ~ended, NEW e \in Errors \cup {NoError}
  PROVE  /\ Release(e) \in Seq(Answers) /\ Len(Release(e)) = Len(answers)
         /\ \A k \in 1..Len(answers) :
              Release(e)[k] = IF k <= Len(sent) THEN Value(sent[k]) ELSE Closing(e)
<1>0. /\ Len(answers) \in Nat /\ Len(sent) \in Nat
      /\ DOMAIN answers = 1..Len(answers)
      /\ \A k \in 1..Len(answers) : answers[k] \in Answers
  BY LenProperties, ElementOfSeq DEF IInv, TypeOK
<1>1. Closing(e) \in Answers
  BY DEF Closing, Answers
<1>2. Release(e) = [k \in 1..Len(answers) |->
                      IF k > Len(sent) THEN Closing(e) ELSE answers[k]]
  BY <1>0, ParkedIsTail DEF Release
<1>3. Release(e) \in [1..Len(answers) -> Answers]
  BY <1>0, <1>1, <1>2
<1>4. Release(e) \in Seq(Answers) /\ Len(Release(e)) = Len(answers)
  BY <1>0, <1>3
<1>5. \A k \in 1..Len(answers) : k <= Len(sent) => answers[k] = Value(sent[k])
  BY <1>0 DEF IInv, AnswersOwed, Owed
<1> QED BY <1>0, <1>2, <1>4, <1>5

LEMMA EndIInv == ASSUME IInv, NEW e \in Errors \cup {NoError}, End(e) PROVE IInv'
<1>0. /\ ~ended /\ ended' = TRUE /\ failure' = e
      /\ answers' = Release(e) /\ waiting' = <<>>
      /\ buffered' = buffered /\ sent' = sent
  BY DEF End
<1>1. Len(answers) \in Nat /\ Len(sent) \in Nat /\ Len(waiting') = 0
      /\ waiting' \in Seq(Nat)
  BY <1>0, LenProperties, EmptySeq DEF IInv, TypeOK
<1>2. TypeOK'
  BY <1>0, <1>1, ReleaseFacts DEF IInv, TypeOK
<1>3. Tails'
  <2>1. Len(answers') = Len(answers)
    BY <1>0, ReleaseFacts
  <2> QED BY <1>0, <1>1, <2>1 DEF IInv, Tails
<1>4. AnswersOwed'
  BY <1>0, <1>1, ReleaseFacts DEF AnswersOwed, Owed
<1>F. FailureOnlyAtEnd'
  BY <1>0 DEF FailureOnlyAtEnd
<1> QED BY <1>2, <1>3, <1>4, <1>F DEF IInv
(***************************************************************************)
(* next                                                                    *)
(***************************************************************************)

LEMMA AskIInv == ASSUME IInv, Ask PROVE IInv'
<1>0. /\ buffered \in Seq(Values) /\ sent \in Seq(Values)
      /\ answers \in Seq(Answers) /\ waiting \in Seq(Nat)
      /\ failure \in Errors \cup {NoError} /\ ended \in BOOLEAN
      /\ Len(buffered) \in Nat /\ Len(sent) \in Nat
      /\ Len(answers) \in Nat /\ Len(waiting) \in Nat
      /\ failure' = failure /\ ended' = ended /\ sent' = sent
  BY LenProperties DEF IInv, TypeOK, Ask
<1>F. FailureOnlyAtEnd'
  BY <1>0 DEF IInv, FailureOnlyAtEnd
<1>O. \A k \in 1..Len(answers) : Owed(k)' = Owed(k)
  BY <1>0 DEF Owed, Closing
<1>1. ASSUME NEW a \in Answers, answers' = Append(answers, a)
      PROVE  /\ answers' \in Seq(Answers) /\ Len(answers') = Len(answers) + 1
             /\ answers'[Len(answers) + 1] = a
             /\ \A k \in 1..Len(answers) : answers'[k] = answers[k]
  BY <1>0, <1>1, AppendFacts
<1>2. CASE NextBuffered
  <2>1. /\ buffered' \in Seq(Values) /\ Len(buffered') = Len(buffered) - 1
        /\ Head(buffered) = buffered[1] /\ Head(buffered) \in Values
        /\ Len(buffered) > 0
        /\ \A i \in 1..Len(buffered') : buffered'[i] = buffered[i + 1]
    BY <1>0, <1>2, HeadTailProperties, EmptySeq DEF NextBuffered
  <2>2. /\ Len(sent) = Len(answers) + Len(buffered) /\ waiting = <<>>
        /\ Head(buffered) = sent[Len(answers) + 1]
    BY <1>0, <2>1 DEF IInv, Tails
  <2>3. /\ Value(Head(buffered)) \in Answers
        /\ answers' = Append(answers, Value(Head(buffered)))
        /\ waiting' = waiting
    BY <2>1, <1>2 DEF Answers, NextBuffered
  <2>4. /\ answers' \in Seq(Answers) /\ Len(answers') = Len(answers) + 1
        /\ answers'[Len(answers) + 1] = Value(Head(buffered))
        /\ \A k \in 1..Len(answers) : answers'[k] = answers[k]
    BY <2>3, <1>1
  <2>5. TypeOK'
    BY <1>0, <2>1, <2>3, <2>4 DEF TypeOK
  <2>6. Tails'
    <3>1. Len(answers') <= Len(sent') /\ Len(sent') = Len(answers') + Len(buffered')
      BY <1>0, <2>1, <2>2, <2>4
    <3>2. waiting' = <<>> /\ Len(waiting') = 0
      BY <2>2, <2>3
    <3>3. \A i \in 1..Len(buffered') : buffered'[i] = sent'[Len(answers') + i]
      <4> SUFFICES ASSUME NEW i \in 1..Len(buffered')
                   PROVE  buffered'[i] = sent'[Len(answers') + i]
        OBVIOUS
      <4>1. i + 1 \in 1..Len(buffered) /\ Len(answers') + i = Len(answers) + (i + 1)
        BY <1>0, <2>1, <2>4
      <4>2. buffered[i + 1] = sent[Len(answers) + (i + 1)]
        BY <4>1 DEF IInv, Tails
      <4> QED BY <1>0, <2>1, <4>1, <4>2
    <3>4. ~(Len(answers') > Len(sent'))
      BY <1>0, <2>4, <3>1
    <3> QED BY <3>1, <3>2, <3>3, <3>4 DEF Tails
  <2>7. AnswersOwed'
    <3> SUFFICES ASSUME NEW k \in 1..Len(answers') PROVE answers'[k] = Owed(k)'
      BY DEF AnswersOwed
    <3>1. CASE k = Len(answers) + 1
      BY <3>1, <1>0, <2>1, <2>2, <2>4 DEF Owed
    <3>2. CASE k \in 1..Len(answers)
      BY <3>2, <1>O, <2>4 DEF IInv, AnswersOwed
    <3> QED BY <1>0, <2>4, <3>1, <3>2
  <2> QED BY <2>5, <2>6, <2>7, <1>F DEF IInv
<1>3. CASE NextEnded
  <2>1. /\ buffered = <<>> /\ Len(buffered) = 0 /\ ended /\ waiting = <<>>
        /\ Len(waiting) = 0 /\ Len(answers) >= Len(sent)
        /\ buffered' = buffered /\ waiting' = waiting
    BY <1>0, <1>3 DEF IInv, Tails, NextEnded
  <2>2. Closing(failure) \in Answers /\ answers' = Append(answers, Closing(failure))
    BY <1>0, <1>3 DEF Closing, Answers, NextEnded
  <2>3. /\ answers' \in Seq(Answers) /\ Len(answers') = Len(answers) + 1
        /\ answers'[Len(answers) + 1] = Closing(failure)
        /\ \A k \in 1..Len(answers) : answers'[k] = answers[k]
    BY <2>2, <1>1
  <2>4. TypeOK'
    BY <1>0, <2>1, <2>3 DEF TypeOK
  <2>5. Tails'
    BY <1>0, <2>1, <2>3 DEF Tails
  <2>6. AnswersOwed'
    <3> SUFFICES ASSUME NEW k \in 1..Len(answers') PROVE answers'[k] = Owed(k)'
      BY DEF AnswersOwed
    <3>1. CASE k = Len(answers) + 1
      BY <3>1, <1>0, <2>1, <2>3 DEF Owed, Closing
    <3>2. CASE k \in 1..Len(answers)
      BY <3>2, <1>O, <2>3 DEF IInv, AnswersOwed
    <3> QED BY <1>0, <2>3, <3>1, <3>2
  <2> QED BY <2>4, <2>5, <2>6, <1>F DEF IInv
<1>4. CASE NextParked
  <2>1. /\ buffered = <<>> /\ Len(buffered) = 0 /\ ~ended
        /\ Len(answers) >= Len(sent) /\ Len(answers) = Len(sent) + Len(waiting)
        /\ buffered' = buffered
    BY <1>0, <1>4 DEF IInv, Tails, NextParked
  <2>2. Pending \in Answers /\ answers' = Append(answers, Pending)
    BY <1>4 DEF Answers, NextParked
  <2>3. /\ answers' \in Seq(Answers) /\ Len(answers') = Len(answers) + 1
        /\ answers'[Len(answers) + 1] = Pending
        /\ \A k \in 1..Len(answers) : answers'[k] = answers[k]
    BY <2>2, <1>1
  <2>4. /\ waiting' \in Seq(Nat) /\ Len(waiting') = Len(waiting) + 1
        /\ waiting'[Len(waiting) + 1] = Len(answers) + 1
        /\ \A i \in 1..Len(waiting) : waiting'[i] = waiting[i]
    BY <1>0, <1>4, AppendFacts DEF NextParked
  <2>5. TypeOK'
    BY <1>0, <2>1, <2>3, <2>4 DEF TypeOK
  <2>6. Tails'
    <3>1. \A i \in 1..Len(waiting') : waiting'[i] = Len(sent') + i
      <4> SUFFICES ASSUME NEW i \in 1..Len(waiting')
                   PROVE  waiting'[i] = Len(sent') + i
        OBVIOUS
      <4>1. CASE i = Len(waiting) + 1
        BY <4>1, <1>0, <2>1, <2>4
      <4>2. CASE i # Len(waiting) + 1
        <5>1. i \in 1..Len(waiting)
          BY <4>2, <1>0, <2>4
        <5>2. waiting[i] = Len(sent) + i
          BY <5>1 DEF IInv, Tails
        <5> QED BY <5>1, <5>2, <1>0, <2>4
      <4> QED BY <4>1, <4>2
    <3> QED BY <1>0, <2>1, <2>3, <2>4, <3>1 DEF Tails
  <2>7. AnswersOwed'
    <3> SUFFICES ASSUME NEW k \in 1..Len(answers') PROVE answers'[k] = Owed(k)'
      BY DEF AnswersOwed
    <3>1. CASE k = Len(answers) + 1
      BY <3>1, <1>0, <2>1, <2>3 DEF Owed
    <3>2. CASE k \in 1..Len(answers)
      BY <3>2, <1>O, <2>3 DEF IInv, AnswersOwed
    <3> QED BY <1>0, <2>3, <3>1, <3>2
  <2> QED BY <2>5, <2>6, <2>7, <1>F DEF IInv
<1> QED BY <1>2, <1>3, <1>4 DEF Ask
(***************************************************************************)
(* return                                                                  *)
(***************************************************************************)

LEMMA ReturnIInv == ASSUME IInv, Return PROVE IInv'
<1> DEFINE kept == Len(sent) - Len(buffered)
<1>0. /\ buffered \in Seq(Values) /\ sent \in Seq(Values)
      /\ answers \in Seq(Answers) /\ waiting \in Seq(Nat)
      /\ failure \in Errors \cup {NoError} /\ ended \in BOOLEAN
      /\ Len(buffered) \in Nat /\ Len(sent) \in Nat
      /\ Len(answers) \in Nat /\ Len(waiting) \in Nat
      /\ failure' = failure
      /\ buffered' = <<>> /\ Len(buffered') = 0 /\ buffered' \in Seq(Values)
      /\ sent' = SubSeq(sent, 1, kept)
  BY LenProperties, EmptySeq DEF IInv, TypeOK, Return
<1>F. FailureOnlyAtEnd'
  BY <1>0 DEF IInv, FailureOnlyAtEnd, Return
<1>1. /\ Len(answers) <= Len(sent) => kept = Len(answers)
      /\ Len(answers) > Len(sent) => kept = Len(sent)
      /\ kept \in 0..Len(sent) /\ kept <= Len(answers)
  <2>1. Len(answers) > Len(sent) => Len(buffered) = 0
    BY <1>0 DEF IInv, Tails
  <2> QED BY <1>0, <2>1 DEF IInv, Tails
<1>2. /\ sent' \in Seq(Values) /\ Len(sent') = kept
      /\ \A i \in 1..kept : sent'[i] = sent[i]
  <2>1. \A i \in 1..kept : sent[i] \in Values
    BY <1>0, <1>1, ElementOfSeq
  <2> HIDE DEF kept
  <2>2. /\ SubSeq(sent, 1, kept) \in Seq(Values)
        /\ Len(SubSeq(sent, 1, kept)) = IF 1 <= kept THEN kept - 1 + 1 ELSE 0
        /\ \A i \in 1..(kept - 1 + 1) : SubSeq(sent, 1, kept)[i] = sent[1 + i - 1]
    BY <1>0, <1>1, <2>1, SubSeqProperties
  <2> QED BY <1>0, <1>1, <2>2
<1>3. CASE ended
  <2>1. ended' = ended /\ answers' = answers /\ waiting' = waiting
        /\ waiting = <<>> /\ Len(waiting') = 0
    BY <1>3 DEF Return, IInv, Tails
  <2>2. TypeOK'
    BY <1>0, <1>2, <2>1 DEF TypeOK
  <2>3. Tails'
    BY <1>0, <1>1, <1>2, <1>3, <2>1 DEF Tails
  <2>4. AnswersOwed'
    <3> HIDE DEF kept
    <3> SUFFICES ASSUME NEW k \in 1..Len(answers) PROVE answers[k] = Owed(k)'
      BY <2>1 DEF AnswersOwed
    <3>1. answers[k] = Owed(k)
      BY DEF IInv, AnswersOwed
    <3>2. CASE k <= kept
      BY <3>1, <3>2, <1>0, <1>1, <1>2 DEF Owed
    <3>3. CASE k > kept
      BY <3>1, <3>3, <1>0, <1>1, <1>2, <1>3, <2>1 DEF Owed, Closing
    <3> QED BY <3>2, <3>3, <1>0, <1>1
  <2> QED BY <2>2, <2>3, <2>4, <1>F DEF IInv
<1>4. CASE ~ended
  <2>0. NoError \in Errors \cup {NoError}
    OBVIOUS
  <2>1. /\ ended' = TRUE /\ answers' = Release(NoError) /\ waiting' = <<>>
        /\ Len(waiting') = 0 /\ waiting' \in Seq(Nat)
    BY <1>4, EmptySeq DEF Return
  <2>2. /\ answers' \in Seq(Answers) /\ Len(answers') = Len(answers)
        /\ \A k \in 1..Len(answers) :
             answers'[k] = IF k <= Len(sent) THEN Value(sent[k]) ELSE Closing(NoError)
    BY <1>4, <2>0, <2>1, ReleaseFacts
  <2>3. TypeOK'
    BY <1>0, <1>2, <2>1, <2>2 DEF TypeOK
  <2>4. Tails'
    BY <1>0, <1>1, <1>2, <2>1, <2>2 DEF Tails
  <2>5. AnswersOwed'
    <3>1. failure = NoError
      BY <1>4 DEF IInv, FailureOnlyAtEnd
    <3> QED BY <1>0, <1>1, <1>2, <2>1, <2>2, <3>1 DEF AnswersOwed, Owed
  <2> QED BY <2>3, <2>4, <2>5, <1>F DEF IInv
<1> QED BY <1>0, <1>3, <1>4
(***************************************************************************)
(* The theorems.                                                           *)
(***************************************************************************)

LEMMA NextIInv == IInv /\ [Next]_vars => IInv'
<1> SUFFICES ASSUME IInv, [Next]_vars PROVE IInv'
  OBVIOUS
<1>1. ASSUME NEW v \in Values, Push(v) PROVE IInv'
  BY <1>1, PushIInv
<1>2. ASSUME NEW e \in Errors \cup {NoError}, End(e) PROVE IInv'
  BY <1>2, EndIInv
<1>3. CASE Ask
  BY <1>3, AskIInv
<1>4. CASE Return
  BY <1>4, ReturnIInv
<1>5. CASE UNCHANGED vars
  BY <1>5 DEF vars, IInv, TypeOK, Tails, FailureOnlyAtEnd, AnswersOwed, Owed,
     Closing
<1> QED BY <1>1, <1>2, <1>3, <1>4, <1>5 DEF Next

\* The buffer and the parked calls are always the undelivered tails of what was
\* accepted and of what was asked (the state lines 29-38 keep).
THEOREM QueueInvariant == Spec => []IInv
BY InitIInv, NextIInv, PTL DEF Spec

\* Every call of next() holds exactly what the pushes owe it, at every moment:
\* nothing lost, duplicated or reordered, and no failure told as a clean end.
THEOREM EveryAnswerOwed == Spec => []AnswersOwed
<1>1. IInv => AnswersOwed
  BY DEF IInv
<1> QED BY <1>1, QueueInvariant, PTL

\* An answered promise is answered for good.
THEOREM AnswersAreFinal == Spec => SettlesOnce
<1> DEFINE Kept == \A k \in DOMAIN answers :
                     answers[k] # Pending => answers'[k] = answers[k]
<1>1. ASSUME IInv, [Next]_vars PROVE [Kept]_vars
  <2> SUFFICES ASSUME NEW k \in 1..Len(answers), answers[k] # Pending, Next
               PROVE  answers'[k] = answers[k]
    BY <1>1, LenProperties DEF IInv, TypeOK
  <2>0. /\ answers \in Seq(Answers) /\ Len(answers) \in Nat
        /\ Len(sent) \in Nat
    BY <1>1, LenProperties DEF IInv, TypeOK
  <2>1. ASSUME ~ended PROVE k <= Len(sent)
    BY <1>1, <2>0, <2>1 DEF IInv, AnswersOwed, Owed
  <2>2. ASSUME NEW v \in Values, Push(v) PROVE answers'[k] = answers[k]
    <3>1. k # Len(sent) + 1
      BY <2>0, <2>1, <2>2 DEF Push
    <3>2. CASE PushWaiter(v)
      BY <1>1, <2>2, <3>1, <3>2, PushWaiterFacts
    <3>3. CASE PushBuffer(v)
      BY <3>3 DEF PushBuffer
    <3> QED BY <2>2, <3>2, <3>3 DEF Push
  <2>3. ASSUME NEW e \in Errors \cup {NoError}, ~ended
        PROVE  Release(e)[k] = answers[k]
    BY <1>1, <2>0, <2>1, <2>3, ReleaseFacts DEF IInv, AnswersOwed, Owed
  <2>4. ASSUME NEW e \in Errors \cup {NoError}, End(e)
        PROVE  answers'[k] = answers[k]
    BY <2>3, <2>4 DEF End
  <2>5. CASE Ask
    <3>1. ASSUME NEW a \in Answers, answers' = Append(answers, a)
          PROVE  answers'[k] = answers[k]
      BY <2>0, <3>1, AppendFacts
    <3>2. PICK a : answers' = Append(answers, a)
      BY <2>5 DEF Ask, NextBuffered, NextEnded, NextParked
    <3>3. Append(answers, a)[k] = answers[k]
      BY <2>0, AppendProperties
    <3> QED BY <3>2, <3>3
  <2>6. CASE Return
    BY <2>3, <2>6 DEF Return
  <2> QED BY <2>2, <2>4, <2>5, <2>6 DEF Next
<1> QED BY <1>1, QueueInvariant, PTL DEF Spec, SettlesOnce
(***************************************************************************)
(* Refinement: a queue with its buffer and its parked calls hidden is a    *)
(* MessageStream.                                                          *)
(***************************************************************************)

\* In a state of the invariant the answers are the stream's replies.
LEMMA AnswersAreReplies ==
  ASSUME IInv
  PROVE  answers = [k \in 1..Len(answers) |-> Stream!Reply(k, sent, ended, failure)]
<1>1. answers = [k \in 1..Len(answers) |-> answers[k]]
  BY LenProperties DEF IInv, TypeOK
<1>2. \A k \in 1..Len(answers) :
        answers[k] = Stream!Reply(k, sent, ended, failure)
  BY DEF IInv, AnswersOwed, Owed, Stream!Reply, Stream!Ending, Closing, Value,
     Done, Failed, Pending
<1> QED BY <1>1, <1>2

\* How many answers there are after a step, and what becomes of `sent` when the
\* consumer leaves.
LEMMA ReturnKeepsAnswered ==
  ASSUME IInv, Return
  PROVE  sent' = Stream!Asked
<1>1. Len(answers) \in Nat /\ Len(sent) \in Nat /\ Len(buffered) \in Nat
      /\ sent \in Seq(Values)
  BY LenProperties DEF IInv, TypeOK
<1>2. CASE Len(answers) < Len(sent)
  BY <1>1, <1>2 DEF IInv, Tails, Return, Stream!Asked
<1>3. CASE ~(Len(answers) < Len(sent))
  <2>1. Len(buffered) = 0
    BY <1>1, <1>3, EmptySeq DEF IInv, Tails
  <2> QED BY <1>1, <1>3, <2>1, SubSeqFull DEF Return, Stream!Asked
<1> QED BY <1>2, <1>3

LEMMA StepSimulation ==
  IInv /\ IInv' /\ [Next]_vars => [Stream!Next]_(Stream!streamVars)
<1> SUFFICES ASSUME IInv, IInv', [Next]_vars
             PROVE  [Stream!Next]_(Stream!streamVars)
  OBVIOUS
<1>0. answers' = [k \in 1..Len(answers') |->
                    Stream!Reply(k, sent', ended', failure')]
  <2>1. answers' = [k \in 1..Len(answers') |-> answers'[k]]
    BY LenProperties DEF IInv, TypeOK
  <2>2. \A k \in 1..Len(answers') :
          answers'[k] = Stream!Reply(k, sent', ended', failure')
    BY DEF IInv, AnswersOwed, Owed, Stream!Reply, Stream!Ending, Closing, Value,
       Done, Failed, Pending
  <2> QED BY <2>1, <2>2
<1>1. ASSUME NEW n, Len(answers') = n 
       PROVE Stream!Replies(n, sent', ended', failure')
  BY <1>0, <1>1 DEF Stream!Replies
<1>2. /\ answers \in Seq(Answers) /\ Len(answers) \in Nat
  BY LenProperties DEF IInv, TypeOK
<1>3. ASSUME NEW v \in Values, Push(v) PROVE Stream!Send(v)
  <2>1. Len(answers') = Len(answers)
    BY <1>3, PushWaiterFacts DEF Push, PushBuffer
  <2> QED BY <1>1, <1>3, <2>1 DEF Push, Stream!Send
<1>4. ASSUME NEW e \in Errors \cup {NoError}, End(e) PROVE Stream!Close(e)
  <2>1. Len(answers') = Len(answers)
    BY <1>4, ReleaseFacts DEF End
  <2> QED BY <1>1, <1>4, <2>1 DEF End, Stream!Close
<1>5. CASE Ask
  <2>1. PICK a : answers' = Append(answers, a)
    BY <1>5 DEF Ask, NextBuffered, NextEnded, NextParked
  <2>2. Len(answers') = Len(answers) + 1
    BY <1>2, <2>1
  <2> QED BY <1>1, <1>5, <2>2 DEF Ask, Stream!Question, Stream!Next
<1>6. CASE Return
  <2>0. NoError \in Errors \cup {NoError}
    OBVIOUS
  <2>1. Len(answers') = Len(answers)
    BY <1>6, <2>0, ReleaseFacts DEF Return
  <2>2. ended' = TRUE
    BY <1>6 DEF Return, IInv, TypeOK
  <2>3. failure' = failure
    BY <1>6 DEF Return
  <2> QED BY <1>1, <1>6, <2>1, <2>2, <2>3, ReturnKeepsAnswered
          DEF Stream!Abandon, Stream!Asked, Stream!Next
<1>7. CASE UNCHANGED vars
  BY <1>7 DEF vars, Stream!streamVars
<1> QED BY <1>3, <1>4, <1>5, <1>6, <1>7 DEF Next, Stream!Next

\* The queue implements the abstract stream, for every Values and Errors.
THEOREM QueueImplementsStream == Spec => StreamSpec
<1>1. Init => Stream!Init
  BY DEF Init, Stream!Init
<1> QED BY <1>1, QueueInvariant, StepSimulation, PTL
        DEF Spec, StreamSpec, Stream!Spec
=============================================================================
