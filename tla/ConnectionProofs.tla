-------------------------- MODULE ConnectionProofs --------------------------
(***************************************************************************)
(* Proofs about the client's connection: the loop over the transports      *)
(* (RealtimeConnection) and the contract's channels at the two ends of the *)
(* connection it opens (MessageLink).                                      *)
(***************************************************************************)
EXTENDS MessageLink, RealtimeConnection, SequenceTheorems, TLAPS

-----------------------------------------------------------------------------
(***************************************************************************)
(* MessageLink, for any numbers of frames and reads.  A wire holds the     *)
(* last frames of what was sent on it, so that what an end has been given  *)
(* is a first part of what its peer sent, of one kind.                     *)
(***************************************************************************)

Booleans ==
  /\ pumpOver \in BOOLEAN /\ quic \in BOOLEAN /\ broken \in BOOLEAN
  /\ cDone \in BOOLEAN /\ sDone \in BOOLEAN /\ cClosed \in BOOLEAN /\ sClosed \in BOOLEAN
  /\ closedSeen \in BOOLEAN /\ left \in BOOLEAN
  /\ inEnded \in BOOLEAN /\ cliEnded \in BOOLEAN /\ binEnded \in BOOLEAN /\ srvEnded \in BOOLEAN

\* The frames on a wire, but for the Bye behind them, and those that have left it.
Ahead(w) == IF w # <<>> /\ w[Len(w)] = Bye THEN Len(w) - 1 ELSE Len(w)
Gone(w, log) == Len(log) - Ahead(w)

\* A wire holds the last frames that were sent, then perhaps Bye.
WireInv(w, log, closing) ==
  /\ w \in Seq(Frames \cup {Bye})
  /\ Ahead(w) <= Len(log)
  /\ \A i \in 1..Ahead(w) : w[i] = log[Gone(w, log) + i]
  /\ Ahead(w) # Len(w) => closing

Rising(log) == \A i, j \in 1..Len(log) : i < j => log[i].id < log[j].id

LogInv ==
  /\ downLog \in Seq(Frames) /\ Len(downLog) <= MaxDown
  /\ \A i \in 1..Len(downLog) : downLog[i].id = i
  /\ upLog \in Seq(Frames) /\ Len(upLog) <= MaxUp
  /\ \A i \in 1..Len(upLog) : upLog[i].id = MaxDown + i

WiresInv ==
  /\ WireInv(down, downLog, sDone \/ sClosed)
  /\ WireInv(up, upLog, cDone \/ cClosed)
  /\ broken => down = <<>> /\ up = <<>>

\* got holds the frames of this kind among the first n of the log, all of them
\* unless the stream is over.
Delivered(got, over, log, n, kind) ==
  /\ got \in Seq(Frames)
  /\ \A j \in 1..Len(got) :
       \E i \in 1..Len(log) : i <= n /\ got[j] = log[i] /\ log[i].kind = kind
  /\ \A i, j \in 1..Len(got) : i < j => got[i].id < got[j].id
  /\ \A i \in 1..Len(log), j \in 1..Len(got) :
       log[i].kind = kind /\ log[i].id < got[j].id => \E l \in 1..Len(got) : got[l] = log[i]
  /\ ~over => \A i \in 1..Len(log) :
       i <= n /\ log[i].kind = kind => \E l \in 1..Len(got) : got[l] = log[i]

InboxInv ==
  /\ inSent \in Seq(Frames) /\ Len(inSent) <= Len(downLog)
  /\ \A i \in 1..Len(inSent) : inSent[i] = downLog[i]
  /\ Len(inAnswers) \in Nat
  /\ inAnswers = [k \in 1..Len(inAnswers) |-> In!Reply(k, inSent, inEnded, inFailure)]
  /\ ~inEnded /\ ~broken => Len(inSent) = Gone(down, downLog)
  /\ cClosed => inEnded
  /\ inFailure # NoError => inEnded

PumpInv ==
  /\ pumped \in Nat /\ pumped <= Len(inAnswers) /\ Len(inAnswers) <= pumped + 1
  /\ pumpOver => inEnded /\ Len(inSent) <= pumped
  /\ inEnded /\ ~cDone => Len(inSent) <= pumped
  /\ ~inEnded => pumped <= Len(inSent)
  /\ pardoned \subseteq 1..MaxDown

ClientInv ==
  /\ Delivered(cliSent, cliEnded, inSent, pumped, "valid")
  /\ Delivered(binSent, binEnded, inSent, pumped, "binary")
  /\ Len(cliAnswers) \in Nat
  /\ cliEnded => cDone \/ left \/ inEnded

ServerInv ==
  /\ Delivered(srvSent, srvEnded \/ broken, upLog, Gone(up, upLog), "valid")
  /\ srvBinSent = <<>> /\ srvBinEnded = TRUE
  /\ sClosed => srvEnded

IInv == /\ Booleans /\ LogInv /\ WiresInv /\ InboxInv /\ PumpInv /\ ClientInv /\ ServerInv
        /\ ViolationsClose /\ CloseKeepsFrames

(***************************************************************************)
(* Wires.                                                                  *)
(***************************************************************************)
LEMMA ByeNotFrame == Bye \notin Frames
BY DEF Bye, Frames, Kinds

LEMMA OneOrMore == \A n \in Nat : n > 0 => n = 1 \/ n > 1
OBVIOUS

LEMMA AheadType ==
  ASSUME NEW w \in Seq(Frames \cup {Bye})
  PROVE  Ahead(w) \in Nat /\ Ahead(w) <= Len(w) /\ Len(w) <= Ahead(w) + 1
<1>1. Len(w) \in Nat /\ (w # <<>> => Len(w) > 0)
  BY EmptySeq
<1> QED BY <1>1 DEF Ahead

LEMMA WireEmpty ==
  ASSUME NEW log \in Seq(Frames), NEW closing
  PROVE  WireInv(<<>>, log, closing) /\ Gone(<<>>, log) = Len(log)
<1>1. Ahead(<<>>) = 0 /\ Len(log) \in Nat
  BY LenProperties DEF Ahead
<1>2. <<>> \in Seq(Frames \cup {Bye})
  OBVIOUS
<1> QED BY <1>1, <1>2 DEF WireInv, Gone

LEMMA WireType ==
  ASSUME NEW log \in Seq(Frames), NEW closing, NEW w, WireInv(w, log, closing)
  PROVE  /\ w \in Seq(Frames \cup {Bye}) /\ Len(w) \in Nat /\ Len(log) \in Nat
         /\ Ahead(w) \in Nat /\ Gone(w, log) \in Nat /\ Gone(w, log) <= Len(log)
<1>1. w \in Seq(Frames \cup {Bye}) /\ Ahead(w) <= Len(log)
  BY DEF WireInv
<1> QED BY <1>1, AheadType, LenProperties DEF Gone

\* The next frame of a wire is the next of its log.
LEMMA WireTail ==
  ASSUME NEW log \in Seq(Frames), NEW closing,
         NEW w \in Seq(Frames \cup {Bye}), WireInv(w, log, closing),
         w # <<>>, Head(w) # Bye
  PROVE  /\ WireInv(Tail(w), log, closing)
         /\ Gone(Tail(w), log) = Gone(w, log) + 1
         /\ Gone(w, log) + 1 \in 1..Len(log)
         /\ Head(w) = log[Gone(w, log) + 1]
<1>1. /\ w \in Seq(Frames \cup {Bye}) /\ Len(w) \in Nat /\ Len(log) \in Nat
      /\ Ahead(w) \in Nat /\ Ahead(w) <= Len(log) /\ Len(w) > 0
  BY WireType, EmptySeq DEF WireInv
<1>2. /\ Tail(w) \in Seq(Frames \cup {Bye}) /\ Len(Tail(w)) = Len(w) - 1
      /\ \A i \in 1..Len(Tail(w)) : Tail(w)[i] = w[i + 1]
      /\ Head(w) = w[1]
  BY <1>1, HeadTailProperties
<1>n. Len(w) = 1 \/ Len(w) > 1
  <2>1. Len(w) \in Nat /\ Len(w) > 0
    BY <1>1
  <2> QED BY <2>1, OneOrMore
<1>3. Ahead(w) >= 1
  <2>1. CASE Len(w) = 1
    BY <1>1, <1>2, <2>1 DEF Ahead
  <2>2. CASE Len(w) > 1
    BY <1>1, <2>2 DEF Ahead
  <2> QED BY <1>n, <2>1, <2>2
<1>4. Ahead(Tail(w)) = Ahead(w) - 1
  <2>1. CASE Len(w) = 1
    <3>1. Len(Tail(w)) = 0
      BY <1>2, <2>1
    <3>a. Tail(w) = <<>>
      BY <1>2, <3>1, EmptySeq
    <3>2. Ahead(w) = 1
      <4>1. Ahead(w) \in Nat /\ Ahead(w) <= 1 /\ Ahead(w) >= 1
        BY <1>1, <1>3, <2>1, AheadType
      <4>2. \A n \in Nat : n <= 1 /\ n >= 1 => n = 1
        OBVIOUS
      <4> QED BY <4>1, <4>2
    <3>3. Ahead(<<>>) = 0
      BY DEF Ahead
    <3>4. Ahead(Tail(w)) = 0
      BY <3>a, <3>3
    <3> QED BY <3>2, <3>4
  <2>2. CASE Len(w) > 1
    <3>0. Len(w) \in Nat /\ Len(Tail(w)) = Len(w) - 1
      BY <1>1, <1>2
    <3>a. Len(Tail(w)) \in 1..Len(Tail(w)) /\ Len(Tail(w)) # 0
      BY <2>2, <3>0
    <3>1. Len(Tail(w)) \in 1..Len(Tail(w)) /\ Tail(w) # <<>>
      BY <3>a
    <3>2. Tail(w)[Len(Tail(w))] = w[Len(w)]
      BY <1>1, <1>2, <3>1
    <3> QED BY <1>1, <1>2, <3>1, <3>2 DEF Ahead
  <2> QED BY <1>n, <2>1, <2>2
<1>5. Gone(Tail(w), log) = Gone(w, log) + 1
  BY <1>1, <1>4 DEF Gone
<1>6. \A i \in 1..Ahead(w) : w[i] = log[Gone(w, log) + i]
  BY DEF WireInv
<1>7. ASSUME NEW i \in 1..Ahead(Tail(w)) PROVE Tail(w)[i] = log[Gone(Tail(w), log) + i]
  <2>1. i + 1 \in 1..Ahead(w) /\ i \in 1..Len(Tail(w))
    BY <1>1, <1>2, <1>4, AheadType
  <2>2. w[i + 1] = log[Gone(w, log) + (i + 1)]
    BY <1>6, <2>1
  <2>3. Gone(w, log) + (i + 1) = Gone(Tail(w), log) + i
    <3>1. Gone(w, log) \in Nat
      BY WireType
    <3> QED BY <1>5, <3>1
  <2> QED BY <1>2, <2>1, <2>2, <2>3
<1>8. Ahead(Tail(w)) # Len(Tail(w)) => closing
  BY <1>1, <1>2, <1>4 DEF WireInv
<1>9. WireInv(Tail(w), log, closing)
  <2>1. Ahead(Tail(w)) <= Len(log)
    BY <1>1, <1>4
  <2> QED BY <1>2, <1>7, <1>8, <2>1 DEF WireInv
<1> QED BY <1>1, <1>2, <1>3, <1>5, <1>6, <1>9 DEF Gone

LEMMA WireSend ==
  ASSUME NEW log \in Seq(Frames), NEW w, WireInv(w, log, FALSE), NEW f \in Frames,
         NEW closing
  PROVE  /\ WireInv(Append(w, f), Append(log, f), closing)
         /\ Gone(Append(w, f), Append(log, f)) = Gone(w, log)
<1>1. /\ w \in Seq(Frames \cup {Bye}) /\ Len(w) \in Nat /\ Len(log) \in Nat
      /\ Ahead(w) = Len(w) /\ Len(w) <= Len(log)
      /\ \A i \in 1..Len(w) : w[i] = log[Gone(w, log) + i]
  BY WireType DEF WireInv
<1>2. /\ Append(w, f) \in Seq(Frames \cup {Bye}) /\ Len(Append(w, f)) = Len(w) + 1
      /\ Append(w, f)[Len(w) + 1] = f /\ \A i \in 1..Len(w) : Append(w, f)[i] = w[i]
  BY <1>1, AppendProperties
<1>3. /\ Append(log, f) \in Seq(Frames) /\ Len(Append(log, f)) = Len(log) + 1
      /\ Append(log, f)[Len(log) + 1] = f
      /\ \A i \in 1..Len(log) : Append(log, f)[i] = log[i]
  BY AppendProperties
<1>4. Ahead(Append(w, f)) = Len(w) + 1
  <2>1. f # Bye
    BY ByeNotFrame
  <2> QED BY <1>1, <1>2, <2>1 DEF Ahead
<1>5. Gone(Append(w, f), Append(log, f)) = Gone(w, log)
  BY <1>1, <1>3, <1>4 DEF Gone
<1>6. ASSUME NEW i \in 1..Ahead(Append(w, f))
      PROVE  Append(w, f)[i] = Append(log, f)[Gone(w, log) + i]
  <2>1. CASE i = Len(w) + 1
    BY <1>1, <1>2, <1>3, <2>1 DEF Gone
  <2>2. CASE i \in 1..Len(w)
    <3>1. Gone(w, log) + i \in 1..Len(log)
      BY <1>1, <2>2 DEF Gone
    <3> QED BY <1>1, <1>2, <1>3, <2>2, <3>1
  <2>3. i = Len(w) + 1 \/ i \in 1..Len(w)
    <3>1. Len(w) \in Nat
      BY <1>1
    <3> QED BY <1>4, <3>1
  <2> QED BY <2>1, <2>2, <2>3
<1>7. Ahead(Append(w, f)) <= Len(Append(log, f)) /\ Ahead(Append(w, f)) = Len(Append(w, f))
  BY <1>1, <1>2, <1>3, <1>4
<1> QED BY <1>2, <1>5, <1>6, <1>7 DEF WireInv

LEMMA WireBye ==
  ASSUME NEW log \in Seq(Frames), NEW w, WireInv(w, log, FALSE)
  PROVE  /\ WireInv(Append(w, Bye), log, TRUE)
         /\ Gone(Append(w, Bye), log) = Gone(w, log)
<1>1. /\ w \in Seq(Frames \cup {Bye}) /\ Len(w) \in Nat /\ Len(log) \in Nat
      /\ Ahead(w) = Len(w) /\ Len(w) <= Len(log)
      /\ \A i \in 1..Len(w) : w[i] = log[Gone(w, log) + i]
  BY WireType DEF WireInv
<1>2. /\ Append(w, Bye) \in Seq(Frames \cup {Bye}) /\ Len(Append(w, Bye)) = Len(w) + 1
      /\ Append(w, Bye)[Len(w) + 1] = Bye /\ \A i \in 1..Len(w) : Append(w, Bye)[i] = w[i]
  BY <1>1, AppendProperties
<1>3. Ahead(Append(w, Bye)) = Len(w)
  BY <1>1, <1>2 DEF Ahead
<1>4. Gone(Append(w, Bye), log) = Gone(w, log)
  BY <1>1, <1>3 DEF Gone
<1> QED BY <1>1, <1>2, <1>3, <1>4 DEF WireInv

LEMMA WireClosing ==
  ASSUME NEW log, NEW w, NEW c, NEW d, WireInv(w, log, c), c => d
  PROVE  WireInv(w, log, d)
BY DEF WireInv

(***************************************************************************)
(* What has been delivered of a log.                                       *)
(***************************************************************************)
LEMMA IdType == \A f \in Frames : f.id \in Nat
<1>1. MaxDown + MaxUp \in Nat
  BY LinkAssumption DEF LinkAssumption
<1> QED BY <1>1 DEF Frames

\* The next frame is of the kind, and is handed on.
LEMMA DeliveredNext ==
  ASSUME NEW log \in Seq(Frames), NEW got, NEW kind, NEW n \in Nat, NEW over,
         n + 1 \in 1..Len(log), log[n + 1].kind = kind, Rising(log),
         Delivered(got, FALSE, log, n, kind)
  PROVE  Delivered(Append(got, log[n + 1]), over, log, n + 1, kind)
<1> DEFINE f == log[n + 1]
<1> DEFINE new == Append(got, f)
<1>1. /\ got \in Seq(Frames) /\ Len(got) \in Nat /\ Len(log) \in Nat /\ f \in Frames
      /\ \A j \in 1..Len(got) :
           \E i \in 1..Len(log) : i <= n /\ got[j] = log[i] /\ log[i].kind = kind
      /\ \A i \in 1..Len(log) :
           i <= n /\ log[i].kind = kind => \E l \in 1..Len(got) : got[l] = log[i]
  BY LenProperties, ElementOfSeq DEF Delivered
<1>2. /\ new \in Seq(Frames) /\ Len(new) = Len(got) + 1 /\ new[Len(got) + 1] = f
      /\ \A j \in 1..Len(got) : new[j] = got[j]
  BY <1>1, AppendProperties
<1>3. \A j \in 1..Len(got) : got[j].id < f.id
  <2> SUFFICES ASSUME NEW j \in 1..Len(got) PROVE got[j].id < f.id
    OBVIOUS
  <2>1. PICK i \in 1..Len(log) : i <= n /\ got[j] = log[i]
    BY <1>1
  <2>2. i < n + 1
    BY <2>1
  <2> QED BY <2>1, <2>2 DEF Rising
<1>a. \A j \in 1..Len(new) : j \in 1..Len(got) \/ j = Len(got) + 1
  BY <1>1, <1>2
<1>b. 1..Len(got) \subseteq 1..Len(new) /\ Len(got) + 1 \in 1..Len(new)
  BY <1>1, <1>2
<1>c. \A i \in 1..Len(log) : i <= n => i <= n + 1
  OBVIOUS
<1> HIDE DEF f, new
<1>4. ASSUME NEW j \in 1..Len(new)
      PROVE  \E i \in 1..Len(log) : i <= n + 1 /\ new[j] = log[i] /\ log[i].kind = kind
  <2>1. CASE j = Len(got) + 1
    BY <1>2, <2>1 DEF f
  <2>2. CASE j \in 1..Len(got)
    BY <1>1, <1>2, <1>c, <2>2
  <2> QED BY <1>a, <2>1, <2>2
<1>5. ASSUME NEW i \in 1..Len(new), NEW j \in 1..Len(new), i < j
      PROVE  new[i].id < new[j].id
  <2>1. i \in 1..Len(got)
    BY <1>1, <1>2, <1>5
  <2>2. CASE j = Len(got) + 1
    BY <1>2, <1>3, <2>1, <2>2
  <2>3. CASE j \in 1..Len(got)
    BY <1>2, <1>5, <2>1, <2>3 DEF Delivered
  <2> QED BY <1>a, <2>2, <2>3
<1>6. ASSUME NEW i \in 1..Len(log), i <= n, log[i].kind = kind
      PROVE  \E l \in 1..Len(new) : new[l] = log[i]
  <2>1. PICK l \in 1..Len(got) : got[l] = log[i]
    BY <1>1, <1>6
  <2> QED BY <1>2, <1>b, <2>1
<1>7. ASSUME NEW i \in 1..Len(log), i <= n + 1, log[i].kind = kind
      PROVE  \E l \in 1..Len(new) : new[l] = log[i]
  <2>1. CASE i = n + 1
    BY <1>2, <1>b, <2>1 DEF f
  <2>2. CASE i <= n
    BY <1>6, <1>7, <2>2
  <2> QED BY <1>7, <2>1, <2>2
<1>8. ASSUME NEW i \in 1..Len(log), NEW j \in 1..Len(new), log[i].kind = kind,
             log[i].id < new[j].id
      PROVE  \E l \in 1..Len(new) : new[l] = log[i]
  <2>1. PICK m \in 1..Len(log) : m <= n + 1 /\ new[j] = log[m]
    BY <1>4
  <2>2. ~(m < i)
    <3>1. \A k \in 1..Len(log) : log[k].id \in Nat
      BY ElementOfSeq, IdType
    <3>2. m < i => log[m].id < log[i].id
      BY DEF Rising
    <3> QED BY <1>8, <2>1, <3>1, <3>2
  <2>3. i <= n + 1
    BY <2>1, <2>2
  <2> QED BY <1>7, <1>8, <2>3
<1> QED BY <1>2, <1>4, <1>5, <1>7, <1>8 DEF Delivered, f, new

\* The next frame is of another kind.
LEMMA DeliveredSkip ==
  ASSUME NEW log \in Seq(Frames), NEW got, NEW kind, NEW n \in Nat, NEW over,
         n + 1 \in 1..Len(log) => log[n + 1].kind # kind,
         Delivered(got, over, log, n, kind)
  PROVE  Delivered(got, over, log, n + 1, kind)
<1>1. \A i \in 1..Len(log) : i <= n => i <= n + 1
  OBVIOUS
<1>2. \A i \in 1..Len(log) : i <= n + 1 /\ log[i].kind = kind => i <= n
  <2> SUFFICES ASSUME NEW i \in 1..Len(log), i <= n + 1, log[i].kind = kind PROVE i <= n
    OBVIOUS
  <2>1. i # n + 1
    OBVIOUS
  <2> QED BY <2>1
<1> QED BY <1>1, <1>2 DEF Delivered

\* The stream is over.
LEMMA DeliveredOver ==
  ASSUME NEW log \in Seq(Frames), NEW got, NEW kind, NEW n \in Nat, NEW m \in Nat, n <= m,
         NEW over, NEW later, over => later, later \/ m = n,
         Delivered(got, over, log, n, kind)
  PROVE  Delivered(got, later, log, m, kind)
<1>1. \A i \in 1..Len(log) : i <= n => i <= m
  OBVIOUS
<1> QED BY <1>1 DEF Delivered

\* A frame of which nothing is delivered yet is added to the log.
LEMMA DeliveredGrows ==
  ASSUME NEW log \in Seq(Frames), NEW new \in Seq(Frames), NEW got, NEW kind, NEW n \in Nat,
         NEW over, Delivered(got, over, log, n, kind), Rising(new), n <= Len(log),
         Len(log) <= Len(new), \A i \in 1..Len(log) : new[i] = log[i]
  PROVE  Delivered(got, over, new, n, kind)
<1>1. Len(log) \in Nat /\ Len(new) \in Nat /\ 1..Len(log) \subseteq 1..Len(new)
  BY LenProperties
<1>2. \A i \in 1..Len(new) : i <= n => i \in 1..Len(log)
  BY <1>1
<1>3. ASSUME NEW i \in 1..Len(new), NEW j \in 1..Len(got), new[i].kind = kind,
             new[i].id < got[j].id
      PROVE  i \in 1..Len(log)
  <2>1. PICK m \in 1..Len(log) : got[j] = log[m]
    BY DEF Delivered
  <2>2. ~(m < i)
    <3>1. \A k \in 1..Len(new) : new[k].id \in Nat
      BY ElementOfSeq, IdType
    <3>2. m < i => new[m].id < new[i].id
      BY <1>1 DEF Rising
    <3>3. m \in 1..Len(new) /\ new[m] = log[m]
      BY <1>1
    <3> QED BY <1>3, <2>1, <3>1, <3>2, <3>3
  <2> QED BY <1>1, <2>2
<1>4. ASSUME NEW j \in 1..Len(got)
      PROVE  \E i \in 1..Len(new) : i <= n /\ got[j] = new[i] /\ new[i].kind = kind
  <2>1. PICK i \in 1..Len(log) : i <= n /\ got[j] = log[i] /\ log[i].kind = kind
    BY DEF Delivered
  <2> QED BY <1>1, <2>1
<1>5. \A i \in 1..Len(new), j \in 1..Len(got) :
        new[i].kind = kind /\ new[i].id < got[j].id => \E l \in 1..Len(got) : got[l] = new[i]
  BY <1>3 DEF Delivered
<1>6. ~over => \A i \in 1..Len(new) :
        i <= n /\ new[i].kind = kind => \E l \in 1..Len(got) : got[l] = new[i]
  BY <1>2 DEF Delivered
<1> QED BY <1>4, <1>5, <1>6 DEF Delivered

\* The consumer leaves what it has not asked for.
LEMMA DeliveredLeft ==
  ASSUME NEW log \in Seq(Frames), NEW got, NEW kind, NEW n \in Nat, NEW over,
         Delivered(got, over, log, n, kind), Rising(log), NEW m \in Nat, m <= Len(got)
  PROVE  Delivered(SubSeq(got, 1, m), TRUE, log, n, kind)
<1> DEFINE new == SubSeq(got, 1, m)
<1>1. /\ got \in Seq(Frames) /\ Len(got) \in Nat /\ 1..m \subseteq 1..Len(got)
      /\ \A i \in 1..m : got[i] \in Frames
  BY ElementOfSeq DEF Delivered
<1>2. new \in Seq(Frames) /\ Len(new) = m /\ \A i \in 1..m : new[i] = got[i]
  <2>1. /\ new \in Seq(Frames)
        /\ Len(new) = IF 1 <= m THEN m - 1 + 1 ELSE 0
        /\ \A i \in 1..(m - 1 + 1) : new[i] = got[1 + i - 1]
    BY <1>1, SubSeqProperties
  <2> QED BY <1>1, <2>1
<1> HIDE DEF new
<1>3. ASSUME NEW j \in 1..m
      PROVE  \E i \in 1..Len(log) : i <= n /\ new[j] = log[i] /\ log[i].kind = kind
  <2>1. j \in 1..Len(got) /\ new[j] = got[j]
    BY <1>1, <1>2
  <2>2. \E i \in 1..Len(log) : i <= n /\ got[j] = log[i] /\ log[i].kind = kind
    BY <2>1 DEF Delivered
  <2> QED BY <2>1, <2>2
<1>4. \A i, j \in 1..m : i < j => new[i].id < new[j].id
  BY <1>1, <1>2 DEF Delivered
<1>5. ASSUME NEW i \in 1..Len(log), NEW j \in 1..m, log[i].kind = kind, log[i].id < new[j].id
      PROVE  \E l \in 1..m : new[l] = log[i]
  <2>1. j \in 1..Len(got) /\ new[j] = got[j]
    BY <1>1, <1>2
  <2>2. PICK l \in 1..Len(got) : got[l] = log[i]
    BY <1>5, <2>1 DEF Delivered
  <2>3. ~(j < l)
    <3>1. \A k \in 1..Len(got) : got[k].id \in Nat
      BY <1>1, ElementOfSeq, IdType
    <3>2. j < l => got[j].id < got[l].id
      BY <2>1 DEF Delivered
    <3> QED BY <1>5, <2>1, <2>2, <3>1, <3>2
  <2>4. l \in 1..m
    BY <1>1, <2>3
  <2> QED BY <1>2, <2>2, <2>4
<1> QED BY <1>2, <1>3, <1>4, <1>5 DEF Delivered, new

\* What is delivered is the first frames of the kind.
LEMMA DeliveredFirst ==
  ASSUME NEW log \in Seq(Frames), NEW all \in Seq(Frames), NEW got, NEW kind, NEW n, NEW over,
         Delivered(got, over, log, n, kind), Rising(all), Len(log) <= Len(all),
         \A i \in 1..Len(log) : all[i] = log[i]
  PROVE  FirstOfKind(got, all, kind)
<1>1. /\ Len(log) \in Nat /\ Len(all) \in Nat /\ 1..Len(log) \subseteq 1..Len(all)
      /\ got \in Seq(Frames) /\ Range(all) = {all[i] : i \in 1..Len(all)}
      /\ Range(got) = {got[i] : i \in 1..Len(got)}
  BY LenProperties DEF Delivered, Range
<1>2. ASSUME NEW j \in 1..Len(got)
      PROVE  \E i \in 1..Len(all) : i \in 1..Len(log) /\ got[j] = all[i] /\ all[i].kind = kind
  <2>1. PICK i \in 1..Len(log) : got[j] = log[i] /\ log[i].kind = kind
    BY DEF Delivered
  <2> QED BY <1>1, <2>1
<1>3. ASSUME NEW i \in 1..Len(all), NEW j \in 1..Len(got), all[i].kind = kind,
             all[i].id < got[j].id
      PROVE  all[i] \in Range(got)
  <2>1. PICK m \in 1..Len(all) : m \in 1..Len(log) /\ got[j] = all[m]
    BY <1>2
  <2>2. ~(m < i)
    <3>1. \A k \in 1..Len(all) : all[k].id \in Nat
      BY ElementOfSeq, IdType
    <3>2. m < i => all[m].id < all[i].id
      BY DEF Rising
    <3> QED BY <1>3, <2>1, <3>1, <3>2
  <2>3. i \in 1..Len(log) /\ all[i] = log[i]
    BY <1>1, <2>1, <2>2
  <2>4. \E l \in 1..Len(got) : got[l] = log[i]
    BY <1>3, <2>3 DEF Delivered
  <2> QED BY <1>1, <2>3, <2>4
<1>4. \A i, j \in 1..Len(got) : i < j => got[i].id < got[j].id
  BY DEF Delivered
<1> QED BY <1>1, <1>2, <1>3, <1>4 DEF FirstOfKind

(***************************************************************************)
(* The streams at the two ends.                                            *)
(***************************************************************************)
LEMMA SeqOfLen ==
  ASSUME NEW n \in Nat, NEW s, s = [k \in 1..n |-> s[k]]
  PROVE  Len(s) = n
<1>1. s \in [1..n -> {s[k] : k \in 1..n}]
  OBVIOUS
<1>2. s \in Seq({s[k] : k \in 1..n})
  BY <1>1
<1> QED BY <1>1, <1>2

LEMMA InReplies ==
  ASSUME NEW n \in Nat, NEW msgs, NEW over, NEW e, In!Replies(n, msgs, over, e)
  PROVE  /\ inAnswers' = [k \in 1..n |-> In!Reply(k, msgs, over, e)]
         /\ Len(inAnswers') = n
<1>1. inAnswers' = [k \in 1..n |-> In!Reply(k, msgs, over, e)]
  BY DEF In!Replies
<1>2. inAnswers' = [k \in 1..n |-> inAnswers'[k]]
  BY <1>1
<1> QED BY <1>1, <1>2, SeqOfLen

LEMMA MessagesReplies ==
  ASSUME NEW n \in Nat, NEW msgs, NEW over, NEW e, Client!Messages!Replies(n, msgs, over, e)
  PROVE  Len(cliAnswers') = n
<1>1. cliAnswers' = [k \in 1..n |-> Client!Messages!Reply(k, msgs, over, e)]
  BY DEF Client!Messages!Replies
<1>2. cliAnswers' = [k \in 1..n |-> cliAnswers'[k]]
  BY <1>1
<1> QED BY <1>2, SeqOfLen

\* What the next answer of connection.messages says.
LEMMA AnswerFacts ==
  ASSUME InboxInv, PumpInv, Len(inAnswers) = pumped + 1
  PROVE  /\ Answer.kind = "value" =>
              pumped + 1 \in 1..Len(inSent) /\ Answer.value = inSent[pumped + 1]
         /\ Answer.kind # "value" => Len(inSent) <= pumped
         /\ Answer.kind \in {"done", "failed"} => inEnded
<1>1. /\ pumped \in Nat /\ Len(inSent) \in Nat /\ pumped + 1 \in 1..Len(inAnswers)
  BY LenProperties DEF PumpInv, InboxInv
<1>2. inAnswers[pumped + 1] = In!Reply(pumped + 1, inSent, inEnded, inFailure)
  BY <1>1 DEF InboxInv
<1> QED BY <1>1, <1>2 DEF Answer, In!Reply, In!Ending

LEMMA EndInboxFacts ==
  ASSUME Booleans, InboxInv, NEW e, EndInbox(e)
  PROVE  /\ inSent' = inSent /\ inEnded' = TRUE
         /\ Len(inAnswers') = Len(inAnswers)
         /\ inAnswers' = [k \in 1..Len(inAnswers) |-> In!Reply(k, inSent, inEnded', inFailure')]
<1>1. CASE inEnded
  <2>1. UNCHANGED <<inSent, inAnswers, inEnded, inFailure>>
    BY <1>1 DEF EndInbox, inbox
  <2> QED BY <1>1, <2>1 DEF InboxInv, Booleans
<1>2. CASE ~inEnded
  <2>1. /\ inSent' = inSent /\ inEnded' = TRUE /\ inFailure' = e
        /\ In!Replies(Len(inAnswers), inSent, TRUE, e)
    BY <1>2 DEF EndInbox, In!Close
  <2>2. Len(inAnswers) \in Nat
    BY DEF InboxInv
  <2>3. /\ inAnswers' = [k \in 1..Len(inAnswers) |-> In!Reply(k, inSent, TRUE, e)]
        /\ Len(inAnswers') = Len(inAnswers)
    BY <2>1, <2>2, InReplies
  <2> QED BY <2>1, <2>3
<1> QED BY <1>1, <1>2

LEMMA ClientEndAll ==
  ASSUME Booleans, ClientInv, NEW e, Client!EndAll(e)
  PROVE  /\ cliSent' = cliSent /\ binSent' = binSent /\ cliEnded' = TRUE /\ binEnded' = TRUE
         /\ Len(cliAnswers') = Len(cliAnswers)
<1>1. binSent' = binSent /\ binEnded' = TRUE
  BY DEF Booleans, Client!EndAll, Client!binary, Client!Binary!Close
<1>2. CASE cliEnded
  BY <1>1, <1>2 DEF Booleans, Client!EndAll, Client!messages
<1>3. CASE ~cliEnded
  <2>1. /\ cliSent' = cliSent /\ cliEnded' = TRUE
        /\ Client!Messages!Replies(Len(cliAnswers), cliSent, TRUE, e)
    BY <1>3 DEF Client!EndAll, Client!Messages!Close
  <2>2. Len(cliAnswers) \in Nat
    BY DEF ClientInv
  <2> QED BY <1>1, <2>1, <2>2, MessagesReplies
<1> QED BY <1>2, <1>3

LEMMA ServerEndAll ==
  ASSUME Booleans, ServerInv, NEW e, Server!EndAll(e)
  PROVE  /\ srvSent' = srvSent /\ srvEnded' = TRUE
         /\ srvBinSent' = srvBinSent /\ srvBinEnded' = TRUE
<1>1. srvBinEnded = TRUE
  BY DEF ServerInv
<1>2. srvBinSent' = srvBinSent /\ srvBinEnded' = TRUE
  BY <1>1 DEF Server!EndAll, Server!binary
<1> QED
  BY <1>2 DEF Booleans, Server!EndAll, Server!messages, Server!Messages!Close

\* What accept() does to the messages and to the binary stream of the client.
LEMMA ClientAccept ==
  ASSUME Booleans, ClientInv, NEW f, NEW o, Client!Accept(f, o)
  PROVE  /\ Len(cliAnswers') = Len(cliAnswers)
         /\ cliEnded' \in BOOLEAN /\ binEnded' \in BOOLEAN
         /\ Client!Closes(f, o) =>
              cliSent' = cliSent /\ binSent' = binSent /\ cliEnded' = TRUE /\ binEnded' = TRUE
         /\ ~Client!Closes(f, o) => cliEnded' = cliEnded /\ binEnded' = binEnded
         /\ ~Client!Closes(f, o) =>
              cliSent' = IF f.kind = "valid" /\ ~cliEnded THEN Append(cliSent, f) ELSE cliSent
         /\ ~Client!Closes(f, o) =>
              binSent' = IF f.kind = "binary" /\ ~binEnded THEN Append(binSent, f) ELSE binSent
<1>0. Len(cliAnswers) \in Nat
  BY DEF ClientInv
<1>1. CASE Client!Deliver(f, o)
  <2>1. f.kind = "valid" /\ ~Client!Closes(f, o) /\ binSent' = binSent /\ binEnded' = binEnded
    BY <1>1 DEF Client!Deliver, Client!Closes, Client!binary
  <2>2. CASE cliEnded
    BY <1>1, <2>1, <2>2 DEF Client!Deliver, Client!messages, Booleans
  <2>3. CASE ~cliEnded
    <3>1. /\ cliSent' = Append(cliSent, f) /\ cliEnded' = cliEnded
          /\ Client!Messages!Replies(Len(cliAnswers), Append(cliSent, f), cliEnded, cliFailure)
      BY <1>1, <2>3 DEF Client!Deliver, Client!Messages!Send
    <3>2. Len(cliAnswers') = Len(cliAnswers)
      BY <1>0, <3>1, MessagesReplies
    <3> QED BY <2>1, <2>3, <3>1, <3>2 DEF Booleans
  <2> QED BY <2>2, <2>3
<1>2. CASE Client!Keep(f, o)
  <2>1. /\ f.kind # "valid" /\ ~Client!Closes(f, o) /\ cliSent' = cliSent /\ cliEnded' = cliEnded
        /\ cliAnswers' = cliAnswers
    BY <1>2 DEF Client!Keep, Client!messages
  <2>2. /\ binSent' = IF f.kind = "binary" /\ ~binEnded THEN Append(binSent, f) ELSE binSent
        /\ binEnded' = binEnded
    BY <1>2 DEF Client!Keep, Client!binary, Client!Binary!Send
  <2> QED BY <2>1, <2>2 DEF Booleans
<1>3. CASE Client!Closes(f, o) /\ Client!EndAll(NoError)
  BY <1>3, ClientEndAll
<1> QED BY <1>1, <1>2, <1>3 DEF Client!Accept

LEMMA ServerAccept ==
  ASSUME Booleans, ServerInv, NEW f, NEW o, Server!Accept(f, o)
  PROVE  /\ srvBinSent' = srvBinSent /\ srvBinEnded' = TRUE /\ srvEnded' \in BOOLEAN
         /\ srvEnded => srvEnded'
         /\ \/ srvSent' = srvSent /\ (f.kind = "valid" => srvEnded')
            \/ srvSent' = Append(srvSent, f) /\ f.kind = "valid" /\ ~srvEnded
<1>0. srvBinEnded = TRUE
  BY DEF ServerInv
<1>1. CASE Server!Deliver(f, o)
  <2>1. f.kind = "valid" /\ srvBinSent' = srvBinSent /\ srvBinEnded' = srvBinEnded
    BY <1>1 DEF Server!Deliver, Server!binary
  <2> QED BY <1>0, <1>1, <2>1 DEF Server!Deliver, Server!messages, Server!Messages!Send, Booleans
<1>2. CASE Server!Keep(f, o)
  BY <1>0, <1>2 DEF Server!Keep, Server!messages, Server!binary, Booleans
<1>3. CASE Server!Closes(f, o) /\ Server!EndAll(NoError)
  BY <1>3, ServerEndAll
<1> QED BY <1>1, <1>2, <1>3 DEF Server!Accept

\* connection.close()
LEMMA CloseConnectionFacts ==
  ASSUME IInv, CloseConnection
  PROVE  /\ cDone' = TRUE
         /\ WireInv(up', upLog, TRUE) /\ Gone(up', upLog) = Gone(up, upLog)
         /\ broken => up' = <<>>
         /\ inSent' = inSent /\ Len(inAnswers') = Len(inAnswers)
         /\ inAnswers' = [k \in 1..Len(inAnswers) |-> In!Reply(k, inSent, inEnded', inFailure')]
         /\ inEnded' \in BOOLEAN /\ (inEnded => inEnded')
         /\ inFailure' # NoError => inEnded'
<1>1. cDone' = TRUE
  BY DEF CloseConnection
<1>2. /\ WireInv(up', upLog, TRUE) /\ Gone(up', upLog) = Gone(up, upLog)
      /\ broken => up' = <<>>
  <2>0. /\ WireInv(up, upLog, cDone \/ cClosed) /\ upLog \in Seq(Frames)
        /\ broken => up = <<>>
    BY DEF IInv, WiresInv, LogInv
  <2>1. CASE cDone \/ cClosed \/ broken
    <3>1. up' = up
      BY <2>1 DEF CloseConnection
    <3> QED BY <2>0, <3>1, WireClosing
  <2>2. CASE ~(cDone \/ cClosed \/ broken)
    <3>1. up' = Append(up, Bye)
      BY <2>2 DEF CloseConnection
    <3>2. WireInv(up, upLog, FALSE)
      BY <2>0, <2>2, WireClosing
    <3> QED BY <2>0, <2>2, <3>1, <3>2, WireBye
  <2> QED BY <2>1, <2>2
<1>3. CASE quic /\ ~cDone
  <2>1. EndInbox(NoError)
    BY <1>3 DEF CloseConnection
  <2> QED BY <1>1, <1>2, <2>1, EndInboxFacts DEF IInv
<1>4. CASE ~(quic /\ ~cDone)
  <2>1. UNCHANGED <<inSent, inAnswers, inEnded, inFailure>>
    BY <1>4 DEF CloseConnection, inbox
  <2> QED BY <1>1, <1>2, <2>1 DEF IInv, InboxInv, Booleans
<1> QED BY <1>3, <1>4


(***************************************************************************)
(* What a step that leaves a part alone keeps of it.                       *)
(***************************************************************************)
LEMMA RisingLogs ==
  ASSUME LogInv
  PROVE  Rising(downLog) /\ Rising(upLog)
<1>1. /\ MaxDown \in Nat /\ Len(downLog) \in Nat /\ Len(upLog) \in Nat
      /\ \A i \in 1..Len(downLog) : downLog[i].id = i
      /\ \A i \in 1..Len(upLog) : upLog[i].id = MaxDown + i
  BY LinkAssumption, LenProperties DEF LogInv, LinkAssumption
<1> QED BY <1>1 DEF Rising

LEMMA RisingInbox ==
  ASSUME LogInv, InboxInv
  PROVE  Rising(inSent)
<1>1. /\ Len(downLog) \in Nat /\ Len(inSent) \in Nat /\ Len(inSent) <= Len(downLog)
      /\ \A i \in 1..Len(inSent) : inSent[i] = downLog[i]
  BY LenProperties DEF LogInv, InboxInv
<1> QED BY <1>1, RisingLogs DEF Rising

LEMMA LogFrame == LogInv /\ UNCHANGED <<downLog, upLog>> => LogInv'
BY DEF LogInv

LEMMA WiresFrame ==
  WiresInv /\ UNCHANGED <<wire, downLog, upLog, ends, broken>> => WiresInv'
BY DEF WiresInv, wire, ends

LEMMA InboxFrame ==
  ASSUME InboxInv, UNCHANGED <<inbox, downLog>>, broken => broken',
         inEnded \/ broken' \/ Gone(down', downLog) = Gone(down, downLog),
         cClosed' => inEnded
  PROVE  InboxInv'
<1>1. /\ inSent' = inSent /\ inAnswers' = inAnswers /\ inEnded' = inEnded
      /\ inFailure' = inFailure /\ downLog' = downLog
  BY DEF inbox
<1> QED BY <1>1 DEF InboxInv

LEMMA PumpFrame ==
  ASSUME PumpInv, UNCHANGED <<pump, inSent, pardoned>>, Len(inAnswers') = Len(inAnswers),
         inEnded => inEnded', cDone => cDone',
         inEnded' /\ ~cDone' => Len(inSent) <= pumped
  PROVE  PumpInv'
<1>1. pumped' = pumped /\ pumpOver' = pumpOver /\ pardoned' = pardoned
  BY DEF pump
<1> QED BY <1>1 DEF PumpInv

LEMMA ClientFrame ==
  ASSUME ClientInv, UNCHANGED <<client, pumped, inSent>>,
         cDone => cDone', left => left', inEnded => inEnded'
  PROVE  ClientInv'
<1>1. /\ cliSent' = cliSent /\ cliAnswers' = cliAnswers /\ cliEnded' = cliEnded /\ binSent' = binSent
      /\ binEnded' = binEnded /\ pumped' = pumped /\ inSent' = inSent
  BY DEF client
<1> QED BY <1>1 DEF ClientInv

\* The client's streams end with nothing more handed to them.
LEMMA ClientOver ==
  ASSUME IInv, UNCHANGED <<cliSent, binSent, inSent>>,
         Len(cliAnswers') = Len(cliAnswers), cliEnded' = TRUE, binEnded' = TRUE,
         pumped' \in Nat, pumped <= pumped', cDone' \/ left' \/ inEnded'
  PROVE  ClientInv'
<1>1. /\ inSent \in Seq(Frames) /\ pumped \in Nat
      /\ Delivered(cliSent, cliEnded, inSent, pumped, "valid")
      /\ Delivered(binSent, binEnded, inSent, pumped, "binary")
      /\ Len(cliAnswers) \in Nat
  BY DEF IInv, InboxInv, PumpInv, ClientInv
<1>2. Delivered(cliSent, TRUE, inSent, pumped', "valid")
  BY <1>1, DeliveredOver
<1>3. Delivered(binSent, TRUE, inSent, pumped', "binary")
  BY <1>1, DeliveredOver
<1> QED BY <1>1, <1>2, <1>3 DEF ClientInv

LEMMA ServerFrame ==
  ASSUME IInv, UNCHANGED <<server, upLog>>, broken => broken',
         Gone(up', upLog) \in Nat,
         Gone(up', upLog) = Gone(up, upLog) \/ (broken' /\ Gone(up, upLog) <= Gone(up', upLog)),
         sClosed' => srvEnded
  PROVE  ServerInv'
<1>1. /\ srvSent' = srvSent /\ srvEnded' = srvEnded /\ srvBinSent' = srvBinSent
      /\ srvBinEnded' = srvBinEnded /\ upLog' = upLog
  BY DEF server
<1>2. /\ upLog \in Seq(Frames) /\ Gone(up, upLog) \in Nat
      /\ Delivered(srvSent, srvEnded \/ broken, upLog, Gone(up, upLog), "valid")
      /\ srvBinSent = <<>> /\ srvBinEnded = TRUE
  BY WireType DEF IInv, LogInv, WiresInv, ServerInv
<1>3. Gone(up, upLog) <= Gone(up', upLog)
  BY <1>2
<1>4. Delivered(srvSent, srvEnded \/ broken', upLog, Gone(up', upLog), "valid")
  BY <1>2, <1>3, DeliveredOver
<1> QED BY <1>1, <1>2, <1>4 DEF ServerInv

\* The server's streams end with nothing more handed to them.
LEMMA ServerOver ==
  ASSUME IInv, UNCHANGED <<srvSent, srvBinSent, upLog>>, srvEnded' = TRUE,
         srvBinEnded' = TRUE, Gone(up', upLog) \in Nat,
         Gone(up, upLog) <= Gone(up', upLog)
  PROVE  ServerInv'
<1>2. /\ upLog \in Seq(Frames) /\ Gone(up, upLog) \in Nat
      /\ Delivered(srvSent, srvEnded \/ broken, upLog, Gone(up, upLog), "valid")
      /\ srvBinSent = <<>>
  BY WireType DEF IInv, LogInv, WiresInv, ServerInv
<1>4. Delivered(srvSent, TRUE, upLog, Gone(up', upLog), "valid")
  BY <1>2, DeliveredOver
<1>5. Delivered(srvSent, srvEnded' \/ broken', upLog, Gone(up', upLog), "valid")
  BY <1>4
<1> QED BY <1>2, <1>5 DEF ServerInv

\* Once the pump has drained the inbox, the client has been given all of it.
LEMMA Drained ==
  ASSUME InboxInv, PumpInv, ClientInv, ~cliEnded, Len(inSent) <= pumped
  PROVE  \A i \in 1..Len(inSent) : inSent[i].kind = "valid" => inSent[i] \in Range(cliSent)
<1>1. Delivered(cliSent, cliEnded, inSent, pumped, "valid") /\ Len(inSent) \in Nat
  BY LenProperties DEF ClientInv, InboxInv
<1>2. pumped \in Nat
  BY DEF PumpInv
<1>3. Range(cliSent) = {cliSent[l] : l \in 1..Len(cliSent)}
  BY <1>1, LenProperties DEF Range, Delivered
<1> SUFFICES ASSUME NEW i \in 1..Len(inSent), inSent[i].kind = "valid"
             PROVE  inSent[i] \in Range(cliSent)
  OBVIOUS
<1>4. \E l \in 1..Len(cliSent) : cliSent[l] = inSent[i]
  <2>1. i <= pumped
    BY <1>1, <1>2
  <2> QED BY <1>1, <2>1 DEF Delivered
<1> QED BY <1>3, <1>4

\* A step that leaves the inbox and what the pump has done with it alone.
LEMMA JudgeFrame ==
  ASSUME IInv, UNCHANGED <<inSent, pumped, pardoned, cliSent>>,
         cDone => cDone', cliEnded => cliEnded', left => left',
         cliEnded' /\ ~cDone' /\ ~left' => cliEnded \/ Len(inSent) <= pumped
  PROVE  ViolationsClose' /\ CloseKeepsFrames'
<1>1. ViolationsClose'
  BY DEF IInv, ViolationsClose
<1>2. CloseKeepsFrames'
  BY Drained DEF IInv, CloseKeepsFrames
<1> QED BY <1>1, <1>2

\* The event of the transport finds the pump parked or gone.
LEMMA Parked ==
  ASSUME InboxInv, PumpInv, MicrotasksDone
  PROVE  Len(inSent) <= pumped
<1>1. CASE pumpOver
  BY <1>1 DEF PumpInv
<1>2. CASE Len(inAnswers) = pumped + 1 /\ inAnswers[pumped + 1].kind = "pending"
  BY <1>2, AnswerFacts DEF Answer
<1> QED BY <1>1, <1>2 DEF MicrotasksDone

(***************************************************************************)
(* The client.                                                             *)
(***************************************************************************)
\* next() on connection.messages
LEMMA InQuestion ==
  ASSUME InboxInv, In!Question
  PROVE  /\ UNCHANGED <<inSent, inEnded, inFailure>>
         /\ Len(inAnswers') = Len(inAnswers) + 1
         /\ inAnswers' =
              [k \in 1..(Len(inAnswers) + 1) |-> In!Reply(k, inSent, inEnded, inFailure)]
<1>1. Len(inAnswers) + 1 \in Nat
  BY DEF InboxInv
<1>2. /\ UNCHANGED <<inSent, inEnded, inFailure>>
      /\ In!Replies(Len(inAnswers) + 1, inSent, inEnded, inFailure)
  BY DEF In!Question
<1> QED BY <1>1, <1>2, InReplies

LEMMA PumpAsksKeeps ==
  ASSUME IInv, PumpAsks
  PROVE  IInv'
<1>1. /\ ~pumpOver /\ Len(inAnswers) = pumped
      /\ UNCHANGED <<inSent, inEnded, inFailure>>
      /\ Len(inAnswers') = Len(inAnswers) + 1
      /\ inAnswers' =
           [k \in 1..(Len(inAnswers) + 1) |-> In!Reply(k, inSent, inEnded, inFailure)]
  BY InQuestion DEF IInv, PumpAsks
<1>2. UNCHANGED <<pump, client, server, wire, ends, quic, broken, closedSeen, logs>>
  BY DEF PumpAsks
<1>3. Booleans'
  BY <1>1, <1>2 DEF IInv, Booleans, pump, client, server, ends, logs
<1>4. LogInv' /\ WiresInv'
  BY <1>2, LogFrame, WiresFrame DEF IInv, logs
<1>5. InboxInv'
  BY <1>1, <1>2 DEF IInv, InboxInv, wire, logs, ends
<1>6. PumpInv'
  BY <1>1, <1>2 DEF IInv, PumpInv, pump, ends, logs
<1>7. ClientInv'
  BY <1>1, <1>2, ClientFrame DEF IInv, pump, ends, logs
<1>8. ServerInv'
  <2>1. Gone(up, upLog) \in Nat /\ (sClosed => srvEnded)
    BY WireType DEF IInv, LogInv, WiresInv, ServerInv
  <2> QED BY <1>2, <2>1, ServerFrame DEF wire, logs, ends
<1>9. ViolationsClose' /\ CloseKeepsFrames'
  BY <1>1, <1>2, JudgeFrame DEF pump, logs, ends, client
<1> QED BY <1>3, <1>4, <1>5, <1>6, <1>7, <1>8, <1>9 DEF IInv

LEMMA PumpEndsKeeps ==
  ASSUME IInv, PumpEnds
  PROVE  IInv'
<1> DEFINE e == IF Answer.kind = "failed" THEN Answer.error ELSE NoError
<1>1. /\ ~pumpOver /\ Len(inAnswers) = pumped + 1 /\ Answer.kind \in {"done", "failed"}
      /\ pumped' = pumped + 1 /\ pumpOver' = TRUE /\ Client!EndAll(e)
      /\ UNCHANGED <<inbox, server, wire, ends, quic, broken, closedSeen, logs>>
  BY DEF PumpEnds, Answered
<1> HIDE DEF e
<1>2. inEnded /\ Len(inSent) <= pumped /\ pumped \in Nat /\ Len(inSent) \in Nat
  BY <1>1, AnswerFacts, LenProperties DEF IInv, PumpInv, InboxInv
<1>a. /\ inSent' = inSent /\ inAnswers' = inAnswers /\ inEnded' = inEnded /\ left' = left
      /\ cDone' = cDone /\ pardoned' = pardoned /\ upLog' = upLog /\ downLog' = downLog
      /\ down' = down /\ up' = up /\ sClosed' = sClosed /\ cClosed' = cClosed
  BY <1>1 DEF inbox, logs, ends, wire
<1>b. /\ cliSent' = cliSent /\ binSent' = binSent /\ cliEnded' = TRUE /\ binEnded' = TRUE
      /\ Len(cliAnswers') = Len(cliAnswers)
  BY <1>1, ClientEndAll DEF IInv
<1>3. Booleans'
  BY <1>1, <1>a, <1>b DEF IInv, Booleans, ends, server
<1>4. LogInv' /\ WiresInv'
  BY <1>1, <1>a, LogFrame, WiresFrame DEF IInv
<1>5. InboxInv'
  BY <1>1, <1>a, InboxFrame DEF IInv, InboxInv
<1>6. PumpInv'
  <2>1. /\ pumped' \in Nat /\ pumped' <= Len(inAnswers') /\ Len(inAnswers') <= pumped' + 1
        /\ Len(inSent') <= pumped'
    BY <1>1, <1>2, <1>a
  <2> QED BY <1>1, <1>2, <1>a, <2>1 DEF IInv, PumpInv
<1>7. ClientInv'
  BY <1>1, <1>2, <1>a, <1>b, ClientOver
<1>8. ServerInv'
  <2>1. Gone(up, upLog) \in Nat /\ (sClosed => srvEnded)
    BY WireType DEF IInv, LogInv, WiresInv, ServerInv
  <2> QED BY <1>1, <1>a, <2>1, ServerFrame
<1>9. ViolationsClose'
  <2> SUFFICES ASSUME NEW i \in 1..Len(inSent), inSent[i].kind = "bad",
                      inSent[i].id \notin pardoned
               PROVE  cDone /\ \A j \in 1..Len(cliSent) : cliSent[j].id < inSent[i].id
    BY <1>a, <1>b DEF ViolationsClose
  <2>1. i <= pumped
    BY <1>2
  <2> QED BY <2>1 DEF IInv, ViolationsClose
<1>10. CloseKeepsFrames'
  BY <1>2, <1>a, <1>b, Drained DEF IInv, CloseKeepsFrames
<1> QED BY <1>3, <1>4, <1>5, <1>6, <1>7, <1>8, <1>9, <1>10 DEF IInv

LEMMA ClosedHandlerKeeps ==
  ASSUME IInv, ClosedHandler
  PROVE  IInv'
<1>1. /\ cClosed /\ closedSeen' = TRUE /\ Client!EndAll(NoError)
      /\ UNCHANGED <<inbox, pump, server, wire, ends, quic, broken, logs>>
  BY DEF ClosedHandler
<1>2. inEnded /\ pumped \in Nat /\ (~cDone => Len(inSent) <= pumped)
  BY <1>1 DEF IInv, PumpInv, InboxInv
<1>a. /\ inSent' = inSent /\ inAnswers' = inAnswers /\ inEnded' = inEnded /\ left' = left
      /\ cDone' = cDone /\ pardoned' = pardoned /\ upLog' = upLog /\ downLog' = downLog
      /\ down' = down /\ up' = up /\ sClosed' = sClosed /\ cClosed' = cClosed
      /\ pumped' = pumped /\ pumpOver' = pumpOver
  BY <1>1 DEF inbox, logs, ends, wire, pump
<1>b. /\ cliSent' = cliSent /\ binSent' = binSent /\ cliEnded' = TRUE /\ binEnded' = TRUE
      /\ Len(cliAnswers') = Len(cliAnswers)
  BY <1>1, ClientEndAll DEF IInv
<1>3. Booleans'
  BY <1>1, <1>a, <1>b DEF IInv, Booleans, ends, server
<1>4. LogInv' /\ WiresInv'
  BY <1>1, <1>a, LogFrame, WiresFrame DEF IInv
<1>5. InboxInv'
  BY <1>1, <1>a, InboxFrame DEF IInv, InboxInv
<1>6. PumpInv'
  BY <1>1, <1>2, <1>a, PumpFrame DEF IInv
<1>7. ClientInv'
  BY <1>1, <1>2, <1>a, <1>b, ClientOver
<1>8. ServerInv'
  <2>1. Gone(up, upLog) \in Nat /\ (sClosed => srvEnded)
    BY WireType DEF IInv, LogInv, WiresInv, ServerInv
  <2> QED BY <1>1, <1>a, <2>1, ServerFrame
<1>9. ViolationsClose' /\ CloseKeepsFrames'
  BY <1>2, <1>a, <1>b, JudgeFrame
<1> QED BY <1>3, <1>4, <1>5, <1>6, <1>7, <1>8, <1>9 DEF IInv

LEMMA ClientSendsKeeps ==
  ASSUME IInv, NEW kind \in Kinds, ClientSends(kind)
  PROVE  IInv'
<1> DEFINE f == [id |-> MaxDown + Len(upLog) + 1, kind |-> kind]
<1>1. /\ ~cDone /\ ~cClosed /\ ~broken /\ Len(upLog) < MaxUp
      /\ up' = Append(up, f) /\ upLog' = Append(upLog, f)
      /\ UNCHANGED <<inbox, pump, client, server, down, ends, quic, broken,
                     closedSeen, left, pardoned, downLog>>
  BY DEF ClientSends
<1>a. /\ inSent' = inSent /\ inAnswers' = inAnswers /\ inEnded' = inEnded
      /\ cDone' = cDone /\ sClosed' = sClosed /\ cClosed' = cClosed /\ sDone' = sDone
      /\ pumped' = pumped /\ cliSent' = cliSent /\ cliEnded' = cliEnded
  BY <1>1 DEF inbox, ends, pump, client
<1>2. /\ upLog \in Seq(Frames) /\ Len(upLog) \in Nat /\ MaxDown \in Nat /\ MaxUp \in Nat
      /\ \A i \in 1..Len(upLog) : upLog[i].id = MaxDown + i
      /\ WireInv(up, upLog, FALSE)
  <2>1. WireInv(up, upLog, FALSE)
    BY <1>1, WireClosing DEF IInv, WiresInv
  <2> QED BY <2>1, LinkAssumption, LenProperties DEF IInv, LogInv, LinkAssumption
<1>3. f \in Frames
  BY <1>1, <1>2 DEF Frames
<1>4. /\ upLog' \in Seq(Frames) /\ Len(upLog') = Len(upLog) + 1
      /\ \A i \in 1..Len(upLog) : upLog'[i] = upLog[i]
      /\ upLog'[Len(upLog) + 1].id = MaxDown + (Len(upLog) + 1)
  BY <1>1, <1>2, <1>3, AppendProperties
<1>5. /\ WireInv(up', upLog', cDone' \/ cClosed')
      /\ Gone(up', upLog') = Gone(up, upLog)
  BY <1>1, <1>2, <1>3, WireSend
<1> HIDE DEF f
<1>6. Booleans'
  BY <1>1 DEF IInv, Booleans, inbox, pump, client, server, ends
<1>7. LogInv'
  <2>1. Len(upLog') <= MaxUp
    BY <1>1, <1>2, <1>4
  <2>2. ASSUME NEW i \in 1..Len(upLog')
        PROVE  upLog'[i].id = MaxDown + i
    <3>1. i \in 1..Len(upLog) \/ i = Len(upLog) + 1
      BY <1>2, <1>4
    <3>2. CASE i \in 1..Len(upLog)
      BY <3>2, <1>2, <1>4
    <3>3. CASE i = Len(upLog) + 1
      BY <3>3, <1>4
    <3> QED BY <3>1, <3>2, <3>3
  <2> QED BY <1>1, <1>4, <2>1, <2>2 DEF IInv, LogInv
<1>8. WiresInv'
  BY <1>1, <1>5, <1>a DEF IInv, WiresInv
<1>9. InboxInv'
  BY <1>1, <1>a, InboxFrame DEF IInv, InboxInv
<1>10. PumpInv'
  BY <1>1, <1>a, PumpFrame DEF IInv, PumpInv
<1>11. ClientInv'
  BY <1>1, <1>a, ClientFrame DEF IInv
<1>12. ServerInv'
  <2>1. /\ Gone(up, upLog) \in Nat /\ Gone(up, upLog) <= Len(upLog)
        /\ Delivered(srvSent, srvEnded \/ broken, upLog, Gone(up, upLog), "valid")
        /\ srvBinSent = <<>> /\ srvBinEnded = TRUE /\ (sClosed => srvEnded)
    BY WireType DEF IInv, LogInv, WiresInv, ServerInv
  <2>r. Rising(upLog')
    BY <1>2, <1>4, <1>7 DEF LogInv, Rising
  <2>2. Delivered(srvSent, srvEnded \/ broken, upLog', Gone(up, upLog), "valid")
    <3>1. Len(upLog) <= Len(upLog')
      BY <1>2, <1>4
    <3> QED BY <1>2, <1>4, <2>1, <2>r, <3>1, DeliveredGrows
  <2> QED BY <1>1, <1>5, <2>1, <2>2 DEF ServerInv, server, ends
<1>13. ViolationsClose' /\ CloseKeepsFrames'
  BY <1>1, <1>a, JudgeFrame
<1> QED BY <1>6, <1>7, <1>8, <1>9, <1>10, <1>11, <1>12, <1>13 DEF IInv

LEMMA ClientReadsKeeps ==
  ASSUME IInv, ClientReads
  PROVE  IInv'
<1>1. /\ ~left /\ Client!Messages!Question
      /\ UNCHANGED <<binSent, binAnswers, binEnded, binFailure, inbox, pump, server,
                     wire, ends, quic, broken, closedSeen, logs>>
  BY DEF ClientReads
<1>2. cliSent' = cliSent /\ cliEnded' = cliEnded /\ Len(cliAnswers') \in Nat
  <2>1. /\ cliSent' = cliSent /\ cliEnded' = cliEnded
        /\ Client!Messages!Replies(Len(cliAnswers) + 1, cliSent, cliEnded, cliFailure)
    BY <1>1 DEF Client!Messages!Question
  <2>2. Len(cliAnswers) + 1 \in Nat
    BY DEF IInv, ClientInv
  <2> QED BY <2>1, <2>2, MessagesReplies
<1>a. /\ inSent' = inSent /\ inAnswers' = inAnswers /\ inEnded' = inEnded /\ left' = left
      /\ cDone' = cDone /\ pardoned' = pardoned /\ upLog' = upLog /\ downLog' = downLog
      /\ down' = down /\ up' = up /\ sClosed' = sClosed /\ cClosed' = cClosed
      /\ pumped' = pumped /\ pumpOver' = pumpOver
  BY <1>1 DEF inbox, logs, ends, wire, pump
<1>3. Booleans'
  BY <1>1, <1>2, <1>a DEF IInv, Booleans, ends, server
<1>4. LogInv' /\ WiresInv'
  BY <1>1, <1>a, LogFrame, WiresFrame DEF IInv
<1>5. InboxInv'
  BY <1>1, <1>a, InboxFrame DEF IInv, InboxInv
<1>6. PumpInv'
  BY <1>1, <1>a, PumpFrame DEF IInv, PumpInv
<1>7. ClientInv'
  BY <1>1, <1>2, <1>a DEF IInv, ClientInv
<1>8. ServerInv'
  <2>1. Gone(up, upLog) \in Nat /\ (sClosed => srvEnded)
    BY WireType DEF IInv, LogInv, WiresInv, ServerInv
  <2> QED BY <1>1, <1>a, <2>1, ServerFrame
<1>9. ViolationsClose' /\ CloseKeepsFrames'
  BY <1>2, <1>a, JudgeFrame
<1> QED BY <1>3, <1>4, <1>5, <1>6, <1>7, <1>8, <1>9 DEF IInv

LEMMA PumpTakesKeeps ==
  ASSUME IInv, NEW opinion \in Client!Opinions, PumpTakes(opinion)
  PROVE  IInv'
<1> DEFINE f == Answer.value
<1> DEFINE closes == Client!Closes(f, opinion)
<1>1. /\ ~pumpOver /\ Len(inAnswers) = pumped + 1 /\ Answer.kind = "value"
      /\ pumped' = pumped + 1 /\ Client!Accept(f, opinion)
      /\ pardoned' = IF f.kind = "bad" /\ opinion = "ignore"
                     THEN pardoned \cup {f.id} ELSE pardoned
      /\ IF closes THEN CloseConnection ELSE UNCHANGED <<cDone, up, inbox>>
      /\ UNCHANGED <<pumpOver, server, down, sDone, cClosed, sClosed, quic, broken,
                     closedSeen, left, downLog, upLog>>
  BY DEF PumpTakes, Answered
<1>2. /\ pumped \in Nat /\ Len(inSent) \in Nat /\ inSent \in Seq(Frames)
      /\ pumped + 1 \in 1..Len(inSent) /\ f = inSent[pumped + 1]
      /\ Len(inSent) <= Len(downLog) /\ Rising(inSent) /\ Len(downLog) <= MaxDown
      /\ Len(downLog) \in Nat /\ MaxDown \in Nat
  BY <1>1, AnswerFacts, LenProperties, RisingInbox, LinkAssumption
     DEF IInv, PumpInv, InboxInv, LogInv, LinkAssumption
<1>3. /\ f \in Frames /\ f.id \in 1..MaxDown
  <2>1. f \in Frames
    BY <1>2, ElementOfSeq
  <2>2. pumped + 1 \in 1..Len(downLog) /\ f = downLog[pumped + 1]
    BY <1>2 DEF IInv, InboxInv
  <2>3. f.id = pumped + 1
    BY <2>2 DEF IInv, LogInv
  <2> QED BY <1>2, <2>1, <2>2, <2>3
<1> HIDE DEF f
<1>4. f.kind = "bad" /\ opinion # "ignore" => closes
  BY DEF Client!Opinions, Client!Closes
<1>5. closes => f.kind # "valid"
  BY DEF Client!Closes
<1>6. /\ Len(cliAnswers') = Len(cliAnswers)
      /\ cliEnded' \in BOOLEAN /\ binEnded' \in BOOLEAN
      /\ closes => cliSent' = cliSent /\ binSent' = binSent /\ cliEnded' = TRUE /\ binEnded' = TRUE
      /\ ~closes => cliEnded' = cliEnded /\ binEnded' = binEnded
      /\ ~closes => cliSent' = IF f.kind = "valid" /\ ~cliEnded THEN Append(cliSent, f) ELSE cliSent
      /\ ~closes =>
           binSent' = IF f.kind = "binary" /\ ~binEnded THEN Append(binSent, f) ELSE binSent
  BY <1>1, ClientAccept DEF IInv
<1> HIDE DEF closes
<1>7. /\ WireInv(up', upLog, cDone' \/ cClosed) /\ Gone(up', upLog) = Gone(up, upLog)
      /\ broken => up' = <<>>
      /\ inSent' = inSent /\ Len(inAnswers') = Len(inAnswers)
      /\ inAnswers' = [k \in 1..Len(inAnswers) |-> In!Reply(k, inSent, inEnded', inFailure')]
      /\ inEnded' \in BOOLEAN /\ (inEnded => inEnded')
      /\ inFailure' # NoError => inEnded'
      /\ cDone' \in BOOLEAN /\ (cDone => cDone')
      /\ closes => cDone'
      /\ inEnded' # inEnded => cDone'
  <2>1. CASE closes
    <3>1. cDone' = TRUE /\ WireInv(up', upLog, cDone' \/ cClosed)
      BY <1>1, <2>1, CloseConnectionFacts, WireClosing
    <3> QED BY <1>1, <2>1, <3>1, CloseConnectionFacts
  <2>2. CASE ~closes
    <3>1. /\ cDone' = cDone /\ up' = up /\ inSent' = inSent /\ inAnswers' = inAnswers
          /\ inEnded' = inEnded /\ inFailure' = inFailure
      BY <1>1, <2>2 DEF inbox
    <3> QED BY <2>2, <3>1 DEF IInv, Booleans, WiresInv, InboxInv
  <2> QED BY <2>1, <2>2
<1>8. Booleans'
  BY <1>1, <1>6, <1>7 DEF IInv, Booleans, server
<1>9. LogInv'
  BY <1>1, LogFrame DEF IInv
<1>10. WiresInv'
  BY <1>1, <1>7 DEF IInv, WiresInv
<1>11. InboxInv'
  BY <1>1, <1>7 DEF IInv, InboxInv
<1>12. PumpInv'
  <2>1. pardoned' \subseteq 1..MaxDown
    BY <1>1, <1>3 DEF IInv, PumpInv
  <2>2. /\ pumped' \in Nat /\ pumped' <= Len(inAnswers') /\ Len(inAnswers') <= pumped' + 1
        /\ pumped' <= Len(inSent')
    BY <1>1, <1>2, <1>7
  <2>3. inEnded' => cDone'
    <3>1. ~(Len(inSent) <= pumped)
      BY <1>2
    <3>2. inEnded => cDone
      BY <3>1 DEF IInv, PumpInv
    <3> QED BY <1>7, <3>2
  <2> QED BY <1>1, <2>1, <2>2, <2>3 DEF IInv, PumpInv
<1>13. ClientInv'
  <2>1. /\ Delivered(cliSent, cliEnded, inSent, pumped, "valid")
        /\ Delivered(binSent, binEnded, inSent, pumped, "binary")
        /\ Len(cliAnswers) \in Nat /\ (cliEnded => cDone \/ left \/ inEnded)
    BY DEF IInv, ClientInv
  <2>2. CASE closes
    <3>1. pumped' \in Nat /\ pumped <= pumped'
      BY <1>1, <1>2
    <3> QED BY <1>6, <1>7, <2>2, <3>1, ClientOver
  <2>3. CASE ~closes
    <3>1. Delivered(cliSent', cliEnded, inSent, pumped + 1, "valid")
      <4>1. CASE f.kind = "valid" /\ ~cliEnded
        <5>1. Delivered(cliSent, FALSE, inSent, pumped, "valid") /\ cliSent' = Append(cliSent, inSent[pumped + 1])
          BY <1>2, <1>6, <2>1, <2>3, <4>1
        <5> QED BY <1>2, <4>1, <5>1, DeliveredNext
      <4>2. CASE f.kind # "valid"
        BY <1>2, <1>6, <2>1, <2>3, <4>2, DeliveredSkip
      <4>3. CASE f.kind = "valid" /\ cliEnded
        <5>1. pumped <= pumped + 1 /\ pumped + 1 \in Nat
          BY <1>2
        <5>2. cliSent' = cliSent
          BY <1>6, <2>3, <4>3
        <5>3. Delivered(cliSent, cliEnded, inSent, pumped + 1, "valid")
          BY <1>2, <2>1, <4>3, <5>1, DeliveredOver
        <5> QED BY <5>2, <5>3
      <4> QED BY <4>1, <4>2, <4>3
    <3>2. Delivered(binSent', binEnded, inSent, pumped + 1, "binary")
      <4>1. CASE f.kind = "binary" /\ ~binEnded
        <5>1. /\ Delivered(binSent, FALSE, inSent, pumped, "binary")
              /\ binSent' = Append(binSent, inSent[pumped + 1])
          BY <1>2, <1>6, <2>1, <2>3, <4>1
        <5> QED BY <1>2, <4>1, <5>1, DeliveredNext
      <4>2. CASE f.kind # "binary"
        BY <1>2, <1>6, <2>1, <2>3, <4>2, DeliveredSkip
      <4>3. CASE f.kind = "binary" /\ binEnded
        <5>1. pumped <= pumped + 1 /\ pumped + 1 \in Nat
          BY <1>2
        <5>2. binSent' = binSent
          BY <1>6, <2>3, <4>3
        <5>3. Delivered(binSent, binEnded, inSent, pumped + 1, "binary")
          BY <1>2, <2>1, <4>3, <5>1, DeliveredOver
        <5> QED BY <5>2, <5>3
      <4> QED BY <4>1, <4>2, <4>3
    <3> QED BY <1>1, <1>6, <1>7, <2>1, <2>3, <3>1, <3>2 DEF ClientInv
  <2> QED BY <2>2, <2>3
<1>14. ServerInv'
  <2>1. Gone(up, upLog) \in Nat /\ (sClosed => srvEnded)
    BY WireType DEF IInv, LogInv, WiresInv, ServerInv
  <2> QED BY <1>1, <1>7, <2>1, ServerFrame
<1>15. ViolationsClose'
  <2> SUFFICES ASSUME NEW i \in 1..Len(inSent), i <= pumped + 1, inSent[i].kind = "bad",
                      inSent[i].id \notin pardoned'
               PROVE  /\ cDone' /\ cliEnded'
                      /\ \A j \in 1..Len(cliSent') : cliSent'[j].id < inSent[i].id
    BY <1>1, <1>7 DEF ViolationsClose
  <2>1. CASE i <= pumped
    <3>1. /\ cDone /\ cliEnded
          /\ \A j \in 1..Len(cliSent) : cliSent[j].id < inSent[i].id
      BY <1>1, <2>1 DEF IInv, ViolationsClose
    <3>2. cliSent' = cliSent /\ cliEnded'
      BY <1>6, <3>1
    <3> QED BY <1>7, <3>1, <3>2
  <2>2. CASE i = pumped + 1
    <3>1. f.kind = "bad" /\ opinion # "ignore"
      BY <1>1, <1>2, <2>2
    <3>2. closes /\ cDone' /\ cliEnded' /\ cliSent' = cliSent
      BY <1>4, <1>6, <1>7, <3>1
    <3>3. ASSUME NEW j \in 1..Len(cliSent) PROVE cliSent[j].id < inSent[i].id
      <4>1. PICK m \in 1..Len(inSent) : m <= pumped /\ cliSent[j] = inSent[m]
        BY DEF IInv, ClientInv, Delivered
      <4>2. m < i
        BY <1>2, <2>2, <4>1
      <4> QED BY <1>2, <4>1, <4>2 DEF Rising
    <3> QED BY <3>2, <3>3
  <2>3. i <= pumped \/ i = pumped + 1
    BY <1>2
  <2> QED BY <2>1, <2>2, <2>3
<1>16. CloseKeepsFrames'
  <2> SUFFICES ASSUME cliEnded', ~cDone', ~left'
               PROVE  \A i \in 1..Len(inSent) : inSent[i].kind = "valid" => inSent[i] \in Range(cliSent')
    BY <1>7 DEF CloseKeepsFrames
  <2>1. ~closes /\ cliEnded /\ ~cDone /\ ~left /\ cliSent' = cliSent
    BY <1>1, <1>6, <1>7
  <2> QED BY <2>1 DEF IInv, CloseKeepsFrames
<1> QED BY <1>8, <1>9, <1>10, <1>11, <1>12, <1>13, <1>14, <1>15, <1>16 DEF IInv

LEMMA ClientClosesKeeps ==
  ASSUME IInv, ClientCloses
  PROVE  IInv'
<1>1. /\ Client!EndAll(NoError) /\ CloseConnection
      /\ UNCHANGED <<pump, server, down, sDone, cClosed, sClosed, quic, broken, closedSeen, logs>>
  BY DEF ClientCloses
<1>a. /\ pardoned' = pardoned /\ upLog' = upLog /\ downLog' = downLog /\ left' = left
      /\ pumped' = pumped /\ pumpOver' = pumpOver
  BY <1>1 DEF logs, pump
<1>b. /\ cliSent' = cliSent /\ binSent' = binSent /\ cliEnded' = TRUE /\ binEnded' = TRUE
      /\ Len(cliAnswers') = Len(cliAnswers)
  BY <1>1, ClientEndAll DEF IInv
<1>c. /\ cDone' = TRUE
      /\ WireInv(up', upLog, TRUE) /\ Gone(up', upLog) = Gone(up, upLog)
      /\ broken => up' = <<>>
      /\ inSent' = inSent /\ Len(inAnswers') = Len(inAnswers)
      /\ inAnswers' = [k \in 1..Len(inAnswers) |-> In!Reply(k, inSent, inEnded', inFailure')]
      /\ inEnded' \in BOOLEAN /\ (inEnded => inEnded')
      /\ inFailure' # NoError => inEnded'
  BY <1>1, CloseConnectionFacts
<1>3. Booleans'
  BY <1>1, <1>a, <1>b, <1>c DEF IInv, Booleans, server
<1>4. LogInv'
  BY <1>a, LogFrame DEF IInv
<1>5. WiresInv'
  <2>1. WireInv(up', upLog, cDone' \/ cClosed')
    BY <1>c, WireClosing
  <2> QED BY <1>1, <1>a, <1>c, <2>1 DEF IInv, WiresInv
<1>6. InboxInv'
  BY <1>1, <1>a, <1>c DEF IInv, InboxInv
<1>7. PumpInv'
  BY <1>1, <1>a, <1>c, PumpFrame DEF IInv
<1>8. ClientInv'
  <2>1. pumped' \in Nat /\ pumped <= pumped'
    BY <1>a DEF IInv, PumpInv
  <2> QED BY <1>a, <1>b, <1>c, <2>1, ClientOver
<1>9. ServerInv'
  <2>1. Gone(up, upLog) \in Nat /\ (sClosed => srvEnded)
    BY WireType DEF IInv, LogInv, WiresInv, ServerInv
  <2> QED BY <1>1, <1>a, <1>c, <2>1, ServerFrame
<1>10. ViolationsClose' /\ CloseKeepsFrames'
  BY <1>a, <1>b, <1>c, JudgeFrame
<1> QED BY <1>3, <1>4, <1>5, <1>6, <1>7, <1>8, <1>9, <1>10 DEF IInv

\* What is forgotten when the program leaves its loop is the end of what it was given.
LEMMA ClientLeavesKeeps ==
  ASSUME IInv, ClientLeaves
  PROVE  IInv'
<1>1. /\ left' = TRUE /\ Client!Messages!Abandon
      /\ UNCHANGED <<binSent, binAnswers, binEnded, binFailure, inbox, pump, server,
                     wire, ends, quic, broken, closedSeen, pardoned, downLog, upLog>>
  BY DEF ClientLeaves
<1>a. /\ inSent' = inSent /\ inAnswers' = inAnswers /\ inEnded' = inEnded
      /\ cDone' = cDone /\ down' = down /\ up' = up /\ sClosed' = sClosed
      /\ cClosed' = cClosed /\ pumped' = pumped /\ pumpOver' = pumpOver
  BY <1>1 DEF inbox, ends, wire, pump
<1>2. /\ cliSent' = Client!Messages!Asked /\ cliEnded' = TRUE /\ Len(cliAnswers') = Len(cliAnswers)
  <2>1. /\ cliSent' = Client!Messages!Asked /\ cliEnded' = TRUE
        /\ Client!Messages!Replies(Len(cliAnswers), Client!Messages!Asked, TRUE, cliFailure)
    BY <1>1 DEF Client!Messages!Abandon
  <2>2. Len(cliAnswers) \in Nat
    BY DEF IInv, ClientInv
  <2> QED BY <2>1, <2>2, MessagesReplies
<1>3. /\ Delivered(cliSent, cliEnded, inSent, pumped, "valid") /\ cliSent \in Seq(Frames)
      /\ Len(cliSent) \in Nat /\ Len(cliAnswers) \in Nat /\ inSent \in Seq(Frames)
      /\ pumped \in Nat /\ Rising(inSent)
  BY LenProperties, RisingInbox DEF IInv, ClientInv, InboxInv, PumpInv, Delivered
<1>4. Delivered(cliSent', TRUE, inSent, pumped, "valid")
  <2>1. CASE Len(cliAnswers) < Len(cliSent)
    <3>1. cliSent' = SubSeq(cliSent, 1, Len(cliAnswers)) /\ Len(cliAnswers) <= Len(cliSent)
      BY <1>2, <1>3, <2>1 DEF Client!Messages!Asked
    <3>2. Delivered(SubSeq(cliSent, 1, Len(cliAnswers)), TRUE, inSent, pumped, "valid")
      BY <1>3, <3>1, DeliveredLeft
    <3> QED BY <3>1, <3>2
  <2>2. CASE ~(Len(cliAnswers) < Len(cliSent))
    <3>1. cliSent' = cliSent /\ pumped <= pumped
      BY <1>2, <1>3, <2>2 DEF Client!Messages!Asked
    <3> QED BY <1>3, <3>1, DeliveredOver
  <2> QED BY <2>1, <2>2
<1>5. \A j \in 1..Len(cliSent') : j \in 1..Len(cliSent) /\ cliSent'[j] = cliSent[j]
  <2>1. CASE Len(cliAnswers) < Len(cliSent)
    <3>1. Len(cliAnswers) <= Len(cliSent) /\ 1..Len(cliAnswers) \subseteq 1..Len(cliSent)
      BY <1>3, <2>1
    <3>2. cliSent' = SubSeq(cliSent, 1, Len(cliAnswers))
      BY <1>2, <2>1 DEF Client!Messages!Asked
    <3>3. /\ Len(cliSent') = IF 1 <= Len(cliAnswers) THEN Len(cliAnswers) - 1 + 1 ELSE 0
          /\ \A i \in 1..(Len(cliAnswers) - 1 + 1) : cliSent'[i] = cliSent[1 + i - 1]
      <4>1. \A i \in 1..Len(cliAnswers) : cliSent[i] \in Frames
        BY <1>3, <3>1, ElementOfSeq
      <4> QED BY <1>3, <3>2, <4>1, SubSeqProperties
    <3> QED BY <1>3, <3>1, <3>3
  <2>2. CASE ~(Len(cliAnswers) < Len(cliSent))
    BY <1>2, <2>2 DEF Client!Messages!Asked
  <2> QED BY <2>1, <2>2
<1>6. Booleans'
  BY <1>1, <1>2, <1>a DEF IInv, Booleans, ends, server
<1>7. LogInv' /\ WiresInv'
  BY <1>1, LogFrame, WiresFrame DEF IInv
<1>8. InboxInv'
  BY <1>1, <1>a, InboxFrame DEF IInv, InboxInv
<1>9. PumpInv'
  BY <1>1, <1>a, PumpFrame DEF IInv, PumpInv
<1>10. ClientInv'
  BY <1>1, <1>2, <1>4, <1>a DEF IInv, ClientInv
<1>11. ServerInv'
  <2>1. Gone(up, upLog) \in Nat /\ (sClosed => srvEnded)
    BY WireType DEF IInv, LogInv, WiresInv, ServerInv
  <2> QED BY <1>1, <1>a, <2>1, ServerFrame
<1>12. ViolationsClose'
  BY <1>1, <1>2, <1>5, <1>a DEF IInv, ViolationsClose
<1>13. CloseKeepsFrames'
  BY <1>1 DEF CloseKeepsFrames
<1> QED BY <1>6, <1>7, <1>8, <1>9, <1>10, <1>11, <1>12, <1>13 DEF IInv

(***************************************************************************)
(* The connection.                                                         *)
(***************************************************************************)
\* A step of the transport that ends connection.messages, or finds them ended.
LEMMA InboxEnds ==
  ASSUME IInv, inSent' = inSent, inEnded' = TRUE, downLog' = downLog,
         Len(inAnswers') = Len(inAnswers),
         inAnswers' = [k \in 1..Len(inAnswers) |-> In!Reply(k, inSent, inEnded', inFailure')]
  PROVE  InboxInv'
BY DEF IInv, InboxInv

LEMMA ArrivesKeeps ==
  ASSUME IInv, Arrives
  PROVE  IInv'
<1>1. /\ down # <<>> /\ Head(down) # Bye /\ ~cClosed /\ down' = Tail(down)
      /\ IF inEnded THEN UNCHANGED inbox ELSE In!Send(Head(down))
      /\ UNCHANGED <<pump, client, server, up, ends, quic, broken, closedSeen, logs>>
  BY DEF Arrives
<1>a. /\ upLog' = upLog /\ downLog' = downLog /\ left' = left /\ pardoned' = pardoned
      /\ cDone' = cDone /\ sDone' = sDone /\ sClosed' = sClosed /\ cClosed' = cClosed
      /\ pumped' = pumped /\ pumpOver' = pumpOver /\ cliSent' = cliSent /\ cliEnded' = cliEnded
      /\ binSent' = binSent /\ binEnded' = binEnded /\ cliAnswers' = cliAnswers
  BY <1>1 DEF logs, ends, pump, client
<1>2. /\ downLog \in Seq(Frames) /\ Len(downLog) \in Nat
      /\ WireInv(Tail(down), downLog, sDone \/ sClosed)
      /\ Gone(Tail(down), downLog) = Gone(down, downLog) + 1
      /\ Gone(down, downLog) + 1 \in 1..Len(downLog)
      /\ Head(down) = downLog[Gone(down, downLog) + 1]
      /\ Head(down) \in Frames
  <2>1. downLog \in Seq(Frames) /\ WireInv(down, downLog, sDone \/ sClosed)
    BY DEF IInv, LogInv, WiresInv
  <2>2. down \in Seq(Frames \cup {Bye})
    BY <2>1 DEF WireInv
  <2>3. /\ WireInv(Tail(down), downLog, sDone \/ sClosed)
        /\ Gone(Tail(down), downLog) = Gone(down, downLog) + 1
        /\ Gone(down, downLog) + 1 \in 1..Len(downLog)
        /\ Head(down) = downLog[Gone(down, downLog) + 1]
    BY <1>1, <2>1, <2>2, WireTail
  <2> QED BY <2>1, <2>3, ElementOfSeq, LenProperties
<1>3. ~broken
  BY <1>1 DEF IInv, WiresInv
<1>4. LogInv'
  BY <1>a, LogFrame DEF IInv
<1>5. WiresInv'
  BY <1>1, <1>2, <1>3, <1>a DEF IInv, WiresInv
<1>6. ServerInv'
  <2>1. Gone(up, upLog) \in Nat /\ (sClosed => srvEnded)
    BY WireType DEF IInv, LogInv, WiresInv, ServerInv
  <2> QED BY <1>1, <1>a, <2>1, ServerFrame
<1>7. CASE inEnded
  <2>1. UNCHANGED inbox /\ inSent' = inSent /\ inAnswers' = inAnswers /\ inEnded' = inEnded
    BY <1>1, <1>7 DEF inbox
  <2>2. Booleans'
    BY <1>1, <1>a, <2>1 DEF IInv, Booleans, server
  <2>3. InboxInv'
    BY <1>1, <1>7, <1>a, <2>1, InboxFrame DEF IInv
  <2>4. PumpInv' /\ ClientInv'
    BY <1>1, <1>a, <2>1, PumpFrame, ClientFrame DEF IInv, PumpInv
  <2>5. ViolationsClose' /\ CloseKeepsFrames'
    BY <1>a, <2>1, JudgeFrame
  <2> QED BY <1>4, <1>5, <1>6, <2>2, <2>3, <2>4, <2>5 DEF IInv
<1>8. CASE ~inEnded
  <2> DEFINE f == downLog[Gone(down, downLog) + 1]
  <2>1. /\ inSent' = Append(inSent, f) /\ UNCHANGED <<inEnded, inFailure>>
        /\ In!Replies(Len(inAnswers), Append(inSent, f), inEnded, inFailure)
    BY <1>1, <1>2, <1>8 DEF In!Send
  <2>2. /\ Len(inSent) = Gone(down, downLog) /\ inSent \in Seq(Frames) /\ Len(inAnswers) \in Nat
        /\ Len(inSent) \in Nat /\ \A i \in 1..Len(inSent) : inSent[i] = downLog[i]
    BY <1>3, <1>8, LenProperties DEF IInv, InboxInv
  <2>3. /\ f \in Frames /\ Len(inSent) + 1 <= Len(downLog) /\ f = downLog[Len(inSent) + 1]
    BY <1>2, <2>2
  <2> HIDE DEF f
  <2>4. /\ inSent' \in Seq(Frames) /\ Len(inSent') = Len(inSent) + 1
        /\ inSent'[Len(inSent) + 1] = f /\ \A i \in 1..Len(inSent) : inSent'[i] = inSent[i]
    BY <2>1, <2>2, <2>3, AppendProperties
  <2>5. /\ inAnswers' = [k \in 1..Len(inAnswers) |-> In!Reply(k, inSent', inEnded', inFailure')]
        /\ Len(inAnswers') = Len(inAnswers)
    BY <2>1, <2>2, InReplies
  <2>6. \A i \in 1..Len(inSent') : inSent'[i] = downLog[i]
    BY <2>2, <2>3, <2>4
  <2>7. Booleans'
    BY <1>1, <1>a, <2>1 DEF IInv, Booleans, server
  <2>8. InboxInv'
    <3>1. Len(inSent') <= Len(downLog) /\ Len(inSent') = Gone(Tail(down), downLog)
      BY <1>2, <2>2, <2>3, <2>4
    <3> QED BY <1>1, <1>a, <2>1, <2>2, <2>4, <2>5, <2>6, <3>1 DEF IInv, InboxInv
  <2>9. pumped \in Nat /\ pumped <= Len(inSent) /\ ~pumpOver
    BY <1>8 DEF IInv, PumpInv
  <2>10. PumpInv'
    <3>1. pumped <= Len(inSent')
      BY <2>2, <2>4, <2>9
    <3> QED BY <1>8, <1>a, <2>1, <2>5, <2>9, <3>1 DEF IInv, PumpInv
  <2>11. ClientInv'
    <3>1. Rising(inSent')
      BY <1>4, <1>a, <2>6, <2>8 DEF Rising, LogInv, InboxInv
    <3>2. /\ Delivered(cliSent, cliEnded, inSent, pumped, "valid")
          /\ Delivered(binSent, binEnded, inSent, pumped, "binary")
      BY DEF IInv, ClientInv
    <3>3. Len(inSent) <= Len(inSent')
      BY <2>2, <2>4
    <3>4. /\ Delivered(cliSent, cliEnded, inSent', pumped, "valid")
          /\ Delivered(binSent, binEnded, inSent', pumped, "binary")
      BY <2>2, <2>4, <2>9, <3>1, <3>2, <3>3, DeliveredGrows
    <3> QED BY <1>a, <2>1, <3>4 DEF IInv, ClientInv
  <2>12. ViolationsClose'
    <3> SUFFICES ASSUME NEW i \in 1..Len(inSent'), i <= pumped, inSent'[i].kind = "bad",
                        inSent'[i].id \notin pardoned
                 PROVE  /\ cDone /\ cliEnded
                        /\ \A j \in 1..Len(cliSent) : cliSent[j].id < inSent'[i].id
      BY <1>a DEF ViolationsClose
    <3>1. i \in 1..Len(inSent) /\ inSent'[i] = inSent[i]
      BY <2>2, <2>4, <2>9
    <3> QED BY <3>1 DEF IInv, ViolationsClose
  <2>13. CloseKeepsFrames'
    BY <1>8, <1>a DEF IInv, ClientInv, CloseKeepsFrames
  <2> QED BY <1>4, <1>5, <1>6, <2>7, <2>8, <2>10, <2>11, <2>12, <2>13 DEF IInv
<1> QED BY <1>7, <1>8

LEMMA StreamFailsKeeps ==
  ASSUME IInv, NEW e \in Errors, StreamFails(e)
  PROVE  IInv'
<1>1. /\ ~inEnded /\ MicrotasksDone /\ In!Close(e)
      /\ UNCHANGED <<pump, client, server, wire, ends, quic, broken, closedSeen, logs>>
  BY DEF StreamFails
<1>a. /\ upLog' = upLog /\ downLog' = downLog /\ left' = left /\ pardoned' = pardoned
      /\ cDone' = cDone /\ sClosed' = sClosed /\ up' = up
      /\ pumped' = pumped /\ cliSent' = cliSent /\ cliEnded' = cliEnded
  BY <1>1 DEF logs, ends, pump, client, wire
<1>2. /\ inSent' = inSent /\ inEnded' = TRUE /\ Len(inAnswers') = Len(inAnswers)
      /\ inAnswers' = [k \in 1..Len(inAnswers) |-> In!Reply(k, inSent, inEnded', inFailure')]
  <2>1. EndInbox(e)
    BY <1>1 DEF EndInbox
  <2> QED BY <2>1, EndInboxFacts DEF IInv
<1>3. Len(inSent) <= pumped
  BY <1>1, Parked DEF IInv
<1>4. Booleans'
  BY <1>1, <1>2 DEF IInv, Booleans, pump, client, server, ends, logs
<1>5. LogInv' /\ WiresInv'
  BY <1>1, <1>a, LogFrame, WiresFrame DEF IInv
<1>6. InboxInv'
  BY <1>2, <1>a, InboxEnds
<1>7. PumpInv' /\ ClientInv'
  BY <1>1, <1>2, <1>3, <1>a, PumpFrame, ClientFrame DEF IInv
<1>8. ServerInv'
  <2>1. Gone(up, upLog) \in Nat /\ (sClosed => srvEnded)
    BY WireType DEF IInv, LogInv, WiresInv, ServerInv
  <2> QED BY <1>1, <1>a, <2>1, ServerFrame
<1>9. ViolationsClose' /\ CloseKeepsFrames'
  BY <1>2, <1>a, JudgeFrame
<1> QED BY <1>4, <1>5, <1>6, <1>7, <1>8, <1>9 DEF IInv

LEMMA ClientClosedKeeps ==
  ASSUME IInv, ClientClosed
  PROVE  IInv'
<1>1. /\ ~cClosed /\ (MicrotasksDone \/ inFailure # NoError)
      /\ cClosed' = TRUE /\ down' = <<>>
      /\ up' = IF cDone \/ broken THEN up ELSE Append(up, Bye)
      /\ EndInbox(NoError)
      /\ UNCHANGED <<pump, client, server, cDone, sDone, sClosed, quic, broken,
                     closedSeen, logs>>
  BY DEF ClientClosed
<1>a. /\ upLog' = upLog /\ downLog' = downLog /\ left' = left /\ pardoned' = pardoned
      /\ pumped' = pumped /\ cliSent' = cliSent /\ cliEnded' = cliEnded
  BY <1>1 DEF logs, pump, client
<1>2. /\ inSent' = inSent /\ inEnded' = TRUE /\ Len(inAnswers') = Len(inAnswers)
      /\ inAnswers' = [k \in 1..Len(inAnswers) |-> In!Reply(k, inSent, inEnded', inFailure')]
  BY <1>1, EndInboxFacts DEF IInv
<1>3. ~cDone => Len(inSent) <= pumped
  BY <1>1, Parked DEF IInv, PumpInv, InboxInv
<1>4. Booleans'
  BY <1>1, <1>2 DEF IInv, Booleans, pump, client, server, logs
<1>5. LogInv'
  BY <1>a, LogFrame DEF IInv
<1>6. /\ WireInv(up', upLog, TRUE) /\ Gone(up', upLog) = Gone(up, upLog)
      /\ broken => up' = <<>>
  <2>0. /\ WireInv(up, upLog, cDone) /\ upLog \in Seq(Frames)
        /\ broken => up = <<>>
    BY <1>1, WireClosing DEF IInv, WiresInv, LogInv
  <2>1. CASE cDone \/ broken
    <3>1. up' = up
      BY <1>1, <2>1
    <3> QED BY <2>0, <3>1, WireClosing
  <2>2. CASE ~(cDone \/ broken)
    <3>1. up' = Append(up, Bye)
      BY <1>1, <2>2
    <3>2. WireInv(up, upLog, FALSE)
      BY <2>0, <2>2 DEF WireInv
    <3> QED BY <2>0, <2>2, <3>1, <3>2, WireBye
  <2> QED BY <2>1, <2>2
<1>7. WiresInv'
  <2>1. WireInv(<<>>, downLog, sDone \/ sClosed)
    BY WireEmpty DEF IInv, LogInv
  <2>2. WireInv(up', upLog, cDone' \/ cClosed')
    BY <1>1, <1>6, WireClosing
  <2> QED BY <1>1, <1>6, <1>a, <2>1, <2>2 DEF IInv, WiresInv
<1>8. InboxInv'
  BY <1>2, <1>a, InboxEnds
<1>9. PumpInv' /\ ClientInv'
  BY <1>1, <1>2, <1>3, <1>a, PumpFrame, ClientFrame DEF IInv
<1>10. ServerInv'
  <2>1. Gone(up, upLog) \in Nat /\ (sClosed => srvEnded)
    BY WireType DEF IInv, LogInv, WiresInv, ServerInv
  <2> QED BY <1>1, <1>6, <1>a, <2>1, ServerFrame
<1>11. ViolationsClose' /\ CloseKeepsFrames'
  BY <1>1, <1>2, <1>a, JudgeFrame
<1> QED BY <1>4, <1>5, <1>7, <1>8, <1>9, <1>10, <1>11 DEF IInv

LEMMA BreaksKeeps ==
  ASSUME IInv, Breaks
  PROVE  IInv'
<1>1. /\ ~broken /\ broken' = TRUE /\ down' = <<>> /\ up' = <<>>
      /\ UNCHANGED <<inbox, pump, client, server, ends, quic, closedSeen, logs>>
  BY DEF Breaks
<1>a. /\ upLog' = upLog /\ downLog' = downLog /\ left' = left /\ pardoned' = pardoned
      /\ cDone' = cDone /\ sDone' = sDone /\ cClosed' = cClosed /\ sClosed' = sClosed
      /\ pumped' = pumped /\ cliSent' = cliSent /\ cliEnded' = cliEnded
      /\ inSent' = inSent /\ inAnswers' = inAnswers /\ inEnded' = inEnded
  BY <1>1 DEF logs, ends, pump, client, inbox
<1>2. Booleans'
  BY <1>1 DEF IInv, Booleans, inbox, pump, client, server, ends, logs
<1>3. LogInv'
  BY <1>a, LogFrame DEF IInv
<1>4. WiresInv'
  <2>1. /\ WireInv(<<>>, downLog, sDone \/ sClosed)
        /\ WireInv(<<>>, upLog, cDone \/ cClosed)
    BY WireEmpty DEF IInv, LogInv
  <2> QED BY <1>1, <1>a, <2>1 DEF WiresInv
<1>5. InboxInv'
  BY <1>1, <1>a, InboxFrame DEF IInv, InboxInv
<1>6. PumpInv' /\ ClientInv'
  BY <1>1, <1>a, PumpFrame, ClientFrame DEF IInv, PumpInv
<1>7. ServerInv'
  <2>1. /\ Gone(up, upLog) \in Nat /\ Gone(up, upLog) <= Len(upLog) /\ Len(upLog) \in Nat
        /\ (sClosed => srvEnded) /\ Gone(<<>>, upLog) = Len(upLog)
    BY WireType, WireEmpty DEF IInv, LogInv, WiresInv, ServerInv
  <2> QED BY <1>1, <1>a, <2>1, ServerFrame
<1>8. ViolationsClose' /\ CloseKeepsFrames'
  BY <1>a, JudgeFrame
<1> QED BY <1>2, <1>3, <1>4, <1>5, <1>6, <1>7, <1>8 DEF IInv

(***************************************************************************)
(* The server.                                                             *)
(***************************************************************************)
LEMMA CloseSocketFacts ==
  ASSUME IInv, CloseSocket
  PROVE  /\ sDone' = TRUE
         /\ WireInv(down', downLog, TRUE) /\ Gone(down', downLog) = Gone(down, downLog)
         /\ broken => down' = <<>>
<1>1. sDone' = TRUE
  BY DEF CloseSocket
<1>2. /\ WireInv(down, downLog, sDone \/ sClosed) /\ downLog \in Seq(Frames)
      /\ broken => down = <<>>
  BY DEF IInv, WiresInv, LogInv
<1>3. CASE sDone \/ sClosed \/ broken
  <2>1. down' = down
    BY <1>3 DEF CloseSocket
  <2> QED BY <1>1, <1>2, <2>1, WireClosing
<1>4. CASE ~(sDone \/ sClosed \/ broken)
  <2>1. down' = Append(down, Bye)
    BY <1>4 DEF CloseSocket
  <2>2. WireInv(down, downLog, FALSE)
    BY <1>2, <1>4 DEF WireInv
  <2> QED BY <1>1, <1>2, <1>4, <2>1, <2>2, WireBye
<1> QED BY <1>3, <1>4

\* Steps of the server leave the client alone.
LEMMA ClientAlone ==
  ASSUME IInv, UNCHANGED <<inbox, pump, client, cDone, cClosed, left, pardoned,
                           downLog, broken>>,
         Gone(down', downLog) = Gone(down, downLog)
  PROVE  InboxInv' /\ PumpInv' /\ ClientInv' /\ ViolationsClose' /\ CloseKeepsFrames'
<1>1. /\ pumped' = pumped /\ cliSent' = cliSent /\ cliEnded' = cliEnded
      /\ inSent' = inSent /\ inAnswers' = inAnswers /\ inEnded' = inEnded
  BY DEF pump, client, inbox
<1>2. InboxInv'
  BY <1>1, InboxFrame DEF IInv, InboxInv
<1>3. PumpInv' /\ ClientInv'
  BY <1>1, PumpFrame, ClientFrame DEF IInv, PumpInv
<1>4. ViolationsClose' /\ CloseKeepsFrames'
  BY <1>1, JudgeFrame
<1> QED BY <1>2, <1>3, <1>4

LEMMA ServerSendsKeeps ==
  ASSUME IInv, NEW kind \in Kinds, ServerSends(kind)
  PROVE  IInv'
<1> DEFINE f == [id |-> Len(downLog) + 1, kind |-> kind]
<1>1. /\ ~sDone /\ ~sClosed /\ ~broken /\ Len(downLog) < MaxDown
      /\ down' = Append(down, f) /\ downLog' = Append(downLog, f)
      /\ UNCHANGED <<inbox, pump, client, server, up, ends, quic, broken,
                     closedSeen, left, pardoned, upLog>>
  BY DEF ServerSends
<1>a. /\ inSent' = inSent /\ inAnswers' = inAnswers /\ inEnded' = inEnded
      /\ inFailure' = inFailure
      /\ cDone' = cDone /\ sClosed' = sClosed /\ cClosed' = cClosed /\ sDone' = sDone
      /\ pumped' = pumped /\ cliSent' = cliSent /\ cliEnded' = cliEnded
  BY <1>1 DEF inbox, ends, pump, client
<1>2. /\ downLog \in Seq(Frames) /\ Len(downLog) \in Nat /\ MaxDown \in Nat /\ MaxUp \in Nat
      /\ \A i \in 1..Len(downLog) : downLog[i].id = i
      /\ WireInv(down, downLog, FALSE)
  <2>1. WireInv(down, downLog, FALSE)
    BY <1>1 DEF IInv, WiresInv, WireInv
  <2> QED BY <2>1, LinkAssumption, LenProperties DEF IInv, LogInv, LinkAssumption
<1>3. f \in Frames
  BY <1>1, <1>2 DEF Frames
<1>4. /\ downLog' \in Seq(Frames) /\ Len(downLog') = Len(downLog) + 1
      /\ \A i \in 1..Len(downLog) : downLog'[i] = downLog[i]
      /\ downLog'[Len(downLog) + 1].id = Len(downLog) + 1
  BY <1>1, <1>2, <1>3, AppendProperties
<1>5. /\ WireInv(down', downLog', sDone' \/ sClosed')
      /\ Gone(down', downLog') = Gone(down, downLog)
  BY <1>1, <1>2, <1>3, WireSend
<1> HIDE DEF f
<1>6. Booleans'
  BY <1>1 DEF IInv, Booleans, inbox, pump, client, server, ends
<1>7. LogInv'
  <2>1. Len(downLog') <= MaxDown
    BY <1>1, <1>2, <1>4
  <2>2. \A i \in 1..Len(downLog') : downLog'[i].id = i
    BY <1>2, <1>4
  <2> QED BY <1>1, <1>4, <2>1, <2>2 DEF IInv, LogInv
<1>8. WiresInv'
  BY <1>1, <1>5, <1>a DEF IInv, WiresInv
<1>9. InboxInv'
  <2>1. Len(inSent) <= Len(downLog) /\ Len(inSent) \in Nat
    BY LenProperties DEF IInv, InboxInv
  <2>2. Len(inSent) <= Len(downLog')
    BY <1>2, <1>4, <2>1
  <2>3. \A i \in 1..Len(inSent) : inSent[i] = downLog'[i]
    BY <1>2, <1>4, <2>1 DEF IInv, InboxInv
  <2> QED BY <1>1, <1>5, <1>a, <2>2, <2>3 DEF IInv, InboxInv
<1>10. PumpInv' /\ ClientInv'
  BY <1>1, <1>a, PumpFrame, ClientFrame DEF IInv, PumpInv
<1>11. ServerInv'
  <2>1. Gone(up, upLog) \in Nat /\ (sClosed => srvEnded)
    BY WireType DEF IInv, LogInv, WiresInv, ServerInv
  <2> QED BY <1>1, <1>a, <2>1, ServerFrame
<1>12. ViolationsClose' /\ CloseKeepsFrames'
  BY <1>1, <1>a, JudgeFrame
<1> QED BY <1>6, <1>7, <1>8, <1>9, <1>10, <1>11, <1>12 DEF IInv

LEMMA ServerAcceptsKeeps ==
  ASSUME IInv, NEW opinion, ServerAccepts(opinion)
  PROVE  IInv'
<1> DEFINE f == Head(up)
<1> DEFINE n == Gone(up, upLog)
<1>1. /\ up # <<>> /\ f # Bye /\ ~sClosed /\ up' = Tail(up) /\ Server!Accept(f, opinion)
      /\ CloseSocket \/ UNCHANGED <<sDone, down>>
      /\ UNCHANGED <<inbox, pump, client, cDone, cClosed, sClosed, quic, broken, closedSeen, logs>>
  BY DEF ServerAccepts
<1>a. /\ upLog' = upLog /\ downLog' = downLog /\ left' = left /\ pardoned' = pardoned
  BY <1>1 DEF logs
<1>2. /\ upLog \in Seq(Frames) /\ WireInv(Tail(up), upLog, cDone \/ cClosed)
      /\ Gone(Tail(up), upLog) = n + 1 /\ n + 1 \in 1..Len(upLog) /\ f = upLog[n + 1]
      /\ n \in Nat
  <2>1. upLog \in Seq(Frames) /\ WireInv(up, upLog, cDone \/ cClosed)
    BY DEF IInv, LogInv, WiresInv
  <2>2. up \in Seq(Frames \cup {Bye})
    BY <2>1 DEF WireInv
  <2> QED BY <1>1, <2>1, <2>2, WireTail, WireType
<1>3. ~broken
  BY <1>1 DEF IInv, WiresInv
<1>4. /\ sDone' \in BOOLEAN
      /\ WireInv(down', downLog, sDone' \/ sClosed) /\ Gone(down', downLog) = Gone(down, downLog)
  <2>1. CASE CloseSocket
    BY <2>1, CloseSocketFacts, WireClosing
  <2>2. CASE UNCHANGED <<sDone, down>>
    BY <2>2 DEF IInv, WiresInv, Booleans
  <2> QED BY <1>1, <2>1, <2>2
<1>5. /\ srvBinSent' = srvBinSent /\ srvBinEnded' = TRUE /\ srvEnded' \in BOOLEAN
      /\ srvEnded => srvEnded'
      /\ \/ srvSent' = srvSent /\ (f.kind = "valid" => srvEnded')
         \/ srvSent' = Append(srvSent, f) /\ f.kind = "valid" /\ ~srvEnded
  BY <1>1, ServerAccept DEF IInv
<1> HIDE DEF f, n
<1>6. Booleans'
  BY <1>1, <1>4, <1>5 DEF IInv, Booleans, inbox, pump, client, logs
<1>7. LogInv'
  BY <1>a, LogFrame DEF IInv
<1>8. WiresInv'
  BY <1>1, <1>2, <1>3, <1>4, <1>a DEF IInv, WiresInv
<1>9. InboxInv' /\ PumpInv' /\ ClientInv' /\ ViolationsClose' /\ CloseKeepsFrames'
  BY <1>1, <1>4, <1>a, ClientAlone
<1>10. ServerInv'
  <2>1. Delivered(srvSent, srvEnded \/ broken, upLog, n, "valid") /\ srvBinSent = <<>>
    BY DEF IInv, ServerInv, n
  <2>2. Delivered(srvSent', srvEnded' \/ broken', upLog, n + 1, "valid")
    <3>1. CASE srvSent' = Append(srvSent, f) /\ f.kind = "valid" /\ ~srvEnded
      <4>1. Delivered(srvSent, FALSE, upLog, n, "valid")
        BY <1>3, <2>1, <3>1 DEF Delivered
      <4>2. Rising(upLog)
        BY RisingLogs DEF IInv
      <4> QED BY <1>2, <3>1, <4>1, <4>2, DeliveredNext
    <3>2. CASE srvSent' = srvSent /\ f.kind = "valid" /\ srvEnded'
      <4>1. n + 1 \in Nat /\ n <= n + 1
        BY <1>2
      <4>2. Delivered(srvSent, srvEnded' \/ broken', upLog, n + 1, "valid")
        BY <1>2, <2>1, <3>2, <4>1, DeliveredOver
      <4> QED BY <3>2, <4>2
    <3>3. CASE srvSent' = srvSent /\ f.kind # "valid"
      <4>1. Delivered(srvSent, srvEnded \/ broken, upLog, n + 1, "valid")
        BY <1>2, <2>1, <3>3, DeliveredSkip
      <4>2. n + 1 \in Nat /\ n + 1 <= n + 1 /\ broken' = broken
        BY <1>1, <1>2
      <4>3. Delivered(srvSent, srvEnded' \/ broken', upLog, n + 1, "valid")
        BY <1>2, <1>5, <4>1, <4>2, DeliveredOver
      <4> QED BY <3>3, <4>3
    <3> QED BY <1>5, <3>1, <3>2, <3>3
  <2> QED BY <1>1, <1>2, <1>5, <1>a, <2>1, <2>2 DEF ServerInv
<1> QED BY <1>6, <1>7, <1>8, <1>9, <1>10 DEF IInv

LEMMA ServerClosedKeeps ==
  ASSUME IInv, ServerClosed
  PROVE  IInv'
<1>1. /\ ~sClosed /\ sClosed' = TRUE /\ up' = <<>>
      /\ down' = IF sDone \/ broken THEN down ELSE Append(down, Bye)
      /\ Server!EndAll(NoError)
      /\ UNCHANGED <<inbox, pump, client, cDone, sDone, cClosed, quic, broken, closedSeen, logs>>
  BY DEF ServerClosed
<1>a. /\ upLog' = upLog /\ downLog' = downLog /\ left' = left /\ pardoned' = pardoned
  BY <1>1 DEF logs
<1>2. /\ srvSent' = srvSent /\ srvEnded' = TRUE
      /\ srvBinSent' = srvBinSent /\ srvBinEnded' = TRUE
  BY <1>1, ServerEndAll DEF IInv
<1>3. /\ WireInv(down', downLog, TRUE) /\ Gone(down', downLog) = Gone(down, downLog)
      /\ broken => down' = <<>>
  <2>0. /\ WireInv(down, downLog, sDone \/ sClosed) /\ downLog \in Seq(Frames)
        /\ broken => down = <<>>
    BY DEF IInv, WiresInv, LogInv
  <2>1. CASE sDone \/ broken
    <3>1. down' = down
      BY <1>1, <2>1
    <3> QED BY <2>0, <3>1, WireClosing
  <2>2. CASE ~(sDone \/ broken)
    <3>1. down' = Append(down, Bye)
      BY <1>1, <2>2
    <3>2. WireInv(down, downLog, FALSE)
      BY <1>1, <2>0, <2>2 DEF WireInv
    <3> QED BY <2>0, <2>2, <3>1, <3>2, WireBye
  <2> QED BY <2>1, <2>2
<1>4. Booleans'
  BY <1>1, <1>2 DEF IInv, Booleans, inbox, pump, client, logs
<1>5. LogInv'
  BY <1>a, LogFrame DEF IInv
<1>6. WiresInv'
  <2>1. WireInv(<<>>, upLog, cDone \/ cClosed)
    BY WireEmpty DEF IInv, LogInv
  <2>2. WireInv(down', downLog, sDone' \/ sClosed')
    BY <1>1, <1>3, WireClosing
  <2> QED BY <1>1, <1>3, <1>a, <2>1, <2>2 DEF WiresInv
<1>7. InboxInv' /\ PumpInv' /\ ClientInv' /\ ViolationsClose' /\ CloseKeepsFrames'
  BY <1>1, <1>3, <1>a, ClientAlone
<1>8. ServerInv'
  <2>1. /\ Gone(up, upLog) \in Nat /\ Gone(up, upLog) <= Len(upLog) /\ Len(upLog) \in Nat
        /\ Gone(<<>>, upLog) = Len(upLog)
    BY WireType, WireEmpty DEF IInv, LogInv, WiresInv
  <2> QED BY <1>1, <1>2, <1>a, <2>1, ServerOver
<1> QED BY <1>4, <1>5, <1>6, <1>7, <1>8 DEF IInv

LEMMA ServerClosesKeeps ==
  ASSUME IInv, ServerCloses
  PROVE  IInv'
<1>1. /\ Server!EndAll(NoError) /\ CloseSocket
      /\ UNCHANGED <<inbox, pump, client, up, cDone, cClosed, sClosed, quic, broken,
                     closedSeen, logs>>
  BY DEF ServerCloses
<1>a. /\ upLog' = upLog /\ downLog' = downLog /\ left' = left /\ pardoned' = pardoned
  BY <1>1 DEF logs
<1>2. /\ srvSent' = srvSent /\ srvEnded' = TRUE
      /\ srvBinSent' = srvBinSent /\ srvBinEnded' = TRUE
  BY <1>1, ServerEndAll DEF IInv
<1>3. /\ sDone' = TRUE
      /\ WireInv(down', downLog, TRUE) /\ Gone(down', downLog) = Gone(down, downLog)
      /\ broken => down' = <<>>
  BY <1>1, CloseSocketFacts
<1>4. Booleans'
  BY <1>1, <1>2, <1>3 DEF IInv, Booleans, inbox, pump, client, logs
<1>5. LogInv'
  BY <1>a, LogFrame DEF IInv
<1>6. WiresInv'
  <2>1. WireInv(down', downLog, sDone' \/ sClosed')
    BY <1>3, WireClosing
  <2> QED BY <1>1, <1>3, <1>a, <2>1 DEF IInv, WiresInv
<1>7. InboxInv' /\ PumpInv' /\ ClientInv' /\ ViolationsClose' /\ CloseKeepsFrames'
  BY <1>1, <1>3, <1>a, ClientAlone
<1>8. ServerInv'
  <2>1. Gone(up, upLog) \in Nat /\ Gone(up, upLog) <= Gone(up, upLog)
    BY WireType DEF IInv, LogInv, WiresInv
  <2> QED BY <1>1, <1>2, <1>a, <2>1, ServerOver
<1> QED BY <1>4, <1>5, <1>6, <1>7, <1>8 DEF IInv

LEMMA ServerEndsKeeps ==
  ASSUME IInv, NEW e \in Errors, ServerEnds(e)
  PROVE  IInv'
<1>1. /\ Server!EndAll(e)
      /\ UNCHANGED <<inbox, pump, client, wire, ends, quic, broken, closedSeen, logs>>
  BY DEF ServerEnds
<1>a. /\ upLog' = upLog /\ downLog' = downLog /\ left' = left /\ pardoned' = pardoned
      /\ down' = down /\ up' = up /\ cDone' = cDone /\ cClosed' = cClosed
  BY <1>1 DEF logs, wire, ends
<1>2. /\ srvSent' = srvSent /\ srvEnded' = TRUE
      /\ srvBinSent' = srvBinSent /\ srvBinEnded' = TRUE
  BY <1>1, ServerEndAll DEF IInv
<1>4. Booleans'
  BY <1>1, <1>2 DEF IInv, Booleans, inbox, pump, client, logs, ends
<1>5. LogInv' /\ WiresInv'
  BY <1>1, <1>a, LogFrame, WiresFrame DEF IInv
<1>7. InboxInv' /\ PumpInv' /\ ClientInv' /\ ViolationsClose' /\ CloseKeepsFrames'
  BY <1>1, <1>a, ClientAlone
<1>8. ServerInv'
  <2>1. Gone(up, upLog) \in Nat /\ Gone(up, upLog) <= Gone(up, upLog)
    BY WireType DEF IInv, LogInv, WiresInv
  <2> QED BY <1>2, <1>a, <2>1, ServerOver
<1> QED BY <1>4, <1>5, <1>7, <1>8 DEF IInv

(***************************************************************************)
(* The invariant.                                                          *)
(***************************************************************************)
LEMMA InitKeeps == Init => IInv
<1> SUFFICES ASSUME Init PROVE IInv
  OBVIOUS
<1>1. /\ inSent = <<>> /\ inAnswers = <<>> /\ inEnded = FALSE /\ inFailure = NoError
      /\ cliSent = <<>> /\ cliAnswers = <<>> /\ cliEnded = FALSE /\ binSent = <<>>
      /\ binEnded = FALSE /\ srvSent = <<>> /\ srvEnded = FALSE
      /\ srvBinSent = <<>> /\ srvBinEnded = TRUE
  BY DEF Init, In!Init, Client!Init, Client!Messages!Init, Server!Init, Server!Messages!Init
<1>2. /\ pumped = 0 /\ pumpOver = FALSE /\ quic \in BOOLEAN
      /\ down = <<>> /\ up = <<>> /\ broken = FALSE
      /\ cDone = FALSE /\ sDone = FALSE /\ cClosed = FALSE /\ sClosed = FALSE
      /\ closedSeen = FALSE /\ left = FALSE /\ pardoned = {}
      /\ downLog = <<>> /\ upLog = <<>>
  BY DEF Init
<1>3. Booleans
  BY <1>1, <1>2 DEF Booleans
<1>4. LogInv
  BY <1>2, LinkAssumption DEF LogInv, LinkAssumption
<1>5. /\ WireInv(<<>>, <<>>, FALSE) /\ Gone(<<>>, <<>>) = 0
  BY <1>2, <1>4, WireEmpty DEF LogInv
<1>6. WiresInv
  BY <1>2, <1>5 DEF WiresInv, WireInv
<1>7. InboxInv
  BY <1>1, <1>2, <1>5 DEF InboxInv
<1>8. PumpInv
  BY <1>1, <1>2 DEF PumpInv
<1>9. /\ Delivered(<<>>, FALSE, <<>>, 0, "valid") /\ Delivered(<<>>, FALSE, <<>>, 0, "binary")
  BY DEF Delivered
<1>10. ClientInv
  BY <1>1, <1>2, <1>9 DEF ClientInv
<1>11. ServerInv
  BY <1>1, <1>2, <1>5, <1>9 DEF ServerInv, Delivered
<1>12. ViolationsClose /\ CloseKeepsFrames
  BY <1>1 DEF ViolationsClose, CloseKeepsFrames
<1> QED BY <1>3, <1>4, <1>6, <1>7, <1>8, <1>10, <1>11, <1>12 DEF IInv

LEMMA NextKeeps == IInv /\ [Next]_vars => IInv'
<1> SUFFICES ASSUME IInv, [Next]_vars PROVE IInv'
  OBVIOUS
<1>1. CASE PumpStep
  BY <1>1, PumpAsksKeeps, PumpTakesKeeps, PumpEndsKeeps DEF PumpStep
<1>2. CASE Transport
  BY <1>2, ArrivesKeeps, ClientClosedKeeps, ServerClosedKeeps, ServerAcceptsKeeps DEF Transport
<1>3. CASE Program
  BY <1>3, ClientSendsKeeps, ServerSendsKeeps, ClientClosesKeeps, ClientReadsKeeps,
     ClientLeavesKeeps, ServerClosesKeeps, ServerEndsKeeps DEF Program
<1>4. CASE ClosedHandler \/ Breaks \/ \E e \in Errors : StreamFails(e)
  BY <1>4, ClosedHandlerKeeps, BreaksKeeps, StreamFailsKeeps
<1>5. CASE UNCHANGED vars
  <2>1. UNCHANGED <<inbox, pump, client, server, wire, ends, quic, broken, closedSeen, logs>>
    BY <1>5 DEF vars
  <2>2. /\ upLog' = upLog /\ downLog' = downLog /\ left' = left /\ pardoned' = pardoned
        /\ down' = down /\ up' = up /\ cDone' = cDone /\ cClosed' = cClosed
        /\ sClosed' = sClosed
    BY <2>1 DEF logs, wire, ends
  <2>3. Booleans'
    BY <2>1 DEF IInv, Booleans, inbox, pump, client, server, ends, logs
  <2>4. LogInv' /\ WiresInv'
    BY <2>1, <2>2, LogFrame, WiresFrame DEF IInv
  <2>5. InboxInv' /\ PumpInv' /\ ClientInv' /\ ViolationsClose' /\ CloseKeepsFrames'
    BY <2>1, <2>2, ClientAlone
  <2>6. ServerInv'
    <3>1. Gone(up, upLog) \in Nat /\ (sClosed => srvEnded)
      BY WireType DEF IInv, LogInv, WiresInv, ServerInv
    <3> QED BY <2>1, <2>2, <3>1, ServerFrame
  <2> QED BY <2>3, <2>4, <2>5, <2>6 DEF IInv
<1> QED BY <1>1, <1>2, <1>3, <1>4, <1>5 DEF Next

\* The inductive invariant holds in every reachable state.
THEOREM Invariance == Spec => []IInv
<1>1. Init => IInv
  BY InitKeeps
<1>2. IInv /\ [Next]_vars => IInv'
  BY NextKeeps
<1> QED BY <1>1, <1>2, PTL DEF Spec

LEMMA InvFollows == IInv => Inv
<1> SUFFICES ASSUME IInv PROVE Inv
  OBVIOUS
<1>1. TypeOK
  <2>1. pumped \in 0..Len(inAnswers) /\ Len(inAnswers) <= pumped + 1
    BY DEF IInv, PumpInv, InboxInv
  <2>2. {pumpOver, quic, broken, cDone, sDone, cClosed, sClosed, closedSeen, left}
          \subseteq BOOLEAN
    BY DEF IInv, Booleans
  <2>3. down \in Seq(Frames \cup {Bye}) /\ up \in Seq(Frames \cup {Bye})
    BY DEF IInv, WiresInv, WireInv
  <2>4. /\ inSent \in Seq(Frames) /\ cliSent \in Seq(Frames)
        /\ srvSent \in Seq(Frames) /\ srvBinSent = <<>> /\ pardoned \subseteq 1..MaxDown
    BY DEF IInv, InboxInv, ClientInv, ServerInv, PumpInv, Delivered
  <2> QED BY <2>1, <2>2, <2>3, <2>4 DEF TypeOK
<1>2. Rising(downLog) /\ Rising(upLog) /\ downLog \in Seq(Frames) /\ upLog \in Seq(Frames)
  BY RisingLogs DEF IInv, LogInv
<1>3. /\ inSent \in Seq(Frames) /\ Len(inSent) <= Len(downLog)
      /\ \A i \in 1..Len(inSent) : downLog[i] = inSent[i]
  BY DEF IInv, InboxInv
<1>4. FirstOfKind(cliSent, downLog, "valid") /\ FirstOfKind(binSent, downLog, "binary")
  BY <1>2, <1>3, DeliveredFirst DEF IInv, ClientInv
<1>5. FirstOfKind(srvSent, upLog, "valid")
  <2>1. Len(upLog) <= Len(upLog)
    BY <1>2, LenProperties
  <2> QED BY <1>2, <2>1, DeliveredFirst DEF IInv, ServerInv
<1> QED BY <1>1, <1>4, <1>5 DEF Inv, OnlyWhatWasSent

\* Each program is given the valid frames its peer sent, from the first one on,
\* in order and without a gap (connect-messages.ts:24, bind-messages.ts:35).
THEOREM LinkTheorem == Spec => []Inv
BY Invariance, InvFollows, PTL

\* A frame that breaks the contract takes the connection down unless the hook
\* pardoned it (message-channel.ts:268-283).
THEOREM ViolationsTheorem == Spec => []ViolationsClose
<1>1. IInv => ViolationsClose
  BY DEF IInv
<1> QED BY <1>1, Invariance, PTL

\* The handler of connection.closed finds the inbox drained: a close that comes
\* from outside costs the program no frame (connect-messages.ts:113).
THEOREM CloseTheorem == Spec => []CloseKeepsFrames
<1>1. IInv => CloseKeepsFrames
  BY DEF IInv
<1> QED BY <1>1, Invariance, PTL

-----------------------------------------------------------------------------
(***************************************************************************)
(* RealtimeConnection.  Its messages are a MessageQueue, whose invariant   *)
(* is proved in MessageQueueProofs; the loop over the transports has one   *)
(* of its own.                                                             *)
(***************************************************************************)
QueueP == INSTANCE MessageQueueProofs
            WITH Values <- 1..MaxFrames, MaxSent <- MaxFrames

\* Each transport that was tried was skipped at most once.
LoopInv ==
  /\ RealtimeTypeOK /\ NothingLeftBehind
  /\ phase \in {"racing", "failing"} => skipped < attempt

\* What the queue accepted is the first frames, and until the end all of them.
StreamInv ==
  /\ QueueP!IInv
  /\ received \in Nat
  /\ \A k \in 1..Len(sent) : sent[k] = k
  /\ ~ended => Len(sent) = received

(***************************************************************************)
(* The messages.                                                           *)
(***************************************************************************)
LEMMA QueueTypes ==
  ASSUME QueueP!IInv
  PROVE  /\ sent \in Seq(1..MaxFrames) /\ Len(sent) \in Nat
         /\ Len(answers) \in Nat /\ Len(buffered) \in Nat /\ Len(buffered) <= Len(sent)
         /\ ended \in BOOLEAN
<1>1. /\ buffered \in Seq(1..MaxFrames) /\ sent \in Seq(1..MaxFrames)
      /\ answers \in Seq(QueueP!Answers) /\ ended \in BOOLEAN
  BY DEF QueueP!IInv, QueueP!TypeOK
<1>2. Len(sent) \in Nat /\ Len(answers) \in Nat /\ Len(buffered) \in Nat
  BY <1>1, LenProperties
<1>3. CASE Len(answers) <= Len(sent)
  <2>1. Len(sent) = Len(answers) + Len(buffered)
    BY <1>3 DEF QueueP!IInv, QueueP!Tails
  <2> QED BY <1>1, <1>2, <2>1
<1>4. CASE Len(answers) > Len(sent)
  <2>1. buffered = <<>>
    BY <1>4 DEF QueueP!IInv, QueueP!Tails
  <2> QED BY <1>1, <1>2, <2>1
<1> QED BY <1>2, <1>3, <1>4

LEMMA QueueKept ==
  ASSUME QueueP!IInv, UNCHANGED queueVars
  PROVE  QueueP!IInv'
<1>1. UNCHANGED QueueP!vars
  BY DEF queueVars, QueueP!vars
<1> QED BY <1>1, RealtimeAssumption, FailureAssumption, QueueP!NextIInv DEF RealtimeAssumption

LEMMA StreamFrame ==
  ASSUME StreamInv, UNCHANGED <<received, queueVars>>
  PROVE  StreamInv'
<1>1. sent' = sent /\ ended' = ended
  BY DEF queueVars
<1> QED BY <1>1, QueueKept DEF StreamInv

LEMMA EndQueueKeeps ==
  ASSUME StreamInv, NEW e \in Errors \cup {NoError}, EndQueue(e), UNCHANGED received
  PROVE  StreamInv'
<1>1. CASE ended
  BY <1>1, StreamFrame DEF EndQueue
<1>2. CASE ~ended
  <2>1. Queue!End(e)
    BY <1>2 DEF EndQueue
  <2>2. QueueP!End(e)
    BY <2>1 DEF Queue!End, QueueP!End, Queue!Release, QueueP!Release, Queue!Parked,
       QueueP!Parked, Queue!Closing, QueueP!Closing, Queue!Done, QueueP!Done,
       Queue!Failed, QueueP!Failed
  <2>3. QueueP!IInv'
    BY <2>2, RealtimeAssumption, FailureAssumption, QueueP!EndIInv DEF StreamInv, RealtimeAssumption
  <2>4. sent' = sent /\ ended' = TRUE
    BY <2>1 DEF Queue!End
  <2> QED BY <2>3, <2>4 DEF StreamInv
<1> QED BY <1>1, <1>2

LEMMA PushedKeeps ==
  ASSUME StreamInv, received < MaxFrames, Pushed(received + 1), received' = received + 1
  PROVE  StreamInv'
<1>1. CASE ended
  <2>1. UNCHANGED queueVars /\ sent' = sent /\ ended' = ended
    BY <1>1 DEF Pushed, queueVars
  <2> QED BY <1>1, <2>1, QueueKept DEF StreamInv
<1>2. CASE ~ended
  <2>1. Queue!Push(received + 1)
    BY <1>2 DEF Pushed
  <2>2. received + 1 \in 1..MaxFrames
    BY RealtimeAssumption DEF StreamInv, RealtimeAssumption
  <2>3. QueueP!Push(received + 1)
    BY <2>1 DEF Queue!Push, QueueP!Push, Queue!PushWaiter, QueueP!PushWaiter,
       Queue!PushBuffer, QueueP!PushBuffer, Queue!Value, QueueP!Value
  <2>4. QueueP!IInv'
    BY <2>2, <2>3, RealtimeAssumption, FailureAssumption, QueueP!PushIInv DEF StreamInv, RealtimeAssumption
  <2>5. sent' = Append(sent, received + 1) /\ ended' = ended
    BY <2>1 DEF Queue!Push
  <2>6. /\ sent \in Seq(1..MaxFrames) /\ Len(sent) = received /\ received \in Nat
        /\ \A k \in 1..Len(sent) : sent[k] = k
    BY <1>2, QueueTypes DEF StreamInv
  <2>7. /\ Len(sent') = received + 1 /\ sent'[received + 1] = received + 1
        /\ \A k \in 1..received : sent'[k] = sent[k]
    BY <2>2, <2>5, <2>6, AppendProperties
  <2>8. \A k \in 1..Len(sent') : sent'[k] = k
    BY <2>6, <2>7
  <2> QED BY <2>4, <2>6, <2>7, <2>8 DEF StreamInv
<1> QED BY <1>1, <1>2

LEMMA ConsumeKeeps ==
  ASSUME StreamInv, Queue!Ask \/ Queue!Return, UNCHANGED received
  PROVE  StreamInv'
<1>1. CASE Queue!Ask
  <2>1. QueueP!Ask
    BY <1>1 DEF Queue!Ask, QueueP!Ask, Queue!NextBuffered, QueueP!NextBuffered,
       Queue!NextEnded, QueueP!NextEnded, Queue!NextParked, QueueP!NextParked,
       Queue!Closing, QueueP!Closing, Queue!Done, QueueP!Done, Queue!Failed,
       QueueP!Failed, Queue!Value, QueueP!Value, Queue!Pending, QueueP!Pending
  <2>2. QueueP!IInv'
    BY <2>1, RealtimeAssumption, FailureAssumption, QueueP!AskIInv DEF StreamInv, RealtimeAssumption
  <2>3. sent' = sent /\ ended' = ended
    BY <1>1 DEF Queue!Ask
  <2> QED BY <2>2, <2>3 DEF StreamInv
<1>2. CASE Queue!Return
  <2>1. QueueP!Return
    BY <1>2 DEF Queue!Return, QueueP!Return, Queue!Release, QueueP!Release, Queue!Parked,
       QueueP!Parked, Queue!Closing, QueueP!Closing, Queue!Done, QueueP!Done,
       Queue!Failed, QueueP!Failed
  <2>2. QueueP!IInv'
    BY <2>1, RealtimeAssumption, FailureAssumption, QueueP!ReturnIInv DEF StreamInv, RealtimeAssumption
  <2>3. sent' = SubSeq(sent, 1, Len(sent) - Len(buffered)) /\ ended'
    BY <1>2 DEF Queue!Return
  <2>4. /\ sent \in Seq(1..MaxFrames) /\ Len(sent) \in Nat
        /\ Len(sent) - Len(buffered) \in 0..Len(sent)
        /\ \A k \in 1..Len(sent) : sent[k] = k
    BY QueueTypes DEF StreamInv
  <2>5. /\ Len(sent') = Len(sent) - Len(buffered)
        /\ \A k \in 1..(Len(sent) - Len(buffered)) : sent'[k] = sent[k]
    <3> DEFINE m == Len(sent) - Len(buffered)
    <3>1. \A i \in 1..m : sent[i] \in 1..MaxFrames
      <4>1. 1..m \subseteq 1..Len(sent)
        BY <2>4
      <4>2. \A i \in 1..Len(sent) : sent[i] \in 1..MaxFrames
        BY <2>4, ElementOfSeq
      <4> QED BY <4>1, <4>2
    <3>2. m \in Nat
      BY <2>4
    <3> HIDE DEF m
    <3>3. /\ Len(SubSeq(sent, 1, m)) = IF 1 <= m THEN m - 1 + 1 ELSE 0
          /\ \A i \in 1..(m - 1 + 1) : SubSeq(sent, 1, m)[i] = sent[1 + i - 1]
      BY <2>4, <3>1, <3>2, SubSeqProperties
    <3>4. Len(SubSeq(sent, 1, m)) = m /\ \A i \in 1..m : SubSeq(sent, 1, m)[i] = sent[i]
      BY <3>2, <3>3
    <3> QED BY <2>3, <3>4 DEF m
  <2> QED BY <2>2, <2>3, <2>4, <2>5 DEF StreamInv
<1> QED BY <1>1, <1>2

\* What a consumer is told, from what the queue owes it.
LEMMA StreamInOrder == StreamInv => FramesInOrder
<1> SUFFICES ASSUME StreamInv PROVE FramesInOrder
  OBVIOUS
<1>1. /\ sent \in Seq(1..MaxFrames) /\ Len(sent) \in Nat /\ Len(answers) \in Nat
      /\ \A k \in 1..Len(sent) : sent[k] = k
      /\ ~ended => Len(sent) = received
  BY QueueTypes DEF StreamInv
<1>2. ~ended => sent = [k \in 1..received |-> k]
  BY <1>1
<1>3. \A k \in 1..Len(answers) : answers[k] = QueueP!Owed(k)
  BY DEF StreamInv, QueueP!IInv, QueueP!AnswersOwed
<1>k. /\ \A v : QueueP!Value(v).kind = "value" /\ QueueP!Value(v).value = v
      /\ QueueP!Pending.kind = "pending"
      /\ \A e : QueueP!Closing(e).kind # "value"
  BY DEF QueueP!Value, QueueP!Pending, QueueP!Closing, QueueP!Done, QueueP!Failed
<1>4. ASSUME NEW k \in 1..Len(answers), answers[k].kind \in {"done", "failed"}
      PROVE  ended /\ k > Len(sent)
  <2>1. CASE k <= Len(sent)
    <3>1. answers[k] = QueueP!Value(sent[k])
      BY <1>3, <2>1 DEF QueueP!Owed
    <3> QED BY <1>4, <1>k, <3>1
  <2>2. CASE ~(k <= Len(sent)) /\ ~ended
    <3>1. answers[k] = QueueP!Pending
      BY <1>3, <2>2 DEF QueueP!Owed
    <3> QED BY <1>4, <1>k, <3>1
  <2>3. CASE ~(k <= Len(sent)) /\ ended
    BY <1>1, <2>3
  <2> QED BY <2>1, <2>2, <2>3
<1>5. ASSUME NEW k \in 1..Len(answers), answers[k].kind = "value"
      PROVE  answers[k].value = k
  <2>1. CASE k <= Len(sent)
    <3>1. answers[k] = QueueP!Value(sent[k])
      BY <1>3, <2>1 DEF QueueP!Owed
    <3>2. sent[k] = k
      BY <1>1, <2>1
    <3> QED BY <1>k, <3>1, <3>2
  <2>2. CASE ~(k <= Len(sent))
    <3>1. answers[k] = IF ended THEN QueueP!Closing(failure) ELSE QueueP!Pending
      BY <1>3, <2>2 DEF QueueP!Owed
    <3> QED BY <1>5, <1>k, <3>1
  <2> QED BY <2>1, <2>2
<1> QED BY <1>2, <1>4, <1>5 DEF FramesInOrder

(***************************************************************************)
(* The loop, and the connection it opens.                                  *)
(***************************************************************************)
\* What a step that leaves the loop's variables alone keeps.
LEMMA LoopFrame ==
  ASSUME LoopInv, UNCHANGED <<attempt, phase, race, timer, skipped, missed, aborted>>,
         endpoint' \in [1..Len(Order) -> Live \cup {"absent", "closing", "closed"}],
         \A i \in 1..Len(Order) : endpoint'[i] \in Live => endpoint[i] \in Live,
         {done', closed', pumping'} \subseteq BOOLEAN, pumping' => pumping,
         received' \in 0..MaxFrames
  PROVE  LoopInv'
BY DEF LoopInv, RealtimeTypeOK, NothingLeftBehind

\* The race, or the attempt, of the loop is at a transport of the order.
LEMMA Attempting ==
  ASSUME LoopInv, attempt # 0
  PROVE  attempt \in 1..Len(Order) /\ Len(Order) \in Nat
<1>1. Len(Order) \in Nat
  BY RealtimeAssumption, LenProperties DEF RealtimeAssumption
<1> QED BY <1>1 DEF LoopInv, RealtimeTypeOK

LEMMA StartKeeps == ASSUME LoopInv, Start \/ Unavailable PROVE LoopInv'
<1>0. Len(Order) \in Nat
  BY RealtimeAssumption, LenProperties DEF RealtimeAssumption
<1>1. /\ phase = "next" /\ attempt < Len(Order) /\ attempt' = attempt + 1
      /\ UNCHANGED <<skipped, aborted, missed, openVars, queueVars>>
  BY DEF Start, Unavailable, Begin
<1>2. /\ attempt \in 0..Len(Order) /\ skipped \in 0..attempt
      /\ attempt + 1 \in 1..Len(Order) /\ skipped \in 0..(attempt + 1) /\ skipped < attempt + 1
  BY <1>0, <1>1 DEF LoopInv, RealtimeTypeOK
<1>3. \A i \in 1..Len(Order) : endpoint[i] \notin Live
  BY <1>1 DEF LoopInv, NothingLeftBehind
<1>4. CASE Start
  <2>1. /\ phase' = "racing" /\ race' = "pending" /\ timer' = TRUE
        /\ endpoint' = [endpoint EXCEPT ![attempt + 1] = "connecting"]
    BY <1>4 DEF Start
  <2>2. RealtimeTypeOK'
    BY <1>1, <1>2, <2>1 DEF LoopInv, RealtimeTypeOK, openVars, Live
  <2>3. NothingLeftBehind'
    BY <1>1, <1>2, <1>3, <2>1 DEF LoopInv, RealtimeTypeOK, NothingLeftBehind
  <2> QED BY <1>1, <1>2, <2>1, <2>2, <2>3 DEF LoopInv
<1>5. CASE Unavailable
  <2>1. phase' = "failing" /\ race' = "unavailable" /\ UNCHANGED <<endpoint, timer>>
    BY <1>5 DEF Unavailable
  <2>2. RealtimeTypeOK'
    BY <1>1, <1>2, <2>1 DEF LoopInv, RealtimeTypeOK, openVars
  <2>3. NothingLeftBehind'
    BY <1>1, <1>3, <2>1 DEF LoopInv, NothingLeftBehind
  <2> QED BY <1>1, <1>2, <2>1, <2>2, <2>3 DEF LoopInv
<1> QED BY <1>4, <1>5

LEMMA RejectsKeeps == ASSUME LoopInv, Rejects PROVE LoopInv'
<1>1. /\ phase = "next" /\ phase' = "rejected"
      /\ UNCHANGED <<attempt, race, endpoint, timer, skipped, aborted, missed, openVars>>
  BY DEF Rejects
<1>2. RealtimeTypeOK'
  BY <1>1 DEF LoopInv, RealtimeTypeOK, openVars
<1>3. NothingLeftBehind'
  BY <1>1 DEF LoopInv, NothingLeftBehind
<1> QED BY <1>1, <1>2, <1>3 DEF LoopInv

\* A race is on at a transport of the order.
LEMMA Racing ==
  ASSUME LoopInv, race = "pending"
  PROVE  phase = "racing" /\ attempt \in 1..Len(Order) /\ skipped < attempt
<1>1. phase = "racing" /\ attempt # 0
  BY DEF LoopInv, RealtimeTypeOK
<1> QED BY <1>1, Attempting DEF LoopInv

LEMMA SessionReadyKeeps == ASSUME LoopInv, SessionReady \/ Opens PROVE LoopInv'
<1>1. /\ race = "pending" /\ race' \in {"pending", "won"}
      /\ UNCHANGED <<attempt, phase, timer, skipped, aborted, missed, openVars>>
      /\ \E s \in {"ready", "open"} : endpoint' = [endpoint EXCEPT ![attempt] = s]
  BY DEF SessionReady, Opens
<1>2. phase = "racing" /\ attempt \in 1..Len(Order) /\ skipped < attempt
  BY <1>1, Racing
<1>3. RealtimeTypeOK'
  BY <1>1, <1>2 DEF LoopInv, RealtimeTypeOK, openVars, Live
<1>4. NothingLeftBehind'
  BY <1>1, <1>2 DEF LoopInv, RealtimeTypeOK, NothingLeftBehind
<1> QED BY <1>1, <1>2, <1>3, <1>4 DEF LoopInv

LEMMA RefusedKeeps == ASSUME LoopInv, Refused PROVE LoopInv'
<1>1. /\ race = "pending" /\ race' = "refused"
      /\ UNCHANGED <<attempt, phase, timer, skipped, aborted, missed, openVars>>
  BY DEF Refused
<1>2. PICK s \in {"closed", endpoint[attempt]} \ {"connecting"} :
        endpoint' = [endpoint EXCEPT ![attempt] = s]
  BY DEF Refused
<1>3. phase = "racing" /\ attempt \in 1..Len(Order) /\ skipped < attempt
  BY <1>1, Racing
<1>4. s \in Live \cup {"absent", "closing", "closed"}
  BY <1>3 DEF LoopInv, RealtimeTypeOK
<1>5. RealtimeTypeOK'
  BY <1>1, <1>2, <1>3, <1>4 DEF LoopInv, RealtimeTypeOK, openVars
<1>6. NothingLeftBehind'
  BY <1>1, <1>2, <1>3 DEF LoopInv, RealtimeTypeOK, NothingLeftBehind
<1> QED BY <1>1, <1>3, <1>5, <1>6 DEF LoopInv

LEMMA DeadlineKeeps == ASSUME LoopInv, Deadline PROVE LoopInv'
<1>1. /\ race = "pending" /\ race' = "deadline" /\ timer' = FALSE
      /\ UNCHANGED <<attempt, phase, endpoint, skipped, aborted, missed, openVars>>
  BY DEF Deadline
<1>2. phase = "racing" /\ attempt \in 1..Len(Order) /\ skipped < attempt
  BY <1>1, Racing
<1>3. RealtimeTypeOK'
  BY <1>1, <1>2 DEF LoopInv, RealtimeTypeOK, openVars
<1>4. NothingLeftBehind'
  BY <1>1, <1>2 DEF LoopInv, NothingLeftBehind
<1> QED BY <1>1, <1>2, <1>3, <1>4 DEF LoopInv

\* The loser is closed, whatever state the race left it in.
LEMMA ResumeKeeps == ASSUME LoopInv, Resume PROVE LoopInv'
<1>1. /\ phase = "racing" /\ race # "pending" /\ timer' = FALSE
      /\ phase' = IF race = "won" THEN "open" ELSE "failing"
      /\ endpoint' = IF race = "won" THEN endpoint
                     ELSE [endpoint EXCEPT ![attempt] = "closed"]
      /\ pumping' = (race = "won" /\ Quic)
      /\ UNCHANGED <<attempt, race, skipped, aborted, missed, done, closed, received>>
  BY DEF Resume
<1>2. attempt \in 1..Len(Order) /\ skipped < attempt
  <2>1. attempt # 0
    BY <1>1 DEF LoopInv, RealtimeTypeOK
  <2> QED BY <1>1, <2>1, Attempting DEF LoopInv
<1>3. RealtimeTypeOK'
  <2>1. /\ endpoint' \in [1..Len(Order) -> Live \cup {"absent", "closing", "closed"}]
        /\ phase' \in {"open", "failing"} /\ pumping' \in BOOLEAN
        /\ pumping' => phase' = "open"
    BY <1>1, <1>2 DEF LoopInv, RealtimeTypeOK
  <2> QED BY <1>1, <1>2, <2>1 DEF LoopInv, RealtimeTypeOK
<1>4. NothingLeftBehind'
  BY <1>1, <1>2 DEF LoopInv, RealtimeTypeOK, NothingLeftBehind, Live
<1> QED BY <1>1, <1>2, <1>3, <1>4 DEF LoopInv

LEMMA FallbackKeeps == ASSUME LoopInv, Fallback PROVE LoopInv'
<1>1. /\ phase = "failing" /\ race' = "none"
      /\ \/ phase' = "next" /\ skipped' = skipped + 1
         \/ phase' = "rejected" /\ skipped' = skipped
      /\ UNCHANGED <<attempt, endpoint, timer, aborted, missed, openVars>>
  BY DEF Fallback
<1>2. attempt \in 0..Len(Order) /\ skipped \in 0..attempt /\ skipped < attempt
  BY <1>1 DEF LoopInv, RealtimeTypeOK
<1>3. skipped' \in 0..attempt
  BY <1>1, <1>2
<1>4. RealtimeTypeOK'
  BY <1>1, <1>3 DEF LoopInv, RealtimeTypeOK, openVars
<1>5. NothingLeftBehind'
  BY <1>1 DEF LoopInv, NothingLeftBehind
<1> QED BY <1>1, <1>4, <1>5 DEF LoopInv

\* The open connection's transport is one of the order.
LEMMA Opened ==
  ASSUME LoopInv, phase = "open"
  PROVE  attempt \in 1..Len(Order)
<1>1. attempt # 0
  BY DEF LoopInv, RealtimeTypeOK
<1> QED BY <1>1, Attempting

LEMMA ClosingKeeps ==
  ASSUME LoopInv, StreamInv, phase = "open", Closing, UNCHANGED received
  PROVE  /\ StreamInv' /\ done' \in BOOLEAN
         /\ endpoint' \in [1..Len(Order) -> Live \cup {"absent", "closing", "closed"}]
         /\ \A i \in 1..Len(Order) : endpoint'[i] \in Live => endpoint[i] \in Live
<1>0. /\ endpoint \in [1..Len(Order) -> Live \cup {"absent", "closing", "closed"}]
      /\ attempt \in 1..Len(Order) /\ done \in BOOLEAN
  BY Opened DEF LoopInv, RealtimeTypeOK
<1>1. CASE done
  BY <1>0, <1>1, StreamFrame DEF Closing
<1>2. CASE ~done
  <2>1. /\ done' = TRUE
        /\ endpoint' = IF endpoint[attempt] = "open"
                       THEN [endpoint EXCEPT ![attempt] = "closing"] ELSE endpoint
        /\ IF Quic THEN EndQueue(NoError) ELSE UNCHANGED queueVars
    BY <1>2 DEF Closing
  <2>2. StreamInv'
    BY <2>1, StreamFrame, EndQueueKeeps
  <2> QED BY <1>0, <2>1, <2>2 DEF Live
<1> QED BY <1>1, <1>2

LEMMA CloseKeeps == ASSUME LoopInv, StreamInv, Close PROVE LoopInv' /\ StreamInv'
<1>1. /\ phase = "open" /\ Closing
      /\ UNCHANGED <<attempt, phase, race, timer, skipped, aborted, missed, closed, pumping, received>>
  BY DEF Close
<1>2. {closed', pumping'} \subseteq BOOLEAN /\ received' \in 0..MaxFrames
  BY <1>1 DEF LoopInv, RealtimeTypeOK
<1> QED BY <1>1, <1>2, ClosingKeeps, LoopFrame

LEMMA AbortKeeps == ASSUME LoopInv, StreamInv, Abort PROVE LoopInv' /\ StreamInv'
<1>1. /\ aborted' = TRUE /\ phase # "rejected"
      /\ race' = IF race = "pending" THEN "signal" ELSE race
      /\ missed' = (phase = "racing" /\ race = "won")
      /\ IF phase = "open" THEN Closing ELSE UNCHANGED <<done, endpoint, queueVars>>
      /\ UNCHANGED <<attempt, phase, timer, skipped, closed, pumping, received>>
  BY DEF Abort
<1>2. /\ StreamInv' /\ done' \in BOOLEAN
      /\ endpoint' \in [1..Len(Order) -> Live \cup {"absent", "closing", "closed"}]
      /\ \A i \in 1..Len(Order) : endpoint'[i] \in Live => endpoint[i] \in Live
  <2>1. CASE phase = "open"
    BY <1>1, <2>1, ClosingKeeps
  <2>2. CASE phase # "open"
    BY <1>1, <2>2, StreamFrame DEF LoopInv, RealtimeTypeOK
  <2> QED BY <2>1, <2>2
<1>3. RealtimeTypeOK'
  <2>1. race' \in {"none", "won", "unavailable", "refused", "deadline", "signal"}
    BY <1>1 DEF LoopInv, RealtimeTypeOK
  <2>2. missed' \in BOOLEAN
    BY <1>1
  <2> QED BY <1>1, <1>2, <2>1, <2>2 DEF LoopInv, RealtimeTypeOK
<1>4. NothingLeftBehind'
  BY <1>1, <1>2 DEF LoopInv, NothingLeftBehind
<1> QED BY <1>1, <1>2, <1>3, <1>4 DEF LoopInv

LEMMA DeliverKeeps == ASSUME LoopInv, StreamInv, Deliver PROVE LoopInv' /\ StreamInv'
<1>1. /\ received < MaxFrames /\ received' = received + 1 /\ Pushed(received + 1)
      /\ UNCHANGED <<loopVars, aborted, missed, done, closed, pumping>>
  BY DEF Deliver
<1>2. received' \in 0..MaxFrames
  BY <1>1, RealtimeAssumption DEF LoopInv, RealtimeTypeOK, RealtimeAssumption
<1>3. StreamInv'
  BY <1>1, PushedKeeps
<1>4. LoopInv'
  BY <1>1, <1>2, LoopFrame DEF loopVars, LoopInv, RealtimeTypeOK
<1> QED BY <1>3, <1>4

LEMMA StreamOverKeeps ==
  ASSUME LoopInv, StreamInv, NEW e \in Errors \cup {NoError}, StreamOver(e)
  PROVE  LoopInv' /\ StreamInv'
<1>1. /\ pumping' = FALSE /\ EndQueue(e)
      /\ UNCHANGED <<loopVars, aborted, missed, done, closed, received>>
  BY DEF StreamOver
<1>2. StreamInv'
  BY <1>1, EndQueueKeeps
<1>3. LoopInv'
  BY <1>1, LoopFrame DEF loopVars, LoopInv, RealtimeTypeOK
<1> QED BY <1>2, <1>3

LEMMA ClosedKeeps == ASSUME LoopInv, StreamInv, Closed PROVE LoopInv' /\ StreamInv'
<1>1. /\ phase = "open" /\ closed' = TRUE /\ EndQueue(NoError)
      /\ endpoint' = [endpoint EXCEPT ![attempt] = "closed"]
      /\ UNCHANGED <<attempt, phase, race, timer, skipped, aborted, missed, done, pumping, received>>
  BY DEF Closed
<1>2. StreamInv'
  BY <1>1, EndQueueKeeps
<1>3. /\ endpoint' \in [1..Len(Order) -> Live \cup {"absent", "closing", "closed"}]
      /\ \A i \in 1..Len(Order) : endpoint'[i] \in Live => endpoint[i] \in Live
  BY <1>1, Opened DEF LoopInv, RealtimeTypeOK, Live
<1>4. {done', closed', pumping'} \subseteq BOOLEAN /\ received' \in 0..MaxFrames
  BY <1>1 DEF LoopInv, RealtimeTypeOK
<1>5. LoopInv'
  BY <1>1, <1>3, <1>4, LoopFrame
<1> QED BY <1>2, <1>5

LEMMA ConsumesKeeps == ASSUME LoopInv, StreamInv, Consume PROVE LoopInv' /\ StreamInv'
<1>1. /\ Queue!Ask \/ Queue!Return
      /\ UNCHANGED <<loopVars, aborted, missed, done, closed, pumping, received>>
  BY DEF Consume, openVars
<1>2. StreamInv'
  BY <1>1, ConsumeKeeps
<1>3. LoopInv'
  BY <1>1, LoopFrame DEF loopVars, LoopInv, RealtimeTypeOK
<1> QED BY <1>2, <1>3

(***************************************************************************)
(* The invariant.                                                          *)
(***************************************************************************)
LEMMA RealtimeInitKeeps == RealtimeInit => LoopInv /\ StreamInv
<1> SUFFICES ASSUME RealtimeInit PROVE LoopInv /\ StreamInv
  OBVIOUS
<1>1. /\ attempt = 0 /\ phase = "next" /\ race = "none"
      /\ endpoint = [i \in 1..Len(Order) |-> "absent"]
      /\ timer = FALSE /\ aborted = FALSE /\ missed = FALSE /\ skipped = 0
      /\ done = FALSE /\ closed = FALSE /\ pumping = FALSE /\ received = 0
  BY DEF RealtimeInit
<1>2. Len(Order) \in Nat /\ MaxFrames \in Nat
  BY RealtimeAssumption, LenProperties DEF RealtimeAssumption
<1>3. RealtimeTypeOK
  <2>1. endpoint \in [1..Len(Order) -> Live \cup {"absent", "closing", "closed"}]
    BY <1>1
  <2>2. attempt \in 0..Len(Order) /\ skipped \in 0..attempt /\ received \in 0..MaxFrames
    BY <1>1, <1>2
  <2>3. {timer, aborted, missed, done, closed, pumping} \subseteq BOOLEAN
    BY <1>1
  <2> QED BY <1>1, <2>1, <2>2, <2>3 DEF RealtimeTypeOK
<1>4. NothingLeftBehind
  BY <1>1 DEF NothingLeftBehind, Live
<1>5. QueueP!IInv
  <2>1. QueueP!Init
    BY DEF RealtimeInit, Queue!Init, QueueP!Init
  <2> QED BY <2>1, RealtimeAssumption, FailureAssumption, QueueP!InitIInv DEF RealtimeAssumption
<1>6. sent = <<>>
  BY DEF RealtimeInit, Queue!Init
<1> QED BY <1>1, <1>3, <1>4, <1>5, <1>6 DEF LoopInv, StreamInv

LEMMA RealtimeNextKeeps ==
  LoopInv /\ StreamInv /\ [RealtimeNext]_realtimeVars => LoopInv' /\ StreamInv'
<1> SUFFICES ASSUME LoopInv, StreamInv, [RealtimeNext]_realtimeVars PROVE LoopInv' /\ StreamInv'
  OBVIOUS
<1>1. CASE LoopStep
  <2>1. LoopInv'
    BY <1>1, StartKeeps, RejectsKeeps, ResumeKeeps, FallbackKeeps DEF LoopStep
  <2>2. UNCHANGED <<received, queueVars>>
    BY <1>1 DEF LoopStep, Start, Unavailable, Rejects, Resume, Fallback, openVars
  <2> QED BY <2>1, <2>2, StreamFrame
<1>2. CASE SessionReady \/ Opens \/ Refused \/ Deadline
  <2>1. LoopInv'
    BY <1>2, SessionReadyKeeps, RefusedKeeps, DeadlineKeeps
  <2>2. UNCHANGED <<received, queueVars>>
    BY <1>2 DEF SessionReady, Opens, Refused, Deadline, openVars
  <2> QED BY <2>1, <2>2, StreamFrame
<1>3. CASE Deliver \/ Closed \/ \E e \in Errors \cup {NoError} : StreamOver(e)
  BY <1>3, DeliverKeeps, ClosedKeeps, StreamOverKeeps
<1>4. CASE Abort \/ Close \/ Consume
  BY <1>4, AbortKeeps, CloseKeeps, ConsumesKeeps
<1>5. CASE UNCHANGED realtimeVars
  <2>1. UNCHANGED <<loopVars, aborted, missed, openVars, queueVars>>
    BY <1>5 DEF realtimeVars
  <2>2. UNCHANGED <<received, queueVars>>
    BY <2>1 DEF openVars
  <2>3. LoopInv'
    BY <2>1, LoopFrame DEF loopVars, openVars, LoopInv, RealtimeTypeOK
  <2> QED BY <2>2, <2>3, StreamFrame
<1> QED BY <1>1, <1>2, <1>3, <1>4, <1>5 DEF RealtimeNext, TransportStep

\* Whatever transport wins, no other is left open and no timer armed, and the
\* messages of the connection are what it delivered, in order and without a gap
\* (connect-realtime.ts:189-193, 221-232, 321-333).
THEOREM RealtimeTheorem == RealtimeSpec => []RealtimeInv
<1>1. LoopInv /\ StreamInv => RealtimeInv
  BY StreamInOrder DEF LoopInv, RealtimeInv
<1> QED BY <1>1, RealtimeInitKeeps, RealtimeNextKeeps, PTL DEF RealtimeSpec
=============================================================================
