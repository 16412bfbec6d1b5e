------------------------- MODULE RefreshFetchProofs -------------------------
(***************************************************************************)
(* Proofs about RefreshFetch, for any number of calls and any revocations: *)
(* its types, what a replay goes out with, and that it is a SharedFlight.  *)
(***************************************************************************)
EXTENDS RefreshFetch, SequenceTheorems, TLAPS

\* The refresh in flight, and the cookie it has set once it has been answered.
FlightOK ==
  /\ refresh = "none" <=> inFlight = 0
  /\ refresh = "asked" => renewal[inFlight] = 0
  /\ refresh = "renewed" => renewal[inFlight] = jar /\ jar > 0

\* Where a call is in the async function, and what it has sent and awaited.  The
\* refresh it awaits sets no older a cookie than the one it was refused with.
CallOK(c) ==
  /\ pc[c] = "idle" => sent[c] = <<>> /\ joined[c] = 0
  /\ pc[c] = "fetching" => Len(sent[c]) = 1 /\ joined[c] = 0
  /\ pc[c] = "waiting" => Len(sent[c]) = 1 /\ joined[c] = inFlight /\ inFlight # 0
  /\ pc[c] = "cancelling" => Len(sent[c]) = 1 /\ joined[c] \notin {0, inFlight}
  /\ pc[c] = "replaying" => Len(sent[c]) = 2
  /\ pc[c] \in {"done", "rejected"} => Len(sent[c]) \in {1, 2}
  /\ joined[c] # 0 =>
       Len(sent[c]) # 0 /\ (renewal[joined[c]] = 0 \/ sent[c][1] <= renewal[joined[c]])
  /\ Len(sent[c]) = 2 =>
       /\ joined[c] \notin {0, inFlight}
       /\ sent[c][1] <= sent[c][2] /\ renewal[joined[c]] <= sent[c][2]

IInv == TypeOK /\ FlightOK /\ \A c \in Calls : CallOK(c)

\* One cookie more in the jar is one more that anything may carry.
LEMMA Widen ==
  ASSUME NEW S, NEW T, S \subseteq T,
         NEW f \in [Calls -> Seq(S)]
  PROVE  f \in [Calls -> Seq(T)]
BY SeqMonotonic

LEMMA InitInv == Init => IInv
<1> SUFFICES ASSUME Init PROVE IInv
  OBVIOUS
<1>1. <<>> \in Seq(0 .. jar) /\ Len(<<>>) = 0 /\ jar = 0 /\ flights = 0
  BY EmptySeq DEF Init
<1>2. renewal \in [1 .. flights -> 0 .. jar]
  BY <1>1 DEF Init
<1>3. TypeOK
  <2>1. over \in BOOLEAN
    BY DEF Init
  <2> QED BY <1>1, <1>2, <2>1 DEF Init, TypeOK
<1>4. FlightOK
  BY DEF Init, FlightOK
<1>5. \A c \in Calls : CallOK(c)
  BY <1>1 DEF Init, CallOK
<1> QED BY <1>3, <1>4, <1>5 DEF IInv

\* A call and the refresh it awaits: what the other steps leave alone.
LEMMA CallKept ==
  ASSUME IInv, NEW c \in Calls,
         pc'[c] = pc[c], sent'[c] = sent[c], joined'[c] = joined[c],
         UNCHANGED <<inFlight, flights, renewal>>
  PROVE  CallOK(c)'
BY DEF IInv, CallOK

-----------------------------------------------------------------------------
(***************************************************************************)
(* The wrapped fetch.                                                      *)
(***************************************************************************)
\* A request goes out with the cookie in the jar, as the last its call has sent.
LEMMA SendKeeps ==
  ASSUME IInv, NEW c \in Calls, NEW at \in {"fetching", "replaying"}, Sends(c, at),
         IF at = "fetching" THEN pc[c] = "idle" ELSE pc[c] = "cancelling",
         UNCHANGED <<joined, flightVars, serverVars>>
  PROVE  IInv'
<1>0. /\ sent[c] \in Seq(0 .. jar) /\ jar \in 0 .. jar
      /\ sent \in [Calls -> Seq(0 .. jar)] /\ Len(sent[c]) \in {0, 1}
  BY LenProperties, EmptySeq DEF IInv, TypeOK, CallOK
<1>1. /\ sent'[c] \in Seq(0 .. jar) /\ Len(sent'[c]) = Len(sent[c]) + 1
      /\ sent'[c][Len(sent[c]) + 1] = jar
      /\ Len(sent[c]) = 1 => sent'[c][1] = sent[c][1]
  BY <1>0, AppendProperties DEF Sends
<1>2. \A d \in Calls \ {c} : pc'[d] = pc[d] /\ sent'[d] = sent[d]
  BY <1>0 DEF Sends, IInv, TypeOK
<1>3. pc'[c] = at /\ joined'[c] = joined[c]
  BY DEF Sends, IInv, TypeOK
<1>4. TypeOK'
  <2>1. sent' \in [Calls -> Seq(0 .. jar)]
    BY <1>0, <1>1, <1>2 DEF Sends
  <2>2. /\ pc' \in [Calls -> {"idle", "fetching", "waiting", "cancelling",
                              "replaying", "done", "rejected"}]
        /\ answer' \in [Calls -> {"none", "accepted", "refused", "lost"}]
    BY DEF Sends, IInv, TypeOK
  <2>3. \A d \in Calls : Len(sent'[d]) <= 2
    <3>1. Len(sent'[c]) <= 2
      <4>1. CASE Len(sent[c]) = 0
        BY <1>1, <4>1
      <4>2. CASE Len(sent[c]) = 1
        BY <1>1, <4>2
      <4> QED BY <1>0, <4>1, <4>2
    <3>2. \A d \in Calls : Len(sent[d]) <= 2
      BY DEF IInv, TypeOK
    <3> QED BY <1>2, <3>1, <3>2
  <2>4. UNCHANGED <<joined, inFlight, flights, refresh, renewal, jar, revoked, over>>
    BY DEF flightVars, serverVars
  <2> QED BY <2>1, <2>2, <2>3, <2>4 DEF IInv, TypeOK
<1>5. FlightOK'
  BY DEF IInv, FlightOK, flightVars, serverVars
<1>6. ASSUME NEW d \in Calls, d # c PROVE CallOK(d)'
  BY <1>2, <1>6, CallKept DEF flightVars
<1>7. CallOK(c)'
  <2>1. CASE at = "fetching"
    <3>1. sent[c] = <<>> /\ joined[c] = 0 /\ Len(sent[c]) = 0
      BY <2>1, EmptySeq DEF IInv, CallOK
    <3> QED BY <1>1, <1>3, <2>1, <3>1 DEF CallOK
  <2>2. CASE at = "replaying"
    <3>1. /\ Len(sent[c]) = 1 /\ joined[c] \notin {0, inFlight}
          /\ renewal[joined[c]] = 0 \/ sent[c][1] <= renewal[joined[c]]
      BY <2>2 DEF IInv, CallOK
    <3>2. renewal[joined[c]] \in 0 .. jar /\ sent[c][1] \in 0 .. jar /\ jar \in Nat
      <4>1. renewal[joined[c]] \in 0 .. jar /\ jar \in Nat
        BY <3>1 DEF IInv, TypeOK
      <4>2. sent[c][1] \in 0 .. jar
        <5>1. 1 \in 1 .. Len(sent[c])
          BY <3>1
        <5> QED BY <1>0, <5>1, ElementOfSeq
      <4> QED BY <4>1, <4>2
    <3>3. /\ Len(sent'[c]) = 2 /\ sent'[c][1] = sent[c][1] /\ sent'[c][2] = jar
          /\ renewal' = renewal /\ inFlight' = inFlight
      BY <1>1, <3>1 DEF flightVars
    <3> QED BY <1>3, <2>2, <3>1, <3>2, <3>3 DEF CallOK
  <2> QED BY <2>1, <2>2
<1> QED BY <1>4, <1>5, <1>6, <1>7 DEF IInv

\* A refusal joins the refresh in flight, or starts one that no call awaits yet.
LEMMA RefusedKeeps == ASSUME IInv, NEW c \in Calls, Refused(c) PROVE IInv'
<1>0. /\ flights \in Nat /\ inFlight \in {0, flights} /\ jar \in Nat
      /\ renewal \in [1 .. flights -> 0 .. jar]
  BY DEF IInv, TypeOK
<1>1. /\ flights' \in Nat /\ flights <= flights' /\ inFlight' = flights' /\ inFlight' # 0
      /\ renewal' \in [1 .. flights' -> 0 .. jar]
      /\ \A n \in 1 .. flights : renewal'[n] = renewal[n]
      /\ inFlight # 0 => UNCHANGED flightVars
      /\ inFlight = 0 => flights' = flights + 1 /\ refresh' = "asked" /\ renewal'[flights'] = 0
      /\ refresh' \in {"none", "asked", "renewed"}
  <2>1. CASE inFlight # 0
    BY <1>0, <2>1 DEF Refused, RunRefresh, flightVars, IInv, TypeOK
  <2>2. CASE inFlight = 0
    <3>1. /\ renewal' = Append(renewal, 0) /\ refresh' = "asked"
          /\ inFlight' = flights + 1 /\ flights' = flights + 1
      BY <2>2 DEF Refused, RunRefresh
    <3>2. renewal \in Seq(0 .. jar) /\ Len(renewal) = flights /\ 0 \in 0 .. jar
      <4>1. renewal \in Seq(0 .. jar)
        BY <1>0, SeqDef
      <4>2. DOMAIN renewal = 1 .. flights /\ Len(renewal) \in Nat
            /\ DOMAIN renewal = 1 .. Len(renewal)
        BY <1>0, <4>1, LenProperties
      <4>3. Len(renewal) = flights
        BY <1>0, <4>1, <4>2
      <4> QED BY <1>0, <4>1, <4>3
    <3>3. /\ renewal' \in Seq(0 .. jar) /\ Len(renewal') = flights + 1
          /\ renewal'[flights + 1] = 0
          /\ \A n \in 1 .. flights : renewal'[n] = renewal[n]
      BY <3>1, <3>2, AppendProperties
    <3>4. renewal' \in [1 .. flights + 1 -> 0 .. jar]
      BY <3>3, LenProperties
    <3> QED BY <1>0, <2>2, <3>1, <3>3, <3>4
  <2> QED BY <2>1, <2>2
<1>2. /\ pc' = [pc EXCEPT ![c] = "waiting"] /\ joined' = [joined EXCEPT ![c] = inFlight']
      /\ UNCHANGED <<sent, answer, jar, revoked, over>> /\ pc[c] = "fetching"
  BY DEF Refused, serverVars
<1>3. /\ pc'[c] = "waiting" /\ joined'[c] = inFlight'
      /\ \A d \in Calls \ {c} : pc'[d] = pc[d] /\ joined'[d] = joined[d]
  BY <1>2 DEF IInv, TypeOK
<1>4. TypeOK'
  <2>1. joined' \in [Calls -> 0 .. flights']
    BY <1>0, <1>1, <1>2 DEF IInv, TypeOK
  <2>2. pc' \in [Calls -> {"idle", "fetching", "waiting", "cancelling",
                           "replaying", "done", "rejected"}]
    BY <1>2 DEF IInv, TypeOK
  <2> QED BY <1>1, <1>2, <2>1, <2>2 DEF IInv, TypeOK
<1>5. FlightOK'
  BY <1>0, <1>1, <1>2 DEF IInv, FlightOK, flightVars
<1>6. ASSUME NEW d \in Calls, d # c PROVE CallOK(d)'
  <2>1. joined[d] \in 0 .. flights
    BY DEF IInv, TypeOK
  <2>2. joined[d] # 0 => renewal'[joined[d]] = renewal[joined[d]]
    BY <1>0, <1>1, <2>1
  <2>3. pc[d] = "waiting" => inFlight' = inFlight
    BY <1>1 DEF IInv, CallOK, flightVars
  <2>4. pc'[d] = pc[d] /\ joined'[d] = joined[d] /\ sent'[d] = sent[d]
    BY <1>2, <1>3, <1>6
  <2>5. CallOK(d)
    BY DEF IInv
  <2>6. joined[d] \notin {0, inFlight} => joined[d] \notin {0, inFlight'}
    BY <1>0, <1>1, <2>1 DEF flightVars
  <2> QED BY <1>1, <2>2, <2>3, <2>4, <2>5, <2>6 DEF CallOK
<1>7. CallOK(c)'
  <2>1. Len(sent[c]) = 1 /\ sent[c] \in Seq(0 .. jar)
    BY <1>2 DEF IInv, CallOK, TypeOK
  <2>2. sent[c][1] <= jar /\ sent[c][1] \in Nat
    BY <1>0, <2>1, ElementOfSeq
  <2>3. renewal'[inFlight'] = 0 \/ renewal'[inFlight'] = jar
    BY <1>0, <1>1 DEF IInv, FlightOK, TypeOK, flightVars
  <2> QED BY <1>0, <1>1, <1>2, <1>3, <2>1, <2>2, <2>3 DEF CallOK
<1> QED BY <1>4, <1>5, <1>6, <1>7 DEF IInv

\* A call ends with a reply it was given.
LEMMA EndKeeps ==
  ASSUME IInv, NEW c \in Calls, pc[c] \in {"fetching", "replaying"},
         NEW at \in {"done", "rejected"}, pc' = [pc EXCEPT ![c] = at],
         UNCHANGED <<sent, answer, joined, flightVars, serverVars>>
  PROVE  IInv'
<1>1. /\ pc'[c] = at /\ \A d \in Calls \ {c} : pc'[d] = pc[d]
      /\ UNCHANGED <<inFlight, flights, refresh, renewal, jar, revoked, over>>
  BY DEF IInv, TypeOK, flightVars, serverVars
<1>2. TypeOK'
  BY <1>1 DEF IInv, TypeOK
<1>3. FlightOK'
  BY <1>1 DEF IInv, FlightOK
<1>4. \A d \in Calls \ {c} : CallOK(d)'
  BY <1>1, CallKept
<1>5. CallOK(c)'
  BY <1>1 DEF IInv, CallOK
<1> QED BY <1>2, <1>3, <1>4, <1>5 DEF IInv

\* The refresh settles, and all who await it go on.
LEMMA SettleKeeps ==
  ASSUME IInv, RefreshRejects \/ RefreshResolves
  PROVE  IInv'
<1>1. /\ refresh' = "none" /\ inFlight' = 0
      /\ UNCHANGED <<flights, renewal, sent, answer, joined, jar, revoked, over>>
  BY DEF RefreshRejects, RefreshResolves, serverVars
<1>2. /\ pc' = [c \in Calls |-> pc'[c]]
      /\ \A c \in Calls \ Sharing : pc'[c] = pc[c]
      /\ \A c \in Sharing : \/ pc'[c] \in {"done", "rejected"}
                            \/ pc'[c] = "cancelling"
  BY DEF RefreshRejects, RefreshResolves, Sharing
<1>3. TypeOK'
  <2>1. pc' \in [Calls -> {"idle", "fetching", "waiting", "cancelling",
                           "replaying", "done", "rejected"}]
    BY <1>2 DEF IInv, TypeOK
  <2> QED BY <1>1, <2>1 DEF IInv, TypeOK
<1>4. FlightOK'
  BY <1>1 DEF FlightOK
<1>5. ASSUME NEW c \in Calls PROVE CallOK(c)'
  <2>1. CASE c \in Sharing
    <3>1. Len(sent[c]) = 1 /\ joined[c] = inFlight /\ inFlight # 0 /\ CallOK(c)
      BY <2>1 DEF Sharing, IInv, CallOK
    <3> QED BY <1>1, <1>2, <2>1, <3>1 DEF CallOK
  <2>2. CASE c \notin Sharing
    <3>1. pc[c] # "waiting"
      BY <2>2 DEF Sharing, IInv, CallOK
    <3>2. pc'[c] = pc[c] /\ CallOK(c)
      BY <1>2, <2>2 DEF IInv
    <3> QED BY <1>1, <3>1, <3>2 DEF CallOK
  <2> QED BY <2>1, <2>2
<1> QED BY <1>3, <1>4, <1>5 DEF IInv

-----------------------------------------------------------------------------
(***************************************************************************)
(* The server and the network.                                             *)
(***************************************************************************)
LEMMA ServeKeeps == ASSUME IInv, NEW c \in Calls, Serve(c) PROVE IInv'
<1>1. UNCHANGED <<pc, sent, joined, inFlight, flights, refresh, renewal, jar, revoked, over>>
  BY DEF Serve, flightVars, serverVars
<1>2. answer' \in [Calls -> {"none", "accepted", "refused", "lost"}]
  BY DEF Serve, IInv, TypeOK
<1>3. TypeOK' /\ FlightOK'
  BY <1>1, <1>2 DEF IInv, TypeOK, FlightOK
<1>4. \A d \in Calls : CallOK(d)'
  BY <1>1, CallKept
<1> QED BY <1>3, <1>4 DEF IInv

\* The new cookie is newer than any that was sent.
LEMMA CookieKeeps == ASSUME IInv, SetsCookie PROVE IInv'
<1>0. /\ inFlight # 0 /\ inFlight \in 1 .. flights /\ jar \in Nat /\ jar' = jar + 1
      /\ renewal \in [1 .. flights -> 0 .. jar] /\ renewal[inFlight] = 0
  BY DEF SetsCookie, IInv, FlightOK, TypeOK
<1>1. /\ renewal' \in [1 .. flights -> 0 .. jar'] /\ renewal'[inFlight] = jar'
      /\ \A n \in 1 .. flights : n # inFlight => renewal'[n] = renewal[n]
  BY <1>0 DEF SetsCookie
<1>2. UNCHANGED <<pc, sent, answer, joined, inFlight, flights, revoked, over>>
      /\ refresh' = "renewed"
  BY DEF SetsCookie, callVars
<1>3. 0 .. jar \subseteq 0 .. jar'
  BY <1>0
<1>4. TypeOK'
  <2>1. sent' \in [Calls -> Seq(0 .. jar')]
    BY <1>2, <1>3, Widen DEF IInv, TypeOK
  <2>2. revoked' \subseteq 0 .. jar' /\ jar' \in Nat
    BY <1>0, <1>2, <1>3 DEF IInv, TypeOK
  <2> QED BY <1>1, <1>2, <2>1, <2>2 DEF IInv, TypeOK
<1>5. FlightOK'
  BY <1>0, <1>1, <1>2 DEF FlightOK
<1>6. ASSUME NEW c \in Calls PROVE CallOK(c)'
  <2>1. sent[c] \in Seq(0 .. jar) /\ joined[c] \in 0 .. flights /\ CallOK(c)
        /\ Len(sent[c]) \in Nat
    BY LenProperties DEF IInv, TypeOK
  <2>2. CASE joined[c] = inFlight
    <3>1. Len(sent[c]) # 0 /\ Len(sent[c]) # 2
      BY <1>0, <2>1, <2>2 DEF CallOK
    <3>2. sent[c][1] \in 0 .. jar
      <4>1. 1 \in 1 .. Len(sent[c])
        BY <2>1, <3>1
      <4> QED BY <2>1, <4>1, ElementOfSeq
    <3>3. sent[c][1] <= jar'
      BY <1>0, <3>2
    <3> QED BY <1>0, <1>1, <1>2, <2>1, <2>2, <3>1, <3>3 DEF CallOK
  <2>3. CASE joined[c] # inFlight
    <3>1. joined[c] # 0 => renewal'[joined[c]] = renewal[joined[c]]
      BY <1>1, <2>1, <2>3
    <3> QED BY <1>2, <2>1, <3>1 DEF CallOK
  <2> QED BY <2>2, <2>3
<1> QED BY <1>4, <1>5, <1>6 DEF IInv

LEMMA RevokeKeeps == ASSUME IInv, Revoke PROVE IInv'
<1>1. UNCHANGED <<pc, sent, answer, joined, inFlight, flights, refresh, renewal, jar>>
  BY DEF Revoke, callVars, flightVars
<1>2. over' \in BOOLEAN
  BY DEF Revoke, IInv, TypeOK
<1>3. revoked' \subseteq 0 .. jar
  BY DEF Revoke
<1>4. TypeOK'
  BY <1>1, <1>2, <1>3 DEF IInv, TypeOK
<1>5. FlightOK'
  BY <1>1 DEF IInv, FlightOK
<1>6. \A d \in Calls : CallOK(d)'
  BY <1>1, CallKept
<1> QED BY <1>4, <1>5, <1>6 DEF IInv

LEMMA StutterKeeps == ASSUME IInv, UNCHANGED vars PROVE IInv'
<1>1. UNCHANGED <<pc, sent, answer, joined, inFlight, flights, refresh, renewal, jar,
                  revoked, over>>
  BY DEF vars, callVars, flightVars, serverVars
<1>2. TypeOK' /\ FlightOK'
  BY <1>1 DEF IInv, TypeOK, FlightOK
<1>3. \A d \in Calls : CallOK(d)'
  BY <1>1, CallKept
<1> QED BY <1>2, <1>3 DEF IInv

LEMMA NextInv == IInv /\ [Next]_vars => IInv'
<1> SUFFICES ASSUME IInv, [Next]_vars PROVE IInv'
  OBVIOUS
<1>1. ASSUME NEW c \in Calls, Call(c) \/ Replay(c) PROVE IInv'
  BY <1>1, SendKeeps DEF Call, Replay
<1>2. ASSUME NEW c \in Calls, Refused(c) PROVE IInv'
  BY <1>2, RefusedKeeps
<1>3. ASSUME NEW c \in Calls, Answered(c) \/ Rejected(c) PROVE IInv'
  BY <1>3, EndKeeps DEF Answered, Rejected
<1>4. CASE RefreshRejects \/ RefreshResolves
  BY <1>4, SettleKeeps
<1>5. CASE ServerStep
  BY <1>5, ServeKeeps, CookieKeeps DEF ServerStep
<1>6. CASE Revoke
  BY <1>6, RevokeKeeps
<1>7. CASE UNCHANGED vars
  BY <1>7, StutterKeeps
<1> QED BY <1>1, <1>2, <1>3, <1>4, <1>5, <1>6, <1>7 DEF Next, ClientStep

LEMMA Invariance == Spec => []IInv
BY InitInv, NextInv, PTL DEF Spec

-----------------------------------------------------------------------------
(***************************************************************************)
(* What follows.                                                           *)
(***************************************************************************)
\* Every variable has its type, and no call sends more than two requests.
THEOREM FetchTypeOK == Spec => []TypeOK
<1>1. IInv => TypeOK
  BY DEF IInv
<1> QED BY <1>1, Invariance, PTL

\* No call replays while the refresh it awaited is in flight, and no replay goes
\* out under an older cookie than the request it repeats or the one that refresh
\* has set, whoever else is renewed, refused or revoked in between.
THEOREM ReplayTheorem == Spec => []ReplayUnderRenewal
<1>1. IInv => ReplayUnderRenewal
  <2> SUFFICES ASSUME IInv, NEW c \in Calls
               PROVE
                 /\ pc[c] = "cancelling" \/ Len(sent[c]) = 2 => joined[c] \notin {0, inFlight}
                 /\ Len(sent[c]) = 2 =>
                      LET renewed == renewal[joined[c]] IN
                      /\ sent[c][2] >= sent[c][1]
                      /\ renewed > 0 => /\ sent[c][2] >= renewed
                                        /\ sent[c][2] > sent[c][1] \/ sent[c][1] = renewed
    BY DEF ReplayUnderRenewal
  <2>1. pc[c] = "cancelling" \/ Len(sent[c]) = 2 => joined[c] \notin {0, inFlight}
    BY DEF IInv, CallOK
  <2>2. ASSUME Len(sent[c]) = 2
        PROVE  LET renewed == renewal[joined[c]] IN
               /\ sent[c][2] >= sent[c][1]
               /\ renewed > 0 => /\ sent[c][2] >= renewed
                                 /\ sent[c][2] > sent[c][1] \/ sent[c][1] = renewed
    <3>1. sent[c] \in Seq(0 .. jar) /\ jar \in Nat
      BY DEF IInv, TypeOK
    <3>2. sent[c][1] \in 0 .. jar /\ sent[c][2] \in 0 .. jar
      BY <2>2, <3>1, ElementOfSeq
    <3>3. renewal[joined[c]] \in 0 .. jar
      BY <2>2 DEF IInv, CallOK, TypeOK
    <3>4. /\ sent[c][1] <= sent[c][2] /\ renewal[joined[c]] <= sent[c][2]
          /\ renewal[joined[c]] = 0 \/ sent[c][1] <= renewal[joined[c]]
      BY <2>2 DEF IInv, CallOK
    <3> QED BY <3>1, <3>2, <3>3, <3>4
  <2> QED BY <2>1, <2>2
<1> QED BY <1>1, Invariance, PTL

(***************************************************************************)
(* The refinement.                                                         *)
(***************************************************************************)
Awaits == [c \in Calls |-> IF pc[c] = "waiting" THEN joined[c] ELSE 0]
Told == [c \in Calls |->
  IF joined[c] = 0 \/ pc[c] = "waiting" THEN "none"
  ELSE IF pc[c] \in {"cancelling", "replaying"} \/ Len(sent[c]) = 2 THEN "kept" ELSE "failed"]

\* A step that leaves the refresh, and what each call shows of it, as they are.
LEMMA FlightStutter ==
  ASSUME UNCHANGED <<inFlight, flights>>, Awaits' = Awaits, Told' = Told
  PROVE  UNCHANGED Flight!vars
BY DEF Flight!vars, Awaits, Told

LEMMA RefusedAsks == ASSUME IInv, NEW c \in Calls, Refused(c) PROVE Flight!Ask(c)
<1>1. Flight!Open \/ Flight!Share
  BY DEF Refused, RunRefresh, flightVars, Flight!Open, Flight!Share
<1>2. /\ pc[c] = "fetching" /\ joined[c] = 0 /\ sent' = sent
      /\ pc' = [pc EXCEPT ![c] = "waiting"] /\ joined' = [joined EXCEPT ![c] = inFlight']
  BY DEF Refused, IInv, CallOK
<1>3. Awaits[c] = 0 /\ Told[c] = "none"
  BY <1>2 DEF Awaits, Told
<1>4. Awaits' = [Awaits EXCEPT ![c] = inFlight']
  BY <1>2 DEF Awaits, IInv, TypeOK
<1>5. Told' = Told
  BY <1>2 DEF Told, IInv, TypeOK
<1> QED BY <1>1, <1>3, <1>4, <1>5 DEF Flight!Ask, Awaits, Told

LEMMA SettleTellsAll ==
  ASSUME IInv, NEW result \in {"kept", "failed"},
         IF result = "kept" THEN RefreshResolves ELSE RefreshRejects
  PROVE  Flight!Settle(result)
<1> DEFINE at == IF result = "kept" THEN {"cancelling"} ELSE {"done", "rejected"}
<1>1. inFlight # 0 /\ inFlight' = 0 /\ UNCHANGED <<flights, sent, joined>>
  BY DEF RefreshRejects, RefreshResolves, IInv, FlightOK
<1>2. /\ \A c \in Calls \ Sharing : pc'[c] = pc[c]
      /\ \A c \in Sharing : pc'[c] \in at
  BY DEF RefreshRejects, RefreshResolves, Sharing
<1>3. ASSUME NEW c \in Calls
      PROVE  /\ c \in Sharing <=> Awaits[c] = inFlight
             /\ c \notin Sharing => Awaits[c] = 0 /\ pc[c] # "waiting"
             /\ c \in Sharing => Len(sent[c]) = 1 /\ joined[c] = inFlight
  BY <1>1 DEF Sharing, Awaits, IInv, CallOK
<1>4. Awaits' = [c \in Calls |-> 0]
  BY <1>1, <1>2, <1>3 DEF Awaits
<1>5. Told' = [c \in Calls |-> IF Awaits[c] = inFlight THEN result ELSE Told[c]]
  <2>1. ASSUME NEW c \in Calls
        PROVE  Told'[c] = IF Awaits[c] = inFlight THEN result ELSE Told[c]
    <3>1. CASE c \in Sharing
      <4>1. pc'[c] \in at /\ Len(sent'[c]) = 1 /\ joined'[c] # 0
        BY <1>1, <1>2, <1>3, <3>1
      <4> QED BY <1>3, <3>1, <4>1 DEF Told
    <3>2. CASE c \notin Sharing
      BY <1>1, <1>2, <1>3, <3>2 DEF Told
    <3> QED BY <3>1, <3>2
  <2> QED BY <2>1 DEF Told
<1> QED BY <1>1, <1>4, <1>5 DEF Flight!Settle, Awaits, Told

LEMMA StepImplementsFlight ==
  ASSUME IInv, [Next]_vars
  PROVE  [Flight!Next]_(Flight!vars)
<1>1. ASSUME NEW c \in Calls, Call(c) \/ Replay(c) PROVE UNCHANGED Flight!vars
  <2>1. /\ UNCHANGED <<inFlight, flights, joined>>
        /\ \A d \in Calls \ {c} : pc'[d] = pc[d] /\ sent'[d] = sent[d]
        /\ \/ pc[c] = "idle" /\ pc'[c] = "fetching"
           \/ pc[c] = "cancelling" /\ pc'[c] = "replaying"
    BY <1>1 DEF Call, Replay, Sends, flightVars, IInv, TypeOK
  <2>2. pc[c] = "idle" => joined[c] = 0
    BY DEF IInv, CallOK
  <2>3. Awaits' = Awaits /\ Told' = Told
    BY <2>1, <2>2 DEF Awaits, Told
  <2> QED BY <2>1, <2>3, FlightStutter
<1>2. ASSUME NEW c \in Calls, Answered(c) \/ Rejected(c) PROVE UNCHANGED Flight!vars
  <2>1. /\ UNCHANGED <<inFlight, flights, joined, sent>>
        /\ \A d \in Calls \ {c} : pc'[d] = pc[d]
        /\ pc[c] \in {"fetching", "replaying"} /\ pc'[c] \in {"done", "rejected"}
    BY <1>2 DEF Answered, Rejected, flightVars, IInv, TypeOK
  <2>2. joined[c] = 0 \/ Len(sent[c]) = 2
    BY <2>1 DEF IInv, CallOK
  <2>3. Awaits' = Awaits /\ Told' = Told
    BY <2>1, <2>2 DEF Awaits, Told
  <2> QED BY <2>1, <2>3, FlightStutter
<1>3. CASE ServerStep \/ Revoke \/ UNCHANGED vars
  <2>1. UNCHANGED <<pc, sent, joined, inFlight, flights>>
    BY <1>3 DEF ServerStep, Serve, SetsCookie, Revoke, vars, callVars, flightVars
  <2>2. Awaits' = Awaits /\ Told' = Told
    BY <2>1 DEF Awaits, Told
  <2> QED BY <2>1, <2>2, FlightStutter
<1>4. CASE RefreshRejects \/ RefreshResolves
  <2>1. RefreshRejects => Flight!Settle("failed")
    BY SettleTellsAll
  <2>2. RefreshResolves => Flight!Settle("kept")
    BY SettleTellsAll
  <2> QED BY <1>4, <2>1, <2>2 DEF Flight!Next
<1>5. ASSUME NEW c \in Calls, Refused(c) PROVE Flight!Next
  BY <1>5, RefusedAsks DEF Flight!Next
<1> QED BY <1>1, <1>2, <1>3, <1>4, <1>5 DEF Next, ClientStep

\* createRefreshFetch implements the shared flight: all who are refused while a
\* refresh is under way share it and are told its outcome in the step in which
\* it settles, and a failure is told to nobody else.
THEOREM FetchImplementsFlight == Spec => FlightSpec
<1>1. Init => Flight!Init
  BY DEF Init, Flight!Init
<1>2. IInv /\ [Next]_vars => [Flight!Next]_(Flight!vars)
  BY StepImplementsFlight
<1> QED BY <1>1, <1>2, Invariance, PTL DEF Spec, FlightSpec, Flight!Spec
=============================================================================
