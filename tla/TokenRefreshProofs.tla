------------------------- MODULE TokenRefreshProofs -------------------------
(***************************************************************************)
(* Proofs about TokenRefresh: one refresh at a time, no token outlives an  *)
(* invalidate(), and the idle timer follows the token, for any calls,      *)
(* lifetimes, window and ceiling.                                          *)
(***************************************************************************)
EXTENDS TokenRefresh, SequenceTheorems, TLAPS

PC == {"idle", "blocked", "done", "rejected"}

Timer == [due : Nat, target : Nat] \cup {None}

\* schedule() gives a timer or none, whatever token it is called for.
LEMMA ScheduledType ==
  ASSUME TypeOK, NEW token \in AuthToken \cup {None}
  PROVE  Scheduled(token) \in Timer
<1>1. CASE token = None
  BY <1>1 DEF Scheduled, Timer
<1>2. CASE token # None
  <2> DEFINE target == token.expiresAt - RefreshBefore
  <2>1. token.expiresAt \in Nat
    BY <1>2 DEF AuthToken
  <2>2. now \in Nat /\ MaxDelay \in Nat \ {0} /\ target \in Int
    BY <2>1, RefreshAssumption DEF TypeOK
  <2>3. CASE target > now /\ Proactive /\ ~disposed
    <3>1. now + Smaller(target - now, MaxDelay) \in Nat /\ target \in Nat
      BY <2>2, <2>3 DEF Smaller
    <3> HIDE DEF target
    <3>2. [due |-> now + Smaller(target - now, MaxDelay), target |-> target] \in Timer
      BY <3>1 DEF Timer
    <3> QED BY <1>2, <2>2, <2>3, <3>2 DEF Scheduled, Timer, target
  <2>4. CASE ~(target > now /\ Proactive /\ ~disposed)
    BY <2>2, <2>4 DEF Scheduled, Timer
  <2> QED BY <2>3, <2>4
<1> QED BY <1>1, <1>2

LEMMA InitType == Init => TypeOK
<1> SUFFICES ASSUME Init PROVE TypeOK
  OBVIOUS
<1>1. started = <<>> /\ Len(started) = 0 /\ started \in Seq(Nat)
  BY EmptySeq DEF Init
<1>2. current \in AuthToken \cup {None}
  BY RefreshAssumption DEF Init, TokenOf, AuthToken
<1>3. Scheduled(current) \in Timer
  <2>1. CASE current = None
    BY <2>1 DEF Scheduled, Timer
  <2>2. CASE current # None
    <3>1. PICK life \in Lifetimes : current = TokenOf(0, life)
      BY <2>2 DEF Init
    <3>2. current.expiresAt \in Nat /\ now = 0 /\ RefreshBefore \in Nat
          /\ MaxDelay \in Nat \ {0}
      BY <3>1, RefreshAssumption DEF TokenOf, Init
    <3> QED BY <2>2, <3>2 DEF Scheduled, Smaller, Timer
  <2> QED BY <2>1, <2>2
<1>4. timer \in Timer
  BY <1>3 DEF Init
<1>5. /\ now \in Nat /\ generation \in Nat /\ inFlight \in Nat
      /\ running \subseteq Nat /\ disposed \in BOOLEAN
      /\ floor \in Int /\ fence \in Nat
  <2>1. now = 0 /\ generation = 0 /\ inFlight = 0 /\ running = {} /\ floor = -1 /\ fence = 0
    BY DEF Init
  <2>2. disposed \in BOOLEAN
    BY DEF Init
  <2> QED BY <2>1, <2>2
<1>6. /\ pc \in [Calls -> PC] /\ joined \in [Calls -> Nat]
      /\ got \in [Calls -> Int] /\ asked \in [Calls -> Int]
  BY DEF Init, PC
<1> QED BY <1>1, <1>2, <1>4, <1>5, <1>6 DEF TypeOK, Timer, PC

\* What a refresh that joins or starts does to the numbering.
LEMMA RefreshFacts ==
  ASSUME TypeOK, Refresh
  PROVE  /\ started' \in Seq(Nat) /\ Len(started) \in Nat
         /\ \/ /\ inFlight # 0
               /\ started' = started /\ inFlight' = inFlight /\ running' = running
            \/ /\ inFlight = 0
               /\ Len(started') = Len(started) + 1
               /\ started'[Len(started) + 1] = generation
               /\ \A n \in 1..Len(started) : started'[n] = started[n]
               /\ inFlight' = Len(started) + 1
               /\ running' = running \cup {Len(started) + 1}
<1>1. started \in Seq(Nat) /\ generation \in Nat /\ Len(started) \in Nat
  BY LenProperties DEF TypeOK
<1>2. CASE inFlight = 0 /\ Start
  <2>1. started' \in Seq(Nat) /\ Len(started') = Len(started) + 1
        /\ started'[Len(started) + 1] = generation
        /\ \A n \in 1..Len(started) : started'[n] = started[n]
    BY <1>1, <1>2, AppendProperties DEF Start
  <2> QED BY <1>1, <1>2, <2>1 DEF Start
<1>3. CASE inFlight # 0 /\ UNCHANGED refreshVars
  BY <1>1, <1>3 DEF refreshVars
<1> QED BY <1>2, <1>3 DEF Refresh

LEMMA RefreshType ==
  ASSUME TypeOK, Refresh \/ UNCHANGED refreshVars
  PROVE  started' \in Seq(Nat) /\ inFlight' \in Nat /\ running' \subseteq Nat
<1>1. CASE Refresh
  <2>1. /\ started' \in Seq(Nat) /\ Len(started) \in Nat
        /\ inFlight' = inFlight \/ inFlight' = Len(started) + 1
        /\ running' \subseteq running \cup {Len(started) + 1}
    BY <1>1, RefreshFacts
  <2>2. inFlight \in Nat /\ running \subseteq Nat
    BY DEF TypeOK
  <2> QED BY <2>1, <2>2
<1>2. CASE UNCHANGED refreshVars
  BY <1>2 DEF TypeOK, refreshVars
<1> QED BY <1>1, <1>2

LEMMA NextType == TypeOK /\ [Next]_vars => TypeOK'
<1> SUFFICES ASSUME TypeOK, [Next]_vars PROVE TypeOK'
  OBVIOUS
<1> USE DEF refreshVars, callVars, dropVars
<1>1. ASSUME NEW c \in Calls, HeadersBlock(c) PROVE TypeOK'
  <2>1. started' \in Seq(Nat) /\ inFlight' \in Nat /\ running' \subseteq Nat
    BY <1>1, RefreshType DEF HeadersBlock
  <2> QED BY <1>1, <2>1 DEF HeadersBlock, TypeOK
<1>2. ASSUME NEW c \in Calls, HeadersAtOnce(c) PROVE TypeOK'
  <2>1. started' \in Seq(Nat) /\ inFlight' \in Nat /\ running' \subseteq Nat
    BY <1>2, RefreshType DEF HeadersAtOnce
  <2>2. current.id \in Int
    BY <1>2 DEF HeadersAtOnce, Expired, TypeOK, AuthToken
  <2> QED BY <1>2, <2>1, <2>2 DEF HeadersAtOnce, TypeOK
<1>3. CASE Tick
  BY <1>3 DEF Tick, TypeOK
<1>9. CASE Dispose
  <2>1. disposed' \in BOOLEAN
    BY <1>9 DEF Dispose
  <2> QED BY <1>9, <2>1 DEF Dispose, TypeOK
<1>4. CASE Invalidate
  <2>1. Len(started) \in Int
    BY LenProperties DEF TypeOK
  <2> QED BY <1>4, <2>1 DEF Invalidate, TypeOK
<1>5. CASE TimerFires
  <2>1. started' \in Seq(Nat) /\ inFlight' \in Nat /\ running' \subseteq Nat
    BY <1>5, RefreshType DEF TimerFires, TimerRenews, TimerRearms
  <2>2. timer' \in Timer
    BY <1>5, ScheduledType DEF TimerFires, TimerRenews, TimerRearms, Timer, TypeOK
  <2> QED BY <1>5, <2>1, <2>2 DEF TimerFires, TypeOK, Timer
<1>6. ASSUME NEW n \in running, RefreshRejects(n) PROVE TypeOK'
  <2>1. running' \subseteq Nat /\ inFlight' \in Nat
    BY <1>6 DEF RefreshRejects, Released, TypeOK
  <2>2. pc' \in [Calls -> PC]
    BY <1>6 DEF RefreshRejects, Released, TypeOK, PC
  <2>3. UNCHANGED <<now, current, started, generation, timer, disposed, joined,
                    got, floor, fence, asked>>
    BY <1>6 DEF RefreshRejects
  <2> QED BY <2>1, <2>2, <2>3 DEF TypeOK, PC
<1>7. ASSUME NEW n \in running, NEW life \in Lifetimes, RefreshReturns(n, life)
      PROVE  TypeOK'
  <2>1. TokenOf(n, now + life) \in AuthToken /\ n \in Nat
    BY RefreshAssumption DEF TokenOf, AuthToken, TypeOK
  <2>2. current' \in AuthToken \cup {None} /\ timer' \in Timer
    BY <1>7, <2>1, ScheduledType DEF RefreshReturns, Commit, TypeOK, Timer
  <2>3. got' \in [Calls -> Int]
    BY <1>7, <2>1 DEF RefreshReturns, TypeOK
  <2> QED BY <1>7, <2>2, <2>3 DEF RefreshReturns, Released, TypeOK, Timer
<1>8. CASE UNCHANGED vars
  BY <1>8 DEF vars, TypeOK
<1> QED BY <1>1, <1>2, <1>3, <1>4, <1>5, <1>6, <1>7, <1>8, <1>9
        DEF Next, Settle

\* Every variable keeps its type, the timer's due time and target included.
THEOREM RefreshTypeOK == Spec => []TypeOK
BY InitType, NextType, PTL DEF Spec
(***************************************************************************)
(* One refresh at a time, and no token of before an invalidate().          *)
(***************************************************************************)
IInv == SingleFlight /\ Guarded

\* A refresh that joins or starts: one is running after it, and a new one takes
\* the current generation, above the fence.
LEMMA RefreshIInv ==
  ASSUME TypeOK, IInv, Refresh, generation' = generation, UNCHANGED dropVars,
         current' = current
  PROVE  /\ inFlight' \in 1..Len(started') /\ running' = {inFlight'}
         /\ inFlight # 0 => inFlight' = inFlight
         /\ Guarded'
<1>0. /\ Len(started) \in Nat /\ generation \in Nat /\ floor \in Int
      /\ inFlight \in Nat /\ fence \in Nat /\ fence' = fence /\ floor' = floor
  BY LenProperties DEF TypeOK, dropVars
<1>1. CASE inFlight # 0
  <2>1. started' = started /\ inFlight' = inFlight /\ running' = running
    BY <1>1, RefreshFacts
  <2>2. Guarded'
    BY <1>0, <2>1 DEF IInv, Guarded, NoResurrection
  <2> QED BY <1>0, <1>1, <2>1, <2>2 DEF IInv, SingleFlight
<1>2. CASE inFlight = 0
  <2>1. /\ Len(started') = Len(started) + 1
        /\ started'[Len(started) + 1] = generation
        /\ \A n \in 1..Len(started) : started'[n] = started[n]
        /\ inFlight' = Len(started) + 1
        /\ running' = running \cup {Len(started) + 1}
    BY <1>2, RefreshFacts
  <2>2. running = {}
    BY <1>2 DEF IInv, SingleFlight
  <2>3. Guarded'
    <3>1. floor' <= fence' /\ fence' <= Len(started')
      BY <1>0, <2>1 DEF IInv, Guarded
    <3>2. ASSUME NEW n \in 1..Len(started')
          PROVE  started'[n] <= generation' /\ (started'[n] = generation' => n > fence')
      <4>1. CASE n = Len(started) + 1
        BY <1>0, <2>1, <4>1 DEF IInv, Guarded
      <4>2. CASE n \in 1..Len(started)
        BY <1>0, <2>1, <4>2 DEF IInv, Guarded
      <4> QED BY <1>0, <2>1, <4>1, <4>2
    <3> QED BY <1>0, <3>1, <3>2 DEF IInv, Guarded, NoResurrection
  <2> QED BY <1>0, <1>2, <2>1, <2>2, <2>3
<1> QED BY <1>1, <1>2

LEMMA InitIInv == Init => IInv
<1> SUFFICES ASSUME Init PROVE IInv
  OBVIOUS
<1>1. started = <<>> /\ Len(started) = 0 /\ inFlight = 0 /\ running = {}
      /\ floor = -1 /\ fence = 0 /\ \A c \in Calls : pc[c] = "idle"
  BY EmptySeq DEF Init
<1>2. current # None => current.id = 0
  BY DEF Init, TokenOf
<1> QED BY <1>1, <1>2 DEF IInv, SingleFlight, Guarded, NoResurrection

\* The refresh that settles is the one in flight, and afterwards none is.
LEMMA ReleasedSingleFlight ==
  ASSUME TypeOK, IInv, NEW n \in running, NEW outcome \in {"done", "rejected"},
         Released(n, outcome), started' = started, joined' = joined
  PROVE  SingleFlight' /\ n \in 1..Len(started)
<1>1. inFlight # 0 /\ n = inFlight /\ running = {n}
  BY DEF IInv, SingleFlight
<1>2. \A c \in Calls : pc'[c] # "blocked"
  <2>1. \A c \in Calls : pc[c] = "blocked" => joined[c] = n
    BY <1>1 DEF IInv, SingleFlight
  <2> QED BY <2>1 DEF Released
<1>3. inFlight' = 0 /\ running' = {} /\ Len(started) \in Nat
  BY <1>1, LenProperties DEF Released, TypeOK
<1>4. n \in 1..Len(started)
  BY <1>1, <1>3 DEF IInv, SingleFlight, TypeOK
<1> QED BY <1>2, <1>3, <1>4 DEF SingleFlight

LEMMA NextIInv == TypeOK /\ IInv /\ [Next]_vars => IInv'
<1> SUFFICES ASSUME TypeOK, IInv, [Next]_vars PROVE IInv'
  OBVIOUS
<1> USE DEF refreshVars, callVars, dropVars
<1>0. Len(started) \in Nat /\ generation \in Nat
  BY LenProperties DEF TypeOK
<1>1. ASSUME NEW c \in Calls, HeadersBlock(c) PROVE IInv'
  <2>1. /\ inFlight' \in 1..Len(started') /\ running' = {inFlight'}
        /\ inFlight # 0 => inFlight' = inFlight
        /\ Guarded'
    BY <1>1, RefreshIInv DEF HeadersBlock
  <2>2. \A d \in Calls : pc'[d] = "blocked" => joined'[d] = inFlight'
    <3> SUFFICES ASSUME NEW d \in Calls, pc'[d] = "blocked"
                 PROVE  joined'[d] = inFlight'
      OBVIOUS
    <3>1. CASE d = c
      BY <1>1, <3>1 DEF HeadersBlock, TypeOK
    <3>2. CASE d # c
      <4>1. pc[d] = "blocked" /\ joined'[d] = joined[d]
        BY <1>1, <3>2 DEF HeadersBlock, TypeOK
      <4> QED BY <2>1, <4>1 DEF IInv, SingleFlight
    <3> QED BY <3>1, <3>2
  <2> QED BY <2>1, <2>2 DEF IInv, SingleFlight
<1>2. ASSUME NEW c \in Calls, HeadersAtOnce(c) PROVE IInv'
  <2>1. \A d \in Calls : pc'[d] = "blocked" => pc[d] = "blocked"
    BY <1>2 DEF HeadersAtOnce, TypeOK
  <2>2. joined' = joined /\ generation' = generation /\ UNCHANGED dropVars
        /\ current' = current
    BY <1>2 DEF HeadersAtOnce
  <2>3. CASE Refresh
    <3>1. /\ inFlight' \in 1..Len(started') /\ running' = {inFlight'}
          /\ inFlight # 0 => inFlight' = inFlight
          /\ Guarded'
      BY <2>2, <2>3, RefreshIInv
    <3> QED BY <2>1, <2>2, <3>1 DEF IInv, SingleFlight
  <2>4. CASE UNCHANGED refreshVars
    BY <2>1, <2>2, <2>4 DEF IInv, SingleFlight, Guarded, NoResurrection
  <2> QED BY <1>2, <2>3, <2>4 DEF HeadersAtOnce
<1>3. CASE TimerFires
  <2>1. CASE Refresh
    <3>1. /\ inFlight' \in 1..Len(started') /\ running' = {inFlight'}
          /\ inFlight # 0 => inFlight' = inFlight
          /\ Guarded'
      BY <1>3, <2>1, RefreshIInv DEF TimerFires
    <3> QED BY <1>3, <3>1 DEF TimerFires, IInv, SingleFlight
  <2>2. CASE UNCHANGED refreshVars
    BY <1>3, <2>2 DEF TimerFires, IInv, SingleFlight, Guarded, NoResurrection
  <2> QED BY <1>3, <2>1, <2>2 DEF TimerFires, TimerRenews, TimerRearms
<1>4. CASE Invalidate
  <2>1. generation' = generation + 1 /\ floor' = Len(started)
        /\ fence' = Len(started) /\ current' = None
        /\ UNCHANGED <<refreshVars, callVars>>
    BY <1>4 DEF Invalidate
  <2>2. \A n \in 1..Len(started) : started[n] \in Nat /\ started[n] <= generation
    BY ElementOfSeq DEF TypeOK, IInv, Guarded
  <2>3. Guarded'
    BY <1>0, <2>1, <2>2 DEF Guarded, NoResurrection
  <2> QED BY <2>1, <2>3 DEF IInv, SingleFlight
<1>5. CASE Dispose
  <2>1. generation' = generation + 1 /\ fence' = Len(started)
        /\ UNCHANGED <<refreshVars, callVars, floor, current>>
    BY <1>5 DEF Dispose
  <2>2. \A n \in 1..Len(started) : started[n] \in Nat /\ started[n] <= generation
    BY ElementOfSeq DEF TypeOK, IInv, Guarded
  <2>3. floor <= fence /\ fence <= Len(started) /\ floor \in Int /\ fence \in Nat
    BY DEF TypeOK, IInv, Guarded
  <2>4. Guarded'
    BY <1>0, <2>1, <2>2, <2>3 DEF IInv, Guarded, NoResurrection
  <2> QED BY <2>1, <2>4 DEF IInv, SingleFlight
<1>6. CASE Tick \/ UNCHANGED vars
  BY <1>6 DEF Tick, vars, IInv, SingleFlight, Guarded, NoResurrection
<1>7. ASSUME NEW n \in running, RefreshRejects(n) PROVE IInv'
  <2>1. SingleFlight'
    BY <1>7, ReleasedSingleFlight DEF RefreshRejects
  <2> QED BY <1>7, <2>1 DEF RefreshRejects, IInv, Guarded, NoResurrection
<1>8. ASSUME NEW n \in running, NEW life \in Lifetimes, RefreshReturns(n, life)
      PROVE  IInv'
  <2>1. SingleFlight' /\ n \in 1..Len(started)
    BY <1>8, ReleasedSingleFlight DEF RefreshReturns
  <2>2. current' # None => current'.id > floor
    <3>1. CASE generation = started[n] /\ current' = TokenOf(n, now + life)
      <4>1. n > fence /\ floor <= fence /\ floor \in Int /\ fence \in Nat /\ n \in Nat
        BY <2>1, <3>1 DEF IInv, Guarded, TypeOK
      <4> QED BY <3>1, <4>1 DEF TokenOf
    <3>2. CASE UNCHANGED current
      BY <3>2 DEF IInv, Guarded, NoResurrection
    <3> QED BY <1>8, <3>1, <3>2 DEF RefreshReturns, Commit
  <2> QED BY <1>8, <2>1, <2>2 DEF RefreshReturns, IInv, Guarded, NoResurrection
<1> QED BY <1>1, <1>2, <1>3, <1>4, <1>5, <1>6, <1>7, <1>8 DEF Next, Settle

LEMMA RefreshInvariant == Spec => []IInv
BY InitIInv, NextIInv, RefreshTypeOK, PTL DEF Spec

\* One refresh runs at a time and every blocked call waits for that one, however
\* calls, timer, invalidations and late answers interleave.
THEOREM OneRefresh == Spec => []SingleFlight
<1>1. IInv => SingleFlight
  BY DEF IInv
<1> QED BY <1>1, RefreshInvariant, PTL

\* A refresh that can still commit was started after the last invalidate() and
\* the last dispose(), and the token held was asked for after the last
\* invalidate().
THEOREM InvalidateHolds == Spec => []Guarded
<1>1. IInv => Guarded
  BY DEF IInv
<1> QED BY <1>1, RefreshInvariant, PTL

\* A token comes to be held only by a refresh that has settled, and one that was
\* started after the last invalidate() and the last dispose().
LEMMA CommitsNext == TypeOK /\ IInv /\ [Next]_vars => [Commits]_vars
<1> SUFFICES ASSUME TypeOK, IInv, [Next]_vars, current' # current, current' # None
             PROVE  current'.id > fence
  BY DEF Commits
<1>1. PICK n \in running, life \in Lifetimes : RefreshReturns(n, life)
  BY DEF Next, HeadersBlock, HeadersAtOnce, Settle, RefreshRejects, TimerFires, Invalidate,
     Dispose, Tick, vars
<1>2. generation = started[n] /\ current' = TokenOf(n, now + life)
  BY <1>1 DEF RefreshReturns, Commit
<1>3. n \in 1..Len(started)
  BY <1>1, ReleasedSingleFlight DEF RefreshReturns
<1> QED BY <1>2, <1>3 DEF TokenOf, IInv, Guarded
(***************************************************************************)
(* The calls made after an invalidate().                                   *)
(***************************************************************************)
\* The refresh in flight is the last one started, so one that began before the
\* last invalidate() is the very one that was running then.
Latest == inFlight # 0 => inFlight = Len(started)

Waits == \A c \in Calls : pc[c] = "blocked" => joined[c] # 0 /\ joined[c] >= asked[c]

FreshInv == Latest /\ Waits /\ Answered

LEMMA NextFresh == TypeOK /\ IInv /\ FreshInv /\ [Next]_vars => FreshInv'
<1> SUFFICES ASSUME TypeOK, IInv, FreshInv, [Next]_vars PROVE FreshInv'
  OBVIOUS
<1> USE DEF refreshVars, callVars, dropVars
<1>0. Len(started) \in Nat /\ inFlight \in Nat /\ floor \in Int /\ floor <= Len(started)
  <2>1. Len(started) \in Nat /\ inFlight \in Nat /\ floor \in Int /\ fence \in Nat
    BY LenProperties DEF TypeOK
  <2> QED BY <2>1 DEF IInv, Guarded
<1>1. ASSUME Refresh PROVE Latest' /\ inFlight' # 0 /\ inFlight' = Len(started') /\ inFlight' >= floor
  <2>1. CASE inFlight = 0
    BY <1>0, <1>1, <2>1, RefreshFacts DEF Latest
  <2>2. CASE inFlight # 0
    BY <1>0, <1>1, <2>2, RefreshFacts DEF FreshInv, Latest
  <2> QED BY <2>1, <2>2
<1>2. ASSUME NEW c \in Calls, HeadersBlock(c) PROVE FreshInv'
  <2>1. Latest' /\ inFlight' # 0 /\ inFlight' >= floor
    BY <1>1, <1>2 DEF HeadersBlock
  <2>2. \A d \in Calls \ {c} : /\ pc'[d] = pc[d] /\ joined'[d] = joined[d]
                               /\ asked'[d] = asked[d] /\ got'[d] = got[d]
    BY <1>2 DEF HeadersBlock, TypeOK
  <2>3. pc'[c] = "blocked" /\ joined'[c] = inFlight' /\ asked'[c] = floor
    BY <1>2 DEF HeadersBlock, TypeOK
  <2> QED BY <2>1, <2>2, <2>3 DEF FreshInv, Waits, Answered, AnsweredFresh
<1>3. ASSUME NEW c \in Calls, HeadersAtOnce(c) PROVE FreshInv'
  <2>1. Latest'
    BY <1>1, <1>3 DEF HeadersAtOnce, FreshInv, Latest
  <2>2. \A d \in Calls \ {c} : /\ pc'[d] = pc[d] /\ joined'[d] = joined[d]
                               /\ asked'[d] = asked[d] /\ got'[d] = got[d]
    BY <1>3 DEF HeadersAtOnce, TypeOK
  <2>3. pc'[c] = "done" /\ got'[c] = current.id /\ asked'[c] = floor
    BY <1>3 DEF HeadersAtOnce, TypeOK
  <2>4. current.id > floor
    BY <1>3 DEF HeadersAtOnce, Expired, IInv, Guarded, NoResurrection
  <2> QED BY <2>1, <2>2, <2>3, <2>4 DEF FreshInv, Waits, Answered, AnsweredFresh
<1>4. CASE TimerFires
  <2>1. Latest'
    BY <1>1, <1>4 DEF TimerFires, TimerRenews, TimerRearms, FreshInv, Latest
  <2> QED BY <1>4, <2>1 DEF TimerFires, FreshInv, Waits, Answered, AnsweredFresh
<1>5. ASSUME NEW n \in running, RefreshRejects(n) PROVE FreshInv'
  <2>1. Latest' /\ UNCHANGED <<joined, got, asked>>
    BY <1>5 DEF RefreshRejects, Released, Latest
  <2>2. \A c \in Calls : pc'[c] \in {"blocked", "done"} => pc'[c] = pc[c]
    BY <1>5 DEF RefreshRejects, Released
  <2> QED BY <2>1, <2>2 DEF FreshInv, Waits, Answered, AnsweredFresh
<1>6. ASSUME NEW n \in running, NEW life \in Lifetimes, RefreshReturns(n, life)
      PROVE  FreshInv'
  <2>1. Latest' /\ UNCHANGED <<joined, asked>>
    BY <1>6 DEF RefreshReturns, Released, Latest
  <2>2. ASSUME NEW c \in Calls PROVE
          /\ pc'[c] = "blocked" => joined'[c] # 0 /\ joined'[c] >= asked'[c]
          /\ pc'[c] = "done" => AnsweredFresh(c)'
    <3>1. CASE pc[c] = "blocked" /\ joined[c] = n
      <4>1. pc'[c] = "done" /\ got'[c] = joined[c] /\ joined[c] >= asked[c]
            /\ joined[c] # 0
        BY <1>6, <3>1 DEF RefreshReturns, Released, FreshInv, Waits
      <4>2. joined[c] \in Int /\ asked[c] \in Int
        BY DEF TypeOK
      <4> QED BY <2>1, <4>1, <4>2 DEF AnsweredFresh
    <3>2. CASE ~(pc[c] = "blocked" /\ joined[c] = n)
      <4>1. pc'[c] = pc[c] /\ got'[c] = got[c]
        BY <1>6, <3>2 DEF RefreshReturns, Released
      <4> QED BY <2>1, <4>1 DEF FreshInv, Waits, Answered, AnsweredFresh
    <3> QED BY <3>1, <3>2
  <2> QED BY <2>1, <2>2 DEF FreshInv, Waits, Answered, AnsweredFresh
<1>7. CASE Invalidate \/ Dispose \/ Tick \/ UNCHANGED vars
  <2>1. UNCHANGED <<refreshVars, callVars>>
    BY <1>7 DEF Invalidate, Dispose, Tick, vars
  <2> QED BY <2>1 DEF FreshInv, Latest, Waits, Answered, AnsweredFresh
<1> QED BY <1>2, <1>3, <1>4, <1>5, <1>6, <1>7 DEF Next, Settle

\* Over any invalidate() and dispose(), whenever they land: the token held was
\* asked for after the last invalidate(), what comes to be held after either was
\* asked for after it, and a call is answered with a token asked for after the
\* last invalidate() before it, but for the one of a refresh it found in flight.
THEOREM FreshTheorem == Spec => FreshAfterInvalidate
<1>1. Init => FreshInv
  BY DEF Init, FreshInv, Latest, Waits, Answered
<1>2. ASSUME TypeOK, IInv, FreshInv, IInv', FreshInv', [Next]_vars
      PROVE  [NoResurrection' /\ Commits /\ Answered']_vars
  <2>1. NoResurrection' /\ Answered'
    BY <1>2 DEF IInv, Guarded, FreshInv
  <2>2. [Commits]_vars
    BY <1>2, CommitsNext
  <2> QED BY <2>1, <2>2
<1> QED BY <1>1, <1>2, NextFresh, RefreshTypeOK, RefreshInvariant, PTL
        DEF Spec, FreshAfterInvalidate
(***************************************************************************)
(* The timer follows the token, and nothing renews ahead of the window.    *)
(***************************************************************************)
\* schedule() establishes what TimerFollowsToken says of the token it is for.
LEMMA ScheduledFollows ==
  ASSUME NEW token \in AuthToken \cup {None}, now \in Nat,
         current' = token, timer' = Scheduled(token), UNCHANGED <<now, disposed>>
  PROVE  TimerFollowsToken'
<1>1. CASE token = None
  BY <1>1 DEF Scheduled, TimerFollowsToken
<1>2. CASE token # None
  <2> DEFINE target == token.expiresAt - RefreshBefore
             armed == [due |-> now + Smaller(target - now, MaxDelay), target |-> target]
  <2>1. target \in Int /\ MaxDelay \in Nat
    BY <1>2, RefreshAssumption DEF AuthToken
  <2>2. armed.target = target /\ armed.due <= target
    BY <2>1 DEF Smaller
  <2>3. timer' = IF ~Proactive \/ disposed \/ target <= now THEN None ELSE armed
    BY <1>2 DEF Scheduled
  <2>4. armed # None \/ target < 0
    <3>1. CASE target >= 0 /\ target > now
      <4>1. now + Smaller(target - now, MaxDelay) \in Nat /\ target \in Nat
        BY <2>1, <3>1 DEF Smaller
      <4> HIDE DEF target
      <4> QED BY <4>1, RefreshAssumption
    <3>2. CASE target >= 0 /\ target <= now /\ MaxDelay \in Nat
      <4>1. now + Smaller(target - now, MaxDelay) \in Nat /\ target \in Nat
        BY <2>1, <3>2 DEF Smaller
      <4> HIDE DEF target
      <4> QED BY <4>1, RefreshAssumption
    <3> QED BY <2>1, <3>1, <3>2
  <2> HIDE DEF armed
  <2>5. current' # None /\ current'.expiresAt - RefreshBefore = target
    BY <1>2
  <2> HIDE DEF target
  <2> QED BY <2>1, <2>2, <2>3, <2>4, <2>5 DEF TimerFollowsToken
<1> QED BY <1>1, <1>2

LEMMA NextTimer == TypeOK /\ TimerFollowsToken /\ [Next]_vars => TimerFollowsToken'
<1> SUFFICES ASSUME TypeOK, TimerFollowsToken, [Next]_vars PROVE TimerFollowsToken'
  OBVIOUS
<1>1. CASE UNCHANGED <<now, current, timer, disposed>>
  BY <1>1 DEF TimerFollowsToken
<1>2. CASE TimerFires
  <2>1. UNCHANGED <<now, current, disposed>> /\ timer # None
    BY <1>2 DEF TimerFires
  <2>2. CASE TimerRearms
    <3>1. current \in AuthToken \cup {None} /\ now \in Nat
      BY DEF TypeOK
    <3> QED BY <2>1, <2>2, <3>1, ScheduledFollows DEF TimerRearms
  <2>3. CASE TimerRenews
    <3>1. timer' = None /\ now >= current.expiresAt - RefreshBefore
      BY <2>1, <2>3 DEF TimerRenews, TimerFollowsToken
    <3>2. current # None
      BY <2>1 DEF TimerFollowsToken
    <3>3. current.expiresAt - RefreshBefore \in Int /\ now \in Nat
      BY <3>2, RefreshAssumption DEF TypeOK, AuthToken
    <3> QED BY <2>1, <3>1, <3>3 DEF TimerFollowsToken
  <2> QED BY <1>2, <2>2, <2>3 DEF TimerFires
<1>3. CASE Invalidate \/ Dispose
  BY <1>3 DEF Invalidate, Dispose, TimerFollowsToken
<1>4. CASE Tick
  <2>1. UNCHANGED <<current, timer, disposed>> /\ now' = now + 1
    BY <1>4 DEF Tick
  <2>2. now \in Nat
    BY DEF TypeOK
  <2>3. CASE current = None
    BY <2>1, <2>3 DEF TimerFollowsToken
  <2>4. CASE current # None
    <3>1. current.expiresAt - RefreshBefore \in Int
      BY <2>4, RefreshAssumption DEF TypeOK, AuthToken
    <3> QED BY <2>1, <2>2, <3>1 DEF TimerFollowsToken
  <2> QED BY <2>3, <2>4
<1>5. ASSUME NEW n \in running, NEW life \in Lifetimes, RefreshReturns(n, life)
      PROVE  TimerFollowsToken'
  <2>1. TokenOf(n, now + life) \in AuthToken \cup {None} /\ now \in Nat
    BY RefreshAssumption DEF TokenOf, AuthToken, TypeOK
  <2>2. CASE UNCHANGED <<current, timer>>
    BY <1>5, <1>1, <2>2 DEF RefreshReturns
  <2>3. CASE current' = TokenOf(n, now + life) /\ timer' = Scheduled(TokenOf(n, now + life))
    BY <1>5, <2>1, <2>3, ScheduledFollows DEF RefreshReturns
  <2> QED BY <1>5, <2>2, <2>3 DEF RefreshReturns, Commit
<1>6. ASSUME NEW n \in running, RefreshRejects(n) PROVE TimerFollowsToken'
  BY <1>1, <1>6 DEF RefreshRejects
<1>7. ASSUME NEW c \in Calls, HeadersBlock(c) \/ HeadersAtOnce(c) PROVE TimerFollowsToken'
  BY <1>1, <1>7 DEF HeadersBlock, HeadersAtOnce
<1>8. CASE UNCHANGED vars
  BY <1>1, <1>8 DEF vars
<1> QED BY <1>2, <1>3, <1>4, <1>5, <1>6, <1>7, <1>8 DEF Next, Settle

\* A live token ahead of its window has its timer, armed for the window or for
\* the ceiling before it, and no other token has one.
THEOREM TimerTheorem == Spec => []TimerFollowsToken
<1>1. Init => TimerFollowsToken
  <2> SUFFICES ASSUME Init PROVE TimerFollowsToken
    OBVIOUS
  <2>1. CASE current = None
    BY <2>1 DEF Init, Scheduled, TimerFollowsToken
  <2>2. CASE current # None
    <3>1. current \in AuthToken /\ now = 0 /\ timer = Scheduled(current)
      BY <2>2, InitType DEF Init, TypeOK
    <3>2. current.expiresAt - RefreshBefore \in Int /\ MaxDelay \in Nat \ {0}
      BY <3>1, RefreshAssumption DEF AuthToken
    <3> DEFINE target == current.expiresAt - RefreshBefore
               armed == [due |-> now + Smaller(target - now, MaxDelay), target |-> target]
    <3>3. timer = IF ~Proactive \/ disposed \/ target <= now THEN None ELSE armed
      BY <2>2, <3>1 DEF Scheduled
    <3>4. armed.target = target /\ armed.due <= target
      BY <3>1, <3>2 DEF Smaller
    <3>5. target > 0 => armed # None
      <4> SUFFICES ASSUME target > 0 PROVE armed # None
        OBVIOUS
      <4>1. now + Smaller(target - now, MaxDelay) \in Nat /\ target \in Nat
        BY <3>1, <3>2 DEF Smaller
      <4> HIDE DEF target
      <4> QED BY <4>1, RefreshAssumption
    <3> HIDE DEF armed
    <3> QED BY <2>2, <3>1, <3>2, <3>3, <3>4, <3>5 DEF TimerFollowsToken
  <2> QED BY <2>1, <2>2
<1> QED BY <1>1, NextTimer, RefreshTypeOK, PTL DEF Spec

\* A refresh is started for want of a live token, or inside its window.
THEOREM WindowTheorem == Spec => RenewsInWindow
<1>1. ASSUME TypeOK, TimerFollowsToken, [Next]_vars, ~UNCHANGED vars
      PROVE  started' # started =>
               current = None \/ now >= current.expiresAt - RefreshBefore
  <2> SUFFICES ASSUME started' # started, current # None
               PROVE  now >= current.expiresAt - RefreshBefore
    OBVIOUS
  <2>0. now \in Nat /\ current.expiresAt \in Nat /\ RefreshBefore \in Nat
    BY <1>1, RefreshAssumption DEF TypeOK, AuthToken
  <2>1. ASSUME NEW c \in Calls, HeadersBlock(c) PROVE now >= current.expiresAt - RefreshBefore
    BY <2>0, <2>1 DEF HeadersBlock, Expired
  <2>2. ASSUME NEW c \in Calls, HeadersAtOnce(c) PROVE now >= current.expiresAt - RefreshBefore
    BY <2>0, <2>2 DEF HeadersAtOnce, InWindow, refreshVars
  <2>3. CASE TimerFires
    BY <1>1, <2>0, <2>3 DEF TimerFires, TimerRenews, TimerRearms, TimerFollowsToken, refreshVars
  <2>4. CASE Settle \/ Invalidate \/ Dispose \/ Tick
    BY <2>4 DEF Settle, RefreshRejects, RefreshReturns, Invalidate, Dispose, Tick, refreshVars
  <2> QED BY <1>1, <2>1, <2>2, <2>3, <2>4 DEF Next
<1> QED BY <1>1, RefreshTypeOK, TimerTheorem, PTL DEF Spec, RenewsInWindow

(***************************************************************************)
(* The refinement: every step is one of SharedFlight, or leaves it alone.  *)
(***************************************************************************)
Unjoined == \A c \in Calls : pc[c] = "idle" => joined[c] = 0

LEMMA UnjoinedTheorem == Spec => []Unjoined
<1>1. Init => Unjoined
  BY DEF Init, Unjoined
<1>2. TypeOK /\ Unjoined /\ [Next]_vars => Unjoined'
  <2> SUFFICES ASSUME TypeOK, Unjoined, [Next]_vars PROVE Unjoined'
    OBVIOUS
  <2>1. ASSUME NEW c \in Calls, HeadersBlock(c) \/ HeadersAtOnce(c) PROVE Unjoined'
    BY <2>1 DEF HeadersBlock, HeadersAtOnce, TypeOK, Unjoined
  <2>2. CASE Settle
    BY <2>2 DEF Settle, RefreshRejects, RefreshReturns, Released, TypeOK, Unjoined
  <2>3. CASE TimerFires \/ Invalidate \/ Dispose \/ Tick \/ UNCHANGED vars
    BY <2>3 DEF TimerFires, Invalidate, Dispose, Tick, vars, callVars, Unjoined
  <2> QED BY <2>1, <2>2, <2>3 DEF Next
<1> QED BY <1>1, <1>2, RefreshTypeOK, PTL DEF Spec

\* What the abstract flight shows of a call.
Awaits == [c \in Calls |-> IF pc[c] = "blocked" THEN joined[c] ELSE 0]
Told == [c \in Calls |-> IF joined[c] = 0 \/ pc[c] = "blocked" THEN "none"
                         ELSE IF pc[c] = "done" THEN "kept" ELSE "failed"]

LEMMA RefreshOpensOrShares ==
  ASSUME TypeOK, Refresh
  PROVE  Flight!Open \/ Flight!Share
BY RefreshFacts DEF Flight!Open, Flight!Share

LEMMA StepImplementsFlight ==
  ASSUME TypeOK, SingleFlight, Unjoined, [Next]_vars
  PROVE  [Flight!Next]_(Flight!vars)
<1> USE DEF Flight!vars
<1>1. ASSUME NEW c \in Calls, HeadersBlock(c) PROVE Flight!Ask(c)
  <2>1. Flight!Open \/ Flight!Share
    BY <1>1, RefreshOpensOrShares DEF HeadersBlock
  <2>2. /\ pc[c] = "idle" /\ joined[c] = 0
        /\ pc' = [pc EXCEPT ![c] = "blocked"] /\ joined' = [joined EXCEPT ![c] = inFlight']
    BY <1>1 DEF HeadersBlock, Unjoined
  <2>3. Awaits[c] = 0 /\ Told[c] = "none"
    BY <2>2 DEF Awaits, Told
  <2>4. Awaits' = [Awaits EXCEPT ![c] = inFlight']
    BY <2>2 DEF Awaits, TypeOK
  <2>5. Told' = Told
    BY <2>2 DEF Told, TypeOK
  <2> QED BY <2>1, <2>3, <2>4, <2>5 DEF Flight!Ask, Awaits, Told
<1>2. ASSUME NEW c \in Calls, HeadersAtOnce(c) PROVE [Flight!Next]_(Flight!vars)
  <2>1. joined[c] = 0 /\ pc[c] = "idle" /\ pc' = [pc EXCEPT ![c] = "done"] /\ joined' = joined
    BY <1>2 DEF HeadersAtOnce, Unjoined
  <2>2. Awaits' = Awaits /\ Told' = Told
    BY <2>1 DEF Awaits, Told, TypeOK
  <2>3. CASE Refresh
    BY <2>2, <2>3, RefreshOpensOrShares DEF Flight!Next, Flight!Background, Flight!Share, Awaits, Told
  <2>4. CASE UNCHANGED refreshVars
    BY <2>2, <2>4 DEF refreshVars, Awaits, Told
  <2> QED BY <1>2, <2>3, <2>4 DEF HeadersAtOnce
<1>3. CASE TimerFires
  <2>1. Awaits' = Awaits /\ Told' = Told
    BY <1>3 DEF TimerFires, callVars, Awaits, Told
  <2>2. CASE Refresh
    BY <2>1, <2>2, RefreshOpensOrShares DEF Flight!Next, Flight!Background, Flight!Share, Awaits, Told
  <2>3. CASE UNCHANGED refreshVars
    BY <2>1, <2>3 DEF refreshVars, Awaits, Told
  <2> QED BY <1>3, <2>2, <2>3 DEF TimerFires, TimerRenews, TimerRearms
<1>4. ASSUME NEW n \in running, NEW outcome \in {"done", "rejected"},
             Released(n, outcome), UNCHANGED <<started, joined>>
      PROVE  Flight!Next
  <2> DEFINE result == IF outcome = "done" THEN "kept" ELSE "failed"
  <2>1. n = inFlight /\ inFlight # 0
    BY DEF SingleFlight
  <2>2. inFlight' = 0 /\ Len(started)' = Len(started)
    BY <1>4 DEF Released
  <2>3. Awaits' = [c \in Calls |-> 0]
    BY <1>4, <2>1 DEF Awaits, Released, SingleFlight
  <2>4. Told' = [c \in Calls |-> IF Awaits[c] = inFlight THEN result ELSE Told[c]]
    <3>1. ASSUME NEW c \in Calls PROVE Told'[c] = IF Awaits[c] = inFlight THEN result ELSE Told[c]
      <4>1. CASE pc[c] = "blocked"
        <5>1. joined[c] = inFlight /\ pc'[c] = outcome
          BY <1>4, <2>1, <4>1 DEF SingleFlight, Released
        <5> QED BY <1>4, <2>1, <4>1, <5>1 DEF Told, Awaits
      <4>2. CASE pc[c] # "blocked"
        BY <1>4, <2>1, <4>2 DEF Told, Awaits, Released
      <4> QED BY <4>1, <4>2
    <3> QED BY <3>1 DEF Told
  <2>5. Flight!Settle(result)
    BY <2>1, <2>2, <2>3, <2>4 DEF Flight!Settle, Awaits, Told
  <2> QED BY <2>5 DEF Flight!Next
<1>5. CASE Settle
  BY <1>4, <1>5 DEF Settle, RefreshRejects, RefreshReturns
<1>6. CASE Invalidate \/ Dispose \/ Tick \/ UNCHANGED vars
  BY <1>6 DEF Invalidate, Dispose, Tick, vars, refreshVars, callVars
<1> QED BY <1>1, <1>2, <1>3, <1>5, <1>6 DEF Next, Flight!Next

\* createTokenRefresh implements the shared flight: whatever invalidate(),
\* dispose() and the timer do, a call that blocks is told the outcome of the one
\* refresh in flight, in the step in which that settles.
THEOREM RefreshImplementsFlight == Spec => FlightSpec
<1>1. Init => Flight!Init
  <2> SUFFICES ASSUME Init PROVE Flight!Init
    OBVIOUS
  <2>1. Len(started) = 0 /\ inFlight = 0
    BY EmptySeq DEF Init
  <2> QED BY <2>1 DEF Init, Flight!Init
<1>2. TypeOK /\ SingleFlight /\ Unjoined /\ [Next]_vars => [Flight!Next]_(Flight!vars)
  BY StepImplementsFlight
<1> QED BY <1>1, <1>2, RefreshTypeOK, OneRefresh, UnjoinedTheorem, PTL
        DEF Spec, FlightSpec, Flight!Spec
=============================================================================
