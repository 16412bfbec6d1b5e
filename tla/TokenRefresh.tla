---------------------------- MODULE TokenRefresh ----------------------------
(***************************************************************************)
(* createTokenRefresh (packages/api/src/create-token-refresh.ts): a token  *)
(* renewed on its own clock, by the calls that find it expired, by those   *)
(* that find it inside its window, and by an idle timer, all through one   *)
(* single-flight refresh; with invalidate() and dispose().                 *)
(*                                                                         *)
(* Refreshes are numbered in the order they start; a token is known by the *)
(* number of the refresh that returned it, 0 for options.initial.          *)
(***************************************************************************)
EXTENDS Integers, Sequences, FiniteSets

CONSTANTS
  Calls,          \* calls of headers()
  None,           \* `undefined`
  Proactive,      \* options.proactive
  RefreshBefore,  \* options.refreshBefore
  Lifetimes,      \* how long a token lives from the moment it is returned
  MaxDelay,       \* setTimeout's ceiling, MAX_TIMEOUT_DELAY
  MaxTime,        \* bound: the clock
  MaxRefreshes,   \* bound: refreshes started
  MaxDrops        \* bound: calls of invalidate() and dispose()

ASSUME RefreshAssumption ==
  /\ Proactive \in BOOLEAN
  /\ RefreshBefore \in Nat
  /\ Lifetimes \subseteq Nat
  /\ MaxDelay \in Nat \ {0}
  /\ MaxTime \in Nat /\ MaxRefreshes \in Nat /\ MaxDrops \in Nat
  /\ None \notin [id : Nat, expiresAt : Nat]
  /\ None \notin [due : Nat, target : Nat]

VARIABLES
  now,         \* options.now()
  current,     \* the token held, or None
  inFlight,    \* the number of the refresh in flight, 0 for none
  started,     \* started[n]: the generation when refresh n started
  running,     \* the refreshes whose options.refresh has not settled
  generation,  \* bumped by invalidate and dispose
  timer,       \* the armed idle timer, or None
  disposed,
  pc,          \* pc[c]: "idle", "blocked", "done" or "rejected"
  joined,      \* joined[c]: the refresh call c awaits, 0 for none
  got,         \* got[c]: the token call c was answered with, -1 for none
  floor,       \* history: number of refreshes started before the last invalidate
  fence,       \* history: the same for the last invalidate or dispose
  asked        \* history: asked[c], the floor when c was called

refreshVars == <<inFlight, started, running>>
callVars == <<pc, joined, got, asked>>
dropVars == <<floor, fence>>
vars == <<now, current, refreshVars, generation, timer, disposed, callVars, dropVars>>

TokenOf(n, expiry) == [id |-> n, expiresAt |-> expiry]

(***************************************************************************)
(* schedule(): what the timer is once it has run for a token held at time  *)
(* `now`.  A due time past setTimeout's ceiling is cut to it.              *)
(***************************************************************************)
Smaller(a, b) == IF a <= b THEN a ELSE b

Scheduled(token) ==
  LET target == token.expiresAt - RefreshBefore IN
  IF ~Proactive \/ disposed \/ token = None \/ target <= now THEN None
  ELSE [due |-> now + Smaller(target - now, MaxDelay), target |-> target]

Init ==
  /\ now = 0
  /\ disposed = FALSE
  /\ current \in {None} \cup {TokenOf(0, life) : life \in Lifetimes}
  /\ timer = Scheduled(current)
  /\ inFlight = 0
  /\ started = <<>>
  /\ running = {}
  /\ generation = 0
  /\ pc = [c \in Calls |-> "idle"]
  /\ joined = [c \in Calls |-> 0]
  /\ got = [c \in Calls |-> -1]
  /\ floor = -1
  /\ fence = 0
  /\ asked = [c \in Calls |-> -1]

(***************************************************************************)
(* refresh(): join the refresh in flight, or start one.                    *)
(***************************************************************************)
Start ==
  /\ Len(started) < MaxRefreshes
  /\ started' = Append(started, generation)
  /\ inFlight' = Len(started) + 1
  /\ running' = running \cup {Len(started) + 1}

\* Mutation: the single-flight guard is gone.
RefreshAlways == Start

Refresh ==
  \/ inFlight = 0 /\ Start
  \/ inFlight # 0 /\ UNCHANGED refreshVars

(***************************************************************************)
(* headers()                                                               *)
(***************************************************************************)
Expired == IF current = None THEN TRUE ELSE now >= current.expiresAt

InWindow == ~Expired /\ now >= current.expiresAt - RefreshBefore

\* No token yet, or fully expired: wait for the refresh.
HeadersBlock(c) ==
  /\ pc[c] = "idle"
  /\ Expired
  /\ Refresh
  /\ pc' = [pc EXCEPT ![c] = "blocked"]
  /\ joined' = [joined EXCEPT ![c] = inFlight']
  /\ asked' = [asked EXCEPT ![c] = floor]
  /\ UNCHANGED <<now, current, generation, timer, disposed, got, dropVars>>

\* Still valid: answered at once, with a background refresh inside the window.
HeadersAtOnce(c) ==
  /\ pc[c] = "idle"
  /\ ~Expired
  /\ IF InWindow THEN Refresh ELSE UNCHANGED refreshVars
  /\ pc' = [pc EXCEPT ![c] = "done"]
  /\ got' = [got EXCEPT ![c] = current.id]
  /\ asked' = [asked EXCEPT ![c] = floor]
  /\ UNCHANGED <<now, current, generation, timer, disposed, joined, dropVars>>

(***************************************************************************)
(* A refresh settles: the .then at lines 208-217, the .finally at 218-222, *)
(* and every call that awaits it.                                          *)
(***************************************************************************)
Released(n, outcome) ==
  /\ inFlight' = 0
  /\ running' = running \ {n}
  /\ pc' = [c \in Calls |-> IF pc[c] = "blocked" /\ joined[c] = n THEN outcome
                            ELSE pc[c]]

\* Mutation: the generation is not compared.
CommitAlways(n, token) ==
  /\ current' = token
  /\ timer' = Scheduled(token)

Commit(n, token) ==
  \/ /\ generation = started[n]
     /\ current' = token
     /\ timer' = Scheduled(token)
  \/ /\ generation # started[n]
     /\ UNCHANGED <<current, timer>>

RefreshReturns(n, life) ==
  /\ n \in running
  /\ Commit(n, TokenOf(n, now + life))
  /\ Released(n, "done")
  /\ got' = [c \in Calls |-> IF pc[c] = "blocked" /\ joined[c] = n THEN n ELSE got[c]]
  /\ UNCHANGED <<now, started, generation, disposed, joined, dropVars, asked>>

\* Mutation: a rejected refresh stays cached.
RefreshRejectsCached(n) ==
  /\ n \in running
  /\ running' = running \ {n}
  /\ pc' = [c \in Calls |-> IF pc[c] = "blocked" /\ joined[c] = n THEN "rejected"
                            ELSE pc[c]]
  /\ UNCHANGED <<now, current, inFlight, started, generation, timer, disposed,
                 joined, got, dropVars, asked>>

\* A rejection is the callers' (a background one is onError's) and not cached.
RefreshRejects(n) ==
  /\ n \in running
  /\ Released(n, "rejected")
  /\ UNCHANGED <<now, current, started, generation, timer, disposed, joined,
                 got, dropVars, asked>>

(***************************************************************************)
(* The idle timer: due, it renews, or re-arms when the ceiling made it     *)
(* fire early.  A timer that has fired is None here: the handle the code   *)
(* keeps is of no effect any more.                                         *)
(***************************************************************************)
\* Mutation: whatever fires renews.
TimerRenewsEarly ==
  /\ Refresh
  /\ timer' = None

TimerRenews ==
  /\ now >= timer.target
  /\ Refresh
  /\ timer' = None

TimerRearms ==
  /\ now < timer.target
  /\ timer' = Scheduled(current)
  /\ UNCHANGED refreshVars

TimerFires ==
  /\ timer # None
  /\ now >= timer.due
  /\ TimerRenews \/ TimerRearms
  /\ UNCHANGED <<now, current, generation, disposed, callVars, dropVars>>

(***************************************************************************)
(* invalidate() and dispose()                                              *)
(***************************************************************************)
\* Mutation: the timer of the dropped token stays armed.
InvalidateKeepsTimer ==
  /\ generation < MaxDrops
  /\ current' = None
  /\ generation' = generation + 1
  /\ floor' = Len(started) /\ fence' = Len(started)
  /\ UNCHANGED <<now, refreshVars, timer, disposed, callVars>>

Invalidate ==
  /\ generation < MaxDrops
  /\ current' = None
  /\ generation' = generation + 1
  /\ timer' = None
  /\ floor' = Len(started) /\ fence' = Len(started)
  /\ UNCHANGED <<now, refreshVars, disposed, callVars>>

Dispose ==
  /\ generation < MaxDrops
  /\ disposed' = TRUE
  /\ generation' = generation + 1
  /\ timer' = None
  /\ fence' = Len(started)
  /\ UNCHANGED <<now, current, refreshVars, callVars, floor>>

Tick ==
  /\ now < MaxTime
  /\ now' = now + 1
  /\ UNCHANGED <<current, refreshVars, generation, timer, disposed, callVars, dropVars>>

Settle == \E n \in running :
  RefreshRejects(n) \/ \E life \in Lifetimes : RefreshReturns(n, life)

Next ==
  \/ \E c \in Calls : HeadersBlock(c) \/ HeadersAtOnce(c)
  \/ Settle
  \/ TimerFires
  \/ Invalidate
  \/ Dispose
  \/ Tick

Spec == Init /\ [][Next]_vars

\* options.refresh settles every promise it returned (the network does or times
\* out); nothing else has to happen.
FairSpec == Spec /\ WF_vars(Settle)
-----------------------------------------------------------------------------
(***************************************************************************)
(* Properties.                                                             *)
(***************************************************************************)

AuthToken == [id : Nat, expiresAt : Nat]

TypeOK ==
  /\ now \in Nat
  /\ current \in AuthToken \cup {None}
  /\ started \in Seq(Nat)
  /\ inFlight \in Nat
  /\ running \subseteq Nat
  /\ generation \in Nat
  /\ timer \in [due : Nat, target : Nat] \cup {None}
  /\ disposed \in BOOLEAN
  /\ pc \in [Calls -> {"idle", "blocked", "done", "rejected"}]
  /\ joined \in [Calls -> Nat]
  /\ got \in [Calls -> Int]
  /\ floor \in Int /\ fence \in Nat
  /\ asked \in [Calls -> Int]

\* "Every concurrent call queues behind that one network round-trip ... no
\* thundering herd" (lines 112-114): the refresh the guard names is the only one
\* running, so a blocked call always waits for one that will settle.
SingleFlight ==
  /\ inFlight <= Len(started)
  /\ running = IF inFlight = 0 THEN {} ELSE {inFlight}
  /\ \A c \in Calls : pc[c] = "blocked" => joined[c] = inFlight /\ inFlight # 0

\* The same seen by the calls that block: SharedFlight, whatever invalidate(),
\* dispose(), the timer and the calls that need not wait do meanwhile.
Flight == INSTANCE SharedFlight WITH
  Callers <- Calls,
  flight <- inFlight,
  flights <- Len(started),
  waiting <- [c \in Calls |-> IF pc[c] = "blocked" THEN joined[c] ELSE 0],
  outcome <- [c \in Calls |->
    IF joined[c] = 0 \/ pc[c] = "blocked" THEN "none"
    ELSE IF pc[c] = "done" THEN "kept" ELSE "failed"]

FlightSpec == Flight!Spec

\* "An invalidation that lands mid-flight is not clobbered by the in-flight
\* refresh resurrecting a token" (lines 155-157): the token held was asked for
\* after the last invalidate(), and any token that comes to be held was asked for
\* after the last invalidate() or dispose(), over several of them and several
\* refreshes.
NoResurrection == current # None => current.id > floor

Commits == current' # current /\ current' # None => current'.id > fence

\* The inductive form: a refresh that could still commit was started after the
\* last invalidate() and the last dispose().
Guarded ==
  /\ floor <= fence /\ fence <= Len(started)
  /\ \A n \in 1..Len(started) : started[n] <= generation
  /\ \A n \in 1..Len(started) : started[n] = generation => n > fence
  /\ NoResurrection

\* A token ahead of its window has the timer that will renew it, armed for that
\* moment or for the ceiling before it; no other token, and no disposed client,
\* has one (lines 173-194).
TimerFollowsToken ==
  /\ timer # None => /\ ~disposed /\ current # None
                     /\ timer.target = current.expiresAt - RefreshBefore
                     /\ timer.due <= timer.target
  /\ Proactive /\ ~disposed /\ current # None
     /\ now < current.expiresAt - RefreshBefore => timer # None

\* No token is renewed ahead of its window, by a call or by the timer, however
\* early the runtime's ceiling makes that fire (lines 185-186).
RenewsInWindow ==
  [][started' # started =>
       current = None \/ now >= current.expiresAt - RefreshBefore]_vars

\* Every call of headers() that waits is released, with a token or an error.
CallsReleased == \A c \in Calls : pc[c] = "blocked" ~> pc[c] \in {"done", "rejected"}

\* The token a call is answered with was asked for after the last invalidate()
\* before the call; or it is that of the one refresh that was still in flight
\* then, which the call found and waited for.
AnsweredFresh(c) ==
  got[c] > asked[c] \/ (joined[c] # 0 /\ joined[c] = asked[c] /\ got[c] = joined[c])

Answered == \A c \in Calls : pc[c] = "done" => AnsweredFresh(c)

\* invalidate() "drops the current token" (lines 97-99), and neither it nor
\* dispose() is undone by a refresh in flight (lines 155-157, 210-213).  Lines
\* 97-99 also say that the next headers() refreshes unconditionally; the code
\* joins a refresh in flight (line 197), and AnsweredFresh has exactly that
\* exception: no token that was held, options.initial included, and none of an
\* older refresh answers, and what the joined refresh brings is not kept.
FreshAfterInvalidate == [][NoResurrection' /\ Commits /\ Answered']_vars
=============================================================================
