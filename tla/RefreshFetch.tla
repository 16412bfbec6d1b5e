---------------------------- MODULE RefreshFetch ----------------------------
(***************************************************************************)
(* createRefreshFetch (packages/api/src/create-refresh-fetch.ts) in front  *)
(* of a server with HttpOnly session cookies: a refused request awaits one *)
(* shared refresh and is replayed once.  Cookies are numbered in the order *)
(* the server sets them; the browser sends the one in its jar.             *)
(***************************************************************************)
EXTENDS Naturals, Sequences, FiniteSets

CONSTANTS
  Calls,       \* calls of the wrapped fetch
  MaxRevoked   \* bound: the newest cookie the server may revoke

ASSUME RefreshFetchAssumption == IsFiniteSet(Calls) /\ MaxRevoked \in Nat

VARIABLES
  pc,         \* where each call is in the async function
  sent,       \* sent[c]: the cookies its requests went out with, in order
  answer,     \* answer[c]: the server's answer on its way, or the last one read
  joined,     \* joined[c]: the refresh call c awaits or has awaited, 0 for none
  inFlight,   \* the refresh in flight, 0 for none
  flights,    \* how many refreshes have started
  refresh,    \* "none", "asked", or "renewed": its cookie is in the jar
  renewal,    \* renewal[n]: the cookie refresh n has set, 0 for none
  jar,        \* the newest cookie
  revoked,    \* server: the cookies it refuses
  over        \* server: the session is gone, refreshes fail

callVars == <<pc, sent, answer, joined>>
flightVars == <<inFlight, flights, refresh, renewal>>
serverVars == <<jar, revoked, over>>
vars == <<callVars, flightVars, serverVars>>

Init ==
  /\ pc = [c \in Calls |-> "idle"]
  /\ sent = [c \in Calls |-> <<>>]
  /\ answer = [c \in Calls |-> "none"]
  /\ joined = [c \in Calls |-> 0]
  /\ inFlight = 0 /\ flights = 0 /\ refresh = "none" /\ renewal = <<>>
  /\ jar = 0 /\ revoked = {} /\ over = FALSE

-----------------------------------------------------------------------------
(***************************************************************************)
(* The wrapped fetch.                                                      *)
(***************************************************************************)
Sends(c, at) ==
  /\ pc' = [pc EXCEPT ![c] = at]
  /\ sent' = [sent EXCEPT ![c] = Append(@, jar)]
  /\ answer' = [answer EXCEPT ![c] = "none"]

Call(c) ==
  /\ pc[c] = "idle"
  /\ Sends(c, "fetching")
  /\ UNCHANGED <<joined, flightVars, serverVars>>

\* Mutation: every refusal starts a refresh of its own.
RunRefreshAlways ==
  /\ inFlight' = flights + 1 /\ flights' = flights + 1
  /\ refresh' = "asked" /\ renewal' = Append(renewal, 0)

RunRefresh ==
  \/ inFlight # 0 /\ UNCHANGED flightVars
  \/ /\ inFlight = 0
     /\ inFlight' = flights + 1 /\ flights' = flights + 1
     /\ refresh' = "asked" /\ renewal' = Append(renewal, 0)

\* Mutation: a refresh under way is taken for one that is over.
RefusedUnawaited(c) ==
  /\ pc[c] = "fetching" /\ answer[c] = "refused"
  /\ RunRefresh
  /\ joined' = [joined EXCEPT ![c] = inFlight']
  /\ pc' = [pc EXCEPT ![c] = IF inFlight = 0 THEN "waiting" ELSE "cancelling"]
  /\ UNCHANGED <<sent, answer, serverVars>>

\* The first reply: returned as it is, unless shouldRefresh flags it.
Refused(c) ==
  /\ pc[c] = "fetching" /\ answer[c] = "refused"
  /\ RunRefresh
  /\ joined' = [joined EXCEPT ![c] = inFlight']
  /\ pc' = [pc EXCEPT ![c] = "waiting"]
  /\ UNCHANGED <<sent, answer, serverVars>>

Answered(c) ==
  /\ \/ pc[c] = "fetching" /\ answer[c] = "accepted"
     \/ pc[c] = "replaying" /\ answer[c] \in {"accepted", "refused"}
  /\ pc' = [pc EXCEPT ![c] = "done"]
  /\ UNCHANGED <<sent, answer, joined, flightVars, serverVars>>

Rejected(c) ==
  /\ pc[c] \in {"fetching", "replaying"} /\ answer[c] = "lost"
  /\ pc' = [pc EXCEPT ![c] = "rejected"]
  /\ UNCHANGED <<sent, answer, joined, flightVars, serverVars>>

Sharing == {c \in Calls : pc[c] = "waiting" /\ joined[c] = inFlight}

\* Mutation: a call whose onRefreshError throws is never told.
RefreshRejectsUntold ==
  /\ refresh \in {"asked", "renewed"}
  /\ refresh' = "none" /\ inFlight' = 0
  /\ \E outcome \in [Sharing -> {"done", "waiting"}] :
       pc' = [c \in Calls |-> IF c \in Sharing THEN outcome[c] ELSE pc[c]]
  /\ UNCHANGED <<flights, renewal, sent, answer, joined, serverVars>>

\* The finally clears the guard, then every call that awaits it goes on: with
\* the refusal it had, unless onRefreshError throws at it.
RefreshRejects ==
  /\ refresh \in {"asked", "renewed"}
  /\ refresh' = "none" /\ inFlight' = 0
  /\ \E outcome \in [Sharing -> {"done", "rejected"}] :
       pc' = [c \in Calls |-> IF c \in Sharing THEN outcome[c] ELSE pc[c]]
  /\ UNCHANGED <<flights, renewal, sent, answer, joined, serverVars>>

\* A refresh that resolves need not have set a cookie: no check of its result.
RefreshResolves ==
  /\ refresh \in {"asked", "renewed"}
  /\ refresh' = "none" /\ inFlight' = 0
  /\ pc' = [c \in Calls |-> IF c \in Sharing THEN "cancelling" ELSE pc[c]]
  /\ UNCHANGED <<flights, renewal, sent, answer, joined, serverVars>>

\* The refused reply's body has been cancelled: the one replay.
Replay(c) ==
  /\ pc[c] = "cancelling"
  /\ Sends(c, "replaying")
  /\ UNCHANGED <<joined, flightVars, serverVars>>

-----------------------------------------------------------------------------
(***************************************************************************)
(* The server and the network (external).                                  *)
(***************************************************************************)
Serve(c) ==
  /\ pc[c] \in {"fetching", "replaying"} /\ answer[c] = "none"
  /\ \E a \in {"lost", IF sent[c][Len(sent[c])] \in revoked THEN "refused" ELSE "accepted"} :
       answer' = [answer EXCEPT ![c] = a]
  /\ UNCHANGED <<pc, sent, joined, flightVars, serverVars>>

\* The refresh endpoint answers with a new cookie, before the promise settles.
SetsCookie ==
  /\ refresh = "asked" /\ ~over
  /\ jar' = jar + 1
  /\ renewal' = [renewal EXCEPT ![inFlight] = jar + 1]
  /\ refresh' = "renewed"
  /\ UNCHANGED <<callVars, inFlight, flights, revoked, over>>

\* The sessions so far expire or are revoked, perhaps the whole login.
Revoke ==
  /\ jar \notin revoked /\ jar <= MaxRevoked
  /\ revoked' = 0 .. jar
  /\ over' \in {over, TRUE}
  /\ UNCHANGED <<callVars, flightVars, jar>>

ClientStep ==
  \/ \E c \in Calls : Refused(c) \/ Answered(c) \/ Rejected(c) \/ Replay(c)
  \/ RefreshRejects \/ RefreshResolves
ServerStep == (\E c \in Calls : Serve(c)) \/ SetsCookie
Next == (\E c \in Calls : Call(c)) \/ ClientStep \/ ServerStep \/ Revoke

\* Requests are answered or lost, and promises settle; nothing else is owed.
Spec == Init /\ [][Next]_vars /\ WF_vars(ClientStep) /\ WF_vars(ServerStep)

-----------------------------------------------------------------------------
(***************************************************************************)
(* Properties.                                                             *)
(***************************************************************************)
\* Every variable has its type, and a request is replayed once at most.
TypeOK ==
  /\ pc \in [Calls -> {"idle", "fetching", "waiting", "cancelling", "replaying",
                       "done", "rejected"}]
  /\ sent \in [Calls -> Seq(0 .. jar)]
  /\ answer \in [Calls -> {"none", "accepted", "refused", "lost"}]
  /\ joined \in [Calls -> 0 .. flights]
  /\ flights \in Nat /\ inFlight \in {0, flights}
  /\ renewal \in [1 .. flights -> 0 .. jar]
  /\ refresh \in {"none", "asked", "renewed"}
  /\ jar \in Nat /\ revoked \subseteq 0 .. jar /\ over \in BOOLEAN
  /\ \A c \in Calls : Len(sent[c]) <= 2

\* A refused call is never on its way to a replay while the refresh it awaited is
\* still in flight.  A replay never goes out under an older cookie than the request
\* before it; and when the awaited refresh has set a cookie, the replay goes under
\* that one or a newer one, and not under the one that was refused, unless that is
\* the very cookie the refresh had just set.  (A refresh that resolves without one,
\* as a fetch does on a 401, is replayed under the refused cookie.)
ReplayUnderRenewal ==
  \A c \in Calls :
    /\ pc[c] = "cancelling" \/ Len(sent[c]) = 2 => joined[c] \notin {0, inFlight}
    /\ Len(sent[c]) = 2 =>
         LET renewed == renewal[joined[c]] IN
         /\ sent[c][2] >= sent[c][1]
         /\ renewed > 0 => /\ sent[c][2] >= renewed
                           /\ sent[c][2] > sent[c][1] \/ sent[c][1] = renewed

\* The calls that are refused at the same time share one refresh: none starts
\* while another is in flight, and all that share one are told its outcome in
\* one step; a failure is not kept for those that are refused later.
Flight == INSTANCE SharedFlight WITH
  Callers <- Calls,
  flight <- inFlight,
  waiting <- [c \in Calls |-> IF pc[c] = "waiting" THEN joined[c] ELSE 0],
  outcome <- [c \in Calls |->
    IF joined[c] = 0 \/ pc[c] = "waiting" THEN "none"
    ELSE IF pc[c] \in {"cancelling", "replaying"} \/ Len(sent[c]) = 2 THEN "kept" ELSE "failed"]

FlightSpec == Flight!Spec

\* Every call of the wrapped fetch settles.
CallsSettle == \A c \in Calls : pc[c] = "fetching" ~> pc[c] \in {"done", "rejected"}
=============================================================================
