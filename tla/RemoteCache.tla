---------------------------- MODULE RemoteCache ----------------------------
(***************************************************************************)
(* The session cache of remote documents in                                *)
(* packages/resolve-refs/src/resolve-refs-from-file.ts: one for the        *)
(* process, shared by every resolve that runs in it.  A document is cached *)
(* and its fetch is shared per key: a location and the scope (credentials, *)
(* transport, limits) it is fetched under.  Entries expire, the least      *)
(* recently used is evicted past the cap, and clearRemoteCache drops them. *)
(*                                                                         *)
(* A call of loadDoc is one call here.  Fetches are numbered in the order  *)
(* they start; `order` is the insertion order in which the code's Map      *)
(* keeps its keys, as the pairs of a key and one inserted after it.        *)
(*                                                                         *)
(* options.headers may be a function.  It is evaluated for the key, and    *)
(* again for every request a fetch sends: after the check of the host and  *)
(* after each redirect, when it may give something else.                   *)
(***************************************************************************)
EXTENDS Naturals, Sequences, FiniteSets

CONSTANTS
  Calls,       \* calls of loadDoc for a remote location
  Locations,
  Scopes,
  None,        \* `undefined`
  MaxEntries,  \* REMOTE_CACHE_MAX_ENTRIES
  TTL,         \* REMOTE_CACHE_TTL_MS
  MaxTime,     \* bound: the clock
  MaxFetches,  \* bound: fetches started
  Turning,     \* bound: the fetches whose headers may change, once each
  MaxClears    \* bound: calls of clearRemoteCache

Keys == [scope : Scopes, location : Locations]

Doc == [key : Keys, fetch : Nat, at : Nat]

Entry == [doc : Doc, expiresAt : Nat]

ASSUME CacheAssumption ==
  /\ MaxEntries \in Nat \ {0}
  /\ TTL \in Nat
  /\ MaxTime \in Nat /\ MaxFetches \in Nat /\ MaxClears \in Nat
  /\ None \notin Entry

VARIABLES
  now,        \* Date.now()
  cache,      \* cache[k]: the entry under k, or None
  inFlight,   \* inFlight[k]: the fetch other calls may share, 0 for none
  fetches,    \* every fetch started
  headers,    \* headers[f]: the scope the headers of fetch f give now, and the
              \* one they gave when last evaluated: its key's, then its requests'
  pc,         \* pc[c]: "idle", "waiting", "loaded" or "failed"
  want,       \* want[c]: the key call c loads
  on,         \* on[c]: the fetch it awaits, 0 for none
  got,        \* got[c]: the document it was given
  clears,     \* number of calls of clearRemoteCache
  order,      \* the Map's insertion order: <<i, j>> for i inserted before j
  recency,    \* history: <<i, j>> for i used less recently than j
  old         \* history: old[l], the fetches that had settled when l was last cleared

cacheVars == <<cache, order, recency>>
callVars == <<pc, want, on, got>>
clearVars == <<old, clears>>
vars == <<now, inFlight, fetches, headers, cacheVars, callVars, clearVars>>

\* The document fetch f brings, cached (and given to its callers) now.
Document(f) == [key |-> fetches[f].key, fetch |-> f, at |-> now]

Init ==
  /\ now = 0
  /\ cache = [k \in Keys |-> None]
  /\ inFlight = [k \in Keys |-> 0]
  /\ fetches = <<>> /\ headers = <<>>
  /\ pc = [c \in Calls |-> "idle"]
  /\ want = [c \in Calls |-> None]
  /\ on = [c \in Calls |-> 0]
  /\ got = [c \in Calls |-> None]
  /\ clears = 0
  /\ order = {} /\ recency = {}
  /\ old = [l \in Locations |-> {}]

(***************************************************************************)
(* readRemoteCache and writeRemoteCache                                    *)
(***************************************************************************)
Cached == {k \in Keys : cache[k] # None}

Live(k) == IF cache[k] = None THEN FALSE ELSE now < cache[k].expiresAt

\* Deleted from the Map ...
Kept(before, dropped) == {p \in before : p[1] \notin dropped /\ p[2] \notin dropped}

\* ... and inserted into it again, as its last.
Last(before, k) == Kept(before, {k}) \cup {<<j, k>> : j \in Cached \ {k}}

First(before, keys) == {j \in keys : \A i \in keys \ {j} : <<j, i>> \in before}

\* Mutation: a hit stays where it was.
RefreshNot(k) ==
  /\ UNCHANGED <<cache, order>>
  /\ recency' = Last(recency, k)

\* A hit is deleted and inserted again, which makes it the most recent.
Refresh(k) ==
  /\ UNCHANGED cache
  /\ order' = Last(order, k) /\ recency' = Last(recency, k)

\* What writing k drops: the first of the Map, when k makes it one too many.
Evicted(k) ==
  IF Cardinality(Cached \cup {k}) > MaxEntries
  THEN First(Last(order, k), Cached \cup {k}) ELSE {}

WriteCache(k, doc) ==
  /\ cache' = [j \in Keys |->
       IF j \in Evicted(k) THEN None
       ELSE IF j = k THEN [doc |-> doc, expiresAt |-> now + TTL] ELSE cache[j]]
  /\ order' = Kept(Last(order, k), Evicted(k))
  /\ recency' = Kept(Last(recency, k), Evicted(k))

(***************************************************************************)
(* loadDoc, for a location the policy of the call refuses, for one in the  *)
(* cache, for one it has to fetch or wait for, and with `cache: false`.    *)
(***************************************************************************)
Called(c, k, state, fetch, doc) ==
  /\ pc[c] = "idle"
  /\ pc' = [pc EXCEPT ![c] = state]
  /\ want' = [want EXCEPT ![c] = k]
  /\ on' = [on EXCEPT ![c] = fetch]
  /\ got' = [got EXCEPT ![c] = doc]

\* fetchRemote(): its first request is sent at once, or after a check of the host.
Fetch(k, shared) ==
  /\ Len(fetches) < MaxFetches
  /\ fetches' = Append(fetches, [key |-> k, shared |-> shared, pending |-> TRUE])
  /\ headers' = Append(headers, [gives |-> k.scope, sent |-> k.scope])

LoadRefused(c) ==
  /\ pc[c] = "idle"
  /\ pc' = [pc EXCEPT ![c] = "failed"]
  /\ UNCHANGED <<now, inFlight, fetches, headers, want, on, got, cacheVars, clearVars>>

LoadHit(c, k) ==
  /\ Live(k)
  /\ Called(c, k, "loaded", 0, cache[k].doc)
  /\ Refresh(k)
  /\ UNCHANGED <<now, inFlight, fetches, headers, clearVars>>

\* Mutation: the table is keyed by location alone.
SharedByLocation(c, k) ==
  LET pending == {inFlight[j] : j \in {i \in Keys : i.location = k.location}} \ {0} IN
  \/ /\ pending = {}
     /\ Fetch(k, TRUE)
     /\ inFlight' = [inFlight EXCEPT ![k] = Len(fetches) + 1]
     /\ Called(c, k, "waiting", Len(fetches) + 1, None)
  \/ /\ \E f \in pending : Called(c, k, "waiting", f, None)
     /\ UNCHANGED <<inFlight, fetches, headers>>

\* The first call to miss owns the fetch, later ones await it.
Shared(c, k) ==
  \/ /\ inFlight[k] = 0
     /\ Fetch(k, TRUE)
     /\ inFlight' = [inFlight EXCEPT ![k] = Len(fetches) + 1]
     /\ Called(c, k, "waiting", Len(fetches) + 1, None)
  \/ /\ inFlight[k] # 0
     /\ Called(c, k, "waiting", inFlight[k], None)
     /\ UNCHANGED <<inFlight, fetches, headers>>

\* An entry found expired is dropped on the way.
LoadMiss(c, k) ==
  /\ ~Live(k)
  /\ cache' = [cache EXCEPT ![k] = None]
  /\ order' = Kept(order, {k}) /\ recency' = Kept(recency, {k})
  /\ Shared(c, k)
  /\ UNCHANGED <<now, clearVars>>

\* Neither served from the cache and the loads in flight, nor seen by them.
LoadBypassing(c, k) ==
  /\ Fetch(k, FALSE)
  /\ Called(c, k, "waiting", Len(fetches) + 1, None)
  /\ UNCHANGED <<now, inFlight, cacheVars, clearVars>>

(***************************************************************************)
(* Before each request headersFor() is evaluated again (line 315); the     *)
(* document comes with the answer to the last one.                         *)
(***************************************************************************)
Send(f) ==
  /\ fetches[f].pending
  /\ headers[f].sent # headers[f].gives
  /\ headers' = [headers EXCEPT ![f].sent = headers[f].gives]
  /\ UNCHANGED <<now, inFlight, fetches, cacheVars, callVars, clearVars>>

Turned == {f \in 1..Len(fetches) : headers[f].gives # fetches[f].key.scope}

\* External: the function behind options.headers gives something else from now on.
Turn(f, scope) ==
  /\ fetches[f].pending
  /\ f \in Turning \ Turned
  /\ headers' = [headers EXCEPT ![f].gives = scope]
  /\ UNCHANGED <<now, inFlight, fetches, cacheVars, callVars, clearVars>>

(***************************************************************************)
(* A fetch settles, for its owner and for those who await it with it: they *)
(* continue one after the other with nothing in between, and each writes   *)
(* the document again, which leaves the cache as one write does.           *)
(***************************************************************************)
Settled(f, state, doc) ==
  LET waiting == {c \in Calls : pc[c] = "waiting" /\ on[c] = f} IN
  /\ fetches' = [fetches EXCEPT ![f].pending = FALSE]
  /\ pc' = [c \in Calls |-> IF c \in waiting THEN state ELSE pc[c]]
  /\ got' = [c \in Calls |-> IF c \in waiting THEN doc ELSE got[c]]
  /\ on' = [c \in Calls |-> IF c \in waiting THEN 0 ELSE on[c]]
  /\ UNCHANGED <<now, headers, want, clearVars>>

Released(f) ==
  inFlight' = IF fetches[f].shared THEN [inFlight EXCEPT ![fetches[f].key] = 0]
              ELSE inFlight

Fetched(f) ==
  /\ fetches[f].pending
  /\ Settled(f, "loaded", Document(f))
  /\ IF fetches[f].shared THEN WriteCache(fetches[f].key, Document(f))
     ELSE UNCHANGED cacheVars
  /\ Released(f)

\* Mutation: a fetch that failed stays in the table.
FailedStays(f) ==
  /\ fetches[f].pending
  /\ Settled(f, "failed", None)
  /\ UNCHANGED <<inFlight, cacheVars>>

\* An error, a refusal, a timeout, or the deadline of the owner.
Failed(f) ==
  /\ fetches[f].pending
  /\ Settled(f, "failed", None)
  /\ Released(f)
  /\ UNCHANGED cacheVars

(***************************************************************************)
(* clearRemoteCache(): every document, or one across its scopes.           *)
(***************************************************************************)
\* Mutation: the first key of the location is the only one dropped.
ClearFirst(dropped) ==
  LET gone == {k \in First(order, Cached) : k.location \in dropped} IN
  /\ clears < MaxClears
  /\ clears' = clears + 1
  /\ cache' = [k \in Keys |-> IF k \in gone THEN None ELSE cache[k]]
  /\ order' = Kept(order, gone) /\ recency' = Kept(recency, gone)
  /\ old' = [l \in Locations |->
       IF l \in dropped THEN {f \in 1..Len(fetches) : ~fetches[f].pending} ELSE old[l]]
  /\ UNCHANGED <<now, inFlight, fetches, headers, callVars>>

Clear(dropped) ==
  LET gone == {k \in Keys : k.location \in dropped} IN
  /\ clears < MaxClears
  /\ clears' = clears + 1
  /\ cache' = [k \in Keys |-> IF k \in gone THEN None ELSE cache[k]]
  /\ order' = Kept(order, gone) /\ recency' = Kept(recency, gone)
  /\ old' = [l \in Locations |->
       IF l \in dropped THEN {f \in 1..Len(fetches) : ~fetches[f].pending} ELSE old[l]]
  /\ UNCHANGED <<now, inFlight, fetches, headers, callVars>>

\* External: time passes.
Tick ==
  /\ now < MaxTime
  /\ now' = now + 1
  /\ UNCHANGED <<inFlight, fetches, headers, cacheVars, callVars, clearVars>>

Load == \E c \in Calls, k \in Keys :
  LoadRefused(c) \/ LoadHit(c, k) \/ LoadMiss(c, k) \/ LoadBypassing(c, k)

Settle == \E f \in 1..Len(fetches) : Fetched(f) \/ Failed(f)

Next ==
  \/ Load
  \/ Settle
  \/ \E f \in 1..Len(fetches) : Send(f) \/ \E scope \in Scopes : Turn(f, scope)
  \/ Clear(Locations)
  \/ \E l \in Locations : Clear({l})
  \/ Tick

Spec == Init /\ [][Next]_vars
-----------------------------------------------------------------------------
(***************************************************************************)
(* Properties.                                                             *)
(***************************************************************************)

TypeOK ==
  /\ now \in Nat /\ clears \in Nat
  /\ cache \in [Keys -> Entry \cup {None}]
  /\ order \subseteq Keys \X Keys /\ recency \subseteq Keys \X Keys
  /\ inFlight \in [Keys -> Nat]
  /\ fetches \in Seq([key : Keys, shared : BOOLEAN, pending : BOOLEAN])
  /\ headers \in Seq([gives : Scopes, sent : Scopes])
  /\ pc \in [Calls -> {"idle", "waiting", "loaded", "failed"}]
  /\ want \in [Calls -> Keys \cup {None}]
  /\ on \in [Calls -> Nat]
  /\ got \in [Calls -> Doc \cup {None}]
  /\ old \in [Locations -> SUBSET Nat]

\* The session cache and the loads in flight are keyed by the scope and location
\* of the call (lines 109-114, 440-444): by the cache, by a shared fetch or by both
\* in turn, a call is only ever given what was loaded under its own key.
OwnDocument == \A c \in Calls : got[c] # None => got[c].key = want[c]

Shares(c) == on[c] \in 1..Len(fetches) /\ fetches[on[c]].key = want[c]

OwnKey ==
  /\ \A k \in Cached : cache[k].doc.key = k
  /\ \A c \in Calls : pc[c] = "waiting" => Shares(c)
  /\ OwnDocument

\* Lines 92-95 and 440-443 say more: "a document fetched with one tenant's token
\* is invisible to a call carrying different (or no) credentials".  That is not so
\* when a headers function gives, at line 315, what it did not give for the key:
\* the document is kept under the first scope.  But for such a fetch, the
\* credentials a document was asked for with are those of the call that is given
\* it, whoever fetched it and however often it was cached and shared since.
SentAsKeyed ==
  \A c \in Calls : got[c] # None =>
    headers[got[c].fetch].sent = want[c].scope \/ got[c].fetch \in Turned

Isolated == OwnKey /\ SentAsKeyed

\* "Coalesce concurrent loads of the same URL onto one in-flight request" (line
\* 465): the table names the one shared fetch of its key that is pending, and no
\* other, so nobody waits for a fetch that has settled.
OneFetch ==
  /\ \A k \in Keys : inFlight[k] # 0 =>
       /\ inFlight[k] \in 1..Len(fetches)
       /\ fetches[inFlight[k]].key = k
       /\ fetches[inFlight[k]].pending /\ fetches[inFlight[k]].shared
  /\ \A f \in 1..Len(fetches) : fetches[f].pending /\ fetches[f].shared =>
       inFlight[fetches[f].key] = f

\* "It is bounded" (lines 100-102), however hits, writes, expiry and clears mix.
Bounded == Cardinality(Cached) <= MaxEntries

Inv == TypeOK /\ OneFetch /\ Bounded

\* Past the cap the least recently used goes: what is evicted while it could
\* still have been served is what was used longest ago.
EvictsOldest ==
  [][\A k \in Keys : Live(k) /\ cache'[k] = None /\ clears' = clears =>
        \A j \in Cached \ {k} : <<k, j>> \in recency]_vars

\* What the cache serves is not older than its time to live, however often it
\* was served before, and nothing that was fetched before clearRemoteCache, in
\* no scope: it "drops cached remote documents ... across every credential
\* scope" (lines 131-133).  (What was still being fetched then may be served.)
ServesFresh ==
  [][\A c \in Calls : pc[c] = "idle" /\ pc'[c] = "loaded" =>
        /\ now < got'[c].at + TTL
        /\ got'[c].fetch \notin old[want'[c].location]]_vars
=============================================================================
