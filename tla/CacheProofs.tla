---------------------------- MODULE CacheProofs -----------------------------
(***************************************************************************)
(* Proofs about the two caches: the remote documents of resolve-refs       *)
(* (RemoteCache) and the rulesets of a lint run (LintRun), for any number  *)
(* of calls, files and runners and for any bounds.                         *)
(***************************************************************************)
EXTENDS RemoteCache, LintRun, SequenceTheorems, FiniteSetTheorems, TLAPS

-----------------------------------------------------------------------------
(***************************************************************************)
(* RemoteCache.  A call reads and is given only documents of its own       *)
(* scope, concurrent misses of one location share one fetch, the cache     *)
(* holds no more than its bounds, and what it drops is what was used       *)
(* longest ago.                                                            *)
(***************************************************************************)

FetchRecord == [key : Keys, shared : BOOLEAN, pending : BOOLEAN]

FetchesOK ==
  /\ fetches \in Seq(FetchRecord)
  /\ inFlight \in [Keys -> Nat]

CallsOK ==
  /\ pc = [c \in Calls |-> pc[c]]
  /\ want = [c \in Calls |-> want[c]]
  /\ on = [c \in Calls |-> on[c]]
  /\ got = [c \in Calls |-> got[c]]
  /\ cache = [k \in Keys |-> cache[k]]

\* OwnKey and OneFetch need each other: a call that joins a fetch is of the
\* fetch's key because the table is right, and what a fetch writes is of the key
\* of the calls that awaited it.
IInv == FetchesOK /\ CallsOK /\ OneFetch /\ OwnKey

LEMMA InitInv == Init => IInv
<1> SUFFICES ASSUME Init PROVE IInv
  OBVIOUS
<1>1. FetchesOK /\ CallsOK
  BY EmptySeq DEF Init, FetchesOK, CallsOK
<1>2. OneFetch
  BY DEF Init, OneFetch
<1>3. OwnKey
  BY DEF Init, OwnKey, OwnDocument, Cached
<1> QED BY <1>1, <1>2, <1>3 DEF IInv

\* A fetch that starts leaves the others as they are.
LEMMA FetchStarts ==
  ASSUME FetchesOK, NEW k \in Keys, NEW shared \in BOOLEAN, Fetch(k, shared)
  PROVE  /\ fetches' \in Seq(FetchRecord)
         /\ Len(fetches') = Len(fetches) + 1
         /\ fetches'[Len(fetches) + 1] = [key |-> k, shared |-> shared, pending |-> TRUE]
         /\ \A f \in 1..Len(fetches) : fetches'[f] = fetches[f]
<1>1. [key |-> k, shared |-> shared, pending |-> TRUE] \in FetchRecord
  BY DEF FetchRecord
<1> QED BY <1>1, AppendProperties DEF Fetch, FetchesOK

\* A call that is served, or made to wait, is the only one that changes.
LEMMA CallChanges ==
  ASSUME CallsOK, NEW c \in Calls, NEW k \in Keys, NEW state, NEW fetch, NEW doc,
         Called(c, k, state, fetch, doc)
  PROVE  /\ pc' = [b \in Calls |-> pc'[b]] /\ want' = [b \in Calls |-> want'[b]]
         /\ on' = [b \in Calls |-> on'[b]] /\ got' = [b \in Calls |-> got'[b]]
         /\ pc'[c] = state /\ want'[c] = k /\ on'[c] = fetch /\ got'[c] = doc
         /\ \A b \in Calls \ {c} : /\ pc'[b] = pc[b] /\ want'[b] = want[b]
                                   /\ on'[b] = on[b] /\ got'[b] = got[b]
BY DEF CallsOK, Called

LEMMA HitKeeps ==
  ASSUME IInv, NEW c \in Calls, NEW k \in Keys, LoadHit(c, k)
  PROVE  IInv'
<1>1. Called(c, k, "loaded", 0, cache[k].doc) /\ CallsOK /\ FetchesOK
  BY DEF LoadHit, IInv
<1>2. UNCHANGED <<cache, inFlight, fetches>>
  BY DEF LoadHit, Refresh
<1>3. CallsOK' /\ FetchesOK'
  BY <1>1, <1>2, CallChanges DEF CallsOK, FetchesOK
<1>4. OneFetch'
  BY <1>2 DEF OneFetch, IInv
<1>5. cache[k].doc.key = k
  BY DEF LoadHit, Live, IInv, OwnKey, Cached
<1>6. OwnKey'
  BY <1>1, <1>2, <1>5, CallChanges DEF IInv, OwnKey, OwnDocument, Shares, Cached
<1> QED BY <1>3, <1>4, <1>6 DEF IInv

\* The call owns a new fetch, shared or its own, and waits for it.
LEMMA OwnerKeeps ==
  ASSUME IInv, NEW c \in Calls, NEW k \in Keys, NEW shared \in BOOLEAN,
         Fetch(k, shared), Called(c, k, "waiting", Len(fetches) + 1, None),
         IF shared
           THEN inFlight[k] = 0 /\ inFlight' = [inFlight EXCEPT ![k] = Len(fetches) + 1]
           ELSE UNCHANGED inFlight,
         cache' = cache \/ cache' = [cache EXCEPT ![k] = None]
  PROVE  IInv'
<1> DEFINE n == Len(fetches) + 1
<1>1. /\ fetches' \in Seq(FetchRecord) /\ Len(fetches') = n
      /\ fetches'[n] = [key |-> k, shared |-> shared, pending |-> TRUE]
      /\ \A f \in 1..Len(fetches) : fetches'[f] = fetches[f]
  BY FetchStarts DEF IInv
<1>2. Len(fetches) \in Nat /\ n \in Nat /\ n # 0 /\ 1..Len(fetches') = 1..Len(fetches) \cup {n}
  BY <1>1, LenProperties DEF IInv, FetchesOK
<1>3. \A f \in 1..Len(fetches) : fetches[f] \in FetchRecord
  BY DEF IInv, FetchesOK
<1>4. FetchesOK'
  BY <1>1, <1>2 DEF IInv, FetchesOK
<1>5. CallsOK'
  BY CallChanges DEF IInv, CallsOK
<1>6. OneFetch'
  <2>1. CASE shared
    <3>1. /\ inFlight'[k] = n
          /\ \A j \in Keys \ {k} : inFlight'[j] = inFlight[j]
      BY <2>1 DEF IInv, FetchesOK
    <3>2. \A j \in Keys : inFlight'[j] # 0 =>
            /\ inFlight'[j] \in 1..Len(fetches')
            /\ fetches'[inFlight'[j]].key = j
            /\ fetches'[inFlight'[j]].pending /\ fetches'[inFlight'[j]].shared
      BY <1>1, <1>2, <2>1, <3>1 DEF IInv, OneFetch
    <3>3. \A f \in 1..Len(fetches') : fetches'[f].pending /\ fetches'[f].shared =>
            inFlight'[fetches'[f].key] = f
      BY <1>1, <1>2, <1>3, <2>1, <3>1 DEF IInv, OneFetch, FetchRecord
    <3> QED BY <3>2, <3>3 DEF OneFetch
  <2>2. CASE ~shared
    BY <1>1, <1>2, <2>2 DEF IInv, OneFetch
  <2> QED BY <2>1, <2>2
<1>7. OwnKey'
  <2>1. \A j \in Cached' : j \in Cached /\ cache'[j] = cache[j]
    BY DEF Cached, IInv, CallsOK
  <2>2. \A b \in Calls : pc'[b] = "waiting" => Shares(b)'
    BY <1>1, <1>2, CallChanges DEF IInv, OwnKey, Shares
  <2>3. OwnDocument'
    BY CallChanges DEF IInv, OwnKey, OwnDocument
  <2> QED BY <2>1, <2>2, <2>3 DEF IInv, OwnKey
<1> QED BY <1>4, <1>5, <1>6, <1>7 DEF IInv

\* The call awaits the fetch the table names for its key.
LEMMA JoinerKeeps ==
  ASSUME IInv, NEW c \in Calls, NEW k \in Keys, inFlight[k] # 0,
         Called(c, k, "waiting", inFlight[k], None),
         UNCHANGED <<inFlight, fetches>>, cache' = [cache EXCEPT ![k] = None]
  PROVE  IInv'
<1>1. FetchesOK' /\ CallsOK'
  BY CallChanges DEF IInv, FetchesOK, CallsOK
<1>2. OneFetch'
  BY DEF IInv, OneFetch
<1>3. \A j \in Cached' : j \in Cached /\ cache'[j] = cache[j]
  BY DEF Cached, IInv, CallsOK
<1>4. inFlight[k] \in 1..Len(fetches) /\ fetches[inFlight[k]].key = k
  BY DEF IInv, OneFetch
<1>5. \A b \in Calls : pc'[b] = "waiting" => Shares(b)'
  BY <1>4, CallChanges DEF IInv, OwnKey, Shares
<1>6. OwnDocument'
  BY CallChanges DEF IInv, OwnKey, OwnDocument
<1> QED BY <1>1, <1>2, <1>3, <1>5, <1>6 DEF IInv, OwnKey

LEMMA MissKeeps ==
  ASSUME IInv, NEW c \in Calls, NEW k \in Keys, LoadMiss(c, k)
  PROVE  IInv'
<1>1. cache' = [cache EXCEPT ![k] = None] /\ Shared(c, k)
  BY DEF LoadMiss
<1>2. CASE inFlight[k] = 0
  <2>1. Fetch(k, TRUE) /\ inFlight' = [inFlight EXCEPT ![k] = Len(fetches) + 1]
        /\ Called(c, k, "waiting", Len(fetches) + 1, None)
    BY <1>1, <1>2 DEF Shared
  <2> QED BY <1>1, <1>2, <2>1, OwnerKeeps
<1>3. CASE inFlight[k] # 0
  BY <1>1, <1>3, JoinerKeeps DEF Shared
<1> QED BY <1>2, <1>3

LEMMA BypassKeeps ==
  ASSUME IInv, NEW c \in Calls, NEW k \in Keys, LoadBypassing(c, k)
  PROVE  IInv'
<1>1. Fetch(k, FALSE) /\ Called(c, k, "waiting", Len(fetches) + 1, None)
      /\ UNCHANGED inFlight /\ cache' = cache
  BY DEF LoadBypassing, cacheVars
<1> QED BY <1>1, OwnerKeeps

\* A fetch that settles is no longer pending, and the table forgets it, whether
\* it gave its callers a document of its key or nothing.
LEMMA SettleKeeps ==
  ASSUME IInv, NEW f \in 1..Len(fetches), fetches[f].pending, NEW state, NEW doc,
         Settled(f, state, doc), Released(f), state # "waiting",
         doc # None => doc.key = fetches[f].key,
         cache' = [k \in Keys |-> cache'[k]],
         \A k \in Keys : \/ cache'[k] = cache[k] \/ cache'[k] = None
                         \/ cache'[k].doc.key = k
  PROVE  IInv'
<1> DEFINE k == fetches[f].key
<1>1. fetches \in Seq(FetchRecord) /\ fetches[f] \in FetchRecord /\ k \in Keys
  <2>1. fetches \in Seq(FetchRecord)
    BY DEF IInv, FetchesOK
  <2>2. fetches[f] \in FetchRecord
    BY <2>1
  <2> QED BY <2>1, <2>2 DEF FetchRecord
<1>2. /\ fetches' \in Seq(FetchRecord) /\ Len(fetches') = Len(fetches)
      /\ fetches'[f] = [fetches[f] EXCEPT !.pending = FALSE]
      /\ \A g \in 1..Len(fetches) : g # f => fetches'[g] = fetches[g]
  <2> DEFINE settled == [fetches[f] EXCEPT !.pending = FALSE]
  <2>1. fetches' = [fetches EXCEPT ![f] = settled]
    BY DEF Settled
  <2>2. settled \in FetchRecord
    BY <1>1 DEF FetchRecord
  <2> HIDE DEF settled
  <2>3. /\ fetches' \in Seq(FetchRecord) /\ Len(fetches') = Len(fetches)
        /\ \A g \in 1..Len(fetches) : fetches'[g] = IF g = f THEN settled ELSE fetches[g]
    BY <1>1, <2>1, <2>2, ExceptSeq
  <2> QED BY <2>3 DEF settled
<1>3. /\ fetches'[f].pending = FALSE
      /\ \A g \in 1..Len(fetches) : fetches'[g].key = fetches[g].key
  <2>1. fetches'[f].pending = FALSE /\ fetches'[f].key = fetches[f].key
    BY <1>1, <1>2 DEF FetchRecord
  <2> QED BY <1>2, <2>1
<1>4. inFlight' \in [Keys -> Nat]
  BY <1>1 DEF Released, IInv, FetchesOK
<1>5. FetchesOK'
  BY <1>2, <1>4 DEF FetchesOK
<1>6. CallsOK'
  BY DEF Settled, IInv, CallsOK
<1>7. OneFetch'
  <2>1. \A j \in Keys : inFlight'[j] # 0 => inFlight'[j] = inFlight[j] /\ inFlight[j] # f
    BY <1>1 DEF Released, IInv, FetchesOK, OneFetch
  <2>2. \A j \in Keys : inFlight'[j] # 0 =>
          /\ inFlight'[j] \in 1..Len(fetches')
          /\ fetches'[inFlight'[j]].key = j
          /\ fetches'[inFlight'[j]].pending /\ fetches'[inFlight'[j]].shared
    BY <1>2, <2>1 DEF IInv, OneFetch
  <2>3. ASSUME NEW g \in 1..Len(fetches'), fetches'[g].pending, fetches'[g].shared
        PROVE  inFlight'[fetches'[g].key] = g
    <3>1. g # f /\ g \in 1..Len(fetches) /\ fetches'[g] = fetches[g]
      BY <1>2, <1>3, <2>3
    <3>2. fetches[g].key \in Keys /\ inFlight[fetches[g].key] = g
      <4>1. fetches[g] \in FetchRecord
        BY <1>1, <3>1
      <4>2. fetches[g].key \in Keys
        BY <4>1 DEF FetchRecord
      <4>3. inFlight[fetches[g].key] = g
        BY <2>3, <3>1 DEF IInv, OneFetch
      <4> QED BY <4>2, <4>3
    <3>3. fetches[f].shared => fetches[g].key # k
      BY <3>1, <3>2 DEF IInv, OneFetch
    <3> QED BY <1>1, <3>1, <3>2, <3>3 DEF Released, IInv, FetchesOK
  <2> QED BY <2>2, <2>3 DEF OneFetch
<1>8. \A j \in Cached' : cache'[j].doc.key = j
  BY DEF Cached, IInv, OwnKey
<1>9. \A c \in Calls : pc'[c] = "waiting" => Shares(c)'
  BY <1>2, <1>3 DEF Settled, Shares, IInv, OwnKey
<1>10. OwnDocument'
  <2> SUFFICES ASSUME NEW c \in Calls, got'[c] # None PROVE got'[c].key = want'[c]
    BY DEF OwnDocument
  <2>1. CASE pc[c] = "waiting" /\ on[c] = f
    BY <2>1 DEF Settled, IInv, OwnKey, Shares
  <2>2. CASE ~(pc[c] = "waiting" /\ on[c] = f)
    BY <2>2 DEF Settled, IInv, OwnKey, OwnDocument
  <2> QED BY <2>1, <2>2
<1> QED BY <1>5, <1>6, <1>7, <1>8, <1>9, <1>10 DEF IInv, OwnKey

LEMMA FetchedKeeps ==
  ASSUME IInv, NEW f \in 1..Len(fetches), Fetched(f)
  PROVE  IInv'
<1> DEFINE k == fetches[f].key
<1>1. Document(f).key = k
  BY DEF Document
<1>2. /\ cache' = [j \in Keys |-> cache'[j]]
      /\ \A j \in Keys : \/ cache'[j] = cache[j] \/ cache'[j] = None
                         \/ cache'[j].doc.key = j
  <2>1. CASE fetches[f].shared
    BY <1>1, <2>1 DEF Fetched, WriteCache
  <2>2. CASE ~fetches[f].shared
    BY <2>2 DEF Fetched, cacheVars, IInv, CallsOK
  <2> QED BY <2>1, <2>2
<1>3. Settled(f, "loaded", Document(f)) /\ Released(f) /\ fetches[f].pending
  BY DEF Fetched
<1> QED BY <1>1, <1>2, <1>3, SettleKeeps

LEMMA FailedKeeps ==
  ASSUME IInv, NEW f \in 1..Len(fetches), Failed(f)
  PROVE  IInv'
<1>1. Settled(f, "failed", None) /\ Released(f) /\ fetches[f].pending /\ cache' = cache
  BY DEF Failed, cacheVars
<1>2. cache' = [k \in Keys |-> cache'[k]]
  BY <1>1 DEF IInv, CallsOK
<1> QED BY <1>1, <1>2, SettleKeeps

\* A refusal, a clear, or time: no load starts and none settles.
LEMMA RestKeeps ==
  ASSUME IInv, UNCHANGED <<inFlight, fetches, want, on, got>>,
         pc' = pc \/ \E c \in Calls : pc' = [pc EXCEPT ![c] = "failed"],
         cache' = [k \in Keys |-> cache'[k]],
         \A k \in Keys : cache'[k] = cache[k] \/ cache'[k] = None
  PROVE  IInv'
<1>1. FetchesOK' /\ CallsOK' /\ OneFetch'
  BY DEF IInv, FetchesOK, CallsOK, OneFetch
<1>2. \A c \in Calls : pc'[c] = "waiting" => pc[c] = "waiting"
  BY DEF IInv, CallsOK
<1>3. OwnKey'
  BY <1>2 DEF IInv, OwnKey, Cached, OwnDocument, Shares
<1> QED BY <1>1, <1>3 DEF IInv

LEMMA StepKeeps == IInv /\ [Next]_vars => IInv'
<1> SUFFICES ASSUME IInv, [Next]_vars PROVE IInv'
  OBVIOUS
<1>1. ASSUME NEW c \in Calls, LoadRefused(c) PROVE IInv'
  BY <1>1, RestKeeps DEF LoadRefused, cacheVars, IInv, CallsOK
<1>2. ASSUME NEW c \in Calls, NEW k \in Keys,
             LoadHit(c, k) \/ LoadMiss(c, k) \/ LoadBypassing(c, k)
      PROVE  IInv'
  BY <1>2, HitKeeps, MissKeeps, BypassKeeps
<1>3. ASSUME NEW f \in 1..Len(fetches), Fetched(f) \/ Failed(f) PROVE IInv'
  BY <1>3, FetchedKeeps, FailedKeeps
<1>4. ASSUME NEW dropped, Clear(dropped) PROVE IInv'
  BY <1>4, RestKeeps DEF Clear, callVars
<1>5. CASE Tick
  BY <1>5, RestKeeps DEF Tick, cacheVars, callVars, IInv, CallsOK
<1>6. CASE UNCHANGED vars
  BY <1>6, RestKeeps DEF vars, cacheVars, callVars, IInv, CallsOK
<1>7. ASSUME NEW f, NEW scope, Send(f) \/ Turn(f, scope) PROVE IInv'
  BY <1>7, RestKeeps DEF Send, Turn, cacheVars, callVars, IInv, CallsOK
<1> QED BY <1>1, <1>2, <1>3, <1>4, <1>5, <1>6, <1>7 DEF Next, Load, Settle

LEMMA Invariance == Spec => []IInv
BY InitInv, StepKeeps, PTL DEF Spec

\* At any time at most one shared fetch of a key is pending, and it is the one
\* the table of loads in flight names.
THEOREM Coalescing == Spec => []OneFetch
<1>1. IInv => OneFetch
  BY DEF IInv
<1> QED BY <1>1, Invariance, PTL

(***************************************************************************)
(* Fresh: what the cache holds is as old as its expiry says, and was still *)
(* being fetched at the last clear of its location, if not asked for after *)
(* it.                                                                     *)
(***************************************************************************)
FreshInv ==
  /\ \A k \in Cached : /\ cache[k].expiresAt = cache[k].doc.at + TTL
                       /\ cache[k].doc.fetch \notin old[k.location]
  /\ \A l \in Locations : \A f \in old[l] : f \in 1..Len(fetches) /\ ~fetches[f].pending

\* A fetch that has settled stays settled, whatever starts or settles after it.
LEMMA SettledStays ==
  ASSUME IInv, [Next]_vars, NEW f \in 1..Len(fetches), ~fetches[f].pending
  PROVE  f \in 1..Len(fetches') /\ ~fetches'[f].pending
<1>0. fetches \in Seq(FetchRecord) /\ Len(fetches) \in Nat
  BY LenProperties DEF IInv, FetchesOK
<1>1. CASE UNCHANGED fetches
  BY <1>1
<1>2. ASSUME NEW k \in Keys, NEW shared \in BOOLEAN, Fetch(k, shared)
      PROVE  f \in 1..Len(fetches') /\ ~fetches'[f].pending
  <2>1. FetchesOK
    BY DEF IInv
  <2>2. Len(fetches') = Len(fetches) + 1 /\ fetches'[f] = fetches[f]
    BY <1>2, <2>1, FetchStarts
  <2>3. f \in 1..Len(fetches')
    BY <1>0, <2>2
  <2> QED BY <2>2, <2>3
<1>3. ASSUME NEW g \in 1..Len(fetches), NEW state, NEW doc, Settled(g, state, doc)
      PROVE  f \in 1..Len(fetches') /\ ~fetches'[f].pending
  <2> DEFINE settled == [fetches[g] EXCEPT !.pending = FALSE]
  <2>1. fetches[g] \in FetchRecord
    BY <1>0
  <2>2. settled \in FetchRecord /\ ~settled.pending
    BY <2>1 DEF FetchRecord
  <2>3. fetches' = [fetches EXCEPT ![g] = settled]
    BY <1>3 DEF Settled
  <2> HIDE DEF settled
  <2>4. /\ Len(fetches') = Len(fetches)
        /\ fetches'[f] = IF f = g THEN settled ELSE fetches[f]
    BY <1>0, <2>2, <2>3, ExceptSeq
  <2> QED BY <2>2, <2>4
<1>4. ASSUME NEW c \in Calls, NEW k \in Keys,
             LoadRefused(c) \/ LoadHit(c, k) \/ LoadMiss(c, k) \/ LoadBypassing(c, k)
      PROVE  f \in 1..Len(fetches') /\ ~fetches'[f].pending
  <2>1. UNCHANGED fetches \/ Fetch(k, TRUE) \/ Fetch(k, FALSE)
    BY <1>4 DEF LoadRefused, LoadHit, LoadMiss, LoadBypassing, Shared
  <2> QED BY <1>1, <1>2, <2>1
<1>5. CASE Settle
  BY <1>3, <1>5 DEF Settle, Fetched, Failed
<1>6. ASSUME NEW dropped, Clear(dropped) PROVE UNCHANGED fetches
  BY <1>6 DEF Clear
<1>7. CASE Tick \/ UNCHANGED vars
  BY <1>1, <1>7 DEF Tick, vars
<1>8. CASE Load
  BY <1>4, <1>8 DEF Load
<1>9. ASSUME NEW g, NEW scope, Send(g) \/ Turn(g, scope) PROVE UNCHANGED fetches
  BY <1>9 DEF Send, Turn
<1> QED BY <1>1, <1>5, <1>6, <1>7, <1>8, <1>9 DEF Next

\* Steps that write nothing to the cache and clear nothing.
LEMMA FreshKept ==
  ASSUME IInv, FreshInv, [Next]_vars, old' = old,
         \A k \in Keys : cache'[k] = cache[k] \/ cache'[k] = None
  PROVE  FreshInv'
<1>1. \A k \in Cached' : k \in Cached /\ cache'[k] = cache[k]
  BY DEF Cached
<1>2. \A l \in Locations : \A f \in old[l] : f \in 1..Len(fetches') /\ ~fetches'[f].pending
  BY SettledStays DEF FreshInv
<1> QED BY <1>1, <1>2 DEF FreshInv, Cached

LEMMA FreshNext == IInv /\ FreshInv /\ [Next]_vars => FreshInv'
<1> SUFFICES ASSUME IInv, FreshInv, [Next]_vars PROVE FreshInv'
  OBVIOUS
<1>1. ASSUME NEW c \in Calls, NEW k \in Keys,
             LoadRefused(c) \/ LoadHit(c, k) \/ LoadMiss(c, k) \/ LoadBypassing(c, k)
      PROVE  FreshInv'
  <2>1. old' = old
    BY <1>1 DEF LoadRefused, LoadHit, LoadMiss, LoadBypassing, clearVars
  <2>2. \A j \in Keys : cache'[j] = cache[j] \/ cache'[j] = None
    BY <1>1 DEF LoadRefused, LoadHit, Refresh, LoadMiss, LoadBypassing, cacheVars, IInv, CallsOK
  <2> QED BY <2>1, <2>2, FreshKept
<1>2. ASSUME NEW f \in 1..Len(fetches), Failed(f) PROVE FreshInv'
  BY <1>2, FreshKept DEF Failed, Settled, cacheVars, clearVars
<1>3. ASSUME NEW f \in 1..Len(fetches), Fetched(f) PROVE FreshInv'
  <2> DEFINE k == fetches[f].key
             entry == [doc |-> Document(f), expiresAt |-> now + TTL]
  <2>1. old' = old /\ fetches[f].pending
    BY <1>3 DEF Fetched, Settled, clearVars
  <2>2. CASE ~fetches[f].shared
    BY <1>3, <2>1, <2>2, FreshKept DEF Fetched, cacheVars
  <2>3. CASE fetches[f].shared
    <3>1. WriteCache(k, Document(f))
      BY <1>3, <2>3 DEF Fetched
    <3>2. \A j \in Keys : \/ cache'[j] = None \/ cache'[j] = cache[j]
                          \/ j = k /\ cache'[j] = entry
      BY <3>1 DEF WriteCache
    <3>3. /\ entry.expiresAt = entry.doc.at + TTL
          /\ entry.doc.fetch = f
      BY DEF Document
    <3>4. \A l \in Locations : f \notin old[l]
      BY <2>1 DEF FreshInv
    <3>5. k \in Keys /\ k.location \in Locations
      <4>1. fetches[f] \in FetchRecord
        BY DEF IInv, FetchesOK
      <4> QED BY <4>1 DEF FetchRecord, Keys
    <3>6. \A l \in Locations : \A g \in old[l] :
            g \in 1..Len(fetches') /\ ~fetches'[g].pending
      BY SettledStays DEF FreshInv
    <3> HIDE DEF entry
    <3>7. ASSUME NEW j \in Cached'
          PROVE  /\ cache'[j].expiresAt = cache'[j].doc.at + TTL
                 /\ cache'[j].doc.fetch \notin old[j.location]
      <4>1. CASE cache'[j] = cache[j]
        BY <3>7, <4>1 DEF Cached, FreshInv
      <4>2. CASE j = k /\ cache'[j] = entry
        BY <3>3, <3>4, <3>5, <4>2
      <4> QED BY <3>2, <3>7, <4>1, <4>2 DEF Cached
    <3> QED BY <2>1, <3>6, <3>7 DEF FreshInv, Cached
  <2> QED BY <2>2, <2>3
<1>4. ASSUME NEW dropped, Clear(dropped) PROVE FreshInv'
  <2>1. /\ UNCHANGED fetches
        /\ \A k \in Keys : IF k.location \in dropped THEN cache'[k] = None
                           ELSE cache'[k] = cache[k]
        /\ old' = [l \in Locations |->
             IF l \in dropped THEN {f \in 1..Len(fetches) : ~fetches[f].pending} ELSE old[l]]
    BY <1>4 DEF Clear
  <2>2. \A k \in Keys : k.location \in Locations
    BY DEF Keys
  <2>3. \A k \in Cached' : k \in Cached /\ cache'[k] = cache[k] /\ old'[k.location] = old[k.location]
    BY <2>1, <2>2 DEF Cached
  <2>4. \A l \in Locations : \A f \in old'[l] :
          f \in 1..Len(fetches') /\ ~fetches'[f].pending
    BY <2>1 DEF FreshInv
  <2> QED BY <2>3, <2>4 DEF FreshInv, Cached
<1>5. CASE Tick \/ UNCHANGED vars
  BY <1>5, FreshKept DEF Tick, vars, cacheVars, clearVars
<1>6. ASSUME NEW f, NEW scope, Send(f) \/ Turn(f, scope) PROVE FreshInv'
  BY <1>6, FreshKept DEF Send, Turn, cacheVars, clearVars
<1> QED BY <1>1, <1>2, <1>3, <1>4, <1>5, <1>6 DEF Next, Load, Settle

\* No document is served past its time to live, nor one whose fetch had settled
\* when clearRemoteCache last dropped its location, in whatever scope, for any
\* calls, scopes, capacity and time to live.
THEOREM FreshTheorem == Spec => ServesFresh
<1>1. Init => FreshInv
  BY DEF Init, FreshInv, Cached
<1>2. ASSUME IInv, FreshInv, [Next]_vars
      PROVE  \A c \in Calls : pc[c] = "idle" /\ pc'[c] = "loaded" =>
               /\ now < got'[c].at + TTL
               /\ got'[c].fetch \notin old[want'[c].location]
  <2> SUFFICES ASSUME NEW c \in Calls, pc[c] = "idle", pc'[c] = "loaded"
               PROVE  /\ now < got'[c].at + TTL
                      /\ got'[c].fetch \notin old[want'[c].location]
    OBVIOUS
  <2>1. PICK k \in Keys : LoadHit(c, k)
    <3>1. ASSUME NEW b \in Calls, NEW k \in Keys,
                 LoadRefused(b) \/ LoadMiss(b, k) \/ LoadBypassing(b, k)
          PROVE  FALSE
      <4>1. pc' = [pc EXCEPT ![b] = "failed"] \/ pc' = [pc EXCEPT ![b] = "waiting"]
        BY <3>1 DEF LoadRefused, LoadMiss, Shared, LoadBypassing, Called
      <4>2. \A a \in Calls : pc'[a] = pc[a] \/ pc'[a] = "failed" \/ pc'[a] = "waiting"
        <5>1. \A p : \A a \in Calls : \/ [pc EXCEPT ![b] = p][a] = pc[a]
                                       \/ [pc EXCEPT ![b] = p][a] = p
          BY DEF IInv, CallsOK
        <5> QED BY <4>1, <5>1
      <4> QED BY <4>2
    <3>2. ASSUME NEW b \in Calls, NEW k \in Keys, LoadHit(b, k)
          PROVE  b = c
      <4>1. pc' = [pc EXCEPT ![b] = "loaded"]
        BY <3>2 DEF LoadHit, Called
      <4> QED BY <4>1 DEF IInv, CallsOK
    <3>3. ~Settle
      BY DEF Settle, Fetched, Failed, Settled
    <3>4. ASSUME NEW dropped PROVE ~Clear(dropped)
      BY DEF Clear, callVars
    <3>5. ~Tick /\ ~UNCHANGED vars
      BY DEF Tick, vars, callVars
    <3>6. \A f, scope : ~Send(f) /\ ~Turn(f, scope)
      BY DEF Send, Turn, callVars
    <3> QED BY <1>2, <3>1, <3>2, <3>3, <3>4, <3>5, <3>6 DEF Next, Load
  <2>2. got'[c] = cache[k].doc /\ want'[c] = k
    BY <1>2, <2>1, CallChanges DEF LoadHit, IInv
  <2>3. k \in Cached /\ now < cache[k].expiresAt
    BY <2>1 DEF LoadHit, Live, Cached
  <2> QED BY <1>2, <2>2, <2>3 DEF FreshInv
<1> QED BY <1>1, <1>2, FreshNext, Invariance, PTL DEF Spec, ServesFresh
(***************************************************************************)
(* Bounded, and what is evicted.  The Map's order is a strict total order  *)
(* of what is cached, the same as the order of use, and finite: so it has  *)
(* a first key whenever one has to go.                                     *)
(***************************************************************************)
StrictOrder(R, S) ==
  /\ R \subseteq S \X S
  /\ \A i \in S : <<i, i>> \notin R
  /\ \A i, j \in S : i # j => <<i, j>> \in R \/ <<j, i>> \in R
  /\ \A i, j, k \in S : <<i, j>> \in R /\ <<j, k>> \in R => <<i, k>> \in R

CacheInv ==
  /\ IsFiniteSet(Cached)
  /\ Bounded
  /\ StrictOrder(order, Cached)
  /\ recency = order

\* A finite set has a first element: of the subsets without one, none is least.
LEMMA FirstExists ==
  ASSUME NEW S, IsFiniteSet(S), S # {}, NEW R, StrictOrder(R, S)
  PROVE  First(R, S) # {}
<1> DEFINE Least(U) == \E j \in U : \A i \in U : <<i, j>> \notin R
           T == {U \in SUBSET S : U # {} /\ ~Least(U)}
<1>1. ASSUME T # {} PROVE FALSE
  <2>1. T \subseteq FiniteSubsetsOf(S)
    BY FS_Subset DEF FiniteSubsetsOf
  <2>2. PICK U \in T : \A V \in T : <<V, U>> \notin StrictSubsetOrdering(S)
    <3> HIDE DEF T
    <3> QED BY <1>1, <2>1, FS_StrictSubsetOrderingWellFounded, WFMin
  <2>3. PICK x \in U : TRUE
    OBVIOUS
  <2> DEFINE V == {i \in U : <<i, x>> \in R}
  <2>4. V # {} /\ V \subseteq U /\ x \notin V
    BY <2>2, <2>3 DEF StrictOrder
  <2>5. ~Least(V)
    BY <2>2, <2>4 DEF StrictOrder
  <2>6. V \in T
    BY <2>2, <2>4, <2>5
  <2>7. <<V, U>> \in StrictSubsetOrdering(S)
    <3>1. V \in SUBSET S /\ U \in SUBSET S /\ V # U
      BY <2>2, <2>3, <2>4
    <3> HIDE DEF V, T, Least
    <3> QED BY <2>4, <3>1, FS_Subset DEF StrictSubsetOrdering
  <2> QED BY <2>2, <2>6, <2>7
<1>2. Least(S)
  BY <1>1
<1>3. PICK j \in S : \A i \in S : <<i, j>> \notin R
  BY <1>2
<1> QED BY <1>3 DEF First, StrictOrder

LEMMA KeptOrder ==
  ASSUME NEW R, NEW S, NEW D, StrictOrder(R, S)
  PROVE  StrictOrder(Kept(R, D), S \ D)
<1>1. \A i, j \in S : <<i, j>> \in Kept(R, D) <=> <<i, j>> \in R /\ i \notin D /\ j \notin D
  BY DEF Kept
<1>2. Kept(R, D) \subseteq (S \ D) \X (S \ D)
  BY DEF Kept, StrictOrder
<1> HIDE DEF Kept
<1> QED BY <1>1, <1>2 DEF StrictOrder

LEMMA LastOrder ==
  ASSUME NEW k \in Keys, StrictOrder(order, Cached)
  PROVE  /\ StrictOrder(Last(order, k), Cached \cup {k})
         /\ \A i, j \in Cached \cup {k} :
              <<i, j>> \in Last(order, k) <=>
                i # k /\ (j = k \/ <<i, j>> \in order)
<1>1. StrictOrder(Kept(order, {k}), Cached \ {k})
  BY KeptOrder
<1>2. \A i, j \in Cached \cup {k} :
        <<i, j>> \in Last(order, k) <=>
          i # k /\ (j = k \/ <<i, j>> \in order)
  BY DEF Last, Kept, StrictOrder
<1>3. Last(order, k) \subseteq (Cached \cup {k}) \X (Cached \cup {k})
  BY <1>1 DEF Last, StrictOrder
<1> HIDE DEF Last
<1> QED BY <1>2, <1>3 DEF StrictOrder

\* Steps that drop keys, or leave the cache as it is.
LEMMA DropKeeps ==
  ASSUME CacheInv, NEW dropped, Cached' = Cached \ dropped,
         order' = Kept(order, dropped), recency' = Kept(recency, dropped)
  PROVE  CacheInv'
<1>1. IsFiniteSet(Cached') /\ Cardinality(Cached') <= Cardinality(Cached)
  BY FS_Subset DEF CacheInv
<1>2. Cardinality(Cached) \in Nat /\ Cardinality(Cached') \in Nat
  BY <1>1, FS_CardinalityType DEF CacheInv
<1>3. Bounded'
  BY <1>1, <1>2, CacheAssumption DEF CacheInv, Bounded
<1>4. StrictOrder(order', Cached')
  BY KeptOrder DEF CacheInv
<1> QED BY <1>1, <1>3, <1>4 DEF CacheInv

LEMMA SameKeeps ==
  ASSUME CacheInv, UNCHANGED <<cache, order, recency>>
  PROVE  CacheInv'
BY DEF CacheInv, Bounded, Cached

\* A hit moves to the end.
LEMMA HitOrder ==
  ASSUME CacheInv, NEW k \in Keys, Live(k), Refresh(k)
  PROVE  CacheInv'
<1>1. k \in Cached /\ Cached \cup {k} = Cached /\ Cached' = Cached
  BY DEF Live, Cached, Refresh
<1>2. StrictOrder(order', Cached') /\ recency' = order'
  BY <1>1, LastOrder DEF CacheInv, Refresh
<1> QED BY <1>1, <1>2 DEF CacheInv, Bounded

\* What a write evicts: the first, and only when the key is new and the cache full.
LEMMA EvictedFirst ==
  ASSUME CacheInv, NEW k \in Keys
  PROVE  /\ \A j \in Evicted(k) : /\ k \notin Cached /\ j \in Cached
                                  /\ \A i \in Cached \ {j} : <<j, i>> \in order
         /\ IsFiniteSet((Cached \cup {k}) \ Evicted(k))
         /\ Cardinality((Cached \cup {k}) \ Evicted(k)) <= MaxEntries
<1> DEFINE held == Cached \cup {k}
<1>1. /\ IsFiniteSet(held) /\ Cardinality(held) \in Nat /\ MaxEntries \in Nat \ {0}
      /\ Cardinality(Cached) \in Nat /\ Cardinality(Cached) <= MaxEntries
      /\ Cardinality(held) = IF k \in Cached THEN Cardinality(Cached) ELSE Cardinality(Cached) + 1
  BY FS_AddElement, FS_CardinalityType, CacheAssumption DEF CacheInv, Bounded
<1>2. /\ StrictOrder(Last(order, k), held)
      /\ \A i, j \in held : <<i, j>> \in Last(order, k) <=> i # k /\ (j = k \/ <<i, j>> \in order)
  BY LastOrder DEF CacheInv
<1>3. CASE Cardinality(held) <= MaxEntries
  <2>1. ~(Cardinality(held) > MaxEntries)
    BY <1>1, <1>3
  <2>2. Evicted(k) = {}
    BY <2>1, Zenon DEF Evicted
  <2>3. held \ Evicted(k) = held
    BY <2>2
  <2> QED BY <1>1, <1>3, <2>2, <2>3
<1>4. CASE ~(Cardinality(held) <= MaxEntries)
  <2>1. k \notin Cached /\ Evicted(k) = First(Last(order, k), held)
    BY <1>1, <1>4 DEF Evicted
  <2>2. Cached # {}
    <3>1. Cardinality(Cached) # 0
      BY <1>1, <1>4, <2>1
    <3> QED BY <3>1, FS_EmptySet
  <2>3. ASSUME NEW j \in Evicted(k)
        PROVE  j \in Cached /\ \A i \in Cached \ {j} : <<j, i>> \in order
    <3>1. j \in held /\ \A i \in held \ {j} : <<j, i>> \in Last(order, k)
      BY <2>1, <2>3 DEF First
    <3>2. j # k
      BY <1>2, <2>1, <2>2, <3>1
    <3> QED BY <1>2, <2>1, <3>1, <3>2
  <2>4. PICK j \in Evicted(k) : TRUE
    BY <1>1, <1>2, <2>1, FirstExists
  <2>5. j \in held /\ held \ Evicted(k) \in SUBSET (held \ {j})
    BY <2>3, <2>4
  <2>6. IsFiniteSet(held \ {j}) /\ Cardinality(held \ {j}) = Cardinality(held) - 1
    BY <1>1, <2>5, FS_RemoveElement
  <2>7. /\ IsFiniteSet(held \ Evicted(k))
        /\ Cardinality(held \ Evicted(k)) <= Cardinality(held \ {j})
    BY <2>5, <2>6, FS_Subset
  <2>8. Cardinality(held \ Evicted(k)) \in Nat
    BY <2>7, FS_CardinalityType
  <2>9. Cardinality(held \ Evicted(k)) <= MaxEntries
    BY <1>1, <2>1, <2>6, <2>7, <2>8
  <2> QED BY <2>1, <2>3, <2>7, <2>9
<1> QED BY <1>3, <1>4

LEMMA WriteOrder ==
  ASSUME CacheInv, NEW k \in Keys, NEW doc \in Doc, now \in Nat, WriteCache(k, doc)
  PROVE  CacheInv'
<1>1. [doc |-> doc, expiresAt |-> now + TTL] # None
  <2>1. now + TTL \in Nat
    BY CacheAssumption
  <2> QED BY <2>1, CacheAssumption DEF Entry
<1>2. Cached' = (Cached \cup {k}) \ Evicted(k)
  BY <1>1 DEF WriteCache, Cached
<1>3. StrictOrder(order', Cached') /\ recency' = order'
  BY <1>2, LastOrder, KeptOrder DEF CacheInv, WriteCache
<1> QED BY <1>2, <1>3, EvictedFirst DEF CacheInv, Bounded

\* Types.
LEMMA TypeInit == Init => TypeOK
<1> SUFFICES ASSUME Init PROVE TypeOK
  OBVIOUS
<1>1. /\ fetches \in Seq([key : Keys, shared : BOOLEAN, pending : BOOLEAN])
      /\ headers \in Seq([gives : Scopes, sent : Scopes])
  BY EmptySeq DEF Init
<1> QED BY <1>1 DEF Init, TypeOK

\* The document of a fetch.
LEMMA DocumentType ==
  ASSUME TypeOK, NEW f \in 1..Len(fetches)
  PROVE  Document(f) \in Doc /\ fetches[f].key \in Keys
<1>1. fetches[f] \in [key : Keys, shared : BOOLEAN, pending : BOOLEAN]
  <2>1. fetches \in Seq([key : Keys, shared : BOOLEAN, pending : BOOLEAN])
    BY DEF TypeOK
  <2> QED BY <2>1, ElementOfSeq
<1>2. f \in Nat /\ fetches[f].key \in Keys /\ now \in Nat
  BY <1>1 DEF TypeOK
<1> QED BY <1>2 DEF Document, Doc

\* What the headers of the fetches become: a fetch starts with those of its key,
\* and those of a fetch that has settled stay.
HeadersRecord == [gives : Scopes, sent : Scopes]

HeadersStart(k) == headers' = Append(headers, [gives |-> k.scope, sent |-> k.scope])

HeadersChange(f) ==
  /\ fetches[f].pending /\ UNCHANGED <<fetches, cache, got, want>>
  /\ \/ headers' = [headers EXCEPT ![f].sent = headers[f].gives]
     \/ /\ headers[f].gives = fetches[f].key.scope
        /\ \E scope \in Scopes : headers' = [headers EXCEPT ![f].gives = scope]

LEMMA HeadersKinds ==
  ASSUME [Next]_vars
  PROVE  \/ UNCHANGED <<headers, fetches>>
         \/ \E f \in 1..Len(fetches) : \E state, doc : Settled(f, state, doc)
         \/ \E k \in Keys, shared \in BOOLEAN : Fetch(k, shared) /\ HeadersStart(k)
         \/ \E f \in 1..Len(fetches) : HeadersChange(f)
<1>1. ASSUME NEW c \in Calls, NEW k \in Keys, LoadMiss(c, k) \/ LoadBypassing(c, k)
      PROVE  \/ UNCHANGED <<headers, fetches>>
             \/ \E shared \in BOOLEAN : Fetch(k, shared) /\ HeadersStart(k)
  <2>1. UNCHANGED <<headers, fetches>> \/ Fetch(k, TRUE) \/ Fetch(k, FALSE)
    BY <1>1 DEF LoadMiss, Shared, LoadBypassing
  <2>2. \A shared : Fetch(k, shared) => HeadersStart(k)
    BY DEF Fetch, HeadersStart
  <2> QED BY <2>1, <2>2
<1>2. ASSUME NEW c, NEW k, LoadRefused(c) \/ LoadHit(c, k) PROVE UNCHANGED <<headers, fetches>>
  BY <1>2 DEF LoadRefused, LoadHit
<1>3. ASSUME NEW f \in 1..Len(fetches), NEW scope \in Scopes, Send(f) \/ Turn(f, scope)
      PROVE  HeadersChange(f)
  BY <1>3 DEF Send, Turn, Turned, HeadersChange, cacheVars, callVars
<1>4. CASE Settle
  BY <1>4 DEF Settle, Fetched, Failed
<1>5. ASSUME NEW dropped, Clear(dropped) PROVE UNCHANGED <<headers, fetches>>
  BY <1>5 DEF Clear
<1>6. CASE Tick \/ UNCHANGED vars
  BY <1>6 DEF Tick, vars
<1>7. CASE \E f \in 1..Len(fetches) : Send(f) \/ \E scope \in Scopes : Turn(f, scope)
  <2>1. PICK f \in 1..Len(fetches) : Send(f) \/ \E scope \in Scopes : Turn(f, scope)
    BY <1>7
  <2>2. CASE Send(f)
    BY <2>2 DEF Send, HeadersChange, cacheVars, callVars
  <2>3. CASE \E scope \in Scopes : Turn(f, scope)
    BY <1>3, <2>3
  <2> QED BY <2>1, <2>2, <2>3
<1>8. CASE Load
  BY <1>1, <1>2, <1>8 DEF Load
<1> QED BY <1>4, <1>5, <1>6, <1>7, <1>8 DEF Next

\* One per fetch; and what a fetch was sent under is what its key says, or what
\* its headers have turned to.
HeadersInv ==
  /\ headers \in Seq(HeadersRecord) /\ Len(headers) = Len(fetches)
  /\ \A f \in 1..Len(fetches) :
       headers[f].sent \in {fetches[f].key.scope, headers[f].gives}

LEMMA HeadersNext ==
  ASSUME IInv, HeadersInv, [Next]_vars
  PROVE  /\ HeadersInv'
         /\ \A f \in 1..Len(fetches) :
              /\ f \in 1..Len(fetches') /\ fetches'[f].key = fetches[f].key
              /\ ~fetches[f].pending => headers'[f] = headers[f]
<1>0. /\ fetches \in Seq(FetchRecord) /\ headers \in Seq(HeadersRecord)
      /\ Len(fetches) \in Nat /\ Len(headers) = Len(fetches)
      /\ \A f \in 1..Len(fetches) : headers[f].sent \in {fetches[f].key.scope, headers[f].gives}
  BY LenProperties DEF IInv, FetchesOK, HeadersInv
<1>1. CASE UNCHANGED <<headers, fetches>>
  BY <1>1 DEF HeadersInv
<1>2. ASSUME NEW f \in 1..Len(fetches), NEW state, NEW doc, Settled(f, state, doc)
      PROVE  /\ Len(fetches') = Len(fetches) /\ headers' = headers
             /\ \A g \in 1..Len(fetches) : fetches'[g].key = fetches[g].key
  <2> DEFINE settled == [fetches[f] EXCEPT !.pending = FALSE]
  <2>1. fetches[f] \in FetchRecord
    BY <1>0
  <2>2. settled \in FetchRecord /\ settled.key = fetches[f].key
    BY <2>1 DEF FetchRecord
  <2>3. fetches' = [fetches EXCEPT ![f] = settled] /\ headers' = headers
    BY <1>2 DEF Settled
  <2> HIDE DEF settled
  <2>4. /\ Len(fetches') = Len(fetches)
        /\ \A g \in 1..Len(fetches) : fetches'[g] = IF g = f THEN settled ELSE fetches[g]
    BY <1>0, <2>2, <2>3, ExceptSeq
  <2> QED BY <2>2, <2>3, <2>4
<1>3. CASE \E f \in 1..Len(fetches) : \E state, doc : Settled(f, state, doc)
  <2>1. /\ Len(fetches') = Len(fetches) /\ headers' = headers
        /\ \A g \in 1..Len(fetches) : fetches'[g].key = fetches[g].key
    BY <1>2, <1>3
  <2> QED BY <1>0, <2>1 DEF HeadersInv
<1>4. ASSUME NEW k \in Keys, NEW shared \in BOOLEAN, Fetch(k, shared), HeadersStart(k)
      PROVE  /\ HeadersInv'
             /\ \A f \in 1..Len(fetches) :
                  /\ f \in 1..Len(fetches') /\ fetches'[f] = fetches[f]
                  /\ headers'[f] = headers[f]
  <2> DEFINE n == Len(fetches) + 1
             new == [gives |-> k.scope, sent |-> k.scope]
  <2> DEFINE fresh == [key |-> k, shared |-> shared, pending |-> TRUE]
  <2>0. FetchesOK /\ Fetch(k, shared)
    BY <1>4 DEF IInv
  <2>a. /\ Len(fetches') = n /\ fetches'[n] = fresh
        /\ \A f \in 1..Len(fetches) : fetches'[f] = fetches[f]
    BY <2>0, FetchStarts
  <2>1. /\ Len(fetches') = n /\ fetches'[n].key = k
        /\ \A f \in 1..Len(fetches) : fetches'[f] = fetches[f]
    BY <2>a
  <2>2. new \in HeadersRecord /\ new.sent = k.scope
    BY DEF Keys, HeadersRecord
  <2>3. headers' = Append(headers, new)
    BY <1>4 DEF HeadersStart
  <2> HIDE DEF new
  <2>4. /\ headers' \in Seq(HeadersRecord) /\ Len(headers') = n /\ headers'[n] = new
        /\ \A f \in 1..Len(fetches) : headers'[f] = headers[f]
    BY <1>0, <2>2, <2>3, AppendProperties
  <2>5. 1..Len(fetches') = 1..Len(fetches) \cup {n}
    BY <1>0, <2>1
  <2> QED BY <1>0, <2>1, <2>2, <2>4, <2>5 DEF HeadersInv
<1>5. ASSUME NEW f \in 1..Len(fetches), HeadersChange(f)
      PROVE  /\ HeadersInv' /\ fetches' = fetches
             /\ \A g \in 1..Len(fetches) : g # f => headers'[g] = headers[g]
  <2>1. headers[f] \in HeadersRecord
    BY <1>0
  <2>2. ASSUME NEW new \in HeadersRecord, headers' = [headers EXCEPT ![f] = new],
               new.sent \in {fetches[f].key.scope, new.gives}
        PROVE  /\ HeadersInv'
               /\ \A g \in 1..Len(fetches) : g # f => headers'[g] = headers[g]
    <3>1. /\ headers' \in Seq(HeadersRecord) /\ Len(headers') = Len(headers)
          /\ \A g \in 1..Len(headers) : headers'[g] = IF g = f THEN new ELSE headers[g]
      BY <1>0, <2>2, ExceptSeq
    <3>2. fetches' = fetches
      BY <1>5 DEF HeadersChange
    <3> QED BY <1>0, <2>2, <3>1, <3>2 DEF HeadersInv
  <2>3. CASE headers' = [headers EXCEPT ![f].sent = headers[f].gives]
    <3> DEFINE new == [headers[f] EXCEPT !.sent = headers[f].gives]
    <3>1. new \in HeadersRecord /\ new.sent = new.gives /\ headers' = [headers EXCEPT ![f] = new]
      BY <2>1, <2>3 DEF HeadersRecord
    <3> HIDE DEF new
    <3> QED BY <1>5, <2>2, <3>1 DEF HeadersChange
  <2>4. ASSUME NEW scope \in Scopes, headers' = [headers EXCEPT ![f].gives = scope],
               headers[f].gives = fetches[f].key.scope
        PROVE  /\ HeadersInv'
               /\ \A g \in 1..Len(fetches) : g # f => headers'[g] = headers[g]
    <3> DEFINE new == [headers[f] EXCEPT !.gives = scope]
    <3>1. /\ new \in HeadersRecord /\ new.sent = headers[f].sent
          /\ headers' = [headers EXCEPT ![f] = new]
      BY <2>1, <2>4 DEF HeadersRecord
    <3>2. new.sent = fetches[f].key.scope
      BY <1>0, <2>4, <3>1
    <3> HIDE DEF new
    <3> QED BY <2>2, <3>1, <3>2
  <2> QED BY <1>5, <2>3, <2>4 DEF HeadersChange
<1>6. CASE \E f \in 1..Len(fetches) : HeadersChange(f)
  BY <1>0, <1>5, <1>6 DEF HeadersChange
<1>7. CASE \E k \in Keys, shared \in BOOLEAN : Fetch(k, shared) /\ HeadersStart(k)
  BY <1>4, <1>7
<1> QED BY <1>1, <1>3, <1>6, <1>7, HeadersKinds

LEMMA HeadersType ==
  ASSUME IInv, HeadersInv, [Next]_vars
  PROVE  headers' \in Seq([gives : Scopes, sent : Scopes])
BY HeadersNext DEF HeadersInv, HeadersRecord

LEMMA OrderType ==
  ASSUME TypeOK, NEW k \in Keys, NEW D
  PROVE  /\ Kept(order, D) \subseteq Keys \X Keys /\ Kept(recency, D) \subseteq Keys \X Keys
         /\ Last(order, k) \subseteq Keys \X Keys /\ Last(recency, k) \subseteq Keys \X Keys
         /\ Kept(Last(order, k), D) \subseteq Keys \X Keys
         /\ Kept(Last(recency, k), D) \subseteq Keys \X Keys
BY DEF TypeOK, Kept, Last, Cached

LEMMA CalledType ==
  ASSUME TypeOK, NEW c \in Calls, NEW k \in Keys, NEW state \in {"waiting", "loaded"},
         NEW fetch \in Nat, NEW doc \in Doc \cup {None}, Called(c, k, state, fetch, doc)
  PROVE  /\ pc' \in [Calls -> {"idle", "waiting", "loaded", "failed"}]
         /\ want' \in [Calls -> Keys \cup {None}] /\ on' \in [Calls -> Nat]
         /\ got' \in [Calls -> Doc \cup {None}]
BY DEF TypeOK, Called

LEMMA TypeNext == IInv /\ HeadersInv /\ TypeOK /\ [Next]_vars => TypeOK'
<1> SUFFICES ASSUME IInv, HeadersInv, TypeOK, [Next]_vars PROVE TypeOK'
  OBVIOUS
<1>0. /\ fetches' \in Seq([key : Keys, shared : BOOLEAN, pending : BOOLEAN])
      /\ inFlight' \in [Keys -> Nat] /\ Len(fetches) \in Nat
  BY StepKeeps, LenProperties DEF IInv, FetchesOK, FetchRecord
<1>00. headers' \in Seq([gives : Scopes, sent : Scopes])
  BY HeadersType
<1>1. ASSUME NEW c \in Calls, LoadRefused(c) PROVE TypeOK'
  BY <1>0, <1>00, <1>1 DEF LoadRefused, cacheVars, clearVars, TypeOK
<1>2. ASSUME NEW c \in Calls, NEW k \in Keys, LoadHit(c, k) PROVE TypeOK'
  <2>1. cache[k].doc \in Doc
    <3>1. cache[k] \in Entry
      BY <1>2 DEF LoadHit, Live, TypeOK
    <3> QED BY <3>1 DEF Entry
  <2>2. Called(c, k, "loaded", 0, cache[k].doc) /\ Refresh(k) /\ UNCHANGED <<now, clearVars>>
    BY <1>2 DEF LoadHit
  <2> QED BY <1>0, <1>00, <2>1, <2>2, CalledType, OrderType DEF Refresh, clearVars, TypeOK
<1>3. ASSUME NEW c \in Calls, NEW k \in Keys, LoadMiss(c, k) PROVE TypeOK'
  <2>1. PICK fetch \in Nat : Called(c, k, "waiting", fetch, None)
    BY <1>0, <1>00, <1>3 DEF LoadMiss, Shared, TypeOK
  <2>2. /\ cache' \in [Keys -> Entry \cup {None}] /\ UNCHANGED <<now, clearVars>>
        /\ order' = Kept(order, {k}) /\ recency' = Kept(recency, {k})
    BY <1>3 DEF LoadMiss, TypeOK
  <2> QED BY <1>0, <1>00, <2>1, <2>2, CalledType, OrderType DEF clearVars, TypeOK
<1>4. ASSUME NEW c \in Calls, NEW k \in Keys, LoadBypassing(c, k) PROVE TypeOK'
  <2>1. Called(c, k, "waiting", Len(fetches) + 1, None) /\ UNCHANGED <<now, cacheVars, clearVars>>
    BY <1>4 DEF LoadBypassing
  <2>2. /\ pc' \in [Calls -> {"idle", "waiting", "loaded", "failed"}]
        /\ want' \in [Calls -> Keys \cup {None}] /\ on' \in [Calls -> Nat]
        /\ got' \in [Calls -> Doc \cup {None}]
    <3>1. Len(fetches) + 1 \in Nat
      BY <1>0
    <3> HIDE DEF Called
    <3> QED BY <1>4, <2>1, <3>1, CalledType
  <2> QED BY <1>0, <1>00, <2>1, <2>2 DEF cacheVars, clearVars, TypeOK
<1>5. ASSUME NEW f \in 1..Len(fetches), NEW state \in {"loaded", "failed"},
             NEW doc \in Doc \cup {None}, Settled(f, state, doc)
      PROVE  /\ pc' \in [Calls -> {"idle", "waiting", "loaded", "failed"}]
             /\ want' \in [Calls -> Keys \cup {None}] /\ on' \in [Calls -> Nat]
             /\ got' \in [Calls -> Doc \cup {None}] /\ UNCHANGED <<now, old, clears>>
  BY <1>5 DEF Settled, clearVars, TypeOK
<1>6. ASSUME NEW f \in 1..Len(fetches), Failed(f) PROVE TypeOK'
  BY <1>0, <1>00, <1>5, <1>6 DEF Failed, cacheVars, TypeOK
<1>7. ASSUME NEW f \in 1..Len(fetches), Fetched(f) PROVE TypeOK'
  <2> DEFINE k == fetches[f].key
             D == Evicted(k)
  <2>1. Document(f) \in Doc /\ k \in Keys
    BY DocumentType
  <2>2. CASE WriteCache(k, Document(f))
    <3>1. now + TTL \in Nat
      BY CacheAssumption DEF TypeOK
    <3>2. [doc |-> Document(f), expiresAt |-> now + TTL] \in Entry
      BY <2>1, <3>1 DEF Entry
    <3>3. cache' \in [Keys -> Entry \cup {None}]
      BY <2>2, <3>2 DEF WriteCache, TypeOK
    <3>4. order' \subseteq Keys \X Keys /\ recency' \subseteq Keys \X Keys
      BY <2>1, <2>2, OrderType DEF WriteCache
    <3> QED BY <1>0, <1>00, <1>5, <1>7, <2>1, <3>3, <3>4 DEF Fetched, TypeOK
  <2>3. CASE UNCHANGED cacheVars
    BY <1>0, <1>00, <1>5, <1>7, <2>1, <2>3 DEF Fetched, cacheVars, TypeOK
  <2> QED BY <1>7, <2>2, <2>3 DEF Fetched
<1>8. ASSUME NEW dropped, Clear(dropped) PROVE TypeOK'
  <2> DEFINE gone == {k \in Keys : k.location \in dropped}
  <2>1. cache' \in [Keys -> Entry \cup {None}] /\ clears' \in Nat
    BY <1>8 DEF Clear, TypeOK
  <2>2. old' \in [Locations -> SUBSET Nat]
    BY <1>0, <1>00, <1>8 DEF Clear, TypeOK
  <2>3. order' \subseteq Keys \X Keys /\ recency' \subseteq Keys \X Keys
    <3>1. order' = Kept(order, gone) /\ recency' = Kept(recency, gone)
      BY <1>8 DEF Clear
    <3> HIDE DEF gone
    <3> QED BY <3>1 DEF Kept, TypeOK
  <2> QED BY <1>0, <1>00, <1>8, <2>1, <2>2, <2>3 DEF Clear, callVars, TypeOK
<1>9. CASE Tick \/ UNCHANGED vars
  BY <1>0, <1>00, <1>9 DEF Tick, vars, cacheVars, callVars, clearVars, TypeOK
<1>10. ASSUME NEW f, NEW scope, Send(f) \/ Turn(f, scope) PROVE TypeOK'
  BY <1>0, <1>00, <1>10 DEF Send, Turn, cacheVars, callVars, clearVars, TypeOK
<1> QED BY <1>1, <1>2, <1>3, <1>4, <1>6, <1>7, <1>8, <1>9, <1>10 DEF Next, Load, Settle

LEMMA CacheNext == TypeOK /\ CacheInv /\ [Next]_vars => CacheInv'
<1> SUFFICES ASSUME TypeOK, CacheInv, [Next]_vars PROVE CacheInv'
  OBVIOUS
<1>1. ASSUME NEW c \in Calls, NEW k \in Keys,
             LoadRefused(c) \/ LoadHit(c, k) \/ LoadMiss(c, k) \/ LoadBypassing(c, k)
      PROVE  CacheInv'
  <2>1. CASE LoadRefused(c) \/ LoadBypassing(c, k)
    BY <2>1, SameKeeps DEF LoadRefused, LoadBypassing, cacheVars
  <2>2. CASE LoadHit(c, k)
    BY <2>2, HitOrder DEF LoadHit
  <2>3. CASE LoadMiss(c, k)
    <3>1. Cached' = Cached \ {k}
      BY <2>3 DEF LoadMiss, Cached, TypeOK
    <3> QED BY <2>3, <3>1, DropKeeps DEF LoadMiss
  <2> QED BY <1>1, <2>1, <2>2, <2>3
<1>2. ASSUME NEW f \in 1..Len(fetches), Fetched(f) \/ Failed(f) PROVE CacheInv'
  <2>1. CASE UNCHANGED cacheVars
    BY <2>1, SameKeeps DEF cacheVars
  <2>2. CASE WriteCache(fetches[f].key, Document(f))
    BY <2>2, DocumentType, WriteOrder DEF TypeOK
  <2> QED BY <1>2, <2>1, <2>2 DEF Fetched, Failed
<1>3. ASSUME NEW dropped, Clear(dropped) PROVE CacheInv'
  <2> DEFINE gone == {k \in Keys : k.location \in dropped}
  <2>1. /\ Cached' = Cached \ gone
        /\ order' = Kept(order, gone) /\ recency' = Kept(recency, gone)
    BY <1>3 DEF Clear, Cached
  <2> HIDE DEF gone
  <2> QED BY <2>1, DropKeeps
<1>4. CASE Tick \/ UNCHANGED vars
  BY <1>4, SameKeeps DEF Tick, vars, cacheVars
<1>5. ASSUME NEW f, NEW scope, Send(f) \/ Turn(f, scope) PROVE CacheInv'
  BY <1>5, SameKeeps DEF Send, Turn, cacheVars
<1> QED BY <1>1, <1>2, <1>3, <1>4, <1>5 DEF Next, Load, Settle

LEMMA CacheInvariance == Spec => [](IInv /\ HeadersInv /\ TypeOK /\ CacheInv)
<1>1. Init => CacheInv
  <2> SUFFICES ASSUME Init PROVE CacheInv
    OBVIOUS
  <2>1. Cached = {} /\ order = {} /\ recency = {}
    BY DEF Init, Cached
  <2> QED BY <2>1, FS_EmptySet, CacheAssumption DEF CacheInv, Bounded, StrictOrder
<1>2. Init => HeadersInv
  BY EmptySeq DEF Init, HeadersInv
<1>3. IInv /\ HeadersInv /\ [Next]_vars => HeadersInv'
  BY HeadersNext
<1> QED BY <1>1, <1>2, <1>3, InitInv, TypeInit, StepKeeps, TypeNext, CacheNext, PTL DEF Spec

\* A document that is held was brought by a fetch of its key that has settled.
Brought(doc, known) ==
  /\ doc.fetch \in 1..Len(known) /\ ~known[doc.fetch].pending
  /\ known[doc.fetch].key = doc.key

BroughtInv ==
  /\ \A k \in Cached : Brought(cache[k].doc, fetches)
  /\ \A c \in Calls : got[c] # None => Brought(got[c], fetches)

LEMMA BroughtStays ==
  ASSUME IInv, HeadersInv, [Next]_vars, NEW doc, Brought(doc, fetches)
  PROVE  Brought(doc, fetches')
BY SettledStays, HeadersNext DEF Brought

LEMMA BroughtNext ==
  ASSUME IInv, HeadersInv, TypeOK, BroughtInv, [Next]_vars
  PROVE  BroughtInv'
<1>1. ASSUME \A k \in Cached' : k \in Cached /\ cache'[k] = cache[k],
             \A c \in Calls : \/ got'[c] = got[c] \/ got'[c] = None
                              \/ \E k \in Cached : got'[c] = cache[k].doc
      PROVE  BroughtInv'
  BY <1>1, BroughtStays DEF BroughtInv
<1>2. ASSUME UNCHANGED <<cache, got>> PROVE BroughtInv'
  BY <1>1, <1>2 DEF Cached
<1>3. ASSUME NEW c \in Calls, NEW k \in Keys, LoadHit(c, k) PROVE BroughtInv'
  <2>1. k \in Cached /\ cache' = cache
    BY <1>3 DEF LoadHit, Live, Cached, Refresh
  <2>2. \A b \in Calls : got'[b] = got[b] \/ got'[b] = cache[k].doc
    BY <1>3 DEF LoadHit, Called, TypeOK
  <2> QED BY <1>1, <2>1, <2>2 DEF Cached
<1>4. ASSUME NEW c \in Calls, NEW k \in Keys, LoadMiss(c, k) \/ LoadBypassing(c, k)
      PROVE  BroughtInv'
  <2>1. \A j \in Keys : cache'[j] = cache[j] \/ cache'[j] = None
    BY <1>4 DEF LoadMiss, LoadBypassing, cacheVars, TypeOK
  <2>2. \E fetch : Called(c, k, "waiting", fetch, None)
    BY <1>4 DEF LoadMiss, LoadBypassing, Shared
  <2>3. \A b \in Calls : got'[b] = got[b] \/ got'[b] = None
    BY <2>2 DEF Called, TypeOK
  <2> QED BY <1>1, <2>1, <2>3 DEF Cached
<1>5. ASSUME NEW f \in 1..Len(fetches), Failed(f) PROVE BroughtInv'
  <2>1. UNCHANGED cache /\ \A b \in Calls : got'[b] = got[b] \/ got'[b] = None
    BY <1>5 DEF Failed, Settled, cacheVars
  <2> QED BY <1>1, <2>1 DEF Cached
<1>6. ASSUME NEW f \in 1..Len(fetches), Fetched(f) PROVE BroughtInv'
  <2>1. Settled(f, "loaded", Document(f))
    BY <1>6 DEF Fetched
  <2>2. Brought(Document(f), fetches')
    <3> DEFINE settled == [fetches[f] EXCEPT !.pending = FALSE]
    <3>1. fetches \in Seq(FetchRecord)
      BY DEF IInv, FetchesOK
    <3>2. fetches[f] \in FetchRecord
      BY <3>1
    <3>3. settled \in FetchRecord /\ ~settled.pending /\ settled.key = fetches[f].key
      BY <3>2 DEF FetchRecord
    <3>4. fetches' = [fetches EXCEPT ![f] = settled]
      BY <2>1 DEF Settled
    <3> HIDE DEF settled
    <3>5. Len(fetches') = Len(fetches) /\ fetches'[f] = settled
      BY <3>1, <3>3, <3>4, ExceptSeq
    <3>6. Document(f).fetch = f /\ Document(f).key = fetches[f].key
      BY DEF Document
    <3> QED BY <3>3, <3>5, <3>6 DEF Brought
  <2> DEFINE doc == Document(f)
  <2>3. \A b \in Calls : got'[b] = got[b] \/ got'[b] = doc
    BY <2>1 DEF Settled
  <2>4. \A k \in Keys : \/ cache'[k] = None \/ cache'[k] = cache[k]
                        \/ cache'[k].doc = doc
    BY <1>6 DEF Fetched, WriteCache, cacheVars
  <2>5. Brought(doc, fetches')
    BY <2>2
  <2> HIDE DEF doc
  <2>6. \A k \in Cached' : Brought(cache'[k].doc, fetches')
    BY <2>4, <2>5, BroughtStays DEF BroughtInv, Cached
  <2>7. \A b \in Calls : got'[b] # None => Brought(got'[b], fetches')
    BY <2>3, <2>5, BroughtStays DEF BroughtInv
  <2> QED BY <2>6, <2>7 DEF BroughtInv
<1>7. ASSUME NEW dropped, Clear(dropped) PROVE BroughtInv'
  <2>1. /\ got' = got
        /\ \A k \in Keys : cache'[k] = cache[k] \/ cache'[k] = None
    BY <1>7 DEF Clear, callVars
  <2> QED BY <1>1, <2>1 DEF Cached
<1>8. ASSUME NEW f, NEW scope, Send(f) \/ Turn(f, scope) PROVE UNCHANGED <<cache, got>>
  BY <1>8 DEF Send, Turn, cacheVars, callVars
<1>9. ASSUME NEW c, LoadRefused(c) PROVE UNCHANGED <<cache, got>>
  BY <1>9 DEF LoadRefused, cacheVars
<1>10. CASE Tick \/ UNCHANGED vars
  BY <1>2, <1>10 DEF Tick, vars, cacheVars, callVars
<1> QED BY <1>2, <1>3, <1>4, <1>5, <1>6, <1>7, <1>8, <1>9, <1>10 DEF Next, Load, Settle

\* However loads, failures, evictions, expiry and clears mix, a call is only given
\* what was loaded under its own scope and location; and unless the headers of the
\* fetch that brought it changed while it was under way, that was asked for with
\* the credentials of the call that is given it.
THEOREM Isolation == Spec => []Isolated
<1>1. Init => BroughtInv
  BY DEF Init, BroughtInv, Cached
<1>2. ASSUME IInv, HeadersInv, BroughtInv PROVE Isolated
  <2>1. ASSUME NEW c \in Calls, got[c] # None
        PROVE  headers[got[c].fetch].sent = want[c].scope \/ got[c].fetch \in Turned
    <3> DEFINE f == got[c].fetch
    <3>1. /\ f \in 1..Len(fetches) /\ fetches[f].key = got[c].key
          /\ got[c].key = want[c]
      BY <1>2, <2>1 DEF BroughtInv, Brought, IInv, OwnKey, OwnDocument
    <3>2. headers[f].sent \in {want[c].scope, headers[f].gives}
      BY <1>2, <3>1 DEF HeadersInv
    <3> QED BY <3>1, <3>2 DEF Turned
  <2> QED BY <1>2, <2>1 DEF IInv, Isolated, SentAsKeyed
<1> QED BY <1>1, <1>2, BroughtNext, CacheInvariance, PTL DEF Spec

\* Every variable has its type, a key has one shared fetch at a time, and the
\* cache never holds more documents than its cap, however hits, writes, expiry
\* and clears mix (lines 100-102, 160-168), for any calls, keys and cap.
THEOREM BoundedTheorem == Spec => []Inv
<1>1. IInv /\ TypeOK /\ CacheInv => Inv
  BY DEF IInv, CacheInv, Inv
<1> QED BY <1>1, CacheInvariance, PTL

\* What a write evicts while it could still be served was used longest ago: the
\* Map's insertion order is the order of use, through hits, expiry and clears
\* (lines 113-114, 154-156), for any cap.
THEOREM EvictionTheorem == Spec => EvictsOldest
<1>1. ASSUME TypeOK, CacheInv, [Next]_vars,
             NEW k \in Keys, Live(k), cache'[k] = None, clears' = clears
      PROVE  \A j \in Cached \ {k} : <<k, j>> \in recency
  <2>0. cache[k] # None /\ k \in Cached
    BY <1>1 DEF Live, Cached
  <2>1. ASSUME NEW c \in Calls, NEW i \in Keys,
               LoadRefused(c) \/ LoadHit(c, i) \/ LoadMiss(c, i) \/ LoadBypassing(c, i)
        PROVE  FALSE
    <3>1. CASE LoadMiss(c, i)
      <4>1. i # k /\ cache' = [cache EXCEPT ![i] = None]
        BY <1>1, <3>1 DEF LoadMiss
      <4> QED BY <1>1, <2>0, <4>1 DEF TypeOK
    <3> QED BY <1>1, <2>0, <2>1, <3>1
            DEF LoadRefused, LoadHit, Refresh, LoadBypassing, cacheVars
  <2>2. ~\E dropped : Clear(dropped)
    <3>1. ASSUME NEW dropped, Clear(dropped) PROVE FALSE
      BY <1>1, <3>1 DEF Clear, TypeOK
    <3> QED BY <3>1
  <2>3. /\ ~Tick /\ ~UNCHANGED vars
        /\ \A f, scope : ~Send(f) /\ ~Turn(f, scope)
    BY <1>1, <2>0 DEF Tick, Send, Turn, vars, cacheVars
  <2>4. PICK f \in 1..Len(fetches) : Fetched(f) \/ Failed(f)
    BY <1>1, <2>1, <2>2, <2>3 DEF Next, Load, Settle
  <2>5. WriteCache(fetches[f].key, Document(f))
    BY <1>1, <2>0, <2>4 DEF Fetched, Failed, cacheVars
  <2>6. fetches[f].key \in Keys /\ Document(f) \in Doc
    BY <1>1, DocumentType
  <2>7. [doc |-> Document(f), expiresAt |-> now + TTL] # None
    <3>1. now + TTL \in Nat
      BY <1>1, CacheAssumption DEF TypeOK
    <3> QED BY <2>6, <3>1, CacheAssumption DEF Entry
  <2>8. k \in Evicted(fetches[f].key)
    BY <1>1, <2>0, <2>5, <2>7 DEF WriteCache
  <2>9. \A j \in Cached \ {k} : <<k, j>> \in order
    BY <1>1, <2>6, <2>8, EvictedFirst
  <2> QED BY <1>1, <2>9 DEF CacheInv
<1>2. TypeOK /\ CacheInv /\ [Next]_vars =>
        [\A k \in Keys : Live(k) /\ cache'[k] = None /\ clears' = clears =>
           \A j \in Cached \ {k} : <<k, j>> \in recency]_vars
  BY <1>1
<1> QED BY <1>2, CacheInvariance, PTL DEF Spec, EvictsOldest

-----------------------------------------------------------------------------
(***************************************************************************)
(* LintRun.  Every file is linted once, in its place, and under the        *)
(* ruleset of its own directory; a directory's ruleset is loaded no more   *)
(* often than there are runners.                                           *)
(***************************************************************************)

Active == {"reading", "discovering", "linting"}
Rightly(i) == IF given THEN Explicit ELSE RulesetOf(Targets[i])

\* The files below `next` have been handed out, each to one runner; a file that
\* is with no runner has its result.
HandedOut ==
  /\ \A r \in Runners : file[r] < next
  /\ \A r, s \in Runners : file[r] = file[s] /\ file[r] # 0 => r = s
  /\ \A r \in Runners : /\ at[r] \in Active => file[r] # 0
                        /\ at[r] = "returned" => file[r] = 0 /\ next > Len(Targets)
  /\ \A i \in Files : i < next =>
       results[i].file = i \/ \E r \in Runners : file[r] = i
  /\ outcome = "done" => \A r \in Runners : at[r] = "returned"

\* What the cache holds, what a runner lints with, and what it linted with.
Rulesed ==
  /\ \A d \in DOMAIN rulesetCache : rulesetCache[d] = RulesetOf(d)
  /\ \A r \in Runners : /\ given => found[r] = Explicit /\ at[r] # "discovering"
                        /\ at[r] = "linting" => found[r] = Rightly(file[r])
  /\ \A i \in Files : /\ results[i].file \in {0, i}
                      /\ results[i].file # 0 => results[i].ruleset = Rightly(i)

\* The types the argument needs.
Typed ==
  /\ given \in BOOLEAN /\ next \in Nat \ {0}
  /\ file \in [Runners -> Files \cup {0}]
  /\ at \in [Runners -> Active \cup {"returned", "threw"}]
  /\ found \in [Runners -> Dirs \cup {Default, Explicit}]
  /\ rulesetCache = [d \in DOMAIN rulesetCache |-> rulesetCache[d]]
  /\ DOMAIN rulesetCache \subseteq Dirs
  /\ results = [i \in Files |-> results[i]]
  /\ outcome \in {"running", "done", "rejected"}
  /\ loads \in [Dirs -> Nat]

LintIInv == Typed /\ HandedOut /\ Rulesed

\* There is a runner, and no more of them than files.
LEMMA WorkersFacts ==
  /\ Len(Targets) \in Nat /\ Workers \in Nat /\ Workers >= 1
  /\ Len(Targets) >= 1 => Workers <= Len(Targets)
  /\ Len(Targets) = 0 => Workers = 1
<1>1. Len(Targets) \in Nat /\ Concurrency \in Nat /\ (Targets = <<>> <=> Len(Targets) = 0)
  BY LintAssumption, LenProperties, EmptySeq
<1> QED BY <1>1 DEF Workers

\* A file's directory is a directory.
LEMMA DirOfFile == \A i \in Files : Targets[i] \in Dirs
BY DEF Dirs

\* The runners hold the first files.
LEMMA LintInitInv == LintInit => LintIInv
<1> SUFFICES ASSUME LintInit PROVE LintIInv
  OBVIOUS
<1> USE WorkersFacts DEF Runners, Files
<1>1. Typed
  <2>1. given \in BOOLEAN
    BY DEF LintInit
  <2>2. /\ next \in Nat \ {0} /\ file \in [Runners -> Files \cup {0}]
        /\ at \in [Runners -> Active \cup {"returned", "threw"}]
        /\ outcome \in {"running", "done", "rejected"}
    BY DEF LintInit, Started, Throws, Active
  <2> QED BY <2>1, <2>2 DEF LintInit, Typed
<1>2. Rulesed
  BY DEF LintInit, Rulesed, Missing, Active, Started, Throws
<1>3. CASE Started
  <2>1. \A r \in Runners : file[r] = (IF r \in Files THEN r ELSE 0) /\ file[r] < next
    BY <1>3 DEF Started
  <2>2. \A r \in Runners : r \notin Files => Len(Targets) = 0
    OBVIOUS
  <2>3. \A r \in Runners : /\ at[r] \in Active => file[r] # 0
                           /\ at[r] = "returned" => file[r] = 0 /\ next > Len(Targets)
    BY <1>3, <2>1, <2>2 DEF Started, Active
  <2>4. \A i \in Files : i < next => \E r \in Runners : file[r] = i
    BY <1>3, <2>1 DEF Started
  <2>5. HandedOut
    BY <1>3, <2>1, <2>3, <2>4 DEF Started, HandedOut
  <2> QED BY <1>1, <1>2, <2>5 DEF LintIInv
<1>4. CASE Throws
  <2>1. HandedOut
    BY <1>4 DEF Throws, HandedOut, Active
  <2> QED BY <1>1, <1>2, <2>1 DEF LintIInv
<1> QED BY <1>3, <1>4 DEF LintInit

\* A runner that reads its file looks its directory up.
LEMMA ReadKeeps ==
  ASSUME LintIInv, NEW r \in Runners, ReadFile(r)
  PROVE  LintIInv'
<1>1. /\ UNCHANGED <<given, next, file, results, outcome>>
      /\ at[r] = "reading" /\ file[r] \in Files /\ Targets[file[r]] \in Dirs
  BY DirOfFile DEF ReadFile, LintIInv, Typed, HandedOut, Active
<1>2. \/ at' = [at EXCEPT ![r] = "linting"] \/ at' = [at EXCEPT ![r] = "discovering"]
  BY DEF ReadFile, LooksUp, Becomes
<1>3. UNCHANGED rulesetCache
  BY DEF ReadFile, LooksUp
<1>4. /\ loads' \in [Dirs -> Nat]
      /\ found' \in [Runners -> Dirs \cup {Default, Explicit}]
  <2>1. loads' = loads \/ loads' = [loads EXCEPT ![Targets[file[r]]] = @ + 1]
    BY DEF ReadFile, LooksUp
  <2>2. found' = found \/ (/\ Targets[file[r]] \in DOMAIN rulesetCache
                           /\ found' = [found EXCEPT ![r] = rulesetCache[Targets[file[r]]]])
    BY DEF ReadFile, LooksUp, Finds
  <2>3. \A d \in DOMAIN rulesetCache : rulesetCache[d] \in Dirs \cup {Default}
    BY DEF LintIInv, Typed, Rulesed, RulesetOf
  <2> QED BY <1>1, <2>1, <2>2, <2>3 DEF LintIInv, Typed
<1>5. Typed'
  <2>1. at' \in [Runners -> Active \cup {"returned", "threw"}]
    BY <1>2 DEF LintIInv, Typed, Active
  <2>2. given' \in BOOLEAN
    BY <1>1 DEF LintIInv, Typed
  <2> QED BY <1>1, <1>3, <1>4, <2>1, <2>2 DEF LintIInv, Typed
<1>6. HandedOut'
  <2>1. \A s \in Runners : at'[s] = at[s] \/ (s = r /\ at'[s] \in Active)
    BY <1>2 DEF LintIInv, Typed, Active
  <2> QED BY <1>1, <2>1 DEF LintIInv, HandedOut, Active, Files
<1>7. Rulesed'
  <2>1. ASSUME NEW s \in Runners
        PROVE  /\ given' => found'[s] = Explicit /\ at'[s] # "discovering"
               /\ at'[s] = "linting" => found'[s] = Rightly(file[s])
    <3>1. CASE s # r
      BY <1>1, <3>1 DEF ReadFile, LooksUp, Becomes, Finds, LintIInv, Typed, Rulesed, Rightly
    <3>2. CASE s = r /\ given
      BY <1>1, <3>2 DEF ReadFile, LooksUp, Becomes, LintIInv, Typed, Rulesed, Rightly
    <3>3. CASE s = r /\ ~given /\ Targets[file[r]] \in DOMAIN rulesetCache
      <4>1. found'[r] = rulesetCache[Targets[file[r]]]
        BY <3>3 DEF ReadFile, LooksUp, Finds, LintIInv, Typed
      <4> QED BY <1>1, <3>3, <4>1 DEF LintIInv, Rulesed, Rightly
    <3>4. CASE s = r /\ ~given /\ Targets[file[r]] \notin DOMAIN rulesetCache
      <4>1. at'[r] = "discovering"
        BY <3>4 DEF ReadFile, LooksUp, Becomes, LintIInv, Typed
      <4> QED BY <1>1, <3>4, <4>1
    <3> QED BY <3>1, <3>2, <3>3, <3>4
  <2> QED BY <1>1, <1>3, <2>1 DEF LintIInv, Rulesed, Rightly
<1> QED BY <1>5, <1>6, <1>7 DEF LintIInv

\* What it discovers becomes the entry of its directory, whoever wrote it before.
LEMMA DiscoverKeeps ==
  ASSUME LintIInv, NEW r \in Runners, Discovers(r)
  PROVE  LintIInv'
<1> DEFINE dir == Targets[file[r]]
<1>1. /\ UNCHANGED <<given, next, file, results, outcome, loads>>
      /\ at[r] = "discovering" /\ file[r] \in Files /\ dir \in Dirs
  BY DirOfFile DEF Discovers, LintIInv, Typed, HandedOut, Active
<1>2. /\ at' = [at EXCEPT ![r] = "linting"]
      /\ found' = [found EXCEPT ![r] = RulesetOf(dir)]
      /\ rulesetCache' = [d \in DOMAIN rulesetCache \cup {dir} |->
                            IF d = dir THEN RulesetOf(dir) ELSE rulesetCache[d]]
  BY DEF Discovers, Becomes, Finds
<1>3. RulesetOf(dir) \in Dirs \cup {Default} /\ ~given
  BY <1>1 DEF RulesetOf, LintIInv, Rulesed
<1> HIDE DEF dir
<1>4. Typed'
  <2>1. at' \in [Runners -> Active \cup {"returned", "threw"}]
    BY <1>2 DEF LintIInv, Typed, Active
  <2>2. given' \in BOOLEAN
    BY <1>1 DEF LintIInv, Typed
  <2>3. rulesetCache' = [d \in DOMAIN rulesetCache' |-> rulesetCache'[d]] /\ DOMAIN rulesetCache' \subseteq Dirs
    BY <1>1, <1>2 DEF LintIInv, Typed
  <2>4. found' \in [Runners -> Dirs \cup {Default, Explicit}]
    BY <1>2, <1>3 DEF LintIInv, Typed
  <2> QED BY <1>1, <2>1, <2>2, <2>3, <2>4 DEF LintIInv, Typed
<1>5. HandedOut'
  <2>1. \A s \in Runners : at'[s] = at[s] \/ (s = r /\ at'[s] \in Active)
    BY <1>2 DEF LintIInv, Typed, Active
  <2> QED BY <1>1, <2>1 DEF LintIInv, HandedOut, Active, Files
<1>6. Rulesed'
  <2>1. \A d \in DOMAIN rulesetCache' : rulesetCache'[d] = RulesetOf(d)
    BY <1>2 DEF LintIInv, Rulesed
  <2>2. ASSUME NEW s \in Runners
        PROVE  /\ given' => found'[s] = Explicit /\ at'[s] # "discovering"
               /\ at'[s] = "linting" => found'[s] = Rightly(file[s])
    <3>1. CASE s # r
      BY <1>1, <1>2, <3>1 DEF LintIInv, Typed, Rulesed, Rightly
    <3>2. CASE s = r
      BY <1>1, <1>2, <1>3, <3>2 DEF LintIInv, Typed, Rightly, dir
    <3> QED BY <3>1, <3>2
  <2> QED BY <1>1, <2>1, <2>2 DEF LintIInv, Rulesed, Rightly
<1> QED BY <1>4, <1>5, <1>6 DEF LintIInv

\* A result is kept, and the next file taken, in one step.
LEMMA LintKeeps ==
  ASSUME LintIInv, NEW r \in Runners, Lints(r)
  PROVE  LintIInv'
<1>0. Len(Targets) \in Nat /\ next \in Nat \ {0}
  BY WorkersFacts DEF LintIInv, Typed
<1>1. /\ UNCHANGED <<given, found, rulesetCache, outcome, loads>>
      /\ at[r] = "linting" /\ file[r] \in Files
  BY DEF Lints, LintIInv, Typed, HandedOut, Active
<1>2. /\ results' = [results EXCEPT ![file[r]] = Linted(r)]
      /\ next' = next + 1
      /\ file' = [file EXCEPT ![r] = IF next \in Files THEN next ELSE 0]
      /\ at' = [at EXCEPT ![r] = IF next \in Files THEN "reading" ELSE "returned"]
  BY DEF Lints, Keeps, Takes, Becomes
<1>3. Linted(r).file = file[r] /\ Linted(r).ruleset = Rightly(file[r])
  BY <1>1 DEF Linted, LintIInv, Rulesed
<1>4. \A i \in Files : results'[i] = IF i = file[r] THEN Linted(r) ELSE results[i]
  BY <1>1, <1>2 DEF LintIInv, Typed
<1>5. Typed'
  <2>1. given' \in BOOLEAN
    BY <1>1 DEF LintIInv, Typed
  <2>2. /\ at' \in [Runners -> Active \cup {"returned", "threw"}]
        /\ file' \in [Runners -> Files \cup {0}]
    BY <1>2 DEF LintIInv, Typed, Active
  <2>3. results' = [i \in Files |-> results'[i]]
    BY <1>2 DEF LintIInv, Typed
  <2> QED BY <1>0, <1>1, <1>2, <2>1, <2>2, <2>3 DEF LintIInv, Typed
<1>6. HandedOut'
  <2>1. \A s \in Runners : s # r => file'[s] = file[s] /\ at'[s] = at[s]
    BY <1>2 DEF LintIInv, Typed
  <2>2. /\ file'[r] = (IF next \in Files THEN next ELSE 0)
        /\ at'[r] = (IF next \in Files THEN "reading" ELSE "returned")
    BY <1>2 DEF LintIInv, Typed
  <2>3. \A s \in Runners : file[s] \in Nat /\ file[s] < next
    BY DEF LintIInv, Typed, HandedOut, Files
  <2>4. \A s \in Runners : file'[s] < next'
    BY <1>0, <1>2, <2>1, <2>2, <2>3
  <2>5. \A s, t \in Runners : file'[s] = file'[t] /\ file'[s] # 0 => s = t
    BY <1>0, <2>1, <2>2, <2>3 DEF LintIInv, HandedOut
  <2>6. \A s \in Runners : /\ at'[s] \in Active => file'[s] # 0
                           /\ at'[s] = "returned" => file'[s] = 0 /\ next' > Len(Targets)
    BY <1>0, <1>2, <2>1, <2>2 DEF LintIInv, HandedOut, Active, Files
  <2>7. ASSUME NEW i \in Files, i < next'
        PROVE  results'[i].file = i \/ \E s \in Runners : file'[s] = i
    <3>1. CASE i = file[r]
      BY <1>3, <1>4, <3>1
    <3>2. CASE i = next
      BY <2>2, <3>2
    <3>3. CASE i # file[r] /\ i < next
      BY <1>4, <2>1, <3>3 DEF LintIInv, HandedOut
    <3> QED BY <1>0, <1>2, <2>7, <3>1, <3>2, <3>3 DEF Files
  <2>8. outcome' # "done"
    BY <1>1 DEF LintIInv, HandedOut
  <2> QED BY <2>4, <2>5, <2>6, <2>7, <2>8 DEF HandedOut
<1>7. Rulesed'
  <2>1. \A s \in Runners : at'[s] = "linting" => s # r /\ file'[s] = file[s] /\ at[s] = "linting"
    BY <1>2 DEF LintIInv, Typed
  <2>2. \A s \in Runners : at'[s] = "discovering" => at[s] = "discovering"
    BY <1>2 DEF LintIInv, Typed
  <2>3. \A i \in Files : /\ results'[i].file \in {0, i}
                         /\ results'[i].file # 0 => results'[i].ruleset = Rightly(i)
    BY <1>3, <1>4 DEF LintIInv, Rulesed
  <2> QED BY <1>1, <2>1, <2>2, <2>3 DEF LintIInv, Rulesed, Rightly
<1> QED BY <1>5, <1>6, <1>7 DEF LintIInv

\* A runner that throws keeps its file, and no other runner gets it.
LEMMA FailKeeps ==
  ASSUME LintIInv, NEW r \in Runners, Fails(r)
  PROVE  LintIInv'
<1>1. /\ UNCHANGED <<given, next, file, found, rulesetCache, results, loads>>
      /\ at' = [at EXCEPT ![r] = "threw"] /\ at[r] \in Active
      /\ outcome' \in {outcome, "rejected"}
  BY DEF Fails, Becomes, Active
<1>2. outcome # "done"
  BY <1>1 DEF LintIInv, HandedOut, Active
<1>3. \A s \in Runners : at'[s] \in {at[s], "threw"}
  BY <1>1 DEF LintIInv, Typed
<1>4. Typed'
  <2>1. given' \in BOOLEAN
    BY <1>1 DEF LintIInv, Typed
  <2> QED BY <1>1, <2>1 DEF LintIInv, Typed
<1>5. HandedOut'
  BY <1>1, <1>2, <1>3 DEF LintIInv, HandedOut, Active
<1>6. Rulesed'
  BY <1>1, <1>3 DEF LintIInv, Rulesed, Rightly
<1> QED BY <1>4, <1>5, <1>6 DEF LintIInv

\* Every step keeps the invariant.
LEMMA NextInv == LintIInv /\ [LintNext]_lintVars => LintIInv'
<1> SUFFICES ASSUME LintIInv, [LintNext]_lintVars PROVE LintIInv'
  OBVIOUS
<1>1. ASSUME NEW r \in Runners, ReadFile(r) PROVE LintIInv'
  BY <1>1, ReadKeeps
<1>2. ASSUME NEW r \in Runners, Discovers(r) PROVE LintIInv'
  BY <1>2, DiscoverKeeps
<1>3. ASSUME NEW r \in Runners, Lints(r) PROVE LintIInv'
  BY <1>3, LintKeeps
<1>4. ASSUME NEW r \in Runners, Fails(r) PROVE LintIInv'
  BY <1>4, FailKeeps
<1>5. CASE AllReturned \/ UNCHANGED lintVars
  <2>1. /\ UNCHANGED <<given, next, file, at, found, rulesetCache, results, loads>>
        /\ outcome' = "done" => outcome = "done" \/ \A r \in Runners : at[r] = "returned"
        /\ outcome' \in {outcome, "done"}
    BY <1>5 DEF AllReturned, lintVars
  <2>2. given' \in BOOLEAN
    BY <2>1 DEF LintIInv, Typed
  <2> QED BY <2>1, <2>2 DEF LintIInv, Typed, HandedOut, Rulesed, Rightly
<1> QED BY <1>1, <1>2, <1>3, <1>4, <1>5 DEF LintNext, RunnerStep

\* The inductive invariant holds of every behaviour.
LEMMA LintInvariance == LintSpec => []LintIInv
BY LintInitInv, NextInv, PTL DEF LintSpec

\* Every variable has its type, and no two runners are ever at the same file
\* (lines 104-110 of run.ts: `next++` is read and moved on in one step).
THEOREM TypeCorrect == LintSpec => []LintTypeOK
<1>1. LintIInv => LintTypeOK
  <2> SUFFICES ASSUME LintIInv PROVE LintTypeOK
    OBVIOUS
  <2>1. given \in BOOLEAN
    BY DEF LintIInv, Typed
  <2>2. \A i \in Files : results[i].file \in Files \cup {0}
    BY DEF LintIInv, Rulesed
  <2> QED BY <2>1, <2>2 DEF LintIInv, Typed, HandedOut, LintTypeOK, Active
<1> QED BY <1>1, LintInvariance, PTL

\* However the runners interleave, a result is the one of its own file, and a run
\* that resolves has linted them all (lines 98-114 of run.ts).
THEOREM OrderTheorem == LintSpec => []InOrder
<1>1. LintIInv => InOrder
  <2> SUFFICES ASSUME LintIInv PROVE InOrder
    OBVIOUS
  <2>1. \A i \in Files : results[i].file \in {0, i}
    BY DEF LintIInv, Rulesed
  <2>2. ASSUME outcome = "done", NEW i \in Files
        PROVE  results[i].file = i
    <3>1. \A r \in Runners : file[r] = 0
      BY <2>2 DEF LintIInv, HandedOut
    <3>2. 1 \in Runners
      BY WorkersFacts DEF Runners
    <3>3. i < next /\ i # 0
      BY <2>2, <3>2, WorkersFacts DEF LintIInv, Typed, HandedOut, Files
    <3> QED BY <3>1, <3>3 DEF LintIInv, HandedOut
  <2> QED BY <2>1, <2>2 DEF InOrder
<1> QED BY <1>1, LintInvariance, PTL

\* A result was linted under the ruleset of its own directory, whichever runner
\* cached it, and whatever was written to the cache between the lookup and the
\* load (lines 314-322 of run.ts).
THEOREM RulesetTheorem == LintSpec => []OwnRuleset
<1>1. LintIInv => OwnRuleset
  BY DEF LintIInv, Rulesed, Rightly, OwnRuleset, Files
<1> QED BY <1>1, LintInvariance, PTL

(***************************************************************************)
(* How often a directory is loaded.  Until its ruleset is cached, each     *)
(* runner that has looked for it is still at it or has thrown; once it is  *)
(* cached, nobody looks for it again.                                      *)
(***************************************************************************)
Loaders(d) ==
  {r \in Runners : at[r] = "threw" \/ (at[r] = "discovering" /\ Targets[file[r]] = d)}

LoadsInv ==
  \A d \in Dirs :
    /\ given => loads[d] = 0
    /\ loads[d] <= Workers
    /\ d \notin DOMAIN rulesetCache => loads[d] <= Cardinality(Loaders(d))

LEMMA RunnersFinite == IsFiniteSet(Runners) /\ Cardinality(Runners) = Workers
<1>1. 1 \in Int /\ Workers \in Int /\ Workers >= 1
  BY WorkersFacts
<1> QED BY <1>1, FS_Interval DEF Runners

LEMMA LoadersFinite ==
  ASSUME NEW d \in Dirs
  PROVE  /\ IsFiniteSet(Loaders(d)) /\ Cardinality(Loaders(d)) \in Nat
         /\ Cardinality(Loaders(d)) <= Workers
<1>1. Loaders(d) \in SUBSET Runners
  BY DEF Loaders
<1> QED BY <1>1, RunnersFinite, FS_Subset, FS_CardinalityType

\* A directory that keeps its loaders, or gains some, keeps the bound.
LEMMA LoadersGrow ==
  ASSUME NEW d \in Dirs, Loaders(d) \subseteq Loaders(d)'
  PROVE  Cardinality(Loaders(d)) <= Cardinality(Loaders(d)')
<1>1. IsFiniteSet(Loaders(d)')
  <2>1. Loaders(d)' \in SUBSET Runners
    BY DEF Loaders
  <2> QED BY <2>1, RunnersFinite, FS_Subset
<1> QED BY <1>1, FS_Subset

\* Steps that look nothing up lose no loader of a directory that is not cached.
LEMMA LoadsKept ==
  ASSUME LintIInv, LoadsInv, UNCHANGED <<given, loads>>,
         DOMAIN rulesetCache \subseteq DOMAIN rulesetCache',
         \A d \in Dirs \ DOMAIN rulesetCache' : Loaders(d) \subseteq Loaders(d)'
  PROVE  LoadsInv'
<1> SUFFICES ASSUME NEW d \in Dirs
             PROVE  /\ given => loads[d] = 0
                    /\ loads[d] <= Workers
                    /\ d \notin DOMAIN rulesetCache' => loads[d] <= Cardinality(Loaders(d)')
  BY DEF LoadsInv
<1>1. loads[d] \in Nat
  BY DEF LintIInv, Typed
<1>2. ASSUME d \notin DOMAIN rulesetCache'
      PROVE  loads[d] <= Cardinality(Loaders(d)')
  <2>1. Loaders(d) \subseteq Loaders(d)' /\ loads[d] <= Cardinality(Loaders(d))
    BY <1>2 DEF LoadsInv
  <2>2. Cardinality(Loaders(d)) <= Cardinality(Loaders(d)')
    BY <2>1, LoadersGrow
  <2>3. Cardinality(Loaders(d)) \in Nat /\ Cardinality(Loaders(d)') \in Nat
    <3>1. Loaders(d)' \in SUBSET Runners
      BY DEF Loaders
    <3> QED BY <3>1, LoadersFinite, RunnersFinite, FS_Subset, FS_CardinalityType
  <2> QED BY <1>1, <2>1, <2>2, <2>3
<1> QED BY <1>2 DEF LoadsInv

\* A runner that looks its directory up and does not find it is one loader more.
LEMMA LoadsRead ==
  ASSUME LintIInv, LoadsInv, NEW r \in Runners, ReadFile(r)
  PROVE  LoadsInv'
<1> DEFINE dir == Targets[file[r]]
<1>1. /\ UNCHANGED <<given, next, file, rulesetCache>> /\ at[r] = "reading"
      /\ dir \in Dirs
  BY DirOfFile DEF ReadFile, LooksUp, LintIInv, Typed, HandedOut, Active
<1>2. CASE loads' = loads
  <2>1. \A s \in Runners : at'[s] = at[s] \/ s = r
    BY DEF ReadFile, LooksUp, Becomes, LintIInv, Typed
  <2>2. \A d \in Dirs : Loaders(d) \subseteq Loaders(d)'
    BY <1>1, <2>1 DEF Loaders
  <2> QED BY <1>1, <1>2, <2>2, LoadsKept
<1>3. CASE loads' # loads
  <2>1. /\ ~given /\ dir \notin DOMAIN rulesetCache
        /\ at' = [at EXCEPT ![r] = "discovering"]
        /\ loads' = [loads EXCEPT ![dir] = @ + 1]
    BY <1>3 DEF ReadFile, LooksUp, Becomes
  <2>2. Loaders(dir)' = Loaders(dir) \cup {r} /\ r \notin Loaders(dir)
    BY <1>1, <2>1 DEF Loaders, LintIInv, Typed
  <2>3. Cardinality(Loaders(dir)') = Cardinality(Loaders(dir)) + 1
    BY <1>1, <2>2, LoadersFinite, FS_AddElement
  <2>4. Cardinality(Loaders(dir)') <= Workers
    <3>1. Loaders(dir)' \in SUBSET Runners
      BY DEF Loaders
    <3> QED BY <3>1, RunnersFinite, FS_Subset
  <2>5. /\ loads[dir] \in Nat /\ Cardinality(Loaders(dir)) \in Nat /\ Workers \in Nat
        /\ loads[dir] <= Cardinality(Loaders(dir))
    BY <1>1, <2>1, LoadersFinite, WorkersFacts DEF LintIInv, Typed, LoadsInv
  <2>6. ASSUME NEW d \in Dirs, d # dir PROVE Loaders(d)' = Loaders(d)
    BY <1>1, <2>1, <2>6 DEF Loaders, LintIInv, Typed
  <2> SUFFICES ASSUME NEW d \in Dirs
               PROVE  /\ given' => loads'[d] = 0
                      /\ loads'[d] <= Workers
                      /\ d \notin DOMAIN rulesetCache' => loads'[d] <= Cardinality(Loaders(d)')
    BY DEF LoadsInv
  <2>7. CASE d = dir
    BY <1>1, <2>1, <2>3, <2>4, <2>5, <2>7 DEF LintIInv, Typed
  <2>8. CASE d # dir
    BY <1>1, <2>1, <2>6, <2>8 DEF LoadsInv, LintIInv, Typed
  <2> QED BY <2>7, <2>8
<1> QED BY <1>2, <1>3

LEMMA LoadsNext == LintIInv /\ LoadsInv /\ [LintNext]_lintVars => LoadsInv'
<1> SUFFICES ASSUME LintIInv, LoadsInv, [LintNext]_lintVars PROVE LoadsInv'
  OBVIOUS
<1>1. ASSUME NEW r \in Runners, ReadFile(r) PROVE LoadsInv'
  BY <1>1, LoadsRead
<1>2. ASSUME NEW r \in Runners, Discovers(r) PROVE LoadsInv'
  <2>1. /\ UNCHANGED <<given, loads, file>> /\ at' = [at EXCEPT ![r] = "linting"]
        /\ DOMAIN rulesetCache' = DOMAIN rulesetCache \cup {Targets[file[r]]} /\ at[r] = "discovering"
    BY <1>2 DEF Discovers, Becomes
  <2>2. \A d \in Dirs \ DOMAIN rulesetCache' : Loaders(d) \subseteq Loaders(d)'
    BY <2>1 DEF Loaders, LintIInv, Typed
  <2> QED BY <2>1, <2>2, LoadsKept
<1>3. ASSUME NEW r \in Runners, Lints(r) PROVE LoadsInv'
  <2>1. /\ UNCHANGED <<given, loads, rulesetCache>> /\ at[r] = "linting"
        /\ \A s \in Runners \ {r} : at'[s] = at[s] /\ file'[s] = file[s]
    BY <1>3 DEF Lints, Takes, Becomes, LintIInv, Typed
  <2>2. \A d \in Dirs : Loaders(d) \subseteq Loaders(d)'
    BY <2>1 DEF Loaders
  <2> QED BY <2>1, <2>2, LoadsKept
<1>4. ASSUME NEW r \in Runners, Fails(r) PROVE LoadsInv'
  <2>1. /\ UNCHANGED <<given, loads, rulesetCache, file>>
        /\ \A s \in Runners : at'[s] = at[s] \/ at'[s] = "threw"
    BY <1>4 DEF Fails, Becomes, LintIInv, Typed
  <2>2. \A d \in Dirs : Loaders(d) \subseteq Loaders(d)'
    BY <2>1 DEF Loaders
  <2> QED BY <2>1, <2>2, LoadsKept
<1>5. CASE AllReturned \/ UNCHANGED lintVars
  <2>1. UNCHANGED <<given, loads, rulesetCache, file, at>>
    BY <1>5 DEF AllReturned, lintVars
  <2>2. \A d \in Dirs : Loaders(d) \subseteq Loaders(d)'
    BY <2>1 DEF Loaders
  <2> QED BY <2>1, <2>2, LoadsKept
<1> QED BY <1>1, <1>2, <1>3, <1>4, <1>5 DEF LintNext, RunnerStep

\* No directory is loaded more often than there are runners, however many files
\* it has, whoever fails, and not at all under --ruleset (lines 307-322 of
\* run.ts), for any files and any concurrency.
THEOREM LoadsTheorem == LintSpec => []LoadsShared
<1>1. LintInit => LoadsInv
  <2> SUFFICES ASSUME LintInit PROVE LoadsInv
    OBVIOUS
  <2>1. \A d \in Dirs : loads[d] = 0
    BY DEF LintInit
  <2> QED BY <2>1, LoadersFinite, WorkersFacts DEF LoadsInv
<1>2. LoadsInv => LoadsShared
  BY DEF LoadsInv, LoadsShared
<1> QED BY <1>1, <1>2, LoadsNext, LintInvariance, PTL DEF LintSpec
=============================================================================
