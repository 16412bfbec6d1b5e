# mjst: models and proofs

TLA+ models of the concurrent parts of [mjst](../src), checked with TLC and,
where TLAPS reaches, proved for every value of the constants. mjst is a
TypeScript monorepo around JSON Schema and OpenAPI. Most of it is pure text and
data transformation (validator generators, parsers, rules). What keeps state
across `await`s, callbacks and timers is in `packages/api` (client sessions,
realtime channels, the request pipeline, the Node adapter, the development
server), in the remote document cache of `packages/resolve-refs` and in the lint
run of `packages/cli`. Those are the parts modelled here.

All of the code runs on one JavaScript thread: a function runs to its next
`await` without interruption, and what can go wrong is what happens *between*
two such stretches. So an action is one stretch between two awaits, and the
storage, the network, timers and the server behind it are actions that may
happen at any moment in between. Where the order of microtasks matters (what runs
before the next event of the loop) the guard is called `MicrotasksDone`, or the
actions are split the way the promises split them.

## Inventory

| Part | State | Operations | Talks to | What is hard | What makes it correct |
|---|---|---|---|---|---|
| `api/create-message-queue` | buffer, parked consumers, `ended`, `failure` | push, end, next, return | producers (socket events), `for await` consumers | order of push and next; a close racing the last message; several parked consumers | consumer *k* gets value *k* or the way the stream ended; an answer is final |
| `api/create-bearer-session` | mirror of the token, first-read guard, renewal guard | fetch, token, set, clear | token storage, server, `refresh`, `onExpired` | every operation awaits; replies arrive late; storage fails | the mirror is the newest write; one renewal; replays under the new token |
| `api/create-token-refresh` | token, refresh in flight, generation, timer | headers, invalidate, dispose, timer | `options.refresh`, clock, `setTimeout` | expiry, window, ceiling of `setTimeout`, invalidation mid-flight | one refresh; no resurrected token; timer follows the token |
| `api/create-refresh-fetch` | refresh in flight | fetch | server, cookie jar | late 401 | a shared refresh, one replay under its cookie |
| `api/connect-realtime` | transport being tried, queue, deadline | connect, close, abort | WebTransport, WebSocket, abort signal | deadline and abort against a late connect | no transport left open; messages in order; consumers released |
| `api/message-channel`, `bind-messages`, `connect-messages` | two queues at each end of a socket | accept, end, close | sockets, realtime connection | close racing the pump; throwing hooks | valid messages in order; violations close; a close reaches both ends |
| `api/handle-request`, `to-fetch-handler`, `with-timeout` | one request | gates, guards, parse, validate, handle, hooks | app callbacks | order and error paths, timeouts | deny by default, declared replies, one answer, every answer decorated |
| `api/to-node-handler`, `wait-for-drain` | one exchange: body, signal, response | read, pump, drain | Node requests and responses, web streams | back-pressure, disconnect, several readers of one body | no short reply looks whole; source cancelled; adapter ends |
| `api/dev/create-hot-api`, `watch-paths` | current build, run in progress, follow-up, pending files, debounce | reload, close, file events | `load`, file system, two app callbacks | calls arriving mid-build, failures, promise order | callers see their changes; no edit lost; newest build serves |
| `resolve-refs` remote documents | cache, loads in flight | loadDoc, clear | HTTP | single flight across calls, expiry, eviction, clear mid-flight | no document of another key or other credentials; bounded; fresh after clear |
| `cli/lint/run` | next index, results, ruleset cache | lint of several files | file system, rule engine | bounded concurrency over a cache | results in input order; the file's own ruleset |
| `api/dev/import-fresh` | process-wide generation and root | importFresh, loader hook | module loader | read after await | each import gets its own generation |
| `api/create-rate-limit` | windows by key | hit, trim | clock | the limit of the map | never more than the limit in a window |
| `api/sse`, `stream-multipart`, `realtime-framing` | stream position | pull, push, write | web streams | chunk boundaries | frames survive any chunking |
| `api` routing, parsing, other plugins and clients, compiled routes | none, or per request | | | | pure |
| `resolve-refs` in documents, `helpers`, `asyncapi`, `adapters` | none | resolve, convert | | cycles | pure |
| `lint` | per document | lint, fix | | overlapping fixes | pure |
| `validation`, `runtime-validators`, `generate-*`, `yaml` | none | generate, validate, parse | | recursion over schemas | pure |

`PROJECT.json` lists every part with its status, and under `hazards` every place
of this code that is hard to test, with the properties that watch it.

How they compose: `MessageLink` puts two instances of `MessageChannel` at the ends
of a wire; `MessageChannel` takes its two queues by their promise, `MessageStream`;
`MessageQueue` implements that promise (`StreamSpec`, checked and proved), and
`RealtimeConnection` embeds `MessageQueue` itself. `SharedFlight` is the promise of a
single-flight operation, implemented by `TokenRefresh` and `RefreshFetch`
(`FlightSpec` in each, checked and proved).

Three proof modules hold the proofs of two components each, which extend both:
`ServerProofs` (`RequestPipeline`, `NodeHandler`), `ConnectionProofs` (`MessageLink`,
`RealtimeConnection`, which share the errors of `Failures`) and `CacheProofs`
(`RemoteCache`, `LintRun`). So that the two can stand side by side, the second
component of each pair has its own prefix on what every module names alike (`NodeInit`,
`RealtimeInit`, `LintInit` and so on), and what would clash is named for its side
(`apiReply`, `cliSent`, `rulesetCache`).

## Modules

### MessageQueue, MessageStream, MessageQueueProofs

`MessageQueue` is `create-message-queue.ts` operation by operation. A call of
`next()` returns a promise; `answers[k]` is what the promise of the k-th call
holds, `Pending` while that call is parked. `buffered`, `waiting`, `failure` and
`ended` are the variables of the code; `sent` is a history of the values
accepted and not dropped by `return()`. `Push`, `End`, `Ask` (next) and `Return`
run to completion as they do in JavaScript.

`MessageStream` is the promise without the mechanism: no buffer, no parked
calls; the k-th question is answered with the k-th message and, past the last
one, with the end.

`IInv` is the inductive invariant of the proofs and also an invariant of the run:
`TypeOK`, `AnswersOwed`, and two conjuncts that make it inductive, `Tails` (what
is buffered is exactly the undelivered tail of `sent`, the parked calls exactly
the unanswered tail of `answers`, so at most one is non-empty) and
`FailureOnlyAtEnd`. Without `Tails`, a push to a parked consumer could be handed to
the wrong call. The refinement proof maps `Push` to `Send`, `Ask` to `Question`,
`End` to `Close` and `Return` to `Abandon`.

### BearerSession, BearerSessionProofs

`create-bearer-session.ts`. `cached`, `loaded`, `loading` and `inFlight` are the
code's variables (`inFlight` distinguishes `refresh()` pending from its token
being written). The storage is at a queue `ops` of operations; `by` names who awaits
one, and `Persist` runs that caller's continuation. `BearerTokenStorage` promises no
order, so whether this storage completes its operations in the order they were issued
(`inOrder`) is chosen in the initial state. It may reject any of them, and `get()` may
throw before it returns a promise. `newest` is a history of the newest write and of what
the storage made of it. A request `r` goes through `pc[r]`: reading, sent,
answered (the server has decided, the reply is on its way), capturing, judging,
renewing, gone, surrendering, done. The server (`Answer`) is external: it accepts or
refuses any request, and any reply, a refusal too, may carry a new token.

Proved: `TypeOK`; `MirrorLeads` (the mirror is the newest write, whether the storage has
taken it, refused it or not answered yet; and a storage that keeps the order holds it
once it has taken it, whichever other operations it refused), by an invariant that the
newest write is the last operation on its way while it is pending (`NewestIsLast`). The
one exception is the code's own: a write issued while the very first read is pending is
overwritten by that read, until the next write (`overlapped`);
`StaysSignedOut`, by an invariant that says what is still to write the mirror when a
sign-out happened in a quiet session: nothing; and `ReplayUnderRenewal`, by an invariant
that follows the renewal's own write through `ops`: at most one, only while `inFlight` is
"writing", with the token the waiting requests will replay. It assumes that no request is
called "app" or "refresh", the two other values of `by`.

### TokenRefresh, SharedFlight, TokenRefreshProofs

`create-token-refresh.ts`. Refreshes are numbered in the order they start and a
token is known by the number of the refresh that returned it, so "asked for
after the last invalidate" is a comparison. The clock is `now`, the timer the
record of its due time and of the window it was armed for; `setTimeout`'s ceiling
is the constant `MaxDelay`. `generation` is the code's guard; `floor` is a history of
how many refreshes had started at the last `invalidate()`, `fence` at the last
`invalidate()` or `dispose()`.

`FreshAfterInvalidate` has three parts: a held token was asked for after the last
`invalidate()`; a token comes to be held only by a refresh that started after the last
`invalidate()` and the last `dispose()` (`Commits`); and a call is answered with a token
asked for after the last `invalidate()` before it, or with that of the one refresh still
in flight at that `invalidate()`, which it found and waited for (`AnsweredFresh`). That
last case contradicts lines 97-99 (see the divergences below), and is the only one.

Proved: `TypeOK`, `SingleFlight`, `Guarded` (the inductive form of "no token is
resurrected": a refresh that could still commit was started after the last
`invalidate()` and the last `dispose()`), and from them `FreshAfterInvalidate`,
`TimerFollowsToken`, `RenewsInWindow` and the refinement of `SharedFlight`.

### RefreshFetch, RefreshFetchProofs

`create-refresh-fetch.ts` in front of a server with an HttpOnly cookie. Cookies are
numbered as the server sets them; the browser sends the one in its jar. `pc[c]` is
where a call is in the async function, `joined[c]` the refresh it awaits. A refresh
may set a new cookie, and resolves or rejects whether it has or not, as the code looks
at neither its result nor the jar; the shared promise settles for all who await it in
one step. `renewal[f]` records the cookie refresh `f` set, 0 for none. So
`ReplayUnderRenewal` says that no call is on its way to a replay while its refresh is in
flight, that no replay goes out under an older cookie than the request it repeats, and,
of a refresh that has set a cookie, that the replay goes under that one or a newer one.
Proved: `TypeOK`, `ReplayUnderRenewal` and the refinement of `SharedFlight`, over a
mapping that reads the outcome of a call from where it went on to.

### RealtimeConnection, ConnectionProofs

`connect-realtime.ts`: the loop over the transports, `withDeadline`'s race of a
connecting transport, the deadline and the abort signal, and the connection that
opens, which feeds an instance of `MessageQueue`. `race` is what the promise race settled with, and `Resume` the code behind the
await; between the two other program code may abort, but no event of a transport can
come. `endpoint[i]` is what became of the session or socket of attempt `i`, a loser that
connects late included.

Proved: `RealtimeInv`. The loop and the messages have an invariant each. `LoopInv` is
`RealtimeTypeOK` and `NothingLeftBehind` with one more fact, that the loop has skipped
fewer transports than it has begun while it races or fails, which keeps `skipped` within
its type. `StreamInv` reuses the invariant of `MessageQueue`: the queue the connection feeds
is an instance of that module, and each step of the connection is a step of the queue or
leaves it alone, so the lemmas of `MessageQueueProofs` (`PushIInv`, `EndIInv`, `AskIInv`,
`ReturnIInv`) keep `IInv` here too. It adds that what the queue accepted are the first
frames delivered, and all of them until the end.

### MessageChannel, MessageLink, Failures, ConnectionProofs

`MessageChannel` is `createIngest` of `message-channel.ts`: one inbound frame, its verdict
(`valid`, `binary`, `bad`), the hook that may ignore, close, say nothing or throw.
`MessageLink` is both ends: the client's channel fed by the pump of
`connect-messages.ts` that drains the connection, the server's by the listeners of
`bind-messages.ts`, and a wire of two ordered directions with a close frame in it. The
code behind `connection.closed` (`ClosedHandler`) and the pump (`PumpStep`) are different
actions, since either may run first.

The properties compare what a program was given with `downLog` and `upLog`, what its peer sent.
`FirstOfKind(got, log, kind)` says that `got` is the first frames of that kind, in order
and without a gap, by the ids that number the frames of a log.

Proved: `Inv`, `ViolationsClose` and `CloseKeepsFrames`. The invariant follows a frame from one end
to the other: each wire holds the last frames of its log, perhaps with a close frame behind
them (`WireInv`); the connection's inbox holds the first ones (`InboxInv`); what the channel
handed on is the frames of its kind among those the pump has dealt with, and all of them
unless the stream is over (`Delivered`). The last clause is what makes "without a gap"
inductive: a stream that is over accepts no more, so what it skipped can never be
followed by something it did not. `CloseKeepsFrames` needs in addition that the inbox is
drained when it ends unless the program closed (`PumpInv`), which the guard
`MicrotasksDone` of the close event gives.

### RequestPipeline, ServerProofs

One request through `to-fetch-handler.ts`, `handle-request.ts` and `with-timeout.ts`.
`phase` is where the program is, `index` the place in the chain it walks there, `log` the
calls of app code in order, those that throw included. Every call of app code may return
what its type allows or throw; `RouteError`, `Formatted` and `HookError` are the three
error paths of the code. What `onError` and the error formatters reply is sent without a
look at the route's responses (`Unchecked`, lines 271-274), and `DeclaredReplies` is about
the replies of guards, handler, hooks and `onTimeout` only. `cfg` is the route and its
options, each on its own. What validation says is a verdict.

The proof goes by a lemma on the log: whatever a step does, it appends what it may
call from there (`StepCallsOnly`), so `Called` grows by `Callable` names only. `PInv` adds to
the properties what the place in the program tells of the checks passed (`Clearances`),
what the race has settled with (`Race`), that a built context is remembered (`Built`) and
how many decorators have run (`Decorating`). None of the properties is inductive without.

### NodeHandler, ServerProofs

One exchange through `to-node-handler.ts` and `wait-for-drain.ts`: the shared body read and
its cap, the lazily created signal, HEAD, whole and streamed replies, back-pressure,
and a client that may leave at any time. Bytes are counted in chunks. The route is
external code that may read the body, ask for the signal and reply in any order; the
source of a streamed reply may ask for the signal too. A socket that is torn down (`Torn`:
an upload past its cap, a reply that is dropped) has its 'close' in a later turn
(`Closes`), and what is asked for in between is told. While it pumps, the adapter learns
of a closed connection only by its next write (`WritesClosed`); while it waits for
'drain', by the event (`Stops`). When the answer to a failure fails in turn, the adapter
drops the connection (`Answer500`). A reply of a status without `contentType` is not
streamed, whatever its body is (`Streams`).

Proved: `NodeInv` and `SignalTells`, for any cap and lengths. The invariant adds where the adapter
is (`AdapterInv`: nothing has been sent before the reply, the pump runs only under a status
of 200 with its source open, the response is open until the end) and where the upload is
(`UploadInv`: a read is pending only while bytes flow, and not past the cap). Without
the first a second status line or an ended response could not be excluded when
a reply fails; without the second a resolved body could be past the cap.

### HotApi, HotApiProofs

`create-hot-api.ts` with the debounced watcher of `watch-paths.ts`. Edits are
numbered, and the code on disk is known by the last one; `load()` reads the disk
at some moment of its run. What follows a build is split where promises split it:
`LoadSucceeds`/`LoadFails` (the rest of `build`), `Clear` (the `.finally` of
`run`), `Resolve` (the run's promise settles and its follow-up starts). App code
resumed by another promise may run between `Clear` and `Resolve`; file events and
timers may not. The two callbacks of the app may throw (`ThrowingHooks`): a throwing
`onReload` makes its reload answer `false` for a build that serves, and a throwing
`onReloadError` rejects the reload and the follow-up chained to it, which is never run:
`ReloadsSettle` says which edits stay behind then. `noticed` is a history of the edits the
watcher has been told of; `EditsKept` says that these, and no others, are recorded,
pending or reported by a build, `EditsReportedOnce` that none is in two of those places.

`HotApiProofs` sorts the steps into kinds by what they do to the list of builds (one
ends, one goes on, a follow-up or a new one starts, a call is chained). `HInv` adds that
follow-ups start once and calls are chained to runs whose follow-up is still to come
(`Chained`), that whichever build a call is told of starts after it (`StartsAfter`), and
that without overlap only the last build loads, from code as new as any read before
(`NewestLoads`).

### RemoteCache, CacheProofs

The session cache of `resolve-refs-from-file.ts`: `cache` and `order` are the Map and
its insertion order, `inFlight` the table of loads other calls may join, `fetches`
every request started. A call of `loadDoc` is refused, served, joins, owns or
bypasses; a fetch settles for all its callers in one step, because they continue one
after the other with nothing in between. A scope stands for the fingerprint of
credentials, transport and limits that `fetchScope` computes. Headers that are a function
are evaluated for the key (276) and again for every request of the fetch (315), after an
await: `headers[f]` has what they give now and what the last request went out with;
`Turn` is external, `Send` the second evaluation. `order` is kept as the set
of pairs `<<i, j>>` with `i` inserted before `j`, which says all an insertion order says and
can be reasoned about without recursion. `recency` (the same for use), `old` and
`clears` are histories that no guard reads.

Proved: `Isolated`, `Inv` (with `OneFetch` and `Bounded`), `EvictsOldest` and `ServesFresh`.
`Isolated` is `OwnKey`, that a call is given only what was loaded under its own key, and
`SentAsKeyed`, that the credentials the document was asked for with are the call's own
unless the headers changed under that very fetch. `OwnKey` and `OneFetch` need each other: a call that joins a fetch gets a document of its
own key because the table is right, and the document written to the cache has the right
key because every waiting call awaits a fetch of its own key. `Bounded` and `EvictsOldest`
rest on `CacheInv`: the cached keys are finitely many, no more than the cap, and `order`
is a strict total order on them and equal to `recency`. A finite non-empty total
order has one first element (`FirstExists`, by cardinality), so a write over the cap
evicts exactly that one.

### LintRun, CacheProofs

`mapWithConcurrency` and the worker of `run.ts`: runners take files in order and share a
cache of rulesets by directory, looked up on one side of an await and filled on the
other. A file that cannot be read or linted rejects the run while the other
runners go on. `--concurrency` need not be a whole number: a fraction below the number of
files is no length for an array (105), and the run rejects before any file is read
(`Throws`).

Proved: type correctness, `InOrder`, `OwnRuleset` and `LoadsShared`. `HandedOut` (the files
below `next` are each with one runner or have their result) and `Rulesed` (what the cache
holds, what a runner lints with) are inductive together. `LoadsShared` counts: as long as a
directory is not cached it has been looked up no more often than there are runners that
look it up now or have thrown (`LoadsInv`), and once it is cached nobody looks it up.

## Runs and bounds

| Run | Instance | Properties and what they say |
|---|---|---|
| `message_queue` | 2 values, 1 error, 4 pushes, 4 calls of `next` | `IInv`: call *k* is owed value *k* or the end. `StreamSpec`: the queue is the abstract stream. |
| `session` | 2 requests, 2 tokens, 1 app call, a storage that may fail and need not keep the order, a `refresh` option | `MirrorLeads`: the mirror is the newest write, and so is what an ordered storage holds in the end. `StaysSignedOut`. `ReplayUnderRenewal`: a replay goes under the renewed token, once the storage has answered for it. `FetchSettles`: every fetch settles. |
| `token_refresh` | 2 calls, lifetimes 1 and 5, window 2, ceiling 2, clock to 7, 3 refreshes, 2 drops | `FreshAfterInvalidate`, `TimerFollowsToken`, `RenewsInWindow`, `FlightSpec`, `CallsReleased`. A token born inside its window, a wait of more than one ceiling, a refresh overtaken by two drops. |
| `refresh_fetch` | 3 calls, a session that may end at any moment, a refresh that may set no cookie | `ReplayUnderRenewal`, `FlightSpec`, `CallsSettle`. |
| `realtime` | both transports, 3 frames, 4 calls of `next`, 1 error | `RealtimeInv`: nothing left open, frames in order. `Settles`: although no transport need ever answer. `ConsumersReleased`. |
| `message_link` | 2 frames down, 1 up, 1 call of `next`, 1 error | `Inv`: each program is given a prefix of the valid frames sent. `ViolationsClose`. `CloseKeepsFrames`. `CloseReachesBoth`. |
| `pipeline` | every combination of the options that bear on a kind of route, 2 gates, 2 guards, 1 hook, 2 decorators | `Inv`: context once, only reporters escape, every answer decorated. `Cleared`: deny by default. `DeclaredReplies`. `AnsweredOnce`. `Answered`. |
| `node_handler` | uploads of up to 3 chunks past a cap of 1, replies of up to 3 | `NodeInv`: no short reply looks whole, sources are released, the cap holds. `SignalTells`. `Ends`. |
| `hot_api` | 2 calls of reload, 1 edit, both callbacks may throw | `Inv`: every edit noticed is in exactly one place. `SeesItsChanges`. `ServesNewest`. `ReloadsSettle`. |
| `hot_api_overlap` | 3 calls | the finding below |
| `remote_cache` | 4 loads of 1 location under 3 scopes, 3 fetches, headers that change under the first, a cache of 2, a time to live of 2, a clock to 2, 1 clear | `Isolated`: own key, own credentials. `Inv`: one shared fetch per key, the cap. `EvictsOldest`, `ServesFresh`. |
| `lint_run` | 7 files of 3 directories, one without a ruleset, 3 runners | `InOrder`, `OwnRuleset`, `LoadsShared`. |

`Inv` (`NodeInv`, `RealtimeInv`) conjoins the type invariant of a module with the invariants named beside it in
the module.

Two requests (calls, consumers) are enough for one to act between two steps of
the other, and a third participant adds no new pair; the guards of the code
compare with the latest token or generation, so three of those (before, current,
after) make every comparison come out both ways. Chains (gates, guards, hooks) are
walked with an index, so two elements show the first, the next and the end. A cache of
two with three keys evicts, and lets the order of use differ from that of insertion.
Bounds on counters (`MaxSent`, `MaxAsked`, `MaxReads`, `MaxCalls`, `MaxTime`, `MaxRefreshes`,
`MaxDrops`, `MaxEdits`, `MaxFetches`, `Turning`, `MaxClears`, `MaxFrames`, `MaxDown`, `MaxUp`,
`MaxUpload`, `MaxReply`, `MaxRevoked`) are guards of the action that counts. The modules
with proofs are proved without regard to these sizes.

Runs say `CHECK_DEADLOCK FALSE` because every one of these systems stops once its
bounded inputs are used up and everything has settled; that nothing stops too early is
what the liveness properties say. Symmetry (calls, scopes, locations) is used in
`remote_cache` only, which has no liveness.

Every property of a passing run comes with a mutation of the code's model,
listed under `mutants`, that violates it.

## Fairness

The event loop runs the continuation of what has settled; that is fairness of the steps
of the code itself. Beyond that:

- `BearerSession`, `RefreshFetch`: every storage operation, request and renewal is
  answered. The code relies on it: none of these waits has a timeout.
- `TokenRefresh`: `options.refresh` settles every promise it returned.
- `HotApi`: `load()` settles, and an armed debounce fires.
- `RealtimeConnection`: the deadline fires, and a transport that was asked to close says
  that it has. Nothing says that a transport ever answers a handshake.
- `MessageLink`: the wire delivers what is on it until it breaks. Nobody has to send,
  read or close.
- `RequestPipeline`: app code returns or throws, with one exception: a handler under
  `withTimeout` may hang. Then `Answered` holds by the timer.
- `NodeHandler`: the route comes to its end although it may read the body again and again
  (the one strong fairness), its source comes to its end or its next chunk, a client that
  stays uploads and reads, and a socket the adapter has torn down closes. A client may
  leave, and then nothing drains. That a source ends is an assumption about the route: no
  timeout of the adapter ends one that falls silent, and that its client has left is
  noticed at its next chunk.

## Finding

`hot_api_overlap` is expected to be violated. `create-hot-api.ts:53` says reloads "never
overlap". `running` is cleared before the promise the follow-up is chained to settles
(line 186), so whoever awaited that promise and reloads at once starts a build, and the
follow-up starts a second one beside it.

## Where the code departs from its documentation

The models have what the code does, and the properties are stated with it. A run can be
expected to fail for one property only, so these stand here and in the comments of the
properties named.

| Documentation | Code | Property |
|---|---|---|
| `create-token-refresh.ts:97-99`: after `invalidate()` the next `headers()` "refreshes unconditionally" | a call joins a refresh in flight, begun before the `invalidate()`, and returns its token (197) | `FreshAfterInvalidate` excepts exactly that call |
| `dev/create-hot-api.ts:52-53`: "Reloads never reject" | when `onReloadError` throws (160) the reload rejects, the follow-up chained to it never runs, and the edits it was to report stay behind; the watcher's `void reload(changed)` (192) is then an unhandled rejection | `ReloadsSettle` counts a rejection as settled and names what stays behind |
| `dev/create-hot-api.ts:53`: "never overlap" | the finding above | `NeverOverlap` (violated) |
| `types.ts:136`: the signal "aborts when the client disconnects" | one that is first asked for after the close of the response never does (`to-node-handler.ts:114-121`) | `SignalTells` claims nothing of it |
| `resolve-refs-from-file.ts:440-443`: a document fetched with one tenant's token "is invisible to a call carrying different (or no) credentials" | a headers function is evaluated for the key (444) and again for each request (315): if it gives something else then, the document is kept under the first key | `Isolated` excepts a fetch whose headers changed under it |
| `create-refresh-fetch.ts:34`: the original response is returned "regardless" | an `onRefreshError` that throws rejects the call (97) | `CallsSettle` counts a rejection as settled |
| `create-refresh-fetch.ts`, the example of the doc comment: a `refresh` that is a `fetch` | resolves on a 401 as well, and the request is replayed under the cookie that was refused | `ReplayUnderRenewal` asks for a newer one only if one was set |
| `bind-messages.ts:77`: "the iterator rejects when the transport fails" | on a socket error the code ends it cleanly (162) | none says how a stream ends |
| `cli/src/lint/run.ts:307-308`: a ruleset is parsed "once, not once per file" | each runner that looks a directory up before any has loaded it loads it itself (317) | `LoadsShared` bounds that by the number of runners |

## Limits met while modelling

Behaviour of the code that its documentation neither promises nor excludes and that a
reader may not expect.

- Bearer session: a late 401 for an old token drops the newer session (line 286); a
  reply under way at `clear()` stores its rotated token after it (259); a token stored
  while the first read is pending is overwritten in memory by that read (199), until the
  next write; a request refused under the renewed token joins the renewal that is still
  being persisted and replays with the same token (266); a storage that does not keep the
  order of its operations may end with an older token than the mirror's, and a `get()`
  that throws at once rejects the fetch (197).
- Token refresh: a token that is inside its window when it is issued starts one refresh
  after the other; nothing but the time a refresh takes bounds their rate (182).
- Cookie-session refresh: a 401 that arrives after the shared refresh has settled starts
  another one; the replay may carry the very cookie the call was refused with, if the
  refresh it joined had just set it.
- Remote documents: `clearRemoteCache()` leaves the loads in flight, and a load made after
  it joins one that began before it (469).
- Realtime: an abort between a race that is won and the listener of line 264 or 356 is
  missed.
- Message channels: with an injected transport whose close and last frames come in one
  task, `closed.then(endAll)` can overtake the pump and drop those frames
  (`connect-messages.ts:113`). The transports of the library dispatch the close event in a
  task of its own, and `MicrotasksDone` guards `ClientClosed` for that reason.
- Request pipeline: what `onError` and the error formatters reply is not validated, with
  `validateResponses` neither (`handle-request.ts:271-274`).
- Node adapter: the source of a streamed reply whose headers do not validate is never
  cancelled, nor is a `ReadableStream` that is the body of a status without `contentType`,
  which is sent as JSON (247); a source that falls silent after its client has left keeps
  the exchange open (224-231); a body past the cap in the middle of an upload tears the
  socket down instead of being answered.
- Lint run: after one file rejects the run the other runners go on; a `--concurrency`
  of 2.5 is accepted (190) and throws at the array of the runners (105).

## Proved and only checked

TLAPS proves, for every value of the constants and from the named assumption of each
module only, the theorems `PROJECT.json` lists:

| Module | Proved | Only model-checked |
|---|---|---|
| `MessageQueue` | `IInv`, `StreamSpec`, finality of answers | |
| `BearerSession` | types, `MirrorLeads`, `StaysSignedOut`, `ReplayUnderRenewal` | `FetchSettles` |
| `TokenRefresh` | types, single flight, `FreshAfterInvalidate`, `TimerFollowsToken`, `RenewsInWindow`, `FlightSpec` | `CallsReleased` |
| `RefreshFetch` | types, `ReplayUnderRenewal`, `FlightSpec` | `CallsSettle` |
| `RequestPipeline` | `Inv`, `Cleared`, `DeclaredReplies`, `AnsweredOnce` | `Answered` |
| `HotApi` | `Inv`, `SeesItsChanges`, `ServesNewest` | `ReloadsSettle` |
| `RemoteCache` | types, `Isolated`, `Inv`, `EvictsOldest`, `ServesFresh` | |
| `LintRun` | types, `InOrder`, `OwnRuleset`, `LoadsShared` | |
| `RealtimeConnection` | `RealtimeInv` | `Settles`, `ConsumersReleased` |
| `MessageLink` | `Inv`, `ViolationsClose`, `CloseKeepsFrames` | `CloseReachesBoth` |
| `NodeHandler` | `NodeInv`, `SignalTells` | `Ends` |

Every safety property and every refinement that a passing run checks is proved. What is
left to TLC is liveness under fairness, which is out of the prover's reach; each of those
properties is in the last column.

The shape of every safety proof is the same: an inductive invariant, initial, kept by
each action in a step of its own, and a theorem per property that follows from it. The
refinement proofs map each action of the code to one of the abstract specification or
to a stutter.

## Not modelled

Of the repository's lines the models cover a small part, and the reason is what the
repository is. Most of its code is text and data transformation with no state that
survives a call: validator and parser generators (`validation`, `generate-*`,
`api/compile`), schema conversion (`asyncapi`, `adapters`), validation (`runtime-validators`,
`helpers`), parsing (`yaml`, `realtime-framing`, `sse`, `stream-multipart`, routing and body
parsing), lint rules and fixes. The repository compares those with conformance suites;
a state machine of them would restate them line by line. Also left out:

- `api/dev/import-fresh`: its hook runs inside the module loader, whose order of calls the
  source does not fix.
- `api/create-rate-limit`: a synchronous function of one bounded map.
- the other plugins and clients of `api`: stateless transformations of headers and bodies.
- `resolve-refs`: the redirects of one fetch, the crawl and the documents of one call.
- `cli`: arguments, standard input, the report.

Token values, header names, message payloads, file contents and log lines of the modelled
parts are abstracted to model values, numbers or verdicts.
