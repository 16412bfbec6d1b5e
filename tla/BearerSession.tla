---------------------------- MODULE BearerSession ---------------------------
(***************************************************************************)
(* createBearerSession (packages/api/src/create-bearer-session.ts): the    *)
(* token a client holds, its in-memory mirror, and the fetch wrapper that  *)
(* attaches it, captures a rotated one, renews it or surrenders.           *)
(*                                                                         *)
(* Code between two awaits is one action.  The storage is asynchronous and *)
(* BearerTokenStorage promises no order: whether this one completes its    *)
(* operations in the order they were issued is chosen at the start.  The   *)
(* server answers at one moment and its answer arrives at a later one.     *)
(***************************************************************************)
EXTENDS Naturals, SequencesExt

CONSTANTS
  Requests,      \* calls of the wrapped fetch
  Tokens,        \* bearer tokens the server can issue
  None,          \* `undefined`
  HasRefresh,    \* options.refresh is supplied
  StorageFails,  \* storage operations may reject
  MaxCalls       \* bound: calls of set() and clear() by the app

ASSUME SessionAssumption ==
  /\ None \notin Tokens /\ None # "refresh"
  /\ Requests \cap {"app", "refresh"} = {}
  /\ HasRefresh \in BOOLEAN
  /\ StorageFails \in BOOLEAN
  /\ MaxCalls \in Nat

VARIABLES
  cached,      \* the in-memory mirror
  loaded,      \* the mirror holds what the session is
  loading,     \* the single-flight first read is pending
  inFlight,    \* the renewal: "none", "asked" or "writing"
  renewal,     \* what the pending renewal resolved to (None: no token yet)
  stored,      \* what the storage holds
  inOrder,     \* external: the storage completes operations in their order
  ops,         \* storage operations issued and not completed, oldest first
  pc,          \* pc[r]: where request r is
  tok,         \* tok[r]: the token request r was last sent with
  reply,       \* reply[r]: the answer on its way to request r
  attempt,     \* attempt[r]: 1 for the first send, 2 for the replay
  used,        \* external: the tokens that have been issued
  calls,       \* number of calls of set() and clear() made
  newest,      \* history: the newest write, and what the storage made of it
  overlapped,  \* history: it was issued while the first read was pending
  signedOut    \* history: clear() found nothing under way, and nothing came since

sessionVars == <<cached, loaded, loading, inFlight, renewal>>
requestVars == <<pc, tok, reply, attempt>>
writeVars   == <<newest, overlapped>>
historyVars == <<writeVars, signedOut>>
vars == <<sessionVars, stored, inOrder, ops, requestVars, used, calls,
          historyVars>>

Token == Tokens \cup {None}

NoReply == [refused |-> FALSE, issued |-> None]

Init ==
  /\ cached = None
  /\ loaded = FALSE
  /\ loading = FALSE
  /\ inFlight = "none"
  /\ renewal = None
  /\ stored \in Token
  /\ inOrder \in BOOLEAN
  /\ ops = <<>>
  /\ pc = [r \in Requests |-> "idle"]
  /\ tok = [r \in Requests |-> None]
  /\ reply = [r \in Requests |-> NoReply]
  /\ attempt = [r \in Requests |-> 1]
  /\ used = {stored} \ {None}
  /\ calls = 0
  /\ newest = [token |-> stored, state |-> "kept"]
  /\ overlapped = FALSE
  /\ signedOut = FALSE

(***************************************************************************)
(* The three ways the session touches its storage.  `by` is who awaits.    *)
(***************************************************************************)
\* storage.set or storage.clear is called: the newest write so far.
Issue(op, t, by) ==
  /\ ops' = Append(ops, [op |-> op, token |-> t, by |-> by])
  /\ newest' = [token |-> t, state |-> "pending"]
  /\ overlapped' = loading

\* Mutation: write() leaves the mirror to the storage's completion.
WriteStoreOnly(t, by) ==
  /\ loaded' = TRUE
  /\ Issue("set", t, by)
  /\ UNCHANGED cached

\* write(token): the mirror first, the storage after.
Write(t, by) ==
  /\ cached' = t
  /\ loaded' = TRUE
  /\ Issue("set", t, by)

\* Mutation: dropping the token leaves the session to be read again.
DropUnloaded(by) ==
  /\ cached' = None
  /\ loaded' = FALSE
  /\ Issue("clear", None, by)

\* drop(): the same for no token.
Drop(by) ==
  /\ cached' = None
  /\ loaded' = TRUE
  /\ Issue("clear", None, by)

\* read() of a session not loaded yet: the first caller asks the storage, the
\* others share its promise.
StartRead ==
  /\ ~loaded
  /\ loading' = TRUE
  /\ ops' = IF loading THEN ops
            ELSE Append(ops, [op |-> "get", token |-> None, by |-> None])

(***************************************************************************)
(* The storage completes an operation: its oldest, or any.                 *)
(***************************************************************************)
Completes(i) ==
  /\ inOrder => i = 1
  /\ ops' = RemoveAt(ops, i)

Reading == {r \in Requests : pc[r] = "reading"}

\* The continuations of storage.get() at lines 198-213: the mirror is assigned
\* whatever happened to it meanwhile, and everyone who shared the read is sent.
ReadSettles(value) ==
  /\ cached' = value
  /\ loaded' = TRUE
  /\ loading' = FALSE
  /\ tok' = [r \in Requests |-> IF r \in Reading THEN value ELSE tok[r]]
  /\ pc' = [r \in Requests |-> IF r \in Reading THEN "sent" ELSE pc[r]]
  /\ UNCHANGED <<stored, inOrder, inFlight, renewal, attempt, reply>>

ReadFromStorage ==
  /\ \E i \in 1..Len(ops) : ops[i].op = "get" /\ Completes(i)
  /\ ReadSettles(stored)
  /\ UNCHANGED <<used, calls, writeVars, signedOut>>

\* An unreadable store is a signed-out client: as if no token had been written
\* and refused, unless a write has come first.
ReadRejected ==
  /\ StorageFails
  /\ \E i \in 1..Len(ops) : ops[i].op = "get" /\ Completes(i)
  /\ ReadSettles(None)
  /\ newest' = IF overlapped THEN newest ELSE [token |-> None, state |-> "refused"]
  /\ UNCHANGED <<used, calls, overlapped, signedOut>>

\* Who awaited the completed set or clear goes on: capture() returns to the
\* request, surrender() calls onExpired and the reply is handed back, and a
\* renewal that has been persisted settles for everyone who shares it.
ContinueCapture(by) ==
  /\ by \in Requests /\ pc[by] = "capturing"
  /\ pc' = [pc EXCEPT ![by] = "judging"]
  /\ UNCHANGED <<inFlight, renewal, tok, attempt, reply>>

ContinueSurrender(by) ==
  /\ by \in Requests /\ pc[by] = "surrendering"
  /\ pc' = [pc EXCEPT ![by] = "done"]
  /\ UNCHANGED <<inFlight, renewal, tok, attempt, reply>>

Waiters == {r \in Requests : pc[r] = "renewing"}

\* Mutation: the replay reuses the original init.
ContinueRenewalSameInit(by) ==
  /\ by = "refresh"
  /\ inFlight' = "none"
  /\ renewal' = None
  /\ pc' = [r \in Requests |-> IF r \in Waiters THEN "sent" ELSE pc[r]]
  /\ attempt' = [r \in Requests |-> IF r \in Waiters THEN 2 ELSE attempt[r]]
  /\ UNCHANGED <<tok, reply>>

ContinueRenewal(by) ==
  /\ by = "refresh"
  /\ inFlight' = "none"
  /\ renewal' = None
  /\ pc' = [r \in Requests |-> IF r \in Waiters THEN "sent" ELSE pc[r]]
  /\ tok' = [r \in Requests |-> IF r \in Waiters THEN renewal ELSE tok[r]]
  /\ attempt' = [r \in Requests |-> IF r \in Waiters THEN 2 ELSE attempt[r]]
  /\ UNCHANGED reply

ContinueApp(by) ==
  /\ by = "app"
  /\ UNCHANGED <<inFlight, renewal, pc, tok, attempt, reply>>

\* A set or clear completes, or rejects and is only reported.
Persist ==
  \E i \in 1..Len(ops) :
    /\ ops[i].op # "get"
    /\ Completes(i)
    /\ \E kept \in {TRUE, ~StorageFails} :
         /\ stored' = IF kept THEN ops[i].token ELSE stored
         /\ newest' = IF newest.state = "pending" /\ i = Len(ops)
                      THEN [newest EXCEPT !.state = IF kept THEN "kept" ELSE "refused"]
                      ELSE newest
    /\ LET by == ops[i].by IN
         \/ ContinueCapture(by) \/ ContinueSurrender(by)
         \/ ContinueRenewal(by) \/ ContinueApp(by)
    /\ UNCHANGED <<cached, loaded, loading, inOrder, used, calls, overlapped,
                   signedOut>>

(***************************************************************************)
(* The app.                                                                *)
(***************************************************************************)
\* A sign-in through another client hands its token to set().
SignIn(t) ==
  /\ calls < MaxCalls
  /\ t \notin used
  /\ calls' = calls + 1
  /\ used' = used \cup {t}
  /\ Write(t, "app")
  /\ signedOut' = FALSE
  /\ UNCHANGED <<loading, inFlight, renewal, stored, inOrder, requestVars>>

\* No read, request or renewal is under way.
Quiet ==
  /\ ~loading /\ inFlight = "none"
  /\ \A r \in Requests : pc[r] \in {"idle", "surrendering", "done"}

\* clear(), on sign-out.
SignOut ==
  /\ calls < MaxCalls
  /\ calls' = calls + 1
  /\ Drop("app")
  /\ signedOut' = Quiet
  /\ UNCHANGED <<loading, inFlight, renewal, stored, inOrder, requestVars, used>>

\* token(): its only effect is to load the session.
AskToken ==
  /\ ~loading
  /\ StartRead
  /\ UNCHANGED <<cached, loaded, inFlight, renewal, stored, inOrder, requestVars,
                 used, calls, historyVars>>

(***************************************************************************)
(* The wrapped fetch, one action per stretch between awaits.               *)
(***************************************************************************)
\* await read() resolves at once from the mirror, or waits for the storage.
FetchLoaded(r) ==
  /\ pc[r] = "idle"
  /\ loaded
  /\ tok' = [tok EXCEPT ![r] = cached]
  /\ pc' = [pc EXCEPT ![r] = "sent"]
  /\ signedOut' = FALSE
  /\ UNCHANGED <<sessionVars, stored, inOrder, ops, reply, attempt, used, calls,
                 writeVars>>

FetchReads(r) ==
  /\ pc[r] = "idle"
  /\ StartRead
  /\ pc' = [pc EXCEPT ![r] = "reading"]
  /\ signedOut' = FALSE
  /\ UNCHANGED <<cached, loaded, inFlight, renewal, stored, inOrder, tok, reply, attempt,
                 used, calls, writeVars>>

\* storage.get() throws before it returns a promise (line 197): `loading` was
\* not assigned, and the call rejects.
FetchReadThrows(r) ==
  /\ StorageFails
  /\ pc[r] = "idle"
  /\ ~loaded /\ ~loading
  /\ pc' = [pc EXCEPT ![r] = "done"]
  /\ UNCHANGED <<sessionVars, stored, inOrder, ops, tok, reply, attempt,
                 used, calls, historyVars>>

\* The network failed: the rejection of fetchImpl is the wrapper's.
FetchRejects(r) ==
  /\ pc[r] = "sent"
  /\ pc' = [pc EXCEPT ![r] = "done"]
  /\ UNCHANGED <<sessionVars, stored, inOrder, ops, tok, reply, attempt, used,
                 calls, historyVars>>

\* The reply arrives: capture() stores the token it carries, if any.
Arrive(r) ==
  /\ pc[r] = "answered"
  /\ \/ /\ reply[r].issued = None
        /\ pc' = [pc EXCEPT ![r] = "judging"]
        /\ UNCHANGED <<cached, loaded, ops, writeVars>>
     \/ /\ reply[r].issued # None
        /\ Write(reply[r].issued, r)
        /\ pc' = [pc EXCEPT ![r] = "capturing"]
  /\ UNCHANGED <<loading, inFlight, renewal, stored, inOrder, tok, reply, attempt,
                 used, calls, signedOut>>

Accepted(r) ==
  /\ pc[r] = "judging"
  /\ ~reply[r].refused
  /\ pc' = [pc EXCEPT ![r] = "done"]
  /\ UNCHANGED <<sessionVars, stored, inOrder, ops, tok, reply, attempt, used,
                 calls, historyVars>>

\* surrender(): drop, and onExpired once the storage has been cleared.
Surrender(r) ==
  /\ Drop(r)
  /\ pc' = [pc EXCEPT ![r] = "surrendering"]
  /\ UNCHANGED <<loading, inFlight, renewal, stored, inOrder, tok, reply, attempt,
                 used, calls, signedOut>>

\* Refused with nothing left to try: no `refresh`, or the replay was refused.
RefusedForGood(r) ==
  /\ pc[r] = "judging"
  /\ reply[r].refused
  /\ ~HasRefresh \/ attempt[r] = 2
  /\ Surrender(r)

\* runRefresh: join the renewal in flight, or start one.
RefusedRenews(r) ==
  /\ pc[r] = "judging"
  /\ reply[r].refused
  /\ HasRefresh /\ attempt[r] = 1
  /\ pc' = [pc EXCEPT ![r] = "renewing"]
  /\ inFlight' = IF inFlight = "none" THEN "asked" ELSE inFlight
  /\ UNCHANGED <<cached, loaded, loading, renewal, stored, inOrder, ops, tok, reply,
                 attempt, used, calls, historyVars>>

\* refresh() resolved to a token: write it, settle once it is persisted.
Renewed(t) ==
  /\ inFlight = "asked"
  /\ t \notin used
  /\ used' = used \cup {t}
  /\ renewal' = t
  /\ inFlight' = "writing"
  /\ Write(t, "refresh")
  /\ UNCHANGED <<loading, stored, inOrder, requestVars, calls, signedOut>>

\* Mutation: the guard is cleared and the callers that share it are forgotten.
NotRenewedForgets ==
  /\ inFlight = "asked"
  /\ inFlight' = "none"
  /\ UNCHANGED <<cached, loaded, loading, renewal, stored, inOrder, ops, requestVars,
                 used, calls, historyVars>>

\* refresh() rejected or resolved to no token: every caller that shared it
\* gives up, each on its own.
NotRenewed ==
  /\ inFlight = "asked"
  /\ inFlight' = "none"
  /\ pc' = [r \in Requests |-> IF r \in Waiters THEN "gone" ELSE pc[r]]
  /\ UNCHANGED <<cached, loaded, loading, renewal, stored, inOrder, ops, tok, reply,
                 attempt, used, calls, historyVars>>

GiveUp(r) == pc[r] = "gone" /\ Surrender(r)

(***************************************************************************)
(* External: the server.  Any request may be refused (its token was revoked *)
(* or replaced), and any reply, a refusal too, may carry a new token.      *)
(***************************************************************************)
Answer(r, refused, t) ==
  /\ pc[r] = "sent"
  /\ t \notin used
  /\ used' = used \cup ({t} \ {None})
  /\ reply' = [reply EXCEPT ![r] = [refused |-> refused, issued |-> t]]
  /\ pc' = [pc EXCEPT ![r] = "answered"]
  /\ UNCHANGED <<sessionVars, stored, inOrder, ops, tok, attempt, calls, historyVars>>

-----------------------------------------------------------------------------
StorageStep == ReadFromStorage \/ ReadRejected \/ Persist

ClientStep(r) ==
  \/ Arrive(r) \/ Accepted(r) \/ RefusedForGood(r) \/ RefusedRenews(r) \/ GiveUp(r)

ServerStep(r) ==
  \/ FetchRejects(r)
  \/ \E refused \in BOOLEAN, t \in Token : Answer(r, refused, t)

RenewalStep == NotRenewed \/ (\E t \in Tokens : Renewed(t))

Next ==
  \/ StorageStep
  \/ RenewalStep
  \/ \E r \in Requests : \/ FetchLoaded(r) \/ FetchReads(r) \/ FetchReadThrows(r)
                         \/ ClientStep(r) \/ ServerStep(r)
  \/ \E t \in Tokens : SignIn(t)
  \/ SignOut
  \/ AskToken

Spec == Init /\ [][Next]_vars

\* Every storage operation, request and renewal is answered in the end (the
\* platform settles every promise it handed out), and the event loop runs the
\* continuation of whatever has settled.
FairSpec ==
  /\ Spec
  /\ WF_vars(StorageStep)
  /\ WF_vars(RenewalStep)
  /\ \A r \in Requests : WF_vars(ClientStep(r)) /\ WF_vars(ServerStep(r))
-----------------------------------------------------------------------------
(***************************************************************************)
(* Properties.                                                             *)
(***************************************************************************)

Op == [op : {"get", "set", "clear"}, token : Token,
       by : Requests \cup {"refresh", "app", None}]

TypeOK ==
  /\ cached \in Token /\ stored \in Token /\ renewal \in Token
  /\ loaded \in BOOLEAN /\ loading \in BOOLEAN
  /\ inFlight \in {"none", "asked", "writing"}
  /\ ops \in Seq(Op)
  /\ pc \in [Requests -> {"idle", "reading", "sent", "answered", "capturing",
                         "judging", "renewing", "gone", "surrendering", "done"}]
  /\ tok \in [Requests -> Token]
  /\ reply \in [Requests -> [refused : BOOLEAN, issued : Token]]
  /\ attempt \in [Requests -> {1, 2}]
  /\ used \subseteq Tokens
  /\ calls \in 0..MaxCalls
  /\ inOrder \in BOOLEAN
  /\ newest \in [token : Token, state : {"pending", "kept", "refused"}]
  /\ overlapped \in BOOLEAN
  /\ signedOut \in BOOLEAN

\* "An in-memory mirror of the stored token" (line 181), "updates the mirror
\* first and persists after" (line 217), "a token that could not be persisted is
\* still used for the rest of this session" (line 96).  Whatever set, clear,
\* capture, renewal and surrender are on their way and whichever the storage
\* refuses, the mirror is the newest write; and once a storage that keeps their
\* order has taken that one, it holds the same.  The one exception is the code's
\* (line 199): a write issued while the very first read is pending is the mirror
\* until that read completes and puts back what the storage held before; it
\* lasts until the next write.
MirrorLeads ==
  /\ loaded /\ (overlapped => loading) => cached = newest.token
  /\ inOrder /\ newest.state = "kept" => stored = newest.token

\* A replay goes out under the token of the renewal its request shared, and only
\* as the storage answers the write of that token, whether or not it has taken
\* it (lines 265-278, 305-308).
ReplayUnderRenewal ==
  [][\A r \in Requests : attempt[r] = 1 /\ attempt'[r] = 2 =>
        /\ reply[r].refused
        /\ tok'[r] = renewal /\ renewal # None
        /\ \E i \in 1..Len(ops) : ops[i].by = "refresh" /\ ops[i].token = renewal
        /\ \A i \in 1..Len(ops') : ops'[i].by # "refresh"
        /\ stored' = renewal \/ (StorageFails /\ UNCHANGED stored)]_vars

\* Every call of the wrapped fetch settles, whatever order the storage, the
\* server and the renewal answer in.
FetchSettles == \A r \in Requests : pc[r] # "idle" ~> pc[r] = "done"

\* "Drops the stored token. Call it on sign-out." (line 115): a session signed
\* out while nothing was under way holds no token until the next set() or
\* fetch, whatever token() asks and although the storage may refuse the clear
\* and still hold the old one.
StaysSignedOut == signedOut => cached = None
=============================================================================
