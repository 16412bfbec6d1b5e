------------------------------- MODULE HotApi -------------------------------
(***************************************************************************)
(* createHotApi with watchPaths (packages/api/src/dev): an API rebuilt     *)
(* under a running server, one build at a time and one follow-up behind    *)
(* it, from edits a debounced watcher reports and from calls of reload().  *)
(*                                                                         *)
(* Edits are numbered; the code on disk is known by the number of the last *)
(* one.  Builds are numbered in the order they start, and what settles     *)
(* after a build is settled in the order the promises do: first `running`  *)
(* is cleared, then whoever awaits the run is told and the follow-up       *)
(* starts.  Between the two any other promise's callback may run, and so   *)
(* may the app code it resumes; a timer or a file event may not.           *)
(***************************************************************************)
EXTENDS Naturals, Sequences, FiniteSets

CONSTANTS
  Calls,          \* calls of reload() by the app
  None,           \* a call not made yet
  ThrowingHooks,  \* which of the app's two callbacks may throw
  MaxEdits        \* bound: edits

ASSUME HotAssumption ==
  /\ ThrowingHooks \subseteq {"onReload", "onReloadError"}
  /\ MaxEdits \in Nat
  /\ None \notin [run : Nat, after : BOOLEAN, asked : Nat]

VARIABLES
  disk,        \* external: the number of edits made
  phase,       \* "starting", "up", "closed", or "failed": createHotApi rejected
  recorded,    \* the watcher's `changed`: edits not reported yet
  timer,       \* the watcher's debounce is armed
  builds,      \* builds[b]: the b-th call of build(), and the run around it
  running,     \* the run in progress, 0 for `undefined`
  queued,      \* the run the shared follow-up waits for, 0 for `undefined`
  pending,     \* edits reported and taken by no build
  current,     \* the build that serves, 0 for none
  failure,     \* an error is kept for api.error()
  calls,       \* calls[c]: what the promise of call c stands for
  noticed,     \* history: the edits the watcher has noticed
  overlapped   \* history: two builds were loading at once

watchVars == <<disk, phase, recorded, timer, noticed>>
reloadVars == <<builds, running, queued, pending>>
vars == <<watchVars, reloadVars, current, failure, calls, overlapped>>

NewBuild(files) ==
  [from |-> disk,        \* the code on disk when load() was called
   changed |-> files,    \* what it reports as changed
   state |-> "loading",  \* then "built", "cleared" and "done"
   read |-> 0,           \* the code load() read
   took |-> FALSE,       \* it took over
   outcome |-> "none",   \* what its promise settles to
   followed |-> FALSE,   \* a follow-up waits for this run
   next |-> 0]           \* the build that follow-up started

Loading == {b \in 1..Len(builds) : builds[b].state = "loading"}

\* No promise of a build that has ended is still to be settled.
MicrotasksDone == \A b \in 1..Len(builds) : builds[b].state \in {"loading", "done"}

Init ==
  /\ disk = 0
  /\ phase = "starting"
  /\ recorded = {}
  /\ timer = FALSE
  /\ noticed = {}
  /\ builds = <<NewBuild({})>>
  /\ running = 1
  /\ queued = 0
  /\ pending = {}
  /\ current = 0
  /\ failure = FALSE
  /\ calls = [c \in Calls |-> None]
  /\ overlapped = FALSE

(***************************************************************************)
(* run() and reload()                                                      *)
(***************************************************************************)
\* Mutation: the build clears the pending changes before it copies them.
RunClearsFirst(known, files) ==
  /\ builds' = Append(known, NewBuild({}))
  /\ running' = Len(known) + 1
  /\ queued' = 0
  /\ pending' = {}
  /\ overlapped' = (overlapped \/ Loading # {})

\* build() up to its await, and run() around it.
Run(known, files) ==
  /\ builds' = Append(known, NewBuild(files))
  /\ running' = Len(known) + 1
  /\ queued' = 0
  /\ pending' = {}
  /\ overlapped' = (overlapped \/ Loading # {})

Reload(files) ==
  IF running = 0 THEN Run(builds, pending \cup files)
  ELSE /\ pending' = pending \cup files
       /\ queued' = IF queued = 0 THEN running ELSE queued
       /\ builds' = IF queued = 0 THEN [builds EXCEPT ![running].followed = TRUE]
                                  ELSE builds
       /\ UNCHANGED <<running, overlapped>>

\* Mutation: calls that arrive mid-build are told of the build in flight.
PromiseJoins ==
  IF running = 0 THEN [run |-> Len(builds) + 1, after |-> FALSE, asked |-> disk]
  ELSE [run |-> running, after |-> FALSE, asked |-> disk]

\* The promise reload() returns: this run's, or the follow-up's.
Promise ==
  IF running = 0 THEN [run |-> Len(builds) + 1, after |-> FALSE, asked |-> disk]
  ELSE [run |-> queued', after |-> TRUE, asked |-> disk]

CallReload(c) ==
  /\ phase \in {"up", "closed"}
  /\ calls[c] = None
  /\ Reload({})
  /\ calls' = [calls EXCEPT ![c] = Promise]
  /\ UNCHANGED <<watchVars, current, failure>>

(***************************************************************************)
(* The rest of build(), once load() has settled.  load() reads the disk at *)
(* some moment between its call and its end.                               *)
(***************************************************************************)
\* The catch: the error is kept and reported, by a hook that may itself throw.
Caught == {"false"} \cup (IF "onReloadError" \in ThrowingHooks THEN {"rejected"} ELSE {})

Ended(b, took, version, outcome) ==
  builds' = [builds EXCEPT ![b].state = "built", ![b].took = took,
                           ![b].read = version, ![b].outcome = outcome]

\* load() resolves: the new API takes over, and then onReload is called.
LoadSucceeds(b) ==
  /\ b \in Loading
  /\ current' = b
  /\ \E version \in builds[b].from..disk :
       \/ Ended(b, TRUE, version, "true") /\ failure' = FALSE
       \/ /\ "onReload" \in ThrowingHooks
          /\ \E outcome \in Caught : Ended(b, TRUE, version, outcome)
          /\ failure' = TRUE
  /\ UNCHANGED <<watchVars, running, queued, pending, calls, overlapped>>

\* Mutation: the API is dropped before the new one is there.
LoadFailsDrops(b) ==
  /\ b \in Loading
  /\ failure' = TRUE
  /\ current' = 0
  /\ \E outcome \in Caught : Ended(b, FALSE, 0, outcome)
  /\ UNCHANGED <<watchVars, running, queued, pending, calls, overlapped>>

\* load() rejects, or createApi refuses what it returned: the build that served
\* before serves on.
LoadFails(b) ==
  /\ b \in Loading
  /\ failure' = TRUE
  /\ \E outcome \in Caught : Ended(b, FALSE, 0, outcome)
  /\ UNCHANGED <<watchVars, running, queued, pending, current, calls, overlapped>>

\* The .finally of run().
Clear(b) ==
  /\ b \in 1..Len(builds) /\ builds[b].state = "built"
  /\ running' = 0
  /\ builds' = [builds EXCEPT ![b].state = "cleared"]
  /\ UNCHANGED <<watchVars, queued, pending, current, failure, calls, overlapped>>

\* Mutation: a follow-up that has no changes of its own is not run.
ResolveIfPending(b) ==
  LET told == [builds EXCEPT ![b].state = "done"] IN
  /\ b \in 1..Len(builds) /\ builds[b].state = "cleared"
  /\ IF builds[b].followed /\ builds[b].outcome # "rejected" /\ pending # {}
     THEN Run([told EXCEPT ![b].next = Len(builds) + 1], pending)
     ELSE builds' = told /\ UNCHANGED <<running, queued, pending, overlapped>>
  /\ UNCHANGED <<watchVars, current, failure, calls>>

\* The run's promise settles: those who await it are told, and the follow-up
\* is run, whatever `running` is by now; a rejection goes past it.
Resolve(b) ==
  LET told == [builds EXCEPT ![b].state = "done"] IN
  /\ b \in 1..Len(builds) /\ builds[b].state = "cleared"
  /\ IF builds[b].followed /\ builds[b].outcome # "rejected"
     THEN Run([told EXCEPT ![b].next = Len(builds) + 1], pending)
     ELSE builds' = told /\ UNCHANGED <<running, queued, pending, overlapped>>
  /\ UNCHANGED <<watchVars, current, failure, calls>>

(***************************************************************************)
(* createHotApi after its first reload, close(), and the watcher.          *)
(***************************************************************************)
\* The first build has been awaited: the watcher starts, or createHotApi
\* rejects.
Watch ==
  /\ phase = "starting"
  /\ builds[1].state = "done"
  /\ phase' = IF builds[1].outcome = "rejected" THEN "failed" ELSE "up"
  /\ UNCHANGED <<disk, recorded, timer, noticed, reloadVars, current, failure,
                 calls, overlapped>>

Close ==
  /\ phase = "up"
  /\ phase' = "closed"
  /\ timer' = FALSE
  /\ UNCHANGED <<disk, recorded, noticed, reloadVars, current, failure, calls,
                 overlapped>>

\* A file is saved; record() runs if the watcher does.
Edit ==
  /\ MicrotasksDone
  /\ disk < MaxEdits
  /\ disk' = disk + 1
  /\ IF phase = "up"
     THEN /\ recorded' = recorded \cup {disk'} /\ timer' = TRUE
          /\ noticed' = noticed \cup {disk'}
     ELSE UNCHANGED <<recorded, timer, noticed>>
  /\ UNCHANGED <<phase, reloadVars, current, failure, calls, overlapped>>

\* The debounce is over: one reload for the whole batch.
Flush ==
  /\ MicrotasksDone
  /\ timer
  /\ timer' = FALSE
  /\ recorded' = {}
  /\ Reload(recorded)
  /\ UNCHANGED <<disk, phase, noticed, current, failure, calls>>

BuildStep == \E b \in 1..Len(builds) :
  LoadSucceeds(b) \/ LoadFails(b) \/ Clear(b) \/ Resolve(b)

Next ==
  \/ BuildStep
  \/ \E c \in Calls : CallReload(c)
  \/ Watch \/ Close \/ Edit \/ Flush

Spec == Init /\ [][Next]_vars

\* load() settles (it is an import and a createApi), the event loop runs the
\* callbacks of what has settled, and an armed timer fires.
FairSpec == Spec /\ WF_vars(BuildStep) /\ WF_vars(Flush)
-----------------------------------------------------------------------------
(***************************************************************************)
(* Properties.                                                             *)
(***************************************************************************)

Builds == 1..Len(builds)

TypeOK ==
  /\ disk \in Nat /\ noticed \subseteq 1..disk
  /\ recorded \subseteq 1..disk /\ pending \subseteq 1..disk
  /\ phase \in {"starting", "up", "closed", "failed"}
  /\ timer \in BOOLEAN /\ failure \in BOOLEAN /\ overlapped \in BOOLEAN
  /\ running \in {0} \cup Builds
  /\ queued \in {0} \cup Builds
  /\ current \in {0} \cup Builds
  /\ \A b \in Builds :
       /\ builds[b].state \in {"loading", "built", "cleared", "done"}
       /\ builds[b].outcome \in {"none", "true", "false", "rejected"}
       /\ builds[b].state = "loading" <=> builds[b].outcome = "none"
       /\ builds[b].next \in {0} \cup Builds
  /\ \A c \in Calls : calls[c] # None => calls[c].run \in Builds

\* The build whose result call c gets, 0 while it waits for it to start.
BuildOf(c) ==
  IF calls[c].after THEN builds[calls[c].run].next ELSE calls[c].run

\* What the promise of call c holds.
Result(c) ==
  IF calls[c] = None THEN "none"
  ELSE IF builds[calls[c].run].state # "done" THEN "none"
  ELSE IF calls[c].after /\ builds[calls[c].run].outcome = "rejected" THEN "rejected"
  ELSE IF BuildOf(c) = 0 THEN "none"
  ELSE IF builds[BuildOf(c)].state = "done" THEN builds[BuildOf(c)].outcome
  ELSE "none"

\* "Mid-build callers wait for the pass that will see their changes, not the
\* one already in flight" (lines 183-184): whoever is told that a reload
\* succeeded or failed is told of a build that started after the call, however
\* many reloads, runs and follow-ups are mixed up around it.
SeesItsChanges ==
  \A c \in Calls : Result(c) \in {"true", "false"} =>
    builds[BuildOf(c)].from >= calls[c].asked

\* The edits the builds have reported as changed.
Reported == UNION {builds[b].changed : b \in Builds}

\* No edit the watcher has noticed is lost between its debounce, the pending set
\* and the build that takes that (lines 135-137, 182, watch-paths.ts:66-71): it is
\* in one of the three, and nothing else is.
EditsKept == noticed = recorded \cup pending \cup Reported

\* And it is in only one, and reported by one build only.
EditsReportedOnce ==
  /\ recorded \cap pending = {}
  /\ \A b \in Builds :
       /\ builds[b].changed \cap (recorded \cup pending) = {}
       /\ \A a \in Builds : a # b => builds[a].changed \cap builds[b].changed = {}

Inv == TypeOK /\ EditsKept /\ EditsReportedOnce

\* "Every request routes through whatever the last successful reload built"
\* (lines 46-47): as long as builds have not overlapped, the build that serves is
\* the newest that loaded, and no older code replaces newer code.
ServesNewest ==
  ~overlapped => \A b \in Builds : builds[b].took =>
    b <= current /\ builds[b].read <= builds[current].read

\* Every promise reload() handed out settles, and the follow-up pass it promised
\* runs: a reported edit reaches a build.  "Reloads never reject" (lines 52-53) is
\* not so: when onReloadError throws (line 160) the run rejects, the follow-up
\* chained to it is never run, and both promises reject.  What the code does keep
\* is stated: an edit stays behind only while the follow-up it waits for is that of
\* such a run, and the rejected promise, which `queued` goes on holding, is not
\* handed to a later call.
ReloadsSettle ==
  /\ \A c \in Calls : calls[c] # None ~> Result(c) # "none"
  /\ \A e \in 1..MaxEdits :
       e \in pending ~> (e \in pending =>
                          queued # 0 /\ builds[queued].outcome = "rejected")
  /\ [][\A c \in Calls : calls[c] = None => Result(c)' = "none"]_vars

\* "Reloads never reject and never overlap" (lines 52-53).
NeverOverlap == Cardinality(Loading) <= 1
=============================================================================
