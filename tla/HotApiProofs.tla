----------------------------- MODULE HotApiProofs -----------------------------
(***************************************************************************)
(* Proofs about HotApi, for any number of calls and edits and hooks that   *)
(* throw or not: no edit is lost or reported twice, whoever is told of a reload is *)
(* told of one that saw its changes, and as long as builds have not        *)
(* overlapped the newest one serves.                                       *)
(***************************************************************************)
EXTENDS HotApi, SequenceTheorems, TLAPS

States == {"loading", "built", "cleared", "done"}
Outcomes == {"none", "true", "false", "rejected"}

BuildType ==
  [from : Nat, changed : SUBSET Nat, state : States, read : Nat, took : BOOLEAN,
   outcome : Outcomes, followed : BOOLEAN, next : Nat]
CallType == [run : Nat, after : BOOLEAN, asked : Nat]

\* The shapes TypeOK leaves open, and that nothing is known of edits to come.
Shapes ==
  /\ builds \in Seq(BuildType)
  /\ calls \in [Calls -> {None} \cup CallType]
  /\ \A b \in Builds :
       builds[b].from <= disk /\ builds[b].read <= disk /\ builds[b].changed \subseteq 1..disk

\* The follow-up of a run is started once, as the run's promise settles, and calls
\* are chained to runs whose follow-up is still to come.  A build serves once loaded.
Chained ==
  /\ current # 0 => builds[current].state # "loading"
  /\ running # 0 => builds[running].state \in {"loading", "built"}
  /\ queued # 0 => builds[queued].next = 0
  /\ \A b \in Builds : builds[b].next # 0 => builds[b].state = "done"

\* Whichever build a call is to be told of, it starts after the call.
StartsAfter ==
  \A c \in Calls : calls[c] # None =>
    /\ calls[c].asked <= disk
    /\ LET b == calls[c].run IN
       IF calls[c].after
       THEN builds[b].next # 0 => calls[c].asked <= builds[builds[b].next].from
       ELSE calls[c].asked <= builds[b].from

\* Without overlap only the last build is loading, from code at least as new as
\* any that was read before.
NewestLoads ==
  ~overlapped => \A b \in Loading :
    /\ b = Len(builds)
    /\ \A a \in Builds : builds[a].read <= builds[b].from

HInv ==
  /\ Inv /\ ServesNewest
  /\ Shapes /\ Chained /\ StartsAfter /\ NewestLoads

-----------------------------------------------------------------------------
(***************************************************************************)
(* What the steps do to the builds.                                        *)
(***************************************************************************)
\* known is the list of builds with nothing but build b rewritten.
Rewritten(known, b) ==
  /\ known \in Seq(BuildType) /\ Len(known) = Len(builds)
  /\ \A a \in Builds : a # b => known[a] = builds[a]
  /\ known[b].from = builds[b].from /\ known[b].changed = builds[b].changed

LEMMA Put ==
  ASSUME builds \in Seq(BuildType), NEW b \in Builds, NEW r \in BuildType,
         r.from = builds[b].from, r.changed = builds[b].changed
  PROVE  Rewritten([builds EXCEPT ![b] = r], b) /\ [builds EXCEPT ![b] = r][b] = r
<1> DEFINE known == [builds EXCEPT ![b] = r]
<1>1. known \in Seq(BuildType) /\ Len(known) = Len(builds)
  BY DEF Builds
<1>2. /\ \A a \in Builds : a # b => known[a] = builds[a]
      /\ known[b] = r
  BY DEF Builds
<1> QED BY <1>1, <1>2 DEF Rewritten

LEMMA EndedFacts ==
  ASSUME builds \in Seq(BuildType), NEW b \in Builds, NEW took \in BOOLEAN,
         NEW version \in Nat, NEW outcome \in Outcomes, Ended(b, took, version, outcome)
  PROVE  /\ Rewritten(builds', b)
         /\ builds'[b].state = "built" /\ builds'[b].took = took
         /\ builds'[b].read = version /\ builds'[b].outcome = outcome
         /\ builds'[b].next = builds[b].next
<1> DEFINE r == [builds[b] EXCEPT !.state = "built", !.took = took, !.read = version,
                                  !.outcome = outcome]
<1>1. builds[b] \in BuildType
  BY DEF Builds
<1>2. /\ r \in BuildType /\ r.from = builds[b].from /\ r.changed = builds[b].changed
      /\ r.state = "built" /\ r.took = took /\ r.read = version /\ r.outcome = outcome
      /\ r.next = builds[b].next
  BY <1>1 DEF BuildType, States
<1>3. builds' = [builds EXCEPT ![b] = r]
  BY DEF Ended
<1> HIDE DEF r
<1> QED BY <1>2, <1>3, Put

LEMMA StateFacts ==
  ASSUME builds \in Seq(BuildType), NEW b \in Builds, NEW state \in States
  PROVE  LET known == [builds EXCEPT ![b].state = state] IN
         /\ Rewritten(known, b)
         /\ known[b].state = state /\ known[b].took = builds[b].took
         /\ known[b].read = builds[b].read /\ known[b].outcome = builds[b].outcome
         /\ known[b].next = builds[b].next
<1> DEFINE r == [builds[b] EXCEPT !.state = state]
<1>1. builds[b] \in BuildType
  BY DEF Builds
<1>2. /\ r \in BuildType /\ r.from = builds[b].from /\ r.changed = builds[b].changed
      /\ r.state = state /\ r.took = builds[b].took /\ r.read = builds[b].read
      /\ r.outcome = builds[b].outcome /\ r.next = builds[b].next
  BY <1>1 DEF BuildType
<1>3. [builds EXCEPT ![b].state = state] = [builds EXCEPT ![b] = r]
  OBVIOUS
<1>4. Rewritten([builds EXCEPT ![b] = r], b) /\ [builds EXCEPT ![b] = r][b] = r
  BY <1>2, Put
<1> QED BY <1>2, <1>3, <1>4

LEMMA NextFacts ==
  ASSUME builds \in Seq(BuildType), NEW b \in Builds, NEW n \in Nat
  PROVE  LET known == [[builds EXCEPT ![b].state = "done"] EXCEPT ![b].next = n] IN
         /\ Rewritten(known, b)
         /\ known[b].state = "done" /\ known[b].took = builds[b].took
         /\ known[b].read = builds[b].read /\ known[b].outcome = builds[b].outcome
         /\ known[b].next = n
<1> DEFINE r == [builds[b] EXCEPT !.state = "done", !.next = n]
<1>1. builds[b] \in BuildType
  BY DEF Builds
<1>2. /\ r \in BuildType /\ r.from = builds[b].from /\ r.changed = builds[b].changed
      /\ r.state = "done" /\ r.took = builds[b].took /\ r.read = builds[b].read
      /\ r.outcome = builds[b].outcome /\ r.next = n
  BY <1>1 DEF BuildType, States
<1>3. [[builds EXCEPT ![b].state = "done"] EXCEPT ![b].next = n] = [builds EXCEPT ![b] = r]
  BY DEF Builds
<1>4. Rewritten([builds EXCEPT ![b] = r], b) /\ [builds EXCEPT ![b] = r][b] = r
  BY <1>2, Put
<1> QED BY <1>2, <1>3, <1>4

LEMMA FollowedFacts ==
  ASSUME builds \in Seq(BuildType), NEW b \in Builds
  PROVE  LET known == [builds EXCEPT ![b].followed = TRUE] IN
         /\ Rewritten(known, b)
         /\ known[b].state = builds[b].state /\ known[b].took = builds[b].took
         /\ known[b].read = builds[b].read /\ known[b].outcome = builds[b].outcome
         /\ known[b].next = builds[b].next
<1> DEFINE r == [builds[b] EXCEPT !.followed = TRUE]
<1>1. builds[b] \in BuildType
  BY DEF Builds
<1>2. /\ r \in BuildType /\ r.from = builds[b].from /\ r.changed = builds[b].changed
      /\ r.state = builds[b].state /\ r.took = builds[b].took /\ r.read = builds[b].read
      /\ r.outcome = builds[b].outcome /\ r.next = builds[b].next
  BY <1>1 DEF BuildType
<1>3. [builds EXCEPT ![b].followed = TRUE] = [builds EXCEPT ![b] = r]
  OBVIOUS
<1>4. Rewritten([builds EXCEPT ![b] = r], b) /\ [builds EXCEPT ![b] = r][b] = r
  BY <1>2, Put
<1> QED BY <1>2, <1>3, <1>4

\* A build is started behind the builds that are known.
Started(known, files) ==
  /\ builds' \in Seq(BuildType) /\ Len(builds') = Len(known) + 1
  /\ \A a \in 1..Len(known) : builds'[a] = known[a]
  /\ builds'[Len(known) + 1] = NewBuild(files)

LEMMA RunFacts ==
  ASSUME NEW known \in Seq(BuildType), NEW files \in SUBSET Nat, disk \in Nat,
         Run(known, files)
  PROVE  Started(known, files)
<1>1. NewBuild(files) \in BuildType
  BY DEF NewBuild, BuildType, States, Outcomes
<1>2. /\ builds' \in Seq(BuildType) /\ Len(builds') = Len(known) + 1
      /\ \A a \in 1..Len(known) : builds'[a] = known[a]
      /\ builds'[Len(known) + 1] = NewBuild(files)
  BY <1>1, AppendProperties DEF Run
<1> QED BY <1>2 DEF Started

-----------------------------------------------------------------------------
(***************************************************************************)
(* The kinds of steps.                                                     *)
(***************************************************************************)
Ends(b) ==
  /\ b \in Loading /\ Rewritten(builds', b)
  /\ builds'[b].state = "built" /\ builds'[b].outcome # "none"
  /\ builds'[b].next = builds[b].next
  /\ \/ /\ builds'[b].took /\ current' = b
        /\ builds'[b].read \in builds[b].from..disk
     \/ ~builds'[b].took /\ builds'[b].read = 0 /\ current' = current
  /\ UNCHANGED <<watchVars, running, queued, pending, calls, overlapped>>

\* Build b goes on to its next state, and perhaps a follow-up to its start.
GoesOn(known, b) ==
  /\ Rewritten(known, b)
  /\ <<builds[b].state, known[b].state>> \in {<<"built", "cleared">>, <<"cleared", "done">>}
  /\ known[b].took = builds[b].took /\ known[b].read = builds[b].read
  /\ known[b].outcome = builds[b].outcome

Clears(b) ==
  /\ b \in Builds /\ GoesOn(builds', b)
  /\ builds'[b].next = builds[b].next
  /\ running' \in {0, running} /\ (builds[b].state = "built" => running' = 0)
  /\ UNCHANGED <<watchVars, queued, pending, current, calls, overlapped>>

Follows(b) ==
  /\ b \in Builds
  /\ \E known : /\ GoesOn(known, b) /\ builds[b].state = "cleared"
                /\ known[b].next = Len(builds) + 1
                /\ Run(known, pending) /\ Started(known, pending)
  /\ UNCHANGED <<watchVars, current, calls>>

\* Reload: a build of its own, or the follow-up of the run in progress.
Runs(files) ==
  running = 0 /\ Run(builds, pending \cup files) /\ Started(builds, pending \cup files)

Joins(files) ==
  /\ running # 0 /\ queued = 0 /\ queued' = running /\ pending' = pending \cup files
  /\ Rewritten(builds', running)
  /\ builds'[running].state = builds[running].state
  /\ builds'[running].took = builds[running].took
  /\ builds'[running].read = builds[running].read
  /\ builds'[running].outcome = builds[running].outcome
  /\ builds'[running].next = builds[running].next
  /\ UNCHANGED <<running, overlapped>>

Waits(files) ==
  /\ running # 0 /\ queued # 0 /\ pending' = pending \cup files
  /\ UNCHANGED <<builds, running, queued, overlapped>>

Reloads(files) == Runs(files) \/ Joins(files) \/ Waits(files)

Quiet ==
  /\ timer' \in BOOLEAN
  /\ \/ UNCHANGED <<disk, recorded, noticed>>
     \/ disk' = disk + 1 /\ UNCHANGED <<recorded, noticed>>
     \/ /\ disk' = disk + 1
        /\ recorded' = recorded \cup {disk'} /\ noticed' = noticed \cup {disk'}
  /\ phase' \in {"starting", "up", "closed", "failed"}
  /\ UNCHANGED <<reloadVars, current, calls, overlapped>>

LEMMA ReloadKinds ==
  ASSUME TypeOK, Shapes, NEW files \in SUBSET Nat, Reload(files)
  PROVE  Reloads(files)
<1>1. builds \in Seq(BuildType) /\ disk \in Nat /\ pending \cup files \in SUBSET Nat
  BY DEF TypeOK, Shapes
<1>2. CASE running = 0
  BY <1>1, <1>2, RunFacts DEF Reload, Reloads, Runs
<1>3. CASE running # 0 /\ queued = 0
  <2>1. /\ pending' = pending \cup files /\ queued' = running
        /\ builds' = [builds EXCEPT ![running].followed = TRUE]
        /\ UNCHANGED <<running, overlapped>>
    BY <1>3 DEF Reload
  <2>2. running \in Builds
    BY <1>3 DEF TypeOK
  <2> QED BY <1>1, <1>3, <2>1, <2>2, FollowedFacts DEF Reloads, Joins
<1>4. CASE running # 0 /\ queued # 0
  BY <1>4 DEF Reload, Reloads, Waits
<1> QED BY <1>2, <1>3, <1>4

Kinds ==
  \/ \E b \in Builds : Ends(b) \/ Clears(b) \/ Follows(b)
  \/ /\ Reloads({}) /\ UNCHANGED <<watchVars, current>>
     /\ \E c \in Calls : calls[c] = None /\ calls' = [calls EXCEPT ![c] = Promise]
  \/ /\ Reloads(recorded) /\ recorded' = {} /\ timer' = FALSE
     /\ UNCHANGED <<disk, phase, noticed, current, calls>>
  \/ Quiet

LEMMA StepKinds == ASSUME TypeOK, Shapes, [Next]_vars PROVE Kinds
<1>0. builds \in Seq(BuildType) /\ disk \in Nat /\ recorded \subseteq Nat /\ pending \subseteq Nat
  BY DEF TypeOK, Shapes
<1>1. ASSUME NEW b \in Builds, LoadSucceeds(b) PROVE Ends(b)
  <2>1. PICK version \in builds[b].from..disk :
          \E outcome \in {"true", "false", "rejected"} : Ended(b, TRUE, version, outcome)
    BY <1>1 DEF LoadSucceeds, Caught
  <2>2. version \in Nat
    <3>1. builds[b] \in BuildType
      BY <1>0 DEF Builds
    <3>2. builds[b].from \in Nat
      BY <3>1 DEF BuildType
    <3> QED BY <1>0, <3>2
  <2>3. PICK outcome \in {"true", "false", "rejected"} : Ended(b, TRUE, version, outcome)
    BY <2>1
  <2>4. /\ Rewritten(builds', b)
        /\ builds'[b].state = "built" /\ builds'[b].took = TRUE
        /\ builds'[b].read = version /\ builds'[b].outcome = outcome
        /\ builds'[b].next = builds[b].next
    BY ZenonT(30), <1>0, <2>2, <2>3, EndedFacts DEF Outcomes
  <2> QED BY <1>1, <2>1, <2>3, <2>4 DEF LoadSucceeds, Ends
<1>2. ASSUME NEW b \in Builds, LoadFails(b) PROVE Ends(b)
  <2>1. PICK outcome \in {"false", "rejected"} : Ended(b, FALSE, 0, outcome)
    BY <1>2 DEF LoadFails, Caught
  <2>2. /\ Rewritten(builds', b)
        /\ builds'[b].state = "built" /\ builds'[b].took = FALSE
        /\ builds'[b].read = 0 /\ builds'[b].outcome = outcome
        /\ builds'[b].next = builds[b].next
    BY ZenonT(30), <1>0, <2>1, EndedFacts DEF Outcomes
  <2> QED BY <1>2, <2>1, <2>2 DEF LoadFails, Ends
<1>3. ASSUME NEW b \in Builds, Clear(b) PROVE Clears(b)
  BY <1>0, <1>3, StateFacts DEF Clear, Clears, GoesOn, States
<1>4. ASSUME NEW b \in Builds, Resolve(b) PROVE Clears(b) \/ Follows(b)
  <2> DEFINE told == [builds EXCEPT ![b].state = "done"]
             known == [told EXCEPT ![b].next = Len(builds) + 1]
  <2>1. Len(builds) + 1 \in Nat
    BY <1>0, LenProperties
  <2>2. GoesOn(told, b) /\ told[b].next = builds[b].next
    BY <1>0, <1>4, StateFacts DEF Resolve, GoesOn, States
  <2>3. GoesOn(known, b) /\ known[b].next = Len(builds) + 1
    BY ZenonT(30), <1>0, <1>4, <2>1, NextFacts DEF Resolve, GoesOn
  <2>4. \/ Run(known, pending)
        \/ builds' = told /\ UNCHANGED <<running, queued, pending, overlapped>>
    BY <1>4 DEF Resolve
  <2>5. builds[b].state = "cleared" /\ UNCHANGED <<watchVars, current, calls>>
    BY <1>4 DEF Resolve
  <2> HIDE DEF told, known
  <2>6. CASE Run(known, pending)
    <3>1. known \in Seq(BuildType)
      BY <2>3 DEF GoesOn, Rewritten
    <3>2. Started(known, pending)
      BY <1>0, <2>6, <3>1, RunFacts
    <3> QED BY <2>3, <2>5, <2>6, <3>2 DEF Follows
  <2>7. CASE builds' = told /\ UNCHANGED <<running, queued, pending, overlapped>>
    BY <2>2, <2>5, <2>7 DEF Clears
  <2> QED BY <2>4, <2>6, <2>7
<1>5. ASSUME NEW c \in Calls, CallReload(c) PROVE Kinds
  BY <1>5, ReloadKinds DEF CallReload, Kinds
<1>6. CASE Flush
  BY <1>0, <1>6, ReloadKinds DEF Flush, Kinds
<1>7. CASE Watch
  BY <1>7 DEF Watch, Kinds, Quiet, TypeOK
<1>8. CASE Close \/ Edit
  BY <1>8 DEF Close, Edit, Kinds, Quiet, TypeOK
<1>9. CASE UNCHANGED vars
  BY <1>9 DEF vars, watchVars, Kinds, Quiet, TypeOK
<1>10. CASE BuildStep
  BY <1>1, <1>2, <1>3, <1>4, <1>10 DEF BuildStep, Builds, Kinds
<1> QED BY <1>5, <1>6, <1>7, <1>8, <1>9, <1>10 DEF Next

\* A started build loads, from the code now on disk, and with it the record of what
\* is pending, running and queued starts anew.
LEMMA NewFacts ==
  ASSUME disk \in Nat, NEW files \in SUBSET Nat
  PROVE  /\ NewBuild(files) \in BuildType
         /\ NewBuild(files).from = disk /\ NewBuild(files).changed = files
         /\ NewBuild(files).state = "loading" /\ NewBuild(files).outcome = "none"
         /\ NewBuild(files).read = 0 /\ NewBuild(files).took = FALSE
         /\ NewBuild(files).next = 0
BY DEF NewBuild, BuildType, States, Outcomes

\* What all steps have in common.
LEMMA BuildsNext ==
  ASSUME TypeOK, EditsReportedOnce, Shapes, Kinds
  PROVE  /\ builds' \in Seq(BuildType) /\ Len(builds') \in {Len(builds), Len(builds) + 1}
         /\ \A b \in Builds : /\ builds'[b].from = builds[b].from
                              /\ builds'[b].changed = builds[b].changed
         /\ Len(builds') # Len(builds) =>
              LET n == Len(builds) + 1 IN
              /\ builds'[n] = NewBuild(builds'[n].changed)
              /\ builds'[n].changed = (pending \cup recorded) \ recorded'
              /\ running' = n /\ queued' = 0 /\ pending' = {}
              /\ overlapped' = (overlapped \/ Loading # {})
              /\ UNCHANGED <<disk, current>>
<1> USE DEF Builds
<1>0. /\ builds \in Seq(BuildType) /\ disk \in Nat /\ pending \in SUBSET Nat
      /\ recorded \in SUBSET Nat /\ Len(builds) \in Nat
  BY LenProperties DEF TypeOK, Shapes
<1>1. ASSUME NEW b \in Builds, Ends(b) \/ Clears(b) PROVE Rewritten(builds', b)
  BY <1>1 DEF Ends, Clears, GoesOn
<1>2. ASSUME NEW b \in Builds, Rewritten(builds', b)
      PROVE  /\ builds' \in Seq(BuildType) /\ Len(builds') = Len(builds)
             /\ \A a \in Builds : /\ builds'[a].from = builds[a].from
                                  /\ builds'[a].changed = builds[a].changed
  BY <1>2 DEF Rewritten
<1>3. ASSUME NEW known \in Seq(BuildType), NEW files \in {(pending \cup recorded) \ recorded'},
             Len(known) = Len(builds), Started(known, files), Run(known, files),
             \A a \in Builds : /\ known[a].from = builds[a].from
                               /\ known[a].changed = builds[a].changed,
             UNCHANGED <<disk, current>>
      PROVE  /\ builds' \in Seq(BuildType) /\ Len(builds') = Len(builds) + 1
             /\ \A b \in Builds : /\ builds'[b].from = builds[b].from
                                  /\ builds'[b].changed = builds[b].changed
             /\ LET n == Len(builds) + 1 IN
                /\ builds'[n] = NewBuild(builds'[n].changed)
                /\ builds'[n].changed = (pending \cup recorded) \ recorded'
                /\ running' = n /\ queued' = 0 /\ pending' = {}
                /\ overlapped' = (overlapped \/ Loading # {})
                /\ UNCHANGED <<disk, current>>
  <2>1. NewBuild(files).changed = files
    BY <1>0, NewFacts
  <2>2. builds'[Len(builds) + 1] = NewBuild(files)
    BY <1>3 DEF Started
  <2> QED BY <1>3, <2>1, <2>2 DEF Started, Run
<1>4. ASSUME NEW b \in Builds, Follows(b)
      PROVE  \E known \in Seq(BuildType) :
               /\ recorded' = recorded
               /\ Len(known) = Len(builds) /\ Started(known, pending) /\ Run(known, pending)
               /\ \A a \in Builds : /\ known[a].from = builds[a].from
                                    /\ known[a].changed = builds[a].changed
               /\ UNCHANGED <<disk, current>>
  <2>1. PICK known : /\ GoesOn(known, b) /\ Run(known, pending) /\ Started(known, pending)
    BY <1>4 DEF Follows
  <2>2. /\ known \in Seq(BuildType) /\ Len(known) = Len(builds)
        /\ \A a \in Builds : /\ known[a].from = builds[a].from
                             /\ known[a].changed = builds[a].changed
    BY <2>1 DEF GoesOn, Rewritten
  <2> QED BY <1>4, <2>1, <2>2 DEF Follows, watchVars
<1>5. ASSUME NEW files \in {{}, recorded}, Runs(files), UNCHANGED <<disk, current>>
      PROVE  \E known \in Seq(BuildType) :
               /\ Len(known) = Len(builds) /\ Started(known, pending \cup files)
               /\ Run(known, pending \cup files)
               /\ \A a \in Builds : /\ known[a].from = builds[a].from
                                    /\ known[a].changed = builds[a].changed
               /\ UNCHANGED <<disk, current>>
  BY <1>0, <1>5 DEF Runs
<1>6. ASSUME NEW files, Joins(files) PROVE Rewritten(builds', running) /\ running \in Builds
  BY <1>6 DEF Joins, TypeOK
<1>7. CASE \E b \in Builds : Ends(b) \/ Clears(b) \/ Follows(b)
  <2>1. recorded' = recorded => pending = (pending \cup recorded) \ recorded'
    BY DEF EditsReportedOnce
  <2> QED BY <1>0, <1>1, <1>2, <1>3, <1>4, <1>7, <2>1
<1>8. ASSUME NEW files \in {{}, recorded}, Reloads(files), UNCHANGED <<disk, current>>,
             recorded' = recorded \ files
      PROVE  \/ UNCHANGED builds
             \/ \E b \in Builds : Rewritten(builds', b)
             \/ \E known \in Seq(BuildType), taken \in {(pending \cup recorded) \ recorded'} :
                  /\ Len(known) = Len(builds) /\ Started(known, taken) /\ Run(known, taken)
                  /\ \A a \in Builds : /\ known[a].from = builds[a].from
                                       /\ known[a].changed = builds[a].changed
                  /\ UNCHANGED <<disk, current>>
  <2>1. CASE Runs(files)
    <3>1. pending \cup files = (pending \cup recorded) \ recorded'
      BY <1>8 DEF EditsReportedOnce
    <3> QED BY <1>5, <1>8, <2>1, <3>1
  <2>2. CASE Joins(files)
    BY <1>6, <2>2
  <2>3. CASE Waits(files)
    BY <2>3 DEF Waits
  <2> QED BY <1>8, <2>1, <2>2, <2>3 DEF Reloads
<1>9. CASE \E files \in {{}, recorded} :
             /\ Reloads(files) /\ UNCHANGED <<disk, current>> /\ recorded' = recorded \ files
  BY <1>0, <1>2, <1>3, <1>8, <1>9
<1>10. CASE Quiet
  BY <1>0, <1>10 DEF Quiet, reloadVars
<1> QED BY <1>7, <1>9, <1>10 DEF Kinds, watchVars

\* What becomes of a build that was there before the step.
Advances(b) ==
  /\ builds'[b].outcome = builds[b].outcome /\ builds'[b].took = builds[b].took
  /\ builds'[b].read = builds[b].read
  /\ builds[b].state = "built" /\ builds'[b].state = "cleared" => running' = 0
  /\ \/ /\ \/ builds'[b].state = builds[b].state
           \/ <<builds[b].state, builds'[b].state>>
                \in {<<"built", "cleared">>, <<"cleared", "done">>}
        /\ builds'[b].next = builds[b].next
     \/ /\ builds[b].state = "cleared" /\ builds'[b].state = "done"
        /\ builds'[b].next = Len(builds) + 1 /\ Len(builds') = Len(builds) + 1
        /\ queued' = 0

LEMMA OldBuilds ==
  ASSUME TypeOK, Shapes, Kinds, NEW b \in Builds
  PROVE  Ends(b) \/ Advances(b)
<1> USE DEF Builds
<1>1. ASSUME builds'[b] = builds[b] PROVE Advances(b)
  BY <1>1 DEF Advances
<1>2. ASSUME NEW a \in Builds, Ends(a) \/ Clears(a) PROVE Ends(b) \/ Advances(b)
  BY <1>1, <1>2 DEF Ends, Clears, GoesOn, Rewritten, Advances
<1>3. ASSUME NEW a \in Builds, Follows(a) PROVE Advances(b)
  <2>1. PICK known : /\ GoesOn(known, a) /\ builds[a].state = "cleared"
                     /\ known[a].next = Len(builds) + 1
                     /\ Run(known, pending) /\ Started(known, pending)
    BY <1>3 DEF Follows
  <2>2. Len(known) = Len(builds) /\ builds'[b] = known[b] /\ queued' = 0
    BY <2>1 DEF GoesOn, Rewritten, Started, Run
  <2>3. Len(builds') = Len(builds) + 1
    BY <2>1, <2>2 DEF Started
  <2>4. CASE a = b
    BY <2>1, <2>2, <2>3, <2>4 DEF GoesOn, Advances
  <2>5. CASE a # b
    <3>1. builds'[b] = builds[b]
      BY <2>1, <2>2, <2>5 DEF GoesOn, Rewritten
    <3> QED BY <1>1, <3>1
  <2> QED BY <2>4, <2>5
<1>4. ASSUME NEW files, Reloads(files) PROVE Advances(b)
  <2>1. CASE Runs(files)
    BY <1>1, <2>1 DEF Runs, Started
  <2>2. CASE Joins(files)
    BY <1>1, <2>2 DEF Joins, Rewritten, Advances
  <2>3. CASE Waits(files)
    BY <1>1, <2>3 DEF Waits
  <2> QED BY <1>4, <2>1, <2>2, <2>3 DEF Reloads
<1>5. CASE Quiet
  BY <1>1, <1>5 DEF Quiet, reloadVars
<1> QED BY <1>2, <1>3, <1>4, <1>5 DEF Kinds

\* What becomes of the edits.
LEMMA EditsNext ==
  ASSUME TypeOK, EditsReportedOnce, Shapes, Kinds
  PROVE  /\ disk' \in {disk, disk + 1}
         /\ recorded' \subseteq 1..disk' /\ pending' \subseteq 1..disk'
         /\ noticed' \subseteq 1..disk'
         /\ recorded' \cap pending' = {}
         /\ recorded' \cup pending' \subseteq recorded \cup pending \cup (1..disk' \ 1..disk)
         /\ timer' \in BOOLEAN /\ phase' \in {"starting", "up", "closed", "failed"}
<1>0. /\ disk \in Nat /\ recorded \subseteq 1..disk /\ pending \subseteq 1..disk
      /\ noticed \subseteq 1..disk /\ recorded \cap pending = {}
  BY DEF TypeOK, EditsReportedOnce
<1>1. ASSUME NEW files, Reloads(files)
      PROVE  pending' = {} \/ pending' = pending \cup files
  BY <1>1 DEF Reloads, Runs, Joins, Waits, Run
<1>2. CASE \E b \in Builds : Ends(b) \/ Clears(b) \/ Follows(b)
  <2>1. UNCHANGED watchVars /\ pending' \in {{}, pending}
    BY <1>2 DEF Ends, Clears, Follows, Run
  <2> QED BY <1>0, <2>1 DEF watchVars, TypeOK
<1>3. CASE Reloads({}) /\ UNCHANGED <<watchVars, current>>
  BY <1>0, <1>1, <1>3 DEF watchVars, TypeOK
<1>4. CASE Reloads(recorded) /\ recorded' = {} /\ timer' = FALSE
           /\ UNCHANGED <<disk, phase, noticed, current, calls>>
  BY <1>0, <1>1, <1>4 DEF TypeOK
<1>5. CASE Quiet
  <2>1. phase' \in {"starting", "up", "closed", "failed"} /\ pending' = pending
        /\ timer' \in BOOLEAN
    BY <1>5 DEF Quiet, reloadVars
  <2>2. CASE UNCHANGED <<disk, recorded, noticed>>
    BY <1>0, <2>1, <2>2
  <2>3. CASE disk' = disk + 1 /\ UNCHANGED <<recorded, noticed>>
    BY <1>0, <2>1, <2>3
  <2>4. CASE /\ disk' = disk + 1
             /\ recorded' = recorded \cup {disk'} /\ noticed' = noticed \cup {disk'}
    BY <1>0, <2>1, <2>4
  <2> QED BY <1>5, <2>2, <2>3, <2>4 DEF Quiet
<1> QED BY <1>2, <1>3, <1>4, <1>5 DEF Kinds

LEMMA KeptNext ==
  ASSUME TypeOK, EditsKept, EditsReportedOnce, Shapes, Kinds
  PROVE  EditsKept'
<1>0. Len(builds) \in Nat /\ Builds = 1..Len(builds) /\ Builds' = 1..Len(builds')
  BY LenProperties DEF Shapes, Builds
<1>1. \A b \in Builds : builds'[b].changed = builds[b].changed
  BY BuildsNext
<1>2. CASE Len(builds') # Len(builds)
  <2> DEFINE n == Len(builds) + 1
  <2>1. /\ Len(builds') = n /\ pending' = {} /\ disk' = disk
        /\ builds'[n].changed = (pending \cup recorded) \ recorded'
    BY <1>2, BuildsNext
  <2>2. Builds' = Builds \cup {n}
    BY <1>0, <2>1
  <2> HIDE DEF n
  <2>3. Reported' = Reported \cup builds'[n].changed
    BY <1>1, <2>2 DEF Reported
  <2>4. noticed' = noticed /\ recorded' \subseteq recorded
    <3>1. CASE Quiet
      BY <1>2, <3>1 DEF Quiet, reloadVars
    <3> QED BY <3>1 DEF Kinds, Ends, Clears, Follows, watchVars
  <2> QED BY <2>1, <2>3, <2>4 DEF EditsKept
<1>3. CASE Len(builds') = Len(builds)
  <2>1. Reported' = Reported
    BY <1>0, <1>1, <1>3 DEF Reported
  <2>2. ASSUME NEW files, Reloads(files) PROVE pending' = pending \cup files
    <3>1. ~Runs(files)
      BY <1>0, <1>3 DEF Runs, Started
    <3> QED BY <2>2, <3>1 DEF Reloads, Joins, Waits
  <2>3. CASE \E b \in Builds : Ends(b) \/ Clears(b) \/ Follows(b)
    <3>1. ASSUME NEW b \in Builds PROVE ~Follows(b)
      BY <1>0, <1>3 DEF Follows, GoesOn, Rewritten, Started
    <3> QED BY <2>1, <2>3, <3>1 DEF Ends, Clears, watchVars, EditsKept
  <2>4. CASE Reloads({}) /\ UNCHANGED <<watchVars, current>>
    BY <2>1, <2>2, <2>4 DEF watchVars, EditsKept
  <2>5. CASE Reloads(recorded) /\ recorded' = {} /\ noticed' = noticed
    BY <2>1, <2>2, <2>5 DEF EditsKept
  <2>6. CASE Quiet
    BY <2>1, <2>6 DEF Quiet, reloadVars, EditsKept
  <2> QED BY <2>3, <2>4, <2>5, <2>6 DEF Kinds
<1> QED BY <1>2, <1>3

LEMMA ReportedNext ==
  ASSUME TypeOK, EditsReportedOnce, Shapes, Kinds
  PROVE  /\ EditsReportedOnce'
         /\ \A b \in Builds' : builds'[b].changed \subseteq 1..disk'
<1>0. /\ disk \in Nat /\ Len(builds) \in Nat /\ recorded \subseteq 1..disk
      /\ pending \subseteq 1..disk
      /\ \A b \in Builds : builds[b].changed \subseteq 1..disk
  BY LenProperties DEF TypeOK, Shapes
<1>1. Builds' = 1..Len(builds') /\ Builds = 1..Len(builds)
  BY DEF Builds
<1>2. ASSUME NEW b \in Builds
      PROVE  /\ builds'[b].changed = builds[b].changed
             /\ builds'[b].changed \cap (recorded' \cup pending') = {}
             /\ builds'[b].changed \subseteq 1..disk'
  <2>1. builds'[b].changed = builds[b].changed
    BY BuildsNext
  <2>2. recorded' \cup pending' \subseteq recorded \cup pending \cup (1..disk' \ 1..disk)
        /\ disk' \in {disk, disk + 1}
    BY EditsNext
  <2>3. builds[b].changed \cap (recorded \cup pending) = {}
    BY DEF EditsReportedOnce
  <2> QED BY <1>0, <2>1, <2>2, <2>3
<1>3. CASE Len(builds') = Len(builds)
  <2>1. recorded' \cap pending' = {}
    BY EditsNext
  <2>2. \A a, b \in Builds : a # b => builds[a].changed \cap builds[b].changed = {}
    BY DEF EditsReportedOnce
  <2> QED BY <1>1, <1>2, <1>3, <2>1, <2>2 DEF EditsReportedOnce
<1>4. CASE Len(builds') # Len(builds)
  <2> DEFINE n == Len(builds) + 1
  <2>1. /\ Len(builds') = n /\ pending' = {} /\ disk' = disk
        /\ builds'[n].changed \subseteq (pending \cup recorded) \ recorded'
    BY <1>4, BuildsNext
  <2>2. \A b \in Builds' : b \in Builds \/ b = n
    BY <1>0, <1>1, <2>1
  <2>3. \A a, b \in Builds : a # b => builds[a].changed \cap builds[b].changed = {}
    BY DEF EditsReportedOnce
  <2>4. \A b \in Builds : builds[b].changed \cap builds'[n].changed = {}
    BY <2>1 DEF EditsReportedOnce
  <2>5. builds'[n].changed \subseteq 1..disk'
    BY <1>0, <2>1
  <2> HIDE DEF n
  <2>6. \A a, b \in Builds' : a # b => builds'[a].changed \cap builds'[b].changed = {}
    BY <1>2, <2>2, <2>3, <2>4
  <2>7. \A b \in Builds' : /\ builds'[b].changed \cap (recorded' \cup pending') = {}
                           /\ builds'[b].changed \subseteq 1..disk'
    BY <1>2, <2>1, <2>2, <2>5
  <2> QED BY <2>1, <2>6, <2>7 DEF EditsReportedOnce
<1> QED BY <1>3, <1>4

\* What the step does to what runs, waits and serves.
LEMMA RunningNext ==
  ASSUME TypeOK, EditsReportedOnce, Shapes, Kinds
  PROVE  /\ Len(builds') = Len(builds) =>
              /\ running' \in {0, running}
              /\ \/ queued' = queued
                 \/ queued = 0 /\ running # 0 /\ queued' = running
         /\ \/ current' = current
            \/ \E b \in Builds : Ends(b) /\ builds'[b].took /\ current' = b
<1>0. Len(builds) \in Nat
  BY LenProperties DEF Shapes
<1>1. ASSUME NEW known, NEW files, Started(known, files), Len(known) = Len(builds)
      PROVE  Len(builds') # Len(builds)
  BY <1>0, <1>1 DEF Started
<1>2. ASSUME NEW b \in Builds, Ends(b) \/ Clears(b)
      PROVE  /\ running' \in {0, running} /\ queued' = queued
             /\ current' = current \/ (Ends(b) /\ builds'[b].took /\ current' = b)
  <2>1. CASE Ends(b)
    <3>1. running' = running /\ queued' = queued
      BY <2>1 DEF Ends
    <3>2. current' = current \/ (builds'[b].took /\ current' = b)
      BY <2>1 DEF Ends
    <3> QED BY <2>1, <3>1, <3>2
  <2>2. CASE Clears(b)
    <3>1. running' \in {0, running} /\ queued' = queued
      BY <2>2 DEF Clears
    <3>2. current' = current
      BY <2>2 DEF Clears
    <3> QED BY <3>1, <3>2
  <2> QED BY <1>2, <2>1, <2>2
<1>3. ASSUME NEW b \in Builds, Follows(b)
      PROVE  Len(builds') # Len(builds) /\ current' = current
  BY <1>1, <1>3 DEF Follows, GoesOn, Rewritten
<1>4. ASSUME NEW files, Reloads(files)
      PROVE  \/ Len(builds') # Len(builds)
             \/ /\ running' = running
                /\ queued' = queued \/ (queued = 0 /\ running # 0 /\ queued' = running)
  <2>1. CASE Runs(files)
    BY <1>1, <2>1 DEF Runs
  <2>2. CASE Joins(files)
    BY <2>2 DEF Joins
  <2>3. CASE Waits(files)
    BY <2>3 DEF Waits
  <2> QED BY <1>4, <2>1, <2>2, <2>3 DEF Reloads
<1>5. CASE Quiet
  BY <1>5 DEF Quiet, reloadVars
<1> QED BY <1>2, <1>3, <1>4, <1>5 DEF Kinds, watchVars

LEMMA OverlappedNext ==
  ASSUME Shapes, Kinds, Len(builds') = Len(builds)
  PROVE  overlapped' = overlapped
<1>0. Len(builds) \in Nat
  BY LenProperties DEF Shapes
<1>1. ASSUME NEW b \in Builds, Ends(b) PROVE overlapped' = overlapped
  BY <1>1 DEF Ends
<1>2. ASSUME NEW b \in Builds, Clears(b) PROVE overlapped' = overlapped
  BY <1>2 DEF Clears
<1>3. ASSUME NEW b \in Builds, Follows(b) PROVE FALSE
  <2>1. PICK known : GoesOn(known, b) /\ Started(known, pending)
    BY <1>3 DEF Follows
  <2> QED BY <1>0, <2>1 DEF GoesOn, Rewritten, Started
<1>4. ASSUME NEW files, Reloads(files) PROVE overlapped' = overlapped
  <2>1. ~Runs(files)
    BY <1>0 DEF Runs, Started
  <2>2. CASE Joins(files)
    BY <2>2 DEF Joins
  <2>3. CASE Waits(files)
    BY <2>3 DEF Waits
  <2> QED BY <1>4, <2>1, <2>2, <2>3 DEF Reloads
<1>5. CASE Quiet
  BY <1>5 DEF Quiet
<1> QED BY <1>1, <1>2, <1>3, <1>4, <1>5 DEF Kinds

\* A call made in this step is given the run it started, or one to chain to.
LEMMA CallsNext ==
  ASSUME TypeOK, EditsReportedOnce, Shapes, Kinds, NEW c \in Calls, calls'[c] # None
  PROVE  /\ calls' \in [Calls -> {None} \cup CallType]
         /\ \/ calls'[c] = calls[c] /\ calls[c] # None
            \/ /\ calls[c] = None /\ calls'[c].asked = disk /\ disk' = disk
               /\ \/ ~calls'[c].after /\ calls'[c].run = Len(builds) + 1
                     /\ Len(builds') = Len(builds) + 1
                  \/ calls'[c].after /\ calls'[c].run = queued' /\ queued' # 0
<1>0. /\ calls \in [Calls -> {None} \cup CallType] /\ disk \in Nat /\ Len(builds) \in Nat
      /\ queued \in Nat /\ running \in Nat
  BY LenProperties DEF TypeOK, Shapes, Builds
<1>1. CASE UNCHANGED calls
  BY <1>0, <1>1
<1>2. ASSUME NEW d \in Calls, calls[d] = None, calls' = [calls EXCEPT ![d] = Promise],
             Reloads({}), UNCHANGED disk
      PROVE  /\ calls' \in [Calls -> {None} \cup CallType]
             /\ \/ calls'[c] = calls[c] /\ calls[c] # None
                \/ /\ calls[c] = None /\ calls'[c].asked = disk /\ disk' = disk
                   /\ \/ ~calls'[c].after /\ calls'[c].run = Len(builds) + 1
                         /\ Len(builds') = Len(builds) + 1
                      \/ calls'[c].after /\ calls'[c].run = queued' /\ queued' # 0
  <2>1. /\ running = 0 => Len(builds') = Len(builds) + 1
        /\ running # 0 => queued' # 0 /\ queued' \in Nat
    BY <1>0, <1>2 DEF Reloads, Runs, Started, Joins, Waits
  <2>2. /\ Promise \in CallType /\ Promise.asked = disk
        /\ running = 0 => ~Promise.after /\ Promise.run = Len(builds) + 1
        /\ running # 0 => Promise.after /\ Promise.run = queued'
    BY <1>0, <2>1 DEF Promise, CallType
  <2> HIDE DEF Promise
  <2>3. calls' \in [Calls -> {None} \cup CallType]
    BY <1>0, <1>2, <2>2
  <2>4. CASE c = d
    <3>1. calls'[c] = Promise
      BY <1>0, <1>2, <2>4
    <3> QED BY <1>2, <2>1, <2>2, <2>3, <2>4, <3>1
  <2>5. CASE c # d
    <3>1. calls'[c] = calls[c]
      BY <1>0, <1>2, <2>5
    <3> QED BY <2>3, <3>1
  <2> QED BY <2>4, <2>5
<1> QED BY <1>1, <1>2 DEF Kinds, Ends, Clears, Follows, Quiet, watchVars

LEMMA ShapesNext ==
  ASSUME TypeOK, EditsReportedOnce, Shapes, Kinds
  PROVE  Shapes'
<1>0. /\ builds \in Seq(BuildType) /\ Len(builds) \in Nat /\ disk \in Nat
      /\ disk' \in {disk, disk + 1}
  BY LenProperties, EditsNext DEF TypeOK, Shapes
<1>1. builds' \in Seq(BuildType)
  BY BuildsNext
<1>2. calls' \in [Calls -> {None} \cup CallType]
  <2>1. CASE \E c \in Calls : calls'[c] # None
    BY <2>1, CallsNext
  <2>2. CASE \A c \in Calls : calls'[c] = None
    <3>1. calls \in [Calls -> {None} \cup CallType]
      BY DEF Shapes
    <3>2. DOMAIN calls' = Calls /\ calls' = [c \in Calls |-> calls'[c]]
      BY <3>1 DEF Kinds, Ends, Clears, Follows, Quiet
    <3> QED BY <2>2, <3>2
  <2> QED BY <2>1, <2>2
<1>3. ASSUME NEW b \in Builds
      PROVE  builds'[b].from <= disk' /\ builds'[b].read <= disk'
  <2>1. builds[b] \in BuildType
    BY <1>0 DEF Builds
  <2>2. /\ builds[b].from \in Nat /\ builds[b].read \in Nat
        /\ builds[b].from <= disk /\ builds[b].read <= disk
    BY <2>1 DEF BuildType, Shapes
  <2>3. builds'[b].from = builds[b].from
    BY BuildsNext
  <2>4. CASE Advances(b)
    BY <1>0, <2>2, <2>3, <2>4 DEF Advances
  <2>5. CASE Ends(b)
    BY <1>0, <2>2, <2>3, <2>5 DEF Ends, watchVars
  <2> QED BY <2>4, <2>5, OldBuilds
<1>4. CASE Len(builds') = Len(builds)
  BY <1>1, <1>2, <1>3, <1>4, ReportedNext DEF Shapes, Builds
<1>5. CASE Len(builds') # Len(builds)
  <2> DEFINE n == Len(builds) + 1
  <2>1. /\ Len(builds') = n /\ builds'[n] = NewBuild(builds'[n].changed)
        /\ builds'[n].changed \in SUBSET Nat /\ disk' = disk
    <3>1. recorded \subseteq Nat /\ pending \subseteq Nat
      BY DEF TypeOK
    <3> QED BY <1>5, <3>1, BuildsNext
  <2>2. builds'[n].from = disk /\ builds'[n].read = 0
    <3>1. \A files \in SUBSET Nat : NewBuild(files).from = disk /\ NewBuild(files).read = 0
      BY <1>0, NewFacts
    <3> QED BY <2>1, <3>1
  <2>3. \A b \in Builds' : b \in Builds \/ b = n
    BY <1>0, <2>1 DEF Builds
  <2> HIDE DEF n
  <2>4. \A b \in Builds' : builds'[b].from <= disk' /\ builds'[b].read <= disk'
    BY <1>0, <1>3, <2>1, <2>2, <2>3
  <2> QED BY <1>1, <1>2, <2>4, ReportedNext DEF Shapes
<1> QED BY <1>4, <1>5

\* The build a step starts, if it starts one.
LEMMA LastBuild ==
  ASSUME TypeOK, EditsReportedOnce, Shapes, Kinds, Len(builds') # Len(builds)
  PROVE  LET n == Len(builds) + 1 IN
         /\ Len(builds') = n /\ n \in Nat /\ Builds' = Builds \cup {n} /\ n \notin Builds
         /\ running' = n /\ queued' = 0 /\ disk' = disk /\ current' = current
         /\ builds'[n].from = disk /\ builds'[n].state = "loading"
         /\ builds'[n].outcome = "none" /\ builds'[n].read = 0 /\ builds'[n].took = FALSE
         /\ builds'[n].next = 0
<1> DEFINE n == Len(builds) + 1
<1>1. /\ Len(builds') = n /\ builds'[n] = NewBuild(builds'[n].changed)
      /\ builds'[n].changed \in SUBSET Nat /\ disk' = disk /\ current' = current
      /\ running' = n /\ queued' = 0
  <2>1. recorded \subseteq Nat /\ pending \subseteq Nat
    BY DEF TypeOK
  <2> QED BY <2>1, BuildsNext
<1>2. disk \in Nat /\ Len(builds) \in Nat
  BY LenProperties DEF TypeOK, Shapes
<1>3. \A files \in SUBSET Nat :
        /\ NewBuild(files).from = disk /\ NewBuild(files).state = "loading"
        /\ NewBuild(files).outcome = "none" /\ NewBuild(files).read = 0
        /\ NewBuild(files).took = FALSE /\ NewBuild(files).next = 0
  BY <1>2, NewFacts
<1>4. Builds' = Builds \cup {n} /\ n \notin Builds /\ n \in Nat
  BY <1>1, <1>2 DEF Builds
<1> QED BY <1>1, <1>3, <1>4

LEMMA SameBuilds ==
  ASSUME Len(builds') = Len(builds) PROVE Builds' = Builds
BY DEF Builds

LEMMA TypeNext ==
  ASSUME TypeOK, EditsReportedOnce, Shapes, Kinds, failure' \in BOOLEAN
  PROVE  TypeOK'
<1>1. /\ disk' \in Nat /\ recorded' \subseteq 1..disk' /\ pending' \subseteq 1..disk'
      /\ noticed' \subseteq 1..disk'
      /\ phase' \in {"starting", "up", "closed", "failed"} /\ timer' \in BOOLEAN
  BY EditsNext DEF TypeOK
<1>2. overlapped' \in BOOLEAN
  <2>1. CASE Len(builds') = Len(builds)
    BY <2>1, OverlappedNext DEF TypeOK
  <2>2. CASE Len(builds') # Len(builds)
    <3>1. overlapped' = (overlapped \/ Loading # {})
      BY <2>2, BuildsNext
    <3> QED BY <3>1
  <2> QED BY <2>1, <2>2
<1>3. Builds \subseteq Builds' /\ (Len(builds') # Len(builds) => Len(builds) + 1 \in Builds')
  BY LastBuild, SameBuilds
<1>4. /\ running' \in {0} \cup Builds' /\ queued' \in {0} \cup Builds'
      /\ current' \in {0} \cup Builds'
  <2>1. CASE Len(builds') = Len(builds)
    BY <1>3, <2>1, RunningNext DEF TypeOK
  <2>2. CASE Len(builds') # Len(builds)
    BY <1>3, <2>2, LastBuild DEF TypeOK
  <2> QED BY <2>1, <2>2
<1>5. ASSUME NEW b \in Builds'
      PROVE  /\ builds'[b].state \in {"loading", "built", "cleared", "done"}
             /\ builds'[b].outcome \in {"none", "true", "false", "rejected"}
             /\ builds'[b].state = "loading" <=> builds'[b].outcome = "none"
             /\ builds'[b].next \in {0} \cup Builds'
  <2>1. builds'[b] \in BuildType
    BY ShapesNext DEF Shapes, Builds
  <2>2. /\ builds'[b].state \in {"loading", "built", "cleared", "done"}
        /\ builds'[b].outcome \in {"none", "true", "false", "rejected"}
    BY <2>1 DEF BuildType, States, Outcomes
  <2>3. CASE b \in Builds
    <3>1. /\ builds[b].state = "loading" <=> builds[b].outcome = "none"
          /\ builds[b].next \in {0} \cup Builds
      BY <2>3 DEF TypeOK
    <3>2. CASE Ends(b)
      BY <1>3, <2>2, <3>1, <3>2 DEF Ends
    <3>3. CASE Advances(b)
      <4>1. builds'[b].state = "loading" <=> builds'[b].outcome = "none"
        BY <3>1, <3>3 DEF Advances
      <4>2. \/ builds'[b].next = builds[b].next
            \/ /\ builds'[b].next = Len(builds) + 1 /\ Len(builds') = Len(builds) + 1
        BY <3>3 DEF Advances
      <4>3. Len(builds') = Len(builds) + 1 => Len(builds) + 1 \in Builds'
        <5>1. Len(builds) \in Nat
          BY LenProperties DEF Shapes
        <5> QED BY <1>3, <5>1
      <4> QED BY <1>3, <2>2, <3>1, <4>1, <4>2, <4>3
    <3> QED BY <2>3, <3>2, <3>3, OldBuilds
  <2>4. CASE b \notin Builds
    BY <2>2, <2>4, LastBuild, SameBuilds
  <2> QED BY <2>3, <2>4
<1>6. ASSUME NEW c \in Calls, calls'[c] # None PROVE calls'[c].run \in Builds'
  <2>1. CASE calls'[c] = calls[c]
    BY <1>3, <1>6, <2>1 DEF TypeOK
  <2>2. CASE calls'[c].run = Len(builds) + 1 /\ Len(builds') = Len(builds) + 1
    <3>1. Len(builds) \in Nat
      BY LenProperties DEF Shapes
    <3> QED BY <1>3, <2>2, <3>1
  <2>3. CASE calls'[c].run = queued' /\ queued' # 0
    BY <1>4, <2>3
  <2> QED BY <1>6, <2>1, <2>2, <2>3, CallsNext
<1> QED BY <1>1, <1>2, <1>4, <1>5, <1>6 DEF TypeOK

LEMMA ChainedNext ==
  ASSUME TypeOK, EditsReportedOnce, Shapes, Chained, Kinds
  PROVE  Chained'
<1>1. ASSUME NEW b \in Builds'
      PROVE  builds'[b].next # 0 => builds'[b].state = "done"
  <2>1. CASE b \in Builds
    <3>1. CASE Ends(b)
      BY <2>1, <3>1 DEF Ends, Loading, Chained
    <3>2. CASE Advances(b)
      BY <2>1, <3>2 DEF Advances, Chained
    <3> QED BY <2>1, <3>1, <3>2, OldBuilds
  <2>2. CASE b \notin Builds
    BY <2>2, LastBuild, SameBuilds
  <2> QED BY <2>1, <2>2
<1>2. running' # 0 => builds'[running'].state \in {"loading", "built"}
  <2>1. CASE Len(builds') # Len(builds)
    BY <2>1, LastBuild
  <2>2. CASE Len(builds') = Len(builds) /\ running' # 0
    <3>1. running' = running /\ running \in Builds
      BY <2>2, RunningNext DEF TypeOK
    <3>2. builds[running].state \in {"loading", "built"}
      BY <2>2, <3>1 DEF Chained
    <3>3. CASE Ends(running)
      BY <3>1, <3>3 DEF Ends
    <3>4. CASE Advances(running)
      BY <2>2, <3>1, <3>2, <3>4 DEF Advances
    <3> QED BY <3>1, <3>3, <3>4, OldBuilds
  <2> QED BY <2>1, <2>2
<1>3. queued' # 0 => builds'[queued'].next = 0
  <2> SUFFICES ASSUME queued' # 0 PROVE builds'[queued'].next = 0
    OBVIOUS
  <2>1. Len(builds') = Len(builds)
    BY LastBuild
  <2>2. queued' \in Builds /\ builds[queued'].next = 0
    <3>1. CASE queued' = queued
      BY <3>1 DEF TypeOK, Chained
    <3>2. CASE queued = 0 /\ running # 0 /\ queued' = running
      BY <3>2 DEF TypeOK, Chained
    <3> QED BY <2>1, <3>1, <3>2, RunningNext
  <2>3. CASE Ends(queued')
    BY <2>2, <2>3 DEF Ends
  <2>4. CASE Advances(queued')
    BY <2>2, <2>4 DEF Advances
  <2> QED BY <2>2, <2>3, <2>4, OldBuilds
<1>4. current' # 0 => builds'[current'].state # "loading"
  <2>1. ASSUME NEW b \in Builds, Ends(b), current' = b
        PROVE  builds'[current'].state # "loading"
    BY <2>1 DEF Ends
  <2>2. CASE current' = current /\ current # 0
    <3>1. current \in Builds /\ builds[current].state # "loading"
      BY <2>2 DEF TypeOK, Chained
    <3>2. ~Ends(current)
      BY <3>1 DEF Ends, Loading
    <3> QED BY <2>2, <3>1, <3>2, OldBuilds DEF Advances
  <2> QED BY <2>1, <2>2, RunningNext
<1> QED BY <1>1, <1>2, <1>3, <1>4 DEF Chained

LEMMA StartsAfterNext ==
  ASSUME TypeOK, EditsReportedOnce, Shapes, Chained, StartsAfter, Kinds
  PROVE  StartsAfter'
<1>0. Len(builds) \in Nat /\ disk \in Nat /\ disk' \in {disk, disk + 1}
  BY LenProperties, EditsNext DEF Shapes, TypeOK
<1>1. SUFFICES ASSUME NEW c \in Calls, calls'[c] # None
               PROVE  /\ calls'[c].asked <= disk'
                      /\ LET b == calls'[c].run IN
                         IF calls'[c].after
                         THEN builds'[b].next # 0 =>
                                calls'[c].asked <= builds'[builds'[b].next].from
                         ELSE calls'[c].asked <= builds'[b].from
  BY DEF StartsAfter
<1>2. \A b \in Builds : builds'[b].from = builds[b].from
  BY BuildsNext
<1>3. CASE calls'[c] = calls[c] /\ calls[c] # None
  <2> DEFINE b == calls[c].run
  <2>1. /\ b \in Builds /\ calls[c].asked <= disk /\ calls[c].asked \in Nat
        /\ calls[c].after \in BOOLEAN
    BY <1>3 DEF TypeOK, StartsAfter, Shapes, CallType
  <2>2. calls'[c].asked <= disk'
    BY <1>0, <1>3, <2>1
  <2>3. CASE ~calls[c].after
    BY <1>2, <1>3, <2>1, <2>2, <2>3 DEF StartsAfter
  <2>4. CASE calls[c].after
    <3>1. builds[b].next # 0 => calls[c].asked <= builds[builds[b].next].from
      BY <1>3, <2>4 DEF StartsAfter
    <3>2. builds[b].next \in {0} \cup Builds
      BY <2>1 DEF TypeOK
    <3>3. CASE builds'[b].next = builds[b].next
      BY <1>2, <1>3, <2>2, <2>4, <3>1, <3>2, <3>3
    <3>4. CASE builds'[b].next = Len(builds) + 1 /\ Len(builds') = Len(builds) + 1
      <4>1. builds'[Len(builds) + 1].from = disk
        <5>1. Len(builds') # Len(builds)
          BY <1>0, <3>4
        <5> QED BY <5>1, LastBuild
      <4> QED BY <1>3, <2>1, <2>2, <2>4, <3>4, <4>1
    <3>5. builds'[b].next = builds[b].next
          \/ (builds'[b].next = Len(builds) + 1 /\ Len(builds') = Len(builds) + 1)
      BY <2>1, OldBuilds DEF Ends, Advances
    <3> QED BY <3>3, <3>4, <3>5
  <2> QED BY <2>1, <2>3, <2>4
<1>4. CASE /\ calls'[c].asked = disk /\ disk' = disk
           /\ ~calls'[c].after /\ calls'[c].run = Len(builds) + 1
           /\ Len(builds') = Len(builds) + 1
  <2>1. builds'[Len(builds) + 1].from = disk
    <3>1. Len(builds') # Len(builds)
      BY <1>0, <1>4
    <3> QED BY <3>1, LastBuild
  <2> QED BY <1>0, <1>4, <2>1
<1>5. CASE /\ calls'[c].asked = disk /\ disk' = disk
           /\ calls'[c].after /\ calls'[c].run = queued' /\ queued' # 0
  <2>1. builds'[queued'].next = 0
    BY <1>5, ChainedNext DEF Chained
  <2> QED BY <1>0, <1>5, <2>1
<1> QED BY <1>1, <1>3, <1>4, <1>5, CallsNext

\* Builds that load after the step were loading before it, or are started by it.
LEMMA LoadingNext ==
  ASSUME TypeOK, EditsReportedOnce, Shapes, Kinds, NEW b \in Loading'
  PROVE  \/ b \in Loading /\ Advances(b)
         \/ Len(builds') # Len(builds) /\ b = Len(builds) + 1
<1>1. b \in Builds' /\ builds'[b].state = "loading"
  BY DEF Loading, Builds
<1>2. CASE b \in Builds
  <2>1. ~Ends(b)
    BY <1>1 DEF Ends
  <2>2. Advances(b)
    BY <1>2, <2>1, OldBuilds
  <2>3. builds[b].state = "loading"
    BY <1>1, <2>2 DEF Advances
  <2> QED BY <1>2, <2>2, <2>3 DEF Loading, Builds
<1>3. CASE b \notin Builds
  <2>1. Len(builds') # Len(builds)
    BY <1>1, <1>3, SameBuilds
  <2>2. b = Len(builds) + 1
    BY <1>1, <1>3, <2>1, LastBuild
  <2> QED BY <2>1, <2>2
<1> QED BY <1>2, <1>3

\* Overlap is remembered.
LEMMA OverlapStays ==
  ASSUME TypeOK, EditsReportedOnce, Shapes, Kinds, ~overlapped'
  PROVE  ~overlapped /\ (Len(builds') # Len(builds) => Loading = {})
<1>1. CASE Len(builds') = Len(builds)
  BY <1>1, OverlappedNext
<1>2. CASE Len(builds') # Len(builds)
  <2>1. overlapped' = (overlapped \/ Loading # {})
    BY <1>2, BuildsNext
  <2> QED BY <2>1
<1> QED BY <1>1, <1>2

LEMMA ReadTypes ==
  ASSUME Shapes, TypeOK, NEW b \in Builds
  PROVE  /\ builds[b].read \in Nat /\ builds[b].from \in Nat
         /\ builds[b].read <= disk /\ builds[b].from <= disk /\ b \in Nat
<1>1. builds[b] \in BuildType
  BY DEF Shapes, Builds
<1> QED BY <1>1 DEF BuildType, Shapes, Builds

LEMMA NewestLoadsNext ==
  ASSUME TypeOK, EditsReportedOnce, Shapes, NewestLoads, Kinds
  PROVE  NewestLoads'
<1>1. SUFFICES ASSUME ~overlapped', NEW b \in Loading'
               PROVE  /\ b = Len(builds')
                      /\ \A a \in Builds' : builds'[a].read <= builds'[b].from
  BY DEF NewestLoads
<1>2. ~overlapped /\ (Len(builds') # Len(builds) => Loading = {})
  BY <1>1, OverlapStays
<1>3. CASE b \in Loading /\ Advances(b)
  <2>1. Len(builds') = Len(builds) /\ Builds' = Builds /\ b \in Builds
    BY <1>2, <1>3, SameBuilds DEF Loading, Builds
  <2>2. b = Len(builds) /\ \A a \in Builds : builds[a].read <= builds[b].from
    BY <1>2, <1>3 DEF NewestLoads
  <2>3. ASSUME NEW a \in Builds PROVE builds'[a].read <= builds'[b].from
    <3>1. ~Ends(a)
      <4>1. Ends(a) => a = b
        BY <1>2, <2>2 DEF Ends, NewestLoads
      <4>2. ~Ends(b)
        BY <1>1 DEF Ends, Loading
      <4> QED BY <4>1, <4>2
    <3>2. builds'[a].read = builds[a].read
      BY <3>1, OldBuilds DEF Advances
    <3> QED BY <2>1, <2>2, <3>2, BuildsNext
  <2> QED BY <2>1, <2>2, <2>3
<1>4. CASE Len(builds') # Len(builds) /\ b = Len(builds) + 1
  <2>1. /\ b = Len(builds') /\ Builds' = Builds \cup {b} /\ builds'[b].from = disk
        /\ builds'[b].read = 0 /\ disk \in Nat
    BY <1>4, LastBuild DEF TypeOK
  <2>2. ASSUME NEW a \in Builds PROVE builds'[a].read <= disk
    <3>1. ~Ends(a)
      BY <1>2, <1>4 DEF Ends
    <3>2. builds'[a].read = builds[a].read
      BY <3>1, OldBuilds DEF Advances
    <3> QED BY <3>2, ReadTypes
  <2> QED BY <2>1, <2>2
<1> QED BY <1>1, <1>3, <1>4, LoadingNext

LEMMA ServesNewestNext ==
  ASSUME TypeOK, EditsReportedOnce, Shapes, Chained, NewestLoads, ServesNewest, Kinds
  PROVE  ServesNewest'
<1>1. SUFFICES ASSUME ~overlapped', NEW b \in Builds', builds'[b].took
               PROVE  b <= current' /\ builds'[b].read <= builds'[current'].read
  BY DEF ServesNewest
<1>2. ~overlapped
  BY <1>1, OverlapStays
<1>3. b \in Builds
  <2>1. CASE Len(builds') = Len(builds)
    BY <2>1, SameBuilds
  <2>2. CASE Len(builds') # Len(builds)
    BY <1>1, <2>2, LastBuild
  <2> QED BY <2>1, <2>2
<1>4. ASSUME NEW a \in Builds, Ends(a), builds'[a].took, current' = a
      PROVE  b <= current' /\ builds'[b].read <= builds'[current'].read
  <2>1. a \in Loading /\ Rewritten(builds', a)
    BY <1>4 DEF Ends
  <2>2. builds'[a].read \in builds[a].from..disk
    BY <1>4 DEF Ends
  <2>3. a = Len(builds) /\ builds[b].read <= builds[a].from
    BY <1>2, <1>3, <2>1 DEF NewestLoads
  <2>4. b <= a
    BY <1>3, <2>3, LenProperties DEF Builds, Shapes
  <2>5. builds'[b].read <= builds'[a].read
    <3>1. /\ builds[a].from \in Nat /\ builds[b].read \in Nat /\ disk \in Nat
      BY <1>3, ReadTypes DEF TypeOK
    <3>2. CASE b = a
      BY <2>2, <3>1, <3>2
    <3>3. CASE b # a
      <4>1. builds'[b] = builds[b]
        BY <1>3, <2>1, <3>3 DEF Rewritten
      <4> QED BY <2>2, <2>3, <3>1, <4>1
    <3> QED BY <3>2, <3>3
  <2> QED BY <1>4, <2>4, <2>5
<1>5. CASE /\ current' = current
           /\ ~\E a \in Builds : Ends(a) /\ builds'[a].took /\ current' = a
  <2>1. ~Ends(b)
    BY <1>1, <1>3, <1>5 DEF Ends
  <2>2. builds[b].took /\ builds'[b].read = builds[b].read
    BY <1>1, <1>3, <2>1, OldBuilds DEF Advances
  <2>3. b <= current /\ builds[b].read <= builds[current].read
    BY <1>2, <1>3, <2>2 DEF ServesNewest
  <2>4. current \in Builds
    BY <1>3, <2>3 DEF TypeOK, Builds
  <2>5. ~Ends(current)
    BY <2>4 DEF Ends, Loading, Chained, Builds
  <2>6. builds'[current].read = builds[current].read
    BY <2>4, <2>5, OldBuilds DEF Advances
  <2> QED BY <1>5, <2>2, <2>3, <2>6
<1> QED BY <1>4, <1>5, RunningNext

LEMMA FailureNext == ASSUME TypeOK, [Next]_vars PROVE failure' \in BOOLEAN
<1>1. CASE UNCHANGED failure
  BY <1>1 DEF TypeOK
<1>2. CASE failure' = TRUE \/ failure' = FALSE
  BY <1>2
<1>3. ASSUME NEW b, LoadSucceeds(b) \/ LoadFails(b)
      PROVE  failure' = TRUE \/ failure' = FALSE
  BY <1>3 DEF LoadSucceeds, LoadFails
<1>4. ASSUME NEW b, Clear(b) \/ Resolve(b) PROVE UNCHANGED failure
  BY <1>4 DEF Clear, Resolve
<1>5. ASSUME NEW c, CallReload(c) PROVE UNCHANGED failure
  BY <1>5 DEF CallReload
<1>6. CASE Watch \/ Close \/ Edit \/ Flush
  BY <1>1, <1>6 DEF Watch, Close, Edit, Flush
<1>7. CASE UNCHANGED vars
  BY <1>1, <1>7 DEF vars
<1> QED BY <1>1, <1>2, <1>3, <1>4, <1>5, <1>6, <1>7 DEF Next, BuildStep

-----------------------------------------------------------------------------
(***************************************************************************)
(* The theorems.                                                           *)
(***************************************************************************)
LEMMA HInit == ASSUME HotAssumption, Init PROVE HInv
<1>1. {} \in SUBSET Nat /\ disk = 0
  BY DEF Init
<1>2. /\ NewBuild({}) \in BuildType
      /\ NewBuild({}).from = disk /\ NewBuild({}).changed = {}
      /\ NewBuild({}).state = "loading" /\ NewBuild({}).outcome = "none"
      /\ NewBuild({}).read = 0 /\ NewBuild({}).took = FALSE
      /\ NewBuild({}).next = 0
  BY <1>1, NewFacts
<1>3. builds = <<NewBuild({})>>
  BY DEF Init
<1>4. builds \in Seq(BuildType) /\ Len(builds) = 1 /\ builds[1] = NewBuild({})
  BY <1>2, <1>3
<1>5. Builds = {1}
  BY <1>4 DEF Builds
<1>6. TypeOK
  <2>1. /\ disk \in Nat /\ recorded \subseteq 1..disk /\ pending \subseteq 1..disk
        /\ noticed \subseteq 1..disk
        /\ phase \in {"starting", "up", "closed", "failed"}
        /\ running \in {0} \cup Builds /\ queued \in {0} \cup Builds
        /\ current \in {0} \cup Builds
    BY <1>1, <1>5 DEF Init
  <2>2. timer \in BOOLEAN /\ failure \in BOOLEAN /\ overlapped \in BOOLEAN
    BY DEF Init
  <2>3. \A b \in Builds :
          /\ builds[b].state \in {"loading", "built", "cleared", "done"}
          /\ builds[b].outcome \in {"none", "true", "false", "rejected"}
          /\ builds[b].state = "loading" <=> builds[b].outcome = "none"
          /\ builds[b].next \in {0} \cup Builds
    BY <1>2, <1>4, <1>5
  <2>4. \A c \in Calls : calls[c] = None
    BY DEF Init
  <2> QED BY <2>1, <2>2, <2>3, <2>4 DEF TypeOK
<1>7. EditsReportedOnce
  BY <1>2, <1>4, <1>5 DEF Init, EditsReportedOnce
<1>11. EditsKept
  BY <1>2, <1>4, <1>5 DEF Init, EditsKept, Reported
<1>8. Shapes /\ StartsAfter
  BY <1>1, <1>2, <1>4, <1>5 DEF Init, Shapes, StartsAfter
<1>9. Chained /\ ServesNewest
  BY <1>2, <1>4, <1>5 DEF Init, Chained, ServesNewest
<1>10. NewestLoads
  BY <1>1, <1>2, <1>4, <1>5 DEF Init, NewestLoads, Loading
<1> QED BY <1>6, <1>7, <1>8, <1>9, <1>10, <1>11 DEF HInv, Inv

LEMMA HNext == ASSUME HInv, [Next]_vars PROVE HInv'
<1>1. Kinds /\ failure' \in BOOLEAN
  BY StepKinds, FailureNext DEF HInv, Inv
<1> QED BY <1>1, TypeNext, KeptNext, ReportedNext, ShapesNext, ChainedNext, StartsAfterNext,
           NewestLoadsNext, ServesNewestNext DEF HInv, Inv

LEMMA HotInductive == Spec => []HInv
<1>1. Init => HInv
  BY HInit, HotAssumption
<1>2. HInv /\ [Next]_vars => HInv'
  BY HNext
<1> QED BY <1>1, <1>2, PTL DEF Spec

\* Types, and every edit the watcher has noticed is in exactly one place.
THEOREM EditsTheorem == Spec => []Inv
<1>1. HInv => Inv
  BY DEF HInv
<1> QED BY <1>1, HotInductive, PTL

\* Whoever is told of a reload is told of a build that started after the call.
THEOREM SeesTheorem == Spec => []SeesItsChanges
<1>1. HInv => SeesItsChanges
  <2> SUFFICES ASSUME HInv, NEW c \in Calls, Result(c) \in {"true", "false"}
               PROVE  builds[BuildOf(c)].from >= calls[c].asked
    BY DEF SeesItsChanges
  <2>1. calls[c] # None /\ BuildOf(c) # 0
    BY DEF Result
  <2>2. /\ calls[c].asked \in Nat /\ calls[c].run \in Builds
        /\ BuildOf(c) \in Builds
    BY <2>1 DEF HInv, Inv, Shapes, CallType, TypeOK, BuildOf
  <2>3. calls[c].asked <= builds[BuildOf(c)].from
    BY <2>1 DEF HInv, StartsAfter, BuildOf
  <2>4. builds[BuildOf(c)].from \in Nat
    BY <2>2, ReadTypes DEF HInv, Inv
  <2> QED BY <2>2, <2>3, <2>4
<1> QED BY <1>1, HotInductive, PTL

\* Unless builds have overlapped, the newest build that loaded serves.
THEOREM NewestTheorem == Spec => []ServesNewest
<1>1. HInv => ServesNewest
  BY DEF HInv
<1> QED BY <1>1, HotInductive, PTL
=============================================================================
