---------------------------- MODULE ServerProofs ----------------------------
(***************************************************************************)
(* Proofs about the server: the pipeline that answers a request            *)
(* (RequestPipeline) and the adapter that carries request and answer over  *)
(* a Node socket (NodeHandler).                                            *)
(***************************************************************************)
EXTENDS RequestPipeline, NodeHandler, SequenceTheorems, TLAPS

-----------------------------------------------------------------------------
(***************************************************************************)
(* RequestPipeline, for every route and option and any number of gates,    *)
(* guards, hooks and decorators: its invariant, deny by default, declared  *)
(* replies, and one answer for each request.                               *)
(***************************************************************************)

\* Nothing is to be answered yet.
Asking ==
  {"gate", "context", "security", "document", "slots", "body", "tail", "refine", "guard",
   "handler", "race"}

\* What the place in the program tells of the checks that have been passed.
Passed(checks) == checks \subseteq verdicts

InputPassed == Passed({"slots"}) /\ (cfg.body => Passed({"body"}))

Clearances ==
  /\ phase = "gate" => verdicts = {}
  /\ cfg.secured /\ phase \in (Asking \cup {"hook"}) \ {"gate", "context", "security"} =>
       Passed({"secure"})
  /\ phase = "context" =>
       \/ cfg.secured /\ ~Passed({"secure"})
       \/ InputPassed /\ (cfg.refine => Passed({"refine"}))
  /\ phase = "body" => Passed({"slots"})
  /\ phase \in {"tail", "refine", "guard", "handler", "race"} => InputPassed
  /\ phase \in {"guard", "handler", "race"} /\ cfg.refine => Passed({"refine"})
  /\ phase \in {"handler", "race"} /\ cfg.guards => Passed({"guards"})

\* There is no reply before one is given, and what the race of withTimeout has
\* settled with is the handler's or, once the timer has fired, never the handler's.
Race ==
  /\ phase \in Asking => reply = NoReply
  /\ winner.from \in {"none", "thrown", "handler", "timeout"}
  /\ reply.from = "handler" => winner.from = "handler"
  /\ Called("onTimeout") => winner.from \in {"thrown", "timeout"}

\* A context that has been built is remembered, where the route has a factory, and
\* a factory that has thrown is not asked again.
Built ==
  /\ built => cfg.context
  /\ Called("context") /\ phase \in Asking => built

Decorating == phase = "decorate" => index <= Decorators /\ Decorated(index)

PInv ==
  /\ Inv /\ Cleared /\ DeclaredReplies
  /\ Clearances /\ Race /\ Built /\ Decorating

-----------------------------------------------------------------------------
(***************************************************************************)
(* The log: what is called is added at its end.                            *)
(***************************************************************************)
Grows(new) ==
  /\ log' \in Seq(Callees) /\ Len(log) <= Len(log')
  /\ \A i \in 1 .. Len(log) : log'[i] = log[i]
  /\ \A i \in 1 .. Len(log') : i <= Len(log) \/ log'[i] \in new

LEMMA Unasked == ASSUME log \in Seq(Callees), UNCHANGED log PROVE Grows({})
<1>1. Len(log) \in Nat
  BY LenProperties
<1> QED BY <1>1 DEF Grows

LEMMA Asks ==
  ASSUME log \in Seq(Callees), NEW who \in Callees, Calls(who)
  PROVE  Grows({who}) /\ Len(log') = Len(log) + 1 /\ log'[Len(log')] = who
<1>1. Len(log) \in Nat
  BY LenProperties
<1>2. /\ log' \in Seq(Callees) /\ Len(log') = Len(log) + 1
      /\ \A i \in 1 .. Len(log) : log'[i] = log[i]
      /\ log'[Len(log) + 1] = who
  BY AppendProperties DEF Calls
<1> QED BY <1>1, <1>2 DEF Grows

\* What has been called remains so.
LEMMA GrowsCalled ==
  ASSUME log \in Seq(Callees), NEW new, Grows(new), NEW who
  PROVE  /\ Called(who) => Called(who)'
         /\ Called(who)' => Called(who) \/ who \in new
<1>1. DOMAIN log = 1 .. Len(log) /\ DOMAIN log' = 1 .. Len(log') /\ Len(log) \in Nat
      /\ Len(log') \in Nat
  BY LenProperties DEF Grows
<1>2. Called(who) => Called(who)'
  <2> SUFFICES ASSUME NEW i \in DOMAIN log, log[i] = who PROVE Called(who)'
    BY DEF Called, Range
  <2>1. i \in DOMAIN log' /\ log'[i] = who
    BY <1>1 DEF Grows
  <2> QED BY <2>1 DEF Called, Range
<1>3. Called(who)' => Called(who) \/ who \in new
  <2> SUFFICES ASSUME NEW i \in DOMAIN log', log'[i] = who PROVE Called(who) \/ who \in new
    BY DEF Called, Range
  <2>1. i <= Len(log) => i \in DOMAIN log /\ log[i] = who
    BY <1>1 DEF Grows
  <2>2. i <= Len(log) \/ who \in new
    BY <1>1 DEF Grows
  <2> QED BY <2>1, <2>2 DEF Called, Range
<1> QED BY <1>2, <1>3

\* Callees are added, and one more after them or none.
LEMMA AddsCallees ==
  ASSUME log \in Seq(Callees), NEW callees \in Seq(Callees), NEW who \in Callees,
         NEW S, \A i \in 1 .. Len(callees) : callees[i] \in S,
         log' \in {log \o callees, Append(log \o callees, who)}
  PROVE  /\ Grows(S \cup {who})
         /\ \A i \in 1 .. Len(callees) : log'[Len(log) + i] = callees[i]
         /\ \A i \in 1 .. Len(log') : i <= Len(log) + Len(callees) \/ log'[i] = who
         /\ Len(log') >= Len(log) + Len(callees)
         /\ log' # log \o callees => log'[Len(log')] = who
<1>1. Len(log) \in Nat /\ Len(callees) \in Nat
  BY LenProperties
<1> DEFINE new == log \o callees
<1>2. /\ new \in Seq(Callees) /\ Len(new) = Len(log) + Len(callees)
      /\ \A i \in 1 .. Len(log) + Len(callees) :
           new[i] = IF i <= Len(log) THEN log[i] ELSE callees[i - Len(log)]
  BY ConcatProperties
<1>3. /\ Append(new, who) \in Seq(Callees) /\ Len(Append(new, who)) = Len(new) + 1
      /\ \A i \in 1 .. Len(new) : Append(new, who)[i] = new[i]
      /\ Append(new, who)[Len(new) + 1] = who
  BY <1>2, AppendProperties
<1>4. log' \in {new, Append(new, who)}
  OBVIOUS
<1> HIDE DEF new
<1>5. /\ log' \in Seq(Callees) /\ Len(log') \in {Len(new), Len(new) + 1}
      /\ \A i \in 1 .. Len(new) : log'[i] = new[i]
      /\ \A i \in 1 .. Len(log') : i <= Len(new) \/ log'[i] = who
      /\ log' # new => log'[Len(log')] = who
  <2>1. CASE log' = new
    <3>1. Len(new) \in Nat
      BY <1>1, <1>2
    <3> QED BY <1>2, <2>1, <3>1
  <2>2. CASE log' = Append(new, who)
    <3>1. Len(new) \in Nat
      BY <1>1, <1>2
    <3>2. \A i \in 1 .. Len(new) + 1 : i <= Len(new) \/ i = Len(new) + 1
      BY <3>1
    <3> QED BY <1>3, <2>2, <3>2
  <2> QED BY <1>4, <2>1, <2>2
<1>6. \A i \in 1 .. Len(log) : log'[i] = log[i]
  BY <1>1, <1>2, <1>5
<1>7. \A i \in 1 .. Len(callees) : log'[Len(log) + i] = callees[i]
  <2> SUFFICES ASSUME NEW i \in 1 .. Len(callees) PROVE log'[Len(log) + i] = callees[i]
    OBVIOUS
  <2>1. /\ Len(log) + i \in 1 .. Len(log) + Len(callees) /\ ~(Len(log) + i <= Len(log))
        /\ (Len(log) + i) - Len(log) = i
    BY <1>1
  <2> QED BY <1>2, <1>5, <2>1
<1>8. \A i \in 1 .. Len(log') : i <= Len(log) \/ log'[i] \in S \cup {who}
  <2> SUFFICES ASSUME NEW i \in 1 .. Len(log'), ~(i <= Len(log)), i <= Len(new)
               PROVE  log'[i] \in S
    BY <1>5
  <2>1. i - Len(log) \in 1 .. Len(callees) /\ i \in 1 .. Len(new)
    BY <1>1, <1>2, <1>5
  <2> QED BY <1>2, <1>5, <2>1
<1>9. Grows(S \cup {who})
  BY <1>1, <1>2, <1>5, <1>6, <1>8 DEF Grows
<1> QED BY <1>1, <1>2, <1>5, <1>7, <1>9 DEF new

LEMMA FewCallees ==
  /\ <<>> \in Seq(Callees) /\ Len(<<>>) = 0
  /\ \A who \in Callees : <<who>> \in Seq(Callees) /\ Len(<<who>>) = 1 /\ <<who>>[1] = who
  /\ \A who, more \in Callees :
       /\ <<who, more>> \in Seq(Callees) /\ Len(<<who, more>>) = 2
       /\ <<who, more>>[1] = who /\ <<who, more>>[2] = more
OBVIOUS

Reporters == {"onError", "formatter"}

\* An error of app code: a reporter or the pipeline answers, or the reporter throws.
LEMMA RouteErrorFacts ==
  ASSUME log \in Seq(Callees), NEW callees \in Seq(Callees), NEW p, p # "escaped",
         RouteError(callees, p)
  PROVE  /\ \E who \in Reporters : log' \in {log \o callees, Append(log \o callees, who)}
         /\ index' = 0
         /\ \/ phase' = p /\ reply' \in {Own("error"), Unchecked("error")}
            \/ /\ phase' = "escaped" /\ reply' = reply
               /\ log'[Len(log')] \in Reporters
<1>1. Reporters \subseteq Callees
  BY DEF Callees, Reporters
<1>2. CASE cfg.custom
  <2>1. PICK who \in Reporters : log' = Append(log \o callees, who)
    BY <1>2 DEF RouteError, Reporters
  <2>2. log'[Len(log')] = who
    <3>1. log \o callees \in Seq(Callees)
      BY ConcatProperties
    <3> QED BY <1>1, <2>1, <3>1, AppendProperties
  <2> QED BY <1>2, <2>1, <2>2 DEF RouteError, Answer, Escapes, Goto
<1>3. CASE ~cfg.custom
  BY <1>3 DEF RouteError, Answer, Goto, Reporters
<1> QED BY <1>2, <1>3

LEMMA FormattedFacts ==
  ASSUME log \in Seq(Callees), NEW callees \in Seq(Callees), NEW from, NEW p, p # "escaped",
         Formatted(callees, from, p)
  PROVE  /\ log' \in {log \o callees, Append(log \o callees, "formatter")}
         /\ index' = 0
         /\ \/ phase' = p /\ reply' \in {Own(from), Unchecked(from)}
            \/ /\ phase' = "escaped" /\ reply' = reply
               /\ log'[Len(log')] \in Reporters
<1>1. "formatter" \in Callees
  BY DEF Callees
<1>2. CASE cfg.custom
  <2>1. log' = Append(log \o callees, "formatter")
    BY <1>2 DEF Formatted
  <2>2. log'[Len(log')] = "formatter"
    <3>1. log \o callees \in Seq(Callees)
      BY ConcatProperties
    <3> QED BY <1>1, <2>1, <3>1, AppendProperties
  <2> QED BY <1>2, <2>1, <2>2 DEF Formatted, Answer, Escapes, Goto, Reporters
<1>3. CASE ~cfg.custom
  BY <1>3 DEF Formatted, Answer, Goto
<1> QED BY <1>2, <1>3

LEMMA HookErrorFacts ==
  ASSUME log \in Seq(Callees), NEW who \in Callees, NEW p, HookError(who, p)
  PROVE  /\ Grows({who, "onError"}) /\ index' = 0 /\ phase' = p
         /\ reply' \in {Unchecked("error"), Own("internal")}
         /\ log'[Len(log) + 1] = who /\ Len(log) < Len(log')
<1> DEFINE new == IF cfg.custom THEN <<who, "onError">> ELSE <<who>>
<1>1. /\ new \in Seq(Callees) /\ Len(new) \in {1, 2} /\ new[1] = who
      /\ \A i \in 1 .. Len(new) : new[i] \in {who, "onError"}
  <2>1. "onError" \in Callees
    BY DEF Callees
  <2>2. CASE cfg.custom
    <3>1. new = <<who, "onError">>
      BY <2>2
    <3> HIDE DEF new
    <3>2. new \in Seq(Callees) /\ Len(new) = 2 /\ new[1] = who /\ new[2] = "onError"
      BY <2>1, <3>1
    <3> QED BY <3>2
  <2>3. CASE ~cfg.custom
    <3>1. new = <<who>>
      BY <2>3
    <3> HIDE DEF new
    <3>2. new \in Seq(Callees) /\ Len(new) = 1 /\ new[1] = who
      BY <3>1
    <3> QED BY <3>2
  <2> QED BY <2>2, <2>3
<1>2. log' = log \o new
  BY DEF HookError
<1>3. Len(log) \in Nat
  BY LenProperties
<1> HIDE DEF new
<1>4. /\ log' \in Seq(Callees) /\ Len(log') = Len(log) + Len(new)
      /\ \A i \in 1 .. Len(log) + Len(new) :
           log'[i] = IF i <= Len(log) THEN log[i] ELSE new[i - Len(log)]
  BY <1>1, <1>2, ConcatProperties
<1>5. Grows({who, "onError"})
  BY <1>1, <1>3, <1>4 DEF Grows
<1>6. log'[Len(log) + 1] = who /\ Len(log) < Len(log')
  <2>1. Len(new) \in Nat /\ Len(new) >= 1
    BY <1>1
  <2>2. Len(log) + 1 \in 1 .. Len(log) + Len(new)
    BY <1>3, <2>1
  <2> QED BY <1>1, <1>3, <1>4, <2>1, <2>2
<1>7. index' = 0 /\ phase' = p /\ reply' \in {Unchecked("error"), Own("internal")}
  BY DEF HookError, Answer, Goto
<1> QED BY <1>5, <1>6, <1>7

(***************************************************************************)
(* What a step may call, and from where in the program.                    *)
(***************************************************************************)
Callable(who) ==
  /\ who \in Deciders => phase \in Asking
  /\ who \in {"read", "refine", "guard", "handler"} =>
       phase \in {"body", "refine", "guard", "handler"}
  /\ who = "handler" => phase = "handler"
  /\ who = "context" =>
       /\ phase = "context" /\ ~built /\ (built' \/ phase' \notin Asking)
       /\ \A i \in 1 .. Len(log') :
            i <= Len(log) + 1 \/ log'[i] \in Reporters
  /\ who = "onTimeout" => winner'.from \in {"thrown", "timeout"}

CallsOnly == \E new : Grows(new) /\ \A who \in new : Callable(who)

LEMMA SilentStep == ASSUME TypeOK, UNCHANGED log PROVE CallsOnly
BY Unasked DEF TypeOK, CallsOnly

LEMMA AskingStep ==
  ASSUME TypeOK, NEW who \in Callees, Calls(who),
         Len(log') = Len(log) + 1 => Callable(who)
  PROVE  CallsOnly
<1>1. Grows({who}) /\ Len(log') = Len(log) + 1
  BY Asks DEF TypeOK
<1> QED BY <1>1 DEF CallsOnly

LEMMA ReportingCallable == \A who \in Reporters : who \in Callees /\ Callable(who)
BY DEF Callable, Callees, Deciders, Reporters

\* Of what the callees of a step have thrown, or of input that is not valid.
LEMMA ErrorStep ==
  ASSUME TypeOK, NEW callees \in Seq(Callees),
         \E p \in Phases \ {"escaped"} :
           RouteError(callees, p) \/ \E from : Formatted(callees, from, p),
         NEW S, \A i \in 1 .. Len(callees) : callees[i] \in S, \A w \in S : Callable(w)
  PROVE  CallsOnly
<1>1. log \in Seq(Callees)
  BY DEF TypeOK
<1>2. PICK who \in Reporters : log' \in {log \o callees, Append(log \o callees, who)}
  BY <1>1, RouteErrorFacts, FormattedFacts DEF Reporters
<1>3. Grows(S \cup {who})
  BY <1>1, <1>2, ReportingCallable, AddsCallees
<1> QED BY <1>3, ReportingCallable DEF CallsOnly

\* Nobody has thrown, or nobody was asked in this step.
LEMMA ReportStep ==
  ASSUME TypeOK,
         \E p \in Phases \ {"escaped"} : RouteError(<<>>, p) \/ \E from : Formatted(<<>>, from, p)
  PROVE  CallsOnly
<1>1. <<>> \in Seq(Callees) /\ \A i \in 1 .. Len(<<>>) : <<>>[i] \in {}
  BY FewCallees
<1> QED BY <1>1, ErrorStep

\* One was asked, and has thrown.
LEMMA ThrowStep ==
  ASSUME TypeOK, NEW who \in Callees, Callable(who),
         \E p \in Phases \ {"escaped"} :
           RouteError(<<who>>, p) \/ \E from : Formatted(<<who>>, from, p)
  PROVE  CallsOnly
<1>1. <<who>> \in Seq(Callees) /\ \A i \in 1 .. Len(<<who>>) : <<who>>[i] \in {who}
  BY FewCallees
<1> QED BY <1>1, ErrorStep

LEMMA HookErrorStep ==
  ASSUME TypeOK, NEW who \in Callees, NEW p, HookError(who, p), Callable(who)
  PROVE  CallsOnly
<1>1. Grows({who, "onError"})
  BY HookErrorFacts DEF TypeOK
<1> QED BY <1>1, ReportingCallable DEF CallsOnly, Reporters

LEMMA DonePhase == Done \in Phases \ {"escaped"}
BY DEF Done, Phases

LEMMA StepCallsOnly == ASSUME TypeOK, [Next]_vars PROVE CallsOnly
<1> USE DEF Callees, Deciders, Callable, Asking, Phases, run
<1>1. CASE GateStep
  <2>1. CASE GateAnswers
    BY <2>1, AskingStep, HookErrorStep DEF GateAnswers
  <2>2. CASE GatePasses
    BY <2>2, AskingStep DEF GatePasses
  <2>3. CASE Mount
    BY <2>3, AskingStep DEF Mount
  <2>4. CASE Miss
    BY <2>4, ReportStep, SilentStep DEF Miss
  <2>5. CASE Match
    BY <2>5, SilentStep DEF Match
  <2> QED BY <1>1, <2>1, <2>2, <2>3, <2>4, <2>5 DEF GateStep
<1>2. CASE ContextStep
  <2>1. CASE BuildContext
    <3>0. phase = "context" /\ log \in Seq(Callees) /\ Len(log) \in Nat
      BY <2>1, LenProperties DEF BuildContext, TypeOK
    <3>1. CASE Calls("context") /\ cfg.context /\ ~built /\ built' = cfg.context
      <4>1. Len(log') = Len(log) + 1 => Callable("context")
        BY <3>0, <3>1
      <4> QED BY <4>1, <3>1, AskingStep
    <3>2. CASE RouteError(<<"context">>, Done) /\ ~built
      <4>1. <<"context">> \in Seq(Callees) /\ Len(<<"context">>) = 1
        BY FewCallees
      <4>2. /\ phase' \notin Asking
            /\ \E who \in Reporters :
                 log' \in {log \o <<"context">>, Append(log \o <<"context">>, who)}
        BY <3>0, <3>2, <4>1, DonePhase, RouteErrorFacts DEF Done
      <4>3. \A i \in 1 .. Len(log') : i <= Len(log) + 1 \/ log'[i] \in Reporters
        <5>1. \A i \in 1 .. Len(<<"context">>) : <<"context">>[i] \in Callees
          BY FewCallees
        <5> QED BY <3>0, <4>1, <4>2, <5>1, ReportingCallable, AddsCallees
      <4>4. Callable("context")
        BY <3>0, <3>2, <4>2, <4>3
      <4> QED BY <3>2, <4>4, ThrowStep, DonePhase
    <3>3. CASE UNCHANGED log
      BY <3>3, SilentStep
    <3> QED BY <2>1, <3>1, <3>2, <3>3 DEF BuildContext
  <2>2. CASE SecurityAllows
    BY <2>2, AskingStep, SilentStep DEF SecurityAllows
  <2>3. CASE SecurityDenies
    BY <2>3, AskingStep, ThrowStep, DonePhase DEF SecurityDenies
  <2>4. CASE ServeDocument
    BY <2>4, SilentStep DEF ServeDocument
  <2> QED BY <1>2, <2>1, <2>2, <2>3, <2>4 DEF ContextStep
<1>3. CASE InputStep
  <2>1. CASE SlotsValid
    BY <2>1, SilentStep DEF SlotsValid
  <2>2. CASE SlotsInvalid \/ BodyInvalid
    BY <2>2, ReportStep, ThrowStep, DonePhase DEF SlotsInvalid, BodyInvalid
  <2>3. CASE BodyValid
    BY <2>3, AskingStep DEF BodyValid
  <2> QED BY <1>3, <2>1, <2>2, <2>3 DEF InputStep
<1>4. CASE TailStep
  <2>1. CASE RunTail \/ RaceReplies \/ HooksDone
    BY <2>1, SilentStep DEF RunTail, RaceReplies, HooksDone
  <2>2. CASE RefinePasses
    BY <2>2, AskingStep DEF RefinePasses
  <2>3. CASE RefineFails
    <3>0. phase = "refine" /\ log \in Seq(Callees) /\ Callable("refine") /\ Callable("formatter")
      BY <2>3, ReportingCallable DEF RefineFails, TypeOK, Reporters
    <3> DEFINE both == <<"refine", "formatter">>
    <3>1. /\ both \in Seq(Callees) /\ Len(both) = 2 /\ both[1] = "refine"
          /\ both[2] = "formatter" /\ \A i \in 1 .. Len(both) : both[i] \in {"refine", "formatter"}
      BY FewCallees
    <3>2. CASE RouteError(<<"refine">>, Done)
      BY <3>0, <3>2, ThrowStep, DonePhase
    <3>3. CASE RouteError(both, Done)
      BY <3>0, <3>1, <3>3, ErrorStep, DonePhase
    <3>4. CASE log' = log \o both
      <4>1. Grows({"refine", "formatter"} \cup {"formatter"})
        BY <3>0, <3>1, <3>4, AddsCallees
      <4> QED BY <3>0, <4>1 DEF CallsOnly
    <3>5. CASE log' = log \o <<"refine">>
      <4>1. /\ <<"refine">> \in Seq(Callees)
            /\ \A i \in 1 .. Len(<<"refine">>) : <<"refine">>[i] \in {"refine"}
        BY FewCallees
      <4>2. Grows({"refine"} \cup {"formatter"})
        BY <3>0, <3>5, <4>1, AddsCallees
      <4> QED BY <3>0, <4>2 DEF CallsOnly
    <3> QED BY <2>3, <3>2, <3>3, <3>4, <3>5 DEF RefineFails
  <2>4. CASE GuardAllows
    BY <2>4, AskingStep, SilentStep DEF GuardAllows
  <2>5. CASE GuardDenies
    BY <2>5, AskingStep, ThrowStep, DonePhase DEF GuardDenies
  <2>6. CASE CallHandler
    BY <2>6, AskingStep DEF CallHandler
  <2>7. CASE RaceRejects \/ HookThrows
    BY <2>7, ReportStep, ThrowStep, DonePhase DEF RaceRejects, HookThrows
  <2>8. CASE HookRuns
    BY <2>8, AskingStep DEF HookRuns
  <2> QED BY <1>4, <2>1, <2>2, <2>3, <2>4, <2>5, <2>6, <2>7, <2>8 DEF TailStep
<1>5. CASE ReplyStep
  <2>1. CASE FinishReply \/ Observe \/ Settle \/ Send
    BY <2>1, SilentStep DEF FinishReply, Observe, Settle, Send
  <2>2. CASE Decorate
    BY <2>2, AskingStep DEF Decorate
  <2>3. CASE DecoratorThrows
    BY <2>3, HookErrorStep DEF DecoratorThrows
  <2> QED BY <1>5, <2>1, <2>2, <2>3 DEF ReplyStep
<1>6. CASE HandlerSettles \/ UNCHANGED vars
  BY <1>6, SilentStep DEF HandlerSettles, vars
<1>7. CASE TimerFires
  <2>1. winner'.from \in {"thrown", "timeout"} /\ phase = "race" /\ Calls("onTimeout")
    BY <1>7 DEF TimerFires, TypeOK, AppReplies, Reply, Thrown, Own
  <2> QED BY <2>1, AskingStep
<1> QED BY <1>1, <1>2, <1>3, <1>4, <1>5, <1>6, <1>7 DEF Next, Step

LEMMA CalledNext ==
  ASSUME TypeOK, [Next]_vars, NEW who
  PROVE  /\ log' \in Seq(Callees)
         /\ Called(who) => Called(who)'
         /\ Called(who)' => Called(who) \/ Callable(who)
<1>1. PICK new : Grows(new) /\ \A w \in new : Callable(w)
  BY StepCallsOnly DEF CallsOnly
<1>2. /\ Called(who) => Called(who)'
      /\ Called(who)' => Called(who) \/ who \in new
  BY <1>1, GrowsCalled DEF TypeOK
<1> QED BY <1>1, <1>2 DEF Grows

(***************************************************************************)
(* Every action keeps each part of the invariant.                          *)
(***************************************************************************)
LEMMA ReplyTypes ==
  /\ \A from \in Sources :
       Own(from) \in Replies /\ Unchecked(from) \in Replies /\ AppReplies(from) \subseteq Replies
  /\ Thrown \in Replies
BY DEF Reply, Replies, Own, Unchecked, AppReplies, Thrown, Sources

LEMMA TypeParts ==
  ASSUME cfg' \in ConfigType, phase' \in Phases, index' \in Nat, log' \in Seq(Callees),
         reply' \in Replies, winner' \in Replies, observed' \in Replies,
         built' \in BOOLEAN, timer' \in BOOLEAN, handler' \in {"idle", "running", "done"},
         verdicts' \subseteq Verdicts, timer' => phase' = "race"
  PROVE  TypeOK'
BY DEF TypeOK

LEMMA TypeNext ==
  ASSUME PipelineAssumption, TypeOK, [Next]_vars
  PROVE  TypeOK'
<1> USE DEF run, RouteError, Formatted, HookError, Answer, Goto, Escapes, Done, AfterContext,
     Phases, Sources, Verdicts
<1>a. log' \in Seq(Callees)
  BY CalledNext
<1>b. cfg.context \in BOOLEAN /\ cfg.timed \in BOOLEAN
  BY DEF TypeOK, ConfigType
<1>c. /\ cfg \in ConfigType /\ phase \in Phases /\ index \in Nat
      /\ reply \in Replies /\ winner \in Replies /\ observed \in Replies
      /\ built \in BOOLEAN /\ timer \in BOOLEAN /\ handler \in {"idle", "running", "done"}
      /\ verdicts \subseteq Verdicts /\ (timer => phase = "race")
  BY DEF TypeOK
<1>1. CASE GateStep
  <2>1. CASE GateAnswers
    BY <2>1, <1>a, <1>b, <1>c, ReplyTypes, TypeParts DEF GateAnswers
  <2>2. CASE GatePasses
    BY <2>2, <1>a, <1>b, <1>c, ReplyTypes, TypeParts DEF GatePasses
  <2>3. CASE Mount
    BY <2>3, <1>a, <1>b, <1>c, ReplyTypes, TypeParts DEF Mount
  <2>4. CASE Miss
    BY <2>4, <1>a, <1>b, <1>c, ReplyTypes, TypeParts DEF Miss
  <2>5. CASE Match
    BY <2>5, <1>a, <1>b, <1>c, ReplyTypes, TypeParts DEF Match
  <2> QED BY <1>1, <2>1, <2>2, <2>3, <2>4, <2>5 DEF GateStep
<1>2. CASE ContextStep
  <2>1. CASE BuildContext
    BY <2>1, <1>a, <1>b, <1>c, ReplyTypes, TypeParts DEF BuildContext
  <2>2. CASE SecurityAllows
    <3>1. UNCHANGED <<cfg, reply, built, handler, timer, winner, observed>>
      BY <2>2 DEF SecurityAllows
    <3>2. phase' \in Phases /\ (timer' => phase' = "race")
      BY <2>2, <1>c DEF SecurityAllows
    <3>3. index' \in Nat
      BY <2>2, <1>c DEF SecurityAllows
    <3>4. verdicts' \subseteq Verdicts
      BY <2>2, <1>c DEF SecurityAllows
    <3> QED BY <3>1, <3>2, <3>3, <3>4, <1>a, <1>c, TypeParts
  <2>3. CASE SecurityDenies
    BY <2>3, <1>a, <1>b, <1>c, ReplyTypes, TypeParts DEF SecurityDenies
  <2>4. CASE ServeDocument
    BY <2>4, <1>a, <1>b, <1>c, ReplyTypes, TypeParts DEF ServeDocument
  <2> QED BY <1>2, <2>1, <2>2, <2>3, <2>4 DEF ContextStep
<1>3. CASE InputStep
  <2>1. CASE SlotsValid
    BY <2>1, <1>a, <1>b, <1>c, ReplyTypes, TypeParts DEF SlotsValid
  <2>2. CASE SlotsInvalid
    BY <2>2, <1>a, <1>b, <1>c, ReplyTypes, TypeParts DEF SlotsInvalid
  <2>3. CASE BodyValid
    BY <2>3, <1>a, <1>b, <1>c, ReplyTypes, TypeParts DEF BodyValid
  <2>4. CASE BodyInvalid
    BY <2>4, <1>a, <1>b, <1>c, ReplyTypes, TypeParts DEF BodyInvalid
  <2> QED BY <1>3, <2>1, <2>2, <2>3, <2>4 DEF InputStep
<1>4. CASE TailStep
  <2>1. CASE RunTail
    BY <2>1, <1>a, <1>b, <1>c, ReplyTypes, TypeParts DEF RunTail
  <2>2. CASE RefinePasses
    BY <2>2, <1>a, <1>b, <1>c, ReplyTypes, TypeParts DEF RefinePasses
  <2>3. CASE RefineFails
    BY <2>3, <1>a, <1>b, <1>c, ReplyTypes, TypeParts DEF RefineFails
  <2>4. CASE GuardAllows
    <3>1. UNCHANGED <<cfg, reply, built, handler, timer, winner, observed>>
      BY <2>4 DEF GuardAllows
    <3>2. phase' \in Phases /\ (timer' => phase' = "race")
      BY <2>4, <1>c DEF GuardAllows
    <3>3. index' \in Nat
      BY <2>4, <1>c DEF GuardAllows
    <3>4. verdicts' \subseteq Verdicts
      BY <2>4, <1>c DEF GuardAllows
    <3> QED BY <3>1, <3>2, <3>3, <3>4, <1>a, <1>c, TypeParts
  <2>5. CASE GuardDenies
    BY <2>5, <1>a, <1>b, <1>c, ReplyTypes, TypeParts DEF GuardDenies
  <2>6. CASE CallHandler
    BY <2>6, <1>a, <1>b, <1>c, ReplyTypes, TypeParts DEF CallHandler
  <2>7. CASE RaceReplies
    BY <2>7, <1>a, <1>b, <1>c, ReplyTypes, TypeParts DEF RaceReplies
  <2>8. CASE RaceRejects
    <3>1. timer' = FALSE /\ UNCHANGED <<cfg, built, handler, winner, observed, verdicts>>
      BY <2>8 DEF RaceRejects
    <3>2. phase' \in Phases /\ index' \in Nat /\ reply' \in Replies
      BY <2>8, <1>c, ReplyTypes DEF RaceRejects
    <3> QED BY <3>1, <3>2, <1>a, <1>c, TypeParts
  <2>9. CASE HookRuns
    BY <2>9, <1>a, <1>b, <1>c, ReplyTypes, TypeParts DEF HookRuns
  <2>10. CASE HookThrows
    BY <2>10, <1>a, <1>b, <1>c, ReplyTypes, TypeParts DEF HookThrows
  <2>11. CASE HooksDone
    BY <2>11, <1>a, <1>b, <1>c, ReplyTypes, TypeParts DEF HooksDone
  <2> QED BY <1>4, <2>1, <2>2, <2>3, <2>4, <2>5, <2>6, <2>7, <2>8, <2>9, <2>10, <2>11 DEF
       TailStep
<1>5. CASE ReplyStep
  <2>1. CASE FinishReply
    BY <2>1, <1>a, <1>b, <1>c, ReplyTypes, TypeParts DEF FinishReply
  <2>2. CASE Observe
    BY <2>2, <1>a, <1>b, <1>c, ReplyTypes, TypeParts DEF Observe
  <2>3. CASE Settle
    BY <2>3, <1>a, <1>b, <1>c, ReplyTypes, TypeParts DEF Settle
  <2>4. CASE Decorate
    BY <2>4, <1>a, <1>b, <1>c, ReplyTypes, TypeParts DEF Decorate
  <2>5. CASE DecoratorThrows
    BY <2>5, <1>a, <1>b, <1>c, ReplyTypes, TypeParts DEF DecoratorThrows
  <2>6. CASE Send
    BY <2>6, <1>a, <1>b, <1>c, ReplyTypes, TypeParts DEF Send
  <2> QED BY <1>5, <2>1, <2>2, <2>3, <2>4, <2>5, <2>6 DEF ReplyStep
<1>6. CASE HandlerSettles \/ TimerFires
  <2>1. UNCHANGED <<cfg, phase, index, reply, built, observed, verdicts>>
    BY <1>6 DEF HandlerSettles, TimerFires
  <2>2. timer' \in BOOLEAN /\ (timer' => timer)
    <3>1. CASE HandlerSettles
      <4>1. timer' = timer
        BY <3>1 DEF HandlerSettles
      <4> QED BY <4>1, <1>c
    <3>2. CASE TimerFires
      <4>1. timer' = FALSE
        BY <3>2 DEF TimerFires
      <4> QED BY <4>1
    <3> QED BY <1>6, <3>1, <3>2
  <2>3. handler' \in {"idle", "running", "done"} /\ winner' \in Replies
    BY <1>6, <1>c, ReplyTypes DEF HandlerSettles, TimerFires
  <2> QED BY <2>1, <2>2, <2>3, <1>a, <1>c, TypeParts
<1>7. CASE UNCHANGED vars
  BY <1>7, <1>a, <1>b, <1>c, ReplyTypes, TypeParts DEF vars
<1> QED BY <1>1, <1>2, <1>3, <1>4, <1>5, <1>6, <1>7 DEF Next, Step

LEMMA DeclaredNext ==
  ASSUME TypeOK, DeclaredReplies, [Next]_vars
  PROVE  DeclaredReplies'
<1> USE DEF run, RouteError, Formatted, HookError, Answer, Goto, Escapes, Done, AfterContext,
     AppReplies, Own, Unchecked, NoReply, Thrown, Reply, TypeOK, ConfigType, DeclaredReplies, Checked
<1>1. CASE GateStep
  <2>1. CASE GateAnswers
    BY <2>1 DEF GateAnswers
  <2>2. CASE GatePasses
    BY <2>2 DEF GatePasses
  <2>3. CASE Mount
    BY <2>3 DEF Mount
  <2>4. CASE Miss
    BY <2>4 DEF Miss
  <2>5. CASE Match
    BY <2>5 DEF Match
  <2> QED BY <1>1, <2>1, <2>2, <2>3, <2>4, <2>5 DEF GateStep
<1>2. CASE ContextStep
  BY <1>2 DEF ContextStep, BuildContext, SecurityAllows, SecurityDenies, ServeDocument
<1>3. CASE InputStep
  BY <1>3 DEF InputStep, SlotsValid, SlotsInvalid, BodyValid, BodyInvalid
<1>4. CASE TailStep
  BY <1>4 DEF TailStep, RunTail, RefinePasses, RefineFails, GuardAllows, GuardDenies,
       CallHandler, RaceReplies, RaceRejects, HookRuns, HookThrows, HooksDone
<1>5. CASE ReplyStep
  BY <1>5 DEF ReplyStep, FinishReply, Observe, Settle, Decorate, DecoratorThrows, Send
<1>6. CASE HandlerSettles \/ TimerFires
  BY <1>6 DEF HandlerSettles, TimerFires
<1>7. CASE UNCHANGED vars
  BY <1>7 DEF vars
<1> QED BY <1>1, <1>2, <1>3, <1>4, <1>5, <1>6, <1>7 DEF Next, Step

LEMMA ClearancesNext ==
  ASSUME TypeOK, Clearances, [Next]_vars
  PROVE  Clearances'
<1> USE DEF run, RouteError, Formatted, HookError, Answer, Goto, Escapes, Done, AfterContext,
     AppReplies, Own, Unchecked, NoReply, Thrown, Reply, TypeOK, ConfigType, Clearances, Passed,
     InputPassed, Asking
<1>1. CASE GateStep
  <2>1. CASE GateAnswers
    BY <2>1 DEF GateAnswers
  <2>2. CASE GatePasses
    BY <2>2 DEF GatePasses
  <2>3. CASE Mount
    BY <2>3 DEF Mount
  <2>4. CASE Miss
    BY <2>4 DEF Miss
  <2>5. CASE Match
    BY <2>5 DEF Match
  <2> QED BY <1>1, <2>1, <2>2, <2>3, <2>4, <2>5 DEF GateStep
<1>2. CASE ContextStep
  BY <1>2 DEF ContextStep, BuildContext, SecurityAllows, SecurityDenies, ServeDocument
<1>3. CASE InputStep
  BY <1>3 DEF InputStep, SlotsValid, SlotsInvalid, BodyValid, BodyInvalid
<1>4. CASE TailStep
  <2>1. CASE RunTail
    BY <2>1 DEF RunTail
  <2>2. CASE RefinePasses
    BY <2>2 DEF RefinePasses
  <2>3. CASE RefineFails
    BY <2>3 DEF RefineFails
  <2>4. CASE GuardAllows
    BY <2>4 DEF GuardAllows
  <2>5. CASE GuardDenies
    BY <2>5 DEF GuardDenies
  <2>6. CASE CallHandler
    BY <2>6 DEF CallHandler
  <2>7. CASE RaceReplies
    BY <2>7 DEF RaceReplies
  <2>8. CASE RaceRejects
    BY <2>8 DEF RaceRejects
  <2>9. CASE HookRuns
    BY <2>9 DEF HookRuns
  <2>10. CASE HookThrows
    BY <2>10 DEF HookThrows
  <2>11. CASE HooksDone
    BY <2>11 DEF HooksDone
  <2> QED BY <1>4, <2>1, <2>2, <2>3, <2>4, <2>5, <2>6, <2>7, <2>8, <2>9, <2>10, <2>11 DEF
       TailStep
<1>5. CASE ReplyStep
  <2>1. CASE FinishReply
    BY <2>1 DEF FinishReply
  <2>2. CASE Observe
    BY <2>2 DEF Observe
  <2>3. CASE Settle
    BY <2>3 DEF Settle
  <2>4. CASE Decorate
    BY <2>4 DEF Decorate
  <2>5. CASE DecoratorThrows
    BY <2>5 DEF DecoratorThrows
  <2>6. CASE Send
    BY <2>6 DEF Send
  <2> QED BY <1>5, <2>1, <2>2, <2>3, <2>4, <2>5, <2>6 DEF ReplyStep
<1>6. CASE HandlerSettles \/ TimerFires
  BY <1>6 DEF HandlerSettles, TimerFires
<1>7. CASE UNCHANGED vars
  BY <1>7 DEF vars
<1> QED BY <1>1, <1>2, <1>3, <1>4, <1>5, <1>6, <1>7 DEF Next, Step

LEMMA RaceNext ==
  ASSUME TypeOK, Race, [Next]_vars
  PROVE  Race'
<1> USE DEF run, RouteError, Formatted, HookError, Answer, Goto, Escapes, Done, AfterContext,
     AppReplies, Own, Unchecked, NoReply, Thrown, Reply, Race, Asking
<1>a. Called("onTimeout")' => Called("onTimeout") \/ winner'.from \in {"thrown", "timeout"}
  BY CalledNext DEF Callable
<1>1. CASE GateStep
  <2>1. CASE GateAnswers
    BY <2>1, <1>a DEF GateAnswers
  <2>2. CASE GatePasses
    BY <2>2, <1>a DEF GatePasses
  <2>3. CASE Mount
    BY <2>3, <1>a DEF Mount
  <2>4. CASE Miss
    BY <2>4, <1>a DEF Miss
  <2>5. CASE Match
    BY <2>5, <1>a DEF Match
  <2> QED BY <1>1, <2>1, <2>2, <2>3, <2>4, <2>5 DEF GateStep
<1>2. CASE ContextStep
  <2>1. CASE BuildContext
    BY <2>1, <1>a DEF BuildContext
  <2>2. CASE SecurityAllows
    BY <2>2, <1>a DEF SecurityAllows
  <2>3. CASE SecurityDenies
    BY <2>3, <1>a DEF SecurityDenies
  <2>4. CASE ServeDocument
    BY <2>4, <1>a DEF ServeDocument
  <2> QED BY <1>2, <2>1, <2>2, <2>3, <2>4 DEF ContextStep
<1>3. CASE InputStep
  <2>1. CASE SlotsValid
    BY <2>1, <1>a DEF SlotsValid
  <2>2. CASE SlotsInvalid
    BY <2>2, <1>a DEF SlotsInvalid
  <2>3. CASE BodyValid
    BY <2>3, <1>a DEF BodyValid
  <2>4. CASE BodyInvalid
    BY <2>4, <1>a DEF BodyInvalid
  <2> QED BY <1>3, <2>1, <2>2, <2>3, <2>4 DEF InputStep
<1>4. CASE TailStep
  <2>1. CASE RunTail
    BY <2>1, <1>a DEF RunTail
  <2>2. CASE RefinePasses
    BY <2>2, <1>a DEF RefinePasses
  <2>3. CASE RefineFails
    BY <2>3, <1>a DEF RefineFails
  <2>4. CASE GuardAllows
    BY <2>4, <1>a DEF GuardAllows
  <2>5. CASE GuardDenies
    BY <2>5, <1>a DEF GuardDenies
  <2>6. CASE CallHandler
    BY <2>6, <1>a DEF CallHandler
  <2>7. CASE RaceReplies
    BY <2>7, <1>a DEF RaceReplies
  <2>8. CASE RaceRejects
    BY <2>8, <1>a DEF RaceRejects
  <2>9. CASE HookRuns
    BY <2>9, <1>a DEF HookRuns
  <2>10. CASE HookThrows
    BY <2>10, <1>a DEF HookThrows
  <2>11. CASE HooksDone
    BY <2>11, <1>a DEF HooksDone
  <2> QED BY <1>4, <2>1, <2>2, <2>3, <2>4, <2>5, <2>6, <2>7, <2>8, <2>9, <2>10, <2>11 DEF
       TailStep
<1>5. CASE ReplyStep
  <2>1. CASE FinishReply
    BY <2>1, <1>a DEF FinishReply
  <2>2. CASE Observe
    BY <2>2, <1>a DEF Observe
  <2>3. CASE Settle
    BY <2>3, <1>a DEF Settle
  <2>4. CASE Decorate
    BY <2>4, <1>a DEF Decorate
  <2>5. CASE DecoratorThrows
    BY <2>5, <1>a DEF DecoratorThrows
  <2>6. CASE Send
    BY <2>6, <1>a DEF Send
  <2> QED BY <1>5, <2>1, <2>2, <2>3, <2>4, <2>5, <2>6 DEF ReplyStep
<1>6. CASE HandlerSettles \/ TimerFires
  BY <1>6, <1>a DEF HandlerSettles, TimerFires
<1>7. CASE UNCHANGED vars
  BY <1>7, <1>a DEF vars
<1> QED BY <1>1, <1>2, <1>3, <1>4, <1>5, <1>6, <1>7 DEF Next, Step

LEMMA BuiltNext ==
  ASSUME TypeOK, Built, [Next]_vars
  PROVE  Built'
<1> USE DEF run, RouteError, Formatted, HookError, Answer, Goto, Escapes, TypeOK, ConfigType,
     Built, Asking, Done, AfterContext
<1>a. Called("context")' =>
        \/ Called("context")
        \/ phase = "context" /\ (built' \/ phase' \notin Asking)
  BY CalledNext DEF Callable
<1>1. CASE GateStep
  <2>1. CASE GateAnswers
    BY <2>1, <1>a DEF GateAnswers
  <2>2. CASE GatePasses
    BY <2>2, <1>a DEF GatePasses
  <2>3. CASE Mount
    BY <2>3, <1>a DEF Mount
  <2>4. CASE Miss
    BY <2>4, <1>a DEF Miss
  <2>5. CASE Match
    BY <2>5, <1>a DEF Match
  <2> QED BY <1>1, <2>1, <2>2, <2>3, <2>4, <2>5 DEF GateStep
<1>2. CASE ContextStep
  <2>1. CASE BuildContext
    BY <2>1, <1>a DEF BuildContext
  <2>2. CASE SecurityAllows
    BY <2>2, <1>a DEF SecurityAllows
  <2>3. CASE SecurityDenies
    BY <2>3, <1>a DEF SecurityDenies
  <2>4. CASE ServeDocument
    BY <2>4, <1>a DEF ServeDocument
  <2> QED BY <1>2, <2>1, <2>2, <2>3, <2>4 DEF ContextStep
<1>3. CASE InputStep
  <2>1. CASE SlotsValid
    BY <2>1, <1>a DEF SlotsValid
  <2>2. CASE SlotsInvalid
    BY <2>2, <1>a DEF SlotsInvalid
  <2>3. CASE BodyValid
    BY <2>3, <1>a DEF BodyValid
  <2>4. CASE BodyInvalid
    BY <2>4, <1>a DEF BodyInvalid
  <2> QED BY <1>3, <2>1, <2>2, <2>3, <2>4 DEF InputStep
<1>4. CASE TailStep
  <2>1. CASE RunTail
    BY <2>1, <1>a DEF RunTail
  <2>2. CASE RefinePasses
    BY <2>2, <1>a DEF RefinePasses
  <2>3. CASE RefineFails
    BY <2>3, <1>a DEF RefineFails
  <2>4. CASE GuardAllows
    BY <2>4, <1>a DEF GuardAllows
  <2>5. CASE GuardDenies
    BY <2>5, <1>a DEF GuardDenies
  <2>6. CASE CallHandler
    BY <2>6, <1>a DEF CallHandler
  <2>7. CASE RaceReplies
    BY <2>7, <1>a DEF RaceReplies
  <2>8. CASE RaceRejects
    BY <2>8, <1>a DEF RaceRejects
  <2>9. CASE HookRuns
    BY <2>9, <1>a DEF HookRuns
  <2>10. CASE HookThrows
    BY <2>10, <1>a DEF HookThrows
  <2>11. CASE HooksDone
    BY <2>11, <1>a DEF HooksDone
  <2> QED BY <1>4, <2>1, <2>2, <2>3, <2>4, <2>5, <2>6, <2>7, <2>8, <2>9, <2>10, <2>11 DEF
       TailStep
<1>5. CASE ReplyStep
  <2>1. CASE FinishReply
    BY <2>1, <1>a DEF FinishReply
  <2>2. CASE Observe
    BY <2>2, <1>a DEF Observe
  <2>3. CASE Settle
    BY <2>3, <1>a DEF Settle
  <2>4. CASE Decorate
    BY <2>4, <1>a DEF Decorate
  <2>5. CASE DecoratorThrows
    BY <2>5, <1>a DEF DecoratorThrows
  <2>6. CASE Send
    BY <2>6, <1>a DEF Send
  <2> QED BY <1>5, <2>1, <2>2, <2>3, <2>4, <2>5, <2>6 DEF ReplyStep
<1>6. CASE HandlerSettles \/ TimerFires
  BY <1>6, <1>a DEF HandlerSettles, TimerFires
<1>7. CASE UNCHANGED vars
  BY <1>7, <1>a DEF vars
<1> QED BY <1>1, <1>2, <1>3, <1>4, <1>5, <1>6, <1>7 DEF Next, Step

LEMMA ClearedNext ==
  ASSUME TypeOK, Clearances, Race, Cleared, [Next]_vars
  PROVE  Cleared'
<1> USE DEF run, RouteError, Formatted, HookError, Answer, Goto, Escapes, Done, AfterContext,
     AppReplies, Own, Unchecked, NoReply, Thrown, Reply, TypeOK, ConfigType, Clearances, Race, Passed,
     InputPassed, Asking, Cleared
<1>a. \A c \in {"read", "refine", "guard", "handler"} : Called(c)' =>
        Called(c) \/ phase \in {"body", "refine", "guard", "handler"}
  BY CalledNext DEF Callable
<1>b. Called("handler")' => Called("handler") \/ phase = "handler"
  BY CalledNext DEF Callable
<1>1. CASE GateStep
  <2>1. CASE GateAnswers
    BY <2>1, <1>a, <1>b DEF GateAnswers
  <2>2. CASE GatePasses
    BY <2>2, <1>a, <1>b DEF GatePasses
  <2>3. CASE Mount
    BY <2>3, <1>a, <1>b DEF Mount
  <2>4. CASE Miss
    BY <2>4, <1>a, <1>b DEF Miss
  <2>5. CASE Match
    BY <2>5, <1>a, <1>b DEF Match
  <2> QED BY <1>1, <2>1, <2>2, <2>3, <2>4, <2>5 DEF GateStep
<1>2. CASE ContextStep
  <2>1. CASE BuildContext
    BY <2>1, <1>a, <1>b DEF BuildContext
  <2>2. CASE SecurityAllows
    BY <2>2, <1>a, <1>b DEF SecurityAllows
  <2>3. CASE SecurityDenies
    BY <2>3, <1>a, <1>b DEF SecurityDenies
  <2>4. CASE ServeDocument
    BY <2>4, <1>a, <1>b DEF ServeDocument
  <2> QED BY <1>2, <2>1, <2>2, <2>3, <2>4 DEF ContextStep
<1>3. CASE InputStep
  <2>1. CASE SlotsValid
    BY <2>1, <1>a, <1>b DEF SlotsValid
  <2>2. CASE SlotsInvalid
    BY <2>2, <1>a, <1>b DEF SlotsInvalid
  <2>3. CASE BodyValid
    BY <2>3, <1>a, <1>b DEF BodyValid
  <2>4. CASE BodyInvalid
    BY <2>4, <1>a, <1>b DEF BodyInvalid
  <2> QED BY <1>3, <2>1, <2>2, <2>3, <2>4 DEF InputStep
<1>4. CASE TailStep
  <2>1. CASE RunTail
    BY <2>1, <1>a, <1>b DEF RunTail
  <2>2. CASE RefinePasses
    BY <2>2, <1>a, <1>b DEF RefinePasses
  <2>3. CASE RefineFails
    BY <2>3, <1>a, <1>b DEF RefineFails
  <2>4. CASE GuardAllows
    BY <2>4, <1>a, <1>b DEF GuardAllows
  <2>5. CASE GuardDenies
    BY <2>5, <1>a, <1>b DEF GuardDenies
  <2>6. CASE CallHandler
    BY <2>6, <1>a, <1>b DEF CallHandler
  <2>7. CASE RaceReplies
    BY <2>7, <1>a, <1>b DEF RaceReplies
  <2>8. CASE RaceRejects
    BY <2>8, <1>a, <1>b DEF RaceRejects
  <2>9. CASE HookRuns
    BY <2>9, <1>a, <1>b DEF HookRuns
  <2>10. CASE HookThrows
    BY <2>10, <1>a, <1>b DEF HookThrows
  <2>11. CASE HooksDone
    BY <2>11, <1>a, <1>b DEF HooksDone
  <2> QED BY <1>4, <2>1, <2>2, <2>3, <2>4, <2>5, <2>6, <2>7, <2>8, <2>9, <2>10, <2>11 DEF
       TailStep
<1>5. CASE ReplyStep
  <2>1. CASE FinishReply
    BY <2>1, <1>a, <1>b DEF FinishReply
  <2>2. CASE Observe
    BY <2>2, <1>a, <1>b DEF Observe
  <2>3. CASE Settle
    BY <2>3, <1>a, <1>b DEF Settle
  <2>4. CASE Decorate
    BY <2>4, <1>a, <1>b DEF Decorate
  <2>5. CASE DecoratorThrows
    BY <2>5, <1>a, <1>b DEF DecoratorThrows
  <2>6. CASE Send
    BY <2>6, <1>a, <1>b DEF Send
  <2> QED BY <1>5, <2>1, <2>2, <2>3, <2>4, <2>5, <2>6 DEF ReplyStep
<1>6. CASE HandlerSettles \/ TimerFires
  BY <1>6, <1>a, <1>b DEF HandlerSettles, TimerFires
<1>7. CASE UNCHANGED vars
  BY <1>7, <1>a, <1>b DEF vars
<1> QED BY <1>1, <1>2, <1>3, <1>4, <1>5, <1>6, <1>7 DEF Next, Step

\* A first call of the context factory is the only one.
LEMMA OnceNext ==
  ASSUME TypeOK, Built, ContextOnce, [Next]_vars
  PROVE  ContextOnce'
<1>1. PICK new : Grows(new) /\ \A w \in new : Callable(w)
  BY StepCallsOnly DEF CallsOnly
<1>2. /\ DOMAIN log = 1 .. Len(log) /\ DOMAIN log' = 1 .. Len(log')
      /\ Len(log) \in Nat /\ Len(log') \in Nat
  BY <1>1, LenProperties DEF TypeOK, Grows
<1>3. CASE "context" \notin new
  <2>1. \A i \in DOMAIN log' : log'[i] = "context" => i \in DOMAIN log /\ log[i] = "context"
    BY <1>1, <1>2, <1>3 DEF Grows
  <2> QED BY <2>1 DEF ContextOnce
<1>4. CASE "context" \in new
  <2>1. /\ ~Called("context")
        /\ \A i \in 1 .. Len(log') : log'[i] = "context" => i <= Len(log) + 1
    BY <1>1, <1>4 DEF Callable, Built, Asking, Reporters
  <2>2. \A i \in DOMAIN log : log[i] # "context"
    BY <2>1 DEF Called, Range
  <2>3. \A i \in DOMAIN log' : log'[i] = "context" => i = Len(log) + 1
    BY <1>1, <1>2, <2>1, <2>2 DEF Grows
  <2> QED BY <2>3 DEF ContextOnce
<1> QED BY <1>3, <1>4

\* What escapes is what a reporter has thrown, whoever was asked before it.
Reported(p) ==
  /\ index' = 0
  /\ phase' = p \/ (phase' = "escaped" /\ log'[Len(log')] \in {"onError", "formatter"})

LEMMA Reports ==
  ASSUME log \in Seq(Callees), NEW callees \in Seq(Callees), NEW p, p # "escaped"
  PROVE  /\ RouteError(callees, p) => Reported(p)
         /\ \A from : Formatted(callees, from, p) => Reported(p)
BY RouteErrorFacts, FormattedFacts DEF Reported, Reporters

LEMMA Escaping ==
  ASSUME log \in Seq(Callees)
  PROVE  /\ RouteError(<<>>, Done) => Reported(Done)
         /\ RouteError(<<"context">>, Done) => Reported(Done)
         /\ RouteError(<<"security">>, Done) => Reported(Done)
         /\ RouteError(<<"refine">>, Done) => Reported(Done)
         /\ RouteError(<<"refine", "formatter">>, Done) => Reported(Done)
         /\ RouteError(<<"guard">>, Done) => Reported(Done)
         /\ RouteError(<<"hook">>, Done) => Reported(Done)
         /\ Formatted(<<>>, "miss", "settle") => Reported("settle")
         /\ Formatted(<<>>, "invalid", Done) => Reported(Done)
         /\ Formatted(<<"read">>, "invalid", Done) => Reported(Done)
<1>1. Done # "escaped"
  BY DEF Done
<1>2. <<>> \in Seq(Callees)
  BY FewCallees
<1>3. /\ <<"context">> \in Seq(Callees) /\ <<"security">> \in Seq(Callees)
      /\ <<"read">> \in Seq(Callees) /\ <<"guard">> \in Seq(Callees)
      /\ <<"hook">> \in Seq(Callees) /\ <<"refine">> \in Seq(Callees)
      /\ <<"refine", "formatter">> \in Seq(Callees)
  BY FewCallees DEF Callees, Deciders
<1>4. /\ RouteError(<<>>, Done) => Reported(Done)
      /\ RouteError(<<"context">>, Done) => Reported(Done)
      /\ RouteError(<<"security">>, Done) => Reported(Done)
      /\ RouteError(<<"refine">>, Done) => Reported(Done)
  BY <1>1, <1>2, <1>3, Reports
<1>5. /\ RouteError(<<"refine", "formatter">>, Done) => Reported(Done)
      /\ RouteError(<<"guard">>, Done) => Reported(Done)
      /\ RouteError(<<"hook">>, Done) => Reported(Done)
  BY <1>1, <1>3, Reports
<1>6. /\ Formatted(<<>>, "miss", "settle") => Reported("settle")
      /\ Formatted(<<>>, "invalid", Done) => Reported(Done)
      /\ Formatted(<<"read">>, "invalid", Done) => Reported(Done)
  BY <1>1, <1>2, <1>3, Reports
<1> QED BY <1>4, <1>5, <1>6

LEMMA EscapesNext ==
  ASSUME TypeOK, OnlyReportersEscape, [Next]_vars
  PROVE  OnlyReportersEscape'
<1> USE DEF run, Answer, Goto, Escapes, Reported, OnlyReportersEscape
<1>a. log \in Seq(Callees)
  BY DEF TypeOK
<1>b. Done # "escaped"
  BY DEF Done
<1>1. CASE GateStep
  <2>1. CASE GateAnswers
    BY <2>1 DEF GateAnswers, HookError
  <2>2. CASE GatePasses
    BY <2>2, <1>a, <1>b, Escaping DEF GatePasses
  <2>3. CASE Mount
    <3>1. "mount" \in Callees
      BY DEF Callees, Deciders
    <3> QED BY <2>3, <3>1, <1>a, Asks DEF Mount
  <2>4. CASE Miss
    BY <2>4, <1>a, <1>b, Escaping DEF Miss
  <2>5. CASE Match
    BY <2>5, <1>a, <1>b, Escaping DEF Match
  <2> QED BY <1>1, <2>1, <2>2, <2>3, <2>4, <2>5 DEF GateStep
<1>2. CASE ContextStep
  <2>1. CASE BuildContext
    BY <2>1, <1>a, <1>b, Escaping DEF BuildContext, AfterContext
  <2>2. CASE SecurityAllows
    BY <2>2, <1>a, <1>b, Escaping DEF SecurityAllows
  <2>3. CASE SecurityDenies
    BY <2>3, <1>a, <1>b, Escaping DEF SecurityDenies
  <2>4. CASE ServeDocument
    BY <2>4, <1>a, <1>b, Escaping DEF ServeDocument
  <2> QED BY <1>2, <2>1, <2>2, <2>3, <2>4 DEF ContextStep
<1>3. CASE InputStep
  <2>1. CASE SlotsValid
    BY <2>1, <1>a, <1>b, Escaping DEF SlotsValid
  <2>2. CASE SlotsInvalid
    BY <2>2, <1>a, <1>b, Escaping DEF SlotsInvalid
  <2>3. CASE BodyValid
    BY <2>3, <1>a, <1>b, Escaping DEF BodyValid
  <2>4. CASE BodyInvalid
    BY <2>4, <1>a, <1>b, Escaping DEF BodyInvalid
  <2> QED BY <1>3, <2>1, <2>2, <2>3, <2>4 DEF InputStep
<1>4. CASE TailStep
  <2>1. CASE RunTail
    BY <2>1, <1>a, <1>b, Escaping DEF RunTail
  <2>2. CASE RefinePasses
    BY <2>2, <1>a, <1>b, Escaping DEF RefinePasses
  <2>3. CASE RefineFails
    BY <2>3, <1>a, <1>b, Escaping DEF RefineFails
  <2>4. CASE GuardAllows
    BY <2>4, <1>a, <1>b, Escaping DEF GuardAllows
  <2>5. CASE GuardDenies
    BY <2>5, <1>a, <1>b, Escaping DEF GuardDenies
  <2>6. CASE CallHandler
    BY <2>6, <1>a, <1>b, Escaping DEF CallHandler
  <2>7. CASE RaceReplies
    BY <2>7, <1>a, <1>b, Escaping DEF RaceReplies
  <2>8. CASE RaceRejects
    BY <2>8, <1>a, <1>b, Escaping DEF RaceRejects
  <2>9. CASE HookRuns
    BY <2>9, <1>a, <1>b, Escaping DEF HookRuns
  <2>10. CASE HookThrows
    BY <2>10, <1>a, <1>b, Escaping DEF HookThrows
  <2>11. CASE HooksDone
    BY <2>11, <1>a, <1>b, Escaping DEF HooksDone
  <2> QED BY <1>4, <2>1, <2>2, <2>3, <2>4, <2>5, <2>6, <2>7, <2>8, <2>9, <2>10, <2>11 DEF
       TailStep
<1>5. CASE ReplyStep
  <2>1. CASE FinishReply
    BY <2>1, <1>a, <1>b, Escaping DEF FinishReply
  <2>2. CASE Observe
    BY <2>2, <1>a, <1>b, Escaping DEF Observe
  <2>3. CASE Settle
    BY <2>3, <1>a, <1>b, Escaping DEF Settle
  <2>4. CASE Decorate
    BY <2>4, <1>a, <1>b, Escaping DEF Decorate
  <2>5. CASE DecoratorThrows
    BY <2>5 DEF DecoratorThrows, HookError
  <2>6. CASE Send
    BY <2>6, <1>a, <1>b, Escaping DEF Send
  <2> QED BY <1>5, <2>1, <2>2, <2>3, <2>4, <2>5, <2>6 DEF ReplyStep
<1>6. CASE HandlerSettles \/ TimerFires
  <2>1. phase' = phase /\ (phase = "race" \/ UNCHANGED log)
    BY <1>6 DEF HandlerSettles, TimerFires, TypeOK
  <2> QED BY <2>1
<1>7. CASE UNCHANGED vars
  BY <1>7, <1>a, <1>b, Escaping DEF vars
<1> QED BY <1>1, <1>2, <1>3, <1>4, <1>5, <1>6, <1>7 DEF Next, Step

LEMMA DecoratingNext ==
  ASSUME PipelineAssumption, TypeOK, Decorating, [Next]_vars
  PROVE  Decorating'
<1> USE DEF run, Answer, Goto, Escapes, Reported, Decorating, Decorated
<1>a. log \in Seq(Callees)
  BY DEF TypeOK
<1>b. Done # "escaped"
  BY DEF Done
<1>1. CASE GateStep
  <2>1. CASE GateAnswers
    BY <2>1, PipelineAssumption DEF GateAnswers, HookError, PipelineAssumption
  <2>2. CASE GatePasses
    BY <2>2, <1>a, <1>b, Escaping DEF GatePasses
  <2>3. CASE Mount
    BY <2>3, <1>a, <1>b, Escaping DEF Mount
  <2>4. CASE Miss
    BY <2>4, <1>a, <1>b, Escaping DEF Miss
  <2>5. CASE Match
    BY <2>5, <1>a, <1>b, Escaping DEF Match
  <2> QED BY <1>1, <2>1, <2>2, <2>3, <2>4, <2>5 DEF GateStep
<1>2. CASE ContextStep
  <2>1. CASE BuildContext
    BY <2>1, <1>a, <1>b, Escaping DEF BuildContext
  <2>2. CASE SecurityAllows
    BY <2>2, <1>a, <1>b, Escaping DEF SecurityAllows
  <2>3. CASE SecurityDenies
    BY <2>3, <1>a, <1>b, Escaping DEF SecurityDenies
  <2>4. CASE ServeDocument
    BY <2>4, <1>a, <1>b, Escaping DEF ServeDocument
  <2> QED BY <1>2, <2>1, <2>2, <2>3, <2>4 DEF ContextStep
<1>3. CASE InputStep
  <2>1. CASE SlotsValid
    BY <2>1, <1>a, <1>b, Escaping DEF SlotsValid
  <2>2. CASE SlotsInvalid
    BY <2>2, <1>a, <1>b, Escaping DEF SlotsInvalid
  <2>3. CASE BodyValid
    BY <2>3, <1>a, <1>b, Escaping DEF BodyValid
  <2>4. CASE BodyInvalid
    BY <2>4, <1>a, <1>b, Escaping DEF BodyInvalid
  <2> QED BY <1>3, <2>1, <2>2, <2>3, <2>4 DEF InputStep
<1>4. CASE TailStep
  <2>1. CASE RunTail
    BY <2>1, <1>a, <1>b, Escaping DEF RunTail
  <2>2. CASE RefinePasses
    BY <2>2, <1>a, <1>b, Escaping DEF RefinePasses
  <2>3. CASE RefineFails
    BY <2>3, <1>a, <1>b, Escaping DEF RefineFails
  <2>4. CASE GuardAllows
    BY <2>4, <1>a, <1>b, Escaping DEF GuardAllows
  <2>5. CASE GuardDenies
    BY <2>5, <1>a, <1>b, Escaping DEF GuardDenies
  <2>6. CASE CallHandler
    BY <2>6, <1>a, <1>b, Escaping DEF CallHandler
  <2>7. CASE RaceReplies
    BY <2>7, <1>a, <1>b, Escaping DEF RaceReplies
  <2>8. CASE RaceRejects
    BY <2>8, <1>a, <1>b, Escaping DEF RaceRejects
  <2>9. CASE HookRuns
    BY <2>9, <1>a, <1>b, Escaping DEF HookRuns
  <2>10. CASE HookThrows
    BY <2>10, <1>a, <1>b, Escaping DEF HookThrows
  <2>11. CASE HooksDone
    BY <2>11, <1>a, <1>b, Escaping DEF HooksDone
  <2> QED BY <1>4, <2>1, <2>2, <2>3, <2>4, <2>5, <2>6, <2>7, <2>8, <2>9, <2>10, <2>11 DEF
       TailStep
<1>5. CASE ReplyStep
  <2>1. CASE FinishReply
    BY <2>1, <1>a, <1>b, Escaping DEF FinishReply
  <2>2. CASE Observe
    BY <2>2, <1>a, <1>b, Escaping DEF Observe
  <2>3. CASE Settle
    BY <2>3, <1>a, <1>b, Escaping DEF Settle
  <2>4. CASE Decorate
    <3>1. "decorator" \in Callees
      BY DEF Callees
    <3>2. /\ Len(log') = Len(log) + 1 /\ log'[Len(log')] = "decorator"
          /\ \A i \in 1 .. Len(log) : log'[i] = log[i]
      BY <2>4, <3>1, <1>a, Asks DEF Decorate, Grows
    <3>3. Len(log) \in Nat /\ index \in Nat /\ Decorators \in Nat
      BY <1>a, LenProperties, PipelineAssumption DEF TypeOK, PipelineAssumption
    <3>4. index' = index + 1 /\ index' <= Decorators /\ phase = "decorate"
      BY <2>4, <3>3 DEF Decorate
    <3>5. ASSUME NEW i \in 1 .. index'
          PROVE  i <= Len(log') /\ log'[Len(log') + 1 - i] = "decorator"
      <4>1. CASE i = 1
        BY <3>2, <3>3, <4>1
      <4>2. CASE i # 1
        <5>1. i - 1 \in 1 .. index /\ i - 1 <= Len(log)
          <6>1. i - 1 \in 1 .. index
            BY <3>3, <3>4, <4>2
          <6> QED BY <3>4, <6>1
        <5>2. log[Len(log) + 1 - (i - 1)] = "decorator"
          BY <3>4, <5>1
        <5>3. /\ Len(log') + 1 - i = Len(log) + 1 - (i - 1)
              /\ Len(log) + 1 - (i - 1) \in 1 .. Len(log)
          BY <3>2, <3>3, <3>4, <5>1
        <5> QED BY SMTT(30), <3>2, <5>2, <5>3
      <4> QED BY <4>1, <4>2
    <3> QED BY <3>4, <3>5
  <2>5. CASE DecoratorThrows
    BY <2>5 DEF DecoratorThrows, HookError
  <2>6. CASE Send
    BY <2>6, <1>a, <1>b, Escaping DEF Send
  <2> QED BY <1>5, <2>1, <2>2, <2>3, <2>4, <2>5, <2>6 DEF ReplyStep
<1>6. CASE HandlerSettles \/ TimerFires
  <2>1. phase' = phase /\ index' = index /\ (phase = "race" \/ UNCHANGED log)
    BY <1>6 DEF HandlerSettles, TimerFires, TypeOK
  <2> QED BY <2>1
<1>7. CASE UNCHANGED vars
  BY <1>7, <1>a, <1>b, Escaping DEF vars
<1> QED BY <1>1, <1>2, <1>3, <1>4, <1>5, <1>6, <1>7 DEF Next, Step

\* The request is answered after the whole chain, or one of it has thrown.
LEMMA DecoratedNext ==
  ASSUME PipelineAssumption, TypeOK, Decorating, EveryAnswerDecorated, [Next]_vars
  PROVE  EveryAnswerDecorated'
<1>1. log \in Seq(Callees) /\ log' \in Seq(Callees)
  BY CalledNext DEF TypeOK
<1>2. CASE DecoratorThrows
  <2>1. "decorator" \in Callees
    BY DEF Callees
  <2>2. /\ log'[Len(log) + 1] = "decorator" /\ Len(log) < Len(log')
        /\ reply' \in {Unchecked("error"), Own("internal")}
    BY <1>1, <1>2, <2>1, HookErrorFacts DEF DecoratorThrows
  <2>3. Len(log) + 1 \in DOMAIN log'
    <3>1. Len(log) \in Nat /\ Len(log') \in Nat /\ DOMAIN log' = 1 .. Len(log')
      BY <1>1, LenProperties
    <3> QED BY <2>2, <3>1
  <2>4. Called("decorator")'
    BY <2>2, <2>3 DEF Called, Range
  <2>5. reply'.from \in {"error", "internal"}
    BY <2>2 DEF Own, Unchecked, Reply
  <2> QED BY <2>4, <2>5 DEF EveryAnswerDecorated
<1>3. CASE Send
  <2>1. phase = "decorate" /\ index = Decorators /\ UNCHANGED log
    BY <1>3 DEF Send
  <2>2. Decorated(Decorators)
    BY <2>1 DEF Decorating
  <2> QED BY <2>1, <2>2 DEF EveryAnswerDecorated, Decorated
<1>4. CASE phase' # "answered"
  BY <1>4 DEF EveryAnswerDecorated
<1>5. CASE UNCHANGED <<phase, log, reply>>
  BY <1>5 DEF EveryAnswerDecorated, Decorated, Called
<1>6. CASE GateStep \/ ContextStep
  <2>1. phase' # "answered"
    BY <1>6 DEF GateStep, GateAnswers, GatePasses, Mount, Miss, Match, ContextStep,
         BuildContext, SecurityAllows, SecurityDenies, ServeDocument, run, RouteError,
         Formatted, HookError, Answer, Goto, Escapes, Done, AfterContext
  <2> QED BY <1>4, <2>1
<1>7. CASE InputStep \/ TailStep
  <2>1. phase' # "answered"
    BY <1>7 DEF InputStep, SlotsValid, SlotsInvalid, BodyValid, BodyInvalid, TailStep,
         RunTail, RefinePasses, RefineFails, GuardAllows, GuardDenies, CallHandler,
         RaceReplies, RaceRejects, HookRuns, HookThrows, HooksDone, run, RouteError,
         Formatted, Answer, Goto, Escapes, Done
  <2> QED BY <1>4, <2>1
<1>8. CASE FinishReply \/ Observe \/ Settle \/ Decorate
  BY <1>4, <1>8 DEF FinishReply, Observe, Settle, Decorate, Answer, Goto
<1>9. CASE HandlerSettles \/ TimerFires
  <2>1. UNCHANGED <<phase, log, reply>> \/ phase' # "answered"
    BY <1>9 DEF HandlerSettles, TimerFires, TypeOK
  <2> QED BY <1>4, <1>5, <2>1
<1>10. CASE UNCHANGED vars
  BY <1>5, <1>10 DEF vars
<1> QED BY <1>2, <1>3, <1>6, <1>7, <1>8, <1>9, <1>10 DEF Next, Step, ReplyStep

(***************************************************************************)
(* The theorems.                                                           *)
(***************************************************************************)
LEMMA PInit == ASSUME PipelineAssumption, Init PROVE PInv
<1> USE DEF Init
<1>1. log \in Seq(Callees) /\ DOMAIN log = {} /\ Len(log) = 0
  BY EmptySeq
<1>2. \A who : ~Called(who)
  BY <1>1 DEF Called, Range
<1>3. TypeOK
  <2>1. NoReply \in Replies
    BY DEF NoReply, Own, Reply, Replies, Sources
  <2> QED BY <1>1, <2>1 DEF TypeOK, Phases, PipelineAssumption
<1>4. NoReply.from = "none" /\ NoReply.declared
  BY DEF NoReply, Own, Reply
<1>5. ContextOnce /\ OnlyReportersEscape /\ EveryAnswerDecorated
  BY <1>1 DEF ContextOnce, OnlyReportersEscape, EveryAnswerDecorated
<1>6. Cleared /\ DeclaredReplies
  BY <1>2, <1>4 DEF Cleared, DeclaredReplies, Checked
<1>7. Clearances /\ Race /\ Built /\ Decorating
  BY <1>2, <1>4 DEF Clearances, Race, Built, Decorating, Asking
<1> QED BY <1>3, <1>5, <1>6, <1>7 DEF PInv, Inv

LEMMA PNext == ASSUME PipelineAssumption, PInv, [Next]_vars PROVE PInv'
BY TypeNext, DeclaredNext, ClearancesNext, RaceNext, BuiltNext, ClearedNext, OnceNext,
   EscapesNext, DecoratingNext, DecoratedNext DEF PInv, Inv

LEMMA PipelineInductive == Spec => []PInv
<1>1. Init => PInv
  BY PInit, PipelineAssumption
<1>2. PInv /\ [Next]_vars => PInv'
  BY PNext, PipelineAssumption
<1> QED BY <1>1, <1>2, PTL DEF Spec

\* The invariant of the request: types, one run of the context factory, who may
\* make the fetch handler reject, and decorators on every answer.
THEOREM PipelineTheorem == Spec => []Inv
<1>1. PInv => Inv
  BY DEF PInv
<1> QED BY <1>1, PipelineInductive, PTL

\* Deny by default, for any number of guards.
THEOREM ClearedTheorem == Spec => []Cleared
<1>1. PInv => Cleared
  BY DEF PInv
<1> QED BY <1>1, PipelineInductive, PTL

\* With validateResponses no undeclared reply of app code is observed or sent.
THEOREM DeclaredTheorem == Spec => []DeclaredReplies
<1>1. PInv => DeclaredReplies
  BY DEF PInv
<1> QED BY <1>1, PipelineInductive, PTL

LEMMA ReplyOnce ==
  ASSUME TypeOK, Race, [Next]_vars, reply # NoReply, log' # log
  PROVE  log'[Len(log) + 1] \notin Deciders
<1>1. PICK new : Grows(new) /\ \A w \in new : Callable(w)
  BY StepCallsOnly DEF CallsOnly
<1>2. \A w \in new : w \notin Deciders
  BY <1>1 DEF Callable, Race
<1>3. Len(log) \in Nat /\ Len(log') \in Nat /\ log' \in Seq(Callees) /\ log \in Seq(Callees)
  BY <1>1, LenProperties DEF TypeOK, Grows
<1>4. Len(log') # Len(log)
  <2> SUFFICES ASSUME Len(log') = Len(log) PROVE FALSE
    OBVIOUS
  <2>1. \A i \in 1 .. Len(log) : log'[i] = log[i]
    BY <1>1 DEF Grows
  <2> QED BY <1>3, <2>1, SeqEqual
<1>5. Len(log) + 1 \in 1 .. Len(log')
  BY <1>1, <1>3, <1>4 DEF Grows
<1> QED BY <1>1, <1>2, <1>3, <1>5 DEF Grows

LEMMA WinnerKept == ASSUME Next, winner # NoReply PROVE winner' = winner
<1> USE DEF run
<1>1. CASE GateStep
  BY <1>1 DEF GateStep, GateAnswers, GatePasses, Mount, Miss, Match
<1>2. CASE ContextStep
  BY <1>2 DEF ContextStep, BuildContext, SecurityAllows, SecurityDenies, ServeDocument
<1>3. CASE InputStep
  BY <1>3 DEF InputStep, SlotsValid, SlotsInvalid, BodyValid, BodyInvalid
<1>4. CASE TailStep
  BY <1>4 DEF TailStep, RunTail, RefinePasses, RefineFails, GuardAllows, GuardDenies,
       CallHandler, RaceReplies, RaceRejects, HookRuns, HookThrows, HooksDone
<1>5. CASE ReplyStep
  BY <1>5 DEF ReplyStep, FinishReply, Observe, Settle, Decorate, DecoratorThrows, Send
<1>6. CASE HandlerSettles \/ TimerFires
  BY <1>6 DEF HandlerSettles, TimerFires
<1> QED BY <1>1, <1>2, <1>3, <1>4, <1>5, <1>6 DEF Next, Step

\* One answer for each request, and none of a handler that has missed its deadline.
THEOREM OnceTheorem == Spec => AnsweredOnce
<1>1. PInv /\ PInv' /\ [Next]_vars =>
        [/\ reply # NoReply /\ log' # log => log'[Len(log) + 1] \notin Deciders
         /\ winner # NoReply => winner' = winner
         /\ reply'.from = "handler" => ~Called("onTimeout")']_vars
  <2> SUFFICES ASSUME PInv, PInv', Next, vars' # vars
               PROVE  /\ reply # NoReply /\ log' # log => log'[Len(log) + 1] \notin Deciders
                      /\ winner # NoReply => winner' = winner
                      /\ reply'.from = "handler" => ~Called("onTimeout")'
    OBVIOUS
  <2>1. reply # NoReply /\ log' # log => log'[Len(log) + 1] \notin Deciders
    BY ReplyOnce DEF PInv, Inv
  <2>2. winner # NoReply => winner' = winner
    BY WinnerKept
  <2>3. reply'.from = "handler" => ~Called("onTimeout")'
    BY DEF PInv, Race
  <2> QED BY <2>1, <2>2, <2>3
<1> QED BY <1>1, PipelineInductive, PTL DEF Spec, AnsweredOnce

-----------------------------------------------------------------------------
(***************************************************************************)
(* NodeHandler, for every cap and any length of upload and reply: what the *)
(* client is sent is whole or visibly broken, the source of a streamed     *)
(* reply is let go of, the upload is capped, and a signal asked for in     *)
(* time tells that the client has left.                                    *)
(***************************************************************************)

USE DEF request, bodyVars, outVars, connection

\* Where the adapter is says what it has put on the wire, and what has become
\* of the source.
AdapterInv ==
  /\ pc \in {"called", "declined", "handling"} => apiReply = NoApiReply /\ source = "none"
  /\ pc = "handled" => source = IF apiReply.body = "stream" THEN "open" ELSE "none"
  /\ pc \in {"called", "declined", "handling", "handled"} => status = 0
  /\ pc \in {"pumping", "draining"} =>
       source = "open" /\ status = 200 /\ ~head /\ Streams(apiReply)
  /\ pc # "done" => out = "open"
  /\ finished => out = "ended"

\* An upload is pending while it flows, and then not past the cap.
UploadInv ==
  /\ body = "pending" => upload = "flowing" /\ ~declared /\ received <= Limit
  /\ upload = "flowing" /\ body = "none" => received = 0

IInv == NodeTypeOK /\ WholeOrBroken /\ SourceReleased /\ Capped
          /\ AdapterInv /\ UploadInv /\ SignalTells

\* The first read of the body starts it, a later one shares its promise.
LEMMA ReadsKeeps == ASSUME NodeAssumption, IInv, Reads PROVE IInv'
<1>1. NodeTypeOK'
  BY DEF IInv, NodeTypeOK, NodeAssumption, AdapterInv, NoApiReply, ReplyType, Reads, ReadBytes
<1>2. (WholeOrBroken /\ SourceReleased /\ AdapterInv)'
  BY DEF IInv, NodeTypeOK, WholeOrBroken, SourceReleased, AdapterInv, NoApiReply, Reads, ReadBytes
<1>3. (Capped /\ UploadInv)'
  BY DEF IInv, NodeTypeOK, NodeAssumption, Capped, UploadInv, Reads, ReadBytes
<1>4. SignalTells'
  BY DEF IInv, NodeTypeOK, AdapterInv, SignalTells, Reads, ReadBytes
<1> QED BY <1>1, <1>2, <1>3, <1>4 DEF IInv

\* The body the handler awaits has settled.
LEMMA BodyReadKeeps == ASSUME NodeAssumption, IInv, BodyRead PROVE IInv'
<1>1. NodeTypeOK'
  <2>0. NodeTypeOK
    BY DEF IInv
  <2> USE <2>0 DEF NodeTypeOK, NodeAssumption, BodyRead
  <2>1. (head \in BOOLEAN /\ declared \in BOOLEAN /\ awaits \in BOOLEAN)'
    OBVIOUS
  <2>2. (/\ upload \in {"flowing", "ended", "destroyed"} /\ received \in Nat
         /\ body \in {"none", "pending", "resolved", "tooLarge", "rejected"}
         /\ pc \in {"called", "declined", "handling", "handled", "pumping", "draining", "done"}
         /\ apiReply \in ReplyType
         /\ source \in {"none", "open", "ended", "failed", "cancelled"})'
    OBVIOUS
  <2>3. (/\ status \in {0, 200, 500} /\ written \in Nat /\ full \in BOOLEAN
         /\ out \in {"open", "ended", "destroyed"} /\ finished \in BOOLEAN)'
    OBVIOUS
  <2>4. (closed \in BOOLEAN)' /\ signal' \in {signal, "aborted"}
    OBVIOUS
  <2>5. (signal \in {"none", "late", "armed", "aborted"})'
    BY <2>4
  <2>6. (/\ (pc \in {"pumping", "draining"} \/ written > 0) => status = 200
         /\ pc = "done" => out # "open" /\ (out = "ended" => status # 0))'
    OBVIOUS
  <2>7. (pc = "draining" <=> (full /\ pc # "done"))'
    OBVIOUS
  <2> QED BY <2>1, <2>2, <2>3, <2>4, <2>5, <2>6, <2>7
<1>2. (WholeOrBroken /\ SourceReleased /\ AdapterInv)'
  BY DEF IInv, NodeTypeOK, WholeOrBroken, SourceReleased, AdapterInv, NoApiReply, BodyRead
<1>3. (Capped /\ UploadInv)'
  BY DEF IInv, NodeTypeOK, NodeAssumption, Capped, UploadInv, BodyRead
<1>4. SignalTells'
  BY DEF IInv, NodeTypeOK, AdapterInv, SignalTells, BodyRead
<1> QED BY <1>1, <1>2, <1>3, <1>4 DEF IInv

\* The signal is armed while the connection is open, and is late after.
LEMMA AsksSignalKeeps == ASSUME NodeAssumption, IInv, AsksSignal PROVE IInv'
<1>1. NodeTypeOK'
  BY DEF IInv, NodeTypeOK, NodeAssumption, AdapterInv, NoApiReply, ReplyType, AsksSignal
<1>2. (WholeOrBroken /\ SourceReleased /\ AdapterInv)'
  BY DEF IInv, NodeTypeOK, WholeOrBroken, SourceReleased, AdapterInv, NoApiReply, AsksSignal
<1>3. (Capped /\ UploadInv)'
  BY DEF IInv, NodeTypeOK, NodeAssumption, Capped, UploadInv, AsksSignal
<1>4. SignalTells'
  BY DEF IInv, NodeTypeOK, AdapterInv, SignalTells, AsksSignal
<1> QED BY <1>1, <1>2, <1>3, <1>4 DEF IInv

\* The pipeline replies; a streamed reply opens its source.
LEMMA HandledKeeps == ASSUME NodeAssumption, IInv, Handled PROVE IInv'
<1>1. NodeTypeOK'
  BY DEF IInv, NodeTypeOK, NodeAssumption, AdapterInv, NoApiReply, ReplyType, Handled, ApiReplies
<1>2. (WholeOrBroken /\ SourceReleased /\ AdapterInv)'
  BY DEF IInv, NodeTypeOK, WholeOrBroken, SourceReleased, AdapterInv, NoApiReply, Handled, ApiReplies
<1>3. (Capped /\ UploadInv)'
  BY DEF IInv, NodeTypeOK, NodeAssumption, Capped, UploadInv, Handled, ApiReplies
<1>4. SignalTells'
  BY DEF IInv, NodeTypeOK, AdapterInv, SignalTells, Handled, ApiReplies
<1> QED BY <1>1, <1>2, <1>3, <1>4 DEF IInv

\* The pipeline rejects: nothing has been sent, so the 500 can be.
LEMMA HandleRejectsKeeps == ASSUME NodeAssumption, IInv, HandleRejects PROVE IInv'
<1>1. NodeTypeOK'
  BY DEF IInv, NodeTypeOK, NodeAssumption, AdapterInv, NoApiReply, ReplyType, HandleRejects, Answer500
<1>2. (WholeOrBroken /\ SourceReleased /\ AdapterInv)'
  BY DEF IInv, NodeTypeOK, WholeOrBroken, SourceReleased, AdapterInv, NoApiReply, HandleRejects, Answer500
<1>3. (Capped /\ UploadInv)'
  BY DEF IInv, NodeTypeOK, NodeAssumption, Capped, UploadInv, HandleRejects, Answer500
<1>4. SignalTells'
  BY DEF IInv, NodeTypeOK, AdapterInv, SignalTells, HandleRejects, Answer500
<1> QED BY <1>1, <1>2, <1>3, <1>4 DEF IInv

\* A reply that cannot be sent: nothing has been sent of it yet.
LEMMA FailsKeeps == ASSUME NodeAssumption, IInv, Fails PROVE IInv'
<1>1. NodeTypeOK'
  BY DEF IInv, NodeTypeOK, NodeAssumption, AdapterInv, NoApiReply, ReplyType, Fails, Answer500
<1>2. (WholeOrBroken /\ SourceReleased /\ AdapterInv)'
  BY DEF IInv, NodeTypeOK, WholeOrBroken, SourceReleased, AdapterInv, NoApiReply, Fails, Answer500
<1>3. (Capped /\ UploadInv)'
  BY DEF IInv, NodeTypeOK, NodeAssumption, Capped, UploadInv, Fails, Answer500
<1>4. SignalTells'
  BY DEF IInv, NodeTypeOK, AdapterInv, SignalTells, Fails, Answer500
<1> QED BY <1>1, <1>2, <1>3, <1>4 DEF IInv

\* HEAD is answered without the body, and its source is cancelled.
LEMMA AnswersHeadKeeps == ASSUME NodeAssumption, IInv, AnswersHead PROVE IInv'
<1>1. NodeTypeOK'
  BY DEF IInv, NodeTypeOK, NodeAssumption, AdapterInv, NoApiReply, ReplyType, AnswersHead, Sendable
<1>2. (WholeOrBroken /\ SourceReleased /\ AdapterInv)'
  BY DEF IInv, NodeTypeOK, WholeOrBroken, SourceReleased, AdapterInv, NoApiReply, AnswersHead, Sendable
<1>3. (Capped /\ UploadInv)'
  BY DEF IInv, NodeTypeOK, NodeAssumption, Capped, UploadInv, AnswersHead, Sendable
<1>4. SignalTells'
  BY DEF IInv, NodeTypeOK, AdapterInv, SignalTells, AnswersHead, Sendable
<1> QED BY <1>1, <1>2, <1>3, <1>4 DEF IInv

\* A reply of one piece goes out whole.
LEMMA AnswersWholeKeeps == ASSUME NodeAssumption, IInv, AnswersWhole PROVE IInv'
<1>1. NodeTypeOK'
  BY DEF IInv, NodeTypeOK, NodeAssumption, AdapterInv, NoApiReply, ReplyType, AnswersWhole, Sendable, Streams
<1>2. (WholeOrBroken /\ SourceReleased /\ AdapterInv)'
  BY DEF IInv, NodeTypeOK, WholeOrBroken, SourceReleased, AdapterInv, NoApiReply, AnswersWhole, Sendable, Streams
<1>3. (Capped /\ UploadInv)'
  BY DEF IInv, NodeTypeOK, NodeAssumption, Capped, UploadInv, AnswersWhole, Sendable, Streams
<1>4. SignalTells'
  BY DEF IInv, NodeTypeOK, AdapterInv, SignalTells, AnswersWhole, Sendable, Streams
<1> QED BY <1>1, <1>2, <1>3, <1>4 DEF IInv

\* The head of a streamed reply: status 200, the source open.
LEMMA StartsPumpKeeps == ASSUME NodeAssumption, IInv, StartsPump PROVE IInv'
<1>1. NodeTypeOK'
  BY DEF IInv, NodeTypeOK, NodeAssumption, AdapterInv, NoApiReply, ReplyType, StartsPump, Sendable, Streams
<1>2. (WholeOrBroken /\ SourceReleased /\ AdapterInv)'
  BY DEF IInv, NodeTypeOK, WholeOrBroken, SourceReleased, AdapterInv, NoApiReply, StartsPump, Sendable, Streams
<1>3. (Capped /\ UploadInv)'
  BY DEF IInv, NodeTypeOK, NodeAssumption, Capped, UploadInv, StartsPump, Sendable, Streams
<1>4. SignalTells'
  BY DEF IInv, NodeTypeOK, AdapterInv, SignalTells, StartsPump, Sendable, Streams
<1> QED BY <1>1, <1>2, <1>3, <1>4 DEF IInv

\* A chunk is written; the adapter waits for drain when the socket is full.
LEMMA WritesKeeps == ASSUME NodeAssumption, IInv, Writes PROVE IInv'
<1>1. NodeTypeOK'
  BY DEF IInv, NodeTypeOK, NodeAssumption, AdapterInv, NoApiReply, ReplyType, Writes
<1>2. (WholeOrBroken /\ SourceReleased /\ AdapterInv)'
  BY DEF IInv, NodeTypeOK, WholeOrBroken, SourceReleased, AdapterInv, NoApiReply, Writes
<1>3. (Capped /\ UploadInv)'
  BY DEF IInv, NodeTypeOK, NodeAssumption, Capped, UploadInv, Writes
<1>4. SignalTells'
  BY DEF IInv, NodeTypeOK, AdapterInv, SignalTells, Writes
<1> QED BY <1>1, <1>2, <1>3, <1>4 DEF IInv

\* The response has closed under the wait for drain: the pump cancels the source and destroys the response.
LEMMA StopsKeeps == ASSUME NodeAssumption, IInv, Stops PROVE IInv'
<1>1. NodeTypeOK'
  BY DEF IInv, NodeTypeOK, NodeAssumption, AdapterInv, NoApiReply, ReplyType, Stops, HangsUp
<1>2. (WholeOrBroken /\ SourceReleased /\ AdapterInv)'
  BY DEF IInv, NodeTypeOK, WholeOrBroken, SourceReleased, AdapterInv, NoApiReply, Stops, HangsUp
<1>3. (Capped /\ UploadInv)'
  BY DEF IInv, NodeTypeOK, NodeAssumption, Capped, UploadInv, Stops, HangsUp
<1>4. SignalTells'
  BY DEF IInv, NodeTypeOK, AdapterInv, SignalTells, Stops, HangsUp
<1> QED BY <1>1, <1>2, <1>3, <1>4 DEF IInv

\* The chunk of a source whose client has gone.
LEMMA WritesClosedKeeps == ASSUME NodeAssumption, IInv, WritesClosed PROVE IInv'
<1>1. NodeTypeOK'
  BY DEF IInv, NodeTypeOK, NodeAssumption, AdapterInv, NoApiReply, ReplyType, WritesClosed, HangsUp
<1>2. (WholeOrBroken /\ SourceReleased /\ AdapterInv)'
  BY DEF IInv, NodeTypeOK, WholeOrBroken, SourceReleased, AdapterInv, NoApiReply, WritesClosed, HangsUp
<1>3. (Capped /\ UploadInv)'
  BY DEF IInv, NodeTypeOK, NodeAssumption, Capped, UploadInv, WritesClosed, HangsUp
<1>4. SignalTells'
  BY DEF IInv, NodeTypeOK, AdapterInv, SignalTells, WritesClosed, HangsUp
<1> QED BY <1>1, <1>2, <1>3, <1>4 DEF IInv

\* The stream is whole, and only then is the response ended.
LEMMA SourceEndsKeeps == ASSUME NodeAssumption, IInv, SourceEnds PROVE IInv'
<1>1. NodeTypeOK'
  BY DEF IInv, NodeTypeOK, NodeAssumption, AdapterInv, NoApiReply, ReplyType, SourceEnds
<1>2. (WholeOrBroken /\ SourceReleased /\ AdapterInv)'
  BY DEF IInv, NodeTypeOK, WholeOrBroken, SourceReleased, AdapterInv, NoApiReply, SourceEnds
<1>3. (Capped /\ UploadInv)'
  BY DEF IInv, NodeTypeOK, NodeAssumption, Capped, UploadInv, SourceEnds
<1>4. SignalTells'
  BY DEF IInv, NodeTypeOK, AdapterInv, SignalTells, SourceEnds
<1> QED BY <1>1, <1>2, <1>3, <1>4 DEF IInv

\* The stream failed: the response is destroyed, never ended.
LEMMA SourceFailsKeeps == ASSUME NodeAssumption, IInv, SourceFails PROVE IInv'
<1>1. NodeTypeOK'
  BY DEF IInv, NodeTypeOK, NodeAssumption, AdapterInv, NoApiReply, ReplyType, SourceFails
<1>2. (WholeOrBroken /\ SourceReleased /\ AdapterInv)'
  BY DEF IInv, NodeTypeOK, WholeOrBroken, SourceReleased, AdapterInv, NoApiReply, SourceFails
<1>3. (Capped /\ UploadInv)'
  BY DEF IInv, NodeTypeOK, NodeAssumption, Capped, UploadInv, SourceFails
<1>4. SignalTells'
  BY DEF IInv, NodeTypeOK, AdapterInv, SignalTells, SourceFails
<1> QED BY <1>1, <1>2, <1>3, <1>4 DEF IInv

\* A chunk of the upload, which may be the one past the cap.
LEMMA ArrivesKeeps == ASSUME NodeAssumption, IInv, Arrives PROVE IInv'
<1>1. NodeTypeOK'
  <2>0. NodeTypeOK
    BY DEF IInv
  <2> USE <2>0 DEF NodeTypeOK, NodeAssumption, Arrives
  <2>1. (head \in BOOLEAN /\ declared \in BOOLEAN /\ awaits \in BOOLEAN)'
    OBVIOUS
  <2>2. (/\ upload \in {"flowing", "ended", "destroyed"} /\ received \in Nat
         /\ body \in {"none", "pending", "resolved", "tooLarge", "rejected"}
         /\ pc \in {"called", "declined", "handling", "handled", "pumping", "draining", "done"}
         /\ apiReply \in ReplyType
         /\ source \in {"none", "open", "ended", "failed", "cancelled"})'
    OBVIOUS
  <2>3. (/\ status \in {0, 200, 500} /\ written \in Nat /\ full \in BOOLEAN
         /\ out \in {"open", "ended", "destroyed"} /\ finished \in BOOLEAN)'
    OBVIOUS
  <2>4. (closed \in BOOLEAN)' /\ signal' \in {signal, "aborted"}
    OBVIOUS
  <2>5. (signal \in {"none", "late", "armed", "aborted"})'
    BY <2>4
  <2>6. (/\ (pc \in {"pumping", "draining"} \/ written > 0) => status = 200
         /\ pc = "done" => out # "open" /\ (out = "ended" => status # 0))'
    OBVIOUS
  <2>7. (pc = "draining" <=> (full /\ pc # "done"))'
    OBVIOUS
  <2> QED BY <2>1, <2>2, <2>3, <2>4, <2>5, <2>6, <2>7
<1>2. (WholeOrBroken /\ SourceReleased /\ AdapterInv)'
  BY DEF IInv, NodeTypeOK, WholeOrBroken, SourceReleased, AdapterInv, NoApiReply, Arrives
<1>3. (Capped /\ UploadInv)'
  BY DEF IInv, NodeTypeOK, NodeAssumption, Capped, UploadInv, Arrives
<1>4. SignalTells'
  BY DEF IInv, NodeTypeOK, AdapterInv, SignalTells, Arrives
<1> QED BY <1>1, <1>2, <1>3, <1>4 DEF IInv

\* The upload ends; what is pending resolves.
LEMMA UploadEndsKeeps == ASSUME NodeAssumption, IInv, UploadEnds PROVE IInv'
<1>1. NodeTypeOK'
  BY DEF IInv, NodeTypeOK, NodeAssumption, AdapterInv, NoApiReply, ReplyType, UploadEnds
<1>2. (WholeOrBroken /\ SourceReleased /\ AdapterInv)'
  BY DEF IInv, NodeTypeOK, WholeOrBroken, SourceReleased, AdapterInv, NoApiReply, UploadEnds
<1>3. (Capped /\ UploadInv)'
  BY DEF IInv, NodeTypeOK, NodeAssumption, Capped, UploadInv, UploadEnds
<1>4. SignalTells'
  BY DEF IInv, NodeTypeOK, AdapterInv, SignalTells, UploadEnds
<1> QED BY <1>1, <1>2, <1>3, <1>4 DEF IInv

\* The client goes away: the signal that is armed tells.
LEMMA ClosesKeeps == ASSUME NodeAssumption, IInv, Closes PROVE IInv'
<1>1. NodeTypeOK'
  BY DEF IInv, NodeTypeOK, NodeAssumption, AdapterInv, NoApiReply, ReplyType, Closes
<1>2. (WholeOrBroken /\ SourceReleased /\ AdapterInv)'
  BY DEF IInv, NodeTypeOK, WholeOrBroken, SourceReleased, AdapterInv, NoApiReply, Closes
<1>3. (Capped /\ UploadInv)'
  BY DEF IInv, NodeTypeOK, NodeAssumption, Capped, UploadInv, Closes
<1>4. SignalTells'
  BY DEF IInv, NodeTypeOK, AdapterInv, SignalTells, Closes
<1> QED BY <1>1, <1>2, <1>3, <1>4 DEF IInv

\* The socket has drained.
LEMMA DrainsKeeps == ASSUME NodeAssumption, IInv, Drains PROVE IInv'
<1>1. NodeTypeOK'
  <2>0. NodeTypeOK
    BY DEF IInv
  <2> USE <2>0 DEF NodeTypeOK, NodeAssumption, Drains
  <2>1. (head \in BOOLEAN /\ declared \in BOOLEAN /\ awaits \in BOOLEAN)'
    OBVIOUS
  <2>2. (/\ upload \in {"flowing", "ended", "destroyed"} /\ received \in Nat
         /\ body \in {"none", "pending", "resolved", "tooLarge", "rejected"}
         /\ pc \in {"called", "declined", "handling", "handled", "pumping", "draining", "done"}
         /\ apiReply \in ReplyType
         /\ source \in {"none", "open", "ended", "failed", "cancelled"})'
    OBVIOUS
  <2>3. (/\ status \in {0, 200, 500} /\ written \in Nat /\ full \in BOOLEAN
         /\ out \in {"open", "ended", "destroyed"} /\ finished \in BOOLEAN)'
    OBVIOUS
  <2>4. (closed \in BOOLEAN)' /\ signal' \in {signal, "aborted"}
    OBVIOUS
  <2>5. (signal \in {"none", "late", "armed", "aborted"})'
    BY <2>4
  <2>6. (/\ (pc \in {"pumping", "draining"} \/ written > 0) => status = 200
         /\ pc = "done" => out # "open" /\ (out = "ended" => status # 0))'
    OBVIOUS
  <2>7. (pc = "draining" <=> (full /\ pc # "done"))'
    OBVIOUS
  <2> QED BY <2>1, <2>2, <2>3, <2>4, <2>5, <2>6, <2>7
<1>2. (WholeOrBroken /\ SourceReleased /\ AdapterInv)'
  BY DEF IInv, NodeTypeOK, WholeOrBroken, SourceReleased, AdapterInv, NoApiReply, Drains
<1>3. (Capped /\ UploadInv)'
  BY DEF IInv, NodeTypeOK, NodeAssumption, Capped, UploadInv, Drains
<1>4. SignalTells'
  BY DEF IInv, NodeTypeOK, AdapterInv, SignalTells, Drains
<1> QED BY <1>1, <1>2, <1>3, <1>4 DEF IInv

\* The response has left the process.
LEMMA FinishesKeeps == ASSUME NodeAssumption, IInv, Finishes PROVE IInv'
<1>1. NodeTypeOK'
  BY DEF IInv, NodeTypeOK, NodeAssumption, AdapterInv, NoApiReply, ReplyType, Finishes
<1>2. (WholeOrBroken /\ SourceReleased /\ AdapterInv)'
  BY DEF IInv, NodeTypeOK, WholeOrBroken, SourceReleased, AdapterInv, NoApiReply, Finishes
<1>3. (Capped /\ UploadInv)'
  BY DEF IInv, NodeTypeOK, NodeAssumption, Capped, UploadInv, Finishes
<1>4. SignalTells'
  BY DEF IInv, NodeTypeOK, AdapterInv, SignalTells, Finishes
<1> QED BY <1>1, <1>2, <1>3, <1>4 DEF IInv

\* No route of the API: the handler declines.
LEMMA DeclinesKeeps == ASSUME NodeAssumption, IInv, Declines PROVE IInv'
<1>1. NodeTypeOK'
  BY DEF IInv, NodeTypeOK, NodeAssumption, AdapterInv, NoApiReply, ReplyType, Declines
<1>2. (WholeOrBroken /\ SourceReleased /\ AdapterInv)'
  BY DEF IInv, NodeTypeOK, WholeOrBroken, SourceReleased, AdapterInv, NoApiReply, Declines
<1>3. (Capped /\ UploadInv)'
  BY DEF IInv, NodeTypeOK, NodeAssumption, Capped, UploadInv, Declines
<1>4. SignalTells'
  BY DEF IInv, NodeTypeOK, AdapterInv, SignalTells, Declines
<1> QED BY <1>1, <1>2, <1>3, <1>4 DEF IInv

\* A route of the API.
LEMMA AcceptsKeeps == ASSUME NodeAssumption, IInv, Accepts PROVE IInv'
<1>1. NodeTypeOK'
  BY DEF IInv, NodeTypeOK, NodeAssumption, AdapterInv, NoApiReply, ReplyType, Accepts
<1>2. (WholeOrBroken /\ SourceReleased /\ AdapterInv)'
  BY DEF IInv, NodeTypeOK, WholeOrBroken, SourceReleased, AdapterInv, NoApiReply, Accepts
<1>3. (Capped /\ UploadInv)'
  BY DEF IInv, NodeTypeOK, NodeAssumption, Capped, UploadInv, Accepts
<1>4. SignalTells'
  BY DEF IInv, NodeTypeOK, AdapterInv, SignalTells, Accepts
<1> QED BY <1>1, <1>2, <1>3, <1>4 DEF IInv

\* The invariant holds before the handler is called, whatever the request.
LEMMA InitKeeps == NodeInit => IInv
<1> SUFFICES ASSUME NodeInit PROVE IInv
  OBVIOUS
<1>1. received \in Nat
  BY NodeAssumption DEF NodeInit, NodeAssumption
<1>2. apiReply \in ReplyType
  BY DEF NodeInit, NoApiReply, ReplyType
<1>3. NodeTypeOK
  <2>1. /\ head \in BOOLEAN /\ declared \in BOOLEAN /\ awaits \in BOOLEAN
        /\ full \in BOOLEAN /\ finished \in BOOLEAN /\ closed \in BOOLEAN
    BY DEF NodeInit
  <2> QED BY <1>1, <1>2, <2>1 DEF NodeInit, NodeTypeOK
<1> QED
  BY <1>3, NodeAssumption DEF NodeInit, IInv, NodeAssumption, WholeOrBroken, SourceReleased,
     Capped, AdapterInv, UploadInv, SignalTells, NoApiReply, Streams

\* One case for each party: handler, adapter, source and client.
LEMMA NextKeeps == IInv /\ [NodeNext]_nodeVars => IInv'
<1> SUFFICES ASSUME IInv, [NodeNext]_nodeVars PROVE IInv'
  OBVIOUS
<1> USE NodeAssumption
<1>1. CASE UNCHANGED nodeVars
  BY <1>1 DEF nodeVars, IInv, NodeTypeOK, WholeOrBroken, SourceReleased, Capped, AdapterInv,
     UploadInv, SignalTells
<1>2. CASE Enters \/ Reads \/ AsksSignal
  BY <1>2, DeclinesKeeps, AcceptsKeeps, ReadsKeeps, AsksSignalKeeps DEF Enters
<1>3. CASE RouteStep
  BY <1>3, HandledKeeps, HandleRejectsKeeps DEF RouteStep
<1>4. CASE SourceStep
  BY <1>4, WritesKeeps, WritesClosedKeeps, SourceEndsKeeps, SourceFailsKeeps DEF SourceStep
<1>5. CASE AdapterStep
  BY <1>5, BodyReadKeeps, FailsKeeps, AnswersHeadKeeps, AnswersWholeKeeps,
     StartsPumpKeeps, StopsKeeps DEF AdapterStep
<1>6. CASE ClientStep
  BY <1>6, ArrivesKeeps, UploadEndsKeeps, ClosesKeeps, DrainsKeeps, FinishesKeeps
     DEF ClientStep
<1> QED BY <1>1, <1>2, <1>3, <1>4, <1>5, <1>6 DEF NodeNext

LEMMA Invariance == NodeSpec => []IInv
BY InitKeeps, NextKeeps, PTL DEF NodeSpec

\* A client that is told a 200 is whole has all of it, a source is let go of when
\* the response is over, and an upload is never read past the cap
\* (to-node-handler.ts:200-241, 334).
THEOREM NodeTheorem == NodeSpec => []NodeInv
<1>1. IInv => NodeInv
  BY DEF IInv, NodeInv
<1> QED BY <1>1, Invariance, PTL

\* A signal that was asked for before the response closed has aborted once it has
\* closed with part of the reply unsent, and has aborted only then; nothing is said
\* of one first asked for later (to-node-handler.ts:114-121).
THEOREM SignalTheorem == NodeSpec => []SignalTells
<1>1. IInv => SignalTells
  BY DEF IInv
<1> QED BY <1>1, Invariance, PTL
=============================================================================
