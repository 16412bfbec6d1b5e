--------------------------- MODULE RequestPipeline ---------------------------
(***************************************************************************)
(* One request through toFetchHandler (to-fetch-handler.ts), handleRequest *)
(* (handle-request.ts) and a handler wrapped by withTimeout                *)
(* (with-timeout.ts).  phase is where the program is, index the position   *)
(* in the chain it walks there, log the calls of app code in order.  Each  *)
(* call of app code may return what its type allows, or throw.             *)
(***************************************************************************)
EXTENDS Naturals, Sequences, Functions

CONSTANTS
  Configs,      \* the routes and options a request may meet
  Gates,        \* number of onRequest gates
  Guards,       \* number of guards of a route, and of security guards
  Hooks,        \* number of onResponse hooks of a route
  Decorators    \* number of onResponse decorators

ConfigType == [
  path : {"mount", "document", "method", "none", "route"},
  secured : BOOLEAN,   \* securityGuards, or openApiGuards of the document
  context : BOOLEAN,   \* a context factory
  body : BOOLEAN,      \* a declared body
  refine : BOOLEAN,    \* a refine
  guards : BOOLEAN,    \* guards of the route
  hooks : BOOLEAN,     \* onResponse hooks of the route
  timed : BOOLEAN,     \* the handler is wrapped by withTimeout
  checked : BOOLEAN,   \* validateResponses
  custom : BOOLEAN]    \* onError and error formatters are given

ASSUME PipelineAssumption ==
  /\ Configs \subseteq ConfigType
  /\ {Gates, Guards, Hooks, Decorators} \subseteq Nat

VARIABLES
  cfg, phase, index, log,
  reply,       \* what the request is to be answered with
  built,       \* the context factory has run (contextBuilt)
  handler,     \* idle, running, done: the handler itself
  timer,       \* the timer of withTimeout is armed
  winner,      \* what Promise.race of withTimeout settled with
  observed,    \* the status observe() was told, as a reply
  verdicts     \* history: what validation, refine and the guards have said

vars == <<cfg, phase, index, log, reply, built, handler, timer, winner, observed, verdicts>>

Reply(from, declared, raw) == [from |-> from, declared |-> declared, raw |-> raw]
Own(from) == Reply(from, TRUE, FALSE)          \* the pipeline's own answers
Unchecked(from) == Reply(from, FALSE, FALSE)   \* app code's, past finishReply
NoReply == Own("none")
Thrown == Own("thrown")

\* What a guard, a handler or a hook may reply.
AppReplies(from) == {Reply(from, d, r) : d, r \in BOOLEAN}

Init ==
  /\ cfg \in Configs
  /\ phase = "gate" /\ index = 0 /\ log = <<>>
  /\ reply = NoReply /\ built = FALSE
  /\ handler = "idle" /\ timer = FALSE /\ winner = NoReply
  /\ observed = NoReply /\ verdicts = {}

Called(who) == who \in Range(log)
Calls(who) == log' = Append(log, who)
Goto(p) == phase' = p /\ index' = 0
Answer(r, p) == reply' = r /\ Goto(p)
Escapes == Goto("escaped") /\ UNCHANGED reply

run == <<handler, timer, winner>>

-----------------------------------------------------------------------------
(***************************************************************************)
(* Errors.                                                                 *)
(***************************************************************************)
\* routeError, of what the last of the callees threw: onError answers, or for a body
\* past the cap the formatter of payloadTooLarge; either may throw, which nothing
\* catches.
RouteError(callees, p) ==
  IF cfg.custom
  THEN \E reporter \in {"onError", "formatter"} :
         /\ log' = Append(log \o callees, reporter)
         /\ Answer(Unchecked("error"), p) \/ Escapes
  ELSE log' = log \o callees /\ Answer(Own("error"), p)

\* The reply of an error formatter, or the default; a formatter may throw.
Formatted(callees, from, p) ==
  IF cfg.custom
  THEN /\ log' = Append(log \o callees, "formatter")
       /\ Answer(Unchecked(from), p) \/ Escapes
  ELSE log' = log \o callees /\ Answer(Own(from), p)

\* hookError: a reporter that throws, or none, leaves the bare 500.
HookError(who, p) ==
  /\ log' = log \o (IF cfg.custom THEN <<who, "onError">> ELSE <<who>>)
  /\ \E r \in IF cfg.custom THEN {Unchecked("error"), Own("internal")} ELSE {Own("internal")} :
       Answer(r, p)

-----------------------------------------------------------------------------
(***************************************************************************)
(* The fetch handler: gates, mounts, and the match.                        *)
(***************************************************************************)

GateAnswers ==
  /\ phase = "gate" /\ index < Gates
  /\ \/ Calls("gate") /\ Answer(Unchecked("gate"), "decorate")
     \/ HookError("gate", "decorate")
  /\ UNCHANGED <<cfg, built, run, observed, verdicts>>

GatePasses ==
  /\ phase = "gate" /\ index < Gates
  /\ Calls("gate")
  /\ index' = index + 1
  /\ UNCHANGED <<cfg, phase, reply, built, run, observed, verdicts>>

Mount ==
  /\ phase = "gate" /\ index = Gates /\ cfg.path = "mount"
  /\ Calls("mount")
  /\ Answer(Unchecked("mount"), "decorate") \/ Escapes
  /\ UNCHANGED <<cfg, built, run, observed, verdicts>>

\* No route: 405 and 404 have formatters, the 204 of OPTIONS has none.
Miss ==
  /\ phase = "gate" /\ index = Gates /\ cfg.path \in {"method", "none"}
  /\ \/ Formatted(<<>>, "miss", "settle")
     \/ cfg.path = "method" /\ Answer(Own("miss"), "settle") /\ UNCHANGED log
  /\ IF phase' = "settle" THEN observed' = reply' ELSE UNCHANGED observed
  /\ UNCHANGED <<cfg, built, run, verdicts>>

\* Mutation: security guards are left to the end of validation.
MatchUnsecured ==
  /\ phase = "gate" /\ index = Gates /\ cfg.path \in {"document", "route"}
  /\ Goto(IF cfg.path = "route" THEN "slots" ELSE IF cfg.secured THEN "context" ELSE "document")
  /\ UNCHANGED <<cfg, log, reply, built, run, observed, verdicts>>

Match ==
  /\ phase = "gate" /\ index = Gates /\ cfg.path \in {"document", "route"}
  /\ Goto(IF cfg.secured THEN "context"
          ELSE IF cfg.path = "route" THEN "slots" ELSE "document")
  /\ UNCHANGED <<cfg, log, reply, built, run, observed, verdicts>>

-----------------------------------------------------------------------------
(***************************************************************************)
(* handleRequest: context, security, validation.                           *)
(***************************************************************************)
\* The end of runRoute; the document is not observed.
Done == IF cfg.path = "route" THEN "observe" ELSE "settle"

\* The context factory, before the security guards or after refine.
AfterContext == IF "secure" \in verdicts \/ ~cfg.secured THEN "guard" ELSE "security"

\* Mutation: a secured route forgets that its context is there already.
BuildContextAgain ==
  /\ phase = "context"
  /\ \/ /\ IF cfg.context THEN Calls("context") ELSE UNCHANGED log
        /\ built' = (cfg.context /\ AfterContext = "guard")
        /\ Goto(AfterContext) /\ UNCHANGED reply
     \/ /\ cfg.context
        /\ RouteError(<<"context">>, Done) /\ UNCHANGED built
  /\ UNCHANGED <<cfg, run, observed, verdicts>>

BuildContext ==
  /\ phase = "context"
  /\ \/ /\ IF cfg.context /\ ~built THEN Calls("context") ELSE UNCHANGED log
        /\ built' = cfg.context
        /\ Goto(AfterContext) /\ UNCHANGED reply
     \/ /\ cfg.context /\ ~built
        /\ RouteError(<<"context">>, Done) /\ UNCHANGED built
  /\ UNCHANGED <<cfg, run, observed, verdicts>>

SecurityAllows ==
  /\ phase = "security"
  /\ IF index < Guards
     THEN Calls("security") /\ index' = index + 1 /\ UNCHANGED <<phase, verdicts>>
     ELSE /\ Goto(IF cfg.path = "route" THEN "slots" ELSE "document")
          /\ verdicts' = verdicts \cup {"secure"}
          /\ UNCHANGED log
  /\ UNCHANGED <<cfg, reply, built, run, observed>>

\* A denial of a route's guard is checked like a reply, the document's is not.
SecurityDenies ==
  /\ phase = "security" /\ index < Guards
  /\ \/ /\ Calls("security")
        /\ \E r \in AppReplies("security") :
             Answer(r, IF cfg.path = "route" THEN "finish" ELSE "settle")
     \/ RouteError(<<"security">>, Done)
  /\ UNCHANGED <<cfg, built, run, observed, verdicts>>

ServeDocument ==
  /\ phase = "document"
  /\ Answer(Own("document"), "settle")
  /\ UNCHANGED <<cfg, log, built, run, observed, verdicts>>

\* Params, query, headers and cookies, in one synchronous stretch.
SlotsValid ==
  /\ phase = "slots"
  /\ Goto(IF cfg.body THEN "body" ELSE "tail")
  /\ verdicts' = verdicts \cup {"slots"}
  /\ UNCHANGED <<cfg, log, reply, built, run, observed>>

SlotsInvalid ==
  /\ phase = "slots"
  /\ Formatted(<<>>, "invalid", Done)
  /\ UNCHANGED <<cfg, built, run, observed, verdicts>>

\* The body is read, parsed and validated; 413 and 400, and a 415 ahead of the read,
\* are "invalid".
BodyValid ==
  /\ phase = "body"
  /\ Calls("read")
  /\ Goto("tail")
  /\ verdicts' = verdicts \cup {"body"}
  /\ UNCHANGED <<cfg, reply, built, run, observed>>

BodyInvalid ==
  /\ phase = "body"
  /\ \E callees \in {<<>>, <<"read">>} : Formatted(callees, "invalid", Done)
  /\ UNCHANGED <<cfg, built, run, observed, verdicts>>

-----------------------------------------------------------------------------
(***************************************************************************)
(* The tail: refine, guards, handler, hooks.                               *)
(***************************************************************************)
\* runTail stays synchronous when nothing before the handler can suspend.
RunTail ==
  /\ phase = "tail"
  /\ Goto(IF cfg.refine THEN "refine"
          ELSE IF cfg.guards \/ cfg.hooks \/ (cfg.context /\ ~built) THEN "context"
          ELSE "handler")
  /\ UNCHANGED <<cfg, log, reply, built, run, observed, verdicts>>

RefinePasses ==
  /\ phase = "refine"
  /\ Calls("refine")
  /\ Goto("context")
  /\ verdicts' = verdicts \cup {"refine"}
  /\ UNCHANGED <<cfg, reply, built, run, observed>>

\* Issues become a 400, of a formatter that is inside the try here: what it throws
\* is reported as what refine throws.
RefineFails ==
  /\ phase = "refine"
  /\ \/ /\ log' = log \o (IF cfg.custom THEN <<"refine", "formatter">> ELSE <<"refine">>)
        /\ Answer(IF cfg.custom THEN Unchecked("invalid") ELSE Own("invalid"), Done)
     \/ RouteError(<<"refine">>, Done)
     \/ cfg.custom /\ RouteError(<<"refine", "formatter">>, Done)
  /\ UNCHANGED <<cfg, built, run, observed, verdicts>>

GuardAllows ==
  /\ phase = "guard"
  /\ IF cfg.guards /\ index < Guards
     THEN Calls("guard") /\ index' = index + 1 /\ UNCHANGED <<phase, verdicts>>
     ELSE /\ Goto("handler") /\ verdicts' = verdicts \cup {"guards"}
          /\ UNCHANGED log
  /\ UNCHANGED <<cfg, reply, built, run, observed>>

GuardDenies ==
  /\ phase = "guard" /\ cfg.guards /\ index < Guards
  /\ \/ Calls("guard") /\ \E r \in AppReplies("guard") : Answer(r, "hook")
     \/ RouteError(<<"guard">>, Done)
  /\ UNCHANGED <<cfg, built, run, observed, verdicts>>

CallHandler ==
  /\ phase = "handler"
  /\ Calls("handler")
  /\ Goto("race")
  /\ handler' = "running"
  /\ timer' = cfg.timed
  /\ UNCHANGED <<cfg, reply, built, winner, observed, verdicts>>

\* The handler settles, perhaps long after its race and its request are over.
\* Mutation: a late answer replaces the one the race settled with.
HandlerOverrides ==
  /\ handler = "running"
  /\ handler' = "done"
  /\ \E r \in AppReplies("handler") \cup {Thrown} :
       winner' = IF phase = "race" THEN r ELSE winner
  /\ UNCHANGED <<cfg, phase, index, log, reply, built, timer, observed, verdicts>>

HandlerSettles ==
  /\ handler = "running"
  /\ handler' = "done"
  /\ \E r \in AppReplies("handler") \cup {Thrown} :
       winner' = IF phase = "race" /\ winner = NoReply THEN r ELSE winner
  /\ UNCHANGED <<cfg, phase, index, log, reply, built, timer, observed, verdicts>>

\* Mutation: what onTimeout throws is lost in the timer's callback.
TimerFiresUncaught ==
  /\ timer /\ winner = NoReply
  /\ timer' = FALSE
  /\ Calls("onTimeout")
  /\ winner' \in AppReplies("timeout") \cup {NoReply}
  /\ UNCHANGED <<cfg, phase, index, reply, built, handler, observed, verdicts>>

\* The timer fires before the race is settled: onTimeout replies or throws.
TimerFires ==
  /\ timer /\ winner = NoReply
  /\ timer' = FALSE
  /\ Calls("onTimeout")
  /\ winner' \in AppReplies("timeout") \cup {Thrown}
  /\ UNCHANGED <<cfg, phase, index, reply, built, handler, observed, verdicts>>

\* The code after the race: finally clears the timer.
RaceReplies ==
  /\ phase = "race" /\ winner \notin {NoReply, Thrown}
  /\ timer' = FALSE
  /\ Answer(winner, "hook")
  /\ UNCHANGED <<cfg, log, built, handler, winner, observed, verdicts>>

RaceRejects ==
  /\ phase = "race" /\ winner = Thrown
  /\ timer' = FALSE
  /\ RouteError(<<>>, Done)
  /\ UNCHANGED <<cfg, built, handler, winner, observed, verdicts>>

\* Hooks see every reply of the tail, and may replace it.
HookRuns ==
  /\ phase = "hook" /\ cfg.hooks /\ index < Hooks
  /\ Calls("hook")
  /\ index' = index + 1
  /\ reply' \in AppReplies("hook") \cup {reply}
  /\ UNCHANGED <<cfg, phase, built, run, observed, verdicts>>

HookThrows ==
  /\ phase = "hook" /\ cfg.hooks /\ index < Hooks
  /\ RouteError(<<"hook">>, Done)
  /\ UNCHANGED <<cfg, built, run, observed, verdicts>>

HooksDone ==
  /\ phase = "hook" /\ (~cfg.hooks \/ index = Hooks)
  /\ Goto("finish")
  /\ UNCHANGED <<cfg, log, reply, built, run, observed, verdicts>>

-----------------------------------------------------------------------------
(***************************************************************************)
(* The reply: response validation, observe, serialization, decorators.     *)
(***************************************************************************)
\* Mutation: only the handler's reply is validated.
FinishHandlerOnly ==
  /\ phase = "finish"
  /\ Answer(IF cfg.checked /\ ~reply.raw /\ ~reply.declared /\ reply.from = "handler"
            THEN Own("invalidResponse") ELSE reply, "observe")
  /\ UNCHANGED <<cfg, log, built, run, observed, verdicts>>

FinishReply ==
  /\ phase = "finish"
  /\ Answer(IF cfg.checked /\ ~reply.raw /\ ~reply.declared
            THEN Own("invalidResponse") ELSE reply, "observe")
  /\ UNCHANGED <<cfg, log, built, run, observed, verdicts>>

\* An observer that throws changes nothing.
Observe ==
  /\ phase = "observe"
  /\ observed' = reply
  /\ Goto("settle")
  /\ UNCHANGED <<cfg, log, reply, built, run, verdicts>>

\* A reply that does not serialize becomes the bare 500.
Settle ==
  /\ phase = "settle"
  /\ Answer(reply, "decorate") \/ Answer(Own("internal"), "decorate")
  /\ UNCHANGED <<cfg, log, built, run, observed, verdicts>>

Decorate ==
  /\ phase = "decorate" /\ index < Decorators
  /\ Calls("decorator")
  /\ index' = index + 1
  /\ UNCHANGED <<cfg, phase, reply, built, run, observed, verdicts>>

\* The chain is abandoned.
DecoratorThrows ==
  /\ phase = "decorate" /\ index < Decorators
  /\ HookError("decorator", "answered")
  /\ UNCHANGED <<cfg, built, run, observed, verdicts>>

Send ==
  /\ phase = "decorate" /\ index = Decorators
  /\ Goto("answered")
  /\ UNCHANGED <<cfg, log, reply, built, run, observed, verdicts>>

GateStep == GateAnswers \/ GatePasses \/ Mount \/ Miss \/ Match
ContextStep == BuildContext \/ SecurityAllows \/ SecurityDenies \/ ServeDocument
InputStep == SlotsValid \/ SlotsInvalid \/ BodyValid \/ BodyInvalid
TailStep ==
  \/ RunTail \/ RefinePasses \/ RefineFails \/ GuardAllows \/ GuardDenies
  \/ CallHandler \/ RaceReplies \/ RaceRejects \/ HookRuns \/ HookThrows \/ HooksDone
ReplyStep == FinishReply \/ Observe \/ Settle \/ Decorate \/ DecoratorThrows \/ Send
Step == GateStep \/ ContextStep \/ InputStep \/ TailStep \/ ReplyStep
Next == Step \/ HandlerSettles \/ TimerFires

\* App code returns, with one exception: a handler under withTimeout may hang.
Fairness ==
  /\ WF_vars(Step)
  /\ WF_vars(TimerFires)
  /\ WF_vars(~cfg.timed /\ HandlerSettles)

Spec == Init /\ [][Next]_vars /\ Fairness

-----------------------------------------------------------------------------
(***************************************************************************)
(* Properties.                                                             *)
(***************************************************************************)
Sources ==
  {"none", "thrown", "error", "internal", "gate", "mount", "miss", "document",
   "invalid", "security", "guard", "handler", "timeout", "hook", "invalidResponse"}
Replies == [from : Sources, declared : BOOLEAN, raw : BOOLEAN]
Phases ==
  {"gate", "context", "security", "document", "slots", "body", "tail", "refine", "guard",
   "handler", "race", "hook", "finish", "observe", "settle", "decorate", "answered", "escaped"}
Deciders ==
  {"gate", "mount", "context", "security", "read", "refine", "guard", "handler", "onTimeout"}
Callees == Deciders \cup {"formatter", "onError", "hook", "decorator"}
Verdicts == {"secure", "slots", "body", "refine", "guards"}

\* Every variable has its type; a timer is armed during the race alone
\* (withTimeout's finally clears it whichever way the race ends).
TypeOK ==
  /\ cfg \in ConfigType /\ phase \in Phases /\ index \in Nat
  /\ log \in Seq(Callees)
  /\ {reply, winner, observed} \subseteq Replies
  /\ {built, timer} \subseteq BOOLEAN
  /\ handler \in {"idle", "running", "done"}
  /\ verdicts \subseteq Verdicts
  /\ timer => phase = "race"

\* The context factory runs at most once a request, although a secured route
\* asks for the context twice: before its security guards and in its tail.
ContextOnce ==
  \A i, j \in DOMAIN log : log[i] = "context" /\ log[j] = "context" => i = j

\* Deny by default.  Of a secured route or document nothing is disclosed and
\* nothing but the context is run until every security guard has let the
\* request pass: no formatter sees its input, no body is read, the document
\* is not served.  And the handler of any route runs only once input, body,
\* refine and guards have all agreed.
Cleared ==
  /\ (/\ cfg.secured
      /\ \/ reply.from \in {"document", "invalid"}
         \/ \E c \in {"read", "refine", "guard", "handler"} : Called(c))
     => "secure" \in verdicts
  /\ Called("handler") =>
       {"slots"} \cup (IF cfg.body THEN {"body"} ELSE {})
                \cup (IF cfg.refine THEN {"refine"} ELSE {})
                \cup (IF cfg.guards THEN {"guards"} ELSE {}) \subseteq verdicts

\* A request is answered once.  Once there is a reply, no gate, guard or handler is
\* asked any more, nor does a timer of withTimeout fire: what is left are hooks,
\* decorators, onError.  And a handler that settles after onTimeout was called,
\* however soon after, is never the one that is answered.
AnsweredOnce ==
  [][/\ reply # NoReply /\ log' # log => log'[Len(log) + 1] \notin Deciders
     /\ winner # NoReply => winner' = winner
     /\ reply'.from = "handler" => ~Called("onTimeout")']_vars

\* With validateResponses no reply of a route's guards, of its handler, of its hooks or
\* of onTimeout that the route does not declare is observed or sent.  (What onError
\* and the error formatters answer is sent as it is, and so is a gate's Response.)
Checked(r) ==
  r.from \in {"security", "guard", "handler", "timeout", "hook"} => r.declared \/ r.raw

DeclaredReplies ==
  cfg.checked /\ cfg.path = "route" =>
    /\ phase \in {"observe", "settle", "decorate", "answered"} => Checked(reply)
    /\ Checked(observed)

\* Only onError, an error formatter and a mounted handler can make the fetch
\* handler itself reject; whatever else throws, the request is answered.
OnlyReportersEscape ==
  phase = "escaped" => log[Len(log)] \in {"onError", "formatter", "mount"}

\* Every answer, that of a gate, a miss or an error as well, goes through the
\* whole chain of decorators as the last thing that is done to it, unless one of
\* them throws.
Decorated(n) == \A i \in 1 .. n : i <= Len(log) /\ log[Len(log) + 1 - i] = "decorator"

EveryAnswerDecorated ==
  phase = "answered" =>
    \/ Decorated(Decorators)
    \/ Called("decorator") /\ reply.from \in {"error", "internal"}

Inv == TypeOK /\ ContextOnce /\ OnlyReportersEscape /\ EveryAnswerDecorated

\* Every request ends, although a handler under withTimeout may never settle.
Answered == <>(phase \in {"answered", "escaped"})
=============================================================================
