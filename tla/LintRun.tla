------------------------------- MODULE LintRun -------------------------------
(***************************************************************************)
(* The lint of several documents in packages/cli/src/lint/run.ts: runners  *)
(* of mapWithConcurrency take the files in order, and share a cache of the *)
(* rulesets discovered by directory, which they look up on one side of an  *)
(* await and fill on the other.                                            *)
(***************************************************************************)
EXTENDS Naturals, Sequences, FiniteSets

CONSTANTS
  Targets,      \* targets: the directory of each file, in order
  Rulesets,     \* the directories a ruleset is discovered from
  Concurrency   \* --concurrency, which need not be whole, rounded down

ASSUME LintAssumption ==
  /\ Targets \in Seq(STRING)
  /\ Concurrency \in Nat

VARIABLES
  given,        \* a ruleset was given with --ruleset
  next,         \* the index the next runner takes
  file,         \* file[r]: the file of runner r, 0 for none
  at,           \* at[r]: what runner r awaits, or how it ended
  found,        \* found[r]: the ruleset it lints with
  rulesetCache, \* directory -> the ruleset, a function of its keys
  results,      \* results[i]: the ruleset that linted file results[i].file
  outcome,      \* of the run: "running", "done" or "rejected"
  loads         \* history: loads[d], how often d's ruleset was looked for

lintVars == <<given, next, file, at, found, rulesetCache, results, outcome, loads>>

Files == 1 .. Len(Targets)
Dirs == {Targets[i] : i \in Files}
Workers == IF Concurrency = 0 \/ Targets = <<>> THEN 1
           ELSE IF Concurrency <= Len(Targets) THEN Concurrency ELSE Len(Targets)
Runners == 1 .. Workers

Default == "default"    \* no ruleset discovered
Explicit == "explicit"  \* the one given
RulesetOf(dir) == IF dir \in Rulesets THEN dir ELSE Default
Missing == [file |-> 0, ruleset |-> Default]

\* The runners have taken the first files, one each.
Started ==
  /\ next = Workers + 1
  /\ file = [r \in Runners |-> IF r \in Files THEN r ELSE 0]
  /\ at = [r \in Runners |-> IF r \in Files THEN "reading" ELSE "returned"]
  /\ outcome = "running"

\* A fraction below the number of files is no length for an array: the run rejects
\* and there is no runner.
Throws ==
  /\ Concurrency >= 1 /\ Concurrency < Len(Targets)
  /\ next = 1
  /\ file = [r \in Runners |-> 0]
  /\ at = [r \in Runners |-> "threw"]
  /\ outcome = "rejected"

LintInit ==
  /\ Started \/ Throws
  /\ given \in BOOLEAN
  /\ found = [r \in Runners |-> IF given THEN Explicit ELSE Default]
  /\ rulesetCache = [d \in {} |-> Default]
  /\ results = [i \in Files |-> Missing]
  /\ loads = [d \in Dirs |-> 0]

Finds(r, ruleset) == found' = [found EXCEPT ![r] = ruleset]
Becomes(r, state) == at' = [at EXCEPT ![r] = state]

\* Mutation: the key is set before the await, for others to find.
LooksUpEarly(r) ==
  LET dir == Targets[file[r]] IN
  IF given THEN Becomes(r, "linting") /\ UNCHANGED <<found, rulesetCache, loads>>
  ELSE IF dir \in DOMAIN rulesetCache
  THEN Becomes(r, "linting") /\ Finds(r, rulesetCache[dir]) /\ UNCHANGED <<rulesetCache, loads>>
  ELSE /\ Becomes(r, "discovering") /\ UNCHANGED found
       /\ rulesetCache' = [d \in DOMAIN rulesetCache \cup {dir} |->
                               IF d = dir THEN Default ELSE rulesetCache[d]]
       /\ loads' = [loads EXCEPT ![dir] = @ + 1]

\* The content has been read: the directory is looked up, unless --ruleset.
LooksUp(r) ==
  LET dir == Targets[file[r]] IN
  IF given THEN Becomes(r, "linting") /\ UNCHANGED <<found, rulesetCache, loads>>
  ELSE IF dir \in DOMAIN rulesetCache
  THEN Becomes(r, "linting") /\ Finds(r, rulesetCache[dir]) /\ UNCHANGED <<rulesetCache, loads>>
  ELSE /\ Becomes(r, "discovering") /\ UNCHANGED found
       /\ loads' = [loads EXCEPT ![dir] = @ + 1]
       /\ UNCHANGED rulesetCache

ReadFile(r) ==
  /\ at[r] = "reading"
  /\ LooksUp(r)
  /\ UNCHANGED <<given, next, file, results, outcome>>

\* Mutation: a directory without a ruleset is not remembered.
DiscoversFound(r) ==
  LET dir == Targets[file[r]] IN
  /\ at[r] = "discovering"
  /\ Becomes(r, "linting") /\ Finds(r, RulesetOf(dir))
  /\ rulesetCache' = IF dir \notin Rulesets THEN rulesetCache
                     ELSE [d \in DOMAIN rulesetCache \cup {dir} |->
                             IF d = dir THEN dir ELSE rulesetCache[d]]
  /\ UNCHANGED <<given, next, file, results, outcome, loads>>

\* The ruleset, or that there is none, is cached, over another runner's entry.
Discovers(r) ==
  LET dir == Targets[file[r]] IN
  /\ at[r] = "discovering"
  /\ Becomes(r, "linting") /\ Finds(r, RulesetOf(dir))
  /\ rulesetCache' = [d \in DOMAIN rulesetCache \cup {dir} |->
                        IF d = dir THEN RulesetOf(dir) ELSE rulesetCache[d]]
  /\ UNCHANGED <<given, next, file, results, outcome, loads>>

Linted(r) == [file |-> file[r], ruleset |-> found[r]]

\* Mutation: what is done first is reported first.
KeepsPushed(r) ==
  results' = [results EXCEPT ![Cardinality({i \in Files : results[i] # Missing}) + 1] = Linted(r)]

Keeps(r) == results' = [results EXCEPT ![file[r]] = Linted(r)]

\* The next file, until there is none.
Takes(r) ==
  /\ file' = [file EXCEPT ![r] = IF next \in Files THEN next ELSE 0]
  /\ Becomes(r, IF next \in Files THEN "reading" ELSE "returned")
  /\ next' = next + 1

Lints(r) ==
  /\ at[r] = "linting"
  /\ Keeps(r) /\ Takes(r)
  /\ UNCHANGED <<given, found, rulesetCache, outcome, loads>>

\* A file that cannot be read, a ruleset that cannot be loaded, a lint that
\* throws: the runner ends there, and the others go on.
Fails(r) ==
  /\ at[r] \in {"reading", "discovering", "linting"}
  /\ Becomes(r, "threw")
  /\ outcome' = IF outcome = "running" THEN "rejected" ELSE outcome
  /\ UNCHANGED <<given, next, file, found, rulesetCache, results, loads>>

\* Promise.all
AllReturned ==
  /\ outcome = "running" /\ \A r \in Runners : at[r] = "returned"
  /\ outcome' = "done"
  /\ UNCHANGED <<given, next, file, at, found, rulesetCache, results, loads>>

RunnerStep == \E r \in Runners : ReadFile(r) \/ Discovers(r) \/ Lints(r) \/ Fails(r)
LintNext == RunnerStep \/ AllReturned

LintSpec == LintInit /\ [][LintNext]_lintVars

-----------------------------------------------------------------------------
(***************************************************************************)
(* Properties.                                                             *)
(***************************************************************************)
\* Every variable has its type, and no two runners are at the same file.
LintTypeOK ==
  /\ given \in BOOLEAN
  /\ next \in Nat \ {0}
  /\ file \in [Runners -> Files \cup {0}]
  /\ at \in [Runners -> {"reading", "discovering", "linting", "returned", "threw"}]
  /\ found \in [Runners -> Dirs \cup {Default, Explicit}]
  /\ DOMAIN rulesetCache \subseteq Dirs
  /\ \A i \in Files : results[i].file \in Files \cup {0}
  /\ outcome \in {"running", "done", "rejected"}
  /\ loads \in [Dirs -> Nat]
  /\ \A r, s \in Runners : file[r] = file[s] /\ file[r] # 0 => r = s

\* "Preserving input order in the result" (lines 98-100), whatever order the
\* runners finish in; and a run that resolves has linted every file.
InOrder ==
  /\ \A i \in Files : results[i].file \in {0, i}
  /\ outcome = "done" => \A i \in Files : results[i].file = i

\* A file is linted under the ruleset of its own directory, found or cached, by
\* this runner or by another between its lookup and its load.
OwnRuleset ==
  \A i \in Files : results[i].file # 0 =>
    results[i].ruleset =
      IF given THEN Explicit ELSE RulesetOf(Targets[results[i].file])

\* A directory's ruleset is loaded, and its problems reported, once for all of its
\* files (lines 307-308), but for the runners that were loading it at the time:
\* never more often than there are runners, however many files it has.
LoadsShared ==
  /\ \A d \in Dirs : loads[d] <= Workers
  /\ given => \A d \in Dirs : loads[d] = 0
=============================================================================
