SPECIFICATION LintSpec
CONSTANTS
  Targets <- MCTargets
  Rulesets <- MCRulesets
  Concurrency = 3
INVARIANTS InOrder OwnRuleset LoadsShared
CHECK_DEADLOCK FALSE
