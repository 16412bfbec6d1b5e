------------------------------ MODULE MCLintRun ------------------------------
(* Seven files of three directories, one of them without a ruleset; three    *)
(* runners.                                                                 *)
EXTENDS LintRun, TLC

MCTargets == <<"a", "b", "b", "a", "b", "b", "c">>
MCRulesets == {"a", "c"}
=============================================================================
