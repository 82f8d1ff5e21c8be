------------------------------- MODULE Ruling -------------------------------
(***************************************************************************)
(* What the rule packages of foundry-doctor have in common.  A rule reads  *)
(* the compiled template resource by resource.  A property of a resource is*)
(* one of the values the rule tells apart, or an ARM expression that only  *)
(* a parameter file resolves: Open.  What the rule concludes of one        *)
(* resource is a set of marks; the package's accumulator turns the marks of*)
(* all the resources into the result the engine reports.                   *)
(***************************************************************************)
EXTENDS FiniteSets

\* A value the template leaves to a parameter, a condition or a loop.
Open == "[expression]"

\* A property the template does not have, and no parameter can give it.
Absent == "absent"

\* The marks.  "bad" and "mild" are findings, the second of a severity the
\* rule lowered; "ok" is a resource the rule evaluated; the others say why a
\* resource was not: "skip" (a reason of its own), "scope" (it may be nothing
\* of Foundry's), "cond" (it may not be deployed), "open" (an expression, the
\* resource unnamed), "noted" (an expression, the resource named), "missing"
\* (it is not in the template); "info" is a remark that blocks nothing,
\* "exempt" a resource the rule does not apply to.
Findings == {"bad", "mild"}
Unjudged == {"skip", "scope", "cond", "open", "noted", "missing"}
Marks == Findings \cup Unjudged \cup {"ok", "info", "exempt", "enforced"}

Mark(condition, mark) == IF condition THEN {mark} ELSE {}

\* A flag that is what it should be, an expression, or a finding.
\* (A slip first: whatever is not as it should be is a finding.)
badUnlessGood(value, good, unknown) == IF value = good THEN {} ELSE {"bad"}
Flag(value, good, unknown) ==
    CASE value = good -> {}
      [] value = Open -> {unknown}
      [] OTHER        -> {"bad"}

Violates(marks) == marks \cap Findings # {}

(* The result of a rule: what it concludes, and the marks it reports.      *)
Failed(told) == [is |-> "failed",       told |-> told]
Clean(told)  == [is |-> "clean",        told |-> told]
Skipped      == [is |-> "skipped",      told |-> {}]
Inapplicable == [is |-> "inapplicable", told |-> {}]
Results == [is : {"failed", "clean", "skipped", "inapplicable"}, told : SUBSET Marks]

=============================================================================
