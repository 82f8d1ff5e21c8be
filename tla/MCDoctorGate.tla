---------------------------- MODULE MCDoctorGate ----------------------------
(* A catalogue of five rules, one compiler diagnostic and four problems.   *)
EXTENDS DoctorGate, TLC

Rule(family, group, category, pillar, severity, platform, armOnly, azd, inputs) ==
  [family |-> family, group |-> group, category |-> category, pillar |-> pillar, status |-> "implemented", severity |-> severity,
   platform |-> platform, armOnly |-> armOnly, azd |-> azd, inputs |-> inputs]

MCCatalogue ==
  ("net1" :> Rule("native", "NET", "must-have", "security", "error", FALSE, TRUE, "any", {"readable", "partial", "failing"}))
  @@ ("cfg1" :> Rule("native", "CFG", "must-have", "operations", "warning", TRUE, FALSE, "any", {"readable", "nothing"}))
  @@ ("dep1" :> Rule("dep", "DEP", "must-have", "reliability", "error", FALSE, FALSE, "any", {"readable", "uncertain"}))
  @@ ("dep2" :> Rule("dep", "DEP", "must-have", "reliability", "error", FALSE, FALSE, "1.2", {"readable"}))
  @@ ("run8" :> Rule("run", "RUN", "must-have", "reliability", "error", FALSE, FALSE, "any", {"readable"}))

Problem(rule, resource, key, line, text, override) ==
  [rule |-> rule, resource |-> resource, key |-> key, line |-> line, text |-> text, override |-> override]

MCProblems ==
  { Problem("net1", "vnet", "subnet", 1, "t", ""),
    Problem("cfg1", "yaml", NoKey, 1, "t", "info"), Problem("cfg1", "yaml", NoKey, 2, "t", ""),
    Problem("bicep", "main", "BCP1", 3, "t", "warning") }

\* One entry for a rule, one for a finding of the first line alone.
MCEntries == { [rule |-> "net1", fingerprintOf |-> AnyOf, path |-> AnyOf, expires |-> 0],
               [rule |-> AnyOf, fingerprintOf |-> Problem("cfg1", "yaml", NoKey, 1, "t", "info"),
                path |-> AnyOf, expires |-> 1] }

Token(kind, value, ids) == [kind |-> kind, value |-> value, ids |-> ids]
MustHave == Token("category", "must-have", {})
Nice == Token("category", "nice-to-have", {})

Request(command, include, exclude, failOn, minSeverity, strict, writeBaseline, force) ==
  [command |-> command, include |-> include, exclude |-> exclude, failOn |-> failOn, minSeverity |-> minSeverity,
   strict |-> strict, writeBaseline |-> writeBaseline, force |-> force]

GateRequests ==
  { Request("native", {MustHave, Nice}, {}, "warning", "warning", TRUE, FALSE, FALSE),
    Request("native", {MustHave, Nice}, {}, "error", "info", FALSE, TRUE, FALSE),
    Request("native", {Token("id", "", {"net1"}), Token("pillar", "security", {})}, {}, "info", "info", FALSE, FALSE, FALSE),
    Request("dep", {Token("glob", "", {"dep1", "dep2"})}, {"dep2"}, "error", "info", TRUE, FALSE, FALSE) }

\* The commands that report readiness, one of them with two rules.
ReadyRequests ==
  { Request("native", {MustHave, Nice}, {}, "error", "info", FALSE, TRUE, FALSE),
    Request("dep", {Token("glob", "", {"dep1", "dep2"})}, {}, "error", "info", TRUE, FALSE, FALSE),
    Request("dep", {Token("id", "", {"dep1"})}, {}, "error", "info", FALSE, FALSE, FALSE),
    Request("run", {Token("glob", "", {"run8"})}, {}, "error", "info", FALSE, FALSE, FALSE) }
=============================================================================
