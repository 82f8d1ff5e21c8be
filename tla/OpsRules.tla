------------------------------ MODULE OpsRules ------------------------------
(***************************************************************************)
(* The operations rules FND-OPS-001 .. 010 (internal/rules/ops).           *)
(***************************************************************************)
EXTENDS Ruling

\* view.of: a resource under a condition or a loop only leaves a note.
Live(f, marks) == IF f.deployed = Open THEN {"cond"} ELSE marks

(* FND-OPS-001: a diagnostic setting that sends logs to Log Analytics.  One*)
(* setting is looked at closely, alone or as the first of six; the others  *)
(* are none or one that does.                                              *)
OPS001Setting(f) ==
    CASE f.workspace = Absent -> {"problem"}
      [] f.workspace = Open \/ f.logs = Open -> {"good", "skip"}
      [] f.logs = "supported" -> {"good"}
      [] f.logs = "partly" -> {"good", "problem"}
      [] OTHER -> {"problem"}
OPS001(f) ==
    LET setting == IF f.match \in {"yes", "six"} THEN OPS001Setting(f) ELSE {}
        matched == f.match \in {"yes", "six"} \/ f.rest = "one"
        good    == "good" \in setting \/ f.rest = "one"
        doubt   == f.match = Open \/ f.rest = Open
    IN IF f.managed = "policy" THEN {"skip"} ELSE Live(f, (setting \cap {"skip"}) \cup
         CASE ~matched -> {IF doubt THEN "noted" ELSE "bad"}
           [] matched /\ ~good /\ doubt -> {"noted"}
           [] OTHER -> Mark("problem" \in setting \/ f.match = "six", "bad"))

(* FND-OPS-002: one Application Insights connection per project, and then  *)
(* a workspace behind every component.                                     *)
OPS002Component(f) ==
    CASE f.component = "none" -> {}
      [] f.component = Open -> {"cond"}
      [] OTHER -> IF f.workspace = Open THEN {"noted"} ELSE Mark(f.workspace = Absent, "bad")
OPS002(f) == Live(f,
    LET connected == f.name # Open /\ (f.atProject # "none" \/ f.atAccount # "none" \/ f.rest = "project")
        several   == f.atProject = "two" \/ (f.atProject = "one" /\ f.rest = "project") \/ f.atAccount = "two"
    IN CASE f.name = Open -> {"noted"}
         [] f.name # Open /\ connected -> Mark(several, "bad") \cup OPS002Component(f)
         [] OTHER -> {IF f.rest = Open THEN "noted" ELSE "bad"})

(* FND-OPS-003: a Service Health alert and a model metric alert.           *)
OPS003(f) ==
    IF f.deployed = Open THEN {"cond"}
    ELSE UNION {CASE f[alert] = "yes" -> {} [] f[alert] = Open -> {"cond"} [] OTHER -> {"bad"} :
                    alert \in {"healthAlert", "metricAlert"}}

(* FND-OPS-004: the tags the policy requires, and their limits.            *)
OPS004(f) == IF f.requires = "nothing" THEN {"skip"} ELSE Live(f,
    CASE f.tags = Open -> {"noted"}
      [] f.tags = Absent -> {"bad"}
      [] OTHER -> Mark(f.limits = "exceeded", "bad") \cup
            CASE f.tag = Absent -> {"bad"}
              [] f.tag = Open -> {"noted"}
              [] OTHER -> Mark(f.tag = "misformatted", "bad"))

(* FND-OPS-005: names the resource provider accepts.                       *)
OPS005(f) == Live(f, IF f.name = Open THEN {"skip"} ELSE Mark(f.name = "illegal", "bad"))

(* FND-OPS-006: workspace retention.                                       *)
OPS006(f) ==
    CASE f.minimum = Absent -> {"skip"}
      [] f.minimum # Absent /\ f.kind = "no-workspace" -> {"missing"}
      [] OTHER -> Live(f, IF f.retention \in {Absent, Open} THEN {"skip"}
            ELSE Mark(f.retention # "enough", "bad") \cup
                 CASE f.purge = Open -> {"skip"}
                   [] OTHER -> Mark(f.purge = "on" /\ f.minimum = "over-30", "bad"))

(* FND-OPS-007: a pipeline that runs azd.  scanShellForAzd reads a step    *)
(* word by word; a construct it does not follow may fake a call (hard) or  *)
(* only hide one (soft).                                                   *)
ShellResult(f) ==
    CASE f.construct = "hard" -> "uncertain"
      [] f.construct # "hard" /\ f.azd = "called" -> "found"
      [] f.construct # "hard" /\ f.azd # "called" -> 
            IF f.construct = "soft" \/ f.azd = "computed" THEN "uncertain" ELSE "none"
OPS007(f) ==
    CASE f.tier = "dev" \/ f.root = "none" -> {"skip"}
      [] f.tier # "dev" /\ f.root # "none" /\ f.pipeline = "read" ->
            CASE ShellResult(f) = "found" -> {"ok"}
              [] ShellResult(f) = "uncertain" -> {"open"}
              [] OTHER -> {"noted"}
      [] f.tier # "dev" /\ f.root # "none" /\ f.pipeline = "unread" -> {"skip"}
      [] OTHER -> {IF f.root = "no-git" THEN "missing" ELSE "bad"}

(* FND-OPS-008: eval.yaml, and an evaluation run before production.        *)
OPS008File(f) ==
    CASE f.eval = "unread" -> {"skip"}
      [] f.eval = "complete" -> {}
      [] OTHER -> {"bad"}
OPS008(f) ==
    CASE f.tier = "dev" \/ f.agent = "no" \/ f.root = "none" -> {"skip"}
      [] f.tier # "dev" /\ f.agent # "no" /\ f.root # "none" -> OPS008File(f) \cup
            CASE f.evalRun = "early" -> {}
              [] f.evalRun = "none" /\ f.pipeline = "unread" -> {"skip"}
              [] f.evalRun = "none" /\ f.pipeline = "none" /\ f.root = "no-git" -> {"skip"}
              [] OTHER -> {"bad"}

(* FND-OPS-009: deployment SKUs and regions under data residency.          *)
OPS009Sku(f) ==
    CASE f.sku \in {Absent, Open} -> {"skip"}
      [] f.sku = "developer" /\ f.scope # "global" -> {"bad"}
      [] f.sku \notin {Absent, Open} /\ f.listed = "no" -> {"bad"}
      [] f.sku = "global" /\ f.listed = "yes" -> Mark(f.scope # "global", "bad")
      [] f.sku = "regional" /\ f.listed = "yes" -> Mark(f.scope = "datazone", "bad")
      [] OTHER -> {}
OPS009(f) == IF f.scope = Absent THEN {"skip"} ELSE Live(f,
    CASE f.kind = "deployment" -> OPS009Sku(f)
      [] OTHER -> IF f.region = Open THEN {"skip"} ELSE Mark(f.region = "outside", "bad"))

(* FND-OPS-010: models allowed and denied, and the policy that denies all. *)
OPS010(f) ==
    CASE f.lists = "none" -> {"skip"}
      [] f.lists # "none" /\ f.kind = "policy" -> Mark(f.lists = "overlap", "bad") \cup
            Live(f, Mark(f.effect = "deny" /\ f.allows = "nothing", "bad"))
      [] OTHER -> Mark(f.lists = "overlap", "bad") \cup
            Live(f, CASE f.model \in {Open, Absent} -> {"skip"}
                      [] OTHER -> Mark(f.model # "allowed", "bad"))

OpsMarks(rule, f) ==
    CASE rule = "OPS001" -> OPS001(f)
      [] rule = "OPS002" -> OPS002(f)
      [] rule = "OPS003" -> OPS003(f)
      [] rule = "OPS004" -> OPS004(f)
      [] rule = "OPS005" -> OPS005(f)
      [] rule = "OPS006" -> OPS006(f)
      [] rule = "OPS007" -> OPS007(f)
      [] rule = "OPS008" -> OPS008(f)
      [] rule = "OPS009" -> OPS009(f)
      [] rule = "OPS010" -> OPS010(f)

\* outcome.result; FND-OPS-007 ends at the first pipeline that runs azd and
\* fails only when there was nothing to read, FND-OPS-006 asks for a workspace.
OpsResult(rule, marks) ==
    CASE rule = "OPS007" /\ "ok" \in marks -> Clean({})
      [] rule = "OPS007" /\ "ok" \notin marks /\ marks \cap Unjudged # {} -> Skipped
      [] rule # "OPS007" /\ ~Violates(marks) /\ marks \cap Unjudged # {} -> Skipped
      [] OTHER -> IF Violates(marks) THEN Failed(marks \cap Unjudged) ELSE Clean({})

-----------------------------------------------------------------------------
\* The models an organization allows and denies.
ModelLists == {"none", "apart", "overlap"}

\* The values each rule tells apart, per kind of resource it looks at.
OpsShapes ==
    [OPS001 |-> {[managed |-> {"policy", "no"}, deployed |-> {"yes"}, match |-> {"yes", "no", "six"},
                  workspace |-> {Absent, "there"}, logs |-> {Absent, "supported", "partly", "unsupported"},
                  rest |-> {"none", "one"}]},
     OPS002 |-> {[deployed |-> {"yes"}, name |-> {"known"}, atProject |-> {"none", "one", "two"},
                  atAccount |-> {"none", "one", "two"}, rest |-> {"none", "project"},
                  component |-> {"none", "there"}, workspace |-> {Absent, "there"}]},
     OPS003 |-> {[deployed |-> {"yes"}, healthAlert |-> {"yes", "no", Absent}, metricAlert |-> {"yes", "no", Absent}]},
     OPS004 |-> {[requires |-> {"nothing", "a-tag"}, deployed |-> {"yes"}, tags |-> {Absent, "some"},
                  limits |-> {"met", "exceeded"}, tag |-> {Absent, "fits", "misformatted"}]},
     OPS005 |-> {[deployed |-> {"yes"}, name |-> {"legal", "illegal"}]},
     OPS006 |-> {[minimum |-> {Absent, "over-30", "at-most-30"}, kind |-> {"workspace"}, deployed |-> {"yes"},
                  retention |-> {Absent, "enough", "short", "outside"}, purge |-> {"on", "off", Absent}],
                 [minimum |-> {Absent, "over-30", "at-most-30"}, kind |-> {"no-workspace"}]},
     OPS007 |-> {[tier |-> {"dev", "other"}, root |-> {"none", "no-git", "git"},
                  pipeline |-> {"read", "unread", "none"}, construct |-> {"plain", "soft", "hard"},
                  azd |-> {"called", "computed", "dead", "none"}]},
     OPS008 |-> {[tier |-> {"dev", "other"}, agent |-> {"yes", "no"}, root |-> {"none", "no-git", "git"},
                  eval |-> {"complete", "lacking", "missing", "unread"},
                  evalRun |-> {"early", "late", "none"}, pipeline |-> {"read", "unread", "none"}]},
     OPS009 |-> {[scope |-> {Absent, "global", "datazone", "region"}, kind |-> {"deployment"}, deployed |-> {"yes"},
                  sku |-> {Absent, "developer", "global", "datazone", "regional"}, listed |-> {"yes", "no"}],
                 [scope |-> {Absent, "global", "datazone", "region"}, kind |-> {"resource"}, deployed |-> {"yes"},
                  region |-> {"inside", "outside"}]},
     OPS010 |-> {[lists |-> ModelLists, kind |-> {"deployment"}, deployed |-> {"yes"},
                  model |-> {Absent, "allowed", "denied", "unlisted"}],
                 [lists |-> ModelLists, kind |-> {"policy"}, deployed |-> {"yes"},
                  effect |-> {"deny", "audit"}, allows |-> {"nothing", "some"}]}]

OpsStated == {"kind", "scope", "managed", "requires", "limits", "minimum", "tier", "root", "agent", "eval", "evalRun", "pipeline",
              "construct", "lists", "listed", "atProject", "atAccount", "allows"}

\* What holds for the whole template, whichever resource the rule looks at.
OpsWide == {"managed", "requires", "minimum", "tier", "root", "agent", "eval", "lists",
             "healthAlert", "metricAlert"}

=============================================================================
