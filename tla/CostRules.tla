----------------------------- MODULE CostRules -----------------------------
(***************************************************************************)
(* The cost rules FND-COST-001 .. 004 (internal/rules/cost).               *)
(***************************************************************************)
EXTENDS Ruling

\* liveResources: a resource under a condition or a loop is not evaluated.
LiveOnly(f, marks) == IF f.deployed = Open THEN {"cond"} ELSE marks

(* FND-COST-001: a cost budget that warns somebody of a forecast.  One     *)
(* valid budget answers the rule, whatever the others left open.           *)
COST001Notice(f) ==
    CASE f.notices = Absent -> {"bad"}
      [] f.notices = Open \/ Open \in {f.enabled, f.contact} -> {"open"}
      [] f.notices = "five-or-less" /\ (f.enabled # "yes" \/ f.contact # "some") -> {"bad"}
      [] f.notices = "five-or-less" /\ f.enabled = "yes" /\ f.contact = "some" ->
           {IF f.forecast = "yes" THEN "ok" ELSE "bad"}
      [] OTHER -> {"bad"}
COST001(f) ==
    IF f.kind = "no-budget" THEN {"missing"} ELSE LiveOnly(f,
    IF f.category \notin {Absent, "cost"} THEN {"bad"}
    ELSE Mark(f.amount = "zero" \/ f.grain = Absent \/ f.start = Absent, "bad") \cup COST001Notice(f))

(* FND-COST-002: no production size in a development environment.          *)
COST002Size(f) ==
    UNION {CASE f[x] = "large" -> {"bad"} [] f[x] = Open -> {"open"} [] OTHER -> {} :
               x \in {"tier", "units"} \cap DOMAIN f}
COST002Throughput(f) ==
    CASE f.throughput = Open -> {"open"}
      [] OTHER -> Mark(f.limit = "set" /\ f.throughput = "over", "bad")
COST002(f) ==
    IF f.profile # "dev" THEN {"exempt"}
    ELSE Mark(f.limit = Absent, "skip") \cup
         CASE f.name = "exempted" -> {}
           [] f.name # "exempted" /\ f.kind = "sized" -> LiveOnly(f, COST002Size(f))
           [] OTHER -> LiveOnly(f, COST002Throughput(f))

(* FND-COST-003: a valid token limit on every API in front of a model.     *)
COST003(f) ==
    CASE f.api # "model" -> {}
      [] f.api = "model" /\ f.policy \in {Absent, "external"} -> {"ok", "skip"}
      [] OTHER -> {"ok"} \cup Mark(f.tokenLimit # "valid", "bad")

(* FND-COST-004: what makes the fixed-capacity estimate incomplete, and    *)
(* the estimate.  Here a value nobody resolved is itself the finding.      *)
CosmosThroughput(f) ==
    CASE f.throughput = Absent -> {}
      [] f.throughput = Open -> {"ok", "bad"}
      [] f.throughput # Open /\ (f.account # "here" \/ f.billing # "plain") -> {"ok", "bad"}
      [] OTHER -> {"ok"} \cup Mark(f.throughput = "autoscale", "bad")
COST004Resource(f) ==
    CASE f.kind = "metered" ->
           IF f.sku = "free" THEN {}
           ELSE {"ok"} \cup Mark(\/ f.count \in {Absent, Open} \/ f.region = Open
                                 \/ f.extra \in {"special", Open}, "bad")
      [] f.kind = "throughput" -> CosmosThroughput(f)
      [] f.kind = "another-cosmos-api" -> {"ok", "bad"}
      [] OTHER -> CASE f.sku = Open -> {"open"}
                    [] f.sku \in {Absent, "provisioned"} -> {"ok", "bad"}
                    [] OTHER -> {}
Estimated(f) ==
    CASE f.estimate \in {"failed", "no-price"} -> {"skip"}
      [] f.estimate = "unpriced" -> {"mild"}
      [] f.estimate = "priced" -> {"mild"}
      [] OTHER -> {}
COST004(f) ==
    LET found == LiveOnly(f, COST004Resource(f))
    IN found \cup (IF "ok" \in found THEN Estimated(f) ELSE {})

CostMarks(rule, f) ==
    CASE rule = "COST001" -> COST001(f)
      [] rule = "COST002" -> COST002(f)
      [] rule = "COST003" -> COST003(f)
      [] rule = "COST004" -> COST004(f)

\* A slip: one resource in order makes the rule clean.
passFirst(rule, marks) ==
    CASE "ok" \in marks -> Clean({})
      [] "ok" \notin marks /\ Violates(marks) -> Failed(marks \cap {"open", "cond", "skip"})
      [] OTHER -> Skipped

\* outcome.result, and what each rule asks before it.
CostResult(rule, marks) ==
    CASE rule = "COST002" /\ "exempt" \in marks -> Skipped
      [] rule \in {"COST003", "COST004"} /\ "ok" \notin marks -> Skipped
      [] OTHER ->
           CASE Violates(marks) -> Failed(marks \cap {"open", "cond", "skip"})
             [] ~Violates(marks) /\ rule = "COST001" /\ "ok" \in marks -> Clean({})
             [] OTHER -> IF marks \cap {"open", "cond", "skip", "missing"} # {} THEN Skipped ELSE Clean({})

-----------------------------------------------------------------------------
\* What the project's settings and the estimate say, of the whole template.
Profiles == {"dev", "prod"}
SpendLimit == {Absent, "set"}
EstimateRuns == {"none", "failed", "no-price", "unpriced", "priced"}

\* The values each rule tells apart, per kind of resource it looks at.
CostShapes ==
    [COST001 |-> {[kind |-> {"budget"}, deployed |-> {"yes"}, category |-> {Absent, "cost", "usage"},
                   amount |-> {"positive", "zero"}, grain |-> {Absent, "month"}, start |-> {Absent, "date"},
                   notices |-> {Absent, "five-or-less", "six"}, enabled |-> {"yes", "no"},
                   contact |-> {Absent, "some"}, forecast |-> {"yes", "no"}],
                  [kind |-> {"no-budget"}]},
     COST002 |-> {[kind |-> {"sized"}, profile |-> Profiles, limit |-> SpendLimit, deployed |-> {"yes"},
                   name |-> {"exempted", "other"}, tier |-> {Absent, "small", "large"}, units |-> {Absent, "one", "large"}],
                  [kind |-> {"cosmos"}, profile |-> Profiles, limit |-> SpendLimit, deployed |-> {"yes"},
                   name |-> {"exempted", "other"}, throughput |-> {Absent, "over", "under"}]},
     COST003 |-> {[api |-> {"model", "other"}, policy |-> {Absent, "external", "inline"},
                   tokenLimit |-> {Absent, "valid", "invalid"}]},
     COST004 |-> {[kind |-> {"metered"}, estimate |-> EstimateRuns,
                   deployed |-> {"yes"}, sku |-> {"free", "billable"}, count |-> {Absent, "set"},
                   region |-> {"known"}, extra |-> {Absent, "special"}],
                  [kind |-> {"throughput"}, estimate |-> EstimateRuns,
                   deployed |-> {"yes"}, throughput |-> {Absent, "manual", "autoscale"},
                   account |-> {"here", "missing"}, billing |-> {"plain", "special"}],
                  [kind |-> {"another-cosmos-api"}, estimate |-> EstimateRuns,
                   deployed |-> {"yes"}],
                  [kind |-> {"deployment"}, estimate |-> EstimateRuns,
                   deployed |-> {"yes"}, sku |-> {Absent, "provisioned", "pay-per-token"}]}]

CostStated == {"kind", "profile", "limit", "tokenLimit", "policy", "estimate", "grain", "start"}

\* What holds for the whole template, whichever resource the rule looks at.
CostWide == {"profile", "limit", "estimate"}

=============================================================================
