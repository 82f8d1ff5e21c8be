------------------------------ MODULE RelRules ------------------------------
(***************************************************************************)
(* The reliability rules FND-REL-001 .. 009 (internal/rules/rel).          *)
(***************************************************************************)
EXTENDS Ruling

\* outcome.of: a resource under a condition or a loop only leaves a note.
OfType(f, marks) == IF f.deployed = Open THEN {"cond"} ELSE marks

(* FND-REL-001: two replicas of a billable Search service; a template that *)
(* states no count has one.                                                *)
REL001(f) == OfType(f,
    CASE f.sku = "free" -> {"exempt"}
      [] f.sku # "free" /\ f.replicas = Open -> {"noted"}
      [] OTHER -> Mark(f.replicas # "two", "bad"))

(* FND-REL-002: redundant storage, of the SKUs the rule knows.             *)
REL002(f) == OfType(f,
    CASE f.sku = "redundant" -> {}
      [] f.sku = "local" -> {"bad"}
      [] OTHER -> {"noted"})

(* FND-REL-003: zone redundancy of Cosmos, and its backup policy: what is  *)
(* not the word Continuous is a finding, an expression and nothing too.    *)
REL003(f) == OfType(f,
    (CASE f.zones = "redundant" -> {}
       [] f.zones = "single" -> {"bad"}
       [] OTHER -> {"noted"})
    \cup Mark(f.backup # "continuous", "bad"))

(* FND-REL-004: a delete lock on what keeps state, or on its group.  One   *)
(* lock of the template is looked at closely, another may be there.        *)
Covers(f) == f.scope \in {"group", "resource"} /\ f.level # Open
REL004(f) == OfType(f,
    LET protects == (Covers(f) /\ f.level = "delete") \/ f.another = "delete"
        doubt    == (f.scope = Open /\ f.level # "other") \/ f.level = Open \/ f.another = Open
    IN CASE protects -> {}
         [] ~protects /\ doubt -> {"noted"}
         [] OTHER -> {IF f.elsewhere = "managed" /\ ~(Covers(f) /\ f.level = "read-only") THEN "noted" ELSE "bad"})
    \cup Mark(f.another = Open, "cond")

(* FND-REL-005: the documented sizes of a Search service.  Replicas: few   *)
(* (3), some (12), many (13).  Partitions: one, four, odd (5).             *)
REL005(f) == OfType(f,
    CASE f.sku = "free" -> {"exempt"}
      [] f.sku # "free" /\ (f.replicas = Open \/ f.partitions = Open) -> {"noted"}
      [] OTHER ->
           Mark(\/ f.partitions = "odd" \/ f.replicas = "many"
                \/ f.sku = "basic" /\ f.replicas # "few"
                \/ f.sku # "basic" /\ f.replicas # "few" /\ f.partitions # "one"
                \/ f.hosting = "dense" /\ (f.sku # "standard3" \/ f.partitions # "one"), "bad")
           \cup Mark(f.sku = "basic" /\ f.partitions # "one", "noted"))

(* FND-REL-006: a circuit breaker or a retry in front of Foundry.  A tier  *)
(* without breakers and an API version that does not show them are exempt. *)
REL006(f) ==
    Mark(f.fragments = "external", "noted") \cup
    CASE f.backend \in {"other", Open} -> {}
      [] f.backend = "foundry-exempt" -> {"ok", "exempt"}
      [] f.backend = "foundry-unreadable" -> {"ok", "noted"}
      [] OTHER -> {"ok"} \cup Mark(f.breaker # "rules" /\ (f.retry = "no" \/ f.fragments = "external"), "bad")

(* FND-REL-007: a second region for every component, where one is required.*)
REL007(f) ==
    CASE f.objective # "multi-region" -> {}
      [] f.objective = "multi-region" /\ f.kind = "api-management" -> OfType(f,
           IF Open \in {f.locations, f.sku} THEN {"noted"}
           ELSE Mark(f.sku # "premium" \/ f.locations # "several", "bad"))
      [] OTHER -> OfType(f,
           CASE f.regions = "several" -> {}
             [] f.regions = "one" -> {"bad"}
             [] OTHER -> {"noted"})

(* FND-REL-008: a standard spillover target of the same model; spillover   *)
(* through provisioned deployments must not lead back.                     *)
REL008Target(f) ==
    Mark(f.target = "provisioned" /\ f.chain = "loops", "bad") \cup Mark(f.target = "provisioned", "bad") \cup
    CASE f.target = Open -> {"noted"}
      [] f.target # Open /\ f.model = Open -> {"noted"}
      [] OTHER -> Mark(f.model = "another", "bad")
REL008(f) == OfType(f,
    CASE f.sku # "provisioned" -> {}
      [] f.sku = "provisioned" /\ f.spill = Absent -> {"bad"}
      [] f.sku = "provisioned" /\ f.spill = Open -> {"noted"}
      [] f.sku = "provisioned" /\ f.spill = "named" /\ f.sibling # "here" ->
           {IF f.sibling = Open THEN "noted" ELSE "bad"}
      [] OTHER -> REL008Target(f))

(* FND-REL-009: the API Management tier the declared objectives need.      *)
Zonal(f) ==
    CASE f.sku = "standard-v2" -> {"noted"}
      [] f.sku \in {"premium", "premium-v2"} -> Mark(f.zones # "listed", "bad")
      [] OTHER -> {"bad"}
REL009(f) ==
    IF {f.sla, f.zonal, f.regional} = {"no"} THEN {"exempt"} ELSE OfType(f,
    IF f.sku \in {Absent, Open} THEN {"noted"}
    ELSE Mark(f.sla = "required" /\ f.sku = "developer", "bad")
           \cup (IF f.zonal = "required" THEN Zonal(f) ELSE {})
           \cup Mark(f.regional = "required" /\ (f.sku # "premium" \/ f.locations # "several"), "bad"))

RelMarks(rule, f) ==
    CASE rule = "REL001" -> REL001(f)
      [] rule = "REL002" -> REL002(f)
      [] rule = "REL003" -> REL003(f)
      [] rule = "REL004" -> REL004(f)
      [] rule = "REL005" -> REL005(f)
      [] rule = "REL006" -> REL006(f)
      [] rule = "REL007" -> IF f.objective = "none" THEN {"exempt"} ELSE REL007(f)
      [] rule = "REL008" -> REL008(f)
      [] rule = "REL009" -> REL009(f)

\* A slip: no finding is a pass.
passWithoutFinding(rule, marks) ==
    IF Violates(marks) THEN Failed(marks \cap {"noted", "cond"}) ELSE Clean({})

\* outcome.result: the notes are told beside the findings, the exemptions are
\* not; FND-REL-006 gives no verdict on a gateway without a Foundry backend.
RelResult(rule, marks) ==
    CASE rule = "REL006" /\ "ok" \notin marks -> Skipped
      [] (rule # "REL006" \/ "ok" \in marks) /\ Violates(marks) -> Failed(marks \cap {"noted", "cond"})
      [] OTHER -> IF marks \cap {"exempt", "noted", "cond"} # {} THEN Skipped ELSE Clean({})

-----------------------------------------------------------------------------
RelShapes ==
    [REL001 |-> {[deployed |-> {"yes"}, sku |-> {"free", "billable"}, replicas |-> {Absent, "one", "two"}]},
     REL002 |-> {[deployed |-> {"yes"}, sku |-> {Absent, "redundant", "local", "unknown"}]},
     REL003 |-> {[deployed |-> {"yes"}, zones |-> {Absent, "redundant", "single"},
                  backup |-> {Absent, "continuous", "periodic"}]},
     REL004 |-> {[deployed |-> {"yes"}, scope |-> {"group", "resource", "other"},
                  level |-> {"delete", "read-only", "other"}, another |-> {"none", "delete"},
                  elsewhere |-> {"managed", "no"}]},
     REL005 |-> {[deployed |-> {"yes"}, sku |-> {"free", "basic", "standard", "standard3"},
                  replicas |-> {"few", "some", "many"}, partitions |-> {"one", "four", "odd"},
                  hosting |-> {"default", "dense"}]},
     REL006 |-> {[fragments |-> {"external", "inline"}, retry |-> {"yes", "no"}, breaker |-> {Absent, "rules"},
                  backend |-> {"foundry", "foundry-exempt", "foundry-unreadable", "other"}]},
     REL007 |-> {[objective |-> {"none", "single-region", "multi-region"}, kind |-> {"account-or-store"},
                  deployed |-> {"yes"}, regions |-> {"several", "one"}],
                 [objective |-> {"none", "single-region", "multi-region"}, kind |-> {"api-management"},
                  deployed |-> {"yes"}, sku |-> {"premium", "other"}, locations |-> {"several", Absent}]},
     REL008 |-> {[deployed |-> {"yes"}, sku |-> {"provisioned", "standard"}, spill |-> {Absent, "named"},
                  sibling |-> {"here", "missing"}, target |-> {"standard", "provisioned"},
                  chain |-> {"loops", "ends"}, model |-> {"same", "another"}]},
     REL009 |-> {[sla |-> {"required", "no"}, zonal |-> {"required", "no"}, regional |-> {"required", "no"},
                  deployed |-> {"yes"}, sku |-> {Absent, "developer", "standard-v2", "premium", "premium-v2", "other"},
                  zones |-> {Absent, "one-expression", "listed"}, locations |-> {Absent, "several"}]}]

\* A parameter file resolves no zones (armmodel.Resource).
RelStated == {"kind", "objective", "elsewhere", "fragments", "retry", "chain", "sla", "zonal", "regional", "zones"}

\* What holds for the whole template, whichever resource the rule looks at.
RelWide == {"objective", "elsewhere", "sla", "zonal", "regional"}

=============================================================================
