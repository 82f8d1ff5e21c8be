------------------------------ MODULE GwRules ------------------------------
(***************************************************************************)
(* The gateway rules FND-GW-001 .. 006 (internal/rules/gw), and the policy *)
(* in effect at an API (internal/runtime/gateway).                         *)
(***************************************************************************)
EXTENDS Ruling, FiniteSetsExt

(* A policy document belongs to the service, to a product or to the API.   *)
(* "base" stands for one that adds nothing to what it inherits; any other  *)
(* replaces it; Open is one that cannot be read.  A caller may come with a *)
(* product or without.                                                     *)
Paths(f) == {<<f.service, product, f.api>> : product \in {Absent, f.product}}
InEffect(path) ==
    LET own == {i \in 1..3 : path[i] \notin {Absent, "base"}}
    IN IF own = {} THEN "nothing" ELSE path[Max(own)]
EffectivePolicies(f) ==
    {IF \E i \in 1..3 : path[i] = Open THEN Open ELSE InEffect(path) : path \in Paths(f)}

\* versionGate: an API version nobody verified is noted and left alone.
Verified(f, marks) == IF f.version = "verified" THEN marks ELSE {"noted"}

\* evaluateAPI: a defect counts when no path of the caller is without it.
PerAPI(f, verdicts) == Verified(f,
    CASE {f.service, f.product, f.api} = {Absent} -> {"noted"}
      [] {f.service, f.product, f.api} # {Absent} /\ verdicts = {"fail"} -> {"bad"}
      [] OTHER -> Mark(verdicts \cap {"fail", "unsure"} # {}, "noted"))

\* aiAPI: the rules about models look only at what provably fronts one.
ModelAPI(f, marks) ==
    CASE f.backing = "model" -> {"ok"} \cup marks
      [] f.backing # "model" /\ Open \in EffectivePolicies(f) -> {"noted"}
      [] OTHER -> {}

(* FND-GW-001: a token validation that names tenant and audience.          *)
TokenCheck(policy) ==
    CASE policy = "constrained" -> "pass"
      [] policy \in {"nothing", "unconstrained"} -> "fail"
      [] OTHER -> "unsure"
GW001(f) == ModelAPI(f, PerAPI(f, {TokenCheck(policy) : policy \in EffectivePolicies(f)}))

(* FND-GW-002: a token limit and a token metric.                           *)
LimitCheck(f, policy) ==
    CASE policy = "both" -> IF f.sku = "consumption" THEN "fail" ELSE "pass"
      [] policy \in {"nothing", "lacking"} -> "fail"
      [] OTHER -> "unsure"
GW002(f) == ModelAPI(f, PerAPI(f, {LimitCheck(f, policy) : policy \in EffectivePolicies(f)}))

(* FND-GW-003: every backend and pool member an API names exists.          *)
BackendCheck(f, policy) ==
    CASE policy = "nothing" -> IF f.serviceUrl = Absent THEN "fail" ELSE "pass"
      [] policy \in {"answered", "known"} -> "pass"
      [] policy = "unknown" -> "fail"
      [] OTHER -> "unsure"
PoolMember(f) == CASE f.member = Open -> {"noted"} [] OTHER -> Mark(f.member = "missing", "bad")
GW003(f) ==
    IF f.kind = "pool" THEN PoolMember(f)
    ELSE {"ok"} \cup PerAPI(f, {BackendCheck(f, policy) : policy \in EffectivePolicies(f)})

(* FND-GW-004: two APIs that are no versions of one share no path.         *)
GW004(f) == {"ok"} \cup Verified(f, IF f.path = Open THEN {"noted"} ELSE Mark(f.path = "taken", "bad"))

(* FND-GW-005: a managed identity with a role on the account behind the    *)
(* API, and no key beside it.                                              *)
IdentityCheck(f, policy) ==
    LET named == CASE policy = "by-client-id" -> {"user", "both"}
                   [] OTHER -> {"system", "both"}
        bound == f.identity \in named /\ (policy = "by-client-id" => f.client = "matches")
    IN CASE policy \in {Open, "choose"} -> "unsure"
         [] policy \in {"nothing", "no-resource"} \/ (policy \notin {Open, "choose"} /\ f.keyed = "yes") -> "fail"
         [] policy \in {"templated", "another-audience"} /\ f.keyed = "no" -> "unsure"
         [] OTHER -> 
              CASE f.keyed = "yes" -> "fail"
                [] f.keyed = "no" /\ f.identity \in {Open, "elsewhere"} -> "unsure"
                [] f.keyed = "no" /\ f.identity = Absent /\ policy = "by-system" -> "pass"
                [] f.keyed = "no" /\ bound -> CASE f.role = "granted" -> "pass"
                                                [] f.role = "missing" -> "fail"
                                                [] OTHER -> "unsure"
                [] OTHER -> IF f.identity \in named /\ f.client = Open THEN "unsure" ELSE "fail"
GW005(f) ==
    ModelAPI(f, Mark(f.identity = Absent /\ f.version = "verified", "bad")
                  \cup PerAPI(f, {IdentityCheck(f, policy) : policy \in EffectivePolicies(f)}))

(* FND-GW-006: somewhere for the token metric to go.                       *)
GW006(f) ==
    CASE "emits" \in EffectivePolicies(f) -> {"ok"} \cup Verified(f,
            IF f.diagnostic \in {Open, "pipeline"} THEN {"noted"} ELSE Mark(f.diagnostic = "none", "bad"))
      [] "emits" \notin EffectivePolicies(f) /\ Open \in EffectivePolicies(f) -> {"noted"}
      [] OTHER -> {}

GwMarks(rule, f) ==
    CASE rule = "GW001" -> GW001(f)
      [] rule = "GW002" -> GW002(f)
      [] rule = "GW003" -> GW003(f)
      [] rule = "GW004" -> GW004(f)
      [] rule = "GW005" -> GW005(f)
      [] rule = "GW006" -> GW006(f)

\* acc.result: findings stand alone; then any doubt is a skip; a rule that
\* saw no API of its kind skips as well.
GwResult(rule, marks) ==
    CASE Violates(marks) -> Failed({})
      [] marks = {"ok"} -> Clean({})
      [] OTHER -> Skipped

-----------------------------------------------------------------------------
\* The values each rule tells apart, per kind of resource it looks at.
Documents(own) == own \cup {Absent, "base"}
GwVersions == {"verified", "unverified"}
GwBacking == {"model", "other"}
ClientId == {"matches", "mismatch"}
RoleCoverage == {"granted", "missing"}
Diagnostics == {"pipeline", "logs", "none"}
TokenPolicies == {"constrained", "unconstrained", "choose"}
LimitPolicies == {"both", "lacking", "legacy"}
BackendPolicies == {"known", "unknown", "templated", "answered"}
MetricPolicies == {"emits", "silent"}
GwShapes ==
    [GW001 |-> {[backing |-> GwBacking, version |-> GwVersions, service |-> TokenPolicies \cup {Absent},
                 product |-> Documents(TokenPolicies), api |-> Documents(TokenPolicies)]},
     GW002 |-> {[backing |-> GwBacking, sku |-> {"consumption", "other"}, version |-> GwVersions,
                 service |-> LimitPolicies \cup {Absent},
                 product |-> Documents(LimitPolicies), api |-> Documents(LimitPolicies)]},
     GW003 |-> {[kind |-> {"pool"}, member |-> {"there", "missing"}],
                [kind |-> {"api"}, serviceUrl |-> {Absent, "set"}, version |-> GwVersions,
                 service |-> BackendPolicies \cup {Absent},
                 product |-> Documents(BackendPolicies), api |-> Documents(BackendPolicies)]},
     GW004 |-> {[version |-> {"verified", "unverified"}, path |-> {"own", "taken"}]},
     GW005 |-> {[backing |-> {"model"}, version |-> {"verified"}, service |-> {Absent}, product |-> {Absent, "no-resource"},
                 api |-> {"by-system", "by-client-id", "templated", "choose"}, keyed |-> {"yes", "no"},
                 identity |-> {Absent, "system", "user", "both", "elsewhere"},
                 client |-> ClientId, role |-> RoleCoverage]},
     GW006 |-> {[diagnostic |-> Diagnostics, version |-> GwVersions, service |-> MetricPolicies \cup {Absent},
                 product |-> Documents(MetricPolicies), api |-> Documents(MetricPolicies)]}]

GwStated == {"kind", "version", "keyed"}

=============================================================================
