------------------------------ MODULE DepRules ------------------------------
(***************************************************************************)
(* The deployment rules FND-DEP-001 .. 012 (internal/preflight) ask Azure  *)
(* what it would do with the template.  azureView = Open is a run without  *)
(* the template, the target or the capability a rule needs, or a failed    *)
(* call: the rule skips as a whole.                                        *)
(***************************************************************************)
EXTENDS Ruling

\* rule.Evaluate: an error of a call drops what the rule has found so far.
Asked(f, marks) == IF f.azureView = "answered" THEN marks ELSE {"missing"}

\* regionOf: the target stands in for a location that is no literal: one that
\* is an expression still, and one the resource does not have.
RegionOf(f) == IF f.location \in {Open, Absent} THEN f.targetLocation ELSE f.location
Offered(f) == f.offered \in {"everywhere", RegionOf(f)}

(* FND-DEP-001: the signed-in subscription and its tenant.                  *)
DEP001(f) == Asked(f,
    {"ok"} \cup Mark(f.subscription = "another" \/ f.state = "not-Enabled", "bad")
           \cup Mark(f.expectedTenant = "set" /\ f.tenant = "another", "bad")
           \cup Mark(f.expectedTenant = Absent \/ f.tenant = "not-reported", "noted"))

(* FND-DEP-002: provider registration for network injection, never proven.  *)
DEP002(f) == Asked(f,
    {"noted"} \cup Mark(f.injected = "yes" /\ f.registration \notin {"Registered", "Registering", "not-returned"}, "bad"))

(* FND-DEP-003: the deployer's permissions, as reported.                    *)
DEP003(f) == Asked(f,
    IF f.deployScope = "management-group-or-tenant" THEN {"missing"}
    ELSE {"noted"} \cup Mark(f.decision = "denied", "bad"))

(* FND-DEP-004: the model is offered, its life cycle, its SKU.  A version   *)
(* that is no literal is matched by the first one on the list, whose life   *)
(* cycle is "lifecycle" and "deprecation"; the others on it are current.    *)
Lifecycle(f) ==
    CASE f.version # "another" /\ (f.lifecycle = "Deprecated" \/ f.deprecation = "passed") -> {"bad"}
      [] OTHER -> Mark(f.version # "another" /\ f.lifecycle = "Deprecating", "noted")
                    \cup (CASE f.sku \in {Open, Absent} -> {"noted"} [] f.sku = "not-offered" -> {"bad"} [] OTHER -> {})
DEP004(f) == Asked(f,
    {"ok"} \cup
    (CASE f.model = Open \/ RegionOf(f) = Absent -> {"noted"}
       [] f.model # Open /\ RegionOf(f) # Absent /\ (~Offered(f) \/ f.version = "none-on-the-list") -> {"bad"}
       [] OTHER -> Lifecycle(f)))

(* FND-DEP-005: quota, by region.  What deployments of the same name and    *)
(* SKU hold already is offered back before a request counts as too large.   *)
TooLittleFree(f) == f.exhausted \in {"everywhere", RegionOf(f)}
DEP005(f) == Asked(f,
    {"ok"} \cup
    IF \/ Open \in {f.capacity, f.model, f.sku}
       \/ Absent \in {f.sku, RegionOf(f)} \/ f.quotaLine # "known" THEN {"noted"}
    ELSE CASE ~TooLittleFree(f) -> {}
           [] TooLittleFree(f) /\ f.held \notin {"of-the-same-SKU", "nothing"} -> {"noted"}
           [] OTHER -> Mark(f.held = "nothing" \/ f.request = "beyond-the-free-and-the-held", "bad"))

(* FND-DEP-006: a soft-deleted resource holds the name.                     *)
DEP006(f) == Asked(f,
    CASE f.name = Open -> {"noted"}
      [] f.name # Open /\ f.deleted = "nothing" -> {"ok"}
      [] OTHER -> {IF f.deleted = "in-another-group" \/ RegionOf(f) \notin {f.deleted, Absent} THEN "mild" ELSE "bad"})

(* FND-DEP-007: the name is valid and free.                                 *)
DEP007(f) == Asked(f,
    CASE f.kind = "account" /\ f.subdomain \in {Absent, Open} -> {"skip"}
      [] f.name = Open \/ f.kind = "Cosmos-DB" -> {"skip"}
      [] f.name = "malformed" -> {"bad"}
      [] f.answer = Open \/ (f.kind = "account" /\ RegionOf(f) = Absent) -> {"skip"}
      [] OTHER -> {"ok"} \cup Mark(f.answer = "taken-by-another", "bad"))

(* What-if runs once; every rule reads its outcome.  A secure parameter is  *)
(* never sent, and no parameter is left out.                                *)
ResolveParameters(p) == p \in {"given", "default", "secure-with-a-default"}
WhatIfRuns(f) ==
    /\ f.whatIf = "asked-for"
    /\ f.deployScope \in {"resource-group", "subscription"}
    /\ ResolveParameters(f.parameter)

(* FND-DEP-008: the changes what-if predicts, never proven.                 *)
ScopeAllowed(f) ==
    \/ f.at \in {"inside", "approved"}
    \/ f.change \in {"Ignore", "NoChange"}
    \/ f.deployScope = "subscription" /\ f.change = "Create" /\ f.at = "of-the-subscription"
DEP008(f) == Asked(f,
    IF ~WhatIfRuns(f) THEN {"missing"}
    ELSE {"noted"} \cup Mark(~ScopeAllowed(f), "bad")
                   \cup Mark(f.change \in {"Delete", "Replace"} /\ f.allowed = "no", "bad"))

(* FND-DEP-009: Azure Policy, asked about the resource in its region.  At   *)
(* most fifty resources are checked, and an empty answer proves nothing.    *)
DEP009(f) == Asked(f,
    CASE f.type \in {"exempt", Open} \/ f.apiVersion = Open \/ f.place = "beyond-the-cap" -> {"noted"}
      [] f.verdict = Open -> {"skip"}
      [] OTHER -> {"noted"} \cup Mark(f.verdict \in {"deny", RegionOf(f)} /\ f.content = "whole", "bad"))

(* FND-DEP-010: management locks, and the deployment history under one.     *)
HistoryNearLimit(f) ==
    CASE f.covers # "the-group" -> {}
      [] f.covers = "the-group" /\ f.history = Open -> {"skip"}
      [] OTHER -> Mark(f.history = "near-the-limit", "bad") \cup Mark(f.history = "truncated", "noted")
LockMarks(f) ==
    CASE f.covers = Open -> {"skip"}
      [] f.covers = "unreadable" -> {"noted"}
      [] f.covers = "another-group" -> {}
      [] f.covers \notin {Open, "unreadable", "another-group"} /\ f.level = "ReadOnly" ->
           Mark(f.covers = "the-group" \/ (f.covers = "a-planned-resource" /\ f.name # Open), "bad")
      [] OTHER -> {"noted"} \cup Mark(f.whatIf = "a-covered-deletion", "bad") \cup HistoryNearLimit(f)
DEP010(f) == Asked(f, {"ok"} \cup Mark(f.name = Open, "noted") \cup LockMarks(f))

(* FND-DEP-011: the subnet of the agents.                                   *)
SubnetPrefix(prefix) ==
    CASE prefix \in {"below-/27", "reserved", "public"} -> {"bad"}
      [] prefix \in {"below-/24", "IPv6"} -> {"noted"}
      [] prefix = "100.64.0.0/10" -> {"skip"}
      [] OTHER -> {}
SubnetLinks(f) ==
    CASE f.link = Open -> {"skip"}
      [] f.link # Open /\ f.account = Open -> Mark(f.link # "none", "noted")
      [] OTHER -> Mark(f.link = "of-another", "bad")
VNetLocation(f) ==
    CASE f.vnet = "not-reported" \/ RegionOf(f) = Absent -> {"noted"}
      [] f.vnet # "not-reported" /\ RegionOf(f) # Absent /\ f.vnet = Open -> {"skip"}
      [] f.vnet # "not-reported" /\ RegionOf(f) # Absent /\ f.vnet = "not-found" -> {"noted"}
      [] OTHER -> Mark(f.vnet # RegionOf(f), "bad")
DEP011(f) == Asked(f,
    CASE f.subnetId = Open -> {"skip"}
      [] f.subnetId = "outside-the-approved-scopes" -> {"bad"}
      [] OTHER -> {"ok"} \cup Mark(f.delegated = "no", "bad") \cup SubnetPrefix(f.prefix)
                         \cup VNetLocation(f) \cup SubnetLinks(f))

(* FND-DEP-012: regional availability.                                      *)
RegionMatrix(f) ==
    CASE f.type # "account" -> {}
      [] f.type = "account" /\ f.matrix = "stale" -> {"skip"}
      [] OTHER -> Mark(f.matrix = "not-listed", "noted")
DEP012(f) == Asked(f,
    IF f.targetLocation = Absent THEN {"missing"}
    ELSE {"ok"} \cup Mark(f.known = "no", "bad") \cup RegionMatrix(f) \cup
         (CASE f.type = Open \/ f.offered \in {"no-entry", "global"} -> {"noted"}
            [] OTHER -> Mark(~Offered(f), "bad")))

DepMarks(rule, f) ==
    CASE rule = "DEP001" -> DEP001(f)
      [] rule = "DEP002" -> DEP002(f)
      [] rule = "DEP003" -> DEP003(f)
      [] rule = "DEP004" -> DEP004(f)
      [] rule = "DEP005" -> DEP005(f)
      [] rule = "DEP006" -> DEP006(f)
      [] rule = "DEP007" -> DEP007(f)
      [] rule = "DEP008" -> DEP008(f)
      [] rule = "DEP009" -> DEP009(f)
      [] rule = "DEP010" -> DEP010(f)
      [] rule = "DEP011" -> DEP011(f)
      [] rule = "DEP012" -> DEP012(f)

\* acc.result: findings are reported without the notes and skips next to them.
DepResult(rule, marks) ==
    CASE "missing" \in marks -> Skipped
      [] "missing" \notin marks /\ Violates(marks) -> Failed({})
      [] marks \cap {"skip", "noted"} # {} /\ marks \cap {"missing", "bad", "mild"} = {} -> Skipped
      [] OTHER -> Clean({})

-----------------------------------------------------------------------------
\* The values each rule tells apart, per kind of object it looks at.
Capability == {"answered"}
ProviderStates == {"Registered", "Registering", "NotRegistered", "not-returned"}
DeploymentScope == {"resource-group", "subscription", "management-group-or-tenant", "unknown"}
Injections == {"yes", "no"}
\* Here is where the target is.
Locations == {"here", "there", Absent}
TargetLocations == {"here", Absent}
ModelsFor == {"everywhere", "here", "there", "nowhere"}
ModelVersions == {"the-first", "another", "none-on-the-list", Absent}
CapacityOf == {"a-number"}
ExistingCapacity == {"nothing", "of-the-same-SKU", "of-another-SKU", "not-reported"}
QuotaLine == {"known", "of-an-unknown-unit"}
SoftDeleted == {"nothing", "here", "there", "in-another-group"}
NameSpecs == {"well-formed", "malformed"}
NameAnswers == {"available", "our-own", "taken-by-another"}
CoerceParam == {"given", "default", "secure-with-a-default", "secure", "of-another-type", Absent}
PlannedIDs == {"literal"}
SubnetPrefixes == {"/24", "below-/24", "below-/27", "reserved", "public", "IPv6", "100.64.0.0/10"}
ProviderLocations == {"everywhere", "here", "there", "no-entry", "global"}
DepShapes ==
    [DEP001 |-> {[azureView |-> Capability, subscription |-> {"requested", "another"}, state |-> {"Enabled", "not-Enabled"},
                  expectedTenant |-> {"set", Absent}, tenant |-> {"expected", "another", "not-reported"}]},
     DEP002 |-> {[azureView |-> Capability, injected |-> Injections, registration |-> ProviderStates]},
     DEP003 |-> {[azureView |-> Capability, deployScope |-> DeploymentScope,
                  decision |-> {"allowed", "denied", "unknown", "not-returned"}]},
     DEP004 |-> {[azureView |-> Capability, targetLocation |-> TargetLocations, location |-> Locations,
                  model |-> {"a-name"}, version |-> {"the-first"}, offered |-> ModelsFor, lifecycle |-> {"current"},
                  deprecation |-> {"to-come"}, sku |-> {"offered", "not-offered"}],
                 [azureView |-> Capability, targetLocation |-> TargetLocations, location |-> {"here"},
                  model |-> {"a-name"}, version |-> ModelVersions, offered |-> {"everywhere"},
                  lifecycle |-> {"current", "Deprecating", "Deprecated"}, deprecation |-> {"passed", "to-come"},
                  sku |-> {"offered", "not-offered", Absent}]},
     DEP005 |-> {[azureView |-> Capability, targetLocation |-> TargetLocations, location |-> Locations,
                  capacity |-> CapacityOf, model |-> {"a-name"}, sku |-> {"literal"}, quotaLine |-> {"known"},
                  exhausted |-> ModelsFor, request |-> {"beyond-the-free-and-the-held"}, held |-> {"nothing"}],
                 [azureView |-> Capability, targetLocation |-> TargetLocations, location |-> {"here"},
                  capacity |-> CapacityOf, model |-> {"a-name"}, sku |-> {"literal", Absent}, quotaLine |-> QuotaLine,
                  exhausted |-> {"here", "nowhere"},
                  request |-> {"within-the-free-and-the-held", "beyond-the-free-and-the-held"},
                  held |-> ExistingCapacity]},
     DEP006 |-> {[azureView |-> Capability, targetLocation |-> TargetLocations, location |-> Locations,
                  name |-> {"a-name"}, deleted |-> SoftDeleted]},
     DEP007 |-> {[azureView |-> Capability, targetLocation |-> TargetLocations, location |-> Locations,
                  kind |-> {"account"}, subdomain |-> {Absent, "set"}, name |-> NameSpecs, answer |-> NameAnswers],
                 [azureView |-> Capability, targetLocation |-> TargetLocations, location |-> {"here"},
                  kind |-> {"storage", "Cosmos-DB"}, name |-> NameSpecs, answer |-> NameAnswers]},
     DEP008 |-> {[azureView |-> Capability, whatIf |-> {"asked-for", "not-asked-for"}, deployScope |-> DeploymentScope,
                  parameter |-> {"given"}, change |-> {"Create", "Delete", "NoChange"},
                  at |-> {"inside", "approved", "of-the-subscription", "outside"}, allowed |-> {"yes", "no"}],
                 [azureView |-> Capability, whatIf |-> {"asked-for"}, deployScope |-> DeploymentScope,
                  parameter |-> CoerceParam, change |-> {"Delete"}, at |-> {"inside"}, allowed |-> {"yes", "no"}]},
     DEP009 |-> {[azureView |-> Capability, targetLocation |-> TargetLocations, location |-> Locations,
                  type |-> {"exempt", "another"}, apiVersion |-> {"literal"}, place |-> {"checked", "beyond-the-cap"},
                  content |-> {"whole", "partial"}, verdict |-> {"nothing", "deny", "here", "there", "audit"}]},
     DEP010 |-> {[azureView |-> Capability, name |-> PlannedIDs, level |-> {"ReadOnly", "CanNotDelete"},
                  covers |-> {"the-group", "a-planned-resource", "another-resource", "another-group", "unreadable"},
                  whatIf |-> {"a-covered-deletion", "none"}, history |-> {"near-the-limit", "truncated", "below"}]},
     DEP011 |-> {[azureView |-> Capability, targetLocation |-> TargetLocations, location |-> {"here"},
                  subnetId |-> {"inside", "outside-the-approved-scopes"}, delegated |-> {"yes", "no"},
                  prefix |-> SubnetPrefixes, vnet |-> {"here"}, link |-> {"none"}, account |-> {"a-name"}],
                 [azureView |-> Capability, targetLocation |-> TargetLocations, location |-> Locations,
                  subnetId |-> {"inside"}, delegated |-> {"yes"}, prefix |-> {"/24"},
                  vnet |-> {"here", "there", "not-found", "not-reported"},
                  link |-> {"none", "of-the-account", "of-another"}, account |-> {"a-name"}]},
     DEP012 |-> {[azureView |-> Capability, targetLocation |-> TargetLocations, known |-> {"yes", "no"},
                  matrix |-> {"stale", "listed", "not-listed"}, type |-> {"account", "another"},
                  location |-> Locations, offered |-> ProviderLocations]}]

DepStated == {"subscription", "state", "expectedTenant", "tenant", "injected", "registration", "deployScope", "decision",
              "targetLocation", "offered", "lifecycle", "deprecation", "quotaLine", "exhausted", "request", "deleted", "kind", "parameter",
              "change", "at", "allowed", "place", "content", "level", "delegated", "prefix", "known", "matrix"}

\* What holds for the whole template, whichever resource the rule looks at.
DepWide == {"azureView", "targetLocation", "deployScope", "expectedTenant", "injected", "matrix", "known"}

=============================================================================
