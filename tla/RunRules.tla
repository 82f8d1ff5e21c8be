------------------------------ MODULE RunRules ------------------------------
(***************************************************************************)
(* The runtime rules FND-RUN-001 .. 008 (internal/rules/run) compare the   *)
(* deployed project with what it needs.  live = Open is a run without the  *)
(* target, the permission or the reader a rule wants; answer = Open a name *)
(* the resolver did not answer for in time.                                *)
(***************************************************************************)
EXTENDS Ruling

\* needTarget and the readers of Deps: without them the rule skips as a whole.
Reached(f, marks) == IF f.live = "read" THEN marks ELSE {"missing"}

\* provisioningState of a project, a capability host or a deployment.
Provisioning(state) ==
    CASE state = "succeeded" -> {}
      [] state = "failed" -> {"bad"}
      [] OTHER -> {"noted"}

(* One expected role of the project's identity on the target.  Any covering *)
(* assignment of the role grants it; any that cannot be tied to the role or *)
(* to the target leaves it uncertain.                                       *)
Unclear(f) ==
    \/ f.listing = "truncated"
    \/ f.assignment \in {"conditional", "custom-role", "below-the-target", "above-every-resource"}
    \/ f.assignment = "owner" /\ f.role = "management"
RoleVerdict(f) ==
    CASE f.assignment = "the-role" -> {"ok"}
      [] f.assignment # "the-role" /\ Unclear(f) -> {"ok", "noted"}
      [] OTHER -> {"ok", "mild"}
CosmosVerdict(f) ==
    CASE f.sql \in {"on-the-account", "on-enterprise_memory"} -> {"ok"}
      [] f.sql \in {"on-another-database", "on-a-container", "of-another-role"} -> {"ok", "noted"}
      [] OTHER -> {"ok", "mild"}

(* FND-RUN-001: roles of the project's identity on a bound resource.        *)
RUN001(f) == Reached(f,
    CASE f.auth = "key" -> {"skip"}
      [] f.auth # "key" /\ f.target = "unknown" -> Mark(f.category = "resource-backed", "noted")
      [] f.auth # "key" /\ f.target = "malformed" -> {"noted"}
      [] f.auth # "key" /\ f.target = "cosmos" -> CosmosVerdict(f)
      [] OTHER -> RoleVerdict(f))

\* ResolvePrivate of a dependency proved to be behind a private endpoint.
ResolvePrivate(answer) ==
    CASE answer = "private" -> {"ok"}
      [] answer \in {"no-such-name", "no-address", "public"} -> {"mild"}
      [] answer = "reserved" -> {"noted"}
      [] OTHER -> {"skip"}

(* FND-RUN-002: private DNS of what is proved to be private.                *)
AccountBacking(f) ==
    CASE f.access = Open -> {"noted"}
      [] f.access = "disabled" \/ (f.access # Open /\ f.endpoints = "approved") ->
           IF f.subdomain = Absent THEN {"noted"} ELSE ResolvePrivate(f.answer)
      [] OTHER -> Mark(f.endpoints = "pending" \/ f.access = Absent, "noted")
RUN002(f) == Reached(f,
    CASE f.kind = "account" -> AccountBacking(f)
      [] f.kind = "connection" /\ (f.target = "malformed" \/ f.peStatus # "active") -> {"noted"}
      [] OTHER -> ResolvePrivate(f.answer))

(* FND-RUN-003: bound connections exist and stay inside the approved scopes.*)
TargetScope(f) ==
    CASE f.target = Absent -> Mark(f.category = "resource-backed", "noted")
      [] f.target = "expression" -> {"noted"}
      [] OTHER -> Mark(f.target = "outside", "bad")
RUN003(f) == Reached(f,
    {"ok"} \cup Provisioning(f.project) \cup Provisioning(f.host)
           \cup (IF f.connection = "missing" THEN {"bad"}
                 ELSE Mark(f.connection = "in-error", "bad") \cup TargetScope(f)))

(* FND-RUN-004: state, throttling and utilization of a model deployment.  A *)
(* peak of utilization counts only with a sustained rate of 429.            *)
Throttled(f) == f.codes = "429" /\ f.requests = "enough" /\ f.rate = "above"
StatusCodes(f) ==
    CASE f.codes \in {"no-series", "categories"} -> {"noted"}
      [] f.codes = "429" /\ f.requests = "few" -> {"noted"}
      [] OTHER -> Mark(Throttled(f), "bad")
RUN004(f) == Reached(f,
    {"ok"} \cup Mark(f.policy = "invalid" \/ f.listing = "truncated", "noted")
           \cup Provisioning(f.state) \cup StatusCodes(f)
           \cup Mark(f.accepting = "paused", "mild") \cup Mark(f.accepting = "unknown", "noted")
           \cup Mark(f.peak = "full", IF Throttled(f) THEN "bad" ELSE "noted"))

(* FND-RUN-005: agents and bound connections on the project's endpoint.  A  *)
(* name that azure.yaml does not give is an assumption.                     *)
AgentStatus(f) ==
    CASE f.agent = "not-listed" ->
           {IF f.listing = "truncated" \/ f.name = "assumed" THEN "noted" ELSE "bad"}
      [] f.agent \in {"failed", "deleting"} -> {"bad"}
      [] f.agent \in {"creating", "unknown", "disabled"} -> {"noted"}
      [] OTHER -> {}
RUN005(f) == Reached(f,
    {"ok"} \cup (IF f.kind = "agent" THEN AgentStatus(f) ELSE Mark(f.connection # "listed", "noted")))

(* FND-RUN-006: indexes behind a Search connection.                         *)
\* What the indexer's history says of an index without documents.
ZeroDocuments(f) ==
    IF f.indexer \in {Absent, "unsafe-name", "succeeded-just-now", "under-way"} THEN {"noted"} ELSE {"bad"}
IndexerStatus(f) ==
    CASE f.indexer = "in-error" -> {"bad"}
      [] f.indexer \in {"unsafe-name", "transient-failure", "under-way"} -> {"noted"}
      [] OTHER -> Mark(f.indexer = "never-succeeded" /\ f.documents = "some", "noted")
RUN006(f) == Reached(f,
    CASE f.index = "no-hint" -> {"skip"}
      [] f.index = "unsafe-name" -> {"noted"}
      [] f.index = "not-found" -> {"bad"}
      [] OTHER -> {"ok"} \cup Mark(f.schema = "keywords", "noted") \cup Mark(f.schema = "dangling-profile", "bad")
                         \cup IndexerStatus(f) \cup (IF f.documents = "none" THEN ZeroDocuments(f) ELSE {}))

(* FND-RUN-007: traffic without diagnostic logs.                            *)
RUN007(f) == Reached(f,
    CASE f.setting \in {"none", "dedicated-tables"} -> {"skip"}
      [] f.setting = "shared-tables" /\ f.traffic # "some" -> {"skip"}
      [] f.setting = "shared-tables" /\ f.traffic = "some" /\ f.rows = "some" -> {"ok"}
      [] OTHER -> IF f.age = "old" THEN {"bad"} ELSE {"skip"})

(* FND-RUN-008: one property of a resource against what the template sets.  *)
Presence(f) == CASE f.condition \in {Absent, "true"} -> "yes" [] f.condition = "false" -> "never" [] OTHER -> "maybe"
Drift(f) ==
    CASE f.property = Absent -> {}
      [] f.property = Open \/ f.deployed = "not-reported" -> {"noted"}
      [] f.property = "an-object" -> {"noted"}
      [] OTHER -> Mark(f.property # f.deployed, "bad")
RUN008(f) == Reached(f,
    CASE f.name # "the-target" \/ f.deployed = "not-there" \/ Presence(f) # "yes" -> {"ok", "noted"}
      [] OTHER -> {"ok"} \cup Drift(f))

RunMarks(rule, f) ==
    CASE rule = "RUN001" -> RUN001(f)
      [] rule = "RUN002" -> RUN002(f)
      [] rule = "RUN003" -> RUN003(f)
      [] rule = "RUN004" -> RUN004(f)
      [] rule = "RUN005" -> RUN005(f)
      [] rule = "RUN006" -> RUN006(f)
      [] rule = "RUN007" -> RUN007(f)
      [] rule = "RUN008" -> RUN008(f)

\* acc.result, and the skip of a rule whose reads failed or that had nothing
\* to look at.
RunResult(rule, marks) ==
    CASE "missing" \in marks -> Skipped
      [] "missing" \notin marks /\ Violates(marks) -> Failed({})
      [] marks = {"ok"} -> Clean({})
      [] OTHER -> Skipped

-----------------------------------------------------------------------------
\* The values each rule tells apart, per kind of object it looks at.
LiveRead == {"read"}
ConnectionAuth == {"identity", "key"}
ResourceCategory == {"resource-backed", "other"}
ProvisioningState == {"succeeded", "failed", "under-way"}
AgentListing == {"whole", "truncated"}
ConnectionListing == {"listed", "not-listed"}
ThrottlePolicy == {"valid", "invalid"}
MetricListing == {"whole", "truncated"}
IndexSchema == {"vectors", "keywords", "dangling-profile"}
IndexerHistory == {Absent, "unsafe-name", "succeeded", "succeeded-just-now", "never-succeeded", "under-way",
                   "transient-failure", "in-error"}
DiagnosticSettings == {"none", "dedicated-tables", "shared-tables"}
TrafficSeries == {"some", "none", "no-series"}
Assignments == {"the-role", "conditional", "custom-role", "below-the-target", "above-every-resource", "owner", "none"}
SqlAssignments == {"on-the-account", "on-enterprise_memory", "on-another-database", "on-a-container", "of-another-role", "none"}
Answers == {"private", "public", "reserved", "no-such-name", "no-address"}
RunShapes ==
    [RUN001 |-> {[live |-> LiveRead, auth |-> ConnectionAuth, target |-> {"unknown", "malformed"}, category |-> ResourceCategory],
                 [live |-> LiveRead, auth |-> ConnectionAuth, target |-> {"search", "storage"}, role |-> {"management", "data"},
                  listing |-> {"whole", "truncated"},
                  assignment |-> Assignments],
                 [live |-> LiveRead, auth |-> ConnectionAuth, target |-> {"cosmos"},
                  sql |-> SqlAssignments]},
     RUN002 |-> {[kind |-> {"account"}, live |-> LiveRead, access |-> {"disabled", "enabled", Absent},
                  endpoints |-> {"none", "pending", "approved"}, subdomain |-> {"set", Absent}, answer |-> Answers],
                 [kind |-> {"connection"}, live |-> LiveRead, target |-> {"well-formed", "malformed"},
                  peStatus |-> {"active", "other"}, answer |-> Answers]},
     RUN003 |-> {[live |-> LiveRead, project |-> ProvisioningState, host |-> ProvisioningState,
                  connection |-> {"there", "missing", "in-error"}, category |-> ResourceCategory,
                  target |-> {Absent, "expression", "inside", "outside"}]},
     RUN004 |-> {[live |-> LiveRead, policy |-> ThrottlePolicy, listing |-> MetricListing,
                  state |-> ProvisioningState, accepting |-> {"running", "paused", "unknown"},
                  codes |-> {"429"}, requests |-> {"enough", "few"}, rate |-> {"above", "below"}, peak |-> {"full", "below"}],
                 [live |-> LiveRead, policy |-> ThrottlePolicy, listing |-> {"whole"}, state |-> {"succeeded"},
                  accepting |-> {"running"}, codes |-> {"no-series", "categories", "numbers"}, requests |-> {"enough"},
                  rate |-> {"below"}, peak |-> {"full", "below"}]},
     RUN005 |-> {[kind |-> {"agent"}, live |-> LiveRead, listing |-> AgentListing, name |-> {"stated", "assumed"},
                  agent |-> {"active", "creating", "failed", "deleting", "unknown", "disabled", "not-listed"}],
                 [kind |-> {"connection"}, live |-> LiveRead, connection |-> ConnectionListing]},
     RUN006 |-> {[live |-> LiveRead, index |-> {"no-hint", "unsafe-name", "not-found"}],
                 [live |-> LiveRead, index |-> {"there"}, schema |-> IndexSchema,
                  documents |-> {"some", "none"}, indexer |-> IndexerHistory]},
     RUN007 |-> {[live |-> LiveRead, setting |-> DiagnosticSettings, traffic |-> TrafficSeries,
                  rows |-> {"some", "none"}, age |-> {"old", "recent", "unknown"}]},
     RUN008 |-> {[live |-> LiveRead, name |-> {"the-target", "another", "expression"}, condition |-> {Absent, "true", "false"},
                  property |-> {Absent, "one", "two", "an-object"},
                  deployed |-> {"one", "two", "not-there", "not-reported"}]}]

RunStated == {"kind", "auth", "target", "category", "role", "listing", "assignment", "sql", "endpoints", "subdomain",
              "peStatus", "project", "host", "connection", "policy", "state", "accepting", "codes", "requests", "rate",
              "peak", "agent", "index", "schema", "documents", "indexer", "setting", "traffic", "rows", "age", "name",
              "deployed"}

\* What holds for the whole template, whichever resource the rule looks at.
RunWide == {"live", "policy", "host", "project"}

=============================================================================
