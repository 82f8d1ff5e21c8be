------------------------------ MODULE CfgRules ------------------------------
(***************************************************************************)
(* The configuration rules FND-CFG-001 .. 012 (internal/rules/cfg) read    *)
(* azure.yaml, and some of them the template and the azd environment.  A   *)
(* ${VAR} reference is Open; yaml = Open is an azure.yaml that could not be*)
(* loaded, environment = Open an azd environment that is not selected.     *)
(***************************************************************************)
EXTENDS Ruling

\* loadDoc: without azure.yaml the rule skips as a whole.
Loaded(f, marks) == IF f.yaml = "read" THEN marks ELSE {"missing"}

(* requiredVersions.azd against the version of azd, and the constraints on  *)
(* the extensions against the versions the rules were tested with.          *)
AzdRange(f) ==
    CASE f.range \in {"not-a-string", "unverified"} -> {"noted"}
      [] f.range = "invalid" -> {"bad"}
      [] f.range = Absent -> {}
      [] OTHER -> CASE f.azdVersion \in {Open, "malformed"} -> {"noted"}
                    [] f.azdVersion \in {"inside", "development-build"} -> {}
                    [] OTHER -> {"bad"}
RequiredVersion(constraint) ==
    CASE constraint \in {"unparsable", "excludes-the-tested", "above-the-tested", "no-prerelease"} -> {"noted"}
      [] constraint = "floor-below-the-tested" -> {"info"}
      [] OTHER -> {}

(* FND-CFG-001: azure.yaml loads.                                           *)
ServiceShape(f) ==
    CASE f.serviceHost = Absent -> {"bad"}
      [] f.serviceHost = "agent" ->
           Mark(f.path = Absent, "bad")
             \cup Mark(f.kind = "prompt" /\ (f.model = Absent \/ f.instructions = Absent), "bad")
             \cup Mark(f.kind = "voice" /\ f.model \in {"hosted_agent", "targetAgent"}, "bad")
      [] f.serviceHost = "project" -> Mark(f.path # Absent, "bad")
      [] OTHER -> {}
CFG001(f) == Loaded(f,
    {"ok"} \cup
    IF f.part = "service" THEN ServiceShape(f)
    ELSE Mark(f.diagnostic = "duplicate-key", "bad") \cup Mark(f.diagnostic = "several-documents", "noted")
           \cup Mark(f.appName # "valid", "bad") \cup Mark(f.services = "empty", "bad")
           \cup AzdRange(f) \cup RequiredVersion(f.constraint))

(* FND-CFG-002: no two agents of a project under one name.                  *)
CFG002(f) == Loaded(f, {"ok"} \cup Mark(f.name = "taken-in-the-project", "bad"))

(* FND-CFG-003: what a service names exists.                                *)
UsesEntry(f) ==
    CASE f.entry \in {Open, "service"} -> {}
      [] f.entry \notin {Open, "service"} /\ f.resourceNames = Open -> {"noted"}
      [] OTHER -> Mark(f.entry = "nothing", "bad")
ServiceEntry(f) == Mark(f.entry \in {"nothing", "of-another-host"} \/ (f.entry = "outside-uses" /\ f.by = "agent"), "bad")
ConversationEngine(f) == Mark(f.entry \in {"nothing", "of-another-host", "of-another-project"}, "bad")
MemoryModel(f) ==
    CASE f.by = "no-project" -> {}
      [] f.by # "no-project" /\ f.deploymentNames = Open -> {"noted"}
      [] OTHER -> Mark(f.entry = "not-deployed", "bad")
CFG003(f) == Loaded(f,
    {"ok"} \cup
    (CASE f.list = "uses" -> UsesEntry(f)
       [] f.list \in {"toolboxes", "connections"} -> ServiceEntry(f)
       [] f.list = "conversationEngine" -> ConversationEngine(f)
       [] f.list = "memory" -> MemoryModel(f)))

(* FND-CFG-004: an agent can be built and run.                              *)
\* parseCPU and parseGiB judge the forms the documented bounds cover.
Quantity(q) ==
    CASE q \in {"malformed", "out-of-range"} -> {"bad"}
      [] q = "of-an-uncovered-unit" -> {"noted"}
      [] OTHER -> {}
PromptModel(f) ==
    CASE f.model = Absent -> {"bad"}
      [] f.model = Open \/ f.by = "no-project" -> {}
      [] f.model \notin {Absent, Open} /\ f.by # "no-project" /\ f.deploymentNames = Open -> {"noted"}
      [] OTHER -> Mark(f.model = "not-deployed", "bad")
HostedSource(f) ==
    Mark(f.path \in {Absent, "no-directory"}, "bad")
      \cup Mark(f.path = "no-Dockerfile" /\ f.source = Absent, "noted")
      \cup Mark(f.source = "code-and-image" \/ f.source = "incomplete-code", "bad")
CFG004(f) == Loaded(f,
    {"ok"} \cup
    (CASE f.kind = "prompt" -> PromptModel(f) \cup Mark(f.instructions = Absent, "bad")
       [] f.kind = "voice" -> Mark(f.model = Absent /\ f.engine = Absent, "bad")
       [] OTHER -> HostedSource(f) \cup Quantity(f.cpu) \cup Quantity(f.memory)))

(* FND-CFG-005: no literal credential in azure.yaml, the template or .env.  *)
\* classifyValue: literal text, a reference with a literal default, both.
Credential(value) ==
    CASE value \in {"literal", "default-literal"} -> {"bad"}
      [] value = "mixed" -> {"noted"}
      [] OTHER -> {}
EnvValue(f) ==
    CASE f.value \in {"literal", "default-literal"} /\ f.looks = "a-credential" -> {"bad"}
      [] f.value \in {"literal", "default-literal"} /\ f.looks = "plausible" /\ f.named = "ends-in-a-credential-word" -> {"mild"}
      [] OTHER -> Mark(f.named # "otherwise" /\ f.value \in {"literal", "default-literal", "mixed"}, "noted")
Hidden(f) == f.looks = "a-credential" \/ (f.looks = "plausible" /\ f.named = "ends-in-a-credential-word")
CFG005(f) ==
    CASE f.part = "template" -> Mark(f.yaml # "read", "missing") \cup Mark(f.value = "literal" /\ Hidden(f), "bad")
      [] f.part = "environment-file" -> Loaded(f, Mark(f.value = "literal" /\ Hidden(f), "noted"))
      [] f.part = "connection" -> Loaded(f, Credential(f.value))
      [] f.part = "env" -> Loaded(f, EnvValue(f))
      [] f.part = "url" -> Loaded(f, Mark(f.value = "literal" /\ f.looks = "a-credential", "bad"))

(* FND-CFG-006: every ${VAR} has a producer.                                *)
Produced(f) ==
    CASE f.variable \in {"of-the-environment", "of-an-agent"} -> {}
      [] f.variable \in {"empty", "of-an-output", "of-the-infrastructure", "AGENT_", "of-an-unusual-form"} -> {"noted"}
      [] OTHER -> {IF f.outputs = Open THEN "noted" ELSE "bad"}
CFG006(f) == Loaded(f, IF f.environment = Open THEN {"missing"} ELSE {"ok"} \cup Produced(f))

(* FND-CFG-007: URLs are https and lead outside.                            *)
CFG007(f) == Loaded(f,
    {"ok"} \cup Mark(f.scheme = "other", "bad")
           \cup Mark(f.scheme \in {"https", "other"} /\ (f.address = "loopback-or-link-local" \/ (f.address = "private" /\ f.agentSubnet = Absent)), "bad"))

(* FND-CFG-008: a direct MCP tool lists the tools it allows.                *)
CFG008(f) == Loaded(f,
    CASE f.tool \in {"endpoint-reuse", "$ref"} -> {"noted"}
      [] f.tool = "other" -> {}
      [] OTHER -> {"ok"} \cup Mark(f.allowed = "empty", "bad") \cup Mark(f.allowed \in {Open, Absent, "not-a-sequence"}, "noted"))

(* FND-CFG-009: the triggers of a routine.                                  *)
\* The cron value is judged whether or not the time zone is.
RoutineCron(f) ==
    CASE f.cron = Open -> {"noted"}
      [] f.cron # Open ->
           Mark(f.timeZone \in {Absent, Open, "unknown"}, "noted")
             \cup Mark(f.cron = "uncertain", "noted")
             \cup Mark(f.cron \in {"malformed", "too-frequent"}, "bad")
RoutineTrigger(f) ==
    CASE f.trigger \in {Open, "other-type", "not-a-mapping"} -> {"noted"}
      [] f.trigger \in {"recurring", "schedule"} /\ f.spelling # f.trigger -> {"noted"}
      [] OTHER -> RoutineCron(f)
CFG009(f) == Loaded(f, IF f.trigger = Absent THEN {} ELSE {"ok"} \cup RoutineTrigger(f))

(* FND-CFG-010: the version of a model deployment is pinned.                *)
CFG010(f) ==
    CASE f.part = "azure.yaml" ->
           IF f.yaml = Open \/ f.model = "router" \/ f.version = Open THEN {}
           ELSE {"ok"} \cup Mark(f.version # "pinned", "bad")
      [] f.part = "template" ->
           IF f.model = "router" THEN {}
           ELSE {"ok"} \cup Mark(f.version \in {Absent, "latest"}, "bad")
                       \cup Mark(f.upgrade \in {Absent, "OnceNewDefaultVersionAvailable"}, "bad")

(* FND-CFG-011: no legacy shapes.                                           *)
CFG011(f) == Loaded(f, {"ok"} \cup Mark(f.legacy # Absent, "bad") \cup RequiredVersion(f.constraint))

(* FND-CFG-012: AZURE_LOCATION and the locations of the template.           *)
LocationValue(v) ==
    CASE v = "empty" -> {"bad"}
      [] v = "malformed" -> {"mild"}
      [] v \in {Open, "expanded", "display-name", "unlisted"} -> {"noted"}
      [] OTHER -> {}
CFG012(f) ==
    Mark(f.location = "malformed", "mild")
      \cup IF f.environment = Open \/ f.azureLocation = Absent THEN {"missing"} ELSE {"ok"} \cup LocationValue(f.azureLocation)

CfgMarks(rule, f) ==
    CASE rule = "CFG001" -> CFG001(f)
      [] rule = "CFG002" -> CFG002(f)
      [] rule = "CFG003" -> CFG003(f)
      [] rule = "CFG004" -> CFG004(f)
      [] rule = "CFG005" -> CFG005(f)
      [] rule = "CFG006" -> CFG006(f)
      [] rule = "CFG007" -> CFG007(f)
      [] rule = "CFG008" -> CFG008(f)
      [] rule = "CFG009" -> CFG009(f)
      [] rule = "CFG010" -> CFG010(f)
      [] rule = "CFG011" -> CFG011(f)
      [] rule = "CFG012" -> CFG012(f)

\* withNotes.  CFG-008 and CFG-010 return their findings alone; they and
\* CFG-009 skip when they judged nothing.
CfgResult(rule, marks) ==
    CASE Violates(marks) -> Failed(IF rule \in {"CFG008", "CFG010"} THEN {} ELSE marks \cap {"noted"})
      [] ~Violates(marks) /\ marks \cap {"missing", "noted"} # {} -> Skipped
      [] marks = {} /\ rule \in {"CFG008", "CFG009", "CFG010"} -> Skipped
      [] OTHER -> Clean({})

-----------------------------------------------------------------------------
\* The values each rule tells apart, per part of azure.yaml it looks at.
YamlRead == {"read"}
Ranges == {Absent, "not-a-string", "invalid", "unverified", "valid"}
AzdVersions == {"inside", "outside", "development-build", "malformed"}
Constraints == {Absent, "any", "unparsable", "excludes-the-tested", "above-the-tested", "no-prerelease",
                "floor-below-the-tested", "inside-the-tested"}
EntryOfUses == {"service", "resource", "nothing"}
EntryOfList == {"in-uses", "outside-uses", "of-another-host", "nothing"}
Deployments == {"declared"}
Quantities == {Absent, "in-range", "out-of-range", "malformed", "of-an-uncovered-unit"}
SourceOfAgent == {Absent, "alternate", "image", "code", "incomplete-code", "code-and-image"}
ValueShapes == {"empty", "literal", "default-literal", "mixed"}
SecretNames == {"ends-in-a-credential-word", "holds-a-credential-word", "otherwise"}
PlausibleLiteral == {"a-credential", "plausible", "a-placeholder"}
ArmLiterals == {"literal", "expression"}
EnvironmentFile == {"literal", "reference"}
EnvironmentSelected == {"selected"}
Variables == {"of-the-environment", "of-an-agent", "empty", "of-an-output", "of-the-infrastructure", "AGENT_",
              "of-an-unusual-form", "of-nobody"}
UrlSchemes == {"https", "other", "not-a-URL"}
UrlHosts == {"public", "private", "loopback-or-link-local"}
EgressInjected == {Absent, "declared"}
CronParse == {"every-five-minutes-or-slower", "too-frequent", "malformed", "uncertain"}
TimeZones == {Absent, "known", "unknown"}
LegacyShapes == {Absent, "host", "config", "kind", "field", "reserved-prefix"}
RegionNames == {"empty", "malformed", "expanded", "display-name", "unlisted", "listed"}
CfgShapes ==
    [CFG001 |-> {[part |-> {"head"}, yaml |-> YamlRead, diagnostic |-> {"none", "duplicate-key", "several-documents"},
                  appName |-> {"valid", "malformed"}, services |-> {"some", "empty"}, range |-> {Absent},
                  constraint |-> {Absent}],
                 [part |-> {"versions"}, yaml |-> YamlRead, diagnostic |-> {"none"}, appName |-> {"valid"}, services |-> {"some"},
                  range |-> Ranges, azdVersion |-> AzdVersions, constraint |-> Constraints],
                 [part |-> {"service"}, yaml |-> YamlRead, serviceHost |-> {"agent"}, kind |-> {"prompt"}, path |-> {Absent, "set"},
                  model |-> {Absent, "set"}, instructions |-> {Absent, "set"}],
                 [part |-> {"service"}, yaml |-> YamlRead, serviceHost |-> {"agent"}, kind |-> {"voice"}, path |-> {Absent, "set"},
                  model |-> {"set", "hosted_agent", "targetAgent"}],
                 [part |-> {"service"}, yaml |-> YamlRead, serviceHost |-> {"project", "another", Absent}, path |-> {Absent, "set"}]},
     CFG002 |-> {[yaml |-> YamlRead, name |-> {Absent, "taken-in-the-project", "its-own"}]},
     CFG003 |-> {[list |-> {"uses"}, yaml |-> YamlRead, entry |-> EntryOfUses, resourceNames |-> {"a-mapping"}],
                 [list |-> {"toolboxes", "connections"}, yaml |-> YamlRead, by |-> {"agent", "toolbox"}, entry |-> EntryOfList],
                 [list |-> {"conversationEngine"}, yaml |-> YamlRead,
                  entry |-> {"hosted", "of-another-project", "of-another-host", "nothing"}],
                 [list |-> {"memory"}, yaml |-> YamlRead, by |-> {"a-project", "no-project"}, deploymentNames |-> Deployments,
                  entry |-> {Absent, "deployed", "not-deployed"}]},
     CFG004 |-> {[kind |-> {"prompt"}, yaml |-> YamlRead, by |-> {"a-project", "no-project"}, deploymentNames |-> Deployments,
                  model |-> {Absent, "deployed", "not-deployed"}, instructions |-> {Absent, "set"}],
                 [kind |-> {"voice"}, yaml |-> YamlRead, model |-> {Absent, "set"}, engine |-> {Absent, "set"}],
                 [kind |-> {"hosted"}, yaml |-> YamlRead, path |-> {Absent, "no-directory", "no-Dockerfile", "Dockerfile"},
                  source |-> SourceOfAgent, cpu |-> {Absent}, memory |-> {Absent}],
                 [kind |-> {"hosted"}, yaml |-> YamlRead, path |-> {"Dockerfile"}, source |-> {"image"},
                  cpu |-> Quantities, memory |-> Quantities]},
     CFG005 |-> {[part |-> {"connection"}, yaml |-> YamlRead, value |-> ValueShapes],
                 [part |-> {"env", "url"}, yaml |-> YamlRead, value |-> ValueShapes, looks |-> PlausibleLiteral, named |-> SecretNames],
                 [part |-> {"template"}, yaml |-> YamlRead, value |-> ArmLiterals, looks |-> PlausibleLiteral, named |-> SecretNames],
                 [part |-> {"environment-file"}, yaml |-> YamlRead, value |-> EnvironmentFile, looks |-> PlausibleLiteral,
                  named |-> SecretNames]},
     CFG006 |-> {[yaml |-> YamlRead, environment |-> EnvironmentSelected, variable |-> Variables, outputs |-> {"known"}]},
     CFG007 |-> {[yaml |-> YamlRead, scheme |-> UrlSchemes, address |-> UrlHosts, agentSubnet |-> EgressInjected]},
     CFG008 |-> {[yaml |-> YamlRead, tool |-> {"mcp", "other", "$ref", "endpoint-reuse"},
                  allowed |-> {Absent, "not-a-sequence", "empty", "some"}]},
     CFG009 |-> {[yaml |-> YamlRead, trigger |-> {Absent, "recurring", "schedule", "other-type", "not-a-mapping"},
                  spelling |-> {"recurring", "schedule"}, cron |-> CronParse, timeZone |-> TimeZones]},
     CFG010 |-> {[part |-> {"azure.yaml"}, yaml |-> YamlRead, model |-> {"router", "another"}, version |-> {Absent, "latest", "pinned"}],
                 [part |-> {"template"}, yaml |-> YamlRead, model |-> {"router", "another"}, version |-> {Absent, "latest", "pinned"},
                  upgrade |-> {Absent, "OnceNewDefaultVersionAvailable", "NoAutoUpgrade"}]},
     CFG011 |-> {[yaml |-> YamlRead, legacy |-> LegacyShapes, constraint |-> Constraints]},
     CFG012 |-> {[environment |-> EnvironmentSelected, azureLocation |-> RegionNames \cup {Absent}, location |-> {"malformed", "a-name"}]}]

CfgStated == {"part", "appName", "variable", "list", "kind", "diagnostic", "services", "range", "constraint", "serviceHost", "path", "by", "looks", "named",
              "agentSubnet", "tool", "trigger", "spelling", "legacy", "engine", "source", "instructions"}

\* What holds for the whole template, whichever resource the rule looks at.
CfgWide == {"yaml", "environment", "azureLocation", "azdVersion", "agentSubnet", "deploymentNames",
             "resourceNames"}

=============================================================================
