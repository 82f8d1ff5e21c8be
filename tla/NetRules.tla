------------------------------ MODULE NetRules ------------------------------
(***************************************************************************)
(* The network rules FND-NET-001 .. 011 (internal/rules/net).              *)
(***************************************************************************)
EXTENDS Ruling

\* outcome.usable: only a resource that is surely deployed is evaluated.
Usable(f, marks) ==
    CASE f.deployed = "yes" -> marks
      [] f.deployed = Open  -> {"skip"}
      [] OTHER              -> {}

Deployment == {"yes", "no"}
Access == {"enabled", "disabled"}

(* FND-NET-001: a public account, or a private one without an endpoint.    *)
Declared == {"nothing", "entra-only", "allowed"}
NET001(f) == Usable(f,
    CASE f.access = Open -> {"skip"}
      [] f.access = "enabled" /\ f.acl = Open -> {"skip"}
      [] f.access = "enabled" /\ f.acl = "deny" -> {"ok"}
      [] f.access = "enabled" /\ f.acl = "allow" ->
           {"ok", IF f.declared = "allowed" \/ (f.declared = "entra-only" /\ f.keysOff = "yes")
                  THEN "mild" ELSE "bad"}
      [] f.access = "disabled" /\ f.endpoint = "account" -> {"ok"}
      [] f.access = "disabled" /\ f.endpoint = Open -> {"skip"}
      [] f.access = "disabled" /\ f.endpoint = "none" -> {"ok", "bad"}
      [] OTHER -> {"skip"})

(* FND-NET-002: the stores of a private standard-agent account.            *)
NET002Store(f) ==
    CASE f.store = Absent -> {}
      [] f.store \in {Open, "elsewhere"} \/ f.storeDeployed = Open \/ f.storeAccess = Open -> {"skip"}
      [] OTHER -> {"ok"} \cup Mark(f.storeAccess # "disabled" \/ f.storeEndpoint = "none", "bad")
NET002(f) == Usable(f,
    IF f.access # "disabled" \/ f.injection \in {Open, "managed"} THEN {"skip"} ELSE NET002Store(f))

(* FND-NET-003: DNS zone groups and links of the private endpoints.  The   *)
(* rule gives no verdict where DNS is declared central or policy-managed.  *)
NET003Zone(f) ==
    CASE f.zone = "linked" -> {}
      [] f.zone \in {"missing", "unlinked"} -> {"bad"}
      [] OTHER -> {"skip"}
NET003Endpoint(f) == Usable(f,
    CASE f.groups \in {Absent, "uncatalogued", Open} -> {"skip"}
      [] f.zoneGroup = Open -> {"skip"}
      [] f.zoneGroup = "none" -> {"ok", "bad"}
      [] OTHER -> {"ok"} \cup NET003Zone(f))
NET003(f) ==
    CASE f.dns # "own" -> {"skip"}
      [] f.target = "other" -> {}
      [] f.target = Open \/ f.cloud \in {"mixed", Open} -> {"skip"}
      [] OTHER -> NET003Endpoint(f)

(* What the rules about the agent subnet read before they look at it.      *)
AgentSubnet(f, marks) == Usable(f,
    CASE f.injection = "none" -> {}
      [] f.injection = "agent" /\ f.subnet = "here" -> marks
      [] OTHER -> {"skip"})

(* FND-NET-004: delegation, size and name, and sharing of the agent subnet.*)
NET004(f) == AgentSubnet(f,
    {"ok"} \cup Mark(f.delegation # "app" \/ f.shape = "unfit" \/ f.shared = "yes", "bad"))

(* FND-NET-005: one region for an account or an endpoint and its network.  *)
NET005Regions(f) ==
    CASE f.regions = "same" -> {"ok"}
      [] f.regions = "differ" -> {"ok", "bad"}
      [] OTHER -> {"skip"}
NET005(f) ==
    IF f.kind = "account"
    THEN IF f.injection = "managed" THEN {} ELSE AgentSubnet(f, NET005Regions(f))
    ELSE Usable(f, IF f.subnet = "here" THEN NET005Regions(f) ELSE {"skip"})

(* FND-NET-006: supported, unreserved and disjoint address ranges.         *)
NET006Prefix(f) ==
    CASE f.prefix \in {Absent, Open} -> {"skip"}
      [] f.prefix = "private" -> {"ok"}
      [] OTHER -> {"ok", "bad"}
NET006(f) ==
    IF f.kind = "peering"
    THEN IF f.peers = "overlap" THEN {"ok", "bad"} ELSE {}
    ELSE IF f.injection = "managed" THEN {}
    ELSE AgentSubnet(f, NET006Prefix(f) \cup
            (IF f.prefix # Absent /\ f.space = "reserved" THEN {"ok", "bad"} ELSE {}))

(* FND-NET-007: restricted mode needs ranges it lets in.                   *)
NET007Ranges(f) ==
    {"ok"} \cup Mark(f.ranges = "none" \/ (f.ranges = "ip" /\ f.entry = "malformed"), "bad")
NET007(f) ==
    IF f.access # "enabled" \/ f.acl # "deny" THEN {}
    ELSE Usable(f, IF f.endpoint # "none" \/ f.ranges = Open THEN {"skip"} ELSE NET007Ranges(f))

(* FND-NET-008: a Search service of the Free tier cannot be private.       *)
NET008(f) == Usable(f,
    CASE f.sku = Open -> {"skip"}
      [] f.sku = Absent -> {}
      [] OTHER -> {"ok"} \cup Mark(f.sku = "free" /\ \/ f.endpoint = "search"
                                                     \/ f.access = "disabled" /\ f.endpoint = "another"
                                                     \/ f.vectorStore = "private", "bad"))

(* FND-NET-009: what each API Management tier supports on the network.     *)
NET009Outbound(f) ==
    CASE f.subnet = "farms" -> {"ok"} \cup Mark(f.sku \notin {"standardv2", "premiumv2"}, "bad")
      [] f.subnet = "hosting" -> {"ok"} \cup Mark(f.sku # "premiumv2", "bad")
      [] OTHER -> {}
NET009Inbound(f) ==
    IF f.endpoint # "gateway" THEN {}
    ELSE {"ok"} \cup Mark(f.sku = "basicv2", "skip") \cup Mark(f.sku = "consumption", "bad")
NET009(f) == Usable(f,
    CASE f.sku = Open -> {"skip"}
      [] f.vnet = "injected" -> {"ok"} \cup Mark(f.sku # "premium", "bad")
      [] OTHER -> NET009Outbound(f) \cup NET009Inbound(f))

(* FND-NET-010: telemetry of a private design.                             *)
NET010(f) ==
    IF f.foundry # "private" THEN {}
    ELSE Usable(f,
        CASE f.telemetry = "public" -> {"ok"} \cup Mark(f.ingestion = "unset", "bad")
          [] f.telemetry = "private" /\ f.link = Open -> {"skip"}
          [] f.telemetry = "private" /\ f.link = "none" -> {"ok", "bad"}
          [] OTHER -> {"ok"} \cup Mark(f.endpoint # "azuremonitor" \/ f.modes = "implicit", "bad"))

(* FND-NET-011: a security group on every subnet, protection of public IPs.*)
NET011Subnet(f) ==
    CASE f.exempt = "yes" -> {}
      [] f.exempt # "yes" /\ f.securityGroup = "yes" -> {"ok"}
      [] f.exempt # "yes" /\ f.securityGroup = "no" /\ f.agent = "no" -> {"ok", "bad"}
      [] OTHER -> {"skip"}
NET011(f) == Usable(f,
    IF f.kind = "subnet" THEN NET011Subnet(f)
    ELSE {"ok"} \cup Mark(f.ddos \notin {"enabled", "by-its-network"}, "bad"))

NetMarks(rule, f) ==
    CASE rule = "NET001" -> NET001(f)
      [] rule = "NET002" -> NET002(f)
      [] rule = "NET003" -> NET003(f)
      [] rule = "NET004" -> NET004(f)
      [] rule = "NET005" -> NET005(f)
      [] rule = "NET006" -> NET006(f)
      [] rule = "NET007" -> NET007(f)
      [] rule = "NET008" -> NET008(f)
      [] rule = "NET009" -> NET009(f)
      [] rule = "NET010" -> NET010(f)
      [] rule = "NET011" -> NET011(f)

\* outcome.result: the skips stand beside findings; with none, one evaluated
\* resource makes the rule clean and the skips go.
NetResult(rule, marks) ==
    CASE Violates(marks) -> Failed(marks \cap Unjudged)
      [] ~Violates(marks) /\ "ok" \in marks -> Clean({})
      [] marks = {} -> Inapplicable
      [] OTHER -> Skipped

-----------------------------------------------------------------------------
(* The values each rule tells apart, per kind of resource it looks at.     *)
AgentNetwork == {"none", "agent", "managed"}
InTemplate == {"here", "elsewhere"}
NetShapes ==
    [NET001 |-> {[deployed |-> Deployment, access |-> Access \cup {"odd"}, acl |-> {"allow", "deny"},
                  endpoint |-> {"none", "account"}, keysOff |-> {"yes", "no"}, declared |-> Declared]},
     NET002 |-> {[deployed |-> {"yes"}, access |-> Access, injection |-> AgentNetwork,
                  store |-> InTemplate \cup {Absent}, storeDeployed |-> {"yes"}, storeAccess |-> Access,
                  storeEndpoint |-> {"none", "there"}]},
     NET003 |-> {[dns |-> {"own", "central", "policy"}, target |-> {"foundry", "other"},
                  cloud |-> {"public", "mixed"}, deployed |-> Deployment,
                  groups |-> {"catalogued", "uncatalogued", Absent}, zoneGroup |-> {"there", "none"},
                  zone |-> {"linked", "unlinked", "missing", "elsewhere"}]},
     NET004 |-> {[deployed |-> Deployment, injection |-> AgentNetwork, subnet |-> InTemplate,
                  delegation |-> {"app", "none"}, shape |-> {"fit", "unfit"}, shared |-> {"yes", "no"}]},
     NET005 |-> {[kind |-> {"account"}, deployed |-> Deployment, injection |-> AgentNetwork,
                  subnet |-> InTemplate, regions |-> {"same", "differ"}],
                 [kind |-> {"endpoint"}, deployed |-> Deployment, subnet |-> InTemplate,
                  regions |-> {"same", "differ"}]},
     NET006 |-> {[kind |-> {"account"}, deployed |-> {"yes"}, injection |-> AgentNetwork, subnet |-> InTemplate,
                  prefix |-> {"private", "public", "reserved", Absent}, space |-> {"fine", "reserved"}],
                 [kind |-> {"peering"}, peers |-> {"overlap", "disjoint"}]},
     NET007 |-> {[deployed |-> {"yes"}, access |-> Access, acl |-> {"allow", "deny"},
                  endpoint |-> {"none", "there"}, ranges |-> {"none", "network", "ip"},
                  entry |-> {"address", "malformed"}]},
     NET008 |-> {[deployed |-> Deployment, sku |-> {"free", "paid", Absent}, access |-> Access,
                  endpoint |-> {"none", "search", "another"}, vectorStore |-> {"private", "no"}]},
     NET009 |-> {[deployed |-> {"yes"}, vnet |-> {"injected", "none"}, subnet |-> {"none", "farms", "hosting"},
                  sku |-> {"premium", "standard", "standardv2", "premiumv2", "basicv2", "consumption"},
                  endpoint |-> {"none", "gateway"}]},
     NET010 |-> {[foundry |-> {"private", "public"}, telemetry |-> {"public", "private"}, deployed |-> Deployment,
                  ingestion |-> {"set", "unset"}, link |-> {"none", "scoped"},
                  endpoint |-> {"none", "azuremonitor"}, modes |-> {"explicit", "implicit"}]},
     NET011 |-> {[kind |-> {"subnet"}, deployed |-> Deployment, exempt |-> {"yes", "no"},
                  securityGroup |-> {"yes", "no"}, agent |-> {"yes", "no"}],
                 [kind |-> {"address"}, deployed |-> Deployment, ddos |-> {"enabled", "by-its-network", "off"}]}]

\* What the template or the policy always states: never an expression.
NetStated == {"kind", "declared", "dns", "telemetry", "ingestion", "modes", "securityGroup"}

\* What holds for the whole template, whichever resource the rule looks at.
NetWide == {"declared", "dns", "cloud", "foundry", "telemetry"}

=============================================================================
