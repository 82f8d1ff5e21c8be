------------------------------ MODULE SecRules ------------------------------
(***************************************************************************)
(* The security rules FND-SEC-001 .. 014 (internal/rules/sec).             *)
(***************************************************************************)
EXTENDS Ruling

\* acc.maybe: a resource under a condition or a loop is not evaluated.
Settled(f, marks) == IF f.deployed = Open THEN {"cond"} ELSE marks

\* linkOf: only what Foundry provably uses, and is deployed, is evaluated.
LinkedOnly(f, marks) ==
    CASE f.link = "yes" -> Settled(f, marks)
      [] f.link = Open  -> {"scope"}
      [] OTHER          -> {}

(* FND-SEC-001 .. 003: key authentication of accounts, Search and Cosmos.  *)
SEC001(f) == LinkedOnly(f, {"ok"} \cup Flag(f.localAuth, "off", "open"))
SEC002(f) == LinkedOnly(f, {"ok"} \cup Flag(f.localAuth, "off", "open"))
SEC003(f) == LinkedOnly(f, {"ok"} \cup Flag(f.localAuth, "off", "open"))

(* FND-SEC-004: four settings of a storage account.                        *)
SEC004(f) == Settled(f,
    {"ok"} \cup UNION {Flag(f[s], "safe", "open") : s \in {"sharedKey", "blobAccess", "httpsOnly", "tls"}})

(* FND-SEC-005: Key Vault; soft delete fails only where it is stated false.*)
SEC005(f) == LinkedOnly(f,
    {"ok"} \cup Mark(f.softDelete = "off", "bad") \cup Flag(f.purge, "on", "open") \cup Flag(f.rbac, "on", "open"))

(* FND-SEC-006: IP rules that open a resource or name a private range.     *)
SEC006(f) ==
    LET rules == {"ok"} \cup (IF f.rules = Absent THEN {} ELSE Flag(f.rules, "narrow", "noted"))
    IN IF f.kind = "account" THEN Settled(f, rules) ELSE LinkedOnly(f, rules)

(* FND-SEC-007: content filters, and the guardrail a deployment or a       *)
(* hosted agent is bound to.  azd before 1.36 has no field for an agent's. *)
SEC007Deployment(f) ==
    CASE f.binding = Absent -> {"mild"}
      [] f.binding = "default" -> {}
      [] f.binding = "local" /\ f.policyHere = "yes" -> {}
      [] f.binding = "local" /\ f.policyHere = "no" /\ f.account = "here" -> {"bad"}
      [] OTHER -> {"noted"}
SEC007Agent(f) ==
    CASE f.entry = Absent -> IF f.azd = "new" THEN {"ok", "bad"} ELSE {"info"}
      [] f.entry = "incomplete" -> {"ok", "bad"}
      [] f.entry = "declared" -> {"ok"}
      [] OTHER -> {"ok", "noted"}
SEC007(f) ==
    CASE f.kind = "policy" -> {"ok"} \cup Settled(f,
            IF f.filters = Open THEN {"noted"} ELSE Mark(f.filters = "all-off", "bad"))
      [] f.kind = "deployment" -> {"ok"} \cup Settled(f, SEC007Deployment(f))
      [] OTHER -> SEC007Agent(f)

(* FND-SEC-008: a Defender plan for every kind of resource in the template.*)
SEC008(f) == IF f.plan = "missing" THEN {"missing"}
             ELSE Settled(f, {"ok"} \cup Flag(f.tier, "standard", "noted"))

(* FND-SEC-009: assignments of the mapped policy definitions.              *)
SEC009(f) == Settled(f,
    CASE f.definition = "other" -> {}
      [] f.definition = "mapped" /\ f.mode = "default" -> {"enforced"}
      [] f.definition = "mapped" /\ f.mode = "off" -> {"bad"}
      [] OTHER -> {"open"})

(* FND-SEC-010: customer-managed keys, a finding only where required.      *)
SEC010(f) ==
    LET judged == {"ok"} \cup
            CASE f.key = "customer" -> {}
              [] f.key = Open -> {"noted"}
              [] OTHER -> {IF f.required = "yes" THEN "mild" ELSE "info"}
    IN CASE f.kind = "linked" -> LinkedOnly(f, judged)
         [] f.kind = "account" /\ f.deployed = Open -> {"skip"}
         [] OTHER -> Settled(f, judged)

(* FND-SEC-011: outbound control, first of the managed network that        *)
(* belongs to the account, else of the account itself.                     *)
SEC011Account(f) ==
    CASE f.restrict = "yes" -> Mark(f.allowed = "none", "info")
      [] f.restrict = Open -> {"noted"}
      [] f.restrict = "no" /\ f.private = Open -> {"noted"}
      [] f.restrict = "no" /\ f.private = "yes" -> {"info"}
      [] OTHER -> {"mild"}
SEC011Network(f) ==
    CASE f.networkDeployed = Open -> {"cond"}
      [] f.isolation = Absent -> SEC011Account(f)
      [] OTHER -> IF f.isolation = Open THEN {"noted"} ELSE Mark(f.isolation = "open", "mild")
SEC011(f) ==
    CASE f.kind = "service" -> Mark(f.egress = "open", "mild")
      [] f.kind = "account" /\ f.deployed = Open -> {"skip"}
      [] f.network = "own" -> {"ok"} \cup SEC011Network(f)
      [] OTHER -> {"ok"} \cup Mark(f.network = Open, "noted") \cup SEC011Account(f)

(* FND-SEC-012: message and body logging of language-model APIs.           *)
SEC012(f) ==
    CASE f.messages = "all" -> {"bad"}
      [] f.messages # "all" /\ f.body = "on" -> {IF f.api = "llm" THEN "bad" ELSE "open"}
      [] OTHER -> {}

(* FND-SEC-013: a token policy of one tenant on every language-model API.  *)
SEC013(f) ==
    CASE f.policy = "none" -> Mark(f.llm = "yes", "skip")
      [] f.policy = "templated" -> {"open"} \cup Mark(f.llm = "yes", "bad")
      [] f.policy \notin {"none", "templated"} /\ f.scope = "another-api" -> Mark(f.llm = "yes", "bad")
      [] f.policy \notin {"none", "templated"} /\ f.scope = "the-api" /\ f.llm # "yes" -> {}
      [] OTHER -> {"ok"} \cup Mark(f.policy # "one-tenant", "bad")
                         \cup Mark(f.llm = "yes" /\ f.scope = "service", "bad")

(* FND-SEC-014: an output that carries, or is named like, a secret.        *)
SEC014(f) ==
    CASE f.type = "secure" -> {}
      [] f.type # "secure" /\ (f.value \in {"secure-parameter", "list-function"} \/ f.name = "password") -> {"ok", "bad"}
      [] OTHER -> {"ok"} \cup Mark(f.name = "secret", "noted")

SecMarks(rule, f) ==
    CASE rule = "SEC001" -> SEC001(f)
      [] rule = "SEC002" -> SEC002(f)
      [] rule = "SEC003" -> SEC003(f)
      [] rule = "SEC004" -> SEC004(f)
      [] rule = "SEC005" -> SEC005(f)
      [] rule = "SEC006" -> SEC006(f)
      [] rule = "SEC007" -> SEC007(f)
      [] rule = "SEC008" -> SEC008(f)
      [] rule = "SEC009" -> SEC009(f)
      [] rule = "SEC010" -> SEC010(f)
      [] rule = "SEC011" -> SEC011(f)
      [] rule = "SEC012" -> SEC012(f)
      [] rule = "SEC013" -> SEC013(f)
      [] rule = "SEC014" -> SEC014(f)

\* acc.result: with findings every note is told, and an unresolved value that
\* left no note only when nothing else did; without, any doubt is a skip.
SecAcc(marks) ==
    LET named == marks \cap {"noted", "cond", "scope", "info", "missing"} IN
    CASE Violates(marks) -> Failed(IF named = {} THEN marks \cap {"open"} ELSE named)
      [] ~Violates(marks) /\ marks \cap {"scope", "cond", "open", "noted"} # {} -> Skipped
      [] OTHER -> Clean(marks \cap {"info"})

\* The rules that bypass the accumulator, or ask something of it first.
SecResult(rule, marks) ==
    CASE rule \in {"SEC012", "SEC013"} /\ Violates(marks) -> Failed({})
      [] rule = "SEC008" /\ ~Violates(marks) /\ "missing" \in marks -> Skipped
      [] rule = "SEC009" /\ Violates(marks) -> Failed(marks \cap {"cond"})
      [] rule = "SEC009" /\ ~Violates(marks) /\ "enforced" \notin marks -> Skipped
      [] rule = "SEC013" /\ ~Violates(marks) /\ "skip" \in marks -> Skipped
      [] rule = "SEC010" /\ ~Violates(marks) /\ "skip" \in marks -> Skipped
      [] rule = "SEC011" /\ marks = {"skip"} -> Skipped
      [] rule = "SEC014" -> IF Violates(marks) THEN Failed(marks \cap {"noted"}) ELSE Clean(marks \cap {"noted"})
      [] rule = "SEC007" /\ marks = {"info"} -> Skipped
      [] marks = {} /\ rule \notin {"SEC009", "SEC012", "SEC014"} -> Inapplicable
      [] OTHER -> SecAcc(marks)

-----------------------------------------------------------------------------
\* What an output's name is taken for, and what its expression carries.
OutputName == {"password", "secret", "plain"}
OutputValue == {"secure-parameter", "list-function", "plain"}

\* What the logging of an API sends, and the tenants its token policy admits.
MessageLogging == {"all", "none"}
TenantPolicy == {"none", "templated", "one-tenant", "unfit"}

\* The azd that deploys, against the first with a field for an agent's policy.
AzdRelease == {"new", "old", "unknown"}

\* Whether the project's settings ask for customer-managed keys.
CustomerKeys == {"yes", "no"}

\* The values each rule tells apart, per kind of resource it looks at.
SecShapes ==
    [SEC001 |-> {[deployed |-> {"yes"}, link |-> {"yes", "no"}, localAuth |-> {"off", "on", Absent}]},
     SEC002 |-> {[deployed |-> {"yes"}, link |-> {"yes", "no"}, localAuth |-> {"off", "on", Absent}]},
     SEC003 |-> {[deployed |-> {"yes"}, link |-> {"yes", "no"}, localAuth |-> {"off", "on", Absent}]},
     SEC004 |-> {[deployed |-> {"yes"}, sharedKey |-> {"safe", "unsafe"}, blobAccess |-> {"safe", "unsafe"},
                  httpsOnly |-> {"safe", "unsafe"}, tls |-> {"safe", "unsafe"}]},
     SEC005 |-> {[deployed |-> {"yes"}, link |-> {"yes", "no"}, softDelete |-> {"on", "off"},
                  purge |-> {"on", "off"}, rbac |-> {"on", "off"}]},
     SEC006 |-> {[kind |-> {"account"}, deployed |-> {"yes"}, rules |-> {Absent, "narrow", "wide"}],
                 [kind |-> {"linked"}, deployed |-> {"yes"}, link |-> {"yes", "no"},
                  rules |-> {Absent, "narrow", "wide"}]},
     SEC007 |-> {[kind |-> {"policy"}, deployed |-> {"yes"}, filters |-> {"all-off", "on", Absent}],
                 [kind |-> {"deployment"}, deployed |-> {"yes"},
                  binding |-> {Absent, "default", "microsoft", "local"}, policyHere |-> {"yes", "no"},
                  account |-> {"here", "elsewhere"}],
                 [kind |-> {"agent"}, azd |-> AzdRelease,
                  entry |-> {Absent, "incomplete", "declared", "undeclared"}]},
     SEC008 |-> {[plan |-> {"there", "missing"}, deployed |-> {"yes"}, tier |-> {"standard", "free"}]},
     SEC009 |-> {[deployed |-> {"yes"}, definition |-> {"mapped", "initiative", "other"},
                  mode |-> {"default", "off", "odd"}]},
     SEC010 |-> {[kind |-> {"account", "registry"}, deployed |-> {"yes"}, key |-> {"customer", "platform"},
                  required |-> CustomerKeys],
                 [kind |-> {"linked"}, deployed |-> {"yes"}, link |-> {"yes", "no"},
                  key |-> {"customer", "platform"}, required |-> CustomerKeys]},
     SEC011 |-> {[kind |-> {"service"}, egress |-> {"approved", "open", Absent}],
                 [kind |-> {"account"}, deployed |-> {"yes"}, network |-> {"own", "another"},
                  networkDeployed |-> {"yes"}, isolation |-> {"approved", "open", Absent},
                  restrict |-> {"yes", "no"}, allowed |-> {"some", "none"}, private |-> {"yes", "no"}]},
     SEC012 |-> {[messages |-> MessageLogging, body |-> {"on", "off"}, api |-> {"llm", "other"}]},
     SEC013 |-> {[policy |-> TenantPolicy,
                  scope |-> {"service", "the-api", "another-api"}, llm |-> {"yes", "no"}]},
     SEC014 |-> {[type |-> {"plain", "secure"}, value |-> OutputValue, name |-> OutputName]}]

SecStated == {"kind", "required", "azd", "entry", "plan", "egress", "allowed", "scope", "type", "value", "name"}

\* What holds for the whole template, whichever resource the rule looks at.
SecWide == {"azd", "required"}

=============================================================================
