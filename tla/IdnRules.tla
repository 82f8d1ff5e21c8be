------------------------------ MODULE IdnRules ------------------------------
(***************************************************************************)
(* The identity rules FND-IDN-001 .. 006 (internal/rules/idn).  Every      *)
(* doubt of this package is noted by the resource's name.                  *)
(***************************************************************************)
EXTENDS Ruling

\* acc.maybe
Present(f, marks) == IF f.deployed = Open THEN {"cond"} ELSE marks

(* FND-IDN-001: a managed identity on accounts, projects and workloads.    *)
CheckIdentity(f) ==
    CASE f.identity \in {Absent, "none"} -> {"bad"}
      [] f.identity = Open \/ (f.identity = "user" /\ f.assigned = Open) -> {"noted"}
      [] OTHER -> Mark(f.identity = "user" /\ f.assigned \in {Absent, "empty"}, "bad")
IDN001(f) ==
    CASE f.kind = "account" /\ f.owns = Open -> {"scope"}
      [] f.kind = "account" /\ f.owns = "no" -> {}
      [] f.kind = "workload" /\ f.foundry # "yes" -> {}
      [] OTHER -> Present(f, {"ok"} \cup CheckIdentity(f))

(* FND-IDN-002: the roles an identity needs on the stores linked to it.    *)
\* roleStatus over the assignments of the template.
RoleStatus(f) ==
    CASE f.role = "granted" -> {}
      [] f.role = "missing" -> {"bad"}
      [] OTHER -> {"noted"}
IDN002Store(f) ==
    CASE f.store = "vault" -> {"info"}
      [] f.store = "cosmos" -> {"noted"} \cup RoleStatus(f)
      [] OTHER -> RoleStatus(f)
IDN002(f) == Present(f,
    CASE f.identity = "none" -> {}
      [] f.identity = Open -> {"noted"}
      [] f.identity = "some" /\ f.link = Open -> {"scope"}
      [] f.identity = "some" /\ f.link = "no" -> {}
      [] f.identity = "some" /\ f.link = "yes" /\ f.storeDeployed = Open -> {"cond"}
      [] OTHER -> {"ok"} \cup (IF f.assignments = "none" THEN {"missing"} ELSE IDN002Store(f)))

(* FND-IDN-003: principal type and principal id of a role assignment.      *)
IDN003(f) == Present(f,
    {"ok"} \cup Mark(f.principalType = Absent \/ (f.principalType = "set" /\ f.api = "old"), "bad")
           \cup Mark(f.principalType = Open, "noted")
           \cup CASE f.principalId = "guid" -> {}
                  [] f.principalId = Open -> {"noted"}
                  [] f.principalId = "client-id-by-name" -> {"mild"}
                  [] OTHER -> {"bad"})

(* FND-IDN-004: an application identity with more than it needs.           *)
Privileged == {"Owner", "Contributor", "UserAccessAdmin"}
IDN004Scope(f) ==
    CASE f.scope = Open -> {"noted"}
      [] f.scope # Open /\ f.role = "UserAccessAdmin" /\ f.condition = "restrictive" -> {"ok"}
      [] f.scope # Open /\ f.role = "UserAccessAdmin" /\ f.condition = Open -> {"ok", "noted"}
      [] OTHER -> {"ok", IF f.scope = "Foundry-resource" /\ f.role = "Contributor" THEN "mild" ELSE "bad"}
IDN004(f) == Present(f,
    CASE f.role = Absent -> {"missing"}
      [] f.role = Open -> {"noted"}
      [] f.role \in {"malformed", "harmless"} \/ f.principalType = "human" -> {}
      [] f.role \in Privileged /\ f.principalType = "agent" -> IDN004Scope(f)
      [] OTHER -> IF f.excluded = "yes" THEN {"skip"}
                  ELSE IF f.principal # "application" THEN {"noted"} ELSE IDN004Scope(f))

(* FND-IDN-005: standing privileged access of people.                      *)
IDN005(f) ==
    CASE f.deployed = "no" \/ f.role \in {Absent, "malformed", "harmless"} -> {}
      [] f.deployed # "no" /\ (f.role = Open \/ (f.role = "Owner" /\ f.principalType \in {Open, Absent})) -> {"open"}
      [] f.deployed # "no" /\ f.role = "Owner" /\ f.principalType = "service" -> {}
      [] OTHER -> IF f.scope = Open THEN {"open"} ELSE {"bad"}

(* FND-IDN-006: issuer and subject of a federated credential.              *)
IDN006Subject(f) ==
    CASE f.subject = Open -> {"noted"}
      [] f.subject \in {Absent, "wildcard"} -> {"bad"}
      [] OTHER -> Mark(f.issuer \in {"GitHub", "AKS"} /\ f.subject = "unfit", "bad")
IDN006(f) ==
    IF f.deployed = "no" THEN {}
    ELSE {"ok"} \cup Mark(f.issuer = Open, "noted") \cup Mark(f.issuer \in {Absent, "not-https"}, "bad")
                \cup IDN006Subject(f)

IdnMarks(rule, f) ==
    CASE rule = "IDN001" -> IDN001(f)
      [] rule = "IDN002" -> IDN002(f)
      [] rule = "IDN003" -> IDN003(f)
      [] rule = "IDN004" -> IDN004(f)
      [] rule = "IDN005" -> IDN005(f)
      [] rule = "IDN006" -> IDN006(f)

\* acc.result: every note is told beside the findings; without any, a doubt
\* is a skip.
IdnAcc(marks) ==
    CASE Violates(marks) -> Failed(marks \cap {"noted", "scope", "cond", "info"})
      [] ~Violates(marks) /\ marks \cap {"scope", "cond", "noted", "open"} # {} -> Skipped
      [] marks = {} -> Inapplicable
      [] OTHER -> Clean(marks \cap {"info"})
IdnResult(rule, marks) ==
    CASE rule = "IDN002" /\ "ok" \notin marks -> Skipped
      [] rule = "IDN002" /\ "missing" \in marks -> Skipped
      [] rule = "IDN004" /\ marks \in {{"skip"}, {"missing"}, {"skip", "missing"}} -> Skipped
      [] rule = "IDN004" /\ marks \cap (Findings \cup {"noted", "cond", "skip", "missing"}) = {} -> Clean({})
      [] rule = "IDN005" -> IF Violates(marks) THEN Failed({}) ELSE Skipped
      [] OTHER -> IdnAcc(marks)

-----------------------------------------------------------------------------
\* Whether a store belongs to an identity's account, and whose a principal is.
StoreLink == {"yes", "no"}
Principal == {"application", "unknown"}

\* The values each rule tells apart, per kind of resource it looks at.
Identities == {"none", "system", "user", Absent}
Assigned == {"some", "empty", Absent}
IdnShapes ==
    [IDN001 |-> {[kind |-> {"account"}, owns |-> {"yes", "no"}, deployed |-> {"yes"},
                  identity |-> Identities, assigned |-> Assigned],
                 [kind |-> {"project"}, deployed |-> {"yes"}, identity |-> Identities, assigned |-> Assigned],
                 [kind |-> {"workload"}, foundry |-> {"yes", "no"}, deployed |-> {"yes"},
                  identity |-> Identities, assigned |-> Assigned]},
     IDN002 |-> {[deployed |-> {"yes"}, identity |-> {"none", "some"}, link |-> StoreLink,
                  storeDeployed |-> {"yes"}, store |-> {"search", "cosmos", "vault"},
                  assignments |-> {"some", "none"}, role |-> {"granted", "missing", "narrow"}]},
     IDN003 |-> {[deployed |-> {"yes"}, principalType |-> {"set", Absent}, api |-> {"old", "new"},
                  principalId |-> {"guid", "malformed", "client-id", "client-id-by-name", Absent}]},
     IDN004 |-> {[deployed |-> {"yes"}, role |-> Privileged \cup {"malformed", "harmless", Absent},
                  principalType |-> {"agent", "human", "service", Absent}, principal |-> Principal,
                  excluded |-> {"yes", "no"}, scope |-> {"broad", "resource", "Foundry-resource"},
                  condition |-> {"none", "restrictive"}]},
     IDN005 |-> {[deployed |-> {"yes", "no"}, role |-> {"Owner", "malformed", "harmless", Absent},
                  principalType |-> {"human", "service", Absent}, scope |-> {"broad", "resource"}]},
     IDN006 |-> {[deployed |-> {"yes", "no"}, issuer |-> {"GitHub", "AKS", "other", "not-https", Absent},
                  subject |-> {"fit", "unfit", "wildcard", Absent}]}]

IdnStated == {"kind", "store", "assignments", "api", "excluded"}

=============================================================================
