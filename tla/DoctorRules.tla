---------------------------- MODULE DoctorRules ----------------------------
(***************************************************************************)
(* One rule of foundry-doctor, run again and again on one project while    *)
(* its parameters become known.  The rule looks at resources one by one;   *)
(* each leaves its marks, and the package's accumulator makes a result of  *)
(* the marks of all of them.  Between two runs a parameter file or an azd  *)
(* environment resolves one more expression of the resource under review.  *)
(***************************************************************************)
EXTENDS NetRules, SecRules, IdnRules, OpsRules, RelRules, CostRules, EnvRules, GwRules, IqRules, RunRules, CfgRules, DepRules, Naturals, FiniteSetsExt

CONSTANT MaxResources  \* bound: resources of one template a rule looks at

ASSUME ResourcesAssumption == MaxResources \in Nat \ {0}

RuleIDs ==
    UNION {DOMAIN NetShapes, DOMAIN SecShapes, DOMAIN IdnShapes, DOMAIN OpsShapes, DOMAIN RelShapes,
           DOMAIN CostShapes, DOMAIN EnvShapes, DOMAIN GwShapes, DOMAIN IqShapes, DOMAIN RunShapes,
           DOMAIN CfgShapes, DOMAIN DepShapes}

VARIABLES rule,     \* the rule under review
          shape,    \* the kind of resource it looks at, a record of domains
          facts,    \* what the template states of that resource
          others,   \* the marks of the resources looked at before it
          seen,     \* how many there were
          said      \* what the rule concluded in the runs so far
vars == <<rule, shape, facts, others, seen, said>>

\* The kinds of resource a rule looks at.
Shapes(r) ==
    CASE r \in DOMAIN NetShapes -> NetShapes[r]
      [] r \in DOMAIN SecShapes -> SecShapes[r]
      [] r \in DOMAIN IdnShapes -> IdnShapes[r]
      [] r \in DOMAIN OpsShapes -> OpsShapes[r]
      [] r \in DOMAIN RelShapes -> RelShapes[r]
      [] r \in DOMAIN CostShapes -> CostShapes[r]
      [] r \in DOMAIN EnvShapes -> EnvShapes[r]
      [] r \in DOMAIN GwShapes -> GwShapes[r]
      [] r \in DOMAIN IqShapes -> IqShapes[r]
      [] r \in DOMAIN RunShapes -> RunShapes[r]
      [] r \in DOMAIN CfgShapes -> CfgShapes[r]
      [] r \in DOMAIN DepShapes -> DepShapes[r]

MarksOf(r, f) ==
    CASE r \in DOMAIN NetShapes -> NetMarks(r, f)
      [] r \in DOMAIN SecShapes -> SecMarks(r, f)
      [] r \in DOMAIN IdnShapes -> IdnMarks(r, f)
      [] r \in DOMAIN OpsShapes -> OpsMarks(r, f)
      [] r \in DOMAIN RelShapes -> RelMarks(r, f)
      [] r \in DOMAIN CostShapes -> CostMarks(r, f)
      [] r \in DOMAIN EnvShapes -> EnvMarks(r, f)
      [] r \in DOMAIN GwShapes -> GwMarks(r, f)
      [] r \in DOMAIN IqShapes -> IqMarks(r, f)
      [] r \in DOMAIN RunShapes -> RunMarks(r, f)
      [] r \in DOMAIN CfgShapes -> CfgMarks(r, f)
      [] r \in DOMAIN DepShapes -> DepMarks(r, f)
ResultOf(r, marks) ==
    CASE r \in DOMAIN NetShapes -> NetResult(r, marks)
      [] r \in DOMAIN SecShapes -> SecResult(r, marks)
      [] r \in DOMAIN IdnShapes -> IdnResult(r, marks)
      [] r \in DOMAIN OpsShapes -> OpsResult(r, marks)
      [] r \in DOMAIN RelShapes -> RelResult(r, marks)
      [] r \in DOMAIN CostShapes -> CostResult(r, marks)
      [] r \in DOMAIN EnvShapes -> EnvResult(r, marks)
      [] r \in DOMAIN GwShapes -> GwResult(r, marks)
      [] r \in DOMAIN IqShapes -> IqResult(r, marks)
      [] r \in DOMAIN RunShapes -> RunResult(r, marks)
      [] r \in DOMAIN CfgShapes -> CfgResult(r, marks)
      [] r \in DOMAIN DepShapes -> DepResult(r, marks)
\* The facts that are never an expression.
Stated(r) ==
    CASE r \in DOMAIN NetShapes -> NetStated
      [] r \in DOMAIN SecShapes -> SecStated
      [] r \in DOMAIN IdnShapes -> IdnStated
      [] r \in DOMAIN OpsShapes -> OpsStated
      [] r \in DOMAIN RelShapes -> RelStated
      [] r \in DOMAIN CostShapes -> CostStated
      [] r \in DOMAIN EnvShapes -> EnvStated
      [] r \in DOMAIN GwShapes -> GwStated
      [] r \in DOMAIN IqShapes -> IqStated
      [] r \in DOMAIN RunShapes -> RunStated
      [] r \in DOMAIN CfgShapes -> CfgStated
      [] r \in DOMAIN DepShapes -> DepStated
\* The facts that hold for the whole template.
TemplateWide(r) ==
    CASE r \in DOMAIN NetShapes -> NetWide
      [] r \in DOMAIN SecShapes -> SecWide
      [] r \in DOMAIN OpsShapes -> OpsWide
      [] r \in DOMAIN RelShapes -> RelWide
      [] r \in DOMAIN CostShapes -> CostWide
      [] r \in DOMAIN EnvShapes -> EnvWide
      [] r \in DOMAIN IqShapes -> IqWide
      [] r \in DOMAIN RunShapes -> RunWide
      [] r \in DOMAIN CfgShapes -> CfgWide
      [] r \in DOMAIN DepShapes -> DepWide
      [] OTHER -> {}

Marked == others \cup MarksOf(rule, facts)
Result == ResultOf(rule, Marked)

-----------------------------------------------------------------------------
\* What a template may say of each property before any parameter is known, and
\* the resources that say one of these of each.
Written(s) ==
    LET stated == Stated(rule) IN
    [x \in DOMAIN s |-> IF x \in stated THEN s[x] ELSE {Open} \cup (s[x] \cap {Absent})]
Combinations(written) ==
    FoldSet(LAMBDA x, fs : {[f EXCEPT ![x] = v] : f \in fs, v \in written[x]},
            {[x \in DOMAIN written |-> Open]}, {x \in DOMAIN written : written[x] # {Open}})
Resources(s) ==
    LET written == Written(s) IN
    {f \in Combinations(written) : /\ f = [x \in DOMAIN s |-> f[x]]
                                   /\ \A x \in DOMAIN s : f[x] \in written[x]}
SameTemplate(f) ==
    [x \in DOMAIN f |-> IF x \in TemplateWide(rule) \cap DOMAIN facts THEN facts[x] ELSE f[x]]

Init ==
    /\ rule \in RuleIDs
    /\ shape \in Shapes(rule)
    /\ facts \in Resources(shape)
    /\ others = {} /\ seen = 0 /\ said = {}

\* A parameter resolves one expression, and the rule runs again.
Learn(x) ==
    /\ facts[x] = Open
    /\ seen > 0 => x \notin TemplateWide(rule)
    /\ \E v \in shape[x] \ {Absent} : facts' = [facts EXCEPT ![x] = v]
    /\ said' = said \cup {Result.is}
    /\ UNCHANGED <<rule, shape, others, seen>>

\* The rule's loop goes on to the next resource of the template.
LookOn ==
    /\ seen + 1 < MaxResources
    /\ seen' = seen + 1
    /\ others' = Marked
    /\ shape' \in Shapes(rule)
    /\ facts' \in {SameTemplate(f) : f \in Resources(shape')}
    /\ said' = {}
    /\ UNCHANGED rule

Next == LookOn \/ \E x \in DOMAIN facts : Learn(x)
Spec == Init /\ [][Next]_vars

-----------------------------------------------------------------------------
\* Every value is one the template can have; a rule fails only for a resource
\* at fault and passes only without one: no pass takes precedence over a finding
\* (FND-OPS-007 asks for one step of the deployment that does what it should).
TypeOK ==
    /\ rule \in RuleIDs
    /\ \A x \in DOMAIN facts : facts[x] \in shape[x] \cup {Open}
    /\ others \subseteq Marks
    /\ seen \in 0 .. MaxResources - 1
    /\ Result \in Results /\ Result.told \subseteq Marked
    /\ Result.is = "failed" => Violates(Marked)
    /\ Result.is = "clean" /\ rule # "OPS007" => ~Violates(Marked)
    /\ said \subseteq {"failed", "clean", "skipped", "inapplicable"}

(* The rules the promises below do not cover, by the reason in the code.   *)
\* One judged resource makes the rule clean though it skipped another.
OneJudgedIsClean == DOMAIN NetShapes \cup {"COST001", "IDN004", "SEC011"}
\* A ${VAR} of azure.yaml, or a value azd expands, is taken to be well formed.
ReferenceIsTrusted == {"CFG001", "CFG002", "CFG003", "CFG004", "CFG005", "CFG007", "CFG010", "CFG012"}
\* The target's location stands in for one that is an expression, and the first
\* version on the list for a version that is: the rules pass and fail on them
\* (regionOf, preflight.go:366).
TargetIsTrusted == {"DEP004", "DEP005", "DEP009", "DEP011", "DEP012"}
\* An expression is not the literal that makes the resource one to judge.
ExpressionIsNotTheFault ==
    {"COST003", "GW001", "GW002", "GW005", "IDN001", "IQ004", "IQ005", "IQ012", "OPS001", "OPS002",
     "OPS010", "REL005", "REL006", "REL008", "SEC005", "SEC012", "SEC013"}
\* An expression is not the literal that would satisfy the rule, or exempt it.
ExpressionIsNotTheRemedy ==
    {"CFG010", "COST001", "COST002", "COST004", "IDN002", "IDN004", "IDN005", "IDN006",
     "IQ008", "IQ012", "NET004", "NET009", "NET010", "NET011", "OPS001", "REL001", "REL003", "REL005",
     "REL006", "REL009", "SEC011", "SEC013"}
\* The result of the rule carries its findings, or its pass, alone, or drops
\* the expressions it did not name once it names another doubt (FND-SEC-001 to
\* 005: it takes three resources of SEC-001, one in doubt, one open, one bad).
FindingsAlone ==
    DOMAIN NetShapes \cup DOMAIN GwShapes \cup DOMAIN IqShapes \cup DOMAIN RunShapes \cup DOMAIN DepShapes
      \cup {"CFG005", "CFG008", "CFG012", "COST001", "IDN004", "IDN005", "OPS007", "SEC001", "SEC002", "SEC003",
            "SEC004", "SEC005", "SEC009", "SEC010", "SEC011", "SEC012", "SEC013"}

\* A pass is a verdict: a rule that passed a template does not fail it once a
\* parameter file supplies the values it did not have, so a value it could not
\* know never counted as good.
CleanIsInformed ==
    rule \notin OneJudgedIsClean \cup ReferenceIsTrusted \cup TargetIsTrusted \cup ExpressionIsNotTheFault
      => ("clean" \in said => Result.is # "failed")

\* A finding is a verdict too: it stands whatever value an expression takes.
FindingsStand ==
    rule \notin TargetIsTrusted \cup ExpressionIsNotTheRemedy => ("failed" \in said => Result.is = "failed")

\* What a rule could not judge is a skip beside its findings, and keeps it
\* from passing: a reader of the report learns of every such resource.
UnjudgedIsTold ==
    rule \notin FindingsAlone
      => (Result.is \in {"clean", "failed"} => Marked \cap Unjudged \subseteq Result.told)

\* "skipped or uncertain checks never reported as passes" (v1-audit.md, Goal),
\* stated of the network rules: one that passed judged every resource, or tells.
UncertainNeverPasses ==
    rule \in DOMAIN NetShapes /\ Result.is = "clean" => Marked \cap Unjudged \subseteq Result.told

=============================================================================
