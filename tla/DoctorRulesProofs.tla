--------------------------- MODULE DoctorRulesProofs ---------------------------
(***************************************************************************)
(* Proofs about DoctorRules: for any number of resources a rule looks at,  *)
(* its results are lawful, its findings and its passes stand when          *)
(* parameters become known, and what it could not judge it tells.          *)
(*                                                                         *)
(* The argument has three layers.  A rule "settles": resolving expressions *)
(* of one resource changes its marks only in ways its package can bear (a  *)
(* leaf for each of the 108 rules).  A package is "lawful" and "steady":   *)
(* what its accumulator concludes of any marks, and of marks that settle.  *)
(* The specification then needs one inductive invariant, that every result *)
(* said so far was said of a resource the present one is a resolution of.  *)
(***************************************************************************)
EXTENDS DoctorRules, TLAPS

-----------------------------------------------------------------------------
\* The rules CleanIsInformed does not cover.
NotInformed == OneJudgedIsClean \cup ReferenceIsTrusted \cup TargetIsTrusted \cup ExpressionIsNotTheFault

\* The rules whose finding may go.
NotStanding == TargetIsTrusted \cup ExpressionIsNotTheRemedy

\* What a template may state of a resource of kind s: a value of its own, or an
\* expression where one is possible.
Fits(s, stated, f) ==
    /\ f = [x \in DOMAIN s |-> f[x]]
    /\ \A x \in DOMAIN s : f[x] \in s[x] \/ (f[x] = Open /\ x \notin stated)

\* g is f with some of its expressions resolved.
Kin(s, stated, f, g) ==
    /\ Fits(s, stated, f)
    /\ g = [x \in DOMAIN s |-> g[x]]
    /\ \A x \in DOMAIN s : g[x] = f[x] \/ (f[x] = Open /\ g[x] \in s[x] \ {Absent})

\* How the marks m of a resource become n when its expressions are resolved.  A
\* finding stays, a mark that mutes the result does not appear and one it needs
\* does not go; without a finding and without a doubt there is no finding after.
\* The exceptions are those DoctorRules names.
Settling(r, tells, doubts, mutes, needs, m, n) ==
    /\ m \subseteq Marks
    /\ r \notin FindingsAlone => m \cap Unjudged \subseteq tells
    /\ r \notin NotStanding =>
         /\ Violates(m) => Violates(n)
         /\ m \cap mutes = {} => n \cap mutes = {}
         /\ m \cap needs \subseteq n
    /\ r \notin NotInformed => (m \cap (Findings \cup doubts) = {} => ~Violates(n))

\* The reasons for not judging that a rule gives, of those its result can tell.
Tells(r, tells, marks) ==
    /\ marks \cap Unjudged \subseteq tells
    /\ r \in DOMAIN CfgShapes /\ "missing" \in marks => ~Violates(marks)

\* What may be concluded of the marks of all the resources.
Lawful(r, tells, marks, res) ==
    /\ res \in Results /\ res.told \subseteq marks
    /\ res.is = "failed" => Violates(marks)
    /\ res.is = "clean" /\ r # "OPS007" => ~Violates(marks)
    /\ r \notin FindingsAlone /\ Tells(r, tells, marks) =>
         (res.is \in {"clean", "failed"} => marks \cap Unjudged \subseteq res.told)

\* How a result may change when expressions are resolved.
Steady(r, before, after) ==
    /\ r \notin NotStanding => (before.is = "failed" => after.is = "failed")
    /\ r \notin NotInformed => (before.is = "clean" => after.is # "failed")

\* A rule that looks at one kind of resource; kinds of resource of which the
\* same holds where it holds for the whole template.
Only(kinds) == \A s, t \in kinds : s = t
Agree(kinds, wide) == \A s, t \in kinds : \A x \in DOMAIN s \cap DOMAIN t \cap wide : s[x] = t[x]

-----------------------------------------------------------------------------
(* The network rules.                                                  *)
LEMMA NetIDs ==
  DOMAIN NetShapes = {"NET001", "NET002", "NET003", "NET004", "NET005", "NET006", "NET007", "NET008", "NET009",
                      "NET010", "NET011"}
BY DEF NetShapes

\* Every network rule settles.
LEMMA NetSettles ==
  ASSUME NEW r \in DOMAIN NetShapes, NEW s \in NetShapes[r], NEW f, NEW g, Kin(s, NetStated, f, g)
  PROVE  Settling(r, Unjudged, {}, {}, {}, NetMarks(r, f), NetMarks(r, g))
<1> USE DEF Settling, Kin, Fits, Marks, Violates, Findings, Unjudged, Open, Absent, Mark, Flag, NetShapes,
        NetStated, NetMarks
<1>1. CASE r = "NET001"
  BY <1>1 DEF NET001, Usable, Deployment, Access, Declared, FindingsAlone, NotInformed, OneJudgedIsClean
<1>2. CASE r = "NET002"
  BY <1>2 DEF NET002, Usable, NET002Store, Access, AgentNetwork, InTemplate, FindingsAlone, NotInformed,
      OneJudgedIsClean
<1>3. CASE r = "NET003"
  BY <1>3 DEF NET003, NET003Endpoint, Usable, NET003Zone, Deployment, FindingsAlone, NotInformed,
      OneJudgedIsClean
<1>4. CASE r = "NET004"
  BY <1>4 DEF NET004, AgentSubnet, Usable, Deployment, AgentNetwork, InTemplate,
      NotStanding, ExpressionIsNotTheRemedy,
      FindingsAlone, NotInformed, OneJudgedIsClean
<1>5. CASE r = "NET005"
  BY <1>5 DEF NET005, AgentSubnet, NET005Regions, Usable, Deployment, AgentNetwork, InTemplate, FindingsAlone,
      NotInformed, OneJudgedIsClean
<1>6. CASE r = "NET006"
  BY <1>6 DEF NET006, AgentSubnet, NET006Prefix, Usable, AgentNetwork, InTemplate, FindingsAlone, NotInformed,
      OneJudgedIsClean
<1>7. CASE r = "NET007"
  BY <1>7 DEF NET007, Usable, NET007Ranges, Access, FindingsAlone, NotInformed, OneJudgedIsClean
<1>8. CASE r = "NET008"
  BY <1>8 DEF NET008, Usable, Deployment, Access, FindingsAlone, NotInformed, OneJudgedIsClean
<1>9. CASE r = "NET009"
  BY <1>9 DEF NET009, Usable, NET009Outbound, NET009Inbound, NotStanding, ExpressionIsNotTheRemedy, FindingsAlone,
      NotInformed, OneJudgedIsClean
<1>10. CASE r = "NET010"
  BY <1>10 DEF NET010, Usable, Deployment, NotStanding, ExpressionIsNotTheRemedy, FindingsAlone, NotInformed,
      OneJudgedIsClean
<1>11. CASE r = "NET011"
  BY <1>11 DEF NET011, Usable, NET011Subnet, Deployment,
      NotStanding, ExpressionIsNotTheRemedy, FindingsAlone, NotInformed,
      OneJudgedIsClean
<1> QED
  BY <1>1, <1>2, <1>3, <1>4, <1>5, <1>6, <1>7, <1>8, <1>9, <1>10, <1>11, NetIDs

\* What they conclude of any marks is lawful,
LEMMA NetLawful ==
  ASSUME NEW r \in DOMAIN NetShapes, NEW marks \in SUBSET Marks
  PROVE  Lawful(r, Unjudged, marks, NetResult(r, marks))
BY NetIDs
DEF Lawful, Tells, Results, Failed, Clean, Skipped, Inapplicable, FindingsAlone, NetResult, Violates,
    Findings, Unjudged, Marks, Mark

\* and steady for marks that settle.
LEMMA NetSteady ==
  ASSUME NEW r \in DOMAIN NetShapes, NEW before \in SUBSET Marks,
         NEW m \in SUBSET Marks, NEW n \in SUBSET Marks,
         Settling(r, Unjudged, {}, {}, {}, m, n)
  PROVE  Steady(r, NetResult(r, before \cup m), NetResult(r, before \cup n))
BY NetIDs
DEF Steady, Settling, Failed, Clean, Skipped, Inapplicable, NotStanding, ExpressionIsNotTheRemedy, NotInformed,
    OneJudgedIsClean, ReferenceIsTrusted, ExpressionIsNotTheFault, NetResult, Violates, Findings, Unjudged,
    Marks, Mark

\* What holds for the whole template has one domain, whichever resource it is read of.
LEMMA NetShared ==
  ASSUME NEW r \in DOMAIN NetShapes
  PROVE  Agree(NetShapes[r], NetWide)
<1>1. /\ Only(NetShapes["NET001"]) /\ Only(NetShapes["NET002"]) /\ Only(NetShapes["NET003"])
      /\ Only(NetShapes["NET004"]) /\ Only(NetShapes["NET007"])
  BY DEF NetShapes, Only
<1>2. /\ Only(NetShapes["NET008"]) /\ Only(NetShapes["NET009"]) /\ Only(NetShapes["NET010"])
  BY DEF NetShapes, Only
<1>3. Agree(NetShapes["NET005"], NetWide)
  BY DEF Agree, NetShapes, NetWide
<1>4. Agree(NetShapes["NET006"], NetWide)
  BY DEF Agree, NetShapes, NetWide
<1>5. Agree(NetShapes["NET011"], NetWide)
  BY DEF Agree, NetShapes, NetWide
<1> QED
  BY <1>1, <1>2, <1>3, <1>4, <1>5, NetIDs DEF Only, Agree

-----------------------------------------------------------------------------
(* The security rules.                                                 *)
LEMMA SecIDs ==
  DOMAIN SecShapes = {"SEC001", "SEC002", "SEC003", "SEC004", "SEC005", "SEC006", "SEC007", "SEC008", "SEC009",
                      "SEC010", "SEC011", "SEC012", "SEC013", "SEC014"}
BY DEF SecShapes

\* What a result of theirs can tell, and what keeps a rule from passing.
SecTells(r) ==
    IF r = "SEC014" THEN {"noted"} ELSE {"noted", "cond", "scope"} \cup Mark(r = "SEC008", "missing")
SecDoubts(r) ==
    IF r = "SEC014" THEN {} ELSE {"noted", "cond", "scope", "open"} \cup Mark(r = "SEC010", "skip")

\* Every security rule settles.
LEMMA SecSettles ==
  ASSUME NEW r \in DOMAIN SecShapes, NEW s \in SecShapes[r], NEW f, NEW g, Kin(s, SecStated, f, g)
  PROVE  Settling(r, SecTells(r), SecDoubts(r), {}, {}, SecMarks(r, f), SecMarks(r, g))
<1> USE DEF Settling, Kin, Fits, Marks, Violates, Findings, Unjudged, Open, Absent, Mark, Flag, SecShapes,
        SecStated, SecMarks, SecTells, SecDoubts
<1>1. CASE r = "SEC001"
  BY <1>1 DEF SEC001, LinkedOnly, Settled, FindingsAlone
<1>2. CASE r = "SEC002"
  BY <1>2 DEF SEC002, LinkedOnly, Settled, FindingsAlone
<1>3. CASE r = "SEC003"
  BY <1>3 DEF SEC003, LinkedOnly, Settled, FindingsAlone
<1>4. CASE r = "SEC004"
  BY <1>4 DEF SEC004, Settled, FindingsAlone
<1>5. CASE r = "SEC005"
  BY <1>5 DEF SEC005, LinkedOnly, Settled, FindingsAlone, NotInformed, ExpressionIsNotTheFault
<1>6. CASE r = "SEC006"
  BY <1>6 DEF SEC006, Settled, LinkedOnly
<1>7. CASE r = "SEC007"
  BY <1>7 DEF SEC007, Settled, SEC007Deployment, SEC007Agent, AzdRelease
<1>8. CASE r = "SEC008"
  BY <1>8 DEF SEC008, Settled
<1>9. CASE r = "SEC009"
  BY <1>9 DEF SEC009, Settled, FindingsAlone
<1>10. CASE r = "SEC010"
  BY <1>10 DEF SEC010, LinkedOnly, Settled, CustomerKeys, FindingsAlone
<1>11. CASE r = "SEC011"
  BY <1>11 DEF SEC011, SEC011Network, SEC011Account,
      NotStanding, ExpressionIsNotTheRemedy, FindingsAlone, NotInformed,
      OneJudgedIsClean
<1>12. CASE r = "SEC012"
  BY <1>12 DEF SEC012, MessageLogging, FindingsAlone, NotInformed, ExpressionIsNotTheFault
<1>13. CASE r = "SEC013"
  BY <1>13 DEF SEC013, TenantPolicy, NotStanding, ExpressionIsNotTheRemedy, FindingsAlone, NotInformed,
      ExpressionIsNotTheFault
<1>14. CASE r = "SEC014"
  BY <1>14 DEF SEC014, OutputValue, OutputName
<1> QED
  BY <1>1, <1>2, <1>3, <1>4, <1>5, <1>6, <1>7, <1>8, <1>9, <1>10, <1>11, <1>12, <1>13, <1>14, SecIDs

\* What they conclude of any marks is lawful,
LEMMA SecLawful ==
  ASSUME NEW r \in DOMAIN SecShapes, NEW marks \in SUBSET Marks
  PROVE  Lawful(r, SecTells(r), marks, SecResult(r, marks))
BY SecIDs
DEF Lawful, Tells, Results, Failed, Clean, Skipped, Inapplicable, FindingsAlone, SecResult, SecAcc,
    Violates, Findings, Unjudged, Marks, Mark, SecTells, SecDoubts

\* and steady for marks that settle.
LEMMA SecSteady ==
  ASSUME NEW r \in DOMAIN SecShapes, NEW before \in SUBSET Marks,
         NEW m \in SUBSET Marks, NEW n \in SUBSET Marks,
         Settling(r, SecTells(r), SecDoubts(r), {}, {}, m, n)
  PROVE  Steady(r, SecResult(r, before \cup m), SecResult(r, before \cup n))
<1>1. ASSUME NEW marks \in SUBSET Marks
      PROVE  SecResult(r, marks).is = "failed" <=> Violates(marks)
  <2>1. SecAcc(marks).is = "failed" <=> Violates(marks)
    <3>1. CASE Violates(marks)
      BY <3>1 DEF SecAcc, Failed
    <3>2. CASE ~Violates(marks)
      BY <3>2 DEF SecAcc, Clean, Skipped
    <3> QED
      BY <3>1, <3>2
  <2> QED
    BY <2>1 DEF SecResult, Failed, Clean, Skipped, Inapplicable, Violates, Findings
<1>2. ASSUME NEW marks \in SUBSET Marks, SecResult(r, marks).is = "clean", r \notin NotInformed
      PROVE  marks \cap (Findings \cup SecDoubts(r)) = {}
  <2>1. SecAcc(marks).is = "clean" => marks \cap (Findings \cup {"noted", "cond", "scope", "open"}) = {}
    BY DEF SecAcc, Failed, Clean, Skipped, Violates, Findings
  <2>2. r \notin {"SEC011", "SEC012", "SEC013"}
    BY <1>2 DEF NotInformed, OneJudgedIsClean, ExpressionIsNotTheFault
  <2>3. CASE r = "SEC014"
    BY <1>2, <2>3 DEF SecResult, Failed, Clean, Skipped, Inapplicable, Violates, Findings, SecDoubts, Mark
  <2>4. CASE r = "SEC010"
    BY <1>2, <2>1, <2>4 DEF SecResult, Failed, Clean, Skipped, Inapplicable, Violates, Findings, SecDoubts, Mark
  <2>5. CASE r \notin {"SEC010", "SEC014"}
    BY <1>2, <2>1, <2>2, <2>5 DEF SecResult, Failed, Clean, Skipped, Inapplicable, Violates, Findings, SecDoubts, Mark
  <2> QED
    BY <2>3, <2>4, <2>5
<1> QED
  BY <1>1, <1>2, before \cup m \in SUBSET Marks, before \cup n \in SUBSET Marks
  DEF Steady, Settling, Violates, Findings

\* What holds for the whole template has one domain, whichever resource it is read of.
LEMMA SecShared ==
  ASSUME NEW r \in DOMAIN SecShapes
  PROVE  Agree(SecShapes[r], SecWide)
<1>1. /\ Only(SecShapes["SEC001"]) /\ Only(SecShapes["SEC002"]) /\ Only(SecShapes["SEC003"])
      /\ Only(SecShapes["SEC004"]) /\ Only(SecShapes["SEC005"])
  BY DEF SecShapes, Only
<1>2. /\ Only(SecShapes["SEC008"]) /\ Only(SecShapes["SEC009"]) /\ Only(SecShapes["SEC012"])
      /\ Only(SecShapes["SEC013"]) /\ Only(SecShapes["SEC014"])
  BY DEF SecShapes, Only
<1>3. Agree(SecShapes["SEC006"], SecWide)
  BY DEF Agree, SecShapes, SecWide
<1>4. Agree(SecShapes["SEC007"], SecWide)
  BY DEF Agree, SecShapes, SecWide
<1>5. Agree(SecShapes["SEC010"], SecWide)
  BY DEF Agree, SecShapes, SecWide
<1>6. Agree(SecShapes["SEC011"], SecWide)
  BY DEF Agree, SecShapes, SecWide
<1> QED
  BY <1>1, <1>2, <1>3, <1>4, <1>5, <1>6, SecIDs DEF Only, Agree

-----------------------------------------------------------------------------
(* The identity rules.                                                 *)
LEMMA IdnIDs ==
  DOMAIN IdnShapes = {"IDN001", "IDN002", "IDN003", "IDN004", "IDN005", "IDN006"}
BY DEF IdnShapes

\* What a result of theirs can tell.
IdnTells(r) == {"noted", "cond", "scope"} \cup Mark(r = "IDN002", "missing")

\* Every identity rule settles.
LEMMA IdnSettles ==
  ASSUME NEW r \in DOMAIN IdnShapes, NEW s \in IdnShapes[r], NEW f, NEW g, Kin(s, IdnStated, f, g)
  PROVE  Settling(r, IdnTells(r),
                  {"noted", "cond", "scope", "open"},
                  {},
                  {},
                  IdnMarks(r, f), IdnMarks(r, g))
<1> USE DEF Settling, Kin, Fits, Marks, Violates, Findings, Unjudged, Open, Absent, Mark, Flag, IdnShapes,
        IdnStated, IdnMarks, IdnTells
<1>1. CASE r = "IDN001"
  BY <1>1 DEF IDN001, Present, CheckIdentity, Identities, Assigned, NotInformed, ExpressionIsNotTheFault
<1>2. CASE r = "IDN002"
  BY <1>2 DEF IDN002, Present, IDN002Store, RoleStatus, StoreLink, NotStanding, ExpressionIsNotTheRemedy
<1>3. CASE r = "IDN003"
  BY <1>3 DEF IDN003, Present
<1>4. CASE r = "IDN004"
  BY <1>4 DEF IDN004, Present, Privileged, IDN004Scope, Principal,
      NotStanding, ExpressionIsNotTheRemedy, FindingsAlone,
      NotInformed, OneJudgedIsClean
<1>5. CASE r = "IDN005"
  BY <1>5 DEF IDN005, NotStanding, ExpressionIsNotTheRemedy, FindingsAlone
<1>6. CASE r = "IDN006"
  BY <1>6 DEF IDN006, IDN006Subject, NotStanding, ExpressionIsNotTheRemedy
<1> QED
  BY <1>1, <1>2, <1>3, <1>4, <1>5, <1>6, IdnIDs

\* What they conclude of any marks is lawful,
LEMMA IdnLawful ==
  ASSUME NEW r \in DOMAIN IdnShapes, NEW marks \in SUBSET Marks
  PROVE  Lawful(r, IdnTells(r), marks, IdnResult(r, marks))
BY IdnIDs
DEF Lawful, Tells, Results, Failed, Clean, Skipped, Inapplicable, FindingsAlone, IdnResult, IdnAcc,
    Violates, Findings, Unjudged, Marks, Mark, IdnTells

\* and steady for marks that settle.
LEMMA IdnSteady ==
  ASSUME NEW r \in DOMAIN IdnShapes, NEW before \in SUBSET Marks,
         NEW m \in SUBSET Marks, NEW n \in SUBSET Marks,
         Settling(r, IdnTells(r),
                  {"noted", "cond", "scope", "open"},
                  {},
                  {},
                  m, n)
  PROVE  Steady(r, IdnResult(r, before \cup m), IdnResult(r, before \cup n))
BY IdnIDs
DEF Steady, Settling, Failed, Clean, Skipped, Inapplicable, NotStanding, ExpressionIsNotTheRemedy, NotInformed,
    OneJudgedIsClean, ReferenceIsTrusted, ExpressionIsNotTheFault, IdnResult, IdnAcc, Violates, Findings,
    Unjudged, Marks, Mark, IdnTells

-----------------------------------------------------------------------------
(* The operations rules.                                               *)
LEMMA OpsIDs ==
  DOMAIN OpsShapes = {"OPS001", "OPS002", "OPS003", "OPS004", "OPS005", "OPS006", "OPS007", "OPS008", "OPS009",
                      "OPS010"}
BY DEF OpsShapes

\* Every operations rule settles.
LEMMA OpsSettles ==
  ASSUME NEW r \in DOMAIN OpsShapes, NEW s \in OpsShapes[r], NEW f, NEW g, Kin(s, OpsStated, f, g)
  PROVE  Settling(r, Unjudged,
                  Unjudged \cup Mark(r = "OPS007", "ok"),
                  IF r = "OPS007" THEN Unjudged \cup {"ok"} ELSE {},
                  IF r = "OPS007" THEN {"ok"} ELSE {},
                  OpsMarks(r, f), OpsMarks(r, g))
<1> USE DEF Settling, Kin, Fits, Marks, Violates, Findings, Unjudged, Open, Absent, Mark, Flag, OpsShapes,
        OpsStated, OpsMarks
<1>1. CASE r = "OPS001"
  BY <1>1 DEF OPS001, OPS001Setting, Live,
      NotStanding, ExpressionIsNotTheRemedy, NotInformed, ExpressionIsNotTheFault
<1>2. CASE r = "OPS002"
  BY <1>2 DEF OPS002, Live, OPS002Component, NotInformed, ExpressionIsNotTheFault
<1>3. CASE r = "OPS003"
  BY <1>3 DEF OPS003
<1>4. CASE r = "OPS004"
  BY <1>4 DEF OPS004, Live
<1>5. CASE r = "OPS005"
  BY <1>5 DEF OPS005, Live
<1>6. CASE r = "OPS006"
  BY <1>6 DEF OPS006, Live
<1>7. CASE r = "OPS007"
  BY <1>7 DEF OPS007, ShellResult, FindingsAlone
<1>8. CASE r = "OPS008"
  BY <1>8 DEF OPS008, OPS008File
<1>9. CASE r = "OPS009"
  <2>1. CASE f.kind = "deployment"
    BY <1>9, <2>1, SMTT(60) DEF OPS009, Live, OPS009Sku
  <2>2. CASE f.kind # "deployment"
    BY <1>9, <2>2, SMTT(60) DEF OPS009, Live
  <2> QED
    BY <2>1, <2>2
<1>10. CASE r = "OPS010"
  BY <1>10 DEF OPS010, Live, ModelLists, NotInformed, ExpressionIsNotTheFault
<1> QED
  BY <1>1, <1>2, <1>3, <1>4, <1>5, <1>6, <1>7, <1>8, <1>9, <1>10, OpsIDs

\* What they conclude of any marks is lawful,
LEMMA OpsLawful ==
  ASSUME NEW r \in DOMAIN OpsShapes, NEW marks \in SUBSET Marks
  PROVE  Lawful(r, Unjudged, marks, OpsResult(r, marks))
BY OpsIDs
DEF Lawful, Tells, Results, Failed, Clean, Skipped, Inapplicable, FindingsAlone, OpsResult, Violates,
    Findings, Unjudged, Marks, Mark

\* and steady for marks that settle.
LEMMA OpsSteady ==
  ASSUME NEW r \in DOMAIN OpsShapes, NEW before \in SUBSET Marks,
         NEW m \in SUBSET Marks, NEW n \in SUBSET Marks,
         Settling(r, Unjudged,
                  Unjudged \cup Mark(r = "OPS007", "ok"),
                  IF r = "OPS007" THEN Unjudged \cup {"ok"} ELSE {},
                  IF r = "OPS007" THEN {"ok"} ELSE {},
                  m, n)
  PROVE  Steady(r, OpsResult(r, before \cup m), OpsResult(r, before \cup n))
BY OpsIDs
DEF Steady, Settling, Failed, Clean, Skipped, Inapplicable, NotStanding, ExpressionIsNotTheRemedy, NotInformed,
    OneJudgedIsClean, ReferenceIsTrusted, ExpressionIsNotTheFault, OpsResult, Violates, Findings, Unjudged,
    Marks, Mark

\* What holds for the whole template has one domain, whichever resource it is read of.
LEMMA OpsShared ==
  ASSUME NEW r \in DOMAIN OpsShapes
  PROVE  Agree(OpsShapes[r], OpsWide)
<1>1. /\ Only(OpsShapes["OPS001"]) /\ Only(OpsShapes["OPS002"]) /\ Only(OpsShapes["OPS003"])
      /\ Only(OpsShapes["OPS004"]) /\ Only(OpsShapes["OPS005"])
  BY DEF OpsShapes, Only
<1>2. /\ Only(OpsShapes["OPS007"]) /\ Only(OpsShapes["OPS008"])
  BY DEF OpsShapes, Only
<1>3. Agree(OpsShapes["OPS006"], OpsWide)
  BY DEF Agree, OpsShapes, OpsWide
<1>4. Agree(OpsShapes["OPS009"], OpsWide)
  BY DEF Agree, OpsShapes, OpsWide
<1>5. Agree(OpsShapes["OPS010"], OpsWide)
  BY DEF Agree, OpsShapes, OpsWide
<1> QED
  BY <1>1, <1>2, <1>3, <1>4, <1>5, OpsIDs DEF Only, Agree

-----------------------------------------------------------------------------
(* The reliability rules.                                              *)
LEMMA RelIDs ==
  DOMAIN RelShapes = {"REL001", "REL002", "REL003", "REL004", "REL005", "REL006", "REL007", "REL008", "REL009"}
BY DEF RelShapes

\* Every reliability rule settles.
LEMMA RelSettles ==
  ASSUME NEW r \in DOMAIN RelShapes, NEW s \in RelShapes[r], NEW f, NEW g, Kin(s, RelStated, f, g)
  PROVE  Settling(r, {"noted", "cond"},
                  {"noted", "cond", "exempt"},
                  {},
                  {},
                  RelMarks(r, f), RelMarks(r, g))
<1> USE DEF Settling, Kin, Fits, Marks, Violates, Findings, Unjudged, Open, Absent, Mark, Flag, RelShapes,
        RelStated, RelMarks
<1>1. CASE r = "REL001"
  BY <1>1 DEF REL001, OfType, NotStanding, ExpressionIsNotTheRemedy
<1>2. CASE r = "REL002"
  BY <1>2 DEF REL002, OfType
<1>3. CASE r = "REL003"
  BY <1>3 DEF REL003, OfType, NotStanding, ExpressionIsNotTheRemedy
<1>4. CASE r = "REL004"
  BY <1>4 DEF REL004, OfType, Covers
<1>5. CASE r = "REL005"
  BY <1>5 DEF REL005, OfType, NotStanding, ExpressionIsNotTheRemedy, NotInformed, ExpressionIsNotTheFault
<1>6. CASE r = "REL006"
  BY <1>6 DEF REL006, NotStanding, ExpressionIsNotTheRemedy, NotInformed, ExpressionIsNotTheFault
<1>7. CASE r = "REL007"
  BY <1>7 DEF REL007, OfType
<1>8. CASE r = "REL008"
  BY <1>8 DEF REL008, OfType, REL008Target, NotInformed, ExpressionIsNotTheFault
<1>9. CASE r = "REL009"
  BY <1>9 DEF REL009, Zonal, OfType, NotStanding, ExpressionIsNotTheRemedy
<1> QED
  BY <1>1, <1>2, <1>3, <1>4, <1>5, <1>6, <1>7, <1>8, <1>9, RelIDs

\* What they conclude of any marks is lawful,
LEMMA RelLawful ==
  ASSUME NEW r \in DOMAIN RelShapes, NEW marks \in SUBSET Marks
  PROVE  Lawful(r, {"noted", "cond"}, marks, RelResult(r, marks))
BY RelIDs
DEF Lawful, Tells, Results, Failed, Clean, Skipped, Inapplicable, FindingsAlone, RelResult, Violates,
    Findings, Unjudged, Marks, Mark

\* and steady for marks that settle.
LEMMA RelSteady ==
  ASSUME NEW r \in DOMAIN RelShapes, NEW before \in SUBSET Marks,
         NEW m \in SUBSET Marks, NEW n \in SUBSET Marks,
         Settling(r, {"noted", "cond"},
                  {"noted", "cond", "exempt"},
                  {},
                  {},
                  m, n)
  PROVE  Steady(r, RelResult(r, before \cup m), RelResult(r, before \cup n))
BY RelIDs
DEF Steady, Settling, Failed, Clean, Skipped, Inapplicable, NotStanding, ExpressionIsNotTheRemedy, NotInformed,
    OneJudgedIsClean, ReferenceIsTrusted, ExpressionIsNotTheFault, RelResult, Violates, Findings, Unjudged,
    Marks, Mark

\* What holds for the whole template has one domain, whichever resource it is read of.
LEMMA RelShared ==
  ASSUME NEW r \in DOMAIN RelShapes
  PROVE  Agree(RelShapes[r], RelWide)
<1>1. /\ Only(RelShapes["REL001"]) /\ Only(RelShapes["REL002"]) /\ Only(RelShapes["REL003"])
      /\ Only(RelShapes["REL004"]) /\ Only(RelShapes["REL005"])
  BY DEF RelShapes, Only
<1>2. /\ Only(RelShapes["REL006"]) /\ Only(RelShapes["REL008"]) /\ Only(RelShapes["REL009"])
  BY DEF RelShapes, Only
<1>3. Agree(RelShapes["REL007"], RelWide)
  BY DEF Agree, RelShapes, RelWide
<1> QED
  BY <1>1, <1>2, <1>3, RelIDs DEF Only, Agree

-----------------------------------------------------------------------------
(* The cost rules.                                                     *)
LEMMA CostIDs ==
  DOMAIN CostShapes = {"COST001", "COST002", "COST003", "COST004"}
BY DEF CostShapes

\* Every cost rule settles.
LEMMA CostSettles ==
  ASSUME NEW r \in DOMAIN CostShapes, NEW s \in CostShapes[r], NEW f, NEW g, Kin(s, CostStated, f, g)
  PROVE  Settling(r, {"open", "cond", "skip"},
                  {"open", "cond", "skip", "missing"},
                  {},
                  IF r = "COST003" THEN {"ok"} ELSE {},
                  CostMarks(r, f), CostMarks(r, g))
<1> USE DEF Settling, Kin, Fits, Marks, Violates, Findings, Unjudged, Open, Absent, Mark, Flag, CostShapes,
        CostStated, CostMarks
<1>1. CASE r = "COST001"
  BY <1>1 DEF COST001, LiveOnly, COST001Notice, NotStanding, ExpressionIsNotTheRemedy, FindingsAlone, NotInformed,
      OneJudgedIsClean
<1>2. CASE r = "COST002"
  BY <1>2 DEF COST002, LiveOnly, COST002Size, COST002Throughput, Profiles, SpendLimit,
      NotStanding, ExpressionIsNotTheRemedy
<1>3. CASE r = "COST003"
  BY <1>3 DEF COST003, NotInformed, ExpressionIsNotTheFault
<1>4. CASE r = "COST004"
  BY <1>4 DEF COST004, LiveOnly, COST004Resource, Estimated, CosmosThroughput, EstimateRuns,
      NotStanding, ExpressionIsNotTheRemedy
<1> QED
  BY <1>1, <1>2, <1>3, <1>4, CostIDs

\* What they conclude of any marks is lawful,
LEMMA CostLawful ==
  ASSUME NEW r \in DOMAIN CostShapes, NEW marks \in SUBSET Marks
  PROVE  Lawful(r, {"open", "cond", "skip"}, marks, CostResult(r, marks))
BY CostIDs
DEF Lawful, Tells, Results, Failed, Clean, Skipped, Inapplicable, FindingsAlone, CostResult,
    Violates, Findings, Unjudged, Marks, Mark

\* and steady for marks that settle.
LEMMA CostSteady ==
  ASSUME NEW r \in DOMAIN CostShapes, NEW before \in SUBSET Marks,
         NEW m \in SUBSET Marks, NEW n \in SUBSET Marks,
         Settling(r, {"open", "cond", "skip"},
                  {"open", "cond", "skip", "missing"},
                  {},
                  IF r = "COST003" THEN {"ok"} ELSE {},
                  m, n)
  PROVE  Steady(r, CostResult(r, before \cup m), CostResult(r, before \cup n))
BY CostIDs
DEF Steady, Settling, Failed, Clean, Skipped, Inapplicable, NotStanding, ExpressionIsNotTheRemedy, NotInformed,
    OneJudgedIsClean, ReferenceIsTrusted, ExpressionIsNotTheFault, CostResult, Violates, Findings, Unjudged,
    Marks, Mark

\* What holds for the whole template has one domain, whichever resource it is read of.
LEMMA CostShared ==
  ASSUME NEW r \in DOMAIN CostShapes
  PROVE  Agree(CostShapes[r], CostWide)
<1>1. /\ Only(CostShapes["COST003"])
  BY DEF CostShapes, Only
<1>2. Agree(CostShapes["COST001"], CostWide)
  BY DEF Agree, CostShapes, CostWide
<1>3. Agree(CostShapes["COST002"], CostWide)
  BY DEF Agree, CostShapes, CostWide
<1>4. Agree(CostShapes["COST004"], CostWide)
  BY DEF Agree, CostShapes, CostWide
<1> QED
  BY <1>1, <1>2, <1>3, <1>4, CostIDs DEF Only, Agree

-----------------------------------------------------------------------------
(* The environment rules.                                              *)
LEMMA EnvIDs ==
  DOMAIN EnvShapes = {"ENV001", "ENV002", "ENV003", "ENV004"}
BY DEF EnvShapes

\* Every environment rule settles.
LEMMA EnvSettles ==
  ASSUME NEW r \in DOMAIN EnvShapes, NEW s \in EnvShapes[r], NEW f, NEW g, Kin(s, EnvStated, f, g)
  PROVE  Settling(r, {"noted"}, {"noted", "exempt"}, {"exempt"}, {}, EnvMarks(r, f), EnvMarks(r, g))
<1> USE DEF Settling, Kin, Fits, Marks, Violates, Findings, Unjudged, Open, Absent, Mark, Flag, EnvShapes,
        EnvStated, EnvMarks
<1>1. CASE r = "ENV001"
  BY <1>1 DEF ENV001, OfPair, Readable
<1>2. CASE r = "ENV002"
  BY <1>2 DEF ENV002, OfPair, Readable
<1>3. CASE r = "ENV003"
  BY <1>3 DEF ENV003, OfPair, Tier, Readable
<1>4. CASE r = "ENV004"
  BY <1>4 DEF ENV004, OfPair, Readable
<1> QED
  BY <1>1, <1>2, <1>3, <1>4, EnvIDs

\* What they conclude of any marks is lawful,
LEMMA EnvLawful ==
  ASSUME NEW r \in DOMAIN EnvShapes, NEW marks \in SUBSET Marks
  PROVE  Lawful(r, {"noted"}, marks, EnvResult(r, marks))
BY EnvIDs
DEF Lawful, Tells, Results, Failed, Clean, Skipped, Inapplicable, FindingsAlone, EnvResult, Violates,
    Findings, Unjudged, Marks, Mark

\* and steady for marks that settle.
LEMMA EnvSteady ==
  ASSUME NEW r \in DOMAIN EnvShapes, NEW before \in SUBSET Marks,
         NEW m \in SUBSET Marks, NEW n \in SUBSET Marks,
         Settling(r, {"noted"}, {"noted", "exempt"}, {"exempt"}, {}, m, n)
  PROVE  Steady(r, EnvResult(r, before \cup m), EnvResult(r, before \cup n))
BY EnvIDs
DEF Steady, Settling, Failed, Clean, Skipped, Inapplicable, NotStanding, ExpressionIsNotTheRemedy, NotInformed,
    OneJudgedIsClean, ReferenceIsTrusted, ExpressionIsNotTheFault, EnvResult, Violates, Findings, Unjudged,
    Marks, Mark

\* What holds for the whole template has one domain, whichever resource it is read of.
LEMMA EnvShared ==
  ASSUME NEW r \in DOMAIN EnvShapes
  PROVE  Agree(EnvShapes[r], EnvWide)
<1>1. /\ Only(EnvShapes["ENV001"]) /\ Only(EnvShapes["ENV002"]) /\ Only(EnvShapes["ENV003"])
      /\ Only(EnvShapes["ENV004"])
  BY DEF EnvShapes, Only
<1> QED
  BY <1>1, EnvIDs DEF Only, Agree

-----------------------------------------------------------------------------
(* The gateway rules.                                                  *)
LEMMA GwIDs ==
  DOMAIN GwShapes = {"GW001", "GW002", "GW003", "GW004", "GW005", "GW006"}
BY DEF GwShapes

\* What is in effect for a caller that comes with a product, or with none.
Ruled(f, product) ==
    LET path == <<f.service, product, f.api>>
    IN IF \E i \in 1..3 : path[i] = Open THEN Open ELSE InEffect(path)

\* An API has two callers, so at most two policies are in effect at it.
LEMMA EffectiveAre ==
  ASSUME NEW f
  PROVE  EffectivePolicies(f) = {Ruled(f, Absent), Ruled(f, f.product)}
BY DEF EffectivePolicies, Paths, Ruled

\* A policy in effect that could be read stays in effect when the documents
\* that could not be read are known: it was read with the whole path at hand.
LEMMA RuledStands ==
  ASSUME NEW f, NEW g, \A x \in {"service", "product", "api"} : g[x] = f[x] \/ f[x] = Open
  PROVE  /\ Ruled(f, Absent) \in {Open, Ruled(g, Absent)}
         /\ Ruled(f, f.product) \in {Open, Ruled(g, g.product)}
<1>1. f.service # Open => g.service = f.service
  OBVIOUS
<1>2. f.product # Open => g.product = f.product
  OBVIOUS
<1>3. f.api # Open => g.api = f.api
  OBVIOUS
<1>4. ASSUME NEW product
      PROVE  Open \in {f.service, product, f.api} => Ruled(f, product) = Open
  BY 1 \in 1 .. 3, 2 \in 1 .. 3, 3 \in 1 .. 3 DEF Ruled
<1> QED
  BY <1>1, <1>2, <1>3, <1>4 DEF Ruled

\* The marks of a gateway rule settle, rule by rule.
LEMMA GW001Settles ==
  ASSUME NEW s \in GwShapes["GW001"], NEW f, NEW g, Kin(s, GwStated, f, g)
  PROVE  Settling("GW001", Unjudged, Marks \ {"ok"}, {}, {}, GW001(f), GW001(g))
<1>1. /\ \A x \in {"service", "product", "api"} : g[x] = f[x] \/ (f[x] = Open /\ g[x] # Absent)
      /\ g.version = f.version
      /\ g.backing = f.backing \/ f.backing = Open
  BY DEF Kin, Fits, GwShapes, GwStated, Documents, TokenPolicies, GwVersions, Open, Absent
<1>2. /\ Ruled(f, Absent) \in {Open, Ruled(g, Absent)}
      /\ Ruled(f, f.product) \in {Open, Ruled(g, g.product)}
  BY <1>1, RuledStands
<1>3. TokenCheck(Open) # "fail"
  BY DEF TokenCheck, Open
<1> DEFINE Checks(x) == {TokenCheck(policy) : policy \in EffectivePolicies(x)}
<1>4. Checks(f) = {"fail"} => Checks(g) = {"fail"}
  <2> HAVE Checks(f) = {"fail"}
  <2>1. TokenCheck(Ruled(f, Absent)) = "fail" /\ TokenCheck(Ruled(f, f.product)) = "fail"
    BY EffectiveAre
  <2>2. TokenCheck(Ruled(g, Absent)) = "fail" /\ TokenCheck(Ruled(g, g.product)) = "fail"
    BY <2>1, <1>2, <1>3
  <2> QED
    BY <2>2, EffectiveAre
<1>5. \A x \in {f, g} : GW001(x) = ModelAPI(x, PerAPI(x, Checks(x)))
  BY DEF GW001
<1> HIDE DEF Checks
<1> QED
  BY <1>1, <1>4, <1>5
  DEF Settling, Marks, Violates, Findings, Unjudged, Mark, ModelAPI, PerAPI, Verified, FindingsAlone, NotInformed,
      ExpressionIsNotTheFault, Open, Absent

LEMMA GW002Settles ==
  ASSUME NEW s \in GwShapes["GW002"], NEW f, NEW g, Kin(s, GwStated, f, g)
  PROVE  Settling("GW002", Unjudged, Marks \ {"ok"}, {}, {}, GW002(f), GW002(g))
<1>1. /\ \A x \in {"service", "product", "api"} : g[x] = f[x] \/ (f[x] = Open /\ g[x] # Absent)
      /\ g.version = f.version
      /\ g.backing = f.backing \/ f.backing = Open
      /\ g.sku = f.sku \/ f.sku = Open
  BY DEF Kin, Fits, GwShapes, GwStated, Documents, LimitPolicies, GwVersions, Open, Absent
<1>2. /\ Ruled(f, Absent) \in {Open, Ruled(g, Absent)}
      /\ Ruled(f, f.product) \in {Open, Ruled(g, g.product)}
  BY <1>1, RuledStands
<1>3. \A policy : LimitCheck(f, policy) = "fail" => policy # Open /\ LimitCheck(g, policy) = "fail"
  BY <1>1 DEF LimitCheck, Open
<1> DEFINE Limits(x) == {LimitCheck(x, policy) : policy \in EffectivePolicies(x)}
<1>4. Limits(f) = {"fail"} => Limits(g) = {"fail"}
  <2> HAVE Limits(f) = {"fail"}
  <2>1. LimitCheck(f, Ruled(f, Absent)) = "fail" /\ LimitCheck(f, Ruled(f, f.product)) = "fail"
    BY EffectiveAre
  <2>2. LimitCheck(g, Ruled(g, Absent)) = "fail" /\ LimitCheck(g, Ruled(g, g.product)) = "fail"
    BY <2>1, <1>2, <1>3
  <2> QED
    BY <2>2, EffectiveAre
<1>5. \A x \in {f, g} : GW002(x) = ModelAPI(x, PerAPI(x, Limits(x)))
  BY DEF GW002
<1> HIDE DEF Limits
<1> QED
  BY <1>1, <1>4, <1>5
  DEF Settling, Marks, Violates, Findings, Unjudged, Mark, ModelAPI, PerAPI, Verified, FindingsAlone, NotInformed,
      ExpressionIsNotTheFault, Open, Absent

LEMMA GW003Settles ==
  ASSUME NEW s \in GwShapes["GW003"], NEW f, NEW g, Kin(s, GwStated, f, g)
  PROVE  Settling("GW003", Unjudged, Marks \ {"ok"}, {}, {}, GW003(f), GW003(g))
<1>1. CASE f.kind = "pool"
  <2>1. g.kind = "pool" /\ (f.member # Open => g.member = f.member)
    BY <1>1 DEF Kin, Fits, GwShapes, GwStated, Open
  <2>2. GW003(f) = PoolMember(f) /\ GW003(g) = PoolMember(g)
    BY <1>1, <2>1 DEF GW003
  <2> QED
    BY <2>1, <2>2
    DEF Settling, PoolMember, Open, Marks, Violates, Findings, Unjudged, Mark, FindingsAlone
<1>2. CASE f.kind # "pool"
  <2>1. /\ \A x \in {"service", "product", "api"} : g[x] = f[x] \/ (f[x] = Open /\ g[x] # Absent)
        /\ g.version = f.version /\ g.kind = f.kind
        /\ g.serviceUrl = f.serviceUrl \/ (f.serviceUrl = Open /\ g.serviceUrl # Absent)
    BY <1>2 DEF Kin, Fits, GwShapes, GwStated, Documents, BackendPolicies, GwVersions, Open, Absent
  <2>2. /\ Ruled(f, Absent) \in {Open, Ruled(g, Absent)}
        /\ Ruled(f, f.product) \in {Open, Ruled(g, g.product)}
    BY <2>1, RuledStands
  <2>3. \A policy : /\ BackendCheck(f, policy) \in {"pass", "fail", "unsure"}
                    /\ BackendCheck(f, policy) # "unsure" =>
                         policy # Open /\ BackendCheck(g, policy) = BackendCheck(f, policy)
    BY <2>1 DEF BackendCheck, Open, Absent
  <2> DEFINE Backends(x) == {BackendCheck(x, policy) : policy \in EffectivePolicies(x)}
  <2>4. ASSUME NEW verdict \in {"pass", "fail"}, Backends(f) = {verdict}
        PROVE  Backends(g) = {verdict}
    <3>1. BackendCheck(f, Ruled(f, Absent)) = verdict /\ BackendCheck(f, Ruled(f, f.product)) = verdict
      BY <2>4, EffectiveAre
    <3>2. BackendCheck(g, Ruled(g, Absent)) = verdict /\ BackendCheck(g, Ruled(g, g.product)) = verdict
      BY <3>1, <2>2, <2>3
    <3> QED
      BY <3>2, EffectiveAre
  <2>5. Backends(f) \cap {"fail", "unsure"} = {} => Backends(f) = {"pass"}
    BY <2>3, EffectiveAre
  <2>6. \A x \in {f, g} : GW003(x) = {"ok"} \cup PerAPI(x, Backends(x))
    BY <1>2, <2>1 DEF GW003
  <2> HIDE DEF Backends
  <2> QED
    BY <2>1, <2>4, <2>5, <2>6
    DEF Settling, Marks, Violates, Findings, Unjudged, Mark, PerAPI, Verified, FindingsAlone, Open, Absent
<1> QED
  BY <1>1, <1>2

LEMMA GW005Settles ==
  ASSUME NEW s \in GwShapes["GW005"], NEW f, NEW g, Kin(s, GwStated, f, g)
  PROVE  Settling("GW005", Unjudged, Marks \ {"ok"}, {}, {}, GW005(f), GW005(g))
<1>1. /\ \A x \in {"service", "product", "api"} : g[x] = f[x] \/ (f[x] = Open /\ g[x] # Absent)
      /\ \A x \in {"backing", "identity", "client", "role"} : g[x] = f[x] \/ (f[x] = Open /\ g[x] # Absent)
      /\ g.version = f.version /\ g.keyed = f.keyed /\ g.keyed \in {"yes", "no"}
  BY DEF Kin, Fits, GwShapes, GwStated, Open, Absent, ClientId, RoleCoverage
<1>2. /\ Ruled(f, Absent) \in {Open, Ruled(g, Absent)}
      /\ Ruled(f, f.product) \in {Open, Ruled(g, g.product)}
  BY <1>1, RuledStands
<1>3. \A policy : IdentityCheck(f, policy) = "fail" => policy # Open /\ IdentityCheck(g, policy) = "fail"
  BY <1>1 DEF IdentityCheck, Open, Absent
<1> DEFINE Checks(x) == {IdentityCheck(x, policy) : policy \in EffectivePolicies(x)}
<1>4. Checks(f) = {"fail"} => Checks(g) = {"fail"}
  <2> HAVE Checks(f) = {"fail"}
  <2>1. IdentityCheck(f, Ruled(f, Absent)) = "fail" /\ IdentityCheck(f, Ruled(f, f.product)) = "fail"
    BY EffectiveAre
  <2>2. IdentityCheck(g, Ruled(g, Absent)) = "fail" /\ IdentityCheck(g, Ruled(g, g.product)) = "fail"
    BY <2>1, <1>2, <1>3
  <2> QED
    BY <2>2, EffectiveAre
<1>5. \A x \in {f, g} : GW005(x) = ModelAPI(x, Mark(x.identity = Absent /\ x.version = "verified", "bad")
                                                \cup PerAPI(x, Checks(x)))
  BY DEF GW005
<1> HIDE DEF Checks
<1> QED
  BY <1>1, <1>4, <1>5
  DEF Settling, Marks, Violates, Findings, Unjudged, Mark, ModelAPI, PerAPI, Verified, FindingsAlone, NotInformed,
      ExpressionIsNotTheFault, Open, Absent

LEMMA GW006Settles ==
  ASSUME NEW s \in GwShapes["GW006"], NEW f, NEW g, Kin(s, GwStated, f, g)
  PROVE  Settling("GW006", Unjudged, Marks \ {"ok"}, {}, {}, GW006(f), GW006(g))
<1>1. /\ \A x \in {"service", "product", "api"} : g[x] = f[x] \/ (f[x] = Open /\ g[x] # Absent)
      /\ g.version = f.version
      /\ g.diagnostic = f.diagnostic \/ f.diagnostic = Open
  BY DEF Kin, Fits, GwShapes, GwStated, Documents, MetricPolicies, Diagnostics, GwVersions, Open, Absent
<1>2. /\ Ruled(f, Absent) \in {Open, Ruled(g, Absent)}
      /\ Ruled(f, f.product) \in {Open, Ruled(g, g.product)}
  BY <1>1, RuledStands
<1> QED
  BY <1>1, <1>2, EffectiveAre
  DEF Settling, Marks, Violates, Findings, Unjudged, Mark, GW006, Verified, FindingsAlone, Open, Absent

\* Every gateway rule settles.
LEMMA GwSettles ==
  ASSUME NEW r \in DOMAIN GwShapes, NEW s \in GwShapes[r], NEW f, NEW g, Kin(s, GwStated, f, g)
  PROVE  Settling(r, Unjudged, Marks \ {"ok"}, {}, {}, GwMarks(r, f), GwMarks(r, g))
<1>1. CASE r = "GW001"
  BY <1>1, GW001Settles DEF GwMarks
<1>2. CASE r = "GW002"
  BY <1>2, GW002Settles DEF GwMarks
<1>3. CASE r = "GW003"
  BY <1>3, GW003Settles DEF GwMarks
<1>4. CASE r = "GW004"
  BY <1>4 DEF Settling, Kin, Fits, Marks, Violates, Findings, Unjudged, Open, Absent, Mark, Flag, GwShapes,
      GwStated, GwMarks, GW004, Verified, FindingsAlone
<1>5. CASE r = "GW005"
  BY <1>5, GW005Settles DEF GwMarks
<1>6. CASE r = "GW006"
  BY <1>6, GW006Settles DEF GwMarks
<1> QED
  BY <1>1, <1>2, <1>3, <1>4, <1>5, <1>6, GwIDs

\* What they conclude of any marks is lawful,
LEMMA GwLawful ==
  ASSUME NEW r \in DOMAIN GwShapes, NEW marks \in SUBSET Marks
  PROVE  Lawful(r, Unjudged, marks, GwResult(r, marks))
BY GwIDs
DEF Lawful, Tells, Results, Failed, Clean, Skipped, Inapplicable, FindingsAlone, GwResult, Violates,
    Findings, Unjudged, Marks, Mark

\* and steady for marks that settle.
LEMMA GwSteady ==
  ASSUME NEW r \in DOMAIN GwShapes, NEW before \in SUBSET Marks,
         NEW m \in SUBSET Marks, NEW n \in SUBSET Marks,
         Settling(r, Unjudged, Marks \ {"ok"}, {}, {}, m, n)
  PROVE  Steady(r, GwResult(r, before \cup m), GwResult(r, before \cup n))
BY GwIDs
DEF Steady, Settling, Failed, Clean, Skipped, Inapplicable, NotStanding, ExpressionIsNotTheRemedy, NotInformed,
    OneJudgedIsClean, ReferenceIsTrusted, ExpressionIsNotTheFault, GwResult, Violates, Findings, Unjudged,
    Marks, Mark

-----------------------------------------------------------------------------
(* The Foundry IQ rules.                                               *)
LEMMA IqIDs ==
  DOMAIN IqShapes = {"IQ001", "IQ002", "IQ003", "IQ004", "IQ005", "IQ006", "IQ007", "IQ008", "IQ009", "IQ010",
                      "IQ011", "IQ012"}
BY DEF IqShapes

\* Every Foundry IQ rule settles.
LEMMA IqSettles ==
  ASSUME NEW r \in DOMAIN IqShapes, NEW s \in IqShapes[r], NEW f, NEW g, Kin(s, IqStated, f, g)
  PROVE  Settling(r, Unjudged, Marks \ {"ok"}, {}, {}, IqMarks(r, f), IqMarks(r, g))
<1> USE DEF Settling, Kin, Fits, Marks, Violates, Findings, Unjudged, Open, Absent, Mark, Flag, IqShapes,
        IqStated, IqMarks
<1>1. CASE r = "IQ001"
  BY <1>1 DEF IQ001, OnPlane, Backed, Known, Plane, IqVersion, ODataFilter, FindingsAlone
<1>2. CASE r = "IQ002"
  BY <1>2 DEF IQ002, OnPlane, Backed, Known, Plane, IqVersion, Fitness, FindingsAlone
<1>3. CASE r = "IQ003"
  BY <1>3 DEF IQ003, OnPlane, Known, Plane, IqVersion, Fitness, ModelRange, FindingsAlone
<1>4. CASE r = "IQ004"
  BY <1>4 DEF IQ004, OnPlane, Known, Plane, IqVersion, ModelRange, FindingsAlone, NotInformed,
      ExpressionIsNotTheFault
<1>5. CASE r = "IQ005"
  BY <1>5 DEF IQ005, OnPlane, Reasoning, SourceLimit, Plane, FindingsAlone, NotInformed, ExpressionIsNotTheFault
<1>6. CASE r = "IQ006"
  BY <1>6 DEF IQ006, OnPlane, Known, Plane, IqVersion, Fitness, FindingsAlone
<1>7. CASE r = "IQ007"
  BY <1>7 DEF IQ007, OnPlane, Known, PlanningModel, Plane, IqVersion, FindingsAlone
<1>8. CASE r = "IQ008"
  BY <1>8 DEF IQ008, IQ008Connection, OnPlane, Known, IQ008Source, ModelKey, Plane, IqVersion,
      NotStanding, ExpressionIsNotTheRemedy, FindingsAlone
<1>9. CASE r = "IQ009"
  BY <1>9 DEF IQ009, OnPlane, Plane, FindingsAlone
<1>10. CASE r = "IQ010"
  BY <1>10 DEF IQ010, OnPlane, Known, Plane, IqVersion, FindingsAlone
<1>11. CASE r = "IQ011"
  BY <1>11 DEF IQ011, OnPlane, Known, Plane, IqVersion, IntervalKind, FindingsAlone
<1>12. CASE r = "IQ012"
  BY <1>12 DEF IQ012, Ranker, Plane, NotStanding, ExpressionIsNotTheRemedy, FindingsAlone, NotInformed,
      ExpressionIsNotTheFault
<1> QED
  BY <1>1, <1>2, <1>3, <1>4, <1>5, <1>6, <1>7, <1>8, <1>9, <1>10, <1>11, <1>12, IqIDs

\* What they conclude of any marks is lawful,
LEMMA IqLawful ==
  ASSUME NEW r \in DOMAIN IqShapes, NEW marks \in SUBSET Marks
  PROVE  Lawful(r, Unjudged, marks, IqResult(r, marks))
BY IqIDs
DEF Lawful, Tells, Results, Failed, Clean, Skipped, Inapplicable, FindingsAlone, IqResult, Violates,
    Findings, Unjudged, Marks, Mark

\* and steady for marks that settle.
LEMMA IqSteady ==
  ASSUME NEW r \in DOMAIN IqShapes, NEW before \in SUBSET Marks,
         NEW m \in SUBSET Marks, NEW n \in SUBSET Marks,
         Settling(r, Unjudged, Marks \ {"ok"}, {}, {}, m, n)
  PROVE  Steady(r, IqResult(r, before \cup m), IqResult(r, before \cup n))
BY IqIDs
DEF Steady, Settling, Failed, Clean, Skipped, Inapplicable, NotStanding, ExpressionIsNotTheRemedy, NotInformed,
    OneJudgedIsClean, ReferenceIsTrusted, ExpressionIsNotTheFault, IqResult, Violates, Findings, Unjudged,
    Marks, Mark

\* What holds for the whole template has one domain, whichever resource it is read of.
LEMMA IqShared ==
  ASSUME NEW r \in DOMAIN IqShapes
  PROVE  Agree(IqShapes[r], IqWide)
<1>1. /\ Only(IqShapes["IQ001"]) /\ Only(IqShapes["IQ002"]) /\ Only(IqShapes["IQ003"])
      /\ Only(IqShapes["IQ004"]) /\ Only(IqShapes["IQ005"])
  BY DEF IqShapes, Only
<1>2. /\ Only(IqShapes["IQ006"]) /\ Only(IqShapes["IQ009"]) /\ Only(IqShapes["IQ010"])
      /\ Only(IqShapes["IQ011"]) /\ Only(IqShapes["IQ012"])
  BY DEF IqShapes, Only
<1>3. Agree(IqShapes["IQ007"], IqWide)
  BY DEF Agree, IqShapes, IqWide
<1>4. Agree(IqShapes["IQ008"], IqWide)
  BY DEF Agree, IqShapes, IqWide
<1> QED
  BY <1>1, <1>2, <1>3, <1>4, IqIDs DEF Only, Agree

-----------------------------------------------------------------------------
(* The runtime rules.                                                  *)
LEMMA RunIDs ==
  DOMAIN RunShapes = {"RUN001", "RUN002", "RUN003", "RUN004", "RUN005", "RUN006", "RUN007", "RUN008"}
BY DEF RunShapes

\* Every runtime rule settles.
LEMMA RunSettles ==
  ASSUME NEW r \in DOMAIN RunShapes, NEW s \in RunShapes[r], NEW f, NEW g, Kin(s, RunStated, f, g)
  PROVE  Settling(r, Unjudged, Marks \ {"ok"}, {"missing"}, {}, RunMarks(r, f), RunMarks(r, g))
<1> USE DEF Settling, Kin, Fits, Marks, Violates, Findings, Unjudged, Open, Absent, Mark, Flag, RunShapes,
        RunStated, RunMarks
<1>1. CASE r = "RUN001"
  <2>1. /\ g.live = f.live \/ (f.live = Open /\ g.live = "read")
        /\ f.live \in {Open, "read"}
        /\ g.auth = f.auth /\ g.target = f.target
        /\ f.target = "cosmos" => g.sql = f.sql
        /\ f.target \in {"unknown", "malformed"} => g.category = f.category
        /\ f.target \notin {"unknown", "malformed", "cosmos"} =>
             g.role = f.role /\ g.listing = f.listing /\ g.assignment = f.assignment
    BY <1>1 DEF LiveRead, ConnectionAuth, ResourceCategory, Assignments, SqlAssignments
  <2>2. RunMarks(r, f) = RUN001(f) /\ RunMarks(r, g) = RUN001(g)
    BY <1>1
  <2> HIDE DEF Kin, RunShapes, RunStated, RunMarks
  <2> QED
    BY <1>1, <2>1, <2>2 DEF RUN001, Reached, RoleVerdict, CosmosVerdict, Unclear, FindingsAlone
<1>2. CASE r = "RUN002"
  BY <1>2 DEF RUN002, Reached, AccountBacking, ResolvePrivate, LiveRead, Answers, FindingsAlone
<1>3. CASE r = "RUN003"
  BY <1>3 DEF RUN003, Reached, Provisioning, TargetScope, LiveRead, ProvisioningState, ResourceCategory,
      FindingsAlone
<1>4. CASE r = "RUN004"
  BY <1>4 DEF RUN004, Reached, Provisioning, StatusCodes, Throttled, LiveRead, ThrottlePolicy, MetricListing,
      ProvisioningState, FindingsAlone
<1>5. CASE r = "RUN005"
  BY <1>5 DEF RUN005, Reached, AgentStatus, LiveRead, AgentListing, ConnectionListing, FindingsAlone
<1>6. CASE r = "RUN006"
  BY <1>6 DEF RUN006, Reached, IndexerStatus, ZeroDocuments, LiveRead, IndexSchema, IndexerHistory,
      FindingsAlone
<1>7. CASE r = "RUN007"
  BY <1>7 DEF RUN007, Reached, LiveRead, DiagnosticSettings, TrafficSeries, FindingsAlone
<1>8. CASE r = "RUN008"
  BY <1>8 DEF RUN008, Reached, Presence, Drift, LiveRead, FindingsAlone
<1> QED
  BY <1>1, <1>2, <1>3, <1>4, <1>5, <1>6, <1>7, <1>8, RunIDs

\* What they conclude of any marks is lawful,
LEMMA RunLawful ==
  ASSUME NEW r \in DOMAIN RunShapes, NEW marks \in SUBSET Marks
  PROVE  Lawful(r, Unjudged, marks, RunResult(r, marks))
BY RunIDs
DEF Lawful, Tells, Results, Failed, Clean, Skipped, Inapplicable, FindingsAlone, RunResult, Violates,
    Findings, Unjudged, Marks, Mark

\* and steady for marks that settle.
LEMMA RunSteady ==
  ASSUME NEW r \in DOMAIN RunShapes, NEW before \in SUBSET Marks,
         NEW m \in SUBSET Marks, NEW n \in SUBSET Marks,
         Settling(r, Unjudged, Marks \ {"ok"}, {"missing"}, {}, m, n)
  PROVE  Steady(r, RunResult(r, before \cup m), RunResult(r, before \cup n))
BY RunIDs
DEF Steady, Settling, Failed, Clean, Skipped, Inapplicable, NotStanding, ExpressionIsNotTheRemedy, NotInformed,
    OneJudgedIsClean, ReferenceIsTrusted, ExpressionIsNotTheFault, RunResult, Violates, Findings, Unjudged,
    Marks, Mark

\* What holds for the whole template has one domain, whichever resource it is read of.
LEMMA RunShared ==
  ASSUME NEW r \in DOMAIN RunShapes
  PROVE  Agree(RunShapes[r], RunWide)
<1>1. /\ Only(RunShapes["RUN003"]) /\ Only(RunShapes["RUN007"]) /\ Only(RunShapes["RUN008"])
  BY DEF RunShapes, Only
<1>2. Agree(RunShapes["RUN001"], RunWide)
  BY DEF Agree, RunShapes, RunWide
<1>3. Agree(RunShapes["RUN002"], RunWide)
  BY DEF Agree, RunShapes, RunWide
<1>4. Agree(RunShapes["RUN004"], RunWide)
  BY DEF Agree, RunShapes, RunWide
<1>5. Agree(RunShapes["RUN005"], RunWide)
  BY DEF Agree, RunShapes, RunWide
<1>6. Agree(RunShapes["RUN006"], RunWide)
  BY DEF Agree, RunShapes, RunWide
<1> QED
  BY <1>1, <1>2, <1>3, <1>4, <1>5, <1>6, RunIDs DEF Only, Agree

-----------------------------------------------------------------------------
(* The configuration rules.                                            *)
LEMMA CfgIDs ==
  DOMAIN CfgShapes = {"CFG001", "CFG002", "CFG003", "CFG004", "CFG005", "CFG006", "CFG007", "CFG008", "CFG009",
                      "CFG010", "CFG011", "CFG012"}
BY DEF CfgShapes

\* What a result of theirs can tell.
CfgTells(r) == IF r = "CFG010" THEN {} ELSE {"noted", "missing"}

\* Every configuration rule settles.
LEMMA CfgSettles ==
  ASSUME NEW r \in DOMAIN CfgShapes, NEW s \in CfgShapes[r], NEW f, NEW g, Kin(s, CfgStated, f, g)
  PROVE  Settling(r, CfgTells(r), {"noted", "missing"}, {}, {}, CfgMarks(r, f), CfgMarks(r, g))
<1> USE DEF Settling, Kin, Fits, Marks, Violates, Findings, Unjudged, Open, Absent, Mark, Flag, CfgShapes,
        CfgStated, CfgMarks, CfgTells
<1>1. CASE r = "CFG001"
  BY <1>1 DEF CFG001, Loaded, ServiceShape, AzdRange, RequiredVersion, YamlRead, Ranges, AzdVersions,
      Constraints, NotInformed, ReferenceIsTrusted
<1>2. CASE r = "CFG002"
  BY <1>2 DEF CFG002, Loaded, YamlRead, NotInformed, ReferenceIsTrusted
<1>3. CASE r = "CFG003"
  BY <1>3 DEF CFG003, Loaded, UsesEntry, ServiceEntry, ConversationEngine, MemoryModel, YamlRead, EntryOfUses,
      EntryOfList, Deployments, NotInformed, ReferenceIsTrusted
<1>4. CASE r = "CFG004"
  BY <1>4 DEF CFG004, Loaded, PromptModel, HostedSource, Quantity, YamlRead, Deployments, SourceOfAgent,
      Quantities, NotInformed, ReferenceIsTrusted
<1>5. CASE r = "CFG005"
  BY <1>5 DEF CFG005, Hidden, Loaded, Credential, EnvValue, YamlRead, ValueShapes, PlausibleLiteral,
      SecretNames, ArmLiterals, EnvironmentFile, FindingsAlone, NotInformed, ReferenceIsTrusted
<1>6. CASE r = "CFG006"
  BY <1>6 DEF CFG006, Loaded, Produced, YamlRead, EnvironmentSelected, Variables
<1>7. CASE r = "CFG007"
  BY <1>7 DEF CFG007, Loaded, YamlRead, UrlSchemes, UrlHosts, EgressInjected, NotInformed, ReferenceIsTrusted
<1>8. CASE r = "CFG008"
  BY <1>8 DEF CFG008, Loaded, YamlRead, FindingsAlone
<1>9. CASE r = "CFG009"
  BY <1>9 DEF CFG009, Loaded, RoutineTrigger, RoutineCron, YamlRead, CronParse, TimeZones
<1>10. CASE r = "CFG010"
  BY <1>10 DEF CFG010, YamlRead, NotStanding, ExpressionIsNotTheRemedy, NotInformed, ReferenceIsTrusted
<1>11. CASE r = "CFG011"
  BY <1>11 DEF CFG011, Loaded, RequiredVersion, YamlRead, LegacyShapes, Constraints
<1>12. CASE r = "CFG012"
  BY <1>12 DEF CFG012, LocationValue, EnvironmentSelected, RegionNames, FindingsAlone, NotInformed,
      ReferenceIsTrusted
<1> QED
  BY <1>1, <1>2, <1>3, <1>4, <1>5, <1>6, <1>7, <1>8, <1>9, <1>10, <1>11, <1>12, CfgIDs

\* What they conclude of any marks is lawful,
LEMMA CfgLawful ==
  ASSUME NEW r \in DOMAIN CfgShapes, NEW marks \in SUBSET Marks
  PROVE  Lawful(r, CfgTells(r), marks, CfgResult(r, marks))
BY CfgIDs
DEF Lawful, Tells, Results, Failed, Clean, Skipped, Inapplicable, FindingsAlone, CfgResult, Violates,
    Findings, Unjudged, Marks, Mark, CfgTells

\* and steady for marks that settle.
LEMMA CfgSteady ==
  ASSUME NEW r \in DOMAIN CfgShapes, NEW before \in SUBSET Marks,
         NEW m \in SUBSET Marks, NEW n \in SUBSET Marks,
         Settling(r, CfgTells(r), {"noted", "missing"}, {}, {}, m, n)
  PROVE  Steady(r, CfgResult(r, before \cup m), CfgResult(r, before \cup n))
BY CfgIDs
DEF Steady, Settling, Failed, Clean, Skipped, Inapplicable, NotStanding, ExpressionIsNotTheRemedy, NotInformed,
    OneJudgedIsClean, ReferenceIsTrusted, ExpressionIsNotTheFault, CfgResult, Violates, Findings, Unjudged,
    Marks, Mark, CfgTells

\* What holds for the whole template has one domain, whichever resource it is read of.
LEMMA CfgShared ==
  ASSUME NEW r \in DOMAIN CfgShapes
  PROVE  Agree(CfgShapes[r], CfgWide)
<1>1. /\ Only(CfgShapes["CFG002"]) /\ Only(CfgShapes["CFG006"]) /\ Only(CfgShapes["CFG007"])
      /\ Only(CfgShapes["CFG008"]) /\ Only(CfgShapes["CFG009"])
  BY DEF CfgShapes, Only
<1>2. /\ Only(CfgShapes["CFG011"]) /\ Only(CfgShapes["CFG012"])
  BY DEF CfgShapes, Only
<1>3. Agree(CfgShapes["CFG001"], CfgWide)
  BY DEF Agree, CfgShapes, CfgWide
<1>4. Agree(CfgShapes["CFG003"], CfgWide)
  BY SMTT(30) DEF Agree, CfgShapes, CfgWide
<1>5. Agree(CfgShapes["CFG004"], CfgWide)
  BY DEF Agree, CfgShapes, CfgWide
<1>6. Agree(CfgShapes["CFG005"], CfgWide)
  BY DEF Agree, CfgShapes, CfgWide
<1>7. Agree(CfgShapes["CFG010"], CfgWide)
  BY DEF Agree, CfgShapes, CfgWide
<1> QED
  BY <1>1, <1>2, <1>3, <1>4, <1>5, <1>6, <1>7, CfgIDs DEF Only, Agree

-----------------------------------------------------------------------------
(* The deployment rules.                                               *)
LEMMA DepIDs ==
  DOMAIN DepShapes = {"DEP001", "DEP002", "DEP003", "DEP004", "DEP005", "DEP006", "DEP007", "DEP008", "DEP009",
                      "DEP010", "DEP011", "DEP012"}
BY DEF DepShapes

\* Every deployment rule settles.
LEMMA DepSettles ==
  ASSUME NEW r \in DOMAIN DepShapes, NEW s \in DepShapes[r], NEW f, NEW g, Kin(s, DepStated, f, g)
  PROVE  Settling(r, Unjudged,
                  {"skip", "noted", "missing"},
                  {"missing"},
                  {},
                  DepMarks(r, f), DepMarks(r, g))
<1> USE DEF Settling, Kin, Fits, Marks, Violates, Findings, Unjudged, Open, Absent, Mark, Flag, DepShapes,
        DepStated, DepMarks
<1>1. CASE r = "DEP001"
  BY <1>1 DEF DEP001, Asked, Capability, FindingsAlone
<1>2. CASE r = "DEP002"
  BY <1>2 DEF DEP002, Asked, Capability, Injections, ProviderStates, FindingsAlone
<1>3. CASE r = "DEP003"
  BY <1>3 DEF DEP003, Asked, Capability, DeploymentScope, FindingsAlone
<1>4. CASE r = "DEP004"
  BY <1>4, SMTT(60) DEF DEP004, Asked, RegionOf, Offered, Lifecycle, Capability, Locations, TargetLocations, ModelsFor,
      ModelVersions, NotStanding, NotInformed, TargetIsTrusted, FindingsAlone
<1>5. CASE r = "DEP005"
  BY <1>5, SMTT(60) DEF DEP005, Asked, RegionOf, TooLittleFree, Capability, Locations, TargetLocations, ModelsFor,
      CapacityOf, QuotaLine, ExistingCapacity, NotStanding, NotInformed, TargetIsTrusted, FindingsAlone
<1>6. CASE r = "DEP006"
  BY <1>6, SMTT(60) DEF DEP006, Asked, RegionOf, Capability, Locations, TargetLocations, SoftDeleted, FindingsAlone
<1>7. CASE r = "DEP007"
  BY <1>7, SMTT(60) DEF DEP007, Asked, RegionOf, Capability, Locations, TargetLocations, NameSpecs, NameAnswers,
      FindingsAlone
<1>8. CASE r = "DEP008"
  BY <1>8 DEF DEP008, Asked, WhatIfRuns, ScopeAllowed, ResolveParameters, Capability, DeploymentScope,
      CoerceParam, FindingsAlone
<1>9. CASE r = "DEP009"
  BY <1>9, SMTT(60) DEF DEP009, Asked, RegionOf, Capability, Locations, TargetLocations, NotStanding, NotInformed,
      TargetIsTrusted, FindingsAlone
<1>10. CASE r = "DEP010"
  <2>1. CASE f.level = "ReadOnly"
    BY <1>10, <2>1, SMTT(60) DEF DEP010, Asked, LockMarks, Capability, PlannedIDs, FindingsAlone, HistoryNearLimit
  <2>2. CASE f.level # "ReadOnly"
    BY <1>10, <2>2, SMTT(60) DEF DEP010, Asked, LockMarks, HistoryNearLimit, Capability, PlannedIDs, FindingsAlone
  <2> QED
    BY <2>1, <2>2
<1>11. CASE r = "DEP011"
  BY <1>11, SMTT(60) DEF DEP011, Asked, RegionOf, SubnetPrefix, VNetLocation, SubnetLinks, Capability, Locations,
      TargetLocations, SubnetPrefixes, NotStanding, NotInformed, TargetIsTrusted, FindingsAlone
<1>12. CASE r = "DEP012"
  BY <1>12, SMTT(60) DEF DEP012, Asked, RegionMatrix, Offered, RegionOf, Capability, Locations, TargetLocations,
      ProviderLocations, NotStanding, NotInformed, TargetIsTrusted, FindingsAlone
<1> QED
  BY <1>1, <1>2, <1>3, <1>4, <1>5, <1>6, <1>7, <1>8, <1>9, <1>10, <1>11, <1>12, DepIDs

\* What they conclude of any marks is lawful,
LEMMA DepLawful ==
  ASSUME NEW r \in DOMAIN DepShapes, NEW marks \in SUBSET Marks
  PROVE  Lawful(r, Unjudged, marks, DepResult(r, marks))
BY DepIDs
DEF Lawful, Tells, Results, Failed, Clean, Skipped, Inapplicable, FindingsAlone, DepResult, Violates,
    Findings, Unjudged, Marks, Mark

\* and steady for marks that settle.
LEMMA DepSteady ==
  ASSUME NEW r \in DOMAIN DepShapes, NEW before \in SUBSET Marks,
         NEW m \in SUBSET Marks, NEW n \in SUBSET Marks,
         Settling(r, Unjudged,
                  {"skip", "noted", "missing"},
                  {"missing"},
                  {},
                  m, n)
  PROVE  Steady(r, DepResult(r, before \cup m), DepResult(r, before \cup n))
BY DepIDs
DEF Steady, Settling, Failed, Clean, Skipped, Inapplicable, NotStanding, ExpressionIsNotTheRemedy, NotInformed,
    OneJudgedIsClean, ReferenceIsTrusted, ExpressionIsNotTheFault, DepResult, Violates, Findings, Unjudged,
    Marks, Mark

\* What holds for the whole template has one domain, whichever resource it is read of.
LEMMA DepShared ==
  ASSUME NEW r \in DOMAIN DepShapes
  PROVE  Agree(DepShapes[r], DepWide)
<1>1. /\ Only(DepShapes["DEP001"]) /\ Only(DepShapes["DEP002"]) /\ Only(DepShapes["DEP003"])
      /\ Only(DepShapes["DEP006"])
  BY DEF DepShapes, Only
<1>2. /\ Only(DepShapes["DEP009"]) /\ Only(DepShapes["DEP010"]) /\ Only(DepShapes["DEP012"])
  BY DEF DepShapes, Only
<1>3. Agree(DepShapes["DEP004"], DepWide)
  BY DEF Agree, DepShapes, DepWide
<1>4. Agree(DepShapes["DEP005"], DepWide)
  BY DEF Agree, DepShapes, DepWide
<1>5. Agree(DepShapes["DEP007"], DepWide)
  BY DEF Agree, DepShapes, DepWide
<1>6. Agree(DepShapes["DEP008"], DepWide)
  BY DEF Agree, DepShapes, DepWide
<1>7. Agree(DepShapes["DEP011"], DepWide)
  BY DEF Agree, DepShapes, DepWide
<1> QED
  BY <1>1, <1>2, <1>3, <1>4, <1>5, <1>6, <1>7, DepIDs DEF Only, Agree

-----------------------------------------------------------------------------
(* All the rules.                                                          *)
\* The reasons for not judging that the result of a rule can tell.
Tellable(r) ==
    CASE r \in DOMAIN SecShapes -> SecTells(r)
      [] r \in DOMAIN IdnShapes -> IdnTells(r)
      [] r \in DOMAIN RelShapes -> {"noted", "cond"}
      [] r \in DOMAIN CostShapes -> {"open", "cond", "skip"}
      [] r \in DOMAIN EnvShapes -> {"noted"}
      [] r \in DOMAIN CfgShapes -> CfgTells(r)
      [] OTHER -> Unjudged

\* No rule is of two packages, so each is looked up in its own.
LEMMA PackagesAreApart ==
  ASSUME NEW r
  PROVE  /\ r \in DOMAIN NetShapes =>
              r \notin UNION {DOMAIN SecShapes, DOMAIN IdnShapes, DOMAIN OpsShapes, DOMAIN RelShapes,
                              DOMAIN CostShapes, DOMAIN EnvShapes, DOMAIN GwShapes, DOMAIN IqShapes,
                              DOMAIN RunShapes, DOMAIN CfgShapes, DOMAIN DepShapes}
         /\ r \in DOMAIN SecShapes =>
              r \notin UNION {DOMAIN IdnShapes, DOMAIN OpsShapes, DOMAIN RelShapes, DOMAIN CostShapes,
                              DOMAIN EnvShapes, DOMAIN GwShapes, DOMAIN IqShapes, DOMAIN RunShapes,
                              DOMAIN CfgShapes, DOMAIN DepShapes}
         /\ r \in DOMAIN IdnShapes =>
              r \notin UNION {DOMAIN OpsShapes, DOMAIN RelShapes, DOMAIN CostShapes, DOMAIN EnvShapes,
                              DOMAIN GwShapes, DOMAIN IqShapes, DOMAIN RunShapes, DOMAIN CfgShapes,
                              DOMAIN DepShapes}
         /\ r \in DOMAIN OpsShapes =>
              r \notin UNION {DOMAIN RelShapes, DOMAIN CostShapes, DOMAIN EnvShapes, DOMAIN GwShapes,
                              DOMAIN IqShapes, DOMAIN RunShapes, DOMAIN CfgShapes, DOMAIN DepShapes}
         /\ r \in DOMAIN RelShapes =>
              r \notin UNION {DOMAIN CostShapes, DOMAIN EnvShapes, DOMAIN GwShapes, DOMAIN IqShapes,
                              DOMAIN RunShapes, DOMAIN CfgShapes, DOMAIN DepShapes}
         /\ r \in DOMAIN CostShapes =>
              r \notin UNION {DOMAIN EnvShapes, DOMAIN GwShapes, DOMAIN IqShapes, DOMAIN RunShapes,
                              DOMAIN CfgShapes, DOMAIN DepShapes}
         /\ r \in DOMAIN EnvShapes =>
              r \notin UNION {DOMAIN GwShapes, DOMAIN IqShapes, DOMAIN RunShapes, DOMAIN CfgShapes,
                              DOMAIN DepShapes}
         /\ r \in DOMAIN GwShapes =>
              r \notin UNION {DOMAIN IqShapes, DOMAIN RunShapes, DOMAIN CfgShapes, DOMAIN DepShapes}
         /\ r \in DOMAIN IqShapes =>
              r \notin UNION {DOMAIN RunShapes, DOMAIN CfgShapes, DOMAIN DepShapes}
         /\ r \in DOMAIN RunShapes =>
              r \notin UNION {DOMAIN CfgShapes, DOMAIN DepShapes}
         /\ r \in DOMAIN CfgShapes =>
              r \notin UNION {DOMAIN DepShapes}
BY NetIDs, SecIDs, IdnIDs, OpsIDs, RelIDs, CostIDs, EnvIDs, GwIDs, IqIDs, RunIDs, CfgIDs, DepIDs

\* What the dispatch on the package gives a rule of each of them.
LEMMA NetPackage ==
  ASSUME NEW r \in DOMAIN NetShapes
  PROVE  /\ Shapes(r) = NetShapes[r] /\ Stated(r) = NetStated /\ TemplateWide(r) = NetWide
         /\ Tellable(r) = Unjudged
         /\ \A f : MarksOf(r, f) = NetMarks(r, f)
         /\ \A marks : ResultOf(r, marks) = NetResult(r, marks)
BY PackagesAreApart DEF Shapes, Stated, TemplateWide, Tellable, MarksOf, ResultOf

LEMMA SecPackage ==
  ASSUME NEW r \in DOMAIN SecShapes
  PROVE  /\ Shapes(r) = SecShapes[r] /\ Stated(r) = SecStated /\ TemplateWide(r) = SecWide
         /\ Tellable(r) = SecTells(r)
         /\ \A f : MarksOf(r, f) = SecMarks(r, f)
         /\ \A marks : ResultOf(r, marks) = SecResult(r, marks)
BY PackagesAreApart DEF Shapes, Stated, TemplateWide, Tellable, MarksOf, ResultOf

LEMMA IdnPackage ==
  ASSUME NEW r \in DOMAIN IdnShapes
  PROVE  /\ Shapes(r) = IdnShapes[r] /\ Stated(r) = IdnStated /\ TemplateWide(r) = {}
         /\ Tellable(r) = IdnTells(r)
         /\ \A f : MarksOf(r, f) = IdnMarks(r, f)
         /\ \A marks : ResultOf(r, marks) = IdnResult(r, marks)
BY PackagesAreApart DEF Shapes, Stated, TemplateWide, Tellable, MarksOf, ResultOf

LEMMA OpsPackage ==
  ASSUME NEW r \in DOMAIN OpsShapes
  PROVE  /\ Shapes(r) = OpsShapes[r] /\ Stated(r) = OpsStated /\ TemplateWide(r) = OpsWide
         /\ Tellable(r) = Unjudged
         /\ \A f : MarksOf(r, f) = OpsMarks(r, f)
         /\ \A marks : ResultOf(r, marks) = OpsResult(r, marks)
BY PackagesAreApart DEF Shapes, Stated, TemplateWide, Tellable, MarksOf, ResultOf

LEMMA RelPackage ==
  ASSUME NEW r \in DOMAIN RelShapes
  PROVE  /\ Shapes(r) = RelShapes[r] /\ Stated(r) = RelStated /\ TemplateWide(r) = RelWide
         /\ Tellable(r) = {"noted", "cond"}
         /\ \A f : MarksOf(r, f) = RelMarks(r, f)
         /\ \A marks : ResultOf(r, marks) = RelResult(r, marks)
BY PackagesAreApart DEF Shapes, Stated, TemplateWide, Tellable, MarksOf, ResultOf

LEMMA CostPackage ==
  ASSUME NEW r \in DOMAIN CostShapes
  PROVE  /\ Shapes(r) = CostShapes[r] /\ Stated(r) = CostStated /\ TemplateWide(r) = CostWide
         /\ Tellable(r) = {"open", "cond", "skip"}
         /\ \A f : MarksOf(r, f) = CostMarks(r, f)
         /\ \A marks : ResultOf(r, marks) = CostResult(r, marks)
BY PackagesAreApart DEF Shapes, Stated, TemplateWide, Tellable, MarksOf, ResultOf

LEMMA EnvPackage ==
  ASSUME NEW r \in DOMAIN EnvShapes
  PROVE  /\ Shapes(r) = EnvShapes[r] /\ Stated(r) = EnvStated /\ TemplateWide(r) = EnvWide
         /\ Tellable(r) = {"noted"}
         /\ \A f : MarksOf(r, f) = EnvMarks(r, f)
         /\ \A marks : ResultOf(r, marks) = EnvResult(r, marks)
BY PackagesAreApart DEF Shapes, Stated, TemplateWide, Tellable, MarksOf, ResultOf

LEMMA GwPackage ==
  ASSUME NEW r \in DOMAIN GwShapes
  PROVE  /\ Shapes(r) = GwShapes[r] /\ Stated(r) = GwStated /\ TemplateWide(r) = {}
         /\ Tellable(r) = Unjudged
         /\ \A f : MarksOf(r, f) = GwMarks(r, f)
         /\ \A marks : ResultOf(r, marks) = GwResult(r, marks)
BY PackagesAreApart DEF Shapes, Stated, TemplateWide, Tellable, MarksOf, ResultOf

LEMMA IqPackage ==
  ASSUME NEW r \in DOMAIN IqShapes
  PROVE  /\ Shapes(r) = IqShapes[r] /\ Stated(r) = IqStated /\ TemplateWide(r) = IqWide
         /\ Tellable(r) = Unjudged
         /\ \A f : MarksOf(r, f) = IqMarks(r, f)
         /\ \A marks : ResultOf(r, marks) = IqResult(r, marks)
BY PackagesAreApart DEF Shapes, Stated, TemplateWide, Tellable, MarksOf, ResultOf

LEMMA RunPackage ==
  ASSUME NEW r \in DOMAIN RunShapes
  PROVE  /\ Shapes(r) = RunShapes[r] /\ Stated(r) = RunStated /\ TemplateWide(r) = RunWide
         /\ Tellable(r) = Unjudged
         /\ \A f : MarksOf(r, f) = RunMarks(r, f)
         /\ \A marks : ResultOf(r, marks) = RunResult(r, marks)
BY PackagesAreApart DEF Shapes, Stated, TemplateWide, Tellable, MarksOf, ResultOf

LEMMA CfgPackage ==
  ASSUME NEW r \in DOMAIN CfgShapes
  PROVE  /\ Shapes(r) = CfgShapes[r] /\ Stated(r) = CfgStated /\ TemplateWide(r) = CfgWide
         /\ Tellable(r) = CfgTells(r)
         /\ \A f : MarksOf(r, f) = CfgMarks(r, f)
         /\ \A marks : ResultOf(r, marks) = CfgResult(r, marks)
BY PackagesAreApart DEF Shapes, Stated, TemplateWide, Tellable, MarksOf, ResultOf

LEMMA DepPackage ==
  ASSUME NEW r \in DOMAIN DepShapes
  PROVE  /\ Shapes(r) = DepShapes[r] /\ Stated(r) = DepStated /\ TemplateWide(r) = DepWide
         /\ Tellable(r) = Unjudged
         /\ \A f : MarksOf(r, f) = DepMarks(r, f)
         /\ \A marks : ResultOf(r, marks) = DepResult(r, marks)
BY PackagesAreApart DEF Shapes, Stated, TemplateWide, Tellable, MarksOf, ResultOf

\* So for every rule: its marks settle and its results are steady,
LEMMA RulesSettle ==
  ASSUME NEW r \in RuleIDs, NEW s \in Shapes(r), NEW f, NEW g, Kin(s, Stated(r), f, g),
         NEW before \in SUBSET Marks
  PROVE  /\ MarksOf(r, f) \subseteq Marks
         /\ r \notin FindingsAlone => MarksOf(r, f) \cap Unjudged \subseteq Tellable(r)
         /\ Steady(r, ResultOf(r, before \cup MarksOf(r, f)), ResultOf(r, before \cup MarksOf(r, g)))
<1>0. Kin(s, Stated(r), g, g)
  BY DEF Kin, Fits
<1>1. CASE r \in DOMAIN NetShapes
  <2> DEFINE Settles(m, n) == Settling(r, Unjudged, {}, {}, {}, m, n)
  <2>1. Settles(NetMarks(r, f), NetMarks(r, g)) /\ Settles(NetMarks(r, g), NetMarks(r, g))
    BY <1>0, <1>1, NetPackage, NetSettles
  <2>2. /\ NetMarks(r, f) \in SUBSET Marks /\ NetMarks(r, g) \in SUBSET Marks
        /\ r \notin FindingsAlone => NetMarks(r, f) \cap Unjudged \subseteq Unjudged
    BY <2>1 DEF Settling
  <2>3. Steady(r, NetResult(r, before \cup NetMarks(r, f)), NetResult(r, before \cup NetMarks(r, g)))
    BY <1>1, <2>1, <2>2, NetSteady
  <2> QED
    BY <1>1, <2>2, <2>3, NetPackage
<1>2. CASE r \in DOMAIN SecShapes
  <2> DEFINE Settles(m, n) == Settling(r, SecTells(r), SecDoubts(r), {}, {}, m, n)
  <2>1. Settles(SecMarks(r, f), SecMarks(r, g)) /\ Settles(SecMarks(r, g), SecMarks(r, g))
    BY <1>0, <1>2, SecPackage, SecSettles
  <2>2. /\ SecMarks(r, f) \in SUBSET Marks /\ SecMarks(r, g) \in SUBSET Marks
        /\ r \notin FindingsAlone => SecMarks(r, f) \cap Unjudged \subseteq SecTells(r)
    BY <2>1 DEF Settling
  <2>3. Steady(r, SecResult(r, before \cup SecMarks(r, f)), SecResult(r, before \cup SecMarks(r, g)))
    BY <1>2, <2>1, <2>2, SecSteady
  <2> QED
    BY <1>2, <2>2, <2>3, SecPackage
<1>3. CASE r \in DOMAIN IdnShapes
  <2> DEFINE Settles(m, n) == Settling(r, IdnTells(r), {"noted", "cond", "scope", "open"}, {}, {}, m, n)
  <2>1. Settles(IdnMarks(r, f), IdnMarks(r, g)) /\ Settles(IdnMarks(r, g), IdnMarks(r, g))
    BY <1>0, <1>3, IdnPackage, IdnSettles
  <2>2. /\ IdnMarks(r, f) \in SUBSET Marks /\ IdnMarks(r, g) \in SUBSET Marks
        /\ r \notin FindingsAlone => IdnMarks(r, f) \cap Unjudged \subseteq IdnTells(r)
    BY <2>1 DEF Settling
  <2>3. Steady(r, IdnResult(r, before \cup IdnMarks(r, f)), IdnResult(r, before \cup IdnMarks(r, g)))
    BY <1>3, <2>1, <2>2, IdnSteady
  <2> QED
    BY <1>3, <2>2, <2>3, IdnPackage
<1>4. CASE r \in DOMAIN OpsShapes
  <2> DEFINE Settles(m, n) ==
        Settling(r, Unjudged,
                 Unjudged \cup Mark(r = "OPS007", "ok"),
                 IF r = "OPS007" THEN Unjudged \cup {"ok"} ELSE {},
                 IF r = "OPS007" THEN {"ok"} ELSE {},
                 m, n)
  <2>1. Settles(OpsMarks(r, f), OpsMarks(r, g)) /\ Settles(OpsMarks(r, g), OpsMarks(r, g))
    BY <1>0, <1>4, OpsPackage, OpsSettles
  <2>2. /\ OpsMarks(r, f) \in SUBSET Marks /\ OpsMarks(r, g) \in SUBSET Marks
        /\ r \notin FindingsAlone => OpsMarks(r, f) \cap Unjudged \subseteq Unjudged
    BY <2>1 DEF Settling
  <2>3. Steady(r, OpsResult(r, before \cup OpsMarks(r, f)), OpsResult(r, before \cup OpsMarks(r, g)))
    BY <1>4, <2>1, <2>2, OpsSteady
  <2> QED
    BY <1>4, <2>2, <2>3, OpsPackage
<1>5. CASE r \in DOMAIN RelShapes
  <2> DEFINE Settles(m, n) == Settling(r, {"noted", "cond"}, {"noted", "cond", "exempt"}, {}, {}, m, n)
  <2>1. Settles(RelMarks(r, f), RelMarks(r, g)) /\ Settles(RelMarks(r, g), RelMarks(r, g))
    BY <1>0, <1>5, RelPackage, RelSettles
  <2>2. /\ RelMarks(r, f) \in SUBSET Marks /\ RelMarks(r, g) \in SUBSET Marks
        /\ r \notin FindingsAlone => RelMarks(r, f) \cap Unjudged \subseteq {"noted", "cond"}
    BY <2>1 DEF Settling
  <2>3. Steady(r, RelResult(r, before \cup RelMarks(r, f)), RelResult(r, before \cup RelMarks(r, g)))
    BY <1>5, <2>1, <2>2, RelSteady
  <2> QED
    BY <1>5, <2>2, <2>3, RelPackage
<1>6. CASE r \in DOMAIN CostShapes
  <2> DEFINE Settles(m, n) ==
        Settling(r, {"open", "cond", "skip"},
                 {"open", "cond", "skip", "missing"},
                 {},
                 IF r = "COST003" THEN {"ok"} ELSE {},
                 m, n)
  <2>1. Settles(CostMarks(r, f), CostMarks(r, g)) /\ Settles(CostMarks(r, g), CostMarks(r, g))
    BY <1>0, <1>6, CostPackage, CostSettles
  <2>2. /\ CostMarks(r, f) \in SUBSET Marks /\ CostMarks(r, g) \in SUBSET Marks
        /\ r \notin FindingsAlone => CostMarks(r, f) \cap Unjudged \subseteq {"open", "cond", "skip"}
    BY <2>1 DEF Settling
  <2>3. Steady(r, CostResult(r, before \cup CostMarks(r, f)), CostResult(r, before \cup CostMarks(r, g)))
    BY <1>6, <2>1, <2>2, CostSteady
  <2> QED
    BY <1>6, <2>2, <2>3, CostPackage
<1>7. CASE r \in DOMAIN EnvShapes
  <2> DEFINE Settles(m, n) == Settling(r, {"noted"}, {"noted", "exempt"}, {"exempt"}, {}, m, n)
  <2>1. Settles(EnvMarks(r, f), EnvMarks(r, g)) /\ Settles(EnvMarks(r, g), EnvMarks(r, g))
    BY <1>0, <1>7, EnvPackage, EnvSettles
  <2>2. /\ EnvMarks(r, f) \in SUBSET Marks /\ EnvMarks(r, g) \in SUBSET Marks
        /\ r \notin FindingsAlone => EnvMarks(r, f) \cap Unjudged \subseteq {"noted"}
    BY <2>1 DEF Settling
  <2>3. Steady(r, EnvResult(r, before \cup EnvMarks(r, f)), EnvResult(r, before \cup EnvMarks(r, g)))
    BY <1>7, <2>1, <2>2, EnvSteady
  <2> QED
    BY <1>7, <2>2, <2>3, EnvPackage
<1>8. CASE r \in DOMAIN GwShapes
  <2> DEFINE Settles(m, n) == Settling(r, Unjudged, Marks \ {"ok"}, {}, {}, m, n)
  <2>1. Settles(GwMarks(r, f), GwMarks(r, g)) /\ Settles(GwMarks(r, g), GwMarks(r, g))
    BY <1>0, <1>8, GwPackage, GwSettles
  <2>2. /\ GwMarks(r, f) \in SUBSET Marks /\ GwMarks(r, g) \in SUBSET Marks
        /\ r \notin FindingsAlone => GwMarks(r, f) \cap Unjudged \subseteq Unjudged
    BY <2>1 DEF Settling
  <2>3. Steady(r, GwResult(r, before \cup GwMarks(r, f)), GwResult(r, before \cup GwMarks(r, g)))
    BY <1>8, <2>1, <2>2, GwSteady
  <2> QED
    BY <1>8, <2>2, <2>3, GwPackage
<1>9. CASE r \in DOMAIN IqShapes
  <2> DEFINE Settles(m, n) == Settling(r, Unjudged, Marks \ {"ok"}, {}, {}, m, n)
  <2>1. Settles(IqMarks(r, f), IqMarks(r, g)) /\ Settles(IqMarks(r, g), IqMarks(r, g))
    BY <1>0, <1>9, IqPackage, IqSettles
  <2>2. /\ IqMarks(r, f) \in SUBSET Marks /\ IqMarks(r, g) \in SUBSET Marks
        /\ r \notin FindingsAlone => IqMarks(r, f) \cap Unjudged \subseteq Unjudged
    BY <2>1 DEF Settling
  <2>3. Steady(r, IqResult(r, before \cup IqMarks(r, f)), IqResult(r, before \cup IqMarks(r, g)))
    BY <1>9, <2>1, <2>2, IqSteady
  <2> QED
    BY <1>9, <2>2, <2>3, IqPackage
<1>10. CASE r \in DOMAIN RunShapes
  <2> DEFINE Settles(m, n) == Settling(r, Unjudged, Marks \ {"ok"}, {"missing"}, {}, m, n)
  <2>1. Settles(RunMarks(r, f), RunMarks(r, g)) /\ Settles(RunMarks(r, g), RunMarks(r, g))
    BY <1>0, <1>10, RunPackage, RunSettles
  <2>2. /\ RunMarks(r, f) \in SUBSET Marks /\ RunMarks(r, g) \in SUBSET Marks
        /\ r \notin FindingsAlone => RunMarks(r, f) \cap Unjudged \subseteq Unjudged
    BY <2>1 DEF Settling
  <2>3. Steady(r, RunResult(r, before \cup RunMarks(r, f)), RunResult(r, before \cup RunMarks(r, g)))
    BY <1>10, <2>1, <2>2, RunSteady
  <2> QED
    BY <1>10, <2>2, <2>3, RunPackage
<1>11. CASE r \in DOMAIN CfgShapes
  <2> DEFINE Settles(m, n) == Settling(r, CfgTells(r), {"noted", "missing"}, {}, {}, m, n)
  <2>1. Settles(CfgMarks(r, f), CfgMarks(r, g)) /\ Settles(CfgMarks(r, g), CfgMarks(r, g))
    BY <1>0, <1>11, CfgPackage, CfgSettles
  <2>2. /\ CfgMarks(r, f) \in SUBSET Marks /\ CfgMarks(r, g) \in SUBSET Marks
        /\ r \notin FindingsAlone => CfgMarks(r, f) \cap Unjudged \subseteq CfgTells(r)
    BY <2>1 DEF Settling
  <2>3. Steady(r, CfgResult(r, before \cup CfgMarks(r, f)), CfgResult(r, before \cup CfgMarks(r, g)))
    BY <1>11, <2>1, <2>2, CfgSteady
  <2> QED
    BY <1>11, <2>2, <2>3, CfgPackage
<1>12. CASE r \in DOMAIN DepShapes
  <2> DEFINE Settles(m, n) == Settling(r, Unjudged, {"skip", "noted", "missing"}, {"missing"}, {}, m, n)
  <2>1. Settles(DepMarks(r, f), DepMarks(r, g)) /\ Settles(DepMarks(r, g), DepMarks(r, g))
    BY <1>0, <1>12, DepPackage, DepSettles
  <2>2. /\ DepMarks(r, f) \in SUBSET Marks /\ DepMarks(r, g) \in SUBSET Marks
        /\ r \notin FindingsAlone => DepMarks(r, f) \cap Unjudged \subseteq Unjudged
    BY <2>1 DEF Settling
  <2>3. Steady(r, DepResult(r, before \cup DepMarks(r, f)), DepResult(r, before \cup DepMarks(r, g)))
    BY <1>12, <2>1, <2>2, DepSteady
  <2> QED
    BY <1>12, <2>2, <2>3, DepPackage
<1> QED
  BY <1>1, <1>2, <1>3, <1>4, <1>5, <1>6, <1>7, <1>8, <1>9, <1>10, <1>11, <1>12 DEF RuleIDs

\* its results lawful,
LEMMA RulesLawful ==
  ASSUME NEW r \in RuleIDs, NEW marks \in SUBSET Marks
  PROVE  Lawful(r, Tellable(r), marks, ResultOf(r, marks))
<1>1. CASE r \in DOMAIN NetShapes
  BY <1>1, NetPackage, NetLawful
<1>2. CASE r \in DOMAIN SecShapes
  BY <1>2, SecPackage, SecLawful
<1>3. CASE r \in DOMAIN IdnShapes
  BY <1>3, IdnPackage, IdnLawful
<1>4. CASE r \in DOMAIN OpsShapes
  BY <1>4, OpsPackage, OpsLawful
<1>5. CASE r \in DOMAIN RelShapes
  BY <1>5, RelPackage, RelLawful
<1>6. CASE r \in DOMAIN CostShapes
  BY <1>6, CostPackage, CostLawful
<1>7. CASE r \in DOMAIN EnvShapes
  BY <1>7, EnvPackage, EnvLawful
<1>8. CASE r \in DOMAIN GwShapes
  BY <1>8, GwPackage, GwLawful
<1>9. CASE r \in DOMAIN IqShapes
  BY <1>9, IqPackage, IqLawful
<1>10. CASE r \in DOMAIN RunShapes
  BY <1>10, RunPackage, RunLawful
<1>11. CASE r \in DOMAIN CfgShapes
  BY <1>11, CfgPackage, CfgLawful
<1>12. CASE r \in DOMAIN DepShapes
  BY <1>12, DepPackage, DepLawful
<1> QED
  BY <1>1, <1>2, <1>3, <1>4, <1>5, <1>6, <1>7, <1>8, <1>9, <1>10, <1>11, <1>12 DEF RuleIDs

\* and its kinds of resource agree on the whole template.
LEMMA RulesShare ==
  ASSUME NEW r \in RuleIDs
  PROVE  Agree(Shapes(r), TemplateWide(r))
<1>1. CASE r \in DOMAIN NetShapes
  BY <1>1, NetPackage, NetShared
<1>2. CASE r \in DOMAIN SecShapes
  BY <1>2, SecPackage, SecShared
<1>3. CASE r \in DOMAIN IdnShapes
  BY <1>3, IdnPackage DEF Agree
<1>4. CASE r \in DOMAIN OpsShapes
  BY <1>4, OpsPackage, OpsShared
<1>5. CASE r \in DOMAIN RelShapes
  BY <1>5, RelPackage, RelShared
<1>6. CASE r \in DOMAIN CostShapes
  BY <1>6, CostPackage, CostShared
<1>7. CASE r \in DOMAIN EnvShapes
  BY <1>7, EnvPackage, EnvShared
<1>8. CASE r \in DOMAIN GwShapes
  BY <1>8, GwPackage DEF Agree
<1>9. CASE r \in DOMAIN IqShapes
  BY <1>9, IqPackage, IqShared
<1>10. CASE r \in DOMAIN RunShapes
  BY <1>10, RunPackage, RunShared
<1>11. CASE r \in DOMAIN CfgShapes
  BY <1>11, CfgPackage, CfgShared
<1>12. CASE r \in DOMAIN DepShapes
  BY <1>12, DepPackage, DepShared
<1> QED
  BY <1>1, <1>2, <1>3, <1>4, <1>5, <1>6, <1>7, <1>8, <1>9, <1>10, <1>11, <1>12 DEF RuleIDs

-----------------------------------------------------------------------------
(* The specification.                                                      *)
\* azure.yaml, or the environment FND-CFG-006 wants, could not be read: then
\* the rule skips as a whole (CFG-010 reads the template beside it).
Unloaded(r, f) == r # "CFG010" /\ (f.yaml # "read" \/ (r = "CFG006" /\ f.environment = Open))

\* A configuration rule that skips as a whole leaves no other mark.
LEMMA MissingIsAlone ==
  ASSUME NEW r \in DOMAIN CfgShapes \ FindingsAlone, NEW s \in CfgShapes[r], NEW f, Fits(s, CfgStated, f)
  PROVE  IF Unloaded(r, f) THEN CfgMarks(r, f) = {"missing"} ELSE "missing" \notin CfgMarks(r, f)
<1> USE DEF Unloaded, Loaded, Fits, CfgMarks, CfgShapes, CfgStated, YamlRead, EnvironmentSelected, Open, Absent, Mark
<1>1. CASE r = "CFG001"
  BY <1>1 DEF CFG001, ServiceShape, AzdRange, RequiredVersion
<1>2. CASE r = "CFG002"
  BY <1>2 DEF CFG002
<1>3. CASE r = "CFG003"
  BY <1>3 DEF CFG003, UsesEntry, ServiceEntry, ConversationEngine, MemoryModel
<1>4. CASE r = "CFG004"
  BY <1>4 DEF CFG004, PromptModel, HostedSource, Quantity
<1>5. CASE r = "CFG006"
  BY <1>5 DEF CFG006, Produced
<1>6. CASE r = "CFG007"
  BY <1>6 DEF CFG007
<1>7. CASE r = "CFG009"
  BY <1>7 DEF CFG009, RoutineTrigger, RoutineCron
<1>8. CASE r = "CFG010"
  BY <1>8 DEF CFG010
<1>9. CASE r = "CFG011"
  BY <1>9 DEF CFG011, RequiredVersion
<1> QED
  BY <1>1, <1>2, <1>3, <1>4, <1>5, <1>6, <1>7, <1>8, <1>9, CfgIDs DEF FindingsAlone

\* Where azure.yaml, and the environment of FND-CFG-006, are read.
LEMMA CfgKeys ==
  ASSUME NEW r \in DOMAIN CfgShapes \ FindingsAlone, NEW s \in CfgShapes[r]
  PROVE  /\ r # "CFG010" => "yaml" \in DOMAIN s
         /\ r = "CFG006" => "environment" \in DOMAIN s
BY CfgIDs DEF CfgShapes, FindingsAlone

\* The resource under review is one of a kind the rule looks at.
ResourceIsKnown ==
    /\ rule \in RuleIDs
    /\ shape \in Shapes(rule)
    /\ Fits(shape, Stated(rule), facts)

\* The marks of the resources before it are those a result can tell.
OthersAreMarks ==
    /\ others \subseteq Marks
    /\ seen \in 0 .. MaxResources - 1
    /\ seen = 0 => others = {}
    /\ rule \notin FindingsAlone => others \cap Unjudged \subseteq Tellable(rule)

\* What makes a configuration rule skip as a whole is the same for all.
LoadedForAll ==
    rule \in DOMAIN CfgShapes \ FindingsAlone /\ seen > 0 =>
      IF Unloaded(rule, facts) THEN others = {"missing"} ELSE "missing" \notin others

\* Every result said so far was said of a resource that the present one is a
\* resolution of.
SaidBefore ==
    /\ said \subseteq {"failed", "clean", "skipped", "inapplicable"}
    /\ \A v \in said : \E f : /\ Kin(shape, Stated(rule), f, facts)
                              /\ ResultOf(rule, others \cup MarksOf(rule, f)).is = v

IInv == ResourceIsKnown /\ OthersAreMarks /\ LoadedForAll /\ SaidBefore

\* The marks of a resource that is known, and what is concluded of them all.
LEMMA KnownMarks ==
  ASSUME ResourceIsKnown, OthersAreMarks
  PROVE  /\ Marked \in SUBSET Marks
         /\ rule \notin FindingsAlone => Marked \cap Unjudged \subseteq Tellable(rule)
         /\ Lawful(rule, Tellable(rule), Marked, Result)
<1>1. Kin(shape, Stated(rule), facts, facts)
  BY DEF ResourceIsKnown, Kin, Fits
<1>2. /\ MarksOf(rule, facts) \subseteq Marks
      /\ rule \notin FindingsAlone => MarksOf(rule, facts) \cap Unjudged \subseteq Tellable(rule)
  BY <1>1, RulesSettle DEF ResourceIsKnown, OthersAreMarks
<1>3. Marked \in SUBSET Marks /\ (rule \notin FindingsAlone => Marked \cap Unjudged \subseteq Tellable(rule))
  BY <1>2 DEF Marked, OthersAreMarks
<1>4. Lawful(rule, Tellable(rule), Marked, Result)
  BY <1>3, RulesLawful DEF Result, ResourceIsKnown
<1> QED
  BY <1>3, <1>4

LEMMA InitIInv == Init => IInv
<1> SUFFICES ASSUME Init PROVE IInv
  OBVIOUS
<1>1. Fits(shape, Stated(rule), facts)
  BY DEF Init, Resources, Written, Fits
<1> QED
  BY <1>1, ResourcesAssumption DEF Init, IInv, ResourceIsKnown, OthersAreMarks, LoadedForAll, SaidBefore

\* A parameter resolves an expression.
LEMMA LearnIInv ==
  ASSUME IInv, NEW y \in DOMAIN facts, Learn(y)
  PROVE  IInv'
<1>1. PICK v \in shape[y] \ {Absent} : facts' = [facts EXCEPT ![y] = v]
  BY DEF Learn
<1>2. /\ facts[y] = Open /\ said' = said \cup {Result.is}
      /\ UNCHANGED <<rule, shape, others, seen>> /\ (seen > 0 => y \notin TemplateWide(rule))
  BY DEF Learn
<1>3. /\ facts = [x \in DOMAIN shape |-> facts[x]]
      /\ y \in DOMAIN shape
      /\ \A x \in DOMAIN shape : facts[x] \in shape[x] \/ (facts[x] = Open /\ x \notin Stated(rule))
  BY DEF IInv, ResourceIsKnown, Fits
<1>4. /\ DOMAIN facts' = DOMAIN shape /\ facts' = [x \in DOMAIN shape |-> facts'[x]]
      /\ facts'[y] = v
      /\ \A x \in DOMAIN shape \ {y} : facts'[x] = facts[x]
  BY <1>1, <1>3
<1>5. Fits(shape, Stated(rule), facts)'
  BY <1>1, <1>2, <1>3, <1>4 DEF Fits
<1>6. ResourceIsKnown'
  BY <1>2, <1>5 DEF IInv, ResourceIsKnown
<1>7. OthersAreMarks'
  BY <1>2 DEF IInv, OthersAreMarks
<1>8. LoadedForAll'
  <2> SUFFICES ASSUME rule \in DOMAIN CfgShapes \ FindingsAlone, seen > 0
               PROVE  Unloaded(rule, facts') = Unloaded(rule, facts)
    BY <1>2 DEF IInv, LoadedForAll
  <2>1. y \notin {"yaml", "environment"}
    BY <1>2, CfgPackage DEF CfgWide
  <2>2. /\ rule # "CFG010" => "yaml" \in DOMAIN shape
        /\ rule = "CFG006" => "environment" \in DOMAIN shape
    BY CfgKeys, CfgPackage DEF IInv, ResourceIsKnown
  <2> QED
    BY <2>1, <2>2, <1>4 DEF Unloaded
<1>9. SaidBefore'
  <2>1. Result.is \in {"failed", "clean", "skipped", "inapplicable"}
    BY KnownMarks DEF IInv, Lawful, Results
  <2>2. ASSUME NEW f, Kin(shape, Stated(rule), f, facts)
        PROVE  Kin(shape, Stated(rule), f, facts)'
    BY <1>1, <1>2, <1>3, <1>4, <2>2 DEF Kin
  <2>3. Kin(shape, Stated(rule), facts, facts)
    BY <1>3 DEF Kin, Fits
  <2>4. ASSUME NEW w \in said'
        PROVE  \E f : /\ Kin(shape, Stated(rule), f, facts)
                      /\ ResultOf(rule, others \cup MarksOf(rule, f)).is = w
    <3>1. CASE w \in said
      BY <3>1 DEF IInv, SaidBefore
    <3>2. CASE w = Result.is
      BY <2>3, <3>2 DEF Result, Marked
    <3> QED
      BY <2>4, <3>1, <3>2, <1>2
  <2> QED
    BY <1>2, <2>1, <2>2, <2>4 DEF IInv, SaidBefore
<1> QED
  BY <1>6, <1>7, <1>8, <1>9 DEF IInv

\* The rule goes on to the next resource of the template.
LEMMA LookOnIInv ==
  ASSUME IInv, LookOn
  PROVE  IInv'
<1>1. /\ seen' = seen + 1 /\ seen + 1 < MaxResources /\ others' = Marked /\ said' = {} /\ rule' = rule
      /\ shape' \in Shapes(rule) /\ facts' \in {SameTemplate(f) : f \in Resources(shape')}
  BY DEF LookOn
<1>2. PICK f \in Resources(shape') : facts' = SameTemplate(f)
  BY <1>1
<1>3. Fits(shape', Stated(rule), f)
  BY DEF Resources, Written, Fits
<1>4. /\ DOMAIN facts' = DOMAIN shape' /\ facts' = [x \in DOMAIN shape' |-> facts'[x]]
      /\ \A x \in DOMAIN shape' : facts'[x] = IF x \in TemplateWide(rule) \cap DOMAIN facts THEN facts[x] ELSE f[x]
  BY <1>2, <1>3 DEF SameTemplate, Fits
<1>5. /\ DOMAIN facts = DOMAIN shape
      /\ \A x \in DOMAIN shape : facts[x] \in shape[x] \/ (facts[x] = Open /\ x \notin Stated(rule))
  BY DEF IInv, ResourceIsKnown, Fits
<1>6. \A x \in TemplateWide(rule) \cap DOMAIN shape \cap DOMAIN shape' : shape'[x] = shape[x]
  BY <1>1, RulesShare DEF IInv, ResourceIsKnown, Agree
<1>7. Fits(shape', Stated(rule), facts')
  BY <1>3, <1>4, <1>5, <1>6 DEF Fits
<1>8. ResourceIsKnown'
  BY <1>1, <1>7 DEF IInv, ResourceIsKnown
<1>9. OthersAreMarks'
  <2>1. Marked \in SUBSET Marks /\ (rule \notin FindingsAlone => Marked \cap Unjudged \subseteq Tellable(rule))
    BY KnownMarks DEF IInv
  <2> QED
    BY <1>1, <2>1, ResourcesAssumption DEF IInv, OthersAreMarks
<1>10. LoadedForAll'
  <2> SUFFICES ASSUME rule \in DOMAIN CfgShapes \ FindingsAlone
               PROVE  IF Unloaded(rule, facts') THEN Marked = {"missing"} ELSE "missing" \notin Marked
    BY <1>1 DEF LoadedForAll
  <2>1. /\ rule # "CFG010" => "yaml" \in DOMAIN shape /\ "yaml" \in DOMAIN shape'
        /\ rule = "CFG006" => "environment" \in DOMAIN shape /\ "environment" \in DOMAIN shape'
    BY <1>1, CfgKeys, CfgPackage DEF IInv, ResourceIsKnown
  <2>2. Unloaded(rule, facts') = Unloaded(rule, facts)
    BY <2>1, <1>4, <1>5, CfgPackage DEF Unloaded, CfgWide
  <2>3. IF Unloaded(rule, facts) THEN MarksOf(rule, facts) = {"missing"} ELSE "missing" \notin MarksOf(rule, facts)
    BY MissingIsAlone, CfgPackage DEF IInv, ResourceIsKnown
  <2>4. IF Unloaded(rule, facts) THEN others \subseteq {"missing"} ELSE "missing" \notin others
    BY DEF IInv, LoadedForAll, OthersAreMarks
  <2> QED
    BY <2>2, <2>3, <2>4 DEF Marked
<1>11. SaidBefore'
  BY <1>1 DEF SaidBefore
<1> QED
  BY <1>8, <1>9, <1>10, <1>11 DEF IInv

LEMMA NextIInv == IInv /\ [Next]_vars => IInv'
<1> SUFFICES ASSUME IInv, [Next]_vars PROVE IInv'
  OBVIOUS
<1>1. CASE LookOn
  BY <1>1, LookOnIInv
<1>2. CASE \E x \in DOMAIN facts : Learn(x)
  BY <1>2, LearnIInv
<1>3. CASE UNCHANGED vars
  BY <1>3 DEF vars, IInv, ResourceIsKnown, OthersAreMarks, LoadedForAll, SaidBefore
<1> QED
  BY <1>1, <1>2, <1>3 DEF Next

LEMMA Invariance == Spec => []IInv
<1> QED
  BY InitIInv, NextIInv, PTL DEF Spec

\* Every value is one the template can have, and a rule of any package fails
\* only for a resource at fault and passes only without one, however many
\* resources it looked at (the accumulators of internal/rules).
THEOREM RulesTypeCorrect == Spec => []TypeOK
<1>1. IInv => TypeOK
  <2> SUFFICES ASSUME IInv PROVE TypeOK
    OBVIOUS
  <2>1. Lawful(rule, Tellable(rule), Marked, Result)
    BY KnownMarks DEF IInv
  <2>2. \A x \in DOMAIN facts : facts[x] \in shape[x] \cup {Open}
    BY DEF IInv, ResourceIsKnown, Fits
  <2> QED
    BY <2>1, <2>2 DEF TypeOK, Lawful, IInv, ResourceIsKnown, OthersAreMarks, SaidBefore
<1> QED
  BY Invariance, <1>1, PTL

\* A rule that passed a template does not fail it once a parameter file gives
\* the values it did not have: no rule covered takes an expression for good.  The
\* rules of TargetIsTrusted do (regionOf), as those of the other sets of
\* NotInformed, and are not covered.
THEOREM PassesAreInformed == Spec => []CleanIsInformed
<1>1. IInv => CleanIsInformed
  <2> SUFFICES ASSUME IInv, rule \notin NotInformed, "clean" \in said
               PROVE  Result.is # "failed"
    BY DEF CleanIsInformed, NotInformed
  <2>1. PICK f : Kin(shape, Stated(rule), f, facts) /\ ResultOf(rule, others \cup MarksOf(rule, f)).is = "clean"
    BY DEF IInv, SaidBefore
  <2>2. Steady(rule, ResultOf(rule, others \cup MarksOf(rule, f)), Result)
    BY <2>1, RulesSettle DEF IInv, ResourceIsKnown, OthersAreMarks, Result, Marked
  <2> QED
    BY <2>1, <2>2 DEF Steady
<1> QED
  BY Invariance, <1>1, PTL

\* A rule that failed a template fails it whatever value a parameter file gives
\* the expressions: no value unknown at the time can take a finding back, but
\* for the rules of NotStanding (FND-DEP-011 fails on the target's region).
THEOREM FindingsAreVerdicts == Spec => []FindingsStand
<1>1. IInv => FindingsStand
  <2> SUFFICES ASSUME IInv, rule \notin NotStanding, "failed" \in said
               PROVE  Result.is = "failed"
    BY DEF FindingsStand, NotStanding
  <2>1. PICK f : Kin(shape, Stated(rule), f, facts) /\ ResultOf(rule, others \cup MarksOf(rule, f)).is = "failed"
    BY DEF IInv, SaidBefore
  <2>2. Steady(rule, ResultOf(rule, others \cup MarksOf(rule, f)), Result)
    BY <2>1, RulesSettle DEF IInv, ResourceIsKnown, OthersAreMarks, Result, Marked
  <2> QED
    BY <2>1, <2>2 DEF Steady
<1> QED
  BY Invariance, <1>1, PTL

\* What a rule could not judge, of any of its resources, is told beside its
\* findings and keeps it from passing (acc.result, withNotes, outcome.result).
THEOREM DoubtsAreTold == Spec => []UnjudgedIsTold
<1>1. IInv => UnjudgedIsTold
  <2> SUFFICES ASSUME IInv, rule \notin FindingsAlone
               PROVE  Result.is \in {"clean", "failed"} => Marked \cap Unjudged \subseteq Result.told
    BY DEF UnjudgedIsTold
  <2>1. /\ Marked \cap Unjudged \subseteq Tellable(rule)
        /\ Lawful(rule, Tellable(rule), Marked, Result)
    BY KnownMarks DEF IInv
  <2>2. rule \in DOMAIN CfgShapes /\ "missing" \in Marked => ~Violates(Marked)
    <3> SUFFICES ASSUME rule \in DOMAIN CfgShapes, "missing" \in Marked
                 PROVE  Marked = {"missing"}
      BY DEF Violates, Findings
    <3>1. IF Unloaded(rule, facts) THEN MarksOf(rule, facts) = {"missing"} ELSE "missing" \notin MarksOf(rule, facts)
      BY MissingIsAlone, CfgPackage DEF IInv, ResourceIsKnown
    <3>2. IF Unloaded(rule, facts) THEN others \subseteq {"missing"} ELSE "missing" \notin others
      BY DEF IInv, LoadedForAll, OthersAreMarks
    <3> QED
      BY <3>1, <3>2 DEF Marked
  <2> QED
    BY <2>1, <2>2 DEF Lawful, Tells
<1> QED
  BY Invariance, <1>1, PTL

=============================================================================
