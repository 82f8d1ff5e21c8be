----------------------------- MODULE DoctorGate -----------------------------
(***************************************************************************)
(* The gate of foundry-doctor: what a run of the doctor, preflight and     *)
(* runtime commands turns a project into, from the choice of rules to the  *)
(* exit code a pipeline acts on (internal/rules, internal/suppress,        *)
(* internal/baseline, internal/report/exit.go, internal/app).              *)
(*                                                                         *)
(* The project is a set of problems.  A problem is what a rule reports     *)
(* when it can look: the rule, the resource (with its file), the key the   *)
(* rule chose or NoKey, a line, the text of the evidence and the severity  *)
(* the rule asks for ("" when it leaves that to the catalogue).  Between   *)
(* two runs the project is edited, inputs come and go, days pass, a        *)
(* suppression is written and a baseline is recorded.                      *)
(***************************************************************************)
EXTENDS Integers, FiniteSets

CONSTANTS
  Catalogue,     \* the rules: [id -> [family, group, category, pillar, status, severity, platform, armOnly, azd]]
  AdapterIds,    \* the ids of compiler diagnostics (bicep/...), which have no catalogue entry
  Problems,      \* the problems the project may have
  Entries,       \* the suppressions somebody may write
  Requests,      \* the command lines that are run
  BicepRequired, \* validation.bicep is "required" for the profile
  NoKey,         \* the key of a problem whose rule sets none
  NoFile,        \* there is no baseline file
  AnyOf,         \* a selector of a suppression that is left empty
  MaxDay,        \* bound: the days that pass
  MaxOffset,     \* bound: the lines an edit moves everything by
  MaxFaults      \* bound: the inputs that are out of reach at a time

RuleIds == DOMAIN Catalogue
AzdVersions == {Catalogue[r].azd : r \in RuleIds} \ {"any"}
Severities == {"info", "warning", "error"}
InputStates == {"readable", "partial", "missing", "failing", "uncertain", "broken", "nothing"}
EngineId == "FND-SYS-SUPPRESSION-EXPIRED"

ASSUME CatalogueAssumption ==
  /\ \A r \in RuleIds : Catalogue[r].family \in {"native", "dep", "run"} /\ Catalogue[r].inputs \subseteq InputStates
  /\ EngineId \notin RuleIds \union AdapterIds
  /\ RuleIds \cap AdapterIds = {}
ASSUME ProblemsAssumption ==
  \A p \in Problems :
    /\ p.rule \in RuleIds \union AdapterIds
    /\ p = [rule |-> p.rule, resource |-> p.resource, key |-> p.key, line |-> p.line, text |-> p.text, override |-> p.override]
ASSUME RequestsAssumption == \A req \in Requests : req.failOn \in Severities /\ req.minSeverity \in Severities
\* An entry names a rule or a finding, perhaps a file too; the fingerprint it
\* holds was copied from the finding that a problem had when it was written.
ASSUME EntriesAssumption ==
  \A e \in Entries :
    /\ e.expires \in Int
    /\ e.rule = AnyOf => e.fingerprintOf # AnyOf
ASSUME BoundsAssumption == MaxDay \in Nat /\ MaxOffset \in Nat /\ MaxFaults \in Nat

VARIABLES
  problems,      \* what is wrong with the project now
  offset,        \* by how many lines edits have moved everything
  input,         \* [rule -> what the rule finds when it looks]
  arm,           \* the compiled template: "compiled", "failed" or "none"
  azdVersion,    \* the azd version found, "" when none is
  baseline,      \* the fingerprints in the baseline file, or NoFile
  recorded,      \* history: the problems (with their lines) the baseline was made from
  suppressions,  \* the entries of the suppression file
  today          \* the day

project == <<problems, offset, input, arm, azdVersion>>
files == <<baseline, recorded, suppressions>>
vars == <<project, files, today>>

-----------------------------------------------------------------------------
(* Severities and fingerprints.                                            *)

rank(s) == CASE s = "info" -> 1 [] s = "warning" -> 2 [] s = "error" -> 3 [] OTHER -> 0

\* The problem as it stands in the edited files.
Moved(p) == [p EXCEPT !.line = @ + offset]

\* A finding without a key gets one from its own line and evidence, never from
\* its siblings (resolveFingerprintCollisions).
derivedKeyFromSiblings(p) ==
  IF p.key = NoKey THEN <<"auto", Cardinality({q \in problems : q.rule = p.rule /\ q.line + offset < p.line})>> ELSE <<p.key>>
derivedKey(p) == IF p.key = NoKey THEN <<"auto", p.line, p.text>> ELSE <<p.key>>
Fingerprint(p) == <<p.rule, p.resource, derivedKey(p)>>

\* A baseline file, however empty, is not the absence of one.
Fingerprints ==
  {<<p.rule, p.resource, <<p.key>>>> : p \in Problems}
    \union {<<p.rule, p.resource, <<"auto", p.line + o, p.text>>>> : p \in Problems, o \in 0..MaxOffset}
ASSUME NoFileAssumption == \A F \in SUBSET Fingerprints : F # NoFile

\* The severity of a rule, or the reason it cannot have one (SeverityFor).
SeverityFor(r) ==
  CASE Catalogue[r].platform -> "error"
    [] Catalogue[r].severity \in Severities -> Catalogue[r].severity
    [] OTHER -> ""
severitySkip(r) == IF Catalogue[r].severity = "" THEN "profile-key-missing" ELSE "invalid-catalogue-metadata"

\* A rule may lower the severity of one finding, unless its basis is the platform.
lowerSeverity(r, override) ==
  IF ~Catalogue[r].platform /\ override \in Severities /\ rank(override) < rank(SeverityFor(r))
  THEN override ELSE SeverityFor(r)

\* The finding the engine makes of a problem; a compiler diagnostic bypasses it.
Enrich(p) ==
  [rule |-> p.rule, resource |-> p.resource, fingerprint |-> Fingerprint(p), suppressed |-> FALSE, baselined |-> FALSE,
   severity |-> IF p.rule \in AdapterIds THEN p.override ELSE lowerSeverity(p.rule, p.override)]

-----------------------------------------------------------------------------
(* Which rules run.                                                        *)

\* Tokens of --rules; exact ids become required.
Ids(tokens) == UNION {t.ids : t \in {u \in tokens : u.kind \in {"id", "glob"}}}
Values(tokens, kind) == {t.value : t \in {u \in tokens : u.kind = kind}}
required(req) == UNION {t.ids : t \in {u \in req.include : u.kind = "id"}}

\* Values of one field are alternatives, fields must all match, and an
\* exclusion always wins (BuildSelector, Selector.Matches).
Matches(req, r) ==
  LET in(allowed, v) == allowed = {} \/ v \in allowed
  IN  /\ {r, Catalogue[r].group, Catalogue[r].category, Catalogue[r].pillar} \cap req.exclude = {}
      /\ in(Ids(req.include), r)
      /\ in(Values(req.include, "group"), Catalogue[r].group)
      /\ in(Values(req.include, "category"), Catalogue[r].category)
      /\ in(Values(req.include, "pillar"), Catalogue[r].pillar)

Live(r) == Catalogue[r].status \notin {"dropped", "deprecated"}
Selection == [req \in Requests |-> {r \in RuleIds : Matches(req, r) /\ Live(r)}]
Selected(req) == Selection[req]

\* Each command registers its own family of rules; the others are not implemented there.
Registered(req, r) == Catalogue[r].family = req.command

\* Why the engine does not evaluate a selected rule, "" when it does.
EngineSkip(req, r) ==
  CASE ~Registered(req, r) -> "not-implemented"
    [] SeverityFor(r) = "" -> severitySkip(r)
    [] req.command = "native" /\ arm = "none" /\ Catalogue[r].armOnly -> "synthetic-infrastructure"
    [] Catalogue[r].azd # "any" /\ azdVersion = "" -> "azd-version-unknown"
    [] Catalogue[r].azd # "any" /\ azdVersion # Catalogue[r].azd -> "unsupported-version"
    [] OTHER -> ""

\* What the rule itself answers when it cannot look; "failing" is an error or a panic.
RuleSkip(r) ==
  CASE input[r] = "missing" -> "input-unavailable"
    [] input[r] = "failing" -> "rule-error"
    [] input[r] = "uncertain" -> "uncertain"
    [] input[r] = "broken" -> "uncertain-internal"
    [] input[r] = "nothing" -> "not-applicable"
    [] OTHER -> ""

reason(req, r) ==
  LET engine == EngineSkip(req, r)
  IN  IF engine # "" THEN engine ELSE RuleSkip(r)
Evaluated(req) == {r \in Selected(req) : reason(req, r) = ""}

\* Rules that did not run, and resources a rule that ran could not look at.
EngineSkips(req) ==
  LET Skip(r, why) == [rule |-> r, reason |-> why, required |-> r \in required(req)]
      ran == Evaluated(req)
  IN  {Skip(r, reason(req, r)) : r \in Selected(req) \ ran}
        \union {Skip(r, "unresolved-expression") : r \in {s \in ran : input[s] = "partial"}}

\* Compiler diagnostics belong to a run that names no rule, group or pillar.
AdapterSelected(req, id) ==
  /\ req.command = "native"
  /\ arm # "none"
  /\ \A t \in req.include : t.kind = "category"
  /\ id \notin req.exclude

Answered(req, r) ==
  IF r \in AdapterIds THEN AdapterSelected(req, r) ELSE r \in Selected(req) /\ reason(req, r) = ""
EngineFindings(req) == {Enrich(Moved(p)) : p \in {q \in problems : Answered(req, q.rule)}}

-----------------------------------------------------------------------------
(* Skips, baseline, suppressions and the exit code.                        *)

byDesign == {"not-implemented", "not-applicable", "synthetic-infrastructure", "profile-key-missing"}
ClassifySkip(s) == IF s.reason \in byDesign THEN "by-design" ELSE "hides-check"

\* Preflight and runtime decide anew which skips are required.
Skips(req) ==
  CASE req.command = "dep" -> {[s EXCEPT !.required = s.reason \notin {"uncertain", "uncertain-internal"}] : s \in EngineSkips(req)}
    [] req.command = "run" ->
         {[s EXCEPT !.required = ClassifySkip(s) # "by-design" /\ s.reason # "uncertain"] : s \in EngineSkips(req)}
    [] OTHER -> EngineSkips(req)

applyBaseline(fs) ==
  IF baseline = NoFile THEN fs ELSE {[f EXCEPT !.baselined = f.fingerprint \in baseline] : f \in fs}

ExpiredADayLate(e) == today > e.expires + 1
Expired(e) == today > e.expires
matchesRuleAndFile(e, f) ==
  /\ e.rule = AnyOf \/ e.rule = f.rule
  /\ e.path = AnyOf \/ e.path = f.resource
matches(e, f) ==
  /\ e.fingerprintOf = AnyOf \/ Fingerprint(e.fingerprintOf) = f.fingerprint
  /\ e.rule = AnyOf \/ e.rule = f.rule
  /\ e.path = AnyOf \/ e.path = f.resource

\* A live entry marks what it matches; an expired one hides nothing and is an
\* error of its own.
expiredFinding(e) ==
  [rule |-> EngineId, resource |-> e.rule, fingerprint |-> <<EngineId, e.rule, e.fingerprintOf>>, suppressed |-> FALSE,
   baselined |-> FALSE, severity |-> "error"]
applySuppressions(fs) ==
  LET live == {e \in suppressions : ~Expired(e)}
  IN  {[f EXCEPT !.suppressed = \E e \in live : matches(e, f)] : f \in fs}
        \union {expiredFinding(e) : e \in suppressions \ live}

\* Findings below --min-severity are not shown and do not count.
Shown(req) == {f \in applySuppressions(applyBaseline(EngineFindings(req))) : rank(f.severity) >= rank(req.minSeverity)}

active(f) == ~f.suppressed /\ ~f.baselined

ClassifyExit(req, fs, skips) ==
  CASE \E s \in skips : s.required -> 2
    [] req.strict /\ (\E s \in skips : ClassifySkip(s) = "hides-check") -> 3
    [] \E f \in fs : active(f) /\ rank(f.severity) >= rank(req.failOn) -> 1
    [] OTHER -> 0

\* A template that does not compile stops the doctor where the profile requires Bicep.
CannotRun(req) ==
  \/ rank(req.failOn) < rank(req.minSeverity)
  \/ req.command = "native" /\ arm = "failed" /\ BicepRequired

\* Preflight and runtime fall back to every rule of theirs when none ran.
readyIds(req, ran) == IF ran = {} THEN {r \in RuleIds : Catalogue[r].family = req.command} ELSE ran

\* Readiness is decided from the raw outcomes; the doctor does not report it.
BuildReadiness(req, ran, skips) ==
  IF req.command = "native" THEN {}
  ELSE readyIds(req, ran) \ ({f.rule : f \in EngineFindings(req)} \union {s.rule : s \in skips})

RunReport(req) ==
  LET fs == Shown(req)
      skips == Skips(req)
      ran == Evaluated(req)
  IN  [request |-> req, exit |-> ClassifyExit(req, fs, skips), findings |-> fs,
       evaluated |-> ran, ready |-> BuildReadiness(req, ran, skips)]

Stopped(req) == [request |-> req, exit |-> 2, findings |-> {}, evaluated |-> {}, ready |-> {}]

BaselineRefused(req) == baseline # NoFile /\ ~req.force

Report(req) == IF CannotRun(req) THEN Stopped(req) ELSE RunReport(req)

-----------------------------------------------------------------------------
(* The project and its files between runs.                                 *)

Init ==
  /\ problems = {} /\ offset = 0
  /\ input = [r \in RuleIds |-> "readable"]
  /\ arm = "compiled" /\ azdVersion \in AzdVersions
  /\ baseline = NoFile /\ recorded = {}
  /\ suppressions = {} /\ today = 0

Breaks ==
  /\ \E p \in Problems \ problems : problems' = problems \union {p}
  /\ UNCHANGED <<offset, input, arm, azdVersion, files, today>>

Fixes ==
  /\ \E p \in problems : problems' = problems \ {p}
  /\ UNCHANGED <<offset, input, arm, azdVersion, files, today>>

EditAbove ==
  /\ offset < MaxOffset
  /\ offset' = offset + 1
  /\ UNCHANGED <<problems, input, arm, azdVersion, files, today>>

\* The inputs that are out of reach in a state.
Faults(i, a, v) ==
  Cardinality({r \in RuleIds : i[r] # "readable"}) + (IF a = "compiled" THEN 0 ELSE 1) + (IF v = "" THEN 1 ELSE 0)

InputChanges ==
  /\ \E r \in RuleIds : \E s \in Catalogue[r].inputs : input' = [input EXCEPT ![r] = s]
  /\ Faults(input', arm, azdVersion) <= MaxFaults
  /\ UNCHANGED <<problems, offset, arm, azdVersion, files, today>>

TemplateChanges ==
  /\ arm' \in {"compiled", "failed", "none"}
  /\ Faults(input, arm', azdVersion) <= MaxFaults
  /\ UNCHANGED <<problems, offset, input, azdVersion, files, today>>

AzdChanges ==
  /\ azdVersion' \in AzdVersions \union {""}
  /\ Faults(input, arm, azdVersion') <= MaxFaults
  /\ UNCHANGED <<problems, offset, input, arm, files, today>>

Suppress ==
  /\ \E e \in Entries : suppressions' = suppressions \union {e}
  /\ UNCHANGED <<project, baseline, recorded, today>>

NextDay ==
  /\ today < MaxDay
  /\ today' = today + 1
  /\ UNCHANGED <<project, files>>

recordAfterSuppressing(req) ==
  /\ req.writeBaseline
  /\ ~CannotRun(req) /\ ~BaselineRefused(req)
  /\ baseline' = {f.fingerprint : f \in applySuppressions(EngineFindings(req))}
  /\ recorded' = {Moved(p) : p \in {q \in problems : Fingerprint(Moved(q)) \in baseline'}}
  /\ UNCHANGED <<project, suppressions, today>>

\* --write-baseline records every finding of the run, whatever its severity,
\* and replaces a file only with --force.
WriteBaseline(req) ==
  /\ req.writeBaseline
  /\ ~CannotRun(req) /\ ~BaselineRefused(req)
  /\ baseline' = {f.fingerprint : f \in EngineFindings(req)}
  /\ recorded' = {Moved(p) : p \in {q \in problems : Fingerprint(Moved(q)) \in baseline'}}
  /\ UNCHANGED <<project, suppressions, today>>

Next ==
  \/ Breaks \/ Fixes \/ EditAbove \/ InputChanges \/ TemplateChanges \/ AzdChanges
  \/ Suppress \/ NextDay
  \/ \E req \in Requests : WriteBaseline(req)

Spec == Init /\ [][Next]_vars

-----------------------------------------------------------------------------
(* Properties.                                                             *)

\* The problems as they may have stood when a baseline was recorded.
MovedProblems == {[p EXCEPT !.line = @ + o] : p \in Problems, o \in 0..MaxOffset}

\* Types of the variables.  The baseline file holds fingerprints of problems
\* alone, never of the doctor's own findings (writeBaseline runs before the
\* suppressions are applied).
TypeOK ==
  /\ problems \subseteq Problems
  /\ offset \in 0..MaxOffset
  /\ input \in [RuleIds -> InputStates]
  /\ arm \in {"compiled", "failed", "none"}
  /\ azdVersion \in AzdVersions \union {""}
  /\ baseline = NoFile \/ baseline \subseteq Fingerprints
  /\ recorded \subseteq MovedProblems
  /\ suppressions \subseteq Entries
  /\ today \in 0..MaxDay

\* The commands that report; --write-baseline records instead.
Reports == {Report(req) : req \in {q \in Requests : ~q.writeBaseline}}
Passing == {r \in Reports : r.exit = 0}

\* What tells two problems apart for the team that recorded a baseline: the
\* key where the rule sets one, otherwise the place and the wording.
SameProblem(p, q) ==
  /\ p.rule = q.rule /\ p.resource = q.resource /\ p.key = q.key
  /\ p.key = NoKey => p.line = q.line /\ p.text = q.text

Recorded(p) == \E q \in recorded : SameProblem(Moved(p), q)
Excused(p) ==
  \/ Recorded(p)
  \/ \E e \in suppressions : /\ today <= e.expires
                             /\ e.rule \in {AnyOf, p.rule}
                             /\ e.path \in {AnyOf, p.resource}
                             /\ e.fingerprintOf = AnyOf \/ SameProblem(Moved(p), e.fingerprintOf)

\* The gate: where a run exits 0, whatever a rule that ran finds at --fail-on or
\* above is a problem that was recorded in the baseline or is under a
\* suppression that is still valid and means that rule, that file and, where
\* it holds a fingerprint, that very problem.  A finding that only resembles a recorded
\* one, an entry that has run out, --min-severity or a severity that a rule
\* lowered on a platform fact may not let it through.
NothingNewPasses ==
  \A r \in Passing : \A p \in {q \in problems : ~Excused(q)} :
    p.rule \in r.evaluated => rank(lowerSeverity(p.rule, p.override)) < rank(r.request.failOn)

\* Recorded once, excused for good: no other problem that comes or goes, no edit
\* above a finding that carries a key, and no suppression makes a recorded
\* problem count in a later run.
BaselineHolds ==
  \A r \in Reports : \A p \in {q \in problems : Recorded(q)} :
    \A f \in r.findings : f.fingerprint = Fingerprint(Moved(p)) => f.baselined

\* An expired suppression never goes unnoticed: while one is in the file no run
\* exits 0, also when what it once hid is gone or is in the baseline.
ExpiryBites ==
  (\E e \in suppressions : today > e.expires) => Passing = {}

\* A rule the readiness summary calls ready has run (readiness.go: it
\* classifies every evaluated rule, and skipped is never ready).
ReadyRan ==
  \A r \in Reports : r.ready \subseteq r.evaluated
=============================================================================
